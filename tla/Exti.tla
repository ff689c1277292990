-------------------------------- MODULE Exti --------------------------------
(***************************************************************************)
(* The external interrupts of src/src/ll/f103/exti_f103.c: one group of    *)
(* lines that share a vector, as EXTI9_5_IRQHandler and                    *)
(* EXTI15_10_IRQHandler have (the other groups have one line).  A bit of   *)
(* PR is set by an edge and cleared by writing a one to it, so             *)
(* extiClearFlag, whose EXTI->PR |= is a load and a store, clears every    *)
(* bit it has loaded.  The routing of a port to a line is left out: a line *)
(* is the pin that has been routed to it.                                  *)
(***************************************************************************)
EXTENDS Naturals

CONSTANT Last    \* the group has the lines 0 to Last

VARIABLES
    imr, rtsr, ftsr,  \* EXTI: the lines enabled, those that sense a rise, a fall
    pr,               \* EXTI: the lines pending
    nvic,             \* the group's vector is enabled
    exti_handlers,    \* the lines with a registered handler
    main, isr,        \* where main program and handler are, on which line, and
                      \* what extiClearFlag has loaded
    owed,             \* ghost: lines with an edge since their handler was called
    late              \* ghost: those of them whose last edge came during that handler

regs == <<imr, rtsr, ftsr, nvic>>
vars == <<regs, pr, exti_handlers, main, isr, owed, late>>

Lines == 0 .. Last
Edges == {"EXTI_RISING_EDGE", "EXTI_FALLING_EDGE", "EXTI_BOTH_EDGES"}

At(pc, line) == [pc |-> pc, line |-> line, edge |-> "none", pr |-> {}]

\* The handler is called for the edges of these lines, or they are cleared.
Settle(lines) == owed' = owed \ lines /\ late' = late \ lines

Init == /\ imr = {} /\ rtsr = {} /\ ftsr = {} /\ pr = {} /\ nvic = FALSE
        /\ exti_handlers = {} /\ owed = {} /\ late = {}
        /\ main = At("idle", 0) /\ isr = At("off", 0)

-----------------------------------------------------------------------------
(* The pins and the EXTI                                                   *)

\* The handler of the line runs, or has returned and its bit is not cleared yet.
Serving(l) == isr.pc \in {"load", "store", "clear"} /\ isr.line = l

\* The line rises or falls, and the EXTI senses it.
Edge(l) ==
    /\ l \in rtsr \cup ftsr
    /\ pr' = pr \cup {l}
    /\ LET wanted == {l} \cap imr \cap exti_handlers IN
       owed' = owed \cup wanted /\ late' = IF Serving(l) THEN late \cup wanted ELSE late \ {l}
    /\ UNCHANGED <<regs, exti_handlers, main, isr>>

-----------------------------------------------------------------------------
(* extiInit and extiRegisterHandler, called by the main program            *)

Running == isr.pc = "off"

extiInit(l, e) ==
    /\ Running /\ main.pc = "idle"
    /\ main' = [At("unmask", l) EXCEPT !.edge = e]
    /\ UNCHANGED <<regs, pr, exti_handlers, isr, owed, late>>

Unmask ==
    /\ Running /\ main.pc = "unmask"
    /\ imr' = imr \cup {main.line}
    /\ main' = [main EXCEPT !.pc = "sense"]
    /\ UNCHANGED <<rtsr, ftsr, nvic, pr, exti_handlers, isr, owed, late>>

\* A direction once set is never taken back.
Sense ==
    /\ Running /\ main.pc = "sense"
    /\ rtsr' = IF main.edge # "EXTI_FALLING_EDGE" THEN rtsr \cup {main.line} ELSE rtsr
    /\ ftsr' = IF main.edge # "EXTI_RISING_EDGE" THEN ftsr \cup {main.line} ELSE ftsr
    /\ main' = [main EXCEPT !.pc = "enable"]
    /\ UNCHANGED <<imr, nvic, pr, exti_handlers, isr, owed, late>>

Enable ==
    /\ Running /\ main.pc = "enable"
    /\ nvic' = TRUE
    /\ main' = At("idle", 0)
    /\ UNCHANGED <<imr, rtsr, ftsr, pr, exti_handlers, isr, owed, late>>

extiRegisterHandler(l) ==
    /\ Running /\ main.pc = "idle"
    /\ exti_handlers' = exti_handlers \cup {l}
    /\ UNCHANGED <<regs, pr, main, isr, owed, late>>

-----------------------------------------------------------------------------
(* extiClearFlag, called by the main program or by a line's handler        *)

extiClearFlag(l) ==
    /\ Running /\ main.pc = "idle"
    /\ main' = At("load", l)
    /\ UNCHANGED <<regs, pr, exti_handlers, isr, owed, late>>

MainLoad ==
    /\ Running /\ main.pc = "load"
    /\ main' = [main EXCEPT !.pc = "store", !.pr = pr]
    /\ UNCHANGED <<regs, pr, exti_handlers, isr, owed, late>>

MainStore ==
    /\ Running /\ main.pc = "store"
    /\ pr' = pr \ (main.pr \cup {main.line})
    /\ Settle(main.pr \cup {main.line})
    /\ main' = At("idle", 0)
    /\ UNCHANGED <<regs, exti_handlers, isr>>

HandlerLoad ==
    /\ isr.pc = "load"
    /\ isr' = [isr EXCEPT !.pc = "store", !.pr = pr]
    /\ UNCHANGED <<regs, pr, exti_handlers, main, owed, late>>

HandlerStore ==
    /\ isr.pc = "store"
    /\ pr' = pr \ (isr.pr \cup {isr.line})
    /\ Settle(isr.pr \cup {isr.line})
    /\ isr' = At("clear", isr.line)
    /\ UNCHANGED <<regs, exti_handlers, main>>

-----------------------------------------------------------------------------
(* The group's handler: extiGroupDispatch over its lines                   *)

Interrupt ==
    /\ isr.pc = "off" /\ nvic /\ pr \cap imr # {}
    /\ isr' = At("test", 0)
    /\ UNCHANGED <<regs, pr, exti_handlers, main, owed, late>>

\* Mutant: the last line of the group is left out.
NextLineShort == isr' = IF isr.line + 1 < Last THEN At("test", isr.line + 1)
                                               ELSE At("off", 0)

NextLine == isr' = IF isr.line < Last THEN At("test", isr.line + 1) ELSE At("off", 0)

Test ==
    /\ isr.pc = "test"
    /\ IF isr.line \notin pr \cap imr THEN NextLine
       ELSE isr' = At(IF isr.line \in exti_handlers THEN "call" ELSE "clear", isr.line)
    /\ UNCHANGED <<regs, pr, exti_handlers, main, owed, late>>

\* The handler belongs to the application; it may call extiClearFlag.
CallHandler ==
    /\ isr.pc = "call"
    /\ \E p \in {"load", "clear"} : isr' = At(p, isr.line)
    /\ Settle({isr.line})
    /\ UNCHANGED <<regs, pr, exti_handlers, main>>

\* Mutant: the flag is cleared as extiClearFlag does.
ClearAll ==
    /\ isr.pc = "clear"
    /\ pr' = {}
    /\ NextLine
    /\ UNCHANGED <<regs, exti_handlers, main, owed, late>>

Clear ==
    /\ isr.pc = "clear"
    /\ pr' = pr \ {isr.line}
    /\ NextLine
    /\ UNCHANGED <<regs, exti_handlers, main, owed, late>>

-----------------------------------------------------------------------------
MainStep == Unmask \/ Sense \/ Enable \/ MainLoad \/ MainStore
Handler  == Interrupt \/ Test \/ CallHandler \/ HandlerLoad \/ HandlerStore \/ Clear

Next == \/ MainStep \/ Handler
        \/ \E l \in Lines : \/ Edge(l) \/ extiRegisterHandler(l) \/ extiClearFlag(l)
                            \/ \E e \in Edges : extiInit(l, e)

Spec == Init /\ [][Next]_vars

\* A pending interrupt is taken, handlers and calls run on.
LiveSpec == Spec /\ WF_vars(Handler) /\ WF_vars(MainStep)

-----------------------------------------------------------------------------
(* Properties                                                              *)

TypeOK ==
    /\ imr \subseteq Lines /\ rtsr \subseteq Lines
    /\ ftsr \subseteq Lines /\ pr \subseteq Lines /\ exti_handlers \subseteq Lines
    /\ nvic \in BOOLEAN /\ main.line \in Lines /\ isr.line \in Lines

\* An edge whose handler has not been called since is still pending on an
\* enabled line, whatever arrives meanwhile.  Two things forget edges: dispatch,
\* which clears a line's bit behind its handler (61) and with it every edge of
\* that line since the handler was called (late), and no other line's edge; and
\* extiClearFlag, which clears all that its load has seen.
EdgesKept == owed \ late \subseteq pr \cap imr

\* And the handler is called for it, unless extiClearFlag has forgotten it.
EdgesServed == \A l \in Lines : l \in owed \ late ~> l \notin owed \ late
=============================================================================
