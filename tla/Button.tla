-------------------------------- MODULE Button --------------------------------
(***************************************************************************)
(* src/Midleware/button.c: a push button that the application polls.       *)
(* Button_CheckPress measures a press with millis(), which wraps around,   *)
(* from the poll that first finds the button down to the one that finds it *)
(* up, and takes a short one for a bounce.  The contact bounces for some   *)
(* milliseconds when it closes and when it opens; in between the level is  *)
(* whatever it likes.                                                      *)
(***************************************************************************)
EXTENDS Naturals, Sequences

CONSTANTS
    Mod,             \* the range of the millisecond counter (2^32)
    debounce_ms, long_press_ms,
    Bounce,          \* the contact bounces no longer; Bounce + Gap < debounce_ms
    Gap,             \* polls are no further apart
    MaxClosed        \* bound: the button is held no longer; less than Mod by far

VARIABLES
    now,               \* msTicks
    is_pressed,        \* btn->is_pressed
    press_start_ms,    \* btn->press_start_ms
    level,             \* the pin, inverted: TRUE while it reads as pressed
    phase, age,        \* the contact, and for how many milliseconds
    polled,            \* milliseconds since the last poll
    hold,              \* history: how long the last press was held
    clicks             \* history: the events of this press

button == <<is_pressed, press_start_ms>>
vars   == <<now, button, level, phase, age, polled, hold, clicks>>

Ticks  == 0 .. Mod - 1
Phases == {"open", "closing", "closed", "opening"}
Events == {"BTN_NO_EVENT", "BTN_SHORT_CLICK", "BTN_LONG_CLICK"}

Minus(s, t) == IF s >= t THEN s - t ELSE s + Mod - t

-----------------------------------------------------------------------------
(* The contact and the time                                                *)

\* Bouncing, it may read either way.
Toggle ==
    /\ phase \in {"closing", "opening"}
    /\ level' = ~level
    /\ UNCHANGED <<now, button, phase, age, polled, hold, clicks>>

Turn(p) == phase' = p /\ age' = 0 /\ UNCHANGED <<now, button, polled>>

\* Pressed again only after a poll has found it open.
Press   == /\ phase = "open" /\ age > Gap
           /\ Turn("closing") /\ hold' = 0 /\ clicks' = <<>> /\ UNCHANGED level
Closed  == phase = "closing" /\ Turn("closed") /\ level' = TRUE /\ UNCHANGED <<hold, clicks>>
Release == /\ phase = "closed"
           /\ Turn("opening") /\ hold' = age /\ UNCHANGED <<level, clicks>>
Open    == phase = "opening" /\ Turn("open") /\ level' = FALSE /\ UNCHANGED <<hold, clicks>>

\* What each phase may last, an open contact staying so for ever.
Limit == IF phase = "closed" THEN MaxClosed ELSE IF phase = "open" THEN Gap + 1 ELSE Bounce

SysTick_Handler ==
    /\ polled < Gap
    /\ age < Limit \/ phase = "open"
    /\ now' = (now + 1) % Mod
    /\ age' = IF age < Limit THEN age + 1 ELSE age
    /\ polled' = polled + 1
    /\ UNCHANGED <<button, level, phase, hold, clicks>>

-----------------------------------------------------------------------------
(* The button                                                              *)

\* Button_Init, with the button up or held.
Init ==
    /\ now \in Ticks
    /\ level \in BOOLEAN /\ phase = (IF level THEN "closed" ELSE "open") /\ age = 0
    /\ is_pressed = level /\ press_start_ms = (IF level THEN now ELSE 0)
    /\ polled = 0 /\ hold = 0 /\ clicks = <<>>

\* Mutant: times compared without the wrap-around.
KindPlain(duration) ==
    IF now < press_start_ms + debounce_ms THEN "BTN_NO_EVENT"
    ELSE IF now < press_start_ms + long_press_ms THEN "BTN_SHORT_CLICK" ELSE "BTN_LONG_CLICK"

Kind(duration) ==
    IF duration < debounce_ms THEN "BTN_NO_EVENT"
    ELSE IF duration < long_press_ms THEN "BTN_SHORT_CLICK" ELSE "BTN_LONG_CLICK"

Button_CheckPress ==
    /\ is_pressed' = level
    /\ press_start_ms' = IF level /\ ~is_pressed THEN now ELSE press_start_ms
    /\ LET action == IF is_pressed /\ ~level THEN Kind(Minus(now, press_start_ms))
                                             ELSE "BTN_NO_EVENT"
       IN  clicks' = IF action = "BTN_NO_EVENT" THEN clicks ELSE Append(clicks, action)
    /\ polled' = 0
    /\ UNCHANGED <<now, level, phase, age, hold>>

Next == \/ Toggle \/ Press \/ Closed \/ Release \/ Open
        \/ SysTick_Handler \/ Button_CheckPress

Spec == Init /\ [][Next]_vars

-----------------------------------------------------------------------------
(* Properties                                                              *)

TypeOK ==
    /\ now \in Ticks /\ is_pressed \in BOOLEAN /\ press_start_ms \in Ticks
    /\ level \in BOOLEAN /\ phase \in Phases /\ age \in 0 .. MaxClosed + Bounce + Gap + 1
    /\ polled \in 0 .. Gap /\ hold \in 0 .. MaxClosed
    /\ clicks \in Seq(Events \ {"BTN_NO_EVENT"})

\* However the contact bounces, whenever the polls come and wherever the
\* counter wraps around, a press is reported once at the most; once it is over
\* it has been reported if it was held as long as the debounce time and a poll
\* interval, and as what it was, but for what bounces and polls blur.
Clicks ==
    /\ TypeOK /\ Len(clicks) <= 1
    /\ phase = "open" /\ age > Gap /\ hold >= debounce_ms + Gap =>
          /\ Len(clicks) = 1
          /\ hold >= long_press_ms + Gap => clicks[1] = "BTN_LONG_CLICK"
          /\ hold + 2 * Bounce + Gap < long_press_ms => clicks[1] = "BTN_SHORT_CLICK"
=============================================================================
