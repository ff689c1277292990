--------------------------- MODULE Numbers_proofs ---------------------------
(***************************************************************************)
(* Safety of the parts MCNumbers composes, for all values of their         *)
(* constants: the commit timer, the button, the lengths of requests, the   *)
(* timing of the port and the CRC.                                         *)
(* Each has an invariant of its own; as only the part chosen moves, each   *)
(* invariant holds whatever `part' is.                                     *)
(***************************************************************************)
EXTENDS MCNumbers, Integers, SequenceTheorems, FiniteSetTheorems, TLAPS

-----------------------------------------------------------------------------
(* The commit timer                                                        *)

\* Unsigned arithmetic stays in range.
LEMMA TicksType ==
  \A s, d \in Ticks : Plus(s, d) \in Ticks /\ Minus(s, d) \in Ticks
  BY CommitAssumption DEF Ticks, Mod, Plus, Minus

\* One tick makes every distance one longer.
LEMMA OneTick ==
  ASSUME NEW s \in Ticks, NEW t \in Ticks, Minus(s, t) < Half
  PROVE  Minus(Plus(s, 1), t) = Minus(s, t) + 1
  BY CommitAssumption DEF Ticks, Mod, Plus, Minus

\* Counting back from one tick later, one tick more, leads to the same time.
LEMMA SameStamp ==
  ASSUME NEW s \in Ticks, NEW d \in 0 .. MaxAge - 1
  PROVE  Minus(Plus(s, 1), d + 1) = Minus(s, d)
  BY CommitAssumption DEF Ticks, Mod, Plus, Minus

\* A stamp that is age old, plus a delay, is reached when the delay is over.
LEMMA ReachedWhenOver ==
  ASSUME NEW s \in Ticks, NEW age \in 0 .. MaxAge, NEW d \in 0 .. MaxAge
  PROVE  TimeReached(s, Plus(Minus(s, age), d)) <=> age >= d
  BY CommitAssumption DEF Ticks, Mod, Plus, Minus, TimeReached

\* The distance to a stamp leads back to it.
LEMMA BackAgain ==
  ASSUME NEW s \in Ticks, NEW t \in Ticks
  PROVE  Minus(s, Minus(s, t)) = t
  BY CommitAssumption DEF Ticks, Mod, Minus

\* Every step keeps the stamps and the ages together.
LEMMA ClockStep == ClockInv /\ [Next]_vars => ClockInv'
  <1> SUFFICES ASSUME ClockInv, [Next]_vars PROVE ClockInv'
    OBVIOUS
  <1> USE CommitAssumption
  <1>0. TypeOK
    BY DEF ClockInv
  <1>a. /\ 0 \in Ticks /\ 1 \in Ticks /\ Delay \in Ticks
        /\ since_last \in Ticks /\ since_first \in Ticks
        /\ 0 \in 0 .. MaxAge
    BY <1>0 DEF TypeOK, Ticks, Mod
  <1>b. Minus(now, 0) = now /\ Minus(now, now) = 0
    BY <1>0 DEF TypeOK, Ticks, Mod, Minus
  <1>1. CASE NV_MarkDirty
    <2>1. TypeOK'
      BY <1>0, <1>1, <1>a, TicksType DEF TypeOK, NV_MarkDirty
    <2>2. (since_last <= since_first)'
      BY <1>0, <1>1 DEF TypeOK, NV_MarkDirty
    <2>3. Minus(now', nv_first_dirty_ms') = since_first'
      BY <1>1, <1>b DEF ClockInv, NV_MarkDirty
    <2>4. nv_deadline_ms' = Plus(Minus(now', since_last'), Delay)
      BY <1>1, <1>b DEF NV_MarkDirty
    <2>5. nv_dirty'
      BY <1>1 DEF NV_MarkDirty
    <2>6. (nv_dirty => /\ Minus(now, nv_first_dirty_ms) = since_first
                       /\ nv_deadline_ms = Plus(Minus(now, since_last), Delay))'
      BY <2>3, <2>4
    <2> QED BY <2>1, <2>2, <2>5, <2>6 DEF ClockInv
  <1>2. CASE SysTick_Handler
    <2>1. TypeOK'
      BY <1>0, <1>2, <1>a, TicksType DEF ClockInv, TypeOK, SysTick_Handler
    <2>2. (since_last <= since_first)'
      BY <1>0, <1>2 DEF ClockInv, TypeOK, SysTick_Handler
    <2>3. ASSUME nv_dirty
          PROVE  Minus(now', nv_first_dirty_ms') = since_first'
      BY <1>0, <1>2, <2>3, OneTick DEF ClockInv, TypeOK, SysTick_Handler
    <2>4. ASSUME nv_dirty
          PROVE  nv_deadline_ms' = Plus(Minus(now', since_last'), Delay)
      <3>1. since_last \in 0 .. MaxAge - 1
        BY <1>0, <1>2, <2>4 DEF ClockInv, TypeOK, SysTick_Handler
      <3> QED BY <1>0, <1>2, <2>4, <3>1, SameStamp DEF ClockInv, TypeOK, SysTick_Handler
    <2>5. nv_dirty' = nv_dirty
      BY <1>2 DEF SysTick_Handler
    <2>6. (~nv_dirty => since_first = 0)'
      BY <1>2 DEF SysTick_Handler
    <2>7. (nv_dirty => /\ Minus(now, nv_first_dirty_ms) = since_first
                       /\ nv_deadline_ms = Plus(Minus(now, since_last), Delay))'
      BY <2>3, <2>4, <2>5
    <2> QED BY <2>1, <2>2, <2>6, <2>7 DEF ClockInv
  <1>3. CASE Commit
    <2>0. /\ nv_dirty' = FALSE /\ since_first' = 0 /\ since_last' = 0
          /\ UNCHANGED <<now, nv_deadline_ms, nv_first_dirty_ms>>
      BY <1>3, Zenon DEF Commit
    <2>1. TypeOK'
      BY <1>0, <1>a, <2>0 DEF TypeOK
    <2> QED BY <1>3, <2>1 DEF ClockInv, Commit
  <1>4. CASE UNCHANGED vars
    BY <1>4 DEF ClockInv, TypeOK, vars, Minus, Plus
  <1> QED BY <1>1, <1>2, <1>3, <1>4 DEF Next

LEMMA ClockInit == Init => ClockInv
<1>1. 0 \in 0 .. MaxAge /\ 0 \in Ticks /\ 0 <= 0
  BY CommitAssumption DEF Ticks, Mod
<1> QED
  BY <1>1 DEF Init, ClockInv, TypeOK

LEMMA ClockHolds == ClockInv => DueInTime
<1> SUFFICES ASSUME ClockInv PROVE DueInTime
  OBVIOUS
<1>0. TypeOK
  BY DEF ClockInv
<1>1. CASE ~nv_dirty
  BY <1>1 DEF DueInTime, NV_CommitTimerDue
<1>2. CASE nv_dirty
  <2>1. TimeReached(now, nv_deadline_ms) <=> since_last >= Delay
    BY <1>0, <1>2, ReachedWhenOver, CommitAssumption DEF ClockInv, TypeOK
  <2>2. Minus(now, since_first) = nv_first_dirty_ms
    BY <1>0, <1>2, BackAgain DEF ClockInv, TypeOK
  <2>3. TimeReached(now, Plus(nv_first_dirty_ms, MaxHold)) <=> since_first >= MaxHold
    BY <1>0, <2>2, ReachedWhenOver, CommitAssumption DEF TypeOK
  <2> QED
    BY <1>2, <2>1, <2>3 DEF DueInTime, NV_CommitTimerDue
<1> QED
  BY <1>1, <1>2

-----------------------------------------------------------------------------
(* The button                                                              *)

\* Milliseconds since the poll that has found the button down.
Elapsed == Btn!Minus(b_now, b_start)

\* How long the contact has been opening and open, at the most.
Late == IF b_phase = "opening" THEN b_age ELSE Bounce + b_age

\* What has been reported is what is to be reported of this press.
Reported ==
    /\ Len(b_clicks) <= 1
    /\ b_hold >= debounce_ms + Gap =>
          /\ Len(b_clicks) = 1
          /\ b_hold >= long_press_ms + Gap => b_clicks[1] = "BTN_LONG_CLICK"
          /\ b_hold + 2 * Bounce + Gap < long_press_ms => b_clicks[1] = "BTN_SHORT_CLICK"

Closing ==
    b_phase = "closing" =>
        b_age <= Bounce /\ b_clicks = <<>> /\ (b_pressed => Elapsed <= b_age)

\* The next poll finds it down; from then on the time runs along with its age.
Held ==
    b_phase = "closed" =>
        /\ b_level /\ b_age <= MaxClosed /\ b_clicks = <<>>
        /\ b_pressed => b_age <= Elapsed + Gap /\ Elapsed <= b_age + Bounce
        /\ ~b_pressed => b_age <= b_polled

\* Either the press is still to be reported, and its time is that of the press
\* but for what bounces and polls blur, or it has been, and a poll that finds
\* the button down again has found a bounce.
Ended ==
    b_phase \in {"opening", "open"} =>
        \/ /\ b_pressed /\ b_clicks = <<>>
           /\ b_hold <= Elapsed + Gap /\ Elapsed <= b_hold + Bounce + Late
        \/ Reported /\ (b_pressed => Elapsed <= Late)

Bounds ==
    /\ b_phase = "opening" => b_age <= Bounce
    /\ b_phase = "open" => ~b_level /\ b_age <= Gap + 1 /\ (b_pressed => b_age <= b_polled)

BtnInv == Btn!TypeOK /\ Closing /\ Held /\ Ended /\ Bounds

\* The millisecond counter: a distance grows with the time until it wraps.
LEMMA Passing ==
  ASSUME NEW s \in Ticks, NEW t \in Ticks
  PROVE  /\ Btn!Minus(s, t) \in Nat /\ Btn!Minus(s, s) = 0 /\ (s + 1) % Mod \in Ticks
         /\ Btn!Minus(s, t) + 1 < Mod => Btn!Minus((s + 1) % Mod, t) = Btn!Minus(s, t) + 1
<1>1. Half \in Nat /\ Half > 0
  BY CommitAssumption
<1>2. s \in Nat /\ t \in Nat /\ s < 2 * Half /\ t < 2 * Half
  BY <1>1 DEF Ticks, Mod
<1>3. CASE s + 1 < 2 * Half
  <2>1. (s + 1) % (2 * Half) = s + 1
    BY <1>1, <1>2, <1>3
  <2> QED
    BY <1>1, <1>2, <1>3, <2>1 DEF Ticks, Mod, Btn!Minus
<1>4. CASE s + 1 = 2 * Half
  <2>1. (s + 1) % (2 * Half) = 0
    BY <1>1, <1>2, <1>4
  <2> QED
    BY <1>1, <1>2, <1>4, <2>1 DEF Ticks, Mod, Btn!Minus
<1> QED
  BY <1>1, <1>2, <1>3, <1>4

LEMMA BtnFacts ==
  ASSUME BtnInv
  PROVE  /\ b_now \in Ticks /\ b_start \in Ticks /\ Elapsed \in Nat
         /\ b_pressed \in BOOLEAN /\ b_level \in BOOLEAN
         /\ b_phase \in {"open", "closing", "closed", "opening"}
         /\ b_age \in Nat /\ b_polled \in 0 .. Gap /\ b_hold \in 0 .. MaxClosed
         /\ b_clicks \in Seq({"BTN_SHORT_CLICK", "BTN_LONG_CLICK"})
         /\ Bounce \in Nat /\ Gap \in Nat /\ MaxClosed \in Nat /\ Late \in Nat
         /\ debounce_ms \in Nat /\ long_press_ms \in Nat /\ Bounce + Gap < debounce_ms
<1>1. /\ b_now \in Ticks /\ b_start \in Ticks /\ b_pressed \in BOOLEAN /\ b_level \in BOOLEAN
      /\ b_phase \in {"open", "closing", "closed", "opening"}
      /\ b_age \in Nat /\ b_polled \in 0 .. Gap /\ b_hold \in 0 .. MaxClosed
      /\ b_clicks \in Seq(Btn!Events \ {"BTN_NO_EVENT"})
  BY ButtonAssumption DEF BtnInv, Btn!TypeOK, Btn!Ticks, Ticks, Btn!Phases
<1>2. Btn!Events \ {"BTN_NO_EVENT"} = {"BTN_SHORT_CLICK", "BTN_LONG_CLICK"}
  BY DEF Btn!Events
<1>3. Elapsed \in Nat
  BY <1>1, Passing DEF Elapsed
<1>4. Late \in Nat
  BY <1>1, ButtonAssumption DEF Late
<1> QED
  BY <1>1, <1>2, <1>3, <1>4, ButtonAssumption

LEMMA BtnTyped ==
  ASSUME b_now \in Ticks, b_start \in Ticks, b_pressed \in BOOLEAN, b_level \in BOOLEAN,
         b_phase \in {"open", "closing", "closed", "opening"},
         b_age \in 0 .. MaxClosed + Bounce + Gap + 1, b_polled \in 0 .. Gap,
         b_hold \in 0 .. MaxClosed, b_clicks \in Seq({"BTN_SHORT_CLICK", "BTN_LONG_CLICK"})
  PROVE  Btn!TypeOK
<1>1. Btn!Events \ {"BTN_NO_EVENT"} = {"BTN_SHORT_CLICK", "BTN_LONG_CLICK"}
  BY DEF Btn!Events
<1> QED
  BY <1>1 DEF Btn!TypeOK, Btn!Ticks, Ticks, Btn!Phases

\* The contact bounces, closes and opens; the button has not been polled.
LEMMA ContactStep ==
  BtnInv /\ (Btn!Toggle \/ Btn!Press \/ Btn!Closed \/ Btn!Release \/ Btn!Open) => BtnInv'
<1> SUFFICES ASSUME BtnInv, Btn!Toggle \/ Btn!Press \/ Btn!Closed \/ Btn!Release \/ Btn!Open
             PROVE  BtnInv'
  OBVIOUS
<1>1. /\ UNCHANGED <<b_now, b_pressed, b_start, b_polled>>
      /\ Elapsed' = Elapsed
  BY DEF Btn!Toggle, Btn!Press, Btn!Closed, Btn!Release, Btn!Open, Btn!Turn, Btn!button, Elapsed
<1>2. Btn!TypeOK /\ Closing /\ Held /\ Ended /\ Bounds
  BY DEF BtnInv
<1>3. CASE Btn!Toggle
  <2>1. /\ b_phase \in {"closing", "opening"} /\ b_level' = ~b_level /\ b_level' \in BOOLEAN
        /\ UNCHANGED <<b_phase, b_age, b_hold, b_clicks>>
    BY <1>3 DEF Btn!Toggle
  <2>2. Btn!TypeOK'
    BY <1>1, <1>2, <2>1 DEF Btn!TypeOK
  <2> QED
    BY <1>1, <1>2, <2>1, <2>2 DEF BtnInv, Closing, Held, Ended, Bounds, Late, Reported
<1>4. CASE Btn!Press
  <2>1. /\ b_phase = "open" /\ b_age > Gap /\ b_phase' = "closing" /\ b_age' = 0 /\ b_hold' = 0
        /\ b_clicks' = <<>> /\ b_level' = b_level
    BY <1>4 DEF Btn!Press, Btn!Turn
  <2>2. ~b_pressed
    BY <1>2, <2>1, BtnFacts DEF Bounds
  <2>3. <<>> \in Seq({"BTN_SHORT_CLICK", "BTN_LONG_CLICK"})
    OBVIOUS
  <2>4. Btn!TypeOK'
    BY <1>1, <2>1, <2>3, BtnFacts, ButtonAssumption DEF Btn!TypeOK, Btn!Phases, Btn!Events, Btn!Ticks, Ticks
  <2> QED
    BY <1>1, <2>1, <2>2, <2>4, BtnFacts DEF BtnInv, Closing, Held, Ended, Bounds
<1>5. CASE Btn!Closed
  <2>1. /\ b_phase = "closing" /\ b_phase' = "closed" /\ b_age' = 0 /\ b_level' = TRUE
        /\ UNCHANGED <<b_hold, b_clicks>>
    BY <1>5 DEF Btn!Closed, Btn!Turn
  <2>2. Btn!TypeOK'
    BY <1>1, <1>2, <2>1, ButtonAssumption DEF Btn!TypeOK, Btn!Phases
  <2>3. b_clicks = <<>> /\ (b_pressed => Elapsed <= Bounce)
    BY <1>2, <2>1, BtnFacts DEF Closing
  <2> QED
    BY <1>1, <2>1, <2>2, <2>3, BtnFacts DEF BtnInv, Closing, Held, Ended, Bounds
<1>6. CASE Btn!Release
  <2>1. /\ b_phase = "closed" /\ b_phase' = "opening" /\ b_age' = 0 /\ b_hold' = b_age
        /\ UNCHANGED <<b_level, b_clicks>>
    BY <1>6 DEF Btn!Release, Btn!Turn
  <2>2. b_age \in 0 .. MaxClosed /\ b_clicks = <<>> /\ Len(b_clicks) = 0
    BY <1>2, <2>1, BtnFacts DEF Held
  <2>3. Btn!TypeOK'
    BY <1>1, <2>1, <2>2, BtnFacts, ButtonAssumption DEF Btn!TypeOK, Btn!Phases, Btn!Events, Btn!Ticks, Ticks
  <2>4. ~b_pressed => Reported'
    BY <1>2, <2>1, <2>2, BtnFacts DEF Held, Reported
  <2>5. b_pressed => b_age <= Elapsed + Gap /\ Elapsed <= b_age + Bounce
    BY <1>2, <2>1 DEF Held
  <2> QED
    BY <1>1, <2>1, <2>2, <2>3, <2>4, <2>5, BtnFacts DEF BtnInv, Closing, Held, Ended, Bounds, Late
<1>7. CASE Btn!Open
  <2>1. /\ b_phase = "opening" /\ b_phase' = "open" /\ b_age' = 0 /\ b_level' = FALSE
        /\ b_level' \in BOOLEAN /\ UNCHANGED <<b_hold, b_clicks>>
    BY <1>7 DEF Btn!Open, Btn!Turn
  <2>2. Btn!TypeOK'
    BY <1>1, <2>1, BtnFacts, ButtonAssumption DEF Btn!TypeOK, Btn!Phases, Btn!Events, Btn!Ticks, Ticks
  <2>3. Late <= Late' /\ b_age <= Bounce /\ Late' = Bounce /\ Late = b_age
    BY <1>2, <2>1, BtnFacts DEF Late, Bounds
  <2>4. Reported' = Reported
    BY <2>1 DEF Reported
  <2>5. Ended'
    BY <1>1, <1>2, <2>1, <2>3, <2>4, BtnFacts DEF Ended
  <2> QED
    BY <1>1, <2>1, <2>2, <2>5, BtnFacts DEF BtnInv, Closing, Held, Bounds
<1> QED
  BY <1>3, <1>4, <1>5, <1>6, <1>7

LEMMA TickStep == BtnInv /\ Btn!SysTick_Handler => BtnInv'
<1> SUFFICES ASSUME BtnInv, Btn!SysTick_Handler PROVE BtnInv'
  OBVIOUS
<1>0. b_now' = (b_now + 1) % Mod
  BY DEF Btn!SysTick_Handler
<1>1. /\ b_polled < Gap /\ b_polled' = b_polled + 1
      /\ b_age < Btn!Limit \/ b_phase = "open"
      /\ b_age' = (IF b_age < Btn!Limit THEN b_age + 1 ELSE b_age)
      /\ UNCHANGED <<b_pressed, b_start, b_level, b_phase, b_hold, b_clicks>>
  BY DEF Btn!SysTick_Handler, Btn!button
<1>2. Closing /\ Held /\ Ended /\ Bounds
  BY DEF BtnInv
<1>f. /\ b_age \in Nat /\ b_polled \in Nat /\ b_hold \in Nat /\ b_hold <= MaxClosed /\ Elapsed \in Nat
      /\ Bounce \in Nat /\ Gap \in Nat /\ MaxClosed \in Nat /\ b_pressed \in BOOLEAN
      /\ b_phase \in {"open", "closing", "closed", "opening"}
  BY BtnFacts
<1>3. /\ b_age' \in Nat
      /\ b_phase \in {"closing", "opening"} => b_age' = b_age + 1 /\ b_age' <= Bounce
      /\ b_phase = "closed" => b_age' = b_age + 1 /\ b_age' <= MaxClosed
      /\ b_phase = "open" => b_age' <= Gap + 1
      /\ b_phase = "open" /\ b_pressed => b_age' = b_age + 1 /\ b_age' <= b_polled' /\ b_age < Gap
  <2>1. CASE b_phase \in {"closing", "opening"}
    <3>1. Btn!Limit = Bounce
      BY <2>1 DEF Btn!Limit
    <3> QED
      BY <1>1, <1>f, <2>1, <3>1
  <2>2. CASE b_phase = "closed"
    <3>1. Btn!Limit = MaxClosed
      BY <2>2 DEF Btn!Limit
    <3> QED
      BY <1>1, <1>f, <2>2, <3>1
  <2>3. CASE b_phase = "open"
    <3>1. Btn!Limit = Gap + 1
      BY <2>3 DEF Btn!Limit
    <3>2. b_age <= Gap + 1 /\ (b_pressed => b_age <= b_polled)
      BY <1>2, <2>3 DEF Bounds
    <3> QED
      BY <1>1, <1>f, <2>3, <3>1, <3>2
  <2> QED
    BY <1>f, <2>1, <2>2, <2>3
<1>4. Btn!TypeOK'
  <2>1. b_now' \in Ticks
    BY <1>0, BtnFacts, Passing
  <2> QED
    BY <1>1, <1>3, <1>f, <2>1, ButtonAssumption DEF BtnInv, Btn!TypeOK, Btn!Ticks, Ticks
<1>5. b_pressed => Elapsed + 1 < Mod
  <2> SUFFICES ASSUME b_pressed PROVE Elapsed + 1 <= MaxClosed + 2 * Bounce + Gap
    BY <1>f, ButtonAssumption, CommitAssumption DEF Mod
  <2>1. CASE b_phase = "closing"
    BY <1>2, <1>3, <1>f, <2>1 DEF Closing
  <2>2. CASE b_phase = "closed"
    BY <1>2, <1>3, <1>f, <2>2 DEF Held
  <2>3. CASE b_phase = "opening"
    BY <1>2, <1>3, <1>f, <2>3 DEF Ended, Late
  <2>4. CASE b_phase = "open"
    BY <1>2, <1>3, <1>f, <2>4 DEF Ended, Late
  <2> QED
    BY <1>f, <2>1, <2>2, <2>3, <2>4
<1>6. b_pressed => Elapsed' = Elapsed + 1
  BY <1>0, <1>1, <1>5, BtnFacts, Passing DEF Elapsed
<1>7. Closing' /\ Held'
  BY <1>1, <1>2, <1>3, <1>6, <1>f DEF Closing, Held
<1>8. Ended'
  <2>1. b_phase \in {"opening", "open"} /\ b_pressed => Late' = Late + 1
    BY <1>1, <1>3, <1>f DEF Late
  <2>2. Reported' = Reported
    BY <1>1 DEF Reported
  <2>3. Late \in Nat
    BY BtnFacts
  <2> QED
    BY <1>1, <1>2, <1>6, <1>f, <2>1, <2>2, <2>3 DEF Ended
<1>9. Bounds'
  BY <1>1, <1>2, <1>3 DEF Bounds
<1> QED
  BY <1>4, <1>7, <1>8, <1>9 DEF BtnInv

\* The first poll that finds the button up reports the press; what a later
\* poll finds is too short.
LEMMA PollStep == BtnInv /\ Btn!Button_CheckPress => BtnInv'
<1> SUFFICES ASSUME BtnInv, Btn!Button_CheckPress PROVE BtnInv'
  OBVIOUS
<1> DEFINE ends   == b_pressed /\ ~b_level
           action == IF ends THEN Btn!Kind(Elapsed) ELSE "BTN_NO_EVENT"
<1>1. /\ b_pressed' = b_level /\ b_polled' = 0
      /\ b_start' = (IF b_level /\ ~b_pressed THEN b_now ELSE b_start)
      /\ b_clicks' = (IF action = "BTN_NO_EVENT" THEN b_clicks ELSE Append(b_clicks, action))
      /\ UNCHANGED <<b_now, b_level, b_phase, b_age, b_hold>>
  BY DEF Btn!Button_CheckPress, Elapsed
<1>2. Btn!TypeOK /\ Closing /\ Held /\ Ended /\ Bounds
  BY DEF BtnInv
<1>3. /\ b_level /\ ~b_pressed => Elapsed' = 0
      /\ ~(b_level /\ ~b_pressed) => Elapsed' = Elapsed
  BY <1>1, BtnFacts, Passing DEF Elapsed
<1>4. /\ Btn!Kind(Elapsed) \in {"BTN_NO_EVENT", "BTN_SHORT_CLICK", "BTN_LONG_CLICK"}
      /\ Btn!Kind(Elapsed) = "BTN_NO_EVENT" <=> Elapsed < debounce_ms
      /\ Btn!Kind(Elapsed) = "BTN_SHORT_CLICK" => Elapsed < long_press_ms
      /\ Btn!Kind(Elapsed) = "BTN_LONG_CLICK" => ~(Elapsed < long_press_ms)
  BY DEF Btn!Kind
<1> HIDE DEF action
<1>5. b_clicks' \in Seq({"BTN_SHORT_CLICK", "BTN_LONG_CLICK"})
  BY <1>1, <1>4, BtnFacts, AppendProperties DEF action
<1>6. Btn!TypeOK'
  BY <1>1, <1>5, BtnFacts, BtnTyped, ButtonAssumption
     DEF BtnInv, Btn!TypeOK, Btn!Ticks, Ticks, Btn!Phases, Btn!Events
<1>7. Late' = Late /\ Bounds'
  BY <1>1, <1>2, BtnFacts DEF Late, Bounds
<1>8. CASE b_phase = "closing"
  <2>1. b_clicks' = b_clicks
    BY <1>1, <1>2, <1>4, <1>8, BtnFacts DEF Closing, action
  <2> QED
    BY <1>1, <1>2, <1>3, <1>6, <1>7, <1>8, <2>1, BtnFacts DEF BtnInv, Closing, Held, Ended
<1>9. CASE b_phase = "closed"
  <2>1. b_clicks' = b_clicks /\ b_level
    BY <1>1, <1>2, <1>9 DEF Held, action
  <2> QED
    BY <1>1, <1>2, <1>3, <1>6, <1>7, <1>9, <2>1, BtnFacts DEF BtnInv, Closing, Held, Ended
<1>10. CASE b_phase \in {"opening", "open"}
  <2>1. CASE ~ends
    <3>1. b_clicks' = b_clicks
      BY <1>1, <2>1 DEF action
    <3>2. Reported' = Reported
      BY <1>1, <3>1 DEF Reported
    <3>3. Ended'
      BY <1>1, <1>2, <1>3, <1>7, <1>10, <2>1, <3>1, <3>2, BtnFacts DEF Ended
    <3> QED
      BY <1>1, <1>6, <1>7, <1>10, <3>3 DEF BtnInv, Closing, Held
  <2>2. CASE ends /\ ~(Reported /\ Elapsed <= Late)
    <3>1. /\ b_clicks = <<>> /\ b_hold <= Elapsed + Gap /\ Elapsed <= b_hold + Bounce + Late
          /\ action = Btn!Kind(Elapsed) /\ ~b_pressed'
      BY <1>1, <1>2, <1>10, <2>2 DEF Ended, action
    <3>2. Late <= 2 * Bounce + Gap - Bounce
      BY <1>2, <1>10, <2>2, BtnFacts DEF Late, Bounds
    <3>3. action = "BTN_NO_EVENT" => b_clicks' = <<>>
      BY <1>1, <3>1
    <3>4. action # "BTN_NO_EVENT" => Len(b_clicks') = 1 /\ b_clicks'[1] = action
      BY <1>1, <3>1
    <3>5. Len(<<>>) = 0
      OBVIOUS
    <3>6. /\ b_hold >= debounce_ms + Gap => action # "BTN_NO_EVENT"
          /\ b_hold >= debounce_ms + Gap /\ b_hold >= long_press_ms + Gap => action = "BTN_LONG_CLICK"
          /\ b_hold >= debounce_ms + Gap /\ b_hold + 2 * Bounce + Gap < long_press_ms =>
               action = "BTN_SHORT_CLICK"
      <4>1. /\ b_hold >= debounce_ms + Gap => ~(Elapsed < debounce_ms)
            /\ b_hold >= long_press_ms + Gap => ~(Elapsed < long_press_ms)
            /\ b_hold + 2 * Bounce + Gap < long_press_ms => Elapsed < long_press_ms
        <5>1. /\ Elapsed \in Nat /\ b_hold \in Nat /\ Bounce \in Nat /\ Gap \in Nat /\ Late \in Nat
              /\ debounce_ms \in Nat /\ long_press_ms \in Nat
          BY BtnFacts
        <5>2. b_hold <= Elapsed + Gap /\ Elapsed <= b_hold + Bounce + Late
          BY <3>1
        <5> HIDE DEF Elapsed, Late
        <5> QED
          BY <3>2, <5>1, <5>2
      <4>2. /\ ~(Elapsed < debounce_ms) => action # "BTN_NO_EVENT"
            /\ ~(Elapsed < debounce_ms) /\ ~(Elapsed < long_press_ms) => action = "BTN_LONG_CLICK"
            /\ ~(Elapsed < debounce_ms) /\ Elapsed < long_press_ms => action = "BTN_SHORT_CLICK"
        BY <1>4, <3>1
      <4> QED
        BY <4>1, <4>2
    <3>7. Reported'
      BY <1>1, <3>3, <3>4, <3>5, <3>6 DEF Reported
    <3> QED
      BY <1>1, <1>6, <1>7, <1>10, <3>1, <3>7 DEF BtnInv, Closing, Held, Ended
  <2>3. CASE ends /\ Reported /\ Elapsed <= Late
    <3>1. Late <= Bounce + Gap
      BY <1>2, <1>10, <2>3, BtnFacts DEF Late, Bounds
    <3>2. b_clicks' = b_clicks /\ ~b_pressed'
      BY <1>1, <1>4, <2>3, <3>1, BtnFacts DEF action
    <3>3. Reported'
      BY <1>1, <2>3, <3>2 DEF Reported
    <3> QED
      BY <1>1, <1>6, <1>7, <1>10, <3>2, <3>3 DEF BtnInv, Closing, Held, Ended
  <2> QED
    BY <2>1, <2>2, <2>3
<1> QED
  BY <1>8, <1>9, <1>10, BtnFacts

LEMMA BtnInit == Btn!Init => BtnInv
<1> SUFFICES ASSUME Btn!Init PROVE BtnInv
  OBVIOUS
<1>1. /\ b_now \in Ticks /\ b_level \in BOOLEAN /\ b_phase = (IF b_level THEN "closed" ELSE "open")
      /\ b_age = 0 /\ b_pressed = b_level /\ b_start = (IF b_level THEN b_now ELSE 0)
      /\ b_polled = 0 /\ b_hold = 0 /\ b_clicks = <<>>
  BY DEF Btn!Init, Btn!Ticks, Ticks
<1>2. 0 \in Ticks /\ <<>> \in Seq({"BTN_SHORT_CLICK", "BTN_LONG_CLICK"}) /\ Len(<<>>) = 0
  BY CommitAssumption DEF Ticks, Mod
<1>3. Btn!TypeOK
  BY <1>1, <1>2, BtnTyped, ButtonAssumption
<1>4. b_level => Elapsed = 0
  BY <1>1, Passing DEF Elapsed
<1>5. Reported
  BY <1>1, <1>2, ButtonAssumption DEF Reported
<1> QED
  BY <1>1, <1>3, <1>4, <1>5, ButtonAssumption DEF BtnInv, Closing, Held, Ended, Bounds

LEMMA BtnSame == BtnInv /\ UNCHANGED bVars => BtnInv'
BY DEF bVars, BtnInv, Btn!TypeOK, Closing, Held, Ended, Bounds, Late, Reported, Elapsed

LEMMA BtnStep == BtnInv /\ Btn!Next => BtnInv'
BY ContactStep, TickStep, PollStep DEF Btn!Next

LEMMA BtnHolds == BtnInv => Btn!Clicks
<1> SUFFICES ASSUME BtnInv PROVE Btn!Clicks
  OBVIOUS
<1>1. Len(b_clicks) <= 1
  BY BtnFacts DEF BtnInv, Closing, Held, Ended, Reported
<1>2. b_phase = "open" /\ b_age > Gap => Reported
  BY BtnFacts DEF BtnInv, Ended, Bounds
<1> QED
  BY <1>1, <1>2 DEF BtnInv, Btn!Clicks, Reported

-----------------------------------------------------------------------------
(* The lengths of requests                                                 *)

\* Their types, as the lemmas use them.
Field(r) == /\ r.length \in Nat /\ 5 <= r.length /\ r.length <= 256
            /\ r.addr \in Nat /\ r.addr < 65536
            /\ r.count \in Nat /\ r.count < 65536
            /\ r.byte_count \in Nat /\ r.byte_count < 256
            /\ r.broadcast \in BOOLEAN

\* The answers the handlers build.
Fits(r, a) ==
    /\ a.length <= Lens!MB_FRAME_SIZE
    /\ a.kind = "answer" <=> Lens!Legal(r) /\ ~(r.function = 3 /\ r.broadcast)
    /\ r.broadcast => a.length = 0
    /\ ~r.broadcast => a.length > 0
    /\ r.function = 3 /\ a.kind = "answer" =>
          a.bytes = 2 * r.count /\ a.length = 5 + 2 * r.count

LEMMA FieldTypes ==
  ASSUME NEW r \in Lens!Requests
  PROVE  Field(r)
  <1>1. /\ r.length \in Lengths /\ r.addr \in Addresses /\ r.count \in Counts
        /\ r.byte_count \in ByteCounts /\ r.broadcast \in BOOLEAN
    BY DEF Lens!Requests
  <1> QED BY <1>1, WidthsAssumption DEF Field, Lens!MB_FRAME_SIZE

\* A refused request is answered with five bytes, a broadcast not at all.
LEMMA RefusedFits ==
  ASSUME NEW r, r.broadcast \in BOOLEAN, ~Lens!Legal(r)
  PROVE  Fits(r, Lens!Exception(r)) /\ Lens!Exception(r).kind # "answer"
  BY DEF Fits, Lens!Exception, Lens!None, Lens!MB_FRAME_SIZE

\* The length is 5 + 2 * count without a wrap-around for every count that is
\* not greater than a reg_count below 32766.
LEMMA ReadFits ==
  ASSUME r_count \in RegCounts, NEW r \in Lens!Requests, r.function = 3
  PROVE  Fits(r, Lens!MODBUS_HandleReadHoldingRegisters(r))
  <1>0. Field(r) /\ r_count \in Nat /\ r_count < 32766
    BY FieldTypes, WidthsAssumption
  <1> DEFINE bad == \/ r.length # 8 \/ Lens!TooLong(r.count)
                    \/ r.count > r_count \/ r.count < 1 \/ Lens!Outside(r)
  <1>1. bad <=> ~Lens!Legal(r)
    BY <1>0 DEF Field, Lens!Legal, Lens!TooLong, Lens!Outside, Lens!U16, Lens!MB_FRAME_SIZE
  <1> HIDE DEF bad
  <1>2. CASE r.broadcast
    <2>1. Lens!MODBUS_HandleReadHoldingRegisters(r) = Lens!None
      BY <1>2 DEF Lens!MODBUS_HandleReadHoldingRegisters
    <2> QED BY <1>2, <2>1 DEF Fits, Lens!None, Lens!MB_FRAME_SIZE
  <1>3. CASE ~r.broadcast /\ bad
    <2>1. Lens!MODBUS_HandleReadHoldingRegisters(r) = Lens!Exception(r)
      BY <1>3 DEF Lens!MODBUS_HandleReadHoldingRegisters, bad
    <2> QED BY <1>0, <1>1, <1>3, <2>1, RefusedFits DEF Field
  <1>4. CASE ~r.broadcast /\ ~bad
    <2>1. Lens!MODBUS_HandleReadHoldingRegisters(r)
             = Lens!Answer(Lens!U16(3 + r.count * 2) + 2, Lens!U8(r.count * 2))
      BY <1>4 DEF Lens!MODBUS_HandleReadHoldingRegisters, bad
    <2>2. Lens!Legal(r) /\ r.count \in 1 .. 125
      BY <1>1, <1>4 DEF Lens!Legal
    <2>3. Lens!U16(3 + r.count * 2) = 3 + r.count * 2 /\ Lens!U8(r.count * 2) = r.count * 2
      BY <2>2 DEF Lens!U16, Lens!U8
    <2> QED BY <1>4, <2>1, <2>2, <2>3 DEF Fits, Lens!Answer, Lens!MB_FRAME_SIZE
  <1> QED BY <1>0, <1>2, <1>3, <1>4 DEF Field

LEMMA WriteSingleFits ==
  ASSUME r_count \in RegCounts, NEW r \in Lens!Requests, r.function = 6
  PROVE  Fits(r, Lens!MODBUS_HandleWriteSingleRegister(r))
  <1>0. Field(r) /\ r_count \in Nat /\ r_count < 32766
    BY FieldTypes, WidthsAssumption
  <1>1. CASE r.length # 8 \/ r.addr >= r_count
    <2>1. ~Lens!Legal(r)
      BY <1>0, <1>1 DEF Field, Lens!Legal
    <2> QED BY <1>0, <1>1, <2>1, RefusedFits DEF Field, Lens!MODBUS_HandleWriteSingleRegister
  <1>2. CASE ~(r.length # 8 \/ r.addr >= r_count)
    <2>1. Lens!Legal(r)
      BY <1>0, <1>2 DEF Field, Lens!Legal
    <2> QED BY <1>0, <1>2, <2>1
            DEF Field, Lens!MODBUS_HandleWriteSingleRegister, Lens!Done, Fits, Lens!MB_FRAME_SIZE
  <1> QED BY <1>1, <1>2

LEMMA WriteMultipleFits ==
  ASSUME r_count \in RegCounts, NEW r \in Lens!Requests, r.function = 16
  PROVE  Fits(r, Lens!MODBUS_HandleWriteMultipleRegisters(r))
  <1>0. Field(r) /\ r_count \in Nat /\ r_count < 32766
    BY FieldTypes, WidthsAssumption
  <1> DEFINE bad == \/ r.length < 9 \/ Lens!U16(9 + r.byte_count) > Lens!MB_FRAME_SIZE
                    \/ r.length # 9 + r.byte_count
                    \/ r.count < 1 \/ r.count > 123 \/ r.byte_count # r.count * 2
                    \/ Lens!Outside(r)
  <1>1. bad <=> ~Lens!Legal(r)
    <2>1. Lens!U16(9 + r.byte_count) = 9 + r.byte_count
      BY <1>0 DEF Field, Lens!U16
    <2> QED
      BY <1>0, <2>1 DEF Field, Lens!Legal, Lens!Outside, Lens!MB_FRAME_SIZE
  <1> HIDE DEF bad
  <1>2. CASE bad
    <2>1. Lens!MODBUS_HandleWriteMultipleRegisters(r) = Lens!Exception(r)
      BY <1>2 DEF Lens!MODBUS_HandleWriteMultipleRegisters, bad
    <2> QED BY <1>0, <1>1, <1>2, <2>1, RefusedFits DEF Field
  <1>3. CASE ~bad
    <2>1. Lens!MODBUS_HandleWriteMultipleRegisters(r) = Lens!Done(r)
      BY <1>3 DEF Lens!MODBUS_HandleWriteMultipleRegisters, bad
    <2> QED BY <1>0, <1>1, <1>3, <2>1 DEF Field, Lens!Done, Fits, Lens!MB_FRAME_SIZE
  <1> QED BY <1>2, <1>3

LensInv == r_count \in RegCounts /\ Lens!AnswersFit

LEMMA LensInit == Lens!Init => LensInv
BY DEF Lens!Init, LensInv, Lens!AnswersFit

LEMMA LensStep == LensInv /\ (Lens!Next \/ UNCHANGED rVars) => LensInv'
<1> SUFFICES ASSUME LensInv, Lens!Next \/ UNCHANGED rVars PROVE LensInv'
  OBVIOUS
<1>1. CASE Lens!Next
  <2>1. PICK r \in Lens!Requests : Lens!MODBUS_Process(r)
    BY <1>1 DEF Lens!Next
  <2>2. r_count \in RegCounts /\ r_count' = r_count /\ r_req' = r
    BY <2>1 DEF Lens!MODBUS_Process, LensInv
  <2>3. Fits(r, r_ans')
    <3>1. CASE r.function = 3
      BY <2>1, <2>2, <3>1, ReadFits DEF Lens!MODBUS_Process
    <3>2. CASE r.function = 6
      BY <2>1, <2>2, <3>2, WriteSingleFits DEF Lens!MODBUS_Process
    <3>3. CASE r.function = 16
      BY <2>1, <2>2, <3>3, WriteMultipleFits DEF Lens!MODBUS_Process
    <3>4. CASE r.function \notin {3, 6, 16}
      <4>1. ~Lens!Legal(r) /\ r_ans' = Lens!Exception(r) /\ r.broadcast \in BOOLEAN
        BY <2>1, <3>4, FieldTypes DEF Field, Lens!MODBUS_Process, Lens!Legal
      <4> QED
        BY <4>1, RefusedFits
    <3> QED
      BY <3>1, <3>2, <3>3, <3>4
  <2> QED
    BY <2>2, <2>3 DEF LensInv, Lens!AnswersFit, Fits, Lens!Legal
<1>2. CASE UNCHANGED rVars
  BY <1>2 DEF rVars, LensInv, Lens!AnswersFit, Lens!Legal
<1> QED
  BY <1>1, <1>2

-----------------------------------------------------------------------------
(* The port                                                                *)

\* Dividing what a power of two multiplies.
LEMMA ShiftExact ==
  ASSUME NEW y \in Int, NEW n \in 0 .. 9
  PROVE  Port!Shift(<<1, 2, 4, 8, 16, 32, 64, 128, 256, 512>>[n + 1] * y, n) = y
<1>1. n \in {0, 1, 2, 3, 4, 5, 6, 7, 8, 9}
  OBVIOUS
<1> QED
  BY <1>1 DEF Port!Shift

\* The two tables of shifts hold the logarithms of the prescalers.
Ahb == [h \in 0 .. 15 |-> IF h < 8 THEN 1 ELSE <<2, 4, 8, 16, 64, 128, 256, 512>>[h - 7]]
Apb == <<1, 1, 1, 1, 2, 4, 8, 16>>
Pow == <<1, 2, 4, 8, 16, 32, 64, 128, 256, 512>>

LEMMA Tables ==
  /\ \A h \in 0 .. 15 : /\ Port!ahb_shift_tbl[h + 1] \in 0 .. 9
                        /\ Pow[Port!ahb_shift_tbl[h + 1] + 1] = Ahb[h]
  /\ \A p \in 0 .. 7 : /\ Port!apb_shift_tbl[p + 1] \in 0 .. 9
                       /\ Pow[Port!apb_shift_tbl[p + 1] + 1] = Apb[1 + p]
<1>1. ASSUME NEW h \in 0 .. 15
      PROVE  /\ Port!ahb_shift_tbl[h + 1] \in 0 .. 9
             /\ Pow[Port!ahb_shift_tbl[h + 1] + 1] = Ahb[h]
  <2>1. h \in {0, 1, 2, 3, 4, 5, 6, 7, 8, 9, 10, 11, 12, 13, 14, 15}
    OBVIOUS
  <2> QED
    BY <2>1 DEF Port!ahb_shift_tbl, Pow, Ahb
<1>2. ASSUME NEW p \in 0 .. 7
      PROVE  /\ Port!apb_shift_tbl[p + 1] \in 0 .. 9
             /\ Pow[Port!apb_shift_tbl[p + 1] + 1] = Apb[1 + p]
  <2>1. p \in {0, 1, 2, 3, 4, 5, 6, 7}
    OBVIOUS
  <2> QED
    BY <2>1 DEF Port!apb_shift_tbl, Pow, Apb
<1> QED
  BY <1>1, <1>2

\* A prescaler is one of the numbers the hardware offers.
LEMMA Prescalers ==
  /\ \A h \in 0 .. 15 : Ahb[h] \in {1, 2, 4, 8, 16, 64, 128, 256, 512}
  /\ \A p \in 0 .. 7 : Apb[1 + p] \in {1, 2, 4, 8, 16}
<1>1. ASSUME NEW h \in 0 .. 15 PROVE Ahb[h] \in {1, 2, 4, 8, 16, 64, 128, 256, 512}
  <2>1. h \in {0, 1, 2, 3, 4, 5, 6, 7, 8, 9, 10, 11, 12, 13, 14, 15}
    OBVIOUS
  <2> QED
    BY <2>1 DEF Ahb
<1>2. ASSUME NEW p \in 0 .. 7 PROVE Apb[1 + p] \in {1, 2, 4, 8, 16}
  <2>1. p \in {0, 1, 2, 3, 4, 5, 6, 7}
    OBVIOUS
  <2> QED
    BY <2>1 DEF Apb
<1> QED
  BY <1>1, <1>2

LEMMA SysclkInt ==
  ASSUME t_rcc \in Clocks
  PROVE  Port!RCC_GetSysclk_Hz \in Int
<1>1. /\ t_rcc.sws \in 0 .. 7 /\ t_rcc.hsidiv \in 0 .. 7
      /\ t_rcc.m \in 0 .. 7 /\ t_rcc.n \in 0 .. 127 /\ t_rcc.r \in 0 .. 7
  BY ClocksAssumption
<1>2. Port!HSI_VALUE \in Int /\ Port!HSE_VALUE \in Int
  BY DEF Port!HSI_VALUE, Port!HSE_VALUE, Port!MHz
<1>3. Port!Shift(Port!HSI_VALUE, t_rcc.hsidiv) \in Int
  <2>1. t_rcc.hsidiv \in {0, 1, 2, 3, 4, 5, 6, 7}
    BY <1>1
  <2> QED
    BY <1>2, <2>1 DEF Port!Shift
<1>4. Port!Sysclk_G0 \in Int
  <2>1. \A x \in Int : (((x \div (t_rcc.m + 1)) * t_rcc.n) \div (t_rcc.r + 1)) \in Int
    <3> TAKE x \in Int
    <3>1. x \div (t_rcc.m + 1) \in Int
      BY <1>1
    <3>2. (x \div (t_rcc.m + 1)) * t_rcc.n \in Int
      BY <1>1, <3>1
    <3> QED
      BY <1>1, <3>2
  <2>2. t_rcc.sws \notin 1 .. 4 \/ t_rcc.sws \in {1, 2, 3, 4}
    BY <1>1
  <2> QED
    BY <1>2, <1>3, <2>1, <2>2 DEF Port!Sysclk_G0, Port!LSI_VALUE, Port!LSE_VALUE
<1>5. Port!Sysclk_F103 \in Int
  <2>1. Port!HSE_VALUE \div (t_rcc.m + 1) \in Int /\ Port!HSI_VALUE \div 2 \in Int
    BY <1>1, <1>2
  <2>2. (IF t_rcc.n = 15 THEN 16 ELSE t_rcc.n + 2) \in Int
    BY <1>1
  <2> QED
    BY <1>2, <2>1, <2>2 DEF Port!Sysclk_F103
<1> QED
  BY <1>4, <1>5 DEF Port!RCC_GetSysclk_Hz

\* The clock of the port is the system clock without the two prescalers.
LEMMA PortClockExact ==
  ASSUME t_rcc \in Clocks, Port!Exact
  PROVE  /\ Port!PortClock \in Int
         /\ Port!RCC_GetSysclk_Hz = Port!Divisor * Port!PortClock
         /\ Port!Divisor \in {1, 2, 4, 8, 16, 32, 64, 128, 256, 512, 1024, 2048, 4096, 8192}
<1> DEFINE S == Port!RCC_GetSysclk_Hz
           p == IF t_rcc.chip = "f103" /\ t_rcc.usart = 1 THEN t_rcc.ppre2 ELSE t_rcc.ppre
           h == t_rcc.hpre
           q == S \div Port!Divisor
<1>1. h \in 0 .. 15 /\ p \in 0 .. 7 /\ t_rcc.ppre \in 0 .. 7 /\ t_rcc.chip \in {"g0", "f103"}
  BY ClocksAssumption
<1>2. S \in Int
  BY SysclkInt
<1>3. Port!Divisor = Ahb[h] * Apb[1 + p]
  BY DEF Port!Divisor, Ahb, Apb
<1>4. /\ Ahb[h] \in {1, 2, 4, 8, 16, 64, 128, 256, 512} /\ Apb[1 + p] \in {1, 2, 4, 8, 16}
  BY <1>1, Prescalers
<1>5. Port!Divisor \in {1, 2, 4, 8, 16, 32, 64, 128, 256, 512, 1024, 2048, 4096, 8192}
  BY <1>3, <1>4
<1>6. Port!PortClock = Port!Shift(Port!RCC_GetHclk_Hz, Port!apb_shift_tbl[p + 1])
  BY <1>1 DEF Port!PortClock, Port!RCC_GetPclk2_Hz, Port!RCC_GetPclk1_Hz
<1> HIDE DEF S, p, h
<1>7. q \in Int /\ S = Port!Divisor * q
  BY <1>2, <1>5 DEF Port!Exact, S
<1> HIDE DEF q
<1>8. Apb[1 + p] * q \in Int /\ S = Ahb[h] * (Apb[1 + p] * q)
  BY <1>3, <1>4, <1>7
<1>9. Port!RCC_GetHclk_Hz = Apb[1 + p] * q
  <2>1. Port!RCC_GetHclk_Hz = Port!Shift(S, Port!ahb_shift_tbl[h + 1])
    BY DEF Port!RCC_GetHclk_Hz, S, h
  <2>2. /\ Port!ahb_shift_tbl[h + 1] \in 0 .. 9
        /\ Pow[Port!ahb_shift_tbl[h + 1] + 1] = Ahb[h]
    BY <1>1, Tables
  <2>3. Port!Shift(Pow[Port!ahb_shift_tbl[h + 1] + 1] * (Apb[1 + p] * q), Port!ahb_shift_tbl[h + 1])
          = Apb[1 + p] * q
    BY <1>8, <2>2, ShiftExact DEF Pow
  <2> QED
    BY <1>8, <2>1, <2>2, <2>3
<1>10. Port!PortClock = q
  <2>2. /\ Port!apb_shift_tbl[p + 1] \in 0 .. 9
        /\ Pow[Port!apb_shift_tbl[p + 1] + 1] = Apb[1 + p]
    BY <1>1, Tables
  <2>3. Port!Shift(Pow[Port!apb_shift_tbl[p + 1] + 1] * q, Port!apb_shift_tbl[p + 1]) = q
    BY <1>7, <2>2, ShiftExact DEF Pow
  <2> QED
    BY <1>6, <1>9, <2>2, <2>3
<1> QED
  BY <1>5, <1>7, <1>10 DEF S

Bauds == {9600, 19200, 38400, 57600, 115200}

\* USART_BrrCalc rounds to the nearest divider.
LEMMA NearestDivider ==
  ASSUME NEW q \in Int, NEW b \in Bauds
  PROVE  /\ Port!USART_BrrCalc(q, b) \in Int
         /\ 2 * q - 2 * (Port!USART_BrrCalc(q, b) * b) <= b
         /\ 2 * (Port!USART_BrrCalc(q, b) * b) - 2 * q <= b
<1>1. CASE b = 9600
  BY <1>1 DEF Port!USART_BrrCalc
<1>2. CASE b = 19200
  BY <1>2 DEF Port!USART_BrrCalc
<1>3. CASE b = 38400
  BY <1>3 DEF Port!USART_BrrCalc
<1>4. CASE b = 57600
  BY <1>4 DEF Port!USART_BrrCalc
<1>5. CASE b = 115200
  BY <1>5 DEF Port!USART_BrrCalc
<1> QED
  BY <1>1, <1>2, <1>3, <1>4, <1>5 DEF Bauds

\* The same error, seen before the prescalers.
LEMMA Scaled ==
  ASSUME NEW d \in {1, 2, 4, 8, 16, 32, 64, 128, 256, 512, 1024, 2048, 4096, 8192},
         NEW q \in Int, NEW n \in Int, NEW b \in Bauds,
         2 * q - 2 * (n * b) <= b, 2 * (n * b) - 2 * q <= b
  PROVE  Port!Near(2 * (d * q), 2 * d * n * b, d * b)
<1> DEFINE x == n * b
<1>1. x \in Int /\ b \in Int
  BY DEF Bauds
<1>2. 2 * d * n * b = 2 * (d * x)
  BY DEF Bauds
<1>3. 2 * q - 2 * x <= b /\ 2 * x - 2 * q <= b
  OBVIOUS
<1> HIDE DEF x
<1>4. 2 * (d * q) - 2 * (d * x) <= d * b /\ 2 * (d * x) - 2 * (d * q) <= d * b
  BY <1>1, <1>3
<1> QED
  BY <1>2, <1>4 DEF Port!Near

\* The fields of the configuration.
LEMMA FormatType ==
  ASSUME NEW cfg \in Nat
  PROVE  /\ Port!Format(cfg).baud \in Bauds
         /\ Port!Format(cfg).parity \in {0, 1, 2}
         /\ Port!Format(cfg).stop \in {1, 2}
<1>1. Port!Format(cfg).baud \in Bauds
  <2> DEFINE i == cfg % 16
  <2>1. i \in Nat
    OBVIOUS
  <2>2. i < 5 => i \in {0, 1, 2, 3, 4}
    BY <2>1
  <2> HIDE DEF i
  <2>3. Port!Baud(i) \in Bauds
    BY <2>1, <2>2 DEF Port!Baud, Port!UART_SPEEDS, Bauds
  <2> QED
    BY <2>3 DEF Port!Format, i
<1>2. Port!Format(cfg).parity \in {0, 1, 2}
  BY DEF Port!Format
<1>3. Port!Format(cfg).stop \in {1, 2}
  BY DEF Port!Format
<1> QED
  BY <1>1, <1>2, <1>3

\* T35 rounds up, and 16 bits hold it.
LEMMA RoundsUp ==
  ASSUME NEW n \in {10, 11, 12}, NEW b \in {9600, 19200}
  PROVE  LET t == (7 * n * 1000000 + 2 * b - 1) \div (2 * b) IN
         /\ t \in Int /\ 1 <= t /\ t <= 65536
         /\ 2 * b * t >= 7 * n * 1000000
         /\ 2 * b * (t - 1) < 7 * n * 1000000
<1>1. CASE b = 9600
  <2>1. CASE n = 10
    BY SMT, <1>1, <2>1
  <2>2. CASE n = 11
    BY SMT, <1>1, <2>2
  <2>3. CASE n = 12
    BY SMT, <1>1, <2>3
  <2> QED
    BY SMT, <2>1, <2>2, <2>3
<1>2. CASE b = 19200
  <2>1. CASE n = 10
    BY SMT, <1>2, <2>1
  <2>2. CASE n = 11
    BY SMT, <1>2, <2>2
  <2>3. CASE n = 12
    BY SMT, <1>2, <2>3
  <2> QED
    BY SMT, <2>1, <2>2, <2>3
<1> QED
  BY SMT, <1>1, <1>2

LEMMA T35RoundsUp ==
  ASSUME NEW f, f.baud \in Bauds, f.stop \in {1, 2}
  PROVE  /\ Port!T35(f) \in Int /\ 1 <= Port!T35(f) /\ Port!T35(f) <= 65536
         /\ IF f.baud > 19200 THEN Port!T35(f) = 1750
            ELSE /\ 2 * f.baud * Port!T35(f) >= 7 * Port!BitsPerChar(f) * Port!MHz
                 /\ 2 * f.baud * (Port!T35(f) - 1) < 7 * Port!BitsPerChar(f) * Port!MHz
<1>1. Port!BitsPerChar(f) \in {10, 11, 12}
  BY SMT DEF Port!BitsPerChar
<1>2. CASE f.baud \in {9600, 19200}
  <2>1. ~(f.baud > 19200)
    BY SMT, <1>2
  <2>2. Port!T35(f) = (7 * Port!BitsPerChar(f) * 1000000 + 2 * f.baud - 1) \div (2 * f.baud)
    BY SMT, <2>1 DEF Port!T35, Port!MHz
  <2> QED
    BY SMT, <1>1, <1>2, <2>1, <2>2, RoundsUp DEF Port!MHz
<1>3. CASE f.baud \in {38400, 57600, 115200}
  <2>1. f.baud > 19200
    BY SMT, <1>3
  <2> QED
    BY SMT, <2>1 DEF Port!T35
<1> QED
  BY SMT, <1>2, <1>3 DEF Bauds

\* A product, divided by one of its factors.
LEMMA DivideBack ==
  ASSUME NEW k \in Nat, k > 0, NEW t \in Nat
  PROVE  (k * t) \div k = t
OBVIOUS

LEMMA PclkInt ==
  ASSUME t_rcc \in Clocks
  PROVE  Port!RCC_GetPclk1_Hz \in Int
<1>1. \A x \in Int, n \in 0 .. 9 : Port!Shift(x, n) \in Int
  <2> TAKE x \in Int, n \in 0 .. 9
  <2>1. n \in {0, 1, 2, 3, 4, 5, 6, 7, 8, 9}
    OBVIOUS
  <2> QED
    BY <2>1 DEF Port!Shift
<1>2. /\ Port!ahb_shift_tbl[t_rcc.hpre + 1] \in 0 .. 9
      /\ Port!apb_shift_tbl[t_rcc.ppre + 1] \in 0 .. 9
  BY ClocksAssumption, Tables
<1>3. Port!RCC_GetHclk_Hz \in Int
  BY <1>1, <1>2, SysclkInt DEF Port!RCC_GetHclk_Hz
<1> QED
  BY <1>1, <1>2, <1>3 DEF Port!RCC_GetPclk1_Hz

\* The clock tree depends on RCC's registers only.
LEMMA SameTree ==
  ASSUME t_rcc' = t_rcc
  PROVE  /\ Port!MHz' = Port!MHz
         /\ Port!RCC_GetSysclk_Hz' = Port!RCC_GetSysclk_Hz /\ Port!Divisor' = Port!Divisor
         /\ Port!RCC_GetPclk1_Hz' = Port!RCC_GetPclk1_Hz
         /\ Port!RCC_GetTIMPclk1_Hz' = Port!RCC_GetTIMPclk1_Hz
         /\ Port!Exact' = Port!Exact /\ Port!WholeMHz' = Port!WholeMHz
<1>1. Port!MHz' = Port!MHz
  BY DEF Port!MHz
<1>2. Port!RCC_GetSysclk_Hz' = Port!RCC_GetSysclk_Hz /\ Port!Divisor' = Port!Divisor
  BY DEF Port!RCC_GetSysclk_Hz, Port!Sysclk_G0, Port!Sysclk_F103, Port!HSI_VALUE,
         Port!HSE_VALUE, Port!LSI_VALUE, Port!LSE_VALUE, Port!Shift, Port!MHz, Port!Divisor
<1>3. Port!RCC_GetPclk1_Hz' = Port!RCC_GetPclk1_Hz
  BY <1>2 DEF Port!RCC_GetPclk1_Hz, Port!RCC_GetHclk_Hz, Port!Shift,
              Port!ahb_shift_tbl, Port!apb_shift_tbl
<1>4. Port!RCC_GetTIMPclk1_Hz' = Port!RCC_GetTIMPclk1_Hz
  BY <1>3 DEF Port!RCC_GetTIMPclk1_Hz
<1>5. Port!Exact' = Port!Exact
  BY <1>2 DEF Port!Exact
<1>6. Port!WholeMHz' = Port!WholeMHz
  BY <1>1, <1>3 DEF Port!WholeMHz
<1> QED
  BY <1>1, <1>2, <1>3, <1>4, <1>5, <1>6

\* The format of a configuration is the configuration's alone.
LEMMA SameFormat ==
  ASSUME NEW cfg \in Configs, t_asked' = cfg
  PROVE  /\ Port!Format(t_asked)' = Port!Format(cfg)
         /\ Port!BitsPerChar(Port!Format(t_asked))' = Port!BitsPerChar(Port!Format(cfg))
BY DEF Port!Format, Port!Baud, Port!UART_SPEEDS, Port!BitsPerChar

\* A configuration is applied whole, whatever there was before.
LEMMA Applied ==
  ASSUME t_rcc \in Clocks, NEW cfg \in Configs, Port!ReconfigureUARTCFG(cfg)
  PROVE  Port!TimingRight'
<1> DEFINE f == Port!Format(cfg)
<1>1. /\ cfg \in Nat /\ t_rcc' = t_rcc /\ t_asked' = cfg /\ Port!USART_Init(f)
      /\ t_psc' = (Port!RCC_GetPclk1_Hz \div Port!MHz - 1) % 65536
      /\ t_arr' = (Port!T35(f) - 1) % 65536
  BY ClocksAssumption DEF Port!ReconfigureUARTCFG
<1>2. /\ f.baud \in Bauds /\ f.parity \in {0, 1, 2} /\ f.stop \in {1, 2}
  BY <1>1, FormatType
<1>3. Port!Format(cfg)' = f
  BY DEF Port!Format, Port!Baud, Port!UART_SPEEDS
<1> HIDE DEF f
<1>4. /\ Port!DataBits' = 8 /\ Port!Parity' = f.parity /\ f.parity \in 0 .. 2
      /\ t_stop' \in {0, 2} /\ f.stop = (IF t_stop' = 2 THEN 2 ELSE 1)
  BY <1>1, <1>2 DEF Port!USART_Init, Port!DataBits, Port!Parity
<1>5. Port!RCC_GetSysclk_Hz' = Port!RCC_GetSysclk_Hz /\ Port!Divisor' = Port!Divisor
  BY <1>1, SameTree
<1>6. /\ Port!RCC_GetTIMPclk1_Hz' = Port!RCC_GetTIMPclk1_Hz
      /\ Port!Exact' = Port!Exact /\ Port!WholeMHz' = Port!WholeMHz /\ Port!MHz' = Port!MHz
  BY <1>1, SameTree
<1>7. Port!Exact' => Port!Near(2 * Port!RCC_GetSysclk_Hz', 2 * Port!Divisor' * t_brr' * f.baud,
                               Port!Divisor' * f.baud)
  <2> SUFFICES ASSUME Port!Exact
               PROVE  Port!Near(2 * Port!RCC_GetSysclk_Hz, 2 * Port!Divisor * t_brr' * f.baud,
                                Port!Divisor * f.baud)
    BY <1>5, <1>6
  <2>1. t_brr' = Port!USART_BrrCalc(Port!PortClock, f.baud)
    BY <1>1 DEF Port!USART_Init
  <2> QED
    BY <1>2, <2>1, PortClockExact, NearestDivider, Scaled
<1>8. Port!WholeMHz' =>
         IF f.baud > 19200 THEN Port!Gap_us' = 1750
         ELSE /\ 2 * f.baud * Port!Gap_us' >= 7 * Port!BitsPerChar(f) * Port!MHz
              /\ 2 * f.baud * (Port!Gap_us' - 1) < 7 * Port!BitsPerChar(f) * Port!MHz
  <2> SUFFICES ASSUME Port!WholeMHz
               PROVE  Port!Gap_us' = Port!T35(f)
    BY <1>2, <1>6, T35RoundsUp
  <2> DEFINE k == Port!RCC_GetPclk1_Hz \div Port!MHz
             t == Port!T35(f)
  <2>1. k \in Int /\ 1 <= k /\ k <= 65536
    BY SMT, PclkInt DEF Port!WholeMHz, Port!MHz
  <2>2. t \in Int /\ 1 <= t /\ t <= 65536
    BY SMT, <1>2, T35RoundsUp
  <2>3. Port!RCC_GetTIMPclk1_Hz' = Port!RCC_GetPclk1_Hz
    <3>1. t_rcc.ppre < 4
      BY SMT DEF Port!WholeMHz
    <3>2. t_rcc.ppre \in 0 .. 7
      BY ClocksAssumption
    <3> QED
      BY <1>6, <3>1, <3>2 DEF Port!RCC_GetTIMPclk1_Hz
  <2>4. t_psc' = (k - 1) % 65536 /\ t_arr' = (t - 1) % 65536
    BY <1>1
  <2>5. Port!Gap_us' = ((t_psc' + 1) * (t_arr' + 1)) \div k
    BY <1>6, <2>3 DEF Port!Gap_us
  <2> HIDE DEF k, t
  <2>6. t_psc' + 1 = k /\ t_arr' + 1 = t
    <3>1. \A x \in Int : 1 <= x /\ x <= 65536 => ((x - 1) % 65536) + 1 = x
      BY SMT
    <3> QED
      BY SMT, <2>1, <2>2, <2>4, <3>1
  <2>7. (k * t) \div k = t
    <3>1. k \in Nat /\ k > 0
      BY SMT, <2>1
    <3>2. t \in Nat
      BY SMT, <2>2
    <3> QED
      BY <3>1, <3>2, DivideBack
  <2> QED
    BY <2>5, <2>6, <2>7 DEF t
<1>9. f.baud \in {9600, 19200, 38400, 57600, 115200}
  BY <1>2 DEF Bauds
<1> QED
  BY <1>1, <1>3, <1>4, <1>7, <1>8, <1>9
     DEF Port!TimingRight, Port!Near, Port!BitsPerChar, Port!MHz

PortInv == t_rcc \in Clocks /\ Port!TimingRight

LEMMA PortInit == Port!Init => PortInv
BY DEF Port!Init, PortInv, Port!TimingRight

LEMMA PortStep == PortInv /\ (Port!Next \/ UNCHANGED tVars) => PortInv'
<1> SUFFICES ASSUME PortInv, Port!Next \/ UNCHANGED tVars PROVE PortInv'
  OBVIOUS
<1>1. CASE Port!Next
  <2>1. PICK cfg \in Configs : Port!ReconfigureUARTCFG(cfg)
    BY <1>1 DEF Port!Next
  <2> QED
    BY <2>1, Applied DEF PortInv, Port!ReconfigureUARTCFG
<1>2. CASE UNCHANGED tVars
  <2>1. /\ t_rcc' = t_rcc /\ t_cr1' = t_cr1 /\ t_stop' = t_stop /\ t_brr' = t_brr
        /\ t_psc' = t_psc /\ t_arr' = t_arr /\ t_asked' = t_asked
    BY <1>2 DEF tVars
  <2>2. /\ Port!RCC_GetSysclk_Hz' = Port!RCC_GetSysclk_Hz /\ Port!Divisor' = Port!Divisor
        /\ Port!RCC_GetTIMPclk1_Hz' = Port!RCC_GetTIMPclk1_Hz
        /\ Port!Exact' = Port!Exact /\ Port!WholeMHz' = Port!WholeMHz /\ Port!MHz' = Port!MHz
    BY <2>1, SameTree
  <2>3. /\ Port!DataBits' = Port!DataBits /\ Port!Parity' = Port!Parity
        /\ Port!Gap_us' = Port!Gap_us
    BY <2>1, <2>2 DEF Port!DataBits, Port!Parity, Port!Gap_us
  <2>4. Port!Format(t_asked)' = Port!Format(t_asked)
    BY <2>1 DEF Port!Format, Port!Baud, Port!UART_SPEEDS
  <2>5. Port!TimingRight'
    BY <2>1, <2>2, <2>3, <2>4 DEF PortInv, Port!TimingRight, Port!Near, Port!BitsPerChar
  <2> QED
    BY <2>1, <2>5 DEF PortInv
<1> QED
  BY <1>1, <1>2

-----------------------------------------------------------------------------
(* The CRC                                                                 *)

\* Induction, in the form that asks for no operator: a set that holds 0 and
\* with each number the next one holds them all.
LEMMA Induction ==
  ASSUME NEW S, 0 \in S, \A n \in Nat : n \in S => n + 1 \in S
  PROVE  Nat \subseteq S
<1> SUFFICES ASSUME Nat \ S # {} PROVE FALSE
  OBVIOUS
<1>1. PICK n \in Nat \ S : \A y \in Nat \ S : <<y, n>> \notin OpToRel(<, Nat)
  <2>1. Nat \ S \subseteq Nat
    OBVIOUS
  <2> QED
    BY <2>1, WFMin, NatLessThanWellFounded, Zenon
<1>2. \A y \in Nat \ S : ~(y < n)
  BY <1>1 DEF OpToRel
<1>3. n # 0 /\ n - 1 \in Nat /\ n - 1 < n /\ n = (n - 1) + 1
  OBVIOUS
<1>4. n - 1 \in S
  BY <1>2, <1>3
<1> QED
  BY <1>3, <1>4

Byte == SUBSET (0 .. 7)
Word == SUBSET (0 .. 15)

\* A round shifts bit by bit and adds the polynomial when bit 0 was set.
LEMMA RoundBits ==
  ASSUME NEW w \in SUBSET Nat
  PROVE  /\ Crc!Round(w) \in SUBSET Nat
         /\ \A i \in Nat : i \in Crc!Round(w) <=>
               IF 0 \in w /\ i \in {15, 13, 0} THEN i + 1 \notin w ELSE i + 1 \in w
BY DEF Crc!Round, Crc!Right, Crc!Xor

LEMMA RoundWord ==
  ASSUME NEW w \in Word
  PROVE  Crc!Round(w) \in Word
BY DEF Crc!Round, Crc!Right, Crc!Xor, Word

\* The rounds of a sum are the sum of the rounds.
LEMMA RoundAdds ==
  ASSUME NEW v \in SUBSET Nat, NEW w \in SUBSET Nat
  PROVE  Crc!Round(Crc!Xor(v, w)) = Crc!Xor(Crc!Round(v), Crc!Round(w))
<1>1. Crc!Xor(v, w) \in SUBSET Nat
  BY DEF Crc!Xor
<1>2. Crc!Round(Crc!Xor(v, w)) \subseteq Nat /\ Crc!Xor(Crc!Round(v), Crc!Round(w)) \subseteq Nat
  BY <1>1, RoundBits DEF Crc!Xor
<1>3. \A i \in Nat : i \in Crc!Round(Crc!Xor(v, w)) <=> i \in Crc!Xor(Crc!Round(v), Crc!Round(w))
  BY <1>1, RoundBits DEF Crc!Xor
<1> QED
  BY <1>2, <1>3

LEMMA EightAdd ==
  ASSUME NEW v \in SUBSET Nat, NEW w \in SUBSET Nat
  PROVE  Crc!EightRounds(Crc!Xor(v, w)) = Crc!Xor(Crc!EightRounds(v), Crc!EightRounds(w))
BY RoundBits, RoundAdds DEF Crc!EightRounds

\* Eight rounds shift what lies beyond the lowest byte.
LEMMA EightShift ==
  ASSUME NEW w \in SUBSET {i \in Nat : 8 <= i}
  PROVE  Crc!EightRounds(w) = {i - 8 : i \in w}
<1> DEFINE S(k) == {i - k : i \in w}
<1>1. \A k \in 0 .. 7 : Crc!Round(S(k)) = S(k + 1)
  <2> TAKE k \in 0 .. 7
  <2>1. S(k) \subseteq Nat /\ 0 \notin S(k) /\ S(k + 1) \subseteq Nat
    OBVIOUS
  <2>2. \A i \in Nat : i + 1 \in S(k) <=> i \in S(k + 1)
    OBVIOUS
  <2> QED
    BY <2>1, <2>2, RoundBits
<1>2. S(0) = w
  <2>1. \A i \in w : i \in Nat /\ i - 0 = i
    OBVIOUS
  <2> QED
    BY <2>1, Zenon
<1> HIDE DEF S
<1>3. /\ Crc!Round(S(0)) = S(1) /\ Crc!Round(S(1)) = S(2) /\ Crc!Round(S(2)) = S(3)
      /\ Crc!Round(S(3)) = S(4) /\ Crc!Round(S(4)) = S(5) /\ Crc!Round(S(5)) = S(6)
      /\ Crc!Round(S(6)) = S(7) /\ Crc!Round(S(7)) = S(8)
  BY <1>1
<1> QED
  BY <1>2, <1>3 DEF Crc!EightRounds, S

LEMMA EightWord ==
  ASSUME NEW w \in Word
  PROVE  Crc!EightRounds(w) \in Word
BY RoundWord DEF Crc!EightRounds

\* The loop: what wCRCWord is after each byte follows from what it was before.
LEMMA Loop ==
  ASSUME NEW f, Len(f) \in Nat
  PROVE  /\ Crc!CrcAfter(f)[0] = 0 .. 15
         /\ \A k \in 1 .. Len(f) :
               Crc!CrcAfter(f)[k] = Crc!EightRounds(Crc!Xor(Crc!CrcAfter(f)[k - 1], f[k]))
<1> DEFINE n == Len(f)
           Loops(g, m) ==
              g = [k \in 0 .. m |-> IF k = 0 THEN 0 .. 15
                                    ELSE Crc!EightRounds(Crc!Xor(g[k - 1], f[k]))]
           S == {m \in Nat : \E g : Loops(g, m)}
<1>1. 0 \in S
  <2>1. Loops([k \in 0 .. 0 |-> 0 .. 15], 0)
    OBVIOUS
  <2> QED
    BY <2>1
<1>2. ASSUME NEW m \in Nat, m \in S
      PROVE  m + 1 \in S
  <2>1. PICK g : Loops(g, m)
    BY <1>2
  <2> DEFINE h == [k \in 0 .. m + 1 |-> IF k <= m THEN g[k]
                                        ELSE Crc!EightRounds(Crc!Xor(g[m], f[m + 1]))]
             e(k) == IF k = 0 THEN 0 .. 15 ELSE Crc!EightRounds(Crc!Xor(h[k - 1], f[k]))
  <2>2. ASSUME NEW k \in 0 .. m + 1 PROVE h[k] = e(k)
    <3>1. CASE k = 0
      BY <2>1, <3>1
    <3>2. CASE k \in 1 .. m
      <4>1. k - 1 \in 0 .. m /\ k \in 0 .. m /\ k # 0
        BY <3>2
      <4>2. h[k] = g[k] /\ h[k - 1] = g[k - 1]
        BY <4>1
      <4> QED
        BY <2>1, <4>1, <4>2
    <3>3. CASE k = m + 1
      <4>1. k - 1 = m /\ ~(k <= m) /\ k # 0 /\ m \in 0 .. m + 1 /\ m <= m
        BY <3>3
      <4>2. h[m] = g[m]
        BY <4>1
      <4>3. h[k] = Crc!EightRounds(Crc!Xor(g[m], f[m + 1]))
        BY <4>1
      <4> QED
        BY <3>3, <4>1, <4>2, <4>3
    <3> QED
      BY <3>1, <3>2, <3>3
  <2>3. Loops(h, m + 1)
    BY <2>2, Zenon
  <2> QED
    <3> HIDE DEF h, Loops
    <3> QED
      BY <2>3
<1>3. PICK g : Loops(g, n)
  <2> HIDE DEF S
  <2>1. n \in S
    BY <1>1, <1>2, Induction
  <2> QED
    BY <2>1 DEF S
<1>4. Loops(Crc!CrcAfter(f), n)
  BY <1>3, Zenon DEF Crc!CrcAfter
<1> DEFINE c == Crc!CrcAfter(f)
           step(k) == IF k = 0 THEN 0 .. 15 ELSE Crc!EightRounds(Crc!Xor(c[k - 1], f[k]))
<1>5. c = [k \in 0 .. n |-> step(k)]
  BY <1>4, Zenon
<1> HIDE DEF c
<1>6. \A k \in 0 .. n : c[k] = step(k)
  <2> HIDE DEF step
  <2> QED
    BY <1>5
<1>7. 0 \in 0 .. n /\ \A k \in 1 .. n : k \in 0 .. n /\ k # 0
  OBVIOUS
<1> QED
  BY <1>6, <1>7 DEF c

LEMMA CrcWord ==
  ASSUME NEW f \in Seq(Byte), NEW k \in 0 .. Len(f)
  PROVE  Crc!CrcAfter(f)[k] \in Word
<1> DEFINE S == {m \in Nat : m <= Len(f) => Crc!CrcAfter(f)[m] \in Word}
<1>0. Len(f) \in Nat
  OBVIOUS
<1>1. 0 \in S
  BY <1>0, Loop DEF Word
<1>2. ASSUME NEW m \in Nat, m \in S, m + 1 <= Len(f)
      PROVE  Crc!CrcAfter(f)[m + 1] \in Word
  <2>1. m + 1 \in 1 .. Len(f) /\ (m + 1) - 1 = m /\ Crc!CrcAfter(f)[m] \in Word
    BY <1>0, <1>2
  <2>2. Crc!Xor(Crc!CrcAfter(f)[m], f[m + 1]) \in Word
    <3>1. f[m + 1] \in Byte
      BY <2>1
    <3> QED
      BY <2>1, <3>1 DEF Byte, Word, Crc!Xor
  <2>3. Crc!CrcAfter(f)[m + 1] = Crc!EightRounds(Crc!Xor(Crc!CrcAfter(f)[m], f[m + 1]))
    BY <1>0, <2>1, Loop
  <2> QED
    BY <2>2, <2>3, EightWord
<1>3. Nat \subseteq S
  <2>1. \A m \in Nat : m \in S => m + 1 \in S
    BY <1>2
  <2> HIDE DEF S
  <2> QED
    BY <1>1, <2>1, Induction
<1> QED
  BY <1>0, <1>3

\* wCRCWord depends on the bytes it has seen only.
LEMMA CrcPrefix ==
  ASSUME NEW f \in Seq(Byte), NEW g \in Seq(Byte),
         NEW k \in Nat, k <= Len(f), k <= Len(g), \A i \in 1 .. k : f[i] = g[i]
  PROVE  Crc!CrcAfter(f)[k] = Crc!CrcAfter(g)[k]
<1> DEFINE S == {m \in Nat : m <= k => Crc!CrcAfter(f)[m] = Crc!CrcAfter(g)[m]}
<1>0. Len(f) \in Nat /\ Len(g) \in Nat
  OBVIOUS
<1>1. 0 \in S
  BY <1>0, Loop
<1>2. ASSUME NEW m \in Nat, m \in S, m + 1 <= k
      PROVE  Crc!CrcAfter(f)[m + 1] = Crc!CrcAfter(g)[m + 1]
  <2>1. /\ m + 1 \in 1 .. Len(f) /\ m + 1 \in 1 .. Len(g) /\ m + 1 \in 1 .. k
        /\ (m + 1) - 1 = m /\ Crc!CrcAfter(f)[m] = Crc!CrcAfter(g)[m]
    BY <1>0, <1>2
  <2>2. /\ Crc!CrcAfter(f)[m + 1] = Crc!EightRounds(Crc!Xor(Crc!CrcAfter(f)[m], f[m + 1]))
        /\ Crc!CrcAfter(g)[m + 1] = Crc!EightRounds(Crc!Xor(Crc!CrcAfter(g)[m], g[m + 1]))
    BY <1>0, <2>1, Loop
  <2> QED
    BY <2>1, <2>2
<1>3. Nat \subseteq S
  <2>1. \A m \in Nat : m \in S => m + 1 \in S
    BY <1>2
  <2> HIDE DEF S
  <2> QED
    BY <1>1, <2>1, Induction
<1> QED
  BY <1>3

\* The CRC of a frame that checks, its own CRC included, is zero.
LEMMA RightIsZero ==
  ASSUME NEW f \in Seq(Byte), 2 <= Len(f), Crc!Checks(f)
  PROVE  Crc!CrcAfter(f)[Len(f)] = {}
<1> DEFINE n == Len(f)
           m == SubSeq(f, 1, n - 2)
           c == Crc!CrcAfter(f)
<1>0. n \in Nat /\ n - 2 \in Nat /\ n - 1 \in 1 .. n /\ n \in 1 .. n /\ n - 2 \in 0 .. n
  OBVIOUS
<1>1. m \in Seq(Byte) /\ Len(m) = n - 2 /\ \A i \in 1 .. n - 2 : m[i] = f[i]
  <2>1. \A i \in 1 .. n - 2 : f[i] \in Byte
    OBVIOUS
  <2>2. /\ m \in Seq(Byte)
        /\ Len(m) = IF 1 <= n - 2 THEN n - 2 - 1 + 1 ELSE 0
        /\ \A i \in 1 .. n - 2 - 1 + 1 : m[i] = f[1 + i - 1]
    BY <1>0, <2>1, SubSeqProperties
  <2>3. n - 2 - 1 + 1 = n - 2 /\ (IF 1 <= n - 2 THEN n - 2 - 1 + 1 ELSE 0) = n - 2
    <3> HIDE DEF n
    <3> QED
      BY <1>0
  <2>4. \A i \in 1 .. n - 2 : 1 + i - 1 = i
    BY <1>0
  <2> HIDE DEF m, n
  <2> QED
    BY <2>2, <2>3, <2>4
<1>2. Crc!Left(f[n], 8) \cup f[n - 1] = c[n - 2]
  <2>1. Crc!MODBUS_CRC16(m) = c[n - 2]
    <3> HIDE DEF m
    <3>1. n - 2 <= Len(m) /\ n - 2 <= Len(f)
      BY <1>0, <1>1
    <3>2. Crc!CrcAfter(m)[n - 2] = Crc!CrcAfter(f)[n - 2]
      BY <1>0, <1>1, <3>1, CrcPrefix
    <3> QED
      BY <1>1, <3>2 DEF Crc!MODBUS_CRC16
  <2> QED
    BY <2>1 DEF Crc!Checks
<1>3. f[n] \in Byte /\ f[n - 1] \in Byte
  BY <1>0
<1>4. /\ c[n - 1] = Crc!EightRounds(Crc!Xor(c[n - 2], f[n - 1]))
      /\ c[n] = Crc!EightRounds(Crc!Xor(c[n - 1], f[n]))
  <2>1. (n - 1) - 1 = n - 2
    BY <1>0
  <2> QED
    BY <1>0, <2>1, Loop
<1> HIDE DEF n, c
<1>5. Crc!Xor(c[n - 2], f[n - 1]) = Crc!Left(f[n], 8)
  <2>1. Crc!Left(f[n], 8) \cap f[n - 1] = {}
    BY <1>3 DEF Crc!Left, Byte
  <2> QED
    BY <1>2, <2>1 DEF Crc!Xor
<1>6. Crc!EightRounds(Crc!Left(f[n], 8)) = f[n]
  <2>1. Crc!Left(f[n], 8) \in SUBSET {i \in Nat : 8 <= i}
    BY <1>3 DEF Crc!Left, Byte
  <2>2. {i - 8 : i \in Crc!Left(f[n], 8)} = f[n]
    <3>1. \A i \in f[n] : i \in Nat /\ (i + 8) - 8 = i
      BY <1>3 DEF Byte
    <3> QED
      BY <3>1 DEF Crc!Left
  <2> QED
    BY <2>1, <2>2, EightShift
<1>7. Crc!Xor(f[n], f[n]) = {}
  BY DEF Crc!Xor
<1>8. Crc!EightRounds({}) = {}
  BY EightShift
<1> QED
  BY <1>4, <1>5, <1>6, <1>7, <1>8 DEF n, c

-----------------------------------------------------------------------------
(* Two frames of one length, the second disturbed in the bits given: from  *)
(* byte to byte the difference of their CRCs and the bits still to come,   *)
(* counted from the byte reached, are turned by eight rounds.              *)

ToCome(bits, k) == {i - 8 * k : i \in {j \in bits : 8 * k <= j}}

Difference(f, bits, k) ==
    Crc!Xor(Crc!Xor(Crc!CrcAfter(f)[k], Crc!CrcAfter(Crc!Flip(f, bits))[k]), ToCome(bits, k))

LEMMA FlipFrame ==
  ASSUME NEW f \in Seq(Byte), NEW bits
  PROVE  /\ Crc!Flip(f, bits) \in Seq(Byte) /\ Len(Crc!Flip(f, bits)) = Len(f)
         /\ \A k \in 1 .. Len(f) :
               Crc!Flip(f, bits)[k] = Crc!Xor(f[k], {i \in 0 .. 7 : 8 * (k - 1) + i \in bits})
<1> DEFINE g(k) == Crc!Xor(f[k], {i \in 0 .. 7 : 8 * (k - 1) + i \in bits})
<1>1. Len(f) \in Nat /\ DOMAIN f = 1 .. Len(f)
  OBVIOUS
<1>2. \A k \in 1 .. Len(f) : g(k) \in Byte
  <2> TAKE k \in 1 .. Len(f)
  <2>1. f[k] \in Byte
    OBVIOUS
  <2> QED
    BY <2>1 DEF Byte, Crc!Xor
<1>3. Crc!Flip(f, bits) = [k \in 1 .. Len(f) |-> g(k)]
  BY <1>1 DEF Crc!Flip
<1> HIDE DEF g
<1>4. [k \in 1 .. Len(f) |-> g(k)] \in Seq(Byte)
  BY <1>1, <1>2
<1>5. /\ Len([k \in 1 .. Len(f) |-> g(k)]) = Len(f)
      /\ \A k \in 1 .. Len(f) : [k_1 \in 1 .. Len(f) |-> g(k_1)][k] = g(k)
  BY <1>1
<1> QED
  BY <1>3, <1>4, <1>5 DEF g

LEMMA XorRegroups ==
  ASSUME NEW a, NEW b, NEW x, NEW e, NEW r
  PROVE  Crc!Xor(Crc!Xor(a, b), Crc!Xor(e, r)) =
            Crc!Xor(Crc!Xor(Crc!Xor(a, x), Crc!Xor(b, Crc!Xor(x, e))), r)
BY DEF Crc!Xor

LEMMA DifferenceTurns ==
  ASSUME NEW f \in Seq(Byte), NEW bits \in SUBSET Nat, NEW k \in Nat, k < Len(f)
  PROVE  Difference(f, bits, k + 1) = Crc!EightRounds(Difference(f, bits, k))
<1> DEFINE g == Crc!Flip(f, bits)
           a == Crc!CrcAfter(f)[k]
           b == Crc!CrcAfter(g)[k]
           x == f[k + 1]
           e == {i \in 0 .. 7 : 8 * k + i \in bits}
           r == {i \in ToCome(bits, k) : 8 <= i}
<1>0. /\ Len(f) \in Nat /\ k + 1 \in 1 .. Len(f) /\ (k + 1) - 1 = k /\ k \in 0 .. Len(f)
      /\ 8 * (k + 1) \in Nat /\ 8 * k \in Nat
  OBVIOUS
<1>1. g \in Seq(Byte) /\ Len(g) = Len(f) /\ g[k + 1] = Crc!Xor(x, e)
  <2>1. g[k + 1] = Crc!Xor(x, {i \in 0 .. 7 : 8 * ((k + 1) - 1) + i \in bits})
    BY <1>0, FlipFrame
  <2>2. {i \in 0 .. 7 : 8 * ((k + 1) - 1) + i \in bits} = e
    BY <1>0
  <2> HIDE DEF e
  <2> QED
    BY <2>1, <2>2, FlipFrame
<1>2. /\ a \in SUBSET Nat /\ b \in SUBSET Nat /\ x \in SUBSET Nat /\ e \in SUBSET Nat
      /\ r \in SUBSET {i \in Nat : 8 <= i}
  <2>1. a \in Word /\ b \in Word /\ x \in Byte
    <3> HIDE DEF g
    <3> QED
      BY <1>0, <1>1, CrcWord
  <2>2. r \in SUBSET {i \in Nat : 8 <= i}
    BY <1>0 DEF ToCome
  <2>3. e \in SUBSET Nat
    OBVIOUS
  <2> HIDE DEF a, b, x, e, r
  <2> QED
    BY <2>1, <2>2, <2>3 DEF Word, Byte
<1>3. ToCome(bits, k) = Crc!Xor(e, r)
  <2>1. \A i \in Nat : i \in ToCome(bits, k) <=> 8 * k + i \in bits
    <3> TAKE i \in Nat
    <3>1. 8 * k + i \in Nat /\ 8 * k <= 8 * k + i /\ (8 * k + i) - 8 * k = i
      BY <1>0
    <3>2. \A j \in bits : j \in Nat /\ (j - 8 * k = i => j = 8 * k + i)
      BY <1>0
    <3> QED
      BY <3>1, <3>2 DEF ToCome
  <2>2. ToCome(bits, k) \in SUBSET Nat
    BY <1>0 DEF ToCome
  <2>3. \A i \in Nat : i \in ToCome(bits, k) <=> i \in Crc!Xor(e, r)
    <3>1. \A i \in Nat : i \in e <=> i < 8 /\ 8 * k + i \in bits
      OBVIOUS
    <3>2. \A i \in Nat : i \in r <=> 8 <= i /\ i \in ToCome(bits, k)
      OBVIOUS
    <3>3. \A i \in Nat : i < 8 <=> ~(8 <= i)
      OBVIOUS
    <3> HIDE DEF e, r
    <3> QED
      BY <2>1, <3>1, <3>2, <3>3, Zenon DEF Crc!Xor
  <2> QED
    BY <1>2, <2>2, <2>3 DEF Crc!Xor
<1>4. ToCome(bits, k + 1) = {i - 8 : i \in r}
  <2>1. \A j \in bits : j \in Nat /\ (8 * (k + 1) <= j <=> 8 * k <= j /\ 8 <= j - 8 * k)
                        /\ j - 8 * (k + 1) = (j - 8 * k) - 8
    BY <1>0
  <2> QED
    BY <2>1, Zenon DEF ToCome
<1>5. /\ Crc!CrcAfter(f)[k + 1] = Crc!EightRounds(Crc!Xor(a, x))
      /\ Crc!CrcAfter(g)[k + 1] = Crc!EightRounds(Crc!Xor(b, Crc!Xor(x, e)))
  <2> HIDE DEF g, e
  <2> QED
    BY <1>0, <1>1, Loop
<1> HIDE DEF a, b, x, e, r, g
<1>6. Crc!EightRounds(Crc!Xor(Crc!Xor(a, b), Crc!Xor(e, r))) =
         Crc!Xor(Crc!Xor(Crc!CrcAfter(f)[k + 1], Crc!CrcAfter(g)[k + 1]), ToCome(bits, k + 1))
  <2> DEFINE p == Crc!Xor(a, x)
             q == Crc!Xor(b, Crc!Xor(x, e))
  <2>1. p \in SUBSET Nat /\ q \in SUBSET Nat /\ r \in SUBSET Nat /\ Crc!Xor(p, q) \in SUBSET Nat
    BY <1>2 DEF Crc!Xor
  <2>2. Crc!Xor(Crc!Xor(a, b), Crc!Xor(e, r)) = Crc!Xor(Crc!Xor(p, q), r)
    BY XorRegroups
  <2> HIDE DEF p, q
  <2>3. Crc!EightRounds(Crc!Xor(Crc!Xor(p, q), r)) =
           Crc!Xor(Crc!Xor(Crc!EightRounds(p), Crc!EightRounds(q)), Crc!EightRounds(r))
    BY <2>1, EightAdd
  <2>4. Crc!EightRounds(r) = ToCome(bits, k + 1)
    BY <1>2, <1>4, EightShift
  <2> QED
    BY <1>5, <2>2, <2>3, <2>4 DEF p, q
<1> QED
  BY <1>3, <1>6 DEF Difference, a, b, g

-----------------------------------------------------------------------------
(* Neither a burst nor an odd number of bits is ever turned into nothing.  *)

Narrow(w) == w \in SUBSET Nat /\ w # {} /\ \E a \in Nat : w \subseteq a .. a + 15

LEMMA NarrowRound ==
  ASSUME NEW w, Narrow(w)
  PROVE  Narrow(Crc!Round(w))
<1>1. PICK a \in Nat : w \subseteq a .. a + 15
  BY DEF Narrow
<1>2. w \in SUBSET Nat /\ Crc!Round(w) \in SUBSET Nat
  BY RoundBits DEF Narrow
<1>3. CASE 0 \in w
  <2>1. a = 0 /\ 16 \notin w /\ \A i \in w : i <= 15
    BY <1>1, <1>3
  <2>2. 15 \in Crc!Round(w)
    BY <1>2, <1>3, <2>1, RoundBits
  <2>3. Crc!Round(w) \subseteq 0 .. 0 + 15
    BY <1>2, <2>1, RoundBits
  <2> QED
    BY <1>2, <2>2, <2>3 DEF Narrow
<1>4. CASE 0 \notin w
  <2>1. \A i \in Nat : i \in Crc!Round(w) <=> i + 1 \in w
    BY <1>2, <1>4, RoundBits
  <2>2. PICK j \in w : TRUE
    BY DEF Narrow
  <2>3. j - 1 \in Nat /\ j - 1 \in Crc!Round(w)
    BY <1>2, <1>4, <2>1, <2>2
  <2>4. CASE a = 0
    <3>1. Crc!Round(w) \subseteq 0 .. 0 + 15
      BY <1>1, <1>2, <2>1, <2>4
    <3> QED
      BY <1>2, <2>3, <3>1 DEF Narrow
  <2>5. CASE a # 0
    <3>1. a - 1 \in Nat /\ Crc!Round(w) \subseteq a - 1 .. (a - 1) + 15
      BY <1>1, <1>2, <2>1, <2>5
    <3> QED
      BY <1>2, <2>3, <3>1 DEF Narrow
  <2> QED
    BY <2>4, <2>5
<1> QED
  BY <1>3, <1>4

LEMMA NarrowTurns ==
  ASSUME NEW w, Narrow(w)
  PROVE  Narrow(Crc!EightRounds(w))
BY NarrowRound DEF Crc!EightRounds

OddBits(w) == w \in SUBSET Nat /\ IsFiniteSet(w) /\ Cardinality(w) % 2 = 1

LEMMA XorParity ==
  ASSUME NEW v, NEW w, IsFiniteSet(v), IsFiniteSet(w)
  PROVE  /\ IsFiniteSet(Crc!Xor(v, w))
         /\ Cardinality(Crc!Xor(v, w)) % 2 = (Cardinality(v) + Cardinality(w)) % 2
<1> DEFINE c == Cardinality(v \cap w)
<1>1. /\ IsFiniteSet(v \ w) /\ Cardinality(v \ w) = Cardinality(v) - c
      /\ IsFiniteSet(w \ v) /\ Cardinality(w \ v) = Cardinality(w) - c
  <2>1. w \cap v = v \cap w
    OBVIOUS
  <2> QED
    BY <2>1, FS_Difference
<1>2. /\ IsFiniteSet((v \ w) \cup (w \ v))
      /\ Cardinality((v \ w) \cup (w \ v)) = Cardinality(v \ w) + Cardinality(w \ v) - Cardinality({})
  <2>1. (v \ w) \cap (w \ v) = {}
    OBVIOUS
  <2> QED
    BY <1>1, <2>1, FS_Union
<1>3. c \in Nat /\ Cardinality(v) \in Nat /\ Cardinality(w) \in Nat /\ Cardinality({}) = 0
  BY FS_Intersection, FS_CardinalityType, FS_EmptySet
<1> HIDE DEF c
<1>4. Cardinality(Crc!Xor(v, w)) = Cardinality(v) + Cardinality(w) - 2 * c
  BY <1>1, <1>2, <1>3 DEF Crc!Xor
<1> QED
  BY <1>2, <1>3, <1>4 DEF Crc!Xor

LEMMA OfThree ==
  ASSUME NEW a, NEW b, NEW c, a # b, b # c, a # c
  PROVE  IsFiniteSet({a, b, c}) /\ Cardinality({a, b, c}) = 3
<1>1. IsFiniteSet({a}) /\ Cardinality({a}) = 1
  BY FS_Singleton
<1>2. IsFiniteSet({a} \cup {b}) /\ Cardinality({a} \cup {b}) = 2
  BY <1>1, FS_AddElement
<1>3. IsFiniteSet({a} \cup {b} \cup {c}) /\ Cardinality({a} \cup {b} \cup {c}) = 3
  BY <1>2, FS_AddElement
<1>4. {a, b, c} = {a} \cup {b} \cup {c}
  OBVIOUS
<1> QED
  BY <1>3, <1>4

LEMMA OddRound ==
  ASSUME NEW w, OddBits(w)
  PROVE  OddBits(Crc!Round(w))
<1> DEFINE h == w \ {0}
           f == [i \in h |-> i - 1]
<1>1. w \in SUBSET Nat /\ IsFiniteSet(w) /\ IsFiniteSet(h) /\ Cardinality(w) \in Nat /\ Cardinality(w) % 2 = 1
  BY FS_RemoveElement, FS_CardinalityType DEF OddBits
<1>2. IsFiniteSet(Crc!Right(w)) /\ Cardinality(Crc!Right(w)) = Cardinality(h)
  <2>1. f \in Bijection(h, Crc!Right(w))
    <3>1. f \in [h -> Crc!Right(w)]
      BY DEF Crc!Right
    <3>2. \A i, j \in h : f[i] = f[j] => i = j
      BY <1>1
    <3>3. \A k \in Crc!Right(w) : \E i \in h : f[i] = k
      BY DEF Crc!Right
    <3> HIDE DEF f, h
    <3> QED
      BY <3>1, <3>2, <3>3 DEF Bijection, Injection, Surjection, IsInjective
  <2> QED
    BY <1>1, <2>1, FS_Bijection DEF ExistsBijection
<1>3. Crc!Round(w) \in SUBSET Nat
  BY <1>1, RoundBits
<1>4. CASE 0 \in w
  <2>1. Cardinality(h) = Cardinality(w) - 1
    BY <1>1, <1>4, FS_RemoveElement
  <2>2. IsFiniteSet({15, 13, 0}) /\ Cardinality({15, 13, 0}) = 3
    BY OfThree
  <2>3. /\ IsFiniteSet(Crc!Xor(Crc!Right(w), {15, 13, 0}))
        /\ Cardinality(Crc!Xor(Crc!Right(w), {15, 13, 0})) % 2 = (Cardinality(w) - 1 + 3) % 2
    BY <1>2, <2>1, <2>2, XorParity
  <2>4. (Cardinality(w) - 1 + 3) % 2 = 1
    BY <1>1
  <2> QED
    BY <1>3, <1>4, <2>3, <2>4 DEF OddBits, Crc!Round
<1>5. CASE 0 \notin w
  <2>1. h = w
    BY <1>5
  <2> QED
    BY <1>1, <1>2, <1>3, <1>5, <2>1 DEF OddBits, Crc!Round
<1> QED
  BY <1>4, <1>5

LEMMA OddTurns ==
  ASSUME NEW w, OddBits(w)
  PROVE  OddBits(Crc!EightRounds(w))
BY OddRound DEF Crc!EightRounds

Alive(w) == Narrow(w) \/ OddBits(w)

LEMMA StaysAlive ==
  ASSUME NEW f \in Seq(Byte), NEW bits \in SUBSET Nat, Alive(bits)
  PROVE  \A k \in 0 .. Len(f) : Alive(Difference(f, bits, k))
<1> DEFINE S == {k \in Nat : k <= Len(f) => Alive(Difference(f, bits, k))}
<1>0. Len(f) \in Nat
  OBVIOUS
<1>1. 0 \in S
  <2>1. ToCome(bits, 0) = bits
    <3>1. \A i \in bits : i \in Nat /\ 8 * 0 <= i /\ i - 8 * 0 = i
      OBVIOUS
    <3> QED
      BY <3>1, Zenon DEF ToCome
  <2>2. Crc!CrcAfter(f)[0] = Crc!CrcAfter(Crc!Flip(f, bits))[0]
    BY <1>0, FlipFrame, Loop
  <2>3. Difference(f, bits, 0) = bits
    BY <2>1, <2>2 DEF Difference, Crc!Xor
  <2> QED
    BY <2>3
<1>2. ASSUME NEW k \in Nat, k \in S
      PROVE  k + 1 \in S
  <2>1. SUFFICES ASSUME k + 1 <= Len(f) PROVE Alive(Difference(f, bits, k + 1))
    OBVIOUS
  <2>2. k < Len(f) /\ Alive(Difference(f, bits, k))
    BY <1>0, <1>2, <2>1
  <2>3. Difference(f, bits, k + 1) = Crc!EightRounds(Difference(f, bits, k))
    BY <2>2, DifferenceTurns
  <2> QED
    BY <2>2, <2>3, NarrowTurns, OddTurns DEF Alive
<1>3. Nat \subseteq S
  <2> HIDE DEF S
  <2> QED
    BY <1>1, <1>2, Induction
<1> QED
  BY <1>0, <1>3

\* A frame that checks does not check any more when such bits of it are disturbed.
LEMMA AliveIsFound ==
  ASSUME NEW f \in Seq(Byte), 2 <= Len(f), Crc!Checks(f),
         NEW bits \in SUBSET (0 .. 8 * Len(f) - 1), Alive(bits)
  PROVE  ~Crc!Checks(Crc!Flip(f, bits))
<1> DEFINE n == Len(f)
           g == Crc!Flip(f, bits)
<1>0. n \in Nat /\ n \in 0 .. n /\ bits \in SUBSET Nat
  OBVIOUS
<1>1. g \in Seq(Byte) /\ Len(g) = n
  BY FlipFrame
<1>2. Alive(Difference(f, bits, n))
  BY <1>0, StaysAlive
<1>3. Difference(f, bits, n) # {}
  <2>1. Cardinality({}) = 0
    BY FS_EmptySet
  <2>2. ~OddBits({})
    BY <2>1 DEF OddBits
  <2>3. ~Narrow({})
    BY DEF Narrow
  <2> QED
    BY <1>2, <2>2, <2>3 DEF Alive
<1>4. ToCome(bits, n) = {}
  <2>1. \A j \in bits : ~(8 * n <= j)
    BY <1>0
  <2> QED
    BY <2>1 DEF ToCome
<1>5. Crc!CrcAfter(f)[n] = {}
  BY RightIsZero
<1> HIDE DEF n, g
<1>6. Crc!CrcAfter(g)[n] # {}
  BY <1>3, <1>4, <1>5 DEF Difference, Crc!Xor, g
<1> QED
  BY <1>1, <1>6, RightIsZero DEF n, g

\* For every frame whose CRC is right, of any length: when an odd number of its
\* bits are disturbed, MODBUS_Process finds the CRC wrong.
THEOREM OddErrorsAreFound ==
  ASSUME NEW f \in Seq(Byte), 2 <= Len(f), Crc!Checks(f),
         NEW bits \in SUBSET (0 .. 8 * Len(f) - 1), Cardinality(bits) % 2 = 1
  PROVE  ~Crc!Checks(Crc!Flip(f, bits))
<1>1. bits \in SUBSET Nat /\ IsFiniteSet(bits)
  <2>1. 8 * Len(f) - 1 \in Int /\ bits \in SUBSET Nat
    OBVIOUS
  <2>2. IsFiniteSet(0 .. 8 * Len(f) - 1)
    BY <2>1, FS_Interval
  <2>3. IsFiniteSet(bits)
    BY <2>2, FS_Subset
  <2> QED
    BY <2>1, <2>3
<1> QED
  BY <1>1, AliveIsFound DEF Alive, OddBits

\* And when the bits disturbed lie within 16 in a row, wherever they are, the
\* bytes of the CRC included.
THEOREM BurstsAreFound ==
  ASSUME NEW f \in Seq(Byte), 2 <= Len(f), Crc!Checks(f),
         NEW bits \in SUBSET (0 .. 8 * Len(f) - 1), bits # {},
         NEW a \in Nat, bits \subseteq a .. a + 15
  PROVE  ~Crc!Checks(Crc!Flip(f, bits))
<1>1. Narrow(bits)
  <2>1. bits \in SUBSET Nat
    OBVIOUS
  <2> QED
    BY <2>1 DEF Narrow
<1> QED
  BY <1>1, AliveIsFound DEF Alive

-----------------------------------------------------------------------------
(* The steps                                                               *)

LEMMA WithCrcChecks ==
  ASSUME NEW m \in Seq(Byte)
  PROVE  /\ Crc!WithCrc(m) \in Seq(Byte) /\ 2 <= Len(Crc!WithCrc(m))
         /\ Crc!Checks(Crc!WithCrc(m))
<1> DEFINE c == Crc!MODBUS_CRC16(m)
           n == Len(m)
           f == Crc!WithCrc(m)
<1>0. n \in Nat /\ c \in Word
  BY CrcWord DEF Crc!MODBUS_CRC16
<1>1. Crc!Low(c) \in Byte /\ Crc!High(c) \in Byte
  BY <1>0 DEF Crc!Low, Crc!High, Byte
<1>2. Crc!Left(Crc!High(c), 8) \cup Crc!Low(c) = c
  <2>1. \A i \in c : i \in Nat /\ (i \in 0 .. 7 \/ i \in 8 .. 15) /\ (i - 8) + 8 = i
    BY <1>0 DEF Word
  <2> QED
    BY <2>1 DEF Crc!Left, Crc!High, Crc!Low
<1> HIDE DEF c
<1>3. /\ f \in Seq(Byte) /\ Len(f) = n + 2
      /\ f[n + 1] = Crc!Low(c) /\ f[n + 2] = Crc!High(c)
      /\ \A i \in 1 .. n : f[i] = m[i]
  <2>1. f = m \o <<Crc!Low(c), Crc!High(c)>>
    BY DEF Crc!WithCrc, c
  <2> HIDE DEF f
  <2> QED
    BY <1>1, <2>1
<1> HIDE DEF f
<1>4. SubSeq(f, 1, (n + 2) - 2) = m
  <2>1. (n + 2) - 2 = n
    BY <1>0
  <2>2. SubSeq(f, 1, n) = m
    BY <1>0, <1>3
  <2> QED
    BY <2>1, <2>2
<1>5. (n + 2) - 1 = n + 1 /\ 2 <= n + 2
  BY <1>0
<1>6. Crc!Checks(f)
  BY <1>2, <1>3, <1>4, <1>5 DEF Crc!Checks, c
<1> QED
  BY <1>3, <1>5, <1>6 DEF f

CrcInv ==
    /\ x_sent \in Seq(Byte) /\ 2 <= Len(x_sent) /\ Crc!Checks(x_sent)
    /\ x_frame = x_sent \/ ~Crc!Checks(x_frame)
    /\ x_verdict = "right" => x_frame = x_sent
    /\ x_verdict = "wrong" => x_frame # x_sent

LEMMA CrcInit == Crc!Init => CrcInv
BY WithCrcChecks, CrcAssumption DEF Crc!Init, CrcInv, Byte

LEMMA CrcStep == CrcInv /\ (Crc!Next \/ UNCHANGED xVars) => CrcInv'
<1> SUFFICES ASSUME CrcInv, Crc!Next \/ UNCHANGED xVars PROVE CrcInv'
  OBVIOUS
<1>1. CASE Crc!Disturb
  <2> DEFINE places == 0 .. 8 * Len(x_sent) - 1
  <2>1. x_verdict = "none" /\ UNCHANGED <<x_sent, x_verdict>>
    BY <1>1 DEF Crc!Disturb
  <2>2. SUFFICES ~Crc!Checks(x_frame')
    BY <2>1 DEF CrcInv
  <2>a. \/ \E first \in places, more \in SUBSET (1 .. Burst - 1) :
              x_frame' = Crc!Flip(x_sent, {first} \cup {first + i : i \in more})
        \/ \E a, b, c \in places :
              a < b /\ b < c /\ x_frame' = Crc!Flip(x_sent, {a, b, c})
    BY <1>1 DEF Crc!Disturb
  <2>3. CASE \E first \in places, more \in SUBSET (1 .. Burst - 1) :
               x_frame' = Crc!Flip(x_sent, {first} \cup {first + i : i \in more})
    <3>1. PICK first \in places, more \in SUBSET (1 .. Burst - 1) :
             x_frame' = Crc!Flip(x_sent, {first} \cup {first + i : i \in more})
      BY <2>3
    <3> DEFINE bits   == {first} \cup {first + i : i \in more}
               inside == bits \cap places
    <3>2. first \in inside /\ first \in Nat /\ inside \subseteq first .. first + 15
      BY CrcAssumption
    <3>3. ~Crc!Checks(Crc!Flip(x_sent, inside))
      <4> HIDE DEF bits
      <4>1. inside \in SUBSET places /\ inside # {}
        BY <3>2
      <4> HIDE DEF inside
      <4> QED
        BY <3>2, <4>1, BurstsAreFound DEF CrcInv
    <3>4. Crc!Flip(x_sent, inside) = Crc!Flip(x_sent, bits)
      <4>1. \A k \in DOMAIN x_sent, i \in 0 .. 7 : 8 * (k - 1) + i \in places
        BY DEF CrcInv
      <4> HIDE DEF bits, places
      <4> QED
        BY <4>1 DEF Crc!Flip
    <3> QED
      BY <3>1, <3>3, <3>4
  <2>4. CASE \E a, b, c \in places :
               a < b /\ b < c /\ x_frame' = Crc!Flip(x_sent, {a, b, c})
    <3>1. PICK a \in places, b \in places, c \in places :
             a < b /\ b < c /\ x_frame' = Crc!Flip(x_sent, {a, b, c})
      BY <2>4
    <3>2. Cardinality({a, b, c}) % 2 = 1
      <4>1. 8 * Len(x_sent) - 1 \in Int
        BY DEF CrcInv
      <4>2. a # b /\ b # c /\ a # c
        BY <3>1, <4>1
      <4>3. Cardinality({a, b, c}) = 3
        BY <4>2, OfThree
      <4> QED
        BY <4>3
    <3> QED
      BY <3>1, <3>2, OddErrorsAreFound DEF CrcInv
  <2> QED
    BY <2>a, <2>3, <2>4
<1>2. CASE Crc!MODBUS_Process
  BY <1>2 DEF CrcInv, Crc!MODBUS_Process
<1>3. CASE UNCHANGED xVars
  BY <1>3 DEF CrcInv, xVars
<1> QED
  BY <1>1, <1>2, <1>3 DEF Crc!Next

\* The CRC of "123456789" is the one other devices compute.
LEMMA CheckValue ==
  Crc!MODBUS_CRC16(<<{0, 4, 5}, {1, 4, 5}, {0, 1, 4, 5}, {2, 4, 5}, {0, 2, 4, 5},
                     {1, 2, 4, 5}, {0, 1, 2, 4, 5}, {3, 4, 5}, {0, 3, 4, 5}>>)
     = {14, 11, 9, 8, 5, 4, 2, 1, 0}
<1> DEFINE f == <<{0, 4, 5}, {1, 4, 5}, {0, 1, 4, 5}, {2, 4, 5}, {0, 2, 4, 5},
                 {1, 2, 4, 5}, {0, 1, 2, 4, 5}, {3, 4, 5}, {0, 3, 4, 5}>>
           c == Crc!CrcAfter(f)
<1>1. /\ c[0] = 0 .. 15
      /\ \A k \in 1 .. 9 : c[k] = Crc!EightRounds(Crc!Xor(c[k - 1], f[k]))
  <2>1. Len(f) = 9
    OBVIOUS
  <2> HIDE DEF f
  <2>2. Len(f) \in Nat
    BY <2>1
  <2> QED
    BY <2>1, <2>2, Loop
<1>2. Crc!MODBUS_CRC16(f) = c[9]
  BY DEF Crc!MODBUS_CRC16
<1> HIDE DEF c
<1>3. c[1] = {1, 2, 3, 4, 5, 6, 10, 12, 15}
  <2>1. c[1] = Crc!EightRounds(Crc!Xor(0 .. 15, {0, 4, 5}))
    BY <1>1
  <2>2. Crc!Xor(0 .. 15, {0, 4, 5}) = {1, 2, 3, 6, 7, 8, 9, 10, 11, 12, 13, 14, 15}
    BY DEF Crc!Xor
  <2>3. Crc!EightRounds({1, 2, 3, 6, 7, 8, 9, 10, 11, 12, 13, 14, 15}) = {1, 2, 3, 4, 5, 6, 10, 12, 15}
    BY RoundBits DEF Crc!EightRounds
  <2> QED
    BY <2>1, <2>2, <2>3
<1>4. c[2] = {0, 2, 4, 7, 8, 10, 12, 13, 14, 15}
  <2>1. c[2] = Crc!EightRounds(Crc!Xor({1, 2, 3, 4, 5, 6, 10, 12, 15}, {1, 4, 5}))
    BY <1>1, <1>3
  <2>2. Crc!Xor({1, 2, 3, 4, 5, 6, 10, 12, 15}, {1, 4, 5}) = {2, 3, 6, 10, 12, 15}
    BY DEF Crc!Xor
  <2>3. Crc!EightRounds({2, 3, 6, 10, 12, 15}) = {0, 2, 4, 7, 8, 10, 12, 13, 14, 15}
    BY RoundBits DEF Crc!EightRounds
  <2> QED
    BY <2>1, <2>2, <2>3
<1>5. c[3] = {0, 2, 4, 5, 6, 9, 11, 12, 13, 14}
  <2>1. c[3] = Crc!EightRounds(Crc!Xor({0, 2, 4, 7, 8, 10, 12, 13, 14, 15}, {0, 1, 4, 5}))
    BY <1>1, <1>4
  <2>2. Crc!Xor({0, 2, 4, 7, 8, 10, 12, 13, 14, 15}, {0, 1, 4, 5}) = {1, 2, 5, 7, 8, 10, 12, 13, 14, 15}
    BY DEF Crc!Xor
  <2>3. Crc!EightRounds({1, 2, 5, 7, 8, 10, 12, 13, 14, 15}) = {0, 2, 4, 5, 6, 9, 11, 12, 13, 14}
    BY RoundBits DEF Crc!EightRounds
  <2> QED
    BY <2>1, <2>2, <2>3
<1>6. c[4] = {1, 3, 4, 5, 7, 12, 13}
  <2>1. c[4] = Crc!EightRounds(Crc!Xor({0, 2, 4, 5, 6, 9, 11, 12, 13, 14}, {2, 4, 5}))
    BY <1>1, <1>5
  <2>2. Crc!Xor({0, 2, 4, 5, 6, 9, 11, 12, 13, 14}, {2, 4, 5}) = {0, 6, 9, 11, 12, 13, 14}
    BY DEF Crc!Xor
  <2>3. Crc!EightRounds({0, 6, 9, 11, 12, 13, 14}) = {1, 3, 4, 5, 7, 12, 13}
    BY RoundBits DEF Crc!EightRounds
  <2> QED
    BY <2>1, <2>2, <2>3
<1>7. c[5] = {0, 4, 5, 6, 10, 13, 15}
  <2>1. c[5] = Crc!EightRounds(Crc!Xor({1, 3, 4, 5, 7, 12, 13}, {0, 2, 4, 5}))
    BY <1>1, <1>6
  <2>2. Crc!Xor({1, 3, 4, 5, 7, 12, 13}, {0, 2, 4, 5}) = {0, 1, 2, 3, 7, 12, 13}
    BY DEF Crc!Xor
  <2>3. Crc!EightRounds({0, 1, 2, 3, 7, 12, 13}) = {0, 4, 5, 6, 10, 13, 15}
    BY RoundBits DEF Crc!EightRounds
  <2> QED
    BY <2>1, <2>2, <2>3
<1>8. c[6] = {2, 5, 6, 7, 9, 12, 13}
  <2>1. c[6] = Crc!EightRounds(Crc!Xor({0, 4, 5, 6, 10, 13, 15}, {1, 2, 4, 5}))
    BY <1>1, <1>7
  <2>2. Crc!Xor({0, 4, 5, 6, 10, 13, 15}, {1, 2, 4, 5}) = {0, 1, 2, 6, 10, 13, 15}
    BY DEF Crc!Xor
  <2>3. Crc!EightRounds({0, 1, 2, 6, 10, 13, 15}) = {2, 5, 6, 7, 9, 12, 13}
    BY RoundBits DEF Crc!EightRounds
  <2> QED
    BY <2>1, <2>2, <2>3
<1>9. c[7] = {0, 1, 4, 5, 6, 8, 10, 11, 12, 15}
  <2>1. c[7] = Crc!EightRounds(Crc!Xor({2, 5, 6, 7, 9, 12, 13}, {0, 1, 2, 4, 5}))
    BY <1>1, <1>8
  <2>2. Crc!Xor({2, 5, 6, 7, 9, 12, 13}, {0, 1, 2, 4, 5}) = {0, 1, 4, 6, 7, 9, 12, 13}
    BY DEF Crc!Xor
  <2>3. Crc!EightRounds({0, 1, 4, 6, 7, 9, 12, 13}) = {0, 1, 4, 5, 6, 8, 10, 11, 12, 15}
    BY RoundBits DEF Crc!EightRounds
  <2> QED
    BY <2>1, <2>2, <2>3
<1>10. c[8] = {0, 2, 3, 4, 6, 7, 8, 9, 10, 12, 13}
  <2>1. c[8] = Crc!EightRounds(Crc!Xor({0, 1, 4, 5, 6, 8, 10, 11, 12, 15}, {3, 4, 5}))
    BY <1>1, <1>9
  <2>2. Crc!Xor({0, 1, 4, 5, 6, 8, 10, 11, 12, 15}, {3, 4, 5}) = {0, 1, 3, 6, 8, 10, 11, 12, 15}
    BY DEF Crc!Xor
  <2>3. Crc!EightRounds({0, 1, 3, 6, 8, 10, 11, 12, 15}) = {0, 2, 3, 4, 6, 7, 8, 9, 10, 12, 13}
    BY RoundBits DEF Crc!EightRounds
  <2> QED
    BY <2>1, <2>2, <2>3
<1>11. c[9] = {0, 1, 2, 4, 5, 8, 9, 11, 14}
  <2>1. c[9] = Crc!EightRounds(Crc!Xor({0, 2, 3, 4, 6, 7, 8, 9, 10, 12, 13}, {0, 3, 4, 5}))
    BY <1>1, <1>10
  <2>2. Crc!Xor({0, 2, 3, 4, 6, 7, 8, 9, 10, 12, 13}, {0, 3, 4, 5}) = {2, 5, 6, 7, 8, 9, 10, 12, 13}
    BY DEF Crc!Xor
  <2>3. Crc!EightRounds({2, 5, 6, 7, 8, 9, 10, 12, 13}) = {0, 1, 2, 4, 5, 8, 9, 11, 14}
    BY RoundBits DEF Crc!EightRounds
  <2> QED
    BY <2>1, <2>2, <2>3
<1> QED
  BY <1>2, <1>11

\* And it goes low byte first: 0x37, 0x4B.
LEMMA CheckFrame == Crc!WithCrc(Crc!Digits) = Crc!Digits \o <<{0, 1, 2, 4, 5}, {0, 1, 3, 6}>>
<1> DEFINE w == {14, 11, 9, 8, 5, 4, 2, 1, 0}
<1>1. Crc!MODBUS_CRC16(Crc!Digits) = w
  BY CheckValue DEF Crc!Digits
<1>2. Crc!Low(w) = {0, 1, 2, 4, 5}
  BY DEF Crc!Low
<1>3. Crc!High(w) = {0, 1, 3, 6}
  <2>1. w \cap 8 .. 15 = {8, 9, 11, 14}
    OBVIOUS
  <2>2. {i - 8 : i \in {8, 9, 11, 14}} = {0, 1, 3, 6}
    <3>1. /\ 8 - 8 = 0 /\ 9 - 8 = 1 /\ 11 - 8 = 3 /\ 14 - 8 = 6
      OBVIOUS
    <3> QED
      BY <3>1
  <2> QED
    BY <2>1, <2>2 DEF Crc!High
<1> HIDE DEF w
<1> QED
  BY <1>1, <1>2, <1>3 DEF Crc!WithCrc

-----------------------------------------------------------------------------
(* The theorems                                                            *)

NumbersInv == ClockInv /\ BtnInv /\ LensInv /\ PortInv /\ CrcInv

LEMMA Begin == MCInit => NumbersInv
BY ClockInit, BtnInit, LensInit, PortInit, CrcInit DEF MCInit, NumbersInv

LEMMA Move == [MCNext]_<<part, vars, bVars, tVars, rVars, xVars>> =>
                /\ Next \/ UNCHANGED vars
                /\ Btn!Next \/ UNCHANGED bVars
                /\ Lens!Next \/ UNCHANGED rVars
                /\ Port!Next \/ UNCHANGED tVars
                /\ Crc!Next \/ UNCHANGED xVars
BY DEF MCNext

LEMMA Holds == MCSpec => []NumbersInv
<1>1. NumbersInv /\ [MCNext]_<<part, vars, bVars, tVars, rVars, xVars>> => NumbersInv'
  BY Move, ClockStep, BtnStep, BtnSame, LensStep, PortStep, CrcStep DEF NumbersInv
<1> QED
  BY Begin, <1>1, PTL DEF MCSpec

\* A commit is due exactly when the last write is Delay old or the first one
\* MaxHold old, across the wrap-around of the counter (modbus.c: TimeReached
\* 35-38, NV_MarkDirty 27-33, NV_CommitTimerDue 40-46).
THEOREM CommitsInTime == MCSpec => []DueInTime
<1>1. ClockInv => DueInTime
  BY ClockHolds
<1> QED
  BY <1>1, Holds, PTL DEF NumbersInv

\* A press is reported once at the most, when it is over, and as what it was,
\* through bounces, late polls and the wrap-around of the counter (button.c).
THEOREM ClicksAreReported == MCSpec => []Clicks
<1>1. BtnInv => Clicks
  BY BtnHolds DEF Clicks
<1> QED
  BY <1>1, Holds, PTL DEF NumbersInv

\* No request passes that asks for what there is not, no legal one is refused,
\* and no answer outgrows MB_FRAME_SIZE, for every frame (modbus.c:195-367).
THEOREM EveryAnswerFits == MCSpec => []AnswersFit
<1>1. LensInv => AnswersFit
  BY DEF LensInv, AnswersFit
<1> QED
  BY <1>1, Holds, PTL DEF NumbersInv

\* Whatever was configured before and whichever clock drives the port, a
\* configuration gives it the format and the baud rate of the register and a
\* T3.5 timer of that format (modbus.c: ReconfigureUARTCFG; usart_g0.c:
\* USART_Init, USART_BrrCalc; the RCC_Get..._Hz of src/src/ll).
THEOREM TimingIsRight == MCSpec => []TimingRight
<1>1. PortInv => TimingRight
  BY DEF PortInv, TimingRight
<1> QED
  BY <1>1, Holds, PTL DEF NumbersInv

\* For every message: what was sent is found right, and what a burst of at most
\* 16 bits or three bits anywhere have changed is found wrong, the bytes of the
\* CRC included; the check value goes behind "123456789", low byte first
\* (modbus.c: MODBUS_CRC16, 234-237, MODBUS_Process 156-170).
THEOREM ErrorsAreFound == MCSpec => []CrcDetects
<1>1. CrcInv => CrcDetects
  BY CheckFrame DEF CrcInv, CrcDetects, Crc!CrcDetects
<1> QED
  BY <1>1, Holds, PTL DEF NumbersInv
=============================================================================
