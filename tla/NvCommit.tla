------------------------------ MODULE NvCommit ------------------------------
(***************************************************************************)
(* When src/src/modbus.c asks for the registers to be saved: NV_MarkDirty  *)
(* after every write, NV_CommitTimerDue polled by the application, both on *)
(* millis(), an unsigned counter that wraps around.  A commit is due       *)
(* Delay milliseconds after the last write, and MaxHold milliseconds after *)
(* the first one even if the writes do not stop.                           *)
(***************************************************************************)
EXTENDS Naturals

CONSTANTS
    Half,       \* half the range of the millisecond counter (2^31)
    Delay,      \* COMMIT_DELAY_MS
    MaxHold,    \* COMMIT_MAX_HOLD_MS
    MaxAge      \* bound: a change is saved before it is that old

ASSUME CommitAssumption ==
    /\ Half \in Nat /\ Delay \in Nat /\ MaxHold \in Nat /\ MaxAge \in Nat
    /\ 0 < Delay /\ Delay <= MaxHold /\ MaxHold <= MaxAge /\ MaxAge < Half

VARIABLES
    now,                 \* msTicks
    nv_dirty,            \* config->nv_dirty
    nv_deadline_ms,      \* config->nv_deadline_ms
    nv_first_dirty_ms,   \* config->nv_first_dirty_ms
    since_first,         \* milliseconds since the first unsaved write
    since_last           \* milliseconds since the last one

vars == <<now, nv_dirty, nv_deadline_ms, nv_first_dirty_ms, since_first, since_last>>

Mod   == 2 * Half
Ticks == 0 .. Mod - 1

\* Unsigned addition and subtraction.
Plus(s, d)  == IF s + d < Mod THEN s + d ELSE s + d - Mod
Minus(s, t) == IF s >= t THEN s - t ELSE s + Mod - t

\* Mutant: times compared as plain numbers.
ReachedPlain(s, t) == s >= t

\* (int32_t)(now - t) >= 0
TimeReached(s, t) == Minus(s, t) < Half

NV_CommitTimerDue ==
    /\ nv_dirty
    /\ \/ TimeReached(now, nv_deadline_ms)
       \/ TimeReached(now, Plus(nv_first_dirty_ms, MaxHold))

Init == /\ now \in Ticks
        /\ nv_dirty = FALSE /\ nv_deadline_ms = 0 /\ nv_first_dirty_ms = 0
        /\ since_first = 0 /\ since_last = 0

\* A register is written (the end of both write handlers).
NV_MarkDirty ==
    /\ nv_dirty' = TRUE
    /\ nv_first_dirty_ms' = IF nv_dirty THEN nv_first_dirty_ms ELSE now
    /\ nv_deadline_ms' = Plus(now, Delay)
    /\ since_last' = 0
    /\ UNCHANGED <<now, since_first>>

SysTick_Handler ==
    /\ nv_dirty => since_first < MaxAge
    /\ now' = Plus(now, 1)
    /\ since_first' = IF nv_dirty THEN since_first + 1 ELSE 0
    /\ since_last' = IF nv_dirty THEN since_last + 1 ELSE 0
    /\ UNCHANGED <<nv_dirty, nv_deadline_ms, nv_first_dirty_ms>>

\* The application saves the registers and takes the mark back.
Commit ==
    /\ NV_CommitTimerDue
    /\ nv_dirty' = FALSE
    /\ since_first' = 0 /\ since_last' = 0
    /\ UNCHANGED <<now, nv_deadline_ms, nv_first_dirty_ms>>

Next == NV_MarkDirty \/ SysTick_Handler \/ Commit

Spec == Init /\ [][Next]_vars

-----------------------------------------------------------------------------
(* Properties                                                              *)

TypeOK ==
    /\ now \in Ticks /\ nv_dirty \in BOOLEAN
    /\ nv_deadline_ms \in Ticks /\ nv_first_dirty_ms \in Ticks
    /\ since_first \in 0 .. MaxAge /\ since_last \in 0 .. MaxAge

\* A commit is due exactly when the last write is Delay old or the first one
\* MaxHold old: a stream of writes cannot put it off for longer, a burst of
\* writes does not bring it forward, and the wrap-around of the counter
\* changes neither.
DueInTime ==
    NV_CommitTimerDue <=>
        nv_dirty /\ (since_last >= Delay \/ since_first >= MaxHold)

\* Why: both stamps are the counter's value then, whatever it has wrapped.
ClockInv ==
    /\ TypeOK
    /\ since_last <= since_first
    /\ nv_dirty => /\ Minus(now, nv_first_dirty_ms) = since_first
                   /\ nv_deadline_ms = Plus(Minus(now, since_last), Delay)
    /\ ~nv_dirty => since_first = 0
=============================================================================
