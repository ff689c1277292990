------------------------------ MODULE FlashLL ------------------------------
(***************************************************************************)
(* flash_ll_g0.c: unlocking, locking, erasing a page and programming a     *)
(* doubleword, one access to the flash controller at a time, with the      *)
(* interrupts that are masked meanwhile.  An operation of the controller   *)
(* may fail before, in, or after its effect.                               *)
(***************************************************************************)
EXTENDS Integers

CONSTANTS
    Pages,      \* pages of the flash
    Words,      \* doublewords of a page
    Values      \* what may be programmed

VARIABLES
    mem,        \* the flash
    cr,         \* LOCK, PG and PER
    bsy,        \* the operation under way
    err,        \* an error flag of FLASH_SR
    primask,    \* interrupts are masked
    pc, req,    \* where the call is, and what it is
    saved,      \* the PRIMASK it has found
    result,     \* its result so far
    res,        \* what the last call returned
    blame       \* ghost: there is a reason for this call to fail

chip == <<mem, cr, bsy, err>>
drv  == <<pc, req, saved, result, res>>
vars == <<chip, primask, drv, blame>>

Programs == [op: {"program"}, page: Pages, word: Words, val: Values]
Erasures == [op: {"erase"}, page: Pages]
Locks    == [op: {"lock", "unlock"}]
Requests == Programs \cup Erasures \cup Locks

Init == /\ mem \in [Pages -> [Words -> {"erased", "junk"}]]
        /\ cr = [lock |-> TRUE, pg |-> FALSE, per |-> FALSE]
        /\ bsy = FALSE /\ err \in BOOLEAN /\ primask = FALSE
        /\ pc = "idle" /\ req = [op |-> "none"] /\ saved = FALSE /\ result = 0 /\ res = 0 /\ blame = err

-----------------------------------------------------------------------------
(* The controller                                                          *)

\* What the operation makes of the page, and what it may make of it if it
\* fails.
Done(page) == IF req.op = "program" THEN [page EXCEPT ![req.word] = req.val]
                                    ELSE [w \in Words |-> "erased"]
Torn(page) == IF req.op = "program" THEN [page EXCEPT ![req.word] = "junk"]
                                    ELSE [w \in Words |-> "junk"]

\* A doubleword that is not erased is not programmed: PROGERR.
Allowed == req.op = "program" => mem[req.page][req.word] = "erased"

Succeed == /\ bsy /\ Allowed
           /\ bsy' = FALSE
           /\ mem' = [mem EXCEPT ![req.page] = Done(@)]
           /\ UNCHANGED <<cr, err, primask, drv, blame>>

Fail == /\ bsy
        /\ bsy' = FALSE /\ err' = TRUE /\ blame' = TRUE
        /\ \/ UNCHANGED mem
           \/ Allowed /\ mem' \in {[mem EXCEPT ![req.page] = Torn(@)],
                                   [mem EXCEPT ![req.page] = Done(@)]}
        /\ UNCHANGED <<cr, primask, drv>>

\* Between calls: something else has left an error (a read of a protected
\* page, a stray store), or masks interrupts.
Disturb == /\ pc = "idle"
           /\ err' = TRUE /\ blame' = TRUE
           /\ UNCHANGED <<mem, cr, bsy, primask, drv>>

Mask == /\ pc = "idle"
        /\ primask' = ~primask
        /\ UNCHANGED <<chip, drv, blame>>

-----------------------------------------------------------------------------
(* The driver                                                              *)

Goto(p)   == pc' = p /\ UNCHANGED <<req, saved, result, res, blame>>
Return(v) == /\ pc' = "idle" /\ res' = v /\ saved' = FALSE /\ result' = 0
             /\ UNCHANGED req

Call(r) ==
    /\ pc = "idle"
    /\ req' = r /\ result' = -1 /\ res' = 0
    /\ pc' = IF r.op \in {"program", "erase"} THEN "enter" ELSE r.op
    /\ blame' = \/ blame
                \/ (r.op = "program" /\ (cr.lock \/ mem[r.page][r.word] # "erased"))
    /\ UNCHANGED <<chip, primask, saved>>

flash_ll_unlock == /\ pc = "unlock"
                   /\ cr' = [cr EXCEPT !.lock = FALSE]
                   /\ Return(0) /\ UNCHANGED blame
                   /\ UNCHANGED <<mem, bsy, err, primask>>

\* An error flag keeps it from locking.
flash_ll_lock == /\ pc = "lock" /\ ~bsy
                 /\ IF err THEN Return(-1) /\ UNCHANGED cr
                           ELSE Return(0) /\ cr' = [cr EXCEPT !.lock = TRUE]
                 /\ UNCHANGED <<mem, bsy, err, primask, blame>>

\* Mutant: interrupts stay as they are.
DisableIrqNot == /\ pc = "enter"
                 /\ saved' = primask
                 /\ pc' = "ready"
                 /\ UNCHANGED <<chip, primask, req, result, res, blame>>

DisableIrq == /\ pc = "enter"
              /\ saved' = primask /\ primask' = TRUE
              /\ pc' = "ready"
              /\ UNCHANGED <<chip, req, result, res, blame>>

WaitReady == /\ pc = "ready" /\ ~bsy
             /\ Goto(IF err THEN "mode0" ELSE "clear")
             /\ UNCHANGED <<chip, primask>>

ClearFlags == /\ pc = "clear"
              /\ err' = FALSE
              /\ Goto("mode")
              /\ UNCHANGED <<mem, cr, bsy, primask>>

\* CR keeps its bits while LOCK is set.
SetMode == /\ pc = "mode"
           /\ cr' = IF cr.lock THEN cr
                    ELSE IF req.op = "program" THEN [cr EXCEPT !.pg = TRUE]
                                               ELSE [cr EXCEPT !.per = TRUE]
           /\ Goto("start")
           /\ UNCHANGED <<mem, bsy, err, primask>>

\* STRT, or the second store of the doubleword: without PG it is PGSERR.
StartOperation ==
    /\ pc = "start"
    /\ bsy' = (cr.pg \/ cr.per)
    /\ err' = (err \/ (req.op = "program" /\ ~cr.pg))
    /\ Goto("done")
    /\ UNCHANGED <<mem, cr, primask>>

\* What has been programmed is read back.
WaitDone == /\ pc = "done" /\ ~bsy
            /\ result' = IF \/ err
                            \/ /\ req.op = "program"
                               /\ mem[req.page][req.word] # req.val
                         THEN -1 ELSE 0
            /\ pc' = "mode0"
            /\ UNCHANGED <<chip, primask, req, saved, res, blame>>

ClearMode == /\ pc = "mode0"
             /\ cr' = IF req.op = "program" THEN [cr EXCEPT !.pg = FALSE]
                                            ELSE [cr EXCEPT !.per = FALSE]
             /\ Goto("clear0")
             /\ UNCHANGED <<mem, bsy, err, primask>>

\* Mutant: the flags of a failed operation are left.
ClearFlagsIfDone ==
    /\ pc = "clear0"
    /\ err' = (err /\ result # 0)
    /\ Goto("restore")
    /\ UNCHANGED <<mem, cr, bsy, primask>>

ClearFlagsAgain == /\ pc = "clear0"
                   /\ err' = FALSE
                   /\ Goto("restore")
                   /\ UNCHANGED <<mem, cr, bsy, primask>>

RestoreIrq == /\ pc = "restore"
              /\ primask' = saved
              /\ Return(result) /\ blame' = FALSE
              /\ UNCHANGED chip

Next == \/ Succeed \/ Fail \/ Disturb \/ Mask
        \/ \E r \in Requests : Call(r)
        \/ flash_ll_unlock \/ flash_ll_lock
        \/ DisableIrq \/ WaitReady \/ ClearFlags \/ SetMode \/ StartOperation
        \/ WaitDone \/ ClearMode \/ ClearFlagsAgain \/ RestoreIrq

Spec == Init /\ [][Next]_vars

-----------------------------------------------------------------------------
(* Properties                                                              *)

TypeOK ==
    /\ mem \in [Pages -> [Words -> Values \cup {"erased", "junk"}]]
    /\ bsy \in BOOLEAN /\ err \in BOOLEAN /\ primask \in BOOLEAN
    /\ ~(cr.pg /\ cr.per)
    /\ res \in {0, -1} /\ result \in {0, -1}

\* A call that is about to return 0 on an unlocked flash has had its whole
\* effect, though an operation may fail half done.
ZeroMeansDone ==
    pc = "restore" /\ result = 0 /\ ~cr.lock =>
        IF req.op = "program" THEN mem[req.page][req.word] = req.val
                              ELSE \A w \in Words : mem[req.page][w] = "erased"

\* A handler runs, and fetches its code, only while the flash is at rest and
\* in no mode; and that is how every call leaves it, whatever has failed.
Undisturbed == ~primask \/ pc = "idle" => ~bsy /\ ~cr.pg /\ ~cr.per

\* A call fails only for a cause of its own: an error of an earlier operation
\* does not fail the next one, nor keep the flash from being locked.
FailsForCause == /\ pc = "restore" /\ result = -1 => blame
                 /\ pc = "lock" /\ err => blame

\* What a call returns is true.
Truthful == ZeroMeansDone /\ FailsForCause
=============================================================================
