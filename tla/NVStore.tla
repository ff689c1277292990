------------------------------- MODULE NVStore -------------------------------
(***************************************************************************)
(* The record store of src/src/ll/g0/nvstore_g0.c: one configuration       *)
(* payload kept in two flash pages as a log of records                     *)
(*                                                                         *)
(*     header(seq) | payload | tail(crc, commit)                           *)
(*                                                                         *)
(* NV_Save appends a record to the active page, or erases the other page   *)
(* and starts over there when the active one is full.  NV_Init scans both  *)
(* pages for the newest valid record.  Sequence numbers are unsigned       *)
(* integers of a fixed width, compared modulo 2^width.                     *)
(*                                                                         *)
(* Every flash operation is a step, so power may be lost before, between   *)
(* and inside them, and any of them may report a failure.  A cell is a     *)
(* whole record slot: what tells two slots apart is only whether           *)
(* slotIsErased holds and whether scanPage accepts the record.  A torn     *)
(* record never passes the CRC (the assumption the format itself makes).   *)
(***************************************************************************)
EXTENDS Naturals

CONSTANTS
    Slots,        \* records per page: page_size / recordSize(payload_len)
    HalfSeq,      \* half the range of a sequence number (2^31 in the code)
    Values,       \* payloads
    NoVal,        \* "no payload"
    LateFaults    \* which operations may fail AFTER the record is committed

ASSUME NVAssumption ==
    /\ Slots \in Nat \ {0}
    /\ HalfSeq \in Nat
    /\ HalfSeq > 2 * Slots
    /\ NoVal \notin Values
    /\ LateFaults \subseteq {"tail", "lock"}

VARIABLES
    flash,        \* flash[p][i]: slot i of page p
    active_page,  \* store->active_page; "none" before the first NV_Init
    last_addr,    \* store->last_addr: <<page, slot>>, slot 0 for address 0
    last_seq,     \* store->last_seq
    pc,           \* the flash operation the running call performs next
    target_page,  \* NV_Save: target_page
    write_slot,   \* NV_Save: write_addr; 0 stands for NV_FULL
    payload,      \* NV_Save: payload
    scan,         \* NV_Init: <<page, slot>> scanPage looks at next
    best,         \* NV_Init: best[p], the record scanPage chose in page p
    ret           \* what the last call returned

ram    == <<active_page, last_addr, last_seq>>
locals == <<target_page, write_slot, payload, scan, best>>
vars   == <<flash, ram, pc, locals, ret>>

-----------------------------------------------------------------------------
(* Sequence numbers and slots                                              *)

SeqMod  == 2 * HalfSeq
SeqNums == 0 .. SeqMod - 1

Pages    == {"A", "B"}
SlotIds  == 1 .. Slots
SlotIds0 == 0 .. Slots
NoAddr   == <<"none", 0>>

Cell   == [st: {"erased", "junk", "valid"}, seq: SeqNums, val: Values \cup {NoVal}]
Erased == [st |-> "erased", seq |-> 0, val |-> NoVal]
Junk   == [st |-> "junk",   seq |-> 0, val |-> NoVal]
Record(n, v) == [st |-> "valid", seq |-> n, val |-> v]

NextSeq(n) == IF n = SeqMod - 1 THEN 0 ELSE n + 1

\* candidate - current in unsigned arithmetic.
Ahead(candidate, current) ==
    IF candidate >= current THEN candidate - current
                            ELSE candidate + SeqMod - current

\* Mutant: numbers compared without regard to the wrap-around.
NewerNoWrap(candidate, current) == candidate > current

\* (int32_t)(candidate - current) > 0
sequenceIsNewer(candidate, current) ==
    Ahead(candidate, current) \in 1 .. HalfSeq - 1

\* Mutant: the page change erases the active page.
OtherPageSame(p) == p

otherPage(p) == IF p = "A" THEN "B" ELSE "A"

\* The first slot of the page that is still erased; 0 is NV_FULL.
FirstErased(page, i) == /\ page[i].st = "erased"
                        /\ \A j \in 1 .. i - 1 : page[j].st # "erased"

findEmptySlot(page) == IF \E i \in SlotIds : FirstErased(page, i)
                       THEN CHOOSE i \in SlotIds : FirstErased(page, i)
                       ELSE 0

\* Contents of a page after an erase that was cut short or failed.
HalfErased(page) ==
    {[i \in SlotIds |-> IF left[i] = "kept" THEN page[i]
                        ELSE IF left[i] = "erased" THEN Erased ELSE Junk] :
        left \in [SlotIds -> {"kept", "erased", "junk"}]}

\* What a doubleword write of the header or of the payload leaves in its
\* slot when it is cut short or fails: nothing yet, or an unusable slot.
HalfProgrammed(cell) == {cell, Junk}

NoBest == [p \in Pages |-> [slot |-> 0, seq |-> 0]]
NoRet  == [call |-> "none", st |-> "NV_BUSY", val |-> NoVal]

TargetCell == flash[target_page][write_slot]
Write(cell) == flash' = [flash EXCEPT ![target_page][write_slot] = cell]

\* A call returns: its local variables are gone.
Return(call, st, v) ==
    /\ ret' = [call |-> call, st |-> st, val |-> v]
    /\ pc' = "idle"
    /\ target_page' = "A" /\ write_slot' = 0 /\ payload' = NoVal
    /\ scan' = <<"A", 1>> /\ best' = NoBest

-----------------------------------------------------------------------------
(* Power-up: a statically allocated NVStore_t is zero apart from its cfg.  *)

\* Blank or foreign flash: any mixture of erased and unusable slots.
Init == /\ flash \in [Pages -> [SlotIds -> {Erased, Junk}]]
        /\ active_page = "none" /\ last_addr = NoAddr /\ last_seq = 0
        /\ target_page = "A" /\ write_slot = 0 /\ payload = NoVal
        /\ scan = <<"A", 1>> /\ best = NoBest
        /\ pc = "idle" /\ ret = NoRet

-----------------------------------------------------------------------------
(* NV_Init                                                                 *)

InitCall ==
    /\ pc = "idle"
    /\ pc' = "scan"
    /\ scan' = <<"A", 1>>
    /\ best' = NoBest
    /\ ret' = NoRet
    /\ UNCHANGED <<flash, ram, target_page, write_slot, payload>>

\* Mutant: scanPage keeps the first valid record it meets.
ScanSlotFirst ==
    /\ pc = "scan"
    /\ best' = IF flash[scan[1]][scan[2]].st = "valid" /\ best[scan[1]].slot = 0
               THEN [best EXCEPT ![scan[1]] =
                        [slot |-> scan[2], seq |-> flash[scan[1]][scan[2]].seq]]
               ELSE best
    /\ scan' = IF scan[2] < Slots THEN <<scan[1], scan[2] + 1>> ELSE <<"B", 1>>
    /\ pc' = IF scan = <<"B", Slots>> THEN "pick" ELSE "scan"
    /\ UNCHANGED <<flash, ram, target_page, write_slot, payload, ret>>

\* One iteration of the loop of scanPage; page A first, then page B.
ScanSlot ==
    LET p == scan[1]
        i == scan[2]
        c == flash[p][i]
        take == /\ c.st = "valid"
                /\ best[p].slot = 0 \/ sequenceIsNewer(c.seq, best[p].seq)
    IN  /\ pc = "scan"
        /\ best' = IF take THEN [best EXCEPT ![p] = [slot |-> i, seq |-> c.seq]]
                           ELSE best
        /\ scan' = IF i < Slots THEN <<p, i + 1>> ELSE <<"B", 1>>
        /\ pc' = IF i = Slots /\ p = "B" THEN "pick" ELSE "scan"
        /\ UNCHANGED <<flash, ram, target_page, write_slot, payload, ret>>

\* Mutant: page A wins whenever it holds a record.
PickedA == IF best["A"].slot # 0 THEN "A" ELSE "B"

\* The page NV_Init takes when at least one of them holds a valid record.
Picked ==
    CASE best["A"].slot = 0 -> "B"
      [] best["A"].slot # 0 /\ best["B"].slot = 0 -> "A"
      [] OTHER -> IF sequenceIsNewer(best["B"].seq, best["A"].seq) THEN "B" ELSE "A"

InitPick ==
    /\ pc = "pick"
    /\ \E p \in Pages : best[p].slot # 0
    /\ active_page' = Picked
    /\ last_addr' = <<Picked, best[Picked].slot>>
    /\ last_seq' = best[Picked].seq
    /\ Return("init", "NV_OK", NoVal)
    /\ UNCHANGED flash

\* Mutant: only page A is looked at before both are erased.
InitUnlockHasty ==
    /\ pc = "pick"
    /\ best["A"].slot = 0
    /\ pc' = "initEraseA"
    /\ UNCHANGED <<flash, ram, locals, ret>>

\* No valid record: both pages are brought to the erased state.
InitUnlock ==
    /\ pc = "pick"
    /\ \A p \in Pages : best[p].slot = 0
    /\ pc' = "initEraseA"
    /\ UNCHANGED <<flash, ram, locals, ret>>

InitUnlockFails ==
    /\ pc = "pick"
    /\ \A p \in Pages : best[p].slot = 0
    /\ Return("init", "NV_IO_FAIL", NoVal)
    /\ UNCHANGED <<flash, ram>>

InitErasing == IF pc = "initEraseA" THEN "A" ELSE "B"

InitErase ==
    /\ pc \in {"initEraseA", "initEraseB"}
    /\ flash' = [flash EXCEPT ![InitErasing] = [i \in SlotIds |-> Erased]]
    /\ pc' = IF pc = "initEraseA" THEN "initEraseB" ELSE "initLock"
    /\ UNCHANGED <<ram, locals, ret>>

InitEraseFails ==
    /\ pc \in {"initEraseA", "initEraseB"}
    /\ \E pg \in HalfErased(flash[InitErasing]) :
          flash' = [flash EXCEPT ![InitErasing] = pg]
    /\ Return("init", "NV_IO_FAIL", NoVal)
    /\ UNCHANGED ram

InitLock ==
    /\ pc = "initLock"
    /\ active_page' = "A"
    /\ last_addr' = NoAddr
    /\ last_seq' = 0
    /\ Return("init", "NV_EMPTY", NoVal)
    /\ UNCHANGED flash

InitLockFails ==
    /\ pc = "initLock"
    /\ Return("init", "NV_IO_FAIL", NoVal)
    /\ UNCHANGED <<flash, ram>>

-----------------------------------------------------------------------------
(* NV_Load                                                                 *)

Loaded == IF last_addr = NoAddr THEN NoVal ELSE flash[last_addr[1]][last_addr[2]].val

Load ==
    /\ pc = "idle"
    /\ Return("load", IF last_addr = NoAddr THEN "NV_EMPTY" ELSE "NV_OK", Loaded)
    /\ UNCHANGED <<flash, ram>>

-----------------------------------------------------------------------------
(* NV_Save                                                                 *)

SaveCall(v) ==
    /\ pc = "idle"
    /\ active_page \in Pages
    /\ target_page' = active_page
    /\ write_slot' = findEmptySlot(flash[active_page])
    /\ payload' = v
    /\ pc' = "saveUnlock"
    /\ ret' = NoRet
    /\ UNCHANGED <<flash, ram, scan, best>>

\* active_page is neither page: NV_Init has not succeeded yet.
SaveRefused ==
    /\ pc = "idle"
    /\ active_page \notin Pages
    /\ Return("save", "NV_BAD_PARAM", NoVal)
    /\ UNCHANGED <<flash, ram>>

\* Mutant: a full page is refused instead of changing pages.
SaveUnlockFull ==
    /\ pc = "saveUnlock"
    /\ IF write_slot = 0
       THEN Return("save", "NV_BAD_PARAM", payload)
       ELSE pc' = "saveHeader" /\ UNCHANGED <<locals, ret>>
    /\ UNCHANGED <<flash, ram>>

SaveUnlock ==
    /\ pc = "saveUnlock"
    /\ pc' = IF write_slot = 0 THEN "saveErase" ELSE "saveHeader"
    /\ UNCHANGED <<flash, ram, locals, ret>>

\* flash_ll_unlock, or the erase of the other page, or the programming of
\* the header, of the payload or of the tail reports a failure: the call
\* locks the flash again and returns, the store unchanged in RAM.
SaveUnlockFails ==
    /\ pc = "saveUnlock"
    /\ Return("save", "NV_IO_FAIL", payload)
    /\ UNCHANGED <<flash, ram>>

\* The active page is full: the other one is erased, and its first erased
\* slot is the one to write.
SaveErase ==
    /\ pc = "saveErase"
    /\ target_page' = otherPage(active_page)
    /\ flash' = [flash EXCEPT ![otherPage(active_page)] = [i \in SlotIds |-> Erased]]
    /\ write_slot' = findEmptySlot(flash'[otherPage(active_page)])
    /\ pc' = "saveHeader"
    /\ UNCHANGED <<ram, payload, scan, best, ret>>

SaveEraseFails ==
    /\ pc = "saveErase"
    /\ \E pg \in HalfErased(flash[otherPage(active_page)]) :
          flash' = [flash EXCEPT ![otherPage(active_page)] = pg]
    /\ Return("save", "NV_IO_FAIL", payload)
    /\ UNCHANGED ram

SaveHeader ==
    /\ pc = "saveHeader"
    /\ Write(Junk)
    /\ pc' = "savePayload"
    /\ UNCHANGED <<ram, locals, ret>>

SaveHeaderFails ==
    /\ pc = "saveHeader"
    /\ \E c \in HalfProgrammed(TargetCell) : Write(c)
    /\ Return("save", "NV_IO_FAIL", payload)
    /\ UNCHANGED ram

\* The slot stays unusable until the tail is there.
SavePayload ==
    /\ pc = "savePayload"
    /\ pc' = "saveTail"
    /\ UNCHANGED <<flash, ram, locals, ret>>

SavePayloadFails ==
    /\ pc = "savePayload"
    /\ Return("save", "NV_IO_FAIL", payload)
    /\ UNCHANGED <<flash, ram>>

NewRecord == Record(NextSeq(last_seq), payload)

\* CRC and commit go in one doubleword: the record becomes valid here.
SaveTail ==
    /\ pc = "saveTail"
    /\ Write(NewRecord)
    /\ pc' = "saveLock"
    /\ UNCHANGED <<ram, locals, ret>>

\* flash_ll_program_doubleword reports a failure and the record is invalid.
SaveTailFails ==
    /\ pc = "saveTail"
    /\ Return("save", "NV_IO_FAIL", payload)
    /\ UNCHANGED <<flash, ram>>

\* It reports a failure although the doubleword is in the flash.
SaveTailFailsLate ==
    /\ pc = "saveTail"
    /\ "tail" \in LateFaults
    /\ Write(NewRecord)
    /\ Return("save", "NV_IO_FAIL", payload)
    /\ UNCHANGED ram

SaveLock ==
    /\ pc = "saveLock"
    /\ last_addr' = <<target_page, write_slot>>
    /\ last_seq' = NextSeq(last_seq)
    /\ active_page' = target_page
    /\ Return("save", "NV_OK", payload)
    /\ UNCHANGED flash

SaveLockFails ==
    /\ pc = "saveLock"
    /\ "lock" \in LateFaults
    /\ Return("save", "NV_IO_FAIL", payload)
    /\ UNCHANGED <<flash, ram>>

-----------------------------------------------------------------------------
(* Power loss: the operation under way is torn and RAM comes up cold.      *)

\* What flash can hold when power is lost in the operation at pc.
TornFlash ==
    CASE pc \in {"initEraseA", "initEraseB"} ->
            {[flash EXCEPT ![InitErasing] = pg] : pg \in HalfErased(flash[InitErasing])}
      [] pc = "saveErase" ->
            {[flash EXCEPT ![otherPage(active_page)] = pg] :
                pg \in HalfErased(flash[otherPage(active_page)])}
      [] pc = "saveHeader" ->
            {[flash EXCEPT ![target_page][write_slot] = c] : c \in HalfProgrammed(TargetCell)}
      [] pc = "saveTail" ->
            {flash, [flash EXCEPT ![target_page][write_slot] = NewRecord]}
      [] OTHER -> {flash}

PowerLoss ==
    /\ \E f \in TornFlash : flash' = f
    /\ active_page' = "none" /\ last_addr' = NoAddr /\ last_seq' = 0
    /\ target_page' = "A" /\ write_slot' = 0 /\ payload' = NoVal
    /\ scan' = <<"A", 1>> /\ best' = NoBest
    /\ pc' = "idle" /\ ret' = NoRet

-----------------------------------------------------------------------------
Calls == \/ InitCall \/ Load \/ SaveRefused
         \/ \E v \in Values : SaveCall(v)

Work == \/ ScanSlot \/ InitPick \/ InitUnlock \/ InitErase \/ InitLock
        \/ SaveUnlock \/ SaveErase \/ SaveHeader \/ SavePayload \/ SaveTail \/ SaveLock

Faults == \/ InitUnlockFails \/ InitEraseFails \/ InitLockFails
          \/ SaveUnlockFails \/ SaveEraseFails \/ SaveHeaderFails
          \/ SavePayloadFails \/ SaveTailFails \/ SaveTailFailsLate
          \/ SaveLockFails \/ PowerLoss

Next == Calls \/ Work \/ Faults

Spec == Init /\ [][Next]_vars

\* A call that has started runs on; the application initialises a store that
\* is not initialised and saves again and again, in between other calls.
Boot  == active_page = "none" /\ InitCall
Retry == \E v \in Values : SaveCall(v)

LiveSpec == Spec /\ WF_vars(Work) /\ SF_vars(Retry) /\ SF_vars(Boot)

-----------------------------------------------------------------------------
(* What a restart would find                                               *)

Addrs     == Pages \X SlotIds
CellAt(a) == flash[a[1]][a[2]]

ValidIn(f) == {a \in Addrs : f[a[1]][a[2]].st = "valid"}
ValidAddrs == ValidIn(flash)

\* a is the record a scan of both pages of f ends with: no other valid
\* record is as new as a.
Newest(f, a) == /\ a \in ValidIn(f)
                /\ \A b \in ValidIn(f) \ {a} :
                      sequenceIsNewer(f[a[1]][a[2]].seq, f[b[1]][b[2]].seq)

DurableIn(f) == IF \E a \in Addrs : Newest(f, a)
                THEN LET b == CHOOSE a \in Addrs : Newest(f, a) IN f[b[1]][b[2]].val
                ELSE NoVal

Durable == DurableIn(flash)

Saving == pc \in {"saveUnlock", "saveErase", "saveHeader",
                  "savePayload", "saveTail", "saveLock"}

\* The store as a durable register: durable is what a restart would find,
\* view what NV_Load returns.
Register == INSTANCE DurableRegister
                WITH durable <- Durable,
                     view    <- Loaded,
                     req     <- IF Saving THEN payload ELSE NoVal

-----------------------------------------------------------------------------
(* Properties                                                              *)

PCs == {"idle", "scan", "pick", "initEraseA", "initEraseB", "initLock",
        "saveUnlock", "saveErase", "saveHeader", "savePayload", "saveTail", "saveLock"}

TypeOK ==
    /\ flash \in [Pages -> [SlotIds -> Cell]]
    /\ active_page \in Pages \cup {"none"}
    /\ last_addr \in Addrs \cup {NoAddr}
    /\ last_seq \in SeqNums
    /\ pc \in PCs
    /\ target_page \in Pages
    /\ write_slot \in SlotIds0
    /\ payload \in Values \cup {NoVal}
    /\ scan \in Addrs
    /\ best \in [Pages -> [slot: SlotIds0, seq: SeqNums]]
    /\ ret \in [call: {"none", "init", "load", "save"},
                st: {"NV_BUSY", "NV_OK", "NV_EMPTY", "NV_IO_FAIL", "NV_BAD_PARAM"},
                val: Values \cup {NoVal}]

\* The address NV_Load reads from is never left pointing into a page that
\* has been erased or at a record that is not the one NV_Save acknowledged
\* or NV_Init chose, whatever failed since (NV_Save 741-766, 866-872).
LastIsValid ==
    last_addr # NoAddr => /\ active_page = last_addr[1]
                          /\ CellAt(last_addr).st = "valid"
                          /\ CellAt(last_addr).seq = last_seq

\* A payload NV_Save acknowledged is the one a restart would find, until the
\* next call: no older record outranks it, across page changes and the
\* wrap-around of the sequence number (sequenceIsNewer 132-137).
AckedIsDurable ==
    ret.call = "save" /\ ret.st = "NV_OK" => Durable = ret.val

\* A successful NV_Save is durable, a failed one is all or nothing, and
\* NV_Init brings back what is durable (the whole of NV_Save and NV_Init).
ImplementsRegister == Register!Spec

\* "The second page is erased, the old one is left alone for now, so a power
\* failure keeps the old valid record" (741-746): once a record has been
\* acknowledged or found there is always a valid one, through power loss,
\* torn erases and failures of every kind.  A record whose save was reported
\* as failed is not covered: a store that knows of no record may erase it.
RecordSurvives ==
    [][ValidAddrs # {} /\ (last_addr # NoAddr \/ active_page = "none")
          => ValidAddrs' # {}]_vars

\* The condition the comment of sequenceIsNewer makes (126-131): all records
\* in the flash lie within half the range of a sequence number.  A number can
\* fall further behind only by being overtaken HalfSeq times.
Comparable == \E n \in SeqNums : \A a \in ValidAddrs : Ahead(CellAt(a).seq, n) < HalfSeq

\* NV_Init never settles on a record when a newer one is in the flash, as
\* long as the numbers can be compared.
InitTakesNewest ==
    [][pc = "pick" /\ ret'.st = "NV_OK" /\ Comparable =>
          \A a \in ValidAddrs : ~sequenceIsNewer(CellAt(a).seq, last_seq')]_vars

\* Once failures and power losses have ceased, saving succeeds again, whatever
\* they left behind: unusable slots, full pages, half-erased pages
\* (findEmptySlot 435-460, the page change of NV_Save 748-773).
SavesKeepSucceeding ==
    <>[][~Faults]_vars => []<>(ret.call = "save" /\ ret.st = "NV_OK")

\* No record is more than one number ahead of the store in RAM.
NearlyNewest ==
    active_page # "none" =>
        \A a \in ValidAddrs : Ahead(CellAt(a).seq, last_seq) \in {0, 1} \cup
                                                             (HalfSeq + 1 .. SeqMod - 1)

\* Even when commits are reported as failures, the flash is never more than
\* one sequence number ahead of the store in RAM, as long as the numbers can
\* be compared: saves repeat a number, they never leave one out.
AtMostOneAhead == []Comparable => []NearlyNewest

-----------------------------------------------------------------------------
(* The inductive invariants behind them                                    *)

\* Slot k of page a holds the newest record of f.  Records of page a lie
\* before it, none of them more numbers behind than slots; there is no hole
\* before k, so the next record goes behind it; records of the other page
\* are older than a whole turn of page a, at most.
Ordered(f, a, k) ==
    /\ f[a][k].st = "valid"
    /\ \A i \in SlotIds : f[a][i].st = "valid" /\ i # k =>
          i < k /\ Ahead(f[a][k].seq, f[a][i].seq) \in 1 .. k - i
    /\ \A i \in 1 .. k - 1 : f[a][i].st # "erased"
    /\ \A i \in SlotIds : f[otherPage(a)][i].st = "valid" =>
          Ahead(f[a][k].seq, f[otherPage(a)][i].seq) \in 1 .. k + Slots - i

NoRecords(f) == \A p \in Pages, i \in SlotIds : f[p][i].st # "valid"

\* The record NV_Load reads is there, and so is the one just committed.
RamInv ==
    /\ active_page = "none" => last_addr = NoAddr
    /\ LastIsValid
    /\ pc = "saveLock" => flash[target_page][write_slot] = NewRecord

\* RAM and flash agree on the newest record, except between the commit of a
\* new one and the return of NV_Save.
StoreInv ==
    /\ RamInv
    /\ pc = "saveLock" => Ordered(flash, target_page, write_slot)
    /\ pc # "saveLock" =>
          IF active_page = "none"
          THEN NoRecords(flash) \/ \E a \in Pages, k \in SlotIds : Ordered(flash, a, k)
          ELSE IF last_addr = NoAddr THEN NoRecords(flash)
               ELSE Ordered(flash, last_addr[1], last_addr[2])

\* Slots scanPage has been through.
Scanned(p, i) == \/ pc = "pick"
                 \/ pc = "scan" /\ p = scan[1] /\ i < scan[2]
                 \/ pc = "scan" /\ p = "A" /\ scan[1] = "B"

\* scanPage's candidate is a record it has seen, and the newest one if it
\* has seen that; if the scans found none there is none.
ScanInv ==
    /\ \A p \in Pages, i \in SlotIds :
          Scanned(p, i) /\ flash[p][i].st = "valid" => best[p].slot # 0
    /\ pc \in {"scan", "pick"} => \A p \in Pages : best[p].slot # 0 =>
          /\ flash[p][best[p].slot].st = "valid"
          /\ flash[p][best[p].slot].seq = best[p].seq
    /\ \A p \in Pages, k \in SlotIds :
          Ordered(flash, p, k) /\ Scanned(p, k) => best[p].slot = k
    /\ pc \in {"initEraseA", "initEraseB", "initLock"} => NoRecords(flash)

\* The slot being written: unused, the first erased one of the active page or
\* of a page just erased.
WriteInv ==
    /\ pc \in {"saveUnlock", "saveErase", "saveHeader", "savePayload", "saveTail", "saveLock"}
          => active_page \in Pages /\ payload \in Values
    /\ pc = "saveUnlock" => target_page = active_page
    /\ pc = "saveUnlock" /\ write_slot # 0 => FirstErased(flash[active_page], write_slot)
    /\ pc \in {"saveHeader", "savePayload", "saveTail", "saveLock"} => write_slot # 0
    /\ pc \in {"saveHeader", "savePayload", "saveTail"} =>
          /\ TargetCell.st # "valid"
          /\ \A j \in 1 .. write_slot - 1 : flash[target_page][j].st # "erased"
          /\ target_page # active_page =>
                write_slot = 1 /\ \A i \in SlotIds : flash[target_page][i].st # "valid"

\* On the active page it lies behind every record.
AppendInv ==
    /\ pc \in {"saveHeader", "savePayload", "saveTail"}
    /\ last_addr # NoAddr
    /\ target_page = active_page
    => write_slot > last_addr[2]

\* NV_OK was returned for the record NV_Load reads.
RetInv == ret.call = "save" /\ ret.st = "NV_OK" =>
             pc = "idle" /\ last_addr # NoAddr /\ Loaded = ret.val

\* Inductive whatever may fail late: the strengthening of LastIsValid.
SafeInv == TypeOK /\ RamInv /\ ScanInv /\ WriteInv

\* Inductive for LateFaults = {}: the strengthening of AckedIsDurable.
IndInv == SafeInv /\ StoreInv /\ AppendInv /\ RetInv

\* The numbers, whatever may fail late.  No slot scanned so far holds a newer
\* record than scanPage's candidate.
BestInv ==
    pc \in {"scan", "pick"} /\ Comparable =>
        \A p \in Pages, i \in SlotIds :
            Scanned(p, i) /\ flash[p][i].st = "valid" =>
                ~sequenceIsNewer(flash[p][i].seq, best[p].seq)

RankInv == SafeInv /\ BestInv
=============================================================================
