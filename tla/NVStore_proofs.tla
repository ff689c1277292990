---------------------------- MODULE NVStore_proofs ----------------------------
(***************************************************************************)
(* Proofs about NVStore, for any number of slots per page, any range of    *)
(* sequence numbers that is more than four times that number, and any set  *)
(* of payloads.                                                            *)
(***************************************************************************)
EXTENDS NVStore, TLAPS

-----------------------------------------------------------------------------
(* The operators the actions are built from                                *)

\* The successor of a sequence number is a sequence number.
LEMMA NextSeqType == ASSUME NEW n \in SeqNums PROVE NextSeq(n) \in SeqNums
  BY NVAssumption DEF NextSeq, SeqNums, SeqMod

\* findEmptySlot returns a slot or 0, and a slot it returns is the first
\* erased one.
LEMMA FindEmptySlot ==
    ASSUME NEW page
    PROVE  /\ findEmptySlot(page) \in SlotIds0
           /\ findEmptySlot(page) # 0 =>
                 /\ findEmptySlot(page) \in SlotIds
                 /\ FirstErased(page, findEmptySlot(page))
  BY NVAssumption DEF findEmptySlot, SlotIds, SlotIds0

\* An erased page offers its first slot.
LEMMA EmptyPage ==
    findEmptySlot([i \in SlotIds |-> Erased]) = 1
  <1> DEFINE pg == [i \in SlotIds |-> Erased]
  <1>1. 1 \in SlotIds
    BY NVAssumption DEF SlotIds
  <1>2. FirstErased(pg, 1)
    BY <1>1 DEF FirstErased, Erased
  <1>3. \A i \in SlotIds : FirstErased(pg, i) => i = 1
    BY <1>1 DEF FirstErased, Erased, SlotIds
  <1> QED
    BY <1>1, <1>2, <1>3 DEF findEmptySlot

-----------------------------------------------------------------------------
(* Type correctness                                                        *)

LEMMA Cells ==
    /\ Erased \in Cell /\ Junk \in Cell
    /\ \A n \in SeqNums, v \in Values \cup {NoVal} : Record(n, v) \in Cell
    /\ 0 \in SeqNums /\ 1 \in SlotIds /\ 0 \in SlotIds0
    /\ \A i \in SlotIds : i \in SlotIds0
    /\ NoBest \in [Pages -> [slot: SlotIds0, seq: SeqNums]]
  BY NVAssumption DEF Cell, Erased, Junk, Record, SeqNums, SeqMod, SlotIds, SlotIds0, NoBest

\* A half-erased page is a page.
LEMMA HalfErasedType ==
    ASSUME NEW page \in [SlotIds -> Cell], NEW pg \in HalfErased(page)
    PROVE  pg \in [SlotIds -> Cell]
  BY Cells DEF HalfErased

\* Writing one cell or one page of the flash gives a flash.
FlashType == [Pages -> [SlotIds -> Cell]]

LEMMA FlashUpdates ==
    ASSUME NEW f \in FlashType, NEW p \in Pages
    PROVE  /\ \A pg \in [SlotIds -> Cell] : [f EXCEPT ![p] = pg] \in FlashType
           /\ \A i \in SlotIds, c \in Cell : [f EXCEPT ![p][i] = c] \in FlashType
           /\ [i \in SlotIds |-> Erased] \in [SlotIds -> Cell]
           /\ f[p] \in [SlotIds -> Cell]
           /\ otherPage(p) \in Pages /\ otherPage(p) # p
  BY Cells DEF FlashType, Pages, otherPage

\* While a record is being written its slot is one of the page's, and the
\* record is a cell.
LEMMA WriteTarget ==
    ASSUME TypeOK, WriteInv, pc \in {"saveHeader", "savePayload", "saveTail", "saveLock"}
    PROVE  /\ target_page \in Pages /\ write_slot \in SlotIds
           /\ TargetCell \in Cell /\ NewRecord \in Cell /\ NextSeq(last_seq) \in SeqNums
           /\ payload \in Values /\ active_page \in Pages
  <1>1. /\ target_page \in Pages /\ write_slot \in SlotIds
        /\ payload \in Values /\ active_page \in Pages
    BY DEF TypeOK, WriteInv, SlotIds, SlotIds0
  <1>2. TargetCell \in Cell
    BY <1>1 DEF TypeOK, TargetCell
  <1>3. last_seq \in SeqNums
    BY DEF TypeOK
  <1>4. NextSeq(last_seq) \in SeqNums
    BY <1>3, NextSeqType
  <1> QED
    BY <1>1, <1>2, <1>4, Cells DEF NewRecord

\* What power loss can leave is a flash.
LEMMA TornFlashType ==
    ASSUME TypeOK, WriteInv, NEW f \in TornFlash
    PROVE  f \in FlashType
  <1> flash \in FlashType /\ InitErasing \in Pages
    BY DEF TypeOK, FlashType, InitErasing, Pages
  <1>1. CASE pc \in {"initEraseA", "initEraseB"}
    <2>1. PICK pg \in HalfErased(flash[InitErasing]) : f = [flash EXCEPT ![InitErasing] = pg]
      BY <1>1 DEF TornFlash
    <2> QED
      BY <2>1, FlashUpdates, HalfErasedType
  <1>2. CASE pc = "saveErase"
    <2>0. active_page \in Pages
      BY <1>2 DEF WriteInv
    <2>1. PICK pg \in HalfErased(flash[otherPage(active_page)]) :
            f = [flash EXCEPT ![otherPage(active_page)] = pg]
      BY <1>2 DEF TornFlash
    <2> QED
      BY <2>0, <2>1, FlashUpdates, HalfErasedType
  <1>3. CASE pc \in {"saveHeader", "saveTail"}
    <2>1. /\ target_page \in Pages /\ write_slot \in SlotIds
          /\ TargetCell \in Cell /\ Junk \in Cell /\ NewRecord \in Cell
      BY <1>3, Cells, WriteTarget
    <2>2. \/ f = flash
          \/ \E c \in {TargetCell, Junk, NewRecord} :
                f = [flash EXCEPT ![target_page][write_slot] = c]
      BY <1>3 DEF TornFlash, HalfProgrammed
    <2> QED
      BY <2>1, <2>2, FlashUpdates
  <1>4. CASE pc \notin {"initEraseA", "initEraseB", "saveErase", "saveHeader", "saveTail"}
    BY <1>4 DEF TornFlash
  <1> QED
    BY <1>1, <1>2, <1>3, <1>4

\* No step leaves the types.
LEMMA TypeStep ==
    ASSUME TypeOK, WriteInv, [Next]_vars
    PROVE  TypeOK'
  <1> USE Cells
  <1>0. /\ flash \in FlashType
        /\ "A" \in Pages /\ "B" \in Pages
        /\ \A p \in Pages : otherPage(p) \in Pages
        /\ InitErasing \in Pages
    BY DEF TypeOK, FlashType, InitErasing, Pages, otherPage
  <1>l. pc \in {"saveHeader", "savePayload", "saveTail", "saveLock"} =>
          /\ target_page \in Pages /\ write_slot \in SlotIds
          /\ TargetCell \in Cell /\ NewRecord \in Cell
    BY WriteTarget
  <1>1. CASE InitCall
    BY <1>1 DEF InitCall, TypeOK, ram, Addrs, PCs, NoRet, Pages
  <1>2. CASE Load
    <2>1. Loaded \in Values \cup {NoVal}
      BY DEF TypeOK, Loaded, Addrs, Cell
    <2> QED
      BY <1>2, <2>1 DEF Load, Return, TypeOK, ram, Addrs, PCs, Pages
  <1>3. CASE SaveRefused
    BY <1>3 DEF SaveRefused, Return, TypeOK, ram, Addrs, PCs, Pages
  <1>4. ASSUME NEW v \in Values, SaveCall(v) PROVE TypeOK'
    BY <1>4, FindEmptySlot DEF SaveCall, TypeOK, ram, PCs, NoRet
  <1>5. CASE ScanSlot
    <2>1. /\ scan[1] \in Pages /\ scan[2] \in SlotIds
          /\ flash[scan[1]][scan[2]] \in Cell
          /\ scan[2] \in SlotIds0
      BY DEF TypeOK, Addrs
    <2>2. scan' \in Addrs
      BY <1>5, <2>1, NVAssumption DEF ScanSlot, Addrs, SlotIds, Pages
    <2>3. [slot |-> scan[2], seq |-> flash[scan[1]][scan[2]].seq] \in [slot: SlotIds0, seq: SeqNums]
      BY <2>1 DEF Cell
    <2>4. best' \in [Pages -> [slot: SlotIds0, seq: SeqNums]]
      BY <1>5, <2>1, <2>3 DEF ScanSlot, TypeOK
    <2> QED
      BY <1>5, <2>2, <2>4 DEF ScanSlot, TypeOK, ram, PCs
  <1>6. CASE InitPick
    <2>1. Picked \in Pages /\ best[Picked].slot # 0
      BY <1>6 DEF InitPick, Picked, Pages
    <2>2. best[Picked].slot \in SlotIds
      BY <2>1 DEF TypeOK, SlotIds, SlotIds0
    <2> QED
      BY <1>6, <2>1, <2>2 DEF InitPick, Return, TypeOK, Addrs, PCs, Pages
  <1>7. CASE InitUnlock \/ InitUnlockFails
    BY <1>7 DEF InitUnlock, InitUnlockFails, Return, TypeOK, ram, locals, Addrs, PCs, Pages
  <1>8. CASE InitErase
    <2>1. flash' \in FlashType
      BY <1>8, <1>0, FlashUpdates DEF InitErase
    <2> QED
      BY <1>8, <2>1 DEF InitErase, TypeOK, FlashType, ram, locals, PCs
  <1>9. CASE InitEraseFails
    <2>0. PICK pg \in HalfErased(flash[InitErasing]) :
            flash' = [flash EXCEPT ![InitErasing] = pg]
      BY <1>9 DEF InitEraseFails
    <2>1. flash' \in FlashType
      BY <2>0, <1>0, FlashUpdates, HalfErasedType
    <2> QED
      BY <1>9, <2>1 DEF InitEraseFails, Return, TypeOK, FlashType, ram, Addrs, PCs, Pages
  <1>10. CASE InitLock \/ InitLockFails
    BY <1>10 DEF InitLock, InitLockFails, Return, TypeOK, ram, Addrs, PCs, Pages
  <1>11. CASE SaveUnlock \/ SaveUnlockFails
    BY <1>11 DEF SaveUnlock, SaveUnlockFails, Return, TypeOK, ram, locals, Addrs, PCs, Pages
  <1>12. CASE SaveErase
    <2>1. /\ flash' \in FlashType
          /\ target_page' \in Pages
          /\ write_slot' \in SlotIds0
      BY <1>12, <1>0, FlashUpdates, FindEmptySlot DEF SaveErase, WriteInv
    <2> QED
      BY <1>12, <2>1 DEF SaveErase, TypeOK, FlashType, ram, PCs
  <1>13. CASE SaveEraseFails
    <2>0. PICK pg \in HalfErased(flash[otherPage(active_page)]) :
            flash' = [flash EXCEPT ![otherPage(active_page)] = pg]
      BY <1>13 DEF SaveEraseFails
    <2>1. flash' \in FlashType
      BY <1>13, <2>0, <1>0, FlashUpdates, HalfErasedType DEF SaveEraseFails, WriteInv
    <2> QED
      BY <1>13, <2>1 DEF SaveEraseFails, Return, TypeOK, FlashType, ram, Addrs, PCs, Pages
  <1>14. CASE SaveHeader
    <2>1. flash' \in FlashType
      BY <1>14, <1>0, <1>l, FlashUpdates DEF SaveHeader, Write
    <2> QED
      BY <1>14, <2>1 DEF SaveHeader, TypeOK, FlashType, ram, locals, PCs
  <1>15. CASE SaveHeaderFails
    <2>0. PICK c \in HalfProgrammed(TargetCell) : Write(c)
      BY <1>15 DEF SaveHeaderFails
    <2>1. c \in Cell
      BY <1>15, <2>0, <1>l DEF SaveHeaderFails, HalfProgrammed
    <2>2. flash' \in FlashType
      BY <1>15, <2>0, <2>1, <1>0, <1>l, FlashUpdates DEF SaveHeaderFails, Write
    <2> QED
      BY <1>15, <2>2 DEF SaveHeaderFails, Return, TypeOK, FlashType, ram, Addrs, PCs, Pages
  <1>16. CASE SavePayload \/ SavePayloadFails \/ SaveTailFails
    BY <1>16 DEF SavePayload, SavePayloadFails, SaveTailFails, Return, TypeOK, ram, locals,
                 Addrs, PCs, Pages
  <1>17. CASE SaveTail
    <2>1. flash' \in FlashType
      BY <1>17, <1>0, <1>l, FlashUpdates DEF SaveTail, Write
    <2> QED
      BY <1>17, <2>1 DEF SaveTail, TypeOK, FlashType, ram, locals, PCs
  <1>18. CASE SaveTailFailsLate
    <2>1. flash' \in FlashType
      BY <1>18, <1>0, <1>l, FlashUpdates DEF SaveTailFailsLate, Write
    <2> QED
      BY <1>18, <2>1 DEF SaveTailFailsLate, Return, TypeOK, FlashType, ram, Addrs, PCs, Pages
  <1>19. CASE SaveLock
    BY <1>19, <1>l, NextSeqType DEF SaveLock, Return, TypeOK, Addrs, PCs, Pages
  <1>20. CASE SaveLockFails
    BY <1>20 DEF SaveLockFails, Return, TypeOK, ram, Addrs, PCs, Pages
  <1>21. CASE PowerLoss
    <2>1. flash' \in FlashType
      BY <1>21, TornFlashType DEF PowerLoss
    <2> QED
      BY <1>21, <2>1 DEF PowerLoss, TypeOK, FlashType, Addrs, PCs, Pages, NoRet
  <1>22. CASE UNCHANGED vars
    BY <1>22 DEF vars, ram, locals, TypeOK
  <1> QED
    BY <1>1, <1>2, <1>3, <1>4, <1>5, <1>6, <1>7, <1>8, <1>9, <1>10, <1>11, <1>12, <1>13,
       <1>14, <1>15, <1>16, <1>17, <1>18, <1>19, <1>20, <1>21, <1>22
       DEF Next, Calls, Work, Faults

-----------------------------------------------------------------------------
(* Sequence numbers                                                        *)

\* A new number is one further ahead of every number in use.
LEMMA AheadNext ==
    ASSUME NEW n \in SeqNums, NEW m \in SeqNums, Ahead(n, m) < HalfSeq
    PROVE  Ahead(NextSeq(n), m) = Ahead(n, m) + 1
  BY NVAssumption DEF Ahead, NextSeq, SeqNums, SeqMod

\* A number is not ahead of itself, and its successor is one ahead of it.
LEMMA AheadSelf ==
    ASSUME NEW n \in SeqNums
    PROVE  Ahead(n, n) = 0 /\ Ahead(NextSeq(n), n) = 1
  BY NVAssumption DEF Ahead, NextSeq, SeqNums, SeqMod

\* Distances within two pages are recognised, in one direction only.
LEMMA NewerIsAhead ==
    ASSUME NEW n \in SeqNums, NEW m \in SeqNums, NEW d \in Nat,
           d <= 2 * Slots, Ahead(n, m) \in 1 .. d
    PROVE  sequenceIsNewer(n, m) /\ ~sequenceIsNewer(m, n)
  BY NVAssumption DEF sequenceIsNewer, Ahead, SeqNums, SeqMod

-----------------------------------------------------------------------------
(* The order of the records                                                *)

\* The record at the end of an ordered page is newer than any other.
LEMMA OrderedNewer ==
    ASSUME NEW f \in FlashType, NEW a \in Pages, NEW k \in SlotIds, Ordered(f, a, k),
           NEW p \in Pages, NEW i \in SlotIds, f[p][i].st = "valid", <<p, i>> # <<a, k>>
    PROVE  /\ sequenceIsNewer(f[a][k].seq, f[p][i].seq)
           /\ ~sequenceIsNewer(f[p][i].seq, f[a][k].seq)
  <1>1. f[a][k].seq \in SeqNums /\ f[p][i].seq \in SeqNums
    BY DEF FlashType, Cell
  <1>2. p = a \/ p = otherPage(a)
    BY DEF Pages, otherPage
  <1>3. PICK d \in Nat : d <= 2 * Slots /\ Ahead(f[a][k].seq, f[p][i].seq) \in 1 .. d
    <2>1. CASE p = a
      <3>1. i < k /\ Ahead(f[a][k].seq, f[p][i].seq) \in 1 .. k - i
        BY <2>1 DEF Ordered
      <3> QED
        BY <3>1, NVAssumption DEF SlotIds
    <2>2. CASE p = otherPage(a)
      <3>1. Ahead(f[a][k].seq, f[p][i].seq) \in 1 .. k + Slots - i
        BY <2>2 DEF Ordered
      <3>2. k + Slots - i \in Nat /\ k + Slots - i <= 2 * Slots
        BY NVAssumption DEF SlotIds
      <3> QED
        BY <3>1, <3>2
    <2> QED
      BY <1>2, <2>1, <2>2
  <1> QED
    BY <1>1, <1>3, NewerIsAhead

\* There is at most one such record.
LEMMA OrderedUnique ==
    ASSUME NEW f \in FlashType,
           NEW a \in Pages, NEW k \in SlotIds, Ordered(f, a, k),
           NEW b \in Pages, NEW m \in SlotIds, Ordered(f, b, m)
    PROVE  a = b /\ k = m
  <1>1. f[a][k].st = "valid" /\ f[b][m].st = "valid"
    BY DEF Ordered
  <1>2. <<a, k>> = <<b, m>>
    BY <1>1, OrderedNewer
  <1> QED
    BY <1>2

\* It survives as long as nothing on its page is erased and no record is
\* added.
LEMMA OrderedKept ==
    ASSUME NEW f \in FlashType, NEW g \in FlashType,
           NEW a \in Pages, NEW k \in SlotIds, Ordered(f, a, k),
           \A i \in SlotIds : \/ g[a][i] = f[a][i]
                              \/ f[a][i].st # "valid" /\ g[a][i].st = "junk",
           \A i \in SlotIds : \/ g[otherPage(a)][i] = f[otherPage(a)][i]
                              \/ g[otherPage(a)][i].st # "valid"
    PROVE  Ordered(g, a, k) /\ g[a][k] = f[a][k]
  <1>1. g[a][k] = f[a][k]
    BY DEF Ordered
  <1>2. \A i \in SlotIds : g[a][i].st = "valid" => g[a][i] = f[a][i]
    OBVIOUS
  <1>3. \A i \in 1 .. k - 1 : i \in SlotIds
    BY NVAssumption DEF SlotIds
  <1>4. \A i \in 1 .. k - 1 : g[a][i].st # "erased"
    BY <1>3 DEF Ordered
  <1>5. \A i \in SlotIds : g[otherPage(a)][i].st = "valid" =>
            g[otherPage(a)][i] = f[otherPage(a)][i]
    OBVIOUS
  <1> QED
    BY <1>1, <1>2, <1>4, <1>5 DEF Ordered

\* A flash without records stays so as long as none is added.
LEMMA NoRecordsKept ==
    ASSUME NEW f, NEW g, NoRecords(f),
           \A p \in Pages, i \in SlotIds : g[p][i] = f[p][i] \/ g[p][i].st # "valid"
    PROVE  NoRecords(g)
  BY DEF NoRecords

\* A record written with the next number, behind the newest one or at the
\* start of a page without records, is the newest one.
LEMMA OrderedNext ==
    ASSUME NEW f \in FlashType, NEW a \in Pages, NEW k \in SlotIds, Ordered(f, a, k),
           NEW p \in Pages, NEW s \in SlotIds, NEW v \in Values,
           f[p][s].st # "valid",
           \A j \in 1 .. s - 1 : f[p][j].st # "erased",
           p = a => s > k,
           p # a => s = 1 /\ \A i \in SlotIds : f[p][i].st # "valid"
    PROVE  Ordered([f EXCEPT ![p][s] = Record(NextSeq(f[a][k].seq), v)], p, s)
  <1> DEFINE n == f[a][k].seq
             r == Record(NextSeq(n), v)
             g == [f EXCEPT ![p][s] = r]
  <1>0. n \in SeqNums /\ \A b \in Pages, i \in SlotIds : f[b][i].seq \in SeqNums
    BY DEF FlashType, Cell
  <1>1. /\ g[p][s] = r /\ r.st = "valid" /\ r.seq = NextSeq(n)
        /\ \A i \in SlotIds : i # s => g[p][i] = f[p][i]
        /\ g[otherPage(p)] = f[otherPage(p)]
        /\ \A j \in 1 .. s - 1 : j \in SlotIds /\ j # s
    BY NVAssumption DEF Record, FlashType, otherPage, Pages, SlotIds
  <1>2. \A j \in 1 .. s - 1 : g[p][j].st # "erased"
    BY <1>1
  <1>3. otherPage(p) \in Pages /\ otherPage(otherPage(p)) = p /\ otherPage(p) # p
    BY DEF Pages, otherPage
  \* Each other record is as far behind the newest one, and one more.
  <1>4. ASSUME NEW b \in Pages, NEW i \in SlotIds, NEW d \in Nat, d < HalfSeq,
               Ahead(n, f[b][i].seq) \in 1 .. d \/ f[b][i].seq = n
        PROVE  Ahead(NextSeq(n), f[b][i].seq) \in 1 .. d + 1
    <2>1. CASE f[b][i].seq = n
      BY <2>1, <1>0, AheadSelf
    <2>2. CASE Ahead(n, f[b][i].seq) \in 1 .. d
      <3>1. Ahead(n, f[b][i].seq) < HalfSeq
        BY <1>4, <2>2, NVAssumption
      <3>2. Ahead(NextSeq(n), f[b][i].seq) = Ahead(n, f[b][i].seq) + 1
        BY <1>0, <3>1, AheadNext
      <3> QED
        BY <2>2, <3>2
    <2> QED
      BY <1>4, <2>1, <2>2
  <1>5. CASE p = a
    <2>1. ASSUME NEW i \in SlotIds, g[p][i].st = "valid", i # s
          PROVE  i < s /\ Ahead(r.seq, g[p][i].seq) \in 1 .. s - i
      <3>1. f[a][i].st = "valid" /\ g[p][i] = f[a][i]
        BY <2>1, <1>1, <1>5
      <3>2. i # k => i < k /\ Ahead(n, f[a][i].seq) \in 1 .. k - i
        BY <3>1 DEF Ordered
      <3>3. k - i \in Nat /\ k - i < HalfSeq /\ k - i + 1 <= s - i /\ i < s
        BY <3>2, <1>5, NVAssumption DEF SlotIds
      <3>4. Ahead(NextSeq(n), f[a][i].seq) \in 1 .. (k - i) + 1
        BY <3>2, <3>3, <1>4
      <3> QED
        BY <3>1, <3>3, <3>4, <1>1 DEF SlotIds
    <2>2. ASSUME NEW i \in SlotIds, g[otherPage(p)][i].st = "valid"
          PROVE  Ahead(r.seq, g[otherPage(p)][i].seq) \in 1 .. s + Slots - i
      <3>1. f[otherPage(a)][i].st = "valid" /\ g[otherPage(p)][i] = f[otherPage(a)][i]
        BY <2>2, <1>1, <1>5
      <3>2. Ahead(n, f[otherPage(a)][i].seq) \in 1 .. k + Slots - i
        BY <3>1 DEF Ordered
      <3>3. k + Slots - i \in Nat /\ k + Slots - i < HalfSeq /\ k + Slots - i + 1 <= s + Slots - i
        BY <1>5, NVAssumption DEF SlotIds
      <3>4. Ahead(NextSeq(n), f[otherPage(a)][i].seq) \in 1 .. (k + Slots - i) + 1
        BY <3>2, <3>3, <1>4, <1>3, <1>5
      <3> QED
        BY <3>1, <3>3, <3>4, <1>1, NVAssumption DEF SlotIds
    <2> QED
      BY <1>1, <1>2, <2>1, <2>2 DEF Ordered
  <1>6. CASE p # a
    <2>0. s = 1 /\ otherPage(p) = a
      BY <1>6 DEF Pages, otherPage
    <2>1. ASSUME NEW i \in SlotIds, g[p][i].st = "valid", i # s
          PROVE  FALSE
      BY <2>1, <1>1, <1>6
    <2>2. ASSUME NEW i \in SlotIds, g[otherPage(p)][i].st = "valid"
          PROVE  Ahead(r.seq, g[otherPage(p)][i].seq) \in 1 .. s + Slots - i
      <3>1. f[a][i].st = "valid" /\ g[otherPage(p)][i] = f[a][i]
        BY <2>2, <1>1, <2>0
      <3>2. i # k => i < k /\ Ahead(n, f[a][i].seq) \in 1 .. k - i
        BY <3>1 DEF Ordered
      <3>3. k - i \in Nat /\ k - i < HalfSeq /\ k - i + 1 <= s + Slots - i
        BY <3>2, <2>0, NVAssumption DEF SlotIds
      <3>4. Ahead(NextSeq(n), f[a][i].seq) \in 1 .. (k - i) + 1
        BY <3>2, <3>3, <1>4
      <3> QED
        BY <3>1, <3>3, <3>4, <1>1, NVAssumption DEF SlotIds
    <2> QED
      BY <1>1, <1>2, <2>1, <2>2 DEF Ordered
  <1> QED
    BY <1>5, <1>6

\* The first record of a flash without any is the newest one.
LEMMA OrderedFirst ==
    ASSUME NEW f \in FlashType, NoRecords(f), NEW p \in Pages, NEW s \in SlotIds,
           NEW n \in SeqNums, NEW v \in Values,
           \A j \in 1 .. s - 1 : f[p][j].st # "erased"
    PROVE  Ordered([f EXCEPT ![p][s] = Record(n, v)], p, s)
  <1> DEFINE g == [f EXCEPT ![p][s] = Record(n, v)]
  <1>1. /\ g[p][s].st = "valid"
        /\ \A i \in SlotIds : i # s => g[p][i] = f[p][i]
        /\ g[otherPage(p)] = f[otherPage(p)] /\ otherPage(p) \in Pages
        /\ \A j \in 1 .. s - 1 : j \in SlotIds /\ j # s
    BY NVAssumption DEF Record, FlashType, otherPage, Pages, SlotIds
  <1> QED
    BY <1>1 DEF Ordered, NoRecords

\* A restart finds the record Ordered names.
LEMMA OrderedDurable ==
    ASSUME NEW f \in FlashType, NEW a \in Pages, NEW k \in SlotIds, Ordered(f, a, k)
    PROVE  DurableIn(f) = f[a][k].val
  <1> DEFINE r == <<a, k>>
  <1>0. r \in Addrs /\ r[1] = a /\ r[2] = k
    BY DEF Addrs
  <1>1. ASSUME NEW b \in ValidIn(f) \ {r}
        PROVE  /\ sequenceIsNewer(f[a][k].seq, f[b[1]][b[2]].seq)
               /\ ~sequenceIsNewer(f[b[1]][b[2]].seq, f[a][k].seq)
    <2>1. PICK p \in Pages, i \in SlotIds : b = <<p, i>> /\ f[p][i].st = "valid"
      BY <1>1 DEF ValidIn, Addrs
    <2> QED
      BY <2>1, <1>1, OrderedNewer
  <1>2. r \in ValidIn(f)
    BY <1>0 DEF ValidIn, Ordered
  <1> HIDE DEF r
  <1>3. Newest(f, r)
    BY <1>0, <1>1, <1>2 DEF Newest
  <1>4. \A b \in Addrs : Newest(f, b) => b = r
    BY <1>0, <1>1, <1>2 DEF Newest
  <1>5. (CHOOSE b \in Addrs : Newest(f, b)) = r
    BY <1>0, <1>3, <1>4
  <1> QED
    BY <1>0, <1>3, <1>5 DEF DurableIn

\* A restart of a flash without records finds none.
LEMMA NoRecordsDurable ==
    ASSUME NEW f, NoRecords(f)
    PROVE  DurableIn(f) = NoVal
  BY DEF NoRecords, DurableIn, Newest, ValidIn, Addrs

-----------------------------------------------------------------------------
(* RAM and flash                                                           *)

\* What a step may do to the flash without touching the newest record: it
\* adds no record, and on the active page it only uses up an unused slot.
Harmless(f, g) ==
    /\ \A p \in Pages, i \in SlotIds : g[p][i] = f[p][i] \/ g[p][i].st # "valid"
    /\ \/ g = f
       \/ NoRecords(f)
       \/ /\ active_page \in Pages
          /\ \A i \in SlotIds :
                \/ g[active_page][i] = f[active_page][i]
                \/ f[active_page][i].st # "valid" /\ g[active_page][i].st = "junk"

\* Such a step keeps the newest record, whether RAM knows it or not.
LEMMA HarmlessKeeps ==
    ASSUME TypeOK, StoreInv, pc # "saveLock", NEW g \in FlashType, Harmless(flash, g)
    PROVE  /\ NoRecords(flash) => NoRecords(g)
           /\ (NoRecords(flash) /\ NoRecords(g)) \/ \E a \in Pages, k \in SlotIds :
                  Ordered(g, a, k) /\ Ordered(flash, a, k) /\ g[a][k] = flash[a][k]
           /\ last_addr # NoAddr =>
                  /\ Ordered(g, last_addr[1], last_addr[2])
                  /\ g[last_addr[1]][last_addr[2]] = CellAt(last_addr)
  <1>0. flash \in FlashType
    BY DEF TypeOK, FlashType
  <1>1. NoRecords(flash) => NoRecords(g)
    BY NoRecordsKept DEF Harmless
  <1>2. CASE NoRecords(flash)
    <2>1. last_addr = NoAddr
      BY <1>2 DEF StoreInv, RamInv, LastIsValid, TypeOK, NoRecords, CellAt, Addrs
    <2> QED
      BY <1>1, <1>2, <2>1
  <1>3. CASE ~NoRecords(flash)
    <2>1. PICK a \in Pages, k \in SlotIds :
            /\ Ordered(flash, a, k)
            /\ active_page # "none" => last_addr = <<a, k>>
            /\ active_page # "none" => active_page = a
      BY <1>3 DEF StoreInv, RamInv, LastIsValid, TypeOK, Addrs
    <2>2. g = flash \/ active_page = a
      BY <1>3, <2>1 DEF Harmless, Pages
    <2>3. otherPage(a) \in Pages
      BY DEF otherPage, Pages
    <2>4. Ordered(g, a, k) /\ g[a][k] = flash[a][k]
      <3>1. CASE g = flash
        BY <2>1, <3>1
      <3>2. CASE g # flash
        <4>1. \A i \in SlotIds : \/ g[a][i] = flash[a][i]
                                 \/ flash[a][i].st # "valid" /\ g[a][i].st = "junk"
          BY <1>3, <2>2, <3>2 DEF Harmless
        <4>2. \A i \in SlotIds : \/ g[otherPage(a)][i] = flash[otherPage(a)][i]
                                 \/ g[otherPage(a)][i].st # "valid"
          BY <2>3 DEF Harmless
        <4> QED
          BY <1>0, <2>1, <4>1, <4>2, OrderedKept
      <3> QED
        BY <3>1, <3>2
    <2>5. last_addr # NoAddr => last_addr = <<a, k>>
      BY <2>1 DEF StoreInv, RamInv, LastIsValid
    <2> QED
      BY <1>3, <2>1, <2>4, <2>5 DEF CellAt
  <1> QED
    BY <1>2, <1>3

\* Such a step, RAM unchanged, keeps StoreInv.
LEMMA StoreQuiet ==
    ASSUME TypeOK, StoreInv, pc # "saveLock", pc' # "saveLock", UNCHANGED ram,
           flash' \in FlashType, Harmless(flash, flash')
    PROVE  StoreInv'
  <1>1. /\ NoRecords(flash) => NoRecords(flash')
        /\ NoRecords(flash') \/ \E a \in Pages, k \in SlotIds : Ordered(flash', a, k)
        /\ last_addr # NoAddr =>
               /\ Ordered(flash', last_addr[1], last_addr[2])
               /\ flash'[last_addr[1]][last_addr[2]] = CellAt(last_addr)
    BY HarmlessKeeps
  <1> QED
    BY <1>1 DEF StoreInv, RamInv, LastIsValid, ram, CellAt

\* So does the loss of RAM at such a step.
LEMMA StoreDown ==
    ASSUME TypeOK, StoreInv, pc # "saveLock", flash' \in FlashType, Harmless(flash, flash'),
           pc' = "idle", active_page' = "none", last_addr' = NoAddr
    PROVE  StoreInv'
  <1>1. NoRecords(flash') \/ \E a \in Pages, k \in SlotIds : Ordered(flash', a, k)
    BY HarmlessKeeps
  <1> QED
    BY <1>1 DEF StoreInv, RamInv, LastIsValid

\* Erasing, wholly or in part, a page that is not active is harmless, and so
\* is erasing any page when there are no records.
LEMMA EraseHarmless ==
    ASSUME TypeOK, NEW p \in Pages, NEW pg \in HalfErased(flash[p]),
           NoRecords(flash) \/ active_page \in Pages \ {p}
    PROVE  /\ [flash EXCEPT ![p] = pg] \in FlashType
           /\ Harmless(flash, [flash EXCEPT ![p] = pg])
  <1> DEFINE g == [flash EXCEPT ![p] = pg]
  <1>0. flash \in FlashType
    BY DEF TypeOK, FlashType
  <1>1. g \in FlashType
    BY <1>0, FlashUpdates, HalfErasedType
  <1>2. \A i \in SlotIds : pg[i] = flash[p][i] \/ pg[i].st # "valid"
    BY DEF HalfErased, Erased, Junk
  <1>3. \A b \in Pages : b # p => g[b] = flash[b]
    BY <1>0 DEF FlashType
  <1>4. g[p] = pg
    BY <1>0 DEF FlashType
  <1>5. \A b \in Pages, i \in SlotIds : g[b][i] = flash[b][i] \/ g[b][i].st # "valid"
    BY <1>2, <1>3, <1>4
  <1> QED
    BY <1>1, <1>3, <1>5 DEF Harmless

\* A page fully erased is one of the outcomes of an erase.
LEMMA ErasedIsHalfErased ==
    ASSUME NEW page
    PROVE  [i \in SlotIds |-> Erased] \in HalfErased(page)
  <1> DEFINE left == [i \in SlotIds |-> "erased"]
  <1>1. left \in [SlotIds -> {"kept", "erased", "junk"}]
    OBVIOUS
  <1>2. [i \in SlotIds |-> Erased] =
           [i \in SlotIds |-> IF left[i] = "kept" THEN page[i]
                              ELSE IF left[i] = "erased" THEN Erased ELSE Junk]
    OBVIOUS
  <1> QED
    BY <1>1, <1>2 DEF HalfErased

\* Using up the slot being written is harmless.
LEMMA ProgramHarmless ==
    ASSUME TypeOK, StoreInv, WriteInv,
           pc \in {"saveHeader", "savePayload", "saveTail"}, NEW c \in HalfProgrammed(TargetCell)
    PROVE  /\ [flash EXCEPT ![target_page][write_slot] = c] \in FlashType
           /\ Harmless(flash, [flash EXCEPT ![target_page][write_slot] = c])
  <1> DEFINE g == [flash EXCEPT ![target_page][write_slot] = c]
  <1>0. flash \in FlashType
    BY DEF TypeOK, FlashType
  <1>1. target_page \in Pages /\ write_slot \in SlotIds /\ TargetCell \in Cell
        /\ active_page \in Pages
    BY WriteTarget
  <1>2. c \in Cell /\ (c = TargetCell \/ c.st = "junk") /\ c.st # "valid"
    BY <1>1, Cells DEF HalfProgrammed, Junk, WriteInv
  <1>3. g \in FlashType
    BY <1>0, <1>1, <1>2, FlashUpdates
  <1>4. \A b \in Pages, i \in SlotIds :
           g[b][i] = IF b = target_page /\ i = write_slot THEN c ELSE flash[b][i]
    BY <1>0, <1>1 DEF FlashType
  <1>5. flash[target_page][write_slot].st # "valid"
    BY DEF WriteInv, TargetCell
  <1> QED
    BY <1>1, <1>2, <1>3, <1>4, <1>5 DEF Harmless, TargetCell

-----------------------------------------------------------------------------
(* The invariant is preserved                                              *)

\* The tail of the record makes it the newest one.
LEMMA TailOrdered ==
    ASSUME TypeOK, StoreInv, WriteInv, AppendInv, pc = "saveTail"
    PROVE  Ordered([flash EXCEPT ![target_page][write_slot] = NewRecord],
                   target_page, write_slot)
  <1>0. flash \in FlashType /\ last_seq \in SeqNums
    BY DEF TypeOK, FlashType
  <1>1. /\ target_page \in Pages /\ write_slot \in SlotIds /\ payload \in Values
        /\ active_page \in Pages /\ active_page # "none" /\ NextSeq(last_seq) \in SeqNums
    BY WriteTarget DEF Pages
  <1>2. /\ flash[target_page][write_slot].st # "valid"
        /\ \A j \in 1 .. write_slot - 1 : flash[target_page][j].st # "erased"
    BY DEF WriteInv, TargetCell
  <1>3. CASE last_addr = NoAddr
    <2>1. NoRecords(flash)
      BY <1>1, <1>3 DEF StoreInv, RamInv, LastIsValid
    <2> QED
      BY <1>0, <1>1, <1>2, <2>1, OrderedFirst DEF NewRecord
  <1>4. CASE last_addr # NoAddr
    <2>1. PICK a \in Pages, k \in SlotIds : last_addr = <<a, k>>
      BY <1>4 DEF TypeOK, Addrs
    <2>2. active_page = a /\ flash[a][k].seq = last_seq /\ Ordered(flash, a, k)
      BY <1>1, <1>4, <2>1 DEF StoreInv, RamInv, LastIsValid, CellAt
    <2>3. target_page = a => write_slot > k
      BY <1>4, <2>1, <2>2 DEF AppendInv
    <2>4. target_page # a => write_slot = 1 /\ \A i \in SlotIds : flash[target_page][i].st # "valid"
      BY <2>2 DEF WriteInv
    <2> QED
      BY <1>0, <1>1, <1>2, <2>2, <2>3, <2>4, OrderedNext DEF NewRecord
  <1> QED
    BY <1>3, <1>4

\* The record scanPage and NV_Init settle on is the newest one.
LEMMA PickedNewest ==
    ASSUME TypeOK, StoreInv, ScanInv, pc = "pick", \E p \in Pages : best[p].slot # 0
    PROVE  /\ Picked \in Pages /\ best[Picked].slot \in SlotIds
           /\ Ordered(flash, Picked, best[Picked].slot)
           /\ flash[Picked][best[Picked].slot].st = "valid"
           /\ flash[Picked][best[Picked].slot].seq = best[Picked].seq
  <1>0. flash \in FlashType /\ best \in [Pages -> [slot: SlotIds0, seq: SeqNums]]
    BY DEF TypeOK, FlashType
  <1>1. \A p \in Pages : best[p].slot # 0 =>
           /\ best[p].slot \in SlotIds
           /\ flash[p][best[p].slot].st = "valid"
           /\ flash[p][best[p].slot].seq = best[p].seq
    BY <1>0 DEF ScanInv, SlotIds, SlotIds0
  <1>2. ~NoRecords(flash)
    BY <1>1 DEF NoRecords
  <1>3. PICK a \in Pages, k \in SlotIds : Ordered(flash, a, k)
    BY <1>2 DEF StoreInv, RamInv, LastIsValid, TypeOK, Addrs
  <1>4. best[a].slot = k
    BY <1>3 DEF ScanInv, Scanned
  <1>5. k # 0
    BY NVAssumption DEF SlotIds
  <1>6. otherPage(a) \in Pages /\ otherPage(a) # a
    BY DEF otherPage, Pages
  <1>7. best[otherPage(a)].slot # 0 =>
           /\ sequenceIsNewer(best[a].seq, best[otherPage(a)].seq)
           /\ ~sequenceIsNewer(best[otherPage(a)].seq, best[a].seq)
    BY <1>0, <1>1, <1>3, <1>4, <1>5, <1>6, OrderedNewer
  <1>8. Picked = a
    <2>1. CASE a = "A"
      BY <2>1, <1>4, <1>5, <1>7 DEF Picked, otherPage
    <2>2. CASE a = "B"
      BY <2>2, <1>4, <1>5, <1>7 DEF Picked, otherPage
    <2> QED
      BY <2>1, <2>2 DEF Pages
  <1> QED
    BY <1>1, <1>3, <1>4, <1>5, <1>8

-----------------------------------------------------------------------------
(* What any step does to the flash, whatever may fail late                 *)

\* A step leaves the flash alone, erases a page that is not the active one
\* (any page when there are no records), or writes a slot that holds none.
Erases(p) ==
    /\ NoRecords(flash) \/ active_page \in Pages \ {p}
    /\ \E pg \in HalfErased(flash[p]) : flash' = [flash EXCEPT ![p] = pg]

Programs ==
    /\ active_page \in Pages /\ target_page \in Pages /\ write_slot \in SlotIds
    /\ TargetCell.st # "valid"
    /\ \E c \in {TargetCell, Junk, NewRecord} : Write(c)

LEMMA FlashStep ==
    ASSUME SafeInv, [Next]_vars
    PROVE  flash' = flash \/ Programs \/ \E p \in Pages : Erases(p)
  <1> USE DEF SafeInv
  <1>i. pc \in {"initEraseA", "initEraseB"} => InitErasing \in Pages /\ NoRecords(flash)
    BY DEF InitErasing, ScanInv, Pages
  <1>s. pc = "saveErase" => /\ otherPage(active_page) \in Pages
                            /\ active_page \in Pages \ {otherPage(active_page)}
    BY DEF WriteInv, otherPage, Pages
  <1>p. pc \in {"saveHeader", "saveTail"} =>
          /\ active_page \in Pages /\ target_page \in Pages /\ write_slot \in SlotIds
          /\ TargetCell.st # "valid"
    BY WriteTarget DEF WriteInv
  <1>1. CASE InitErase \/ InitEraseFails
    <2>1. \E pg \in HalfErased(flash[InitErasing]) : flash' = [flash EXCEPT ![InitErasing] = pg]
      BY <1>1, ErasedIsHalfErased DEF InitErase, InitEraseFails
    <2>2. Erases(InitErasing) /\ InitErasing \in Pages
      BY <1>1, <1>i, <2>1 DEF InitErase, InitEraseFails, Erases
    <2> QED
      BY <2>2
  <1>2. CASE SaveErase \/ SaveEraseFails
    <2>1. \E pg \in HalfErased(flash[otherPage(active_page)]) :
             flash' = [flash EXCEPT ![otherPage(active_page)] = pg]
      BY <1>2, ErasedIsHalfErased DEF SaveErase, SaveEraseFails
    <2>2. Erases(otherPage(active_page)) /\ otherPage(active_page) \in Pages
      BY <1>2, <1>s, <2>1 DEF SaveErase, SaveEraseFails, Erases
    <2> QED
      BY <2>2
  <1>3. CASE SaveHeader \/ SaveHeaderFails \/ SaveTail \/ SaveTailFailsLate
    BY <1>3, <1>p DEF SaveHeader, SaveHeaderFails, SaveTail, SaveTailFailsLate, Programs,
                      HalfProgrammed
  <1>4. CASE PowerLoss
    <2>1. CASE pc \in {"initEraseA", "initEraseB"}
      <3>1. \E pg \in HalfErased(flash[InitErasing]) : flash' = [flash EXCEPT ![InitErasing] = pg]
        BY <1>4, <2>1 DEF PowerLoss, TornFlash
      <3>2. Erases(InitErasing) /\ InitErasing \in Pages
        BY <1>i, <2>1, <3>1 DEF Erases
      <3> QED
        BY <3>2
    <2>2. CASE pc = "saveErase"
      <3>1. \E pg \in HalfErased(flash[otherPage(active_page)]) :
               flash' = [flash EXCEPT ![otherPage(active_page)] = pg]
        BY <1>4, <2>2 DEF PowerLoss, TornFlash
      <3>2. Erases(otherPage(active_page)) /\ otherPage(active_page) \in Pages
        BY <1>s, <2>2, <3>1 DEF Erases
      <3> QED
        BY <3>2
    <2>3. CASE pc \in {"saveHeader", "saveTail"}
      <3>1. flash' = flash \/ \E c \in {TargetCell, Junk, NewRecord} : Write(c)
        BY <1>4, <2>3 DEF PowerLoss, TornFlash, HalfProgrammed, Write
      <3> QED
        BY <1>p, <2>3, <3>1 DEF Programs
    <2>4. CASE pc \notin {"initEraseA", "initEraseB", "saveErase", "saveHeader", "saveTail"}
      BY <1>4, <2>4 DEF PowerLoss, TornFlash
    <2> QED
      BY <2>1, <2>2, <2>3, <2>4
  <1>5. CASE InitCall \/ Load \/ SaveRefused \/ ScanSlot \/ InitPick \/ InitUnlock
             \/ InitUnlockFails \/ InitLock \/ InitLockFails \/ SaveUnlock \/ SaveUnlockFails
             \/ SavePayload \/ SavePayloadFails \/ SaveTailFails \/ SaveLock \/ SaveLockFails
             \/ UNCHANGED vars \/ \E v \in Values : SaveCall(v)
    BY <1>5 DEF InitCall, Load, SaveRefused, ScanSlot, InitPick, InitUnlock, InitUnlockFails,
                InitLock, InitLockFails, SaveUnlock, SaveUnlockFails, SavePayload,
                SavePayloadFails, SaveTailFails, SaveLock, SaveLockFails, SaveCall, vars
  <1> QED
    BY <1>1, <1>2, <1>3, <1>4, <1>5 DEF Next, Calls, Work, Faults

\* Cell by cell: a record stays, goes with its page, or is the new one.
LEMMA CellStep ==
    ASSUME SafeInv, [Next]_vars, NEW p \in Pages, NEW i \in SlotIds
    PROVE  /\ \/ flash'[p][i] = flash[p][i]
              \/ flash'[p][i].st # "valid"
              \/ active_page \in Pages /\ flash'[p][i] = NewRecord
           /\ flash[p][i].st = "valid" /\ active_page \in {"none", p} =>
                 flash'[p][i] = flash[p][i]
  <1>0. flash \in FlashType
    BY DEF SafeInv, TypeOK, FlashType
  <1>1. CASE Programs
    <2>1. PICK c \in {TargetCell, Junk, NewRecord} : Write(c)
      BY <1>1 DEF Programs
    <2>2. flash'[p][i] = IF p = target_page /\ i = write_slot THEN c ELSE flash[p][i]
      BY <1>0, <1>1, <2>1 DEF Programs, Write, FlashType
    <2> QED
      BY <1>1, <2>1, <2>2 DEF Programs, TargetCell, Junk
  <1>2. ASSUME NEW q \in Pages, Erases(q) PROVE
           /\ flash'[p][i] = flash[p][i] \/ flash'[p][i].st # "valid"
           /\ flash[p][i].st = "valid" /\ active_page \in {"none", p} =>
                 flash'[p][i] = flash[p][i]
    <2>1. PICK pg \in HalfErased(flash[q]) : flash' = [flash EXCEPT ![q] = pg]
      BY <1>2 DEF Erases
    <2>2. pg[i] = flash[q][i] \/ pg[i].st # "valid"
      BY DEF HalfErased, Erased, Junk
    <2>3. flash'[p] = IF p = q THEN pg ELSE flash[p]
      BY <1>0, <2>1 DEF FlashType
    <2>4. flash[p][i].st = "valid" /\ active_page \in {"none", p} => p # q
      BY <1>2 DEF Erases, NoRecords, Pages
    <2> QED
      BY <2>2, <2>3, <2>4
  <1> QED
    BY <1>1, <1>2, FlashStep

\* Every step keeps RAM and flash in agreement.
LEMMA StoreStep ==
    ASSUME LateFaults = {}, IndInv, TypeOK', [Next]_vars
    PROVE  StoreInv'
  <1> USE DEF IndInv, SafeInv
  <1>0. flash \in FlashType /\ flash' \in FlashType
    BY DEF TypeOK, FlashType
  <1>n. Harmless(flash, flash)
    BY DEF Harmless
  <1>1. CASE InitCall \/ Load \/ SaveRefused \/ ScanSlot \/ InitUnlock \/ InitUnlockFails
             \/ InitLockFails \/ SaveUnlock \/ SaveUnlockFails \/ SavePayload
             \/ SavePayloadFails \/ SaveTailFails \/ \E v \in Values : SaveCall(v)
    <2>1. UNCHANGED <<flash, ram>> /\ pc # "saveLock" /\ pc' # "saveLock"
      BY <1>1 DEF InitCall, Load, SaveRefused, ScanSlot, InitUnlock, InitUnlockFails,
                  InitLockFails, SaveUnlock, SaveUnlockFails, SavePayload,
                  SavePayloadFails, SaveTailFails, SaveCall, Return
    <2> QED
      BY <2>1, <1>0, <1>n, StoreQuiet
  <1>2. CASE UNCHANGED vars
    BY <1>2 DEF StoreInv, RamInv, LastIsValid, vars, ram, locals, CellAt, NewRecord
  <1>3. CASE InitPick
    <2>1. /\ Picked \in Pages /\ best[Picked].slot \in SlotIds
          /\ Ordered(flash, Picked, best[Picked].slot)
          /\ flash[Picked][best[Picked].slot].st = "valid"
          /\ flash[Picked][best[Picked].slot].seq = best[Picked].seq
      BY <1>3, PickedNewest DEF InitPick
    <2>2. /\ active_page' = Picked /\ active_page' # "none" /\ pc' = "idle"
          /\ last_addr' = <<Picked, best[Picked].slot>> /\ last_seq' = best[Picked].seq
          /\ flash' = flash
      BY <1>3, <2>1 DEF InitPick, Return, Pages
    <2> QED
      BY <2>1, <2>2 DEF StoreInv, RamInv, LastIsValid, CellAt, NoAddr, Pages
  <1>4. CASE InitErase
    <2>1. InitErasing \in Pages /\ NoRecords(flash)
      BY <1>4 DEF InitErase, InitErasing, ScanInv, Pages
    <2>2. Harmless(flash, flash')
      BY <1>4, <2>1, EraseHarmless, ErasedIsHalfErased DEF InitErase
    <2> QED
      BY <1>4, <1>0, <2>2, StoreQuiet DEF InitErase
  <1>5. CASE InitEraseFails
    <2>1. InitErasing \in Pages /\ NoRecords(flash)
      BY <1>5 DEF InitEraseFails, InitErasing, ScanInv, Pages
    <2>2. PICK pg \in HalfErased(flash[InitErasing]) : flash' = [flash EXCEPT ![InitErasing] = pg]
      BY <1>5 DEF InitEraseFails
    <2>3. Harmless(flash, flash')
      BY <2>1, <2>2, EraseHarmless
    <2> QED
      BY <1>5, <1>0, <2>3, StoreQuiet DEF InitEraseFails, Return
  <1>6. CASE InitLock
    BY <1>6 DEF InitLock, Return, StoreInv, RamInv, LastIsValid, ScanInv
  <1>7. CASE SaveErase
    <2>1. active_page \in Pages /\ otherPage(active_page) \in Pages
          /\ otherPage(active_page) # active_page
      BY <1>7 DEF SaveErase, WriteInv, otherPage, Pages
    <2>2. Harmless(flash, flash')
      BY <1>7, <2>1, EraseHarmless, ErasedIsHalfErased DEF SaveErase
    <2> QED
      BY <1>7, <1>0, <2>2, StoreQuiet DEF SaveErase
  <1>8. CASE SaveEraseFails
    <2>1. active_page \in Pages /\ otherPage(active_page) \in Pages
          /\ otherPage(active_page) # active_page
      BY <1>8 DEF SaveEraseFails, WriteInv, otherPage, Pages
    <2>2. PICK pg \in HalfErased(flash[otherPage(active_page)]) :
            flash' = [flash EXCEPT ![otherPage(active_page)] = pg]
      BY <1>8 DEF SaveEraseFails
    <2>3. Harmless(flash, flash')
      BY <2>1, <2>2, EraseHarmless
    <2> QED
      BY <1>8, <1>0, <2>3, StoreQuiet DEF SaveEraseFails, Return
  <1>9. CASE SaveHeader
    <2>1. Harmless(flash, flash')
      BY <1>9, ProgramHarmless DEF SaveHeader, Write, HalfProgrammed
    <2> QED
      BY <1>9, <1>0, <2>1, StoreQuiet DEF SaveHeader
  <1>10. CASE SaveHeaderFails
    <2>1. Harmless(flash, flash')
      BY <1>10, ProgramHarmless DEF SaveHeaderFails, Write
    <2> QED
      BY <1>10, <1>0, <2>1, StoreQuiet DEF SaveHeaderFails, Return
  <1>11. CASE SaveTail
    <2>1. /\ Ordered(flash', target_page, write_slot)
          /\ flash'[target_page][write_slot] = NewRecord
      BY <1>11, <1>0, TailOrdered, WriteTarget DEF SaveTail, Write, FlashType
    <2>2. UNCHANGED <<ram, locals>> /\ pc' = "saveLock"
      BY <1>11 DEF SaveTail
    <2>3. last_addr # NoAddr => CellAt(last_addr)' = CellAt(last_addr)
      <3> SUFFICES ASSUME last_addr # NoAddr PROVE CellAt(last_addr)' = CellAt(last_addr)
        OBVIOUS
      <3>1. PICK a \in Pages, k \in SlotIds : last_addr = <<a, k>>
        BY DEF TypeOK, Addrs
      <3>2. flash[a][k].st = "valid" /\ flash[target_page][write_slot].st # "valid"
        BY <1>11, <3>1 DEF StoreInv, RamInv, LastIsValid, WriteInv, SaveTail, CellAt, TargetCell
      <3>3. flash'[a][k] = flash[a][k]
        BY <1>11, <1>0, <3>1, <3>2, WriteTarget DEF SaveTail, Write, FlashType
      <3> QED
        BY <3>1, <3>3, <2>2 DEF CellAt, ram
    <2> QED
      BY <2>1, <2>2, <2>3 DEF StoreInv, RamInv, LastIsValid, ram, locals, NewRecord
  <1>12. CASE SaveLock
    <2>1. /\ Ordered(flash, target_page, write_slot)
          /\ flash[target_page][write_slot] = NewRecord
          /\ target_page \in Pages
      BY <1>12, WriteTarget DEF SaveLock, StoreInv, RamInv, LastIsValid
    <2>2. /\ active_page' = target_page /\ active_page' # "none" /\ pc' = "idle"
          /\ last_addr' = <<target_page, write_slot>> /\ last_seq' = NextSeq(last_seq)
          /\ flash' = flash
      BY <1>12, <2>1 DEF SaveLock, Return, Pages
    <2>3. NewRecord.st = "valid" /\ NewRecord.seq = NextSeq(last_seq)
      BY DEF NewRecord, Record
    <2> QED
      BY <2>1, <2>2, <2>3 DEF StoreInv, RamInv, LastIsValid, CellAt, NoAddr, Pages
  <1>13. CASE SaveTailFailsLate \/ SaveLockFails
    BY <1>13 DEF SaveTailFailsLate, SaveLockFails
  <1>14. CASE PowerLoss
    <2>0. pc' = "idle" /\ active_page' = "none" /\ last_addr' = NoAddr
      BY <1>14 DEF PowerLoss
    <2>1. CASE pc = "saveLock"
      <3>1. flash' = flash
        BY <1>14, <2>1 DEF PowerLoss, TornFlash
      <3> QED
        BY <2>0, <2>1, <3>1, WriteTarget DEF StoreInv, RamInv, LastIsValid
    <2>2. CASE pc = "saveTail" /\ flash' # flash
      <3>1. Ordered(flash', target_page, write_slot)
        BY <1>14, <2>2, TailOrdered DEF PowerLoss, TornFlash
      <3> QED
        BY <2>0, <2>2, <3>1, WriteTarget DEF StoreInv, RamInv, LastIsValid
    <2>3. CASE pc # "saveLock" /\ (pc = "saveTail" => flash' = flash)
      <3>1. Harmless(flash, flash')
        <4>1. CASE pc \in {"initEraseA", "initEraseB"}
          <5>1. PICK pg \in HalfErased(flash[InitErasing]) :
                  flash' = [flash EXCEPT ![InitErasing] = pg]
            BY <1>14, <4>1 DEF PowerLoss, TornFlash
          <5>2. InitErasing \in Pages /\ NoRecords(flash)
            BY <4>1 DEF InitErasing, ScanInv, Pages
          <5> QED
            BY <5>1, <5>2, EraseHarmless
        <4>2. CASE pc = "saveErase"
          <5>1. PICK pg \in HalfErased(flash[otherPage(active_page)]) :
                  flash' = [flash EXCEPT ![otherPage(active_page)] = pg]
            BY <1>14, <4>2 DEF PowerLoss, TornFlash
          <5>2. active_page \in Pages /\ otherPage(active_page) \in Pages
                /\ otherPage(active_page) # active_page
            BY <4>2 DEF WriteInv, otherPage, Pages
          <5> QED
            BY <5>1, <5>2, EraseHarmless
        <4>3. CASE pc = "saveHeader"
          <5>1. PICK c \in HalfProgrammed(TargetCell) :
                  flash' = [flash EXCEPT ![target_page][write_slot] = c]
            BY <1>14, <4>3 DEF PowerLoss, TornFlash
          <5> QED
            BY <4>3, <5>1, ProgramHarmless
        <4>4. CASE pc \notin {"initEraseA", "initEraseB", "saveErase", "saveHeader"}
          <5>1. flash' = flash
            BY <1>14, <2>3, <4>4 DEF PowerLoss, TornFlash
          <5> QED
            BY <5>1, <1>n
        <4> QED
          BY <4>1, <4>2, <4>3, <4>4
      <3> QED
        BY <1>0, <2>0, <2>3, <3>1, StoreDown
    <2> QED
      BY <2>1, <2>2, <2>3
  <1> QED
    BY <1>1, <1>2, <1>3, <1>4, <1>5, <1>6, <1>7, <1>8, <1>9, <1>10, <1>11, <1>12, <1>13, <1>14
       DEF Next, Calls, Work, Faults

\* Every step keeps what the scans have found out.
LEMMA ScanStep ==
    ASSUME SafeInv, TypeOK', [Next]_vars
    PROVE  ScanInv'
  <1> USE DEF SafeInv
  <1>0. flash \in FlashType
    BY DEF TypeOK, FlashType
  <1>q. ASSUME pc' \notin {"scan", "pick", "initEraseA", "initEraseB", "initLock"}
        PROVE  ScanInv'
    BY <1>q DEF ScanInv, Scanned
  <1>1. CASE InitCall
    <2>1. scan' = <<"A", 1>> /\ pc' = "scan" /\ best' = NoBest /\ flash' = flash
      BY <1>1 DEF InitCall
    <2>2. \A p \in Pages, i \in SlotIds : ~Scanned(p, i)'
      BY <2>1 DEF Scanned, SlotIds
    <2>3. \A p \in Pages : best'[p].slot = 0
      BY <2>1 DEF NoBest
    <2> QED
      BY <2>1, <2>2, <2>3 DEF ScanInv
  <1>2. CASE ScanSlot
    <2> DEFINE q == scan[1]
               s == scan[2]
               c == flash[q][s]
               take == c.st = "valid" /\ (best[q].slot = 0 \/ sequenceIsNewer(c.seq, best[q].seq))
    <2>0. /\ q \in Pages /\ s \in SlotIds
          /\ best \in [Pages -> [slot: SlotIds0, seq: SeqNums]]
      BY DEF TypeOK, Addrs
    <2>1. /\ q \in Pages /\ s \in SlotIds /\ s # 0 /\ c \in Cell /\ pc = "scan"
          /\ flash' = flash /\ pc' \in {"scan", "pick"}
          /\ best \in [Pages -> [slot: SlotIds0, seq: SeqNums]]
      <3>1. s # 0
        BY <2>0, NVAssumption DEF SlotIds
      <3>2. c \in Cell
        BY <2>0 DEF TypeOK
      <3>3. pc = "scan" /\ flash' = flash /\ pc' \in {"scan", "pick"}
        BY <1>2 DEF ScanSlot
      <3> QED
        BY <2>0, <3>1, <3>2, <3>3
    <2>2. /\ best' = IF take THEN [best EXCEPT ![q] = [slot |-> s, seq |-> c.seq]] ELSE best
          /\ scan' = IF s < Slots THEN <<q, s + 1>> ELSE <<"B", 1>>
          /\ pc' = IF s = Slots /\ q = "B" THEN "pick" ELSE "scan"
      BY <1>2 DEF ScanSlot
    \* One more slot has been scanned, and no other.
    <2>3. \A p \in Pages, i \in SlotIds :
              Scanned(p, i)' <=> Scanned(p, i) \/ (p = q /\ i = s)
      <3> DEFINE q2 == scan'[1]
                 s2 == scan'[2]
      <3>0. /\ s \in 1 .. Slots /\ Slots \in Nat
            /\ \A i \in SlotIds : i \in 1 .. Slots
            /\ \A p \in Pages : p = "A" \/ p = "B"
        BY <2>1, NVAssumption DEF SlotIds, Pages
      <3>d. /\ \A p \in Pages, i \in SlotIds :
                 Scanned(p, i) <=> (p = q /\ i < s) \/ (p = "A" /\ q = "B")
            /\ \A p \in Pages, i \in SlotIds :
                 Scanned(p, i)' <=> \/ pc' = "pick"
                                    \/ pc' = "scan" /\ p = q2 /\ i < s2
                                    \/ pc' = "scan" /\ p = "A" /\ q2 = "B"
        BY <2>1 DEF Scanned
      <3> HIDE DEF q, s, q2, s2
      <3>1. CASE s < Slots
        <4>1. q2 = q /\ s2 = s + 1 /\ pc' = "scan"
          BY <2>2, <3>0, <3>1 DEF q2, s2
        <4> QED
          BY <4>1, <3>0, <3>d
      <3>2. CASE s = Slots /\ q = "A"
        <4>1. q2 = "B" /\ s2 = 1 /\ pc' = "scan"
          BY <2>2, <3>0, <3>2 DEF q2, s2
        <4> QED
          BY <4>1, <3>0, <3>2, <3>d
      <3>3. CASE s = Slots /\ q = "B"
        <4>1. pc' = "pick"
          BY <2>2, <3>0, <3>3
        <4> QED
          BY <4>1, <3>0, <3>3, <3>d
      <3> QED
        BY <2>1, <3>0, <3>1, <3>2, <3>3
    <2>4. \A p \in Pages : best'[p] = IF take /\ p = q THEN [slot |-> s, seq |-> c.seq]
                                                      ELSE best[p]
      BY <2>1, <2>2
    <2>5. ASSUME NEW p \in Pages, NEW i \in SlotIds, Scanned(p, i)', flash[p][i].st = "valid"
          PROVE  best'[p].slot # 0
      BY <2>1, <2>3, <2>4, <2>5 DEF ScanInv
    <2>6. ASSUME NEW p \in Pages, best'[p].slot # 0
          PROVE  /\ flash[p][best'[p].slot].st = "valid"
                 /\ flash[p][best'[p].slot].seq = best'[p].seq
      BY <2>1, <2>4, <2>6 DEF ScanInv
    <2>7. ASSUME NEW p \in Pages, NEW k \in SlotIds, Ordered(flash, p, k), Scanned(p, k)'
          PROVE  best'[p].slot = k
      <3>0. flash[p][k].st = "valid"
        BY <2>7 DEF Ordered
      <3>1. CASE p = q /\ k = s
        <4>1. CASE best[q].slot = 0
          BY <2>4, <3>0, <3>1, <4>1
        <4>2. CASE best[q].slot # 0 /\ best[q].slot # s
          <5>1. /\ flash[q][best[q].slot].st = "valid" /\ best[q].slot \in SlotIds
                /\ flash[q][best[q].slot].seq = best[q].seq
            BY <2>1, <4>2 DEF ScanInv, SlotIds, SlotIds0
          <5>2. sequenceIsNewer(c.seq, best[q].seq)
            BY <1>0, <2>1, <2>7, <3>1, <4>2, <5>1, OrderedNewer
          <5> QED
            BY <2>4, <3>0, <3>1, <5>2
        <4>3. CASE best[q].slot = s
          BY <2>4, <3>1, <4>3
        <4> QED
          BY <4>1, <4>2, <4>3
      <3>2. CASE ~(p = q /\ k = s)
        <4>1. Scanned(p, k)
          BY <2>3, <2>7, <3>2
        <4>2. best[p].slot = k
          BY <2>7, <4>1 DEF ScanInv
        <4>3. CASE p = q /\ take
          <5>1. k # 0 /\ sequenceIsNewer(c.seq, best[q].seq)
            BY <4>2, <4>3, NVAssumption DEF SlotIds
          <5>2. flash[q][k].seq = best[q].seq
            BY <2>1, <4>2, <4>3, <5>1 DEF ScanInv
          <5>3. ~sequenceIsNewer(c.seq, flash[q][k].seq)
            BY <1>0, <2>1, <2>7, <3>2, <4>3, OrderedNewer
          <5> QED
            BY <5>1, <5>2, <5>3
        <4> QED
          BY <2>4, <4>2, <4>3
      <3> QED
        BY <3>1, <3>2
    <2> QED
      BY <2>1, <2>5, <2>6, <2>7 DEF ScanInv
  <1>3. CASE InitUnlock
    <2>1. NoRecords(flash)
      BY <1>3 DEF InitUnlock, ScanInv, Scanned, NoRecords
    <2> QED
      BY <1>3, <2>1 DEF InitUnlock, ScanInv, Scanned, locals
  <1>4. CASE InitErase
    <2>1. InitErasing \in Pages /\ NoRecords(flash)
      BY <1>4 DEF InitErase, InitErasing, ScanInv, Pages
    <2>2. Harmless(flash, flash')
      BY <1>4, <2>1, EraseHarmless, ErasedIsHalfErased DEF InitErase
    <2>3. NoRecords(flash')
      BY <2>1, <2>2, NoRecordsKept DEF Harmless
    <2> QED
      BY <1>4, <2>3 DEF InitErase, ScanInv, Scanned
  <1>5. CASE Load \/ SaveRefused \/ InitPick \/ InitUnlockFails \/ InitEraseFails \/ InitLock
             \/ InitLockFails \/ SaveUnlock \/ SaveUnlockFails \/ SaveErase \/ SaveEraseFails
             \/ SaveHeader \/ SaveHeaderFails \/ SavePayload \/ SavePayloadFails
             \/ SaveTail \/ SaveTailFails \/ SaveTailFailsLate \/ SaveLock \/ SaveLockFails
             \/ PowerLoss \/ \E v \in Values : SaveCall(v)
    <2>1. pc' \in {"idle", "saveUnlock", "saveErase", "saveHeader", "savePayload", "saveTail",
                  "saveLock"}
      BY <1>5 DEF Load, SaveRefused, InitPick, InitUnlockFails, InitEraseFails, InitLock,
                  InitLockFails, SaveUnlock, SaveUnlockFails, SaveErase, SaveEraseFails,
                  SaveHeader, SaveHeaderFails, SavePayload, SavePayloadFails, SaveTail,
                  SaveTailFails, SaveTailFailsLate, SaveLock, SaveLockFails, PowerLoss,
                  SaveCall, Return
    <2> QED
      BY <2>1, <1>q
  <1>6. CASE UNCHANGED vars
    BY <1>6 DEF ScanInv, Scanned, vars, locals
  <1> QED
    BY <1>1, <1>2, <1>3, <1>4, <1>5, <1>6 DEF Next, Calls, Work, Faults

\* Every step keeps the slot being written behind the records.
LEMMA WriteStep ==
    ASSUME SafeInv, TypeOK', [Next]_vars
    PROVE  WriteInv'
  <1> USE DEF SafeInv
  <1>0. flash \in FlashType
    BY DEF TypeOK, FlashType
  <1>q. ASSUME pc' \notin {"saveUnlock", "saveErase", "saveHeader", "savePayload", "saveTail",
                          "saveLock"}
        PROVE  WriteInv'
    BY <1>q DEF WriteInv
  <1>1. ASSUME NEW v \in Values, SaveCall(v) PROVE WriteInv'
    BY <1>1, FindEmptySlot DEF SaveCall, WriteInv, ram
  <1>2. CASE SaveUnlock
    <2>1. UNCHANGED <<flash, ram, locals>> /\ pc = "saveUnlock"
      BY <1>2 DEF SaveUnlock
    <2>2. CASE write_slot = 0
      BY <1>2, <2>1, <2>2 DEF SaveUnlock, WriteInv, ram, locals
    <2>3. CASE write_slot # 0
      <3>1. /\ target_page = active_page /\ target_page \in Pages /\ write_slot \in SlotIds
            /\ FirstErased(flash[target_page], write_slot) /\ active_page # "none"
        BY <2>1, <2>3 DEF WriteInv, TypeOK, SlotIds, SlotIds0, Pages
      <3>3. TargetCell.st # "valid"
        BY <3>1 DEF TargetCell, FirstErased
      <3>4. pc' = "saveHeader"
        BY <1>2, <2>3 DEF SaveUnlock
      <3> QED
        BY <2>1, <2>3, <3>1, <3>3, <3>4
           DEF WriteInv, ram, locals, FirstErased, TargetCell
    <2> QED
      BY <2>2, <2>3
  <1>3. CASE SaveErase
    <2>1. /\ active_page \in Pages /\ otherPage(active_page) \in Pages
          /\ otherPage(active_page) # active_page
      BY <1>3 DEF SaveErase, WriteInv, otherPage, Pages
    <2>2. flash'[otherPage(active_page)] = [i \in SlotIds |-> Erased]
      BY <1>3, <1>0, <2>1 DEF SaveErase, FlashType
    <2>3. write_slot' = 1 /\ target_page' = otherPage(active_page) /\ pc' = "saveHeader"
      BY <1>3, <2>2, EmptyPage DEF SaveErase
    <2>4. \A i \in SlotIds : flash'[target_page'][i].st # "valid"
      BY <2>2, <2>3 DEF Erased
    <2>5. TargetCell'.st # "valid" /\ \A j \in 1 .. write_slot' - 1 : FALSE
      BY <2>3, <2>4, Cells DEF TargetCell
    <2>6. UNCHANGED <<active_page, last_addr, payload>> /\ payload \in Values
      BY <1>3 DEF SaveErase, ram, WriteInv
    <2> QED
      BY <2>1, <2>3, <2>4, <2>5, <2>6 DEF WriteInv
  <1>4. CASE SaveHeader
    <2>1. target_page \in Pages /\ write_slot \in SlotIds
      BY <1>4, WriteTarget DEF SaveHeader
    <2>2. \A p \in Pages, i \in SlotIds :
             flash'[p][i] = IF p = target_page /\ i = write_slot THEN Junk ELSE flash[p][i]
      BY <1>4, <1>0, <2>1 DEF SaveHeader, Write, FlashType
    <2>3. UNCHANGED <<ram, locals>> /\ pc = "saveHeader" /\ pc' = "savePayload"
      BY <1>4 DEF SaveHeader
    <2>4. TargetCell'.st # "valid"
      BY <2>1, <2>2, <2>3 DEF TargetCell, Junk, locals
    <2>5. \A j \in 1 .. write_slot - 1 : j \in SlotIds /\ j # write_slot
      BY <2>1, NVAssumption DEF SlotIds
    <2>6. \A j \in 1 .. write_slot - 1 : flash'[target_page][j].st # "erased"
      BY <2>1, <2>2, <2>3, <2>5 DEF WriteInv
    <2>7. target_page # active_page => \A i \in SlotIds : flash'[target_page][i].st # "valid"
      BY <2>1, <2>2, <2>3 DEF WriteInv, Junk
    <2> QED
      BY <2>3, <2>4, <2>6, <2>7 DEF WriteInv, ram, locals
  <1>5. CASE SavePayload
    BY <1>5 DEF SavePayload, WriteInv, ram, locals, TargetCell
  <1>6. CASE SaveTail
    BY <1>6 DEF SaveTail, WriteInv, ram, locals
  <1>7. CASE InitCall \/ Load \/ SaveRefused \/ ScanSlot \/ InitPick \/ InitUnlock
             \/ InitUnlockFails \/ InitErase \/ InitEraseFails \/ InitLock \/ InitLockFails
             \/ SaveUnlockFails \/ SaveEraseFails \/ SaveHeaderFails \/ SavePayloadFails
             \/ SaveTailFails \/ SaveTailFailsLate \/ SaveLock \/ SaveLockFails \/ PowerLoss
    <2>1. pc' \in {"idle", "scan", "pick", "initEraseA", "initEraseB", "initLock"}
      BY <1>7 DEF InitCall, Load, SaveRefused, ScanSlot, InitPick, InitUnlock, InitUnlockFails,
                  InitErase, InitEraseFails, InitLock, InitLockFails, SaveUnlockFails,
                  SaveEraseFails, SaveHeaderFails, SavePayloadFails, SaveTailFails,
                  SaveTailFailsLate, SaveLock, SaveLockFails, PowerLoss, Return
    <2> QED
      BY <2>1, <1>q
  <1>8. CASE UNCHANGED vars
    BY <1>8 DEF WriteInv, vars, ram, locals, TargetCell
  <1> QED
    BY <1>1, <1>2, <1>3, <1>4, <1>5, <1>6, <1>7, <1>8 DEF Next, Calls, Work, Faults

\* Every step keeps the record NV_Load reads.
LEMMA RamStep ==
    ASSUME SafeInv, TypeOK', [Next]_vars
    PROVE  RamInv'
  <1> USE DEF SafeInv
  <1>0. flash \in FlashType
    BY DEF TypeOK, FlashType
  \* The record NV_Load reads stays where it is.
  <1>r. UNCHANGED ram => LastIsValid'
    <2> SUFFICES ASSUME UNCHANGED ram, last_addr # NoAddr
                 PROVE  /\ active_page = last_addr[1]
                        /\ flash'[last_addr[1]][last_addr[2]].st = "valid"
                        /\ flash'[last_addr[1]][last_addr[2]].seq = last_seq
      BY DEF LastIsValid, CellAt, ram
    <2>1. PICK p \in Pages, i \in SlotIds : last_addr = <<p, i>>
      BY DEF TypeOK, Addrs
    <2>2. active_page = p /\ flash[p][i].st = "valid" /\ flash[p][i].seq = last_seq
      BY <2>1 DEF RamInv, LastIsValid, CellAt
    <2>3. flash'[p][i] = flash[p][i]
      BY <2>2, CellStep
    <2> QED
      BY <2>1, <2>2, <2>3
  <1>1. CASE InitCall \/ Load \/ SaveRefused \/ ScanSlot \/ InitUnlock \/ InitUnlockFails
             \/ InitErase \/ InitEraseFails \/ InitLockFails \/ SaveUnlock \/ SaveUnlockFails
             \/ SaveErase \/ SaveEraseFails \/ SaveHeader \/ SaveHeaderFails \/ SavePayload
             \/ SavePayloadFails \/ SaveTailFails \/ SaveTailFailsLate \/ SaveLockFails
             \/ \E v \in Values : SaveCall(v)
    <2>1. UNCHANGED ram /\ pc' # "saveLock"
      BY <1>1 DEF InitCall, Load, SaveRefused, ScanSlot, InitUnlock, InitUnlockFails, InitErase,
                  InitEraseFails, InitLockFails, SaveUnlock, SaveUnlockFails, SaveErase,
                  SaveEraseFails, SaveHeader, SaveHeaderFails, SavePayload, SavePayloadFails,
                  SaveTailFails, SaveTailFailsLate, SaveLockFails, SaveCall, Return
    <2> QED
      BY <1>r, <2>1 DEF RamInv, ram
  <1>2. CASE InitPick
    <2>1. Picked \in Pages /\ best[Picked].slot # 0
      BY <1>2 DEF InitPick, Picked, Pages
    <2>2. /\ flash[Picked][best[Picked].slot].st = "valid"
          /\ flash[Picked][best[Picked].slot].seq = best[Picked].seq
      BY <1>2, <2>1 DEF InitPick, ScanInv
    <2>3. /\ active_page' = Picked /\ last_addr' = <<Picked, best[Picked].slot>>
          /\ last_seq' = best[Picked].seq /\ flash' = flash /\ pc' = "idle"
      BY <1>2 DEF InitPick, Return
    <2> QED
      BY <2>1, <2>2, <2>3 DEF RamInv, LastIsValid, CellAt, Pages
  <1>3. CASE InitLock
    BY <1>3 DEF InitLock, Return, RamInv, LastIsValid
  <1>4. CASE SaveTail
    <2>1. target_page \in Pages /\ write_slot \in SlotIds
      BY <1>4, WriteTarget DEF SaveTail
    <2>2. flash'[target_page][write_slot] = NewRecord
      BY <1>4, <1>0, <2>1 DEF SaveTail, Write, FlashType
    <2>3. UNCHANGED <<ram, locals>>
      BY <1>4 DEF SaveTail
    <2> QED
      BY <1>r, <2>2, <2>3 DEF RamInv, ram, locals, NewRecord
  <1>5. CASE SaveLock
    <2>1. flash[target_page][write_slot] = NewRecord /\ target_page \in Pages
      BY <1>5, WriteTarget DEF SaveLock, RamInv
    <2>2. /\ active_page' = target_page /\ last_addr' = <<target_page, write_slot>>
          /\ last_seq' = NextSeq(last_seq) /\ flash' = flash /\ pc' = "idle"
      BY <1>5 DEF SaveLock, Return
    <2> QED
      BY <2>1, <2>2 DEF RamInv, LastIsValid, CellAt, NewRecord, Record, Pages
  <1>6. CASE PowerLoss
    BY <1>6 DEF PowerLoss, RamInv, LastIsValid
  <1>7. CASE UNCHANGED vars
    BY <1>7 DEF vars, ram, locals, RamInv, LastIsValid, CellAt, NewRecord
  <1> QED
    BY <1>1, <1>2, <1>3, <1>4, <1>5, <1>6, <1>7 DEF Next, Calls, Work, Faults

\* The initial states are safe, and hold no records.
LEMMA InitSafe == Init => SafeInv /\ NoRecords(flash)
  <1> SUFFICES ASSUME Init PROVE SafeInv /\ NoRecords(flash)
    OBVIOUS
  <1>1. flash \in FlashType /\ NoRecords(flash)
    BY Cells DEF Init, FlashType, NoRecords, Erased, Junk
  <1>2. TypeOK
    BY <1>1, Cells DEF Init, TypeOK, FlashType, Addrs, PCs, NoRet, Pages
  <1>3. RamInv /\ ScanInv /\ WriteInv
    BY <1>1 DEF Init, RamInv, LastIsValid, ScanInv, Scanned, WriteInv, NoBest
  <1> QED
    BY <1>1, <1>2, <1>3 DEF SafeInv

\* Every reachable state is safe, whatever may fail after the commit: types,
\* the record RAM points to, what the scans know, the slot being written.
THEOREM Safety == Spec => []SafeInv
  <1>1. SafeInv /\ [Next]_vars => SafeInv'
    <2> SUFFICES ASSUME SafeInv, [Next]_vars PROVE SafeInv'
      OBVIOUS
    <2>1. TypeOK'
      BY TypeStep DEF SafeInv
    <2> QED
      BY <2>1, RamStep, ScanStep, WriteStep DEF SafeInv
  <1> QED
    BY <1>1, InitSafe, PTL DEF Spec

\* NV_Load never reads from an erased page or a torn record, nor a record
\* with another number than last_seq, whatever failed and when.
THEOREM NoDanglingRecord == Spec => []LastIsValid
  <1>1. SafeInv => LastIsValid
    BY DEF SafeInv, RamInv
  <1> QED
    BY <1>1, Safety, PTL

\* Once a record has been acknowledged or found there is always a valid one,
\* through every page change, failure, torn erase and power loss.
THEOREM RecordsSurvive == Spec => RecordSurvives
  <1>1. ASSUME SafeInv, [Next]_vars,
               ValidAddrs # {}, last_addr # NoAddr \/ active_page = "none"
        PROVE  ValidAddrs' # {}
    <2>1. PICK p \in Pages, i \in SlotIds :
             flash[p][i].st = "valid" /\ active_page \in {"none", p}
      <3>1. CASE last_addr # NoAddr
        <4>1. PICK p \in Pages, i \in SlotIds : last_addr = <<p, i>>
          BY <1>1, <3>1 DEF SafeInv, TypeOK, Addrs
        <4>2. active_page = p /\ flash[p][i].st = "valid"
          BY <1>1, <3>1, <4>1 DEF SafeInv, RamInv, LastIsValid, CellAt
        <4> QED
          BY <4>2
      <3>2. CASE active_page = "none"
        <4>1. PICK a \in Addrs : flash[a[1]][a[2]].st = "valid"
          BY <1>1 DEF ValidAddrs, ValidIn
        <4>2. a[1] \in Pages /\ a[2] \in SlotIds
          BY DEF Addrs
        <4> QED
          BY <3>2, <4>1, <4>2
      <3> QED
        BY <1>1, <3>1, <3>2
    <2>2. flash'[p][i].st = "valid"
      BY <1>1, <2>1, CellStep
    <2>3. <<p, i>> \in ValidAddrs'
      BY <2>2 DEF ValidAddrs, ValidIn, Addrs
    <2> QED
      BY <2>3
  <1>2. SafeInv /\ [Next]_vars =>
           (ValidAddrs # {} /\ (last_addr # NoAddr \/ active_page = "none") => ValidAddrs' # {})
    BY <1>1
  <1> QED
    BY <1>2, Safety, PTL DEF Spec, RecordSurvives

-----------------------------------------------------------------------------
(* The numbers, as long as they can be compared                            *)

\* Two numbers less than half a turn ahead of a third are not half a turn
\* apart, and the one further ahead is the newer one.
LEMMA Window ==
    ASSUME NEW k \in SeqNums, NEW m \in SeqNums, NEW n \in SeqNums,
           Ahead(m, k) < HalfSeq, Ahead(n, k) < HalfSeq
    PROVE  /\ Ahead(m, n) # HalfSeq
           /\ sequenceIsNewer(m, n) <=> Ahead(m, k) > Ahead(n, k)
           /\ Ahead(m, k) \in Nat /\ Ahead(n, k) \in Nat
  BY NVAssumption DEF sequenceIsNewer, Ahead, SeqNums, SeqMod

\* Being newer is transitive there.
LEMMA WindowOrder ==
    ASSUME NEW k \in SeqNums, NEW l \in SeqNums, NEW m \in SeqNums, NEW n \in SeqNums,
           Ahead(l, k) < HalfSeq, Ahead(m, k) < HalfSeq, Ahead(n, k) < HalfSeq,
           ~sequenceIsNewer(l, m), ~sequenceIsNewer(m, n)
    PROVE  ~sequenceIsNewer(l, n)
  <1>1. Ahead(l, k) \in Nat /\ Ahead(m, k) \in Nat /\ Ahead(n, k) \in Nat
    BY Window
  <1>2. ~(Ahead(l, k) > Ahead(m, k)) /\ ~(Ahead(m, k) > Ahead(n, k))
    BY Window
  <1>3. ~(Ahead(l, k) > Ahead(n, k))
    BY <1>1, <1>2
  <1> QED
    BY <1>3, Window

\* A newer number is not an older one.
LEMMA WindowNewer ==
    ASSUME NEW k \in SeqNums, NEW m \in SeqNums, NEW n \in SeqNums,
           Ahead(m, k) < HalfSeq, Ahead(n, k) < HalfSeq, sequenceIsNewer(m, n)
    PROVE  ~sequenceIsNewer(n, m)
  <1>1. Ahead(m, k) > Ahead(n, k) /\ Ahead(m, k) \in Nat /\ Ahead(n, k) \in Nat
    BY Window
  <1> QED
    BY <1>1, Window

\* Taking the next number brings every other one a step closer, or a whole
\* turn away.
LEMMA AheadOfNext ==
    ASSUME NEW n \in SeqNums, NEW m \in SeqNums
    PROVE  Ahead(m, NextSeq(n)) = IF Ahead(m, n) = 0 THEN SeqMod - 1 ELSE Ahead(m, n) - 1
  BY NVAssumption DEF Ahead, NextSeq, SeqNums, SeqMod

\* What Comparable says of the slots.
LEMMA ComparableSlots ==
    ASSUME TypeOK, Comparable
    PROVE  \E k \in SeqNums : \A p \in Pages, i \in SlotIds :
              flash[p][i].st = "valid" =>
                  flash[p][i].seq \in SeqNums /\ Ahead(flash[p][i].seq, k) < HalfSeq
  <1>1. PICK k \in SeqNums : \A a \in ValidAddrs : Ahead(CellAt(a).seq, k) < HalfSeq
    BY DEF Comparable
  <1>2. ASSUME NEW p \in Pages, NEW i \in SlotIds, flash[p][i].st = "valid"
        PROVE  flash[p][i].seq \in SeqNums /\ Ahead(flash[p][i].seq, k) < HalfSeq
    <2>1. <<p, i>> \in ValidAddrs
      BY <1>2 DEF ValidAddrs, ValidIn, Addrs
    <2>2. Ahead(CellAt(<<p, i>>).seq, k) < HalfSeq
      BY <1>1, <2>1
    <2>3. flash[p][i] \in Cell
      BY DEF TypeOK
    <2> QED
      BY <2>2, <2>3 DEF CellAt, Cell
  <1> QED
    BY <1>2

\* One more slot scanned: the candidate is still not outranked.
LEMMA BestStep ==
    ASSUME RankInv, TypeOK', [Next]_vars
    PROVE  BestInv'
  <1> USE DEF RankInv, SafeInv
  <1>1. CASE ScanSlot
    <2> SUFFICES ASSUME Comparable', NEW p \in Pages, NEW i \in SlotIds,
                        Scanned(p, i)', flash'[p][i].st = "valid"
                 PROVE  ~sequenceIsNewer(flash'[p][i].seq, best'[p].seq)
      BY DEF BestInv
    <2> DEFINE q == scan[1]
               s == scan[2]
               c == flash[q][s]
               take == c.st = "valid" /\ (best[q].slot = 0 \/ sequenceIsNewer(c.seq, best[q].seq))
    <2>0. flash' = flash /\ Comparable /\ pc = "scan"
      BY <1>1 DEF ScanSlot, Comparable, ValidAddrs, CellAt
    <2>1. /\ q \in Pages /\ s \in SlotIds /\ s \in 1 .. Slots /\ Slots \in Nat
          /\ best \in [Pages -> [slot: SlotIds0, seq: SeqNums]]
      BY NVAssumption DEF TypeOK, Addrs, SlotIds
    <2>2. /\ best' = IF take THEN [best EXCEPT ![q] = [slot |-> s, seq |-> c.seq]] ELSE best
          /\ scan' = IF s < Slots THEN <<q, s + 1>> ELSE <<"B", 1>>
          /\ pc' = IF s = Slots /\ q = "B" THEN "pick" ELSE "scan"
      BY <1>1 DEF ScanSlot
    <2>3. best'[p].seq = IF take /\ p = q THEN c.seq ELSE best[p].seq
      BY <2>1, <2>2
    <2>4. Scanned(p, i) \/ (p = q /\ i = s)
      <3> DEFINE q2 == scan'[1]
                 s2 == scan'[2]
      <3>1. i \in 1 .. Slots /\ (p = "A" \/ p = "B") /\ (q = "A" \/ q = "B")
        BY <2>1 DEF SlotIds, Pages
      <3>2. /\ Scanned(p, i) <=> (p = q /\ i < s) \/ (p = "A" /\ q = "B")
            /\ \/ pc' = "pick"
               \/ pc' = "scan" /\ p = q2 /\ i < s2
               \/ pc' = "scan" /\ p = "A" /\ q2 = "B"
        BY <2>0 DEF Scanned
      <3> HIDE DEF q, s, q2, s2
      <3>3. CASE s < Slots
        <4>1. q2 = q /\ s2 = s + 1 /\ pc' = "scan"
          BY <2>1, <2>2, <3>3 DEF q2, s2
        <4> QED
          BY <4>1, <2>1, <3>1, <3>2
      <3>4. CASE s = Slots /\ q = "A"
        <4>1. q2 = "B" /\ s2 = 1 /\ pc' = "scan"
          BY <2>1, <2>2, <3>4 DEF q2, s2
        <4> QED
          BY <4>1, <2>1, <3>1, <3>2, <3>4
      <3>5. CASE s = Slots /\ q = "B"
        BY <2>1, <3>1, <3>2, <3>5
      <3> QED
        BY <2>1, <3>1, <3>3, <3>4, <3>5
    <2>5. PICK k \in SeqNums : \A b \in Pages, j \in SlotIds :
             flash[b][j].st = "valid" =>
                 flash[b][j].seq \in SeqNums /\ Ahead(flash[b][j].seq, k) < HalfSeq
      BY <2>0, ComparableSlots
    <2>6. flash[p][i].st = "valid"
      BY <2>0
    \* A slot seen before does not outrank the old candidate.
    <2>7. ASSUME Scanned(p, i)
          PROVE  /\ ~sequenceIsNewer(flash[p][i].seq, best[p].seq)
                 /\ best[p].seq \in SeqNums /\ Ahead(best[p].seq, k) < HalfSeq
      <3>1. best[p].slot # 0 /\ best[p].slot \in SlotIds
        BY <2>1, <2>6, <2>7 DEF ScanInv, SlotIds, SlotIds0
      <3>2. flash[p][best[p].slot].st = "valid" /\ flash[p][best[p].slot].seq = best[p].seq
        BY <2>0, <3>1 DEF ScanInv
      <3> QED
        BY <2>0, <2>5, <2>6, <2>7, <3>1, <3>2 DEF BestInv
    <2>8. CASE take /\ p = q /\ i = s
      <3>1. best'[p].seq = flash[p][i].seq
        BY <2>3, <2>8
      <3>2. flash[p][i].seq \in SeqNums
        BY <2>5, <2>6
      <3> QED
        BY <2>0, <3>1, <3>2, AheadSelf DEF sequenceIsNewer
    <2>9. CASE take /\ p = q /\ i # s
      <3>1. Scanned(p, i)
        BY <2>4, <2>9
      <3>2. best[p].slot # 0
        BY <2>6, <3>1 DEF ScanInv
      <3>3. /\ sequenceIsNewer(c.seq, best[p].seq) /\ c.st = "valid"
            /\ c.seq \in SeqNums /\ Ahead(c.seq, k) < HalfSeq
        BY <2>1, <2>5, <2>9, <3>2
      <3>4. ~sequenceIsNewer(best[p].seq, c.seq)
        BY <2>7, <3>1, <3>3, WindowNewer
      <3>5. flash[p][i].seq \in SeqNums /\ Ahead(flash[p][i].seq, k) < HalfSeq
        BY <2>5, <2>6
      <3>6. ~sequenceIsNewer(flash[p][i].seq, c.seq)
        BY <2>7, <3>1, <3>3, <3>4, <3>5, WindowOrder
      <3>7. best'[p].seq = c.seq
        BY <2>3, <2>9
      <3> QED
        BY <2>0, <3>6, <3>7
    <2>10. CASE ~(take /\ p = q)
      <3>1. best'[p].seq = best[p].seq
        BY <2>3, <2>10
      <3>2. CASE Scanned(p, i)
        BY <2>0, <2>7, <3>1, <3>2
      <3>3. CASE p = q /\ i = s
        BY <2>0, <2>6, <2>10, <3>1, <3>3
      <3> QED
        BY <2>4, <3>2, <3>3
    <2> QED
      BY <2>8, <2>9, <2>10
  <1>2. CASE InitCall
    <2>1. scan' = <<"A", 1>> /\ pc' = "scan"
      BY <1>2 DEF InitCall
    <2>2. \A p \in Pages, i \in SlotIds : ~Scanned(p, i)'
      BY <2>1 DEF Scanned, SlotIds
    <2> QED
      BY <2>2 DEF BestInv
  <1>3. CASE Load \/ SaveRefused \/ InitPick \/ InitUnlock \/ InitUnlockFails \/ InitErase
             \/ InitEraseFails \/ InitLock \/ InitLockFails \/ SaveUnlock \/ SaveUnlockFails
             \/ SaveErase \/ SaveEraseFails \/ SaveHeader \/ SaveHeaderFails \/ SavePayload
             \/ SavePayloadFails \/ SaveTail \/ SaveTailFails \/ SaveTailFailsLate \/ SaveLock
             \/ SaveLockFails \/ PowerLoss \/ \E v \in Values : SaveCall(v)
    <2>1. pc' \notin {"scan", "pick"}
      BY <1>3 DEF Load, SaveRefused, InitPick, InitUnlock, InitUnlockFails, InitErase,
                  InitEraseFails, InitLock, InitLockFails, SaveUnlock, SaveUnlockFails,
                  SaveErase, SaveEraseFails, SaveHeader, SaveHeaderFails, SavePayload,
                  SavePayloadFails, SaveTail, SaveTailFails, SaveTailFailsLate, SaveLock,
                  SaveLockFails, PowerLoss, SaveCall, Return
    <2> QED
      BY <2>1 DEF BestInv
  <1>4. CASE UNCHANGED vars
    BY <1>4 DEF BestInv, Comparable, ValidAddrs, CellAt, Scanned, vars, locals
  <1> QED
    BY <1>1, <1>2, <1>3, <1>4 DEF Next, Calls, Work, Faults

\* Every reachable state satisfies RankInv.
THEOREM Ranking == Spec => []RankInv
  <1>1. Init => RankInv
    BY InitSafe DEF Init, RankInv, BestInv
  <1>2. RankInv /\ SafeInv' /\ [Next]_vars => RankInv'
    <2>1. SafeInv' => TypeOK'
      BY DEF SafeInv
    <2> QED
      BY <2>1, BestStep DEF RankInv
  <1> QED
    BY <1>1, <1>2, Safety, PTL DEF Spec

\* The record NV_Init settles on is not outranked.
LEMMA PickedLast ==
    ASSUME RankInv, Comparable, pc = "pick", \E p \in Pages : best[p].slot # 0,
           NEW p \in Pages, NEW i \in SlotIds, flash[p][i].st = "valid"
    PROVE  ~sequenceIsNewer(flash[p][i].seq, best[Picked].seq)
  <1> USE DEF RankInv, SafeInv
  <1>1. PICK k \in SeqNums : \A b \in Pages, j \in SlotIds :
           flash[b][j].st = "valid" =>
               flash[b][j].seq \in SeqNums /\ Ahead(flash[b][j].seq, k) < HalfSeq
    BY ComparableSlots
  <1>2. best \in [Pages -> [slot: SlotIds0, seq: SeqNums]]
    BY DEF TypeOK
  <1>3. \A b \in Pages : best[b].slot # 0 =>
           best[b].seq \in SeqNums /\ Ahead(best[b].seq, k) < HalfSeq
    <2> SUFFICES ASSUME NEW b \in Pages, best[b].slot # 0
                 PROVE  best[b].seq \in SeqNums /\ Ahead(best[b].seq, k) < HalfSeq
      OBVIOUS
    <2>1. best[b].slot \in SlotIds
      BY <1>2 DEF SlotIds, SlotIds0
    <2>2. flash[b][best[b].slot].st = "valid" /\ flash[b][best[b].slot].seq = best[b].seq
      BY DEF ScanInv
    <2> QED
      BY <1>1, <2>1, <2>2
  <1>4. best[p].slot # 0 /\ ~sequenceIsNewer(flash[p][i].seq, best[p].seq)
    BY DEF ScanInv, BestInv, Scanned
  <1>5. /\ "A" \in Pages /\ "B" \in Pages /\ (p = "A" \/ p = "B")
        /\ flash[p][i].seq \in SeqNums /\ Ahead(flash[p][i].seq, k) < HalfSeq
    BY <1>1 DEF Pages
  <1>6. CASE Picked = p
    BY <1>4, <1>6
  <1>7. CASE Picked # p
    <2>1. /\ Picked \in Pages /\ best[Picked].slot # 0
          /\ ~sequenceIsNewer(best[p].seq, best[Picked].seq)
      <3>1. CASE p = "A"
        <4>1. best["B"].slot # 0 /\ sequenceIsNewer(best["B"].seq, best["A"].seq) /\ Picked = "B"
          BY <1>4, <1>7, <3>1 DEF Picked
        <4> QED
          BY <1>3, <1>4, <1>5, <3>1, <4>1, WindowNewer
      <3>2. CASE p = "B"
        BY <1>4, <1>5, <1>7, <3>2 DEF Picked
      <3> QED
        BY <1>5, <3>1, <3>2
    <2> QED
      BY <1>3, <1>4, <1>5, <2>1, WindowOrder
  <1> QED
    BY <1>6, <1>7

\* NV_Init never settles on a record when a newer one is in the flash, as
\* long as the numbers can be compared.
THEOREM InitIsRight == Spec => InitTakesNewest
  <1>1. ASSUME RankInv, Next, pc = "pick", ret'.st = "NV_OK", Comparable
        PROVE  \A a \in ValidAddrs : ~sequenceIsNewer(CellAt(a).seq, last_seq')
    <2>0. SUFFICES ASSUME NEW p \in Pages, NEW i \in SlotIds, flash[p][i].st = "valid"
                   PROVE  ~sequenceIsNewer(flash[p][i].seq, last_seq')
      BY DEF ValidAddrs, ValidIn, Addrs, CellAt
    <2>1. best[p].slot # 0
      BY <1>1, <2>0 DEF RankInv, SafeInv, ScanInv, Scanned
    <2>2. InitPick
      <3>1. ~PowerLoss
        BY <1>1 DEF PowerLoss, NoRet
      <3>2. ~InitUnlock /\ ~InitUnlockFails
        BY <2>1 DEF InitUnlock, InitUnlockFails
      <3>3. ~Calls /\ ~(\/ ScanSlot \/ InitErase \/ InitLock \/ SaveUnlock \/ SaveErase
                        \/ SaveHeader \/ SavePayload \/ SaveTail \/ SaveLock)
        BY <1>1 DEF Calls, InitCall, Load, SaveRefused, SaveCall, ScanSlot, InitErase, InitLock,
                    SaveUnlock, SaveErase, SaveHeader, SavePayload, SaveTail, SaveLock
      <3>4. ~(\/ InitEraseFails \/ InitLockFails \/ SaveUnlockFails \/ SaveEraseFails
              \/ SaveHeaderFails \/ SavePayloadFails \/ SaveTailFails \/ SaveTailFailsLate
              \/ SaveLockFails)
        BY <1>1 DEF InitEraseFails, InitLockFails, SaveUnlockFails, SaveEraseFails,
                    SaveHeaderFails, SavePayloadFails, SaveTailFails, SaveTailFailsLate,
                    SaveLockFails
      <3> QED
        BY <1>1, <3>1, <3>2, <3>3, <3>4 DEF Next, Work, Faults
    <2>3. last_seq' = best[Picked].seq
      BY <2>2 DEF InitPick
    <2> QED
      BY <1>1, <2>0, <2>1, <2>3, PickedLast
  <1>2. RankInv /\ [Next]_vars =>
           [pc = "pick" /\ ret'.st = "NV_OK" /\ Comparable =>
               \A a \in ValidAddrs : ~sequenceIsNewer(CellAt(a).seq, last_seq')]_vars
    BY <1>1
  <1> QED
    BY <1>2, Ranking, PTL DEF Spec, InitTakesNewest

\* No step puts a record more than one number ahead of RAM, if the numbers
\* can be compared before and after it.
LEMMA AheadStep ==
    ASSUME RankInv, SafeInv', NearlyNewest, Comparable, Comparable', [Next]_vars
    PROVE  NearlyNewest'
  <1> USE DEF RankInv, SafeInv
  <1> DEFINE Near == {0, 1} \cup (HalfSeq + 1 .. SeqMod - 1)
  <1> SUFFICES ASSUME active_page' # "none", NEW p \in Pages, NEW i \in SlotIds,
                      flash'[p][i].st = "valid"
               PROVE  Ahead(flash'[p][i].seq, last_seq') \in Near
    BY DEF NearlyNewest, ValidAddrs, ValidIn, Addrs, CellAt
  <1>0. /\ last_seq \in SeqNums /\ last_seq' \in SeqNums /\ flash'[p][i].seq \in SeqNums
        /\ \A b \in Pages, j \in SlotIds : flash[b][j].seq \in SeqNums
    BY DEF TypeOK, Cell
  <1>a. \A m, n \in SeqNums : Ahead(m, n) \in 0 .. SeqMod - 1
    BY NVAssumption DEF Ahead, SeqNums, SeqMod
  <1>h. HalfSeq \in Nat /\ SeqMod = 2 * HalfSeq /\ HalfSeq > 2
    BY NVAssumption DEF SeqMod
  \* Between two records the distance is never half a turn.
  <1>n. ASSUME NEW b \in Pages, NEW j \in SlotIds, flash'[b][j].st = "valid"
        PROVE  Ahead(flash'[p][i].seq, flash'[b][j].seq) # HalfSeq
    <2>1. PICK k \in SeqNums : \A c \in Pages, l \in SlotIds :
             flash'[c][l].st = "valid" =>
                 flash'[c][l].seq \in SeqNums /\ Ahead(flash'[c][l].seq, k) < HalfSeq
      <3>1. PICK k \in SeqNums : \A a \in ValidAddrs' : Ahead(CellAt(a)'.seq, k) < HalfSeq
        BY DEF Comparable, CellAt
      <3>2. ASSUME NEW c \in Pages, NEW l \in SlotIds, flash'[c][l].st = "valid"
            PROVE  flash'[c][l].seq \in SeqNums /\ Ahead(flash'[c][l].seq, k) < HalfSeq
        <4>1. <<c, l>> \in ValidAddrs'
          BY <3>2 DEF ValidAddrs, ValidIn, Addrs
        <4>2. Ahead(flash'[c][l].seq, k) < HalfSeq
          BY <3>1, <4>1 DEF CellAt
        <4> QED
          BY <4>2 DEF TypeOK, Cell
      <3> QED
        BY <3>2
    <2> QED
      BY <1>n, <2>1, Window
  <1>1. ASSUME UNCHANGED ram PROVE Ahead(flash'[p][i].seq, last_seq') \in Near
    <2>1. active_page # "none" /\ last_seq' = last_seq
      BY <1>1 DEF ram
    <2>2. CASE flash'[p][i] = flash[p][i]
      <3>1. <<p, i>> \in ValidAddrs /\ CellAt(<<p, i>>) = flash[p][i]
        BY <2>2 DEF ValidAddrs, ValidIn, Addrs, CellAt
      <3> QED
        BY <2>1, <2>2, <3>1 DEF NearlyNewest
    <2>3. CASE flash'[p][i] = NewRecord
      <3>1. flash'[p][i].seq = NextSeq(last_seq)
        BY <2>3 DEF NewRecord, Record
      <3> QED
        BY <1>0, <2>1, <3>1, AheadSelf
    <2> QED
      BY <2>2, <2>3, CellStep
  <1>2. CASE InitCall \/ Load \/ SaveRefused \/ ScanSlot \/ InitUnlock \/ InitUnlockFails
             \/ InitErase \/ InitEraseFails \/ InitLockFails \/ SaveUnlock \/ SaveUnlockFails
             \/ SaveErase \/ SaveEraseFails \/ SaveHeader \/ SaveHeaderFails \/ SavePayload
             \/ SavePayloadFails \/ SaveTail \/ SaveTailFails \/ SaveTailFailsLate
             \/ SaveLockFails \/ UNCHANGED vars \/ \E v \in Values : SaveCall(v)
    <2>1. UNCHANGED ram
      BY <1>2 DEF InitCall, Load, SaveRefused, ScanSlot, InitUnlock, InitUnlockFails, InitErase,
                  InitEraseFails, InitLockFails, SaveUnlock, SaveUnlockFails, SaveErase,
                  SaveEraseFails, SaveHeader, SaveHeaderFails, SavePayload, SavePayloadFails,
                  SaveTail, SaveTailFails, SaveTailFailsLate, SaveLockFails, SaveCall, vars
    <2> QED
      BY <1>1, <2>1
  <1>3. CASE InitPick
    <2>1. flash' = flash /\ last_seq' = best[Picked].seq /\ pc = "pick"
          /\ \E b \in Pages : best[b].slot # 0
      BY <1>3 DEF InitPick
    <2>2. ~sequenceIsNewer(flash'[p][i].seq, last_seq')
      BY <2>1, PickedLast
    <2>3. Ahead(flash'[p][i].seq, last_seq') # HalfSeq
      <3>1. Picked \in Pages /\ best[Picked].slot # 0
        BY <2>1 DEF Picked, Pages
      <3>2. best[Picked].slot \in SlotIds
        BY <3>1 DEF TypeOK, SlotIds, SlotIds0
      <3>3. /\ flash[Picked][best[Picked].slot].st = "valid"
            /\ flash[Picked][best[Picked].slot].seq = best[Picked].seq
        BY <2>1, <3>1 DEF ScanInv
      <3> QED
        BY <1>n, <2>1, <3>1, <3>2, <3>3
    <2> QED
      BY <1>0, <1>a, <1>h, <2>2, <2>3 DEF sequenceIsNewer
  <1>4. CASE InitLock
    BY <1>4 DEF InitLock, ScanInv, NoRecords
  <1>5. CASE SaveLock
    <2>1. /\ flash' = flash /\ last_seq' = NextSeq(last_seq) /\ pc = "saveLock"
          /\ flash[target_page][write_slot] = NewRecord
          /\ target_page \in Pages /\ write_slot \in SlotIds /\ active_page \in Pages
      BY <1>5, WriteTarget DEF SaveLock, RamInv
    <2>2. Ahead(flash'[p][i].seq, NextSeq(last_seq)) # HalfSeq
      BY <1>n, <2>1 DEF NewRecord, Record
    <2>3. Ahead(flash[p][i].seq, last_seq) \in Near
      <3>1. <<p, i>> \in ValidAddrs /\ CellAt(<<p, i>>) = flash[p][i] /\ active_page # "none"
        BY <2>1 DEF ValidAddrs, ValidIn, Addrs, CellAt, Pages
      <3> QED
        BY <3>1 DEF NearlyNewest
    <2>4. Ahead(flash[p][i].seq, NextSeq(last_seq)) =
             IF Ahead(flash[p][i].seq, last_seq) = 0 THEN SeqMod - 1
             ELSE Ahead(flash[p][i].seq, last_seq) - 1
      BY <1>0, AheadOfNext
    <2> QED
      BY <1>0, <1>a, <1>h, <2>1, <2>2, <2>3, <2>4
  <1>6. CASE PowerLoss
    BY <1>6 DEF PowerLoss
  <1> QED
    BY <1>2, <1>3, <1>4, <1>5, <1>6 DEF Next, Calls, Work, Faults

\* The flash is never more than one number ahead of RAM, as long as the
\* numbers can be compared, whatever may fail after the commit.
THEOREM OneAhead == Spec => AtMostOneAhead
  <1>1. Init => NearlyNewest
    BY DEF Init, NearlyNewest
  <1>2. RankInv /\ SafeInv' /\ NearlyNewest /\ Comparable /\ Comparable' /\ [Next]_vars
           => NearlyNewest'
    BY AheadStep
  <1> QED
    BY <1>1, <1>2, Ranking, Safety, PTL DEF Spec, AtMostOneAhead

-----------------------------------------------------------------------------
(* Acknowledged payloads, for LateFaults = {}                              *)

\* The slot being written stays behind the records of its page.
LEMMA AppendStep ==
    ASSUME LateFaults = {}, IndInv, TypeOK', [Next]_vars
    PROVE  AppendInv'
  <1> USE DEF IndInv, SafeInv
  <1>1. CASE SaveUnlock
    <2>1. /\ UNCHANGED <<flash, ram, locals>> /\ pc = "saveUnlock"
          /\ pc' = IF write_slot = 0 THEN "saveErase" ELSE "saveHeader"
      BY <1>1 DEF SaveUnlock
    <2> SUFFICES ASSUME write_slot # 0, last_addr # NoAddr PROVE write_slot > last_addr[2]
      BY <2>1 DEF AppendInv, ram, locals
    <2>2. /\ write_slot \in SlotIds
          /\ FirstErased(flash[active_page], write_slot) /\ active_page # "none"
      BY <2>1 DEF WriteInv, TypeOK, SlotIds, SlotIds0, Pages
    <2>3. PICK a \in Pages, k \in SlotIds : last_addr = <<a, k>>
      BY DEF TypeOK, Addrs
    <2>4. a = active_page /\ Ordered(flash, a, k)
      BY <2>1, <2>2, <2>3 DEF StoreInv, RamInv, LastIsValid
    <2>5. write_slot # k /\ ~(write_slot \in 1 .. k - 1)
      BY <2>2, <2>4 DEF Ordered, FirstErased
    <2> QED
      BY <2>2, <2>3, <2>5, NVAssumption DEF SlotIds
  <1>2. CASE SaveErase
    <2>1. target_page' # active_page'
      BY <1>2 DEF SaveErase, WriteInv, otherPage, Pages, ram
    <2> QED
      BY <2>1 DEF AppendInv
  <1>3. CASE SaveHeader \/ SavePayload
    BY <1>3 DEF SaveHeader, SavePayload, AppendInv, ram, locals
  <1>4. CASE InitCall \/ Load \/ SaveRefused \/ ScanSlot \/ InitPick \/ InitUnlock
             \/ InitUnlockFails \/ InitErase \/ InitEraseFails \/ InitLock \/ InitLockFails
             \/ SaveUnlockFails \/ SaveEraseFails \/ SaveHeaderFails \/ SavePayloadFails
             \/ SaveTail \/ SaveTailFails \/ SaveTailFailsLate \/ SaveLock \/ SaveLockFails
             \/ PowerLoss \/ \E v \in Values : SaveCall(v)
    <2>1. pc' \notin {"saveHeader", "savePayload", "saveTail"}
      BY <1>4 DEF InitCall, Load, SaveRefused, ScanSlot, InitPick, InitUnlock, InitUnlockFails,
                  InitErase, InitEraseFails, InitLock, InitLockFails, SaveUnlockFails,
                  SaveEraseFails, SaveHeaderFails, SavePayloadFails, SaveTail, SaveTailFails,
                  SaveTailFailsLate, SaveLock, SaveLockFails, PowerLoss, SaveCall, Return
    <2> QED
      BY <2>1 DEF AppendInv
  <1>5. CASE UNCHANGED vars
    BY <1>5 DEF AppendInv, vars, ram, locals
  <1> QED
    BY <1>1, <1>2, <1>3, <1>4, <1>5 DEF Next, Calls, Work, Faults

\* NV_OK is returned only for the record RAM then points to.
LEMMA RetStep ==
    ASSUME LateFaults = {}, IndInv, TypeOK', [Next]_vars
    PROVE  RetInv'
  <1> USE DEF IndInv, SafeInv
  <1>1. CASE InitCall \/ Load \/ SaveRefused \/ InitPick \/ InitUnlockFails \/ InitEraseFails
             \/ InitLock \/ InitLockFails \/ SaveUnlockFails \/ SaveEraseFails
             \/ SaveHeaderFails \/ SavePayloadFails \/ SaveTailFails \/ SaveTailFailsLate
             \/ SaveLockFails \/ PowerLoss \/ \E v \in Values : SaveCall(v)
    <2>1. ret'.call # "save" \/ ret'.st # "NV_OK"
      BY <1>1 DEF InitCall, Load, SaveRefused, InitPick, InitUnlockFails, InitEraseFails,
                  InitLock, InitLockFails, SaveUnlockFails, SaveEraseFails, SaveHeaderFails,
                  SavePayloadFails, SaveTailFails, SaveTailFailsLate, SaveLockFails, PowerLoss,
                  SaveCall, Return, NoRet
    <2> QED
      BY <2>1 DEF RetInv
  <1>2. CASE ScanSlot \/ InitUnlock \/ InitErase \/ SaveUnlock \/ SaveErase \/ SaveHeader
             \/ SavePayload \/ SaveTail
    <2>1. ret' = ret /\ pc # "idle"
      BY <1>2 DEF ScanSlot, InitUnlock, InitErase, SaveUnlock, SaveErase, SaveHeader,
                  SavePayload, SaveTail
    <2> QED
      BY <2>1 DEF RetInv
  <1>3. CASE SaveLock
    <2>1. target_page \in Pages /\ write_slot \in SlotIds
      BY <1>3, WriteTarget DEF SaveLock
    <2>2. flash[target_page][write_slot].val = payload
      BY <1>3 DEF SaveLock, StoreInv, RamInv, LastIsValid, NewRecord, Record
    <2>3. /\ last_addr' = <<target_page, write_slot>> /\ flash' = flash /\ pc' = "idle"
          /\ ret'.val = payload /\ last_addr' # NoAddr
      BY <1>3, <2>1 DEF SaveLock, Return, NoAddr, Pages
    <2> QED
      BY <2>2, <2>3 DEF RetInv, Loaded
  <1>4. CASE UNCHANGED vars
    BY <1>4 DEF RetInv, vars, ram, Loaded
  <1> QED
    BY <1>1, <1>2, <1>3, <1>4 DEF Next, Calls, Work, Faults

\* The initial states satisfy the invariant.
LEMMA InitInd == Init => IndInv
  <1> SUFFICES ASSUME Init PROVE IndInv
    OBVIOUS
  <1>1. StoreInv /\ AppendInv /\ RetInv
    BY InitSafe DEF Init, SafeInv, StoreInv, AppendInv, RetInv, NoRet
  <1> QED
    BY <1>1, InitSafe DEF IndInv

\* If a failed commit never leaves a record, every reachable state satisfies
\* the inductive invariant: the newest record is the one RAM knows, on the
\* active page, behind everything else on it.
THEOREM Invariance ==
    ASSUME LateFaults = {}
    PROVE  Spec => []IndInv
  <1>1. IndInv /\ [Next]_vars => IndInv'
    <2> SUFFICES ASSUME IndInv, [Next]_vars PROVE IndInv'
      OBVIOUS
    <2>1. TypeOK'
      BY TypeStep DEF IndInv, SafeInv
    <2>2. SafeInv'
      BY <2>1, RamStep, ScanStep, WriteStep DEF IndInv, SafeInv
    <2> QED
      BY <2>1, <2>2, StoreStep, AppendStep, RetStep DEF IndInv
  <1> QED
    BY <1>1, InitInd, PTL DEF Spec

\* The invariant says that an acknowledged payload is durable.
LEMMA IndImpliesDurable == IndInv => AckedIsDurable
  <1> SUFFICES ASSUME IndInv PROVE AckedIsDurable
    OBVIOUS
  <1>2. ASSUME ret.call = "save", ret.st = "NV_OK" PROVE Durable = ret.val
    <2>1. pc = "idle" /\ last_addr # NoAddr /\ Loaded = ret.val
      BY <1>2 DEF IndInv, SafeInv, RetInv
    <2>2. PICK a \in Pages, k \in SlotIds : last_addr = <<a, k>>
      BY <2>1 DEF IndInv, SafeInv, TypeOK, Addrs
    <2>3. Ordered(flash, a, k)
      BY <2>1, <2>2 DEF IndInv, SafeInv, StoreInv, RamInv, LastIsValid, Pages
    <2> QED
      BY <2>1, <2>2, <2>3, OrderedDurable DEF IndInv, SafeInv, TypeOK, FlashType, Loaded, Durable
  <1> QED
    BY <1>2 DEF AckedIsDurable

\* An acknowledged payload is what a restart would find.
THEOREM Durability ==
    ASSUME LateFaults = {}
    PROVE  Spec => []AckedIsDurable
  BY Invariance, IndImpliesDurable, PTL

-----------------------------------------------------------------------------
(* The store implements the durable register                               *)

\* What is durable, in the terms of the invariant.
LEMMA DurableIs ==
    ASSUME IndInv
    PROVE  /\ pc = "saveLock" => Durable = payload
           /\ pc # "saveLock" /\ last_addr # NoAddr => Durable = Loaded
           /\ NoRecords(flash) => Durable = NoVal
  <1>0. flash \in FlashType
    BY DEF IndInv, SafeInv, TypeOK, FlashType
  <1>1. ASSUME pc = "saveLock" PROVE Durable = payload
    <2>1. target_page \in Pages /\ write_slot \in SlotIds
      BY <1>1, WriteTarget DEF IndInv, SafeInv
    <2>2. Ordered(flash, target_page, write_slot) /\ flash[target_page][write_slot] = NewRecord
      BY <1>1 DEF IndInv, SafeInv, StoreInv, RamInv, LastIsValid
    <2> QED
      BY <1>0, <2>1, <2>2, OrderedDurable DEF Durable, NewRecord, Record
  <1>2. ASSUME pc # "saveLock", last_addr # NoAddr PROVE Durable = Loaded
    <2>1. PICK a \in Pages, k \in SlotIds : last_addr = <<a, k>>
      BY <1>2 DEF IndInv, SafeInv, TypeOK, Addrs
    <2>2. Ordered(flash, a, k)
      BY <1>2, <2>1 DEF IndInv, SafeInv, StoreInv, RamInv, LastIsValid, Pages
    <2> QED
      BY <1>0, <1>2, <2>1, <2>2, OrderedDurable DEF Durable, Loaded
  <1> QED
    BY <1>1, <1>2, NoRecordsDurable DEF Durable

\* A harmless step leaves it alone, and what NV_Load returns with it.
LEMMA DurableQuiet ==
    ASSUME IndInv, pc # "saveLock", flash' \in FlashType, Harmless(flash, flash')
    PROVE  /\ Durable' = Durable
           /\ last_addr' = last_addr => Loaded' = Loaded
  <1>0. flash \in FlashType /\ TypeOK /\ StoreInv
    BY DEF IndInv, SafeInv, TypeOK, FlashType
  <1>1. /\ \/ NoRecords(flash) /\ NoRecords(flash')
           \/ \E a \in Pages, k \in SlotIds :
                 Ordered(flash', a, k) /\ Ordered(flash, a, k) /\ flash'[a][k] = flash[a][k]
        /\ last_addr # NoAddr => flash'[last_addr[1]][last_addr[2]] = CellAt(last_addr)
    BY <1>0, HarmlessKeeps
  <1>2. DurableIn(flash') = DurableIn(flash)
    BY <1>0, <1>1, OrderedDurable, NoRecordsDurable
  <1> QED
    BY <1>1, <1>2 DEF Durable, Loaded, CellAt

\* Each operation of the flash is harmless, but for the commit.
LEMMA StepHarmless ==
    ASSUME IndInv, TypeOK', [Next]_vars,
           ~(pc = "saveTail" /\ flash' # flash), pc # "saveLock"
    PROVE  flash' \in FlashType /\ Harmless(flash, flash')
  <1> USE DEF IndInv, SafeInv
  <1>0. flash' \in FlashType
    BY DEF TypeOK, FlashType
  <1>1. CASE flash' = flash
    BY <1>0, <1>1 DEF Harmless
  <1>2. CASE pc \in {"initEraseA", "initEraseB"} /\ flash' # flash
    <2>1. InitErasing \in Pages /\ NoRecords(flash)
      BY <1>2 DEF InitErasing, ScanInv, Pages
    <2>2. CASE InitErase
      BY <1>0, <2>1, <2>2, EraseHarmless, ErasedIsHalfErased DEF InitErase
    <2>3. CASE InitEraseFails \/ PowerLoss
      <3>1. PICK pg \in HalfErased(flash[InitErasing]) : flash' = [flash EXCEPT ![InitErasing] = pg]
        BY <1>2, <2>3 DEF InitEraseFails, PowerLoss, TornFlash
      <3> QED
        BY <1>0, <2>1, <3>1, EraseHarmless
    <2> QED
      BY <1>2, <2>2, <2>3
         DEF Next, Calls, Work, Faults, vars, InitCall, Load, SaveRefused, SaveCall, ScanSlot, InitPick,
             InitUnlock, InitLock, SaveUnlock, SaveErase, SaveHeader, SavePayload, SaveTail,
             SaveLock, InitUnlockFails, InitLockFails, SaveUnlockFails, SaveEraseFails,
             SaveHeaderFails, SavePayloadFails, SaveTailFails, SaveTailFailsLate, SaveLockFails
  <1>3. CASE pc = "saveErase" /\ flash' # flash
    <2>1. /\ active_page \in Pages /\ otherPage(active_page) \in Pages
          /\ otherPage(active_page) # active_page
      BY <1>3 DEF WriteInv, otherPage, Pages
    <2>2. CASE SaveErase
      BY <1>0, <2>1, <2>2, EraseHarmless, ErasedIsHalfErased DEF SaveErase
    <2>3. CASE SaveEraseFails \/ PowerLoss
      <3>1. PICK pg \in HalfErased(flash[otherPage(active_page)]) :
              flash' = [flash EXCEPT ![otherPage(active_page)] = pg]
        BY <1>3, <2>3 DEF SaveEraseFails, PowerLoss, TornFlash
      <3> QED
        BY <1>0, <2>1, <3>1, EraseHarmless
    <2> QED
      BY <1>3, <2>2, <2>3
         DEF Next, Calls, Work, Faults, vars, InitCall, Load, SaveRefused, SaveCall, ScanSlot, InitPick,
             InitUnlock, InitErase, InitLock, SaveUnlock, SaveHeader, SavePayload, SaveTail,
             SaveLock, InitUnlockFails, InitEraseFails, InitLockFails, SaveUnlockFails,
             SaveHeaderFails, SavePayloadFails, SaveTailFails, SaveTailFailsLate, SaveLockFails
  <1>4. CASE pc = "saveHeader" /\ flash' # flash
    <2>1. CASE SaveHeader \/ SaveHeaderFails \/ PowerLoss
      <3>1. PICK c \in HalfProgrammed(TargetCell) :
              flash' = [flash EXCEPT ![target_page][write_slot] = c]
        BY <1>4, <2>1 DEF SaveHeader, SaveHeaderFails, PowerLoss, TornFlash, Write, HalfProgrammed
      <3> QED
        BY <1>0, <1>4, <3>1, ProgramHarmless
    <2> QED
      BY <1>4, <2>1
         DEF Next, Calls, Work, Faults, vars, InitCall, Load, SaveRefused, SaveCall, ScanSlot, InitPick,
             InitUnlock, InitErase, InitLock, SaveUnlock, SaveErase, SavePayload, SaveTail,
             SaveLock, InitUnlockFails, InitEraseFails, InitLockFails, SaveUnlockFails,
             SaveEraseFails, SavePayloadFails, SaveTailFails, SaveTailFailsLate, SaveLockFails
  <1>5. CASE /\ pc \notin {"initEraseA", "initEraseB", "saveErase", "saveHeader"}
             /\ flash' # flash
    BY <1>5
       DEF Next, Calls, Work, Faults, vars, InitCall, Load, SaveRefused, SaveCall, ScanSlot, InitPick,
           InitUnlock, InitErase, InitLock, SaveUnlock, SaveErase, SaveHeader, SavePayload,
           SaveTail, SaveLock, InitUnlockFails, InitEraseFails, InitLockFails, SaveUnlockFails,
           SaveEraseFails, SaveHeaderFails, SavePayloadFails, SaveTailFails,
           SaveTailFailsLate, SaveLockFails, PowerLoss, TornFlash
  <1> QED
    BY <1>1, <1>2, <1>3, <1>4, <1>5

\* The payload of the save under way.
Req == IF Saving THEN payload ELSE NoVal

LEMMA PayloadIsReq ==
    ASSUME IndInv
    PROVE  Saving => Req = payload /\ payload \in Values /\ payload # NoVal
  BY NVAssumption DEF IndInv, SafeInv, WriteInv, Saving, Req

\* Every step of the store is a step of the register or leaves it alone.
LEMMA RegisterStep ==
    ASSUME LateFaults = {}, IndInv, IndInv', [Next]_vars
    PROVE  [Register!Next]_<<Durable, Loaded, Req>>
  <1> USE DEF Req
  <1>0. TypeOK /\ TypeOK'
    BY DEF IndInv, SafeInv
  <1>q. ASSUME pc # "saveLock", ~(pc = "saveTail" /\ flash' # flash)
        PROVE  Durable' = Durable /\ (last_addr' = last_addr => Loaded' = Loaded)
    BY <1>0, <1>q, StepHarmless, DurableQuiet
  <1>1. CASE InitCall \/ Load \/ SaveRefused \/ ScanSlot \/ InitUnlock \/ InitUnlockFails
             \/ InitErase \/ InitEraseFails \/ InitLockFails
    <2>1. ~Saving /\ ~Saving' /\ last_addr' = last_addr
      BY <1>1 DEF Saving, InitCall, Load, SaveRefused, ScanSlot, InitUnlock, InitUnlockFails,
                  InitErase, InitEraseFails, InitLockFails, Return, ram
    <2>2. Durable' = Durable /\ Loaded' = Loaded
      BY <1>q, <2>1 DEF Saving
    <2> QED
      BY <2>1, <2>2
  <1>2. ASSUME NEW v \in Values, SaveCall(v) PROVE Register!Begin(v)
    <2>1. /\ ~Saving /\ Saving' /\ payload' = v /\ last_addr' = last_addr
          /\ pc = "idle"
      BY <1>2 DEF Saving, SaveCall, ram
    <2>2. Durable' = Durable /\ Loaded' = Loaded
      BY <1>q, <2>1
    <2> QED
      BY <2>1, <2>2 DEF Register!Begin
  <1>3. CASE InitPick
    <2>1. ~Saving /\ ~Saving' /\ flash' = flash /\ pc = "pick" /\ pc' = "idle"
      BY <1>3 DEF Saving, InitPick, Return
    <2>2. Durable' = Durable
      BY <1>q, <2>1
    <2>3. /\ Picked \in Pages /\ best[Picked].slot \in SlotIds
          /\ Ordered(flash, Picked, best[Picked].slot)
          /\ last_addr' = <<Picked, best[Picked].slot>>
      BY <1>3, PickedNewest DEF IndInv, SafeInv, InitPick
    <2>4. Loaded' = Durable'
      BY <1>0, <2>1, <2>3, OrderedDurable
         DEF Loaded, Durable, TypeOK, FlashType, NoAddr, Pages
    <2> QED
      BY <2>1, <2>2, <2>4 DEF Register!Next, Register!Restore
  <1>4. CASE InitLock
    <2>1. ~Saving /\ ~Saving' /\ flash' = flash /\ pc = "initLock" /\ last_addr' = NoAddr
      BY <1>4 DEF Saving, InitLock, Return
    <2>2. Durable' = Durable
      BY <1>q, <2>1
    <2>3. Durable = NoVal /\ Loaded' = NoVal
      BY <2>1, DurableIs DEF IndInv, SafeInv, ScanInv, Loaded
    <2> QED
      BY <2>1, <2>2, <2>3 DEF Register!Next, Register!Restore
  <1>5. CASE SaveUnlock \/ SaveErase \/ SaveHeader \/ SavePayload
    <2>1. /\ Saving /\ Saving' /\ payload' = payload /\ last_addr' = last_addr
          /\ pc \notin {"saveTail", "saveLock"}
      BY <1>5 DEF Saving, SaveUnlock, SaveErase, SaveHeader, SavePayload, ram, locals
    <2>2. Durable' = Durable /\ Loaded' = Loaded
      BY <1>q, <2>1
    <2> QED
      BY <2>1, <2>2
  <1>6. CASE SaveUnlockFails \/ SaveEraseFails \/ SaveHeaderFails \/ SavePayloadFails
             \/ SaveTailFails
    <2>1. /\ Saving /\ ~Saving' /\ last_addr' = last_addr /\ pc # "saveLock"
          /\ pc = "saveTail" => flash' = flash
      BY <1>6 DEF Saving, SaveUnlockFails, SaveEraseFails, SaveHeaderFails, SavePayloadFails,
                  SaveTailFails, Return, ram
    <2>2. Durable' = Durable /\ Loaded' = Loaded
      BY <1>q, <2>1
    <2> QED
      BY <2>1, <2>2, PayloadIsReq DEF Register!Next, Register!Fail
  <1>7. CASE SaveTail
    <2>1. /\ Saving /\ Saving' /\ payload' = payload /\ last_addr' = last_addr
          /\ pc = "saveTail" /\ pc' = "saveLock"
      BY <1>7 DEF Saving, SaveTail, ram, locals
    <2>2. Durable' = payload
      <3>1. target_page \in Pages /\ write_slot \in SlotIds
        BY <1>0, <2>1, WriteTarget DEF IndInv, SafeInv
      <3>2. /\ Ordered(flash', target_page, write_slot)
            /\ flash'[target_page][write_slot].val = payload
        BY <1>7, <1>0, <3>1, TailOrdered
           DEF IndInv, SafeInv, SaveTail, Write, TypeOK, NewRecord, Record
      <3> QED
        BY <1>0, <3>1, <3>2, OrderedDurable DEF Durable, TypeOK, FlashType
    <2>3. Loaded' = Loaded
      <3>1. CASE last_addr = NoAddr
        BY <2>1, <3>1 DEF Loaded
      <3>2. CASE last_addr # NoAddr
        <4>1. PICK a \in Pages, k \in SlotIds : last_addr = <<a, k>>
          BY <1>0, <3>2 DEF TypeOK, Addrs
        <4>2. flash[a][k].st = "valid" /\ flash[target_page][write_slot].st # "valid"
          BY <2>1, <3>2, <4>1 DEF IndInv, SafeInv, StoreInv, RamInv, LastIsValid, WriteInv, CellAt, TargetCell
        <4>3. flash'[a][k] = flash[a][k]
          BY <1>0, <1>7, <4>1, <4>2 DEF SaveTail, Write, TypeOK
        <4> QED
          BY <2>1, <3>2, <4>1, <4>3 DEF Loaded
      <3> QED
        BY <3>1, <3>2
    <2> QED
      BY <2>1, <2>2, <2>3, PayloadIsReq DEF Register!Next, Register!TakeEffect
  <1>8. CASE SaveLock
    <2>1. /\ Saving /\ ~Saving' /\ flash' = flash /\ pc = "saveLock" /\ pc' = "idle"
          /\ last_addr' = <<target_page, write_slot>>
      BY <1>8 DEF Saving, SaveLock, Return
    <2>2. /\ target_page \in Pages /\ flash[target_page][write_slot].val = payload
      BY <2>1, WriteTarget DEF IndInv, SafeInv, StoreInv, RamInv, LastIsValid, NewRecord, Record
    <2>3. Loaded' = payload
      BY <2>1, <2>2 DEF Loaded, NoAddr, Pages
    <2>4. Durable = payload /\ Durable' = Durable
      BY <2>1, DurableIs DEF Durable
    <2> QED
      BY <2>1, <2>3, <2>4, PayloadIsReq DEF Register!Next, Register!Succeed
  <1>9. CASE SaveTailFailsLate \/ SaveLockFails
    BY <1>9 DEF SaveTailFailsLate, SaveLockFails
  <1>10. CASE PowerLoss
    <2>1. ~Saving' /\ Loaded' = NoVal
      BY <1>10 DEF Saving, PowerLoss, Loaded
    <2>2. CASE pc # "saveLock" /\ ~(pc = "saveTail" /\ flash' # flash)
      BY <1>q, <2>1, <2>2 DEF Register!Next, Register!PowerLoss
    <2>3. CASE pc = "saveLock"
      <3>1. flash' = flash
        BY <1>10, <2>3 DEF PowerLoss, TornFlash
      <3> QED
        BY <2>1, <3>1 DEF Register!Next, Register!PowerLoss, Durable
    <2>4. CASE pc = "saveTail" /\ flash' # flash
      <3>1. flash' = [flash EXCEPT ![target_page][write_slot] = NewRecord]
        BY <1>10, <2>4 DEF PowerLoss, TornFlash
      <3>2. target_page \in Pages /\ write_slot \in SlotIds
        BY <1>0, <2>4, WriteTarget DEF IndInv, SafeInv
      <3>3. Ordered(flash', target_page, write_slot)
        BY <2>4, <3>1, TailOrdered DEF IndInv, SafeInv
      <3>4. flash'[target_page][write_slot].val = payload
        BY <1>0, <3>1, <3>2 DEF TypeOK, NewRecord, Record
      <3>5. Durable' = payload
        BY <1>0, <3>2, <3>3, <3>4, OrderedDurable DEF Durable, TypeOK, FlashType
      <3> QED
        BY <2>1, <2>4, <3>5, PayloadIsReq DEF Register!Next, Register!PowerLoss, Saving
    <2> QED
      BY <2>2, <2>3, <2>4
  <1>11. CASE UNCHANGED vars
    BY <1>11 DEF vars, ram, locals, Saving, Durable, Loaded
  <1> QED
    BY <1>1, <1>2, <1>3, <1>4, <1>5, <1>6, <1>7, <1>8, <1>9, <1>10, <1>11
       DEF Next, Calls, Work, Faults, Register!Next

\* The store is a durable register, whatever power loss and failures do to
\* the operations of the flash, if a failed commit never leaves a record.
THEOREM Refinement ==
    ASSUME LateFaults = {}
    PROVE  Spec => ImplementsRegister
  <1>1. Init => Register!Init
    <2> SUFFICES ASSUME Init PROVE Register!Init
      OBVIOUS
    <2>1. NoRecords(flash)
      BY DEF Init, NoRecords, Erased, Junk
    <2>2. Loaded = NoVal /\ ~Saving
      BY DEF Init, Loaded, Saving
    <2> QED
      BY <2>1, <2>2, NoRecordsDurable DEF Register!Init, Durable
  <1>2. IndInv /\ IndInv' /\ [Next]_vars => [Register!Next]_Register!vars
    BY RegisterStep DEF Register!vars, Req
  <1> QED
    BY <1>1, <1>2, Invariance, PTL DEF Spec, ImplementsRegister, Register!Spec

=============================================================================
