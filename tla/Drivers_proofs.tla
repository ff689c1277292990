--------------------------- MODULE Drivers_proofs ---------------------------
(***************************************************************************)
(* Safety of the drivers MCDrivers composes beside the SPI bus, for all    *)
(* values of their constants.  Each has an inductive invariant of its own; *)
(* as only the driver chosen moves, each invariant holds whatever `driver' *)
(* is, and the theorems at the end say so of MCSpec.  The last section     *)
(* bounds the steps an I2C call can take.                                  *)
(***************************************************************************)
EXTENDS MCDrivers, SpiBus_proofs, Integers, SequenceTheorems, TLAPS

-----------------------------------------------------------------------------
(* The flash                                                               *)

Operating == {"enter", "ready", "clear", "mode", "start", "done", "mode0", "clear0", "restore"}
Changes == Flash!Programs \cup Flash!Erasures

FlashTyped ==
    /\ f_mem \in [Pages -> [Words -> Values \cup {"erased", "junk"}]]
    /\ f_cr \in [lock: BOOLEAN, pg: BOOLEAN, per: BOOLEAN]
    /\ f_bsy \in BOOLEAN /\ f_err \in BOOLEAN /\ f_primask \in BOOLEAN /\ f_saved \in BOOLEAN
    /\ f_blame \in BOOLEAN /\ f_result \in {0, -1} /\ f_res \in {0, -1}
    /\ f_pc \in Operating \cup {"idle", "lock", "unlock"}
    /\ f_pc \in Operating => f_req \in Changes
    /\ f_pc \in {"lock", "unlock"} => f_req \in Flash!Locks

\* Between the two it is masked; the controller is at work only at the wait for
\* it, and in the mode of the operation only around that.
Masking ==
    /\ f_pc \in Operating \ {"enter"} => f_primask
    /\ f_bsy => f_pc = "done"
    /\ f_cr.pg => f_pc \in {"start", "done", "mode0"} /\ f_req.op = "program"
    /\ f_cr.per => f_pc \in {"start", "done", "mode0"} /\ f_req.op = "erase"

Effect == IF f_req.op = "program" THEN f_mem[f_req.page][f_req.word] = f_req.val
                                  ELSE \A w \in Words : f_mem[f_req.page][w] = "erased"

\* On an unlocked flash the operation is started, and ends in its effect or in
\* an error.
Working ==
    ~f_cr.lock =>
        /\ f_pc \in {"start", "done"} => IF f_req.op = "program" THEN f_cr.pg ELSE f_cr.per
        /\ f_pc = "done" /\ ~f_bsy /\ ~f_err => Effect
        /\ f_pc \in {"mode0", "clear0", "restore"} /\ f_result = 0 => Effect

\* Every error has its cause, and a program can fail without one only on a
\* locked flash, which is a cause.
Blaming ==
    /\ f_err => f_blame
    /\ f_pc = "restore" => ~f_err
    /\ f_pc \in Operating \ {"mode0", "clear0", "restore"} => f_result = -1
    /\ f_pc \in Operating /\ f_req.op = "program" /\ f_cr.lock => f_blame
    /\ f_pc \in {"mode0", "clear0", "restore"} /\ f_result = -1 => f_blame

FlashInv == FlashTyped /\ Masking /\ Working /\ Blaming

LEMMA FlashInit == Flash!Init => FlashInv
<1> SUFFICES ASSUME Flash!Init PROVE FlashInv
  OBVIOUS
<1>1. f_mem \in [Pages -> [Words -> Values \cup {"erased", "junk"}]]
  BY DEF Flash!Init
<1>2. f_pc = "idle" /\ f_cr = [lock |-> TRUE, pg |-> FALSE, per |-> FALSE]
  BY DEF Flash!Init
<1>3. /\ f_bsy = FALSE /\ f_err \in BOOLEAN /\ f_blame \in BOOLEAN /\ f_primask = FALSE
      /\ f_saved = FALSE /\ f_result = 0 /\ f_res = 0
  BY DEF Flash!Init
<1>5. FlashTyped
  BY <1>1, <1>2, <1>3 DEF FlashTyped, Operating
<1>4. Masking /\ Working /\ Blaming
  BY <1>2 DEF Flash!Init, Masking, Working, Blaming, Operating
<1> QED
  BY <1>4, <1>5 DEF FlashInv

LEMMA FlashStep == FlashInv /\ Flash!Next => FlashInv'
<1> SUFFICES ASSUME FlashInv, Flash!Next PROVE FlashInv'
  OBVIOUS
<1> USE DEF FlashInv, Flash!chip, Flash!drv
<1>1. CASE Flash!Succeed
  BY <1>1 DEF Flash!Succeed, Flash!Allowed, Flash!Done, FlashTyped, Masking, Working, Blaming,
     Operating, Changes, Flash!Programs, Flash!Erasures, Effect
<1>2. CASE Flash!Fail
  <2>1. f_req \in Changes /\ f_pc = "done"
    BY <1>2 DEF Flash!Fail, FlashTyped, Masking, Operating
  <2>2. \A page \in [Words -> Values \cup {"erased", "junk"}] :
           /\ Flash!Done(page) \in [Words -> Values \cup {"erased", "junk"}]
           /\ Flash!Torn(page) \in [Words -> Values \cup {"erased", "junk"}]
    BY <2>1 DEF Flash!Done, Flash!Torn, Changes, Flash!Programs, Flash!Erasures
  <2>3. f_mem' \in [Pages -> [Words -> Values \cup {"erased", "junk"}]]
    BY <1>2, <2>1, <2>2 DEF Flash!Fail, FlashTyped, Changes, Flash!Programs, Flash!Erasures
  <2> QED
    BY <1>2, <2>1, <2>3 DEF Flash!Fail, FlashTyped, Masking, Working, Blaming, Operating, Effect
<1>3. CASE Flash!Disturb
  BY <1>3 DEF Flash!Disturb, FlashTyped, Masking, Working, Blaming, Operating, Effect
<1>4. CASE Flash!Mask
  BY <1>4 DEF Flash!Mask, FlashTyped, Masking, Working, Blaming, Operating, Effect
<1>5. ASSUME NEW r \in Flash!Requests, Flash!Call(r) PROVE FlashInv'
  BY <1>5 DEF Flash!Call, Flash!Requests, Flash!Programs, Flash!Erasures, Flash!Locks, Changes,
     FlashTyped, Masking, Working, Blaming, Operating, Effect
<1>6. CASE Flash!flash_ll_unlock
  BY <1>6 DEF Flash!flash_ll_unlock, Flash!Return, FlashTyped, Masking, Working, Blaming, Operating
<1>7. CASE Flash!flash_ll_lock
  BY <1>7 DEF Flash!flash_ll_lock, Flash!Return, FlashTyped, Masking, Working, Blaming, Operating
<1>13. CASE Flash!DisableIrq
  BY <1>13 DEF Flash!DisableIrq, FlashTyped, Masking, Working, Blaming, Operating
<1>14. CASE Flash!WaitReady
  BY <1>14 DEF Flash!WaitReady, Flash!Goto, FlashTyped, Masking, Working, Blaming, Operating
<1>15. CASE Flash!ClearFlags
  BY <1>15 DEF Flash!ClearFlags, Flash!Goto, FlashTyped, Masking, Working, Blaming, Operating
<1>8. CASE Flash!SetMode
  BY <1>8 DEF Flash!SetMode, Flash!Goto, FlashTyped, Masking, Working, Blaming, Operating, Changes,
     Flash!Programs, Flash!Erasures, Effect
<1>9. CASE Flash!StartOperation
  BY <1>9 DEF Flash!StartOperation, Flash!Goto, FlashTyped, Masking, Working, Blaming, Operating,
     Changes, Flash!Programs, Flash!Erasures, Effect
<1>10. CASE Flash!WaitDone
  BY <1>10 DEF Flash!WaitDone, FlashTyped, Masking, Working, Blaming, Operating,
     Changes, Flash!Programs, Flash!Erasures, Effect
<1>11. CASE Flash!ClearMode
  BY <1>11 DEF Flash!ClearMode, Flash!Goto, FlashTyped, Masking, Working, Blaming, Operating,
     Changes, Flash!Programs, Flash!Erasures, Effect
<1>16. CASE Flash!ClearFlagsAgain
  BY <1>16 DEF Flash!ClearFlagsAgain, Flash!Goto, FlashTyped, Masking, Working, Blaming,
     Operating, Effect
<1>12. CASE Flash!RestoreIrq
  BY <1>12 DEF Flash!RestoreIrq, Flash!Return, FlashTyped, Masking, Working, Blaming, Operating,
     Effect
<1> QED
  BY <1>1, <1>2, <1>3, <1>4, <1>5, <1>6, <1>7, <1>8, <1>9, <1>10, <1>11, <1>12, <1>13, <1>14,
     <1>15, <1>16 DEF Flash!Next

LEMMA FlashSame == FlashInv /\ UNCHANGED fVars => FlashInv'
BY DEF fVars, FlashInv, FlashTyped, Masking, Working, Blaming, Effect

LEMMA FlashHolds == FlashInv => Flash!Undisturbed /\ Flash!Truthful /\ Flash!TypeOK
BY DEF FlashInv, FlashTyped, Masking, Working, Blaming, Effect, Operating, Flash!Undisturbed,
   Flash!Truthful, Flash!ZeroMeansDone, Flash!FailsForCause, Flash!TypeOK, Changes,
   Flash!Programs, Flash!Erasures, Flash!Locks

-----------------------------------------------------------------------------
(* The external interrupts                                                 *)

\* A line whose handler is owed is enabled and has a handler, and pending unless
\* its edge was late; only late edges are owed to the line being served.
ExtInv ==
    /\ Ext!EdgesKept /\ e_owed \subseteq e_handlers \cap e_imr
    /\ \A l \in e_owed \ e_late : ~Ext!Serving(l)

LEMMA ExtInit == Ext!Init => ExtInv
BY DEF Ext!Init, ExtInv, Ext!EdgesKept

LEMMA ExtStep == ExtInv /\ Ext!Next => ExtInv'
<1> SUFFICES ASSUME ExtInv, Ext!Next PROVE ExtInv'
  OBVIOUS
<1> USE DEF ExtInv, Ext!EdgesKept, Ext!Serving, Ext!regs, Ext!At, Ext!Settle
<1>1. CASE Ext!MainStep
  BY <1>1 DEF Ext!MainStep, Ext!Unmask, Ext!Sense, Ext!Enable, Ext!MainLoad, Ext!MainStore,
     Ext!Running
<1>2. CASE Ext!Interrupt
  BY <1>2 DEF Ext!Interrupt
<1>7. CASE Ext!HandlerLoad
  BY <1>7 DEF Ext!HandlerLoad
<1>8. CASE Ext!HandlerStore
  BY <1>8 DEF Ext!HandlerStore
<1>3. CASE Ext!Test \/ Ext!CallHandler \/ Ext!Clear
  BY <1>3 DEF Ext!Test, Ext!CallHandler, Ext!Clear, Ext!NextLine
<1>4. ASSUME NEW l \in Ext!Lines, Ext!Edge(l) PROVE ExtInv'
  BY <1>4 DEF Ext!Edge
<1>5. ASSUME NEW l \in Ext!Lines, NEW e \in Ext!Edges,
             Ext!extiRegisterHandler(l) \/ Ext!extiClearFlag(l) \/ Ext!extiInit(l, e)
      PROVE  ExtInv'
  BY <1>5 DEF Ext!extiRegisterHandler, Ext!extiClearFlag, Ext!extiInit, Ext!Running
<1>6. "EXTI_RISING_EDGE" \in Ext!Edges
  BY DEF Ext!Edges
<1> QED
  BY <1>1, <1>2, <1>3, <1>4, <1>5, <1>6, <1>7, <1>8 DEF Ext!Next, Ext!Handler

LEMMA ExtSame == ExtInv /\ UNCHANGED eVars => ExtInv'
BY DEF eVars, ExtInv, Ext!EdgesKept, Ext!Serving
-----------------------------------------------------------------------------
(* FDCAN                                                                   *)

Names    == Frames \cup {"none"}
Element  == [head: Names, kind: Can!Kinds, body: Names]
Ram      == [Can!Slots -> Element]
Sends    == {"put", "writeHead", "writeBody", "request"}
Reads    == {"get", "readHead", "kind", "readBody", "release"}

CanTyped ==
    /\ c_init \in BOOLEAN
    /\ c_tx \in [ram: Ram, put: Can!Slots, level: 0 .. Elements]
    /\ c_rx \in [ram: Ram, get: Can!Slots, level: 0 .. Elements]
    /\ c_index \in Can!Slots /\ c_frame \in Element /\ c_res \in {0, 1}

\* A frame is put into the element behind the level, which the controller does
\* not look at, and that is free as long as only the driver fills the FIFO.
Sending ==
    /\ c_pc \in {"send"} \cup Sends =>
          c_frame.head \in Frames /\ c_frame.kind = "data" /\ c_frame.body = c_frame.head
    /\ c_pc \in Sends => c_tx.level < Elements
    /\ c_pc \in Sends \ {"put"} => c_index = c_tx.put
    /\ c_pc \in {"writeBody", "request"} =>
          c_tx.ram[c_index].head = c_frame.head /\ c_tx.ram[c_index].kind = "data"
    /\ c_pc = "request" => c_tx.ram[c_index].body = c_frame.body

\* A frame is read from the first element, which stays until it is acknowledged.
Reading ==
    /\ c_pc \in Reads => c_rx.level > 0
    /\ c_pc \in Reads \ {"get"} => c_index = c_rx.get
    /\ c_pc \in {"kind", "readBody", "release"} =>
          c_rx.ram[c_index].head = c_frame.head /\ c_rx.ram[c_index].kind = c_frame.kind
    /\ c_pc = "release" => c_rx.ram[c_index].body = c_frame.body

CanInv == /\ CanTyped /\ Sending /\ Reading
          /\ c_pc = "stopping" => c_init

LEMMA ModIs ==
  ASSUME NEW x \in Nat, x < 2 * Elements
  PROVE  /\ x % Elements = IF x < Elements THEN x ELSE x - Elements
         /\ x % Elements \in Can!Slots
BY DriversAssumption DEF Can!Slots

LEMMA RingType ==
  ASSUME NEW ram \in Ram, NEW f \in Nat, NEW n \in Nat, f + n <= 2 * Elements
  PROVE  /\ Can!Ring(ram, f, n) \in Seq(Element) /\ Len(Can!Ring(ram, f, n)) = n
         /\ \A k \in 1 .. n : Can!Ring(ram, f, n)[k] = ram[(f + k - 1) % Elements]
<1> DEFINE r == Can!Ring(ram, f, n)
<1>1. ASSUME NEW k \in 1 .. n PROVE r[k] = ram[(f + k - 1) % Elements] /\ r[k] \in Element
  <2>1. f + k - 1 \in Nat /\ f + k - 1 < 2 * Elements
    BY DriversAssumption
  <2>2. (f + k - 1) % Elements \in Can!Slots
    BY <2>1, ModIs
  <2>3. r[k] = ram[(f + k - 1) % Elements]
    BY DEF Can!Ring
  <2> QED
    BY <2>2, <2>3 DEF Ram
<1>2. DOMAIN r = 1 .. n /\ r = [k \in 1 .. n |-> r[k]]
  BY DEF Can!Ring
<1>3. r \in [1 .. n -> Element]
  BY <1>1, <1>2
<1>4. r \in Seq(Element)
  BY <1>3
<1>5. Len(r) = n
  BY <1>2, <1>4
<1> QED
  BY <1>1, <1>4, <1>5

\* The same n elements, from f2 in the one and from f in the other.
SameElements(ram2, f2, ram, f, n) ==
    \A k \in 1 .. n : ram2[(f2 + k - 1) % Elements] = ram[(f + k - 1) % Elements]

\* t is what x, the first of s, leaves.
Taken(s, x, t) == s # <<>> /\ x = Head(s) /\ t = Tail(s)

\* One element more at the end, or one less at the front.
LEMMA RingGrows ==
  ASSUME NEW ram \in Ram, NEW ram2 \in Ram, NEW f \in Nat, NEW f2 \in Nat, NEW n \in Nat,
         NEW x \in Element, f + n < 2 * Elements, f2 + n < 2 * Elements,
         SameElements(ram2, f2, ram, f, n), ram2[(f2 + n) % Elements] = x
  PROVE  Can!Ring(ram2, f2, n + 1) = Append(Can!Ring(ram, f, n), x)
<1> DEFINE r == Can!Ring(ram, f, n)
           s == Can!Ring(ram2, f2, n + 1)
<1>1. f + n <= 2 * Elements /\ f2 + (n + 1) <= 2 * Elements /\ n + 1 \in Nat
  BY DriversAssumption
<1>2. /\ r \in Seq(Element) /\ Len(r) = n
      /\ \A k \in 1 .. n : r[k] = ram[(f + k - 1) % Elements]
  BY <1>1, RingType
<1>3. /\ s \in Seq(Element) /\ Len(s) = n + 1
      /\ \A k \in 1 .. n + 1 : s[k] = ram2[(f2 + k - 1) % Elements]
  BY <1>1, RingType
<1> HIDE DEF r, s
<1>4. /\ Append(r, x) \in Seq(Element) /\ Len(Append(r, x)) = n + 1
      /\ \A k \in 1 .. n : Append(r, x)[k] = r[k]
      /\ Append(r, x)[n + 1] = x
  BY <1>2, AppendProperties
<1>5. s[n + 1] = ram2[(f2 + n) % Elements]
  <2>1. n + 1 \in 1 .. n + 1 /\ f2 + (n + 1) - 1 = f2 + n
    OBVIOUS
  <2> QED
    BY <1>3, <2>1
<1>6. ASSUME NEW k \in 1 .. n + 1 PROVE s[k] = Append(r, x)[k]
  <2>1. CASE k = n + 1
    BY <1>4, <1>5, <2>1
  <2>2. CASE k # n + 1
    <3>1. k \in 1 .. n
      BY <2>2
    <3> QED
      BY <1>2, <1>3, <1>4, <3>1 DEF SameElements
  <2> QED
    BY <2>1, <2>2
<1>7. s = Append(r, x)
  BY <1>3, <1>4, <1>6, SeqEqual
<1> QED
  BY <1>7 DEF r, s

LEMMA RingShrinks ==
  ASSUME NEW ram \in Ram, NEW ram2 \in Ram, NEW f \in Nat, NEW f2 \in Nat,
         NEW n \in Nat, NEW m \in Nat, m = n + 1, f + m <= 2 * Elements,
         f2 + n <= 2 * Elements, SameElements(ram2, f2, ram, f + 1, n)
  PROVE  Taken(Can!Ring(ram, f, m), ram[f % Elements], Can!Ring(ram2, f2, n))
<1> DEFINE r == Can!Ring(ram, f, m)
           s == Can!Ring(ram2, f2, n)
<1>2. /\ r \in Seq(Element) /\ Len(r) = m
      /\ \A k \in 1 .. m : r[k] = ram[(f + k - 1) % Elements]
  BY RingType
<1>3. /\ s \in Seq(Element) /\ Len(s) = n
      /\ \A k \in 1 .. n : s[k] = ram2[(f2 + k - 1) % Elements]
  BY RingType
<1> HIDE DEF r, s
<1>4. r # <<>> /\ Head(r) = r[1]
  BY <1>2
<1>5. /\ Tail(r) \in Seq(Element) /\ Len(Tail(r)) = n
      /\ \A k \in 1 .. n : Tail(r)[k] = r[k + 1]
  BY <1>2, <1>4, HeadTailProperties
<1>6. ASSUME NEW k \in 1 .. n PROVE s[k] = Tail(r)[k]
  <2>1. k + 1 \in 1 .. m /\ f + (k + 1) - 1 = (f + 1) + k - 1
    OBVIOUS
  <2>2. r[k + 1] = ram[((f + 1) + k - 1) % Elements]
    BY <1>2, <2>1
  <2> QED
    BY <1>3, <1>5, <2>2 DEF SameElements
<1>7. s = Tail(r)
  BY <1>3, <1>5, <1>6, SeqEqual
<1>8. r[1] = ram[f % Elements]
  <2>1. 1 \in 1 .. m /\ f + 1 - 1 = f
    OBVIOUS
  <2> QED
    BY <1>2, <2>1
<1> QED
  BY <1>4, <1>7, <1>8 DEF r, s, Taken

LEMMA CanInit == Can!Init => CanInv
<1> SUFFICES ASSUME Can!Init PROVE CanInv
  OBVIOUS
<1>1. Can!Nothing \in Element /\ Can!Empty \in Ram
  BY DEF Can!Nothing, Can!Empty, Element, Names, Can!Kinds, Ram
<1>2. 0 \in Can!Slots /\ 0 \in 0 .. Elements
  BY DriversAssumption DEF Can!Slots
<1>3. CanTyped
  BY <1>1, <1>2 DEF Can!Init, CanTyped
<1> QED
  BY <1>3 DEF Can!Init, CanInv, Sending, Reading, Sends, Reads

\* What the controller does: the element the driver is at is not its own.
LEMMA CanTransmits == CanInv /\ Can!Transmit => CanInv' /\ Can!ToSend # <<>>
                                               /\ Can!ToSend' = Tail(Can!ToSend)
<1> SUFFICES ASSUME CanInv, Can!Transmit
             PROVE  CanInv' /\ Can!ToSend # <<>> /\ Can!ToSend' = Tail(Can!ToSend)
  OBVIOUS
<1> DEFINE p == c_tx.put
           m == c_tx.level
           n == m - 1
           f == p + Elements - m
           f2 == p + Elements - n
<1>1. p \in Can!Slots /\ m \in 0 .. Elements /\ m > 0 /\ c_tx.ram \in Ram
  BY DEF CanInv, CanTyped, Can!Transmit
<1>0. c_tx' = [c_tx EXCEPT !.ram = [c_tx.ram EXCEPT ![f % Elements] = Can!Nothing],
                           !.level = n]
  BY DEF CanInv, CanTyped, Can!Transmit
<1>2. /\ c_tx'.put = p /\ c_tx'.level = n
      /\ c_tx'.ram = [c_tx.ram EXCEPT ![f % Elements] = Can!Nothing]
      /\ UNCHANGED <<c_init, c_filter, c_rx, c_pc, c_index, c_frame, c_res>>
  BY DEF CanInv, CanTyped, Can!Transmit, Can!drv
<1>3. /\ f \in Nat /\ f < 2 * Elements /\ f2 \in Nat /\ f2 = f + 1 /\ n \in Nat /\ m \in Nat
      /\ m = n + 1 /\ f = p + Elements - m /\ p \in 0 .. Elements - 1
  BY <1>1, DriversAssumption DEF Can!Slots
<1>15. Can!ToSend = Can!Ring(c_tx.ram, f, m) /\ Can!ToSend' = Can!Ring(c_tx'.ram, f2, n)
  BY <1>2 DEF Can!ToSend
<1>16. /\ c_pc \in Sends => m < Elements
       /\ c_pc \in Sends \ {"put"} => c_index = p
  BY DEF CanInv, Sending
<1> HIDE DEF p, m, n, f, f2
<1>4. f % Elements \in Can!Slots /\ f % Elements = IF f < Elements THEN f ELSE f - Elements
  BY <1>3, ModIs
<1>5. Can!Nothing \in Element
  BY DEF Can!Nothing, Element, Names, Can!Kinds
<1>6. c_tx'.ram \in Ram
  BY <1>1, <1>2, <1>4, <1>5 DEF Ram
<1>7. c_tx' \in [ram: Ram, put: Can!Slots, level: 0 .. Elements]
  <2>1. n \in 0 .. Elements
    BY <1>1, <1>3, DriversAssumption
  <2> QED
    BY <1>0, <1>2, <1>6, <2>1 DEF CanInv, CanTyped
<1>8. CanTyped'
  BY <1>2, <1>7 DEF CanInv, CanTyped
<1>9. c_pc \in Sends => f % Elements # p
  BY <1>1, <1>3, <1>4, <1>16, DriversAssumption
<1>10. Sending'
  <2>1. c_pc \in Sends \ {"put"} => c_tx'.ram[c_index] = c_tx.ram[c_index]
    BY <1>1, <1>2, <1>9, <1>16 DEF Ram, Sends
  <2>2. c_pc \in Sends => n < Elements
    BY <1>1, <1>3, <1>16, DriversAssumption
  <2> QED
    BY <1>2, <1>16, <2>1, <2>2 DEF CanInv, Sending, Sends
<1>11. CanInv'
  BY <1>2, <1>8, <1>10 DEF CanInv, Reading
<1>12. ASSUME NEW k \in 1 .. n
       PROVE  c_tx'.ram[(f2 + k - 1) % Elements] = c_tx.ram[(f2 + k - 1) % Elements]
  <2>1. PICK y \in Nat : y = f2 + k - 1 /\ y = f + k /\ y < 2 * Elements
    BY <1>1, <1>3, DriversAssumption
  <2>2. /\ y % Elements = IF y < Elements THEN y ELSE y - Elements
        /\ y % Elements \in Can!Slots
    BY <2>1, ModIs
  <2>3. y % Elements # f % Elements
    BY <1>1, <1>3, <1>4, <2>1, <2>2, DriversAssumption
  <2>4. c_tx'.ram[y % Elements] = c_tx.ram[y % Elements]
    BY <1>1, <1>2, <2>2, <2>3 DEF Ram
  <2> QED
    BY <2>1, <2>4
<1>13. f2 + n <= 2 * Elements /\ f + m <= 2 * Elements
  BY <1>1, <1>3, DriversAssumption
<1>17. SameElements(c_tx'.ram, f2, c_tx.ram, f + 1, n)
  BY <1>3, <1>12 DEF SameElements
<1>14. Taken(Can!Ring(c_tx.ram, f, m), c_tx.ram[f % Elements], Can!Ring(c_tx'.ram, f2, n))
  BY <1>1, <1>3, <1>6, <1>13, <1>17, RingShrinks
<1> QED
  BY <1>11, <1>14, <1>15 DEF Taken

LEMMA CanReceives ==
  ASSUME NEW g \in Frames, NEW kind \in Can!Kinds, CanInv, Can!Receive(g, kind)
  PROVE  CanInv' /\ Can!Received' = Append(Can!Received, Can!Whole(g, kind))
<1> DEFINE f == c_rx.get
           n == c_rx.level
           e == f + n
           x == Can!Whole(g, kind)
<1>1. f \in Can!Slots /\ n \in 0 .. Elements /\ n < Elements /\ c_rx.ram \in Ram
  BY DEF CanInv, CanTyped, Can!Receive
<1>0. c_rx' = [c_rx EXCEPT !.ram = [c_rx.ram EXCEPT ![e % Elements] = x],
                           !.level = n + 1]
  BY DEF CanInv, CanTyped, Can!Receive
<1>2. /\ c_rx'.get = f /\ c_rx'.level = n + 1
      /\ c_rx'.ram = [c_rx.ram EXCEPT ![e % Elements] = x]
      /\ UNCHANGED <<c_init, c_filter, c_tx, c_pc, c_index, c_frame, c_res>>
  BY DEF CanInv, CanTyped, Can!Receive, Can!drv
<1>3. /\ f \in Nat /\ n \in Nat /\ e \in Nat /\ e = f + n /\ e < 2 * Elements
      /\ f \in 0 .. Elements - 1
  BY <1>1, DriversAssumption DEF Can!Slots
<1>15. /\ Can!Received = Can!Ring(c_rx.ram, f, n)
       /\ Can!Received' = Can!Ring(c_rx'.ram, f, n + 1)
  BY <1>2 DEF Can!Received
<1>16. /\ c_pc \in Reads => n > 0
       /\ c_pc \in Reads \ {"get"} => c_index = f
  BY DEF CanInv, Reading
<1>4. e % Elements \in Can!Slots /\ e % Elements = IF e < Elements THEN e ELSE e - Elements
  BY <1>3, ModIs
<1>5. x \in Element
  BY DEF Can!Whole, Element, Names
<1> HIDE DEF f, n, e, x
<1>6. c_rx'.ram \in Ram
  BY <1>1, <1>2, <1>4, <1>5 DEF Ram
<1>7. c_rx' \in [ram: Ram, get: Can!Slots, level: 0 .. Elements]
  <2>1. n + 1 \in 0 .. Elements
    BY <1>1, DriversAssumption
  <2> QED
    BY <1>0, <1>2, <1>6, <2>1 DEF CanInv, CanTyped
<1>8. CanTyped'
  BY <1>2, <1>7 DEF CanInv, CanTyped
<1>9. c_pc \in Reads => e % Elements # f
  BY <1>1, <1>3, <1>4, <1>16, DriversAssumption
<1>10. Reading'
  <2>1. c_pc \in Reads \ {"get"} => c_rx'.ram[c_index] = c_rx.ram[c_index]
    BY <1>1, <1>2, <1>9, <1>16 DEF Ram, Reads
  <2>2. c_pc \in Reads => n + 1 > 0
    BY <1>1, DriversAssumption
  <2> QED
    BY <1>2, <1>16, <2>1, <2>2 DEF CanInv, Reading, Reads
<1>11. CanInv'
  BY <1>2, <1>8, <1>10 DEF CanInv, Sending
<1>12. ASSUME NEW k \in 1 .. n
       PROVE  c_rx'.ram[(f + k - 1) % Elements] = c_rx.ram[(f + k - 1) % Elements]
  <2>1. PICK y \in Nat : y = f + k - 1 /\ y < 2 * Elements
    BY <1>1, <1>3, DriversAssumption
  <2>2. /\ y % Elements = IF y < Elements THEN y ELSE y - Elements
        /\ y % Elements \in Can!Slots
    BY <2>1, ModIs
  <2>3. y % Elements # e % Elements
    BY <1>1, <1>3, <1>4, <2>1, <2>2, DriversAssumption
  <2>4. c_rx'.ram[y % Elements] = c_rx.ram[y % Elements]
    BY <1>1, <1>2, <2>2, <2>3 DEF Ram
  <2> QED
    BY <2>1, <2>4
<1>13. c_rx'.ram[e % Elements] = x
  BY <1>1, <1>2, <1>4 DEF Ram
<1>17. SameElements(c_rx'.ram, f, c_rx.ram, f, n)
  BY <1>12 DEF SameElements
<1>14. Can!Ring(c_rx'.ram, f, n + 1) = Append(Can!Ring(c_rx.ram, f, n), x)
  BY <1>1, <1>3, <1>5, <1>6, <1>13, <1>17, RingGrows
<1> QED
  BY <1>11, <1>14, <1>15 DEF x

\* Behind the ring: put + n, counted from its first element, is the put index.
LEMMA PutIsFree ==
  ASSUME NEW p \in Can!Slots, NEW n \in 0 .. Elements, n < Elements, NEW k \in 1 .. n,
         NEW f \in Nat, f = p + Elements - n
  PROVE  (f + k - 1) % Elements # p /\ (f + k - 1) % Elements \in Can!Slots
<1>1. PICK y \in Nat : y = f + k - 1 /\ y < 2 * Elements /\ y < p + Elements
                      /\ y >= p + Elements - n
  BY DriversAssumption DEF Can!Slots
<1>2. /\ y % Elements = IF y < Elements THEN y ELSE y - Elements
      /\ y % Elements \in Can!Slots
  BY <1>1, ModIs
<1>3. y % Elements # p
  BY <1>1, <1>2, DriversAssumption DEF Can!Slots
<1> QED
  BY <1>1, <1>2, <1>3

LEMMA CanWrites == CanInv /\ (Can!WriteHead \/ Can!WriteBody) => CanInv' /\ UNCHANGED Can!ToSend
                                                                  /\ UNCHANGED Can!Received
<1> SUFFICES ASSUME CanInv, Can!WriteHead \/ Can!WriteBody
             PROVE  CanInv' /\ UNCHANGED Can!ToSend /\ UNCHANGED Can!Received
  OBVIOUS
<1> DEFINE p == c_tx.put
           n == c_tx.level
           f == p + Elements - n
<1>1. /\ p \in Can!Slots /\ n \in 0 .. Elements /\ n < Elements /\ c_tx.ram \in Ram
      /\ c_index = p /\ c_tx.ram[p] \in Element
  BY DEF CanInv, CanTyped, Sending, Can!WriteHead, Can!WriteBody, Sends, Ram
<1>2. /\ UNCHANGED <<c_init, c_filter, c_rx, c_index, c_frame, c_res>>
      /\ c_pc' \in {"writeBody", "request"}
  BY DEF Can!WriteHead, Can!WriteBody, Can!Goto
<1>3. PICK x \in Element : c_tx' = [c_tx EXCEPT !.ram = [c_tx.ram EXCEPT ![p] = x]]
      /\ (x.head = c_frame.head /\ x.kind = "data")
      /\ (c_pc' = "request" => x.body = c_frame.body)
  <2>1. CASE Can!WriteHead
    <3> DEFINE x == [c_tx.ram[p] EXCEPT !.head = c_frame.head, !.kind = "data"]
    <3>1. x \in Element /\ x.head = c_frame.head /\ x.kind = "data"
      BY <1>1, <2>1 DEF Element, CanInv, CanTyped, Can!Kinds
    <3>2. c_tx' = [c_tx EXCEPT !.ram = [c_tx.ram EXCEPT ![p] = x]]
      BY <1>1, <2>1 DEF Can!WriteHead, CanInv, CanTyped, Ram, Element
    <3>3. c_pc' # "request"
      BY <2>1 DEF Can!WriteHead, Can!Goto
    <3> QED
      BY <3>1, <3>2, <3>3
  <2>2. CASE Can!WriteBody
    <3> DEFINE x == [c_tx.ram[p] EXCEPT !.body = c_frame.body]
    <3>1. x \in Element /\ x.body = c_frame.body
      BY <1>1, <2>2 DEF Element, CanInv, CanTyped
    <3>2. x.head = c_frame.head /\ x.kind = "data"
      BY <1>1, <2>2 DEF Element, CanInv, Sending, Can!WriteBody
    <3>3. c_tx' = [c_tx EXCEPT !.ram = [c_tx.ram EXCEPT ![p] = x]]
      BY <1>1, <2>2 DEF Can!WriteBody, CanInv, CanTyped, Ram, Element
    <3> QED
      BY <3>1, <3>2, <3>3
  <2> QED
    BY <2>1, <2>2
<1>4. /\ c_tx' \in [ram: Ram, put: Can!Slots, level: 0 .. Elements]
      /\ c_tx'.put = p /\ c_tx'.level = n /\ c_tx'.ram = [c_tx.ram EXCEPT ![p] = x]
  BY <1>1, <1>3 DEF CanInv, CanTyped, Ram
<1>5. CanTyped'
  BY <1>2, <1>4 DEF CanInv, CanTyped
<1>6. c_tx'.ram[c_index] = x
  BY <1>1, <1>4 DEF Ram
<1>7. Sending'
  <2>1. c_frame.head \in Frames /\ c_frame.kind = "data" /\ c_frame.body = c_frame.head
    BY DEF CanInv, Sending, Sends, Can!WriteHead, Can!WriteBody
  <2> QED
    BY <1>1, <1>2, <1>3, <1>4, <1>6, <2>1 DEF Sending, Sends
<1>8. Reading' /\ (c_pc = "stopping" => c_init)'
  BY <1>2 DEF Reading, Reads
<1>9. UNCHANGED Can!Received
  BY <1>2 DEF Can!Received
<1>10. f \in Nat /\ Can!ToSend = Can!Ring(c_tx.ram, f, n) /\ Can!ToSend' = Can!Ring(c_tx'.ram, f, n)
  BY <1>1, <1>4, DriversAssumption DEF Can!ToSend, Can!Slots
<1>11. ASSUME NEW k \in 1 .. n
       PROVE  c_tx'.ram[(f + k - 1) % Elements] = c_tx.ram[(f + k - 1) % Elements]
  <2>1. (f + k - 1) % Elements # p /\ (f + k - 1) % Elements \in Can!Slots
    BY <1>1, <1>10, PutIsFree
  <2> QED
    BY <1>1, <1>4, <2>1 DEF Ram
<1>12. Can!Ring(c_tx'.ram, f, n) = Can!Ring(c_tx.ram, f, n)
  BY <1>11 DEF Can!Ring
<1> QED
  BY <1>5, <1>7, <1>8, <1>9, <1>10, <1>12 DEF CanInv

LEMMA CanRequests == CanInv /\ Can!Request =>
                        /\ CanInv' /\ UNCHANGED Can!Received
                        /\ \E g \in Frames : Can!ToSend' = Append(Can!ToSend, Can!Whole(g, "data"))
<1> SUFFICES ASSUME CanInv, Can!Request
             PROVE  /\ CanInv' /\ UNCHANGED Can!Received
                    /\ \E g \in Frames : Can!ToSend' = Append(Can!ToSend, Can!Whole(g, "data"))
  OBVIOUS
<1> DEFINE p == c_tx.put
           n == c_tx.level
           f == p + Elements - n
           e == p + 1
           q == e % Elements
           f2 == q + Elements - (n + 1)
           x == c_tx.ram[p]
<1>1. /\ p \in Can!Slots /\ n \in 0 .. Elements /\ n < Elements /\ c_tx.ram \in Ram
      /\ c_index = p /\ x \in Element
  BY DEF CanInv, CanTyped, Sending, Can!Request, Sends, Ram
<1>2. e \in Nat /\ e < 2 * Elements
  BY <1>1, DriversAssumption DEF Can!Slots
<1>3. q \in Can!Slots /\ q = (IF e < Elements THEN e ELSE e - Elements)
  BY <1>2, ModIs
<1>4. /\ c_tx' = [c_tx EXCEPT !.put = q, !.level = n + 1]
      /\ c_pc' = "idle" /\ c_index' = 0 /\ c_res' = 1 /\ c_frame' = Can!Nothing
      /\ UNCHANGED <<c_init, c_filter, c_rx>>
  BY <1>1 DEF Can!Request, Can!Return, CanInv, CanTyped
<1>5. /\ c_tx' \in [ram: Ram, put: Can!Slots, level: 0 .. Elements]
      /\ c_tx'.put = q /\ c_tx'.level = n + 1 /\ c_tx'.ram = c_tx.ram
  <2>1. n + 1 \in 0 .. Elements
    BY <1>1, DriversAssumption
  <2> QED
    BY <1>3, <1>4, <2>1 DEF CanInv, CanTyped
<1>6. Can!Nothing \in Element /\ 0 \in Can!Slots
  BY DriversAssumption DEF Can!Nothing, Element, Names, Can!Kinds, Can!Slots
<1>7. CanInv'
  BY <1>4, <1>5, <1>6 DEF CanInv, CanTyped, Sending, Reading, Sends, Reads
<1>8. x = Can!Whole(c_frame.head, "data") /\ c_frame.head \in Frames
  BY <1>1 DEF CanInv, Sending, Sends, Can!Request, Can!Whole, Element
<1>9. /\ f \in Nat /\ f2 \in Nat /\ n \in Nat /\ f + n < 2 * Elements /\ f2 + n < 2 * Elements
      /\ p \in Nat /\ p < Elements /\ e = p + 1 /\ f = p + Elements - n /\ f2 = q + Elements - (n + 1)
  BY <1>1, <1>3, DriversAssumption DEF Can!Slots
<1>10. /\ Can!ToSend = Can!Ring(c_tx.ram, f, n)
       /\ Can!ToSend' = Can!Ring(c_tx.ram, f2, n + 1)
  BY <1>5 DEF Can!ToSend
<1> HIDE DEF p, n, f, e, q, f2, x
<1>11. ASSUME NEW d \in 0 .. n PROVE (f2 + d) % Elements = (f + d) % Elements
  <2>1. PICK y \in Nat : y = f + d /\ y < 2 * Elements
    BY <1>1, <1>9, DriversAssumption
  <2>2. PICK z \in Nat : z = f2 + d /\ z < 2 * Elements
    BY <1>1, <1>9, DriversAssumption
  <2>3. y % Elements = IF y < Elements THEN y ELSE y - Elements
    BY <2>1, ModIs
  <2>4. z % Elements = IF z < Elements THEN z ELSE z - Elements
    BY <2>2, ModIs
  <2>5. z = y \/ z = y - Elements
    BY <1>1, <1>3, <1>9, <2>1, <2>2, DriversAssumption
  <2>6. y % Elements = z % Elements
    BY <2>1, <2>2, <2>3, <2>4, <2>5, DriversAssumption
  <2> QED
    BY <2>1, <2>2, <2>6
<1>12. SameElements(c_tx.ram, f2, c_tx.ram, f, n)
  <2> SUFFICES ASSUME NEW k \in 1 .. n
               PROVE  c_tx.ram[(f2 + k - 1) % Elements] = c_tx.ram[(f + k - 1) % Elements]
    BY DEF SameElements
  <2>1. PICK d \in 0 .. n : d = k - 1 /\ f2 + k - 1 = f2 + d /\ f + k - 1 = f + d
    BY <1>9
  <2> QED
    BY <1>11, <2>1
<1>13. c_tx.ram[(f2 + n) % Elements] = x
  <2>1. PICK y \in Nat : y = f + n /\ y = p + Elements /\ y < 2 * Elements
    BY <1>9, DriversAssumption
  <2>2. y % Elements = p
    BY <1>9, <2>1, ModIs, DriversAssumption
  <2>3. n \in 0 .. n
    BY <1>9
  <2>4. (f2 + n) % Elements = p
    BY <1>11, <2>1, <2>2, <2>3
  <2> QED
    BY <2>4 DEF x, p
<1>14. Can!Ring(c_tx.ram, f2, n + 1) = Append(Can!Ring(c_tx.ram, f, n), x)
  BY <1>1, <1>9, <1>12, <1>13, RingGrows
<1> QED
  BY <1>4, <1>7, <1>8, <1>10, <1>14 DEF Can!Received

LEMMA CanAcknowledges == CanInv /\ (Can!Reject \/ Can!Release) =>
                            /\ CanInv' /\ UNCHANGED Can!ToSend
                            /\ Can!Received # <<>> /\ Can!Received' = Tail(Can!Received)
                            /\ c_res' = 1 => c_frame' = Head(Can!Received)
<1> SUFFICES ASSUME CanInv, Can!Reject \/ Can!Release
             PROVE  /\ CanInv' /\ UNCHANGED Can!ToSend
                    /\ Can!Received # <<>> /\ Can!Received' = Tail(Can!Received)
                    /\ c_res' = 1 => c_frame' = Head(Can!Received)
  OBVIOUS
<1> DEFINE f == c_rx.get
           m == c_rx.level
           n == m - 1
           e == f + 1
           q == e % Elements
           ram == c_rx.ram
           ram2 == [ram EXCEPT ![f] = Can!Nothing]
<1>1. /\ f \in Can!Slots /\ m \in 0 .. Elements /\ m > 0 /\ ram \in Ram /\ c_index = f
  BY DEF CanInv, CanTyped, Reading, Can!Reject, Can!Release, Reads
<1>2. /\ e \in Nat /\ e < 2 * Elements /\ n \in Nat /\ n < Elements /\ m \in Nat /\ m = n + 1
      /\ f \in Nat /\ f < Elements /\ e = f + 1
  BY <1>1, DriversAssumption DEF Can!Slots
<1>3. q \in Can!Slots /\ q = (IF e < Elements THEN e ELSE e - Elements)
  BY <1>2, ModIs
<1>4. Can!Nothing \in Element /\ 0 \in Can!Slots
  BY DriversAssumption DEF Can!Nothing, Element, Names, Can!Kinds, Can!Slots
<1>5. ram2 \in Ram
  BY <1>1, <1>4 DEF Ram
<1>6. /\ c_rx' = [c_rx EXCEPT !.ram = ram2, !.get = q, !.level = n]
      /\ UNCHANGED <<c_init, c_filter, c_tx>> /\ c_pc' = "idle" /\ c_index' = 0
  BY <1>1 DEF Can!Reject, Can!Release, Can!Acknowledge, Can!Return, CanInv, CanTyped
<1>7. /\ c_rx' \in [ram: Ram, get: Can!Slots, level: 0 .. Elements]
      /\ c_rx'.get = q /\ c_rx'.level = n /\ c_rx'.ram = ram2
  <2>1. n \in 0 .. Elements
    BY <1>2, DriversAssumption
  <2> QED
    BY <1>3, <1>5, <1>6, <2>1 DEF CanInv, CanTyped
<1>8. c_frame' \in Element /\ c_res' \in {0, 1} /\ (c_res' = 1 => c_frame' = ram[f])
  <2>1. CASE Can!Reject
    BY <1>4, <2>1 DEF Can!Reject, Can!Return
  <2>2. CASE Can!Release
    <3>1. ram[f] \in Element /\ c_frame \in Element
      BY <1>1 DEF Ram, CanInv, CanTyped
    <3>2. /\ ram[f].head = c_frame.head /\ ram[f].kind = c_frame.kind
          /\ ram[f].body = c_frame.body
      BY <1>1, <2>2 DEF Can!Release, CanInv, Reading
    <3>3. ram[f] = c_frame
      BY <3>1, <3>2 DEF Element
    <3> QED
      BY <2>2, <3>1, <3>3 DEF Can!Release
  <2> QED
    BY <2>1, <2>2
<1>9. CanInv'
  BY <1>4, <1>6, <1>7, <1>8 DEF CanInv, CanTyped, Sending, Reading, Sends, Reads
<1>10. /\ Can!Received = Can!Ring(ram, f, m) /\ Can!Received' = Can!Ring(ram2, q, n)
       /\ UNCHANGED Can!ToSend
  BY <1>6, <1>7 DEF Can!Received, Can!ToSend
<1>11. ASSUME NEW k \in 1 .. n PROVE ram2[(q + k - 1) % Elements] = ram[((f + 1) + k - 1) % Elements]
  <2>1. PICK y \in Nat : y = (f + 1) + k - 1 /\ y < 2 * Elements /\ y > f /\ y < f + Elements
    BY <1>2, DriversAssumption
  <2>2. PICK z \in Nat : z = q + k - 1 /\ z < 2 * Elements
    BY <1>2, <1>3, DriversAssumption
  <2>3. /\ y % Elements = IF y < Elements THEN y ELSE y - Elements
        /\ y % Elements \in Can!Slots
    BY <2>1, ModIs
  <2>4. z % Elements = IF z < Elements THEN z ELSE z - Elements
    BY <2>2, ModIs
  <2>5. z = y \/ z = y - Elements
    BY <1>2, <1>3, <2>1, <2>2, DriversAssumption
  <2>6. y % Elements = z % Elements /\ y % Elements # f
    BY <1>2, <2>1, <2>2, <2>3, <2>4, <2>5, DriversAssumption
  <2>7. ram2[y % Elements] = ram[y % Elements]
    BY <1>1, <2>3, <2>6 DEF Ram
  <2> QED
    BY <2>1, <2>2, <2>6, <2>7
<1>12. SameElements(ram2, q, ram, f + 1, n)
  BY <1>11 DEF SameElements
<1>13. f + m <= 2 * Elements /\ q + n <= 2 * Elements /\ q \in Nat
  BY <1>2, <1>3, DriversAssumption DEF Can!Slots
<1>14. f % Elements = f
  BY <1>2, ModIs, DriversAssumption
<1> HIDE DEF f, m, n, e, q, ram, ram2
<1>15. Taken(Can!Ring(ram, f, m), ram[f % Elements], Can!Ring(ram2, q, n))
  BY <1>1, <1>2, <1>5, <1>12, <1>13, RingShrinks
<1> QED
  BY <1>8, <1>9, <1>10, <1>14, <1>15 DEF Taken

LEMMA CanConfigures == CanInv /\ Can!Configure =>
                          CanInv' /\ c_init /\ Can!ToSend' = <<>> /\ Can!Received' = <<>>
<1> SUFFICES ASSUME CanInv, Can!Configure
             PROVE  CanInv' /\ c_init /\ Can!ToSend' = <<>> /\ Can!Received' = <<>>
  OBVIOUS
<1>1. Can!Empty \in Ram
  BY DEF Can!Nothing, Can!Empty, Element, Names, Can!Kinds, Ram
<1>2. 0 \in Can!Slots /\ 0 \in 0 .. Elements
  BY DriversAssumption DEF Can!Slots
<1>3. /\ c_tx' = [ram |-> Can!Empty, put |-> 0, level |-> 0]
      /\ c_rx' = [ram |-> Can!Empty, get |-> 0, level |-> 0]
      /\ c_pc' = "configured" /\ UNCHANGED <<c_init, c_index, c_frame, c_res>>
  BY DEF Can!Configure, Can!Goto
<1>4. CanTyped'
  BY <1>1, <1>2, <1>3 DEF CanInv, CanTyped
<1>5. CanInv' /\ c_init
  BY <1>3, <1>4 DEF CanInv, Sending, Reading, Sends, Reads, Can!Configure
<1>6. \A ram, first : Can!Ring(ram, first, 0) = <<>>
  BY DEF Can!Ring
<1>7. Can!ToSend' = <<>> /\ Can!Received' = <<>>
  BY <1>3, <1>6 DEF Can!ToSend, Can!Received
<1> QED
  BY <1>5, <1>7

\* The other steps leave both FIFOs alone.
CanElse == \/ Can!BusOff \/ Can!CallInit \/ Can!CallSend \/ Can!CallRead
           \/ Can!BadRate \/ Can!WaitExpires \/ Can!EnterInit \/ Can!LeaveInit \/ Can!InitDone
           \/ Can!TestFull \/ Can!PutIndex \/ Can!TestEmpty \/ Can!GetIndex \/ Can!ReadHead
           \/ Can!Supported \/ Can!ReadBody

LEMMA CanRest == CanInv /\ CanElse => CanInv' /\ UNCHANGED <<c_tx, c_rx>>
<1> SUFFICES ASSUME CanInv, CanElse PROVE CanInv' /\ UNCHANGED <<c_tx, c_rx>>
  OBVIOUS
<1>1. Can!Nothing \in Element /\ 0 \in Can!Slots
  BY DriversAssumption DEF Can!Nothing, Element, Names, Can!Kinds, Can!Slots
<1>2. c_tx.put \in Can!Slots /\ c_rx.get \in Can!Slots /\ c_tx.ram \in Ram /\ c_rx.ram \in Ram
      /\ c_tx.level \in 0 .. Elements /\ c_rx.level \in 0 .. Elements
  BY DEF CanInv, CanTyped
<1>3. UNCHANGED <<c_tx, c_rx>>
  BY DEF CanElse, Can!BusOff, Can!CallInit, Can!CallSend, Can!CallRead, Can!Call, Can!BadRate,
     Can!WaitExpires, Can!EnterInit, Can!LeaveInit, Can!InitDone, Can!TestFull, Can!PutIndex,
     Can!TestEmpty, Can!GetIndex, Can!ReadHead, Can!Supported, Can!ReadBody, Can!ctrl
<1> USE DEF CanInv, CanTyped, Sending, Reading, Sends, Reads, Can!Return, Can!Goto, Can!ctrl, Can!drv
<1>4. CASE Can!BusOff \/ Can!EnterInit \/ Can!LeaveInit
  BY <1>3, <1>4 DEF Can!BusOff, Can!EnterInit, Can!LeaveInit
<1>5. CASE Can!CallInit \/ Can!CallRead
  BY <1>1, <1>3, <1>5 DEF Can!CallInit, Can!CallRead, Can!Call
<1>6. CASE Can!CallSend
  <2>1. PICK g \in Frames : Can!Call("send", Can!Whole(g, "data"))
    BY <1>6 DEF Can!CallSend
  <2>2. Can!Whole(g, "data") \in Element
    BY DEF Can!Whole, Element, Names, Can!Kinds
  <2> QED
    BY <1>3, <2>1, <2>2 DEF Can!Call, Can!Whole
<1>7. CASE Can!BadRate \/ Can!WaitExpires \/ Can!InitDone
  BY <1>1, <1>3, <1>7 DEF Can!BadRate, Can!WaitExpires, Can!InitDone
<1>8. CASE Can!TestFull
  <2>1. c_tx.level = Elements \/ c_tx.level < Elements
    BY <1>2, DriversAssumption
  <2>2. CASE c_tx.level = Elements
    BY <1>1, <1>3, <1>8, <2>2 DEF Can!TestFull
  <2>3. CASE c_tx.level < Elements
    <3>1. c_tx.level # Elements
      BY <1>2, <2>3, DriversAssumption
    <3>2. c_pc = "send" /\ c_pc' = "put" /\ UNCHANGED <<c_init, c_index, c_frame, c_res>>
      BY <1>8, <3>1 DEF Can!TestFull
    <3> QED
      BY <1>3, <2>3, <3>2
  <2> QED
    BY <2>1, <2>2, <2>3
<1>9. CASE Can!PutIndex
  BY <1>2, <1>3, <1>9 DEF Can!PutIndex
<1>10. CASE Can!TestEmpty
  BY <1>1, <1>2, <1>3, <1>10 DEF Can!TestEmpty
<1>11. CASE Can!GetIndex
  BY <1>2, <1>3, <1>11 DEF Can!GetIndex
<1>12. CASE Can!ReadHead
  <2>1. c_rx.ram[c_index] \in Element
    BY <1>2 DEF Ram
  <2>2. /\ c_frame' \in Element /\ c_frame'.head = c_rx.ram[c_index].head
        /\ c_frame'.kind = c_rx.ram[c_index].kind
    BY <1>12, <2>1 DEF Can!ReadHead, Element
  <2> QED
    BY <1>3, <1>12, <2>2 DEF Can!ReadHead
<1>13. CASE Can!Supported
  BY <1>3, <1>13 DEF Can!Supported
<1>14. CASE Can!ReadBody
  <2>1. c_rx.ram[c_index] \in Element
    BY <1>2 DEF Ram
  <2>2. /\ c_frame' \in Element /\ c_frame'.head = c_frame.head /\ c_frame'.kind = c_frame.kind
        /\ c_frame'.body = c_rx.ram[c_index].body
    BY <1>14, <2>1 DEF Can!ReadBody, Element
  <2> QED
    BY <1>3, <1>14, <2>2 DEF Can!ReadBody
<1> QED
  BY <1>3, <1>4, <1>5, <1>6, <1>7, <1>8, <1>9, <1>10, <1>11, <1>12, <1>13, <1>14 DEF CanElse

SendStep == \/ \E f \in Frames : Can!ToSend' = Append(Can!ToSend, Can!Whole(f, "data"))
            \/ Can!ToSend # <<>> /\ Can!ToSend' = Tail(Can!ToSend)
            \/ c_init /\ Can!ToSend' = <<>>
            \/ UNCHANGED Can!ToSend

ReadStep == \/ \E f \in Frames, kind \in Can!Kinds :
                  Can!Received' = Append(Can!Received, Can!Whole(f, kind))
            \/ /\ Can!Received # <<>> /\ Can!Received' = Tail(Can!Received)
               /\ c_res' = 1 => c_frame' = Head(Can!Received)
            \/ c_init /\ Can!Received' = <<>>
            \/ UNCHANGED Can!Received

LEMMA CanStep == CanInv /\ Can!Next => CanInv' /\ SendStep /\ ReadStep
<1> SUFFICES ASSUME CanInv, Can!Next PROVE CanInv' /\ SendStep /\ ReadStep
  OBVIOUS
<1> USE DEF SendStep, ReadStep
<1>1. CASE Can!Transmit
  <2>1. UNCHANGED Can!Received
    BY <1>1 DEF Can!Transmit, Can!Received
  <2> QED
    BY <1>1, <2>1, CanTransmits
<1>2. CASE \E f \in Frames, kind \in Can!Kinds : Can!Receive(f, kind)
  <2>1. PICK f \in Frames, kind \in Can!Kinds : Can!Receive(f, kind)
    BY <1>2
  <2>2. UNCHANGED Can!ToSend
    BY <2>1 DEF Can!Receive, Can!ToSend
  <2> QED
    BY <2>1, <2>2, CanReceives
<1>3. CASE Can!WriteHead \/ Can!WriteBody
  BY <1>3, CanWrites
<1>4. CASE Can!Request
  BY <1>4, CanRequests
<1>5. CASE Can!Reject \/ Can!Release
  BY <1>5, CanAcknowledges
<1>6. CASE Can!Configure
  BY <1>6, CanConfigures
<1>7. CASE CanElse
  BY <1>7, CanRest DEF Can!ToSend, Can!Received
<1> QED
  BY <1>1, <1>2, <1>3, <1>4, <1>5, <1>6, <1>7 DEF Can!Next, Can!Driver, Can!FDCAN_Init,
     Can!FDCAN_Send, Can!FDCAN_Read, CanElse

LEMMA CanSame == CanInv /\ UNCHANGED cVars => CanInv' /\ SendStep /\ ReadStep
BY DEF cVars, CanInv, CanTyped, Sending, Reading, SendStep, ReadStep, Can!ToSend, Can!Received

-----------------------------------------------------------------------------
(* The I2C master                                                          *)

Flags   == {"BUSY", "TXIS", "RXNE", "STOPF", "TC", "NACKF"}
Phases  == {"idle", "start", "address", "tx", "sending", "rx", "hold", "stop"}
Octets  == Regs \cup Nat
Items == Regs \X {0, 1} \X Nat
Transfer == [phase: Phases, rd: BOOLEAN, left: Nat, autoend: BOOLEAN]
Device   == [reg: Regs, got: Seq(Octets), sent: Nat, tag: {0, 1}]
Before  == {"idle", "free", "clear", "start"}
Closing == {"restart", "ack"}

\* The wait a call is at, or has just left.
Stage == IF i_pc \in I2c!Waits THEN i_pc ELSE IF i_pc \in {"check", "move"} THEN i_wait
         ELSE IF i_pc = "restart" THEN "TC" ELSE IF i_pc = "ack" THEN "STOP" ELSE "none"

Fetching == Stage = "RX" \/ (Stage = "STOP" /\ i_req.op # "write")

I2cTyped ==
    /\ i_flags \subseteq Flags
    /\ i_bus \in Transfer
    /\ i_txdr \in Octets /\ i_rxdr \in Items \cup {<<>>}
    /\ i_dev \in Device
    /\ i_hung \in BOOLEAN /\ i_cause \in BOOLEAN /\ i_clean \in BOOLEAN
    /\ i_pc \in Before \cup Closing \cup I2c!Waits \cup {"check", "move"}
    /\ i_pc \in {"check", "move"} => i_wait \in I2c!Waits
    /\ i_pc # "idle" => i_req \in I2c!Requests /\ i_res = "none"
    /\ i_buf \in Seq(Octets \cup Items)
    /\ i_res \in {"none", "true", "false"}

\* What the flags say of the peripheral, whatever calls have left behind.
Signals ==
    /\ "TXIS" \in i_flags <=> i_bus.phase = "tx"
    /\ "TC" \in i_flags <=> i_bus.phase = "hold"
    /\ "STOPF" \in i_flags => i_bus.phase = "idle"
    /\ "NACKF" \in i_flags => i_bus.phase \in {"stop", "idle"}
    /\ "RXNE" \in i_flags <=> i_rxdr # <<>>
    /\ i_bus.phase = "idle" => "BUSY" \notin i_flags
    /\ i_bus.phase \notin {"idle", "start"} => "BUSY" \in i_flags
    /\ i_bus.phase = "start" /\ (i_hung \/ i_pc \in Before) => "BUSY" \in i_flags
    /\ i_hung => i_cause /\ i_bus.phase \notin {"idle", "stop"}
    /\ i_bus.phase \in {"start", "address", "tx", "sending", "rx"} => i_bus.left > 0
    /\ i_bus.phase = "sending" /\ i_dev.got = <<>> => i_txdr \in Regs

\* What a call knows of the flags.
Knows ==
    /\ i_pc \in {"clear", "start"} => i_bus.phase = "idle"
    /\ i_pc \in {"free", "clear", "start"} => i_buf = <<>>
    /\ i_pc = "start" => i_flags \cap {"STOPF", "NACKF"} = {}
    /\ i_pc \notin {"idle", "free", "clear"} /\ "NACKF" \in i_flags => i_cause
    /\ i_pc = "check" => i_flags \cap (I2c!Awaited[i_wait] \cup {"NACKF"}) # {}
    /\ i_pc = "move" => i_wait \in {"TX", "RX", "REG"} /\ i_flags \cap I2c!Awaited[i_wait] # {}
    /\ i_pc = "move" /\ i_wait # "RX" => "NACKF" \notin i_flags
    /\ i_pc = "restart" => i_bus.phase = "hold"
    /\ i_pc = "ack" => "STOPF" \in i_flags /\ "NACKF" \notin i_flags
    /\ Stage = "TX" => i_req.op = "write"
    /\ Stage \in {"REG", "TC"} => i_req.op = "read"
    /\ Stage = "RX" => i_req.op \in {"read", "readRaw"}

\* A write, or the first bytes of it: what is in TXDR has left buf and not
\* reached the device.
WriteCall ==
    Stage \in {"TX", "STOP"} /\ i_req.op = "write" =>
        /\ Len(i_buf) <= i_req.n + 1
        /\ Stage = "TX" => Len(i_buf) < i_req.n + 1
        /\ Stage = "STOP" => Len(i_buf) = i_req.n + 1
        /\ \A k \in 1 .. Len(i_buf) : i_buf[k] = I2c!Bytes(i_req)[k]
        /\ i_bus.phase \notin {"rx", "hold"}
        /\ i_bus.phase \in {"start", "address", "tx", "sending"} => ~i_bus.rd /\ i_bus.autoend
        /\ i_bus.phase \in {"start", "address"} => i_buf = <<>> /\ i_bus.left = i_req.n + 1
        /\ i_bus.phase = "address" => i_dev.got = <<>>
        /\ i_bus.phase = "tx" => i_dev.got = i_buf /\ i_bus.left = i_req.n + 1 - Len(i_buf)
        /\ i_bus.phase = "sending" => /\ i_buf = Append(i_dev.got, i_txdr)
                                      /\ i_bus.left = i_req.n + 2 - Len(i_buf)
        /\ i_bus.phase \in {"stop", "idle"} /\ "NACKF" \notin i_flags =>
              i_dev.got = i_buf /\ Len(i_buf) = i_req.n + 1
        /\ i_bus.phase = "idle" => "STOPF" \in i_flags

\* The address of a register, ahead of the repeated START.
RegisterCall ==
    Stage \in {"REG", "TC"} =>
        /\ i_buf = <<>> /\ i_bus.phase # "rx"
        /\ i_bus.phase \in {"start", "address", "tx", "sending"} =>
              ~i_bus.rd /\ ~i_bus.autoend /\ i_bus.left = 1
        /\ i_bus.phase \in {"address", "tx", "sending"} => i_dev.got = <<>>
        /\ i_bus.phase = "sending" => i_txdr = i_req.reg
        /\ i_bus.phase = "hold" => i_dev.reg = i_req.reg
        /\ i_bus.phase \in {"stop", "idle"} => "NACKF" \in i_flags
        /\ Stage = "REG" => i_bus.phase \notin {"sending", "hold"}
        /\ Stage = "TC" => i_bus.phase \notin {"start", "address", "tx"}

\* The bytes of a read that are on the driver's side and not from the device: what
\* an earlier call left in RXDR.
Surplus == Len(i_buf) + (IF "RXNE" \in i_flags THEN 1 ELSE 0)
        - (IF i_bus.phase = "start" THEN 0 ELSE i_dev.sent)

\* A read: buf and RXDR have what the device has sent, behind at most one byte
\* left over.
ReadCall ==
    Fetching =>
        /\ Len(i_buf) <= i_req.n
        /\ Stage = "RX" => Len(i_buf) < i_req.n
        /\ Stage = "STOP" => Len(i_buf) = i_req.n
        /\ i_bus.phase \in {"start", "address", "rx", "stop", "idle"}
        /\ i_bus.phase \in {"start", "address", "rx"} => i_bus.rd /\ i_bus.autoend
        /\ i_bus.phase \in {"start", "address"} => i_bus.left = i_req.n
        /\ i_bus.phase = "address" => i_dev.sent = 0
        /\ i_bus.phase = "rx" => i_bus.left = i_req.n - i_dev.sent
        /\ i_bus.phase \in {"stop", "idle"} =>
              IF "NACKF" \in i_flags THEN i_dev.sent = 0 ELSE i_dev.sent = i_req.n
        /\ i_bus.phase = "idle" => "STOPF" \in i_flags
        /\ Surplus \in {0, 1} /\ (i_clean => Surplus = 0)
        /\ "RXNE" \in i_flags /\ i_bus.phase # "start" /\ i_dev.sent > 0 =>
              i_rxdr = <<i_dev.reg, i_dev.tag, i_dev.sent>>
        /\ \A k \in 1 .. Len(i_buf) : k > Surplus => i_buf[k] = <<i_dev.reg, i_dev.tag, k - Surplus>>
        /\ i_req.op = "read" => i_dev.reg = i_req.reg

\* Until a wait has expired nothing is left over for the next call.
NothingLeft ==
    i_clean => /\ ~Fetching => "RXNE" \notin i_flags
               /\ i_pc \in Before => i_bus.phase \in {"idle", "stop"}

\* What a call has returned stays true until the next.
Returned ==
    /\ i_res = "true" => /\ i_bus.phase = "idle" /\ i_req \in I2c!Requests
                         /\ i_req.op # "readRaw"
    /\ i_res = "true" /\ i_req.op = "write" => i_dev.got = I2c!Bytes(i_req)
    /\ I2c!OwnAnswer
    /\ i_res = "false" =>
          \/ i_cause \/ i_req.op = "readRaw"
          \/ /\ ~i_clean
             /\ i_bus.phase \in {"hold", "tx"} \/ (i_bus.phase = "rx" /\ "RXNE" \in i_flags)

I2cInv == /\ I2cTyped /\ Signals /\ Knows /\ WriteCall /\ RegisterCall /\ ReadCall
          /\ NothingLeft /\ Returned

LEMMA AwaitedIs == /\ I2c!Awaited["TX"] = {"TXIS", "STOPF"} /\ I2c!Awaited["RX"] = {"RXNE", "STOPF"}
                   /\ I2c!Awaited["STOP"] = {"STOPF"} /\ I2c!Awaited["REG"] = {"TXIS"}
                   /\ I2c!Awaited["TC"] = {"TC"}
BY DEF I2c!Awaited

LEMMA BytesAre ==
  ASSUME NEW r \in I2c!Writes
  PROVE  /\ I2c!Bytes(r) \in Seq(Octets) /\ Len(I2c!Bytes(r)) = r.n + 1
         /\ I2c!Bytes(r)[1] = r.reg /\ r.reg \in Regs /\ r.n \in Nat
<1> DEFINE s == [k \in 1 .. r.n |-> k]
<1>1. r.reg \in Regs /\ r.n \in Nat
  BY DriversAssumption DEF I2c!Writes
<1>2. s \in Seq(Octets) /\ Len(s) = r.n
  BY <1>1 DEF Octets
<1>3. <<r.reg>> \in Seq(Octets) /\ Len(<<r.reg>>) = 1 /\ <<r.reg>>[1] = r.reg
  BY <1>1 DEF Octets
<1> HIDE DEF s
<1>4. /\ <<r.reg>> \o s \in Seq(Octets) /\ Len(<<r.reg>> \o s) = r.n + 1
      /\ (<<r.reg>> \o s)[1] = r.reg
  BY <1>1, <1>2, <1>3, ConcatProperties
<1> QED
  BY <1>1, <1>4 DEF I2c!Bytes, s

LEMMA RequestsAre ==
  ASSUME NEW r \in I2c!Requests
  PROVE  /\ r.op \in {"write", "read", "readRaw"} /\ r.n \in Nat
         /\ r.op = "write" => r \in I2c!Writes
         /\ r.op # "write" => r.n > 0
         /\ r.op # "readRaw" => r.reg \in Regs
BY DriversAssumption DEF I2c!Requests, I2c!Writes, I2c!Reads, I2c!RawReads

LEMMA I2cFacts ==
  ASSUME I2cInv
  PROVE  /\ i_bus.phase \in Phases /\ i_bus.rd \in BOOLEAN /\ i_bus.left \in Nat /\ i_bus.autoend \in BOOLEAN
         /\ i_dev.reg \in Regs /\ i_dev.got \in Seq(Octets) /\ i_dev.sent \in Nat /\ i_dev.tag \in {0, 1}
         /\ i_buf \in Seq(Octets \cup Items) /\ Len(i_buf) \in Nat /\ Len(i_dev.got) \in Nat
         /\ Stage \in I2c!Waits \cup {"none"}
         /\ i_pc \in {"check", "move"} => i_wait \in I2c!Waits
         /\ Stage = "none" => i_pc \in Before
         /\ Stage # "none" => /\ i_pc # "idle" /\ i_req \in I2c!Requests /\ i_req.n \in Nat
                              /\ i_req.op \in {"write", "read", "readRaw"} /\ i_res = "none"
                              /\ i_req.op # "write" => i_req.n > 0
                              /\ i_req.op # "readRaw" => i_req.reg \in Regs
<1>1. /\ i_bus.phase \in Phases /\ i_bus.rd \in BOOLEAN /\ i_bus.left \in Nat /\ i_bus.autoend \in BOOLEAN
  BY DEF I2cInv, I2cTyped, Transfer
<1>2. i_dev.reg \in Regs /\ i_dev.got \in Seq(Octets) /\ i_dev.sent \in Nat /\ i_dev.tag \in {0, 1}
  BY DEF I2cInv, I2cTyped, Device
<1>3. i_buf \in Seq(Octets \cup Items) /\ Len(i_buf) \in Nat
  BY DEF I2cInv, I2cTyped
<1>4. /\ Stage \in I2c!Waits \cup {"none"} /\ (Stage # "none" => i_pc # "idle")
      /\ i_pc \in {"check", "move"} => i_wait \in I2c!Waits
      /\ Stage = "none" => i_pc \in Before
  BY DEF I2cInv, I2cTyped, Stage, I2c!Waits, Before, Closing
<1>5. i_pc # "idle" => i_req \in I2c!Requests /\ i_res = "none"
  BY DEF I2cInv, I2cTyped
<1> QED
  BY <1>1, <1>2, <1>3, <1>4, <1>5, RequestsAre

(* The peripheral's steps, in each of which the driver stands still. *)
CallStill == ~i_hung /\ UNCHANGED <<i_hung, i_pc, i_wait, i_req, i_buf, i_res, i_clean>>

LEMMA I2cStarts == I2cInv /\ I2c!Start /\ CallStill => I2cInv'
<1> SUFFICES ASSUME I2cInv, I2c!Start, CallStill PROVE I2cInv'
  OBVIOUS
<1>1. /\ i_bus' \in Transfer /\ i_bus'.phase = "address" /\ i_bus.phase = "start"
      /\ i_bus'.rd = i_bus.rd /\ i_bus'.left = i_bus.left /\ i_bus'.autoend = i_bus.autoend
  BY DEF I2cInv, I2cTyped, Transfer, Phases, I2c!Start
<1>2. /\ i_dev' \in Device /\ i_dev'.got = <<>> /\ i_dev'.sent = 0 /\ i_dev'.reg = i_dev.reg
  <2>1. <<>> \in Seq(Octets)
    OBVIOUS
  <2>2. i_dev \in Device /\ i_dev.tag \in {0, 1}
    BY DEF I2cInv, I2cTyped, Device
  <2>3. PICK t \in {0, 1} : t = IF i_bus.rd THEN 1 - i_dev.tag ELSE i_dev.tag
    BY <2>2
  <2>4. i_dev' = [i_dev EXCEPT !.got = <<>>, !.sent = 0, !.tag = t]
    BY <2>3 DEF I2c!Start
  <2> QED
    BY <2>1, <2>2, <2>4 DEF Device
<1>3. i_flags' = i_flags \cup {"BUSY"} /\ UNCHANGED <<i_txdr, i_rxdr, i_cause>>
  BY DEF I2c!Start
<1>4. I2cTyped'
  BY <1>1, <1>2, <1>3 DEF I2cInv, I2cTyped, CallStill, Flags
<1> USE DEF I2cInv, Signals, Knows, WriteCall, RegisterCall, ReadCall, Surplus, NothingLeft, Returned,
           Before, Closing, Stage, Fetching, I2c!Waits, I2c!OwnAnswer
<1>5. Signals' /\ Knows'
  BY <1>1, <1>2, <1>3 DEF CallStill
<1>6. WriteCall' /\ RegisterCall'
  BY <1>1, <1>2, <1>3 DEF CallStill
<1>7. ReadCall'
  BY <1>1, <1>2, <1>3, I2cFacts DEF CallStill
<1>9. NothingLeft'
  BY <1>1, <1>2, <1>3 DEF CallStill
<1>8. Returned'
  BY <1>1, <1>3 DEF CallStill
<1> QED
  BY <1>4, <1>5, <1>6, <1>7, <1>8, <1>9

LEMMA I2cAddresses == I2cInv /\ I2c!AddressAcked /\ CallStill => I2cInv'
<1> SUFFICES ASSUME I2cInv, I2c!AddressAcked, CallStill PROVE I2cInv'
  OBVIOUS
<1>1. /\ i_bus' \in Transfer /\ i_bus.phase = "address"
      /\ i_bus'.phase = (IF i_bus.rd THEN "rx" ELSE "tx")
      /\ i_bus'.rd = i_bus.rd /\ i_bus'.left = i_bus.left /\ i_bus'.autoend = i_bus.autoend
  BY DEF I2cInv, I2cTyped, Transfer, Phases, I2c!AddressAcked
<1>2. /\ i_flags' = (IF i_bus.rd THEN i_flags ELSE i_flags \cup {"TXIS"})
      /\ UNCHANGED <<i_txdr, i_rxdr, i_dev, i_cause>>
  BY DEF I2c!AddressAcked
<1>3. I2cTyped'
  BY <1>1, <1>2 DEF I2cInv, I2cTyped, CallStill, Flags
<1> USE DEF I2cInv, Signals, Knows, WriteCall, RegisterCall, ReadCall, Surplus, NothingLeft, Returned,
           Before, Closing, Stage, Fetching, I2c!Waits, I2c!OwnAnswer
<1>4. i_bus.rd \in BOOLEAN /\ i_dev.sent \in Nat
  BY DEF I2cTyped, Transfer, Device
<1>5. Signals' /\ Knows'
  BY <1>1, <1>2, <1>4 DEF CallStill
<1>6. WriteCall' /\ RegisterCall'
  BY <1>1, <1>2, <1>4 DEF CallStill
<1>7. ReadCall'
  BY <1>1, <1>2, I2cFacts DEF CallStill
<1>9. NothingLeft'
  BY <1>1, <1>2 DEF CallStill
<1>8. Returned'
  BY <1>1, <1>2 DEF CallStill
<1> QED
  BY <1>3, <1>5, <1>6, <1>7, <1>8, <1>9

LEMMA I2cNacks == I2cInv /\ I2c!Nacked /\ CallStill => I2cInv'
<1> SUFFICES ASSUME I2cInv, I2c!Nacked, CallStill PROVE I2cInv'
  OBVIOUS
<1>1. /\ i_bus' \in Transfer /\ i_bus.phase \in {"address", "sending"} /\ i_bus'.phase = "stop"
  BY DEF I2cInv, I2cTyped, Transfer, Phases, I2c!Nacked
<1>2. /\ i_flags' = i_flags \cup {"NACKF"} /\ i_cause' = TRUE /\ i_txdr' = 0
      /\ UNCHANGED <<i_rxdr, i_dev>>
  BY DEF I2c!Nacked
<1>3. I2cTyped'
  BY <1>1, <1>2 DEF I2cInv, I2cTyped, CallStill, Flags, Octets
<1> USE DEF I2cInv, Signals, Knows, WriteCall, RegisterCall, ReadCall, Surplus, NothingLeft, Returned,
           Before, Closing, Stage, Fetching, I2c!Waits, I2c!OwnAnswer
<1>4. "NACKF" \notin i_flags
  BY <1>1
<1>5. i_buf \in Seq(Octets \cup Items)
  BY DEF I2cTyped
<1>6. Signals'
  BY <1>1, <1>2, <1>4 DEF CallStill
<1>7. Knows'
  BY <1>1, <1>2, <1>4, AwaitedIs DEF CallStill
<1>8. WriteCall' /\ RegisterCall'
  BY <1>1, <1>2, <1>4 DEF CallStill
<1>9. ReadCall'
  <2> SUFFICES ASSUME Fetching PROVE ReadCall'
    BY DEF CallStill
  <2>1. i_bus.phase = "address" /\ i_dev.sent = 0
    BY <1>1
  <2> HIDE DEF I2cInv, Signals, WriteCall, RegisterCall, NothingLeft, Returned, I2c!OwnAnswer,
              Stage, Fetching, Knows, Before, Closing, I2c!Waits
  <2>2. ReadCall /\ (Stage = Stage') /\ (Fetching = Fetching')
    BY DEF I2cInv, CallStill, Stage, Fetching
  <2>3. Surplus' = Surplus
    BY <1>1, <1>2, <2>1 DEF CallStill
  <2> HIDE DEF Surplus
  <2> QED
    BY <1>1, <1>2, <1>4, <2>1, <2>2, <2>3 DEF CallStill
<1>11. NothingLeft'
  BY <1>1, <1>2, <1>4 DEF CallStill
<1>10. Returned'
  BY <1>1, <1>2 DEF CallStill
<1> QED
  BY <1>3, <1>6, <1>7, <1>8, <1>9, <1>10, <1>11

LEMMA I2cByteAcked == I2cInv /\ I2c!ByteAcked /\ CallStill => I2cInv'
<1> SUFFICES ASSUME I2cInv, I2c!ByteAcked, CallStill PROVE I2cInv'
  OBVIOUS
<1> DEFINE left == i_bus.left - 1
           next == IF i_bus.left > 1 THEN "tx" ELSE IF i_bus.autoend THEN "stop" ELSE "hold"
<1>1. i_bus.phase = "sending" /\ i_bus.left > 0 /\ left \in Nat /\ i_bus.autoend \in BOOLEAN
  BY I2cFacts DEF I2cInv, Signals, I2c!ByteAcked
<1>2. /\ i_bus' \in Transfer /\ i_bus'.phase = next /\ i_bus'.left = left
      /\ i_bus'.rd = i_bus.rd /\ i_bus'.autoend = i_bus.autoend
  <2>1. i_bus' = [i_bus EXCEPT !.left = left, !.phase = next]
    BY DEF I2c!ByteAcked
  <2>2. next \in Phases /\ i_bus \in Transfer
    BY DEF Phases, I2cInv, I2cTyped
  <2> QED
    BY <1>1, <2>1, <2>2 DEF Transfer
<1>3. /\ i_flags' = IF i_bus.left > 1 THEN i_flags \cup {"TXIS"}
                    ELSE IF i_bus.autoend THEN i_flags ELSE i_flags \cup {"TC"}
      /\ i_txdr' = 0 /\ UNCHANGED <<i_rxdr, i_cause>>
  BY DEF I2c!ByteAcked
<1>4. /\ i_dev' \in Device /\ i_dev'.got = Append(i_dev.got, i_txdr)
      /\ i_dev'.reg = (IF i_dev.got = <<>> THEN i_txdr ELSE i_dev.reg)
      /\ i_dev'.sent = i_dev.sent /\ i_dev'.tag = i_dev.tag
  <2>1. PICK r \in Regs : r = IF i_dev.got = <<>> THEN i_txdr ELSE i_dev.reg
    BY <1>1, I2cFacts DEF I2cInv, Signals
  <2>2. PICK g \in Seq(Octets) : g = Append(i_dev.got, i_txdr)
    BY I2cFacts, AppendProperties DEF I2cInv, I2cTyped
  <2>3. i_dev' = [i_dev EXCEPT !.reg = r, !.got = g]
    BY <2>1, <2>2 DEF I2c!ByteAcked
  <2>4. i_dev \in Device
    BY DEF I2cInv, I2cTyped
  <2> QED
    BY <2>1, <2>2, <2>3, <2>4 DEF Device
<1>5. i_dev'.got # <<>>
  BY <1>4, I2cFacts, AppendProperties DEF I2cInv, I2cTyped
<1> HIDE DEF left
<1>6. I2cTyped'
  BY <1>1, <1>2, <1>3, <1>4 DEF I2cInv, I2cTyped, CallStill, Flags, Octets
<1>7. Signals'
  <2>1. left > 0 <=> i_bus.left > 1
    BY I2cFacts DEF left
  <2> QED
    BY <1>1, <1>2, <1>3, <1>5, <2>1 DEF I2cInv, Signals, CallStill, Before
<1>8. UNCHANGED <<Stage, Fetching>>
  BY DEF CallStill, Stage, Fetching
<1>9. Knows'
  <2>1. ~(i_pc \in {"clear", "start", "restart"})
    BY <1>1 DEF I2cInv, Knows
  <2> QED
    BY <1>1, <1>3, <1>8, <2>1, AwaitedIs DEF I2cInv, Knows, Signals, CallStill
<1>10. WriteCall'
  <2> SUFFICES ASSUME Stage \in {"TX", "STOP"}, i_req.op = "write" PROVE WriteCall'
    BY <1>8 DEF CallStill, WriteCall
  <2>1. /\ i_buf = Append(i_dev.got, i_txdr) /\ i_bus.left = i_req.n + 2 - Len(i_buf)
        /\ i_req.n \in Nat /\ Len(i_buf) \in Nat /\ i_bus.left \in Nat
    BY <1>1, I2cFacts DEF I2cInv, WriteCall
  <2>2. i_dev'.got = i_buf /\ left = i_req.n + 1 - Len(i_buf)
    BY <1>4, <2>1 DEF left
  <2>3. ~(i_bus.left > 1) => Len(i_buf) = i_req.n + 1
    BY <1>1, <2>1
  <2> QED
    BY <1>1, <1>2, <1>3, <1>8, <2>2, <2>3 DEF I2cInv, WriteCall, CallStill
<1>11. RegisterCall'
  BY <1>1, <1>2, <1>3, <1>4, <1>8 DEF I2cInv, RegisterCall, CallStill
<1>12. ReadCall' /\ NothingLeft'
  BY <1>1, <1>3, <1>8 DEF I2cInv, ReadCall, Surplus, NothingLeft, CallStill, Before
<1>13. Returned'
  BY <1>1, <1>3, <1>4 DEF I2cInv, Returned, CallStill, I2c!OwnAnswer
<1> QED
  BY <1>6, <1>7, <1>9, <1>10, <1>11, <1>12, <1>13 DEF I2cInv

LEMMA I2cByteReceived == I2cInv /\ I2c!ByteReceived /\ CallStill => I2cInv'
<1> SUFFICES ASSUME I2cInv, I2c!ByteReceived, CallStill PROVE I2cInv'
  OBVIOUS
<1> DEFINE left == i_bus.left - 1
           sent == i_dev.sent + 1
           next == IF i_bus.left > 1 THEN "rx" ELSE "stop"
<1>1. /\ i_bus.phase = "rx" /\ "RXNE" \notin i_flags /\ i_bus.left > 0 /\ left \in Nat
      /\ sent \in Nat /\ "NACKF" \notin i_flags
  BY I2cFacts DEF I2cInv, Signals, I2c!ByteReceived
<1>2. /\ i_bus' \in Transfer /\ i_bus'.phase = next /\ i_bus'.left = left
      /\ i_bus'.rd = i_bus.rd /\ i_bus'.autoend = i_bus.autoend
  <2>1. i_bus' = [i_bus EXCEPT !.left = left, !.phase = next]
    BY DEF I2c!ByteReceived
  <2>2. next \in Phases /\ i_bus \in Transfer
    BY DEF Phases, I2cInv, I2cTyped
  <2> QED
    BY <1>1, <2>1, <2>2 DEF Transfer
<1>3. /\ i_flags' = i_flags \cup {"RXNE"} /\ i_rxdr' = <<i_dev.reg, i_dev.tag, sent>>
      /\ UNCHANGED <<i_txdr, i_cause>>
  BY DEF I2c!ByteReceived
<1>4. /\ i_dev' \in Device /\ i_dev'.sent = sent
      /\ i_dev'.got = i_dev.got /\ i_dev'.reg = i_dev.reg /\ i_dev'.tag = i_dev.tag
  <2>1. i_dev' = [i_dev EXCEPT !.sent = sent] /\ i_dev \in Device
    BY DEF I2c!ByteReceived, I2cInv, I2cTyped
  <2> QED
    BY <1>1, <2>1 DEF Device
<1>5. i_rxdr' \in Items /\ i_rxdr' # <<>>
  BY <1>1, <1>3, I2cFacts DEF Items
<1> HIDE DEF left, sent
<1>6. I2cTyped'
  BY <1>1, <1>2, <1>3, <1>4, <1>5 DEF I2cInv, I2cTyped, CallStill, Flags
<1>7. Signals'
  <2>1. left > 0 <=> i_bus.left > 1
    BY I2cFacts DEF left
  <2> QED
    BY <1>1, <1>2, <1>3, <1>5, <2>1 DEF I2cInv, Signals, CallStill, Before
<1>8. UNCHANGED <<Stage, Fetching>>
  BY DEF CallStill, Stage, Fetching
<1>9. Knows'
  <2>1. ~(i_pc \in {"clear", "start", "restart"})
    BY <1>1 DEF I2cInv, Knows
  <2> QED
    BY <1>1, <1>3, <1>8, <2>1, AwaitedIs DEF I2cInv, Knows, Signals, CallStill
<1>10. WriteCall' /\ RegisterCall'
  BY <1>1, <1>8 DEF I2cInv, WriteCall, RegisterCall, CallStill
<1>11. ReadCall'
  <2> SUFFICES ASSUME Fetching PROVE ReadCall'
    BY <1>8 DEF CallStill, ReadCall
  <2>1. /\ i_bus.left = i_req.n - i_dev.sent
        /\ i_req.n \in Nat /\ Len(i_buf) \in Nat /\ i_bus.left \in Nat /\ i_dev.sent \in Nat
    BY <1>1, I2cFacts DEF I2cInv, ReadCall, Fetching
  <2>2. left = i_req.n - sent
    BY <2>1 DEF left, sent
  <2>3. ~(i_bus.left > 1) => sent = i_req.n
    BY <1>1, <2>1 DEF sent
  <2>4. Surplus' = Surplus
    BY <1>1, <1>2, <1>3, <1>4, <2>1 DEF Surplus, CallStill, sent
  <2> QED
    BY <1>1, <1>2, <1>3, <1>4, <1>8, <2>2, <2>3, <2>4 DEF I2cInv, ReadCall, CallStill
<1>12. NothingLeft'
  <2>1. i_clean => Fetching
    <3>1. Stage \notin {"TX", "REG", "TC"} /\ ~(Stage = "STOP" /\ i_req.op = "write")
      BY <1>1 DEF I2cInv, Knows, WriteCall, RegisterCall
    <3>2. Stage = "none" => ~i_clean
      BY <1>1, I2cFacts DEF I2cInv, NothingLeft
    <3> QED
      BY <3>1, <3>2, I2cFacts DEF Fetching, I2c!Waits
  <2> QED
    BY <1>1, <1>8, <2>1 DEF I2cInv, NothingLeft, CallStill, Before
<1>13. Returned'
  BY <1>1, <1>3, <1>4 DEF I2cInv, Returned, CallStill, I2c!OwnAnswer
<1> QED
  BY <1>6, <1>7, <1>9, <1>10, <1>11, <1>12, <1>13 DEF I2cInv

LEMMA I2cStops == I2cInv /\ I2c!Stop /\ CallStill => I2cInv'
<1> SUFFICES ASSUME I2cInv, I2c!Stop, CallStill PROVE I2cInv'
  OBVIOUS
<1>1. /\ i_bus.phase = "stop" /\ i_bus' \in Transfer /\ i_bus'.phase = "idle"
  BY DEF I2c!Stop, I2c!Quiet, Transfer, Phases
<1>2. /\ i_flags' = (i_flags \ {"BUSY"}) \cup {"STOPF"}
      /\ UNCHANGED <<i_txdr, i_rxdr, i_dev, i_cause>>
  BY DEF I2c!Stop
<1>3. I2cTyped'
  BY <1>1, <1>2 DEF I2cInv, I2cTyped, CallStill, Flags
<1>4. Signals'
  BY <1>1, <1>2 DEF I2cInv, Signals, CallStill, Before
<1>5. UNCHANGED <<Stage, Fetching>>
  BY DEF CallStill, Stage, Fetching
<1>6. Knows'
  <2>1. ~(i_pc \in {"clear", "start", "restart"})
    BY <1>1 DEF I2cInv, Knows
  <2> QED
    BY <1>1, <1>2, <1>5, <2>1, I2cFacts, AwaitedIs DEF I2cInv, Knows, Signals, CallStill, I2c!Waits
<1>7. WriteCall' /\ RegisterCall'
  BY <1>1, <1>2, <1>5 DEF I2cInv, WriteCall, RegisterCall, CallStill
<1>8. ReadCall'
  BY <1>1, <1>2, <1>5 DEF I2cInv, ReadCall, Surplus, CallStill
<1>9. NothingLeft'
  BY <1>1, <1>2, <1>5 DEF I2cInv, NothingLeft, CallStill
<1>10. Returned'
  BY <1>1, <1>2 DEF I2cInv, Returned, CallStill, I2c!OwnAnswer
<1> QED
  BY <1>3, <1>4, <1>6, <1>7, <1>8, <1>9, <1>10 DEF I2cInv

LEMMA I2cHangs == I2cInv /\ (I2c!Hang \/ I2c!Resume) => I2cInv'
<1> SUFFICES ASSUME I2cInv, I2c!Hang \/ I2c!Resume PROVE I2cInv'
  OBVIOUS
<1>1. /\ UNCHANGED <<i_flags, i_bus, i_txdr, i_rxdr, i_dev, i_pc, i_wait, i_req, i_buf, i_res, i_clean>>
      /\ i_hung' \in BOOLEAN /\ i_cause' \in BOOLEAN /\ (i_cause => i_cause')
      /\ i_hung' => i_cause' /\ i_bus.phase \notin {"idle", "start", "stop"}
  BY DEF I2cInv, I2cTyped, I2c!Hang, I2c!Resume, I2c!drv
<1>2. I2cTyped' /\ Signals'
  BY <1>1 DEF I2cInv, I2cTyped, Signals
<1>3. UNCHANGED <<Stage, Fetching>>
  BY <1>1 DEF Stage, Fetching
<1>4. Knows'
  BY <1>1, <1>3 DEF I2cInv, Knows
<1>5. WriteCall' /\ RegisterCall'
  BY <1>1, <1>3 DEF I2cInv, WriteCall, RegisterCall
<1>6. ReadCall' /\ NothingLeft'
  BY <1>1, <1>3 DEF I2cInv, ReadCall, Surplus, NothingLeft
<1>7. Returned'
  BY <1>1 DEF I2cInv, Returned, I2c!OwnAnswer
<1> QED
  BY <1>2, <1>4, <1>5, <1>6, <1>7 DEF I2cInv

(* The driver's steps.  Outside the waits of a call there is little to say. *)

LEMMA I2cNoCall ==
  i_pc' \in Before => Stage' = "none" /\ ~Fetching' /\ WriteCall' /\ RegisterCall' /\ ReadCall'
BY DEF Before, Stage, Fetching, WriteCall, RegisterCall, ReadCall, Surplus, I2c!Waits

LEMMA I2cFrees == I2cInv /\ I2c!WaitFree => I2cInv'
<1> SUFFICES ASSUME I2cInv, I2c!WaitFree PROVE I2cInv'
  OBVIOUS
<1>1. /\ i_pc = "free" /\ i_pc' = "clear" /\ "BUSY" \notin i_flags
      /\ UNCHANGED <<i_flags, i_bus, i_txdr, i_rxdr, i_dev, i_hung, i_cause, i_clean,
                     i_wait, i_req, i_buf, i_res>>
  BY DEF I2c!WaitFree, I2c!Goto, I2c!NoAccess, I2c!Hardware
<1>2. I2cTyped' /\ Signals'
  BY <1>1 DEF I2cInv, I2cTyped, Signals, Before
<1>3. i_bus.phase = "idle" /\ i_pc' \in Before
  BY <1>1 DEF I2cInv, Signals, Before
<1>4. Knows'
  BY <1>1, <1>3, I2cNoCall DEF I2cInv, Knows
<1>5. NothingLeft' /\ Returned'
  BY <1>1, <1>3 DEF I2cInv, NothingLeft, Returned, I2c!OwnAnswer, Fetching, Stage,
     Before, I2c!Waits
<1> QED
  BY <1>2, <1>3, <1>4, <1>5, I2cNoCall DEF I2cInv

LEMMA I2cClears == I2cInv /\ I2c!I2C_ClearFlags => I2cInv'
<1> SUFFICES ASSUME I2cInv, I2c!I2C_ClearFlags PROVE I2cInv'
  OBVIOUS
<1>1. /\ i_pc = "clear" /\ i_pc' = "start" /\ i_flags' = i_flags \ {"STOPF", "NACKF"}
      /\ UNCHANGED <<i_bus, i_txdr, i_rxdr, i_dev, i_hung, i_cause, i_clean, i_wait, i_req, i_buf, i_res>>
  BY DEF I2c!I2C_ClearFlags, I2c!Goto, I2c!Hardware, I2c!ClearedBy_ICR
<1>2. i_bus.phase = "idle" /\ i_pc' \in Before
  BY <1>1 DEF I2cInv, Knows, Before
<1>3. I2cTyped' /\ Signals'
  BY <1>1, <1>2 DEF I2cInv, I2cTyped, Signals, Before
<1>4. Knows'
  BY <1>1, <1>2, I2cNoCall DEF I2cInv, Knows
<1>5. NothingLeft' /\ Returned'
  BY <1>1, <1>2 DEF I2cInv, NothingLeft, Returned, I2c!OwnAnswer, Fetching, Stage,
     Before, I2c!Waits
<1> QED
  BY <1>2, <1>3, <1>4, <1>5, I2cNoCall DEF I2cInv

\* What CR2 is written with is a transfer the peripheral can begin.
LEMMA I2cBegins ==
  ASSUME NEW rd \in BOOLEAN, NEW left \in Nat, NEW autoend \in BOOLEAN, I2c!Begin(rd, left, autoend)
  PROVE  /\ i_bus' \in Transfer /\ i_bus'.phase = "start"
         /\ i_bus'.rd = rd /\ i_bus'.left = left /\ i_bus'.autoend = autoend
BY DEF I2c!Begin, Transfer, Phases

LEMMA I2cWrites == I2cInv /\ I2c!WriteCR2 => I2cInv'
<1> SUFFICES ASSUME I2cInv, I2c!WriteCR2 PROVE I2cInv'
  OBVIOUS
<1>1. /\ i_pc = "start"
      /\ UNCHANGED <<i_flags, i_txdr, i_rxdr, i_dev, i_hung, i_cause, i_clean, i_wait, i_req, i_buf, i_res>>
      /\ \/ i_req.op = "write" /\ I2c!Begin(FALSE, Len(I2c!Bytes(i_req)), TRUE) /\ i_pc' = "TX"
         \/ i_req.op = "read" /\ I2c!Begin(FALSE, 1, FALSE) /\ i_pc' = "REG"
         \/ i_req.op = "readRaw" /\ I2c!Begin(TRUE, i_req.n, TRUE) /\ i_pc' = "RX"
  BY DEF I2c!WriteCR2, I2c!Goto, I2c!Hardware
<1>2. /\ i_req \in I2c!Requests /\ i_req.n \in Nat /\ (i_req.op # "write" => i_req.n > 0)
      /\ i_req.op = "write" => Len(I2c!Bytes(i_req)) = i_req.n + 1
  BY <1>1, RequestsAre, BytesAre DEF I2cInv, I2cTyped
<1>3. /\ i_bus.phase = "idle" /\ i_buf = <<>> /\ i_flags \cap {"STOPF", "NACKF"} = {}
      /\ ~i_hung /\ ~Fetching /\ Len(i_buf) = 0
  BY <1>1 DEF I2cInv, Knows, Signals, Fetching, Stage, I2c!Waits
<1>4. /\ i_bus' \in Transfer /\ i_bus'.phase = "start" /\ i_bus'.left > 0 /\ i_pc' = Stage'
      /\ \/ /\ i_req.op = "write" /\ i_pc' = "TX"
            /\ ~i_bus'.rd /\ i_bus'.left = i_req.n + 1 /\ i_bus'.autoend
         \/ /\ i_req.op = "read" /\ i_pc' = "REG"
            /\ ~i_bus'.rd /\ i_bus'.left = 1 /\ ~i_bus'.autoend
         \/ /\ i_req.op = "readRaw" /\ i_pc' = "RX"
            /\ i_bus'.rd /\ i_bus'.left = i_req.n /\ i_bus'.autoend
  <2>1. CASE i_req.op = "write"
    <3>1. I2c!Begin(FALSE, Len(I2c!Bytes(i_req)), TRUE) /\ i_pc' = "TX"
      BY <2>1, <1>1
    <3>2. /\ i_bus' \in Transfer /\ i_bus'.phase = "start"
          /\ i_bus'.rd = FALSE /\ i_bus'.left = i_req.n + 1 /\ i_bus'.autoend = TRUE
      BY <2>1, <3>1, <1>2 DEF I2c!Begin, Transfer, Phases
    <3> QED
      BY <2>1, <1>2, <3>1, <3>2 DEF Stage, I2c!Waits
  <2>2. CASE i_req.op = "read"
    <3>1. I2c!Begin(FALSE, 1, FALSE) /\ i_pc' = "REG"
      BY <2>2, <1>1
    <3>2. /\ i_bus' \in Transfer /\ i_bus'.phase = "start"
          /\ i_bus'.rd = FALSE /\ i_bus'.left = 1 /\ i_bus'.autoend = FALSE
      BY <3>1, I2cBegins
    <3> QED
      BY <2>2, <3>1, <3>2 DEF Stage, I2c!Waits
  <2>3. CASE i_req.op = "readRaw"
    BY <2>3, <1>1, <1>2, I2cBegins DEF Stage, I2c!Waits
  <2> QED
    BY <2>1, <2>2, <2>3, <1>1
<1>5. I2cTyped'
  BY <1>1, <1>4 DEF I2cInv, I2cTyped, I2c!Waits
<1>6. Signals'
  BY <1>1, <1>3, <1>4 DEF I2cInv, Signals, Before
<1>7. Knows'
  BY <1>1, <1>3, <1>4 DEF I2cInv, Knows
<1>8. WriteCall' /\ RegisterCall'
  BY <1>1, <1>2, <1>3, <1>4 DEF WriteCall, RegisterCall
<1>9. ReadCall' /\ NothingLeft'
  BY <1>1, <1>2, <1>3, <1>4 DEF I2cInv, ReadCall, Surplus, NothingLeft, Fetching, Before
<1>10. Returned'
  BY <1>1 DEF I2cInv, I2cTyped, Returned, I2c!OwnAnswer
<1> QED
  BY <1>5, <1>6, <1>7, <1>8, <1>9, <1>10 DEF I2cInv

LEMMA I2cWaits == I2cInv /\ I2c!WaitUntilAny => I2cInv'
<1> SUFFICES ASSUME I2cInv, I2c!WaitUntilAny PROVE I2cInv'
  OBVIOUS
<1>1. /\ i_pc \in I2c!Waits /\ i_pc' = "check" /\ i_wait' = i_pc
      /\ i_flags \cap (I2c!Awaited[i_pc] \cup {"NACKF"}) # {}
      /\ UNCHANGED <<i_flags, i_bus, i_txdr, i_rxdr, i_dev, i_hung, i_cause, i_clean, i_req, i_buf, i_res>>
  BY DEF I2c!WaitUntilAny, I2c!NoAccess, I2c!Hardware, I2c!ErrorFlags
<1>2. UNCHANGED <<Stage, Fetching>> /\ i_pc \notin Before /\ i_pc' \notin Before
  BY <1>1 DEF Stage, Fetching, I2c!Waits, Before
<1>3. I2cTyped' /\ Signals'
  BY <1>1, <1>2 DEF I2cInv, I2cTyped, Signals, I2c!Waits, Before
<1>4. Knows'
  BY <1>1, <1>2 DEF I2cInv, Knows, I2c!Waits
<1>5. WriteCall' /\ RegisterCall'
  BY <1>1, <1>2 DEF I2cInv, WriteCall, RegisterCall
<1>6. ReadCall' /\ NothingLeft'
  BY <1>1, <1>2 DEF I2cInv, ReadCall, Surplus, NothingLeft
<1>7. Returned'
  BY <1>1 DEF I2cInv, Returned, I2c!OwnAnswer
<1> QED
  BY <1>3, <1>4, <1>5, <1>6, <1>7 DEF I2cInv

\* A wait for what is there does not expire: if nothing has gone wrong, the
\* peripheral is not stuck.
LEMMA I2cExpires == I2cInv /\ I2c!Expire => I2cInv'
<1> SUFFICES ASSUME I2cInv, I2c!Expire PROVE I2cInv'
  OBVIOUS
<1>1. /\ i_pc' = "idle" /\ i_res' = "false" /\ i_buf' = <<>> /\ i_clean' = (i_clean /\ ~i_cause)
      /\ UNCHANGED <<i_flags, i_bus, i_txdr, i_rxdr, i_dev, i_hung, i_cause, i_req>>
  BY DEF I2c!Expire, I2c!Return
<1>2. ASSUME ~i_cause
      PROVE  /\ ~i_clean
             /\ i_bus.phase \in {"hold", "tx"} \/ (i_bus.phase = "rx" /\ "RXNE" \in i_flags)
  <2>1. ~i_hung
    BY <1>2 DEF I2cInv, Signals
  <2>2. i_bus.phase \in {"idle", "hold", "tx"} \/ (i_bus.phase = "rx" /\ "RXNE" \in i_flags)
    BY <2>1 DEF I2c!Expire, I2c!Stuck
  <2>7. CASE i_pc = "free" /\ "BUSY" \in i_flags
    BY <2>2, <2>7 DEF I2cInv, NothingLeft, Signals, Before
  <2>8. ASSUME i_pc \in I2c!Waits, i_flags \cap (I2c!Awaited[i_pc] \cup {"NACKF"}) = {}
        PROVE  FALSE
    <3>1. Stage = i_pc
      BY <2>8 DEF Stage
    <3>2. CASE i_pc = "TX" \/ (i_pc = "STOP" /\ i_req.op = "write")
      <4>1. i_req.op = "write" /\ i_req.n \in Nat /\ Len(i_buf) \in Nat /\ i_bus.left \in Nat
        BY <3>1, <3>2, I2cFacts DEF I2cInv, Knows
      <4> QED
        BY <2>2, <2>8, <3>1, <3>2, <4>1, AwaitedIs DEF I2cInv, WriteCall, Signals
    <3>3. CASE i_pc \in {"REG", "TC"}
      BY <2>2, <2>8, <3>1, <3>3, AwaitedIs DEF I2cInv, RegisterCall, Signals
    <3>4. CASE i_pc = "RX" \/ (i_pc = "STOP" /\ i_req.op # "write")
      <4>1. Fetching /\ i_req.n \in Nat /\ Len(i_buf) \in Nat /\ i_bus.left \in Nat /\ i_dev.sent \in Nat
        BY <3>1, <3>4, I2cFacts DEF Fetching
      <4>2. i_bus.phase = "rx" /\ "RXNE" \in i_flags
        BY <2>2, <2>8, <3>1, <3>4, <4>1, AwaitedIs DEF I2cInv, ReadCall, Signals
      <4>3. i_pc = "STOP" /\ Len(i_buf) = i_req.n /\ i_bus.left = i_req.n - i_dev.sent /\ i_bus.left > 0
        BY <2>8, <3>1, <3>4, <4>1, <4>2, AwaitedIs DEF I2cInv, ReadCall, Signals
      <4>4. Surplus = Len(i_buf) + 1 - i_dev.sent /\ Surplus \in {0, 1}
        BY <4>1, <4>2 DEF I2cInv, ReadCall, Surplus
      <4> QED
        BY <4>1, <4>3, <4>4
    <3> QED
      BY <2>8, <3>2, <3>3, <3>4 DEF I2c!Waits
  <2> QED
    BY <2>7, <2>8 DEF I2c!Expire, I2c!ErrorFlags
<1>7. ~i_clean'
  BY <1>1, <1>2
<1>3. I2cTyped'
  <2>1. <<>> \in Seq(Octets \cup Items)
    OBVIOUS
  <2> QED
    BY <1>1, <1>7, <2>1 DEF I2cInv, I2cTyped, Before
<1>4. Signals'
  <2>1. i_bus.phase = "start" => "BUSY" \in i_flags
    BY DEF I2cInv, Signals, I2c!Expire, I2c!Stuck
  <2> QED
    BY <1>1, <2>1 DEF I2cInv, Signals
<1>5. i_pc' \in Before /\ Knows'
  BY <1>1, I2cNoCall DEF Knows, Before
<1>6. NothingLeft' /\ Returned'
  BY <1>1, <1>2, <1>7 DEF NothingLeft, Returned, I2c!OwnAnswer
<1> QED
  BY <1>3, <1>4, <1>5, <1>6, I2cNoCall DEF I2cInv

LEMMA I2cChecks == I2cInv /\ I2c!CheckError => I2cInv'
<1> SUFFICES ASSUME I2cInv, I2c!CheckError PROVE I2cInv'
  OBVIOUS
<1>1. /\ i_pc = "check" /\ i_wait \in I2c!Waits /\ Stage = i_wait /\ i_pc \notin Before
      /\ i_flags \cap (I2c!Awaited[i_wait] \cup {"NACKF"}) # {}
      /\ UNCHANGED <<i_bus, i_txdr, i_rxdr, i_dev, i_hung, i_cause, i_clean, i_req>>
  <2>1. i_pc = "check" /\ UNCHANGED <<i_bus, i_txdr, i_rxdr, i_dev, i_hung, i_cause, i_clean, i_req>>
    BY DEF I2c!CheckError, I2c!Hardware, I2c!Return, I2c!Goto
  <2> QED
    BY <2>1 DEF I2cInv, I2cTyped, Knows, Stage, I2c!Waits, Before
<1>2. CASE "NACKF" \in i_flags
  <2>1. /\ i_flags' = i_flags \ {"STOPF", "NACKF"} /\ i_pc' = "idle" /\ i_res' = "false" /\ i_buf' = <<>>
    BY <1>2 DEF I2c!CheckError, I2c!ErrorFlags, I2c!ClearedBy_ICR, I2c!Return
  <2>2. i_cause /\ i_bus.phase \in {"stop", "idle"}
    BY <1>1, <1>2 DEF I2cInv, Signals, Knows
  <2>3. I2cTyped'
    <3>1. <<>> \in Seq(Octets \cup Items)
      OBVIOUS
    <3> QED
      BY <1>1, <2>1, <3>1 DEF I2cInv, I2cTyped, Before
  <2>4. Signals'
    BY <1>1, <2>1, <2>2 DEF I2cInv, Signals
  <2>5. i_pc' \in Before /\ Knows'
    BY <2>1, I2cNoCall DEF Knows, Before
  <2>6. i_clean => "RXNE" \notin i_flags
    BY <1>2, <2>2, I2cFacts DEF I2cInv, ReadCall, Surplus, NothingLeft
  <2>7. NothingLeft' /\ Returned'
    BY <1>1, <2>1, <2>2, <2>6 DEF NothingLeft, Returned, I2c!OwnAnswer
  <2> QED
    BY <2>3, <2>4, <2>5, <2>7, I2cNoCall DEF I2cInv
<1>3. CASE "NACKF" \notin i_flags
  <2>1. /\ i_pc' = (IF i_wait = "STOP" THEN "ack" ELSE IF i_wait = "TC" THEN "restart" ELSE "move")
        /\ UNCHANGED <<i_flags, i_wait, i_buf, i_res>>
    BY <1>3 DEF I2c!CheckError, I2c!ErrorFlags, I2c!Goto
  <2>2. UNCHANGED <<Stage, Fetching>> /\ i_pc' \notin Before
    BY <1>1, <2>1 DEF Stage, Fetching, I2c!Waits, Before
  <2>3. I2cTyped' /\ Signals'
    BY <1>1, <2>1, <2>2 DEF I2cInv, I2cTyped, Signals, Closing
  <2>4. Knows'
    BY <1>1, <1>3, <2>1, <2>2, AwaitedIs DEF I2cInv, Knows, Signals, I2c!Waits
  <2>5. WriteCall' /\ RegisterCall'
    BY <1>1, <2>1, <2>2 DEF I2cInv, WriteCall, RegisterCall
  <2>6. ReadCall' /\ NothingLeft'
    BY <1>1, <1>3, <2>1, <2>2 DEF I2cInv, ReadCall, Surplus, NothingLeft
  <2>7. Returned'
    BY <1>1, <2>1 DEF I2cInv, Returned, I2c!OwnAnswer
  <2> QED
    BY <2>3, <2>4, <2>5, <2>6, <2>7 DEF I2cInv
<1> QED
  BY <1>2, <1>3

\* TXIS is set, so the byte that is written leaves.
LEMMA I2cMovesTX == I2cInv /\ I2c!MoveTX => I2cInv'
<1> SUFFICES ASSUME I2cInv, I2c!MoveTX PROVE I2cInv'
  OBVIOUS
<1> DEFINE n == Len(i_buf) + 1
           b == I2c!Bytes(i_req)
<1>1. /\ i_pc = "move" /\ i_wait = "TX" /\ Stage = "TX" /\ "NACKF" \notin i_flags
      /\ i_flags \cap {"TXIS", "STOPF"} # {} /\ i_req.op = "write"
      /\ UNCHANGED <<i_rxdr, i_dev, i_hung, i_cause, i_clean>>
  BY AwaitedIs DEF I2cInv, Knows, I2c!MoveTX, I2c!Hardware, Stage, I2c!Waits
<1>2. /\ i_req \in I2c!Requests /\ i_req.n \in Nat /\ i_req.reg \in Regs /\ i_res = "none"
      /\ b \in Seq(Octets) /\ Len(b) = i_req.n + 1 /\ b[1] = i_req.reg
      /\ n \in 1 .. Len(b) /\ b[n] \in Octets /\ i_buf \in Seq(Octets \cup Items)
  <2>1. i_req \in I2c!Requests /\ i_req.n \in Nat /\ i_req.reg \in Regs /\ i_res = "none"
    BY <1>1, I2cFacts
  <2>2. b \in Seq(Octets) /\ Len(b) = i_req.n + 1 /\ b[1] = i_req.reg
    BY <1>1, <2>1, RequestsAre, BytesAre
  <2>3. n \in 1 .. Len(b) /\ i_buf \in Seq(Octets \cup Items)
    BY <1>1, <2>1, <2>2, I2cFacts DEF I2cInv, WriteCall
  <2> QED
    BY <2>1, <2>2, <2>3
<1>3. i_bus.phase = "tx" /\ "TXIS" \in i_flags /\ i_dev.got = i_buf /\ i_bus.left = i_req.n + 1 - Len(i_buf)
      /\ i_bus.left > 0 /\ ~i_bus.rd /\ i_bus.autoend
  BY <1>1, I2cFacts DEF I2cInv, WriteCall, Signals
<1>4. /\ i_txdr' = b[n] /\ i_flags' = i_flags \ {"TXIS"} /\ i_bus' = [i_bus EXCEPT !.phase = "sending"]
      /\ i_buf' = Append(i_buf, b[n]) /\ i_pc' = (IF n < Len(b) THEN "TX" ELSE "STOP")
      /\ UNCHANGED <<i_wait, i_req, i_res>>
  BY <1>3 DEF I2c!MoveTX, I2c!Write
<1>5. /\ i_bus' \in Transfer /\ i_bus'.phase = "sending" /\ i_bus'.left = i_bus.left
      /\ i_bus'.rd = i_bus.rd /\ i_bus'.autoend = i_bus.autoend
  BY <1>4 DEF I2cInv, I2cTyped, Transfer, Phases
<1>6. /\ i_buf' \in Seq(Octets \cup Items) /\ Len(i_buf') = n
      /\ \A k \in 1 .. n : i_buf'[k] = b[k]
  <2>1. \A k \in 1 .. Len(i_buf) : i_buf[k] = b[k]
    BY <1>1 DEF I2cInv, WriteCall
  <2>2. b[n] \in Octets \cup Items /\ Len(i_buf) \in Nat
    BY <1>2
  <2> HIDE DEF b
  <2>3. i_buf \in Seq(Octets \cup Items) /\ i_buf' = Append(i_buf, b[n])
    BY <1>2, <1>4
  <2>4. /\ i_buf' \in Seq(Octets \cup Items) /\ Len(i_buf') = Len(i_buf) + 1
        /\ \A k \in 1 .. Len(i_buf) : i_buf'[k] = i_buf[k]
        /\ i_buf'[Len(i_buf) + 1] = b[n]
    BY <2>2, <2>3, AppendProperties
  <2> QED
    BY <2>1, <2>2, <2>4
<1>7. Stage' = i_pc' /\ i_pc' \notin Before /\ ~Fetching' /\ ~Fetching
  BY <1>1, <1>4 DEF Stage, Before, I2c!Waits, Fetching
<1> HIDE DEF n, b
<1>8. I2cTyped'
  BY <1>1, <1>2, <1>4, <1>5, <1>6 DEF I2cInv, I2cTyped, I2c!Waits
<1>9. Signals'
  <2>1. i_dev.got = <<>> => n = 1
    BY <1>3 DEF n
  <2> QED
    BY <1>1, <1>2, <1>3, <1>4, <1>5, <1>7, <2>1 DEF I2cInv, Signals
<1>10. Knows'
  BY <1>1, <1>3, <1>4, <1>7 DEF I2cInv, Knows, Before
<1>11. WriteCall'
  <2>1. i_bus'.left = i_req.n + 2 - n
    BY <1>2, <1>3, <1>5, I2cFacts DEF n
  <2>2. n <= i_req.n + 1 /\ (i_pc' = "TX" => n < i_req.n + 1) /\ (i_pc' = "STOP" => n = i_req.n + 1)
    BY <1>2, <1>4
  <2>3. i_buf' = Append(i_dev'.got, i_txdr')
    BY <1>1, <1>3, <1>4
  <2> QED
    BY <1>3, <1>4, <1>5, <1>6, <1>7, <2>1, <2>2, <2>3 DEF WriteCall, b
<1>12. RegisterCall' /\ ReadCall'
  BY <1>4, <1>7 DEF RegisterCall, ReadCall, Surplus
<1>13. NothingLeft'
  BY <1>1, <1>4, <1>7 DEF I2cInv, NothingLeft
<1>14. Returned'
  BY <1>2, <1>4 DEF Returned, I2c!OwnAnswer
<1> QED
  BY <1>8, <1>9, <1>10, <1>11, <1>12, <1>13, <1>14 DEF I2cInv

LEMMA I2cMovesREG == I2cInv /\ I2c!MoveREG => I2cInv'
<1> SUFFICES ASSUME I2cInv, I2c!MoveREG PROVE I2cInv'
  OBVIOUS
<1>1. /\ i_pc = "move" /\ i_wait = "REG" /\ Stage = "REG" /\ "TXIS" \in i_flags /\ i_bus.phase = "tx"
      /\ UNCHANGED <<i_rxdr, i_dev, i_hung, i_cause, i_clean>>
  BY AwaitedIs DEF I2cInv, Knows, Signals, I2c!MoveREG, I2c!Hardware, Stage, I2c!Waits
<1>2. i_req.op = "read" /\ i_req.reg \in Regs /\ i_res = "none"
  BY <1>1, I2cFacts DEF I2cInv, Knows
<1>3. /\ i_txdr' = i_req.reg /\ i_flags' = i_flags \ {"TXIS"} /\ i_pc' = "TC"
      /\ i_bus' = [i_bus EXCEPT !.phase = "sending"]
      /\ UNCHANGED <<i_wait, i_req, i_buf, i_res>>
  BY <1>1 DEF I2c!MoveREG, I2c!Write, I2c!Goto
<1>4. /\ i_bus' \in Transfer /\ i_bus'.phase = "sending" /\ i_bus'.left = i_bus.left
      /\ i_bus'.rd = i_bus.rd /\ i_bus'.autoend = i_bus.autoend
  BY <1>3 DEF I2cInv, I2cTyped, Transfer, Phases
<1>5. Stage' = "TC" /\ ~Fetching' /\ ~Fetching
  BY <1>1, <1>3 DEF Stage, I2c!Waits, Fetching
<1>6. I2cTyped'
  BY <1>1, <1>2, <1>3, <1>4 DEF I2cInv, I2cTyped, I2c!Waits, Octets
<1>7. Signals'
  BY <1>1, <1>2, <1>3, <1>4 DEF I2cInv, Signals, Before
<1>8. Knows'
  BY <1>1, <1>2, <1>3, <1>5 DEF I2cInv, Knows
<1>9. WriteCall' /\ ReadCall'
  BY <1>5 DEF WriteCall, ReadCall, Surplus
<1>10. RegisterCall'
  BY <1>1, <1>3, <1>4, <1>5 DEF I2cInv, RegisterCall
<1>11. NothingLeft'
  BY <1>1, <1>3, <1>5 DEF I2cInv, NothingLeft, Before
<1>12. Returned'
  BY <1>2, <1>3 DEF Returned, I2c!OwnAnswer
<1> QED
  BY <1>6, <1>7, <1>8, <1>9, <1>10, <1>11, <1>12 DEF I2cInv

\* A byte is read, or a NACK has ended the transfer and the call.
LEMMA I2cMovesRX == I2cInv /\ I2c!MoveRX => I2cInv'
<1> SUFFICES ASSUME I2cInv, I2c!MoveRX PROVE I2cInv'
  OBVIOUS
<1>1. /\ i_pc = "move" /\ i_wait = "RX" /\ Stage = "RX" /\ Fetching /\ i_pc \notin Before
      /\ i_flags \cap {"RXNE", "STOPF"} # {}
      /\ UNCHANGED <<i_bus, i_txdr, i_dev, i_hung, i_cause, i_clean>>
  BY AwaitedIs DEF I2cInv, Knows, I2c!MoveRX, I2c!Hardware, Stage, Fetching, I2c!Waits, Before
<1>2. /\ i_req.n \in Nat /\ i_res = "none" /\ i_req.op \in {"read", "readRaw"}
      /\ i_buf \in Seq(Octets \cup Items) /\ Len(i_buf) \in Nat /\ i_dev.sent \in Nat /\ i_bus.left \in Nat
  BY <1>1, I2cFacts DEF I2cInv, Knows
<1>3. CASE "RXNE" \in i_flags
  <2> DEFINE n == Len(i_buf) + 1
  <2>1. /\ i_buf' = Append(i_buf, i_rxdr) /\ i_rxdr' = <<>> /\ i_flags' = i_flags \ {"RXNE"}
        /\ i_pc' = (IF n < i_req.n THEN "RX" ELSE "STOP")
        /\ UNCHANGED <<i_wait, i_req, i_res>>
    BY <1>3 DEF I2c!MoveRX
  <2>2. i_rxdr \in Octets \cup Items
    BY <1>3 DEF I2cInv, I2cTyped, Signals
  <2>3. /\ i_buf' \in Seq(Octets \cup Items) /\ Len(i_buf') = n /\ i_buf'[n] = i_rxdr
        /\ \A k \in 1 .. Len(i_buf) : i_buf'[k] = i_buf[k]
    BY <1>2, <2>1, <2>2, AppendProperties
  <2>4. Stage' = i_pc' /\ i_pc' \notin Before /\ Fetching'
    BY <1>2, <2>1 DEF Stage, Before, I2c!Waits, Fetching
  <2> HIDE DEF n
  <2>5. I2cTyped'
    BY <1>1, <2>1, <2>3 DEF I2cInv, I2cTyped, I2c!Waits
  <2>6. Signals'
    BY <1>1, <2>1, <2>4 DEF I2cInv, Signals
  <2>7. Knows'
    BY <1>1, <1>2, <2>1, <2>4 DEF I2cInv, Knows, Before
  <2>8. WriteCall' /\ RegisterCall'
    BY <1>2, <2>1, <2>4 DEF WriteCall, RegisterCall
  <2>9. ReadCall'
    <3>1. Surplus = n - (IF i_bus.phase = "start" THEN 0 ELSE i_dev.sent) /\ Surplus \in {0, 1}
      BY <1>1, <1>2, <1>3 DEF I2cInv, ReadCall, Surplus, n
    <3>2. n <= i_req.n /\ (i_pc' = "RX" => n < i_req.n) /\ (i_pc' = "STOP" => n = i_req.n) /\ n \in Nat
      BY <1>1, <1>2, <2>1 DEF I2cInv, ReadCall, n
    <3>3. Surplus' = Surplus
      BY <1>1, <1>2, <2>1, <2>3, <3>1, <3>2 DEF Surplus
    <3>4. n > Surplus => i_rxdr = <<i_dev.reg, i_dev.tag, n - Surplus>>
      <4>1. n > Surplus => i_bus.phase # "start" /\ i_dev.sent = n - Surplus /\ i_dev.sent > 0
        BY <1>2, <3>1, <3>2
      <4> QED
        BY <1>1, <1>3, <4>1 DEF I2cInv, ReadCall
    <3>5. \A k \in 1 .. n : k > Surplus => i_buf'[k] = <<i_dev.reg, i_dev.tag, k - Surplus>>
      <4>1. \A k \in 1 .. Len(i_buf) : k > Surplus => i_buf[k] = <<i_dev.reg, i_dev.tag, k - Surplus>>
        BY <1>1 DEF I2cInv, ReadCall
      <4>2. \A k \in 1 .. n : k \in 1 .. Len(i_buf) \/ k = n
        BY <1>2 DEF n
      <4> QED
        BY <2>3, <3>4, <4>1, <4>2
    <3> HIDE DEF Surplus
    <3> QED
      BY <1>1, <2>1, <2>3, <2>4, <3>2, <3>3, <3>5 DEF I2cInv, ReadCall
  <2>10. NothingLeft' /\ Returned'
    BY <1>1, <1>2, <2>1, <2>4 DEF NothingLeft, Returned, I2c!OwnAnswer
  <2> QED
    BY <2>5, <2>6, <2>7, <2>8, <2>9, <2>10 DEF I2cInv
<1>4. CASE "RXNE" \notin i_flags
  <2>1. /\ i_pc' = "idle" /\ i_res' = "false" /\ i_buf' = <<>>
        /\ UNCHANGED <<i_flags, i_rxdr, i_req>>
    BY <1>4 DEF I2c!MoveRX, I2c!Return
  <2>2. i_bus.phase = "idle" /\ i_cause
    <3>1. i_bus.phase = "idle" /\ Len(i_buf) < i_req.n
      BY <1>1, <1>4 DEF I2cInv, Signals, ReadCall
    <3>2. ASSUME "NACKF" \notin i_flags PROVE FALSE
      <4>1. i_dev.sent = i_req.n
        BY <1>1, <3>1, <3>2 DEF I2cInv, ReadCall
      <4>2. Surplus = Len(i_buf) - i_dev.sent /\ Surplus \in {0, 1}
        BY <1>1, <1>2, <1>4, <3>1 DEF I2cInv, ReadCall, Surplus
      <4> QED
        BY <1>2, <3>1, <4>1, <4>2
    <3> QED
      BY <1>1, <3>1, <3>2 DEF I2cInv, Knows
  <2>3. I2cTyped'
    <3>1. <<>> \in Seq(Octets \cup Items)
      OBVIOUS
    <3> QED
      BY <1>1, <2>1, <3>1 DEF I2cInv, I2cTyped, Before
  <2>4. Signals'
    BY <1>1, <2>1, <2>2 DEF I2cInv, Signals
  <2>5. i_pc' \in Before /\ Knows'
    BY <2>1, I2cNoCall DEF Knows, Before
  <2>6. NothingLeft' /\ Returned'
    BY <1>1, <1>4, <2>1, <2>2 DEF NothingLeft, Returned, I2c!OwnAnswer
  <2> QED
    BY <2>3, <2>4, <2>5, <2>6, I2cNoCall DEF I2cInv
<1> QED
  BY <1>3, <1>4

LEMMA I2cRestarts == I2cInv /\ I2c!Restart => I2cInv'
<1> SUFFICES ASSUME I2cInv, I2c!Restart PROVE I2cInv'
  OBVIOUS
<1>1. /\ i_pc = "restart" /\ i_pc' = "RX" /\ Stage = "TC" /\ Stage' = "RX" /\ ~Fetching /\ Fetching'
      /\ i_flags' = i_flags \ {"TC"}
      /\ UNCHANGED <<i_txdr, i_rxdr, i_dev, i_hung, i_cause, i_clean, i_wait, i_req, i_buf, i_res>>
  BY DEF I2c!Restart, I2c!Goto, I2c!Hardware, Stage, Fetching, I2c!Waits
<1>2. /\ i_req.n \in Nat /\ i_req.n > 0 /\ i_res = "none" /\ i_req.op = "read"
      /\ i_bus.phase = "hold" /\ i_buf = <<>> /\ Len(i_buf) = 0 /\ i_dev.reg = i_req.reg
      /\ i_flags \cap {"NACKF", "STOPF", "TXIS"} = {} /\ "BUSY" \in i_flags
  BY <1>1, I2cFacts DEF I2cInv, Knows, RegisterCall, Signals
<1>3. /\ i_bus' \in Transfer /\ i_bus'.phase = "start"
      /\ i_bus'.rd = TRUE /\ i_bus'.left = i_req.n /\ i_bus'.autoend = TRUE
  BY <1>2, I2cBegins DEF I2c!Restart
<1>4. I2cTyped'
  BY <1>1, <1>3 DEF I2cInv, I2cTyped, I2c!Waits, Closing
<1>5. Signals'
  BY <1>1, <1>2, <1>3 DEF I2cInv, Signals
<1>6. Knows'
  BY <1>1, <1>2, <1>3 DEF I2cInv, Knows
<1>7. WriteCall' /\ RegisterCall'
  BY <1>1, <1>2 DEF WriteCall, RegisterCall
<1>8. ReadCall' /\ NothingLeft'
  BY <1>1, <1>2, <1>3 DEF I2cInv, ReadCall, Surplus, NothingLeft, Before
<1>9. Returned'
  BY <1>1, <1>2 DEF Returned, I2c!OwnAnswer
<1> QED
  BY <1>4, <1>5, <1>6, <1>7, <1>8, <1>9 DEF I2cInv

\* The answer is whole when STOPF follows the last byte.
LEMMA I2cAcks == I2cInv /\ I2c!Ack => I2cInv'
<1> SUFFICES ASSUME I2cInv, I2c!Ack PROVE I2cInv'
  OBVIOUS
<1>1. /\ i_pc = "ack" /\ i_pc' = "idle" /\ Stage = "STOP" /\ i_flags' = i_flags \ {"STOPF"}
      /\ i_res' = (IF i_req.op = "readRaw" THEN "false" ELSE "true")
      /\ i_buf' = (IF i_req.op = "readRaw" THEN <<>> ELSE i_buf)
      /\ UNCHANGED <<i_bus, i_txdr, i_rxdr, i_dev, i_hung, i_cause, i_clean, i_req>>
  BY DEF I2c!Ack, I2c!Return, I2c!Hardware, Stage, I2c!Waits
<1>2. /\ i_bus.phase = "idle" /\ {"STOPF"} \subseteq i_flags /\ "NACKF" \notin i_flags
      /\ i_req \in I2c!Requests /\ i_req.n \in Nat /\ i_req.op \in {"write", "read", "readRaw"}
      /\ i_buf \in Seq(Octets \cup Items) /\ Len(i_buf) \in Nat /\ i_dev.got \in Seq(Octets)
  BY <1>1, I2cFacts DEF I2cInv, Knows, Signals
<1>3. i_req.op = "write" => i_dev.got = I2c!Bytes(i_req)
  <2> SUFFICES ASSUME i_req.op = "write" PROVE i_dev.got = I2c!Bytes(i_req)
    OBVIOUS
  <2>1. I2c!Bytes(i_req) \in Seq(Octets) /\ Len(I2c!Bytes(i_req)) = i_req.n + 1
    BY <1>2, RequestsAre, BytesAre
  <2>2. i_dev.got = i_buf /\ Len(i_buf) = i_req.n + 1
    BY <1>1, <1>2 DEF I2cInv, WriteCall
  <2>3. \A k \in 1 .. Len(i_buf) : i_buf[k] = I2c!Bytes(i_req)[k]
    BY <1>1 DEF I2cInv, WriteCall
  <2> QED
    BY <1>2, <2>1, <2>2, <2>3, SeqEqual
<1>4. ASSUME i_req.op # "write"
      PROVE  /\ Surplus \in {0, 1} /\ (i_clean => Surplus = 0 /\ "RXNE" \notin i_flags)
             /\ Len(i_buf) = i_req.n
             /\ i_req.op = "read" =>
                   \A k \in Surplus + 1 .. i_req.n : i_buf[k] = <<i_req.reg, i_dev.tag, k - Surplus>>
  <2>1. /\ Len(i_buf) = i_req.n /\ i_dev.sent = i_req.n
        /\ Surplus \in {0, 1} /\ (i_clean => Surplus = 0)
        /\ \A k \in 1 .. Len(i_buf) : k > Surplus => i_buf[k] = <<i_dev.reg, i_dev.tag, k - Surplus>>
        /\ i_req.op = "read" => i_dev.reg = i_req.reg
    BY <1>1, <1>2, <1>4 DEF I2cInv, ReadCall, Fetching
  <2>2. Surplus = IF "RXNE" \in i_flags THEN 1 ELSE 0
    BY <1>2, <2>1 DEF Surplus
  <2>3. \A k \in Surplus + 1 .. i_req.n : k \in 1 .. Len(i_buf) /\ k > Surplus
    BY <1>2, <2>1
  <2> QED
    BY <2>1, <2>2, <2>3
<1>5. I2cTyped'
  <2>1. i_buf' \in Seq(Octets \cup Items)
    BY <1>1, <1>2
  <2> QED
    BY <1>1, <2>1 DEF I2cInv, I2cTyped, Before
<1>6. Signals'
  BY <1>1, <1>2 DEF I2cInv, Signals
<1>7. i_pc' \in Before /\ Knows'
  BY <1>1, I2cNoCall DEF Knows, Before
<1>8. NothingLeft'
  BY <1>1, <1>2, <1>4 DEF I2cInv, NothingLeft, Fetching
<1>9. Returned'
  <2>1. i_res' = "true" /\ i_req'.op = "read" => I2c!OwnAnswer'
    <3> SUFFICES ASSUME i_res' = "true", i_req'.op = "read" PROVE I2c!OwnAnswer'
      OBVIOUS
    <3>1. i_req.op # "write" /\ i_buf' = i_buf /\ i_dev' = i_dev /\ i_clean' = i_clean /\ i_req' = i_req
      BY <1>1
    <3> HIDE DEF Surplus
    <3> QED
      BY <1>4, <3>1 DEF I2c!OwnAnswer
  <2>2. I2c!OwnAnswer'
    BY <2>1 DEF I2c!OwnAnswer
  <2> QED
    BY <1>1, <1>2, <1>3, <2>2 DEF Returned
<1> QED
  BY <1>5, <1>6, <1>7, <1>8, <1>9, I2cNoCall DEF I2cInv

LEMMA I2cInitialises == I2cInv /\ I2c!I2C_Init => I2cInv'
<1> SUFFICES ASSUME I2cInv, I2c!I2C_Init PROVE I2cInv'
  OBVIOUS
<1>1. /\ i_pc = "idle" /\ i_flags' = {} /\ i_hung' = FALSE /\ i_cause' = FALSE /\ i_clean' = TRUE
      /\ i_bus' \in Transfer /\ i_bus'.phase = "idle"
      /\ i_res' = "none" /\ i_buf' = <<>> /\ i_txdr' = 0 /\ i_rxdr' = <<>>
      /\ UNCHANGED <<i_dev, i_pc, i_wait, i_req>>
  BY DEF I2c!I2C_Init, I2c!Quiet, Transfer, Phases
<1>2. I2cTyped'
  <2>1. <<>> \in Seq(Octets \cup Items)
    OBVIOUS
  <2> QED
    BY <1>1, <2>1 DEF I2cInv, I2cTyped, Before, Octets
<1>3. Signals' /\ NothingLeft' /\ Returned'
  BY <1>1 DEF Signals, NothingLeft, Returned, I2c!OwnAnswer
<1>4. i_pc' \in Before /\ Knows'
  BY <1>1, I2cNoCall DEF Knows, Before
<1> QED
  BY <1>2, <1>3, <1>4, I2cNoCall DEF I2cInv

LEMMA I2cCalls == ASSUME NEW r \in I2c!Requests, I2cInv, I2c!Call(r) PROVE I2cInv'
<1>1. /\ i_pc = "idle" /\ i_pc' = "free" /\ i_req' = r /\ i_buf' = <<>> /\ i_res' = "none"
      /\ i_cause' = i_hung
      /\ UNCHANGED <<i_flags, i_bus, i_txdr, i_rxdr, i_dev, i_hung, i_clean>>
  BY DEF I2c!Call
<1>2. I2cTyped'
  <2>1. <<>> \in Seq(Octets \cup Items)
    OBVIOUS
  <2> QED
    BY <1>1, <2>1 DEF I2cInv, I2cTyped, Before
<1>3. Signals'
  BY <1>1 DEF I2cInv, Signals, Before
<1>4. i_pc' \in Before /\ i_pc \in Before /\ ~Fetching /\ ~Fetching'
  BY <1>1 DEF Before, Fetching, Stage, I2c!Waits
<1>5. Knows'
  BY <1>1, <1>4, I2cNoCall DEF Knows, Before
<1>6. NothingLeft' /\ Returned'
  BY <1>1, <1>4 DEF I2cInv, NothingLeft, Returned, I2c!OwnAnswer
<1> QED
  BY <1>2, <1>3, <1>4, <1>5, <1>6, I2cNoCall DEF I2cInv

LEMMA I2cStep == I2cInv /\ I2c!Next => I2cInv'
<1> SUFFICES ASSUME I2cInv, I2c!Next PROVE I2cInv'
  OBVIOUS
<1>1. CASE I2c!Peripheral
  <2>1. CallStill
    BY <1>1 DEF I2c!Peripheral, I2c!drv, CallStill
  <2>2. CASE I2c!Start
    BY <2>1, <2>2, I2cStarts
  <2>3. CASE I2c!AddressAcked
    BY <2>1, <2>3, I2cAddresses
  <2>4. CASE I2c!Nacked
    BY <2>1, <2>4, I2cNacks
  <2>5. CASE I2c!ByteAcked
    BY <2>1, <2>5, I2cByteAcked
  <2>6. CASE I2c!ByteReceived
    BY <2>1, <2>6, I2cByteReceived
  <2>7. CASE I2c!Stop
    BY <2>1, <2>7, I2cStops
  <2> QED
    BY <1>1, <2>2, <2>3, <2>4, <2>5, <2>6, <2>7 DEF I2c!Peripheral
<1>2. CASE I2c!Hang \/ I2c!Resume
  BY <1>2, I2cHangs
<1>3. CASE I2c!Driver
  BY <1>3, I2cFrees, I2cClears, I2cWrites, I2cWaits, I2cExpires, I2cChecks, I2cMovesTX, I2cMovesREG,
     I2cMovesRX, I2cRestarts, I2cAcks DEF I2c!Driver
<1>4. CASE I2c!I2C_Init
  BY <1>4, I2cInitialises
<1>5. CASE \E r \in I2c!Requests : I2c!Call(r)
  BY <1>5, I2cCalls
<1> QED
  BY <1>1, <1>2, <1>3, <1>4, <1>5 DEF I2c!Next

LEMMA I2cSame == I2cInv /\ UNCHANGED iVars => I2cInv'
<1> SUFFICES ASSUME I2cInv, UNCHANGED iVars PROVE I2cInv'
  OBVIOUS
<1>1. UNCHANGED <<i_flags, i_bus, i_txdr, i_rxdr, i_dev, i_hung, i_pc, i_wait, i_req, i_buf, i_res,
                  i_cause, i_clean>>
  BY DEF iVars
<1>2. I2cTyped' /\ Signals'
  BY <1>1 DEF I2cInv, I2cTyped, Signals
<1>3. UNCHANGED <<Stage, Fetching>>
  BY <1>1 DEF Stage, Fetching
<1>4. Knows' /\ WriteCall' /\ RegisterCall'
  BY <1>1, <1>3 DEF I2cInv, Knows, WriteCall, RegisterCall
<1>5. ReadCall' /\ NothingLeft' /\ Returned'
  BY <1>1, <1>3 DEF I2cInv, ReadCall, Surplus, NothingLeft, Returned, I2c!OwnAnswer
<1> QED
  BY <1>2, <1>4, <1>5 DEF I2cInv

LEMMA I2cInit == I2c!Init => I2cInv
<1> SUFFICES ASSUME I2c!Init PROVE I2cInv
  OBVIOUS
<1>1. /\ i_flags = {} /\ i_hung = FALSE /\ i_cause = FALSE /\ i_clean = TRUE
      /\ i_bus \in Transfer /\ i_bus.phase = "idle" /\ i_pc = "idle" /\ i_res = "none" /\ i_buf = <<>>
      /\ i_txdr = 0 /\ i_rxdr = <<>>
  BY DEF I2c!Init, I2c!Quiet, Transfer, Phases
<1>2. i_dev \in Device
  <2>1. PICK r \in Regs : i_dev = [reg |-> r, got |-> <<>>, sent |-> 0, tag |-> 0]
    BY DEF I2c!Init
  <2>2. <<>> \in Seq(Octets)
    OBVIOUS
  <2> QED
    BY <2>1, <2>2 DEF Device
<1>3. I2cTyped
  <2>1. <<>> \in Seq(Octets \cup Items)
    OBVIOUS
  <2> QED
    BY <1>1, <1>2, <2>1 DEF I2cTyped, Before, Octets
<1>4. Signals /\ NothingLeft /\ Returned
  BY <1>1 DEF Signals, NothingLeft, Returned, I2c!OwnAnswer
<1>5. Stage = "none" /\ ~Fetching
  BY <1>1 DEF Stage, Fetching, I2c!Waits
<1>6. Knows /\ WriteCall /\ RegisterCall /\ ReadCall
  BY <1>1, <1>5 DEF Knows, WriteCall, RegisterCall, ReadCall, Surplus
<1> QED
  BY <1>3, <1>4, <1>6 DEF I2cInv

LEMMA I2cHolds == I2cInv => I2c!Truthful
BY DEF I2cInv, Returned, Signals, I2c!Truthful, I2c!Delivered, I2c!FailsForCause

-----------------------------------------------------------------------------
(* The wires of the I2C bus.  WireInv says where the device is at each     *)
(* access of each call, and how a call leaves it.                          *)

Modes == {"idle", "start", "deaf", "send", "receive"}
Target == [mode: Modes, bit: 0 .. Bits + 1, byte: Seq(Wires!Bit), out: Wires!Bit, ack: Wires!Bit,
           first: BOOLEAN, whole: Seq(Wires!Bit)]

\* The first n bits of a byte.
First(b, n) == [j \in 1 .. n |-> b[j]]

\* The device pulls SDA low only for a bit of its byte or an acknowledge, and
\* its bit counter follows the clock.
DevRight ==
    /\ w_dev.mode \in {"idle", "deaf", "start"} => w_dev.bit = 0 /\ w_dev.out = 1
    /\ w_dev.mode = "start" => w_scl = 1 /\ w_sda = 0
    /\ w_dev.mode \in {"send", "receive"} => w_dev.bit >= 1
    /\ w_dev.mode = "receive" =>
          /\ w_dev.bit <= Bits => w_dev.out = 1
          /\ w_dev.bit <= Bits => Len(w_dev.byte) = (IF w_scl = 1 THEN w_dev.bit ELSE w_dev.bit - 1)
          /\ w_dev.bit = Bits + 1 => Len(w_dev.byte) = Bits /\ w_dev.ack = w_dev.out
    /\ w_dev.mode = "send" =>
          /\ w_dev.byte \in Wires!Bytes /\ ~w_dev.first
          /\ w_dev.bit <= Bits => w_dev.out = w_dev.byte[w_dev.bit]
          /\ w_dev.bit = Bits + 1 => w_dev.out = 1 /\ (w_scl = 1 => w_dev.ack = w_sda)

WiresTyped ==
    /\ w_sda \in Wires!Bit /\ w_scl \in Wires!Bit /\ w_taking \in BOOLEAN
    /\ w_dev \in Target /\ w_bits \in Seq(Wires!Bit) /\ w_made \in Nat

\* Where a START, a STOP and a reset are.
StartAt ==
    /\ w_ops = Wires!StartOps
    /\ w_made \in 0 .. 2 => w_dev.out = 1
    /\ w_made = 0 => (w_scl = 1 => w_sda = 1)
    /\ w_made = 1 => w_sda = 1
    /\ w_made = 2 => w_sda = 1 /\ w_scl = 1
    /\ w_made = 3 => w_dev.mode = "start"
    /\ w_made = 4 => w_state = "address"

StopAt ==
    /\ w_ops = Wires!StopOps
    /\ w_made = 0 => w_scl = 0 /\ w_dev.out = 1
    /\ w_made = 1 => w_scl = 0 /\ w_dev.out = 1 /\ w_sda = 0
    /\ w_made = 2 => w_scl = 1 /\ w_dev.out = 1 /\ w_sda = 0
    /\ w_made = 3 => w_state = "free" /\ w_dev = Wires!Idle

ResetAt ==
    /\ w_ops \in {<<Wires!Sda(1), Wires!Scl(1)>>, <<Wires!Scl(1), Wires!Sda(1)>>}
    /\ w_made = 1 => IF w_ops[1] = Wires!Sda(1) THEN w_sda = 1 ELSE w_scl = 1
    /\ w_made = 2 => w_state = "reset"

\* A byte the device takes: q bits of it are on its side.
Arrived(q) == /\ w_dev.mode = "receive" /\ w_dev.bit = q + 1 /\ w_dev.byte = First(w_arg, q)
            /\ w_bits = <<>>

WriteAt ==
    /\ w_arg \in Wires!Bytes /\ w_ops = Wires!WriteOps(w_arg)
    /\ \A q \in 0 .. Bits : w_made = 3 * q => w_scl = 0 /\ Arrived(q)
    /\ \A q \in 0 .. Bits - 1 :
          /\ w_made = 3 * q + 1 => w_scl = 0 /\ w_sda = w_arg[q + 1] /\ Arrived(q)
          /\ w_made = 3 * q + 2 =>
                /\ w_scl = 1 /\ w_dev.mode = "receive" /\ w_dev.bit = q + 1
                /\ w_dev.byte = First(w_arg, q + 1) /\ w_bits = <<>>
    /\ w_made = 3 * Bits + 1 => w_scl = 0 /\ w_sda = 1 /\ Arrived(Bits)
    /\ w_made = 3 * Bits + 2 => w_scl = 1 /\ w_sda = 1 /\ Arrived(Bits)
    /\ w_made = 3 * Bits + 3 =>
          /\ w_scl = 1 /\ w_dev.mode = "receive" /\ w_dev.bit = Bits + 1
          /\ w_dev.byte = w_arg /\ w_bits = <<w_dev.out>>
    /\ w_made = 3 * Bits + 4 => w_dev.whole = w_arg /\ w_state \in {"last", "read", "write"}

\* A byte the device gives: the program has read q bits of it.
Given(q) == w_dev.mode = "send" /\ w_bits = First(w_dev.byte, q)

ReadAt ==
    /\ w_arg \in {<<0>>, <<1>>} /\ w_ops = Wires!ReadOps(w_arg[1])
    /\ w_made = 0 => w_scl = 0 /\ Given(0) /\ w_dev.bit = 1
    /\ \A q \in 0 .. Bits : w_made = 3 * q + 1 =>
          w_scl = 0 /\ w_sda = 1 /\ Given(q) /\ w_dev.bit = q + 1
    /\ \A q \in 0 .. Bits - 1 :
          /\ w_made = 3 * q + 2 => w_scl = 1 /\ w_sda = 1 /\ Given(q) /\ w_dev.bit = q + 1
          /\ w_made = 3 * q + 3 => w_scl = 1 /\ w_sda = 1 /\ Given(q + 1) /\ w_dev.bit = q + 1
    /\ w_made = 3 * Bits + 2 =>
          w_scl = 0 /\ w_sda = w_arg[1] /\ Given(Bits) /\ w_dev.bit = Bits + 1
    /\ w_made = 3 * Bits + 3 =>
          w_scl = 1 /\ w_sda = w_arg[1] /\ Given(Bits) /\ w_dev.bit = Bits + 1
    /\ w_made \in {3 * Bits + 4, 3 * Bits + 5} =>
          /\ w_scl = 0 /\ w_bits = w_dev.whole
          /\ IF w_arg = <<1>> THEN w_dev.mode = "deaf" ELSE w_dev.mode = "send" /\ w_dev.bit = 1
    /\ w_made = 3 * Bits + 5 => w_state = IF w_arg = <<1>> THEN "last" ELSE "read"

\* After j clocks a device that sends is beyond the j-th bit, one that receives
\* is not at it: after Bits + 1 clocks nobody sends, and nobody acknowledges.  A
\* first byte has begun with the clocks and has taken nothing but ones.
Swept(j) ==
    /\ w_sda = 1
    /\ ~Wires!Spared =>
          /\ w_dev.mode = "send" => w_dev.bit > j
          /\ w_dev.mode = "receive" => w_dev.bit # j /\ (j = 0 => w_dev.out = 1)
          /\ w_dev.mode = "receive" /\ w_dev.first =>
                /\ w_dev.bit = j + 1 /\ (w_dev.bit = Bits + 1 => w_dev.ack = 1)
                /\ \A i \in 1 .. Len(w_dev.byte) : w_dev.byte[i] = 1

ClocksAt ==
    /\ w_ops = Wires!NineClocks
    /\ \A j \in 0 .. Bits + 1 : w_made = 2 * j => w_scl = 1 /\ Swept(j)
    /\ \A j \in 0 .. Bits : w_made = 2 * j + 1 => w_scl = 0 /\ Swept(j + 1)
    /\ w_made = 2 * Bits + 2 => w_state \in {"free", "held"} /\ (w_state = "free" => w_dev.out = 1)

\* A recovery that finds 0 in ODR begins with a START, or with the next byte of
\* a device that acknowledges.
Begun == w_dev.mode = "receive" => w_dev.bit = 1

RecoverAt ==
    /\ w_arg \in {<<0>>, <<1>>} /\ w_ops = Wires!RecoverOps(w_arg[1])
    /\ w_made = 0 => w_scl = 1 /\ w_sda = 1 /\ (w_arg = <<1>> => Swept(0))
    /\ w_made \in 1 .. 3 /\ w_arg = <<1>> => w_scl = 1 /\ Swept(0)
    /\ w_made = 1 /\ w_arg = <<0>> =>
          w_scl = 1 /\ w_sda = 0 /\ (w_dev.mode = "start" \/ w_dev.out = 0)
    /\ w_made = 2 /\ w_arg = <<0>> => w_scl = 0 /\ w_sda = 0 /\ Begun
    /\ w_made = 3 /\ w_arg = <<0>> => w_scl = 0 /\ w_sda = 1 /\ Begun
    /\ \A j \in 0 .. Bits + 1 : w_made = 2 * j + 4 => w_scl = 1 /\ Swept(j)
    /\ \A j \in 0 .. Bits : w_made = 2 * j + 5 => w_scl = 0 /\ Swept(j + 1)
    /\ w_made \in {2 * Bits + 7, 2 * Bits + 8} =>
          w_scl = 1 /\ w_sda = 0 /\ (~Wires!Spared => w_dev.mode = "start")
    /\ w_made = 2 * Bits + 9 =>
          /\ w_scl = 1 /\ w_sda = 1 /\ (~Wires!Spared => w_dev = Wires!Idle)
          /\ w_state \in {"free", "held"} /\ (w_state = "free" => w_dev.out = 1)

Calls ==
    /\ w_call \in {"none", "start", "stop", "write", "read", "recover", "clocks", "reset"}
    /\ w_made <= Len(w_ops)
    /\ w_call = "none"    => w_ops = <<>> /\ w_state = "free"
    /\ w_call = "start"   => StartAt
    /\ w_call = "stop"    => StopAt
    /\ w_call = "write"   => WriteAt
    /\ w_call = "read"    => ReadAt
    /\ w_call = "recover" => RecoverAt
    /\ w_call = "clocks"  => ClocksAt
    /\ w_call = "reset"   => ResetAt

\* What the application may call next is what the device is ready for.
Between ==
    w_made = Len(w_ops) =>
        /\ w_state = "free"    => w_sda = 1 /\ w_scl = 1 /\ w_dev.out = 1
        /\ w_state = "address" => w_scl = 0 /\ w_dev.mode = "receive" /\ w_dev.bit = 1
        /\ w_state = "write"   => w_scl = 0 /\ w_dev.mode = "receive" /\ w_dev.bit = 1
        /\ w_state = "read"    => w_scl = 0 /\ w_dev.mode = "send" /\ w_dev.bit = 1
        /\ w_state = "last"    => w_scl = 0 /\ w_dev.mode = "deaf"
        /\ w_state = "reset"   => w_sda = 1 /\ w_scl = 1

States == {"free", "address", "write", "read", "last", "reset", "held"}
WireInv == WiresTyped /\ w_state \in States /\ DevRight /\ Calls /\ Between

-----------------------------------------------------------------------------
\* What the device becomes when SCL rises, and when it falls.

LEMMA Rises ==
  ASSUME NEW d \in Target, NEW w \in Wires!Bit, NEW e \in Wires!Rise(d, w)
  PROVE  /\ e \in Target
         /\ e.mode = d.mode /\ e.bit = d.bit /\ e.out = d.out /\ e.first = d.first
         /\ e.whole = d.whole
         /\ e.byte = IF d.mode = "receive" /\ d.bit <= Bits THEN Append(d.byte, w) ELSE d.byte
         /\ e.ack = IF d.mode = "send" /\ d.bit = Bits + 1 THEN w ELSE d.ack
<1>1. d.byte \in Seq(Wires!Bit) /\ Append(d.byte, w) \in Seq(Wires!Bit)
  BY DEF Target
<1>2. CASE d.mode = "receive" /\ d.bit <= Bits
  <2>1. e = [d EXCEPT !.byte = Append(d.byte, w)]
    BY <1>2 DEF Wires!Rise
  <2> QED
    BY <1>1, <1>2, <2>1 DEF Target
<1>3. CASE d.mode = "send" /\ d.bit = Bits + 1
  <2>1. e = [d EXCEPT !.ack = w]
    BY <1>3 DEF Wires!Rise
  <2> QED
    BY <1>3, <2>1 DEF Target
<1>4. CASE ~(d.mode = "receive" /\ d.bit <= Bits) /\ ~(d.mode = "send" /\ d.bit = Bits + 1)
  BY <1>4 DEF Wires!Rise
<1> QED
  BY <1>2, <1>3, <1>4

Receives(e, first, whole) ==
    /\ e.mode = "receive" /\ e.bit = 1 /\ e.byte = <<>> /\ e.out = 1 /\ e.first = first
    /\ e.whole = whole

BitOn(d, e) ==
    /\ e.mode = d.mode /\ e.bit = d.bit + 1 /\ e.byte = d.byte /\ e.first = d.first
    /\ d.mode = "receive" /\ d.bit < Bits => e.out = d.out
    /\ d.mode = "receive" /\ d.bit = Bits => e.out = e.ack
    /\ d.mode = "receive" /\ d.bit = Bits /\ d.first /\ d.byte = Wires!Ones => e.ack = 1
    /\ d.mode = "send" /\ d.bit < Bits => e.out = d.byte[d.bit + 1]
    /\ d.mode = "send" /\ d.bit = Bits => e.out = 1

ByteOn(d, e) ==
    \/ /\ d.ack = 1 /\ e.mode = "deaf" /\ e.bit = 0 /\ e.out = 1 /\ e.byte = <<>>
       /\ e.whole = d.byte
    \/ d.ack = 0 /\ d.mode = "receive" /\ Receives(e, FALSE, d.byte)
    \/ /\ d.ack = 0 /\ (d.mode = "send" \/ d.first)
       /\ e.mode = "send" /\ e.bit = 1 /\ e.byte \in Wires!Bytes /\ e.out = e.byte[1]
       /\ ~e.first /\ e.whole = d.byte

LEMMA BytesAreSequences ==
  ASSUME NEW b \in Wires!Bytes
  PROVE  /\ b \in Seq(Wires!Bit) /\ Len(b) = Bits
         /\ \A i \in 1 .. Bits : b[i] \in Wires!Bit
BY DriversAssumption DEF Wires!Bytes

LEMMA IdleDevice == Wires!Idle \in Target
<1>1. <<>> \in Seq(Wires!Bit)
  OBVIOUS
<1> QED
  BY <1>1, DriversAssumption DEF Wires!Idle, Target, Modes, Wires!Bit

LEMMA Falls ==
  ASSUME NEW d \in Target, NEW e \in Wires!Fall(d),
         d.mode \in {"send", "receive"} => d.bit >= 1,
         d.mode = "send" => d.byte \in Wires!Bytes
  PROVE  /\ e \in Target
         /\ d.mode \in {"idle", "deaf"} => e = d
         /\ d.mode = "start" => Receives(e, TRUE, d.byte)
         /\ d.mode \in {"send", "receive"} /\ d.bit <= Bits => BitOn(d, e)
         /\ d.mode \in {"send", "receive"} /\ d.bit = Bits + 1 => ByteOn(d, e)
<1>1. /\ d.mode \in Modes /\ d.bit \in 0 .. Bits + 1 /\ d.byte \in Seq(Wires!Bit)
      /\ d.out \in Wires!Bit /\ d.ack \in Wires!Bit /\ <<>> \in Seq(Wires!Bit)
  BY DEF Target
<1>a. Bits \in Nat /\ 0 \in Wires!Bit /\ 1 \in Wires!Bit /\ 1 \in 0 .. Bits + 1
  BY DriversAssumption DEF Wires!Bit
<1>b. Modes = {"idle", "start", "deaf", "send", "receive"}
  BY DEF Modes
<1>2. CASE d.mode \in {"idle", "deaf"}
  <2>1. e = d
    BY <1>2 DEF Wires!Fall
  <2> QED
    BY <1>2, <2>1
<1>3. CASE d.mode = "start"
  <2>1. e = Wires!Receive(d, TRUE)
    BY <1>3 DEF Wires!Fall
  <2>2. e = [d EXCEPT !.mode = "receive", !.bit = 1, !.byte = <<>>, !.out = 1,
                      !.first = TRUE, !.whole = d.byte]
    BY <2>1 DEF Wires!Receive
  <2>3. e \in Target
    BY <1>1, <1>a, <1>b, <2>2 DEF Target
  <2>4. Receives(e, TRUE, d.byte)
    BY <2>2, <2>3 DEF Target, Receives
  <2> QED
    BY <1>3, <2>3, <2>4
<1>4. CASE d.mode \in {"send", "receive"} /\ d.bit <= Bits
  <2>a. d.bit + 1 \in 0 .. Bits + 1 /\ (d.bit < Bits \/ d.bit = Bits)
    BY <1>1, <1>4, <1>a
  <2>b. ~(d.mode \in {"idle", "deaf"}) /\ d.mode # "start"
    BY <1>4
  <2>c. e \in Wires!NextBit(d)
    BY <1>4, <2>b DEF Wires!Fall
  <2>0. d.bit + 1 \in 0 .. Bits + 1 /\ e \in Wires!NextBit(d)
    BY <2>a, <2>c
  <2>1. CASE d.mode = "receive" /\ d.bit < Bits
    <3>1. e = [d EXCEPT !.bit = d.bit + 1]
      BY <2>0, <2>1 DEF Wires!NextBit
    <3>2. e \in Target
      BY <2>0, <3>1 DEF Target
    <3> QED
      BY <1>1, <1>4, <1>a, <2>1, <3>1, <3>2 DEF Target, BitOn
  <2>2. CASE d.mode = "receive" /\ d.bit = Bits
    <3>1. ~(d.bit < Bits) /\ d.mode # "send"
      BY <1>1, <1>a, <2>2
    <3>2. PICK a \in Wires!Acks(d) : e = [d EXCEPT !.bit = d.bit + 1, !.out = a, !.ack = a]
      BY <2>0, <3>1 DEF Wires!NextBit
    <3>4. a \in Wires!Bit /\ (d.first /\ d.byte = Wires!Ones => a = 1)
      BY <1>a, <3>2 DEF Wires!Acks
    <3>3. e \in Target
      BY <2>0, <3>2, <3>4 DEF Target
    <3> QED
      BY <1>1, <1>4, <1>a, <2>2, <3>2, <3>3, <3>4 DEF Target, BitOn
  <2>3. CASE d.mode = "send" /\ d.bit < Bits
    <3>1. e = [d EXCEPT !.bit = d.bit + 1, !.out = d.byte[d.bit + 1]]
      BY <2>0, <2>3 DEF Wires!NextBit
    <3>2. d.byte[d.bit + 1] \in Wires!Bit
      BY <1>1, <1>a, <2>3, BytesAreSequences
    <3>3. e \in Target
      BY <2>0, <3>1, <3>2 DEF Target
    <3> QED
      BY <1>1, <1>4, <1>a, <2>3, <3>1, <3>3 DEF Target, BitOn
  <2>4. CASE d.mode = "send" /\ d.bit = Bits
    <3>1. ~(d.bit < Bits)
      BY <1>1, <1>a, <2>4
    <3>2. e = [d EXCEPT !.bit = d.bit + 1, !.out = 1]
      BY <2>0, <2>4, <3>1 DEF Wires!NextBit
    <3>3. e \in Target
      BY <1>a, <2>0, <3>2 DEF Target
    <3> QED
      BY <1>1, <1>4, <1>a, <2>4, <3>2, <3>3 DEF Target, BitOn
  <2> QED
    BY <1>4, <2>a, <2>1, <2>2, <2>3, <2>4
<1>5. CASE d.mode \in {"send", "receive"} /\ d.bit = Bits + 1
  <2>a. ~(d.bit <= Bits)
    BY <1>5, <1>a
  <2>b. ~(d.mode \in {"idle", "deaf"}) /\ d.mode # "start"
    BY <1>5
  <2>0. e \in Wires!NextByte(d) /\ ~(d.bit <= Bits)
    BY <2>a, <2>b DEF Wires!Fall
  <2>1. CASE d.ack = 1
    <3>1. e = [Wires!Idle EXCEPT !.mode = "deaf", !.whole = d.byte]
      BY <2>0, <2>1 DEF Wires!NextByte, Wires!Deaf
    <3>2. e \in Target
      BY <1>1, <1>b, <3>1, IdleDevice DEF Target
    <3>3. e.mode = "deaf" /\ e.bit = 0 /\ e.out = 1 /\ e.byte = <<>> /\ e.whole = d.byte
      BY <3>1 DEF Wires!Idle
    <3>4. ByteOn(d, e)
      BY <2>1, <3>3 DEF ByteOn
    <3> QED
      BY <1>5, <2>0, <3>2, <3>4
  <2>2. CASE d.ack = 0
    <3>0. d.ack # 1
      BY <2>2
    <3>1. \/ (d.mode = "send" \/ d.first) /\ e \in Wires!Sends(d)
          \/ d.mode = "receive" /\ e = Wires!Receive(d, FALSE)
      <4>1. e \in (IF d.mode = "send" \/ d.first THEN Wires!Sends(d) ELSE {})
                  \cup (IF d.mode = "receive" THEN {Wires!Receive(d, FALSE)} ELSE {})
        BY <2>0, <3>0 DEF Wires!NextByte
      <4> QED
        BY Zenon, <4>1
    <3>2. CASE (d.mode = "send" \/ d.first) /\ e \in Wires!Sends(d)
      <4>1. PICK b \in Wires!Bytes :
               e = [d EXCEPT !.mode = "send", !.bit = 1, !.byte = b, !.out = b[1],
                             !.first = FALSE, !.whole = d.byte]
        BY <3>2 DEF Wires!Sends
      <4>2. b \in Seq(Wires!Bit) /\ b[1] \in Wires!Bit
        BY BytesAreSequences, DriversAssumption
      <4>3. e \in Target
        BY <1>1, <1>a, <1>b, <4>1, <4>2 DEF Target
      <4>4. /\ e.mode = "send" /\ e.bit = 1 /\ e.byte = b /\ e.out = b[1]
            /\ e.first = FALSE /\ e.whole = d.byte
        BY <4>1, <4>3 DEF Target
      <4>5. ByteOn(d, e)
        BY <2>2, <3>2, <4>4 DEF ByteOn
      <4> QED
        BY <1>5, <2>0, <4>3, <4>5
    <3>3. CASE d.mode = "receive" /\ e = Wires!Receive(d, FALSE)
      <4>1. e = [d EXCEPT !.mode = "receive", !.bit = 1, !.byte = <<>>, !.out = 1,
                          !.first = FALSE, !.whole = d.byte]
        BY <3>3 DEF Wires!Receive
      <4>2. e \in Target
        BY <1>1, <1>a, <1>b, <4>1 DEF Target
      <4>3. Receives(e, FALSE, d.byte)
        BY <4>1, <4>2 DEF Target, Receives
      <4>4. ByteOn(d, e)
        BY <2>2, <3>3, <4>3 DEF ByteOn
      <4> QED
        BY <1>5, <2>0, <4>2, <4>4
    <3> QED
      BY <3>1, <3>2, <3>3
  <2> QED
    BY <1>1, <2>1, <2>2 DEF Wires!Bit
<1>6. \/ d.mode \in {"idle", "deaf"} \/ d.mode = "start"
      \/ d.mode \in {"send", "receive"} /\ d.bit <= Bits
      \/ d.mode \in {"send", "receive"} /\ d.bit = Bits + 1
  BY <1>1, <1>a, <1>b
<1> QED
  BY <1>2, <1>3, <1>4, <1>5, <1>6

-----------------------------------------------------------------------------
\* What an access does.

LEMMA Moves ==
  ASSUME Wires!Access
  PROVE  /\ w_made < Len(w_ops) /\ w_made' = w_made + 1 /\ w_ops' = w_ops
         /\ w_call' = w_call /\ w_arg' = w_arg /\ w_taking' = w_taking
         /\ w_state' = IF w_made + 1 = Len(w_ops) THEN Wires!After ELSE w_state
BY DEF Wires!Access

LEMMA SparedStays ==
  ASSUME Wires!Access
  PROVE  Wires!Spared' <=> Wires!Spared
BY Moves DEF Wires!Spared

LEMMA OnSda ==
  ASSUME Wires!Access, NEW v \in Wires!Bit, w_ops[w_made + 1] = Wires!Sda(v)
  PROVE  Wires!I2C_SDA(v) /\ w_bits' = w_bits
BY DEF Wires!Access, Wires!Sda, Wires!Scl, Wires!I2C_READ

LEMMA OnScl ==
  ASSUME Wires!Access, NEW v \in Wires!Bit, w_ops[w_made + 1] = Wires!Scl(v)
  PROVE  Wires!I2C_SCL(v) /\ w_bits' = w_bits
BY DEF Wires!Access, Wires!Sda, Wires!Scl, Wires!I2C_READ

LEMMA OnRead ==
  ASSUME Wires!Access, w_ops[w_made + 1] = Wires!I2C_READ
  PROVE  /\ w_bits' = Append(w_bits, Wires!Wire)
         /\ w_sda' = w_sda /\ w_scl' = w_scl /\ w_dev' = w_dev
BY DEF Wires!Access, Wires!Sda, Wires!Scl, Wires!I2C_READ, Wires!wires

LEMMA SdaMoves ==
  ASSUME WiresTyped, DevRight, NEW v \in Wires!Bit, Wires!I2C_SDA(v)
  PROVE  /\ w_sda' = v /\ w_scl' = w_scl /\ w_dev' \in Target /\ DevRight'
         /\ w_scl = 0 \/ w_dev.out = 0 \/ v = w_sda => w_dev' = w_dev
         /\ w_scl = 1 /\ w_dev.out = 1 /\ v # w_sda =>
               IF v = 0 THEN w_dev'.mode = "start" /\ w_dev'.byte = <<>> ELSE w_dev' = Wires!Idle
<1>1. /\ w_sda' = v /\ w_scl' = w_scl
      /\ w_dev' = IF w_scl = 1 /\ Wires!SDA(v, w_dev) # Wires!Wire
                  THEN Wires!Condition(Wires!SDA(v, w_dev)) ELSE w_dev
  BY DEF Wires!I2C_SDA
<1>2. /\ w_dev \in Target /\ w_dev.out \in {0, 1} /\ w_sda \in {0, 1} /\ w_scl \in {0, 1} /\ v \in {0, 1}
  BY DEF WiresTyped, Target, Wires!Bit
<1>3. CASE w_scl = 1 /\ w_dev.out = 1 /\ v # w_sda
  <2>1. w_dev' = Wires!Condition(v)
    BY <1>1, <1>2, <1>3 DEF Wires!SDA, Wires!Wire
  <2>2. CASE v = 0
    <3>1. w_dev' = [Wires!Idle EXCEPT !.mode = "start"]
      BY <2>1, <2>2 DEF Wires!Condition
    <3>2. w_dev' \in Target
      BY <3>1, IdleDevice DEF Target, Modes
    <3>3. w_dev'.mode = "start" /\ w_dev'.bit = 0 /\ w_dev'.out = 1 /\ w_dev'.byte = <<>>
      BY <3>1, IdleDevice DEF Wires!Idle
    <3>4. DevRight'
      BY <1>1, <1>3, <2>2, <3>3 DEF DevRight
    <3> QED
      BY <1>1, <1>2, <1>3, <2>2, <3>2, <3>3, <3>4
  <2>3. CASE v = 1
    <3>1. w_dev' = Wires!Idle
      BY <2>1, <2>3 DEF Wires!Condition
    <3>2. w_dev'.mode = "idle" /\ w_dev'.bit = 0 /\ w_dev'.out = 1
      BY <3>1 DEF Wires!Idle
    <3>3. DevRight'
      BY <3>2 DEF DevRight
    <3> QED
      BY <1>1, <1>2, <1>3, <2>3, <3>1, <3>3, IdleDevice
  <2> QED
    BY <1>2, <2>2, <2>3
<1>4. CASE ~(w_scl = 1 /\ w_dev.out = 1 /\ v # w_sda)
  <2>1. w_dev' = w_dev
    BY <1>1, <1>2, <1>4 DEF Wires!SDA, Wires!Wire
  <2>2. DevRight'
    <3>1. w_dev.mode = "start" => v = 0
      BY <1>2, <1>4 DEF DevRight
    <3>2. w_dev.mode = "send" /\ w_dev.bit = Bits + 1 /\ w_scl = 1 => w_dev.ack = v
      BY <1>2, <1>4 DEF DevRight
    <3> QED
      BY <1>1, <2>1, <3>1, <3>2 DEF DevRight
  <2> QED
    BY <1>1, <1>2, <1>4, <2>1, <2>2
<1> QED
  BY <1>3, <1>4

LEMMA WireBit ==
  ASSUME WiresTyped
  PROVE  /\ Wires!Wire \in Wires!Bit
         /\ w_dev.out = 1 => Wires!Wire = w_sda
         /\ w_sda = 1 => Wires!Wire = w_dev.out
BY DEF WiresTyped, Target, Wires!Bit, Wires!Wire, Wires!SDA

\* SCL rises.
Risen == /\ w_dev'.mode = w_dev.mode /\ w_dev'.bit = w_dev.bit /\ w_dev'.out = w_dev.out
         /\ w_dev'.first = w_dev.first /\ w_dev'.whole = w_dev.whole
         /\ w_dev'.byte = IF w_dev.mode = "receive" /\ w_dev.bit <= Bits
                          THEN Append(w_dev.byte, Wires!Wire) ELSE w_dev.byte
         /\ w_dev.mode = "receive" => w_dev'.ack = w_dev.ack

\* SCL falls.
Fallen == /\ w_dev.mode \in {"idle", "deaf"} => w_dev' = w_dev
          /\ w_dev.mode = "start" => Receives(w_dev', TRUE, w_dev.byte)
          /\ w_dev.mode \in {"send", "receive"} /\ w_dev.bit <= Bits => BitOn(w_dev, w_dev')
          /\ w_dev.mode \in {"send", "receive"} /\ w_dev.bit = Bits + 1 => ByteOn(w_dev, w_dev')

LEMMA SclMoves ==
  ASSUME WiresTyped, DevRight, NEW v \in Wires!Bit, Wires!I2C_SCL(v)
  PROVE  /\ w_sda' = w_sda /\ w_scl' = v /\ w_dev' \in Target /\ DevRight'
         /\ v = w_scl => w_dev' = w_dev
         /\ v = 1 /\ w_scl = 0 => Risen
         /\ v = 0 /\ w_scl = 1 => Fallen
<1>1. /\ w_sda' = w_sda /\ w_scl' = v
      /\ w_dev' \in IF v = w_scl THEN {w_dev}
                    ELSE IF v = 1 THEN Wires!Rise(w_dev, Wires!Wire) ELSE Wires!Fall(w_dev)
  BY DEF Wires!I2C_SCL
<1>2. /\ w_dev \in Target /\ w_dev.out \in {0, 1} /\ w_dev.ack \in {0, 1}
      /\ w_sda \in {0, 1} /\ w_scl \in {0, 1} /\ v \in {0, 1}
      /\ w_dev.mode \in Modes /\ w_dev.bit \in 0 .. Bits + 1 /\ w_dev.byte \in Seq(Wires!Bit)
      /\ Wires!Wire \in Wires!Bit
  BY WireBit DEF WiresTyped, Target, Wires!Bit
<1>3. CASE v = w_scl
  <2>1. w_dev' = w_dev
    BY <1>1, <1>3
  <2>2. DevRight'
    BY <1>1, <1>3, <2>1 DEF DevRight
  <2> QED
    BY <1>1, <1>2, <1>3, <2>1, <2>2
<1>4. CASE v = 1 /\ w_scl = 0
  <2>1. w_dev' \in Wires!Rise(w_dev, Wires!Wire)
    BY <1>1, <1>4
  <2>2. /\ w_dev' \in Target /\ Risen
        /\ w_dev'.ack = IF w_dev.mode = "send" /\ w_dev.bit = Bits + 1 THEN Wires!Wire ELSE w_dev.ack
    BY <1>2, <2>1, Rises DEF Risen
  <2>3. DevRight'
    <3>1. w_dev.mode # "start"
      BY <1>4 DEF DevRight
    <3>2. w_dev.mode = "receive" /\ w_dev.bit <= Bits => Len(w_dev'.byte) = w_dev'.bit
      <4>1. Len(Append(w_dev.byte, Wires!Wire)) = Len(w_dev.byte) + 1
        BY <1>2
      <4> QED
        BY <1>2, <1>4, <2>2, <4>1 DEF DevRight, Risen
    <3>3. w_dev.mode = "receive" /\ w_dev.bit = Bits + 1 => w_dev'.byte = w_dev.byte
      BY <1>2, <2>2, DriversAssumption DEF Risen
    <3>4. w_dev.mode = "send" => w_dev'.byte = w_dev.byte
      BY <2>2 DEF Risen
    <3>5. w_dev.mode = "send" /\ w_dev.bit = Bits + 1 => w_dev'.ack = w_sda
      BY <2>2, WireBit DEF DevRight
    <3>6. w_dev.mode = "receive" => w_dev'.ack = w_dev.ack
      BY <2>2
    <3> QED
      BY <1>1, <1>4, <2>2, <3>1, <3>2, <3>3, <3>4, <3>5, <3>6 DEF DevRight, Risen
  <2> QED
    BY <1>1, <1>2, <1>4, <2>2, <2>3
<1>5. CASE v = 0 /\ w_scl = 1
  <2>1. w_dev' \in Wires!Fall(w_dev)
    BY <1>1, <1>5
  <2>2. w_dev' \in Target /\ Fallen
    <3>1. /\ w_dev.mode \in {"send", "receive"} => w_dev.bit >= 1
          /\ w_dev.mode = "send" => w_dev.byte \in Wires!Bytes
      BY DEF DevRight
    <3> QED
      BY <1>2, <2>1, <3>1, Falls DEF Fallen
  <2>3. DevRight'
    <3>1. CASE w_dev.mode \in {"idle", "deaf"}
      BY <1>1, <2>2, <3>1 DEF DevRight, Fallen
    <3>2. CASE w_dev.mode = "start"
      <4>1. Receives(w_dev', TRUE, w_dev.byte)
        BY <2>2, <3>2 DEF Fallen
      <4> QED
        BY <1>1, <1>5, <4>1, DriversAssumption DEF DevRight, Receives
    <3>3. CASE w_dev.mode \in {"send", "receive"} /\ w_dev.bit <= Bits
      <4>1. BitOn(w_dev, w_dev')
        BY <2>2, <3>3 DEF Fallen
      <4>2. w_dev.bit >= 1 /\ w_dev.bit \in Nat /\ Bits \in Nat
        BY <1>2, <3>3, DriversAssumption DEF DevRight
      <4>3. CASE w_dev.mode = "receive" /\ w_dev.bit < Bits
        BY <1>1, <1>5, <3>3, <4>1, <4>2, <4>3 DEF DevRight, BitOn
      <4>4. CASE w_dev.mode = "receive" /\ w_dev.bit = Bits
        BY <1>1, <1>5, <3>3, <4>1, <4>2, <4>4 DEF DevRight, BitOn
      <4>5. CASE w_dev.mode = "send" /\ w_dev.bit < Bits
        BY <1>1, <1>5, <3>3, <4>1, <4>2, <4>5 DEF DevRight, BitOn
      <4>6. CASE w_dev.mode = "send" /\ w_dev.bit = Bits
        BY <1>1, <1>5, <3>3, <4>1, <4>2, <4>6 DEF DevRight, BitOn
      <4> QED
        BY <3>3, <4>2, <4>3, <4>4, <4>5, <4>6
    <3>4. CASE w_dev.mode \in {"send", "receive"} /\ w_dev.bit = Bits + 1
      <4>1. ByteOn(w_dev, w_dev')
        BY <2>2, <3>4 DEF Fallen
      <4>2. CASE w_dev'.mode = "deaf" /\ w_dev'.bit = 0 /\ w_dev'.out = 1
        BY <4>2 DEF DevRight
      <4>3. CASE Receives(w_dev', FALSE, w_dev.byte)
        BY <1>1, <1>5, <4>3, DriversAssumption DEF DevRight, Receives
      <4>4. CASE /\ w_dev'.mode = "send" /\ w_dev'.bit = 1 /\ w_dev'.byte \in Wires!Bytes
                 /\ w_dev'.out = w_dev'.byte[1] /\ ~w_dev'.first
        BY <1>1, <1>5, <4>4, DriversAssumption DEF DevRight
      <4> QED
        BY <4>1, <4>2, <4>3, <4>4 DEF ByteOn
    <3> QED
      BY <1>2, <3>1, <3>2, <3>3, <3>4, DriversAssumption DEF Modes
  <2> QED
    BY <1>1, <1>2, <1>5, <2>2, <2>3
<1> QED
  BY <1>2, <1>3, <1>4, <1>5

LEMMA StaysTyped ==
  ASSUME WiresTyped, DevRight, Wires!Access
  PROVE  WiresTyped' /\ DevRight'
<1>1. /\ w_sda \in Wires!Bit /\ w_scl \in Wires!Bit /\ w_taking \in BOOLEAN
      /\ w_dev \in Target /\ w_bits \in Seq(Wires!Bit) /\ w_made \in Nat
  BY DEF WiresTyped
<1>2. w_taking' = w_taking /\ w_made' \in Nat
  BY <1>1, Moves
<1>3. \/ w_bits' = Append(w_bits, Wires!Wire) /\ w_sda' = w_sda /\ w_scl' = w_scl /\ w_dev' = w_dev
      \/ \E v \in Wires!Bit : Wires!I2C_SDA(v) /\ w_bits' = w_bits
      \/ \E v \in Wires!Bit : Wires!I2C_SCL(v) /\ w_bits' = w_bits
  BY DEF Wires!Access, Wires!wires
<1>4. CASE w_bits' = Append(w_bits, Wires!Wire) /\ w_sda' = w_sda /\ w_scl' = w_scl /\ w_dev' = w_dev
  <2>1. w_bits' \in Seq(Wires!Bit)
    BY <1>1, <1>4, WireBit
  <2> QED
    BY <1>1, <1>2, <1>4, <2>1 DEF WiresTyped, DevRight
<1>5. CASE \E v \in Wires!Bit : Wires!I2C_SDA(v) /\ w_bits' = w_bits
  BY <1>1, <1>2, <1>5, SdaMoves DEF WiresTyped
<1>6. CASE \E v \in Wires!Bit : Wires!I2C_SCL(v) /\ w_bits' = w_bits
  BY <1>1, <1>2, <1>6, SclMoves DEF WiresTyped
<1> QED
  BY <1>3, <1>4, <1>5, <1>6

LEMMA Pins == 0 \in Wires!Bit /\ 1 \in Wires!Bit /\ Wires!Bit = {0, 1}
BY DEF Wires!Bit

-----------------------------------------------------------------------------
\* The accesses of each call.

LEMMA StartSteps ==
  ASSUME WiresTyped, DevRight, Wires!Access, w_call = "start", StartAt
  PROVE  /\ StartAt'
         /\ w_made' = Len(w_ops') => /\ w_state' = "address" /\ w_scl' = 0
                                     /\ w_dev'.mode = "receive" /\ w_dev'.bit = 1
<1>1. /\ w_ops = <<Wires!Sda(1), Wires!Scl(1), Wires!Sda(0), Wires!Scl(0)>> /\ Len(w_ops) = 4
      /\ w_made \in Nat
  BY DEF StartAt, Wires!StartOps, WiresTyped
<1>2. /\ w_made < 4 /\ w_made' = w_made + 1 /\ w_ops' = w_ops
      /\ w_made + 1 = 4 => w_state' = "address"
  BY <1>1, Moves DEF Wires!After
<1>3. CASE w_made = 0
  <2>1. Wires!I2C_SDA(1)
    BY <1>1, <1>3, OnSda, Pins
  <2>2. w_sda' = 1 /\ w_dev' = w_dev
    BY <1>3, <2>1, SdaMoves, Pins DEF StartAt, WiresTyped
  <2> QED
    BY <1>1, <1>2, <1>3, <2>2 DEF StartAt
<1>4. CASE w_made = 1
  <2>1. Wires!I2C_SCL(1)
    BY <1>1, <1>4, OnScl, Pins
  <2>2. w_sda' = 1 /\ w_scl' = 1 /\ w_dev'.out = 1
    BY <1>4, <2>1, SclMoves, Pins DEF StartAt, WiresTyped, Risen
  <2> QED
    BY <1>1, <1>2, <1>4, <2>2 DEF StartAt
<1>5. CASE w_made = 2
  <2>1. Wires!I2C_SDA(0)
    BY <1>1, <1>5, OnSda, Pins
  <2>2. w_dev'.mode = "start"
    BY <1>5, <2>1, SdaMoves, Pins DEF StartAt
  <2> QED
    BY <1>1, <1>2, <1>5, <2>2 DEF StartAt
<1>6. CASE w_made = 3
  <2>1. Wires!I2C_SCL(0)
    BY <1>1, <1>6, OnScl, Pins
  <2>2. w_dev.mode = "start" /\ w_scl = 1
    BY <1>6 DEF StartAt, DevRight
  <2>3. w_scl' = 0 /\ w_dev'.mode = "receive" /\ w_dev'.bit = 1
    BY <2>1, <2>2, SclMoves, Pins DEF Fallen, Receives
  <2> QED
    BY <1>1, <1>2, <1>6, <2>3 DEF StartAt
<1> QED
  BY <1>1, <1>2, <1>3, <1>4, <1>5, <1>6

LEMMA StopSteps ==
  ASSUME WiresTyped, DevRight, Wires!Access, w_call = "stop", StopAt
  PROVE  /\ StopAt'
         /\ w_made' = Len(w_ops') => /\ w_state' = "free" /\ w_sda' = 1 /\ w_scl' = 1
                                     /\ w_dev' = Wires!Idle
<1>1. /\ w_ops = <<Wires!Sda(0), Wires!Scl(1), Wires!Sda(1)>> /\ Len(w_ops) = 3
      /\ w_made \in Nat
  BY DEF StopAt, Wires!StopOps, WiresTyped
<1>2. w_made < 3 /\ w_made' = w_made + 1 /\ w_ops' = w_ops
  BY <1>1, Moves
<1>3. CASE w_made = 0
  <2>1. Wires!I2C_SDA(0)
    BY <1>1, <1>3, OnSda, Pins
  <2>2. w_sda' = 0 /\ w_scl' = 0 /\ w_dev' = w_dev
    BY <1>3, <2>1, SdaMoves, Pins DEF StopAt
  <2> QED
    BY <1>1, <1>2, <1>3, <2>2 DEF StopAt
<1>4. CASE w_made = 1
  <2>1. Wires!I2C_SCL(1)
    BY <1>1, <1>4, OnScl, Pins
  <2>2. w_sda' = 0 /\ w_scl' = 1 /\ w_dev'.out = 1
    BY <1>4, <2>1, SclMoves, Pins DEF StopAt, Risen
  <2> QED
    BY <1>1, <1>2, <1>4, <2>2 DEF StopAt
<1>5. CASE w_made = 2
  <2>1. Wires!I2C_SDA(1)
    BY <1>1, <1>5, OnSda, Pins
  <2>2. w_sda' = 1 /\ w_scl' = 1 /\ w_dev' = Wires!Idle
    BY <1>5, <2>1, SdaMoves, Pins DEF StopAt
  <2>3. w_state' = "free"
    BY <1>1, <1>5, <2>2, Moves DEF Wires!After, Wires!SDA, Wires!Idle
  <2> QED
    BY <1>1, <1>2, <1>5, <2>2, <2>3 DEF StopAt
<1> QED
  BY <1>1, <1>2, <1>3, <1>4, <1>5

LEMMA ResetSteps ==
  ASSUME WiresTyped, DevRight, Wires!Access, w_call = "reset", ResetAt
  PROVE  /\ ResetAt'
         /\ w_made' = Len(w_ops') => w_state' = "reset" /\ w_sda' = 1 /\ w_scl' = 1
<1>1. w_made \in Nat /\ Len(w_ops) = 2
  BY DEF ResetAt, WiresTyped
<1>2. /\ w_made < 2 /\ w_made' = w_made + 1 /\ w_ops' = w_ops
      /\ w_made + 1 = 2 => w_state' = "reset"
  BY <1>1, Moves DEF Wires!After
<1>3. \A op \in {Wires!Sda(1), Wires!Scl(1)} : w_ops[w_made + 1] = op =>
         /\ op = Wires!Sda(1) => w_sda' = 1 /\ w_scl' = w_scl
         /\ op = Wires!Scl(1) => w_scl' = 1 /\ w_sda' = w_sda
  <2>1. ASSUME w_ops[w_made + 1] = Wires!Sda(1) PROVE w_sda' = 1 /\ w_scl' = w_scl
    BY <2>1, OnSda, SdaMoves, Pins
  <2>2. ASSUME w_ops[w_made + 1] = Wires!Scl(1) PROVE w_scl' = 1 /\ w_sda' = w_sda
    BY <2>2, OnScl, SclMoves, Pins
  <2> QED
    BY <2>1, <2>2
<1>4. Wires!Sda(1) # Wires!Scl(1)
  BY DEF Wires!Sda, Wires!Scl
<1>5. CASE w_ops = <<Wires!Sda(1), Wires!Scl(1)>>
  <2>1. w_ops[1] = Wires!Sda(1) /\ w_ops[2] = Wires!Scl(1)
    BY <1>5
  <2>2. CASE w_made = 0
    BY <1>2, <1>3, <1>5, <2>1, <2>2 DEF ResetAt
  <2>3. CASE w_made = 1
    BY <1>1, <1>2, <1>3, <1>5, <2>1, <2>3 DEF ResetAt
  <2> QED
    BY <1>1, <1>2, <2>2, <2>3
<1>6. CASE w_ops = <<Wires!Scl(1), Wires!Sda(1)>>
  <2>1. w_ops[1] = Wires!Scl(1) /\ w_ops[2] = Wires!Sda(1)
    BY <1>6
  <2>2. CASE w_made = 0
    BY <1>2, <1>3, <1>4, <1>6, <2>1, <2>2 DEF ResetAt
  <2>3. CASE w_made = 1
    BY <1>1, <1>2, <1>3, <1>4, <1>6, <2>1, <2>3 DEF ResetAt
  <2> QED
    BY <1>1, <1>2, <2>2, <2>3
<1> QED
  BY <1>5, <1>6 DEF ResetAt

LEMMA NineClocksAre ==
  /\ Wires!NineClocks \in Seq({Wires!Scl(0), Wires!Scl(1)})
  /\ Len(Wires!NineClocks) = 2 * Bits + 2
  /\ \A j \in 0 .. Bits : /\ Wires!NineClocks[2 * j + 1] = Wires!Scl(0)
                          /\ Wires!NineClocks[2 * j + 2] = Wires!Scl(1)
<1> DEFINE p == <<Wires!Scl(0), Wires!Scl(1)>>
<1>1. Wires!NineClocks = [i \in 1 .. 2 * Bits + 2 |-> p[1 + ((i - 1) % 2)]]
  <2>1. Len(p) = 2 /\ (Bits + 1) * 2 = 2 * Bits + 2
    BY DriversAssumption
  <2> QED
    BY <2>1 DEF Wires!NineClocks, Wires!Repeat
<1>2. \A i \in Nat : 1 + ((i - 1) % 2) \in {1, 2}
  OBVIOUS
<1>3. \A i \in 1 .. 2 * Bits + 2 : p[1 + ((i - 1) % 2)] \in {Wires!Scl(0), Wires!Scl(1)}
  BY <1>2
<1>4. 2 * Bits + 2 \in Nat
  BY DriversAssumption
<1>5. ASSUME NEW j \in 0 .. Bits
      PROVE  /\ 2 * j + 1 \in 1 .. 2 * Bits + 2 /\ 2 * j + 2 \in 1 .. 2 * Bits + 2
             /\ 1 + ((2 * j + 1 - 1) % 2) = 1 /\ 1 + ((2 * j + 2 - 1) % 2) = 2
  BY DriversAssumption
<1> HIDE DEF p
<1>6. p[1] = Wires!Scl(0) /\ p[2] = Wires!Scl(1)
  BY DEF p
<1>7. Wires!NineClocks \in Seq({Wires!Scl(0), Wires!Scl(1)}) /\ Len(Wires!NineClocks) = 2 * Bits + 2
  BY <1>1, <1>3, <1>4
<1>8. ASSUME NEW j \in 0 .. Bits
      PROVE  /\ Wires!NineClocks[2 * j + 1] = p[1 + ((2 * j + 1 - 1) % 2)]
             /\ Wires!NineClocks[2 * j + 2] = p[1 + ((2 * j + 2 - 1) % 2)]
  BY <1>1, <1>5
<1> QED
  BY <1>5, <1>6, <1>7, <1>8

LEMMA OnesAre ==
  ASSUME NEW b \in Seq(Wires!Bit), Len(b) = Bits, \A i \in 1 .. Len(b) : b[i] = 1
  PROVE  b = Wires!Ones
<1>1. /\ Wires!Ones \in Seq(Wires!Bit) /\ Len(Wires!Ones) = Bits
      /\ \A i \in 1 .. Bits : Wires!Ones[i] = 1
  BY DriversAssumption, Pins DEF Wires!Ones
<1> QED
  BY <1>1, SeqEqual

LEMMA SweepFall ==
  ASSUME WiresTyped, DevRight, NEW j \in Nat, Swept(j), w_scl = 1, Wires!I2C_SCL(0),
         Wires!Spared' <=> Wires!Spared
  PROVE  w_scl' = 0 /\ Swept(j + 1)'
<1>1. w_scl' = 0 /\ w_sda' = w_sda /\ Fallen
  BY SclMoves, Pins
<1>2. /\ w_dev.mode \in Modes /\ w_dev.bit \in 0 .. Bits + 1 /\ w_dev.ack \in {0, 1}
      /\ w_dev.first \in BOOLEAN /\ w_dev.byte \in Seq(Wires!Bit) /\ Bits \in Nat
  BY DriversAssumption, Pins DEF WiresTyped, Target
<1> DEFINE Beyond(e) ==
      /\ e.mode = "send" => e.bit > j + 1
      /\ e.mode = "receive" => e.bit # j + 1
      /\ e.mode = "receive" /\ e.first =>
            /\ e.bit = j + 1 + 1 /\ (e.bit = Bits + 1 => e.ack = 1)
            /\ \A i \in 1 .. Len(e.byte) : e.byte[i] = 1
<1>3. SUFFICES ASSUME ~Wires!Spared PROVE Beyond(w_dev')
  BY <1>1 DEF Swept
<1>4. /\ w_sda = 1
      /\ w_dev.mode = "send" => w_dev.bit > j
      /\ w_dev.mode = "receive" => w_dev.bit # j /\ (j = 0 => w_dev.out = 1)
      /\ w_dev.mode = "receive" /\ w_dev.first =>
            /\ w_dev.bit = j + 1 /\ (w_dev.bit = Bits + 1 => w_dev.ack = 1)
            /\ \A i \in 1 .. Len(w_dev.byte) : w_dev.byte[i] = 1
  BY <1>3 DEF Swept
<1>5. CASE w_dev.mode \in {"idle", "deaf", "start"}
  BY <1>1, <1>4, <1>5 DEF DevRight, Fallen
<1>6. CASE w_dev.mode = "send" /\ w_dev.bit <= Bits
  <2>1. w_dev'.mode = "send" /\ w_dev'.bit = w_dev.bit + 1
    BY <1>1, <1>6 DEF Fallen, BitOn
  <2> QED
    BY <1>2, <1>4, <1>6, <2>1
<1>7. CASE w_dev.mode = "send" /\ w_dev.bit = Bits + 1
  <2>1. w_dev.ack = 1
    BY <1>4, <1>7 DEF DevRight
  <2> QED
    BY <1>1, <1>7, <2>1 DEF Fallen, ByteOn
<1>8. CASE w_dev.mode = "receive" /\ w_dev.bit <= Bits
  <2>1. BitOn(w_dev, w_dev') /\ Len(w_dev.byte) = w_dev.bit
    BY <1>1, <1>8 DEF Fallen, DevRight
  <2>2. /\ w_dev'.mode = "receive" /\ w_dev'.bit = w_dev.bit + 1 /\ w_dev'.byte = w_dev.byte
        /\ w_dev'.first = w_dev.first
    BY <1>8, <2>1 DEF BitOn
  <2>3. ASSUME w_dev.first, w_dev.bit = Bits PROVE w_dev'.ack = 1
    <3>1. w_dev.byte = Wires!Ones
      BY <1>2, <1>4, <1>8, <2>1, <2>3, OnesAre
    <3> QED
      BY <1>8, <2>1, <2>3, <3>1 DEF BitOn
  <2> QED
    BY <1>2, <1>4, <1>8, <2>2, <2>3
<1>9. CASE w_dev.mode = "receive" /\ w_dev.bit = Bits + 1
  <2>1. ByteOn(w_dev, w_dev') /\ w_dev.mode # "send"
    BY <1>1, <1>9 DEF Fallen
  <2>2. CASE w_dev'.mode = "deaf"
    BY <2>2
  <2>3. CASE w_dev.ack = 0 /\ Receives(w_dev', FALSE, w_dev.byte)
    <3>1. j # 0
      BY <1>4, <1>9, <2>3 DEF DevRight
    <3> QED
      BY <2>3, <3>1 DEF Receives
  <2>4. CASE w_dev.ack = 0 /\ w_dev.first
    BY <1>4, <1>9, <2>4
  <2> QED
    BY <2>1, <2>2, <2>3, <2>4 DEF ByteOn
<1> QED
  BY <1>2, <1>5, <1>6, <1>7, <1>8, <1>9 DEF Modes

LEMMA SweepRise ==
  ASSUME WiresTyped, DevRight, NEW j \in Nat, Swept(j), Wires!I2C_SCL(1),
         Wires!Spared' <=> Wires!Spared
  PROVE  w_scl' = 1 /\ Swept(j)'
<1>1. w_scl' = 1 /\ w_sda' = w_sda /\ (w_dev' = w_dev \/ Risen)
  BY SclMoves, Pins DEF WiresTyped
<1>2. CASE w_dev' = w_dev
  BY <1>1, <1>2 DEF Swept
<1>3. CASE Risen
  <2>1. /\ w_dev'.mode = w_dev.mode /\ w_dev'.bit = w_dev.bit /\ w_dev'.out = w_dev.out
        /\ w_dev'.first = w_dev.first
        /\ w_dev'.byte = IF w_dev.mode = "receive" /\ w_dev.bit <= Bits
                         THEN Append(w_dev.byte, Wires!Wire) ELSE w_dev.byte
        /\ w_dev.mode = "receive" => w_dev'.ack = w_dev.ack
    BY <1>3 DEF Risen
  <2>2. w_dev.mode = "receive" /\ w_dev.bit <= Bits => Wires!Wire = 1
    BY WireBit DEF Swept, DevRight
  <2>3. w_dev.byte \in Seq(Wires!Bit) /\ 1 \in Wires!Bit
    BY Pins DEF WiresTyped, Target
  <2>4. (\A i \in 1 .. Len(w_dev.byte) : w_dev.byte[i] = 1) /\ w_dev.mode = "receive"
           => \A i \in 1 .. Len(w_dev'.byte) : w_dev'.byte[i] = 1
    BY <2>1, <2>2, <2>3, AppendProperties
  <2> QED
    BY <1>1, <2>1, <2>4 DEF Swept
<1> QED
  BY <1>1, <1>2, <1>3

LEMMA SweepEnd ==
  ASSUME WiresTyped, DevRight, Swept(Bits + 1), ~Wires!Spared
  PROVE  w_dev.out = 1
<1>1. w_dev.mode \in Modes /\ w_dev.bit \in 0 .. Bits + 1 /\ Bits \in Nat
  BY DriversAssumption DEF WiresTyped, Target
<1> QED
  BY <1>1 DEF Swept, DevRight, Modes

\* How a call that has swept the bus ends.
LEMMA FreeOrHeld ==
  ASSUME w_dev.out \in Wires!Bit, Wires!Access, w_call \in {"stop", "recover", "clocks"},
         w_made + 1 = Len(w_ops), w_sda' = 1, w_dev'.out \in Wires!Bit
  PROVE  w_state' \in {"free", "held"} /\ (w_state' = "free" => w_dev'.out = 1)
BY Moves, Pins DEF Wires!After, Wires!SDA

LEMMA ClocksSteps ==
  ASSUME WiresTyped, DevRight, Wires!Access, w_call = "clocks", ClocksAt
  PROVE  /\ ClocksAt'
         /\ w_made' = Len(w_ops') => w_scl' = 1 /\ w_sda' = 1
<1>1. /\ w_made \in Nat /\ Bits \in Nat /\ w_ops = Wires!NineClocks /\ Len(w_ops) = 2 * Bits + 2
  BY DriversAssumption, NineClocksAre DEF ClocksAt, WiresTyped
<1>2. /\ w_made < 2 * Bits + 2 /\ w_made' = w_made + 1 /\ w_ops' = w_ops
      /\ Wires!Spared' <=> Wires!Spared
  BY <1>1, Moves, SparedStays
<1>3. PICK j \in 0 .. Bits : w_made = 2 * j \/ w_made = 2 * j + 1
  <2>1. w_made \div 2 \in 0 .. Bits /\ (w_made = 2 * (w_made \div 2) \/ w_made = 2 * (w_made \div 2) + 1)
    BY <1>1, <1>2
  <2> QED
    BY <2>1
<1>4. CASE w_made = 2 * j
  <2>1. Wires!I2C_SCL(0)
    <3>1. w_ops[w_made + 1] = Wires!Scl(0)
      BY <1>1, <1>4, NineClocksAre
    <3> QED
      BY <3>1, OnScl, Pins
  <2>2. w_scl = 1 /\ Swept(j)
    <3>1. j \in 0 .. Bits + 1
      BY <1>1
    <3> QED
      BY <1>4, <3>1 DEF ClocksAt
  <2>3. w_scl' = 0 /\ Swept(j + 1)'
    BY <1>2, <2>1, <2>2, SweepFall
  <2>4. ASSUME NEW k \in 0 .. Bits + 1, w_made' = 2 * k PROVE FALSE
    BY <1>1, <1>2, <1>4, <2>4
  <2>5. ASSUME NEW k \in 0 .. Bits, w_made' = 2 * k + 1 PROVE w_scl' = 0 /\ Swept(k + 1)'
    <3>1. k = j
      BY <1>1, <1>2, <1>4, <2>5
    <3> QED
      BY <2>3, <3>1
  <2>6. w_made' # 2 * Bits + 2
    BY <1>1, <1>2, <1>4
  <2> QED
    BY <1>1, <1>2, <2>4, <2>5, <2>6 DEF ClocksAt
<1>5. CASE w_made = 2 * j + 1
  <2>1. Wires!I2C_SCL(1)
    <3>1. w_ops[w_made + 1] = Wires!Scl(1)
      <4>1. w_made + 1 = 2 * j + 2
        BY <1>5
      <4> QED
        BY <1>1, <4>1, NineClocksAre
    <3> QED
      BY <3>1, OnScl, Pins
  <2>2. w_scl = 0 /\ Swept(j + 1)
    BY <1>5 DEF ClocksAt
  <2>3. w_scl' = 1 /\ Swept(j + 1)'
    BY <1>1, <1>2, <2>1, <2>2, SweepRise
  <2>4. ASSUME NEW k \in 0 .. Bits + 1, w_made' = 2 * k PROVE w_scl' = 1 /\ Swept(k)'
    <3>1. k = j + 1
      BY <1>1, <1>2, <1>5, <2>4
    <3> QED
      BY <2>3, <3>1
  <2>5. ASSUME NEW k \in 0 .. Bits, w_made' = 2 * k + 1 PROVE FALSE
    BY <1>1, <1>2, <1>5, <2>5
  <2>6. ASSUME w_made' = 2 * Bits + 2
        PROVE  w_state' \in {"free", "held"} /\ (w_state' = "free" => w_dev'.out = 1)
    <3>1. w_sda' = 1
      BY <2>3 DEF Swept
    <3>2. w_dev.out \in Wires!Bit /\ w_dev'.out \in Wires!Bit
      BY <2>1, SclMoves, Pins DEF WiresTyped, Target
    <3>3. w_made + 1 = Len(w_ops)
      BY <1>1, <1>2, <2>6
    <3> QED
      BY <3>1, <3>2, <3>3, FreeOrHeld
  <2>7. w_sda' = 1
    BY <2>3 DEF Swept
  <2> QED
    BY <1>1, <1>2, <2>3, <2>4, <2>5, <2>6, <2>7 DEF ClocksAt
<1> QED
  BY <1>3, <1>4, <1>5

Accesses == {Wires!Sda(0), Wires!Sda(1), Wires!Scl(0), Wires!Scl(1), Wires!I2C_READ}

\* The three parts of a sequence of accesses.
LEMMA ThreeParts ==
  ASSUME NEW s \in Seq(Accesses), NEW t \in Seq(Accesses), NEW u \in Seq(Accesses)
  PROVE  /\ Len(s \o t \o u) = Len(s) + Len(t) + Len(u)
         /\ \A i \in 1 .. Len(s) : (s \o t \o u)[i] = s[i]
         /\ \A i \in 1 .. Len(t) : (s \o t \o u)[Len(s) + i] = t[i]
         /\ \A i \in 1 .. Len(u) : (s \o t \o u)[Len(s) + Len(t) + i] = u[i]
<1>1. /\ s \o t \in Seq(Accesses) /\ Len(s \o t) = Len(s) + Len(t)
      /\ \A i \in 1 .. Len(s) + Len(t) :
            (s \o t)[i] = IF i <= Len(s) THEN s[i] ELSE t[i - Len(s)]
  BY ConcatProperties
<1>2. /\ Len(s \o t \o u) = Len(s \o t) + Len(u)
      /\ \A i \in 1 .. Len(s \o t) + Len(u) :
            (s \o t \o u)[i] = IF i <= Len(s \o t) THEN (s \o t)[i] ELSE u[i - Len(s \o t)]
  BY <1>1, ConcatProperties
<1> DEFINE w == s \o t
           x == s \o t \o u
<1>3. /\ Len(w) = Len(s) + Len(t)
      /\ \A i \in 1 .. Len(s) + Len(t) : w[i] = IF i <= Len(s) THEN s[i] ELSE t[i - Len(s)]
      /\ Len(x) = Len(w) + Len(u)
      /\ \A i \in 1 .. Len(w) + Len(u) : x[i] = IF i <= Len(w) THEN w[i] ELSE u[i - Len(w)]
      /\ Len(s) \in Nat /\ Len(t) \in Nat /\ Len(u) \in Nat
  BY <1>1, <1>2
<1> HIDE DEF w, x
<1>4. Len(x) = Len(s) + Len(t) + Len(u)
  BY <1>3
<1>5. ASSUME NEW i \in 1 .. Len(s) PROVE x[i] = s[i]
  BY <1>3, <1>5
<1>6. ASSUME NEW i \in 1 .. Len(t) PROVE x[Len(s) + i] = t[i]
  <2>1. /\ Len(s) + i \in 1 .. Len(w) + Len(u) /\ Len(s) + i <= Len(w)
        /\ Len(s) + i \in 1 .. Len(s) + Len(t) /\ ~(Len(s) + i <= Len(s)) /\ Len(s) + i - Len(s) = i
    BY <1>3
  <2> QED
    BY <1>3, <2>1
<1>7. ASSUME NEW i \in 1 .. Len(u) PROVE x[Len(s) + Len(t) + i] = u[i]
  <2>1. /\ Len(s) + Len(t) + i \in 1 .. Len(w) + Len(u) /\ ~(Len(s) + Len(t) + i <= Len(w))
        /\ Len(s) + Len(t) + i - Len(w) = i
    BY <1>3
  <2> QED
    BY <1>3, <2>1
<1> QED
  BY <1>4, <1>5, <1>6, <1>7 DEF x

LEMMA RecoverOpsAre ==
  ASSUME NEW o \in Wires!Bit
  PROVE  /\ Len(Wires!RecoverOps(o)) = 2 * Bits + 9
         /\ Wires!RecoverOps(o)[1] = Wires!Sda(o) /\ Wires!RecoverOps(o)[2] = Wires!Scl(o)
         /\ Wires!RecoverOps(o)[3] = Wires!Sda(1) /\ Wires!RecoverOps(o)[4] = Wires!Scl(1)
         /\ \A j \in 0 .. Bits : /\ Wires!RecoverOps(o)[2 * j + 5] = Wires!Scl(0)
                                 /\ Wires!RecoverOps(o)[2 * j + 6] = Wires!Scl(1)
         /\ Wires!RecoverOps(o)[2 * Bits + 7] = Wires!Sda(0)
         /\ Wires!RecoverOps(o)[2 * Bits + 8] = Wires!Scl(1)
         /\ Wires!RecoverOps(o)[2 * Bits + 9] = Wires!Sda(1)
<1> DEFINE s == <<Wires!Sda(o), Wires!Scl(o), Wires!Sda(1), Wires!Scl(1)>>
           t == Wires!NineClocks
           u == <<Wires!Sda(0), Wires!Scl(1), Wires!Sda(1)>>
           x == s \o t \o u
<1>1. /\ s \in Seq(Accesses) /\ Len(s) = 4 /\ s[1] = Wires!Sda(o) /\ s[2] = Wires!Scl(o)
      /\ s[3] = Wires!Sda(1) /\ s[4] = Wires!Scl(1)
      /\ u \in Seq(Accesses) /\ Len(u) = 3
      /\ u[1] = Wires!Sda(0) /\ u[2] = Wires!Scl(1) /\ u[3] = Wires!Sda(1)
  <2>1. Wires!Sda(o) \in Accesses /\ Wires!Scl(o) \in Accesses
    BY Pins DEF Accesses
  <2> QED
    BY <2>1 DEF Accesses
<1>2. t \in Seq(Accesses) /\ Len(t) = 2 * Bits + 2 /\ Bits \in Nat
  <2>1. {Wires!Scl(0), Wires!Scl(1)} \subseteq Accesses
    BY DEF Accesses
  <2> QED
    BY <2>1, NineClocksAre, DriversAssumption
<1>3. \A j \in 0 .. Bits : t[2 * j + 1] = Wires!Scl(0) /\ t[2 * j + 2] = Wires!Scl(1)
  BY NineClocksAre
<1>4. Wires!RecoverOps(o) = x
  BY DEF Wires!RecoverOps, Wires!Outputs
<1> HIDE DEF s, t, u
<1>5. /\ Len(x) = Len(s) + Len(t) + Len(u)
      /\ \A i \in 1 .. Len(s) : x[i] = s[i]
      /\ \A i \in 1 .. Len(t) : x[Len(s) + i] = t[i]
      /\ \A i \in 1 .. Len(u) : x[Len(s) + Len(t) + i] = u[i]
  <2>1. s \in Seq(Accesses) /\ t \in Seq(Accesses) /\ u \in Seq(Accesses)
    BY <1>1, <1>2
  <2>2. /\ Len(s \o t \o u) = Len(s) + Len(t) + Len(u)
        /\ \A i \in 1 .. Len(s) : (s \o t \o u)[i] = s[i]
        /\ \A i \in 1 .. Len(t) : (s \o t \o u)[Len(s) + i] = t[i]
        /\ \A i \in 1 .. Len(u) : (s \o t \o u)[Len(s) + Len(t) + i] = u[i]
    BY <2>1, ThreeParts
  <2> QED
    BY Zenon, <2>2
<1> HIDE DEF x
<1>6. Len(x) = 2 * Bits + 9 /\ x[1] = s[1] /\ x[2] = s[2] /\ x[3] = s[3] /\ x[4] = s[4]
  BY <1>1, <1>2, <1>5
<1>7. ASSUME NEW j \in 0 .. Bits PROVE x[2 * j + 5] = Wires!Scl(0) /\ x[2 * j + 6] = Wires!Scl(1)
  <2>1. 2 * j + 1 \in 1 .. Len(t) /\ 2 * j + 2 \in 1 .. Len(t)
    BY <1>2
  <2>2. x[4 + (2 * j + 1)] = t[2 * j + 1] /\ x[4 + (2 * j + 2)] = t[2 * j + 2]
    BY <1>1, <1>5, <2>1
  <2>3. 4 + (2 * j + 1) = 2 * j + 5 /\ 4 + (2 * j + 2) = 2 * j + 6
    OBVIOUS
  <2> QED
    BY <1>3, <2>2, <2>3
<1>8. /\ x[2 * Bits + 7] = u[1] /\ x[2 * Bits + 8] = u[2] /\ x[2 * Bits + 9] = u[3]
  <2>1. Len(s) + Len(t) + 1 = 2 * Bits + 7 /\ Len(s) + Len(t) + 2 = 2 * Bits + 8
        /\ Len(s) + Len(t) + 3 = 2 * Bits + 9
    BY <1>1, <1>2
  <2>2. 1 \in 1 .. Len(u) /\ 2 \in 1 .. Len(u) /\ 3 \in 1 .. Len(u)
    BY <1>1
  <2> QED
    BY <1>5, <2>1, <2>2
<1> QED
  BY <1>1, <1>4, <1>6, <1>7, <1>8

\* The accesses before the clocks, for the two values of ODR.
LEMMA RecoverBegins ==
  ASSUME WiresTyped, DevRight, Wires!Access, w_call = "recover", RecoverAt, w_made \in 0 .. 3
  PROVE  RecoverAt'
<1> DEFINE o == w_arg[1]
<1>0. w_arg \in {<<0>>, <<1>>} /\ o \in Wires!Bit /\ w_ops = Wires!RecoverOps(o)
  BY Pins DEF RecoverAt
<1>1. Bits \in Nat /\ Len(w_ops) = 2 * Bits + 9
  BY <1>0, DriversAssumption, RecoverOpsAre
<1>2. /\ w_made' = w_made + 1 /\ w_ops' = w_ops /\ w_arg' = w_arg
      /\ Wires!Spared' <=> Wires!Spared
  BY Moves, SparedStays
<1>a. w_arg' \in {<<0>>, <<1>>} /\ w_ops' = Wires!RecoverOps(w_arg[1])'
  BY <1>0, <1>2
<1>3. /\ w_made' # 0
      /\ \A k \in 0 .. Bits + 1 : w_made' = 2 * k + 4 => w_made' = 4 /\ k = 0
      /\ \A k \in 0 .. Bits : w_made' # 2 * k + 5
      /\ w_made' \notin {2 * Bits + 7, 2 * Bits + 8, 2 * Bits + 9}
  BY <1>1, <1>2
<1>4. /\ w_made = 0 => w_ops[w_made + 1] = Wires!Sda(o)
      /\ w_made = 1 => w_ops[w_made + 1] = Wires!Scl(o)
      /\ w_made = 2 => w_ops[w_made + 1] = Wires!Sda(1)
      /\ w_made = 3 => w_ops[w_made + 1] = Wires!Scl(1)
  BY <1>0, RecoverOpsAre
<1>5. CASE w_arg = <<1>>
  <2>1. w_scl = 1 /\ Swept(0) /\ o = 1
    BY <1>5 DEF RecoverAt
  <2>2. Wires!I2C_SDA(1) \/ Wires!I2C_SCL(1)
    BY <1>4, <2>1, OnSda, OnScl, Pins
  <2>3. w_scl' = 1 /\ w_sda' = w_sda /\ w_dev' = w_dev
    BY <2>1, <2>2, SdaMoves, SclMoves, Pins DEF Swept
  <2>4. w_scl' = 1 /\ Swept(0)'
    BY <1>2, <2>1, <2>3 DEF Swept
  <2>5. w_arg' # <<0>>
    BY <1>2, <1>5
  <2> QED
    BY <1>a, <1>3, <2>4, <2>5 DEF RecoverAt
<1>6. CASE w_arg = <<0>>
  <2>0. o = 0 /\ w_arg' = <<0>> /\ w_arg' # <<1>> /\ w_dev.out \in {0, 1}
    BY <1>2, <1>6, Pins DEF WiresTyped, Target
  <2>1. CASE w_made = 0
    <3>1. Wires!I2C_SDA(0)
      BY <1>4, <2>0, <2>1, OnSda, Pins
    <3>2. w_scl = 1 /\ w_sda = 1
      BY <2>1 DEF RecoverAt
    <3>3. w_scl' = 1 /\ w_sda' = 0 /\ (w_dev'.mode = "start" \/ w_dev'.out = 0)
      BY <2>0, <3>1, <3>2, SdaMoves, Pins
    <3>4. w_made' = 1
      BY <1>2, <2>1
    <3> QED
      BY <1>a, <1>3, <2>0, <3>3, <3>4 DEF RecoverAt
  <2>2. CASE w_made = 1
    <3>1. Wires!I2C_SCL(0)
      BY <1>4, <2>0, <2>2, OnScl, Pins
    <3>2. w_scl = 1 /\ w_sda = 0 /\ (w_dev.mode = "start" \/ w_dev.out = 0)
      BY <1>6, <2>2 DEF RecoverAt
    <3>3. w_scl' = 0 /\ w_sda' = 0 /\ Fallen
      BY <3>1, <3>2, SclMoves, Pins
    <3>4. w_dev.mode \in Modes /\ w_dev.bit \in 0 .. Bits + 1
      BY DEF WiresTyped, Target
    <3>5. Begun'
      <4>1. CASE w_dev.mode \in {"idle", "deaf"}
        BY <3>3, <4>1 DEF Fallen, Begun
      <4>2. CASE w_dev.mode = "start"
        BY <3>3, <4>2 DEF Fallen, Receives, Begun
      <4>3. CASE w_dev.mode = "send" /\ w_dev.bit <= Bits
        BY <3>3, <4>3 DEF Fallen, BitOn, Begun
      <4>4. CASE w_dev.mode = "receive" /\ w_dev.bit <= Bits
        BY <3>2, <4>4 DEF DevRight
      <4>5. CASE w_dev.mode \in {"send", "receive"} /\ w_dev.bit = Bits + 1
        BY <3>3, <4>5 DEF Fallen, ByteOn, Receives, Begun
      <4> QED
        BY <1>1, <3>4, <4>1, <4>2, <4>3, <4>4, <4>5 DEF Modes
    <3>6. w_made' = 2
      BY <1>2, <2>2
    <3> QED
      BY <1>a, <1>3, <2>0, <3>3, <3>5, <3>6 DEF RecoverAt
  <2>3. CASE w_made = 2
    <3>1. Wires!I2C_SDA(1)
      BY <1>4, <2>3, OnSda, Pins
    <3>2. w_scl = 0 /\ w_sda = 0 /\ Begun
      BY <1>6, <2>3 DEF RecoverAt
    <3>3. w_scl' = 0 /\ w_sda' = 1 /\ w_dev' = w_dev
      BY <3>1, <3>2, SdaMoves, Pins
    <3>4. w_made' = 3
      BY <1>2, <2>3
    <3> QED
      BY <1>a, <1>3, <2>0, <3>2, <3>3, <3>4 DEF RecoverAt, Begun
  <2>4. CASE w_made = 3
    <3>1. Wires!I2C_SCL(1)
      BY <1>4, <2>4, OnScl, Pins
    <3>2. w_scl = 0 /\ w_sda = 1 /\ Begun
      BY <1>6, <2>4 DEF RecoverAt
    <3>3. w_scl' = 1 /\ w_sda' = 1 /\ Risen
      BY <3>1, <3>2, SclMoves, Pins
    <3>4. Swept(0)'
      <4>1. w_dev.mode \in {"send", "receive"} => w_dev.bit >= 1
        BY DEF DevRight
      <4>2. ASSUME w_dev.mode = "receive"
            PROVE  /\ w_dev.bit = 1 /\ w_dev.out = 1 /\ w_dev.bit <= Bits
                   /\ w_dev'.byte = <<1>>
        <5>1. w_dev.bit = 1 /\ Bits >= 1 /\ 1 <= Bits
          BY <3>2, <4>2, DriversAssumption DEF Begun
        <5>2. w_dev.out = 1 /\ Len(w_dev.byte) = 0 /\ w_dev.byte \in Seq(Wires!Bit)
          BY <3>2, <4>2, <5>1 DEF DevRight, WiresTyped, Target
        <5>3. w_dev.byte = <<>> /\ Wires!Wire = 1
          BY <3>2, <5>2, WireBit
        <5>4. w_dev'.byte = Append(<<>>, 1)
          BY <3>3, <4>2, <5>1, <5>3 DEF Risen
        <5> QED
          BY <5>1, <5>2, <5>4
      <4>3. w_dev'.mode = w_dev.mode /\ w_dev'.bit = w_dev.bit /\ w_dev'.out = w_dev.out
        BY <3>3 DEF Risen
      <4>4. w_dev'.mode = "receive" =>
               \A i \in 1 .. Len(w_dev'.byte) : w_dev'.byte[i] = 1
        BY <4>2, <4>3
      <4>5. w_dev'.mode = "receive" => w_dev'.bit = 1 /\ w_dev'.out = 1 /\ w_dev'.bit # Bits + 1
        BY <1>1, <4>2, <4>3
      <4>6. w_dev'.mode = "send" => w_dev'.bit > 0
        <5>1. w_dev.bit \in Nat
          BY <1>1 DEF WiresTyped, Target
        <5> QED
          BY <4>1, <4>3, <5>1
      <4> QED
        BY <3>3, <4>4, <4>5, <4>6 DEF Swept
    <3>5. w_made' = 4
      BY <1>2, <2>4
    <3> QED
      BY <1>a, <1>3, <2>0, <3>3, <3>4, <3>5 DEF RecoverAt
  <2> QED
    BY <2>1, <2>2, <2>3, <2>4
<1> QED
  BY <1>0, <1>5, <1>6

LEMMA RecoverSteps ==
  ASSUME WiresTyped, DevRight, Wires!Access, w_call = "recover", RecoverAt
  PROVE  /\ RecoverAt'
         /\ w_made' = Len(w_ops') => w_scl' = 1 /\ w_sda' = 1
<1> DEFINE o == w_arg[1]
<1>0. w_arg \in {<<0>>, <<1>>} /\ o \in Wires!Bit /\ w_ops = Wires!RecoverOps(o)
  BY Pins DEF RecoverAt
<1>1. /\ w_made \in Nat /\ Bits \in Nat /\ w_ops = Wires!RecoverOps(o) /\ Len(w_ops) = 2 * Bits + 9
      /\ o \in Wires!Bit
  BY <1>0, DriversAssumption, RecoverOpsAre DEF WiresTyped
<1>2. /\ w_made < 2 * Bits + 9 /\ w_made' = w_made + 1 /\ w_ops' = w_ops
      /\ Wires!Spared' <=> Wires!Spared
      /\ w_arg' \in {<<0>>, <<1>>} /\ w_ops' = Wires!RecoverOps(w_arg[1])'
  BY <1>0, <1>1, Moves, SparedStays
<1> HIDE DEF o
<1>3. \A j \in 0 .. Bits : w_ops[2 * j + 5] = Wires!Scl(0) /\ w_ops[2 * j + 6] = Wires!Scl(1)
  BY <1>1, RecoverOpsAre
<1>5. ASSUME NEW j \in 0 .. Bits, w_made = 2 * j + 4
      PROVE  RecoverAt' /\ w_made' # Len(w_ops')
  <2>1. Wires!I2C_SCL(0)
    <3>1. w_ops[w_made + 1] = Wires!Scl(0)
      <4>1. w_made + 1 = 2 * j + 5
        BY <1>5
      <4> QED
        BY <1>3, <4>1
    <3> QED
      BY <3>1, OnScl, Pins
  <2>2. w_scl = 1 /\ Swept(j)
    <3>1. j \in 0 .. Bits + 1
      BY <1>1
    <3> QED
      BY <1>5, <3>1 DEF RecoverAt
  <2>3. w_scl' = 0 /\ Swept(j + 1)'
    BY <1>2, <2>1, <2>2, SweepFall
  <2>4. ASSUME NEW k \in 0 .. Bits + 1, w_made' = 2 * k + 4 PROVE FALSE
    BY <1>1, <1>2, <1>5, <2>4
  <2>5. ASSUME NEW k \in 0 .. Bits, w_made' = 2 * k + 5 PROVE w_scl' = 0 /\ Swept(k + 1)'
    <3>1. k = j
      BY <1>1, <1>2, <1>5, <2>5
    <3> QED
      BY <2>3, <3>1
  <2>6. /\ w_made' # 0 /\ w_made' \notin 1 .. 3 /\ w_made' \notin {2 * Bits + 7, 2 * Bits + 8}
        /\ w_made' # 2 * Bits + 9 /\ w_made' # Len(w_ops')
    BY <1>1, <1>2, <1>5
  <2> QED
    BY <1>2, <2>4, <2>5, <2>6 DEF RecoverAt
<1>6. ASSUME NEW j \in 0 .. Bits, w_made = 2 * j + 5
      PROVE  RecoverAt' /\ w_made' # Len(w_ops')
  <2>1. Wires!I2C_SCL(1)
    <3>1. w_ops[w_made + 1] = Wires!Scl(1)
      <4>1. w_made + 1 = 2 * j + 6
        BY <1>6
      <4> QED
        BY <1>3, <4>1
    <3> QED
      BY <3>1, OnScl, Pins
  <2>2. w_scl = 0 /\ Swept(j + 1)
    BY <1>6 DEF RecoverAt
  <2>3. w_scl' = 1 /\ Swept(j + 1)'
    BY <1>1, <1>2, <2>1, <2>2, SweepRise
  <2>4. ASSUME NEW k \in 0 .. Bits + 1, w_made' = 2 * k + 4 PROVE w_scl' = 1 /\ Swept(k)'
    <3>1. k = j + 1
      BY <1>1, <1>2, <1>6, <2>4
    <3> QED
      BY <2>3, <3>1
  <2>5. ASSUME NEW k \in 0 .. Bits, w_made' = 2 * k + 5 PROVE FALSE
    BY <1>1, <1>2, <1>6, <2>5
  <2>6. /\ w_made' # 0 /\ w_made' \notin 1 .. 3 /\ w_made' \notin {2 * Bits + 7, 2 * Bits + 8}
        /\ w_made' # 2 * Bits + 9 /\ w_made' # Len(w_ops')
    BY <1>1, <1>2, <1>6
  <2> QED
    BY <1>2, <2>4, <2>5, <2>6 DEF RecoverAt
<1>7. CASE w_made = 2 * Bits + 6
  <2>1. Wires!I2C_SDA(0)
    <3>1. w_made + 1 = 2 * Bits + 7
      BY <1>1, <1>7
    <3> QED
      BY <1>1, <3>1, OnSda, Pins, RecoverOpsAre
  <2>2. w_scl = 1 /\ Swept(Bits + 1)
    <3>1. w_made = 2 * (Bits + 1) + 4 /\ Bits + 1 \in 0 .. Bits + 1
      BY <1>1, <1>7
    <3> QED
      BY <3>1 DEF RecoverAt
  <2>3. w_sda = 1 /\ (~Wires!Spared => w_dev.out = 1)
    BY <2>2, SweepEnd DEF Swept
  <2>4. w_scl' = 1 /\ w_sda' = 0 /\ (~Wires!Spared' => w_dev'.mode = "start")
    BY <1>2, <2>1, <2>2, <2>3, SdaMoves, Pins
  <2>5. w_made' = 2 * Bits + 7
    BY <1>1, <1>2, <1>7
  <2> QED
    BY <1>1, <1>2, <2>4, <2>5 DEF RecoverAt
<1>8. CASE w_made = 2 * Bits + 7
  <2>1. Wires!I2C_SCL(1)
    <3>1. w_made + 1 = 2 * Bits + 8
      BY <1>1, <1>8
    <3> QED
      BY <1>1, <3>1, OnScl, Pins, RecoverOpsAre
  <2>2. w_scl = 1 /\ w_sda = 0 /\ (~Wires!Spared => w_dev.mode = "start")
    BY <1>8 DEF RecoverAt
  <2>3. w_scl' = 1 /\ w_sda' = 0 /\ (~Wires!Spared' => w_dev'.mode = "start")
    BY <1>2, <2>1, <2>2, SclMoves, Pins
  <2>4. w_made' = 2 * Bits + 8
    BY <1>1, <1>2, <1>8
  <2> QED
    BY <1>1, <1>2, <2>3, <2>4 DEF RecoverAt
<1>9. CASE w_made = 2 * Bits + 8
  <2>1. Wires!I2C_SDA(1)
    <3>1. w_made + 1 = 2 * Bits + 9
      BY <1>1, <1>9
    <3> QED
      BY <1>1, <3>1, OnSda, Pins, RecoverOpsAre
  <2>2. w_scl = 1 /\ w_sda = 0 /\ (~Wires!Spared => w_dev.mode = "start")
    BY <1>9 DEF RecoverAt
  <2>3. w_scl' = 1 /\ w_sda' = 1 /\ (~Wires!Spared' => w_dev' = Wires!Idle)
    <3>1. ~Wires!Spared => w_dev.out = 1
      BY <2>2 DEF DevRight
    <3> QED
      BY <1>2, <2>1, <2>2, <3>1, SdaMoves, Pins
  <2>4. w_state' \in {"free", "held"} /\ (w_state' = "free" => w_dev'.out = 1)
    <3>1. w_dev.out \in Wires!Bit /\ w_dev'.out \in Wires!Bit
      BY <2>1, SdaMoves, Pins DEF WiresTyped, Target
    <3>2. w_made + 1 = Len(w_ops)
      BY <1>1, <1>9
    <3> QED
      BY <2>3, <3>1, <3>2, FreeOrHeld
  <2>5. w_made' = 2 * Bits + 9
    BY <1>1, <1>2, <1>9
  <2> QED
    BY <1>1, <1>2, <2>3, <2>4, <2>5 DEF RecoverAt
<1>10. \/ w_made \in 0 .. 3 \/ w_made \in {2 * Bits + 6, 2 * Bits + 7, 2 * Bits + 8}
       \/ \E j \in 0 .. Bits : w_made = 2 * j + 4 \/ w_made = 2 * j + 5
  <2>1. CASE 4 <= w_made /\ w_made <= 2 * Bits + 5
    <3> DEFINE j == (w_made - 4) \div 2
    <3>1. j \in 0 .. Bits /\ (w_made = 2 * j + 4 \/ w_made = 2 * j + 5)
      BY <1>1, <2>1
    <3> QED
      BY <3>1
  <2> QED
    BY <1>1, <1>2, <2>1
<1>11. w_made \in 0 .. 3 => RecoverAt' /\ w_made' # Len(w_ops')
  BY RecoverBegins, <1>1, <1>2
<1> QED
  BY <1>5, <1>6, <1>7, <1>8, <1>9, <1>10, <1>11

LEMMA FirstGrows ==
  ASSUME NEW b \in Wires!Bytes, NEW q \in 0 .. Bits - 1
  PROVE  Append(First(b, q), b[q + 1]) = First(b, q + 1)
<1>1. q \in Nat /\ q + 1 \in 1 .. Bits /\ Bits \in Nat
  BY DriversAssumption
<1>2. First(b, q) \in Seq(Wires!Bit) /\ Len(First(b, q)) = q
  BY <1>1, BytesAreSequences DEF First
<1>3. First(b, q + 1) \in Seq(Wires!Bit) /\ Len(First(b, q + 1)) = q + 1
  BY <1>1, BytesAreSequences DEF First
<1>4. b[q + 1] \in Wires!Bit
  BY <1>1, BytesAreSequences
<1>5. /\ Append(First(b, q), b[q + 1]) \in Seq(Wires!Bit)
      /\ Len(Append(First(b, q), b[q + 1])) = q + 1
      /\ \A i \in 1 .. q : Append(First(b, q), b[q + 1])[i] = First(b, q)[i]
      /\ Append(First(b, q), b[q + 1])[q + 1] = b[q + 1]
  BY <1>2, <1>4, AppendProperties
<1>6. \A i \in 1 .. q + 1 : Append(First(b, q), b[q + 1])[i] = First(b, q + 1)[i]
  BY <1>1, <1>5 DEF First
<1> QED
  BY <1>3, <1>5, <1>6, SeqEqual

LEMMA FirstEnds ==
  ASSUME NEW b \in Wires!Bytes
  PROVE  First(b, 0) = <<>> /\ First(b, Bits) = b
<1>1. b = [j \in 1 .. Bits |-> b[j]]
  BY DEF Wires!Bytes
<1>2. First(b, 0) = <<>>
  BY DEF First
<1> QED
  BY <1>1, <1>2 DEF First

LEMMA BitOpsAre ==
  ASSUME NEW b \in Wires!Bytes
  PROVE  /\ Wires!BitOps(b) \in Seq(Accesses) /\ Len(Wires!BitOps(b)) = 3 * Bits
         /\ \A q \in 0 .. Bits - 1 : /\ Wires!BitOps(b)[3 * q + 1] = Wires!Sda(b[q + 1])
                                     /\ Wires!BitOps(b)[3 * q + 2] = Wires!Scl(1)
                                     /\ Wires!BitOps(b)[3 * q + 3] = Wires!Scl(0)
<1> DEFINE r(i) == 1 + ((i - 1) % 3)
           d(i) == 1 + ((i - 1) \div 3)
           p(i) == <<Wires!Sda(b[d(i)]), Wires!Scl(1), Wires!Scl(0)>>
           n == 3 * Bits
<1>1. Wires!BitOps(b) = [i \in 1 .. n |-> p(i)[r(i)]]
  BY DEF Wires!BitOps
<1>2. ASSUME NEW i \in 1 .. n PROVE r(i) \in {1, 2, 3} /\ d(i) \in 1 .. Bits
  BY DriversAssumption
<1>3. ASSUME NEW i \in 1 .. n
      PROVE  p(i)[1] = Wires!Sda(b[d(i)]) /\ p(i)[2] = Wires!Scl(1) /\ p(i)[3] = Wires!Scl(0)
  OBVIOUS
<1>4. n \in Nat
  BY DriversAssumption
<1>5. ASSUME NEW q \in 0 .. Bits - 1
      PROVE  /\ 3 * q + 1 \in 1 .. n /\ 3 * q + 2 \in 1 .. n /\ 3 * q + 3 \in 1 .. n
             /\ r(3 * q + 1) = 1 /\ r(3 * q + 2) = 2 /\ r(3 * q + 3) = 3 /\ d(3 * q + 1) = q + 1
  BY DriversAssumption
<1> HIDE DEF r, d, p
<1>6. ASSUME NEW i \in 1 .. n PROVE p(i)[r(i)] \in Accesses
  <2>1. b[d(i)] \in {0, 1}
    BY <1>2, BytesAreSequences, Pins
  <2> QED
    BY <1>2, <1>3, <2>1 DEF Accesses
<1> HIDE DEF n
<1>7. Wires!BitOps(b) \in Seq(Accesses) /\ Len(Wires!BitOps(b)) = n
  BY <1>1, <1>4, <1>6
<1>8. ASSUME NEW q \in 0 .. Bits - 1
      PROVE  /\ Wires!BitOps(b)[3 * q + 1] = p(3 * q + 1)[1]
             /\ Wires!BitOps(b)[3 * q + 2] = p(3 * q + 2)[2]
             /\ Wires!BitOps(b)[3 * q + 3] = p(3 * q + 3)[3]
  BY <1>1, <1>5
<1> QED
  BY <1>3, <1>5, <1>7, <1>8 DEF n

LEMMA WriteOpsAre ==
  ASSUME NEW b \in Wires!Bytes
  PROVE  /\ Len(Wires!WriteOps(b)) = 3 * Bits + 4
         /\ \A q \in 0 .. Bits - 1 : /\ Wires!WriteOps(b)[3 * q + 1] = Wires!Sda(b[q + 1])
                                     /\ Wires!WriteOps(b)[3 * q + 2] = Wires!Scl(1)
                                     /\ Wires!WriteOps(b)[3 * q + 3] = Wires!Scl(0)
         /\ Wires!WriteOps(b)[3 * Bits + 1] = Wires!Sda(1)
         /\ Wires!WriteOps(b)[3 * Bits + 2] = Wires!Scl(1)
         /\ Wires!WriteOps(b)[3 * Bits + 3] = Wires!I2C_READ
         /\ Wires!WriteOps(b)[3 * Bits + 4] = Wires!Scl(0)
<1> DEFINE s == Wires!BitOps(b)
           t == <<Wires!Sda(1), Wires!Scl(1), Wires!I2C_READ, Wires!Scl(0)>>
           x == s \o t
<1>1. /\ t \in Seq(Accesses) /\ Len(t) = 4
      /\ t[1] = Wires!Sda(1) /\ t[2] = Wires!Scl(1) /\ t[3] = Wires!I2C_READ /\ t[4] = Wires!Scl(0)
  BY DEF Accesses
<1>2. /\ s \in Seq(Accesses) /\ Len(s) = 3 * Bits /\ Bits \in Nat
      /\ \A q \in 0 .. Bits - 1 : /\ s[3 * q + 1] = Wires!Sda(b[q + 1])
                                  /\ s[3 * q + 2] = Wires!Scl(1) /\ s[3 * q + 3] = Wires!Scl(0)
  BY BitOpsAre, DriversAssumption
<1>3. Wires!WriteOps(b) = x
  BY DEF Wires!WriteOps
<1> HIDE DEF s, t
<1>4. /\ Len(x) = Len(s) + Len(t)
      /\ \A i \in 1 .. Len(s) + Len(t) : x[i] = IF i <= Len(s) THEN s[i] ELSE t[i - Len(s)]
  BY <1>1, <1>2, ConcatProperties
<1> HIDE DEF x
<1>5. ASSUME NEW q \in 0 .. Bits - 1
      PROVE  x[3 * q + 1] = s[3 * q + 1] /\ x[3 * q + 2] = s[3 * q + 2] /\ x[3 * q + 3] = s[3 * q + 3]
  <2>1. ASSUME NEW i \in 1 .. 3 * Bits PROVE x[i] = s[i]
    BY <1>1, <1>2, <1>4
  <2>2. 3 * q + 1 \in 1 .. 3 * Bits /\ 3 * q + 2 \in 1 .. 3 * Bits /\ 3 * q + 3 \in 1 .. 3 * Bits
    BY <1>2
  <2> QED
    BY <2>1, <2>2
<1>6. ASSUME NEW i \in {1, 2, 3, 4} PROVE x[3 * Bits + i] = t[i]
  <2> DEFINE m == 3 * Bits + i
  <2>1. m \in 1 .. Len(s) + Len(t) /\ ~(m <= Len(s)) /\ m - Len(s) = i
    BY <1>1, <1>2
  <2> HIDE DEF m
  <2>2. x[m] = t[m - Len(s)]
    BY <1>4, <2>1
  <2> QED
    BY <2>1, <2>2 DEF m
<1>7. /\ x[3 * Bits + 1] = t[1] /\ x[3 * Bits + 2] = t[2] /\ x[3 * Bits + 3] = t[3]
      /\ x[3 * Bits + 4] = t[4] /\ Len(x) = 3 * Bits + 4
  BY <1>1, <1>2, <1>4, <1>6
<1> QED
  BY <1>1, <1>2, <1>3, <1>5, <1>7

LEMMA ReadOpsAre ==
  ASSUME NEW a \in Wires!Bit
  PROVE  /\ Len(Wires!ReadOps(a)) = 3 * Bits + 5
         /\ Wires!ReadOps(a)[1] = Wires!Sda(1)
         /\ \A q \in 0 .. Bits - 1 : /\ Wires!ReadOps(a)[3 * q + 2] = Wires!Scl(1)
                                     /\ Wires!ReadOps(a)[3 * q + 3] = Wires!I2C_READ
                                     /\ Wires!ReadOps(a)[3 * q + 4] = Wires!Scl(0)
         /\ Wires!ReadOps(a)[3 * Bits + 2] = Wires!Sda(a)
         /\ Wires!ReadOps(a)[3 * Bits + 3] = Wires!Scl(1)
         /\ Wires!ReadOps(a)[3 * Bits + 4] = Wires!Scl(0)
         /\ Wires!ReadOps(a)[3 * Bits + 5] = Wires!Sda(1)
<1> DEFINE s == <<Wires!Sda(1)>>
           p == <<Wires!Scl(1), Wires!I2C_READ, Wires!Scl(0)>>
           t == Wires!Repeat(Bits, p)
           u == <<Wires!Sda(a), Wires!Scl(1), Wires!Scl(0), Wires!Sda(1)>>
           x == s \o t \o u
           r(i) == 1 + ((i - 1) % 3)
           n == 3 * Bits
<1>1. /\ s \in Seq(Accesses) /\ Len(s) = 1 /\ s[1] = Wires!Sda(1)
      /\ u \in Seq(Accesses) /\ Len(u) = 4
      /\ u[1] = Wires!Sda(a) /\ u[2] = Wires!Scl(1) /\ u[3] = Wires!Scl(0) /\ u[4] = Wires!Sda(1)
  BY Pins DEF Accesses
<1>2. /\ Len(p) = 3 /\ p[1] = Wires!Scl(1) /\ p[2] = Wires!I2C_READ /\ p[3] = Wires!Scl(0)
      /\ p[1] \in Accesses /\ p[2] \in Accesses /\ p[3] \in Accesses
  BY DEF Accesses
<1>3. n \in Nat /\ Bits \in Nat
  BY DriversAssumption
<1>4. t = [i \in 1 .. n |-> p[r(i)]]
  <2>1. Bits * 3 = n
    BY <1>3
  <2> QED
    BY <1>2, <2>1 DEF Wires!Repeat
<1>5. ASSUME NEW i \in 1 .. n PROVE r(i) \in {1, 2, 3}
  BY <1>3
<1>6. ASSUME NEW q \in 0 .. Bits - 1
      PROVE  /\ 3 * q + 1 \in 1 .. n /\ 3 * q + 2 \in 1 .. n /\ 3 * q + 3 \in 1 .. n
             /\ r(3 * q + 1) = 1 /\ r(3 * q + 2) = 2 /\ r(3 * q + 3) = 3
  BY <1>3
<1>7. Wires!ReadOps(a) = x
  BY DEF Wires!ReadOps
<1> HIDE DEF s, t, u, p, r, n
<1>8. t \in Seq(Accesses) /\ Len(t) = n
  BY <1>2, <1>3, <1>4, <1>5
<1>9. ASSUME NEW q \in 0 .. Bits - 1
      PROVE  t[3 * q + 1] = p[1] /\ t[3 * q + 2] = p[2] /\ t[3 * q + 3] = p[3]
  BY <1>4, <1>6
<1>10. /\ Len(x) = Len(s) + Len(t) + Len(u)
       /\ \A i \in 1 .. Len(s) : x[i] = s[i]
       /\ \A i \in 1 .. Len(t) : x[Len(s) + i] = t[i]
       /\ \A i \in 1 .. Len(u) : x[Len(s) + Len(t) + i] = u[i]
  <2>1. s \in Seq(Accesses) /\ t \in Seq(Accesses) /\ u \in Seq(Accesses)
    BY <1>1, <1>8
  <2> QED
    BY <2>1, ThreeParts
<1> HIDE DEF x
<1>11. ASSUME NEW q \in 0 .. Bits - 1
       PROVE  /\ x[3 * q + 2] = Wires!Scl(1) /\ x[3 * q + 3] = Wires!I2C_READ
              /\ x[3 * q + 4] = Wires!Scl(0)
  <2>1. /\ x[1 + (3 * q + 1)] = t[3 * q + 1] /\ x[1 + (3 * q + 2)] = t[3 * q + 2]
        /\ x[1 + (3 * q + 3)] = t[3 * q + 3]
    BY <1>1, <1>6, <1>8, <1>10
  <2>2. 1 + (3 * q + 1) = 3 * q + 2 /\ 1 + (3 * q + 2) = 3 * q + 3 /\ 1 + (3 * q + 3) = 3 * q + 4
    OBVIOUS
  <2> QED
    BY <1>2, <1>9, <2>1, <2>2
<1>12. ASSUME NEW i \in {1, 2, 3, 4} PROVE x[3 * Bits + 1 + i] = u[i]
  <2>1. i \in 1 .. Len(u) /\ Len(s) + Len(t) + i = 3 * Bits + 1 + i
    BY <1>1, <1>3, <1>8 DEF n
  <2> QED
    BY <1>10, <2>1
<1>13. /\ x[3 * Bits + 2] = u[1] /\ x[3 * Bits + 3] = u[2] /\ x[3 * Bits + 4] = u[3]
       /\ x[3 * Bits + 5] = u[4]
  <2>1. /\ 3 * Bits + 1 + 1 = 3 * Bits + 2 /\ 3 * Bits + 1 + 2 = 3 * Bits + 3
        /\ 3 * Bits + 1 + 3 = 3 * Bits + 4 /\ 3 * Bits + 1 + 4 = 3 * Bits + 5
    BY <1>3
  <2> QED
    BY <1>12, <2>1
<1>14. Len(x) = 3 * Bits + 5 /\ x[1] = s[1]
  BY <1>1, <1>3, <1>8, <1>10 DEF n
<1> QED
  BY <1>1, <1>7, <1>11, <1>13, <1>14

\* Of three times a number, one or two more, and of the four behind the last
\* bit, a count is one only.
LEMMA OneOfThree ==
  ASSUME NEW m \in Nat
  PROVE  /\ \A q \in 0 .. Bits - 1 : m = 3 * q + 1 =>
               /\ \A k \in 0 .. Bits : m # 3 * k
               /\ \A k \in 0 .. Bits - 1 : m = 3 * k + 1 => k = q
               /\ \A k \in 0 .. Bits - 1 : m # 3 * k + 2
               /\ m < 3 * Bits
         /\ \A q \in 0 .. Bits - 1 : m = 3 * q + 2 =>
               /\ \A k \in 0 .. Bits : m # 3 * k
               /\ \A k \in 0 .. Bits - 1 : m # 3 * k + 1
               /\ \A k \in 0 .. Bits - 1 : m = 3 * k + 2 => k = q
               /\ m < 3 * Bits
         /\ \A q \in 0 .. Bits : m = 3 * q =>
               /\ \A k \in 0 .. Bits : m = 3 * k => k = q
               /\ \A k \in 0 .. Bits - 1 : m # 3 * k + 1
               /\ \A k \in 0 .. Bits - 1 : m # 3 * k + 2
               /\ m <= 3 * Bits
         /\ m > 3 * Bits =>
               /\ \A k \in 0 .. Bits : m # 3 * k
               /\ \A k \in 0 .. Bits - 1 : m # 3 * k + 1 /\ m # 3 * k + 2
<1>1. Bits \in Nat
  BY DriversAssumption
<1>2. ASSUME NEW q \in 0 .. Bits - 1, m = 3 * q + 1
      PROVE  /\ \A k \in 0 .. Bits : m # 3 * k
             /\ \A k \in 0 .. Bits - 1 : m = 3 * k + 1 => k = q
             /\ \A k \in 0 .. Bits - 1 : m # 3 * k + 2
             /\ m < 3 * Bits
  BY <1>1, <1>2
<1>3. ASSUME NEW q \in 0 .. Bits - 1, m = 3 * q + 2
      PROVE  /\ \A k \in 0 .. Bits : m # 3 * k
             /\ \A k \in 0 .. Bits - 1 : m # 3 * k + 1
             /\ \A k \in 0 .. Bits - 1 : m = 3 * k + 2 => k = q
             /\ m < 3 * Bits
  BY <1>1, <1>3
<1>4. ASSUME NEW q \in 0 .. Bits, m = 3 * q
      PROVE  /\ \A k \in 0 .. Bits : m = 3 * k => k = q
             /\ \A k \in 0 .. Bits - 1 : m # 3 * k + 1
             /\ \A k \in 0 .. Bits - 1 : m # 3 * k + 2
             /\ m <= 3 * Bits
  BY <1>1, <1>4
<1>5. ASSUME m > 3 * Bits
      PROVE  /\ \A k \in 0 .. Bits : m # 3 * k
             /\ \A k \in 0 .. Bits - 1 : m # 3 * k + 1 /\ m # 3 * k + 2
  BY <1>1, <1>5
<1> QED
  BY <1>2, <1>3, <1>4, <1>5

LEMMA WhichOfThree ==
  ASSUME NEW m \in 0 .. 3 * Bits - 1
  PROVE  \E q \in 0 .. Bits - 1 : m = 3 * q \/ m = 3 * q + 1 \/ m = 3 * q + 2
<1> DEFINE q == m \div 3
<1>1. q \in 0 .. Bits - 1 /\ (m = 3 * q \/ m = 3 * q + 1 \/ m = 3 * q + 2)
  BY DriversAssumption
<1> QED
  BY <1>1

LEMMA WriteSteps ==
  ASSUME WiresTyped, DevRight, Wires!Access, w_call = "write", WriteAt
  PROVE  /\ WriteAt'
         /\ w_made' = Len(w_ops') =>
               /\ w_scl' = 0 /\ w_state' \in {"last", "read", "write"}
               /\ w_state' = "last" => w_dev'.mode = "deaf"
               /\ w_state' = "read" => w_dev'.mode = "send" /\ w_dev'.bit = 1
               /\ w_state' = "write" => w_dev'.mode = "receive" /\ w_dev'.bit = 1
<1>1. /\ w_made \in Nat /\ Bits \in Nat /\ w_arg \in Wires!Bytes /\ w_ops = Wires!WriteOps(w_arg)
      /\ Len(w_ops) = 3 * Bits + 4
  BY DriversAssumption, WriteOpsAre DEF WriteAt, WiresTyped
<1>2. /\ w_made < 3 * Bits + 4 /\ w_made' = w_made + 1 /\ w_made' \in Nat /\ w_ops' = w_ops
      /\ w_arg' = w_arg /\ w_call' = w_call
  BY <1>1, Moves
<1>a. w_sda \in {0, 1} /\ w_scl \in {0, 1} /\ w_dev \in Target /\ w_dev.out \in {0, 1}
  BY Pins DEF WiresTyped, Target
<1>3. ASSUME NEW q \in 0 .. Bits - 1, w_made = 3 * q
      PROVE  WriteAt' /\ w_made' # Len(w_ops')
  <2>1. Wires!I2C_SDA(w_arg[q + 1]) /\ w_bits' = w_bits /\ w_arg[q + 1] \in Wires!Bit
    <3>1. w_ops[w_made + 1] = Wires!Sda(w_arg[q + 1])
      BY <1>1, <1>3, WriteOpsAre
    <3>2. q + 1 \in 1 .. Bits
      BY <1>1
    <3>3. w_arg[q + 1] \in Wires!Bit
      BY <1>1, <3>2, BytesAreSequences
    <3> QED
      BY <3>1, <3>3, OnSda
  <2>2. w_scl = 0 /\ Arrived(q)
    <3>1. q \in 0 .. Bits
      BY <1>1
    <3> QED
      BY <1>3, <3>1 DEF WriteAt
  <2>3. w_scl' = 0 /\ w_sda' = w_arg[q + 1] /\ w_dev' = w_dev
    BY <2>1, <2>2, SdaMoves
  <2>4. w_scl' = 0 /\ w_sda' = w_arg'[q + 1] /\ Arrived(q)'
    BY <1>2, <2>1, <2>2, <2>3 DEF Arrived
  <2>5. w_made' = 3 * q + 1 /\ w_made' < 3 * Bits
    BY <1>1, <1>2, <1>3
  <2>6. /\ \A k \in 0 .. Bits : w_made' # 3 * k
        /\ \A k \in 0 .. Bits - 1 : w_made' = 3 * k + 1 => k = q
        /\ \A k \in 0 .. Bits - 1 : w_made' # 3 * k + 2
    BY <1>2, <2>5, OneOfThree
  <2>7. /\ w_made' # 3 * Bits + 1 /\ w_made' # 3 * Bits + 2 /\ w_made' # 3 * Bits + 3
        /\ w_made' # 3 * Bits + 4
    BY <1>1, <1>2, <2>5
  <2> QED
    BY <1>1, <1>2, <2>4, <2>6, <2>7 DEF WriteAt
<1>4. ASSUME NEW q \in 0 .. Bits - 1, w_made = 3 * q + 1
      PROVE  WriteAt' /\ w_made' # Len(w_ops')
  <2>1. Wires!I2C_SCL(1) /\ w_bits' = w_bits
    <3>1. w_made + 1 = 3 * q + 2
      BY <1>4
    <3>2. w_ops[w_made + 1] = Wires!Scl(1)
      BY <1>1, <3>1, WriteOpsAre
    <3> QED
      BY <3>2, OnScl, Pins
  <2>2. w_scl = 0 /\ w_sda = w_arg[q + 1] /\ Arrived(q)
    BY <1>4 DEF WriteAt
  <2>3. w_scl' = 1 /\ Risen
    BY <2>1, <2>2, SclMoves, Pins
  <2>4. w_dev.bit <= Bits /\ w_dev.out = 1
    BY <1>1, <2>2 DEF Arrived, DevRight
  <2>5. w_dev'.byte = First(w_arg, q + 1)
    <3>1. w_dev'.byte = Append(First(w_arg, q), w_arg[q + 1])
      BY <2>2, <2>3, <2>4, WireBit DEF Arrived, Risen
    <3> QED
      BY <1>1, <3>1, FirstGrows
  <2>6. /\ w_scl' = 1 /\ w_dev'.mode = "receive" /\ w_dev'.bit = q + 1
        /\ w_dev'.byte = First(w_arg, q + 1)' /\ w_bits' = <<>>
    BY <1>2, <2>1, <2>2, <2>3, <2>5 DEF Arrived, Risen, First
  <2>7. w_made' = 3 * q + 2 /\ w_made' < 3 * Bits
    BY <1>1, <1>2, <1>4
  <2>8. /\ \A k \in 0 .. Bits : w_made' # 3 * k
        /\ \A k \in 0 .. Bits - 1 : w_made' # 3 * k + 1
        /\ \A k \in 0 .. Bits - 1 : w_made' = 3 * k + 2 => k = q
    BY <1>2, <2>7, OneOfThree
  <2>9. /\ w_made' # 3 * Bits + 1 /\ w_made' # 3 * Bits + 2 /\ w_made' # 3 * Bits + 3
        /\ w_made' # 3 * Bits + 4
    BY <1>1, <1>2, <2>7
  <2> QED
    BY <1>1, <1>2, <2>6, <2>8, <2>9 DEF WriteAt
<1>5. ASSUME NEW q \in 0 .. Bits - 1, w_made = 3 * q + 2
      PROVE  WriteAt' /\ w_made' # Len(w_ops')
  <2>1. Wires!I2C_SCL(0) /\ w_bits' = w_bits
    <3>1. w_made + 1 = 3 * q + 3
      BY <1>5
    <3>2. w_ops[w_made + 1] = Wires!Scl(0)
      BY <1>1, <3>1, WriteOpsAre
    <3> QED
      BY <3>2, OnScl, Pins
  <2>2. /\ w_scl = 1 /\ w_dev.mode = "receive" /\ w_dev.bit = q + 1
        /\ w_dev.byte = First(w_arg, q + 1) /\ w_bits = <<>>
    BY <1>5 DEF WriteAt
  <2>3. w_scl' = 0 /\ Fallen
    BY <2>1, <2>2, SclMoves, Pins
  <2>4. BitOn(w_dev, w_dev')
    <3>1. w_dev.bit <= Bits
      BY <1>1, <2>2
    <3> QED
      BY <2>2, <2>3, <3>1 DEF Fallen
  <2>5. w_scl' = 0 /\ Arrived(q + 1)'
    BY <1>1, <1>2, <2>1, <2>2, <2>3, <2>4 DEF Arrived, BitOn, First
  <2>6. w_made' = 3 * (q + 1) /\ q + 1 \in 0 .. Bits /\ w_made' <= 3 * Bits
    BY <1>1, <1>2, <1>5
  <2>7. /\ \A k \in 0 .. Bits : w_made' = 3 * k => k = q + 1
        /\ \A k \in 0 .. Bits - 1 : w_made' # 3 * k + 1
        /\ \A k \in 0 .. Bits - 1 : w_made' # 3 * k + 2
    BY <1>2, <2>6, OneOfThree
  <2>8. /\ w_made' # 3 * Bits + 1 /\ w_made' # 3 * Bits + 2 /\ w_made' # 3 * Bits + 3
        /\ w_made' # 3 * Bits + 4
    BY <1>1, <1>2, <2>6
  <2> QED
    BY <1>1, <1>2, <2>5, <2>7, <2>8 DEF WriteAt
<1>6. ASSUME w_made >= 3 * Bits
      PROVE  /\ \A k \in 0 .. Bits : w_made' # 3 * k
             /\ \A k \in 0 .. Bits - 1 : w_made' # 3 * k + 1 /\ w_made' # 3 * k + 2
  <2>1. w_made' > 3 * Bits
    BY <1>1, <1>2, <1>6
  <2> QED
    BY <1>2, <2>1, OneOfThree
<1>7. CASE w_made = 3 * Bits
  <2>1. Wires!I2C_SDA(1) /\ w_bits' = w_bits
    BY <1>1, <1>7, OnSda, Pins, WriteOpsAre
  <2>2. w_scl = 0 /\ Arrived(Bits)
    <3>1. Bits \in 0 .. Bits
      BY <1>1
    <3> QED
      BY <1>7, <3>1 DEF WriteAt
  <2>3. w_scl' = 0 /\ w_sda' = 1 /\ w_dev' = w_dev
    BY <2>1, <2>2, SdaMoves, Pins
  <2>4. w_scl' = 0 /\ w_sda' = 1 /\ Arrived(Bits)'
    BY <1>2, <2>1, <2>2, <2>3 DEF Arrived
  <2>5. w_made' = 3 * Bits + 1 /\ w_made >= 3 * Bits
    BY <1>1, <1>2, <1>7
  <2> QED
    BY <1>1, <1>2, <1>6, <2>4, <2>5 DEF WriteAt
<1>8. CASE w_made = 3 * Bits + 1
  <2>1. Wires!I2C_SCL(1) /\ w_bits' = w_bits
    <3>1. w_made + 1 = 3 * Bits + 2
      BY <1>1, <1>8
    <3> QED
      BY <1>1, <3>1, OnScl, Pins, WriteOpsAre
  <2>2. w_scl = 0 /\ w_sda = 1 /\ Arrived(Bits)
    BY <1>8 DEF WriteAt
  <2>3. w_scl' = 1 /\ w_sda' = 1 /\ Risen
    BY <2>1, <2>2, SclMoves, Pins
  <2>4. ~(w_dev.bit <= Bits)
    BY <1>1, <2>2 DEF Arrived
  <2>5. w_scl' = 1 /\ w_sda' = 1 /\ Arrived(Bits)'
    BY <1>2, <2>1, <2>2, <2>3, <2>4 DEF Arrived, Risen
  <2>6. w_made' = 3 * Bits + 2 /\ w_made >= 3 * Bits
    BY <1>1, <1>2, <1>8
  <2> QED
    BY <1>1, <1>2, <1>6, <2>5, <2>6 DEF WriteAt
<1>9. CASE w_made = 3 * Bits + 2
  <2>1. /\ w_bits' = Append(w_bits, Wires!Wire)
        /\ w_sda' = w_sda /\ w_scl' = w_scl /\ w_dev' = w_dev
    <3>1. w_made + 1 = 3 * Bits + 3
      BY <1>1, <1>9
    <3> QED
      BY <1>1, <3>1, OnRead, WriteOpsAre
  <2>2. w_scl = 1 /\ w_sda = 1 /\ Arrived(Bits)
    BY <1>9 DEF WriteAt
  <2>3. w_bits' = <<w_dev.out>>
    <3>1. w_bits' = Append(<<>>, w_dev.out)
      BY <2>1, <2>2, WireBit DEF Arrived
    <3> QED
      BY <3>1
  <2>4. w_dev.byte = w_arg
    BY <1>1, <2>2, FirstEnds DEF Arrived
  <2>5. /\ w_scl' = 1 /\ w_dev'.mode = "receive" /\ w_dev'.bit = Bits + 1
        /\ w_dev'.byte = w_arg' /\ w_bits' = <<w_dev'.out>>
    BY <1>2, <2>1, <2>2, <2>3, <2>4 DEF Arrived
  <2>6. w_made' = 3 * Bits + 3 /\ w_made >= 3 * Bits
    BY <1>1, <1>2, <1>9
  <2> QED
    BY <1>1, <1>2, <1>6, <2>5, <2>6 DEF WriteAt
<1>10. CASE w_made = 3 * Bits + 3
  <2>1. Wires!I2C_SCL(0)
    <3>1. w_made + 1 = 3 * Bits + 4
      BY <1>1, <1>10
    <3> QED
      BY <1>1, <3>1, OnScl, Pins, WriteOpsAre
  <2>2. /\ w_scl = 1 /\ w_dev.mode = "receive" /\ w_dev.bit = Bits + 1
        /\ w_dev.byte = w_arg /\ w_bits = <<w_dev.out>> /\ w_dev.ack = w_dev.out
    BY <1>10 DEF WriteAt, DevRight
  <2>3. w_scl' = 0 /\ Fallen
    BY <2>1, <2>2, SclMoves, Pins
  <2>4. ByteOn(w_dev, w_dev')
    BY <2>2, <2>3 DEF Fallen
  <2>5. w_made + 1 = Len(w_ops) /\ w_made' = 3 * Bits + 4 /\ w_made >= 3 * Bits
    BY <1>1, <1>2, <1>10
  <2>6. w_state' = IF w_dev.out = 1 THEN "last" ELSE IF w_dev'.mode = "send" THEN "read" ELSE "write"
    <3>1. w_bits[1] = w_dev.out
      BY <2>2
    <3> QED
      BY <2>5, <3>1, Moves DEF Wires!After
  <2>7. /\ w_dev'.whole = w_arg'
        /\ w_state' \in {"last", "read", "write"}
        /\ w_state' = "last" => w_dev'.mode = "deaf"
        /\ w_state' = "read" => w_dev'.mode = "send" /\ w_dev'.bit = 1
        /\ w_state' = "write" => w_dev'.mode = "receive" /\ w_dev'.bit = 1
    BY <1>2, <2>2, <2>4, <2>6 DEF ByteOn, Receives
  <2> QED
    BY <1>1, <1>2, <1>6, <2>3, <2>5, <2>7 DEF WriteAt
<1>11. \/ w_made \in 0 .. 3 * Bits - 1
       \/ w_made \in {3 * Bits, 3 * Bits + 1, 3 * Bits + 2, 3 * Bits + 3}
  BY <1>1, <1>2
<1>12. CASE w_made \in 0 .. 3 * Bits - 1
  <2>1. PICK q \in 0 .. Bits - 1 : w_made = 3 * q \/ w_made = 3 * q + 1 \/ w_made = 3 * q + 2
    BY <1>12, WhichOfThree
  <2> QED
    BY <1>3, <1>4, <1>5, <2>1
<1> QED
  BY <1>7, <1>8, <1>9, <1>10, <1>11, <1>12

LEMMA ReadSteps ==
  ASSUME WiresTyped, DevRight, Wires!Access, w_call = "read", ReadAt
  PROVE  /\ ReadAt'
         /\ w_made' = Len(w_ops') =>
               /\ w_scl' = 0 /\ w_state' \in {"last", "read"}
               /\ w_state' = "last" => w_dev'.mode = "deaf"
               /\ w_state' = "read" => w_dev'.mode = "send" /\ w_dev'.bit = 1
<1> DEFINE a == w_arg[1]
<1>1. /\ w_made \in Nat /\ Bits \in Nat /\ Bits >= 1 /\ w_arg \in {<<0>>, <<1>>} /\ a \in Wires!Bit
      /\ w_ops = Wires!ReadOps(a) /\ Len(w_ops) = 3 * Bits + 5
  <2>1. w_arg \in {<<0>>, <<1>>} /\ w_ops = Wires!ReadOps(a)
    BY DEF ReadAt
  <2>2. a \in Wires!Bit
    BY <2>1, Pins
  <2> QED
    BY <2>1, <2>2, DriversAssumption, ReadOpsAre DEF WiresTyped
<1>2. /\ w_made < 3 * Bits + 5 /\ w_made' = w_made + 1 /\ w_made' \in Nat /\ w_ops' = w_ops
      /\ w_arg' = w_arg /\ w_call' = w_call
  BY <1>1, Moves
<1>b. /\ w_arg' \in {<<0>>, <<1>>} /\ w_ops' = Wires!ReadOps(w_arg[1])' /\ Len(w_ops') = 3 * Bits + 5
      /\ a' = a
  BY <1>1, <1>2
<1>a. w_sda \in {0, 1} /\ w_scl \in {0, 1} /\ w_dev \in Target /\ w_dev.out \in {0, 1}
  BY Pins DEF WiresTyped, Target
<1>c. w_dev.mode = "send" =>
         /\ w_dev.byte \in Wires!Bytes
         /\ w_dev.bit <= Bits => w_dev.out = w_dev.byte[w_dev.bit]
         /\ w_dev.bit = Bits + 1 => w_dev.out = 1 /\ (w_scl = 1 => w_dev.ack = w_sda)
  BY DEF DevRight
<1> HIDE DEF a
<1>3. CASE w_made = 0
  <2>1. Wires!I2C_SDA(1) /\ w_bits' = w_bits
    <3>1. w_ops[w_made + 1] = Wires!Sda(1)
      BY <1>1, <1>3, ReadOpsAre
    <3> QED
      BY <3>1, OnSda, Pins
  <2>2. w_scl = 0 /\ Given(0) /\ w_dev.bit = 1
    BY <1>3 DEF ReadAt
  <2>3. w_scl' = 0 /\ w_sda' = 1 /\ w_dev' = w_dev
    BY <2>1, <2>2, SdaMoves, Pins
  <2>4. w_scl' = 0 /\ w_sda' = 1 /\ Given(0)' /\ w_dev'.bit = 1
    BY <2>1, <2>2, <2>3 DEF Given
  <2>5. ASSUME NEW k \in 0 .. Bits, w_made' = 3 * k + 1
        PROVE  w_scl' = 0 /\ w_sda' = 1 /\ Given(k)' /\ w_dev'.bit = k + 1
    <3>1. k = 0
      BY <1>2, <1>3, <2>5
    <3> QED
      BY <2>4, <3>1
  <2>6. /\ \A k \in 0 .. Bits - 1 : w_made' # 3 * k + 2 /\ w_made' # 3 * k + 3
        /\ w_made' = 1
    BY <1>1, <1>2, <1>3
  <2>7. /\ w_made' # 3 * Bits + 2 /\ w_made' # 3 * Bits + 3 /\ w_made' # 3 * Bits + 4
        /\ w_made' # 3 * Bits + 5 /\ w_made' # 0
    BY <1>1, <2>6
  <2> QED
    BY <1>b, <2>5, <2>6, <2>7 DEF ReadAt
<1>4. ASSUME NEW q \in 0 .. Bits - 1, w_made = 3 * q + 1
      PROVE  ReadAt' /\ w_made' # Len(w_ops')
  <2>1. Wires!I2C_SCL(1) /\ w_bits' = w_bits
    <3>1. w_made + 1 = 3 * q + 2
      BY <1>4
    <3>2. w_ops[w_made + 1] = Wires!Scl(1)
      BY <1>1, <3>1, ReadOpsAre
    <3> QED
      BY <3>2, OnScl, Pins
  <2>2. w_scl = 0 /\ w_sda = 1 /\ Given(q) /\ w_dev.bit = q + 1
    <3>1. q \in 0 .. Bits
      BY <1>1
    <3> QED
      BY <1>4, <3>1 DEF ReadAt
  <2>3. w_scl' = 1 /\ w_sda' = 1 /\ Risen
    BY <2>1, <2>2, SclMoves, Pins
  <2>4. w_scl' = 1 /\ w_sda' = 1 /\ Given(q)' /\ w_dev'.bit = q + 1
    BY <2>1, <2>2, <2>3 DEF Given, Risen
  <2>5. w_made' = 3 * q + 2
    BY <1>2, <1>4
  <2>6. /\ \A k \in 0 .. Bits : w_made' # 3 * k + 1
        /\ \A k \in 0 .. Bits - 1 : w_made' = 3 * k + 2 => k = q
        /\ \A k \in 0 .. Bits - 1 : w_made' # 3 * k + 3
    BY <1>1, <2>5
  <2>7. /\ w_made' # 3 * Bits + 2 /\ w_made' # 3 * Bits + 3 /\ w_made' # 3 * Bits + 4
        /\ w_made' # 3 * Bits + 5 /\ w_made' # 0
    BY <1>1, <2>5
  <2> QED
    BY <1>b, <2>4, <2>6, <2>7 DEF ReadAt
<1>5. ASSUME NEW q \in 0 .. Bits - 1, w_made = 3 * q + 2
      PROVE  ReadAt' /\ w_made' # Len(w_ops')
  <2>1. /\ w_bits' = Append(w_bits, Wires!Wire)
        /\ w_sda' = w_sda /\ w_scl' = w_scl /\ w_dev' = w_dev
    <3>1. w_made + 1 = 3 * q + 3
      BY <1>5
    <3>2. Wires!ReadOps(a)[3 * q + 3] = Wires!I2C_READ
      BY <1>1, ReadOpsAre
    <3>3. w_ops[w_made + 1] = Wires!I2C_READ
      BY <1>1, <3>1, <3>2
    <3> QED
      BY <3>3, OnRead
  <2>2. w_scl = 1 /\ w_sda = 1 /\ Given(q) /\ w_dev.bit = q + 1
    BY <1>5 DEF ReadAt
  <2>3. Wires!Wire = w_dev.byte[q + 1] /\ w_dev.byte \in Wires!Bytes
    <3>1. w_dev.bit <= Bits
      BY <1>1, <2>2
    <3> QED
      BY <1>c, <2>2, <3>1, WireBit DEF Given
  <2>4. w_bits' = First(w_dev.byte, q + 1)
    BY <2>1, <2>2, <2>3, FirstGrows DEF Given
  <2>5. w_scl' = 1 /\ w_sda' = 1 /\ Given(q + 1)' /\ w_dev'.bit = q + 1
    BY <2>1, <2>2, <2>4 DEF Given, First
  <2>6. w_made' = 3 * q + 3
    BY <1>2, <1>5
  <2>7. /\ \A k \in 0 .. Bits : w_made' # 3 * k + 1
        /\ \A k \in 0 .. Bits - 1 : w_made' # 3 * k + 2
        /\ \A k \in 0 .. Bits - 1 : w_made' = 3 * k + 3 => k = q
    BY <1>1, <2>6
  <2>8. /\ w_made' # 3 * Bits + 2 /\ w_made' # 3 * Bits + 3 /\ w_made' # 3 * Bits + 4
        /\ w_made' # 3 * Bits + 5 /\ w_made' # 0
    BY <1>1, <2>6
  <2> QED
    BY <1>b, <2>5, <2>7, <2>8 DEF ReadAt
<1>6. ASSUME NEW q \in 0 .. Bits - 1, w_made = 3 * q + 3
      PROVE  ReadAt' /\ w_made' # Len(w_ops')
  <2>1. Wires!I2C_SCL(0) /\ w_bits' = w_bits
    <3>1. w_made + 1 = 3 * q + 4
      BY <1>6
    <3>2. w_ops[w_made + 1] = Wires!Scl(0)
      BY <1>1, <3>1, ReadOpsAre
    <3> QED
      BY <3>2, OnScl, Pins
  <2>2. w_scl = 1 /\ w_sda = 1 /\ Given(q + 1) /\ w_dev.bit = q + 1
    BY <1>6 DEF ReadAt
  <2>3. w_scl' = 0 /\ w_sda' = 1 /\ Fallen
    BY <2>1, <2>2, SclMoves, Pins
  <2>4. BitOn(w_dev, w_dev')
    <3>1. w_dev.bit <= Bits
      BY <1>1, <2>2
    <3> QED
      BY <2>2, <2>3, <3>1 DEF Fallen, Given
  <2>5. w_scl' = 0 /\ w_sda' = 1 /\ Given(q + 1)' /\ w_dev'.bit = q + 2
    BY <1>1, <2>1, <2>2, <2>3, <2>4 DEF Given, BitOn, First
  <2>6. w_made' = 3 * q + 4
    BY <1>2, <1>6
  <2>7. ASSUME NEW k \in 0 .. Bits, w_made' = 3 * k + 1
        PROVE  w_scl' = 0 /\ w_sda' = 1 /\ Given(k)' /\ w_dev'.bit = k + 1
    <3>1. k = q + 1 /\ k + 1 = q + 2
      BY <1>1, <2>6, <2>7
    <3> QED
      BY <2>5, <3>1
  <2>8. \A k \in 0 .. Bits - 1 : w_made' # 3 * k + 2 /\ w_made' # 3 * k + 3
    BY <1>1, <2>6
  <2>9. /\ w_made' # 3 * Bits + 2 /\ w_made' # 3 * Bits + 3 /\ w_made' # 3 * Bits + 4
        /\ w_made' # 3 * Bits + 5 /\ w_made' # 0
    BY <1>1, <2>6
  <2> QED
    BY <1>b, <2>7, <2>8, <2>9 DEF ReadAt
<1>7. ASSUME w_made >= 3 * Bits + 1
      PROVE  /\ \A k \in 0 .. Bits : w_made' # 3 * k + 1
             /\ \A k \in 0 .. Bits - 1 : w_made' # 3 * k + 2 /\ w_made' # 3 * k + 3
             /\ w_made' # 0
  BY <1>1, <1>2, <1>7
<1>8. CASE w_made = 3 * Bits + 1
  <2>1. Wires!I2C_SDA(a) /\ w_bits' = w_bits
    <3>1. w_made + 1 = 3 * Bits + 2
      BY <1>1, <1>8
    <3> QED
      BY <1>1, <3>1, OnSda, ReadOpsAre
  <2>2. w_scl = 0 /\ Given(Bits) /\ w_dev.bit = Bits + 1
    <3>1. Bits \in 0 .. Bits
      BY <1>1
    <3> QED
      BY <1>8, <3>1 DEF ReadAt
  <2>3. w_scl' = 0 /\ w_sda' = a /\ w_dev' = w_dev
    BY <1>1, <2>1, <2>2, SdaMoves
  <2>4. w_scl' = 0 /\ w_sda' = a' /\ Given(Bits)' /\ w_dev'.bit = Bits + 1
    BY <1>b, <2>1, <2>2, <2>3 DEF Given
  <2>5. w_made' = 3 * Bits + 2 /\ w_made >= 3 * Bits + 1
    BY <1>1, <1>2, <1>8
  <2>6. /\ \A k \in 0 .. Bits : w_made' # 3 * k + 1
        /\ \A k \in 0 .. Bits - 1 : w_made' # 3 * k + 2 /\ w_made' # 3 * k + 3
        /\ w_made' # 0
    BY <1>7, <2>5
  <2>7. w_made' # 3 * Bits + 3 /\ w_made' # 3 * Bits + 4 /\ w_made' # 3 * Bits + 5
    BY <1>1, <2>5
  <2> QED
    BY <1>b, <2>4, <2>6, <2>7 DEF ReadAt, a
<1>9. CASE w_made = 3 * Bits + 2
  <2>1. Wires!I2C_SCL(1) /\ w_bits' = w_bits
    <3>1. w_made + 1 = 3 * Bits + 3
      BY <1>1, <1>9
    <3> QED
      BY <1>1, <3>1, OnScl, Pins, ReadOpsAre
  <2>2. w_scl = 0 /\ w_sda = a /\ Given(Bits) /\ w_dev.bit = Bits + 1
    BY <1>9 DEF ReadAt, a
  <2>3. w_scl' = 1 /\ w_sda' = a /\ Risen
    BY <2>1, <2>2, SclMoves, Pins
  <2>4. w_scl' = 1 /\ w_sda' = a' /\ Given(Bits)' /\ w_dev'.bit = Bits + 1
    BY <1>b, <2>1, <2>2, <2>3 DEF Given, Risen
  <2>5. w_made' = 3 * Bits + 3 /\ w_made >= 3 * Bits + 1
    BY <1>1, <1>2, <1>9
  <2>6. /\ \A k \in 0 .. Bits : w_made' # 3 * k + 1
        /\ \A k \in 0 .. Bits - 1 : w_made' # 3 * k + 2 /\ w_made' # 3 * k + 3
        /\ w_made' # 0
    BY <1>7, <2>5
  <2>7. w_made' # 3 * Bits + 2 /\ w_made' # 3 * Bits + 4 /\ w_made' # 3 * Bits + 5
    BY <1>1, <2>5
  <2> QED
    BY <1>b, <2>4, <2>6, <2>7 DEF ReadAt, a
<1>10. CASE w_made = 3 * Bits + 3
  <2>1. Wires!I2C_SCL(0) /\ w_bits' = w_bits
    <3>1. w_made + 1 = 3 * Bits + 4
      BY <1>1, <1>10
    <3> QED
      BY <1>1, <3>1, OnScl, Pins, ReadOpsAre
  <2>2. w_scl = 1 /\ w_sda = a /\ Given(Bits) /\ w_dev.bit = Bits + 1
    BY <1>10 DEF ReadAt, a
  <2>3. w_scl' = 0 /\ Fallen
    BY <2>1, <2>2, SclMoves, Pins
  <2>4. ByteOn(w_dev, w_dev') /\ w_dev.ack = a
    BY <1>c, <2>2, <2>3 DEF Fallen, Given
  <2>5. w_bits' = w_dev.byte
    BY <1>c, <2>1, <2>2, FirstEnds DEF Given
  <2>6. a = 1 <=> w_arg = <<1>>
    BY <1>1 DEF a
  <2>7. /\ w_bits' = w_dev'.whole
        /\ IF w_arg = <<1>> THEN w_dev'.mode = "deaf" ELSE w_dev'.mode = "send" /\ w_dev'.bit = 1
    <3>1. w_dev.mode = "send"
      BY <2>2 DEF Given
    <3>2. CASE a = 1
      BY <2>4, <2>5, <2>6, <3>2 DEF ByteOn
    <3>3. CASE a # 1
      BY <2>4, <2>5, <2>6, <3>1, <3>3 DEF ByteOn, Given
    <3> QED
      BY <3>2, <3>3
  <2>8. w_made' = 3 * Bits + 4 /\ w_made >= 3 * Bits + 1
    BY <1>1, <1>2, <1>10
  <2>9. /\ \A k \in 0 .. Bits : w_made' # 3 * k + 1
        /\ \A k \in 0 .. Bits - 1 : w_made' # 3 * k + 2 /\ w_made' # 3 * k + 3
        /\ w_made' # 0
    BY <1>7, <2>8
  <2>10. w_made' # 3 * Bits + 2 /\ w_made' # 3 * Bits + 3 /\ w_made' # 3 * Bits + 5
    BY <1>1, <2>8
  <2> QED
    BY <1>2, <1>b, <2>3, <2>7, <2>9, <2>10 DEF ReadAt
<1>11. CASE w_made = 3 * Bits + 4
  <2>1. Wires!I2C_SDA(1) /\ w_bits' = w_bits
    <3>1. w_made + 1 = 3 * Bits + 5
      BY <1>1, <1>11
    <3> QED
      BY <1>1, <3>1, OnSda, Pins, ReadOpsAre
  <2>2. /\ w_scl = 0 /\ w_bits = w_dev.whole
        /\ IF w_arg = <<1>> THEN w_dev.mode = "deaf" ELSE w_dev.mode = "send" /\ w_dev.bit = 1
    BY <1>11 DEF ReadAt
  <2>3. w_scl' = 0 /\ w_dev' = w_dev
    BY <2>1, <2>2, SdaMoves, Pins
  <2>4. w_made' = 3 * Bits + 5 /\ w_made >= 3 * Bits + 1 /\ w_made + 1 = Len(w_ops)
    BY <1>1, <1>2, <1>11
  <2>5. w_state' = IF w_arg = <<1>> THEN "last" ELSE "read"
    BY <2>4, Moves DEF Wires!After
  <2>6. /\ \A k \in 0 .. Bits : w_made' # 3 * k + 1
        /\ \A k \in 0 .. Bits - 1 : w_made' # 3 * k + 2 /\ w_made' # 3 * k + 3
        /\ w_made' # 0
    BY <1>7, <2>4
  <2>7. w_made' # 3 * Bits + 2 /\ w_made' # 3 * Bits + 3
    BY <1>1, <2>4
  <2>8. ReadAt'
    BY <1>2, <1>b, <2>1, <2>2, <2>3, <2>5, <2>6, <2>7 DEF ReadAt
  <2> QED
    BY <2>2, <2>3, <2>5, <2>8
<1>12. \/ w_made = 0 \/ w_made - 1 \in 0 .. 3 * Bits - 1
       \/ w_made \in {3 * Bits + 1, 3 * Bits + 2, 3 * Bits + 3, 3 * Bits + 4}
  BY <1>1, <1>2
<1>13. CASE w_made - 1 \in 0 .. 3 * Bits - 1
  <2>1. PICK q \in 0 .. Bits - 1 :
           w_made - 1 = 3 * q \/ w_made - 1 = 3 * q + 1 \/ w_made - 1 = 3 * q + 2
    BY <1>13, WhichOfThree
  <2>2. w_made = 3 * q + 1 \/ w_made = 3 * q + 2 \/ w_made = 3 * q + 3
    BY <1>1, <2>1
  <2> QED
    BY <1>4, <1>5, <1>6, <2>2
<1>14. ASSUME w_made \in {0, 3 * Bits + 1, 3 * Bits + 2, 3 * Bits + 3}
       PROVE  w_made' # Len(w_ops')
  BY <1>1, <1>2, <1>b, <1>14
<1> QED
  BY <1>3, <1>8, <1>9, <1>10, <1>11, <1>12, <1>13, <1>14

-----------------------------------------------------------------------------
\* An access, whichever call makes it.
LEMMA AccessKeeps ==
  ASSUME WireInv, Wires!Access
  PROVE  WireInv'
<1>1. WiresTyped /\ DevRight /\ Calls /\ w_state \in States
  BY DEF WireInv
<1>2. WiresTyped' /\ DevRight'
  BY <1>1, StaysTyped
<1>3. /\ w_call' = w_call /\ w_made < Len(w_ops) /\ w_made' = w_made + 1 /\ w_ops' = w_ops
      /\ w_made + 1 # Len(w_ops) => w_state' = w_state
      /\ w_made \in Nat
  BY <1>1, Moves DEF WiresTyped
<1>4. w_made' <= Len(w_ops')
  <2>1. Len(w_ops) \in Nat
    <3>2. ASSUME w_call = "recover" PROVE Len(w_ops) = 2 * Bits + 9
      <4>1. w_arg[1] \in Wires!Bit /\ w_ops = Wires!RecoverOps(w_arg[1])
        BY <1>1, <3>2, Pins DEF Calls, RecoverAt
      <4> QED
        BY <4>1, RecoverOpsAre
    <3>1. \E n \in Nat : Len(w_ops) = n
      BY <1>1, <1>3, <3>2, DriversAssumption, WriteOpsAre, ReadOpsAre, NineClocksAre, Pins
         DEF Calls, StartAt, StopAt, WriteAt, ReadAt, ClocksAt, ResetAt,
             Wires!StartOps, Wires!StopOps
    <3> QED
      BY <3>1
  <2> QED
    BY <1>3, <2>1
<1>5. ASSUME w_made' # Len(w_ops') PROVE w_state' \in States /\ Between'
  BY <1>1, <1>3, <1>5 DEF Between
<1>6. CASE w_call = "none"
  BY <1>1, <1>3, <1>6 DEF Calls
<1>7. CASE w_call = "start"
  <2>1. /\ StartAt'
        /\ w_made' = Len(w_ops') => /\ w_state' = "address" /\ w_scl' = 0
                                    /\ w_dev'.mode = "receive" /\ w_dev'.bit = 1
    BY <1>1, <1>7, StartSteps DEF Calls
  <2>2. Calls' /\ (w_made' = Len(w_ops') => w_state' \in States /\ Between')
    BY <1>3, <1>4, <1>7, <2>1 DEF Calls, States, Between
  <2> QED
    BY <1>2, <1>5, <2>2 DEF WireInv
<1>8. CASE w_call = "stop"
  <2>1. /\ StopAt'
        /\ w_made' = Len(w_ops') => /\ w_state' = "free" /\ w_sda' = 1 /\ w_scl' = 1
                                    /\ w_dev' = Wires!Idle
    BY <1>1, <1>8, StopSteps DEF Calls
  <2>2. w_dev' = Wires!Idle => w_dev'.out = 1
    BY DEF Wires!Idle
  <2>3. Calls' /\ (w_made' = Len(w_ops') => w_state' \in States /\ Between')
    BY <1>3, <1>4, <1>8, <2>1, <2>2 DEF Calls, States, Between
  <2> QED
    BY <1>2, <1>5, <2>3 DEF WireInv
<1>9. CASE w_call = "write"
  <2>1. /\ WriteAt'
        /\ w_made' = Len(w_ops') =>
               /\ w_scl' = 0 /\ w_state' \in {"last", "read", "write"}
               /\ w_state' = "last" => w_dev'.mode = "deaf"
               /\ w_state' = "read" => w_dev'.mode = "send" /\ w_dev'.bit = 1
               /\ w_state' = "write" => w_dev'.mode = "receive" /\ w_dev'.bit = 1
    BY <1>1, <1>9, WriteSteps DEF Calls
  <2>2. Calls' /\ (w_made' = Len(w_ops') => w_state' \in States /\ Between')
    BY <1>3, <1>4, <1>9, <2>1 DEF Calls, States, Between
  <2> QED
    BY <1>2, <1>5, <2>2 DEF WireInv
<1>10. CASE w_call = "read"
  <2>1. /\ ReadAt'
        /\ w_made' = Len(w_ops') =>
               /\ w_scl' = 0 /\ w_state' \in {"last", "read"}
               /\ w_state' = "last" => w_dev'.mode = "deaf"
               /\ w_state' = "read" => w_dev'.mode = "send" /\ w_dev'.bit = 1
    BY <1>1, <1>10, ReadSteps DEF Calls
  <2>2. Calls' /\ (w_made' = Len(w_ops') => w_state' \in States /\ Between')
    BY <1>3, <1>4, <1>10, <2>1 DEF Calls, States, Between
  <2> QED
    BY <1>2, <1>5, <2>2 DEF WireInv
<1>11. CASE w_call = "recover"
  <2>1. RecoverAt' /\ (w_made' = Len(w_ops') => w_scl' = 1 /\ w_sda' = 1)
    BY <1>1, <1>11, RecoverSteps DEF Calls
  <2>2. Len(w_ops') = 2 * Bits + 9
    <3>1. w_arg'[1] \in Wires!Bit /\ w_ops' = Wires!RecoverOps(w_arg'[1])
      BY <2>1, Pins DEF RecoverAt
    <3> QED
      BY <3>1, RecoverOpsAre
  <2>3. Calls' /\ (w_made' = Len(w_ops') => w_state' \in States /\ Between')
    BY <1>3, <1>4, <1>11, <2>1, <2>2 DEF Calls, States, Between, RecoverAt
  <2> QED
    BY <1>2, <1>5, <2>3 DEF WireInv
<1>12. CASE w_call = "clocks"
  <2>1. ClocksAt' /\ (w_made' = Len(w_ops') => w_scl' = 1 /\ w_sda' = 1)
    BY <1>1, <1>12, ClocksSteps DEF Calls
  <2>2. Len(w_ops') = 2 * Bits + 2
    BY <2>1, NineClocksAre DEF ClocksAt
  <2>3. Calls' /\ (w_made' = Len(w_ops') => w_state' \in States /\ Between')
    BY <1>3, <1>4, <1>12, <2>1, <2>2 DEF Calls, States, Between, ClocksAt
  <2> QED
    BY <1>2, <1>5, <2>3 DEF WireInv
<1>13. CASE w_call = "reset"
  <2>1. ResetAt' /\ (w_made' = Len(w_ops') => w_state' = "reset" /\ w_sda' = 1 /\ w_scl' = 1)
    BY <1>1, <1>13, ResetSteps DEF Calls
  <2>2. Calls' /\ (w_made' = Len(w_ops') => w_state' \in States /\ Between')
    BY <1>3, <1>4, <1>13, <2>1 DEF Calls, States, Between
  <2> QED
    BY <1>2, <1>5, <2>2 DEF WireInv
<1> QED
  BY <1>1, <1>6, <1>7, <1>8, <1>9, <1>10, <1>11, <1>12, <1>13 DEF Calls

-----------------------------------------------------------------------------
\* The calls begin where the last one has left the bus.

LEMMA CallTyped ==
  ASSUME WiresTyped, DevRight, w_state \in States,
         w_made' = 0, w_bits' = <<>>, w_taking' \in BOOLEAN,
         UNCHANGED <<w_sda, w_scl, w_state, w_dev>>
  PROVE  WiresTyped' /\ DevRight' /\ w_state' \in States
BY DEF WiresTyped, DevRight

LEMMA CallKeeps ==
  ASSUME WireInv, Wires!Call
  PROVE  WireInv'
<1>1. /\ WiresTyped /\ DevRight /\ w_state \in States /\ Between /\ Bits \in Nat /\ Bits >= 1
  BY DriversAssumption DEF WireInv
<1>2. /\ w_made = Len(w_ops) /\ w_made' = 0 /\ w_bits' = <<>>
      /\ w_taking' = (w_dev.mode = "receive" /\ (w_dev.out = 0 \/ w_dev.first))
      /\ w_sda' = w_sda /\ w_scl' = w_scl /\ w_state' = w_state /\ w_dev' = w_dev
  BY DEF Wires!Call, Wires!SoftI2C_Start, Wires!SoftI2C_Stop, Wires!SoftI2C_Write,
         Wires!SoftI2C_Read, Wires!I2C_BusRecover, Wires!I2C_Init_F103, Wires!Begin, Wires!wires
<1>3. /\ w_dev.mode = "receive" /\ w_dev.bit = 1 => w_dev.out = 1
      /\ w_dev.mode = "deaf" => w_dev.out = 1
      /\ w_dev.mode \in {"send", "receive"} => w_dev.bit >= 1
      /\ w_dev.first \in BOOLEAN /\ w_dev.out \in {0, 1}
  BY <1>1, Pins DEF DevRight, WiresTyped, Target
<1>4. WiresTyped' /\ DevRight' /\ w_state' \in States
  <2>1. w_taking' \in BOOLEAN
    BY <1>2
  <2> QED
    BY <1>1, <1>2, <2>1, CallTyped
<1>5. CASE Wires!SoftI2C_Start
  <2>1. w_state \in {"free", "write", "last"} /\ w_call' = "start" /\ w_ops' = Wires!StartOps
    BY <1>5 DEF Wires!SoftI2C_Start, Wires!Begin
  <2>2. w_dev.out = 1 /\ (w_scl = 1 => w_sda = 1)
    BY <1>1, <1>2, <1>3, <2>1 DEF Between
  <2>3. Len(w_ops') = 4
    BY <2>1 DEF Wires!StartOps
  <2>4. StartAt'
    BY <1>2, <2>1, <2>2 DEF StartAt
  <2> QED
    BY <1>2, <1>4, <2>1, <2>3, <2>4 DEF WireInv, Calls, Between
<1>6. CASE Wires!SoftI2C_Stop
  <2>1. w_state \in {"write", "last"} /\ w_call' = "stop" /\ w_ops' = Wires!StopOps
    BY <1>6 DEF Wires!SoftI2C_Stop, Wires!Begin
  <2>2. w_dev.out = 1 /\ w_scl = 0
    BY <1>1, <1>2, <1>3, <2>1 DEF Between
  <2>3. Len(w_ops') = 3
    BY <2>1 DEF Wires!StopOps
  <2>4. StopAt'
    BY <1>2, <2>1, <2>2 DEF StopAt
  <2> QED
    BY <1>2, <1>4, <2>1, <2>3, <2>4 DEF WireInv, Calls, Between
<1>7. ASSUME NEW b \in Wires!Bytes, Wires!SoftI2C_Write(b) PROVE WireInv'
  <2>1. /\ w_state \in {"address", "write"} /\ w_call' = "write" /\ w_ops' = Wires!WriteOps(b)
        /\ w_arg' = b
    BY <1>7 DEF Wires!SoftI2C_Write, Wires!Begin
  <2>2. w_scl = 0 /\ w_dev.mode = "receive" /\ w_dev.bit = 1
    BY <1>1, <1>2, <2>1 DEF Between
  <2>3. w_dev.byte = <<>>
    <3>1. w_dev.byte \in Seq(Wires!Bit) /\ Len(w_dev.byte) = 0
      BY <1>1, <2>2 DEF DevRight, WiresTyped, Target
    <3> QED
      BY <3>1, EmptySeq
  <2>4. w_dev'.byte = First(w_arg, 0)'
    BY <1>2, <2>1, <2>3, FirstEnds DEF First
  <2>5. w_scl' = 0 /\ Arrived(0)'
    BY <1>2, <2>2, <2>4 DEF Arrived
  <2>6. ASSUME NEW k \in 0 .. Bits, w_made' = 3 * k PROVE w_scl' = 0 /\ Arrived(k)'
    <3>1. k = 0
      BY <1>2, <2>6
    <3> QED
      BY <2>5, <3>1
  <2>7. /\ \A k \in 0 .. Bits - 1 : w_made' # 3 * k + 1 /\ w_made' # 3 * k + 2
        /\ w_made' # 3 * Bits + 1 /\ w_made' # 3 * Bits + 2 /\ w_made' # 3 * Bits + 3
        /\ w_made' # 3 * Bits + 4
    BY <1>1, <1>2
  <2>8. WriteAt'
    BY <2>1, <2>6, <2>7 DEF WriteAt
  <2>9. Len(w_ops') = 3 * Bits + 4
    BY <2>1, WriteOpsAre
  <2> QED
    BY <1>1, <1>2, <1>4, <2>1, <2>8, <2>9 DEF WireInv, Calls, Between
<1>8. ASSUME NEW a \in Wires!Bit, Wires!SoftI2C_Read(a) PROVE WireInv'
  <2>1. /\ w_state = "read" /\ w_call' = "read" /\ w_ops' = Wires!ReadOps(a) /\ w_arg' = <<a>>
    BY <1>8 DEF Wires!SoftI2C_Read, Wires!Begin
  <2>2. w_scl = 0 /\ w_dev.mode = "send" /\ w_dev.bit = 1
    BY <1>1, <1>2, <2>1 DEF Between
  <2>3. w_bits' = First(w_dev.byte, 0)'
    <3>1. w_dev.byte \in Wires!Bytes
      BY <1>1, <2>2 DEF DevRight
    <3> QED
      BY <1>2, <3>1, FirstEnds DEF First
  <2>4. w_scl' = 0 /\ Given(0)' /\ w_dev'.bit = 1
    BY <1>2, <2>2, <2>3 DEF Given
  <2>5. /\ \A k \in 0 .. Bits : w_made' # 3 * k + 1
        /\ \A k \in 0 .. Bits - 1 : w_made' # 3 * k + 2 /\ w_made' # 3 * k + 3
        /\ w_made' # 3 * Bits + 2 /\ w_made' # 3 * Bits + 3 /\ w_made' # 3 * Bits + 4
        /\ w_made' # 3 * Bits + 5
    BY <1>1, <1>2
  <2>6. w_arg' \in {<<0>>, <<1>>} /\ w_ops' = Wires!ReadOps(w_arg[1])'
    <3>1. a \in {0, 1} /\ w_arg'[1] = a
      BY <2>1, Pins
    <3> QED
      BY <2>1, <3>1
  <2>7. ReadAt'
    BY <2>4, <2>5, <2>6 DEF ReadAt
  <2>8. Len(w_ops') = 3 * Bits + 5
    BY <2>1, ReadOpsAre
  <2> QED
    BY <1>1, <1>2, <1>4, <2>1, <2>7, <2>8 DEF WireInv, Calls, Between
<1>9. ASSUME w_state = "reset", ~Wires!Spared' => ~w_taking'
      PROVE  w_scl' = 1 /\ Swept(0)'
  <2>1. w_sda = 1 /\ w_scl = 1
    BY <1>1, <1>2, <1>9 DEF Between
  <2>2. ASSUME ~w_taking', w_dev.mode = "receive" PROVE ~(w_dev.out = 0 \/ w_dev.first)
    BY Zenon, <1>2, <2>2
  <2>3. w_dev.mode \in {"send", "receive"} => w_dev.bit > 0
    BY <1>1, <1>3 DEF WiresTyped, Target
  <2>4. ASSUME ~Wires!Spared'
        PROVE  /\ w_dev'.mode = "send" => w_dev'.bit > 0
               /\ w_dev'.mode = "receive" => w_dev'.bit # 0 /\ w_dev'.out = 1 /\ ~w_dev'.first
    BY <1>2, <1>3, <1>9, <2>2, <2>3, <2>4
  <2> QED
    BY <1>2, <2>1, <2>4 DEF Swept
<1>10. CASE Wires!I2C_BusRecover
  <2>1. PICK o \in Wires!Bit : w_ops' = Wires!RecoverOps(o) /\ w_arg' = <<o>>
    BY <1>10 DEF Wires!I2C_BusRecover, Wires!Begin
  <2>2. w_state = "reset" /\ w_call' = "recover"
    BY <1>10 DEF Wires!I2C_BusRecover, Wires!Begin
  <2>3. Len(w_ops') = 2 * Bits + 9
    BY <2>1, RecoverOpsAre
  <2>4. w_arg' \in {<<0>>, <<1>>} /\ w_ops' = Wires!RecoverOps(w_arg[1])'
    <3>1. o \in {0, 1} /\ w_arg'[1] = o
      BY <2>1, Pins
    <3> QED
      BY <2>1, <3>1
  <2>5. w_scl' = 1 /\ w_sda' = 1
    BY <1>1, <1>2, <2>2 DEF Between
  <2>6. ASSUME o = 1 PROVE Swept(0)'
    <3>1. w_arg' # <<0>>
      <4>1. w_arg'[1] # <<0>>[1]
        BY <2>1, <2>6
      <4> QED
        BY <4>1
    <3>2. ~Wires!Spared' => ~w_taking'
      BY <3>1 DEF Wires!Spared
    <3> QED
      BY <1>9, <2>2, <3>2
  <2>7. /\ \A k \in 0 .. Bits + 1 : w_made' # 2 * k + 4
        /\ \A k \in 0 .. Bits : w_made' # 2 * k + 5
        /\ w_made' \notin 1 .. 3 /\ w_made' # 2 * Bits + 7 /\ w_made' # 2 * Bits + 8
        /\ w_made' # 2 * Bits + 9
    BY <1>1, <1>2
  <2>8. w_arg' = <<1>> => Swept(0)'
    <3>1. w_arg' = <<1>> => w_arg'[1] = 1
      OBVIOUS
    <3>2. w_arg'[1] = o
      BY <2>1
    <3> QED
      BY <2>6, <3>1, <3>2
  <2>9. RecoverAt'
    BY <1>2, <2>4, <2>5, <2>7, <2>8 DEF RecoverAt
  <2> QED
    BY <1>1, <1>2, <1>4, <2>2, <2>3, <2>9 DEF WireInv, Calls, Between
<1>11. CASE Wires!I2C_Init_F103
  <2>1. w_state = "reset" /\ w_call' = "clocks" /\ w_ops' = Wires!NineClocks
    BY <1>11 DEF Wires!I2C_Init_F103, Wires!Begin
  <2>2. Len(w_ops') = 2 * Bits + 2
    BY <2>1, NineClocksAre
  <2>3. ASSUME NEW k \in 0 .. Bits + 1, w_made' = 2 * k PROVE w_scl' = 1 /\ Swept(k)'
    <3>1. k = 0
      BY <1>2, <2>3
    <3>2. ~Wires!Spared' => ~w_taking'
      BY <2>1 DEF Wires!Spared
    <3> QED
      BY <1>9, <2>1, <3>1, <3>2
  <2>4. \A k \in 0 .. Bits : w_made' # 2 * k + 1
    BY <1>2
  <2>5. w_made' # 2 * Bits + 2
    BY <1>1, <1>2
  <2>6. ClocksAt'
    BY <2>1, <2>3, <2>4, <2>5 DEF ClocksAt
  <2> QED
    BY <1>1, <1>2, <1>4, <2>1, <2>2, <2>6 DEF WireInv, Calls, Between
<1> QED
  BY <1>5, <1>6, <1>7, <1>8, <1>10, <1>11 DEF Wires!Call

LEMMA ResetKeeps ==
  ASSUME WireInv, Wires!Reset
  PROVE  WireInv'
<1>1. WiresTyped /\ DevRight /\ w_state \in States
  BY DEF WireInv
<1>2. /\ w_call' = "reset" /\ w_made' = 0 /\ w_bits' = <<>> /\ w_taking' = FALSE
      /\ w_ops' \in {<<Wires!Sda(1), Wires!Scl(1)>>, <<Wires!Scl(1), Wires!Sda(1)>>}
      /\ UNCHANGED <<w_sda, w_scl, w_state, w_dev>>
  BY DEF Wires!Reset, Wires!wires
<1>3. WiresTyped' /\ DevRight' /\ w_state' \in States
  BY <1>1, <1>2, CallTyped
<1>4. Len(w_ops') = 2
  BY <1>2
<1>5. ResetAt'
  BY <1>2 DEF ResetAt
<1> QED
  BY <1>2, <1>3, <1>4, <1>5 DEF WireInv, Calls, Between

\* The invariant holds at the start and is kept, and every property follows.
LEMMA WireStart ==
  ASSUME Wires!Init
  PROVE  WireInv
<1>1. /\ w_sda = 1 /\ w_scl = 1 /\ w_ops = <<>> /\ w_made = 0 /\ w_bits = <<>>
      /\ w_call = "none" /\ w_taking = FALSE /\ w_state = "free" /\ w_dev = Wires!Idle
  BY DEF Wires!Init
<1>2. WiresTyped
  <2>1. w_bits \in Seq(Wires!Bit)
    BY <1>1
  <2> QED
    BY <1>1, <2>1, IdleDevice, Pins DEF WiresTyped
<1>3. w_dev.mode = "idle" /\ w_dev.bit = 0 /\ w_dev.out = 1
  BY <1>1 DEF Wires!Idle
<1>4. DevRight
  BY <1>3 DEF DevRight
<1>5. Calls /\ Between /\ w_state \in States
  BY <1>1, <1>3 DEF Calls, Between, States
<1> QED
  BY <1>2, <1>4, <1>5 DEF WireInv

LEMMA WireMoves ==
  ASSUME WireInv, Wires!Next \/ UNCHANGED wVars
  PROVE  WireInv'
<1>1. CASE UNCHANGED wVars
  <2>1. UNCHANGED <<w_sda, w_scl, w_ops, w_made, w_call, w_arg, w_bits, w_state, w_dev, w_taking>>
    BY <1>1 DEF wVars
  <2>2. WiresTyped' /\ DevRight' /\ w_state' \in States /\ Between'
    BY <2>1 DEF WireInv, WiresTyped, DevRight, Between
  <2>3. (StartAt => StartAt') /\ (StopAt => StopAt') /\ (ResetAt => ResetAt')
    BY <2>1 DEF StartAt, StopAt, ResetAt
  <2>4. WriteAt => WriteAt'
    BY <2>1 DEF WriteAt, Arrived, First
  <2>5. ReadAt => ReadAt'
    BY <2>1 DEF ReadAt, Given, First
  <2>6. (RecoverAt => RecoverAt') /\ (ClocksAt => ClocksAt')
    BY <2>1 DEF RecoverAt, ClocksAt, Swept, Begun, Wires!Spared
  <2>7. Calls'
    BY <2>1, <2>3, <2>4, <2>5, <2>6 DEF WireInv, Calls
  <2> QED
    BY <2>2, <2>7 DEF WireInv
<1>2. CASE Wires!Next
  BY <1>2, AccessKeeps, CallKeeps, ResetKeeps DEF Wires!Next
<1> QED
  BY <1>1, <1>2

LEMMA WireHolds ==
  ASSUME WireInv
  PROVE  Wires!Truthful /\ Wires!WiresFree
<1>1. WiresTyped /\ DevRight /\ Calls /\ Between /\ Bits \in Nat
  BY DriversAssumption DEF WireInv
<1>2. ASSUME w_made = Len(w_ops), w_call = "write" PROVE w_dev.whole = w_arg
  BY <1>1, <1>2, WriteOpsAre DEF Calls, WriteAt
<1>3. ASSUME w_made = Len(w_ops), w_call = "read" PROVE w_bits = w_dev.whole
  <2>1. w_arg[1] \in Wires!Bit
    BY <1>1, <1>3, Pins DEF Calls, ReadAt
  <2>2. w_made = 3 * Bits + 5
    BY <1>1, <1>3, <2>1, ReadOpsAre DEF Calls, ReadAt
  <2> QED
    BY <1>1, <1>3, <2>2 DEF Calls, ReadAt
<1>4. ASSUME w_made = Len(w_ops), w_call = "stop" PROVE w_dev = Wires!Idle /\ w_sda = 1 /\ w_scl = 1
  <2>1. w_made = 3 /\ StopAt
    BY <1>1, <1>4 DEF Calls, StopAt, Wires!StopOps
  <2> QED
    BY <1>1, <1>4, <2>1 DEF StopAt, Between
<1>5. ASSUME w_made = Len(w_ops), w_call = "recover", ~Wires!Spared
      PROVE  w_dev = Wires!Idle /\ w_sda = 1 /\ w_scl = 1
  <2>2. RecoverAt /\ w_arg[1] \in Wires!Bit
    BY <1>1, <1>5, Pins DEF Calls, RecoverAt
  <2>1. w_made = 2 * Bits + 9 /\ RecoverAt
    BY <1>5, <2>2, RecoverOpsAre DEF RecoverAt
  <2> QED
    BY <1>5, <2>1 DEF RecoverAt
<1>6. ASSUME w_made = Len(w_ops), w_call = "clocks", ~Wires!Spared
      PROVE  w_dev.out = 1 /\ w_sda = 1 /\ w_scl = 1
  <2>1. w_made = 2 * Bits + 2 /\ ClocksAt
    BY <1>1, <1>6, NineClocksAre DEF Calls, ClocksAt
  <2>2. w_scl = 1 /\ Swept(Bits + 1)
    <3>1. Bits + 1 \in 0 .. Bits + 1 /\ w_made = 2 * (Bits + 1)
      BY <1>1, <2>1
    <3> QED
      BY <2>1, <3>1 DEF ClocksAt
  <2> QED
    BY <1>1, <1>6, <2>2, SweepEnd DEF Swept
<1>7. Wires!Idle.out = 1
  BY DEF Wires!Idle
<1>8. w_dev.out = 1 /\ w_sda = 1 => Wires!Wire = 1
  BY <1>1, WireBit
<1> QED
  BY <1>2, <1>3, <1>4, <1>5, <1>6, <1>7, <1>8 DEF Wires!Truthful, Wires!WiresFree

-----------------------------------------------------------------------------
(* The types                                                               *)

AtMain == [pc: {"idle", "unmask", "sense", "enable", "load", "store"}, line: Ext!Lines,
           edge: Ext!Edges \cup {"none"}, pr: SUBSET Ext!Lines]
AtIsr  == [pc: {"off", "test", "call", "load", "store", "clear"}, line: Ext!Lines,
           edge: {"none"}, pr: SUBSET Ext!Lines]

ExtTyped ==
    /\ e_imr \subseteq Ext!Lines /\ e_rtsr \subseteq Ext!Lines /\ e_ftsr \subseteq Ext!Lines
    /\ e_pr \subseteq Ext!Lines /\ e_handlers \subseteq Ext!Lines /\ e_nvic \in BOOLEAN
    /\ e_main \in AtMain /\ e_isr \in AtIsr

LEMMA AtIs ==
  ASSUME NEW l \in Ext!Lines
  PROVE  /\ 0 \in Ext!Lines
         /\ \A p \in {"idle", "load"} : Ext!At(p, l) \in AtMain
         /\ \A e \in Ext!Edges : [Ext!At("unmask", l) EXCEPT !.edge = e] \in AtMain
         /\ \A p \in {"off", "test", "call", "load", "clear"} : Ext!At(p, l) \in AtIsr
BY DriversAssumption DEF Ext!Lines, Ext!At, AtMain, AtIsr

LEMMA AtMoves ==
  ASSUME ExtTyped
  PROVE  /\ e_main.line \in Ext!Lines /\ e_isr.line \in Ext!Lines
         /\ \A p \in {"sense", "enable"} : [e_main EXCEPT !.pc = p] \in AtMain
         /\ [e_main EXCEPT !.pc = "store", !.pr = e_pr] \in AtMain
         /\ [e_isr EXCEPT !.pc = "store", !.pr = e_pr] \in AtIsr
BY DEF ExtTyped, AtMain, AtIsr

LEMMA ExtTypedInit == Ext!Init => ExtTyped
<1>1. 0 \in Ext!Lines
  BY DriversAssumption DEF Ext!Lines
<1> QED
  BY <1>1, AtIs DEF Ext!Init, ExtTyped

LEMMA ExtTypedStep == ExtTyped /\ Ext!Next => ExtTyped'
<1> SUFFICES ASSUME ExtTyped, Ext!Next PROVE ExtTyped'
  OBVIOUS
<1>0. 0 \in Ext!Lines
  BY DriversAssumption DEF Ext!Lines
<1>1. CASE Ext!Unmask \/ Ext!Sense
  BY <1>1, AtMoves DEF Ext!Unmask, Ext!Sense, ExtTyped
<1>2. CASE Ext!Enable \/ Ext!MainLoad \/ Ext!MainStore
  BY <1>0, <1>2, AtIs, AtMoves DEF Ext!Enable, Ext!MainLoad, Ext!MainStore, Ext!regs, Ext!Settle, ExtTyped
<1>3. CASE Ext!Interrupt \/ Ext!HandlerLoad
  BY <1>0, <1>3, AtIs, AtMoves DEF Ext!Interrupt, Ext!HandlerLoad, Ext!regs, Ext!Settle, ExtTyped
<1>4. CASE Ext!HandlerStore \/ Ext!CallHandler
  BY <1>4, AtIs, AtMoves DEF Ext!HandlerStore, Ext!CallHandler, Ext!regs, Ext!Settle, ExtTyped
<1>5. ASSUME Ext!NextLine PROVE e_isr' \in AtIsr
  <2>1. e_isr.line < Last => e_isr.line + 1 \in Ext!Lines
    BY AtMoves, DriversAssumption DEF Ext!Lines
  <2> QED
    BY <1>0, <1>5, <2>1, AtIs DEF Ext!NextLine
<1>6. CASE Ext!Test
  <2>1. e_isr' \in AtIsr
    BY <1>5, <1>6, AtIs, AtMoves DEF Ext!Test
  <2> QED
    BY <1>6, <2>1 DEF Ext!Test, Ext!regs, Ext!Settle, ExtTyped
<1>7. CASE Ext!Clear
  BY <1>5, <1>7 DEF Ext!Clear, Ext!regs, Ext!Settle, ExtTyped
<1>8. ASSUME NEW l \in Ext!Lines, NEW e \in Ext!Edges,
             \/ Ext!Edge(l) \/ Ext!extiRegisterHandler(l) \/ Ext!extiClearFlag(l)
             \/ Ext!extiInit(l, e)
      PROVE  ExtTyped'
  BY <1>8, AtIs DEF Ext!Edge, Ext!extiRegisterHandler, Ext!extiClearFlag, Ext!extiInit,
     Ext!regs, Ext!Settle, ExtTyped
<1>9. "EXTI_RISING_EDGE" \in Ext!Edges
  BY DEF Ext!Edges
<1> QED
  BY <1>1, <1>2, <1>3, <1>4, <1>6, <1>7, <1>8, <1>9 DEF Ext!Next, Ext!Handler, Ext!MainStep

\* The filter is written in FDCAN_Init only.
Filtered == c_filter \subseteq Can!Kinds

LEMMA FilteredStep == Filtered /\ (Can!Next \/ UNCHANGED cVars) => Filtered'
<1> SUFFICES ASSUME Filtered, Can!Next \/ UNCHANGED cVars PROVE Filtered'
  OBVIOUS
<1>1. c_filter' = c_filter \/ c_filter' = {"remote", "extended"}
  BY DEF Can!Next, Can!Transmit, Can!BusOff, Can!Receive, Can!Driver, Can!FDCAN_Init,
     Can!FDCAN_Send, Can!FDCAN_Read, Can!CallInit, Can!CallSend, Can!CallRead, Can!Call,
     Can!BadRate, Can!WaitExpires, Can!EnterInit, Can!Configure, Can!LeaveInit, Can!InitDone,
     Can!TestFull, Can!PutIndex, Can!WriteHead, Can!WriteBody, Can!Request, Can!TestEmpty,
     Can!GetIndex, Can!ReadHead, Can!Reject, Can!Supported, Can!ReadBody, Can!Release,
     Can!ctrl, cVars
<1> QED
  BY <1>1 DEF Filtered, Can!Kinds

\* No transfer has more bytes than its request, the register among them.
I2cSizes ==
    /\ i_bus.left <= MaxBytes + 1 /\ Len(i_dev.got) <= MaxBytes + 1 /\ i_dev.sent <= MaxBytes
    /\ i_bus.phase = "start" /\ i_bus.rd => i_bus.left <= MaxBytes
    /\ i_bus.phase \in {"tx", "sending"} => ~i_bus.rd
    /\ i_bus.phase = "rx" => i_bus.rd
    /\ i_bus.phase \in {"address", "tx", "sending"} /\ ~i_bus.rd =>
          i_bus.left + Len(i_dev.got) <= MaxBytes + 1
    /\ i_bus.phase \in {"address", "rx"} /\ i_bus.rd => i_bus.left + i_dev.sent <= MaxBytes

LEMMA I2cSizesInit == I2c!Init => I2cSizes
<1> SUFFICES ASSUME I2c!Init PROVE I2cSizes
  OBVIOUS
<1>1. i_bus.phase = "idle" /\ i_bus.left = 0
  BY DEF I2c!Init, I2c!Quiet
<1>2. \E r \in Regs : i_dev = [reg |-> r, got |-> <<>>, sent |-> 0, tag |-> 0]
  BY Zenon DEF I2c!Init
<1>3. i_dev.got = <<>> /\ i_dev.sent = 0
  BY <1>2
<1> QED
  BY <1>1, <1>3, DriversAssumption DEF I2cSizes

\* What a transfer begins with.
LEMMA I2cBeginSizes ==
  ASSUME I2cSizes, i_dev' = i_dev, i_bus'.phase = "start",
         i_bus'.left <= MaxBytes + 1, i_bus'.rd => i_bus'.left <= MaxBytes
  PROVE  I2cSizes'
BY DEF I2cSizes

LEMMA I2cSizesStep == I2cInv /\ I2cSizes /\ I2c!Next => I2cSizes'
<1> SUFFICES ASSUME I2cInv, I2cSizes, I2c!Next PROVE I2cSizes'
  OBVIOUS
<1>0. /\ i_bus.phase \in Phases /\ i_bus.rd \in BOOLEAN /\ i_bus.left \in Nat
      /\ i_dev.got \in Seq(Octets) /\ i_dev.sent \in Nat /\ Len(i_dev.got) \in Nat
      /\ i_bus \in Transfer /\ i_dev \in Device /\ MaxBytes \in Nat /\ i_txdr \in Octets
  BY I2cFacts, DriversAssumption DEF I2cInv, I2cTyped
<1>1. CASE I2c!Start
  <2>1. i_bus'.phase = "address" /\ i_bus'.rd = i_bus.rd /\ i_bus'.left = i_bus.left
    BY <1>0, <1>1 DEF I2c!Start, Transfer
  <2>2. i_dev'.got = <<>> /\ i_dev'.sent = 0 /\ Len(i_dev'.got) = 0
    BY <1>0, <1>1 DEF I2c!Start, Device
  <2> QED
    BY <1>0, <1>1, <2>1, <2>2 DEF I2c!Start, I2cSizes
<1>2. CASE I2c!AddressAcked
  <2>1. /\ i_bus'.phase = IF i_bus.rd THEN "rx" ELSE "tx"
        /\ i_bus'.rd = i_bus.rd /\ i_bus'.left = i_bus.left /\ i_dev' = i_dev
    BY <1>0, <1>2 DEF I2c!AddressAcked, Transfer
  <2> QED
    BY <1>0, <1>2, <2>1 DEF I2c!AddressAcked, I2cSizes
<1>3. CASE I2c!Nacked
  <2>1. /\ i_bus'.phase \in {"stop", "hold"}
        /\ i_bus'.rd = i_bus.rd /\ i_bus'.left = i_bus.left /\ i_dev' = i_dev
    BY <1>0, <1>3 DEF I2c!Nacked, Transfer
  <2> QED
    BY <1>0, <2>1 DEF I2cSizes
<1>4. CASE I2c!ByteAcked
  <2>1. /\ i_bus'.phase \in {"tx", "stop", "hold"}
        /\ i_bus'.rd = i_bus.rd /\ i_bus'.left = i_bus.left - 1
    BY <1>0, <1>4 DEF I2c!ByteAcked, Transfer
  <2>2. i_dev'.sent = i_dev.sent /\ i_dev'.got = Append(i_dev.got, i_txdr)
    BY <1>0, <1>4 DEF I2c!ByteAcked, Device
  <2>3. i_dev'.sent = i_dev.sent /\ Len(i_dev'.got) = Len(i_dev.got) + 1
    BY <1>0, <2>2
  <2>4. i_bus.left > 0 /\ i_bus.phase = "sending"
    BY <1>4 DEF I2c!ByteAcked, I2cInv, Signals
  <2>5. ~i_bus.rd /\ i_bus.left + Len(i_dev.got) <= MaxBytes + 1 /\ i_dev.sent <= MaxBytes
    BY <2>4 DEF I2cSizes
  <2> QED
    BY <1>0, <2>1, <2>3, <2>4, <2>5 DEF I2cSizes
<1>5. CASE I2c!ByteReceived
  <2>1. /\ i_bus'.phase \in {"rx", "stop"}
        /\ i_bus'.rd = i_bus.rd /\ i_bus'.left = i_bus.left - 1
    BY <1>0, <1>5 DEF I2c!ByteReceived, Transfer
  <2>2. i_dev'.sent = i_dev.sent + 1 /\ i_dev'.got = i_dev.got
    BY <1>0, <1>5 DEF I2c!ByteReceived, Device
  <2>3. i_bus.left > 0 /\ i_bus.phase = "rx"
    BY <1>5 DEF I2c!ByteReceived, I2cInv, Signals
  <2> QED
    BY <1>0, <2>1, <2>2, <2>3 DEF I2cSizes
<1>6. CASE I2c!Stop \/ I2c!I2C_Init
  <2>1. i_bus'.phase = "idle" /\ i_bus'.left = 0 /\ i_dev' = i_dev
    BY <1>6 DEF I2c!Stop, I2c!I2C_Init, I2c!Quiet
  <2> QED
    BY <1>0, <2>1 DEF I2cSizes
<1>7. CASE I2c!WriteCR2
  <2>1. i_req \in I2c!Requests /\ i_dev' = i_dev
    BY <1>7 DEF I2c!WriteCR2, I2c!Hardware, I2cInv, I2cTyped
  <2>2. i_req.n \in Nat /\ i_req.n <= MaxBytes /\ (i_req.op = "write" => i_req \in I2c!Writes)
    BY <1>0, <2>1 DEF I2c!Requests, I2c!Writes, I2c!Reads, I2c!RawReads
  <2>3. i_req.op = "write" => Len(I2c!Bytes(i_req)) = i_req.n + 1
    BY <2>2, BytesAre
  <2>4. /\ i_bus'.phase = "start"
        /\ \/ i_bus'.rd = FALSE /\ i_bus'.left = i_req.n + 1
           \/ i_bus'.rd = FALSE /\ i_bus'.left = 1
           \/ i_bus'.rd = TRUE /\ i_bus'.left = i_req.n
    BY <1>7, <2>3 DEF I2c!WriteCR2, I2c!Begin
  <2> QED
    BY <1>0, <2>1, <2>2, <2>4, I2cBeginSizes
<1>8. CASE I2c!Restart
  <2>1. i_req \in I2c!Requests /\ i_dev' = i_dev
    BY <1>8 DEF I2c!Restart, I2c!Hardware, I2cInv, I2cTyped
  <2>2. i_req.n \in Nat /\ i_req.n <= MaxBytes
    BY <1>0, <2>1 DEF I2c!Requests, I2c!Writes, I2c!Reads, I2c!RawReads
  <2>3. i_bus'.phase = "start" /\ i_bus'.rd = TRUE /\ i_bus'.left = i_req.n
    BY <1>8 DEF I2c!Restart, I2c!Begin
  <2> QED
    BY <1>0, <2>1, <2>2, <2>3, I2cBeginSizes
<1>9. ASSUME NEW b, I2c!Write(b), i_dev' = i_dev PROVE I2cSizes'
  <2>1. /\ i_bus'.phase = IF i_bus.phase = "tx" THEN "sending" ELSE i_bus.phase
        /\ i_bus'.rd = i_bus.rd /\ i_bus'.left = i_bus.left
    BY <1>0, <1>9 DEF I2c!Write, Transfer
  <2> QED
    BY <1>0, <1>9, <2>1 DEF I2cSizes
<1>10. CASE UNCHANGED <<i_bus, i_dev>>
  BY <1>10 DEF I2cSizes
<1>11. CASE I2c!MoveTX \/ I2c!MoveREG
  BY <1>9, <1>10, <1>11 DEF I2c!MoveTX, I2c!MoveREG, I2c!Hardware
<1> QED
  BY <1>1, <1>2, <1>3, <1>4, <1>5, <1>6, <1>7, <1>8, <1>10, <1>11
  DEF I2c!Next, I2c!Peripheral, I2c!Hang, I2c!Resume, I2c!Driver, I2c!WaitFree,
      I2c!I2C_ClearFlags, I2c!WaitUntilAny, I2c!Expire, I2c!CheckError, I2c!MoveRX, I2c!Ack,
      I2c!Call, I2c!Hardware, I2c!NoAccess

LEMMA I2cTypes == I2cInv /\ I2cSizes => I2c!TypeOK
<1> SUFFICES ASSUME I2cInv, I2cSizes PROVE I2c!TypeOK
  OBVIOUS
<1>1. i_bus.left \in 0 .. MaxBytes + 1 /\ Len(i_dev.got) <= MaxBytes + 1
      /\ i_dev.sent \in 0 .. MaxBytes
  BY I2cFacts, DriversAssumption DEF I2cSizes
<1> QED
  BY <1>1, I2cFacts DEF I2cInv, I2cTyped, I2c!TypeOK, Flags, Phases, I2c!ErrorFlags, I2c!Waits,
     Before, Closing

\* A read is in no call but SoftI2C_Write and SoftI2C_Read.
Drives == {Wires!Sda(0), Wires!Sda(1), Wires!Scl(0), Wires!Scl(1)}

LEMMA OpsAreDrives ==
  /\ <<>> \in Seq(Drives) /\ Wires!StartOps \in Seq(Drives) /\ Wires!StopOps \in Seq(Drives)
  /\ <<Wires!Sda(1), Wires!Scl(1)>> \in Seq(Drives)
  /\ <<Wires!Scl(1), Wires!Sda(1)>> \in Seq(Drives)
  /\ Wires!NineClocks \in Seq(Drives)
  /\ \A o \in Wires!Bit : Wires!RecoverOps(o) \in Seq(Drives)
<1>1. <<>> \in Seq(Drives)
  OBVIOUS
<1>2. Wires!StartOps \in Seq(Drives) /\ Wires!StopOps \in Seq(Drives)
  BY DEF Drives, Wires!StartOps, Wires!StopOps
<1>3. /\ <<Wires!Sda(1), Wires!Scl(1)>> \in Seq(Drives)
      /\ <<Wires!Scl(1), Wires!Sda(1)>> \in Seq(Drives)
      /\ <<Wires!Sda(0), Wires!Scl(1), Wires!Sda(1)>> \in Seq(Drives)
  BY DEF Drives
<1>4. Wires!NineClocks \in Seq(Drives)
  <2>1. {Wires!Scl(0), Wires!Scl(1)} \subseteq Drives
    BY DEF Drives
  <2> QED
    BY <2>1, NineClocksAre
<1>5. ASSUME NEW o \in Wires!Bit PROVE Wires!RecoverOps(o) \in Seq(Drives)
  <2>1. Wires!Sda(o) \in Drives /\ Wires!Scl(o) \in Drives
    BY Pins DEF Drives
  <2>2. Wires!Outputs(o) \in Seq(Drives)
    BY <2>1 DEF Drives, Wires!Outputs
  <2> QED
    BY <1>3, <1>4, <2>2 DEF Wires!RecoverOps
<1> QED
  BY <1>1, <1>2, <1>3, <1>4, <1>5

LEMMA WriteOpsTyped == ASSUME NEW b \in Wires!Bytes PROVE Wires!WriteOps(b) \in Seq(Accesses)
<1>1. <<Wires!Sda(1), Wires!Scl(1), Wires!I2C_READ, Wires!Scl(0)>> \in Seq(Accesses)
  BY DEF Accesses
<1>2. Wires!BitOps(b) \in Seq(Accesses)
  BY BitOpsAre
<1> QED
  BY <1>1, <1>2 DEF Wires!WriteOps

LEMMA ReadOpsTyped == ASSUME NEW a \in Wires!Bit PROVE Wires!ReadOps(a) \in Seq(Accesses)
<1> DEFINE p == <<Wires!Scl(1), Wires!I2C_READ, Wires!Scl(0)>>
           t == Wires!Repeat(Bits, p)
<1>1. /\ <<Wires!Sda(1)>> \in Seq(Accesses)
      /\ <<Wires!Sda(a), Wires!Scl(1), Wires!Scl(0), Wires!Sda(1)>> \in Seq(Accesses)
  BY Pins DEF Accesses
<1>2. Len(p) = 3 /\ p[1] \in Accesses /\ p[2] \in Accesses /\ p[3] \in Accesses
  BY DEF Accesses
<1>3. Bits * 3 \in Nat
  BY DriversAssumption
<1>4. t = [i \in 1 .. Bits * 3 |-> p[1 + ((i - 1) % 3)]]
  BY <1>2 DEF Wires!Repeat
<1> HIDE DEF p, t
<1>5. ASSUME NEW i \in 1 .. Bits * 3 PROVE p[1 + ((i - 1) % 3)] \in Accesses
  <2>1. 1 + ((i - 1) % 3) \in {1, 2, 3}
    BY <1>3
  <2> QED
    BY <1>2, <2>1
<1>6. t \in Seq(Accesses)
  BY <1>3, <1>4, <1>5
<1> QED
  BY <1>1, <1>6 DEF Wires!ReadOps, t, p

\* What a call has read, where WireInv does not say it, and the byte of a
\* device that does not take part.
WireSizes ==
    /\ w_dev.mode \in {"idle", "start", "deaf"} => w_dev.byte = <<>>
    /\ w_call = "write" /\ w_made = 3 * Bits + 4 => Len(w_bits) = 1
    /\ w_call = "read" /\ w_made \in {3 * Bits + 4, 3 * Bits + 5} => Len(w_bits) = Bits
    /\ w_call \notin {"write", "read"} => w_bits = <<>>

LEMMA WireSizesInit == Wires!Init => WireSizes
BY DEF Wires!Init, Wires!Idle, WireSizes

LEMMA CallOps ==
  ASSUME WireInv
  PROVE  /\ w_call \notin {"write", "read"} => w_ops \in Seq(Drives)
         /\ w_ops \in Seq(Accesses)
<1>1. w_call \notin {"write", "read"} => w_ops \in Seq(Drives)
  <2>1. w_call = "recover" => w_arg[1] \in Wires!Bit
    BY Pins DEF WireInv, Calls, RecoverAt
  <2> QED
    BY <2>1, OpsAreDrives DEF WireInv, Calls, StartAt, StopAt, RecoverAt, ClocksAt, ResetAt
<1>2. w_call = "write" => w_ops \in Seq(Accesses)
  BY WriteOpsTyped DEF WireInv, Calls, WriteAt
<1>3. w_call = "read" => w_ops \in Seq(Accesses)
  <2>1. w_call = "read" => w_arg[1] \in Wires!Bit
    BY Pins DEF WireInv, Calls, ReadAt
  <2> QED
    BY <2>1, ReadOpsTyped DEF WireInv, Calls, ReadAt
<1>4. Drives \subseteq Accesses
  BY DEF Drives, Accesses
<1>5. w_call \notin {"write", "read"} => w_ops \in Seq(Accesses)
  BY <1>1, <1>4
<1> QED
  BY <1>1, <1>2, <1>3, <1>5

LEMMA FirstLength == ASSUME NEW b, NEW n \in Nat PROVE Len(First(b, n)) = n
BY DEF First

LEMMA WireSizesStep == WireInv /\ WireSizes /\ Wires!Next => WireSizes'
<1> SUFFICES ASSUME WireInv, WireSizes, Wires!Next PROVE WireSizes'
  OBVIOUS
<1>1. WiresTyped /\ DevRight /\ Bits \in Nat /\ w_made \in Nat
  BY DriversAssumption DEF WireInv, WiresTyped
<1>2. CASE Wires!Call \/ Wires!Reset
  <2>1. w_made' = 0 /\ w_bits' = <<>> /\ w_dev' = w_dev
    BY <1>2 DEF Wires!Reset, Wires!Call, Wires!SoftI2C_Start, Wires!SoftI2C_Stop,
       Wires!SoftI2C_Write, Wires!SoftI2C_Read, Wires!I2C_BusRecover, Wires!I2C_Init_F103,
       Wires!Begin
  <2>2. w_made' # 3 * Bits + 4 /\ w_made' # 3 * Bits + 5
    BY <1>1, <2>1
  <2> QED
    BY <2>1, <2>2 DEF WireSizes
<1>3. CASE Wires!Access
  <2>1. /\ w_made < Len(w_ops) /\ w_made' = w_made + 1 /\ w_ops' = w_ops
        /\ w_call' = w_call /\ w_arg' = w_arg
    BY <1>3, Moves
  <2>2. w_dev'.mode \in {"idle", "start", "deaf"} => w_dev'.byte = <<>>
    <3>1. CASE w_dev' = w_dev
      BY <3>1 DEF WireSizes
    <3>2. ASSUME NEW v \in Wires!Bit, Wires!I2C_SDA(v)
          PROVE  w_dev' = w_dev \/ w_dev'.byte = <<>>
      <4>1. Wires!Idle.byte = <<>>
        BY DEF Wires!Idle
      <4>2. v \in {0, 1} /\ w_sda \in {0, 1} /\ w_scl \in {0, 1} /\ w_dev.out \in {0, 1}
        BY <1>1 DEF WiresTyped, Target, Wires!Bit
      <4> QED
        BY <1>1, <3>2, <4>1, <4>2, SdaMoves
    <3>3. ASSUME NEW v \in Wires!Bit, Wires!I2C_SCL(v)
          PROVE  \/ w_dev' = w_dev
                 \/ w_dev'.mode \in {"idle", "start", "deaf"} => w_dev'.byte = <<>>
      <4>1. v \in {0, 1} /\ w_scl \in {0, 1} /\ w_dev.mode \in Modes /\ w_dev.bit \in 0 .. Bits + 1
        BY <1>1 DEF WiresTyped, Target, Wires!Bit
      <4>2. CASE v = w_scl
        BY <1>1, <3>3, <4>2, SclMoves
      <4>3. CASE v = 1 /\ w_scl = 0
        <5>1. Risen
          BY <1>1, <3>3, <4>3, SclMoves
        <5> QED
          BY <5>1 DEF Risen, WireSizes
      <4>4. CASE v = 0 /\ w_scl = 1
        <5>1. Fallen
          BY <1>1, <3>3, <4>4, SclMoves
        <5>2. w_dev.bit <= Bits \/ w_dev.bit = Bits + 1
          BY <1>1, <4>1
        <5> QED
          BY <4>1, <5>1, <5>2 DEF Fallen, Receives, BitOn, ByteOn, Modes
      <4> QED
        BY <4>1, <4>2, <4>3, <4>4
    <3> QED
      BY <1>3, <3>1, <3>2, <3>3 DEF Wires!Access
  <2>3. ASSUME w_ops[w_made + 1] \in Drives PROVE w_bits' = w_bits
    BY <1>3, <2>3, OnSda, OnScl, Pins DEF Drives
  <2>4. ASSUME w_call \notin {"write", "read"} PROVE w_bits' = <<>>
    <3>1. w_ops \in Seq(Drives)
      BY <2>4, CallOps
    <3>2. w_made + 1 \in 1 .. Len(w_ops)
      BY <1>1, <2>1, <3>1
    <3>3. w_ops[w_made + 1] \in Drives
      BY <3>1, <3>2
    <3> QED
      BY <2>3, <2>4, <3>3 DEF WireSizes
  <2>5. ASSUME w_call = "write", w_made' = 3 * Bits + 4 PROVE Len(w_bits') = 1
    <3>1. w_made = 3 * Bits + 3 /\ w_made + 1 = 3 * Bits + 4
      BY <1>1, <2>1, <2>5
    <3>2. WriteAt
      BY <2>5 DEF WireInv, Calls
    <3>3. w_ops[w_made + 1] = Wires!Scl(0)
      BY <3>1, <3>2, WriteOpsAre DEF WriteAt
    <3>4. w_bits' = w_bits /\ w_bits = <<w_dev.out>>
      BY <2>3, <3>1, <3>2, <3>3 DEF Drives, WriteAt
    <3> QED
      BY <3>4
  <2>6. ASSUME w_call = "read", w_made' \in {3 * Bits + 4, 3 * Bits + 5} PROVE Len(w_bits') = Bits
    <3>1. ReadAt /\ w_arg[1] \in Wires!Bit
      BY <2>6, Pins DEF WireInv, Calls, ReadAt
    <3>2. CASE w_made' = 3 * Bits + 4
      <4>1. w_made = 3 * Bits + 3 /\ w_made + 1 = 3 * Bits + 4
        BY <1>1, <2>1, <3>2
      <4>2. w_ops[w_made + 1] = Wires!Scl(0)
        BY <3>1, <4>1, ReadOpsAre DEF ReadAt
      <4>3. w_bits' = w_bits /\ w_bits = First(w_dev.byte, Bits)
        BY <2>3, <3>1, <4>1, <4>2 DEF Drives, ReadAt, Given
      <4> QED
        BY <1>1, <4>3, FirstLength
    <3>3. CASE w_made' = 3 * Bits + 5
      <4>1. w_made = 3 * Bits + 4 /\ w_made + 1 = 3 * Bits + 5
        BY <1>1, <2>1, <3>3
      <4>2. w_ops[w_made + 1] = Wires!Sda(1)
        BY <3>1, <4>1, ReadOpsAre DEF ReadAt
      <4>3. w_bits' = w_bits /\ Len(w_bits) = Bits
        BY <2>3, <2>6, <4>1, <4>2 DEF Drives, WireSizes
      <4> QED
        BY <4>3
    <3> QED
      BY <2>6, <3>2, <3>3
  <2> QED
    BY <2>1, <2>2, <2>4, <2>5, <2>6 DEF WireSizes
<1> QED
  BY <1>2, <1>3 DEF Wires!Next

LEMMA WireTypes == WireInv /\ WireSizes => Wires!TypeOK
<1> SUFFICES ASSUME WireInv, WireSizes PROVE Wires!TypeOK
  OBVIOUS
<1>1. /\ WiresTyped /\ DevRight /\ Bits \in Nat /\ Bits >= 1 /\ w_made \in Nat /\ w_made <= Len(w_ops)
      /\ w_dev \in Target /\ w_bits \in Seq(Wires!Bit)
  BY DriversAssumption DEF WireInv, WiresTyped, Calls
<1>2. w_ops \in Seq({Wires!Sda(v) : v \in Wires!Bit} \cup {Wires!Scl(v) : v \in Wires!Bit}
                    \cup {Wires!I2C_READ})
  <2>1. Accesses \subseteq {Wires!Sda(v) : v \in Wires!Bit} \cup {Wires!Scl(v) : v \in Wires!Bit}
                           \cup {Wires!I2C_READ}
    BY Pins DEF Accesses
  <2> QED
    BY <2>1, CallOps
<1>3. w_made \in 0 .. Len(w_ops)
  BY <1>1, <1>2
<1>4. /\ w_dev.mode \in Modes /\ w_dev.bit \in 0 .. Bits + 1 /\ w_dev.out \in Wires!Bit
      /\ w_dev.ack \in Wires!Bit /\ w_dev.byte \in Seq(Wires!Bit)
      /\ w_dev.mode \in {"idle", "start", "deaf"} => w_dev.out = 1
  BY <1>1 DEF Target, DevRight
<1>5. Len(w_dev.byte) <= Bits
  <2>1. CASE w_dev.mode \in {"idle", "start", "deaf"}
    BY <1>1, <2>1 DEF WireSizes
  <2>2. CASE w_dev.mode = "receive"
    BY <1>1, <1>4, <2>2 DEF DevRight
  <2>3. CASE w_dev.mode = "send"
    BY <1>1, <2>3, BytesAreSequences DEF DevRight
  <2> QED
    BY <1>4, <2>1, <2>2, <2>3 DEF Modes
<1>6. Len(w_bits) <= Bits
  <2>1. CASE w_call \notin {"write", "read"}
    BY <1>1, <2>1 DEF WireSizes
  <2>2. CASE w_call = "write"
    <3>1. WriteAt /\ w_made <= 3 * Bits + 4
      BY <2>2, WriteOpsAre DEF WireInv, Calls, WriteAt
    <3>2. CASE w_made < 3 * Bits
      <4>1. w_made \in 0 .. 3 * Bits - 1
        BY <1>1, <3>2
      <4>2. PICK q \in 0 .. Bits - 1 : w_made = 3 * q \/ w_made = 3 * q + 1 \/ w_made = 3 * q + 2
        BY <4>1, WhichOfThree
      <4>3. q \in 0 .. Bits
        BY <1>1
      <4>4. w_bits = <<>>
        BY <3>1, <4>2, <4>3 DEF WriteAt, Arrived
      <4> QED
        BY <1>1, <4>4
    <3>3. CASE w_made = 3 * Bits \/ w_made = 3 * Bits + 1 \/ w_made = 3 * Bits + 2
      <4>1. Bits \in 0 .. Bits
        BY <1>1
      <4>2. w_bits = <<>>
        BY <3>1, <3>3, <4>1 DEF WriteAt, Arrived
      <4> QED
        BY <1>1, <4>2
    <3>4. CASE w_made = 3 * Bits + 3
      <4>1. w_bits = <<w_dev.out>>
        BY <3>1, <3>4 DEF WriteAt
      <4> QED
        BY <1>1, <4>1
    <3>5. CASE w_made = 3 * Bits + 4
      BY <1>1, <2>2, <3>5 DEF WireSizes
    <3> QED
      BY <1>1, <3>1, <3>2, <3>3, <3>4, <3>5
  <2>3. CASE w_call = "read"
    <3>1. ReadAt /\ w_made <= 3 * Bits + 5
      <4>1. ReadAt /\ w_arg[1] \in Wires!Bit
        BY <2>3, Pins DEF WireInv, Calls, ReadAt
      <4> QED
        BY <1>1, <4>1, ReadOpsAre DEF ReadAt
    <3>2. \A q \in 0 .. Bits : Given(q) => Len(w_bits) <= Bits
      BY <1>1, FirstLength DEF Given
    <3>3. CASE w_made = 0
      <4>1. 0 \in 0 .. Bits
        BY <1>1
      <4> QED
        BY <3>1, <3>2, <3>3, <4>1 DEF ReadAt
    <3>4. CASE w_made > 0 /\ w_made <= 3 * Bits
      <4>1. w_made - 1 \in 0 .. 3 * Bits - 1
        BY <1>1, <3>4
      <4>2. PICK q \in 0 .. Bits - 1 :
               w_made - 1 = 3 * q \/ w_made - 1 = 3 * q + 1 \/ w_made - 1 = 3 * q + 2
        BY <4>1, WhichOfThree
      <4>3. w_made = 3 * q + 1 \/ w_made = 3 * q + 2 \/ w_made = 3 * q + 3
        BY <1>1, <4>2
      <4>4. q \in 0 .. Bits /\ q + 1 \in 0 .. Bits
        BY <1>1
      <4> QED
        BY <3>1, <3>2, <4>3, <4>4 DEF ReadAt
    <3>5. CASE w_made = 3 * Bits + 1 \/ w_made = 3 * Bits + 2 \/ w_made = 3 * Bits + 3
      <4>1. Bits \in 0 .. Bits
        BY <1>1
      <4> QED
        BY <3>1, <3>2, <3>5, <4>1 DEF ReadAt
    <3>6. CASE w_made = 3 * Bits + 4 \/ w_made = 3 * Bits + 5
      BY <1>1, <2>3, <3>6 DEF WireSizes
    <3> QED
      BY <1>1, <3>1, <3>3, <3>4, <3>5, <3>6
  <2> QED
    BY <2>1, <2>2, <2>3
<1> QED
  BY <1>1, <1>2, <1>3, <1>4, <1>5, <1>6 DEF Wires!TypeOK, WireInv, WiresTyped, Calls, States, Modes

-----------------------------------------------------------------------------
(* The theorems                                                            *)

LEMMA AllBegin == MCInit => FlashInv /\ ExtInv /\ CanInv /\ I2cInv /\ WireInv
BY FlashInit, ExtInit, CanInit, I2cInit, WireStart DEF MCInit

LEMMA EachMoves ==
  [MCNext]_all => /\ [Next]_vars
                  /\ Flash!Next \/ UNCHANGED fVars
                  /\ Ext!Next \/ UNCHANGED eVars
                  /\ Can!Next \/ UNCHANGED cVars
                  /\ I2c!Next \/ UNCHANGED iVars
                  /\ Wires!Next \/ UNCHANGED wVars
BY DEF MCNext, all

LEMMA AllHold == MCSpec => [](FlashInv /\ ExtInv /\ CanInv /\ I2cInv /\ WireInv)
<1> DEFINE Inv == FlashInv /\ ExtInv /\ CanInv /\ I2cInv /\ WireInv
<1>1. Inv /\ [MCNext]_all => Inv'
  BY EachMoves, FlashStep, FlashSame, ExtStep, ExtSame, CanStep, CanSame, I2cStep, I2cSame, WireMoves
<1> QED
  BY AllBegin, <1>1, PTL DEF MCSpec

\* Each variable keeps its type: no FIFO, register, byte count or sequence of
\* accesses leaves its bounds, in any of the six drivers.
THEOREM DriversTypes == MCSpec => []DriversTypeOK
<1> DEFINE Types == /\ BusInv /\ FlowInv /\ Sizes
                    /\ ExtTyped /\ Filtered /\ I2cSizes /\ WireSizes
           Invs  == FlashInv /\ ExtInv /\ CanInv /\ I2cInv /\ WireInv
<1>1. MCInit => Types
  <2> SUFFICES ASSUME MCInit PROVE Types
    OBVIOUS
  <2>1. BusInv /\ FlowInv
    BY InitBus, InitFlow DEF MCInit
  <2>2. Sizes
    BY SpiAssumption DEF MCInit, Init, Sizes
  <2>3. Filtered
    BY DEF MCInit, Can!Init, Filtered
  <2>4. ExtTyped /\ I2cSizes /\ WireSizes
    BY ExtTypedInit, I2cSizesInit, WireSizesInit DEF MCInit
  <2> QED
    BY <2>1, <2>2, <2>3, <2>4
<1>2. Invs /\ Types /\ [MCNext]_all => Types'
  <2> SUFFICES ASSUME Invs, Types, [MCNext]_all PROVE Types'
    OBVIOUS
  <2>0. /\ [Next]_vars /\ (Ext!Next \/ UNCHANGED eVars) /\ (Can!Next \/ UNCHANGED cVars)
        /\ (I2c!Next \/ UNCHANGED iVars) /\ (Wires!Next \/ UNCHANGED wVars)
    BY EachMoves
  <2>1. (BusInv /\ FlowInv /\ Sizes)'
    BY <2>0, NextBus, NextFlow, NextSizes
  <2>2. ExtTyped'
    BY <2>0, ExtTypedStep DEF eVars, ExtTyped
  <2>3. Filtered'
    BY <2>0, FilteredStep
  <2>4. I2cSizes'
    BY <2>0, I2cSizesStep DEF iVars, I2cSizes
  <2>5. WireSizes'
    BY <2>0, WireSizesStep DEF wVars, WireSizes
  <2> QED
    BY <2>1, <2>2, <2>3, <2>4, <2>5
<1>3. Invs /\ Types => DriversTypeOK
  <2> SUFFICES ASSUME Invs, Types PROVE DriversTypeOK
    OBVIOUS
  <2>1. TypeOK /\ I2c!TypeOK /\ Flash!TypeOK /\ Wires!TypeOK
    BY TypesAre, I2cTypes, FlashHolds, WireTypes
  <2>2. Can!TypeOK
    BY DEF CanInv, CanTyped, Filtered, Can!TypeOK
  <2>3. Ext!TypeOK
    BY AtMoves DEF ExtTyped, Ext!TypeOK
  <2> QED
    BY <2>1, <2>2, <2>3 DEF DriversTypeOK
<1> QED
  BY <1>1, <1>2, <1>3, AllHold, PTL DEF MCSpec

\* What a call returns is true as far as the calls before it let it be.  An I2C
\* read that returns true has the bytes the device has sent for it, in order,
\* behind at most one byte that was left in RXDR, and behind none while no wait
\* has expired since I2C_Init; a write has been acknowledged byte for byte; a
\* failure has a cause during the call or a bus that an expired wait has left
\* busy (i2c_g0.c:148-282).  A flash call that returns 0 has had its whole
\* effect, anything else has a cause of its own.
THEOREM CallsAreTruthful == MCSpec => []Truthful
<1>1. FlashInv /\ I2cInv => Truthful
  BY FlashHolds, I2cHolds DEF Truthful
<1> QED
  BY <1>1, AllHold, PTL

\* No handler fetches its code while the flash is busy or in a mode, and every
\* call leaves it at rest, whatever has failed (flash_ll_g0.c:147-206).
THEOREM FlashIsUndisturbed == MCSpec => []Undisturbed
<1>1. FlashInv => Undisturbed
  BY FlashHolds DEF Undisturbed
<1> QED
  BY <1>1, AllHold, PTL

\* An edge stays pending until its handler is called, with two exceptions that
\* the code makes: extiClearFlag clears what it has loaded (40-43), and an edge
\* that comes while the handler of its own line runs goes with the bit cleared
\* behind it (61).  No other line's dispatch takes it (exti_f103.c:55-64).
THEOREM NoEdgeIsLost == MCSpec => []EdgesKept
<1>1. ExtInv => EdgesKept
  BY DEF ExtInv, EdgesKept
<1> QED
  BY <1>1, AllHold, PTL

\* Whatever the byte and whatever the device, a SoftI2C_Write that is
\* acknowledged has given it the byte, SoftI2C_Read returns the byte it sent,
\* and a STOP frees the wires.  So does I2C_BusRecover after a reset, wherever in
\* a byte the device was, and whatever ODR holds, unless the device was
\* acknowledging or taking its address and ODR holds ones (Spared); the nine
\* clocks of I2C_Init free them but in those two cases
\* (soft_i2c.c:16-86, i2c_g0.c:64-91, i2c_f103.c:13-20).
THEOREM WiresAreRight == MCSpec => []WiresRight
<1>1. WireInv => WiresRight
  BY WireHolds DEF WiresRight
<1> QED
  BY <1>1, AllHold, PTL

\* Frames pass the FIFOs whole, once and in order, although the driver goes
\* through an element word by word beside the controller.
THEOREM FramesPassInOrder == MCSpec => FramesInOrder
<1>1. CanInv /\ [MCNext]_all => SendStep /\ ReadStep
  BY EachMoves, CanStep, CanSame
<1>2. SendStep =>
        [\/ \E f \in Frames : Can!ToSend' = Append(Can!ToSend, Can!Whole(f, "data"))
         \/ Can!ToSend # <<>> /\ Can!ToSend' = Tail(Can!ToSend)
         \/ c_init /\ Can!ToSend' = <<>>]_(Can!ToSend)
  BY DEF SendStep
<1>3. ReadStep =>
        [\/ \E f \in Frames, kind \in Can!Kinds :
               Can!Received' = Append(Can!Received, Can!Whole(f, kind))
         \/ /\ Can!Received # <<>> /\ Can!Received' = Tail(Can!Received)
            /\ c_res' = 1 => c_frame' = Head(Can!Received)
         \/ c_init /\ Can!Received' = <<>>]_(Can!Received)
  BY DEF ReadStep
<1> QED
  BY <1>1, <1>2, <1>3, AllHold, PTL DEF MCSpec, FramesInOrder, Can!FramesInOrder,
     Can!SentInOrder, Can!ReadInOrder

-----------------------------------------------------------------------------
(* How long an I2C call can be.  A round of a loop is a wait, its check and *)
(* an access; nothing the peripheral answers makes the driver go round     *)
(* once more than the request says.                                        *)

\* Rounds ahead of a stage, its own included; the last is I2C_WaitStop.
ToGo == [REG |-> i_req.n + 2, TC |-> i_req.n + 1, TX |-> i_req.n + 1 - Len(i_buf),
         RX |-> i_req.n - Len(i_buf), STOP |-> 0]

AtRound == IF i_pc \in I2c!Waits THEN 3 ELSE IF i_pc = "check" THEN 2 ELSE 1

\* Steps the driver has left at most, and the peripheral before it needs the
\* driver again.
StepsLeft == IF Stage # "none" THEN 3 * ToGo[Stage] + AtRound
             ELSE IF i_pc = "idle" THEN 0
             ELSE 3 * i_req.n + [free |-> 12, clear |-> 11, start |-> 10][i_pc]

BusSteps == [start |-> i_bus.left + 3, address |-> i_bus.left + 2, rx |-> i_bus.left + 1,
             sending |-> 2, stop |-> 1, idle |-> 0, tx |-> 0, hold |-> 0][i_bus.phase]

LEMMA StageIs ==
  /\ i_pc \in I2c!Waits => Stage = i_pc
  /\ i_pc \in {"check", "move"} => Stage = i_wait
  /\ i_pc = "restart" => Stage = "TC"
  /\ i_pc = "ack" => Stage = "STOP"
  /\ i_pc \in {"idle", "free", "clear", "start"} => Stage = "none"
BY DEF Stage, I2c!Waits

LEMMA StageIsNext ==
  /\ i_pc' \in I2c!Waits => Stage' = i_pc'
  /\ i_pc' \in {"check", "move"} => Stage' = i_wait'
  /\ i_pc' = "restart" => Stage' = "TC"
  /\ i_pc' = "ack" => Stage' = "STOP"
  /\ i_pc' \in {"idle", "free", "clear", "start"} => Stage' = "none"
BY DEF Stage, I2c!Waits

\* A call has a number of steps left, none of them negative.
LEMMA ToGoIs ==
  ASSUME I2cInv, Stage # "none"
  PROVE  /\ i_req.n \in Nat /\ ToGo[Stage] \in Nat /\ AtRound \in 1 .. 3
         /\ Stage \in {"TX", "RX"} => ToGo[Stage] > 0
         /\ StepsLeft = 3 * ToGo[Stage] + AtRound
<1>1. i_req.n \in Nat /\ Len(i_buf) \in Nat /\ Stage \in {"REG", "TC", "TX", "RX", "STOP"}
  BY I2cFacts DEF I2c!Waits
<1>2. Stage = "TX" => Len(i_buf) < i_req.n + 1
  BY DEF I2cInv, WriteCall, Knows
<1>3. Stage = "RX" => Len(i_buf) < i_req.n
  BY DEF I2cInv, ReadCall, Fetching
<1>4. ToGo[Stage] \in Nat /\ (Stage \in {"TX", "RX"} => ToGo[Stage] > 0)
  BY <1>1, <1>2, <1>3 DEF ToGo
<1> QED
  BY <1>1, <1>4 DEF StepsLeft, AtRound

LEMMA BeforeIs ==
  ASSUME I2cInv, Stage = "none"
  PROVE  /\ i_pc = "idle" => StepsLeft = 0
         /\ i_pc = "free" => StepsLeft = 3 * i_req.n + 12 /\ i_req.n \in Nat
         /\ i_pc = "clear" => StepsLeft = 3 * i_req.n + 11 /\ i_req.n \in Nat
         /\ i_pc = "start" => StepsLeft = 3 * i_req.n + 10 /\ i_req.n \in Nat
BY RequestsAre DEF I2cInv, I2cTyped, StepsLeft

\* The driver comes to the next place of the same round.
LEMMA SameRound ==
  ASSUME I2cInv, Stage # "none", Stage' = Stage, AtRound' \in Nat, AtRound' < AtRound,
         UNCHANGED <<i_req, i_buf>>
  PROVE  StepsLeft' < StepsLeft
<1>1. ToGo' = ToGo
  BY DEF ToGo
<1>2. StepsLeft' = 3 * ToGo[Stage] + AtRound'
  BY <1>1 DEF StepsLeft
<1> QED
  BY <1>2, ToGoIs

\* Or to the wait of a later one.
LEMMA NextRound ==
  ASSUME I2cInv, Stage # "none", i_pc' \in I2c!Waits,
         ToGo'[i_pc'] \in Nat, ToGo'[i_pc'] < ToGo[Stage]
  PROVE  StepsLeft' < StepsLeft
<1>1. Stage' = i_pc' /\ Stage' # "none" /\ AtRound' = 3
  BY StageIsNext DEF AtRound, I2c!Waits
<1>2. StepsLeft' = 3 * ToGo'[i_pc'] + 3
  BY <1>1 DEF StepsLeft
<1> QED
  BY <1>2, ToGoIs

\* Or the call is over.
LEMMA OverIsLess ==
  ASSUME I2cInv, i_pc # "idle", i_pc' = "idle"
  PROVE  StepsLeft' < StepsLeft
<1>1. StepsLeft' = 0
  BY StageIsNext DEF StepsLeft
<1>2. CASE Stage # "none"
  BY <1>1, <1>2, ToGoIs
<1>3. CASE Stage = "none"
  <2>1. i_pc \in {"free", "clear", "start"}
    BY <1>3, I2cFacts DEF Before
  <2> QED
    BY <1>1, <1>3, <2>1, BeforeIs
<1> QED
  BY <1>2, <1>3

LEMMA DriverStep == I2cInv /\ I2c!Driver => StepsLeft' < StepsLeft
<1> SUFFICES ASSUME I2cInv, I2c!Driver PROVE StepsLeft' < StepsLeft
  OBVIOUS
<1>1. CASE I2c!WaitFree
  <2>1. i_pc = "free" /\ i_pc' = "clear" /\ i_req' = i_req
    BY <1>1 DEF I2c!WaitFree, I2c!Goto
  <2> QED
    BY <2>1, StageIs, StageIsNext, BeforeIs DEF StepsLeft
<1>2. CASE I2c!I2C_ClearFlags
  <2>1. i_pc = "clear" /\ i_pc' = "start" /\ i_req' = i_req
    BY <1>2 DEF I2c!I2C_ClearFlags, I2c!Goto
  <2> QED
    BY <2>1, StageIs, StageIsNext, BeforeIs DEF StepsLeft
<1>3. CASE I2c!WriteCR2
  <2>1. i_pc = "start" /\ i_pc' \in {"TX", "REG", "RX"} /\ UNCHANGED <<i_req, i_buf>>
    BY <1>3 DEF I2c!WriteCR2, I2c!Goto
  <2>2. i_buf = <<>> /\ Len(i_buf) = 0 /\ i_req.n \in Nat /\ StepsLeft = 3 * i_req.n + 10
    BY <2>1, StageIs, BeforeIs DEF I2cInv, Knows
  <2>3. ToGo'[i_pc'] \in {i_req.n, i_req.n + 1, i_req.n + 2}
    BY <2>1, <2>2 DEF ToGo
  <2>4. StepsLeft' = 3 * ToGo'[i_pc'] + 3
    BY <2>1, StageIsNext DEF StepsLeft, AtRound, I2c!Waits
  <2> QED
    BY <2>2, <2>3, <2>4
<1>4. CASE I2c!WaitUntilAny
  <2>1. i_pc \in I2c!Waits /\ i_wait' = i_pc /\ i_pc' = "check" /\ UNCHANGED <<i_req, i_buf>>
    BY <1>4 DEF I2c!WaitUntilAny
  <2>2. Stage' = Stage /\ Stage # "none" /\ AtRound = 3 /\ AtRound' = 2
    BY <2>1, StageIs, StageIsNext DEF AtRound, I2c!Waits
  <2> QED
    BY <2>1, <2>2, SameRound
<1>5. CASE I2c!Expire
  <2>1. i_pc # "idle" /\ i_pc' = "idle"
    BY <1>5 DEF I2c!Expire, I2c!Return, I2c!Waits
  <2> QED
    BY <2>1, OverIsLess
<1>6. CASE I2c!CheckError
  <2>1. CASE i_pc' = "idle"
    BY <1>6, <2>1, OverIsLess DEF I2c!CheckError
  <2>2. CASE i_pc' # "idle"
    <3>1. /\ i_pc = "check" /\ UNCHANGED <<i_wait, i_req, i_buf>>
          /\ i_pc' = (IF i_wait = "STOP" THEN "ack" ELSE IF i_wait = "TC" THEN "restart" ELSE "move")
      BY <1>6, <2>2 DEF I2c!CheckError, I2c!Goto, I2c!Return
    <3>2. Stage' = Stage /\ Stage # "none" /\ AtRound = 2 /\ AtRound' = 1
      BY <3>1, StageIs, StageIsNext, I2cFacts DEF AtRound, I2c!Waits
    <3> QED
      BY <3>1, <3>2, SameRound
  <2> QED
    BY <2>1, <2>2
<1>7. CASE I2c!MoveTX
  <2>1. CASE i_pc' = "idle"
    BY <1>7, <2>1, OverIsLess DEF I2c!MoveTX
  <2>2. CASE i_pc' # "idle"
    <3>1. /\ Stage = "TX" /\ i_req.op = "write" /\ i_req' = i_req
          /\ i_buf' = Append(i_buf, I2c!Bytes(i_req)[Len(i_buf) + 1])
          /\ i_pc' = IF Len(i_buf) + 1 < Len(I2c!Bytes(i_req)) THEN "TX" ELSE "STOP"
      BY <1>7, <2>2, StageIs DEF I2c!MoveTX, I2c!Return, I2cInv, Knows
    <3>2. /\ Len(i_buf) \in Nat /\ i_req.n \in Nat /\ Len(i_buf) < i_req.n + 1
          /\ Len(I2c!Bytes(i_req)) = i_req.n + 1
      BY <3>1, I2cFacts, RequestsAre, BytesAre DEF I2cInv, WriteCall
    <3>3. Len(i_buf') = Len(i_buf) + 1
      BY <3>1, I2cFacts
    <3>4. i_pc' \in I2c!Waits /\ ToGo'[i_pc'] \in Nat /\ ToGo'[i_pc'] < ToGo[Stage]
      BY <3>1, <3>2, <3>3 DEF ToGo, I2c!Waits
    <3> QED
      BY <3>1, <3>4, NextRound
  <2> QED
    BY <2>1, <2>2
<1>8. CASE I2c!MoveREG
  <2>1. i_pc' = "TC" /\ Stage = "REG" /\ UNCHANGED <<i_req, i_buf>>
    BY <1>8, StageIs DEF I2c!MoveREG, I2c!Goto
  <2>2. i_pc' \in I2c!Waits /\ ToGo'[i_pc'] \in Nat /\ ToGo'[i_pc'] < ToGo[Stage]
    BY <2>1, I2cFacts DEF ToGo, I2c!Waits
  <2> QED
    BY <2>1, <2>2, NextRound
<1>9. CASE I2c!MoveRX
  <2>1. CASE i_pc' = "idle"
    BY <1>9, <2>1, OverIsLess DEF I2c!MoveRX
  <2>2. CASE i_pc' # "idle"
    <3>1. /\ Stage = "RX" /\ i_req' = i_req /\ i_buf' = Append(i_buf, i_rxdr)
          /\ i_pc' = IF Len(i_buf) + 1 < i_req.n THEN "RX" ELSE "STOP"
      BY <1>9, <2>2, StageIs DEF I2c!MoveRX, I2c!Return
    <3>2. Len(i_buf) \in Nat /\ i_req.n \in Nat /\ Len(i_buf) < i_req.n
      BY <3>1, I2cFacts DEF I2cInv, ReadCall, Fetching
    <3>3. Len(i_buf') = Len(i_buf) + 1
      BY <3>1, I2cFacts
    <3>4. i_pc' \in I2c!Waits /\ ToGo'[i_pc'] \in Nat /\ ToGo'[i_pc'] < ToGo[Stage]
      BY <3>1, <3>2, <3>3 DEF ToGo, I2c!Waits
    <3> QED
      BY <3>1, <3>4, NextRound
  <2> QED
    BY <2>1, <2>2
<1>10. CASE I2c!Restart
  <2>1. i_pc' = "RX" /\ Stage = "TC" /\ UNCHANGED <<i_req, i_buf>>
    BY <1>10, StageIs DEF I2c!Restart, I2c!Goto
  <2>2. i_buf = <<>> /\ Len(i_buf) = 0 /\ i_req.n \in Nat
    BY <2>1, I2cFacts DEF I2cInv, RegisterCall
  <2>3. i_pc' \in I2c!Waits /\ ToGo'[i_pc'] \in Nat /\ ToGo'[i_pc'] < ToGo[Stage]
    BY <2>1, <2>2 DEF ToGo, I2c!Waits
  <2> QED
    BY <2>1, <2>3, NextRound
<1>11. CASE I2c!Ack
  <2>1. i_pc # "idle" /\ i_pc' = "idle"
    BY <1>11 DEF I2c!Ack, I2c!Return
  <2> QED
    BY <2>1, OverIsLess
<1> QED
  BY <1>1, <1>2, <1>3, <1>4, <1>5, <1>6, <1>7, <1>8, <1>9, <1>10, <1>11 DEF I2c!Driver

\* Every step of the peripheral brings it nearer to where it needs the driver.
LEMMA PeripheralStep ==
  I2cInv /\ I2c!Peripheral => StepsLeft' = StepsLeft /\ BusSteps' < BusSteps
<1> SUFFICES ASSUME I2cInv, I2c!Peripheral PROVE StepsLeft' = StepsLeft /\ BusSteps' < BusSteps
  OBVIOUS
<1>1. UNCHANGED <<i_pc, i_wait, i_req, i_buf>>
  BY DEF I2c!Peripheral, I2c!drv
<1>2. StepsLeft' = StepsLeft
  BY <1>1 DEF StepsLeft, ToGo, AtRound, Stage
<1>3. i_bus \in Transfer /\ i_bus.left \in Nat /\ i_bus.rd \in BOOLEAN
  BY I2cFacts DEF I2cInv, I2cTyped
<1>4. CASE I2c!Start
  <2>1. i_bus.phase = "start" /\ i_bus'.phase = "address" /\ i_bus'.left = i_bus.left
    BY <1>3, <1>4 DEF I2c!Start, Transfer
  <2> QED
    BY <1>2, <1>3, <2>1 DEF BusSteps
<1>5. CASE I2c!AddressAcked
  <2>1. i_bus.phase = "address" /\ i_bus'.phase \in {"rx", "tx"} /\ i_bus'.left = i_bus.left
    BY <1>3, <1>5 DEF I2c!AddressAcked, Transfer
  <2> QED
    BY <1>2, <1>3, <2>1 DEF BusSteps
<1>6. CASE I2c!Nacked
  <2>1. i_bus.phase \in {"address", "sending"} /\ i_bus'.phase \in {"stop", "hold"}
    BY <1>3, <1>6 DEF I2c!Nacked, Transfer
  <2> QED
    BY <1>2, <1>3, <2>1 DEF BusSteps
<1>7. CASE I2c!ByteAcked
  <2>1. i_bus.phase = "sending" /\ i_bus'.phase \in {"tx", "stop", "hold"}
    BY <1>3, <1>7 DEF I2c!ByteAcked, Transfer
  <2> QED
    BY <1>2, <1>3, <2>1 DEF BusSteps
<1>8. CASE I2c!ByteReceived
  <2>1. /\ i_bus.phase = "rx" /\ i_bus'.phase \in {"rx", "stop"}
        /\ i_bus'.left = i_bus.left - 1 /\ i_bus.left > 0
    BY <1>3, <1>8 DEF I2c!ByteReceived, Transfer, I2cInv, Signals
  <2> QED
    BY <1>2, <1>3, <2>1 DEF BusSteps
<1>9. CASE I2c!Stop
  <2>1. i_bus.phase = "stop" /\ i_bus'.phase = "idle"
    BY <1>9 DEF I2c!Stop, I2c!Quiet
  <2> QED
    BY <1>2, <2>1 DEF BusSteps
<1> QED
  BY <1>4, <1>5, <1>6, <1>7, <1>8, <1>9 DEF I2c!Peripheral

LEMMA StepsAreNat == I2cInv => StepsLeft \in Nat /\ BusSteps \in Nat
<1> SUFFICES ASSUME I2cInv PROVE StepsLeft \in Nat /\ BusSteps \in Nat
  OBVIOUS
<1>1. StepsLeft \in Nat
  <2>1. CASE Stage # "none"
    BY <2>1, ToGoIs
  <2>2. CASE Stage = "none"
    BY <2>2, BeforeIs, I2cFacts DEF Before
  <2> QED
    BY <2>1, <2>2
<1>2. BusSteps \in Nat
  BY I2cFacts DEF BusSteps, Phases
<1> QED
  BY <1>1, <1>2

\* A call begins with three steps for each byte and twelve, each step of the
\* driver takes at least one of them whatever the peripheral has answered, and
\* nothing else changes their number; between two of them the peripheral can
\* take finitely many of its own (i2c_g0.c:148-282).
THEOREM CallsAreBounded ==
  MCSpec => /\ [](StepsLeft \in Nat /\ BusSteps \in Nat)
            /\ [][/\ \A r \in I2c!Requests : I2c!Call(r) => StepsLeft' = 3 * r.n + 12
                  /\ I2c!Driver => StepsLeft' < StepsLeft
                  /\ I2c!Peripheral => StepsLeft' = StepsLeft /\ BusSteps' < BusSteps
                  /\ I2c!Hang \/ I2c!Resume => UNCHANGED <<StepsLeft, BusSteps>>]_iVars
<1> DEFINE Bounded == /\ \A r \in I2c!Requests : I2c!Call(r) => StepsLeft' = 3 * r.n + 12
                      /\ I2c!Driver => StepsLeft' < StepsLeft
                      /\ I2c!Peripheral => StepsLeft' = StepsLeft /\ BusSteps' < BusSteps
                      /\ I2c!Hang \/ I2c!Resume => UNCHANGED <<StepsLeft, BusSteps>>
<1>1. I2cInv => Bounded
  <2> SUFFICES ASSUME I2cInv PROVE Bounded
    OBVIOUS
  <2>1. ASSUME NEW r \in I2c!Requests, I2c!Call(r) PROVE StepsLeft' = 3 * r.n + 12
    BY <2>1, StageIsNext DEF I2c!Call, StepsLeft
  <2>2. ASSUME I2c!Hang \/ I2c!Resume PROVE UNCHANGED <<StepsLeft, BusSteps>>
    BY <2>2 DEF I2c!Hang, I2c!Resume, I2c!drv, StepsLeft, BusSteps, ToGo, AtRound, Stage
  <2> QED
    BY <2>1, <2>2, DriverStep, PeripheralStep
<1> HIDE DEF Bounded
<1>2. MCSpec => []I2cInv
  BY AllHold, PTL
<1>3. MCSpec => [][Bounded]_iVars
  BY <1>1, <1>2, PTL
<1> QED
  BY <1>2, <1>3, StepsAreNat, PTL DEF Bounded
=============================================================================
