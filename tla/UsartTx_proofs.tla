--------------------------- MODULE UsartTx_proofs ---------------------------
(***************************************************************************)
(* Proofs for every buffer size and every application whose lines fit the  *)
(* buffer: the transmit ring never stalls, it is a FIFO with the two       *)
(* registers of the transmitter behind it, and its end is announced when   *)
(* everything has left.                                                    *)
(***************************************************************************)
EXTENDS UsartTx, SequenceTheorems, TLAPS

\* The steps on the ring stay within the buffer and count by one.
LEMMA AfterType == \A i \in Index : After(i) \in Index
  BY UsartAssumption DEF Index, After

\* Taking a byte out makes the ring shorter by one.
LEMMA UsedAfterSend ==
  ASSUME NEW h \in Index, NEW t \in Index, h # t
  PROVE  LET used(a, b) == IF a >= b THEN a - b ELSE a + N - b
         IN  used(h, After(t)) = used(h, t) - 1 /\ used(h, t) \in 1 .. N - 1
  BY UsartAssumption DEF Index, After

\* Putting a byte in makes it longer by one; a full ring holds N - 1 bytes.
LEMMA UsedAfterPut ==
  ASSUME NEW h \in Index, NEW t \in Index
  PROVE  LET used(a, b) == IF a >= b THEN a - b ELSE a + N - b
         IN  /\ After(h) # t => used(After(h), t) = used(h, t) + 1
             /\ After(h) = t => used(h, t) = N - 1
             /\ used(h, t) \in Nat
             /\ used(h, h) = 0
             /\ used(h, t) = 0 => h = t
  BY UsartAssumption DEF Index, After

\* A line is a sequence of bytes no longer than MaxLine.
LEMMA LineType == \A s \in Lines : s \in Seq(Bytes) /\ Len(s) \in 0 .. MaxLine
  <1> SUFFICES ASSUME NEW s \in Lines PROVE s \in Seq(Bytes) /\ Len(s) \in 0 .. MaxLine
    OBVIOUS
  <1>1. PICK n \in 0 .. MaxLine : s \in [1 .. n -> Bytes]
    BY DEF Lines
  <1>2. n \in Nat
    BY <1>1, UsartAssumption
  <1>3. s \in Seq(Bytes)
    BY <1>1, <1>2
  <1>4. Len(s) = n
    BY <1>1, <1>2, <1>3
  <1> QED BY <1>3, <1>4, <1>1

\* The invariant holds when the port has just been initialised.
LEMMA RingInit == Init => RingInv
  <1> SUFFICES ASSUME Init PROVE RingInv
    OBVIOUS
  <1>1. TypeOK
    BY UsartAssumption DEF Init, TypeOK, Index, CR1
  <1>2. Used = 0
    BY DEF Init, Used
  <1> QED BY <1>1, <1>2 DEF Init, RingInv

\* Steps of the main program: only these make the ring longer.
LEMMA RingMain ==
  ASSUME MaxLine < N, RingInv, Call \/ MainStep
  PROVE  RingInv'
  <1> USE UsartAssumption
  <1>0. TypeOK
    BY DEF RingInv
  <1>1. CASE \E s \in Lines : USART_WriteLine(s)
    <2>1. PICK s \in Lines : USART_WriteLine(s)
      BY <1>1
    <2>2. s \in Seq(Bytes) /\ Len(s) \in 0 .. MaxLine
      BY LineType
    <2>3. TypeOK'
      BY <1>0, <2>1, <2>2 DEF TypeOK, USART_WriteLine, ring, hw
    <2>4. ~cr1.txeie => Used = 0
      BY <1>0, <2>1, UsedAfterPut DEF RingInv, USART_WriteLine, TypeOK, Used
    <2>5. (~cr1.txeie => Used <= put)'
      BY <2>1, <2>4 DEF USART_WriteLine, Used, ring
    <2>6. (pc \in {"store", "advance"} => str # <<>> /\ put + Len(str) < N)'
      BY <2>1, <2>2 DEF USART_WriteLine
    <2> QED BY <2>1, <2>3, <2>5, <2>6 DEF RingInv, USART_WriteLine
  <1>2. CASE \E b \in Bytes : USART_WriteByte(b)
    <2>1. PICK b \in Bytes : USART_WriteByte(b)
      BY <1>2
    <2>2. <<b>> \in Seq(Bytes) /\ Len(<<b>>) = 1
      OBVIOUS
    <2>3. TypeOK'
      BY <1>0, <2>1, <2>2 DEF TypeOK, USART_WriteByte, ring, hw
    <2>4. ~cr1.txeie => Used = 0
      BY <1>0, <2>1, UsedAfterPut DEF RingInv, USART_WriteByte, TypeOK, Used
    <2>5. (~cr1.txeie => Used <= put)'
      BY <2>1, <2>4 DEF USART_WriteByte, Used, ring
    <2>6. (pc \in {"store", "advance"} => str # <<>> /\ put + Len(str) < N)'
      BY <2>1, <2>2 DEF USART_WriteByte
    <2> QED BY <2>1, <2>3, <2>5, <2>6 DEF RingInv, USART_WriteByte
  <1>3. CASE GiveUp
    <2>1. Len(str) \in Nat \ {0}
      BY <1>0, <1>3 DEF RingInv, TypeOK, GiveUp
    <2>2. Used = N - 1
      BY <1>0, <1>3, UsedAfterPut DEF TypeOK, GiveUp, Full, Used
    <2>3. cr1.txeie
      BY <1>0, <1>3, <2>1, <2>2 DEF RingInv, TypeOK, GiveUp
    <2>4. TypeOK'
      BY <1>0, <1>3 DEF TypeOK, GiveUp, Return, ring, hw
    <2> QED BY <1>3, <2>3, <2>4 DEF RingInv, GiveUp, Return
  <1>4. CASE Store
    <2>1. Head(str) \in Bytes
      BY <1>0, <1>4 DEF RingInv, TypeOK, Store
    <2>2. TypeOK'
      BY <1>0, <1>4, <2>1 DEF TypeOK, Store, hw
    <2> QED BY <1>4, <2>2 DEF RingInv, Store, Full, Used
  <1>5. CASE Advance
    <2>1. /\ Tail(str) \in Seq(Bytes)
          /\ Len(Tail(str)) = Len(str) - 1
          /\ Len(str) \in Nat
      BY <1>0, <1>5 DEF RingInv, TypeOK, Advance
    <2>2. Used' = Used + 1 /\ Used \in Nat
      BY <1>0, <1>5, UsedAfterPut DEF RingInv, TypeOK, Advance, Full, Used
    <2>3. TypeOK'
      BY <1>0, <1>5, <2>1, AfterType DEF TypeOK, Advance, hw
    <2>4. (~cr1.txeie => Used <= put)'
      BY <1>0, <1>5, <2>2 DEF RingInv, TypeOK, Advance
    <2>5. (pc \in {"store", "advance"} => str # <<>> /\ put + Len(str) < N)'
      BY <1>0, <1>5, <2>1 DEF RingInv, TypeOK, Advance
    <2>6. (pc = "idle" => put = 0)' /\ (pc = "advance" => ~Full)'
      BY <1>5 DEF Advance
    <2> QED BY <2>3, <2>4, <2>5, <2>6 DEF RingInv
  <1>6. CASE ReadCR1
    <2>1. TypeOK'
      BY <1>0, <1>6 DEF TypeOK, ReadCR1, ring, hw
    <2> QED BY <1>6, <2>1 DEF RingInv, ReadCR1, Used, ring
  <1>7. CASE WriteCR1
    <2>1. cr1' \in CR1 /\ cr1'.txeie /\ cr1_read' \in CR1
      BY <1>0, <1>7 DEF TypeOK, WriteCR1, CR1
    <2>2. TypeOK'
      BY <1>0, <1>7, <2>1 DEF TypeOK, WriteCR1, Return, ring, hw
    <2> QED BY <1>7, <2>1, <2>2 DEF RingInv, WriteCR1, Return
  <1> QED BY <1>1, <1>2, <1>3, <1>4, <1>5, <1>6, <1>7 DEF Call, MainStep

\* Steps of the interrupt handler and of the hardware: the ring only gets
\* shorter, and TXEIE goes off only when it is empty.
LEMMA RingIrq ==
  ASSUME RingInv, Enter \/ Handler \/ Hardware
  PROVE  RingInv'
  <1> USE UsartAssumption
  <1>0. TypeOK
    BY DEF RingInv
  <1>1. CASE Enter
    <2>1. TypeOK'
      BY <1>0, <1>1 DEF TypeOK, Enter, ring, hw, main
    <2> QED BY <1>1, <2>1 DEF RingInv, Enter, Used, Full, ring, main
  <1>2. CASE Send
    <2>1. Used' = Used - 1 /\ Used \in Nat
      BY <1>0, <1>2, UsedAfterSend DEF TypeOK, Send, Used
    <2>2. TypeOK'
      BY <1>0, <1>2, AfterType DEF TypeOK, Send, main
    <2>3. (pc = "advance" => ~Full)'
      BY <1>0, <1>2 DEF RingInv, TypeOK, Send, Full, After, Index, main
    <2> QED BY <1>2, <2>1, <2>2, <2>3 DEF RingInv, Send, main
  <1>3. CASE LastSent
    <2>1. Used = 0
      BY <1>0, <1>3, UsedAfterPut DEF TypeOK, LastSent, Used
    <2>2. TypeOK'
      BY <1>0, <1>3 DEF TypeOK, LastSent, CR1, ring, hw, main
    <2>3. Used' <= put'
      BY <1>0, <1>3, <2>1 DEF LastSent, Used, ring, main, TypeOK
    <2> QED BY <1>3, <2>2, <2>3 DEF RingInv, LastSent, Full, ring, main
  <1>4. CASE NothingToSend
    <2>1. TypeOK'
      BY <1>0, <1>4 DEF TypeOK, NothingToSend, ring, hw, main
    <2> QED BY <1>4, <2>1 DEF RingInv, NothingToSend, Used, Full, ring, main
  <1>5. CASE Complete
    <2>1. TypeOK' /\ cr1'.txeie = cr1.txeie
      BY <1>0, <1>5 DEF TypeOK, Complete, TxHandler, CR1, ring, hw, main
    <2> QED BY <1>5, <2>1 DEF RingInv, Complete, Used, Full, ring, main
  <1>6. CASE NotComplete
    <2>1. TypeOK'
      BY <1>0, <1>6 DEF TypeOK, NotComplete, ring, hw, main
    <2> QED BY <1>6, <2>1 DEF RingInv, NotComplete, Used, Full, ring, main
  <1>7. CASE LoadShift
    <2>1. TypeOK'
      BY <1>0, <1>7 DEF TypeOK, LoadShift, ring, main
    <2> QED BY <1>7, <2>1 DEF RingInv, LoadShift, Used, Full, ring, main
  <1>8. CASE ShiftOut
    <2>1. TypeOK'
      BY <1>0, <1>8 DEF TypeOK, ShiftOut, ring, main
    <2> QED BY <1>8, <2>1 DEF RingInv, ShiftOut, Used, Full, ring, main
  <1> QED BY <1>1, <1>2, <1>3, <1>4, <1>5, <1>6, <1>7, <1>8 DEF Handler, Hardware

\* The invariant of the ring holds throughout when every line fits the buffer.
THEOREM RingInvariance == ASSUME MaxLine < N PROVE Spec => []RingInv
  <1>1. Init => RingInv
    BY RingInit
  <1>2. RingInv /\ [Next]_vars => RingInv'
    <2> SUFFICES ASSUME RingInv, [Next]_vars PROVE RingInv'
      OBVIOUS
    <2>1. CASE Call \/ MainStep
      BY <2>1, RingMain
    <2>2. CASE Enter \/ Handler \/ Hardware
      BY <2>2, RingIrq
    <2>3. CASE UNCHANGED vars
      BY <2>3 DEF RingInv, TypeOK, Used, Full, vars, ring, hw, main
    <2> QED BY <2>1, <2>2, <2>3 DEF Next
  <1> QED BY <1>1, <1>2, PTL DEF Spec

\* No interleaving of the calls with the handler leaves bytes in the ring
\* with the interrupt that sends them disabled (USART_WriteByte 84-94,
\* USART_WriteLine 97-109, the TX section of the handler 200-210).
THEOREM RingNeverStalls == ASSUME MaxLine < N PROVE Spec => []NoStall
  <1>1. RingInv => NoStall
    BY UsartAssumption, UsedAfterPut DEF RingInv, NoStall, TypeOK, Used
  <1> QED BY <1>1, RingInvariance, PTL

-----------------------------------------------------------------------------
(* The end of a transmission                                               *)

\* TC says that both registers are empty; past the first section of the
\* handler, TXEIE with an empty data register means an empty ring.
EndInv == /\ tc => tdr = None /\ shift = None
          /\ ipc = "tc" => tx_head = tx_tail \/ tdr # None \/ ~cr1.txeie

LEMMA EndStep ==
  ASSUME TypeOK, EndInv, [Next]_vars
  PROVE  EndInv'
  <1> USE UsartAssumption
  <1>1. CASE Call \/ MainStep
    <2>1. UNCHANGED <<hw, ipc>> /\ ipc = "out"
      BY <1>1 DEF Call, MainStep, USART_WriteLine, USART_WriteByte, GiveUp, Store, Advance,
                  ReadCR1, WriteCR1
    <2> QED BY <2>1 DEF EndInv, hw
  <1>2. CASE Send
    <2>1. tdr' \in Bytes
      BY <1>2 DEF TypeOK, Send
    <2> QED BY <1>2, <2>1 DEF EndInv, Send
  <1>3. CASE LastSent
    BY <1>3 DEF TypeOK, EndInv, LastSent, CR1, ring, hw
  <1>4. CASE Enter \/ NothingToSend \/ NotComplete
    BY <1>4 DEF EndInv, Enter, NothingToSend, NotComplete, ring, hw
  <1>5. CASE Complete
    BY <1>5 DEF EndInv, Complete, ring, hw
  <1>6. CASE LoadShift
    BY <1>6 DEF TypeOK, EndInv, LoadShift
  <1>7. CASE ShiftOut
    BY <1>7 DEF TypeOK, EndInv, ShiftOut, ring
  <1>8. CASE UNCHANGED vars
    BY <1>8 DEF EndInv, vars, ring, hw
  <1> QED BY <1>1, <1>2, <1>3, <1>4, <1>5, <1>6, <1>7, <1>8 DEF Next, Handler, Hardware

\* TxHandler, which may reprogram the port, is called only when everything
\* has left, or with bytes in the ring that a call under way has just put
\* there and will send (the TC section of the handler, 211-216).
THEOREM CompletionIsReal == ASSUME MaxLine < N PROVE Spec => CompleteMeansSent
  <1>1. Init => EndInv
    BY DEF Init, EndInv
  <1>2. RingInv /\ EndInv /\ [Next]_vars => EndInv'
    BY EndStep DEF RingInv
  <1>3. RingInv /\ EndInv /\ [Next]_vars
           => [ipc = "tc" /\ notified' /\ ~notified =>
                 tdr = None /\ shift = None /\ (tx_head = tx_tail \/ pc # "idle")]_vars
    <2> SUFFICES ASSUME RingInv, EndInv, Next, ipc = "tc", notified', ~notified
                 PROVE  tdr = None /\ shift = None /\ (tx_head = tx_tail \/ pc # "idle")
      OBVIOUS
    <2>1. Complete
      BY DEF Next, Call, MainStep, Handler, Hardware, USART_WriteLine, USART_WriteByte,
             GiveUp, Store, Advance, ReadCR1, WriteCR1, Enter, Send, LastSent,
             NothingToSend, NotComplete, LoadShift, ShiftOut
    <2>2. tdr = None /\ shift = None /\ (tx_head = tx_tail \/ ~cr1.txeie)
      BY <2>1 DEF EndInv, Complete
    <2>3. pc = "idle" /\ ~cr1.txeie => tx_head = tx_tail
      BY UsartAssumption, UsedAfterPut DEF RingInv, TypeOK, Used
    <2> QED BY <2>2, <2>3
  <1> QED BY <1>1, <1>2, <1>3, RingInvariance, PTL DEF Spec, CompleteMeansSent

-----------------------------------------------------------------------------
(* The ring as a sequence                                                  *)

Size(h, t) == IF h >= t THEN h - t ELSE h + N - t

Slot(t, k) == IF t + k - 1 < N THEN t + k - 1 ELSE t + k - 1 - N

Content(b, h, t) == [k \in 1 .. Size(h, t) |-> b[Slot(t, k)]]

LEMMA SizeType ==
  ASSUME NEW h \in Index, NEW t \in Index
  PROVE  /\ Size(h, t) \in 0 .. N - 1
         /\ Size(h, t) = 0 <=> h = t
         /\ \A k \in 1 .. Size(h, t) : Slot(t, k) \in Index /\ Slot(t, k) # h
  BY UsartAssumption DEF Index, Size, Slot

\* Putting a byte in makes the ring longer by one, unless it is full.
LEMMA SizeAfterPut ==
  ASSUME NEW h \in Index, NEW t \in Index, After(h) # t
  PROVE  Size(After(h), t) = Size(h, t) + 1 /\ Slot(t, Size(h, t) + 1) = h
  BY UsartAssumption DEF Index, Size, After, Slot

\* Taking one out makes it shorter by one.
LEMMA SizeAfterTake ==
  ASSUME NEW h \in Index, NEW t \in Index, h # t
  PROVE  /\ Size(h, After(t)) = Size(h, t) - 1
         /\ \A k \in 1 .. Size(h, t) - 1 : Slot(After(t), k) = Slot(t, k + 1)
         /\ Slot(t, 1) = t
  BY UsartAssumption DEF Index, Size, After, Slot

\* The content is a sequence of bytes.
LEMMA ContentType ==
  ASSUME NEW b \in [Index -> Bytes], NEW h \in Index, NEW t \in Index
  PROVE  Content(b, h, t) \in Seq(Bytes) /\ Len(Content(b, h, t)) = Size(h, t)
  <1>1. Size(h, t) \in Nat
    BY SizeType, UsartAssumption
  <1>2. \A k \in 1 .. Size(h, t) : b[Slot(t, k)] \in Bytes
    BY SizeType
  <1>3. Content(b, h, t) \in [1 .. Size(h, t) -> Bytes]
    BY <1>2 DEF Content
  <1> QED BY <1>1, <1>3

\* A byte put at the head comes after those that wait.
LEMMA ContentAfterPut ==
  ASSUME NEW b \in [Index -> Bytes], NEW h \in Index, NEW t \in Index, NEW x \in Bytes,
         After(h) # t
  PROVE  Content([b EXCEPT ![h] = x], After(h), t) = Append(Content(b, h, t), x)
  <1> DEFINE c == Content(b, h, t)
             n == Size(h, t)
             d == Content([b EXCEPT ![h] = x], After(h), t)
  <1>1. c \in Seq(Bytes) /\ Len(c) = n
    BY ContentType
  <1>2. d \in Seq(Bytes) /\ Len(d) = n + 1
    <2>1. [b EXCEPT ![h] = x] \in [Index -> Bytes] /\ After(h) \in Index
      BY AfterType
    <2>2. d \in Seq(Bytes) /\ Len(d) = Size(After(h), t)
      BY <2>1, ContentType
    <2> QED BY <2>2, SizeAfterPut
  <1>3. n \in Nat
    BY SizeType, UsartAssumption
  <1>4. \A k \in 1 .. n : d[k] = c[k]
    <2> TAKE k \in 1 .. n
    <2>1. k \in 1 .. n + 1 /\ Slot(t, k) \in Index /\ Slot(t, k) # h
      BY SizeType, <1>3
    <2> QED BY <2>1, SizeAfterPut DEF Content
  <1>5. d[n + 1] = x
    <2>1. n + 1 \in 1 .. n + 1
      BY <1>3
    <2> QED BY <2>1, SizeAfterPut DEF Content
  <1>6. /\ Append(c, x) \in Seq(Bytes) /\ Len(Append(c, x)) = n + 1
        /\ \A k \in 1 .. n : Append(c, x)[k] = c[k]
        /\ Append(c, x)[n + 1] = x
    BY <1>1, AppendProperties
  <1> HIDE DEF c, n, d
  <1>7. \A k \in 1 .. n + 1 : d[k] = Append(c, x)[k]
    <2> TAKE k \in 1 .. n + 1
    <2>1. k \in 1 .. n \/ k = n + 1
      BY <1>3
    <2> QED BY <2>1, <1>4, <1>5, <1>6
  <1>8. d = Append(c, x)
    BY <1>2, <1>6, <1>7, SeqEqual
  <1> QED BY <1>8 DEF c, d

\* The byte at the tail is the first of those that wait.
LEMMA ContentAfterTake ==
  ASSUME NEW b \in [Index -> Bytes], NEW h \in Index, NEW t \in Index, h # t
  PROVE  /\ Content(b, h, t) # <<>>
         /\ b[t] = Head(Content(b, h, t))
         /\ Content(b, h, After(t)) = Tail(Content(b, h, t))
  <1> DEFINE c == Content(b, h, t)
             n == Size(h, t)
             d == Content(b, h, After(t))
  <1>1. c \in Seq(Bytes) /\ Len(c) = n /\ n \in Nat /\ n >= 1
    <2>1. n \in 0 .. N - 1 /\ n # 0
      BY SizeType
    <2> QED BY <2>1, ContentType, UsartAssumption
  <1>2. c # <<>>
    BY <1>1
  <1>3. d \in Seq(Bytes) /\ Len(d) = n - 1
    BY ContentType, SizeAfterTake, AfterType
  <1>4. c[1] = b[t]
    BY <1>1, SizeAfterTake DEF Content
  <1>5. \A k \in 1 .. n - 1 : d[k] = c[k + 1]
    <2> TAKE k \in 1 .. n - 1
    <2>1. k + 1 \in 1 .. n /\ k \in 1 .. Size(h, After(t))
      BY <1>1, SizeAfterTake
    <2> QED BY <2>1, SizeAfterTake DEF Content
  <1>6. Head(c) = c[1] /\ Tail(c) \in Seq(Bytes) /\ Len(Tail(c)) = n - 1
    BY <1>1, <1>2
  <1>7. \A k \in 1 .. n - 1 : Tail(c)[k] = c[k + 1]
    BY <1>1, <1>2
  <1>8. d = Tail(c)
    BY <1>1, <1>3, <1>5, <1>6, <1>7, SeqEqual
  <1> QED BY <1>2, <1>4, <1>6, <1>8

LEMMA UsedIsSize == Used = Size(tx_head, tx_tail) /\ Waiting = Content(txbuf, tx_head, tx_tail)
  BY DEF Used, Size, Waiting, Content, Slot

\* A byte written at the head is not yet one of those that wait.
LEMMA ContentAfterStore ==
  ASSUME NEW b \in [Index -> Bytes], NEW h \in Index, NEW t \in Index, NEW x \in Bytes
  PROVE  Content([b EXCEPT ![h] = x], h, t) = Content(b, h, t)
  <1>1. \A k \in 1 .. Size(h, t) : [b EXCEPT ![h] = x][Slot(t, k)] = b[Slot(t, k)]
    BY SizeType
  <1> QED BY <1>1 DEF Content

-----------------------------------------------------------------------------
(* The refinement                                                          *)

Queue == Held(shift) \o Held(tdr) \o Waiting

\* Advance accepts a byte, ShiftOut delivers one, nothing else shows.
LEMMA FifoStep ==
  ASSUME RingInv, [Next]_vars
  PROVE  [Fifo!Next]_<<Queue, line>>
  <1> USE UsartAssumption
  <1>0. TypeOK
    BY DEF RingInv
  <1>w. /\ Waiting \in Seq(Bytes)
        /\ \A r \in Bytes \cup {None} : Held(r) \in Seq(Bytes)
    BY <1>0, ContentType, UsedIsSize DEF TypeOK, Held
  <1>1. CASE Advance
    <2>1. ~Full /\ txbuf[tx_head] \in Bytes
      BY <1>0, <1>1 DEF RingInv, TypeOK, Advance
    <2>2. [txbuf EXCEPT ![tx_head] = txbuf[tx_head]] = txbuf
      BY <1>0 DEF TypeOK
    <2>3. Waiting' = Append(Waiting, txbuf[tx_head])
      <3>1. Waiting' = Content(txbuf, After(tx_head), tx_tail)
        BY <1>1 DEF Advance, Waiting, Used, Content, Size, Slot
      <3> QED BY <1>0, <2>1, <2>2, <3>1, ContentAfterPut, UsedIsSize DEF TypeOK, Full
    <2>4. UNCHANGED <<shift, tdr, line>>
      BY <1>1 DEF Advance, hw
    <2>5. Queue' = Append(Queue, txbuf[tx_head])
      <3> DEFINE p == Held(shift) \o Held(tdr)
      <3>1. p \in Seq(Bytes) /\ p' = p
        BY <1>0, <1>w, <2>4 DEF TypeOK
      <3> HIDE DEF p
      <3>2. p \o Append(Waiting, txbuf[tx_head]) = Append(p \o Waiting, txbuf[tx_head])
        <4> DEFINE x == txbuf[tx_head]
        <4>1. /\ Append(Waiting, x) = Waiting \o <<x>>
              /\ p \o Waiting \in Seq(Bytes) /\ <<x>> \in Seq(Bytes)
          BY <1>w, <2>1, <3>1, AppendIsConcat, ConcatProperties
        <4>2. Append(p \o Waiting, x) = (p \o Waiting) \o <<x>>
          BY <2>1, <4>1, AppendIsConcat
        <4> QED BY SMTT(20), <1>w, <3>1, <4>1, <4>2, ConcatAssociative
      <3> QED BY <2>3, <3>1, <3>2 DEF Queue, p
    <2> QED BY <2>1, <2>4, <2>5 DEF Fifo!Next, Fifo!Accept, Queue
  <1>2. CASE Store
    <2>1. str # <<>> /\ Head(str) \in Bytes
      BY <1>0, <1>2 DEF RingInv, TypeOK, Store
    <2>2. Waiting' = Content([txbuf EXCEPT ![tx_head] = Head(str)], tx_head, tx_tail)
      BY <1>2 DEF Store, Waiting, Used, Content, Size, Slot
    <2>3. Waiting' = Waiting
      BY <1>0, <2>1, <2>2, ContentAfterStore, UsedIsSize DEF TypeOK
    <2> QED BY <1>2, <2>3 DEF Store, hw, Queue
  <1>3. CASE Send
    <2>1. Waiting' = Content(txbuf, tx_head, After(tx_tail))
      BY <1>3 DEF Send, Waiting, Used, Content, Size, Slot
    <2>2. Waiting # <<>> /\ tdr' = Head(Waiting) /\ Waiting' = Tail(Waiting)
      BY <1>0, <1>3, <2>1, ContentAfterTake, UsedIsSize DEF TypeOK, Send
    <2>3. tdr = None /\ tdr' # None /\ UNCHANGED <<shift, line>>
      BY <1>0, <1>3 DEF TypeOK, Send
    <2>4. <<Head(Waiting)>> \o Tail(Waiting) = Waiting
      BY <1>w, <2>2
    <2>5. Held(tdr) = <<>> /\ Held(tdr') = <<Head(Waiting)>>
      BY <2>2, <2>3 DEF Held
    <2>6. Queue' = Queue
      <3>1. Queue = (Held(shift) \o <<>>) \o Waiting
        BY <2>5 DEF Queue
      <3>2. Queue' = (Held(shift) \o <<Head(Waiting)>>) \o Tail(Waiting)
        BY <2>2, <2>3, <2>5 DEF Queue, Held
      <3>3. Held(shift) \in Seq(Bytes) /\ Tail(Waiting) \in Seq(Bytes)
            /\ <<Head(Waiting)>> \in Seq(Bytes)
        BY <1>0, <1>w, <2>2 DEF TypeOK
      <3>4. Queue' = Held(shift) \o (<<Head(Waiting)>> \o Tail(Waiting))
        BY <3>2, <3>3, ConcatAssociative
      <3>5. Held(shift) \o <<>> = Held(shift)
        BY <3>3, ConcatEmptySeq
      <3> QED BY <2>4, <3>1, <3>4, <3>5
    <2> QED BY <2>3, <2>6
  <1>4. CASE LoadShift
    <2>1. shift = None /\ tdr # None /\ shift' = tdr /\ tdr' = None
      BY <1>4 DEF LoadShift
    <2>2. Waiting' = Waiting /\ line' = line
      BY <1>4 DEF LoadShift, ring, Waiting, Used
    <2>3. <<>> \o <<tdr>> = <<tdr>> \o <<>>
      OBVIOUS
    <2> QED BY <2>1, <2>2, <2>3 DEF Queue, Held
  <1>5. CASE ShiftOut
    <2>1. shift # None /\ line' = shift /\ shift' = None /\ tdr' = tdr /\ shift \in Bytes
      BY <1>0, <1>5 DEF TypeOK, ShiftOut
    <2>2. Waiting' = Waiting
      BY <1>5 DEF ShiftOut, ring, Waiting, Used
    <2> DEFINE q == Held(tdr) \o Waiting
    <2>3. q \in Seq(Bytes) /\ Held(tdr) \in Seq(Bytes)
      BY <1>0, <1>w DEF TypeOK
    <2>4. Queue = <<shift>> \o q
      BY <1>w, <2>1, <2>3, ConcatAssociative DEF Queue, Held
    <2>5. Queue' = q
      <3>1. <<>> \o Held(tdr) = Held(tdr)
        BY <2>3, ConcatEmptySeq
      <3> QED BY <2>1, <2>2, <3>1 DEF Queue, Held
    <2> HIDE DEF q
    <2>6. Queue # <<>> /\ Head(Queue) = shift /\ Tail(Queue) = q
      BY <2>1, <2>3, <2>4
    <2> QED BY <2>1, <2>5, <2>6 DEF Fifo!Next, Fifo!Deliver, Queue
  <1>6. ASSUME ~Advance, ~Store, ~Send, ~LoadShift, ~ShiftOut
        PROVE  UNCHANGED <<ring, shift, tdr, line>>
    BY <1>6 DEF Next, Call, MainStep, Handler, Hardware, USART_WriteLine, USART_WriteByte,
                GiveUp, ReadCR1, WriteCR1, Enter, LastSent, NothingToSend, Complete,
                NotComplete, vars, hw
  <1>7. UNCHANGED <<ring, shift, tdr, line>> => UNCHANGED <<Queue, line>>
    BY DEF ring, Queue, Waiting, Used
  <1> QED BY <1>1, <1>2, <1>3, <1>4, <1>5, <1>6, <1>7

\* The ring and the two registers of the transmitter are a FIFO: whatever the
\* handler interrupts, no byte is lost, repeated or reordered (84-109
\* against 200-210).
THEOREM TxRefinement == ASSUME MaxLine < N PROVE Spec => ImplementsFifo
  <1>1. Init => Fifo!Init
    <2> SUFFICES ASSUME Init PROVE Queue = <<>> /\ line = None
      BY DEF Fifo!Init, Queue
    <2>1. Waiting = <<>>
      BY UsartAssumption DEF Init, Waiting, Used
    <2> QED BY <2>1 DEF Init, Queue, Held
  <1>2. RingInv /\ [Next]_vars => [Fifo!Next]_Fifo!vars
    BY FifoStep DEF Fifo!vars, Queue
  <1> QED BY <1>1, <1>2, RingInvariance, PTL DEF Spec, ImplementsFifo, Fifo!Spec

=============================================================================
