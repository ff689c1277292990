--------------------------- MODULE UsartRx_proofs ---------------------------
(***************************************************************************)
(* Proofs about the receive ring, for every buffer size: nothing is        *)
(* written outside a buffer, what USART_Available counted can be read, and *)
(* the ring is a FIFO of bytes under every interleaving of the handler     *)
(* with the reading calls.                                                 *)
(***************************************************************************)
EXTENDS UsartRx, SequenceTheorems, TLAPS

-----------------------------------------------------------------------------
(* The ring as a function of its buffer, head and tail                     *)

Size(h, t) == IF h >= t THEN h - t ELSE h + N - t

Slot(t, k) == IF t + k - 1 < N THEN t + k - 1 ELSE t + k - 1 - N

Content(b, h, t) == [k \in 1 .. Size(h, t) |-> b[Slot(t, k)]]

LEMMA AfterType == \A i \in Index : After(i) \in Index
  BY RxAssumption DEF Index, After

LEMMA SizeType ==
  ASSUME NEW h \in Index, NEW t \in Index
  PROVE  /\ Size(h, t) \in 0 .. N - 1
         /\ Size(h, t) = 0 <=> h = t
         /\ \A k \in 1 .. Size(h, t) : Slot(t, k) \in Index /\ Slot(t, k) # h
  BY RxAssumption DEF Index, Size, Slot

\* Putting a byte in makes the ring longer by one, unless it is full.
LEMMA SizeAfterPut ==
  ASSUME NEW h \in Index, NEW t \in Index, After(h) # t
  PROVE  Size(After(h), t) = Size(h, t) + 1 /\ Slot(t, Size(h, t) + 1) = h
  BY RxAssumption DEF Index, Size, After, Slot

\* Taking one out makes it shorter by one.
LEMMA SizeAfterTake ==
  ASSUME NEW h \in Index, NEW t \in Index, h # t
  PROVE  /\ Size(h, After(t)) = Size(h, t) - 1
         /\ \A k \in 1 .. Size(h, t) - 1 : Slot(After(t), k) = Slot(t, k + 1)
         /\ Slot(t, 1) = t
  BY RxAssumption DEF Index, Size, After, Slot

\* The content is a sequence of bytes.
LEMMA ContentType ==
  ASSUME NEW b \in [Index -> Bytes], NEW h \in Index, NEW t \in Index
  PROVE  Content(b, h, t) \in Seq(Bytes) /\ Len(Content(b, h, t)) = Size(h, t)
  <1>1. Size(h, t) \in Nat
    BY SizeType, RxAssumption
  <1>2. \A k \in 1 .. Size(h, t) : b[Slot(t, k)] \in Bytes
    BY SizeType
  <1>3. Content(b, h, t) \in [1 .. Size(h, t) -> Bytes]
    BY <1>2 DEF Content
  <1> QED BY <1>1, <1>3

\* A byte put at the head comes after those that wait.
LEMMA ContentAfterPut ==
  ASSUME NEW b \in [Index -> Bytes], NEW h \in Index, NEW t \in Index, NEW x \in Bytes,
         After(h) # t
  PROVE  Content([b EXCEPT ![h] = x], After(h), t) = Append(Content(b, h, t), x)
  <1> DEFINE c == Content(b, h, t)
             n == Size(h, t)
             d == Content([b EXCEPT ![h] = x], After(h), t)
  <1>1. c \in Seq(Bytes) /\ Len(c) = n
    BY ContentType
  <1>2. d \in Seq(Bytes) /\ Len(d) = n + 1
    <2>1. [b EXCEPT ![h] = x] \in [Index -> Bytes] /\ After(h) \in Index
      BY AfterType
    <2>2. d \in Seq(Bytes) /\ Len(d) = Size(After(h), t)
      BY <2>1, ContentType
    <2> QED BY <2>2, SizeAfterPut
  <1>3. n \in Nat
    BY SizeType, RxAssumption
  <1>4. \A k \in 1 .. n : d[k] = c[k]
    <2> TAKE k \in 1 .. n
    <2>1. k \in 1 .. n + 1 /\ Slot(t, k) \in Index /\ Slot(t, k) # h
      BY SizeType, <1>3
    <2> QED BY <2>1, SizeAfterPut DEF Content
  <1>5. d[n + 1] = x
    <2>1. n + 1 \in 1 .. n + 1
      BY <1>3
    <2> QED BY <2>1, SizeAfterPut DEF Content
  <1>6. /\ Append(c, x) \in Seq(Bytes) /\ Len(Append(c, x)) = n + 1
        /\ \A k \in 1 .. n : Append(c, x)[k] = c[k]
        /\ Append(c, x)[n + 1] = x
    BY <1>1, AppendProperties
  <1> HIDE DEF c, n, d
  <1>7. \A k \in 1 .. n + 1 : d[k] = Append(c, x)[k]
    <2> TAKE k \in 1 .. n + 1
    <2>1. k \in 1 .. n \/ k = n + 1
      BY <1>3
    <2> QED BY <2>1, <1>4, <1>5, <1>6
  <1>8. d = Append(c, x)
    BY <1>2, <1>6, <1>7, SeqEqual
  <1> QED BY <1>8 DEF c, d

\* The byte at the tail is the first of those that wait.
LEMMA ContentAfterTake ==
  ASSUME NEW b \in [Index -> Bytes], NEW h \in Index, NEW t \in Index, h # t
  PROVE  /\ Content(b, h, t) # <<>>
         /\ b[t] = Head(Content(b, h, t))
         /\ Content(b, h, After(t)) = Tail(Content(b, h, t))
  <1> DEFINE c == Content(b, h, t)
             n == Size(h, t)
             d == Content(b, h, After(t))
  <1>1. c \in Seq(Bytes) /\ Len(c) = n /\ n \in Nat /\ n >= 1
    <2>1. n \in 0 .. N - 1 /\ n # 0
      BY SizeType
    <2> QED BY <2>1, ContentType, RxAssumption
  <1>2. c # <<>>
    BY <1>1
  <1>3. d \in Seq(Bytes) /\ Len(d) = n - 1
    BY ContentType, SizeAfterTake, AfterType
  <1>4. c[1] = b[t]
    BY <1>1, SizeAfterTake DEF Content
  <1>5. \A k \in 1 .. n - 1 : d[k] = c[k + 1]
    <2> TAKE k \in 1 .. n - 1
    <2>1. k + 1 \in 1 .. n /\ k \in 1 .. Size(h, After(t))
      BY <1>1, SizeAfterTake
    <2> QED BY <2>1, SizeAfterTake DEF Content
  <1>6. Head(c) = c[1] /\ Tail(c) \in Seq(Bytes) /\ Len(Tail(c)) = n - 1
    BY <1>1, <1>2
  <1>7. \A k \in 1 .. n - 1 : Tail(c)[k] = c[k + 1]
    BY <1>1, <1>2
  <1>8. d = Tail(c)
    BY <1>1, <1>3, <1>5, <1>6, <1>7, SeqEqual
  <1> QED BY <1>2, <1>4, <1>6, <1>8

-----------------------------------------------------------------------------
(* The inductive invariant                                                 *)

\* Between two accesses of a call: what the call has tested still holds,
\* whatever the handler has put into the ring since.
RxInv ==
    /\ TypeOK
    /\ pc = "idle" => buf = <<>> /\ max_len = 0
    /\ pc \in {"test", "move"} => avail = 0 /\ call \in {"ReadByte", "ReadBytes"}
    /\ call = "ReadBytes" => pc \in {"test", "move"} /\ Len(buf) < max_len
    /\ pc = "move" => /\ rx_tail # rx_head
                      /\ byte = rxbuf[rx_tail]
                      /\ call = "ReadBytes" => Len(buf) + 1 < max_len
    /\ pc = "count" => Size(head_read, rx_tail) <= Size(rx_head, rx_tail)
    /\ avail <= Size(rx_head, rx_tail)

LEMMA UsedIsSize == Used = Size(rx_head, rx_tail) /\ Waiting = Content(rxbuf, rx_head, rx_tail)
  BY DEF Used, Size, Waiting, Content, Slot

LEMMA RxInit == Init => RxInv
  <1> SUFFICES ASSUME Init PROVE RxInv
    OBVIOUS
  <1>1. TypeOK
    <2>1. <<>> \in Seq(Bytes) /\ 0 \in Index
      BY RxAssumption DEF Index
    <2>2. [i \in Index |-> Newline] \in [Index -> Bytes]
      BY RxAssumption
    <2> QED BY <2>1, <2>2 DEF Init, TypeOK
  <1>2. Size(rx_head, rx_tail) = 0
    BY DEF Init, Size
  <1> QED BY <1>1, <1>2 DEF Init, RxInv

\* Steps of the line and of the handler: the ring only gets longer.
LEMMA RxIrq ==
  ASSUME RxInv, (\E b \in Bytes : Arrive(b)) \/ Enter \/ Handler
  PROVE  RxInv'
  <1> USE RxAssumption
  <1>0. TypeOK
    BY DEF RxInv
  <1>1. CASE \E b \in Bytes : Arrive(b)
    <2>1. TypeOK'
      BY <1>0, <1>1 DEF TypeOK, Arrive, ring
    <2> QED BY <1>1, <2>1 DEF RxInv, Arrive, ring
  <1>2. CASE Enter \/ NothingReceived \/ ClearErrors
    <2>1. TypeOK'
      BY <1>0, <1>2 DEF TypeOK, Enter, NothingReceived, ClearErrors, ring
    <2> QED BY <1>2, <2>1 DEF RxInv, Enter, NothingReceived, ClearErrors, ring
  <1>3. CASE Receive
    <2>1. TypeOK'
      BY <1>0, <1>3, AfterType DEF TypeOK, Receive
    <2>2. /\ Size(rx_head, rx_tail) <= Size(rx_head', rx_tail)
          /\ rx_tail # rx_head => rx_tail # rx_head' /\ rxbuf'[rx_tail] = rxbuf[rx_tail]
      <3>1. CASE After(rx_head) # rx_tail
        BY <1>0, <1>3, <3>1, SizeAfterPut, SizeType DEF TypeOK, Receive
      <3>2. CASE After(rx_head) = rx_tail
        BY <1>0, <1>3, <3>2, SizeType DEF TypeOK, Receive
      <3> QED BY <3>1, <3>2
    <2>3. /\ Size(rx_head, rx_tail) \in Nat /\ Size(rx_head', rx_tail) \in Nat
          /\ Size(head_read, rx_tail) \in Nat /\ avail \in Nat
      <3>1. rx_head \in Index /\ rx_head' \in Index /\ rx_tail \in Index
            /\ head_read \in Index /\ avail \in Nat
        BY <1>0, <2>1, <1>3 DEF TypeOK, Receive, Index
      <3> QED BY <3>1, SizeType
    <2> QED BY <1>3, <2>1, <2>2, <2>3 DEF RxInv, Receive
  <1> QED BY <1>1, <1>2, <1>3 DEF Handler

\* Steps of the main program: only Move makes the ring shorter.
LEMMA RxMain ==
  ASSUME 0 \notin MaxLens, RxInv, Call \/ MainStep
  PROVE  RxInv'
  <1> USE RxAssumption
  <1>0. TypeOK
    BY DEF RxInv
  <1>q. Size(rx_head, rx_tail) \in Nat
    BY <1>0, SizeType DEF TypeOK
  <1>1. CASE USART_ReadByte
    <2>1. TypeOK'
      BY <1>0, <1>1 DEF TypeOK, USART_ReadByte, ring, Index
    <2> QED BY <1>1, <2>1, <1>q DEF RxInv, USART_ReadByte, ring
  <1>2. CASE \E n \in MaxLens : USART_ReadBytes(n)
    <2>1. PICK n \in MaxLens : USART_ReadBytes(n)
      BY <1>2
    <2>2. TypeOK'
      BY <1>0, <2>1 DEF TypeOK, USART_ReadBytes, ring, Index
    <2>3. n > 0 /\ Len(<<>>) = 0
      OBVIOUS
    <2> QED BY <2>1, <2>2, <2>3, <1>q DEF RxInv, USART_ReadBytes, ring
  <1>3. CASE USART_Available
    <2>1. TypeOK'
      BY <1>0, <1>3 DEF TypeOK, USART_Available, ring
    <2> QED BY <1>3, <2>1, <1>q DEF RxInv, USART_Available, ring
  <1>4. CASE Finish
    <2>1. TypeOK'
      BY <1>0, <1>4 DEF TypeOK, Finish, Return, ring, Index
    <2> QED BY <1>4, <2>1 DEF RxInv, Finish, Return, ring
  <1>5. CASE Take
    <2>1. TypeOK'
      BY <1>0, <1>5 DEF TypeOK, Take, ring
    <2> QED BY <1>5, <2>1 DEF RxInv, Take, ring
  <1>6. CASE Move
    <2>1. byte \in Bytes /\ rx_tail # rx_head /\ avail = 0
      BY <1>0, <1>6 DEF RxInv, TypeOK, Move
    <2>2. Append(buf, byte) \in Seq(Bytes) /\ Len(Append(buf, byte)) = Len(buf) + 1
      BY <1>0, <2>1, AppendProperties DEF TypeOK
    <2>3. TypeOK'
      <3>1. After(rx_tail) \in Index /\ 0 \in Index /\ <<>> \in Seq(Bytes)
        BY <1>0, AfterType DEF TypeOK, Index
      <3>2. CASE call = "ReadByte" \/ byte = Newline
        BY <1>0, <1>6, <2>1, <3>1, <3>2 DEF TypeOK, Move, Return
      <3>3. CASE ~(call = "ReadByte" \/ byte = Newline)
        BY <1>0, <1>6, <2>1, <2>2, <3>1, <3>3 DEF TypeOK, Move
      <3> QED BY <3>2, <3>3
    <2>4. Size(rx_head', rx_tail') \in Nat
      BY <2>3, SizeType DEF TypeOK
    <2>5. avail' <= Size(rx_head', rx_tail')
      BY <1>6, <2>1, <2>4 DEF Move
    <2>6. CASE call = "ReadByte" \/ byte = Newline
      BY <1>6, <2>3, <2>5, <2>6 DEF RxInv, Move, Return
    <2>7. CASE ~(call = "ReadByte" \/ byte = Newline)
      BY <1>6, <2>1, <2>2, <2>3, <2>5, <2>7 DEF RxInv, Move
    <2> QED BY <2>6, <2>7
  <1>7. CASE Count
    <2>1. Between(rx_tail, head_read) = Size(head_read, rx_tail)
      BY DEF Between, Size
    <2>2. Size(head_read, rx_tail) \in Index
      BY <1>0, SizeType DEF TypeOK, Index
    <2>3. TypeOK'
      BY <1>0, <1>7, <2>1, <2>2 DEF TypeOK, Count, Return, ring, Index
    <2> QED BY <1>7, <2>1, <2>3 DEF RxInv, Count, Return, ring
  <1> QED BY <1>1, <1>2, <1>3, <1>4, <1>5, <1>6, <1>7 DEF Call, MainStep

\* The invariant holds throughout, for callers that pass a buffer of at
\* least one byte (max_len is never 0).
THEOREM RxInvariance == ASSUME 0 \notin MaxLens PROVE Spec => []RxInv
  <1>1. Init => RxInv
    BY RxInit
  <1>2. RxInv /\ [Next]_vars => RxInv'
    <2> SUFFICES ASSUME RxInv, [Next]_vars PROVE RxInv'
      OBVIOUS
    <2>1. CASE Call \/ MainStep
      BY <2>1, RxMain
    <2>2. CASE (\E b \in Bytes : Arrive(b)) \/ Enter \/ Handler
      BY <2>2, RxIrq
    <2>3. CASE UNCHANGED vars
      BY <2>3 DEF RxInv, TypeOK, vars, ring
    <2> QED BY <2>1, <2>2, <2>3 DEF Next
  <1> QED BY <1>1, <1>2, PTL DEF Spec

\* The handler writes inside the ring and USART_ReadBytes leaves room for
\* the terminating '\0' in the caller's buffer (122-139).
THEOREM BuffersFit == ASSUME 0 \notin MaxLens PROVE Spec => []FitsBuffer
  <1>1. RxInv => FitsBuffer
    BY DEF RxInv, FitsBuffer
  <1> QED BY <1>1, RxInvariance, PTL

\* What USART_Available returned can still be read, although the handler
\* moves the head between its two reads (145-147).
THEOREM CountedIsThere == ASSUME 0 \notin MaxLens PROVE Spec => []AvailableIsThere
  <1>1. RxInv => AvailableIsThere
    BY UsedIsSize DEF RxInv, AvailableIsThere
  <1> QED BY <1>1, RxInvariance, PTL

-----------------------------------------------------------------------------
(* The refinement                                                          *)

\* Only Receive and Move change the ring; each is one step of the FIFO.
LEMMA FifoStep ==
  ASSUME RxInv, [Next]_vars
  PROVE  [Fifo!Next]_<<Waiting, got>>
  <1> USE RxAssumption
  <1>0. TypeOK
    BY DEF RxInv
  <1>1. CASE Receive
    <2>1. CASE After(rx_head) # rx_tail
      <3>1. rdr \in Bytes
        BY <1>0, <1>1 DEF TypeOK, Receive
      <3>2. Waiting' = Content([rxbuf EXCEPT ![rx_head] = rdr], After(rx_head), rx_tail)
        BY <1>1, <2>1 DEF Receive, Waiting, Used, Content, Size, Slot
      <3>3. Waiting' = Append(Waiting, rdr)
        BY ZenonT(60), <1>0, <2>1, <3>1, <3>2, ContentAfterPut, UsedIsSize DEF TypeOK
      <3>4. got' = got
        BY <1>1 DEF Receive
      <3> QED BY <3>1, <3>3, <3>4 DEF Fifo!Next, Fifo!Accept
    <2>2. CASE After(rx_head) = rx_tail
      BY <1>1, <2>2 DEF Receive, Waiting, Used
    <2> QED BY <2>1, <2>2
  <1>2. CASE Move
    <2>1. rx_tail # rx_head /\ byte = rxbuf[rx_tail]
      BY <1>2 DEF RxInv, Move
    <2>2. Waiting' = Content(rxbuf, rx_head, After(rx_tail))
      BY <1>2 DEF Move, Waiting, Used, Content, Size, Slot
    <2>3. Waiting # <<>> /\ Waiting' = Tail(Waiting) /\ got' = Head(Waiting)
      BY <1>0, <1>2, <2>1, <2>2, ContentAfterTake, UsedIsSize DEF TypeOK, Move
    <2> QED BY <2>3 DEF Fifo!Next, Fifo!Deliver
  <1>3. ASSUME ~Receive, ~Move
        PROVE  UNCHANGED <<rxbuf, rx_head, rx_tail, got>>
    BY <1>3 DEF Next, Arrive, Enter, Handler, NothingReceived, ClearErrors, Call,
                USART_ReadByte, USART_ReadBytes, USART_Available, MainStep, Finish, Take,
                Count, vars, ring
  <1>4. UNCHANGED <<rxbuf, rx_head, rx_tail, got>> => UNCHANGED <<Waiting, got>>
    BY DEF Waiting, Used
  <1> QED BY <1>1, <1>2, <1>3, <1>4

\* The ring, with the handler at one end and the reading calls at the other,
\* is a FIFO: no byte it accepted is lost, repeated or reordered
\* (111-139 against 182-196).
THEOREM RxRefinement == ASSUME 0 \notin MaxLens PROVE Spec => ImplementsFifo
  <1>1. Init => Fifo!Init
    <2> SUFFICES ASSUME Init PROVE Waiting = <<>> /\ got = None
      BY DEF Fifo!Init
    <2>1. Used = 0
      BY RxAssumption DEF Init, Used
    <2>2. Waiting = <<>>
      BY <2>1 DEF Waiting
    <2> QED BY <2>2 DEF Init
  <1>2. RxInv /\ [Next]_vars => [Fifo!Next]_Fifo!vars
    BY FifoStep DEF Fifo!vars
  <1> QED BY <1>1, <1>2, RxInvariance, PTL DEF Spec, ImplementsFifo, Fifo!Spec

=============================================================================
