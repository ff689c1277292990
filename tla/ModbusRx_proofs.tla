--------------------------- MODULE ModbusRx_proofs ---------------------------
(***************************************************************************)
(* Proofs about the framing of Modbus, for every sequence of messages and  *)
(* every frame size: the frame stays within its buffer and is covered by   *)
(* MODBUS_IsBusy, is left alone once it is ready, and, with prompt         *)
(* handlers and a silent master, holds bytes of one message in its order.  *)
(***************************************************************************)
EXTENDS ModbusRx, SequenceTheorems, TLAPS

\* The position on the line of the byte that was sent last.
Last == IF sent = 0 THEN MsgLen[msg] ELSE sent

Ordered(f) == \A k \in 1 .. Len(f) - 1 : f[k + 1][1] = f[k][1] /\ f[k + 1][2] > f[k][2]

\* The parts that do not depend on time.
FrameInv ==
    /\ TypeOK
    /\ sent # 0 => msg \in Messages /\ sent < MsgLen[msg]
    /\ msg = 0 => rdr = None /\ frame = <<>>
    /\ frame # <<>> => MODBUS_IsBusy
    /\ is_ready => Len(frame) >= MinFrame

\* Where the bytes of the frame come from.  A frame that is not ready has its
\* timer running, so the next message waits for the end of it.
OrderInv ==
    /\ frame # <<>> /\ ~is_ready => cen
    /\ rdr # None => rdr = <<msg, Last>>
    /\ ~is_ready => \A k \in 1 .. Len(frame) : /\ frame[k][1] = msg /\ frame[k][2] <= Last
                                               /\ rdr # None => frame[k][2] < Last
    /\ Ordered(frame) /\ Ordered(active)

RxInv == FrameInv /\ (prompt => OrderInv)

-----------------------------------------------------------------------------
LEMMA Lengths == \A m \in Messages : MsgLen[m] \in Nat \ {0}
  BY ModbusRxAssumption DEF Messages

LEMMA NoneIsNone == None \notin ByteType /\ \A m \in Messages, i \in Nat \ {0} : <<m, i>> \in ByteType
  BY ModbusRxAssumption DEF None, ByteType, Messages

\* One byte more.
LEMMA AppendType ==
  ASSUME NEW f \in Seq(ByteType), NEW b \in ByteType
  PROVE  /\ Append(f, b) \in Seq(ByteType) /\ Len(Append(f, b)) = Len(f) + 1
         /\ Len(f) \in Nat /\ Append(f, b) # <<>>
         /\ \A k \in 1 .. Len(f) : Append(f, b)[k] = f[k]
         /\ Append(f, b)[Len(f) + 1] = b
  BY AppendProperties

LEMMA EmptyOrdered == Ordered(<<>>)
  BY DEF Ordered

LEMMA EmptyType == <<>> \in Seq(ByteType) /\ Len(<<>>) = 0 /\ 0 <= FrameSize
  BY ModbusRxAssumption

\* A byte that follows the last one keeps the order.
LEMMA OrderedAppend ==
  ASSUME NEW f \in Seq(ByteType), NEW b \in ByteType, Ordered(f),
         \A k \in 1 .. Len(f) : f[k][1] = b[1] /\ f[k][2] < b[2]
  PROVE  Ordered(Append(f, b))
  <1> DEFINE g == Append(f, b)
  <1>1. /\ Len(g) = Len(f) + 1 /\ Len(f) \in Nat
        /\ \A k \in 1 .. Len(f) : g[k] = f[k]
        /\ g[Len(f) + 1] = b
    BY AppendType
  <1> HIDE DEF g
  <1>2. ASSUME NEW k \in 1 .. Len(g) - 1
        PROVE  g[k + 1][1] = g[k][1] /\ g[k + 1][2] > g[k][2]
    <2>1. k \in 1 .. Len(f) /\ g[k] = f[k]
      BY <1>1
    <2>2. CASE k = Len(f)
      <3>1. g[k + 1] = b
        BY <1>1, <2>2
      <3>2. f[k][1] = b[1] /\ f[k][2] < b[2]
        BY <2>1
      <3>3. f[k] \in ByteType /\ f[k][2] \in Nat /\ b[2] \in Nat
        BY <2>1 DEF ByteType
      <3> QED BY <2>1, <3>1, <3>2, <3>3
    <2>3. CASE k # Len(f)
      <3>1. k \in 1 .. Len(f) - 1 /\ k + 1 \in 1 .. Len(f)
        BY <1>1, <2>1, <2>3
      <3> QED BY <1>1, <2>1, <3>1 DEF Ordered
    <2> QED BY <2>2, <2>3
  <1> QED BY <1>2 DEF Ordered, g

LEMMA RxInit == Init => RxInv
  <1> SUFFICES ASSUME Init PROVE RxInv
    OBVIOUS
  <1>1. TypeOK
    BY EmptyType, ModbusRxAssumption DEF Init, TypeOK
  <1>2. OrderInv
    BY EmptyType, EmptyOrdered DEF Init, OrderInv
  <1> QED BY <1>1, <1>2 DEF Init, RxInv, FrameInv

-----------------------------------------------------------------------------
(* Steps of the line                                                       *)

\* A byte: only its message, its place and the data register change.
LEMMA RxByteOnLine ==
  ASSUME RxInv, NEW m \in Messages, NEW i \in Nat \ {0}, i <= MsgLen[m], Byte(m, i),
         prompt => /\ ~is_ready /\ frame # <<>> => m = msg /\ Last < i
  PROVE  RxInv'
  <1> USE ModbusRxAssumption
  <1>0. TypeOK
    BY DEF RxInv, FrameInv
  <1>1. <<m, i>> \in ByteType /\ <<m, i>> # None /\ MsgLen[m] \in Nat /\ m # 0
    BY NoneIsNone, Lengths DEF Messages
  <1>2. TypeOK'
    BY <1>0, <1>1 DEF TypeOK, Byte, timer, state, process
  <1>3. FrameInv'
    BY <1>1, <1>2 DEF RxInv, FrameInv, Byte, timer, state, process, MODBUS_IsBusy
  <1>4. ASSUME prompt
        PROVE  OrderInv'
    <2>1. rdr = None /\ rdr' = <<m, i>> /\ msg' = m /\ Last' = i
      BY <1>1, <1>4 DEF Byte, Last
    <2>2. ~is_ready => \A k \in 1 .. Len(frame) : frame[k][1] = m /\ frame[k][2] < i
      <3> SUFFICES ASSUME ~is_ready, NEW k \in 1 .. Len(frame)
                   PROVE  frame[k][1] = m /\ frame[k][2] < i
        OBVIOUS
      <3>1. frame # <<>> /\ frame[k] \in ByteType
        BY <1>0 DEF TypeOK
      <3>2. m = msg /\ Last < i
        BY <1>4, <3>1
      <3>3. frame[k][1] = msg /\ frame[k][2] <= Last
        BY <1>4 DEF RxInv, OrderInv
      <3>4. frame[k][2] \in Nat
        BY <3>1 DEF ByteType
      <3>5. Last \in Nat
        BY <1>0, <1>1, <3>2 DEF Last, TypeOK
      <3> QED BY <3>2, <3>3, <3>4, <3>5
    <2>3. UNCHANGED <<frame, is_ready, cen, active>>
      BY DEF Byte, timer, state, process
    <2>4. \A k \in 1 .. Len(frame) : frame[k][2] < i => frame[k][2] <= i
      <3> TAKE k \in 1 .. Len(frame)
      <3>1. frame[k] \in ByteType
        BY <1>0 DEF TypeOK
      <3> QED BY <3>1 DEF ByteType
    <2> QED BY <1>4, <2>1, <2>2, <2>3, <2>4 DEF RxInv, OrderInv, Ordered
  <1>5. prompt' = prompt
    BY DEF Byte
  <1> QED BY <1>3, <1>4, <1>5 DEF RxInv

LEMMA RxLine == ASSUME RxInv, Line PROVE RxInv'
  <1> USE ModbusRxAssumption
  <1>0. TypeOK
    BY DEF RxInv, FrameInv
  <1>1. CASE NextByte
    <2>1. msg \in Messages /\ sent \in Nat \ {0} /\ sent < MsgLen[msg] /\ Byte(msg, sent + 1)
      BY <1>0, <1>1 DEF RxInv, FrameInv, TypeOK, NextByte
    <2>2. sent + 1 \in Nat \ {0} /\ sent + 1 <= MsgLen[msg] /\ Last < sent + 1
      BY <2>1, Lengths DEF Last
    <2> QED BY <2>1, <2>2, RxByteOnLine
  <1>2. CASE NextMessage
    <2>1. sent = 0 /\ msg + 1 \in Messages /\ Byte(msg + 1, 1)
      BY <1>2 DEF NextMessage
    <2>2. 1 <= MsgLen[msg + 1]
      BY <2>1, Lengths
    <2>3. prompt => (~is_ready => frame = <<>>)
      BY <1>2 DEF RxInv, OrderInv, NextMessage, Silent
    <2> QED BY <2>1, <2>2, <2>3, RxByteOnLine
  <1>3. CASE Overflow
    <2>1. TypeOK'
      BY <1>0, <1>3 DEF TypeOK, Overflow, master, state, process
    <2>2. FrameInv'
      BY <1>3, <2>1 DEF RxInv, FrameInv, Overflow, master, state, process, MODBUS_IsBusy
    <2> QED BY <1>3, <2>2 DEF RxInv, OrderInv, Overflow, master, state, process, Last, Ordered
  <1> QED BY <1>1, <1>2, <1>3 DEF Line

-----------------------------------------------------------------------------
(* The handlers                                                            *)

LEMMA RxHandlers == ASSUME RxInv, Handlers \/ ArmTimer PROVE RxInv'
  <1> USE ModbusRxAssumption
  <1>0. TypeOK
    BY DEF RxInv, FrameInv
  <1>e. frame # <<>> <=> Len(frame) # 0
    BY <1>0 DEF TypeOK
  <1>1. CASE RxDropped
    <2>1. TypeOK'
      BY <1>0, <1>1 DEF TypeOK, RxDropped, master, timer, state, process
    <2>2. FrameInv'
      BY <1>1, <2>1 DEF RxInv, FrameInv, RxDropped, master, timer, state, process, MODBUS_IsBusy
    <2> QED BY <1>1, <2>2
            DEF RxInv, OrderInv, RxDropped, master, timer, state, process, Last, Ordered
  <1>2. CASE RxByte
    <2>1. /\ rdr \in ByteType /\ frame \in Seq(ByteType) /\ frame' = Append(frame, rdr)
          /\ ~is_ready /\ rdr # None
      BY <1>0, <1>2 DEF TypeOK, RxByte
    <2>2. /\ frame' \in Seq(ByteType) /\ Len(frame') = Len(frame) + 1
          /\ Len(frame) \in Nat /\ frame' # <<>>
          /\ \A k \in 1 .. Len(frame) : frame'[k] = frame[k]
          /\ frame'[Len(frame) + 1] = rdr
      BY <2>1, AppendType
    <2>3. TypeOK'
      BY <1>0, <1>2, <2>2 DEF TypeOK, RxByte, master, process
    <2>4. FrameInv'
      BY <1>2, <2>1, <2>2, <2>3 DEF RxInv, FrameInv, RxByte, master, process, MODBUS_IsBusy
    <2>5. ASSUME prompt
          PROVE  OrderInv'
      <3>1. rdr = <<msg, Last>> /\ Last \in Nat
        BY <2>1, <2>5 DEF RxInv, OrderInv, ByteType
      <3>2. \A k \in 1 .. Len(frame) : frame[k][1] = msg /\ frame[k][2] <= Last
                                       /\ frame[k][2] < Last
        BY <2>1, <2>5 DEF RxInv, OrderInv
      <3>3. Ordered(frame')
        BY <2>1, <2>5, <3>1, <3>2, OrderedAppend DEF RxInv, OrderInv
      <3>4. \A k \in 1 .. Len(frame') : frame'[k][1] = msg /\ frame'[k][2] <= Last
        <4> TAKE k \in 1 .. Len(frame')
        <4>1. k \in 1 .. Len(frame) \/ k = Len(frame) + 1
          BY <2>2
        <4> QED BY <2>2, <3>1, <3>2, <4>1
      <3>5. rdr' = None /\ cen' /\ Last' = Last /\ msg' = msg /\ active' = active
        BY <1>2 DEF RxByte, master, process, Last
      <3> QED BY <2>5, <3>3, <3>4, <3>5 DEF RxInv, OrderInv, Ordered
    <2> QED BY <1>2, <2>4, <2>5 DEF RxInv, RxByte, master
  <1>3. CASE RxTooLong
    <2>1. TypeOK'
      BY <1>0, <1>3, EmptyType DEF TypeOK, RxTooLong, master, process
    <2>2. FrameInv'
      BY <1>3, <2>1 DEF RxInv, FrameInv, RxTooLong, master, process, MODBUS_IsBusy
    <2> QED BY <1>3, <2>2, EmptyType, EmptyOrdered
            DEF RxInv, OrderInv, RxTooLong, master, process, Last, Ordered
  <1>4. CASE Timer_IRQHandler
    <2>1. CASE Len(frame) >= MinFrame
      <3>1. is_ready' /\ frame' = frame /\ frame # <<>>
        BY <1>0, <1>4, <1>e, <2>1 DEF Timer_IRQHandler, TypeOK
      <3>2. TypeOK'
        BY <1>0, <1>4, <3>1 DEF TypeOK, Timer_IRQHandler, master, process
      <3>3. FrameInv'
        BY <1>4, <2>1, <3>1, <3>2
           DEF RxInv, FrameInv, Timer_IRQHandler, master, process, MODBUS_IsBusy
      <3> QED BY <1>4, <3>1, <3>3
              DEF RxInv, OrderInv, Timer_IRQHandler, master, process, Last, Ordered
    <2>2. CASE ~(Len(frame) >= MinFrame)
      <3>1. frame' = <<>> /\ is_ready' = is_ready /\ ~is_ready
        BY <1>4, <2>2 DEF Timer_IRQHandler, RxInv, FrameInv
      <3>2. TypeOK'
        BY <1>0, <1>4, <3>1, EmptyType DEF TypeOK, Timer_IRQHandler, master, process
      <3>3. FrameInv'
        BY <1>4, <3>1, <3>2
           DEF RxInv, FrameInv, Timer_IRQHandler, master, process, MODBUS_IsBusy
      <3> QED BY <1>4, <3>1, <3>3, EmptyType, EmptyOrdered
              DEF RxInv, OrderInv, Timer_IRQHandler, master, process, Last, Ordered
    <2> QED BY <2>1, <2>2
  <1>5. CASE Reconfigure
    <2>1. TypeOK'
      BY <1>0, <1>5 DEF TypeOK, Reconfigure, master, state
    <2>2. FrameInv'
      BY <1>5, <2>1 DEF RxInv, FrameInv, Reconfigure, master, state, MODBUS_IsBusy
    <2> QED BY <1>5, <2>2 DEF RxInv, OrderInv, Reconfigure, master, state, Last, Ordered
  <1>6. CASE ArmTimer
    <2>1. TypeOK'
      BY <1>0, <1>6 DEF TypeOK, ArmTimer, master, state, process
    <2>2. FrameInv'
      BY <1>6, <2>1 DEF RxInv, FrameInv, ArmTimer, master, state, process, MODBUS_IsBusy
    <2> QED BY <1>6, <2>2 DEF RxInv, OrderInv, ArmTimer, master, state, process, Last, Ordered
  <1> QED BY <1>1, <1>2, <1>3, <1>4, <1>5, <1>6 DEF Handlers

-----------------------------------------------------------------------------
(* MODBUS_Process                                                          *)

LEMMA RxProcess == ASSUME RxInv, MODBUS_Process PROVE RxInv'
  <1> USE ModbusRxAssumption
  <1>0. TypeOK
    BY DEF RxInv, FrameInv
  <1>1. CASE FrameIsReady
    <2>1. TypeOK'
      BY <1>0, <1>1 DEF TypeOK, FrameIsReady, master, timer, state
    <2>2. FrameInv'
      BY <1>1, <2>1 DEF RxInv, FrameInv, FrameIsReady, master, timer, state, MODBUS_IsBusy
    <2> QED BY <1>1, <2>2
            DEF RxInv, OrderInv, FrameIsReady, master, timer, state, Last, Ordered
  <1>2. CASE CopyFrame
    <2>1. TypeOK'
      BY <1>0, <1>2, EmptyType DEF TypeOK, CopyFrame, master, timer
    <2>2. FrameInv'
      BY <1>2, <2>1 DEF RxInv, FrameInv, CopyFrame, master, timer, MODBUS_IsBusy
    <2> QED BY <1>2, <2>2, EmptyType, EmptyOrdered
            DEF RxInv, OrderInv, CopyFrame, master, timer, Last, Ordered
  <1>3. CASE Handle \/ Discard
    <2>1. /\ active' = <<>> /\ pc' = "idle" /\ uart_cfg_update' \in BOOLEAN
          /\ handled' \in Messages \cup {0}
          /\ UNCHANGED <<master, rdr, timer, state>>
      BY <1>0, <1>3 DEF TypeOK, Handle, Discard
    <2>2. TypeOK'
      BY <1>0, <2>1, EmptyType DEF TypeOK, master, timer, state
    <2>3. FrameInv'
      BY <2>1, <2>2 DEF RxInv, FrameInv, master, timer, state, MODBUS_IsBusy
    <2> QED BY <2>1, <2>3, EmptyType, EmptyOrdered
            DEF RxInv, OrderInv, master, timer, state, Last, Ordered
  <1> QED BY <1>1, <1>2, <1>3 DEF MODBUS_Process

LEMMA RxInvariance == Spec => []RxInv
  <1>1. RxInv /\ [Next]_vars => RxInv'
    <2> SUFFICES ASSUME RxInv, [Next]_vars PROVE RxInv'
      OBVIOUS
    <2>1. CASE UNCHANGED vars
      BY <2>1 DEF RxInv, FrameInv, OrderInv, TypeOK, vars, master, timer, state, process, Last,
                  Ordered, MODBUS_IsBusy
    <2> QED BY <2>1, RxLine, RxHandlers, RxProcess DEF Next
  <1> QED BY <1>1, RxInit, PTL DEF Spec

-----------------------------------------------------------------------------
\* A frame stays within MB_FRAME_SIZE and MODBUS_IsBusy covers it, from its
\* first byte to the moment MODBUS_Process has copied it (22-24, 95-151).
THEOREM BusyIsHonest == Spec => []BusyCovers
  <1>1. RxInv => BusyCovers
    BY DEF RxInv, FrameInv, BusyCovers
  <1> QED BY <1>1, RxInvariance, PTL

\* The frame MODBUS_Process copies is cut from one message, for every
\* sequence of messages, if the master is silent between them.
THEOREM FramesAreWhole == Spec => []OneMessagePerFrame
  <1>1. RxInv => OneMessagePerFrame
    BY DEF RxInv, OrderInv, Ordered, OneMessagePerFrame
  <1> QED BY <1>1, RxInvariance, PTL

\* No handler touches a frame between is_ready and the copy, although
\* MODBUS_Process tests is_ready before it disables interrupts.
THEOREM ReadyFrameIsStable == Spec => ReadyIsStable
  <1>1. RxInv /\ [Next]_vars => [is_ready /\ is_ready' => frame' = frame]_vars
    <2> SUFFICES ASSUME RxInv, Next, is_ready, is_ready' PROVE frame' = frame
      OBVIOUS
    <2> QED BY DEF RxInv, FrameInv, Next, Line, NextByte, NextMessage, Byte, Overflow, Handlers,
                   RxDropped, RxByte, RxTooLong, Timer_IRQHandler, Reconfigure, ArmTimer,
                   MODBUS_Process, FrameIsReady, CopyFrame, Handle, Discard, state
  <1> QED BY <1>1, RxInvariance, PTL DEF Spec, ReadyIsStable

=============================================================================
