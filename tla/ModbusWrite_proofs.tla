-------------------------- MODULE ModbusWrite_proofs --------------------------
(***************************************************************************)
(* Proofs about the requests that write registers, for every register      *)
(* file, request and buffer: a request is carried out entirely or not at   *)
(* all, and, for a master that waits for its answers and lines that fit    *)
(* the buffer, the port is reconfigured only behind the answer and its     *)
(* ring never stalls.                                                      *)
(***************************************************************************)
EXTENDS ModbusWrite, UsartTx_proofs

-----------------------------------------------------------------------------
(* All or nothing                                                          *)

\* The first n values of the request are in the registers.
Stored(n) == \A r \in Regs :
                regs[r] = IF r - req.addr + 1 \in 1 .. n
                          THEN req.vals[r - req.addr + 1] ELSE before[r]

Progress == {"idle", "check", "validate", "store", "answer", "except", "answering",
             "excepting", "flag", "readTC", "writeTC", "done"}

WriteInv ==
    /\ mpc \in Progress
    /\ regs \in [Regs -> Vals] /\ before \in [Regs -> Vals] /\ k \in Nat
    /\ mpc # "idle" => req \in Requests
    /\ mpc \in {"check", "validate", "except", "excepting"} => regs = before
    /\ mpc = "check" => k = 1
    /\ mpc \in {"validate", "store"} => /\ req.fun # "read"
                                        /\ req.addr + Len(req.vals) <= RegCount
                                        /\ k \in 1 .. Len(req.vals)
    /\ mpc = "store" => Stored(k - 1)
    /\ mpc \in {"answer", "answering"} => Stored(Len(req.vals))

\* The fields of a request.
LEMMA RequestType ==
  ASSUME NEW r \in Requests
  PROVE  /\ r.addr \in Nat /\ r.vals \in Seq(Vals) /\ r.bc \in BOOLEAN
         /\ r.fun \in {"single", "multiple", "read"}
         /\ r.fun = "read" => r.vals = <<>>
  <1>1. \A S : S \subseteq Nat => \A s \in UNION {[1 .. n -> Vals] : n \in S} : s \in Seq(Vals)
    OBVIOUS
  <1>2. {1} \subseteq Nat /\ 0 .. MaxCount \subseteq Nat /\ 0 .. RegCount \subseteq Nat
    BY ModbusWriteAssumption
  <1>3. CASE r \in Writes("single", {1})
    BY <1>1, <1>2, <1>3 DEF Writes
  <1>4. CASE r \in Writes("multiple", 0 .. MaxCount)
    BY <1>1, <1>2, <1>4 DEF Writes
  <1>5. CASE r \in Reads
    <2>1. <<>> \in Seq(Vals)
      OBVIOUS
    <2> QED BY <1>2, <1>5, <2>1 DEF Reads
  <1> QED BY <1>3, <1>4, <1>5 DEF Requests

LEMMA WriteInit == MInit => WriteInv
  BY DEF MInit, WriteInv, Progress, Vals, Idle

\* Everything but the steps of MODBUS_Process leaves the request alone.
LEMMA WriteOther ==
  ASSUME WriteInv, UNCHANGED <<regs, mpc, req, k, before>>
  PROVE  WriteInv'
  BY DEF Progress, WriteInv, Stored

LEMMA WriteProcess ==
  ASSUME WriteInv, (\E r \in Requests : Take(r)) \/ Process
  PROVE  WriteInv'
  <1> USE ModbusWriteAssumption
  <1>t. mpc # "idle" => /\ req.addr \in Nat /\ req.vals \in Seq(Vals) /\ Len(req.vals) \in Nat
                        /\ req.fun = "read" => req.vals = <<>>
    BY RequestType DEF Progress, WriteInv
  <1>1. CASE \E r \in Requests : Take(r)
    BY <1>1 DEF Progress, WriteInv, Take
  <1>2. CASE Check
    <2>1. /\ mpc = "check" /\ regs = before /\ k = 1
          /\ UNCHANGED <<regs, req, k, before>>
      BY <1>2 DEF Progress, WriteInv, Check
    <2>2. CASE ~InRange
      <3>1. mpc' \in {"done", "except"}
        BY <1>2, <2>2 DEF Check, Refuse
      <3> QED BY <2>1, <3>1 DEF Progress, WriteInv
    <2>3. CASE InRange /\ req.fun # "read"
      <3>1. mpc' = "validate" /\ 1 \in 1 .. Len(req.vals)
        BY <1>2, <1>t, <2>1, <2>3 DEF Check, InRange
      <3> QED BY <2>1, <2>3, <3>1 DEF Progress, WriteInv, InRange
    <2>4. CASE InRange /\ req.fun = "read"
      <3>1. mpc' \in {"done", "answer"} /\ Len(req.vals) = 0
        BY <1>2, <1>t, <2>1, <2>4 DEF Check
      <3>2. \A r \in Regs : r - req.addr + 1 \notin 1 .. 0
        BY <1>t, <2>1 DEF Regs
      <3>3. Stored(Len(req.vals))'
        BY <2>1, <3>1, <3>2 DEF Stored
      <3> QED BY <2>1, <3>1, <3>3 DEF Progress, WriteInv
    <2> QED BY <2>2, <2>3, <2>4
  <1>3. CASE Validate
    <2>1. /\ mpc = "validate" /\ regs = before /\ k \in 1 .. Len(req.vals)
          /\ UNCHANGED <<regs, req, before>>
      BY <1>3 DEF Progress, WriteInv, Validate
    <2>2. CASE Refused \/ req.vals[k] = Bad
      <3>1. mpc' \in {"done", "except"} /\ k' = k
        BY <1>3, <2>2 DEF Validate, Refuse
      <3> QED BY <2>1, <3>1 DEF Progress, WriteInv
    <2>3. CASE ~(Refused \/ req.vals[k] = Bad) /\ k < Len(req.vals)
      <3>1. mpc' = "validate" /\ k' = k + 1 /\ k + 1 \in 1 .. Len(req.vals)
        BY <1>3, <1>t, <2>1, <2>3 DEF Validate
      <3> QED BY <2>1, <3>1 DEF Progress, WriteInv
    <2>4. CASE ~(Refused \/ req.vals[k] = Bad) /\ ~(k < Len(req.vals))
      <3>1. mpc' = "store" /\ k' = 1 /\ 1 \in 1 .. Len(req.vals)
        BY <1>3, <1>t, <2>1, <2>4 DEF Validate
      <3>2. \A r \in Regs : r - req.addr + 1 \notin 1 .. 1 - 1
        BY <1>t, <2>1 DEF Regs
      <3>3. Stored(k - 1)'
        BY <2>1, <3>1, <3>2 DEF Stored
      <3> QED BY <2>1, <3>1, <3>3 DEF Progress, WriteInv
    <2> QED BY <2>2, <2>3, <2>4
  <1>4. CASE Store1
    <2>1. /\ mpc = "store" /\ k \in 1 .. Len(req.vals) /\ Stored(k - 1)
          /\ req.addr + Len(req.vals) <= RegCount
          /\ regs' = [regs EXCEPT ![Current] = req.vals[k]]
          /\ UNCHANGED <<req, before>>
      BY <1>4 DEF Progress, WriteInv, Store1
    <2>2. Current \in Regs /\ req.vals[k] \in Vals
      BY <1>t, <2>1 DEF Current, Regs
    <2>3. \A r \in Regs :
             regs'[r] = IF r - req.addr + 1 \in 1 .. k
                        THEN req.vals[r - req.addr + 1] ELSE before[r]
      <3> TAKE r \in Regs
      <3>1. r \in Nat /\ req.addr \in Nat /\ k \in Nat /\ k >= 1
        BY <1>t, <2>1 DEF Regs
      <3>2. CASE r = Current
        <4>1. r - req.addr + 1 = k
          BY <3>1, <3>2 DEF Current
        <4>2. regs'[r] = req.vals[k]
          BY <2>1, <2>2, <3>2 DEF Progress, WriteInv
        <4> QED BY <3>1, <4>1, <4>2
      <3>3. CASE r # Current
        <4>1. r - req.addr + 1 \in 1 .. k <=> r - req.addr + 1 \in 1 .. k - 1
          BY <3>1, <3>3 DEF Current
        <4>2. regs'[r] = regs[r]
          BY <2>1, <3>3 DEF Progress, WriteInv
        <4> QED BY <2>1, <4>1, <4>2 DEF Stored
      <3> QED BY <3>2, <3>3
    <2>4. regs' \in [Regs -> Vals]
      BY <2>1, <2>2 DEF Progress, WriteInv
    <2>5. CASE k < Len(req.vals)
      <3>1. mpc' = mpc /\ k' = k + 1 /\ k + 1 \in 1 .. Len(req.vals) /\ k' - 1 = k
        BY <1>4, <1>t, <2>1, <2>5 DEF Store1
      <3>2. Stored(k - 1)'
        BY <2>1, <2>3, <3>1 DEF Stored
      <3> QED BY <2>1, <2>4, <3>1, <3>2 DEF Progress, WriteInv
    <2>6. CASE ~(k < Len(req.vals))
      <3>1. mpc' \in {"flag", "answer"} /\ k' = 1 /\ k = Len(req.vals)
        BY <1>4, <1>t, <2>1, <2>6 DEF Store1
      <3>2. Stored(Len(req.vals))'
        BY <2>1, <2>3, <3>1 DEF Stored
      <3> QED BY <2>1, <2>4, <3>1, <3>2 DEF Progress, WriteInv
    <2> QED BY <2>5, <2>6
  <1>5. CASE SendAnswer \/ SendException
    BY <1>5 DEF Progress, WriteInv, SendAnswer, SendException, Stored
  <1>6. CASE Answered \/ TestFlag \/ ReadForTC \/ WriteTC
    <2>1. UNCHANGED <<regs, req, k, before>> /\ mpc' \in {"flag", "done", "readTC", "writeTC"}
          /\ mpc # "idle"
      BY <1>6 DEF Answered, TestFlag, ReadForTC, WriteTC
    <2> QED BY <2>1 DEF Progress, WriteInv
  <1>7. CASE Done
    BY <1>7 DEF Progress, WriteInv, Done, Idle
  <1> QED BY <1>1, <1>2, <1>3, <1>4, <1>5, <1>6, <1>7 DEF Process

LEMMA WriteStep == WriteInv /\ [MNext]_mvars => WriteInv'
  <1> SUFFICES ASSUME WriteInv, [MNext]_mvars PROVE WriteInv'
    OBVIOUS
  <1>1. CASE (\E r \in Requests : Take(r)) \/ Process
    BY <1>1, WriteProcess
  <1>2. CASE TxComplete \/ Port \/ UNCHANGED mvars
    <2>1. UNCHANGED <<regs, mpc, req, k, before>>
      BY <1>2 DEF TxComplete, Port, mvars, modbus
    <2> QED BY <2>1, WriteOther
  <1> QED BY <1>1, <1>2 DEF MNext

\* A request is carried out entirely, and acknowledged, or changes nothing and
\* gets an exception, for every register file and request (244-367).
THEOREM WritesAreAtomic == MSpec => []AllOrNothing
  <1>1. WriteInv => AllOrNothing
    BY DEF WriteInv, AllOrNothing, Stored
  <1> QED BY <1>1, WriteInit, WriteStep, PTL DEF MSpec

-----------------------------------------------------------------------------
(* The port under MODBUS_Process                                           *)

Working == {"check", "validate", "store", "answer", "except"}
Calling == {"answering", "excepting"}

\* The steps of MODBUS_Process that touch the port are calls of UsartTx,
\* except the |= that sets TCIE.
PortInv ==
    /\ RingInv /\ EndInv
    /\ mpc \notin Calling => pc = "idle"
    /\ mpc = "writeTC" /\ ~cr1_read.txeie => Used = 0

LEMMA UartStep ==
  ASSUME [MNext]_mvars
  PROVE  [Next]_vars \/ ReadForTC \/ WriteTC
  <1>1. CASE (\E r \in Requests : Take(r)) \/ Check \/ Validate \/ Store1 \/ Answered
             \/ TestFlag \/ Done \/ UNCHANGED mvars
    BY <1>1 DEF Take, Check, Validate, Store1, Answered, TestFlag, Done, mvars, port, vars
  <1>2. CASE SendAnswer \/ SendException
    BY <1>2, ModbusWriteAssumption DEF SendAnswer, SendException, Next, Call
  <1>3. CASE TxComplete \/ Port
    BY <1>3 DEF TxComplete, Port, Next, Handler
  <1> QED BY <1>1, <1>2, <1>3 DEF MNext, Process

\* What a step of UsartTx does to the ring and to the main program.
LEMMA RingStep ==
  ASSUME MaxLine < N, RingInv, [Next]_vars
  PROVE  RingInv'
  <1>1. CASE Call \/ MainStep
    BY <1>1, RingMain
  <1>2. CASE Enter \/ Handler \/ Hardware
    BY <1>2, RingIrq
  <1>3. CASE UNCHANGED vars
    BY <1>3 DEF RingInv, TypeOK, Used, Full, vars, ring, hw, main
  <1> QED BY <1>1, <1>2, <1>3 DEF Next

\* The ring does not grow while no call is under way.
LEMMA IdleRing ==
  ASSUME RingInv, Enter \/ Handler \/ Hardware \/ UNCHANGED vars
  PROVE  UNCHANGED main /\ (Used = 0 => Used' = 0)
  <1> USE UsartAssumption
  <1>1. CASE Send
    BY <1>1, UsedAfterPut DEF RingInv, TypeOK, Send, Used
  <1>2. CASE ~Send
    BY <1>2 DEF Enter, Handler, Hardware, LastSent, NothingToSend, Complete, NotComplete,
                LoadShift, ShiftOut, vars, ring, Used, main
  <1> QED BY <1>1, <1>2 DEF Send

LEMMA PortStep ==
  ASSUME MaxLine < N, PortInv, [MNext]_mvars
  PROVE  PortInv'
  <1> USE UsartAssumption
  <1>1. CASE ReadForTC
    <2>1. TypeOK'
      BY <1>1 DEF PortInv, RingInv, TypeOK, ReadForTC, ring, hw
    <2>2. pc = "idle" /\ put = 0
      BY <1>1 DEF PortInv, RingInv, ReadForTC, Calling
    <2>3. RingInv'
      BY <1>1, <2>1 DEF PortInv, RingInv, ReadForTC, ring, Used, Full
    <2>4. EndInv'
      BY <1>1 DEF PortInv, EndInv, ReadForTC, ring, hw
    <2>5. ~cr1.txeie => Used = 0
      BY <2>2, UsedAfterPut DEF PortInv, RingInv, TypeOK, Used
    <2> QED BY <1>1, <2>2, <2>3, <2>4, <2>5 DEF PortInv, ReadForTC, ring, Used
  <1>2. CASE WriteTC
    <2>1. /\ cr1' \in CR1 /\ cr1'.txeie = cr1_read.txeie /\ cr1_read' \in CR1
      BY <1>2 DEF PortInv, RingInv, TypeOK, WriteTC, CR1
    <2>2. TypeOK'
      BY <1>2, <2>1 DEF PortInv, RingInv, TypeOK, WriteTC, ring, hw
    <2>3. pc = "idle" /\ put = 0 /\ (~cr1_read.txeie => Used = 0)
      BY <1>2 DEF PortInv, RingInv, WriteTC, Calling
    <2>4. RingInv'
      BY <1>2, <2>1, <2>2, <2>3 DEF PortInv, RingInv, WriteTC, ring, Used, Full
    <2>5. EndInv'
      BY <1>2 DEF PortInv, EndInv, WriteTC, ring, hw
    <2> QED BY <1>2, <2>3, <2>4, <2>5 DEF PortInv, WriteTC
  <1>3. ASSUME [Next]_vars
        PROVE  PortInv'
    <2>1. RingInv' /\ EndInv'
      BY <1>3, RingStep, EndStep DEF PortInv, RingInv
    <2>2. CASE (\E r \in Requests : Take(r)) \/ Check \/ Validate \/ Store1
               \/ TestFlag \/ Done \/ UNCHANGED mvars
      <3>1. UNCHANGED port /\ (mpc' \in Calling \cup {"writeTC"} => mpc' = mpc)
        BY <2>2 DEF Take, Check, Refuse, Validate, Store1, TestFlag, Done, Idle, mvars, modbus,
                    Calling
      <3>2. Used' = Used /\ pc' = pc /\ cr1_read' = cr1_read
        BY <3>1 DEF port, ring, main, Used
      <3>3. mpc \in Calling => mpc' \in Calling
        BY <2>2 DEF Take, Check, Validate, Store1, TestFlag, Done, mvars, modbus, Calling
      <3> QED BY <2>1, <3>1, <3>2, <3>3 DEF PortInv
    <2>3. CASE Answered
      BY <2>1, <2>3 DEF PortInv, Answered, port, main
    <2>4. CASE SendAnswer \/ SendException
      BY <2>1, <2>4 DEF PortInv, SendAnswer, SendException, Calling
    <2>5. CASE TxComplete \/ (Port /\ ~MainStep)
      <3>1. Enter \/ Handler \/ Hardware
        BY <2>5 DEF TxComplete, Port, Handler
      <3>2. mpc' = mpc
        BY <2>5 DEF TxComplete, Port, modbus
      <3> QED BY <2>1, <3>1, <3>2, IdleRing DEF PortInv, main
    <2>6. CASE Port /\ MainStep
      <3>1. mpc' = mpc /\ pc # "idle"
        BY <2>6 DEF Port, modbus, MainStep, GiveUp, Store, Advance, ReadCR1, WriteCR1
      <3>2. mpc \in Calling
        BY <3>1 DEF PortInv
      <3> QED BY <2>1, <3>1, <3>2 DEF PortInv, Calling
    <2>7. CASE ReadForTC \/ WriteTC
      BY <2>7, <1>1, <1>2
    <2> QED BY <2>2, <2>3, <2>4, <2>5, <2>6, <2>7 DEF MNext, Process
  <1> QED BY <1>1, <1>2, <1>3, UartStep

LEMMA PortInit == MInit => PortInv
  <1> SUFFICES ASSUME MInit PROVE PortInv
    OBVIOUS
  <1>1. RingInv
    BY RingInit DEF MInit
  <1> QED BY <1>1 DEF MInit, Init, PortInv, EndInv

\* The second |= on CR1, after the answer, cannot stall the ring either: the
\* TXEIE it may write back is the one of an empty ring (288, 365).
THEOREM AnswersNeverStall == ASSUME MaxLine < N PROVE MSpec => []NoStall
  <1>1. PortInv => NoStall
    BY UsartAssumption, UsedAfterPut DEF PortInv, RingInv, NoStall, TypeOK, Used
  <1>2. PortInv /\ [MNext]_mvars => PortInv'
    BY PortStep
  <1> QED BY <1>1, <1>2, PortInit, PTL DEF MSpec

-----------------------------------------------------------------------------
(* The reconfiguration of the port                                         *)

\* While a request is worked on nothing is sent, because the master waited;
\* a register that differs from the port's configuration belongs to a request
\* whose answer has not been announced as sent.
ConfInv ==
    /\ uart_cfg_update \in BOOLEAN
    /\ mpc \in Working => Quiet
    /\ pc # "idle" => ~cr1.txeie /\ ~cr1.tcie
    /\ pc = "write" => ~cr1_read.tcie /\ cr1_read.fmt = cr1.fmt
    /\ mpc = "validate" /\ req.addr = 0 /\ k > 1 => uart_cfg_update
    /\ mpc = "store" /\ req.addr = 0 => uart_cfg_update
    /\ mpc = "excepting" => configured = regs[0]
    /\ configured # regs[0] =>
          /\ uart_cfg_update
          /\ \/ mpc \in {"store", "answer", "flag", "readTC", "writeTC"}
             \/ pc # "idle" \/ cr1.tcie \/ cr1.txeie

\* Nothing but a call of the main program ends the quiet.
LEMMA QuietStays ==
  ASSUME TypeOK, Quiet, Enter \/ Handler \/ Hardware
  PROVE  UNCHANGED <<ring, cr1, hw, main, configured>> /\ ~Complete
  BY DEF Quiet, TypeOK, Enter, Handler, Hardware, Send, LastSent, NothingToSend, Complete,
         NotComplete, LoadShift, ShiftOut, ring, hw, main

LEMMA ConfInit == MInit => ConfInv
  BY DEF MInit, Init, ConfInv, Working

\* The steps of MODBUS_Process.
LEMMA ConfProcess ==
  ASSUME Polite, WriteInv, PortInv, ConfInv, (\E r \in Requests : Take(r)) \/ Process
  PROVE  ConfInv'
  <1> USE ModbusWriteAssumption
  <1>t. mpc # "idle" => /\ req.addr \in Nat /\ Len(req.vals) \in Nat
                        /\ req.fun = "read" => req.vals = <<>>
    BY RequestType DEF WriteInv
  <1>c. mpc \in {"check", "validate", "except"} => configured = regs[0]
    BY DEF PortInv, ConfInv, Working, Quiet, Calling
  <1>1. CASE \E r \in Requests : Take(r)
    <2>1. mpc = "idle" /\ mpc' = "check" /\ Quiet /\ UNCHANGED <<port, regs, uart_cfg_update>>
      BY <1>1 DEF Take
    <2>2. pc = "idle"
      BY <2>1 DEF PortInv, Calling
    <2>3. Quiet'
      BY <2>1 DEF Quiet, port, ring, hw
    <2> QED BY <2>1, <2>2, <2>3 DEF ConfInv, port, ring, main, Quiet
  <1>2. CASE Check
    <2>1. /\ mpc = "check" /\ mpc' \in {"done", "except", "validate", "answer"} /\ k = 1
          /\ UNCHANGED <<port, regs, uart_cfg_update, k>>
      BY <1>2 DEF Check, Refuse, WriteInv
    <2>2. Quiet /\ Quiet'
      BY <2>1 DEF ConfInv, Working, Quiet, port, ring, hw
    <2> QED BY <1>c, <2>1, <2>2 DEF ConfInv, port, ring, main, Quiet
  <1>3. CASE Validate
    <2>1. /\ mpc = "validate" /\ mpc' \in {"done", "except", "validate", "store"}
          /\ UNCHANGED <<port, regs, req>>
      BY <1>3 DEF Validate, Refuse
    <2>2. Quiet /\ Quiet'
      BY <2>1 DEF ConfInv, Working, Quiet, port, ring, hw
    <2>3. uart_cfg_update' \in BOOLEAN
      BY <1>3 DEF Validate, ConfInv
    <2>4. k \in 1 .. Len(req.vals) /\ req.addr \in Nat
      BY <1>t, <2>1 DEF WriteInv
    <2>5. mpc' \in {"validate", "store"} /\ req.addr = 0 => uart_cfg_update'
      <3> SUFFICES ASSUME mpc' \in {"validate", "store"}, req.addr = 0
                   PROVE  uart_cfg_update'
        OBVIOUS
      <3>1. uart_cfg_update' = (uart_cfg_update \/ Current = 0)
        BY <1>3 DEF Validate, Refuse
      <3>2. CASE k = 1
        <4>1. Current = 0
          BY <3>2 DEF Current
        <4> QED BY <3>1, <4>1
      <3>3. CASE k # 1
        BY <2>1, <2>4, <3>1, <3>3 DEF ConfInv
      <3> QED BY <3>2, <3>3
    <2> QED BY <1>c, <2>1, <2>2, <2>3, <2>5 DEF ConfInv, port, ring, main, Quiet
  <1>4. CASE Store1
    <2>1. /\ mpc = "store" /\ mpc' \in {"store", "flag", "answer"}
          /\ UNCHANGED <<port, uart_cfg_update, req>>
          /\ regs' = [regs EXCEPT ![Current] = req.vals[k]]
      BY <1>4 DEF Store1
    <2>2. Quiet /\ Quiet'
      BY <2>1 DEF ConfInv, Working, Quiet, port, ring, hw
    <2>3. k \in Nat /\ k >= 1 /\ req.addr \in Nat
      BY <1>t, <2>1 DEF WriteInv
    <2>4. regs'[0] # regs[0] => uart_cfg_update
      BY <2>1, <2>3 DEF ConfInv, WriteInv, Current, Regs
    <2>5. configured' # regs'[0] => uart_cfg_update'
      BY <2>1, <2>4 DEF ConfInv, port
    <2> QED BY <2>1, <2>2, <2>5 DEF ConfInv, port, ring, main, Quiet
  <1>5. CASE SendAnswer
    <2>1. /\ mpc = "answer" /\ mpc' = "answering" /\ UNCHANGED <<regs, uart_cfg_update>>
          /\ UNCHANGED <<cr1, cr1_read, configured>> /\ pc' \in {"read", "store"}
      BY <1>5 DEF SendAnswer, USART_WriteLine
    <2>2. Quiet
      BY <2>1 DEF ConfInv, Working
    <2> QED BY <2>1, <2>2 DEF ConfInv, Quiet, Working
  <1>6. CASE SendException
    <2>1. /\ mpc = "except" /\ mpc' = "excepting" /\ UNCHANGED <<regs, uart_cfg_update>>
          /\ UNCHANGED <<cr1, cr1_read, configured>> /\ pc' \in {"read", "store"}
      BY <1>6 DEF SendException, USART_WriteLine
    <2>2. Quiet
      BY <2>1 DEF ConfInv, Working
    <2> QED BY <1>c, <2>1, <2>2 DEF ConfInv, Quiet, Working
  <1>7. CASE Answered
    <2>1. /\ mpc \in Calling /\ mpc' \in {"flag", "done"} /\ pc = "idle"
          /\ UNCHANGED <<port, regs, uart_cfg_update>>
      BY <1>7 DEF Answered, Calling
    <2> QED BY <2>1 DEF ConfInv, Calling, Working, port, main
  <1>8. CASE TestFlag
    <2>1. /\ mpc' = IF uart_cfg_update THEN "readTC" ELSE "done"
          /\ UNCHANGED <<port, regs, uart_cfg_update>>
      BY <1>8 DEF TestFlag
    <2>2. pc = "idle"
      BY <1>8 DEF PortInv, TestFlag, Calling
    <2> QED BY <2>1, <2>2 DEF ConfInv, Working, port, main
  <1>9. CASE ReadForTC
    <2>1. pc = "idle" /\ pc' = "idle" /\ mpc' = "writeTC"
      BY <1>9 DEF PortInv, ReadForTC, Calling
    <2> QED BY <1>9, <2>1 DEF ConfInv, ReadForTC, Working
  <1>10. CASE WriteTC
    <2>1. pc = "idle" /\ pc' = "idle" /\ mpc' = "done"
      BY <1>10 DEF PortInv, WriteTC, Calling
    <2>2. cr1'.tcie
      BY <1>10 DEF PortInv, RingInv, TypeOK, WriteTC, CR1
    <2> QED BY <1>10, <2>1, <2>2 DEF ConfInv, WriteTC, Working
  <1>11. CASE Done
    <2>1. mpc = "done" /\ mpc' = "idle" /\ UNCHANGED <<port, regs, uart_cfg_update>>
      BY <1>11 DEF Done, Idle
    <2>2. pc = "idle"
      BY <2>1 DEF PortInv, Calling
    <2> QED BY <2>1, <2>2 DEF ConfInv, Working, port, main
  <1> QED BY <1>1, <1>2, <1>3, <1>4, <1>5, <1>6, <1>7, <1>8, <1>9, <1>10, <1>11 DEF Process

\* The steps of the port.
LEMMA ConfPort ==
  ASSUME MaxLine < N, WriteInv, PortInv, ConfInv, TxComplete \/ Port
  PROVE  ConfInv'
  <1> USE UsartAssumption
  <1>0. TypeOK /\ RingInv
    BY DEF PortInv, RingInv
  <1>m. UNCHANGED <<regs, mpc, req, k>>
    BY DEF TxComplete, Port, modbus
  <1>1. CASE mpc \in Working
    <2>1. Quiet /\ pc = "idle"
      BY <1>1 DEF ConfInv, PortInv, Working, Calling
    <2>2. Enter \/ Handler \/ Hardware
      BY <2>1 DEF TxComplete, Port, Handler, MainStep, GiveUp, Store, Advance, ReadCR1, WriteCR1
    <2>3. UNCHANGED <<ring, cr1, hw, main, configured>> /\ ~Complete
      BY <1>0, <2>1, <2>2, QuietStays
    <2>4. UNCHANGED uart_cfg_update
      BY <2>3 DEF TxComplete, Port, modbus
    <2> QED BY <1>m, <2>1, <2>3, <2>4 DEF ConfInv, Quiet, ring, hw, main
  <1>2. CASE mpc \notin Working /\ TxComplete
    <2>1. /\ cr1.tcie /\ cr1' \in CR1 /\ ~cr1'.tcie /\ cr1'.txeie = cr1.txeie
          /\ pc = "idle" /\ UNCHANGED main
      BY <1>0, <1>2 DEF ConfInv, TypeOK, TxComplete, Complete, TxHandler, CR1, main
    <2>2. uart_cfg_update' \in BOOLEAN /\ configured' = regs[0]
      BY <1>2 DEF ConfInv, TxComplete, MODBUS_TxCallback
    <2> QED BY <1>m, <1>2, <2>1, <2>2 DEF ConfInv, Working, main
  <1>3. CASE mpc \notin Working /\ Port
    <2>u. UNCHANGED <<uart_cfg_update, configured>>
      BY <1>3 DEF Port, modbus, MainStep, GiveUp, Store, Advance, ReadCR1, WriteCR1, Enter, Send,
                  LastSent, NothingToSend, NotComplete, Hardware, LoadShift, ShiftOut
    <2>1. CASE GiveUp
      <3>1. Len(str) \in Nat \ {0}
        BY <1>0, <2>1 DEF RingInv, TypeOK, GiveUp
      <3>2. Used = N - 1
        BY <1>0, <2>1, UsedAfterPut DEF TypeOK, GiveUp, Full, Used
      <3>3. cr1.txeie
        BY <1>0, <2>1, <3>1, <3>2 DEF RingInv, TypeOK, GiveUp
      <3> QED BY <2>1, <3>3 DEF ConfInv, GiveUp
    <2>2. CASE Store \/ Advance
      <3>1. pc' # "idle" /\ pc' # "write" /\ pc # "idle" /\ UNCHANGED cr1
        BY <2>2 DEF Store, Advance
      <3> QED BY <1>m, <1>3, <2>u, <3>1 DEF ConfInv, Working
    <2>3. CASE ReadCR1
      <3>1. pc = "read" /\ pc' = "write" /\ UNCHANGED cr1 /\ cr1_read' = cr1
        BY <2>3 DEF ReadCR1
      <3> QED BY <1>m, <1>3, <2>u, <3>1 DEF ConfInv, Working
    <2>4. CASE WriteCR1
      <3>1. pc' = "idle" /\ cr1'.txeie
        BY <1>0, <2>4 DEF TypeOK, WriteCR1, Return, CR1
      <3> QED BY <1>m, <1>3, <2>u, <3>1 DEF ConfInv, Working
    <2>5. CASE Enter \/ Send \/ NothingToSend \/ NotComplete \/ Hardware
      <3>1. UNCHANGED <<cr1, main>>
        BY <2>5 DEF Enter, Send, NothingToSend, NotComplete, Hardware, LoadShift, ShiftOut
      <3> QED BY <1>m, <1>3, <2>u, <3>1 DEF ConfInv, Working, main
    <2>6. CASE LastSent
      <3>1. cr1.txeie /\ cr1'.tcie /\ UNCHANGED main
        BY <1>0, <2>6 DEF TypeOK, LastSent, CR1
      <3> QED BY <1>m, <1>3, <2>u, <3>1 DEF ConfInv, Working, main
    <2> QED BY <1>3, <2>1, <2>2, <2>3, <2>4, <2>5, <2>6 DEF Port, MainStep
  <1> QED BY <1>1, <1>2, <1>3

\* A change of the configuration is the transmit callback of an answer that
\* has left.
LEMMA Reconfigures ==
  ASSUME WriteInv, PortInv, ConfInv, MNext, configured' # configured
  PROVE  /\ tx_head = tx_tail /\ tdr = None /\ shift = None
         /\ pc = "idle"
         /\ mpc \in {"answering", "flag", "readTC", "writeTC", "done", "idle"}
  <1>1. TxComplete
    BY DEF MNext, Process, Take, Check, Validate, Store1, SendAnswer, SendException,
           USART_WriteLine, Answered, TestFlag, ReadForTC, WriteTC, Done, Port, port, MainStep,
           GiveUp, Store, Advance, ReadCR1, WriteCR1, Enter, Send, LastSent, NothingToSend,
           NotComplete, Hardware, LoadShift, ShiftOut
  <1>2. cr1.tcie /\ tc /\ ipc = "tc" /\ configured # regs[0]
    BY <1>1 DEF TxComplete, Complete, MODBUS_TxCallback
  <1>3. pc = "idle" /\ mpc \notin Working \cup {"excepting"}
    BY <1>2 DEF ConfInv, Quiet
  <1>4. tdr = None /\ shift = None /\ (tx_head = tx_tail \/ ~cr1.txeie)
    BY <1>2 DEF PortInv, EndInv
  <1>5. ~cr1.txeie => tx_head = tx_tail
    BY <1>3, UsartAssumption, UsedAfterPut DEF PortInv, RingInv, TypeOK, Used
  <1>6. mpc \in Working \cup {"answering", "excepting", "flag", "readTC", "writeTC", "done", "idle"}
    BY DEF WriteInv, Progress, Working
  <1> QED BY <1>3, <1>4, <1>5, <1>6

\* The format in CR1 is changed behind the back of USART_Init only by the |= of
\* TCIE: nothing completes between the load and the store of the other one.
LEMMA FormatStays ==
  ASSUME PortInv, ConfInv, [MNext]_mvars, cr1.fmt = configured, cr1'.fmt # configured'
  PROVE  mpc = "writeTC"
  <1>0. TypeOK
    BY DEF PortInv, RingInv
  <1>1. CASE TxComplete
    <2>1. cr1' \in CR1 /\ cr1'.fmt = configured'
      BY <1>0, <1>1 DEF TypeOK, TxComplete, Complete, TxHandler, MODBUS_TxCallback, CR1
    <2> QED BY <2>1
  <1>2. CASE WriteCR1
    <2>1. cr1'.fmt = cr1_read.fmt /\ cr1_read.fmt = cr1.fmt /\ configured' = configured
      BY <1>0, <1>2 DEF TypeOK, WriteCR1, CR1, ConfInv
    <2> QED BY <2>1
  <1>3. CASE LastSent
    <2>1. cr1'.fmt = cr1.fmt /\ configured' = configured
      BY <1>0, <1>3 DEF TypeOK, LastSent, CR1
    <2> QED BY <2>1
  <1>4. CASE WriteTC
    BY <1>4 DEF WriteTC
  <1>5. CASE ~TxComplete /\ ~WriteCR1 /\ ~LastSent /\ ~WriteTC
    <2>1. UNCHANGED <<cr1, configured>>
      BY <1>5 DEF MNext, Process, Take, Check, Validate, Store1, SendAnswer, SendException,
             USART_WriteLine, Answered, TestFlag, ReadForTC, Done, Port, port, MainStep, mvars,
             GiveUp, Store, Advance, ReadCR1, Enter, Send, NothingToSend,
             NotComplete, Hardware, LoadShift, ShiftOut
    <2> QED BY <2>1
  <1> QED BY <1>1, <1>2, <1>3, <1>4, <1>5

\* The port takes its new configuration only behind the answer to the request
\* that changed it, for a master that waits and lines that fit the buffer
\* (MODBUS_TxCallback, 121-126), and then only the |= of TCIE (288, 365) can put
\* the old format back into CR1.
THEOREM ReconfigurationIsLate ==
    ASSUME Polite, MaxLine < N
    PROVE  MSpec => ReconfiguresAfterAnswer
  <1>1. WriteInv /\ PortInv /\ ConfInv /\ [MNext]_mvars => ConfInv'
    <2> SUFFICES ASSUME WriteInv, PortInv, ConfInv, [MNext]_mvars PROVE ConfInv'
      OBVIOUS
    <2>1. CASE UNCHANGED mvars
      BY <2>1 DEF ConfInv, mvars, port, modbus, Quiet, Working, ring, hw, main
    <2> QED BY <2>1, ConfProcess, ConfPort DEF MNext
  <1>2. PortInv /\ [MNext]_mvars => PortInv'
    BY PortStep
  <1>3. WriteInv /\ PortInv /\ ConfInv /\ [MNext]_mvars
           => [/\ configured' # configured =>
                     /\ tx_head = tx_tail /\ tdr = None /\ shift = None
                     /\ pc = "idle"
                     /\ mpc \in {"answering", "flag", "readTC", "writeTC", "done", "idle"}
               /\ cr1.fmt = configured /\ cr1'.fmt # configured' => mpc = "writeTC"]_mvars
    BY Reconfigures, FormatStays
  <1> QED BY <1>1, <1>2, <1>3, WriteInit, WriteStep, PortInit, ConfInit, PTL
          DEF MSpec, ReconfiguresAfterAnswer

=============================================================================
