------------------------------ MODULE ModbusRx ------------------------------
(***************************************************************************)
(* How src/src/modbus.c cuts the received bytes into frames: the receive   *)
(* callback, the handler of the T3.5 timer and MODBUS_Process share        *)
(* mb_frame.  A byte is <<m, i>>, byte i of message m of the master, and   *)
(* the CRC accepts exactly the frames that are a whole message.            *)
(*                                                                         *)
(* The handlers run to their end.  MODBUS_Process tests is_ready outside   *)
(* its critical section.  The port is reconfigured from the transmit       *)
(* callback (UsartTx, ModbusWrite), which stops the timer's interrupt:     *)
(* TIM_Init with debounce 0 clears UIE, and nothing in the repository sets *)
(* it again, so the application has to (ArmTimer).                         *)
(***************************************************************************)
EXTENDS Naturals, Sequences

CONSTANTS
    MsgLen,       \* MsgLen[m]: bytes in the m-th message of the master
    MinFrame,     \* the shortest frame the timer handler keeps (5)
    FrameSize,    \* MB_FRAME_SIZE
    Prompts,      \* the values of prompt to consider
    CfgRequests   \* whether a request may change the configuration of the port

ASSUME ModbusRxAssumption == /\ MsgLen \in Seq(Nat \ {0})
                             /\ MinFrame \in Nat \ {0} /\ FrameSize \in Nat
                             /\ MinFrame <= FrameSize
                             /\ Prompts \subseteq BOOLEAN
                             /\ CfgRequests \subseteq BOOLEAN

None == <<0, 0>>

VARIABLES
    prompt,       \* interrupts are served within the time of a byte and the
                  \* master is silent between messages and while the port is
                  \* reconfigured: chosen once
    clear,        \* the receiver was free when the message began
    msg,          \* the message the master sends, or sent last
    sent,         \* how many of its bytes are on the line; 0 between messages
    rdr,          \* the byte in the data register
    cen, uif, uie,\* config->timer: running, update pending, interrupt enabled
    frame,        \* mb_frame: the bytes, mb_frame.length of them
    is_ready,     \* mb_frame.is_ready
    mb_rx_busy,
    pc,           \* where MODBUS_Process is
    active,       \* mb_active
    uart_cfg_update,  \* a reconfiguration waits for the end of the answer
    handled       \* the last message MODBUS_Process acted on

master == <<prompt, clear, msg, sent>>
timer == <<cen, uif, uie>>
state == <<frame, is_ready, mb_rx_busy>>
process == <<pc, active, uart_cfg_update, handled>>
vars  == <<master, rdr, timer, state, process>>

Messages == 1 .. Len(MsgLen)

Whole(m) == [i \in 1 .. MsgLen[m] |-> <<m, i>>]

MODBUS_IsBusy == mb_rx_busy \/ is_ready

Init == /\ prompt \in Prompts /\ clear = FALSE
        /\ msg = 0 /\ sent = 0 /\ rdr = None
        /\ cen = TRUE /\ uif = FALSE /\ uie = TRUE
        /\ frame = <<>> /\ is_ready = FALSE /\ mb_rx_busy = FALSE
        /\ pc = "idle" /\ active = <<>> /\ uart_cfg_update = FALSE /\ handled = 0

-----------------------------------------------------------------------------
(* The master and the line                                                 *)

\* Silence between two messages lets the timer run out and be served.
Silent == (cen => uif) /\ ~(uif /\ uie)

\* The next byte of a message, or the first one of the next message.  One
\* that finds the data register full is lost.
Byte(m, i) ==
    /\ prompt => rdr = None
    /\ rdr' = IF rdr = None THEN <<m, i>> ELSE rdr
    /\ msg' = m
    /\ sent' = IF i = MsgLen[m] THEN 0 ELSE i
    /\ UNCHANGED <<prompt, timer, state, process>>

NextByte == sent # 0 /\ Byte(msg, sent + 1) /\ UNCHANGED clear

NextMessage ==
    /\ sent = 0 /\ msg + 1 \in Messages
    /\ prompt => Silent /\ uie /\ ~uart_cfg_update
    /\ clear' = (pc = "idle" /\ ~is_ready /\ ~uart_cfg_update /\ uie)
    /\ Byte(msg + 1, 1)

\* The timer reloads and goes on until a handler stops it.
Overflow ==
    /\ cen /\ ~uif
    /\ prompt => sent = 0 /\ rdr = None
    /\ uif' = TRUE
    /\ UNCHANGED <<master, rdr, cen, uie, state, process>>

-----------------------------------------------------------------------------
(* The handlers                                                            *)

\* Mutant: bytes are added to a frame that MODBUS_Process has not taken yet.
RxDroppedNot ==
    /\ rdr # None /\ is_ready
    /\ Len(frame) < FrameSize
    /\ rdr' = None
    /\ frame' = Append(frame, rdr)
    /\ UNCHANGED <<master, timer, is_ready, mb_rx_busy, process>>

\* A frame that is ready is left alone: the byte is dropped.
RxDropped ==
    /\ rdr # None /\ is_ready
    /\ rdr' = None
    /\ UNCHANGED <<master, timer, state, process>>

RxByte ==
    /\ rdr # None /\ ~is_ready
    /\ Len(frame) < FrameSize
    /\ rdr' = None
    /\ frame' = Append(frame, rdr)
    /\ mb_rx_busy' = TRUE
    /\ cen' = TRUE
    /\ UNCHANGED <<master, uif, uie, is_ready, process>>

\* Mutant: the timer of a frame that is too long runs on, the flag too.
RxTooLongBusy ==
    /\ rdr # None /\ ~is_ready
    /\ Len(frame) = FrameSize
    /\ rdr' = None
    /\ frame' = <<>>
    /\ mb_rx_busy' = TRUE
    /\ cen' = FALSE
    /\ UNCHANGED <<master, uif, uie, is_ready, process>>

\* One byte too many: everything so far is forgotten, and what follows of
\* the same message starts a frame of its own.
RxTooLong ==
    /\ rdr # None /\ ~is_ready
    /\ Len(frame) = FrameSize
    /\ rdr' = None
    /\ frame' = <<>>
    /\ mb_rx_busy' = FALSE
    /\ cen' = FALSE
    /\ UNCHANGED <<master, uif, uie, is_ready, process>>

\* Mutant: a frame that is too short is kept.
TimerShortKept ==
    /\ uif /\ uie
    /\ uif' = FALSE /\ cen' = FALSE
    /\ is_ready' = (Len(frame) >= MinFrame)
    /\ mb_rx_busy' = FALSE
    /\ UNCHANGED <<master, rdr, uie, frame, process>>

\* TIM3_IRQHandler and MODBUS_Timer_IRQHandler.
Timer_IRQHandler ==
    /\ uif /\ uie
    /\ uif' = FALSE /\ cen' = FALSE
    /\ IF Len(frame) >= MinFrame
       THEN is_ready' = TRUE /\ UNCHANGED frame
       ELSE frame' = <<>> /\ UNCHANGED is_ready
    /\ mb_rx_busy' = FALSE
    /\ UNCHANGED <<master, rdr, uie, process>>

\* MODBUS_TxCallback after the answer to a request that changed the port:
\* USART_Init drops the byte in the data register, TIM_Init restarts the
\* timer without its interrupt.
Reconfigure ==
    /\ uart_cfg_update
    /\ uart_cfg_update' = FALSE
    /\ rdr' = None
    /\ cen' = TRUE /\ uif' = FALSE /\ uie' = FALSE
    /\ UNCHANGED <<master, state, pc, active, handled>>

\* The application enables the update interrupt (nothing in src does).
ArmTimer ==
    /\ ~uie
    /\ uie' = TRUE
    /\ UNCHANGED <<master, rdr, cen, uif, state, process>>

-----------------------------------------------------------------------------
(* MODBUS_Process                                                          *)

FrameIsReady ==
    /\ pc = "idle" /\ is_ready
    /\ pc' = "copy"
    /\ UNCHANGED <<master, rdr, timer, state, active, uart_cfg_update, handled>>

\* Mutant: the length is left in mb_frame.
CopyFrameKept ==
    /\ pc = "copy"
    /\ active' = frame
    /\ is_ready' = FALSE
    /\ pc' = "handle"
    /\ UNCHANGED <<master, rdr, timer, frame, mb_rx_busy, uart_cfg_update, handled>>

\* With interrupts disabled.
CopyFrame ==
    /\ pc = "copy"
    /\ active' = frame
    /\ frame' = <<>> /\ is_ready' = FALSE
    /\ pc' = "handle"
    /\ UNCHANGED <<master, rdr, timer, mb_rx_busy, uart_cfg_update, handled>>

\* The length and the CRC are right: the request is carried out.  It may ask
\* for another configuration of the port.
Handle ==
    /\ pc = "handle"
    /\ \E m \in Messages :
          /\ active = Whole(m)
          /\ handled' = m
    /\ \E b \in CfgRequests : uart_cfg_update' = (uart_cfg_update \/ b)
    /\ active' = <<>> /\ pc' = "idle"
    /\ UNCHANGED <<master, rdr, timer, state>>

Discard ==
    /\ pc = "handle"
    /\ \A m \in Messages : active # Whole(m)
    /\ active' = <<>> /\ pc' = "idle"
    /\ UNCHANGED <<master, rdr, timer, state, uart_cfg_update, handled>>

-----------------------------------------------------------------------------
Line == NextByte \/ NextMessage \/ Overflow

Handlers == RxDropped \/ RxByte \/ RxTooLong \/ Timer_IRQHandler \/ Reconfigure

MODBUS_Process == FrameIsReady \/ CopyFrame \/ Handle \/ Discard

Next == Line \/ Handlers \/ ArmTimer \/ MODBUS_Process

Spec == Init /\ [][Next]_vars

\* Pending interrupts are served, the timer runs, a message once begun is
\* sent to its end, and the main loop keeps calling MODBUS_Process.
LiveSpec == /\ Spec
            /\ WF_vars(RxDropped \/ RxByte \/ RxTooLong)
            /\ WF_vars(Timer_IRQHandler) /\ WF_vars(Reconfigure)
            /\ WF_vars(NextByte) /\ WF_vars(Overflow)
            /\ WF_vars(MODBUS_Process) /\ WF_vars(ArmTimer)

-----------------------------------------------------------------------------
(* Properties                                                              *)

ByteType == Messages \X (Nat \ {0})

TypeOK ==
    /\ msg \in Messages \cup {0} /\ sent \in Nat /\ rdr \in ByteType \cup {None}
    /\ cen \in BOOLEAN /\ uif \in BOOLEAN /\ uie \in BOOLEAN
    /\ frame \in Seq(ByteType) /\ Len(frame) <= FrameSize
    /\ is_ready \in BOOLEAN /\ mb_rx_busy \in BOOLEAN
    /\ pc \in {"idle", "copy", "handle"} /\ active \in Seq(ByteType)
    /\ uart_cfg_update \in BOOLEAN /\ handled \in Messages \cup {0}

\* No frame outgrows MB_FRAME_SIZE, and MODBUS_IsBusy tells the application the
\* bus is idle only when none is being put together or waits, whatever the
\* handlers interrupted.
BusyCovers == TypeOK /\ (frame # <<>> => MODBUS_IsBusy)

\* What MODBUS_Process takes was cut at a silence: the bytes are of one
\* message and in its order, even when the master does not wait, when parts
\* of messages are dropped because a frame was ready, and when the port is
\* reconfigured in the middle of one.
OneMessagePerFrame ==
    prompt => \A k \in 1 .. Len(active) - 1 :
                  /\ active[k + 1][1] = active[k][1]
                  /\ active[k + 1][2] > active[k][2]

\* A frame that is ready does not change until MODBUS_Process has taken it.
ReadyIsStable == [][is_ready /\ is_ready' => frame' = frame]_vars

\* The bus does not stay busy after the master has fallen silent, whatever
\* was lost or cut short before.
BusyEnds == <>[](sent = 0) => <>[]~MODBUS_IsBusy

\* A message of a length the protocol allows is acted on if the receiver was
\* free when it began (the master had waited for its answer).
Delivered == \A m \in Messages :
    MsgLen[m] \in MinFrame .. FrameSize =>
        (prompt /\ clear /\ msg = m /\ sent = 0 ~> handled = m)
=============================================================================
