----------------------------- MODULE ModbusWrite -----------------------------
(***************************************************************************)
(* How src/src/modbus.c carries out a request: the checks, the register    *)
(* file, the answer through the transmit ring of UsartTx, and the change   *)
(* of the port's own configuration, which a register holds and the         *)
(* transmit callback applies once the answer is out.                       *)
(*                                                                         *)
(* The main program runs between interrupts; its accesses to registers,    *)
(* uart_cfg_update and CR1 are steps.  RegWriteAvailable and               *)
(* validation_exti_func belong to the application: the first is a set of   *)
(* registers here, the second refuses the value Bad and, for the           *)
(* configuration register, sets uart_cfg_update, the only way the code     *)
(* leaves to request a reconfiguration.                                    *)
(***************************************************************************)
EXTENDS UsartTx

CONSTANTS
    RegCount,     \* config->reg_count; register 0 is *uart_cfg_reg
    Bad,          \* a value validation_exti_func refuses
    Writable,     \* registers RegWriteAvailable accepts
    HasCheck,     \* whether RegWriteAvailable is set at all
    Answer,       \* the bytes of an answer
    Exception,    \* the bytes of an exception answer
    MaxCount,     \* registers in one request
    Polite        \* the master waits for the answer before its next request

ASSUME ModbusWriteAssumption ==
    /\ RegCount \in Nat \ {0} /\ MaxCount \in Nat \ {0}
    /\ Bad \notin Formats
    /\ HasCheck \in BOOLEAN /\ Polite \in BOOLEAN
    /\ Answer \in Lines /\ Exception \in Lines

VARIABLES
    regs,              \* config->registers
    uart_cfg_update,   \* config->uart_cfg_update
    nv_dirty,          \* config->nv_dirty
    mpc,               \* what MODBUS_Process does next
    req,               \* the request in mb_active
    k,                 \* the loop variable of the write handlers
    before             \* the registers when the request was taken

modbus == <<regs, uart_cfg_update, nv_dirty, mpc, req, k, before>>
port   == <<ring, cr1, hw, main, ipc, configured, notified>>
mvars  == <<port, modbus>>

Regs == 0 .. RegCount - 1
Vals == Formats \cup {Bad}

Writes(fun, lens) == [fun: {fun}, bc: BOOLEAN, addr: 0 .. RegCount,
                      vals: UNION {[1 .. n -> Vals] : n \in lens}]
Reads    == [fun: {"read"}, bc: BOOLEAN, addr: 0 .. RegCount, vals: {<<>>}]
Requests == Writes("single", {1}) \cup Writes("multiple", 0 .. MaxCount) \cup Reads

NoReq == [fun |-> "none", bc |-> FALSE, addr |-> 0, vals |-> <<>>]

Idle(b) == /\ mpc' = "idle" /\ req' = NoReq /\ k' = 1 /\ before' = b

MInit == /\ Init
         /\ regs \in [Regs -> Formats]
         /\ regs[0] = configured
         /\ uart_cfg_update = FALSE /\ nv_dirty = FALSE
         /\ mpc = "idle" /\ req = NoReq /\ k = 1 /\ before = regs

-----------------------------------------------------------------------------
(* The request and its checks                                              *)

\* Nothing is left to send and the last answer has been followed by its
\* callback: what a master that waits sees.
Quiet == tx_head = tx_tail /\ tdr = None /\ shift = None /\ ~cr1.txeie /\ ~cr1.tcie

Take(r) ==
    /\ mpc = "idle" /\ ipc = "out"
    /\ Polite => Quiet
    /\ req' = r /\ k' = 1 /\ before' = regs
    /\ mpc' = "check"
    /\ UNCHANGED <<port, regs, uart_cfg_update, nv_dirty>>

\* The count and the addresses are those of registers.
InRange == /\ req.fun # "read" => Len(req.vals) >= 1
           /\ req.addr + Len(req.vals) <= RegCount
           /\ req.addr < RegCount

\* A broadcast is never answered, a broadcast read not even looked at.
Refuse == mpc' = IF req.bc THEN "done" ELSE "except"

Check ==
    /\ mpc = "check" /\ ipc = "out"
    /\ IF ~InRange THEN Refuse
       ELSE mpc' = IF req.fun # "read" THEN "validate"
                   ELSE IF req.bc THEN "done" ELSE "answer"
    /\ UNCHANGED <<port, regs, uart_cfg_update, nv_dirty, req, k, before>>

Current == req.addr + k - 1

\* WriteSingle refuses a register RegWriteAvailable does not accept,
\* WriteMultiple one that it does accept.
Refused == HasCheck /\ (IF req.fun = "single" THEN Current \notin Writable
                                              ELSE Current \in Writable)

\* Mutant: each value is stored as soon as it is validated.
ValidateStoring ==
    /\ mpc = "validate" /\ ipc = "out"
    /\ IF Refused \/ req.vals[k] = Bad
       THEN /\ Refuse
            /\ UNCHANGED <<uart_cfg_update, k, regs>>
       ELSE /\ uart_cfg_update' = (uart_cfg_update \/ Current = 0)
            /\ regs' = [regs EXCEPT ![Current] = req.vals[k]]
            /\ IF k < Len(req.vals) THEN k' = k + 1 /\ mpc' = "validate"
                                    ELSE k' = 1 /\ mpc' = "store"
    /\ UNCHANGED <<port, nv_dirty, req, before>>

\* validation_exti_func, called only when the register is available.
Validate ==
    /\ mpc = "validate" /\ ipc = "out"
    /\ IF Refused \/ req.vals[k] = Bad
       THEN /\ Refuse
            /\ UNCHANGED <<uart_cfg_update, k>>
       ELSE /\ uart_cfg_update' = (uart_cfg_update \/ Current = 0)
            /\ IF k < Len(req.vals) THEN k' = k + 1 /\ mpc' = "validate"
                                    ELSE k' = 1 /\ mpc' = "store"
    /\ UNCHANGED <<port, regs, nv_dirty, req, before>>

Store1 ==
    /\ mpc = "store" /\ ipc = "out"
    /\ regs' = [regs EXCEPT ![Current] = req.vals[k]]
    /\ IF k < Len(req.vals) THEN k' = k + 1 /\ UNCHANGED <<mpc, nv_dirty>>
       ELSE /\ k' = 1
            /\ nv_dirty' = TRUE
            /\ mpc' = IF req.bc THEN "flag" ELSE "answer"
    /\ UNCHANGED <<port, uart_cfg_update, req, before>>

-----------------------------------------------------------------------------
(* The answer                                                              *)

SendAnswer ==
    /\ mpc = "answer"
    /\ USART_WriteLine(Answer)
    /\ mpc' = "answering"
    /\ UNCHANGED <<regs, uart_cfg_update, nv_dirty, req, k, before>>

SendException ==
    /\ mpc = "except"
    /\ USART_WriteLine(Exception)
    /\ mpc' = "excepting"
    /\ UNCHANGED <<regs, uart_cfg_update, nv_dirty, req, k, before>>

\* USART_WriteLine has returned, or there was nothing to answer.
Answered ==
    /\ mpc \in {"answering", "excepting"} /\ pc = "idle" /\ ipc = "out"
    /\ mpc' = IF mpc = "answering" /\ req.fun # "read" THEN "flag" ELSE "done"
    /\ UNCHANGED <<port, regs, uart_cfg_update, nv_dirty, req, k, before>>

\* Mutant: the end of the answer is not asked for.
TestFlagNever ==
    /\ mpc = "flag" /\ ipc = "out"
    /\ mpc' = "done"
    /\ UNCHANGED <<port, regs, uart_cfg_update, nv_dirty, req, k, before>>

TestFlag ==
    /\ mpc = "flag" /\ ipc = "out"
    /\ mpc' = IF uart_cfg_update THEN "readTC" ELSE "done"
    /\ UNCHANGED <<port, regs, uart_cfg_update, nv_dirty, req, k, before>>

\* config->USARTx->CR1 |= USART_CR1_TCIE
ReadForTC ==
    /\ mpc = "readTC" /\ ipc = "out"
    /\ cr1_read' = cr1
    /\ mpc' = "writeTC"
    /\ UNCHANGED <<ring, cr1, hw, pc, str, put, ipc, configured, notified,
                   regs, uart_cfg_update, nv_dirty, req, k, before>>

WriteTC ==
    /\ mpc = "writeTC" /\ ipc = "out"
    /\ cr1' = [cr1_read EXCEPT !.tcie = TRUE]
    /\ cr1_read' = [txeie |-> FALSE, tcie |-> FALSE, fmt |-> configured]
    /\ mpc' = "done"
    /\ UNCHANGED <<ring, hw, pc, str, put, ipc, configured, notified,
                   regs, uart_cfg_update, nv_dirty, req, k, before>>

Done ==
    /\ mpc = "done" /\ ipc = "out"
    /\ Idle(regs)
    /\ UNCHANGED <<port, regs, uart_cfg_update, nv_dirty>>

-----------------------------------------------------------------------------
(* The port                                                                *)

\* ReconfigureUARTCFG takes the register as it is now.
MODBUS_TxCallback ==
    IF uart_cfg_update
    THEN configured' = regs[0] /\ cr1'.fmt = regs[0] /\ uart_cfg_update' = FALSE
    ELSE UNCHANGED <<configured, uart_cfg_update>> /\ cr1'.fmt = cr1.fmt

TxComplete ==
    /\ Complete
    /\ MODBUS_TxCallback
    /\ UNCHANGED <<regs, nv_dirty, mpc, req, k, before>>

Port ==
    /\ MainStep \/ Enter \/ Send \/ LastSent \/ NothingToSend \/ NotComplete \/ Hardware
    /\ UNCHANGED modbus

Process == \/ Check \/ Validate \/ Store1 \/ SendAnswer \/ SendException \/ Answered
           \/ TestFlag \/ ReadForTC \/ WriteTC \/ Done

MNext == (\E r \in Requests : Take(r)) \/ Process \/ TxComplete \/ Port

MSpec == MInit /\ [][MNext]_mvars

\* What UsartTx asks of the handler and the transmitter, and a request once
\* taken is worked on between the interrupts.
MLiveSpec == /\ MSpec
             /\ WF_mvars(Requested /\ Enter /\ UNCHANGED modbus)
             /\ WF_mvars(Port /\ Handler) /\ WF_mvars(TxComplete)
             /\ SF_mvars(Port /\ MainStep)
             /\ SF_mvars(Port /\ LoadShift) /\ WF_mvars(Port /\ ShiftOut)
             /\ SF_mvars(Process)

-----------------------------------------------------------------------------
(* Properties                                                              *)

\* A request that is answered with an exception has written nothing, one
\* that is answered has written all its registers and nothing else.
AllOrNothing ==
    /\ mpc \in {"except", "excepting"} => regs = before
    /\ mpc \in {"answer", "answering"} =>
          \A r \in Regs :
              regs[r] = IF r - req.addr + 1 \in 1 .. Len(req.vals)
                        THEN req.vals[r - req.addr + 1] ELSE before[r]

\* The port changes its configuration only after the answer to the request
\* that changed it has left, so the master can still read it.  The format that
\* is then in CR1 is put back to the old one by nothing but the |= of TCIE that
\* was under way (288, 365), never by that of TXEIE.
ReconfiguresAfterAnswer ==
    [][/\ configured' # configured =>
             /\ tx_head = tx_tail /\ tdr = None /\ shift = None
             /\ pc = "idle"
             /\ mpc \in {"answering", "flag", "readTC", "writeTC", "done", "idle"}
       /\ cr1.fmt = configured /\ cr1'.fmt # configured' => mpc = "writeTC"]_mvars

\* Once no more requests come, USART_Init has been called last with the
\* configuration in the register: a reconfiguration that was acknowledged is not
\* forgotten.  It says nothing of the format left in CR1, which the |= of TCIE
\* may have put back since (ReconfiguresAfterAnswer).
ConfigApplied == <>[](mpc = "idle") => <>[](configured = regs[0])

\* A register the application declared not writable keeps its value.
ReadOnlyKept ==
    [][HasCheck => \A r \in Regs \ Writable : regs'[r] = regs[r]]_mvars
=============================================================================
