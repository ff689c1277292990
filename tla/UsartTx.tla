------------------------------ MODULE UsartTx ------------------------------
(***************************************************************************)
(* The transmit half of one port of src/src/ll/g0/usart_g0.c: the ring     *)
(* buffer the main program fills (USART_WriteByte, USART_WriteLine), the   *)
(* interrupt handler that empties it, and the data and shift registers     *)
(* behind it.                                                              *)
(*                                                                         *)
(* The main program is interrupted between any two accesses to what it     *)
(* shares with the handler: the store into the buffer, the new head, the   *)
(* read of CR1 and the write of CR1 are steps of their own.  The handler   *)
(* runs to its end before the main program goes on, while the hardware     *)
(* shifts bytes out at its own pace, between the sections of the handler   *)
(* too.  The handler is entered for received bytes as well, in any state.  *)
(***************************************************************************)
EXTENDS Naturals, Sequences

CONSTANTS
    N,          \* USART_BUFFER_SIZE, a power of two in the code
    Bytes,      \* what a byte can be
    None,       \* an empty register
    MaxLine,    \* longest line the application hands to USART_WriteLine
    Formats     \* settings of the parity and word length bits of CR1

ASSUME UsartAssumption == /\ N \in Nat /\ N > 1
                          /\ MaxLine \in Nat
                          /\ None \notin Bytes

VARIABLES
    txbuf,        \* usartTXBuffers[port_id]
    tx_head,      \* tx_heads[port_id]: written by the main program only
    tx_tail,      \* tx_tails[port_id]: written by the handler only
    cr1,          \* USARTx->CR1: TXEIE, TCIE and the format bits
    tdr, shift,   \* data register (TXE when empty) and shift register
    tc,           \* ISR.TC
    line,         \* the byte that left last
    pc,           \* the access the main program makes next
    str,          \* what is left of the string being written
    put,          \* bytes this call has put into the ring
    cr1_read,     \* the operand of the |= under way
    ipc,          \* section of the interrupt handler, "out" when not in it
    configured,   \* the format USART_Init set last
    notified      \* TxHandler has been called since the last byte

ring == <<txbuf, tx_head, tx_tail>>
hw   == <<tdr, shift, tc, line>>
main == <<pc, str, put, cr1_read>>
vars == <<ring, cr1, hw, main, ipc, configured, notified>>

-----------------------------------------------------------------------------
Index == 0 .. N - 1

\* (i + 1) & USART_BUFFER_MASK
After(i) == IF i = N - 1 THEN 0 ELSE i + 1

Used == IF tx_head >= tx_tail THEN tx_head - tx_tail ELSE tx_head + N - tx_tail

Full == After(tx_head) = tx_tail

CR1 == [txeie: BOOLEAN, tcie: BOOLEAN, fmt: Formats]

Lines == UNION {[1 .. n -> Bytes] : n \in 0 .. MaxLine}

Init == /\ \E b \in Bytes : txbuf = [i \in Index |-> b]
        /\ tx_head = 0 /\ tx_tail = 0
        /\ configured \in Formats
        /\ cr1 = [txeie |-> FALSE, tcie |-> FALSE, fmt |-> configured]
        /\ tdr = None /\ shift = None /\ tc = TRUE /\ line = None
        /\ pc = "idle" /\ str = <<>> /\ put = 0 /\ cr1_read = cr1
        /\ ipc = "out" /\ notified = TRUE

-----------------------------------------------------------------------------
(* The main program, while no interrupt is being served                    *)

Return == pc' = "idle" /\ str' = <<>> /\ put' = 0

USART_WriteLine(s) ==
    /\ pc = "idle" /\ ipc = "out"
    /\ str' = s /\ put' = 0
    /\ pc' = IF s = <<>> THEN "read" ELSE "store"
    /\ UNCHANGED <<ring, cr1, hw, cr1_read, ipc, configured, notified>>

\* USART_WriteByte does the same with one byte.
USART_WriteByte(b) ==
    /\ pc = "idle" /\ ipc = "out"
    /\ str' = <<b>> /\ put' = 0
    /\ pc' = "store"
    /\ UNCHANGED <<ring, cr1, hw, cr1_read, ipc, configured, notified>>

\* No room for the next byte: the call returns at once, and neither the
\* rest of the string nor TXEIE is dealt with.
GiveUp ==
    /\ pc = "store" /\ ipc = "out"
    /\ Full
    /\ Return
    /\ UNCHANGED <<ring, cr1, hw, cr1_read, ipc, configured, notified>>

\* Mutant: a full ring is written to all the same.
StoreOver ==
    /\ pc = "store" /\ ipc = "out"
    /\ txbuf' = [txbuf EXCEPT ![tx_head] = Head(str)]
    /\ pc' = "advance"
    /\ UNCHANGED <<tx_head, tx_tail, cr1, hw, str, put, cr1_read, ipc, configured, notified>>

Store ==
    /\ pc = "store" /\ ipc = "out"
    /\ ~Full
    /\ txbuf' = [txbuf EXCEPT ![tx_head] = Head(str)]
    /\ pc' = "advance"
    /\ UNCHANGED <<tx_head, tx_tail, cr1, hw, str, put, cr1_read, ipc, configured, notified>>

\* Mutant: TXEIE is taken to be set already when the ring is not empty.
AdvanceTrusting ==
    /\ pc = "advance" /\ ipc = "out"
    /\ tx_head' = After(tx_head)
    /\ put' = put + 1
    /\ str' = Tail(str)
    /\ pc' = IF Tail(str) # <<>> THEN "store"
             ELSE IF tx_head # tx_tail THEN "idle" ELSE "read"
    /\ UNCHANGED <<txbuf, tx_tail, cr1, hw, cr1_read, ipc, configured, notified>>

Advance ==
    /\ pc = "advance" /\ ipc = "out"
    /\ tx_head' = After(tx_head)
    /\ put' = put + 1
    /\ str' = Tail(str)
    /\ pc' = IF Tail(str) = <<>> THEN "read" ELSE "store"
    /\ UNCHANGED <<txbuf, tx_tail, cr1, hw, cr1_read, ipc, configured, notified>>

\* USARTx->CR1 |= USART_CR1_TXEIE_TXFNFIE is a load and a store.
ReadCR1 ==
    /\ pc = "read" /\ ipc = "out"
    /\ cr1_read' = cr1
    /\ pc' = "write"
    /\ UNCHANGED <<ring, cr1, hw, str, put, ipc, configured, notified>>

WriteCR1 ==
    /\ pc = "write" /\ ipc = "out"
    /\ cr1' = [cr1_read EXCEPT !.txeie = TRUE]
    /\ cr1_read' = [txeie |-> FALSE, tcie |-> FALSE, fmt |-> configured]
    /\ Return
    /\ UNCHANGED <<ring, hw, ipc, configured, notified>>

-----------------------------------------------------------------------------
(* USART_IRQHandler_Shared: the sections that concern the transmitter      *)

Requested == (cr1.txeie /\ tdr = None) \/ (cr1.tcie /\ tc)

Enter ==
    /\ ipc = "out"
    /\ ipc' = "tx"
    /\ UNCHANGED <<ring, cr1, hw, main, configured, notified>>

\* TXE and TXEIE, a byte waits: it goes to the data register, which resets TC.
Send ==
    /\ ipc = "tx" /\ tdr = None /\ cr1.txeie
    /\ tx_tail # tx_head
    /\ tdr' = txbuf[tx_tail]
    /\ tc' = FALSE
    /\ tx_tail' = After(tx_tail)
    /\ notified' = FALSE
    /\ ipc' = "tc"
    /\ UNCHANGED <<txbuf, tx_head, cr1, shift, line, main, configured>>

\* TXE and TXEIE, nothing waits: wait for the transmission to complete.
LastSent ==
    /\ ipc = "tx" /\ tdr = None /\ cr1.txeie
    /\ tx_tail = tx_head
    /\ cr1' = [cr1 EXCEPT !.txeie = FALSE, !.tcie = TRUE]
    /\ ipc' = "tc"
    /\ UNCHANGED <<ring, hw, main, configured, notified>>

NothingToSend ==
    /\ ipc = "tx" /\ ~(tdr = None /\ cr1.txeie)
    /\ ipc' = "tc"
    /\ UNCHANGED <<ring, cr1, hw, main, configured, notified>>

\* TxHandler may call USART_Init, for another format.
TxHandler ==
    \/ /\ cr1' = [cr1 EXCEPT !.tcie = FALSE]
       /\ UNCHANGED configured
    \/ /\ configured' \in Formats
       /\ cr1' = [cr1 EXCEPT !.tcie = FALSE, !.fmt = configured']

\* Mutant: TCIE alone is taken for a completed transmission.
CompleteHasty ==
    /\ ipc = "tc" /\ cr1.tcie
    /\ notified' = TRUE
    /\ TxHandler
    /\ ipc' = "out"
    /\ UNCHANGED <<ring, hw, main>>

\* TC and TCIE: the transmission is complete.
Complete ==
    /\ ipc = "tc" /\ tc /\ cr1.tcie
    /\ notified' = TRUE
    /\ TxHandler
    /\ ipc' = "out"
    /\ UNCHANGED <<ring, hw, main>>

NotComplete ==
    /\ ipc = "tc" /\ ~(tc /\ cr1.tcie)
    /\ ipc' = "out"
    /\ UNCHANGED <<ring, cr1, hw, main, configured, notified>>

-----------------------------------------------------------------------------
(* The transmitter                                                         *)

\* The handler's last section is shorter than a byte on the line: one it has
\* just written to the data register cannot be gone before the handler is.
LoadShift ==
    /\ tdr # None /\ shift = None
    /\ ipc # "tc"
    /\ shift' = tdr /\ tdr' = None
    /\ UNCHANGED <<ring, cr1, tc, line, main, ipc, configured, notified>>

ShiftOut ==
    /\ shift # None
    /\ line' = shift /\ shift' = None
    /\ tc' = (tdr = None)
    /\ UNCHANGED <<ring, cr1, tdr, main, ipc, configured, notified>>

-----------------------------------------------------------------------------
Call == (\E s \in Lines : USART_WriteLine(s)) \/ (\E b \in Bytes : USART_WriteByte(b))

MainStep == GiveUp \/ Store \/ Advance \/ ReadCR1 \/ WriteCR1

Handler == Send \/ LastSent \/ NothingToSend \/ Complete \/ NotComplete

Hardware == LoadShift \/ ShiftOut

Next == Call \/ MainStep \/ Enter \/ Handler \/ Hardware

Spec == Init /\ [][Next]_vars

\* A requested interrupt is served, the handler and a call once begun go on
\* (received bytes leave the main program time to run: SF), and the
\* transmitter clocks its bytes out.  Nothing obliges the application to
\* write.
Fairness == /\ WF_vars(Requested /\ Enter)
            /\ WF_vars(Handler)
            /\ SF_vars(MainStep)
            /\ SF_vars(LoadShift) /\ WF_vars(ShiftOut)

LiveSpec == Spec /\ Fairness

-----------------------------------------------------------------------------
(* Properties                                                              *)

TypeOK ==
    /\ txbuf \in [Index -> Bytes]
    /\ tx_head \in Index /\ tx_tail \in Index
    /\ cr1 \in CR1 /\ cr1_read \in CR1
    /\ tdr \in Bytes \cup {None} /\ shift \in Bytes \cup {None}
    /\ line \in Bytes \cup {None}
    /\ tc \in BOOLEAN /\ notified \in BOOLEAN
    /\ pc \in {"idle", "store", "advance", "read", "write"}
    /\ str \in Seq(Bytes) /\ put \in Nat
    /\ ipc \in {"out", "tx", "tc"}
    /\ configured \in Formats

\* When no call is under way and bytes wait in the ring, the interrupt that
\* sends them is enabled, whatever was overwritten by a stale |= on CR1.
NoStall == pc = "idle" /\ tx_head # tx_tail => cr1.txeie

\* The ring as a sequence, oldest byte first.
Waiting == [k \in 1 .. Used |->
               txbuf[IF tx_tail + k - 1 < N THEN tx_tail + k - 1 ELSE tx_tail + k - 1 - N]]

Held(r) == IF r = None THEN <<>> ELSE <<r>>

Fifo == INSTANCE ByteFifo WITH queue <- Held(shift) \o Held(tdr) \o Waiting,
                               out   <- line

\* Bytes leave once each, in the order the calls put them into the ring,
\* whatever the handler interrupts and across the end of the buffer.
ImplementsFifo == Fifo!Spec

\* TxHandler (which may reprogram the port) is called only when the last
\* byte has left the shift register; bytes that wait in the ring belong to a
\* call still under way.
CompleteMeansSent ==
    [][ipc = "tc" /\ notified' /\ ~notified =>
          tdr = None /\ shift = None /\ (tx_head = tx_tail \/ pc # "idle")]_vars

\* Every byte in the ring is sent: no interleaving of a |= on CR1 with the
\* handler leaves it behind.
BytesLeave == \A t \in Index : (tx_tail = t /\ tx_head # t) ~> tx_tail # t

\* Why NoStall holds when a line fits the buffer (MaxLine < N): while TXEIE
\* is off, everything in the ring was put there by the call under way, so
\* that call cannot find the ring full before its end.
RingInv ==
    /\ TypeOK
    /\ pc = "idle" => put = 0
    /\ pc \in {"store", "advance"} => str # <<>> /\ put + Len(str) < N
    /\ pc = "advance" => ~Full
    /\ ~cr1.txeie => Used <= put
=============================================================================
