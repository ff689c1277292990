------------------------------ MODULE UsartRx ------------------------------
(***************************************************************************)
(* The receive half of one port of src/src/ll/g0/usart_g0.c: the data      *)
(* register, the receive section of the interrupt handler with the default *)
(* RxHandler, the ring buffer it fills, and the calls that read the ring.  *)
(* src/src/ll/f103/usart_f103.c differs only in how errors are cleared: by *)
(* reading the data register.                                              *)
(*                                                                         *)
(* A byte that arrives while the data register is still full is lost and   *)
(* sets ORE; one that finds the ring full is dropped by RxHandler.  The    *)
(* accesses of the main program to head, tail and buffer are steps, with   *)
(* the handler (which runs to its end) between any two of them; bytes      *)
(* arrive at any time, between the sections of the handler too.            *)
(***************************************************************************)
EXTENDS Naturals, Sequences

CONSTANTS
    N,          \* USART_BUFFER_SIZE, a power of two in the code
    Bytes,      \* what a byte can be
    Newline,    \* the byte '\n'
    None,       \* an empty register, or no byte yet
    MaxLens     \* lengths of the buffers the application reads into

ASSUME RxAssumption == /\ N \in Nat /\ N > 1
                       /\ Newline \in Bytes /\ None \notin Bytes
                       /\ MaxLens \subseteq Nat

VARIABLES
    chip,         \* "g0" or "f103"; does not change
    rdr,          \* the data register: RXNE when it is not empty
    ore,          \* ISR.ORE
    rxbuf,        \* usartRXBuffers[port_id]
    rx_head,      \* rx_heads[port_id]: written by the handler only
    rx_tail,      \* rx_tails[port_id]: written by the main program only
    pc,           \* the access the main program makes next
    call,         \* which call it is in
    max_len,      \* argument of USART_ReadBytes
    byte,         \* the byte just read from the buffer
    buf,          \* what USART_ReadBytes has stored so far
    head_read,    \* USART_Available: the value of rx_heads it has read
    avail,        \* what USART_Available returned, until the next read
    got,          \* the byte handed to the application last
    ipc           \* section of the interrupt handler, "out" when not in it

ring == <<rxbuf, rx_head, rx_tail>>
vars == <<chip, rdr, ore, ring, pc, call, max_len, byte, buf, head_read, avail, got, ipc>>

Index == 0 .. N - 1

\* (i + 1) & USART_BUFFER_MASK
After(i) == IF i = N - 1 THEN 0 ELSE i + 1

\* Mutant: the difference is not masked.
BetweenNoMask(tail, head) == IF head >= tail THEN head - tail ELSE head + 65536 - tail

\* (head - tail) & USART_BUFFER_MASK
Between(tail, head) == IF head >= tail THEN head - tail ELSE head + N - tail

Init == /\ chip \in {"g0", "f103"}
        /\ rdr = None /\ ore = FALSE
        /\ rxbuf = [i \in Index |-> Newline]
        /\ rx_head = 0 /\ rx_tail = 0
        /\ pc = "idle" /\ call = "none" /\ max_len = 0
        /\ byte = None /\ buf = <<>> /\ head_read = 0 /\ avail = 0
        /\ got = None /\ ipc = "out"

-----------------------------------------------------------------------------
(* The line                                                                *)

Arrive(b) ==
    /\ IF rdr = None THEN rdr' = b /\ UNCHANGED ore
                     ELSE ore' = TRUE /\ UNCHANGED rdr
    /\ UNCHANGED <<chip, ring, pc, call, max_len, byte, buf, head_read, avail, got, ipc>>

-----------------------------------------------------------------------------
(* USART_IRQHandler_Shared and USART_RXHandler_Default                     *)

Enter ==
    /\ ipc = "out"
    /\ ipc' = "rx"
    /\ UNCHANGED <<chip, rdr, ore, ring, pc, call, max_len, byte, buf, head_read, avail, got>>

\* Mutant: a full ring is written to all the same.
ReceiveOver ==
    /\ ipc = "rx" /\ rdr # None
    /\ rxbuf' = [rxbuf EXCEPT ![rx_head] = rdr]
    /\ rx_head' = After(rx_head)
    /\ rdr' = None
    /\ ore' = (ore /\ chip = "g0")
    /\ ipc' = "err"
    /\ UNCHANGED <<chip, rx_tail, pc, call, max_len, byte, buf, head_read, avail, got>>

\* On the F103 the reads of SR and DR clear ORE with RXNE.
Receive ==
    /\ ipc = "rx" /\ rdr # None
    /\ IF After(rx_head) # rx_tail
       THEN /\ rxbuf' = [rxbuf EXCEPT ![rx_head] = rdr]
            /\ rx_head' = After(rx_head)
       ELSE UNCHANGED <<rxbuf, rx_head>>
    /\ rdr' = None
    /\ ore' = (ore /\ chip = "g0")
    /\ ipc' = "err"
    /\ UNCHANGED <<chip, rx_tail, pc, call, max_len, byte, buf, head_read, avail, got>>

NothingReceived ==
    /\ ipc = "rx" /\ rdr = None
    /\ ipc' = "err"
    /\ UNCHANGED <<chip, rdr, ore, ring, pc, call, max_len, byte, buf, head_read, avail, got>>

\* Mutant: the overrun flag is left set.
LeaveErrors ==
    /\ ipc = "err"
    /\ ipc' = "out"
    /\ UNCHANGED <<chip, rdr, ore, ring, pc, call, max_len, byte, buf, head_read, avail, got>>

\* On the F103 the read of DR throws away a byte that has come meanwhile.
ClearErrors ==
    /\ ipc = "err"
    /\ ore' = FALSE
    /\ rdr' = IF chip = "f103" /\ ore THEN None ELSE rdr
    /\ ipc' = "out"
    /\ UNCHANGED <<chip, ring, pc, call, max_len, byte, buf, head_read, avail, got>>

-----------------------------------------------------------------------------
(* The reading calls, while no interrupt is being served                   *)

Return == pc' = "idle" /\ call' = "none" /\ max_len' = 0 /\ buf' = <<>> /\ byte' = None /\ head_read' = 0

USART_ReadByte ==
    /\ pc = "idle" /\ ipc = "out"
    /\ call' = "ReadByte" /\ pc' = "test" /\ avail' = 0
    /\ UNCHANGED <<chip, rdr, ore, ring, max_len, byte, buf, head_read, got, ipc>>

USART_ReadBytes(n) ==
    /\ pc = "idle" /\ ipc = "out"
    /\ call' = "ReadBytes" /\ max_len' = n /\ pc' = "test" /\ avail' = 0
    /\ UNCHANGED <<chip, rdr, ore, ring, byte, buf, head_read, got, ipc>>

\* Nothing to read, or no room for it: USART_ReadByte returns '\0',
\* USART_ReadBytes what it has.
Finish ==
    /\ pc = "test" /\ ipc = "out"
    /\ \/ rx_tail = rx_head
       \/ call = "ReadBytes" /\ ~(Len(buf) + 1 < max_len)
    /\ Return
    /\ UNCHANGED <<chip, rdr, ore, ring, avail, got, ipc>>

\* Mutant: no room is kept for the terminating '\0'.
TakeFull ==
    /\ pc = "test" /\ ipc = "out"
    /\ rx_tail # rx_head
    /\ call = "ReadBytes" => Len(buf) < max_len
    /\ byte' = rxbuf[rx_tail]
    /\ pc' = "move"
    /\ UNCHANGED <<chip, rdr, ore, ring, call, max_len, buf, head_read, avail, got, ipc>>

Take ==
    /\ pc = "test" /\ ipc = "out"
    /\ rx_tail # rx_head
    /\ call = "ReadBytes" => Len(buf) + 1 < max_len
    /\ byte' = rxbuf[rx_tail]
    /\ pc' = "move"
    /\ UNCHANGED <<chip, rdr, ore, ring, call, max_len, buf, head_read, avail, got, ipc>>

Move ==
    /\ pc = "move" /\ ipc = "out"
    /\ rx_tail' = After(rx_tail)
    /\ got' = byte
    /\ IF call = "ReadByte" \/ byte = Newline
       THEN Return
       ELSE /\ buf' = Append(buf, byte)
            /\ pc' = "test" /\ byte' = None
            /\ UNCHANGED <<call, max_len, head_read>>
    /\ UNCHANGED <<chip, rdr, ore, rxbuf, rx_head, avail, ipc>>

\* USART_Available reads the head, then the tail.
USART_Available ==
    /\ pc = "idle" /\ ipc = "out"
    /\ call' = "Available" /\ head_read' = rx_head /\ pc' = "count"
    /\ UNCHANGED <<chip, rdr, ore, ring, max_len, byte, buf, avail, got, ipc>>

Count ==
    /\ pc = "count" /\ ipc = "out"
    /\ avail' = Between(rx_tail, head_read)
    /\ Return
    /\ UNCHANGED <<chip, rdr, ore, ring, got, ipc>>

-----------------------------------------------------------------------------
Call == USART_ReadByte \/ (\E n \in MaxLens : USART_ReadBytes(n)) \/ USART_Available

MainStep == Finish \/ Take \/ Move \/ Count

Handler == Receive \/ NothingReceived \/ ClearErrors

Next == (\E b \in Bytes : Arrive(b)) \/ Enter \/ Handler \/ Call \/ MainStep

Spec == Init /\ [][Next]_vars

\* RXNE and ORE both request the interrupt while RXNEIE is set.
Requested == rdr # None \/ ore

\* A requested interrupt is served and the handler goes on; the main
\* program gets time between interrupts.
LiveSpec == /\ Spec
            /\ WF_vars(Requested /\ Enter) /\ WF_vars(Handler)
            /\ SF_vars(MainStep)

-----------------------------------------------------------------------------
(* Properties                                                              *)

TypeOK ==
    /\ chip \in {"g0", "f103"}
    /\ rdr \in Bytes \cup {None} /\ ore \in BOOLEAN
    /\ rxbuf \in [Index -> Bytes] /\ rx_head \in Index /\ rx_tail \in Index
    /\ pc \in {"idle", "test", "move", "count"}
    /\ call \in {"none", "ReadByte", "ReadBytes", "Available"}
    /\ max_len \in MaxLens \cup {0}
    /\ byte \in Bytes \cup {None} /\ buf \in Seq(Bytes)
    /\ head_read \in Index /\ avail \in Index
    /\ got \in Bytes \cup {None}
    /\ ipc \in {"out", "rx", "err"}

Used == IF rx_head >= rx_tail THEN rx_head - rx_tail ELSE rx_head + N - rx_tail

Waiting == [k \in 1 .. Used |->
               rxbuf[IF rx_tail + k - 1 < N THEN rx_tail + k - 1 ELSE rx_tail + k - 1 - N]]

Fifo == INSTANCE ByteFifo WITH queue <- Waiting, out <- got

\* A byte once in the ring is handed to the application once and in order,
\* whatever arrives between the two accesses of a read.
ImplementsFifo == Fifo!Spec

\* As many bytes as USART_Available returned can be read, although the head
\* moves while it computes the difference.
AvailableIsThere == avail <= Used

\* Nothing is written outside the ring, nor outside the caller's buffer: there
\* is room for the terminating '\0' (122-139) in a buffer of one byte and more; one
\* of none is written beyond.
FitsBuffer == /\ TypeOK
              /\ pc # "idle" /\ call = "ReadBytes" => Len(buf) < max_len

\* Overruns are survived: the flag that would request the interrupt for ever
\* is cleared, and the data register emptied, again and again.
Recovers == (ore ~> ~ore) /\ (rdr # None ~> rdr = None)
=============================================================================
