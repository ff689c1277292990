------------------------------- MODULE SoftI2c -------------------------------
(***************************************************************************)
(* The two wires of an I2C bus: the calls of src/src/soft_i2c.c, one       *)
(* access to a pin after the other, I2C_BusRecover of the G0 driver and    *)
(* the nine clocks of I2C_Init of the F103 driver, against a device that   *)
(* listens on the wires.  A wire is high when nobody pulls it low.  The    *)
(* device follows an edge before the next access and does not stretch the  *)
(* clock, which soft_i2c.c could not see.  The program may be reset at any *)
(* time; the device is not.  A transfer of the peripheral that was given   *)
(* up, with I2C_Init called again, leaves the wires as a reset does, and   *)
(* the output registers high.                                              *)
(*                                                                         *)
(* A byte has Bits bits, a recovery Bits + 1 clocks.                       *)
(***************************************************************************)
EXTENDS Naturals, Sequences

CONSTANT Bits

VARIABLES
    sda, scl,      \* the program's pins: 0 pulls the wire low
    ops, made,     \* the accesses of the call under way, and how many are done
    call, arg,     \* which call it is; the byte written, the acknowledge given,
                   \* or what a recovery finds in ODR
    bits,          \* what it has read from SDA so far
    state,         \* what the application may call next
    dev,           \* the device
    taking         \* history: it was acknowledging a byte, or taking its
                   \* address, when the call began

wires == <<sda, scl>>
vars  == <<wires, ops, made, call, arg, bits, state, dev, taking>>

Bit   == {0, 1}
Bytes == [1 .. Bits -> Bit]

-----------------------------------------------------------------------------
(* The device is addressed by its first byte, then takes bytes or gives    *)
(* them.  dev.bit counts the clocks of a byte, the last one being the      *)
(* acknowledge; dev.whole is the last byte that crossed the bus.  It may   *)
(* acknowledge any byte but an address of ones, which no device has: the   *)
(* I2C specification reserves it.                                          *)

Idle == [mode |-> "idle", bit |-> 0, byte |-> <<>>, out |-> 1, ack |-> 1,
         first |-> FALSE, whole |-> <<>>]

\* SDA, when the program puts v on its pin.
SDA(v, d) == IF v = 0 \/ d.out = 0 THEN 0 ELSE 1
Wire      == SDA(sda, dev)

\* The clock of an acknowledge has ended: the next byte begins.
Sends(d)   == {[d EXCEPT !.mode = "send", !.bit = 1, !.byte = b, !.out = b[1],
                         !.first = FALSE, !.whole = d.byte] : b \in Bytes}
Receive(d, first) == [d EXCEPT !.mode = "receive", !.bit = 1, !.byte = <<>>, !.out = 1,
                               !.first = first, !.whole = d.byte]
Deaf(d)    == [Idle EXCEPT !.mode = "deaf", !.whole = d.byte]

\* SCL rises: a bit, or the acknowledge, is taken from the wire.
Rise(d, w) ==
    IF d.mode = "receive" /\ d.bit <= Bits THEN {[d EXCEPT !.byte = Append(d.byte, w)]}
    ELSE IF d.mode = "send" /\ d.bit = Bits + 1 THEN {[d EXCEPT !.ack = w]}
    ELSE {d}

Ones    == [i \in 1 .. Bits |-> 1]
Acks(d) == IF d.first /\ d.byte = Ones THEN {1} ELSE Bit

\* SCL falls: on to the next bit, the acknowledge or the next byte.
NextBit(d) ==
    IF d.mode = "send"
    THEN {[d EXCEPT !.bit = d.bit + 1, !.out = IF d.bit < Bits THEN d.byte[d.bit + 1] ELSE 1]}
    ELSE IF d.bit < Bits THEN {[d EXCEPT !.bit = d.bit + 1]}
    ELSE {[d EXCEPT !.bit = d.bit + 1, !.out = a, !.ack = a] : a \in Acks(d)}

NextByte(d) ==
    IF d.ack = 1 THEN {Deaf(d)}
    ELSE (IF d.mode = "send" \/ d.first THEN Sends(d) ELSE {})
         \cup (IF d.mode = "receive" THEN {Receive(d, FALSE)} ELSE {})

Fall(d) ==
    IF d.mode \in {"idle", "deaf"} THEN {d}
    ELSE IF d.mode = "start" THEN {Receive(d, TRUE)}
    ELSE IF d.bit <= Bits THEN NextBit(d) ELSE NextByte(d)

\* SDA changes while SCL is high: the bus begins or ends.
Condition(w) == IF w = 0 THEN [Idle EXCEPT !.mode = "start"] ELSE Idle

I2C_SDA(v) ==
    /\ sda' = v /\ UNCHANGED scl
    /\ dev' = IF scl = 1 /\ SDA(v, dev) # Wire THEN Condition(SDA(v, dev)) ELSE dev

I2C_SCL(v) ==
    /\ scl' = v /\ UNCHANGED sda
    /\ dev' \in IF v = scl THEN {dev} ELSE IF v = 1 THEN Rise(dev, Wire) ELSE Fall(dev)

-----------------------------------------------------------------------------
(* The calls, as accesses to the pins                                      *)

Sda(v)   == <<"sda", v>>
Scl(v)   == <<"scl", v>>
I2C_READ == <<"read", 0>>

StartOps == <<Sda(1), Scl(1), Sda(0), Scl(0)>>
StopOps  == <<Sda(0), Scl(1), Sda(1)>>

\* The accesses in p, n times.
Repeat(n, p) == [i \in 1 .. n * Len(p) |-> p[1 + ((i - 1) % Len(p))]]

\* The bits of a byte, each with a clock.
BitOps(b) == [i \in 1 .. 3 * Bits |-> <<Sda(b[1 + ((i - 1) \div 3)]), Scl(1), Scl(0)>>[1 + ((i - 1) % 3)]]

WriteOps(b) == BitOps(b) \o <<Sda(1), Scl(1), I2C_READ, Scl(0)>>

\* Mutant: SDA is let go before SCL falls.
ReadOpsEarly(ack) == <<Sda(1)>> \o Repeat(Bits, <<Scl(1), I2C_READ, Scl(0)>>)
                     \o <<Sda(ack), Scl(1), Sda(1), Scl(0)>>

ReadOps(ack) == <<Sda(1)>> \o Repeat(Bits, <<Scl(1), I2C_READ, Scl(0)>>)
                \o <<Sda(ack), Scl(1), Scl(0), Sda(1)>>

\* The F103 driver clocks SCL only and sends no STOP.
NineClocks == Repeat(Bits + 1, <<Scl(0), Scl(1)>>)

\* GPIO_PinMode makes outputs of the pins before anything is written to them:
\* they show what ODR holds, o, and 0 after a reset pulls both wires low.
Outputs(o) == <<Sda(o), Scl(o), Sda(1), Scl(1)>>

\* Mutant: one clock is missing.
RecoverOpsShort(o) == Outputs(o) \o Repeat(Bits, <<Scl(0), Scl(1)>>) \o <<Sda(0), Scl(1), Sda(1)>>

RecoverOps(o) == Outputs(o) \o NineClocks \o <<Sda(0), Scl(1), Sda(1)>>

Begin(name, accesses, a) ==
    /\ made = Len(ops)
    /\ call' = name /\ ops' = accesses /\ made' = 0 /\ arg' = a /\ bits' = <<>>
    /\ taking' = (dev.mode = "receive" /\ (dev.out = 0 \/ dev.first))
    /\ UNCHANGED <<wires, state, dev>>

SoftI2C_Start    == state \in {"free", "write", "last"} /\ Begin("start", StartOps, <<>>)
SoftI2C_Stop     == state \in {"write", "last"} /\ Begin("stop", StopOps, <<>>)
SoftI2C_Write(b) == state \in {"address", "write"} /\ Begin("write", WriteOps(b), b)
SoftI2C_Read(a)  == state = "read" /\ Begin("read", ReadOps(a), <<a>>)
I2C_BusRecover   == state = "reset" /\ \E o \in Bit : Begin("recover", RecoverOps(o), <<o>>)
I2C_Init_F103    == state = "reset" /\ Begin("clocks", NineClocks, <<>>)

-----------------------------------------------------------------------------
(* The application: a START, an address, then bytes one way, a STOP.  It   *)
(* stops after a refused byte, and gives a NACK (1) for the last byte it   *)
(* reads.  After a reset it recovers the bus first, and has no bus when a  *)
(* wire stays low.                                                         *)

Init == /\ sda = 1 /\ scl = 1 /\ ops = <<>> /\ made = 0 /\ bits = <<>>
        /\ call = "none" /\ arg = <<>> /\ taking = FALSE
        /\ state = "free" /\ dev = Idle

\* What may be called once the call has returned.
After ==
    IF call = "start" THEN "address"
    ELSE IF call = "write"
    THEN IF bits[1] = 1 THEN "last" ELSE IF dev'.mode = "send" THEN "read" ELSE "write"
    ELSE IF call = "read" THEN IF arg = <<1>> THEN "last" ELSE "read"
    ELSE IF call = "reset" THEN "reset"
    ELSE IF SDA(sda', dev') = 1 THEN "free" ELSE "held"

Access ==
    /\ made < Len(ops) /\ made' = made + 1
    /\ LET op == ops[made + 1] IN
       \/ op = I2C_READ /\ bits' = Append(bits, Wire) /\ UNCHANGED <<wires, dev>>
       \/ \E v \in Bit : op = Sda(v) /\ I2C_SDA(v) /\ UNCHANGED bits
       \/ \E v \in Bit : op = Scl(v) /\ I2C_SCL(v) /\ UNCHANGED bits
    /\ state' = IF made' = Len(ops) THEN After ELSE state
    /\ UNCHANGED <<ops, call, arg, taking>>

\* The program is reset: both pins are let go, one a moment before the other.
Reset ==
    /\ call # "reset" /\ call' = "reset"
    /\ ops' \in {<<Sda(1), Scl(1)>>, <<Scl(1), Sda(1)>>} /\ made' = 0
    /\ arg' = <<>> /\ bits' = <<>> /\ taking' = FALSE
    /\ UNCHANGED <<wires, state, dev>>

Call ==
    \/ SoftI2C_Start \/ SoftI2C_Stop
    \/ \E b \in Bytes : SoftI2C_Write(b)
    \/ \E a \in Bit : SoftI2C_Read(a)
    \/ I2C_BusRecover \/ I2C_Init_F103

Next == Call \/ Access \/ Reset

Spec == Init /\ [][Next]_vars

-----------------------------------------------------------------------------
(* Properties                                                              *)

\* The types; dev.out = 1 unless the device owns the bit.
TypeOK ==
    /\ sda \in Bit /\ scl \in Bit /\ taking \in BOOLEAN
    /\ ops \in Seq({Sda(v) : v \in Bit} \cup {Scl(v) : v \in Bit} \cup {I2C_READ})
    /\ made \in 0 .. Len(ops)
    /\ call \in {"none", "start", "stop", "write", "read", "recover", "clocks", "reset"}
    /\ state \in {"free", "address", "write", "read", "last", "reset", "held"}
    /\ dev.mode \in {"idle", "start", "deaf", "send", "receive"}
    /\ dev.bit \in 0 .. Bits + 1 /\ dev.out \in Bit /\ dev.ack \in Bit
    /\ bits \in Seq(Bit) /\ Len(bits) <= Bits
    /\ dev.byte \in Seq(Bit) /\ Len(dev.byte) <= Bits
    /\ dev.mode \in {"idle", "start", "deaf"} => dev.out = 1

\* A write that returns 0 has given the device its byte, whole; a read returns
\* the byte the device sent.
Truthful ==
    made = Len(ops) =>
        /\ call = "write" /\ bits = <<0>> => dev.whole = arg
        /\ call = "read" => bits = dev.whole

\* Two cases no nine clocks clear: a device that was acknowledging a byte counts
\* them as one more byte and acknowledges it; one that was taking its address,
\* and finds it when the rest is ones, begins to send.  Both can hold SDA low
\* after the last clock.  A recovery that finds 0 in ODR meets neither: it begins
\* with a START and a clock too many.
Spared == taking /\ ~(call = "recover" /\ arg = <<0>>)

\* After SoftI2C_Stop and after I2C_BusRecover, wherever in a byte the device
\* was, both wires are high and it waits for a START; the nine clocks of the
\* F103 driver free the wires, without the STOP.  After a reset I2C_BusRecover
\* does so in every case; the nine clocks of the F103 driver, and I2C_BusRecover
\* called once more without a reset, in every case but the two of Spared.
WiresFree ==
    made = Len(ops) /\ call \in {"stop", "recover", "clocks"} /\ ~Spared =>
        /\ Wire = 1 /\ scl = 1
        /\ call # "clocks" => dev = Idle
=============================================================================
