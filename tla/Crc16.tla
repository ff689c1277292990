-------------------------------- MODULE Crc16 --------------------------------
(***************************************************************************)
(* MODBUS_CRC16 of src/src/modbus.c, how an answer carries it and how a    *)
(* request is checked with it, on a line that disturbs some bits.  A byte  *)
(* or word is the set of the numbers of its bits that are 1.               *)
(***************************************************************************)
EXTENDS Integers, Sequences

CONSTANTS
    Messages,   \* what is sent: sequences of bytes
    Burst       \* the line disturbs bits no further apart than this

VARIABLES
    frame,      \* buffer
    sent,       \* history: the frame as it was sent
    verdict     \* whether the CRC was found right

vars == <<frame, sent, verdict>>

Xor(a, b)  == (a \ b) \cup (b \ a)
Right(w)   == {i - 1 : i \in w \ {0}}
Left(w, n) == {i + n : i \in w}
Low(w)     == w \cap 0 .. 7
High(w)    == {i - 8 : i \in w \cap 8 .. 15}

\* Mutant: the bit that is shifted out is not looked at.
RoundAlways(w) == Xor(Right(w), {15, 13, 0})

\* One round of the inner loop; 0xA001 is {15, 13, 0}.
Round(w) == IF 0 \in w THEN Xor(Right(w), {15, 13, 0}) ELSE Right(w)

EightRounds(w) == Round(Round(Round(Round(Round(Round(Round(Round(w))))))))

\* wCRCWord after each byte.
CrcAfter(bytes) ==
    LET crc[n \in 0 .. Len(bytes)] ==
            IF n = 0 THEN 0 .. 15 ELSE EightRounds(Xor(crc[n - 1], bytes[n]))
    IN crc

MODBUS_CRC16(bytes) == CrcAfter(bytes)[Len(bytes)]

\* The end of each answer: low byte first.
WithCrc(bytes) == bytes \o <<Low(MODBUS_CRC16(bytes)), High(MODBUS_CRC16(bytes))>>

\* The check in MODBUS_Process.
Checks(f) ==
    LET n == Len(f) IN
    Left(f[n], 8) \cup f[n - 1] = MODBUS_CRC16(SubSeq(f, 1, n - 2))

Init == \E m \in Messages : frame = WithCrc(m) /\ sent = frame /\ verdict = "none"

\* Bits of the line, the lowest of each byte first.
Flip(f, bits) == [k \in DOMAIN f |-> Xor(f[k], {i \in 0 .. 7 : 8 * (k - 1) + i \in bits})]

\* A burst of bits, or three of them anywhere.
Disturb ==
    /\ frame = sent /\ verdict = "none"
    /\ LET places == 0 .. 8 * Len(sent) - 1 IN
          \/ \E first \in places, more \in SUBSET (1 .. Burst - 1) :
                frame' = Flip(sent, {first} \cup {first + i : i \in more})
          \/ \E a, b, c \in places :
                a < b /\ b < c /\ frame' = Flip(sent, {a, b, c})
    /\ UNCHANGED <<sent, verdict>>

MODBUS_Process ==
    /\ verdict = "none"
    /\ verdict' = IF Checks(frame) THEN "right" ELSE "wrong"
    /\ UNCHANGED <<frame, sent>>

Next == Disturb \/ MODBUS_Process

Spec == Init /\ [][Next]_vars

-----------------------------------------------------------------------------
(* Properties                                                              *)

Digits == <<{0, 4, 5}, {1, 4, 5}, {0, 1, 4, 5}, {2, 4, 5}, {0, 2, 4, 5},
            {1, 2, 4, 5}, {0, 1, 2, 4, 5}, {3, 4, 5}, {0, 3, 4, 5}>>

\* A frame as it is sent is found right; one with a burst of disturbed bits, or
\* three anywhere, is found wrong, the bytes of the CRC included; and the CRC is
\* the one other devices compute, in the order in which they send it, the low
\* byte first: "123456789" (Digits) goes with 0x37, 0x4B behind it.
CrcDetects ==
    /\ verdict = "right" => frame = sent
    /\ verdict = "wrong" => frame # sent
    /\ WithCrc(Digits) = Digits \o <<{0, 1, 2, 4, 5}, {0, 1, 3, 6}>>
=============================================================================
