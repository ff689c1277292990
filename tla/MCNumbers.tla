------------------------------ MODULE MCNumbers ------------------------------
(***************************************************************************)
(* The parts that are right or wrong by their arithmetic: the commit       *)
(* timer, the button, the timing of the port, the lengths of requests and  *)
(* the CRC.  They share nothing, so `part' chooses one at the start and    *)
(* only that one moves.                                                    *)
(***************************************************************************)
EXTENDS NvCommit, Sequences

CONSTANTS debounce_ms, long_press_ms, Bounce, Gap, MaxClosed,
          Clocks, Configs,
          RegCounts, Addresses, Counts, ByteCounts, Lengths,
          Messages, Burst

\* The button: the application polls often enough to tell a press from a bounce,
\* and nobody holds it until the counter has gone round.
ASSUME ButtonAssumption ==
    /\ debounce_ms \in Nat /\ long_press_ms \in Nat
    /\ Bounce \in Nat /\ Gap \in Nat /\ MaxClosed \in Nat
    /\ Bounce + Gap < debounce_ms
    /\ MaxClosed + 2 * Bounce + Gap < 2 * Half

\* The widths of the fields of a request.  From 32766 registers on the test of
\* the length of an answer wraps around before the count is compared.
ASSUME WidthsAssumption ==
    /\ \A n \in RegCounts : n \in Nat /\ n < 32766
    /\ \A n \in Addresses \cup Counts : n \in Nat /\ n < 65536
    /\ \A n \in ByteCounts : n \in Nat /\ n < 256
    /\ \A n \in Lengths : n \in Nat /\ 5 <= n /\ n <= 256

\* The widths of the fields of RCC's registers and of *uart_cfg_reg.
ASSUME ClocksAssumption ==
    /\ \A c \in Clocks :
          /\ c.chip \in {"g0", "f103"} /\ c.usart \in Nat /\ c.sws \in 0 .. 7 /\ c.hpre \in 0 .. 15
          /\ c.ppre \in 0 .. 7 /\ c.ppre2 \in 0 .. 7 /\ c.src \in 0 .. 3 /\ c.hsidiv \in 0 .. 7
          /\ c.m \in 0 .. 7 /\ c.n \in 0 .. 127 /\ c.r \in 0 .. 7
    /\ \A cfg \in Configs : cfg \in Nat

\* Messages are bytes, and a burst is no longer than the CRC.
ASSUME CrcAssumption == Messages \subseteq Seq(SUBSET (0 .. 7)) /\ Burst \in 1 .. 16

VARIABLES part,
          b_now, b_pressed, b_start, b_level, b_phase, b_age, b_polled, b_hold, b_clicks,
          t_rcc, t_cr1, t_stop, t_brr, t_psc, t_arr, t_asked,
          r_count, r_req, r_ans,
          x_frame, x_sent, x_verdict

Btn == INSTANCE Button WITH
    now <- b_now, is_pressed <- b_pressed, press_start_ms <- b_start, level <- b_level,
    phase <- b_phase, age <- b_age, polled <- b_polled, hold <- b_hold, clicks <- b_clicks

Port == INSTANCE PortTiming WITH
    rcc <- t_rcc, cr1 <- t_cr1, stop <- t_stop, brr <- t_brr, psc <- t_psc, arr <- t_arr,
    asked <- t_asked

Lens == INSTANCE ModbusRequests WITH reg_count <- r_count, req <- r_req, ans <- r_ans

Crc == INSTANCE Crc16 WITH frame <- x_frame, sent <- x_sent, verdict <- x_verdict

bVars == <<b_now, b_pressed, b_start, b_level, b_phase, b_age, b_polled, b_hold, b_clicks>>
tVars == <<t_rcc, t_cr1, t_stop, t_brr, t_psc, t_arr, t_asked>>
rVars == <<r_count, r_req, r_ans>>
xVars == <<x_frame, x_sent, x_verdict>>

\* The parts that do not move begin in one state.
MCInit == /\ part \in {"commit", "button", "timing", "requests", "crc"}
          /\ Init      /\ (part # "commit" => now = 0)
          /\ Btn!Init  /\ (part # "button" => b_now = 0 /\ ~b_level)
          /\ Port!Init /\ (part # "timing" => t_rcc = CHOOSE c \in Clocks : TRUE)
          /\ Lens!Init /\ (part # "requests" => r_count = CHOOSE n \in RegCounts : TRUE)
          /\ Crc!Init  /\ (part # "crc" => x_sent = Crc!WithCrc(CHOOSE m \in Messages : TRUE))

\* One request, one frame: the next one finds nothing of it.
Over == \/ part = "requests" /\ r_req # <<>>
        \/ part = "crc" /\ x_verdict # "none"

MCNext ==
    /\ UNCHANGED part
    /\ \/ part = "commit"   /\ Next      /\ UNCHANGED <<bVars, tVars, rVars, xVars>>
       \/ part = "button"   /\ Btn!Next  /\ UNCHANGED <<vars, tVars, rVars, xVars>>
       \/ part = "timing"   /\ Port!Next /\ UNCHANGED <<vars, bVars, rVars, xVars>>
       \/ part = "requests" /\ Lens!Next /\ UNCHANGED <<vars, bVars, tVars, xVars>>
       \/ part = "crc"      /\ Crc!Next  /\ UNCHANGED <<vars, bVars, tVars, rVars>>
       \/ Over /\ UNCHANGED <<vars, bVars, tVars, rVars, xVars>>

MCSpec == MCInit /\ [][MCNext]_<<part, vars, bVars, tVars, rVars, xVars>>

-----------------------------------------------------------------------------
(* The values                                                              *)

G0(sws)   == [chip |-> "g0", usart |-> 2, sws |-> sws, hpre |-> 0, ppre |-> 0, ppre2 |-> 0,
              src |-> 2, m |-> 0, n |-> 8, r |-> 1, hsidiv |-> 0]
F103(sws) == [chip |-> "f103", usart |-> 2, sws |-> sws, hpre |-> 0, ppre |-> 0, ppre2 |-> 0,
              src |-> 1, m |-> 0, n |-> 7, r |-> 0, hsidiv |-> 0]

\* HSI with and without its divider, HSE, PLL from either (64 and 60 MHz); the
\* F103's 8, 24 and 72 MHz; AHB dividers; USART1 behind a divided APB2.
WholeClocks == {G0(0), [G0(0) EXCEPT !.hsidiv = 1], G0(1), G0(2), [G0(2) EXCEPT !.hpre = 8],
                [G0(2) EXCEPT !.src = 3, !.m = 1, !.n = 30],
                F103(0), F103(1), F103(2), [F103(2) EXCEPT !.hpre = 8],
                [F103(2) EXCEPT !.src = 0, !.n = 4],
                [F103(2) EXCEPT !.usart = 1, !.ppre2 = 5], [G0(2) EXCEPT !.usart = 1]}

\* 72 MHz, and the APB divided by two, as the F103 must.
DividedClocks == {[F103(2) EXCEPT !.ppre = 4]}

\* All speeds, two that do not exist, all formats.
AllConfigs == {64 * two + 16 * parity + idx : two \in {0, 1}, parity \in 0 .. 3,
                                              idx \in {0, 1, 2, 3, 4, 5, 15}}

SomeCounts    == {1, 10, 300, 32765}
SomeAddresses == {0, 1, 9, 10, 300, 65535}
EdgeCounts    == {0, 1, 2, 123, 124, 125, 126, 127, 32765, 32766, 65535}
EdgeBytes     == {0, 2, 4, 246, 247, 248, 254}
EdgeLengths   == {5, 8, 9, 11, 13, 255, 256}

TwoMessages == {<<{0}, {0, 1}, {}>>, <<{}, {1, 2}, {0, 3, 5}, {7}>>}

-----------------------------------------------------------------------------
\* Button: one event for each press, of its kind, through bounces and wraps.
Clicks == Btn!Clicks

\* Port: format, baud rate and T3.5 are those of the configuration register.
TimingRight == Port!TimingRight

\* Timer: one tick of the T3.5 timer is one microsecond (modbus.c:89).
OneTickIsOneUs == Port!OneTickIsOneUs

\* Requests: only legal requests are carried out, and every answer fits.
AnswersFit == Lens!AnswersFit

\* CRC: what is sent is accepted; what a burst, or three bits anywhere, have changed
\* is not.
CrcDetects == part = "crc" => Crc!CrcDetects
=============================================================================
