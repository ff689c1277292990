------------------------------ MODULE PortTiming ------------------------------
(***************************************************************************)
(* What ReconfigureUARTCFG of src/src/modbus.c makes of the configuration  *)
(* register: baud rate, character format and the T3.5 timer, through       *)
(* USART_Init and the RCC_Get..._Hz functions of src/src/ll, on a port     *)
(* that may have had any configuration before.  The clock tree is set up   *)
(* elsewhere and does not change.                                          *)
(***************************************************************************)
EXTENDS Integers, Sequences

CONSTANTS
    Clocks,     \* the port's number and RCC settings:
                \* [chip, usart, sws, hpre, ppre, ppre2, src, m, n, r, hsidiv]
    Configs     \* values of *uart_cfg_reg

VARIABLES
    rcc,            \* the RCC's registers
    cr1, stop,      \* USARTx->CR1 (its format bits and enables), CR2.STOP
    brr,            \* USARTx->BRR
    psc, arr,       \* of config->timer
    asked           \* history: the configuration last applied, -1 for none

vars == <<rcc, cr1, stop, brr, psc, arr, asked>>

MHz == 1000000

\* x \div 2^n
Shift(x, n) == [k \in 0 .. 9 |-> x \div <<1, 2, 4, 8, 16, 32, 64, 128, 256, 512>>[k + 1]][n]

-----------------------------------------------------------------------------
(* The clock tree, as the code computes it                                 *)

HSE_VALUE == 8 * MHz
HSI_VALUE == IF rcc.chip = "g0" THEN 16 * MHz ELSE 8 * MHz
LSI_VALUE == 32000
LSE_VALUE == 32768

\* STM32G0: sws = 2 is the PLL, which multiplies by n and divides by m and r.
Sysclk_G0 ==
    CASE rcc.sws \notin 1 .. 4 -> Shift(HSI_VALUE, rcc.hsidiv)
      [] rcc.sws = 1 -> HSE_VALUE
      [] rcc.sws = 2 -> (((IF rcc.src = 3 THEN HSE_VALUE ELSE HSI_VALUE) \div (rcc.m + 1))
                            * rcc.n) \div (rcc.r + 1)
      [] rcc.sws = 3 -> LSI_VALUE
      [] rcc.sws = 4 -> LSE_VALUE

\* STM32F103: the PLL multiplies HSE, HSE / 2 or HSI / 2.
Sysclk_F103 ==
    CASE rcc.sws \notin {1, 2} -> HSI_VALUE
      [] rcc.sws = 1 -> HSE_VALUE
      [] rcc.sws = 2 -> (IF rcc.src = 1 THEN HSE_VALUE \div (rcc.m + 1) ELSE HSI_VALUE \div 2)
                            * (IF rcc.n = 15 THEN 16 ELSE rcc.n + 2)

RCC_GetSysclk_Hz == IF rcc.chip = "g0" THEN Sysclk_G0 ELSE Sysclk_F103

ahb_shift_tbl == <<0, 0, 0, 0, 0, 0, 0, 0, 1, 2, 3, 4, 6, 7, 8, 9>>
apb_shift_tbl == <<0, 0, 0, 0, 1, 2, 3, 4>>

RCC_GetHclk_Hz  == Shift(RCC_GetSysclk_Hz, ahb_shift_tbl[rcc.hpre + 1])
RCC_GetPclk1_Hz == Shift(RCC_GetHclk_Hz, apb_shift_tbl[rcc.ppre + 1])

\* The F103 has a second APB, which feeds USART1.
RCC_GetPclk2_Hz == IF rcc.chip = "g0" THEN RCC_GetPclk1_Hz
                   ELSE Shift(RCC_GetHclk_Hz, apb_shift_tbl[rcc.ppre2 + 1])

\* The clock of the timers: twice the APB's when that is divided.
RCC_GetTIMPclk1_Hz == IF rcc.ppre >= 4 THEN 2 * RCC_GetPclk1_Hz ELSE RCC_GetPclk1_Hz

-----------------------------------------------------------------------------
(* The configuration register                                              *)

UART_SPEEDS == <<9600, 19200, 38400, 57600, 115200>>

Baud(idx)   == IF idx < Len(UART_SPEEDS) THEN UART_SPEEDS[idx + 1] ELSE UART_SPEEDS[1]
Format(cfg) == [baud   |-> Baud(cfg % 16),
                parity |-> IF (cfg \div 16) % 4 = 3 THEN 0 ELSE (cfg \div 16) % 4,
                stop   |-> 1 + ((cfg \div 64) % 2)]

BitsPerChar(f) == 1 + 8 + (IF f.parity # 0 THEN 1 ELSE 0) + f.stop

\* 3.5 characters in microseconds, rounded up.
T35(f) == IF f.baud > 19200 THEN 1750
          ELSE (7 * BitsPerChar(f) * MHz + 2 * f.baud - 1) \div (2 * f.baud)

\* USART_BrrCalc; the remainder is below 16, so nothing is carried.
USART_BrrCalc(pclk, baud) == (pclk + baud \div 2) \div baud

PortClock == IF rcc.usart = 1 THEN RCC_GetPclk2_Hz ELSE RCC_GetPclk1_Hz

\* Mutant: a format bit of the last configuration is left.
USART_InitStale(f) ==
    /\ cr1' = (cr1 \ {"RXNEIE", "PCE", "M0", "M1"})
              \cup (IF f.parity = 0 THEN {} ELSE {"PCE", "M0"})
              \cup (IF f.parity = 2 THEN {"PS"} ELSE {})
              \cup {"UE", "TE", "RE", "RXNEIE"}
    /\ stop' = IF f.stop = 2 THEN 2 ELSE 0
    /\ brr' = USART_BrrCalc(PortClock, f.baud)

USART_Init(f) ==
    /\ cr1' = (cr1 \ {"RXNEIE", "PCE", "PS", "M0", "M1"})
              \cup (IF f.parity = 0 THEN {} ELSE {"PCE", "M0"})
              \cup (IF f.parity = 2 THEN {"PS"} ELSE {})
              \cup {"UE", "TE", "RE", "RXNEIE"}
    /\ stop' = IF f.stop = 2 THEN 2 ELSE 0
    /\ brr' = USART_BrrCalc(PortClock, f.baud)

ReconfigureUARTCFG(cfg) ==
    /\ USART_Init(Format(cfg))
    /\ psc' = (RCC_GetPclk1_Hz \div MHz - 1) % 65536
    /\ arr' = (T35(Format(cfg)) - 1) % 65536
    /\ asked' = cfg
    /\ UNCHANGED rcc

Init == /\ rcc \in Clocks
        /\ cr1 = {} /\ stop = 0 /\ brr = 0 /\ psc = 0 /\ arr = 65535 /\ asked = -1

Next == \E cfg \in Configs : ReconfigureUARTCFG(cfg)

Spec == Init /\ [][Next]_vars

-----------------------------------------------------------------------------
(* Properties                                                              *)

\* The hardware: the frequency the tree delivers, in its own divisors.
Divisor  == [h \in 0 .. 15 |-> IF h < 8 THEN 1 ELSE <<2, 4, 8, 16, 64, 128, 256, 512>>[h - 7]]
                [rcc.hpre]
            * <<1, 1, 1, 1, 2, 4, 8, 16>>
                [1 + IF rcc.chip = "f103" /\ rcc.usart = 1 THEN rcc.ppre2 ELSE rcc.ppre]
DataBits == (IF "M0" \in cr1 THEN 9 ELSE 8) - (IF "PCE" \in cr1 THEN 1 ELSE 0)
Parity   == IF "PCE" \notin cr1 THEN 0 ELSE IF "PS" \in cr1 THEN 2 ELSE 1
Gap_us   == ((psc + 1) * (arr + 1)) \div (RCC_GetTIMPclk1_Hz \div MHz)

Near(x, y, d) == x - y <= d /\ y - x <= d

\* The prescalers lose nothing of the system clock.
Exact == RCC_GetSysclk_Hz = Divisor * (RCC_GetSysclk_Hz \div Divisor)

\* The timers run at the clock of their APB, a whole number of megahertz.
WholeMHz == /\ rcc.ppre < 4
            /\ RCC_GetPclk1_Hz % MHz = 0
            /\ MHz <= RCC_GetPclk1_Hz /\ RCC_GetPclk1_Hz \div MHz <= 65536

\* Whatever was configured before and whichever clock drives the port, it has
\* the format of the register and its baud rate, to half a unit of the divider,
\* and a timer that runs out after 3.5 characters of that format: not earlier,
\* and no more than a microsecond later (1750 us above 19200 baud).
TimingRight ==
    asked # -1 =>
        LET f == Format(asked) IN
        /\ DataBits = 8 /\ Parity = f.parity /\ f.parity \in 0 .. 2
        /\ stop \in {0, 2} /\ f.stop = (IF stop = 2 THEN 2 ELSE 1)
        /\ f.baud \in {9600, 19200, 38400, 57600, 115200}
        /\ Exact => Near(2 * RCC_GetSysclk_Hz, 2 * Divisor * brr * f.baud, Divisor * f.baud)
        /\ WholeMHz =>
              IF f.baud > 19200 THEN Gap_us = 1750
              ELSE /\ 2 * f.baud * Gap_us >= 7 * BitsPerChar(f) * MHz
                   /\ 2 * f.baud * (Gap_us - 1) < 7 * BitsPerChar(f) * MHz

\* modbus.c:89: one tick of the timer is one microsecond.
OneTickIsOneUs == asked # -1 => (psc + 1) * MHz = RCC_GetTIMPclk1_Hz
=============================================================================
