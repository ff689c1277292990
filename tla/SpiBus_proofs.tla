---------------------------- MODULE SpiBus_proofs ----------------------------
(***************************************************************************)
(* Safety of the bus for any number of devices, any FIFO depth and any     *)
(* length of a transfer, with or without Masked: the plain flag h->busy    *)
(* keeps the main program and the handler apart because the handler runs   *)
(* to its end (BusInv), and then the bytes of a transfer follow from the   *)
(* point its context has reached (FlowInv).  At the end, how many steps a  *)
(* transfer can have.                                                      *)
(***************************************************************************)
EXTENDS SpiBus, FiniteSetTheorems, SequenceTheorems, TLAPS

\* The points of SPI_Transfer between SPI_CS(1) and SPI_CS(0).
Selecting == Waits \cup {"flushFailed", "time", "write", "read", "errors", "release"}

\* Those between busy = 1 and busy = 0.
Holding == Selecting \cup {"flush", "select", "free"}
Points  == Holding \cup {"idle", "test", "load", "off", "on", "claim"}

Answers == (Devices \X Nat) \cup {Nobody}

Doing == [pc: Points, wait: Waits \cup {""}, req: Requests \cup {[op |-> "none"]},
          cr1: CR1 \cup {<<>>}, rx: Seq(Answers),
          st: {"SPI_OK", "SPI_ERR_BUSY", "SPI_ERR_HW"}]

Typed ==
    /\ busy \in BOOLEAN /\ cs \in [Devices -> BOOLEAN] /\ count \in [Devices -> Nat]
    /\ cr1 \in CR1 /\ rxf \in Seq(Answers) /\ cpu \in Contexts
    /\ run \in [Contexts -> Doing]

\* What a context has to go on with: a request at the test, a transfer inside
\* SPI_Transfer, a setting inside SPI_SetMode, and the CR1 it has read.
Asked(c) ==
    /\ run[c].pc = "test" => run[c].req \in Requests
    /\ run[c].pc \in Holding \cup {"claim"} => run[c].req \in Transfers
    /\ run[c].pc \in {"load", "off", "on"} => run[c].req \in Setups
    /\ run[c].pc \in {"off", "on"} => run[c].cr1 \in CR1
    /\ run[c].pc = "time" => run[c].wait \in Waits

Holds(c) == run[c].pc \in Holding

\* The handler runs to its end: once past its test it finds nobody in the
\* bus, and the main program past its own finds nobody when it goes on.
Exclusion ==
    /\ cpu = "isr" <=> run["isr"].pc # "idle"
    /\ busy <=> Holds("main") \/ Holds("isr")
    /\ ~(Holds("main") /\ Holds("isr"))
    /\ run["isr"].pc = "claim" => ~busy

Owner(d) == \E c \in Contexts : run[c].pc \in Selecting /\ run[c].req.dev = d
ChipSelects == \A d \in Devices : cs[d] <=> Owner(d)

BusInv == Typed /\ (\A c \in Contexts : Asked(c)) /\ Exclusion /\ ChipSelects

-----------------------------------------------------------------------------
LEMMA InitBus == Init => BusInv
<1> SUFFICES ASSUME Init PROVE BusInv
  OBVIOUS
<1>1. At("idle", "SPI_OK") \in Doing
  <2>1. <<>> \in Seq(Answers)
    OBVIOUS
  <2> QED
    BY <2>1 DEF At, Doing, Points
<1>2. run = [c \in Contexts |-> At("idle", "SPI_OK")] /\ run \in [Contexts -> Doing]
  BY <1>1 DEF Init
<1>3. \A c \in Contexts : run[c].pc = "idle"
  BY <1>2 DEF At
<1>4. cr1 \in CR1 /\ rxf \in Seq(Answers) /\ count \in [Devices -> Nat]
  BY DEF Init, CR1
<1>5. Typed
  BY <1>2, <1>4 DEF Init, Typed, Contexts
<1>6. (\A c \in Contexts : Asked(c)) /\ Exclusion /\ ChipSelects
  BY <1>3 DEF Init, Asked, Exclusion, ChipSelects, Owner, Holds, Holding, Selecting,
     Waits, Contexts
<1> QED
  BY <1>5, <1>6 DEF BusInv

\* What the peripheral does leaves all of it alone but the types.
LEMMA PeripheralBus == BusInv /\ Peripheral => BusInv'
<1> SUFFICES ASSUME BusInv, Peripheral PROVE BusInv'
  OBVIOUS
<1>1. UNCHANGED <<busy, cs, cr1, cpu, run>>
  BY DEF Peripheral, StartByte, EndByte, EndBusy
<1>2. count' \in [Devices -> Nat] /\ rxf' \in Seq(Answers)
  <2>1. CASE EndByte
    <3> DEFINE answer == IF Cardinality(Selected) = 1
                         THEN LET d == CHOOSE d \in Selected : TRUE IN <<d, count[d] + 1>>
                         ELSE Nobody
    <3>1. count' \in [Devices -> Nat]
      BY <2>1 DEF EndByte, BusInv, Typed
    <3>2. answer \in Answers
      <4>1. CASE Cardinality(Selected) = 1
        <5>1. Selected # {}
          BY <4>1, FS_EmptySet
        <5>2. PICK d \in Devices : d = CHOOSE e \in Selected : TRUE
          BY <5>1 DEF Selected
        <5>3. count[d] + 1 \in Nat
          BY DEF BusInv, Typed
        <5>4. <<d, count[d] + 1>> \in Answers
          BY <5>3 DEF Answers
        <5>5. answer = <<d, count[d] + 1>>
          BY <4>1, <5>2
        <5> QED
          BY <5>4, <5>5
      <4>2. CASE Cardinality(Selected) # 1
        BY <4>2 DEF Answers
      <4> QED
        BY <4>1, <4>2
    <3>3. rxf' = Append(rxf, answer) \/ rxf' = rxf
      BY <2>1 DEF EndByte
    <3>4. rxf \in Seq(Answers)
      BY DEF BusInv, Typed
    <3> HIDE DEF answer
    <3> QED
      BY <3>1, <3>2, <3>3, <3>4
  <2>2. CASE StartByte \/ EndBusy
    BY <2>2 DEF StartByte, EndBusy, BusInv, Typed
  <2> QED
    BY <2>1, <2>2 DEF Peripheral
<1>3. Typed'
  BY <1>1, <1>2 DEF BusInv, Typed
<1>4. (\A c \in Contexts : Asked(c))' /\ Exclusion' /\ ChipSelects'
  BY <1>1 DEF BusInv, Asked, Exclusion, Holds, ChipSelects, Owner
<1> QED
  BY <1>3, <1>4 DEF BusInv

\* Steps outside the selection: a context moves between points that do not
\* select, the chip selects stay.
LEMMA StayUnselected ==
  ASSUME NEW c \in Contexts, BusInv, run' \in [Contexts -> Doing], cs' = cs,
         \A o \in Contexts \ {c} : run'[o] = run[o],
         run[c].pc \notin Selecting, run'[c].pc \notin Selecting
  PROVE  ChipSelects'
  BY DEF BusInv, ChipSelects, Owner

\* Steps within it.
LEMMA StaySelected ==
  ASSUME NEW c \in Contexts, BusInv, run' \in [Contexts -> Doing], cs' = cs,
         \A o \in Contexts \ {c} : run'[o] = run[o],
         run[c].pc \in Selecting, run'[c].pc \in Selecting, run'[c].req = run[c].req
  PROVE  ChipSelects'
  BY DEF BusInv, ChipSelects, Owner

\* Steps that neither take nor free the bus, nor begin or end a call.
LEMMA StayExcluded ==
  ASSUME NEW c \in Contexts, BusInv, busy' = busy, cpu' = cpu,
         \A o \in Contexts \ {c} : run'[o] = run[o],
         Holds(c)' = Holds(c), run[c].pc # "idle", run'[c].pc \notin {"idle", "claim"}
  PROVE  Exclusion'
  BY DEF BusInv, Exclusion, Holds, Contexts

\* A context that does not run is left as it is.
LEMMA StayAsked ==
  ASSUME NEW c \in Contexts, BusInv, Asked(c)', \A o \in Contexts \ {c} : run'[o] = run[o]
  PROVE  \A o \in Contexts : Asked(o)'
  BY DEF BusInv, Asked

LEMMA Running == ASSUME NEW c \in Contexts, NEW p, Where(c) = p, p # "interrupted"
                 PROVE  cpu = c /\ run[c].pc = p
  BY DEF Where

LEMMA Move == ASSUME NEW c \in Contexts, Typed, NEW p \in Points, Goto(c, p)
              PROVE  /\ run' \in [Contexts -> Doing] /\ run'[c] = [run[c] EXCEPT !.pc = p]
                     /\ run'[c].pc = p /\ run'[c].req = run[c].req
                     /\ run'[c].wait = run[c].wait /\ run'[c].cr1 = run[c].cr1
                     /\ \A o \in Contexts \ {c} : run'[o] = run[o]
  BY DEF Typed, Goto, Doing

LEMMA Known == ASSUME BusInv
               PROVE  /\ run \in [Contexts -> Doing]
                      /\ Selecting \subseteq Points /\ Waits \subseteq Selecting
  BY DEF BusInv, Typed, Points, Holding, Selecting

LEMMA Leave == ASSUME NEW c \in Contexts, Typed, Return(c, run[c].st) \/ Return(c, "SPI_OK")
                          \/ Return(c, "SPI_ERR_BUSY")
               PROVE  /\ run' \in [Contexts -> Doing] /\ run'[c].pc = "idle" /\ cpu' = "main"
                      /\ \A o \in Contexts \ {c} : run'[o] = run[o]
<1>1. \A st \in {"SPI_OK", "SPI_ERR_BUSY", "SPI_ERR_HW"} :
          At("idle", st) \in Doing /\ At("idle", st).pc = "idle"
  <2>1. <<>> \in Seq(Answers)
    OBVIOUS
  <2> QED
    BY <2>1 DEF At, Doing, Points
<1>2. run[c].st \in {"SPI_OK", "SPI_ERR_BUSY", "SPI_ERR_HW"}
  BY DEF Typed, Doing
<1>3. PICK st \in {"SPI_OK", "SPI_ERR_BUSY", "SPI_ERR_HW"} : Return(c, st)
  BY <1>2
<1> QED
  BY <1>1, <1>3 DEF Return, Typed

-----------------------------------------------------------------------------
\* Beginning a call, in the main program or in a handler.
LEMMA NewCallTyped ==
  ASSUME NEW r \in Requests
  PROVE  LET x == [At("test", "SPI_OK") EXCEPT !.req = r]
         IN x \in Doing /\ x.pc = "test" /\ x.req = r
<1>1. <<>> \in Seq(Answers)
  OBVIOUS
<1> QED
  BY <1>1 DEF At, Doing, Points

LEMMA CallBus == ASSUME BusInv, NEW r \in Requests, Call(r) \/ Interrupt(r) PROVE BusInv'
<1> DEFINE x == [At("test", "SPI_OK") EXCEPT !.req = r]
<1>1. x \in Doing /\ x.pc = "test" /\ x.req = r
  BY NewCallTyped
<1> HIDE DEF x
<1>2. ASSUME NEW c \in Contexts, run[c].pc = "idle", run' = [run EXCEPT ![c] = x],
             UNCHANGED <<busy, cs, cr1, hw>>, cpu' = IF c = "isr" THEN "isr" ELSE cpu,
             cpu = "main"
      PROVE  BusInv'
  <2>1. run' \in [Contexts -> Doing] /\ run'[c] = x
        /\ \A o \in Contexts \ {c} : run'[o] = run[o]
    BY <1>1, <1>2 DEF BusInv, Typed
  <2>2. Typed'
    BY <1>2, <2>1 DEF BusInv, Typed, hw, Contexts
  <2>3. \A o \in Contexts : Asked(o)'
    BY <1>1, <2>1, StayAsked DEF Asked, Holding, Selecting, Waits
  <2>4. Exclusion'
    BY <1>1, <1>2, <2>1 DEF BusInv, Exclusion, Holds, Holding, Selecting, Waits, Contexts
  <2>5. ChipSelects'
    BY <1>1, <1>2, <2>1, StayUnselected DEF Selecting, Waits
  <2> QED
    BY <2>2, <2>3, <2>4, <2>5 DEF BusInv
<1>3. CASE Call(r)
  BY <1>2, <1>3, Running DEF Call, x, Contexts
<1>4. CASE Interrupt(r)
  <2>1. run["isr"].pc = "idle"
    BY <1>4 DEF Interrupt, BusInv, Exclusion
  <2> QED
    BY <1>2, <1>4, <2>1 DEF Interrupt, x, Contexts
<1> QED
  BY <1>3, <1>4

-----------------------------------------------------------------------------
\* The test of the flag: the handler passes it only when nobody is inside.
LEMMA TestBus == ASSUME BusInv, NEW c \in Contexts, Test(c) PROVE BusInv'
<1>1. cpu = c /\ run[c].pc = "test"
  BY Running DEF Test
<1>2. UNCHANGED <<busy, cs, cr1, count, rxf>>
  BY DEF Test, hw
<1>3. CASE busy
  <2>1. Return(c, "SPI_ERR_BUSY")
    BY <1>3 DEF Test
  <2>2. run' \in [Contexts -> Doing] /\ run'[c].pc = "idle" /\ cpu' = "main"
        /\ \A o \in Contexts \ {c} : run'[o] = run[o]
    BY <2>1, Leave DEF BusInv
  <2>3. Typed'
    BY <1>2, <2>2 DEF BusInv, Typed, Contexts
  <2>4. \A o \in Contexts : Asked(o)'
    BY <2>2, StayAsked DEF Asked, Holding, Selecting, Waits
  <2>5. Exclusion'
    BY <1>1, <1>2, <2>2 DEF BusInv, Exclusion, Holds, Holding, Selecting, Waits, Contexts
  <2>6. ChipSelects'
    BY <1>1, <1>2, <2>2, StayUnselected DEF Selecting, Waits
  <2> QED
    BY <2>3, <2>4, <2>5, <2>6 DEF BusInv
<1>4. CASE ~busy
  <2> DEFINE p == IF run[c].req.op = "transfer" THEN "claim" ELSE "load"
  <2>1. Goto(c, p) /\ cpu' = cpu /\ p \in Points
    BY <1>4 DEF Test, Points
  <2>2. (p = "claim" => run[c].req \in Transfers) /\ (p = "load" => run[c].req \in Setups)
    BY <1>1 DEF BusInv, Asked, Requests, Setups, Transfers
  <2>3. p \in {"claim", "load"}
    OBVIOUS
  <2> HIDE DEF p
  <2>4. run' \in [Contexts -> Doing] /\ run'[c].pc = p /\ run'[c].req = run[c].req
        /\ \A o \in Contexts \ {c} : run'[o] = run[o]
    BY <2>1, Move DEF BusInv
  <2>5. Typed'
    BY <1>2, <2>1, <2>4 DEF BusInv, Typed
  <2>6. \A o \in Contexts : Asked(o)'
    BY <2>2, <2>3, <2>4, StayAsked DEF Asked, Holding, Selecting, Waits
  <2>7. Exclusion'
    BY <1>1, <1>2, <1>4, <2>1, <2>3, <2>4
    DEF BusInv, Exclusion, Holds, Holding, Selecting, Waits, Contexts
  <2>8. ChipSelects'
    BY <1>1, <1>2, <2>3, <2>4, StayUnselected DEF Selecting, Waits
  <2> QED
    BY <2>5, <2>6, <2>7, <2>8 DEF BusInv
<1> QED
  BY <1>3, <1>4

\* SPI_SetMode and SPI_SetBaud do not touch the flag.
LEMMA SetupBus == ASSUME BusInv, NEW c \in Contexts, Load(c) \/ Off(c) \/ On(c) PROVE BusInv'
<1>1. CASE Load(c)
  <2>1. cpu = c /\ run[c].pc = "load"
    BY <1>1, Running DEF Load
  <2>2. run' = [run EXCEPT ![c].cr1 = cr1, ![c].pc = "off"] /\ "off" \in Points
    BY <1>1 DEF Load, Points
  <2>3. run' \in [Contexts -> Doing] /\ run'[c].pc = "off"
        /\ run'[c].cr1 \in CR1 /\ run'[c].req \in Setups
        /\ \A o \in Contexts \ {c} : run'[o] = run[o]
    BY ZenonT(60), <2>1, <2>2 DEF BusInv, Typed, Doing, Asked
  <2>4. Typed'
    BY <1>1, <2>3 DEF Load, hw, BusInv, Typed
  <2>5. \A o \in Contexts : Asked(o)'
    BY <2>3, StayAsked DEF Asked, Holding, Selecting, Waits
  <2>6. Exclusion'
    BY <1>1, <2>1, <2>3, StayExcluded DEF Load, Holds, Holding, Selecting, Waits
  <2>7. ChipSelects'
    BY <1>1, <2>1, <2>3, StayUnselected DEF Load, Selecting, Waits
  <2> QED
    BY <2>4, <2>5, <2>6, <2>7 DEF BusInv
<1>2. CASE Off(c)
  <2>1. cpu = c /\ run[c].pc = "off"
    BY <1>2, Running DEF Off
  <2>2. run' \in [Contexts -> Doing] /\ run'[c].pc = "on"
        /\ run'[c].req = run[c].req /\ run'[c].cr1 = run[c].cr1
        /\ \A o \in Contexts \ {c} : run'[o] = run[o]
    BY <1>2, Move DEF Off, Points, BusInv
  <2>3. run[c].cr1 \in CR1 /\ run[c].req \in Setups
    BY <2>1 DEF BusInv, Asked
  <2>8. cr1' \in CR1
    BY <1>2, <2>3 DEF Off, CR1
  <2>4. Typed'
    BY <1>2, <2>2, <2>8 DEF Off, hw, BusInv, Typed
  <2>5. \A o \in Contexts : Asked(o)'
    BY <2>2, <2>3, StayAsked DEF Asked, Holding, Selecting, Waits
  <2>6. Exclusion'
    BY <1>2, <2>1, <2>2, StayExcluded DEF Off, Holds, Holding, Selecting, Waits
  <2>7. ChipSelects'
    BY <1>2, <2>1, <2>2, StayUnselected DEF Off, Selecting, Waits
  <2> QED
    BY <2>4, <2>5, <2>6, <2>7 DEF BusInv
<1>3. CASE On(c)
  <2>1. cpu = c /\ run[c].pc = "on"
    BY <1>3, Running DEF On
  <2>2. run' \in [Contexts -> Doing] /\ run'[c].pc = "idle" /\ cpu' = "main"
        /\ \A o \in Contexts \ {c} : run'[o] = run[o]
    BY <1>3, Leave DEF On, BusInv
  <2>3. cr1' \in CR1
    <3>1. run[c].cr1 \in CR1 /\ run[c].req \in Setups
      BY <2>1 DEF BusInv, Asked
    <3> QED
      BY <1>3, <3>1 DEF On, CR1, Setups
  <2>4. Typed'
    BY <1>3, <2>2, <2>3 DEF On, hw, BusInv, Typed, Contexts
  <2>5. \A o \in Contexts : Asked(o)'
    BY <2>2, StayAsked DEF Asked, Holding, Selecting, Waits
  <2>6. Exclusion'
    BY <1>3, <2>1, <2>2 DEF On, BusInv, Exclusion, Holds, Holding, Selecting, Waits, Contexts
  <2>7. ChipSelects'
    BY <1>3, <2>1, <2>2, StayUnselected DEF On, Selecting, Waits
  <2> QED
    BY <2>4, <2>5, <2>6, <2>7 DEF BusInv
<1> QED
  BY <1>1, <1>2, <1>3

-----------------------------------------------------------------------------
\* A step of SPI_Transfer that stays between SPI_CS(1) and SPI_CS(0).
LEMMA WithinSelection ==
  ASSUME BusInv, NEW c \in Contexts, run' \in [Contexts -> Doing],
         \A o \in Contexts \ {c} : run'[o] = run[o], run'[c].req = run[c].req,
         run[c].pc \in Selecting, run'[c].pc \in Selecting,
         run'[c].pc = "time" => run'[c].wait \in Waits,
         UNCHANGED <<busy, cs, cr1, count, cpu>>, rxf' \in Seq(Answers)
  PROVE  BusInv'
<1>1. Typed'
  BY DEF BusInv, Typed
<1>2. run[c].req \in Transfers
  BY DEF BusInv, Asked, Holding
<1>3. \A o \in Contexts : Asked(o)'
  BY <1>2, StayAsked DEF Asked, Selecting, Waits
<1>4. Exclusion'
  BY StayExcluded DEF Holds, Holding, Selecting, Waits
<1>5. ChipSelects'
  BY StaySelected
<1> QED
  BY <1>1, <1>3, <1>4, <1>5 DEF BusInv

\* The waits.
LEMMA WaitBus ==
  ASSUME BusInv, Expire \/ \E c \in Contexts : FlagRead(c) \/ TimeRead(c)
  PROVE  BusInv'
<1>0. rxf' \in Seq(Answers) /\ UNCHANGED <<busy, cs, cr1, count, cpu>>
  BY DEF Expire, FlagRead, TimeRead, hw, BusInv, Typed
<1>1. ASSUME NEW c \in Contexts, FlagRead(c) PROVE BusInv'
  <2>1. run[c].pc \in Waits /\ cpu = c
    BY <1>1 DEF FlagRead, Where, Waits
  <2>2. CASE Over(Where(c))
    <3>1. After[Where(c)] \in Selecting \cap Points /\ After[Where(c)] # "time"
      BY <2>1 DEF Where, After, Waits, Selecting, Points, Holding
    <3>2. Goto(c, After[Where(c)])
      BY <1>1, <2>2 DEF FlagRead
    <3>3. run' \in [Contexts -> Doing] /\ run'[c].pc = After[Where(c)]
          /\ run'[c].req = run[c].req /\ \A o \in Contexts \ {c} : run'[o] = run[o]
      BY <3>1, <3>2, Move DEF BusInv
    <3> QED
      BY <1>0, <2>1, <3>1, <3>3, WithinSelection DEF Selecting
  <2>3. CASE ~Over(Where(c))
    <3>1. run' = [run EXCEPT ![c].pc = "time", ![c].wait = Where(c)] /\ Where(c) = run[c].pc
      BY <1>1, <2>1, <2>3 DEF FlagRead, Where
    <3>2. run' \in [Contexts -> Doing] /\ run'[c].pc = "time" /\ run'[c].wait \in Waits
          /\ run'[c].req = run[c].req /\ \A o \in Contexts \ {c} : run'[o] = run[o]
      <4>1. "time" \in Points
        BY DEF Points, Holding, Selecting
      <4> QED
        BY ZenonT(60), <2>1, <3>1, <4>1, Known DEF Doing
    <3> QED
      BY <1>0, <2>1, <3>2, WithinSelection DEF Selecting
  <2> QED
    BY <2>2, <2>3
<1>2. ASSUME NEW c \in Contexts, TimeRead(c) PROVE BusInv'
  <2>1. run[c].pc = "time" /\ run[c].wait \in Waits
    BY <1>2, Running DEF TimeRead, BusInv, Asked
  <2>2. run' = [run EXCEPT ![c].pc = run[c].wait, ![c].wait = ""]
    BY <1>2 DEF TimeRead
  <2>3. run' \in [Contexts -> Doing] /\ run'[c].pc \in Waits
        /\ run'[c].req = run[c].req /\ \A o \in Contexts \ {c} : run'[o] = run[o]
    BY ZenonT(60), <2>1, <2>2, Known DEF Doing
  <2> QED
    BY <1>0, <2>1, <2>3, WithinSelection DEF Selecting, Waits
<1>3. CASE Expire
  <2>1. run["main"].pc = "time" /\ run["main"].wait \in Waits /\ "main" \in Contexts
    BY <1>3, Running DEF Expire, BusInv, Asked, Contexts
  <2> DEFINE p == Expired[run["main"].wait]
  <2>2. p \in (Selecting \cap Points) \ {"time"}
    BY <2>1 DEF Expired, Waits, Selecting, Points, Holding
  <2>3. run' = [run EXCEPT !["main"].pc = p, !["main"].wait = "",
                           !["main"].st = "SPI_ERR_HW"]
    BY <1>3 DEF Expire
  <2> HIDE DEF p
  <2>5. p \in Points /\ p \in Selecting /\ p # "time"
    BY <2>2
  <2>4. run' \in [Contexts -> Doing] /\ run'["main"].pc \in Selecting \ {"time"}
        /\ run'["main"].req = run["main"].req
        /\ \A o \in Contexts \ {"main"} : run'[o] = run[o]
    <3>1. \A x \in Doing : [x EXCEPT !.pc = p, !.wait = "", !.st = "SPI_ERR_HW"] \in Doing
      BY <2>5 DEF Doing
    <3>2. run["main"] \in Doing /\ run \in [Contexts -> Doing]
      BY <2>1, Known
    <3>3. run' = [run EXCEPT !["main"] = [@ EXCEPT !.pc = p, !.wait = "",
                                                   !.st = "SPI_ERR_HW"]]
      BY <2>3
    <3>4. run' \in [Contexts -> Doing]
      BY <3>1, <3>2, <3>3
    <3> QED
      BY <2>1, <2>5, <3>2, <3>3, <3>4 DEF Doing
  <2> QED
    BY <1>0, <2>1, <2>4, WithinSelection DEF Selecting
<1> QED
  BY <1>1, <1>2, <1>3

\* The bytes.
LEMMA BytesBus ==
  ASSUME BusInv, NEW c \in Contexts, FlushByte(c) \/ Write(c) \/ Read(c) \/ Errors(c)
  PROVE  BusInv'
<1>1. CASE FlushByte(c)
  <2>1. rxf' \in Seq(Answers)
    BY <1>1 DEF FlushByte, BusInv, Typed
  <2> QED
    BY <1>1, <2>1 DEF FlushByte, BusInv, Typed, Asked, Exclusion, Holds, ChipSelects, Owner
<1>2. CASE Write(c)
  <2>1. run[c].pc = "write" /\ Goto(c, "RXNE") /\ "RXNE" \in Points \cap Selecting
    BY <1>2, Running DEF Write, Points, Holding, Selecting, Waits
  <2>2. run' \in [Contexts -> Doing] /\ run'[c].pc = "RXNE"
        /\ run'[c].req = run[c].req /\ \A o \in Contexts \ {c} : run'[o] = run[o]
    BY <2>1, Move DEF BusInv
  <2>3. rxf' \in Seq(Answers) /\ UNCHANGED <<busy, cs, cr1, count, cpu>>
    BY <1>2 DEF Write, BusInv, Typed
  <2> QED
    BY <2>1, <2>2, <2>3, WithinSelection DEF Selecting
<1>3. CASE Read(c)
  <2>1. run[c].pc = "read" /\ rxf # <<>> /\ rxf \in Seq(Answers) /\ run[c].rx \in Seq(Answers)
    BY <1>3, Running DEF Read, BusInv, Typed, Doing
  <2>2. rxf' \in Seq(Answers) /\ Append(run[c].rx, Head(rxf)) \in Seq(Answers)
    BY <1>3, <2>1 DEF Read
  <2>3. run' = [run EXCEPT ![c].rx = Append(@, Head(rxf)), ![c].pc = "errors"]
    BY <1>3 DEF Read
  <2>4. run' \in [Contexts -> Doing] /\ run'[c].pc = "errors"
        /\ run'[c].req = run[c].req /\ \A o \in Contexts \ {c} : run'[o] = run[o]
    <3>1. "errors" \in Points
      BY DEF Points, Holding, Selecting
    <3> QED
      BY ZenonT(60), <2>2, <2>3, <3>1, Known DEF Doing
  <2>5. UNCHANGED <<busy, cs, cr1, count, cpu>>
    BY <1>3 DEF Read
  <2> QED
    BY <2>1, <2>2, <2>4, <2>5, WithinSelection DEF Selecting
<1>4. CASE Errors(c)
  <2>1. run[c].pc = "errors"
    BY <1>4, Running DEF Errors
  <2>2. UNCHANGED <<busy, cs, cr1, count, cpu, rxf>> /\ rxf \in Seq(Answers)
    BY <1>4 DEF Errors, hw, BusInv, Typed
  <2>3. run' \in [Contexts -> Doing] /\ run'[c].pc \in {"BSYfailed", "TXE", "FTLVL"}
        /\ run'[c].req = run[c].req /\ \A o \in Contexts \ {c} : run'[o] = run[o]
    <3>1. CASE ovr
      <4>1. run' = [run EXCEPT ![c].pc = "BSYfailed", ![c].st = "SPI_ERR_HW"]
        BY <1>4, <3>1 DEF Errors
      <4>2. "BSYfailed" \in Points
        BY DEF Points, Holding, Selecting, Waits
      <4> QED
        BY ZenonT(60), <4>1, <4>2, Known DEF Doing
    <3>2. CASE ~ovr
      <4>1. PICK p \in {"TXE", "FTLVL"} : Goto(c, p)
        BY <1>4, <3>2 DEF Errors
      <4>2. p \in Points
        BY DEF Points, Holding, Selecting, Waits
      <4> QED
        BY <4>1, <4>2, Move DEF BusInv
    <3> QED
      BY <3>1, <3>2
  <2> QED
    BY <2>1, <2>2, <2>3, WithinSelection DEF Selecting, Waits
<1> QED
  BY <1>1, <1>2, <1>3, <1>4

\* Taking the bus: the flag is still as the test has found it.
LEMMA ClaimBus == ASSUME BusInv, NEW c \in Contexts, Claim(c) PROVE BusInv'
<1>1. run[c].pc = "claim" /\ cpu = c /\ run[c].req \in Transfers
  BY Running DEF Claim, BusInv, Asked
<1>2. Goto(c, "flush") /\ "flush" \in Points /\ busy' = TRUE
      /\ UNCHANGED <<cs, cr1, count, rxf, cpu>>
  BY DEF Claim, hw, Points, Holding
<1>3. run' \in [Contexts -> Doing] /\ run'[c].pc = "flush"
      /\ run'[c].req = run[c].req /\ \A o \in Contexts \ {c} : run'[o] = run[o]
  BY <1>2, Move DEF BusInv
<1>4. Typed'
  BY <1>2, <1>3 DEF BusInv, Typed
<1>5. \A o \in Contexts : Asked(o)'
  BY <1>1, <1>3, StayAsked DEF Asked, Selecting, Waits
<1>6. ~busy
  <2>1. CASE c = "isr"
    BY <1>1, <2>1 DEF BusInv, Exclusion
  <2>2. CASE c = "main"
    BY <1>1, <2>2 DEF BusInv, Exclusion, Holds, Holding, Selecting, Waits
  <2> QED
    BY <2>1, <2>2 DEF Contexts
<1>7. Exclusion'
  BY <1>1, <1>2, <1>3, <1>6 DEF BusInv, Exclusion, Holds, Holding, Contexts
<1>8. ChipSelects'
  BY <1>1, <1>2, <1>3, StayUnselected DEF Selecting, Waits
<1> QED
  BY <1>4, <1>5, <1>7, <1>8 DEF BusInv

\* The end of a flush, before the selection or at its end.
LEMMA FlushEndBus == ASSUME BusInv, NEW c \in Contexts, FlushEnd(c) PROVE BusInv'
<1>0. cpu = c /\ Where(c) = run[c].pc /\ run[c].pc \in {"flush", "flushFailed"}
  BY DEF FlushEnd, Where
<1>1. UNCHANGED <<busy, cs, cr1, count, rxf, cpu>> /\ rxf \in Seq(Answers)
  BY DEF FlushEnd, BusInv, Typed
<1>2. CASE run[c].pc = "flush"
  <2>1. Goto(c, "select") /\ "select" \in Points
    BY <1>0, <1>2 DEF FlushEnd, Points, Holding
  <2>2. run' \in [Contexts -> Doing] /\ run'[c].pc = "select"
        /\ run'[c].req = run[c].req /\ \A o \in Contexts \ {c} : run'[o] = run[o]
    BY <2>1, Move DEF BusInv
  <2>3. Typed'
    BY <1>1, <2>2 DEF BusInv, Typed
  <2>4. run[c].req \in Transfers
    BY <1>2 DEF BusInv, Asked, Holding
  <2>5. \A o \in Contexts : Asked(o)'
    BY <2>2, <2>4, StayAsked DEF Asked, Selecting, Waits
  <2>6. Exclusion'
    BY <1>1, <1>2, <2>2, StayExcluded DEF Holds, Holding
  <2>7. ChipSelects'
    BY <1>1, <1>2, <2>2, StayUnselected DEF Selecting, Waits
  <2> QED
    BY <2>3, <2>5, <2>6, <2>7 DEF BusInv
<1>3. CASE run[c].pc = "flushFailed"
  <2>1. Goto(c, "release") /\ "release" \in Points \cap Selecting
    BY <1>0, <1>3 DEF FlushEnd, Points, Holding, Selecting
  <2>2. run' \in [Contexts -> Doing] /\ run'[c].pc = "release"
        /\ run'[c].req = run[c].req /\ \A o \in Contexts \ {c} : run'[o] = run[o]
    BY <2>1, Move DEF BusInv
  <2> QED
    BY <1>1, <1>3, <2>1, <2>2, WithinSelection DEF Selecting
<1> QED
  BY <1>0, <1>2, <1>3

\* SPI_CS(1) and SPI_CS(0): nobody else selects a device.
LEMMA SelectBus == ASSUME BusInv, NEW c \in Contexts, Select(c) \/ Release(c) PROVE BusInv'
<1> DEFINE p == IF Select(c) THEN "TXE" ELSE "free"
<1>1. cpu = c /\ (Select(c) => run[c].pc = "select") /\ (Release(c) => run[c].pc = "release")
  BY Running DEF Select, Release
<1>2. Goto(c, p) /\ p \in Points /\ UNCHANGED <<busy, cr1, rxf, cpu>>
  BY <1>1 DEF Select, Release, hw, Points, Holding, Selecting, Waits
<1>3. run[c].pc \in Holding /\ run[c].pc # "idle" /\ run[c].req \in Transfers
  BY <1>1 DEF Holding, Selecting, BusInv, Asked
<1>4. run[c].req.dev \in Devices
  BY <1>3 DEF Transfers
<1>5. cs' = [cs EXCEPT ![run[c].req.dev] = (p = "TXE")]
  BY <1>1 DEF Select, Release
<1>6. count' \in [Devices -> Nat]
  BY DEF Select, Release, hw, BusInv, Typed
<1>7. /\ p \in {"TXE", "free"}
      /\ run[c].pc = IF p = "TXE" THEN "select" ELSE "release"
  BY <1>1
<1> HIDE DEF p
<1>8. run' \in [Contexts -> Doing] /\ run'[c].pc = p
      /\ run'[c].req = run[c].req /\ \A o \in Contexts \ {c} : run'[o] = run[o]
  BY <1>2, Move DEF BusInv
<1>9. Typed'
  BY <1>2, <1>5, <1>6, <1>8 DEF BusInv, Typed
<1>10. \A o \in Contexts : Asked(o)'
  BY <1>3, <1>7, <1>8, StayAsked DEF Asked, Selecting, Waits
<1>11. Exclusion'
  BY <1>2, <1>3, <1>7, <1>8, StayExcluded DEF Holds, Holding, Selecting, Waits
<1>12. \A o \in Contexts \ {c} : run[o].pc \notin Selecting
  BY <1>3 DEF BusInv, Exclusion, Holds, Holding, Contexts
<1>13. ChipSelects'
  <2> SUFFICES ASSUME NEW d \in Devices PROVE cs'[d] <=> Owner(d)'
    BY DEF ChipSelects
  <2>1. cs'[d] = IF d = run[c].req.dev THEN p = "TXE" ELSE cs[d]
    BY <1>5 DEF BusInv, Typed
  <2>2. Owner(d)' <=> p = "TXE" /\ run[c].req.dev = d
    BY <1>7, <1>8, <1>12 DEF Owner, Selecting, Waits
  <2>3. CASE d = run[c].req.dev
    BY <2>1, <2>2, <2>3
  <2>4. CASE d # run[c].req.dev
    BY <1>12, <2>1, <2>2, <2>4 DEF BusInv, ChipSelects, Owner
  <2> QED
    BY <2>3, <2>4
<1> QED
  BY <1>9, <1>10, <1>11, <1>13 DEF BusInv

\* Giving the bus back.
LEMMA FreeBus == ASSUME BusInv, NEW c \in Contexts, Free(c) PROVE BusInv'
<1>1. cpu = c /\ run[c].pc = "free"
  BY Running DEF Free
<1>2. run' \in [Contexts -> Doing] /\ run'[c].pc = "idle" /\ cpu' = "main"
      /\ \A o \in Contexts \ {c} : run'[o] = run[o]
  BY Leave DEF Free, BusInv
<1>3. busy' = FALSE /\ UNCHANGED <<cs, cr1, count, rxf>>
  BY DEF Free, hw
<1>4. Typed'
  BY <1>2, <1>3 DEF BusInv, Typed, Contexts
<1>5. \A o \in Contexts : Asked(o)'
  BY <1>2, StayAsked DEF Asked, Holding, Selecting, Waits
<1>6. Exclusion'
  BY <1>1, <1>2, <1>3 DEF BusInv, Exclusion, Holds, Holding, Selecting, Waits, Contexts
<1>7. ChipSelects'
  BY <1>1, <1>2, <1>3, StayUnselected DEF Selecting, Waits
<1> QED
  BY <1>4, <1>5, <1>6, <1>7 DEF BusInv

-----------------------------------------------------------------------------
LEMMA NextBus == BusInv /\ [Next]_vars => BusInv'
<1> SUFFICES ASSUME BusInv, [Next]_vars PROVE BusInv'
  OBVIOUS
<1>1. CASE Peripheral
  BY <1>1, PeripheralBus
<1>2. CASE Expire
  BY <1>2, WaitBus
<1>3. CASE \E c \in Contexts : Step(c)
  <2>1. PICK c \in Contexts : Step(c)
    BY <1>3
  <2>2. CASE Test(c)
    BY <2>2, TestBus
  <2>3. CASE Load(c) \/ Off(c) \/ On(c)
    BY <2>3, SetupBus
  <2>4. CASE FlagRead(c) \/ TimeRead(c)
    BY <2>4, WaitBus
  <2>5. CASE FlushByte(c) \/ Write(c) \/ Read(c) \/ Errors(c)
    BY <2>5, BytesBus
  <2>6. CASE Claim(c)
    BY <2>6, ClaimBus
  <2>7. CASE FlushEnd(c)
    BY <2>7, FlushEndBus
  <2>8. CASE Select(c) \/ Release(c)
    BY <2>8, SelectBus
  <2>9. CASE Free(c)
    BY <2>9, FreeBus
  <2> QED
    BY <2>1, <2>2, <2>3, <2>4, <2>5, <2>6, <2>7, <2>8, <2>9 DEF Step, SPI_Transfer
<1>4. CASE \E r \in Requests : Call(r) \/ Interrupt(r)
  BY <1>4, CallBus
<1>5. CASE UNCHANGED vars
  BY <1>5 DEF vars, hw, BusInv, Typed, Asked, Exclusion, Holds, ChipSelects, Owner
<1> QED
  BY <1>1, <1>2, <1>3, <1>4, <1>5 DEF Next

LEMMA BusIsOwned == BusInv => OneSelected
<1> SUFFICES ASSUME BusInv PROVE OneSelected
  OBVIOUS
<1>1. CASE Selected = {}
  BY <1>1, FS_EmptySet DEF OneSelected
<1>2. CASE Selected # {}
  <2>1. PICK d \in Devices : cs[d]
    BY <1>2 DEF Selected
  <2>2. PICK c \in Contexts : run[c].pc \in Selecting /\ run[c].req.dev = d
    BY <2>1 DEF BusInv, ChipSelects, Owner
  <2>3. Holds(c) /\ \A o \in Contexts \ {c} : run[o].pc \notin Selecting
    BY <2>2 DEF BusInv, Exclusion, Holds, Holding, Contexts
  <2>4. Selected = {d}
    BY <2>1, <2>2, <2>3 DEF Selected, BusInv, ChipSelects, Owner
  <2>5. busy
    BY <2>3 DEF BusInv, Exclusion, Contexts
  <2>6. Cardinality({d}) = 1
    BY FS_Singleton
  <2> QED
    BY <2>4, <2>5, <2>6 DEF OneSelected
<1> QED
  BY <1>1, <1>2

\* Whatever the main program and a handler ask of the bus, and wherever the
\* handler interrupts: no two devices are selected at once, and none while
\* h->busy is clear.
THEOREM OneDeviceAtATime == Spec => []OneSelected
<1>1. Init => BusInv
  BY InitBus
<1>2. BusInv /\ [Next]_vars => BusInv'
  BY NextBus
<1>3. BusInv => OneSelected
  BY BusIsOwned
<1> QED
  BY <1>1, <1>2, <1>3, PTL DEF Spec

-----------------------------------------------------------------------------
(* The bytes of a transfer.  The context that holds the bus exchanges them *)
(* one at a time, so what is on the line and in the FIFOs follows from its *)
(* point; and when nobody holds the bus nothing is there.                  *)

\* A context that looks at the clock is still at its wait.
Point(c) == IF run[c].pc = "time" THEN run[c].wait ELSE run[c].pc

Quiet == txf = <<>> /\ ~shift
Empty == Quiet /\ rxf = <<>>

\* What has been received are the first answers of the device.
Got(c) == run[c].rx = [k \in 1 .. Len(run[c].rx) |-> <<run[c].req.dev, k>>]

\* The next byte waits or is on the line; its answer has come.
Pending(c)  == /\ (Len(txf) = 1 /\ ~shift) \/ (txf = <<>> /\ shift)
               /\ rxf = <<>> /\ count[run[c].req.dev] = Len(run[c].rx)
Answered(c) == /\ Quiet
               /\ count[run[c].req.dev] = Len(run[c].rx) + 1
               /\ rxf = << <<run[c].req.dev, Len(run[c].rx) + 1>> >>

Line(c) ==
    /\ Point(c) \in {"flush", "select", "TXE", "write", "errors", "FTLVL", "BSY",
                     "release", "free"} => Empty
    /\ Point(c) \in {"BSYfailed", "flushFailed"} => Quiet /\ run[c].st = "SPI_ERR_HW"
    /\ Point(c) \in {"flushFailed", "release", "free"} => ~bsy
    /\ Point(c) \in {"TXE", "write", "RXNE", "read"} =>
           Got(c) /\ Len(run[c].rx) < run[c].req.n
    /\ Point(c) \in {"TXE", "write", "errors"} => count[run[c].req.dev] = Len(run[c].rx)
    /\ Point(c) = "RXNE" => Pending(c) \/ Answered(c)
    /\ Point(c) = "read" => Answered(c)
    /\ Point(c) = "errors" => Got(c) /\ Len(run[c].rx) <= run[c].req.n
    /\ Point(c) \in {"FTLVL", "BSY"} => Got(c) /\ Len(run[c].rx) = run[c].req.n
    /\ Point(c) \in {"release", "free"} /\ run[c].st = "SPI_OK" =>
           Got(c) /\ Len(run[c].rx) = run[c].req.n

Fresh(c) == run[c].pc \in {"test", "claim", "flush", "select"} => run[c].rx = <<>>

\* SPE is off only inside SPI_SetMode or SPI_SetBaud, which the handler is in
\* only while the bus is free.
Enabled == /\ ~cr1.spe => \E c \in Contexts : run[c].pc = "on"
           /\ run["isr"].pc \in {"load", "off", "on"} => ~busy

Still == ~busy => Empty /\ ~bsy

FlowInv == /\ txf \in Seq(Nat) /\ shift \in BOOLEAN /\ bsy \in BOOLEAN /\ ovr = FALSE
           /\ Enabled /\ Still
           /\ \A c \in Contexts : Fresh(c) /\ Line(c)

LEMMA InitFlow == Init => FlowInv
<1> SUFFICES ASSUME Init PROVE FlowInv
  OBVIOUS
<1>1. \A c \in Contexts : run[c].pc = "idle"
  BY DEF Init, At
<1>2. <<>> \in Seq(Nat)
  OBVIOUS
<1>3. \A c \in Contexts : Fresh(c) /\ Line(c)
  BY <1>1 DEF Fresh, Line, Point
<1>4. Enabled /\ Still
  BY <1>1 DEF Init, Enabled, Still, Empty, Quiet, Contexts
<1> QED
  BY <1>2, <1>3, <1>4 DEF Init, FlowInv

\* A context that does not hold the bus says nothing of the line.
LEMMA Vacuous == ASSUME NEW c \in Contexts
                 PROVE  (~Holds(c) => Line(c)) /\ (~Holds(c)' => Line(c)')
  BY DEF Holds, Holding, Selecting, Waits, Line, Point

\* One holder at a time, and the flag is set while there is one.
LEMMA Alone == ASSUME BusInv, NEW c \in Contexts, Holds(c)
               PROVE  busy /\ \A o \in Contexts \ {c} : ~Holds(o)
  BY DEF BusInv, Exclusion, Contexts

\* A context whose transfer and line are left alone.
LEMMA SameLine ==
  ASSUME NEW o \in Contexts, run'[o] = run[o], UNCHANGED <<count, txf, rxf, shift>>,
         ~bsy => ~bsy', Line(o)
  PROVE  Line(o)'
<1>1. Point(o)' = Point(o)
  BY DEF Point
<1>2. Got(o)' = Got(o)
  BY DEF Got
<1>3. Quiet' = Quiet /\ Empty' = Empty
  BY DEF Quiet, Empty
<1>4. Pending(o)' = Pending(o)
  BY DEF Pending
<1>5. Answered(o)' = Answered(o)
  BY <1>3 DEF Answered
<1> QED
  BY <1>1, <1>2, <1>3, <1>4, <1>5 DEF Line

\* A step of the holder.
LEMMA HolderStep ==
  ASSUME NEW c \in Contexts, BusInv, FlowInv, Holds(c), Holds(c)',
         \A o \in Contexts \ {c} : run'[o] = run[o],
         UNCHANGED <<busy, cr1>>,
         txf' \in Seq(Nat), shift' \in BOOLEAN, bsy' \in BOOLEAN, ovr' = FALSE,
         Fresh(c)', Line(c)'
  PROVE  FlowInv'
<1>1. busy /\ \A o \in Contexts \ {c} : ~Holds(o) /\ ~Holds(o)'
  BY Alone DEF Holds
<1>2. \A o \in Contexts : Line(o)'
  BY <1>1, Vacuous
<1>3. \A o \in Contexts : Fresh(o)'
  BY DEF FlowInv, Fresh
<1>4. run[c].pc \notin {"load", "off", "on"} /\ run'[c].pc \notin {"load", "off", "on"}
  BY DEF Holds, Holding, Selecting, Waits
<1>5. Enabled' /\ Still'
  BY <1>1, <1>4 DEF FlowInv, Enabled, Still, Contexts
<1> QED
  BY <1>2, <1>3, <1>5 DEF FlowInv

\* A step of a context that does not hold the bus, and takes nothing.
LEMMA OutsideStep ==
  ASSUME NEW c \in Contexts, BusInv, FlowInv, ~Holds(c), ~Holds(c)',
         \A o \in Contexts \ {c} : run'[o] = run[o],
         UNCHANGED <<busy, hw>>, Fresh(c)', Enabled'
  PROVE  FlowInv'
<1>1. Line(c)'
  BY Vacuous
<1>2. \A o \in Contexts \ {c} : Line(o)'
  BY SameLine DEF FlowInv, hw
<1>3. \A o \in Contexts : Fresh(o)'
  BY DEF FlowInv, Fresh
<1>4. Still'
  BY DEF FlowInv, Still, Empty, Quiet, hw
<1> QED
  BY <1>1, <1>2, <1>3, <1>4 DEF FlowInv, hw

-----------------------------------------------------------------------------
\* While a byte is under way somebody waits for its answer.
LEMMA Waiter == ASSUME BusInv, FlowInv, shift \/ txf # <<>>
                PROVE  \E c \in Contexts : /\ Holds(c) /\ Point(c) = "RXNE" /\ Pending(c)
                                           /\ run[c].pc \in Selecting
<1>1. PICK c \in Contexts : Holds(c)
  BY DEF FlowInv, Still, Empty, Quiet, BusInv, Exclusion, Contexts
<1>2. Point(c) \in Holding \ {"time"}
  BY <1>1 DEF Holds, Point, BusInv, Asked, Holding, Selecting, Waits
<1>3. Line(c)
  BY DEF FlowInv
<1>4. Point(c) = "RXNE"
  BY <1>2, <1>3 DEF Line, Empty, Quiet, Answered, Holding, Selecting, Waits
<1>5. Pending(c)
  BY <1>3, <1>4 DEF Line, Answered, Quiet
<1>6. run[c].pc \in Selecting
  BY <1>4 DEF Point, Selecting, Waits
<1> QED
  BY <1>1, <1>4, <1>5, <1>6

\* Then one device is selected, its own.
LEMMA ItsDevice == ASSUME BusInv, NEW c \in Contexts, run[c].pc \in Selecting
                   PROVE  /\ run[c].req \in Transfers /\ run[c].req.dev \in Devices
                          /\ Selected = {run[c].req.dev}
<1>1. run[c].req \in Transfers
  BY DEF BusInv, Asked, Holding
<1>2. Holds(c)
  BY DEF Holds, Holding
<1>3. \A o \in Contexts \ {c} : run[o].pc \notin Selecting
  BY <1>2, Alone DEF Holds, Holding
<1> QED
  BY <1>1, <1>3 DEF Selected, BusInv, ChipSelects, Owner, Transfers

LEMMA PeripheralFlow == ASSUME BusInv, FlowInv, Peripheral PROVE FlowInv'
<1>0. UNCHANGED <<busy, cs, cr1, cpu, run>>
  BY DEF Peripheral, StartByte, EndByte, EndBusy
<1>1. CASE StartByte
  <2>1. PICK c \in Contexts : /\ Holds(c) /\ Point(c) = "RXNE" /\ Pending(c)
                              /\ run[c].pc \in Selecting
    BY <1>1, Waiter DEF StartByte
  <2>2. Len(txf) = 1 /\ txf \in Seq(Nat)
    BY <1>1, <2>1 DEF Pending, StartByte, FlowInv
  <2>3. txf' = <<>> /\ txf' \in Seq(Nat)
    BY <1>1, <2>2 DEF StartByte
  <2>4. Pending(c)'
    BY <1>0, <1>1, <2>1, <2>3 DEF Pending, StartByte
  <2>5. Point(c)' = "RXNE"
    BY <1>0, <2>1 DEF Point
  <2>6. Line(c) /\ Fresh(c)
    BY DEF FlowInv
  <2>7. Line(c)'
    BY <1>0, <2>1, <2>4, <2>5, <2>6 DEF Line, Got
  <2>8. Fresh(c)' /\ Holds(c)'
    BY <1>0, <2>1, <2>6 DEF Fresh, Holds
  <2> QED
    BY <1>0, <1>1, <2>1, <2>3, <2>7, <2>8, HolderStep DEF StartByte, FlowInv
<1>2. CASE EndByte
  <2>1. PICK c \in Contexts : /\ Holds(c) /\ Point(c) = "RXNE" /\ Pending(c)
                              /\ run[c].pc \in Selecting
    BY <1>2, Waiter DEF EndByte
  <2> DEFINE d == run[c].req.dev
  <2>2. d \in Devices /\ Selected = {d}
    BY <2>1, ItsDevice
  <2>3. Cardinality(Selected) = 1 /\ (CHOOSE e \in Selected : TRUE) = d
    BY <2>2, FS_Singleton
  <2>4. rxf = <<>> /\ Len(rxf) < Depth
    BY <2>1, SpiAssumption DEF Pending
  <2>5. rxf' = Append(rxf, <<d, count[d] + 1>>) /\ ovr' = ovr
    BY <1>2, <2>3, <2>4 DEF EndByte
  <2>6. cs[d] /\ count[d] = Len(run[c].rx) /\ txf = <<>>
    BY <1>2, <2>1, <2>2 DEF Selected, Pending, EndByte
  <2>7. count'[d] = count[d] + 1 /\ txf' = txf /\ shift' = FALSE /\ bsy' = bsy
    BY <1>2, <2>2, <2>6 DEF EndByte
  <2>8. Answered(c)'
    BY <1>0, <2>4, <2>5, <2>6, <2>7 DEF Answered, Quiet
  <2>9. Point(c)' = "RXNE" /\ Line(c) /\ Fresh(c)
    BY <1>0, <2>1 DEF Point, FlowInv
  <2>10. Line(c)'
    BY <1>0, <2>8, <2>9, <2>1 DEF Line, Got
  <2>11. Fresh(c)' /\ Holds(c)'
    BY <1>0, <2>1, <2>9 DEF Fresh, Holds
  <2> QED
    BY <1>0, <2>1, <2>5, <2>7, <2>10, <2>11, HolderStep DEF FlowInv
<1>3. CASE EndBusy
  <2>1. UNCHANGED <<count, txf, rxf, shift, ovr>> /\ bsy' = FALSE
    BY <1>3 DEF EndBusy
  <2>2. \A c \in Contexts : Line(c)'
    BY <1>0, <2>1, SameLine DEF FlowInv
  <2> QED
    BY <1>0, <2>1, <2>2 DEF FlowInv, Enabled, Still, Empty, Quiet, Fresh
<1> QED
  BY <1>1, <1>2, <1>3 DEF Peripheral

\* Beginning a call, the test and the set-up calls leave the line alone.
LEMMA CallFlow == ASSUME BusInv, FlowInv, NEW r \in Requests, Call(r) \/ Interrupt(r)
                  PROVE  FlowInv'
<1> DEFINE x == [At("test", "SPI_OK") EXCEPT !.req = r]
<1>1. x.pc = "test" /\ x.rx = <<>>
  BY DEF At
<1> HIDE DEF x
<1>2. PICK c \in Contexts : run[c].pc = "idle" /\ run' = [run EXCEPT ![c] = x]
  <2>1. CASE Call(r)
    BY <2>1, Running DEF Call, x, Contexts
  <2>2. CASE Interrupt(r)
    BY <2>2 DEF Interrupt, BusInv, Exclusion, x, Contexts
  <2> QED
    BY <2>1, <2>2
<1>3. UNCHANGED <<busy, cr1, hw>>
  BY DEF Call, Interrupt
<1>4. run'[c] = x /\ \A o \in Contexts \ {c} : run'[o] = run[o]
  BY <1>2 DEF BusInv, Typed
<1>5. ~Holds(c) /\ ~Holds(c)' /\ Fresh(c)'
  BY <1>1, <1>2, <1>4 DEF Holds, Holding, Selecting, Waits, Fresh
<1>6. Enabled'
  BY <1>1, <1>2, <1>3, <1>4 DEF FlowInv, Enabled, Contexts
<1> QED
  BY <1>3, <1>4, <1>5, <1>6, OutsideStep

LEMMA TestFlow == ASSUME BusInv, FlowInv, NEW c \in Contexts, Test(c) PROVE FlowInv'
<1>1. cpu = c /\ run[c].pc = "test"
  BY Running DEF Test
<1>2. UNCHANGED <<busy, cr1, hw>>
  BY DEF Test
<1>3. CASE busy
  <2>1. Return(c, "SPI_ERR_BUSY")
    BY <1>3 DEF Test
  <2>2. run'[c].pc = "idle" /\ \A o \in Contexts \ {c} : run'[o] = run[o]
    BY <2>1, Leave DEF BusInv
  <2>3. ~Holds(c) /\ ~Holds(c)' /\ Fresh(c)'
    BY <1>1, <2>2 DEF Holds, Holding, Selecting, Waits, Fresh
  <2>4. Enabled'
    BY <1>1, <1>2, <2>2 DEF FlowInv, Enabled, Contexts
  <2> QED
    BY <1>2, <2>2, <2>3, <2>4, OutsideStep
<1>4. CASE ~busy
  <2> DEFINE p == IF run[c].req.op = "transfer" THEN "claim" ELSE "load"
  <2>1. Goto(c, p) /\ p \in Points /\ p \in {"claim", "load"}
    BY <1>4 DEF Test, Points
  <2> HIDE DEF p
  <2>2. run'[c].pc = p /\ run'[c].rx = run[c].rx
        /\ \A o \in Contexts \ {c} : run'[o] = run[o]
    BY <2>1 DEF Goto, BusInv, Typed, Doing
  <2>3. run[c].rx = <<>>
    BY <1>1 DEF FlowInv, Fresh
  <2>4. ~Holds(c) /\ ~Holds(c)' /\ Fresh(c)'
    BY <1>1, <2>1, <2>2, <2>3 DEF Holds, Holding, Selecting, Waits, Fresh
  <2>5. Enabled'
    BY <1>1, <1>2, <1>4, <2>1, <2>2 DEF FlowInv, Enabled, Contexts
  <2> QED
    BY <1>2, <2>2, <2>4, <2>5, OutsideStep
<1> QED
  BY <1>3, <1>4

LEMMA SetupFlow == ASSUME BusInv, FlowInv, NEW c \in Contexts, Load(c) \/ Off(c) \/ On(c)
                   PROVE  FlowInv'
<1>1. UNCHANGED <<busy, hw>> /\ run[c].pc \in {"load", "off", "on"}
  BY Running DEF Load, Off, On
<1>2. run'[c].pc \in {"off", "on", "idle"} /\ (Off(c) => run'[c].pc = "on")
      /\ \A o \in Contexts \ {c} : run'[o] = run[o]
  <2>1. CASE Load(c)
    <3>1. run' = [run EXCEPT ![c].cr1 = cr1, ![c].pc = "off"] /\ run[c].pc = "load"
      BY <2>1, Running DEF Load
    <3>2. ~Off(c)
      BY <3>1, Running DEF Off
    <3> QED
      BY <3>1, <3>2 DEF BusInv, Typed, Doing
  <2>2. CASE Off(c)
    BY <2>2 DEF Off, Goto, BusInv, Typed, Doing
  <2>3. CASE On(c)
    <3>1. run'[c].pc = "idle" /\ \A o \in Contexts \ {c} : run'[o] = run[o]
      BY <2>3, Leave DEF On, BusInv
    <3>2. ~Off(c)
      BY <2>3, Running DEF On, Off
    <3> QED
      BY <3>1, <3>2
  <2> QED
    BY <2>1, <2>2, <2>3
<1>3. ~Holds(c) /\ ~Holds(c)' /\ Fresh(c)'
  BY <1>1, <1>2 DEF Holds, Holding, Selecting, Waits, Fresh
<1>4. ~cr1'.spe => \E o \in Contexts : run'[o].pc = "on"
  <2>1. CASE Load(c)
    <3>1. run[c].pc = "load" /\ cr1' = cr1
      BY <2>1, Running DEF Load
    <3> QED
      BY <1>2, <3>1 DEF FlowInv, Enabled
  <2>2. CASE Off(c)
    BY <1>2, <2>2
  <2>3. CASE On(c)
    BY <2>3 DEF On
  <2> QED
    BY <2>1, <2>2, <2>3
<1>5. run'["isr"].pc \in {"load", "off", "on"} => ~busy'
  BY <1>1, <1>2 DEF FlowInv, Enabled, Contexts
<1> QED
  BY <1>1, <1>2, <1>3, <1>4, <1>5, OutsideStep DEF Enabled

-----------------------------------------------------------------------------
\* The waits.
LEMMA WaitingFlow ==
  ASSUME BusInv, FlowInv, NEW c \in Contexts, FlagRead(c) \/ TimeRead(c) PROVE FlowInv'
<1>0. UNCHANGED <<busy, cr1, txf, rxf, shift, bsy, ovr, count>>
  BY DEF FlagRead, TimeRead, hw
<1>1. run[c].pc \in Waits \cup {"time"} /\ (run[c].pc = "time" => run[c].wait \in Waits)
  BY DEF FlagRead, TimeRead, Where, Waits, BusInv, Asked
<1>2. Line(c) /\ Holds(c)
  BY <1>1 DEF FlowInv, Holds, Holding, Selecting
<1>3. /\ \A o \in Contexts \ {c} : run'[o] = run[o]
      /\ run'[c].rx = run[c].rx /\ run'[c].req = run[c].req /\ run'[c].st = run[c].st
      /\ run'[c].pc \in Waits \cup {"time", "write", "read", "release", "flushFailed"}
      /\ \/ Point(c)' = Point(c)
         \/ Over(run[c].pc) /\ run[c].pc \in Waits /\ run'[c].pc = After[run[c].pc]
  <2>1. CASE FlagRead(c)
    <3>1. Where(c) = run[c].pc /\ run[c].pc \in Waits
      BY <2>1 DEF FlagRead, Where, Waits
    <3>2. CASE Over(run[c].pc)
      <4>1. run' = [run EXCEPT ![c].pc = After[run[c].pc]]
        BY <2>1, <3>1, <3>2 DEF FlagRead, Goto
      <4>2. After[run[c].pc] \in Waits \cup {"write", "read", "release", "flushFailed"}
        BY <3>1 DEF After, Waits
      <4> QED
        BY <3>1, <3>2, <4>1, <4>2 DEF BusInv, Typed, Doing
    <3>3. CASE ~Over(run[c].pc)
      <4>1. run' = [run EXCEPT ![c].pc = "time", ![c].wait = run[c].pc]
        BY <2>1, <3>1, <3>3 DEF FlagRead
      <4>2. run'[c].pc = "time" /\ run'[c].wait = run[c].pc
            /\ run'[c].rx = run[c].rx /\ run'[c].req = run[c].req /\ run'[c].st = run[c].st
            /\ \A o \in Contexts \ {c} : run'[o] = run[o]
        BY <4>1, Known DEF Doing
      <4>3. run[c].pc # "time"
        BY <3>1 DEF Waits
      <4> QED
        BY <4>2, <4>3 DEF Point
    <3> QED
      BY <3>2, <3>3
  <2>2. CASE TimeRead(c)
    <3>1. run[c].pc = "time" /\ run[c].wait \in Waits
      BY <1>1, <2>2, Running DEF TimeRead
    <3>2. run' = [run EXCEPT ![c].pc = run[c].wait, ![c].wait = ""]
      BY <2>2 DEF TimeRead
    <3>3. run'[c].pc = run[c].wait
          /\ run'[c].rx = run[c].rx /\ run'[c].req = run[c].req /\ run'[c].st = run[c].st
          /\ \A o \in Contexts \ {c} : run'[o] = run[o]
      BY <3>2, Known DEF Doing
    <3>4. run[c].wait # "time"
      BY <3>1 DEF Waits
    <3> QED
      BY <3>1, <3>3, <3>4 DEF Point
  <2> QED
    BY <2>1, <2>2
<1>4. Got(c)' = Got(c) /\ Quiet' = Quiet /\ Empty' = Empty
  BY <1>0, <1>3 DEF Got, Quiet, Empty
<1>5. Pending(c)' = Pending(c) /\ Answered(c)' = Answered(c)
  BY <1>0, <1>3, <1>4 DEF Pending, Answered
<1>6. Line(c)'
  <2>1. CASE Point(c)' = Point(c)
    BY <1>0, <1>2, <1>3, <1>4, <1>5, <2>1 DEF Line
  <2>2. CASE Over(run[c].pc) /\ run[c].pc \in Waits /\ run'[c].pc = After[run[c].pc]
    <3>1. Point(c) = run[c].pc /\ Point(c)' = After[run[c].pc]
      BY <1>3, <2>2 DEF Point, Waits, After
    <3>2. CASE run[c].pc = "TXE"
      BY <1>0, <1>2, <1>3, <1>4, <3>1, <3>2 DEF Line, After
    <3>3. CASE run[c].pc = "RXNE"
      <4>1. rxf # <<>>
        BY <2>2, <3>3 DEF Over
      <4> QED
        BY <1>0, <1>2, <1>3, <1>4, <1>5, <3>1, <3>3, <4>1 DEF Line, After, Pending
    <3>4. CASE run[c].pc = "FTLVL"
      BY <1>0, <1>2, <1>3, <1>4, <3>1, <3>4 DEF Line, After
    <3>5. CASE run[c].pc = "BSY"
      <4>1. ~bsy
        BY <2>2, <3>5 DEF Over
      <4> QED
        BY <1>0, <1>2, <1>3, <1>4, <3>1, <3>5, <4>1 DEF Line, After
    <3>6. CASE run[c].pc = "BSYfailed"
      <4>1. ~bsy
        BY <2>2, <3>6 DEF Over
      <4> QED
        BY <1>0, <1>2, <1>3, <1>4, <3>1, <3>6, <4>1 DEF Line, After
    <3> QED
      BY <2>2, <3>2, <3>3, <3>4, <3>5, <3>6 DEF Waits
  <2> QED
    BY <1>3, <2>1, <2>2
<1>7. Fresh(c)' /\ Holds(c)'
  BY <1>3 DEF Fresh, Holds, Holding, Selecting, Waits
<1> QED
  BY <1>0, <1>2, <1>3, <1>6, <1>7, HolderStep DEF FlowInv

\* A wait that expires: by then the byte has been exchanged.
LEMMA ExpireFlow == ASSUME BusInv, FlowInv, Expire PROVE FlowInv'
<1> DEFINE c == "main"
           w == run["main"].wait
<1>1. c \in Contexts /\ cpu = c /\ run[c].pc = "time" /\ w \in Waits
  BY Running DEF Expire, BusInv, Asked, Contexts
<1>2. Line(c) /\ Holds(c) /\ Point(c) = w
  BY <1>1 DEF FlowInv, Holds, Holding, Selecting, Point
<1>3. cr1.spe
  <2>1. run["isr"].pc = "idle"
    BY <1>1 DEF BusInv, Exclusion, Points
  <2> QED
    BY <1>1, <2>1 DEF FlowInv, Enabled, Contexts
<1>4. Quiet /\ ~bsy
  BY <1>3 DEF Expire, Drained, Quiet
<1>5. UNCHANGED <<busy, cr1, txf, rxf, shift, bsy, ovr, count>>
  BY DEF Expire, hw
<1>6. run'[c].pc = Expired[w] /\ run'[c].st = "SPI_ERR_HW"
      /\ \A o \in Contexts \ {c} : run'[o] = run[o]
  <2>1. run["main"] \in Doing /\ run \in [Contexts -> Doing]
    BY <1>1, Known
  <2>2. run' = [run EXCEPT !["main"] = [@ EXCEPT !.pc = Expired[w], !.wait = "",
                                                 !.st = "SPI_ERR_HW"]]
    BY DEF Expire
  <2> QED
    BY <1>1, <2>1, <2>2 DEF Doing
<1>7. Quiet' /\ Empty' = Empty /\ ~bsy'
  BY <1>4, <1>5 DEF Quiet, Empty
<1>8. Expired[w] \in {"BSYfailed", "release", "flushFailed"}
      /\ (Expired[w] = "release" => w \in {"FTLVL", "BSY"})
  BY <1>1 DEF Expired, Waits
<1>9. Point(c)' = Expired[w]
  BY <1>6, <1>8 DEF Point
<1>10. w \in {"FTLVL", "BSY"} => Empty
  BY <1>2 DEF Line
<1>11. Line(c)'
  BY <1>6, <1>7, <1>8, <1>9, <1>10 DEF Line
<1>12. Fresh(c)' /\ Holds(c)'
  BY <1>6, <1>8 DEF Fresh, Holds, Holding, Selecting, Waits
<1> HIDE DEF c, w
<1> QED
  BY <1>1, <1>2, <1>5, <1>6, <1>11, <1>12, HolderStep DEF FlowInv

-----------------------------------------------------------------------------
\* Where the holder goes, with what it has received.
LEMMA Onward == ASSUME NEW c \in Contexts, BusInv, NEW p, Goto(c, p)
                PROVE  /\ run'[c].pc = p /\ run'[c].rx = run[c].rx
                       /\ run'[c].req = run[c].req /\ run'[c].st = run[c].st
                       /\ \A o \in Contexts \ {c} : run'[o] = run[o]
  BY Known DEF Goto, Doing

LEMMA ClaimFlow == ASSUME BusInv, FlowInv, NEW c \in Contexts, Claim(c) PROVE FlowInv'
<1>1. cpu = c /\ run[c].pc = "claim"
  BY Running DEF Claim
<1>2. ~busy /\ \A o \in Contexts : ~Holds(o)
  <2>1. ~Holds(c)
    BY <1>1 DEF Holds, Holding, Selecting, Waits
  <2> QED
    BY <1>1, <2>1 DEF BusInv, Exclusion, Contexts, Holds, Holding, Selecting, Waits
<1>3. Empty /\ ~bsy
  BY <1>2 DEF FlowInv, Still
<1>4. UNCHANGED <<cr1, txf, rxf, shift, bsy, ovr, count>> /\ busy' = TRUE
  BY DEF Claim, hw
<1>5. /\ run'[c].pc = "flush" /\ run'[c].rx = run[c].rx
      /\ \A o \in Contexts \ {c} : run'[o] = run[o]
  BY Onward DEF Claim
<1>6. run[c].rx = <<>>
  BY <1>1 DEF FlowInv, Fresh
<1>7. Empty' /\ Point(c)' = "flush"
  BY <1>3, <1>4, <1>5 DEF Empty, Quiet, Point
<1>8. Line(c)' /\ Fresh(c)'
  BY <1>5, <1>6, <1>7 DEF Line, Fresh
<1>9. \A o \in Contexts : Line(o)' /\ Fresh(o)'
  BY <1>2, <1>5, <1>8, Vacuous DEF Holds, FlowInv, Fresh
<1>10. run'["isr"].pc \notin {"load", "off", "on"}
  <2>1. cpu = "isr" \/ run["isr"].pc = "idle"
    BY <1>1 DEF BusInv, Exclusion, Contexts
  <2>2. c = "isr" \/ run'["isr"].pc = "idle"
    BY <1>1, <1>5, <2>1 DEF Contexts
  <2> QED
    BY <1>5, <2>2
<1>11. Enabled' /\ Still'
  BY <1>1, <1>4, <1>5, <1>10 DEF FlowInv, Enabled, Still, Contexts
<1> QED
  BY <1>4, <1>9, <1>11 DEF FlowInv

LEMMA FlushFlow == ASSUME BusInv, FlowInv, NEW c \in Contexts, FlushByte(c) \/ FlushEnd(c)
                   PROVE  FlowInv'
<1>1. Where(c) = run[c].pc /\ run[c].pc \in {"flush", "flushFailed"}
  BY DEF FlushByte, FlushEnd, Where
<1>2. Line(c) /\ Fresh(c) /\ Holds(c) /\ Point(c) = run[c].pc
  BY <1>1 DEF FlowInv, Holds, Holding, Selecting, Point
<1>3. UNCHANGED <<busy, cr1, txf, shift, bsy, count>> /\ ovr' = FALSE
  BY DEF FlushByte, FlushEnd, FlowInv
<1>4. CASE FlushByte(c)
  <2>1. run[c].pc = "flushFailed"
    BY <1>1, <1>2, <1>4 DEF Line, Empty, FlushByte
  <2>2. run' = run /\ Quiet' = Quiet
    BY <1>3, <1>4 DEF FlushByte, Quiet
  <2>3. Point(c)' = "flushFailed"
    BY <1>2, <2>1, <2>2 DEF Point
  <2>4. Line(c)'
    BY <1>2, <1>3, <2>1, <2>2, <2>3 DEF Line
  <2>5. Fresh(c)' /\ Holds(c)'
    BY <1>2, <2>2 DEF Fresh, Holds
  <2> QED
    BY <1>2, <1>3, <2>2, <2>4, <2>5, HolderStep DEF FlowInv
<1>5. CASE FlushEnd(c)
  <2>1. rxf = <<>> /\ rxf' = rxf
    BY <1>5 DEF FlushEnd
  <2>2. Goto(c, IF run[c].pc = "flush" THEN "select" ELSE "release")
    BY <1>1, <1>5 DEF FlushEnd
  <2>3. /\ run'[c].pc = IF run[c].pc = "flush" THEN "select" ELSE "release"
        /\ run'[c].rx = run[c].rx /\ run'[c].st = run[c].st
        /\ \A o \in Contexts \ {c} : run'[o] = run[o]
    BY <2>2, Onward
  <2>4. Point(c)' = run'[c].pc
    BY <2>3 DEF Point
  <2>5. Empty'
    BY <1>1, <1>2, <1>3, <2>1 DEF Line, Empty, Quiet
  <2>6. Line(c)'
    BY <1>1, <1>2, <1>3, <2>3, <2>4, <2>5 DEF Line
  <2>7. Fresh(c)' /\ Holds(c)'
    BY <1>1, <1>2, <2>3 DEF Fresh, Holds, Holding, Selecting
  <2> QED
    BY <1>2, <1>3, <2>3, <2>6, <2>7, HolderStep DEF FlowInv
<1> QED
  BY <1>4, <1>5

LEMMA SelectFlow == ASSUME BusInv, FlowInv, NEW c \in Contexts, Select(c) PROVE FlowInv'
<1>1. run[c].pc = "select" /\ Goto(c, "TXE")
  BY Running DEF Select
<1>2. Line(c) /\ Fresh(c) /\ Holds(c) /\ Point(c) = "select"
  BY <1>1 DEF FlowInv, Holds, Holding, Point
<1>3. run[c].rx = <<>> /\ Empty
  BY <1>1, <1>2 DEF Fresh, Line
<1>4. UNCHANGED <<busy, cr1, txf, rxf, shift, bsy, ovr>>
  BY DEF Select
<1>5. run[c].req.dev \in Devices /\ run[c].req.n \in Nat \ {0}
  BY <1>1, SpiAssumption DEF BusInv, Asked, Holding, Transfers
<1>6. count'[run[c].req.dev] = 0
  BY <1>5 DEF Select, BusInv, Typed
<1>7. /\ run'[c].pc = "TXE" /\ run'[c].rx = <<>> /\ run'[c].req = run[c].req
      /\ \A o \in Contexts \ {c} : run'[o] = run[o]
  BY <1>1, <1>3, Onward
<1>8. Empty' /\ Point(c)' = "TXE"
  BY <1>3, <1>4, <1>7 DEF Empty, Quiet, Point
<1>9. Len(run'[c].rx) = 0 /\ Got(c)'
  <2>1. Len(run'[c].rx) = 0
    BY <1>7
  <2>2. [k \in 1 .. 0 |-> <<run'[c].req.dev, k>>] = <<>>
    OBVIOUS
  <2> QED
    BY <1>7, <2>1, <2>2 DEF Got
<1>10. Line(c)'
  BY <1>5, <1>6, <1>7, <1>8, <1>9 DEF Line
<1>11. Fresh(c)' /\ Holds(c)'
  BY <1>7 DEF Fresh, Holds, Holding, Selecting, Waits
<1> QED
  BY <1>2, <1>4, <1>7, <1>10, <1>11, HolderStep DEF FlowInv

-----------------------------------------------------------------------------
\* One byte of the transfer.
LEMMA WriteFlow == ASSUME BusInv, FlowInv, NEW c \in Contexts, Write(c) PROVE FlowInv'
<1>1. run[c].pc = "write" /\ Goto(c, "RXNE")
  BY Running DEF Write
<1>2. Line(c) /\ Holds(c) /\ Point(c) = "write"
  BY <1>1 DEF FlowInv, Holds, Holding, Selecting, Point
<1>3. UNCHANGED <<busy, cr1, rxf, shift, bsy, ovr, count>>
  BY DEF Write
<1>4. Empty /\ Got(c) /\ Len(run[c].rx) < run[c].req.n
      /\ count[run[c].req.dev] = Len(run[c].rx)
  BY <1>2 DEF Line
<1>5. run[c].rx \in Seq(Answers)
  BY DEF BusInv, Typed, Doing
<1>6. txf' \in Seq(Nat) /\ Len(txf') = 1
  <2>1. Len(run[c].rx) + 1 \in Nat
    BY <1>5
  <2> QED
    BY <1>4, <2>1 DEF Write, FlowInv, Empty, Quiet
<1>7. /\ run'[c].pc = "RXNE" /\ run'[c].rx = run[c].rx /\ run'[c].req = run[c].req
      /\ \A o \in Contexts \ {c} : run'[o] = run[o]
  BY <1>1, Onward
<1>8. Point(c)' = "RXNE" /\ Got(c)' /\ Pending(c)'
  BY <1>3, <1>4, <1>6, <1>7 DEF Point, Got, Pending, Empty, Quiet
<1>9. Line(c)'
  BY <1>4, <1>7, <1>8 DEF Line
<1>10. Fresh(c)' /\ Holds(c)'
  BY <1>7 DEF Fresh, Holds, Holding, Selecting, Waits
<1> QED
  BY <1>2, <1>3, <1>6, <1>7, <1>9, <1>10, HolderStep DEF FlowInv

LEMMA ReadFlow == ASSUME BusInv, FlowInv, NEW c \in Contexts, Read(c) PROVE FlowInv'
<1>1. run[c].pc = "read"
  BY Running DEF Read
<1>2. Line(c) /\ Holds(c) /\ Point(c) = "read"
  BY <1>1 DEF FlowInv, Holds, Holding, Selecting, Point
<1>3. UNCHANGED <<busy, cr1, txf, shift, bsy, ovr, count>>
  BY DEF Read
<1> DEFINE d == run[c].req.dev
           n == Len(run[c].rx)
<1>4. Answered(c) /\ Got(c) /\ n < run[c].req.n
  BY <1>2 DEF Line
<1>5. run[c].rx \in Seq(Answers) /\ n \in Nat /\ run[c].req.n \in Nat
  <2>1. run[c].req \in Transfers
    BY <1>1 DEF BusInv, Asked, Holding, Selecting
  <2>2. run[c].rx \in Seq(Answers)
    BY Known DEF Doing
  <2>3. run[c].req.n \in Nat
    BY <2>1, SpiAssumption DEF Transfers
  <2> QED
    BY <2>2, <2>3
<1>6. rxf = << <<d, n + 1>> >> /\ Head(rxf) = <<d, n + 1>> /\ rxf' = <<>>
  <2>1. rxf = << <<d, n + 1>> >>
    BY <1>4 DEF Answered
  <2> QED
    BY <2>1 DEF Read
<1>7. /\ run'[c].pc = "errors" /\ run'[c].rx = Append(run[c].rx, <<d, n + 1>>)
      /\ run'[c].req = run[c].req
      /\ \A o \in Contexts \ {c} : run'[o] = run[o]
  <2>1. run' = [run EXCEPT ![c].rx = Append(@, Head(rxf)), ![c].pc = "errors"]
    BY DEF Read
  <2> QED
    BY <1>6, <2>1, Known DEF Doing
<1>8. Len(run'[c].rx) = n + 1
  BY <1>5, <1>7
<1>9. Got(c)'
  <2>1. run[c].rx = [k \in 1 .. n |-> <<d, k>>]
    BY <1>4 DEF Got
  <2>2. <<d, n + 1>> \in Answers
    <3>1. d \in Devices
      BY <1>1, ItsDevice DEF Selecting
    <3> QED
      BY <1>5, <3>1 DEF Answers
  <2>3. run'[c].rx \in Seq(Answers) /\ run'[c].rx[n + 1] = <<d, n + 1>>
        /\ \A k \in 1 .. n : run'[c].rx[k] = run[c].rx[k]
    BY <1>5, <1>7, <2>2, AppendProperties
  <2>4. run'[c].rx = [k \in 1 .. n + 1 |-> run'[c].rx[k]]
    BY <1>8, <2>3, LenProperties
  <2>5. \A k \in 1 .. n + 1 : run'[c].rx[k] = <<d, k>>
    <3> SUFFICES ASSUME NEW k \in 1 .. n + 1 PROVE run'[c].rx[k] = <<d, k>>
      OBVIOUS
    <3>1. CASE k = n + 1
      BY <2>3, <3>1
    <3>2. CASE k # n + 1
      <4>1. k \in 1 .. n
        BY <1>5, <3>2
      <4>2. run[c].rx[k] = <<d, k>>
        BY <2>1, <4>1
      <4> QED
        BY <2>3, <4>1, <4>2
    <3> QED
      BY <3>1, <3>2
  <2>6. run'[c].rx = [k \in 1 .. n + 1 |-> <<d, k>>]
    <3> HIDE DEF d, n
    <3> QED
      BY <2>4, <2>5
  <2> QED
    BY <1>7, <1>8, <2>6 DEF Got
<1>10. Empty' /\ Point(c)' = "errors"
  BY <1>3, <1>4, <1>6, <1>7 DEF Empty, Quiet, Answered, Point
<1>11. count'[d] = n + 1
  BY <1>3, <1>4 DEF Answered
<1>12. Line(c)'
  BY <1>4, <1>5, <1>7, <1>8, <1>9, <1>10, <1>11 DEF Line
<1>13. Fresh(c)' /\ Holds(c)'
  BY <1>7 DEF Fresh, Holds, Holding, Selecting
<1> QED
  BY <1>2, <1>3, <1>7, <1>12, <1>13, HolderStep DEF FlowInv

LEMMA ErrorsFlow == ASSUME BusInv, FlowInv, NEW c \in Contexts, Errors(c) PROVE FlowInv'
<1>1. run[c].pc = "errors"
  BY Running DEF Errors
<1>2. Line(c) /\ Holds(c) /\ Point(c) = "errors"
  BY <1>1 DEF FlowInv, Holds, Holding, Selecting, Point
<1>3. UNCHANGED <<busy, cr1, txf, rxf, shift, bsy, ovr, count>>
  BY DEF Errors, hw
<1>4. Empty /\ Got(c) /\ Len(run[c].rx) <= run[c].req.n
      /\ count[run[c].req.dev] = Len(run[c].rx)
  BY <1>2 DEF Line
<1>5. run[c].rx \in Seq(Answers) /\ Len(run[c].rx) \in Nat /\ run[c].req.n \in Nat
  <2>1. run[c].req \in Transfers
    BY <1>1 DEF BusInv, Asked, Holding, Selecting
  <2>2. run[c].rx \in Seq(Answers)
    BY Known DEF Doing
  <2>3. run[c].req.n \in Nat
    BY <2>1, SpiAssumption DEF Transfers
  <2> QED
    BY <2>2, <2>3
<1>6. Goto(c, IF Len(run[c].rx) < run[c].req.n THEN "TXE" ELSE "FTLVL")
  BY DEF Errors, FlowInv
<1>7. /\ run'[c].pc = IF Len(run[c].rx) < run[c].req.n THEN "TXE" ELSE "FTLVL"
      /\ run'[c].rx = run[c].rx /\ run'[c].req = run[c].req
      /\ \A o \in Contexts \ {c} : run'[o] = run[o]
  BY <1>6, Onward
<1>8. Point(c)' = run'[c].pc /\ Got(c)' /\ Empty'
  BY <1>3, <1>4, <1>7 DEF Point, Got, Empty, Quiet
<1>9. Line(c)'
  BY <1>3, <1>4, <1>5, <1>7, <1>8 DEF Line
<1>10. Fresh(c)' /\ Holds(c)'
  BY <1>7 DEF Fresh, Holds, Holding, Selecting, Waits
<1> QED
  BY <1>2, <1>3, <1>7, <1>9, <1>10, HolderStep DEF FlowInv

-----------------------------------------------------------------------------
\* The end of a transfer.
LEMMA ReleaseFlow == ASSUME BusInv, FlowInv, NEW c \in Contexts, Release(c) PROVE FlowInv'
<1>1. run[c].pc = "release" /\ Goto(c, "free")
  BY Running DEF Release
<1>2. Line(c) /\ Holds(c) /\ Point(c) = "release"
  BY <1>1 DEF FlowInv, Holds, Holding, Selecting, Point
<1>3. UNCHANGED <<busy, cr1, txf, rxf, shift, bsy, ovr, count>>
  BY DEF Release, hw
<1>4. /\ run'[c].pc = "free" /\ run'[c].rx = run[c].rx /\ run'[c].req = run[c].req
      /\ run'[c].st = run[c].st
      /\ \A o \in Contexts \ {c} : run'[o] = run[o]
  BY <1>1, Onward
<1>5. Point(c)' = "free" /\ Got(c)' = Got(c) /\ Empty' = Empty
  BY <1>3, <1>4 DEF Point, Got, Empty, Quiet
<1>6. Line(c)'
  BY <1>2, <1>3, <1>4, <1>5 DEF Line
<1>7. Fresh(c)' /\ Holds(c)'
  BY <1>4 DEF Fresh, Holds, Holding
<1> QED
  BY <1>2, <1>3, <1>4, <1>6, <1>7, HolderStep DEF FlowInv

LEMMA FreeFlow == ASSUME BusInv, FlowInv, NEW c \in Contexts, Free(c) PROVE FlowInv'
<1>1. run[c].pc = "free" /\ cpu = c
  BY Running DEF Free
<1>2. Line(c) /\ Holds(c) /\ Point(c) = "free"
  BY <1>1 DEF FlowInv, Holds, Holding, Point
<1>3. Empty /\ ~bsy
  BY <1>2 DEF Line
<1>4. UNCHANGED <<cr1, txf, rxf, shift, bsy, ovr, count>> /\ busy' = FALSE
  BY DEF Free, hw
<1>5. run'[c].pc = "idle" /\ \A o \in Contexts \ {c} : run'[o] = run[o]
  BY Leave DEF Free, BusInv
<1>6. \A o \in Contexts : ~Holds(o)'
  <2>1. ~Holds(c)'
    BY <1>5 DEF Holds, Holding, Selecting, Waits
  <2> QED
    BY <1>2, <1>5, <2>1, Alone DEF Holds
<1>7. \A o \in Contexts : Line(o)' /\ Fresh(o)'
  BY <1>5, <1>6, Vacuous DEF FlowInv, Fresh
<1>8. Enabled' /\ Still'
  BY <1>1, <1>3, <1>4, <1>5 DEF FlowInv, Enabled, Still, Empty, Quiet, Contexts
<1> QED
  BY <1>4, <1>7, <1>8 DEF FlowInv

-----------------------------------------------------------------------------
LEMMA NextFlow == BusInv /\ FlowInv /\ [Next]_vars => FlowInv'
<1> SUFFICES ASSUME BusInv, FlowInv, [Next]_vars PROVE FlowInv'
  OBVIOUS
<1>1. CASE Peripheral
  BY <1>1, PeripheralFlow
<1>2. CASE Expire
  BY <1>2, ExpireFlow
<1>3. CASE \E c \in Contexts : Step(c)
  <2>1. PICK c \in Contexts : Step(c)
    BY <1>3
  <2>2. CASE Test(c)
    BY <2>2, TestFlow
  <2>3. CASE Load(c) \/ Off(c) \/ On(c)
    BY <2>3, SetupFlow
  <2>4. CASE Claim(c)
    BY <2>4, ClaimFlow
  <2>5. CASE FlushByte(c) \/ FlushEnd(c)
    BY <2>5, FlushFlow
  <2>6. CASE Select(c)
    BY <2>6, SelectFlow
  <2>7. CASE FlagRead(c) \/ TimeRead(c)
    BY <2>7, WaitingFlow
  <2>8. CASE Write(c)
    BY <2>8, WriteFlow
  <2>9. CASE Read(c)
    BY <2>9, ReadFlow
  <2>10. CASE Errors(c)
    BY <2>10, ErrorsFlow
  <2>11. CASE Release(c)
    BY <2>11, ReleaseFlow
  <2>12. CASE Free(c)
    BY <2>12, FreeFlow
  <2> QED
    BY <2>1, <2>2, <2>3, <2>4, <2>5, <2>6, <2>7, <2>8, <2>9, <2>10, <2>11, <2>12
    DEF Step, SPI_Transfer
<1>4. CASE \E r \in Requests : Call(r) \/ Interrupt(r)
  BY <1>4, CallFlow
<1>5. CASE UNCHANGED vars
  <2>1. run' = run /\ UNCHANGED <<busy, cr1, count, txf, rxf, shift, bsy, ovr>>
    BY <1>5 DEF vars, hw
  <2>2. \A c \in Contexts : Line(c)'
    BY <2>1, SameLine DEF FlowInv
  <2> QED
    BY <2>1, <2>2 DEF FlowInv, Enabled, Still, Empty, Quiet, Fresh
<1> QED
  BY <1>1, <1>2, <1>3, <1>4, <1>5 DEF Next

LEMMA Flows == Spec => [](BusInv /\ FlowInv)
<1>1. Init => BusInv /\ FlowInv
  BY InitBus, InitFlow
<1>2. (BusInv /\ FlowInv) /\ [Next]_vars => (BusInv /\ FlowInv)'
  BY NextBus, NextFlow
<1> QED
  BY <1>1, <1>2, PTL DEF Spec

\* A transfer that returns SPI_OK has received the answers of its own device
\* to its own bytes, all of them and in their order, whatever the other
\* context has asked of the bus meanwhile.
THEOREM BytesAreOwn == Spec => []OwnBytes
<1>1. BusInv /\ FlowInv => OwnBytes
  <2> SUFFICES ASSUME BusInv, FlowInv, NEW c \in Contexts,
                      run[c].pc = "free", run[c].st = "SPI_OK"
               PROVE  run[c].rx = [k \in 1 .. run[c].req.n |-> <<run[c].req.dev, k>>]
    BY DEF OwnBytes
  <2>1. Point(c) = "free" /\ Line(c)
    BY DEF Point, FlowInv
  <2> QED
    BY <2>1 DEF Line, Got
<1> QED
  BY <1>1, Flows, PTL

\* A free bus is quiet: what a transfer that failed has left behind was let
\* out and flushed before the flag was cleared.
THEOREM FreeBusIsQuiet == Spec => []QuietWhenFree
<1>1. FlowInv => QuietWhenFree
  BY DEF FlowInv, Still, Empty, Quiet, QuietWhenFree
<1> QED
  BY <1>1, Flows, PTL

LEMMA NextQuiet ==
  BusInv /\ FlowInv /\ [Next]_vars =>
      /\ \A d \in Devices : cs[d] /\ ~cs'[d] => ~bsy /\ txf = <<>>
      /\ cr1' # cr1 => Selected = {} /\ ~shift /\ txf = <<>>
<1> SUFFICES ASSUME BusInv, FlowInv, [Next]_vars
    PROVE  /\ \A d \in Devices : cs[d] /\ ~cs'[d] => ~bsy /\ txf = <<>>
           /\ cr1' # cr1 => Selected = {} /\ ~shift /\ txf = <<>>
  OBVIOUS
<1>1. ASSUME NEW d \in Devices, cs[d], ~cs'[d] PROVE ~bsy /\ txf = <<>>
  <2>1. PICK c \in Contexts : Select(c) \/ Release(c)
    BY <1>1 DEF Next, vars, Peripheral, StartByte, EndByte, EndBusy, Expire, Step, Test, Load,
       Off, On, SPI_Transfer, Claim, FlushByte, FlushEnd, FlagRead, TimeRead, Write, Read,
       Errors, Free, Call, Interrupt
  <2>2. ~Select(c)
    BY <1>1 DEF Select, BusInv, Typed
  <2>3. run[c].pc = "release"
    BY <2>1, <2>2, Running DEF Release
  <2>4. Point(c) = "release" /\ Line(c)
    BY <2>3 DEF Point, FlowInv
  <2> QED
    BY <2>4 DEF Line, Empty, Quiet
<1>2. ASSUME cr1' # cr1 PROVE Selected = {} /\ ~shift /\ txf = <<>>
  <2>1. PICK c \in Contexts : Off(c) \/ On(c)
    BY <1>2 DEF Next, vars, Peripheral, StartByte, EndByte, EndBusy, Expire, Step, Test, Load,
       SPI_Transfer, Claim, FlushByte, FlushEnd, Select, FlagRead, TimeRead, Write, Read,
       Errors, Release, Free, Call, Interrupt
  <2>2. cpu = c /\ run[c].pc \in {"off", "on"}
    BY <2>1, Running DEF Off, On
  <2>3. ~busy
    <3>1. CASE c = "isr"
      BY <2>2, <3>1 DEF FlowInv, Enabled
    <3>2. CASE c = "main"
      BY <2>2, <3>2 DEF BusInv, Exclusion, Holds, Holding, Selecting, Waits
    <3> QED
      BY <3>1, <3>2 DEF Contexts
  <2> QED
    BY <2>3, BusIsOwned DEF OneSelected, FlowInv, Still, Empty, Quiet
<1> QED
  BY <1>1, <1>2

\* A device is deselected only behind the last bit, and neither mode nor
\* divider changes under a selected device or a byte: SPI_SetMode only tests
\* the flag, but whoever it has found free stays away until it is done.
THEOREM LineStaysQuiet == Spec => LineQuiet
<1>1. BusInv /\ FlowInv /\ [Next]_vars =>
          [/\ \A d \in Devices : cs[d] /\ ~cs'[d] => ~bsy /\ txf = <<>>
           /\ cr1' # cr1 => Selected = {} /\ ~shift /\ txf = <<>>]_vars
  BY NextQuiet
<1> QED
  BY <1>1, Flows, PTL DEF Spec, LineQuiet

-----------------------------------------------------------------------------
\* The types: an answer is counted only while somebody waits for it, and no
\* more are asked for than the request says.
Sizes == Len(rxf) <= Depth /\ \A d \in Devices : count[d] <= MaxLen

LEMMA NextSizes == BusInv /\ FlowInv /\ Sizes /\ [Next]_vars => Sizes'
<1> SUFFICES ASSUME BusInv, FlowInv, Sizes, [Next]_vars PROVE Sizes'
  OBVIOUS
<1>1. /\ rxf \in Seq(Answers) /\ Len(rxf) \in Nat /\ Depth \in Nat /\ MaxLen \in Nat
      /\ count \in [Devices -> Nat]
  BY SpiAssumption DEF BusInv, Typed
<1>2. CASE EndByte
  <2>1. PICK c \in Contexts : Holds(c) /\ Point(c) = "RXNE" /\ Pending(c)
    BY <1>2, Waiter DEF EndByte
  <2>2. /\ count[run[c].req.dev] = Len(run[c].rx) /\ Len(run[c].rx) < run[c].req.n
        /\ rxf = <<>>
    BY <2>1 DEF Pending, FlowInv, Line
  <2>3. run[c].req \in Transfers /\ Len(run[c].rx) \in Nat
    <3>1. run[c].req \in Transfers
      BY <2>1 DEF BusInv, Asked, Holds
    <3>2. run[c] \in Doing
      BY Known
    <3>3. run[c].rx \in Seq(Answers)
      BY <3>2 DEF Doing
    <3> QED
      BY <3>1, <3>3
  <2>4. Len(run[c].rx) + 1 <= MaxLen
    BY <1>1, <2>2, <2>3 DEF Transfers
  <2>5. ASSUME NEW d \in Devices, cs[d] PROVE d = run[c].req.dev
    <3>1. PICK o \in Contexts : run[o].pc \in Selecting /\ run[o].req.dev = d
      BY <2>5 DEF BusInv, ChipSelects, Owner
    <3>2. Holds(o)
      BY <3>1 DEF Holds, Holding
    <3> QED
      BY <2>1, <3>1, <3>2, Alone
  <2>6. count' = [d \in Devices |-> IF cs[d] THEN count[d] + 1 ELSE count[d]]
    BY <1>2 DEF EndByte
  <2>7. \A d \in Devices : count'[d] <= MaxLen
    BY <1>1, <2>2, <2>4, <2>5, <2>6 DEF Sizes
  <2>8. Len(rxf') <= Depth
    <3> DEFINE answer == IF Cardinality(Selected) = 1
                         THEN LET d == CHOOSE d \in Selected : TRUE IN <<d, count[d] + 1>>
                         ELSE Nobody
    <3>1. rxf' = rxf \/ rxf' = Append(rxf, answer)
      BY <1>2 DEF EndByte
    <3> HIDE DEF answer
    <3>2. Len(Append(rxf, answer)) = 1
      BY <2>2
    <3> QED
      BY <3>1, <3>2, SpiAssumption DEF Sizes
  <2> QED
    BY <2>7, <2>8 DEF Sizes
<1>3. CASE \E c \in Contexts : Select(c)
  <2>1. rxf' = rxf /\ \E d : count' = [count EXCEPT ![d] = 0]
    BY <1>3 DEF Select
  <2> QED
    BY <1>1, <2>1 DEF Sizes
<1>4. CASE \E c \in Contexts : FlushByte(c) \/ Read(c)
  <2>1. count' = count /\ rxf # <<>> /\ rxf' = Tail(rxf)
    BY <1>4 DEF FlushByte, Read
  <2>2. Len(rxf') = Len(rxf) - 1
    BY <1>1, <2>1, HeadTailProperties
  <2> QED
    BY <1>1, <2>1, <2>2 DEF Sizes
<1>5. CASE UNCHANGED <<count, rxf>>
  BY <1>5 DEF Sizes
<1> QED
  BY <1>2, <1>3, <1>4, <1>5
  DEF Next, vars, hw, Peripheral, StartByte, EndBusy, Expire, Step, Test, Load, Off, On,
      SPI_Transfer, Claim, FlushEnd, FlagRead, TimeRead, Write, Errors, Release, Free, Call,
      Interrupt

\* At most one byte is under way, so the transmit FIFO never fills up.
LEMMA OneByte == BusInv /\ FlowInv => Len(txf) <= 1
<1> SUFFICES ASSUME BusInv, FlowInv PROVE Len(txf) <= 1
  OBVIOUS
<1>1. CASE txf = <<>>
  BY <1>1
<1>2. CASE txf # <<>>
  <2>1. PICK c \in Contexts : Pending(c)
    BY <1>2, Waiter
  <2>2. Len(txf) = 1
    BY <1>2, <2>1 DEF Pending
  <2> QED
    BY <2>2
<1> QED
  BY <1>1, <1>2

LEMMA TypesAre == BusInv /\ FlowInv /\ Sizes => TypeOK
<1> SUFFICES ASSUME BusInv, FlowInv, Sizes PROVE TypeOK
  OBVIOUS
<1>1. Len(txf) <= Depth
  <2>1. Len(txf) \in Nat
    BY DEF FlowInv
  <2> QED
    BY <2>1, OneByte, SpiAssumption
<1>2. count \in [Devices -> 0 .. MaxLen]
  BY SpiAssumption DEF BusInv, Typed, Sizes
<1>3. \A c \in Contexts : run[c].st \in {"SPI_OK", "SPI_ERR_BUSY", "SPI_ERR_HW"}
  BY DEF BusInv, Typed, Doing
<1> QED
  BY <1>1, <1>2, <1>3 DEF TypeOK, BusInv, Typed, FlowInv, Sizes

-----------------------------------------------------------------------------
(* How long a transfer can be.  SysTick and the peripheral decide only how *)
(* often a wait looks at its flag: every other step is one nearer to the   *)
(* end.                                                                    *)

Polls(c) == TimeRead(c) \/ (FlagRead(c) /\ ~Over(Where(c)))

\* Steps behind the last byte, and those of SPI_SetMode and SPI_SetBaud.
AfterBytes == [idle |-> 0, on |-> 1, off |-> 2, load |-> 3, free |-> 1, release |-> 2,
               BSY |-> 3, FTLVL |-> 4, flushFailed |-> 3 + Len(rxf), BSYfailed |-> 4 + Depth]

\* Five for each byte, ahead of the longest of those.
WithBytes == [read |-> 2, RXNE |-> 3, write |-> 4, TXE |-> 5, errors |-> 6, select |-> 6,
              flush |-> 7, claim |-> 8, test |-> 9]

\* Steps a context has left at most, polls apart.
WorkLeft(c) ==
    IF Point(c) \in DOMAIN AfterBytes THEN AfterBytes[Point(c)]
    ELSE IF run[c].req.op = "setup" THEN 4
    ELSE Depth + 1 + 5 * (run[c].req.n - Len(run[c].rx)) + WithBytes[Point(c)]

\* A request when it is made.
WorkOf(r) == IF r.op = "setup" THEN 4 ELSE Depth + 10 + 5 * r.n

\* Steps the peripheral has left.
LineLeft == 4 * Len(txf) + (IF shift THEN 2 ELSE 0) + (IF bsy THEN 1 ELSE 0)

LEMMA PlaceIs ==
  ASSUME BusInv, FlowInv, Sizes, NEW c \in Contexts
  PROVE  /\ run[c] \in Doing /\ Point(c) \in DOMAIN AfterBytes \cup DOMAIN WithBytes
         /\ Len(rxf) \in Nat /\ Len(rxf) <= Depth /\ Depth \in Nat /\ Len(run[c].rx) \in Nat
         /\ Point(c) = "test" => run[c].req \in Requests /\ Len(run[c].rx) = 0
         /\ Point(c) \in DOMAIN WithBytes \ {"test"} =>
               /\ run[c].req.op = "transfer" /\ run[c].req.n \in Nat
               /\ Len(run[c].rx) <= run[c].req.n
         /\ Point(c) \in {"claim", "flush", "select"} => Len(run[c].rx) = 0
         /\ Point(c) \in {"TXE", "write", "RXNE", "read"} => Len(run[c].rx) < run[c].req.n
<1>1. run[c] \in Doing /\ Len(rxf) \in Nat /\ Len(rxf) <= Depth /\ Depth \in Nat
  BY Known, SpiAssumption DEF BusInv, Typed, Sizes
<1>2. Len(run[c].rx) \in Nat /\ run[c].pc \in Points /\ (run[c].pc = "time" => run[c].wait \in Waits)
  <2>1. run[c].rx \in Seq(Answers) /\ run[c].pc \in Points
    BY <1>1 DEF Doing
  <2> QED
    BY <2>1 DEF BusInv, Asked
<1>3. Point(c) \in DOMAIN AfterBytes \cup DOMAIN WithBytes
  BY <1>2 DEF Point, Points, Holding, Selecting, Waits, AfterBytes, WithBytes
<1>4. Point(c) = "test" => run[c].pc = "test"
  BY <1>2 DEF Point, Waits
<1>5. Point(c) \in {"claim", "flush", "select"} => run[c].pc = Point(c)
  BY <1>2 DEF Point, Waits
<1>6. Point(c) \in {"test", "claim", "flush", "select"} => Len(run[c].rx) = 0
  BY <1>4, <1>5 DEF FlowInv, Fresh
<1>7. Point(c) = "test" => run[c].req \in Requests
  BY <1>4 DEF BusInv, Asked
<1>8. Point(c) \in DOMAIN WithBytes \ {"test"} => run[c].req \in Transfers
  <2>1. Point(c) \in DOMAIN WithBytes \ {"test"} => run[c].pc \in Holding \cup {"claim"}
    BY <1>2 DEF Point, Holding, Selecting, Waits, WithBytes
  <2> QED
    BY <2>1 DEF BusInv, Asked
<1>9. \A r \in Transfers : r.op = "transfer" /\ r.n \in Nat
  BY SpiAssumption DEF Transfers
<1>10. /\ Point(c) \in {"TXE", "write", "RXNE", "read"} => Len(run[c].rx) < run[c].req.n
       /\ Point(c) = "errors" => Len(run[c].rx) <= run[c].req.n
  BY DEF FlowInv, Line
<1>11. Point(c) \in DOMAIN WithBytes \ {"test"} => Len(run[c].rx) <= run[c].req.n
  BY <1>2, <1>6, <1>8, <1>9, <1>10 DEF WithBytes
<1> QED
  BY <1>1, <1>2, <1>3, <1>6, <1>7, <1>8, <1>9, <1>10, <1>11

LEMMA RequestIs ==
  ASSUME NEW r \in Requests
  PROVE  \/ r.op = "setup" /\ r \in Setups
         \/ r.op = "transfer" /\ r \in Transfers /\ r.n \in Nat
BY SpiAssumption DEF Requests, Transfers, Setups

LEMMA WorkIsNat ==
  ASSUME BusInv, FlowInv, Sizes, NEW c \in Contexts
  PROVE  WorkLeft(c) \in Nat
<1>1. CASE Point(c) \in DOMAIN AfterBytes
  BY <1>1, PlaceIs DEF WorkLeft, AfterBytes
<1>2. CASE Point(c) \notin DOMAIN AfterBytes
  <2>1. Point(c) \in DOMAIN WithBytes /\ WithBytes[Point(c)] \in Nat
    BY <1>2, PlaceIs DEF WithBytes
  <2>2. CASE run[c].req.op = "setup"
    BY <1>2, <2>2 DEF WorkLeft
  <2>3. CASE run[c].req.op # "setup"
    <3>1. run[c].req.n \in Nat /\ Len(run[c].rx) <= run[c].req.n
      BY <2>1, <2>3, PlaceIs, RequestIs
    <3> QED
      BY <1>2, <2>1, <2>3, <3>1, PlaceIs DEF WorkLeft
  <2> QED
    BY <2>2, <2>3
<1> QED
  BY <1>1, <1>2

\* A context that is left alone has as much to do as before, if the bytes it
\* is to flush are left alone as well.
LEMMA SameWork ==
  ASSUME BusInv, FlowInv, Sizes, NEW o \in Contexts, run'[o] = run[o],
         rxf' = rxf \/ run[o].pc # "flushFailed"
  PROVE  WorkLeft(o)' = WorkLeft(o)
<1>1. Point(o)' = Point(o) /\ WithBytes' = WithBytes /\ DOMAIN AfterBytes' = DOMAIN AfterBytes
  BY DEF Point, WithBytes, AfterBytes
<1>2. rxf' = rxf \/ Point(o) # "flushFailed"
  BY DEF Point, BusInv, Asked, Waits
<1>3. Point(o) \in DOMAIN AfterBytes => AfterBytes'[Point(o)] = AfterBytes[Point(o)]
  BY <1>2 DEF AfterBytes
<1> QED
  BY <1>1, <1>3 DEF WorkLeft

\* What is left at the places of a transfer that still has bytes to exchange.
Ahead(c) == Depth + 1 + 5 * (run[c].req.n - Len(run[c].rx))

LEMMA WorkAt ==
  ASSUME NEW c \in Contexts
  PROVE  /\ Point(c) \in DOMAIN AfterBytes => WorkLeft(c) = AfterBytes[Point(c)]
         /\ run[c].req.op = "setup" /\ Point(c) = "test" => WorkLeft(c) = 4
         /\ run[c].req.op = "transfer" =>
               /\ Point(c) = "test" => WorkLeft(c) = Ahead(c) + 9
               /\ Point(c) = "claim" => WorkLeft(c) = Ahead(c) + 8
               /\ Point(c) = "flush" => WorkLeft(c) = Ahead(c) + 7
               /\ Point(c) \in {"select", "errors"} => WorkLeft(c) = Ahead(c) + 6
               /\ Point(c) = "TXE" => WorkLeft(c) = Ahead(c) + 5
               /\ Point(c) = "write" => WorkLeft(c) = Ahead(c) + 4
               /\ Point(c) = "RXNE" => WorkLeft(c) = Ahead(c) + 3
               /\ Point(c) = "read" => WorkLeft(c) = Ahead(c) + 2
BY DEF WorkLeft, AfterBytes, WithBytes, Ahead

LEMMA WorkAtNext ==
  ASSUME NEW c \in Contexts
  PROVE  /\ Point(c)' \in DOMAIN AfterBytes => WorkLeft(c)' = AfterBytes'[Point(c)']
         /\ run'[c].req.op = "setup" /\ Point(c)' = "test" => WorkLeft(c)' = 4
         /\ run'[c].req.op = "transfer" =>
               /\ Point(c)' = "test" => WorkLeft(c)' = Ahead(c)' + 9
               /\ Point(c)' = "claim" => WorkLeft(c)' = Ahead(c)' + 8
               /\ Point(c)' = "flush" => WorkLeft(c)' = Ahead(c)' + 7
               /\ Point(c)' \in {"select", "errors"} => WorkLeft(c)' = Ahead(c)' + 6
               /\ Point(c)' = "TXE" => WorkLeft(c)' = Ahead(c)' + 5
               /\ Point(c)' = "write" => WorkLeft(c)' = Ahead(c)' + 4
               /\ Point(c)' = "RXNE" => WorkLeft(c)' = Ahead(c)' + 3
               /\ Point(c)' = "read" => WorkLeft(c)' = Ahead(c)' + 2
BY DEF WorkLeft, AfterBytes, WithBytes, Ahead

\* While a transfer has bytes to exchange they are a number, and all of them
\* are ahead at its beginning.
LEMMA AheadIs ==
  ASSUME BusInv, FlowInv, Sizes, NEW c \in Contexts,
         Point(c) \in {"claim", "flush", "select", "TXE", "write", "RXNE", "read", "errors"}
  PROVE  /\ run[c].req.op = "transfer" /\ Ahead(c) \in Nat /\ Ahead(c) > Depth
         /\ Point(c) \in {"TXE", "write", "RXNE", "read"} => Ahead(c) > Depth + 5
<1>1. Point(c) \in DOMAIN WithBytes \ {"test"}
  BY DEF WithBytes
<1>2. /\ run[c].req.op = "transfer" /\ run[c].req.n \in Nat /\ Len(run[c].rx) <= run[c].req.n
      /\ Len(run[c].rx) \in Nat /\ Depth \in Nat
      /\ Point(c) \in {"TXE", "write", "RXNE", "read"} => Len(run[c].rx) < run[c].req.n
  BY <1>1, PlaceIs
<1> QED
  BY <1>2 DEF Ahead

\* From one of these places to another.
LEMMA AheadSame ==
  ASSUME NEW c \in Contexts, run'[c].req = run[c].req, run'[c].rx = run[c].rx
  PROVE  Ahead(c)' = Ahead(c)
BY DEF Ahead

LEMMA AheadLess ==
  ASSUME NEW c \in Contexts, run[c].req.n \in Nat, run'[c].req.n = run[c].req.n, Depth \in Nat,
         Len(run[c].rx) \in Nat, Len(run'[c].rx) = Len(run[c].rx) + 1
  PROVE  Ahead(c)' = Ahead(c) - 5
<1> DEFINE n == run[c].req.n
           l == Len(run[c].rx)
           a == Ahead(c)
           b == Ahead(c)'
<1>1. n \in Nat /\ l \in Nat /\ Depth \in Nat
  OBVIOUS
<1>2. b = Depth + 1 + 5 * (n - (l + 1)) /\ a = Depth + 1 + 5 * (n - l)
  BY DEF Ahead
<1>3. b = a - 5
  <2> HIDE DEF n, l, a, b
  <2> QED
    BY <1>1, <1>2
<1> QED
  BY <1>3

LEMMA NewWork ==
  ASSUME NEW r \in Requests, NEW c \in Contexts, BusInv,
         run' = [run EXCEPT ![c] = [At("test", "SPI_OK") EXCEPT !.req = r]]
  PROVE  WorkLeft(c)' = WorkOf(r)
<1>1. run'[c] = [At("test", "SPI_OK") EXCEPT !.req = r]
  BY DEF BusInv, Typed
<1>2. run'[c].pc = "test" /\ run'[c].req = r /\ run'[c].rx = <<>>
  BY <1>1 DEF At
<1>3. Point(c)' = "test" /\ Len(run'[c].rx) = 0
  BY <1>2 DEF Point
<1>4. CASE r.op = "setup"
  BY <1>2, <1>3, <1>4, WorkAtNext DEF WorkOf
<1>5. CASE r.op = "transfer"
  <2>1. WorkLeft(c)' = Ahead(c)' + 9
    BY <1>2, <1>3, <1>5, WorkAtNext
  <2>2. Ahead(c)' = Depth + 1 + 5 * r.n /\ r.n \in Nat /\ Depth \in Nat
    BY <1>2, <1>3, <1>5, RequestIs, SpiAssumption DEF Ahead
  <2> QED
    BY <1>5, <2>1, <2>2 DEF WorkOf
<1> QED
  BY <1>4, <1>5, RequestIs

\* A poll leaves its context where it is.
LEMMA PollWork ==
  ASSUME BusInv, NEW c \in Contexts, Polls(c)
  PROVE  WorkLeft(c)' = WorkLeft(c)
<1>1. rxf' = rxf /\ run \in [Contexts -> Doing]
  BY Known DEF Polls, FlagRead, TimeRead, hw
<1>2. CASE TimeRead(c)
  <2>1. run[c].pc = "time" /\ run[c].wait \in Waits
    BY <1>2, Running DEF TimeRead, BusInv, Asked
  <2>2. /\ run'[c].pc = run[c].wait
        /\ run'[c].req = run[c].req /\ run'[c].rx = run[c].rx
    BY <1>1, <1>2 DEF TimeRead, Doing
  <2>3. Point(c)' = Point(c)
    BY <2>1, <2>2 DEF Point, Waits
  <2> QED
    BY <1>1, <2>2, <2>3 DEF WorkLeft, AfterBytes, WithBytes
<1>3. CASE FlagRead(c) /\ ~Over(Where(c))
  <2>1. Where(c) = run[c].pc /\ run[c].pc \in Waits
    BY <1>3 DEF FlagRead, Where, Waits
  <2>2. /\ run'[c].pc = "time" /\ run'[c].wait = run[c].pc
        /\ run'[c].req = run[c].req /\ run'[c].rx = run[c].rx
    <3>1. run' = [run EXCEPT ![c].pc = "time", ![c].wait = run[c].pc]
      BY <1>3, <2>1 DEF FlagRead
    <3> QED
      BY <1>1, <3>1 DEF Doing
  <2>3. Point(c)' = Point(c)
    BY <2>1, <2>2 DEF Point, Waits
  <2> QED
    BY <1>1, <2>2, <2>3 DEF WorkLeft, AfterBytes, WithBytes
<1> QED
  BY <1>2, <1>3 DEF Polls

LEMMA GoesOn ==
  ASSUME BusInv, NEW c \in Contexts, NEW p, p # "time", Goto(c, p)
  PROVE  Point(c)' = p /\ run'[c].req = run[c].req /\ run'[c].rx = run[c].rx
BY DEF Goto, BusInv, Typed, Doing, Point

LEMMA IsOver ==
  ASSUME BusInv, FlowInv, Sizes, NEW c \in Contexts, NEW st, Return(c, st)
  PROVE  WorkLeft(c)' = 0
<1>1. Point(c)' = "idle"
  BY DEF Return, At, BusInv, Typed, Point
<1> QED
  BY <1>1, WorkAtNext DEF AfterBytes

\* Every other step is one less.
LEMMA StepWork ==
  ASSUME BusInv, FlowInv, Sizes, NEW c \in Contexts, Step(c), ~Polls(c)
  PROVE  WorkLeft(c)' < WorkLeft(c)
<1> USE WorkAt, WorkAtNext
<1>0. Len(rxf) \in Nat /\ Len(rxf) <= Depth /\ Depth \in Nat
  BY PlaceIs
<1>1. CASE Test(c)
  <2>1. Point(c) = "test" /\ run[c].req \in Requests /\ Len(run[c].rx) = 0
    BY <1>1, Running, PlaceIs DEF Test, Point
  <2>2. CASE run[c].req.op = "setup"
    <3>1. WorkLeft(c) = 4
      BY <2>1, <2>2
    <3>2. CASE busy
      BY <1>1, <3>1, <3>2, IsOver DEF Test
    <3>3. CASE ~busy
      <4>1. Point(c)' = "load"
        BY <1>1, <2>2, <3>3, GoesOn DEF Test
      <4> QED
        BY <3>1, <4>1 DEF AfterBytes
    <3> QED
      BY <3>2, <3>3
  <2>3. CASE run[c].req.op = "transfer"
    <3>1. WorkLeft(c) = Ahead(c) + 9 /\ Ahead(c) \in Nat
      <4>1. run[c].req.n \in Nat
        BY <2>1, <2>3, RequestIs
      <4> QED
        BY <1>0, <2>1, <2>3, <4>1 DEF Ahead
    <3>2. CASE busy
      BY <1>1, <3>1, <3>2, IsOver DEF Test
    <3>3. CASE ~busy
      <4>1. Point(c)' = "claim" /\ run'[c].req = run[c].req /\ run'[c].rx = run[c].rx
        BY <1>1, <2>3, <3>3, GoesOn DEF Test
      <4> QED
        BY <2>3, <3>1, <4>1, AheadSame
    <3> QED
      BY <3>2, <3>3
  <2> QED
    BY <2>1, <2>2, <2>3, RequestIs
<1>2. CASE Load(c)
  <2>1. Point(c) = "load" /\ Point(c)' = "off"
    <3>1. run' = [run EXCEPT ![c].cr1 = cr1, ![c].pc = "off"] /\ run[c].pc = "load"
      BY <1>2, Running DEF Load
    <3>2. run'[c] = [run[c] EXCEPT !.cr1 = cr1, !.pc = "off"] /\ run[c] \in Doing
      BY <3>1, Known
    <3>3. run'[c].pc = "off"
      BY <3>2 DEF Doing
    <3> QED
      BY <3>1, <3>3 DEF Point
  <2> QED
    BY <2>1 DEF AfterBytes
<1>3. CASE Off(c)
  <2>1. Point(c) = "off" /\ Point(c)' = "on"
    BY <1>3, Running, GoesOn DEF Off, Point
  <2> QED
    BY <2>1 DEF AfterBytes
<1>4. CASE On(c)
  <2>1. Point(c) = "on"
    BY <1>4, Running DEF On, Point
  <2> QED
    BY <1>4, <2>1, IsOver DEF On, AfterBytes
<1>5. CASE Claim(c)
  <2>1. Point(c) = "claim" /\ Point(c)' = "flush" /\ run'[c].req = run[c].req /\ run'[c].rx = run[c].rx
    BY <1>5, Running, GoesOn DEF Claim, Point
  <2> QED
    BY <2>1, AheadIs, AheadSame
<1>6. CASE FlushByte(c)
  <2>1. Point(c) \in {"flush", "flushFailed"} /\ run' = run /\ rxf # <<>> /\ rxf' = Tail(rxf)
    BY <1>6, Running DEF FlushByte, Point
  <2>2. Point(c) = "flushFailed" /\ Point(c)' = "flushFailed"
    BY <2>1 DEF FlowInv, Line, Empty, Point
  <2>3. Len(rxf') = Len(rxf) - 1
    BY <2>1 DEF BusInv, Typed
  <2> QED
    BY <1>0, <2>2, <2>3 DEF AfterBytes
<1>7. CASE FlushEnd(c)
  <2>1. Where(c) = Point(c) /\ Point(c) \in {"flush", "flushFailed"}
    BY <1>7 DEF FlushEnd, Where, Point
  <2>2. /\ Point(c)' = (IF Point(c) = "flush" THEN "select" ELSE "release")
        /\ run'[c].req = run[c].req /\ run'[c].rx = run[c].rx
    BY <1>7, <2>1, GoesOn DEF FlushEnd
  <2>3. CASE Point(c) = "flush"
    BY <2>2, <2>3, AheadIs, AheadSame
  <2>4. CASE Point(c) = "flushFailed"
    BY <1>0, <2>2, <2>4 DEF AfterBytes
  <2> QED
    BY <2>1, <2>3, <2>4
<1>8. CASE Select(c)
  <2>1. Point(c) = "select" /\ Point(c)' = "TXE" /\ run'[c].req = run[c].req /\ run'[c].rx = run[c].rx
    BY <1>8, Running, GoesOn DEF Select, Point
  <2> QED
    BY <2>1, AheadIs, AheadSame
<1>9. CASE FlagRead(c) /\ Over(Where(c))
  <2>1. Where(c) = Point(c) /\ Point(c) \in Waits
    BY <1>9 DEF FlagRead, Where, Point, Waits
  <2>2. Point(c)' = After[Point(c)] /\ run'[c].req = run[c].req /\ run'[c].rx = run[c].rx
    BY <1>9, <2>1, GoesOn DEF FlagRead, After, Waits
  <2>3. AfterBytes' = AfterBytes
    BY <1>9 DEF FlagRead, hw, AfterBytes
  <2>4. CASE Point(c) \in {"TXE", "RXNE"}
    BY <2>2, <2>4, AheadIs, AheadSame DEF After
  <2>5. CASE Point(c) \in {"FTLVL", "BSY", "BSYfailed"}
    BY <1>0, <2>2, <2>3, <2>5 DEF After, AfterBytes
  <2> QED
    BY <2>1, <2>4, <2>5 DEF Waits
<1>10. CASE Write(c)
  <2>1. Point(c) = "write" /\ Point(c)' = "RXNE" /\ run'[c].req = run[c].req /\ run'[c].rx = run[c].rx
    BY <1>10, Running, GoesOn DEF Write, Point
  <2> QED
    BY <2>1, AheadIs, AheadSame
<1>11. CASE Read(c)
  <2>1. Point(c) = "read" /\ rxf # <<>> /\ Head(rxf) \in Answers
    BY <1>11, Running DEF Read, Point, BusInv, Typed
  <2>2. /\ Point(c)' = "errors" /\ run'[c].req = run[c].req
        /\ run'[c].rx = Append(run[c].rx, Head(rxf))
    <3>1. /\ run'[c] = [run[c] EXCEPT !.rx = Append(run[c].rx, Head(rxf)), !.pc = "errors"]
          /\ run[c] \in Doing
      BY <1>11, Known DEF Read
    <3>2. /\ run'[c].pc = "errors" /\ run'[c].req = run[c].req
          /\ run'[c].rx = Append(run[c].rx, Head(rxf))
      BY <3>1 DEF Doing
    <3> QED
      BY <3>2 DEF Point
  <2>3. Ahead(c)' = Ahead(c) - 5
    <3>1. run[c].rx \in Seq(Answers)
      BY Known DEF Doing
    <3>2. Len(run'[c].rx) = Len(run[c].rx) + 1 /\ Len(run[c].rx) \in Nat
      BY <2>1, <2>2, <3>1
    <3>3. run[c].req.n \in Nat /\ Depth \in Nat /\ run'[c].req.n = run[c].req.n
      <4>1. Point(c) \in DOMAIN WithBytes \ {"test"}
        BY <2>1 DEF WithBytes
      <4> QED
        BY <2>2, <4>1, PlaceIs
    <3> QED
      BY <3>2, <3>3, AheadLess
  <2> QED
    BY <2>1, <2>2, <2>3, AheadIs
<1>12. CASE Errors(c)
  <2>1. Point(c) = "errors" /\ ~ovr
    BY <1>12, Running DEF Errors, Point, FlowInv
  <2>2. /\ Point(c)' = IF Len(run[c].rx) < run[c].req.n THEN "TXE" ELSE "FTLVL"
        /\ run'[c].req = run[c].req /\ run'[c].rx = run[c].rx
    BY <1>12, <2>1, GoesOn DEF Errors
  <2> QED
    BY <1>0, <2>1, <2>2, AheadIs, AheadSame DEF AfterBytes
<1>13. CASE Release(c)
  <2>1. Point(c) = "release" /\ Point(c)' = "free"
    BY <1>13, Running, GoesOn DEF Release, Point
  <2> QED
    BY <2>1 DEF AfterBytes
<1>14. CASE Free(c)
  <2>1. Point(c) = "free"
    BY <1>14, Running DEF Free, Point
  <2> QED
    BY <1>14, <2>1, IsOver DEF Free, AfterBytes
<1> QED
  BY <1>1, <1>2, <1>3, <1>4, <1>5, <1>6, <1>7, <1>8, <1>9, <1>10, <1>11, <1>12, <1>13, <1>14
  DEF Step, SPI_Transfer, Polls

\* The other context has as much to do as before.
LEMMA OtherWork ==
  ASSUME BusInv, FlowInv, Sizes, NEW c \in Contexts, NEW o \in Contexts \ {c}, Step(c)
  PROVE  WorkLeft(o)' = WorkLeft(o)
<1>1. run'[o] = run[o]
  BY DEF Step, SPI_Transfer, Test, Load, Off, On, Claim, FlushByte, FlushEnd, Select, FlagRead,
     TimeRead, Write, Read, Errors, Release, Free, Goto, Return, BusInv, Typed
<1>2. CASE FlushByte(c) \/ Read(c)
  <2>1. run[c].pc \in {"flush", "flushFailed", "read"}
    BY <1>2, Running DEF FlushByte, Read
  <2>2. ~Holds(o)
    BY <2>1, Alone DEF Holds, Holding, Selecting
  <2> QED
    BY <1>1, <2>2, SameWork DEF Holds, Holding, Selecting
<1>3. CASE rxf' = rxf
  BY <1>1, <1>3, SameWork
<1> QED
  BY <1>2, <1>3 DEF Step, SPI_Transfer, Test, Load, Off, On, Claim, FlushEnd, Select, FlagRead,
     TimeRead, Write, Errors, Release, Free, hw

LEMMA ExpireWork ==
  ASSUME BusInv, FlowInv, Sizes, Expire
  PROVE  WorkLeft("main")' < WorkLeft("main") /\ WorkLeft("isr")' = WorkLeft("isr")
<1>0. "main" \in Contexts /\ "isr" \in Contexts /\ run \in [Contexts -> Doing]
  BY Known DEF Contexts
<1>1. run["main"].pc = "time" /\ Point("main") = run["main"].wait /\ Point("main") \in Waits
  BY <1>0, Running DEF Expire, Point, BusInv, Asked
<1>2. /\ run'["main"].pc = Expired[run["main"].wait]
      /\ run'["main"].req = run["main"].req /\ run'["main"].rx = run["main"].rx
      /\ run'["isr"] = run["isr"] /\ rxf' = rxf
  <2>1. rxf' = rxf /\ run' = [run EXCEPT !["main"].pc = Expired[run["main"].wait],
                                        !["main"].wait = "", !["main"].st = "SPI_ERR_HW"]
    BY DEF Expire, hw
  <2>2. /\ run'["main"] = [run["main"] EXCEPT !.pc = Expired[run["main"].wait], !.wait = "",
                                             !.st = "SPI_ERR_HW"]
        /\ run'["isr"] = run["isr"] /\ run["main"] \in Doing
    BY <1>0, <2>1
  <2>3. ASSUME NEW x \in Doing, NEW p
        PROVE  /\ [x EXCEPT !.pc = p, !.wait = "", !.st = "SPI_ERR_HW"].pc = p
               /\ [x EXCEPT !.pc = p, !.wait = "", !.st = "SPI_ERR_HW"].req = x.req
               /\ [x EXCEPT !.pc = p, !.wait = "", !.st = "SPI_ERR_HW"].rx = x.rx
    BY DEF Doing
  <2>4. /\ run'["main"].pc = Expired[run["main"].wait]
        /\ run'["main"].req = run["main"].req /\ run'["main"].rx = run["main"].rx
    BY <2>2, <2>3
  <2> QED
    BY <2>1, <2>2, <2>4
<1>3. Point("main")' = Expired[Point("main")] /\ AfterBytes' = AfterBytes
  BY <1>1, <1>2 DEF Point, Expired, Waits, AfterBytes
<1>4. CASE Point("main") \in {"TXE", "RXNE"}
  <2>1. Point("main")' = "BSYfailed" /\ Depth \in Nat
    BY <1>3, <1>4, SpiAssumption DEF Expired
  <2> QED
    BY <1>0, <1>2, <1>3, <1>4, <2>1, AheadIs, WorkAt, WorkAtNext, SameWork DEF AfterBytes
<1>5. CASE Point("main") \in {"FTLVL", "BSY", "BSYfailed"}
  BY <1>0, <1>2, <1>3, <1>5, PlaceIs, WorkAt, WorkAtNext, SameWork DEF Expired, AfterBytes
<1> QED
  BY <1>1, <1>4, <1>5 DEF Waits

LEMMA PeripheralWork ==
  ASSUME BusInv, FlowInv, Sizes, Peripheral
  PROVE  /\ \A c \in Contexts : WorkLeft(c)' = WorkLeft(c)
         /\ LineLeft' < LineLeft
<1>1. run' = run /\ txf \in Seq(Nat) /\ shift \in BOOLEAN /\ bsy \in BOOLEAN
  BY DEF Peripheral, StartByte, EndByte, EndBusy, FlowInv
<1>2. ASSUME NEW c \in Contexts PROVE WorkLeft(c)' = WorkLeft(c)
  <2>1. run[c].pc = "flushFailed" => ~shift
    BY DEF FlowInv, Line, Point, Quiet
  <2>2. rxf' = rxf \/ run[c].pc # "flushFailed"
    BY <2>1 DEF Peripheral, StartByte, EndByte, EndBusy
  <2> QED
    BY <1>1, <2>2, SameWork
<1>3. CASE StartByte
  <2>1. txf # <<>> /\ txf' = Tail(txf) /\ ~shift /\ shift' /\ bsy'
    BY <1>3 DEF StartByte
  <2>2. Len(txf') = Len(txf) - 1 /\ Len(txf) \in Nat
    BY <1>1, <2>1
  <2> QED
    BY <1>1, <1>2, <2>1, <2>2 DEF LineLeft
<1>4. CASE EndByte
  BY <1>1, <1>2, <1>4 DEF EndByte, LineLeft
<1>5. CASE EndBusy
  BY <1>1, <1>2, <1>5 DEF EndBusy, LineLeft
<1> QED
  BY <1>2, <1>3, <1>4, <1>5 DEF Peripheral

\* A call has 10 + Depth steps for a transfer, five more for each byte, and four
\* for a change of the setting.  Every step of a context but a look at a flag
\* that is not there yet takes one of them, an expired wait too, nothing gives
\* it more, neither the other context nor the peripheral; and the peripheral
\* comes to rest (spi_g0.c:193-385).
THEOREM TransfersAreBounded ==
  Spec => /\ [](LineLeft \in Nat /\ \A c \in Contexts : WorkLeft(c) \in Nat)
          /\ [][/\ \A r \in Requests : /\ Call(r) => WorkLeft("main")' = WorkOf(r)
                                       /\ Interrupt(r) => /\ WorkLeft("isr")' = WorkOf(r)
                                                          /\ UNCHANGED WorkLeft("main")
                /\ \A c \in Contexts : Step(c) =>
                      /\ IF Polls(c) THEN UNCHANGED WorkLeft(c) ELSE WorkLeft(c)' < WorkLeft(c)
                      /\ \A o \in Contexts \ {c} : UNCHANGED WorkLeft(o)
                /\ Expire => WorkLeft("main")' < WorkLeft("main") /\ UNCHANGED WorkLeft("isr")
                /\ Peripheral => /\ \A c \in Contexts : UNCHANGED WorkLeft(c)
                                 /\ LineLeft' < LineLeft]_vars
<1> DEFINE Bounded == 
                /\ \A r \in Requests : /\ Call(r) => WorkLeft("main")' = WorkOf(r)
                                       /\ Interrupt(r) => /\ WorkLeft("isr")' = WorkOf(r)
                                                          /\ UNCHANGED WorkLeft("main")
                /\ \A c \in Contexts : Step(c) =>
                      /\ IF Polls(c) THEN UNCHANGED WorkLeft(c) ELSE WorkLeft(c)' < WorkLeft(c)
                      /\ \A o \in Contexts \ {c} : UNCHANGED WorkLeft(o)
                /\ Expire => WorkLeft("main")' < WorkLeft("main") /\ UNCHANGED WorkLeft("isr")
                /\ Peripheral => /\ \A c \in Contexts : UNCHANGED WorkLeft(c)
                                 /\ LineLeft' < LineLeft
<1>1. Init => Sizes
  BY SpiAssumption DEF Init, Sizes
<1>2. BusInv /\ FlowInv /\ Sizes =>
          LineLeft \in Nat /\ \A c \in Contexts : WorkLeft(c) \in Nat
  <2> SUFFICES ASSUME BusInv, FlowInv, Sizes PROVE LineLeft \in Nat /\ \A c \in Contexts : WorkLeft(c) \in Nat
    OBVIOUS
  <2>1. LineLeft \in Nat
    BY DEF LineLeft, FlowInv
  <2> QED
    BY <2>1, WorkIsNat
<1>3. BusInv /\ FlowInv /\ Sizes => Bounded
  <2> SUFFICES ASSUME BusInv, FlowInv, Sizes PROVE Bounded
    OBVIOUS
  <2>1. "main" \in Contexts /\ "isr" \in Contexts /\ run \in [Contexts -> Doing]
    BY Known DEF Contexts
  <2>2. ASSUME NEW r \in Requests, Call(r) PROVE WorkLeft("main")' = WorkOf(r)
    BY <2>1, <2>2, NewWork DEF Call
  <2>3. ASSUME NEW r \in Requests, Interrupt(r)
        PROVE  WorkLeft("isr")' = WorkOf(r) /\ UNCHANGED WorkLeft("main")
    <3>1. run'["main"] = run["main"] /\ rxf' = rxf
      BY <2>1, <2>3 DEF Interrupt, hw
    <3> QED
      BY <2>1, <2>3, <3>1, NewWork, SameWork DEF Interrupt
  <2> QED
    BY <2>2, <2>3, PollWork, StepWork, OtherWork, ExpireWork, PeripheralWork
<1> HIDE DEF Bounded
<1>4. Spec => [](BusInv /\ FlowInv /\ Sizes)
  BY <1>1, NextSizes, Flows, PTL DEF Spec
<1>5. Spec => [][Bounded]_vars
  BY <1>3, <1>4, PTL
<1> QED
  BY <1>2, <1>4, <1>5, PTL DEF Bounded
=============================================================================
