---------------------------- MODULE FloppyProofs ----------------------------
(***************************************************************************)
(* Proofs about Floppy, for any numbers of retries.                        *)
(***************************************************************************)
EXTENDS Floppy, TLAPS

\* Nothing is left of a reset or a command.
Clean == unsensed = 0 /\ ~line /\ ~irr

\* A call that is not the scheduler's: what the driver, at each of its places,
\* may take for granted of the controller, the flag and the request.
InStep ==
  /\ pc = <<"none", "user">> \/ pc = <<"reset", "start">> => phase \in {"reset", "ready"} /\ Clean
  /\ pc = <<"reset", "low">> => phase \in {"reset", "ready"} /\ Clean /\ g_floppy_pending
  /\ pc = <<"reset", "high">> => phase = "reset" /\ Clean /\ g_floppy_pending
  /\ pc = <<"reset", "check">> =>
       \/ phase = "resetting" /\ Clean /\ g_floppy_pending
       \/ phase = "ready" /\ unsensed = 4 /\ (irr => g_floppy_pending)
  /\ pc = <<"reset", "sense">> =>
       phase = "ready" /\ senses \in 1..4 /\ unsensed = senses /\ ~irr
  /\ pc \in {<<"motor", "on">>, <<"dma", "start">>} => phase = "ready" /\ Clean
  /\ \A c \in Commands :
       /\ pc = <<c, "start">> => phase = "ready" /\ Clean
       /\ pc = <<c, "send">> => phase = "ready" /\ Clean /\ g_floppy_pending
       /\ pc = <<c, "sense">> => phase = "ready" /\ unsensed = 1 /\ ~irr
  /\ \A c \in Moves : pc = <<c, "wait">> =>
       \/ phase = "moving" /\ Clean /\ g_floppy_pending
       \/ phase = "ready" /\ unsensed = 1 /\ (irr => g_floppy_pending)
  /\ pc \in {<<"read", "report">>, <<"read", "wait">>} =>
       phase = "short" /\ Clean /\ g_floppy_pending

\* A call by the scheduler: it does not get further than the check of its reset.
TurnedBack ==
  /\ pc[1] \in {"none", "reset"} /\ pc # <<"reset", "sense">>
  /\ phase \in {"reset", "resetting", "ready"}
  /\ pc \in {<<"reset", "low">>, <<"reset", "high">>, <<"reset", "check">>} => g_floppy_pending

ByScheduler == (InCall /\ recalled) \/ pc = <<"none", "blocked">>

SetUp ==
  /\ 2 \notin dma.masked /\ dma.page = 2 /\ dma.address["low"] = 0
  /\ dma.count = [low |-> 9 \div 256, high |-> 9 % 256]

\* The rounds of the loops, and what is done before the first.
Rounds ==
  /\ pc[1] = "seek" => seeks < FLOPPY_RETRIES_SEEK
  /\ pc[1] \in {"reset", "motor", "dma"} => reads = 0
  /\ pc[1] \in {"seek", "read"} => reads > 0
  /\ pc[1] \in Commands /\ reads > 0 => SetUp

\* Type correctness, in three parts.
DriverTyped ==
  /\ pc \in (Commands \cup {"none", "reset", "motor", "dma"}) \X Places
  /\ recalled \in BOOLEAN /\ disabled \in BOOLEAN
  /\ senses \in 0..4
  /\ seeks \in 0..FLOPPY_RETRIES_SEEK /\ reads \in 0..FLOPPY_RETRIES_READ

ControllerTyped ==
  /\ phase \in {"ready", "reset", "resetting", "moving", "short"}
  /\ unsensed \in 0..4
  /\ arrived \in BOOLEAN /\ line \in BOOLEAN /\ gate \in BOOLEAN /\ at_mode \in BOOLEAN

RestTyped == g_floppy_pending \in BOOLEAN /\ irr \in BOOLEAN /\ dma \in Controllers

\* The places there are, and the only one behind something printed.
Reached ==
  /\ \/ pc \in {<<"none", "user">>, <<"none", "blocked">>, <<"motor", "on">>, <<"dma", "start">>}
     \/ pc[1] = "reset" /\ pc[2] \in {"start", "low", "high", "check", "sense"}
     \/ pc[1] \in Moves /\ pc[2] \in {"start", "send", "wait", "sense"}
     \/ pc[1] = "read" /\ pc[2] \in {"start", "send", "report", "wait"}
  /\ disabled => pc = <<"read", "wait">>

IInv ==
  /\ DriverTyped /\ ControllerTyped /\ RestTyped
  /\ Reached /\ Rounds
  /\ ByScheduler => TurnedBack
  /\ ~ByScheduler => InStep

USE RetriesAssumption

LEMMA DmaStartSets ==
  ASSUME NEW d \in Controllers
  PROVE  LET done == DmaStart(d, 2, 9)
         IN  /\ done \in Controllers
             /\ 2 \notin done.masked /\ done.page = 2 /\ done.address["low"] = 0
             /\ done.count = [low |-> 9 \div 256, high |-> 9 % 256]
<1> DEFINE Pair == [{"low", "high"} -> Byte]
           masked == [d EXCEPT !.masked = d.masked \cup {2}]
           cleared == [masked EXCEPT !.high = FALSE]
           half == [cleared EXCEPT !.address = [cleared.address EXCEPT !["low"] = 0], !.high = TRUE]
           addressed == [half EXCEPT !.page = 2]
           low == [addressed EXCEPT !.count = [addressed.count EXCEPT !["high"] = 9], !.high = FALSE]
           high == [low EXCEPT !.count = [low.count EXCEPT !["low"] = 0], !.high = TRUE]
<1>1. \A x \in Pair : [x EXCEPT !["low"] = 0] \in Pair /\ [x EXCEPT !["high"] = 9] \in Pair
  <2>1. 0 \in Byte /\ 9 \in Byte
    BY DEF Byte
  <2> QED
    BY <2>1
<1>2. masked \in Controllers /\ WriteMask(d, 6) = masked
  <2>1. 6 \div 4 = 1 /\ 1 % 2 = 1 /\ 6 % 4 = 2
    OBVIOUS
  <2> QED
    BY <2>1 DEF Controllers, WriteMask
<1> HIDE DEF masked
<1>3. cleared \in Controllers /\ ~cleared.high /\ ClearFlipFlop(masked) = cleared
  BY <1>2 DEF Controllers, ClearFlipFlop
<1> HIDE DEF cleared
<1>4. half \in Controllers /\ half.high = TRUE /\ WriteHalf(cleared, "address", 0) = half
      /\ half.address["low"] = 0
  BY <1>1, <1>3 DEF Controllers, WriteHalf
<1> HIDE DEF half
<1>5. addressed \in Controllers /\ addressed.high = TRUE /\ addressed.page = 2
      /\ addressed.address["low"] = 0
  BY <1>4 DEF Controllers, Byte
<1> HIDE DEF addressed
<1>6. low \in Controllers /\ ~low.high /\ WriteHalf(addressed, "count", 9) = low
      /\ low.page = 2 /\ low.address["low"] = 0 /\ low.count["high"] = 9
  BY <1>1, <1>5 DEF Controllers, WriteHalf
<1> HIDE DEF low
<1>7. high \in Controllers /\ WriteHalf(low, "count", 0) = high
      /\ high.page = 2 /\ high.address["low"] = 0
      /\ high.count["low"] = 0 /\ high.count["high"] = 9 /\ high.count \in Pair
  BY <1>1, <1>6 DEF Controllers, WriteHalf
<1> HIDE DEF high
<1>8. high.count = [low |-> 0, high |-> 9]
  BY <1>7
<1>9. WriteMask(high, 2) = [high EXCEPT !.masked = high.masked \ {2}]
  <2>1. 2 \div 4 = 0 /\ 0 % 2 = 0 /\ 2 % 4 = 2
    OBVIOUS
  <2> QED
    BY <1>7, <2>1 DEF WriteMask, Controllers
<1>10. DmaStart(d, 2, 9) = WriteMask(high, 2)
  <2>1. 2 + 4 = 6 /\ 9 % 256 = 9 /\ 9 \div 256 = 0 /\ 0 % 256 = 0
    OBVIOUS
  <2> QED
    BY <1>2, <1>3, <1>4, <1>6, <1>7, <2>1 DEF DmaStart, addressed
<1>11. 9 \div 256 = 0 /\ 9 % 256 = 9
  OBVIOUS
<1> QED
  BY <1>7, <1>8, <1>9, <1>10, <1>11 DEF Controllers

LEMMA InitIInv == Init => IInv
<1> SUFFICES ASSUME Init PROVE IInv
  OBVIOUS
<1>1. pc = <<"none", "user">> /\ pc[1] = "none" /\ pc[2] = "user"
  BY DEF Init
<1>2. pc \in (Commands \cup {"none", "reset", "motor", "dma"}) \X Places
  BY <1>1 DEF Places
<1>3. DriverTyped /\ ControllerTyped
  <2>1. /\ senses \in 0..4 /\ unsensed \in 0..4
        /\ seeks \in 0..FLOPPY_RETRIES_SEEK /\ reads \in 0..FLOPPY_RETRIES_READ
    BY DEF Init
  <2>2. /\ phase \in {"ready", "reset", "resetting", "moving", "short"}
        /\ recalled \in BOOLEAN /\ disabled \in BOOLEAN
        /\ arrived \in BOOLEAN /\ line \in BOOLEAN /\ gate \in BOOLEAN /\ at_mode \in BOOLEAN
    BY DEF Init
  <2> QED
    BY <1>2, <2>1, <2>2 DEF DriverTyped, ControllerTyped
<1>4. RestTyped
  <2>1. dma \in Controllers
    BY DEF Init, BiosDma, Controllers, Byte
  <2> QED
    BY <2>1 DEF Init, RestTyped
<1>5. Rounds /\ Reached /\ ~ByScheduler /\ InStep
  BY <1>1 DEF Init, Rounds, Reached, ByScheduler, InCall, InStep, Clean, Commands, Moves
<1> QED
  BY <1>3, <1>4, <1>5 DEF IInv

LEMMA CallIInv == ASSUME IInv, Call PROVE IInv'
<1>1. /\ pc \in {<<"none", "user">>, <<"none", "blocked">>} /\ pc[1] = "none"
      /\ pc' = <<"reset", "start">> /\ pc'[1] = "reset" /\ pc'[2] = "start"
  BY DEF Call, InCall, IInv, Reached, Moves
<1>2. /\ reads' = 0 /\ disabled' = FALSE
      /\ UNCHANGED <<senses, seeks, g_floppy_pending, controller, irr, dma>>
  BY DEF Call
<1>3. /\ pc = <<"none", "user">> => recalled' = FALSE
      /\ pc = <<"none", "blocked">> => recalled' = TRUE
  <2>1. /\ pc = <<"none", "user">> => pc[2] # "blocked"
        /\ pc = <<"none", "blocked">> => pc[2] = "blocked"
    OBVIOUS
  <2>2. recalled' = (pc[2] = "blocked")
    BY DEF Call
  <2> QED
    BY <2>1, <2>2
<1>4. DriverTyped' /\ ControllerTyped' /\ RestTyped'
  <2>1. pc' \in (Commands \cup {"none", "reset", "motor", "dma"}) \X Places
    BY <1>1 DEF Places
  <2>2. recalled' \in BOOLEAN /\ disabled' \in BOOLEAN
    BY <1>1, <1>2, <1>3
  <2> QED
    BY <1>2, <2>1, <2>2 DEF IInv, DriverTyped, ControllerTyped, RestTyped, controller
<1>5. Reached' /\ Rounds'
  BY <1>1, <1>2 DEF Reached, Rounds, Commands, Moves
<1>6. ByScheduler' => TurnedBack'
  <2>1. ByScheduler' => pc = <<"none", "blocked">>
    BY <1>1, <1>3 DEF ByScheduler
  <2>2. pc = <<"none", "blocked">> => TurnedBack
    BY DEF IInv, ByScheduler
  <2> QED
    BY <1>1, <1>2, <2>1, <2>2 DEF TurnedBack, controller
<1>7. ~ByScheduler' => InStep'
  <2>1. ~ByScheduler' => pc = <<"none", "user">>
    BY <1>1, <1>3 DEF ByScheduler, InCall
  <2>2. pc = <<"none", "user">> => phase \in {"reset", "ready"} /\ Clean
    BY DEF IInv, ByScheduler, InCall, InStep
  <2> QED
    BY <1>1, <1>2, <2>1, <2>2 DEF InStep, Clean, Commands, Moves, controller
<1> QED
  BY <1>4, <1>5, <1>6, <1>7 DEF IInv

LEMMA SetPendingIInv ==
  ASSUME IInv, NEW x \in Commands \cup {"reset"}, SetPending(x), UNCHANGED dma
  PROVE  IInv'
<1> DEFINE next == IF x = "reset" THEN "low" ELSE "send"
<1>1. /\ pc = <<x, "start">> /\ pc[1] = x /\ pc' = <<x, next>> /\ pc'[1] = x /\ pc'[2] = next
      /\ g_floppy_pending' = TRUE
      /\ UNCHANGED <<recalled, disabled, senses, seeks, reads, controller, irr, dma>>
  BY DEF SetPending, flags
<1>2. DriverTyped' /\ ControllerTyped' /\ RestTyped'
  <2>1. pc' \in (Commands \cup {"none", "reset", "motor", "dma"}) \X Places
    BY <1>1 DEF Places
  <2> QED
    BY <1>1, <2>1 DEF IInv, DriverTyped, ControllerTyped, RestTyped, controller
<1>3. Reached' /\ Rounds'
  BY <1>1 DEF IInv, Reached, Rounds, SetUp, Commands, Moves
<1>4. InCall /\ (ByScheduler' <=> ByScheduler)
  BY <1>1 DEF InCall, ByScheduler, Commands, Moves
<1>5. ByScheduler' => TurnedBack'
  BY <1>1, <1>4 DEF IInv, TurnedBack, Commands, Moves, controller
<1>6. ~ByScheduler' => InStep'
  BY <1>1, <1>4 DEF IInv, InStep, Clean, Commands, Moves, controller
<1> QED
  BY <1>2, <1>3, <1>5, <1>6 DEF IInv

LEMMA ResetLowIInv == ASSUME IInv, ResetLow, UNCHANGED dma PROVE IInv'
<1>1. /\ pc = <<"reset", "low">> /\ pc[1] = "reset"
      /\ pc' = <<"reset", "high">> /\ pc'[1] = "reset" /\ pc'[2] = "high"
      /\ phase' = "reset" /\ unsensed' = 0 /\ line' = FALSE /\ gate' = FALSE
      /\ UNCHANGED <<recalled, disabled, senses, seeks, reads, g_floppy_pending, arrived,
                     at_mode, irr, dma>>
  BY DEF ResetLow, flags
<1>2. DriverTyped' /\ ControllerTyped' /\ RestTyped'
  <2>1. pc' \in (Commands \cup {"none", "reset", "motor", "dma"}) \X Places
    BY <1>1 DEF Places
  <2>2. DriverTyped' /\ RestTyped'
    BY <1>1, <2>1 DEF IInv, DriverTyped, RestTyped
  <2>3. line' \in BOOLEAN /\ gate' \in BOOLEAN
    BY <1>1, Zenon
  <2>4. unsensed' \in 0..4
    BY <1>1
  <2> QED
    BY <1>1, <2>2, <2>3, <2>4 DEF IInv, ControllerTyped
<1>3. Reached' /\ Rounds'
  BY <1>1 DEF IInv, Reached, Rounds, Commands, Moves
<1>4. ByScheduler' <=> ByScheduler
  BY <1>1 DEF InCall, ByScheduler
<1>5. ByScheduler' => TurnedBack'
  BY <1>1, <1>4 DEF IInv, TurnedBack
<1>6. ~ByScheduler' => InStep'
  BY <1>1, <1>4 DEF IInv, InStep, Clean, Commands, Moves
<1> QED
  BY <1>2, <1>3, <1>5, <1>6 DEF IInv

LEMMA ResetHighIInv == ASSUME IInv, ResetHigh, UNCHANGED dma PROVE IInv'
<1>1. /\ pc = <<"reset", "high">> /\ pc[1] = "reset"
      /\ pc' = <<"reset", "check">> /\ pc'[1] = "reset" /\ pc'[2] = "check"
      /\ phase' = "resetting" /\ gate' = TRUE
      /\ UNCHANGED <<recalled, disabled, senses, seeks, reads, g_floppy_pending, unsensed,
                     arrived, line,
                     at_mode, irr, dma>>
  BY DEF ResetHigh, flags
<1>2. DriverTyped' /\ ControllerTyped' /\ RestTyped'
  <2>1. pc' \in (Commands \cup {"none", "reset", "motor", "dma"}) \X Places
    BY <1>1 DEF Places
  <2> QED
    BY <1>1, <2>1 DEF IInv, DriverTyped, ControllerTyped, RestTyped
<1>3. Reached' /\ Rounds'
  BY <1>1 DEF IInv, Reached, Rounds, Commands, Moves
<1>4. ByScheduler' <=> ByScheduler
  BY <1>1 DEF InCall, ByScheduler
<1>5. ByScheduler' => TurnedBack'
  BY <1>1, <1>4 DEF IInv, TurnedBack
<1>6. ~ByScheduler' => InStep'
  BY <1>1, <1>4 DEF IInv, InStep, Clean, Commands, Moves
<1> QED
  BY <1>2, <1>3, <1>5, <1>6 DEF IInv

\* The check is where a call by the scheduler ends: its flag is still up.
LEMMA ResetCheckIInv == ASSUME IInv, ResetCheck, UNCHANGED dma PROVE IInv'
<1>1. /\ pc = <<"reset", "check">> /\ pc[1] = "reset" /\ senses' = 4
      /\ pc' = IF g_floppy_pending THEN <<"none", "blocked">> ELSE <<"reset", "sense">>
      /\ UNCHANGED <<recalled, disabled, seeks, reads, g_floppy_pending, controller, irr, dma>>
  BY DEF ResetCheck, flags
<1>2. ControllerTyped' /\ RestTyped'
  BY <1>1 DEF IInv, ControllerTyped, RestTyped, controller
<1>3. CASE g_floppy_pending
  <2>1. pc' = <<"none", "blocked">> /\ pc'[1] = "none" /\ ByScheduler'
    BY <1>1, <1>3 DEF ByScheduler
  <2>2. DriverTyped'
    <3>1. pc' \in (Commands \cup {"none", "reset", "motor", "dma"}) \X Places
      BY <2>1 DEF Places
    <3> QED
      BY <1>1, <3>1 DEF IInv, DriverTyped
  <2>3. Reached' /\ Rounds'
    BY <1>1, <2>1 DEF IInv, Reached, Rounds, Commands, Moves
  <2>4. phase \in {"reset", "resetting", "ready"}
    BY <1>1 DEF IInv, TurnedBack, InStep
  <2>5. TurnedBack'
    BY <1>1, <2>1, <2>4 DEF TurnedBack, controller
  <2> QED
    BY <1>2, <2>1, <2>2, <2>3, <2>5 DEF IInv
<1>4. CASE ~g_floppy_pending
  <2>1. pc' = <<"reset", "sense">> /\ pc'[1] = "reset" /\ pc'[2] = "sense"
    BY <1>1, <1>4
  <2>2. DriverTyped'
    <3>1. pc' \in (Commands \cup {"none", "reset", "motor", "dma"}) \X Places
      BY <2>1 DEF Places
    <3> QED
      BY <1>1, <3>1 DEF IInv, DriverTyped
  <2>3. Reached' /\ Rounds'
    BY <1>1, <2>1 DEF IInv, Reached, Rounds, Commands, Moves
  <2>4. ~ByScheduler
    BY <1>1, <1>4 DEF IInv, TurnedBack
  <2>5. ~ByScheduler'
    BY <1>1, <2>1, <2>4 DEF ByScheduler, InCall
  <2>6. phase = "ready" /\ unsensed = 4 /\ ~irr
    BY <1>1, <1>4, <2>4 DEF IInv, InStep
  <2>7. InStep'
    BY <1>1, <2>1, <2>6 DEF InStep, Commands, Moves, controller
  <2> QED
    BY <1>2, <2>2, <2>3, <2>5, <2>7 DEF IInv
<1> QED
  BY <1>3, <1>4

\* Beyond its reset a call is not the scheduler's.
LEMMA BeyondReset ==
  ASSUME IInv, pc[1] \in Commands \cup {"motor", "dma"} \/ pc = <<"reset", "sense">>
  PROVE  /\ ~ByScheduler /\ InStep /\ InCall /\ recalled = FALSE
         /\ UNCHANGED recalled => ~ByScheduler' \/ pc' = <<"none", "blocked">>
<1>1. InCall
  BY DEF InCall, Commands, Moves
<1>2. ~ByScheduler
  BY DEF IInv, TurnedBack, Commands, Moves
<1> QED
  BY <1>1, <1>2 DEF IInv, DriverTyped, ByScheduler

LEMMA ResetSenseIInv == ASSUME IInv, ResetSense, UNCHANGED dma PROVE IInv'
<1>1. /\ pc = <<"reset", "sense">> /\ pc[1] = "reset" /\ senses' = senses - 1
      /\ UNCHANGED <<recalled, disabled, seeks, reads, g_floppy_pending, phase, arrived, gate,
                     at_mode, irr, dma>>
  BY DEF ResetSense, flags
<1>2. phase = "ready" /\ senses \in 1..4 /\ unsensed = senses /\ ~irr
  BY <1>1, BeyondReset DEF InStep
<1>3. Sensed
  BY <1>2 DEF Sensed, Ready
<1>4. unsensed' = unsensed - 1 /\ line' = FALSE
      /\ pc' = IF senses = 1 THEN <<"motor", "on">> ELSE pc
  BY <1>3 DEF ResetSense, TakeStatus
<1>5. \/ senses = 1 /\ pc' = <<"motor", "on">> /\ pc'[1] = "motor" /\ pc'[2] = "on"
      \/ senses \in 2..4 /\ pc' = <<"reset", "sense">> /\ pc'[1] = "reset" /\ pc'[2] = "sense"
  BY <1>1, <1>2, <1>4
<1>6. DriverTyped' /\ ControllerTyped' /\ RestTyped'
  <2>1. pc' \in (Commands \cup {"none", "reset", "motor", "dma"}) \X Places
    BY <1>5 DEF Places
  <2>2. senses' \in 0..4 /\ unsensed' \in 0..4
    BY <1>1, <1>2, <1>4
  <2> QED
    BY <1>1, <1>4, <2>1, <2>2 DEF IInv, DriverTyped, ControllerTyped, RestTyped
<1>7. Reached' /\ Rounds'
  BY <1>1, <1>5 DEF IInv, Reached, Rounds, Commands, Moves
<1>8. ~ByScheduler'
  BY <1>1, <1>5, BeyondReset
<1>9. InStep'
  <2>1. phase' = "ready" /\ ~irr' /\ ~line' /\ unsensed' = senses' /\ senses' = senses - 1
    BY <1>1, <1>2, <1>4
  <2> QED
    BY <1>5, <2>1 DEF InStep, Clean, Commands, Moves
<1> QED
  BY <1>6, <1>7, <1>8, <1>9 DEF IInv

LEMMA MotorOnIInv == ASSUME IInv, MotorOn, UNCHANGED dma PROVE IInv'
<1>1. /\ pc = <<"motor", "on">> /\ pc[1] = "motor"
      /\ pc' = <<"recalibrate", "start">> /\ pc'[1] = "recalibrate" /\ pc'[2] = "start"
      /\ gate' = FALSE
      /\ UNCHANGED <<recalled, disabled, senses, seeks, reads, g_floppy_pending, phase,
                     unsensed, arrived,
                     line, at_mode, irr, dma>>
  BY DEF MotorOn, flags
<1>2. DriverTyped' /\ ControllerTyped' /\ RestTyped'
  <2>1. pc' \in (Commands \cup {"none", "reset", "motor", "dma"}) \X Places
    BY <1>1 DEF Places, Commands, Moves
  <2> QED
    BY <1>1, <2>1 DEF IInv, DriverTyped, ControllerTyped, RestTyped
<1>3. Reached' /\ Rounds'
  BY <1>1 DEF IInv, DriverTyped, Reached, Rounds, Commands, Moves
<1>4. ~ByScheduler' /\ InStep
  BY <1>1, BeyondReset
<1>5. InStep'
  BY <1>1, <1>4 DEF InStep, Clean, Commands, Moves
<1> QED
  BY <1>2, <1>3, <1>4, <1>5 DEF IInv

LEMMA DmaSetUpIInv == ASSUME IInv, DmaSetUp PROVE IInv'
<1>1. /\ pc = <<"dma", "start">> /\ pc[1] = "dma"
      /\ pc' = <<"seek", "start">> /\ pc'[1] = "seek" /\ pc'[2] = "start"
      /\ reads' = 1 /\ seeks' = 0
      /\ UNCHANGED <<recalled, disabled, senses, g_floppy_pending, controller, irr>>
  BY DEF DmaSetUp, flags
<1>2. dma' \in Controllers /\ SetUp'
  BY DmaStartSets DEF DmaSetUp, SetUp, IInv, RestTyped
<1>3. DriverTyped' /\ ControllerTyped' /\ RestTyped'
  <2>1. pc' \in (Commands \cup {"none", "reset", "motor", "dma"}) \X Places
    BY <1>1 DEF Places, Commands, Moves
  <2> QED
    BY <1>1, <1>2, <2>1 DEF IInv, DriverTyped, ControllerTyped, RestTyped, controller
<1>4. Reached' /\ Rounds'
  BY <1>1, <1>2 DEF IInv, Reached, Rounds, Commands, Moves
<1>5. ~ByScheduler' /\ InStep
  BY <1>1, BeyondReset
<1>6. InStep'
  BY <1>1, <1>5 DEF InStep, Clean, Commands, Moves, controller
<1> QED
  BY <1>3, <1>4, <1>5, <1>6 DEF IInv

LEMMA SendIInv == ASSUME IInv, NEW x \in Commands, Send(x), UNCHANGED dma PROVE IInv'
<1>1. /\ pc = <<x, "send">> /\ pc[1] = x
      /\ UNCHANGED <<recalled, disabled, senses, g_floppy_pending, unsensed, arrived, line,
                     gate, at_mode,
                     irr, dma>>
  BY DEF Send, flags
<1>2. phase = "ready" /\ Clean /\ g_floppy_pending
  BY <1>1, BeyondReset DEF InStep
<1>3. /\ pc'[1] = x /\ UNCHANGED <<seeks, reads>>
      /\ pc' = <<x, IF x = "read" THEN "report" ELSE "wait">>
      /\ pc'[2] = IF x = "read" THEN "report" ELSE "wait"
      /\ phase' = IF Sent[x] = Length[x] THEN "moving" ELSE "short"
  BY <1>2 DEF Send, Ready
<1>4. /\ x \in Moves => phase' = "moving"
      /\ x = "read" => phase' = "short"
  BY <1>3 DEF Sent, Length, Moves
<1>5. DriverTyped' /\ ControllerTyped' /\ RestTyped'
  <2>1. pc' \in (Commands \cup {"none", "reset", "motor", "dma"}) \X Places
    BY <1>3 DEF Places
  <2> QED
    BY <1>1, <1>3, <2>1 DEF IInv, DriverTyped, ControllerTyped, RestTyped
<1>6. Reached' /\ Rounds'
  BY <1>1, <1>3 DEF IInv, Reached, Rounds, SetUp, Commands, Moves
<1>7. ~ByScheduler'
  BY <1>1, <1>3, BeyondReset
<1>8. InStep'
  BY <1>1, <1>2, <1>3, <1>4 DEF InStep, Clean, Commands, Moves
<1> QED
  BY <1>5, <1>6, <1>7, <1>8 DEF IInv

LEMMA ReportIInv == ASSUME IInv, Report, UNCHANGED dma PROVE IInv'
<1>1. /\ pc = <<"read", "report">> /\ pc[1] = "read"
      /\ pc' = <<"read", "wait">> /\ pc'[1] = "read" /\ pc'[2] = "wait"
      /\ UNCHANGED <<recalled, senses, seeks, reads, g_floppy_pending, controller, irr, dma>>
  BY DEF Report
<1>2. disabled' \in BOOLEAN
  BY Zenon DEF Report
<1>3. DriverTyped' /\ ControllerTyped' /\ RestTyped'
  <2>1. pc' \in (Commands \cup {"none", "reset", "motor", "dma"}) \X Places
    BY <1>1 DEF Places, Commands, Moves
  <2> QED
    BY <1>1, <1>2, <2>1 DEF IInv, DriverTyped, ControllerTyped, RestTyped, controller
<1>4. Reached' /\ Rounds'
  BY <1>1 DEF IInv, Reached, Rounds, SetUp, Commands, Moves
<1>5. ~ByScheduler' /\ InStep
  BY <1>1, BeyondReset DEF Commands
<1>6. InStep'
  BY <1>1, <1>5 DEF InStep, Clean, Commands, Moves, controller
<1> QED
  BY <1>3, <1>4, <1>5, <1>6 DEF IInv

LEMMA WaitEndsIInv == ASSUME IInv, NEW x \in Moves, WaitEnds(x), UNCHANGED dma PROVE IInv'
<1>1. /\ pc = <<x, "wait">> /\ pc[1] = x /\ ~g_floppy_pending /\ x \in Commands
      /\ pc' = <<x, "sense">> /\ pc'[1] = x /\ pc'[2] = "sense"
      /\ UNCHANGED <<recalled, disabled, senses, seeks, reads, g_floppy_pending, controller,
                     irr, dma>>
  BY DEF WaitEnds, Commands, flags
<1>2. phase = "ready" /\ unsensed = 1 /\ ~irr
  BY <1>1, BeyondReset DEF InStep
<1>3. DriverTyped' /\ ControllerTyped' /\ RestTyped'
  <2>1. pc' \in (Commands \cup {"none", "reset", "motor", "dma"}) \X Places
    BY <1>1 DEF Places
  <2> QED
    BY <1>1, <2>1 DEF IInv, DriverTyped, ControllerTyped, RestTyped, controller
<1>4. Reached' /\ Rounds'
  BY <1>1 DEF IInv, Reached, Rounds, SetUp, Commands, Moves
<1>5. ~ByScheduler'
  BY <1>1, BeyondReset
<1>6. InStep'
  BY <1>1, <1>2 DEF InStep, Commands, Moves, controller
<1> QED
  BY <1>3, <1>4, <1>5, <1>6 DEF IInv

\* After the interrupt of a movement there is its status, and nothing behind it.
LEMMA SenseTakes ==
  ASSUME IInv, NEW x \in Moves, pc = <<x, "sense">>, TakeStatus, UNCHANGED <<phase, irr>>
  PROVE  Sensed /\ phase' = "ready" /\ Clean' /\ unsensed' \in 0..4 /\ line' \in BOOLEAN
<1>1. phase = "ready" /\ unsensed = 1 /\ ~irr
  BY BeyondReset DEF InStep, Commands
<1>2. Sensed
  BY <1>1 DEF Sensed, Ready
<1>3. unsensed' = 0 /\ line' = FALSE
  <2>1. unsensed' = unsensed - 1 /\ line' = (line /\ ~Sensed)
    BY <1>2 DEF TakeStatus
  <2>2. line' = FALSE
    BY <1>2, <2>1, Zenon
  <2> QED
    BY <1>1, <2>1, <2>2
<1>4. line' \in BOOLEAN
  BY <1>3, Zenon
<1> QED
  BY <1>1, <1>2, <1>3, <1>4 DEF Clean

LEMMA RecalibrateSenseIInv == ASSUME IInv, RecalibrateSense, UNCHANGED dma PROVE IInv'
<1>1. /\ pc = <<"recalibrate", "sense">> /\ pc[1] = "recalibrate" /\ "recalibrate" \in Moves
      /\ UNCHANGED <<recalled, disabled, senses, g_floppy_pending, phase, arrived, gate,
                     at_mode, irr, dma>>
  BY DEF RecalibrateSense, Moves, flags
<1>2. Sensed /\ phase' = "ready" /\ Clean' /\ unsensed' \in 0..4 /\ line' \in BOOLEAN
  BY <1>1, SenseTakes DEF RecalibrateSense
<1>3. \/ pc' = <<"dma", "start">> /\ reads = 0 /\ UNCHANGED <<reads, seeks>>
      \/ pc' = <<"seek", "start">> /\ reads \in 1..FLOPPY_RETRIES_READ - 1 /\ reads' = reads + 1 /\ seeks' = 0
      \/ pc' = <<"none", "user">> /\ UNCHANGED <<reads, seeks>>
  BY <1>2 DEF RecalibrateSense, NextRead, IInv, DriverTyped
<1>4. DriverTyped' /\ ControllerTyped' /\ RestTyped'
  <2>1. pc' \in (Commands \cup {"none", "reset", "motor", "dma"}) \X Places
    BY <1>3 DEF Places, Commands, Moves
  <2>2. reads' \in 0..FLOPPY_RETRIES_READ /\ seeks' \in 0..FLOPPY_RETRIES_SEEK
    BY <1>3 DEF IInv, DriverTyped
  <2> QED
    BY <1>1, <1>2, <2>1, <2>2 DEF IInv, DriverTyped, ControllerTyped, RestTyped
<1>5. Reached' /\ Rounds'
  <2>1. reads > 0 => SetUp
    BY <1>1 DEF IInv, Rounds, Commands
  <2>2. SetUp' <=> SetUp
    BY <1>1 DEF SetUp
  <2> QED
    BY <1>1, <1>3, <2>1, <2>2 DEF IInv, DriverTyped, Reached, Rounds, Commands, Moves
<1>6. ~ByScheduler'
  BY <1>1, <1>3, BeyondReset DEF Commands
<1>7. InStep'
  BY <1>2, <1>3 DEF InStep, Commands, Moves
<1> QED
  BY <1>4, <1>5, <1>6, <1>7 DEF IInv

LEMMA SeekSenseIInv == ASSUME IInv, SeekSense, UNCHANGED dma PROVE IInv'
<1>1. /\ pc = <<"seek", "sense">> /\ pc[1] = "seek" /\ "seek" \in Moves
      /\ UNCHANGED <<recalled, disabled, senses, g_floppy_pending, phase, arrived, gate,
                     at_mode, irr, dma>>
  BY DEF SeekSense, Moves, flags
<1>2. Sensed /\ phase' = "ready" /\ Clean' /\ unsensed' \in 0..4 /\ line' \in BOOLEAN
  BY <1>1, SenseTakes DEF SeekSense
<1>3. /\ seeks' = seeks + 1 /\ reads' = reads
      /\ pc' \in {<<"read", "start">>, <<"recalibrate", "start">>, <<"seek", "start">>}
      /\ pc' = <<"seek", "start">> => seeks' # FLOPPY_RETRIES_SEEK
  BY DEF SeekSense, NextSeek
<1>4. seeks < FLOPPY_RETRIES_SEEK /\ reads > 0 /\ SetUp
  BY <1>1 DEF IInv, Rounds, Commands
<1>5. DriverTyped' /\ ControllerTyped' /\ RestTyped'
  <2>1. pc' \in (Commands \cup {"none", "reset", "motor", "dma"}) \X Places
    BY <1>3 DEF Places, Commands, Moves
  <2>2. seeks' \in 0..FLOPPY_RETRIES_SEEK
    BY <1>3, <1>4 DEF IInv, DriverTyped
  <2> QED
    BY <1>1, <1>2, <1>3, <2>1, <2>2 DEF IInv, DriverTyped, ControllerTyped, RestTyped
<1>6. Reached' /\ Rounds'
  <2>1. SetUp'
    BY <1>1, <1>4 DEF SetUp
  <2>2. seeks' # FLOPPY_RETRIES_SEEK => seeks' < FLOPPY_RETRIES_SEEK
    BY <1>3, <1>4 DEF IInv, DriverTyped
  <2> QED
    BY <1>1, <1>3, <1>4, <2>1, <2>2 DEF IInv, Reached, Rounds, Commands, Moves
<1>7. ~ByScheduler'
  BY <1>1, <1>3, BeyondReset DEF Commands
<1>8. InStep'
  BY <1>2, <1>3 DEF InStep, Commands, Moves
<1> QED
  BY <1>5, <1>6, <1>7, <1>8 DEF IInv

-----------------------------------------------------------------------------
\* Where the driver is when the controller is busy, or a request is latched.
LEMMA BusyPlaces ==
  ASSUME IInv, ~ByScheduler
  PROVE  /\ phase = "resetting" => pc = <<"reset", "check">> /\ g_floppy_pending
         /\ phase = "moving" => \E x \in Moves : pc = <<x, "wait">>
         /\ irr => \/ pc = <<"reset", "check">> /\ phase = "ready" /\ unsensed = 4
                   \/ \E x \in Moves : pc = <<x, "wait">> /\ phase = "ready" /\ unsensed = 1
<1>1. pc = <<pc[1], pc[2]>>
  BY DEF IInv, DriverTyped
<1>2. InStep /\ pc # <<"none", "blocked">>
  BY DEF IInv, ByScheduler
<1>3. CASE pc \in {<<"none", "user">>, <<"motor", "on">>, <<"dma", "start">>}
  BY <1>2, <1>3 DEF InStep, Clean
<1>4. CASE pc[1] = "reset" /\ pc[2] \in {"start", "low", "high", "check", "sense"}
  <2>1. pc \in {<<"reset", "start">>, <<"reset", "low">>, <<"reset", "high">>,
                <<"reset", "check">>, <<"reset", "sense">>}
    BY <1>1, <1>4
  <2> QED
    BY <1>2, <2>1 DEF InStep, Clean
<1>5. CASE pc[1] \in Commands /\ pc[2] \in {"start", "send", "sense"}
  <2>1. \E x \in Commands : pc \in {<<x, "start">>, <<x, "send">>, <<x, "sense">>}
    BY <1>1, <1>5
  <2> QED
    BY <1>2, <2>1 DEF InStep, Clean
<1>6. CASE (pc[1] \in Moves /\ pc[2] = "wait") \/ (pc[1] = "read" /\ pc[2] \in {"report", "wait"})
  <2>1. pc \in {<<"read", "report">>, <<"read", "wait">>} \/ \E x \in Moves : pc = <<x, "wait">>
    BY <1>1, <1>6 DEF Commands
  <2> QED
    BY <1>2, <2>1 DEF InStep, Clean
<1> QED
  BY <1>2, <1>3, <1>4, <1>5, <1>6 DEF IInv, Reached, Commands

\* While a reset is under way the driver looks at nothing but the flag.
LEMMA ResetDoneIInv == ASSUME IInv, ResetDone PROVE IInv'
<1>1. /\ phase = "resetting" /\ phase' = "ready" /\ unsensed' = 4 /\ line' = TRUE
      /\ irr' = (irr \/ (~line /\ (gate \/ ~at_mode)))
      /\ UNCHANGED <<pc, recalled, disabled, senses, seeks, reads, g_floppy_pending, arrived,
                     gate, at_mode, dma>>
  BY DEF ResetDone, Raise, driver, flags
<1>2. DriverTyped' /\ Reached' /\ Rounds' /\ (ByScheduler' <=> ByScheduler)
  BY <1>1 DEF IInv, DriverTyped, Reached, Rounds, SetUp, ByScheduler, InCall
<1>3. ControllerTyped' /\ RestTyped'
  <2>1. line' \in BOOLEAN /\ irr' \in BOOLEAN
    BY <1>1, Zenon
  <2>2. unsensed' \in 0..4
    BY <1>1
  <2> QED
    BY <1>1, <2>1, <2>2 DEF IInv, ControllerTyped, RestTyped
<1>4. ByScheduler => TurnedBack'
  BY <1>1 DEF IInv, TurnedBack
<1>5. ASSUME ~ByScheduler PROVE InStep'
  <2>1. pc = <<"reset", "check">> /\ g_floppy_pending
    BY <1>1, <1>5, BusyPlaces
  <2>2. pc' = <<"reset", "check">> /\ phase' = "ready" /\ unsensed' = 4 /\ g_floppy_pending'
    BY <1>1, <2>1
  <2> QED
    BY <2>2 DEF InStep, Commands, Moves
<1> QED
  BY <1>2, <1>3, <1>4, <1>5 DEF IInv

LEMMA MoveDoneIInv == ASSUME IInv, MoveDone PROVE IInv'
<1>1. /\ phase = "moving" /\ phase' = "ready" /\ unsensed' = unsensed + 1
      /\ arrived' \in BOOLEAN /\ line' = TRUE
      /\ irr' = (irr \/ (~line /\ (gate \/ ~at_mode)))
      /\ UNCHANGED <<pc, recalled, disabled, senses, seeks, reads, g_floppy_pending, gate,
                     at_mode, dma>>
  BY DEF MoveDone, Raise, driver, flags
<1>2. DriverTyped' /\ Reached' /\ Rounds' /\ (ByScheduler' <=> ByScheduler)
  BY <1>1 DEF IInv, DriverTyped, Reached, Rounds, SetUp, ByScheduler, InCall
<1>3. ~ByScheduler /\ InStep
  BY <1>1 DEF IInv, TurnedBack
<1>4. PICK x \in Moves : pc = <<x, "wait">>
  BY <1>1, <1>3, BusyPlaces
<1>5. Clean /\ g_floppy_pending
  BY <1>1, <1>3, <1>4 DEF InStep
<1>6. unsensed' = 1
  BY <1>1, <1>5 DEF Clean
<1>7. ControllerTyped' /\ RestTyped'
  <2>1. line' \in BOOLEAN /\ irr' \in BOOLEAN
    BY <1>1, Zenon
  <2>2. unsensed' \in 0..4
    BY <1>6
  <2> QED
    BY <1>1, <2>1, <2>2 DEF IInv, ControllerTyped, RestTyped
<1>8. InStep'
  <2>1. pc' = <<x, "wait">> /\ phase' = "ready" /\ unsensed' = 1 /\ g_floppy_pending'
    BY <1>1, <1>4, <1>5, <1>6
  <2> QED
    BY <2>1 DEF InStep, Commands, Moves
<1> QED
  BY <1>2, <1>3, <1>7, <1>8 DEF IInv

\* A request is latched only where a reset or a movement is waited for.
LEMMA InterruptIInv == ASSUME IInv, Interrupt PROVE IInv'
<1>1. /\ irr /\ Interrupts /\ irr' = FALSE /\ g_floppy_pending' = FALSE
      /\ UNCHANGED <<pc, recalled, disabled, senses, seeks, reads, phase, unsensed, arrived,
                     line, gate,
                     at_mode, dma>>
  BY DEF Interrupt, driver, flags, controller
<1>2. DriverTyped' /\ ControllerTyped' /\ Reached' /\ Rounds' /\ (ByScheduler' <=> ByScheduler)
  BY <1>1 DEF IInv, DriverTyped, ControllerTyped, Reached, Rounds, SetUp, ByScheduler, InCall
<1>3. RestTyped'
  <2>1. irr' \in BOOLEAN /\ g_floppy_pending' \in BOOLEAN
    BY <1>1, Zenon
  <2> QED
    BY <1>1, <2>1 DEF IInv, RestTyped
<1>4. ByScheduler => TurnedBack'
  <2>1. ByScheduler => pc = <<"none", "blocked">> /\ TurnedBack
    BY <1>1 DEF IInv, ByScheduler, Interrupts
  <2> QED
    BY <1>1, <2>1 DEF TurnedBack
<1>5. ASSUME ~ByScheduler PROVE InStep'
  <2>1. \/ pc = <<"reset", "check">> /\ phase = "ready" /\ unsensed = 4
        \/ \E x \in Moves : pc = <<x, "wait">> /\ phase = "ready" /\ unsensed = 1
    BY <1>1, <1>5, BusyPlaces
  <2>2. ~irr'
    BY <1>1
  <2> QED
    BY <1>1, <2>1, <2>2 DEF InStep, Commands, Moves
<1> QED
  BY <1>2, <1>3, <1>4, <1>5 DEF IInv

LEMMA StutterIInv == ASSUME IInv, UNCHANGED vars PROVE IInv'
<1>1. UNCHANGED <<pc, recalled, disabled, senses, seeks, reads, g_floppy_pending, phase,
                  unsensed, arrived,
                  line, gate, at_mode, irr, dma>>
  BY DEF vars, driver, flags, controller
<1> QED
  BY <1>1 DEF IInv, DriverTyped, ControllerTyped, RestTyped, Reached, Rounds, SetUp, ByScheduler,
     InCall, TurnedBack, InStep, Clean

LEMMA NextIInv == ASSUME IInv, [Next]_vars PROVE IInv'
<1>1. CASE FloppyStep /\ UNCHANGED dma
  BY <1>1, SetPendingIInv, ResetLowIInv, ResetHighIInv, ResetCheckIInv, ResetSenseIInv, MotorOnIInv,
     SendIInv, ReportIInv, WaitEndsIInv, RecalibrateSenseIInv, SeekSenseIInv DEF FloppyStep
<1>2. CASE Spin
  BY <1>2, StutterIInv DEF Spin
<1> QED
  BY <1>1, <1>2, CallIInv, DmaSetUpIInv, ResetDoneIInv, MoveDoneIInv, InterruptIInv, StutterIInv
  DEF Next, Driver

\* The invariant the theorems below rest on.
THEOREM Invariant == Spec => []IInv
  BY InitIInv, NextIInv, PTL DEF Spec

\* Type correctness, for any numbers of retries.
THEOREM TypeCorrect == Spec => []TypeOK
<1>1. IInv => TypeOK
  BY DEF IInv, TypeOK, DriverTyped, ControllerTyped, RestTyped
<1> QED
  BY <1>1, Invariant, PTL

\* A wait, which has no bound, is not entered with interrupts off but for the one of a
\* read behind its printf: the check of the reset turns a recalled call back, and
\* nothing else is printed on the way (floppy.c:54, :99, :356).
THEOREM SpinsWithInterrupts == Spec => []SpinsInterruptibly
<1>1. IInv => SpinsInterruptibly
  <2> SUFFICES ASSUME IInv, NEW c \in Commands, pc = <<c, "wait">>
               PROVE  recalled = FALSE /\ (disabled => c = "read")
    BY DEF SpinsInterruptibly
  <2>1. recalled = FALSE
    BY BeyondReset
  <2>2. disabled => c = "read"
    BY DEF IInv, Reached
  <2> QED
    BY <2>1, <2>2
<1> QED
  BY <1>1, Invariant, PTL

\* A command goes to a controller that has finished the one before and has no
\* status left, whatever failed and was tried again (floppy.c:104, :245, :438).
THEOREM CommandsToCleanController == Spec => []CommandsStartClean
<1>1. IInv => CommandsStartClean
  BY BeyondReset DEF CommandsStartClean, InStep, Clean
<1> QED
  BY <1>1, Invariant, PTL

\* A wait ends with the interrupt of its own movement (floppy.c:54).
THEOREM NoStaleInterrupt == Spec => []WaitEndsWithOwnInterrupt
<1>1. IInv => WaitEndsWithOwnInterrupt
  BY BeyondReset DEF WaitEndsWithOwnInterrupt, InStep, Commands
<1> QED
  BY <1>1, Invariant, PTL

\* What a read is set up with does not depend on what the BIOS or an earlier call
\* left in the DMA controller (dma.c:52-84).
THEOREM TransferIsSetUp == Spec => []TransferSetUp
<1>1. IInv => TransferSetUp
  BY DEF IInv, Rounds, SetUp, TransferSetUp, Commands
<1> QED
  BY <1>1, Invariant, PTL
=============================================================================
