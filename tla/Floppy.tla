------------------------------- MODULE Floppy -------------------------------
(***************************************************************************)
(* floppy_syscall_read of src/src/floppy.c and what it calls, against the  *)
(* floppy controller and its interrupt.                                    *)
(*                                                                         *)
(* The call is a blocking system call and its own recall handler           *)
(* (floppy.c:586).  Called by a process it runs with interrupts enabled;   *)
(* recalled, inside the scheduler with interrupts off.  One process uses   *)
(* the driver, which has no lock.  The floppy is the lowest interrupt      *)
(* line enabled, so its handler is never dropped (IrqDispatchProofs).      *)
(*                                                                         *)
(* A command is one step: between its bytes the controller does nothing.   *)
(* floppy_delay is time that may or may not be enough for the controller.  *)
(* The data rate and the bytes transferred are left out, and what is       *)
(* printed but for the interrupt flag that printing leaves.                *)
(***************************************************************************)
EXTENDS Integers, Dma

CONSTANTS FLOPPY_RETRIES_SEEK,  \* 3
          FLOPPY_RETRIES_READ   \* 10

ASSUME RetriesAssumption ==
  FLOPPY_RETRIES_SEEK \in Nat \ {0} /\ FLOPPY_RETRIES_READ \in Nat \ {0}

Moves == {"recalibrate", "seek"}
Commands == Moves \cup {"read"}

Length == [recalibrate |-> 2, seek |-> 3, read |-> 9]  \* as the controller has it
Sent == [recalibrate |-> 2, seek |-> 3, read |-> 8]    \* sizeof(data) of a read

VARIABLES
  pc,         \* <<part of the driver, place in it>>
  recalled,   \* this call is made by the scheduler
  disabled,   \* a screen_update in this call returned with interrupts off
  senses,     \* sense commands left of a reset
  seeks,      \* retries of floppy_command_seek
  reads,      \* retries of floppy_command_read_write begun
  g_floppy_pending,
  phase,      \* controller: "ready", "reset" (held), "resetting", "moving",
              \* or "short" of bytes of its command
  unsensed,   \* controller: interrupt statuses not yet sensed
  arrived,    \* controller: the last movement ended on the cylinder asked for
  line,       \* controller: its interrupt line
  gate,       \* digital output register, bit 3: the line reaches the outside
  at_mode,    \* this controller has that gate (one in PS/2 mode has not)
  irr,        \* the request, latched in the interrupt controller
  dma         \* the DMA controller, with the registers of channel 2

flags == <<recalled, disabled>>
driver == <<pc, flags, senses, seeks, reads>>
controller == <<phase, unsensed, arrived, line, gate, at_mode>>
vars == <<driver, g_floppy_pending, controller, irr, dma>>

InCall == pc[1] # "none"
Interrupts == InCall => ~recalled /\ ~disabled
Ready == phase \in {"ready", "moving"}   \* msr.ready_for_transfer

\* What the BIOS left in the DMA controller when it had read the kernel.
BiosDma == [masked : SUBSET {2}, high : BOOLEAN, page : {0, 2},
            address : [{"low", "high"} -> {0, 255}], count : {[low |-> 255, high |-> 1]}]

\* The boot loader leaves 0 in the digital output register (floppy_kill_motor),
\* which holds the controller in reset; init_floppy does not end that.
Init ==
  /\ pc = <<"none", "user">> /\ recalled = FALSE /\ disabled = FALSE
  /\ senses = 0 /\ seeks = 0 /\ reads = 0
  /\ g_floppy_pending = FALSE
  /\ phase = "reset" /\ unsensed = 0 /\ arrived = FALSE
  /\ line = FALSE /\ gate = FALSE /\ at_mode \in BOOLEAN
  /\ irr = FALSE
  /\ dma \in BiosDma

-----------------------------------------------------------------------------
(* The controller and the interrupt.                                       *)

Raise ==
  /\ line' = TRUE
  /\ irr' = (irr \/ (~line /\ (gate \/ ~at_mode)))

\* Out of a reset the controller has a status for each of four drives.
ResetDone ==
  /\ phase = "resetting"
  /\ phase' = "ready" /\ unsensed' = 4
  /\ Raise
  /\ UNCHANGED <<driver, g_floppy_pending, arrived, gate, at_mode, dma>>

\* On the cylinder or, with no disk or no drive, anywhere.
MoveDone ==
  /\ phase = "moving"
  /\ phase' = "ready" /\ unsensed' = unsensed + 1
  /\ arrived' \in BOOLEAN
  /\ Raise
  /\ UNCHANGED <<driver, g_floppy_pending, gate, at_mode, dma>>

\* floppy_handler
Interrupt ==
  /\ irr /\ Interrupts
  /\ irr' = FALSE
  /\ g_floppy_pending' = FALSE
  /\ UNCHANGED <<driver, controller, dma>>

-----------------------------------------------------------------------------
(* The call, and floppy_reset.                                             *)

Call ==
  /\ ~InCall
  /\ pc' = <<"reset", "start">>
  /\ recalled' = (pc[2] = "blocked") /\ disabled' = FALSE
  /\ reads' = 0
  /\ UNCHANGED <<senses, seeks, g_floppy_pending, controller, irr, dma>>

\* A plausible slip: a wait starts with what the last one left.
SetPendingNotForSeek(c) ==
  /\ pc = <<c, "start">>
  /\ g_floppy_pending' = (c # "seek" \/ g_floppy_pending)
  /\ pc' = <<c, IF c = "reset" THEN "low" ELSE "send">>
  /\ UNCHANGED <<flags, senses, seeks, reads, controller, irr>>

SetPending(c) ==
  /\ pc = <<c, "start">>
  /\ g_floppy_pending' = TRUE
  /\ pc' = <<c, IF c = "reset" THEN "low" ELSE "send">>
  /\ UNCHANGED <<flags, senses, seeks, reads, controller, irr>>

ResetLow ==
  /\ pc = <<"reset", "low">>
  /\ pc' = <<"reset", "high">>
  /\ phase' = "reset" /\ unsensed' = 0 /\ line' = FALSE /\ gate' = FALSE
  /\ UNCHANGED <<flags, senses, seeks, reads, g_floppy_pending, arrived,
                 at_mode, irr>>

ResetHigh ==
  /\ pc = <<"reset", "high">>
  /\ pc' = <<"reset", "check">>
  /\ phase' = "resetting" /\ gate' = TRUE
  /\ UNCHANGED <<flags, senses, seeks, reads, g_floppy_pending, unsensed,
                 arrived, line, at_mode, irr>>

\* A plausible slip: the driver goes on whether the interrupt fired or not.
ResetUnchecked ==
  /\ pc = <<"reset", "check">>
  /\ pc' = <<"reset", "sense">>
  /\ senses' = 4
  /\ UNCHANGED <<flags, seeks, reads, g_floppy_pending, controller, irr>>

\* A plausible slip: the statuses of the reset are not sensed.
ResetNotSensed ==
  /\ pc = <<"reset", "check">>
  /\ pc' = IF g_floppy_pending THEN <<"none", "blocked">> ELSE <<"motor", "on">>
  /\ senses' = 0
  /\ UNCHANGED <<flags, seeks, reads, g_floppy_pending, controller, irr>>

\* A reset whose interrupt did not fire in time fails, and the process blocks.
ResetCheck ==
  /\ pc = <<"reset", "check">>
  /\ pc' = IF g_floppy_pending THEN <<"none", "blocked">> ELSE <<"reset", "sense">>
  /\ senses' = 4
  /\ UNCHANGED <<flags, seeks, reads, g_floppy_pending, controller, irr>>

\* floppy_command_sense_interrupt: with nothing to sense the controller answers
\* one byte instead of two, and the second one is waited for in vain.
Sensed == Ready /\ unsensed > 0
TakeStatus ==
  /\ unsensed' = IF Sensed THEN unsensed - 1 ELSE unsensed
  /\ line' = (line /\ ~Sensed)

\* A plausible slip: the last of the four is left.
ResetSenseThree ==
  /\ pc = <<"reset", "sense">>
  /\ TakeStatus
  /\ senses' = senses - 1
  /\ pc' = IF ~Sensed THEN <<"none", "blocked">>
           ELSE IF senses = 2 THEN <<"motor", "on">> ELSE pc
  /\ UNCHANGED <<flags, seeks, reads, g_floppy_pending, phase, arrived, gate,
                 at_mode, irr>>

ResetSense ==
  /\ pc = <<"reset", "sense">>
  /\ TakeStatus
  /\ senses' = senses - 1
  /\ pc' = IF ~Sensed THEN <<"none", "blocked">>
           ELSE IF senses = 1 THEN <<"motor", "on">> ELSE pc
  /\ UNCHANGED <<flags, seeks, reads, g_floppy_pending, phase, arrived, gate,
                 at_mode, irr>>

\* 0x14: the motor, no reset, and not bit 3.  g_floppy_motor is never set, so
\* this is done by every call.
MotorOn ==
  /\ pc = <<"motor", "on">>
  /\ pc' = <<"recalibrate", "start">>
  /\ gate' = FALSE
  /\ UNCHANGED <<flags, senses, seeks, reads, g_floppy_pending, phase,
                 unsensed, arrived, line, at_mode, irr>>

-----------------------------------------------------------------------------
(* floppy_command_recalibrate, _seek and _read_write.                      *)

\* After a recalibration, whatever it returned: the transfer is set up, once;
\* the next round of the read; or the end of the call, with TRUE though nothing
\* was read.
NextRead ==
  IF reads = 0 THEN pc' = <<"dma", "start">> /\ UNCHANGED <<reads, seeks>>
  ELSE IF reads < FLOPPY_RETRIES_READ
  THEN pc' = <<"seek", "start">> /\ reads' = reads + 1 /\ seeks' = 0
  ELSE pc' = <<"none", "user">> /\ UNCHANGED <<reads, seeks>>

\* dma_start(2, 0x1000, 9, 8)
DmaSetUp ==
  /\ pc = <<"dma", "start">>
  /\ dma' = DmaStart(dma, 2, 9)
  /\ pc' = <<"seek", "start">> /\ reads' = 1 /\ seeks' = 0
  /\ UNCHANGED <<flags, senses, g_floppy_pending, controller, irr>>

NextSeek(found) ==
  /\ seeks' = seeks + 1
  /\ UNCHANGED reads
  /\ pc' = IF found THEN <<"read", "start">>
           ELSE IF seeks' = FLOPPY_RETRIES_SEEK THEN <<"recalibrate", "start">>
           ELSE <<"seek", "start">>

\* A command that does not get its bytes in leaves its loop as its code says.
Unsent(c) ==
  CASE c = "recalibrate" -> NextRead
    [] c = "seek" -> NextSeek(FALSE)
    [] c = "read" -> pc' = <<"recalibrate", "start">> /\ UNCHANGED <<seeks, reads>>

Send(c) ==
  /\ pc = <<c, "send">>
  /\ IF Ready
     THEN /\ phase' = IF Sent[c] = Length[c] THEN "moving" ELSE "short"
          /\ pc' = <<c, IF c = "read" THEN "report" ELSE "wait">>
          /\ UNCHANGED <<seeks, reads>>
     ELSE Unsent(c) /\ UNCHANGED phase
  /\ UNCHANGED <<flags, senses, g_floppy_pending, unsensed, arrived, line,
                 gate, at_mode, irr>>

\* printf(NULL, "WAITING FOR DATA..."): unless System's console is viewed, the
\* screen_update at its end returns with interrupts off (screen.c:141-143).
Report ==
  /\ pc = <<"read", "report">>
  /\ pc' = <<"read", "wait">>
  /\ \E viewed \in BOOLEAN : disabled' = (disabled \/ ~viewed)
  /\ UNCHANGED <<recalled, senses, seeks, reads, g_floppy_pending, controller, irr>>

\* floppy_delay_on_interrupt
Spin ==
  /\ pc[2] = "wait" /\ g_floppy_pending
  /\ UNCHANGED vars

\* The wait of a read never ends: the controller waits for its last byte.
WaitEnds(c) ==
  /\ pc = <<c, "wait">> /\ ~g_floppy_pending
  /\ pc' = <<c, "sense">>
  /\ UNCHANGED <<flags, senses, seeks, reads, g_floppy_pending, controller, irr>>

RecalibrateSense ==
  /\ pc = <<"recalibrate", "sense">>
  /\ TakeStatus
  /\ IF Sensed THEN NextRead
     ELSE pc' = <<"recalibrate", "start">> /\ UNCHANGED <<reads, seeks>>
  /\ UNCHANGED <<flags, senses, g_floppy_pending, phase, arrived, gate,
                 at_mode, irr>>

SeekSense ==
  /\ pc = <<"seek", "sense">>
  /\ TakeStatus
  /\ NextSeek(Sensed /\ arrived)
  /\ UNCHANGED <<flags, senses, g_floppy_pending, phase, arrived, gate,
                 at_mode, irr>>

FloppyStep ==
  \/ \E c \in Commands \cup {"reset"} : SetPending(c)
  \/ ResetLow \/ ResetHigh \/ ResetCheck \/ ResetSense
  \/ MotorOn
  \/ \E c \in Commands : Send(c)
  \/ Report
  \/ \E c \in Moves : WaitEnds(c)
  \/ RecalibrateSense \/ SeekSense

Driver == DmaSetUp \/ (FloppyStep /\ UNCHANGED dma)

Next == Call \/ Driver \/ Spin \/ ResetDone \/ MoveDone \/ Interrupt

Spec == Init /\ [][Next]_vars

\* The driver's process gets the CPU, a movement ends, and a request is
\* delivered when interrupts are enabled.
FairSpec ==
  Spec /\ WF_vars(Driver) /\ WF_vars(ResetDone \/ MoveDone) /\ WF_vars(Interrupt)

-----------------------------------------------------------------------------
Places == {"user", "blocked", "start", "low", "high", "check", "sense", "on",
           "send", "report", "wait"}

TypeOK ==
  /\ pc \in (Commands \cup {"none", "reset", "motor", "dma"}) \X Places
  /\ recalled \in BOOLEAN /\ disabled \in BOOLEAN /\ g_floppy_pending \in BOOLEAN
  /\ senses \in 0..4
  /\ seeks \in 0..FLOPPY_RETRIES_SEEK /\ reads \in 0..FLOPPY_RETRIES_READ
  /\ phase \in {"ready", "reset", "resetting", "moving", "short"}
  /\ unsensed \in 0..4
  /\ arrived \in BOOLEAN /\ line \in BOOLEAN /\ gate \in BOOLEAN
  /\ at_mode \in BOOLEAN /\ irr \in BOOLEAN
  /\ dma \in Controllers

\* The unbounded waits of floppy.c:54 (from :253, :357 and :450) are not entered
\* with interrupts off, where nothing could end them and the whole machine would
\* stop: the check of a reset (:99) turns every call by the scheduler back before
\* it gets there, and nothing is printed on the way.  There is one exception: the
\* wait for the data, behind a printf (:356) to a console that is not viewed.
SpinsInterruptibly ==
  \A c \in Commands : pc = <<c, "wait">> => ~recalled /\ (disabled => c = "read")

\* A command is given to a controller that has finished the one before, its
\* statuses sensed, on every path through retries and failed calls.
CommandsStartClean ==
  \A c \in Commands : pc = <<c, "send">> => phase = "ready" /\ unsensed = 0

\* A wait for the heads ends with the interrupt of its own movement, not with
\* one that is left of a reset or of an earlier command: there is a status to
\* sense, and none is latched to end the next wait early.
WaitEndsWithOwnInterrupt ==
  \A c \in Moves : pc = <<c, "sense">> => phase = "ready" /\ unsensed = 1 /\ ~irr

\* A wait for the heads ends, unless MotorOn cut the interrupt off: the flag is
\* set before the command is sent (floppy.c:245, :438), and the controller's line
\* was lowered by sensing what came before, so no interrupt is missed.
MovesEnd == \A c \in Moves : pc = <<c, "wait">> ~> pc # <<c, "wait">> \/ at_mode

\* What a read is set up with is the same whatever the BIOS, an earlier call or a
\* call that was given up left in the registers and the flip-flop.  It is not what
\* was asked for: three halves are written, so the length has its bytes in
\* the wrong order, and the address is the channel's own page.
TransferSetUp ==
  pc[1] = "read" =>
    /\ 2 \notin dma.masked /\ dma.page = 2 /\ dma.address["low"] = 0
    /\ dma.count = [low |-> 9 \div 256, high |-> 9 % 256]
=============================================================================
