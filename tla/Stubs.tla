------------------------------- MODULE Stubs -------------------------------
(***************************************************************************)
(* The way into the kernel as it is built: the gates of init_idt, the      *)
(* stubs of kernel_lowlevel.asm behind them and what they push and pop, the *)
(* request, service and mask registers of the first 8259, and the order in *)
(* which main enables lines.  Handlers are installed, but the stub's call  *)
(* of them is commented out (kernel_lowlevel.asm:310), and no process is   *)
(* ever run: main and the stubs are all there is.                          *)
(*                                                                         *)
(* The stack is a sequence of words, its top first.  A word of a frame is  *)
(* named by the level that is interrupted: main is level 0, an activation  *)
(* of a stub one more than what it interrupts.  All stay on one stack in   *)
(* kernel mode.  What printf pushes it pops, and it is a step of its own   *)
(* only because it takes long.                                             *)
(***************************************************************************)
EXTENDS Integers, Sequences

CONSTANTS Lines,     \* lines of the first controller with a device
          Faults,    \* vectors of exceptions that may occur
          MaxDepth   \* bound: activations nested

\* Line 2 is the second controller.
ASSUME LinesAssumption == {0, 1, 6} \subseteq Lines /\ Lines \subseteq 0..7 \ {2}
ASSUME FaultsAssumption == Faults \subseteq 0..31
ASSUME DepthAssumption == MaxDepth \in Nat

FIRST_EXTERNAL_INTERRUPT == 48    \* 0x30
Vector(i) == FIRST_EXTERNAL_INTERRUPT + i

VARIABLES
  main,        \* the next call of main that is about interrupts
  activations, \* of stubs, the running one first: vector, at, was
  stack,
  regs,        \* the level whose values the general registers hold
  irr, isr,    \* the controller: requested, in service
  imr,         \* the controllers: lines masked
  g_irq_mask,  \* the kernel's copy
  g_irq_handlers  \* lines with a handler

controller == <<irr, isr, imr>>
tables == <<g_irq_mask, g_irq_handlers>>
vars == <<main, activations, stack, regs, controller, tables>>

Level == Len(activations)
Running == Head(activations)
At(place) == activations # <<>> /\ Running.at = place
Go(place) == activations' = <<[Running EXCEPT !.at = place]>> \o Tail(activations)

Frame(n) == <<<<"eip", n>>, <<"cs", n>>, <<"eflags", n>>>>

Init ==
  /\ main = "configure_pic"
  /\ activations = <<>> /\ stack = <<>> /\ regs = 0
  /\ irr = {} /\ isr = {} /\ imr \in {{}, 0..15}   \* as the BIOS left it
  /\ g_irq_mask = 0..15 \ {2} /\ g_irq_handlers = {}

-----------------------------------------------------------------------------
(* main: masks.                                                            *)

MASTER(mask) == mask \cap 0..7
SLAVE(mask) == mask \cap 8..15

\* A plausible slip: the copy is set before it is compared.
SetIrqMaskAfterCopy(mask) == g_irq_mask' = mask /\ UNCHANGED imr

\* A controller hears of the mask when its half differs from the copy.
SetIrqMask(mask) ==
  /\ imr' = (IF MASTER(mask) # MASTER(g_irq_mask) THEN MASTER(mask) ELSE MASTER(imr))
       \cup (IF SLAVE(mask) # SLAVE(g_irq_mask) THEN SLAVE(mask) ELSE SLAVE(imr))
  /\ g_irq_mask' = mask

Call(name, next) ==
  /\ main = name /\ main' = next
  /\ activations = <<>>
  /\ UNCHANGED <<activations, stack, regs, irr>>

\* The masks that configure_pic sends are those g_irq_mask starts with.
ConfigurePic ==
  /\ Call("configure_pic", "init_idt")
  /\ isr' = {} /\ imr' = 0..15 \ {2}
  /\ UNCHANGED tables

Sti == Call("sti", "init_keyboard") /\ UNCHANGED <<isr, imr, tables>>

EnableIrq(name, i, next) ==
  /\ Call(name, next)
  /\ SetIrqMask(g_irq_mask \ {i})
  /\ UNCHANGED <<isr, g_irq_handlers>>

InstallIrqHandler(name, i, next) ==
  /\ Call(name, next)
  /\ g_irq_handlers' = g_irq_handlers \cup {i}
  /\ UNCHANGED <<isr, imr, g_irq_mask>>

\* init_keyboard, init_floppy
Devices ==
  \/ InstallIrqHandler("init_keyboard", 1, "keyboard")
  \/ EnableIrq("keyboard", 1, "init_floppy")
  \/ InstallIrqHandler("init_floppy", 6, "floppy")
  \/ EnableIrq("floppy", 6, "timer")

\* The timer's line is enabled twice, by init_idt and at the end of main.
Timer ==
  \/ EnableIrq("init_idt", 0, "sti")
  \/ InstallIrqHandler("timer", 0, "enable timer")
  \/ EnableIrq("enable timer", 0, "loop")

Main == ConfigurePic \/ Sti \/ Devices \/ Timer

-----------------------------------------------------------------------------
(* The controller and the CPU.                                             *)

Raise(i) ==
  /\ main # "configure_pic"
  /\ i \notin irr
  /\ irr' = irr \cup {i}
  /\ UNCHANGED <<main, activations, stack, regs, isr, imr, tables>>

Enter(v, frame, at) ==
  /\ Level < MaxDepth
  /\ activations' = <<[vector |-> v, at |-> at, was |-> regs]>> \o activations
  /\ stack' = frame \o stack
  /\ UNCHANGED <<main, regs>>

\* Trap gates leave the interrupt flag as it is; only the timer's gate is an
\* interrupt gate, and its iretd sets the flag again.
InterruptsEnabled ==
  /\ main \notin {"configure_pic", "init_idt", "sti"}
  /\ activations # <<>> => Running.vector # Vector(0)

\* A plausible slip: the timer has a stub like the others.
GateOfTimerStub(i) == "stub"

\* scheduler_low is nothing but an iretd.
Gate(i) == IF i = 0 THEN "iret" ELSE "stub"

Deliver(i) ==
  /\ InterruptsEnabled
  /\ i \in irr \ imr
  /\ \A j \in isr : i < j
  /\ irr' = irr \ {i} /\ isr' = isr \cup {i}
  /\ Enter(Vector(i), Frame(Level), Gate(i))
  /\ UNCHANGED <<imr, tables>>

PushesErrorCode == {8, 10, 11, 12, 13, 14, 17}

\* The values that were interrupted are the running level's own.
Fault(v) ==
  /\ main \notin {"configure_pic", "init_idt"}
  /\ activations = <<>> \/ At("report")
  /\ Enter(v, (IF v \in PushesErrorCode THEN <<<<"code", Level>>>> ELSE <<>>) \o Frame(Level),
           "stub")
  /\ UNCHANGED <<controller, tables>>

-----------------------------------------------------------------------------
(* The stubs.                                                              *)

\* Stubs are of one size, and a gate is an index into them.  There is none
\* for 47 and none for 63: from there on a vector meets the stub of the next,
\* and then of the one after that.
StubNumber(v) == IF v < 47 THEN v ELSE IF v < 62 THEN v + 1 ELSE v + 2

IrqStubs == FIRST_EXTERNAL_INTERRUPT..FIRST_EXTERNAL_INTERRUPT + 14

\* A plausible slip: 17 is taken for an exception without an error code.
TrapStubsOld == {8, 10, 11, 12, 13, 14}

\* basic_trap_handler: those that rely on the CPU's error code.
TrapStubs == {8, 10, 11, 12, 13, 14, 17}

Stub ==
  /\ At("stub")
  /\ LET n == StubNumber(Running.vector)
     IN  IF n \in IrqStubs
         THEN stack' = <<n, 0>> \o stack /\ Go("save")
         ELSE stack' = <<n>> \o stack /\ Go(IF n \in TrapStubs THEN "save" ELSE "code")
  /\ UNCHANGED <<main, regs, controller, tables>>

\* common_trap_handler_push_error_code: a 0 is put under the number, by way of
\* eax, which is pushed twice and popped once.
PushErrorCode ==
  /\ At("code")
  /\ stack' = <<Head(stack), 0>> \o Tail(stack)
  /\ Go("save")
  /\ UNCHANGED <<main, regs, controller, tables>>

SavedWords == 11    \* pusha, ds, es, fs

Save ==
  /\ At("save")
  /\ stack' = [w \in 1..SavedWords |-> <<"saved", regs>>] \o stack
  /\ regs' = Level
  /\ Go("report")
  /\ UNCHANGED <<main, controller, tables>>

\* GET_INTERRUPT_NUMBER
InterruptNumber == stack[SavedWords + 1]

\* A plausible slip: the decrement that makes up for the missing stub 47 goes.
AckedLineUndecremented == (InterruptNumber - FIRST_EXTERNAL_INTERRUPT) % 8

\* "sub ebx, FIRST_EXTERNAL_INTERRUPT", "dec ebx", and the low three bits.
AckedLine == (InterruptNumber - FIRST_EXTERNAL_INTERRUPT - 1) % 8

\* The handler is looked up at the same index, and not called; a line is
\* printed, the same with and without one.
Report ==
  /\ At("report")
  /\ Go(IF InterruptNumber \in IrqStubs THEN "ack" ELSE "restore")
  /\ UNCHANGED <<main, stack, regs, controller, tables>>

\* irq_send_ack: a specific EOI.
Ack ==
  /\ At("ack")
  /\ isr' = isr \ {AckedLine}
  /\ Go("restore")
  /\ UNCHANGED <<main, stack, regs, irr, imr, tables>>

\* pop fs, es, ds, popa, and "add esp, 8".
Restore ==
  /\ At("restore")
  /\ regs' = Head(stack)[2]
  /\ stack' = SubSeq(stack, SavedWords + 3, Len(stack))
  /\ Go("iret")
  /\ UNCHANGED <<main, controller, tables>>

Iret ==
  /\ At("iret")
  /\ stack' = SubSeq(stack, 4, Len(stack))
  /\ activations' = Tail(activations)
  /\ UNCHANGED <<main, regs, controller, tables>>

InStub == Stub \/ PushErrorCode \/ Save \/ Report \/ Ack \/ Restore \/ Iret

Loop == main = "loop" /\ activations = <<>> /\ UNCHANGED vars

Next ==
  \/ Main
  \/ \E i \in Lines : Raise(i) \/ Deliver(i)
  \/ \E v \in Faults : Fault(v)
  \/ InStub
  \/ Loop

Spec == Init /\ [][Next]_vars

-----------------------------------------------------------------------------
\* Whatever is nested in it, a stub returns to the instruction it interrupted,
\* with its registers: the error code the CPU pushed or the one it was faked
\* with is under the number when the number is read, and gone at the iretd.
ReturnsWhereInterrupted ==
  At("iret") => regs = Running.was /\ SubSeq(stack, 1, 3) = Frame(Level - 1)

\* The line a stub acknowledges is its own, is in service, and has a handler in
\* the table: the stub pushes a number that is one too high, and one is taken
\* off it again; and a device's line is not enabled before it has a handler (line 0,
\* the timer's, is, and its gate never acknowledges).
AcksOwnLine ==
  At("ack") =>
    Vector(AckedLine) = Running.vector /\ AckedLine \in isr \cap g_irq_handlers

\* From the first tick on the controller delivers nothing any more: no EOI of
\* any stub, nested or interrupted, is for line 0 (kernel_lowlevel.asm:385).
TimerSilences == [][0 \in isr => 0 \in isr' /\ isr' \subseteq isr]_vars

\* The kernel's copy of the mask is what the controllers have: set_irq_mask
\* sends only what differs from the copy, so one that differs is never sent.
MaskIsCopied == main # "configure_pic" => g_irq_mask = imr
=============================================================================
