---------------------------- MODULE IrqDispatch ----------------------------
(***************************************************************************)
(* common_irq_handler of src/src/irq.c: the gateway from the IDT to the    *)
(* installed irq handlers, between the 8259 interrupt controllers, the CPU *)
(* and the timer that switches threads under it.                           *)
(*                                                                         *)
(* Each request line has at most one activation of the handler, since the  *)
(* controller does not deliver a line that is in service; at[i] says where *)
(* the activation of line i stands, on[i] on which thread's kernel stack   *)
(* it sits.  The gates are trap gates (interrupts.c:56), so an activation  *)
(* starts with the interrupt flag as it was and can itself be interrupted. *)
(*                                                                         *)
(* The write of the EOI and the return to the interrupted code are one     *)
(* step: what runs between them (popping registers) touches nothing here.  *)
(***************************************************************************)
EXTENDS Integers

CONSTANTS Irqs,     \* request lines with a handler, the timer apart
          Threads,  \* processes whose kernel stacks carry activations
          Boot      \* the thread that runs first

ASSUME IrqsAssumption == Irqs \subseteq 1..15
ASSUME BootAssumption == Boot \in Threads

\* Lines 8..15 come through line 2 of the first controller, which is fully
\* nested: a line in service holds back itself and everything behind it.
Line(i) == IF i < 8 THEN i ELSE 2
Outranks(i, j) == Line(i) < Line(j)

Phases == {"none", "test", "enter", "handler", "leave", "unmark", "ack", "drop"}
Marked == {"handler", "leave", "unmark"}

VARIABLES irr,          \* controller: requests not yet delivered
          isr,          \* controller: requests in service
          waiting,      \* devices that raised a request nobody has served
          interrupts,   \* the interrupt flag
          dispatching,  \* g_dispatch_irq
          current,      \* the thread on the CPU
          at, on

vars == <<irr, isr, waiting, interrupts, dispatching, current, at, on>>

Init ==
  /\ irr = {} /\ isr = {} /\ waiting = {}
  /\ interrupts = TRUE
  /\ dispatching = FALSE
  /\ current = Boot
  /\ at = [i \in Irqs |-> "none"]
  /\ on = [i \in Irqs |-> Boot]

\* The activation executing on the CPU: the innermost on the current thread.
Top(i) ==
  /\ at[i] # "none"
  /\ on[i] = current
  /\ \A j \in Irqs \ {i} : at[j] # "none" /\ on[j] = current => Outranks(i, j)

Goto(i, phase) == at' = [at EXCEPT ![i] = phase]

-----------------------------------------------------------------------------
(* The controller and the devices.                                         *)

\* A device waits with its data until its handler reads it, and does not ask
\* again before (a keyboard with a scan code in port 0x60).
Raise(i) ==
  /\ i \notin waiting
  /\ waiting' = waiting \cup {i}
  /\ irr' = irr \cup {i}
  /\ UNCHANGED <<isr, interrupts, dispatching, current, at, on>>

Deliver(i) ==
  /\ interrupts
  /\ i \in irr
  /\ \A j \in isr : Outranks(i, j)
  /\ irr' = irr \ {i}
  /\ isr' = isr \cup {i}
  /\ Goto(i, "test")
  /\ on' = [on EXCEPT ![i] = current]
  /\ UNCHANGED <<waiting, interrupts, dispatching, current>>

\* A plausible slip: the timer switches threads inside a device handler.
TickAlwaysSwitches(t) ==
  /\ interrupts
  /\ current' = t
  /\ interrupts' = TRUE
  /\ UNCHANGED <<irr, isr, waiting, dispatching, at, on>>

\* The timer, irq 0: nothing outranks it, so its activation is one step.  The
\* scheduler leaves the current thread alone while an irq is dispatched
\* (schedule.c:341-347), else it may resume any thread.
Tick(t) ==
  /\ interrupts
  /\ t # current => ~dispatching
  /\ current' = t
  /\ interrupts' = TRUE
  /\ UNCHANGED <<irr, isr, waiting, dispatching, at, on>>

-----------------------------------------------------------------------------
(* common_irq_handler for irq i.                                           *)

Test(i) ==
  /\ Top(i) /\ at[i] = "test"
  /\ Goto(i, IF dispatching THEN "drop" ELSE "enter")
  /\ UNCHANGED <<irr, isr, waiting, interrupts, dispatching, current, on>>

Enter(i) ==
  /\ Top(i) /\ at[i] = "enter"
  /\ dispatching' = TRUE
  /\ interrupts' = TRUE
  /\ Goto(i, "handler")
  /\ UNCHANGED <<irr, isr, waiting, current, on>>

\* The installed handler: it takes the device's data and returns.
Handle(i) ==
  /\ Top(i) /\ at[i] = "handler"
  /\ waiting' = waiting \ {i}
  /\ Goto(i, "leave")
  /\ UNCHANGED <<irr, isr, interrupts, dispatching, current, on>>

Leave(i) ==
  /\ Top(i) /\ at[i] = "leave"
  /\ interrupts' = FALSE
  /\ Goto(i, "unmark")
  /\ UNCHANGED <<irr, isr, waiting, dispatching, current, on>>

\* A plausible slip: the flag is not reset.
UnmarkForgotten(i) ==
  /\ Top(i) /\ at[i] = "unmark"
  /\ Goto(i, "ack")
  /\ UNCHANGED <<irr, isr, waiting, interrupts, dispatching, current, on>>

Unmark(i) ==
  /\ Top(i) /\ at[i] = "unmark"
  /\ dispatching' = FALSE
  /\ Goto(i, "ack")
  /\ UNCHANGED <<irr, isr, waiting, interrupts, current, on>>

\* A plausible slip: only handled requests are acknowledged.
AckHandledOnly(i) ==
  /\ Top(i) /\ at[i] \in {"ack", "drop"}
  /\ isr' = IF at[i] = "ack" THEN isr \ {i} ELSE isr
  /\ interrupts' = TRUE
  /\ Goto(i, "none")
  /\ UNCHANGED <<irr, waiting, dispatching, current, on>>

\* The specific EOI, to both controllers for a line of the second, and the
\* return to code that ran with interrupts enabled.
Ack(i) ==
  /\ Top(i) /\ at[i] \in {"ack", "drop"}
  /\ isr' = isr \ {i}
  /\ interrupts' = TRUE
  /\ Goto(i, "none")
  /\ UNCHANGED <<irr, waiting, dispatching, current, on>>

Step(i) ==
  Test(i) \/ Enter(i) \/ Handle(i) \/ Leave(i) \/ Unmark(i) \/ Ack(i)

Next ==
  \/ \E i \in Irqs : Raise(i) \/ Deliver(i) \/ Step(i)
  \/ \E t \in Threads : Tick(t)

Spec == Init /\ [][Next]_vars

\* The CPU executes instructions between two interrupts, and the scheduler
\* comes back to every thread, so an activation that is on top of its thread
\* again and again gets on.
FairSpec ==
  /\ Spec
  /\ \A i \in Irqs : SF_vars(Step(i))
  /\ \A t \in Threads : SF_vars(Tick(t))

-----------------------------------------------------------------------------
TypeOK ==
  /\ irr \subseteq Irqs /\ isr \subseteq Irqs /\ waiting \subseteq Irqs
  /\ interrupts \in BOOLEAN
  /\ dispatching \in BOOLEAN
  /\ current \in Threads
  /\ at \in [Irqs -> Phases]
  /\ on \in [Irqs -> Threads]

\* At most one device handler is active, on any thread's stack, its thread is
\* the one on the CPU, and g_dispatch_irq says exactly whether there is one:
\* the unlocked test and set at irq.c:161-165 is not a race.
DispatchExclusive ==
  /\ dispatching <=> \E i \in Irqs : at[i] \in Marked
  /\ \A i, j \in Irqs : at[i] \in Marked /\ at[j] \in Marked => i = j
  /\ \A i \in Irqs : at[i] \in Marked => on[i] = current

\* A request is dropped only by a handler of lower priority that it
\* interrupted: the lowest line (the floppy's irq 6 here) is never dropped.
OnlyInterruptersDropped ==
  \A i \in Irqs : at[i] = "drop" =>
     \E j \in Irqs : at[j] \in Marked /\ Outranks(i, j)

\* The controller's in-service requests are the activations on the stacks, so
\* every activation ends with the EOI of its own line (irq.c:184-195).
InServiceMatchesStacks == isr = {i \in Irqs : at[i] # "none"}

\* A request in service is acknowledged in the end, though the timer may have
\* switched away from the thread whose stack holds its activation.
EventuallyAcknowledged == \A i \in Irqs : i \in isr ~> i \notin isr
=============================================================================
