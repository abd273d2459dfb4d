----------------------------- MODULE Scheduler -----------------------------
(***************************************************************************)
(* schedule_old of src/src/schedule.c with syscall_handler of syscall.c:   *)
(* how the timer and blocking system calls move the CPU between processes. *)
(*                                                                         *)
(* Processes are numbered along the process list, 1 = g_head_process.      *)
(* Readers loop on a blocking read of a key (syscall_char_read and its     *)
(* recall handler); the others, the idle process among them, never block.  *)
(* A context is abstracted to where it is in its code (pc) and the eax the *)
(* process will see.  A process's user context is in one of three places:  *)
(* on the CPU, in the frame its system call left on its kernel stack, or   *)
(* in process->registers.  Each process is taken to make its calls on a    *)
(* kernel stack of its own, process->kernel_stack.                         *)
(*                                                                         *)
(* The frame schedule_old was entered with decides what becomes of the     *)
(* switch (schedule.c:427-436, kernel_lowlevel.asm:434-500): the end of a  *)
(* system call returns by it as it is, the end of an interrupt looks       *)
(* whether it was moved, but not between two places in the kernel.         *)
(*                                                                         *)
(* syscall_handler runs with interrupts enabled (kernel_lowlevel.asm:467), *)
(* schedule_old with nothing able to interrupt it.  While a device's irq   *)
(* is dispatched schedule_old returns at once (schedule.c:341-347); a key  *)
(* press is therefore one step.  A press that a full queue refuses changes *)
(* nothing here, and is left out.                                          *)
(***************************************************************************)
EXTENDS Integers, FiniteSets

CONSTANTS N,             \* processes in the list
          Readers,       \* those that read keys
          MaxPresses,    \* bound: keys typed
          DeadKeys       \* those of them that the keymap turns into no
                         \* character (escape, tab, alt, ...)

ASSUME ProcessesAssumption == N \in Nat \ {0} /\ Readers \subseteq 1..N
ASSUME PressesAssumption == MaxPresses \in Nat /\ DeadKeys \subseteq 1..MaxPresses

NULL == 0
Procs == 1..N
Presses == 1..MaxPresses
Characters == Presses \ DeadKeys
Garbage == 0      \* an eax that is not a key: the call's number, or anything
Nothing == 0      \* no key: the entry at the index is free

UserPcs == {"run", "after"}    \* "after": behind the int 0x21 of a read
KernelPcs == {"call", "failed", "marked", "armed", "return"}

\* Between blocking = TRUE (syscall.c:39) and disable_interrupts() (:49) the
\* process is marked as blocked but still runs; a tick here breaks its read.
Window == {"marked", "armed"}
UserContext == [pc : UserPcs, eax : Presses \cup {Garbage}]
Start == [pc |-> "run", eax |-> Garbage]

VARIABLES
  mode,              \* "boot", "user", "kernel", "scan" (in schedule_old), and
                     \* "fault", "lost" (in the wrong frame), where the model ends
  entry,             \* in schedule_old: where it was entered from, in which process
  current,           \* g_current_process
  cpu,               \* the user context on the CPU
  kpc,               \* where syscall_handler stands, in kernel mode
  frame,             \* the user context the system call of a process left
  registers,         \* process->registers
  registers_kernel,  \* process->registers_kernel: where in syscall_handler
  kernel_mode, blocking,
  blocking_syscall,  \* process->blocking_syscall is not NULL
  keys,              \* unread keys of a process (KeyMailbox!pending)
  next,              \* the one of them its next read takes, if any (KeyMailbox!next)
  sent, got,         \* history: keys typed for a process, keys it has seen
  stopped,           \* history: where a process was when it left the CPU
  hit                \* history: processes the timer ever stopped in the window

pcb == <<registers, registers_kernel, kernel_mode, blocking, blocking_syscall>>
history == <<sent, got, stopped, hit>>
queues == <<keys, next>>
vars == <<mode, entry, current, cpu, kpc, frame, pcb, queues, history>>

NoEntry == [from |-> "none", process |-> NULL]

Init ==
  /\ mode = "boot" /\ entry = NoEntry /\ current = NULL
  /\ cpu = Start /\ kpc = "return"
  /\ frame = [p \in Procs |-> Start]
  /\ registers = [p \in Procs |-> Start]
  /\ registers_kernel = [p \in Procs |-> "return"]
  /\ kernel_mode = [p \in Procs |-> FALSE]
  /\ blocking = [p \in Procs |-> FALSE]
  /\ blocking_syscall = [p \in Procs |-> FALSE]
  /\ keys = [p \in Procs |-> {}]
  /\ next = [p \in Procs |-> Nothing]
  /\ sent = [p \in Procs |-> {}]
  /\ got = [p \in Procs |-> {}]
  /\ stopped = [p \in Procs |-> "run"]
  /\ hit = {}

Typed == UNION {sent[p] : p \in Procs}

-----------------------------------------------------------------------------
(* The keyboard interrupt: a key for the viewed process, whichever it is.  *)

Press(p) ==
  /\ mode \in {"boot", "user", "kernel"}
  /\ \E k \in Presses \ Typed :
       /\ keys' = [keys EXCEPT ![p] = @ \cup {k}]
       /\ next' = [next EXCEPT ![p] = k]
       /\ sent' = [sent EXCEPT ![p] = @ \cup {k}]
  /\ UNCHANGED <<mode, entry, current, cpu, kpc, frame, pcb, got, stopped, hit>>

-----------------------------------------------------------------------------
(* get_char_from_queue, as KeyMailbox promises it: the key at the index is  *)
(* taken, and the entry behind it holds another or is free.  The read fails *)
(* where the index stands on a free entry, although other keys may wait;    *)
(* and a key without a character is gone and the read fails as well.        *)

ReadGives(p, k) ==
  /\ k = next[p]
  /\ keys' = [keys EXCEPT ![p] = @ \ {k}]
  /\ \E n \in (keys[p] \ {k}) \cup {Nothing} : next' = [next EXCEPT ![p] = n]

ReadFails(p) ==
  \/ next[p] = Nothing /\ UNCHANGED queues
  \/ \E k \in DeadKeys : ReadGives(p, k)

-----------------------------------------------------------------------------
(* The running process and its system call.                                *)

Trap ==
  /\ mode = "user" /\ cpu.pc = "run" /\ current \in Readers
  /\ frame' = [frame EXCEPT ![current] = [pc |-> "after", eax |-> Garbage]]
  /\ mode' = "kernel" /\ kpc' = "call"
  /\ UNCHANGED <<entry, current, cpu, pcb, queues, history>>

\* Back in the user code, which looks at eax.
Consume ==
  /\ mode = "user" /\ cpu.pc = "after"
  /\ got' = [got EXCEPT ![current] = @ \cup {cpu.eax}]
  /\ cpu' = Start
  /\ UNCHANGED <<mode, entry, current, kpc, frame, pcb, queues, sent, stopped, hit>>

\* The handler: a key at once, or failure.
CallHandler ==
  /\ mode = "kernel" /\ kpc = "call"
  /\ \/ /\ ReadFails(current)
        /\ kpc' = "failed"
        /\ UNCHANGED frame
     \/ \E k \in Characters :
          /\ ReadGives(current, k)
          /\ frame' = [frame EXCEPT ![current].eax = k]
          /\ kpc' = "return"
  /\ UNCHANGED <<mode, entry, current, cpu, pcb, history>>

MarkBlocking ==
  /\ mode = "kernel" /\ kpc = "failed"
  /\ blocking' = [blocking EXCEPT ![current] = TRUE]
  /\ kpc' = "marked"
  /\ UNCHANGED <<mode, entry, current, cpu, frame, registers, registers_kernel,
                 kernel_mode, blocking_syscall, queues, history>>

SetBlockingSyscall ==
  /\ mode = "kernel" /\ kpc = "marked"
  /\ blocking_syscall' = [blocking_syscall EXCEPT ![current] = TRUE]
  /\ kpc' = "armed"
  /\ UNCHANGED <<mode, entry, current, cpu, frame, registers, registers_kernel,
                 kernel_mode, blocking, queues, history>>

\* disable_interrupts(); schedule(0, registers) up to its loop.
Reschedule ==
  /\ mode = "kernel" /\ kpc = "armed"
  /\ registers' = [registers EXCEPT ![current] = frame[current]]
  /\ kernel_mode' = [kernel_mode EXCEPT ![current] = FALSE]
  /\ stopped' = [stopped EXCEPT ![current] = frame[current].pc]
  /\ mode' = "scan" /\ entry' = [from |-> "call", process |-> current]
  /\ UNCHANGED <<current, cpu, kpc, frame, registers_kernel, blocking,
                 blocking_syscall, queues, sent, got, hit>>

Return ==
  /\ mode = "kernel" /\ kpc = "return"
  /\ cpu' = frame[current]
  /\ mode' = "user"
  /\ UNCHANGED <<entry, current, kpc, frame, pcb, queues, history>>

KernelStep ==
  CallHandler \/ MarkBlocking \/ SetBlockingSyscall \/ Reschedule \/ Return

-----------------------------------------------------------------------------
(* The timer interrupt: schedule_old up to its loop.                       *)

FirstTick ==
  /\ mode = "boot"
  /\ current' = 1
  /\ mode' = "scan" /\ entry' = [from |-> "boot", process |-> NULL]
  /\ UNCHANGED <<cpu, kpc, frame, pcb, queues, history>>

TickInUser ==
  /\ mode = "user"
  /\ registers' = [registers EXCEPT ![current] = cpu]
  /\ kernel_mode' = [kernel_mode EXCEPT ![current] = FALSE]
  /\ stopped' = [stopped EXCEPT ![current] = cpu.pc]
  /\ mode' = "scan" /\ entry' = [from |-> "user", process |-> current]
  /\ UNCHANGED <<current, cpu, kpc, frame, registers_kernel, blocking,
                 blocking_syscall, queues, sent, got, hit>>

\* A plausible slip: the mode the process was stopped in is not recorded.
TickInKernelUnrecorded ==
  /\ mode = "kernel"
  /\ registers_kernel' = [registers_kernel EXCEPT ![current] = kpc]
  /\ stopped' = [stopped EXCEPT ![current] = kpc]
  /\ hit' = IF kpc \in Window THEN hit \cup {current} ELSE hit
  /\ mode' = "scan" /\ entry' = [from |-> "kernel", process |-> current]
  /\ UNCHANGED <<current, cpu, kpc, frame, registers, kernel_mode, blocking,
                 blocking_syscall, queues, sent, got>>

TickInKernel ==
  /\ mode = "kernel"
  /\ registers_kernel' = [registers_kernel EXCEPT ![current] = kpc]
  /\ kernel_mode' = [kernel_mode EXCEPT ![current] = TRUE]
  /\ stopped' = [stopped EXCEPT ![current] = kpc]
  /\ hit' = IF kpc \in Window THEN hit \cup {current} ELSE hit
  /\ mode' = "scan" /\ entry' = [from |-> "kernel", process |-> current]
  /\ UNCHANGED <<current, cpu, kpc, frame, registers, blocking,
                 blocking_syscall, queues, sent, got>>

Tick == FirstTick \/ TickInUser \/ TickInKernel

-----------------------------------------------------------------------------
(* The loop of schedule_old, one process per step, and the load.           *)

\* A plausible slip: the end of the list is not wrapped but held.
NextStays(p) == IF p = N THEN N ELSE p + 1

NextProcess(p) == IF p = N THEN 1 ELSE p + 1

\* A process that was stopped in the kernel is resumed there by the end of an
\* interrupt.  From user code its frame is moved, which :451-456 of
\* kernel_lowlevel.asm looks at.  From the kernel it is not, and the iretd at :500
\* leaves esp on the stack of the process that was interrupted: what comes of that
\* depends on what the loaded process does with its stack before it reloads esp.
Resumes(p) == kernel_mode[p] => entry.from # "call"

\* The end of a system call (:467-479) does not look whether the frame was moved:
\* its iretd takes an eip for the eflags, a cs for the esp and eflags for the ss.
Derails(p) ==
  /\ kernel_mode[p]
  /\ entry.from = "call" \/ (entry.from = "kernel" /\ entry.process # p)

Load(p, user) ==
  /\ current' = p /\ entry' = NoEntry
  /\ kernel_mode' = [kernel_mode EXCEPT ![p] = FALSE]
  /\ \/ /\ Resumes(p) /\ kernel_mode[p]
        /\ mode' = "kernel" /\ kpc' = registers_kernel[p] /\ UNCHANGED cpu
     \/ /\ Resumes(p) /\ ~kernel_mode[p]
        /\ mode' = "user" /\ cpu' = user /\ UNCHANGED kpc
     \/ /\ Derails(p)
        /\ mode' = "lost" /\ UNCHANGED <<cpu, kpc>>
  /\ UNCHANGED <<frame, registers_kernel, history>>

RunReady(p) ==
  /\ ~blocking[p]
  /\ Load(p, registers[p])
  /\ UNCHANGED <<registers, blocking, blocking_syscall, queues>>

\* A plausible slip: the same process is asked again and again.
RecallFailsStays(p) ==
  /\ blocking[p] /\ blocking_syscall[p]
  /\ ReadFails(p)
  /\ UNCHANGED <<mode, entry, current, cpu, kpc, frame, pcb, history>>

\* The recall handler finds nothing: on to the next process.
RecallFails(p) ==
  /\ blocking[p] /\ blocking_syscall[p]
  /\ ReadFails(p)
  /\ current' = p
  /\ UNCHANGED <<mode, entry, cpu, kpc, frame, pcb, history>>

\* A plausible slip: the result is not put into the process's registers.
RecallLosesKey(p) ==
  /\ blocking[p] /\ blocking_syscall[p]
  /\ \E k \in Characters :
       /\ ReadGives(p, k)
       /\ Load(p, registers[p])
  /\ blocking' = [blocking EXCEPT ![p] = FALSE]
  /\ blocking_syscall' = [blocking_syscall EXCEPT ![p] = FALSE]
  /\ UNCHANGED registers

\* A plausible slip: the process stays marked as blocking.
RecallKeepsBlocking(p) ==
  /\ blocking[p] /\ blocking_syscall[p]
  /\ \E k \in Characters :
       /\ ReadGives(p, k)
       /\ registers' = [registers EXCEPT ![p].eax = k]
       /\ Load(p, registers'[p])
  /\ UNCHANGED <<blocking, blocking_syscall>>

RecallSucceeds(p) ==
  /\ blocking[p] /\ blocking_syscall[p]
  /\ \E k \in Characters :
       /\ ReadGives(p, k)
       /\ registers' = [registers EXCEPT ![p].eax = k]
       /\ Load(p, registers'[p])
  /\ blocking' = [blocking EXCEPT ![p] = FALSE]
  /\ blocking_syscall' = [blocking_syscall EXCEPT ![p] = FALSE]

\* blocking_syscall->recall_handler through a null blocking_syscall.
RecallThroughNull(p) ==
  /\ blocking[p] /\ ~blocking_syscall[p]
  /\ current' = p
  /\ mode' = "fault" /\ entry' = NoEntry
  /\ UNCHANGED <<cpu, kpc, frame, pcb, queues, history>>

Scan ==
  /\ mode = "scan"
  /\ LET p == NextProcess(current)
     IN  RunReady(p) \/ RecallFails(p) \/ RecallSucceeds(p)
           \/ RecallThroughNull(p)

\* Whatever a call through address 0 or an iretd through a wrong frame does, the
\* model ends there.
Dead == mode \in {"fault", "lost"}
Halted == Dead /\ UNCHANGED vars

Next ==
  \/ \E p \in Procs : Press(p)
  \/ Trap \/ Consume \/ KernelStep
  \/ Tick
  \/ Scan
  \/ Halted

Spec == Init /\ [][Next]_vars

\* The timer keeps firing, and the CPU executes instructions between ticks.
FairSpec ==
  Spec /\ WF_vars(Scan) /\ SF_vars(Tick) /\ SF_vars(KernelStep) /\ SF_vars(Consume)

-----------------------------------------------------------------------------
TypeOK ==
  /\ mode \in {"boot", "user", "kernel", "scan", "fault", "lost"}
  /\ entry \in [from : {"none", "boot", "user", "kernel", "call"}, process : Procs \cup {NULL}]
  /\ current \in Procs \cup {NULL}
  /\ cpu \in UserContext /\ kpc \in KernelPcs
  /\ frame \in [Procs -> UserContext]
  /\ registers \in [Procs -> UserContext]
  /\ registers_kernel \in [Procs -> KernelPcs]
  /\ kernel_mode \in [Procs -> BOOLEAN]
  /\ blocking \in [Procs -> BOOLEAN]
  /\ blocking_syscall \in [Procs -> BOOLEAN]
  /\ keys \in [Procs -> SUBSET Presses]
  /\ next \in [Procs -> Presses \cup {Nothing}]
  /\ sent \in [Procs -> SUBSET Presses]
  /\ got \in [Procs -> SUBSET (Presses \cup {Garbage})]
  /\ stopped \in [Procs -> UserPcs \cup KernelPcs]
  /\ hit \subseteq Procs

OnCpu(p) == current = p /\ mode \in {"user", "kernel"}

\* Where the code on the CPU is.
CpuPc == IF mode = "user" THEN cpu.pc ELSE kpc

\* A process that gets the CPU goes on where it was stopped: the scheduler loads the
\* right one of its two register sets (schedule.c:350-396, :438-443).  And one that
\* was stopped in its own code is always loaded: only a process in the middle of
\* a system call can be derailed.
ResumesWhereStopped ==
  [][/\ \A p \in Procs : ~OnCpu(p) /\ OnCpu(p)' => CpuPc' = stopped[p]
     /\ mode' = "lost" => stopped[current'] \in KernelPcs]_vars

\* Off the CPU, in the middle of a system call.
InCall(p) == kernel_mode[p] \/ (mode = "lost" /\ current = p)

\* The eax the process will see when it is next in user code.
PendingEax(p) ==
  IF OnCpu(p) THEN IF mode = "user" THEN cpu.eax ELSE frame[p].eax
  ELSE IF InCall(p) THEN frame[p].eax ELSE registers[p].eax

\* Every key typed for a process is in its queue, or on its way in the one
\* eax the process will see, or was seen by it: none is lost between the
\* queue, the recall handler and the copies of the registers, or given twice;
\* a read returns with a key; and what one process suffers from a tick in the
\* window never reaches the keys of another.
KeysConserved ==
  \A p \in Procs \ hit :
    /\ sent[p] \cap Characters = (keys[p] \cup got[p] \cup {PendingEax(p)}) \cap Characters
    /\ keys[p] \cap got[p] = {}
    /\ PendingEax(p) \in Presses => PendingEax(p) \notin keys[p] \cup got[p]
    /\ mode = "user" /\ current = p /\ cpu.pc = "after" => cpu.eax \in Characters

\* A process in user code is not marked as blocking; one marked so off the CPU
\* was stopped behind its call and has its recall handler set, so that the call
\* through it (schedule.c:412) is never one through null, unless the timer hit
\* the window.
BlockedIsRecallable ==
  /\ mode = "user" => ~blocking[current]
  /\ \A p \in Procs \ hit : blocking[p] /\ ~OnCpu(p) =>
       blocking_syscall[p] /\ ~kernel_mode[p] /\ registers[p].pc = "after"
  /\ mode = "fault" => current \in hit

\* keyboard.c:200, "Found character, set the return value inside eax": a process
\* behind a read has a key in eax, whenever the timer ticks.
ReadReturnsKey == mode = "user" /\ cpu.pc = "after" => cpu.eax \in Characters

\* schedule.c:480, "From now on... the new process supposed to be loaded": where a
\* system call that blocks has found another process to run, that process runs.
NewProcessLoaded ==
  [][entry.from = "call" /\ entry' = NoEntry => mode' = "fault" \/ OnCpu(current)']_vars

\* A blocked reader is served when its next read takes a character, unless a key
\* that is none comes in before that, or the kernel dies first.
BlockedReaderServed ==
  \A p \in Readers :
    blocking[p] /\ next[p] \in Characters
      ~> (OnCpu(p) /\ ~blocking[p]) \/ next[p] \in DeadKeys \/ Dead

\* Nobody starves: a process runs again and again, or waits for a key.
NoStarvation == \A p \in Procs : []<>(OnCpu(p) \/ blocking[p] \/ Dead)

\* The scan, which nothing interrupts, finds a process, unless all are blocked and
\* at a free entry of their queues, whatever else these hold: then no key can arrive
\* any more, and the kernel is dead (schedule.c:397).  A process that never
\* reads, as idle, prevents that.
ScanEnds ==
  mode = "scan" ~> mode # "scan" \/ \A p \in Procs : blocking[p] /\ next[p] = Nothing
=============================================================================
