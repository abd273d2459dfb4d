-------------------------- MODULE SchedulerProofs --------------------------
(***************************************************************************)
(* Proofs about Scheduler, for any number of processes, readers among them *)
(* and keys.                                                               *)
(***************************************************************************)
EXTENDS Scheduler, TLAPS

\* Where a process stands, and the user context it will go on with: on the CPU,
\* in the frame of its system call, or in process->registers.
Place(p) ==
  IF OnCpu(p) THEN CpuPc
  ELSE IF InCall(p) THEN registers_kernel[p] ELSE registers[p].pc

Context(p) ==
  IF OnCpu(p) THEN IF mode = "user" THEN cpu ELSE frame[p]
  ELSE IF InCall(p) THEN frame[p] ELSE registers[p]

\* Of every process, also of one the timer stopped in the window.
Whole(p) ==
  /\ Place(p) \in KernelPcs => Context(p).pc = "after"
  /\ OnCpu(p) => ~kernel_mode[p]
  /\ Place(p) \in {"run", "call", "failed", "return"} => ~blocking[p]
  /\ OnCpu(p) /\ mode = "user" => ~blocking[p]
  /\ ~OnCpu(p) => stopped[p] = Place(p)

\* Of a process it did not: it is blocked from MarkBlocking until its recall
\* handler has a key, off the CPU with its handler set, and its eax is a key
\* exactly behind a read that has one.
Unhit(p) ==
  /\ ~OnCpu(p) => Place(p) \notin Window
  /\ Place(p) \in Window => blocking[p]
  /\ Place(p) = "armed" => blocking_syscall[p]
  /\ ~OnCpu(p) /\ blocking[p] => blocking_syscall[p] /\ Place(p) = "after"
  /\ Context(p).eax \in Characters
       <=> Place(p) = "return" \/ (Place(p) = "after" /\ ~blocking[p])
  /\ Context(p).eax \in Characters \cup {Garbage}
  /\ got[p] \subseteq Characters /\ keys[p] \subseteq sent[p]
  /\ sent[p] \cap Characters = (keys[p] \cup got[p] \cup {Context(p).eax}) \cap Characters
  /\ keys[p] \cap got[p] = {}
  /\ Context(p).eax \notin keys[p] \cup got[p]

IInv ==
  /\ TypeOK
  /\ current = NULL => mode = "boot"
  /\ mode = "fault" => current \in hit
  /\ \A p \in Procs : next[p] \in keys[p] \cup {Nothing}
  /\ \A p \in Procs : Whole(p)
  /\ \A p \in Procs \ hit : Unhit(p)

USE ProcessesAssumption, PressesAssumption

LEMMA InitIInv == Init => IInv
  BY DEF Init, IInv, TypeOK, Whole, Unhit, Place, Context, OnCpu, InCall, CpuPc, Start,
     UserContext, UserPcs, KernelPcs, NULL, Garbage, Nothing, NoEntry, Window, Procs, Presses,
     Characters

\* A read takes one of the keys, and leaves the index at one of the others or at none.
LEMMA ReadIs ==
  ASSUME IInv, NEW p \in Procs, NEW k \in Presses, ReadGives(p, k)
  PROVE  /\ k \in keys[p] /\ keys'[p] = keys[p] \ {k}
         /\ \A q \in Procs : q # p => keys'[q] = keys[q] /\ next'[q] = next[q]
         /\ keys' \in [Procs -> SUBSET Presses] /\ next' \in [Procs -> Presses \cup {Nothing}]
         /\ \A q \in Procs : next'[q] \in keys'[q] \cup {Nothing}
<1>1. k \in keys[p]
  BY DEF IInv, ReadGives, Presses, Nothing
<1>2. /\ keys' = [keys EXCEPT ![p] = keys[p] \ {k}]
      /\ \E n \in (keys[p] \ {k}) \cup {Nothing} : next' = [next EXCEPT ![p] = n]
  BY DEF ReadGives
<1> QED
  BY <1>1, <1>2 DEF IInv, TypeOK

\* A read that fails takes no character.
LEMMA FailIs ==
  ASSUME IInv, NEW p \in Procs, ReadFails(p)
  PROVE  /\ keys'[p] \in SUBSET keys[p] /\ keys'[p] \cap Characters = keys[p] \cap Characters
         /\ \A q \in Procs : q # p => keys'[q] = keys[q] /\ next'[q] = next[q]
         /\ keys' \in [Procs -> SUBSET Presses] /\ next' \in [Procs -> Presses \cup {Nothing}]
         /\ \A q \in Procs : next'[q] \in keys'[q] \cup {Nothing}
<1>1. CASE UNCHANGED queues
  BY <1>1 DEF queues, IInv, TypeOK
<1>2. CASE \E k \in DeadKeys : ReadGives(p, k)
  <2>1. PICK k \in DeadKeys : ReadGives(p, k)
    BY <1>2
  <2>2. k \in Presses /\ k \notin Characters
    BY DEF Presses, Characters
  <2> QED
    BY <2>1, <2>2, ReadIs
<1> QED
  BY <1>1, <1>2 DEF ReadFails

\* A process that is off the CPU and left alone stays as it is.
LEMMA OthersKeep ==
  ASSUME NEW p \in Procs, ~OnCpu(p), ~OnCpu(p)',
         registers'[p] = registers[p], registers_kernel'[p] = registers_kernel[p],
         InCall(p)' = InCall(p), blocking'[p] = blocking[p],
         blocking_syscall'[p] = blocking_syscall[p], frame'[p] = frame[p],
         keys'[p] = keys[p], sent'[p] = sent[p], got'[p] = got[p],
         stopped'[p] = stopped[p]
  PROVE  (Whole(p) => Whole(p)') /\ (Unhit(p) => Unhit(p)')
<1>1. Place(p)' = Place(p) /\ Context(p)' = Context(p)
  BY DEF Place, Context
<1> QED
  BY <1>1 DEF Whole, Unhit

LEMMA PressIInv == ASSUME IInv, NEW q \in Procs, Press(q) PROVE IInv'
<1>1. PICK k \in Presses \ Typed :
        /\ keys' = [keys EXCEPT ![q] = @ \cup {k}]
        /\ next' = [next EXCEPT ![q] = k]
        /\ sent' = [sent EXCEPT ![q] = @ \cup {k}]
  BY DEF Press
<1>2. UNCHANGED <<mode, entry, current, cpu, kpc, frame, pcb, got, stopped, hit>>
  BY DEF Press
<1>3. TypeOK' /\ \A p \in Procs : next'[p] \in keys'[p] \cup {Nothing}
  BY <1>1, <1>2 DEF IInv, TypeOK, pcb
<1>4. \A p \in Procs : Place(p)' = Place(p) /\ Context(p)' = Context(p) /\ OnCpu(p)' = OnCpu(p)
  BY <1>2 DEF Place, Context, OnCpu, InCall, CpuPc, pcb
<1>5. \A p \in Procs : Whole(p)'
  BY <1>2, <1>4 DEF IInv, Whole, pcb
<1>6. ASSUME NEW p \in Procs \ hit' PROVE Unhit(p)'
  <2>1. Unhit(p)
    BY <1>2 DEF IInv
  <2>2. CASE p = q
    <3>1. keys'[p] = keys[p] \cup {k} /\ sent'[p] = sent[p] \cup {k}
      BY <1>1, <2>2 DEF IInv, TypeOK
    <3>2. k \notin sent[p]
      BY <1>1 DEF Typed
    <3>3. k \notin keys[p] \cup got[p] \cup {Context(p).eax}
      BY <2>1, <3>2 DEF Unhit, Garbage, Presses, Characters
    <3> QED
      BY <1>2, <1>4, <2>1, <3>1, <3>3 DEF Unhit, pcb
  <2>3. CASE p # q
    <3>1. keys'[p] = keys[p] /\ sent'[p] = sent[p]
      BY <1>1, <2>3 DEF IInv, TypeOK
    <3> QED
      BY <1>2, <1>4, <2>1, <3>1 DEF Unhit, pcb
  <2> QED
    BY <2>2, <2>3
<1> QED
  BY <1>2, <1>3, <1>5, <1>6 DEF IInv

\* A step of the running process, which leaves those off the CPU alone.
LEMMA RunningIInv ==
  ASSUME IInv, mode \in {"user", "kernel"}, current' = current,
         Trap \/ Consume \/ KernelStep \/ TickInUser \/ TickInKernel
  PROVE  IInv'
<1>1. current \in Procs
  BY DEF IInv, TypeOK
<1>0. /\ frame \in [Procs -> UserContext] /\ frame[current] \in UserContext
      /\ cpu \in UserContext
      /\ cpu.pc \in UserPcs /\ frame[current].pc \in UserPcs
  BY <1>1 DEF IInv, TypeOK, UserContext
<1>2. TypeOK' /\ \A p \in Procs : next'[p] \in keys'[p] \cup {Nothing}
  <2>1. CASE Trap
    BY <1>1, <2>1 DEF IInv, TypeOK, Trap, UserContext, UserPcs, KernelPcs, pcb, queues, history
  <2>2. CASE Consume
    BY <1>1, <2>2 DEF IInv, TypeOK, Consume, Start, UserContext, UserPcs, pcb, queues
  <2>3. CASE CallHandler
    <3>1. kpc' \in KernelPcs /\ UNCHANGED <<mode, entry, current, cpu, pcb, history>>
      BY <2>3 DEF CallHandler, KernelPcs
    <3>2. /\ keys' \in [Procs -> SUBSET Presses] /\ next' \in [Procs -> Presses \cup {Nothing}]
          /\ \A p \in Procs : next'[p] \in keys'[p] \cup {Nothing}
      BY <1>1, <2>3, ReadIs, FailIs DEF CallHandler, Characters
    <3>3. frame' \in [Procs -> UserContext]
      BY <1>1, <1>0, <2>3 DEF CallHandler, UserContext, Characters
    <3> QED
      BY <3>1, <3>2, <3>3 DEF IInv, TypeOK, pcb, history
  <2>4. CASE MarkBlocking \/ SetBlockingSyscall
    BY <1>1, <2>4 DEF IInv, TypeOK, MarkBlocking, SetBlockingSyscall, KernelPcs, queues, history
  <2>5. CASE Reschedule
    BY <1>1, <1>0, <2>5 DEF IInv, TypeOK, Reschedule, queues
  <2>6. CASE Return
    BY <1>1, <1>0, <2>6 DEF IInv, TypeOK, Return, pcb, queues, history
  <2>7. CASE TickInUser
    BY <1>1, <1>0, <2>7 DEF IInv, TypeOK, TickInUser, queues
  <2>8. CASE TickInKernel
    BY <1>1, <2>8 DEF IInv, TypeOK, TickInKernel, queues
  <2> QED
    BY <2>1, <2>2, <2>3, <2>4, <2>5, <2>6, <2>7, <2>8 DEF KernelStep
<1>3. ASSUME NEW p \in Procs, p # current
      PROVE  Whole(p)' /\ (p \notin hit' => Unhit(p)')
  <2>1. ~OnCpu(p) /\ ~OnCpu(p)'
    BY <1>3 DEF OnCpu
  <2>2. hit' \in {hit, hit \cup {current}} /\ sent' = sent
    BY DEF Trap, Consume, KernelStep, CallHandler, MarkBlocking, SetBlockingSyscall,
       Reschedule, Return, TickInUser, TickInKernel, queues, history
  <2>3. /\ registers'[p] = registers[p] /\ registers_kernel'[p] = registers_kernel[p]
        /\ kernel_mode'[p] = kernel_mode[p] /\ blocking'[p] = blocking[p]
        /\ blocking_syscall'[p] = blocking_syscall[p]
    BY <1>3 DEF IInv, TypeOK, Trap, Consume, KernelStep, CallHandler, MarkBlocking,
       SetBlockingSyscall, Reschedule, Return, TickInUser, TickInKernel, pcb
  <2>4. frame'[p] = frame[p] /\ keys'[p] = keys[p] /\ got'[p] = got[p] /\ stopped'[p] = stopped[p]
    <3>1. CASE CallHandler
      BY <1>1, <1>3, <3>1, ReadIs, FailIs DEF IInv, TypeOK, CallHandler, Characters, history
    <3>2. CASE ~CallHandler
      BY <1>3, <3>2 DEF IInv, TypeOK, Trap, Consume, KernelStep, MarkBlocking,
         SetBlockingSyscall, Reschedule, Return, TickInUser, TickInKernel, queues, history
    <3> QED
      BY <3>1, <3>2
  <2>5. InCall(p)' = InCall(p)
    BY <1>3, <2>3 DEF InCall
  <2> QED
    BY <2>1, <2>2, <2>3, <2>4, <2>5, OthersKeep DEF IInv
<1>4. ASSUME NEW p \in Procs, p = current
      PROVE  Whole(p)' /\ (p \notin hit' => Unhit(p)')
  <2>1. Whole(p) /\ (p \notin hit => Unhit(p)) /\ OnCpu(p)
    BY <1>4 DEF IInv, OnCpu
  <2>2. CASE Trap
    <3>1. /\ Place(p) = "run" /\ Place(p)' = "call" /\ OnCpu(p)' /\ mode' = "kernel"
          /\ Context(p) = cpu /\ Context(p)' = [pc |-> "after", eax |-> Garbage]
      BY <1>4, <2>1, <2>2 DEF Trap, OnCpu, InCall, CpuPc, Place, Context, IInv, TypeOK
    <3> QED
      BY <1>4, <2>1, <2>2, <3>1 DEF Trap, Whole, Unhit, Window, Garbage, Presses, Characters, KernelPcs,
         pcb, queues, history
  <2>3. CASE Consume
    <3>1. /\ Place(p) = "after" /\ Place(p)' = "run" /\ OnCpu(p)' /\ mode' = "user"
          /\ Context(p) = cpu /\ Context(p)' = Start
          /\ got'[p] = got[p] \cup {cpu.eax} /\ ~blocking[p]
      BY <1>4, <2>1, <2>3 DEF Consume, OnCpu, InCall, CpuPc, Place, Context, IInv, TypeOK, Start, Whole
    <3>2. Garbage \notin Characters /\ Garbage \notin keys[p] /\ Start.eax = Garbage /\ Start.pc = "run"
      BY DEF IInv, TypeOK, Garbage, Presses, Characters, Start
    <3> QED
      BY <1>4, <2>1, <2>3, <3>1, <3>2 DEF Consume, Whole, Unhit, Window, KernelPcs, pcb, queues
  <2>4. CASE CallHandler /\ kpc' = "failed"
    <3>1. /\ Place(p) = "call" /\ Place(p)' = "failed" /\ OnCpu(p)' /\ mode' = "kernel"
          /\ Context(p)' = Context(p)
          /\ ReadFails(p)
      BY <1>4, <2>1, <2>4 DEF CallHandler, OnCpu, InCall, CpuPc, Place, Context, pcb
    <3>2. keys'[p] \in SUBSET keys[p] /\ keys'[p] \cap Characters = keys[p] \cap Characters
      BY <1>4, <3>1, FailIs
    <3> QED
      BY <1>4, <2>1, <2>4, <3>1, <3>2 DEF CallHandler, Whole, Unhit, Window, KernelPcs, pcb, queues, history
  <2>5. CASE CallHandler /\ kpc' = "return"
    <3>1. PICK k \in Characters : ReadGives(p, k) /\ frame' = [frame EXCEPT ![p].eax = k]
      BY <1>4, <2>5 DEF CallHandler
    <3>2. /\ Place(p) = "call" /\ Place(p)' = "return" /\ OnCpu(p)' /\ mode' = "kernel"
          /\ Context(p) = frame[p] /\ Context(p)' = [frame[p] EXCEPT !.eax = k]
      BY <1>4, <2>1, <2>5, <3>1 DEF CallHandler, OnCpu, InCall, CpuPc, Place, Context, IInv, TypeOK
    <3>3. Context(p)'.pc = Context(p).pc /\ Context(p)'.eax = k
      BY <1>4, <1>0, <3>2 DEF UserContext
    <3>4. keys'[p] = keys[p] \ {k} /\ k \in keys[p]
      BY <1>4, <3>1, ReadIs DEF Characters
    <3> QED
      BY <1>4, <2>1, <2>5, <3>2, <3>3, <3>4 DEF CallHandler, Whole, Unhit, Window, Garbage, Presses,
         Characters, KernelPcs, pcb, queues, history
  <2>6. CASE MarkBlocking
    <3>1. /\ Place(p) = "failed" /\ Place(p)' = "marked" /\ OnCpu(p)' /\ mode' = "kernel"
          /\ Context(p)' = Context(p) /\ blocking'[p]
      BY <1>4, <2>1, <2>6 DEF MarkBlocking, OnCpu, InCall, CpuPc, Place, Context, IInv, TypeOK
    <3> QED
      BY <1>4, <2>1, <2>6, <3>1 DEF MarkBlocking, Whole, Unhit, Window, KernelPcs, queues, history
  <2>7. CASE SetBlockingSyscall
    <3>1. /\ Place(p) = "marked" /\ Place(p)' = "armed" /\ OnCpu(p)' /\ mode' = "kernel"
          /\ Context(p)' = Context(p) /\ blocking_syscall'[p]
      BY <1>4, <2>1, <2>7 DEF SetBlockingSyscall, OnCpu, InCall, CpuPc, Place, Context, IInv, TypeOK
    <3> QED
      BY <1>4, <2>1, <2>7, <3>1 DEF SetBlockingSyscall, Whole, Unhit, Window, KernelPcs, queues, history
  <2>8. CASE Reschedule
    <3>1. /\ Place(p) = "armed" /\ Place(p)' = frame[p].pc /\ ~OnCpu(p)'
          /\ Context(p) = frame[p] /\ Context(p)' = frame[p] /\ stopped'[p] = frame[p].pc
      BY <1>4, <2>1, <2>8 DEF Reschedule, OnCpu, InCall, CpuPc, Place, Context, IInv, TypeOK
    <3>2. frame[p].pc = "after"
      BY <2>1, <3>1 DEF Whole, KernelPcs
    <3> QED
      BY <1>4, <2>1, <2>8, <3>1, <3>2 DEF Reschedule, Whole, Unhit, Window, KernelPcs, queues
  <2>9. CASE Return
    <3>1. /\ Place(p) = "return" /\ Place(p)' = frame[p].pc /\ OnCpu(p)' /\ mode' = "user"
          /\ Context(p) = frame[p] /\ Context(p)' = frame[p]
      BY <1>4, <2>1, <2>9 DEF Return, OnCpu, InCall, CpuPc, Place, Context
    <3>2. frame[p].pc = "after" /\ ~blocking[p]
      BY <2>1, <3>1 DEF Whole, KernelPcs
    <3> QED
      BY <1>4, <2>1, <2>9, <3>1, <3>2 DEF Return, Whole, Unhit, Window, KernelPcs, pcb, queues, history
  <2>10. CASE TickInUser
    <3>1. /\ Place(p) = cpu.pc /\ Place(p)' = cpu.pc /\ ~OnCpu(p)' /\ cpu.pc \in UserPcs
          /\ Context(p) = cpu /\ Context(p)' = cpu /\ stopped'[p] = cpu.pc
      BY <1>4, <1>0, <2>1, <2>10 DEF TickInUser, OnCpu, InCall, CpuPc, Place, Context, IInv, TypeOK
    <3> QED
      BY <1>4, <2>1, <2>10, <3>1 DEF TickInUser, Whole, Unhit, Window, KernelPcs, UserPcs, queues
  <2>11. CASE TickInKernel
    <3>1. /\ Place(p) = kpc /\ Place(p)' = kpc /\ ~OnCpu(p)' /\ kpc \in KernelPcs
          /\ Context(p)' = Context(p) /\ stopped'[p] = kpc
          /\ p \notin hit' => p \notin hit /\ kpc \notin Window
      BY <1>4, <2>1, <2>11 DEF TickInKernel, OnCpu, InCall, CpuPc, Place, Context, IInv, TypeOK
    <3> QED
      BY <1>4, <2>1, <2>11, <3>1 DEF TickInKernel, Whole, Unhit, Window, KernelPcs, queues
  <2> QED
    BY <2>2, <2>3, <2>4, <2>5, <2>6, <2>7, <2>8, <2>9, <2>10, <2>11 DEF KernelStep, CallHandler
<1>5. mode' # "fault"
  BY DEF Trap, Consume, KernelStep, CallHandler, MarkBlocking, SetBlockingSyscall,
     Reschedule, Return, TickInUser, TickInKernel
<1> QED
  BY <1>2, <1>3, <1>4, <1>5, <1>1 DEF IInv, NULL, Procs

LEMMA BootIInv == ASSUME IInv, FirstTick PROVE IInv'
<1>1. TypeOK'
  BY DEF IInv, TypeOK, FirstTick, pcb, queues, history, Procs, NULL
<1>2. ASSUME NEW p \in Procs PROVE Whole(p)' /\ (p \notin hit' => Unhit(p)')
  <2>1. ~OnCpu(p) /\ ~OnCpu(p)' /\ InCall(p)' = InCall(p)
    BY DEF FirstTick, OnCpu, InCall, pcb
  <2> QED
    BY <2>1, OthersKeep DEF FirstTick, IInv, pcb, queues, history
<1> QED
  BY <1>1, <1>2 DEF IInv, FirstTick, NULL, queues

\* What a load leaves: the process goes on where it stood with what it had, or is
\* derailed out of the middle of its call.
LEMMA LoadIs ==
  ASSUME IInv, mode = "scan", NEW p \in Procs, NEW user \in UserContext, Load(p, user)
  PROVE  /\ mode' \in {"user", "kernel", "lost"} /\ current' = p
         /\ entry' = NoEntry /\ cpu' \in UserContext /\ kpc' \in KernelPcs
         /\ kernel_mode' \in [Procs -> BOOLEAN] /\ ~kernel_mode'[p]
         /\ \A q \in Procs : q # p => kernel_mode'[q] = kernel_mode[q]
         /\ Place(p)' = IF kernel_mode[p] THEN registers_kernel[p] ELSE user.pc
         /\ Context(p)' = IF kernel_mode[p] THEN frame[p] ELSE user
         /\ mode' = "user" <=> ~kernel_mode[p]
         /\ OnCpu(p)' <=> mode' # "lost"
<1>1. /\ current' = p /\ entry' = NoEntry
      /\ kernel_mode' = [kernel_mode EXCEPT ![p] = FALSE]
      /\ UNCHANGED <<frame, registers_kernel>>
  BY DEF Load
<1>2. /\ kernel_mode' \in [Procs -> BOOLEAN] /\ ~kernel_mode'[p]
      /\ \A q \in Procs : q # p => kernel_mode'[q] = kernel_mode[q]
  BY <1>1 DEF IInv, TypeOK
<1>3. CASE kernel_mode[p] /\ mode' = "kernel" /\ kpc' = registers_kernel[p] /\ UNCHANGED cpu
  BY <1>1, <1>2, <1>3 DEF Place, Context, OnCpu, InCall, CpuPc, IInv, TypeOK
<1>4. CASE ~kernel_mode[p] /\ mode' = "user" /\ cpu' = user /\ UNCHANGED kpc
  BY <1>1, <1>2, <1>4 DEF Place, Context, OnCpu, InCall, CpuPc, IInv, TypeOK
<1>5. CASE kernel_mode[p] /\ mode' = "lost" /\ UNCHANGED <<cpu, kpc>>
  BY <1>1, <1>2, <1>5 DEF Place, Context, OnCpu, InCall, CpuPc, IInv, TypeOK
<1> QED
  BY <1>3, <1>4, <1>5 DEF Load, Derails

\* What a recall that finds a key leaves, before the load.
LEMMA RecallIs ==
  ASSUME IInv, NEW p \in Procs, RecallSucceeds(p)
  PROVE  \E k \in Characters :
           /\ ReadGives(p, k) /\ Load(p, registers'[p])
           /\ registers' \in [Procs -> UserContext]
           /\ registers'[p].pc = registers[p].pc /\ registers'[p].eax = k
           /\ \A q \in Procs : q # p => registers'[q] = registers[q]
           /\ blocking[p] /\ ~blocking'[p]
           /\ blocking' \in [Procs -> BOOLEAN] /\ blocking_syscall' \in [Procs -> BOOLEAN]
           /\ \A q \in Procs : q # p => /\ blocking'[q] = blocking[q]
                                        /\ blocking_syscall'[q] = blocking_syscall[q]
<1>1. PICK k \in Characters :
        /\ ReadGives(p, k)
        /\ registers' = [registers EXCEPT ![p].eax = k]
        /\ Load(p, registers'[p])
  BY DEF RecallSucceeds
<1>2. /\ registers[p] \in UserContext /\ [registers[p] EXCEPT !.eax = k] \in UserContext
      /\ [registers[p] EXCEPT !.eax = k].pc = registers[p].pc
      /\ [registers[p] EXCEPT !.eax = k].eax = k
  BY DEF IInv, TypeOK, UserContext, Characters
<1>3. /\ registers' \in [Procs -> UserContext]
      /\ registers'[p].pc = registers[p].pc /\ registers'[p].eax = k
      /\ \A q \in Procs : q # p => registers'[q] = registers[q]
  BY <1>1, <1>2 DEF IInv, TypeOK
<1>4. /\ blocking[p] /\ ~blocking'[p]
      /\ blocking' \in [Procs -> BOOLEAN] /\ blocking_syscall' \in [Procs -> BOOLEAN]
      /\ \A q \in Procs : q # p => /\ blocking'[q] = blocking[q]
                                   /\ blocking_syscall'[q] = blocking_syscall[q]
  BY DEF RecallSucceeds, IInv, TypeOK
<1> QED
  BY <1>1, <1>3, <1>4

LEMMA ScanIInv == ASSUME IInv, Scan PROVE IInv'
<1>0. PICK p \in Procs : p = NextProcess(current)
  BY DEF IInv, TypeOK, Scan, NextProcess, Procs, NULL
<1>1. p # NULL /\ registers[p] \in UserContext
  BY DEF Procs, NULL, IInv, TypeOK
<1>2. mode = "scan" /\ current' = p /\ UNCHANGED <<frame, registers_kernel, history>>
  BY <1>0 DEF Scan, RunReady, RecallFails, RecallSucceeds, RecallThroughNull, Load, pcb
<1>3. /\ RunReady(p) \/ RecallFails(p) \/ RecallSucceeds(p) \/ RecallThroughNull(p)
      /\ \A q \in Procs : ~OnCpu(q) /\ (InCall(q) <=> kernel_mode[q])
      /\ Whole(p) /\ (p \notin hit => Unhit(p))
  BY <1>0, <1>2 DEF Scan, OnCpu, InCall, IInv
<1>4. /\ Place(p) = IF kernel_mode[p] THEN registers_kernel[p] ELSE registers[p].pc
      /\ Context(p) = IF kernel_mode[p] THEN frame[p] ELSE registers[p]
  BY <1>3 DEF Place, Context
<1>5. ASSUME TypeOK', \A q \in Procs : next'[q] \in keys'[q] \cup {Nothing},
             mode' = "fault" => current' \in hit',
             \A q \in Procs : q # p => /\ registers'[q] = registers[q]
                                       /\ kernel_mode'[q] = kernel_mode[q]
                                       /\ blocking'[q] = blocking[q]
                                       /\ blocking_syscall'[q] = blocking_syscall[q]
                                       /\ keys'[q] = keys[q],
             Whole(p)', p \notin hit' => Unhit(p)'
      PROVE  IInv'
  <2>1. ASSUME NEW q \in Procs, q # p
        PROVE  Whole(q)' /\ (q \notin hit' => Unhit(q)')
    <3>1. ~OnCpu(q) /\ ~OnCpu(q)' /\ InCall(q)' = InCall(q)
      BY <1>2, <1>3, <1>5, <2>1 DEF OnCpu, InCall
    <3> QED
      BY <1>2, <1>5, <2>1, <3>1, OthersKeep DEF IInv, history
  <2> QED
    BY <1>1, <1>2, <1>5, <2>1 DEF IInv
<1>6. CASE RunReady(p)
  <2>1. Load(p, registers[p]) /\ UNCHANGED <<registers, blocking, blocking_syscall, queues>>
    BY <1>6 DEF RunReady
  <2>2. TypeOK'
    BY <1>1, <1>2, <2>1, LoadIs DEF IInv, TypeOK, NoEntry, NULL, history, queues
  <2>3. Place(p)' = Place(p) /\ Context(p)' = Context(p) /\ ~blocking[p]
    BY <1>1, <1>2, <1>4, <1>6, <2>1, LoadIs DEF RunReady
  <2>4. Whole(p)' /\ (p \notin hit' => Unhit(p)')
    BY <1>1, <1>2, <1>3, <2>1, <2>3, LoadIs DEF Whole, Unhit, history, queues
  <2> QED
    BY <1>1, <1>2, <1>5, <2>1, <2>2, <2>4, LoadIs DEF IInv, queues
<1>7. CASE RecallFails(p)
  <2>1. ReadFails(p) /\ UNCHANGED <<mode, entry, cpu, kpc, frame, pcb, history>>
    BY <1>7 DEF RecallFails
  <2>2. TypeOK'
    BY <1>2, <2>1, FailIs DEF IInv, TypeOK, pcb, history
  <2>3. Place(p)' = Place(p) /\ Context(p)' = Context(p) /\ ~OnCpu(p)'
    BY <1>2, <1>3, <2>1 DEF OnCpu, InCall, Place, Context, pcb
  <2>4. Whole(p)' /\ (p \notin hit' => Unhit(p)')
    BY <1>2, <1>3, <2>1, <2>3, FailIs DEF Whole, Unhit, pcb, history
  <2> QED
    BY <1>2, <1>5, <2>1, <2>2, <2>4, FailIs DEF IInv, pcb
<1>8. CASE RecallSucceeds(p)
  <2>1. PICK k \in Characters :
           /\ ReadGives(p, k) /\ Load(p, registers'[p])
           /\ registers' \in [Procs -> UserContext]
           /\ registers'[p].pc = registers[p].pc /\ registers'[p].eax = k
           /\ \A q \in Procs : q # p => registers'[q] = registers[q]
           /\ blocking[p] /\ ~blocking'[p]
           /\ blocking' \in [Procs -> BOOLEAN] /\ blocking_syscall' \in [Procs -> BOOLEAN]
           /\ \A q \in Procs : q # p => /\ blocking'[q] = blocking[q]
                                        /\ blocking_syscall'[q] = blocking_syscall[q]
    BY <1>8, RecallIs
  <2>2. k \in Presses /\ registers'[p] \in UserContext
    BY <2>1 DEF Characters
  <2>3. TypeOK'
    BY <1>2, <2>1, <2>2, LoadIs, ReadIs DEF IInv, TypeOK, NoEntry, NULL, history
  <2>4. /\ Place(p)' = Place(p)
        /\ kernel_mode[p] => Context(p)' = Context(p)
        /\ ~kernel_mode[p] => Context(p)' = registers'[p]
    BY <1>2, <1>4, <2>1, <2>2, LoadIs
  <2>5. Whole(p)'
    <3>1. Context(p)'.pc = Context(p).pc
      BY <1>4, <2>1, <2>4
    <3> QED
      BY <1>2, <1>3, <2>1, <2>2, <2>4, <3>1, LoadIs DEF Whole, history
  <2>6. ASSUME p \notin hit' PROVE Unhit(p)'
    <3>1. Unhit(p) /\ Place(p) = "after" /\ blocking_syscall[p]
      BY <1>2, <1>3, <2>1, <2>6 DEF Unhit, history
    <3>2. ~kernel_mode[p] /\ Context(p).eax \notin Characters /\ Context(p)'.eax = k
      BY <1>4, <2>1, <2>4, <3>1 DEF Unhit, IInv, TypeOK, KernelPcs
    <3>3. keys'[p] = keys[p] \ {k} /\ k \in keys[p]
      BY <2>1, <2>2, ReadIs
    <3> QED
      BY <1>2, <2>1, <2>4, <3>1, <3>2, <3>3 DEF Unhit, Window, Garbage, Presses, Characters, history
  <2> QED
    BY <1>1, <1>2, <1>5, <2>1, <2>2, <2>3, <2>5, <2>6, LoadIs, ReadIs
<1>9. CASE RecallThroughNull(p)
  <2>1. /\ UNCHANGED <<cpu, kpc, frame, pcb, queues, history>> /\ mode' = "fault"
        /\ entry' = NoEntry /\ blocking[p] /\ ~blocking_syscall[p]
    BY <1>9 DEF RecallThroughNull
  <2>2. TypeOK'
    BY <1>2, <2>1 DEF IInv, TypeOK, NoEntry, NULL, pcb, queues, history
  <2>3. ~OnCpu(p)' /\ InCall(p)' = InCall(p)
    BY <1>3, <2>1 DEF OnCpu, InCall, pcb
  <2>4. Whole(p)' /\ (p \notin hit' => Unhit(p)')
    BY <1>2, <1>3, <2>1, <2>3, OthersKeep DEF pcb, queues, history
  <2>5. p \in hit
    BY <1>3, <2>1 DEF Unhit
  <2> QED
    BY <1>2, <1>5, <2>1, <2>2, <2>4, <2>5 DEF IInv, pcb, queues, history
<1> QED
  BY <1>3, <1>6, <1>7, <1>8, <1>9

LEMMA NextIInv == ASSUME IInv, [Next]_vars PROVE IInv'
<1>1. CASE Trap \/ Consume \/ KernelStep \/ TickInUser \/ TickInKernel
  <2>1. mode \in {"user", "kernel"} /\ current' = current
    BY <1>1 DEF Trap, Consume, KernelStep, CallHandler, MarkBlocking, SetBlockingSyscall,
       Reschedule, Return, TickInUser, TickInKernel
  <2> QED
    BY <1>1, <2>1, RunningIInv
<1>2. CASE \E p \in Procs : Press(p)
  BY <1>2, PressIInv
<1>3. CASE FirstTick
  BY <1>3, BootIInv
<1>4. CASE Scan
  BY <1>4, ScanIInv
<1>5. CASE UNCHANGED vars
  BY <1>5 DEF IInv, TypeOK, Whole, Unhit, Place, Context, OnCpu, InCall, CpuPc, vars, pcb, queues,
     history
<1> QED
  BY <1>1, <1>2, <1>3, <1>4, <1>5 DEF Next, Tick, Halted

\* The invariant the theorems below rest on: where each process stands, and what
\* it will find in eax there.
THEOREM Invariant == Spec => []IInv
  BY InitIInv, NextIInv, PTL DEF Spec

\* Type correctness of schedule_old and syscall_handler, for any list of processes.
THEOREM TypeCorrect == Spec => []TypeOK
  BY Invariant, PTL DEF IInv

\* A process resumes where it stopped (schedule.c:350-396, :438-443), and the only ones
\* that a switch can derail are in the middle of a system call.
THEOREM ContextsKept == Spec => ResumesWhereStopped
<1>1. IInv /\ [Next]_vars
        => [/\ \A p \in Procs : ~OnCpu(p) /\ OnCpu(p)' => CpuPc' = stopped[p]
            /\ mode' = "lost" => stopped[current'] \in KernelPcs]_vars
  <2> SUFFICES ASSUME IInv, Next, ~UNCHANGED vars
               PROVE  /\ \A p \in Procs : ~OnCpu(p) /\ OnCpu(p)' => CpuPc' = stopped[p]
                      /\ mode' = "lost" => stopped[current'] \in KernelPcs
    OBVIOUS
  <2>1. CASE Scan
    <3>1. PICK p \in Procs : p = NextProcess(current)
      BY DEF IInv, TypeOK, Scan, NextProcess, Procs, NULL
    <3>2. /\ mode = "scan" /\ ~OnCpu(p) /\ registers[p] \in UserContext /\ stopped[p] = Place(p)
          /\ Place(p) = IF kernel_mode[p] THEN registers_kernel[p] ELSE registers[p].pc
          /\ registers_kernel[p] \in KernelPcs
      BY <2>1 DEF Scan, IInv, Whole, OnCpu, InCall, Place, TypeOK
    <3>3. CASE RunReady(p) \/ RecallSucceeds(p)
      <4>1. PICK user \in UserContext : Load(p, user) /\ user.pc = registers[p].pc
        BY <3>2, <3>3, RecallIs DEF RunReady
      <4>2. /\ current' = p /\ Place(p)' = stopped[p] /\ mode' \in {"user", "kernel", "lost"}
            /\ mode' = "lost" => kernel_mode[p]
        BY <3>2, <4>1, LoadIs
      <4> QED
        BY <3>2, <4>2 DEF OnCpu, Place
    <3>4. CASE RecallFails(p) \/ RecallThroughNull(p)
      BY <3>2, <3>4 DEF RecallFails, RecallThroughNull, OnCpu
    <3> QED
      BY <2>1, <3>1, <3>3, <3>4 DEF Scan
  <2>2. CASE FirstTick
    BY <2>2 DEF FirstTick, OnCpu
  <2>3. CASE \E p \in Procs : Press(p)
    BY <2>3 DEF Press, OnCpu
  <2>4. CASE Trap \/ Consume \/ KernelStep \/ TickInUser \/ TickInKernel
    BY <2>4 DEF Trap, Consume, KernelStep, CallHandler, MarkBlocking, SetBlockingSyscall,
       Reschedule, Return, TickInUser, TickInKernel, OnCpu
  <2> QED
    BY <2>1, <2>2, <2>3, <2>4 DEF Next, Tick, Halted
<1> QED
  BY <1>1, Invariant, PTL DEF Spec, ResumesWhereStopped

\* A process in user code is not marked as blocking, one that is blocked can be
\* recalled, and no recall goes through null (schedule.c:412), unless the timer hit the window of syscall.c:39.
THEOREM BlockedCanBeRecalled == Spec => []BlockedIsRecallable
<1>1. IInv => BlockedIsRecallable
  <2> SUFFICES ASSUME IInv PROVE BlockedIsRecallable
    OBVIOUS
  <2>1. mode = "user" => ~blocking[current]
    BY DEF IInv, TypeOK, Whole, OnCpu
  <2>2. ASSUME NEW p \in Procs \ hit, blocking[p], ~OnCpu(p)
        PROVE  blocking_syscall[p] /\ ~kernel_mode[p] /\ registers[p].pc = "after"
    BY <2>2 DEF IInv, TypeOK, Unhit, Place, InCall, KernelPcs
  <2>3. mode = "fault" => current \in hit
    BY DEF IInv
  <2> QED
    BY <2>1, <2>2, <2>3 DEF BlockedIsRecallable
<1> QED
  BY <1>1, Invariant, PTL

\* No key is lost, doubled, or given to another process between the queue, the
\* recall handler and the copies of the registers, outside that window.
THEOREM KeysAreConserved == Spec => []KeysConserved
<1>1. IInv => KeysConserved
  <2> SUFFICES ASSUME IInv, NEW p \in Procs \ hit
               PROVE  /\ sent[p] \cap Characters
                           = (keys[p] \cup got[p] \cup {PendingEax(p)}) \cap Characters
                      /\ keys[p] \cap got[p] = {}
                      /\ PendingEax(p) \in Presses => PendingEax(p) \notin keys[p] \cup got[p]
                      /\ mode = "user" /\ current = p /\ cpu.pc = "after" => cpu.eax \in Characters
    BY DEF KeysConserved
  <2>1. PendingEax(p) = Context(p).eax
    BY DEF PendingEax, Context, OnCpu
  <2>2. mode = "user" /\ current = p => Context(p) = cpu /\ Place(p) = cpu.pc /\ ~blocking[p]
    BY DEF IInv, Whole, Context, Place, OnCpu, CpuPc
  <2> QED
    BY <2>1, <2>2 DEF IInv, Unhit
<1> QED
  BY <1>1, Invariant, PTL

\* A process the timer never stopped in the window returns from its read with a key
\* (keyboard.c:200).
THEOREM UnhitReadReturnsKey ==
  Spec => [](mode = "user" /\ cpu.pc = "after" /\ current \notin hit => cpu.eax \in Characters)
<1>1. IInv => (mode = "user" /\ cpu.pc = "after" /\ current \notin hit => cpu.eax \in Characters)
  BY DEF IInv, TypeOK, Whole, Unhit, Context, Place, OnCpu, CpuPc
<1> QED
  BY <1>1, Invariant, PTL
=============================================================================
