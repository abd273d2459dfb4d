# A verification development for pwnageOS

pwnageOS is a small 32-bit x86 kernel: a boot loader, descriptor and interrupt
tables, a keyboard driver with a key queue per process, text consoles that
share one screen, a round-robin scheduler with blocking system calls, and the
beginnings of a floppy driver. This directory holds TLA+ models of it, the TLC
runs that check them, and TLAPS proofs of what matters most.

## The system

### Which code runs

In the version modelled, the scheduler is being rewritten. `schedule`
(`schedule.c:315`) is empty, `schedule_old` (`:327`) has the algorithm; the IDT
points at the stubs of `kernel_lowlevel.asm`, whose call of the installed irq
handler is commented out (`:310`), and the gate of the timer at a bare `iretd`
(`:385`). The C dispatcher (`common_irq_handler`), the system-call handler, and
`common_interrupt_handler` in assembly, which calls both, are complete but not
reached from the IDT. There are models of both. `KeyQueue`, `KeyRead`,
`IrqDispatch`, `Scheduler`, `Screen`, `ReadLine` and `Floppy` follow the complete
paths: the keyboard interrupt through `common_irq_handler`, `int 0x21` through
`syscall_handler`, the timer and `schedule()` of `syscall_handler` through
`schedule_old`. `Stubs` follows what the IDT of this version really reaches, and
`BootLoader` and `Processes` what brings the kernel there; these three describe
the kernel as it is built and run.

### Inventory

| component | state | operations | correct when |
|---|---|---|---|
| key queue (`keyboard.c`) | `input_t`: 64 entries, `current_key`, `empty_node` | `insert_keycode_to_queue` (interrupt), `get_char_from_queue` (system call or recall handler) | indices in the buffer; no key lost, doubled, overwritten or mixed with another; a queue that refuses keys can be read |
| keyboard handler and calls (`keyboard.c`) | shift state; the caller's buffer and `edx` | keys, F1/F2 console switch, F3 process list; character and string reads, writes | the key reaches the viewed process; a line read is the line typed, in the buffer and on the screen |
| irq dispatch (`irq.c`) | `g_irq_handlers`, `g_dispatch_irq`, `g_irq_mask`; the controllers' request, in-service and mask registers | `common_irq_handler`, install, mask, EOI | one handler at a time; one EOI per delivery; every request acknowledged; the copy of the mask is the mask |
| scheduler (`schedule.c`) | `g_current_process`, two register sets and flags per process | timer tick, scan with recall handlers, load | a process resumes where it stopped; nobody starves; a blocked one is woken by its event |
| system calls (`syscall.c`) | `g_syscall_table`, `blocking`, `blocking_syscall` | `syscall_handler`, install | a blocking read returns a key |
| processes (`schedule.c`, `gdt.c`, `tss.c`, `main.c`) | the GDT, the TSS table, the process array and list | `create_process`, `create_tss`, the boot order | a listed process is whole; tables survive the second initialisation |
| screen (`screen.c`) | `g_viewing_process`, `console->screen`, video memory | `screen_update`, `show_console` | the display shows one console, and in the end its newest content |
| console text (`screen.c`) | `row`, `column`, cells | `printf`, `print_character`, `calculate_screen_bounds`, `remove_character` | cursor on the screen, header intact, what is printed is where the cursor is |
| interrupt tables (`interrupts.c`) | the IDT, `g_idt_handlers` | install, gates, `atomic_*_interrupts` | the interrupt flag is given back as found |
| stubs (`kernel_lowlevel.asm`) | the frame on the stack, `g_scheduler_fixed_stack` | entry, report, EOI, return; stack fix-up | what was interrupted goes on as it was; the EOI is for the own line |
| floppy, DMA (`floppy.c`, `dma.c`) | `g_floppy_pending`, `g_sense_interrupt`; DMA channel registers | reset, seek, read, recalibrate; `dma_start` | a wait ends; a retry starts clean; a transfer is set up from any state |
| memory, strings (`memory.c`, `string.c`) | none | `memset`, `memcpy`; `strcpy`, `strstr`, ... | they do what is asked (`memset` and `memcpy` do not) |
| boot loader (`bootloader.asm`, `boot.asm`) | registers, the segment the files go to | directory lookup, BIOS reads, jump, move to high memory | the whole kernel is where it is jumped to; the loader ends |

Interaction: a key press enters through `common_irq_handler`, which calls
`keyboard_handler`, which inserts into the key queue of the viewed process or
switches consoles. A process reads with `int 0x21`: the handler looks into its
queue; when that is empty the process is marked as blocked and scheduled away,
and the scheduler's scan calls the recall handler, which looks again. Printing
changes the console of a process and copies it to the video memory if it is
viewed.

Hard behaviour: the gates are trap gates, so handlers are interrupted by other
devices and by the timer, which leaves everything alone while a device handler
is dispatched; system calls run with interrupts enabled, recall handlers and
the scheduler with interrupts off; a queue is written by the interrupt and read
by the process without a lock; the redraw of a screen gives interrupts a chance
between its parts; the flag that disables interrupts is global and some paths
leave it as they should not.

## Modules

| module | models | state and actions |
|---|---|---|
| `KeyRing` | `insert_keycode_to_queue`, `get_char_from_queue` | operators on the record `input_t`: `Insert`, `Get`. A press is a number, its shift state a second byte of the entry; a character made of one press's code and another's shift state is `Mixed`. Cell `KEY_QUEUE_SIZE` is the first byte of `process->name`, which follows the buffer and which the code looks at |
| `KeyMailbox` | what a reader may rely on | a set of unread presses, and which of them the next read takes, if any: `TakeIn`, `Drop` (only when the next read takes one), `Deliver` (leaves the index at one of the others, or at none although others wait) |
| `KeyQueue` | one queue, insertions and reads not overlapping | `Press`, `Read`; refines `KeyMailbox` |
| `KeyRead` | the queue of `KeyQueue` (`EXTENDS`), with the interrupt between any two accesses of a read | one action per load, store or test of `get_char_from_queue`; the compiler does not optimise (`Makefile:9`), so each mention of `current_key` is an access of its own: the test, the look at the shift state, the look at the keycode and each of the two stores load it anew (the module says which neighbours are one step, and why nothing can tell). History: `accepted`, `raced` and `skipped`, whether a key came in where it costs one (`Costs`), or where it is left behind |
| `IrqDispatch` | `common_irq_handler`, with the 8259 controllers, the CPU's flag and the timer | `at[i]` is where the activation of line `i` stands, `on[i]` on whose kernel stack; `Raise`, `Deliver`, `Tick` and one action per step of the function |
| `Stubs` | the gates and assembly stubs as built, `main`'s calls that concern lines and masks, the first 8259, exceptions | the stack as a sequence of words, a sequence of activations, the controllers' registers and the kernel's copy of the mask; `ConfigurePic`, `EnableIrq`, `InstallIrqHandler`, `Raise`, `Deliver`, `Fault`, and one action per part of a stub |
| `Scheduler` | `schedule_old`, `syscall_handler`, the character read | a context is its place in the code and its `eax`; a queue is its keys and the one at its index; `entry` is where the scan was entered from, which decides whether the load of a process stopped in the kernel resumes it or ends in a wrong frame (`Resumes`, `Derails`); `Trap`, the steps of `syscall_handler`, `Tick`, and the scan one process at a time |
| `Screen` | `screen_update`, `show_console` | the content of a part is a version; a step is a part; `PrintPart`, `Check`, `TestPart`, `CopyPart`, `Return`, and the interrupts |
| `Console` | `printf` and what it calls, `remove_character` | one action per character, newline and backspace on a grid of cells |
| `ReadLine` | the string read with echo, on top of `Console` (`EXTENDS`) | the caller's buffer with what `memcpy` writes to it, `edx`, `eax`; `Call`, `Letter`, `Echo`, `Backspace`, `Enter`; between reads the process prints (`Prints`) |
| `Floppy` | `floppy_syscall_read` and what it calls, with the floppy controller | `pc` is a part of the driver and a place in it; one action per access to the flag, register write, command and wait, and the `Report` in front of the wait of a read, with the interrupt flag it leaves (`disabled`); `ResetDone`, `MoveDone`, `Interrupt` |
| `Dma` | `dma_start` and the registers of an 8237 | the operator `DmaStart` on a controller's state; `Floppy` applies it (`DmaSetUp`) |
| `Processes` | tables, list, boot order, console switches | one action per call of `main`, `create_process` any number of times |
| `BootLoader` | `bootloader.asm`, `boot.asm` | memory and disk in sectors; `ReadDirectory`, `Found`, `NotFound`, `ReadFile` (one sector), `Retry`, `Jump`, `Move`; the floppy may be taken out (`TakeOut`) |
| `MCBootLoader` | - | the set of floppies for TLC |
| `IrqDispatchProofs`, `StubsProofs`, `SchedulerProofs`, `ScreenProofs`, `ReadLineProofs`, `FloppyProofs` | - | theorems and proofs about the module of the same name |
| `KeyReadProofs` | - | the same for `KeyQueue` and `KeyRead` |
| `BootProofs` | - | the same for `Processes` and `BootLoader` |

Definitions keep the names of the source where there is one (`current_key`,
`registers_kernel`, `row_header`). Operators commented as a plausible slip
(`GetKeepsEntry`, `TickInKernelUnrecorded`, ...) are not part of any
specification: they are wrong versions of the definition they stand before, used
to see that a property notices the difference.

`Scheduler` uses the abstract view of the key queue - the unread keys and which
one is at the index, read in one step - which `KeyQueue` implements as long as
reads and insertions do not overlap (`ImplementsMailbox`): a read fails whenever
the index stands on a free entry, though older keys wait, and the index may do so
behind any read. Where they do overlap, `KeyRead` says what remains: a read is
still as good as one step of `KeyQueue` until a key comes in where it costs one or
is left behind (`AtomicUnlessHit`), and always when it is made by a recall
handler, with interrupts off.

`Scheduler` takes each process to make its calls on a kernel stack of its own.
`create_process` gives it one (`process->kernel_stack`, `schedule.c:277`), but the
lines that would put it into the TSS at a switch are commented out
(`schedule.c:472-476`), and what `common_interrupt_handler` writes there at each
entry (`kernel_lowlevel.asm:411`) is the stack it finds; the TSS is not loaded in
this version. Where a switch from one place in the kernel to another leaves the
stack pointer on the stack of the process that was interrupted, what comes of it
depends on what the loaded process does before it reloads `esp`: the model allows
both, that it goes on and that it does not.

## Runs

| run | checks | shows |
|---|---|---|
| `key_queue` | `ImplementsMailbox` | without overlap the queue is a mailbox: it loses nothing, mixes nothing, and refuses a key only when the next read takes one |
| `key_read` | `IndexInPlace`, `LossNeedsRace`, `StuckNeedsSkip`, `AtomicUnlessHit` | with the interrupt anywhere, the index stays in the buffer, a read that saw a key takes one, a key is lost or mixed with another only when one comes in between the two looks at an entry, with the other shift state, or between the second look and the release, and the queue gets stuck only when one comes in while the index is moved; until then a read is a step of `KeyQueue` |
| `irq` | `DispatchExclusive`, `OnlyInterruptersDropped`, `InServiceMatchesStacks`, `EventuallyAcknowledged` | the unlocked flag excludes handlers from each other; every delivery gets its EOI, in the end |
| `stubs` | `ReturnsWhereInterrupted`, `AcksOwnLine`, `MaskIsCopied`, `TimerSilences` | the stubs undo what they push and acknowledge their own line, for irqs and for exceptions with and without an error code, however they nest; after the first tick nothing is delivered |
| `scheduler` | `ResumesWhereStopped`, `KeysConserved`, `BlockedIsRecallable`, `BlockedReaderServed`, `NoStarvation`, `ScanEnds` | a process that gets the CPU goes on where it stopped; keys and blocking go together, outside one window; the scan ends unless every process is blocked at a free entry of its queue |
| `scheduler_window` | `ReadReturnsKey`, violated | a tick inside the window makes a read return without a key |
| `scheduler_frame` | `NewProcessLoaded`, violated | a blocking call that finds a process the timer stopped in its own call does not load it |
| `screen` | `NeverMixed`, `StaleIsBeingDrawn`, `InterruptsRecovered`, `PrintedShowsUp` | interrupted and overlapping redraws end with the right screen; they give the interrupt flag back but for a console that is not viewed |
| `console` | `PrintsAtCursor`, `EmptyBehindCursor`, `LineInBuffer`, `EchoShowsLine`, `PromptStays` | cursor and place of printing stay together, but for two named cases; a line read is what was typed and not taken back, in the buffer and on the screen, and backspaces stop at the prompt |
| `floppy` | `SpinsInterruptibly`, `CommandsStartClean`, `WaitEndsWithOwnInterrupt`, `TransferSetUp`, `MovesEnd` | late resets, failed calls and retries leave neither a stale interrupt nor a controller in the middle of a command, no wait begins with interrupts off but the one of a read behind its `printf`, and a transfer is set up the same from any state of the DMA controller |
| `processes` | `LinkedHaveTss`, `ListIsNewestFirst`, `StacksBelowVideo`, `ViewedIsLinked` | what is on the process list is whole and the viewed process is on it, for all table sizes tried and wherever `create_process` fails |
| `boot` | `KernelWhole`, `BootSurvives`, `BootEnds` | a kernel of at most 63 KB, in one piece and in the first sector of the directory, is whole where it is jumped to, whatever reads failed; the loader ends unless the floppy is gone |

The runs that are violated each show one disagreement between the code and its
comments; they are described in PROJECT.json under "findings". Type invariants
are not among the runs: they are part of the invariants that are proved
(`TypeCorrect`, `Invariant` and the like, below).

### Bounds

* Keys: `KEY_QUEUE_SIZE = 4` instead of 64, `MaxPresses = 7`, `Shifted = {1, 2, 5, 7}`:
  neighbours with the same shift state and with different ones. The queue has a
  first, a last and inner entries, fills up, refuses, and the read index wraps. The
  proofs hold for all sizes and numbers.
* `Irqs = {1, 6, 12}`: the keyboard, the floppy, and a line of the second
  controller; three priorities nest to depth three. Two threads are enough for a
  switch away from an activation and back. Lines beyond these differ by their
  place in the order only.
* `Stubs`: the three lines that are ever enabled, `Lines = {0, 1, 6}`, and one
  exception of each kind, `Faults = {3, 13, 17}`: without an error code, with one,
  and the last that has one. `MaxDepth = 3` activations: an irq in an exception
  in an irq. The proofs have no bound.
* `Scheduler`: `N = 2` processes that both read, so that all can be blocked; one
  key with a character and one without (`DeadKeys`). A process that never blocks
  is the case in which a reader does not read. The refusal of a full queue is
  left to `KeyQueue`. `scheduler_frame` has two keys, so that one reader can be in
  its call while the other's blocks.
* `Last = 2`, `Reach = 2`, `MaxWrites = 1`: three parts instead of 200, a copy
  that reaches into the next part (in the code into the next three, because
  `memcpy` counts in `ulong_t`), each part printed on once, so a part is old or
  new. Two consoles and two processes.
* `Floppy` has the retries of the code, 3 and 10; one caller, since the kernel
  has one process and the driver no lock. Both kinds of controller, with and
  without the interrupt gate of the digital output register, are initial states,
  and so are different remainders in the DMA controller.
* The console is 4 by 3: the header row, a first, an inner and a last row. A line
  has at most `MaxLine = 6` letters, two screen rows; how far the prompt has
  scrolled up is counted up to `MaxLine`.
* The tables: 150 combinations of sizes around the point where one of them is
  the first to run out; the code has 16, 30 and 30.
* `BootLoader`: a segment of 8 sectors of 3 bytes instead of 128 of 512, 3 sectors
  a track, 2 heads, 4 cylinders. The 480 floppies of `MCBootLoader` have each
  file listed or not, split or not, boot files of one and two sectors, and
  kernels of every length that matters: 0, one sector, a full and a partial last
  sector, up to the end of the segment, over it, up to and over the 16 bits of
  the size. A listed file has room on the disk.

### Deadlock

Deadlock is not checked in `scheduler_window` and `scheduler_frame`, each
looked at for one safety property only. Every other run checks it; where the code really stops
(`infinite_loop()`, a call through a null pointer, a write outside a buffer) the
model has an explicit step that does nothing (`Loop`, `Ended`, `Halted`,
`Overrun`) and nothing is said of what follows.

### Fairness

* `IrqDispatch`: strong fairness of the steps of an activation and of the switch
  to each thread. The CPU executes instructions between two interrupts, and
  `schedule_old` goes round the list. It is strong because the timer takes an
  activation off the CPU and puts it back again and again. No fairness on
  devices: nothing has to arrive.
* `Scheduler`: weak fairness of the scan (nothing interrupts it), strong fairness
  of the timer and of the steps of a process, for the same reason. No fairness on
  `Trap` or `Press`: a process need not read and nobody need type.
* `Floppy`: weak fairness of the driver, of the end of what the controller has
  begun, and of the delivery of its request. A process in a system call is never
  blocked, so it gets the CPU. Not for `Call`: nobody need read.
* `Screen`: strong fairness of a process's update while it is on the CPU, and of
  the switch to each process. That the scheduler comes back to each process is
  what `NoStarvation` checks in `Scheduler`, for those that are not blocked.
* `BootLoader`: weak fairness of the loader's steps that succeed: as long as the
  floppy is there, not every retry of a read fails. None for `TakeOut`.

`Stubs`, `KeyQueue`, `KeyRead`, `ReadLine` and `Processes` state no fairness:
nothing in them is promised to happen.

## What the models show of the code

* The key queue is not a queue. Each insertion moves the read index to the new
  key (`keyboard.c:53`), so keys are read last first, and older ones only when
  the index comes around to them.
* The branch for the end of the buffer (`keyboard.c:56`) is never taken. After
  entry 63 the code looks at entry 64, which is the name of the process; all
  processes have one, so the queue is full, and from then on it takes one key
  at a time, into the entry the last read gave back. `NameStaysIntact` is the
  proof that the name is at least not overwritten.
* "So in the next call we read the next char" (`keyboard.c:108`) is not so: behind
  a read the index may stand on a free entry while older keys wait, and the next
  read finds nothing until a new key comes in.
* A read made with interrupts enabled can lose keys in two places
  (`LossNeedsRace`). A key let in between the look at the shift state and the look
  at the keycode (`keyboard.c:89-95`), each of which loads the index anew, makes
  the read return the new key's code in the old key's shift state, and the old
  key waits where the index no longer is; if both keys have the same shift state
  nothing can tell. A key let in behind that and before the entry is given back
  (`:95-106`) is cleared or written over. A read that has found a key always
  returns one.
* There is a third place, where a key let in costs more than itself: while the
  read moves the index on (`keyboard.c:109`, `:115`). The read then leaves the
  index behind the new key. If that key filled the queue and there is nothing
  where the index now points, every further key is refused while the reader
  finds none, for ever (`StuckNeedsSkip`). Away from these
  places an interrupted read is as good as an uninterrupted one
  (`AtomicUnlessHit`).
* A blocking call that finds a process the timer stopped in the middle of its own
  call loads nothing (`NewProcessLoaded`, violated): `schedule_old` moves the frame,
  and the path by which a system call returns does not look whether it was moved
  (`kernel_lowlevel.asm:467-479`). The timer's path does. The kernel ends there;
  every liveness property of `Scheduler` has this as an exception, `Dead`. What is
  left is that only a process in a call can be derailed, never one in its own code
  (`ResumesWhereStopped`).
* The test and set of `g_dispatch_irq` (`irq.c:161-165`) without a lock is not a
  race: whoever comes between has a higher priority and is done before. What it
  costs is that such a request is thrown away.
* The stubs fit together although their table misses the one of vector 47: each
  later number is one too high, and `dec ebx` in `common_irq_handler` takes it
  off again (`AcksOwnLine`). The gate of the timer returns without an EOI, so
  that from the first tick on the controller delivers nothing: a kernel of this
  version is deaf to its keyboard (`TimerSilences`).
* A system with only blocked readers is dead when the index of each stands on a free
  entry of its queue, also though older keys wait behind it: the scan runs with
  interrupts off, a failed read does not move the index, and the key that could
  end it cannot arrive. `ScanEnds` has it as its one exception.
* `screen_update` may be interrupted and abandoned at any part, and the screen is
  right in the end, also though `memcpy` writes four parts for each one.
* `atomic_disable_interrupts` returns a state "which could be recovered using
  atomic_enable_interrupts" (`interrupts.h:101`), but an update of a console that is
  not viewed returns in between (`screen.c:141-143`), and its caller goes on with
  interrupts off (the exception of `InterruptsRecovered`).
* The same `memcpy` writes three bytes too many behind each letter of a line that
  is read: the next letter covers them, and three bytes behind the caller's line
  are lost (`LineInBuffer`).
* The two initialisations of the descriptor tables (`main.c:51`, `:73`) are
  harmless only since `memset` clears one byte (`memory.c:17`). The mutant of
  `LinkedHaveTss` is a `memset` that works.
* A floppy read never returns. The array for its command has eight bytes, one
  fewer than are written to it (`floppy.c:342`) and than the controller wants, so
  the last wait does not end; on a controller with the interrupt gate not even
  the first does, because turning on the motor clears that gate (`:129`). Before
  that point the protocol of waits is sound, and a read repeated as a recall
  handler is always turned back at the reset. While the last wait lasts the timer
  may still run the other processes, but not if System's console is not the one
  viewed: what is printed in front of the wait then leaves interrupts off
  (`SpinsInterruptibly` names it as its exception), and the whole machine stands still. `Floppy` has no step behind the
  wait of the read: no behaviour of the code gets there.
* `dma_start` ignores the address it is given and writes one half of it, so that
  the bytes of the length come out swapped (`TransferSetUp` says with what the
  registers are left; it is at least always the same).
* `Console`: two cases are exceptions in the properties. A backspace in column 0
  leaves the cursor behind the last column; the character printed next goes into
  the following row, with the cursor one cell behind. A string that runs over
  the end of the last row leaves `console->screen` and writes over the cursor's
  own `row`.
* The boot loader: `int 13` at its start is number 13, not 13h, and resets
  nothing. A failed read is tried again without bound. Only the first sector of
  the directory is searched and the FAT is never read, so a file must be in one
  piece. A kernel of up to 126 sectors is whole, one of 127 is cut but leaves the
  boot file alone, and 128 overwrite it; a size that is a multiple of 64 KB
  counts down from 0 and never ends.

## Proofs

The theorems hold for every value of the constants that the named assumptions
of the modules admit. None of the invariants checked by the runs is inductive
on its own, apart from simple ones; each proof module defines `IInv`, proves
that it holds initially and is preserved by each action (one lemma per action,
one step per part that the action can disturb), and derives the properties from
it. The theorem `Invariant` of each module is `Spec => []IInv`; the two modules that
are about two specifications name theirs after them (`QueueInvariant`,
`ReadInvariant`; `ProcessesInvariant`, `LoaderInvariant`).

`KeyReadProofs` (any `KEY_QUEUE_SIZE`, `MaxPresses`), about `KeyQueue`:

* `IndicesStayInBuffer`, `NameStaysIntact`, `FullQueueIsReadable`.
  `FullIsReadable` needs to know that a full queue's read gives back the entry it
  took, and that the index points at a key; `TypeOK` needs that the entry behind
  the last is not free. `QueueInv` adds `FreeEntry` (the entry the next key goes
  to is free) and `TypedOnce` (a press is in one entry, and none is there that
  was not typed).
* `QueueImplementsMailbox`: each step maps to a step of the mailbox or a
  stutter. A dropped press maps to `Drop`, allowed only when the next read takes
  one, which is `FullIsReadable`; a read maps to `Deliver`, and `TypedOnce` says
  that the press read is then no longer pending. That a read returns the press as
  it was typed is in `Paired`: both bytes of an entry are of the same press.

and about `KeyRead`:

* `IndexStaysInPlace`, `LossNeedsTheRace`. `ReadInv` adds
  `TypedOnce` and `Standing`, what the entry the read is at holds and which shift
  state it was read with, as long as no key was let in where it costs one.
* `StuckNeedsTheSkip`. `FullIsReadable` holds in the middle of a read in another
  form at each of its steps; `NotStuck` lists them.
* `ReadsAreAtomicUnlessHit`: the refinement of `KeyQueue`, with one step lemma per
  access. The key in the read's hands counts as unread until the entry is given
  back; `Settled` undoes the clearing of its two bytes until then, and moves the
  index at once from then on. A key let in between the two looks with the shift
  state of the one before it counts as if it had come before the read.

`IrqDispatchProofs` (any lines and threads):

* `HandlersExclude`, `EveryEoiMatches`, `DroppedOutranks`. Exclusion is not
  inductive: an activation that has found the flag clear and not yet set it must
  know that no other will set it meanwhile. `EnteringIsInterrupted` says that an
  active handler beside it outranks it on the same stack and so is done before
  it goes on; `DroppedOnSameStack` ties a dropped request to the handler under it.
* `LowestNeverDropped`: the line that all others outrank is never dropped.

`StubsProofs` (any lines of the first controller but the cascade's, any
exceptions, any depth): `ReturnsHome`, `AcksItsLine`, `CopyIsMask`,
`SilentAfterTick`. To know what an `iretd` finds on the stack one has to know all
that is under it, so `Layout` describes the whole stack: there is a sequence of
ever smaller stacks, each with the words of one activation on the next. Three
lemmas carry it over the three ways in which activations change (`PushShape`,
`GoShape`, `IretShape`). `Registers` says whose values the registers hold,
`Serving` that an irq whose stub has not acknowledged it is in service, in one
activation only, and has a handler, and `Masks` that a device's line is not unmasked
before its handler is installed (line 0, the timer's, is: `interrupts.c:102` comes
before `main.c:80`, but its gate never acknowledges). That the timer's vector never gets to an
acknowledgement is in `Paths`.

`SchedulerProofs` (any processes, readers, keys): `ContextsKept`,
`BlockedCanBeRecalled`, `KeysAreConserved`, `UnhitReadReturnsKey`. `IInv` gives
each process a place in the code and a user context, wherever the two are kept
at the moment, one that was derailed included, and says of a process at each place (`Whole`, and `Unhit` if the
timer never caught it in the window) what its flags, its `eax` and its keys are. `ContextsKept` is an action property:
a process that gets the CPU was stopped at the place it stands at, a switch does
not change the place, and one that goes wrong is out of a place in the kernel
(`LoadIs`).
`UnhitReadReturnsKey` is the other side of the run that is violated: a read of a
process that was not caught in the window returns a key.

`ScreenProofs` (any threads, consoles, parts, reach, writes): `OneConsoleShown`,
`StaleWillBeDrawn`, `FlagIsRecovered`. `IInv` adds `CopiesViewed`: a thread that copies is on the
CPU with interrupts off and draws for the viewed console.

`ReadLineProofs` (any size of screen, letters, length of a line): `HeaderStays`,
`PrintsWhereCursorIs`, `NothingBehindCursor`, `BufferHoldsLine`, and type
correctness of `Console`. `Place` says where the cursor that a backspace left
behind the last column can be; `LineInv` that `edx` is the length of the line.
Each step of `ReadLine` is a step of `Console` or leaves it alone.
`EchoShowsTheLine` and `PromptIsKept` relate the screen to the history of the
line across scrolls. `EchoInv` counts how far the cursor is ahead of where the
line should have brought it (`Drift`): never behind, but by the one cell that a
character printed behind the last column costs, and then the prompt is the start
of a row, which no backspace passes. `Shown` says that there is a character in
every cell between the prompt and the cursor.

`FloppyProofs` (any numbers of retries): `SpinsWithInterrupts`,
`CommandsToCleanController`, `NoStaleInterrupt`, `TransferIsSetUp`. `InStep` says
for each place of the driver what state the controller, the flag and the request
are in; `TurnedBack` that a call by the scheduler does not get past the check of
its reset; `Rounds` which loop is in which round; `Reached` that nothing is printed
before the wait of a read, the one exception of `SpinsWithInterrupts`.

`BootProofs`, about `Processes` (tables of any sizes, `create_process` any number
of times): `ScheduledHaveTss`, `ListRunsNewestFirst`, `StacksStayBelowVideo`,
`ViewedStaysLinked`. The entry and the TSS of a process point at each other, and
the entry is none of those the second initialisation writes (`Paired`,
`SegmentsFirst`). The entries of the GDT are handed out in order (`InOrder`), so
they rise with the ids and stay ahead of them by the segments (`EntriesFall`),
which is what bounds the stacks. An id is skipped when `create_process` fails
after it has taken one; the list is without a gap because that happens only when
a table is full, and so for good (`IdsCount`).

and about `BootLoader` (floppies of any geometry, files of any sizes):
`KernelIsWhole`, `BootFileSurvives`. `Reading` says that sector, count and slot
go together while a file is read, the slot round the end of the segment;
`KernelStands` and `BootStands` what is in the segment by then. Two lemmas are
about the loader's arithmetic: `CountIsSectors`, that the shifts of a size give
its number of sectors, and `ReadsWhatIsMeant`, that sector, head and cylinder
given to the BIOS are those of the sector meant. A count that begins at 0
comes to an end behind the disk only, so the loading of a file of 64 KB never ends.

All of them include type correctness.

Only model-checked is liveness under fairness, which the prover does not reach:
`EventuallyAcknowledged`, `BlockedReaderServed`, `NoStarvation`, `ScanEnds`,
`PrintedShowsUp`, `MovesEnd`, `BootEnds`. Every other property of a run that
passes is stated by a theorem. Some theorems are of formulas no run has as its
own: `NameIntact` and `FullIsReadable` of `KeyQueue`, which the run of `KeyRead`
has as parts of `IndexInPlace` and `StuckNeedsSkip`, and `HeaderIntact`.

## Not modelled, and why

* The echo inside the scan: the echo of a recall handler prints, and the redraw
  may let interrupts in while the scheduler is scanning (`keyboard.c:237`). What
  happens then depends on the stack a nested timer finds, on `g_tss`, which is
  never loaded, and on an entry that is not reached in this version.
  `ReadLine` has the echo, run to its end.
* Two processes in the floppy driver: the kernel creates one process, and the
  read never returns. The reading of a sector's data, the detection of drives
  and the parts of the driver nobody calls (specify, motor off).
* `disable_irq`, `uninstall_irq_handler`, `uninstall_interrupt_handler`, `dma_stop`,
  `gotoxy`, `free_gdt_entry`: never called.
* The table `g_idt_handlers`: filled, and looked up by nothing in this version.
  The table of system calls: filled once before the first call.
* The instructions of the stack fix-up with `g_scheduler_fixed_stack` in
  `common_interrupt_handler`. `Scheduler` has its result: the choice between the
  two register sets, and the switches whose frame is not put right; it ends where
  the CPU returns through a wrong frame.
* Shift state and scan codes choose a character. `KeyRing` has the shift state as
  a byte of its own, set by the press; the other models tell letter, newline,
  backspace and none apart. The character read with echo is a shorter string read.
* `string.c`: nothing but `strlen` is called, by `draw_header`, and none of it has
  state.
* `io.c`, build files, bit layouts of descriptors, colours, formatting of
  numbers: no state or no behaviour that a property is about.

## Plan

In the order of importance; all are done but the last.

1. Key queue: `KeyRing`, `KeyMailbox`, `KeyQueue`, `KeyRead`; proofs.
2. Irq dispatch: `IrqDispatch`; proofs.
3. Scheduler and blocking calls: `Scheduler`; proofs.
4. Screen: `Screen`, `Console`; proofs.
5. Tables and boot: `Processes`; proofs.
6. Floppy and DMA: `Floppy`, `Dma`; proofs.
7. The stubs, the frames they push and pop, the controllers' service and mask
   registers, the order in which lines are enabled: `Stubs`; proofs.
8. String reads with echo: `ReadLine`; proofs.
9. Boot loader: `BootLoader`; proofs.
10. Reads as steps of the queue: `KeyRead` refines `KeyQueue`, one access after the other;
    proofs.
11. Once the new scheduler replaces `schedule_old`: its model, the nested entry
    through `common_interrupt_handler` with a loaded TSS, and then the echo
    inside the scan.
