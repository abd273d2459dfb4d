----------------------------- MODULE Processes -----------------------------
(***************************************************************************)
(* The tables behind a process - gdt.c, tss.c, the process list and        *)
(* create_process of schedule.c - and the order in which main.c, schedule.c *)
(* and interrupts.c fill them; then the console switches of screen.c, which *)
(* walk the process list.                                                  *)
(*                                                                         *)
(* Boot runs on one thread with interrupts off, so a call is one step.     *)
(* init_schedule creates "System" and, in calls that are commented out in  *)
(* this version, further processes: the model allows any number of them.   *)
(***************************************************************************)
EXTENDS Sequences, SequencesExt, FiniteSetsExt, Integers

CONSTANTS GdtSizes,      \* NUMBER_OF_GDT_ENTRIES is 16
          TssSizes,      \* NUMBER_OF_TSS_ENTRIES is 30
          ProcessSizes   \* NUMBER_OF_PROCESSES is 30

Segments == 1..4         \* the flat segments of init_gdt
ASSUME SizesAssumption ==
  /\ GdtSizes \subseteq {n \in Nat : n > Max(Segments)}
  /\ TssSizes \subseteq Nat \ {0}
  /\ ProcessSizes \subseteq Nat \ {0}

VARIABLES
  sizes,           \* the sizes of the three tables, fixed
  step,            \* the next call of main, or where boot ended
  gdt,             \* an entry: unused, a segment, a TSS, or allocated only
  tss,             \* an entry: its GDT entry (tss_entry_index), 0 when unused
  process,         \* g_process_list: process_id and tss_entry_index
  list,            \* the slots from g_head_process along next_process
  g_process_id,
  viewing          \* the slot of g_viewing_process

tables == <<gdt, tss, process, list, g_process_id>>
vars == <<sizes, step, tables, viewing>>

Unused == [kind |-> "unused", tss |-> 0]
Segment == [kind |-> "segment", tss |-> 0]
Allocated == [kind |-> "allocated", tss |-> 0]
Descriptor(t) == [kind |-> "tss", tss |-> t]
NoProcess == [id |-> 0, entry |-> 0]

Table(size, blank) == [i \in 0..size - 1 |-> blank]

Init ==
  /\ sizes \in [gdt : GdtSizes, tss : TssSizes, process : ProcessSizes]
  /\ step = "init_gdt"
  /\ gdt = Table(sizes.gdt, Unused)
  /\ tss = Table(sizes.tss, 0)
  /\ process = Table(sizes.process, NoProcess)
  /\ list = <<>>
  /\ g_process_id = 0
  /\ viewing = 0

-----------------------------------------------------------------------------
(* Helpers of the code.                                                    *)

\* A plausible slip, or rather what was meant: the whole table is cleared.
MemsetAll(table, blank) == [i \in DOMAIN table |-> blank]

\* memset never moves its pointer: of a table only the first byte is cleared,
\* and entry 0 is never allocated.
Memset(table, blank) == [table EXCEPT ![0] = blank]

\* The first entry from 1 on that is unused, 0 when there is none.
FirstUnused(table, blank) ==
  LET free == {i \in DOMAIN table \ {0} : table[i] = blank}
  IN  IF free = {} THEN 0 ELSE Min(free)

\* create_tss: the tables after it and the GDT entry it returns, 0 on failure.
\* An allocated GDT entry is not given back when no TSS is left.
CreateTss(g, t) ==
  LET i == FirstUnused(g, Unused)
      j == FirstUnused(t, 0)
  IN  CASE i = 0 -> [entry |-> 0, gdt |-> g, tss |-> t]
        [] i # 0 /\ j = 0 ->
             [entry |-> 0, gdt |-> [g EXCEPT ![i] = Allocated], tss |-> t]
        [] i # 0 /\ j # 0 ->
             [entry |-> i, gdt |-> [g EXCEPT ![i] = Descriptor(j)],
              tss |-> [t EXCEPT ![j] = i]]

\* A plausible slip: a failure of create_tss is not looked at.
CreateProcessUnchecked ==
  LET s == FirstUnused(process, NoProcess)
      made == CreateTss(gdt, tss)
  IN  IF s = 0 THEN UNCHANGED tables
      ELSE /\ g_process_id' = g_process_id + 1
           /\ gdt' = made.gdt
           /\ tss' = made.tss
           /\ process' = [process EXCEPT ![s] =
                            [id |-> g_process_id + 1, entry |-> made.entry]]
           /\ list' = <<s>> \o list

\* A plausible slip: the new process is connected behind the last one.
CreateProcessAtTail ==
  LET s == FirstUnused(process, NoProcess)
      made == CreateTss(gdt, tss)
  IN  IF s = 0 THEN UNCHANGED tables
      ELSE /\ g_process_id' = g_process_id + 1
           /\ gdt' = made.gdt
           /\ tss' = made.tss
           /\ process' = [process EXCEPT ![s] =
                            [id |-> g_process_id + 1, entry |-> made.entry]]
           /\ list' = IF made.entry = 0 THEN list ELSE list \o <<s>>

\* A plausible slip: next_process of the new process is not set.
CreateProcessCutting ==
  LET s == FirstUnused(process, NoProcess)
      made == CreateTss(gdt, tss)
  IN  IF s = 0 THEN UNCHANGED tables
      ELSE /\ g_process_id' = g_process_id + 1
           /\ gdt' = made.gdt
           /\ tss' = made.tss
           /\ process' = [process EXCEPT ![s] =
                            [id |-> g_process_id + 1, entry |-> made.entry]]
           /\ list' = IF made.entry = 0 THEN list ELSE <<s>>

\* A process whose TSS can not be made keeps its slot and its id.
CreateProcess ==
  LET s == FirstUnused(process, NoProcess)
      made == CreateTss(gdt, tss)
  IN  IF s = 0 THEN UNCHANGED tables
      ELSE /\ g_process_id' = g_process_id + 1
           /\ gdt' = made.gdt
           /\ tss' = made.tss
           /\ process' = [process EXCEPT ![s] =
                            [id |-> g_process_id + 1, entry |-> made.entry]]
           /\ list' = IF made.entry = 0 THEN list ELSE <<s>> \o list

-----------------------------------------------------------------------------
(* Boot.                                                                   *)

Call(name, next) == step = name /\ step' = next

\* main.c:51 and, behind the message, again main.c:73.
InitGdt ==
  /\ Call("init_gdt", "init_tss") \/ Call("init_gdt again", "init_tss again")
  /\ gdt' = [i \in DOMAIN gdt |->
               IF i \in Segments THEN Segment ELSE Memset(gdt, Unused)[i]]
  /\ UNCHANGED <<sizes, tss, process, list, g_process_id, viewing>>

InitTss ==
  /\ Call("init_tss", "init_schedule") \/ Call("init_tss again", "running")
  /\ tss' = Memset(tss, 0)
  /\ UNCHANGED <<sizes, gdt, process, list, g_process_id, viewing>>

\* The "System" process; without it main stops in infinite_loop().
InitSchedule ==
  /\ step = "init_schedule"
  /\ CreateProcess
  /\ step' = IF list' = <<>> THEN "stopped" ELSE "create_process"
  /\ UNCHANGED <<sizes, viewing>>

\* The further calls of create_process in init_schedule.
CreateFurther ==
  /\ step = "create_process"
  /\ CreateProcess
  /\ UNCHANGED <<sizes, step, viewing>>

ProcessById(id) ==
  LET found == {i \in DOMAIN list : process[list[i]].id = id}
  IN  IF found = {} THEN 0 ELSE list[Min(found)]

\* init_screen shows the process that init_schedule returned.
InitScreen ==
  /\ Call("create_process", "init_interrupts")
  /\ viewing' = ProcessById(1)
  /\ UNCHANGED <<sizes, tables>>

\* init_idt makes a TSS for the timer.  It does not look at a failure:
\* get_tss then returns whatever was in eax, and init_idt writes through it.
InitInterrupts ==
  /\ step = "init_interrupts"
  /\ LET made == CreateTss(gdt, tss)
     IN  /\ gdt' = made.gdt
         /\ tss' = made.tss
         /\ step' = IF made.entry = 0 THEN "wild write" ELSE "init_gdt again"
  /\ UNCHANGED <<sizes, process, list, g_process_id, viewing>>

-----------------------------------------------------------------------------
(* The console switches (keys F2 and F1).                                  *)

Position(s) == CHOOSE i \in DOMAIN list : list[i] = s

NextShown(s) ==
  IF Position(s) = Len(list) THEN Head(list) ELSE list[Position(s) + 1]

PrevShown(s) ==
  IF s = Head(list) THEN Last(list) ELSE list[Position(s) - 1]

ShowNextConsole ==
  /\ step = "running"
  /\ viewing' = NextShown(viewing)
  /\ UNCHANGED <<sizes, step, tables>>

ShowPrevConsole ==
  /\ step = "running"
  /\ viewing' = PrevShown(viewing)
  /\ UNCHANGED <<sizes, step, tables>>

\* infinite_loop(), or whatever follows a wild write.
Ended == step \in {"stopped", "wild write"} /\ UNCHANGED vars

Next ==
  \/ InitGdt \/ InitTss \/ InitSchedule \/ CreateFurther
  \/ InitScreen \/ InitInterrupts
  \/ ShowNextConsole \/ ShowPrevConsole
  \/ Ended

Spec == Init /\ [][Next]_vars

-----------------------------------------------------------------------------
Linked == ToSet(list)

\* Every process that can be scheduled has a TSS of its own, found through its
\* GDT entry and pointing back to it - also after main has initialised both
\* tables a second time over the live entries (main.c:73-74).
LinkedHaveTss ==
  /\ \A s \in Linked :
       LET i == process[s].entry
       IN  gdt[i].kind = "tss" /\ gdt[i].tss # 0 /\ tss[gdt[i].tss] = i
  /\ \A s, r \in Linked : process[s].entry = process[r].entry => s = r

\* The list runs from the newest process to "System", ids falling by one: a
\* process that failed half-way is not on it and no id is skipped.
ListIsNewestFirst ==
  \A i \in DOMAIN list : process[list[i]].id = Len(list) + 1 - i

\* The user stack of process id ends at 0x90000 + 0x1000 * id (schedule.c:272);
\* it stays below the 0xA0000 of the video adapter as long as id < 16, which
\* nothing but the size of the GDT (16) ensures: there are 30 process slots.
StacksBelowVideo == \A s \in Linked : process[s].id < sizes.gdt

\* From init_screen on, the console that is shown is that of a process on the
\* list: a switch (screen.c:47, :69) starts from it and finds its neighbours, on
\* both ends of the list and whatever was made or failed before.
ViewedIsLinked ==
  step \in {"init_interrupts", "init_gdt again", "init_tss again", "running"}
    => viewing \in Linked
=============================================================================
