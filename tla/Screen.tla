------------------------------- MODULE Screen -------------------------------
(***************************************************************************)
(* screen_update and show_console of src/src/screen.c: several processes   *)
(* print on consoles of their own and copy them, part by part, to the one  *)
(* video memory, while the keyboard interrupt changes the viewed console.  *)
(*                                                                         *)
(* The interrupt's own redraw is one step: the timer does not switch while *)
(* an irq is dispatched.  The model starts when scheduling is enabled      *)
(* (g_scheduling_enabled, set by schedule_old): only then do the           *)
(* atomic_*_interrupts pairs of interrupts.c disable anything.             *)
(***************************************************************************)
EXTENDS Integers

CONSTANTS Threads,    \* processes that print
          Consoles,
          Default,    \* g_default_process->console, where NULL prints go
          Last,       \* the last visible part (199 in screen.c, which copies
                      \* one more, behind what the display shows)
          Reach,      \* parts one memcpy writes: it is told one part in bytes
                      \* and copies as many ulong_t's (memory.c:32), 4 parts
          MaxWrites   \* bound: changes of one console

ASSUME DefaultAssumption == Default \in Consoles
ASSUME LastAssumption == Last \in Nat
ASSUME ReachAssumption == Reach \in Nat \ {0}
ASSUME WritesAssumption == MaxWrites \in Nat

Parts == 0..Last
Versions == 0..MaxWrites

VARIABLES
  viewing,     \* g_viewing_process->console
  screen,      \* console->screen: a version per part
  video,       \* video memory: whose part it shows, and of which version
  interrupts,  \* the interrupt flag
  current,     \* the thread on the CPU
  at,          \* where a thread stands in its system call
  console,     \* console_drawing of its screen_update
  part         \* i of its screen_update

thread == <<at, console, part>>
vars == <<viewing, screen, video, interrupts, current, thread>>

Shown(c, s) == [i \in Parts |-> [console |-> c, version |-> s[c][i]]]

Init ==
  /\ viewing = Default
  /\ screen = [c \in Consoles |-> [i \in Parts |-> 0]]
  /\ video = Shown(Default, screen)
  /\ interrupts = TRUE
  /\ current \in Threads
  /\ at = [t \in Threads |-> "user"]
  /\ console = [t \in Threads |-> Default]
  /\ part = [t \in Threads |-> 0]

Goto(place) == at' = [at EXCEPT ![current] = place]

-----------------------------------------------------------------------------
(* The process on the CPU: printf, then screen_update(console, FALSE).     *)

\* A plausible slip: the redraw starts behind the first part.
PrintSkipsFirst(c, i) ==
  /\ at[current] = "user"
  /\ screen[c][i] < MaxWrites
  /\ screen' = [screen EXCEPT ![c][i] = @ + 1]
  /\ console' = [console EXCEPT ![current] = c]
  /\ part' = [part EXCEPT ![current] = 1]
  /\ Goto("check")
  /\ UNCHANGED <<viewing, video, interrupts, current>>

\* What printf changes of a console lies in one part.
PrintPart(c, i) ==
  /\ at[current] = "user"
  /\ screen[c][i] < MaxWrites
  /\ screen' = [screen EXCEPT ![c][i] = @ + 1]
  /\ console' = [console EXCEPT ![current] = c]
  /\ part' = [part EXCEPT ![current] = 0]
  /\ Goto("check")
  /\ UNCHANGED <<viewing, video, interrupts, current>>

\* A console that is not viewed is not drawn; this return leaves interrupts
\* disabled (screen.c:140-143).
Check ==
  /\ at[current] = "check"
  /\ interrupts' = (console[current] = viewing)
  /\ Goto(IF console[current] = viewing THEN "test" ELSE "returned")
  /\ UNCHANGED <<viewing, screen, video, current, console, part>>

\* A plausible slip: the part is tested with interrupts enabled.
TestPartInterruptible ==
  /\ at[current] = "test"
  /\ interrupts' = TRUE
  /\ Goto(IF console[current] = viewing THEN "copy" ELSE "returned")
  /\ UNCHANGED <<viewing, screen, video, current, console, part>>

TestPart ==
  /\ at[current] = "test"
  /\ interrupts' = (console[current] # viewing)
  /\ Goto(IF console[current] = viewing THEN "copy" ELSE "returned")
  /\ UNCHANGED <<viewing, screen, video, current, console, part>>

\* A plausible slip: interrupts stay off behind the last part.
CopyKeepsDisabled ==
  /\ at[current] = "copy"
  /\ LET i == part[current]
     IN  /\ video' = [video EXCEPT ![i] = Shown(console[current], screen)[i]]
         /\ part' = [part EXCEPT ![current] = @ + 1]
         /\ Goto(IF i = Last THEN "returned" ELSE "test")
         /\ interrupts' = (i # Last)
  /\ UNCHANGED <<viewing, screen, current, console>>

\* memcpy(video_memory+i, console_drawing->screen+i, draw_part).
CopyPart ==
  /\ at[current] = "copy"
  /\ LET i == part[current]  c == console[current]
     IN  /\ video' = [j \in Parts |-> IF j \in i..i + Reach - 1
                                     THEN Shown(c, screen)[j] ELSE video[j]]
         /\ part' = [part EXCEPT ![current] = @ + 1]
         /\ Goto(IF i = Last THEN "returned" ELSE "test")
  /\ interrupts' = TRUE
  /\ UNCHANGED <<viewing, screen, current, console>>

\* The iret of the system call enables interrupts again.
Return ==
  /\ at[current] = "returned"
  /\ interrupts' = TRUE
  /\ Goto("user")
  /\ UNCHANGED <<viewing, screen, video, current, console, part>>

Update == Check \/ TestPart \/ CopyPart \/ Return

-----------------------------------------------------------------------------
(* Interrupts.                                                             *)

Tick(t) ==
  /\ interrupts
  /\ current' = t
  /\ UNCHANGED <<viewing, screen, video, interrupts, thread>>

\* F1, F2: show_next_console, show_prev_console.
ShowConsole(c) ==
  /\ interrupts
  /\ viewing' = c
  /\ video' = Shown(c, screen)
  /\ UNCHANGED <<screen, interrupts, current, thread>>

\* F3: the handler prints the process list on the default console.
ListProcesses(i) ==
  /\ interrupts
  /\ screen[Default][i] < MaxWrites
  /\ screen' = [screen EXCEPT ![Default][i] = @ + 1]
  /\ video' = IF viewing = Default THEN Shown(Default, screen') ELSE video
  /\ UNCHANGED <<viewing, interrupts, current, thread>>

Next ==
  \/ \E c \in Consoles, i \in Parts : PrintPart(c, i)
  \/ Update
  \/ \E t \in Threads : Tick(t)
  \/ \E c \in Consoles : ShowConsole(c)
  \/ \E i \in Parts : ListProcesses(i)

Spec == Init /\ [][Next]_vars

\* The CPU executes instructions between interrupts, and the scheduler comes
\* back to every thread.
FairSpec ==
  /\ Spec
  /\ \A t \in Threads : SF_vars(current = t /\ Update) /\ SF_vars(Tick(t))

-----------------------------------------------------------------------------
TypeOK ==
  /\ viewing \in Consoles
  /\ screen \in [Consoles -> [Parts -> Versions]]
  /\ video \in [Parts -> [console : Consoles, version : Versions]]
  /\ interrupts \in BOOLEAN
  /\ current \in Threads
  /\ at \in [Threads -> {"user", "check", "test", "copy", "returned"}]
  /\ console \in [Threads -> Consoles]
  /\ part \in [Threads -> 0..Last + 1]

\* The screen never shows a mix of consoles, though updates are interrupted
\* by console switches and resumed later (screen.c:150-160).
NeverMixed == \A i \in Parts : video[i].console = viewing

\* A part that still shows an old version is one an update of the viewed
\* console has yet to copy: when nobody draws, the screen is up to date.
StaleIsBeingDrawn ==
  \A i \in Parts : video[i].version # screen[viewing][i] =>
    \E t \in Threads : /\ console[t] = viewing
                       /\ at[t] \in {"check", "test", "copy"}
                       /\ part[t] <= i

\* What was printed on the viewed console shows up, or another is viewed.
PrintedShowsUp ==
  \A c \in Consoles, i \in Parts, v \in Versions \ {0} :
    viewing = c /\ screen[c][i] = v ~> viewing # c \/ video[i].version >= v

\* A screen update gives its caller back the interrupt flag it found, set, on
\* every path but one, the first return of screen.c:143: whoever is returned to
\* with interrupts off had printed on a console that is not viewed.
InterruptsRecovered ==
  at[current] = "returned" => interrupts \/ console[current] # viewing
=============================================================================
