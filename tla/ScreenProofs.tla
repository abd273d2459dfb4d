---------------------------- MODULE ScreenProofs ----------------------------
(***************************************************************************)
(* Proofs about Screen, for any threads, consoles, parts and reach of a    *)
(* copy.                                                                   *)
(***************************************************************************)
EXTENDS Screen, TLAPS

Drawing == {"check", "test", "copy"}

\* A part is copied by the thread on the CPU, with interrupts off from the test
\* on, so that the console it found viewed still is; and it is a part there is.
CopiesViewed ==
  \A t \in Threads :
    /\ at[t] = "copy" => t = current /\ ~interrupts /\ console[t] = viewing
    /\ at[t] \in Drawing => part[t] \in Parts

IInv == TypeOK /\ NeverMixed /\ StaleIsBeingDrawn /\ CopiesViewed

USE DefaultAssumption, LastAssumption, ReachAssumption, WritesAssumption

LEMMA ShownIs ==
  ASSUME NEW x \in Consoles, NEW s \in [Consoles -> [Parts -> Versions]]
  PROVE  /\ Shown(x, s) \in [Parts -> [console : Consoles, version : Versions]]
         /\ \A i \in Parts : Shown(x, s)[i].console = x /\ Shown(x, s)[i].version = s[x][i]
  BY DEF Shown

LEMMA InitIInv == Init => IInv
<1> SUFFICES ASSUME Init PROVE IInv
  OBVIOUS
<1>1. screen \in [Consoles -> [Parts -> Versions]] /\ 0 \in Parts /\ 0 \in 0..Last + 1
  BY DEF Init, Versions, Parts
<1>2. TypeOK
  <2>1. video \in [Parts -> [console : Consoles, version : Versions]]
    BY <1>1, ShownIs DEF Init
  <2>2. interrupts \in BOOLEAN /\ viewing \in Consoles /\ current \in Threads
    BY DEF Init
  <2>3. /\ at \in [Threads -> {"user", "check", "test", "copy", "returned"}]
        /\ console \in [Threads -> Consoles] /\ part \in [Threads -> 0..Last + 1]
    BY <1>1 DEF Init
  <2> QED
    BY <1>1, <2>1, <2>2, <2>3 DEF TypeOK
<1>3. NeverMixed /\ StaleIsBeingDrawn
  <2>1. video = Shown(viewing, screen) /\ viewing \in Consoles
    BY DEF Init
  <2> QED
    BY <1>1, <2>1, ShownIs DEF NeverMixed, StaleIsBeingDrawn
<1>4. CopiesViewed
  <2>1. \A t \in Threads : at[t] = "user"
    BY DEF Init
  <2> QED
    BY <2>1 DEF CopiesViewed, Drawing
<1> QED
  BY <1>2, <1>3, <1>4 DEF IInv

LEMMA PrintPartIInv ==
  ASSUME IInv, NEW x \in Consoles, NEW j \in Parts, PrintPart(x, j)
  PROVE  IInv'
<1>1. /\ at[current] = "user" /\ screen[x][j] < MaxWrites
      /\ screen' = [screen EXCEPT ![x][j] = @ + 1]
      /\ console' = [console EXCEPT ![current] = x]
      /\ part' = [part EXCEPT ![current] = 0]
      /\ at' = [at EXCEPT ![current] = "check"]
      /\ UNCHANGED <<viewing, video, interrupts, current>>
  BY DEF PrintPart, Goto
<1>2. current \in Threads /\ screen[x] \in [Parts -> Versions] /\ screen[x][j] + 1 \in Versions
  BY <1>1 DEF IInv, TypeOK, Versions
<1>3. screen' \in [Consoles -> [Parts -> Versions]]
  BY <1>1, <1>2 DEF IInv, TypeOK
<1>4. TypeOK'
  BY <1>1, <1>3 DEF IInv, TypeOK
<1>5. NeverMixed'
  BY <1>1 DEF IInv, NeverMixed
<1>6. CopiesViewed'
  BY <1>1, <1>2 DEF IInv, TypeOK, CopiesViewed, Drawing, Parts
<1>7. StaleIsBeingDrawn'
  <2> SUFFICES ASSUME NEW i \in Parts, video[i].version # screen'[viewing][i]
               PROVE  \E t \in Threads : /\ console'[t] = viewing /\ at'[t] \in Drawing
                                         /\ part'[t] <= i
    BY <1>1 DEF StaleIsBeingDrawn, Drawing
  <2>1. CASE x = viewing
    BY <1>1, <1>2, <2>1 DEF IInv, TypeOK, Drawing, Parts
  <2>2. CASE x # viewing
    <3>1. screen'[viewing] = screen[viewing]
      BY <1>1, <2>2 DEF IInv, TypeOK
    <3>2. PICK t \in Threads : console[t] = viewing /\ at[t] \in Drawing /\ part[t] <= i
      BY <3>1 DEF IInv, StaleIsBeingDrawn, Drawing
    <3>3. t # current
      BY <1>1, <3>2 DEF Drawing
    <3> QED
      BY <1>1, <3>2, <3>3 DEF IInv, TypeOK
  <2> QED
    BY <2>1, <2>2
<1> QED
  BY <1>4, <1>5, <1>6, <1>7 DEF IInv

\* A step of a thread that copies nothing and goes on only if its console is viewed.
LEMMA LookIInv ==
  ASSUME IInv, Check \/ TestPart \/ Return
  PROVE  IInv'
<1>1. PICK place \in {"test", "copy", "returned", "user"} :
        /\ at' = [at EXCEPT ![current] = place]
        /\ place \in Drawing <=> console[current] = viewing /\ at[current] \in Drawing
        /\ place = "copy" => interrupts' = FALSE
        /\ place \in Drawing => at[current] \in Drawing
  BY DEF Check, TestPart, Return, Goto, Drawing
<1>2. /\ interrupts' \in BOOLEAN /\ current \in Threads /\ at[current] # "copy"
      /\ UNCHANGED <<viewing, screen, video, current, console, part>>
  BY DEF Check, TestPart, Return, IInv, TypeOK
<1>3. TypeOK'
  BY <1>1, <1>2 DEF IInv, TypeOK
<1>4. NeverMixed'
  BY <1>2 DEF IInv, NeverMixed
<1>5. CopiesViewed'
  BY <1>1, <1>2 DEF IInv, TypeOK, CopiesViewed, Drawing
<1>6. StaleIsBeingDrawn'
  <2> SUFFICES ASSUME NEW i \in Parts, video[i].version # screen[viewing][i]
               PROVE  \E t \in Threads : /\ console[t] = viewing /\ at'[t] \in Drawing
                                         /\ part[t] <= i
    BY <1>2 DEF StaleIsBeingDrawn, Drawing
  <2>1. PICK t \in Threads : console[t] = viewing /\ at[t] \in Drawing /\ part[t] <= i
    BY DEF IInv, StaleIsBeingDrawn, Drawing
  <2> QED
    BY <1>1, <1>2, <2>1 DEF IInv, TypeOK
<1> QED
  BY <1>3, <1>4, <1>5, <1>6 DEF IInv

LEMMA CopyPartIInv == ASSUME IInv, CopyPart PROVE IInv'
<1> DEFINE first == part[current]
           place == IF first = Last THEN "returned" ELSE "test"
           new == [i \in Parts |-> IF i \in first..first + Reach - 1
                                   THEN Shown(console[current], screen)[i] ELSE video[i]]
<1>1. /\ at[current] = "copy" /\ video' = new
      /\ part' = [part EXCEPT ![current] = first + 1]
      /\ at' = [at EXCEPT ![current] = place] /\ interrupts' = TRUE
      /\ UNCHANGED <<viewing, screen, current, console>>
  BY DEF CopyPart, Goto
<1>2. current \in Threads /\ console[current] = viewing /\ first \in Parts
  BY <1>1 DEF IInv, TypeOK, CopiesViewed, Drawing
<1>3. /\ Shown(viewing, screen) \in [Parts -> [console : Consoles, version : Versions]]
      /\ \A i \in Parts : /\ Shown(viewing, screen)[i].console = viewing
                          /\ Shown(viewing, screen)[i].version = screen[viewing][i]
  BY ShownIs DEF IInv, TypeOK
<1>4. /\ video' \in [Parts -> [console : Consoles, version : Versions]]
      /\ \A i \in Parts : video'[i] = IF i \in first..first + Reach - 1
                                     THEN Shown(viewing, screen)[i] ELSE video[i]
  BY <1>1, <1>2, <1>3 DEF IInv, TypeOK
<1> HIDE DEF new
<1>5. TypeOK'
  <2>1. first + 1 \in 0..Last + 1 /\ place \in {"test", "returned"}
    BY <1>2 DEF Parts
  <2> QED
    BY <1>1, <1>4, <2>1 DEF IInv, TypeOK
<1>6. NeverMixed'
  BY <1>1, <1>3, <1>4 DEF IInv, NeverMixed
<1>7. CopiesViewed'
  <2>1. \A t \in Threads : at'[t] # "copy"
    BY <1>1 DEF IInv, TypeOK, CopiesViewed
  <2>2. place \in Drawing => first + 1 \in Parts
    BY <1>2 DEF Drawing, Parts
  <2> QED
    BY <1>1, <2>1, <2>2 DEF IInv, TypeOK, CopiesViewed
<1>8. StaleIsBeingDrawn'
  <2> SUFFICES ASSUME NEW i \in Parts, video'[i].version # screen[viewing][i]
               PROVE  \E t \in Threads : /\ console[t] = viewing /\ at'[t] \in Drawing
                                         /\ part'[t] <= i
    BY <1>1 DEF StaleIsBeingDrawn, Drawing
  <2>1. i \notin first..first + Reach - 1 /\ video[i].version # screen[viewing][i]
    BY <1>3, <1>4
  <2>2. PICK t \in Threads : console[t] = viewing /\ at[t] \in Drawing /\ part[t] <= i
    BY <2>1 DEF IInv, StaleIsBeingDrawn, Drawing
  <2>3. CASE t = current
    <3>1. first + 1 <= i /\ place = "test"
      BY <1>2, <2>1, <2>2, <2>3 DEF Parts
    <3> QED
      BY <1>1, <1>2, <2>2, <2>3, <3>1 DEF IInv, TypeOK, Drawing
  <2>4. CASE t # current
    BY <1>1, <2>2, <2>4 DEF IInv, TypeOK
  <2> QED
    BY <2>3, <2>4
<1> QED
  BY <1>5, <1>6, <1>7, <1>8 DEF IInv

-----------------------------------------------------------------------------
\* With interrupts on no part is being copied.
LEMMA NoneCopies == ASSUME IInv, interrupts PROVE \A t \in Threads : at[t] # "copy"
  BY DEF IInv, CopiesViewed

LEMMA TickIInv == ASSUME IInv, NEW t \in Threads, Tick(t) PROVE IInv'
<1>1. /\ interrupts /\ current' = t
      /\ UNCHANGED <<viewing, screen, video, interrupts, at, console, part>>
  BY DEF Tick, thread
<1> QED
  BY <1>1, NoneCopies DEF IInv, TypeOK, NeverMixed, StaleIsBeingDrawn, CopiesViewed

\* What the keyboard interrupt draws, it draws as a whole.
LEMMA RedrawIInv ==
  ASSUME IInv, interrupts, UNCHANGED <<interrupts, current, thread>>,
         viewing' \in Consoles, screen' \in [Consoles -> [Parts -> Versions]],
         video' = Shown(viewing', screen')
  PROVE  IInv'
<1>1. UNCHANGED <<at, console, part, current, interrupts>>
  BY DEF thread
<1>2. /\ video' \in [Parts -> [console : Consoles, version : Versions]]
      /\ \A i \in Parts : /\ video'[i].console = viewing'
                          /\ video'[i].version = screen'[viewing'][i]
  BY ShownIs
<1>3. TypeOK'
  BY <1>1, <1>2 DEF IInv, TypeOK
<1>4. NeverMixed' /\ StaleIsBeingDrawn'
  BY <1>2 DEF NeverMixed, StaleIsBeingDrawn
<1>5. CopiesViewed'
  BY <1>1, NoneCopies DEF IInv, CopiesViewed
<1> QED
  BY <1>3, <1>4, <1>5 DEF IInv

LEMMA ShowConsoleIInv == ASSUME IInv, NEW x \in Consoles, ShowConsole(x) PROVE IInv'
<1>1. interrupts /\ viewing' = x /\ screen' = screen /\ video' = Shown(x, screen)
      /\ UNCHANGED <<interrupts, current, thread>>
  BY DEF ShowConsole
<1>2. screen' \in [Consoles -> [Parts -> Versions]] /\ video' = Shown(viewing', screen')
  BY <1>1 DEF IInv, TypeOK
<1> QED
  BY <1>1, <1>2, RedrawIInv

LEMMA ListProcessesIInv == ASSUME IInv, NEW j \in Parts, ListProcesses(j) PROVE IInv'
<1>1. /\ interrupts /\ screen[Default][j] < MaxWrites
      /\ screen' = [screen EXCEPT ![Default][j] = @ + 1]
      /\ video' = IF viewing = Default THEN Shown(Default, screen') ELSE video
      /\ UNCHANGED <<viewing, interrupts, current, thread>>
  BY DEF ListProcesses
<1>2. screen[Default] \in [Parts -> Versions] /\ screen[Default][j] + 1 \in Versions
  BY <1>1 DEF IInv, TypeOK, Versions
<1>3. screen' \in [Consoles -> [Parts -> Versions]]
  BY <1>1, <1>2 DEF IInv, TypeOK
<1>4. CASE viewing = Default
  BY <1>1, <1>3, <1>4, RedrawIInv DEF IInv, TypeOK
<1>5. CASE viewing # Default
  <2>1. screen'[viewing] = screen[viewing]
    BY <1>1, <1>5 DEF IInv, TypeOK
  <2>2. UNCHANGED <<viewing, video, interrupts, current, at, console, part>>
    BY <1>1, <1>5 DEF thread
  <2> QED
    BY <1>3, <2>1, <2>2 DEF IInv, TypeOK, NeverMixed, StaleIsBeingDrawn, CopiesViewed
<1> QED
  BY <1>4, <1>5

LEMMA NextIInv == ASSUME IInv, [Next]_vars PROVE IInv'
<1>1. CASE UNCHANGED vars
  BY <1>1 DEF vars, thread, IInv, TypeOK, NeverMixed, StaleIsBeingDrawn, CopiesViewed
<1> QED
  BY <1>1, PrintPartIInv, LookIInv, CopyPartIInv, TickIInv, ShowConsoleIInv, ListProcessesIInv
  DEF Next, Update

\* The invariant the theorems below rest on.
THEOREM Invariant == Spec => []IInv
  BY InitIInv, NextIInv, PTL DEF Spec

\* Type correctness, for any number of processes that print.
THEOREM TypeCorrect == Spec => []TypeOK
  BY Invariant, PTL DEF IInv

\* The screen shows one console, however redraws and switches interleave
\* (screen.c:150-160).
THEOREM OneConsoleShown == Spec => []NeverMixed
  BY Invariant, PTL DEF IInv

\* What is out of date on the screen is still to be copied by somebody, though a
\* redraw may be abandoned at any part (screen.c:150-160).
THEOREM StaleWillBeDrawn == Spec => []StaleIsBeingDrawn
  BY Invariant, PTL DEF IInv

\* A thread between disabling and returning stays on the CPU, so that only its own
\* update, of a console not viewed, leaves its caller with interrupts off
\* (screen.c:141-143).
THEOREM FlagIsRecovered == Spec => []InterruptsRecovered
<1>1. Init => InterruptsRecovered
  BY DEF Init, InterruptsRecovered
<1>2. ASSUME IInv, InterruptsRecovered, [Next]_vars PROVE InterruptsRecovered'
  <2>1. current \in Threads /\ at \in [Threads -> {"user", "check", "test", "copy", "returned"}]
    BY <1>2 DEF IInv, TypeOK
  <2>2. ASSUME NEW x \in Consoles, NEW j \in Parts, PrintPart(x, j) PROVE InterruptsRecovered'
    BY <2>1, <2>2 DEF PrintPart, Goto, InterruptsRecovered
  <2>3. CASE Check \/ TestPart
    BY <2>1, <2>3 DEF Check, TestPart, Goto, InterruptsRecovered
  <2>4. CASE CopyPart \/ Return
    <3>1. interrupts'
      BY <2>4 DEF CopyPart, Return
    <3> QED
      BY <3>1 DEF InterruptsRecovered
  <2>5. ASSUME NEW t \in Threads, Tick(t) PROVE InterruptsRecovered'
    BY <2>5 DEF Tick, InterruptsRecovered
  <2>6. ASSUME NEW x \in Consoles, ShowConsole(x) PROVE InterruptsRecovered'
    BY <2>6 DEF ShowConsole, InterruptsRecovered
  <2>7. ASSUME NEW j \in Parts, ListProcesses(j) PROVE InterruptsRecovered'
    BY <2>7 DEF ListProcesses, InterruptsRecovered
  <2>8. CASE UNCHANGED vars
    BY <1>2, <2>8 DEF vars, thread, InterruptsRecovered
  <2> QED
    BY <1>2, <2>2, <2>3, <2>4, <2>5, <2>6, <2>7, <2>8 DEF Next, Update
<1> QED
  BY <1>1, <1>2, Invariant, PTL DEF Spec
=============================================================================
