------------------------- MODULE IrqDispatchProofs -------------------------
(***************************************************************************)
(* Proofs about IrqDispatch, for any set of request lines and threads.     *)
(***************************************************************************)
EXTENDS IrqDispatch, TLAPS

\* An activation that has seen the flag clear and not yet set it: a handler
\* running on the same stack interrupted it.
EnteringIsInterrupted ==
  \A i, j \in Irqs :
     at[i] = "enter" /\ at[j] \in Marked /\ on[i] = on[j] => Outranks(j, i)

\* A dropped request interrupted a running handler on the same stack.
DroppedOnSameStack ==
  \A i \in Irqs : at[i] = "drop" =>
     \E j \in Irqs : at[j] \in Marked /\ Outranks(i, j) /\ on[i] = on[j]

IInv ==
  /\ TypeOK
  /\ DispatchExclusive
  /\ InServiceMatchesStacks
  /\ EnteringIsInterrupted
  /\ DroppedOnSameStack

USE IrqsAssumption, BootAssumption

LEMMA RankIsStrict ==
  \A i, j \in Irqs : Outranks(i, j) => ~Outranks(j, i) /\ i # j
  BY DEF Outranks, Line

LEMMA InitIInv == Init => IInv
  BY DEF Init, IInv, TypeOK, DispatchExclusive, InServiceMatchesStacks,
     EnteringIsInterrupted, DroppedOnSameStack, Phases, Marked

LEMMA RaiseIInv == ASSUME IInv, NEW i \in Irqs, Raise(i) PROVE IInv'
  BY DEF Raise, IInv, TypeOK, DispatchExclusive, InServiceMatchesStacks,
     EnteringIsInterrupted, DroppedOnSameStack

LEMMA DeliverIInv == ASSUME IInv, NEW i \in Irqs, Deliver(i) PROVE IInv'
<1>1. at[i] = "none"
  BY RankIsStrict DEF Deliver, IInv, TypeOK, InServiceMatchesStacks
<1>2. /\ at' = [at EXCEPT ![i] = "test"]
      /\ on' = [on EXCEPT ![i] = current]
      /\ isr' = isr \cup {i}
      /\ irr' = irr \ {i}
      /\ UNCHANGED <<waiting, interrupts, dispatching, current>>
  BY DEF Deliver, Goto
<1>3. TypeOK'
  BY <1>2 DEF IInv, TypeOK, Phases
<1>4. /\ at'[i] = "test"
      /\ \A j \in Irqs \ {i} : at'[j] = at[j] /\ on'[j] = on[j]
  BY <1>2 DEF IInv, TypeOK
<1>5. DispatchExclusive'
  BY <1>1, <1>2, <1>4 DEF IInv, DispatchExclusive, Marked
<1>6. InServiceMatchesStacks'
  BY <1>2, <1>4 DEF IInv, InServiceMatchesStacks
<1>7. EnteringIsInterrupted'
  BY <1>1, <1>4 DEF IInv, EnteringIsInterrupted, Marked
<1>8. DroppedOnSameStack'
  BY <1>1, <1>4 DEF IInv, DroppedOnSameStack, Marked
<1> QED
  BY <1>3, <1>5, <1>6, <1>7, <1>8 DEF IInv

LEMMA TickIInv == ASSUME IInv, NEW t \in Threads, Tick(t) PROVE IInv'
<1>1. UNCHANGED <<irr, isr, waiting, dispatching, at, on>>
  BY DEF Tick
<1>2. TypeOK' /\ InServiceMatchesStacks' /\ EnteringIsInterrupted'
      /\ DroppedOnSameStack'
  BY <1>1 DEF Tick, IInv, TypeOK, InServiceMatchesStacks,
     EnteringIsInterrupted, DroppedOnSameStack
<1>3. DispatchExclusive'
  BY <1>1 DEF Tick, IInv, DispatchExclusive
<1> QED
  BY <1>2, <1>3 DEF IInv

LEMMA StepIInv == ASSUME IInv, NEW i \in Irqs, Step(i) PROVE IInv'
<1>1. /\ Top(i) /\ at[i] # "none" /\ on[i] = current
      /\ \A j \in Irqs \ {i} :
           at[j] # "none" /\ on[j] = current => Outranks(i, j)
      /\ on' = on /\ current' = current /\ irr' = irr
  BY DEF Step, Test, Enter, Handle, Leave, Unmark, Ack, Top
<1>2. \E p \in Phases : at' = [at EXCEPT ![i] = p]
  BY DEF Step, Test, Enter, Handle, Leave, Unmark, Ack, Goto, Phases
<1>3. \A j \in Irqs \ {i} : at'[j] = at[j]
  BY <1>2 DEF IInv, TypeOK
<1>4. TypeOK'
  BY <1>1, <1>2 DEF IInv, TypeOK, Step, Test, Enter, Handle, Leave, Unmark, Ack
<1>5. CASE Test(i)
  <2>1. /\ at[i] = "test" /\ dispatching' = dispatching /\ isr' = isr
        /\ at'[i] = IF dispatching THEN "drop" ELSE "enter"
    BY <1>5 DEF Test, Goto, IInv, TypeOK
  <2>2. DispatchExclusive' /\ InServiceMatchesStacks'
    BY <2>1, <1>1, <1>3 DEF IInv, DispatchExclusive, InServiceMatchesStacks, Marked
  <2>3. EnteringIsInterrupted'
    BY <2>1, <1>1, <1>3 DEF IInv, DispatchExclusive, EnteringIsInterrupted, Marked
  <2>4. DroppedOnSameStack'
    <3>1. CASE dispatching
      <4>1. PICK j \in Irqs : at[j] \in Marked
        BY <3>1 DEF IInv, DispatchExclusive
      <4>2. j # i /\ on[j] = current /\ at[j] # "none"
        BY <4>1, <2>1 DEF IInv, DispatchExclusive, Marked
      <4>3. Outranks(i, j) /\ on[i] = on[j]
        BY <4>2, <1>1
      <4> QED
        BY <4>1, <4>2, <4>3, <2>1, <1>1, <1>3 DEF IInv, DroppedOnSameStack, Marked
    <3>2. CASE ~dispatching
      BY <3>2, <2>1, <1>1, <1>3 DEF IInv, DroppedOnSameStack, Marked
    <3> QED
      BY <3>1, <3>2
  <2> QED
    BY <1>4, <2>2, <2>3, <2>4 DEF IInv
<1>6. CASE Enter(i)
  <2>1. /\ at[i] = "enter" /\ dispatching' = TRUE /\ isr' = isr
        /\ at'[i] = "handler"
    BY <1>6 DEF Enter, Goto, IInv, TypeOK
  <2>2. \A j \in Irqs : at[j] \notin Marked
    BY <2>1, <1>1, RankIsStrict DEF IInv, DispatchExclusive,
       EnteringIsInterrupted, Marked
  <2>3. DispatchExclusive' /\ InServiceMatchesStacks'
    BY <2>1, <2>2, <1>1, <1>3 DEF IInv, DispatchExclusive,
       InServiceMatchesStacks, Marked
  <2>4. EnteringIsInterrupted'
    BY <2>1, <2>2, <1>1, <1>3 DEF EnteringIsInterrupted, Marked
  <2>5. DroppedOnSameStack'
    BY <2>1, <2>2, <1>1, <1>3 DEF IInv, DroppedOnSameStack, Marked
  <2> QED
    BY <1>4, <2>3, <2>4, <2>5 DEF IInv
<1>7. CASE Handle(i) \/ Leave(i)
  <2>1. /\ at[i] \in Marked /\ at'[i] \in Marked
        /\ dispatching' = dispatching /\ isr' = isr
    BY <1>7 DEF Handle, Leave, Goto, Marked, IInv, TypeOK
  <2>2. DispatchExclusive' /\ InServiceMatchesStacks'
    BY <2>1, <1>1, <1>3 DEF IInv, DispatchExclusive, InServiceMatchesStacks, Marked
  <2>3. EnteringIsInterrupted' /\ DroppedOnSameStack'
    BY <2>1, <1>1, <1>3 DEF IInv, EnteringIsInterrupted, DroppedOnSameStack, Marked
  <2> QED
    BY <1>4, <2>2, <2>3 DEF IInv
<1>8. CASE Unmark(i)
  <2>1. /\ at[i] \in Marked /\ at'[i] = "ack"
        /\ dispatching' = FALSE /\ isr' = isr
    BY <1>8 DEF Unmark, Goto, Marked, IInv, TypeOK
  <2>2. \A j \in Irqs \ {i} : at[j] \notin Marked
    BY <2>1 DEF IInv, DispatchExclusive
  <2>3. DispatchExclusive' /\ InServiceMatchesStacks'
    BY <2>1, <2>2, <1>1, <1>3 DEF IInv, DispatchExclusive,
       InServiceMatchesStacks, Marked
  <2>4. EnteringIsInterrupted'
    BY <2>1, <2>2, <1>1, <1>3 DEF EnteringIsInterrupted, Marked
  <2>5. \A j \in Irqs : at[j] # "drop"
    BY <2>1, <2>2, <1>1, RankIsStrict DEF IInv, DroppedOnSameStack, Marked
  <2>6. DroppedOnSameStack'
    BY <2>1, <2>5, <1>3 DEF DroppedOnSameStack
  <2> QED
    BY <1>4, <2>3, <2>4, <2>6 DEF IInv
<1>9. CASE Ack(i)
  <2>1. /\ at[i] \in {"ack", "drop"} /\ at'[i] = "none"
        /\ dispatching' = dispatching /\ isr' = isr \ {i}
    BY <1>9 DEF Ack, Goto, IInv, TypeOK, Phases
  <2>2. DispatchExclusive' /\ InServiceMatchesStacks'
    BY <2>1, <1>1, <1>3 DEF IInv, DispatchExclusive, InServiceMatchesStacks, Marked
  <2>3. EnteringIsInterrupted' /\ DroppedOnSameStack'
    BY <2>1, <1>1, <1>3 DEF IInv, EnteringIsInterrupted, DroppedOnSameStack, Marked
  <2> QED
    BY <1>4, <2>2, <2>3 DEF IInv
<1> QED
  BY <1>5, <1>6, <1>7, <1>8, <1>9 DEF Step

LEMMA NextIInv == IInv /\ [Next]_vars => IInv'
<1> SUFFICES ASSUME IInv, [Next]_vars PROVE IInv'
  OBVIOUS
<1>1. CASE \E i \in Irqs : Raise(i) \/ Deliver(i) \/ Step(i)
  BY <1>1, RaiseIInv, DeliverIInv, StepIInv
<1>2. CASE \E t \in Threads : Tick(t)
  BY <1>2, TickIInv
<1>3. CASE UNCHANGED vars
  BY <1>3 DEF vars, IInv, TypeOK, DispatchExclusive, InServiceMatchesStacks,
     EnteringIsInterrupted, DroppedOnSameStack
<1> QED
  BY <1>1, <1>2, <1>3 DEF Next

\* The strengthened invariant holds in every reachable state.
THEOREM Invariant == Spec => []IInv
  BY InitIInv, NextIInv, PTL DEF Spec

\* Every variable keeps its type.
THEOREM TypeCorrect == Spec => []TypeOK
<1>1. IInv => TypeOK
  BY DEF IInv
<1> QED
  BY <1>1, Invariant, PTL

\* One device handler at a time, for any lines and any number of threads the
\* timer switches between: g_dispatch_irq needs no lock (irq.c:161-165).
THEOREM HandlersExclude == Spec => []DispatchExclusive
<1>1. IInv => DispatchExclusive
  BY DEF IInv
<1> QED
  BY <1>1, Invariant, PTL

\* Every activation is balanced by the EOI of its own line (irq.c:184-195).
THEOREM EveryEoiMatches == Spec => []InServiceMatchesStacks
<1>1. IInv => InServiceMatchesStacks
  BY DEF IInv
<1> QED
  BY <1>1, Invariant, PTL

\* Only a request that interrupted a handler of lower priority is dropped.
THEOREM DroppedOutranks == Spec => []OnlyInterruptersDropped
<1>1. IInv => OnlyInterruptersDropped
  BY DEF IInv, DroppedOnSameStack, OnlyInterruptersDropped
<1> QED
  BY <1>1, Invariant, PTL

\* The line everything else outranks (the floppy, when no line behind 6 is
\* enabled) is never dropped: its handler always runs (irq.c:161).
THEOREM LowestNeverDropped ==
  ASSUME NEW low \in Irqs, \A j \in Irqs : ~Outranks(low, j)
  PROVE  Spec => [](at[low] # "drop")
<1>1. IInv => at[low] # "drop"
  BY DEF IInv, DroppedOnSameStack
<1> QED
  BY <1>1, Invariant, PTL
=============================================================================
