---------------------------- MODULE StubsProofs -----------------------------
(***************************************************************************)
(* Proofs about Stubs: for any lines and faults, and any depth of nesting. *)
(***************************************************************************)
EXTENDS Stubs, TLAPS

Words == Int \cup ({"eip", "cs", "eflags", "code", "saved"} \X Int)

Saving == {"report", "ack", "restore"}     \* the registers are on the stack
Numbered == {"code", "save"} \cup Saving   \* and the number is

IrqVectors == {Vector(i) : i \in Lines}

ActivationsOf == [vector : Faults \cup IrqVectors,
                  at : {"stub", "iret"} \cup Numbered, was : Nat]

\* How many words an activation has on the stack.
Size(a) ==
  CASE a.at = "iret" -> 3
    [] a.at = "stub" -> IF a.vector \in PushesErrorCode THEN 4 ELSE 3
    [] a.at = "code" -> 4
    [] a.at = "save" -> 5
    [] a.at \in Saving -> 5 + SavedWords

\* The stack s is r with the words of activation a, which interrupts level n, on it.
OnTop(s, a, n, r) ==
  LET d == Size(a)
  IN  /\ Len(s) = d + Len(r)
      /\ \A i \in 1..Len(r) : s[d + i] = r[i]
      /\ s[d - 2] = <<"eip", n>> /\ s[d - 1] = <<"cs", n>> /\ s[d] = <<"eflags", n>>
      /\ a.at = "code" => s[1] = StubNumber(a.vector)
      /\ a.at = "save" => s[1] = StubNumber(a.vector)
      /\ a.at \in Saving =>
           /\ s[SavedWords + 1] = StubNumber(a.vector)
           /\ \A w \in 1..SavedWords : s[w] = <<"saved", a.was>>

\* The stack is the words of the activations, one on the other.
Layout ==
  /\ stack \in Seq(Words)
  /\ \E below \in [1..Level + 1 -> Seq(Words)] :
       /\ below[1] = stack
       /\ \A k \in 1..Level : OnTop(below[k], activations[k], Level - k, below[k + 1])

\* The level whose values are in the registers while activation a, at level n, runs.
Own(a, n) == IF a.at \in Saving THEN n ELSE a.was

Registers ==
  /\ regs = IF Level = 0 THEN 0 ELSE Own(activations[1], Level)
  /\ \A k \in 1..Level :
       activations[k].was = IF k = Level THEN 0 ELSE Own(activations[k + 1], Level - k)

\* The paths through the stubs: the timer's gate has none, a fault is not
\* acknowledged, and its number finds the stub that knows what the CPU pushed.
Paths ==
  \A k \in 1..Level :
    LET a == activations[k]
    IN  /\ a.vector = Vector(0) => a.at = "iret"
        /\ a.vector \in Faults => a.at # "ack"
        /\ a.at = "code" => a.vector \notin PushesErrorCode /\ a.vector \in Faults

Unacknowledged(a) == a.vector \in IrqVectors /\ a.at \notin {"restore", "iret"}

\* A line is in service until its stub acknowledges it, and has a handler.
Serving ==
  /\ \A k \in 1..Level : Unacknowledged(activations[k]) =>
       activations[k].vector - FIRST_EXTERNAL_INTERRUPT \in isr \cap g_irq_handlers
  /\ \A j, k \in 1..Level :
       /\ Unacknowledged(activations[j]) /\ Unacknowledged(activations[k])
       /\ activations[j].vector = activations[k].vector
       => j = k

\* Lines are enabled behind their handlers, but for the timer's.
Masks ==
  /\ isr \subseteq Lines /\ irr \subseteq Lines /\ g_irq_mask \subseteq 0..15 /\ imr \subseteq 0..15
  /\ MaskIsCopied
  /\ main = "configure_pic" => g_irq_mask = 0..15 \ {2} /\ isr = {} /\ irr = {}
  /\ \A i \in 0..15 \ g_irq_mask : i \in {0, 2} \cup g_irq_handlers
  /\ main = "keyboard" => 1 \in g_irq_handlers
  /\ main = "floppy" => 6 \in g_irq_handlers

Shape == activations \in Seq(ActivationsOf) /\ regs \in Nat /\ Layout /\ Registers

IInv == Shape /\ Paths /\ Serving /\ Masks

USE LinesAssumption, FaultsAssumption, DepthAssumption

-----------------------------------------------------------------------------
(* Sequences.                                                              *)

LEMMA SameSequence ==
  ASSUME NEW S, NEW s \in Seq(S), NEW t \in Seq(S), Len(s) = Len(t),
         \A i \in 1..Len(s) : s[i] = t[i]
  PROVE  s = t
  OBVIOUS

LEMMA PushIs ==
  ASSUME NEW S, NEW s \in Seq(S), NEW x \in S
  PROVE  /\ <<x>> \o s \in Seq(S) /\ Len(<<x>> \o s) = Len(s) + 1
         /\ (<<x>> \o s)[1] = x
         /\ \A i \in 1..Len(s) : (<<x>> \o s)[i + 1] = s[i]
  OBVIOUS

LEMMA ReplaceIs ==
  ASSUME NEW S, NEW s \in Seq(S), s # <<>>, NEW x \in S
  PROVE  /\ <<x>> \o Tail(s) \in Seq(S) /\ Len(<<x>> \o Tail(s)) = Len(s)
         /\ (<<x>> \o Tail(s))[1] = x
         /\ \A i \in 2..Len(s) : (<<x>> \o Tail(s))[i] = s[i]
         /\ Len(s) > 0
  OBVIOUS

LEMMA DropIs ==
  ASSUME NEW S, NEW s \in Seq(S), NEW n \in Nat, n <= Len(s)
  PROVE  LET t == SubSeq(s, n + 1, Len(s))
         IN  /\ t \in Seq(S) /\ Len(t) = Len(s) - n
             /\ \A i \in 1..Len(t) : t[i] = s[n + i]
  OBVIOUS

-----------------------------------------------------------------------------
(* The three ways in which activations change: one comes, the running one  *)
(* goes on, and it ends.                                                   *)

LEMMA RunningIs ==
  ASSUME Shape, activations # <<>>
  PROVE  /\ Running = activations[1] /\ Running \in ActivationsOf
         /\ Level \in Nat \ {0} /\ 1 \in 1..Level
  BY DEF Shape, Running, Level

LEMMA PushShape ==
  ASSUME Shape, NEW v, NEW frame, NEW place \in {"stub", "iret"}, Enter(v, frame, place),
         v \in Faults \cup IrqVectors,
         frame \o stack \in Seq(Words),
         OnTop(frame \o stack, [vector |-> v, at |-> place, was |-> regs], Level, stack)
  PROVE  /\ Shape' /\ Level' = Level + 1
         /\ activations'[1] = [vector |-> v, at |-> place, was |-> regs]
         /\ \A k \in 1..Level : activations'[k + 1] = activations[k]
<1> DEFINE new == [vector |-> v, at |-> place, was |-> regs]
<1>1. activations' = <<new>> \o activations /\ stack' = frame \o stack /\ regs' = regs
  BY DEF Enter
<1>2. new \in ActivationsOf
  BY DEF Shape, ActivationsOf
<1>3. /\ activations' \in Seq(ActivationsOf) /\ Level \in Nat /\ Level' = Level + 1
      /\ activations'[1] = new
      /\ \A k \in 1..Level : activations'[k + 1] = activations[k]
  BY <1>1, <1>2, PushIs DEF Shape, Level
<1> HIDE DEF new
<1>4. Layout'
  <2>1. PICK below \in [1..Level + 1 -> Seq(Words)] :
          /\ below[1] = stack
          /\ \A k \in 1..Level : OnTop(below[k], activations[k], Level - k, below[k + 1])
    BY DEF Shape, Layout
  <2> DEFINE up == [k \in 1..Level' + 1 |-> IF k = 1 THEN stack' ELSE below[k - 1]]
  <2>2. /\ up \in [1..Level' + 1 -> Seq(Words)] /\ up[1] = stack'
        /\ \A k \in 1..Level + 1 : up[k + 1] = below[k]
    BY <1>1, <1>3, <2>1
  <2> HIDE DEF up
  <2>3. ASSUME NEW k \in 1..Level' PROVE OnTop(up[k], activations'[k], Level' - k, up[k + 1])
    <3>1. CASE k = 1
      <4>1. up[k] = frame \o stack /\ up[k + 1] = stack /\ Level' - k = Level
        BY <1>1, <1>3, <2>1, <2>2, <3>1
      <4> QED
        BY <1>3, <3>1, <4>1 DEF new
    <3>2. CASE k # 1
      <4>1. /\ k - 1 \in 1..Level /\ (k - 1) + 1 = k /\ Level' - k = Level - (k - 1)
        BY <1>3, <2>3, <3>2
      <4>2. activations'[k] = activations[k - 1]
        BY <1>3, <4>1
      <4>3. OnTop(below[k - 1], activations[k - 1], Level - (k - 1), below[k])
        BY <2>1, <4>1
      <4>4. up[k] = below[k - 1] /\ up[k + 1] = below[k]
        BY <1>3, <2>2, <4>1
      <4> QED
        BY <4>1, <4>2, <4>3, <4>4
    <3> QED
      BY <3>1, <3>2
  <2> QED
    BY <1>1, <2>2, <2>3 DEF Layout
<1>5. Registers'
  <2>1. regs' = Own(activations'[1], Level') /\ activations'[1].was = regs
    BY <1>1, <1>3 DEF new, Own, Saving
  <2>2. ASSUME NEW k \in 1..Level'
        PROVE  activations'[k].was = IF k = Level' THEN 0 ELSE Own(activations'[k + 1], Level' - k)
    <3>1. CASE k = 1 /\ Level = 0
      BY <1>3, <2>1, <3>1 DEF Shape, Registers
    <3>2. CASE k = 1 /\ Level # 0
      <4>1. activations'[2] = activations[1] /\ Level' - 1 = Level
        BY <1>3, <3>2
      <4> QED
        BY <1>3, <2>1, <3>2, <4>1 DEF Shape, Registers
    <3>3. CASE k # 1
      <4>1. /\ k - 1 \in 1..Level /\ (k - 1) + 1 = k /\ Level' - k = Level - (k - 1)
            /\ k = Level' <=> k - 1 = Level
        BY <1>3, <2>2, <3>3
      <4>2. activations'[k] = activations[k - 1]
        BY <1>3, <4>1
      <4>3. k # Level' => activations'[k + 1] = activations[k]
        BY <1>3, <4>1
      <4>4. activations[k - 1].was = IF k - 1 = Level THEN 0 ELSE Own(activations[k], Level - (k - 1))
        BY <4>1 DEF Shape, Registers
      <4> QED
        BY <4>1, <4>2, <4>3, <4>4
    <3> QED
      BY <1>3, <3>1, <3>2, <3>3
  <2> QED
    BY <1>3, <2>1, <2>2 DEF Registers
<1> QED
  BY <1>1, <1>3, <1>4, <1>5 DEF Shape, new

LEMMA GoShape ==
  ASSUME Shape, activations # <<>>, NEW place \in {"stub", "iret"} \cup Numbered, Go(place),
         stack' \in Seq(Words),
         \A r \in Seq(Words) : OnTop(stack, Running, Level - 1, r) =>
           OnTop(stack', [Running EXCEPT !.at = place], Level - 1, r),
         regs' = Own([Running EXCEPT !.at = place], Level)
  PROVE  /\ Shape' /\ Level' = Level
         /\ activations'[1] = [Running EXCEPT !.at = place]
         /\ \A k \in 2..Level : activations'[k] = activations[k]
<1> DEFINE new == [Running EXCEPT !.at = place]
<1>1. activations' = <<new>> \o Tail(activations)
  BY DEF Go
<1>2. /\ new \in ActivationsOf /\ new.was = Running.was
      /\ Running = activations[1] /\ Level \in Nat \ {0}
  BY RunningIs DEF ActivationsOf
<1>3. /\ activations' \in Seq(ActivationsOf) /\ Level' = Level
      /\ activations'[1] = new
      /\ \A k \in 2..Level : activations'[k] = activations[k]
  BY <1>1, <1>2, ReplaceIs DEF Shape, Level
<1> HIDE DEF new
<1>4. Layout'
  <2>1. PICK below \in [1..Level + 1 -> Seq(Words)] :
          /\ below[1] = stack
          /\ \A k \in 1..Level : OnTop(below[k], activations[k], Level - k, below[k + 1])
    BY DEF Shape, Layout
  <2> DEFINE up == [below EXCEPT ![1] = stack']
  <2>2. /\ up \in [1..Level' + 1 -> Seq(Words)] /\ up[1] = stack'
        /\ \A k \in 2..Level + 1 : up[k] = below[k]
    BY <1>2, <1>3, <2>1
  <2> HIDE DEF up
  <2>3. ASSUME NEW k \in 1..Level' PROVE OnTop(up[k], activations'[k], Level' - k, up[k + 1])
    <3>1. OnTop(below[k], activations[k], Level - k, below[k + 1]) /\ up[k + 1] = below[k + 1]
      BY <1>2, <1>3, <2>1, <2>2
    <3>2. CASE k = 1
      <4>1. below[k + 1] \in Seq(Words) /\ OnTop(stack, Running, Level - 1, below[k + 1])
        BY <1>2, <2>1, <3>1, <3>2
      <4>2. OnTop(stack', new, Level - 1, below[k + 1])
        BY <4>1 DEF new
      <4> QED
        BY <1>3, <2>2, <3>1, <3>2, <4>2
    <3>3. CASE k # 1
      <4>1. k \in 2..Level /\ k \in 2..Level + 1
        BY <1>2, <1>3, <2>3, <3>3
      <4>2. up[k] = below[k] /\ activations'[k] = activations[k]
        BY <1>3, <2>2, <4>1
      <4> QED
        BY <1>3, <3>1, <4>2
    <3> QED
      BY <3>2, <3>3
  <2> QED
    BY <2>2, <2>3 DEF Layout
<1>5. Registers'
  <2>1. regs' = Own(activations'[1], Level')
    BY <1>3 DEF new
  <2>2. ASSUME NEW k \in 1..Level'
        PROVE  activations'[k].was = IF k = Level' THEN 0 ELSE Own(activations'[k + 1], Level' - k)
    <3>1. activations'[k].was = activations[k].was
      BY <1>2, <1>3
    <3>2. k # Level' => activations'[k + 1] = activations[k + 1]
      BY <1>2, <1>3
    <3>3. activations[k].was = IF k = Level THEN 0 ELSE Own(activations[k + 1], Level - k)
      BY <1>3 DEF Shape, Registers
    <3> QED
      BY <1>3, <3>1, <3>2, <3>3
  <2> QED
    BY <1>2, <1>3, <2>1, <2>2 DEF Registers
<1>6. regs' \in Nat
  BY <1>2 DEF Own, ActivationsOf, new
<1> QED
  BY <1>3, <1>4, <1>5, <1>6 DEF Shape, new

\* What the running activation has on the stack.
LEMMA TopIs ==
  ASSUME Shape, activations # <<>>
  PROVE  stack \in Seq(Words) /\ \E r \in Seq(Words) : OnTop(stack, Running, Level - 1, r)
<1>1. Running = activations[1] /\ Level \in Nat \ {0} /\ 1 \in 1..Level
  BY RunningIs
<1>2. PICK below \in [1..Level + 1 -> Seq(Words)] :
        /\ below[1] = stack
        /\ \A k \in 1..Level : OnTop(below[k], activations[k], Level - k, below[k + 1])
  BY DEF Shape, Layout
<1>3. OnTop(stack, Running, Level - 1, below[2]) /\ below[2] \in Seq(Words)
  BY <1>1, <1>2
<1> QED
  BY <1>3 DEF Shape, Layout

LEMMA FrameOnTop ==
  ASSUME Shape, At("iret"), NEW r \in Seq(Words), OnTop(stack, Running, Level - 1, r)
  PROVE  SubSeq(stack, 4, Len(stack)) = r /\ SubSeq(stack, 1, 3) = Frame(Level - 1)
<1>1. /\ Len(stack) = 3 + Len(r) /\ stack \in Seq(Words)
      /\ \A i \in 1..Len(r) : stack[3 + i] = r[i]
      /\ stack[1] = <<"eip", Level - 1>> /\ stack[2] = <<"cs", Level - 1>>
      /\ stack[3] = <<"eflags", Level - 1>>
  <2>1. stack \in Seq(Words)
    BY DEF Shape, Layout
  <2>2. Size(Running) = 3 /\ 3 - 2 = 1 /\ 3 - 1 = 2
    BY DEF At, Size, Saving
  <2> QED
    BY <2>1, <2>2 DEF OnTop
<1>2. SubSeq(stack, 4, Len(stack)) = r
  <2> DEFINE t == SubSeq(stack, 4, Len(stack))
  <2>1. 3 \in Nat /\ 3 <= Len(stack) /\ 3 + 1 = 4
    BY <1>1
  <2>2. /\ t \in Seq(Words) /\ Len(t) = Len(stack) - 3
        /\ \A i \in 1..Len(t) : t[i] = stack[3 + i]
    BY <1>1, <2>1, DropIs
  <2> HIDE DEF t
  <2>3. Len(t) = Len(r)
    BY <1>1, <2>2
  <2>4. \A i \in 1..Len(t) : t[i] = r[i]
    BY <1>1, <2>2, <2>3
  <2>5. t = r
    BY <2>2, <2>3, <2>4, SameSequence
  <2> QED
    BY <2>5 DEF t
<1>3. SubSeq(stack, 1, 3) = Frame(Level - 1)
  <2> DEFINE t == SubSeq(stack, 1, 3)
             f == Frame(Level - 1)
  <2>1. t \in Seq(Words) /\ Len(t) = 3 /\ \A i \in 1..3 : t[i] = stack[i]
    BY <1>1
  <2>2. /\ f \in Seq(Words) /\ Len(f) = 3
        /\ f[1] = <<"eip", Level - 1>> /\ f[2] = <<"cs", Level - 1>> /\ f[3] = <<"eflags", Level - 1>>
    <3>1. Level \in Int
      BY RunningIs DEF At
    <3> QED
      BY <3>1 DEF Frame, Words
  <2> HIDE DEF t, f
  <2>3. ASSUME NEW i \in 1..3 PROVE t[i] = f[i]
    <3>1. i = 1 \/ i = 2 \/ i = 3
      OBVIOUS
    <3> QED
      BY <1>1, <2>1, <2>2, <3>1
  <2>4. t = f
    BY <2>1, <2>2, <2>3, SameSequence
  <2> QED
    BY <2>4 DEF t, f
<1> QED
  BY <1>2, <1>3

LEMMA OwnAtIret ==
  ASSUME Shape, At("iret")
  PROVE  regs = Running.was
  BY RunningIs DEF At, Shape, Registers, Own, Saving

LEMMA IretShape ==
  ASSUME Shape, Iret
  PROVE  /\ Shape' /\ Level' = Level - 1
         /\ \A k \in 1..Level - 1 : activations'[k] = activations[k + 1]
<1>1. /\ activations # <<>> /\ At("iret") /\ regs' = regs
      /\ stack' = SubSeq(stack, 4, Len(stack)) /\ activations' = Tail(activations)
  BY DEF Iret, At
<1>2. Running = activations[1] /\ Level \in Nat \ {0} /\ 1 \in 1..Level
  BY <1>1, RunningIs
<1>3. /\ activations' \in Seq(ActivationsOf) /\ Level' = Level - 1
      /\ \A k \in 1..Level - 1 : activations'[k] = activations[k + 1]
  BY <1>1, <1>2 DEF Shape, Level
<1>4. PICK below \in [1..Level + 1 -> Seq(Words)] :
        /\ below[1] = stack
        /\ \A k \in 1..Level : OnTop(below[k], activations[k], Level - k, below[k + 1])
  BY DEF Shape, Layout
<1>5. OnTop(stack, Running, Level - 1, below[2]) /\ below[2] \in Seq(Words)
  BY <1>2, <1>4
<1>7. stack' = below[2]
  BY <1>1, <1>5, FrameOnTop
<1>9. Layout'
  <2> DEFINE up == [k \in 1..Level' + 1 |-> below[k + 1]]
  <2>1. /\ up \in [1..Level' + 1 -> Seq(Words)] /\ up[1] = stack'
        /\ \A k \in 1..Level' + 1 : up[k] = below[k + 1]
    BY <1>2, <1>3, <1>4, <1>7
  <2> HIDE DEF up
  <2>2. ASSUME NEW k \in 1..Level' PROVE OnTop(up[k], activations'[k], Level' - k, up[k + 1])
    <3>1. k + 1 \in 1..Level /\ Level' - k = Level - (k + 1)
      BY <1>2, <1>3
    <3>2. OnTop(below[k + 1], activations[k + 1], Level - (k + 1), below[(k + 1) + 1])
      BY <1>4, <3>1
    <3>3. up[k] = below[k + 1] /\ up[k + 1] = below[(k + 1) + 1]
      BY <1>2, <1>3, <2>1
    <3> QED
      BY <1>2, <1>3, <3>1, <3>2, <3>3
  <2> QED
    BY <1>5, <1>7, <2>1, <2>2 DEF Layout
<1>10. regs = Running.was
  BY <1>1, OwnAtIret
<1>11. Registers'
  <2>1. activations[1].was = IF Level = 1 THEN 0 ELSE Own(activations[2], Level - 1)
    BY <1>2 DEF Shape, Registers
  <2>2. regs' = IF Level' = 0 THEN 0 ELSE Own(activations'[1], Level')
    <3>1. CASE Level = 1
      BY <1>1, <1>2, <1>3, <1>10, <2>1, <3>1
    <3>2. CASE Level # 1
      <4>1. 1 \in 1..Level - 1 /\ 1 + 1 = 2 /\ Level' # 0
        BY <1>2, <1>3, <3>2
      <4>2. activations'[1] = activations[2]
        BY <1>3, <4>1
      <4> QED
        BY <1>1, <1>2, <1>3, <1>10, <2>1, <3>2, <4>1, <4>2
    <3> QED
      BY <3>1, <3>2
  <2>3. ASSUME NEW k \in 1..Level'
        PROVE  activations'[k].was = IF k = Level' THEN 0 ELSE Own(activations'[k + 1], Level' - k)
    <3>1. k + 1 \in 1..Level /\ Level' - k = Level - (k + 1) /\ (k = Level' <=> k + 1 = Level)
      BY <1>2, <1>3
    <3>2. activations'[k] = activations[k + 1]
          /\ (k # Level' => activations'[k + 1] = activations[(k + 1) + 1])
      <4>1. k \in 1..Level - 1 /\ (k # Level' => k + 1 \in 1..Level - 1)
        BY <1>2, <1>3
      <4> QED
        BY <1>3, <4>1
    <3>3. activations[k + 1].was
            = IF k + 1 = Level THEN 0 ELSE Own(activations[(k + 1) + 1], Level - (k + 1))
      BY <3>1 DEF Shape, Registers
    <3> QED
      BY <3>1, <3>2, <3>3
  <2> QED
    BY <2>2, <2>3 DEF Registers
<1> QED
  BY <1>1, <1>3, <1>9, <1>11 DEF Shape

LEMMA VectorIs ==
  ASSUME NEW v \in Faults \cup IrqVectors
  PROVE  /\ v \in Faults => v \in 0..31 /\ StubNumber(v) = v /\ v \notin IrqVectors
         /\ v \in IrqVectors => /\ v - FIRST_EXTERNAL_INTERRUPT \in 0..7
                                /\ v - FIRST_EXTERNAL_INTERRUPT \in Lines
                                /\ StubNumber(v) = v + 1 /\ v \notin Faults
                                /\ Vector(v - FIRST_EXTERNAL_INTERRUPT) = v
         /\ StubNumber(v) \in IrqStubs <=> v \in IrqVectors
         /\ StubNumber(v) \in TrapStubs <=> v \in PushesErrorCode
<1>1. CASE v \in Faults
  <2>1. v \in 0..31
    BY <1>1
  <2>2. v \notin IrqVectors
    BY <2>1 DEF IrqVectors, Vector, FIRST_EXTERNAL_INTERRUPT
  <2> QED
    BY <1>1, <2>1, <2>2
    DEF StubNumber, IrqStubs, FIRST_EXTERNAL_INTERRUPT, TrapStubs, PushesErrorCode
<1>2. CASE v \in IrqVectors
  <2>1. PICK i \in Lines : v = 48 + i
    BY <1>2 DEF IrqVectors, Vector, FIRST_EXTERNAL_INTERRUPT
  <2>2. i \in 0..7 /\ v - 48 = i /\ v \in 48..55 /\ v \notin 0..31
    BY <2>1
  <2>3. v \notin Faults
    BY <2>2
  <2> QED
    BY <1>2, <2>1, <2>2, <2>3
    DEF Vector, StubNumber, IrqStubs, FIRST_EXTERNAL_INTERRUPT, TrapStubs, PushesErrorCode
<1> QED
  BY <1>1, <1>2

LEMMA PushedOnTop ==
  ASSUME NEW s \in Seq(Words), NEW p \in Seq(Words), NEW r \in Seq(Words), NEW n,
         NEW a, NEW b, NEW d \in {3, 4, 5}, Size(a) = d, Size(b) = d + Len(p), OnTop(s, a, n, r),
         b.at \in {"code", "save"} => (p \o s)[1] = StubNumber(b.vector),
         b.at \in Saving =>
           /\ (p \o s)[SavedWords + 1] = StubNumber(b.vector)
           /\ \A w \in 1..SavedWords : (p \o s)[w] = <<"saved", b.was>>
  PROVE  p \o s \in Seq(Words) /\ OnTop(p \o s, b, n, r)
<1> DEFINE t == p \o s
           m == Len(p)
<1>1. /\ t \in Seq(Words) /\ m \in Nat /\ Len(t) = m + Len(s)
      /\ \A i \in 1..Len(s) : t[m + i] = s[i]
  OBVIOUS
<1>2. /\ Len(s) = d + Len(r) /\ \A i \in 1..Len(r) : s[d + i] = r[i]
      /\ s[d - 2] = <<"eip", n>> /\ s[d - 1] = <<"cs", n>> /\ s[d] = <<"eflags", n>>
  BY DEF OnTop
<1>3. b.at \in {"code", "save"} => t[1] = StubNumber(b.vector)
  OBVIOUS
<1>4. b.at \in Saving => /\ t[SavedWords + 1] = StubNumber(b.vector)
                         /\ \A w \in 1..SavedWords : t[w] = <<"saved", b.was>>
  OBVIOUS
<1> HIDE DEF t
<1>5. \A x : Len(s) = d + Len(r) /\ x \in (1 - d)..Len(r) => d + x \in 1..Len(s)
  OBVIOUS
<1>6. ASSUME NEW i \in 1..Len(r) PROVE t[(d + m) + i] = r[i]
  <2>1. d + i \in 1..Len(s) /\ m + (d + i) = (d + m) + i
    BY <1>1, <1>2
  <2> QED
    BY <1>1, <1>2, <2>1
<1>7. /\ d - 2 \in 1..Len(s) /\ d - 1 \in 1..Len(s) /\ d \in 1..Len(s)
      /\ m + (d - 2) = (d + m) - 2 /\ m + (d - 1) = (d + m) - 1 /\ m + d = d + m
  BY <1>1, <1>2
<1>8. /\ t[(d + m) - 2] = <<"eip", n>> /\ t[(d + m) - 1] = <<"cs", n>>
      /\ t[d + m] = <<"eflags", n>>
  BY <1>1, <1>2, <1>7
<1>9. Len(t) = (d + m) + Len(r)
  BY <1>1, <1>2
<1>10. OnTop(t, b, n, r)
  BY <1>3, <1>4, <1>6, <1>8, <1>9 DEF OnTop
<1> QED
  BY <1>1, <1>10 DEF t

\* What else changes when the running activation goes on: nothing.
LEMMA GoKeeps ==
  ASSUME Shape, Shape', Paths, Serving, activations # <<>>, NEW place, Level' = Level,
         activations'[1] = [Running EXCEPT !.at = place],
         \A k \in 2..Level : activations'[k] = activations[k],
         Running.vector # Vector(0) \/ place = "iret",
         Running.vector \in Faults => place # "ack",
         place = "code" => Running.vector \notin PushesErrorCode /\ Running.vector \in Faults,
         place \in {"restore", "iret"} \/ Running.at \notin {"restore", "iret"},
         \/ isr' = isr
         \/ /\ Unacknowledged(Running) /\ place = "restore"
            /\ isr' = isr \ {Running.vector - FIRST_EXTERNAL_INTERRUPT},
         g_irq_handlers' = g_irq_handlers
  PROVE  Paths' /\ Serving'
<1>1. Running = activations[1] /\ Running \in ActivationsOf /\ Level \in Nat \ {0} /\ 1 \in 1..Level
  BY RunningIs
<1>2. activations'[1].vector = activations[1].vector /\ activations'[1].at = place
  BY <1>1 DEF ActivationsOf
<1>3. Paths'
  <2> SUFFICES ASSUME NEW k \in 1..Level
               PROVE  LET a == activations'[k]
                      IN  /\ a.vector = Vector(0) => a.at = "iret"
                          /\ a.vector \in Faults => a.at # "ack"
                          /\ a.at = "code" => a.vector \notin PushesErrorCode /\ a.vector \in Faults
    BY DEF Paths
  <2>1. CASE k = 1
    BY <1>1, <1>2, <2>1
  <2>2. CASE k # 1
    BY <1>1, <2>2 DEF Paths
  <2> QED
    BY <2>1, <2>2
<1>4. \A k \in 1..Level :
        /\ activations'[k].vector = activations[k].vector
        /\ activations'[k].at \notin {"restore", "iret"} =>
             activations[k].at \notin {"restore", "iret"}
  <2> SUFFICES ASSUME NEW k \in 1..Level
               PROVE  /\ activations'[k].vector = activations[k].vector
                      /\ activations'[k].at \notin {"restore", "iret"} =>
                           activations[k].at \notin {"restore", "iret"}
    OBVIOUS
  <2>1. CASE k = 1
    BY <1>1, <1>2, <2>1
  <2>2. CASE k # 1
    BY <1>1, <2>2
  <2> QED
    BY <2>1, <2>2
<1>5. Serving'
  <2> SUFFICES
        /\ \A k \in 1..Level : Unacknowledged(activations'[k]) =>
             activations'[k].vector - FIRST_EXTERNAL_INTERRUPT \in isr' \cap g_irq_handlers
        /\ \A j, k \in 1..Level :
             /\ Unacknowledged(activations'[j]) /\ Unacknowledged(activations'[k])
             /\ activations'[j].vector = activations'[k].vector
             => j = k
    BY DEF Serving, Unacknowledged
  <2>1. ASSUME NEW k \in 1..Level, Unacknowledged(activations'[k])
        PROVE  activations'[k].vector - FIRST_EXTERNAL_INTERRUPT \in isr' \cap g_irq_handlers
    <3>1. Unacknowledged(activations[k]) /\ activations'[k].vector = activations[k].vector
      BY <1>1, <1>4, <2>1 DEF Unacknowledged
    <3>2. activations[k].vector - FIRST_EXTERNAL_INTERRUPT \in isr \cap g_irq_handlers
      BY <1>1, <3>1 DEF Serving
    <3>3. CASE isr' = isr
      BY <3>1, <3>2, <3>3
    <3>4. CASE /\ Unacknowledged(Running) /\ place = "restore"
               /\ isr' = isr \ {Running.vector - FIRST_EXTERNAL_INTERRUPT}
      <4>1. k # 1
        BY <1>2, <2>1, <3>4 DEF Unacknowledged
      <4>2. activations[k].vector # Running.vector
        BY <1>1, <3>1, <3>4, <4>1 DEF Serving
      <4>3. activations[k].vector \in Int /\ Running.vector \in Int
        BY <3>1, <3>4 DEF Unacknowledged, IrqVectors, Vector, FIRST_EXTERNAL_INTERRUPT
      <4> QED
        BY <3>1, <3>2, <3>4, <4>2, <4>3 DEF FIRST_EXTERNAL_INTERRUPT
    <3> QED
      BY <3>3, <3>4
  <2>2. ASSUME NEW j \in 1..Level, NEW k \in 1..Level,
               Unacknowledged(activations'[j]), Unacknowledged(activations'[k]),
               activations'[j].vector = activations'[k].vector
        PROVE  j = k
    <3>1. /\ Unacknowledged(activations[j]) /\ activations'[j].vector = activations[j].vector
          /\ Unacknowledged(activations[k]) /\ activations'[k].vector = activations[k].vector
      BY <1>1, <1>4, <2>2 DEF Unacknowledged
    <3> QED
      BY <1>1, <2>2, <3>1 DEF Serving
  <2> QED
    BY <2>1, <2>2
<1> QED
  BY <1>3, <1>5

-----------------------------------------------------------------------------
(* The steps of a stub.                                                    *)

MaskState == <<main, irr, isr, imr, g_irq_mask, g_irq_handlers>>

LEMMA SameMasks == Masks /\ UNCHANGED MaskState => Masks'
  BY DEF Masks, MaskIsCopied, MaskState

LEMMA NumberIsWord ==
  ASSUME NEW v \in Faults \cup IrqVectors
  PROVE  StubNumber(v) \in Words
<1>1. v \in Int
  BY DEF IrqVectors, Vector, FIRST_EXTERNAL_INTERRUPT
<1> QED
  BY <1>1 DEF StubNumber, Words

LEMMA StubIInv == IInv /\ Stub => IInv'
<1> SUFFICES ASSUME IInv, Stub PROVE IInv'
  OBVIOUS
<1> USE DEF IInv
<1>1. /\ activations # <<>> /\ At("stub") /\ Running.at = "stub"
      /\ UNCHANGED <<main, regs, controller, tables>>
  BY DEF Stub, At
<1>2. /\ Running = activations[1] /\ Running \in ActivationsOf
      /\ Level \in Nat \ {0} /\ 1 \in 1..Level
  BY <1>1, RunningIs
<1>3. stack \in Seq(Words) /\ Running.vector \in Faults \cup IrqVectors /\ Running.vector # Vector(0)
  BY <1>1, <1>2, TopIs DEF ActivationsOf, Paths
<1> DEFINE v == Running.vector
           p == IF v \in IrqVectors THEN <<StubNumber(v), 0>> ELSE <<StubNumber(v)>>
           place == IF v \in IrqVectors \cup PushesErrorCode THEN "save" ELSE "code"
           new == [Running EXCEPT !.at = place]
<1>4. stack' = p \o stack /\ Go(place)
  BY <1>3, VectorIs DEF Stub
<1>5. /\ p \in Seq(Words) /\ (p \o stack)[1] = StubNumber(v)
      /\ Len(p) = IF v \in IrqVectors THEN 2 ELSE 1
  <2>1. StubNumber(v) \in Words /\ 0 \in Words
    <3>1. 0 \in Words
      BY DEF Words
    <3> QED
      BY <1>3, <3>1, NumberIsWord
  <2>2. CASE v \in IrqVectors
    BY <1>3, <2>1, <2>2
  <2>3. CASE v \notin IrqVectors
    BY <1>3, <2>1, <2>3, PushIs
  <2> QED
    BY <2>2, <2>3
<1>6. new.at = place /\ new.vector = v /\ new.was = Running.was
  BY <1>2 DEF ActivationsOf
<1>7. /\ Size(Running) = IF v \in PushesErrorCode THEN 4 ELSE 3
      /\ Size(new) = Size(Running) + Len(p)
  <2>1. v \in IrqVectors => v \notin PushesErrorCode
    BY <1>3, VectorIs DEF TrapStubs, PushesErrorCode, StubNumber
  <2>2. Size(Running) = IF v \in PushesErrorCode THEN 4 ELSE 3
    BY <1>1 DEF Size, Saving
  <2>3. Size(new) = IF v \in IrqVectors \cup PushesErrorCode THEN 5 ELSE 4
    <3> HIDE DEF new
    <3> QED
      BY <1>6 DEF Size, Saving
  <2> HIDE DEF p, new
  <2> QED
    BY <1>5, <2>1, <2>2, <2>3
<1>8. ASSUME NEW r \in Seq(Words), OnTop(stack, Running, Level - 1, r)
      PROVE  stack' \in Seq(Words) /\ OnTop(stack', new, Level - 1, r)
  <2>1. new.at \notin Saving /\ Size(Running) \in {3, 4, 5}
    BY <1>6, <1>7 DEF Saving
  <2> HIDE DEF new, p
  <2> QED
    BY <1>3, <1>4, <1>5, <1>6, <1>7, <1>8, <2>1, PushedOnTop
<1>9. stack' \in Seq(Words)
  BY <1>3, <1>4, <1>5
<1>10. regs' = Own(new, Level)
  <2>1. regs = Running.was
    BY <1>1, <1>2 DEF Shape, Registers, Own, Saving
  <2> QED
    BY <1>1, <1>6, <2>1 DEF Own, Saving
<1>11. place \in {"stub", "iret"} \cup Numbered
  BY DEF Numbered
<1>12. /\ Shape' /\ Level' = Level /\ activations'[1] = new
       /\ \A k \in 2..Level : activations'[k] = activations[k]
  <2> HIDE DEF place
  <2> QED
    BY <1>1, <1>4, <1>8, <1>9, <1>10, <1>11, GoShape
<1>13. Paths' /\ Serving'
  <2>1. UNCHANGED <<isr, g_irq_handlers>>
    BY <1>1 DEF controller, tables
  <2>2. place = "code" => v \notin PushesErrorCode /\ v \in Faults
    BY <1>3
  <2>3. place # "ack" /\ Running.at \notin {"restore", "iret"}
    BY <1>1
  <2> HIDE DEF place
  <2> QED
    BY <1>1, <1>3, <1>12, <2>1, <2>2, <2>3, GoKeeps
<1> QED
  BY <1>1, <1>12, <1>13, SameMasks DEF MaskState, controller, tables

\* The number under the saved registers is that of the stub.
LEMMA InterruptNumberIs ==
  ASSUME IInv, activations # <<>>, Running.at \in Saving
  PROVE  /\ InterruptNumber = StubNumber(Running.vector)
         /\ Running \in ActivationsOf /\ Running.vector # Vector(0)
         /\ Running.at = "ack" => Running.vector \in IrqVectors
<1>1. Running = activations[1] /\ Running \in ActivationsOf /\ Level \in Nat /\ 1 \in 1..Level
  BY RunningIs DEF IInv
<1>2. PICK r \in Seq(Words) : OnTop(stack, Running, Level - 1, r)
  BY TopIs DEF IInv
<1>3. InterruptNumber = StubNumber(Running.vector)
  BY <1>2 DEF OnTop, InterruptNumber
<1>4. Running.vector # Vector(0) /\ (Running.at = "ack" => Running.vector \notin Faults)
  BY <1>1 DEF IInv, Paths, Saving
<1> QED
  BY <1>1, <1>3, <1>4 DEF ActivationsOf

LEMMA AckedLineIs ==
  ASSUME IInv, At("ack")
  PROVE  /\ AckedLine = Running.vector - FIRST_EXTERNAL_INTERRUPT
         /\ Vector(AckedLine) = Running.vector /\ AckedLine \in isr \cap g_irq_handlers
         /\ AckedLine # 0 /\ Unacknowledged(Running)
<1>1. activations # <<>> /\ Running.at = "ack" /\ Running.at \in Saving
  BY DEF At, Saving
<1>2. /\ InterruptNumber = StubNumber(Running.vector) /\ Running.vector \in IrqVectors
      /\ Running.vector # Vector(0)
  BY <1>1, InterruptNumberIs
<1>3. PICK i \in Lines : Running.vector = 48 + i
  BY <1>2 DEF IrqVectors, Vector, FIRST_EXTERNAL_INTERRUPT
<1>4. i \in 0..7 /\ i # 0
  BY <1>2, <1>3 DEF Vector, FIRST_EXTERNAL_INTERRUPT
<1>5. InterruptNumber = 49 + i
  BY <1>2, <1>3, <1>4 DEF StubNumber
<1>6. AckedLine = i % 8 /\ i % 8 = i
  BY <1>4, <1>5 DEF AckedLine, FIRST_EXTERNAL_INTERRUPT
<1>7. Unacknowledged(Running)
  BY <1>1, <1>2 DEF Unacknowledged
<1>8. Running.vector - FIRST_EXTERNAL_INTERRUPT \in isr \cap g_irq_handlers
  <2>1. Running = activations[1] /\ Level \in Nat /\ 1 \in 1..Level
    BY <1>1, RunningIs DEF IInv
  <2> QED
    BY <1>7, <2>1 DEF IInv, Serving
<1> QED
  BY <1>3, <1>4, <1>6, <1>7, <1>8 DEF Vector, FIRST_EXTERNAL_INTERRUPT

LEMMA InsertIs ==
  ASSUME NEW S, NEW s \in Seq(S), s # <<>>, NEW x \in S
  PROVE  LET t == <<Head(s), x>> \o Tail(s)
         IN  /\ t \in Seq(S) /\ Len(t) = Len(s) + 1 /\ t[1] = s[1]
             /\ \A i \in 2..Len(s) : t[i + 1] = s[i]
  OBVIOUS

LEMMA PushErrorCodeIInv == IInv /\ PushErrorCode => IInv'
<1> SUFFICES ASSUME IInv, PushErrorCode PROVE IInv'
  OBVIOUS
<1>1. /\ Shape /\ Paths /\ Serving /\ Masks /\ activations # <<>> /\ Running.at = "code"
      /\ UNCHANGED <<main, regs, controller, tables>>
      /\ stack' = <<Head(stack), 0>> \o Tail(stack) /\ Go("save")
  BY DEF IInv, PushErrorCode, At
<1>2. /\ Running = activations[1] /\ Running \in ActivationsOf
      /\ Level \in Nat \ {0} /\ 1 \in 1..Level
  BY <1>1, RunningIs
<1>3. Running.vector # Vector(0)
  BY <1>1, <1>2 DEF Paths
<1> DEFINE new == [Running EXCEPT !.at = "save"]
<1>4. new.at = "save" /\ new.vector = Running.vector /\ new.was = Running.was
  BY <1>2 DEF ActivationsOf
<1>5. Size(Running) = 4
  BY <1>1 DEF Size, Saving
<1>6. Size(new) = 5
  <2> HIDE DEF new
  <2> QED
    BY <1>4 DEF Size, Saving
<1>7. stack \in Seq(Words)
  BY <1>1, TopIs
<1> HIDE DEF new
<1>8. ASSUME NEW r \in Seq(Words), OnTop(stack, Running, Level - 1, r)
      PROVE  stack' \in Seq(Words) /\ OnTop(stack', new, Level - 1, r)
  <2>1. /\ Len(stack) = 4 + Len(r) /\ \A i \in 1..Len(r) : stack[4 + i] = r[i]
        /\ stack[4 - 2] = <<"eip", Level - 1>> /\ stack[4 - 1] = <<"cs", Level - 1>>
        /\ stack[4] = <<"eflags", Level - 1>> /\ stack[1] = StubNumber(Running.vector)
    BY <1>1, <1>5, <1>8 DEF OnTop
  <2>2. stack # <<>> /\ 0 \in Words
    BY <2>1, <1>7 DEF Words
  <2>3. /\ stack' \in Seq(Words) /\ Len(stack') = Len(stack) + 1 /\ stack'[1] = stack[1]
        /\ \A i \in 2..Len(stack) : stack'[i + 1] = stack[i]
    BY <1>1, <1>7, <2>2, InsertIs
  <2>4. ASSUME NEW i \in 1..Len(r) PROVE stack'[5 + i] = r[i]
    <3>1. 4 + i \in 2..Len(stack) /\ (4 + i) + 1 = 5 + i
      BY <2>1
    <3> QED
      BY <2>1, <2>3, <3>1
  <2>5. /\ 2 \in 2..Len(stack) /\ 2 + 1 = 5 - 2 /\ 4 - 2 = 2
        /\ 3 \in 2..Len(stack) /\ 3 + 1 = 5 - 1 /\ 4 - 1 = 3
        /\ 4 \in 2..Len(stack) /\ 4 + 1 = 5
    BY <2>1
  <2>6. /\ stack'[5 - 2] = <<"eip", Level - 1>> /\ stack'[5 - 1] = <<"cs", Level - 1>>
        /\ stack'[5] = <<"eflags", Level - 1>>
    BY <2>1, <2>3, <2>5
  <2>7. Len(stack') = 5 + Len(r)
    BY <2>1, <2>3
  <2>8. new.at \notin Saving /\ new.at # "code"
    BY <1>4 DEF Saving
  <2> QED
    BY <1>4, <1>6, <2>1, <2>3, <2>4, <2>6, <2>7, <2>8 DEF OnTop
<1>9. stack' \in Seq(Words)
  BY <1>1, <1>8, TopIs
<1>10. regs' = Own(new, Level)
  <2>1. regs = Running.was
    BY <1>1, <1>2 DEF Shape, Registers, Own, Saving
  <2> QED
    BY <1>1, <1>4, <2>1 DEF Own, Saving
<1>12. /\ Shape' /\ Level' = Level /\ activations'[1] = new
       /\ \A k \in 2..Level : activations'[k] = activations[k]
  BY <1>1, <1>8, <1>9, <1>10, GoShape DEF Numbered, new
<1>13. Paths' /\ Serving'
  <2>1. isr' = isr /\ g_irq_handlers' = g_irq_handlers
    BY <1>1 DEF controller, tables
  <2> QED
    BY <1>1, <1>3, <1>12, <2>1, GoKeeps DEF new
<1> QED
  BY <1>1, <1>12, <1>13, SameMasks DEF MaskState, controller, tables, IInv

LEMMA ConcatIs ==
  ASSUME NEW S, NEW s \in Seq(S), NEW t \in Seq(S)
  PROVE  /\ s \o t \in Seq(S) /\ Len(s \o t) = Len(s) + Len(t)
         /\ \A i \in 1..Len(s) : (s \o t)[i] = s[i]
         /\ \A i \in 1..Len(t) : (s \o t)[Len(s) + i] = t[i]
  OBVIOUS

LEMMA SaveIInv == IInv /\ Save => IInv'
<1> SUFFICES ASSUME IInv, Save PROVE IInv'
  OBVIOUS
<1> DEFINE p == [w \in 1..SavedWords |-> <<"saved", regs>>]
           new == [Running EXCEPT !.at = "report"]
<1>1. /\ Shape /\ Paths /\ Serving /\ Masks /\ activations # <<>> /\ Running.at = "save"
      /\ UNCHANGED <<main, controller, tables>>
      /\ stack' = p \o stack /\ regs' = Level /\ Go("report")
  BY DEF IInv, Save, At
<1>2. /\ Running = activations[1] /\ Running \in ActivationsOf
      /\ Level \in Nat \ {0} /\ 1 \in 1..Level /\ regs \in Nat
  BY <1>1, RunningIs DEF Shape
<1>3. Running.vector # Vector(0)
  BY <1>1, <1>2 DEF Paths
<1>4. new.at = "report" /\ new.vector = Running.vector /\ new.was = Running.was
  BY <1>2 DEF ActivationsOf
<1>5. Size(Running) = 5
  BY <1>1 DEF Size, Saving
<1>6. Size(new) = 5 + 11
  <2> HIDE DEF new
  <2> QED
    BY <1>4 DEF Size, Saving, SavedWords
<1>7. stack \in Seq(Words) /\ regs = Running.was
  BY <1>1, <1>2, TopIs DEF Shape, Registers, Own, Saving
<1>8. p \in Seq(Words) /\ Len(p) = 11 /\ \A w \in 1..11 : p[w] = <<"saved", regs>>
  <2>1. <<"saved", regs>> \in Words
    BY <1>2 DEF Words
  <2> QED
    BY <2>1 DEF SavedWords
<1> HIDE DEF new, p
<1>9. ASSUME NEW r \in Seq(Words), OnTop(stack, Running, Level - 1, r)
      PROVE  stack' \in Seq(Words) /\ OnTop(stack', new, Level - 1, r)
  <2>1. stack[1] = StubNumber(Running.vector) /\ Len(stack) = 5 + Len(r)
    BY <1>1, <1>5, <1>9 DEF OnTop
  <2> DEFINE t == p \o stack
  <2>5. /\ \A w \in 1..Len(p) : t[w] = p[w]
        /\ \A w \in 1..Len(stack) : t[Len(p) + w] = stack[w]
    <3>1. p \in Seq(Words) /\ stack \in Seq(Words)
      BY <1>7, <1>8
    <3> QED
      BY <3>1, ConcatIs
  <2> HIDE DEF t
  <2>2. \A w \in 1..SavedWords : t[w] = <<"saved", new.was>>
    BY <1>4, <1>7, <1>8, <2>5 DEF SavedWords
  <2>3. t[SavedWords + 1] = StubNumber(new.vector)
    <3>1. 1 \in 1..Len(stack)
      BY <2>1
    <3> QED
      BY <1>4, <1>8, <2>1, <2>5, <3>1 DEF SavedWords
  <2>4. 5 \in {3, 4, 5} /\ new.at \notin {"code", "save"}
    BY <1>4
  <2> QED
    BY <1>1, <1>5, <1>6, <1>7, <1>8, <1>9, <2>2, <2>3, <2>4, PushedOnTop DEF t
<1>10. stack' \in Seq(Words)
  BY <1>1, <1>7, <1>8
<1>11. regs' = Own(new, Level)
  BY <1>1, <1>4 DEF Own, Saving
<1>12. /\ Shape' /\ Level' = Level /\ activations'[1] = new
       /\ \A k \in 2..Level : activations'[k] = activations[k]
  BY <1>1, <1>9, <1>10, <1>11, GoShape DEF Numbered, Saving, new
<1>13. Paths' /\ Serving'
  <2>1. isr' = isr /\ g_irq_handlers' = g_irq_handlers
    BY <1>1 DEF controller, tables
  <2> QED
    BY <1>1, <1>3, <1>12, <2>1, GoKeeps DEF new
<1> QED
  BY <1>1, <1>12, <1>13, SameMasks DEF MaskState, controller, tables, IInv

LEMMA ReportIInv == IInv /\ Report => IInv'
<1> SUFFICES ASSUME IInv, Report PROVE IInv'
  OBVIOUS
<1> DEFINE place == IF InterruptNumber \in IrqStubs THEN "ack" ELSE "restore"
           new == [Running EXCEPT !.at = place]
<1>1. /\ Shape /\ Paths /\ Serving /\ Masks /\ activations # <<>> /\ Running.at = "report"
      /\ UNCHANGED <<main, stack, regs, controller, tables>> /\ Go(place)
  BY DEF IInv, Report, At
<1>2. place \in {"ack", "restore"} /\ (Running.vector \in Faults => place # "ack")
  <2>1. Running.at \in Saving
    BY <1>1 DEF Saving
  <2>2. InterruptNumber = StubNumber(Running.vector) /\ Running.vector \in Faults \cup IrqVectors
    BY <1>1, <2>1, InterruptNumberIs DEF ActivationsOf
  <2> QED
    BY <2>2, VectorIs
<1> HIDE DEF place
<1>3. /\ Running = activations[1] /\ Running \in ActivationsOf
      /\ Level \in Nat \ {0} /\ 1 \in 1..Level
  BY <1>1, RunningIs
<1>4. Running.vector # Vector(0)
  BY <1>1, <1>3 DEF Paths
<1>5. new.at = place /\ new.vector = Running.vector /\ new.was = Running.was
  BY <1>3 DEF ActivationsOf
<1>6. Size(Running) = Size(new) /\ new.at \in Saving /\ Running.at \in Saving
  <2> HIDE DEF new
  <2> QED
    BY <1>1, <1>2, <1>5 DEF Size, Saving
<1> HIDE DEF new
<1>7. ASSUME NEW r \in Seq(Words), OnTop(stack, Running, Level - 1, r)
      PROVE  OnTop(stack', new, Level - 1, r)
  <2>1. stack' = stack /\ new.at \notin {"code", "save"}
    BY <1>1, <1>6 DEF Saving
  <2> QED
    BY <1>5, <1>6, <1>7, <2>1 DEF OnTop
<1>8. stack' \in Seq(Words)
  BY <1>1, TopIs
<1>9. regs' = Own(new, Level)
  BY <1>1, <1>3, <1>6 DEF Shape, Registers, Own
<1>10. /\ Shape' /\ Level' = Level /\ activations'[1] = new
       /\ \A k \in 2..Level : activations'[k] = activations[k]
  BY <1>1, <1>2, <1>7, <1>8, <1>9, GoShape DEF Numbered, Saving, new
<1>11. Paths' /\ Serving'
  <2>1. isr' = isr /\ g_irq_handlers' = g_irq_handlers /\ place # "code"
    BY <1>1, <1>2 DEF controller, tables
  <2> QED
    BY <1>1, <1>2, <1>4, <1>10, <2>1, GoKeeps DEF new
<1> QED
  BY <1>1, <1>10, <1>11, SameMasks DEF MaskState, controller, tables, IInv

LEMMA AckIInv == IInv /\ Ack => IInv'
<1> SUFFICES ASSUME IInv, Ack PROVE IInv'
  OBVIOUS
<1> DEFINE new == [Running EXCEPT !.at = "restore"]
<1>1. /\ Shape /\ Paths /\ Serving /\ Masks /\ activations # <<>> /\ Running.at = "ack"
      /\ UNCHANGED <<main, stack, regs, irr, imr, tables>> /\ Go("restore")
  BY DEF IInv, Ack, At
<1>2. isr' = isr \ {Running.vector - FIRST_EXTERNAL_INTERRUPT} /\ Unacknowledged(Running)
  BY AckedLineIs DEF Ack
<1>3. /\ Running = activations[1] /\ Running \in ActivationsOf
      /\ Level \in Nat \ {0} /\ 1 \in 1..Level
  BY <1>1, RunningIs
<1>4. Running.vector # Vector(0)
  BY <1>1, <1>3 DEF Paths
<1>5. new.at = "restore" /\ new.vector = Running.vector /\ new.was = Running.was
  BY <1>3 DEF ActivationsOf
<1>6. Size(Running) = Size(new) /\ new.at \in Saving /\ Running.at \in Saving
  <2> HIDE DEF new
  <2> QED
    BY <1>1, <1>5 DEF Size, Saving
<1> HIDE DEF new
<1>7. ASSUME NEW r \in Seq(Words), OnTop(stack, Running, Level - 1, r)
      PROVE  OnTop(stack', new, Level - 1, r)
  <2>1. stack' = stack /\ new.at \notin {"code", "save"}
    BY <1>1, <1>5
  <2> QED
    BY <1>5, <1>6, <1>7, <2>1 DEF OnTop
<1>8. stack' \in Seq(Words)
  BY <1>1, TopIs
<1>9. regs' = Own(new, Level)
  BY <1>1, <1>3, <1>6 DEF Shape, Registers, Own
<1>10. /\ Shape' /\ Level' = Level /\ activations'[1] = new
       /\ \A k \in 2..Level : activations'[k] = activations[k]
  BY <1>1, <1>7, <1>8, <1>9, GoShape DEF Numbered, Saving, new
<1>11. Paths' /\ Serving'
  <2>1. g_irq_handlers' = g_irq_handlers
    BY <1>1 DEF tables
  <2> QED
    BY <1>1, <1>2, <1>4, <1>10, <2>1, GoKeeps DEF new
<1>12. Masks'
  BY <1>1, <1>2 DEF Masks, MaskIsCopied, tables
<1> QED
  BY <1>10, <1>11, <1>12 DEF IInv

LEMMA RestoreIInv == IInv /\ Restore => IInv'
<1> SUFFICES ASSUME IInv, Restore PROVE IInv'
  OBVIOUS
<1> DEFINE new == [Running EXCEPT !.at = "iret"]
<1>1. /\ Shape /\ Paths /\ Serving /\ Masks /\ activations # <<>> /\ Running.at = "restore"
      /\ UNCHANGED <<main, controller, tables>> /\ Go("iret")
      /\ regs' = Head(stack)[2] /\ stack' = SubSeq(stack, 14, Len(stack))
  BY DEF IInv, Restore, At, SavedWords
<1>2. /\ Running = activations[1] /\ Running \in ActivationsOf
      /\ Level \in Nat \ {0} /\ 1 \in 1..Level
  BY <1>1, RunningIs
<1>3. new.at = "iret" /\ new.vector = Running.vector /\ new.was = Running.was
  BY <1>2 DEF ActivationsOf
<1>4. Size(Running) = 16 /\ Running.at \in Saving
  BY <1>1 DEF Size, Saving, SavedWords
<1>5. Size(new) = 3
  <2> HIDE DEF new
  <2> QED
    BY <1>3 DEF Size, Saving
<1>6. stack \in Seq(Words)
  BY <1>1, TopIs
<1> HIDE DEF new
<1>7. ASSUME NEW r \in Seq(Words), OnTop(stack, Running, Level - 1, r)
      PROVE  stack' \in Seq(Words) /\ OnTop(stack', new, Level - 1, r) /\ Head(stack)[2] = new.was
  <2>1. /\ Len(stack) = 16 + Len(r) /\ \A i \in 1..Len(r) : stack[16 + i] = r[i]
        /\ stack[16 - 2] = <<"eip", Level - 1>> /\ stack[16 - 1] = <<"cs", Level - 1>>
        /\ stack[16] = <<"eflags", Level - 1>>
    BY <1>4, <1>7 DEF OnTop
  <2>2. \A w \in 1..11 : stack[w] = <<"saved", new.was>>
    BY <1>3, <1>4, <1>7 DEF OnTop, SavedWords
  <2>3. stack # <<>> /\ 13 \in Nat /\ 13 <= Len(stack) /\ 13 + 1 = 14
    BY <1>6, <2>1
  <2>4. /\ stack' \in Seq(Words) /\ Len(stack') = Len(stack) - 13
        /\ \A i \in 1..Len(stack') : stack'[i] = stack[13 + i]
    <3> DEFINE t == SubSeq(stack, 13 + 1, Len(stack))
    <3>1. /\ t \in Seq(Words) /\ Len(t) = Len(stack) - 13
          /\ \A i \in 1..Len(t) : t[i] = stack[13 + i]
      BY <1>6, <2>3, DropIs
    <3>2. stack' = t
      BY <1>1, <2>3
    <3> HIDE DEF t
    <3> QED
      BY <3>1, <3>2
  <2>5. Len(stack') = 3 + Len(r)
    BY <2>1, <2>4
  <2>6. ASSUME NEW i \in 1..Len(r) PROVE stack'[3 + i] = r[i]
    <3>1. 3 + i \in 1..Len(stack') /\ 13 + (3 + i) = 16 + i
      BY <2>5
    <3> QED
      BY <2>1, <2>4, <3>1
  <2>7. /\ 1 \in 1..Len(stack') /\ 13 + 1 = 16 - 2 /\ 3 - 2 = 1
        /\ 2 \in 1..Len(stack') /\ 13 + 2 = 16 - 1 /\ 3 - 1 = 2
        /\ 3 \in 1..Len(stack') /\ 13 + 3 = 16
    BY <2>5
  <2>8. /\ stack'[3 - 2] = <<"eip", Level - 1>> /\ stack'[3 - 1] = <<"cs", Level - 1>>
        /\ stack'[3] = <<"eflags", Level - 1>>
    BY <2>1, <2>4, <2>7
  <2>9. new.at \notin Saving \cup {"code", "save"}
    BY <1>3 DEF Saving
  <2>10. OnTop(stack', new, Level - 1, r)
    BY <1>5, <2>5, <2>6, <2>8, <2>9 DEF OnTop
  <2>11. Head(stack)[2] = new.was
    <3>1. Head(stack) = stack[1] /\ 1 \in 1..11
      BY <1>6, <2>3
    <3> QED
      BY <2>2, <3>1
  <2> QED
    BY <2>4, <2>10, <2>11
<1>8. stack' \in Seq(Words) /\ regs' = new.was
  BY <1>1, <1>7, TopIs
<1>9. regs' = Own(new, Level)
  BY <1>3, <1>8 DEF Own, Saving
<1>10. /\ Shape' /\ Level' = Level /\ activations'[1] = new
       /\ \A k \in 2..Level : activations'[k] = activations[k]
  BY <1>1, <1>7, <1>8, <1>9, GoShape DEF new
<1>11. Paths' /\ Serving'
  <2>1. isr' = isr /\ g_irq_handlers' = g_irq_handlers
    BY <1>1 DEF controller, tables
  <2> QED
    BY <1>1, <1>10, <2>1, GoKeeps DEF new
<1> QED
  BY <1>1, <1>10, <1>11, SameMasks DEF MaskState, controller, tables, IInv

LEMMA IretIInv == IInv /\ Iret => IInv'
<1> SUFFICES ASSUME IInv, Iret PROVE IInv'
  OBVIOUS
<1>1. /\ Shape /\ Paths /\ Serving /\ Masks /\ UNCHANGED <<main, controller, tables>>
      /\ activations # <<>>
  BY DEF IInv, Iret, At
<1>2. /\ Shape' /\ Level' = Level - 1 /\ Level \in Nat \ {0}
      /\ \A k \in 1..Level - 1 : activations'[k] = activations[k + 1] /\ k + 1 \in 1..Level
  BY <1>1, IretShape, RunningIs
<1>3. Paths'
  <2> SUFFICES ASSUME NEW k \in 1..Level - 1
               PROVE  LET a == activations[k + 1]
                      IN  /\ a.vector = Vector(0) => a.at = "iret"
                          /\ a.vector \in Faults => a.at # "ack"
                          /\ a.at = "code" => a.vector \notin PushesErrorCode /\ a.vector \in Faults
    BY <1>2 DEF Paths
  <2> QED
    BY <1>1, <1>2 DEF Paths
<1>4. Serving'
  <2>1. isr' = isr /\ g_irq_handlers' = g_irq_handlers
    BY <1>1 DEF controller, tables
  <2>2. ASSUME NEW k \in 1..Level - 1, Unacknowledged(activations[k + 1])
        PROVE  activations[k + 1].vector - FIRST_EXTERNAL_INTERRUPT \in isr \cap g_irq_handlers
    BY <1>1, <1>2, <2>2 DEF Serving
  <2>3. ASSUME NEW j \in 1..Level - 1, NEW k \in 1..Level - 1,
               Unacknowledged(activations[j + 1]), Unacknowledged(activations[k + 1]),
               activations[j + 1].vector = activations[k + 1].vector
        PROVE  j = k
    <3>1. j + 1 = k + 1
      BY <1>1, <1>2, <2>3 DEF Serving
    <3> QED
      BY <3>1
  <2> QED
    BY <1>2, <2>1, <2>2, <2>3 DEF Serving, Unacknowledged
<1> QED
  BY <1>1, <1>2, <1>3, <1>4, SameMasks DEF MaskState, controller, tables, IInv

-----------------------------------------------------------------------------
(* A new activation.                                                       *)

LEMMA PushKeeps ==
  ASSUME Paths, Serving, Level \in Nat, Level' = Level + 1,
         \A k \in 1..Level : activations'[k + 1] = activations[k],
         NEW v, NEW place \in {"stub", "iret"},
         activations'[1].vector = v, activations'[1].at = place,
         v = Vector(0) => place = "iret",
         g_irq_handlers' = g_irq_handlers, isr \subseteq isr',
         v \in IrqVectors /\ place = "stub" =>
           /\ v - FIRST_EXTERNAL_INTERRUPT \in isr' \cap g_irq_handlers
           /\ v - FIRST_EXTERNAL_INTERRUPT \notin isr
  PROVE  Paths' /\ Serving'
<1>1. ASSUME NEW k \in 1..Level', k # 1
      PROVE  k - 1 \in 1..Level /\ (k - 1) + 1 = k /\ activations'[k] = activations[k - 1]
  <2>1. k - 1 \in 1..Level /\ (k - 1) + 1 = k
    BY <1>1
  <2> QED
    BY <2>1
<1>2. Paths'
  <2> SUFFICES ASSUME NEW k \in 1..Level'
               PROVE  LET a == activations'[k]
                      IN  /\ a.vector = Vector(0) => a.at = "iret"
                          /\ a.vector \in Faults => a.at # "ack"
                          /\ a.at = "code" => a.vector \notin PushesErrorCode /\ a.vector \in Faults
    BY DEF Paths
  <2>1. CASE k = 1
    BY <2>1
  <2>2. CASE k # 1
    BY <1>1, <2>2 DEF Paths
  <2> QED
    BY <2>1, <2>2
<1>3. Unacknowledged(activations'[1]) => v \in IrqVectors /\ place = "stub"
  BY DEF Unacknowledged
<1>4. ASSUME NEW k \in 1..Level', Unacknowledged(activations'[k])
      PROVE  activations'[k].vector - FIRST_EXTERNAL_INTERRUPT \in isr' \cap g_irq_handlers'
  <2>1. CASE k = 1
    BY <1>3, <1>4, <2>1
  <2>2. CASE k # 1
    BY <1>1, <1>4, <2>2 DEF Serving
  <2> QED
    BY <2>1, <2>2
<1>5. ASSUME NEW k \in 1..Level', k # 1, Unacknowledged(activations'[k]),
             Unacknowledged(activations'[1])
      PROVE  activations'[k].vector # activations'[1].vector
  <2>1. activations'[k].vector - FIRST_EXTERNAL_INTERRUPT \in isr
    BY <1>1, <1>5 DEF Serving
  <2> QED
    BY <1>3, <1>5, <2>1
<1>6. ASSUME NEW j \in 1..Level', NEW k \in 1..Level',
             Unacknowledged(activations'[j]), Unacknowledged(activations'[k]),
             activations'[j].vector = activations'[k].vector
      PROVE  j = k
  <2>1. CASE j = 1 \/ k = 1
    BY <1>5, <1>6, <2>1
  <2>2. CASE j # 1 /\ k # 1
    <3>1. /\ j - 1 \in 1..Level /\ activations'[j] = activations[j - 1]
          /\ k - 1 \in 1..Level /\ activations'[k] = activations[k - 1]
      BY <1>1, <2>2
    <3>2. j - 1 = k - 1
      BY <1>6, <3>1 DEF Serving
    <3> QED
      BY <3>2
  <2> QED
    BY <2>1, <2>2
<1>7. Serving'
  BY <1>4, <1>6 DEF Serving, Unacknowledged
<1> QED
  BY <1>2, <1>7

LEMMA FaultIInv == IInv /\ (\E v \in Faults : Fault(v)) => IInv'
<1> SUFFICES ASSUME IInv, NEW v \in Faults, Fault(v) PROVE IInv'
  OBVIOUS
<1> DEFINE frame == (IF v \in PushesErrorCode THEN <<<<"code", Level>>>> ELSE <<>>) \o Frame(Level)
           new == [vector |-> v, at |-> "stub", was |-> regs]
<1>1. /\ Shape /\ Paths /\ Serving /\ Masks /\ UNCHANGED <<main, controller, tables>>
      /\ Enter(v, frame, "stub") /\ Level \in Nat /\ stack \in Seq(Words)
  <2>1. activations \in Seq(ActivationsOf) /\ stack \in Seq(Words)
    BY DEF IInv, Shape, Layout
  <2>2. Level \in Nat
    BY <2>1 DEF Level
  <2>3. Enter(v, frame, "stub") /\ UNCHANGED <<controller, tables>>
    BY DEF Fault
  <2>4. main' = main
    BY <2>3 DEF Enter
  <2> HIDE DEF frame
  <2> QED
    BY <2>1, <2>2, <2>3, <2>4 DEF IInv
<1>2. /\ frame \in Seq(Words) /\ Len(frame) = IF v \in PushesErrorCode THEN 4 ELSE 3
      /\ frame[Len(frame) - 2] = <<"eip", Level>> /\ frame[Len(frame) - 1] = <<"cs", Level>>
      /\ frame[Len(frame)] = <<"eflags", Level>>
  <2>1. CASE v \in PushesErrorCode
    BY <1>1, <2>1 DEF Frame, Words
  <2>2. CASE v \notin PushesErrorCode
    BY <1>1, <2>2 DEF Frame, Words
  <2> QED
    BY <2>1, <2>2
<1>3. new.at = "stub" /\ new.vector = v /\ Size(new) = Len(frame)
  <2>1. new.at = "stub" /\ new.vector = v
    OBVIOUS
  <2> HIDE DEF frame, new
  <2> QED
    BY <1>2, <2>1 DEF Size, Saving
<1> HIDE DEF frame, new
<1>4. frame \o stack \in Seq(Words) /\ OnTop(frame \o stack, new, Level, stack)
  <2> DEFINE t == frame \o stack
  <2>1. /\ t \in Seq(Words) /\ Len(t) = Len(frame) + Len(stack)
        /\ \A i \in 1..Len(frame) : t[i] = frame[i]
        /\ \A i \in 1..Len(stack) : t[Len(frame) + i] = stack[i]
    <3>1. frame \in Seq(Words) /\ stack \in Seq(Words)
      BY <1>1, <1>2
    <3> QED
      BY <3>1, ConcatIs
  <2> HIDE DEF t
  <2>2. /\ Len(frame) - 2 \in 1..Len(frame) /\ Len(frame) - 1 \in 1..Len(frame)
        /\ Len(frame) \in 1..Len(frame)
    BY <1>2
  <2>3. OnTop(t, new, Level, stack)
    BY <1>2, <1>3, <2>1, <2>2 DEF OnTop, Saving
  <2> QED
    BY <2>1, <2>3 DEF t
<1>5. /\ Shape' /\ Level' = Level + 1 /\ activations'[1] = new
      /\ \A k \in 1..Level : activations'[k + 1] = activations[k]
  BY <1>1, <1>4, PushShape DEF new
<1>6. Paths' /\ Serving'
  <2>1. isr' = isr /\ g_irq_handlers' = g_irq_handlers
    BY <1>1 DEF controller, tables
  <2>2. v \notin IrqVectors /\ v # Vector(0)
    BY VectorIs DEF IrqVectors, LinesAssumption
  <2> QED
    BY <1>1, <1>3, <1>5, <2>1, <2>2, PushKeeps
<1> QED
  BY <1>1, <1>5, <1>6, SameMasks DEF MaskState, controller, tables, IInv

LEMMA DeliverIInv == IInv /\ (\E i \in Lines : Deliver(i)) => IInv'
<1> SUFFICES ASSUME IInv, NEW i \in Lines, Deliver(i) PROVE IInv'
  OBVIOUS
<1> DEFINE frame == Frame(Level)
           new == [vector |-> Vector(i), at |-> Gate(i), was |-> regs]
<1>1. /\ Shape /\ Paths /\ Serving /\ Masks /\ UNCHANGED <<imr, tables>>
      /\ Enter(Vector(i), frame, Gate(i)) /\ Level \in Nat /\ stack \in Seq(Words)
      /\ i \in irr \ imr /\ (\A j \in isr : i < j) /\ irr' = irr \ {i} /\ isr' = isr \cup {i}
      /\ main # "configure_pic" /\ main' = main
  <2>1. activations \in Seq(ActivationsOf) /\ stack \in Seq(Words)
    BY DEF IInv, Shape, Layout
  <2>2. Level \in Nat
    BY <2>1 DEF Level
  <2>3. /\ Enter(Vector(i), frame, Gate(i)) /\ UNCHANGED <<imr, tables>> /\ main # "configure_pic"
        /\ i \in irr \ imr /\ (\A j \in isr : i < j) /\ irr' = irr \ {i} /\ isr' = isr \cup {i}
    BY DEF Deliver, InterruptsEnabled
  <2>4. main' = main
    BY <2>3 DEF Enter
  <2> HIDE DEF frame
  <2> QED
    BY <2>1, <2>2, <2>3, <2>4 DEF IInv
<1>2. i \in 0..7 /\ i # 2 /\ Vector(i) \in IrqVectors /\ Vector(i) - FIRST_EXTERNAL_INTERRUPT = i
  BY DEF IrqVectors, Vector, FIRST_EXTERNAL_INTERRUPT
<1>3. /\ Gate(i) \in {"stub", "iret"} /\ (i = 0 <=> Gate(i) = "iret")
      /\ (Vector(i) = Vector(0) <=> i = 0)
  BY <1>2 DEF Gate, Vector, FIRST_EXTERNAL_INTERRUPT
<1>4. i \notin isr /\ (i # 0 => i \in g_irq_handlers)
  <2>1. i \notin isr
    BY <1>1, <1>2
  <2>2. i \in 0..15 \ g_irq_mask
    BY <1>1, <1>2 DEF Masks, MaskIsCopied
  <2> QED
    BY <1>1, <1>2, <2>1, <2>2 DEF Masks
<1>5. /\ frame \in Seq(Words) /\ Len(frame) = 3 /\ frame[3 - 2] = <<"eip", Level>>
      /\ frame[3 - 1] = <<"cs", Level>> /\ frame[3] = <<"eflags", Level>>
  BY <1>1 DEF Frame, Words
<1>6. new.at \in {"stub", "iret"} /\ new.vector = Vector(i) /\ Size(new) = 3
  <2>1. Vector(i) \notin PushesErrorCode
    BY <1>2 DEF Vector, FIRST_EXTERNAL_INTERRUPT, PushesErrorCode
  <2> QED
    <3>1. new.at = Gate(i) /\ new.vector = Vector(i)
      OBVIOUS
    <3> HIDE DEF new
    <3> QED
      BY <1>3, <2>1, <3>1 DEF Size, Saving
<1> HIDE DEF frame, new
<1>7. frame \o stack \in Seq(Words) /\ OnTop(frame \o stack, new, Level, stack)
  <2> DEFINE t == frame \o stack
  <2>1. /\ t \in Seq(Words) /\ Len(t) = Len(frame) + Len(stack)
        /\ \A w \in 1..Len(frame) : t[w] = frame[w]
        /\ \A w \in 1..Len(stack) : t[Len(frame) + w] = stack[w]
    <3>1. frame \in Seq(Words) /\ stack \in Seq(Words)
      BY <1>1, <1>5
    <3> QED
      BY <3>1, ConcatIs
  <2> HIDE DEF t
  <2>2. 3 - 2 \in 1..Len(frame) /\ 3 - 1 \in 1..Len(frame) /\ 3 \in 1..Len(frame)
    BY <1>5
  <2>3. OnTop(t, new, Level, stack)
    BY <1>5, <1>6, <2>1, <2>2 DEF OnTop, Saving
  <2> QED
    BY <2>1, <2>3 DEF t
<1>8. /\ Shape' /\ Level' = Level + 1 /\ activations'[1] = new
      /\ \A k \in 1..Level : activations'[k + 1] = activations[k]
  BY <1>1, <1>2, <1>3, <1>7, PushShape DEF new
<1>9. Paths' /\ Serving'
  <2>1. g_irq_handlers' = g_irq_handlers /\ new.at = Gate(i)
    BY <1>1 DEF tables, new
  <2>2. Vector(i) - FIRST_EXTERNAL_INTERRUPT \in isr' /\ Vector(i) - FIRST_EXTERNAL_INTERRUPT \notin isr
    BY <1>1, <1>2, <1>4
  <2>3. Gate(i) = "stub" => Vector(i) - FIRST_EXTERNAL_INTERRUPT \in g_irq_handlers
    BY <1>2, <1>3, <1>4
  <2> HIDE DEF Gate
  <2> QED
    BY <1>1, <1>3, <1>6, <1>8, <2>1, <2>2, <2>3, PushKeeps
<1>10. Masks'
  BY <1>1 DEF Masks, MaskIsCopied, tables
<1> QED
  BY <1>8, <1>9, <1>10 DEF IInv

-----------------------------------------------------------------------------
(* main, devices, and the rest.                                            *)

LEMMA SameShape ==
  ASSUME Shape, Paths, UNCHANGED <<activations, stack, regs>>
  PROVE  Shape' /\ Paths' /\ Level' = Level
<1>1. activations' = activations /\ stack' = stack /\ regs' = regs
  OBVIOUS
<1>2. Level' = Level
  BY <1>1 DEF Level
<1>3. Layout'
  BY <1>1, <1>2 DEF Shape, Layout
<1>4. Registers'
  BY <1>1, <1>2 DEF Shape, Registers
<1>5. Paths'
  BY <1>1, <1>2 DEF Paths
<1> QED
  BY <1>1, <1>2, <1>3, <1>4, <1>5 DEF Shape

LEMMA NobodyServes ==
  ASSUME activations' = <<>>
  PROVE  Serving'
<1>1. Level' = 0
  BY DEF Level
<1> QED
  BY <1>1 DEF Serving

LEMMA MainIInv == IInv /\ Main => IInv'
<1> SUFFICES ASSUME IInv, Main PROVE IInv'
  OBVIOUS
<1>1. activations = <<>> /\ UNCHANGED <<activations, stack, regs, irr>>
  BY DEF Main, ConfigurePic, Sti, Devices, Timer, EnableIrq, InstallIrqHandler, Call
<1>2. Shape' /\ Paths' /\ Serving'
  BY <1>1, SameShape, NobodyServes DEF IInv
<1> DEFINE Enabling(i) ==
             /\ main # "configure_pic" /\ main' \notin {"configure_pic", "keyboard", "floppy"}
             /\ i \in {0} \cup g_irq_handlers /\ i \in 0..7
             /\ SetIrqMask(g_irq_mask \ {i}) /\ UNCHANGED <<isr, g_irq_handlers>>
           Installing(i) ==
             /\ main # "configure_pic" /\ main' # "configure_pic"
             /\ (main' = "keyboard" => i = 1) /\ (main' = "floppy" => i = 6)
             /\ g_irq_handlers' = g_irq_handlers \cup {i} /\ UNCHANGED <<isr, imr, g_irq_mask>>
<1>3. CASE ConfigurePic
  BY <1>1, <1>2, <1>3 DEF ConfigurePic, Call, IInv, Masks, MaskIsCopied, tables
<1>4. CASE Sti
  BY <1>1, <1>2, <1>4 DEF Sti, Call, IInv, Masks, MaskIsCopied, tables
<1>5. ASSUME NEW i, Enabling(i) PROVE IInv'
  <2>1. imr = g_irq_mask /\ g_irq_mask \subseteq 0..15
    BY <1>5 DEF IInv, Masks, MaskIsCopied
  <2>2. g_irq_mask' = g_irq_mask \ {i} /\ imr' = g_irq_mask \ {i}
    <3>1. /\ MASTER(g_irq_mask \ {i}) \cup SLAVE(g_irq_mask \ {i}) = g_irq_mask \ {i}
          /\ SLAVE(g_irq_mask) = SLAVE(g_irq_mask \ {i})
      <4>1. i \in 0..7 /\ (0..7) \cap (8..15) = {} /\ 0..15 = (0..7) \cup (8..15)
        BY <1>5
      <4> HIDE DEF Enabling
      <4> QED
        BY <2>1, <4>1 DEF MASTER, SLAVE
    <3> QED
      BY <1>5, <2>1, <3>1 DEF SetIrqMask
  <2>3. Masks'
    BY <1>1, <1>5, <2>1, <2>2 DEF IInv, Masks, MaskIsCopied
  <2> QED
    BY <1>2, <2>3 DEF IInv
<1>6. ASSUME NEW i, Installing(i) PROVE IInv'
  <2>1. Masks'
    BY <1>1, <1>6 DEF IInv, Masks, MaskIsCopied
  <2> QED
    BY <1>2, <2>1 DEF IInv
<1>7. CASE Devices
  <2>1. CASE InstallIrqHandler("init_keyboard", 1, "keyboard")
    BY <1>6, <2>1 DEF InstallIrqHandler, Call
  <2>2. CASE InstallIrqHandler("init_floppy", 6, "floppy")
    BY <1>6, <2>2 DEF InstallIrqHandler, Call
  <2>3. CASE EnableIrq("keyboard", 1, "init_floppy")
    <3>1. Enabling(1)
      BY <2>3 DEF EnableIrq, Call, IInv, Masks
    <3> QED
      BY <1>5, <3>1
  <2>4. CASE EnableIrq("floppy", 6, "timer")
    <3>1. Enabling(6)
      BY <2>4 DEF EnableIrq, Call, IInv, Masks
    <3> QED
      BY <1>5, <3>1
  <2> QED
    BY <1>7, <2>1, <2>2, <2>3, <2>4 DEF Devices
<1>8. CASE Timer
  <2>1. CASE EnableIrq("init_idt", 0, "sti")
    <3>1. Enabling(0)
      BY <2>1 DEF EnableIrq, Call
    <3> QED
      BY <1>5, <3>1
  <2>2. CASE EnableIrq("enable timer", 0, "loop")
    <3>1. Enabling(0)
      BY <2>2 DEF EnableIrq, Call
    <3> QED
      BY <1>5, <3>1
  <2>3. CASE InstallIrqHandler("timer", 0, "enable timer")
    BY <1>6, <2>3 DEF InstallIrqHandler, Call
  <2> QED
    BY <1>8, <2>1, <2>2, <2>3 DEF Timer
<1> QED
  BY <1>3, <1>4, <1>7, <1>8 DEF Main

LEMMA RaiseIInv == IInv /\ (\E i \in Lines : Raise(i)) => IInv'
<1> SUFFICES ASSUME IInv, NEW i \in Lines, Raise(i) PROVE IInv'
  OBVIOUS
<1>1. /\ main # "configure_pic" /\ irr' = irr \cup {i}
      /\ UNCHANGED <<main, activations, stack, regs, isr, imr, g_irq_mask, g_irq_handlers>>
  BY DEF Raise, tables
<1>2. Shape' /\ Paths' /\ Level' = Level
  BY <1>1, SameShape DEF IInv
<1>3. Serving'
  BY <1>1, <1>2 DEF IInv, Serving, Unacknowledged
<1>4. Masks'
  BY <1>1 DEF IInv, Masks, MaskIsCopied
<1> QED
  BY <1>2, <1>3, <1>4 DEF IInv

LEMMA InitIInv == Init => IInv
<1> SUFFICES ASSUME Init PROVE IInv
  OBVIOUS
<1>1. /\ main = "configure_pic" /\ activations = <<>> /\ stack = <<>> /\ regs = 0 /\ Level = 0
      /\ irr = {} /\ isr = {} /\ imr \in {{}, 0..15} /\ g_irq_mask = 0..15 \ {2}
  BY DEF Init, Level
<1>2. Layout
  <2> DEFINE below == [k \in 1..1 |-> <<>>]
  <2>1. below \in [1..Level + 1 -> Seq(Words)] /\ below[1] = stack
    BY <1>1
  <2> HIDE DEF below
  <2>2. \A k \in 1..Level : OnTop(below[k], activations[k], Level - k, below[k + 1])
    BY <1>1
  <2> QED
    BY <1>1, <2>1, <2>2 DEF Layout
<1>3. Shape /\ Paths /\ Serving
  BY <1>1, <1>2 DEF Shape, Registers, Paths, Serving
<1>4. Masks
  BY <1>1 DEF Masks, MaskIsCopied
<1> QED
  BY <1>3, <1>4 DEF IInv

LEMMA NextIInv == IInv /\ [Next]_vars => IInv'
<1> SUFFICES ASSUME IInv, [Next]_vars PROVE IInv'
  OBVIOUS
<1>1. CASE UNCHANGED vars
  <2>1. UNCHANGED <<main, activations, stack, regs, irr, isr, imr, g_irq_mask, g_irq_handlers>>
    BY <1>1 DEF vars, controller, tables
  <2>2. Shape' /\ Paths' /\ Level' = Level
    BY <2>1, SameShape DEF IInv
  <2>3. Serving'
    BY <2>1, <2>2 DEF IInv, Serving, Unacknowledged
  <2> QED
    BY <2>1, <2>2, <2>3, SameMasks DEF IInv, MaskState
<1>2. CASE Main
  BY <1>2, MainIInv
<1>3. CASE \E i \in Lines : Raise(i)
  BY <1>3, RaiseIInv
<1>4. CASE \E i \in Lines : Deliver(i)
  BY <1>4, DeliverIInv
<1>5. CASE \E v \in Faults : Fault(v)
  BY <1>5, FaultIInv
<1>6. CASE InStub
  BY <1>6, StubIInv, PushErrorCodeIInv, SaveIInv, ReportIInv, AckIInv, RestoreIInv, IretIInv
  DEF InStub
<1>7. CASE Loop
  BY <1>1, <1>7 DEF Loop
<1> QED
  BY <1>1, <1>2, <1>3, <1>4, <1>5, <1>6, <1>7 DEF Next

-----------------------------------------------------------------------------
(* The theorems.                                                           *)

\* Whatever nests in what, the stack is made of what the activations have put
\* there, the registers hold what the running code left in them, and a line is
\* in service until its own stub acknowledges it.
THEOREM Invariant == Spec => []IInv
<1>1. Init => IInv
  BY InitIInv
<1>2. IInv /\ [Next]_vars => IInv'
  BY NextIInv
<1> QED
  BY <1>1, <1>2, PTL DEF Spec

\* A stub, or the timer's bare iretd, returns to where it interrupted, with the
\* registers it was entered with.
THEOREM ReturnsHome == Spec => []ReturnsWhereInterrupted
<1>1. IInv => ReturnsWhereInterrupted
  <2> SUFFICES ASSUME IInv, At("iret")
               PROVE  regs = Running.was /\ SubSeq(stack, 1, 3) = Frame(Level - 1)
    BY DEF ReturnsWhereInterrupted
  <2>1. Shape /\ activations # <<>>
    BY DEF IInv, At
  <2>2. PICK r \in Seq(Words) : OnTop(stack, Running, Level - 1, r)
    BY <2>1, TopIs
  <2> QED
    BY <2>1, <2>2, FrameOnTop, OwnAtIret
<1> QED
  BY <1>1, Invariant, PTL

\* The EOI of a stub names the line of its own interrupt, which is in service
\* and has a handler.
THEOREM AcksItsLine == Spec => []AcksOwnLine
<1>1. IInv => AcksOwnLine
  BY AckedLineIs DEF AcksOwnLine
<1> QED
  BY <1>1, Invariant, PTL

\* Once configure_pic has run, the kernel's copy of the mask is the
\* controllers' own.
THEOREM CopyIsMask == Spec => []MaskIsCopied
<1>1. IInv => MaskIsCopied
  BY DEF IInv, Masks
<1> QED
  BY <1>1, Invariant, PTL

\* While line 0 is in service no line is delivered, and no stub ends its service.
THEOREM SilentAfterTick == Spec => TimerSilences
<1>1. IInv /\ [Next]_vars => [0 \in isr => 0 \in isr' /\ isr' \subseteq isr]_vars
  <2> SUFFICES ASSUME IInv, Next, 0 \in isr PROVE 0 \in isr' /\ isr' \subseteq isr
    OBVIOUS
  <2>1. main # "configure_pic"
    BY DEF IInv, Masks
  <2>2. CASE Main
    BY <2>1, <2>2 DEF Main, ConfigurePic, Sti, Devices, Timer, EnableIrq, InstallIrqHandler, Call
  <2>3. CASE \E i \in Lines : Raise(i)
    BY <2>3 DEF Raise
  <2>4. CASE \E i \in Lines : Deliver(i)
    BY <2>4 DEF Deliver
  <2>5. CASE \E v \in Faults : Fault(v)
    BY <2>5 DEF Fault, controller
  <2>6. CASE Ack
    BY <2>6, AckedLineIs DEF Ack
  <2>7. CASE InStub /\ ~Ack
    BY <2>7 DEF InStub, Stub, PushErrorCode, Save, Report, Restore, Iret, controller
  <2>8. CASE Loop
    BY <2>8 DEF Loop, vars, controller
  <2> QED
    BY <2>2, <2>3, <2>4, <2>5, <2>6, <2>7, <2>8 DEF Next
<1> QED
  BY <1>1, Invariant, PTL DEF Spec, TimerSilences
=============================================================================
