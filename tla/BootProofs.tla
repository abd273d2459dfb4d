----------------------------- MODULE BootProofs -----------------------------
(***************************************************************************)
(* Proofs about the two parts of the boot: Processes, for tables of any    *)
(* sizes and any number of calls of create_process, and BootLoader, for    *)
(* floppies of any geometry and files of any sizes.  The two specifications *)
(* share no variable and each theorem is about one of them.                *)
(***************************************************************************)
EXTENDS Processes, BootLoader, WellFoundedInduction, TLAPS

-----------------------------------------------------------------------------
(* Helpers: the least of a set of naturals, which the code's scans find.   *)

\* A set of naturals that is not empty has a least element.
LEMMA LeastExists ==
  ASSUME NEW T \in SUBSET Nat, T # {}
  PROVE  /\ Min(T) \in T
         /\ \A y \in T : Min(T) <= y
<1>1. PICK x \in T : \A y \in T : <<y, x>> \notin OpToRel(<, Nat)
  BY NatLessThanWellFounded, WFMin
<1>2. \A y \in T : <<y, x>> \in OpToRel(<, Nat) <=> y < x
  BY DEF OpToRel
<1>3. \A y \in T : x <= y
  <2> TAKE y \in T
  <2>1. x \in Nat /\ y \in Nat /\ ~(y < x)
    BY <1>1, <1>2
  <2> QED
    BY <2>1
<1> QED
  BY <1>1, <1>3 DEF Min

LEMMA LastSegment == Max(Segments) = 4
<1>1. 4 \in Segments /\ \A y \in Segments : 4 >= y
  BY DEF Segments
<1>2. \A x \in Segments : (\A y \in Segments : x >= y) => x = 4
  BY DEF Segments
<1> QED
  BY <1>1, <1>2 DEF Max

-----------------------------------------------------------------------------
(* The tables of Processes.                                                *)

Entries == [kind : {"unused", "segment", "allocated", "tss"}, tss : Nat]

\* The entries of the GDT are handed out in their order.
InOrder(g) ==
  \A i, k \in DOMAIN g : 0 < i /\ i < k /\ g[i] = Unused => g[k] = Unused

\* No TSS can be made.
Full(g, t) == FirstUnused(g, Unused) = 0 \/ FirstUnused(t, 0) = 0

\* The types of the three tables and of the list.
TypesOfTables ==
  /\ sizes \in [gdt : GdtSizes, tss : TssSizes, process : ProcessSizes]
  /\ gdt \in [0..sizes.gdt - 1 -> Entries]
  /\ tss \in [0..sizes.tss - 1 -> Nat]
  /\ process \in [0..sizes.process - 1 -> [id : Nat, entry : Nat]]
  /\ list \in Seq(DOMAIN process)
  /\ g_process_id \in Nat

\* The flat segments are there before any process is.
SegmentsFirst ==
  IF step = "init_gdt" THEN list = <<>> ELSE \A i \in Segments : gdt[i] = Segment

\* The entry and the TSS of a process are each other's, and not among the
\* entries that the second initialisation writes.
HasTss(g, t, i) ==
  /\ i \in DOMAIN g \ ({0} \cup Segments)
  /\ g[i].kind = "tss"
  /\ g[i].tss \in DOMAIN t \ {0}
  /\ t[g[i].tss] = i

Paired == \A n \in DOMAIN list : HasTss(gdt, tss, process[list[n]].entry)

\* The entries rise with the ids, and are ahead of them by the segments.
EntriesFall ==
  /\ \A m, n \in DOMAIN list : m < n => process[list[n]].entry < process[list[m]].entry
  /\ \A n \in DOMAIN list : process[list[n]].id + Max(Segments) <= process[list[n]].entry

\* An id is skipped only when no further process can be made.
IdsCount ==
  /\ step \in {"init_gdt", "init_tss", "init_schedule"} => list = <<>> /\ g_process_id = 0
  /\ step = "create_process" => g_process_id = Len(list) \/ Full(gdt, tss)

\* Who is viewed, and that there is somebody to view.
Viewed ==
  /\ step \in {"create_process", "init_interrupts"} => list # <<>>
  /\ ViewedIsLinked

ProcessesInv ==
  /\ TypesOfTables /\ InOrder(gdt) /\ SegmentsFirst /\ Paired /\ EntriesFall
  /\ IdsCount /\ ListIsNewestFirst /\ Viewed

\* The scans of the three tables.
LEMMA FirstUnusedIs ==
  ASSUME NEW n \in Nat, NEW S, NEW table \in [0..n - 1 -> S], NEW blank
  PROVE  LET r == FirstUnused(table, blank)
         IN  /\ r = 0 <=> \A i \in 1..n - 1 : table[i] # blank
             /\ r # 0 => /\ r \in 1..n - 1
                         /\ table[r] = blank
                         /\ \A i \in 1..n - 1 : table[i] = blank => r <= i
<1> DEFINE free == {i \in DOMAIN table \ {0} : table[i] = blank}
<1>1. free \in SUBSET Nat /\ \A i : i \in free <=> i \in 1..n - 1 /\ table[i] = blank
  OBVIOUS
<1>2. CASE free = {}
  BY <1>1, <1>2 DEF FirstUnused
<1>3. CASE free # {}
  <2>1. FirstUnused(table, blank) = Min(free)
    BY <1>3 DEF FirstUnused
  <2> HIDE DEF free
  <2>2. Min(free) \in free /\ \A y \in free : Min(free) <= y
    BY <1>1, <1>3, LeastExists
  <2> QED
    BY <1>1, <2>1, <2>2
<1> QED
  BY <1>2, <1>3

\* What the assumption says of the sizes of this boot.
LEMMA SizesArePositive ==
  ASSUME TypesOfTables
  PROVE  /\ sizes.gdt \in Nat \ {0} /\ sizes.gdt > 4
         /\ sizes.tss \in Nat \ {0}
         /\ sizes.process \in Nat \ {0}
<1>1. sizes.gdt \in GdtSizes /\ sizes.tss \in TssSizes /\ sizes.process \in ProcessSizes
  BY DEF TypesOfTables
<1>2. sizes.gdt \in Nat /\ sizes.gdt > 4
  BY <1>1, SizesAssumption, LastSegment
<1>3. sizes.tss \in Nat \ {0} /\ sizes.process \in Nat \ {0}
  BY <1>1, SizesAssumption
<1> QED
  BY <1>2, <1>3

\* What create_tss leaves as it was, and what it makes.
LEMMA CreateTssMakes ==
  ASSUME TypesOfTables, InOrder(gdt), NEW made, made = CreateTss(gdt, tss)
  PROVE  /\ made.gdt \in [0..sizes.gdt - 1 -> Entries] /\ made.tss \in [0..sizes.tss - 1 -> Nat]
         /\ InOrder(made.gdt)
         /\ \A i \in DOMAIN gdt : gdt[i] # Unused => made.gdt[i] = gdt[i]
         /\ \A j \in DOMAIN tss : tss[j] # 0 => made.tss[j] = tss[j]
         /\ made.entry = 0 => Full(made.gdt, made.tss)
         /\ made.entry # 0 =>
              /\ ~Full(gdt, tss)
              /\ made.entry \in 1..sizes.gdt - 1 /\ gdt[made.entry] = Unused
              /\ made.gdt[made.entry].kind = "tss"
              /\ made.gdt[made.entry].tss \in 1..sizes.tss - 1
              /\ made.tss[made.gdt[made.entry].tss] = made.entry
<1>0. /\ sizes.gdt \in Nat \ {0} /\ sizes.tss \in Nat \ {0}
      /\ gdt \in [0..sizes.gdt - 1 -> Entries] /\ tss \in [0..sizes.tss - 1 -> Nat]
      /\ DOMAIN gdt = 0..sizes.gdt - 1 /\ DOMAIN tss = 0..sizes.tss - 1
  BY SizesArePositive DEF TypesOfTables
<1> DEFINE i == FirstUnused(gdt, Unused)
           j == FirstUnused(tss, 0)
<1>1. /\ i = 0 <=> \A k \in 1..sizes.gdt - 1 : gdt[k] # Unused
      /\ i # 0 => i \in 1..sizes.gdt - 1 /\ gdt[i] = Unused /\ \A k \in 1..sizes.gdt - 1 : gdt[k] = Unused => i <= k
  BY <1>0, FirstUnusedIs
<1>2. /\ j = 0 <=> \A k \in 1..sizes.tss - 1 : tss[k] # 0
      /\ j # 0 => j \in 1..sizes.tss - 1 /\ tss[j] = 0 /\ \A k \in 1..sizes.tss - 1 : tss[k] = 0 => j <= k
  <2> DEFINE numbers == Nat
  <2>1. sizes.tss \in Nat /\ tss \in [0..sizes.tss - 1 -> numbers]
    BY <1>0
  <2> HIDE DEF numbers, i, j
  <2>2. \A blank : LET r == FirstUnused(tss, blank)
         IN  /\ r = 0 <=> \A k \in 1..sizes.tss - 1 : tss[k] # blank
             /\ r # 0 => /\ r \in 1..sizes.tss - 1
                         /\ tss[r] = blank
                         /\ \A k \in 1..sizes.tss - 1 : tss[k] = blank => r <= k
    BY <2>1, FirstUnusedIs
  <2> QED
    BY <2>2 DEF j
<1>3. Full(gdt, tss) <=> i = 0 \/ j = 0
  BY DEF Full
<1>4. CASE i = 0
  <2>1. made = [entry |-> 0, gdt |-> gdt, tss |-> tss]
    BY <1>4 DEF CreateTss
  <2> HIDE DEF i, j
  <2> QED
    BY <1>0, <1>3, <1>4, <2>1
<1>5. CASE i # 0 /\ j = 0
  <2>1. made = [entry |-> 0, gdt |-> [gdt EXCEPT ![i] = Allocated], tss |-> tss]
    BY <1>5 DEF CreateTss
  <2>2. Full(made.gdt, made.tss)
    BY <1>5, <2>1 DEF Full
  <2>3. Allocated \in Entries /\ Allocated # Unused
    BY DEF Allocated, Unused, Entries
  <2> HIDE DEF i, j
  <2>4. made.gdt \in [0..sizes.gdt - 1 -> Entries]
    BY <1>0, <1>1, <1>5, <2>1, <2>3
  <2>5. \A k \in 0..sizes.gdt - 1 : made.gdt[k] = IF k = i THEN Allocated ELSE gdt[k]
    BY <1>0, <1>1, <1>5, <2>1
  <2>6. InOrder(made.gdt)
    <3> SUFFICES ASSUME NEW a \in 0..sizes.gdt - 1, NEW b \in 0..sizes.gdt - 1, 0 < a, a < b,
                        made.gdt[a] = Unused
                 PROVE  made.gdt[b] = Unused
      BY <1>0, <2>4 DEF InOrder
    <3>1. gdt[a] = Unused /\ i <= a
      BY <1>0, <1>1, <1>5, <2>3, <2>5
    <3>2. gdt[b] = Unused /\ b # i
      BY <1>0, <1>1, <1>5, <3>1 DEF InOrder
    <3> QED
      BY <1>0, <2>5, <3>2
  <2> QED
    BY <1>0, <1>1, <1>5, <2>1, <2>2, <2>4, <2>5, <2>6
<1>6. CASE i # 0 /\ j # 0
  <2>1. made = [entry |-> i, gdt |-> [gdt EXCEPT ![i] = Descriptor(j)],
                tss |-> [tss EXCEPT ![j] = i]]
    BY <1>6 DEF CreateTss
  <2> HIDE DEF i, j
  <2>2. /\ Descriptor(j) \in Entries /\ Descriptor(j) # Unused
        /\ Descriptor(j).kind = "tss" /\ Descriptor(j).tss = j
    BY <1>2, <1>6 DEF Descriptor, Unused, Entries
  <2>3. made.gdt \in [0..sizes.gdt - 1 -> Entries] /\ made.tss \in [0..sizes.tss - 1 -> Nat]
    BY <1>0, <1>1, <1>2, <1>6, <2>1, <2>2
  <2>4. /\ \A k \in 0..sizes.gdt - 1 : made.gdt[k] = IF k = i THEN Descriptor(j) ELSE gdt[k]
        /\ \A k \in 0..sizes.tss - 1 : made.tss[k] = IF k = j THEN i ELSE tss[k]
    BY <1>0, <1>1, <1>2, <1>6, <2>1
  <2>5. InOrder(made.gdt)
    <3> SUFFICES ASSUME NEW a \in 0..sizes.gdt - 1, NEW b \in 0..sizes.gdt - 1, 0 < a, a < b,
                        made.gdt[a] = Unused
                 PROVE  made.gdt[b] = Unused
      BY <1>0, <2>3 DEF InOrder
    <3>1. gdt[a] = Unused /\ i <= a
      BY <1>0, <1>1, <1>6, <2>2, <2>4
    <3>2. gdt[b] = Unused /\ b # i
      BY <1>0, <1>1, <1>6, <3>1 DEF InOrder
    <3> QED
      BY <1>0, <2>4, <3>2
  <2> QED
    BY <1>0, <1>1, <1>2, <1>3, <1>6, <2>1, <2>2, <2>3, <2>4, <2>5
<1> QED
  BY <1>4, <1>5, <1>6

\* What a later create_tss leaves of a process.
LEMMA PairSurvives ==
  ASSUME NEW g, NEW t, NEW h, NEW u, NEW i, HasTss(g, t, i),
         DOMAIN h = DOMAIN g, DOMAIN u = DOMAIN t,
         h[i] = g[i], u[g[i].tss] = t[g[i].tss]
  PROVE  HasTss(h, u, i)
BY DEF HasTss

\* create_process keeps what is said of the tables and of the list, whether it
\* makes a process, finds no slot, or fails half-way.
LEMMA CreateProcessKeeps ==
  ASSUME TypesOfTables, InOrder(gdt), \A i \in Segments : gdt[i] = Segment,
         Paired, EntriesFall, ListIsNewestFirst,
         g_process_id = Len(list) \/ Full(gdt, tss),
         CreateProcess, sizes' = sizes
  PROVE  /\ TypesOfTables' /\ InOrder(gdt)' /\ \A i \in Segments : gdt'[i] = Segment
         /\ Paired' /\ EntriesFall' /\ ListIsNewestFirst'
         /\ g_process_id' = Len(list') \/ Full(gdt', tss')
<1> DEFINE s == FirstUnused(process, NoProcess)
           made == CreateTss(gdt, tss)
           e == made.entry
<1>1. CASE s = 0
  <2>1. UNCHANGED <<gdt, tss, process, list, g_process_id>>
    BY <1>1 DEF CreateProcess, tables
  <2> QED
    BY <2>1 DEF TypesOfTables, InOrder, Paired, HasTss, EntriesFall, ListIsNewestFirst
<1>2. CASE s # 0
  <2>1. /\ g_process_id' = g_process_id + 1
        /\ gdt' = made.gdt
        /\ tss' = made.tss
        /\ process' = [process EXCEPT ![s] = [id |-> g_process_id + 1, entry |-> e]]
        /\ list' = IF e = 0 THEN list ELSE <<s>> \o list
    BY <1>2 DEF CreateProcess
  <2>2. s \in DOMAIN process /\ process[s] = NoProcess
    <3> DEFINE records == [id : Nat, entry : Nat]
    <3>1. sizes.process \in Nat /\ process \in [0..sizes.process - 1 -> records]
      BY SizesArePositive DEF TypesOfTables
    <3> HIDE DEF records, s
    <3>2. \A blank : LET r == FirstUnused(process, blank)
                     IN  r # 0 => r \in 1..sizes.process - 1 /\ process[r] = blank
      BY <3>1, FirstUnusedIs
    <3>3. s # 0 => s \in 1..sizes.process - 1 /\ process[s] = NoProcess
      BY <3>2 DEF s
    <3> QED
      BY <1>2, <3>1, <3>3
  <2>3. /\ made.gdt \in [0..sizes.gdt - 1 -> Entries] /\ made.tss \in [0..sizes.tss - 1 -> Nat]
        /\ InOrder(made.gdt)
        /\ \A i \in DOMAIN gdt : gdt[i] # Unused => made.gdt[i] = gdt[i]
        /\ \A j \in DOMAIN tss : tss[j] # 0 => made.tss[j] = tss[j]
        /\ e = 0 => Full(made.gdt, made.tss)
        /\ e # 0 =>
             /\ ~Full(gdt, tss)
             /\ e \in 1..sizes.gdt - 1 /\ gdt[e] = Unused
             /\ made.gdt[e].kind = "tss"
             /\ made.gdt[e].tss \in 1..sizes.tss - 1
             /\ made.tss[made.gdt[e].tss] = e
    <3> HIDE DEF made
    <3>1. made = CreateTss(gdt, tss)
      BY DEF made
    <3> QED
      BY <3>1, CreateTssMakes
  <2> HIDE DEF s, made
  <2>4. e \in Nat
    BY <2>3
  <2>5. TypesOfTables'
    <3>1. process' \in [0..sizes.process - 1 -> [id : Nat, entry : Nat]]
      BY <2>1, <2>2, <2>4 DEF TypesOfTables
    <3>2. list' \in Seq(DOMAIN process)
      <4>1. list \in Seq(DOMAIN process) /\ <<s>> \in Seq(DOMAIN process)
        BY <2>2 DEF TypesOfTables
      <4>2. <<s>> \o list \in Seq(DOMAIN process)
        BY <4>1
      <4> QED
        BY <2>1, <4>1, <4>2
    <3>3. DOMAIN process' = DOMAIN process
      BY <2>1
    <3> QED
      <4>1. sizes' = sizes /\ g_process_id' \in Nat
        BY <2>1 DEF TypesOfTables
      <4>2. gdt' \in [0..sizes.gdt - 1 -> Entries] /\ tss' \in [0..sizes.tss - 1 -> Nat]
        BY <2>1, <2>3
      <4>3. sizes \in [gdt : GdtSizes, tss : TssSizes, process : ProcessSizes]
        BY DEF TypesOfTables
      <4> QED
        BY <3>1, <3>2, <3>3, <4>1, <4>2, <4>3, Zenon DEF TypesOfTables
  <2>6. \A i \in Segments : gdt'[i] = Segment
    <3>1. \A i \in Segments : i \in DOMAIN gdt
      BY SizesArePositive DEF Segments, TypesOfTables
    <3>2. \A i \in Segments : gdt[i] = Segment /\ Segment # Unused
      BY <1>2 DEF Segment, Unused
    <3>3. gdt' = made.gdt /\ \A i \in DOMAIN gdt : gdt[i] # Unused => made.gdt[i] = gdt[i]
      BY <2>1, <2>3, Zenon
    <3> QED
      BY <3>1, <3>2, <3>3, Zenon
  <2>7. \A n \in DOMAIN list : list[n] # s /\ process'[list[n]] = process[list[n]]
    BY <2>1, <2>2, LastSegment DEF Paired, HasTss, NoProcess, TypesOfTables
  <2>8. \A n \in DOMAIN list : HasTss(gdt', tss', process'[list[n]].entry)
    <3> TAKE n \in DOMAIN list
    <3> DEFINE i == process[list[n]].entry
    <3>1. HasTss(gdt, tss, i)
      BY DEF Paired
    <3>2. gdt[i] # Unused /\ tss[gdt[i].tss] # 0
      BY <3>1 DEF HasTss, Unused
    <3>3. /\ DOMAIN gdt' = DOMAIN gdt /\ DOMAIN tss' = DOMAIN tss
          /\ gdt'[i] = gdt[i] /\ tss'[gdt[i].tss] = tss[gdt[i].tss]
      BY <2>1, <2>3, <3>1, <3>2 DEF HasTss, TypesOfTables
    <3>4. process'[list[n]].entry = i
      BY <2>7
    <3> HIDE DEF i
    <3>5. HasTss(gdt', tss', i)
      BY <3>1, <3>3, PairSurvives
    <3> QED
      BY <3>4, <3>5
  <2>9. CASE e = 0
    <3>1. list' = list
      BY <2>1, <2>9
    <3>2. Paired'
      BY <2>8, <3>1 DEF Paired
    <3>3. EntriesFall' /\ ListIsNewestFirst'
      BY <2>7, <3>1 DEF EntriesFall, ListIsNewestFirst
    <3> QED
      BY <2>1, <2>3, <2>5, <2>6, <2>9, <3>2, <3>3
  <2>10. CASE e # 0
    <3>1. list' = <<s>> \o list
      BY <2>1, <2>10
    <3>2. /\ Len(list) \in Nat /\ Len(list') = Len(list) + 1 /\ list'[1] = s
          /\ \A n \in 1..Len(list) : list'[n + 1] = list[n]
          /\ DOMAIN list = 1..Len(list) /\ DOMAIN list' = 1..Len(list) + 1
      BY <2>2, <3>1 DEF TypesOfTables
    <3>3. \A n \in DOMAIN list' : n = 1 \/ (n - 1 \in DOMAIN list /\ list'[n] = list[n - 1])
      BY <3>2
    <3>4. process'[s] = [id |-> Len(list) + 1, entry |-> e]
      BY <2>1, <2>2, <2>3, <2>10 DEF TypesOfTables
    <3>5. \A n \in DOMAIN list : process[list[n]].entry < e
      <4> TAKE n \in DOMAIN list
      <4> DEFINE i == process[list[n]].entry
      <4>1. i \in DOMAIN gdt /\ gdt[i] # Unused
        BY DEF Paired, HasTss, Unused
      <4>2. e \in DOMAIN gdt /\ 0 < e /\ gdt[e] = Unused
        BY <2>3, <2>10 DEF TypesOfTables
      <4>3. i \in Nat /\ i # e /\ ~(e < i)
        BY <2>4, <4>1, <4>2 DEF InOrder, TypesOfTables
      <4> QED
        BY <2>4, <4>3
    <3>6. Len(list) + 1 + Max(Segments) <= e
      <4>1. CASE Len(list) = 0
        <5>1. e \notin Segments
          BY <2>3, <2>10 DEF Segment, Unused
        <5> QED
          BY <2>3, <2>10, <4>1, <5>1, LastSegment DEF Segments
      <4>2. CASE Len(list) # 0
        <5>1. 1 \in DOMAIN list
          BY <3>2, <4>2
        <5>2. process[list[1]].id = Len(list)
          BY <3>2, <5>1 DEF ListIsNewestFirst
        <5>3. process[list[1]].id + Max(Segments) <= process[list[1]].entry
          BY <5>1 DEF EntriesFall
        <5>4. process[list[1]].entry \in Nat /\ process[list[1]].entry < e
          BY <2>8, <3>5, <5>1 DEF Paired, HasTss, TypesOfTables
        <5> QED
          BY <2>4, <3>2, <5>2, <5>3, <5>4, LastSegment
      <4> QED
        BY <4>1, <4>2
    <3>8. HasTss(gdt', tss', e)
      <4>1. e \in 1..sizes.gdt - 1 /\ e \notin Segments
        BY <2>3, <2>10 DEF Segment, Unused
      <4>2. /\ DOMAIN gdt' = 0..sizes.gdt - 1 /\ DOMAIN tss' = 0..sizes.tss - 1
            /\ gdt'[e].kind = "tss" /\ gdt'[e].tss \in 1..sizes.tss - 1
            /\ tss'[gdt'[e].tss] = e
        BY <2>1, <2>3, <2>10
      <4> QED
        BY <4>1, <4>2 DEF HasTss
    <3>9. Paired'
      <4>1. \A n \in DOMAIN list' : HasTss(gdt', tss', process'[list'[n]].entry)
        <5> TAKE n \in DOMAIN list'
        <5>1. CASE n = 1
          BY <3>2, <3>4, <3>8, <5>1
        <5>2. CASE n # 1
          BY <2>8, <3>3, <5>2
        <5> QED
          BY <5>1, <5>2
      <4> QED
        BY <4>1 DEF Paired
    <3>10. \A n \in DOMAIN list' :
             \/ n = 1 /\ process'[list'[n]] = [id |-> Len(list) + 1, entry |-> e]
             \/ n - 1 \in DOMAIN list /\ process'[list'[n]] = process[list[n - 1]]
      BY <2>7, <3>2, <3>3, <3>4
    <3>11. EntriesFall'
      <4>1. \A n \in DOMAIN list' :
              process'[list'[n]].id + Max(Segments) <= process'[list'[n]].entry
        BY <3>6, <3>10 DEF EntriesFall
      <4>2. \A m, n \in DOMAIN list' :
              m < n => process'[list'[n]].entry < process'[list'[m]].entry
        BY <3>2, <3>5, <3>10 DEF EntriesFall
      <4> QED
        BY <4>1, <4>2 DEF EntriesFall
    <3>12. ListIsNewestFirst'
      <4>1. \A n \in DOMAIN list' : process'[list'[n]].id = Len(list') + 1 - n
        <5> DEFINE l == Len(list)
        <5>1. l \in Nat /\ Len(list') = l + 1 /\ DOMAIN list' = 1..l + 1
          BY <3>2
        <5>2. \A n \in DOMAIN list : process[list[n]].id = l + 1 - n
          BY DEF ListIsNewestFirst
        <5>3. TAKE n \in DOMAIN list'
        <5> HIDE DEF l
        <5>4. CASE n = 1 /\ process'[list'[n]] = [id |-> l + 1, entry |-> e]
          BY <5>1, <5>4
        <5>5. CASE n - 1 \in DOMAIN list /\ process'[list'[n]] = process[list[n - 1]]
          <6>1. process'[list'[n]].id = l + 1 - (n - 1)
            BY <5>2, <5>5
          <6> QED
            BY <5>1, <6>1
        <5> QED
          BY <3>10, <5>4, <5>5, Zenon DEF l
      <4> QED
        BY <4>1 DEF ListIsNewestFirst
    <3> QED
      BY <2>1, <2>3, <2>5, <2>6, <2>10, <3>2, <3>9, <3>11, <3>12
  <2> QED
    BY <2>9, <2>10
<1> QED
  BY <1>1, <1>2

LEMMA InitGdtKeeps ==
  ASSUME ProcessesInv, InitGdt
  PROVE  ProcessesInv'
<1> USE DEF ProcessesInv
<1>1. /\ step' # "init_gdt" /\ UNCHANGED <<sizes, tss, process, list, g_process_id, viewing>>
      /\ step \in {"init_gdt", "init_gdt again"} /\ step' \in {"init_tss", "init_tss again"}
      /\ step = "init_gdt" <=> step' = "init_tss"
  BY DEF InitGdt, Call
<1>2. /\ DOMAIN gdt = 0..sizes.gdt - 1 /\ DOMAIN gdt' = DOMAIN gdt
      /\ \A i \in DOMAIN gdt : gdt'[i] = IF i \in Segments THEN Segment
                                         ELSE IF i = 0 THEN Unused ELSE gdt[i]
  BY DEF InitGdt, Memset, TypesOfTables, Segments
<1>3. TypesOfTables'
  <2>1. Segment \in Entries /\ Unused \in Entries
    BY DEF Segment, Unused, Entries
  <2>2. \A i \in DOMAIN gdt : gdt'[i] \in Entries
    BY <1>2, <2>1 DEF TypesOfTables
  <2>3. gdt' \in [0..sizes.gdt - 1 -> Entries]
    BY <1>2, <2>2 DEF InitGdt
  <2> QED
    BY <1>1, <2>3 DEF TypesOfTables
<1>4. InOrder(gdt)'
  BY <1>2 DEF InOrder, Segments, Segment, Unused
<1>5. SegmentsFirst'
  <2>1. Segments \subseteq DOMAIN gdt
    BY <1>2, SizesArePositive DEF Segments
  <2> QED
    BY <1>1, <1>2, <2>1 DEF SegmentsFirst
<1>6. Paired'
  BY <1>1, <1>2 DEF Paired, HasTss
<1>7. EntriesFall' /\ ListIsNewestFirst'
  BY <1>1 DEF EntriesFall, ListIsNewestFirst
<1>8. IdsCount' /\ Viewed'
  BY <1>1 DEF IdsCount, Viewed, ViewedIsLinked, Linked
<1> QED
  BY <1>3, <1>4, <1>5, <1>6, <1>7, <1>8

LEMMA InitTssKeeps ==
  ASSUME ProcessesInv, InitTss
  PROVE  ProcessesInv'
<1> USE DEF ProcessesInv
<1>1. /\ UNCHANGED <<sizes, gdt, process, list, g_process_id, viewing>>
      /\ \/ step = "init_tss" /\ step' = "init_schedule"
         \/ step = "init_tss again" /\ step' = "running"
  BY DEF InitTss, Call
<1>2. /\ DOMAIN tss = 0..sizes.tss - 1 /\ DOMAIN tss' = DOMAIN tss
      /\ \A i \in DOMAIN tss : tss'[i] = IF i = 0 THEN 0 ELSE tss[i]
  BY DEF InitTss, Memset, TypesOfTables
<1>3. TypesOfTables'
  <2>1. tss' \in [0..sizes.tss - 1 -> Nat]
    BY DEF InitTss, Memset, TypesOfTables
  <2> QED
    BY <1>1, <2>1 DEF TypesOfTables
<1>4. InOrder(gdt)' /\ SegmentsFirst'
  BY <1>1 DEF InOrder, SegmentsFirst
<1>5. Paired'
  BY <1>1, <1>2 DEF Paired, HasTss
<1>6. EntriesFall' /\ ListIsNewestFirst'
  BY <1>1 DEF EntriesFall, ListIsNewestFirst
<1>7. IdsCount' /\ Viewed'
  BY <1>1 DEF IdsCount, Viewed, ViewedIsLinked, Linked
<1> QED
  BY <1>3, <1>4, <1>5, <1>6, <1>7

LEMMA InitScheduleKeeps ==
  ASSUME ProcessesInv, InitSchedule
  PROVE  ProcessesInv'
<1> USE DEF ProcessesInv
<1>1. /\ step = "init_schedule" /\ CreateProcess /\ sizes' = sizes /\ viewing' = viewing
      /\ step' = IF list' = <<>> THEN "stopped" ELSE "create_process"
  BY DEF InitSchedule
<1>2. g_process_id = Len(list)
  BY <1>1 DEF IdsCount
<1>3. /\ TypesOfTables' /\ InOrder(gdt)' /\ \A i \in Segments : gdt'[i] = Segment
      /\ Paired' /\ EntriesFall' /\ ListIsNewestFirst'
      /\ g_process_id' = Len(list') \/ Full(gdt', tss')
  BY <1>1, <1>2, CreateProcessKeeps DEF SegmentsFirst
<1>4. SegmentsFirst' /\ IdsCount' /\ Viewed'
  BY <1>1, <1>3 DEF SegmentsFirst, IdsCount, Viewed, ViewedIsLinked
<1> QED
  BY <1>3, <1>4

LEMMA CreateFurtherKeeps ==
  ASSUME ProcessesInv, CreateFurther
  PROVE  ProcessesInv'
<1> USE DEF ProcessesInv
<1>1. step = "create_process" /\ CreateProcess /\ UNCHANGED <<sizes, step, viewing>>
  BY DEF CreateFurther
<1>2. /\ TypesOfTables' /\ InOrder(gdt)' /\ \A i \in Segments : gdt'[i] = Segment
      /\ Paired' /\ EntriesFall' /\ ListIsNewestFirst'
      /\ g_process_id' = Len(list') \/ Full(gdt', tss')
  BY <1>1, CreateProcessKeeps DEF SegmentsFirst, IdsCount
<1>3. list' # <<>>
  <2>1. list # <<>> /\ list \in Seq(DOMAIN process)
    BY <1>1 DEF Viewed, TypesOfTables
  <2>2. \A s : <<s>> \o list # <<>>
    BY <2>1
  <2> QED
    BY <1>1, <2>1, <2>2 DEF CreateProcess, tables
<1>4. SegmentsFirst' /\ IdsCount' /\ Viewed'
  BY <1>1, <1>2, <1>3 DEF SegmentsFirst, IdsCount, Viewed, ViewedIsLinked
<1> QED
  BY <1>2, <1>4

\* get_process_by_id finds "System" at the end of the list.
LEMMA SystemIsFound ==
  ASSUME TypesOfTables, ListIsNewestFirst, list # <<>>
  PROVE  ProcessById(1) \in Linked
<1> DEFINE found == {i \in DOMAIN list : process[list[i]].id = 1}
<1>1. Len(list) \in DOMAIN list /\ DOMAIN list = 1..Len(list)
  BY DEF TypesOfTables
<1>2. Len(list) \in found
  BY <1>1 DEF ListIsNewestFirst
<1>3. found \in SUBSET Nat /\ found # {}
  BY <1>1, <1>2
<1>4. Min(found) \in found
  <2> HIDE DEF found
  <2> QED
    BY <1>3, LeastExists
<1>5. ProcessById(1) = list[Min(found)]
  BY <1>3 DEF ProcessById
<1> QED
  BY <1>4, <1>5 DEF Linked, ToSet

LEMMA InitScreenKeeps ==
  ASSUME ProcessesInv, InitScreen
  PROVE  ProcessesInv'
<1> USE DEF ProcessesInv
<1>1. /\ step = "create_process" /\ step' = "init_interrupts"
      /\ UNCHANGED <<sizes, gdt, tss, process, list, g_process_id>>
      /\ viewing' = ProcessById(1)
  BY DEF InitScreen, Call, tables
<1>2. list # <<>>
  BY <1>1 DEF Viewed
<1>3. Viewed'
  BY <1>1, <1>2, SystemIsFound DEF Viewed, ViewedIsLinked, Linked
<1>4. TypesOfTables' /\ InOrder(gdt)' /\ SegmentsFirst' /\ IdsCount'
  BY <1>1 DEF TypesOfTables, InOrder, SegmentsFirst, IdsCount
<1>5. Paired' /\ EntriesFall' /\ ListIsNewestFirst'
  BY <1>1 DEF Paired, HasTss, EntriesFall, ListIsNewestFirst
<1> QED
  BY <1>3, <1>4, <1>5

LEMMA InitInterruptsKeeps ==
  ASSUME ProcessesInv, InitInterrupts
  PROVE  ProcessesInv'
<1> USE DEF ProcessesInv
<1> DEFINE made == CreateTss(gdt, tss)
<1>1. /\ step = "init_interrupts" /\ gdt' = made.gdt /\ tss' = made.tss
      /\ step' \in {"wild write", "init_gdt again"}
      /\ UNCHANGED <<sizes, process, list, g_process_id, viewing>>
  BY DEF InitInterrupts
<1>2. /\ made.gdt \in [0..sizes.gdt - 1 -> Entries] /\ made.tss \in [0..sizes.tss - 1 -> Nat]
      /\ InOrder(made.gdt)
      /\ \A i \in DOMAIN gdt : gdt[i] # Unused => made.gdt[i] = gdt[i]
      /\ \A j \in DOMAIN tss : tss[j] # 0 => made.tss[j] = tss[j]
  BY CreateTssMakes
<1> HIDE DEF made
<1>3. TypesOfTables' /\ InOrder(gdt)'
  BY <1>1, <1>2 DEF TypesOfTables
<1>4. SegmentsFirst'
  <2>1. Segments \subseteq DOMAIN gdt
    BY SizesArePositive DEF TypesOfTables, Segments
  <2>2. \A i \in Segments : gdt[i] = Segment /\ gdt[i] # Unused
    <3>1. \A i \in Segments : gdt[i] = Segment
      BY <1>1 DEF SegmentsFirst
    <3>2. Segment # Unused
      BY DEF Segment, Unused
    <3> QED
      BY <3>1, <3>2
  <2>3. \A i \in Segments : gdt'[i] = Segment
    BY <1>1, <1>2, <2>1, <2>2
  <2> QED
    BY <1>1, <2>3 DEF SegmentsFirst
<1>5. Paired'
  <2>1. \A n \in DOMAIN list : HasTss(gdt', tss', process[list[n]].entry)
    <3> TAKE n \in DOMAIN list
    <3> DEFINE i == process[list[n]].entry
    <3>1. HasTss(gdt, tss, i)
      BY DEF Paired
    <3>2. gdt[i] # Unused /\ tss[gdt[i].tss] # 0
      BY <3>1 DEF HasTss, Unused
    <3>3. /\ DOMAIN gdt' = DOMAIN gdt /\ DOMAIN tss' = DOMAIN tss
          /\ gdt'[i] = gdt[i] /\ tss'[gdt[i].tss] = tss[gdt[i].tss]
      BY <1>1, <1>2, <3>1, <3>2 DEF HasTss, TypesOfTables
    <3> HIDE DEF i
    <3>4. HasTss(gdt', tss', i)
      BY <3>1, <3>3, PairSurvives
    <3> QED
      BY <3>4 DEF i
  <2> QED
    BY <1>1, <2>1 DEF Paired
<1>6. EntriesFall' /\ ListIsNewestFirst'
  BY <1>1 DEF EntriesFall, ListIsNewestFirst
<1>7. IdsCount' /\ Viewed'
  BY <1>1 DEF IdsCount, Viewed, ViewedIsLinked, Linked
<1> QED
  BY <1>3, <1>4, <1>5, <1>6, <1>7

\* Both neighbours of a process on the list, around its ends, are on the list.
LEMMA NeighboursAreLinked ==
  ASSUME TypesOfTables, NEW s \in Linked
  PROVE  NextShown(s) \in Linked /\ PrevShown(s) \in Linked
<1>1. /\ Len(list) \in Nat /\ DOMAIN list = 1..Len(list)
      /\ \A i \in DOMAIN list : list[i] \in Linked
  BY DEF TypesOfTables, Linked, ToSet
<1>2. Position(s) \in DOMAIN list /\ list[Position(s)] = s
  BY DEF Position, Linked, ToSet
<1>3. Head(list) = list[1] /\ Last(list) = list[Len(list)] /\ 1 \in DOMAIN list
  BY <1>1, <1>2 DEF TypesOfTables, Last
<1>4. NextShown(s) \in Linked
  BY <1>1, <1>2, <1>3 DEF NextShown
<1>5. PrevShown(s) \in Linked
  BY <1>1, <1>2, <1>3 DEF PrevShown
<1> QED
  BY <1>4, <1>5

LEMMA SwitchKeeps ==
  ASSUME ProcessesInv, ShowNextConsole \/ ShowPrevConsole
  PROVE  ProcessesInv'
<1> USE DEF ProcessesInv
<1>1. /\ step = "running" /\ UNCHANGED <<sizes, step, gdt, tss, process, list, g_process_id>>
      /\ viewing' = NextShown(viewing) \/ viewing' = PrevShown(viewing)
  BY DEF ShowNextConsole, ShowPrevConsole, tables
<1>2. viewing \in Linked
  BY <1>1 DEF Viewed, ViewedIsLinked
<1>3. viewing' \in Linked
  BY <1>1, <1>2, NeighboursAreLinked
<1>4. Viewed'
  BY <1>1, <1>3 DEF Viewed, ViewedIsLinked, Linked
<1>5. TypesOfTables' /\ InOrder(gdt)' /\ SegmentsFirst' /\ IdsCount'
  BY <1>1 DEF TypesOfTables, InOrder, SegmentsFirst, IdsCount
<1>6. Paired' /\ EntriesFall' /\ ListIsNewestFirst'
  BY <1>1 DEF Paired, HasTss, EntriesFall, ListIsNewestFirst
<1> QED
  BY <1>4, <1>5, <1>6

LEMMA ProcessesInitially == Init => ProcessesInv
<1> SUFFICES ASSUME Init PROVE ProcessesInv
  OBVIOUS
<1>1. sizes.gdt \in Nat \ {0} /\ sizes.tss \in Nat \ {0} /\ sizes.process \in Nat \ {0}
  <2>1. sizes.gdt \in GdtSizes /\ sizes.tss \in TssSizes /\ sizes.process \in ProcessSizes
    BY DEF Init
  <2>2. sizes.gdt \in Nat /\ sizes.gdt > 4
    BY <2>1, SizesAssumption, LastSegment
  <2>3. sizes.tss \in Nat \ {0} /\ sizes.process \in Nat \ {0}
    BY <2>1, SizesAssumption
  <2> QED
    BY <2>2, <2>3
<1>2. TypesOfTables
  <2>1. Unused \in Entries /\ NoProcess \in [id : Nat, entry : Nat]
    BY DEF Unused, Entries, NoProcess
  <2> QED
    BY <1>1, <2>1 DEF Init, Table, TypesOfTables
<1>3. InOrder(gdt)
  BY DEF Init, Table, InOrder
<1>4. SegmentsFirst /\ IdsCount /\ Viewed
  BY DEF Init, SegmentsFirst, IdsCount, Viewed, ViewedIsLinked
<1>5. DOMAIN list = {}
  BY DEF Init
<1>6. Paired /\ EntriesFall /\ ListIsNewestFirst
  BY <1>5 DEF Paired, EntriesFall, ListIsNewestFirst
<1> QED
  BY <1>2, <1>3, <1>4, <1>6 DEF ProcessesInv

\* The strengthened invariant of the tables.
THEOREM ProcessesInvariant == Spec => []ProcessesInv
<1>1. ProcessesInv /\ [Next]_vars => ProcessesInv'
  <2> SUFFICES ASSUME ProcessesInv, [Next]_vars
               PROVE  ProcessesInv'
    OBVIOUS
  <2>1. CASE InitGdt
    BY <2>1, InitGdtKeeps
  <2>2. CASE InitTss
    BY <2>2, InitTssKeeps
  <2>3. CASE InitSchedule
    BY <2>3, InitScheduleKeeps
  <2>4. CASE CreateFurther
    BY <2>4, CreateFurtherKeeps
  <2>5. CASE InitScreen
    BY <2>5, InitScreenKeeps
  <2>6. CASE InitInterrupts
    BY <2>6, InitInterruptsKeeps
  <2>7. CASE ShowNextConsole \/ ShowPrevConsole
    BY <2>7, SwitchKeeps
  <2>8. CASE UNCHANGED vars
    BY <2>8 DEF vars, tables, ProcessesInv, TypesOfTables, InOrder, SegmentsFirst, Paired,
       HasTss, EntriesFall, IdsCount, ListIsNewestFirst, Viewed, ViewedIsLinked, Linked
  <2> QED
    BY <2>1, <2>2, <2>3, <2>4, <2>5, <2>6, <2>7, <2>8 DEF Next, Ended
<1> QED
  BY <1>1, ProcessesInitially, PTL DEF Spec

\* Every process that can be scheduled has a TSS of its own, for tables of any
\* sizes, whatever failed, and after the tables were initialised once more.
THEOREM ScheduledHaveTss == Spec => []LinkedHaveTss
<1>1. ProcessesInv => LinkedHaveTss
  <2> SUFFICES ASSUME ProcessesInv PROVE LinkedHaveTss
    OBVIOUS
  <2>1. DOMAIN list = 1..Len(list) /\ Len(list) \in Nat
    BY DEF ProcessesInv, TypesOfTables
  <2>2. \A s \in Linked : \E n \in DOMAIN list : s = list[n]
    BY DEF Linked, ToSet
  <2>3. \A s \in Linked : HasTss(gdt, tss, process[s].entry) /\ process[s].entry \in Nat
    BY <2>2 DEF ProcessesInv, Paired, HasTss, TypesOfTables
  <2>4. \A s, r \in Linked : process[s].entry = process[r].entry => s = r
    <3> SUFFICES ASSUME NEW m \in DOMAIN list, NEW n \in DOMAIN list,
                        process[list[m]].entry = process[list[n]].entry
                 PROVE  m = n
      BY <2>2
    <3>1. process[list[m]].entry \in Nat /\ process[list[n]].entry \in Nat
      BY <2>3 DEF Linked, ToSet
    <3>2. ~(m < n) /\ ~(n < m)
      BY <3>1 DEF ProcessesInv, EntriesFall
    <3> QED
      BY <2>1, <3>2
  <2> QED
    BY <2>3, <2>4 DEF LinkedHaveTss, HasTss
<1> QED
  BY <1>1, ProcessesInvariant, PTL

\* No id on the list is skipped, whichever create_process failed half-way.
THEOREM ListRunsNewestFirst == Spec => []ListIsNewestFirst
<1>1. ProcessesInv => ListIsNewestFirst
  BY DEF ProcessesInv
<1> QED
  BY <1>1, ProcessesInvariant, PTL

\* A process's id, and with it the place of its stack, is bounded by the size of
\* the GDT, however many slots there are for processes.
THEOREM StacksStayBelowVideo == Spec => []StacksBelowVideo
<1>1. ProcessesInv => StacksBelowVideo
  <2> SUFFICES ASSUME ProcessesInv, NEW n \in DOMAIN list
               PROVE  process[list[n]].id < sizes.gdt
    BY DEF StacksBelowVideo, Linked, ToSet
  <2>1. /\ process[list[n]].id + 4 <= process[list[n]].entry
        /\ process[list[n]].entry \in DOMAIN gdt
    BY LastSegment DEF ProcessesInv, EntriesFall, Paired, HasTss
  <2>2. process[list[n]].id \in Nat
    <3>1. /\ list \in Seq(DOMAIN process)
          /\ process \in [0..sizes.process - 1 -> [id : Nat, entry : Nat]]
      BY DEF ProcessesInv, TypesOfTables
    <3> DEFINE slots == DOMAIN process
    <3>2. list \in Seq(slots)
      BY <3>1
    <3> HIDE DEF slots
    <3>3. DOMAIN list = 1..Len(list) /\ \A i \in 1..Len(list) : list[i] \in slots
      BY <3>2
    <3>4. list[n] \in slots
      BY <3>3
    <3> QED
      BY <3>1, <3>4 DEF slots
  <2> QED
    BY <2>1, <2>2, SizesArePositive DEF ProcessesInv, TypesOfTables
<1> QED
  BY <1>1, ProcessesInvariant, PTL

\* The console switches always start from a process on the list.
THEOREM ViewedStaysLinked == Spec => []ViewedIsLinked
<1>1. ProcessesInv => ViewedIsLinked
  BY DEF ProcessesInv, Viewed
<1> QED
  BY <1>1, ProcessesInvariant, PTL

-----------------------------------------------------------------------------
(* The boot loader.                                                        *)

\* How many sectors of its file are read.
Loaded == si - FileStart(file)

\* Where the sector behind the loaded ones goes, for files that fit the segment.
NextSlot ==
  LET s == Target(file) + Loaded
  IN  IF s < SegmentSectors THEN s ELSE s - SegmentSectors

\* The types of the loader's registers and memory.
TypesOfLoader ==
  /\ pc \in {"directory", "search", "file", "jump", "move", "kernel", "lost"}
  /\ file \in Files
  /\ si \in Nat /\ di \in Nat /\ bx \in Slots
  /\ memory \in [Slots -> Int]
  /\ disk \in Disks

\* The registers of the directory's read, and which file comes when.
InPlace ==
  /\ pc \in {"directory", "search"} => si = directoryLBA /\ bx = 0
  /\ pc = "search" => memory[0] = directoryLBA
  /\ pc \in {"jump", "move", "kernel", "lost"} => file = "kernel"

\* Registers and count go together; a count of 0 has gone round and comes to an
\* end behind that of the disk only.
Reading ==
  pc = "file" =>
    /\ file \in disk.listed
    /\ Loaded \in Nat /\ si <= DiskSectors
    /\ Sectors(file) = 0 => di = IF Loaded = 0 THEN 0 ELSE Word - Loaded
    /\ Sectors(file) \in 1..SegmentSectors - 1 =>
         Loaded < Sectors(file) /\ di = Sectors(file) - Loaded /\ bx = NextSlot

BootFits == "boot" \in disk.listed /\ \A f \in Files : Sectors(f) < SegmentSectors

\* The boot file's first sector, from the moment it is read on.
BootStands ==
  BootFits /\ (pc = "file" => Sectors(file) # 0) /\ (file = "boot" => pc = "file" /\ Loaded > 0)
    => memory[1] = FileStart("boot")

\* The kernel, as far as it is read.
KernelStands ==
  KernelFits => \A i \in 0..Sectors("kernel") - 1 :
    /\ pc = "file" /\ file = "kernel" /\ i < Loaded => memory[i + 2] = FileStart("kernel") + i
    /\ pc \in {"jump", "move"} => memory[i + 2] = FileStart("kernel") + i
    /\ pc = "kernel" => high[i] = FileStart("kernel") + i

LoaderInv == TypesOfLoader /\ InPlace /\ Reading /\ BootStands /\ KernelStands

\* Division with a divisor that is not a number.
LEMMA DivMod ==
  ASSUME NEW a \in Nat, NEW b \in Nat \ {0}
  PROVE  /\ a \div b \in Nat
         /\ a % b \in 0..b - 1
         /\ a = b * (a \div b) + (a % b)
<1>1. a \div b \in Nat
  OBVIOUS
<1>2. a % b \in 0..b - 1
  OBVIOUS
<1>3. a = b * (a \div b) + (a % b)
  OBVIOUS
<1> QED
  BY <1>1, <1>2, <1>3

LEMMA Quotient ==
  ASSUME NEW b \in Nat \ {0}, NEW q \in Nat, NEW r \in 0..b - 1
  PROVE  /\ (b * q + r) \div b = q
         /\ (b * q + r) % b = r
OBVIOUS

LEMMA Smaller ==
  ASSUME NEW a \in Nat, NEW b \in Nat, a < b
  PROVE  a % b = a
OBVIOUS

LEMMA ProductGrows ==
  ASSUME NEW a \in Nat, NEW b \in Nat, NEW k \in Nat, a <= b
  PROVE  k * a <= k * b /\ k * a \in Nat /\ k * b \in Nat
<1>1. PICK d \in Nat : b = a + d
  <2>1. b - a \in Nat /\ b = a + (b - a)
    OBVIOUS
  <2> QED
    BY <2>1
<1>2. k * d \in Nat /\ k * a \in Nat /\ k * (a + d) = k * a + k * d
  OBVIOUS
<1> QED
  BY <1>1, <1>2

\* What the assumptions say of the disk and of the segment.
LEMMA Geometry ==
  /\ sectorSize \in Nat \ {0} /\ SegmentSectors \in Nat /\ SegmentSectors > 2
  /\ sectorsPerTrack \in Nat \ {0} /\ numHeads \in Nat \ {0} /\ Cylinders \in 1..255
  /\ DiskSectors \in Nat /\ Word \in Nat /\ DiskSectors <= Word
  /\ SegmentSectors <= Word
  /\ directoryLBA \in Nat /\ directoryLBA < DiskSectors
  /\ clusterToSector \in Nat \ {0}
<1>1. /\ sectorSize \in Nat \ {0} /\ SegmentSectors \in Nat /\ SegmentSectors > 2
  BY SectorAssumption
<1>2. /\ sectorsPerTrack \in Nat \ {0} /\ numHeads \in Nat \ {0} /\ Cylinders \in 1..255
      /\ directoryLBA \in LBAs /\ clusterToSector \in Nat \ {0} /\ DiskSectors <= Word
  BY GeometryAssumption
<1>3. DiskSectors \in Nat
  BY <1>2 DEF DiskSectors
<1>4. Word \in Nat /\ SegmentSectors <= Word
  <2>1. SegmentSectors * 1 <= SegmentSectors * sectorSize
    BY <1>1, ProductGrows
  <2> QED
    BY <1>1, <2>1 DEF Word
<1>5. directoryLBA \in Nat /\ directoryLBA < DiskSectors
  BY <1>2, <1>3 DEF LBAs
<1> QED
  BY <1>1, <1>2, <1>3, <1>4, <1>5

\* The BIOS reads no sector but the one that is meant, up to the first behind the
\* disk, and there it reads none.
LEMMA ReadsWhatIsMeant ==
  ASSUME NEW lba \in Nat, lba <= DiskSectors, Chs(lba).cylinder < Cylinders
  PROVE  lba < DiskSectors /\ BiosSector(Chs(lba)) = lba
<1> DEFINE q == lba \div sectorsPerTrack
           r == lba % sectorsPerTrack
           c == q \div numHeads
           h == q % numHeads
<1>1. q \in Nat /\ r \in 0..sectorsPerTrack - 1 /\ lba = sectorsPerTrack * q + r
  BY Geometry, DivMod
<1>2. c \in Nat /\ h \in 0..numHeads - 1 /\ q = numHeads * c + h
  BY <1>1, Geometry, DivMod
<1>3. Chs(lba) = [cylinder |-> c % 256, head |-> h, sector |-> r + 1]
  BY DEF Chs
<1> HIDE DEF q, r, c, h
<1>4. DiskSectors = sectorsPerTrack * (numHeads * Cylinders)
  BY Geometry DEF DiskSectors
<1>5. c <= Cylinders
  <2> SUFFICES ASSUME Cylinders + 1 <= c PROVE FALSE
    BY <1>2, Geometry
  <2>1. numHeads * (Cylinders + 1) <= numHeads * c
    BY <1>2, Geometry, ProductGrows
  <2>2. numHeads * (Cylinders + 1) = numHeads * Cylinders + numHeads
    BY Geometry
  <2>3. numHeads * Cylinders + 1 <= q /\ numHeads * Cylinders \in Nat
    BY <1>1, <1>2, <2>1, <2>2, Geometry
  <2>4. sectorsPerTrack * (numHeads * Cylinders + 1) <= sectorsPerTrack * q
    BY <1>1, <2>3, Geometry, ProductGrows
  <2>5. sectorsPerTrack * (numHeads * Cylinders + 1) = DiskSectors + sectorsPerTrack
    BY <1>4, <2>3, Geometry
  <2> QED
    BY <1>1, <2>4, <2>5, Geometry
<1>6. c % 256 = c /\ c < Cylinders
  BY <1>2, <1>3, <1>5, Geometry
<1>7. lba < DiskSectors
  <2>1. numHeads * (c + 1) <= numHeads * Cylinders /\ numHeads * (c + 1) = numHeads * c + numHeads
    BY <1>2, <1>6, Geometry, ProductGrows
  <2>2. q + 1 <= numHeads * Cylinders /\ numHeads * Cylinders \in Nat
    BY <1>1, <1>2, <2>1, Geometry
  <2>3. sectorsPerTrack * (q + 1) <= DiskSectors /\ sectorsPerTrack * (q + 1) = sectorsPerTrack * q + sectorsPerTrack
    BY <1>1, <1>4, <2>2, Geometry, ProductGrows
  <2> QED
    BY <1>1, <2>3, Geometry
<1>8. BiosSector(Chs(lba)) = (c * numHeads + h) * sectorsPerTrack + (r + 1) - 1
  BY <1>3, <1>6 DEF BiosSector
<1>9. c * numHeads + h = q
  BY <1>2, Geometry
<1>10. q * sectorsPerTrack + (r + 1) - 1 = lba
  BY <1>1, Geometry
<1> QED
  BY <1>7, <1>8, <1>9, <1>10

\* The low word of the size is enough for a file of less than 64 KB.
LEMMA CountIsSectors ==
  ASSUME NEW size \in Nat
  PROVE  /\ SectorsOf(size) \in Nat /\ Count(size) \in Nat
         /\ SectorsOf(size) < SegmentSectors => Count(size) = SectorsOf(size)
<1> DEFINE a == size + sectorSize - 1
           k == a \div sectorSize
           r == a % sectorSize
           q == size \div sectorSize
           t == size % sectorSize
<1>1. a \in Nat /\ k \in Nat /\ r \in 0..sectorSize - 1 /\ a = sectorSize * k + r
  <2>1. a \in Nat
    BY Geometry
  <2> HIDE DEF a
  <2> QED
    BY <2>1, Geometry, DivMod
<1>2. q \in Nat /\ t \in 0..sectorSize - 1 /\ size = sectorSize * q + t
  BY Geometry, DivMod
<1>3. SectorsOf(size) = k
  BY DEF SectorsOf
<1>4. Count(size) \in Nat
  <2>1. size % Word \in Nat
    BY Geometry
  <2>2. (size % Word) \div sectorSize \in Nat
    BY <2>1, Geometry
  <2> QED
    BY <2>2 DEF Count
<1>5. ASSUME k < SegmentSectors
      PROVE  Count(size) = k
  <2> HIDE DEF k, r, q, t
  <2>1. sectorSize * (k + 1) <= sectorSize * SegmentSectors
    BY <1>1, <1>5, Geometry, ProductGrows
  <2>2. sectorSize * (k + 1) = sectorSize * k + sectorSize
    BY <1>1, Geometry
  <2>3. size < Word
    BY <1>1, <2>1, <2>2, Geometry DEF Word, a
  <2>4. size % Word = size
    BY <2>3, Geometry, Smaller
  <2>5. Count(size) = q + (IF t = 0 THEN 0 ELSE 1)
    BY <2>4 DEF Count, q, t
  <2>6. CASE t = 0
    <3>1. a = sectorSize * q + (sectorSize - 1) /\ sectorSize - 1 \in 0..sectorSize - 1
      BY <1>2, <2>6, Geometry DEF a
    <3>2. k = q
      BY <1>2, <3>1, Geometry, Quotient DEF k
    <3> QED
      BY <1>2, <2>5, <2>6, <3>2
  <2>7. CASE t # 0
    <3>1. sectorSize * (q + 1) = sectorSize * q + sectorSize
      BY <1>2, Geometry
    <3>2. a = sectorSize * (q + 1) + (t - 1) /\ t - 1 \in 0..sectorSize - 1
      BY <1>2, <2>7, <3>1, Geometry DEF a
    <3>3. k = q + 1
      BY <1>2, <3>2, Geometry, Quotient DEF k
    <3> QED
      BY <1>2, <2>5, <2>7, <3>3
  <2> QED
    BY <2>6, <2>7
<1> QED
  BY <1>1, <1>3, <1>4, <1>5

\* A listed file is on the disk, behind its first sector.
LEMMA FileOnDisk ==
  ASSUME disk \in Disks, NEW f \in disk.listed
  PROVE  /\ f \in Files /\ disk.size[f] \in Nat
         /\ FileStart(f) \in Nat \ {0} /\ FileStart(f) + Sectors(f) <= DiskSectors
         /\ Sectors(f) \in Nat
<1>1. disk \in Floppies
  BY DisksAssumption
<1>2. /\ f \in Files /\ disk.size[f] \in Nat /\ disk.cluster[f] \in Nat
      /\ disk.cluster[f] + clusterToSector + SectorsOf(disk.size[f]) <= DiskSectors
  BY <1>1 DEF Floppies
<1>3. SectorsOf(disk.size[f]) \in Nat
  BY <1>2, CountIsSectors
<1> QED
  BY <1>2, <1>3, Geometry DEF FileStart, Sectors

LEMMA SectorsType ==
  ASSUME disk \in Disks, NEW f \in Files
  PROVE  Sectors(f) \in Nat /\ FileStart(f) \in Nat
<1>1. disk.size[f] \in Nat /\ disk.cluster[f] \in Nat
  BY DisksAssumption DEF Floppies
<1> QED
  BY <1>1, CountIsSectors, Geometry DEF Sectors, FileStart

LEMMA LoaderInitially == InitLoader => LoaderInv
<1> SUFFICES ASSUME InitLoader PROVE LoaderInv
  OBVIOUS
<1>1. TypesOfLoader
  BY Geometry DEF InitLoader, TypesOfLoader, Files, Slots, Nothing
<1>2. InPlace /\ Reading /\ BootStands /\ KernelStands
  BY DEF InitLoader, InPlace, Reading, BootStands, KernelStands
<1> QED
  BY <1>1, <1>2 DEF LoaderInv

LEMMA ReadDirectoryKeeps ==
  ASSUME LoaderInv, ReadDirectory
  PROVE  LoaderInv'
<1>1. /\ pc = "directory" /\ pc' = "search" /\ UNCHANGED <<file, si, di, bx, high, disk, present>>
      /\ si = directoryLBA /\ bx = 0
      /\ Chs(si).cylinder < Cylinders
      /\ memory' = [memory EXCEPT ![0] = BiosSector(Chs(si))]
  BY DEF ReadDirectory, LoaderInv, InPlace, Load, BiosReads
<1>2. BiosSector(Chs(si)) = directoryLBA
  BY <1>1, Geometry, ReadsWhatIsMeant
<1>3. TypesOfLoader' /\ memory'[0] = directoryLBA
  BY <1>1, <1>2, Geometry DEF LoaderInv, TypesOfLoader, Slots
<1>4. \A s \in Slots : s # 0 => memory'[s] = memory[s]
  BY <1>1 DEF LoaderInv, TypesOfLoader
<1>5. InPlace' /\ Reading' /\ KernelStands'
  BY <1>1, <1>3 DEF InPlace, Reading, KernelStands
<1>6. BootStands'
  BY <1>1, <1>4, Geometry DEF LoaderInv, BootStands, BootFits, Sectors, FileStart, Loaded, Slots
<1> QED
  BY <1>3, <1>5, <1>6 DEF LoaderInv

LEMMA FoundKeeps ==
  ASSUME LoaderInv, Found
  PROVE  LoaderInv'
<1>1. /\ pc = "search" /\ pc' = "file" /\ file \in disk.listed
      /\ si' = FileStart(file) /\ di' = Count(disk.size[file]) /\ bx' = Target(file)
      /\ UNCHANGED <<file, memory, high, disk, present>>
  BY DEF Found, InDirectory
<1>2. disk \in Disks /\ file \in Files
  BY DEF LoaderInv, TypesOfLoader
<1>3. /\ disk.size[file] \in Nat
      /\ FileStart(file) \in Nat \ {0} /\ FileStart(file) + Sectors(file) <= DiskSectors
      /\ Sectors(file) \in Nat
  BY <1>1, <1>2, FileOnDisk
<1>4. Target(file) \in {1, 2}
  BY DEF Target
<1>5. TypesOfLoader'
  <2>1. Count(disk.size[file]) \in Nat
    BY <1>3, CountIsSectors
  <2> QED
    BY <1>1, <1>3, <1>4, <2>1, Geometry DEF LoaderInv, TypesOfLoader, Slots
<1>6. Loaded' = 0
  BY <1>1, <1>3 DEF Loaded, FileStart
<1>7. UNCHANGED <<Sectors(file), Target(file)>>
  BY <1>1 DEF Sectors, Target
<1>8. Reading'
  <2>1. Sectors(file) < SegmentSectors => Count(disk.size[file]) = Sectors(file)
    BY <1>3, CountIsSectors DEF Sectors
  <2>2. NextSlot' = Target(file)
    BY <1>4, <1>6, <1>7, Geometry DEF NextSlot
  <2> QED
    BY <1>1, <1>3, <1>6, <1>7, <2>1, <2>2, Geometry DEF Reading
<1>9. InPlace'
  BY <1>1 DEF InPlace
<1>10. BootStands' /\ KernelStands'
  BY <1>1, <1>2, <1>6, <1>7 DEF LoaderInv, BootStands, KernelStands, BootFits, KernelFits, Sectors, FileStart, Files
<1> QED
  BY <1>5, <1>8, <1>9, <1>10 DEF LoaderInv

LEMMA NotFoundKeeps ==
  ASSUME LoaderInv, NotFound
  PROVE  LoaderInv'
<1>1. /\ pc = "search" /\ memory[0] = directoryLBA /\ file \notin disk.listed
      /\ UNCHANGED <<di, memory, high, disk, present>>
      /\ ReturnFrom(file)
  BY DEF NotFound, InDirectory, LoaderInv, InPlace
<1>2. file \in Files /\ bx \in Slots
  BY DEF LoaderInv, TypesOfLoader
<1>3. CASE file = "boot"
  <2>1. pc' = "directory" /\ file' = "kernel" /\ si' = directoryLBA /\ bx' = 0
    BY <1>1, <1>3 DEF ReturnFrom
  <2>2. TypesOfLoader'
    BY <1>1, <2>1, Geometry DEF LoaderInv, TypesOfLoader, Files, Slots
  <2>3. InPlace' /\ Reading' /\ KernelStands'
    BY <2>1 DEF InPlace, Reading, KernelStands
  <2>4. BootStands'
    BY <1>1, <1>3 DEF BootStands, BootFits
  <2> QED
    BY <2>2, <2>3, <2>4 DEF LoaderInv
<1>4. CASE file = "kernel"
  <2>1. pc' = "jump" /\ UNCHANGED <<file, si, bx>>
    BY <1>1, <1>4 DEF ReturnFrom
  <2>2. TypesOfLoader'
    BY <1>1, <2>1 DEF LoaderInv, TypesOfLoader
  <2>3. InPlace' /\ Reading'
    BY <1>4, <2>1 DEF InPlace, Reading
  <2>4. KernelStands'
    BY <1>1, <1>4 DEF KernelStands, KernelFits
  <2>5. BootStands'
    BY <1>1, <1>4, <2>1 DEF LoaderInv, BootStands, BootFits, Sectors, FileStart
  <2> QED
    BY <2>2, <2>3, <2>4, <2>5 DEF LoaderInv
<1> QED
  BY <1>2, <1>3, <1>4 DEF Files

LEMMA ReadFileKeeps ==
  ASSUME LoaderInv, ReadFile
  PROVE  LoaderInv'
<1> DEFINE n == Sectors(file)
<1>1. /\ pc = "file" /\ Chs(si).cylinder < Cylinders
      /\ memory' = [memory EXCEPT ![bx] = BiosSector(Chs(si))]
      /\ di' = (di - 1) % Word
      /\ UNCHANGED <<high, disk, present>>
      /\ di' = 0 => ReturnFrom(file)
      /\ di' # 0 => si' = si + 1 /\ bx' = (bx + 1) % SegmentSectors /\ UNCHANGED <<pc, file>>
  BY DEF ReadFile, Load, BiosReads
<1>2. /\ file \in disk.listed /\ Loaded \in Nat /\ si <= DiskSectors
      /\ n = 0 => di = IF Loaded = 0 THEN 0 ELSE Word - Loaded
      /\ n \in 1..SegmentSectors - 1 => Loaded < n /\ di = n - Loaded /\ bx = NextSlot
  BY <1>1 DEF LoaderInv, Reading
<1>3. /\ file \in Files /\ si \in Nat /\ di \in Nat /\ bx \in Slots
      /\ memory \in [Slots -> Int] /\ disk \in Disks
  BY DEF LoaderInv, TypesOfLoader
<1>4. /\ FileStart(file) \in Nat \ {0} /\ FileStart(file) + n <= DiskSectors /\ n \in Nat
  BY <1>2, <1>3, FileOnDisk
<1>5. si < DiskSectors /\ BiosSector(Chs(si)) = si
  BY <1>1, <1>2, <1>3, ReadsWhatIsMeant
<1>6. si = FileStart(file) + Loaded
  BY <1>3, <1>4 DEF Loaded
<1>7. /\ memory' \in [Slots -> Int]
      /\ \A s \in Slots : memory'[s] = IF s = bx THEN FileStart(file) + Loaded ELSE memory[s]
  BY <1>1, <1>3, <1>5, <1>6
<1>8. n = 0 => di' = Word - (Loaded + 1) /\ di' # 0
  <2>1. CASE Loaded = 0
    <3>1. n = 0 => (0 - 1) % Word = Word - 1
      BY Geometry
    <3> QED
      BY <1>1, <1>2, <2>1, <3>1, Geometry
  <2>2. CASE Loaded # 0
    <3>1. Word - Loaded - 1 \in Nat /\ Word - Loaded - 1 < Word /\ Word - Loaded - 1 # 0
      BY <1>2, <1>4, <1>5, <1>6, <2>2, Geometry
    <3>2. (Word - Loaded - 1) % Word = Word - Loaded - 1
      BY <3>1, Geometry, Smaller
    <3> QED
      BY <1>1, <1>2, <2>2, <3>1, <3>2, Geometry
  <2> QED
    BY <2>1, <2>2
<1>9. n \in 1..SegmentSectors - 1 => di' = n - (Loaded + 1)
  <2> SUFFICES ASSUME n \in 1..SegmentSectors - 1 PROVE di' = n - (Loaded + 1)
    OBVIOUS
  <2>1. di - 1 \in Nat /\ di - 1 < Word /\ di - 1 = n - (Loaded + 1)
    BY <1>2, <1>4, Geometry
  <2>2. (di - 1) % Word = di - 1
    BY <2>1, Geometry, Smaller
  <2> QED
    BY <1>1, <2>1, <2>2
<1>10. Target(file) = IF file = "boot" THEN 1 ELSE 2
  BY DEF Target
<1> HIDE DEF n
\* The boot file's first sector is written once.
<1>11. BootFits /\ n # 0 => memory'[1] = FileStart("boot")
  <2> SUFFICES ASSUME BootFits, n # 0 PROVE memory'[1] = FileStart("boot")
    OBVIOUS
  <2>1. n \in 1..SegmentSectors - 1
    BY <1>3, <1>4, Geometry DEF BootFits, n
  <2>2. 1 \in Slots /\ Loaded < n /\ bx = NextSlot
    BY <1>2, <2>1, Geometry DEF Slots
  <2>3. CASE file = "boot"
    <3>1. bx = 1 + Loaded
      BY <1>2, <1>10, <2>1, <2>2, <2>3, Geometry DEF NextSlot
    <3>2. CASE Loaded = 0
      BY <1>4, <1>7, <2>2, <2>3, <3>1, <3>2
    <3>3. CASE Loaded # 0
      <4>1. memory[1] = FileStart("boot")
        BY <1>1, <1>2, <2>3, <3>3 DEF LoaderInv, BootStands, n
      <4> QED
        BY <1>2, <1>7, <2>2, <3>1, <3>3, <4>1
    <3> QED
      BY <3>2, <3>3
  <2>4. CASE file # "boot"
    <3>1. bx # 1
      BY <1>2, <1>10, <2>1, <2>2, <2>4, Geometry DEF NextSlot
    <3>2. memory[1] = FileStart("boot")
      BY <1>1, <2>4 DEF LoaderInv, BootStands, n
    <3> QED
      BY <1>7, <2>2, <3>1, <3>2
  <2> QED
    BY <2>3, <2>4
\* The kernel's sectors stand in their order, with the one that was read now.
<1>12. KernelFits /\ file = "kernel" =>
         \A i \in 0..n - 1 : i <= Loaded => memory'[i + 2] = FileStart("kernel") + i
  <2> SUFFICES ASSUME KernelFits, file = "kernel", NEW i \in 0..n - 1, i <= Loaded
               PROVE  memory'[i + 2] = FileStart("kernel") + i
    OBVIOUS
  <2>1. n \in 1..SegmentSectors - 2
    BY <1>4 DEF KernelFits, n
  <2>2. Loaded < n /\ bx = Loaded + 2
    BY <1>2, <1>10, <2>1, Geometry DEF NextSlot
  <2>3. i + 2 \in Slots
    BY <2>1, Geometry DEF Slots
  <2>4. CASE i = Loaded
    BY <1>7, <2>2, <2>3, <2>4
  <2>5. CASE i # Loaded
    <3>1. memory[i + 2] = FileStart("kernel") + i
      BY <1>1, <1>2, <2>5 DEF LoaderInv, KernelStands, n
    <3> QED
      BY <1>2, <1>7, <2>2, <2>3, <2>5, <3>1
  <2> QED
    BY <2>4, <2>5
<1>13. CASE di' = 0
  <2>1. n # 0
    BY <1>8, <1>13
  <2>2. CASE file = "boot"
    <3>1. pc' = "directory" /\ file' = "kernel" /\ si' = directoryLBA /\ bx' = 0
      BY <1>1, <1>13, <2>2 DEF ReturnFrom
    <3>2. TypesOfLoader'
      BY <1>1, <1>3, <1>7, <1>13, <3>1, Geometry DEF LoaderInv, TypesOfLoader, Files, Slots
    <3>3. InPlace' /\ Reading' /\ KernelStands'
      BY <3>1 DEF InPlace, Reading, KernelStands
    <3>4. BootStands'
      BY <1>1, <1>11, <2>1 DEF BootStands, BootFits, FileStart, Sectors
    <3> QED
      BY <3>2, <3>3, <3>4 DEF LoaderInv
  <2>3. CASE file = "kernel"
    <3>1. pc' = "jump" /\ UNCHANGED <<file, si, bx>>
      BY <1>1, <1>13, <2>3 DEF ReturnFrom
    <3>2. TypesOfLoader'
      BY <1>1, <1>3, <1>7, <1>13, <3>1 DEF LoaderInv, TypesOfLoader
    <3>3. InPlace' /\ Reading'
      BY <2>3, <3>1 DEF InPlace, Reading
    <3>4. KernelStands'
      <4>1. KernelFits => Loaded = n - 1
        BY <1>2, <1>4, <1>9, <1>13, <2>1, <2>3, Geometry DEF KernelFits, n
      <4>2. KernelFits => \A i \in 0..n - 1 : memory'[i + 2] = FileStart("kernel") + i
        BY <1>4, <1>12, <2>3, <4>1
      <4> QED
        BY <1>1, <2>3, <3>1, <4>2 DEF KernelStands, KernelFits, Sectors, FileStart, n
    <3>5. BootStands'
      BY <1>1, <1>11, <2>1 DEF BootStands, BootFits, FileStart, Sectors
    <3> QED
      BY <3>2, <3>3, <3>4, <3>5 DEF LoaderInv
  <2> QED
    BY <1>3, <2>2, <2>3 DEF Files
<1>14. CASE di' # 0
  <2>1. si' = si + 1 /\ bx' = (bx + 1) % SegmentSectors /\ pc' = "file" /\ file' = file
    BY <1>1, <1>14
  <2>2. Loaded' = Loaded + 1 /\ n' = n
    BY <1>1, <1>3, <1>4, <2>1 DEF Loaded, FileStart, Sectors, n
  <2>3. bx' = IF bx + 1 = SegmentSectors THEN 0 ELSE bx + 1
    <3>1. CASE bx + 1 = SegmentSectors
      <4>1. SegmentSectors % SegmentSectors = 0
        BY Geometry
      <4> QED
        BY <2>1, <3>1, <4>1, Geometry
    <3>2. CASE bx + 1 # SegmentSectors
      <4>1. bx + 1 \in Nat /\ bx + 1 < SegmentSectors
        BY <1>3, <3>2, Geometry DEF Slots
      <4> QED
        BY <2>1, <3>2, <4>1, Geometry, Smaller
    <3> QED
      BY <3>1, <3>2
  <2>4. TypesOfLoader'
    <3>1. di' \in Nat /\ bx' \in Slots
      BY <1>1, <1>3, <2>3, Geometry DEF Slots
    <3> QED
      BY <1>1, <1>3, <1>7, <2>1, <3>1 DEF TypesOfLoader
  <2>5. InPlace'
    BY <2>1 DEF InPlace
  <2>6. Reading'
    <3>1. n = 0 => di' = IF Loaded' = 0 THEN 0 ELSE Word - Loaded'
      BY <1>2, <1>8, <2>2
    <3>2. n \in 1..SegmentSectors - 1 => Loaded' < n /\ di' = n - Loaded'
      BY <1>2, <1>4, <1>9, <1>14, <2>2, Geometry
    <3>3. n \in 1..SegmentSectors - 1 => bx' = NextSlot'
      BY <1>2, <1>4, <1>10, <2>1, <2>2, <2>3, Geometry DEF NextSlot, Target
    <3>4. file \in disk'.listed /\ Loaded' \in Nat /\ si' <= DiskSectors
      BY <1>1, <1>2, <1>3, <1>5, <2>1, <2>2, Geometry
    <3> QED
      BY <2>1, <2>2, <3>1, <3>2, <3>3, <3>4 DEF Reading, n
  <2>7. BootStands'
    BY <1>1, <1>11, <2>1, <2>2 DEF BootStands, BootFits, FileStart, Sectors, n
  <2>8. KernelStands'
    <3>1. \A i \in 0..n - 1 : i < Loaded' => i <= Loaded
      BY <1>2, <1>4, <2>2
    <3> QED
      BY <1>1, <1>12, <2>1, <3>1 DEF KernelStands, KernelFits, Sectors, FileStart, n
  <2> QED
    BY <2>4, <2>5, <2>6, <2>7, <2>8 DEF LoaderInv
<1> QED
  BY <1>13, <1>14

LEMMA JumpKeeps ==
  ASSUME LoaderInv, Jump
  PROVE  LoaderInv'
<1>1. /\ pc = "jump" /\ pc' \in {"move", "lost"} /\ file = "kernel"
      /\ UNCHANGED <<file, si, di, bx, memory, high, disk, present>>
  BY DEF Jump, LoaderInv, InPlace
<1>2. TypesOfLoader' /\ InPlace' /\ Reading'
  BY <1>1 DEF LoaderInv, TypesOfLoader, InPlace, Reading
<1>3. BootStands'
  BY <1>1 DEF LoaderInv, BootStands, BootFits, Sectors, FileStart, Loaded
<1>4. KernelStands'
  BY <1>1 DEF LoaderInv, KernelStands, KernelFits, Sectors, FileStart
<1> QED
  BY <1>2, <1>3, <1>4 DEF LoaderInv

LEMMA MoveKeeps ==
  ASSUME LoaderInv, Move
  PROVE  LoaderInv'
<1>1. /\ pc = "move" /\ pc' = "kernel" /\ file = "kernel"
      /\ high' = [i \in 0..SegmentSectors - 3 |-> memory[i + 2]]
      /\ UNCHANGED <<file, si, di, bx, memory, disk, present>>
  BY DEF Move, LoaderInv, InPlace
<1>2. TypesOfLoader' /\ InPlace' /\ Reading'
  BY <1>1 DEF LoaderInv, TypesOfLoader, InPlace, Reading
<1>3. BootStands'
  BY <1>1 DEF LoaderInv, BootStands, BootFits, Sectors, FileStart, Loaded
<1>4. KernelFits => \A i \in 0..Sectors("kernel") - 1 : high'[i] = FileStart("kernel") + i
  <2> SUFFICES ASSUME KernelFits, NEW i \in 0..Sectors("kernel") - 1
               PROVE  high'[i] = FileStart("kernel") + i
    OBVIOUS
  <2>1. disk \in Disks /\ "kernel" \in Files
    BY DEF LoaderInv, TypesOfLoader, Files
  <2>2. Sectors("kernel") \in Nat /\ Sectors("kernel") <= SegmentSectors - 2
    BY <2>1, SectorsType DEF KernelFits
  <2>3. i \in 0..SegmentSectors - 3
    BY <2>2, Geometry
  <2>4. memory[i + 2] = FileStart("kernel") + i
    BY <1>1 DEF LoaderInv, KernelStands
  <2> QED
    BY <1>1, <2>3, <2>4
<1>5. KernelStands'
  BY <1>1, <1>4 DEF KernelStands, KernelFits, Sectors, FileStart
<1> QED
  BY <1>2, <1>3, <1>5 DEF LoaderInv

\* The strengthened invariant of the loader.
THEOREM LoaderInvariant == SpecLoader => []LoaderInv
<1>1. LoaderInv /\ [NextLoader]_loaderVars => LoaderInv'
  <2> SUFFICES ASSUME LoaderInv, [NextLoader]_loaderVars
               PROVE  LoaderInv'
    OBVIOUS
  <2>1. CASE ReadDirectory
    BY <2>1, ReadDirectoryKeeps
  <2>2. CASE Found
    BY <2>2, FoundKeeps
  <2>3. CASE NotFound
    BY <2>3, NotFoundKeeps
  <2>4. CASE ReadFile
    BY <2>4, ReadFileKeeps
  <2>5. CASE Jump
    BY <2>5, JumpKeeps
  <2>6. CASE Move
    BY <2>6, MoveKeeps
  <2>7. CASE UNCHANGED <<pc, file, si, di, bx, memory, high, disk>>
    BY <2>7 DEF LoaderInv, TypesOfLoader, InPlace, Reading, BootStands, BootFits, KernelStands,
       KernelFits, Sectors, FileStart, Loaded, NextSlot, Target
  <2> QED
    BY <2>1, <2>2, <2>3, <2>4, <2>5, <2>6, <2>7
       DEF NextLoader, Loader, Retry, TakeOut, LoaderEnded, registers, loaderVars
<1> QED
  BY <1>1, LoaderInitially, PTL DEF SpecLoader

\* The whole kernel, in order, is what is jumped to, for floppies of any geometry
\* and files of any sizes, whatever failed and was tried again.
THEOREM KernelIsWhole == SpecLoader => []KernelWhole
<1>1. LoaderInv => KernelWhole
  <2> SUFFICES ASSUME LoaderInv, pc = "kernel", KernelFits, NEW i \in 0..Sectors("kernel") - 1
               PROVE  high[i] = FileSector("kernel", i)
    BY DEF KernelWhole
  <2>1. high[i] = FileStart("kernel") + i
    BY DEF LoaderInv, KernelStands
  <2>2. FileStart("kernel") \in Nat /\ "kernel" \notin disk.split
    BY SectorsType DEF LoaderInv, TypesOfLoader, KernelFits, Files
  <2> QED
    BY <2>1, <2>2 DEF FileSector
<1> QED
  BY <1>1, LoaderInvariant, PTL

\* The boot file is still there when the loader jumps to it, whatever the kernel
\* that was loaded over it, of less than 64 KB.
THEOREM BootFileSurvives == SpecLoader => []BootSurvives
<1>1. LoaderInv => BootSurvives
  <2> SUFFICES ASSUME LoaderInv, pc = "jump", BootFits
               PROVE  memory[1] = FileSector("boot", 0)
    BY DEF BootSurvives, BootFits
  <2>1. memory[1] = FileStart("boot")
    BY DEF LoaderInv, BootStands, InPlace
  <2>2. FileStart("boot") \in Nat
    BY SectorsType DEF LoaderInv, TypesOfLoader, Files
  <2> QED
    BY <2>1, <2>2 DEF FileSector
<1> QED
  BY <1>1, LoaderInvariant, PTL
=============================================================================
