--------------------------- MODULE KeyReadProofs ---------------------------
(***************************************************************************)
(* Proofs about KeyQueue and KeyRead, which extends it, for every queue    *)
(* size and any number of presses.                                         *)
(***************************************************************************)
EXTENDS KeyRead, TLAPS

\* Key presses are taken into the entry empty_node names only while that
\* entry is free.
FreeEntry ==
  input.empty_node \in Slots => input.key_buffer[input.empty_node] = Free

\* The entries hold presses that were typed, each at most once.
TypedOnce ==
  /\ \A i \in Slots : input.key_buffer[i] \in 0..typed
  /\ \A i, j \in Slots : input.key_buffer[i] = input.key_buffer[j]
                           => input.key_buffer[i] = Free \/ i = j

\* The shift state beside a press is its own.
Paired ==
  \A i \in Slots : input.key_buffer[i] # Free =>
     (input.control_keys[i] <=> input.key_buffer[i] \in Shifted)

QueueInv == TypeOK /\ NameIntact /\ FullIsReadable /\ FreeEntry /\ TypedOnce /\ Paired

USE SizeAssumption, PressesAssumption, ShiftedAssumption

-----------------------------------------------------------------------------
(* The queue by itself.                                                    *)

LEMMA InitialEntries ==
  /\ InitialQueue.key_buffer \in [0..KEY_QUEUE_SIZE -> Cells]
  /\ \A i \in Slots : InitialQueue.key_buffer[i] = Free
  /\ InitialQueue.key_buffer[KEY_QUEUE_SIZE] = NameByte
  /\ InitialQueue.control_keys \in [0..KEY_QUEUE_SIZE -> BOOLEAN]
<1>1. InitialQueue.key_buffer = [i \in 0..KEY_QUEUE_SIZE |->
                                    IF i = KEY_QUEUE_SIZE THEN NameByte ELSE Free]
  BY DEF InitialQueue
<1>2. \A i \in Slots : i \in 0..KEY_QUEUE_SIZE /\ i # KEY_QUEUE_SIZE
  BY DEF Slots
<1>3. KEY_QUEUE_SIZE \in 0..KEY_QUEUE_SIZE
  OBVIOUS
<1>4. NameByte \in Cells /\ Free \in Cells
  BY DEF Cells
<1>5. InitialQueue.control_keys = [i \in 0..KEY_QUEUE_SIZE |-> i = KEY_QUEUE_SIZE]
  BY DEF InitialQueue
<1>6. [i \in 0..KEY_QUEUE_SIZE |-> i = KEY_QUEUE_SIZE] \in [0..KEY_QUEUE_SIZE -> BOOLEAN]
  OBVIOUS
<1> QED
  BY <1>1, <1>2, <1>3, <1>4, <1>5, <1>6

LEMMA ShiftWritten ==
  ASSUME NEW f \in [0..KEY_QUEUE_SIZE -> BOOLEAN], NEW i \in 0..KEY_QUEUE_SIZE, NEW k
  PROVE  /\ [f EXCEPT ![i] = k \in Shifted] \in [0..KEY_QUEUE_SIZE -> BOOLEAN]
         /\ [f EXCEPT ![i] = k \in Shifted][i] <=> k \in Shifted
         /\ \A j \in 0..KEY_QUEUE_SIZE : j # i => [f EXCEPT ![i] = k \in Shifted][j] = f[j]
<1>1. ASSUME NEW w \in BOOLEAN
      PROVE  /\ [f EXCEPT ![i] = w] \in [0..KEY_QUEUE_SIZE -> BOOLEAN]
             /\ [f EXCEPT ![i] = w][i] = w
             /\ \A j \in 0..KEY_QUEUE_SIZE : j # i => [f EXCEPT ![i] = w][j] = f[j]
  OBVIOUS
<1>2. (k \in Shifted) \in BOOLEAN
  OBVIOUS
<1> DEFINE w == k \in Shifted
<1>3. w \in BOOLEAN /\ (w <=> k \in Shifted)
  BY <1>2
<1>4. /\ [f EXCEPT ![i] = w] \in [0..KEY_QUEUE_SIZE -> BOOLEAN]
      /\ [f EXCEPT ![i] = w][i] = w
      /\ \A j \in 0..KEY_QUEUE_SIZE : j # i => [f EXCEPT ![i] = w][j] = f[j]
  <2> HIDE DEF w
  <2> QED
    BY <1>1, <1>3
<1> QED
  BY <1>4, Zenon

LEMMA QueueInit == Init => QueueInv
<1> SUFFICES ASSUME Init PROVE QueueInv
  OBVIOUS
<1>1. input.current_key = KEYQUEUE_NEW_QUEUE /\ input.empty_node = 0
  BY DEF Init, InitialQueue
<1>2. TypeOK
  <2>1. InitialQueue \in [key_buffer   : [0..KEY_QUEUE_SIZE -> Cells],
                         control_keys : [0..KEY_QUEUE_SIZE -> BOOLEAN],
                         current_key  : Slots \cup {KEYQUEUE_NEW_QUEUE},
                         empty_node   : Slots \cup {KEYQUEUE_NO_EMPTY_NODES}]
    <3> DEFINE b == InitialQueue.key_buffer
               s == InitialQueue.control_keys
    <3>1. b \in [0..KEY_QUEUE_SIZE -> Cells] /\ s \in [0..KEY_QUEUE_SIZE -> BOOLEAN]
      BY InitialEntries
    <3>2. InitialQueue = [current_key |-> KEYQUEUE_NEW_QUEUE,
                          empty_node |-> 0, key_buffer |-> b, control_keys |-> s]
      BY DEF InitialQueue
    <3>3. 0 \in Slots
      BY DEF Slots
    <3> HIDE DEF b, s
    <3> QED
      BY <3>1, <3>2, <3>3
  <2> QED
    BY <2>1 DEF Init, TypeOK
<1>3. NameIntact /\ FreeEntry /\ TypedOnce /\ Paired
  BY InitialEntries DEF Init, NameIntact, FreeEntry, TypedOnce, Paired, Free
<1>4. FullIsReadable
  BY <1>1 DEF FullIsReadable, Accepts, KEYQUEUE_NO_EMPTY_NODES
<1> QED
  BY <1>2, <1>3, <1>4 DEF QueueInv

\* What an accepted insertion does to a queue of the invariant.
LEMMA InsertStep ==
  ASSUME QueueInv, Press, Accepts(input)
  PROVE  /\ input.empty_node \in Slots
         /\ input.key_buffer[input.empty_node] = Free
         /\ input' = [key_buffer   |-> [input.key_buffer EXCEPT
                                          ![input.empty_node] = typed + 1],
                      control_keys |-> [input.control_keys EXCEPT
                                          ![input.empty_node] = typed + 1 \in Shifted],
                      current_key  |-> input.empty_node,
                      empty_node   |-> IF input.empty_node + 1 \in Slots
                                          /\ input.key_buffer[input.empty_node + 1] = Free
                                       THEN input.empty_node + 1
                                       ELSE KEYQUEUE_NO_EMPTY_NODES]
<1>1. input.empty_node \in Slots /\ input.key_buffer[input.empty_node] = Free
  BY DEF QueueInv, TypeOK, FreeEntry, Accepts
<1> DEFINE b == [input.key_buffer EXCEPT ![input.empty_node] = typed + 1]
           s == [input.control_keys EXCEPT ![input.empty_node] = typed + 1 \in Shifted]
           after == IF input.empty_node + 1 \in Slots
                       /\ input.key_buffer[input.empty_node + 1] = Free
                    THEN input.empty_node + 1 ELSE KEYQUEUE_NO_EMPTY_NODES
<1>2. input' = [key_buffer |-> b, control_keys |-> s, current_key |-> input.empty_node,
                empty_node |-> NextEmpty(b, s, input.empty_node)]
  BY DEF Press, Insert
<1>3. NextEmpty(b, s, input.empty_node) = after
  <2>1. /\ input.empty_node \in Int /\ input.empty_node # KEY_QUEUE_SIZE
        /\ input.empty_node + 1 \in 0..KEY_QUEUE_SIZE
    BY <1>1 DEF Slots
  <2>2. b[input.empty_node + 1] = input.key_buffer[input.empty_node + 1]
    BY <2>1 DEF QueueInv, TypeOK
  <2>3. NextEmpty(b, s, input.empty_node) =
          IF b[input.empty_node + 1] = Free
          THEN input.empty_node + 1 ELSE KEYQUEUE_NO_EMPTY_NODES
    BY <2>1 DEF NextEmpty
  <2>4. input.empty_node + 1 \notin Slots
          => input.key_buffer[input.empty_node + 1] # Free
    <3>1. input.empty_node + 1 \notin Slots => input.empty_node + 1 = KEY_QUEUE_SIZE
      BY <2>1 DEF Slots
    <3>2. NameByte # Free
      BY DEF NameByte, Free
    <3> QED
      BY <3>1, <3>2 DEF QueueInv, NameIntact
  <2> QED
    BY <2>2, <2>3, <2>4
<1> QED
  BY <1>1, <1>2, <1>3

LEMMA PressQueueInv == ASSUME QueueInv, Press PROVE QueueInv'
<1>1. CASE ~Accepts(input)
  <2>1. input' = input
    BY <1>1 DEF Press, Insert
  <2> QED
    BY <1>1, <2>1 DEF QueueInv, TypeOK, NameIntact, FullIsReadable, FreeEntry,
       TypedOnce, Paired, Press, Accepts, Readable
<1>2. CASE Accepts(input)
  <2> DEFINE e == input.empty_node
  <2>1. /\ e \in Slots
        /\ input.key_buffer[e] = Free
        /\ input'.key_buffer = [input.key_buffer EXCEPT ![e] = typed + 1]
        /\ input'.current_key = e
        /\ input'.empty_node = IF e + 1 \in Slots /\ input.key_buffer[e + 1] = Free
                               THEN e + 1 ELSE KEYQUEUE_NO_EMPTY_NODES
    BY <1>2, InsertStep
  <2>2. typed' = typed + 1 /\ typed' \in 1..MaxPresses /\ delivered' = delivered
    BY DEF QueueInv, TypeOK, Press
  <2>3. /\ input'.control_keys \in [0..KEY_QUEUE_SIZE -> BOOLEAN]
        /\ input'.control_keys[e] <=> typed + 1 \in Shifted
        /\ \A i \in 0..KEY_QUEUE_SIZE : i # e => input'.control_keys[i] = input.control_keys[i]
    <3>1. input.control_keys \in [0..KEY_QUEUE_SIZE -> BOOLEAN] /\ e \in 0..KEY_QUEUE_SIZE
      BY <2>1 DEF QueueInv, TypeOK, Slots
    <3> DEFINE s == [input.control_keys EXCEPT ![e] = typed + 1 \in Shifted]
    <3>2. input'.control_keys = s
      BY <1>2, InsertStep
    <3>3. /\ s \in [0..KEY_QUEUE_SIZE -> BOOLEAN]
          /\ s[e] <=> typed + 1 \in Shifted
          /\ \A i \in 0..KEY_QUEUE_SIZE : i # e => s[i] = input.control_keys[i]
      BY <3>1, ShiftWritten
    <3> HIDE DEF s
    <3> QED
      BY <3>2, <3>3
  <2>4. TypeOK'
    <3>1. input'.key_buffer \in [0..KEY_QUEUE_SIZE -> Cells]
      BY <2>1, <2>2 DEF QueueInv, TypeOK, Slots, Cells, Presses
    <3>2. /\ DOMAIN input' = {"key_buffer", "control_keys", "current_key", "empty_node"}
          /\ input' = [key_buffer |-> input'.key_buffer, control_keys |-> input'.control_keys,
                       current_key |-> input'.current_key, empty_node |-> input'.empty_node]
      BY <1>2, InsertStep
    <3>3. /\ input'.current_key \in Slots \cup {KEYQUEUE_NEW_QUEUE}
          /\ input'.empty_node \in Slots \cup {KEYQUEUE_NO_EMPTY_NODES}
      BY <2>1
    <3> QED
      BY <3>1, <3>2, <3>3, <2>3, <2>2 DEF QueueInv, TypeOK
  <2>5. NameIntact'
    BY <2>1 DEF QueueInv, TypeOK, NameIntact, Slots
  <2>6. FullIsReadable'
    BY <2>1, <2>2 DEF QueueInv, TypeOK, FullIsReadable, Accepts, Readable, Slots,
       Free, KEYQUEUE_NEW_QUEUE
  <2>7. FreeEntry'
    BY <2>1 DEF QueueInv, TypeOK, FreeEntry, Slots, KEYQUEUE_NO_EMPTY_NODES
  <2>8. TypedOnce'
    <3>1. /\ input'.key_buffer[e] = typed + 1
          /\ \A i \in Slots : i # e => input'.key_buffer[i] = input.key_buffer[i]
      BY <2>1 DEF QueueInv, TypeOK, Slots
    <3>2. \A i \in Slots : input.key_buffer[i] \in 0..typed
      BY DEF QueueInv, TypedOnce
    <3>3. typed \in Nat
      BY DEF QueueInv, TypeOK
    <3>4. \A i \in Slots : input'.key_buffer[i] \in 0..typed'
      BY <3>1, <3>2, <3>3, <2>2
    <3>5. ASSUME NEW i \in Slots, NEW j \in Slots,
                 input'.key_buffer[i] = input'.key_buffer[j]
          PROVE  input'.key_buffer[i] = Free \/ i = j
      <4>1. CASE i = e \/ j = e
        BY <4>1, <3>1, <3>2, <3>3, <3>5
      <4>2. CASE i # e /\ j # e
        BY <4>2, <3>1, <3>5 DEF QueueInv, TypedOnce
      <4> QED
        BY <4>1, <4>2
    <3> QED
      BY <3>4, <3>5 DEF TypedOnce
  <2>9. Paired'
    <3>1. /\ input'.key_buffer[e] = typed + 1
          /\ \A i \in Slots : i # e => input'.key_buffer[i] = input.key_buffer[i]
      BY <2>1 DEF QueueInv, TypeOK, Slots
    <3>2. \A i \in Slots : i \in 0..KEY_QUEUE_SIZE
      BY DEF Slots
    <3> QED
      BY <3>1, <3>2, <2>3 DEF QueueInv, Paired
  <2> QED
    BY <2>4, <2>5, <2>6, <2>7, <2>8, <2>9 DEF QueueInv
<1> QED
  BY <1>1, <1>2

\* What a successful read does to a queue of the invariant.
LEMMA ReadStep ==
  ASSUME QueueInv, Read, Readable(input)
  PROVE  /\ input.current_key \in Slots
         /\ input.key_buffer[input.current_key] \in Presses
         /\ input' = [key_buffer   |-> [input.key_buffer EXCEPT
                                          ![input.current_key] = Free],
                      control_keys |-> [input.control_keys EXCEPT
                                          ![input.current_key] = FALSE],
                      current_key  |-> IF input.current_key + 1 \in Slots
                                       THEN input.current_key + 1 ELSE 0,
                      empty_node   |-> IF Accepts(input) THEN input.empty_node
                                       ELSE input.current_key]
         /\ delivered' = Append(delivered, input.key_buffer[input.current_key])
<1>1. input.current_key \in Slots
  BY DEF QueueInv, TypeOK, Readable
<1>2. input.key_buffer[input.current_key] \in Presses
  BY <1>1 DEF QueueInv, TypeOK, TypedOnce, Readable, Presses, Free
<1>3. Advance(input.current_key) = IF input.current_key + 1 \in Slots
                                   THEN input.current_key + 1 ELSE 0
  BY <1>1 DEF Advance, Slots
<1>4. Char(input) = input.key_buffer[input.current_key]
  BY <1>1 DEF Char, Character, QueueInv, Paired, Readable
<1> QED
  BY <1>1, <1>2, <1>3, <1>4 DEF Read, Get

LEMMA ReadQueueInv == ASSUME QueueInv, Read PROVE QueueInv'
<1>1. CASE ~Readable(input)
  <2>1. input' = input /\ delivered' = delivered
    BY <1>1 DEF Read, Get
  <2> QED
    BY <2>1 DEF QueueInv, TypeOK, NameIntact, FullIsReadable, FreeEntry,
       TypedOnce, Paired, Read, Accepts, Readable
<1>2. CASE Readable(input)
  <2> DEFINE c == input.current_key
  <2>1. /\ c \in Slots
        /\ input.key_buffer[c] \in Presses
        /\ input'.key_buffer = [input.key_buffer EXCEPT ![c] = Free]
        /\ input'.control_keys = [input.control_keys EXCEPT ![c] = FALSE]
        /\ input'.current_key = IF c + 1 \in Slots THEN c + 1 ELSE 0
        /\ input'.empty_node = IF Accepts(input) THEN input.empty_node ELSE c
        /\ delivered' = Append(delivered, input.key_buffer[c])
        /\ typed' = typed
    BY <1>2, ReadStep DEF Read
  <2>2. TypeOK'
    <3>1. input'.key_buffer \in [0..KEY_QUEUE_SIZE -> Cells]
      BY <2>1 DEF QueueInv, TypeOK, Slots, Cells
    <3>2. delivered' \in Seq(Presses)
      BY <2>1 DEF QueueInv, TypeOK
    <3>3. /\ (IF c + 1 \in Slots THEN c + 1 ELSE 0) \in Slots
          /\ (IF Accepts(input) THEN input.empty_node ELSE c) \in Slots
      BY <2>1 DEF QueueInv, TypeOK, Slots, Accepts
    <3>4. input'.control_keys \in [0..KEY_QUEUE_SIZE -> BOOLEAN]
      BY <2>1 DEF QueueInv, TypeOK
    <3> QED
      BY <3>1, <3>2, <3>3, <3>4, <2>1, <1>2, ReadStep DEF QueueInv, TypeOK
  <2>3. NameIntact'
    BY <2>1 DEF QueueInv, TypeOK, NameIntact, Slots
  <2>4. FullIsReadable'
    BY <2>1 DEF QueueInv, TypeOK, FullIsReadable, Accepts, Slots,
       KEYQUEUE_NO_EMPTY_NODES
  <2>5. FreeEntry'
    BY <2>1 DEF QueueInv, TypeOK, FreeEntry, Slots, Accepts
  <2>6. TypedOnce'
    <3>1. /\ input'.key_buffer[c] = Free
          /\ \A i \in Slots : i # c => input'.key_buffer[i] = input.key_buffer[i]
      BY <2>1 DEF QueueInv, TypeOK, Slots
    <3>2. Free \in 0..typed
      BY DEF QueueInv, TypeOK, Free
    <3>3. \A i \in Slots : input'.key_buffer[i] \in 0..typed'
      BY <3>1, <3>2, <2>1 DEF QueueInv, TypedOnce
    <3>4. ASSUME NEW i \in Slots, NEW j \in Slots,
                 input'.key_buffer[i] = input'.key_buffer[j]
          PROVE  input'.key_buffer[i] = Free \/ i = j
      BY <3>1, <3>4 DEF QueueInv, TypedOnce
    <3> QED
      BY <3>3, <3>4 DEF TypedOnce
  <2>7. Paired'
    BY <2>1 DEF QueueInv, TypeOK, Paired, Slots
  <2> QED
    BY <2>2, <2>3, <2>4, <2>5, <2>6, <2>7 DEF QueueInv
<1> QED
  BY <1>1, <1>2

LEMMA QueueNext == QueueInv /\ [Next]_vars => QueueInv'
<1> SUFFICES ASSUME QueueInv, [Next]_vars PROVE QueueInv'
  OBVIOUS
<1>1. CASE Press
  BY <1>1, PressQueueInv
<1>2. CASE Read
  BY <1>2, ReadQueueInv
<1>3. CASE UNCHANGED vars
  BY <1>3 DEF vars, QueueInv, TypeOK, NameIntact, FullIsReadable, FreeEntry,
     TypedOnce, Paired, Accepts, Readable
<1> QED
  BY <1>1, <1>2, <1>3 DEF Next

\* The strengthened invariant holds in every reachable state.
THEOREM QueueInvariant == Spec => []QueueInv
  BY QueueInit, QueueNext, PTL DEF Spec

\* The indices of insert_keycode_to_queue and get_char_from_queue never leave
\* the buffer, for every queue size (keyboard.c:49, :99).
THEOREM IndicesStayInBuffer == Spec => []TypeOK
<1>1. QueueInv => TypeOK
  BY DEF QueueInv
<1> QED
  BY <1>1, QueueInvariant, PTL

\* No insertion reaches the process's name behind the buffer: the branch for
\* empty_node = KEY_QUEUE_SIZE (keyboard.c:56-65) is never taken.
THEOREM NameStaysIntact == Spec => []NameIntact
<1>1. QueueInv => NameIntact
  BY DEF QueueInv
<1> QED
  BY <1>1, QueueInvariant, PTL

\* A queue that refuses keys always has one for the next read.
THEOREM FullQueueIsReadable == Spec => []FullIsReadable
<1>1. QueueInv => FullIsReadable
  BY DEF QueueInv
<1> QED
  BY <1>1, QueueInvariant, PTL

\* The queue and the mailbox.
LEMMA RefineInit == Init => Mailbox!Init
<1> SUFFICES ASSUME Init PROVE Mailbox!Init
  OBVIOUS
<1>1. Pending = {}
  BY InitialEntries DEF Init, Pending
<1>2. NextKey = Free
  BY DEF Init, InitialQueue, NextKey, Readable, KEYQUEUE_NEW_QUEUE
<1> QED
  BY <1>1, <1>2 DEF Init, Mailbox!Init, Mailbox!Nothing, Free

LEMMA RefinePress == ASSUME QueueInv, Press PROVE Mailbox!TakeIn \/ Mailbox!Drop
<1>1. CASE ~Accepts(input)
  <2>1. input' = input
    BY <1>1 DEF Press, Insert
  <2>2. Pending' = Pending /\ NextKey' = NextKey
    BY <2>1 DEF Pending, NextKey, Readable
  <2>3. NextKey # Free
    BY <1>1 DEF QueueInv, FullIsReadable, Readable, NextKey
  <2> QED
    BY <2>2, <2>3 DEF Press, Mailbox!Drop, Mailbox!Nothing, Free
<1>2. CASE Accepts(input)
  <2> DEFINE e == input.empty_node
  <2>1. /\ e \in Slots
        /\ input.key_buffer[e] = Free
        /\ input'.key_buffer = [input.key_buffer EXCEPT ![e] = typed + 1]
        /\ input'.current_key = e
    BY <1>2, InsertStep
  <2>2. /\ input'.key_buffer[e] = typed + 1
        /\ \A i \in Slots : i # e => input'.key_buffer[i] = input.key_buffer[i]
    BY <2>1 DEF QueueInv, TypeOK, Slots
  <2>3. typed + 1 # Free
    BY DEF QueueInv, TypeOK, Free
  <2>4. Pending' = Pending \cup {typed + 1}
    BY <2>1, <2>2, <2>3 DEF Pending
  <2>5. e # KEYQUEUE_NEW_QUEUE
    BY <2>1 DEF Slots, KEYQUEUE_NEW_QUEUE
  <2>6. NextKey' = typed + 1
    BY <2>1, <2>2, <2>3, <2>5 DEF NextKey, Readable
  <2> QED
    BY <2>4, <2>6 DEF Press, Mailbox!TakeIn
<1> QED
  BY <1>1, <1>2

LEMMA RefineRead ==
  ASSUME QueueInv, Read PROVE Mailbox!Deliver \/ UNCHANGED Mailbox!vars
<1>1. CASE ~Readable(input)
  <2>1. input' = input /\ delivered' = delivered /\ typed' = typed
    BY <1>1 DEF Read, Get
  <2> QED
    BY <2>1 DEF Mailbox!vars, Pending, NextKey, Readable
<1>2. CASE Readable(input)
  <2> DEFINE c == input.current_key
             k == input.key_buffer[c]
  <2>1. /\ c \in Slots
        /\ k \in Presses
        /\ input'.key_buffer = [input.key_buffer EXCEPT ![c] = Free]
        /\ delivered' = Append(delivered, k)
        /\ typed' = typed
    BY <1>2, ReadStep DEF Read
  <2>2. /\ input'.key_buffer[c] = Free
        /\ \A i \in Slots : i # c => input'.key_buffer[i] = input.key_buffer[i]
    BY <2>1 DEF QueueInv, TypeOK, Slots
  <2>3. \A i \in Slots : input.key_buffer[i] = k => i = c
    BY <2>1 DEF QueueInv, TypedOnce, Presses, Free
  <2>4. k \in Pending /\ NextKey = k
    BY <1>2, <2>1 DEF Pending, Presses, Free, NextKey
  <2>5. Pending' = Pending \ {k}
    BY <2>1, <2>2, <2>3 DEF Pending
  <2>6. NextKey' \in Pending' \cup {Free}
    <3>1. Readable(input)' => input'.current_key \in Slots /\ input'.key_buffer[input'.current_key] # Free
      BY ReadQueueInv DEF QueueInv, TypeOK, Readable
    <3> QED
      BY <3>1 DEF NextKey, Pending
  <2> QED
    BY <2>1, <2>4, <2>5, <2>6 DEF Mailbox!Deliver, Mailbox!Nothing, Free
<1> QED
  BY <1>1, <1>2

\* The queue implements the mailbox: a key that was taken in is never
\* overwritten, and read once, with its own shift state; and a key is refused
\* only when the next read takes one, for every queue size (keyboard.c:36-119).
THEOREM QueueImplementsMailbox == Spec => ImplementsMailbox
<1>1. QueueInv /\ [Next]_vars => [Mailbox!Next]_(Mailbox!vars)
  <2> SUFFICES ASSUME QueueInv, [Next]_vars PROVE [Mailbox!Next]_(Mailbox!vars)
    OBVIOUS
  <2>1. CASE Press
    BY <2>1, RefinePress DEF Mailbox!Next
  <2>2. CASE Read
    BY <2>2, RefineRead DEF Mailbox!Next
  <2>3. CASE UNCHANGED vars
    BY <2>3 DEF vars, Mailbox!vars, Pending, NextKey, Readable
  <2> QED
    BY <2>1, <2>2, <2>3 DEF Next
<1> QED
  BY <1>1, RefineInit, QueueInvariant, PTL DEF Spec, ImplementsMailbox, Mailbox!Spec

-----------------------------------------------------------------------------
(* Reads with the keyboard interrupt between their steps.                  *)

b == input.key_buffer
s == input.control_keys
c == input.current_key
e == input.empty_node

\* Where a read stands.  Behind the test current_key is an index; as long as no
\* key was let in where it costs one, or none can be let in, what was read and
\* cleared is of one entry; and the wrap is made when it was tested for.
Standing ==
  /\ pc \notin {"idle", "check"} => c # KEYQUEUE_NEW_QUEUE
  /\ pc \in {"clear", "erase", "unshift", "release"} => char \in 1..typed
  /\ ToSet(delivered) \subseteq 1..typed \cup {Mixed}
  /\ ~raced \/ ~preempt =>
       /\ pc \in {"fetch", "clear", "erase", "unshift"} => (shift <=> s[c])
       /\ pc \in {"clear", "erase"} => b[c] = char
       /\ pc = "erase" => loaded = c
       /\ pc \in {"unshift", "release"} => b[c] = Free
       /\ pc = "release" => ~s[c]
  /\ ~skipped \/ ~preempt => (pc = "wrap" => c = KEY_QUEUE_SIZE)

\* The shift state of a key is its own, in the queue and in the hands of a read.
OwnShift ==
  ~raced =>
    /\ Paired
    /\ pc \in {"clear", "erase", "unshift", "release"} => (shift <=> char \in Shifted)

\* StuckNeedsSkip in the middle of a read: the release makes room, and until the
\* index is tested only a key that is skipped could fill the queue again.
NotStuck ==
  ~skipped =>
    /\ pc \in {"idle", "check"} => FullIsReadable
    /\ pc \in {"load", "store", "wrap"} => Accepts(input)
    /\ pc = "wrap_test" => Accepts(input) \/ (c # KEY_QUEUE_SIZE /\ Readable(input))

ReadInv ==
  /\ TypeOKRead /\ IndexInBuffer /\ TestedKeyStays /\ TypedOnce
  /\ Standing /\ OwnShift /\ LossNeedsRace /\ NotStuck

LEMMA SlotsAreCells ==
  /\ \A i \in Slots : i \in 0..KEY_QUEUE_SIZE /\ i # KEY_QUEUE_SIZE /\ i + 1 \in 0..KEY_QUEUE_SIZE
  /\ \A i \in 0..KEY_QUEUE_SIZE : i # KEY_QUEUE_SIZE => i \in Slots
  /\ 0 \in Slots /\ KEY_QUEUE_SIZE \in 0..KEY_QUEUE_SIZE /\ KEY_QUEUE_SIZE \notin Slots
  /\ KEYQUEUE_NEW_QUEUE \notin 0..KEY_QUEUE_SIZE /\ KEYQUEUE_NO_EMPTY_NODES \notin 0..KEY_QUEUE_SIZE
  BY DEF Slots, KEYQUEUE_NEW_QUEUE, KEYQUEUE_NO_EMPTY_NODES

Queue(keys, controls, current, empty) ==
  [key_buffer |-> keys, control_keys |-> controls, current_key |-> current, empty_node |-> empty]

\* The queue as a record of its four fields.
LEMMA QueueIs ==
  ASSUME ReadInv
  PROVE  /\ input = Queue(b, s, c, e)
         /\ b \in [0..KEY_QUEUE_SIZE -> Cells]
         /\ s \in [0..KEY_QUEUE_SIZE -> BOOLEAN]
         /\ c \in 0..KEY_QUEUE_SIZE \cup {KEYQUEUE_NEW_QUEUE}
         /\ e \in Slots \cup {KEYQUEUE_NO_EMPTY_NODES}
         /\ b[KEY_QUEUE_SIZE] = NameByte /\ NameByte # Free
         /\ typed \in 0..MaxPresses /\ typed \in Nat
         /\ delivered \in Seq(Presses \cup {Mixed}) /\ typed < Mixed
<1>1. NameByte # Free
  BY DEF NameByte, Free
<1>2. typed \in 0..MaxPresses /\ delivered \in Seq(Presses \cup {Mixed})
  BY DEF ReadInv, TypeOKRead
<1>3. typed < Mixed
  BY <1>2 DEF Mixed
<1>4. input \in [key_buffer   : [0..KEY_QUEUE_SIZE -> Cells],
                control_keys : [0..KEY_QUEUE_SIZE -> BOOLEAN],
                current_key  : 0..KEY_QUEUE_SIZE \cup {KEYQUEUE_NEW_QUEUE},
                empty_node   : Slots \cup {KEYQUEUE_NO_EMPTY_NODES}]
  BY DEF ReadInv, TypeOKRead
<1>5. input.key_buffer[KEY_QUEUE_SIZE] = NameByte
  BY DEF ReadInv, IndexInBuffer, NameIntact
<1> QED
  BY <1>1, <1>2, <1>3, <1>4, <1>5 DEF Queue, b, s, c, e

LEMMA QueueType ==
  ASSUME NEW x \in [0..KEY_QUEUE_SIZE -> Cells],
         NEW w \in [0..KEY_QUEUE_SIZE -> BOOLEAN],
         NEW y \in 0..KEY_QUEUE_SIZE \cup {KEYQUEUE_NEW_QUEUE},
         NEW z \in Slots \cup {KEYQUEUE_NO_EMPTY_NODES},
         input' = Queue(x, w, y, z)
  PROVE  /\ b' = x /\ s' = w /\ c' = y /\ e' = z
         /\ input' \in [key_buffer   : [0..KEY_QUEUE_SIZE -> Cells],
                        control_keys : [0..KEY_QUEUE_SIZE -> BOOLEAN],
                        current_key  : 0..KEY_QUEUE_SIZE \cup {KEYQUEUE_NEW_QUEUE},
                        empty_node   : Slots \cup {KEYQUEUE_NO_EMPTY_NODES}]
  BY DEF Queue, b, s, c, e

\* The entry the read is at, from the test on to the increment.
LEMMA EntryIsSlot ==
  ASSUME ReadInv, pc \in {"shift", "fetch", "clear", "erase", "unshift", "release", "load"}
  PROVE  c \in Slots /\ c \in 0..KEY_QUEUE_SIZE
  BY SlotsAreCells, QueueIs DEF ReadInv, IndexInBuffer, Standing, c

LEMMA ReadInit == InitRead => ReadInv
<1> SUFFICES ASSUME InitRead PROVE ReadInv
  OBVIOUS
<1>1. /\ input = InitialQueue /\ typed = 0 /\ delivered = <<>> /\ pc = "idle"
      /\ c = KEYQUEUE_NEW_QUEUE /\ e = 0 /\ input = Queue(b, s, c, e)
      /\ char = Free /\ accepted = {} /\ loaded = 0
  BY DEF InitRead, Init, InitialQueue, Queue, b, s, c, e
<1>2. /\ b \in [0..KEY_QUEUE_SIZE -> Cells] /\ s \in [0..KEY_QUEUE_SIZE -> BOOLEAN]
      /\ \A i \in Slots : b[i] = Free
      /\ b[KEY_QUEUE_SIZE] = NameByte
  BY <1>1, InitialEntries DEF b, s
<1>3. TypeOKRead
  <2>1. input \in [key_buffer   : [0..KEY_QUEUE_SIZE -> Cells],
                   control_keys : [0..KEY_QUEUE_SIZE -> BOOLEAN],
                   current_key  : 0..KEY_QUEUE_SIZE \cup {KEYQUEUE_NEW_QUEUE},
                   empty_node   : Slots \cup {KEYQUEUE_NO_EMPTY_NODES}]
    BY <1>1, <1>2, SlotsAreCells DEF Queue
  <2>2. 0 \in 0..MaxPresses /\ 0 \in Slots /\ delivered \in Seq(Presses \cup {Mixed})
    BY <1>1, SlotsAreCells
  <2>3. preempt \in BOOLEAN /\ shift \in BOOLEAN /\ raced \in BOOLEAN /\ skipped \in BOOLEAN
    BY Zenon DEF InitRead
  <2> QED
    BY <1>1, <2>1, <2>2, <2>3 DEF TypeOKRead
<1>4. IndexInBuffer /\ TestedKeyStays
  BY <1>1, <1>2, SlotsAreCells DEF IndexInBuffer, NameIntact, TestedKeyStays, b, c
<1>5. TypedOnce /\ Paired
  <2>1. Free \in 0..typed
    BY <1>1 DEF Free
  <2> QED
    BY <1>2, <2>1 DEF TypedOnce, Paired, b
<1>6. ToSet(delivered) = {}
  BY <1>1 DEF ToSet
<1>7. Standing /\ OwnShift
  BY <1>1, <1>5, <1>6 DEF Standing, OwnShift
<1>8. Accepts(input) /\ Pending = {} /\ InHand = {} /\ b[e] = Free
  BY <1>1, <1>2, SlotsAreCells DEF Accepts, e, Pending, InHand, b
<1>9. LossNeedsRace
  BY <1>1, <1>6, <1>8 DEF LossNeedsRace, b, e
<1>10. NotStuck
  BY <1>1, <1>8 DEF NotStuck, FullIsReadable
<1> QED
  BY <1>3, <1>4, <1>5, <1>7, <1>9, <1>10 DEF ReadInv

-----------------------------------------------------------------------------
\* What a key that is let in does to the queue.
LEMMA LetIn ==
  ASSUME ReadInv, Interrupt, Accepts(input)
  PROVE  /\ e \in Slots /\ c' = e
         /\ b' \in [0..KEY_QUEUE_SIZE -> Cells] /\ b'[e] = typed + 1
         /\ \A i \in 0..KEY_QUEUE_SIZE : i # e => b'[i] = b[i]
         /\ s' \in [0..KEY_QUEUE_SIZE -> BOOLEAN] /\ (s'[e] <=> typed + 1 \in Shifted)
         /\ \A i \in 0..KEY_QUEUE_SIZE : i # e => s'[i] = s[i]
         /\ e' \in Slots \cup {KEYQUEUE_NO_EMPTY_NODES}
         /\ Accepts(input)' => b'[e'] = Free
         /\ input' = Queue(b', s', c', e')
         /\ typed' = typed + 1 /\ typed' \in 0..MaxPresses /\ typed' \in Presses
         /\ accepted' = accepted \cup {typed + 1} /\ preempt
         /\ ~raced' => /\ ~raced /\ pc \notin {"clear", "erase", "unshift", "release"}
                       /\ pc = "fetch" => (shift <=> typed + 1 \in Shifted)
         /\ ~skipped' => ~skipped /\ pc \notin {"load", "store", "wrap"}
         /\ UNCHANGED <<delivered, pc, preempt, loaded, shift, char>>
<1> DEFINE B == [b EXCEPT ![e] = typed + 1]
           S == [s EXCEPT ![e] = typed + 1 \in Shifted]
           after == NextEmpty(B, S, e)
<1>1. e \in Slots /\ e \in 0..KEY_QUEUE_SIZE /\ e # KEY_QUEUE_SIZE /\ e + 1 \in 0..KEY_QUEUE_SIZE
  BY QueueIs, SlotsAreCells DEF Accepts, e
<1>2. /\ input' = Queue(B, S, e, after)
      /\ typed' = typed + 1 /\ typed < MaxPresses /\ accepted' = accepted \cup {typed + 1} /\ preempt
      /\ UNCHANGED <<delivered, pc, preempt, loaded, shift, char>>
  BY DEF Interrupt, Press, Insert, local, Queue, b, s, c, e
<1>3. /\ ~raced' => ~raced /\ ~Costs(typed + 1)
      /\ ~skipped' => ~skipped /\ pc \notin {"load", "store", "wrap"}
  BY Zenon DEF Interrupt
<1>4. ~Costs(typed + 1) => /\ pc \notin {"clear", "erase", "unshift", "release"}
                           /\ pc = "fetch" => (shift <=> typed + 1 \in Shifted)
  <2>1. shift \in BOOLEAN
    BY DEF ReadInv, TypeOKRead
  <2> QED
    BY <2>1, Zenon DEF Costs
<1>5. typed' \in 0..MaxPresses /\ typed' \in Presses /\ typed + 1 \in Cells
  BY <1>2, QueueIs DEF Presses, Cells
<1>6. /\ B \in [0..KEY_QUEUE_SIZE -> Cells] /\ B[e] = typed + 1
      /\ \A i \in 0..KEY_QUEUE_SIZE : i # e => B[i] = b[i]
  BY <1>1, <1>5, QueueIs
<1>7. /\ S \in [0..KEY_QUEUE_SIZE -> BOOLEAN] /\ (S[e] <=> typed + 1 \in Shifted)
      /\ \A i \in 0..KEY_QUEUE_SIZE : i # e => S[i] = s[i]
  BY <1>1, QueueIs, ShiftWritten
<1> HIDE DEF S
<1>8. /\ after \in Slots \cup {KEYQUEUE_NO_EMPTY_NODES}
      /\ after # KEYQUEUE_NO_EMPTY_NODES => B[after] = Free
  <2>1. after = IF B[e + 1] = Free THEN e + 1 ELSE KEYQUEUE_NO_EMPTY_NODES
    BY <1>1 DEF NextEmpty
  <2>2. B[KEY_QUEUE_SIZE] # Free
    BY <1>1, <1>6, QueueIs, SlotsAreCells
  <2> QED
    BY <1>1, <2>1, <2>2, SlotsAreCells
<1> HIDE DEF B, after
<1>9. b' = B /\ s' = S /\ c' = e /\ e' = after
  BY <1>2 DEF Queue, b, s, c, e
<1>10. Accepts(input)' => after # KEYQUEUE_NO_EMPTY_NODES
  BY <1>9 DEF Accepts, e
<1> QED
  BY <1>1, <1>2, <1>3, <1>4, <1>5, <1>6, <1>7, <1>8, <1>9, <1>10

LEMMA LetInInv == ASSUME ReadInv, Interrupt, Accepts(input) PROVE ReadInv'
<1>1. /\ e \in Slots /\ e \in 0..KEY_QUEUE_SIZE /\ e # KEY_QUEUE_SIZE
      /\ e # KEYQUEUE_NEW_QUEUE /\ KEY_QUEUE_SIZE \in 0..KEY_QUEUE_SIZE
      /\ typed \in Nat
  BY LetIn, SlotsAreCells, QueueIs
<1>2. TypeOKRead'
  <2>1. raced' \in BOOLEAN /\ skipped' \in BOOLEAN
    BY Zenon DEF Interrupt
  <2>2. accepted' \subseteq Presses
    BY LetIn DEF ReadInv, TypeOKRead
  <2>3. input' \in [key_buffer   : [0..KEY_QUEUE_SIZE -> Cells],
                    control_keys : [0..KEY_QUEUE_SIZE -> BOOLEAN],
                    current_key  : 0..KEY_QUEUE_SIZE \cup {KEYQUEUE_NEW_QUEUE},
                    empty_node   : Slots \cup {KEYQUEUE_NO_EMPTY_NODES}]
    BY <1>1, LetIn DEF Queue
  <2> QED
    BY <2>1, <2>2, <2>3, LetIn DEF ReadInv, TypeOKRead
<1>3. IndexInBuffer'
  BY <1>1, LetIn DEF ReadInv, IndexInBuffer, NameIntact, b, c
<1>4. Readable(input)' /\ TestedKeyStays'
  <2>1. Readable(input)'
    BY <1>1, LetIn DEF Readable, Free, b, c
  <2>2. pc = "erase" => b'[loaded] # Free
    <3>1. pc = "erase" => b[loaded] # Free /\ loaded \in 0..KEY_QUEUE_SIZE
      BY SlotsAreCells DEF ReadInv, TestedKeyStays, TypeOKRead, b
    <3>2. typed + 1 # Free
      BY <1>1 DEF Free
    <3> QED
      BY <3>1, <3>2, LetIn
  <2> QED
    BY <2>1, <2>2, LetIn DEF TestedKeyStays, b
<1>5. TypedOnce'
  <2>1. \A i \in Slots : b[i] \in 0..typed /\ b'[i] = IF i = e THEN typed + 1 ELSE b[i]
    BY LetIn, SlotsAreCells DEF ReadInv, TypedOnce, b
  <2>2. \A i \in Slots : b'[i] \in 0..typed'
    BY <1>1, <2>1, LetIn
  <2>3. \A i, j \in Slots : b'[i] = b'[j] => b'[i] = Free \/ i = j
    BY <1>1, <2>1 DEF ReadInv, TypedOnce, b
  <2> QED
    BY <2>2, <2>3 DEF TypedOnce, b
<1>6. Standing'
  <2>1. /\ preempt' /\ ToSet(delivered)' = ToSet(delivered) /\ 1..typed \subseteq 1..typed'
        /\ c' # KEYQUEUE_NEW_QUEUE
    BY <1>1, LetIn
  <2>2. ~raced' => /\ pc' \notin {"clear", "erase", "unshift", "release"}
                   /\ pc' = "fetch" => (shift' <=> s'[c'])
    BY LetIn
  <2>3. ~skipped' => pc' # "wrap"
    BY LetIn
  <2>4. /\ pc' \in {"clear", "erase", "unshift", "release"} => char' \in 1..typed'
        /\ ToSet(delivered)' \subseteq 1..typed' \cup {Mixed}
    BY <2>1, LetIn DEF ReadInv, Standing
  <2> QED
    BY <2>1, <2>2, <2>3, <2>4 DEF Standing
<1>7. OwnShift'
  <2>1. ASSUME ~raced' PROVE Paired'
    <3>1. \A i \in Slots : b[i] # Free => (s[i] <=> b[i] \in Shifted)
      BY <2>1, LetIn DEF ReadInv, OwnShift, Paired, b, s
    <3>2. \A i \in Slots : b'[i] # Free => (s'[i] <=> b'[i] \in Shifted)
      BY <3>1, LetIn, SlotsAreCells
    <3> QED
      BY <3>2 DEF Paired, b, s
  <2> QED
    BY <2>1, LetIn DEF OwnShift
<1>8. ASSUME ~raced' PROVE LossNeedsRace'
  <2>1. /\ accepted = Pending \cup InHand \cup ToSet(delivered)
        /\ (Pending \cup InHand) \cap ToSet(delivered) = {} /\ b[e] = Free
        /\ pc \notin {"clear", "erase", "unshift", "release"} /\ InHand = {} /\ InHand' = {}
    BY <1>8, LetIn DEF ReadInv, LossNeedsRace, InHand, b, e
  <2>2. Pending' = Pending \cup {typed + 1}
    <3>1. \A i \in Slots : b'[i] = IF i = e THEN typed + 1 ELSE b[i]
      BY LetIn, SlotsAreCells
    <3>2. typed + 1 # Free
      BY <1>1 DEF Free
    <3> QED
      BY <1>1, <2>1, <3>1, <3>2 DEF Pending, b
  <2>3. typed + 1 \notin ToSet(delivered) /\ ToSet(delivered)' = ToSet(delivered)
    <3>1. typed + 1 \notin 1..typed /\ typed + 1 # Mixed
      BY <1>1, LetIn DEF Mixed, Presses
    <3> QED
      BY <3>1, LetIn DEF ReadInv, Standing
  <2>4. Accepts(input)' => b'[e'] = Free
    BY LetIn
  <2> QED
    BY <2>1, <2>2, <2>3, <2>4, LetIn DEF LossNeedsRace, b, e
<1>9. NotStuck'
  BY <1>1, <1>4, LetIn DEF NotStuck, FullIsReadable
<1> QED
  BY <1>2, <1>3, <1>4, <1>5, <1>6, <1>7, <1>8, <1>9 DEF ReadInv, LossNeedsRace

LEMMA RefusedInv == ASSUME ReadInv, Interrupt, ~Accepts(input) PROVE ReadInv'
<1>1. /\ input' = input /\ accepted' = accepted
      /\ UNCHANGED <<delivered, pc, preempt, loaded, shift, char>>
      /\ typed' = typed + 1 /\ typed' \in 0..MaxPresses /\ typed \in Nat
  BY QueueIs DEF Interrupt, Press, Insert, local
<1>2. /\ raced' \in BOOLEAN /\ skipped' \in BOOLEAN
      /\ (~raced' => ~raced) /\ (~skipped' => ~skipped)
  BY Zenon DEF Interrupt
<1>3. preempt /\ (raced => raced') /\ (skipped => skipped')
  BY Zenon DEF Interrupt
<1>4. /\ b' = b /\ s' = s /\ c' = c /\ e' = e /\ Pending' = Pending /\ InHand' = InHand
      /\ ToSet(delivered)' = ToSet(delivered) /\ Accepts(input)' = Accepts(input)
      /\ Readable(input)' = Readable(input)
  BY <1>1 DEF b, s, c, e, Pending, InHand, Accepts, Readable
<1>5. TypeOKRead' /\ IndexInBuffer' /\ TestedKeyStays'
  BY <1>1, <1>2, <1>4 DEF ReadInv, TypeOKRead, IndexInBuffer, NameIntact, TestedKeyStays
<1>6. TypedOnce' /\ OwnShift'
  BY <1>1, <1>2 DEF ReadInv, TypedOnce, OwnShift, Paired
<1>7. Standing'
  <2>1. 1..typed \subseteq 1..typed'
    BY <1>1
  <2> QED
    BY <1>1, <1>2, <1>3, <1>4, <2>1 DEF ReadInv, Standing
<1>8. LossNeedsRace'
  BY <1>1, <1>2, <1>4 DEF ReadInv, LossNeedsRace
<1>9. NotStuck'
  BY <1>1, <1>2, <1>4 DEF ReadInv, NotStuck, FullIsReadable
<1> QED
  BY <1>5, <1>6, <1>7, <1>8, <1>9 DEF ReadInv

\* Steps that do not write the queue, nor take a key in hand.
LEMMA LookIs ==
  ASSUME ReadInv, \/ \E interruptible \in BOOLEAN : Call(interruptible)
                  \/ Check \/ TestShift \/ ClearIndex \/ LoadIndex \/ WrapTest
  PROVE  /\ UNCHANGED <<input, typed, delivered, accepted, raced, skipped>>
         /\ b' = b /\ s' = s /\ c' = c /\ e' = e /\ Pending' = Pending
         /\ Accepts(input)' = Accepts(input) /\ Readable(input)' = Readable(input)
         /\ InHand' = InHand
         /\ \/ /\ pc = "idle" /\ pc' = "check" /\ preempt' \in BOOLEAN /\ char' = Free
               /\ UNCHANGED <<loaded, shift>>
            \/ /\ pc = "check" /\ UNCHANGED <<loaded, shift, char>>
               /\ \/ Readable(input) /\ pc' = "shift" /\ preempt' = preempt
                  \/ ~Readable(input) /\ pc' = "idle" /\ preempt' = TRUE
            \/ /\ pc = "shift" /\ pc' = "fetch" /\ shift' = s[c]
               /\ UNCHANGED <<preempt, loaded, char>>
            \/ /\ pc = "clear" /\ pc' = "erase" /\ loaded' = c
               /\ UNCHANGED <<preempt, shift, char>>
            \/ /\ pc = "load" /\ pc' = "store" /\ loaded' = c
               /\ UNCHANGED <<preempt, shift, char>>
            \/ /\ pc = "wrap_test" /\ UNCHANGED <<loaded, shift, char>>
               /\ \/ c = KEY_QUEUE_SIZE /\ pc' = "wrap" /\ preempt' = preempt
                  \/ c # KEY_QUEUE_SIZE /\ pc' = "idle" /\ preempt' = TRUE
<1>1. /\ UNCHANGED <<input, typed, delivered, accepted, raced, skipped>>
      /\ b' = b /\ s' = s /\ c' = c /\ e' = e /\ Pending' = Pending
      /\ Accepts(input)' = Accepts(input) /\ Readable(input)' = Readable(input)
  BY DEF Call, Check, TestShift, ClearIndex, LoadIndex, WrapTest, vars, history, b, s, c, e,
         Pending, Accepts, Readable
<1>2. InHand' = InHand
  BY DEF Call, Check, TestShift, ClearIndex, LoadIndex, WrapTest, InHand
<1>3. preempt \in BOOLEAN
  BY DEF ReadInv, TypeOKRead
<1>4. CASE \E interruptible \in BOOLEAN : Call(interruptible)
  BY <1>1, <1>2, <1>4 DEF Call
<1>5. CASE Check
  <2>1. preempt' = (preempt \/ ~Readable(input)) /\ pc = "check" /\ UNCHANGED <<loaded, shift, char>>
        /\ pc' = IF Readable(input) THEN "shift" ELSE "idle"
    BY <1>5 DEF Check
  <2>2. CASE Readable(input)
    <3>1. preempt' = preempt
      BY <2>1, <2>2, <1>3, Zenon
    <3> QED
      BY <1>1, <1>2, <2>1, <2>2, <3>1
  <2>3. CASE ~Readable(input)
    <3>1. preempt' = TRUE
      BY <2>1, <2>3, Zenon
    <3> QED
      BY <1>1, <1>2, <2>1, <2>3, <3>1
  <2> QED
    BY <2>2, <2>3
<1>6. CASE TestShift
  BY <1>1, <1>2, <1>6 DEF TestShift, s, c
<1>7. CASE ClearIndex
  BY <1>1, <1>2, <1>7 DEF ClearIndex, c
<1>8. CASE LoadIndex
  BY <1>1, <1>2, <1>8 DEF LoadIndex, c
<1>9. CASE WrapTest
  <2>1. /\ preempt' = (preempt \/ c # KEY_QUEUE_SIZE) /\ pc = "wrap_test"
        /\ UNCHANGED <<loaded, shift, char>>
        /\ pc' = IF c = KEY_QUEUE_SIZE THEN "wrap" ELSE "idle"
    BY <1>9, Zenon DEF WrapTest, c
  <2>2. CASE c = KEY_QUEUE_SIZE
    <3>1. preempt' = preempt
      BY <2>1, <2>2, <1>3, Zenon
    <3> QED
      BY <1>1, <1>2, <2>1, <2>2, <3>1
  <2>3. CASE c # KEY_QUEUE_SIZE
    <3>1. preempt' = TRUE
      BY <2>1, <2>3, Zenon
    <3> QED
      BY <1>1, <1>2, <2>1, <2>3, <3>1
  <2> QED
    BY <2>2, <2>3
<1> QED
  BY <1>4, <1>5, <1>6, <1>7, <1>8, <1>9

LEMMA LookInv ==
  ASSUME ReadInv, \/ \E interruptible \in BOOLEAN : Call(interruptible)
                  \/ Check \/ TestShift \/ ClearIndex \/ LoadIndex \/ WrapTest
  PROVE  ReadInv'
<1>1. pc \in {"shift", "clear", "load"} => c \in Slots /\ c \in 0..KEY_QUEUE_SIZE
  BY EntryIsSlot
<1>2. TypeOKRead'
  <2>1. pc' \in {"idle", "check", "shift", "fetch", "erase", "store", "wrap"}
    BY LookIs
  <2>2. preempt' \in BOOLEAN /\ shift' \in BOOLEAN
    BY <1>1, LookIs, QueueIs DEF ReadInv, TypeOKRead
  <2>3. loaded' \in Slots /\ char' \in Presses \cup {Free}
    BY <1>1, LookIs DEF ReadInv, TypeOKRead
  <2> QED
    BY <2>1, <2>2, <2>3, LookIs DEF ReadInv, TypeOKRead
<1>3. IndexInBuffer' /\ TestedKeyStays'
  BY LookIs DEF ReadInv, IndexInBuffer, NameIntact, TestedKeyStays, Readable, b, c
<1>4. Standing'
  <2>1. pc' \notin {"idle", "check"} => c' # KEYQUEUE_NEW_QUEUE
    BY LookIs DEF ReadInv, Standing, Readable, c
  <2>2. /\ pc' \in {"clear", "erase", "unshift", "release"} => char' \in 1..typed'
        /\ ToSet(delivered)' \subseteq 1..typed' \cup {Mixed}
    BY LookIs DEF ReadInv, Standing
  <2>3. ASSUME ~raced' \/ ~preempt', pc' = "erase"
        PROVE  (shift' <=> s'[c']) /\ b'[c'] = char' /\ loaded' = c'
    <3>1. pc = "clear" /\ loaded' = c /\ UNCHANGED <<preempt, shift, char, raced>>
      BY <2>3, LookIs
    <3> QED
      BY <2>3, <3>1, LookIs DEF ReadInv, Standing
  <2>4. pc' = "fetch" => (shift' <=> s'[c'])
    BY LookIs
  <2>5. /\ pc' \notin {"clear", "unshift", "release"}
        /\ pc' = "wrap" => c' = KEY_QUEUE_SIZE
    BY LookIs
  <2> QED
    BY <2>1, <2>2, <2>3, <2>4, <2>5 DEF Standing
<1>5. TypedOnce' /\ OwnShift' /\ LossNeedsRace'
  <2>1. /\ pc' \in {"clear", "erase", "unshift", "release"} =>
             pc \in {"clear", "erase", "unshift", "release"} /\ UNCHANGED <<shift, char>>
        /\ pc' \notin {"unshift", "release"}
    BY LookIs
  <2>2. OwnShift'
    <3>1. Paired' <=> Paired
      BY LookIs DEF Paired
    <3>2. raced' = raced
      BY LookIs
    <3>3. ASSUME ~raced', pc' \in {"clear", "erase", "unshift", "release"}
          PROVE  shift' <=> char' \in Shifted
      <4>1. ~raced /\ pc \in {"clear", "erase", "unshift", "release"} /\ UNCHANGED <<shift, char>>
        BY <2>1, <3>2, <3>3
      <4> QED
        BY <4>1 DEF ReadInv, OwnShift
    <3>4. ~raced' => Paired'
      BY <3>1, <3>2 DEF ReadInv, OwnShift
    <3> QED
      BY <3>3, <3>4, Zenon DEF OwnShift
  <2> QED
    BY <2>1, <2>2, LookIs DEF ReadInv, TypedOnce, LossNeedsRace
<1>6. NotStuck'
  BY LookIs DEF ReadInv, NotStuck, FullIsReadable
<1> QED
  BY <1>2, <1>3, <1>4, <1>5, <1>6 DEF ReadInv

\* A fetch takes in hand a key that waits.
LEMMA FetchIs ==
  ASSUME ReadInv, Fetch
  PROVE  /\ pc = "fetch" /\ pc' = "clear" /\ char' = b[c] /\ c \in Slots
         /\ b[c] \in 1..typed /\ b[c] \in Presses /\ b[c] \in Pending
         /\ UNCHANGED <<input, typed, delivered, preempt, loaded, shift, accepted, raced, skipped>>
         /\ b' = b /\ s' = s /\ c' = c /\ e' = e /\ Pending' = Pending
         /\ InHand = {} /\ InHand' = {b[c]}
<1>1. /\ pc = "fetch" /\ pc' = "clear" /\ char' = b[c]
      /\ UNCHANGED <<input, typed, delivered, preempt, loaded, shift, accepted, raced, skipped>>
      /\ b' = b /\ s' = s /\ c' = c /\ e' = e /\ Pending' = Pending
  BY DEF Fetch, vars, history, b, s, c, e, Pending
<1>2. c \in Slots /\ b[c] # Free /\ b[c] \in 0..typed
  BY <1>1, EntryIsSlot DEF ReadInv, TestedKeyStays, TypedOnce, Readable, b, c
<1>3. b[c] \in 1..typed /\ b[c] \in Presses /\ b[c] \in Pending
  BY <1>2, QueueIs DEF Free, Presses, Pending, b
<1> QED
  BY <1>1, <1>2, <1>3 DEF InHand

LEMMA FetchInv == ASSUME ReadInv, Fetch PROVE ReadInv'
<1>1. Accepts(input)' = Accepts(input) /\ Readable(input)' = Readable(input)
  BY FetchIs DEF Accepts, Readable
<1>2. TypeOKRead' /\ IndexInBuffer' /\ TestedKeyStays'
  BY <1>1, FetchIs DEF ReadInv, TypeOKRead, IndexInBuffer, NameIntact, TestedKeyStays
<1>3. Standing' /\ TypedOnce'
  BY FetchIs DEF ReadInv, Standing, TypedOnce
<1>4. OwnShift'
  <2>1. ~raced => (shift <=> b[c] \in Shifted)
    <3>1. ~raced => (shift <=> s[c]) /\ (s[c] <=> b[c] \in Shifted)
      BY FetchIs, QueueIs DEF ReadInv, Standing, OwnShift, Paired, b, s, Presses, Free
    <3> QED
      BY <3>1, Zenon
  <2>2. Paired' = Paired
    BY FetchIs DEF Paired
  <2> QED
    BY <2>1, <2>2, FetchIs DEF ReadInv, OwnShift
<1>5. LossNeedsRace'
  BY <1>1, FetchIs DEF ReadInv, LossNeedsRace
<1>6. NotStuck'
  BY FetchIs DEF NotStuck
<1> QED
  BY <1>2, <1>3, <1>4, <1>5, <1>6 DEF ReadInv

LEMMA EraseIs ==
  ASSUME ReadInv, Erase
  PROVE  /\ pc = "erase" /\ pc' = "unshift" /\ loaded \in Slots /\ loaded \in 0..KEY_QUEUE_SIZE
         /\ c \in Slots /\ c \in 0..KEY_QUEUE_SIZE
         /\ UNCHANGED <<typed, delivered, preempt, loaded, shift, char, accepted, raced, skipped>>
         /\ b' = [b EXCEPT ![loaded] = Free] /\ b' \in [0..KEY_QUEUE_SIZE -> Cells]
         /\ s' = s /\ c' = c /\ e' = e
         /\ input' = Queue(b', s', c', e')
         /\ \A i \in 0..KEY_QUEUE_SIZE : b'[i] = IF i = loaded THEN Free ELSE b[i]
         /\ InHand = {char} /\ InHand' = {char}
<1>1. /\ pc = "erase" /\ pc' = "unshift" /\ loaded \in Slots /\ loaded \in 0..KEY_QUEUE_SIZE
      /\ c \in Slots /\ c \in 0..KEY_QUEUE_SIZE
      /\ UNCHANGED <<typed, delivered, preempt, loaded, shift, char, accepted, raced, skipped>>
  BY EntryIsSlot, SlotsAreCells DEF Erase, history, ReadInv, TypeOKRead
<1>2. input' = Queue([b EXCEPT ![loaded] = Free], s, c, e)
  <2>1. input' = [input EXCEPT !.key_buffer = [b EXCEPT ![loaded] = Free]]
    BY DEF Erase, b
  <2>2. \A x : [input EXCEPT !.key_buffer = x] = Queue(x, s, c, e)
    BY QueueIs DEF Queue
  <2> QED
    BY <2>1, <2>2
<1>3. b' = [b EXCEPT ![loaded] = Free] /\ s' = s /\ c' = c /\ e' = e
  BY <1>2 DEF Queue, b, s, c, e
<1>4. b' \in [0..KEY_QUEUE_SIZE -> Cells]
  <2>1. Free \in Cells
    BY DEF Cells
  <2> QED
    BY <1>1, <1>3, <2>1, QueueIs
<1>5. \A i \in 0..KEY_QUEUE_SIZE : b'[i] = IF i = loaded THEN Free ELSE b[i]
  BY <1>1, <1>3, QueueIs
<1> QED
  BY <1>1, <1>2, <1>3, <1>4, <1>5 DEF InHand

\* Until it is raced, an erasure takes the key in hand out of the queue.
LEMMA EraseTakesKey ==
  ASSUME ReadInv, Erase, ~raced
  PROVE  char \in Pending /\ Pending' = Pending \ {char}
<1>1. b[c] = char /\ loaded = c
  BY EraseIs DEF ReadInv, Standing
<1>2. char # Free
  BY EraseIs DEF ReadInv, Standing, Free
<1>3. \A i \in Slots : b'[i] = IF i = c THEN Free ELSE b[i]
  BY <1>1, EraseIs, SlotsAreCells
<1>4. \A i \in Slots : b[i] = char => i = c
  BY <1>1, <1>2, EraseIs DEF ReadInv, TypedOnce, b
<1> QED
  BY <1>1, <1>2, <1>3, <1>4, EraseIs DEF Pending, b

LEMMA EraseInv == ASSUME ReadInv, Erase PROVE ReadInv'
<1>1. TypeOKRead'
  <2>1. input' \in [key_buffer   : [0..KEY_QUEUE_SIZE -> Cells],
                    control_keys : [0..KEY_QUEUE_SIZE -> BOOLEAN],
                    current_key  : 0..KEY_QUEUE_SIZE \cup {KEYQUEUE_NEW_QUEUE},
                    empty_node   : Slots \cup {KEYQUEUE_NO_EMPTY_NODES}]
    BY EraseIs, QueueIs DEF Queue
  <2> QED
    BY <2>1, EraseIs DEF ReadInv, TypeOKRead
<1>2. IndexInBuffer' /\ TestedKeyStays'
  BY EraseIs, SlotsAreCells DEF ReadInv, IndexInBuffer, NameIntact, TestedKeyStays, b, c
<1>3. TypedOnce'
  <2>1. \A i \in Slots : b'[i] = IF i = loaded THEN Free ELSE b[i]
    BY EraseIs, SlotsAreCells
  <2>2. typed' = typed /\ Free \in 0..typed
    BY EraseIs, QueueIs DEF Free
  <2> QED
    BY <2>1, <2>2 DEF ReadInv, TypedOnce, b
<1>4. Standing'
  BY EraseIs, SlotsAreCells DEF ReadInv, Standing
<1>5. OwnShift'
  <2>1. Paired => Paired'
    BY EraseIs, SlotsAreCells DEF Paired, b, s
  <2> QED
    BY <2>1, EraseIs DEF ReadInv, OwnShift
<1>6. ASSUME ~raced' PROVE LossNeedsRace'
  <2>1. /\ accepted = Pending \cup InHand \cup ToSet(delivered) /\ ~raced
        /\ (Pending \cup InHand) \cap ToSet(delivered) = {}
        /\ Accepts(input) => b[e] = Free
    BY <1>6, EraseIs DEF ReadInv, LossNeedsRace, b, e
  <2>2. Accepts(input)' => b'[e'] = Free
    <3>1. Accepts(input)' => Accepts(input) /\ e \in Slots
      BY EraseIs, QueueIs DEF Accepts, e
    <3> QED
      BY <2>1, <3>1, EraseIs, SlotsAreCells
  <2> QED
    BY <2>1, <2>2, EraseIs, EraseTakesKey DEF LossNeedsRace, b, e
<1>7. NotStuck'
  BY EraseIs DEF NotStuck
<1> QED
  BY <1>1, <1>2, <1>3, <1>4, <1>5, <1>6, <1>7 DEF ReadInv, LossNeedsRace

LEMMA UnshiftIs ==
  ASSUME ReadInv, Unshift
  PROVE  /\ pc = "unshift" /\ pc' = "release" /\ c \in Slots /\ c \in 0..KEY_QUEUE_SIZE
         /\ UNCHANGED <<typed, delivered, preempt, loaded, shift, char, accepted, raced, skipped>>
         /\ s' = [s EXCEPT ![c] = FALSE] /\ s' \in [0..KEY_QUEUE_SIZE -> BOOLEAN]
         /\ ~s'[c] /\ \A i \in Slots : i # c => s'[i] = s[i]
         /\ b' = b /\ c' = c /\ e' = e
         /\ input' = Queue(b', s', c', e')
         /\ Pending' = Pending /\ InHand' = InHand
<1>1. /\ pc = "unshift" /\ pc' = "release" /\ c \in Slots /\ c \in 0..KEY_QUEUE_SIZE
      /\ UNCHANGED <<typed, delivered, preempt, loaded, shift, char, accepted, raced, skipped>>
  BY EntryIsSlot DEF Unshift, history
<1>2. input' = Queue(b, [s EXCEPT ![c] = FALSE], c, e)
  <2>1. input' = [input EXCEPT !.control_keys = [s EXCEPT ![c] = FALSE]]
    BY DEF Unshift, s, c
  <2>2. \A x : [input EXCEPT !.control_keys = x] = Queue(b, x, c, e)
    BY QueueIs DEF Queue
  <2> QED
    BY <2>1, <2>2
<1>3. s' = [s EXCEPT ![c] = FALSE] /\ b' = b /\ c' = c /\ e' = e
  BY <1>2 DEF Queue, b, s, c, e
<1>4. /\ s' \in [0..KEY_QUEUE_SIZE -> BOOLEAN] /\ ~s'[c]
      /\ \A i \in Slots : i # c => s'[i] = s[i]
  BY <1>1, <1>3, QueueIs, SlotsAreCells
<1> QED
  BY <1>1, <1>2, <1>3, <1>4 DEF InHand, Pending, b

LEMMA UnshiftInv == ASSUME ReadInv, Unshift PROVE ReadInv'
<1>1. TypeOKRead'
  <2>1. input' \in [key_buffer   : [0..KEY_QUEUE_SIZE -> Cells],
                    control_keys : [0..KEY_QUEUE_SIZE -> BOOLEAN],
                    current_key  : 0..KEY_QUEUE_SIZE \cup {KEYQUEUE_NEW_QUEUE},
                    empty_node   : Slots \cup {KEYQUEUE_NO_EMPTY_NODES}]
    BY UnshiftIs, QueueIs DEF Queue
  <2> QED
    BY <2>1, UnshiftIs DEF ReadInv, TypeOKRead
<1>2. IndexInBuffer' /\ TestedKeyStays' /\ TypedOnce' /\ Standing'
  BY UnshiftIs DEF ReadInv, IndexInBuffer, NameIntact, TestedKeyStays, TypedOnce, Standing, b, c
<1>3. OwnShift'
  <2>1. ~raced => Paired'
    BY UnshiftIs DEF ReadInv, Standing, OwnShift, Paired, b, s
  <2> QED
    BY <2>1, UnshiftIs DEF ReadInv, OwnShift
<1>4. LossNeedsRace'
  BY UnshiftIs DEF ReadInv, LossNeedsRace, Accepts, b, e
<1>5. NotStuck'
  BY UnshiftIs DEF NotStuck
<1> QED
  BY <1>1, <1>2, <1>3, <1>4, <1>5 DEF ReadInv

LEMMA ToSetAppend ==
  ASSUME NEW S, NEW q \in Seq(S), NEW x
  PROVE  ToSet(Append(q, x)) = ToSet(q) \cup {x}
<1>1. /\ DOMAIN q = 1..Len(q) /\ Len(q) \in Nat /\ DOMAIN Append(q, x) = 1..Len(q) + 1
      /\ \A i \in 1..Len(q) : Append(q, x)[i] = q[i]
      /\ Append(q, x)[Len(q) + 1] = x
  OBVIOUS
<1>2. ToSet(q) = {q[i] : i \in 1..Len(q)} /\ ToSet(Append(q, x)) = {Append(q, x)[i] : i \in 1..Len(q) + 1}
  BY <1>1 DEF ToSet
<1>3. \A i \in 1..Len(q) + 1 : i \in 1..Len(q) \/ i = Len(q) + 1
  BY <1>1
<1>4. \A i \in 1..Len(q) : i \in 1..Len(q) + 1
  BY <1>1
<1>5. Len(q) + 1 \in 1..Len(q) + 1
  BY <1>1
<1> QED
  BY <1>1, <1>2, <1>3, <1>4, <1>5

LEMMA ReleaseIs ==
  ASSUME ReadInv, Release
  PROVE  /\ pc = "release" /\ pc' = "load" /\ c \in Slots /\ c \in 0..KEY_QUEUE_SIZE
         /\ UNCHANGED <<typed, preempt, loaded, shift, char, accepted, raced, skipped>>
         /\ b' = b /\ s' = s /\ c' = c /\ e' = (IF Accepts(input) THEN e ELSE c)
         /\ e' \in Slots /\ Accepts(input)'
         /\ input' = Queue(b', s', c', e')
         /\ char \in 1..typed /\ char \in Presses
         /\ delivered' = Append(delivered, Character(shift, char))
         /\ delivered' \in Seq(Presses \cup {Mixed})
         /\ ToSet(delivered') = ToSet(delivered) \cup {Character(shift, char)}
         /\ Character(shift, char) \in {char, Mixed}
         /\ ~raced => Character(shift, char) = char
         /\ Pending' = Pending /\ InHand = {char} /\ InHand' = {}
<1>1. /\ pc = "release" /\ pc' = "load" /\ c \in Slots /\ c \in 0..KEY_QUEUE_SIZE
      /\ UNCHANGED <<typed, preempt, loaded, shift, char, accepted, raced, skipped>>
      /\ delivered' = Append(delivered, Character(shift, char))
  BY EntryIsSlot DEF Release, history
<1>2. input' = Queue(b, s, c, IF Accepts(input) THEN e ELSE c)
  BY QueueIs DEF Release, Queue, c
<1>3. b' = b /\ s' = s /\ c' = c /\ e' = (IF Accepts(input) THEN e ELSE c)
  BY <1>2 DEF Queue, b, s, c, e
<1>4. e' \in Slots /\ Accepts(input)'
  <2>1. e' \in Slots
    BY <1>1, <1>3, QueueIs DEF Accepts, e
  <2> QED
    BY <2>1, SlotsAreCells DEF Accepts, e
<1>5. char \in 1..typed /\ char \in Presses
  BY <1>1, QueueIs DEF ReadInv, Standing, Presses
<1>6. Character(shift, char) \in {char, Mixed}
  BY DEF Character
<1>7. ~raced => Character(shift, char) = char
  BY <1>1 DEF ReadInv, OwnShift, Character
<1>8. /\ delivered' \in Seq(Presses \cup {Mixed})
      /\ ToSet(delivered') = ToSet(delivered) \cup {Character(shift, char)}
  <2>1. delivered \in Seq(Presses \cup {Mixed}) /\ Character(shift, char) \in Presses \cup {Mixed}
    BY <1>5, <1>6, QueueIs
  <2> QED
    BY <1>1, <2>1, ToSetAppend
<1>9. Pending' = Pending
  BY <1>3 DEF Pending, b
<1> QED
  BY <1>1, <1>2, <1>3, <1>4, <1>5, <1>6, <1>7, <1>8, <1>9 DEF InHand

LEMMA ReleaseInv == ASSUME ReadInv, Release PROVE ReadInv'
<1>1. TypeOKRead'
  <2>1. input' \in [key_buffer   : [0..KEY_QUEUE_SIZE -> Cells],
                    control_keys : [0..KEY_QUEUE_SIZE -> BOOLEAN],
                    current_key  : 0..KEY_QUEUE_SIZE \cup {KEYQUEUE_NEW_QUEUE},
                    empty_node   : Slots \cup {KEYQUEUE_NO_EMPTY_NODES}]
    BY ReleaseIs, QueueIs DEF Queue
  <2> QED
    BY <2>1, ReleaseIs DEF ReadInv, TypeOKRead
<1>2. IndexInBuffer' /\ TestedKeyStays' /\ TypedOnce' /\ Standing' /\ OwnShift'
  <2>1. ToSet(delivered') \subseteq 1..typed \cup {Mixed}
    BY ReleaseIs DEF ReadInv, Standing
  <2> QED
    BY <2>1, ReleaseIs DEF ReadInv, IndexInBuffer, NameIntact, TestedKeyStays, TypedOnce, Standing,
                           OwnShift, Paired, b, s, c
<1>3. LossNeedsRace'
  <2>1. ~raced => b'[e'] = Free
    BY ReleaseIs DEF ReadInv, Standing, LossNeedsRace, b, e
  <2>2. ~raced => /\ Pending' \cup InHand' \cup ToSet(delivered') = accepted'
                  /\ (Pending' \cup InHand') \cap ToSet(delivered') = {}
    BY ReleaseIs DEF ReadInv, LossNeedsRace
  <2> QED
    BY <2>1, <2>2, ReleaseIs DEF LossNeedsRace, b, e
<1>4. NotStuck'
  BY ReleaseIs DEF NotStuck
<1> QED
  BY <1>1, <1>2, <1>3, <1>4 DEF ReadInv

\* The increment, and the wrap.
LEMMA AdvanceIs ==
  ASSUME ReadInv, StoreIndex \/ Wrap
  PROVE  /\ UNCHANGED <<typed, delivered, loaded, shift, char, accepted, raced, skipped>>
         /\ \/ pc = "store" /\ pc' = "wrap_test" /\ c' = loaded + 1 /\ preempt' = preempt
            \/ pc = "wrap" /\ pc' = "idle" /\ c' = 0 /\ preempt' = TRUE
         /\ b' = b /\ s' = s /\ e' = e /\ c' \in 0..KEY_QUEUE_SIZE
         /\ input' = Queue(b', s', c', e')
         /\ Pending' = Pending /\ Accepts(input)' = Accepts(input)
         /\ InHand = {} /\ InHand' = {}
<1>1. /\ UNCHANGED <<typed, delivered, loaded, shift, char, accepted, raced, skipped>>
      /\ \/ pc = "store" /\ pc' = "wrap_test" /\ preempt' = preempt
         \/ pc = "wrap" /\ pc' = "idle" /\ preempt' = TRUE
  BY DEF StoreIndex, Wrap, history
<1>2. /\ \/ pc = "store" /\ c' = loaded + 1
         \/ pc = "wrap" /\ c' = 0
      /\ input' = Queue(b, s, c', e)
      /\ b' = b /\ s' = s /\ e' = e
  <2>1. CASE StoreIndex
    <3>1. input' = Queue(b, s, loaded + 1, e)
      BY <2>1, QueueIs DEF StoreIndex, Queue
    <3> QED
      BY <2>1, <3>1 DEF StoreIndex, Queue, b, s, c, e
  <2>2. CASE Wrap
    <3>1. input' = Queue(b, s, 0, e)
      BY <2>2, QueueIs DEF Wrap, Queue
    <3> QED
      BY <2>2, <3>1 DEF Wrap, Queue, b, s, c, e
  <2> QED
    BY <2>1, <2>2
<1>3. loaded + 1 \in 0..KEY_QUEUE_SIZE /\ 0 \in 0..KEY_QUEUE_SIZE
  BY SlotsAreCells DEF ReadInv, TypeOKRead
<1>4. Pending' = Pending /\ Accepts(input)' = Accepts(input)
  BY <1>2 DEF Pending, Accepts, b, e
<1> QED
  BY <1>1, <1>2, <1>3, <1>4 DEF InHand

LEMMA AdvanceInv == ASSUME ReadInv, StoreIndex \/ Wrap PROVE ReadInv'
<1>1. TypeOKRead'
  <2>1. input' \in [key_buffer   : [0..KEY_QUEUE_SIZE -> Cells],
                    control_keys : [0..KEY_QUEUE_SIZE -> BOOLEAN],
                    current_key  : 0..KEY_QUEUE_SIZE \cup {KEYQUEUE_NEW_QUEUE},
                    empty_node   : Slots \cup {KEYQUEUE_NO_EMPTY_NODES}]
    <3>1. /\ b' \in [0..KEY_QUEUE_SIZE -> Cells] /\ s' \in [0..KEY_QUEUE_SIZE -> BOOLEAN]
          /\ e' \in Slots \cup {KEYQUEUE_NO_EMPTY_NODES}
          /\ c' \in 0..KEY_QUEUE_SIZE \cup {KEYQUEUE_NEW_QUEUE}
          /\ input' = Queue(b', s', c', e')
      BY AdvanceIs, QueueIs
    <3> QED
      BY <3>1 DEF Queue
  <2>2. preempt' \in BOOLEAN
    BY AdvanceIs DEF ReadInv, TypeOKRead
  <2> QED
    BY <2>1, <2>2, AdvanceIs DEF ReadInv, TypeOKRead
<1>2. IndexInBuffer' /\ TestedKeyStays'
  BY AdvanceIs DEF ReadInv, IndexInBuffer, NameIntact, TestedKeyStays, b, c
<1>3. Standing'
  BY AdvanceIs, SlotsAreCells DEF ReadInv, Standing
<1>4. TypedOnce' /\ OwnShift' /\ LossNeedsRace'
  BY AdvanceIs DEF ReadInv, TypedOnce, OwnShift, Paired, LossNeedsRace, b, s, e
<1>5. NotStuck'
  BY AdvanceIs DEF ReadInv, NotStuck, FullIsReadable
<1> QED
  BY <1>1, <1>2, <1>3, <1>4, <1>5 DEF ReadInv

LEMMA ReadNext == ASSUME ReadInv, [NextRead]_readVars PROVE ReadInv'
<1>1. CASE UNCHANGED readVars
  <2>1. /\ UNCHANGED <<input, typed, delivered, pc, preempt, loaded, shift, char,
                       accepted, raced, skipped>>
        /\ UNCHANGED <<b, s, c, Pending, InHand>>
    BY <1>1 DEF readVars, vars, local, history, b, s, c, Pending, InHand
  <2>2. TypeOKRead' /\ IndexInBuffer' /\ TestedKeyStays' /\ TypedOnce'
    BY <2>1 DEF ReadInv, TypeOKRead, IndexInBuffer, NameIntact, TestedKeyStays, TypedOnce, Readable
  <2>3. Standing' /\ OwnShift' /\ LossNeedsRace'
    BY <2>1 DEF ReadInv, Standing, OwnShift, Paired, LossNeedsRace, Accepts
  <2>4. NotStuck'
    BY <2>1 DEF ReadInv, NotStuck, FullIsReadable, Readable, Accepts
  <2> QED
    BY <2>2, <2>3, <2>4 DEF ReadInv
<1> QED
  BY <1>1, LetInInv, RefusedInv, LookInv, FetchInv, EraseInv, UnshiftInv, ReleaseInv, AdvanceInv
     DEF NextRead

\* The invariant the theorems below rest on.
THEOREM ReadInvariant == SpecRead => []ReadInv
  BY ReadInit, ReadNext, PTL DEF SpecRead

-----------------------------------------------------------------------------
(* The read and the read in one step.                                      *)

\* Until a read clears an entry, and once it is through, the queue is settled.
LEMMA SettledIs ==
  ASSUME ReadInv
  PROVE  /\ pc \in {"idle", "check", "shift", "fetch", "clear", "erase"} => Settled = input
         /\ pc = "unshift" => Settled = Queue([b EXCEPT ![c] = char], s, c, e)
         /\ pc = "release" => Settled = Queue([b EXCEPT ![c] = char], [s EXCEPT ![c] = shift], c, e)
         /\ pc = "load" => Settled = Queue(b, s, Advance(c), e)
         /\ pc = "store" => Settled = Queue(b, s, Advance(loaded), e)
         /\ pc \in {"wrap_test", "wrap"} =>
              Settled = Queue(b, s, IF c = KEY_QUEUE_SIZE THEN 0 ELSE c, e)
<1>1. /\ \A x : [input EXCEPT !.key_buffer = x] = Queue(x, s, c, e)
      /\ \A x, y : [input EXCEPT !.key_buffer = x, !.control_keys = y] = Queue(x, y, c, e)
      /\ \A x : [input EXCEPT !.current_key = x] = Queue(b, s, x, e)
      /\ input = Queue(b, s, c, e)
  <2>1. input = Queue(b, s, c, e)
    BY QueueIs
  <2>2. \A x : [input EXCEPT !.key_buffer = x] = Queue(x, s, c, e)
    BY <2>1 DEF Queue
  <2>3. ASSUME NEW x, NEW y
        PROVE  [input EXCEPT !.key_buffer = x, !.control_keys = y] = Queue(x, y, c, e)
    <3> DEFINE q == [input EXCEPT !.key_buffer = x]
    <3>1. [input EXCEPT !.key_buffer = x, !.control_keys = y] = [q EXCEPT !.control_keys = y]
      OBVIOUS
    <3>2. q = Queue(x, s, c, e)
      BY <2>2
    <3> HIDE DEF q
    <3>3. [q EXCEPT !.control_keys = y] = Queue(x, y, c, e)
      BY <3>2 DEF Queue
    <3> QED
      BY <3>1, <3>3
  <2>4. \A x : [input EXCEPT !.current_key = x] = Queue(b, s, x, e)
    BY <2>1 DEF Queue
  <2> QED
    BY <2>1, <2>2, <2>3, <2>4
<1>2. CASE pc \in {"idle", "check", "shift", "fetch", "clear", "erase"}
  BY <1>2 DEF Settled
<1>3. CASE pc = "unshift"
  <2>1. Settled = [input EXCEPT !.key_buffer = [b EXCEPT ![c] = char]]
    BY <1>3 DEF Settled, b, c
  <2> QED
    BY <1>1, <1>3, <2>1
<1>4. CASE pc = "release"
  <2>1. Settled = [input EXCEPT !.key_buffer = [b EXCEPT ![c] = char],
                                !.control_keys = [s EXCEPT ![c] = shift]]
    BY <1>4 DEF Settled, b, s, c
  <2> QED
    BY <1>1, <1>4, <2>1
<1>5. CASE pc \in {"load", "store"}
  BY <1>1, <1>5 DEF Settled, c
<1>6. CASE pc \in {"wrap_test", "wrap"}
  BY <1>1, <1>6 DEF Settled, c
<1> QED
  BY <1>2, <1>3, <1>4, <1>5, <1>6 DEF ReadInv, TypeOKRead

\* The operators on the queue are those of the instance.
LEMMA SameRing ==
  /\ Atomic!InitialQueue = InitialQueue
  /\ \A q, k : Atomic!Insert(q, k) = Insert(q, k)
  /\ \A q : Atomic!Readable(q) <=> Readable(q)
  /\ \A q : Atomic!Char(q) = Char(q)
  /\ \A q : Atomic!Get(q) = Get(q)
<1>1. /\ Atomic!Free = Free /\ Atomic!NameByte = NameByte /\ Atomic!Mixed = Mixed
      /\ Atomic!KEYQUEUE_NEW_QUEUE = KEYQUEUE_NEW_QUEUE
      /\ Atomic!KEYQUEUE_NO_EMPTY_NODES = KEYQUEUE_NO_EMPTY_NODES
  BY DEF Free, Atomic!Free, NameByte, Atomic!NameByte, Mixed, Atomic!Mixed,
     KEYQUEUE_NEW_QUEUE, Atomic!KEYQUEUE_NEW_QUEUE,
     KEYQUEUE_NO_EMPTY_NODES, Atomic!KEYQUEUE_NO_EMPTY_NODES
<1>2. Atomic!InitialQueue = InitialQueue
  BY <1>1, Zenon DEF InitialQueue, Atomic!InitialQueue
<1>3. \A q : (Atomic!Accepts(q) <=> Accepts(q)) /\ (Atomic!Readable(q) <=> Readable(q))
  BY <1>1 DEF Accepts, Atomic!Accepts, Readable, Atomic!Readable
<1>4. \A x, y, i : Atomic!NextEmpty(x, y, i) = NextEmpty(x, y, i)
  BY <1>1 DEF NextEmpty, Atomic!NextEmpty
<1>5. \A i : Atomic!Advance(i) = Advance(i)
  BY DEF Advance, Atomic!Advance
<1>6. \A q, k : Atomic!Insert(q, k) = Insert(q, k)
  BY <1>3, <1>4, Zenon DEF Insert, Atomic!Insert
<1>7. \A q : Atomic!Get(q) = Get(q)
  BY <1>1, <1>3, <1>5 DEF Get, Atomic!Get
<1>8. \A q : Atomic!Char(q) = Char(q)
  BY <1>1, Zenon DEF Char, Atomic!Char, Character, Atomic!Character
<1> QED
  BY <1>2, <1>3, <1>6, <1>7, <1>8

LEMMA SettledInit == InitRead => Atomic!Init
<1> SUFFICES ASSUME InitRead PROVE Atomic!Init
  OBVIOUS
<1>1. Settled = input
  BY ReadInit, SettledIs DEF InitRead
<1> QED
  BY <1>1, SameRing DEF InitRead, Init, Atomic!Init

LEMMA InterruptIsAtomic ==
  ASSUME ReadInv, Interrupt, ~raced', ~skipped' PROVE Atomic!Press
<1>1. typed < MaxPresses /\ typed' = typed + 1 /\ delivered' = delivered
  BY DEF Interrupt, Press
<1>2. CASE ~Accepts(input)
  <2>1. UNCHANGED <<input, pc, shift, char, loaded>>
    BY <1>2 DEF Interrupt, Press, Insert, local
  <2>2. Settled' = Settled
    BY <2>1 DEF Settled
  <2>3. Settled.empty_node = e
    BY SettledIs DEF ReadInv, TypeOKRead, Queue, e
  <2>4. Insert(Settled, typed + 1) = Settled
    BY <1>2, <2>3 DEF Accepts, Insert, e
  <2> QED
    BY <1>1, <2>2, <2>4, SameRing DEF Atomic!Press
<1>3. CASE Accepts(input)
  <2>1. /\ pc \in {"idle", "check", "shift", "fetch", "wrap_test"} /\ pc' = pc
        /\ c' # KEY_QUEUE_SIZE
    BY <1>3, LetIn, SlotsAreCells DEF ReadInv, TypeOKRead
  <2>2. Settled' = input'
    <3>1. ReadInv'
      BY <1>3, LetInInv
    <3> QED
      BY <2>1, LetIn, <1>3 DEF Settled, c
  <2>3. /\ Settled.key_buffer = b /\ Settled.control_keys = s /\ Settled.empty_node = e
    BY <2>1, SettledIs DEF Queue, b, s, e
  <2>4. input' = Insert(input, typed + 1)
    BY DEF Interrupt, Press
  <2>5. Insert(Settled, typed + 1) = Insert(input, typed + 1)
    BY <1>3, <2>3 DEF Insert, Accepts, b, s, e
  <2> QED
    BY <1>1, <2>2, <2>4, <2>5, SameRing DEF Atomic!Press
<1> QED
  BY <1>2, <1>3

LEMMA ReleaseIsAtomic ==
  ASSUME ReadInv, Release, ~raced \/ ~preempt PROVE Atomic!Read
<1> DEFINE B == [b EXCEPT ![c] = char]
           S == [s EXCEPT ![c] = shift]
           q == Queue(B, S, c, e)
<1>1. Settled = q
  BY ReleaseIs, SettledIs
<1>2. /\ c \in Slots /\ c \in 0..KEY_QUEUE_SIZE /\ c # KEYQUEUE_NEW_QUEUE
      /\ b[c] = Free /\ ~s[c] /\ char # Free /\ shift \in BOOLEAN
      /\ b \in [0..KEY_QUEUE_SIZE -> Cells] /\ s \in [0..KEY_QUEUE_SIZE -> BOOLEAN]
  <2>1. /\ c \in Slots /\ c \in 0..KEY_QUEUE_SIZE /\ c # KEYQUEUE_NEW_QUEUE
        /\ b[c] = Free /\ ~s[c] /\ shift \in BOOLEAN
        /\ b \in [0..KEY_QUEUE_SIZE -> Cells] /\ s \in [0..KEY_QUEUE_SIZE -> BOOLEAN]
    BY ReleaseIs, QueueIs, SlotsAreCells DEF ReadInv, Standing, TypeOKRead
  <2>2. char # Free
    BY ReleaseIs, QueueIs DEF Free
  <2> QED
    BY <2>1, <2>2
<1>3. /\ B[c] = char /\ S[c] = shift
      /\ [B EXCEPT ![c] = Free] = b
      /\ [S EXCEPT ![c] = FALSE] = s
  BY <1>2
<1> HIDE DEF B, S
<1>4. Readable(q) /\ (Accepts(q) <=> Accepts(input))
  BY <1>2, <1>3 DEF Readable, Accepts, Queue, e
<1>5. Get(q) = Queue(b, s, Advance(c), IF Accepts(input) THEN e ELSE c)
  BY <1>3, <1>4 DEF Get, Queue
<1>6. Settled' = Queue(b, s, Advance(c), IF Accepts(input) THEN e ELSE c)
  <2>1. /\ input' = Queue(b, s, c, IF Accepts(input) THEN e ELSE c)
        /\ pc' = "load"
    BY ReleaseIs
  <2>2. Settled' = [input' EXCEPT !.current_key = Advance(input'.current_key)]
    BY <2>1 DEF Settled
  <2> QED
    BY <2>1, <2>2 DEF Queue
<1>7. Char(q) = Character(shift, char)
  BY <1>3 DEF Char, Queue
<1> HIDE DEF q
<1>8. Settled' = Get(Settled) /\ Readable(Settled) /\ typed' = typed
      /\ delivered' = Append(delivered, Char(Settled))
  BY <1>1, <1>4, <1>5, <1>6, <1>7, ReleaseIs
<1> QED
  BY <1>8, SameRing DEF Atomic!Read

\* The other steps of a read leave the settled queue alone.
LEMMA StepIsSettled ==
  ASSUME ReadInv, ReadInv', ~(preempt /\ (raced' \/ skipped')),
         \/ \E interruptible \in BOOLEAN : Call(interruptible)
         \/ Check \/ TestShift \/ Fetch \/ ClearIndex \/ Erase \/ Unshift
         \/ LoadIndex \/ StoreIndex \/ WrapTest \/ Wrap
         \/ UNCHANGED readVars
  PROVE  UNCHANGED <<Settled, typed, delivered>>
<1>1. /\ UNCHANGED <<typed, delivered, raced, skipped>>
  BY DEF Call, Check, TestShift, Fetch, ClearIndex, Erase, Unshift, LoadIndex, StoreIndex,
         WrapTest, Wrap, readVars, vars, history
<1>2. ~preempt \/ (~raced /\ ~skipped)
  BY <1>1
<1>3. CASE UNCHANGED readVars
  BY <1>3 DEF readVars, vars, local, Settled
<1>4. CASE (\E interruptible \in BOOLEAN : Call(interruptible)) \/ Check \/ TestShift
           \/ Fetch \/ ClearIndex
  BY <1>4 DEF Call, Check, TestShift, Fetch, ClearIndex, vars, Settled
<1>5. CASE Erase
  <2>1. Settled = input /\ input = Queue(b, s, c, e)
    BY <1>5, SettledIs, QueueIs, EraseIs
  <2>2. loaded = c /\ b[c] = char
    BY <1>2, <1>5, EraseIs DEF ReadInv, Standing
  <2>3. [[b EXCEPT ![c] = Free] EXCEPT ![c] = char] = b
    BY <1>5, <2>2, EraseIs, QueueIs
  <2>4. Settled' = Queue([b' EXCEPT ![c'] = char'], s', c', e')
    <3>1. Settled' = [input' EXCEPT !.key_buffer = [b' EXCEPT ![c'] = char']]
      BY <1>5, EraseIs DEF Settled, b, c
    <3>2. input' = Queue(b', s', c', e')
      BY <1>5, EraseIs
    <3> QED
      BY <3>1, <3>2 DEF Queue
  <2>5. Settled' = Queue([[b EXCEPT ![c] = Free] EXCEPT ![c] = char], s, c, e)
    BY <1>5, <2>2, <2>4, EraseIs
  <2> QED
    BY <1>1, <2>1, <2>3, <2>5
<1>6. CASE Unshift
  <2>1. Settled = Queue([b EXCEPT ![c] = char], s, c, e)
    BY <1>6, SettledIs, UnshiftIs
  <2>2. shift = s[c]
    <3>1. shift <=> s[c]
      BY <1>2, <1>6, UnshiftIs DEF ReadInv, Standing
    <3>2. shift \in BOOLEAN /\ s[c] \in BOOLEAN
      BY <1>6, UnshiftIs, QueueIs DEF ReadInv, TypeOKRead
    <3> QED
      BY <3>1, <3>2
  <2>3. [[s EXCEPT ![c] = FALSE] EXCEPT ![c] = shift] = s
    BY <1>6, <2>2, UnshiftIs, QueueIs
  <2>4. Settled' = Queue([b' EXCEPT ![c'] = char'], [s' EXCEPT ![c'] = shift'], c', e')
    <3>1. Settled' = [input' EXCEPT !.key_buffer = [b' EXCEPT ![c'] = char'],
                                    !.control_keys = [s' EXCEPT ![c'] = shift']]
      BY <1>6, UnshiftIs DEF Settled, b, s, c
    <3>2. input' = Queue(b', s', c', e')
      BY <1>6, UnshiftIs
    <3> QED
      BY <3>1, <3>2 DEF Queue
  <2>5. Settled' = Queue([b EXCEPT ![c] = char], [[s EXCEPT ![c] = FALSE] EXCEPT ![c] = shift], c, e)
    BY <1>6, <2>4, UnshiftIs
  <2> QED
    BY <1>1, <2>1, <2>3, <2>5
<1>7. CASE LoadIndex
  BY <1>1, <1>7 DEF LoadIndex, vars, Settled
<1>8. CASE StoreIndex
  <2>1. Settled = Queue(b, s, Advance(loaded), e)
    BY <1>8, SettledIs DEF StoreIndex
  <2>2. b' = b /\ s' = s /\ e' = e /\ c' = loaded + 1 /\ pc' = "wrap_test"
    BY <1>8, AdvanceIs DEF StoreIndex
  <2>3. Settled' = Queue(b', s', IF c' = KEY_QUEUE_SIZE THEN 0 ELSE c', e')
    <3>1. Settled' = IF c' = KEY_QUEUE_SIZE THEN [input' EXCEPT !.current_key = 0] ELSE input'
      BY <2>2 DEF Settled, c
    <3>2. input' = Queue(b', s', c', e')
      BY <1>8, AdvanceIs
    <3> QED
      BY <3>1, <3>2 DEF Queue
  <2> QED
    BY <1>1, <2>1, <2>2, <2>3 DEF Advance
<1>9. CASE WrapTest
  BY <1>1, <1>9 DEF WrapTest, vars, Settled
<1>10. CASE Wrap
  <2>1. c = KEY_QUEUE_SIZE /\ pc = "wrap"
    BY <1>2, <1>10 DEF ReadInv, Standing, Wrap
  <2>2. Settled = Queue(b, s, 0, e)
    BY <2>1, SettledIs
  <2>3. input' = Queue(b, s, 0, e) /\ pc' = "idle"
    BY <1>10, <2>1, AdvanceIs
  <2>4. Settled' = input'
    BY <2>3 DEF Settled
  <2> QED
    BY <1>1, <2>2, <2>3, <2>4
<1> QED
  BY <1>3, <1>4, <1>5, <1>6, <1>7, <1>8, <1>9, <1>10

LEMMA AtomicNext ==
  ASSUME ReadInv, [NextRead]_readVars, ~(preempt /\ (raced' \/ skipped'))
  PROVE  Atomic!Next \/ UNCHANGED Atomic!vars
<1>1. CASE Interrupt
  <2>1. preempt /\ ~raced' /\ ~skipped'
    BY <1>1 DEF Interrupt
  <2> QED
    BY <1>1, <2>1, InterruptIsAtomic DEF Atomic!Next
<1>2. CASE Release
  <2>1. ~raced \/ ~preempt
    BY <1>2, ReleaseIs
  <2> QED
    BY <1>2, <2>1, ReleaseIsAtomic DEF Atomic!Next
<1>3. CASE ~Interrupt /\ ~Release
  BY <1>3, ReadNext, StepIsSettled DEF NextRead, Atomic!vars
<1> QED
  BY <1>1, <1>2, <1>3

-----------------------------------------------------------------------------
\* Type correctness, whatever the keyboard interrupt does to a read in progress.
THEOREM TypeCorrect == SpecRead => []TypeOKRead
  BY ReadInvariant, PTL DEF ReadInv

\* The index leaves the buffer only between the increment and the wrap, the name
\* behind the buffer is never written (keyboard.c:109-116, :69), and a read that
\* passed its test fetches a key and clears one (keyboard.c:84-100).
THEOREM IndexStaysInPlace == SpecRead => []IndexInPlace
  BY ReadInvariant, PTL DEF ReadInv, IndexInPlace

\* Keys are lost, and characters read that nobody typed, only when a key comes in
\* between the two looks at the entry, with the other shift state (keyboard.c:89-95),
\* or behind them and before the release (:95-106).
THEOREM LossNeedsTheRace == SpecRead => []LossNeedsRace
  BY ReadInvariant, PTL DEF ReadInv

\* A queue refuses keys that its reader can not make room for only when one came in
\* while a read moved the index on (keyboard.c:109-115).
THEOREM StuckNeedsTheSkip == SpecRead => []StuckNeedsSkip
<1>1. ReadInv => StuckNeedsSkip
  BY DEF ReadInv, NotStuck, StuckNeedsSkip
<1> QED
  BY <1>1, ReadInvariant, PTL

\* get_char_from_queue behaves as one step of KeyQueue, whatever interrupts it, as
\* long as no key is let in where it lends its keycode to another's shift state,
\* between the look at the keycode and the release, or while the read moves the
\* index; and always with interrupts off (keyboard.c:78-119).
THEOREM ReadsAreAtomicUnlessHit == SpecRead => AtomicUnlessHit
<1>1. ReadInv /\ [NextRead]_readVars =>
        [(preempt /\ (raced' \/ skipped')) \/ Atomic!Next]_(Atomic!vars)
  BY AtomicNext
<1> QED
  BY <1>1, SettledInit, ReadInvariant, PTL DEF SpecRead, AtomicUnlessHit
=============================================================================
