------------------------------ MODULE KeyRing ------------------------------
(***************************************************************************)
(* The per-process key queue of src/src/keyboard.c as operators on a       *)
(* record: what insert_keycode_to_queue and get_char_from_queue do to the  *)
(* input_t of a process.                                                   *)
(*                                                                         *)
(* A key press is a number from Presses.  Its scan code and the shift state *)
(* it was typed in are two bytes of an entry: key_buffer holds the first,   *)
(* as the press it came with, or Free (keycode 0), and control_keys the     *)
(* second.  Scan code 0 never enters the queue (a set-1 keyboard does not   *)
(* send it).                                                               *)
(***************************************************************************)
EXTENDS Integers

CONSTANTS KEY_QUEUE_SIZE,  \* entries of key_buffer (64 in keyboard.h)
          MaxPresses,      \* bound: key presses considered
          Shifted          \* those typed with shift held

ASSUME SizeAssumption == KEY_QUEUE_SIZE \in Nat \ {0}
ASSUME PressesAssumption == MaxPresses \in Nat \ {0}

KEYQUEUE_NEW_QUEUE == -1
KEYQUEUE_NO_EMPTY_NODES == -2

Free == 0
Presses == 1..MaxPresses

ASSUME ShiftedAssumption == Shifted \subseteq Presses

\* The two bytes behind key_buffer in process_rec are the first of the
\* process's name; every process is created with a name, so the byte read as
\* key_buffer[KEY_QUEUE_SIZE].keycode is not 0.
NameByte == MaxPresses + 1

\* A character nobody typed: the keycode of one press looked up with the shift
\* state of another.
Mixed == MaxPresses + 2

Slots == 0..KEY_QUEUE_SIZE - 1
Cells == Presses \cup {Free, NameByte}

InitialQueue ==
  [current_key  |-> KEYQUEUE_NEW_QUEUE,
   empty_node   |-> 0,
   key_buffer   |-> [i \in 0..KEY_QUEUE_SIZE |->
                       IF i = KEY_QUEUE_SIZE THEN NameByte ELSE Free],
   control_keys |-> [i \in 0..KEY_QUEUE_SIZE |-> i = KEY_QUEUE_SIZE]]

-----------------------------------------------------------------------------
(* insert_keycode_to_queue                                                 *)

\* Where the next key goes, after entry e was written; the first entry is looked at
\* with its shift state.
NextEmpty(codes, controls, e) ==
  IF e = KEY_QUEUE_SIZE
  THEN IF codes[0] = Free /\ ~controls[0] THEN 0 ELSE KEYQUEUE_NO_EMPTY_NODES
  ELSE IF codes[e + 1] = Free THEN e + 1 ELSE KEYQUEUE_NO_EMPTY_NODES

Accepts(q) == q.empty_node # KEYQUEUE_NO_EMPTY_NODES

Insert(q, k) ==
  LET codes == [q.key_buffer EXCEPT ![q.empty_node] = k]
      controls == [q.control_keys EXCEPT ![q.empty_node] = k \in Shifted]
  IN  IF Accepts(q)
      THEN [key_buffer   |-> codes,
            control_keys |-> controls,
            current_key  |-> q.empty_node,
            empty_node   |-> NextEmpty(codes, controls, q.empty_node)]
      ELSE q

-----------------------------------------------------------------------------
(* get_char_from_queue                                                     *)

Readable(q) ==
  /\ q.current_key # KEYQUEUE_NEW_QUEUE
  /\ q.key_buffer[q.current_key] # Free

\* What the key maps make of a keycode and a shift state.
Character(control, k) == IF control <=> k \in Shifted THEN k ELSE Mixed

Char(q) == Character(q.control_keys[q.current_key], q.key_buffer[q.current_key])

Advance(i) == IF i + 1 = KEY_QUEUE_SIZE THEN 0 ELSE i + 1

\* A plausible slip: the entry is returned but not cleared.
GetKeepsEntry(q) ==
  IF Readable(q)
  THEN [q EXCEPT !.empty_node = IF Accepts(q) THEN q.empty_node
                                ELSE q.current_key,
                 !.current_key = Advance(q.current_key)]
  ELSE q

Get(q) ==
  IF Readable(q)
  THEN [key_buffer   |-> [q.key_buffer EXCEPT ![q.current_key] = Free],
        control_keys |-> [q.control_keys EXCEPT ![q.current_key] = FALSE],
        current_key  |-> Advance(q.current_key),
        empty_node   |-> IF Accepts(q) THEN q.empty_node ELSE q.current_key]
  ELSE q
=============================================================================
