------------------------------ MODULE KeyRead ------------------------------
(***************************************************************************)
(* get_char_from_queue step by step, with the keyboard interrupt between   *)
(* its steps.  A read made by a system call runs with interrupts enabled   *)
(* (kernel_lowlevel.asm:467-475); a read made by a recall handler runs     *)
(* inside the scheduler with interrupts off, and nothing comes between.    *)
(* The kernel is built without optimisation (Makefile:9), so each mention  *)
(* of input->current_key in the source is a load or a store of its own.    *)
(*                                                                         *)
(* Where the index is loaded to look at or to clear an entry, the two are  *)
(* one step here if nothing can tell: a key that comes in between them      *)
(* leaves alone the entry whose index was loaded, or puts itself there,    *)
(* so that it may as well have come before or after both.  Not so for the  *)
(* store at line 99: until it is made the entry counts as taken, which a   *)
(* key that comes in looks at (line 69).  The test at :103 and the store   *)
(* at :105 are one step too: while the queue is full no key is let in.     *)
(***************************************************************************)
EXTENDS KeyQueue, SequencesExt

VARIABLES pc,       \* where the read stands; "idle" between two reads
          preempt,  \* the read in progress can be interrupted
          loaded,   \* the index in a register, of current_key++ and of line 99
          shift,    \* which branch was taken: the shift state that was read
          char,     \* the keycode that was looked up
          accepted, \* history: presses that were let in
          raced,    \* history: one was let in where that costs a key
          skipped   \* history: one was let in while the read moved the index on

local == <<pc, preempt, loaded, shift, char>>
history == <<accepted, raced, skipped>>
readVars == <<vars, local, history>>

InitRead ==
  /\ Init
  /\ pc = "idle"
  /\ preempt = TRUE
  /\ loaded = 0
  /\ shift = FALSE
  /\ char = Free
  /\ accepted = {} /\ raced = FALSE /\ skipped = FALSE

\* Where a key k that is let in costs one: between the look at the shift state and
\* the look at the keycode if the two are then of different keys, and from there
\* until the entry is given back.
Costs(k) ==
  \/ pc = "fetch" /\ (shift # (k \in Shifted))
  \/ pc \in {"clear", "erase", "unshift", "release"}

\* The tail of keyboard_handler, wherever a read stands.
Interrupt ==
  /\ preempt
  /\ Press
  /\ accepted' = IF Accepts(input) THEN accepted \cup {typed'} ELSE accepted
  /\ raced' = (raced \/ (Accepts(input) /\ Costs(typed + 1)))
  /\ skipped' = (skipped \/ (Accepts(input) /\ pc \in {"load", "store", "wrap"}))
  /\ UNCHANGED local

Call(interruptible) ==
  /\ pc = "idle"
  /\ pc' = "check"
  /\ preempt' = interruptible
  /\ char' = Free
  /\ UNCHANGED <<vars, loaded, shift, history>>

Check ==
  /\ pc = "check"
  /\ pc' = IF Readable(input) THEN "shift" ELSE "idle"
  /\ preempt' = (preempt \/ ~Readable(input))
  /\ UNCHANGED <<vars, loaded, shift, char, history>>

TestShift ==
  /\ pc = "shift"
  /\ shift' = input.control_keys[input.current_key]
  /\ pc' = "fetch"
  /\ UNCHANGED <<vars, preempt, loaded, char, history>>

Fetch ==
  /\ pc = "fetch"
  /\ char' = input.key_buffer[input.current_key]
  /\ pc' = "clear"
  /\ UNCHANGED <<vars, preempt, loaded, shift, history>>

ClearIndex ==
  /\ pc = "clear"
  /\ loaded' = input.current_key
  /\ pc' = "erase"
  /\ UNCHANGED <<vars, preempt, shift, char, history>>

Erase ==
  /\ pc = "erase"
  /\ input' = [input EXCEPT !.key_buffer[loaded] = Free]
  /\ pc' = "unshift"
  /\ UNCHANGED <<typed, delivered, preempt, loaded, shift, char, history>>

Unshift ==
  /\ pc = "unshift"
  /\ input' = [input EXCEPT !.control_keys[input.current_key] = FALSE]
  /\ pc' = "release"
  /\ UNCHANGED <<typed, delivered, preempt, loaded, shift, char, history>>

\* A plausible slip: the index is incremented before the entry is given back.
ReleaseNext ==
  /\ pc = "release"
  /\ input' = IF Accepts(input) THEN input
              ELSE [input EXCEPT !.empty_node = Advance(input.current_key)]
  /\ delivered' = Append(delivered, Character(shift, char))
  /\ pc' = "load"
  /\ UNCHANGED <<typed, preempt, loaded, shift, char, history>>

\* A plausible slip: a full queue is not given its entry back.
ReleaseNever ==
  /\ pc = "release"
  /\ delivered' = Append(delivered, Character(shift, char))
  /\ pc' = "load"
  /\ UNCHANGED <<input, typed, preempt, loaded, shift, char, history>>

Release ==
  /\ pc = "release"
  /\ input' = IF Accepts(input) THEN input
              ELSE [input EXCEPT !.empty_node = input.current_key]
  /\ delivered' = Append(delivered, Character(shift, char))
  /\ pc' = "load"
  /\ UNCHANGED <<typed, preempt, loaded, shift, char, history>>

LoadIndex ==
  /\ pc = "load"
  /\ loaded' = input.current_key
  /\ pc' = "store"
  /\ UNCHANGED <<vars, preempt, shift, char, history>>

StoreIndex ==
  /\ pc = "store"
  /\ input' = [input EXCEPT !.current_key = loaded + 1]
  /\ pc' = "wrap_test"
  /\ UNCHANGED <<typed, delivered, preempt, loaded, shift, char, history>>

\* A plausible slip: the wrap is left out.
WrapTestNever ==
  /\ pc = "wrap_test"
  /\ pc' = "idle"
  /\ preempt' = TRUE
  /\ UNCHANGED <<vars, loaded, shift, char, history>>

\* A plausible slip: the index wraps before the last entry.
WrapTestEarly ==
  /\ pc = "wrap_test"
  /\ LET wrap == input.current_key = KEY_QUEUE_SIZE - 1
     IN  /\ pc' = IF wrap THEN "wrap" ELSE "idle"
         /\ preempt' = (preempt \/ ~wrap)
  /\ UNCHANGED <<vars, loaded, shift, char, history>>

WrapTest ==
  /\ pc = "wrap_test"
  /\ LET wrap == input.current_key = KEY_QUEUE_SIZE
     IN  /\ pc' = IF wrap THEN "wrap" ELSE "idle"
         /\ preempt' = (preempt \/ ~wrap)
  /\ UNCHANGED <<vars, loaded, shift, char, history>>

Wrap ==
  /\ pc = "wrap"
  /\ input' = [input EXCEPT !.current_key = 0]
  /\ pc' = "idle"
  /\ preempt' = TRUE
  /\ UNCHANGED <<typed, delivered, loaded, shift, char, history>>

NextRead ==
  \/ Interrupt
  \/ \E interruptible \in BOOLEAN : Call(interruptible)
  \/ Check \/ TestShift \/ Fetch
  \/ ClearIndex \/ Erase \/ Unshift \/ Release
  \/ LoadIndex \/ StoreIndex \/ WrapTest \/ Wrap

SpecRead == InitRead /\ [][NextRead]_readVars

-----------------------------------------------------------------------------
TypeOKRead ==
  /\ input \in [key_buffer   : [0..KEY_QUEUE_SIZE -> Cells],
                control_keys : [0..KEY_QUEUE_SIZE -> BOOLEAN],
                current_key  : 0..KEY_QUEUE_SIZE \cup {KEYQUEUE_NEW_QUEUE},
                empty_node   : Slots \cup {KEYQUEUE_NO_EMPTY_NODES}]
  /\ typed \in 0..MaxPresses
  /\ delivered \in Seq(Presses \cup {Mixed})
  /\ pc \in {"idle", "check", "shift", "fetch", "clear", "erase", "unshift", "release",
             "load", "store", "wrap_test", "wrap"}
  /\ preempt \in BOOLEAN
  /\ loaded \in Slots
  /\ shift \in BOOLEAN
  /\ char \in Presses \cup {Free}
  /\ accepted \subseteq Presses /\ raced \in BOOLEAN /\ skipped \in BOOLEAN

\* current_key leaves the buffer only between the increment and the wrap
\* (keyboard.c:109-116), whatever the interrupt does in between; and the
\* process's name behind the buffer is never written.
IndexInBuffer ==
  /\ NameIntact
  /\ input.current_key = KEY_QUEUE_SIZE => pc \in {"wrap_test", "wrap"}

\* A read that passed the test at keyboard.c:84 really fetches a key and
\* really clears one, though the interrupt may have moved current_key.
TestedKeyStays ==
  /\ pc \in {"shift", "fetch", "clear"} => Readable(input)
  /\ pc = "erase" => input.key_buffer[loaded] # Free

\* The index is where each step of a read takes it to be, although the interrupt
\* may move it at every one: a read never goes past the buffer, and never answers
\* with an entry that is free (keyboard.c:84-116).
IndexInPlace == IndexInBuffer /\ TestedKeyStays

\* The key of a read that has not given its entry back: not yet delivered.
InHand == IF pc \in {"clear", "erase", "unshift", "release"} THEN {char} ELSE {}

\* There are two places where an interrupt costs keys.  One lies between the two
\* looks at the entry (keyboard.c:89-95): a key that comes in there lends its keycode
\* to the shift state of the key before it.  The other lies behind them, before the
\* entry is given back (:95-106): there the read clears or gives back the entry of
\* the key that came in, or what it clears comes too late.  Until it hits one, each
\* key let in is unread, in hand or was read as it was typed, never two of these, and
\* the next goes into an empty entry (:48), though it may have come between the test
\* and the fetch, the load and the store of the index, or the increment and the wrap.
LossNeedsRace ==
  ~raced =>
    /\ accepted = Pending \cup InHand \cup ToSet(delivered)
    /\ (Pending \cup InHand) \cap ToSet(delivered) = {}
    /\ pc \in {"unshift", "release"} => char \notin Pending
    /\ Accepts(input) => input.key_buffer[input.empty_node] = Free

\* The one way for a queue to refuse keys while its reader finds nothing, which
\* no later call can end, is a key let in while the read moves the index on
\* (keyboard.c:109, :115): the read then leaves it behind.
StuckNeedsSkip == ~skipped /\ pc = "idle" => FullIsReadable

\* The queue as it was before the read, until the entry is given back, and from
\* then on as the read will leave it.
Settled ==
  CASE pc = "unshift" -> [input EXCEPT !.key_buffer[input.current_key] = char]
    [] pc = "release" -> [input EXCEPT !.key_buffer[input.current_key] = char,
                                       !.control_keys[input.current_key] = shift]
    [] pc = "load" -> [input EXCEPT !.current_key = Advance(input.current_key)]
    [] pc = "store" -> [input EXCEPT !.current_key = Advance(loaded)]
    [] pc \in {"wrap_test", "wrap"} /\ input.current_key = KEY_QUEUE_SIZE ->
         [input EXCEPT !.current_key = 0]
    [] OTHER -> input

\* A read takes effect as one step of KeyQueue: always when it runs with
\* interrupts off, and for the others as long as no key was let in where it costs
\* a key or is left behind.  Any other moment is as good as before or after.
Atomic == INSTANCE KeyQueue WITH input <- Settled
AtomicUnlessHit ==
  Atomic!Init /\ [][(preempt /\ (raced' \/ skipped')) \/ Atomic!Next]_(Atomic!vars)
=============================================================================
