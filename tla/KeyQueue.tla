------------------------------ MODULE KeyQueue ------------------------------
(***************************************************************************)
(* One process's key queue when insertion and reading never overlap: the   *)
(* keyboard interrupt inserts (end of keyboard_handler), the recall handler *)
(* run by the scheduler with interrupts off reads.  KeyRead.tla has the    *)
(* two overlapping.  A read hands out the press it takes; that the keymaps *)
(* turn some presses into no character matters to Scheduler.tla only.      *)
(***************************************************************************)
EXTENDS KeyRing, Sequences

VARIABLES input,      \* process->input
          typed,      \* history: number of presses that reached the queue
          delivered   \* history: presses read, in order

vars == <<input, typed, delivered>>

Init ==
  /\ input = InitialQueue
  /\ typed = 0
  /\ delivered = <<>>

Press ==
  /\ typed < MaxPresses
  /\ typed' = typed + 1
  /\ input' = Insert(input, typed + 1)
  /\ UNCHANGED delivered

Read ==
  /\ input' = Get(input)
  /\ delivered' = IF Readable(input)
                  THEN Append(delivered, Char(input))
                  ELSE delivered
  /\ UNCHANGED typed

Next == Press \/ Read

Spec == Init /\ [][Next]_vars

-----------------------------------------------------------------------------
Pending == {input.key_buffer[i] : i \in Slots} \ {Free}

\* The press that the next read takes.
NextKey == IF Readable(input) THEN input.key_buffer[input.current_key] ELSE Free

\* Type invariant: both indices stay inside the buffer, so no access goes
\* past it except the look at the entry behind the last one.
TypeOK ==
  /\ input \in [key_buffer   : [0..KEY_QUEUE_SIZE -> Cells],
                control_keys : [0..KEY_QUEUE_SIZE -> BOOLEAN],
                current_key  : Slots \cup {KEYQUEUE_NEW_QUEUE},
                empty_node   : Slots \cup {KEYQUEUE_NO_EMPTY_NODES}]
  /\ typed \in 0..MaxPresses
  /\ delivered \in Seq(Presses)

\* The insert path never writes behind the buffer, where the process's name
\* begins (keyboard.c:49 with empty_node = KEY_QUEUE_SIZE).
NameIntact == input.key_buffer[KEY_QUEUE_SIZE] = NameByte

\* A queue that refuses keys (keyboard.c:39) has one that the next read takes:
\* it can not refuse for ever while its reader finds nothing (keyboard.c:84).
FullIsReadable == ~Accepts(input) => Readable(input)

\* The queue is a mailbox: a press is never overwritten, never read twice or with
\* another's shift state, and is refused only when the next read takes one.
Mailbox == INSTANCE KeyMailbox WITH pending <- Pending, next <- NextKey
ImplementsMailbox == Mailbox!Spec
=============================================================================
