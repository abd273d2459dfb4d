----------------------------- MODULE KeyMailbox -----------------------------
(***************************************************************************)
(* What a process may rely on from its key queue: a mailbox of unread key  *)
(* presses, one of which may be the next to be read.  A press is taken in  *)
(* or dropped whole; it is dropped only when there is one to be read next; *)
(* what was taken in stays until it is read, and is read once.  Nothing is *)
(* promised about the order, nor that a press that waits is ever the next  *)
(* one: behind each read the code may look at an entry that is free while  *)
(* others are not.                                                         *)
(***************************************************************************)
EXTENDS Integers, Sequences

CONSTANT MaxPresses

Nothing == 0

VARIABLES typed,      \* presses so far
          pending,    \* presses taken in and not read
          next,       \* the one of them that the next read takes, or Nothing
          delivered   \* presses read, in the order they were read

vars == <<typed, pending, next, delivered>>

Init == typed = 0 /\ pending = {} /\ next = Nothing /\ delivered = <<>>

TakeIn ==
  /\ typed < MaxPresses
  /\ typed' = typed + 1
  /\ pending' = pending \cup {typed + 1}
  /\ next' = typed + 1
  /\ UNCHANGED delivered

Drop ==
  /\ typed < MaxPresses
  /\ next # Nothing
  /\ typed' = typed + 1
  /\ UNCHANGED <<pending, next, delivered>>

Deliver ==
  /\ next \in pending
  /\ pending' = pending \ {next}
  /\ delivered' = Append(delivered, next)
  /\ next' \in pending' \cup {Nothing}
  /\ UNCHANGED typed

Next == TakeIn \/ Drop \/ Deliver

Spec == Init /\ [][Next]_vars
=============================================================================
