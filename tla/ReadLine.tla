------------------------------ MODULE ReadLine ------------------------------
(***************************************************************************)
(* The string read with echo of src/src/keyboard.c (system call 0x0A) on   *)
(* the console of its process (Console.tla): the caller's buffer and what  *)
(* the screen shows of it, while keys and backspaces come in.  Between     *)
(* reads the process prints.                                               *)
(*                                                                         *)
(* The recall handler is called once for each key; the call itself does    *)
(* what a recall does.  The order of keys is the order in which the queue  *)
(* gives them out (KeyQueue.tla).  A recall handler runs to its end here:  *)
(* the interrupts that the redraw of an echo may let in are left out.      *)
(* Addresses are relative to the buffer, so that eax is 0 until it holds   *)
(* the result.                                                             *)
(***************************************************************************)
EXTENDS Console, Sequences

CONSTANTS Letters,   \* the characters on the keyboard, but for the two below
          MaxLine    \* bound: letters in a line

ASSUME LettersAssumption == {"caller's", "stack", "NUL"} \cap Letters = {}
ASSUME LineAssumption == MaxLine \in Nat

VARIABLES
  reading,   \* a string read is pending
  echoing,   \* a letter is being printed
  eax, edx,
  buffer,    \* bytes from the one edx pointed to at the call on
  line,      \* history: the letters typed and not taken back
  longest,   \* history: the greatest length of the line
  prompt,    \* history: the offset of the cursor at the call
  crossed    \* history: a backspace came in column 0

registers == <<eax, edx>>
marks == <<line, longest, prompt, crossed>>
lineVars == <<reading, echoing, registers, buffer, marks>>

Bytes == 0..MaxLine + 4

InitLine ==
  /\ Init
  /\ reading = FALSE /\ echoing = FALSE
  /\ eax = 0 /\ edx = 0
  /\ buffer = [i \in Bytes |-> "caller's"]
  /\ line = <<>> /\ longest = 0
  /\ prompt = 0 /\ crossed = FALSE

\* How far a scroll takes what is on the screen: a row, or nothing.
Lift == IF column' = 0 /\ row' = row THEN SCREEN_COLUMNS ELSE 0

\* The prompt moves up with the rest.  Bound: no further than a line is long.
Lifted == IF prompt - Lift < -MaxLine THEN -MaxLine ELSE prompt - Lift

-----------------------------------------------------------------------------
\* eax = edx, the start of the buffer.
Call ==
  /\ ~reading /\ pc = "idle"
  /\ reading' = TRUE
  /\ eax' = 0 /\ edx' = 0
  /\ buffer' = [i \in Bytes |-> "caller's"]
  /\ line' = <<>> /\ longest' = 0
  /\ prompt' = Offset(row, column) /\ crossed' = FALSE
  /\ UNCHANGED <<vars, echoing>>

\* A plausible slip: the rest of the word is copied in front.
CopiedBackwards(at, byte) ==
  [i \in Bytes |-> IF i = at THEN byte ELSE IF i \in at - 3..at - 1 THEN "stack"
                   ELSE buffer[i]]

\* memcpy(registers->edx, &input, 1) copies one double word: the byte, and
\* three of what lies behind input on the stack.
Copied(at, byte) ==
  [i \in Bytes |-> IF i = at THEN byte ELSE IF i \in at + 1..at + 3 THEN "stack"
                   ELSE buffer[i]]

Recall == reading /\ ~echoing /\ pc = "idle"

Letter(c) ==
  /\ Recall /\ Len(line) < MaxLine
  /\ buffer' = Copied(edx, c)
  /\ edx' = edx + 1
  /\ line' = Append(line, c)
  /\ longest' = IF Len(line') > longest THEN Len(line') ELSE longest
  /\ echoing' = TRUE
  /\ UNCHANGED <<vars, reading, eax, prompt, crossed>>

\* printf(&process->console, "%c", input)
Echo ==
  /\ echoing
  /\ \/ Start /\ UNCHANGED lineVars
     \/ /\ PrintCharacter
        /\ prompt' = Lifted
        /\ echoing' = FALSE
        /\ UNCHANGED <<reading, registers, buffer, line, longest, crossed>>

EchoEnd == reading /\ ~echoing /\ End /\ UNCHANGED lineVars

\* remove_character leaves the screen as it is at the console's very start.
Remove == IF row = row_header /\ column = 0 THEN UNCHANGED vars ELSE RemoveCharacter

\* A plausible slip: the screen is not held back at the start of the buffer.
BackspaceUnchecked ==
  /\ Recall
  /\ Remove
  /\ edx' = (IF edx > eax THEN edx - 1 ELSE edx)
  /\ line' = SubSeq(line, 1, edx')
  /\ crossed' = (crossed \/ column = 0)
  /\ UNCHANGED <<reading, echoing, eax, buffer, longest, prompt>>

\* A plausible slip: the letter is taken back, but not from the screen.
BackspaceUnseen ==
  /\ Recall /\ edx > eax
  /\ edx' = edx - 1
  /\ line' = SubSeq(line, 1, Len(line) - 1)
  /\ UNCHANGED <<vars, reading, echoing, eax, buffer, longest, prompt, crossed>>

Backspace ==
  /\ Recall
  /\ IF edx > eax
     THEN /\ Remove
          /\ edx' = edx - 1
          /\ line' = SubSeq(line, 1, Len(line) - 1)
          /\ crossed' = (crossed \/ column = 0)
     ELSE UNCHANGED <<vars, edx, line, crossed>>
  /\ UNCHANGED <<reading, echoing, eax, buffer, longest, prompt>>

Enter ==
  /\ Recall
  /\ buffer' = Copied(edx, "NUL")
  /\ eax' = edx - eax
  /\ reading' = FALSE
  /\ UNCHANGED <<vars, echoing, edx, marks>>

\* The process prints, and what it read is of no interest any more.
Prints ==
  /\ ~reading
  /\ Printing
  /\ eax' = 0 /\ edx' = 0
  /\ buffer' = [i \in Bytes |-> "caller's"]
  /\ line' = <<>> /\ longest' = 0
  /\ prompt' = 0 /\ crossed' = FALSE
  /\ UNCHANGED <<reading, echoing>>

NextLine ==
  \/ Call
  \/ \E c \in Letters : Letter(c)
  \/ Echo \/ EchoEnd
  \/ Backspace \/ Enter
  \/ Prints

SpecLine == InitLine /\ [][NextLine]_<<vars, lineVars>>

-----------------------------------------------------------------------------
\* The buffer holds the line, and after Enter its end and eax its length, though
\* each letter was written with three bytes too many: those behind the line are
\* written over by the letters that follow.  Behind the longest line there was,
\* three bytes (four with the end) of the caller's are lost and no more.
LineInBuffer ==
  /\ \A i \in 1..Len(line) : buffer[i - 1] = line[i]
  /\ ~reading /\ buffer[0] # "caller's" => eax = Len(line) /\ buffer[eax] = "NUL"
  /\ \A i \in Bytes : i > longest + 3 => buffer[i] = "caller's"

\* The screen shows the line behind the prompt, over the ends of rows and while
\* it scrolls, as long as no backspace came in column 0, where remove_character
\* and the buffer part.
EchoShowsLine ==
  reading /\ ~echoing /\ pc = "idle" /\ ~crossed /\ ~skewed =>
    /\ Offset(row, column) = prompt + Len(line)
    /\ \A i \in Cells : i >= prompt /\ i < Offset(row, column) /\ i >= Offset(row_header, 0)
         => screen[i] = "char"

\* Backspaces never take back what was on the screen before the read.
PromptStays == reading => Offset(row, column) >= prompt
=============================================================================
