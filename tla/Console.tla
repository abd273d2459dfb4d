------------------------------ MODULE Console ------------------------------
(***************************************************************************)
(* What printf, print_character, calculate_screen_bounds and               *)
(* remove_character of src/src/screen.c do to one console: its cursor and  *)
(* its cells.  Row 0 holds the header that draw_header put there.          *)
(*                                                                         *)
(* A string is a choice of what comes next.  "%c" is used for one key at a *)
(* time or for a printable character (keyboard.c:237, :295, :341,          *)
(* floppy.c:518), so its newline is always the last thing of its printf.   *)
(* Colours, and the copy to the video memory (Screen.tla), are left out.   *)
(***************************************************************************)
EXTENDS Integers

CONSTANTS SCREEN_ROWS,     \* 25
          SCREEN_COLUMNS   \* 80

ASSUME RowsAssumption == SCREEN_ROWS \in Nat /\ SCREEN_ROWS > 2
ASSUME ColumnsAssumption == SCREEN_COLUMNS \in Nat \ {0}

row_header == 1            \* console->row_header, set by create_process

VARIABLES
  row, column,    \* the cursor
  screen,         \* the cells in reading order
  video_memory,   \* the cell printf writes next
  pc,             \* "idle", "printing", "ending" or "overrun"
  skewed          \* history: a character was printed behind the last column

vars == <<row, column, screen, video_memory, pc, skewed>>

Offset(r, c) == c + r * SCREEN_COLUMNS
Cells == 0..SCREEN_ROWS * SCREEN_COLUMNS - 1
RowCells(r) == Offset(r, 0)..Offset(r, SCREEN_COLUMNS - 1)
Empty == "empty"

Init ==
  /\ row = row_header /\ column = 0
  /\ screen = [i \in Cells |-> IF i \in RowCells(0) THEN "header" ELSE Empty]
  /\ video_memory = Offset(row_header, 0)
  /\ pc = "idle"
  /\ skewed = FALSE

-----------------------------------------------------------------------------
\* A plausible slip: the last row is not cleared.
ScrolledUncleared(s) ==
  [i \in Cells |->
     IF i < Offset(row_header, 0) \/ i \in RowCells(SCREEN_ROWS - 1) THEN s[i]
     ELSE s[i + SCREEN_COLUMNS]]

\* Every row below the first free one moves up; the last one is cleared.
Scrolled(s) ==
  [i \in Cells |->
     IF i < Offset(row_header, 0) THEN s[i]
     ELSE IF i \in RowCells(SCREEN_ROWS - 1) THEN Empty
     ELSE s[i + SCREEN_COLUMNS]]

\* calculate_screen_bounds: cursor and cells once (r, c) is where it should be.
Bounds(r, c, s) ==
  LET wrap == c >= SCREEN_COLUMNS
      down == IF wrap THEN r + 1 ELSE r
      scroll == down >= SCREEN_ROWS
  IN  [row |-> IF scroll THEN down - 1 ELSE down,
       column |-> IF wrap THEN 0 ELSE c,
       screen |-> IF scroll THEN Scrolled(s) ELSE s]

Put(b) == row' = b.row /\ column' = b.column /\ screen' = b.screen

\* printf finds the cell of the cursor once, at its start.
Start ==
  /\ pc = "idle"
  /\ video_memory' = Offset(row, column)
  /\ pc' = "printing"
  /\ UNCHANGED <<row, column, screen, skewed>>

PrintCharacter ==
  /\ pc = "printing"
  /\ video_memory \in Cells
  /\ Put(Bounds(row, column + 1, [screen EXCEPT ![video_memory] = "char"]))
  /\ video_memory' = video_memory + 1
  /\ skewed' = (skewed \/ column = SCREEN_COLUMNS)
  /\ UNCHANGED pc

\* The cell behind the last is console->row, which video_memory reaches when
\* a string runs over the end of the last row: what follows is open.
PrintCharacterBehind ==
  /\ pc = "printing"
  /\ video_memory \notin Cells
  /\ pc' = "overrun"
  /\ UNCHANGED <<row, column, screen, video_memory, skewed>>

\* A plausible slip: the newline of a string does not move video_memory.
NewlineKeepsPlace ==
  /\ pc = "printing"
  /\ Put(Bounds(row + 1, 0, screen))
  /\ UNCHANGED <<pc, video_memory, skewed>>

\* '\n' in the string itself or in a %s argument.
Newline ==
  /\ pc = "printing"
  /\ Put(Bounds(row + 1, 0, screen))
  /\ video_memory' = Offset(row', column')
  /\ UNCHANGED <<pc, skewed>>

\* '\n' as a %c argument: video_memory stays.
NewlineOfKey ==
  /\ pc = "printing"
  /\ Put(Bounds(row + 1, 0, screen))
  /\ pc' = "ending"
  /\ UNCHANGED <<video_memory, skewed>>

End ==
  /\ pc \in {"printing", "ending"}
  /\ pc' = "idle"
  /\ UNCHANGED <<row, column, screen, video_memory, skewed>>

\* In column 0 the cursor goes behind the last column of the row above.
RemoveCharacter ==
  /\ pc = "idle"
  /\ ~(column = 0 /\ row = row_header)
  /\ IF column = 0
     THEN column' = SCREEN_COLUMNS /\ row' = row - 1
     ELSE column' = column - 1 /\ row' = row
  /\ screen' = [screen EXCEPT ![Offset(row', column')] = Empty]
  /\ UNCHANGED <<video_memory, pc, skewed>>

Overrun == pc = "overrun" /\ UNCHANGED vars

Printing ==
  \/ Start \/ PrintCharacter \/ PrintCharacterBehind
  \/ Newline \/ NewlineOfKey \/ End
  \/ Overrun

Next == Printing \/ RemoveCharacter

Spec == Init /\ [][Next]_vars

-----------------------------------------------------------------------------
TypeOK ==
  /\ row \in row_header..SCREEN_ROWS - 1
  /\ column \in 0..SCREEN_COLUMNS
  /\ screen \in [Cells -> {"header", "char", Empty}]
  /\ video_memory \in 0..SCREEN_ROWS * SCREEN_COLUMNS
  /\ pc \in {"idle", "printing", "ending", "overrun"}
  /\ skewed \in BOOLEAN

\* The header stays as drawn, whatever is printed, scrolled or removed.
HeaderIntact == \A i \in Cells : i \in RowCells(0) <=> screen[i] = "header"

\* printf starts on the screen, and writes where the cursor is, except at the
\* end of the last row, where its place is behind the screen and the cursor at
\* the start of the scrolled row; and except after a backspace in column 0
\* left the cursor behind the last column (screen.c:488), where the next
\* character leads it by a cell.
PrintsAtCursor ==
  /\ Offset(row, column) \in Cells
  /\ pc = "printing" /\ ~skewed =>
       \/ video_memory = Offset(row, column)
       \/ row = SCREEN_ROWS - 1 /\ column = 0 /\ video_memory \notin Cells

\* With the same exception, nothing is left at the cursor and behind it: what
\* scrolls in is empty, what backspace passed is gone, and what is printed next
\* overwrites no character.
EmptyBehindCursor ==
  ~skewed => \A i \in Cells : i >= Offset(row, column) => screen[i] = Empty
=============================================================================
