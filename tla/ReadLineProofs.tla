--------------------------- MODULE ReadLineProofs ---------------------------
(***************************************************************************)
(* Proofs about ReadLine and the Console it extends, for any screen,       *)
(* alphabet and length of a line.                                          *)
(***************************************************************************)
EXTENDS ReadLine, TLAPS

USE RowsAssumption, ColumnsAssumption

\* The screen: its cells end behind the last row, and a backspace in column 0
\* leaves the cursor behind the last column of a row above the last.
Place ==
  /\ column = SCREEN_COLUMNS => row < SCREEN_ROWS - 1
  /\ pc = "printing" => video_memory >= SCREEN_COLUMNS

ConsoleInv ==
  TypeOK /\ Place /\ HeaderIntact /\ PrintsAtCursor /\ EmptyBehindCursor

-----------------------------------------------------------------------------
(* Rows and cells.                                                         *)

LastRow == SCREEN_COLUMNS * (SCREEN_ROWS - 1)
Contents == {"header", "char", Empty}

LEMMA Multiples ==
  /\ \A r \in Int : r * SCREEN_COLUMNS \in Int
  /\ \A r \in Int : (r + 1) * SCREEN_COLUMNS = r * SCREEN_COLUMNS + SCREEN_COLUMNS
  /\ \A r \in Int : (r - 1) * SCREEN_COLUMNS = r * SCREEN_COLUMNS - SCREEN_COLUMNS
  /\ \A r \in Nat \ {0} : r * SCREEN_COLUMNS >= SCREEN_COLUMNS
  /\ \A r, s \in Nat : r <= s => r * SCREEN_COLUMNS <= s * SCREEN_COLUMNS
  OBVIOUS

LEMMA Geometry ==
  /\ LastRow \in Nat /\ LastRow >= SCREEN_COLUMNS + SCREEN_COLUMNS
  /\ Cells = 0..LastRow + SCREEN_COLUMNS - 1
  /\ SCREEN_ROWS * SCREEN_COLUMNS = LastRow + SCREEN_COLUMNS
  /\ RowCells(0) = 0..SCREEN_COLUMNS - 1
  /\ RowCells(SCREEN_ROWS - 1) = LastRow..LastRow + SCREEN_COLUMNS - 1
  /\ Offset(row_header, 0) = SCREEN_COLUMNS /\ Offset(SCREEN_ROWS - 1, 0) = LastRow
<1>1. SCREEN_ROWS * SCREEN_COLUMNS = LastRow + SCREEN_COLUMNS
  BY DEF LastRow
<1>2. (SCREEN_ROWS - 1) * SCREEN_COLUMNS = LastRow /\ LastRow \in Nat
  BY DEF LastRow
<1>3. LastRow >= SCREEN_COLUMNS + SCREEN_COLUMNS
  BY DEF LastRow
<1>4. 0 * SCREEN_COLUMNS = 0 /\ 1 * SCREEN_COLUMNS = SCREEN_COLUMNS
  OBVIOUS
<1> QED
  BY <1>1, <1>2, <1>3, <1>4 DEF Cells, RowCells, Offset, row_header

LEMMA Offsets ==
  ASSUME NEW r \in row_header..SCREEN_ROWS - 1, NEW x \in 0..SCREEN_COLUMNS
  PROVE  /\ Offset(r, x) \in Nat /\ Offset(r, x) >= SCREEN_COLUMNS
         /\ Offset(r, x + 1) = Offset(r, x) + 1 /\ Offset(r, x - 1) = Offset(r, x) - 1
         /\ Offset(r + 1, 0) = Offset(r, SCREEN_COLUMNS)
         /\ Offset(r - 1, SCREEN_COLUMNS) = Offset(r, 0)
         /\ x < SCREEN_COLUMNS => Offset(r, x) < LastRow + SCREEN_COLUMNS
         /\ r < SCREEN_ROWS - 1 => Offset(r, x) <= LastRow
<1>1. r \in Nat \ {0} /\ r \in Int /\ r <= SCREEN_ROWS - 1
  BY DEF row_header
<1>2. /\ r * SCREEN_COLUMNS \in Int /\ r * SCREEN_COLUMNS >= SCREEN_COLUMNS
      /\ (r + 1) * SCREEN_COLUMNS = r * SCREEN_COLUMNS + SCREEN_COLUMNS
      /\ (r - 1) * SCREEN_COLUMNS = r * SCREEN_COLUMNS - SCREEN_COLUMNS
      /\ r * SCREEN_COLUMNS <= LastRow
  BY <1>1, Multiples DEF LastRow
<1>3. r < SCREEN_ROWS - 1 => r * SCREEN_COLUMNS + SCREEN_COLUMNS <= LastRow
  <2>1. r < SCREEN_ROWS - 1 => (r + 1) * SCREEN_COLUMNS <= (SCREEN_ROWS - 1) * SCREEN_COLUMNS
    BY <1>1, Multiples
  <2> QED
    BY <1>2, <2>1 DEF LastRow
<1>4. /\ Offset(r, x) = x + r * SCREEN_COLUMNS
      /\ Offset(r, x + 1) = (x + 1) + r * SCREEN_COLUMNS
      /\ Offset(r, x - 1) = (x - 1) + r * SCREEN_COLUMNS
      /\ Offset(r, 0) = 0 + r * SCREEN_COLUMNS
      /\ Offset(r, SCREEN_COLUMNS) = SCREEN_COLUMNS + r * SCREEN_COLUMNS
      /\ Offset(r + 1, 0) = 0 + (r + 1) * SCREEN_COLUMNS
      /\ Offset(r - 1, SCREEN_COLUMNS) = SCREEN_COLUMNS + (r - 1) * SCREEN_COLUMNS
  BY DEF Offset
<1> DEFINE first == r * SCREEN_COLUMNS
<1> HIDE DEF first
<1>5. /\ first \in Int /\ first >= SCREEN_COLUMNS /\ first <= LastRow /\ LastRow \in Nat
      /\ r < SCREEN_ROWS - 1 => first + SCREEN_COLUMNS <= LastRow
  BY <1>2, <1>3, Geometry DEF first
<1>6. /\ Offset(r, x) = x + first /\ Offset(r, x + 1) = (x + 1) + first
      /\ Offset(r, x - 1) = (x - 1) + first
      /\ Offset(r, 0) = first /\ Offset(r, SCREEN_COLUMNS) = SCREEN_COLUMNS + first
      /\ Offset(r + 1, 0) = first + SCREEN_COLUMNS
      /\ Offset(r - 1, SCREEN_COLUMNS) = SCREEN_COLUMNS + (first - SCREEN_COLUMNS)
  BY <1>2, <1>4 DEF first
<1> QED
  BY <1>5, <1>6

\* A scroll keeps the header and leaves the last row empty.
LEMMA ScrolledIs ==
  ASSUME NEW s \in [Cells -> Contents],
         \A i \in Cells : i \in RowCells(0) <=> s[i] = "header"
  PROVE  /\ Scrolled(s) \in [Cells -> Contents]
         /\ \A i \in Cells : i \in RowCells(0) <=> Scrolled(s)[i] = "header"
         /\ \A i \in Cells : i >= LastRow => Scrolled(s)[i] = Empty
<1>1. \A i \in Cells : i >= SCREEN_COLUMNS /\ i \notin RowCells(SCREEN_ROWS - 1) =>
        i + SCREEN_COLUMNS \in Cells /\ i + SCREEN_COLUMNS \notin RowCells(0)
  BY Geometry
<1>2. \A i \in Cells :
        Scrolled(s)[i] = IF i < SCREEN_COLUMNS THEN s[i]
                         ELSE IF i \in RowCells(SCREEN_ROWS - 1) THEN Empty
                         ELSE s[i + SCREEN_COLUMNS]
  BY Geometry DEF Scrolled
<1>3. \A i \in Cells : Scrolled(s)[i] \in Contents
  BY <1>1, <1>2, Geometry DEF Contents
<1>4. Scrolled(s) \in [Cells -> Contents]
  BY <1>3 DEF Scrolled
<1>5. \A i \in Cells : i \in RowCells(0) <=> Scrolled(s)[i] = "header"
  BY <1>1, <1>2, Geometry DEF Empty
<1>6. \A i \in Cells : i >= LastRow => Scrolled(s)[i] = Empty
  BY <1>2, Geometry
<1> QED
  BY <1>4, <1>5, <1>6

\* What calculate_screen_bounds may be given, and what it makes of it.
LEMMA BoundsIs ==
  ASSUME NEW r \in row_header..SCREEN_ROWS, NEW x \in 0..SCREEN_COLUMNS + 1,
         r = SCREEN_ROWS => x = 0,
         NEW s \in [Cells -> Contents],
         \A i \in Cells : i \in RowCells(0) <=> s[i] = "header"
  PROVE  LET b == Bounds(r, x, s)
         IN  /\ b.row \in row_header..SCREEN_ROWS - 1 /\ b.column \in 0..SCREEN_COLUMNS - 1
             /\ b.screen \in [Cells -> Contents]
             /\ \A i \in Cells : i \in RowCells(0) <=> b.screen[i] = "header"
             /\ \/ b.row = r /\ b.column = x /\ b.screen = s /\ x < SCREEN_COLUMNS /\ r < SCREEN_ROWS
                \/ b.row = r + 1 /\ b.column = 0 /\ b.screen = s /\ x >= SCREEN_COLUMNS
                \/ /\ b.row = SCREEN_ROWS - 1 /\ b.column = 0
                   /\ (r = SCREEN_ROWS - 1 /\ x >= SCREEN_COLUMNS) \/ r = SCREEN_ROWS
                   /\ b.screen = Scrolled(s)
                   /\ \A i \in Cells : i >= LastRow => b.screen[i] = Empty
<1>1. CASE x < SCREEN_COLUMNS /\ r < SCREEN_ROWS
  BY <1>1 DEF Bounds, row_header
<1>2. CASE x >= SCREEN_COLUMNS /\ r + 1 < SCREEN_ROWS
  BY <1>2 DEF Bounds, row_header
<1>3. CASE (r = SCREEN_ROWS - 1 /\ x >= SCREEN_COLUMNS) \/ r = SCREEN_ROWS
  <2>1. Bounds(r, x, s) = [row |-> SCREEN_ROWS - 1, column |-> 0, screen |-> Scrolled(s)]
    <3>1. CASE r = SCREEN_ROWS - 1 /\ x >= SCREEN_COLUMNS
      BY <3>1 DEF Bounds
    <3>2. CASE r = SCREEN_ROWS
      <4>1. ~(x >= SCREEN_COLUMNS) /\ r >= SCREEN_ROWS /\ x = 0
        BY <3>2
      <4> QED
        BY <3>2, <4>1 DEF Bounds
    <3> QED
      BY <1>3, <3>1, <3>2
  <2> QED
    BY <1>3, <2>1, ScrolledIs DEF row_header
<1> QED
  BY <1>1, <1>2, <1>3 DEF row_header

-----------------------------------------------------------------------------
(* The console.                                                            *)

LEMMA ConsoleInit == Init => ConsoleInv
<1> SUFFICES ASSUME Init PROVE ConsoleInv
  OBVIOUS
<1>1. /\ row = row_header /\ column = 0 /\ pc = "idle" /\ skewed = FALSE
      /\ video_memory = SCREEN_COLUMNS
      /\ screen = [i \in Cells |-> IF i \in RowCells(0) THEN "header" ELSE Empty]
  BY Geometry DEF Init
<1>2. /\ row_header \in row_header..SCREEN_ROWS - 1 /\ 0 \in 0..SCREEN_COLUMNS
      /\ SCREEN_COLUMNS \in 0..SCREEN_ROWS * SCREEN_COLUMNS /\ SCREEN_COLUMNS \in Cells
  BY Geometry DEF row_header
<1>3. TypeOK
  <2>1. screen \in [Cells -> {"header", "char", Empty}]
    BY <1>1
  <2>2. skewed \in BOOLEAN
    BY <1>1, Zenon
  <2> QED
    BY <1>1, <1>2, <2>1, <2>2 DEF TypeOK
<1>4. Place
  BY <1>1 DEF Place
<1>5. HeaderIntact /\ EmptyBehindCursor
  BY <1>1, Geometry DEF HeaderIntact, EmptyBehindCursor, Empty
<1>6. PrintsAtCursor
  BY <1>1, <1>2, Geometry DEF PrintsAtCursor
<1> QED
  BY <1>3, <1>4, <1>5, <1>6 DEF ConsoleInv

\* The cursor is on the screen.
LEMMA CursorOnScreen ==
  ASSUME ConsoleInv
  PROVE  /\ row \in row_header..SCREEN_ROWS - 1 /\ column \in 0..SCREEN_COLUMNS
         /\ Offset(row, column) \in Nat
         /\ Offset(row, column) >= SCREEN_COLUMNS
         /\ Offset(row, column) < LastRow + SCREEN_COLUMNS
  BY Geometry, Offsets DEF ConsoleInv, TypeOK, PrintsAtCursor

LEMMA StartInv == ASSUME ConsoleInv, Start PROVE ConsoleInv'
<1>1. /\ video_memory' = Offset(row, column) /\ pc' = "printing"
      /\ UNCHANGED <<row, column, screen, skewed>>
  BY DEF Start
<1>2. TypeOK' /\ Place'
  BY <1>1, CursorOnScreen, Geometry DEF ConsoleInv, TypeOK, Place
<1>3. HeaderIntact' /\ EmptyBehindCursor'
  BY <1>1 DEF ConsoleInv, HeaderIntact, EmptyBehindCursor
<1>4. PrintsAtCursor'
  BY <1>1 DEF ConsoleInv, PrintsAtCursor
<1> QED
  BY <1>2, <1>3, <1>4 DEF ConsoleInv

\* Steps that leave the console as it is.
LEMMA IdleInv ==
  ASSUME ConsoleInv, End \/ PrintCharacterBehind \/ Overrun \/ UNCHANGED vars
  PROVE  ConsoleInv'
<1>1. /\ UNCHANGED <<row, column, screen, video_memory, skewed>>
      /\ pc' \in {"idle", "overrun", pc}
  BY DEF End, PrintCharacterBehind, Overrun, vars
<1>2. TypeOK' /\ Place'
  BY <1>1 DEF ConsoleInv, TypeOK, Place
<1>3. HeaderIntact' /\ EmptyBehindCursor'
  BY <1>1 DEF ConsoleInv, HeaderIntact, EmptyBehindCursor
<1>4. PrintsAtCursor'
  BY <1>1 DEF ConsoleInv, PrintsAtCursor
<1> QED
  BY <1>2, <1>3, <1>4 DEF ConsoleInv

LEMMA PrintCharacterInv == ASSUME ConsoleInv, PrintCharacter PROVE ConsoleInv'
<1> DEFINE s == [screen EXCEPT ![video_memory] = "char"]
           done == Bounds(row, column + 1, s)
<1>1. /\ pc = "printing" /\ video_memory \in Cells /\ UNCHANGED pc
      /\ row' = done.row /\ column' = done.column /\ screen' = done.screen
      /\ video_memory' = video_memory + 1
      /\ skewed' = (skewed \/ column = SCREEN_COLUMNS)
  BY DEF PrintCharacter, Put
<1>2. /\ video_memory \in SCREEN_COLUMNS..LastRow + SCREEN_COLUMNS - 1
      /\ screen \in [Cells -> Contents] /\ skewed \in BOOLEAN
      /\ \A i \in Cells : i \in RowCells(0) <=> screen[i] = "header"
  BY <1>1, Geometry DEF ConsoleInv, TypeOK, Place, Contents, HeaderIntact
<1>3. /\ s \in [Cells -> Contents]
      /\ \A i \in Cells : i # video_memory => s[i] = screen[i]
      /\ \A i \in Cells : i \in RowCells(0) <=> s[i] = "header"
  BY <1>1, <1>2, Geometry DEF Contents
<1>4. row \in row_header..SCREEN_ROWS /\ row # SCREEN_ROWS /\ column + 1 \in 0..SCREEN_COLUMNS + 1
  BY CursorOnScreen
<1>5. /\ row' \in row_header..SCREEN_ROWS - 1 /\ column' \in 0..SCREEN_COLUMNS - 1
      /\ screen' \in [Cells -> Contents]
      /\ \A i \in Cells : i \in RowCells(0) <=> screen'[i] = "header"
      /\ \/ row' = row /\ column' = column + 1 /\ screen' = s /\ column + 1 < SCREEN_COLUMNS
         \/ row' = row + 1 /\ column' = 0 /\ screen' = s /\ column + 1 >= SCREEN_COLUMNS
         \/ /\ row' = SCREEN_ROWS - 1 /\ column' = 0
            /\ row = SCREEN_ROWS - 1 /\ column + 1 >= SCREEN_COLUMNS
            /\ \A i \in Cells : i >= LastRow => screen'[i] = Empty
  <2> HIDE DEF s
  <2>1. row = SCREEN_ROWS => column + 1 = 0
    BY <1>4
  <2> QED
    BY <1>1, <1>3, <1>4, <2>1, BoundsIs
<1> HIDE DEF s, done
<1>6. TypeOK'
  <2>1. skewed' \in BOOLEAN
    BY <1>1, Zenon
  <2>2. video_memory' \in 0..SCREEN_ROWS * SCREEN_COLUMNS
    BY <1>1, <1>2, Geometry
  <2> QED
    BY <1>1, <1>5, <2>1, <2>2 DEF ConsoleInv, TypeOK, Contents
<1>7. Place' /\ HeaderIntact'
  BY <1>1, <1>2, <1>5, Geometry DEF Place, HeaderIntact
<1>8. Offset(row', column') \in Cells
  <2>1. row' \in row_header..SCREEN_ROWS - 1 /\ column' \in 0..SCREEN_COLUMNS /\ column' < SCREEN_COLUMNS
    BY <1>5
  <2>2. Offset(row', column') \in Nat /\ Offset(row', column') < LastRow + SCREEN_COLUMNS
    BY <2>1, Offsets
  <2> QED
    BY <2>2, Geometry
<1>9. ASSUME ~skewed' PROVE EmptyBehindCursor' /\ PrintsAtCursor'
  <2>1. ~skewed /\ column < SCREEN_COLUMNS /\ column \in 0..SCREEN_COLUMNS
    <3>1. ~skewed /\ column # SCREEN_COLUMNS
      BY <1>1, <1>9, Zenon
    <3> QED
      BY <3>1, CursorOnScreen
  <2>2. /\ video_memory = Offset(row, column)
        /\ \A i \in Cells : i >= video_memory => screen[i] = Empty
    BY <1>1, <2>1 DEF ConsoleInv, PrintsAtCursor, EmptyBehindCursor
  <2>3. CASE row' = row /\ column' = column + 1 /\ screen' = s
    <3>1. Offset(row', column') = video_memory + 1
      BY <2>2, <2>3, Offsets, CursorOnScreen
    <3> QED
      BY <1>1, <1>2, <1>3, <1>8, <2>2, <2>3, <3>1 DEF EmptyBehindCursor, PrintsAtCursor
  <2>4. CASE row' = row + 1 /\ column' = 0 /\ screen' = s /\ column + 1 >= SCREEN_COLUMNS
    <3>1. column + 1 = SCREEN_COLUMNS
      BY <2>1, <2>4
    <3>2. Offset(row', column') = video_memory + 1
      BY <2>2, <2>4, <3>1, Offsets, CursorOnScreen
    <3> QED
      BY <1>1, <1>2, <1>3, <1>8, <2>2, <2>4, <3>2 DEF EmptyBehindCursor, PrintsAtCursor
  <2>5. CASE /\ row' = SCREEN_ROWS - 1 /\ column' = 0
             /\ row = SCREEN_ROWS - 1 /\ column + 1 >= SCREEN_COLUMNS
             /\ \A i \in Cells : i >= LastRow => screen'[i] = Empty
    <3>1. column + 1 = SCREEN_COLUMNS
      BY <2>1, <2>5
    <3>2. video_memory + 1 = Offset(row, SCREEN_COLUMNS)
      BY <2>2, <3>1, Offsets, CursorOnScreen
    <3>3. Offset(row, SCREEN_COLUMNS) = SCREEN_COLUMNS + LastRow
      BY <2>5, Geometry DEF Offset
    <3>4. Offset(row', column') = LastRow
      BY <2>5, Geometry
    <3> QED
      BY <1>1, <1>8, <2>5, <3>2, <3>3, <3>4, Geometry DEF EmptyBehindCursor, PrintsAtCursor
  <2> QED
    BY <1>5, <2>3, <2>4, <2>5
<1> QED
  BY <1>6, <1>7, <1>8, <1>9 DEF ConsoleInv, EmptyBehindCursor, PrintsAtCursor

LEMMA NewlineInv == ASSUME ConsoleInv, Newline \/ NewlineOfKey PROVE ConsoleInv'
<1> DEFINE done == Bounds(row + 1, 0, screen)
<1>1. /\ pc = "printing" /\ row' = done.row /\ column' = done.column /\ screen' = done.screen
      /\ UNCHANGED skewed
      /\ \/ pc' = "printing" /\ video_memory' = Offset(row', column')
         \/ pc' = "ending" /\ video_memory' = video_memory
  BY DEF Newline, NewlineOfKey, Put
<1>2. /\ screen \in [Cells -> Contents]
      /\ \A i \in Cells : i \in RowCells(0) <=> screen[i] = "header"
  BY DEF ConsoleInv, TypeOK, Contents, HeaderIntact
<1>3. row + 1 \in row_header..SCREEN_ROWS /\ 0 \in 0..SCREEN_COLUMNS + 1
  BY CursorOnScreen DEF row_header
<1>4. /\ row' \in row_header..SCREEN_ROWS - 1 /\ column' = 0
      /\ screen' \in [Cells -> Contents]
      /\ \A i \in Cells : i \in RowCells(0) <=> screen'[i] = "header"
      /\ \/ row' = row + 1 /\ screen' = screen
         \/ row' = SCREEN_ROWS - 1 /\ \A i \in Cells : i >= LastRow => screen'[i] = Empty
  BY <1>1, <1>2, <1>3, BoundsIs
<1> HIDE DEF done
<1>5. 0 \in 0..SCREEN_COLUMNS /\ 0 < SCREEN_COLUMNS
  OBVIOUS
<1>6. /\ Offset(row', column') \in Nat /\ Offset(row', column') >= SCREEN_COLUMNS
      /\ Offset(row', column') < LastRow + SCREEN_COLUMNS
  BY <1>4, <1>5, Offsets
<1>7. Offset(row', column') \in Cells
  BY <1>6, Geometry
<1>8. TypeOK'
  <2>1. video_memory' \in 0..SCREEN_ROWS * SCREEN_COLUMNS
    BY <1>1, <1>6, Geometry DEF ConsoleInv, TypeOK
  <2>2. column' \in 0..SCREEN_COLUMNS /\ pc' \in {"idle", "printing", "ending", "overrun"}
    BY <1>1, <1>4, <1>5
  <2> QED
    BY <1>1, <1>4, <2>1, <2>2 DEF ConsoleInv, TypeOK, Contents
<1>9. Place' /\ HeaderIntact' /\ PrintsAtCursor'
  BY <1>1, <1>4, <1>5, <1>6, <1>7 DEF Place, HeaderIntact, PrintsAtCursor
<1>10. EmptyBehindCursor'
  <2>1. CASE row' = row + 1 /\ screen' = screen
    <3>1. Offset(row', column') = Offset(row, SCREEN_COLUMNS)
      BY <1>4, <2>1, <1>5, Offsets, CursorOnScreen
    <3>2. Offset(row, column) <= Offset(row, SCREEN_COLUMNS)
      BY CursorOnScreen, Multiples DEF Offset, row_header
    <3> QED
      BY <1>1, <1>6, <2>1, <3>1, <3>2, CursorOnScreen, Geometry DEF ConsoleInv, EmptyBehindCursor
  <2>2. CASE row' = SCREEN_ROWS - 1 /\ \A i \in Cells : i >= LastRow => screen'[i] = Empty
    <3>1. Offset(row', column') = LastRow
      BY <1>4, <2>2, Geometry
    <3> QED
      BY <2>2, <3>1 DEF EmptyBehindCursor
  <2> QED
    BY <1>4, <2>1, <2>2
<1> QED
  BY <1>8, <1>9, <1>10 DEF ConsoleInv

LEMMA RemoveCharacterInv == ASSUME ConsoleInv, RemoveCharacter PROVE ConsoleInv'
<1>1. /\ pc = "idle" /\ UNCHANGED <<video_memory, pc, skewed>>
      /\ screen' = [screen EXCEPT ![Offset(row', column')] = Empty]
      /\ \/ column = 0 /\ row # row_header /\ column' = SCREEN_COLUMNS /\ row' = row - 1
         \/ column # 0 /\ column' = column - 1 /\ row' = row
  BY DEF RemoveCharacter
<1>2. /\ row' \in row_header..SCREEN_ROWS - 1 /\ column' \in 0..SCREEN_COLUMNS
      /\ column' = SCREEN_COLUMNS => row' < SCREEN_ROWS - 1
  BY <1>1, CursorOnScreen DEF row_header
<1>3. \/ Offset(row', column') = Offset(row, column)
      \/ Offset(row', column') = Offset(row, column) - 1
  BY <1>1, CursorOnScreen, Offsets
<1>4. Offset(row', column') \in Nat /\ Offset(row', column') >= SCREEN_COLUMNS
  BY <1>2, Offsets
<1>5. Offset(row', column') \in Cells
  BY <1>3, <1>4, CursorOnScreen, Geometry
<1>6. TypeOK' /\ Place'
  BY <1>1, <1>2, <1>5 DEF ConsoleInv, TypeOK, Place
<1>7. PrintsAtCursor'
  BY <1>1, <1>5 DEF PrintsAtCursor
<1>8. /\ screen \in [Cells -> Contents]
      /\ \A i \in Cells : screen'[i] = IF i = Offset(row', column') THEN Empty ELSE screen[i]
  BY <1>1, <1>5 DEF ConsoleInv, TypeOK, Contents
<1>9. HeaderIntact'
  BY <1>4, <1>8, Geometry DEF ConsoleInv, HeaderIntact, Empty
<1>10. EmptyBehindCursor'
  BY <1>1, <1>3, <1>4, <1>8, CursorOnScreen, Geometry DEF ConsoleInv, EmptyBehindCursor
<1> QED
  BY <1>6, <1>7, <1>9, <1>10 DEF ConsoleInv

LEMMA ConsoleNext == ASSUME ConsoleInv, [Next]_vars PROVE ConsoleInv'
  BY StartInv, IdleInv, PrintCharacterInv, NewlineInv, RemoveCharacterInv DEF Next, Printing

-----------------------------------------------------------------------------
(* The read.                                                               *)

\* While a read is pending edx is behind the line; the bytes written are those
\* of the line and three more.
LineInv ==
  /\ line \in Seq(Letters) /\ Len(line) <= longest /\ longest \in 0..MaxLine
  /\ buffer \in [Bytes -> Letters \cup {"caller's", "stack", "NUL"}]
  /\ eax \in 0..MaxLine
  /\ reading => eax = 0 /\ edx = Len(line)
  /\ LineInBuffer

cursor == Offset(row, column)

\* How far the cursor is from where the line should have brought it.  A
\* backspace in column 0 leaves it a cell too far to the right; a character
\* printed behind the last column, a cell less.
Ahead == cursor - prompt - Len(line) + (IF echoing THEN 1 ELSE 0)

RowStart == \E r \in Int : prompt = Offset(r, 0)

\* The cursor is behind by a cell only when the read began behind a last column,
\* and so the prompt is the start of a row, which backspaces can not pass.
Drift ==
  /\ IF column = SCREEN_COLUMNS THEN Ahead >= 0 ELSE Ahead >= -1
  /\ Ahead < 0 \/ (column = SCREEN_COLUMNS /\ Ahead = 0) => RowStart
  /\ cursor >= prompt

Shown == \A i \in Cells : i >= prompt /\ i < cursor /\ i >= SCREEN_COLUMNS => screen[i] = "char"

EchoTypes == reading \in BOOLEAN /\ echoing \in BOOLEAN /\ crossed \in BOOLEAN

EchoInv ==
  /\ EchoTypes
  /\ echoing => reading
  /\ reading => pc \in {"idle", "printing"}
  /\ prompt \in Int /\ prompt >= -MaxLine
  /\ reading => Drift
  /\ reading /\ ~crossed /\ ~skewed => Ahead = 0 /\ Shown

IInv == ConsoleInv /\ LineInv /\ EchoInv

USE LineAssumption, LettersAssumption

\* Every step is one of the console, or leaves it alone.
LEMMA StepsOnConsole == ASSUME NextLine PROVE [Next]_vars
<1>1. ASSUME Echo \/ EchoEnd PROVE [Next]_vars
  BY <1>1 DEF Echo, EchoEnd, Next, Printing
<1>2. ASSUME Backspace PROVE [Next]_vars
  BY <1>2 DEF Backspace, Remove, Next, vars
<1>3. ASSUME Prints PROVE [Next]_vars
  BY <1>3 DEF Prints, Next
<1>4. ASSUME Call \/ (\E x \in Letters : Letter(x)) \/ Enter PROVE [Next]_vars
  BY <1>4 DEF Call, Letter, Enter
<1> QED
  BY <1>1, <1>2, <1>3, <1>4 DEF NextLine

\* An empty line in a buffer nothing was written to.
LEMMA EmptyLine ==
  ASSUME line' = <<>>, longest' = 0, buffer' = [i \in Bytes |-> "caller's"],
         eax' = 0, edx' = 0
  PROVE  LineInv'
<1>1. line' \in Seq(Letters) /\ Len(line') = 0 /\ 0 \in Bytes /\ 0 \in 0..MaxLine
  BY DEF Bytes
<1>2. LineInBuffer'
  BY <1>1 DEF LineInBuffer
<1> QED
  BY <1>1, <1>2 DEF LineInv

LEMMA LetterInv == ASSUME IInv, NEW x \in Letters, Letter(x) PROVE LineInv'
<1>1. /\ reading /\ Len(line) < MaxLine /\ edx' = edx + 1 /\ line' = Append(line, x)
      /\ buffer' = Copied(edx, x) /\ UNCHANGED <<reading, eax>>
      /\ longest' = IF Len(line') > longest THEN Len(line') ELSE longest
  BY DEF Letter, Recall
<1>2. /\ line \in Seq(Letters) /\ Len(line) \in Nat /\ edx = Len(line) /\ eax = 0
      /\ longest \in 0..MaxLine /\ Len(line) <= longest /\ reading'
  BY <1>1 DEF IInv, LineInv
<1>3. /\ line' \in Seq(Letters) /\ Len(line') = Len(line) + 1
      /\ \A i \in 1..Len(line) : line'[i] = line[i]
      /\ line'[Len(line) + 1] = x
  BY <1>1, <1>2
<1>4. /\ longest' \in 0..MaxLine /\ Len(line') <= longest'
      /\ longest \in Int /\ longest' \in Int /\ edx \in Int
      /\ longest <= longest' /\ edx + 1 <= longest'
  <2> DEFINE n == Len(line)
  <2>1. n \in Nat /\ Len(line') = n + 1 /\ n < MaxLine /\ edx = n
    BY <1>1, <1>2, <1>3
  <2>2. longest' = IF n + 1 > longest THEN n + 1 ELSE longest
    BY <1>1, <1>3
  <2> HIDE DEF n
  <2> QED
    BY <1>2, <2>1, <2>2
<1>5. /\ buffer' \in [Bytes -> Letters \cup {"caller's", "stack", "NUL"}]
      /\ buffer'[edx] = x
      /\ \A i \in Bytes : i < edx \/ i > edx + 3 => buffer'[i] = buffer[i]
  BY <1>1, <1>2 DEF Copied, Bytes, IInv, LineInv
<1>6. LineInBuffer'
  <2>1. ASSUME NEW i \in 1..Len(line') PROVE buffer'[i - 1] = line'[i]
    <3>1. CASE i = Len(line) + 1
      BY <1>2, <1>3, <1>5, <3>1
    <3>2. CASE i \in 1..Len(line)
      <4>1. i - 1 \in Bytes /\ i - 1 < edx
        BY <1>1, <1>2, <3>2 DEF Bytes
      <4>2. buffer'[i - 1] = buffer[i - 1]
        BY <1>5, <4>1
      <4>3. buffer[i - 1] = line[i] /\ line'[i] = line[i]
        BY <1>3, <3>2 DEF IInv, LineInv, LineInBuffer
      <4> QED
        BY <4>2, <4>3
    <3> QED
      BY <1>2, <1>3, <3>1, <3>2
  <2>2. ASSUME NEW i \in Bytes, i > longest' + 3 PROVE buffer'[i] = "caller's"
    <3>1. i \in Int
      BY DEF Bytes
    <3>2. i > longest + 3 /\ i > edx + 3
      <4>1. \A a, d, n, k \in Int : a <= n /\ d + 1 <= n /\ k > n + 3 => k > a + 3 /\ k > d + 3
        OBVIOUS
      <4> QED
        BY <1>4, <2>2, <3>1, <4>1
    <3> QED
      BY <1>5, <3>2 DEF IInv, LineInv, LineInBuffer
  <2> QED
    BY <1>2, <2>1, <2>2 DEF LineInBuffer
<1> QED
  BY <1>1, <1>2, <1>3, <1>4, <1>5, <1>6 DEF LineInv

LEMMA BackspaceInv == ASSUME IInv, Backspace PROVE LineInv'
<1>1. /\ reading /\ UNCHANGED <<reading, eax, buffer, longest>>
      /\ \/ edx > eax /\ edx' = edx - 1 /\ line' = SubSeq(line, 1, Len(line) - 1)
         \/ edx' = edx /\ line' = line
  BY DEF Backspace, Recall
<1>2. /\ line \in Seq(Letters) /\ Len(line) \in Nat /\ edx = Len(line) /\ eax = 0
      /\ longest \in 0..MaxLine /\ Len(line) <= longest /\ reading'
  BY <1>1 DEF IInv, LineInv
<1>3. CASE edx' = edx /\ line' = line
  BY <1>1, <1>3 DEF IInv, LineInv, LineInBuffer
<1>4. CASE edx > eax /\ edx' = edx - 1 /\ line' = SubSeq(line, 1, Len(line) - 1)
  <2>1. /\ line' \in Seq(Letters) /\ Len(line') = Len(line) - 1
        /\ \A i \in 1..Len(line) - 1 : line'[i] = line[i]
    BY <1>2, <1>4
  <2>2. LineInBuffer'
    BY <1>1, <1>2, <2>1 DEF IInv, LineInv, LineInBuffer
  <2> QED
    BY <1>1, <1>2, <1>4, <2>1, <2>2 DEF IInv, LineInv
<1> QED
  BY <1>1, <1>3, <1>4

LEMMA EnterInv == ASSUME IInv, Enter PROVE LineInv'
<1>1. /\ reading /\ buffer' = Copied(edx, "NUL") /\ eax' = edx - eax /\ reading' = FALSE
      /\ UNCHANGED <<edx, line, longest>>
  BY DEF Enter, Recall, marks
<1>2. /\ line \in Seq(Letters) /\ Len(line) \in Nat /\ edx = Len(line) /\ eax = 0
      /\ longest \in 0..MaxLine /\ Len(line) <= longest
  BY <1>1 DEF IInv, LineInv
<1>3. /\ buffer' \in [Bytes -> Letters \cup {"caller's", "stack", "NUL"}]
      /\ buffer'[edx] = "NUL"
      /\ \A i \in Bytes : i < edx \/ i > edx + 3 => buffer'[i] = buffer[i]
  BY <1>1, <1>2 DEF Copied, Bytes, IInv, LineInv
<1>4. LineInBuffer'
  <2>1. ASSUME NEW i \in 1..Len(line) PROVE buffer'[i - 1] = line[i]
    <3>1. i - 1 \in Bytes /\ i - 1 < edx
      BY <1>2 DEF Bytes
    <3> QED
      BY <1>3, <3>1 DEF IInv, LineInv, LineInBuffer
  <2>2. ASSUME NEW i \in Bytes, i > longest + 3 PROVE buffer'[i] = "caller's"
    <3>1. i > edx + 3
      BY <1>2, <2>2 DEF Bytes
    <3> QED
      BY <1>3, <2>2, <3>1 DEF IInv, LineInv, LineInBuffer
  <2> QED
    BY <1>1, <1>2, <1>3, <2>1, <2>2 DEF LineInBuffer
<1> QED
  BY <1>1, <1>2, <1>3, <1>4 DEF LineInv

\* Steps that leave the line alone.
LEMMA SameLine == ASSUME IInv, Echo \/ EchoEnd \/ UNCHANGED <<vars, lineVars>> PROVE LineInv'
<1>1. UNCHANGED <<reading, eax, edx, buffer, line, longest>>
  BY DEF Echo, EchoEnd, lineVars, registers, marks
<1> QED
  BY <1>1 DEF IInv, LineInv, LineInBuffer

-----------------------------------------------------------------------------
(* The echo.                                                               *)

\* A cell is the start of a row only in column 0, or behind the last one.
LEMMA StartOfRow ==
  ASSUME ConsoleInv, RowStart, cursor = prompt
  PROVE  column = 0 \/ column = SCREEN_COLUMNS
<1>1. PICK r \in Int : prompt = 0 + r * SCREEN_COLUMNS
  BY DEF RowStart, Offset
<1>2. row \in Int /\ column \in 0..SCREEN_COLUMNS /\ column + row * SCREEN_COLUMNS = prompt
  BY CursorOnScreen DEF cursor, Offset, row_header
<1>3. (r - row) * SCREEN_COLUMNS = column
  BY <1>1, <1>2, Multiples
<1>4. \A d \in Int : d * SCREEN_COLUMNS \in 0..SCREEN_COLUMNS => d = 0 \/ d = 1
  OBVIOUS
<1> QED
  BY <1>1, <1>2, <1>3, <1>4

\* The row above the start of a row.
LEMMA RowAbove == ASSUME RowStart, prompt' = prompt - SCREEN_COLUMNS PROVE RowStart'
<1>1. PICK r \in Int : prompt = 0 + r * SCREEN_COLUMNS
  BY DEF RowStart, Offset
<1>2. prompt' = 0 + (r - 1) * SCREEN_COLUMNS /\ r - 1 \in Int
  BY <1>1, Multiples
<1> QED
  BY <1>2 DEF RowStart, Offset

\* What printing a character does to the cursor and the cells before it.
LEMMA PrintMoves ==
  ASSUME ConsoleInv, PrintCharacter
  PROVE  /\ column' # SCREEN_COLUMNS /\ skewed' = (skewed \/ column = SCREEN_COLUMNS)
         /\ \/ /\ column < SCREEN_COLUMNS /\ cursor' = cursor + 1 /\ Lift = 0
               /\ ~skewed => screen' = [screen EXCEPT ![cursor] = "char"]
            \/ column = SCREEN_COLUMNS /\ cursor' = cursor /\ Lift = 0
            \/ /\ column < SCREEN_COLUMNS /\ cursor' = cursor + 1 - SCREEN_COLUMNS
               /\ Lift = SCREEN_COLUMNS /\ cursor' = LastRow
               /\ ~skewed => screen' = Scrolled([screen EXCEPT ![cursor] = "char"])
<1> DEFINE s == [screen EXCEPT ![video_memory] = "char"]
           done == Bounds(row, column + 1, s)
<1>1. /\ pc = "printing" /\ video_memory \in Cells
      /\ row' = done.row /\ column' = done.column /\ screen' = done.screen
      /\ skewed' = (skewed \/ column = SCREEN_COLUMNS)
  BY DEF PrintCharacter, Put
<1>2. /\ video_memory \notin RowCells(0) /\ screen \in [Cells -> Contents]
      /\ \A i \in Cells : i \in RowCells(0) <=> screen[i] = "header"
  BY <1>1, Geometry DEF ConsoleInv, TypeOK, Place, Contents, HeaderIntact
<1>3. /\ s \in [Cells -> Contents]
      /\ \A i \in Cells : i \in RowCells(0) <=> s[i] = "header"
  BY <1>1, <1>2 DEF Contents
<1>4. /\ row \in row_header..SCREEN_ROWS /\ row # SCREEN_ROWS /\ column + 1 \in 0..SCREEN_COLUMNS + 1
      /\ row \in row_header..SCREEN_ROWS - 1 /\ column \in 0..SCREEN_COLUMNS /\ row \in Int
      /\ column = SCREEN_COLUMNS => row < SCREEN_ROWS - 1
  BY CursorOnScreen DEF ConsoleInv, Place, row_header
<1>5. /\ column' \in 0..SCREEN_COLUMNS - 1
      /\ \/ row' = row /\ column' = column + 1 /\ screen' = s /\ column + 1 < SCREEN_COLUMNS
         \/ row' = row + 1 /\ column' = 0 /\ screen' = s /\ column + 1 >= SCREEN_COLUMNS
         \/ /\ row' = SCREEN_ROWS - 1 /\ column' = 0
            /\ row = SCREEN_ROWS - 1 /\ column + 1 >= SCREEN_COLUMNS
            /\ screen' = Scrolled(s)
  <2> HIDE DEF s
  <2>1. row = SCREEN_ROWS => column + 1 = 0
    BY <1>4
  <2> QED
    BY <1>1, <1>3, <1>4, <2>1, BoundsIs
<1>6. ~skewed /\ column < SCREEN_COLUMNS => video_memory = cursor
  BY <1>1 DEF ConsoleInv, PrintsAtCursor, cursor
<1> HIDE DEF s, done
<1>7. ~skewed /\ column < SCREEN_COLUMNS => s = [screen EXCEPT ![cursor] = "char"]
  BY <1>6 DEF s
<1>8. /\ Offset(row, column + 1) = cursor + 1 /\ cursor \in Int
      /\ Offset(row + 1, 0) = Offset(row, SCREEN_COLUMNS)
      /\ row = SCREEN_ROWS - 1 => Offset(row, 0) = LastRow /\ Offset(row, SCREEN_COLUMNS) = LastRow + SCREEN_COLUMNS
  BY <1>4, Offsets, Geometry, CursorOnScreen DEF cursor, Offset
<1>9. CASE row' = row /\ column' = column + 1 /\ screen' = s /\ column + 1 < SCREEN_COLUMNS
  BY <1>1, <1>4, <1>7, <1>8, <1>9 DEF cursor, Lift
<1>10. CASE row' = row + 1 /\ column' = 0 /\ screen' = s /\ column + 1 >= SCREEN_COLUMNS
  <2>1. cursor' = Offset(row, SCREEN_COLUMNS) /\ Lift = 0
    BY <1>4, <1>8, <1>10 DEF cursor, Lift
  <2>2. CASE column = SCREEN_COLUMNS
    BY <1>1, <1>10, <2>1, <2>2 DEF cursor
  <2>3. CASE column + 1 = SCREEN_COLUMNS
    BY <1>1, <1>4, <1>7, <1>8, <1>10, <2>1, <2>3
  <2> QED
    BY <1>4, <1>10, <2>2, <2>3
<1>11. CASE /\ row' = SCREEN_ROWS - 1 /\ column' = 0
            /\ row = SCREEN_ROWS - 1 /\ column + 1 >= SCREEN_COLUMNS
            /\ screen' = Scrolled(s)
  <2>1. column + 1 = SCREEN_COLUMNS /\ Lift = SCREEN_COLUMNS /\ cursor' = LastRow
    BY <1>4, <1>8, <1>11 DEF cursor, Lift
  <2>2. cursor + 1 = LastRow + SCREEN_COLUMNS /\ LastRow \in Int
    BY <1>8, <1>11, <2>1, Geometry
  <2>3. ~skewed => screen' = Scrolled([screen EXCEPT ![cursor] = "char"])
    BY <1>4, <1>7, <1>11, <2>1
  <2>4. column < SCREEN_COLUMNS /\ column' # SCREEN_COLUMNS /\ cursor' = cursor + 1 - SCREEN_COLUMNS
    BY <1>4, <1>8, <1>11, <2>1, <2>2
  <2> QED
    BY <1>1, <2>1, <2>3, <2>4
<1> QED
  BY <1>5, <1>9, <1>10, <1>11

LEMMA EchoTypesInv == ASSUME EchoTypes, [NextLine]_<<vars, lineVars>> PROVE EchoTypes'
<1>1. ASSUME Call \/ Enter \/ \E x \in Letters : Letter(x) PROVE EchoTypes'
  BY <1>1, Zenon DEF EchoTypes, Call, Enter, Letter, marks
<1>2. ASSUME Echo \/ EchoEnd PROVE EchoTypes'
  BY <1>2, Zenon DEF EchoTypes, Echo, EchoEnd, lineVars, marks
<1>3. ASSUME Backspace PROVE EchoTypes'
  <2>1. crossed' = (crossed \/ column = 0) \/ crossed' = crossed
    BY <1>3, Zenon DEF Backspace
  <2>2. reading' = reading /\ echoing' = echoing
    BY <1>3, Zenon DEF Backspace
  <2> QED
    BY <2>1, <2>2, Zenon DEF EchoTypes
<1>4. ASSUME Prints \/ UNCHANGED <<vars, lineVars>> PROVE EchoTypes'
  BY <1>4, Zenon DEF EchoTypes, Prints, lineVars, marks
<1> QED
  BY <1>1, <1>2, <1>3, <1>4 DEF NextLine

\* What EchoInv says of a read.
LEMMA EchoIs ==
  ASSUME IInv, reading
  PROVE  /\ cursor \in Nat /\ cursor \in Cells /\ prompt \in Int /\ Len(line) \in 0..MaxLine
         /\ Ahead = cursor - prompt - Len(line) + (IF echoing THEN 1 ELSE 0) /\ Ahead \in Int
         /\ Drift /\ (~crossed /\ ~skewed => Ahead = 0 /\ Shown)
<1>1. cursor \in Nat /\ cursor \in Cells
  BY CursorOnScreen DEF cursor, IInv, ConsoleInv, PrintsAtCursor
<1>2. Len(line) \in 0..MaxLine
  <2>1. line \in Seq(Letters) /\ Len(line) <= longest /\ longest \in 0..MaxLine
    BY DEF IInv, LineInv
  <2> QED
    BY <2>1
<1>3. prompt \in Int /\ Drift /\ (~crossed /\ ~skewed => Ahead = 0 /\ Shown)
  BY DEF IInv, EchoInv
<1>4. (IF echoing THEN 1 ELSE 0) \in Int
  OBVIOUS
<1> QED
  BY <1>1, <1>2, <1>3, <1>4 DEF Ahead

LEMMA CallEcho == ASSUME IInv, EchoTypes', Call PROVE EchoInv'
<1>1. /\ reading' = TRUE /\ pc' = "idle" /\ line' = <<>> /\ prompt' = cursor /\ crossed' = FALSE
      /\ cursor' = cursor /\ column' = column /\ echoing' = FALSE
  BY DEF Call, vars, cursor, IInv, EchoInv
<1>2. cursor \in Nat /\ row \in Int /\ (column = SCREEN_COLUMNS => cursor = Offset(row + 1, 0))
  BY CursorOnScreen, Offsets DEF IInv, cursor, row_header
<1>3. Ahead' = 0
  <2>1. Len(line') = 0
    BY <1>1
  <2> QED
    BY <1>1, <1>2, <2>1 DEF Ahead
<1>4. Drift'
  BY <1>1, <1>2, <1>3 DEF Drift, RowStart
<1>5. Shown'
  BY <1>1, <1>2, Geometry DEF Shown
<1> QED
  BY <1>1, <1>2, <1>3, <1>4, <1>5 DEF EchoInv

LEMMA LetterEcho == ASSUME IInv, EchoTypes', NEW x \in Letters, Letter(x) PROVE EchoInv'
<1>1. /\ reading /\ ~echoing /\ reading' = reading /\ echoing' = TRUE /\ pc' = "idle"
      /\ cursor' = cursor /\ line' = Append(line, x)
      /\ UNCHANGED <<column, screen, prompt, crossed, skewed>>
  BY DEF Letter, Recall, vars, cursor
<1>2. Len(line') = Len(line) + 1
  BY <1>1 DEF IInv, LineInv
<1>3. Ahead' = Ahead
  <2> DEFINE length == Len(line)
             echo == IF echoing THEN 1 ELSE 0
  <2>1. cursor \in Nat /\ prompt \in Int /\ length \in 0..MaxLine
    BY <1>1, EchoIs, Zenon
  <2>2. length' = length + 1
    BY <1>2
  <2>3. echo = 0 /\ echo' = 1 /\ cursor' = cursor /\ prompt' = prompt
    BY <1>1
  <2>4. Ahead = cursor - prompt - length + echo /\ Ahead' = cursor' - prompt' - length' + echo'
    BY DEF Ahead
  <2> HIDE DEF length, echo
  <2> QED
    BY <2>1, <2>2, <2>3, <2>4
<1> QED
  BY <1>1, <1>3 DEF IInv, EchoInv, Drift, RowStart, Shown

\* A printed character moves the prompt with the rest of the screen.
LEMMA PrintEcho ==
  ASSUME IInv, EchoTypes', reading, echoing, PrintCharacter, prompt' = Lifted, echoing' = FALSE,
         UNCHANGED <<reading, line, crossed>>
  PROVE  EchoInv'
<1> DEFINE n == Len(line)
<1>1. /\ cursor \in Nat /\ cursor \in Cells /\ prompt \in Int /\ prompt >= -MaxLine /\ n \in 0..MaxLine
      /\ Ahead = cursor - prompt - n + 1 /\ Ahead \in Int /\ Ahead' = cursor' - prompt' - n
      /\ Drift /\ (~crossed /\ ~skewed => Ahead = 0 /\ Shown)
  <2>1. Ahead' = cursor' - prompt' - n + 0
    BY DEF Ahead
  <2>2. cursor' \in Int /\ prompt' \in Int
    BY EchoIs, PrintMoves, Geometry DEF IInv, Lifted
  <2> QED
    BY EchoIs, <2>1, <2>2 DEF IInv, EchoInv
<1> HIDE DEF n
<1>2. /\ column' # SCREEN_COLUMNS
      /\ ~skewed' => ~skewed /\ column # SCREEN_COLUMNS
      /\ pc' = "printing" /\ reading' /\ crossed' = crossed /\ ~echoing'
      /\ screen \in [Cells -> Contents]
  <2>1. ~skewed' => ~skewed /\ column # SCREEN_COLUMNS
    BY Zenon DEF PrintCharacter
  <2>2. reading' /\ crossed' = crossed /\ ~echoing'
    BY Zenon
  <2> QED
    BY <2>1, <2>2, PrintMoves DEF PrintCharacter, IInv, ConsoleInv, TypeOK, Contents
<1>3. CASE /\ column < SCREEN_COLUMNS /\ cursor' = cursor + 1 /\ Lift = 0
           /\ ~skewed => screen' = [screen EXCEPT ![cursor] = "char"]
  <2>1. prompt' = prompt
    BY <1>1, <1>3 DEF Lifted
  <2>2. Ahead' = Ahead
    BY <1>1, <1>3, <2>1
  <2>3. Drift'
    BY <1>1, <1>2, <1>3, <2>1, <2>2 DEF Drift, RowStart
  <2>4. ~crossed /\ ~skewed => Shown'
    BY <1>1, <1>2, <1>3, <2>1, Geometry DEF Shown
  <2> QED
    BY <1>1, <1>2, <2>1, <2>2, <2>3, <2>4 DEF EchoInv, IInv
<1>4. CASE column = SCREEN_COLUMNS /\ cursor' = cursor /\ Lift = 0
  <2>1. prompt' = prompt
    BY <1>1, <1>4 DEF Lifted
  <2>2. Ahead' = Ahead - 1
    BY <1>1, <1>4, <2>1
  <2>3. Drift'
    BY <1>1, <1>2, <1>4, <2>1, <2>2 DEF Drift, RowStart
  <2>4. skewed'
    BY <1>2, <1>4
  <2> QED
    BY <1>1, <1>2, <2>1, <2>3, <2>4 DEF EchoInv, IInv
<1>5. CASE /\ column < SCREEN_COLUMNS /\ cursor' = cursor + 1 - SCREEN_COLUMNS
           /\ Lift = SCREEN_COLUMNS /\ cursor' = LastRow
           /\ ~skewed => screen' = Scrolled([screen EXCEPT ![cursor] = "char"])
  <2>1. LastRow \in Nat /\ LastRow >= SCREEN_COLUMNS + SCREEN_COLUMNS
    BY Geometry
  <2>2. CASE prompt - SCREEN_COLUMNS < -MaxLine
    <3>1. prompt' = -MaxLine /\ Ahead' >= LastRow
      BY <1>1, <1>5, <2>1, <2>2 DEF Lifted
    <3>2. Ahead # 0
      BY <1>1, <1>5, <2>1, <2>2
    <3>3. Drift'
      BY <1>1, <1>2, <1>5, <2>1, <3>1 DEF Drift
    <3> QED
      BY <1>1, <1>2, <3>1, <3>2, <3>3 DEF EchoInv, IInv
  <2>3. CASE ~(prompt - SCREEN_COLUMNS < -MaxLine)
    <3>1. prompt' = prompt - SCREEN_COLUMNS /\ prompt' >= -MaxLine
      BY <1>1, <1>5, <2>3 DEF Lifted
    <3>2. Ahead' = Ahead
      BY <1>1, <1>5, <3>1
    <3>3. RowStart => RowStart'
      BY <3>1, RowAbove
    <3>4. Drift'
      BY <1>1, <1>2, <1>5, <3>1, <3>2, <3>3 DEF Drift
    <3>5. ASSUME ~crossed, ~skewed PROVE Shown'
      <4> DEFINE s == [screen EXCEPT ![cursor] = "char"]
      <4>1. \A i \in Cells : i >= prompt /\ i < cursor + 1 /\ i >= SCREEN_COLUMNS => s[i] = "char"
        BY <1>1, <1>2, <3>5, Geometry DEF Shown
      <4>2. \A i \in Cells : i >= SCREEN_COLUMNS /\ i < LastRow =>
              i + SCREEN_COLUMNS \in Cells /\ Scrolled(s)[i] = s[i + SCREEN_COLUMNS]
        BY Geometry DEF Scrolled
      <4>3. screen' = Scrolled(s)
        BY <1>5, <3>5
      <4> HIDE DEF s
      <4>4. ASSUME NEW i \in Cells, i >= prompt', i < cursor', i >= SCREEN_COLUMNS
            PROVE  screen'[i] = "char"
        <5>1. /\ i \in Int /\ i < LastRow /\ i + SCREEN_COLUMNS >= prompt
              /\ i + SCREEN_COLUMNS < cursor + 1 /\ i + SCREEN_COLUMNS >= SCREEN_COLUMNS
          BY <1>1, <1>5, <3>1, <4>4, Geometry
        <5> QED
          BY <4>1, <4>2, <4>3, <4>4, <5>1
      <4> QED
        BY <4>4 DEF Shown
    <3> QED
      BY <1>1, <1>2, <3>1, <3>2, <3>4, <3>5 DEF EchoInv, IInv
  <2> QED
    BY <2>2, <2>3
<1> QED
  BY <1>3, <1>4, <1>5, PrintMoves DEF IInv

LEMMA EchoEcho == ASSUME IInv, EchoTypes', Echo \/ EchoEnd PROVE EchoInv'
<1>1. CASE echoing /\ Start /\ UNCHANGED lineVars
  <2>1. /\ pc' = "printing" /\ UNCHANGED <<cursor, column, screen, skewed>>
        /\ UNCHANGED <<reading, echoing, line, prompt, crossed>>
    BY <1>1 DEF Start, lineVars, marks, cursor
  <2> QED
    BY <2>1 DEF IInv, EchoInv, Drift, RowStart, Shown, Ahead
<1>2. CASE echoing /\ PrintCharacter /\ prompt' = Lifted /\ echoing' = FALSE
           /\ UNCHANGED <<reading, registers, buffer, line, longest, crossed>>
  BY <1>2, PrintEcho DEF IInv, EchoInv
<1>3. CASE EchoEnd
  <2>1. /\ pc' = "idle" /\ UNCHANGED <<cursor, column, screen, skewed>>
        /\ UNCHANGED <<reading, echoing, line, prompt, crossed>>
    BY <1>3 DEF EchoEnd, End, lineVars, marks, cursor
  <2> QED
    BY <2>1 DEF IInv, EchoInv, Drift, RowStart, Shown, Ahead
<1> QED
  BY <1>1, <1>2, <1>3 DEF Echo

LEMMA BackspaceEcho == ASSUME IInv, EchoTypes', Backspace PROVE EchoInv'
<1>1. /\ reading /\ ~echoing /\ pc = "idle" /\ UNCHANGED <<reading, echoing, prompt>>
      /\ edx = Len(line) /\ eax = 0
  BY DEF Backspace, Recall, IInv, LineInv
<1>2. CASE ~(edx > eax)
  <2>1. UNCHANGED <<cursor, column, screen, skewed, pc, line, crossed>>
    BY <1>2 DEF Backspace, vars, cursor
  <2> QED
    BY <1>1, <2>1 DEF IInv, EchoInv, Drift, RowStart, Shown, Ahead
<1>3. CASE edx > eax
  <2>1. /\ Remove /\ line' = SubSeq(line, 1, Len(line) - 1)
        /\ ~crossed' => ~crossed /\ column # 0
    <3>1. Remove /\ line' = SubSeq(line, 1, Len(line) - 1) /\ crossed' = (crossed \/ column = 0)
      BY <1>3, Zenon DEF Backspace
    <3> QED
      BY <3>1, Zenon
  <2>2. pc' = pc /\ skewed' = skewed /\ reading'
    BY <1>1, <2>1 DEF Remove, RemoveCharacter, vars
  <2> DEFINE n == Len(line)
  <2>3. /\ cursor \in Nat /\ prompt \in Int /\ n \in 1..MaxLine /\ Len(line') = n - 1
        /\ Ahead = cursor - prompt - n /\ Ahead \in Int /\ prompt >= -MaxLine
        /\ Drift /\ (~crossed /\ ~skewed => Ahead = 0 /\ Shown)
    <3>1. line \in Seq(Letters) /\ n > 0
      BY <1>1, <1>3 DEF IInv, LineInv
    <3>2. n \in Nat /\ Len(line') = n - 1
      <4>1. line \in Seq(Letters) /\ Len(line) \in Nat /\ edx = Len(line) /\ edx > 0
        BY <1>1, <3>1
      <4>2. line' = SubSeq(line, 1, Len(line) - 1)
        BY <2>1
      <4>3. /\ line' \in Seq(Letters) /\ Len(line') = Len(line) - 1
            /\ \A i \in 1..Len(line) - 1 : line'[i] = line[i]
        BY <4>1, <4>2
      <4> QED
        BY <4>1, <4>3
    <3>3. /\ cursor \in Nat /\ prompt \in Int /\ n \in 0..MaxLine /\ Ahead \in Int
          /\ Ahead = cursor - prompt - n + 0
          /\ Drift /\ (~crossed /\ ~skewed => Ahead = 0 /\ Shown)
      BY <1>1, EchoIs
    <3> HIDE DEF n
    <3> QED
      BY <3>1, <3>2, <3>3 DEF IInv, EchoInv
  <2> HIDE DEF n
  <2>4. cursor' \in Int => Ahead' = cursor' - prompt - (n - 1)
    BY <1>1, <2>3 DEF Ahead
  <2>5. CASE column = 0
    <3>1. cursor' = cursor /\ column' \in {0, SCREEN_COLUMNS}
      <4>1. CASE row = row_header
        BY <2>1, <2>5, <4>1 DEF Remove, vars, cursor
      <4>2. CASE row # row_header
        <5>1. column' = SCREEN_COLUMNS /\ row' = row - 1
          BY <2>1, <2>5, <4>2 DEF Remove, RemoveCharacter
        <5> QED
          BY <2>5, <5>1, CursorOnScreen, Offsets DEF cursor, IInv
      <4> QED
        BY <4>1, <4>2
    <3>2. Ahead' = Ahead + 1 /\ crossed'
      BY <2>1, <2>3, <2>4, <2>5, <3>1
    <3>3. Drift'
      BY <1>1, <2>3, <2>5, <3>1, <3>2 DEF Drift, RowStart
    <3> QED
      BY <1>1, <2>2, <2>3, <3>2, <3>3 DEF EchoInv
  <2>6. CASE column # 0
    <3>1. /\ row' = row /\ column' = column - 1
          /\ screen' = [screen EXCEPT ![Offset(row', column')] = Empty]
      BY <2>1, <2>6 DEF Remove, RemoveCharacter
    <3>2. cursor' = cursor - 1 /\ column \in 0..SCREEN_COLUMNS
      BY <3>1, CursorOnScreen, Offsets DEF cursor, IInv
    <3>3. Ahead' = Ahead
      BY <2>3, <2>4, <3>2
    <3>4. cursor' >= prompt
      <4>1. CASE Ahead >= 0
        BY <2>3, <3>2, <4>1
      <4>2. CASE Ahead < 0
        <5>1. cursor # prompt
          BY <2>3, <2>6, <4>2, StartOfRow DEF Drift, IInv
        <5> QED
          BY <2>3, <3>2, <5>1 DEF Drift
      <4> QED
        BY <2>3, <4>1, <4>2
    <3>5. Drift'
      BY <1>1, <2>3, <3>1, <3>2, <3>3, <3>4 DEF Drift, RowStart
    <3>6. screen \in [Cells -> Contents]
      BY DEF IInv, ConsoleInv, TypeOK, Contents
    <3>7. ASSUME Shown PROVE Shown'
      BY <1>1, <2>3, <3>1, <3>2, <3>6, <3>7, Geometry DEF Shown, cursor
    <3> QED
      BY <1>1, <2>1, <2>2, <2>3, <3>3, <3>5, <3>7 DEF EchoInv, IInv
  <2> QED
    BY <2>5, <2>6
<1> QED
  BY <1>2, <1>3

\* Steps after which no read is pending, or that change nothing.
LEMMA OtherEcho ==
  ASSUME IInv, EchoTypes', Enter \/ Prints \/ UNCHANGED <<vars, lineVars>> PROVE EchoInv'
<1>1. CASE Enter
  <2>1. reading' = FALSE /\ ~echoing /\ UNCHANGED <<echoing, prompt, crossed>>
    BY <1>1 DEF Enter, Recall, marks
  <2> QED
    BY <2>1 DEF IInv, EchoInv
<1>2. CASE Prints
  <2>1. /\ reading = FALSE /\ reading' = FALSE /\ echoing' = echoing
        /\ prompt' = 0 /\ crossed' = FALSE
    BY <1>2 DEF Prints, IInv, EchoInv
  <2> QED
    BY <2>1 DEF IInv, EchoInv
<1>3. CASE UNCHANGED <<vars, lineVars>>
  BY <1>3 DEF vars, lineVars, marks, IInv, EchoInv, Drift, RowStart, Shown, Ahead, cursor
<1> QED
  BY <1>1, <1>2, <1>3

LEMMA InitIInv == InitLine => IInv
<1> SUFFICES ASSUME InitLine PROVE IInv
  OBVIOUS
<1>1. /\ line = <<>> /\ longest = 0 /\ eax = 0 /\ edx = 0
      /\ buffer = [i \in Bytes |-> "caller's"]
  BY DEF InitLine
<1>2. line \in Seq(Letters) /\ Len(line) = 0 /\ 0 \in Bytes /\ 0 \in 0..MaxLine
  BY <1>1 DEF Bytes
<1>3. LineInBuffer
  BY <1>1, <1>2 DEF LineInBuffer
<1>4. LineInv
  BY <1>1, <1>2, <1>3 DEF InitLine, LineInv
<1>5. ~reading /\ ~echoing /\ prompt = 0 /\ EchoTypes
  BY Zenon DEF InitLine, EchoTypes
<1>6. EchoInv
  BY <1>5 DEF EchoInv
<1> QED
  BY <1>4, <1>6, ConsoleInit DEF InitLine, IInv

LEMMA NextIInv == ASSUME IInv, [NextLine]_<<vars, lineVars>> PROVE IInv'
<1>1. ConsoleInv'
  BY StepsOnConsole, ConsoleNext DEF IInv
<1>2. ASSUME Call \/ Prints PROVE LineInv'
  BY <1>2, EmptyLine DEF Call, Prints
<1>3. LineInv'
  BY <1>2, LetterInv, BackspaceInv, EnterInv, SameLine DEF NextLine
<1>4. EchoInv'
  <2>1. EchoTypes'
    BY EchoTypesInv DEF IInv, EchoInv
  <2> QED
    BY <2>1, CallEcho, LetterEcho, EchoEcho, BackspaceEcho, OtherEcho DEF NextLine
<1> QED
  BY <1>1, <1>3, <1>4 DEF IInv

\* The invariant the theorems below rest on.
THEOREM Invariant == SpecLine => []IInv
  BY InitIInv, NextIInv, PTL DEF SpecLine

\* Type correctness of the console, for any size of the screen.
THEOREM TypeCorrect == SpecLine => []TypeOK
  BY Invariant, PTL DEF IInv, ConsoleInv

\* The header stays, whatever is printed, scrolled or removed (screen.c:543).
THEOREM HeaderStays == SpecLine => []HeaderIntact
  BY Invariant, PTL DEF IInv, ConsoleInv

\* printf writes where the cursor is, but for the two cases the property names
\* (screen.c:467, :488).
THEOREM PrintsWhereCursorIs == SpecLine => []PrintsAtCursor
  BY Invariant, PTL DEF IInv, ConsoleInv

\* What is printed overwrites nothing: there is nothing behind the cursor
\* (screen.c:543, :488).
THEOREM NothingBehindCursor == SpecLine => []EmptyBehindCursor
  BY Invariant, PTL DEF IInv, ConsoleInv

\* The buffer of the caller holds the line, and no more than three bytes behind
\* it are lost, for lines of any length (keyboard.c:277, memory.c:32).
THEOREM BufferHoldsLine == SpecLine => []LineInBuffer
  BY Invariant, PTL DEF IInv, LineInv

\* What was typed and not taken back is what the screen shows behind the prompt,
\* over the ends of rows and through scrolls, until a backspace in column 0 parts
\* the screen and the buffer (keyboard.c:277, screen.c:488).
THEOREM EchoShowsTheLine == SpecLine => []EchoShowsLine
<1>1. IInv => EchoShowsLine
  <2> SUFFICES ASSUME IInv, reading, ~echoing, ~crossed, ~skewed
               PROVE  /\ cursor = prompt + Len(line)
                      /\ \A i \in Cells : i >= prompt /\ i < cursor /\ i >= Offset(row_header, 0)
                           => screen[i] = "char"
    BY DEF EchoShowsLine, cursor
  <2> DEFINE length == Len(line)
  <2>1. /\ cursor \in Nat /\ prompt \in Int /\ length \in 0..MaxLine /\ Shown
        /\ Ahead = 0 /\ Ahead = cursor - prompt - length + (IF echoing THEN 1 ELSE 0)
    BY EchoIs, Zenon
  <2> HIDE DEF length
  <2>2. cursor = prompt + length
    BY <2>1
  <2> QED
    BY <2>1, <2>2, Geometry DEF Shown, length
<1> QED
  BY <1>1, Invariant, PTL

\* No sequence of letters and backspaces, over the ends of rows and behind the
\* last column, takes back what was on the screen before the read
\* (keyboard.c:263, screen.c:488).
THEOREM PromptIsKept == SpecLine => []PromptStays
<1>1. IInv => PromptStays
  BY DEF IInv, EchoInv, Drift, PromptStays, cursor
<1> QED
  BY <1>1, Invariant, PTL
=============================================================================
