------------------------------- MODULE Screen -------------------------------
(***************************************************************************)
(* What a vt100 screen shows: a sequence of rows of cells, and what the    *)
(* operations of the console are meant to do to it.  Nothing here knows of *)
(* the display memory, its origin or its scrolling hardware.               *)
(***************************************************************************)
EXTENDS Naturals, Sequences, SequencesExt

CONSTANTS Columns, Lines, Blank

Row(y, g) == g[y + 1]
BlankRow == [i \in 1 .. Columns |-> Blank]

\* Rows top .. bottom - 1 move up by one, the last of them becomes blank.
ScrollUp(g, top, bottom) == InsertAt(RemoveAt(g, top + 1), bottom, BlankRow)

\* They move down by one, the first of them becomes blank.
ScrollDown(g, top, bottom) == InsertAt(RemoveAt(g, bottom), top + 1, BlankRow)

SetCell(g, x, y, cell) == [g EXCEPT ![y + 1][x + 1] = cell]

\* The cells whose column and row satisfy Erased become blank.
Erase(g, Erased(_, _)) ==
    [r \in 1 .. Lines |-> [c \in 1 .. Columns |->
        IF Erased(c - 1, r - 1) THEN Blank ELSE g[r][c]]]

\* A blank cell is inserted at the cursor; the last cell of the row is lost.
InsertCell(g, x, y) ==
    IF x >= Columns THEN g
    ELSE [g EXCEPT ![y + 1] = SubSeq(InsertAt(@, x + 1, Blank), 1, Columns)]

DeleteCell(g, x, y) ==
    IF x >= Columns THEN g ELSE [g EXCEPT ![y + 1] = Append(RemoveAt(@, x + 1), Blank)]

=============================================================================
