------------------------------- MODULE Console -------------------------------
(***************************************************************************)
(* The console driver, kernel/chr_drv/console.c: con_write's interpreter   *)
(* of escape sequences and the operations on the display memory.           *)
(*                                                                         *)
(* Addresses count cells from video_mem_start, so that a row is Columns    *)
(* long.  A cell is a pair of a character and an attribute.  One call of   *)
(* con_write is not interrupted by another.                                *)
(***************************************************************************)
EXTENDS Integers, Sequences, SequencesExt, FiniteSets, FiniteSetsExt

CONSTANTS
    Columns, Lines,       \* video_num_columns, video_num_lines
    MemRows,              \* rows of display memory, at least Lines
    TabSize,              \* 8; it divides 80
    NPAR,
    MaxChars              \* bound: characters of a behaviour

VARIABLE con

\* The characters of cells are numbers: 32 is a space, 97 an "a"; those of
\* the first screen tell its cells apart.
Blank == <<32, 7>>
S == INSTANCE Screen

MemEnd == MemRows * Columns

\* A screen with something in every cell, as far as it can be seen.
Cell(a) == <<100 + a, 7>>

(***************************************************************************)
(* con_init, and any cursor, scrolling region and origin that earlier      *)
(* output can have left.                                                   *)
(***************************************************************************)
Init ==
    \E ega \in BOOLEAN, x \in 0 .. Columns, y \in 0 .. Lines - 1,
       top \in 0 .. Lines - 1, bottom \in 1 .. Lines, first \in 0 .. MemRows - Lines :
        /\ top < bottom
        /\ ~ ega => first = 0
        /\ con = [ega |-> ega, mem |-> [a \in 0 .. MemEnd - 1 |-> Cell(a)],
                  origin |-> first * Columns, scr_end |-> (first + Lines) * Columns,
                  pos |-> (first + y) * Columns + x,
                  x |-> x, y |-> y, top |-> top, bottom |-> bottom,
                  saved_x |-> 0, saved_y |-> 0, attr |-> 7,
                  state |-> 0, npar |-> 0, par |-> [i \in 0 .. NPAR - 1 |-> 0],
                  chars |-> 0, last |-> "none"]

-----------------------------------------------------------------------------
(* Display memory.                                                         *)

\* rep movsl forwards: count cells from src to dst; rep stosw: count blanks.
Move(m, dst, src, count) ==
    [a \in DOMAIN m |-> IF a \in dst .. dst + count - 1 THEN m[a - dst + src] ELSE m[a]]

Fill(m, start, count) ==
    [a \in DOMAIN m |-> IF a \in start .. start + count - 1 THEN Blank ELSE m[a]]

gotoxy(c, new_x, new_y) ==
    IF new_x \notin 0 .. Columns \/ new_y \notin 0 .. Lines - 1 THEN c
    ELSE [c EXCEPT !.x = new_x, !.y = new_y, !.pos = c.origin + new_y * Columns + new_x]

(***************************************************************************)
(* scrup: an EGA or VGA scrolls the whole screen by moving its origin,     *)
(* until the end of its memory makes it copy the screen back to the start. *)
(***************************************************************************)
scrup(c) ==
    LET hard == [c EXCEPT !.origin = @ + Columns, !.pos = @ + Columns, !.scr_end = @ + Columns]
        kept == (Lines - 1) * Columns
        line == (c.bottom - c.top - 1) * Columns
        at == c.origin + c.top * Columns
    IN  IF c.ega /\ c.top = 0 /\ c.bottom = Lines
        THEN IF hard.scr_end > MemEnd
             THEN [hard EXCEPT !.mem = Fill(Move(@, 0, hard.origin, kept), kept, Columns),
                               !.scr_end = @ - hard.origin, !.pos = @ - hard.origin,
                               !.origin = 0]
             ELSE [hard EXCEPT !.mem = Fill(@, hard.scr_end - Columns, Columns)]
        ELSE [c EXCEPT !.mem = Fill(Move(@, at, at + Columns, line), at + line, Columns)]

\* Slip: the rows above the scrolling region scroll too.
scrdown_whole(c) ==
    [c EXCEPT !.mem = Fill(Move(@, c.origin + Columns, c.origin, (c.bottom - 1) * Columns),
                           c.origin, Columns)]

scrdown(c) ==
    LET line == (c.bottom - c.top - 1) * Columns
        at == c.origin + c.top * Columns
    IN  [c EXCEPT !.mem = Fill(Move(@, at + Columns, at, line), at, Columns)]

lf(c) == IF c.y + 1 < c.bottom THEN [c EXCEPT !.y = @ + 1, !.pos = @ + Columns] ELSE scrup(c)
ri(c) == IF c.y > c.top THEN [c EXCEPT !.y = @ - 1, !.pos = @ - Columns] ELSE scrdown(c)
cr(c) == [c EXCEPT !.pos = @ - c.x, !.x = 0]

back(c) == IF c.x = 0 THEN c ELSE [c EXCEPT !.x = @ - 1, !.pos = @ - 1]
del(c) == IF c.x = 0 THEN c ELSE [back(c) EXCEPT !.mem[c.pos - 1] = Blank]

\* The cursor is behind the last column: it goes to the next line.
wrap(c) == lf([c EXCEPT !.x = @ - Columns, !.pos = @ - Columns])

put(c) ==
    LET w == IF c.x >= Columns THEN wrap(c) ELSE c
    IN  [w EXCEPT !.mem[w.pos] = <<97, c.attr>>, !.pos = @ + 1, !.x = @ + 1]

tab(c) ==
    LET n == TabSize - (c.x % TabSize)
        t == [c EXCEPT !.x = @ + n, !.pos = @ + n]
    IN  IF t.x > Columns THEN wrap(t) ELSE t

csi_J(c, par) ==
    [c EXCEPT !.mem = CASE par = 0 -> Fill(@, c.pos, c.scr_end - c.pos)
                        [] par = 1 -> Fill(@, c.origin, c.pos - c.origin)
                        [] par = 2 -> Fill(@, c.origin, Columns * Lines)
                        [] OTHER -> @]

csi_K(c, par) ==
    [c EXCEPT !.mem = CASE par = 0 -> IF c.x >= Columns THEN @ ELSE Fill(@, c.pos, Columns - c.x)
                        [] par = 1 -> Fill(@, c.pos - c.x, IF c.x < Columns THEN c.x ELSE Columns)
                        [] par = 2 -> Fill(@, c.pos - c.x, Columns)
                        [] OTHER -> @]

Attr(old, par) == IF par \in {0, 27} THEN 7 ELSE IF par \in {1, 4} THEN 15
                  ELSE IF par = 7 THEN 112 ELSE old

csi_m(c) == [c EXCEPT !.attr = FoldLeft(Attr, @, [i \in 1 .. c.npar + 1 |-> c.par[i - 1]])]

insert_char(c) ==
    IF c.x >= Columns THEN c
    ELSE [c EXCEPT !.mem = Fill(Move(@, c.pos + 1, c.pos, Columns - c.x - 1), c.pos, 1)]

delete_char(c) ==
    IF c.x >= Columns THEN c
    ELSE [c EXCEPT !.mem = Fill(Move(@, c.pos, c.pos + 1, Columns - c.x - 1),
                                c.pos + Columns - c.x - 1, 1)]

\* insert_line and delete_line scroll from the cursor to the last line.
Region(c, top, bottom) == [c EXCEPT !.top = top, !.bottom = bottom]

insert_line(c) == Region(scrdown(Region(c, c.y, Lines)), c.top, c.bottom)
delete_line(c) == Region(scrup(Region(c, c.y, Lines)), c.top, c.bottom)

\* csi_at, csi_L, csi_P and csi_M repeat one of them, at most max times.
Once(c, ch) == CASE ch = "L" -> insert_line(c) [] ch = "M" -> delete_line(c)
                 [] ch = "P" -> delete_char(c) [] ch = "@" -> insert_char(c)

Times(c, nr, max, ch) ==
    LET n == IF nr > max THEN max ELSE IF nr = 0 THEN 1 ELSE nr
        after[i \in 0 .. n] == IF i = 0 THEN c ELSE Once(after[i - 1], ch)
    IN  after[n]

save_cur(c) == [c EXCEPT !.saved_x = c.x, !.saved_y = c.y]
restore_cur(c) == gotoxy(c, c.saved_x, c.saved_y)

-----------------------------------------------------------------------------
(* con_write, character by character.                                      *)

Digits == {"0", "1", "2", "7"}
Value(d) == CASE d = "0" -> 0 [] d = "1" -> 1 [] d = "2" -> 2 [] d = "7" -> 7

Letters == {"A", "B", "C", "D", "E", "F", "G", "d", "H", "J", "K", "L", "M", "P",
            "@", "m", "r", "s", "u"}

Plain(c, ch) ==
    CASE ch = "ESC" -> [c EXCEPT !.state = 1]
      [] ch = "LF" -> lf(c)
      [] ch = "CR" -> cr(c)
      [] ch = "ERASE" -> del(c)
      [] ch = "BS" -> back(c)
      [] ch = "TAB" -> tab(c)
      [] ch \in {"BEL"} -> c
      [] OTHER -> put(c)

\* After ESC.  The code compares the column x, not the character, with '7'
\* and '8' (55 and 56).
Escape(c, ch) ==
    LET e == [c EXCEPT !.state = 0]
    IN  CASE ch = "[" -> [e EXCEPT !.state = 2]
          [] ch = "E" -> gotoxy(e, 0, c.y + 1)
          [] ch = "M" -> ri(e)
          [] ch = "D" -> lf(e)
          [] ch = "Z" -> e          \* respond: into the read queue, see Tty
          [] OTHER -> IF c.x = 55 THEN save_cur(e)
                      ELSE IF c.x = 56 THEN restore_cur(e) ELSE e

OrOne(n) == IF n = 0 THEN 1 ELSE n
LessOne(n) == IF n = 0 THEN 0 ELSE n - 1

SetRegion(c) ==
    LET top == LessOne(c.par[0])
        bottom == IF c.par[1] = 0 THEN Lines ELSE c.par[1]
    IN  IF top < bottom /\ bottom <= Lines THEN Region(c, top, bottom) ELSE c

\* The end of a sequence ESC [ par ; ... ch.
Csi(c, ch) ==
    LET p == c.par[0]
    IN  CASE ch = "G" -> gotoxy(c, LessOne(p), c.y)
          [] ch = "A" -> gotoxy(c, c.x, c.y - OrOne(p))
          [] ch = "B" -> gotoxy(c, c.x, c.y + OrOne(p))
          [] ch = "C" -> gotoxy(c, c.x + OrOne(p), c.y)
          [] ch = "D" -> gotoxy(c, c.x - OrOne(p), c.y)
          [] ch = "E" -> gotoxy(c, 0, c.y + OrOne(p))
          [] ch = "F" -> gotoxy(c, 0, c.y - OrOne(p))
          [] ch = "d" -> gotoxy(c, c.x, LessOne(p))
          [] ch = "H" -> gotoxy(c, LessOne(c.par[1]), LessOne(p))
          [] ch = "J" -> csi_J(c, p)
          [] ch = "K" -> csi_K(c, p)
          [] ch \in {"L", "M"} -> Times(c, p, Lines, ch)
          [] ch \in {"P", "@"} -> Times(c, p, Columns, ch)
          [] ch = "m" -> csi_m(c)
          [] ch = "r" -> SetRegion(c)
          [] ch = "s" -> save_cur(c)
          [] ch = "u" -> restore_cur(c)
          [] OTHER -> c

Parameter(c, ch) ==
    IF ch = ";" /\ c.npar < NPAR - 1 THEN [c EXCEPT !.npar = @ + 1]
    ELSE IF ch \in Digits THEN [c EXCEPT !.par[c.npar] = 10 * @ + Value(ch)]
    ELSE Csi([c EXCEPT !.state = 0], ch)

FirstParameter(c, ch) ==
    LET cleared == [c EXCEPT !.par = [i \in 0 .. NPAR - 1 |-> 0], !.npar = 0, !.state = 3]
    IN  IF ch = "?" THEN cleared ELSE Parameter(cleared, ch)

Accept(c, ch) ==
    CASE c.state = 0 -> Plain(c, ch)
      [] c.state = 1 -> Escape(c, ch)
      [] c.state = 2 -> FirstParameter(c, ch)
      [] c.state = 3 -> Parameter(c, ch)

\* The characters worth trying next.
Offered ==
    CASE con.state = 0 -> {"a", "ESC", "LF", "CR", "ERASE", "BS", "TAB", "BEL"}
      [] con.state = 1 -> {"[", "E", "M", "D", "Z", "7"}
      [] con.state = 2 -> {"?", ";", "1", "2", "7"} \cup Letters
      [] con.state = 3 -> {";", "2"} \cup Letters

con_write(ch) ==
    /\ con.chars < MaxChars
    /\ ch \in Offered
    /\ con' = [Accept(con, ch) EXCEPT !.chars = @ + 1, !.last = ch]

Next == \E ch \in {"a", "ESC", "LF", "CR", "ERASE", "BS", "TAB", "BEL", "[", "Z", "?", ";"}
                  \cup Digits \cup Letters : con_write(ch)

Spec == Init /\ [][Next]_con

-----------------------------------------------------------------------------

Visible(c) == [r \in 1 .. Lines |-> [k \in 1 .. Columns |-> c.mem[c.origin + (r - 1) * Columns + k - 1]]]

\* The address of the cursor is its column and row on the part of the display
\* memory that is shown, which lies inside the memory: every write of con_write
\* goes to the cell it is meant for.
PosIsCursor ==
    /\ con.pos = con.origin + con.y * Columns + con.x
    /\ con.x <= Columns /\ con.y < Lines
    /\ con.scr_end = con.origin + Lines * Columns
    /\ con.origin >= 0 /\ con.scr_end <= MemEnd
    /\ con.top < con.bottom /\ con.bottom <= Lines

\* What a line feed does to the screen.
Fed(g, c) == IF c.y + 1 < c.bottom THEN g ELSE S!ScrollUp(g, c.top, c.bottom)

Repeat(g, n, Op(_)) ==
    LET after[i \in 0 .. n] == IF i = 0 THEN g ELSE Op(after[i - 1]) IN after[n]

Least(a, b) == IF a < b THEN a ELSE b

\* The screen a character should leave, from the one before.
Expected(g, c, ch) ==
    LET n == c.par[0]
        sequence == c.state \in {2, 3}
        par == IF c.state = 2 THEN 0 ELSE n
        Before(x, y) == y < c.y \/ (y = c.y /\ x < c.x)
        wraps == ch = "a" /\ c.x >= Columns
        Count(max) == Least(OrOne(par), max)
    IN  CASE c.state = 0 /\ ch = "a" ->
                 S!SetCell(IF wraps THEN Fed(g, c) ELSE g, c.x % Columns,
                           IF wraps /\ c.y + 1 < c.bottom THEN c.y + 1 ELSE c.y, <<97, c.attr>>)
          [] <<c.state, ch>> \in {<<0, "LF">>, <<1, "D">>} -> Fed(g, c)
          [] c.state = 0 /\ ch = "TAB" -> IF c.x + TabSize - (c.x % TabSize) > Columns THEN Fed(g, c) ELSE g
          [] c.state = 0 /\ ch = "ERASE" /\ c.x > 0 -> S!SetCell(g, c.x - 1, c.y, Blank)
          [] c.state = 1 /\ ch = "M" /\ c.y <= c.top -> S!ScrollDown(g, c.top, c.bottom)
          [] sequence /\ ch = "J" /\ par <= 2 ->
                 S!Erase(g, LAMBDA x, y : \/ par # 1 /\ ~ Before(x, y)
                                          \/ par # 0 /\ Before(x, y))
          [] sequence /\ ch = "K" /\ par <= 2 ->
                 S!Erase(g, LAMBDA x, y : y = c.y /\ \/ par # 1 /\ x >= c.x
                                                     \/ par # 0 /\ x < c.x)
          [] sequence /\ ch = "L" ->
                 Repeat(g, Count(Lines), LAMBDA h : S!ScrollDown(h, c.y, Lines))
          [] sequence /\ ch = "M" ->
                 Repeat(g, Count(Lines), LAMBDA h : S!ScrollUp(h, c.y, Lines))
          [] sequence /\ ch = "P" ->
                 Repeat(g, Count(Columns), LAMBDA h : S!DeleteCell(h, c.x, c.y))
          [] sequence /\ ch = "@" ->
                 Repeat(g, Count(Columns), LAMBDA h : S!InsertCell(h, c.x, c.y))
          [] OTHER -> g

\* Whatever the origin, the scrolling region and the cursor are, a character
\* changes what is shown as it should: the address arithmetic, the copies and
\* the hardware scrolling implement Screen.
ShowsScreen == [][Visible(con') = Expected(Visible(con), con, con'.last)]_con

=============================================================================
