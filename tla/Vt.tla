--------------------------------- MODULE Vt ---------------------------------
(***************************************************************************)
(* The terminal viv draws on, as the repository's own simulator defines it *)
(* (src/core/terminal/simulator.rs): a grid of cells, a cursor whose wrap  *)
(* is deferred at the last column, and one operator per control sequence.  *)
(* Rows and columns count from 0, as in the source.  A terminal is a       *)
(* record; the rows that scroll off its top are kept in "gone", the native *)
(* scrollback the simulator drops and the program relies on.  A style is   *)
(* reduced to one bit, bold.                                               *)
(***************************************************************************)
EXTENDS Integers, Sequences, SequencesExt, TLC

Cell(ch, bold) == [ch |-> ch, bold |-> bold]
Blank == Cell(" ", FALSE)

NewTerminal(width, height) ==
  [width |-> width, height |-> height,
   grid |-> [r \in 0..(height - 1) |-> [c \in 0..(width - 1) |-> Blank]],
   row |-> 0, col |-> 0, wrap |-> FALSE, bold |-> FALSE, saved |-> <<>>, gone |-> <<>>]

Rows(t) == 0..(t.height - 1)
Cols(t) == 0..(t.width - 1)
BlankRow(t) == [c \in Cols(t) |-> Blank]

Clamped(n, hi) == IF n < 0 THEN 0 ELSE IF n > hi THEN hi ELSE n

(* CUP counts from 1 and takes 0 as 1. *)
MoveTo(t, row, col) ==
  [t EXCEPT !.row = Clamped(row - 1, t.height - 1), !.col = Clamped(col - 1, t.width - 1),
            !.wrap = FALSE]

MoveBy(t, down, right) ==
  [t EXCEPT !.row = Clamped(t.row + down, t.height - 1),
            !.col = Clamped(t.col + right, t.width - 1), !.wrap = FALSE]

ScrollUp(t, n) ==
  [t EXCEPT !.grid = [r \in Rows(t) |-> IF r + n < t.height THEN t.grid[r + n] ELSE BlankRow(t)],
            !.gone = t.gone \o [k \in 1..n |-> IF k <= t.height THEN t.grid[k - 1] ELSE BlankRow(t)],
            !.wrap = FALSE]

(* SD leaves the deferred wrap pending. *)
ScrollDown(t, n) ==
  [t EXCEPT !.grid = [r \in Rows(t) |-> IF r < n THEN BlankRow(t) ELSE t.grid[r - n]]]

NextRow(t) == IF t.row + 1 >= t.height THEN ScrollUp(t, 1) ELSE [t EXCEPT !.row = @ + 1]

(* Mutant: the deferred wrap outlives a carriage return. *)
ReturnKeepingWrap(t) == [t EXCEPT !.col = 0]

LineFeed(t) == NextRow([t EXCEPT !.wrap = FALSE])
Return(t) == [t EXCEPT !.col = 0, !.wrap = FALSE]

(* A glyph waits at the last column: only the next one moves to a new row. *)
Wrapped(t) == IF t.wrap THEN [NextRow([t EXCEPT !.col = 0]) EXCEPT !.wrap = FALSE] ELSE t

Put(t, ch) ==
  LET u == Wrapped(t)
      drawn == [u EXCEPT !.grid[u.row][u.col] = Cell(ch, u.bold)]
  IN IF u.col + 1 >= t.width THEN [drawn EXCEPT !.wrap = TRUE] ELSE [drawn EXCEPT !.col = @ + 1]

Cells(t) == Rows(t) \X Cols(t)
InRow(t) == {t.row} \X Cols(t)
After(t) == {p \in Cells(t) : p[1] > t.row \/ (p[1] = t.row /\ p[2] >= t.col)}
Before(t) == {p \in Cells(t) : p[1] < t.row \/ (p[1] = t.row /\ p[2] <= t.col)}

Erase(t, gone) ==
  [t EXCEPT !.grid = [r \in Rows(t) |-> [c \in Cols(t) |->
                        IF <<r, c>> \in gone THEN Blank ELSE t.grid[r][c]]]]

(* ED: to the end, to the cursor, everything. *)
EraseDisplay(t, mode) ==
  CASE mode = 0 -> Erase(t, After(t))
    [] mode = 1 -> Erase(t, Before(t))
    [] mode \in {2, 3} -> [Erase(t, Cells(t)) EXCEPT !.wrap = FALSE]
    [] OTHER -> t

(* EL: with a wrap pending there is nothing right of the cursor to erase. *)
EraseLine(t, mode) ==
  CASE mode = 0 /\ ~t.wrap -> Erase(t, InRow(t) \cap After(t))
    [] mode = 1 -> Erase(t, InRow(t) \cap Before(t))
    [] mode = 2 -> Erase(t, InRow(t))
    [] OTHER -> t

Save(t) == [t EXCEPT !.saved = <<t.row, t.col>>]
Restore(t) ==
  IF t.saved = <<>> THEN t
  ELSE [t EXCEPT !.row = t.saved[1], !.col = t.saved[2], !.wrap = FALSE]

(* The glyphs of a text, one after the other. *)
WriteText(t, text) == FoldLeft(LAMBDA u, ch : Put(u, ch), t, text)

(***************************************************************************)
(* The byte parser of the simulator.  A byte is named: an escape, a        *)
(* control, a digit, a separator, an intermediate, a final letter, a       *)
(* printable glyph, or a part of a two-byte glyph ("lead", "tail").  The   *)
(* buffer is emptied when a sequence ends, in the source when one starts.  *)
(***************************************************************************)
Digits == ("0" :> 0) @@ ("1" :> 1) @@ ("2" :> 2) @@ ("5" :> 5) @@ ("7" :> 7) @@ ("8" :> 8)
Separators == {":", ";"}
Intermediates == {"!"}
Finals == {"m", "H", "J", "K", "A", "B", "C", "D", "S", "T", "a", "[", "]"}
Controls == {"BEL", "BS", "LF", "CR"}

NewParser == [state |-> "Ground", buf |-> <<>>, partial |-> FALSE]

(* The digits a parameter starts with; without any, the value is 0. *)
DigitsAt(buf, i) ==
  CHOOSE n \in 0..Len(buf) :
    /\ \A k \in i..(i + n - 1) : k <= Len(buf) /\ buf[k] \in DOMAIN Digits
    /\ (i + n > Len(buf) \/ buf[i + n] \notin DOMAIN Digits)
ParamAt(buf, i) ==
  FoldLeft(LAMBDA v, d : v * 10 + Digits[d], 0, SubSeq(buf, i, i + DigitsAt(buf, i) - 1))
Param(buf) == ParamAt(buf, 1)
AtLeastOne(n) == IF n = 0 THEN 1 ELSE n

(* The list of an SGR ends where neither a digit nor a separator stands. *)
Params(buf) ==
  LET more[i \in 1..(Len(buf) + 2)] ==
        LET n == DigitsAt(buf, i)
            next == i + n
        IN <<ParamAt(buf, i)>>
             \o (IF next <= Len(buf) /\ buf[next] \in Separators THEN more[next + 1] ELSE <<>>)
  IN more[1]

(* A colour given as 38;5;n or 38;2;r;g;b takes its numbers with it. *)
Taken(ps, i) ==
  IF ps[i] \notin {38, 48} THEN 1
  ELSE IF i + 2 <= Len(ps) /\ ps[i + 1] = 5 THEN 3
  ELSE IF i + 4 <= Len(ps) /\ ps[i + 1] = 2 THEN 5
  ELSE 1

Sgr(t, ps) ==
  LET bold[i \in 1..(Len(ps) + 1), b \in BOOLEAN] ==
        IF i > Len(ps) THEN b
        ELSE bold[i + Taken(ps, i),
                  IF ps[i] = 1 THEN TRUE ELSE IF ps[i] \in {0, 22} THEN FALSE ELSE b]
  IN [t EXCEPT !.bold = bold[1, t.bold]]

Cup(t, buf) ==
  LET next == DigitsAt(buf, 1) + 1
      second == next < Len(buf) /\ buf[next] = ";"
  IN MoveTo(t, Param(buf), IF second THEN ParamAt(buf, next + 1) ELSE 1)

(* execute_csi; any other final byte, as the h of ESC[?25h, does nothing.  *)
Execute(t, buf, final) ==
  LET n == AtLeastOne(Param(buf)) IN
  CASE final = "m" -> Sgr(t, Params(buf))
    [] final = "H" -> Cup(t, buf)
    [] final = "J" -> EraseDisplay(t, Param(buf))
    [] final = "K" -> EraseLine(t, Param(buf))
    [] final = "A" -> MoveBy(t, -n, 0)
    [] final = "B" -> MoveBy(t, n, 0)
    [] final = "C" -> MoveBy(t, 0, n)
    [] final = "D" -> MoveBy(t, 0, -n)
    [] final = "S" -> ScrollUp(t, n)
    [] final = "T" -> ScrollDown(t, n)
    [] OTHER -> t

Control(t, b) ==
  CASE b = "BS" -> MoveBy(t, 0, -1) [] b = "CR" -> Return(t)
    [] b = "LF" -> LineFeed(t) [] OTHER -> t

(* A step of the parser: the terminal and the parser after one more byte.  *)
(* A lead byte is remembered across controls and escapes.                  *)
Ground(t, p, b) ==
  CASE b = "ESC" -> <<t, [p EXCEPT !.state = "Escape"]>>
    [] b \in Controls -> <<Control(t, b), p>>
    [] b = "lead" -> <<t, [p EXCEPT !.partial = TRUE]>>
    [] OTHER -> <<Put(t, IF b = "tail" /\ p.partial THEN "u" ELSE b),
                  [p EXCEPT !.partial = FALSE]>>

(* Mutant: a byte that starts no known sequence is printed. *)
EscapePrinting(t, p, b) ==
  <<IF b \in {"7", "8", "["} THEN t ELSE Put(t, b),
    [p EXCEPT !.state = IF b = "[" THEN "CsiEntry" ELSE "Ground"]>>

Escape(t, p, b) ==
  <<CASE b = "7" -> Save(t) [] b = "8" -> Restore(t) [] OTHER -> t,
    [p EXCEPT !.state = CASE b = "[" -> "CsiEntry" [] b = "]" -> "OscString" [] OTHER -> "Ground"]>>

(* Entry, parameters and intermediates: a byte of no class is skipped, as  *)
(* the "?" of the private modes.                                           *)
Csi(t, p, b) ==
  LET kept == IF p.state = "CsiEntry" THEN <<b>> ELSE Append(p.buf, b) IN
  IF b \in DOMAIN Digits \cup Separators /\ p.state # "CsiIntermediate"
  THEN <<t, [p EXCEPT !.buf = kept, !.state = "CsiParam"]>>
  ELSE IF b \in Intermediates
  THEN <<t, [p EXCEPT !.buf = kept, !.state = "CsiIntermediate"]>>
  ELSE IF b \in Finals
  THEN <<Execute(t, IF p.state = "CsiEntry" THEN <<>> ELSE p.buf, b),
         [p EXCEPT !.state = "Ground", !.buf = <<>>]>>
  ELSE <<t, p>>

Osc(t, p, b) == <<t, IF b = "BEL" THEN [p EXCEPT !.state = "Ground"] ELSE p>>

Parse(t, p, b) ==
  CASE p.state = "Ground" -> Ground(t, p, b)
    [] p.state = "Escape" -> Escape(t, p, b)
    [] p.state = "OscString" -> Osc(t, p, b)
    [] OTHER -> Csi(t, p, b)
=============================================================================
