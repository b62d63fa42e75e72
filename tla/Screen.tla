------------------------------- MODULE Screen -------------------------------
(***************************************************************************)
(* What the user sees: the live region pinned to the bottom of the         *)
(* terminal and the finished rows written above it                         *)
(* (src/tui/live_region.rs: commit_text, commit_pending, paint, frame;     *)
(* src/tui/terminal.rs: render_frame, cleanup; src/tui/ansi_serialize.rs). *)
(* A live block is the list of its rows, a row is one glyph; the borders   *)
(* of the input box are as wide as the screen.  The terminal is Vt.        *)
(***************************************************************************)
EXTENDS Vt, FiniteSets

CONSTANTS
  Width, Height,
  Marks,        \* the rows the blocks and lines bring, in order: bounds them
  BlockRows,    \* the heights a block may have
  LineCounts    \* the numbers of lines the editor may hold

VARIABLES
  term,         \* the terminal
  blocks,       \* LiveRegion.blocks: rows, and whether it is Committing
  inputLines,   \* lines of the editor
  lastLive,     \* LiveRegion.last_live_rows
  fate,         \* "runs", "left" (cleanup done) or "panicked"
  used,         \* history: how many Marks were taken
  committed,      \* history: the rows committed, in order
  drawn,        \* history: nothing happened since the last frame
  tall          \* history: a frame took the whole screen

screenVars == <<term, blocks, inputLines, lastLive, fate, used, committed, drawn, tall>>

Repeat(ch, n) == [i \in 1..n |-> ch]

(***************************************************************************)
(* Bytes out: buffer_rows_to_ansi and the region's own sequences.          *)
(***************************************************************************)
WriteRow(t, text) == LineFeed(Return(EraseLine(WriteText(t, text), 0)))
WriteRows(t, rows) == FoldLeft(LAMBDA u, text : WriteRow(u, text), t, rows)

(* Mutant: the last row ends with a line feed, like the others. *)
WriteFrameRowsScrolling(t, rows) == WriteRows(t, rows)

(* The last row of a frame ends without its line feed, which would scroll. *)
WriteFrameRows(t, rows) ==
  EraseLine(WriteText(WriteRows(t, Front(rows)), Last(rows)), 0)

(* clear_live_region: up by the rows of the last frame, from wherever the  *)
(* cursor is, and everything from there on is erased.                      *)
Cleared(t) == IF lastLive = 0 THEN t ELSE EraseDisplay(MoveBy(t, -lastLive, 0), 0)

(***************************************************************************)
(* The frame                                                               *)
(***************************************************************************)
BlockRowsOf(live) == FlattenSeq([i \in 1..Len(live) |-> live[i].rows])

InputHeight == IF inputLines + 2 < 3 THEN 3 ELSE IF inputLines + 2 > 8 THEN 8 ELSE inputLines + 2

Border == Repeat("-", Width)
InputRows ==
  <<Border>> \o [i \in 1..(InputHeight - 2) |-> IF i = 1 THEN <<">">> ELSE <<>>] \o <<Border>>

Above(live) == IF live = <<>> THEN <<>> ELSE BlockRowsOf(live) \o <<<<>>>>
Frame(live) == Above(live) \o InputRows \o <<<<"s">>>>

(* Mutant: the rows a taller frame leaves above the new one stay. *)
NoShrunkRows(last, frame) == 0

ShrunkRows(last, frame) == IF last > Len(frame) THEN last - Len(frame) ELSE 0

Painted(t, last, frame) ==
  LET shrunk == ShrunkRows(last, frame)
      start == Height - Len(frame) - shrunk
      wiped == FoldLeft(LAMBDA u, x : LineFeed(Return(EraseLine(u, 2))),
                        MoveTo(t, start + 1, 1), Repeat("", shrunk))
  IN WriteFrameRows(wiped, frame)

(* InputWidget::cursor_position: inside the box while the cursor's line    *)
(* fits in it; the terminal itself clips it below.                         *)
InputTop(live) == Height - Len(Frame(live)) + Len(Above(live)) + 1
CursorRow(live, line) == InputTop(live) + line

(***************************************************************************)
(* Actions                                                                 *)
(***************************************************************************)
ScreenInit ==
  /\ term = NewTerminal(Width, Height)
  /\ blocks = <<>> /\ inputLines = 1 /\ lastLive = 0 /\ fate = "runs"
  /\ used = 0 /\ committed = <<>> /\ drawn = FALSE /\ tall = FALSE

NewRows(n) == [i \in 1..n |-> <<Marks[used + i]>>]

(* A message opens a block: a paragraph, a running tool, a question. *)
AddBlock(n) ==
  /\ fate = "runs" /\ used + n <= Len(Marks)
  /\ blocks' = Append(blocks, [rows |-> NewRows(n), done |-> FALSE])
  /\ used' = used + n /\ drawn' = FALSE
  /\ UNCHANGED <<term, inputLines, lastLive, fate, committed, tall>>

(* A block is finished: it becomes Committing. *)
FinishBlock(i) ==
  /\ fate = "runs" /\ ~blocks[i].done
  /\ blocks' = [blocks EXCEPT ![i].done = TRUE] /\ drawn' = FALSE
  /\ UNCHANGED <<term, inputLines, lastLive, fate, used, committed, tall>>

Edit(n) ==
  /\ fate = "runs" /\ n # inputLines /\ inputLines' = n /\ drawn' = FALSE
  /\ UNCHANGED <<term, blocks, lastLive, fate, used, committed, tall>>

CommitText ==
  /\ fate = "runs" /\ used < Len(Marks)
  /\ term' = LineFeed(Return(WriteText(Cleared(term), NewRows(1)[1])))
  /\ lastLive' = 0 /\ used' = used + 1 /\ committed' = committed \o NewRows(1)
  /\ drawn' = FALSE
  /\ UNCHANGED <<blocks, inputLines, fate, tall>>

(* commit_pending, then paint, then the physical cursor.  A frame taller   *)
(* than the screen does not fit its buffer: writing it panics.             *)
RenderFrame(line) ==
  LET due == SelectSeq(blocks, LAMBDA b : b.done)
      live == SelectSeq(blocks, LAMBDA b : ~b.done)
      flushed == IF due = <<>> THEN term ELSE WriteRows(Cleared(term), BlockRowsOf(due))
      last == IF due = <<>> THEN lastLive ELSE 0
      frame == Frame(live)
  IN /\ fate = "runs" /\ ~drawn /\ line < inputLines
     /\ committed' = committed \o BlockRowsOf(due) /\ blocks' = live
     /\ IF Len(frame) <= Height
        THEN /\ term' = MoveTo(Painted(flushed, last, frame), CursorRow(live, line) + 1, 3)
             /\ lastLive' = Len(frame) /\ drawn' = TRUE /\ UNCHANGED fate
        ELSE /\ term' = flushed /\ lastLive' = last
             /\ fate' = "panicked" /\ UNCHANGED drawn
     /\ tall' = (tall \/ Len(frame) >= Height)
     /\ UNCHANGED <<inputLines, used>>

Cleanup ==
  /\ fate = "runs"
  /\ term' = LineFeed(Return(WriteText(Cleared(term), <<"B">>)))
  /\ fate' = "left" /\ drawn' = FALSE
  /\ UNCHANGED <<blocks, inputLines, lastLive, used, committed, tall>>

ScreenNext ==
  \/ \E n \in BlockRows : AddBlock(n)
  \/ \E i \in DOMAIN blocks : FinishBlock(i)
  \/ \E n \in LineCounts : Edit(n)
  \/ CommitText
  \/ \E line \in 0..(inputLines - 1) : RenderFrame(line)
  \/ Cleanup

ScreenSpec == ScreenInit /\ [][ScreenNext]_screenVars

(***************************************************************************)
(* Properties                                                              *)
(***************************************************************************)
AllRows == term.gone \o [r \in 1..Height |-> term.grid[r - 1]]
HasGlyph(row, g) == \E c \in Cols(term) : row[c].ch = g

(***************************************************************************)
(* After a frame the bottom rows are that frame and nothing of an older    *)
(* one is left above it or in the scrollback, however the region grew,     *)
(* shrank or was committed since: no border, prompt or status line, and    *)
(* of the blocks only rows that were committed, none of them twice.  Once  *)
(* a frame has taken the whole screen, its rows do stay behind.            *)
(***************************************************************************)
FrameIsOnScreen ==
  drawn /\ ~tall =>
    LET frame == Frame(blocks)
        top == Height - Len(frame)
        above == SubSeq(AllRows, 1, Len(AllRows) - Len(frame))
        glyphs == {above[i][c].ch : i \in DOMAIN above, c \in Cols(term)} \ {" "}
    IN /\ \A i \in 1..Len(frame), c \in Cols(term) :
            term.grid[top + i - 1][c].ch = IF c < Len(frame[i]) THEN frame[i][c + 1] ELSE " "
       /\ glyphs \subseteq {committed[k][1] : k \in DOMAIN committed}
       /\ \A g \in glyphs : Cardinality({i \in DOMAIN above : HasGlyph(above[i], g)}) = 1

(***************************************************************************)
(* What was committed stays for the user to scroll back to, in the order   *)
(* it was written.                                                         *)
(***************************************************************************)
CommittedStays ==
  LET kept == SelectSeq(committed, LAMBDA row : \E i \in DOMAIN AllRows : HasGlyph(AllRows[i], row[1]))
  IN kept = committed
=============================================================================
