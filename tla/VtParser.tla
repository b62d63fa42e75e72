------------------------------ MODULE VtParser ------------------------------
(***************************************************************************)
(* The simulator fed one byte after the other                              *)
(* (src/core/terminal/simulator.rs, AnsiParser): any byte may follow any   *)
(* other, as the output of a session and of its commands does.             *)
(***************************************************************************)
EXTENDS Vt

CONSTANTS
  Width, Height,
  Bytes,        \* the bytes fed
  Plain,        \* those of them that also stand outside a sequence
  MaxParams     \* bound: the bytes of a sequence's parameters

VARIABLES vt, parser
vtVars == <<vt, parser>>

VtInit == vt = NewTerminal(Width, Height) /\ parser = NewParser

(* The simulator keeps no scrollback. *)
Feed(b) ==
  /\ parser.state = "Ground" => b \in Plain
  /\ b = "tail" => parser.partial
  /\ Len(parser.buf) < MaxParams \/ b \notin DOMAIN Digits \cup Separators \cup Intermediates
  /\ LET after == Parse(vt, parser, b)
     IN /\ vt' = [after[1] EXCEPT !.gone = <<>>]
        /\ parser' = after[2]

VtNext == \E b \in Bytes : Feed(b)
VtSpec == VtInit /\ [][VtNext]_vtVars

(***************************************************************************)
(* A wrap is only ever pending at the last column, whatever escape moved   *)
(* the cursor, scrolled or restored it in between: the next glyph would    *)
(* otherwise jump to a new row in the middle of a line.                    *)
(***************************************************************************)
WrapIsPendingAtTheEdge ==
  /\ vt.row \in Rows(vt) /\ vt.col \in Cols(vt)
  /\ vt.wrap => vt.col = Width - 1

(***************************************************************************)
(* No byte of an escape sequence is ever shown: while one is being read,   *)
(* a cell keeps a glyph of its column or becomes blank.                    *)
(***************************************************************************)
EscapeIsSilent ==
  parser.state # "Ground" =>
    \A r \in Rows(vt), c \in Cols(vt) :
      \/ vt'.grid[r][c] = Blank
      \/ \E s \in Rows(vt) : vt'.grid[r][c] = vt.grid[s][c]

(***************************************************************************)
(* What is written stands where it was written: no escape sequence shows   *)
(* up among it or tears its line in two.                                   *)
(***************************************************************************)
TextStaysInPlace == [][WrapIsPendingAtTheEdge' /\ EscapeIsSilent]_vtVars
=============================================================================
