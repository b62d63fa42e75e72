------------------------------- MODULE Editor -------------------------------
(***************************************************************************)
(* The line editor of the input box (src/tui/terminal.rs, LineEditor) with *)
(* what the session does to it when a line is submitted                    *)
(* (src/tui/session.rs, handle_key, from "Normal editing" on).             *)
(* Text is a sequence of bytes, "lead" and "tail" making one character;    *)
(* rows, columns and history entries count from 0 as in the source.  The   *)
(* field original is emptied once no key can read it any more.             *)
(***************************************************************************)
EXTENDS Integers, Sequences, SequencesExt

CONSTANTS
  Chars,        \* what can be typed, as sequences of bytes
  MaxBytes,     \* bound: the length of a text; a query has one character
  MaxHistory    \* bound: the submitted lines kept

VARIABLES
  lines, row, col, mode, history, historyIdx, original, searchQuery, searchResult,
  draft,        \* history: what was being typed when browsing began
  spoiled       \* history: browsing went on after a clear or a second search

textVars == <<lines, row, col>>
searchVars == <<searchQuery, searchResult>>
editorVars == <<textVars, mode, history, historyIdx, original, searchVars, draft, spoiled>>

(* A text: no character's tail stands where none has begun. *)
Byte == {"NL"} \cup UNION {ToSet(ch) : ch \in Chars}
IsText(text) ==
  text \in Seq(Byte) /\ \A i \in DOMAIN text : text[i] = "tail" => i > 1 /\ text[i - 1] # "NL"
ASSUME EditorAssumption == \A ch \in Chars : IsText(ch)

None == -1
Empty == <<<<>>>>
Line == lines[row + 1]
Join(ls) ==
  LET upTo[n \in 1..Len(ls)] == IF n = 1 THEN ls[1] ELSE upTo[n - 1] \o <<"NL">> \o ls[n]
  IN upTo[Len(ls)]
Content == Join(lines)
IsEmpty == lines = Empty

(* str::lines: an empty line at the end does not count. *)
AddByte(ls, b) == IF b = "NL" THEN Append(ls, <<>>) ELSE [ls EXCEPT ![Len(ls)] = Append(@, b)]
Split(text) ==
  LET upTo[n \in 0..Len(text)] == IF n = 0 THEN Empty ELSE AddByte(upTo[n - 1], text[n])
  IN upTo[Len(text)]
LinesOf(text) ==
  LET split == Split(text)
  IN IF Len(split) > 1 /\ Last(split) = <<>> THEN Front(split) ELSE split

Entry(i) == history[Len(history) - i]
Blank(text) == \A i \in DOMAIN text : text[i] \in {" ", "NL"}

(* No byte in the middle of a character. *)
OnBoundary(line, c) == c \in 0..Len(line) /\ (c < Len(line) => line[c + 1] # "tail")
PrevBoundary(line, c) == CHOOSE p \in 0..(c - 1) : OnBoundary(line, p) /\ \A q \in (p + 1)..(c - 1) : ~OnBoundary(line, q)
NextBoundary(line, c) == CHOOSE p \in (c + 1)..Len(line) : OnBoundary(line, p) /\ \A q \in (c + 1)..(p - 1) : ~OnBoundary(line, q)
Cut(line, from, to) == SubSeq(line, 1, from) \o SubSeq(line, to + 1, Len(line))

(***************************************************************************)
(* A text is a record, the editor after exit_history.                      *)
(***************************************************************************)
Text(ls, r, c) == [lines |-> ls, row |-> r, col |-> c]
Shown(text) == LET ls == LinesOf(text) IN Text(ls, 0, Len(ls[1]))
Present == Text(lines, row, col)

(* What was typed before comes back as one line, whatever it held. *)
ExitHistory == IF historyIdx = None THEN Present ELSE Text(<<original>>, 0, Len(original))

Become(t) == lines' = t.lines /\ row' = t.row /\ col' = t.col

(***************************************************************************)
(* Editing keys: each of them first leaves the history.                    *)
(***************************************************************************)
EditorInit ==
  /\ lines = Empty /\ row = 0 /\ col = 0 /\ mode = "Chat"
  /\ history = <<>> /\ historyIdx = None /\ original = <<>>
  /\ searchQuery = <<>> /\ searchResult = None
  /\ draft = <<>> /\ spoiled = FALSE

Searching == mode = "HistorySearch"
Browsing == historyIdx # None \/ Searching

(* History variables only: no key reads them. *)
Remember ==
  /\ draft' = IF ~Browsing' THEN <<>> ELSE IF Browsing THEN draft ELSE Content
  /\ spoiled' = /\ Browsing /\ Browsing'
                /\ spoiled \/ (Searching' /\ ~Searching) \/ (~Searching' /\ lines' = Empty)

Inserted(t, ch) ==
  Text([t.lines EXCEPT ![t.row + 1] = SubSeq(@, 1, t.col) \o ch \o SubSeq(@, t.col + 1, Len(@))],
       t.row, t.col + Len(ch))

NewLine(t) ==
  LET line == t.lines[t.row + 1]
  IN Text(SubSeq(t.lines, 1, t.row) \o <<SubSeq(line, 1, t.col), SubSeq(line, t.col + 1, Len(line))>>
            \o SubSeq(t.lines, t.row + 2, Len(t.lines)),
          t.row + 1, 0)

(* Two lines become one, the cursor where they meet. *)
Joined(t, upper, r, c) ==
  Text(SubSeq(t.lines, 1, upper) \o <<t.lines[upper + 1] \o t.lines[upper + 2]>>
         \o SubSeq(t.lines, upper + 3, Len(t.lines)), r, c)

Backspaced(t) ==
  LET line == t.lines[t.row + 1] IN
  IF t.col > 0
  THEN LET p == PrevBoundary(line, t.col)
       IN Text([t.lines EXCEPT ![t.row + 1] = Cut(line, p, t.col)], t.row, p)
  ELSE IF t.row > 0 THEN Joined(t, t.row - 1, t.row - 1, Len(t.lines[t.row])) ELSE t

Deleted(t) ==
  LET line == t.lines[t.row + 1] IN
  IF t.col < Len(line)
  THEN Text([t.lines EXCEPT ![t.row + 1] = Cut(line, t.col, NextBoundary(line, t.col))], t.row, t.col)
  ELSE IF t.row + 1 < Len(t.lines) THEN Joined(t, t.row, t.row, t.col) ELSE t

(* Mutant: the cursor moves by a byte. *)
MovedLeftByAByte(t) ==
  IF t.col > 0 THEN Text(t.lines, t.row, t.col - 1)
  ELSE IF t.row > 0 THEN Text(t.lines, t.row - 1, Len(t.lines[t.row])) ELSE t

MovedLeft(t) ==
  IF t.col > 0 THEN Text(t.lines, t.row, PrevBoundary(t.lines[t.row + 1], t.col))
  ELSE IF t.row > 0 THEN Text(t.lines, t.row - 1, Len(t.lines[t.row])) ELSE t

MovedRight(t) ==
  LET line == t.lines[t.row + 1] IN
  IF t.col < Len(line) THEN Text(t.lines, t.row, NextBoundary(line, t.col))
  ELSE IF t.row + 1 < Len(t.lines) THEN Text(t.lines, t.row + 1, 0) ELSE t

Edits(t, ch) ==
  {Inserted(t, ch), NewLine(t), Backspaced(t), Deleted(t), MovedLeft(t), MovedRight(t),
   Text(t.lines, t.row, 0), Text(t.lines, t.row, Len(t.lines[t.row + 1]))}

(* The first character of an empty line chooses the mode. *)
ModeAfter(t, u, ch) ==
  IF u = Inserted(t, ch) /\ t.lines[t.row + 1] = <<>> /\ ch \in {<<"/">>, <<":">>}
  THEN IF ch = <<"/">> THEN "SlashCommand" ELSE "ColonCommand" ELSE mode

Edit(ch) ==
  /\ ~Searching
  /\ \E u \in Edits(ExitHistory, ch) :
       /\ Become(u) /\ mode' = ModeAfter(ExitHistory, u, ch)
  /\ Len(Join(lines')) <= MaxBytes
  /\ historyIdx' = None /\ original' = <<>>
  /\ UNCHANGED <<history, searchVars>> /\ Remember

Cleared == Text(Empty, 0, 0)

(* clear() leaves historyIdx and original alone. *)
Clear ==
  /\ ~Searching
  /\ Become(Cleared) /\ mode' = "Chat"
  /\ UNCHANGED <<history, historyIdx, original, searchVars>> /\ Remember

(***************************************************************************)
(* Enter, and what the session does with the line.                         *)
(***************************************************************************)
Submitted(text) ==
  /\ Become(Cleared) /\ mode' = "Chat"
  /\ IF mode = "Chat" /\ ~Blank(text)
     THEN /\ Len(history) < MaxHistory
          /\ history' = Append(history, text) /\ historyIdx' = None /\ original' = <<>>
     ELSE UNCHANGED <<history, historyIdx, original>>
  /\ searchQuery' = <<>> /\ searchResult' = None /\ Remember

Enter ==
  IF Searching
  THEN Submitted(IF searchResult = None THEN Content ELSE Join(LinesOf(history[searchResult])))
  ELSE Submitted(Content)

(***************************************************************************)
(* The history                                                             *)
(***************************************************************************)
Up ==
  /\ ~Searching /\ historyIdx + 1 < Len(history)
  /\ historyIdx' = historyIdx + 1
  /\ original' = IF historyIdx = None THEN Content ELSE original
  /\ Become(Shown(Entry(historyIdx + 1)))
  /\ UNCHANGED <<mode, history, searchVars>> /\ Remember

(* From an older entry, the entry shown is the one that was selected, not  *)
(* the newer one that becomes selected.                                    *)
Down ==
  /\ ~Searching /\ historyIdx # None
  /\ historyIdx' = historyIdx - 1
  /\ IF historyIdx = 0 THEN Become(Text(<<original>>, 0, Len(original)))
     ELSE Become(Shown(Entry(historyIdx)))
  /\ original' = IF historyIdx = 0 THEN <<>> ELSE original
  /\ UNCHANGED <<mode, history, searchVars>> /\ Remember

(***************************************************************************)
(* Searching: searchResult is the entry found, by its place in history.    *)
(***************************************************************************)
CtrlR ==
  /\ ~Searching
  /\ original' = Content /\ mode' = "HistorySearch"
  /\ searchQuery' = <<>> /\ searchResult' = None
  /\ UNCHANGED <<textVars, history, historyIdx>> /\ Remember

HasPart(text, query) ==
  \E i \in 0..(Len(text) - Len(query)) : SubSeq(text, i + 1, i + Len(query)) = query

(* The newest entry that has it. *)
Found(query) ==
  LET hits == {i \in DOMAIN history : HasPart(history[i], query)}
  IN IF query = <<>> \/ hits = {} THEN None ELSE CHOOSE i \in hits : \A j \in hits : j <= i

Search(query) ==
  /\ Searching
  /\ searchQuery' = query /\ searchResult' = Found(query)
  /\ historyIdx' = IF Found(query) = None THEN None ELSE Len(history) - Found(query)
  /\ UNCHANGED <<textVars, mode, history, original>> /\ Remember

SearchChar(ch) == searchQuery = <<>> /\ Search(searchQuery \o ch)
SearchBackspace ==
  searchQuery # <<>> /\ Search(SubSeq(searchQuery, 1, PrevBoundary(searchQuery, Len(searchQuery))))

(* Other matches are not looked for: the one found is shown once more. *)
SearchMove(to) ==
  /\ Searching /\ to \in 0..(Len(history) - 1) /\ historyIdx' = to
  /\ IF searchResult = None THEN UNCHANGED textVars ELSE Become(Shown(history[searchResult]))
  /\ UNCHANGED <<mode, history, original, searchVars>> /\ Remember

(* Mutant: the draft is not put back. *)
ExitSearchShowingResult ==
  /\ Searching
  /\ mode' = "Chat" /\ historyIdx' = None /\ searchQuery' = <<>> /\ searchResult' = None
  /\ original' = <<>> /\ UNCHANGED <<textVars, history>> /\ Remember

(* Escape, Ctrl+C, or Backspace without a query. *)
ExitSearch ==
  /\ Searching
  /\ Become(Text(<<original>>, 0, Len(original)))
  /\ mode' = "Chat" /\ historyIdx' = None /\ searchQuery' = <<>> /\ searchResult' = None
  /\ original' = <<>> /\ UNCHANGED history /\ Remember

(* The session clears the editor after the Interrupt of a Ctrl+C. *)
SearchCtrlC ==
  /\ Searching
  /\ Become(Cleared) /\ mode' = "Chat" /\ historyIdx' = None
  /\ searchQuery' = <<>> /\ searchResult' = None
  /\ original' = <<>> /\ UNCHANGED history /\ Remember

EditorNext ==
  \/ \E ch \in Chars : Edit(ch) \/ SearchChar(ch)
  \/ Enter \/ Clear \/ Up \/ Down \/ CtrlR
  \/ SearchBackspace \/ ExitSearch \/ SearchCtrlC
  \/ SearchMove(historyIdx + 1) \/ SearchMove(historyIdx - 1)

EditorSpec == EditorInit /\ [][EditorNext]_editorVars

(***************************************************************************)
(* Properties                                                              *)
(***************************************************************************)

(***************************************************************************)
(* The cursor is on a line that exists and before a character of it, after *)
(* any walk through lines, history and searches: every key indexes the     *)
(* text with it and would panic the UI thread.                             *)
(***************************************************************************)
CursorIsOnText == row \in 0..(Len(lines) - 1) /\ OnBoundary(Line, col)

(***************************************************************************)
(* Leaving the history or a search brings back what was being typed before *)
(* it, with the edit of the key that left.  Not so after a clear or a      *)
(* command in between, or a search begun from an entry.                    *)
(***************************************************************************)
DraftComesBack ==
  [][Browsing /\ ~Browsing' /\ ~spoiled /\ Content' # <<>> =>
       \/ IsPrefix(Content', draft)
       \/ IsPrefix(draft, Content')]_editorVars
=============================================================================
