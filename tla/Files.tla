------------------------------- MODULE Files --------------------------------
(***************************************************************************)
(* The tools that change a file (src/tools/file/edit.rs and write.rs):     *)
(* Edit and MultiEdit read it, replace texts in it and write it back;      *)
(* Write puts another text in its place.  All write with fs::write, which  *)
(* empties the file and then fills it, and may fail or be cut off on the   *)
(* way.  Another program may write the file between any two system calls.  *)
(***************************************************************************)
EXTENDS Integers, Sequences, SequencesExt

CONSTANTS
  Contents,     \* what others write; bound: what is edited
  Patterns,     \* old_string and new_string
  MaxEdits,     \* bound: edits of one MultiEdit
  MaxOthers     \* bound: writes of other programs

VARIABLES
  file,
  call,         \* "none", or the tool that is about to write
  opened,       \* fs::write has emptied the file
  alone,        \* no other program has written the file since
  base,         \* what the tool read
  edits,        \* what the tool was asked
  written,      \* what the tool is about to write
  answer,       \* of the last call: "none", "done", or "error"
  others

filesVars == <<file, call, opened, alone, base, edits, written, answer, others>>

Edit == [old : Patterns \ {<<>>}, new : Patterns, all : BOOLEAN]

FilesInit ==
  /\ file \in Contents /\ call = "none" /\ opened = FALSE /\ alone = TRUE /\ base = <<>> /\ edits = <<>>
  /\ written = <<>> /\ answer = "none" /\ others = 0

(***************************************************************************)
(* matches() and replace() take the first occurrence from the left and go  *)
(* on behind it.                                                           *)
(***************************************************************************)
From(text, i) == SubSeq(text, i, Len(text))
StandsAt(text, old, i) == IsPrefix(old, From(text, i))

RECURSIVE Pieces(_, _, _)
Pieces(text, old, i) ==
  IF i > Len(text) THEN <<text>>
  ELSE IF StandsAt(text, old, i)
       THEN <<SubSeq(text, 1, i - 1)>> \o Pieces(From(text, i + Len(old)), old, 1)
       ELSE Pieces(text, old, i + 1)
Split(text, old) == Pieces(text, old, 1)
Matches(text, old) == Len(Split(text, old)) - 1

(* Mutant: one occurrence is replaced when all were asked for. *)
ReplacedFirst(text, e) ==
  LET parts == Split(text, e.old)
  IN parts[1] \o e.new \o From(text, Len(parts[1]) + Len(e.old) + 1)

Replaced(text, e) ==
  LET parts == Split(text, e.old)
  IN IF e.all
     THEN FoldLeft(LAMBDA done, part : done \o e.new \o part, parts[1], Tail(parts))
     ELSE parts[1] \o e.new \o From(text, Len(parts[1]) + Len(e.old) + 1)

(* One edit, of a text the edits before it have made. *)
Failed(result) == [result EXCEPT !.ok = FALSE]
Edited(result, e) ==
  LET n == Matches(result.text, e.old)
  IN IF ~result.ok \/ n = 0 \/ (n > 1 /\ ~e.all) THEN Failed(result)
     ELSE [ok |-> TRUE, text |-> Replaced(result.text, e)]

(* Mutant: what the edits before the failed one made is written. *)
WriteWhatFits(asked, result) ==
  call' = "Edit" /\ base' = file /\ edits' = asked /\ written' = result.text /\ UNCHANGED answer

(* Edit and MultiEdit: any edit that fails ends the call before it writes. *)
GoOnIfAllFit(asked, result) ==
  IF result.ok
  THEN call' = "Edit" /\ base' = file /\ edits' = asked /\ written' = result.text /\ UNCHANGED answer
  ELSE answer' = "error" /\ UNCHANGED <<call, base, edits, written>>

ReadAndEdit(asked) ==
  /\ call = "none"
  /\ GoOnIfAllFit(asked, FoldLeft(Edited, [ok |-> TRUE, text |-> file], asked))
  /\ UNCHANGED <<file, opened, alone, others>>

Write(text) ==
  /\ call = "none" /\ call' = "Write" /\ written' = text
  /\ UNCHANGED <<file, opened, alone, base, edits, answer, others>>

(* fs::write opens the file, which empties it ...                          *)
Truncate ==
  /\ call # "none" /\ ~opened
  /\ opened' = TRUE /\ file' = <<>>
  /\ UNCHANGED <<call, alone, base, edits, written, answer, others>>

Ends(reply) ==
  /\ answer' = reply /\ call' = "none" /\ opened' = FALSE /\ alone' = TRUE
  /\ base' = <<>> /\ edits' = <<>> /\ written' = <<>>
  /\ UNCHANGED others

(* ... and writes from its beginning, over what others have put there.     *)
Over(text) == text \o From(file, Len(text) + 1)
Store == opened /\ file' = Over(written) /\ Ends("done")

(* The file cannot be opened; or the disk is full or the process ends when *)
(* n bytes are written.                                                    *)
OpenFails == call # "none" /\ ~opened /\ UNCHANGED file /\ Ends("error")
CutOff(n) == opened /\ file' = Over(SubSeq(written, 1, n)) /\ Ends("error")

Other(text) ==
  /\ others < MaxOthers /\ text # file /\ file' = text /\ others' = others + 1
  /\ alone' = ~opened
  /\ UNCHANGED <<call, opened, base, edits, written, answer>>

FilesNext ==
  \/ \E asked \in SeqOf(Edit, MaxEdits) : file \in Contents /\ ReadAndEdit(asked)
  \/ \E text \in Contents : Write(text) \/ Other(text)
  \/ Truncate \/ Store \/ OpenFails
  \/ \E n \in 0..(Len(written) - 1) : CutOff(n)
FilesSpec == FilesInit /\ [][FilesNext]_filesVars

(***************************************************************************)
(* What an edit makes of a text: each occurrence cut out where nothing to  *)
(* its left overlaps it, the rest kept as it was.                          *)
(***************************************************************************)
RECURSIVE Follows(_, _, _)
Follows(from, e, to) ==
  \E i \in 0..Len(from) :
    LET before == SubSeq(from, 1, i)
        isFirst == StandsAt(from, e.old, i + 1) /\ \A k \in 1..i : ~StandsAt(from, e.old, k)
        rest == From(from, i + Len(e.old) + 1)
        kept == before \o e.new
        after == From(to, Len(kept) + 1)
    IN /\ isFirst /\ IsPrefix(kept, to)
       /\ \/ after = rest /\ (~e.all \/ \A k \in DOMAIN rest : ~StandsAt(rest, e.old, k))
          \/ e.all /\ Follows(rest, e, after)

RECURSIVE FollowsAll(_, _, _)
FollowsAll(from, asked, to) ==
  IF asked = <<>> THEN to = from
  ELSE \E e \in {asked[1]} : \E mid \in {Replaced(from, e)} :
         Follows(from, e, mid) /\ FollowsAll(mid, Tail(asked), to)

(***************************************************************************)
(* Edit and MultiEdit touch the file only for what every one of the edits, *)
(* in order, makes of the text they read: they leave that text if they     *)
(* succeed, and a beginning of it, perhaps empty, if the write fails or is *)
(* cut off - unless another program writes in the middle.  (The tool       *)
(* promises to edit "atomically", and that on an edit that does not fit    *)
(* "the file remains unchanged": the second is so, the first is not.)      *)
(***************************************************************************)
EditsAreMade ==
  [][call = "Edit" /\ alone /\ others' = others =>
       /\ file' # file => FollowsAll(base, edits, written) /\ IsPrefix(file', written)
       /\ answer' = "done" /\ call' = "none" => file' = written]_filesVars
=============================================================================
