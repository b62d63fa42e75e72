-------------------------------- MODULE Html --------------------------------
(***************************************************************************)
(* WebFetch's way from a page to text (src/tools/web.rs): one pass over    *)
(* the page's characters that drops tags and scripts and rewrites links.   *)
(* A page is made of pieces, a piece is a sequence of characters; a tag's  *)
(* name is one character, "wide" a character of several bytes.  Layout,    *)
(* entities and attributes are left out: what counts is which words stay.  *)
(***************************************************************************)
EXTENDS Integers, Sequences, SequencesExt

CONSTANTS
  Words,          \* characters of the text
  WideBytes,      \* bytes of "wide"
  MaxPieces       \* bound: the length of a page

VARIABLES page
htmlVars == page

Open(name) == <<"<", name, ">">>
Close(name) == <<"<", "/", name, ">">>
Pieces == {<<w>> : w \in Words} \cup {Open(n) : n \in {"a", "p", "script"}}
          \cup {Close(n) : n \in {"a", "script"}} \cup {<<"<">>}

(* Only where the page is cut off does a tag not end. *)
HtmlInit == page = <<>>
AddPiece(piece) ==
  /\ Len(page) < MaxPieces /\ (page # <<>> => Last(page) # <<"<">>)
  /\ page' = Append(page, piece)
HtmlNext == \E piece \in Pieces : AddPiece(piece)
HtmlSpec == HtmlInit /\ [][HtmlNext]_htmlVars

From(s, i) == SubSeq(s, i, Len(s))

(* find() answers in bytes; 0 bytes before the first character. *)
ByteLength(s) == FoldLeft(LAMBDA n, c : n + (IF c = "wide" THEN WideBytes ELSE 1), 0, s)
Positions(s, sub) == {i \in DOMAIN s : IsPrefix(sub, From(s, i))}
FirstOf(set) == CHOOSE i \in set : \A k \in set : i <= k
Found(s, sub) == ByteLength(SubSeq(s, 1, FirstOf(Positions(s, sub)) - 1))
Has(s, sub) == Positions(s, sub) # {}

StripTags(s) ==
  FoldLeft(LAMBDA at, c : IF c = "<" THEN [at EXCEPT !.inTag = TRUE]
                          ELSE IF c = ">" THEN [at EXCEPT !.inTag = FALSE]
                          ELSE IF at.inTag THEN at
                          ELSE [at EXCEPT !.out = Append(@, c)],
           [inTag |-> FALSE, out |-> <<>>], s).out

(* The slice of characters ends behind the page. *)
Panic == <<"panic">>
NoLink == [out |-> Panic, skip |-> 0]

(* Mutant: one character more is skipped, for the '>' the comment speaks of. *)
LinkOneLonger(rest, close) ==
  IF close > Len(rest) THEN NoLink
  ELSE [out |-> StripTags(SubSeq(rest, 1, close)), skip |-> close + 5]

(* What is left of a link and how many characters it takes; `close` is a   *)
(* count of bytes, used as one of characters, so another '>' may follow.   *)
Link(rest, close) ==
  IF close > Len(rest) THEN NoLink
  ELSE [out |-> StripTags(SubSeq(rest, 1, close)),
        skip |-> close + (IF Len(rest) >= close + 5 /\ rest[close + 5] = ">" THEN 5 ELSE 4)]

Script(rest, pos) ==
  LET end == FirstOf(Positions(rest, <<"<", "/", "script">>))
  IN pos + Found(From(rest, end), <<">">>) + 1

RECURSIVE Converted(_, _)
Converted(s, out) ==
  LET end == FirstOf(Positions(s, <<">">>))
      tag == SubSeq(s, 2, end - 1)
      rest == From(s, end + 1)
      link == Link(rest, Found(rest, Close("a")))
      script == Script(rest, Found(rest, <<"<", "/", "script">>))
  IN IF s = <<>> THEN out
     ELSE IF s[1] # "<" \/ ~Has(s, <<">">>) THEN Converted(Tail(s), Append(out, s[1]))
     ELSE IF tag = <<"a">> /\ Has(rest, Close("a"))
     THEN IF link = NoLink THEN Panic ELSE Converted(From(rest, link.skip + 1), out \o link.out)
     ELSE IF tag = <<"script">> /\ Has(rest, <<"<", "/", "script">>)
     THEN Converted(From(rest, script + 1), out)
     ELSE Converted(rest, out)

HtmlToMarkdown == Converted(FlattenSeq(page), <<>>)

(***************************************************************************)
(* Every page is converted.                                                *)
(***************************************************************************)
PageIsConverted == HtmlToMarkdown # Panic

(***************************************************************************)
(* The words of a page, those of its scripts aside, come out in order; so  *)
(* they do where a character is a byte, which finding them by bytes and    *)
(* skipping them by characters takes for granted.                          *)
(***************************************************************************)
IsScript(i) ==
  \E a, b \in DOMAIN page :
    /\ a < i /\ i < b /\ page[a] = Open("script") /\ page[b] = Close("script")
    /\ \A k \in a + 1..b - 1 : page[k] # Close("script")
Shown == {i \in DOMAIN page : Len(page[i]) = 1 /\ page[i][1] \in Words /\ ~IsScript(i)}
Kept ==
  FlattenSeq([i \in DOMAIN page |-> IF i \in Shown THEN page[i] ELSE <<>>])

IsSubsequence(s, t) ==
  FoldLeft(LAMBDA left, c : IF left # <<>> /\ left[1] = c THEN Tail(left) ELSE left, s, t) = <<>>

WordsAreKept ==
  (\A i \in DOMAIN page : page[i] # <<"wide">>) => IsSubsequence(Kept, HtmlToMarkdown)
=============================================================================
