------------------------------ MODULE JsonText ------------------------------
(***************************************************************************)
(* Every text of a few symbols, read by src/core/json.rs and compared with *)
(* the grammar it stands for.  The alphabets are small sets of symbols     *)
(* that have something to do with each other.                              *)
(***************************************************************************)
EXTENDS Json

CONSTANTS
  Alphabets,
  MaxText       \* bound: the length of a text

VARIABLES alphabet, text
textVars == <<alphabet, text>>

TextInit == alphabet \in Alphabets /\ text = <<>>
Type(symbol) == Len(text) < MaxText /\ text' = Append(text, symbol) /\ UNCHANGED alphabet
TextNext == \E symbol \in alphabet : Type(symbol)
TextSpec == TextInit /\ [][TextNext]_textVars

(***************************************************************************)
(* The grammar of RFC 8259, by how a text can be cut into parts.           *)
(***************************************************************************)
From(s, i) == SubSeq(s, i, Len(s))
UpTo(s, i) == SubSeq(s, 1, i)
Inside(s) == SubSeq(s, 2, Len(s) - 1)
AllIn(s, set) == \A i \in DOMAIN s : s[i] \in set
IsBlank(s) == AllIn(s, {" ", "LF"})
IsWithin(s, open, close) == Len(s) >= 2 /\ s[1] = open /\ Last(s) = close

RECURSIVE IsChars(_)
IsChars(s) ==
  \/ s = <<>>
  \/ s[1] \notin {"quote", "bslash", "LF", "FF"} /\ IsChars(From(s, 2))
  \/ /\ Len(s) >= 2 /\ s[1] = "bslash"
     /\ \/ s[2] \in DOMAIN Escapes /\ IsChars(From(s, 3))
        \/ s[2] = "u" /\ Len(s) >= 3 /\ s[3] \in {"4hex", "4sur"} /\ IsChars(From(s, 4))
IsString(s) == IsWithin(s, "quote", "quote") /\ IsChars(Inside(s))

IsDigits(s) == s # <<>> /\ AllIn(s, DigitSymbols)
IsNatural(s) == IsDigits(s) /\ (Len(s) > 1 => s[1] # "0")
Signed(s, signs, Is(_)) == Is(s) \/ (s # <<>> /\ s[1] \in signs /\ Is(From(s, 2)))
IsNumber(s) ==
  \E i \in 1..Len(s), j \in 0..Len(s) :
    /\ i <= j /\ Signed(UpTo(s, i), {"-"}, IsNatural)
    /\ i = j \/ (s[i + 1] = "." /\ IsDigits(SubSeq(s, i + 2, j)))
    /\ j = Len(s) \/ (s[j + 1] = "e" /\ Signed(From(s, j + 2), {"+", "-"}, IsDigits))

(* Cut at some of its commas, every part is an item. *)
IsList(s, IsItem(_)) ==
  \E cuts \in SUBSET {i \in DOMAIN s : s[i] = ","} :
    \A a \in cuts \cup {0}, b \in cuts \cup {Len(s) + 1} :
      a < b /\ (\A c \in cuts : c <= a \/ b <= c) => IsItem(SubSeq(s, a + 1, b - 1))

RECURSIVE IsValue(_)
IsValue(s) ==
  LET IsPair(t) ==
        \E i, k \in DOMAIN t : \E j \in i..Len(t) :
          /\ t[k] = ":" /\ j < k /\ IsBlank(UpTo(t, i - 1)) /\ IsString(SubSeq(t, i, j))
          /\ IsBlank(SubSeq(t, j + 1, k - 1)) /\ IsValue(From(t, k + 1))
  IN \E i \in DOMAIN s, j \in DOMAIN s :
       /\ i <= j /\ IsBlank(UpTo(s, i - 1)) /\ IsBlank(From(s, j + 1))
       /\ LET t == SubSeq(s, i, j)
          IN \/ t[1] \in Literals /\ Len(t) = 1
             \/ IsString(t) \/ IsNumber(t)
             \/ IsWithin(t, "[", "]") /\ (IsBlank(Inside(t)) \/ IsList(Inside(t), IsValue))
             \/ IsWithin(t, "{", "}") /\ (IsBlank(Inside(t)) \/ IsList(Inside(t), IsPair))

(***************************************************************************)
(* Properties                                                              *)
(***************************************************************************)

(* What the reader takes beyond the grammar: a form feed for a blank, and  *)
(* raw line breaks and form feeds in strings.                              *)
Tamed(s) == [i \in DOMAIN s |-> IF s[i] \in {"LF", "FF"} THEN " " ELSE s[i]]

(* What it does not take: half a surrogate pair, escaped; a backslash that *)
(* is itself escaped does not escape.                                      *)
EscapesSurrogate(s) ==
  \E i \in 1..(Len(s) - 2) : \E j \in 1..i :
    /\ SubSeq(s, i + 1, i + 2) = <<"u", "4sur">>
    /\ AllIn(SubSeq(s, j, i), {"bslash"}) /\ (j = 1 \/ s[j - 1] # "bslash") /\ (i - j) % 2 = 0

(***************************************************************************)
(* The reader takes the texts of the grammar and, but for a form feed in   *)
(* the place of a blank and raw control characters in strings, no others:  *)
(* with one symbol of lookahead it finds every way to cut a text into      *)
(* values, and nothing is left over.  Escaped surrogates, which the        *)
(* grammar has, are refused ("Invalid unicode code point").  (So is an     *)
(* integer beyond i64, which is longer than the texts here.)               *)
(***************************************************************************)
ReadsTheGrammar == Parsed(text).ok <=> IsValue(Tamed(text)) /\ ~EscapesSurrogate(text)

RECURSIVE NumbersIn(_)
NumbersIn(value) ==
  CASE value[1] \in {"int", "float"} -> {value}
    [] value[1] = "array" -> UNION {NumbersIn(value[2][i]) : i \in DOMAIN value[2]}
    [] value[1] = "object" -> UNION {NumbersIn(value[2][i][2]) : i \in DOMAIN value[2]}
    [] OTHER -> {}

(* Floats that print as an integer beyond i64, or as "inf".                *)
IsTooLarge(n) == IsWhole(n) /\ (n[4] > 19 \/ n[3] = <<"inf">>)
IsMinusZero(n) == n = Float(TRUE, <<"0">>, 1)

(***************************************************************************)
(* What is read and printed again reads as the same value: requests are    *)
(* built from values that were read, the tool inputs of a conversation     *)
(* above all.  Only floats without a fraction do not: they print as        *)
(* integers and are read as such (a minus zero loses its sign), and from   *)
(* 1e19 on what was printed is no longer read at all.                      *)
(***************************************************************************)
PrintsWhatItRead ==
  LET read == Parsed(text)
      again == Parsed(Printed(read.value))
      numbers == NumbersIn(read.value)
  IN read.ok =>
       /\ again.ok <=> \A n \in numbers : ~IsTooLarge(n)
       /\ (\A n \in numbers : ~IsWhole(n)) => again.value = read.value
       /\ again.ok /\ (\A n \in numbers : ~IsMinusZero(n))
            => Printed(again.value) = Printed(read.value)

(***************************************************************************)
(* JSON is read by its grammar, and what is printed is read as it was,     *)
(* both with the exceptions named above and no others.                     *)
(***************************************************************************)
JsonIsRead == ReadsTheGrammar /\ PrintsWhatItRead

=============================================================================
