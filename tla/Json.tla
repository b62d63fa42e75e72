-------------------------------- MODULE Json --------------------------------
(***************************************************************************)
(* The JSON reader and printer everything in viv goes through              *)
(* (src/core/json.rs).  A text is a sequence of symbols: a character, a    *)
(* whole word ("true"), or the four digits after \u ("4hex", or "4sur" if  *)
(* they name half a surrogate pair).  A value is a tagged tuple.  An       *)
(* integer is its decimal text.  A float is the decimal it stands for:     *)
(* 0.digits times ten to the power, with no zero at either end of the      *)
(* digits; 0 and inf are single digits.  Digits are zeros and ones, and    *)
(* few enough for an f64 to keep numbers apart that differ.                *)
(***************************************************************************)
EXTENDS Integers, Sequences, SequencesExt, TLC

Literals == {"null", "true", "false"}
DigitSymbols == {"0", "1"}
Escapes == ("quote" :> "quote") @@ ("bslash" :> "bslash") @@ ("n" :> "LF") @@ ("f" :> "FF")
Spaces == {" ", "LF", "FF"}

Word(w) == <<"word", w>>
Integer(text) == <<"int", text>>
Float(negative, digits, power) == <<"float", negative, digits, power>>
Str(text) == <<"string", text>>
Array(items) == <<"array", items>>
Object(pairs) == <<"object", pairs>>

(***************************************************************************)
(* The reader.  Each operator reads from position i and gives the value    *)
(* and the position after it, or fails.                                    *)
(***************************************************************************)
At(s, i) == IF i <= Len(s) THEN s[i] ELSE "end"
Fails == [ok |-> FALSE]
Got(value, next) == [ok |-> TRUE, value |-> value, next |-> next]
Then(r, value) == IF r.ok THEN Got(value, r.next) ELSE Fails

FirstNot(s, i, skipped) ==
  CHOOSE j \in i..(Len(s) + 1) :
    /\ \A k \in i..(j - 1) : s[k] \in skipped
    /\ At(s, j) \notin skipped
AfterSpace(s, i) == FirstNot(s, i, Spaces)
AfterDigits(s, i) == FirstNot(s, i, DigitSymbols)

RECURSIVE ReadChars(_, _)
ReadChars(s, i) ==
  LET Before(ch, r) == Then(r, <<ch>> \o r.value)
      Push(ch, next) == Before(ch, ReadChars(s, next))
  IN CASE At(s, i) = "end" -> Fails
       [] At(s, i) = "quote" -> Got(<<>>, i + 1)
       [] At(s, i) = "bslash" /\ At(s, i + 1) \in DOMAIN Escapes -> Push(Escapes[At(s, i + 1)], i + 2)
       [] At(s, i) = "bslash" /\ At(s, i + 1) = "u" /\ At(s, i + 2) = "4hex" -> Push("A", i + 3)
       [] At(s, i) \notin {"end", "quote", "bslash"} -> Push(s[i], i + 1)
       [] OTHER -> Fails

ReadString(s, i) == IF At(s, i) = "quote" THEN ReadChars(s, i + 1) ELSE Fails

(***************************************************************************)
(* The value of a number's text.  An i64 has nineteen digits, of which the *)
(* first may be a one; an f64 of ten to the 309th or more is infinite, and *)
(* one below ten to the -323rd is zero.                                    *)
(***************************************************************************)
Zeros(n) == [i \in 1..n |-> "0"]
Unsigned(t) == IF t[1] = "-" THEN Tail(t) ELSE t
FitsI64(t) == Len(Unsigned(t)) <= 19
IntegerOf(t) == Integer(IF t = <<"-", "0">> THEN <<"0">> ELSE t)

ExponentOf(t) ==
  LET digits == SelectSeq(t, LAMBDA c : c \in DigitSymbols)
      n == FoldLeft(LAMBDA sum, d : 10 * sum + (IF d = "1" THEN 1 ELSE 0), 0, digits)
  IN IF t[1] = "-" THEN -n ELSE n

FirstOf(t, set) == SelectInSeq(t, LAMBDA c : c \in set)
FloatOf(t) ==
  LET u == Unsigned(t)
      e == FirstOf(u, {"e"})
      mantissa == IF e = 0 THEN u ELSE SubSeq(u, 1, e - 1)
      dot == FirstOf(mantissa, {"."})
      whole == IF dot = 0 THEN Len(mantissa) ELSE dot - 1
      digits == SelectSeq(mantissa, LAMBDA c : c # ".")
      ones == {i \in DOMAIN digits : digits[i] # "0"}
      first == CHOOSE i \in ones : \A j \in ones : i <= j
      last == CHOOSE i \in ones : \A j \in ones : j <= i
      power == whole - first + 1 + (IF e = 0 THEN 0 ELSE ExponentOf(SubSeq(u, e + 1, Len(u))))
  IN IF ones = {} \/ power < -322 THEN Float(t # u, <<"0">>, 1)
     ELSE IF power > 309 THEN Float(t # u, <<"inf">>, 1)
     ELSE Float(t # u, SubSeq(digits, first, last), power)

NumberOf(t) == IF FirstOf(t, {".", "e"}) = 0 THEN IntegerOf(t) ELSE FloatOf(t)

(* A leading zero ends the integer part: what follows it is left over.     *)
ReadNumber(s, i) ==
  LET int == IF At(s, i) = "-" THEN i + 1 ELSE i
      dot == IF At(s, int) = "0" THEN int + 1 ELSE AfterDigits(s, int)
      exp == IF At(s, dot) = "." THEN AfterDigits(s, dot + 1) ELSE dot
      pow == IF At(s, exp + 1) \in {"+", "-"} THEN exp + 2 ELSE exp + 1
      end == IF At(s, exp) = "e" THEN AfterDigits(s, pow) ELSE exp
      t == SubSeq(s, i, end - 1)
  IN IF \/ dot = int \/ exp = dot + 1 \/ (At(s, exp) = "e" /\ end = pow)
        \/ end = dot /\ ~FitsI64(t)
     THEN Fails
     ELSE Got(NumberOf(t), end)

RECURSIVE ReadValue(_, _), ReadItems(_, _), ReadItemsLoosely(_, _), ReadPairs(_, _)

Tagged(tag, r) == Then(r, <<tag, r.value>>)

(* What follows an item: its last one, or the rest of them. *)
AfterItem(s, item, sep, close, rest) ==
  IF At(s, sep) = close THEN Got(<<item>>, sep + 1)
  ELSE IF At(s, sep) = "," THEN Then(rest, <<item>> \o rest.value)
  ELSE Fails

ItemsFrom(s, item, sep) == AfterItem(s, item, sep, "]", ReadItems(s, sep + 1))
AfterValue(s, r) == IF r.ok THEN ItemsFrom(s, r.value, AfterSpace(s, r.next)) ELSE Fails
ReadItems(s, i) == AfterValue(s, ReadValue(s, i))

(* Mutant: a comma may end an array. *)
ReadItemsLoosely(s, i) ==
  LET item == ReadValue(s, i)
      sep == AfterSpace(s, item.next)
  IN IF At(s, AfterSpace(s, i)) = "]" THEN Got(<<>>, AfterSpace(s, i) + 1)
     ELSE IF item.ok THEN AfterItem(s, item.value, sep, "]", ReadItemsLoosely(s, sep + 1))
     ELSE Fails

PairsFrom(s, pair, sep) == AfterItem(s, pair, sep, "}", ReadPairs(s, sep + 1))
AfterPair(s, key, r) ==
  IF r.ok THEN PairsFrom(s, <<key, r.value>>, AfterSpace(s, r.next)) ELSE Fails
AfterColon(s, key, colon) ==
  IF At(s, colon) = ":" THEN AfterPair(s, key, ReadValue(s, colon + 1)) ELSE Fails
AfterKey(s, r) == IF r.ok THEN AfterColon(s, r.value, AfterSpace(s, r.next)) ELSE Fails
ReadPairs(s, i) == AfterKey(s, ReadString(s, AfterSpace(s, i)))

(* The items of an array, the pairs of an object, from behind its bracket. *)
Closed(s, tag, close, inner, rest) ==
  IF At(s, inner) = close THEN Got(<<tag, <<>>>>, inner + 1) ELSE Tagged(tag, rest)

ValueAt(s, i) ==
  CASE At(s, i) \in Literals -> Got(Word(s[i]), i + 1)
    [] At(s, i) = "quote" -> Tagged("string", ReadString(s, i))
    [] At(s, i) = "[" -> Closed(s, "array", "]", AfterSpace(s, i + 1), ReadItems(s, i + 1))
    [] At(s, i) = "{" -> Closed(s, "object", "}", AfterSpace(s, i + 1), ReadPairs(s, i + 1))
    [] At(s, i) \in DigitSymbols \cup {"-"} -> ReadNumber(s, i)
    [] OTHER -> Fails
ReadValue(s, from) == ValueAt(s, AfterSpace(s, from))

(* JsonValue::parse: nothing but white space may follow. *)
Whole(s, r) == IF r.ok /\ AfterSpace(s, r.next) <= Len(s) THEN Fails ELSE r
Parsed(s) == Whole(s, ReadValue(s, 1))

(* JsonValue::get: the first pair with that key. *)
Field(object, key) ==
  LET hits == {i \in DOMAIN object[2] : object[2][i][1] = key}
  IN IF object[1] # "object" \/ hits = {} THEN Word("null")
     ELSE object[2][CHOOSE i \in hits : \A j \in hits : i <= j][2]
Items(value) == IF value[1] = "array" THEN value[2] ELSE <<>>
CharsOf(value) == IF value[1] = "string" THEN value[2] ELSE <<>>

(***************************************************************************)
(* The printer                                                             *)
(***************************************************************************)
Quoted(text) == <<"quote">> \o text \o <<"quote">>

(* Mutant, and what src/memory/index.rs writes: only quotes are escaped. *)
QuotesEscaped(text) ==
  FlattenSeq([i \in DOMAIN text |-> IF text[i] = "quote" THEN <<"bslash", "quote">> ELSE <<text[i]>>])

Escaped(text) ==
  FlattenSeq([i \in DOMAIN text |->
    IF \E e \in DOMAIN Escapes : Escapes[e] = text[i]
    THEN <<"bslash", CHOOSE e \in DOMAIN Escapes : Escapes[e] = text[i]>> ELSE <<text[i]>>])

Listed(texts) ==
  FlattenSeq([i \in DOMAIN texts |-> IF i = 1 THEN texts[i] ELSE <<",">> \o texts[i]])

(* Display for f64: the decimal in full, with a point only where it has a  *)
(* fraction.                                                               *)
IsWhole(n) == n[1] = "float" /\ n[4] >= Len(n[3])
PrintedFloat(n) ==
  LET digits == n[3]
      power == n[4]
      sign == IF n[2] THEN <<"-">> ELSE <<>>
      point == IF IsWhole(n) THEN <<>> ELSE <<".">>
  IN IF power <= 0 THEN sign \o <<"0", ".">> \o Zeros(-power) \o digits
     ELSE sign \o SubSeq(digits \o Zeros(power), 1, power)
               \o point \o SubSeq(digits, power + 1, Len(digits))

RECURSIVE Printed(_)
Printed(value) ==
  CASE value[1] = "word" -> <<value[2]>>
    [] value[1] = "int" -> value[2]
    [] value[1] = "float" -> PrintedFloat(value)
    [] value[1] = "string" -> Quoted(Escaped(value[2]))
    [] value[1] = "array" ->
         <<"[">> \o Listed([i \in DOMAIN value[2] |-> Printed(value[2][i])]) \o <<"]">>
    [] value[1] = "object" ->
         <<"{">> \o Listed([i \in DOMAIN value[2] |->
                     Quoted(Escaped(value[2][i][1])) \o <<":">> \o Printed(value[2][i][2])]) \o <<"}">>
=============================================================================
