---------------------------- MODULE Local_proofs ----------------------------
(***************************************************************************)
(* The keyboard's side of the UI thread: the window's size is known and    *)
(* what is typed arrives (TermInput); the line editor's cursor stays on a  *)
(* character of its text and what was being typed comes back (Editor).     *)
(* For any characters, keys, reads and changes of the window, with no      *)
(* bound on texts or on the history.                                       *)
(***************************************************************************)
EXTENDS TermInput, Editor, SequenceLemmas, FiniteSetTheorems, TLAPS

-----------------------------------------------------------------------------
(* TermInput: the window's size.                                           *)

(***************************************************************************)
(* Why the size is known: as long as the UI thread runs, a change it has   *)
(* not taken over is still to be noticed - the signal is pending, its byte *)
(* is in the pipe, or the size is about to be asked for.  Before the       *)
(* handler is installed there is neither signal nor byte.                  *)
(***************************************************************************)
SizeInv ==
  /\ pipe \in Nat /\ signalled \in BOOLEAN /\ missed \in BOOLEAN
  /\ loop \in {"starting", "polling", "sizing", "left"}
  /\ loop = "starting" => ~signalled /\ pipe = 0
  /\ missed \/ signalled \/ pipe > 0 \/ loop \in {"sizing", "left"} \/ known = size

LEMMA SizeInit == InputInit => SizeInv
<1> SUFFICES ASSUME InputInit PROVE SizeInv
  OBVIOUS
<1>1. pipe = 0 /\ pipe \in Nat /\ loop = "starting" /\ known = size
  BY DEF InputInit
<1>2. ~signalled /\ ~missed /\ signalled \in BOOLEAN /\ missed \in BOOLEAN
  BY Zenon DEF InputInit
<1>3. QED BY <1>1, <1>2, Zenon DEF SizeInv

LEMMA SizeStep == SizeInv /\ [InputNext]_inputVars => SizeInv'
<1> SUFFICES ASSUME SizeInv, [InputNext]_inputVars PROVE SizeInv'
  OBVIOUS
<1> USE DEF SizeInv
<1>1. CASE \E key \in Keys : Press(key)
  BY <1>1 DEF Press, sizeVars
<1>2. CASE \E n \in 1..Len(tty) : ReadKeys(n)
  BY <1>2 DEF ReadKeys, sizeVars
<1>3. CASE Install
  BY <1>3 DEF Install, sizeVars
<1>4. CASE Resize
  <2>1. pipe' = pipe /\ loop' = loop /\ (missed' \/ signalled')
        /\ signalled' \in BOOLEAN /\ missed' \in BOOLEAN
        /\ (loop = "starting" => ~signalled')
    BY <1>4, Zenon DEF Resize
  <2>2. QED BY <2>1, Zenon DEF SizeInv
<1>5. CASE Handler
  <2>1. pipe' = pipe + 1 /\ loop' = loop /\ UNCHANGED <<missed, size, known>>
    BY <1>5 DEF Handler
  <2>2. ~signalled' /\ signalled' \in BOOLEAN /\ loop # "starting"
    BY <1>5, Zenon DEF Handler
  <2>3. pipe' > 0 /\ pipe' \in Nat
    BY <2>1
  <2>4. QED BY <2>1, <2>2, <2>3, Zenon
<1>6. CASE DrainPipe
  BY <1>6 DEF DrainPipe
<1>7. CASE AskSize
  BY <1>7 DEF AskSize
<1>8. CASE Leave
  BY <1>8 DEF Leave, sizeVars
<1>9. CASE UNCHANGED inputVars
  BY <1>9 DEF inputVars, sizeVars
<1>10. QED
  BY <1>1, <1>2, <1>3, <1>4, <1>5, <1>6, <1>7, <1>8, <1>9 DEF InputNext, DrainAndAsk

(***************************************************************************)
(* No change of the window is missed between two polls, for any keys and   *)
(* any number of changes, wherever the signal interrupts the UI thread.    *)
(***************************************************************************)
THEOREM WindowSizeIsKnown == InputSpec => []SizeIsKnown
<1>1. SizeInv => SizeIsKnown
  BY DEF SizeInv, SizeIsKnown
<1>2. QED BY SizeInit, SizeStep, <1>1, PTL DEF InputSpec

-----------------------------------------------------------------------------
(* TermInput: the recursive functions, by their equations.                 *)

(* Ends is a recursive function: that it is there, and its equations.      *)
IsEnds(keys, N, f) ==
  f = [n \in 0..N |-> IF n = 0 THEN 0 ELSE f[n - 1] + Len(BytesOf(keys[n]))]

(* ... for the first N of the keys.                                        *)
LEMMA EndsExists ==
  ASSUME NEW keys, NEW N \in Nat PROVE \E f : IsEnds(keys, N, f)
<1> DEFINE Bad == {m \in Nat : ~ \E f : IsEnds(keys, m, f)}
<1>1. SUFFICES ASSUME Bad # {} PROVE FALSE
  OBVIOUS
<1>2. PICK m \in Bad : \A k \in Bad : m <= k
  BY <1>1, SmallestElement
<1>3. m \in Nat /\ m # 0
  <2>1. IsEnds(keys, 0, [n \in 0..0 |-> 0])
    BY DEF IsEnds
  <2>2. QED BY <2>1, <1>2
<1>4. m - 1 \in Nat /\ m - 1 \notin Bad
  BY <1>2, <1>3
<1>5. PICK g : IsEnds(keys, m - 1, g)
  BY <1>4
<1> DEFINE next(n) == IF n = 0 THEN 0 ELSE g[n - 1] + Len(BytesOf(keys[n]))
           f == [n \in 0..m |-> next(n)]
<1>6. ASSUME NEW n \in 0..(m - 1) PROVE f[n] = g[n]
  <2>1. g = [k \in 0..(m - 1) |-> next(k)]
    BY <1>5 DEF IsEnds
  <2> HIDE DEF next
  <2>2. g[n] = next(n)
    BY <2>1
  <2>3. n \in 0..m
    BY <1>3
  <2>4. QED BY <2>2, <2>3
<1>7. \A n \in 0..m : n # 0 => n - 1 \in 0..(m - 1)
  BY <1>3
<1>8. f = [n \in 0..m |-> IF n = 0 THEN 0 ELSE f[n - 1] + Len(BytesOf(keys[n]))]
  <2>1. \A n \in 0..m : n # 0 => f[n - 1] = g[n - 1]
    BY <1>6, <1>7
  <2>2. \A n \in 0..m : next(n) = IF n = 0 THEN 0 ELSE f[n - 1] + Len(BytesOf(keys[n]))
    BY <2>1
  <2>3. QED BY <2>2
<1>9. IsEnds(keys, m, f)
  BY <1>8 DEF IsEnds
<1>10. QED BY <1>2, <1>9

(* The equations of Ends.                                                  *)
LEMMA EndsAre ==
  ASSUME NEW keys, Len(keys) \in Nat
  PROVE  /\ Ends(keys)[0] = 0
         /\ \A n \in 1..Len(keys) : Ends(keys)[n] = Ends(keys)[n - 1] + Len(BytesOf(keys[n]))
<1> DEFINE F == Ends(keys)
<1>1. F = CHOOSE f : IsEnds(keys, Len(keys), f)
  BY DEF Ends, IsEnds
<1>2. IsEnds(keys, Len(keys), F)
  BY <1>1, EndsExists
<1> HIDE DEF F
<1> DEFINE next(n) == IF n = 0 THEN 0 ELSE F[n - 1] + Len(BytesOf(keys[n]))
<1>3. F = [n \in 0..Len(keys) |-> next(n)]
  BY <1>2 DEF IsEnds
<1>4. \A n \in 0..Len(keys) : F[n] = next(n)
  <2> HIDE DEF next
  <2>1. QED BY <1>3
<1>5. 0 \in 0..Len(keys) /\ \A n \in 1..Len(keys) : n \in 0..Len(keys) /\ n # 0
  OBVIOUS
<1>6. F[0] = 0 /\ \A n \in 1..Len(keys) : F[n] = F[n - 1] + Len(BytesOf(keys[n]))
  BY <1>4, <1>5
<1>7. QED BY <1>6 DEF F

(* The same for the events of keys.                                        *)
IsEvents(keys, N, f) ==
  f = [n \in 0..N |-> IF n = 0 THEN <<>> ELSE (IF keys[n] \in Mouse THEN f[n - 1] ELSE Append(f[n - 1], keys[n]))]

(* ... for the first N of the keys.                                        *)
LEMMA EventsExists ==
  ASSUME NEW keys, NEW N \in Nat PROVE \E f : IsEvents(keys, N, f)
<1> DEFINE Bad == {m \in Nat : ~ \E f : IsEvents(keys, m, f)}
<1>1. SUFFICES ASSUME Bad # {} PROVE FALSE
  OBVIOUS
<1>2. PICK m \in Bad : \A k \in Bad : m <= k
  BY <1>1, SmallestElement
<1>3. m \in Nat /\ m # 0
  <2>1. IsEvents(keys, 0, [n \in 0..0 |-> <<>>])
    BY DEF IsEvents
  <2>2. QED BY <2>1, <1>2
<1>4. m - 1 \in Nat /\ m - 1 \notin Bad
  BY <1>2, <1>3
<1>5. PICK g : IsEvents(keys, m - 1, g)
  BY <1>4
<1> DEFINE next(n) == IF n = 0 THEN <<>> ELSE (IF keys[n] \in Mouse THEN g[n - 1] ELSE Append(g[n - 1], keys[n]))
           f == [n \in 0..m |-> next(n)]
<1>6. ASSUME NEW n \in 0..(m - 1) PROVE f[n] = g[n]
  <2>1. g = [k \in 0..(m - 1) |-> next(k)]
    BY <1>5 DEF IsEvents
  <2> HIDE DEF next
  <2>2. g[n] = next(n)
    BY <2>1
  <2>3. n \in 0..m
    BY <1>3
  <2>4. QED BY <2>2, <2>3
<1>7. \A n \in 0..m : n # 0 => n - 1 \in 0..(m - 1)
  BY <1>3
<1>8. f = [n \in 0..m |-> IF n = 0 THEN <<>> ELSE (IF keys[n] \in Mouse THEN f[n - 1] ELSE Append(f[n - 1], keys[n]))]
  <2>1. \A n \in 0..m : n # 0 => f[n - 1] = g[n - 1]
    BY <1>6, <1>7
  <2>2. \A n \in 0..m :
          next(n) = IF n = 0 THEN <<>>
                    ELSE (IF keys[n] \in Mouse THEN f[n - 1] ELSE Append(f[n - 1], keys[n]))
    BY <2>1
  <2>3. QED BY <2>2
<1>9. IsEvents(keys, m, f)
  BY <1>8 DEF IsEvents
<1>10. QED BY <1>2, <1>9

(* The equations of EventsOf.                                              *)
LEMMA EventsAre ==
  ASSUME NEW keys, Len(keys) \in Nat
  PROVE  /\ EventsOf(keys)[0] = <<>>
         /\ \A n \in 1..Len(keys) :
              EventsOf(keys)[n] = (IF keys[n] \in Mouse THEN EventsOf(keys)[n - 1]
                                   ELSE Append(EventsOf(keys)[n - 1], keys[n]))
<1> DEFINE F == EventsOf(keys)
<1>1. F = CHOOSE f : IsEvents(keys, Len(keys), f)
  BY DEF EventsOf, IsEvents
<1>2. IsEvents(keys, Len(keys), F)
  BY <1>1, EventsExists
<1> HIDE DEF F
<1> DEFINE next(n) == IF n = 0 THEN <<>> ELSE (IF keys[n] \in Mouse THEN F[n - 1] ELSE Append(F[n - 1], keys[n]))
<1>3. F = [n \in 0..Len(keys) |-> next(n)]
  BY <1>2 DEF IsEvents
<1>4. \A n \in 0..Len(keys) : F[n] = next(n)
  <2> HIDE DEF next
  <2>1. QED BY <1>3
<1>5. 0 \in 0..Len(keys) /\ \A n \in 1..Len(keys) : n \in 0..Len(keys) /\ n # 0
  OBVIOUS
<1>6. F[0] = <<>> /\ \A n \in 1..Len(keys) : F[n] = (IF keys[n] \in Mouse THEN F[n - 1] ELSE Append(F[n - 1], keys[n]))
  BY <1>4, <1>5
<1>7. QED BY <1>6 DEF F

(* The same for what draining the buffer has done after n events.          *)
IsDrain(bytes, N, f) ==
  f = [n \in 0..N |-> IF n = 0 THEN [buf |-> bytes, over |-> FALSE, out |-> <<>>] ELSE Drain(f[n - 1])]

(* ... for N turns of the loop.                                            *)
LEMMA DrainExists ==
  ASSUME NEW bytes, NEW N \in Nat PROVE \E f : IsDrain(bytes, N, f)
<1> DEFINE Bad == {m \in Nat : ~ \E f : IsDrain(bytes, m, f)}
<1>1. SUFFICES ASSUME Bad # {} PROVE FALSE
  OBVIOUS
<1>2. PICK m \in Bad : \A k \in Bad : m <= k
  BY <1>1, SmallestElement
<1>3. m \in Nat /\ m # 0
  <2>1. IsDrain(bytes, 0, [n \in 0..0 |-> [buf |-> bytes, over |-> FALSE, out |-> <<>>]])
    BY DEF IsDrain
  <2>2. QED BY <2>1, <1>2
<1>4. m - 1 \in Nat /\ m - 1 \notin Bad
  BY <1>2, <1>3
<1>5. PICK g : IsDrain(bytes, m - 1, g)
  BY <1>4
<1> DEFINE next(n) == IF n = 0 THEN [buf |-> bytes, over |-> FALSE, out |-> <<>>] ELSE Drain(g[n - 1])
           f == [n \in 0..m |-> next(n)]
<1>6. ASSUME NEW n \in 0..(m - 1) PROVE f[n] = g[n]
  <2>1. g = [k \in 0..(m - 1) |-> next(k)]
    BY <1>5 DEF IsDrain
  <2> HIDE DEF next
  <2>2. g[n] = next(n)
    BY <2>1
  <2>3. n \in 0..m
    BY <1>3
  <2>4. QED BY <2>2, <2>3
<1>7. \A n \in 0..m : n # 0 => n - 1 \in 0..(m - 1)
  BY <1>3
<1>8. f = [n \in 0..m |-> IF n = 0 THEN [buf |-> bytes, over |-> FALSE, out |-> <<>>] ELSE Drain(f[n - 1])]
  <2>1. \A n \in 0..m : n # 0 => f[n - 1] = g[n - 1]
    BY <1>6, <1>7
  <2>2. \A n \in 0..m : next(n) = IF n = 0 THEN [buf |-> bytes, over |-> FALSE, out |-> <<>>] ELSE Drain(f[n - 1])
    BY <2>1
  <2>3. QED BY <2>2
<1>9. IsDrain(bytes, m, f)
  BY <1>8 DEF IsDrain
<1>10. QED BY <1>2, <1>9

(* Drained is where the loop is after as many turns as there are bytes.    *)
LEMMA DrainedIs ==
  ASSUME NEW bytes, Len(bytes) \in Nat
  PROVE  \E f : /\ Drained(bytes) = f[Len(bytes)]
                /\ f[0] = [buf |-> bytes, over |-> FALSE, out |-> <<>>]
                /\ \A n \in 1..Len(bytes) : f[n] = Drain(f[n - 1])
<1> DEFINE F == CHOOSE f : IsDrain(bytes, Len(bytes), f)
<1>1. Drained(bytes) = F[Len(bytes)]
  BY DEF Drained, IsDrain
<1>2. IsDrain(bytes, Len(bytes), F)
  BY DrainExists
<1> HIDE DEF F
<1> DEFINE next(n) == IF n = 0 THEN [buf |-> bytes, over |-> FALSE, out |-> <<>>] ELSE Drain(F[n - 1])
<1>3. F = [n \in 0..Len(bytes) |-> next(n)]
  BY <1>2 DEF IsDrain
<1>4. \A n \in 0..Len(bytes) : F[n] = next(n)
  <2> HIDE DEF next
  <2>1. QED BY <1>3
<1>5. 0 \in 0..Len(bytes) /\ \A n \in 1..Len(bytes) : n \in 0..Len(bytes) /\ n # 0
  OBVIOUS
<1>6. QED BY <1>1, <1>4, <1>5

-----------------------------------------------------------------------------
(* TermInput: what the bytes of a key are read as.                         *)

(* What the parser says of a key.                                          *)
EventOf(key) == IF key \in Mouse THEN "Mouse" ELSE key

(* The bytes of t stand at the start of b.                                 *)
Begins(b, t) == Len(t) <= Len(b) /\ \A i \in 1..Len(t) : b[i] = t[i]

(* The keys the parser knows by another name than their byte.              *)
Named == {"Up", "Delete", "Escape", "CtrlC", "wide", "Press", "Press1000", "Press1015", "Release1015"}

(* The bytes of the keys the parser knows.                                 *)
LEMMA BytesAre ==
  /\ BytesOf("Up") = <<"ESC", "[", "A">> /\ BytesOf("Delete") = <<"ESC", "[", "3", "~">>
  /\ BytesOf("Escape") = <<"ESC">> /\ BytesOf("CtrlC") = <<"^C">> /\ BytesOf("wide") = <<"lead", "tail">>
  /\ BytesOf("Press") = <<"ESC", "[", "<", "0", "semi", "1", "semi", "1", "M">>
  /\ BytesOf("Press1000") = <<"ESC", "[", "M", "blank", "1", "1">>
  /\ BytesOf("Press1015") = <<"ESC", "[", "0", "semi", "1", "semi", "1", "M">>
  /\ BytesOf("Release1015") = <<"ESC", "[", "3", "semi", "1", "semi", "1", "M">>
  /\ \A key : key \notin Named \cup Strange => BytesOf(key) = <<key>>
<1>1. BytesOf("Up") = <<"ESC", "[", "A">> /\ BytesOf("Delete") = <<"ESC", "[", "3", "~">>
  BY DEF BytesOf
<1>2. BytesOf("Escape") = <<"ESC">> /\ BytesOf("CtrlC") = <<"^C">> /\ BytesOf("wide") = <<"lead", "tail">>
  BY DEF BytesOf
<1>3. BytesOf("Press") = <<"ESC", "[", "<", "0", "semi", "1", "semi", "1", "M">>
  BY DEF BytesOf
<1>4. BytesOf("Press1000") = <<"ESC", "[", "M", "blank", "1", "1">>
  BY DEF BytesOf
<1>5. BytesOf("Press1015") = <<"ESC", "[", "0", "semi", "1", "semi", "1", "M">>
  BY DEF BytesOf
<1>6. BytesOf("Release1015") = <<"ESC", "[", "3", "semi", "1", "semi", "1", "M">>
  BY DEF BytesOf
<1>7. ASSUME NEW key, key \notin Named \cup Strange PROVE BytesOf(key) = <<key>>
  BY <1>7 DEF BytesOf, Named, Strange
<1>8. QED BY <1>1, <1>2, <1>3, <1>4, <1>5, <1>6, <1>7

(* The first mark is where there is one and none before it.                *)
LEMMA FirstAtIs ==
  ASSUME NEW b, Len(b) \in Nat, NEW from \in Nat, NEW marks, NEW p \in from..Len(b),
         b[p] \in marks, \A q \in from..(p - 1) : b[q] \notin marks
  PROVE  FirstAt(b, from, marks) = p /\ HasMark(b, from, marks)
<1>1. \A r \in from..Len(b) :
        b[r] \in marks /\ (\A q \in from..(r - 1) : b[q] \notin marks) => r = p
  <2> SUFFICES ASSUME NEW r \in from..Len(b), b[r] \in marks, \A q \in from..(r - 1) : b[q] \notin marks
               PROVE  r = p
    OBVIOUS
  <2>1. ~(p < r)
    OBVIOUS
  <2>2. ~(r < p)
    OBVIOUS
  <2>3. QED BY <2>1, <2>2
<1>2. FirstAt(b, from, marks) = p
  BY <1>1 DEF FirstAt
<1>3. QED BY <1>2 DEF HasMark

(* "N;X;Y", each of one digit.                                             *)
LEMMA TripleIs ==
  ASSUME NEW S, NEW params \in Seq(S), Len(params) = 5, params[2] = "semi", params[4] = "semi",
         params[1] # "semi", params[3] # "semi", params[5] # "semi"
  PROVE  IsTriple(params) /\ FirstPart(params) = <<params[1]>>
<1>1. {i \in DOMAIN params : params[i] = "semi"} = {2, 4}
  <2>1. DOMAIN params = 1..5
    OBVIOUS
  <2>2. \A i \in 1..5 : i = 1 \/ i = 2 \/ i = 3 \/ i = 4 \/ i = 5
    OBVIOUS
  <2>3. QED BY <2>1, <2>2
<1>2. Cardinality({2, 4}) = 2
  <2>1. {2, 4} = {2} \cup {4} /\ 4 \notin {2}
    OBVIOUS
  <2>2. Cardinality({2}) = 1 /\ IsFiniteSet({2})
    BY FS_Singleton
  <2>3. Cardinality({2} \cup {4}) = Cardinality({2}) + 1
    BY <2>1, <2>2, FS_AddElement
  <2>4. Cardinality({2, 4}) = Cardinality({2}) + 1
    BY <2>1, <2>3, Zenon
  <2>5. QED BY <2>2, <2>4
<1>3. IsTriple(params)
  BY <1>1, <1>2 DEF IsTriple
<1>4. FirstAt(params, 1, {"semi"}) = 2
  <2>1. 2 \in 1..Len(params) /\ params[2] \in {"semi"} /\ \A q \in 1..(2 - 1) : params[q] \notin {"semi"}
    OBVIOUS
  <2>2. Len(params) \in Nat /\ 1 \in Nat
    OBVIOUS
  <2>3. QED BY ONLY <2>1, <2>2, FirstAtIs
<1>5. SubSeq(params, 1, 1) = <<params[1]>>
  <2>0. \A s \in Seq(S) : Len(s) = 5 =>
           SubSeq(s, 1, 1) \in Seq(S) /\ Len(SubSeq(s, 1, 1)) = 1 /\ SubSeq(s, 1, 1)[1] = s[1]
    OBVIOUS
  <2>1. SubSeq(params, 1, 1) \in Seq(S) /\ Len(SubSeq(params, 1, 1)) = 1 /\ SubSeq(params, 1, 1)[1] = params[1]
    BY <2>0
  <2>2. \A s, e : s \in Seq(S) /\ Len(s) = 1 /\ s[1] = e => s = <<e>>
    OBVIOUS
  <2>3. QED BY <2>1, <2>2
<1>6. QED BY <1>3, <1>4, <1>5 DEF FirstPart

(* The middle of b.                                                        *)
LEMMA FiveOf ==
  ASSUME NEW S, NEW b \in Seq(S), NEW from \in 1..Len(b), from + 4 <= Len(b)
  PROVE  LET m == SubSeq(b, from, from + 4)
         IN m \in Seq(S) /\ Len(m) = 5 /\ \A i \in 1..5 : m[i] = b[(from + i) - 1]
<1>1. \A f, u \in Nat : f \in 1..Len(b) /\ u = f + 4 /\ u <= Len(b) =>
        /\ SubSeq(b, f, u) \in Seq(S) /\ Len(SubSeq(b, f, u)) = 5
        /\ \A i \in 1..5 : SubSeq(b, f, u)[i] = b[(f + i) - 1]
  OBVIOUS
<1>2. QED BY <1>1

(* A key of one byte, and those whose bytes say at once where they end.    *)
LEMMA ShortKeyIsRead ==
  ASSUME NEW S, NEW b \in Seq(S), NEW key, key \notin Named \cup Strange,
         key \notin {"ESC", "^C", "lead", "tail"}, Begins(b, <<key>>)
  PROVE  NextEvent(b) = Took(key, b, 1)
<1>1. b[1] = key
  BY DEF Begins
<1>2. QED BY <1>1 DEF NextEvent, Controls

(* An ESC begins a sequence if a "[" follows.                              *)
LEMMA EscapeIs ==
  ASSUME NEW b, b[1] = "ESC"
  PROVE  NextEvent(b) = IF Len(b) < 3 \/ b[2] # "[" THEN Took("Escape", b, 1) ELSE CsiEvent(b)
<1>1. "ESC" \notin Controls /\ "ESC" # "tail" /\ "ESC" # "lead"
  BY DEF Controls
<1>2. QED BY <1>1, Zenon DEF NextEvent

(* Escape, and the keys that are no mouse.                                 *)
LEMMA NamedKeysAreRead ==
  ASSUME NEW S, NEW b \in Seq(S)
  PROVE  /\ Begins(b, <<"^C">>) => NextEvent(b) = Took("CtrlC", b, 1)
         /\ Begins(b, <<"lead", "tail">>) => NextEvent(b) = Took("wide", b, 2)
         /\ Begins(b, <<"ESC">>) /\ (Len(b) > 1 => b[2] # "[") => NextEvent(b) = Took("Escape", b, 1)
         /\ Begins(b, <<"ESC", "[", "A">>) => NextEvent(b) = Took("Up", b, 3)
         /\ Begins(b, <<"ESC", "[", "3", "~">>) => NextEvent(b) = Took("Delete", b, 4)
<1>0. Len(b) \in Nat
  OBVIOUS
<1>1. ASSUME Begins(b, <<"^C">>) PROVE NextEvent(b) = Took("CtrlC", b, 1)
  <2>1. b[1] = "^C"
    BY <1>1 DEF Begins
  <2>2. QED BY <2>1 DEF NextEvent, Controls
<1>2. ASSUME Begins(b, <<"lead", "tail">>) PROVE NextEvent(b) = Took("wide", b, 2)
  <2>1. Len(b) >= 2 /\ b[1] = "lead" /\ b[2] = "tail"
    BY <1>2 DEF Begins
  <2>2. QED BY <1>0, <2>1 DEF NextEvent, Controls
<1>3. ASSUME Begins(b, <<"ESC">>), Len(b) > 1 => b[2] # "[" PROVE NextEvent(b) = Took("Escape", b, 1)
  <2>1. Len(b) >= 1 /\ b[1] = "ESC"
    BY <1>3 DEF Begins
  <2>2. Len(b) < 3 \/ b[2] # "["
    BY <1>0, <1>3, <2>1
  <2>3. QED BY <2>1, <2>2, EscapeIs
<1>4. ASSUME Begins(b, <<"ESC", "[", "A">>) PROVE NextEvent(b) = Took("Up", b, 3)
  <2>1. Len(b) >= 3 /\ b[1] = "ESC" /\ b[2] = "[" /\ b[3] = "A"
    BY <1>4 DEF Begins
  <2>2. "A" \in DOMAIN Arrows /\ Arrows["A"] = "Up"
    BY DEF Arrows
  <2>3. b[3] # "3" /\ b[3] # "M" /\ ~IsSgr(b) /\ b[3] \notin Digits
    BY <2>1 DEF IsSgr, Digits
  <2>4. CsiEvent(b) = Took("Up", b, 3)
    BY <2>1, <2>2, <2>3, Zenon DEF CsiEvent
  <2>5. QED BY <1>0, <2>1, <2>4, EscapeIs
<1>5. ASSUME Begins(b, <<"ESC", "[", "3", "~">>) PROVE NextEvent(b) = Took("Delete", b, 4)
  <2>1. Len(b) >= 4 /\ b[1] = "ESC" /\ b[2] = "[" /\ b[3] = "3" /\ b[4] = "~"
    BY <1>5 DEF Begins
  <2>2. "3" \notin DOMAIN Arrows
    BY DEF Arrows
  <2>3. b[3] # "M" /\ ~IsSgr(b) /\ b[3] \notin Digits \ {"3"} /\ Len(b) > 3
    BY <1>0, <2>1 DEF IsSgr, Digits
  <2>4. CsiEvent(b) = Took("Delete", b, 4)
    BY <2>1, <2>2, <2>3, Zenon DEF CsiEvent
  <2>5. QED BY <1>0, <2>1, <2>4, EscapeIs
<1>6. QED BY <1>1, <1>2, <1>3, <1>4, <1>5

(* Where a report of three digits ends.                                    *)
LEMMA UrxvtIs ==
  ASSUME NEW S, NEW b \in Seq(S), NEW d \in {"0", "3"}, NEW buttons, <<d>> \in buttons,
         Begins(b, <<"ESC", "[", d, "semi", "1", "semi", "1", "M">>)
  PROVE  HasMark(b, 3, {"M"}) /\ Urxvt(b, buttons) = Took("Mouse", b, 8)
<1>1. /\ Len(b) >= 8 /\ Len(b) \in Nat /\ b[3] = d /\ b[4] = "semi" /\ b[5] = "1" /\ b[6] = "semi"
      /\ b[7] = "1" /\ b[8] = "M"
  BY DEF Begins
<1>2. 8 \in 3..Len(b) /\ b[8] \in {"M"} /\ \A q \in 3..(8 - 1) : b[q] \notin {"M"}
  <2>1. \A q \in 3..7 : q = 3 \/ q = 4 \/ q = 5 \/ q = 6 \/ q = 7
    OBVIOUS
  <2>2. d # "M" /\ "semi" # "M" /\ "1" # "M"
    OBVIOUS
  <2>3. QED BY <1>1, <2>1, <2>2
<1>3. FirstAt(b, 3, {"M"}) = 8 /\ HasMark(b, 3, {"M"})
  BY <1>1, <1>2, FirstAtIs
<1>4. PICK m : m = SubSeq(b, 3, 7)
  OBVIOUS
<1>5. m \in Seq(S) /\ Len(m) = 5 /\ m[1] = d /\ m[2] = "semi" /\ m[3] = "1" /\ m[4] = "semi" /\ m[5] = "1"
  <2>1. m \in Seq(S) /\ Len(m) = 5 /\ \A i \in 1..5 : m[i] = b[(3 + i) - 1]
    <3>1. 3 \in 1..Len(b) /\ 3 + 4 <= Len(b) /\ 3 + 4 = 7
      BY <1>1
    <3>2. QED BY <1>4, <3>1, FiveOf
  <2>2. m[1] = b[3] /\ m[2] = b[4] /\ m[3] = b[5] /\ m[4] = b[6] /\ m[5] = b[7]
    BY <2>1
  <2>3. QED BY <1>1, <2>1, <2>2
<1>6. IsTriple(m) /\ FirstPart(m) = <<d>>
  <2>1. d # "semi" /\ "1" # "semi"
    OBVIOUS
  <2>2. QED BY <1>5, <2>1, TripleIs
<1>7. Urxvt(b, buttons) = Took("Mouse", b, 8)
  <2>1. 8 - 1 = 7
    OBVIOUS
  <2>2. QED BY <1>3, <1>4, <1>6, <2>1, Zenon DEF Urxvt
<1>8. QED BY <1>3, <1>7

(* A press as SGR reports it.                                              *)
LEMMA SgrIs ==
  ASSUME NEW S, NEW b \in Seq(S), Begins(b, <<"ESC", "[", "<", "0", "semi", "1", "semi", "1", "M">>)
  PROVE  IsSgr(b) /\ Sgr(b) = Took("Mouse", b, 9)
<1>1. /\ Len(b) >= 9 /\ Len(b) \in Nat /\ b[3] = "<" /\ b[4] = "0" /\ b[5] = "semi" /\ b[6] = "1"
      /\ b[7] = "semi" /\ b[8] = "1" /\ b[9] = "M"
  BY DEF Begins
<1>2. 9 \in 4..Len(b) /\ b[9] \in {"M", "m"} /\ \A q \in 4..(9 - 1) : b[q] \notin {"M", "m"}
  <2>1. \A q \in 4..8 : q = 4 \/ q = 5 \/ q = 6 \/ q = 7 \/ q = 8
    OBVIOUS
  <2>2. {"0", "semi", "1"} \cap {"M", "m"} = {}
    OBVIOUS
  <2>3. QED BY <1>1, <2>1, <2>2
<1>3. FirstAt(b, 4, {"M", "m"}) = 9 /\ HasMark(b, 4, {"M", "m"})
  BY <1>1, <1>2, FirstAtIs
<1>4. PICK m : m = SubSeq(b, 4, 8)
  OBVIOUS
<1>5. m \in Seq(S) /\ Len(m) = 5 /\ m[1] = "0" /\ m[2] = "semi" /\ m[3] = "1" /\ m[4] = "semi" /\ m[5] = "1"
  <2>1. m \in Seq(S) /\ Len(m) = 5 /\ \A i \in 1..5 : m[i] = b[(4 + i) - 1]
    <3>1. 4 \in 1..Len(b) /\ 4 + 4 <= Len(b) /\ 4 + 4 = 8
      BY <1>1
    <3>2. QED BY <1>4, <3>1, FiveOf
  <2>2. m[1] = b[4] /\ m[2] = b[5] /\ m[3] = b[6] /\ m[4] = b[7] /\ m[5] = b[8]
    BY <2>1
  <2>3. QED BY <1>1, <2>1, <2>2
<1>6. IsTriple(m) /\ FirstPart(m) = <<"0">>
  <2>1. "0" # "semi" /\ "1" # "semi"
    OBVIOUS
  <2>2. QED BY <1>5, <2>1, TripleIs
<1>7. 9 - 1 = 8 /\ Len(b) >= 6
  BY <1>1
<1>8. IsSgr(b)
  BY <1>1, <1>3, <1>4, <1>6, <1>7, Zenon DEF IsSgr
<1>9. Sgr(b) = Took("Mouse", b, 9)
  BY <1>3, <1>4, <1>6, <1>7, Zenon DEF Sgr
<1>10. QED BY <1>8, <1>9

(* The mouse reports the parser knows, in its three formats.               *)
LEMMA MouseIsRead ==
  ASSUME NEW S, NEW b \in Seq(S)
  PROVE  /\ Begins(b, <<"ESC", "[", "<", "0", "semi", "1", "semi", "1", "M">>) => NextEvent(b) = Took("Mouse", b, 9)
         /\ Begins(b, <<"ESC", "[", "M", "blank", "1", "1">>) => NextEvent(b) = Took("Mouse", b, 6)
         /\ Begins(b, <<"ESC", "[", "0", "semi", "1", "semi", "1", "M">>) => NextEvent(b) = Took("Mouse", b, 8)
         /\ Begins(b, <<"ESC", "[", "3", "semi", "1", "semi", "1", "M">>) => NextEvent(b) = Took("Mouse", b, 8)
<1>0. Len(b) \in Nat /\ DOMAIN Arrows = {"A", "B", "C", "D", "H", "F"}
  BY DEF Arrows
<1>1. ASSUME Begins(b, <<"ESC", "[", "<", "0", "semi", "1", "semi", "1", "M">>)
      PROVE  NextEvent(b) = Took("Mouse", b, 9)
  <2>1. Len(b) >= 9 /\ b[1] = "ESC" /\ b[2] = "[" /\ b[3] = "<"
    BY <1>1 DEF Begins
  <2>2. b[3] # "3" /\ b[3] # "M" /\ b[3] \notin DOMAIN Arrows /\ b[3] \notin Digits
    BY <1>0, <2>1 DEF Digits
  <2>3. IsSgr(b) /\ Sgr(b) = Took("Mouse", b, 9)
    BY <1>1, SgrIs
  <2>4. CsiEvent(b) = Took("Mouse", b, 9)
    BY <2>2, <2>3, Zenon DEF CsiEvent
  <2>5. QED BY <1>0, <2>1, <2>4, EscapeIs
<1>2. ASSUME Begins(b, <<"ESC", "[", "M", "blank", "1", "1">>) PROVE NextEvent(b) = Took("Mouse", b, 6)
  <2>1. Len(b) >= 6 /\ b[1] = "ESC" /\ b[2] = "[" /\ b[3] = "M" /\ b[4] = "blank"
    BY <1>2 DEF Begins
  <2>2. b[3] # "3" /\ b[3] \notin DOMAIN Arrows /\ b[3] \notin Digits /\ ~IsSgr(b) /\ b[4] \in {"blank", "#"}
    BY <1>0, <2>1 DEF Digits, IsSgr
  <2>3. CsiEvent(b) = Took("Mouse", b, 6)
    BY <2>1, <2>2, Zenon DEF CsiEvent
  <2>4. QED BY <1>0, <2>1, <2>3, EscapeIs
<1>3. ASSUME Begins(b, <<"ESC", "[", "0", "semi", "1", "semi", "1", "M">>)
      PROVE  NextEvent(b) = Took("Mouse", b, 8)
  <2>1. Len(b) >= 8 /\ b[1] = "ESC" /\ b[2] = "[" /\ b[3] = "0"
    BY <1>3 DEF Begins
  <2>2. b[3] # "3" /\ b[3] # "M" /\ b[3] \notin DOMAIN Arrows /\ b[3] \in Digits \ {"3"} /\ ~IsSgr(b)
    BY <1>0, <2>1 DEF Digits, IsSgr
  <2>3. <<"0">> \in {<<"0">>, <<"3">>} /\ "0" \in {"0", "3"}
    OBVIOUS
  <2>4. HasMark(b, 3, {"M"}) /\ Urxvt(b, {<<"0">>, <<"3">>}) = Took("Mouse", b, 8)
    BY <1>3, <2>3, UrxvtIs
  <2>5. CsiEvent(b) = Took("Mouse", b, 8)
    BY <2>2, <2>4, Zenon DEF CsiEvent
  <2>6. QED BY <1>0, <2>1, <2>5, EscapeIs
<1>4. ASSUME Begins(b, <<"ESC", "[", "3", "semi", "1", "semi", "1", "M">>)
      PROVE  NextEvent(b) = Took("Mouse", b, 8)
  <2>1. Len(b) >= 8 /\ b[1] = "ESC" /\ b[2] = "[" /\ b[3] = "3" /\ b[4] = "semi"
    BY <1>4 DEF Begins
  <2>2. b[3] # "M" /\ b[3] \notin DOMAIN Arrows /\ b[3] \notin Digits \ {"3"} /\ ~IsSgr(b) /\ b[4] # "~"
    BY <1>0, <2>1 DEF Digits, IsSgr
  <2>3. <<"3">> \in {<<"3">>} /\ "3" \in {"0", "3"}
    OBVIOUS
  <2>4. HasMark(b, 3, {"M"}) /\ Urxvt(b, {<<"3">>}) = Took("Mouse", b, 8)
    BY <1>4, <2>3, UrxvtIs
  <2>5. CsiEvent(b) = Took("Mouse", b, 8)
    BY <2>1, <2>2, <2>4, Zenon DEF CsiEvent
  <2>6. QED BY <1>0, <2>1, <2>5, EscapeIs
<1>5. QED BY <1>1, <1>2, <1>3, <1>4

(* The keys the parser knows are read as what they are, whatever follows.  *)
LEMMA KeyIsRead ==
  ASSUME NEW S, NEW b \in Seq(S), NEW key \in Keys, key \notin Strange, Begins(b, BytesOf(key)),
         key = "Escape" /\ Len(b) > 1 => b[2] # "["
  PROVE  NextEvent(b) = Took(EventOf(key), b, Len(BytesOf(key))) /\ EventOf(key) # "none"
<1>1. key \notin {"ESC", "^C", "lead", "tail", "none", "Mouse"}
  BY KeysAssumption
<1>2. EventOf(key) # "none"
  BY <1>1 DEF EventOf
<1>3. CASE key \notin Named
  <2>1. BytesOf(key) = <<key>> /\ Len(<<key>>) = 1
    BY <1>3, BytesAre
  <2>2. EventOf(key) = key
    BY <1>3 DEF EventOf, Mouse, Named
  <2>3. NextEvent(b) = Took(key, b, 1)
    BY <1>1, <1>3, <2>1, ShortKeyIsRead
  <2>4. QED BY <1>2, <2>1, <2>2, <2>3
<1>4. CASE key \in {"Up", "Delete", "Escape", "CtrlC", "wide"}
  <2>1. EventOf(key) = key
    BY <1>4 DEF EventOf, Mouse
  <2>2. CASE key = "Up"
    <3>1. BytesOf(key) = <<"ESC", "[", "A">> /\ Len(<<"ESC", "[", "A">>) = 3
      BY <2>2, BytesAre
    <3>2. QED BY <1>2, <2>1, <2>2, <3>1, NamedKeysAreRead
  <2>3. CASE key = "Delete"
    <3>1. BytesOf(key) = <<"ESC", "[", "3", "~">> /\ Len(<<"ESC", "[", "3", "~">>) = 4
      BY <2>3, BytesAre
    <3>2. QED BY <1>2, <2>1, <2>3, <3>1, NamedKeysAreRead
  <2>4. CASE key = "Escape"
    <3>1. BytesOf(key) = <<"ESC">> /\ Len(<<"ESC">>) = 1
      BY <2>4, BytesAre
    <3>2. QED BY <1>2, <2>1, <2>4, <3>1, NamedKeysAreRead
  <2>5. CASE key = "CtrlC"
    <3>1. BytesOf(key) = <<"^C">> /\ Len(<<"^C">>) = 1
      BY <2>5, BytesAre
    <3>2. QED BY <1>2, <2>1, <2>5, <3>1, NamedKeysAreRead
  <2>6. CASE key = "wide"
    <3>1. BytesOf(key) = <<"lead", "tail">> /\ Len(<<"lead", "tail">>) = 2
      BY <2>6, BytesAre
    <3>2. QED BY <1>2, <2>1, <2>6, <3>1, NamedKeysAreRead
  <2>7. QED BY <1>4, <2>2, <2>3, <2>4, <2>5, <2>6
<1>5. CASE key \in Mouse
  <2>1. EventOf(key) = "Mouse"
    BY <1>5 DEF EventOf
  <2>2. CASE key = "Press"
    <3>1. PICK t : t = <<"ESC", "[", "<", "0", "semi", "1", "semi", "1", "M">>
      OBVIOUS
    <3>2. BytesOf(key) = t /\ Len(t) = 9
      BY <2>2, <3>1, BytesAre
    <3>3. NextEvent(b) = Took("Mouse", b, 9)
      BY <3>1, <3>2, MouseIsRead
    <3>4. QED BY <1>2, <2>1, <3>2, <3>3
  <2>3. CASE key = "Press1000"
    <3>1. PICK t : t = <<"ESC", "[", "M", "blank", "1", "1">>
      OBVIOUS
    <3>2. BytesOf(key) = t /\ Len(t) = 6
      BY <2>3, <3>1, BytesAre
    <3>3. NextEvent(b) = Took("Mouse", b, 6)
      BY <3>1, <3>2, MouseIsRead
    <3>4. QED BY <1>2, <2>1, <3>2, <3>3
  <2>4. CASE key = "Press1015"
    <3>1. PICK t : t = <<"ESC", "[", "0", "semi", "1", "semi", "1", "M">>
      OBVIOUS
    <3>2. BytesOf(key) = t /\ Len(t) = 8
      BY <2>4, <3>1, BytesAre
    <3>3. NextEvent(b) = Took("Mouse", b, 8)
      BY <3>1, <3>2, MouseIsRead
    <3>4. QED BY <1>2, <2>1, <3>2, <3>3
  <2>5. CASE key = "Release1015"
    <3>1. PICK t : t = <<"ESC", "[", "3", "semi", "1", "semi", "1", "M">>
      OBVIOUS
    <3>2. BytesOf(key) = t /\ Len(t) = 8
      BY <2>5, <3>1, BytesAre
    <3>3. NextEvent(b) = Took("Mouse", b, 8)
      BY <3>1, <3>2, MouseIsRead
    <3>4. QED BY <1>2, <2>1, <3>2, <3>3
  <2>6. QED BY <1>5, <2>2, <2>3, <2>4, <2>5 DEF Mouse
<1>6. QED BY <1>3, <1>4, <1>5 DEF Named, Mouse

-----------------------------------------------------------------------------
(* TermInput: where keys end, and the events of keys.                      *)

(* The bytes there are.                                                    *)
Alphabet ==
  Keys \cup {"ESC", "[", "A", "3", "~", "^C", "lead", "tail", "Z", "1", "semi", "5", "C", "<", "0",
             "M", "6", "blank", "a"}

(* Every key has bytes, and only a typed "[" starts with one.              *)
LEMMA BytesTyped ==
  ASSUME NEW key \in Keys
  PROVE  /\ BytesOf(key) \in Seq(Alphabet) /\ Len(BytesOf(key)) \in Nat /\ Len(BytesOf(key)) >= 1
         /\ key # "[" => BytesOf(key)[1] # "["
<1>1. CASE key \in {"Up", "Delete", "Escape", "CtrlC", "wide"}
  <2>1. CASE key = "Up"
    <3>1. BytesOf(key) = <<"ESC", "[", "A">>
      BY <2>1, BytesAre
    <3>2. QED BY <3>1, <2>1 DEF Alphabet
  <2>2. CASE key = "Delete"
    <3>1. BytesOf(key) = <<"ESC", "[", "3", "~">>
      BY <2>2, BytesAre
    <3>2. QED BY <3>1, <2>2 DEF Alphabet
  <2>3. CASE key = "Escape"
    <3>1. BytesOf(key) = <<"ESC">>
      BY <2>3, BytesAre
    <3>2. QED BY <3>1, <2>3 DEF Alphabet
  <2>4. CASE key = "CtrlC"
    <3>1. BytesOf(key) = <<"^C">>
      BY <2>4, BytesAre
    <3>2. QED BY <3>1, <2>4 DEF Alphabet
  <2>5. CASE key = "wide"
    <3>1. BytesOf(key) = <<"lead", "tail">>
      BY <2>5, BytesAre
    <3>2. QED BY <3>1, <2>5 DEF Alphabet
  <2>6. QED BY <1>1, <2>1, <2>2, <2>3, <2>4, <2>5
<1>2. CASE key \in Mouse
  <2>1. CASE key = "Press"
    <3>1. BytesOf(key) = <<"ESC", "[", "<", "0", "semi", "1", "semi", "1", "M">>
      BY <2>1, BytesAre
    <3>2. QED BY <3>1, <2>1 DEF Alphabet
  <2>2. CASE key = "Press1000"
    <3>1. BytesOf(key) = <<"ESC", "[", "M", "blank", "1", "1">>
      BY <2>2, BytesAre
    <3>2. QED BY <3>1, <2>2 DEF Alphabet
  <2>3. CASE key = "Press1015"
    <3>1. BytesOf(key) = <<"ESC", "[", "0", "semi", "1", "semi", "1", "M">>
      BY <2>3, BytesAre
    <3>2. QED BY <3>1, <2>3 DEF Alphabet
  <2>4. CASE key = "Release1015"
    <3>1. BytesOf(key) = <<"ESC", "[", "3", "semi", "1", "semi", "1", "M">>
      BY <2>4, BytesAre
    <3>2. QED BY <3>1, <2>4 DEF Alphabet
  <2>5. QED BY <1>2, <2>1, <2>2, <2>3, <2>4 DEF Mouse
<1>3. CASE key \in Strange
  <2>1. CASE key = "ShiftTab"
    <3>1. BytesOf(key) = <<"ESC", "[", "Z">>
      BY <2>1 DEF BytesOf
    <3>2. QED BY <3>1, <2>1 DEF Alphabet
  <2>2. CASE key = "CtrlRight"
    <3>1. BytesOf(key) = <<"ESC", "[", "1", "semi", "5", "C">>
      BY <2>2 DEF BytesOf
    <3>2. QED BY <3>1, <2>2 DEF Alphabet
  <2>3. CASE key = "Wheel"
    <3>1. BytesOf(key) = <<"ESC", "[", "<", "6", "semi", "1", "semi", "1", "M">>
      BY <2>3 DEF BytesOf
    <3>2. QED BY <3>1, <2>3 DEF Alphabet
  <2>4. CASE key = "Wheel1000"
    <3>1. BytesOf(key) = <<"ESC", "[", "M", "a", "1", "1">>
      BY <2>4 DEF BytesOf
    <3>2. QED BY <3>1, <2>4 DEF Alphabet
  <2>5. QED BY <1>3, <2>1, <2>2, <2>3, <2>4 DEF Strange
<1>4. CASE key \notin Named \cup Strange
  <2>1. BytesOf(key) = <<key>>
    BY <1>4, BytesAre
  <2>2. key \in Alphabet
    BY DEF Alphabet
  <2>3. QED BY <2>1, <2>2
<1>5. QED BY <1>1, <1>2, <1>3, <1>4 DEF Named, Mouse

(* Where keys end are numbers.                                             *)
LEMMA EndsTyped ==
  ASSUME NEW keys \in Seq(Keys)
  PROVE  \A n \in 0..Len(keys) : Ends(keys)[n] \in Nat
<1> DEFINE E == Ends(keys)
           Bad == {n \in Nat : n <= Len(keys) /\ E[n] \notin Nat}
<1>1. SUFFICES ASSUME Bad # {} PROVE FALSE
  OBVIOUS
<1>2. PICK m \in Bad : \A k \in Bad : m <= k
  BY <1>1, SmallestElement
<1>3. Len(keys) \in Nat
  OBVIOUS
<1>4. E[0] = 0 /\ \A n \in 1..Len(keys) : E[n] = E[n - 1] + Len(BytesOf(keys[n]))
  BY <1>3, EndsAre
<1> HIDE DEF E
<1>5. m # 0 /\ m \in 1..Len(keys)
  BY <1>2, <1>3, <1>4
<1>6. E[m - 1] \in Nat
  BY <1>2, <1>5
<1>7. keys[m] \in Keys
  BY <1>5
<1>8. Len(BytesOf(keys[m])) \in Nat
  BY <1>7, BytesTyped
<1>9. QED BY <1>2, <1>4, <1>5, <1>6, <1>8

(* Every key ends behind the one before it, by a byte at least.            *)
LEMMA EndsGrow ==
  ASSUME NEW keys \in Seq(Keys), NEW k \in 0..Len(keys), NEW m \in k..Len(keys)
  PROVE  Ends(keys)[m] >= Ends(keys)[k] + (m - k)
<1> DEFINE E == Ends(keys)
           Bad == {n \in Nat : n >= k /\ n <= Len(keys) /\ ~(E[n] >= E[k] + (n - k))}
<1>1. SUFFICES ASSUME Bad # {} PROVE FALSE
  <2>1. m \in Nat /\ m \notin Bad
    OBVIOUS
  <2>2. QED BY <2>1
<1>2. PICK p \in Bad : \A n \in Bad : p <= n
  BY <1>1, SmallestElement
<1>3. Len(keys) \in Nat
  OBVIOUS
<1>4. \A n \in 1..Len(keys) : E[n] = E[n - 1] + Len(BytesOf(keys[n]))
  BY <1>3, EndsAre
<1>5. \A n \in 0..Len(keys) : E[n] \in Nat
  BY EndsTyped
<1> HIDE DEF E
<1>6. p # k /\ p \in 1..Len(keys) /\ p - 1 \in Nat /\ p - 1 >= k
  BY <1>2, <1>3, <1>5
<1>7. E[p - 1] >= E[k] + ((p - 1) - k) /\ E[p - 1] \in Nat /\ E[k] \in Nat
  BY <1>2, <1>5, <1>6
<1>8. keys[p] \in Keys
  BY <1>6
<1>9. Len(BytesOf(keys[p])) \in Nat /\ Len(BytesOf(keys[p])) >= 1
  BY <1>8, BytesTyped
<1>10. E[p] = E[p - 1] + Len(BytesOf(keys[p]))
  BY <1>4, <1>6
<1>11. QED BY <1>2, <1>6, <1>7, <1>9, <1>10

(* A key more changes nothing of those before it.                          *)
LEMMA EndsOfAppend ==
  ASSUME NEW keys \in Seq(Keys), NEW key \in Keys, NEW n \in 0..Len(keys)
  PROVE  Ends(Append(keys, key))[n] = Ends(keys)[n]
<1> DEFINE more == Append(keys, key)
           E == Ends(keys)
           F == Ends(more)
           Bad == {p \in Nat : p <= Len(keys) /\ F[p] # E[p]}
<1>1. SUFFICES ASSUME Bad # {} PROVE FALSE
  <2>1. n \in Nat /\ n \notin Bad
    OBVIOUS
  <2>2. QED BY <2>1
<1>2. PICK p \in Bad : \A q \in Bad : p <= q
  BY <1>1, SmallestElement
<1>3. Len(keys) \in Nat /\ Len(more) = Len(keys) + 1 /\ \A i \in 1..Len(keys) : more[i] = keys[i]
  OBVIOUS
<1> HIDE DEF more
<1>4. E[0] = 0 /\ \A i \in 1..Len(keys) : E[i] = E[i - 1] + Len(BytesOf(keys[i]))
  BY <1>3, EndsAre
<1>5. Len(more) \in Nat
  BY <1>3
<1>6. F[0] = 0 /\ \A i \in 1..Len(more) : F[i] = F[i - 1] + Len(BytesOf(more[i]))
  BY <1>5, EndsAre
<1> HIDE DEF E, F
<1>7. p # 0 /\ p \in 1..Len(keys) /\ p \in 1..Len(more)
  BY <1>2, <1>3, <1>4, <1>6
<1>8. F[p - 1] = E[p - 1]
  BY <1>2, <1>7
<1>9. more[p] = keys[p]
  BY <1>3, <1>7
<1>10. F[p] = E[p]
  BY <1>4, <1>6, <1>7, <1>8, <1>9
<1>11. QED BY <1>2, <1>10

(* ... nor of their events.                                                *)
LEMMA EventsOfAppend ==
  ASSUME NEW keys \in Seq(Keys), NEW key \in Keys, NEW n \in 0..Len(keys)
  PROVE  EventsOf(Append(keys, key))[n] = EventsOf(keys)[n]
<1> DEFINE more == Append(keys, key)
           E == EventsOf(keys)
           F == EventsOf(more)
           Bad == {p \in Nat : p <= Len(keys) /\ F[p] # E[p]}
<1>1. SUFFICES ASSUME Bad # {} PROVE FALSE
  <2>1. n \in Nat /\ n \notin Bad
    OBVIOUS
  <2>2. QED BY <2>1
<1>2. PICK p \in Bad : \A q \in Bad : p <= q
  BY <1>1, SmallestElement
<1>3. Len(keys) \in Nat /\ Len(more) = Len(keys) + 1 /\ \A i \in 1..Len(keys) : more[i] = keys[i]
  OBVIOUS
<1> HIDE DEF more
<1>4. E[0] = <<>> /\ \A i \in 1..Len(keys) : E[i] = (IF keys[i] \in Mouse THEN E[i - 1] ELSE Append(E[i - 1], keys[i]))
  BY <1>3, EventsAre
<1>5. Len(more) \in Nat
  BY <1>3
<1>6. F[0] = <<>> /\ \A i \in 1..Len(more) : F[i] = (IF more[i] \in Mouse THEN F[i - 1] ELSE Append(F[i - 1], more[i]))
  BY <1>5, EventsAre
<1> HIDE DEF E, F
<1>7. p # 0 /\ p \in 1..Len(keys) /\ p \in 1..Len(more)
  BY <1>2, <1>3, <1>4, <1>6
<1>8. F[p - 1] = E[p - 1]
  BY <1>2, <1>7
<1>9. more[p] = keys[p]
  BY <1>3, <1>7
<1>10. F[p] = E[p]
  BY <1>4, <1>6, <1>7, <1>8, <1>9
<1>11. QED BY <1>2, <1>10

(* The events of keys are keys.                                            *)
LEMMA EventsTyped ==
  ASSUME NEW keys \in Seq(Keys)
  PROVE  \A n \in 0..Len(keys) : EventsOf(keys)[n] \in Seq(Keys)
<1> DEFINE E == EventsOf(keys)
           Bad == {n \in Nat : n <= Len(keys) /\ E[n] \notin Seq(Keys)}
<1>1. SUFFICES ASSUME Bad # {} PROVE FALSE
  OBVIOUS
<1>2. PICK m \in Bad : \A k \in Bad : m <= k
  BY <1>1, SmallestElement
<1>3. Len(keys) \in Nat
  OBVIOUS
<1>4. E[0] = <<>> /\ \A i \in 1..Len(keys) : E[i] = (IF keys[i] \in Mouse THEN E[i - 1] ELSE Append(E[i - 1], keys[i]))
  BY <1>3, EventsAre
<1> HIDE DEF E
<1>5. m # 0 /\ m \in 1..Len(keys)
  <2>1. E[0] \in Seq(Keys)
    BY <1>4
  <2>2. QED BY <1>2, <1>3, <2>1
<1>6. E[m - 1] \in Seq(Keys)
  BY <1>2, <1>5
<1>7. keys[m] \in Keys
  BY <1>5
<1>8. E[m] = E[m - 1] \/ E[m] = Append(E[m - 1], keys[m])
  BY <1>4, <1>5
<1>9. E[m] \in Seq(Keys)
  <2>1. \A s \in Seq(Keys), key \in Keys : Append(s, key) \in Seq(Keys)
    OBVIOUS
  <2>2. QED BY <1>6, <1>7, <1>8, <2>1, Zenon
<1>10. QED BY <1>2, <1>9

-----------------------------------------------------------------------------
(* TermInput: the loop of drain_stdin takes key by key.                    *)

(* The bytes of keys k + 1 to m, and nothing else.                         *)
Holds(b, keys, k, m) ==
  /\ Len(b) = Ends(keys)[m] - Ends(keys)[k]
  /\ \A i \in (k + 1)..m : \A j \in 1..Len(BytesOf(keys[i])) :
       b[(Ends(keys)[i - 1] - Ends(keys)[k]) + j] = BytesOf(keys[i])[j]

(* Such bytes may be cut where a key ends.                                 *)
LEMMA HoldsCut ==
  ASSUME NEW S, NEW b \in Seq(S), NEW keys \in Seq(Keys), NEW k \in 0..Len(keys), NEW m \in k..Len(keys),
         NEW p \in k..m, Holds(b, keys, k, m)
  PROVE  LET n == Ends(keys)[p] - Ends(keys)[k]
         IN /\ n \in 0..Len(b)
            /\ Holds(SubSeq(b, 1, n), keys, k, p)
            /\ Holds(SubSeq(b, n + 1, Len(b)), keys, p, m)
<1> DEFINE E == Ends(keys)
           n == E[p] - E[k]
           T(i) == Len(BytesOf(keys[i]))
<1>1. Len(keys) \in Nat /\ Len(b) \in Nat
  OBVIOUS
<1>2. \A i \in 1..Len(keys) : E[i] = E[i - 1] + T(i)
  BY <1>1, EndsAre
<1>3. \A i \in 0..Len(keys) : E[i] \in Nat
  BY EndsTyped
<1>4. \A i \in 1..Len(keys) : T(i) \in Nat
  BY BytesTyped
<1>5. \A i \in 0..Len(keys) : \A j \in i..Len(keys) : E[j] >= E[i]
  <2> SUFFICES ASSUME NEW i \in 0..Len(keys), NEW j \in i..Len(keys) PROVE E[j] >= E[i]
    OBVIOUS
  <2>1. E[j] >= E[i] + (j - i)
    BY EndsGrow
  <2>2. E[j] \in Nat /\ E[i] \in Nat /\ j - i \in Nat
    BY <1>3
  <2> HIDE DEF E
  <2>3. QED BY <2>1, <2>2
<1>6. /\ Len(b) = E[m] - E[k]
      /\ \A i \in (k + 1)..m : \A j \in 1..T(i) : b[(E[i - 1] - E[k]) + j] = BytesOf(keys[i])[j]
  BY DEF Holds
<1>7. Holds(SubSeq(b, 1, n), keys, k, p) <=>
        /\ Len(SubSeq(b, 1, n)) = E[p] - E[k]
        /\ \A i \in (k + 1)..p : \A j \in 1..T(i) : SubSeq(b, 1, n)[(E[i - 1] - E[k]) + j] = BytesOf(keys[i])[j]
  BY DEF Holds
<1>8. Holds(SubSeq(b, n + 1, Len(b)), keys, p, m) <=>
        /\ Len(SubSeq(b, n + 1, Len(b))) = E[m] - E[p]
        /\ \A i \in (p + 1)..m : \A j \in 1..T(i) :
             SubSeq(b, n + 1, Len(b))[(E[i - 1] - E[p]) + j] = BytesOf(keys[i])[j]
  BY DEF Holds
<1>9. QED
  <2> HIDE DEF E, T
  <2>1. E[p] \in Nat /\ E[k] \in Nat /\ E[m] \in Nat /\ E[p] >= E[k] /\ E[m] >= E[p]
    BY <1>1, <1>3, <1>5
  <2>2. n \in 0..Len(b)
    BY <1>6, <2>1
  <2>3. Len(SubSeq(b, 1, n)) = E[p] - E[k] /\ \A x \in 1..n : SubSeq(b, 1, n)[x] = b[x]
    BY <2>1, <2>2
  <2>4. /\ Len(SubSeq(b, n + 1, Len(b))) = E[m] - E[p]
        /\ \A x \in 1..(Len(b) - n) : SubSeq(b, n + 1, Len(b))[x] = b[n + x]
    <3>1. Len(b) - n = E[m] - E[p]
      BY <1>1, <1>6, <2>1
    <3> HIDE DEF n
    <3>2. \A c \in 0..Len(b) : /\ Len(SubSeq(b, c + 1, Len(b))) = Len(b) - c
                              /\ \A x \in 1..(Len(b) - c) : SubSeq(b, c + 1, Len(b))[x] = b[c + x]
      OBVIOUS
    <3>3. /\ Len(SubSeq(b, n + 1, Len(b))) = Len(b) - n
          /\ \A x \in 1..(Len(b) - n) : SubSeq(b, n + 1, Len(b))[x] = b[n + x]
      BY <2>2, <3>2
    <3>4. QED BY <3>1, <3>3
  <2>5. ASSUME NEW i \in (k + 1)..p, NEW j \in 1..T(i)
        PROVE  SubSeq(b, 1, n)[(E[i - 1] - E[k]) + j] = BytesOf(keys[i])[j]
    <3>1. i \in 1..Len(keys) /\ i - 1 \in 0..Len(keys) /\ i \in 0..Len(keys) /\ k <= i - 1 /\ i <= p
      BY <1>1
    <3>2. E[i] = E[i - 1] + T(i) /\ E[i] \in Nat /\ E[i - 1] \in Nat /\ T(i) \in Nat
      BY <1>2, <1>3, <1>4, <3>1
    <3>3. E[i - 1] >= E[k] /\ E[p] >= E[i]
      BY <1>5, <3>1
    <3>4. (E[i - 1] - E[k]) + j \in 1..n
      BY <2>1, <3>2, <3>3
    <3>5. i \in (k + 1)..m
      OBVIOUS
    <3>6. b[(E[i - 1] - E[k]) + j] = BytesOf(keys[i])[j]
      BY <1>6, <3>5
    <3>7. QED BY <2>3, <3>4, <3>6
  <2>6. ASSUME NEW i \in (p + 1)..m, NEW j \in 1..T(i)
        PROVE  SubSeq(b, n + 1, Len(b))[(E[i - 1] - E[p]) + j] = BytesOf(keys[i])[j]
    <3>1. i \in 1..Len(keys) /\ i - 1 \in 0..Len(keys) /\ i \in 0..Len(keys) /\ p <= i - 1 /\ i <= m
      BY <1>1
    <3>2. E[i] = E[i - 1] + T(i) /\ E[i] \in Nat /\ E[i - 1] \in Nat /\ T(i) \in Nat
      BY <1>2, <1>3, <1>4, <3>1
    <3>3. E[i - 1] >= E[p] /\ E[m] >= E[i]
      BY <1>5, <3>1
    <3>4. (E[i - 1] - E[p]) + j \in 1..(Len(b) - n)
      <4>1. Len(b) - n = E[m] - E[p]
        BY <1>1, <1>6, <2>1
      <4>2. \A u, v, w, x, t \in Nat : \A y \in 1..t :
              v = u + t /\ u >= w /\ x >= v => (u - w) + y \in 1..(x - w)
        OBVIOUS
      <4> HIDE DEF n
      <4>4. (E[i - 1] - E[p]) + j \in 1..(E[m] - E[p])
        BY <2>1, <3>2, <3>3, <4>2
      <4>5. QED BY <4>1, <4>4
    <3>5. i \in (k + 1)..m
      OBVIOUS
    <3>6. b[(E[i - 1] - E[k]) + j] = BytesOf(keys[i])[j]
      BY <1>6, <3>5
    <3>7. n + ((E[i - 1] - E[p]) + j) = (E[i - 1] - E[k]) + j
      BY <2>1, <3>2
    <3>8. QED BY <2>4, <3>4, <3>6, <3>7
  <2>7. Holds(SubSeq(b, 1, n), keys, k, p)
    BY <1>7, <2>3, <2>5
  <2>8. Holds(SubSeq(b, n + 1, Len(b)), keys, p, m)
    BY <1>8, <2>4, <2>6
  <2>9. QED BY <2>2, <2>7, <2>8 DEF E

(* What one turn of the loop leaves.                                       *)
Behind(b, key) == SubSeq(b, Len(BytesOf(key)) + 1, Len(b))
(* ... and what it has given out.                                          *)
Given(out, key) == IF key \in Mouse THEN out ELSE Append(out, key)

(* One turn of the loop takes the next key and nothing of what follows it. *)
LEMMA DrainTakesAKey ==
  ASSUME NEW b \in Seq(Alphabet), NEW keys \in Seq(Keys), ~Ambiguous(keys),
         NEW k \in 0..Len(keys), NEW m \in k..Len(keys), k < m, Holds(b, keys, k, m), NEW out
  PROVE  /\ Behind(b, keys[k + 1]) \in Seq(Alphabet) /\ Holds(Behind(b, keys[k + 1]), keys, k + 1, m)
         /\ Drain([buf |-> b, over |-> FALSE, out |-> out]) =
              [buf |-> Behind(b, keys[k + 1]), over |-> FALSE, out |-> Given(out, keys[k + 1])]
<1> DEFINE E == Ends(keys)
           key == keys[k + 1]
           n == Len(BytesOf(key))
           rest == SubSeq(b, n + 1, Len(b))
           st == [buf |-> b, over |-> FALSE, out |-> out]
<1>1. Len(keys) \in Nat /\ Len(b) \in Nat /\ k + 1 \in 1..Len(keys) /\ k + 1 \in k..m /\ key \in Keys
  OBVIOUS
<1>2. E[k + 1] = E[k] + n
  <2>1. (k + 1) - 1 = k
    OBVIOUS
  <2>2. E[k + 1] = E[(k + 1) - 1] + n
    BY <1>1, EndsAre
  <2>3. QED BY <2>1, <2>2
<1>3. E[k] \in Nat /\ E[k + 1] \in Nat /\ E[m] \in Nat
  BY <1>1, EndsTyped
<1>4. n \in Nat /\ n >= 1 /\ BytesOf(key) \in Seq(Alphabet)
  BY <1>1, BytesTyped
<1>5. E[m] >= E[k + 1] + (m - (k + 1))
  <2>1. k + 1 \in 0..Len(keys) /\ m \in (k + 1)..Len(keys)
    BY <1>1
  <2>2. QED BY <2>1, EndsGrow
<1>6. E[k + 1] - E[k] = n
  <2> HIDE DEF E, n
  <2>1. QED BY <1>2, <1>3, <1>4
<1>7. Holds(rest, keys, k + 1, m)
  BY <1>1, <1>6, HoldsCut
<1>8. rest \in Seq(Alphabet)
  <2> HIDE DEF n
  <2>1. \A s \in Seq(Alphabet), c \in Nat : SubSeq(s, c + 1, Len(s)) \in Seq(Alphabet)
    OBVIOUS
  <2>2. QED BY <1>4, <2>1
<1>9. Len(b) = E[m] - E[k]
  BY DEF Holds
<1>10. Begins(b, BytesOf(key))
  <2>1. \A j \in 1..n : b[(E[(k + 1) - 1] - E[k]) + j] = BytesOf(key)[j]
    BY <1>1 DEF Holds
  <2>2. (k + 1) - 1 = k
    OBVIOUS
  <2>3. \A j \in 1..n : b[j] = BytesOf(key)[j]
    <3>1. \A j \in 1..n : (E[(k + 1) - 1] - E[k]) + j = j
      <4> HIDE DEF E, n
      <4>1. QED BY <1>3, <1>4, <2>2
    <3> HIDE DEF E, key, n
    <3>2. QED BY <2>1, <3>1
  <2>4. n <= Len(b)
    <3> HIDE DEF E, n
    <3>1. m - (k + 1) \in Nat
      OBVIOUS
    <3>2. QED BY <1>1, <1>2, <1>3, <1>4, <1>5, <1>9, <3>1
  <2>5. QED BY <2>3, <2>4 DEF Begins
<1>11. ASSUME key = "Escape", Len(b) > 1 PROVE b[2] # "["
  <2>1. n = 1
    BY <1>11, BytesAre
  <2>2. k + 1 < m
    <3>1. SUFFICES ASSUME k + 1 = m PROVE FALSE
      BY <1>1
    <3> HIDE DEF E, n
    <3>2. QED BY <1>2, <1>3, <1>9, <1>11, <2>1, <3>1
  <2>3. k + 2 \in 2..Len(keys) /\ k + 2 \in (k + 1)..m /\ (k + 2) - 1 = k + 1 /\ keys[k + 2] \in Keys
    BY <2>2
  <2>4. keys[k + 2] # "["
    <3> HIDE DEF E, n
    <3>1. QED BY <1>11, <2>3 DEF Ambiguous
  <2>5. BytesOf(keys[k + 2])[1] # "[" /\ 1 \in 1..Len(BytesOf(keys[k + 2]))
    BY <2>3, <2>4, BytesTyped
  <2>6. b[(E[k + 1] - E[k]) + 1] = BytesOf(keys[k + 2])[1]
    BY <2>3, <2>5 DEF Holds
  <2>7. (E[k + 1] - E[k]) + 1 = 2
    BY <1>6, <2>1
  <2>8. QED BY <2>5, <2>6, <2>7
<1>12. key \notin Strange
  <2>1. key \in ToSet(keys)
    BY <1>1 DEF ToSet
  <2>2. QED BY <2>1 DEF Ambiguous
<1>13. NextEvent(b) = Took(EventOf(key), b, n) /\ EventOf(key) # "none"
  BY <1>1, <1>10, <1>11, <1>12, KeyIsRead
<1>14. NextEvent(b).event = EventOf(key) /\ NextEvent(b).rest = rest
  BY <1>13 DEF Took
<1>15. EventOf(key) = "Mouse" <=> key \in Mouse
  BY <1>1, KeysAssumption DEF EventOf
<1>16. key \notin Mouse => EventOf(key) = key
  BY DEF EventOf
<1>17. b # <<>>
  <2>1. Len(b) >= 1
    BY <1>4, <1>10 DEF Begins
  <2>2. QED BY <2>1
<1>18. st.buf = b /\ st.over = FALSE /\ st.out = out
  OBVIOUS
<1>19. Drain(st) = [buf |-> rest, over |-> FALSE, out |-> IF key \in Mouse THEN out ELSE Append(out, key)]
  <2> HIDE DEF st, rest, key, n
  <2>1. Drain(st) = [buf |-> NextEvent(b).rest, over |-> NextEvent(b).event = "none",
                     out |-> IF NextEvent(b).event \in {"none", "Mouse"} THEN out ELSE Append(out, NextEvent(b).event)]
    BY <1>17, <1>18, Zenon DEF Drain
  <2>2. (NextEvent(b).event = "none") = FALSE
    BY <1>13, <1>14
  <2>3. (IF NextEvent(b).event \in {"none", "Mouse"} THEN out ELSE Append(out, NextEvent(b).event)) =
          (IF key \in Mouse THEN out ELSE Append(out, key))
    BY <1>13, <1>14, <1>15, <1>16
  <2>4. QED BY <1>14, <2>1, <2>2, <2>3, Zenon
<1>20. QED BY <1>7, <1>8, <1>19 DEF Behind, Given

(* A loop that has started with the bytes of whole keys takes them all,    *)
(* and gives out their events.                                             *)
LEMMA DrainedKeys ==
  ASSUME NEW b \in Seq(Alphabet), NEW keys \in Seq(Keys), ~Ambiguous(keys),
         NEW k \in 0..Len(keys), NEW m \in k..Len(keys), Holds(b, keys, k, m)
  PROVE  /\ Drained(b).buf = <<>>
         /\ EventsOf(keys)[k] \o Drained(b).out = EventsOf(keys)[m]
<1> DEFINE E == Ends(keys)
           V == EventsOf(keys)
<1>1. Len(keys) \in Nat /\ Len(b) \in Nat /\ m - k \in Nat
  OBVIOUS
<1>2. PICK f : /\ Drained(b) = f[Len(b)]
               /\ f[0] = [buf |-> b, over |-> FALSE, out |-> <<>>]
               /\ \A n \in 1..Len(b) : f[n] = Drain(f[n - 1])
  BY <1>1, DrainedIs
<1>3. m - k <= Len(b)
  <2>1. Len(b) = E[m] - E[k]
    BY DEF Holds
  <2>2. E[m] >= E[k] + (m - k) /\ E[m] \in Nat /\ E[k] \in Nat
    BY EndsGrow, EndsTyped
  <2> HIDE DEF E
  <2>3. QED BY <1>1, <2>1, <2>2
<1>4. \A n \in 0..Len(keys) : V[n] \in Seq(Keys)
  BY EventsTyped
<1>5. \A n \in 1..Len(keys) : V[n] = (IF keys[n] \in Mouse THEN V[n - 1] ELSE Append(V[n - 1], keys[n]))
  BY <1>1, EventsAre
<1> HIDE DEF V
<1> DEFINE Taken(j) ==
             \E rest \in Seq(Alphabet), out \in Seq(Keys) :
               /\ f[j] = [buf |-> rest, over |-> FALSE, out |-> out]
               /\ Holds(rest, keys, k + j, m)
               /\ V[k] \o out = V[k + j]
<1>6. Taken(0)
  <2>1. <<>> \in Seq(Keys) /\ k + 0 = k
    OBVIOUS
  <2>2. V[k] \o <<>> = V[k + 0]
    <3>1. \A s \in Seq(Keys) : s \o <<>> = s
      OBVIOUS
    <3>2. QED BY <1>1, <1>4, <2>1, <3>1
  <2>3. Holds(b, keys, k + 0, m)
    BY <2>1
  <2>4. QED BY <1>2, <2>1, <2>2, <2>3
<1>7. ASSUME NEW j \in 1..(m - k), Taken(j - 1) PROVE Taken(j)
  <2>1. PICK rest \in Seq(Alphabet), out \in Seq(Keys) :
          /\ f[j - 1] = [buf |-> rest, over |-> FALSE, out |-> out]
          /\ Holds(rest, keys, k + (j - 1), m)
          /\ V[k] \o out = V[k + (j - 1)]
    BY <1>7
  <2> DEFINE p == k + (j - 1)
  <2>2. p \in 0..Len(keys) /\ m \in p..Len(keys) /\ p < m /\ p + 1 = k + j /\ p + 1 \in 1..Len(keys) /\ (p + 1) - 1 = p
    BY <1>1
  <2>3. j \in 1..Len(b)
    BY <1>1, <1>3
  <2>4. f[j] = Drain([buf |-> rest, over |-> FALSE, out |-> out])
    BY <1>2, <2>1, <2>3
  <2>5. Holds(rest, keys, p, m)
    BY <2>1
  <2>6. keys[p + 1] \in Keys
    BY <2>2
  <2>7. V[k] \o out = V[p]
    BY <2>1
  <2> HIDE DEF p
  <2> DEFINE left == Behind(rest, keys[p + 1])
  <2>8. /\ left \in Seq(Alphabet) /\ Holds(left, keys, p + 1, m)
        /\ f[j] = [buf |-> left, over |-> FALSE, out |-> Given(out, keys[p + 1])]
    <3>1. ~Ambiguous(keys) /\ keys \in Seq(Keys) /\ rest \in Seq(Alphabet)
      OBVIOUS
    <3>2. /\ left \in Seq(Alphabet) /\ Holds(left, keys, p + 1, m)
          /\ Drain([buf |-> rest, over |-> FALSE, out |-> out]) =
               [buf |-> left, over |-> FALSE, out |-> Given(out, keys[p + 1])]
      BY ONLY <2>2, <2>5, <3>1, DrainTakesAKey
    <3>3. QED BY <2>4, <3>2
  <2> HIDE DEF left
  <2>9. V[k] \in Seq(Keys)
    BY <1>1, <1>4
  <2>10. CASE keys[p + 1] \in Mouse
    <3>1. V[p + 1] = V[p]
      BY <1>5, <2>2, <2>10
    <3>2. f[j] = [buf |-> left, over |-> FALSE, out |-> out]
      BY <2>8, <2>10 DEF Given
    <3>3. V[k] \o out = V[p + 1]
      BY <2>7, <3>1
    <3>4. QED BY <2>2, <2>8, <3>2, <3>3
  <2>11. CASE keys[p + 1] \notin Mouse
    <3>1. V[p + 1] = Append(V[p], keys[p + 1])
      BY <1>5, <2>2, <2>11
    <3>2. f[j] = [buf |-> left, over |-> FALSE, out |-> Append(out, keys[p + 1])]
      BY <2>8, <2>11 DEF Given
    <3>3. V[k] \o Append(out, keys[p + 1]) = V[p + 1]
      <4>1. \A s, t \in Seq(Keys), e \in Keys : s \o Append(t, e) = Append(s \o t, e)
        OBVIOUS
      <4>2. V[k] \o Append(out, keys[p + 1]) = Append(V[k] \o out, keys[p + 1])
        BY <2>6, <2>9, <4>1
      <4>3. QED BY <2>7, <3>1, <4>2
    <3>4. Append(out, keys[p + 1]) \in Seq(Keys)
      <4>1. \A t \in Seq(Keys), e \in Keys : Append(t, e) \in Seq(Keys)
        OBVIOUS
      <4>2. QED BY <2>6, <4>1
    <3>5. QED BY <2>2, <2>8, <3>2, <3>3, <3>4
  <2>12. QED BY <2>10, <2>11
<1>8. Taken(m - k)
  <2> DEFINE Bad == {j \in Nat : j <= m - k /\ ~Taken(j)}
  <2> HIDE DEF Taken
  <2>1. SUFFICES ASSUME Bad # {} PROVE FALSE
    BY <1>1
  <2>2. PICK j \in Bad : \A i \in Bad : j <= i
    BY <2>1, SmallestElement
  <2>3. j # 0 /\ j \in 1..(m - k) /\ j - 1 \in Nat /\ j - 1 \notin Bad /\ j - 1 <= m - k
    BY <1>1, <1>6, <2>2
  <2>4. Taken(j - 1)
    BY <2>3
  <2>5. Taken(j)
    BY <1>7, <2>3, <2>4
  <2>6. QED BY <2>2, <2>5
<1>9. PICK rest \in Seq(Alphabet), out \in Seq(Keys) :
        /\ f[m - k] = [buf |-> rest, over |-> FALSE, out |-> out]
        /\ Holds(rest, keys, k + (m - k), m)
        /\ V[k] \o out = V[k + (m - k)]
  BY <1>8
<1>10. k + (m - k) = m
  OBVIOUS
<1>11. rest = <<>>
  <2>1. Len(rest) = E[m] - E[m] /\ E[m] \in Nat
    BY <1>9, <1>10, EndsTyped DEF Holds
  <2> HIDE DEF E
  <2>2. Len(rest) = 0
    BY <2>1
  <2>3. QED BY <2>2
<1> DEFINE last == [buf |-> <<>>, over |-> FALSE, out |-> out]
<1>12. f[m - k] = last
  BY <1>9, <1>11
<1>13. Drain(last) = last
  BY Zenon DEF Drain
<1> HIDE DEF last
<1>14. f[Len(b)] = last
  <2> DEFINE Bad == {j \in Nat : j >= m - k /\ j <= Len(b) /\ f[j] # last}
  <2>1. SUFFICES ASSUME Bad # {} PROVE FALSE
    BY <1>1, <1>3
  <2>2. PICK j \in Bad : \A i \in Bad : j <= i
    BY <2>1, SmallestElement
  <2>3. j # m - k /\ j \in 1..Len(b) /\ j - 1 \in Nat /\ j - 1 >= m - k /\ j - 1 <= Len(b)
    BY <1>1, <1>12, <2>2
  <2>4. f[j - 1] = last
    BY <2>2, <2>3
  <2>5. f[j] = last
    BY <1>2, <1>13, <2>3, <2>4
  <2>6. QED BY <2>2, <2>5
<1>15. Drained(b).buf = <<>> /\ Drained(b).out = out
  BY <1>2, <1>14 DEF last
<1>16. QED BY <1>9, <1>10, <1>15 DEF V

(* A key more puts its bytes behind those that are there.                  *)
LEMMA HoldsOfAppend ==
  ASSUME NEW b \in Seq(Alphabet), NEW keys \in Seq(Keys), NEW key \in Keys, NEW k \in 0..Len(keys),
         Holds(b, keys, k, Len(keys))
  PROVE  Holds(b \o BytesOf(key), Append(keys, key), k, Len(keys) + 1)
<1> DEFINE more == Append(keys, key)
           E == Ends(keys)
           F == Ends(more)
           t == BytesOf(key)
           L == Len(keys)
           c == b \o t
<1>1. /\ more \in Seq(Keys) /\ L \in Nat /\ Len(more) = L + 1 /\ more[L + 1] = key
      /\ \A i \in 1..L : more[i] = keys[i]
  OBVIOUS
<1>2. \A i \in 0..L : F[i] = E[i]
  BY EndsOfAppend
<1>3. \A i \in 0..L : E[i] \in Nat
  BY EndsTyped
<1>4. t \in Seq(Alphabet) /\ Len(t) \in Nat
  BY BytesTyped
<1>5. F[L + 1] = F[L] + Len(t)
  <2>1. L + 1 \in 1..Len(more) /\ (L + 1) - 1 = L /\ Len(more) \in Nat
    BY <1>1
  <2>2. F[L + 1] = F[(L + 1) - 1] + Len(BytesOf(more[L + 1]))
    BY <2>1, EndsAre
  <2>3. QED BY <1>1, <2>1, <2>2
<1>6. \A i \in 1..L : E[i] = E[i - 1] + Len(BytesOf(keys[i])) /\ Len(BytesOf(keys[i])) \in Nat
  <2>1. \A i \in 1..L : E[i] = E[i - 1] + Len(BytesOf(keys[i]))
    BY <1>1, EndsAre
  <2>2. \A i \in 1..L : Len(BytesOf(keys[i])) \in Nat
    BY BytesTyped
  <2>3. QED BY <2>1, <2>2
<1>7. \A i \in 0..L : \A j \in i..L : E[j] >= E[i]
  <2> SUFFICES ASSUME NEW i \in 0..L, NEW j \in i..L PROVE E[j] >= E[i]
    OBVIOUS
  <2>1. E[j] >= E[i] + (j - i)
    BY EndsGrow
  <2>2. E[j] \in Nat /\ E[i] \in Nat /\ j - i \in Nat
    BY <1>3
  <2> HIDE DEF E
  <2>3. QED BY <2>1, <2>2
<1>8. /\ Len(b) = E[L] - E[k]
      /\ \A i \in (k + 1)..L : \A j \in 1..Len(BytesOf(keys[i])) :
           b[(E[i - 1] - E[k]) + j] = BytesOf(keys[i])[j]
  BY DEF Holds
<1>9. /\ Len(c) = Len(b) + Len(t)
      /\ \A x \in 1..Len(b) : c[x] = b[x]
      /\ \A x \in 1..Len(t) : c[Len(b) + x] = t[x]
  <2>1. \A u, v \in Seq(Alphabet) : /\ Len(u \o v) = Len(u) + Len(v)
                                    /\ \A x \in 1..Len(u) : (u \o v)[x] = u[x]
                                    /\ \A x \in 1..Len(v) : (u \o v)[Len(u) + x] = v[x]
    OBVIOUS
  <2> HIDE DEF t
  <2>2. QED BY <1>4, <2>1
<1>10. Holds(c, more, k, L + 1) <=>
        /\ Len(c) = F[L + 1] - F[k]
        /\ \A i \in (k + 1)..(L + 1) : \A j \in 1..Len(BytesOf(more[i])) :
             c[(F[i - 1] - F[k]) + j] = BytesOf(more[i])[j]
  BY DEF Holds
<1> HIDE DEF more, E, F, c
<1>11. E[k] \in Nat /\ E[L] \in Nat /\ E[L] >= E[k] /\ F[k] = E[k] /\ F[L] = E[L]
  BY <1>1, <1>2, <1>3, <1>7
<1>12. Len(c) = F[L + 1] - F[k]
  <2> HIDE DEF t, L
  <2>1. QED BY <1>4, <1>5, <1>8, <1>9, <1>11
<1>13. ASSUME NEW i \in (k + 1)..(L + 1), NEW j \in 1..Len(BytesOf(more[i]))
       PROVE  c[(F[i - 1] - F[k]) + j] = BytesOf(more[i])[j]
  <2>1. CASE i = L + 1
    <3>1. i - 1 = L /\ BytesOf(more[i]) = t
      BY <1>1, <2>1
    <3>2. j \in 1..Len(t)
      BY <3>1
    <3>3. (F[i - 1] - F[k]) + j = Len(b) + j
      BY <1>8, <1>11, <3>1
    <3>4. QED BY <1>9, <3>1, <3>2, <3>3
  <2>2. CASE i # L + 1
    <3>1. i \in (k + 1)..L /\ i \in 1..L /\ i - 1 \in 0..L /\ i \in 0..L /\ k <= i - 1 /\ i <= L
      BY <1>1, <2>2
    <3>2. more[i] = keys[i] /\ F[i - 1] = E[i - 1]
      BY <1>1, <1>2, <3>1
    <3>3. j \in 1..Len(BytesOf(keys[i]))
      BY <3>2
    <3>4. b[(E[i - 1] - E[k]) + j] = BytesOf(keys[i])[j]
      BY <1>8, <3>1, <3>3
    <3>5. (E[i - 1] - E[k]) + j \in 1..Len(b)
      <4>1. \A u, v, w, x, y \in Nat : \A z \in 1..y :
              v = u + y /\ u >= w /\ x >= v => (u - w) + z \in 1..(x - w)
        OBVIOUS
      <4>2. E[i] = E[i - 1] + Len(BytesOf(keys[i])) /\ E[i] \in Nat /\ E[i - 1] \in Nat /\ Len(BytesOf(keys[i])) \in Nat
        BY <1>3, <1>6, <3>1
      <4>3. E[i - 1] >= E[k] /\ E[L] >= E[i]
        BY <1>7, <3>1
      <4>4. (E[i - 1] - E[k]) + j \in 1..(E[L] - E[k])
        BY <1>11, <3>3, <4>1, <4>2, <4>3
      <4>5. QED BY <1>8, <4>4
    <3>6. QED BY <1>9, <1>11, <3>2, <3>4, <3>5
  <2>3. QED BY <2>1, <2>2
<1>14. QED BY <1>10, <1>12, <1>13 DEF c, more

-----------------------------------------------------------------------------
(* TermInput: what is typed arrives.                                       *)

(* KeysArrive says nothing of bytes that wait.  The strengthening: what    *)
(* was read is whole keys, their events were given out, and what waits is  *)
(* the bytes of the others.                                                *)
KeyInv ==
  /\ pressed \in Seq(Keys) /\ tty \in Seq(Alphabet)
  /\ clean => \E k \in 0..Len(pressed) :
       /\ read = Ends(pressed)[k] /\ buf = <<>> /\ events = EventsOf(pressed)[k]
       /\ Holds(tty, pressed, k, Len(pressed))

(* Before anything was typed there is nothing to read.                     *)
LEMMA KeyInvHoldsAtFirst == InputInit => KeyInv
<1> SUFFICES ASSUME InputInit PROVE KeyInv
  OBVIOUS
<1>1. pressed = <<>> /\ tty = <<>> /\ read = 0 /\ buf = <<>> /\ events = <<>>
  BY DEF InputInit
<1>2. pressed \in Seq(Keys) /\ tty \in Seq(Alphabet) /\ Len(pressed) = 0 /\ Len(tty) = 0
  BY <1>1
<1>3. Ends(pressed)[0] = 0 /\ EventsOf(pressed)[0] = <<>>
  BY <1>2, EndsAre, EventsAre
<1>4. Holds(tty, pressed, 0, Len(pressed))
  BY <1>2, <1>3 DEF Holds
<1>5. 0 \in 0..Len(pressed)
  BY <1>2
<1>6. QED BY <1>1, <1>2, <1>3, <1>4, <1>5 DEF KeyInv

(* A key more waits behind the others.                                     *)
LEMMA KeyInvAfterPress ==
  ASSUME KeyInv, NEW key \in Keys, Press(key) PROVE KeyInv'
<1>1. pressed \in Seq(Keys) /\ tty \in Seq(Alphabet)
  BY DEF KeyInv
<1>2. pressed' = Append(pressed, key) /\ tty' = tty \o BytesOf(key)
  BY DEF Press
<1>3. UNCHANGED <<read, clean, buf, events>>
  BY DEF Press
<1>4. pressed' \in Seq(Keys) /\ Len(pressed') = Len(pressed) + 1 /\ Len(pressed) \in Nat
  BY <1>1, <1>2
<1>5. tty' \in Seq(Alphabet)
  <2>1. BytesOf(key) \in Seq(Alphabet)
    BY BytesTyped
  <2>2. \A s, t \in Seq(Alphabet) : s \o t \in Seq(Alphabet)
    OBVIOUS
  <2>3. QED BY <1>1, <1>2, <2>1, <2>2
<1>6. ASSUME clean'
      PROVE  \E k \in 0..Len(pressed') :
               /\ read' = Ends(pressed')[k] /\ buf' = <<>> /\ events' = EventsOf(pressed')[k]
               /\ Holds(tty', pressed', k, Len(pressed'))
  <2>1. clean
    BY <1>3, <1>6, Zenon
  <2>2. PICK k \in 0..Len(pressed) :
          /\ read = Ends(pressed)[k] /\ buf = <<>> /\ events = EventsOf(pressed)[k]
          /\ Holds(tty, pressed, k, Len(pressed))
    BY <2>1, Zenon DEF KeyInv
  <2>3. k \in 0..Len(pressed')
    BY <1>4
  <2>4. read' = Ends(pressed')[k] /\ events' = EventsOf(pressed')[k]
    BY <1>1, <1>2, <1>3, <2>2, EndsOfAppend, EventsOfAppend
  <2>5. Holds(tty', pressed', k, Len(pressed) + 1)
    BY <1>1, <1>2, <2>2, HoldsOfAppend
  <2>6. buf' = <<>>
    BY <1>3, <2>2
  <2>7. QED BY <1>4, <2>3, <2>4, <2>5, <2>6
<1>7. QED BY <1>4, <1>5, <1>6, Zenon DEF KeyInv

(* A read that ends where a key does takes whole keys.                     *)
LEMMA KeyInvAfterReadKeys ==
  ASSUME KeyInv, NEW n \in 1..Len(tty), ReadKeys(n) PROVE KeyInv'
<1> DEFINE front == SubSeq(tty, 1, n)
           back == SubSeq(tty, n + 1, Len(tty))
           all == Drained(buf \o front)
<1>1. pressed \in Seq(Keys) /\ tty \in Seq(Alphabet)
  BY DEF KeyInv
<1>2. tty' = back /\ read' = read + n /\ pressed' = pressed
  BY DEF ReadKeys
<1>3. buf' = all.buf /\ events' = events \o all.out
  BY DEF ReadKeys
<1>4. clean' => clean /\ read + n \in Boundaries /\ ~Ambiguous(pressed)
  BY Zenon DEF ReadKeys
<1>5. Len(tty) \in Nat /\ Len(pressed) \in Nat
  BY <1>1
<1>6. front \in Seq(Alphabet) /\ back \in Seq(Alphabet)
  BY <1>1, <1>5
<1>7. ASSUME clean'
      PROVE  \E k \in 0..Len(pressed) :
               /\ read' = Ends(pressed)[k] /\ buf' = <<>> /\ events' = EventsOf(pressed)[k]
               /\ Holds(tty', pressed, k, Len(pressed))
  <2>1. clean /\ read + n \in Boundaries /\ ~Ambiguous(pressed)
    BY <1>4, <1>7, Zenon
  <2>2. PICK k \in 0..Len(pressed) :
          /\ read = Ends(pressed)[k] /\ buf = <<>> /\ events = EventsOf(pressed)[k]
          /\ Holds(tty, pressed, k, Len(pressed))
    BY <2>1, Zenon DEF KeyInv
  <2>3. PICK m \in 0..Len(pressed) : read + n = Ends(pressed)[m]
    BY <2>1 DEF Boundaries
  <2>4. m \in k..Len(pressed)
    <3>1. SUFFICES ASSUME m < k PROVE FALSE
      BY <1>5
    <3>2. k \in m..Len(pressed)
      BY <3>1
    <3>3. Ends(pressed)[k] >= Ends(pressed)[m] + (k - m)
      BY <1>1, <3>2, EndsGrow
    <3>4. Ends(pressed)[k] \in Nat /\ Ends(pressed)[m] \in Nat
      BY <1>1, EndsTyped
    <3>5. QED BY <2>2, <2>3, <3>1, <3>3, <3>4
  <2>5. Ends(pressed)[m] - Ends(pressed)[k] = n
    <3>1. Ends(pressed)[k] \in Nat /\ Ends(pressed)[m] \in Nat
      BY <1>1, EndsTyped
    <3>2. QED BY <2>2, <2>3, <3>1
  <2>6. Len(pressed) \in k..Len(pressed) /\ m \in k..Len(pressed)
    BY <1>5, <2>4
  <2>7. Holds(front, pressed, k, m) /\ Holds(back, pressed, m, Len(pressed))
    BY <1>1, <2>2, <2>5, <2>6, HoldsCut
  <2>8. buf \o front = front
    <3>1. \A s \in Seq(Alphabet) : <<>> \o s = s
      OBVIOUS
    <3>2. QED BY <1>6, <2>2, <3>1
  <2>9. Drained(front).buf = <<>> /\ EventsOf(pressed)[k] \o Drained(front).out = EventsOf(pressed)[m]
    BY <1>1, <1>6, <2>1, <2>4, <2>7, DrainedKeys
  <2>10. buf' = <<>> /\ events' = EventsOf(pressed)[m]
    BY <1>3, <2>2, <2>8, <2>9
  <2>11. read' = Ends(pressed)[m] /\ Holds(tty', pressed, m, Len(pressed))
    BY <1>2, <2>3, <2>7
  <2>12. QED BY <2>10, <2>11
<1>8. QED BY <1>1, <1>2, <1>6, <1>7, Zenon DEF KeyInv

(* No other step touches the keyboard.                                     *)
LEMMA KeyInvIsKept == KeyInv /\ [InputNext]_inputVars => KeyInv'
<1> SUFFICES ASSUME KeyInv, [InputNext]_inputVars PROVE KeyInv'
  OBVIOUS
<1>1. ASSUME NEW key \in Keys, Press(key) PROVE KeyInv'
  BY <1>1, KeyInvAfterPress
<1>2. ASSUME NEW n \in 1..Len(tty), ReadKeys(n) PROVE KeyInv'
  BY <1>2, KeyInvAfterReadKeys
<1>3. ASSUME UNCHANGED keyVars PROVE KeyInv'
  <2>1. pressed' = pressed /\ tty' = tty /\ read' = read /\ clean' = clean /\ buf' = buf /\ events' = events
    BY <1>3, Zenon DEF keyVars
  <2>2. QED BY <2>1, Zenon DEF KeyInv
<1>4. Install \/ Resize \/ Handler \/ DrainAndAsk \/ Leave \/ UNCHANGED inputVars => UNCHANGED keyVars
  BY DEF Install, Resize, Handler, DrainAndAsk, DrainPipe, AskSize, Leave, inputVars
<1>5. QED BY <1>1, <1>2, <1>3, <1>4 DEF InputNext

(* Where nothing waits, the whole keys are all there are.                  *)
LEMMA KeyInvIsEnough == KeyInv => KeysArrive
<1> SUFFICES ASSUME KeyInv, clean, tty = <<>> PROVE events = KeyEvents
  BY Zenon DEF KeysArrive
<1>1. PICK k \in 0..Len(pressed) :
        events = EventsOf(pressed)[k] /\ Holds(tty, pressed, k, Len(pressed))
  BY Zenon DEF KeyInv
<1>2. pressed \in Seq(Keys) /\ Len(pressed) \in Nat
  BY DEF KeyInv
<1>3. Ends(pressed)[Len(pressed)] - Ends(pressed)[k] = 0
  BY <1>1 DEF Holds
<1>4. Ends(pressed)[Len(pressed)] >= Ends(pressed)[k] + (Len(pressed) - k)
  BY <1>2, EndsGrow
<1>5. Ends(pressed)[k] \in Nat /\ Ends(pressed)[Len(pressed)] \in Nat
  BY <1>2, EndsTyped
<1>6. k = Len(pressed)
  BY <1>2, <1>3, <1>4, <1>5
<1>7. QED BY <1>1, <1>6 DEF KeyEvents

(* What is typed is what arrives, in order and nothing added, for any keys *)
(* and reads: KeysArrive of InputParser and drain_stdin.                   *)
THEOREM KeysTypedArrive == InputSpec => []KeysArrive
<1>1. InputInit => KeyInv
  BY KeyInvHoldsAtFirst
<1>2. KeyInv /\ [InputNext]_inputVars => KeyInv'
  BY KeyInvIsKept
<1>3. KeyInv => KeysArrive
  BY KeyInvIsEnough
<1>4. QED BY <1>1, <1>2, <1>3, PTL DEF InputSpec

-----------------------------------------------------------------------------
(* Editor: Join and Split are recursive functions. That such a function is *)
(* there is shown for each length, by the smallest length without one.     *)
IsJoin(ls, N, f) ==
  f = [n \in 1..N |-> IF n = 1 THEN ls[1] ELSE f[n - 1] \o <<"NL">> \o ls[n]]

LEMMA JoinExists ==
  ASSUME NEW ls, NEW N \in Nat PROVE \E f : IsJoin(ls, N, f)
<1> DEFINE Bad == {m \in Nat : ~ \E f : IsJoin(ls, m, f)}
<1>1. SUFFICES ASSUME Bad # {} PROVE FALSE
  OBVIOUS
<1>2. PICK m \in Bad : \A k \in Bad : m <= k
  BY <1>1, SmallestElement
<1>3. m \in Nat /\ m # 0
  <2>1. IsJoin(ls, 0, [n \in 1..0 |-> 0])
    BY DEF IsJoin
  <2>2. QED BY <2>1, <1>2
<1>4. m - 1 \in Nat /\ m - 1 \notin Bad
  BY <1>2, <1>3
<1>5. PICK g : IsJoin(ls, m - 1, g)
  BY <1>4
<1> DEFINE next(n) == IF n = 1 THEN ls[1] ELSE g[n - 1] \o <<"NL">> \o ls[n]
           f == [n \in 1..m |-> next(n)]
<1>6. ASSUME NEW n \in 1..(m - 1) PROVE f[n] = g[n]
  <2>1. g = [k \in 1..(m - 1) |-> next(k)]
    BY <1>5 DEF IsJoin
  <2> HIDE DEF next
  <2>2. g[n] = next(n)
    BY <2>1
  <2>3. n \in 1..m
    BY <1>3
  <2>4. QED BY <2>2, <2>3
<1>7. \A n \in 1..m : n # 1 => n - 1 \in 1..(m - 1)
  BY <1>3
<1>8. f = [n \in 1..m |-> IF n = 1 THEN ls[1] ELSE f[n - 1] \o <<"NL">> \o ls[n]]
  <2>1. \A n \in 1..m : n # 1 => f[n - 1] = g[n - 1]
    BY <1>6, <1>7
  <2>2. \A n \in 1..m : next(n) = IF n = 1 THEN ls[1] ELSE f[n - 1] \o <<"NL">> \o ls[n]
    BY <2>1
  <2>3. QED BY <2>2
<1>9. IsJoin(ls, m, f)
  BY <1>8 DEF IsJoin
<1>10. QED BY <1>2, <1>9

(* The equations of Join.                                                  *)
LEMMA JoinIs ==
  ASSUME NEW ls, Len(ls) \in Nat
  PROVE  \E f : /\ Join(ls) = f[Len(ls)]
                /\ 1 \in 1..Len(ls) => f[1] = ls[1]
                /\ \A n \in 2..Len(ls) : f[n] = f[n - 1] \o <<"NL">> \o ls[n]
<1> DEFINE F == CHOOSE f : IsJoin(ls, Len(ls), f)
<1>1. Join(ls) = F[Len(ls)]
  BY DEF Join, IsJoin
<1>2. IsJoin(ls, Len(ls), F)
  BY JoinExists
<1> HIDE DEF F
<1> DEFINE next(n) == IF n = 1 THEN ls[1] ELSE F[n - 1] \o <<"NL">> \o ls[n]
<1>3. F = [n \in 1..Len(ls) |-> next(n)]
  BY <1>2 DEF IsJoin
<1>4. \A n \in 1..Len(ls) : F[n] = next(n)
  <2> HIDE DEF next
  <2>1. QED BY <1>3
<1>5. \A n \in 2..Len(ls) : n \in 1..Len(ls) /\ n # 1
  OBVIOUS
<1>6. QED BY <1>1, <1>4, <1>5

(* The same for the bytes Split has gone through.                          *)
IsSplit(text, N, f) ==
  f = [n \in 0..N |-> IF n = 0 THEN Empty ELSE AddByte(f[n - 1], text[n])]

LEMMA SplitExists ==
  ASSUME NEW text, NEW N \in Nat PROVE \E f : IsSplit(text, N, f)
<1> DEFINE Bad == {m \in Nat : ~ \E f : IsSplit(text, m, f)}
<1>1. SUFFICES ASSUME Bad # {} PROVE FALSE
  OBVIOUS
<1>2. PICK m \in Bad : \A k \in Bad : m <= k
  BY <1>1, SmallestElement
<1>3. m \in Nat /\ m # 0
  <2>1. IsSplit(text, 0, [n \in 0..0 |-> Empty])
    BY DEF IsSplit
  <2>2. QED BY <2>1, <1>2
<1>4. m - 1 \in Nat /\ m - 1 \notin Bad
  BY <1>2, <1>3
<1>5. PICK g : IsSplit(text, m - 1, g)
  BY <1>4
<1> DEFINE next(n) == IF n = 0 THEN Empty ELSE AddByte(g[n - 1], text[n])
           f == [n \in 0..m |-> next(n)]
<1>6. ASSUME NEW n \in 0..(m - 1) PROVE f[n] = g[n]
  <2>1. g = [k \in 0..(m - 1) |-> next(k)]
    BY <1>5 DEF IsSplit
  <2> HIDE DEF next
  <2>2. g[n] = next(n)
    BY <2>1
  <2>3. n \in 0..m
    BY <1>3
  <2>4. QED BY <2>2, <2>3
<1>7. \A n \in 0..m : n # 0 => n - 1 \in 0..(m - 1)
  BY <1>3
<1>8. f = [n \in 0..m |-> IF n = 0 THEN Empty ELSE AddByte(f[n - 1], text[n])]
  <2>1. \A n \in 0..m : n # 0 => f[n - 1] = g[n - 1]
    BY <1>6, <1>7
  <2>2. \A n \in 0..m : next(n) = IF n = 0 THEN Empty ELSE AddByte(f[n - 1], text[n])
    BY <2>1
  <2>3. QED BY <2>2
<1>9. IsSplit(text, m, f)
  BY <1>8 DEF IsSplit
<1>10. QED BY <1>2, <1>9

(* The equations of Split.                                                 *)
LEMMA SplitIs ==
  ASSUME NEW text, Len(text) \in Nat
  PROVE  \E f : /\ Split(text) = f[Len(text)] /\ f[0] = Empty
                /\ \A n \in 1..Len(text) : f[n] = AddByte(f[n - 1], text[n])
<1> DEFINE F == CHOOSE f : IsSplit(text, Len(text), f)
<1>1. Split(text) = F[Len(text)]
  BY DEF Split, IsSplit
<1>2. IsSplit(text, Len(text), F)
  BY SplitExists
<1> HIDE DEF F
<1> DEFINE next(n) == IF n = 0 THEN Empty ELSE AddByte(F[n - 1], text[n])
<1>3. F = [n \in 0..Len(text) |-> next(n)]
  BY <1>2 DEF IsSplit
<1>4. \A n \in 0..Len(text) : F[n] = next(n)
  <2> HIDE DEF next
  <2>1. QED BY <1>3
<1>5. 0 \in 0..Len(text) /\ \A n \in 1..Len(text) : n \in 0..Len(text) /\ n # 0
  OBVIOUS
<1>6. QED BY <1>1, <1>4, <1>5

-----------------------------------------------------------------------------
(* What a line, an entry of the history or what is typed can be.           *)
Texts == {t \in Seq(Byte) : IsText(t)}

(* Texts, by the places of their bytes.                                    *)
LEMMA TextIs ==
  ASSUME NEW t
  PROVE  t \in Texts <=> /\ t \in Seq(Byte)
                         /\ \A i \in 1..Len(t) : t[i] = "tail" => i > 1 /\ t[i - 1] # "NL"
<1>1. ASSUME t \in Seq(Byte) PROVE DOMAIN t = 1..Len(t)
  BY <1>1
<1>2. QED BY <1>1, Zenon DEF Texts, IsText

(* The empty text and the end of a line are texts.                         *)
LEMMA TextOfOne == <<>> \in Texts /\ <<"NL">> \in Texts
<1>1. <<>> \in Texts
  <2>1. <<>> \in Seq(Byte) /\ 1..Len(<<>>) = {}
    OBVIOUS
  <2>2. QED BY <2>1, TextIs
<1>2. <<"NL">> \in Seq(Byte) /\ Len(<<"NL">>) = 1 /\ <<"NL">>[1] = "NL"
  <2>1. "NL" \in Byte
    BY DEF Byte
  <2>2. \A T, e : e \in T => <<e>> \in Seq(T) /\ Len(<<e>>) = 1 /\ <<e>>[1] = e
    OBVIOUS
  <2>3. QED BY <2>1, <2>2
<1>3. \A i \in 1..1 : i = 1
  OBVIOUS
<1>4. QED BY <1>1, <1>2, <1>3, TextIs

(* Texts put together are a text, and where they meet is no tail.          *)
LEMMA TextConcat ==
  ASSUME NEW a \in Texts, NEW b \in Texts
  PROVE  /\ a \o b \in Texts /\ Len(a \o b) = Len(a) + Len(b) /\ Len(a) \in Nat /\ Len(b) \in Nat
         /\ OnBoundary(a \o b, Len(a))
<1>1. a \in Seq(Byte) /\ b \in Seq(Byte)
  BY TextIs
<1>2. /\ Len(a) \in Nat /\ Len(b) \in Nat /\ a \o b \in Seq(Byte) /\ Len(a \o b) = Len(a) + Len(b)
      /\ \A i \in 1..Len(a) : (a \o b)[i] = a[i]
      /\ \A i \in 1..Len(b) : (a \o b)[Len(a) + i] = b[i]
  BY <1>1
<1>3. ASSUME NEW i \in 1..Len(a \o b), (a \o b)[i] = "tail"
      PROVE  i > 1 /\ (a \o b)[i - 1] # "NL"
  <2>1. CASE i \in 1..Len(a)
    <3>1. a[i] = "tail"
      BY <1>2, <1>3, <2>1
    <3>2. i > 1 /\ a[i - 1] # "NL"
      BY <2>1, <3>1, TextIs
    <3>3. i - 1 \in 1..Len(a)
      BY <1>2, <2>1, <3>2
    <3>4. QED BY <1>2, <3>2, <3>3
  <2>2. CASE i \notin 1..Len(a)
    <3>1. i - Len(a) \in 1..Len(b) /\ i = Len(a) + (i - Len(a))
      BY <1>2, <2>2
    <3>2. b[i - Len(a)] = "tail"
      BY <1>2, <1>3, <3>1
    <3>3. i - Len(a) > 1 /\ b[i - Len(a) - 1] # "NL"
      BY <3>1, <3>2, TextIs
    <3>4. i - Len(a) - 1 \in 1..Len(b) /\ i - 1 = Len(a) + (i - Len(a) - 1) /\ i > 1
      BY <1>2, <3>1, <3>3
    <3>5. QED BY <1>2, <3>3, <3>4
  <2>3. QED BY <2>1, <2>2
<1>4. a \o b \in Texts
  BY <1>2, <1>3, TextIs
<1>5. OnBoundary(a \o b, Len(a))
  <2>1. ASSUME Len(a) < Len(a \o b) PROVE (a \o b)[Len(a) + 1] # "tail"
    <3>1. 1 \in 1..Len(b)
      BY <1>2, <2>1
    <3>2. b[1] # "tail"
      BY <3>1, TextIs
    <3>3. QED BY <1>2, <3>1, <3>2
  <2>2. QED BY <1>2, <2>1 DEF OnBoundary
<1>6. QED BY <1>2, <1>4, <1>5

(* The start of a text is one, wherever it ends.                           *)
LEMMA TextStart ==
  ASSUME NEW t \in Texts, NEW c \in 0..Len(t)
  PROVE  SubSeq(t, 1, c) \in Texts /\ Len(SubSeq(t, 1, c)) = c
<1>1. t \in Seq(Byte) /\ Len(t) \in Nat
  BY TextIs
<1>2. /\ SubSeq(t, 1, c) \in Seq(Byte) /\ Len(SubSeq(t, 1, c)) = c
      /\ \A i \in 1..c : SubSeq(t, 1, c)[i] = t[i]
  BY <1>1
<1>3. ASSUME NEW i \in 1..c, t[i] = "tail" PROVE i > 1 /\ t[i - 1] # "NL" /\ i - 1 \in 1..c
  <2>1. i \in 1..Len(t)
    BY <1>1
  <2>2. i > 1 /\ t[i - 1] # "NL"
    BY <1>3, <2>1, TextIs
  <2>3. QED BY <1>1, <2>2
<1>4. QED BY <1>2, <1>3, TextIs

(* The rest of a text is one if it begins with no tail.                    *)
LEMMA TextRest ==
  ASSUME NEW t \in Texts, NEW c, OnBoundary(t, c)
  PROVE  SubSeq(t, c + 1, Len(t)) \in Texts /\ c \in 0..Len(t) /\ Len(t) \in Nat
<1>1. t \in Seq(Byte) /\ Len(t) \in Nat /\ c \in 0..Len(t) /\ c \in Nat
  BY TextIs DEF OnBoundary
<1> DEFINE r == SubSeq(t, c + 1, Len(t))
<1>2. /\ r \in Seq(Byte) /\ Len(r) = Len(t) - c
      /\ \A i \in 1..(Len(t) - c) : r[i] = t[c + i]
  BY <1>1
<1> HIDE DEF r
<1>3. ASSUME NEW i \in 1..(Len(t) - c), r[i] = "tail" PROVE i > 1 /\ r[i - 1] # "NL"
  <2>1. t[c + i] = "tail" /\ c + i \in 1..Len(t)
    BY <1>1, <1>2, <1>3
  <2>2. c + i > 1 /\ t[(c + i) - 1] # "NL"
    <3>1. \A k \in 1..Len(t) : t[k] = "tail" => k > 1 /\ t[k - 1] # "NL"
      BY TextIs
    <3>2. \A k : k = c + i => k > 1 /\ t[k - 1] # "NL"
      BY <2>1, <3>1
    <3>3. QED BY <3>2, Zenon
  <2>3. i # 1
    <3>1. c < Len(t) => t[c + 1] # "tail"
      BY DEF OnBoundary
    <3>2. i = 1 => c < Len(t)
      BY <1>1
    <3>3. QED BY <2>1, <3>1, <3>2
  <2>4. i - 1 \in 1..(Len(t) - c) /\ (c + i) - 1 = c + (i - 1) /\ i > 1
    BY <1>1, <2>3
  <2>5. QED BY <1>2, <2>2, <2>4
<1>4. r \in Texts
  BY <1>2, <1>3, TextIs
<1>5. QED BY <1>1, <1>4 DEF r

(* No character is cut at the ends of a text.                              *)
LEMMA EndsAreBoundaries ==
  ASSUME NEW t \in Texts PROVE OnBoundary(t, 0) /\ OnBoundary(t, Len(t)) /\ Len(t) \in Nat
<1>1. Len(t) \in Nat
  BY TextIs
<1>2. 1 \in 1..Len(t) => t[1] # "tail"
  BY TextIs
<1>3. QED BY <1>1, <1>2 DEF OnBoundary

(* The boundary the cursor moves left to is there.                         *)
LEMMA PrevBoundaryIs ==
  ASSUME NEW t \in Texts, NEW c \in 1..Len(t)
  PROVE  PrevBoundary(t, c) \in 0..(c - 1) /\ OnBoundary(t, PrevBoundary(t, c))
<1> DEFINE S == {p \in 0..(c - 1) : OnBoundary(t, p)}
<1>1. c \in Nat /\ c - 1 \in Nat
  BY EndsAreBoundaries
<1>2. 0 \in S
  BY <1>1, EndsAreBoundaries
<1>3. S \in SUBSET (0..(c - 1))
  OBVIOUS
<1>4. PICK p \in S : \A q \in S : q <= p
  <2> HIDE DEF S
  <2>1. QED BY <1>1, <1>2, <1>3, LargestElement
<1>5. \A q \in (p + 1)..(c - 1) : q \in 0..(c - 1) /\ ~(q <= p)
  BY <1>1
<1>6. \A q \in (p + 1)..(c - 1) : ~OnBoundary(t, q)
  BY <1>4, <1>5
<1>7. \E b \in 0..(c - 1) : OnBoundary(t, b) /\ \A q \in (b + 1)..(c - 1) : ~OnBoundary(t, q)
  BY <1>6
<1>8. QED BY <1>7 DEF PrevBoundary

(* The boundary the cursor moves right to is there.                        *)
LEMMA NextBoundaryIs ==
  ASSUME NEW t \in Texts, NEW c \in 0..(Len(t) - 1)
  PROVE  NextBoundary(t, c) \in (c + 1)..Len(t) /\ OnBoundary(t, NextBoundary(t, c))
<1> DEFINE S == {p \in (c + 1)..Len(t) : OnBoundary(t, p)}
<1>1. c \in Nat /\ Len(t) \in Nat
  BY EndsAreBoundaries
<1>2. Len(t) \in S
  BY <1>1, EndsAreBoundaries
<1>3. S \in SUBSET Nat
  BY <1>1
<1>4. PICK p \in S : \A q \in S : p <= q
  <2> HIDE DEF S
  <2>1. QED BY <1>2, <1>3, SmallestElement
<1>5. \A q \in (c + 1)..(p - 1) : q \in (c + 1)..Len(t) /\ ~(p <= q)
  BY <1>1
<1>6. \A q \in (c + 1)..(p - 1) : ~OnBoundary(t, q)
  BY <1>4, <1>5
<1>7. \E b \in (c + 1)..Len(t) : OnBoundary(t, b) /\ \A q \in (c + 1)..(b - 1) : ~OnBoundary(t, q)
  BY <1>6
<1>8. QED BY <1>7 DEF NextBoundary

(* The content of the editor is a text.                                    *)
LEMMA JoinText ==
  ASSUME NEW ls \in Seq(Texts), ls # <<>> PROVE Join(ls) \in Texts
<1>1. Len(ls) \in Nat /\ Len(ls) > 0 /\ \A n \in 1..Len(ls) : ls[n] \in Texts
  OBVIOUS
<1>2. PICK f : /\ Join(ls) = f[Len(ls)]
               /\ 1 \in 1..Len(ls) => f[1] = ls[1]
               /\ \A n \in 2..Len(ls) : f[n] = f[n - 1] \o <<"NL">> \o ls[n]
  BY <1>1, JoinIs
<1> DEFINE Bad == {n \in 1..Len(ls) : f[n] \notin Texts}
<1>3. SUFFICES ASSUME Bad # {} PROVE FALSE
  BY <1>1, <1>2
<1>4. PICK n \in Bad : \A k \in Bad : n <= k
  <2>1. Bad \in SUBSET Nat
    BY <1>1
  <2> HIDE DEF Bad
  <2>2. QED BY <1>3, <2>1, SmallestElement
<1>5. n \in 1..Len(ls) /\ f[n] \notin Texts
  BY <1>4
<1>6. n # 1
  BY <1>1, <1>2, <1>5
<1>7. n \in 2..Len(ls) /\ n - 1 \in 1..Len(ls) /\ ~(n <= n - 1)
  BY <1>1, <1>5, <1>6
<1>8. f[n - 1] \in Texts
  BY <1>4, <1>7
<1>9. f[n - 1] \o <<"NL">> \in Texts
  BY <1>8, TextOfOne, TextConcat
<1>10. f[n - 1] \o <<"NL">> \o ls[n] \in Texts
  BY <1>1, <1>5, <1>9, TextConcat
<1>11. QED BY <1>2, <1>5, <1>7, <1>10

(* One line is its own content.                                            *)
LEMMA JoinOfOne ==
  ASSUME NEW x PROVE Join(<<x>>) = x
<1>1. Len(<<x>>) = 1 /\ <<x>>[1] = x /\ 1 \in 1..1
  OBVIOUS
<1>2. QED BY <1>1, JoinIs

(* A line and an empty one behind it.                                      *)
LEMMA JoinOfTwo ==
  ASSUME NEW x \in Texts PROVE Join(<<x, <<>>>>) = x \o <<"NL">>
<1> DEFINE ls == <<x, <<>>>>
<1>1. Len(ls) = 2 /\ Len(ls) \in Nat /\ ls[1] = x /\ ls[2] = <<>> /\ 1 \in 1..2 /\ 2 \in 2..2
  OBVIOUS
<1> HIDE DEF ls
<1>2. PICK f : /\ Join(ls) = f[Len(ls)]
               /\ 1 \in 1..Len(ls) => f[1] = ls[1]
               /\ \A n \in 2..Len(ls) : f[n] = f[n - 1] \o <<"NL">> \o ls[n]
  BY <1>1, JoinIs
<1>3. f[1] = x /\ f[2] = f[2 - 1] \o <<"NL">> \o ls[2] /\ Join(ls) = f[2]
  BY ONLY <1>1, <1>2
<1>4. f[2] = x \o <<"NL">> \o <<>>
  <2>1. \A k : k = 1 => f[k] = x
    BY ONLY <1>3
  <2>2. f[2 - 1] = x /\ ls[2] = <<>>
    BY <1>1, <2>1
  <2>3. QED BY ONLY <1>3, <2>2
<1>5. x \o <<"NL">> \in Seq(Byte)
  BY TextOfOne, TextConcat, TextIs
<1>6. x \o <<"NL">> \o <<>> = x \o <<"NL">>
  BY <1>5
<1>7. QED BY ONLY <1>3, <1>4, <1>6 DEF ls

(* A byte behind a text, a tail only behind a character.                   *)
LEMMA TextAppend ==
  ASSUME NEW x \in Texts, NEW b \in Byte, b = "tail" => x # <<>> /\ x[Len(x)] # "NL"
  PROVE  Append(x, b) \in Texts /\ Append(x, b)[Len(Append(x, b))] = b /\ Append(x, b) # <<>>
<1>1. x \in Seq(Byte) /\ \A i \in 1..Len(x) : x[i] = "tail" => i > 1 /\ x[i - 1] # "NL"
  BY TextIs
<1> DEFINE y == Append(x, b)
<1>2. /\ y \in Seq(Byte) /\ Len(x) \in Nat /\ Len(y) = Len(x) + 1 /\ y[Len(x) + 1] = b
      /\ \A i \in 1..Len(x) : y[i] = x[i]
  BY <1>1
<1> HIDE DEF y
<1>3. ASSUME NEW i \in 1..Len(y), y[i] = "tail" PROVE i > 1 /\ y[i - 1] # "NL"
  <2>1. CASE i \in 1..Len(x)
    <3>1. i > 1 /\ x[i - 1] # "NL"
      BY <1>1, <1>2, <1>3, <2>1
    <3>2. i - 1 \in 1..Len(x)
      BY <1>2, <2>1, <3>1
    <3>3. QED BY <1>2, <3>1, <3>2
  <2>2. CASE i \notin 1..Len(x)
    <3>1. i = Len(x) + 1
      BY <1>2, <2>2
    <3>2. x # <<>> /\ x[Len(x)] # "NL"
      BY <1>2, <1>3, <3>1
    <3>3. Len(x) > 0 /\ Len(x) \in 1..Len(x) /\ i - 1 = Len(x)
      BY <1>1, <1>2, <3>1, <3>2
    <3>4. QED BY <1>2, <3>1, <3>2, <3>3
  <2>3. QED BY <2>1, <2>2
<1>4. y \in Texts
  BY <1>2, <1>3, TextIs
<1>5. y[Len(y)] = b /\ y # <<>>
  BY <1>2
<1>6. QED BY <1>4, <1>5 DEF y

(* A byte of a text behind the lines of the bytes before it.               *)
LEMMA AddByteText ==
  ASSUME NEW ls \in Seq(Texts), ls # <<>>, NEW b \in Byte,
         b = "tail" => ls[Len(ls)] # <<>> /\ ls[Len(ls)][Len(ls[Len(ls)])] # "NL"
  PROVE  /\ AddByte(ls, b) \in Seq(Texts) /\ AddByte(ls, b) # <<>>
         /\ b # "NL" => LET last == AddByte(ls, b)[Len(AddByte(ls, b))]
                        IN last # <<>> /\ last[Len(last)] = b
<1>1. Len(ls) \in Nat /\ Len(ls) \in 1..Len(ls) /\ ls[Len(ls)] \in Texts
  OBVIOUS
<1>2. CASE b = "NL"
  <2>1. AddByte(ls, b) = Append(ls, <<>>)
    BY <1>2 DEF AddByte
  <2>2. Append(ls, <<>>) \in Seq(Texts) /\ Append(ls, <<>>) # <<>>
    BY TextOfOne
  <2>3. QED BY <1>2, <2>1, <2>2
<1>3. CASE b # "NL"
  <2> DEFINE last == Append(ls[Len(ls)], b)
  <2>1. last \in Texts /\ last[Len(last)] = b /\ last # <<>>
    BY <1>1, TextAppend
  <2>2. AddByte(ls, b) = [ls EXCEPT ![Len(ls)] = last]
    BY <1>3 DEF AddByte
  <2> HIDE DEF last
  <2>3. /\ [ls EXCEPT ![Len(ls)] = last] \in Seq(Texts)
        /\ Len([ls EXCEPT ![Len(ls)] = last]) = Len(ls)
        /\ [ls EXCEPT ![Len(ls)] = last][Len(ls)] = last
    BY <1>1, <2>1
  <2>4. QED BY <1>1, <2>1, <2>2, <2>3
<1>4. QED BY <1>2, <1>3

(* A text is shown as lines that are texts, and one at least.              *)
LEMMA LinesOfText ==
  ASSUME NEW t \in Texts PROVE LinesOf(t) \in Seq(Texts) /\ LinesOf(t) # <<>>
<1>1. /\ Len(t) \in Nat /\ \A n \in 1..Len(t) : t[n] \in Byte
      /\ \A i \in 1..Len(t) : t[i] = "tail" => i > 1 /\ t[i - 1] # "NL"
  BY TextIs
<1>2. PICK f : /\ Split(t) = f[Len(t)] /\ f[0] = Empty
               /\ \A n \in 1..Len(t) : f[n] = AddByte(f[n - 1], t[n])
  BY <1>1, SplitIs
<1> DEFINE fits(n) ==
      /\ f[n] \in Seq(Texts) /\ f[n] # <<>>
      /\ n > 0 /\ t[n] # "NL" => f[n][Len(f[n])] # <<>> /\ f[n][Len(f[n])][Len(f[n][Len(f[n])])] = t[n]
           Bad == {n \in 0..Len(t) : ~fits(n)}
<1>3. ASSUME Bad # {} PROVE FALSE
  <2>1. PICK n \in Bad : \A k \in Bad : n <= k
    <3>1. Bad \in SUBSET Nat
      BY <1>1
    <3> HIDE DEF Bad
    <3>2. QED BY <1>3, <3>1, SmallestElement
  <2>2. n \in 0..Len(t) /\ ~fits(n) /\ n \in Nat
    BY <1>1, <2>1
  <2>3. n # 0
    <3>1. Empty \in Seq(Texts) /\ Empty # <<>>
      BY TextOfOne DEF Empty
    <3>2. fits(0)
      BY <1>2, <3>1
    <3>3. QED BY <2>2, <3>2
  <2>4. n \in 1..Len(t) /\ n - 1 \in 0..Len(t) /\ ~(n <= n - 1) /\ n > 0
    BY <1>1, <2>2, <2>3
  <2>5. fits(n - 1)
    <3> HIDE DEF fits
    <3>1. QED BY <2>1, <2>4
  <2> DEFINE ls == f[n - 1]
  <2>6. ls \in Seq(Texts) /\ ls # <<>> /\ t[n] \in Byte /\ f[n] = AddByte(ls, t[n])
    BY <1>1, <1>2, <2>4, <2>5
  <2>7. ASSUME t[n] = "tail" PROVE ls[Len(ls)] # <<>> /\ ls[Len(ls)][Len(ls[Len(ls)])] # "NL"
    <3>1. n > 1 /\ t[n - 1] # "NL"
      BY <1>1, <2>4, <2>7
    <3>2. n - 1 > 0
      BY <2>2, <3>1
    <3>3. QED BY <2>5, <3>1, <3>2
  <2> HIDE DEF ls
  <2>8. /\ AddByte(ls, t[n]) \in Seq(Texts) /\ AddByte(ls, t[n]) # <<>>
        /\ t[n] # "NL" => LET last == AddByte(ls, t[n])[Len(AddByte(ls, t[n]))]
                          IN last # <<>> /\ last[Len(last)] = t[n]
    BY <2>6, <2>7, AddByteText
  <2>9. fits(n)
    BY <2>6, <2>8
  <2>10. QED BY <2>2, <2>9
<1>4. Split(t) \in Seq(Texts) /\ Split(t) # <<>>
  <2>1. Len(t) \in 0..Len(t) /\ Len(t) \notin Bad
    BY <1>1, <1>3
  <2>2. fits(Len(t))
    BY <2>1
  <2>3. QED BY <1>2, <2>2
<1> DEFINE s == Split(t)
<1> HIDE DEF s
<1>5. s \in Seq(Texts) /\ s # <<>>
  BY <1>4 DEF s
<1>6. Len(s) > 1 => Front(s) \in Seq(Texts) /\ Front(s) # <<>>
  BY <1>5 DEF Front
<1>7. QED BY <1>5, <1>6 DEF LinesOf, s

-----------------------------------------------------------------------------
(* An editor whose lines are texts and whose cursor is on one of them, in  *)
(* the middle of no character.                                             *)
OnText(t) ==
  /\ t.lines \in Seq(Texts) /\ t.lines # <<>>
  /\ t.row \in 0..(Len(t.lines) - 1) /\ OnBoundary(t.lines[t.row + 1], t.col)

(* The editor of given lines, row and column.                              *)
LEMMA TextOf ==
  ASSUME NEW ls \in Seq(Texts), NEW r \in 0..(Len(ls) - 1), NEW c, OnBoundary(ls[r + 1], c)
  PROVE  OnText(Text(ls, r, c))
<1>1. ls # <<>>
  OBVIOUS
<1>2. QED BY <1>1 DEF OnText, Text

(* The line of the cursor is replaced by another text.                     *)
LEMMA LineReplaced ==
  ASSUME NEW ls \in Seq(Texts), NEW r \in 0..(Len(ls) - 1), NEW x \in Texts, NEW c,
         OnBoundary(x, c)
  PROVE  OnText(Text([ls EXCEPT ![r + 1] = x], r, c))
<1> DEFINE new == [ls EXCEPT ![r + 1] = x]
<1>1. new \in Seq(Texts) /\ Len(new) = Len(ls) /\ new[r + 1] = x
  OBVIOUS
<1> HIDE DEF new
<1>2. OnText(Text(new, r, c))
  BY <1>1, TextOf
<1>3. QED BY <1>2 DEF new

(* The line of the cursor.                                                 *)
LEMMA LineOf ==
  ASSUME NEW t, OnText(t)
  PROVE  /\ t.lines \in Seq(Texts) /\ t.lines # <<>> /\ Len(t.lines) \in Nat
         /\ t.row \in 0..(Len(t.lines) - 1)
         /\ t.lines[t.row + 1] \in Texts /\ OnBoundary(t.lines[t.row + 1], t.col)
         /\ t.col \in 0..Len(t.lines[t.row + 1]) /\ Len(t.lines[t.row + 1]) \in Nat
<1>1. t.lines \in Seq(Texts) /\ t.row \in 0..(Len(t.lines) - 1)
  BY DEF OnText
<1>2. t.row + 1 \in 1..Len(t.lines) /\ Len(t.lines) \in Nat
  BY <1>1
<1>3. t.lines[t.row + 1] \in Texts
  BY <1>1, <1>2
<1>4. QED BY <1>1, <1>2, <1>3, EndsAreBoundaries DEF OnText, OnBoundary

(* A character is typed.                                                   *)
LEMMA InsertedOnText ==
  ASSUME NEW t, OnText(t), NEW ch \in Texts
  PROVE  OnText(Inserted(t, ch))
<1> DEFINE line == t.lines[t.row + 1]
           a == SubSeq(line, 1, t.col)
           b == SubSeq(line, t.col + 1, Len(line))
<1>1. line \in Texts /\ OnBoundary(line, t.col) /\ t.col \in 0..Len(line)
  BY LineOf
<1>2. a \in Texts /\ Len(a) = t.col /\ b \in Texts
  BY <1>1, TextStart, TextRest
<1> HIDE DEF a, b
<1>3. a \o ch \in Texts /\ Len(a \o ch) = t.col + Len(ch)
  BY <1>2, TextConcat
<1>4. a \o ch \o b \in Texts /\ OnBoundary(a \o ch \o b, t.col + Len(ch))
  BY <1>2, <1>3, TextConcat
<1> DEFINE x == a \o ch \o b
<1>5. Inserted(t, ch) = Text([t.lines EXCEPT ![t.row + 1] = x], t.row, t.col + Len(ch))
  BY DEF Inserted, a, b
<1> HIDE DEF x
<1>6. QED BY <1>4, <1>5, LineOf, LineReplaced DEF x

(* Whole characters are cut out of a line.                                 *)
LEMMA CutOnText ==
  ASSUME NEW line \in Texts, NEW from, OnBoundary(line, from), NEW to, OnBoundary(line, to)
  PROVE  Cut(line, from, to) \in Texts /\ OnBoundary(Cut(line, from, to), from)
<1> DEFINE a == SubSeq(line, 1, from)
           b == SubSeq(line, to + 1, Len(line))
<1>1. a \in Texts /\ Len(a) = from /\ b \in Texts
  BY TextStart, TextRest
<1> HIDE DEF a, b
<1>2. a \o b \in Texts /\ OnBoundary(a \o b, from)
  BY <1>1, TextConcat
<1>3. QED BY <1>2 DEF Cut, a, b

(* Three parts in a row. *)
LEMMA ThreeParts ==
  ASSUME NEW T, NEW u \in Seq(T), NEW m \in Seq(T), NEW w \in Seq(T)
  PROVE  /\ u \o m \o w \in Seq(T) /\ Len(u \o m \o w) = Len(u) + Len(m) + Len(w)
         /\ \A i \in 1..Len(m) : (u \o m \o w)[Len(u) + i] = m[i]
<1>0. PICK v : v = u \o m
  OBVIOUS
<1>1. v \in Seq(T) /\ Len(v) = Len(u) + Len(m) /\ Len(u) \in Nat /\ Len(m) \in Nat /\ Len(w) \in Nat
  BY <1>0
<1>2. \A i \in 1..Len(m) : v[Len(u) + i] = m[i]
  BY <1>0
<1>3. \A i \in 1..Len(m) : Len(u) + i \in 1..Len(v)
  BY <1>1
<1>4. v \o w \in Seq(T) /\ Len(v \o w) = Len(v) + Len(w)
  <2>1. v \in Seq(T) /\ w \in Seq(T)
    BY <1>1
  <2>2. QED BY ONLY <2>1, ConcatProperties
<1>5. \A i \in 1..Len(v) : (v \o w)[i] = v[i]
  BY <1>1
<1>6. \A i \in 1..Len(m) : (v \o w)[Len(u) + i] = m[i]
  BY <1>2, <1>3, <1>5
<1>7. QED BY ONLY <1>0, <1>1, <1>4, <1>6

(* Lines before, some others, and lines behind, as Enter and the keys that *)
(* join lines put them together.                                           *)
LEMMA LinesAround ==
  ASSUME NEW ls \in Seq(Texts), NEW r \in Nat, NEW m \in Seq(Texts), NEW k \in 1..2,
         r + k <= Len(ls)
  PROVE  LET new == SubSeq(ls, 1, r) \o m \o SubSeq(ls, r + k + 1, Len(ls))
         IN /\ new \in Seq(Texts) /\ Len(new) = Len(ls) - k + Len(m)
            /\ \A i \in 1..Len(m) : new[r + i] = m[i]
<1>0. PICK u, w : u = SubSeq(ls, 1, r) /\ w = SubSeq(ls, r + k + 1, Len(ls))
  OBVIOUS
<1>1. Len(ls) \in Nat /\ Len(m) \in Nat
  OBVIOUS
<1>2. u \in Seq(Texts) /\ Len(u) = r
  BY <1>0
<1>3. w \in Seq(Texts) /\ Len(w) = Len(ls) - r - k
  BY <1>0, <1>1
<1>4. /\ u \o m \o w \in Seq(Texts) /\ Len(u \o m \o w) = Len(u) + Len(m) + Len(w)
      /\ \A i \in 1..Len(m) : (u \o m \o w)[Len(u) + i] = m[i]
  <2>1. u \in Seq(Texts) /\ m \in Seq(Texts) /\ w \in Seq(Texts)
    BY <1>2, <1>3
  <2>2. QED BY ONLY <2>1, ThreeParts
<1> DEFINE new == u \o m \o w
<1> HIDE DEF new
<1>5. new \in Seq(Texts) /\ Len(new) = Len(ls) - k + Len(m)
  BY <1>1, <1>2, <1>3, <1>4 DEF new
<1>6. \A i \in 1..Len(m) : new[r + i] = m[i]
  BY <1>2, <1>4 DEF new
<1>7. QED BY <1>0, <1>5, <1>6 DEF new

(* Enter within a text: the line is cut at the cursor.                     *)
LEMMA NewLineOnText ==
  ASSUME NEW t, OnText(t)
  PROVE  OnText(NewLine(t))
<1> DEFINE line == t.lines[t.row + 1]
           a == SubSeq(line, 1, t.col)
           b == SubSeq(line, t.col + 1, Len(line))
           new == SubSeq(t.lines, 1, t.row) \o <<a, b>> \o SubSeq(t.lines, t.row + 2, Len(t.lines))
<1>1. line \in Texts /\ OnBoundary(line, t.col) /\ t.col \in 0..Len(line)
  BY LineOf
<1>2. a \in Texts /\ b \in Texts
  BY <1>1, TextStart, TextRest
<1>3. NewLine(t) = Text(new, t.row + 1, 0)
  BY DEF NewLine
<1> HIDE DEF a, b
<1>4. new \in Seq(Texts) /\ Len(new) = Len(t.lines) + 1 /\ new[t.row + 2] = b
  <2> DEFINE ls == t.lines
             k == t.row
             m == <<a, b>>
  <2>1. ls \in Seq(Texts) /\ k \in Nat /\ k + 1 <= Len(ls) /\ Len(ls) \in Nat
    BY LineOf
  <2>2. m \in Seq(Texts) /\ Len(m) = 2 /\ m[2] = b /\ 2 \in 1..2 /\ 1 \in 1..2
    BY <1>2
  <2> HIDE DEF ls, k, m
  <2> DEFINE n == SubSeq(ls, 1, k) \o m \o SubSeq(ls, k + 1 + 1, Len(ls))
  <2>3. n \in Seq(Texts) /\ Len(n) = Len(ls) - 1 + Len(m) /\ \A i \in 1..Len(m) : n[k + i] = m[i]
    BY <2>1, <2>2, LinesAround
  <2>4. n = new
    <3>1. k + 1 + 1 = k + 2
      BY <2>1
    <3>2. QED BY <3>1 DEF ls, k, m
  <2> HIDE DEF n
  <2>5. Len(n) = Len(ls) + 1 /\ n[k + 2] = b
    BY <2>1, <2>2, <2>3
  <2>6. QED BY <2>3, <2>4, <2>5 DEF ls, k
<1> HIDE DEF new
<1>5. t.row + 1 \in 0..(Len(new) - 1) /\ (t.row + 1) + 1 = t.row + 2
  BY <1>4, LineOf
<1>6. OnBoundary(new[(t.row + 1) + 1], 0)
  BY <1>2, <1>4, <1>5, EndsAreBoundaries
<1>7. QED BY <1>3, <1>4, <1>5, <1>6, TextOf

(* Two lines become one, the cursor where they meet.                       *)
LEMMA JoinedOnText ==
  ASSUME NEW t, OnText(t), NEW r \in 0..(Len(t.lines) - 2)
  PROVE  OnText(Joined(t, r, r, Len(t.lines[r + 1])))
<1> DEFINE upper == t.lines[r + 1]
           lower == t.lines[r + 2]
           x == upper \o lower
           new == SubSeq(t.lines, 1, r) \o <<x>> \o SubSeq(t.lines, r + 3, Len(t.lines))
<1>1. t.lines \in Seq(Texts) /\ Len(t.lines) \in Nat
  BY LineOf
<1>2. upper \in Texts /\ lower \in Texts
  <2>1. r + 1 \in 1..Len(t.lines) /\ r + 2 \in 1..Len(t.lines)
    BY <1>1
  <2>2. QED BY <1>1, <2>1
<1>3. Joined(t, r, r, Len(upper)) = Text(new, r, Len(upper))
  BY DEF Joined
<1> HIDE DEF upper, lower
<1>4. x \in Texts /\ OnBoundary(x, Len(upper))
  BY <1>2, TextConcat
<1> HIDE DEF x
<1>5. new \in Seq(Texts) /\ Len(new) = Len(t.lines) - 1 /\ new[r + 1] = x
  <2> DEFINE ls == t.lines
             m == <<x>>
  <2>1. ls \in Seq(Texts) /\ r \in Nat /\ r + 2 <= Len(ls) /\ Len(ls) \in Nat
    BY <1>1
  <2>2. m \in Seq(Texts) /\ Len(m) = 1 /\ m[1] = x /\ 1 \in 1..1 /\ 2 \in 1..2
    BY <1>4
  <2> HIDE DEF ls, m
  <2> DEFINE n == SubSeq(ls, 1, r) \o m \o SubSeq(ls, r + 2 + 1, Len(ls))
  <2>3. n \in Seq(Texts) /\ Len(n) = Len(ls) - 2 + Len(m) /\ \A i \in 1..Len(m) : n[r + i] = m[i]
    BY <2>1, <2>2, LinesAround
  <2>4. n = new
    <3>1. r + 2 + 1 = r + 3
      BY <2>1
    <3>2. QED BY <3>1 DEF ls, m
  <2> HIDE DEF n
  <2>5. Len(n) = Len(ls) - 1 /\ n[r + 1] = x
    BY <2>1, <2>2, <2>3
  <2>6. QED BY <2>3, <2>4, <2>5 DEF ls
<1> HIDE DEF new
<1>6. r \in 0..(Len(new) - 1)
  BY <1>1, <1>5
<1>7. OnText(Text(new, r, Len(upper)))
  BY <1>4, <1>5, <1>6, TextOf
<1>8. QED BY <1>3, <1>7 DEF upper

(* Backspace: a character, the end of the line before, or nothing.         *)
LEMMA BackspacedOnText ==
  ASSUME NEW t, OnText(t)
  PROVE  OnText(Backspaced(t))
<1> DEFINE line == t.lines[t.row + 1]
<1>1. line \in Texts /\ OnBoundary(line, t.col) /\ t.col \in 0..Len(line) /\ Len(line) \in Nat
  BY LineOf
<1>2. CASE t.col > 0
  <2> DEFINE p == PrevBoundary(line, t.col)
  <2>1. Backspaced(t) = Text([t.lines EXCEPT ![t.row + 1] = Cut(line, p, t.col)], t.row, p)
    BY <1>2 DEF Backspaced
  <2>2. t.col \in 1..Len(line)
    BY <1>1, <1>2
  <2> HIDE DEF line
  <2>3. OnBoundary(line, p)
    BY <1>1, <2>2, PrevBoundaryIs
  <2> HIDE DEF p
  <2>4. Cut(line, p, t.col) \in Texts /\ OnBoundary(Cut(line, p, t.col), p)
    BY <1>1, <2>3, CutOnText
  <2>5. QED BY <2>1, <2>4, LineOf, LineReplaced
<1>3. CASE ~(t.col > 0) /\ t.row > 0
  <2>1. Backspaced(t) = Joined(t, t.row - 1, t.row - 1, Len(t.lines[t.row]))
    BY <1>3 DEF Backspaced
  <2>2. t.row - 1 \in 0..(Len(t.lines) - 2) /\ (t.row - 1) + 1 = t.row
    BY <1>3, LineOf
  <2>3. OnText(Joined(t, t.row - 1, t.row - 1, Len(t.lines[(t.row - 1) + 1])))
    BY <2>2, JoinedOnText
  <2>4. QED BY <2>1, <2>2, <2>3
<1>4. CASE ~(t.col > 0) /\ ~(t.row > 0)
  BY <1>4 DEF Backspaced
<1>5. QED BY <1>2, <1>3, <1>4

(* Delete: a character, the end of the line, or nothing.                   *)
LEMMA DeletedOnText ==
  ASSUME NEW t, OnText(t)
  PROVE  OnText(Deleted(t))
<1> DEFINE line == t.lines[t.row + 1]
<1>1. line \in Texts /\ OnBoundary(line, t.col) /\ t.col \in 0..Len(line) /\ Len(line) \in Nat
  BY LineOf
<1>2. CASE t.col < Len(line)
  <2> DEFINE p == NextBoundary(line, t.col)
  <2>1. Deleted(t) = Text([t.lines EXCEPT ![t.row + 1] = Cut(line, t.col, p)], t.row, t.col)
    BY <1>2 DEF Deleted
  <2>2. t.col \in 0..(Len(line) - 1)
    BY <1>1, <1>2
  <2> HIDE DEF line
  <2>3. OnBoundary(line, p)
    BY <1>1, <2>2, NextBoundaryIs
  <2> HIDE DEF p
  <2>4. Cut(line, t.col, p) \in Texts /\ OnBoundary(Cut(line, t.col, p), t.col)
    BY <1>1, <2>3, CutOnText
  <2>5. QED BY <2>1, <2>4, LineOf, LineReplaced
<1>3. CASE ~(t.col < Len(line)) /\ t.row + 1 < Len(t.lines)
  <2>1. Deleted(t) = Joined(t, t.row, t.row, t.col)
    BY <1>3 DEF Deleted
  <2>2. t.row \in 0..(Len(t.lines) - 2) /\ t.col = Len(line)
    BY <1>1, <1>3, LineOf
  <2>3. OnText(Joined(t, t.row, t.row, Len(t.lines[t.row + 1])))
    BY <2>2, JoinedOnText
  <2>4. QED BY <2>1, <2>2, <2>3
<1>4. CASE ~(t.col < Len(line)) /\ ~(t.row + 1 < Len(t.lines))
  BY <1>4 DEF Deleted
<1>5. QED BY <1>2, <1>3, <1>4

(* The keys that only move the cursor.                                     *)
LEMMA MovedOnText ==
  ASSUME NEW t, OnText(t)
  PROVE  /\ OnText(MovedLeft(t)) /\ OnText(MovedRight(t))
         /\ OnText(Text(t.lines, t.row, 0))
         /\ OnText(Text(t.lines, t.row, Len(t.lines[t.row + 1])))
<1> DEFINE line == t.lines[t.row + 1]
<1>1. line \in Texts /\ OnBoundary(line, t.col) /\ t.col \in 0..Len(line) /\ Len(line) \in Nat
  BY LineOf
<1>2. t.lines \in Seq(Texts) /\ t.row \in 0..(Len(t.lines) - 1) /\ Len(t.lines) \in Nat
  BY LineOf
<1>3. ASSUME NEW r \in 0..(Len(t.lines) - 1)
      PROVE  OnText(Text(t.lines, r, 0)) /\ OnText(Text(t.lines, r, Len(t.lines[r + 1])))
  <2>1. t.lines[r + 1] \in Texts
    BY <1>2
  <2>2. QED BY <1>2, <2>1, EndsAreBoundaries, TextOf
<1>4. OnText(MovedLeft(t))
  <2>1. CASE t.col > 0
    <3>1. OnBoundary(line, PrevBoundary(line, t.col))
      BY <1>1, <2>1, PrevBoundaryIs
    <3>2. QED BY <1>2, <2>1, <3>1, TextOf DEF MovedLeft
  <2>2. CASE ~(t.col > 0) /\ t.row > 0
    <3>1. t.row - 1 \in 0..(Len(t.lines) - 1) /\ (t.row - 1) + 1 = t.row
      BY <1>2, <2>2
    <3>2. OnText(Text(t.lines, t.row - 1, Len(t.lines[(t.row - 1) + 1])))
      BY <1>3, <3>1
    <3>3. QED BY <2>2, <3>1, <3>2 DEF MovedLeft
  <2>3. CASE ~(t.col > 0) /\ ~(t.row > 0)
    BY <2>3 DEF MovedLeft
  <2>4. QED BY <2>1, <2>2, <2>3
<1>5. OnText(MovedRight(t))
  <2>1. CASE t.col < Len(line)
    <3>1. OnBoundary(line, NextBoundary(line, t.col))
      BY <1>1, <2>1, NextBoundaryIs
    <3>2. QED BY <1>2, <2>1, <3>1, TextOf DEF MovedRight
  <2>2. CASE ~(t.col < Len(line)) /\ t.row + 1 < Len(t.lines)
    <3>1. t.row + 1 \in 0..(Len(t.lines) - 1)
      BY <1>2, <2>2
    <3>2. OnText(Text(t.lines, t.row + 1, 0))
      BY <1>3, <3>1
    <3>3. QED BY <2>2, <3>2 DEF MovedRight
  <2>3. CASE ~(t.col < Len(line)) /\ ~(t.row + 1 < Len(t.lines))
    BY <2>3 DEF MovedRight
  <2>4. QED BY <2>1, <2>2, <2>3
<1>6. QED BY <1>2, <1>3, <1>4, <1>5

(* Each editing key.                                                       *)
LEMMA EditsOnText ==
  ASSUME NEW t, OnText(t), NEW ch \in Texts, NEW u \in Edits(t, ch)
  PROVE  OnText(u)
  BY InsertedOnText, NewLineOnText, BackspacedOnText, DeletedOnText, MovedOnText DEF Edits

-----------------------------------------------------------------------------
(***************************************************************************)
(* Why the cursor is on a character: what is shown, remembered and kept is *)
(* a text, and the entry selected or found is there.                       *)
(***************************************************************************)
HistoryInv ==
  /\ history \in Seq(Texts) /\ historyIdx \in -1..(Len(history) - 1) /\ original \in Texts
  /\ searchResult = None \/ searchResult \in 1..Len(history)
EditorInv == OnText(Present) /\ HistoryInv

(* An action that makes the editor t leaves it as t is.                    *)
LEMMA BecomeOnText ==
  ASSUME NEW t, OnText(t), Become(t) PROVE OnText(Present)'
<1>1. lines' = t.lines /\ row' = t.row /\ col' = t.col
  BY DEF Become
<1>2. OnText(Text(t.lines, t.row, t.col))
  BY DEF OnText, Text
<1>3. Present' = Text(t.lines, t.row, t.col)
  BY <1>1 DEF Present
<1>4. QED BY <1>2, <1>3 DEF OnText

(* What was typed comes back as one line, the cursor at its end.           *)
LEMMA OneLineOnText ==
  ASSUME NEW x \in Texts PROVE OnText(Text(<<x>>, 0, Len(x)))
<1> DEFINE ls == <<x>>
<1>1. ls \in Seq(Texts) /\ 0 \in 0..(Len(ls) - 1) /\ ls[0 + 1] = x
  OBVIOUS
<1> HIDE DEF ls
<1>2. OnText(Text(ls, 0, Len(x)))
  BY <1>1, EndsAreBoundaries, TextOf
<1>3. QED BY <1>2 DEF ls

(* An empty editor.                                                        *)
LEMMA ClearedOnText == OnText(Cleared)
<1>1. <<>> \in Texts /\ Len(<<>>) = 0
  BY TextOfOne
<1>2. OnText(Text(<<<<>>>>, 0, Len(<<>>)))
  BY <1>1, OneLineOnText
<1>3. QED BY <1>1, <1>2 DEF Cleared, Empty

(* An entry is shown, the cursor at the end of its first line.             *)
LEMMA ShownOnText ==
  ASSUME NEW x \in Texts PROVE OnText(Shown(x))
<1> DEFINE ls == LinesOf(x)
<1>1. ls \in Seq(Texts) /\ ls # <<>>
  BY LinesOfText
<1>2. Shown(x) = Text(ls, 0, Len(ls[1]))
  BY DEF Shown
<1> HIDE DEF ls
<1>3. 0 \in 0..(Len(ls) - 1) /\ 0 + 1 = 1 /\ ls[1] \in Texts
  BY <1>1
<1>4. QED BY <1>1, <1>2, <1>3, EndsAreBoundaries, TextOf

(* What is submitted or remembered is a text.                              *)
LEMMA ContentIsText ==
  ASSUME OnText(Present) PROVE Content \in Texts
<1>1. lines \in Seq(Texts) /\ lines # <<>>
  BY DEF OnText, Present, Text
<1>2. QED BY <1>1, JoinText DEF Content

(* A search finds an entry or none.                                        *)
LEMMA FoundIsEntry ==
  ASSUME history \in Seq(Texts), NEW query
  PROVE  Found(query) = None \/ Found(query) \in 1..Len(history)
<1> DEFINE hits == {i \in DOMAIN history : HasPart(history[i], query)}
<1>1. Len(history) \in Nat /\ DOMAIN history = 1..Len(history)
  OBVIOUS
<1>2. hits \in SUBSET (0..Len(history)) /\ hits \subseteq 1..Len(history)
  BY <1>1
<1>3. Found(query) = IF query = <<>> \/ hits = {} THEN None ELSE CHOOSE i \in hits : \A j \in hits : j <= i
  BY DEF Found
<1> HIDE DEF hits
<1>4. hits # {} => \E i \in hits : \A j \in hits : j <= i
  BY <1>1, <1>2, LargestElement
<1>5. QED BY <1>2, <1>3, <1>4

(* Leaving the history before an edit.                                     *)
LEMMA ExitHistoryOnText ==
  ASSUME EditorInv PROVE OnText(ExitHistory)
  BY OneLineOnText DEF EditorInv, HistoryInv, ExitHistory

(* The editor is empty at first; then one lemma for each key.              *)
LEMMA EditorBegins == EditorInit => EditorInv
<1> SUFFICES ASSUME EditorInit PROVE EditorInv
  OBVIOUS
<1>1. Present = Cleared
  BY DEF EditorInit, Present, Cleared
<1>2. HistoryInv
  <2>1. /\ history = <<>> /\ historyIdx = -1 /\ original = <<>> /\ searchResult = None
        /\ <<>> \in Seq(Texts) /\ Len(<<>>) = 0
    BY DEF EditorInit, None
  <2>2. QED BY <2>1, TextOfOne DEF HistoryInv
<1>3. QED BY <1>1, <1>2, ClearedOnText DEF EditorInv

LEMMA EditInv ==
  ASSUME EditorInv, NEW ch \in Chars, Edit(ch) PROVE EditorInv'
<1>1. ch \in Texts
  BY EditorAssumption DEF Texts, IsText
<1>2. PICK u \in Edits(ExitHistory, ch) : Become(u)
  BY DEF Edit
<1>3. OnText(u)
  BY <1>1, <1>2, ExitHistoryOnText, EditsOnText
<1>4. OnText(Present)'
  BY <1>2, <1>3, BecomeOnText
<1>5. HistoryInv'
  <2>1. historyIdx' = -1 /\ original' = <<>> /\ UNCHANGED <<history, searchResult>>
    BY DEF Edit, None, searchVars
  <2>2. history \in Seq(Texts) /\ Len(history) \in Nat
    BY DEF EditorInv, HistoryInv
  <2>3. QED BY <2>1, <2>2, TextOfOne DEF EditorInv, HistoryInv
<1>6. QED BY <1>4, <1>5 DEF EditorInv

LEMMA ClearInv == ASSUME EditorInv, Clear PROVE EditorInv'
<1>1. OnText(Present)'
  BY ClearedOnText, BecomeOnText DEF Clear
<1>2. HistoryInv'
  BY DEF Clear, EditorInv, HistoryInv, searchVars
<1>3. QED BY <1>1, <1>2 DEF EditorInv

LEMMA SubmittedInv ==
  ASSUME EditorInv, NEW x \in Texts, Submitted(x) PROVE EditorInv'
<1>1. OnText(Present)'
  BY ClearedOnText, BecomeOnText DEF Submitted
<1>2. HistoryInv'
  <2>1. history \in Seq(Texts) /\ Len(history) \in Nat /\ searchResult' = None
    BY DEF EditorInv, HistoryInv, Submitted
  <2>2. \/ history' = Append(history, x) /\ historyIdx' = -1 /\ original' = <<>>
        \/ UNCHANGED <<history, historyIdx, original>>
    BY DEF Submitted, None
  <2>3. CASE history' = Append(history, x) /\ historyIdx' = -1 /\ original' = <<>>
    <3>1. history' \in Seq(Texts) /\ Len(history') = Len(history) + 1
      BY <2>1, <2>3
    <3>2. QED BY <2>1, <2>3, <3>1, TextOfOne DEF HistoryInv
  <2>4. CASE UNCHANGED <<history, historyIdx, original>>
    BY <2>1, <2>4 DEF EditorInv, HistoryInv
  <2>5. QED BY <2>2, <2>3, <2>4
<1>3. QED BY <1>1, <1>2 DEF EditorInv

LEMMA EnterInv == ASSUME EditorInv, Enter PROVE EditorInv'
<1>1. Content \in Texts
  BY ContentIsText DEF EditorInv
<1>2. ASSUME searchResult # None PROVE Join(LinesOf(history[searchResult])) \in Texts
  <2>1. history[searchResult] \in Texts
    BY <1>2 DEF EditorInv, HistoryInv
  <2>2. QED BY <2>1, LinesOfText, JoinText
<1>3. \E x \in Texts : Submitted(x)
  BY <1>1, <1>2 DEF Enter
<1>4. QED BY <1>3, SubmittedInv

(* The entry an index selects.                                             *)
LEMMA EntryIsText ==
  ASSUME HistoryInv, NEW i \in 0..(Len(history) - 1) PROVE Entry(i) \in Texts
<1>1. history \in Seq(Texts) /\ Len(history) \in Nat
  BY DEF HistoryInv
<1>2. Len(history) - i \in 1..Len(history)
  BY <1>1
<1>3. QED BY <1>1, <1>2 DEF Entry

LEMMA UpInv == ASSUME EditorInv, Up PROVE EditorInv'
<1>1. /\ HistoryInv /\ history \in Seq(Texts) /\ Len(history) \in Nat /\ historyIdx \in -1..(Len(history) - 1)
      /\ Content \in Texts /\ original \in Texts
  BY ContentIsText DEF EditorInv, HistoryInv
<1>2. /\ historyIdx + 1 < Len(history) /\ historyIdx' = historyIdx + 1
      /\ original' \in {original, Content} /\ Become(Shown(Entry(historyIdx + 1)))
      /\ UNCHANGED <<history, searchResult>>
  BY DEF Up, searchVars
<1>3. historyIdx + 1 \in 0..(Len(history) - 1)
  BY <1>1, <1>2
<1>4. OnText(Present)'
  BY <1>1, <1>2, <1>3, EntryIsText, ShownOnText, BecomeOnText
<1>5. HistoryInv'
  BY <1>1, <1>2, <1>3 DEF HistoryInv
<1>6. QED BY <1>4, <1>5 DEF EditorInv

LEMMA DownInv == ASSUME EditorInv, Down PROVE EditorInv'
<1>1. /\ HistoryInv /\ history \in Seq(Texts) /\ Len(history) \in Nat /\ historyIdx \in -1..(Len(history) - 1)
      /\ original \in Texts
  BY DEF EditorInv, HistoryInv
<1>2. /\ historyIdx # -1 /\ historyIdx' = historyIdx - 1
      /\ IF historyIdx = 0 THEN Become(Text(<<original>>, 0, Len(original)))
         ELSE Become(Shown(Entry(historyIdx)))
      /\ original' \in {original, <<>>} /\ UNCHANGED <<history, searchResult>>
  BY DEF Down, searchVars, None
<1>3. historyIdx \in 0..(Len(history) - 1)
  BY <1>1, <1>2
<1>4. OnText(Present)'
  <2>1. CASE historyIdx = 0
    BY <1>1, <1>2, <2>1, OneLineOnText, BecomeOnText
  <2>2. CASE historyIdx # 0
    BY <1>1, <1>2, <1>3, <2>2, EntryIsText, ShownOnText, BecomeOnText
  <2>3. QED BY <2>1, <2>2
<1>5. HistoryInv'
  <2>1. historyIdx' \in -1..(Len(history) - 1) /\ original' \in Texts
    BY <1>1, <1>2, <1>3, TextOfOne
  <2>2. QED BY <1>1, <1>2, <2>1 DEF HistoryInv
<1>6. QED BY <1>4, <1>5 DEF EditorInv

(* A key that leaves the text alone.                                       *)
LEMMA TextStays == ASSUME OnText(Present), UNCHANGED textVars PROVE OnText(Present)'
<1>1. Present' = Present
  BY DEF Present, textVars
<1>2. QED BY <1>1 DEF OnText

LEMMA CtrlRInv == ASSUME EditorInv, CtrlR PROVE EditorInv'
<1>1. original' = Content /\ searchResult' = None /\ UNCHANGED <<textVars, history, historyIdx>>
  BY DEF CtrlR
<1>2. OnText(Present)'
  BY <1>1, TextStays DEF EditorInv
<1>3. HistoryInv'
  BY <1>1, ContentIsText DEF EditorInv, HistoryInv
<1>4. QED BY <1>2, <1>3 DEF EditorInv

LEMMA SearchInv == ASSUME EditorInv, NEW query, Search(query) PROVE EditorInv'
<1>1. /\ searchResult' = Found(query)
      /\ historyIdx' = IF Found(query) = None THEN None ELSE Len(history) - Found(query)
      /\ UNCHANGED <<textVars, history, original>>
  BY DEF Search
<1>2. OnText(Present)'
  BY <1>1, TextStays DEF EditorInv
<1>3. history \in Seq(Texts) /\ Len(history) \in Nat /\ original \in Texts
  BY DEF EditorInv, HistoryInv
<1>4. Found(query) = None \/ Found(query) \in 1..Len(history)
  BY <1>3, FoundIsEntry
<1>5. historyIdx' \in -1..(Len(history) - 1)
  BY <1>1, <1>3, <1>4 DEF None
<1>6. HistoryInv'
  BY <1>1, <1>3, <1>4, <1>5 DEF HistoryInv
<1>7. QED BY <1>2, <1>6 DEF EditorInv

LEMMA SearchMoveInv == ASSUME EditorInv, NEW to, SearchMove(to) PROVE EditorInv'
<1>1. /\ to \in 0..(Len(history) - 1) /\ historyIdx' = to /\ UNCHANGED <<history, original, searchResult>>
      /\ IF searchResult = None THEN UNCHANGED textVars ELSE Become(Shown(history[searchResult]))
  BY DEF SearchMove, searchVars
<1>2. OnText(Present)'
  <2>1. CASE searchResult = None
    BY <1>1, <2>1, TextStays DEF EditorInv
  <2>2. CASE searchResult # None
    <3>1. history[searchResult] \in Texts
      BY <2>2 DEF EditorInv, HistoryInv
    <3>2. QED BY <1>1, <2>2, <3>1, ShownOnText, BecomeOnText
  <2>3. QED BY <2>1, <2>2
<1>3. HistoryInv'
  <2>1. to \in -1..(Len(history) - 1)
    BY <1>1
  <2>2. QED BY <1>1, <2>1 DEF EditorInv, HistoryInv
<1>4. QED BY <1>2, <1>3 DEF EditorInv

LEMMA ExitSearchInv == ASSUME EditorInv, ExitSearch \/ SearchCtrlC PROVE EditorInv'
<1>1. /\ historyIdx' = -1 /\ searchResult' = None /\ original' = <<>> /\ UNCHANGED history
      /\ Become(Text(<<original>>, 0, Len(original))) \/ Become(Cleared)
  BY DEF ExitSearch, SearchCtrlC, None
<1>2. history \in Seq(Texts) /\ Len(history) \in Nat /\ original \in Texts
  BY DEF EditorInv, HistoryInv
<1>3. OnText(Present)'
  BY <1>1, <1>2, ClearedOnText, OneLineOnText, BecomeOnText
<1>4. HistoryInv'
  BY <1>1, <1>2, TextOfOne DEF HistoryInv
<1>5. QED BY <1>3, <1>4 DEF EditorInv

(* Every key keeps EditorInv.                                              *)
LEMMA EditorStep == EditorInv /\ [EditorNext]_editorVars => EditorInv'
<1> SUFFICES ASSUME EditorInv, [EditorNext]_editorVars PROVE EditorInv'
  OBVIOUS
<1>1. ASSUME NEW ch \in Chars, Edit(ch) PROVE EditorInv'
  BY <1>1, EditInv
<1>2. ASSUME NEW ch \in Chars, SearchChar(ch) PROVE EditorInv'
  BY <1>2, SearchInv DEF SearchChar
<1>3. CASE SearchBackspace
  BY <1>3, SearchInv DEF SearchBackspace
<1>4. CASE SearchMove(historyIdx + 1) \/ SearchMove(historyIdx - 1)
  BY <1>4, SearchMoveInv
<1>5. CASE UNCHANGED editorVars
  <2>1. UNCHANGED <<textVars, history, historyIdx, original, searchResult>>
    BY <1>5 DEF editorVars, searchVars
  <2>2. OnText(Present)'
    BY <2>1, TextStays DEF EditorInv
  <2>3. QED BY <2>1, <2>2 DEF EditorInv, HistoryInv
<1>6. QED
  BY <1>1, <1>2, <1>3, <1>4, <1>5, EnterInv, ClearInv, UpInv, DownInv, CtrlRInv, ExitSearchInv
     DEF EditorNext

(***************************************************************************)
(* LineEditor indexes its lines and slices them at the cursor on every     *)
(* key: both are in range, for any characters, any history and any walk    *)
(* through texts, entries and searches.                                    *)
(***************************************************************************)
THEOREM EditorCursorIsOnText == EditorSpec => []CursorIsOnText
<1>1. EditorInv => CursorIsOnText
  BY DEF EditorInv, OnText, Present, Text, CursorIsOnText, Line
<1>2. QED BY EditorBegins, EditorStep, <1>1, PTL DEF EditorSpec

-----------------------------------------------------------------------------
(***************************************************************************)
(* Why the draft comes back: as long as nothing has spoiled it, original   *)
(* is what was being typed when browsing began.                            *)
(***************************************************************************)
DraftInv == Browsing /\ ~spoiled => original = draft

(* Nobody browses at first.                                                *)
LEMMA DraftBegins == EditorInit => DraftInv
<1> SUFFICES ASSUME EditorInit PROVE ~Browsing
  BY Zenon DEF DraftInv
<1>1. historyIdx = None /\ mode # "HistorySearch"
  BY DEF EditorInit
<1>2. QED BY <1>1 DEF Browsing, Searching

(* Only Up, from what is being typed, and Ctrl+R write original while       *)
(* browsing goes on or begins.                                             *)
LEMMA DraftKept ==
  ASSUME DraftInv, Remember,
         Browsing' => IF Browsing THEN original' = original \/ (Searching' /\ ~Searching)
                                  ELSE original' = Content
  PROVE  DraftInv'
<1> SUFFICES ASSUME Browsing', ~spoiled' PROVE original' = draft'
  BY Zenon DEF DraftInv
<1>1. CASE ~Browsing
  BY <1>1, Zenon DEF Remember
<1>2. CASE Browsing
  <2>1. draft' = draft
    BY <1>2, Zenon DEF Remember
  <2>2. ~spoiled /\ ~(Searching' /\ ~Searching)
    BY <1>2, Zenon DEF Remember
  <2>3. original = draft
    BY <1>2, <2>2, Zenon DEF DraftInv
  <2>4. QED BY <1>2, <2>1, <2>2, <2>3
<1>3. QED BY <1>1, <1>2

(* Neither in the history nor searching.                                   *)
LEMMA NotBrowsing ==
  ASSUME historyIdx' = None, mode' # "HistorySearch" PROVE ~Browsing'
  BY DEF Browsing, Searching

(* An editing key ends browsing: no key leads into a search by the mode it *)
(* chooses.                                                                *)
LEMMA EditLeaves == ASSUME NEW ch \in Chars, Edit(ch) PROVE ~Browsing'
<1>1. historyIdx' = None /\ mode # "HistorySearch"
  BY DEF Edit, Searching
<1>2. PICK u : mode' = ModeAfter(ExitHistory, u, ch)
  BY DEF Edit
<1>3. mode' \in {"SlashCommand", "ColonCommand", mode}
  BY <1>2 DEF ModeAfter
<1>4. mode' # "HistorySearch"
  BY <1>1, <1>3
<1>5. QED BY <1>1, <1>4, NotBrowsing

(* Every key keeps DraftInv.                                               *)
LEMMA DraftStep == EditorInv /\ DraftInv /\ [EditorNext]_editorVars => DraftInv'
<1> SUFFICES ASSUME EditorInv, DraftInv, [EditorNext]_editorVars PROVE DraftInv'
  OBVIOUS
<1>1. ASSUME NEW ch \in Chars, Edit(ch) PROVE DraftInv'
  <2>1. ~Browsing'
    BY <1>1, EditLeaves
  <2>2. QED BY <2>1, Zenon DEF DraftInv
<1>2. ASSUME NEW query, Search(query) PROVE DraftInv'
  <2>1. Searching /\ Remember /\ original' = original
    BY <1>2 DEF Search
  <2>2. Browsing
    BY <2>1 DEF Browsing
  <2>3. QED BY <2>1, <2>2, DraftKept
<1>3. ASSUME NEW to, SearchMove(to) PROVE DraftInv'
  <2>1. Searching /\ Remember /\ original' = original
    BY <1>3 DEF SearchMove
  <2>2. Browsing
    BY <2>1 DEF Browsing
  <2>3. QED BY <2>1, <2>2, DraftKept
<1>4. ASSUME Remember, mode' = "Chat",
             \/ historyIdx' = None
             \/ ~Searching /\ UNCHANGED <<historyIdx, original>>
             \/ Searching /\ UNCHANGED <<historyIdx, original>>
      PROVE DraftInv'
  <2>1. CASE historyIdx' = None
    <3>1. ~Browsing'
      BY <1>4, <2>1, NotBrowsing
    <3>2. QED BY <3>1, Zenon DEF DraftInv
  <2>2. CASE historyIdx' = historyIdx /\ original' = original
    <3>1. Browsing' => Browsing
      BY <1>4, <2>2 DEF Browsing, Searching
    <3>2. QED BY <1>4, <2>2, <3>1, DraftKept
  <2>3. QED BY <1>4, <2>1, <2>2
<1>5. CASE Clear
  BY <1>4, <1>5 DEF Clear
<1>6. ASSUME NEW x, Submitted(x) PROVE DraftInv'
  <2>1. Remember /\ mode' = "Chat" /\ (historyIdx' = None \/ UNCHANGED <<historyIdx, original>>)
    BY <1>6 DEF Submitted
  <2>2. QED BY <1>4, <2>1
<1>7. CASE ExitSearch \/ SearchCtrlC
  <2>1. Remember /\ mode' = "Chat" /\ historyIdx' = None
    BY <1>7 DEF ExitSearch, SearchCtrlC
  <2>2. QED BY <1>4, <2>1
<1>8. CASE Up
  <2>1. ~Searching /\ Remember /\ original' = IF historyIdx = None THEN Content ELSE original
    BY <1>8 DEF Up
  <2>2. Browsing <=> historyIdx # None
    BY <2>1 DEF Browsing
  <2>3. QED BY <2>1, <2>2, DraftKept
<1>9. CASE Down
  <2>1. /\ ~Searching /\ Remember /\ historyIdx # None /\ historyIdx' = historyIdx - 1
        /\ original' = (IF historyIdx = 0 THEN <<>> ELSE original) /\ mode' = mode
    BY <1>9 DEF Down
  <2>2. CASE historyIdx = 0
    <3>1. historyIdx' = None /\ mode' # "HistorySearch"
      BY <2>1, <2>2 DEF None, Searching
    <3>2. ~Browsing'
      BY <3>1, NotBrowsing
    <3>3. QED BY <3>2, Zenon DEF DraftInv
  <2>3. CASE historyIdx # 0
    <3>1. Browsing /\ original' = original
      BY <2>1, <2>3 DEF Browsing
    <3>2. QED BY <2>1, <3>1, DraftKept
  <2>4. QED BY <2>2, <2>3
<1>10. CASE CtrlR
  <2>1. Remember /\ original' = Content /\ ~Searching /\ mode' = "HistorySearch"
    BY <1>10 DEF CtrlR
  <2>2. Searching'
    BY <2>1 DEF Searching
  <2>3. QED BY <2>1, <2>2, DraftKept
<1>11. CASE UNCHANGED editorVars
  <2>1. UNCHANGED <<mode, historyIdx, original, draft>> /\ spoiled' = spoiled
    BY <1>11 DEF editorVars
  <2>2. Browsing' = Browsing
    BY <2>1 DEF Browsing, Searching
  <2>3. CASE Browsing' /\ ~spoiled'
    <3>1. original = draft
      BY <2>1, <2>2, <2>3, Zenon DEF DraftInv
    <3>2. original' = draft'
      BY <2>1, <3>1
    <3>3. QED BY <3>2, Zenon DEF DraftInv
  <2>4. CASE ~(Browsing' /\ ~spoiled')
    BY <2>4, Zenon DEF DraftInv
  <2>5. QED BY <2>3, <2>4
<1>12. QED
  <2>1. CASE EditorNext
    BY <2>1, <1>1, <1>2, <1>3, <1>5, <1>6, <1>7, <1>8, <1>9, <1>10
       DEF EditorNext, SearchChar, SearchBackspace, Enter
  <2>2. QED BY <2>1, <1>11

(* A text and what begins it.                                              *)
LEMMA PrefixOfText ==
  ASSUME NEW x \in Texts
  PROVE  /\ IsPrefix(x, x) /\ SubSeq(x, 1, Len(x)) = x
         /\ \A y \in Texts : IsPrefix(x, x \o y)
         /\ \A p \in 0..Len(x) : IsPrefix(SubSeq(x, 1, p), x)
<1>1. x \in Seq(Byte) /\ Len(x) \in Nat
  BY TextIs
<1>2. SubSeq(x, 1, Len(x)) = x
  BY <1>1
<1>3. IsPrefix(x, x)
  BY <1>1 DEF IsPrefix
<1>4. ASSUME NEW y \in Texts PROVE IsPrefix(x, x \o y)
  <2>1. y \in Seq(Byte) /\ Len(y) \in Nat
    BY TextIs
  <2>2. Len(x) <= Len(x \o y) /\ SubSeq(x \o y, 1, Len(x)) = x
    BY <1>1, <2>1
  <2>3. QED BY <1>2, <2>2 DEF IsPrefix
<1>5. ASSUME NEW p \in 0..Len(x) PROVE IsPrefix(SubSeq(x, 1, p), x)
  <2>1. Len(SubSeq(x, 1, p)) = p /\ p <= Len(x) /\ SubSeq(SubSeq(x, 1, p), 1, p) = SubSeq(x, 1, p)
    BY <1>1
  <2>2. QED BY <2>1 DEF IsPrefix
<1>6. QED BY <1>2, <1>3, <1>4, <1>5

(* A key at the end of a line adds to it, or takes its last character.     *)
LEMMA EditOfDraft ==
  ASSUME NEW x \in Texts, NEW ch \in Texts, NEW u \in Edits(Text(<<x>>, 0, Len(x)), ch)
  PROVE  IsPrefix(Join(u.lines), x) \/ IsPrefix(x, Join(u.lines))
<1> DEFINE t == Text(<<x>>, 0, Len(x))
<1>1. /\ t.lines = <<x>> /\ t.row = 0 /\ t.col = Len(x) /\ t.lines[t.row + 1] = x
      /\ Len(t.lines) = 1
  BY DEF Text
<1>2. x \in Seq(Byte) /\ Len(x) \in Nat
  BY TextIs
<1>3. SubSeq(x, Len(x) + 1, Len(x)) = <<>> /\ SubSeq(x, 1, Len(x)) = x
  BY <1>2
<1> HIDE DEF t
<1>4. ASSUME NEW v, v.lines = <<x>> PROVE IsPrefix(Join(v.lines), x)
  BY <1>4, JoinOfOne, PrefixOfText
<1>5. CASE u = Inserted(t, ch)
  <2>1. u.lines = [<<x>> EXCEPT ![1] = SubSeq(x, 1, Len(x)) \o ch \o SubSeq(x, Len(x) + 1, Len(x))]
    BY <1>1, <1>5 DEF Inserted, Text
  <2>2. u.lines = [<<x>> EXCEPT ![1] = x \o ch \o <<>>]
    BY <1>3, <2>1
  <2>3. x \o ch \o <<>> = x \o ch
    <3>1. x \o ch \in Seq(Byte)
      BY TextConcat, TextIs
    <3>2. QED BY <3>1
  <2>4. \A y : [<<x>> EXCEPT ![1] = y] = <<y>>
    OBVIOUS
  <2>5. u.lines = <<x \o ch>>
    BY <2>2, <2>3, <2>4
  <2>6. QED BY <2>5, JoinOfOne, PrefixOfText
<1>6. CASE u = NewLine(t)
  <2>1. u.lines = SubSeq(<<x>>, 1, 0) \o <<SubSeq(x, 1, Len(x)), SubSeq(x, Len(x) + 1, Len(x))>>
                    \o SubSeq(<<x>>, 0 + 2, 1)
    BY <1>1, <1>6 DEF NewLine, Text
  <2>2. SubSeq(<<x>>, 1, 0) = <<>> /\ SubSeq(<<x>>, 0 + 2, 1) = <<>>
    OBVIOUS
  <2>3. \A y, z : <<>> \o <<y, z>> \o <<>> = <<y, z>>
    OBVIOUS
  <2>4. u.lines = <<x, <<>>>>
    BY <1>3, <2>1, <2>2, <2>3
  <2>5. QED BY <2>4, JoinOfTwo, TextOfOne, PrefixOfText
<1>7. CASE u = Backspaced(t)
  <2>1. CASE Len(x) > 0
    <3>1. PICK p : p = PrevBoundary(x, Len(x))
      OBVIOUS
    <3>2. p \in 0..Len(x)
      BY <1>2, <2>1, <3>1, PrevBoundaryIs
    <3>3. u.lines = [<<x>> EXCEPT ![1] = Cut(x, p, Len(x))]
      BY <1>1, <1>7, <2>1, <3>1 DEF Backspaced, Text
    <3>4. Cut(x, p, Len(x)) = SubSeq(x, 1, p)
      <4>1. SubSeq(x, 1, p) \in Seq(Byte)
        BY <3>2, TextStart, TextIs
      <4>2. SubSeq(x, 1, p) \o <<>> = SubSeq(x, 1, p)
        BY <4>1
      <4>3. QED BY <1>3, <4>2 DEF Cut
    <3>5. \A y : [<<x>> EXCEPT ![1] = y] = <<y>>
      OBVIOUS
    <3>6. u.lines = <<SubSeq(x, 1, p)>>
      BY <3>3, <3>4, <3>5
    <3>7. IsPrefix(SubSeq(x, 1, p), x)
      BY <3>2, PrefixOfText
    <3>8. Join(u.lines) = SubSeq(x, 1, p)
      BY ONLY <3>6, JoinOfOne
    <3>9. QED BY ONLY <3>7, <3>8
  <2>2. CASE ~(Len(x) > 0)
    BY <1>1, <1>4, <1>7, <2>2 DEF Backspaced
  <2>3. QED BY <2>1, <2>2
<1>8. CASE u = Deleted(t)
  BY <1>1, <1>2, <1>4, <1>8 DEF Deleted
<1>9. CASE u = MovedLeft(t) \/ u = MovedRight(t) \/ u = Text(t.lines, t.row, 0)
             \/ u = Text(t.lines, t.row, Len(t.lines[t.row + 1]))
  <2>1. u.lines = <<x>>
    BY <1>1, <1>2, <1>9 DEF MovedLeft, MovedRight, Text
  <2>2. QED BY <1>4, <2>1
<1>10. u \in Edits(t, ch)
  BY DEF t
<1>11. QED BY <1>5, <1>6, <1>7, <1>8, <1>9, <1>10 DEF Edits

(* What DraftComesBack says of one step.                                   *)
ComesBack ==
  Browsing /\ ~Browsing' /\ ~spoiled /\ Content' # <<>> =>
    IsPrefix(Content', draft) \/ IsPrefix(draft, Content')

(* Every key that leaves the history or a search brings it back.           *)
LEMMA ComesBackStep == EditorInv /\ DraftInv /\ [EditorNext]_editorVars => ComesBack
<1> SUFFICES ASSUME EditorInv, DraftInv, [EditorNext]_editorVars,
                    Browsing, ~Browsing', ~spoiled, Content' # <<>>
             PROVE  IsPrefix(Content', draft) \/ IsPrefix(draft, Content')
  BY Zenon DEF ComesBack
<1>1. original = draft /\ original \in Texts
  <2>1. original = draft
    BY Zenon DEF DraftInv
  <2>2. QED BY <2>1 DEF EditorInv, HistoryInv
<1>2. historyIdx \in -1..(Len(history) - 1)
  BY DEF EditorInv, HistoryInv
<1>3. ASSUME Become(Text(<<original>>, 0, Len(original)))
      PROVE  IsPrefix(Content', draft)
  <2>1. lines' = <<original>>
    BY <1>3 DEF Become, Text
  <2>2. Content' = original
    BY <2>1, JoinOfOne DEF Content
  <2>3. QED BY <1>1, <2>2, PrefixOfText
<1>4. ASSUME Become(Cleared) PROVE FALSE
  <2>1. lines' = <<<<>>>>
    BY <1>4 DEF Become, Cleared, Text, Empty
  <2>2. Content' = <<>>
    BY <2>1, JoinOfOne DEF Content
  <2>3. QED BY <2>2
<1>5. ASSUME NEW ch \in Chars, Edit(ch)
      PROVE  IsPrefix(Content', draft) \/ IsPrefix(draft, Content')
  <2>1. historyIdx # None
    BY <1>5 DEF Edit, Browsing
  <2>2. PICK u \in Edits(Text(<<original>>, 0, Len(original)), ch) : Become(u)
    BY <1>5, <2>1 DEF Edit, ExitHistory
  <2>3. ch \in Texts
    BY EditorAssumption DEF Texts, IsText
  <2>4. Content' = Join(u.lines)
    BY <2>2 DEF Become, Content
  <2>5. QED BY <1>1, <2>2, <2>3, <2>4, EditOfDraft
<1>6. CASE Clear \/ SearchCtrlC \/ \E x : Submitted(x)
  BY <1>4, <1>6 DEF Clear, SearchCtrlC, Submitted
<1>7. CASE ExitSearch
  BY <1>3, <1>7 DEF ExitSearch
<1>8. CASE Down
  <2>1. /\ historyIdx' = historyIdx - 1
        /\ historyIdx = 0 => Become(Text(<<original>>, 0, Len(original)))
    BY <1>8 DEF Down
  <2>2. historyIdx' = None
    BY DEF Browsing
  <2>3. historyIdx = 0
    BY <1>2, <2>1, <2>2 DEF None
  <2>4. QED BY <1>3, <2>1, <2>3
<1>9. CASE Up
  BY <1>2, <1>9 DEF Up, Browsing, None
<1>10. CASE CtrlR
  BY <1>10 DEF CtrlR, Browsing, Searching
<1>11. ASSUME Searching, mode' = mode PROVE FALSE
  BY <1>11 DEF Browsing, Searching
<1>12. CASE (\E query : Search(query)) \/ (\E to : SearchMove(to))
  BY <1>11, <1>12 DEF Search, SearchMove
<1>13. CASE UNCHANGED editorVars
  BY <1>13 DEF editorVars, Browsing, Searching
<1>14. QED
  <2>1. CASE EditorNext
    BY <2>1, <1>5, <1>6, <1>7, <1>8, <1>9, <1>10, <1>12
       DEF EditorNext, SearchChar, SearchBackspace, Enter
  <2>2. QED BY <2>1, <1>13

(***************************************************************************)
(* What was being typed is never lost to the history: Down, Escape and the *)
(* editing keys bring it back, with what the key itself adds or takes, for *)
(* any texts and histories; what spoils it is a clear, a command or a      *)
(* second search.                                                          *)
(***************************************************************************)
THEOREM EditorDraftComesBack == EditorSpec => DraftComesBack
<1>1. EditorSpec => [][ComesBack]_editorVars
  BY EditorBegins, EditorStep, DraftBegins, DraftStep, ComesBackStep, PTL DEF EditorSpec
<1>2. QED BY <1>1, PTL DEF DraftComesBack, ComesBack
=============================================================================
