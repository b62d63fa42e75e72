----------------------------- MODULE TermInput ------------------------------
(***************************************************************************)
(* The keyboard and the window of viv's UI thread: bytes of the terminal   *)
(* become key events (src/core/terminal/input.rs), the event loop reads    *)
(* them and notices a new size through a self-pipe                         *)
(* (src/core/terminal/events.rs, src/core/platform/unix/terminal.rs), and  *)
(* raw mode is given back however the UI ends (backend.rs, terminal.rs).   *)
(* A byte is named; "lead" and "tail" make one two-byte character.         *)
(***************************************************************************)
EXTENDS Integers, Sequences, SequencesExt, FiniteSets

CONSTANTS
  Keys,         \* what the user may press
  MaxKeys,      \* bound: keys pressed
  MaxResizes    \* bound: changes of the window size

(* A key that is its own byte is none of the bytes that mean more, and no  *)
(* key has the name of a result that is none.                              *)
ASSUME KeysAssumption == Keys \cap {"ESC", "^C", "lead", "tail", "none", "Mouse"} = {}

VARIABLES
  pressed,      \* history: the keys, in order
  tty,          \* bytes the program has not read
  read,         \* history: how many bytes it has
  clean,        \* history: no read ended within a key or met what Ambiguous rules out
  buf,          \* InputParser.buf
  events,       \* the key events given out
  size,         \* the window's size, as a number of its changes
  signalled,    \* SIGWINCH is pending
  pipe,         \* bytes in the self-pipe
  known,        \* the size the UI works with
  missed,       \* history: the size changed before the handler was installed
  loop,         \* where the UI thread is
  raw           \* the terminal is in raw mode

keyVars == <<pressed, tty, read, clean, buf, events>>
sizeVars == <<size, signalled, pipe, known, missed>>
inputVars == <<keyVars, sizeVars, loop, raw>>

(***************************************************************************)
(* Keys and their bytes                                                    *)
(***************************************************************************)
BytesOf(key) ==
  CASE key = "Up" -> <<"ESC", "[", "A">> [] key = "Delete" -> <<"ESC", "[", "3", "~">>
    [] key = "Escape" -> <<"ESC">> [] key = "CtrlC" -> <<"^C">> [] key = "wide" -> <<"lead", "tail">>
    [] key = "ShiftTab" -> <<"ESC", "[", "Z">> [] key = "CtrlRight" -> <<"ESC", "[", "1", "semi", "5", "C">>
    [] key = "Press" -> <<"ESC", "[", "<", "0", "semi", "1", "semi", "1", "M">>
    [] key = "Wheel" -> <<"ESC", "[", "<", "6", "semi", "1", "semi", "1", "M">>
    [] key = "Press1000" -> <<"ESC", "[", "M", "blank", "1", "1">>
    [] key = "Wheel1000" -> <<"ESC", "[", "M", "a", "1", "1">>
    [] key = "Press1015" -> <<"ESC", "[", "0", "semi", "1", "semi", "1", "M">>
    [] key = "Release1015" -> <<"ESC", "[", "3", "semi", "1", "semi", "1", "M">>
    [] OTHER -> <<key>>

(* The keys the parser has no event for: it guesses where they end.  The   *)
(* mouse it knows, and reports no key for it.                              *)
Strange == {"ShiftTab", "CtrlRight", "Wheel", "Wheel1000"}
Mouse == {"Press", "Press1000", "Press1015", "Release1015"}

Digits == {"0", "1", "3", "5", "6"}
Arrows == [A |-> "Up", B |-> "Down", C |-> "Right", D |-> "Left", H |-> "Home", F |-> "End"]
Controls == {"^C"}

(***************************************************************************)
(* InputParser::next_event: an event, or "none", and the bytes left.       *)
(***************************************************************************)
Took(event, b, n) == [event |-> event, rest |-> SubSeq(b, n + 1, Len(b))]
Atmost4(b) == IF Len(b) < 4 THEN Len(b) ELSE 4
Unknown(b, n) == Took("Unknown", b, n)

FirstAt(b, from, marks) ==
  CHOOSE p \in from..Len(b) : b[p] \in marks /\ \A q \in from..(p - 1) : b[q] \notin marks
HasMark(b, from, marks) == \E p \in from..Len(b) : b[p] \in marks

(* "N;X;Y": three parts, the first of them N. *)
IsTriple(params) == Cardinality({i \in DOMAIN params : params[i] = "semi"}) = 2
FirstPart(params) == SubSeq(params, 1, FirstAt(params, 1, {"semi"}) - 1)

(* ESC [ N ; X ; Y M: everything up to the M is gone in any case. *)
Urxvt(b, buttons) ==
  LET end == FirstAt(b, 3, {"M"})
      params == SubSeq(b, 3, end - 1)
      button == IsTriple(params) /\ FirstPart(params) \in buttons
  IN Took(IF button THEN "Mouse" ELSE "none", b, end)

Sgr(b) ==
  LET end == FirstAt(b, 4, {"M", "m"})
  IN Took(IF FirstPart(SubSeq(b, 4, end - 1)) = <<"0">> THEN "Mouse" ELSE "none", b, end)

IsSgr(b) ==
  /\ b[3] = "<" /\ Len(b) >= 6 /\ HasMark(b, 4, {"M", "m"})
  /\ IsTriple(SubSeq(b, 4, FirstAt(b, 4, {"M", "m"}) - 1))

(* Mutant: an arrow key leaves its letter in the buffer. *)
CsiEventShort(b) ==
  IF b[3] \in DOMAIN Arrows THEN Took(Arrows[b[3]], b, 2) ELSE Unknown(b, Atmost4(b))

CsiEvent(b) ==
  CASE b[3] \in DOMAIN Arrows -> Took(Arrows[b[3]], b, 3)
    [] b[3] = "3" -> IF Len(b) > 3 /\ b[4] = "~" THEN Took("Delete", b, 4)
                     ELSE IF HasMark(b, 3, {"M"}) THEN Urxvt(b, {<<"3">>})
                     ELSE Unknown(b, Atmost4(b))
    [] b[3] = "M" /\ Len(b) >= 6 -> Took(IF b[4] \in {"blank", "#"} THEN "Mouse" ELSE "none", b, 6)
    [] IsSgr(b) -> Sgr(b)
    [] b[3] \in Digits \ {"3"} /\ HasMark(b, 3, {"M"}) -> Urxvt(b, {<<"0">>, <<"3">>})
    [] OTHER -> Unknown(b, Atmost4(b))

NextEvent(b) ==
  CASE b[1] = "ESC" -> IF Len(b) < 3 \/ b[2] # "[" THEN Took("Escape", b, 1) ELSE CsiEvent(b)
    [] b[1] \in Controls -> Took("CtrlC", b, 1)
    [] b[1] = "tail" -> Unknown(b, 1)
    [] b[1] = "lead" -> IF Len(b) < 2 THEN Unknown(b, 1)
                        ELSE IF b[2] = "tail" THEN Took("wide", b, 2) ELSE Unknown(b, 2)
    [] OTHER -> Took(b[1], b, 1)

(* while let Some(event): an event that is none ends it, whatever is left. *)
Drain(st) ==
  IF st.over \/ st.buf = <<>> THEN st
  ELSE LET next == NextEvent(st.buf)
       IN [buf |-> next.rest, over |-> next.event = "none",
           out |-> IF next.event \in {"none", "Mouse"} THEN st.out ELSE Append(st.out, next.event)]
Drained(bytes) ==
  LET after[i \in 0..Len(bytes)] ==
        IF i = 0 THEN [buf |-> bytes, over |-> FALSE, out |-> <<>>] ELSE Drain(after[i - 1])
  IN after[Len(bytes)]

(***************************************************************************)
(* Actions                                                                 *)
(***************************************************************************)
InputInit ==
  /\ pressed = <<>> /\ tty = <<>> /\ read = 0 /\ clean = TRUE /\ buf = <<>> /\ events = <<>>
  /\ size = 0 /\ signalled = FALSE /\ pipe = 0 /\ known = 0 /\ missed = FALSE
  /\ loop = "starting" /\ raw = TRUE

Press(key) ==
  /\ Len(pressed) < MaxKeys
  /\ pressed' = Append(pressed, key) /\ tty' = tty \o BytesOf(key)
  /\ UNCHANGED <<read, clean, buf, events, sizeVars, loop, raw>>

(* TerminalUI::new read the size; EventLoop::new installs the handler. *)
Install ==
  /\ loop = "starting" /\ loop' = "polling"
  /\ UNCHANGED <<keyVars, sizeVars, raw>>

Resize ==
  /\ size < MaxResizes /\ size' = size + 1
  /\ missed' = (missed \/ loop = "starting")
  /\ signalled' = (signalled \/ loop # "starting")
  /\ UNCHANGED <<keyVars, pipe, known, loop, raw>>

(* The handler writes one byte, at any point of the UI thread. *)
Handler ==
  /\ signalled /\ signalled' = FALSE /\ pipe' = pipe + 1
  /\ UNCHANGED <<keyVars, size, known, missed, loop, raw>>

(* Where the bytes of each key end. *)
Ends(keys) ==
  LET upTo[n \in 0..Len(keys)] == IF n = 0 THEN 0 ELSE upTo[n - 1] + Len(BytesOf(keys[n]))
  IN upTo
Boundaries == {Ends(pressed)[k] : k \in 0..Len(pressed)}

(* What the parser guesses at: a sequence it does not know, and an Escape  *)
(* with a typed "[" behind it, which look like the start of one.           *)
Ambiguous(keys) ==
  \/ ToSet(keys) \cap Strange # {}
  \/ \E i \in 2..Len(keys) : keys[i - 1] = "Escape" /\ keys[i] = "["

(* drain_stdin: what has arrived, which may end anywhere. *)
ReadKeys(n) ==
  LET all == Drained(buf \o SubSeq(tty, 1, n))
  IN /\ loop = "polling" /\ n \in 1..Len(tty)
     /\ tty' = SubSeq(tty, n + 1, Len(tty)) /\ read' = read + n
     /\ clean' = (clean /\ read + n \in Boundaries /\ ~Ambiguous(pressed))
     /\ buf' = all.buf /\ events' = events \o all.out
     /\ UNCHANGED <<pressed, sizeVars, loop, raw>>

(* TOKEN_SIGNAL: the pipe is emptied first, the size asked for after. *)
DrainPipe ==
  /\ loop = "polling" /\ pipe > 0
  /\ pipe' = 0 /\ loop' = "sizing"
  /\ UNCHANGED <<keyVars, size, signalled, known, missed, raw>>
AskSize ==
  /\ loop = "sizing"
  /\ known' = size /\ loop' = "polling"
  /\ UNCHANGED <<keyVars, size, signalled, pipe, missed, raw>>

(* Mutant: the size is asked for first. *)
DrainPipeLast ==
  \/ /\ loop = "polling" /\ pipe > 0 /\ known' = size /\ loop' = "sized"
     /\ UNCHANGED <<keyVars, size, signalled, pipe, missed, raw>>
  \/ /\ loop = "sized" /\ pipe' = 0 /\ loop' = "polling"
     /\ UNCHANGED <<keyVars, size, signalled, known, missed, raw>>
DrainAndAsk == DrainPipe \/ AskSize

(* cleanup, an error or a panic: Drop restores the terminal in any case. *)
Leave ==
  /\ loop \in {"starting", "polling"}
  /\ loop' = "left" /\ raw' = FALSE
  /\ UNCHANGED <<keyVars, sizeVars>>

InputNext ==
  \/ \E key \in Keys : Press(key)
  \/ \E n \in 1..Len(tty) : ReadKeys(n)
  \/ Install \/ Resize \/ Handler \/ DrainAndAsk \/ Leave

InputSpec == InputInit /\ [][InputNext]_inputVars

(***************************************************************************)
(* Properties                                                              *)
(***************************************************************************)
EventsOf(keys) ==
  LET upTo[n \in 0..Len(keys)] ==
        IF n = 0 THEN <<>> ELSE IF keys[n] \in Mouse THEN upTo[n - 1] ELSE Append(upTo[n - 1], keys[n])
  IN upTo
KeyEvents == EventsOf(pressed)[Len(pressed)]

(***************************************************************************)
(* What is typed is what arrives, in order and nothing added, for any mix  *)
(* of characters, control keys and escape sequences in one read.  It ends  *)
(* with a read that stops within a sequence or a sequence the parser does  *)
(* not know: those it takes for other keys, and up to two keys after them  *)
(* may be lost.                                                            *)
(***************************************************************************)
KeysArrive == clean /\ tty = <<>> => events = KeyEvents

(***************************************************************************)
(* No change of the window is missed between two polls: once the signal    *)
(* was taken care of the UI works with the present size.  Only a change    *)
(* between TerminalUI::new and EventLoop::new goes unnoticed.              *)
(***************************************************************************)
SizeIsKnown == ~missed /\ ~signalled /\ pipe = 0 /\ loop \in {"starting", "polling"} => known = size
=============================================================================
