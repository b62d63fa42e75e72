----------------------------- MODULE Peers_proofs -----------------------------
(***************************************************************************)
(* What viv and those it talks to make of each other: a TLS connection,    *)
(* for every packing of the flight, every size of records, reply and       *)
(* buffer; and a command of the Bash tool, for every deadline and every    *)
(* size of pipe and output.                                                *)
(***************************************************************************)
EXTENDS Tls, Bash, SequenceLemmas, TLAPS

-----------------------------------------------------------------------------
(* Tls.                                                                    *)

(* A sequence of whatever it holds.                                        *)
IsSequence(s) == s \in Seq(ToSet(s))

(* A key when n records have been encrypted with it.                       *)
Nth(key, n) == [key EXCEPT !.seq = n]
(* What the two ends derive, and when: the keys, and what is hashed by     *)
(* then: after e messages of the server's flight, by the time of the       *)
(* client's Finished, and at the end.                                      *)
Handshake13(w) == Key(w, "handshake", Hello13)
DataKey(version, w) == IF version = "1.3" THEN Key(w, "data", Hello13 \o Flight13) ELSE Key12(w)
T13(e) == Hello13 \o SubSeq(Flight13, 1, e)
T12(e) == <<"ClientHello">> \o SubSeq(Flight12, 1, e)
KeyExchanged == Append(T12(4), "ClientKeyExchange")
Final(version) ==
  IF version = "1.3" THEN Append(T13(4), "ClientFinished") ELSE T12(4) \o ClientFlight

(* The client, by how far it is. *)
State(state, version, transcript, enc, dec) ==
  [state |-> state, version |-> version, transcript |-> transcript,
   enc |-> enc, dec |-> dec, error |-> "none"]
Fresh == State("start", "1.3", <<>>, NoKey, NoKey)
Greeted == State("ServerHello", "1.3", <<"ClientHello">>, NoKey, NoKey)
Reading13(e, j) ==
  State(IF e = 4 THEN "Complete" ELSE Flight13[e + 1], "1.3", T13(e),
     Handshake13("client"), Nth(Handshake13("server"), j))
Reading12(e) ==
  IF e = 0 THEN Greeted
  ELSE State(IF e = 1 THEN "AnyCertificate" ELSE Flight12[e + 1], "1.2", T12(e), NoKey, NoKey)
Talking(version, state, w, r) ==
  State(state, version, Final(version),
     Nth(DataKey(version, "client"), w), Nth(DataKey(version, "server"), r))

(* The server is a record: its fields can be changed one by one.           *)
ServerShape ==
  server = [phase |-> server.phase, version |-> server.version, transcript |-> server.transcript,
            enc |-> server.enc, dec |-> server.dec, sent |-> server.sent, error |-> server.error]

NothingRead == plaintext = <<>> /\ returned = <<>> /\ ~eof
(* Before the server has answered.                                         *)
ClientHello == Plain("handshake", <<Msg("ClientHello")>>)
Beginning ==
  /\ server.phase = "start" /\ server.enc = NoKey /\ server.dec = NoKey
  /\ server.sent = 0 /\ server.version = "none"
  /\ wire = <<>> /\ NothingRead
  /\ \/ client = Fresh /\ outgoing = <<>>
     \/ client = Greeted /\ outgoing = <<ClientHello>>
(* The server hung up in the handshake: the one way a connection fails.    *)
Failed ==
  /\ client.error = "closed" /\ client.state \notin {"start", "Complete"}
  /\ server.phase = "closed" /\ NothingRead

(* What is left of the server's flight of TLS 1.3 stands behind the first  *)
(* b records on the wire and ends with the h-th: the messages after the    *)
(* e-th, cut into records, of which the first is the j-th under its key.   *)
FlightRecord(a, c, n) ==
  Encrypted13("handshake", Nth(Handshake13("server"), n), SubSeq(Messages13, a + 1, c))
FlightLeft(b, h, e, j) ==
  /\ b <= h /\ h <= Len(wire)
  /\ \E ends \in [0..(h - b) -> 0..4] :
       /\ ends[0] = e /\ ends[h - b] = 4
       /\ \A x \in 1..(h - b) :
            ends[x - 1] < ends[x] /\ wire[b + x] = FlightRecord(ends[x - 1], ends[x], j + x - 1)
(* The server's answer to the client's Finished in TLS 1.2.                *)
ServerFinished12 ==
  Encrypted12("handshake", Key12("server"), <<MessageOf("Finished", Final("1.2"))>>)

(* How far the client is, what it has yet to read of the handshake (the    *)
(* first h records), and the number of the first record behind.            *)
Front13(h, first) ==
  \/ /\ client = Greeted /\ first = 0 /\ NothingRead
     /\ wire[1] = Plain("handshake", <<Msg("ServerHello13")>>)
     /\ \E b \in {1, 2} : (b = 2 => wire[2] = ChangeCipherSpec) /\ FlightLeft(b, h, 0, 0)
  \/ /\ first = 0 /\ NothingRead
     /\ \E b \in {0, 1}, e \in 0..4, j \in Nat :
          /\ client = Reading13(e, j)
          /\ b = 1 => e = 0 /\ wire[1] = ChangeCipherSpec
          /\ FlightLeft(b, h, e, j)
  \/ /\ h = 0
     /\ \E state \in {"Open", "asked", "dropped"}, w \in Nat : client = Talking("1.3", state, w, first)
Front12(h, first) ==
  \/ /\ server.phase \in {"hello", "closed"} /\ Len(wire) = h /\ first = 1 /\ NothingRead
     /\ \/ \E e \in 0..3 :
             /\ client = Reading12(e) /\ h = 4 - e
             /\ \A x \in 1..h : wire[x] = Plain("handshake", <<Msg(Flight12[e + x])>>)
        \/ client = Talking("1.2", "ChangeCipher", 1, 0) /\ h = 0
  \/ /\ server.phase # "hello" /\ first = 1 /\ NothingRead
     /\ \/ client = Talking("1.2", "ChangeCipher", 1, 0) /\ h = 2 /\ wire[1] = ChangeCipherSpec
        \/ client = Talking("1.2", "Finished", 1, 0) /\ h = 1
     /\ h <= Len(wire) /\ wire[h] = ServerFinished12
  \/ /\ h = 0 /\ server.phase # "hello"
     /\ \E state \in {"Open", "asked", "dropped"}, w \in Nat :
          w >= 1 /\ client = Talking("1.2", state, w, first)

(* A record that takes the reply from byte a to byte c: data; or a ticket  *)
(* or a close_notify, which take it nowhere.                               *)
Carries(r, version, key, a, c) ==
  \/ a < c /\ r = Encrypted(version, "data", key, Bytes(a, c))
  \/ /\ version = "1.3" /\ a = c
     /\ \/ r = Encrypted13("handshake", key, <<Msg("NewSessionTicket")>>)
        \/ r = Encrypted13("alert", key, <<"close_notify">>)
Got == Len(returned) + Len(plaintext)
(* Behind the handshake stands what the client has not read of the reply:  *)
(* the records of it follow one another without a gap, each under the next *)
(* number of the server's key, and a close_notify is the last.             *)
ReplyLeft(version, h, first) ==
  LET m == Len(wire) - h
  IN /\ m >= 0
     /\ server.phase # "closed" =>
          server.enc = IF version = "1.2" /\ server.phase = "hello" THEN NoKey
                       ELSE Nth(DataKey(version, "server"), first + m)
     /\ \A x \in 1..m : wire[h + x].inner = "alert" => x = m /\ server.phase = "closed"
     /\ \E cut \in [0..m -> Nat] :
          /\ cut[0] = Got /\ cut[m] = server.sent
          /\ \A x \in 1..m :
               Carries(wire[h + x], version, Nth(DataKey(version, "server"), first + x - 1),
                       cut[x - 1], cut[x])
(* What is on its way to the client fits the client.                       *)
Inbound(version) ==
  \E h \in Nat, first \in Nat :
    /\ IF version = "1.3" THEN Front13(h, first) ELSE Front12(h, first)
    /\ ReplyLeft(version, h, first)

(* How many records the client has sent after its hello.                   *)
SentAs(c) == IF c.enc.stage \in {"data", "1.2"} THEN c.enc.seq + 2 ELSE 0
Sent == SentAs(client)
(* The client's last messages of the handshake.                            *)
Finished13 ==
  Encrypted13("handshake", Handshake13("client"), <<MessageOf("ClientFinished", T13(4))>>)
Finished12 ==
  Encrypted12("handshake", Key12("client"), <<MessageOf("ClientFinished", KeyExchanged)>>)
Asks(r, version, key) ==
  \/ r = Encrypted(version, "data", key, <<"request">>)
  \/ r = Encrypted(version, "alert", key, <<"close_notify">>)
(* The q-th record the client sends after its hello.                       *)
IsSent(version, q, r) ==
  IF version = "1.3"
  THEN /\ q = 1 => r = ChangeCipherSpec
       /\ q = 2 => r = Finished13
       /\ q > 2 => Asks(r, "1.3", Nth(DataKey("1.3", "client"), q - 3))
  ELSE /\ q = 1 => r = Plain("handshake", <<Msg("ClientKeyExchange")>>)
       /\ q = 2 => r = ChangeCipherSpec
       /\ q = 3 => r = Finished12
       /\ q > 3 => Asks(r, "1.2", Nth(DataKey("1.2", "client"), q - 3))
(* The server, when it has taken k of them.                                *)
Expects(version, k) ==
  \/ /\ server.phase = "hello" /\ version = "1.3" /\ k < 2
     /\ server.transcript = T13(4) /\ server.dec = Handshake13("client")
  \/ /\ server.phase = "hello" /\ version = "1.2" /\ k = 0
     /\ server.transcript = T12(4) /\ server.dec = NoKey
  \/ /\ server.phase = "hello" /\ version = "1.2" /\ k \in {1, 2}
     /\ server.transcript = KeyExchanged /\ server.dec = Key12("client")
  \/ /\ server.phase \in {"open", "replying"} /\ k > (IF version = "1.3" THEN 1 ELSE 2)
     /\ server.dec = Nth(DataKey(version, "client"), k - 2)
(* What is on its way to the server fits the server.                       *)
Outbound(version) ==
  server.phase # "closed" =>
    \E k \in Nat :
      /\ k + Len(outgoing) = Sent /\ Expects(version, k)
      /\ \A x \in 1..Len(outgoing) : IsSent(version, k + x, outgoing[x])

Going(version) == server.phase # "start" /\ Inbound(version) /\ Outbound(version)
(* Sequences, numbers, and a server that has refused nothing.              *)
Shapes ==
  /\ IsSequence(wire) /\ IsSequence(outgoing) /\ ServerShape
  /\ server.sent \in Nat /\ server.error = "none" /\ server.version \in {"none", "1.3", "1.2"}
(* What read() has returned and what it holds back are the bytes of the    *)
(* reply, in order and each once, and the end is the end.                  *)
Reads ==
  /\ Len(returned) \in Nat /\ Len(plaintext) \in Nat
  /\ returned = Bytes(0, Len(returned)) /\ plaintext = Bytes(Len(returned), Got)
  /\ eof => Len(returned) = server.sent /\ server.phase = "closed"
(* The inductive invariant.                                                *)
TlsInv ==
  /\ Shapes /\ Reads
  /\ \/ Beginning \/ Failed
     \/ server.version \in {"1.3", "1.2"} /\ Going(server.version)

(* Sequences: their shape, their equality, and what Tail, \o, Append and   *)
(* SubSeq make of them.                                                    *)
LEMMA SequenceIn == ASSUME NEW S, NEW s \in Seq(S) PROVE IsSequence(s)
  BY DEF ToSet, IsSequence

LEMMA Shape ==
  ASSUME NEW s, IsSequence(s)
  PROVE  Len(s) \in Nat /\ DOMAIN s = 1..Len(s) /\ (s = <<>> <=> Len(s) = 0)
  BY DEF IsSequence

LEMMA SameSequence ==
  ASSUME NEW s, NEW t, IsSequence(s), IsSequence(t), Len(s) = Len(t),
         \A i \in 1..Len(s) : s[i] = t[i]
  PROVE  s = t
  BY SeqEqual DEF IsSequence

LEMMA TailOf ==
  ASSUME NEW s, IsSequence(s), s # <<>>
  PROVE  /\ IsSequence(Tail(s)) /\ Len(Tail(s)) = Len(s) - 1 /\ Len(s) \in Nat \ {0}
         /\ \A i \in 1..(Len(s) - 1) : Tail(s)[i] = s[i + 1]
  <1>1. Tail(s) \in Seq(ToSet(s)) /\ Len(Tail(s)) = Len(s) - 1 /\ Len(s) \in Nat \ {0}
    BY DEF IsSequence
  <1>2. \A i \in 1..(Len(s) - 1) : Tail(s)[i] = s[i + 1] BY <1>1, TailAt DEF IsSequence
  <1>3. QED BY <1>1, <1>2, SequenceIn

LEMMA ConcatOf ==
  ASSUME NEW s, NEW t, IsSequence(s), IsSequence(t)
  PROVE  /\ IsSequence(s \o t) /\ Len(s \o t) = Len(s) + Len(t)
         /\ \A i \in 1..Len(s) : (s \o t)[i] = s[i]
         /\ \A i \in 1..Len(t) : (s \o t)[Len(s) + i] = t[i]
  <1> DEFINE S == ToSet(s) \cup ToSet(t)
  <1>1. s \in Seq(S) /\ t \in Seq(S) BY DEF IsSequence
  <1> HIDE DEF S
  <1>2. s \o t \in Seq(S) /\ Len(s \o t) = Len(s) + Len(t) BY <1>1
  <1>3. \A i \in 1..Len(s) : (s \o t)[i] = s[i] BY <1>1
  <1>4. \A i \in 1..Len(t) : (s \o t)[Len(s) + i] = t[i] BY <1>1
  <1>5. QED BY <1>2, <1>3, <1>4, SequenceIn

LEMMA AppendOf ==
  ASSUME NEW s, NEW e, IsSequence(s)
  PROVE  /\ IsSequence(Append(s, e)) /\ Len(Append(s, e)) = Len(s) + 1
         /\ \A i \in 1..Len(s) : Append(s, e)[i] = s[i]
         /\ Append(s, e)[Len(s) + 1] = e
  <1> DEFINE S == ToSet(s) \cup {e}
  <1>1. s \in Seq(S) /\ e \in S BY DEF IsSequence
  <1> HIDE DEF S
  <1>2. Append(s, e) \in Seq(S) /\ Len(Append(s, e)) = Len(s) + 1 BY <1>1
  <1>3. \A i \in 1..Len(s) : Append(s, e)[i] = s[i] BY <1>1
  <1>4. Append(s, e)[Len(s) + 1] = e BY <1>1
  <1>5. QED BY <1>2, <1>3, <1>4, SequenceIn

LEMMA CutOf ==
  ASSUME NEW s, IsSequence(s), NEW a \in Nat, NEW c \in Nat, a <= c, c <= Len(s)
  PROVE  /\ IsSequence(SubSeq(s, a + 1, c)) /\ Len(SubSeq(s, a + 1, c)) = c - a
         /\ \A i \in 1..(c - a) : SubSeq(s, a + 1, c)[i] = s[a + i]
  <1>1. \A i \in (a + 1)..c : s[i] \in ToSet(s) BY DEF IsSequence, ToSet
  <1>2. SubSeq(s, a + 1, c) \in Seq(ToSet(s)) BY <1>1
  <1>3. Len(SubSeq(s, a + 1, c)) = c - a BY <1>1
  <1>4. \A i \in 1..(c - a) : SubSeq(s, a + 1, c)[i] = s[a + i] BY <1>1
  <1>5. QED BY <1>2, <1>3, <1>4, SequenceIn

(* The tuples the modules write.                                           *)
LEMMA Tuples ==
  /\ IsSequence(<<>>) /\ Len(<<>>) = 0
  /\ \A a : IsSequence(<<a>>) /\ Len(<<a>>) = 1 /\ <<a>>[1] = a
  /\ \A a, b : IsSequence(<<a, b>>) /\ Len(<<a, b>>) = 2 /\ <<a, b>>[1] = a /\ <<a, b>>[2] = b
  /\ \A a, b, c : /\ IsSequence(<<a, b, c>>) /\ Len(<<a, b, c>>) = 3
                  /\ <<a, b, c>>[1] = a /\ <<a, b, c>>[2] = b /\ <<a, b, c>>[3] = c
  /\ \A a, b, c, d : /\ IsSequence(<<a, b, c, d>>) /\ Len(<<a, b, c, d>>) = 4
                     /\ <<a, b, c, d>>[1] = a /\ <<a, b, c, d>>[2] = b
                     /\ <<a, b, c, d>>[3] = c /\ <<a, b, c, d>>[4] = d
  <1>1. \A a : <<a>> \in Seq({a}) OBVIOUS
  <1>2. \A a, b : <<a, b>> \in Seq({a, b}) OBVIOUS
  <1>3. \A a, b, c : <<a, b, c>> \in Seq({a, b, c}) OBVIOUS
  <1>4. \A a, b, c, d : <<a, b, c, d>> \in Seq({a, b, c, d}) OBVIOUS
  <1>5. <<>> \in Seq({}) OBVIOUS
  <1>6. QED BY <1>1, <1>2, <1>3, <1>4, <1>5, SequenceIn

(* The bytes of the reply from one place to another, put together and cut. *)
LEMMA BytesShape ==
  ASSUME NEW a \in Nat, NEW c \in Nat, a <= c
  PROVE  /\ IsSequence(Bytes(a, c)) /\ Len(Bytes(a, c)) = c - a
         /\ \A i \in 1..(c - a) : Bytes(a, c)[i] = a + i
  <1>1. c - a \in Nat OBVIOUS
  <1>2. Bytes(a, c) \in Seq(Nat) BY <1>1 DEF Bytes
  <1>3. Len(Bytes(a, c)) = c - a BY <1>1, <1>2 DEF Bytes
  <1>4. QED BY <1>2, <1>3, SequenceIn DEF Bytes

LEMMA BytesJoin ==
  ASSUME NEW a \in Nat, NEW b \in Nat, NEW c \in Nat, a <= b, b <= c
  PROVE  Bytes(a, b) \o Bytes(b, c) = Bytes(a, c)
  <1> DEFINE t == Bytes(a, b) \o Bytes(b, c)
  <1>1. /\ IsSequence(t) /\ Len(t) = (b - a) + (c - b)
        /\ \A i \in 1..(b - a) : t[i] = a + i
        /\ \A i \in 1..(c - b) : t[(b - a) + i] = b + i
    <2>1. /\ IsSequence(Bytes(a, b)) /\ Len(Bytes(a, b)) = b - a
          /\ \A i \in 1..(b - a) : Bytes(a, b)[i] = a + i
      BY BytesShape
    <2>2. /\ IsSequence(Bytes(b, c)) /\ Len(Bytes(b, c)) = c - b
          /\ \A i \in 1..(c - b) : Bytes(b, c)[i] = b + i
      BY BytesShape
    <2>3. QED BY <2>1, <2>2, ConcatOf
  <1>2. a <= c /\ Len(t) = c - a BY <1>1
  <1>3. ASSUME NEW i \in 1..(c - a) PROVE t[i] = a + i
    <2> HIDE DEF t
    <2>1. CASE i <= b - a BY <2>1, <1>1
    <2>2. CASE i > b - a
      <3>1. i - (b - a) \in 1..(c - b) BY <2>2
      <3>2. t[(b - a) + (i - (b - a))] = b + (i - (b - a)) BY <3>1, <1>1
      <3>3. QED BY <3>2
    <2>3. QED BY <2>1, <2>2
  <1> HIDE DEF t
  <1>4. /\ IsSequence(Bytes(a, c)) /\ Len(Bytes(a, c)) = c - a
        /\ \A i \in 1..(c - a) : Bytes(a, c)[i] = a + i
    BY <1>2, BytesShape
  <1>5. t = Bytes(a, c) BY <1>1, <1>2, <1>3, <1>4, SameSequence
  <1>6. QED BY <1>5 DEF t

LEMMA BytesCut ==
  ASSUME NEW a \in Nat, NEW c \in Nat, NEW n \in Nat, a + n <= c
  PROVE  /\ SubSeq(Bytes(a, c), 1, n) = Bytes(a, a + n)
         /\ SubSeq(Bytes(a, c), n + 1, Len(Bytes(a, c))) = Bytes(a + n, c)
  <1>1. /\ IsSequence(Bytes(a, c)) /\ Len(Bytes(a, c)) = c - a
        /\ \A i \in 1..(c - a) : Bytes(a, c)[i] = a + i
    BY BytesShape
  <1>2. SubSeq(Bytes(a, c), 1, n) = Bytes(a, a + n)
    <2> DEFINE s == Bytes(a, c)
    <2> DEFINE t == SubSeq(s, 0 + 1, n)
    <2>0. IsSequence(s) /\ 0 <= n /\ n <= Len(s) /\ 0 \in Nat BY <1>1
    <2>1. IsSequence(t) /\ Len(t) = n - 0 /\ \A i \in 1..(n - 0) : t[i] = s[0 + i]
      <3> HIDE DEF s
      <3>1. QED BY <2>0, CutOf
    <2>2. /\ IsSequence(Bytes(a, a + n)) /\ Len(Bytes(a, a + n)) = n
          /\ \A i \in 1..n : Bytes(a, a + n)[i] = a + i
      <3> DEFINE d == a + n
      <3>1. d \in Nat /\ a <= d /\ d - a = n OBVIOUS
      <3> HIDE DEF d
      <3>2. QED BY <3>1, BytesShape DEF d
    <2>3. \A i \in 1..n : t[i] = a + i BY <2>1, <1>1
    <2> HIDE DEF t
    <2>4. t = Bytes(a, a + n) BY <2>1, <2>2, <2>3, SameSequence
    <2>5. QED BY <2>4 DEF t
  <1>3. SubSeq(Bytes(a, c), n + 1, Len(Bytes(a, c))) = Bytes(a + n, c)
    <2> DEFINE t == SubSeq(Bytes(a, c), n + 1, c - a)
    <2>1. /\ IsSequence(t) /\ Len(t) = (c - a) - n
          /\ \A i \in 1..((c - a) - n) : t[i] = Bytes(a, c)[n + i]
      BY <1>1, CutOf
    <2>2. /\ IsSequence(Bytes(a + n, c)) /\ Len(Bytes(a + n, c)) = c - (a + n)
          /\ \A i \in 1..(c - (a + n)) : Bytes(a + n, c)[i] = a + n + i
      <3> DEFINE d == a + n
      <3>1. d \in Nat /\ d <= c OBVIOUS
      <3> HIDE DEF d
      <3>2. QED BY <3>1, BytesShape DEF d
    <2>3. \A i \in 1..((c - a) - n) : t[i] = a + n + i BY <2>1, <1>1
    <2> HIDE DEF t
    <2>4. t = Bytes(a + n, c) BY <2>1, <2>2, <2>3, SameSequence
    <2>5. QED BY <2>4, <1>1 DEF t
  <1>4. QED BY <1>2, <1>3

(* A prefix of t behind s grows by the next element of t.                  *)
LEMMA PrefixGrows ==
  ASSUME NEW s, NEW t, IsSequence(s), IsSequence(t)
  PROVE  /\ s \o SubSeq(t, 1, 0) = s
         /\ s \o SubSeq(t, 1, Len(t)) = s \o t
         /\ \A e \in 0..(Len(t) - 1) :
              /\ s \o SubSeq(t, 1, e + 1) = Append(s \o SubSeq(t, 1, e), t[e + 1])
              /\ IsSequence(s \o SubSeq(t, 1, e))
  <1>1. Len(s) \in Nat /\ Len(t) \in Nat BY Shape
  <1>2. ASSUME NEW e \in 0..Len(t)
        PROVE  /\ IsSequence(SubSeq(t, 1, e)) /\ Len(SubSeq(t, 1, e)) = e
               /\ \A i \in 1..e : SubSeq(t, 1, e)[i] = t[i]
    <2>1. e \in Nat /\ 0 \in Nat /\ 0 <= e /\ e <= Len(t) BY <1>1
    <2>2. /\ IsSequence(SubSeq(t, 0 + 1, e)) /\ Len(SubSeq(t, 0 + 1, e)) = e - 0
          /\ \A i \in 1..(e - 0) : SubSeq(t, 0 + 1, e)[i] = t[0 + i]
      BY <2>1, CutOf
    <2>3. 0 + 1 = 1 /\ e - 0 = e /\ \A i \in 1..e : 0 + i = i BY <2>1
    <2>4. QED BY <2>2, <2>3
  <1>3. s \o SubSeq(t, 1, 0) = s
    <2> DEFINE u == SubSeq(t, 1, 0)
    <2>1. IsSequence(u) /\ Len(u) = 0 BY <1>1, <1>2
    <2> HIDE DEF u
    <2>2. /\ IsSequence(s \o u) /\ Len(s \o u) = Len(s)
          /\ \A i \in 1..Len(s) : (s \o u)[i] = s[i]
      BY <2>1, <1>1, ConcatOf
    <2>3. s \o u = s BY <2>2, SameSequence
    <2>4. QED BY <2>3 DEF u
  <1>4. SubSeq(t, 1, Len(t)) = t
    <2> DEFINE u == SubSeq(t, 1, Len(t))
    <2>1. IsSequence(u) /\ Len(u) = Len(t) /\ \A i \in 1..Len(t) : u[i] = t[i] BY <1>1, <1>2
    <2> HIDE DEF u
    <2>2. u = t BY <2>1, SameSequence
    <2>3. QED BY <2>2 DEF u
  <1>5. ASSUME NEW e \in 0..(Len(t) - 1)
        PROVE  /\ s \o SubSeq(t, 1, e + 1) = Append(s \o SubSeq(t, 1, e), t[e + 1])
               /\ IsSequence(s \o SubSeq(t, 1, e))
    <2> DEFINE u == SubSeq(t, 1, e)
               v == SubSeq(t, 1, e + 1)
    <2>1. IsSequence(u) /\ Len(u) = e /\ \A i \in 1..e : u[i] = t[i] BY <1>1, <1>2
    <2>2. IsSequence(v) /\ Len(v) = e + 1 /\ \A i \in 1..(e + 1) : v[i] = t[i]
      <3>1. e + 1 \in 0..Len(t) BY <1>1
      <3>2. QED BY <3>1, <1>2
    <2> HIDE DEF u, v
    <2>3. /\ IsSequence(s \o u) /\ Len(s \o u) = Len(s) + e
          /\ \A i \in 1..Len(s) : (s \o u)[i] = s[i]
          /\ \A i \in 1..e : (s \o u)[Len(s) + i] = t[i]
      BY <2>1, ConcatOf
    <2>4. /\ IsSequence(s \o v) /\ Len(s \o v) = Len(s) + (e + 1)
          /\ \A i \in 1..Len(s) : (s \o v)[i] = s[i]
          /\ \A i \in 1..(e + 1) : (s \o v)[Len(s) + i] = t[i]
      BY <2>2, ConcatOf
    <2> DEFINE a == Append(s \o u, t[e + 1])
    <2>5. /\ IsSequence(a) /\ Len(a) = Len(s) + e + 1
          /\ \A i \in 1..(Len(s) + e) : a[i] = (s \o u)[i]
          /\ a[Len(s) + e + 1] = t[e + 1]
      BY <2>3, AppendOf
    <2> DEFINE b == s \o v
               d == s \o u
               n == Len(s)
    <2> HIDE DEF a
    <2>a. /\ n \in Nat /\ e \in Nat /\ IsSequence(b) /\ Len(b) = n + e + 1
          /\ IsSequence(a) /\ Len(a) = n + e + 1
          /\ \A i \in 1..n : b[i] = s[i] /\ d[i] = s[i]
          /\ \A i \in 1..(e + 1) : b[n + i] = t[i]
          /\ \A i \in 1..e : d[n + i] = t[i]
          /\ \A i \in 1..(n + e) : a[i] = d[i]
          /\ a[n + e + 1] = t[e + 1]
      BY <1>1, <2>3, <2>4, <2>5
    <2> HIDE DEF b, d, n
    <2>6. ASSUME NEW i \in 1..(n + e + 1) PROVE b[i] = a[i]
      <3>1. CASE i <= n BY <3>1, <2>a
      <3>2. CASE i > n /\ i <= n + e
        <4>1. i - n \in 1..e /\ i - n \in 1..(e + 1) /\ i = n + (i - n) BY <3>2, <2>a
        <4>2. d[n + (i - n)] = t[i - n] /\ b[n + (i - n)] = t[i - n] BY <4>1, <2>a
        <4>3. a[i] = d[i]
          <5>1. i \in 1..(n + e) BY <3>2, <2>a
          <5>2. QED BY <5>1, <2>a, Zenon
        <4>4. QED BY <4>1, <4>2, <4>3
      <3>3. CASE i = n + e + 1
        <4>1. e + 1 \in 1..(e + 1) /\ i = n + (e + 1) BY <3>3, <2>a
        <4>2. b[n + (e + 1)] = t[e + 1] BY <4>1, <2>a
        <4>3. QED BY <4>1, <4>2, <2>a, <3>3
      <3>4. QED BY <3>1, <3>2, <3>3, <2>a
    <2>7. b = a BY <2>a, <2>6, SameSequence
    <2>8. QED BY <2>7, <2>3 DEF u, v, a, b, d
  <1>6. QED BY <1>3, <1>4, <1>5

(* The transcripts grow by the message that is hashed.                     *)
LEMMA Transcript13 ==
  /\ T13(0) = Hello13 /\ T13(4) = Hello13 \o Flight13
  /\ \A e \in 0..3 : T13(e + 1) = Append(T13(e), Flight13[e + 1])
  /\ \A e \in 0..4 : IsSequence(T13(e))
  <1>1. IsSequence(Hello13) BY Tuples DEF Hello13
  <1>2. IsSequence(Flight13) /\ Len(Flight13) = 4 BY Tuples DEF Flight13
  <1> DEFINE s == Hello13
             t == Flight13
  <1> HIDE DEF s, t
  <1>3. /\ IsSequence(s) /\ IsSequence(t) /\ Len(t) = 4 BY <1>1, <1>2 DEF s, t
  <1>4. /\ s \o SubSeq(t, 1, 0) = s /\ s \o SubSeq(t, 1, 4) = s \o t
        /\ \A e \in 0..3 : /\ s \o SubSeq(t, 1, e + 1) = Append(s \o SubSeq(t, 1, e), t[e + 1])
                           /\ IsSequence(s \o SubSeq(t, 1, e))
    <2> DEFINE n == Len(t)
    <2>1. /\ s \o SubSeq(t, 1, 0) = s /\ s \o SubSeq(t, 1, n) = s \o t
          /\ \A e \in 0..(n - 1) : /\ s \o SubSeq(t, 1, e + 1) = Append(s \o SubSeq(t, 1, e), t[e + 1])
                                   /\ IsSequence(s \o SubSeq(t, 1, e))
      BY <1>3, PrefixGrows, Zenon
    <2>2. n = 4 BY <1>3
    <2> HIDE DEF n
    <2>3. 4 - 1 = 3 OBVIOUS
    <2>4. QED BY <2>1, <2>2, <2>3, Zenon
  <1>5. IsSequence(s \o t) BY <1>3, ConcatOf
  <1>6. \A e \in 0..4 : IsSequence(s \o SubSeq(t, 1, e))
    <2>1. \A e \in 0..4 : e \in 0..3 \/ e = 4 OBVIOUS
    <2>2. QED BY <2>1, <1>4, <1>5, Zenon
  <1>7. QED BY <1>4, <1>6, Zenon DEF s, t, T13

LEMMA Transcript12 ==
  /\ T12(0) = <<"ClientHello">> /\ T12(4) = <<"ClientHello">> \o Flight12
  /\ \A e \in 0..3 : T12(e + 1) = Append(T12(e), Flight12[e + 1])
  /\ \A e \in 0..4 : IsSequence(T12(e))
  <1>1. IsSequence(<<"ClientHello">>) BY Tuples
  <1>2. IsSequence(Flight12) /\ Len(Flight12) = 4 BY Tuples DEF Flight12
  <1> DEFINE s == <<"ClientHello">>
             t == Flight12
  <1> HIDE DEF s, t
  <1>3. /\ IsSequence(s) /\ IsSequence(t) /\ Len(t) = 4 BY <1>1, <1>2 DEF s, t
  <1>4. /\ s \o SubSeq(t, 1, 0) = s /\ s \o SubSeq(t, 1, 4) = s \o t
        /\ \A e \in 0..3 : /\ s \o SubSeq(t, 1, e + 1) = Append(s \o SubSeq(t, 1, e), t[e + 1])
                           /\ IsSequence(s \o SubSeq(t, 1, e))
    <2> DEFINE n == Len(t)
    <2>1. /\ s \o SubSeq(t, 1, 0) = s /\ s \o SubSeq(t, 1, n) = s \o t
          /\ \A e \in 0..(n - 1) : /\ s \o SubSeq(t, 1, e + 1) = Append(s \o SubSeq(t, 1, e), t[e + 1])
                                   /\ IsSequence(s \o SubSeq(t, 1, e))
      BY <1>3, PrefixGrows, Zenon
    <2>2. n = 4 BY <1>3
    <2> HIDE DEF n
    <2>3. 4 - 1 = 3 OBVIOUS
    <2>4. QED BY <2>1, <2>2, <2>3, Zenon
  <1>5. IsSequence(s \o t) BY <1>3, ConcatOf
  <1>6. \A e \in 0..4 : IsSequence(s \o SubSeq(t, 1, e))
    <2>1. \A e \in 0..4 : e \in 0..3 \/ e = 4 OBVIOUS
    <2>2. QED BY <2>1, <1>4, <1>5, Zenon
  <1>7. QED BY <1>4, <1>6, Zenon DEF s, t, T12

(* What the two ends hash into their last messages of TLS 1.2.             *)
LEMMA KeyExchange12 ==
  /\ T12(3) \o <<"ServerHelloDone">> \o ClientFlight = Final("1.2")
  /\ SubSeq(Final("1.2"), 1, Len(Final("1.2")) - 1) = KeyExchanged
  /\ Append(KeyExchanged, "ClientFinished") = Final("1.2")
  <1>1. IsSequence(T12(3)) /\ IsSequence(T12(4)) /\ T12(4) = Append(T12(3), "ServerHelloDone")
    <2>1. T12(3 + 1) = Append(T12(3), Flight12[3 + 1]) /\ IsSequence(T12(3)) /\ IsSequence(T12(4))
      BY Transcript12
    <2>2. QED BY <2>1 DEF Flight12
  <1> DEFINE t == T12(4)
             n == Len(t)
  <1>2. T12(3) \o <<"ServerHelloDone">> = t
    <2> DEFINE u == T12(3)
               v == <<"ServerHelloDone">>
    <2>1. IsSequence(v) /\ Len(v) = 1 /\ v[1] = "ServerHelloDone" BY Tuples
    <2>2. IsSequence(u) /\ t = Append(u, "ServerHelloDone") BY <1>1
    <2> HIDE DEF t, u, v
    <2>3. Len(u) \in Nat BY <2>2, Shape
    <2> DEFINE w == u \o v
               m == Len(u)
    <2>a. /\ IsSequence(w) /\ Len(w) = m + Len(v) /\ m \in Nat
          /\ \A i \in 1..m : w[i] = u[i]
          /\ \A i \in 1..Len(v) : w[m + i] = v[i]
      <3>1. IsSequence(v) BY Tuples DEF v
      <3>2. QED BY <3>1, <2>2, <2>3, ConcatOf
    <2>b. IsSequence(v) /\ Len(v) = 1 /\ v[1] = "ServerHelloDone" BY Tuples DEF v
    <2> HIDE DEF w, m
    <2>4. /\ IsSequence(w) /\ Len(w) = m + 1
          /\ \A i \in 1..m : w[i] = u[i]
          /\ w[m + 1] = "ServerHelloDone"
      BY <2>a, <2>b
    <2>5. /\ IsSequence(t) /\ Len(t) = m + 1
          /\ \A i \in 1..m : t[i] = u[i]
          /\ t[m + 1] = "ServerHelloDone"
      BY <2>2, AppendOf DEF m
    <2>6. w = t
      <3>1. ASSUME NEW i \in 1..(m + 1) PROVE w[i] = t[i]
        BY <2>a, <2>4, <2>5
      <3>2. QED BY <3>1, <2>4, <2>5, SameSequence
    <2>7. QED BY <2>6 DEF t, u, v, w
  <1>3. /\ IsSequence(t) /\ n \in Nat BY <1>1, Shape
  <1> HIDE DEF t, n
  <1>4. n = Len(t) BY DEF n
  <1>5. /\ IsSequence(t \o ClientFlight) /\ Len(t \o ClientFlight) = n + 2
        /\ \A i \in 1..n : (t \o ClientFlight)[i] = t[i]
        /\ (t \o ClientFlight)[n + 1] = "ClientKeyExchange"
        /\ (t \o ClientFlight)[n + 2] = "ClientFinished"
    <2>1. /\ IsSequence(ClientFlight) /\ Len(ClientFlight) = 2
          /\ ClientFlight[1] = "ClientKeyExchange" /\ ClientFlight[2] = "ClientFinished"
      BY Tuples DEF ClientFlight
    <2> DEFINE f == ClientFlight
    <2> HIDE DEF f
    <2>2. /\ IsSequence(t \o f) /\ Len(t \o f) = n + Len(f)
          /\ \A i \in 1..n : (t \o f)[i] = t[i]
          /\ \A i \in 1..Len(f) : (t \o f)[n + i] = f[i]
      <3>1. IsSequence(f) BY <2>1 DEF f
      <3>2. QED BY <3>1, <1>3, <1>4, ConcatOf
    <2>3. Len(f) = 2 /\ f[1] = "ClientKeyExchange" /\ f[2] = "ClientFinished" BY <2>1 DEF f
    <2> DEFINE w == t \o f
    <2> HIDE DEF w
    <2>4. /\ IsSequence(w) /\ Len(w) = n + 2
          /\ \A i \in 1..n : w[i] = t[i]
          /\ \A i \in 1..2 : w[n + i] = f[i]
      BY <2>2, <2>3 DEF w
    <2>5. w[n + 1] = f[1] /\ w[n + 2] = f[2] BY <2>4
    <2>6. QED BY <2>3, <2>4, <2>5 DEF w, f
  <1> DEFINE k == Append(t, "ClientKeyExchange")
             c == Append(k, "ClientFinished")
             f == t \o ClientFlight
  <1>6. /\ IsSequence(k) /\ Len(k) = n + 1 /\ \A i \in 1..n : k[i] = t[i]
        /\ k[n + 1] = "ClientKeyExchange"
    BY <1>3, <1>4, AppendOf
  <1> HIDE DEF k
  <1>7. /\ IsSequence(c) /\ Len(c) = n + 2 /\ \A i \in 1..(n + 1) : c[i] = k[i]
        /\ c[n + 2] = "ClientFinished"
    <2>1. Len(k) \in Nat /\ Len(k) + 1 = n + 2 BY <1>6, <1>3
    <2>2. /\ IsSequence(c) /\ Len(c) = Len(k) + 1 /\ \A i \in 1..Len(k) : c[i] = k[i]
          /\ c[Len(k) + 1] = "ClientFinished"
      BY <1>6, AppendOf
    <2> HIDE DEF c
    <2>3. QED BY <2>1, <2>2, <1>6
  <1>8. c = f
    <2> HIDE DEF c, f
    <2>1. /\ IsSequence(f) /\ Len(f) = n + 2 /\ \A i \in 1..n : f[i] = t[i]
          /\ f[n + 1] = "ClientKeyExchange" /\ f[n + 2] = "ClientFinished"
      BY <1>5 DEF f
    <2>2. ASSUME NEW i \in 1..(n + 2) PROVE c[i] = f[i]
      <3>1. i \in 1..n \/ i = n + 1 \/ i = n + 2 BY <1>3
      <3>2. CASE i \in 1..n
        <4>1. i \in 1..(n + 1) BY <3>2, <1>3
        <4>2. QED BY <3>2, <4>1, <2>1, <1>6, <1>7, Zenon
      <3>3. CASE i = n + 1
        <4>1. c[n + 1] = k[n + 1]
          <5>1. n + 1 \in 1..(n + 1) BY <1>3
          <5>2. QED BY <5>1, <1>7, Zenon
        <4>2. QED BY <4>1, <3>3, <2>1, <1>6
      <3>4. CASE i = n + 2 BY <3>4, <2>1, <1>7
      <3>5. QED BY <3>1, <3>2, <3>3, <3>4
    <2>3. QED BY <2>1, <2>2, <1>7, SameSequence
  <1>9. SubSeq(f, 1, Len(f) - 1) = k
    <2>1. IsSequence(f) /\ Len(f) = n + 2 /\ \A i \in 1..(n + 1) : f[i] = k[i]
      BY <1>7, <1>8
    <2> HIDE DEF f
    <2>2. /\ IsSequence(SubSeq(f, 0 + 1, n + 1)) /\ Len(SubSeq(f, 0 + 1, n + 1)) = (n + 1) - 0
          /\ \A i \in 1..((n + 1) - 0) : SubSeq(f, 0 + 1, n + 1)[i] = f[0 + i]
      <3>1. n + 1 \in Nat /\ 0 \in Nat /\ 0 <= n + 1 /\ n + 1 <= Len(f) BY <2>1, <1>3
      <3>2. QED BY <3>1, <2>1, CutOf
    <2>3. 0 + 1 = 1 /\ (n + 1) - 0 = n + 1 /\ Len(f) - 1 = n + 1 /\ \A i \in 1..(n + 1) : 0 + i = i
      BY <2>1, <1>3
    <2> DEFINE g == SubSeq(f, 1, n + 1)
    <2>4. IsSequence(g) /\ Len(g) = n + 1 /\ \A i \in 1..(n + 1) : g[i] = k[i]
      BY <2>1, <2>2, <2>3
    <2> HIDE DEF g
    <2>5. g = k BY <2>4, <1>6, SameSequence
    <2>6. QED BY <2>5, <2>3 DEF g
  <1>10. Final("1.2") = f /\ KeyExchanged = k BY DEF Final, KeyExchanged, t, k, f
  <1>11. QED BY <1>2, <1>8, <1>9, <1>10 DEF t, c, f

(* A key that is used is the one with the next number.                     *)
LEMMA KeysAre ==
  ASSUME NEW version \in {"1.3", "1.2"}, NEW w \in {"client", "server"}, NEW n \in Nat
  PROVE  LET key == Nth(DataKey(version, w), n)
         IN /\ Used(key) = Nth(DataKey(version, w), n + 1)
            /\ key.seq = n /\ key.stage \in {"data", "1.2"} /\ key # NoKey
            /\ key.writer = w
            /\ version = "1.2" => key.stage = "1.2"
  BY DEF Nth, DataKey, Key12, Key, Used, NoKey

(* No record has been encrypted with a key that is new, and none of the    *)
(* keys is the lack of one.                                                *)
LEMMA FirstKeys ==
  /\ \A version \in {"1.3", "1.2"}, w \in {"client", "server"} :
       Nth(DataKey(version, w), 0) = DataKey(version, w)
  /\ \A w \in {"client", "server"} : Nth(Handshake13(w), 0) = Handshake13(w)
  /\ \A n \in Nat : /\ Used(Nth(Handshake13("server"), n)) = Nth(Handshake13("server"), n + 1)
                    /\ Nth(Handshake13("server"), n) # NoKey
  /\ Handshake13("client").stage = "handshake" /\ Handshake13("client") # NoKey
  /\ \A w : DataKey("1.2", w) = Key12(w) /\ Key12(w) # NoKey
  /\ NoKey.stage = "none"
  <1>1. \A w, stage, t : Nth(Key(w, stage, t), 0) = Key(w, stage, t) BY DEF Nth, Key
  <1>2. \A w, stage, t : \A n \in Nat : Used(Nth(Key(w, stage, t), n)) = Nth(Key(w, stage, t), n + 1)
    BY DEF Nth, Key, Used
  <1>3. \A w, stage, t, n : Nth(Key(w, stage, t), n).stage = stage BY DEF Nth, Key
  <1>4. NoKey.stage = "none" BY DEF NoKey
  <1>5. \A w, stage, t : Key(w, stage, t).stage = stage BY DEF Key
  <1>6. \A version \in {"1.3", "1.2"}, w \in {"client", "server"} :
          Nth(DataKey(version, w), 0) = DataKey(version, w)
    BY <1>1 DEF DataKey, Key12
  <1>7. \A w : Nth(Handshake13(w), 0) = Handshake13(w) BY <1>1 DEF Handshake13
  <1>8. \A n \in Nat : /\ Used(Nth(Handshake13("server"), n)) = Nth(Handshake13("server"), n + 1)
                      /\ Nth(Handshake13("server"), n).stage = "handshake"
    BY <1>2, <1>3 DEF Handshake13
  <1>9. Handshake13("client").stage = "handshake" BY <1>5 DEF Handshake13
  <1>10. \A w : DataKey("1.2", w) = Key12(w) /\ Key12(w).stage = "1.2" BY <1>5 DEF DataKey, Key12
  <1>11. QED BY <1>4, <1>6, <1>7, <1>8, <1>9, <1>10

LEMMA ClientIs ==
  ASSUME NEW state, NEW version, NEW t, NEW enc, NEW dec
  PROVE  LET c == State(state, version, t, enc, dec)
         IN /\ c.state = state /\ c.version = version /\ c.transcript = t
            /\ c.enc = enc /\ c.dec = dec /\ c.error = "none"
            /\ \A d : [c EXCEPT !.dec = d] = State(state, version, t, enc, d)
            /\ \A u : [c EXCEPT !.state = u] = State(u, version, t, enc, dec)
            /\ \A m, u : Learn(c, m, u) = State(u, version, Append(t, m.kind), enc, dec)
  <1> DEFINE c == State(state, version, t, enc, dec)
  <1>1. /\ c.state = state /\ c.version = version /\ c.transcript = t
        /\ c.enc = enc /\ c.dec = dec /\ c.error = "none"
    BY DEF State
  <1>2. ASSUME NEW d PROVE [c EXCEPT !.dec = d] = State(state, version, t, enc, d) BY DEF State
  <1>3. ASSUME NEW u PROVE [c EXCEPT !.state = u] = State(u, version, t, enc, dec) BY DEF State
  <1>4. ASSUME NEW m, NEW u PROVE Learn(c, m, u) = State(u, version, Append(t, m.kind), enc, dec)
    <2> DEFINE v == Append(t, m.kind)
    <2>1. Learn(c, m, u) = [[c EXCEPT !.transcript = v] EXCEPT !.state = u] BY <1>1 DEF Learn
    <2> HIDE DEF v
    <2>2. [c EXCEPT !.transcript = v] = State(state, version, v, enc, dec) BY DEF State
    <2>3. [State(state, version, v, enc, dec) EXCEPT !.state = u] = State(u, version, v, enc, dec)
      BY DEF State
    <2>4. QED BY <2>1, <2>2, <2>3 DEF v
  <1>5. QED BY <1>1, <1>2, <1>3, <1>4

(***************************************************************************)
(* One message: what HandleMessages does with a record of one.             *)
(***************************************************************************)
LEMMA OneMessage ==
  ASSUME NEW c, NEW m, c.error = "none", c.state \notin {"Complete", "Open"}
  PROVE  HandleMessages(c, <<m>>) = HandleMessage(c, m)
  <1> DEFINE body == <<m>>
  <1>1. Len(body) = 1 /\ body[1] = m BY Tuples
  <1> HIDE DEF body
  <1>2. HandleNth(c, c, body, 1) = HandleMessage(c, m) BY <1>1 DEF HandleNth
  <1>3. \A d : HandleNth(c, d, body, 2) = d /\ HandleNth(c, d, body, 3) = d
               /\ HandleNth(c, d, body, 4) = d
    BY <1>1 DEF HandleNth
  <1>4. HandleMessages(c, body) = HandleMessage(c, m) BY <1>2, <1>3, Zenon DEF HandleMessages
  <1>5. QED BY <1>4 DEF body

LEMMA ReadsServerHello13 ==
  HandleRecord(Greeted, Plain("handshake", <<Msg("ServerHello13")>>)) = Reading13(0, 0)
  <1> DEFINE m == Msg("ServerHello13")
             r == Plain("handshake", <<m>>)
             c == Greeted
  <1>1. /\ c.state = "ServerHello" /\ c.version = "1.3" /\ c.dec = NoKey /\ c.error = "none"
        /\ c.transcript = <<"ClientHello">> /\ [c EXCEPT !.dec = NoKey] = c
    BY DEF Greeted, State
  <1>2. r.outer = "handshake" /\ r.key = NoKey /\ r.body = <<m>> BY DEF Plain, Record
  <1>3. ReadRecord(c, r) = [ok |-> TRUE, dec |-> NoKey, type |-> "handshake", body |-> <<m>>]
    <2> HIDE DEF c, r
    <2>1. QED BY <1>1, <1>2 DEF ReadRecord, ReadRecord13, PassedOn
  <1>4. m.kind = "ServerHello13" BY DEF Msg
  <1>5. HandleRecord(c, r) = HandleMessages(c, <<m>>)
    <2> HIDE DEF c, r, m
    <2>1. QED BY <1>1, <1>3 DEF HandleRecord
  <1>6. HandleMessages(c, <<m>>) = HandleMessage(c, m)
    <2> HIDE DEF c, m
    <2>1. QED BY <1>1, OneMessage
  <1>7. HandleMessage(c, m) = HandleServerHello(c, m)
    <2> HIDE DEF c, m
    <2>1. QED BY <1>1, <1>4 DEF HandleMessage, HandleMessage13
  <1>8. HandleServerHello(c, m) = Reading13(0, 0)
    <2>1. Append(<<"ClientHello">>, "ServerHello13") = T13(0)
      <3> DEFINE a == Append(<<"ClientHello">>, "ServerHello13")
                 b == <<"ClientHello", "ServerHello13">>
      <3>1. IsSequence(b) /\ Len(b) = 2 /\ b[1] = "ClientHello" /\ b[2] = "ServerHello13"
        BY Tuples
      <3>2. /\ IsSequence(a) /\ Len(a) = 2 /\ a[1] = "ClientHello" /\ a[2] = "ServerHello13"
        <4> DEFINE s == <<"ClientHello">>
        <4>1. IsSequence(s) /\ Len(s) = 1 /\ s[1] = "ClientHello" BY Tuples
        <4> HIDE DEF s
        <4>2. /\ IsSequence(Append(s, "ServerHello13"))
              /\ Len(Append(s, "ServerHello13")) = Len(s) + 1
              /\ \A i \in 1..Len(s) : Append(s, "ServerHello13")[i] = s[i]
              /\ Append(s, "ServerHello13")[Len(s) + 1] = "ServerHello13"
          BY <4>1, AppendOf
        <4>3. /\ IsSequence(a) /\ Len(a) = Len(s) + 1
              /\ \A i \in 1..Len(s) : a[i] = s[i] /\ a[Len(s) + 1] = "ServerHello13"
          BY <4>2, Zenon DEF s
        <4> HIDE DEF a
        <4>4. Len(s) = 1 /\ 1 \in 1..1 /\ 1 + 1 = 2 BY <4>1
        <4>5. QED BY <4>1, <4>3, <4>4
      <3> HIDE DEF a, b
      <3>3. \A i \in 1..2 : i = 1 \/ i = 2 OBVIOUS
      <3>4. a = b BY <3>1, <3>2, <3>3, SameSequence
      <3>5. QED BY <3>4, Transcript13 DEF a, b, Hello13
    <2>2. HandleServerHello(c, m) =
            [Learn(c, m, "EncryptedExtensions") EXCEPT
               !.dec = Key("server", "handshake", T13(0)), !.enc = Key("client", "handshake", T13(0))]
      <3> HIDE DEF c, m
      <3>1. QED BY <1>1, <1>4, <2>1 DEF HandleServerHello
    <2>3. Learn(c, m, "EncryptedExtensions") = State("EncryptedExtensions", "1.3", T13(0), NoKey, NoKey)
      <3>1. Learn(c, m, "EncryptedExtensions") =
              State("EncryptedExtensions", "1.3", Append(<<"ClientHello">>, m.kind), NoKey, NoKey)
        <4> DEFINE h == <<"ClientHello">>
        <4>1. c = State("ServerHello", "1.3", h, NoKey, NoKey) BY DEF Greeted
        <4> HIDE DEF h, c, m
        <4>2. QED BY <4>1, ClientIs DEF h
      <3>2. QED BY <3>1, <1>4, <2>1
    <2>4. HandleServerHello(c, m) =
            State("EncryptedExtensions", "1.3", T13(0), Handshake13("client"), Handshake13("server"))
      <3> HIDE DEF c, m
      <3> DEFINE a == Handshake13("client")
                 b == Handshake13("server")
                 d == State("EncryptedExtensions", "1.3", T13(0), NoKey, NoKey)
      <3>1. HandleServerHello(c, m) = [[d EXCEPT !.dec = b] EXCEPT !.enc = a]
        BY <2>2, <2>3, Transcript13 DEF Handshake13
      <3> HIDE DEF a, b
      <3>2. [d EXCEPT !.dec = b] = State("EncryptedExtensions", "1.3", T13(0), NoKey, b) BY DEF State
      <3>3. [State("EncryptedExtensions", "1.3", T13(0), NoKey, b) EXCEPT !.enc = a]
              = State("EncryptedExtensions", "1.3", T13(0), a, b)
        BY DEF State
      <3>4. QED BY <3>1, <3>2, <3>3 DEF a, b
    <2>5. Flight13[0 + 1] = "EncryptedExtensions" BY DEF Flight13
    <2>6. Reading13(0, 0) = State(Flight13[0 + 1], "1.3", T13(0), Handshake13("client"),
                                  Nth(Handshake13("server"), 0))
      BY DEF Reading13
    <2>7. Nth(Handshake13("server"), 0) = Handshake13("server") BY FirstKeys
    <2>8. QED BY <2>4, <2>5, <2>6, <2>7, Zenon
  <1>9. QED BY <1>5, <1>6, <1>7, <1>8

LEMMA ReadsChangeCipherSpec13 ==
  ASSUME NEW e \in 0..3, NEW j \in Nat
  PROVE  HandleRecord(Reading13(e, j), ChangeCipherSpec) = Reading13(e, j)
  <1> DEFINE c == Reading13(e, j)
             r == ChangeCipherSpec
  <1>1. c.version = "1.3" /\ [c EXCEPT !.dec = c.dec] = c BY DEF Reading13, State
  <1>2. r.outer = "ccs" BY DEF ChangeCipherSpec, Plain, Record
  <1>3. LET read == ReadRecord(c, r) IN read.ok /\ read.dec = c.dec /\ read.type = "ccs"
    <2> HIDE DEF c, r
    <2>1. QED BY <1>1, <1>2 DEF ReadRecord, ReadRecord13, PassedOn
  <1> HIDE DEF c, r
  <1>4. HandleRecord(c, r) = c BY <1>1, <1>3 DEF HandleRecord
  <1>5. QED BY <1>4 DEF c, r

(* The client that has read e messages of the flight, field by field.      *)
LEMMA Reading13Is ==
  ASSUME NEW e \in 0..4, NEW j \in Nat
  PROVE  LET c == Reading13(e, j)
         IN /\ c.state = (IF e = 4 THEN "Complete" ELSE Flight13[e + 1]) /\ c.version = "1.3"
            /\ c.transcript = T13(e) /\ c.error = "none"
            /\ c.enc = Handshake13("client") /\ c.dec = Nth(Handshake13("server"), j)
            /\ [c EXCEPT !.dec = Nth(Handshake13("server"), j + 1)] = Reading13(e, j + 1)
            /\ \A m, u : Learn(c, m, u) = State(u, "1.3", Append(T13(e), m.kind),
                                              Handshake13("client"), Nth(Handshake13("server"), j))
            /\ e < 4 => c.state \notin {"start", "Complete", "Open", "asked", "dropped", "ServerHello"}
  <1> DEFINE state == IF e = 4 THEN "Complete" ELSE Flight13[e + 1]
             t == T13(e)
             enc == Handshake13("client")
             dec == Nth(Handshake13("server"), j)
             next == Nth(Handshake13("server"), j + 1)
             c == State(state, "1.3", t, enc, dec)
  <1>1. c = Reading13(e, j) /\ State(state, "1.3", t, enc, next) = Reading13(e, j + 1)
    BY DEF Reading13
  <1>2. e < 4 => state \in {"EncryptedExtensions", "Certificate", "CertificateVerify", "Finished"}
    <2>1. e < 4 => e = 0 \/ e = 1 \/ e = 2 \/ e = 3 OBVIOUS
    <2>2. QED BY <2>1 DEF Flight13
  <1> HIDE DEF state, t, enc, dec, next
  <1>3. /\ c.state = state /\ c.version = "1.3" /\ c.transcript = t /\ c.error = "none"
        /\ c.enc = enc /\ c.dec = dec /\ [c EXCEPT !.dec = next] = State(state, "1.3", t, enc, next)
        /\ \A m, u : Learn(c, m, u) = State(u, "1.3", Append(t, m.kind), enc, dec)
    BY ClientIs
  <1>4. e < 4 => c.state \notin {"start", "Complete", "Open", "asked", "dropped", "ServerHello"}
    BY <1>2, <1>3
  <1> HIDE DEF c
  <1>5. QED BY <1>1, <1>3, <1>4 DEF state, t, enc, dec, next

(* It takes the next message of the flight.                                *)
LEMMA HandlesFlight13 ==
  ASSUME NEW e \in 0..3, NEW j \in Nat
  PROVE  HandleMessage(Reading13(e, j), Messages13[e + 1]) = Reading13(e + 1, j)
  <1> DEFINE c == Reading13(e, j)
             m == Messages13[e + 1]
             enc == Handshake13("client")
             dec == Nth(Handshake13("server"), j)
  <1>1. /\ c.state = Flight13[e + 1] /\ c.version = "1.3" /\ c.transcript = T13(e)
        /\ c.state # "ServerHello"
        /\ \A u : Learn(c, m, u) = State(u, "1.3", Append(T13(e), m.kind), enc, dec)
    <2>1. e \in 0..4 /\ e < 4 /\ e # 4 OBVIOUS
    <2>2. /\ c.state = (IF e = 4 THEN "Complete" ELSE Flight13[e + 1]) /\ c.version = "1.3"
          /\ c.transcript = T13(e)
          /\ e < 4 => c.state \notin {"start", "Complete", "Open", "asked", "dropped", "ServerHello"}
      BY <2>1, Reading13Is
    <2>3. \A x, u : Learn(c, x, u) = State(u, "1.3", Append(T13(e), x.kind), enc, dec)
      BY <2>1, Reading13Is
    <2> HIDE DEF c, m, enc, dec
    <2>4. QED BY <2>1, <2>2, <2>3
  <1>2. m.kind = Flight13[e + 1] /\ (e = 3 => m.hash = T13(3))
    <2>1. CASE e < 3 BY <2>1 DEF Messages13, Msg
    <2>2. CASE e = 3
      <3>1. m = MessageOf("Finished", T13(3)) BY <2>2 DEF Messages13, T13
      <3>2. QED BY <2>2, <3>1 DEF MessageOf, Flight13
    <2>3. QED BY <2>1, <2>2
  <1>3. T13(e + 1) = Append(T13(e), Flight13[e + 1]) BY Transcript13
  <1>4. Reading13(e + 1, j) = State(IF e = 3 THEN "Complete" ELSE Flight13[e + 2], "1.3", T13(e + 1), enc, dec)
    BY DEF Reading13
  <1>5. /\ e < 3 => /\ Flight13[e + 1] # "Finished"
                    /\ After13[Flight13[e + 1]] = Flight13[e + 2]
        /\ e = 3 => Flight13[e + 1] = "Finished"
    <2>1. e = 0 \/ e = 1 \/ e = 2 \/ e = 3 OBVIOUS
    <2>2. QED BY <2>1 DEF Flight13, After13
  <1> HIDE DEF c, m, enc, dec
  <1>6. HandleMessage(c, m) = HandleMessage13(c, m) BY <1>1 DEF HandleMessage
  <1>7. CASE e < 3
    <2>1. HandleMessage13(c, m) = Learn(c, m, Flight13[e + 2])
      BY <1>1, <1>2, <1>5, <1>7 DEF HandleMessage13
    <2>2. Learn(c, m, Flight13[e + 2]) = Reading13(e + 1, j)
      <3> DEFINE u == Flight13[e + 2]
                 t == T13(e)
                 k == Flight13[e + 1]
                 t2 == T13(e + 1)
      <3>1. Reading13(e + 1, j) = State(u, "1.3", t2, enc, dec) BY <1>4, <1>7
      <3>2. t2 = Append(t, k) /\ m.kind = k BY <1>2, <1>3
      <3> HIDE DEF u, t, k, t2
      <3>3. Learn(c, m, u) = State(u, "1.3", Append(t, m.kind), enc, dec) BY <1>1 DEF t
      <3>4. QED BY <3>1, <3>2, <3>3 DEF u
    <2>3. QED BY <1>6, <2>1, <2>2 DEF c, m
  <1>8. CASE e = 3
    <2>1. m.kind = "Finished" /\ m.kind = c.state /\ m.hash = c.transcript BY <1>1, <1>2, <1>5, <1>8
    <2>2. HandleMessage13(c, m) = Learn(c, m, "Complete") BY <2>1, <1>1 DEF HandleMessage13
    <2>3. Learn(c, m, "Complete") = Reading13(e + 1, j) BY <1>1, <1>2, <1>3, <1>4, <1>8
    <2>4. QED BY <1>6, <2>2, <2>3 DEF c, m
  <1>9. QED BY <1>7, <1>8

(* And it takes a record of the flight, however many messages are in it.   *)
LEMMA ReadsFlight13 ==
  ASSUME NEW e \in 0..3, NEW c \in 1..4, e < c, NEW j \in Nat
  PROVE  HandleRecord(Reading13(e, j), FlightRecord(e, c, j)) = Reading13(c, j + 1)
  <1> DEFINE key == Nth(Handshake13("server"), j)
             next == Nth(Handshake13("server"), j + 1)
             body == SubSeq(Messages13, e + 1, c)
             r == FlightRecord(e, c, j)
             before == Reading13(e, j)
             d == Reading13(e, j + 1)
             At(i) == Reading13(IF e + i <= c THEN e + i ELSE c, j + 1)
  <1>1. r.outer = "data" /\ r.inner = "handshake" /\ r.key = key /\ r.body = body
    BY DEF FlightRecord, Encrypted13, Record
  <1>2. before.version = "1.3" /\ before.dec = key /\ [before EXCEPT !.dec = next] = d
    BY Reading13Is
  <1>3. key # NoKey /\ Used(key) = next BY FirstKeys
  <1>4. Len(body) = c - e /\ \A i \in 1..(c - e) : body[i] = Messages13[e + i]
    <2>1. IsSequence(Messages13) /\ Len(Messages13) = 4
      <3> DEFINE S == {Messages13[i] : i \in 1..4}
      <3>1. \A i \in 1..4 : Messages13[i] \in S OBVIOUS
      <3>2. Messages13 = [i \in 1..4 |-> Messages13[i]] BY DEF Messages13
      <3> HIDE DEF S
      <3>3. Messages13 \in Seq(S) /\ Len(Messages13) = 4 BY <3>1, <3>2
      <3>4. QED BY <3>3, SequenceIn
    <2>2. e \in Nat /\ c \in Nat /\ e <= c /\ c <= 4 OBVIOUS
    <2>3. QED BY <2>1, <2>2, CutOf
  <1>5. d.version = "1.3" /\ d = At(0) /\ At(4) = Reading13(c, j + 1)
    <2>1. d.version = "1.3"
      <3>1. e \in 0..4 /\ j + 1 \in Nat OBVIOUS
      <3>2. QED BY <3>1, Reading13Is
    <2>2. (IF e + 0 <= c THEN e + 0 ELSE c) = e /\ (IF e + 4 <= c THEN e + 4 ELSE c) = c OBVIOUS
    <2>3. QED BY <2>1, <2>2
  <1>6. ASSUME NEW i \in 1..4 PROVE HandleNth(d, At(i - 1), body, i) = At(i)
    <2>1. CASE i > c - e
      <3>1. At(i - 1) = At(i) BY <2>1
      <3>2. i > Len(body) BY <2>1, <1>4
      <3> HIDE DEF d, body, At
      <3>3. QED BY <3>1, <3>2 DEF HandleNth
    <2>2. CASE i <= c - e
      <3> DEFINE a == e + (i - 1)
                 was == Reading13(a, j + 1)
      <3>1. a \in 0..3 /\ a + 1 = e + i /\ j + 1 \in Nat BY <2>2
      <3>2. At(i - 1) = was /\ At(i) = Reading13(a + 1, j + 1) BY <2>2
      <3>3. was.error = "none" /\ was.state \notin {"Complete", "Open"} /\ was.version = "1.3"
        <4> HIDE DEF a
        <4>1. a \in 0..4 /\ a < 4 BY <3>1
        <4>2. QED BY <3>1, <4>1, Reading13Is
      <3>4. body[i] = Messages13[a + 1] /\ ~(i > Len(body)) BY <2>2, <1>4, <3>1
      <3>5. HandleMessage(was, Messages13[a + 1]) = Reading13(a + 1, j + 1)
        <4> HIDE DEF a
        <4>1. QED BY <3>1, HandlesFlight13
      <3> HIDE DEF d, body, was, a, At
      <3>6. HandleNth(d, was, body, i) = HandleMessage(was, body[i])
        BY <3>3, <3>4, <1>5 DEF HandleNth
      <3>7. QED BY <3>2, <3>4, <3>5, <3>6
    <2>3. QED BY <2>1, <2>2, <1>4
  <1>7. /\ HandleNth(d, At(0), body, 1) = At(1) /\ HandleNth(d, At(1), body, 2) = At(2)
        /\ HandleNth(d, At(2), body, 3) = At(3) /\ HandleNth(d, At(3), body, 4) = At(4)
    <2> HIDE DEF d, body, At
    <2>1. 1 - 1 = 0 /\ 2 - 1 = 1 /\ 3 - 1 = 2 /\ 4 - 1 = 3 OBVIOUS
    <2>2. 1 \in 1..4 /\ 2 \in 1..4 /\ 3 \in 1..4 /\ 4 \in 1..4 OBVIOUS
    <2>3. QED BY <1>6, <2>1, <2>2
  <1>8. HandleMessages(d, body) = At(4)
    <2> HIDE DEF d, body, At
    <2>1. QED BY <1>5, <1>7, Zenon DEF HandleMessages
  <1>9. HandleRecord(before, r) = HandleMessages(d, body)
    <2> HIDE DEF before, r, d, body, key, next
    <2>1. ReadRecord(before, r) = [ok |-> TRUE, dec |-> next, type |-> "handshake", body |-> body]
      BY <1>1, <1>2, <1>3 DEF ReadRecord, ReadRecord13, Opened13
    <2>2. QED BY <1>2, <2>1 DEF HandleRecord
  <1>10. QED BY <1>5, <1>8, <1>9, Zenon

(* Before there is a key a record is passed on, whatever the version.      *)
LEMMA ReadsPlain ==
  ASSUME NEW c, NEW m, c.version \in {"1.3", "1.2"}, c.dec = NoKey, c.error = "none",
         c.state \notin {"Complete", "Open"}, [c EXCEPT !.dec = NoKey] = c
  PROVE  HandleRecord(c, Plain("handshake", <<m>>)) = HandleMessage(c, m)
  <1> DEFINE r == Plain("handshake", <<m>>)
             body == <<m>>
  <1>1. r.outer = "handshake" /\ r.key = NoKey /\ r.body = body BY DEF Plain, Record
  <1>2. HandleMessages(c, body) = HandleMessage(c, m) BY OneMessage
  <1> HIDE DEF r, body
  <1>3. ReadRecord(c, r) = [ok |-> TRUE, dec |-> NoKey, type |-> "handshake", body |-> body]
    BY <1>1 DEF ReadRecord, ReadRecord13, ReadRecord12, PassedOn
  <1>4. HandleRecord(c, r) = HandleMessages(c, body) BY <1>3 DEF HandleRecord
  <1>5. QED BY <1>2, <1>4 DEF r

(* The client of TLS 1.2 in the server's flight, field by field.           *)
LEMMA Reading12Is ==
  ASSUME NEW e \in 0..3
  PROVE  LET c == Reading12(e)
         IN /\ c.version \in {"1.3", "1.2"} /\ c.dec = NoKey /\ c.enc = NoKey /\ c.error = "none"
            /\ c.state \notin {"start", "Complete", "Open", "asked", "dropped"}
            /\ [c EXCEPT !.dec = NoKey] = c
            /\ c = State(c.state, c.version, T12(e), NoKey, NoKey)
            /\ e = 0 => c.state = "ServerHello" /\ c.version = "1.3"
            /\ e = 1 => c.state = "AnyCertificate" /\ c.version = "1.2"
            /\ e = 2 => c.state = "ServerKeyExchange" /\ c.version = "1.2"
            /\ e = 3 => c.state = "ServerHelloDone" /\ c.version = "1.2"
  <1> DEFINE state == IF e = 0 THEN "ServerHello" ELSE IF e = 1 THEN "AnyCertificate"
                      ELSE IF e = 2 THEN "ServerKeyExchange" ELSE "ServerHelloDone"
             version == IF e = 0 THEN "1.3" ELSE "1.2"
             t == T12(e)
             c == State(state, version, t, NoKey, NoKey)
  <1>1. e = 0 \/ e = 1 \/ e = 2 \/ e = 3 OBVIOUS
  <1>2. Reading12(e) = c
    <2>1. CASE e = 0 BY <2>1, Transcript12 DEF Reading12, Greeted
    <2>2. CASE e = 1 BY <2>2 DEF Reading12
    <2>3. CASE e = 2 BY <2>3 DEF Reading12, Flight12
    <2>4. CASE e = 3 BY <2>4 DEF Reading12, Flight12
    <2>5. QED BY <1>1, <2>1, <2>2, <2>3, <2>4
  <1>3. version \in {"1.3", "1.2"} OBVIOUS
  <1>4. state \notin {"start", "Complete", "Open", "asked", "dropped"} BY <1>1
  <1>5. /\ e = 0 => state = "ServerHello" /\ version = "1.3"
        /\ e = 1 => state = "AnyCertificate" /\ version = "1.2"
        /\ e = 2 => state = "ServerKeyExchange" /\ version = "1.2"
        /\ e = 3 => state = "ServerHelloDone" /\ version = "1.2"
    OBVIOUS
  <1> HIDE DEF state, version, t
  <1>6. /\ c.state = state /\ c.version = version /\ c.transcript = t /\ c.error = "none"
        /\ c.enc = NoKey /\ c.dec = NoKey /\ [c EXCEPT !.dec = NoKey] = c
    BY ClientIs
  <1>7. c = State(c.state, c.version, t, NoKey, NoKey) BY <1>6
  <1> HIDE DEF c
  <1>8. QED BY <1>2, <1>3, <1>4, <1>5, <1>6, <1>7 DEF t

(* A change of one field, where the provers need a name for it.            *)
WithDec(c, key) == [c EXCEPT !.dec = key]
InState(c, u) == [c EXCEPT !.state = u]
Wrote(c, u) == [c EXCEPT !.enc = Used(c.enc), !.state = u]

(* The client that has the keys it talks with, field by field, and when it *)
(* uses one.                                                               *)
LEMMA TalkingIs ==
  ASSUME NEW version \in {"1.3", "1.2"}, NEW state, NEW w \in Nat, NEW r \in Nat,
         NEW c, c = Talking(version, state, w, r)
  PROVE  /\ c.state = state /\ c.version = version /\ c.transcript = Final(version)
         /\ c.enc = Nth(DataKey(version, "client"), w)
         /\ c.dec = Nth(DataKey(version, "server"), r) /\ c.error = "none"
         /\ WithDec(c, c.dec) = c /\ \A u : InState(c, u) = Talking(version, u, w, r)
  <1> DEFINE t == Final(version)
             enc == Nth(DataKey(version, "client"), w)
             dec == Nth(DataKey(version, "server"), r)
             d == State(state, version, t, enc, dec)
  <1>1. \A u : Talking(version, u, w, r) = State(u, version, t, enc, dec) BY DEF Talking
  <1> HIDE DEF t, enc, dec
  <1>2. /\ d.state = state /\ d.version = version /\ d.transcript = t /\ d.error = "none"
        /\ d.enc = enc /\ d.dec = dec /\ \A x : [d EXCEPT !.dec = x] = State(state, version, t, enc, x)
        /\ \A u : [d EXCEPT !.state = u] = State(u, version, t, enc, dec)
    BY ClientIs
  <1>3. d = State(state, version, t, enc, dec) OBVIOUS
  <1> HIDE DEF d
  <1>4. c = d BY <1>1, <1>3
  <1>5. WithDec(c, c.dec) = c /\ \A u : InState(c, u) = Talking(version, u, w, r)
    <2>1. ASSUME NEW u PROVE InState(d, u) = Talking(version, u, w, r)
      <3>1. [d EXCEPT !.state = u] = State(u, version, t, enc, dec) BY <1>3 DEF State
      <3>2. QED BY <3>1, <1>1, Zenon DEF InState
    <2>2. WithDec(d, dec) = d BY <1>2, <1>3, Zenon DEF WithDec
    <2>3. QED BY <1>2, <1>4, <2>1, <2>2, Zenon
  <1>6. QED BY <1>2, <1>4, <1>5 DEF t, enc, dec

LEMMA TalkingOn ==
  ASSUME NEW version \in {"1.3", "1.2"}, NEW state, NEW w \in Nat, NEW r \in Nat,
         NEW c, c = Talking(version, state, w, r), NEW n \in Nat
  PROVE  /\ n = r + 1 => WithDec(c, Used(c.dec)) = Talking(version, state, w, n)
         /\ n = w + 1 => \A u : Wrote(c, u) = Talking(version, u, n, r)
  <1> DEFINE t == Final(version)
             enc == Nth(DataKey(version, "client"), w)
             dec == Nth(DataKey(version, "server"), r)
             enc2 == Nth(DataKey(version, "client"), n)
             dec2 == Nth(DataKey(version, "server"), n)
  <1>1. /\ Talking(version, state, w, n) = State(state, version, t, enc, dec2)
        /\ \A u : Talking(version, u, n, r) = State(u, version, t, enc2, dec)
    BY DEF Talking
  <1>2. (n = w + 1 => Used(enc) = enc2) /\ (n = r + 1 => Used(dec) = dec2)
    <2>1. Used(enc) = Nth(DataKey(version, "client"), w + 1) /\ Used(dec) = Nth(DataKey(version, "server"), r + 1)
      BY KeysAre
    <2>2. QED BY <2>1
  <1>3. c = State(state, version, t, enc, dec) BY DEF Talking
  <1>4. c.enc = enc /\ c.dec = dec BY TalkingIs
  <1> HIDE DEF t, enc, dec, enc2, dec2
  <1>5. ASSUME n = r + 1 PROVE WithDec(c, Used(c.dec)) = Talking(version, state, w, n)
    <2>1. [c EXCEPT !.dec = dec2] = State(state, version, t, enc, dec2) BY <1>3 DEF State
    <2>2. Used(c.dec) = dec2 BY <1>2, <1>4, <1>5
    <2>3. QED BY <2>1, <2>2, <1>1, Zenon DEF WithDec
  <1>6. ASSUME n = w + 1, NEW u PROVE Wrote(c, u) = Talking(version, u, n, r)
    <2> DEFINE d == [c EXCEPT !.enc = enc2]
    <2>1. d = State(state, version, t, enc2, dec) BY <1>3 DEF State
    <2>2. Wrote(c, u) = [d EXCEPT !.state = u] BY <1>2, <1>4, <1>6 DEF Wrote
    <2> HIDE DEF d
    <2>3. [d EXCEPT !.state = u] = State(u, version, t, enc2, dec) BY <2>1 DEF State
    <2>4. QED BY <2>2, <2>3, <1>1, Zenon
  <1>7. QED BY <1>5, <1>6

(* The client of TLS 1.2 takes the next message of the server's flight,    *)
(* with the last of which it sends its own.                                *)
LEMMA ReadsFlight12 ==
  ASSUME NEW e \in 0..3
  PROVE  HandleRecord(Reading12(e), Plain("handshake", <<Msg(Flight12[e + 1])>>))
           = IF e < 3 THEN Reading12(e + 1) ELSE Talking("1.2", "ChangeCipher", 1, 0)
  <1> DEFINE c == Reading12(e)
             m == Msg(Flight12[e + 1])
             t == T12(e)
             next == T12(e + 1)
  <1>1. m.kind = Flight12[e + 1] BY DEF Msg
  <1>2. next = Append(t, Flight12[e + 1]) BY Transcript12
  <1>3. /\ c.version \in {"1.3", "1.2"} /\ c.dec = NoKey /\ c.enc = NoKey /\ c.error = "none"
        /\ c.state \notin {"start", "Complete", "Open", "asked", "dropped"}
        /\ [c EXCEPT !.dec = NoKey] = c
        /\ c = State(c.state, c.version, t, NoKey, NoKey)
    BY Reading12Is
  <1>4. /\ e = 0 => c.state = "ServerHello" /\ c.version = "1.3"
        /\ e = 1 => c.state = "AnyCertificate" /\ c.version = "1.2"
        /\ e = 2 => c.state = "ServerKeyExchange" /\ c.version = "1.2"
        /\ e = 3 => c.state = "ServerHelloDone" /\ c.version = "1.2"
    BY Reading12Is
  <1>5. \A u : Learn(c, m, u) = State(u, c.version, next, NoKey, NoKey)
    <2> HIDE DEF t, next, c, m
    <2>1. \A u : Learn(State(c.state, c.version, t, NoKey, NoKey), m, u)
                   = State(u, c.version, Append(t, m.kind), NoKey, NoKey)
      BY ClientIs
    <2>2. QED BY <2>1, <1>1, <1>2, <1>3
  <1>6. /\ Flight12[1] = "ServerHello12" /\ Flight12[3] = "ServerKeyExchange"
        /\ Flight12[4] = "ServerHelloDone"
    BY DEF Flight12
  <1>7. /\ Reading12(1) = State("AnyCertificate", "1.2", T12(1), NoKey, NoKey)
        /\ Reading12(2) = State("ServerKeyExchange", "1.2", T12(2), NoKey, NoKey)
        /\ Reading12(3) = State("ServerHelloDone", "1.2", T12(3), NoKey, NoKey)
    <2>1. Reading12(1) = State("AnyCertificate", "1.2", T12(1), NoKey, NoKey) BY DEF Reading12
    <2>2. Reading12(2) = State(Flight12[3], "1.2", T12(2), NoKey, NoKey) BY DEF Reading12
    <2>3. Reading12(3) = State(Flight12[4], "1.2", T12(3), NoKey, NoKey) BY DEF Reading12
    <2>4. QED BY <2>1, <2>2, <2>3, <1>6
  <1>8. HandleRecord(c, Plain("handshake", <<m>>)) = HandleMessage(c, m)
    <2> HIDE DEF c, m
    <2>1. QED BY <1>3, ReadsPlain
  <1>9. HandleMessage(c, m) = IF e < 3 THEN Reading12(e + 1) ELSE Talking("1.2", "ChangeCipher", 1, 0)
    <2>e. e = 0 \/ e = 1 \/ e = 2 \/ e = 3 OBVIOUS
    <2>m. /\ e = 0 => m.kind = "ServerHello12" /\ next = T12(1)
          /\ e = 1 => next = T12(2)
          /\ e = 2 => m.kind = "ServerKeyExchange" /\ next = T12(3)
          /\ e = 3 => m.kind = "ServerHelloDone" /\ t = T12(3)
      <3> HIDE DEF m
      <3>1. e = 0 => e + 1 = 1 BY <2>e
      <3>2. e = 1 => e + 1 = 2 BY <2>e
      <3>3. e = 2 => e + 1 = 3 BY <2>e
      <3>4. e = 3 => e + 1 = 4 BY <2>e
      <3>5. QED BY <3>1, <3>2, <3>3, <3>4, <1>1, <1>6, Zenon
    <2> HIDE DEF c, m, t, next
    <2>1. CASE e = 0
      <3>1. HandleMessage(c, m) = HandleServerHello(c, m)
        BY <2>m, <1>4, <2>1 DEF HandleMessage, HandleMessage13
      <3>2. HandleServerHello(c, m) = [Learn(c, m, "AnyCertificate") EXCEPT !.version = "1.2"]
        BY <2>m, <2>1 DEF HandleServerHello
      <3>3. Learn(c, m, "AnyCertificate") = State("AnyCertificate", "1.3", T12(1), NoKey, NoKey)
        BY <1>4, <1>5, <2>1, <2>m
      <3> DEFINE u == T12(1)
                 d == Learn(c, m, "AnyCertificate")
      <3> HIDE DEF u, d
      <3>4. [d EXCEPT !.version = "1.2"] = State("AnyCertificate", "1.2", u, NoKey, NoKey)
        <4>1. d = State("AnyCertificate", "1.3", u, NoKey, NoKey) BY <3>3 DEF d, u
        <4>2. QED BY <4>1 DEF State
      <3>5. HandleMessage(c, m) = Reading12(1) BY <3>1, <3>2, <3>4, <1>7 DEF u, d
      <3>6. QED BY <3>5, <2>1
    <2>2. CASE e = 1
      <3>1. HandleMessage(c, m) = Learn(c, m, "ServerKeyExchange")
        BY <1>4, <2>2 DEF HandleMessage, HandleMessage12
      <3>2. HandleMessage(c, m) = Reading12(2) BY <3>1, <1>4, <1>5, <1>7, <2>2, <2>m
      <3>3. QED BY <3>2, <2>2
    <2>3. CASE e = 2
      <3>1. HandleMessage(c, m) = Learn(c, m, "ServerHelloDone")
        BY <2>m, <1>4, <2>3 DEF HandleMessage, HandleMessage12
      <3>2. HandleMessage(c, m) = Reading12(3) BY <3>1, <1>4, <1>5, <1>7, <2>3, <2>m
      <3>3. QED BY <3>2, <2>3
    <2>4. CASE e = 3
      <3> DEFINE f == c.transcript \o <<m.kind>> \o ClientFlight
                 enc == Used(Key12("client"))
                 dec == Key12("server")
      <3>1. c = State("ServerHelloDone", "1.2", T12(3), NoKey, NoKey) /\ m.kind = "ServerHelloDone"
        BY <2>m, <1>3, <1>4, <2>4
      <3>2. f = Final("1.2")
        <4>1. c.transcript = T12(3) BY <3>1, ClientIs
        <4>2. QED BY <4>1, <3>1, KeyExchange12
      <3>3. HandleMessage(c, m) = [c EXCEPT !.transcript = f, !.state = "ChangeCipher",
                                           !.enc = enc, !.dec = dec]
        BY <2>m, <1>4, <2>4 DEF HandleMessage, HandleMessage12
      <3>4. enc = Nth(DataKey("1.2", "client"), 1) /\ dec = Nth(DataKey("1.2", "server"), 0)
        <4>1. Nth(DataKey("1.2", "client"), 0) = Key12("client") /\ Nth(DataKey("1.2", "server"), 0) = Key12("server")
          BY FirstKeys
        <4>2. Used(Nth(DataKey("1.2", "client"), 0)) = Nth(DataKey("1.2", "client"), 0 + 1) BY KeysAre
        <4>3. QED BY <4>1, <4>2
      <3> HIDE DEF f, enc, dec
      <3> DEFINE t3 == T12(3)
      <3> HIDE DEF t3
      <3> DEFINE c1 == [c EXCEPT !.transcript = f]
                 c2 == [c1 EXCEPT !.state = "ChangeCipher"]
                 c3 == [c2 EXCEPT !.enc = enc]
                 c4 == [c3 EXCEPT !.dec = dec]
      <3>5. [c EXCEPT !.transcript = f, !.state = "ChangeCipher", !.enc = enc, !.dec = dec] = c4
        OBVIOUS
      <3>6. c = State("ServerHelloDone", "1.2", t3, NoKey, NoKey) BY <3>1 DEF t3
      <3>7. c1 = State("ServerHelloDone", "1.2", f, NoKey, NoKey) BY <3>6 DEF State
      <3> HIDE DEF c1
      <3>8. c2 = State("ChangeCipher", "1.2", f, NoKey, NoKey) BY <3>7 DEF State
      <3> HIDE DEF c2
      <3>9. c3 = State("ChangeCipher", "1.2", f, enc, NoKey) BY <3>8 DEF State
      <3> HIDE DEF c3
      <3>10. c4 = State("ChangeCipher", "1.2", f, enc, dec) BY <3>9 DEF State
      <3>11. HandleMessage(c, m) = State("ChangeCipher", "1.2", f, enc, dec)
        BY <3>3, <3>5, <3>10
      <3>12. QED BY <3>2, <3>4, <3>11, <2>4 DEF Talking
    <2>5. QED BY <2>e, <2>1, <2>2, <2>3, <2>4
  <1>10. QED BY <1>8, <1>9

(* Facts of arithmetic the leaves below cite.                              *)
LEMMA Small == "1.2" \in {"1.3", "1.2"} /\ 0 \in Nat /\ 1 \in Nat /\ 0 + 1 = 1
  OBVIOUS

(* It takes the server's change of cipher,                                 *)
LEMMA ReadsChangeCipherSpec12 ==
  HandleRecord(Talking("1.2", "ChangeCipher", 1, 0), ChangeCipherSpec) = Talking("1.2", "Finished", 1, 0)
  <1> DEFINE c == Talking("1.2", "ChangeCipher", 1, 0)
             r == ChangeCipherSpec
             next == Talking("1.2", "Finished", 1, 0)
  <1>c. c = Talking("1.2", "ChangeCipher", 1, 0) OBVIOUS
  <1> HIDE DEF c
  <1>1. /\ c.state = "ChangeCipher" /\ c.version = "1.2" /\ WithDec(c, c.dec) = c
        /\ InState(c, "Finished") = next
    BY <1>c, Small, TalkingIs
  <1>2. r.outer = "ccs" BY DEF ChangeCipherSpec, Plain, Record
  <1> HIDE DEF c, r, next
  <1>3. LET read == ReadRecord(c, r) IN read.ok /\ read.dec = c.dec /\ read.type = "ccs"
    BY <1>1, <1>2 DEF ReadRecord, ReadRecord12, PassedOn
  <1>4. HandleRecord(c, r) = next
    <2> DEFINE d == WithDec(c, c.dec)
    <2>1. d = [c EXCEPT !.dec = c.dec] /\ next = [d EXCEPT !.state = "Finished"]
      BY <1>1, Zenon DEF WithDec, InState
    <2> HIDE DEF d
    <2>2. QED BY <1>1, <1>3, <2>1 DEF HandleRecord
  <1>5. QED BY <1>4 DEF c, r, next

(* and the server's Finished, which fits what it hashed itself.            *)
LEMMA ReadsFinished12 ==
  HandleRecord(Talking("1.2", "Finished", 1, 0), ServerFinished12) = Talking("1.2", "Open", 1, 1)
  <1> DEFINE c == Talking("1.2", "Finished", 1, 0)
             d == Talking("1.2", "Finished", 1, 1)
             open == Talking("1.2", "Open", 1, 1)
             m == MessageOf("Finished", Final("1.2"))
             body == <<m>>
             r == ServerFinished12
             next == Used(c.dec)
  <1>c. c = Talking("1.2", "Finished", 1, 0) /\ d = Talking("1.2", "Finished", 1, 1) OBVIOUS
  <1> HIDE DEF c, d
  <1>1. c.version = "1.2" /\ c.dec = Nth(DataKey("1.2", "server"), 0) /\ WithDec(c, next) = d
    BY <1>c, Small, TalkingIs, TalkingOn
  <1>2. /\ d.state = "Finished" /\ d.version = "1.2" /\ d.error = "none" /\ d.transcript = Final("1.2")
        /\ InState(d, "Open") = open
    BY <1>c, Small, TalkingIs
  <1>3. r.outer = "handshake" /\ r.key = Key12("server") /\ r.body = body
    BY DEF ServerFinished12, Encrypted12, Record
  <1>4. c.dec = Key12("server") /\ c.dec # NoKey
    <2>1. Nth(DataKey("1.2", "server"), 0) = Key12("server") /\ Key12("server") # NoKey BY FirstKeys
    <2>2. QED BY <1>1, <2>1, Zenon
  <1>5. m.kind = "Finished" /\ m.hash = Final("1.2") BY DEF MessageOf
  <1> HIDE DEF c, d, open, m, body, r, next
  <1>6. ReadRecord(c, r) = [ok |-> TRUE, dec |-> next, type |-> "handshake", body |-> body]
    BY <1>1, <1>3, <1>4 DEF ReadRecord, ReadRecord12, Opened12, next
  <1>7. HandleRecord(c, r) = HandleMessages(d, body) BY <1>1, <1>6 DEF HandleRecord, WithDec
  <1>8. HandleMessages(d, body) = HandleMessage(d, m) BY <1>2, OneMessage DEF body
  <1>9. HandleMessage(d, m) = open BY <1>2, <1>5 DEF HandleMessage, HandleMessage12, InState
  <1>10. QED BY <1>7, <1>8, <1>9 DEF c, r, open

(* What HandleMessage12 hands over to be sent, and when.                   *)
KeyExchangeRecords == <<Plain("handshake", <<Msg("ClientKeyExchange")>>), ChangeCipherSpec, Finished12>>

LEMMA SendsNothing ==
  ASSUME NEW before, NEW after, before.state # "ServerHelloDone" \/ after.state # "ChangeCipher"
  PROVE  SentBy(before, after) = <<>>
  BY DEF SentBy

LEMMA SendsKeyExchange ==
  SentBy(Reading12(3), Talking("1.2", "ChangeCipher", 1, 0)) = KeyExchangeRecords
  <1> DEFINE c == Reading12(3)
             d == Talking("1.2", "ChangeCipher", 1, 0)
  <1>c. d = Talking("1.2", "ChangeCipher", 1, 0) OBVIOUS
  <1> HIDE DEF d
  <1>1. c.state = "ServerHelloDone" BY Reading12Is
  <1>2. d.state = "ChangeCipher" /\ d.transcript = Final("1.2")
    BY <1>c, Small, TalkingIs
  <1>3. SubSeq(d.transcript, 1, Len(d.transcript) - 1) = KeyExchanged BY <1>2, KeyExchange12
  <1> HIDE DEF c, d
  <1> DEFINE h == SubSeq(d.transcript, 1, Len(d.transcript) - 1)
  <1>h. h = KeyExchanged BY <1>3
  <1> HIDE DEF h
  <1>4. SentBy(c, d) = KeyExchangeRecords
    <2>1. SentBy(c, d) = <<Plain("handshake", <<Msg("ClientKeyExchange")>>), ChangeCipherSpec,
            Encrypted("1.2", "handshake", Key12("client"), <<MessageOf("ClientFinished", h)>>)>>
      BY <1>1, <1>2 DEF SentBy, h
    <2>2. Encrypted("1.2", "handshake", Key12("client"), <<MessageOf("ClientFinished", h)>>) = Finished12
      BY <1>h DEF Encrypted, Finished12
    <2>3. QED BY <2>1, <2>2 DEF KeyExchangeRecords
  <1>5. QED BY <1>4 DEF c, d

(* The client of TLS 1.3 has the keys of the reply from its own hashes.    *)
LEMMA InstallsAppKeys ==
  ASSUME NEW j \in Nat
  PROVE  InstallAppKeys(Reading13(4, j)) = Talking("1.3", "Open", 0, 0)
  <1> DEFINE t == T13(4)
             f == Final("1.3")
             enc == Handshake13("client")
             dec == Nth(Handshake13("server"), j)
             enc2 == Key("client", "data", t)
             dec2 == Key("server", "data", t)
             c == Reading13(4, j)
             c1 == [c EXCEPT !.transcript = f]
             c2 == [c1 EXCEPT !.state = "Open"]
             c3 == [c2 EXCEPT !.enc = enc2]
             c4 == [c3 EXCEPT !.dec = dec2]
  <1>1. c = State("Complete", "1.3", t, enc, dec) BY DEF Reading13
  <1>2. c.transcript = t BY <1>1, ClientIs
  <1>3. f = Append(t, "ClientFinished") BY DEF Final
  <1>4. /\ enc2 = Nth(DataKey("1.3", "client"), 0) /\ dec2 = Nth(DataKey("1.3", "server"), 0)
    <2>1. t = Hello13 \o Flight13 BY Transcript13
    <2>2. DataKey("1.3", "client") = enc2 /\ DataKey("1.3", "server") = dec2 BY <2>1 DEF DataKey
    <2>3. QED BY <2>2, FirstKeys
  <1>5. Talking("1.3", "Open", 0, 0) = State("Open", "1.3", f, enc2, dec2) BY <1>4 DEF Talking
  <1> HIDE DEF t, f, enc, dec, enc2, dec2, c
  <1>6. InstallAppKeys(c) = c4 BY <1>2, <1>3 DEF InstallAppKeys, enc2, dec2
  <1>7. c1 = State("Complete", "1.3", f, enc, dec) BY <1>1 DEF State
  <1> HIDE DEF c1
  <1>8. c2 = State("Open", "1.3", f, enc, dec) BY <1>7 DEF State
  <1> HIDE DEF c2
  <1>9. c3 = State("Open", "1.3", f, enc2, dec) BY <1>8 DEF State
  <1> HIDE DEF c3
  <1>10. c4 = State("Open", "1.3", f, enc2, dec2) BY <1>9 DEF State
  <1>11. QED BY <1>5, <1>6, <1>10 DEF c

(* What read() makes of a record that carries bytes a to b of the reply.   *)
ReadsTo(c, rec, after, a, b) ==
  LET read == ReadRecord(c, rec)
  IN /\ read.ok /\ WithDec(c, read.dec) = after
     /\ \/ read.type = "data" /\ a < b /\ read.body = Bytes(a, b)
        \/ read.type = "handshake" /\ a = b
        \/ read.type = "alert" /\ rec.inner = "alert" /\ a = b /\ read.body = <<"close_notify">>

(* A record of the reply decrypts, and moves the client's key on by one.   *)
LEMMA ReadsReply ==
  ASSUME NEW version \in {"1.3", "1.2"}, NEW state, NEW w \in Nat, NEW n \in Nat,
         NEW i \in Nat, i = n + 1,
         NEW c, c = Talking(version, state, w, n), NEW a \in Nat, NEW b \in Nat, NEW rec,
         Carries(rec, version, Nth(DataKey(version, "server"), n), a, b)
  PROVE  ReadsTo(c, rec, Talking(version, state, w, i), a, b)
  <1> DEFINE key == Nth(DataKey(version, "server"), n)
             next == Used(c.dec)
             bytes == Bytes(a, b)
             notify == <<"close_notify">>
             read == ReadRecord(c, rec)
             after == Talking(version, state, w, i)
  <1>1. c.version = version /\ c.dec = key /\ WithDec(c, next) = after
    <2>n. version \in {"1.3", "1.2"} /\ w \in Nat /\ n \in Nat /\ c = Talking(version, state, w, n) OBVIOUS
    <2>1. c.version = version BY ONLY <2>n, TalkingIs
    <2>4. c.dec = key BY ONLY <2>n, TalkingIs
    <2>2. WithDec(c, Used(c.dec)) = Talking(version, state, w, i)
      <3>1. i \in Nat /\ i = n + 1 OBVIOUS
      <3>2. QED BY ONLY <2>n, <3>1, TalkingOn
    <2>3. QED BY <2>1, <2>2, <2>4
  <1>2. key # NoKey BY KeysAre
  <1>3. /\ rec.key = key /\ rec.outer = "data"
        /\ \/ rec.inner = "data" /\ a < b /\ rec.body = bytes
           \/ version = "1.3" /\ rec.inner = "handshake" /\ a = b
           \/ version = "1.3" /\ rec.inner = "alert" /\ a = b /\ rec.body = notify
    <2> HIDE DEF key
    <2>1. Carries(rec, version, key, a, b) BY DEF key
    <2>2. QED BY <2>1 DEF Carries, Encrypted, Encrypted12, Encrypted13, Record
  <1> HIDE DEF key, next, bytes, notify, after
  <1>4. read.ok /\ read.dec = next /\ read.body = rec.body /\ read.type = (IF version = "1.3" THEN rec.inner ELSE rec.outer)
    BY <1>1, <1>2, <1>3 DEF ReadRecord, ReadRecord13, ReadRecord12, Opened13, Opened12, next
  <1>5. WithDec(c, read.dec) = after BY <1>1, <1>4
  <1> HIDE DEF read
  <1>6. QED BY <1>3, <1>4, <1>5 DEF bytes, notify, after, read, ReadsTo

(* The first h records on the wire are the same after a step; or the first *)
(* record was taken and the rest moved up.                                 *)
WireStands(h) == Len(wire') \in Nat /\ h <= Len(wire') /\ \A x \in 1..h : wire'[x] = wire[x]
WireTaken ==
  /\ Len(wire) \in Nat \ {0} /\ Len(wire') = Len(wire) - 1
  /\ \A x \in 1..(Len(wire) - 1) : wire'[x] = wire[x + 1]

(* Taking a record is taking the first.                                    *)
LEMMA WireTail ==
  ASSUME IsSequence(wire), wire # <<>>, wire' = Tail(wire)
  PROVE  WireTaken /\ IsSequence(wire')
  BY TailOf DEF WireTaken

(* The rest of the flight stays where it stands while the wire grows,      *)
LEMMA FlightStands ==
  ASSUME NEW b \in Nat, NEW h \in Nat, NEW e, NEW j \in Nat, FlightLeft(b, h, e, j), WireStands(h)
  PROVE  FlightLeft(b, h, e, j)'
  <1>1. PICK ends \in [0..(h - b) -> 0..4] :
          /\ ends[0] = e /\ ends[h - b] = 4
          /\ \A x \in 1..(h - b) :
               ends[x - 1] < ends[x] /\ wire[b + x] = FlightRecord(ends[x - 1], ends[x], j + x - 1)
    BY DEF FlightLeft
  <1>2. b <= h BY DEF FlightLeft
  <1>3. ASSUME NEW x \in 1..(h - b) PROVE wire'[b + x] = wire[b + x]
    <2>1. b + x \in 1..h BY <1>2
    <2>2. QED BY <2>1 DEF WireStands
  <1>4. \A x \in 1..(h - b) :
          ends[x - 1] < ends[x] /\ wire'[b + x] = FlightRecord(ends[x - 1], ends[x], j + x - 1)
    BY <1>1, <1>3
  <1>5. QED BY <1>1, <1>2, <1>4 DEF FlightLeft, WireStands

(* moves up when a record before it is taken,                              *)
LEMMA FlightMoves ==
  ASSUME NEW b \in Nat, NEW h \in Nat, NEW e, NEW j \in Nat, FlightLeft(b, h, e, j),
         b >= 1, WireTaken
  PROVE  FlightLeft(b - 1, h - 1, e, j)'
  <1>1. PICK ends \in [0..(h - b) -> 0..4] :
          /\ ends[0] = e /\ ends[h - b] = 4
          /\ \A x \in 1..(h - b) :
               ends[x - 1] < ends[x] /\ wire[b + x] = FlightRecord(ends[x - 1], ends[x], j + x - 1)
    BY DEF FlightLeft
  <1>2. b <= h /\ h <= Len(wire) BY DEF FlightLeft
  <1> DEFINE b2 == b - 1
             h2 == h - 1
  <1>3. b2 \in Nat /\ h2 \in Nat /\ h2 - b2 = h - b /\ b2 <= h2 /\ h2 <= Len(wire')
    BY <1>2 DEF WireTaken
  <1>4. ASSUME NEW x \in 1..(h - b) PROVE wire'[b2 + x] = wire[b + x]
    <2>1. b2 + x \in 1..(Len(wire) - 1) /\ (b2 + x) + 1 = b + x BY <1>2 DEF WireTaken
    <2>2. QED BY <2>1 DEF WireTaken
  <1>5. \A x \in 1..(h - b) :
          ends[x - 1] < ends[x] /\ wire'[b2 + x] = FlightRecord(ends[x - 1], ends[x], j + x - 1)
    BY <1>1, <1>4
  <1> HIDE DEF b2, h2
  <1>6. FlightLeft(b2, h2, e, j)' BY <1>1, <1>3, <1>5 DEF FlightLeft
  <1>7. QED BY <1>6 DEF b2, h2

(* is nothing when all four messages have been read,                       *)
LEMMA FlightDone ==
  ASSUME NEW b \in Nat, NEW h \in Nat, NEW j \in Nat, FlightLeft(b, h, 4, j)
  PROVE  h = b
  <1>1. PICK ends \in [0..(h - b) -> 0..4] :
          /\ ends[0] = 4
          /\ \A x \in 1..(h - b) : ends[x - 1] < ends[x]
    BY DEF FlightLeft
  <1>2. b <= h BY DEF FlightLeft
  <1>3. ASSUME h # b PROVE FALSE
    <2>1. 1 \in 1..(h - b) /\ 1 \in 0..(h - b) /\ 1 - 1 = 0 BY <1>2, <1>3
    <2>2. ends[0] < ends[1] /\ ends[1] \in 0..4 BY <2>1, <1>1
    <2>3. QED BY <2>2, <1>1
  <1>4. QED BY <1>3

(* and loses its first record to the client.                               *)
LEMMA FlightRead ==
  ASSUME NEW h \in Nat, NEW e \in 0..3, NEW j \in Nat, FlightLeft(0, h, e, j), WireTaken
  PROVE  /\ h >= 1
         /\ \E c \in 1..4 : /\ e < c /\ wire[1] = FlightRecord(e, c, j)
                            /\ FlightLeft(0, h - 1, c, j + 1)'
  <1>1. PICK ends \in [0..(h - 0) -> 0..4] :
          /\ ends[0] = e /\ ends[h - 0] = 4
          /\ \A x \in 1..(h - 0) :
               ends[x - 1] < ends[x] /\ wire[0 + x] = FlightRecord(ends[x - 1], ends[x], j + x - 1)
    BY DEF FlightLeft
  <1>2. /\ ends \in [0..h -> 0..4] /\ ends[0] = e /\ ends[h] = 4
        /\ \A x \in 1..h :
             ends[x - 1] < ends[x] /\ wire[x] = FlightRecord(ends[x - 1], ends[x], j + x - 1)
    BY <1>1
  <1>3. h >= 1
    <2>1. h # 0 BY <1>2
    <2>2. QED BY <2>1
  <1>4. h <= Len(wire) BY DEF FlightLeft
  <1> DEFINE c == ends[1]
             ends2 == [x \in 0..(h - 1) |-> ends[x + 1]]
             h2 == h - 1
             j2 == j + 1
  <1>5. 1 \in 1..h /\ 1 - 1 = 0 /\ j + 1 - 1 = j /\ 1 \in 0..h BY <1>3
  <1>6. e < c /\ wire[1] = FlightRecord(e, c, j) /\ c \in 0..4 BY <1>2, <1>5
  <1>7. c \in 1..4 BY <1>6
  <1>8. /\ h2 \in Nat /\ j2 \in Nat /\ h2 <= Len(wire') /\ h2 - 0 = h2
        /\ ends2 \in [0..h2 -> 0..4] /\ ends2[0] = c /\ ends2[h2] = 4
    <2>1. \A x \in 0..h2 : x + 1 \in 0..h /\ ends[x + 1] \in 0..4 BY <1>2, <1>3
    <2>2. ends2 \in [0..h2 -> 0..4] BY <2>1
    <2>3. 0 \in 0..h2 /\ h2 \in 0..h2 /\ 0 + 1 = 1 /\ h2 + 1 = h BY <1>3
    <2>4. ends2[0] = c /\ ends2[h2] = 4 BY <2>3, <1>2
    <2>5. QED BY <2>2, <2>4, <1>3, <1>4 DEF WireTaken
  <1>9. ASSUME NEW x \in 1..h2
        PROVE  ends2[x - 1] < ends2[x] /\ wire'[x] = FlightRecord(ends2[x - 1], ends2[x], j2 + x - 1)
    <2>1. x + 1 \in 1..h /\ x \in 1..(Len(wire) - 1) /\ x - 1 \in 0..h2 /\ x \in 0..h2
          /\ (x + 1) - 1 = x /\ (x - 1) + 1 = x /\ j + (x + 1) - 1 = j2 + x - 1
      BY <1>3, <1>4 DEF WireTaken
    <2>2. ends2[x - 1] = ends[x] /\ ends2[x] = ends[x + 1] BY <2>1
    <2>3. wire'[x] = wire[x + 1] BY <2>1 DEF WireTaken
    <2> DEFINE y == x + 1
    <2>4. ends[y - 1] < ends[y] /\ wire[y] = FlightRecord(ends[y - 1], ends[y], j + y - 1)
      <3> HIDE DEF y
      <3>1. y \in 1..h BY <2>1 DEF y
      <3>2. QED BY <3>1, <1>2
    <2>5. QED BY <2>1, <2>2, <2>3, <2>4
  <1> HIDE DEF c, ends2, h2, j2
  <1>10. FlightLeft(0, h2, c, j2)'
    <2>1. 0 <= h2 BY <1>8
    <2>2. \A x \in 1..h2 : 0 + x = x OBVIOUS
    <2>3. \A x \in 1..h2 : ends2[x - 1] < ends2[x] /\ wire'[0 + x] = FlightRecord(ends2[x - 1], ends2[x], j2 + x - 1)
      BY <1>9, <2>2
    <2>4. QED BY <1>8, <2>1, <2>3 DEF FlightLeft
  <1>11. QED BY <1>3, <1>6, <1>7, <1>10 DEF h2, j2

(* The server's step does not matter to what stands on the wire.           *)
PhaseStands(version) ==
  /\ server.phase = "closed" <=> server'.phase = "closed"
  /\ version = "1.2" => (server.phase = "hello" <=> server'.phase = "hello")

DataNth(version, n) == Nth(DataKey(version, "server"), n)

(* The rest of the reply stays when the wire does,                         *)
LEMMA ReplyStands ==
  ASSUME NEW version, NEW h \in Nat, NEW first \in Nat, ReplyLeft(version, h, first),
         wire' = wire, Got' = Got, server'.enc = server.enc, server'.sent = server.sent,
         PhaseStands(version) \/ server'.phase = "closed"
  PROVE  ReplyLeft(version, h, first)'
  <1> DEFINE m == Len(wire) - h
  <1>1. /\ m >= 0
        /\ server.phase # "closed" =>
             server.enc = IF version = "1.2" /\ server.phase = "hello" THEN NoKey
                          ELSE DataNth(version, first + m)
        /\ \A x \in 1..m : wire[h + x].inner = "alert" => x = m /\ server.phase = "closed"
    BY DEF ReplyLeft, DataNth
  <1>2. PICK cut \in [0..m -> Nat] :
          /\ cut[0] = Got /\ cut[m] = server.sent
          /\ \A x \in 1..m :
               Carries(wire[h + x], version, Nth(DataKey(version, "server"), first + x - 1),
                       cut[x - 1], cut[x])
    BY DEF ReplyLeft
  <1>3. /\ server'.phase # "closed" =>
             server'.enc = IF version = "1.2" /\ server'.phase = "hello" THEN NoKey
                           ELSE Nth(DataKey(version, "server"), first + m)
        /\ \A x \in 1..m : wire[h + x].inner = "alert" => x = m /\ server'.phase = "closed"
    <2> HIDE DEF m
    <2>1. QED BY <1>1 DEF PhaseStands, DataNth
  <1>4. m' = m OBVIOUS
  <1>5. QED BY <1>1, <1>2, <1>3, <1>4 DEF ReplyLeft

(* when the client takes a record before it,                               *)
LEMMA ReplyStays ==
  ASSUME NEW version, NEW h \in Nat, NEW first \in Nat, ReplyLeft(version, h, first),
         h >= 1, WireTaken, Got' = Got, server' = server
  PROVE  ReplyLeft(version, h - 1, first)'
  <1> DEFINE m == Len(wire) - h
             h2 == h - 1
             n == Len(wire') - h2
  <1>1. /\ m >= 0
        /\ server.phase # "closed" =>
             server.enc = IF version = "1.2" /\ server.phase = "hello" THEN NoKey
                          ELSE Nth(DataKey(version, "server"), first + m)
        /\ \A x \in 1..m : wire[h + x].inner = "alert" => x = m /\ server.phase = "closed"
    BY DEF ReplyLeft
  <1>2. PICK cut \in [0..m -> Nat] :
          /\ cut[0] = Got /\ cut[m] = server.sent
          /\ \A x \in 1..m :
               Carries(wire[h + x], version, Nth(DataKey(version, "server"), first + x - 1),
                       cut[x - 1], cut[x])
    BY DEF ReplyLeft
  <1>3. n = m /\ m \in Nat BY <1>1 DEF WireTaken
  <1>4. ASSUME NEW x \in 1..m PROVE wire'[h2 + x] = wire[h + x]
    <2>1. h2 + x \in 1..(Len(wire) - 1) /\ (h2 + x) + 1 = h + x BY <1>3 DEF WireTaken
    <2>2. QED BY <2>1 DEF WireTaken
  <1>5. /\ n >= 0
        /\ server'.phase # "closed" =>
             server'.enc = IF version = "1.2" /\ server'.phase = "hello" THEN NoKey
                           ELSE Nth(DataKey(version, "server"), first + n)
        /\ \A x \in 1..n : wire'[h2 + x].inner = "alert" => x = n /\ server'.phase = "closed"
    <2> HIDE DEF n, m, h2
    <2>1. QED BY <1>1, <1>3, <1>4
  <1>6. /\ cut \in [0..n -> Nat] /\ cut[0] = Got' /\ cut[n] = server'.sent
        /\ \A x \in 1..n :
             Carries(wire'[h2 + x], version, Nth(DataKey(version, "server"), first + x - 1),
                     cut[x - 1], cut[x])
    <2> HIDE DEF n, m, h2
    <2>1. QED BY <1>2, <1>3, <1>4
  <1> HIDE DEF h2, m
  <1>7. ReplyLeft(version, h2, first)' BY <1>5, <1>6 DEF ReplyLeft
  <1>8. QED BY <1>7 DEF h2

(* when the client takes its first record, which carries it on,            *)
LEMMA ReplyTaken ==
  ASSUME NEW version, NEW first \in Nat, NEW next \in Nat, next = first + 1,
         ReplyLeft(version, 0, first), WireTaken, server' = server
  PROVE  \E c \in Nat :
           /\ Carries(wire[1], version, Nth(DataKey(version, "server"), first), Got, c)
           /\ wire[1].inner = "alert" => server.phase = "closed" /\ c = server.sent
           /\ Got' = c => ReplyLeft(version, 0, next)'
  <1> DEFINE m == Len(wire)
             n == Len(wire')
  <1>1. /\ m - 0 = m /\ n - 0 = n /\ m \in Nat \ {0} /\ n = m - 1 /\ n \in Nat BY DEF WireTaken
  <1> DEFINE key(x) == Nth(DataKey(version, "server"), x)
  <1>2. /\ server.phase # "closed" =>
             server.enc = IF version = "1.2" /\ server.phase = "hello" THEN NoKey
                          ELSE key(first + m)
        /\ \A x \in 1..m : wire[x].inner = "alert" => x = m /\ server.phase = "closed"
    <2>1. /\ server.phase # "closed" =>
             server.enc = IF version = "1.2" /\ server.phase = "hello" THEN NoKey
                          ELSE key(first + (m - 0))
          /\ \A x \in 1..(m - 0) : wire[0 + x].inner = "alert" => x = m - 0 /\ server.phase = "closed"
      BY DEF ReplyLeft
    <2>2. \A x \in 1..m : 0 + x = x OBVIOUS
    <2> HIDE DEF key, m
    <2>3. QED BY <2>1, <2>2, <1>1
  <1>3. PICK cut \in [0..m -> Nat] :
          /\ cut[0] = Got /\ cut[m] = server.sent
          /\ \A x \in 1..m : Carries(wire[x], version, key(first + x - 1), cut[x - 1], cut[x])
    <2>1. PICK cut \in [0..(m - 0) -> Nat] :
          /\ cut[0] = Got /\ cut[m - 0] = server.sent
          /\ \A x \in 1..(m - 0) : Carries(wire[0 + x], version, key(first + x - 1), cut[x - 1], cut[x])
      BY DEF ReplyLeft
    <2>2. \A x \in 1..m : 0 + x = x OBVIOUS
    <2> HIDE DEF key, m
    <2>3. QED BY <2>1, <2>2, <1>1
  <1> DEFINE c == cut[1]
             cut2 == [x \in 0..n |-> cut[x + 1]]
  <1>4. 1 \in 1..m /\ 1 \in 0..m /\ 1 - 1 = 0 /\ first + 1 - 1 = first BY <1>1
  <1>5. c \in Nat /\ Carries(wire[1], version, key(first), Got, c)
    <2> HIDE DEF key, m
    <2>1. Carries(wire[1], version, key(first + 1 - 1), cut[1 - 1], cut[1]) BY <1>3, <1>4
    <2>2. QED BY <2>1, <1>3, <1>4
  <1>6. wire[1].inner = "alert" => server.phase = "closed" /\ c = server.sent
    <2> HIDE DEF key, m
    <2>1. QED BY <1>2, <1>3, <1>4
  <1>7. ASSUME NEW x \in 1..n
        PROVE  /\ x + 1 \in 1..m /\ x \in 0..n /\ x - 1 \in 0..n /\ wire'[x] = wire[x + 1]
               /\ cut2[x] = cut[x + 1] /\ cut2[x - 1] = cut[x]
               /\ next + x - 1 = first + (x + 1) - 1 /\ (x + 1) - 1 = x
    <2>1. /\ x + 1 \in 1..m /\ x \in 0..n /\ x - 1 \in 0..n /\ x \in 1..(Len(wire) - 1)
          /\ next + x - 1 = first + (x + 1) - 1 /\ (x + 1) - 1 = x /\ (x - 1) + 1 = x
      BY <1>1
    <2>2. wire'[x] = wire[x + 1] BY <2>1 DEF WireTaken
    <2>3. cut2[x] = cut[x + 1] /\ cut2[x - 1] = cut[x] BY <2>1
    <2>4. QED BY <2>1, <2>2, <2>3
  <1>8. ASSUME NEW x \in 1..n
        PROVE  /\ Carries(wire'[x], version, key(next + x - 1), cut2[x - 1], cut2[x])
               /\ wire'[x].inner = "alert" => x = n /\ server'.phase = "closed"
    <2> DEFINE y == x + 1
    <2>1. y \in 1..m /\ wire'[x] = wire[y] /\ cut2[x] = cut[y] /\ cut2[x - 1] = cut[y - 1]
          /\ next + x - 1 = first + y - 1
      BY <1>7
    <2> HIDE DEF y, cut2, m, key
    <2>2. Carries(wire[y], version, key(first + y - 1), cut[y - 1], cut[y]) BY <2>1, <1>3
    <2>3. wire[y].inner = "alert" => y = m /\ server.phase = "closed" BY <2>1, <1>2
    <2>4. QED BY <2>1, <2>2, <2>3, <1>1 DEF y
  <1>9. /\ cut2 \in [0..n -> Nat] /\ cut2[0] = c /\ cut2[n] = server'.sent
    <2>1. \A x \in 0..n : x + 1 \in 0..m /\ cut[x + 1] \in Nat BY <1>1, <1>3
    <2>2. cut2 \in [0..n -> Nat] BY <2>1
    <2>3. 0 \in 0..n /\ n \in 0..n /\ 0 + 1 = 1 /\ n + 1 = m BY <1>1
    <2>4. cut2[0] = cut[0 + 1] /\ cut2[n] = cut[n + 1] BY <2>3
    <2>5. QED BY <2>2, <2>3, <2>4, <1>3
  <1>10. server'.phase # "closed" =>
           server'.enc = IF version = "1.2" /\ server'.phase = "hello" THEN NoKey
                         ELSE key(next + n)
    <2>1. next + n = first + m BY <1>1
    <2> HIDE DEF key, m, n
    <2>2. QED BY <2>1, <1>2
  <1>11. ASSUME Got' = c PROVE ReplyLeft(version, 0, next)'
    <2> HIDE DEF c, cut2, key, n
    <2>1. \A x \in 1..n : 0 + x = x OBVIOUS
    <2>2. /\ n - 0 >= 0
          /\ server'.phase # "closed" =>
               server'.enc = IF version = "1.2" /\ server'.phase = "hello" THEN NoKey
                             ELSE key(next + (n - 0))
          /\ \A x \in 1..(n - 0) : wire'[0 + x].inner = "alert" => x = n - 0 /\ server'.phase = "closed"
          /\ cut2 \in [0..(n - 0) -> Nat] /\ cut2[0] = Got' /\ cut2[n - 0] = server'.sent
          /\ \A x \in 1..(n - 0) : Carries(wire'[0 + x], version, key(next + x - 1), cut2[x - 1], cut2[x])
      <3>1. n - 0 = n /\ n - 0 >= 0 BY <1>1 DEF n
      <3>2. ASSUME NEW x \in 1..(n - 0)
            PROVE  /\ Carries(wire'[0 + x], version, key(next + x - 1), cut2[x - 1], cut2[x])
                   /\ wire'[0 + x].inner = "alert" => x = n - 0 /\ server'.phase = "closed"
        <4>1. x \in 1..n /\ 0 + x = x BY <3>1, <2>1
        <4>2. QED BY <4>1, <3>1, <1>8
      <3>3. QED BY <3>1, <3>2, <1>9, <1>10, <1>11
    <2>3. QED BY <2>2 DEF ReplyLeft, key, n
  <1> HIDE DEF c
  <1>12. QED BY <1>5, <1>6, <1>11

(* and when the server puts the next record behind it.                     *)
LEMMA ReplyGrows ==
  ASSUME NEW version, NEW h \in Nat, NEW first \in Nat, ReplyLeft(version, h, first),
         IsSequence(wire), NEW r, wire' = Append(wire, r),
         server.phase # "closed", ~(version = "1.2" /\ server.phase = "hello"),
         Carries(r, version, server.enc, server.sent, server'.sent), server'.sent \in Nat,
         r.inner = "alert" => server'.phase = "closed",
         PhaseStands(version) \/ server'.phase = "closed",
         \A n \in Nat : server.enc = Nth(DataKey(version, "server"), n) /\ server'.phase # "closed" =>
                          server'.enc = Nth(DataKey(version, "server"), n + 1),
         Got' = Got
  PROVE  ReplyLeft(version, h, first)'
  <1> DEFINE key(x) == Nth(DataKey(version, "server"), x)
             m == Len(wire) - h
             n == Len(wire') - h
  <1>1. /\ m >= 0 /\ server.enc = key(first + m)
        /\ \A x \in 1..m : wire[h + x].inner = "alert" => x = m /\ server.phase = "closed"
    BY DEF ReplyLeft
  <1>2. PICK cut \in [0..m -> Nat] :
          /\ cut[0] = Got /\ cut[m] = server.sent
          /\ \A x \in 1..m : Carries(wire[h + x], version, key(first + x - 1), cut[x - 1], cut[x])
    BY DEF ReplyLeft
  <1>3. /\ Len(wire) \in Nat /\ Len(wire') = Len(wire) + 1
        /\ \A i \in 1..Len(wire) : wire'[i] = wire[i]
        /\ wire'[Len(wire) + 1] = r
    BY AppendOf, Shape
  <1>4. m \in Nat /\ n = m + 1 /\ n >= 0 /\ h + n = Len(wire) + 1 BY <1>1, <1>3
  <1> DEFINE cut2 == [x \in 0..n |-> IF x = n THEN server'.sent ELSE cut[x]]
  <1>5. cut2 \in [0..n -> Nat] /\ cut2[0] = Got' /\ cut2[n] = server'.sent
        /\ \A x \in 0..m : cut2[x] = cut[x]
    <2>1. \A x \in 0..n : x # n => x \in 0..m BY <1>4
    <2>2. cut2 \in [0..n -> Nat] BY <2>1, <1>2
    <2>3. 0 \in 0..n /\ 0 # n /\ n \in 0..n BY <1>4
    <2>4. \A x \in 0..m : x \in 0..n /\ x # n BY <1>4
    <2>5. QED BY <2>2, <2>3, <2>4, <1>2
  <1>6. ASSUME NEW x \in 1..n
        PROVE  /\ Carries(wire'[h + x], version, key(first + x - 1), cut2[x - 1], cut2[x])
               /\ wire'[h + x].inner = "alert" => x = n /\ server'.phase = "closed"
    <2>1. CASE x \in 1..m
      <3>1. h + x \in 1..Len(wire) /\ x \in 0..m /\ x - 1 \in 0..m BY <2>1, <1>4, <1>3
      <3>2. wire'[h + x] = wire[h + x] /\ cut2[x] = cut[x] /\ cut2[x - 1] = cut[x - 1]
        BY <3>1, <1>3, <1>5
      <3> HIDE DEF cut2, key, m, n
      <3>3. QED BY <3>2, <2>1, <1>1, <1>2
    <2>2. CASE x = n
      <3>1. wire'[h + x] = r /\ x - 1 = m /\ m \in 0..m /\ first + x - 1 = first + m
        BY <2>2, <1>3, <1>4
      <3>2. cut2[x - 1] = server.sent /\ cut2[x] = server'.sent BY <3>1, <2>2, <1>2, <1>5
      <3> HIDE DEF cut2, key, m, n
      <3>3. QED BY <3>1, <3>2, <2>2, <1>1
    <2>3. x \in 1..m \/ x = n BY <1>4
    <2>4. QED BY <2>1, <2>2, <2>3
  <1>7. server'.phase # "closed" =>
          server'.enc = IF version = "1.2" /\ server'.phase = "hello" THEN NoKey ELSE key(first + n)
    <2>1. first + m \in Nat /\ (first + m) + 1 = first + n BY <1>4
    <2> DEFINE i == first + m
    <2>2. i \in Nat /\ i + 1 = first + n /\ server.enc = key(i) BY <2>1, <1>1
    <2> HIDE DEF i, m, n
    <2>3. QED BY <2>2 DEF PhaseStands
  <1> HIDE DEF cut2, m
  <1>8. QED BY <1>4, <1>5, <1>6, <1>7 DEF ReplyLeft

(* A step of the server leaves the client where it is in the handshake.    *)
LEMMA Front13Stands ==
  ASSUME NEW h \in Nat, NEW first \in Nat, Front13(h, first), WireStands(h), client' = client,
         NothingRead => NothingRead'
  PROVE  Front13(h, first)'
  <1>1. CASE /\ client = Greeted /\ first = 0 /\ NothingRead
             /\ wire[1] = Plain("handshake", <<Msg("ServerHello13")>>)
             /\ \E b \in {1, 2} : (b = 2 => wire[2] = ChangeCipherSpec) /\ FlightLeft(b, h, 0, 0)
    <2>1. PICK b \in {1, 2} : (b = 2 => wire[2] = ChangeCipherSpec) /\ FlightLeft(b, h, 0, 0)
      BY <1>1
    <2>2. b \in Nat /\ 0 \in Nat /\ b <= h
      <3>1. b <= h BY <2>1 DEF FlightLeft
      <3>2. QED BY <3>1
    <2>3. FlightLeft(b, h, 0, 0)' BY <2>1, <2>2, FlightStands
    <2>4. wire'[1] = wire[1] /\ (b = 2 => wire'[2] = wire[2])
      <3>1. 1 \in 1..h /\ (b = 2 => 2 \in 1..h) BY <2>2
      <3>2. QED BY <3>1 DEF WireStands
    <2>5. QED BY <1>1, <2>1, <2>3, <2>4 DEF Front13
  <1>2. CASE /\ first = 0 /\ NothingRead
             /\ \E b \in {0, 1}, e \in 0..4, j \in Nat :
                  /\ client = Reading13(e, j)
                  /\ b = 1 => e = 0 /\ wire[1] = ChangeCipherSpec
                  /\ FlightLeft(b, h, e, j)
    <2>1. PICK b \in {0, 1}, e \in 0..4, j \in Nat :
                  /\ client = Reading13(e, j)
                  /\ b = 1 => e = 0 /\ wire[1] = ChangeCipherSpec
                  /\ FlightLeft(b, h, e, j)
      BY <1>2
    <2>2. b \in Nat /\ b <= h
      <3>1. b <= h BY <2>1 DEF FlightLeft
      <3>2. QED BY <3>1
    <2>3. FlightLeft(b, h, e, j)' BY <2>1, <2>2, FlightStands
    <2>4. b = 1 => wire'[1] = wire[1]
      <3>1. b = 1 => 1 \in 1..h BY <2>2
      <3>2. QED BY <3>1 DEF WireStands
    <2>5. QED BY <1>2, <2>1, <2>3, <2>4 DEF Front13
  <1>3. CASE /\ h = 0
             /\ \E state \in {"Open", "asked", "dropped"}, w \in Nat :
                  client = Talking("1.3", state, w, first)
    BY <1>3 DEF Front13
  <1>4. QED BY <1>1, <1>2, <1>3 DEF Front13

LEMMA Front12Stands ==
  ASSUME NEW h \in Nat, NEW first \in Nat, Front12(h, first), WireStands(h), client' = client,
         NothingRead => NothingRead', PhaseStands("1.2") \/ server'.phase = "closed",
         server.phase \in {"hello", "closed"} => Len(wire') = Len(wire)
  PROVE  Front12(h, first)'
  <1>1. /\ server.phase # "hello" => server'.phase # "hello"
        /\ server.phase \in {"hello", "closed"} => server'.phase \in {"hello", "closed"}
    BY DEF PhaseStands
  <1>2. CASE /\ server.phase \in {"hello", "closed"} /\ Len(wire) = h /\ first = 1 /\ NothingRead
             /\ \/ \E e \in 0..3 :
                     /\ client = Reading12(e) /\ h = 4 - e
                     /\ \A x \in 1..h : wire[x] = Plain("handshake", <<Msg(Flight12[e + x])>>)
                \/ client = Talking("1.2", "ChangeCipher", 1, 0) /\ h = 0
    <2>1. Len(wire') = h /\ server'.phase \in {"hello", "closed"} BY <1>1, <1>2
    <2>2. CASE client = Talking("1.2", "ChangeCipher", 1, 0) /\ h = 0
      BY <1>2, <2>1, <2>2 DEF Front12
    <2>3. CASE \E e \in 0..3 :
                 /\ client = Reading12(e) /\ h = 4 - e
                 /\ \A x \in 1..h : wire[x] = Plain("handshake", <<Msg(Flight12[e + x])>>)
      <3>1. PICK e \in 0..3 :
                 /\ client = Reading12(e) /\ h = 4 - e
                 /\ \A x \in 1..h : wire[x] = Plain("handshake", <<Msg(Flight12[e + x])>>)
        BY <2>3
      <3>2. \A x \in 1..h : wire'[x] = Plain("handshake", <<Msg(Flight12[e + x])>>)
        BY <3>1 DEF WireStands
      <3>3. QED BY <1>2, <2>1, <3>1, <3>2 DEF Front12
    <2>4. QED BY <1>2, <2>2, <2>3
  <1>3. CASE /\ server.phase # "hello" /\ first = 1 /\ NothingRead
             /\ \/ client = Talking("1.2", "ChangeCipher", 1, 0) /\ h = 2 /\ wire[1] = ChangeCipherSpec
                \/ client = Talking("1.2", "Finished", 1, 0) /\ h = 1
             /\ h <= Len(wire) /\ wire[h] = ServerFinished12
    <2>1. h >= 1 /\ 1 \in 1..h /\ h \in 1..h BY <1>3
    <2>2. wire'[1] = wire[1] /\ wire'[h] = wire[h] /\ h <= Len(wire') BY <2>1 DEF WireStands
    <2>3. QED BY <1>1, <1>3, <2>2 DEF Front12
  <1>4. CASE /\ h = 0 /\ server.phase # "hello"
             /\ \E state \in {"Open", "asked", "dropped"}, w \in Nat :
                  w >= 1 /\ client = Talking("1.2", state, w, first)
    BY <1>1, <1>4 DEF Front12
  <1>5. QED BY <1>2, <1>3, <1>4 DEF Front12

(* So what is on its way to the client fits it after the server's step,    *)
(* with the same wire or with one record more.                             *)
LEMMA InStands ==
  ASSUME NEW version \in {"1.3", "1.2"}, Inbound(version), IsSequence(wire), client' = client,
         NothingRead => NothingRead', Got' = Got, wire' = wire,
         server'.enc = server.enc, server'.sent = server.sent,
         PhaseStands(version) \/ server'.phase = "closed"
  PROVE  Inbound(version)'
  <1>1. PICK h \in Nat, first \in Nat :
          /\ IF version = "1.3" THEN Front13(h, first) ELSE Front12(h, first)
          /\ ReplyLeft(version, h, first)
    BY DEF Inbound
  <1>2. WireStands(h)
    <2>1. Len(wire) \in Nat BY Shape
    <2>2. h <= Len(wire) BY <1>1, <2>1 DEF ReplyLeft
    <2>3. QED BY <2>1, <2>2 DEF WireStands
  <1>3. ReplyLeft(version, h, first)' BY <1>1, ReplyStands
  <1>4. IF version = "1.3" THEN Front13(h, first)' ELSE Front12(h, first)'
    BY <1>1, <1>2, Front13Stands, Front12Stands
  <1>5. QED BY <1>3, <1>4 DEF Inbound

LEMMA InGrows ==
  ASSUME NEW version \in {"1.3", "1.2"}, Inbound(version), IsSequence(wire), client' = client,
         NothingRead => NothingRead', Got' = Got, NEW r, wire' = Append(wire, r),
         server.phase # "closed", ~(version = "1.2" /\ server.phase = "hello"),
         Carries(r, version, server.enc, server.sent, server'.sent), server'.sent \in Nat,
         r.inner = "alert" => server'.phase = "closed",
         PhaseStands(version) \/ server'.phase = "closed",
         \A n \in Nat : server.enc = Nth(DataKey(version, "server"), n) /\ server'.phase # "closed" =>
                          server'.enc = Nth(DataKey(version, "server"), n + 1)
  PROVE  Inbound(version)'
  <1>1. PICK h \in Nat, first \in Nat :
          /\ IF version = "1.3" THEN Front13(h, first) ELSE Front12(h, first)
          /\ ReplyLeft(version, h, first)
    BY DEF Inbound
  <1>2. WireStands(h)
    <2>1. Len(wire) \in Nat /\ Len(wire') = Len(wire) + 1 /\ \A i \in 1..Len(wire) : wire'[i] = wire[i]
      BY Shape, AppendOf
    <2>2. h <= Len(wire) BY <1>1, <2>1 DEF ReplyLeft
    <2>3. QED BY <2>1, <2>2 DEF WireStands
  <1>3. ReplyLeft(version, h, first)' BY <1>1, ReplyGrows
  <1>4. CASE version = "1.3" BY <1>1, <1>2, <1>3, <1>4, Front13Stands DEF Inbound
  <1>5. CASE version = "1.2"
    <2>1. server.phase \notin {"hello", "closed"} BY <1>5
    <2>2. Front12(h, first)' BY <1>1, <1>2, <1>5, <2>1, Front12Stands
    <2>3. QED BY <1>3, <1>5, <2>2 DEF Inbound
  <1>6. QED BY <1>4, <1>5

(***************************************************************************)
(* What is on its way to the server.                                       *)
(***************************************************************************)
LEMMA OutStands ==
  ASSUME NEW version, Outbound(version), outgoing' = outgoing, Sent' = Sent,
         \/ /\ server'.phase = server.phase /\ server'.transcript = server.transcript
            /\ server'.dec = server.dec
         \/ server'.phase = "closed"
  PROVE  Outbound(version)'
  <1>1. CASE server'.phase = "closed" BY <1>1 DEF Outbound
  <1>2. CASE server'.phase # "closed"
    <2>1. server'.phase = server.phase /\ server'.transcript = server.transcript /\ server'.dec = server.dec
      BY <1>2
    <2>2. PICK k \in Nat :
            /\ k + Len(outgoing) = Sent /\ Expects(version, k)
            /\ \A x \in 1..Len(outgoing) : IsSent(version, k + x, outgoing[x])
      BY <1>2, <2>1 DEF Outbound
    <2>3. Expects(version, k)' BY <2>1, <2>2 DEF Expects
    <2>4. QED BY <2>2, <2>3 DEF Outbound
  <1>3. QED BY <1>1, <1>2

(* What is on its way to the server fits it after the client has sent      *)
(* more,                                                                   *)
LEMMA OutGrows ==
  ASSUME NEW version, Outbound(version), IsSequence(outgoing), server' = server,
         NEW records, IsSequence(records), outgoing' = outgoing \o records,
         Sent \in Nat, Sent' = Sent + Len(records),
         \A x \in 1..Len(records) : IsSent(version, Sent + x, records[x])
  PROVE  Outbound(version)'
  <1>1. CASE server.phase = "closed" BY <1>1 DEF Outbound
  <1>2. CASE server.phase # "closed"
    <2>1. PICK k \in Nat :
            /\ k + Len(outgoing) = Sent /\ Expects(version, k)
            /\ \A x \in 1..Len(outgoing) : IsSent(version, k + x, outgoing[x])
      BY <1>2 DEF Outbound
    <2>2. Expects(version, k)' BY <2>1 DEF Expects
    <2>3. /\ Len(outgoing) \in Nat /\ Len(records) \in Nat
          /\ Len(outgoing') = Len(outgoing) + Len(records)
          /\ \A i \in 1..Len(outgoing) : outgoing'[i] = outgoing[i]
          /\ \A i \in 1..Len(records) : outgoing'[Len(outgoing) + i] = records[i]
      BY ConcatOf, Shape
    <2>4. ASSUME NEW x \in 1..Len(outgoing') PROVE IsSent(version, k + x, outgoing'[x])
      <3>1. CASE x \in 1..Len(outgoing) BY <3>1, <2>1, <2>3
      <3>2. CASE x \notin 1..Len(outgoing)
        <4> DEFINE y == x - Len(outgoing)
        <4>1. y \in 1..Len(records) /\ Len(outgoing) + y = x /\ Sent + y = k + x
          <5> DEFINE n == Len(outgoing)
                     m == Len(records)
                     l == Len(outgoing')
                     s == Sent
          <5>1. /\ n \in Nat /\ m \in Nat /\ l = n + m /\ k + n = s /\ k \in Nat
                /\ x \in 1..l /\ x \notin 1..n /\ y = x - n
            BY <3>2, <2>1, <2>3
          <5> HIDE DEF n, m, l, s, y
          <5>2. y \in 1..m /\ n + y = x /\ s + y = k + x BY ONLY <5>1
          <5>3. QED BY <5>2 DEF n, m, s
        <4>2. outgoing'[x] = records[y]
          <5>1. outgoing'[Len(outgoing) + y] = records[y] BY <4>1, <2>3
          <5>2. QED BY <5>1, <4>1
        <4>3. IsSent(version, Sent + y, records[y]) BY <4>1
        <4>4. QED BY <4>1, <4>2, <4>3
      <3>3. QED BY <3>1, <3>2
    <2>5. k + Len(outgoing') = Sent'
      <3> DEFINE n == Len(outgoing)
                 m == Len(records)
                 l == Len(outgoing')
                 s == Sent
                 t == Sent'
      <3>1. n \in Nat /\ m \in Nat /\ l = n + m /\ k + n = s /\ t = s + m /\ s \in Nat BY <2>1, <2>3
      <3> HIDE DEF n, m, l, s, t
      <3>2. k + l = t BY ONLY <3>1, k \in Nat
      <3>3. QED BY <3>2 DEF l, t
    <2>6. QED BY <2>2, <2>4, <2>5 DEF Outbound
  <1>3. QED BY <1>1, <1>2

(* and after the server has taken what it expects.                         *)
LEMMA OutTaken ==
  ASSUME NEW version, Outbound(version), IsSequence(outgoing), outgoing # <<>>, server.phase # "closed",
         outgoing' = Tail(outgoing), Sent' = Sent
  PROVE  \E k \in Nat :
           /\ Expects(version, k) /\ IsSent(version, k + 1, outgoing[1])
           /\ \A n \in Nat : n = k + 1 /\ Expects(version, n)' => Outbound(version)'
           /\ Sent # 0
  <1>1. PICK k \in Nat :
          /\ k + Len(outgoing) = Sent /\ Expects(version, k)
          /\ \A x \in 1..Len(outgoing) : IsSent(version, k + x, outgoing[x])
    BY DEF Outbound
  <1>2. /\ Len(outgoing') = Len(outgoing) - 1 /\ Len(outgoing) \in Nat \ {0}
        /\ \A i \in 1..(Len(outgoing) - 1) : outgoing'[i] = outgoing[i + 1]
    BY TailOf
  <1>3. IsSent(version, k + 1, outgoing[1])
    <2>1. 1 \in 1..Len(outgoing) BY <1>2
    <2>2. QED BY <2>1, <1>1
  <1>4. ASSUME NEW n \in Nat, n = k + 1, Expects(version, n)' PROVE Outbound(version)'
    <2>1. n + Len(outgoing') = Sent' BY <1>1, <1>2, <1>4
    <2>2. ASSUME NEW x \in 1..Len(outgoing') PROVE IsSent(version, n + x, outgoing'[x])
      <3>1. x + 1 \in 1..Len(outgoing) /\ outgoing'[x] = outgoing[x + 1] /\ k + (x + 1) = n + x
        BY <1>2, <1>4
      <3> DEFINE y == x + 1
      <3>2. IsSent(version, k + y, outgoing[y])
        <4> HIDE DEF y
        <4>1. QED BY <1>1, <3>1 DEF y
      <3>3. QED BY <3>1, <3>2
    <2>3. QED BY <2>1, <2>2, <1>4 DEF Outbound
  <1>5. Sent # 0 BY <1>1, <1>2
  <1>6. QED BY <1>1, <1>3, <1>4, <1>5

(* Nothing has been sent after the hello in the handshake, and two records *)
(* and one for each use of the key when the client talks.                  *)
LEMMA SentIs ==
  /\ SentAs(Fresh) = 0 /\ SentAs(Greeted) = 0
  /\ \A e, j : SentAs(Reading13(e, j)) = 0
  /\ \A e \in 0..3 : SentAs(Reading12(e)) = 0
  <1>1. \A state, version, t, enc, dec : State(state, version, t, enc, dec).enc = enc BY DEF State
  <1>2. NoKey.stage = "none" /\ Handshake13("client").stage = "handshake" BY FirstKeys
  <1> DEFINE k == Handshake13("client")
  <1> HIDE DEF k
  <1>3. \A state, version, t, dec : /\ SentAs(State(state, version, t, NoKey, dec)) = 0
                                    /\ SentAs(State(state, version, t, k, dec)) = 0
    BY <1>1, <1>2 DEF SentAs, k
  <1>4. SentAs(Fresh) = 0 /\ SentAs(Greeted) = 0 BY <1>3 DEF Fresh, Greeted
  <1>5. \A e, j : SentAs(Reading13(e, j)) = 0 BY <1>3, Zenon DEF Reading13, k
  <1>6. ASSUME NEW e \in 0..3 PROVE SentAs(Reading12(e)) = 0
    <2> DEFINE c == Reading12(e)
    <2>1. c.enc = NoKey BY Reading12Is
    <2> HIDE DEF c
    <2>2. SentAs(c) = 0 BY <2>1, <1>2 DEF SentAs
    <2>3. QED BY <2>2 DEF c
  <1>7. QED BY <1>4, <1>5, <1>6

LEMMA SentTalking ==
  ASSUME NEW version \in {"1.3", "1.2"}, NEW state, NEW w \in Nat, NEW r \in Nat,
         NEW c, c = Talking(version, state, w, r)
  PROVE  SentAs(c) = w + 2
  <1> DEFINE key == Nth(DataKey(version, "client"), w)
  <1>1. c.enc = key BY TalkingIs
  <1>2. key.seq = w /\ key.stage \in {"data", "1.2"} BY KeysAre
  <1> HIDE DEF key
  <1>3. QED BY <1>1, <1>2 DEF SentAs

(* The states of the clients that stand in the handshake.                  *)
LEMMA StatesAre ==
  /\ Fresh.state = "start" /\ Fresh.error = "none"
  /\ Greeted.state = "ServerHello" /\ Greeted.error = "none"
  /\ \A e \in 0..4, j \in Nat :
       /\ Reading13(e, j).error = "none" /\ (e = 4 <=> Reading13(e, j).state = "Complete")
       /\ Reading13(e, j).state \notin {"start", "Open", "asked", "dropped", "ServerHelloDone", "ServerHello"}
  /\ \A e \in 0..3 :
       /\ Reading12(e).error = "none" /\ (e = 3 <=> Reading12(e).state = "ServerHelloDone")
       /\ Reading12(e).state \notin {"start", "Complete", "Open", "asked", "dropped"}
  <1>1. Fresh.state = "start" /\ Fresh.error = "none" BY DEF Fresh, State
  <1>2. Greeted.state = "ServerHello" /\ Greeted.error = "none" BY DEF Greeted, State
  <1>3. ASSUME NEW e \in 0..4, NEW j \in Nat
        PROVE  /\ Reading13(e, j).error = "none" /\ (e = 4 <=> Reading13(e, j).state = "Complete")
               /\ Reading13(e, j).state \notin {"start", "Open", "asked", "dropped", "ServerHelloDone", "ServerHello"}
    <2> DEFINE c == Reading13(e, j)
    <2>1. c.state = (IF e = 4 THEN "Complete" ELSE Flight13[e + 1]) /\ c.error = "none"
      BY Reading13Is
    <2>2. e # 4 => Flight13[e + 1] \in {"EncryptedExtensions", "Certificate", "CertificateVerify", "Finished"}
      <3>1. e = 0 \/ e = 1 \/ e = 2 \/ e = 3 \/ e = 4 OBVIOUS
      <3>2. QED BY <3>1 DEF Flight13
    <2> HIDE DEF c
    <2>3. c.error = "none" /\ (e = 4 <=> c.state = "Complete")
          /\ c.state \notin {"start", "Open", "asked", "dropped", "ServerHelloDone", "ServerHello"}
      BY <2>1, <2>2
    <2>4. QED BY <2>3 DEF c
  <1>4. ASSUME NEW e \in 0..3
        PROVE  /\ Reading12(e).error = "none" /\ (e = 3 <=> Reading12(e).state = "ServerHelloDone")
               /\ Reading12(e).state \notin {"start", "Complete", "Open", "asked", "dropped"}
    <2> DEFINE c == Reading12(e)
    <2>1. /\ c.error = "none" /\ c.state \notin {"start", "Complete", "Open", "asked", "dropped"}
          /\ e = 0 => c.state = "ServerHello" /\ c.version = "1.3"
          /\ e = 1 => c.state = "AnyCertificate" /\ c.version = "1.2"
          /\ e = 2 => c.state = "ServerKeyExchange" /\ c.version = "1.2"
          /\ e = 3 => c.state = "ServerHelloDone" /\ c.version = "1.2"
      BY Reading12Is
    <2>2. e = 0 \/ e = 1 \/ e = 2 \/ e = 3 OBVIOUS
    <2> HIDE DEF c
    <2>3. c.error = "none" /\ (e = 3 <=> c.state = "ServerHelloDone")
          /\ c.state \notin {"start", "Complete", "Open", "asked", "dropped"}
      BY <2>1, <2>2
    <2>4. QED BY <2>3 DEF c
  <1>5. QED BY <1>1, <1>2, <1>3, <1>4

(* A client that talks, whatever it talks with.                            *)
LEMMA TalkingState ==
  ASSUME NEW version \in {"1.3", "1.2"}, NEW state, NEW w \in Nat, NEW r \in Nat,
         NEW c, c = Talking(version, state, w, r)
  PROVE  c.state = state /\ c.error = "none" /\ c.version = version
  BY TalkingIs

(* A client that is open has read all of the handshake, and stays so.      *)
LEMMA TalkingFront ==
  ASSUME NEW version \in {"1.3", "1.2"}, Inbound(version),
         client.state \in {"Open", "asked", "dropped"}
  PROVE  \E first \in Nat, w \in Nat :
           /\ client = Talking(version, client.state, w, first) /\ ReplyLeft(version, 0, first)
           /\ version = "1.2" => w >= 1 /\ server.phase # "hello"
  <1>1. PICK h \in Nat, first \in Nat :
          /\ IF version = "1.3" THEN Front13(h, first) ELSE Front12(h, first)
          /\ ReplyLeft(version, h, first)
    BY DEF Inbound
  <1>a. "1.2" \in {"1.3", "1.2"} /\ 0 \in Nat /\ 1 \in Nat OBVIOUS
  <1>b. \A state, w : w \in Nat => /\ client = Talking("1.3", state, w, first) => client.state = state
                                   /\ client = Talking("1.2", state, w, first) => client.state = state
    BY TalkingState
  <1>c. \A state : client = Talking("1.2", state, 1, 0) => client.state = state
    BY <1>a, TalkingState
  <1>2. CASE version = "1.3"
    <2>1. h = 0 /\ \E state \in {"Open", "asked", "dropped"}, w \in Nat :
                     client = Talking("1.3", state, w, first)
      <3>1. Front13(h, first) BY <1>1, <1>2
      <3>2. client # Greeted BY StatesAre
      <3>3. \A e \in 0..4, j \in Nat : client # Reading13(e, j) BY StatesAre
      <3>4. QED BY <3>1, <3>2, <3>3, Zenon DEF Front13
    <2>2. QED BY <2>1, <1>1, <1>2, <1>b
  <1>3. CASE version = "1.2"
    <2>1. h = 0 /\ server.phase # "hello" /\ \E state \in {"Open", "asked", "dropped"}, w \in Nat :
                     w >= 1 /\ client = Talking("1.2", state, w, first)
      <3>1. Front12(h, first) BY <1>1, <1>3
      <3>2. \A e \in 0..3 : client # Reading12(e) BY StatesAre
      <3>3. client # Talking("1.2", "ChangeCipher", 1, 0) /\ client # Talking("1.2", "Finished", 1, 0)
        BY <1>c
      <3>4. QED BY <3>1, <3>2, <3>3, Zenon DEF Front12
    <2>2. QED BY <2>1, <1>1, <1>3, <1>b
  <1>4. QED BY <1>2, <1>3

LEMMA TalkingGoesOn ==
  ASSUME NEW version \in {"1.3", "1.2"}, NEW first \in Nat, NEW w \in Nat,
         NEW state \in {"Open", "asked", "dropped"},
         client' = Talking(version, state, w, first), ReplyLeft(version, 0, first)',
         version = "1.2" => w >= 1 /\ server'.phase # "hello"
  PROVE  Inbound(version)'
  <1>1. CASE version = "1.3"
    <2>1. Front13(0, first)' BY <1>1 DEF Front13
    <2>2. QED BY <2>1, <1>1 DEF Inbound
  <1>2. CASE version = "1.2"
    <2>1. Front12(0, first)' BY <1>2 DEF Front12
    <2>2. QED BY <2>1, <1>2 DEF Inbound
  <1>3. QED BY <1>1, <1>2

(* Adding nothing.                                                         *)
LEMMA AddNothing ==
  ASSUME NEW s, IsSequence(s)
  PROVE  s \o <<>> = s
  BY DEF IsSequence

(* A client that is not open yet is in the handshake, and has read nothing *)
(* of a reply.                                                             *)
LEMMA FrontOf13 ==
  ASSUME NEW h \in Nat, NEW first \in Nat, Front13(h, first)
  PROVE  /\ client.error = "none" /\ client.state \notin {"start", "ServerHelloDone"}
         /\ client.state \notin {"Open", "asked", "dropped"} =>
              /\ first = 0 /\ NothingRead
              /\ \/ /\ client = Greeted /\ wire[1] = Plain("handshake", <<Msg("ServerHello13")>>)
                    /\ \E b \in {1, 2} : (b = 2 => wire[2] = ChangeCipherSpec) /\ FlightLeft(b, h, 0, 0)
                 \/ \E b \in {0, 1}, e \in 0..4, j \in Nat :
                      /\ client = Reading13(e, j)
                      /\ b = 1 => e = 0 /\ wire[1] = ChangeCipherSpec
                      /\ FlightLeft(b, h, e, j)
  <1>a. "1.3" \in {"1.3", "1.2"} OBVIOUS
  <1>1. \A state, w : w \in Nat /\ client = Talking("1.3", state, w, first) =>
                        client.state = state /\ client.error = "none"
    BY <1>a, TalkingState
  <1>2. (\E state \in {"Open", "asked", "dropped"}, w \in Nat : client = Talking("1.3", state, w, first))
          => client.state \in {"Open", "asked", "dropped"} /\ client.error = "none"
    BY <1>1
  <1>3. client = Greeted => client.state = "ServerHello" /\ client.error = "none" BY StatesAre
  <1>4. \A e \in 0..4, j \in Nat : client = Reading13(e, j) =>
          /\ client.error = "none" /\ client.state \notin {"start", "ServerHelloDone"}
    BY StatesAre
  <1>5. client.error = "none" /\ client.state \notin {"start", "ServerHelloDone"}
    <2>1. \/ client = Greeted
          \/ \E e \in 0..4, j \in Nat : client = Reading13(e, j)
          \/ \E state \in {"Open", "asked", "dropped"}, w \in Nat : client = Talking("1.3", state, w, first)
      BY Zenon DEF Front13
    <2>2. QED BY <2>1, <1>2, <1>3, <1>4
  <1>6. client.state \notin {"Open", "asked", "dropped"} =>
              /\ first = 0 /\ NothingRead
              /\ \/ /\ client = Greeted /\ wire[1] = Plain("handshake", <<Msg("ServerHello13")>>)
                    /\ \E b \in {1, 2} : (b = 2 => wire[2] = ChangeCipherSpec) /\ FlightLeft(b, h, 0, 0)
                 \/ \E b \in {0, 1}, e \in 0..4, j \in Nat :
                      /\ client = Reading13(e, j)
                      /\ b = 1 => e = 0 /\ wire[1] = ChangeCipherSpec
                      /\ FlightLeft(b, h, e, j)
    BY <1>2, Zenon DEF Front13
  <1>7. QED BY <1>5, <1>6

LEMMA FrontOf12 ==
  ASSUME NEW h \in Nat, NEW first \in Nat, Front12(h, first)
  PROVE  /\ client.error = "none" /\ client.state \notin {"start", "Complete"}
         /\ client.state \notin {"Open", "asked", "dropped"} =>
              /\ first = 1 /\ NothingRead
              /\ \/ /\ server.phase \in {"hello", "closed"} /\ Len(wire) = h
                    /\ \/ \E e \in 0..3 :
                            /\ client = Reading12(e) /\ h = 4 - e
                            /\ \A x \in 1..h : wire[x] = Plain("handshake", <<Msg(Flight12[e + x])>>)
                       \/ client = Talking("1.2", "ChangeCipher", 1, 0) /\ h = 0
                 \/ /\ server.phase # "hello"
                    /\ \/ client = Talking("1.2", "ChangeCipher", 1, 0) /\ h = 2 /\ wire[1] = ChangeCipherSpec
                       \/ client = Talking("1.2", "Finished", 1, 0) /\ h = 1
                    /\ h <= Len(wire) /\ wire[h] = ServerFinished12
  <1>a. "1.2" \in {"1.3", "1.2"} /\ 0 \in Nat /\ 1 \in Nat OBVIOUS
  <1>1. \A state, w : w \in Nat /\ client = Talking("1.2", state, w, first) =>
                        client.state = state /\ client.error = "none"
    BY <1>a, TalkingState
  <1>b. \A state : client = Talking("1.2", state, 1, 0) => client.state = state /\ client.error = "none"
    BY <1>a, TalkingState
  <1>2. (\E state \in {"Open", "asked", "dropped"}, w \in Nat : client = Talking("1.2", state, w, first))
          => client.state \in {"Open", "asked", "dropped"} /\ client.error = "none"
    BY <1>1
  <1>4. \A e \in 0..3 : client = Reading12(e) =>
          /\ client.error = "none" /\ client.state \notin {"start", "Complete"}
    BY StatesAre
  <1>5. client.error = "none" /\ client.state \notin {"start", "Complete"}
    <2>1. \/ \E e \in 0..3 : client = Reading12(e)
          \/ client = Talking("1.2", "ChangeCipher", 1, 0)
          \/ client = Talking("1.2", "Finished", 1, 0)
          \/ \E state \in {"Open", "asked", "dropped"}, w \in Nat : client = Talking("1.2", state, w, first)
      BY Zenon DEF Front12
    <2>2. QED BY <2>1, <1>2, <1>b, <1>4
  <1>6. client.state \notin {"Open", "asked", "dropped"} =>
              /\ first = 1 /\ NothingRead
              /\ \/ /\ server.phase \in {"hello", "closed"} /\ Len(wire) = h
                    /\ \/ \E e \in 0..3 :
                            /\ client = Reading12(e) /\ h = 4 - e
                            /\ \A x \in 1..h : wire[x] = Plain("handshake", <<Msg(Flight12[e + x])>>)
                       \/ client = Talking("1.2", "ChangeCipher", 1, 0) /\ h = 0
                 \/ /\ server.phase # "hello"
                    /\ \/ client = Talking("1.2", "ChangeCipher", 1, 0) /\ h = 2 /\ wire[1] = ChangeCipherSpec
                       \/ client = Talking("1.2", "Finished", 1, 0) /\ h = 1
                    /\ h <= Len(wire) /\ wire[h] = ServerFinished12
    BY <1>2, Zenon DEF Front12
  <1>7. QED BY <1>5, <1>6

(* The client's steps.  A record of the handshake is taken, of TLS 1.3 and *)
(* of TLS 1.2; the client's Finished is sent.                              *)
LEMMA TakesHandshake13 ==
  ASSUME IsSequence(wire), IsSequence(outgoing), Inbound("1.3"), Outbound("1.3"), TakeHandshakeRecord
  PROVE  Inbound("1.3")' /\ Outbound("1.3")'
  <1>1. PICK h \in Nat, first \in Nat : Front13(h, first) /\ ReplyLeft("1.3", h, first)
    BY DEF Inbound
  <1>2. /\ client.state \notin {"start", "Complete", "Open", "asked", "dropped"}
        /\ wire # <<>> /\ wire' = Tail(wire) /\ client' = HandleRecord(client, wire[1])
        /\ outgoing' = outgoing \o SentBy(client, client') /\ server' = server
        /\ plaintext' = plaintext /\ returned' = returned /\ eof' = eof
    BY DEF TakeHandshakeRecord, Handshaking, RecordComplete, Take, ReadVars
  <1>3. WireTaken BY <1>2, WireTail
  <1>4. client.state # "ServerHelloDone" BY <1>1, FrontOf13
  <1>5. outgoing' = outgoing
    <2>1. SentBy(client, client') = <<>> BY <1>4, SendsNothing
    <2>2. QED BY <2>1, <1>2, AddNothing
  <1>6. first = 0 /\ NothingRead
        /\ \/ /\ client = Greeted /\ wire[1] = Plain("handshake", <<Msg("ServerHello13")>>)
              /\ \E b \in {1, 2} : (b = 2 => wire[2] = ChangeCipherSpec) /\ FlightLeft(b, h, 0, 0)
           \/ \E b \in {0, 1}, e \in 0..4, j \in Nat :
                /\ client = Reading13(e, j)
                /\ b = 1 => e = 0 /\ wire[1] = ChangeCipherSpec
                /\ FlightLeft(b, h, e, j)
    BY <1>1, <1>2, FrontOf13
  <1>7. NothingRead' /\ Got' = Got BY <1>2, <1>6 DEF NothingRead, Got
  <1>8. SUFFICES /\ Sent' = Sent
                 /\ h >= 1
                 /\ \E b \in {0, 1}, e \in 0..4, j \in Nat :
                      /\ client' = Reading13(e, j)
                      /\ b = 1 => e = 0 /\ wire'[1] = ChangeCipherSpec
                      /\ FlightLeft(b, h - 1, e, j)'
    <2>1. Outbound("1.3")' BY <1>2, <1>5, <1>8, OutStands
    <2>2. ReplyLeft("1.3", h - 1, first)' BY <1>1, <1>2, <1>3, <1>7, <1>8, ReplyStays
    <2>3. Front13(h - 1, first)' BY <1>6, <1>7, <1>8, Zenon DEF Front13
    <2>4. h - 1 \in Nat BY <1>8
    <2>5. QED BY <2>1, <2>2, <2>3, <2>4 DEF Inbound
  <1>9. CASE /\ client = Greeted /\ wire[1] = Plain("handshake", <<Msg("ServerHello13")>>)
             /\ \E b \in {1, 2} : (b = 2 => wire[2] = ChangeCipherSpec) /\ FlightLeft(b, h, 0, 0)
    <2>1. PICK b \in {1, 2} : (b = 2 => wire[2] = ChangeCipherSpec) /\ FlightLeft(b, h, 0, 0)
      BY <1>9
    <2>2. client' = Reading13(0, 0) BY <1>2, <1>9, ReadsServerHello13, Zenon
    <2>3. b \in Nat /\ b >= 1 /\ 0 \in Nat /\ b - 1 \in {0, 1} /\ (b - 1 = 1 => b = 2) /\ 0 \in 0..4 OBVIOUS
    <2>4. FlightLeft(b - 1, h - 1, 0, 0)' BY <1>3, <2>1, <2>3, FlightMoves
    <2>5. h >= 1 /\ b <= h /\ h <= Len(wire)
      <3>1. b <= h /\ h <= Len(wire) BY <2>1 DEF FlightLeft
      <3>2. QED BY <3>1, <2>3
    <2>6. b = 2 => wire'[1] = ChangeCipherSpec
      <3>1. b = 2 => 1 \in 1..(Len(wire) - 1) BY <1>3, <2>5 DEF WireTaken
      <3>2. QED BY <3>1, <2>1, <1>3 DEF WireTaken
    <2>7. Sent' = Sent BY <1>9, <2>2, SentIs DEF Sent
    <2>8. b - 1 = 1 => 0 = 0 /\ wire'[1] = ChangeCipherSpec BY <2>3, <2>6
    <2>9. QED BY <2>2, <2>3, <2>4, <2>5, <2>7, <2>8
  <1>10. CASE \E b \in {0, 1}, e \in 0..4, j \in Nat :
                /\ client = Reading13(e, j)
                /\ b = 1 => e = 0 /\ wire[1] = ChangeCipherSpec
                /\ FlightLeft(b, h, e, j)
    <2>1. PICK b \in {0, 1}, e \in 0..4, j \in Nat :
                /\ client = Reading13(e, j)
                /\ b = 1 => e = 0 /\ wire[1] = ChangeCipherSpec
                /\ FlightLeft(b, h, e, j)
      BY <1>10
    <2>2. e \in 0..3
      <3>1. e # 4 BY <2>1, <1>2, StatesAre
      <3>2. QED BY <3>1
    <2>3. CASE b = 1
      <3>1. client' = Reading13(e, j) BY <2>1, <2>2, <2>3, <1>2, ReadsChangeCipherSpec13
      <3>2. FlightLeft(1 - 1, h - 1, e, j)' BY <1>3, <2>1, <2>3, FlightMoves
      <3>3. h >= 1 BY <2>1, <2>3 DEF FlightLeft
      <3>4. Sent' = Sent BY <2>1, <3>1 DEF Sent
      <3>5. 1 - 1 = 0 /\ 0 \in {0, 1} /\ 0 # 1 OBVIOUS
      <3>6. QED BY <2>1, <3>1, <3>2, <3>3, <3>4, <3>5
    <2>4. CASE b = 0
      <3>1. FlightLeft(0, h, e, j) BY <2>1, <2>4
      <3>2. h >= 1 /\ \E c \in 1..4 : /\ e < c /\ wire[1] = FlightRecord(e, c, j)
                                      /\ FlightLeft(0, h - 1, c, j + 1)'
        BY <3>1, <2>2, <1>3, FlightRead
      <3>3. PICK c \in 1..4 : /\ e < c /\ wire[1] = FlightRecord(e, c, j)
                              /\ FlightLeft(0, h - 1, c, j + 1)'
        BY <3>2
      <3>4. client' = Reading13(c, j + 1) BY <2>1, <2>2, <3>3, <1>2, ReadsFlight13
      <3>5. Sent' = Sent BY <2>1, <3>4, SentIs DEF Sent
      <3>6. c \in 0..4 /\ j + 1 \in Nat /\ 0 \in {0, 1} /\ 0 # 1 OBVIOUS
      <3>7. QED BY <3>2, <3>3, <3>4, <3>5, <3>6
    <2>5. QED BY <2>3, <2>4
  <1>11. QED BY <1>6, <1>9, <1>10

LEMMA TakesHandshake12 ==
  ASSUME IsSequence(wire), IsSequence(outgoing), Inbound("1.2"), Outbound("1.2"), TakeHandshakeRecord
  PROVE  Inbound("1.2")' /\ Outbound("1.2")'
  <1>a. "1.2" # "1.3" /\ "1.2" \in {"1.3", "1.2"} /\ 0 \in Nat /\ 1 \in Nat OBVIOUS
  <1>1. PICK h \in Nat, first \in Nat : Front12(h, first) /\ ReplyLeft("1.2", h, first)
    BY <1>a DEF Inbound
  <1>2. /\ client.state \notin {"start", "Complete", "Open", "asked", "dropped"}
        /\ wire # <<>> /\ wire' = Tail(wire) /\ client' = HandleRecord(client, wire[1])
        /\ outgoing' = outgoing \o SentBy(client, client') /\ server' = server
        /\ plaintext' = plaintext /\ returned' = returned /\ eof' = eof
    BY DEF TakeHandshakeRecord, Handshaking, RecordComplete, Take, ReadVars
  <1>3. WireTaken BY <1>2, WireTail
  <1>4. first = 1 /\ NothingRead
        /\ \/ /\ server.phase \in {"hello", "closed"} /\ Len(wire) = h
              /\ \/ \E e \in 0..3 :
                      /\ client = Reading12(e) /\ h = 4 - e
                      /\ \A x \in 1..h : wire[x] = Plain("handshake", <<Msg(Flight12[e + x])>>)
                 \/ client = Talking("1.2", "ChangeCipher", 1, 0) /\ h = 0
           \/ /\ server.phase # "hello"
              /\ \/ client = Talking("1.2", "ChangeCipher", 1, 0) /\ h = 2 /\ wire[1] = ChangeCipherSpec
                 \/ client = Talking("1.2", "Finished", 1, 0) /\ h = 1
              /\ h <= Len(wire) /\ wire[h] = ServerFinished12
    BY <1>1, <1>2, FrontOf12
  <1>5. NothingRead' /\ Got' = Got BY <1>2, <1>4 DEF NothingRead, Got
  <1>6. ASSUME h >= 1, Front12(h - 1, first)' PROVE Inbound("1.2")'
    <2>1. ReplyLeft("1.2", h - 1, first)' BY <1>1, <1>2, <1>3, <1>5, <1>6, ReplyStays
    <2>2. h - 1 \in Nat BY <1>6
    <2>3. QED BY <2>1, <2>2, <1>6, <1>a DEF Inbound
  <1>7. ASSUME client.state # "ServerHelloDone" \/ client'.state # "ChangeCipher", Sent' = Sent
        PROVE  Outbound("1.2")'
    <2>1. SentBy(client, client') = <<>> BY <1>7, SendsNothing
    <2>2. outgoing' = outgoing BY <2>1, <1>2, AddNothing
    <2>3. QED BY <1>2, <1>7, <2>2, OutStands
  <1>8. ASSUME NEW e \in 0..3, client = Reading12(e), h = 4 - e, Len(wire) = h,
               server.phase \in {"hello", "closed"},
               \A x \in 1..h : wire[x] = Plain("handshake", <<Msg(Flight12[e + x])>>)
        PROVE  Inbound("1.2")' /\ Outbound("1.2")'
    <2>1. h \in 1..4 /\ 1 \in 1..h /\ h >= 1 BY <1>8
    <2>2. wire[1] = Plain("handshake", <<Msg(Flight12[e + 1])>>) BY <1>8, <2>1
    <2>3. client' = IF e < 3 THEN Reading12(e + 1) ELSE Talking("1.2", "ChangeCipher", 1, 0)
      BY <1>2, <1>8, <2>2, ReadsFlight12
    <2>4. Len(wire') = h - 1 BY <1>8, <1>3 DEF WireTaken
    <2>5. CASE e < 3
      <3>1. e + 1 \in 0..3 /\ h - 1 = 4 - (e + 1) BY <1>8, <2>5
      <3>2. client' = Reading12(e + 1) BY <2>3, <2>5
      <3>3. ASSUME NEW x \in 1..(h - 1)
            PROVE  wire'[x] = Plain("handshake", <<Msg(Flight12[(e + 1) + x])>>)
        <4>1. x + 1 \in 1..h /\ x \in 1..(Len(wire) - 1) /\ e + (x + 1) = (e + 1) + x BY <1>8
        <4>2. wire'[x] = wire[x + 1] BY <4>1, <1>3 DEF WireTaken
        <4> DEFINE y == x + 1
        <4>3. wire[y] = Plain("handshake", <<Msg(Flight12[e + y])>>)
          <5> HIDE DEF y
          <5>1. y \in 1..h BY <4>1 DEF y
          <5>2. QED BY <5>1, <1>8
        <4>4. QED BY <4>1, <4>2, <4>3
      <3>4. Front12(h - 1, first)'
        BY <3>1, <3>2, <3>3, <2>4, <1>4, <1>5, <1>2, <1>8 DEF Front12
      <3>5. client.state # "ServerHelloDone"
        <4>1. e # 3 BY <2>5
        <4>2. QED BY <4>1, <1>8, StatesAre
      <3>6. Sent' = Sent BY <1>8, <3>1, <3>2, SentIs DEF Sent
      <3>7. QED BY <2>1, <3>4, <3>5, <3>6, <1>6, <1>7
    <2>6. CASE e = 3
      <3>1. client' = Talking("1.2", "ChangeCipher", 1, 0) /\ h - 1 = 0 BY <2>3, <2>6, <1>8
      <3>2. Front12(h - 1, first)' BY <3>1, <2>4, <1>4, <1>5, <1>2, <1>8 DEF Front12
      <3>3. SentBy(client, client') = KeyExchangeRecords
        BY <3>1, <1>8, <2>6, SendsKeyExchange, Zenon
      <3>4. Sent = 0
        <4>1. 3 \in 0..3 OBVIOUS
        <4>2. SentAs(Reading12(3)) = 0 BY <4>1, SentIs
        <4>3. QED BY <4>2, <1>8, <2>6 DEF Sent
      <3>5. Sent' = 3
        <4>1. SentAs(client') = 1 + 2 BY <3>1, <1>a, SentTalking
        <4>2. QED BY <4>1 DEF Sent
      <3>6. /\ IsSequence(KeyExchangeRecords) /\ Len(KeyExchangeRecords) = 3
            /\ KeyExchangeRecords[1] = Plain("handshake", <<Msg("ClientKeyExchange")>>)
            /\ KeyExchangeRecords[2] = ChangeCipherSpec /\ KeyExchangeRecords[3] = Finished12
        BY Tuples DEF KeyExchangeRecords
      <3> DEFINE records == KeyExchangeRecords
      <3>7. \A x \in 1..3 : IsSent("1.2", 0 + x, records[x])
        <4>1. IsSent("1.2", 1, records[1]) /\ IsSent("1.2", 2, records[2]) /\ IsSent("1.2", 3, records[3])
          BY <3>6 DEF IsSent
        <4>2. \A x \in 1..3 : x = 1 \/ x = 2 \/ x = 3 OBVIOUS
        <4>3. 0 + 1 = 1 /\ 0 + 2 = 2 /\ 0 + 3 = 3 OBVIOUS
        <4> HIDE DEF records
        <4>4. QED BY <4>1, <4>2, <4>3
      <3> HIDE DEF records
      <3>8. Outbound("1.2")'
        <4>1. IsSequence(records) /\ Len(records) = 3 /\ outgoing' = outgoing \o records
          BY <3>3, <3>6, <1>2 DEF records
        <4>2. Sent \in Nat /\ Sent' = Sent + Len(records) BY <4>1, <3>4, <3>5
        <4>3. \A x \in 1..Len(records) : IsSent("1.2", Sent + x, records[x]) BY <4>1, <3>4, <3>7
        <4>4. QED BY <4>1, <4>2, <4>3, <1>2, OutGrows
      <3>9. QED BY <2>1, <3>2, <3>8, <1>6
    <2>7. QED BY <2>5, <2>6
  <1>9. ASSUME server.phase # "hello", h <= Len(wire), wire[h] = ServerFinished12,
               client = Talking("1.2", "ChangeCipher", 1, 0), h = 2, wire[1] = ChangeCipherSpec
        PROVE  Inbound("1.2")' /\ Outbound("1.2")'
    <2>1. client' = Talking("1.2", "Finished", 1, 0) BY <1>2, <1>9, ReadsChangeCipherSpec12
    <2>2. 1 \in 1..(Len(wire) - 1) /\ h - 1 = 1 /\ h >= 1 BY <1>3, <1>9 DEF WireTaken
    <2>3. wire'[1] = ServerFinished12 /\ 1 <= Len(wire')
      <3>1. wire'[1] = wire[1 + 1] BY <2>2, <1>3 DEF WireTaken
      <3>2. QED BY <3>1, <2>2, <1>9, <1>3 DEF WireTaken
    <2>4. Front12(1, first)' BY <2>1, <2>3, <1>2, <1>4, <1>5, <1>9 DEF Front12
    <2>5. client.state # "ServerHelloDone" BY <1>9, <1>a, TalkingState
    <2>6. Sent' = Sent
      <3>1. SentAs(client) = 1 + 2 /\ SentAs(client') = 1 + 2 BY <1>9, <2>1, <1>a, SentTalking
      <3>2. QED BY <3>1 DEF Sent
    <2>7. QED BY <2>2, <2>4, <2>5, <2>6, <1>6, <1>7
  <1>10. ASSUME server.phase # "hello", h <= Len(wire), wire[h] = ServerFinished12,
                client = Talking("1.2", "Finished", 1, 0), h = 1
         PROVE  Inbound("1.2")' /\ Outbound("1.2")'
    <2>1. client' = Talking("1.2", "Open", 1, 1) BY <1>2, <1>10, ReadsFinished12
    <2>2. h - 1 = 0 /\ h >= 1 BY <1>10
    <2>3. Front12(0, first)'
      <3>1. client' = Talking("1.2", "Open", 1, first) /\ 1 >= 1 BY <2>1, <1>4
      <3>2. QED BY <3>1, <1>2, <1>10, <1>a DEF Front12
    <2>4. client.state # "ServerHelloDone" BY <1>10, <1>a, TalkingState
    <2>5. Sent' = Sent
      <3>1. SentAs(client) = 1 + 2 /\ SentAs(client') = 1 + 2 BY <1>10, <2>1, <1>a, SentTalking
      <3>2. QED BY <3>1 DEF Sent
    <2>6. QED BY <2>2, <2>3, <2>4, <2>5, <1>6, <1>7
  <1>11. ~(Len(wire) = h /\ h = 0) BY <1>3 DEF WireTaken
  <1>12. QED BY <1>4, <1>8, <1>9, <1>10, <1>11

LEMMA SendsFinished ==
  ASSUME IsSequence(wire), IsSequence(outgoing), Inbound("1.3"), Outbound("1.3"), SendFinished
  PROVE  Inbound("1.3")' /\ Outbound("1.3")'
  <1>a. "1.3" \in {"1.3", "1.2"} /\ 0 \in Nat OBVIOUS
  <1>1. PICK h \in Nat, first \in Nat : Front13(h, first) /\ ReplyLeft("1.3", h, first)
    BY DEF Inbound
  <1> DEFINE f == Encrypted("1.3", "handshake", client.enc, <<MessageOf("ClientFinished", client.transcript)>>)
             records == <<ChangeCipherSpec, f>>
  <1>2. /\ client.state = "Complete" /\ client' = InstallAppKeys(client)
        /\ outgoing' = outgoing \o records
        /\ server' = server /\ wire' = wire /\ plaintext' = plaintext /\ returned' = returned /\ eof' = eof
    BY DEF SendFinished, ReadVars
  <1>3. PICK b \in {0, 1}, e \in 0..4, j \in Nat :
          /\ client = Reading13(e, j) /\ first = 0
          /\ b = 1 => e = 0 /\ wire[1] = ChangeCipherSpec
          /\ FlightLeft(b, h, e, j)
    <2>1. client.state \notin {"Open", "asked", "dropped"} /\ client # Greeted BY <1>2, StatesAre
    <2>2. QED BY <2>1, <1>1, FrontOf13
  <1>4. e = 4 /\ b = 0
    <2>1. e = 4 BY <1>2, <1>3, StatesAre
    <2>2. QED BY <2>1, <1>3
  <1>5. h = 0 BY <1>3, <1>4, FlightDone
  <1>6. client' = Talking("1.3", "Open", 0, 0) BY <1>2, <1>3, <1>4, InstallsAppKeys
  <1>7. ReplyLeft("1.3", 0, 0)'
    <2>1. ReplyLeft("1.3", 0, 0) BY <1>1, <1>3, <1>5
    <2>2. PhaseStands("1.3") /\ Got' = Got BY <1>2 DEF PhaseStands, Got
    <2>3. QED BY <2>1, <2>2, <1>2, <1>a, ReplyStands
  <1>8. Inbound("1.3")' BY <1>6, <1>7, <1>a, TalkingGoesOn
  <1>9. client.enc = Handshake13("client") /\ client.transcript = T13(4)
    <2> DEFINE c == Reading13(e, j)
    <2>1. c.enc = Handshake13("client") /\ c.transcript = T13(e) BY Reading13Is
    <2>2. client = c BY <1>3
    <2> HIDE DEF c
    <2>3. QED BY <2>1, <2>2, <1>4
  <1>10. f = Finished13
    <2> DEFINE k == client.enc
               t == client.transcript
    <2>1. k = Handshake13("client") /\ t = T13(4) BY <1>9
    <2> HIDE DEF k, t
    <2>2. Encrypted("1.3", "handshake", k, <<MessageOf("ClientFinished", t)>>) = Finished13
      BY <2>1 DEF Encrypted, Finished13
    <2>3. QED BY <2>2 DEF k, t
  <1> HIDE DEF f
  <1>11. /\ IsSequence(records) /\ Len(records) = 2 /\ records[1] = ChangeCipherSpec /\ records[2] = f
    BY Tuples
  <1> HIDE DEF records
  <1>12. Sent = 0 /\ Sent' = 2
    <2>1. Sent = 0 BY <1>3, SentIs, Zenon DEF Sent
    <2>2. SentAs(client') = 0 + 2 BY <1>6, <1>a, SentTalking
    <2>3. QED BY <2>1, <2>2 DEF Sent
  <1>13. \A x \in 1..Len(records) : IsSent("1.3", Sent + x, records[x])
    <2>1. IsSent("1.3", 1, ChangeCipherSpec) /\ IsSent("1.3", 2, Finished13) BY DEF IsSent
    <2>2. \A x \in 1..2 : x = 1 \/ x = 2 OBVIOUS
    <2>3. 0 + 1 = 1 /\ 0 + 2 = 2 OBVIOUS
    <2>4. QED BY <2>1, <2>2, <2>3, <1>10, <1>11, <1>12
  <1>14. Outbound("1.3")'
    <2>1. Sent \in Nat /\ Sent' = Sent + Len(records) BY <1>11, <1>12
    <2>2. QED BY <2>1, <1>2, <1>11, <1>13, OutGrows
  <1>15. QED BY <1>8, <1>14

(* A record is sent under the key and the number the server expects.       *)
LEMMA TalkerSends ==
  ASSUME NEW version \in {"1.3", "1.2"}, IsSequence(wire), IsSequence(outgoing),
         Inbound(version), Outbound(version), client.state \in {"Open", "asked"},
         NEW state \in {"asked", "dropped"}, client' = Wrote(client, state),
         NEW r, outgoing' = Append(outgoing, r), Asks(r, version, client.enc),
         server' = server, wire' = wire, Got' = Got
  PROVE  Inbound(version)' /\ Outbound(version)'
  <1>1. PICK first \in Nat, w \in Nat :
          /\ client = Talking(version, client.state, w, first) /\ ReplyLeft(version, 0, first)
          /\ version = "1.2" => w >= 1 /\ server.phase # "hello"
    BY TalkingFront
  <1> DEFINE v == w + 1
  <1>2. v \in Nat /\ v = w + 1 /\ (w >= 1 => v >= 1) OBVIOUS
  <1> HIDE DEF v
  <1>3. client' = Talking(version, state, v, first)
    <2> DEFINE c == client
               s == client.state
    <2>1. c = Talking(version, s, w, first) BY <1>1
    <2> HIDE DEF c, s
    <2>2. version \in {"1.3", "1.2"} /\ w \in Nat /\ first \in Nat OBVIOUS
    <2>3. \A u : Wrote(c, u) = Talking(version, u, v, first) BY ONLY <2>1, <2>2, <1>2, TalkingOn
    <2>4. QED BY <2>3, Zenon DEF c
  <1>4. ReplyLeft(version, 0, first)'
    <2>1. PhaseStands(version) BY DEF PhaseStands
    <2>2. 0 \in Nat OBVIOUS
    <2>3. QED BY <2>1, <2>2, <1>1, ReplyStands
  <1>5. Inbound(version)' BY <1>1, <1>2, <1>3, <1>4, TalkingGoesOn
  <1>6. Sent = w + 2 /\ Sent' = v + 2
    <2> DEFINE c == client
               s == client.state
    <2>1. c = Talking(version, s, w, first) BY <1>1
    <2> HIDE DEF c, s
    <2>2. SentAs(c) = w + 2 BY <2>1, SentTalking
    <2>3. SentAs(client') = v + 2 BY <1>2, <1>3, SentTalking
    <2>4. QED BY <2>2, <2>3 DEF c, Sent
  <1>7. client.enc = Nth(DataKey(version, "client"), w)
    <2> DEFINE c == client
               s == client.state
    <2>1. c = Talking(version, s, w, first) BY <1>1
    <2> HIDE DEF c, s
    <2>2. version \in {"1.3", "1.2"} /\ w \in Nat /\ first \in Nat OBVIOUS
    <2>3. c.enc = Nth(DataKey(version, "client"), w) BY ONLY <2>1, <2>2, TalkingIs
    <2>4. QED BY <2>3 DEF c
  <1> DEFINE records == <<r>>
  <1>8. IsSequence(records) /\ Len(records) = 1 /\ records[1] = r BY Tuples
  <1>9. outgoing' = outgoing \o records BY DEF IsSequence
  <1> HIDE DEF records
  <1>10. IsSent(version, Sent + 1, r)
    <2>1. Sent + 1 - 3 = w /\ Sent + 1 > 2 /\ (version = "1.2" => Sent + 1 > 3) BY <1>1, <1>6
    <2> DEFINE q == Sent + 1
    <2>2. q - 3 = w /\ q > 2 /\ q \in Nat /\ (version = "1.2" => q > 3) BY <2>1, <1>6
    <2> HIDE DEF q
    <2>3. Asks(r, version, Nth(DataKey(version, "client"), q - 3)) BY <2>2, <1>7
    <2>4. CASE version = "1.3" BY <2>2, <2>3, <2>4 DEF IsSent, q
    <2>5. CASE version = "1.2" BY <2>2, <2>3, <2>5 DEF IsSent, q
    <2>6. QED BY <2>4, <2>5
  <1>11. Outbound(version)'
    <2>1. Sent \in Nat /\ Sent' = Sent + Len(records) BY <1>2, <1>6, <1>8
    <2>2. \A x \in 1..Len(records) : IsSent(version, Sent + x, records[x])
      <3>1. \A x \in 1..1 : x = 1 OBVIOUS
      <3>2. QED BY <3>1, <1>8, <1>10
    <2>3. QED BY <2>1, <2>2, <1>8, <1>9, OutGrows
  <1>12. QED BY <1>5, <1>11

(* What does not fit into the buffer is held back and stands right behind  *)
(* what was returned.                                                      *)
LEMMA HandsOver ==
  ASSUME NEW a \in Nat, NEW c \in Nat, a <= c, returned = Bytes(0, a), NEW bytes, bytes = Bytes(a, c),
         HandOver(bytes)
  PROVE  \E b \in Nat : /\ a <= b /\ b <= c /\ returned' = Bytes(0, b) /\ plaintext' = Bytes(b, c)
                        /\ Len(returned') = b /\ Len(plaintext') = c - b
  <1> DEFINE l == c - a
             n == IF l < BufSize THEN l ELSE BufSize
             b == a + n
  <1>1. Len(bytes) = l BY BytesShape
  <1>2. /\ n \in Nat /\ n <= l /\ b \in Nat /\ a <= b /\ b <= c /\ a + n <= c
    BY TlsAssumption DEF TlsAssumption
  <1>3. /\ returned' = returned \o SubSeq(bytes, 1, n)
        /\ plaintext' = SubSeq(bytes, n + 1, Len(bytes))
    BY <1>1 DEF HandOver
  <1> HIDE DEF n
  <1>4. /\ SubSeq(bytes, 1, n) = Bytes(a, b) /\ SubSeq(bytes, n + 1, Len(bytes)) = Bytes(b, c)
    BY <1>2, BytesCut
  <1> HIDE DEF b
  <1>5. 0 \in Nat /\ 0 <= a /\ 0 <= b BY <1>2
  <1>6. returned' = Bytes(0, b)
    <2>1. Bytes(0, a) \o Bytes(a, b) = Bytes(0, b) BY <1>2, <1>5, BytesJoin
    <2>2. QED BY <2>1, <1>3, <1>4
  <1>7. plaintext' = Bytes(b, c) BY <1>3, <1>4
  <1>8. Len(Bytes(0, b)) = b - 0 /\ Len(Bytes(b, c)) = c - b BY <1>2, <1>5, BytesShape
  <1>9. QED BY <1>2, <1>6, <1>7, <1>8

(* read(): what was held back, the next record, the end of the stream.     *)
LEMMA ReadsPlaintext ==
  ASSUME NEW version \in {"1.3", "1.2"}, Shapes, Reads, Inbound(version), Outbound(version), ReadPlaintext
  PROVE  Reads' /\ Inbound(version)' /\ Outbound(version)'
  <1>1. /\ client.state = "asked" /\ ~eof /\ HandOver(plaintext)
        /\ client' = client /\ server' = server /\ outgoing' = outgoing /\ wire' = wire /\ eof' = eof
    BY DEF ReadPlaintext
  <1> DEFINE a == Len(returned)
             c == Got
  <1>2. a \in Nat /\ c \in Nat /\ a <= c /\ returned = Bytes(0, a) /\ plaintext = Bytes(a, c)
    BY DEF Reads, Got
  <1> HIDE DEF a, c
  <1>3. PICK b \in Nat : /\ a <= b /\ b <= c /\ returned' = Bytes(0, b) /\ plaintext' = Bytes(b, c)
                         /\ Len(returned') = b /\ Len(plaintext') = c - b
    BY <1>1, <1>2, HandsOver
  <1>4. Got' = c
    <2>1. Got' = Len(returned') + Len(plaintext') BY DEF Got
    <2>2. QED BY <2>1, <1>2, <1>3
  <1>5. Reads'
    <2>1. Len(returned') \in Nat /\ Len(plaintext') \in Nat BY <1>2, <1>3
    <2>2. returned' = Bytes(0, Len(returned')) /\ plaintext' = Bytes(Len(returned'), Got') BY <1>3, <1>4
    <2>3. QED BY <2>1, <2>2, <1>1 DEF Reads
  <1>6. PICK first \in Nat, w \in Nat :
          /\ client = Talking(version, client.state, w, first) /\ ReplyLeft(version, 0, first)
          /\ version = "1.2" => w >= 1 /\ server.phase # "hello"
    BY <1>1, TalkingFront
  <1>7. ReplyLeft(version, 0, first)'
    <2>1. PhaseStands(version) BY <1>1 DEF PhaseStands
    <2>2. 0 \in Nat OBVIOUS
    <2>3. Got' = Got BY <1>4 DEF c
    <2>4. QED BY <2>1, <2>2, <2>3, <1>1, <1>6, ReplyStands
  <1>8. Inbound(version)' BY <1>1, <1>6, <1>7, TalkingGoesOn
  <1>9. Outbound(version)'
    <2>1. Sent' = Sent BY <1>1 DEF Sent
    <2>2. QED BY <2>1, <1>1, OutStands
  <1>10. QED BY <1>5, <1>8, <1>9

LEMMA ReadsNext ==
  ASSUME NEW version \in {"1.3", "1.2"}, Shapes, Reads, Inbound(version), Outbound(version), ReadNext
  PROVE  Reads' /\ Inbound(version)' /\ Outbound(version)'
  <1> DEFINE read == ReadRecord(client, wire[1])
             d == [client EXCEPT !.dec = read.dec]
  <1>1. /\ client.state = "asked" /\ ~eof /\ plaintext = <<>> /\ wire # <<>> /\ wire' = Tail(wire)
        /\ server' = server /\ outgoing' = outgoing
    BY DEF ReadNext, RecordComplete, Take
  <1>2. IF ~read.ok THEN client' = Fails(client, "decrypt") /\ UNCHANGED ReadVars
        ELSE IF read.type = "data" THEN client' = d /\ ReadBytes(read.body)
        ELSE IF read.type # "alert" THEN client' = d /\ UNCHANGED ReadVars
        ELSE IF read.body = <<"close_notify">>
        THEN client' = d /\ eof' = TRUE /\ UNCHANGED <<plaintext, returned>>
        ELSE client' = Fails(d, "alert") /\ UNCHANGED ReadVars
    BY DEF ReadNext
  <1>3. WireTaken BY <1>1, WireTail DEF Shapes
  <1>4. PICK first \in Nat, w \in Nat :
          /\ client = Talking(version, client.state, w, first) /\ ReplyLeft(version, 0, first)
          /\ version = "1.2" => w >= 1 /\ server.phase # "hello"
    BY <1>1, TalkingFront
  <1> DEFINE next == first + 1
  <1>5. next \in Nat /\ next = first + 1 OBVIOUS
  <1> HIDE DEF next
  <1>6. PICK c \in Nat :
          /\ Carries(wire[1], version, Nth(DataKey(version, "server"), first), Got, c)
          /\ wire[1].inner = "alert" => server.phase = "closed" /\ c = server.sent
          /\ Got' = c => ReplyLeft(version, 0, next)'
    BY <1>1, <1>3, <1>4, <1>5, ReplyTaken
  <1> DEFINE a == Got
  <1>7. a \in Nat /\ a = Len(returned) /\ returned = Bytes(0, a)
    <2>1. Len(plaintext) = 0 BY <1>1
    <2>2. QED BY <2>1 DEF Reads, Got
  <1> HIDE DEF a
  <1>8. /\ read.ok /\ WithDec(client, read.dec) = Talking(version, "asked", w, next)
        /\ \/ read.type = "data" /\ a < c /\ read.body = Bytes(a, c)
           \/ read.type = "handshake" /\ a = c
           \/ /\ read.type = "alert" /\ wire[1].inner = "alert" /\ a = c
              /\ read.body = <<"close_notify">>
    <2> DEFINE e == client
               rec == wire[1]
    <2>1. e = Talking(version, "asked", w, first) BY <1>1, <1>4
    <2>2. Carries(rec, version, Nth(DataKey(version, "server"), first), a, c) BY <1>6 DEF a
    <2> HIDE DEF e, rec
    <2>n. version \in {"1.3", "1.2"} /\ w \in Nat /\ first \in Nat /\ c \in Nat /\ a \in Nat BY <1>7
    <2>3. ReadsTo(e, rec, Talking(version, "asked", w, next), a, c)
      BY ONLY <2>1, <2>2, <2>n, <1>5, ReadsReply
    <2>4. QED BY <2>3 DEF e, rec, ReadsTo
  <1>9. d = Talking(version, "asked", w, next) BY <1>8 DEF WithDec
  <1> HIDE DEF d, read
  <1>10. SUFFICES client' = d /\ Got' = c /\ Reads'
    <2>1. Inbound(version)'
      <3>1. ReplyLeft(version, 0, next)' BY <1>6, <1>10
      <3>2. client' = Talking(version, "asked", w, next) BY <1>9, <1>10
      <3>3. QED BY <3>1, <3>2, <1>1, <1>4, <1>5, TalkingGoesOn
    <2>2. Sent' = Sent
      <3>1. SentAs(client) = w + 2
        <4> DEFINE e == client
        <4>1. e = Talking(version, "asked", w, first) BY <1>1, <1>4
        <4> HIDE DEF e
        <4>2. SentAs(e) = w + 2 BY <4>1, SentTalking
        <4>3. QED BY <4>2 DEF e
      <3>2. SentAs(client') = w + 2 BY <1>5, <1>9, <1>10, SentTalking
      <3>3. QED BY <3>1, <3>2 DEF Sent
    <2>3. Outbound(version)' BY <2>2, <1>1, OutStands
    <2>4. QED BY <2>1, <2>3, <1>10
  <1>11. CASE read.type = "data" /\ a < c /\ read.body = Bytes(a, c)
    <2>1. client' = d /\ HandOver(read.body) /\ eof' = (read.body = <<>>)
      BY <1>2, <1>8, <1>11 DEF ReadBytes
    <2>2. PICK b \in Nat : /\ a <= b /\ b <= c /\ returned' = Bytes(0, b) /\ plaintext' = Bytes(b, c)
                           /\ Len(returned') = b /\ Len(plaintext') = c - b
      <3>1. a <= c BY <1>7, <1>11
      <3>2. QED BY <3>1, <2>1, <1>7, <1>11, HandsOver
    <2>3. Got' = c
      <3>1. Got' = Len(returned') + Len(plaintext') BY DEF Got
      <3>2. QED BY <3>1, <2>2
    <2>4. ~eof'
      <3>1. Len(read.body) = c - a
        <4>1. a <= c BY <1>7, <1>11
        <4>2. Len(Bytes(a, c)) = c - a BY ONLY <4>1, <1>7, c \in Nat, BytesShape
        <4>3. QED BY <4>2, <1>11
      <3>2. read.body # <<>> BY <3>1, <1>7, <1>11
      <3>3. QED BY <3>2, <2>1
    <2>5. Len(returned') \in Nat /\ Len(plaintext') \in Nat BY <2>2
    <2>6. returned' = Bytes(0, Len(returned')) /\ plaintext' = Bytes(Len(returned'), Got') BY <2>2, <2>3
    <2>7. QED BY <2>1, <2>3, <2>4, <2>5, <2>6 DEF Reads
  <1>12. CASE read.type = "handshake" /\ a = c
    <2>1. client' = d /\ plaintext' = plaintext /\ returned' = returned /\ eof' = eof
      BY <1>2, <1>8, <1>12 DEF ReadVars
    <2>2. Got' = Got BY <2>1 DEF Got
    <2>3. QED BY <2>1, <2>2, <1>1, <1>12 DEF Reads, a
  <1>13. CASE /\ read.type = "alert" /\ wire[1].inner = "alert" /\ a = c
              /\ read.body = <<"close_notify">>
    <2>1. client' = d /\ eof' = TRUE /\ plaintext' = plaintext /\ returned' = returned
      BY <1>2, <1>8, <1>13
    <2>2. Got' = Got BY <2>1 DEF Got
    <2>3. server'.phase = "closed" /\ Len(returned') = server'.sent BY <1>1, <1>6, <1>7, <1>13, <2>1
    <2>4. QED BY <2>1, <2>2, <2>3, <1>13 DEF Reads, a
  <1>14. QED BY <1>8, <1>11, <1>12, <1>13

LEMMA ReadsEnd ==
  ASSUME NEW version \in {"1.3", "1.2"}, Shapes, Reads, Inbound(version), Outbound(version), ReadEnd
  PROVE  Reads' /\ Inbound(version)' /\ Outbound(version)'
  <1>1. /\ client.state = "asked" /\ plaintext = <<>> /\ server.phase = "closed" /\ eof' = TRUE
        /\ arrived < 2 /\ arrived = 2 * Len(wire)
        /\ client' = client /\ server' = server /\ outgoing' = outgoing /\ wire' = wire
        /\ plaintext' = plaintext /\ returned' = returned
    BY DEF ReadEnd
  <1>2. PICK first \in Nat, w \in Nat :
          /\ client = Talking(version, client.state, w, first) /\ ReplyLeft(version, 0, first)
          /\ version = "1.2" => w >= 1 /\ server.phase # "hello"
    BY <1>1, TalkingFront
  <1>3. Len(wire) = 0
    <2>1. Len(wire) \in Nat BY Shape DEF Shapes
    <2>2. QED BY <2>1, <1>1
  <1>4. Got = server.sent
    <2> DEFINE m == Len(wire) - 0
    <2>1. PICK cut \in [0..m -> Nat] : cut[0] = Got /\ cut[m] = server.sent
      BY <1>2 DEF ReplyLeft
    <2>2. m = 0 BY <1>3
    <2> HIDE DEF m
    <2>3. QED BY <2>1, <2>2
  <1>5. Len(returned) = server.sent
    <2>1. Len(plaintext) = 0 BY <1>1
    <2>2. QED BY <2>1, <1>4 DEF Got, Reads
  <1>6. Got' = Got BY <1>1 DEF Got
  <1>7. Reads' BY <1>1, <1>5, <1>6 DEF Reads
  <1>8. ReplyLeft(version, 0, first)'
    <2>1. PhaseStands(version) BY <1>1 DEF PhaseStands
    <2>2. 0 \in Nat OBVIOUS
    <2>3. QED BY <2>1, <2>2, <1>1, <1>2, <1>6, ReplyStands
  <1>9. Inbound(version)' BY <1>1, <1>2, <1>8, TalkingGoesOn
  <1>10. Outbound(version)'
    <2>1. Sent' = Sent BY <1>1 DEF Sent
    <2>2. QED BY <2>1, <1>1, OutStands
  <1>11. QED BY <1>7, <1>9, <1>10

(* The records the client sends, as far as the server looks at them.       *)
LEMMA SentParts ==
  /\ ChangeCipherSpec.outer = "ccs" /\ ChangeCipherSpec.key = NoKey
  /\ \A body : Plain("handshake", body).outer = "handshake" /\ Plain("handshake", body).key = NoKey
  /\ Finished13.outer = "data" /\ Finished13.key = Handshake13("client")
  /\ Finished13.body[1].hash = T13(4)
  /\ Finished12.outer = "handshake" /\ Finished12.key = Key12("client")
  /\ Finished12.body[1].hash = KeyExchanged
  /\ \A r, version, key : Asks(r, version, key) => /\ r.key = key /\ r.outer # "ccs"
  /\ Handshake13("client") # NoKey /\ Key12("client") # NoKey
  <1>1. ChangeCipherSpec.outer = "ccs" /\ ChangeCipherSpec.key = NoKey
    BY DEF ChangeCipherSpec, Plain, Record
  <1>2. \A body : Plain("handshake", body).outer = "handshake" /\ Plain("handshake", body).key = NoKey
    BY DEF Plain, Record
  <1>6. /\ Finished13.outer = "data" /\ Finished13.key = Handshake13("client")
        /\ Finished13.body[1].hash = T13(4)
    <2> DEFINE key == Handshake13("client")
               t == T13(4)
               r == Encrypted13("handshake", key, <<MessageOf("ClientFinished", t)>>)
    <2>1. r = Finished13 BY DEF Finished13
    <2> HIDE DEF key, t
    <2>2. r.outer = "data" /\ r.key = key /\ r.body[1].hash = t BY DEF Encrypted13, Record, MessageOf
    <2> HIDE DEF r
    <2>3. QED BY <2>1, <2>2 DEF key, t
  <1>7. /\ Finished12.outer = "handshake" /\ Finished12.key = Key12("client")
        /\ Finished12.body[1].hash = KeyExchanged
    <2> DEFINE key == Key12("client")
               t == KeyExchanged
               r == Encrypted12("handshake", key, <<MessageOf("ClientFinished", t)>>)
    <2>1. r = Finished12 BY DEF Finished12
    <2> HIDE DEF key, t
    <2>2. r.outer = "handshake" /\ r.key = key /\ r.body[1].hash = t BY DEF Encrypted12, Record, MessageOf
    <2> HIDE DEF r
    <2>3. QED BY <2>1, <2>2 DEF key, t
  <1>8. \A r, version, key : Asks(r, version, key) => /\ r.key = key /\ r.outer # "ccs"
    BY DEF Asks, Encrypted, Encrypted13, Encrypted12, Record
  <1>9. Handshake13("client") # NoKey /\ Key12("client") # NoKey BY FirstKeys
  <1>10. QED BY <1>1, <1>2, <1>6, <1>7, <1>8, <1>9

(* The server's steps.  It takes the record it expects,                    *)
LEMMA Taken ==
  ASSUME NEW version, Outbound(version), IsSequence(outgoing), outgoing # <<>>, server.phase # "closed",
         outgoing' = Tail(outgoing), client' = client
  PROVE  \E k \in Nat, n \in Nat :
           /\ n = k + 1 /\ Expects(version, k) /\ IsSent(version, n, outgoing[1]) /\ Sent # 0
           /\ Expects(version, n)' => Outbound(version)'
  <1>1. Sent' = Sent BY DEF Sent
  <1>2. PICK k \in Nat :
           /\ Expects(version, k) /\ IsSent(version, k + 1, outgoing[1])
           /\ \A n \in Nat : n = k + 1 /\ Expects(version, n)' => Outbound(version)'
           /\ Sent # 0
    BY <1>1, OutTaken
  <1>3. k + 1 \in Nat OBVIOUS
  <1>4. QED BY <1>2, <1>3

(* What stays when the server alone moves and sends nothing.               *)
LEMMA ServerMoves ==
  ASSUME NEW version \in {"1.3", "1.2"}, Shapes, Reads, Inbound(version),
         client' = client, wire' = wire, plaintext' = plaintext, returned' = returned, eof' = eof,
         server'.enc = server.enc, server'.sent = server.sent,
         PhaseStands(version) \/ server'.phase = "closed"
  PROVE  Reads' /\ Inbound(version)'
  <1>1. Got' = Got BY DEF Got
  <1>2. Reads' BY <1>1 DEF Reads, PhaseStands
  <1>3. NothingRead => NothingRead' BY DEF NothingRead
  <1>4. Inbound(version)' BY <1>1, <1>3, InStands DEF Shapes
  <1>5. QED BY <1>2, <1>4

(* the key exchange, the change of cipher, the Finished, the request and   *)
(* the close_notify;                                                       *)
LEMMA TakesKeyExchange ==
  ASSUME Shapes, Reads, Going("1.2"), server.version = "1.2", TakeKeyExchange
  PROVE  Shapes' /\ Reads' /\ server'.version = "1.2" /\ Going("1.2")'
  <1> DEFINE t == Append(server.transcript, "ClientKeyExchange")
             key == Key12("client")
  <1>1. /\ server.phase = "hello" /\ server.version = "1.2" /\ outgoing # <<>>
        /\ outgoing[1].outer = "handshake" /\ outgoing[1].key = NoKey /\ outgoing' = Tail(outgoing)
        /\ server' = [server EXCEPT !.transcript = t, !.dec = key]
        /\ client' = client /\ wire' = wire
        /\ plaintext' = plaintext /\ returned' = returned /\ eof' = eof
    BY AddNothing DEF TakeKeyExchange, ServerSays, ReadVars, Shapes
  <1> HIDE DEF t, key
  <1>2. /\ server'.phase = server.phase /\ server'.version = server.version /\ server'.transcript = t
        /\ server'.enc = server.enc /\ server'.dec = key /\ server'.sent = server.sent
        /\ server'.error = server.error /\ ServerShape'
    BY <1>1 DEF Shapes, ServerShape
  <1>3. Shapes'
    <2>1. IsSequence(outgoing') BY <1>1, TailOf DEF Shapes
    <2>2. QED BY <2>1, <1>1, <1>2 DEF Shapes
  <1>4. Reads' /\ Inbound("1.2")'
    <2>1. "1.2" \in {"1.3", "1.2"} OBVIOUS
    <2>2. PhaseStands("1.2") BY <1>2 DEF PhaseStands
    <2>3. QED BY <2>1, <2>2, <1>1, <1>2, ServerMoves DEF Going
  <1>5. Outbound("1.2")'
    <2>1. PICK k \in Nat, n \in Nat :
            /\ n = k + 1 /\ Expects("1.2", k) /\ IsSent("1.2", n, outgoing[1]) /\ Sent # 0
            /\ Expects("1.2", n)' => Outbound("1.2")'
      BY <1>1, Taken DEF Going, Shapes
    <2>2. \/ k = 0 /\ server.transcript = T12(4)
          \/ k \in {1, 2}
      BY <2>1, <1>1 DEF Expects
    <2>3. k # 1
      <3>1. k = 1 => outgoing[1] = ChangeCipherSpec BY <2>1 DEF IsSent
      <3>2. QED BY <3>1, <1>1, SentParts
    <2>4. k # 2
      <3>1. k = 2 => outgoing[1] = Finished12 BY <2>1 DEF IsSent
      <3>2. QED BY <3>1, <1>1, SentParts
    <2>5. k = 0 /\ n = 1 /\ t = KeyExchanged BY <2>1, <2>2, <2>3, <2>4 DEF KeyExchanged, t
    <2>6. Expects("1.2", n)' BY <2>5, <1>1, <1>2 DEF Expects, key
    <2>7. QED BY <2>1, <2>6
  <1>6. QED BY <1>1, <1>2, <1>3, <1>4, <1>5 DEF Going

LEMMA TakesChangeCipherSpec ==
  ASSUME NEW version \in {"1.3", "1.2"}, Shapes, Reads, Going(version), server.version = version,
         TakeChangeCipherSpec
  PROVE  Shapes' /\ Reads' /\ server'.version = version /\ Going(version)'
  <1>1. /\ outgoing # <<>> /\ outgoing[1].outer = "ccs" /\ outgoing' = Tail(outgoing)
        /\ server' = server /\ client' = client /\ wire' = wire
        /\ plaintext' = plaintext /\ returned' = returned /\ eof' = eof
    BY AddNothing DEF TakeChangeCipherSpec, ServerSays, ReadVars, Shapes
  <1>2. IsSequence(outgoing') BY <1>1, TailOf DEF Shapes
  <1>3. Shapes' BY <1>1, <1>2 DEF Shapes, ServerShape
  <1>v. version \in {"1.3", "1.2"} /\ Inbound(version) /\ Outbound(version) BY DEF Going
  <1>4. Reads' /\ Inbound(version)'
    <2>1. PhaseStands(version) BY <1>1 DEF PhaseStands
    <2>2. QED BY <2>1, <1>1, <1>v, ServerMoves
  <1>5. Outbound(version)'
    <2>1. CASE server.phase = "closed" BY <2>1, <1>1 DEF Outbound
    <2>2. CASE server.phase # "closed"
      <3>1. PICK k \in Nat, n \in Nat :
              /\ n = k + 1 /\ Expects(version, k) /\ IsSent(version, n, outgoing[1]) /\ Sent # 0
              /\ Expects(version, n)' => Outbound(version)'
        BY <1>1, <1>v, <2>2, Taken DEF Shapes
      <3>2. version = "1.3" => k = 0
        <4>1. ASSUME version = "1.3", k = 1 PROVE FALSE
          <5>1. outgoing[1] = Finished13 BY <3>1, <4>1 DEF IsSent
          <5>2. QED BY <5>1, <1>1, SentParts
        <4>2. ASSUME version = "1.3", k > 1 PROVE FALSE
          <5>1. n > 2 BY <3>1, <4>2
          <5>2. \E key : Asks(outgoing[1], "1.3", key) BY <3>1, <4>2, <5>1 DEF IsSent
          <5>3. QED BY <5>2, <1>1, SentParts
        <4>3. k = 0 \/ k = 1 \/ k > 1 OBVIOUS
        <4>4. QED BY <4>1, <4>2, <4>3
      <3>3. version = "1.2" => k = 1
        <4>1. ASSUME version = "1.2", k = 0 PROVE FALSE
          <5>1. n = 1 BY <3>1, <4>1
          <5>2. outgoing[1] = Plain("handshake", <<Msg("ClientKeyExchange")>>) BY <3>1, <4>1, <5>1 DEF IsSent
          <5>3. QED BY <5>2, <1>1, SentParts
        <4>2. ASSUME version = "1.2", k = 2 PROVE FALSE
          <5>1. outgoing[1] = Finished12 BY <3>1, <4>2 DEF IsSent
          <5>2. QED BY <5>1, <1>1, SentParts
        <4>3. ASSUME version = "1.2", k > 2 PROVE FALSE
          <5>1. n > 3 BY <3>1, <4>3
          <5>2. \E key : Asks(outgoing[1], "1.2", key) BY <3>1, <4>3, <5>1 DEF IsSent
          <5>3. QED BY <5>2, <1>1, SentParts
        <4>4. k = 0 \/ k = 1 \/ k = 2 \/ k > 2 OBVIOUS
        <4>5. QED BY <4>1, <4>2, <4>3, <4>4
      <3>4. Expects(version, n)' BY <3>1, <3>2, <3>3, <1>1, <1>v DEF Expects
      <3>5. QED BY <3>1, <3>4
    <2>3. QED BY <2>1, <2>2
  <1>6. Going(version)' BY <1>1, <1>4, <1>5 DEF Going
  <1>7. QED BY <1>1, <1>3, <1>4, <1>6

LEMMA TakesFinished13 ==
  ASSUME Shapes, Reads, Going("1.3"), server.version = "1.3", TakeFinished
  PROVE  Shapes' /\ Reads' /\ server'.version = "1.3" /\ Going("1.3")'
  <1>1. /\ server.phase = "hello" /\ outgoing # <<>> /\ outgoing[1].key # NoKey
        /\ outgoing' = Tail(outgoing) /\ client' = client
        /\ plaintext' = plaintext /\ returned' = returned /\ eof' = eof
    BY DEF TakeFinished, ServerSays, Refuses, ReadVars
  <1>2. PICK k \in Nat, n \in Nat :
          /\ n = k + 1 /\ Expects("1.3", k) /\ IsSent("1.3", n, outgoing[1]) /\ Sent # 0
          /\ Expects("1.3", n)' => Outbound("1.3")'
    BY <1>1, Taken DEF Going, Shapes
  <1>3. k < 2 /\ server.transcript = T13(4) /\ server.dec = Handshake13("client")
    BY <1>1, <1>2 DEF Expects
  <1>4. k = 1
    <2>1. k = 0 => outgoing[1] = ChangeCipherSpec BY <1>2 DEF IsSent
    <2>2. QED BY <2>1, <1>1, <1>3, SentParts
  <1>5. outgoing[1] = Finished13 /\ n = 2 BY <1>2, <1>4 DEF IsSent
  <1>6. outgoing[1].key = server.dec /\ outgoing[1].body[1].hash = server.transcript
    BY <1>3, <1>5, SentParts
  <1> DEFINE key == Key("client", "data", server.transcript)
  <1>7. server' = [server EXCEPT !.phase = "open", !.dec = key] /\ wire' = wire
    <2>1. server' = [server EXCEPT !.phase = "open", !.dec = key] /\ wire' = wire \o <<>>
      BY <1>6 DEF TakeFinished, ServerSays
    <2>2. QED BY <2>1, AddNothing DEF Shapes
  <1>8. key = Nth(DataKey("1.3", "client"), 0)
    <2>1. T13(4) = Hello13 \o Flight13 BY Transcript13
    <2>2. DataKey("1.3", "client") = key BY <2>1, <1>3 DEF DataKey
    <2>3. QED BY <2>2, FirstKeys
  <1> HIDE DEF key
  <1>9. /\ server'.phase = "open" /\ server'.version = server.version
        /\ server'.transcript = server.transcript
        /\ server'.enc = server.enc /\ server'.dec = key /\ server'.sent = server.sent
        /\ server'.error = server.error /\ ServerShape'
    BY <1>7 DEF Shapes, ServerShape
  <1>10. Shapes'
    <2>1. IsSequence(outgoing') BY <1>1, TailOf DEF Shapes
    <2>2. QED BY <2>1, <1>7, <1>9 DEF Shapes
  <1>11. Reads' /\ Inbound("1.3")'
    <2>1. "1.3" \in {"1.3", "1.2"} OBVIOUS
    <2>2. PhaseStands("1.3") BY <1>1, <1>9 DEF PhaseStands
    <2>3. QED BY <2>1, <2>2, <1>1, <1>7, <1>9, ServerMoves DEF Going
  <1>12. Expects("1.3", n)'
    <2>1. n > 1 /\ n - 2 = 0 BY <1>5
    <2>2. server'.dec = Nth(DataKey("1.3", "client"), n - 2) BY <2>1, <1>8, <1>9
    <2>3. QED BY <2>1, <2>2, <1>9 DEF Expects
  <1>13. QED BY <1>2, <1>9, <1>10, <1>11, <1>12 DEF Going

LEMMA TakesFinished12 ==
  ASSUME Shapes, Reads, Going("1.2"), server.version = "1.2", TakeFinished
  PROVE  Shapes' /\ Reads' /\ server'.version = "1.2" /\ Going("1.2")'
  <1>a. "1.2" # "1.3" /\ "1.2" \in {"1.3", "1.2"} /\ 0 \in Nat /\ 1 \in Nat /\ 2 \in Nat OBVIOUS
  <1>1. /\ server.phase = "hello" /\ outgoing # <<>> /\ outgoing[1].key # NoKey
        /\ outgoing' = Tail(outgoing) /\ client' = client
        /\ plaintext' = plaintext /\ returned' = returned /\ eof' = eof
    BY DEF TakeFinished, ServerSays, Refuses, ReadVars
  <1>2. PICK k \in Nat, n \in Nat :
          /\ n = k + 1 /\ Expects("1.2", k) /\ IsSent("1.2", n, outgoing[1]) /\ Sent # 0
          /\ Expects("1.2", n)' => Outbound("1.2")'
    BY <1>1, Taken DEF Going, Shapes
  <1>3. k = 0 \/ k = 1 \/ k = 2 BY <1>1, <1>2 DEF Expects
  <1>4. k = 2
    <2>1. k = 0 => outgoing[1] = Plain("handshake", <<Msg("ClientKeyExchange")>>) BY <1>2 DEF IsSent
    <2>2. k = 1 => outgoing[1] = ChangeCipherSpec BY <1>2 DEF IsSent
    <2>3. QED BY <2>1, <2>2, <1>1, <1>3, SentParts
  <1>5. outgoing[1] = Finished12 /\ n = 3 BY <1>2, <1>4 DEF IsSent
  <1>6. server.transcript = KeyExchanged /\ server.dec = Key12("client") BY <1>1, <1>2, <1>4 DEF Expects
  <1>7. outgoing[1].key = server.dec /\ outgoing[1].body[1].hash = server.transcript
    BY <1>5, <1>6, SentParts
  <1> DEFINE key == Key12("server")
             t == Append(server.transcript, "ClientFinished")
             f == Encrypted("1.2", "handshake", key, <<MessageOf("Finished", t)>>)
             records == <<ChangeCipherSpec, f>>
             enc2 == Used(key)
             dec2 == Used(server.dec)
  <1>8. server' = [server EXCEPT !.phase = "open", !.dec = dec2, !.enc = enc2] /\ wire' = wire \o records
    BY <1>7, <1>a DEF TakeFinished, ServerSays
  <1>9. enc2 = Nth(DataKey("1.2", "server"), 1) /\ dec2 = Nth(DataKey("1.2", "client"), 1)
    <2>1. /\ Nth(DataKey("1.2", "client"), 0) = Key12("client")
          /\ Nth(DataKey("1.2", "server"), 0) = Key12("server")
      BY FirstKeys
    <2>2. \A w \in {"client", "server"} : Used(Nth(DataKey("1.2", w), 0)) = Nth(DataKey("1.2", w), 0 + 1)
      BY <1>a, KeysAre
    <2>3. 0 + 1 = 1 OBVIOUS
    <2>4. QED BY <2>1, <2>2, <2>3, <1>6
  <1>10. f = ServerFinished12
    <2>1. t = Final("1.2") BY <1>6, KeyExchange12
    <2> HIDE DEF t, key
    <2>2. f = Encrypted12("handshake", key, <<MessageOf("Finished", t)>>) BY <1>a DEF Encrypted
    <2>3. QED BY <2>1, <2>2 DEF ServerFinished12, key
  <1> HIDE DEF key, t, f, enc2, dec2
  <1>11. /\ server'.phase = "open" /\ server'.version = server.version
         /\ server'.enc = enc2 /\ server'.dec = dec2 /\ server'.sent = server.sent
         /\ server'.error = server.error /\ ServerShape'
    BY <1>8 DEF Shapes, ServerShape
  <1>12. /\ IsSequence(records) /\ Len(records) = 2
         /\ records[1] = ChangeCipherSpec /\ records[2] = ServerFinished12
    BY <1>10, Tuples
  <1> HIDE DEF records
  <1>13. Shapes'
    <2>1. IsSequence(outgoing') BY <1>1, TailOf DEF Shapes
    <2>2. IsSequence(wire') BY <1>8, <1>12, ConcatOf DEF Shapes
    <2>3. QED BY <2>1, <2>2, <1>11 DEF Shapes
  <1>14. Got' = Got BY <1>1 DEF Got
  <1>15. Reads' BY <1>1, <1>11, <1>14 DEF Reads
  <1>16. PICK h \in Nat, first \in Nat : Front12(h, first) /\ ReplyLeft("1.2", h, first)
    BY <1>a DEF Going, Inbound
  <1>17. client.state \notin {"Open", "asked", "dropped"} BY <1>1, <1>a, TalkingFront DEF Going
  <1>18. /\ NothingRead /\ client = Talking("1.2", "ChangeCipher", 1, 0) /\ Len(wire) = 0 /\ h = 0
    <2>1. \A e \in 0..3 : client # Reading12(e) BY <1>2, SentIs DEF Sent
    <2>2. QED BY <2>1, <1>1, <1>16, <1>17, FrontOf12
  <1>19. Len(wire') = 2 /\ wire'[1] = ChangeCipherSpec /\ wire'[2] = ServerFinished12
    <2>1. wire' = records
      <3>1. wire = <<>> BY <1>18, Shape DEF Shapes
      <3>2. QED BY <3>1, <1>8, <1>12 DEF IsSequence
    <2>2. QED BY <2>1, <1>12
  <1>20. Front12(2, 1)'
    <2>1. NothingRead' BY <1>1, <1>18 DEF NothingRead
    <2>2. server'.phase # "hello" /\ 2 <= Len(wire') BY <1>11, <1>19
    <2>3. client' = Talking("1.2", "ChangeCipher", 1, 0) BY <1>1, <1>18
    <2>4. QED BY <2>1, <2>2, <2>3, <1>19 DEF Front12
  <1>21. Got \in Nat /\ Got = server.sent
    <2> DEFINE m == Len(wire) - h
    <2>1. PICK cut \in [0..m -> Nat] : cut[0] = Got /\ cut[m] = server.sent
      BY <1>16 DEF ReplyLeft
    <2>2. m = 0 BY <1>18
    <2> HIDE DEF m
    <2>3. QED BY <2>1, <2>2
  <1>22. ReplyLeft("1.2", 2, 1)'
    <2> DEFINE m == Len(wire') - 2
               cut == [x \in 0..m |-> Got]
    <2>1. m = 0 /\ m \in Nat BY <1>19
    <2> HIDE DEF m
    <2>2. m >= 0 /\ (\A x \in 1..m : FALSE) /\ 1 + m = 1 /\ 0 \in 0..m /\ m \in 0..m BY <2>1
    <2>3. cut \in [0..m -> Nat] /\ cut[0] = Got /\ cut[m] = Got BY <2>2, <1>21
    <2>4. cut[0] = Got' /\ cut[m] = server'.sent BY <2>3, <1>11, <1>14, <1>21
    <2>5. server'.enc = Nth(DataKey("1.2", "server"), 1 + m) /\ server'.phase # "hello"
      BY <2>2, <1>9, <1>11
    <2> HIDE DEF cut
    <2>6. QED BY <2>2, <2>3, <2>4, <2>5 DEF ReplyLeft, m
  <1>23. Inbound("1.2")' BY <1>20, <1>22, <1>a DEF Inbound
  <1>24. Expects("1.2", n)'
    <2>1. n > 2 /\ n - 2 = 1 BY <1>5
    <2>2. server'.dec = Nth(DataKey("1.2", "client"), n - 2) BY <2>1, <1>9, <1>11
    <2>3. QED BY <2>1, <2>2, <1>11 DEF Expects
  <1>25. QED BY <1>2, <1>11, <1>13, <1>15, <1>23, <1>24 DEF Going

LEMMA TakesData ==
  ASSUME NEW version \in {"1.3", "1.2"}, Shapes, Reads, Going(version), server.version = version,
         TakeData
  PROVE  Shapes' /\ Reads' /\ server'.version = version /\ Going(version)'
  <1>1. /\ server.phase \in {"open", "replying"} /\ outgoing # <<>>
        /\ outgoing' = Tail(outgoing) /\ client' = client
        /\ plaintext' = plaintext /\ returned' = returned /\ eof' = eof
    BY DEF TakeData, ServerSays, Refuses, ReadVars
  <1>2. PICK k \in Nat, n \in Nat :
          /\ n = k + 1 /\ Expects(version, k) /\ IsSent(version, n, outgoing[1]) /\ Sent # 0
          /\ Expects(version, n)' => Outbound(version)'
    BY <1>1, Taken DEF Going, Shapes
  <1>3. /\ k > (IF version = "1.3" THEN 1 ELSE 2)
        /\ server.dec = Nth(DataKey(version, "client"), k - 2)
    BY <1>1, <1>2 DEF Expects
  <1> DEFINE i == k - 2
             j == n - 2
  <1>4. i \in Nat /\ j \in Nat /\ j = i + 1 /\ n - 3 = i BY <1>2, <1>3
  <1>5. outgoing[1].key = server.dec
    <2>1. Asks(outgoing[1], version, Nth(DataKey(version, "client"), n - 3))
      <3>1. CASE version = "1.3"
        <4>1. n > 2 BY <1>2, <1>3, <3>1
        <4>2. QED BY <4>1, <3>1, <1>2 DEF IsSent
      <3>2. CASE version = "1.2"
        <4>1. n > 3 BY <1>2, <1>3, <3>2
        <4>2. QED BY <4>1, <3>2, <1>2 DEF IsSent
      <3>3. QED BY <3>1, <3>2
    <2>2. QED BY <2>1, <1>3, <1>4, SentParts
  <1> DEFINE dec2 == Used(server.dec)
             phase2 == IF outgoing[1].inner = "data" THEN "replying" ELSE "closed"
  <1>6. server' = [server EXCEPT !.dec = dec2, !.phase = phase2] /\ wire' = wire
    <2>1. server' = [server EXCEPT !.dec = dec2, !.phase = phase2] /\ wire' = wire \o <<>>
      BY <1>5 DEF TakeData, ServerSays
    <2>2. QED BY <2>1, AddNothing DEF Shapes
  <1>7. phase2 = "replying" \/ phase2 = "closed" OBVIOUS
  <1>8. dec2 = Nth(DataKey(version, "client"), j)
    <2>1. server.dec = Nth(DataKey(version, "client"), i) BY <1>3
    <2> HIDE DEF i
    <2>2. Used(Nth(DataKey(version, "client"), i)) = Nth(DataKey(version, "client"), i + 1)
      BY <1>4, KeysAre
    <2>3. QED BY <2>1, <2>2, <1>4
  <1> HIDE DEF dec2, phase2
  <1>9. /\ server'.phase = phase2 /\ server'.version = server.version
        /\ server'.enc = server.enc /\ server'.dec = dec2 /\ server'.sent = server.sent
        /\ server'.error = server.error /\ ServerShape'
    BY <1>6 DEF Shapes, ServerShape
  <1>10. Shapes'
    <2>1. IsSequence(outgoing') BY <1>1, TailOf DEF Shapes
    <2>2. QED BY <2>1, <1>6, <1>9 DEF Shapes
  <1>11. Reads' /\ Inbound(version)'
    <2>1. PhaseStands(version) \/ server'.phase = "closed" BY <1>1, <1>7, <1>9 DEF PhaseStands
    <2>2. QED BY <2>1, <1>1, <1>6, <1>9, ServerMoves DEF Going
  <1>12. Outbound(version)'
    <2>1. CASE phase2 = "closed" BY <2>1, <1>9 DEF Outbound
    <2>2. CASE phase2 = "replying"
      <3>1. n > (IF version = "1.3" THEN 1 ELSE 2) BY <1>2, <1>3
      <3>2. server'.dec = Nth(DataKey(version, "client"), n - 2) BY <1>8, <1>9
      <3>3. Expects(version, n)' BY <3>1, <3>2, <2>2, <1>9 DEF Expects
      <3>4. QED BY <3>3, <1>2
    <2>3. QED BY <2>1, <2>2, <1>7
  <1>13. server'.phase # "start" BY <1>7, <1>9
  <1>14. QED BY <1>9, <1>10, <1>11, <1>12, <1>13 DEF Going

(* The server sends one record, encrypted with its key for the reply.      *)
LEMMA ServerSends ==
  ASSUME NEW version \in {"1.3", "1.2"}, Shapes, Reads, Going(version), server.version = version,
         server.phase # "closed", ~(version = "1.2" /\ server.phase = "hello"),
         NEW r, wire' = wire \o <<r>>, client' = client, outgoing' = outgoing,
         plaintext' = plaintext, returned' = returned, eof' = eof,
         ServerShape', server'.version = server.version, server'.error = server.error,
         server'.sent \in Nat, server'.phase \notin {"start"},
         Carries(r, version, server.enc, server.sent, server'.sent),
         r.inner = "alert" => server'.phase = "closed",
         \/ /\ server'.phase = server.phase /\ server'.transcript = server.transcript
            /\ server'.dec = server.dec /\ server'.enc = Used(server.enc)
         \/ server'.phase = "closed"
  PROVE  Shapes' /\ Reads' /\ server'.version = version /\ Going(version)'
  <1>1. wire' = Append(wire, r) BY DEF Shapes, IsSequence
  <1>2. Shapes'
    <2>1. IsSequence(wire) BY DEF Shapes
    <2>2. IsSequence(Append(wire, r)) BY ONLY <2>1, AppendOf
    <2>3. IsSequence(wire') BY ONLY <1>1, <2>2
    <2>4. QED BY <2>3 DEF Shapes
  <1>3. Got' = Got BY DEF Got
  <1>4. Reads' BY <1>3 DEF Reads
  <1>5. NothingRead => NothingRead' BY DEF NothingRead
  <1>6. \A n \in Nat : server.enc = Nth(DataKey(version, "server"), n) /\ server'.phase # "closed" =>
                         server'.enc = Nth(DataKey(version, "server"), n + 1)
    <2>1. \A n \in Nat : Used(Nth(DataKey(version, "server"), n)) = Nth(DataKey(version, "server"), n + 1)
      BY KeysAre
    <2>2. QED BY <2>1
  <1>7. PhaseStands(version) \/ server'.phase = "closed" BY DEF PhaseStands
  <1>8. Inbound(version)' BY <1>1, <1>3, <1>5, <1>6, <1>7, InGrows DEF Going, Shapes
  <1>9. Outbound(version)'
    <2>1. Sent' = Sent BY DEF Sent
    <2>2. QED BY <2>1, OutStands DEF Going
  <1>10. QED BY <1>2, <1>4, <1>8, <1>9 DEF Going

(* it sends tickets and bytes, and closes.                                 *)
LEMMA SendsTicket ==
  ASSUME NEW version \in {"1.3", "1.2"}, Shapes, Reads, Going(version), server.version = version,
         SendTicket
  PROVE  Shapes' /\ Reads' /\ server'.version = version /\ Going(version)'
  <1> DEFINE enc2 == Used(server.enc)
             r == Encrypted("1.3", "handshake", server.enc, <<Msg("NewSessionTicket")>>)
  <1>1. /\ version = "1.3" /\ server.phase \in {"hello", "replying"}
        /\ server' = [server EXCEPT !.enc = enc2] /\ wire' = wire \o <<r>> /\ outgoing' = outgoing
        /\ client' = client /\ plaintext' = plaintext /\ returned' = returned /\ eof' = eof
    BY DEF SendTicket, ServerSays, ReadVars
  <1>2. /\ Carries(r, "1.3", server.enc, server.sent, server.sent) /\ r.inner # "alert"
    BY DEF Carries, Encrypted, Encrypted13, Record
  <1> HIDE DEF r, enc2
  <1>3. /\ server'.phase = server.phase /\ server'.version = server.version
        /\ server'.transcript = server.transcript
        /\ server'.enc = enc2 /\ server'.dec = server.dec /\ server'.sent = server.sent
        /\ server'.error = server.error /\ ServerShape'
    BY <1>1 DEF Shapes, ServerShape
  <1>4. /\ server'.enc = Used(server.enc) /\ server'.sent \in Nat /\ server'.phase \notin {"start"}
        /\ Carries(r, version, server.enc, server.sent, server'.sent)
        /\ ~(version = "1.2" /\ server.phase = "hello") /\ server.phase # "closed"
    BY <1>1, <1>2, <1>3 DEF enc2, Shapes
  <1>5. QED BY <1>1, <1>2, <1>3, <1>4, ServerSends

LEMMA SendsBytes ==
  ASSUME NEW version \in {"1.3", "1.2"}, Shapes, Reads, Going(version), server.version = version,
         NEW n \in DataSizes, SendBytes(n)
  PROVE  Shapes' /\ Reads' /\ server'.version = version /\ Going(version)'
  <1> DEFINE enc2 == Used(server.enc)
             sent2 == server.sent + n
             r == Encrypted(version, "data", server.enc, Bytes(server.sent, sent2))
  <1>1. /\ server.phase = "replying"
        /\ server' = [server EXCEPT !.enc = enc2, !.sent = sent2] /\ wire' = wire \o <<r>>
        /\ outgoing' = outgoing
        /\ client' = client /\ plaintext' = plaintext /\ returned' = returned /\ eof' = eof
    BY DEF SendBytes, ServerSays, ReadVars
  <1>2. sent2 \in Nat /\ server.sent < sent2 BY TlsAssumption DEF TlsAssumption, Shapes
  <1> HIDE DEF sent2
  <1>3. Carries(r, version, server.enc, server.sent, sent2) BY <1>2 DEF Carries
  <1>4. r.inner = "data" BY DEF Encrypted, Encrypted13, Encrypted12, Record
  <1> HIDE DEF r, enc2
  <1>5. /\ server'.phase = server.phase /\ server'.version = server.version
        /\ server'.transcript = server.transcript
        /\ server'.enc = enc2 /\ server'.dec = server.dec /\ server'.sent = sent2
        /\ server'.error = server.error /\ ServerShape'
    BY <1>1 DEF Shapes, ServerShape
  <1>6. /\ server'.enc = Used(server.enc) /\ server'.sent \in Nat /\ server'.phase \notin {"start"}
        /\ Carries(r, version, server.enc, server.sent, server'.sent)
        /\ ~(version = "1.2" /\ server.phase = "hello") /\ server.phase # "closed" /\ r.inner # "alert"
    BY <1>1, <1>2, <1>3, <1>4, <1>5 DEF enc2
  <1>7. QED BY <1>1, <1>5, <1>6, ServerSends

LEMMA Closes ==
  ASSUME NEW version \in {"1.3", "1.2"}, Shapes, Reads, Going(version), server.version = version,
         "1.2" \notin Notifying, Close \/ GiveUp
  PROVE  Shapes' /\ Reads' /\ server'.version = version /\ Going(version)'
  <1>1. /\ server' = [server EXCEPT !.phase = "closed"] /\ outgoing' = outgoing
        /\ client' = client /\ plaintext' = plaintext /\ returned' = returned /\ eof' = eof
        /\ server.phase \in {"hello", "replying"}
    BY DEF Close, GiveUp, ServerSays, ReadVars
  <1>2. /\ server'.phase = "closed" /\ server'.version = server.version
        /\ server'.enc = server.enc /\ server'.sent = server.sent
        /\ server'.error = server.error /\ ServerShape'
    BY <1>1 DEF Shapes, ServerShape
  <1> DEFINE r == Encrypted(version, "alert", server.enc, <<"close_notify">>)
  <1>3. CASE wire' = wire \o <<>>
    <2>1. wire' = wire BY <1>3, AddNothing DEF Shapes
    <2>2. Shapes' BY <2>1, <1>1, <1>2 DEF Shapes
    <2>3. Reads' /\ Inbound(version)' BY <2>1, <1>1, <1>2, ServerMoves DEF Going
    <2>4. Outbound(version)' BY <1>2 DEF Outbound
    <2>5. QED BY <2>2, <2>3, <2>4, <1>2 DEF Going
  <1>4. CASE server.phase = "replying" /\ version = "1.3" /\ wire' = wire \o <<r>>
    <2>1. Carries(r, version, server.enc, server.sent, server.sent)
      BY <1>4 DEF Carries, Encrypted
    <2> HIDE DEF r
    <2>2. /\ server'.sent \in Nat /\ server'.phase \notin {"start"}
          /\ Carries(r, version, server.enc, server.sent, server'.sent)
          /\ ~(version = "1.2" /\ server.phase = "hello") /\ server.phase # "closed"
      BY <2>1, <1>2, <1>4 DEF Shapes
    <2>3. QED BY <2>2, <1>1, <1>2, <1>4, ServerSends
  <1>5. \/ wire' = wire \o <<>>
        \/ server.phase = "replying" /\ version = "1.3" /\ wire' = wire \o <<r>>
    <2> HIDE DEF r
    <2>1. ASSUME Close PROVE \/ wire' = wire \o <<>>
                             \/ server.phase = "replying" /\ version = "1.3" /\ wire' = wire \o <<r>>
      BY <2>1 DEF Close, ServerSays, r
    <2>2. ASSUME GiveUp PROVE wire' = wire \o <<>> BY <2>2 DEF GiveUp, ServerSays
    <2>3. QED BY <2>1, <2>2
  <1>6. QED BY <1>3, <1>4, <1>5

(* Step by step: a connection of a version goes on with that version,      *)
Goes(version) == Shapes /\ Reads /\ server.version = version /\ Going(version)

(* when nothing happens,                                                   *)
LEMMA NothingHappens ==
  ASSUME NEW version \in {"1.3", "1.2"}, Goes(version), UNCHANGED <<client, server, outgoing, wire, ReadVars>>
  PROVE  Goes(version)'
  <1>1. /\ client' = client /\ server' = server /\ outgoing' = outgoing /\ wire' = wire
        /\ plaintext' = plaintext /\ returned' = returned /\ eof' = eof
    BY DEF ReadVars
  <1>2. Shapes' BY <1>1 DEF Goes, Shapes, ServerShape
  <1>3. PhaseStands(version) BY <1>1 DEF PhaseStands
  <1>4. Reads' /\ Inbound(version)' BY <1>1, <1>3, ServerMoves DEF Goes, Going
  <1>5. Sent' = Sent BY <1>1 DEF Sent
  <1>6. Outbound(version)' BY <1>1, <1>5, OutStands DEF Goes, Going
  <1>7. QED BY <1>1, <1>2, <1>4, <1>6 DEF Goes, Going

(* when the client takes a record of the handshake, sends its Finished,    *)
(* asks or drops, reads,                                                   *)
LEMMA TakesHandshake ==
  ASSUME NEW version \in {"1.3", "1.2"}, Goes(version), TakeHandshakeRecord
  PROVE  Goes(version)'
  <1>1. /\ server' = server /\ plaintext' = plaintext /\ returned' = returned /\ eof' = eof
        /\ outgoing' = outgoing \o SentBy(client, client') /\ wire' = Tail(wire) /\ wire # <<>>
    BY DEF TakeHandshakeRecord, ReadVars, Take, RecordComplete
  <1>2. IsSequence(wire) /\ IsSequence(outgoing) BY DEF Goes, Shapes
  <1>3. IsSequence(wire') BY <1>1, <1>2, WireTail
  <1>4. IsSequence(outgoing')
    <2> DEFINE records == SentBy(client, client')
    <2>1. IsSequence(records) BY Tuples DEF SentBy
    <2> HIDE DEF records
    <2>2. IsSequence(outgoing \o records) BY ONLY <1>2, <2>1, ConcatOf
    <2>3. QED BY <1>1, <2>2 DEF records
  <1>5. Shapes' BY <1>1, <1>3, <1>4 DEF Goes, Shapes, ServerShape
  <1>6. Reads' BY <1>1 DEF Goes, Reads, Got
  <1>7. Inbound(version)' /\ Outbound(version)'
    <2>1. Inbound(version) /\ Outbound(version) BY DEF Goes, Going
    <2>2. CASE version = "1.3" BY <2>1, <2>2, <1>2, TakesHandshake13
    <2>3. CASE version = "1.2" BY <2>1, <2>3, <1>2, TakesHandshake12
    <2>4. QED BY <2>2, <2>3
  <1>8. QED BY <1>1, <1>5, <1>6, <1>7 DEF Goes, Going

LEMMA Finishes ==
  ASSUME NEW version \in {"1.3", "1.2"}, Goes(version), SendFinished
  PROVE  Goes(version)'
  <1> DEFINE f == Encrypted("1.3", "handshake", client.enc, <<MessageOf("ClientFinished", client.transcript)>>)
             records == <<ChangeCipherSpec, f>>
  <1>1. /\ server' = server /\ plaintext' = plaintext /\ returned' = returned /\ eof' = eof
        /\ wire' = wire /\ outgoing' = outgoing \o records /\ client.state = "Complete"
    BY DEF SendFinished, ReadVars
  <1>2. IsSequence(wire) /\ IsSequence(outgoing) /\ Inbound(version) /\ Outbound(version)
    BY DEF Goes, Going, Shapes
  <1>3. version = "1.3"
    <2>1. ASSUME version = "1.2" PROVE FALSE
      <3>1. PICK h \in Nat, first \in Nat : Front12(h, first) BY <1>2, <2>1 DEF Inbound
      <3>2. QED BY <3>1, <1>1, FrontOf12
    <2>2. QED BY <2>1
  <1>4. IsSequence(outgoing')
    <2> HIDE DEF f
    <2>1. IsSequence(records) BY Tuples
    <2> HIDE DEF records
    <2>2. IsSequence(outgoing \o records) BY ONLY <1>2, <2>1, ConcatOf
    <2>3. QED BY <1>1, <2>2
  <1> HIDE DEF records
  <1>5. Shapes' BY <1>1, <1>2, <1>4 DEF Goes, Shapes, ServerShape
  <1>6. Reads' BY <1>1 DEF Goes, Reads, Got
  <1>7. Inbound(version)' /\ Outbound(version)' BY <1>2, <1>3, SendsFinished
  <1>8. QED BY <1>1, <1>5, <1>6, <1>7 DEF Goes, Going

LEMMA Asking ==
  ASSUME NEW version \in {"1.3", "1.2"}, Goes(version), SendRequest \/ Drop
  PROVE  Goes(version)'
  <1>1. PICK state, r :
          /\ state \in {"asked", "dropped"} /\ server' = server /\ plaintext' = plaintext /\ returned' = returned /\ eof' = eof
          /\ wire' = wire /\ outgoing' = Append(outgoing, r) /\ client' = Wrote(client, state)
          /\ Asks(r, client.version, client.enc) /\ client.state \in {"Open", "asked"}
    <2>1. CASE SendRequest
      <3> DEFINE r == Encrypted(client.version, "data", client.enc, <<"request">>)
      <3>1. /\ server' = server /\ plaintext' = plaintext /\ returned' = returned /\ eof' = eof
            /\ wire' = wire /\ outgoing' = Append(outgoing, r) /\ client' = Wrote(client, "asked")
            /\ client.state \in {"Open", "asked"}
        BY <2>1 DEF SendRequest, ReadVars, Wrote
      <3>2. Asks(r, client.version, client.enc) BY DEF Asks
      <3> HIDE DEF r
      <3>3. QED BY <3>1, <3>2
    <2>2. CASE Drop
      <3> DEFINE r == Encrypted(client.version, "alert", client.enc, <<"close_notify">>)
      <3>1. /\ server' = server /\ plaintext' = plaintext /\ returned' = returned /\ eof' = eof
            /\ wire' = wire /\ outgoing' = Append(outgoing, r) /\ client' = Wrote(client, "dropped")
            /\ client.state \in {"Open", "asked"}
        BY <2>2 DEF Drop, IsOpen, ReadVars, Wrote
      <3>2. Asks(r, client.version, client.enc) BY DEF Asks
      <3> HIDE DEF r
      <3>3. QED BY <3>1, <3>2
    <2>3. QED BY <2>1, <2>2
  <1>2. IsSequence(wire) /\ IsSequence(outgoing) /\ Inbound(version) /\ Outbound(version)
    BY DEF Goes, Going, Shapes
  <1>3. client.version = version
    <2>1. client.state \in {"Open", "asked", "dropped"} BY <1>1
    <2>2. PICK first \in Nat, w \in Nat : client = Talking(version, client.state, w, first)
      BY <2>1, <1>2, TalkingFront
    <2>3. QED BY <2>2, TalkingState
  <1>4. IsSequence(outgoing')
    <2>1. IsSequence(Append(outgoing, r)) BY ONLY <1>2, AppendOf
    <2>2. QED BY ONLY <1>1, <2>1
  <1>5. Shapes' BY <1>1, <1>2, <1>4 DEF Goes, Shapes, ServerShape
  <1>6. Reads' BY <1>1 DEF Goes, Reads, Got
  <1>7. Got' = Got BY <1>1 DEF Got
  <1>8. Inbound(version)' /\ Outbound(version)' BY <1>1, <1>2, <1>3, <1>7, TalkerSends
  <1>9. QED BY <1>1, <1>5, <1>6, <1>8 DEF Goes, Going

LEMMA Reading ==
  ASSUME NEW version \in {"1.3", "1.2"}, Goes(version), ReadPlaintext \/ ReadNext \/ ReadEnd
  PROVE  Goes(version)'
  <1>1. Shapes /\ Reads /\ IsSequence(wire) /\ Inbound(version) /\ Outbound(version)
    BY DEF Goes, Going, Shapes
  <1>2. /\ server' = server /\ outgoing' = outgoing
        /\ (wire' = wire \/ (wire # <<>> /\ wire' = Tail(wire)))
    BY DEF ReadPlaintext, ReadNext, ReadEnd, Take, RecordComplete
  <1>3. IsSequence(wire') BY <1>1, <1>2, WireTail
  <1>4. Shapes' BY <1>2, <1>3 DEF Goes, Shapes, ServerShape
  <1>5. Reads' /\ Inbound(version)' /\ Outbound(version)' BY <1>1, ReadsPlaintext, ReadsNext, ReadsEnd
  <1>6. QED BY <1>2, <1>4, <1>5 DEF Goes, Going

(* or fails because the server hung up.                                    *)
IsState(c) == c = State(c.state, c.version, c.transcript, c.enc, c.dec)

LEMMA StateIs == \A s, v, t, enc, dec : IsState(State(s, v, t, enc, dec))
  BY DEF IsState, State

LEMMA IsClosed ==
  ASSUME NEW version \in {"1.3", "1.2"}, Goes(version), ClosedInHandshake
  PROVE  Shapes' /\ Reads' /\ Failed'
  <1>1. /\ server' = server /\ plaintext' = plaintext /\ returned' = returned /\ eof' = eof
        /\ wire' = wire /\ outgoing' = outgoing /\ client' = Fails(client, "closed")
        /\ client.state \notin {"start", "Complete", "Open", "asked", "dropped"}
        /\ server.phase = "closed"
    BY DEF ClosedInHandshake, Handshaking, ReadVars
  <1>2. Shapes' BY <1>1 DEF Goes, Shapes, ServerShape
  <1>3. Reads' BY <1>1 DEF Goes, Reads, Got
  <1>4. NothingRead /\ IsState(client)
    <2>1. \A e, j : IsState(Reading13(e, j)) BY StateIs DEF Reading13
    <2>2. IsState(Greeted) BY StateIs DEF Greeted
    <2>3. \A e : IsState(Reading12(e)) BY <2>2, StateIs DEF Reading12
    <2>4. \A v, s, w, r : IsState(Talking(v, s, w, r)) BY StateIs DEF Talking
    <2>5. CASE version = "1.3"
      <3>1. PICK h \in Nat, first \in Nat : Front13(h, first) BY <2>5 DEF Goes, Going, Inbound
      <3>2. NothingRead /\ (client = Greeted \/ \E e, j : client = Reading13(e, j))
        BY <3>1, <1>1, FrontOf13
      <3>3. QED BY <3>2, <2>1, <2>2
    <2>6. CASE version = "1.2"
      <3>1. PICK h \in Nat, first \in Nat : Front12(h, first) BY <2>6 DEF Goes, Going, Inbound
      <3>2. NothingRead /\ \/ \E e : client = Reading12(e)
                           \/ \E v, s, w, r : client = Talking(v, s, w, r)
        BY <3>1, <1>1, FrontOf12
      <3>3. QED BY <3>2, <2>3, <2>4
    <2>7. QED BY <2>5, <2>6
  <1>5. client'.error = "closed" /\ client'.state = client.state
    <2>1. client = State(client.state, client.version, client.transcript, client.enc, client.dec)
      BY <1>4 DEF IsState
    <2>2. \A s, v, t, enc, dec :
            /\ Fails(State(s, v, t, enc, dec), "closed").error = "closed"
            /\ Fails(State(s, v, t, enc, dec), "closed").state = s
      BY DEF Fails, State
    <2>3. QED BY <2>1, <2>2, <1>1
  <1>6. NothingRead' BY <1>1, <1>4 DEF NothingRead
  <1>7. QED BY <1>1, <1>2, <1>3, <1>5, <1>6 DEF Failed

(* The server's answer to the hello begins the handshake of a version: of  *)
(* TLS 1.2 with a record for each message, of TLS 1.3 with any.            *)
LEMMA Answered ==
  ASSUME NEW version \in {"1.3", "1.2"}, Shapes, Reads, Beginning, client = Greeted,
         outgoing = <<ClientHello>>, outgoing' = Tail(outgoing), client' = client,
         UNCHANGED ReadVars, ServerShape', server'.version = version, server'.phase = "hello",
         server'.sent = server.sent, server'.error = server.error,
         NEW h \in Nat, NEW first \in Nat, IsSequence(wire'), Len(wire') = h,
         IF version = "1.3" THEN Front13(h, first)' ELSE Front12(h, first)',
         server'.enc = IF version = "1.2" THEN NoKey ELSE Nth(DataKey(version, "server"), first),
         Expects(version, 0)'
  PROVE  Goes(version)'
  <1>1. plaintext' = plaintext /\ returned' = returned /\ eof' = eof BY DEF ReadVars
  <1>2. IsSequence(outgoing') /\ Len(outgoing') = 0
    <2>1. IsSequence(outgoing) /\ Len(outgoing) = 1 /\ outgoing # <<>> BY Tuples, Shape
    <2>2. IsSequence(Tail(outgoing)) /\ Len(Tail(outgoing)) = Len(outgoing) - 1
      BY ONLY <2>1, TailOf
    <2>3. QED BY <2>1, <2>2
  <1>3. Shapes' BY <1>2 DEF Shapes
  <1>4. Reads' BY <1>1 DEF Reads, Got, Beginning, NothingRead
  <1>5. Got' = 0 /\ server'.sent = 0
    <2>1. plaintext' = <<>> /\ returned' = <<>> BY <1>1 DEF Beginning, NothingRead
    <2>2. QED BY <2>1, Tuples DEF Got, Beginning
  <1>6. ReplyLeft(version, h, first)'
    <2> DEFINE m == Len(wire') - h
               cut == [x \in 0..m |-> 0]
    <2>1. m = 0 /\ m \in Nat OBVIOUS
    <2> HIDE DEF m
    <2>2. m >= 0 /\ (\A x \in 1..m : FALSE) /\ first + m = first /\ 0 \in 0..m /\ m \in 0..m BY <2>1
    <2>3. cut \in [0..m -> Nat] /\ cut[0] = Got' /\ cut[m] = server'.sent BY <2>2, <1>5
    <2>4. server'.enc = IF version = "1.2" /\ server'.phase = "hello" THEN NoKey
                        ELSE Nth(DataKey(version, "server"), first + m)
      BY <2>2
    <2> HIDE DEF cut
    <2>5. QED BY <2>2, <2>3, <2>4 DEF ReplyLeft, m
  <1>7. Inbound(version)' BY <1>6 DEF Inbound
  <1>8. Outbound(version)'
    <2>1. Sent' = 0 BY SentIs DEF Sent
    <2>2. 0 + Len(outgoing') = Sent' /\ \A x \in 1..Len(outgoing') : FALSE BY <2>1, <1>2
    <2>3. QED BY <2>2 DEF Outbound
  <1>9. QED BY <1>3, <1>4, <1>7, <1>8 DEF Goes, Going

LEMMA Answers12 ==
  ASSUME "1.2" \notin Coalescing, Shapes, Reads, Beginning, Answer12
  PROVE  Goes("1.2")'
  <1>1. client = Greeted /\ outgoing = <<ClientHello>> /\ wire = <<>>
    BY DEF Beginning, Answer12
  <1>2. IsSequence(Messages12) /\ Len(Messages12) = 4 /\ \A i \in 1..4 : Messages12[i] = Msg(Flight12[i])
    <2>1. Messages12 \in Seq({Msg(Flight12[i]) : i \in 1..4}) BY DEF Messages12
    <2>2. Len(Messages12) = 4 /\ \A i \in 1..4 : Messages12[i] = Msg(Flight12[i]) BY DEF Messages12
    <2>3. IsSequence(Messages12) BY ONLY <2>1, SequenceIn
    <2>4. QED BY <2>2, <2>3
  <1>3. PICK packing \in Packings("1.2", Messages12) :
          ServerSays([server EXCEPT !.phase = "hello", !.version = "1.2",
                                    !.transcript = <<"ClientHello">> \o Flight12],
                     [i \in DOMAIN packing |-> Plain("handshake", packing[i])])
    BY DEF Answer12
  <1>4. PICK cut \in Cuts(4, 4) : packing = Packing(Messages12, cut, 4)
    <2> HIDE DEF Messages12
    <2>1. RecordCounts("1.2", 4) = {4} BY DEF RecordCounts
    <2>2. QED BY <2>1, <1>2 DEF Packings
  <1>5. \A i \in 0..4 : cut[i] = i BY DEF Cuts
  <1>6. DOMAIN packing = 1..4 /\ \A i \in 1..4 : packing[i] = <<Msg(Flight12[i])>>
    <2>1. DOMAIN packing = 1..4 /\ \A i \in 1..4 : packing[i] = SubSeq(Messages12, cut[i - 1] + 1, cut[i])
      BY <1>4 DEF Packing
    <2>2. ASSUME NEW i \in 1..4 PROVE packing[i] = <<Msg(Flight12[i])>>
      <3> DEFINE s == SubSeq(Messages12, (i - 1) + 1, i)
                 m == Msg(Flight12[i])
                 t == <<m>>
      <3>1. packing[i] = s
        <4>1. i - 1 \in 0..4 /\ i \in 0..4 OBVIOUS
        <4>2. QED BY <4>1, <2>1, <1>5
      <3>2. i - 1 \in Nat /\ i \in Nat /\ i - 1 <= i /\ i <= 4 /\ i - (i - 1) = 1 /\ (i - 1) + 1 = i OBVIOUS
      <3> HIDE DEF m
      <3>3. IsSequence(s) /\ Len(s) = 1 /\ s[1] = m
        <4> DEFINE a == i - 1
        <4>1. a \in Nat /\ a <= i /\ i - a = 1 /\ a + 1 = i BY <3>2
        <4> HIDE DEF a
        <4>2. /\ IsSequence(SubSeq(Messages12, a + 1, i)) /\ Len(SubSeq(Messages12, a + 1, i)) = i - a
              /\ \A x \in 1..(i - a) : SubSeq(Messages12, a + 1, i)[x] = Messages12[a + x]
          <5>1. IsSequence(Messages12) /\ a \in Nat /\ i \in Nat /\ a <= i /\ i <= Len(Messages12)
            BY <4>1, <3>2, <1>2
          <5>2. QED BY ONLY <5>1, CutOf
        <4>3. Messages12[i] = m BY <1>2 DEF m
        <4>4. s = SubSeq(Messages12, a + 1, i) BY DEF a
        <4>5. QED BY <4>1, <4>2, <4>3, <4>4
      <3> HIDE DEF s
      <3>4. IsSequence(t) /\ Len(t) = 1 /\ t[1] = m BY Tuples
      <3> HIDE DEF t
      <3>5. s = t BY <3>3, <3>4, SameSequence
      <3>6. QED BY <3>1, <3>5 DEF t, m
    <2>3. QED BY <2>1, <2>2
  <1> DEFINE records == [i \in 1..4 |-> Plain("handshake", <<Msg(Flight12[i])>>)]
             t == <<"ClientHello">> \o Flight12
  <1>7. /\ server' = [server EXCEPT !.phase = "hello", !.version = "1.2", !.transcript = t]
        /\ wire' = wire \o records /\ client' = client /\ UNCHANGED ReadVars
    <2>1. [i \in DOMAIN packing |-> Plain("handshake", packing[i])] = records BY <1>6
    <2>2. QED BY <1>3, <2>1 DEF ServerSays
  <1>8. IsSequence(records) /\ Len(records) = 4
    <2>1. records \in Seq({Plain("handshake", <<Msg(Flight12[i])>>) : i \in 1..4}) OBVIOUS
    <2>2. Len(records) = 4 OBVIOUS
    <2> HIDE DEF records
    <2>3. QED BY <2>1, <2>2, SequenceIn
  <1>9. \A i \in 1..4 : records[i] = Plain("handshake", <<Msg(Flight12[i])>>) OBVIOUS
  <1> HIDE DEF records, t
  <1>10. wire' = records BY <1>1, <1>7, <1>8 DEF IsSequence
  <1>11. /\ server'.phase = "hello" /\ server'.version = "1.2" /\ server'.transcript = t
         /\ server'.enc = server.enc /\ server'.dec = server.dec /\ server'.sent = server.sent
         /\ server'.error = server.error /\ ServerShape'
    BY <1>7 DEF Shapes, ServerShape
  <1>12. Front12(4, 1)'
    <2>1. client' = Reading12(0) BY <1>1, <1>7 DEF Reading12
    <2>2. NothingRead' BY <1>7 DEF Beginning, NothingRead, ReadVars
    <2>3. \A x \in 1..4 : wire'[x] = Plain("handshake", <<Msg(Flight12[0 + x])>>)
      <3>1. \A x \in 1..4 : 0 + x = x OBVIOUS
      <3>2. QED BY <3>1, <1>9, <1>10
    <2>4. 0 \in 0..3 /\ 4 = 4 - 0 OBVIOUS
    <2>5. Len(wire') = 4 /\ server'.phase \in {"hello", "closed"} BY <1>8, <1>10, <1>11
    <2>6. \E e \in 0..3 :
             /\ client' = Reading12(e) /\ 4 = 4 - e
             /\ \A x \in 1..4 : wire'[x] = Plain("handshake", <<Msg(Flight12[e + x])>>)
      BY <2>1, <2>3, <2>4, Zenon
    <2>7. QED BY <2>2, <2>5, <2>6 DEF Front12
  <1>13. Expects("1.2", 0)'
    <2>1. server'.transcript = T12(4) BY <1>11, Transcript12 DEF t
    <2>2. server'.dec = NoKey BY <1>11 DEF Beginning
    <2>3. QED BY <2>1, <2>2, <1>11 DEF Expects
  <1>14. IsSequence(wire') /\ Len(wire') = 4 BY <1>8, <1>10
  <1>15. server'.enc = NoKey BY <1>11 DEF Beginning
  <1>16. outgoing' = Tail(outgoing) BY DEF Answer12
  <1>17. /\ "1.2" \in {"1.3", "1.2"} /\ "1.2" # "1.3" /\ 4 \in Nat /\ 1 \in Nat OBVIOUS
  <1>18. QED BY <1>1, <1>7, <1>11, <1>12, <1>13, <1>14, <1>15, <1>16, <1>17, Answered

(* The server's flight of TLS 1.3, in as many records as it likes.         *)
LEMMA Flight13Packed ==
  ASSUME NEW packing \in Packings("1.3", Messages13)
  PROVE  \E k \in 1..4 : \E ends \in [0..k -> 0..4] :
           /\ ends[0] = 0 /\ ends[k] = 4 /\ DOMAIN packing = 1..k
           /\ \A x \in 1..k : /\ ends[x - 1] < ends[x]
                              /\ packing[x] = SubSeq(Messages13, ends[x - 1] + 1, ends[x])
  <1>1. Len(Messages13) = 4 BY DEF Messages13
  <1> DEFINE m == Messages13
  <1> HIDE DEF m
  <1>2. PICK k \in RecordCounts("1.3", 4) : \E cut \in Cuts(k, 4) : packing = Packing(m, cut, k)
    BY <1>1 DEF Packings, m
  <1>c. PICK cut \in Cuts(k, 4) : packing = Packing(m, cut, k) BY <1>2
  <1>3. k \in 1..4 BY DEF RecordCounts
  <1>4. /\ cut \in [0..k -> 0..4] /\ cut[0] = 0 /\ cut[k] = 4
        /\ \A x \in 1..k : cut[x - 1] < cut[x]
    BY DEF Cuts
  <1>5. /\ DOMAIN packing = 1..k
        /\ \A x \in 1..k : packing[x] = SubSeq(m, cut[x - 1] + 1, cut[x])
    BY <1>c DEF Packing
  <1>6. QED BY <1>3, <1>4, <1>5 DEF m

LEMMA Answers13 ==
  ASSUME Shapes, Reads, Beginning, Answer13
  PROVE  Goes("1.3")'
  <1>1. client = Greeted /\ outgoing = <<ClientHello>> /\ wire = <<>> /\ outgoing' = Tail(outgoing)
    BY DEF Beginning, Answer13
  <1> DEFINE hello == Plain("handshake", <<Msg("ServerHello13")>>)
             t == Hello13 \o Flight13
             enc2 == Key("server", "data", t)
             dec2 == Key("client", "handshake", Hello13)
  <1>2. PICK packing \in Packings("1.3", Messages13), ccs \in {<<>>, <<ChangeCipherSpec>>} :
          ServerSays([server EXCEPT !.phase = "hello", !.version = "1.3", !.transcript = t,
                                    !.enc = enc2, !.dec = dec2],
                     <<hello>> \o ccs \o
                     [i \in DOMAIN packing |->
                        Encrypted("1.3", "handshake",
                                  [Key("server", "handshake", Hello13) EXCEPT !.seq = i - 1],
                                  packing[i])])
    BY DEF Answer13
  <1>k. PICK k \in 1..4 : \E ends \in [0..k -> 0..4] :
          /\ ends[0] = 0 /\ ends[k] = 4 /\ DOMAIN packing = 1..k
          /\ \A x \in 1..k : /\ ends[x - 1] < ends[x]
                             /\ packing[x] = SubSeq(Messages13, ends[x - 1] + 1, ends[x])
    BY Flight13Packed
  <1>3. PICK ends \in [0..k -> 0..4] :
          /\ ends[0] = 0 /\ ends[k] = 4 /\ DOMAIN packing = 1..k
          /\ \A x \in 1..k : /\ ends[x - 1] < ends[x]
                             /\ packing[x] = SubSeq(Messages13, ends[x - 1] + 1, ends[x])
    BY <1>k
  <1> DEFINE flight == [i \in 1..k |-> Encrypted13("handshake", Nth(Handshake13("server"), i - 1), packing[i])]
             records == <<hello>> \o ccs \o flight
  <1>4. /\ server' = [server EXCEPT !.phase = "hello", !.version = "1.3", !.transcript = t,
                                    !.enc = enc2, !.dec = dec2]
        /\ wire' = wire \o records /\ client' = client /\ UNCHANGED ReadVars
    <2>1. [i \in DOMAIN packing |->
                        Encrypted("1.3", "handshake",
                                  [Key("server", "handshake", Hello13) EXCEPT !.seq = i - 1],
                                  packing[i])] = flight
      BY <1>3 DEF Encrypted, Nth, Handshake13
    <2> HIDE DEF hello, flight, t, enc2, dec2
    <2>2. QED BY <1>2, <2>1 DEF ServerSays
  <1>5. IsSequence(flight) /\ Len(flight) = k
    <2> DEFINE S == {flight[i] : i \in 1..k}
    <2>1. flight = [i \in 1..k |-> flight[i]] OBVIOUS
    <2>2. \A i \in 1..k : flight[i] \in S OBVIOUS
    <2> HIDE DEF flight, S
    <2>3. flight \in Seq(S) /\ Len(flight) = k BY <2>1, <2>2
    <2>4. QED BY <2>3, SequenceIn
  <1>6. \A x \in 1..k : flight[x] = FlightRecord(ends[x - 1], ends[x], x - 1)
    BY <1>3 DEF FlightRecord
  <1> HIDE DEF flight, hello, t, enc2, dec2
  <1> DEFINE top == <<hello>> \o ccs
  <1>7. PICK b \in {1, 2} : /\ IsSequence(top) /\ Len(top) = b /\ top[1] = hello
                            /\ b = 2 => top[2] = ChangeCipherSpec
    <2>1. /\ IsSequence(<<hello>>) /\ Len(<<hello>>) = 1 /\ <<hello>>[1] = hello BY Tuples
    <2>2. CASE ccs = <<>>
      <3>1. top = <<hello>> BY <2>1, <2>2, AddNothing
      <3> HIDE DEF top
      <3>2. QED BY <2>1, <3>1
    <2>3. CASE ccs = <<ChangeCipherSpec>>
      <3>1. IsSequence(ccs) /\ Len(ccs) = 1 /\ ccs[1] = ChangeCipherSpec BY <2>3, Tuples
      <3> DEFINE u == <<hello>>
      <3>2. /\ IsSequence(u \o ccs) /\ Len(u \o ccs) = Len(u) + Len(ccs)
            /\ \A i \in 1..Len(u) : (u \o ccs)[i] = u[i]
            /\ \A i \in 1..Len(ccs) : (u \o ccs)[Len(u) + i] = ccs[i]
        BY ONLY <2>1, <3>1, ConcatOf
      <3>3. /\ IsSequence(top) /\ Len(top) = 2 /\ top[1] = u[1] /\ top[1 + 1] = ccs[1]
        <4>1. Len(u) = 1 BY <2>1
        <4> HIDE DEF u
        <4>2. QED BY <4>1, <3>1, <3>2 DEF u
      <3>4. 1 + 1 = 2 OBVIOUS
      <3> HIDE DEF top
      <3>5. QED BY <2>1, <3>1, <3>3, <3>4
    <2>4. QED BY <2>2, <2>3
  <1> DEFINE h == b + k
  <1>8. /\ h \in Nat /\ b \in Nat /\ b <= h /\ h - b = k OBVIOUS
  <1> HIDE DEF top
  <1>9. /\ IsSequence(records) /\ Len(records) = h
        /\ records[1] = hello /\ b = 2 => records[2] = ChangeCipherSpec
        /\ \A x \in 1..k : records[b + x] = flight[x]
    <2>1. /\ IsSequence(top \o flight) /\ Len(top \o flight) = Len(top) + Len(flight)
          /\ \A i \in 1..Len(top) : (top \o flight)[i] = top[i]
          /\ \A i \in 1..Len(flight) : (top \o flight)[Len(top) + i] = flight[i]
      BY ONLY <1>5, <1>7, ConcatOf
    <2>2. records = top \o flight BY DEF top
    <2> HIDE DEF records
    <2>3. QED BY <2>1, <2>2, <1>5, <1>7
  <1> HIDE DEF records, h
  <1>10. wire' = records BY <1>1, <1>4, <1>9 DEF IsSequence
  <1>11. /\ server'.phase = "hello" /\ server'.version = "1.3" /\ server'.transcript = t
         /\ server'.enc = enc2 /\ server'.dec = dec2 /\ server'.sent = server.sent
         /\ server'.error = server.error /\ ServerShape'
    BY <1>4 DEF Shapes, ServerShape
  <1>12. FlightLeft(b, h, 0, 0)'
    <2> DEFINE n == h - b
    <2>1. n = k BY <1>8
    <2> HIDE DEF n
    <2>2. ends \in [0..n -> 0..4] /\ ends[0] = 0 /\ ends[n] = 4 BY <2>1, <1>3
    <2>3. \A x \in 1..n : /\ ends[x - 1] < ends[x]
                          /\ wire'[b + x] = FlightRecord(ends[x - 1], ends[x], 0 + x - 1)
      <3>1. \A x \in 1..k : 0 + x - 1 = x - 1 OBVIOUS
      <3>2. QED BY <2>1, <3>1, <1>3, <1>6, <1>9, <1>10
    <2>4. b <= h /\ h <= Len(wire') BY <1>8, <1>9, <1>10
    <2>5. QED BY <2>2, <2>3, <2>4 DEF FlightLeft, n
  <1>13. Front13(h, 0)'
    <2>1. NothingRead' BY <1>4 DEF Beginning, NothingRead, ReadVars
    <2>2. client' = Greeted /\ wire'[1] = hello /\ (b = 2 => wire'[2] = ChangeCipherSpec)
      BY <1>1, <1>4, <1>9, <1>10
    <2>3. QED BY <2>1, <2>2, <1>12 DEF Front13, hello
  <1>14. Expects("1.3", 0)'
    <2>1. server'.transcript = T13(4) BY <1>11, Transcript13 DEF t
    <2>2. server'.dec = Handshake13("client") BY <1>11 DEF Handshake13, dec2
    <2>3. QED BY <2>1, <2>2, <1>11 DEF Expects
  <1>15. server'.enc = Nth(DataKey("1.3", "server"), 0)
    <2>1. DataKey("1.3", "server") = enc2 BY DEF DataKey, enc2, t
    <2>2. QED BY <2>1, <1>11, FirstKeys
  <1>16. IsSequence(wire') /\ Len(wire') = h BY <1>9, <1>10
  <1>17. "1.3" \in {"1.3", "1.2"} /\ "1.3" # "1.2" /\ 0 \in Nat OBVIOUS
  <1>18. QED BY <1>1, <1>4, <1>8, <1>11, <1>13, <1>14, <1>15, <1>16, <1>17, Answered

(* All the steps of a connection that has begun, that has failed, and that *)
(* has not begun.                                                          *)
LEMMA GoingIsTls ==
  ASSUME NEW version \in {"1.3", "1.2"}, Goes(version)'
  PROVE  TlsInv'
  BY DEF Goes, TlsInv

LEMMA ServerGoesOn ==
  ASSUME NEW version \in {"1.3", "1.2"}, Goes(version), "1.2" \notin Notifying, Server
  PROVE  Goes(version)'
  <1>1. Shapes /\ Reads /\ server.version = version /\ Going(version) /\ server.phase # "start"
    BY DEF Goes, Going
  <1>2. CASE Answer12 \/ Answer13 BY <1>1, <1>2 DEF Answer12, Answer13
  <1>3. CASE SendTicket BY <1>1, <1>3, SendsTicket DEF Goes
  <1>4. CASE TakeKeyExchange
    <2>1. version = "1.2" BY <1>1, <1>4 DEF TakeKeyExchange
    <2>2. QED BY <2>1, <1>1, <1>4, TakesKeyExchange DEF Goes
  <1>5. CASE TakeChangeCipherSpec BY <1>1, <1>5, TakesChangeCipherSpec DEF Goes
  <1>6. CASE TakeFinished
    <2>1. CASE version = "1.3" BY <2>1, <1>1, <1>6, TakesFinished13 DEF Goes
    <2>2. CASE version = "1.2" BY <2>2, <1>1, <1>6, TakesFinished12 DEF Goes
    <2>3. QED BY <2>1, <2>2
  <1>7. CASE TakeData BY <1>1, <1>7, TakesData DEF Goes
  <1>8. CASE \E n \in DataSizes : SendBytes(n)
    <2>1. PICK n \in DataSizes : SendBytes(n) BY <1>8
    <2>2. QED BY <2>1, <1>1, SendsBytes DEF Goes
  <1>9. CASE Close \/ GiveUp BY <1>1, <1>9, Closes DEF Goes
  <1>10. QED BY <1>2, <1>3, <1>4, <1>5, <1>6, <1>7, <1>8, <1>9 DEF Server

LEMMA GoesOn ==
  ASSUME NEW version \in {"1.3", "1.2"}, Goes(version), "1.2" \notin Notifying, TlsNext
  PROVE  TlsInv'
  <1>1. CASE SendClientHello
    <2>1. client.state = "start" BY <1>1 DEF SendClientHello
    <2>2. CASE version = "1.3"
      <3>1. PICK h \in Nat, first \in Nat : Front13(h, first) BY <2>2 DEF Goes, Going, Inbound
      <3>2. QED BY <2>1, <3>1, FrontOf13
    <2>3. CASE version = "1.2"
      <3>1. PICK h \in Nat, first \in Nat : Front12(h, first) BY <2>3 DEF Goes, Going, Inbound
      <3>2. QED BY <2>1, <3>1, FrontOf12
    <2>4. QED BY <2>2, <2>3
  <1>2. CASE TakeHandshakeRecord BY <1>2, TakesHandshake, GoingIsTls
  <1>3. CASE ClosedInHandshake BY <1>3, IsClosed DEF TlsInv
  <1>4. CASE SendFinished BY <1>4, Finishes, GoingIsTls
  <1>5. CASE SendRequest \/ Drop BY <1>5, Asking, GoingIsTls
  <1>6. CASE ReadPlaintext \/ ReadNext \/ ReadEnd BY <1>6, Reading, GoingIsTls
  <1>7. CASE Server BY <1>7, ServerGoesOn, GoingIsTls
  <1>8. CASE Deliver
    <2>1. UNCHANGED <<client, server, outgoing, wire, ReadVars>> BY <1>8 DEF Deliver
    <2>2. QED BY <2>1, NothingHappens, GoingIsTls
  <1>9. QED BY <1>1, <1>2, <1>3, <1>4, <1>5, <1>6, <1>7, <1>8 DEF TlsNext, Client

LEMMA FailedStays ==
  ASSUME Shapes, Reads, Failed, TlsNext
  PROVE  TlsInv'
  <1>1. /\ client.error = "closed" /\ client.state \notin {"start", "Complete"}
        /\ server.phase = "closed"
    BY DEF Failed
  <1>2. ~Client
    BY <1>1 DEF Client, SendClientHello, TakeHandshakeRecord, ClosedInHandshake, Handshaking,
                SendFinished, SendRequest, ReadPlaintext, ReadNext, ReadEnd, Drop, IsOpen
  <1>3. Server => TakeChangeCipherSpec
    BY <1>1 DEF Server, Answer12, Answer13, SendTicket, TakeKeyExchange, TakeFinished, TakeData,
                SendBytes, Close, GiveUp
  <1>4. /\ client' = client /\ server' = server /\ wire' = wire
        /\ plaintext' = plaintext /\ returned' = returned /\ eof' = eof
        /\ outgoing' = outgoing \/ (outgoing # <<>> /\ outgoing' = Tail(outgoing))
    <2>1. CASE Deliver BY <2>1 DEF Deliver, ReadVars
    <2>2. CASE TakeChangeCipherSpec
      <3>1. wire \o <<>> = wire BY AddNothing DEF Shapes
      <3>2. QED BY <2>2, <3>1 DEF TakeChangeCipherSpec, ServerSays, ReadVars
    <2>3. QED BY <2>1, <2>2, <1>2, <1>3 DEF TlsNext
  <1>5. IsSequence(outgoing')
    <2>1. IsSequence(outgoing) BY DEF Shapes
    <2>2. outgoing # <<>> => IsSequence(Tail(outgoing)) BY ONLY <2>1, TailOf
    <2>3. QED BY <1>4, <2>1, <2>2
  <1>6. Shapes' BY <1>4, <1>5 DEF Shapes, ServerShape
  <1>7. Reads' BY <1>4 DEF Reads, Got
  <1>8. Failed' BY <1>4 DEF Failed, NothingRead
  <1>9. QED BY <1>6, <1>7, <1>8 DEF TlsInv

LEMMA BeginningGoes ==
  ASSUME Shapes, Reads, Beginning, "1.2" \notin Coalescing, TlsNext
  PROVE  TlsInv'
  <1>1. /\ server.phase = "start" /\ server.version = "none" /\ wire = <<>>
        /\ \/ client = Fresh /\ outgoing = <<>>
           \/ client = Greeted /\ outgoing = <<ClientHello>>
    BY DEF Beginning
  <1>2. /\ client.state \in {"start", "ServerHello"}
        /\ client.state = "start" => client = Fresh /\ outgoing = <<>>
    BY <1>1, StatesAre
  <1>3. CASE SendClientHello
    <2> DEFINE hello == ClientHello
    <2>1. /\ client' = [client EXCEPT !.state = "ServerHello", !.transcript = <<"ClientHello">>]
          /\ outgoing' = <<hello>> /\ server' = server /\ wire' = wire /\ client = Fresh
          /\ plaintext' = plaintext /\ returned' = returned /\ eof' = eof
      BY <1>2, <1>3 DEF SendClientHello, ClientHello, ReadVars
    <2>2. client' = Greeted BY <2>1 DEF Fresh, Greeted, State
    <2>3. IsSequence(outgoing') BY <2>1, Tuples
    <2> HIDE DEF hello
    <2>4. Shapes' BY <2>1, <2>3 DEF Shapes, ServerShape
    <2>5. Reads' BY <2>1 DEF Reads, Got
    <2>6. Beginning' BY <2>1, <2>2 DEF Beginning, NothingRead, hello
    <2>7. QED BY <2>4, <2>5, <2>6 DEF TlsInv
  <1>4. ASSUME Client PROVE SendClientHello
    BY <1>1, <1>2, <1>4 DEF Client, TakeHandshakeRecord, RecordComplete, ClosedInHandshake,
         SendFinished, SendRequest, ReadPlaintext, ReadNext, ReadEnd, Drop, IsOpen
  <1>5. ASSUME Server PROVE Answer12 \/ Answer13
    <2>1. ~TakeChangeCipherSpec
      <3>1. outgoing # <<>> => outgoing = <<ClientHello>> BY <1>1
      <3>2. ClientHello.outer = "handshake" BY DEF ClientHello, Plain, Record
      <3>3. outgoing # <<>> => outgoing[1].outer = "handshake" BY <3>1, <3>2, Tuples
      <3>4. QED BY <3>3 DEF TakeChangeCipherSpec
    <2>2. QED BY <2>1, <1>1, <1>5 DEF Server, SendTicket, TakeKeyExchange, TakeFinished, TakeData,
                SendBytes, Close, GiveUp
  <1>6. CASE Answer12 BY <1>6, Answers12, GoingIsTls
  <1>7. CASE Answer13 BY <1>7, Answers13, GoingIsTls
  <1>8. CASE Deliver
    <2>1. Len(wire) = 0 BY <1>1, Tuples
    <2>2. /\ client' = client /\ server' = server /\ outgoing' = outgoing /\ wire' = wire
          /\ plaintext' = plaintext /\ returned' = returned /\ eof' = eof
      BY <1>8 DEF Deliver, ReadVars
    <2>3. Shapes' BY <2>2 DEF Shapes, ServerShape
    <2>4. Reads' BY <2>2 DEF Reads, Got
    <2>5. Beginning' BY <2>2 DEF Beginning, NothingRead
    <2>6. QED BY <2>3, <2>4, <2>5 DEF TlsInv
  <1>9. QED BY <1>3, <1>4, <1>5, <1>6, <1>7, <1>8 DEF TlsNext

(* The invariant holds at the start and after every step,                  *)
LEMMA TlsBegins == TlsInit => TlsInv
  <1> SUFFICES ASSUME TlsInit PROVE TlsInv OBVIOUS
  <1>1. Shapes
    <2>1. IsSequence(wire) /\ IsSequence(outgoing) BY Tuples DEF TlsInit
    <2>2. QED BY <2>1 DEF Shapes, ServerShape, TlsInit
  <1>2. Reads
    <2>1. Len(returned) = 0 /\ Len(plaintext) = 0 /\ returned = <<>> /\ plaintext = <<>> /\ ~eof
      BY Tuples DEF TlsInit
    <2>2. Bytes(0, 0) = <<>>
      <3>1. IsSequence(Bytes(0, 0)) /\ Len(Bytes(0, 0)) = 0 - 0 BY BytesShape
      <3>2. QED BY <3>1, Shape
    <2>3. Got = 0 BY <2>1 DEF Got
    <2>4. QED BY <2>1, <2>2, <2>3 DEF Reads
  <1>3. Beginning BY DEF TlsInit, Beginning, NothingRead, Fresh, State
  <1>4. QED BY <1>1, <1>2, <1>3 DEF TlsInv

LEMMA TlsStep ==
  ASSUME TlsInv, "1.2" \notin Coalescing, "1.2" \notin Notifying, [TlsNext]_tlsVars
  PROVE  TlsInv'
  <1>1. CASE TlsNext
    <2>1. CASE Beginning BY <1>1, <2>1, BeginningGoes DEF TlsInv
    <2>2. CASE Failed BY <1>1, <2>2, FailedStays DEF TlsInv
    <2>3. CASE server.version \in {"1.3", "1.2"} /\ Going(server.version)
      <3>1. PICK version \in {"1.3", "1.2"} : version = server.version BY <2>3
      <3>2. Goes(version) BY <2>3, <3>1 DEF Goes, TlsInv
      <3>3. QED BY <1>1, <3>2, GoesOn
    <2>4. QED BY <2>1, <2>2, <2>3 DEF TlsInv
  <1>2. CASE UNCHANGED tlsVars
    <2>1. /\ client' = client /\ server' = server /\ outgoing' = outgoing /\ wire' = wire
          /\ plaintext' = plaintext /\ returned' = returned /\ eof' = eof
      BY <1>2 DEF tlsVars
    <2>2. CASE server.version \in {"1.3", "1.2"} /\ Going(server.version)
      <3>1. PICK version \in {"1.3", "1.2"} : version = server.version BY <2>2
      <3>2. Goes(version) BY <2>2, <3>1 DEF Goes, TlsInv
      <3>3. UNCHANGED <<client, server, outgoing, wire, ReadVars>> BY <2>1 DEF ReadVars
      <3>4. QED BY <3>2, <3>3, NothingHappens, GoingIsTls
    <2>3. Shapes' /\ Reads' BY <2>1 DEF TlsInv, Shapes, ServerShape, Reads, Got
    <2>4. CASE Beginning
      <3>1. Beginning' BY <2>1, <2>4 DEF Beginning, NothingRead
      <3>2. QED BY <2>3, <3>1 DEF TlsInv
    <2>5. CASE Failed
      <3>1. Failed' BY <2>1, <2>5 DEF Failed, NothingRead
      <3>2. QED BY <2>3, <3>1 DEF TlsInv
    <2>6. QED BY <2>2, <2>4, <2>5 DEF TlsInv
  <1>3. QED BY <1>1, <1>2

(* and says what the two properties say.                                   *)
LEMMA UnderstoodThen == TlsInv => BothUnderstand
  <1> SUFFICES ASSUME TlsInv PROVE BothUnderstand OBVIOUS
  <1>1. client.error \in {"none", "closed"}
    <2>1. CASE Beginning BY <2>1, StatesAre DEF Beginning
    <2>2. CASE Failed BY <2>2 DEF Failed
    <2>3. CASE server.version \in {"1.3", "1.2"} /\ Going(server.version)
      <3>1. CASE server.version = "1.3"
        <4>1. PICK h \in Nat, first \in Nat : Front13(h, first) BY <2>3, <3>1 DEF Going, Inbound
        <4>2. QED BY <4>1, FrontOf13
      <3>2. CASE server.version = "1.2"
        <4>1. PICK h \in Nat, first \in Nat : Front12(h, first) BY <2>3, <3>2 DEF Going, Inbound
        <4>2. QED BY <4>1, FrontOf12
      <3>3. QED BY <2>3, <3>1, <3>2
    <2>4. QED BY <2>1, <2>2, <2>3 DEF TlsInv
  <1>2. Shapes /\ Reads BY DEF TlsInv
  <1>3. QED BY <1>1, <1>2 DEF BothUnderstand, Shapes, Reads

LEMMA NobodyWaitsThen == TlsInv => NoStandstill
  <1> SUFFICES ASSUME TlsInv, Handshaking, wire = <<>>, outgoing = <<>>, server.phase = "hello"
               PROVE  FALSE
    BY DEF NoStandstill
  <1>1. server.version \in {"1.3", "1.2"} /\ Going(server.version) /\ IsSequence(wire)
    BY DEF TlsInv, Beginning, Failed, Shapes
  <1>2. Len(wire) = 0 /\ Len(outgoing) = 0 BY Tuples
  <1>3. client.state \notin {"start", "Complete", "Open", "asked", "dropped"} BY DEF Handshaking
  <1>4. CASE server.version = "1.3"
    <2>1. PICK h \in Nat, first \in Nat : Front13(h, first) /\ ReplyLeft("1.3", h, first)
      BY <1>1, <1>4 DEF Going, Inbound
    <2>2. CASE \E b \in {1, 2} : FlightLeft(b, h, 0, 0)
      <3>1. PICK b \in {1, 2} : b <= h /\ h <= Len(wire) BY <2>2 DEF FlightLeft
      <3>2. QED BY <3>1, <1>2
    <2>3. CASE \E b \in {0, 1}, e \in 0..4, j \in Nat : client = Reading13(e, j) /\ FlightLeft(b, h, e, j)
      <3>1. PICK b \in {0, 1}, e \in 0..4, j \in Nat : client = Reading13(e, j) /\ FlightLeft(b, h, e, j)
        BY <2>3
      <3>2. b = 0 /\ h = 0 BY <3>1, <1>2 DEF FlightLeft
      <3>3. e = 4
        <4> DEFINE n == h - b
        <4>1. \E ends \in [0..n -> 0..4] : ends[0] = e /\ ends[n] = 4 BY <3>1 DEF FlightLeft
        <4>2. n = 0 BY <3>2
        <4> HIDE DEF n
        <4>3. QED BY <4>1, <4>2
      <3>4. QED BY <3>1, <3>3, <1>3, StatesAre
    <2>4. QED BY <2>1, <2>2, <2>3, <1>3, FrontOf13
  <1>5. CASE server.version = "1.2"
    <2>1. PICK h \in Nat, first \in Nat : Front12(h, first) BY <1>1, <1>5 DEF Going, Inbound
    <2>2. client = Talking("1.2", "ChangeCipher", 1, 0)
      <3>1. ASSUME NEW e \in 0..3, h = 4 - e, Len(wire) = h PROVE FALSE BY <3>1, <1>2
      <3>2. QED BY <2>1, <3>1, <1>3, FrontOf12
    <2>3. Sent = 3
      <3>1. "1.2" \in {"1.3", "1.2"} /\ 1 \in Nat /\ 0 \in Nat OBVIOUS
      <3>2. Sent = 1 + 2 BY <2>2, <3>1, SentTalking DEF Sent
      <3>3. QED BY <3>2
    <2>4. PICK k \in Nat : k + Len(outgoing) = Sent /\ Expects("1.2", k)
      BY <1>1, <1>5 DEF Going, Outbound
    <2>5. k = 3 BY <2>3, <2>4, <1>2
    <2>6. QED BY <2>4, <2>5 DEF Expects
  <1>6. QED BY <1>1, <1>4, <1>5

(***************************************************************************)
(* The invariant holds, if no TLS 1.2 server puts messages together or     *)
(* says close_notify: what happens then is a finding (tls_standstill) and  *)
(* is in the README.                                                       *)
(***************************************************************************)
THEOREM TlsInvariant ==
  ASSUME "1.2" \notin Coalescing, "1.2" \notin Notifying
  PROVE  TlsSpec => []TlsInv
  <1>1. TlsInv /\ [TlsNext]_tlsVars => TlsInv' BY TlsStep
  <1>2. QED BY <1>1, TlsBegins, PTL DEF TlsSpec

(***************************************************************************)
(* For every size of records, reply and buffer, every way a TLS 1.3 server *)
(* packs its flight and every server that hangs up, tickets or notifies as *)
(* TLS 1.3 has it: neither end refuses what the other sent, and read()     *)
(* returns the bytes of the reply in order, each once, and its end when    *)
(* all have been returned (src/core/net/tls: mod.rs, tls13/record.rs,      *)
(* tls12/record.rs).                                                       *)
(***************************************************************************)
THEOREM TlsBothUnderstand ==
  ASSUME "1.2" \notin Coalescing, "1.2" \notin Notifying
  PROVE  TlsSpec => []BothUnderstand
  BY TlsInvariant, UnderstoodThen, PTL

(***************************************************************************)
(* In none of them does connect() wait for a server that waits for it      *)
(* (src/core/net/tls/mod.rs).                                              *)
(***************************************************************************)
THEOREM TlsNoStandstill ==
  ASSUME "1.2" \notin Coalescing, "1.2" \notin Notifying
  PROVE  TlsSpec => []NoStandstill
  BY TlsInvariant, NobodyWaitsThen, PTL

-----------------------------------------------------------------------------
(* Bash: what an answer says of its command.                               *)

BashTypeOK ==
  /\ execute \in {"idle", "probing", "checking", "sleeping", "reading", "answered"}
  /\ shell \in {"none", "running", "ended", "killed"}
  /\ answer \in {"none", "started", "timeout", "output"}
  /\ clock \in Nat /\ wake \in Nat /\ endedAt \in Nat
  /\ left \in Nat /\ inPipe \in Nat /\ got \in Nat /\ output \in Nat

(***************************************************************************)
(* Between try_wait and kill no time passes: a shell that ended there      *)
(* ended at the deadline or later.                                         *)
(***************************************************************************)
DeadlineInv ==
  /\ shell \in {"none", "running", "killed"} => endedAt = Never
  /\ execute = "checking" => shell = "running" \/ endedAt = clock
  /\ answer = "timeout" => shell \in {"ended", "killed"} /\ endedAt >= Timeout

(***************************************************************************)
(* Nothing is lost while the pipe is in use, and when nobody holds its end *)
(* any more nothing is still to be written.                                *)
(***************************************************************************)
OutputInv ==
  /\ execute \in {"probing", "checking", "sleeping", "reading"} => output = got + inPipe + left
  /\ shell = "ended" /\ ~heir => left = 0
  /\ execute = "reading" => shell = "ended"
  /\ answer # "none" <=> execute = "answered"
  /\ execute = "idle" <=> shell = "none"
  /\ execute = "idle" => got = 0 /\ inPipe = 0 /\ ~heir
  /\ shell = "killed" => execute = "answered"
  /\ answer = "output" => got = output

BashInv == BashTypeOK /\ DeadlineInv /\ OutputInv

LEMMA BashInitInv == ASSUME BashAssumption PROVE BashInit => BashInv
  <1> USE DEF BashAssumption, BashInit, Never
  <1>1. BashInit => BashTypeOK BY DEF BashTypeOK
  <1>2. BashInit => DeadlineInv BY DEF DeadlineInv
  <1>3. BashInit => OutputInv BY DEF OutputInv
  <1>4. QED BY <1>1, <1>2, <1>3 DEF BashInv

LEMMA BashNextInv ==
  ASSUME BashAssumption, BashInv, [BashNext]_bashVars
  PROVE  BashInv'
  <1> USE DEF BashAssumption, BashInv, BashTypeOK, DeadlineInv, OutputInv, Never,
              Answers, Waits
  <1>1. CASE StartInBackground
    <2>1. BashTypeOK' BY <1>1 DEF StartInBackground
    <2>2. DeadlineInv' BY <1>1 DEF StartInBackground
    <2>3. OutputInv' BY <1>1 DEF StartInBackground
    <2>4. QED BY <2>1, <2>2, <2>3
  <1>2. CASE Start
    <2>1. BashTypeOK' BY <1>2 DEF Start
    <2>2. DeadlineInv' BY <1>2 DEF Start
    <2>3. OutputInv' BY <1>2 DEF Start
    <2>4. QED BY <2>1, <2>2, <2>3
  <1>3. CASE TryWait BY <1>3 DEF TryWait
  <1>4. CASE KillLate
    <2>1. BashTypeOK' BY <1>4 DEF KillLate
    <2>2. DeadlineInv' BY <1>4 DEF KillLate
    <2>3. OutputInv' BY <1>4 DEF KillLate
    <2>4. QED BY <2>1, <2>2, <2>3
  <1>5. CASE Sleep BY <1>5 DEF Sleep
  <1>6. CASE Wake BY <1>6 DEF Wake
  <1>7. CASE ReadPipe BY <1>7 DEF ReadPipe
  <1>8. CASE Finish BY <1>8 DEF Finish
  <1>9. CASE Writes
    <2>1. BashTypeOK' BY <1>9 DEF Writes
    <2>2. DeadlineInv' BY <1>9 DEF Writes
    <2>3. OutputInv' BY <1>9 DEF Writes
    <2>4. QED BY <2>1, <2>2, <2>3
  <1>10. CASE LeavesAProcess BY <1>10 DEF LeavesAProcess
  <1>11. CASE ShellEnds BY <1>11 DEF ShellEnds
  <1>12. CASE RestEnds BY <1>12 DEF RestEnds
  <1>13. CASE Tick
    <2>1. BashTypeOK' BY <1>13 DEF Tick
    <2>2. DeadlineInv' BY <1>13 DEF Tick
    <2>3. OutputInv' BY <1>13 DEF Tick
    <2>4. QED BY <2>1, <2>2, <2>3
  <1>14. CASE UNCHANGED bashVars BY <1>14 DEF bashVars
  <1>15. QED
    BY <1>1, <1>2, <1>3, <1>4, <1>5, <1>6, <1>7, <1>8, <1>9, <1>10, <1>11, <1>12, <1>13, <1>14
    DEF BashNext, Viv, Command

(***************************************************************************)
(* For every deadline, pipe and command: a command that ended before the   *)
(* deadline is never reported as timed out, and an answer with output has  *)
(* all of it (src/tools/bash.rs).                                          *)
(***************************************************************************)
THEOREM AnswersFit == ASSUME BashAssumption PROVE BashSpec => []AnswerFitsTheCommand
  <1>1. BashInv => AnswerFitsTheCommand
    BY DEF BashInv, DeadlineInv, OutputInv, AnswerFitsTheCommand
  <1>2. QED
    BY BashInitInv, BashNextInv, <1>1, PTL DEF BashSpec
=============================================================================
