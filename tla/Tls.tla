--------------------------------- MODULE Tls --------------------------------
(***************************************************************************)
(* TlsStream (src/core/net/tls): connect() reads the server's hello over   *)
(* async I/O, goes on with the handshake of TLS 1.3 or 1.2, and then reads *)
(* and writes records.  A key is what it is derived from: who writes with  *)
(* it, at which stage, and the messages hashed into it; a record decrypts  *)
(* under the key and number it was encrypted with and no other.  The       *)
(* server is modelled from what the client expects of one.                 *)
(***************************************************************************)
EXTENDS Integers, Sequences, SequencesExt

CONSTANTS
  Coalescing,     \* versions whose server may put several messages in a record
  Notifying,      \* versions whose server says close_notify before it closes
  DataSizes,      \* bytes in a record of the reply
  MaxReply,       \* bound: bytes of the reply
  BufSize         \* the buffer read() is given

VARIABLES
  client,         \* state, transcript, keys, how it failed
  server,
  outgoing,       \* records on their way
  wire,           \* records the client has not taken from its read_buf
  arrived,        \* halves of them that have reached read_buf
  plaintext,      \* plaintext_buf
  returned,       \* what read() has returned
  eof             \* read() has returned 0

ASSUME TlsAssumption ==
  DataSizes \subseteq Nat \ {0} /\ MaxReply \in Nat /\ BufSize \in Nat \ {0}

tlsVars == <<client, server, outgoing, wire, arrived, plaintext, returned, eof>>

(***************************************************************************)
(* Messages, keys, records                                                 *)
(***************************************************************************)
Msg(kind) == [kind |-> kind, hash |-> <<>>]
MessageOf(kind, transcript) == [kind |-> kind, hash |-> transcript]

NoKey == [writer |-> "none", stage |-> "none", hash |-> <<>>, seq |-> 0]
Key(writer, stage, transcript) ==
  [writer |-> writer, stage |-> stage, hash |-> transcript, seq |-> 0]
Key12(writer) == Key(writer, "1.2", <<>>)
Used(key) == [key EXCEPT !.seq = @ + 1]

Record(outer, inner, key, body) == [outer |-> outer, inner |-> inner, key |-> key, body |-> body]
Plain(type, body) == Record(type, type, NoKey, body)
ChangeCipherSpec == Plain("ccs", <<>>)

(* TLS 1.3 hides the type of what it encrypts, TLS 1.2 does not. *)
Encrypted13(type, key, body) == Record("data", type, key, body)
Encrypted12(type, key, body) == Record(type, type, key, body)
Encrypted(version, type, key, body) ==
  IF version = "1.3" THEN Encrypted13(type, key, body) ELSE Encrypted12(type, key, body)

Garbage == <<"garbage">>
Fails(c, why) == [c EXCEPT !.error = why]

Opened13(c, r) == [ok |-> r.key = c.dec, dec |-> Used(c.dec), type |-> r.inner, body |-> r.body]
Opened12(c, r) == [ok |-> r.key = c.dec, dec |-> Used(c.dec), type |-> r.outer, body |-> r.body]
PassedOn(c, r) ==
  [ok |-> TRUE, dec |-> c.dec, type |-> r.outer, body |-> IF r.key = NoKey THEN r.body ELSE Garbage]

(* Before there is a key, and for types that are not decrypted, a record   *)
(* is passed on as it is: TLS 1.2's encrypted alerts are.                  *)
ReadRecord13(c, r) == IF c.dec = NoKey \/ r.outer # "data" THEN PassedOn(c, r) ELSE Opened13(c, r)
ReadRecord12(c, r) ==
  IF c.dec = NoKey \/ r.outer \notin {"data", "handshake"} THEN PassedOn(c, r) ELSE Opened12(c, r)
ReadRecord(c, r) == IF c.version = "1.3" THEN ReadRecord13(c, r) ELSE ReadRecord12(c, r)

(***************************************************************************)
(* The client's handshakes                                                 *)
(***************************************************************************)
Learn(c, m, state) == [c EXCEPT !.transcript = Append(@, m.kind), !.state = state]

After13 == [EncryptedExtensions |-> "Certificate", Certificate |-> "CertificateVerify",
            CertificateVerify |-> "Finished"]

HandleServerHello(c, m) ==
  LET t == Append(c.transcript, m.kind)
  IN IF m.kind = "ServerHello12"
     THEN [Learn(c, m, "AnyCertificate") EXCEPT !.version = "1.2"]
     ELSE [Learn(c, m, "EncryptedExtensions") EXCEPT
             !.dec = Key("server", "handshake", t), !.enc = Key("client", "handshake", t)]

HandleMessage13(c, m) ==
  IF c.state = "ServerHello"
  THEN IF m.kind \in {"ServerHello12", "ServerHello13"} THEN HandleServerHello(c, m)
       ELSE Fails(c, "unexpected message")
  ELSE IF m.kind # c.state THEN Fails(c, "unexpected message")
  ELSE IF m.kind # "Finished" THEN Learn(c, m, After13[m.kind])
  ELSE IF m.hash # c.transcript THEN Fails(c, "Finished")
  ELSE Learn(c, m, "Complete")

(* Any first message passes for the certificate; the keys come with the    *)
(* server's last one, and the client's own last messages are added.        *)
ClientFlight == <<"ClientKeyExchange", "ClientFinished">>
HandleMessage12(c, m) ==
  CASE c.state = "AnyCertificate" -> Learn(c, m, "ServerKeyExchange")
    [] c.state = "ServerKeyExchange" /\ m.kind = c.state -> Learn(c, m, "ServerHelloDone")
    [] c.state = "ServerHelloDone" /\ m.kind = c.state ->
         [c EXCEPT !.transcript = @ \o <<m.kind>> \o ClientFlight, !.state = "ChangeCipher",
                   !.enc = Used(Key12("client")), !.dec = Key12("server")]
    [] c.state = "Finished" /\ m.kind = c.state ->
         IF m.hash = c.transcript THEN [c EXCEPT !.state = "Open"] ELSE Fails(c, "Finished")
    [] OTHER -> Fails(c, "unexpected message")

HandleMessage(c, m) == IF c.version = "1.3" THEN HandleMessage13(c, m) ELSE HandleMessage12(c, m)

(* Mutant: the rest of the record is not looked at.                        *)
HandleFirst(c, messages) == HandleMessage(c, messages[1])

(* The i-th message of a record.  What stands behind the hello in its      *)
(* record is dropped when the version is 1.2, with the loop that held it.  *)
HandleNth(c, d, messages, i) ==
  IF \/ i > Len(messages) \/ d.error # "none" \/ d.state \in {"Complete", "Open"}
     \/ d.version # c.version
  THEN d ELSE HandleMessage(d, messages[i])

(* No record holds more messages than a flight, which has four.            *)
HandleMessages(c, messages) ==
  LET two == HandleNth(c, HandleNth(c, c, messages, 1), messages, 2)
  IN HandleNth(c, HandleNth(c, two, messages, 3), messages, 4)

HandleRecord(c, r) ==
  LET read == ReadRecord(c, r)
      d == [c EXCEPT !.dec = read.dec]
  IN IF ~read.ok THEN Fails(c, "decrypt")
     ELSE IF read.type = "ccs"
     THEN IF c.version = "1.3" THEN d
          ELSE IF c.state = "ChangeCipher" THEN [d EXCEPT !.state = "Finished"]
          ELSE Fails(c, "unexpected change of cipher")
     ELSE IF read.type = "alert" THEN Fails(c, "alert")
     ELSE HandleMessages(d, read.body)

(* The bytes HandleMessage12 hands over to be sent. *)
SentBy(before, after) ==
  IF before.state = "ServerHelloDone" /\ after.state = "ChangeCipher"
  THEN <<Plain("handshake", <<Msg("ClientKeyExchange")>>), ChangeCipherSpec,
         Encrypted("1.2", "handshake", Key12("client"),
                   <<MessageOf("ClientFinished", SubSeq(after.transcript, 1, Len(after.transcript) - 1))>>)>>
  ELSE <<>>

TlsInit ==
  /\ client = [state |-> "start", version |-> "1.3", transcript |-> <<>>,
               enc |-> NoKey, dec |-> NoKey, error |-> "none"]
  /\ server = [phase |-> "start", version |-> "none", transcript |-> <<>>,
               enc |-> NoKey, dec |-> NoKey, sent |-> 0, error |-> "none"]
  /\ outgoing = <<>> /\ wire = <<>> /\ arrived = 0
  /\ plaintext = <<>> /\ returned = <<>> /\ eof = FALSE

RecordComplete == wire # <<>> /\ arrived >= 2
Take == wire' = Tail(wire) /\ arrived' = arrived - 2
Handshaking ==
  client.state \notin {"start", "Complete", "Open", "asked", "dropped"} /\ client.error = "none"
ReadVars == <<plaintext, returned, eof>>

SendClientHello ==
  /\ client.state = "start"
  /\ client' = [client EXCEPT !.state = "ServerHello", !.transcript = <<"ClientHello">>]
  /\ outgoing' = <<Plain("handshake", <<Msg("ClientHello")>>)>>
  /\ UNCHANGED <<server, wire, arrived, ReadVars>>

TakeHandshakeRecord ==
  /\ Handshaking /\ RecordComplete /\ Take
  /\ client' = HandleRecord(client, wire[1])
  /\ outgoing' = outgoing \o SentBy(client, client')
  /\ UNCHANGED <<server, ReadVars>>

ClosedInHandshake ==
  /\ Handshaking /\ server.phase = "closed" /\ arrived < 2 /\ arrived = 2 * Len(wire)
  /\ client' = Fails(client, "closed")
  /\ UNCHANGED <<server, outgoing, wire, arrived, ReadVars>>

(* Mutant: the keys are derived from the client's own Finished, too. *)
InstallTooLate(c) ==
  LET t == Append(c.transcript, "ClientFinished")
  IN [c EXCEPT !.transcript = t, !.state = "Open",
               !.enc = Key("client", "data", t), !.dec = Key("server", "data", t)]

(* encode_client_finished and install_app_keys: the keys are derived from  *)
(* what was hashed up to the server's Finished.                            *)
InstallAppKeys(c) ==
  [c EXCEPT !.transcript = Append(@, "ClientFinished"), !.state = "Open",
            !.enc = Key("client", "data", c.transcript), !.dec = Key("server", "data", c.transcript)]

SendFinished ==
  /\ client.state = "Complete"
  /\ client' = InstallAppKeys(client)
  /\ outgoing' = outgoing \o
       <<ChangeCipherSpec, Encrypted("1.3", "handshake", client.enc,
                                     <<MessageOf("ClientFinished", client.transcript)>>)>>
  /\ UNCHANGED <<server, wire, arrived, ReadVars>>

(***************************************************************************)
(* write_all, read, drop.  The request is one record; a byte of the reply  *)
(* is its number.                                                          *)
(***************************************************************************)
Bytes(from, to) == [i \in 1..(to - from) |-> from + i]

IsOpen == client.state \in {"Open", "asked"} /\ client.error = "none"

SendRequest ==
  /\ client.state = "Open" /\ client.error = "none"
  /\ outgoing' = Append(outgoing, Encrypted(client.version, "data", client.enc, <<"request">>))
  /\ client' = [client EXCEPT !.enc = Used(@), !.state = "asked"]
  /\ UNCHANGED <<server, wire, arrived, ReadVars>>

(* What fits into the buffer is returned, the rest stays for later.        *)
HandOver(bytes) ==
  LET n == IF Len(bytes) < BufSize THEN Len(bytes) ELSE BufSize
  IN /\ returned' = returned \o SubSeq(bytes, 1, n)
     /\ plaintext' = SubSeq(bytes, n + 1, Len(bytes))

ReadPlaintext ==
  /\ client.state = "asked" /\ client.error = "none" /\ ~eof /\ plaintext # <<>>
  /\ HandOver(plaintext)
  /\ UNCHANGED <<client, server, outgoing, wire, arrived, eof>>

(* A record without bytes looks like the end; no server here sends one. *)
ReadBytes(bytes) == HandOver(bytes) /\ eof' = (bytes = <<>>)

ReadNext ==
  /\ client.state = "asked" /\ client.error = "none" /\ ~eof /\ plaintext = <<>>
  /\ RecordComplete /\ Take
  /\ LET read == ReadRecord(client, wire[1])
         d == [client EXCEPT !.dec = read.dec]
     IN IF ~read.ok THEN client' = Fails(client, "decrypt") /\ UNCHANGED ReadVars
        ELSE IF read.type = "data" THEN client' = d /\ ReadBytes(read.body)
        ELSE IF read.type # "alert" THEN client' = d /\ UNCHANGED ReadVars
        ELSE IF read.body = <<"close_notify">>
        THEN client' = d /\ eof' = TRUE /\ UNCHANGED <<plaintext, returned>>
        ELSE client' = Fails(d, "alert") /\ UNCHANGED ReadVars
  /\ UNCHANGED <<server, outgoing>>

ReadEnd ==
  /\ client.state = "asked" /\ client.error = "none" /\ ~eof /\ plaintext = <<>>
  /\ server.phase = "closed" /\ arrived < 2 /\ arrived = 2 * Len(wire)
  /\ eof' = TRUE
  /\ UNCHANGED <<client, server, outgoing, wire, arrived, plaintext, returned>>

Drop ==
  /\ IsOpen /\ client' = [client EXCEPT !.enc = Used(@), !.state = "dropped"]
  /\ outgoing' = Append(outgoing, Encrypted(client.version, "alert", client.enc, <<"close_notify">>))
  /\ UNCHANGED <<server, wire, arrived, ReadVars>>

Deliver ==
  /\ arrived < 2 * Len(wire) /\ arrived' = arrived + 1
  /\ UNCHANGED <<client, server, outgoing, wire, ReadVars>>

(***************************************************************************)
(* The server                                                              *)
(***************************************************************************)
ServerSays(s, records) ==
  /\ server' = s /\ wire' = wire \o records
  /\ UNCHANGED <<client, arrived, ReadVars>>

(* The ways to put messages into records: where each of k records ends.    *)
Cuts(k, n) ==
  {cut \in [0..k -> 0..n] : cut[0] = 0 /\ cut[k] = n /\ \A i \in 1..k : cut[i - 1] < cut[i]}
Packing(messages, cut, k) == [i \in 1..k |-> SubSeq(messages, cut[i - 1] + 1, cut[i])]
RecordCounts(version, n) == IF version \in Coalescing THEN 1..n ELSE {n}
Packings(version, messages) ==
  UNION {{Packing(messages, cut, k) : cut \in Cuts(k, Len(messages))} :
           k \in RecordCounts(version, Len(messages))}

Flight12 == <<"ServerHello12", "Certificate", "ServerKeyExchange", "ServerHelloDone">>
Messages12 == [i \in 1..4 |-> Msg(Flight12[i])]

Answer12 ==
  /\ server.phase = "start" /\ outgoing # <<>> /\ outgoing' = Tail(outgoing)
  /\ \E packing \in Packings("1.2", Messages12) :
       ServerSays([server EXCEPT !.phase = "hello", !.version = "1.2",
                                 !.transcript = <<"ClientHello">> \o Flight12],
                  [i \in DOMAIN packing |-> Plain("handshake", packing[i])])

Hello13 == <<"ClientHello", "ServerHello13">>
Flight13 == <<"EncryptedExtensions", "Certificate", "CertificateVerify", "Finished">>
Messages13 ==
  [i \in 1..4 |-> IF i < 4 THEN Msg(Flight13[i])
                  ELSE MessageOf("Finished", Hello13 \o SubSeq(Flight13, 1, 3))]

Answer13 ==
  /\ server.phase = "start" /\ outgoing # <<>> /\ outgoing' = Tail(outgoing)
  /\ \E packing \in Packings("1.3", Messages13), ccs \in {<<>>, <<ChangeCipherSpec>>} :
       ServerSays([server EXCEPT !.phase = "hello", !.version = "1.3",
                                 !.transcript = Hello13 \o Flight13,
                                 !.enc = Key("server", "data", Hello13 \o Flight13),
                                 !.dec = Key("client", "handshake", Hello13)],
                  <<Plain("handshake", <<Msg("ServerHello13")>>)>> \o ccs \o
                  [i \in DOMAIN packing |->
                     Encrypted("1.3", "handshake",
                               [Key("server", "handshake", Hello13) EXCEPT !.seq = i - 1],
                               packing[i])])

(* TLS 1.3: a ticket may come right behind the server's Finished. *)
SendTicket ==
  /\ server.version = "1.3" /\ server.phase \in {"hello", "replying"} /\ server.enc.seq = 0
  /\ UNCHANGED outgoing
  /\ ServerSays([server EXCEPT !.enc = Used(@)],
                <<Encrypted("1.3", "handshake", server.enc, <<Msg("NewSessionTicket")>>)>>)

Refuses(why) == ServerSays([server EXCEPT !.error = why, !.phase = "closed"], <<>>)

TakeKeyExchange ==
  /\ server.phase = "hello" /\ server.version = "1.2" /\ outgoing # <<>>
  /\ outgoing[1].outer = "handshake" /\ outgoing[1].key = NoKey /\ outgoing' = Tail(outgoing)
  /\ ServerSays([server EXCEPT !.transcript = Append(@, "ClientKeyExchange"),
                               !.dec = Key12("client")], <<>>)

TakeChangeCipherSpec ==
  /\ outgoing # <<>> /\ outgoing[1].outer = "ccs" /\ outgoing' = Tail(outgoing)
  /\ ServerSays(server, <<>>)

TakeFinished ==
  /\ server.phase = "hello" /\ outgoing # <<>> /\ outgoing[1].key # NoKey
  /\ outgoing' = Tail(outgoing)
  /\ LET m == outgoing[1].body[1]
         t == Append(server.transcript, "ClientFinished")
         key == Key12("server")
     IN IF outgoing[1].key # server.dec THEN Refuses("decrypt")
        ELSE IF m.hash # server.transcript THEN Refuses("Finished")
        ELSE IF server.version = "1.3"
        THEN ServerSays([server EXCEPT !.phase = "open",
                                       !.dec = Key("client", "data", server.transcript)], <<>>)
        ELSE ServerSays([server EXCEPT !.phase = "open", !.dec = Used(@), !.enc = Used(key)],
                        <<ChangeCipherSpec,
                          Encrypted("1.2", "handshake", key, <<MessageOf("Finished", t)>>)>>)

TakeData ==
  /\ server.phase \in {"open", "replying"} /\ outgoing # <<>> /\ outgoing[1].outer # "ccs"
  /\ outgoing' = Tail(outgoing)
  /\ IF outgoing[1].key # server.dec THEN Refuses("decrypt")
     ELSE ServerSays([server EXCEPT !.dec = Used(@),
                                    !.phase = IF outgoing[1].inner = "data" THEN "replying" ELSE "closed"],
                     <<>>)

SendBytes(n) ==
  /\ server.phase = "replying" /\ server.sent + n <= MaxReply /\ UNCHANGED outgoing
  /\ ServerSays([server EXCEPT !.enc = Used(@), !.sent = @ + n],
                <<Encrypted(server.version, "data", server.enc, Bytes(server.sent, server.sent + n))>>)

Close ==
  /\ server.phase = "replying" /\ UNCHANGED outgoing
  /\ ServerSays([server EXCEPT !.phase = "closed"],
                IF server.version \in Notifying
                THEN <<Encrypted(server.version, "alert", server.enc, <<"close_notify">>)>> ELSE <<>>)

GiveUp ==
  /\ server.phase = "hello" /\ UNCHANGED outgoing
  /\ ServerSays([server EXCEPT !.phase = "closed"], <<>>)

Client ==
  \/ SendClientHello \/ TakeHandshakeRecord \/ ClosedInHandshake \/ SendFinished
  \/ SendRequest \/ ReadPlaintext \/ ReadNext \/ ReadEnd \/ Drop
Server ==
  \/ Answer12 \/ Answer13 \/ SendTicket \/ TakeKeyExchange \/ TakeChangeCipherSpec
  \/ TakeFinished \/ TakeData \/ Close \/ GiveUp \/ \E n \in DataSizes : SendBytes(n)

TlsNext == Client \/ Server \/ Deliver
TlsSpec == TlsInit /\ [][TlsNext]_tlsVars

(***************************************************************************)
(* However a server puts its messages into records and the network cuts    *)
(* them up, both sides derive the same keys and number their records       *)
(* alike: neither refuses what the other sent (a server may hang up in the *)
(* handshake), and read() returns the bytes of the reply in order, each    *)
(* once, and reports the end when all of them have been returned, and not  *)
(* before.                                                                 *)
(***************************************************************************)
BothUnderstand ==
  /\ client.error \in {"none", "closed"} /\ server.error = "none"
  /\ returned = Bytes(0, Len(returned))
  /\ eof => Len(returned) = server.sent /\ server.phase = "closed"

(***************************************************************************)
(* connect() does not wait for a server that waits for it.                 *)
(***************************************************************************)
NoStandstill ==
  ~(Handshaking /\ wire = <<>> /\ outgoing = <<>> /\ server.phase = "hello")
=============================================================================
