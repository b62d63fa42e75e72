------------------------------- MODULE Memory -------------------------------
(***************************************************************************)
(* What viv remembers from session to session: files of learnings and      *)
(* episodes and an index of them (src/memory/store.rs, index.rs,           *)
(* retrieval.rs), written when a session ends (src/agent/evolution.rs).    *)
(* Agents share one directory without knowing of each other: programs      *)
(* started side by side, or the sub-agents of one process.                 *)
(* A summary is a sequence of Json's symbols, each of them also a word;    *)
(* an entry's one tag is its id.                                           *)
(***************************************************************************)
EXTENDS Integers, Sequences, SequencesExt, FiniteSets

CONSTANTS
  Agents,
  Learnings,      \* [id, text] the model may extract
  Summaries,      \* texts it may summarise a session with
  TopK,           \* AgentConfig.top_k_memory
  MaxCandidates,  \* 20 in the source
  MaxSessions,    \* bound: sessions of all agents together
  MaxClock        \* bound: seconds that pass

VARIABLES
  files,          \* the entries' files that exist, by id
  disk,           \* index.json, as symbols
  clock,
  agent,          \* per agent: where it is, its index, what is still to write
  recalled,       \* per agent: the memories injected last
  sessions,
  version,        \* history: completed saves
  learned,        \* history: [id, text] given to some index
  ought,          \* history: the text every saved id was saved with last
  damaged         \* history: a save over a newer index, a torn one, or a backslash

memoryVars == <<files, disk, clock, agent, recalled, sessions, version, learned, ought, damaged>>

J == INSTANCE Json

Kinds == <<"episodes", "knowledge">>
Entry(kind, id, text) == [kind |-> kind, id |-> id, tags |-> <<id>>, text |-> text]

(***************************************************************************)
(* The index file                                                          *)
(***************************************************************************)
NoFile == <<"no file">>

(* Mutant: nothing is escaped. *)
Unprotected(text) == text

(* entry_json escapes the quotes of a summary and nothing else. *)
Protected(text) == J!QuotesEscaped(text)

Pair(key, value) == J!Quoted(<<key>>) \o <<":">> \o value
EntryJson(e) ==
  <<"{">> \o J!Listed(<<Pair("id", J!Quoted(<<e.id>>)),
                        Pair("tags", <<"[">> \o J!Quoted(e.tags) \o <<"]">>),
                        Pair("summary", J!Quoted(Protected(e.text)))>>) \o <<"}">>

OfKind(index, kind) == SelectSeq(index, LAMBDA e : e.kind = kind)
Encoded(index) ==
  <<"{">> \o J!Listed(<<Pair("version", <<"1">>)>> \o
     [k \in 1..2 |-> Pair(Kinds[k],
        LET es == OfKind(index, Kinds[k])
        IN <<"[">> \o J!Listed([i \in DOMAIN es |-> EntryJson(es[i])]) \o <<"]">>)]) \o <<"}">>

(* A missing file and one that does not parse are an empty index. *)
TextOf(item, key) == J!CharsOf(J!Field(item, <<key>>))
EntriesOf(kind, items) ==
  [i \in DOMAIN items |-> Entry(kind, TextOf(items[i], "id")[1], TextOf(items[i], "summary"))]
IndexOf(read) ==
  FlattenSeq([k \in 1..2 |->
    IF read.ok THEN EntriesOf(Kinds[k], J!Items(J!Field(read.value, <<Kinds[k]>>))) ELSE <<>>])
Loaded(raw) == IndexOf(J!Parsed(raw))

Upsert(index, e) ==
  IF \E i \in DOMAIN index : index[i].id = e.id
  THEN LET i == CHOOSE n \in DOMAIN index : /\ index[n].id = e.id
                                            /\ \A k \in 1..(n - 1) : index[k].id # e.id
       IN [index EXCEPT ![i] = e]
  ELSE Append(index, e)

(***************************************************************************)
(* Retrieval: keywords first, then the model's choice if there are many.   *)
(***************************************************************************)
KeywordSearch(index, word) ==
  SelectSeq(index, LAMBDA e : word \in ToSet(e.text) \cup ToSet(e.tags))
Candidates(index, word) ==
  LET hits == KeywordSearch(index, word)
  IN SubSeq(hits, 1, IF Len(hits) < MaxCandidates THEN Len(hits) ELSE MaxCandidates)

(* Mutant: as many as the model names. *)
RankedAll(candidates, answer) ==
  LET valid == SelectSeq(answer, LAMBDA i : i < Len(candidates))
  IN [n \in DOMAIN valid |-> candidates[valid[n] + 1]]

(* The model may name what it likes, twice or out of range. *)
Ranked(candidates, answer) ==
  LET valid == SelectSeq(answer, LAMBDA i : i < Len(candidates))
      taken == SubSeq(valid, 1, IF Len(valid) < TopK THEN Len(valid) ELSE TopK)
  IN [n \in DOMAIN taken |-> candidates[taken[n] + 1]]

Selected(candidates, answer) ==
  IF Len(candidates) <= TopK THEN candidates ELSE Ranked(candidates, answer)

Answers == UNION {[1..n -> 0..MaxCandidates] : n \in 0..(TopK + 1)}

(***************************************************************************)
(* Actions                                                                 *)
(***************************************************************************)
Off == [at |-> "off", index |-> <<>>, todo |-> <<>>, base |-> 0]

MemoryInit ==
  /\ files = {} /\ disk = NoFile /\ clock = 0
  /\ agent = [a \in Agents |-> Off] /\ recalled = [a \in Agents |-> <<>>]
  /\ sessions = 0 /\ version = 0 /\ learned = {} /\ ought = <<>> /\ damaged = FALSE

Goes(a, from, to) == agent[a].at = from /\ agent' = [agent EXCEPT ![a].at = to]
StoreStays == UNCHANGED <<files, disk, clock, recalled, sessions, version, learned, ought, damaged>>

(* Agent::new, Agent::new_sub. *)
Start(a) ==
  /\ agent[a].at = "off" /\ sessions < MaxSessions
  /\ agent' = [agent EXCEPT ![a] = [at |-> "session", index |-> Loaded(disk), todo |-> <<>>, base |-> version]]
  /\ sessions' = sessions + 1
  /\ UNCHANGED <<files, disk, clock, recalled, version, learned, ought, damaged>>

(* handle_input: of a ranking that fails nothing is injected. *)
Recall(a, word) ==
  /\ agent[a].at = "session"
  /\ \E answer \in Answers :
       LET selected == Selected(Candidates(agent[a].index, word), answer)
       IN recalled' = [recalled EXCEPT ![a] = SelectSeq(selected, LAMBDA e : e.id \in files)]
  /\ UNCHANGED <<files, disk, clock, agent, sessions, version, learned, ought, damaged>>

(* evolve_from_session: a session of less than two messages teaches nothing. *)
End(a) ==
  /\ Goes(a, "session", "off") \/ Goes(a, "session", "extracting")
  /\ recalled' = [recalled EXCEPT ![a] = <<>>]
  /\ UNCHANGED <<files, disk, clock, sessions, version, learned, ought, damaged>>

Extract(a) ==
  /\ agent[a].at = "extracting"
  /\ \E todo \in {<<>>} \cup {<<l>> : l \in Learnings} :
       agent' = [agent EXCEPT ![a].at = "writing", ![a].todo = todo]
  /\ StoreStays

Write(a, e, to) ==
  /\ files' = files \cup {e.id}
  /\ agent' = [agent EXCEPT ![a].index = Upsert(@, e), ![a].todo = <<>>, ![a].at = to]
  /\ learned' = learned \cup {[id |-> e.id, text |-> e.text]}
  /\ UNCHANGED <<disk, clock, recalled, sessions, version, ought, damaged>>

WriteKnowledge(a) ==
  /\ agent[a].at = "writing" /\ agent[a].todo # <<>>
  /\ Write(a, Entry("knowledge", agent[a].todo[1].id, agent[a].todo[1].text), "writing")

(* fs::write truncates the file before it writes. *)
BeginSave(a) ==
  /\ \/ agent[a].todo = <<>> /\ Goes(a, "writing", "saving")
     \/ Goes(a, "noted", "saving again")
  /\ disk' = <<>>
  /\ UNCHANGED <<files, clock, recalled, sessions, version, learned, ought, damaged>>

Remembered(index) ==
  [id \in DOMAIN ought \cup {index[i].id : i \in DOMAIN index} |->
     IF \E i \in DOMAIN index : index[i].id = id
     THEN index[CHOOSE i \in DOMAIN index : index[i].id = id].text ELSE ought[id]]

EndSave(a) ==
  LET index == agent[a].index
      unclean == \E i \in DOMAIN index : "bslash" \in ToSet(index[i].text)
  IN /\ \/ agent[a].at = "saving" /\ agent' = [agent EXCEPT ![a].at = "summarising", ![a].base = version + 1]
        \/ agent[a].at = "saving again" /\ agent' = [agent EXCEPT ![a] = Off]
     /\ disk' = Encoded(index)
     /\ version' = version + 1 /\ ought' = Remembered(index)
     /\ damaged' = (damaged \/ unclean \/ agent[a].base # version)
     /\ UNCHANGED <<files, clock, recalled, sessions, learned>>

(* save_episode: the episode is named after the second it is written in.   *)
Note(a) ==
  /\ agent[a].at = "summarising"
  /\ \E text \in Summaries : Write(a, Entry("episodes", "ep-" \o ToString(clock), text), "noted")

(* A model that does not answer, a write that fails, a crash. *)
Break(a) ==
  /\ agent[a].at # "off" /\ agent' = [agent EXCEPT ![a] = Off]
  /\ recalled' = [recalled EXCEPT ![a] = <<>>]
  /\ damaged' = (damaged \/ agent[a].at \in {"saving", "saving again"})
  /\ UNCHANGED <<files, disk, clock, sessions, version, learned, ought>>

Tick ==
  /\ clock < MaxClock /\ clock' = clock + 1
  /\ UNCHANGED <<files, disk, agent, recalled, sessions, version, learned, ought, damaged>>

MemoryNext ==
  \/ \E a \in Agents :
       \/ Start(a) \/ End(a) \/ Extract(a) \/ WriteKnowledge(a)
       \/ BeginSave(a) \/ EndSave(a) \/ Note(a) \/ Break(a)
       \/ \E word \in UNION {ToSet(l.text) : l \in Learnings} : Recall(a, word)
  \/ Tick

MemorySpec == MemoryInit /\ [][MemoryNext]_memoryVars

(***************************************************************************)
(* Properties                                                              *)
(***************************************************************************)

(***************************************************************************)
(* What a session learned is in the index for every later session, with    *)
(* the text it was saved with last, through any number of loads and saves  *)
(* and sessions that broke off.  Not so once an agent saved over the index *)
(* of another, a save was cut short, or a summary has a backslash.         *)
(***************************************************************************)
NothingIsForgotten ==
  LET Has(index, id) == \E i \in DOMAIN index : index[i].id = id /\ index[i].text = ought[id]
      HasAll(index) == \A id \in DOMAIN ought : Has(index, id)
      saving == \E a \in Agents : agent[a].at \in {"saving", "saving again"}
  IN damaged \/ saving \/ HasAll(Loaded(disk))

(***************************************************************************)
(* A memory injected into a prompt has its file and was learned by some    *)
(* session in these very words (a backslash in them apart), and no more    *)
(* than TopK are, whatever the ranking model answers and however torn or   *)
(* overwritten the index was.                                              *)
(***************************************************************************)
RecalledWasLearned ==
  \A a \in Agents :
    /\ Len(recalled[a]) <= TopK
    /\ \A i \in DOMAIN recalled[a] :
         /\ recalled[a][i].id \in files
         /\ \E l \in learned : /\ l.id = recalled[a][i].id
                               /\ l.text = recalled[a][i].text \/ "bslash" \in ToSet(l.text)
=============================================================================
