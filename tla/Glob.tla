-------------------------------- MODULE Glob --------------------------------
(***************************************************************************)
(* The Glob tool (src/tools/file/glob.rs): a walk of a directory tree that *)
(* follows a pattern segment by segment.  A tree is a set of paths, a path *)
(* a sequence of names, a name a sequence of characters.  Sorting by time  *)
(* is left out; read_dir's order is any order.                             *)
(***************************************************************************)
EXTENDS Integers, Sequences, SequencesExt, FiniteSets

CONSTANTS
  Trees,
  Segments,
  IgnoredDirs,
  MaxSegments     \* bound: the length of a pattern

VARIABLES tree, pattern
globVars == <<tree, pattern>>

Deep == <<"*", "*">>

GlobInit == tree \in Trees /\ pattern = <<>>
AddSegment(segment) ==
  Len(pattern) < MaxSegments /\ pattern' = Append(pattern, segment) /\ UNCHANGED tree
GlobNext == \E segment \in Segments : AddSegment(segment)
GlobSpec == GlobInit /\ [][GlobNext]_globVars

IsDir(path) == path = <<>> \/ \E p \in tree : IsStrictPrefix(path, p)
Children(dir) == {p \in tree : Len(p) = Len(dir) + 1 /\ IsPrefix(dir, p)}
Skipped(path) == IsDir(path) /\ Last(path) \in IgnoredDirs
Entries(dir) == SetToSeq({p \in Children(dir) : ~Skipped(p)})

(* Mutant: a star that starts a segment stands for one character at least. *)
StarNeedsOne(p, name) ==
  LET dp[i \in 0..Len(p), j \in 0..Len(name)] ==
        IF i = 0 THEN j = 0
        ELSE IF j = 0 THEN FALSE
        ELSE IF p[i] = "*" THEN dp[i - 1, j] \/ dp[i, j - 1]
        ELSE p[i] \in {"?", name[j]} /\ dp[i - 1, j - 1]
  IN dp[Len(p), Len(name)]

SegmentMatch(p, name) ==
  LET dp[i \in 0..Len(p), j \in 0..Len(name)] ==
        IF i = 0 THEN j = 0
        ELSE IF j = 0 THEN p[i] = "*" /\ dp[i - 1, 0]
        ELSE IF p[i] = "*" THEN dp[i - 1, j] \/ dp[i, j - 1]
        ELSE p[i] \in {"?", name[j]} /\ dp[i - 1, j - 1]
  IN dp[Len(p), Len(name)]

Visited(dir, found) == FlattenSeq([k \in DOMAIN Entries(dir) |-> found[Entries(dir)[k]]])

RECURSIVE CollectAll(_)
CollectAll(dir) ==
  Visited(dir, [p \in ToSet(Entries(dir)) |-> <<p>> \o (IF IsDir(p) THEN CollectAll(p) ELSE <<>>)])

RECURSIVE WalkGlob(_, _)
WalkGlob(dir, parts) ==
  LET rest == Tail(parts)
      paths == ToSet(Entries(dir))
      InDir(others) == [p \in paths |-> IF IsDir(p) THEN WalkGlob(p, others) ELSE <<>>]
      met == [p \in paths |-> IF ~SegmentMatch(parts[1], Last(p)) THEN <<>>
                               ELSE IF rest = <<>> THEN <<p>>
                               ELSE InDir(rest)[p]]
  IN IF parts = <<>> THEN <<>>
     ELSE IF parts[1] # Deep THEN Visited(dir, met)
     ELSE IF rest = <<>> THEN CollectAll(dir)
     ELSE WalkGlob(dir, rest) \o Visited(dir, InDir(parts))

Found == WalkGlob(<<>>, pattern)

(***************************************************************************)
(* What a pattern means: a star stands for any characters of one name, two *)
(* for any directories.                                                    *)
(***************************************************************************)
RECURSIVE NameFits(_, _)
NameFits(p, name) ==
  IF p = <<>> THEN name = <<>>
  ELSE IF p[1] = "*"
  THEN \E i \in 1..Len(name) + 1 : NameFits(Tail(p), SubSeq(name, i, Len(name)))
  ELSE name # <<>> /\ p[1] \in {"?", name[1]} /\ NameFits(Tail(p), Tail(name))

RECURSIVE PathFits(_, _)
PathFits(parts, path) ==
  IF parts = <<>> THEN path = <<>>
  ELSE IF parts[1] = Deep
  THEN \/ parts = <<Deep>> /\ path # <<>>
       \/ \E i \in 1..Len(path) : PathFits(Tail(parts), SubSeq(path, i, Len(path)))
  ELSE path # <<>> /\ NameFits(parts[1], path[1]) /\ PathFits(Tail(parts), Tail(path))

(***************************************************************************)
(* The walk finds the paths the pattern means, none of them in an ignored  *)
(* directory, and each once unless the pattern has two double stars.       *)
(***************************************************************************)
GlobFindsWhatFits ==
  LET inSight == {p \in tree : \A i \in DOMAIN p : ~Skipped(SubSeq(p, 1, i))}
  IN /\ ToSet(Found) = {p \in inSight : PathFits(pattern, p) /\ pattern # <<>>}
     /\ Cardinality({i \in DOMAIN pattern : pattern[i] = Deep}) < 2 => IsInjective(Found)
=============================================================================
