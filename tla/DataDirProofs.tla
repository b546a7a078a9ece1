---------------------------- MODULE DataDirProofs ----------------------------
(***************************************************************************)
(* Type correctness of DataDir, that a restore can be undone and that the  *)
(* retention is met, for any retention counts and any number of edits and  *)
(* restores, with and without faults and an external wiki.                 *)
(***************************************************************************)
EXTENDS DataDir, SequenceTheorems, TLAPS

USE SwitchesAssumption, BoundsAssumption, KeepsAssumption

-----------------------------------------------------------------------------
(* Archives and lists of them. *)

Trees == [db : DBs, files : Versions \cup {Gone}, inner : Versions \cup {Gone}, repos : BOOLEAN]

\* The first k of a list.
LEMMA FirstOf ==
  ASSUME NEW S, NEW list \in Seq(S), NEW k \in Nat, k <= Len(list)
  PROVE  SubSeq(list, 1, k) \in Seq(S) /\ Len(SubSeq(list, 1, k)) = k
<1>1. \A i \in 1 .. k : list[i] \in S
  BY ElementOfSeq
<1> QED BY <1>1, SubSeqProperties

\* The last of a list, from k on.
LEMMA LastOf ==
  ASSUME NEW S, NEW list \in Seq(S), NEW k \in Nat \ {0}
  PROVE  SubSeq(list, k, Len(list)) \in Seq(S)
<1>1. \A i \in k .. Len(list) : list[i] \in S
  <2>1. \A i \in k .. Len(list) : i \in 1 .. Len(list)
    OBVIOUS
  <2> QED BY <2>1, ElementOfSeq
<1>2. k \in Int /\ Len(list) \in Int
  OBVIOUS
<1> QED BY <1>1, <1>2, SubSeqProperties

\* Pruning leaves what the retention asks for, if it was there.
LEMMA PrunedIs ==
  ASSUME NEW S, NEW list \in Seq(S), NEW keep \in Keeps
  PROVE  /\ Pruned(list, keep) \in Seq(S)
         /\ Len(Pruned(list, keep)) >= keep \/ Len(Pruned(list, keep)) = Len(list)
<1>1. keep \in Nat /\ Len(list) \in Nat
  OBVIOUS
<1>2. CASE Len(list) > keep
  BY <1>1, <1>2, FirstOf DEF Pruned
<1>3. CASE ~(Len(list) > keep)
  BY <1>3 DEF Pruned
<1> QED BY <1>2, <1>3

LEMMA ZipIs == TypeOK => Zip \in Archives
BY DEF TypeOK, Zip, Archives

LEMMA GoneIs == Gone \in Nat /\ 0 \in Versions /\ "never" \in {"never", "recent", "old"}
BY DEF Gone, Versions

\* A backup in front of the others, pruned or not.
LEMMA BackedUp ==
  ASSUME TypeOK
  PROVE  LET new == <<Zip>> \o backups
         IN /\ new \in Seq(Archives) /\ Len(new) = Len(backups) + 1
            /\ Pruned(new, live.db.keep) \in Seq(Archives)
            /\ \/ Len(Pruned(new, live.db.keep)) >= Len(backups)
               \/ Len(Pruned(new, live.db.keep)) >= live.db.keep
<1> DEFINE new == <<Zip>> \o backups
<1>1. Zip \in Archives /\ backups \in Seq(Archives) /\ live.db.keep \in Keeps
  BY ZipIs DEF TypeOK, DBs
<1>2. new \in Seq(Archives) /\ Len(new) = Len(backups) + 1
  <2>1. <<Zip>> \in Seq(Archives) /\ Len(<<Zip>>) = 1
    BY <1>1
  <2> QED BY <1>1, <2>1, ConcatProperties
<1> HIDE DEF new
<1>3. /\ Pruned(new, live.db.keep) \in Seq(Archives)
      /\ \/ Len(Pruned(new, live.db.keep)) >= live.db.keep
         \/ Len(Pruned(new, live.db.keep)) = Len(new)
  BY <1>1, <1>2, PrunedIs
<1>4. Len(backups) \in Nat
  BY <1>1
<1> QED BY <1>2, <1>3, <1>4 DEF new

\* A restore leaves a tree, whole or half-way.
LEMMA ReplacedIs ==
  ASSUME TypeOK, NEW a \in Archives
  PROVE  Replaced(a) \in Trees /\ HalfReplaced(a) \subseteq Trees
<1>1. live \in Trees /\ Gone \in Versions \cup {Gone}
  BY DEF TypeOK, Trees
<1>2. a.db \in DBs /\ a.files \in Versions \cup {Gone} /\ a.wiki \in Versions \cup {Gone}
  BY DEF Archives
<1>3. Replaced(a) \in Trees
  BY <1>2 DEF Replaced, Trees
<1>4. ASSUME NEW t \in HalfReplaced(a) PROVE t \in Trees
  <2> DEFINE new == Replaced(a)
  <2>1. \/ \E f \in {live.files, Gone}, w \in {live.inner, Gone}, r \in {live.repos, FALSE} :
             t = [db |-> a.db, files |-> f, inner |-> w, repos |-> r]
        \/ \E f \in {new.files, Gone}, w \in {new.inner, Gone} :
             t = [db |-> a.db, files |-> f, inner |-> w, repos |-> FALSE]
    BY <1>4 DEF HalfReplaced
  <2>2. new \in Trees
    BY <1>3
  <2> HIDE DEF new
  <2>3. \E f, w \in Versions \cup {Gone}, r \in BOOLEAN :
          t = [db |-> a.db, files |-> f, inner |-> w, repos |-> r]
    <3>1. /\ {live.files, Gone} \subseteq Versions \cup {Gone} /\ {live.inner, Gone} \subseteq Versions \cup {Gone}
          /\ {new.files, Gone} \subseteq Versions \cup {Gone} /\ {new.inner, Gone} \subseteq Versions \cup {Gone}
          /\ {live.repos, FALSE} \subseteq BOOLEAN
      BY <1>1, <2>2 DEF Trees
    <3> QED BY <2>1, <3>1
  <2> QED BY <1>2, <2>3 DEF Trees
<1> QED BY <1>3, <1>4

\* What a restore may be of.
LEMMA ExistingIs == TypeOK => Existing \subseteq Archives
<1> SUFFICES ASSUME TypeOK PROVE Existing \subseteq Archives
  OBVIOUS
<1>1. \A i \in DOMAIN backups : backups[i] \in Archives
  BY DEF TypeOK
<1> QED BY <1>1 DEF Existing, TypeOK

\* The archive made before a restore.
LEMMA PreRestoreIs ==
  ASSUME TypeOK
  PROVE  PreRestore \subseteq [data : Archives, now : BOOLEAN] /\ \E s \in PreRestore : s.data = Zip
<1> DEFINE made == [data |-> Zip, now |-> TRUE]
<1>1. made \in [data : Archives, now : BOOLEAN] /\ made.data = Zip
  BY ZipIs
<1>2. PreRestore = {s \in safety : ~s.now} \cup {made}
  BY DEF PreRestore
<1>3. safety \subseteq [data : Archives, now : BOOLEAN]
  BY DEF TypeOK
<1> HIDE DEF made
<1> QED BY <1>1, <1>2, <1>3

LEMMA AgedIs == \A db \in DBs : Aged(db) \in DBs
<1> SUFFICES ASSUME NEW db \in DBs PROVE Aged(db) \in DBs
  OBVIOUS
<1>1. (IF db.last = "recent" THEN "old" ELSE db.last) \in {"never", "recent", "old"}
  BY DEF DBs
<1> QED BY <1>1 DEF Aged, DBs

-----------------------------------------------------------------------------
(* Every step. *)

LEMMA InitType == Init => TypeOK
<1> SUFFICES ASSUME Init PROVE TypeOK
  OBVIOUS
<1>1. live \in Trees
  <2>1. PICK k \in Keeps :
          live = [db |-> [val |-> 0, on |-> FALSE, keep |-> k, last |-> "never"], files |-> 0,
                  inner |-> IF ExternalWiki THEN Gone ELSE 0, repos |-> TRUE]
    BY DEF Init
  <2>2. [val |-> 0, on |-> FALSE, keep |-> k, last |-> "never"] \in DBs
    BY GoneIs DEF DBs
  <2> QED BY <2>1, <2>2, GoneIs DEF Trees
<1>2. backups \in Seq(Archives)
  BY DEF Init
<1> QED BY <1>1, <1>2, GoneIs DEF Init, TypeOK, Trees

\* A tree whose database notes a backup, or ages.
LEMMA NotedIs ==
  ASSUME TypeOK
  PROVE  Noted \in Trees /\ [live EXCEPT !.db = Aged(@)] \in Trees
<1>1. live \in Trees /\ live.db \in DBs
  BY DEF TypeOK, Trees
<1>2. [live.db EXCEPT !.last = "recent"] \in DBs
  BY <1>1 DEF DBs
<1>3. Noted = [live EXCEPT !.db = [live.db EXCEPT !.last = "recent"]]
  BY <1>1 DEF Noted, Trees
<1>4. Noted \in Trees
  BY <1>1, <1>2, <1>3 DEF Trees
<1>5. Aged(live.db) \in DBs
  BY <1>1, AgedIs
<1> QED BY <1>1, <1>4, <1>5 DEF Trees

LEMMA EditType ==
  ASSUME TypeOK, Edit
  PROVE  TypeOK'
<1>1. live \in Trees /\ live.db \in DBs /\ outer \in Versions \cup {Gone} /\ edits' = edits + 1 /\ edits + 1 \in Versions
  BY DEF TypeOK, Trees, Edit, Versions
<1>2. [live.db EXCEPT !.val = edits + 1] \in DBs
  BY <1>1 DEF DBs
<1>3. [live EXCEPT !.db.val = edits + 1] = [live EXCEPT !.db = [live.db EXCEPT !.val = edits + 1]]
  BY <1>1 DEF Trees
<1>4. [live EXCEPT !.db.val = edits + 1] \in Trees
  BY <1>1, <1>2, <1>3 DEF Trees
<1>5. [live EXCEPT !.files = edits + 1] \in Trees /\ [live EXCEPT !.inner = edits + 1] \in Trees
  BY <1>1 DEF Trees
<1>6. live' \in Trees /\ outer' \in Versions \cup {Gone}
  BY <1>1, <1>4, <1>5 DEF Edit
<1> QED BY <1>1, <1>6 DEF Edit, TypeOK, Trees

LEMMA ConfigureType ==
  ASSUME TypeOK, Configure
  PROVE  TypeOK'
<1>1. live \in Trees /\ live.db \in DBs /\ edits' = edits + 1 /\ edits + 1 \in Versions
  BY DEF TypeOK, Trees, Configure, Versions
<1>2. CASE live' = [live EXCEPT !.db.on = ~@]
  <2>1. live' = [live EXCEPT !.db = [live.db EXCEPT !.on = ~live.db.on]]
    BY <1>1, <1>2 DEF Trees, DBs
  <2>2. [live.db EXCEPT !.on = ~live.db.on] \in DBs
    BY <1>1 DEF DBs
  <2>3. live' \in Trees
    BY <1>1, <2>1, <2>2 DEF Trees
  <2> QED BY <1>1, <2>3 DEF Configure, TypeOK, Trees
<1>3. CASE \E k \in Keeps : live' = [live EXCEPT !.db.keep = k]
  <2>1. PICK k \in Keeps : live' = [live EXCEPT !.db.keep = k]
    BY <1>3
  <2>2. live' = [live EXCEPT !.db = [live.db EXCEPT !.keep = k]]
    BY <1>1, <2>1 DEF Trees
  <2>3. [live.db EXCEPT !.keep = k] \in DBs
    BY <1>1 DEF DBs
  <2>4. live' \in Trees
    BY <1>1, <2>2, <2>3 DEF Trees
  <2> QED BY <1>1, <2>4 DEF Configure, TypeOK, Trees
<1> QED BY <1>2, <1>3 DEF Configure

LEMMA DeleteType ==
  ASSUME TypeOK, DeleteArchive
  PROVE  TypeOK'
<1>1. edits' = edits + 1 /\ edits + 1 \in Versions /\ backups \in Seq(Archives)
  BY DEF TypeOK, DeleteArchive, Versions
<1>2. backups' \in Seq(Archives) /\ safety' \subseteq safety
  <2>1. CASE UNCHANGED backups /\ \E s \in safety : safety' = safety \ {s}
    BY <1>1, <2>1
  <2>2. CASE UNCHANGED safety /\ \E i \in DOMAIN backups :
               backups' = SubSeq(backups, 1, i - 1) \o SubSeq(backups, i + 1, Len(backups))
    <3>1. PICK i \in DOMAIN backups :
            backups' = SubSeq(backups, 1, i - 1) \o SubSeq(backups, i + 1, Len(backups))
      BY <2>2
    <3>2. i - 1 \in Nat /\ i - 1 <= Len(backups) /\ i + 1 \in Nat \ {0}
      BY <1>1
    <3>3. SubSeq(backups, 1, i - 1) \in Seq(Archives) /\ SubSeq(backups, i + 1, Len(backups)) \in Seq(Archives)
      BY <1>1, <3>2, FirstOf, LastOf
    <3>4. backups' \in Seq(Archives)
      BY <3>1, <3>3, ConcatProperties
    <3> QED BY <2>2, <3>4
  <2> QED BY <2>1, <2>2 DEF DeleteArchive
<1> QED BY <1>1, <1>2 DEF DeleteArchive, TypeOK

\* A backup, by the schedule or by hand; a tick that dies leaves the list unpruned.
LEMMA BackupType ==
  ASSUME TypeOK, Tick \/ TickDies \/ RunBackup
  PROVE  TypeOK'
<1>1. Noted \in Trees /\ live \in Trees
  BY NotedIs DEF TypeOK, Trees
<1>2. /\ backups' \in {<<Zip>> \o backups, Pruned(<<Zip>> \o backups, live.db.keep)}
      /\ live' \in {live, Noted} /\ UNCHANGED <<outer, safety, restores>>
      /\ edits' = edits \/ (edits < MaxEdits /\ edits' = edits + 1)
  BY DEF Tick, TickDies, RunBackup
<1>3. backups' \in Seq(Archives)
  BY <1>2, BackedUp
<1>4. edits' \in Versions
  BY <1>2 DEF TypeOK, Versions
<1>5. live' \in Trees
  BY <1>1, <1>2
<1> QED BY <1>2, <1>3, <1>4, <1>5 DEF TypeOK, Trees

LEMMA RestoreType ==
  ASSUME TypeOK, Restore \/ RestoreStops
  PROVE  TypeOK'
<1>1. PICK a \in Existing : live' = Replaced(a) \/ live' \in HalfReplaced(a)
  BY DEF Restore, RestoreStops
<1>2. live' \in Trees
  BY <1>1, ExistingIs, ReplacedIs
<1>3. safety' \subseteq [data : Archives, now : BOOLEAN]
  BY PreRestoreIs DEF Restore, RestoreStops
<1>4. restores' \in 0 .. MaxRestores
  BY DEF TypeOK, Restore, RestoreStops
<1> QED BY <1>2, <1>3, <1>4 DEF Restore, RestoreStops, TypeOK, Trees

LEMMA CadenceType ==
  ASSUME TypeOK, CadencePasses
  PROVE  TypeOK'
<1>1. live' \in Trees
  BY NotedIs DEF CadencePasses
<1>2. \A a \in Archives : [a EXCEPT !.db = Aged(@)] \in Archives
  BY AgedIs DEF Archives
<1>3. backups' \in Seq(Archives)
  <2>1. backups \in Seq(Archives) /\ backups' = [i \in DOMAIN backups |-> [backups[i] EXCEPT !.db = Aged(@)]]
    BY DEF TypeOK, CadencePasses
  <2>2. \A i \in DOMAIN backups : [backups[i] EXCEPT !.db = Aged(@)] \in Archives
    BY <1>2, <2>1
  <2>3. Len(backups) \in Nat /\ DOMAIN backups = 1 .. Len(backups)
    BY <2>1
  <2> DEFINE n == Len(backups)
  <2>4. backups' \in [1 .. n -> Archives] /\ n \in Nat
    BY <2>1, <2>2, <2>3
  <2> HIDE DEF n
  <2> QED BY <2>4, SeqDef
<1>4. safety' \subseteq [data : Archives, now : BOOLEAN]
  <2>1. \A s \in safety : [s.data EXCEPT !.db = Aged(@)] \in Archives
    BY <1>2 DEF TypeOK
  <2> DEFINE F(s) == [data |-> [s.data EXCEPT !.db = Aged(@)], now |-> FALSE]
  <2>2. \A s \in safety : F(s) \in [data : Archives, now : BOOLEAN]
    BY <2>1
  <2>3. safety' = {F(s) : s \in safety}
    BY DEF CadencePasses
  <2> HIDE DEF F
  <2> QED BY <2>2, <2>3
<1> QED BY <1>1, <1>3, <1>4 DEF CadencePasses, TypeOK, Trees

LEMMA StepType == TypeOK /\ [Next]_vars => TypeOK'
<1> SUFFICES ASSUME TypeOK, [Next]_vars PROVE TypeOK'
  OBVIOUS
<1>1. CASE UNCHANGED vars
  BY <1>1 DEF vars, TypeOK
<1>2. CASE NextSecond
  <2>1. \A s \in safety : [s EXCEPT !.now = FALSE] \in [data : Archives, now : BOOLEAN]
    BY DEF TypeOK
  <2> QED BY <1>2, <2>1 DEF NextSecond, TypeOK
<1> QED BY <1>1, <1>2, EditType, ConfigureType, DeleteType, BackupType, RestoreType, CadenceType
        DEF Next, Operator

LEMMA Invariant == Spec => []TypeOK
BY InitType, StepType, PTL DEF Spec

-----------------------------------------------------------------------------
(* The theorems. *)

\* Trees, archives and counters keep their types, whatever stops half-way (backup.py).
THEOREM TypeCorrect == Spec => []TypeOK
BY Invariant

\* Whatever a restore replaces is in an archive made before it: a half-restored tree
\* and a second restore in the same second included (restore_data_dir).
THEOREM RestoreCanBeUndoneHolds == Spec => RestoreCanBeUndone
<1>1. ASSUME TypeOK, [Next]_vars, restores' # restores
      PROVE  \E a \in {s.data : s \in safety'} : Holds(a)
  <2>1. safety' = PreRestore
    BY <1>1 DEF Next, Operator, Tick, TickDies, RunBackup, DeleteArchive, Restore, RestoreStops, Edit,
       Configure, NextSecond, CadencePasses, vars
  <2>2. Holds(Zip)
    BY DEF Holds, Zip
  <2>3. PICK s \in PreRestore : s.data = Zip
    BY <1>1, PreRestoreIs
  <2> QED BY <2>1, <2>2, <2>3
<1>2. TypeOK /\ [Next]_vars
      => [restores' # restores => \E a \in {s.data : s \in safety'} : Holds(a)]_vars
  BY <1>1
<1> QED BY <1>2, Invariant, PTL DEF Spec, RestoreCanBeUndone

\* Pruning never takes the backups below the retention in force (prune_data_archives).
THEOREM RetentionIsMetHolds == Spec => RetentionIsMet
<1>1. ASSUME TypeOK, [Next]_vars, ~DeleteArchive
      PROVE  Len(backups') >= Len(backups) \/ Len(backups') >= live.db.keep
  <2>1. backups \in Seq(Archives) /\ Len(backups) \in Nat
    BY <1>1 DEF TypeOK
  <2>2. CASE backups' = backups
    BY <2>1, <2>2
  <2>3. CASE backups' \in {<<Zip>> \o backups, Pruned(<<Zip>> \o backups, live.db.keep)}
    BY <1>1, <2>1, <2>3, BackedUp
  <2>4. CASE CadencePasses
    <3>1. Len(backups') = Len(backups)
      BY <2>1, <2>4 DEF CadencePasses
    <3> QED BY <2>1, <3>1
  <2> QED BY <1>1, <2>2, <2>3, <2>4 DEF Next, Operator, Tick, TickDies, RunBackup, Restore, RestoreStops,
       Edit, Configure, NextSecond, vars
<1>2. TypeOK /\ [Next]_vars
      => [~DeleteArchive => Len(backups') >= Len(backups) \/ Len(backups') >= live.db.keep]_vars
  BY <1>1
<1> QED BY <1>2, Invariant, PTL DEF Spec, RetentionIsMet

=============================================================================
