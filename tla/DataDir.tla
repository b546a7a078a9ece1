------------------------------ MODULE DataDir ------------------------------
(***************************************************************************)
(* The data directory, its backups and their restore                       *)
(* (infrastructure/data/backup.py, application/system/backup_scheduler.py, *)
(* web/routers/settings_data_backup.py).                                   *)
(*                                                                         *)
(* The schedule, the retention and the time of the last backup are rows of *)
(* the database, so a restore brings back those of the archive.  A backup  *)
(* and a restore run on the event loop: each is one step, and only the     *)
(* death of the process, or a file that cannot be replaced, splits it.     *)
(***************************************************************************)
EXTENDS Naturals, Sequences

CONSTANTS ExternalWiki,  \* BOOLEAN: the wiki lies outside the data directory
          Keeps,         \* the retention counts the operator may choose
          MaxEdits,      \* bound: what the operator does to the data
          MaxRestores,   \* bound
          Faults         \* BOOLEAN: restores and ticks may stop half-way

ASSUME SwitchesAssumption == ExternalWiki \in BOOLEAN /\ Faults \in BOOLEAN
ASSUME BoundsAssumption   == MaxEdits \in Nat /\ MaxRestores \in Nat
ASSUME KeepsAssumption    == Keeps \subseteq Nat \ {0} /\ Keeps # {}

VARIABLES
  live,      \* the tree: database, other files, root/wiki, projects' repositories
  outer,     \* the wiki outside the tree
  backups,   \* the autoreiv-data archives, newest first
  safety,    \* the pre-restore archives; now: made in this second
  edits, restores

vars == <<live, outer, backups, safety, edits, restores>>

Gone     == MaxEdits + 1
Versions == 0 .. MaxEdits
DBs      == [val : Versions, on : BOOLEAN, keep : Keeps, last : {"never", "recent", "old"}]
Archives == [db : DBs, files : Versions \cup {Gone}, wiki : Versions \cup {Gone}]

TypeOK ==
  /\ live \in [db : DBs, files : Versions \cup {Gone}, inner : Versions \cup {Gone},
               repos : BOOLEAN]
  /\ outer \in Versions \cup {Gone}
  /\ backups \in Seq(Archives)
  /\ safety \subseteq [data : Archives, now : BOOLEAN]
  /\ edits \in Versions /\ restores \in 0 .. MaxRestores

\* An installation in use, nothing backed up yet.
Init ==
  /\ live \in {[db |-> [val |-> 0, on |-> FALSE, keep |-> k, last |-> "never"], files |-> 0,
                inner |-> IF ExternalWiki THEN Gone ELSE 0, repos |-> TRUE] : k \in Keeps}
  /\ outer = IF ExternalWiki THEN 0 ELSE Gone
  /\ backups = <<>> /\ safety = {} /\ edits = 0 /\ restores = 0

-----------------------------------------------------------------------------
(* Archives. *)

\* An external wiki is archived as wiki/, where a file of root/wiki comes first;
\* directories named .git, .venv, ... are left out.
Zip ==
  [db |-> live.db, files |-> live.files,
   wiki |-> IF ExternalWiki /\ live.inner = Gone THEN outer ELSE live.inner]

\* Mutant: the retention counts one archive too few.
PrunedShort(list, keep) == SubSeq(list, 1, keep - 1)

\* The pre-restore archives are not counted and not pruned.
Pruned(list, keep) == IF Len(list) > keep THEN SubSeq(list, 1, keep) ELSE list

Existing == {backups[i] : i \in DOMAIN backups} \cup {s.data : s \in safety}

Noted == [live EXCEPT !.db.last = "recent"]

\* Mutant: only the very first backup is due.
TickOnce ==
  /\ live.db.on /\ live.db.last = "never"
  /\ backups' = Pruned(<<Zip>> \o backups, live.db.keep)
  /\ live' = Noted
  /\ UNCHANGED <<outer, safety, edits, restores>>

\* DataDirBackupScheduler.tick with a backup due.
Tick ==
  /\ live.db.on /\ live.db.last # "recent"
  /\ backups' = Pruned(<<Zip>> \o backups, live.db.keep)
  /\ live' = Noted
  /\ UNCHANGED <<outer, safety, edits, restores>>

\* The tick dies after it has written the archive or pruned.
TickDies ==
  /\ Faults /\ live.db.on /\ live.db.last # "recent"
  /\ Len(backups) < live.db.keep + 1
  /\ backups' \in {<<Zip>> \o backups, Pruned(<<Zip>> \o backups, live.db.keep)}
  /\ UNCHANGED <<live, outer, safety, edits, restores>>

\* The operator's "Back up now", and the one that downloads and prunes nothing.
RunBackup ==
  /\ edits < MaxEdits /\ edits' = edits + 1
  /\ \/ backups' = Pruned(<<Zip>> \o backups, live.db.keep) /\ live' = Noted
     \/ backups' = <<Zip>> \o backups /\ UNCHANGED live
  /\ UNCHANGED <<outer, safety, restores>>

DeleteArchive ==
  /\ edits < MaxEdits /\ edits' = edits + 1
  /\ \/ \E i \in DOMAIN backups :
          /\ backups' = SubSeq(backups, 1, i - 1) \o SubSeq(backups, i + 1, Len(backups))
          /\ UNCHANGED safety
     \/ \E s \in safety : safety' = safety \ {s} /\ UNCHANGED backups
  /\ UNCHANGED <<live, outer, restores>>

-----------------------------------------------------------------------------
(* Restore. *)

\* Mutant: an archive of that second's name is left as it is.
PreRestoreOnce ==
  IF \E s \in safety : s.now THEN safety ELSE safety \cup {[data |-> Zip, now |-> TRUE]}

\* pre-restore-<second>.zip: a second one in the same second replaces the first.
PreRestore == {s \in safety : ~s.now} \cup {[data |-> Zip, now |-> TRUE]}

\* _replace_tree: the database first, then what is in the root is deleted and the
\* archive's tree is copied; database/ and backups/ stay.
Replaced(a) == [db |-> a.db, files |-> a.files, inner |-> a.wiki, repos |-> FALSE]

\* What a replacement that stops half-way can leave: deletions, then copies.
HalfReplaced(a) ==
  LET new == Replaced(a) IN
  {[db |-> a.db, files |-> f, inner |-> w, repos |-> r] :
      f \in {live.files, Gone}, w \in {live.inner, Gone}, r \in {live.repos, FALSE}}
  \cup {[db |-> a.db, files |-> f, inner |-> w, repos |-> FALSE] :
          f \in {new.files, Gone}, w \in {new.inner, Gone}}

Restore ==
  /\ restores < MaxRestores /\ restores' = restores + 1
  /\ \E a \in Existing : live' = Replaced(a)
  /\ safety' = PreRestore
  /\ UNCHANGED <<outer, backups, edits>>

RestoreStops ==
  /\ Faults /\ restores < MaxRestores /\ restores' = restores + 1
  /\ \E a \in Existing : live' \in HalfReplaced(a)
  /\ safety' = PreRestore
  /\ UNCHANGED <<outer, backups, edits>>

-----------------------------------------------------------------------------
(* The operator and the clock. *)

Edit ==
  /\ edits < MaxEdits /\ edits' = edits + 1
  /\ \/ live' \in {[live EXCEPT !.db.val = edits + 1], [live EXCEPT !.files = edits + 1]} /\ UNCHANGED outer
     \/ IF ExternalWiki THEN outer' = edits + 1 /\ UNCHANGED live
        ELSE live' = [live EXCEPT !.inner = edits + 1] /\ UNCHANGED outer
  /\ UNCHANGED <<backups, safety, restores>>

Configure ==
  /\ edits < MaxEdits /\ edits' = edits + 1
  /\ \/ live' = [live EXCEPT !.db.on = ~@]
     \/ \E k \in Keeps : live' = [live EXCEPT !.db.keep = k]
  /\ UNCHANGED <<outer, backups, safety, restores>>

NextSecond ==
  /\ \E s \in safety : s.now
  /\ safety' = {[s EXCEPT !.now = FALSE] : s \in safety}
  /\ UNCHANGED <<live, outer, backups, edits, restores>>

Aged(db) == [db EXCEPT !.last = IF @ = "recent" THEN "old" ELSE @]

\* is_backup_due: the cadence of the schedule has passed since every noted backup.
CadencePasses ==
  /\ live' = [live EXCEPT !.db = Aged(@)]
  /\ backups' = [i \in DOMAIN backups |-> [backups[i] EXCEPT !.db = Aged(@)]]
  /\ safety' = {[data |-> [s.data EXCEPT !.db = Aged(@)], now |-> FALSE] : s \in safety}
  /\ UNCHANGED <<outer, edits, restores>>

Operator == RunBackup \/ DeleteArchive \/ Restore \/ RestoreStops \/ Edit \/ Configure

Next == Operator \/ Tick \/ TickDies \/ NextSecond \/ CadencePasses

Spec == Init /\ [][Next]_vars

-----------------------------------------------------------------------------

Holds(a) ==
  a.db = live.db /\ a.files = live.files /\ (~ExternalWiki => a.wiki = live.inner)

\* What a restore replaces, whole or half-way, can be brought back: an archive
\* holds the database, the files and the wiki that were there before it, also when
\* the restore is of a half-restored tree or the second one in a second.
RestoreCanBeUndone ==
  [][restores' # restores => \E a \in {s.data : s \in safety'} : Holds(a)]_vars

\* Of the backups the newest stay: while the schedule is on and nobody deletes, the
\* number of backups never falls below what the retention in force asks for.
RetentionIsMet ==
  [][~DeleteArchive => Len(backups') >= Len(backups) \/ Len(backups') >= live.db.keep]_vars

Fairness == WF_vars(Tick) /\ WF_vars(CadencePasses)

FairSpec == Spec /\ Fairness

Same(a, b) == a.files = b.files /\ a.wiki = b.wiki /\ a.db.val = b.db.val

\* While the schedule stays on, what the operator leaves in the data directory comes
\* to be in the newest backup, also after ticks that died and a restore of an old
\* database with its old time of the last backup.
ChangesAreBackedUp ==
  <>[]live.db.on => <>[](backups # <<>> /\ Same(Head(backups), Zip))

-----------------------------------------------------------------------------
(* What the documents say and the code does not do. *)

\* An archive "contains autoreiv.db, wiki/, skills/, and any other files in the tree"
\* (REQ-DATA-007) and nothing but a restore touches the tree: the git repositories of
\* the projects in it are never lost.
NothingIsLost == live.repos

=============================================================================
