-------------------------- MODULE SelfUpdateProofs --------------------------
(***************************************************************************)
(* Type correctness of SelfUpdate, that it keeps the operator's work, and  *)
(* that it restarts only what is installed, for any branches, revisions,   *)
(* needs, kinds of work and faults.                                        *)
(***************************************************************************)
EXTENDS SelfUpdate, TLAPS

USE BranchesAssumption, BoundsAssumption, KindsAssumption, SwitchAssumption

-----------------------------------------------------------------------------
(* The inductive invariant. *)

Repos == [head : Branches, local : Refs, fetched : Refs, upstream : SUBSET Branches]

\* A branch with commits of its own exists; otherwise a switch would create it.
\* What is installed is what the checkout needs, unless an install is owed.
IInv ==
  /\ TypeOK
  /\ \A b \in own : repo.local[b] # NoRev
  /\ venv = NeedsOf(Head(repo)) \/ owed

-----------------------------------------------------------------------------
(* The checkout. *)

\* A checkout of something.
Checkout(r) == r \in Repos /\ r.local[r.head] # NoRev

LEMMA RefFacts == NoRev \notin Revs /\ \A n \in Revs : n # NoRev
BY DEF NoRev, Revs

LEMMA FetchedIs ==
  ASSUME origin \in [Branches -> Revs], NEW r \in Repos, NEW net \in BOOLEAN
  PROVE  LET q == Fetched(r, net)
         IN q \in Repos /\ q.head = r.head /\ q.local = r.local /\ q.upstream = r.upstream
<1>1. origin \in Refs
  BY DEF Refs
<1> QED BY <1>1 DEF Fetched, Repos

LEMMA FastForwardIs ==
  ASSUME origin \in [Branches -> Revs], NEW r, Checkout(r), NEW net \in BOOLEAN
  PROVE  LET q == FastForward(r, net)
         IN /\ Checkout(q) /\ q.head = r.head
            /\ \A b \in Branches : b # r.head => q.local[b] = r.local[b]
<1>1. r \in Repos /\ r.head \in Branches /\ r.local \in Refs
  BY DEF Checkout, Repos
<1>2. CASE ~net
  BY <1>2 DEF FastForward
<1>3. CASE net
  <2> DEFINE f == Fetched(r, net)
             q == [f EXCEPT !.local[r.head] = origin[r.head]]
  <2>1. f \in Repos /\ f.head = r.head /\ f.local = r.local /\ f.upstream = r.upstream
    BY <1>1, FetchedIs
  <2>2. FastForward(r, net) = q
    BY <1>3 DEF FastForward
  <2> HIDE DEF f
  <2>3. q.local = [f.local EXCEPT ![r.head] = origin[r.head]] /\ q.head = f.head
    BY <2>1 DEF Repos
  <2>4. origin[r.head] \in Revs /\ origin[r.head] # NoRev
    BY <1>1, RefFacts
  <2>5. [f.local EXCEPT ![r.head] = origin[r.head]] \in Refs
    BY <1>1, <2>1, <2>4 DEF Refs
  <2>6. q = [f EXCEPT !.local = [f.local EXCEPT ![r.head] = origin[r.head]]]
    BY <2>1 DEF Repos
  <2>7. q \in Repos
    BY <2>1, <2>5, <2>6 DEF Repos
  <2>8. q.local[r.head] = origin[r.head] /\ \A b \in Branches : b # r.head => q.local[b] = r.local[b]
    BY <1>1, <2>1, <2>3 DEF Refs
  <2> QED BY <2>1, <2>2, <2>3, <2>4, <2>7, <2>8 DEF Checkout
<1> QED BY <1>2, <1>3

\* A checkout changes no other branch, and not one with commits of its own.
LEMMA MovedIs ==
  ASSUME origin \in [Branches -> Revs], NEW r, Checkout(r), NEW net \in BOOLEAN,
         NEW b \in Listed(r), \A c \in own : r.local[c] # NoRev
  PROVE  LET q == Moved(r, b, net)
         IN /\ Checkout(q) /\ q.head = b
            /\ \A c \in Branches : c # b \/ c \in own => q.local[c] = r.local[c]
<1> DEFINE remote == r.fetched[b] # NoRev
           seen   == IF remote THEN Fetched(r, net) ELSE r
           new    == IF seen.local[b] = NoRev THEN seen.fetched[b] ELSE seen.local[b]
           local  == [seen.local EXCEPT ![b] = new]
           up     == IF remote THEN seen.upstream \cup {b} ELSE seen.upstream
           moved  == [seen EXCEPT !.head = b, !.upstream = up, !.local = local]
<1>1. r \in Repos /\ b \in Branches /\ r.local \in Refs
  BY DEF Checkout, Repos, Listed
<1>2. seen \in Repos /\ seen.head = r.head /\ seen.local = r.local
  BY <1>1, FetchedIs
<1>3. remote => seen.fetched[b] # NoRev
  <2>1. origin[b] # NoRev
    BY <1>1, RefFacts
  <2> QED BY <1>1, <2>1 DEF Fetched, Repos
<1>4. Moved(r, b, net) = moved
  <2>1. seen = [head |-> seen.head, local |-> seen.local, fetched |-> seen.fetched, upstream |-> seen.upstream]
    BY <1>2 DEF Repos
  <2> HIDE DEF seen, remote
  <2>2. [seen EXCEPT !.head = b, !.upstream = IF remote THEN @ \cup {b} ELSE @,
                     !.local[b] = IF @ = NoRev THEN seen.fetched[b] ELSE @] = moved
    BY <2>1
  <2> QED BY <2>2 DEF Moved, seen, remote
<1>5. new # NoRev /\ new \in Revs \cup {NoRev}
  <2>1. seen.fetched[b] \in Revs \cup {NoRev} /\ seen.local[b] \in Revs \cup {NoRev}
    BY <1>1, <1>2 DEF Repos, Refs
  <2>2. r.local[b] = NoRev => seen.fetched[b] # NoRev
    BY <1>3 DEF Listed
  <2> QED BY <1>2, <2>1, <2>2
<1>6. b \in own => new = r.local[b]
  BY <1>2
<1> HIDE DEF seen, remote, new
<1>7. local \in Refs /\ local[b] = new /\ \A c \in Branches : c # b => local[c] = r.local[c]
  BY <1>1, <1>2, <1>5 DEF Refs
<1>8. up \in SUBSET Branches
  BY <1>1, <1>2 DEF Repos
<1> HIDE DEF local, up
<1>9. moved \in Repos /\ moved.head = b /\ moved.local = local
  BY <1>1, <1>2, <1>7, <1>8 DEF Repos
<1> HIDE DEF moved
<1> QED BY <1>4, <1>5, <1>6, <1>7, <1>9 DEF Checkout

LEMMA CheckedOutIs ==
  ASSUME origin \in [Branches -> Revs], NEW r, Checkout(r), NEW net \in BOOLEAN,
         NEW b \in Listed(r), \A c \in own : r.local[c] # NoRev
  PROVE  LET q == CheckedOut(r, b, net)
         IN /\ Checkout(q) /\ q.head = b
            /\ \A c \in Branches : c # b \/ c \in own => q.local[c] = r.local[c]
<1> DEFINE m == Moved(r, b, net)
<1>1. Checkout(m) /\ m.head = b /\ \A c \in Branches : c # b \/ c \in own => m.local[c] = r.local[c]
  BY MovedIs
<1>2. CheckedOut(r, b, net) =
        IF b \notin own /\ m.local[b] < m.fetched[b] THEN FastForward(m, net) ELSE m
  BY DEF CheckedOut
<1> HIDE DEF m
<1> QED BY <1>1, <1>2, FastForwardIs

-----------------------------------------------------------------------------
(* What an update or a switch leaves. *)

\* q keeps what r has: the branches, those with commits of their own as they are,
\* and everything while there are changes that are not committed.
KeepsWork(r, q) ==
  /\ Checkout(q)
  /\ \A b \in own : q.local[b] = r.local[b]
  /\ unclean => q.head = r.head /\ q.local = r.local

\* An outcome, of r and what is installed; a restart is asked for, and anything but
\* a failure reported, only of what is installed.
Proper(o, r, installed) ==
  /\ KeepsWork(r, o.repo) /\ o.venv \in Versions
  /\ installed = NeedsOf(Head(r)) =>
       /\ o.result # "failed" => o.venv = NeedsOf(Head(o.repo))
       /\ o.restart => o.venv = NeedsOf(Head(o.repo))

LEMMA NeedsAre == \A r : Checkout(r) => NeedsOf(Head(r)) \in Versions
<1> SUFFICES ASSUME NEW r, Checkout(r) PROVE NeedsOf(Head(r)) \in Versions
  OBVIOUS
<1>1. r.head \in Branches /\ r.local[r.head] \in Revs
  BY DEF Checkout, Repos, Refs
<1> QED BY <1>1 DEF NeedsOf, Head, Versions

\* Installing is the same for an update and a switch.
LEMMA InstalledIs ==
  ASSUME NEW r, NEW q, NEW installed \in Versions, NEW built \in BOOLEAN, KeepsWork(r, q)
  PROVE  Proper(Installed(r, q, installed, built), r, installed)
<1>1. NeedsOf(Head(q)) \in Versions
  BY NeedsAre DEF KeepsWork
<1> QED BY <1>1 DEF Proper, Installed, Outcome

\* An outcome that leaves the checkout and the installation alone.
LEMMA OutcomeIs ==
  ASSUME NEW r, Checkout(r), NEW installed \in Versions, NEW result,
         result \in {"success", "failed", "refused"}
  PROVE  Proper(Outcome(r, installed, result, FALSE), r, installed)
BY DEF Proper, Outcome, KeepsWork

LEMMA UpdatedIs ==
  ASSUME IInv, NEW r, Checkout(r), NEW installed \in Versions, NEW net \in BOOLEAN, NEW built \in BOOLEAN
  PROVE  Proper(Updated(r, installed, net, built), r, installed)
<1>1. CASE UpdateRefused(r) \/ ~net
  BY <1>1, OutcomeIs DEF Updated
<1>2. CASE ~UpdateRefused(r) /\ net
  <2>1. origin \in [Branches -> Revs] /\ own \subseteq Branches
    BY DEF IInv, TypeOK
  <2>2. ~unclean /\ r.head \notin own
    BY <1>2 DEF UpdateRefused
  <2>3. KeepsWork(r, FastForward(r, net))
    BY <2>1, <2>2, FastForwardIs DEF KeepsWork
  <2> QED BY <1>2, <2>3, InstalledIs DEF Updated
<1> QED BY <1>1, <1>2

LEMMA SwitchedIs ==
  ASSUME IInv, NEW b \in Branches, NEW net \in BOOLEAN, NEW built \in BOOLEAN, NEW taken \in BOOLEAN
  PROVE  Proper(Switched(repo, b, net, built, taken), repo, venv)
<1>1. Checkout(repo) /\ venv \in Versions /\ origin \in [Branches -> Revs] /\ own \subseteq Branches
  BY DEF IInv, TypeOK, Checkout, Repos
<1>2. CASE SwitchRefused \/ b \notin Listed(repo) \/ b = repo.head
  BY <1>1, <1>2, OutcomeIs DEF Switched
<1>3. CASE ~(SwitchRefused \/ b \notin Listed(repo) \/ b = repo.head) /\ ~taken
  <2> DEFINE q == Fetched(repo, net)
  <2>1. q \in Repos /\ q.head = repo.head /\ q.local = repo.local
    BY <1>1, FetchedIs DEF Checkout
  <2>2. Switched(repo, b, net, built, taken) = Outcome(q, venv, "failed", FALSE)
    BY <1>3 DEF Switched
  <2> HIDE DEF q
  <2> QED BY <1>1, <2>1, <2>2 DEF Proper, Outcome, KeepsWork, Checkout
<1>4. CASE ~(SwitchRefused \/ b \notin Listed(repo) \/ b = repo.head) /\ taken
  <2>1. KeepsWork(repo, CheckedOut(repo, b, net))
    BY <1>1, <1>4, CheckedOutIs DEF KeepsWork, SwitchRefused, IInv
  <2> QED BY <1>1, <1>4, <2>1, InstalledIs DEF Switched
<1> QED BY <1>2, <1>3, <1>4

\* What is kept twice is kept.
LEMMA Twice ==
  ASSUME NEW r, NEW q, NEW o, NEW installed, NEW between,
         KeepsWork(r, q), Proper(o, q, between),
         installed = NeedsOf(Head(r)) => between = NeedsOf(Head(q))
  PROVE  Proper(o, r, installed)
BY DEF Proper, KeepsWork

LEMMA AppliedIs ==
  ASSUME IInv, NEW b \in Branches, NEW net \in BOOLEAN, NEW built \in BOOLEAN, NEW taken \in BOOLEAN
  PROVE  Proper(Applied(repo, b, net, built, taken), repo, venv)
<1> DEFINE sw == Switched(repo, b, net, built, taken)
<1>1. Checkout(repo) /\ venv \in Versions
  BY DEF IInv, TypeOK, Checkout, Repos
<1>2. Proper(sw, repo, venv)
  BY SwitchedIs
<1>3. Applied(repo, b, net, built, taken) =
        IF b = repo.head THEN Updated(repo, venv, net, built)
        ELSE IF sw.result # "success" THEN sw ELSE Updated(sw.repo, sw.venv, net, built)
  BY DEF Applied
<1> HIDE DEF sw
<1>4. CASE b = repo.head
  BY <1>1, <1>3, <1>4, UpdatedIs
<1>5. CASE b # repo.head /\ sw.result # "success"
  BY <1>2, <1>3, <1>5
<1>6. CASE b # repo.head /\ sw.result = "success"
  <2>1. Checkout(sw.repo) /\ sw.venv \in Versions /\ KeepsWork(repo, sw.repo)
    BY <1>2 DEF Proper, KeepsWork
  <2>2. Proper(Updated(sw.repo, sw.venv, net, built), sw.repo, sw.venv)
    BY <2>1, UpdatedIs
  <2>3. venv = NeedsOf(Head(repo)) => sw.venv = NeedsOf(Head(sw.repo))
    BY <1>2, <1>6 DEF Proper
  <2> QED BY <1>3, <1>6, <2>1, <2>2, <2>3, Twice
<1> QED BY <1>4, <1>5, <1>6

-----------------------------------------------------------------------------
(* Every step. *)

\* What a step does to the checkout, the installation and the restart it orders.
Kept ==
  /\ KeepsWork(repo, repo') /\ venv' \in Versions /\ helper' \in {"none", "manual", "auto"}
  /\ venv' = NeedsOf(Head(repo')) \/ owed'
  /\ helper' \notin {helper, "none"} => venv' = NeedsOf(Head(repo')) \/ owed
  /\ owed' \in BOOLEAN

LEMMA GoesIs == \A f : Goes(f) \subseteq BOOLEAN
BY DEF Goes

LEMMA LeavesKeeps ==
  ASSUME IInv, NEW o, Proper(o, repo, venv), NEW trigger \in {"manual", "auto"}, Leaves(o, trigger)
  PROVE  Kept
<1>1. CASE owed
  BY <1>1 DEF Leaves, Proper, Kept, IInv, TypeOK
<1>2. CASE ~owed
  BY <1>2 DEF Leaves, Proper, Kept, IInv, TypeOK
<1> QED BY <1>1, <1>2

\* A step that leaves the checkout alone and orders no restart.
LEMMA AloneKeeps ==
  ASSUME IInv, repo' = repo, helper' \in {helper, "none"},
         UNCHANGED <<venv, owed>> \/ (venv' = NeedsOf(Head(repo)) /\ owed' = FALSE)
  PROVE  Kept
<1>1. Checkout(repo) /\ helper \in {"none", "manual", "auto"} /\ venv' \in Versions /\ owed' \in BOOLEAN
  BY NeedsAre DEF IInv, TypeOK, Checkout, Repos
<1>2. venv' = NeedsOf(Head(repo')) \/ owed'
  BY DEF IInv
<1> QED BY <1>1, <1>2 DEF Kept, KeepsWork

\* What a death can leave of an update.
LEMMA CutUpdateIs ==
  ASSUME IInv, NEW r, Checkout(r), NEW installed \in Versions, NEW left \in CutUpdate(r, installed)
  PROVE  KeepsWork(r, left.repo) /\ left.venv \in Versions
<1> DEFINE yes  == TRUE
           done == Updated(r, installed, yes, yes)
<1>1. left \in {Left(done.repo, installed), Left(done.repo, done.venv)}
  BY DEF CutUpdate
<1>2. yes \in BOOLEAN
  OBVIOUS
<1> HIDE DEF yes
<1>3. Proper(done, r, installed)
  BY ONLY <1>2, UpdatedIs, IInv, Checkout(r), installed \in Versions
<1> HIDE DEF done
<1> QED BY <1>1, <1>3 DEF Proper, Left

\* What a death can leave of a switch and the update after it.
LEMMA CutSwitchIs ==
  ASSUME IInv, NEW b \in Branches, NEW net \in BOOLEAN, NEW left \in CutSwitch(b, net)
  PROVE  KeepsWork(repo, left.repo) /\ left.venv \in Versions
<1> DEFINE yes  == TRUE
           done == Switched(repo, b, net, yes, yes)
<1>1. /\ ~SwitchRefused /\ b \in Listed(repo)
      /\ \/ left \in {Left(Moved(repo, b, net), venv), Left(done.repo, venv), Left(done.repo, done.venv)}
         \/ left \in CutUpdate(done.repo, done.venv)
  BY DEF CutSwitch
<1>2. yes \in BOOLEAN
  OBVIOUS
<1> HIDE DEF yes
<1>3. Proper(done, repo, venv)
  BY ONLY <1>2, SwitchedIs, IInv, b \in Branches, net \in BOOLEAN
<1> HIDE DEF done
<1>4. /\ Checkout(repo) /\ venv \in Versions /\ origin \in [Branches -> Revs]
      /\ own \subseteq Branches /\ \A c \in own : repo.local[c] # NoRev
  BY DEF IInv, TypeOK, Checkout, Repos
<1>5. KeepsWork(repo, done.repo) /\ done.venv \in Versions /\ Checkout(done.repo)
  BY <1>3 DEF Proper, KeepsWork
<1>6. CASE left \in CutUpdate(done.repo, done.venv)
  <2>1. KeepsWork(done.repo, left.repo) /\ left.venv \in Versions
    BY <1>5, <1>6, CutUpdateIs
  <2> QED BY <1>5, <2>1 DEF KeepsWork
<1>7. CASE left = Left(Moved(repo, b, net), venv)
  BY <1>1, <1>4, <1>7, MovedIs DEF KeepsWork, Left, SwitchRefused
<1>8. CASE left \in {Left(done.repo, venv), Left(done.repo, done.venv)}
  BY <1>4, <1>5, <1>8 DEF Left
<1> QED BY <1>1, <1>6, <1>7, <1>8

\* A process that dies with what is known of an update or a switch.
LEMMA DiesKeeps ==
  ASSUME IInv, NEW left, DiesWith(left), helper' = helper,
         KeepsWork(repo, left.repo) /\ left.venv \in Versions
  PROVE  Kept
BY DEF DiesWith, Kept, IInv, TypeOK

LEMMA StepKeeps ==
  ASSUME IInv, Next
  PROVE  Kept
<1>1. venv \in Versions /\ Checkout(repo) /\ origin \in [Branches -> Revs] /\ own \subseteq Branches
  BY DEF IInv, TypeOK, Checkout, Repos
<1>2. ASSUME NEW b \in Branches, UpdateNow(b) PROVE Kept
  <2>1. PICK net \in BOOLEAN, built \in BOOLEAN, taken \in BOOLEAN :
          Leaves(Applied(repo, b, net, built, taken), "manual")
    BY <1>2, GoesIs DEF UpdateNow
  <2> QED BY <2>1, AppliedIs, LeavesKeeps
<1>3. ASSUME NEW b \in Branches, SwitchBranch(b) PROVE Kept
  <2>1. PICK net \in BOOLEAN, built \in BOOLEAN, taken \in BOOLEAN :
          Leaves(Switched(repo, b, net, built, taken), "manual")
    BY <1>3, GoesIs DEF SwitchBranch
  <2> QED BY <2>1, SwitchedIs, LeavesKeeps
<1>4. ASSUME AutoUpdate PROVE Kept
  <2>1. PICK net \in BOOLEAN, built \in BOOLEAN :
          Leaves(Updated(Fetched(repo, net), venv, net, built), "auto")
    BY <1>4, GoesIs DEF AutoUpdate
  <2> DEFINE q == Fetched(repo, net)
  <2>2. q \in Repos /\ q.head = repo.head /\ q.local = repo.local
    BY <1>1, FetchedIs DEF Checkout
  <2> HIDE DEF q
  <2>3. Checkout(q) /\ KeepsWork(repo, q) /\ Head(q) = Head(repo)
    BY <1>1, <2>2 DEF Checkout, KeepsWork, Head
  <2>4. Proper(Updated(q, venv, net, built), q, venv)
    BY <1>1, <2>3, UpdatedIs
  <2>5. Proper(Updated(q, venv, net, built), repo, venv)
    BY <2>3, <2>4, Twice
  <2> QED BY <2>1, <2>5, LeavesKeeps DEF q
<1>5. ASSUME Restart PROVE Kept
  <2> QED BY <1>5, AloneKeeps DEF Restart
<1>6. ASSUME Die PROVE Kept
  <2>1. helper' = helper
    BY <1>6 DEF Die
  <2>2. CASE DiesWith(Left(repo, venv))
    <3>1. KeepsWork(repo, repo)
      BY <1>1 DEF KeepsWork
    <3> QED BY <1>1, <2>1, <2>2, <3>1, DiesKeeps DEF Left
  <2>3. CASE DiesWith(Left(Fetched(repo, TRUE), venv))
    <3> DEFINE q == Fetched(repo, TRUE)
    <3>1. q \in Repos /\ q.head = repo.head /\ q.local = repo.local
      BY <1>1, FetchedIs DEF Checkout
    <3>2. DiesWith(Left(q, venv))
      BY <2>3
    <3> HIDE DEF q
    <3>3. KeepsWork(repo, q)
      BY <1>1, <3>1 DEF Checkout, KeepsWork
    <3> QED BY <1>1, <2>1, <3>2, <3>3, DiesKeeps DEF Left
  <2>4. ASSUME NEW left \in CutUpdate(repo, venv), DiesWith(left) PROVE Kept
    BY <1>1, <2>1, <2>4, CutUpdateIs, DiesKeeps
  <2>5. ASSUME NEW b \in Branches, NEW net \in Goes("net"), NEW left \in CutSwitch(b, net), DiesWith(left)
        PROVE  Kept
    <3>1. net \in BOOLEAN
      BY GoesIs
    <3> QED BY <2>1, <2>5, <3>1, CutSwitchIs, DiesKeeps
  <2> QED BY <1>6, <2>2, <2>3, <2>4, <2>5 DEF Die
<1>7. ASSUME UNCHANGED <<repo, venv, owed, helper>> PROVE Kept
  BY <1>1, <1>7, AloneKeeps
<1> QED BY <1>2, <1>3, <1>4, <1>5, <1>6, <1>7
        DEF Next, Defer, Reload, Start, Edit, Publish, Works, TimeComes, Midnight, Disk

LEMMA InitInv == Init => IInv
<1> SUFFICES ASSUME Init PROVE IInv
  OBVIOUS
<1>1. 0 \in Revs /\ 0 # NoRev
  BY DEF Revs, NoRev
<1>2. NeedsOf(<<Main, 0>>) \in Versions
  BY <1>1 DEF NeedsOf, Versions
<1>3. repo \in Repos /\ repo.local[repo.head] # NoRev
  <2> DEFINE first == [b \in Branches |-> IF b = Main THEN 0 ELSE NoRev]
             zero  == [b \in Branches |-> 0]
  <2>1. first \in Refs /\ zero \in Refs /\ first[Main] = 0
    BY <1>1 DEF Refs
  <2>2. repo = [head |-> Main, local |-> first, fetched |-> zero, upstream |-> {Main}]
    BY DEF Init
  <2> HIDE DEF first, zero
  <2> QED BY <1>1, <2>1, <2>2 DEF Repos
<1>4. venv \in Versions /\ origin \in [Branches -> Revs]
  BY <1>1, <1>2 DEF Init, NeedsOf
<1>5. serve \in [up : BOOLEAN, code : Branches \X Revs, reload : BOOLEAN]
  BY <1>1 DEF Init
<1>6. defers \in 0 .. MaxDefers /\ own = {}
  BY DEF Init
<1>7. venv = NeedsOf(Head(repo)) /\ owed = FALSE
  BY DEF Init, NeedsOf, Head
<1> QED BY <1>3, <1>4, <1>5, <1>6, <1>7 DEF Init, IInv, TypeOK, Repos

LEMMA StepInv == IInv /\ [Next]_vars => IInv'
<1> SUFFICES ASSUME IInv, [Next]_vars PROVE IInv'
  OBVIOUS
<1>1. CASE UNCHANGED vars
  BY <1>1 DEF vars, IInv, TypeOK, Repos, NeedsOf, Head
<1>2. CASE Next
  <2>1. /\ KeepsWork(repo, repo') /\ venv' \in Versions /\ helper' \in {"none", "manual", "auto"}
        /\ venv' = NeedsOf(Head(repo')) \/ owed'
        /\ owed' \in BOOLEAN
    BY <1>2, StepKeeps DEF Kept
  <2>2. Checkout(repo') /\ Checkout(repo)
    BY <2>1 DEF KeepsWork, IInv, TypeOK, Checkout, Repos
  <2>3. origin' \in [Branches -> Revs]
    <3>1. CASE UNCHANGED origin
      BY <3>1 DEF IInv, TypeOK
    <3>2. CASE \E b \in Branches : Publish(b)
      <4>1. PICK b \in Branches : Publish(b)
        BY <3>2
      <4>2. origin \in [Branches -> Revs] /\ origin[b] + 1 \in Revs
        BY <4>1 DEF IInv, TypeOK, Publish, Revs
      <4> QED BY <4>1, <4>2 DEF Publish
    <3> QED BY <1>2, <3>1, <3>2 DEF Next, Remote, UpdateNow, SwitchBranch, Works, Defer, AutoUpdate,
               Restart, Reload, Die, Start, Edit, TimeComes, Midnight
  <2>4. unclean' \in BOOLEAN /\ own' \subseteq Branches /\ \A b \in own' : repo'.local[b] # NoRev
    <3>1. CASE Operator
      BY <2>1, <3>1 DEF Operator, KeepsWork, IInv, TypeOK
    <3>2. CASE Edit
      <4>1. /\ own' \subseteq own \cup {repo.head} /\ unclean' \in BOOLEAN /\ repo' = repo
        BY <3>2 DEF Edit, Disk, IInv, TypeOK
      <4> QED BY <2>2, <4>1 DEF IInv, TypeOK, Checkout, Repos
    <3> QED BY <1>2, <3>1, <3>2 DEF Next, UpdateNow, SwitchBranch, Publish, Works, Defer, AutoUpdate,
               Restart, Reload, Die, Start, TimeComes, Midnight
  <2>5. serve' \in [up : BOOLEAN, code : Branches \X Revs, reload : BOOLEAN]
    <3>1. Head(repo) \in Branches \X Revs
      BY <2>2 DEF Checkout, Repos, Refs, Head
    <3>2. \A reload \in BOOLEAN : Runs(Head(repo), reload) \in [up : BOOLEAN, code : Branches \X Revs, reload : BOOLEAN]
      BY <3>1 DEF Runs
    <3>3. serve \in [up : BOOLEAN, code : Branches \X Revs, reload : BOOLEAN]
      BY DEF IInv, TypeOK
    <3>4. [serve EXCEPT !.up = FALSE] \in [up : BOOLEAN, code : Branches \X Revs, reload : BOOLEAN]
      BY <3>3
    <3> QED BY <1>2, <3>2, <3>3, <3>4 DEF Next, UpdateNow, SwitchBranch, Publish, Works, Defer, AutoUpdate,
               Restart, Reload, Die, Start, Edit, TimeComes, Midnight
  <2>6. work' \subseteq Kinds
    BY <1>2 DEF IInv, TypeOK, Next, UpdateNow, SwitchBranch, Publish, Works, Defer, AutoUpdate,
               Restart, Reload, Die, Start, Edit, TimeComes, Midnight
  <2>7. due' \in BOOLEAN /\ updated' \in BOOLEAN
    BY <1>2 DEF IInv, TypeOK, Next, UpdateNow, SwitchBranch, Publish, Works, Defer, AutoUpdate,
               Restart, Reload, Die, Start, Edit, TimeComes, Midnight, Clock
  <2>8. defers' \in 0 .. MaxDefers
    <3>1. defers \in 0 .. MaxDefers
      BY DEF IInv, TypeOK
    <3>2. defers' \in {0, defers} \/ (defers < MaxDefers /\ defers' = defers + 1)
      BY <1>2 DEF Next, UpdateNow, SwitchBranch, Publish, Works, Defer, TickDue, AutoUpdate,
               Restart, Reload, Die, Start, Edit, TimeComes, Midnight, Clock
    <3> QED BY <3>1, <3>2
  <2> QED BY <2>1, <2>2, <2>3, <2>4, <2>5, <2>6, <2>7, <2>8 DEF IInv, TypeOK, Checkout, Repos
<1> QED BY <1>1, <1>2

LEMMA Invariant == Spec => []IInv
BY InitInv, StepInv, PTL DEF Spec

\* The refs, the upstreams and the process keep their types, and the branch that is
\* checked out exists, whatever fails or dies (update_service.py, git_ops.py).
THEOREM TypeCorrect == Spec => []TypeOK
<1>1. IInv => TypeOK
  BY DEF IInv
<1> QED BY <1>1, Invariant, PTL

\* Updates and switches, in any combination and with any fault, neither move a branch
\* that has commits of its own nor a checkout with changes (update_service.py).
THEOREM OperatorWorkStaysHolds == Spec => OperatorWorkStays
<1>1. IInv /\ [Next]_vars
      => [/\ \A b \in own \cap own' : repo'.local[b] = repo.local[b]
          /\ unclean /\ unclean' => repo'.head = repo.head /\ repo'.local = repo.local]_vars
  BY StepKeeps DEF Kept, KeepsWork
<1> QED BY <1>1, Invariant, PTL DEF Spec, OperatorWorkStays

\* A restart is ordered only when what is installed is what the checkout it will
\* start needs, unless an install that failed or was cut off by a death has not been
\* made good: the retry of such an update does not install (update_service.py:436).
THEOREM RestartIsSoundHolds == Spec => RestartIsSound
<1>1. IInv /\ [Next]_vars
      => [helper' \notin {helper, "none"} => venv' = NeedsOf(Head(repo')) \/ owed]_vars
  BY StepKeeps DEF Kept
<1> QED BY <1>1, Invariant, PTL DEF Spec, RestartIsSound

=============================================================================
