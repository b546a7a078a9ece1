------------------------------ MODULE SelfUpdate ------------------------------
(***************************************************************************)
(* The server updates its own checkout with git, installs what the new     *)
(* code needs and has itself restarted (application/system/*.py,           *)
(* scripts/restart_serve.py).                                              *)
(*                                                                         *)
(* An update runs synchronously on the event loop, so nothing else of the  *)
(* server happens during it: it is one action, and only the death of the   *)
(* process can split it.  The restart is another matter: a detached script *)
(* kills the serve some time after the update has returned.                *)
(***************************************************************************)
EXTENDS Integers, FiniteSets

CONSTANTS Branches, Main,
          MaxRev,      \* bound: revisions published on a branch
          Needs,       \* Needs[b][n]: what revision n of branch b needs installed
          MaxDefers,   \* MAX_DEFER_RETRIES_PER_DAY (48 in the code)
          Kinds,       \* what may keep the server busy
          PortKnown,   \* BOOLEAN: AUTOREIV_SERVE_PORT is set
          Faults       \* which of AllFaults may happen

ASSUME BranchesAssumption == Main \in Branches
ASSUME BoundsAssumption   == MaxRev \in Nat /\ MaxDefers \in Nat \ {0}
ASSUME KindsAssumption    == Kinds \subseteq {"stream", "job", "routine"}

\* The remote cannot be reached, git refuses the checkout, the install fails, the
\* restart script cannot be spawned, the process dies.
AllFaults == {"net", "checkout", "install", "spawn", "die"}

ASSUME SwitchAssumption == PortKnown \in BOOLEAN /\ Faults \subseteq AllFaults

VARIABLES
  origin,    \* the newest revision of each branch at the remote
  repo,      \* the checkout: branch, local and remote-tracking refs, upstreams
  own,       \* branches with commits the remote does not have
  unclean,   \* uncommitted changes, or a merge, rebase, ... in progress
  venv,      \* what is installed
  owed,      \* history: an install failed or was cut off, and none has made it good
  serve,     \* the server process and the code it has loaded
  helper,    \* the restart script that has been spawned, and by what
  work,      \* what BusyDetector looks at
  due,       \* the time of day for the automatic update has come
  updated,   \* system_update_last_auto: a success, and of today
  defers     \* _defer_count

vars == <<origin, repo, own, unclean, venv, owed, serve, helper, work, due, updated, defers>>

NoRev == -1
Revs  == 0 .. MaxRev
Refs  == [Branches -> Revs \cup {NoRev}]

Head(r)     == <<r.head, r.local[r.head]>>
NeedsOf(rv) == Needs[rv[1]][rv[2]]
Versions    == UNION {{Needs[b][n] : n \in Revs} : b \in Branches}

TypeOK ==
  /\ origin \in [Branches -> Revs]
  /\ repo \in [head : Branches, local : Refs, fetched : Refs, upstream : SUBSET Branches]
  /\ repo.local[repo.head] # NoRev
  /\ own \subseteq Branches
  /\ unclean \in BOOLEAN
  /\ venv \in Versions
  /\ owed \in BOOLEAN
  /\ serve \in [up : BOOLEAN, code : Branches \X Revs, reload : BOOLEAN]
  /\ helper \in {"none", "manual", "auto"}
  /\ work \subseteq Kinds
  /\ due \in BOOLEAN
  /\ updated \in BOOLEAN
  /\ defers \in 0 .. MaxDefers

\* A fresh clone, started by hand or by the service.
Init ==
  /\ origin = [b \in Branches |-> 0]
  /\ repo = [head |-> Main, local |-> [b \in Branches |-> IF b = Main THEN 0 ELSE NoRev],
             fetched |-> [b \in Branches |-> 0], upstream |-> {Main}]
  /\ own = {} /\ unclean = FALSE
  /\ venv = Needs[Main][0] /\ owed = FALSE
  /\ serve = [up |-> TRUE, code |-> <<Main, 0>>, reload |-> FALSE]
  /\ helper = "none" /\ work = {}
  /\ due = FALSE /\ updated = FALSE /\ defers = 0

-----------------------------------------------------------------------------
(* The checkout.  net: the remote can be reached. *)

Fetched(r, net) == IF net THEN [r EXCEPT !.fetched = origin] ELSE r

\* pull --ff-only of the branch that is checked out.
FastForward(r, net) ==
  IF net THEN [Fetched(r, net) EXCEPT !.local[r.head] = origin[r.head]] ELSE r

UpdateRefused(r) == unclean \/ r.head \notin r.upstream \/ r.head \in own

\* Mutant: a dirty tree does not refuse.
SwitchAnyway  == FALSE
SwitchRefused == unclean

\* The branches list_branches shows.
Listed(r) == {b \in Branches : r.local[b] # NoRev \/ r.fetched[b] # NoRev}

\* git checkout of a listed branch, tracking the remote one if there is one.
Moved(r, b, net) ==
  LET remote == r.fetched[b] # NoRev
      seen   == IF remote THEN Fetched(r, net) ELSE r
  IN [seen EXCEPT !.head = b, !.upstream = IF remote THEN @ \cup {b} ELSE @,
                  !.local[b] = IF @ = NoRev THEN seen.fetched[b] ELSE @]

\* A branch that is merely behind the remote one is then fast-forwarded.
CheckedOut(r, b, net) ==
  LET moved == Moved(r, b, net)
  IN IF b \notin own /\ moved.local[b] < moved.fetched[b] THEN FastForward(moved, net) ELSE moved

-----------------------------------------------------------------------------
(* Update and switch: what they leave, and whether they ask for a restart. *)

Outcome(r, installed, result, restart) ==
  [repo |-> r, venv |-> installed, result |-> result, restart |-> restart]

\* Mutant: the dependency files are first read after git has changed them.
InstalledUnseen(before, after, installed, built) == Outcome(after, installed, "success", TRUE)

\* Dependency files changed: install; a failed install ends the update.
Installed(before, after, installed, built) ==
  IF NeedsOf(Head(before)) = NeedsOf(Head(after)) THEN Outcome(after, installed, "success", TRUE)
  ELSE IF built THEN Outcome(after, NeedsOf(Head(after)), "success", TRUE)
  ELSE Outcome(after, installed, "failed", FALSE)

Updated(r, installed, net, built) ==
  IF UpdateRefused(r) THEN Outcome(r, installed, "refused", FALSE)
  ELSE IF ~net THEN Outcome(r, installed, "failed", FALSE)
  ELSE Installed(r, FastForward(r, net), installed, built)

\* taken: git carries the checkout out.
Switched(r, b, net, built, taken) ==
  IF SwitchRefused \/ b \notin Listed(r) THEN Outcome(r, venv, "refused", FALSE)
  ELSE IF b = r.head THEN Outcome(r, venv, "success", FALSE)
  ELSE IF ~taken THEN Outcome(Fetched(r, net), venv, "failed", FALSE)
  ELSE Installed(r, CheckedOut(r, b, net), venv, built)

\* apply_update for a chosen branch: switch without a restart, then update.
Applied(r, b, net, built, taken) ==
  LET switched == Switched(r, b, net, built, taken)
  IN IF b = r.head THEN Updated(r, venv, net, built)
     ELSE IF switched.result # "success" THEN switched
     ELSE Updated(switched.repo, switched.venv, net, built)

\* What may fail, and what does.
Goes(f) == IF f \in Faults THEN BOOLEAN ELSE {TRUE}

\* A restart script that cannot be spawned does not make the update a failure.
Leaves(o, trigger) ==
  /\ repo' = o.repo
  /\ venv' = o.venv
  /\ owed' = (o.venv # NeedsOf(Head(o.repo)) /\ (owed \/ o.result = "failed"))
  /\ \E spawned \in Goes("spawn") :
       helper' = IF o.restart /\ PortKnown /\ spawned THEN trigger ELSE helper

Remote   == UNCHANGED origin
Operator == UNCHANGED <<own, unclean>>
Disk == UNCHANGED <<repo, venv, owed>>
Clock    == UNCHANGED <<due, updated, defers>>

\* Settings: "Update now", for the current branch or another.
UpdateNow(b) ==
  /\ serve.up
  /\ \E net \in Goes("net"), built \in Goes("install"), taken \in Goes("checkout") :
       Leaves(Applied(repo, b, net, built, taken), "manual")
  /\ Remote /\ Operator /\ Clock /\ UNCHANGED <<serve, work>>

\* Settings: switch to a branch.
SwitchBranch(b) ==
  /\ serve.up
  /\ \E net \in Goes("net"), built \in Goes("install"), taken \in Goes("checkout") :
       Leaves(Switched(repo, b, net, built, taken), "manual")
  /\ Remote /\ Operator /\ Clock /\ UNCHANGED <<serve, work>>

Busy == work # {}

\* One tick of SoftwareUpdateScheduler in which the update is due.
TickDue ==
  serve.up /\ due /\ defers < MaxDefers /\ ~updated

Defer ==
  /\ TickDue /\ Busy
  /\ updated' = FALSE
  /\ defers' = defers + 1
  /\ Remote /\ Operator /\ Disk /\ UNCHANGED <<serve, helper, work, due>>

AutoUpdate ==
  /\ TickDue /\ ~Busy
  /\ \E net \in Goes("net"), built \in Goes("install") :
       LET o == Updated(Fetched(repo, net), venv, net, built)
       IN Leaves(o, "auto") /\ updated' = (o.result = "success")
  /\ Remote /\ Operator /\ UNCHANGED <<serve, work, due, defers>>

-----------------------------------------------------------------------------
(* The process. *)

Runs(code, reload) == [up |-> TRUE, code |-> code, reload |-> reload]

\* restart_serve.py kills the serve, then starts one with "uv run ... --reload",
\* which first installs what the checkout needs.
Restart ==
  /\ helper # "none"
  /\ helper' = "none"
  /\ \/ serve' = Runs(Head(repo), TRUE) /\ venv' = NeedsOf(Head(repo)) /\ owed' = FALSE
     \/ "die" \in Faults /\ serve' = [serve EXCEPT !.up = FALSE] /\ UNCHANGED <<venv, owed>>
  /\ work' = work \ {"stream"} /\ defers' = 0
  /\ Remote /\ Operator /\ UNCHANGED <<repo, due, updated>>

\* A serve started with --reload loads the checkout again when a file changes.
Reload ==
  /\ serve.up /\ serve.reload /\ serve.code # Head(repo)
  /\ serve' = Runs(Head(repo), TRUE)
  /\ work' = work \ {"stream"} /\ defers' = 0
  /\ Remote /\ Operator /\ Disk /\ UNCHANGED <<helper, due, updated>>

Left(r, installed) == [repo |-> r, venv |-> installed]

\* Where a death can leave an update: after the pull, or after the install.
CutUpdate(r, installed) ==
  LET done == Updated(r, installed, TRUE, TRUE)
  IN IF UpdateRefused(r) THEN {}
     ELSE {Left(done.repo, installed), Left(done.repo, done.venv)}

\* And a switch to b: after the checkout, after the fast-forward, after the
\* install, or in the update that follows.
CutSwitch(b, net) ==
  LET done == Switched(repo, b, net, TRUE, TRUE)
  IN IF SwitchRefused \/ b \notin Listed(repo) \/ b = repo.head THEN {}
     ELSE {Left(Moved(repo, b, net), venv), Left(done.repo, venv), Left(done.repo, done.venv)}
          \cup CutUpdate(done.repo, done.venv)

DiesWith(left) ==
  repo' = left.repo /\ venv' = left.venv /\ owed' = (left.venv # NeedsOf(Head(left.repo)))

\* The process dies, possibly in the middle of an update or a switch.
Die ==
  /\ "die" \in Faults /\ serve.up
  /\ serve' = [serve EXCEPT !.up = FALSE]
  /\ \/ DiesWith(Left(repo, venv)) \/ DiesWith(Left(Fetched(repo, TRUE), venv))
     \/ \E left \in CutUpdate(repo, venv) : DiesWith(left)
     \/ \E b \in Branches, net \in Goes("net") : \E left \in CutSwitch(b, net) : DiesWith(left)
  /\ work' = work \ {"stream"} /\ defers' = 0
  /\ Remote /\ Operator /\ UNCHANGED <<helper, due, updated>>

\* The service manager or the operator starts it again.
Start ==
  /\ ~serve.up
  /\ serve' = Runs(Head(repo), FALSE)
  /\ Remote /\ Operator /\ Clock /\ Disk /\ UNCHANGED <<helper, work>>

-----------------------------------------------------------------------------
(* The world. *)

Publish(b) ==
  /\ origin[b] < MaxRev
  /\ origin' = [origin EXCEPT ![b] = @ + 1]
  /\ Operator /\ Clock /\ Disk /\ UNCHANGED <<serve, helper, work>>

\* The operator edits, commits on the branch, or brings both in order again.
Edit ==
  /\ \/ unclean' = ~unclean /\ UNCHANGED own
     \/ own' \in {own \cup {repo.head}, own \ {repo.head}} /\ UNCHANGED unclean
  /\ Remote /\ Clock /\ Disk /\ UNCHANGED <<serve, helper, work>>

Works(k) ==
  /\ serve.up
  /\ work' \in {work \cup {k}, work \ {k}}
  /\ Remote /\ Operator /\ Clock /\ Disk /\ UNCHANGED <<serve, helper>>

TimeComes ==
  /\ ~due /\ due' = TRUE
  /\ Remote /\ Operator /\ Disk /\ UNCHANGED <<serve, helper, work, updated, defers>>

\* Mutant: the deferrals of the day count for ever.
MidnightKeepingDefers ==
  /\ due' = FALSE /\ updated' = FALSE /\ UNCHANGED defers
  /\ Remote /\ Operator /\ Disk /\ UNCHANGED <<serve, helper, work>>

\* At midnight yesterday's success and yesterday's deferrals no longer count.
Midnight ==
  /\ due' = FALSE /\ updated' = FALSE /\ defers' = 0
  /\ Remote /\ Operator /\ Disk /\ UNCHANGED <<serve, helper, work>>

Next ==
  \/ \E b \in Branches : UpdateNow(b) \/ SwitchBranch(b) \/ Publish(b)
  \/ \E k \in Kinds : Works(k)
  \/ Defer \/ AutoUpdate \/ Restart \/ Reload \/ Die \/ Start
  \/ Edit \/ TimeComes \/ Midnight

Spec == Init /\ [][Next]_vars

-----------------------------------------------------------------------------
(* Safety. *)

\* "Do not restart into a broken state": a restart is ordered only when what is
\* installed is what the new checkout needs, whichever way switches, their own
\* fast-forwards and the updates after them combine (dep_before and _deps_changed).
\* The exception: after an install that failed or was cut off, the next update
\* pulls nothing, sees no change and restarts (update_service.py:436); it lasts
\* until an install, or the start of a serve by the restart script, makes it good.
RestartIsSound ==
  [][helper' \notin {helper, "none"} => venv' = NeedsOf(Head(repo')) \/ owed]_vars

\* "AutoReiv will not reset, force, or stash": neither a commit the remote does
\* not have nor an uncommitted change is moved away from.
OperatorWorkStays ==
  [][/\ \A b \in own \cap own' : repo'.local[b] = repo.local[b]
     /\ unclean /\ unclean' => repo'.head = repo.head /\ repo'.local = repo.local]_vars

-----------------------------------------------------------------------------
(* Liveness. *)

\* The clock goes on; a tick comes in the minutes after the time of day; a
\* failing remote is back at some time, and then the restart script can be
\* spawned; the script does its work.
Fairness ==
  /\ WF_vars(Midnight) /\ WF_vars(TimeComes) /\ WF_vars(Restart) /\ WF_vars(Start)
  /\ SF_vars(AutoUpdate /\ updated' /\ helper' = "auto")

FairSpec == Spec /\ Fairness

Meddling == Edit \/ Die \/ \E b \in Branches : UpdateNow(b) \/ SwitchBranch(b) \/ Publish(b)

Updatable == work = {} /\ ~UpdateRefused(repo)

\* With automatic updates on, a server that is left alone, idle and on a clean
\* checkout comes to run what was published, however often it was busy before.
AutoUpdateArrives ==
  <>[]Updatable /\ <>[][~Meddling]_vars => <>[](serve.code = <<repo.head, origin[repo.head]>>)

=============================================================================
