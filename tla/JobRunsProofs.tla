--------------------------- MODULE JobRunsProofs ---------------------------
(***************************************************************************)
(* Proofs about JobRuns, for any number of workers and replans, any first  *)
(* plans, and crashes between operations or inside them.                   *)
(***************************************************************************)
EXTENDS JobRuns, WellFoundedInduction, FiniteSetTheorems, TLAPS

-----------------------------------------------------------------------------
(* The inductive invariant. *)

\* What holds of every store, also of one a crash left in the middle of an
\* operation: the phase rows are numbered without a gap, the job's current phase
\* exists, one phase runs at most, no queued phase looks finished.
StoreInv(s) ==
  /\ s \in StoreType
  /\ \E n \in 0 .. MaxPhases : \A p \in Phases : s.phase[p].status # "absent" <=> p <= n
  /\ s.job.status # "none" =>
       s.job.current \in Phases /\ s.phase[s.job.current].status # "absent"
  /\ \A p, q \in Phases :
       s.phase[p].status = "running" /\ s.phase[q].status = "running" => p = q
  /\ \A p \in Phases : s.phase[p].status = "queued" => s.phase[p].react # "DONE"
  /\ s.job.status # "cancelled"

\* A worker that has not ended: its run token is its own unless its phase is over,
\* and what a minted job's runner has still to do are rows that exist.
BusyInv(w) ==
  /\ up
  /\ run[w].phase \in Phases
  /\ store.job.status # "none"
  /\ store.phase[run[w].phase].status \notin TerminalPhase => run[w].token = w
  /\ run[w].path = "mint" => \A q \in run[w].todo : store.phase[q].status # "absent"

\* A worker that works for the session: the job is open, no other phase runs, and
\* its own runs under its token or is over.
AttachedInv(w) ==
  /\ live = w
  /\ store.job.status \in OpenJob
  /\ \A q \in Phases : store.phase[q].status = "running" => q = run[w].phase
  /\ \/ store.phase[run[w].phase].status = "running" /\ token[run[w].phase] = w
     \/ store.phase[run[w].phase].status \in TerminalPhase

RunInv == \A w \in Workers : /\ run[w].pc # "idle" => BusyInv(w)
                             /\ run[w].pc \in Attached => AttachedInv(w)

IInv == TypeOK /\ StoreInv(store) /\ RunInv


-----------------------------------------------------------------------------
(* What single commits do to a store.                                       *)

Statuses == {"queued", "running", "waiting"} \cup TerminalPhase
Reacts   == {"none", "THINKING", "PARKED", "DONE", "FAILED"}

\* From store s to store c: the invariant holds, what is over stays over, rows and
\* jobs do not vanish.
Good(s, c) ==
  /\ StoreInv(c)
  /\ \A p \in Phases : s.phase[p].status \in TerminalPhase => c.phase[p].status \in TerminalPhase
  /\ \A p \in Phases : s.phase[p].status # "absent" => c.phase[p].status # "absent"
  /\ s.job.status # "none" => c.job.status # "none"

GoodEffect(s, e) == \A c \in e.cuts \cup {e.end} : Good(s, c)

\* Staying put is good.
LEMMA GoodRefl == ASSUME NEW s, StoreInv(s) PROVE Good(s, s)
BY DEF Good

\* Good steps compose.
LEMMA GoodTrans == ASSUME NEW s, NEW a, NEW b, Good(s, a), Good(a, b) PROVE Good(s, b)
BY DEF Good

\* Writing one phase row.
LEMMA PutPhaseGood ==
  ASSUME NEW s, StoreInv(s), NEW p \in Phases, NEW status \in Statuses, NEW react \in Reacts,
         s.phase[p].status # "absent",
         status = "running" => \A q \in Phases : s.phase[q].status = "running" => q = p,
         status = "queued" => react # "DONE",
         s.phase[p].status \in TerminalPhase => status \in TerminalPhase
  PROVE  LET c == PutPhase(s, p, status, react)
         IN /\ Good(s, c)
            /\ c.job = s.job
            /\ c.checkpoint = s.checkpoint
            /\ c.phase[p].status = status
            /\ \A q \in Phases : q # p => c.phase[q] = s.phase[q]
<1> DEFINE c == PutPhase(s, p, status, react)
<1>1. /\ s \in StoreType
      /\ s.phase \in [Phases -> PhaseType]
      /\ s.phase[p] \in PhaseType
  BY DEF StoreInv, StoreType
<1>2. /\ c = [s EXCEPT !.phase = [s.phase EXCEPT ![p] = c.phase[p]]]
      /\ c.phase[p] = [s.phase[p] EXCEPT !.status = status, !.react = react]
      /\ c.phase[p] \in PhaseType
      /\ c.phase[p].status = status
      /\ c.phase[p].react = react
  BY <1>1 DEF PutPhase, PhaseType, StoreType, Statuses, Reacts, TerminalPhase
<1> HIDE DEF c
<1>3. /\ c \in StoreType
      /\ c.job = s.job
      /\ c.checkpoint = s.checkpoint
      /\ \A q \in Phases : q # p => c.phase[q] = s.phase[q]
  BY <1>1, <1>2 DEF StoreType
<1>4. \A q \in Phases : c.phase[q].status = "absent" <=> s.phase[q].status = "absent"
  BY <1>2, <1>3 DEF Statuses, TerminalPhase
<1>5. StoreInv(c)
  <2>1. \E n \in 0 .. MaxPhases : \A q \in Phases : c.phase[q].status # "absent" <=> q <= n
    BY <1>4 DEF StoreInv
  <2>2. c.job.status # "none" =>
          c.job.current \in Phases /\ c.phase[c.job.current].status # "absent"
    BY <1>3, <1>4 DEF StoreInv
  <2>3. \A q, r \in Phases :
          c.phase[q].status = "running" /\ c.phase[r].status = "running" => q = r
    BY <1>2, <1>3 DEF StoreInv
  <2>4. \A q \in Phases : c.phase[q].status = "queued" => c.phase[q].react # "DONE"
    BY <1>2, <1>3 DEF StoreInv
  <2> QED BY <1>3, <2>1, <2>2, <2>3, <2>4 DEF StoreInv
<1> QED BY <1>2, <1>3, <1>4, <1>5 DEF Good, c

\* Writing the job row.
LEMMA PutJobGood ==
  ASSUME NEW s, StoreInv(s), NEW status \in {"queued", "running", "waiting", "done", "failed"},
         NEW p \in Phases, s.phase[p].status # "absent"
  PROVE  LET c == PutJob(s, status, p)
         IN /\ Good(s, c)
            /\ c.job = [status |-> status, current |-> p]
            /\ c.phase = s.phase
            /\ c.checkpoint = s.checkpoint
<1> DEFINE c == PutJob(s, status, p)
<1>1. /\ c \in StoreType
      /\ c.job = [status |-> status, current |-> p]
      /\ c.phase = s.phase
      /\ c.checkpoint = s.checkpoint
  BY DEF PutJob, StoreInv, StoreType, JobType, OpenJob, TerminalJob
<1>2. StoreInv(c)
  BY <1>1 DEF StoreInv
<1> QED BY <1>1, <1>2 DEF Good

\* Writing a checkpoint.
LEMMA CheckpointGood ==
  ASSUME NEW s, StoreInv(s), NEW p \in Phases, NEW parked \in BOOLEAN, NEW reason \in Reasons
  PROVE  LET c == Checkpoint(s, p, parked, reason)
         IN /\ Good(s, c)
            /\ c.job = s.job
            /\ c.phase = s.phase
            /\ c.checkpoint.replans = s.checkpoint.replans
<1> DEFINE c == Checkpoint(s, p, parked, reason)
<1>1. /\ c \in StoreType
      /\ c.job = s.job
      /\ c.phase = s.phase
      /\ c.checkpoint.replans = s.checkpoint.replans
  BY DEF Checkpoint, StoreInv, StoreType, CheckpointType
<1>2. StoreInv(c)
  BY <1>1 DEF StoreInv
<1> QED BY <1>1, <1>2 DEF Good

\* Writing a checkpoint that keeps the prior reason (save_job_phase_checkpoint).
LEMMA InheritingGood ==
  ASSUME NEW s, StoreInv(s), NEW p \in Phases, NEW parked \in BOOLEAN
  PROVE  LET c == CheckpointInheriting(s, p, parked)
         IN /\ Good(s, c)
            /\ c.job = s.job
            /\ c.phase = s.phase
<1>1. s.checkpoint.reason \in Reasons
  BY DEF StoreInv, StoreType, CheckpointType
<1> QED BY <1>1, CheckpointGood DEF CheckpointInheriting

\* A nonempty set of naturals has a least element.
LEMMA LeastNat ==
  ASSUME NEW T \in SUBSET Nat, T # {}
  PROVE  \E x \in T : \A y \in T : x <= y
<1>1. \E x \in T : \A y \in T : ~ (<<y, x>> \in OpToRel(<, Nat))
  BY NatLessThanWellFounded, WFMin
<1>2. PICK x \in T : \A y \in T : ~ (<<y, x>> \in OpToRel(<, Nat))
  BY <1>1
<1>3. \A y \in T : ~ (y < x)
  BY <1>2 DEF OpToRel
<1> QED BY <1>3

\* The least of some phases is one of them.
LEMMA SmallestOf == ASSUME NEW S \in SUBSET Phases, S # {} PROVE Smallest(S) \in S
<1>1. S \in SUBSET Nat
  BY RowsAssumption DEF Phases
<1> QED BY <1>1, LeastNat DEF Smallest

-----------------------------------------------------------------------------
(* What operations do to a store, wherever a crash cuts them short.         *)

\* An effect after another one: its cuts are those of both and the store between.
LEMMA GoodThen ==
  ASSUME NEW s, NEW e, NEW f, GoodEffect(s, e), GoodEffect(e.end, f)
  PROVE  GoodEffect(s, Then(e, f)) /\ Then(e, f).end = f.end
<1>1. Good(s, e.end)
  BY DEF GoodEffect
<1>2. \A c \in f.cuts \cup {f.end} : Good(s, c)
  BY <1>1, GoodTrans DEF GoodEffect
<1> QED BY <1>2 DEF GoodEffect, Then, Effect

\* Doing nothing.
LEMMA NoEffectGood ==
  ASSUME NEW s, StoreInv(s)
  PROVE  GoodEffect(s, NoEffect(s)) /\ NoEffect(s).end = s /\ NoEffect(s).cuts = {}
BY GoodRefl DEF GoodEffect, NoEffect, Effect

\* start_phase, while nothing runs: its phase runs and no other row changes.
LEMMA StartPhaseGood ==
  ASSUME NEW s, StoreInv(s), NEW p \in Phases, ~StartRefused(s, p),
         \A q \in Phases : s.phase[q].status # "running"
  PROVE  LET e == StartPhase(s, p)
         IN /\ GoodEffect(s, e)
            /\ e.end.job = [status |-> "running", current |-> p]
            /\ e.end.phase[p].status = "running"
            /\ \A q \in Phases : q # p => e.end.phase[q] = s.phase[q]
<1> DEFINE s1 == PutPhase(s, p, "running", "THINKING")
           s2 == PutJob(s1, "running", p)
<1>1. /\ s.phase[p].status # "absent"
      /\ s.phase[p].status \notin TerminalPhase
  BY DEF StartRefused, Startable, TerminalPhase
<1>a. "running" \in Statuses /\ "THINKING" \in Reacts
  BY DEF Statuses, Reacts
<1>2. /\ Good(s, s1)
      /\ s1.phase[p].status = "running"
      /\ \A q \in Phases : q # p => s1.phase[q] = s.phase[q]
  BY <1>1, <1>a, PutPhaseGood
<1> HIDE DEF s1
<1>3. StoreInv(s1)
  BY <1>2 DEF Good
<1>4. /\ Good(s1, s2)
      /\ s2.job = [status |-> "running", current |-> p]
      /\ s2.phase = s1.phase
  BY <1>2, <1>3, PutJobGood
<1>5. Good(s, s2)
  BY <1>2, <1>4, GoodTrans
<1>6. StartPhase(s, p) = [cuts |-> {s1}, end |-> s2]
  BY DEF StartPhase, Effect, s1
<1> QED BY <1>2, <1>4, <1>5, <1>6 DEF GoodEffect

\* complete_phase: its phase is done and no other row changes.
LEMMA CompletePhaseGood ==
  ASSUME NEW s, StoreInv(s), NEW p \in Phases, ~CompleteRefused(s, p),
         s.phase[p].status # "absent"
  PROVE  LET e == CompletePhase(s, p)
         IN /\ GoodEffect(s, e)
            /\ e.end.phase[p].status = "done"
            /\ \A q \in Phases : q # p => e.end.phase[q] = s.phase[q]
<1> DEFINE s1 == PutPhase(s, p, "done", "DONE")
           s2 == CheckpointInheriting(s1, p, FALSE)
           next == LaterQueued(s, p)
           s3 == IF next = {} THEN PutJob(s2, "done", p)
                 ELSE PutJob(s2, "running", Smallest(next))
<1>1. CASE s.phase[p].status = "done"
  BY <1>1, NoEffectGood DEF CompletePhase
<1>2. CASE s.phase[p].status # "done"
  <2>1. /\ Good(s, s1)
        /\ s1.phase[p].status = "done"
        /\ \A q \in Phases : q # p => s1.phase[q] = s.phase[q]
    BY PutPhaseGood DEF Statuses, Reacts, TerminalPhase
  <2> HIDE DEF s1
  <2>2. Good(s1, s2) /\ s2.phase = s1.phase
    <3>1. StoreInv(s1)
      BY <2>1 DEF Good
    <3> QED BY <3>1, InheritingGood
  <2> HIDE DEF s2
  <2>3. Good(s, s2)
    BY <2>1, <2>2, GoodTrans
  <2>4. Good(s2, s3) /\ s3.phase = s2.phase
    <3> StoreInv(s2) /\ s2.phase[p].status # "absent"
      BY <2>3 DEF Good
    <3>1. CASE next = {}
      BY <3>1, PutJobGood
    <3>2. CASE next # {}
      <4>1. Smallest(next) \in next
        BY <3>2, SmallestOf DEF LaterQueued, In
      <4>2. s.phase[Smallest(next)].status = "queued" /\ Smallest(next) \in Phases
        BY <4>1 DEF LaterQueued, In
      <4>3. s2.phase[Smallest(next)].status # "absent"
        BY <2>3, <4>2 DEF Good
      <4> HIDE DEF next
      <4> QED BY <3>2, <4>2, <4>3, PutJobGood
    <3> QED BY <3>1, <3>2
  <2> HIDE DEF s3
  <2>5. Good(s, s3)
    BY <2>3, <2>4, GoodTrans
  <2>6. CompletePhase(s, p) = [cuts |-> {s1, s2}, end |-> s3]
    BY <1>2 DEF CompletePhase, Effect, s1, s2, s3
  <2> QED BY <2>1, <2>2, <2>3, <2>4, <2>5, <2>6 DEF GoodEffect
<1> QED BY <1>1, <1>2

\* fail_phase, on any row.
LEMMA FailPhaseGood ==
  ASSUME NEW s, StoreInv(s), NEW p \in Phases, s.phase[p].status # "absent"
  PROVE  GoodEffect(s, FailPhase(s, p))
<1> DEFINE s1 == PutPhase(s, p, "failed", "FAILED")
           s2 == Checkpoint(s1, p, FALSE, "failure")
           s3 == PutJob(s2, "failed", p)
<1>1. Good(s, s1)
  BY PutPhaseGood DEF Statuses, Reacts, TerminalPhase
<1>2. FailPhase(s, p) = [cuts |-> {s1, s2}, end |-> s3]
  BY DEF FailPhase, Effect
<1> HIDE DEF s1
<1>3. Good(s1, s2)
  <2>1. StoreInv(s1)
    BY <1>1 DEF Good
  <2> QED BY <2>1, CheckpointGood DEF Reasons
<1>4. Good(s, s2)
  BY <1>1, <1>3, GoodTrans
<1> HIDE DEF s2
<1>5. Good(s2, s3)
  <2>1. StoreInv(s2) /\ s2.phase[p].status # "absent"
    BY <1>4 DEF Good
  <2> QED BY <2>1, PutJobGood
<1>6. Good(s, s3)
  BY <1>4, <1>5, GoodTrans
<1> QED BY <1>1, <1>2, <1>4, <1>6 DEF GoodEffect

\* park_phase, when it does not refuse.
LEMMA ParkPhaseGood ==
  ASSUME NEW s, StoreInv(s), NEW p \in Phases, s.phase[p].status # "absent", ~ParkRefused(s, p)
  PROVE  GoodEffect(s, ParkPhase(s, p))
<1> DEFINE s1 == PutPhase(s, p, "waiting", "PARKED")
           s2 == CheckpointInheriting(s1, p, TRUE)
           s3 == PutJob(s2, "waiting", p)
<1>1. Good(s, s1)
  BY PutPhaseGood DEF Statuses, Reacts, ParkRefused
<1>2. ParkPhase(s, p) = [cuts |-> {s1, s2}, end |-> s3]
  BY DEF ParkPhase, Effect
<1> HIDE DEF s1
<1>3. Good(s1, s2)
  <2>1. StoreInv(s1)
    BY <1>1 DEF Good
  <2> QED BY <2>1, InheritingGood
<1>4. Good(s, s2)
  BY <1>1, <1>3, GoodTrans
<1> HIDE DEF s2
<1>5. Good(s2, s3)
  <2>1. StoreInv(s2) /\ s2.phase[p].status # "absent"
    BY <1>4 DEF Good
  <2> QED BY <2>1, PutJobGood
<1>6. Good(s, s3)
  BY <1>4, <1>5, GoodTrans
<1> QED BY <1>1, <1>2, <1>4, <1>6 DEF GoodEffect

\* wait_for_answer, when it does not refuse.
LEMMA WaitForAnswerGood ==
  ASSUME NEW s, StoreInv(s), NEW p \in Phases, s.phase[p].status # "absent", ~ParkRefused(s, p)
  PROVE  GoodEffect(s, WaitForAnswer(s, p))
<1> DEFINE s1 == PutPhase(s, p, "queued", "none")
           s2 == Checkpoint(s1, p, FALSE, "answer")
           s3 == PutJob(s2, "running", p)
<1>1. Good(s, s1)
  BY PutPhaseGood DEF Statuses, Reacts, ParkRefused
<1>2. WaitForAnswer(s, p) = [cuts |-> {s1, s2}, end |-> s3]
  BY DEF WaitForAnswer, Effect
<1> HIDE DEF s1
<1>3. Good(s1, s2)
  <2>1. StoreInv(s1)
    BY <1>1 DEF Good
  <2> QED BY <2>1, CheckpointGood DEF Reasons
<1>4. Good(s, s2)
  BY <1>1, <1>3, GoodTrans
<1> HIDE DEF s2
<1>5. Good(s2, s3)
  <2>1. StoreInv(s2) /\ s2.phase[p].status # "absent"
    BY <1>4 DEF Good
  <2> QED BY <2>1, PutJobGood
<1>6. Good(s, s3)
  BY <1>4, <1>5, GoodTrans
<1> QED BY <1>1, <1>2, <1>4, <1>6 DEF GoodEffect

-----------------------------------------------------------------------------
(* Stops, restarts and resumes.                                             *)

\* From s to c no phase is failed or cancelled, and no job's outcome changes.
Gentle(s, c) ==
  /\ \A p \in Phases : c.phase[p].status \in {"failed", "cancelled"}
                        => c.phase[p].status = s.phase[p].status
  /\ s.job.status \in TerminalJob => c.job.status = s.job.status

GentleEffect(s, e) == GoodEffect(s, e) /\ \A c \in e.cuts \cup {e.end} : Gentle(s, c)

\* Doing nothing fails and cancels nothing.
LEMMA NoEffectGentle == ASSUME NEW s, StoreInv(s) PROVE GentleEffect(s, NoEffect(s))
BY NoEffectGood DEF GentleEffect, Gentle

\* Stopping a phase leaves it queued or as it was, and an open job open.
LEMMA KillPhaseGentle ==
  ASSUME NEW s, StoreInv(s), NEW p \in Phases, NEW reason \in Reasons
  PROVE  LET e == KillPhase(s, p, reason)
         IN /\ GentleEffect(s, e)
            /\ s.phase[p].status # "running" => e.end = s
            /\ s.phase[p].status = "running" => e.end.phase[p].status = "queued"
            /\ \A q \in Phases : q # p => e.end.phase[q] = s.phase[q]
            /\ s.job.status \in OpenJob => e.end.job.status \in OpenJob
<1> DEFINE s1 == PutPhase(s, p, "queued", "none")
           s2 == Checkpoint(s1, p, FALSE, reason)
           s3 == IF s.job.status \in TerminalJob THEN s2 ELSE PutJob(s2, "running", p)
<1>1. CASE s.phase[p].status # "running"
  BY <1>1, NoEffectGentle, NoEffectGood DEF KillPhase
<1>2. CASE s.phase[p].status = "running"
  <2>1. /\ Good(s, s1)
        /\ s1.job = s.job
        /\ s1.phase[p].status = "queued"
        /\ \A q \in Phases : q # p => s1.phase[q] = s.phase[q]
    BY <1>2, PutPhaseGood DEF Statuses, Reacts, TerminalPhase
  <2>2. KillPhase(s, p, reason) = [cuts |-> {s1, s2}, end |-> s3]
    BY <1>2 DEF KillPhase, Requeue, Effect
  <2> HIDE DEF s1
  <2>3. Good(s1, s2) /\ s2.job = s.job /\ s2.phase = s1.phase
    <3>1. StoreInv(s1)
      BY <2>1 DEF Good
    <3> QED BY <2>1, <3>1, CheckpointGood
  <2> HIDE DEF s2
  <2>4. Good(s, s2) /\ StoreInv(s2) /\ s2.phase[p].status # "absent"
    <3>1. Good(s, s2)
      BY <2>1, <2>3, GoodTrans
    <3>2. StoreInv(s2)
      BY <3>1 DEF Good
    <3>3. s2.phase[p].status # "absent"
      BY <2>1, <2>3
    <3> QED BY <3>1, <3>2, <3>3
  <2>5. /\ Good(s2, s3)
        /\ s3.phase = s2.phase
        /\ s3.job.status = IF s.job.status \in TerminalJob THEN s.job.status ELSE "running"
    <3>1. CASE s.job.status \in TerminalJob
      BY <2>3, <2>4, <3>1, GoodRefl
    <3>2. CASE s.job.status \notin TerminalJob
      <4> DEFINE c == PutJob(s2, "running", p)
      <4>1. Good(s2, c) /\ c.job = [status |-> "running", current |-> p] /\ c.phase = s2.phase
        BY <2>4, PutJobGood
      <4>2. s3 = c
        BY <3>2
      <4> HIDE DEF c, s3
      <4> QED BY <3>2, <4>1, <4>2
    <3> QED BY <3>1, <3>2
  <2> HIDE DEF s3
  <2>6. Good(s, s3)
    BY <2>4, <2>5, GoodTrans
  <2>7. Gentle(s, s1) /\ Gentle(s, s2) /\ Gentle(s, s3)
    BY <2>1, <2>3, <2>5 DEF Gentle
  <2>8. GentleEffect(s, KillPhase(s, p, reason))
    BY <2>1, <2>2, <2>4, <2>6, <2>7 DEF GentleEffect, GoodEffect
  <2>9. s.job.status \in OpenJob => s3.job.status \in OpenJob
    BY <2>5 DEF OpenJob, TerminalJob
  <2> QED BY <1>2, <2>1, <2>2, <2>3, <2>5, <2>8, <2>9
<1> QED BY <1>1, <1>2

\* Stop leaves no phase of an open job running.
LEMMA KillSessionGentle ==
  ASSUME NEW s, StoreInv(s)
  PROVE  LET e == KillSession(s)
         IN /\ GentleEffect(s, e)
            /\ s.job.status \in OpenJob => \A q \in Phases : e.end.phase[q].status # "running"
<1> DEFINE p == Smallest(In(s, "running"))
<1>1. CASE s.job.status \in OpenJob /\ In(s, "running") # {}
  <2>1. p \in In(s, "running")
    BY <1>1, SmallestOf DEF In
  <2>2. p \in Phases /\ s.phase[p].status = "running"
    BY <2>1 DEF In
  <2>3. KillSession(s) = KillPhase(s, p, "operator_kill")
    BY <1>1 DEF KillSession
  <2> HIDE DEF p
  <2>4. \A q \in Phases : q # p => s.phase[q].status # "running"
    BY <2>2 DEF StoreInv
  <2> QED BY <2>2, <2>3, <2>4, KillPhaseGentle DEF Reasons
<1>2. CASE ~(s.job.status \in OpenJob /\ In(s, "running") # {})
  BY <1>2, NoEffectGentle, NoEffectGood DEF KillSession, In
<1> QED BY <1>1, <1>2

\* The start-up repair finds no job of CARD-530's kind, and requeues.
LEMMA StartUpGentle == ASSUME NEW s, StoreInv(s) PROVE GentleEffect(s, StartUp(s))
<1> DEFINE p == Smallest(In(s, "running"))
<1>1. ~Stuck(s)
  BY DEF Stuck, StoreInv
<1>2. /\ ReconcileStuck(s) = [cuts |-> {}, end |-> s]
      /\ StartUp(s) = [cuts |-> {s} \cup RequeueInterrupted(s).cuts, end |-> RequeueInterrupted(s).end]
  BY <1>1 DEF ReconcileStuck, StartUp, NoEffect, Effect, Then
<1>3. GentleEffect(s, RequeueInterrupted(s))
  <2>1. CASE s.job.status = "running" /\ In(s, "running") # {}
    <3>1. p \in In(s, "running")
      BY <2>1, SmallestOf DEF In
    <3>2. p \in Phases
      BY <3>1 DEF In
    <3>3. RequeueInterrupted(s) = KillPhase(s, p, "server_restart")
      BY <2>1 DEF RequeueInterrupted
    <3> HIDE DEF p
    <3> QED BY <3>2, <3>3, KillPhaseGentle DEF Reasons
  <2>2. CASE ~(s.job.status = "running" /\ In(s, "running") # {})
    BY <2>2, NoEffectGentle DEF RequeueInterrupted
  <2> QED BY <2>1, <2>2
<1>4. Good(s, s) /\ Gentle(s, s)
  BY GoodRefl DEF Gentle
<1> QED BY <1>2, <1>3, <1>4 DEF GentleEffect, GoodEffect

\* After resume_after_crash nothing runs, the job is open, and the phase it points
\* at can be started or is over.
LEMMA ResumeAfterCrashGood ==
  ASSUME NEW s, StoreInv(s), Resumable(s)
  PROVE  LET p == ContinuePhase(s)
             e == ResumeAfterCrash(s)
         IN /\ p \in Phases
            /\ GoodEffect(s, e)
            /\ e.end.job.status \in OpenJob
            /\ \A q \in Phases : e.end.phase[q].status # "running"
            /\ e.end.phase[p].status \in Startable \cup TerminalPhase
<1> DEFINE p  == ContinuePhase(s)
           s1 == PutPhase(s, p, "queued", "none")
<1>0. /\ s.job.status \in OpenJob
      /\ s.job.current \in Phases
      /\ s.phase[s.job.current].status # "absent"
      /\ s.phase[s.job.current] \in PhaseType
  BY DEF Resumable, StoreInv, OpenJob, StoreType
<1>1. CASE In(s, "running") # {}
  <2>1. p \in In(s, "running")
    BY <1>1, SmallestOf DEF ContinuePhase, In
  <2>2. p \in Phases /\ s.phase[p].status = "running"
    BY <2>1 DEF In
  <2>3. ResumeAfterCrash(s) = [cuts |-> {s1}, end |-> PutJob(s1, "running", p)]
    BY <1>1 DEF ResumeAfterCrash, Effect
  <2> HIDE DEF p
  <2>4. /\ Good(s, s1)
        /\ s1.phase[p].status = "queued"
        /\ \A q \in Phases : q # p => s1.phase[q] = s.phase[q]
    BY <2>2, PutPhaseGood DEF Statuses, Reacts, TerminalPhase
  <2> HIDE DEF s1
  <2> DEFINE s2 == PutJob(s1, "running", p)
  <2>5. Good(s1, s2) /\ s2.job = [status |-> "running", current |-> p] /\ s2.phase = s1.phase
    <3>1. StoreInv(s1) /\ s1.phase[p].status # "absent"
      BY <2>4 DEF Good
    <3> QED BY <2>2, <3>1, PutJobGood
  <2> HIDE DEF s2
  <2>6. Good(s, s2)
    BY <2>4, <2>5, GoodTrans
  <2>7. \A q \in Phases : s2.phase[q].status # "running"
    BY <2>2, <2>4, <2>5 DEF StoreInv
  <2>8. ResumeAfterCrash(s) = [cuts |-> {s1}, end |-> s2]
    BY <2>3 DEF s2
  <2>9. ContinuePhase(s) = p
    BY DEF p
  <2> QED BY <2>2, <2>4, <2>5, <2>6, <2>7, <2>8, <2>9 DEF GoodEffect, OpenJob, Startable
<1>2. CASE In(s, "running") = {} /\ In(s, "waiting") # {}
  <2>1. p \in In(s, "waiting")
    BY <1>2, SmallestOf DEF ContinuePhase, In
  <2>2. p \in Phases /\ s.phase[p].status = "waiting"
    BY <2>1 DEF In
  <2>3. ResumeAfterCrash(s) = [cuts |-> {}, end |-> PutJob(s, "waiting", p)]
    BY <1>2 DEF ResumeAfterCrash, Effect
  <2>4. \A q \in Phases : s.phase[q].status # "running"
    BY <1>2 DEF In
  <2>5. ContinuePhase(s) = p
    OBVIOUS
  <2> HIDE DEF p
  <2>6. LET c == PutJob(s, "waiting", p)
        IN Good(s, c) /\ c.job = [status |-> "waiting", current |-> p] /\ c.phase = s.phase
    <3>1. s.phase[p].status # "absent"
      BY <2>2
    <3> QED BY <2>2, <3>1, PutJobGood
  <2> QED BY <2>2, <2>3, <2>4, <2>5, <2>6 DEF GoodEffect, OpenJob, Startable
<1>3. CASE /\ In(s, "running") = {} /\ In(s, "waiting") = {}
           /\ In(s, "queued") # {} /\ s.checkpoint.reason \in KillReasons
  <2>1. p \in In(s, "queued")
    BY <1>3, SmallestOf DEF ContinuePhase, In
  <2>2. p \in Phases /\ s.phase[p].status = "queued"
    BY <2>1 DEF In
  <2>3. ResumeAfterCrash(s) = [cuts |-> {}, end |-> PutJob(s, "running", p)]
    BY <1>3 DEF ResumeAfterCrash, Effect
  <2>4. \A q \in Phases : s.phase[q].status # "running"
    BY <1>3 DEF In
  <2>5. ContinuePhase(s) = p
    OBVIOUS
  <2> HIDE DEF p
  <2>6. LET c == PutJob(s, "running", p)
        IN Good(s, c) /\ c.job = [status |-> "running", current |-> p] /\ c.phase = s.phase
    <3>1. s.phase[p].status # "absent"
      BY <2>2
    <3> QED BY <2>2, <3>1, PutJobGood
  <2> QED BY <2>2, <2>3, <2>4, <2>5, <2>6 DEF GoodEffect, OpenJob, Startable
<1>4. CASE /\ In(s, "running") = {} /\ In(s, "waiting") = {}
           /\ ~(In(s, "queued") # {} /\ s.checkpoint.reason \in KillReasons)
  <2>1. ContinuePhase(s) = s.job.current /\ ResumeAfterCrash(s) = NoEffect(s)
    BY <1>4 DEF ContinuePhase, ResumeAfterCrash
  <2>2. \A q \in Phases : s.phase[q].status # "running" /\ s.phase[q].status # "waiting"
    BY <1>4 DEF In
  <2>3. s.phase[s.job.current].status \in Startable \cup TerminalPhase
    BY <1>0, <2>2 DEF PhaseType, Startable
  <2> QED BY <1>0, <2>1, <2>2, <2>3, NoEffectGood
<1> QED BY <1>1, <1>2, <1>3, <1>4

-----------------------------------------------------------------------------
(* Replans.                                                                 *)

\* Cancelling the unfinished phases keeps the rows that exist.
LEMMA CancelUpToGood ==
  ASSUME NEW s, StoreInv(s), NEW n \in Int
  PROVE  LET c == CancelUpTo(s, n)
         IN /\ Good(s, c)
            /\ c.job = s.job
            /\ c.checkpoint = s.checkpoint
            /\ \A p \in Phases : c.phase[p].status = "absent" <=> s.phase[p].status = "absent"
<1> DEFINE c == CancelUpTo(s, n)
           over(p) == p <= n /\ s.phase[p].status \in {"queued", "running", "waiting"}
<1>1. s \in StoreType /\ s.phase \in [Phases -> PhaseType]
  BY DEF StoreInv, StoreType
<1>2. /\ c = [s EXCEPT !.phase = c.phase]
      /\ c.phase = [p \in Phases |->
                     IF over(p) THEN [s.phase[p] EXCEPT !.status = "cancelled", !.react = "none"]
                     ELSE s.phase[p]]
  BY <1>1 DEF CancelUpTo, StoreType
<1> HIDE DEF c
<1>3. \A p \in Phases :
        /\ over(p) => c.phase[p] = [s.phase[p] EXCEPT !.status = "cancelled", !.react = "none"]
        /\ ~over(p) => c.phase[p] = s.phase[p]
  BY <1>2
<1>4. \A p \in Phases :
        /\ c.phase[p] \in PhaseType
        /\ over(p) => c.phase[p].status = "cancelled"
  <2> TAKE p \in Phases
  <2>1. s.phase[p] \in PhaseType
    BY <1>1
  <2> HIDE DEF over
  <2> QED BY <1>3, <2>1 DEF PhaseType, TerminalPhase
<1>5. /\ c \in StoreType
      /\ c.job = s.job
      /\ c.checkpoint = s.checkpoint
  BY <1>1, <1>2, <1>4 DEF StoreType
<1>6. \A p \in Phases : c.phase[p].status = "absent" <=> s.phase[p].status = "absent"
  BY <1>3, <1>4
<1>7. \A p \in Phases : s.phase[p].status \in TerminalPhase => c.phase[p].status \in TerminalPhase
  BY <1>3, <1>4 DEF TerminalPhase
<1>8. StoreInv(c)
  <2>1. \E k \in 0 .. MaxPhases : \A q \in Phases : c.phase[q].status # "absent" <=> q <= k
    BY <1>6 DEF StoreInv
  <2>2. c.job.status # "none" =>
          c.job.current \in Phases /\ c.phase[c.job.current].status # "absent"
    BY <1>5, <1>6 DEF StoreInv
  <2> HIDE DEF over
  <2>3. \A q, r \in Phases :
          c.phase[q].status = "running" /\ c.phase[r].status = "running" => q = r
    <3>1. \A q \in Phases : c.phase[q].status = "running" => s.phase[q].status = "running"
      BY <1>3, <1>4
    <3> QED BY <3>1 DEF StoreInv
  <2>4. \A q \in Phases : c.phase[q].status = "queued" => c.phase[q].react # "DONE"
    BY <1>3, <1>4 DEF StoreInv
  <2> QED BY <1>5, <2>1, <2>2, <2>3, <2>4 DEF StoreInv
<1> QED BY <1>5, <1>6, <1>7, <1>8 DEF Good, c

\* A new row follows the last one.
LEMMA AppendPhaseGood ==
  ASSUME NEW s, StoreInv(s), NEW p \in Phases, NEW lane \in Lanes,
         \A q \in Phases : s.phase[q].status # "absent" <=> q <= p - 1
  PROVE  LET c == AppendPhase(s, p, lane)
         IN /\ Good(s, c)
            /\ c.job = s.job
            /\ c.checkpoint = s.checkpoint
            /\ \A q \in Phases : c.phase[q].status # "absent" <=> q <= p
<1> DEFINE c == AppendPhase(s, p, lane)
<1>1. s \in StoreType /\ s.phase \in [Phases -> PhaseType]
  BY DEF StoreInv, StoreType
<1>2. /\ NewPhase(lane) \in PhaseType
      /\ NewPhase(lane).status = "queued"
      /\ NewPhase(lane).react = "none"
  BY DEF NewPhase, PhaseType
<1>3. /\ c \in StoreType
      /\ c.job = s.job
      /\ c.checkpoint = s.checkpoint
      /\ c.phase[p] = NewPhase(lane)
      /\ \A q \in Phases : q # p => c.phase[q] = s.phase[q]
  BY <1>1, <1>2 DEF AppendPhase, StoreType
<1> HIDE DEF c
<1>4. p \in Int /\ p - 1 \in Int /\ p \in 0 .. MaxPhases /\ ~(p <= p - 1)
  BY RowsAssumption DEF Phases
<1>5. s.phase[p].status = "absent"
  BY <1>4
<1>6. \A q \in Phases : c.phase[q].status # "absent" <=> q <= p
  <2> TAKE q \in Phases
  <2>1. q \in Int /\ (q # p => (q <= p - 1 <=> q <= p))
    BY <1>4, RowsAssumption DEF Phases
  <2>2. CASE q = p
    BY <1>2, <1>3, <1>4, <2>2
  <2>3. CASE q # p
    BY <1>3, <2>1, <2>3
  <2> QED BY <2>2, <2>3
<1>7. StoreInv(c)
  <2>1. \E k \in 0 .. MaxPhases : \A q \in Phases : c.phase[q].status # "absent" <=> q <= k
    BY <1>4, <1>6
  <2>2. c.job.status # "none" =>
          c.job.current \in Phases /\ c.phase[c.job.current].status # "absent"
    BY <1>2, <1>3 DEF StoreInv
  <2>3. \A q, r \in Phases :
          c.phase[q].status = "running" /\ c.phase[r].status = "running" => q = r
    BY <1>2, <1>3 DEF StoreInv
  <2>4. \A q \in Phases : c.phase[q].status = "queued" => c.phase[q].react # "DONE"
    BY <1>2, <1>3 DEF StoreInv
  <2> QED BY <1>3, <2>1, <2>2, <2>3, <2>4 DEF StoreInv
<1>8. \A q \in Phases : s.phase[q].status \in TerminalPhase => c.phase[q].status \in TerminalPhase
  BY <1>3, <1>5 DEF TerminalPhase
<1> QED BY <1>2, <1>3, <1>6, <1>7, <1>8 DEF Good, c

\* The rows are 1 .. k, and FirstFree is the next.
LEMMA FirstFreeRow ==
  ASSUME NEW s, StoreInv(s)
  PROVE  /\ FirstFree(s) \in Nat
         /\ \A p \in Phases : s.phase[p].status # "absent" <=> p <= FirstFree(s) - 1
<1>1. PICK k \in 0 .. MaxPhases : \A p \in Phases : s.phase[p].status # "absent" <=> p <= k
  BY DEF StoreInv
<1>2. Rows(s) = 1 .. k
  BY <1>1, RowsAssumption DEF Rows, Phases
<1>3. Cardinality(1 .. k) = k
  BY FS_Interval, RowsAssumption
<1>4. FirstFree(s) = k + 1 /\ k \in Nat
  BY <1>2, <1>3, RowsAssumption DEF FirstFree
<1> QED BY <1>1, <1>4

\* replan_job: the cancelled rows, then two new ones, then the job.
LEMMA ReplanJobGood ==
  ASSUME NEW s, StoreInv(s), s.checkpoint.replans < MaxReplans, RoomToReplan(s)
  PROVE  LET e == ReplanJob(s)
         IN /\ GoodEffect(s, e)
            /\ e.end.checkpoint = s.checkpoint
            /\ e.end.job.current \in Phases
<1> DEFINE first == FirstFree(s)
           s1 == CancelUpTo(s, first - 1)
           s2 == AppendPhase(s1, first, "formulate")
           s3 == AppendPhase(s2, first + 1, "execute")
           status == IF In(s, "done") # {} THEN "running" ELSE "queued"
           s4 == PutJob(s3, status, first)
           cancels == {CancelUpTo(s, n) : n \in Phases}
<1>1. ReplanJob(s) = [cuts |-> cancels \cup {s2, s3}, end |-> s4]
  BY DEF ReplanJob, Effect
<1>2. \A c \in cancels : Good(s, c)
  BY CancelUpToGood, RowsAssumption DEF Phases
<1>3. /\ first \in Phases /\ first + 1 \in Phases
      /\ first - 1 \in Int /\ first \in Int /\ (first + 1) - 1 = first
      /\ \A p \in Phases : s.phase[p].status # "absent" <=> p <= first - 1
  BY FirstFreeRow DEF RoomToReplan
<1> HIDE DEF first, cancels
<1>4. /\ Good(s, s1)
      /\ s1.checkpoint = s.checkpoint
      /\ \A p \in Phases : s1.phase[p].status # "absent" <=> p <= first - 1
  BY <1>3, CancelUpToGood
<1> HIDE DEF s1
<1>5. /\ Good(s1, s2)
      /\ s2.checkpoint = s1.checkpoint
      /\ \A p \in Phases : s2.phase[p].status # "absent" <=> p <= first
  <2>1. StoreInv(s1)
    BY <1>4 DEF Good
  <2> QED BY <1>3, <1>4, <2>1, AppendPhaseGood DEF Lanes
<1> HIDE DEF s2
<1>6. /\ Good(s2, s3)
      /\ s3.checkpoint = s2.checkpoint
      /\ \A p \in Phases : s3.phase[p].status # "absent" <=> p <= first + 1
  <2>1. StoreInv(s2)
    BY <1>5 DEF Good
  <2>2. \A p \in Phases : s2.phase[p].status # "absent" <=> p <= (first + 1) - 1
    BY <1>3, <1>5
  <2> QED BY <1>3, <2>1, <2>2, AppendPhaseGood DEF Lanes
<1> HIDE DEF s3
<1>7. /\ Good(s3, s4)
      /\ s4.checkpoint = s3.checkpoint
      /\ s4.job = [status |-> status, current |-> first]
  <2>1. StoreInv(s3)
    BY <1>6 DEF Good
  <2>2. s3.phase[first].status # "absent"
    BY <1>3, <1>6
  <2>3. status \in {"queued", "running", "waiting", "done", "failed"}
    OBVIOUS
  <2> HIDE DEF status
  <2> QED BY <1>3, <2>1, <2>2, <2>3, PutJobGood
<1> HIDE DEF s4
<1>8. Good(s, s2)
  BY <1>4, <1>5, GoodTrans
<1>9. Good(s, s3)
  BY <1>6, <1>8, GoodTrans
<1>10. Good(s, s4)
  BY <1>7, <1>9, GoodTrans
<1> QED BY <1>1, <1>2, <1>3, <1>4, <1>5, <1>6, <1>7, <1>8, <1>9, <1>10 DEF GoodEffect

\* The checker's failure: a replan while the cap allows it, else a park.
LEMMA BoundedReplanGood ==
  ASSUME NEW s, StoreInv(s), NEW p \in Phases, s.phase[p].status # "absent",
         RoomToReplan(s), ~ReplanRefused(s, p)
  PROVE  GoodEffect(s, BoundedReplan(s, p))
<1>0. s.checkpoint.replans \in 0 .. MaxReplans
  BY DEF StoreInv, StoreType, CheckpointType
<1>1. CASE s.checkpoint.replans < MaxReplans
  <2> DEFINE e == ReplanJob(s)
             r == e.end
             c1 == Checkpoint(r, r.job.current, FALSE, "failure")
             c2 == [c1 EXCEPT !.checkpoint.replans = @ + 1]
  <2>1. BoundedReplan(s, p) = Then(e, CountReplan(r))
    BY <1>1 DEF BoundedReplan
  <2>2. CountReplan(r) = [cuts |-> {}, end |-> c2]
    BY DEF CountReplan, Effect
  <2>3. GoodEffect(s, e) /\ r.checkpoint = s.checkpoint /\ r.job.current \in Phases
    BY <1>1, ReplanJobGood
  <2> HIDE DEF e
  <2>4. StoreInv(r)
    BY <2>3 DEF GoodEffect, Good
  <2>5. Good(r, c1) /\ c1.checkpoint.replans = s.checkpoint.replans
    <3>1. r.job.current \in Phases /\ r.checkpoint = s.checkpoint
      BY <2>3
    <3>2. "failure" \in Reasons
      BY DEF Reasons
    <3> HIDE DEF r
    <3>3. Good(r, c1) /\ c1.checkpoint.replans = r.checkpoint.replans
      BY <2>4, <3>1, <3>2, CheckpointGood
    <3> QED BY <3>1, <3>3
  <2> HIDE DEF c1
  <2>6. StoreInv(c1) /\ c1 \in StoreType
    BY <2>5 DEF Good, StoreInv
  <2>7. /\ c2 \in StoreType
        /\ c2.phase = c1.phase
        /\ c2.job = c1.job
    <3>1. c1.checkpoint \in CheckpointType
      BY <2>6 DEF StoreType
    <3>2. c1.checkpoint.replans + 1 \in 0 .. MaxReplans
      BY <1>0, <1>1, <2>5, ReplansAssumption
    <3>3. [c1.checkpoint EXCEPT !.replans = c1.checkpoint.replans + 1] \in CheckpointType
      BY <3>1, <3>2 DEF CheckpointType
    <3> QED BY <2>6, <3>3 DEF StoreType
  <2> HIDE DEF c2
  <2>8. Good(c1, c2)
    <3>1. StoreInv(c2)
      BY <2>6, <2>7 DEF StoreInv
    <3> QED BY <2>7, <3>1 DEF Good
  <2>9. Good(r, c2)
    BY <2>5, <2>8, GoodTrans
  <2>10. GoodEffect(r, CountReplan(r))
    BY <2>2, <2>9 DEF GoodEffect
  <2> QED BY <2>1, <2>3, <2>10, GoodThen
<1>2. CASE ~(s.checkpoint.replans < MaxReplans)
  <2> DEFINE e == ParkPhase(s, p)
             c == Checkpoint(e.end, p, TRUE, "failure")
  <2>1. BoundedReplan(s, p) = Then(e, [cuts |-> {}, end |-> c])
    BY <1>2 DEF BoundedReplan, ParkExhausted, Effect
  <2>2. GoodEffect(s, e)
    BY <1>2, ParkPhaseGood DEF ReplanRefused
  <2> HIDE DEF e
  <2>3. StoreInv(e.end)
    BY <2>2 DEF GoodEffect, Good
  <2>4. Good(e.end, c)
    BY <2>3, CheckpointGood DEF Reasons
  <2> HIDE DEF c
  <2>5. GoodEffect(e.end, [cuts |-> {}, end |-> c])
    BY <2>4 DEF GoodEffect
  <2> QED BY <2>1, <2>2, <2>5, GoodThen
<1> QED BY <1>1, <1>2

-----------------------------------------------------------------------------
(* A minted job.                                                            *)

\* The store before the job.
LEMMA EmptyStoreInv == StoreInv(EmptyStore)
<1>1. EmptyStore \in StoreType
  BY ReplansAssumption DEF EmptyStore, StoreType, JobType, PhaseType, CheckpointType, Reasons
<1>2. /\ EmptyStore.job.status = "none"
      /\ \A p \in Phases : EmptyStore.phase[p].status = "absent"
  BY DEF EmptyStore
<1>3. \A p \in Phases : EmptyStore.phase[p].status # "absent" <=> p <= 0
  BY <1>2, RowsAssumption DEF Phases
<1>4. 0 \in 0 .. MaxPhases
  BY RowsAssumption
<1> QED BY <1>1, <1>2, <1>3, <1>4 DEF StoreInv

\* A first plan numbers two or three phases.
LEMMA PlanFacts ==
  ASSUME NEW plan \in FirstPlans
  PROVE  \E n \in 2 .. 3 : /\ DOMAIN plan = 1 .. n
                           /\ \A p \in 1 .. n : plan[p] \in Lanes /\ p \in Phases
<1>1. PICK n \in 2 .. 3 : plan \in [1 .. n -> Lanes]
  BY PlansAssumption
<1>2. 1 .. n \subseteq Phases
  BY RowsAssumption DEF Phases
<1> QED BY <1>1, <1>2

\* create_job_from_catalog_resolve: a queued job whose planned phases are queued.
LEMMA MintJobGood ==
  ASSUME NEW plan \in FirstPlans, NEW research \in BOOLEAN
  PROVE  LET e == MintJob(plan, research)
         IN /\ GoodEffect(EmptyStore, e)
            /\ e.end.job.status = "queued"
            /\ \A p \in DOMAIN plan : p \in Phases /\ e.end.phase[p].status = "queued"
            /\ \A p \in Phases : e.end.phase[p].status # "running"
<1> DEFINE s == EmptyStore
           row(p) == IF p \in DOMAIN plan THEN NewPhase(plan[p]) ELSE s.phase[p]
           s1 == [s EXCEPT !.job = [status |-> "queued", current |-> 1],
                           !.phase = [p \in Phases |-> row(p)]]
           s2 == [s1 EXCEPT !.checkpoint = [s1.checkpoint EXCEPT !.phase = 1, !.research = research]]
<1>1. MintJob(plan, research) = [cuts |-> {s1}, end |-> s2]
  BY DEF MintJob, Effect, EmptyStore
<1>2. /\ s \in StoreType
      /\ s.job.status = "none"
      /\ \A p \in Phases : s.phase[p].status = "absent" /\ s.phase[p] \in PhaseType
  BY EmptyStoreInv DEF StoreInv, StoreType, EmptyStore
<1>3. PICK n \in 2 .. 3 : /\ DOMAIN plan = 1 .. n
                          /\ \A p \in 1 .. n : plan[p] \in Lanes /\ p \in Phases
  BY PlanFacts
<1> HIDE DEF s
<1>4. \A p \in Phases :
        /\ row(p) \in PhaseType
        /\ p \in 1 .. n => row(p).status = "queued" /\ row(p).react = "none"
        /\ p \notin 1 .. n => row(p).status = "absent"
  BY <1>2, <1>3 DEF NewPhase, PhaseType
<1>5. 1 \in Phases /\ 1 \in 1 .. n /\ n \in 0 .. MaxPhases
  BY RowsAssumption DEF Phases
<1>6. [status |-> "queued", current |-> 1] \in JobType
  BY <1>5 DEF JobType, OpenJob
<1> HIDE DEF row
<1>7. /\ s1 \in StoreType
      /\ s1.job = [status |-> "queued", current |-> 1]
      /\ \A p \in Phases : s1.phase[p] = row(p)
  BY <1>2, <1>4, <1>6 DEF StoreType
<1> HIDE DEF s1
<1>8. StoreInv(s1)
  <2>1. \A p \in Phases : s1.phase[p].status # "absent" <=> p <= n
    BY <1>4, <1>7, RowsAssumption DEF Phases
  <2>2. s1.phase[1].status # "absent"
    BY <1>4, <1>5, <1>7
  <2>3. \A p \in Phases : (s1.phase[p].status # "running" /\ s1.phase[p].react # "DONE")
                          \/ s1.phase[p].status = "absent"
    BY <1>4, <1>7
  <2> QED BY <1>5, <1>7, <2>1, <2>2, <2>3 DEF StoreInv
<1>9. s2 \in StoreType /\ s2.job = s1.job /\ s2.phase = s1.phase
  <2>1. [s1.checkpoint EXCEPT !.phase = 1, !.research = research] \in CheckpointType
    BY <1>5, <1>7 DEF StoreType, CheckpointType
  <2> QED BY <1>7, <2>1 DEF StoreType
<1> HIDE DEF s2
<1>10. StoreInv(s2)
  BY <1>8, <1>9 DEF StoreInv
<1>11. Good(s, s1) /\ Good(s, s2)
  BY <1>2, <1>8, <1>9, <1>10 DEF Good, TerminalPhase
<1>12. /\ s2.job.status = "queued"
       /\ \A p \in 1 .. n : p \in Phases /\ s2.phase[p].status = "queued"
       /\ \A p \in Phases : s2.phase[p].status # "running"
  BY <1>3, <1>4, <1>7, <1>9
<1> QED BY <1>1, <1>3, <1>11, <1>12 DEF GoodEffect, s

\* The phase that plans is one of the plan's.
LEMMA FormulateRow ==
  ASSUME NEW plan \in FirstPlans
  PROVE  FormulateOf(plan) \in DOMAIN plan
BY PlanFacts DEF FormulateOf

\* Grounding a minted job on notes changes its checkpoint only.
LEMMA MintedGood ==
  ASSUME NEW plan \in FirstPlans, NEW wiki \in BOOLEAN
  PROVE  LET e == Minted(plan, wiki)
         IN /\ GoodEffect(EmptyStore, e)
            /\ e.end.job.status = "queued"
            /\ \A p \in DOMAIN plan : p \in Phases /\ e.end.phase[p].status = "queued"
            /\ \A p \in Phases : e.end.phase[p].status # "running"
<1> DEFINE m == MintJob(plan, plan[1] = "research")
           p == FormulateOf(plan)
           c == CheckpointInheriting(m.end, p, FALSE)
           g == GroundOnNotes(m.end, p)
<1>1. /\ GoodEffect(EmptyStore, m)
      /\ m.end.job.status = "queued"
      /\ \A q \in DOMAIN plan : q \in Phases /\ m.end.phase[q].status = "queued"
      /\ \A q \in Phases : m.end.phase[q].status # "running"
  BY MintJobGood
<1>2. Minted(plan, wiki) = IF wiki THEN Then(m, g) ELSE m
  BY DEF Minted
<1> HIDE DEF m
<1>3. p \in Phases /\ StoreInv(m.end)
  BY <1>1, FormulateRow DEF GoodEffect, Good
<1> HIDE DEF p
<1>4. Good(m.end, c) /\ c.job = m.end.job /\ c.phase = m.end.phase
  BY <1>3, InheritingGood
<1>5. g = [cuts |-> {}, end |-> c]
  BY DEF GroundOnNotes, Effect
<1> HIDE DEF c, g
<1>6. GoodEffect(m.end, g) /\ g.end = c
  BY <1>4, <1>5 DEF GoodEffect
<1>7. GoodEffect(EmptyStore, Then(m, g)) /\ Then(m, g).end = g.end
  BY <1>1, <1>6, GoodThen
<1>8. GoodEffect(EmptyStore, Then(m, g)) /\ Then(m, g).end = c
  BY <1>6, <1>7
<1> QED BY <1>1, <1>2, <1>4, <1>8 DEF m

\* A job parked for sources before it ran.
LEMMA ParkForSourcesGood ==
  ASSUME NEW plan \in FirstPlans
  PROVE  LET m == MintJob(plan, plan[1] = "research")
         IN GoodEffect(EmptyStore, Then(m, ParkForSources(m.end, FormulateOf(plan))))
<1> DEFINE m  == MintJob(plan, plan[1] = "research")
           p  == FormulateOf(plan)
           s1 == Checkpoint(m.end, p, TRUE, "failure")
           e1 == Effect({}, s1)
           e2 == ParkPhase(s1, p)
<1>1. GoodEffect(EmptyStore, m) /\ \A q \in DOMAIN plan : q \in Phases /\ m.end.phase[q].status = "queued"
  BY MintJobGood
<1>2. ParkForSources(m.end, p) = Then(e1, e2)
  BY DEF ParkForSources
<1> HIDE DEF m
<1>3. p \in Phases /\ m.end.phase[p].status = "queued" /\ StoreInv(m.end)
  BY <1>1, FormulateRow DEF GoodEffect, Good
<1> HIDE DEF p
<1>4. Good(m.end, s1) /\ s1.phase = m.end.phase
  BY <1>3, CheckpointGood DEF Reasons
<1> HIDE DEF s1
<1>5. GoodEffect(m.end, e1) /\ e1.end = s1
  BY <1>4 DEF GoodEffect, Effect
<1> HIDE DEF e1
<1>6. StoreInv(s1) /\ ~ParkRefused(s1, p) /\ s1.phase[p].status # "absent"
  BY <1>3, <1>4 DEF Good, ParkRefused, TerminalPhase
<1>7. GoodEffect(s1, e2)
  BY <1>3, <1>6, ParkPhaseGood
<1> HIDE DEF e2
<1>8. GoodEffect(m.end, Then(e1, e2))
  BY <1>5, <1>7, GoodThen
<1>9. GoodEffect(m.end, ParkForSources(m.end, p))
  BY <1>2, <1>8
<1>10. GoodEffect(EmptyStore, Then(m, ParkForSources(m.end, p)))
  BY <1>1, <1>9, GoodThen
<1> QED BY <1>10 DEF p, m

-----------------------------------------------------------------------------
(* The invariant is inductive.                                              *)

Sayings == {"nothing", "failed", "waiting", "question", "done", "error"}

\* An idle worker.
LEMMA IdleType == Idle \in RunType /\ Idle.pc = "idle"
BY DEF Idle, RunType

\* The initial state satisfies the invariant.
LEMMA InitInv == Init => IInv
<1> SUFFICES ASSUME Init PROVE IInv
  OBVIOUS
<1>1. store \in StoreType /\ StoreInv(store)
  BY EmptyStoreInv DEF Init, StoreInv
<1>2. TypeOK
  BY <1>1, IdleType DEF Init, TypeOK
<1>3. RunInv
  BY IdleType DEF Init, RunInv, Attached
<1> QED BY <1>1, <1>2, <1>3 DEF IInv

\* When the process dies only the store is left.
LEMMA PowerOffInv == ASSUME IInv, PowerOff, StoreInv(store') PROVE IInv'
<1>1. TypeOK'
  BY IdleType DEF IInv, TypeOK, PowerOff, StoreInv
<1>2. RunInv'
  BY IdleType DEF PowerOff, RunInv, Attached
<1> QED BY <1>1, <1>2 DEF IInv

\* A crash in the middle of a good effect keeps the invariant.
LEMMA CutShortInv ==
  ASSUME IInv, NEW s, NEW e, GoodEffect(s, e), CutShort(e)
  PROVE  IInv'
<1>1. StoreInv(store') /\ PowerOff
  BY DEF CutShort, GoodEffect, Good
<1> QED BY <1>1, PowerOffInv

\* Only one worker works for the session.
LEMMA AttachedAlone ==
  ASSUME IInv, NEW w \in Workers, run[w].pc \in Attached \/ live = NoWorker
  PROVE  \A u \in Workers : u # w => run[u].pc \notin Attached
BY WorkersAssumption DEF IInv, RunInv, AttachedInv

\* A store that only moves on disturbs no worker's claim to its phase.
LEMMA BusyStays ==
  ASSUME IInv, NEW u \in Workers, run[u].pc # "idle", Good(store, store'), up' = up,
         /\ run'[u].phase = run[u].phase /\ run'[u].token = run[u].token
         /\ run'[u].path = run[u].path /\ run'[u].todo = run[u].todo
  PROVE  BusyInv(u)'
<1>1. BusyInv(u) /\ run[u].todo \in SUBSET Phases
  BY DEF IInv, RunInv, TypeOK, RunType
<1>2. /\ \A p \in Phases : store.phase[p].status \in TerminalPhase => store'.phase[p].status \in TerminalPhase
      /\ \A p \in Phases : store.phase[p].status # "absent" => store'.phase[p].status # "absent"
      /\ store.job.status # "none" => store'.job.status # "none"
  BY DEF Good
<1> QED BY <1>1, <1>2 DEF BusyInv

\* A step of worker w while nobody else works for the session.
LEMMA WorkerStep ==
  ASSUME IInv, NEW w \in Workers, Good(store, store'),
         \A u \in Workers : u # w => run[u].pc \notin Attached,
         NEW r \in RunType, run' = [run EXCEPT ![w] = r],
         up' = up, live' \in Workers \cup {NoWorker},
         token' \in [Phases -> Workers \cup {NoWorker}], told' \in Sayings,
         r.pc # "idle" => BusyInv(w)',
         r.pc \in Attached => AttachedInv(w)'
  PROVE  IInv'
<1>1. run \in [Workers -> RunType] /\ up \in BOOLEAN
  BY DEF IInv, TypeOK
<1>2. StoreInv(store') /\ store' \in StoreType
  BY DEF Good, StoreInv
<1>3. run'[w] = r /\ \A u \in Workers : u # w => run'[u] = run[u]
  BY <1>1
<1>4. TypeOK'
  BY <1>1, <1>2 DEF TypeOK, Sayings
<1>5. ASSUME NEW u \in Workers
      PROVE  /\ run'[u].pc # "idle" => BusyInv(u)'
             /\ run'[u].pc \in Attached => AttachedInv(u)'
  <2>1. CASE u = w
    BY <1>3, <2>1
  <2>2. CASE u # w
    BY <1>3, <2>2, BusyStays
  <2> QED BY <2>1, <2>2
<1>6. RunInv'
  BY <1>5 DEF RunInv
<1> QED BY <1>2, <1>4, <1>6 DEF IInv

\* A worker that ends with a good effect keeps the invariant.
LEMMA EndsInv ==
  ASSUME IInv, NEW w \in Workers, run[w].pc \in Attached,
         NEW e, GoodEffect(store, e), NEW saying \in Sayings, Ends(w, e, saying)
  PROVE  IInv'
<1>1. CASE CutShort(e)
  BY <1>1, CutShortInv
<1>2. CASE store' = e.end /\ EndRun(w, saying)
  <2>1. Good(store, store')
    BY <1>2 DEF GoodEffect
  <2>2. /\ run' = [run EXCEPT ![w] = Idle]
        /\ up' = up
        /\ live' \in Workers \cup {NoWorker}
        /\ token' \in [Phases -> Workers \cup {NoWorker}]
        /\ told' = saying
    BY <1>2 DEF EndRun, IInv, TypeOK
  <2> QED BY <2>1, <2>2, IdleType, AttachedAlone, WorkerStep DEF Attached
<1> QED BY <1>1, <1>2 DEF Ends

\* So does one that ends with an exception.
LEMMA RaisesInv ==
  ASSUME IInv, NEW w \in Workers, run[w].pc \in Attached, Raises(w)
  PROVE  IInv'
<1>1. Ends(w, NoEffect(store), "error")
  BY DEF Raises, Ends, NoEffect, Effect
<1>2. GoodEffect(store, NoEffect(store))
  BY NoEffectGood DEF IInv
<1> QED BY <1>1, <1>2, EndsInv DEF Sayings

-----------------------------------------------------------------------------
(* The steps, one by one.                                                   *)

\* What is known of an attached worker's phase.
LEMMA AttachedFacts ==
  ASSUME IInv, NEW w \in Workers, run[w].pc \in Attached
  PROVE  /\ StoreInv(store) /\ BusyInv(w) /\ AttachedInv(w)
         /\ run[w] \in RunType
         /\ run[w].phase \in Phases
         /\ store.phase[run[w].phase].status \in {"running"} \cup TerminalPhase
         /\ store.phase[run[w].phase].status # "absent"
         /\ store.phase[run[w].phase] \in PhaseType
<1>1. run[w].pc # "idle"
  BY DEF Attached
<1>2. BusyInv(w) /\ AttachedInv(w) /\ run[w] \in RunType
  BY <1>1 DEF IInv, RunInv, TypeOK
<1>3. run[w].phase \in Phases
  BY <1>2 DEF BusyInv
<1>4. store.phase[run[w].phase].status \in {"running"} \cup TerminalPhase
  BY <1>2 DEF AttachedInv
<1>5. store.phase[run[w].phase] \in PhaseType
  BY <1>3 DEF IInv, StoreInv, StoreType
<1> QED BY <1>2, <1>3, <1>4, <1>5 DEF IInv, TerminalPhase

\* The reply is complete: the react_state is written.
LEMMA TurnDoneInv == ASSUME IInv, NEW w \in Workers, TurnDone(w) PROVE IInv'
<1> DEFINE p == run[w].phase
           r == [run[w] EXCEPT !.pc = "check"]
<1>1. run[w].pc \in Attached
  BY DEF TurnDone, InTurn, Attached
<1>2. /\ StoreInv(store) /\ BusyInv(w) /\ AttachedInv(w) /\ run[w] \in RunType /\ p \in Phases
      /\ store.phase[p].status \in {"running"} \cup TerminalPhase
      /\ store.phase[p].status # "absent"
  BY <1>1, AttachedFacts
<1>3. /\ r \in RunType /\ r.pc \in Attached
      /\ r.phase = run[w].phase /\ r.token = run[w].token
      /\ r.path = run[w].path /\ r.todo = run[w].todo
  BY <1>2 DEF RunType, Attached
<1>4. /\ run' = [run EXCEPT ![w] = r] /\ run'[w] = r
      /\ up' = up /\ live' = live /\ token' = token /\ told' = told
  BY DEF TurnDone, IInv, TypeOK
<1>5. /\ Good(store, store')
      /\ store'.job = store.job
      /\ \A q \in Phases : store'.phase[q].status = store.phase[q].status
  <2>1. CASE store' = store
    BY <1>2, <2>1, GoodRefl
  <2>2. CASE store' # store
    <3> DEFINE status == store.phase[p].status
               c == PutPhase(store, p, status, "DONE")
    <3>1. store' = c
      BY <2>2 DEF TurnDone
    <3>2. /\ status \in Statuses /\ "DONE" \in Reacts /\ status # "queued"
          /\ status = "running" => \A q \in Phases : store.phase[q].status = "running" => q = p
      BY <1>2 DEF Statuses, Reacts, TerminalPhase, StoreInv
    <3>3. /\ Good(store, c)
          /\ c.job = store.job
          /\ c.phase[p].status = status
          /\ \A q \in Phases : q # p => c.phase[q] = store.phase[q]
      BY <1>2, <3>2, PutPhaseGood
    <3> QED BY <3>1, <3>3
  <2> QED BY <2>1, <2>2
<1> HIDE DEF r
<1>6. BusyInv(w)'
  BY <1>1, <1>3, <1>4, <1>5, BusyStays DEF Attached
<1>7. AttachedInv(w)'
  BY <1>2, <1>3, <1>4, <1>5 DEF AttachedInv
<1>8. /\ live' \in Workers \cup {NoWorker} /\ told' \in Sayings
      /\ token' \in [Phases -> Workers \cup {NoWorker}]
  BY <1>4 DEF IInv, TypeOK, Sayings
<1> QED BY <1>1, <1>3, <1>4, <1>5, <1>6, <1>7, <1>8, AttachedAlone, WorkerStep

\* The turn fails.
LEMMA TurnFailsInv == ASSUME IInv, NEW w \in Workers, TurnFails(w) PROVE IInv'
<1>1. run[w].pc \in Attached /\ Ends(w, FailPhase(store, run[w].phase), "failed")
  BY DEF TurnFails, InTurn, Attached
<1>2. GoodEffect(store, FailPhase(store, run[w].phase))
  BY <1>1, AttachedFacts, FailPhaseGood
<1> QED BY <1>1, <1>2, EndsInv DEF Sayings

\* The turn needs an approval.
LEMMA TurnParksInv == ASSUME IInv, NEW w \in Workers, TurnParks(w) PROVE IInv'
<1> DEFINE p == run[w].phase
<1>1. run[w].pc \in Attached
  BY DEF TurnParks, InTurn, Attached
<1>2. CASE ParkRefused(store, p)
  BY <1>1, <1>2, RaisesInv DEF TurnParks
<1>3. CASE ~ParkRefused(store, p)
  <2>1. Ends(w, ParkPhase(store, p), "waiting")
    BY <1>3 DEF TurnParks
  <2>2. GoodEffect(store, ParkPhase(store, p))
    BY <1>1, <1>3, AttachedFacts, ParkPhaseGood
  <2> QED BY <1>1, <2>1, <2>2, EndsInv DEF Sayings
<1> QED BY <1>2, <1>3

\* The step asked a question.
LEMMA AsksInv == ASSUME IInv, NEW w \in Workers, Asks(w) PROVE IInv'
<1> DEFINE p == run[w].phase
<1>1. run[w].pc \in Attached
  BY DEF Asks, InCheck, Attached
<1>2. CASE ParkRefused(store, p)
  BY <1>1, <1>2, RaisesInv DEF Asks
<1>3. CASE ~ParkRefused(store, p)
  <2>1. Ends(w, WaitForAnswer(store, p), "question")
    BY <1>3 DEF Asks
  <2>2. GoodEffect(store, WaitForAnswer(store, p))
    BY <1>1, <1>3, AttachedFacts, WaitForAnswerGood
  <2> QED BY <1>1, <2>1, <2>2, EndsInv DEF Sayings
<1> QED BY <1>2, <1>3

\* The checker failed.
LEMMA VerifyFailsInv == ASSUME IInv, NEW w \in Workers, VerifyFails(w) PROVE IInv'
<1> DEFINE p == run[w].phase
           replans == store.checkpoint.replans < MaxReplans
           saying == IF ~replans THEN "waiting" ELSE IF run[w].path = "mint" THEN "failed" ELSE told
<1>1. run[w].pc \in Attached /\ RoomToReplan(store)
  BY DEF VerifyFails, InCheck, Attached
<1>2. CASE ReplanRefused(store, p)
  BY <1>1, <1>2, RaisesInv DEF VerifyFails
<1>3. CASE ~ReplanRefused(store, p)
  <2>1. Ends(w, BoundedReplan(store, p), saying)
    BY <1>3 DEF VerifyFails
  <2>2. GoodEffect(store, BoundedReplan(store, p))
    BY <1>1, <1>3, AttachedFacts, BoundedReplanGood
  <2>3. saying \in Sayings
    BY DEF IInv, TypeOK, Sayings
  <2> HIDE DEF saying
  <2> QED BY <1>1, <2>1, <2>2, <2>3, EndsInv
<1> QED BY <1>2, <1>3

\* A run that starts or goes on with a phase that now runs, all others stopped.
LEMMA TurnInv ==
  ASSUME IInv, NEW w \in Workers, run[w].pc \in Attached \/ live = NoWorker, up,
         NEW p \in Phases, NEW k \in Workers \cup {NoWorker},
         NEW path \in {"none", "mint", "resume", "rest"}, NEW todo \in SUBSET Phases,
         Good(store, store'), store'.job.status \in OpenJob,
         \A q \in Phases : store'.phase[q].status = "running" => q = p,
         \/ store'.phase[p].status = "running" /\ token'[p] = w /\ k = w
         \/ store'.phase[p].status \in TerminalPhase,
         path = "mint" => \A q \in todo : store'.phase[q].status # "absent",
         token' \in [Phases -> Workers \cup {NoWorker}],
         run' = [run EXCEPT ![w] = Turn(w, p, k, path, todo)],
         up' = up, live' = w, told' = told
  PROVE  IInv'
<1> DEFINE r == Turn(w, p, k, path, todo)
<1>1. /\ r \in RunType
      /\ r.pc = "turn" /\ r.phase = p /\ r.token = k /\ r.path = path /\ r.todo = todo
  BY DEF Turn, RunType, Attached
<1> HIDE DEF r
<1>2. run'[w] = r /\ told \in Sayings
  BY DEF IInv, TypeOK, Sayings, r
<1>3. store'.job.status # "none"
  BY DEF OpenJob
<1>4. BusyInv(w)'
  BY <1>1, <1>2, <1>3 DEF BusyInv
<1>5. AttachedInv(w)'
  BY <1>1, <1>2 DEF AttachedInv
<1>6. \A u \in Workers : u # w => run[u].pc \notin Attached
  BY AttachedAlone
<1> QED BY <1>1, <1>2, <1>4, <1>5, <1>6, WorkerStep DEF r

\* The phase completes, and the next one starts or the worker ends.
LEMMA CompletesInv == ASSUME IInv, NEW w \in Workers, Completes(w) PROVE IInv'
<1> DEFINE p    == run[w].phase
           done == CompletePhase(store, p)
           s1   == done.end
           rest == Remaining(w, s1)
           next == Smallest(rest)
           f    == StartPhase(s1, next)
           e    == Then(done, f)
           path == IF run[w].path = "mint" THEN "mint" ELSE "rest"
<1>1. run[w].pc \in Attached
  BY DEF Completes, InCheck, Attached
<1>2. /\ StoreInv(store) /\ BusyInv(w) /\ AttachedInv(w) /\ run[w] \in RunType /\ p \in Phases
      /\ store.phase[p].status \in {"running"} \cup TerminalPhase
      /\ store.phase[p].status # "absent"
  BY <1>1, AttachedFacts
<1>3. CASE CompleteRefused(store, p)
  <2>1. Ends(w, FailPhase(store, p), "failed")
    BY <1>3 DEF Completes
  <2>2. GoodEffect(store, FailPhase(store, p))
    BY <1>2, FailPhaseGood
  <2> QED BY <1>1, <2>1, <2>2, EndsInv DEF Sayings
<1>4. CASE ~CompleteRefused(store, p)
  <2>1. /\ GoodEffect(store, done)
        /\ s1.phase[p].status = "done"
        /\ \A q \in Phases : q # p => s1.phase[q] = store.phase[q]
    BY <1>2, <1>4, CompletePhaseGood
  <2>2. Good(store, s1) /\ StoreInv(s1)
    BY <2>1 DEF GoodEffect, Good
  <2>3. \A q \in Phases : s1.phase[q].status # "running"
    BY <1>2, <2>1 DEF AttachedInv
  <2>4. CASE rest = {}
    <3>1. Ends(w, done, "done")
      BY <1>4, <2>4 DEF Completes
    <3> QED BY <1>1, <2>1, <3>1, EndsInv DEF Sayings
  <2>5. rest # {} => next \in rest /\ next \in Phases /\ rest \subseteq Phases
    <3>1. rest \in SUBSET Phases
      BY <1>2 DEF Remaining, In, RunType
    <3> HIDE DEF rest
    <3> QED BY <3>1, SmallestOf
  <2>6. CASE rest # {} /\ ~StartRefused(s1, next)
    <3>1. \/ /\ store' = e.end
             /\ token' = [token EXCEPT ![next] = w]
             /\ run' = [run EXCEPT ![w] = Turn(w, next, w, path, rest \ {next})]
             /\ UNCHANGED <<up, live, told>>
          \/ CutShort(e)
      BY <1>4, <2>6 DEF Completes
    <3>2. path = "mint" => \A q \in rest : store.phase[q].status # "absent"
      BY <1>2 DEF Remaining, BusyInv
    <3>3. path \in {"none", "mint", "resume", "rest"}
      OBVIOUS
    <3> HIDE DEF rest, next, s1, done, path
    <3>4. /\ GoodEffect(s1, f)
          /\ f.end.job = [status |-> "running", current |-> next]
          /\ f.end.phase[next].status = "running"
          /\ \A q \in Phases : q # next => f.end.phase[q] = s1.phase[q]
      BY <2>2, <2>3, <2>5, <2>6, StartPhaseGood
    <3> HIDE DEF f
    <3>5. GoodEffect(store, e) /\ e.end = f.end
      BY <2>1, <3>4, GoodThen DEF s1
    <3> HIDE DEF e
    <3>6. CASE CutShort(e)
      BY <3>5, <3>6, CutShortInv
    <3>7. CASE /\ store' = e.end
               /\ token' = [token EXCEPT ![next] = w]
               /\ run' = [run EXCEPT ![w] = Turn(w, next, w, path, rest \ {next})]
               /\ UNCHANGED <<up, live, told>>
      <4>1. /\ Good(store, store') /\ store'.job.status \in OpenJob
            /\ store'.phase[next].status = "running"
            /\ \A q \in Phases : store'.phase[q].status = "running" => q = next
        BY <2>3, <3>4, <3>5, <3>7 DEF GoodEffect, OpenJob
      <4>2. /\ token'[next] = w
            /\ token' \in [Phases -> Workers \cup {NoWorker}]
            /\ live' = w /\ up
        BY <1>2, <2>5, <2>6, <3>7 DEF IInv, TypeOK, AttachedInv, BusyInv
      <4>3. path = "mint" => \A q \in rest \ {next} : store'.phase[q].status # "absent"
        BY <2>5, <2>6, <3>2, <4>1 DEF Good
      <4>4. rest \ {next} \in SUBSET Phases
        BY <2>5, <2>6
      <4> QED BY <1>1, <2>5, <2>6, <3>3, <3>7, <4>1, <4>2, <4>3, <4>4, TurnInv
    <3> QED BY <3>1, <3>6, <3>7
  <2>7. CASE rest # {} /\ StartRefused(s1, next)
    <3>1. path # "mint"
      <4> SUFFICES ASSUME run[w].path = "mint" PROVE FALSE
        OBVIOUS
      <4>1. next \in run[w].todo /\ s1.phase[next].status \notin TerminalPhase
        BY <2>5, <2>7 DEF Remaining
      <4>2. s1.phase[next].status # "absent" /\ s1.phase[next] \in PhaseType
        BY <1>2, <2>2, <2>5, <2>7, <4>1 DEF BusyInv, Good, StoreInv, StoreType
      <4>3. s1.phase[next].status \in Startable
        BY <2>3, <2>5, <2>7, <4>1, <4>2 DEF PhaseType, Startable
      <4>4. s1.job.status # "cancelled"
        BY <2>2 DEF StoreInv
      <4> QED BY <2>7, <4>3, <4>4 DEF StartRefused
    <3>2. Ends(w, done, "error")
      BY <1>4, <2>7, <3>1 DEF Completes
    <3> QED BY <1>1, <2>1, <3>2, EndsInv DEF Sayings
  <2> QED BY <2>4, <2>6, <2>7
<1> QED BY <1>3, <1>4

\* The plan offered a choice.
LEMMA OffersChoiceInv == ASSUME IInv, NEW w \in Workers, OffersChoice(w) PROVE IInv'
<1> DEFINE done == CompletePhase(store, 1)
<1>1. run[w].pc \in Attached /\ run[w].phase = 1 /\ ~CompleteRefused(store, 1)
  BY DEF OffersChoice, InCheck, Attached
<1>2. 1 \in Phases /\ StoreInv(store) /\ store.phase[1].status # "absent"
  BY <1>1, AttachedFacts
<1>3. GoodEffect(store, done) /\ done.end.phase[1].status = "done"
  BY <1>1, <1>2, CompletePhaseGood
<1>4. Ends(w, done, "error")
  BY <1>3 DEF OffersChoice, ParkRefused, TerminalPhase
<1> QED BY <1>1, <1>3, <1>4, EndsInv DEF Sayings

\* A job is minted and its first phases started.
LEMMA RunAsJobInv == ASSUME IInv, NEW w \in Workers, RunAsJob(w) PROVE IInv'
<1>1. PICK plan \in FirstPlans, wiki \in {FALSE, Wiki} :
        LET research == plan[1] = "research"
            minted   == Minted(plan, wiki)
            first    == Then(minted, StartPhase(minted.end, 1))
            skipped  == Then(first, CompletePhase(first.end, 1))
            e        == IF research THEN Then(skipped, StartPhase(skipped.end, 2)) ELSE first
            p        == e.end.job.current
        IN \/ /\ store' = e.end
              /\ live' = w
              /\ token' = [q \in Phases |-> IF q <= p THEN w ELSE token[q]]
              /\ run' = [run EXCEPT ![w] = Turn(w, p, w, "mint", {q \in DOMAIN plan : q > p})]
              /\ UNCHANGED <<up, told>>
           \/ CutShort(e)
  BY DEF RunAsJob
<1> DEFINE research == plan[1] = "research"
           minted   == Minted(plan, wiki)
           f1       == StartPhase(minted.end, 1)
           first    == Then(minted, f1)
           f2       == CompletePhase(first.end, 1)
           skipped  == Then(first, f2)
           f3       == StartPhase(skipped.end, 2)
           third    == Then(skipped, f3)
           e        == IF research THEN third ELSE first
           p        == e.end.job.current
           todo     == {q \in DOMAIN plan : q > p}
<1>2. \/ /\ store' = e.end
         /\ live' = w
         /\ token' = [q \in Phases |-> IF q <= p THEN w ELSE token[q]]
         /\ run' = [run EXCEPT ![w] = Turn(w, p, w, "mint", todo)]
         /\ UNCHANGED <<up, told>>
      \/ CutShort(e)
  BY <1>1
<1>3. /\ up /\ live = NoWorker /\ store.job.status = "none"
      /\ token \in [Phases -> Workers \cup {NoWorker}]
  BY DEF RunAsJob, CanStream, SessionFree, IInv, TypeOK
<1>4. /\ 1 \in Phases /\ 2 \in Phases /\ 1 \in DOMAIN plan /\ 2 \in DOMAIN plan
      /\ todo \in SUBSET Phases
  BY PlanFacts, RowsAssumption DEF Phases
<1>5. /\ GoodEffect(EmptyStore, minted)
      /\ minted.end.job.status = "queued"
      /\ \A q \in DOMAIN plan : q \in Phases /\ minted.end.phase[q].status = "queued"
      /\ \A q \in Phases : minted.end.phase[q].status # "running"
  BY MintedGood, SwitchesAssumption
<1> HIDE DEF minted
<1>6. StoreInv(minted.end) /\ ~StartRefused(minted.end, 1)
  BY <1>4, <1>5 DEF GoodEffect, Good, StartRefused, Startable
<1>7. /\ GoodEffect(minted.end, f1)
      /\ f1.end.job = [status |-> "running", current |-> 1]
      /\ f1.end.phase[1].status = "running"
      /\ \A q \in Phases : q # 1 => f1.end.phase[q] = minted.end.phase[q]
  BY <1>4, <1>5, <1>6, StartPhaseGood
<1> HIDE DEF f1
<1>8. GoodEffect(EmptyStore, first) /\ first.end = f1.end
  BY <1>5, <1>7, GoodThen
<1> HIDE DEF first
<1>9. /\ GoodEffect(EmptyStore, e)
      /\ e.end.job.status = "running" /\ p \in Phases
      /\ e.end.phase[p].status = "running"
      /\ \A q \in Phases : e.end.phase[q].status = "running" => q = p
      /\ \A q \in DOMAIN plan : e.end.phase[q].status # "absent"
  <2>1. CASE ~research
    <3>1. e = first /\ p = 1
      BY <1>7, <1>8, <2>1
    <3>2. \A q \in Phases : first.end.phase[q].status = "running" => q = 1
      BY <1>5, <1>7, <1>8
    <3>3. \A q \in DOMAIN plan : first.end.phase[q].status # "absent"
      BY <1>5, <1>7, <1>8
    <3> HIDE DEF e, p
    <3> QED BY <1>4, <1>7, <1>8, <3>1, <3>2, <3>3
  <2>2. CASE research
    <3>1. StoreInv(first.end) /\ ~CompleteRefused(first.end, 1) /\ first.end.phase[1].status # "absent"
      BY <1>7, <1>8 DEF GoodEffect, Good, CompleteRefused
    <3>2. /\ GoodEffect(first.end, f2)
          /\ f2.end.phase[1].status = "done"
          /\ \A q \in Phases : q # 1 => f2.end.phase[q] = first.end.phase[q]
      BY <1>4, <3>1, CompletePhaseGood
    <3> HIDE DEF f2
    <3>3. GoodEffect(EmptyStore, skipped) /\ skipped.end = f2.end
      BY <1>8, <3>2, GoodThen
    <3> HIDE DEF skipped
    <3>4. \A q \in Phases : skipped.end.phase[q].status # "running"
      BY <1>5, <1>7, <1>8, <3>2, <3>3
    <3>5. StoreInv(skipped.end) /\ skipped.end.phase[2].status = "queued"
      BY <1>4, <1>5, <1>7, <1>8, <3>2, <3>3 DEF GoodEffect, Good
    <3>6. ~StartRefused(skipped.end, 2)
      BY <3>5 DEF StartRefused, Startable, StoreInv
    <3>7. /\ GoodEffect(skipped.end, f3)
          /\ f3.end.job = [status |-> "running", current |-> 2]
          /\ f3.end.phase[2].status = "running"
          /\ \A q \in Phases : q # 2 => f3.end.phase[q] = skipped.end.phase[q]
      BY <1>4, <3>4, <3>5, <3>6, StartPhaseGood
    <3> HIDE DEF f3
    <3>8. GoodEffect(EmptyStore, third) /\ third.end = f3.end
      BY <3>3, <3>7, GoodThen
    <3> HIDE DEF third
    <3>9. e = third /\ p = 2
      BY <2>2, <3>7, <3>8
    <3>10. \A q \in DOMAIN plan : third.end.phase[q].status # "absent"
      <4> TAKE q \in DOMAIN plan
      <4>1. q \in Phases /\ minted.end.phase[q].status = "queued"
        BY <1>5
      <4>2. CASE q = 1
        BY <1>4, <3>2, <3>3, <3>7, <3>8, <4>2
      <4>3. CASE q # 1
        BY <1>7, <1>8, <3>2, <3>3, <3>7, <3>8, <4>1, <4>3
      <4> QED BY <4>2, <4>3
    <3>11. third.end.job.status = "running" /\ third.end.phase[2].status = "running"
      BY <3>7, <3>8
    <3>12. \A q \in Phases : third.end.phase[q].status = "running" => q = 2
      BY <3>4, <3>7, <3>8
    <3> HIDE DEF e, p
    <3> QED BY <1>4, <3>8, <3>9, <3>10, <3>11, <3>12
  <2> QED BY <2>1, <2>2
<1>10. CASE CutShort(e)
  BY <1>9, <1>10, CutShortInv
<1>11. CASE /\ store' = e.end
            /\ live' = w
            /\ token' = [q \in Phases |-> IF q <= p THEN w ELSE token[q]]
            /\ run' = [run EXCEPT ![w] = Turn(w, p, w, "mint", todo)]
            /\ UNCHANGED <<up, told>>
  <2>1. \A u \in Workers : run[u].pc = "idle"
    BY <1>3 DEF IInv, RunInv, BusyInv
  <2> HIDE DEF e, p, todo
  <2> DEFINE r == Turn(w, p, w, "mint", todo)
  <2>2. StoreInv(store') /\ store' \in StoreType
    BY <1>9, <1>11 DEF GoodEffect, Good, StoreInv
  <2>3. /\ r \in RunType
        /\ r.phase = p /\ r.token = w /\ r.todo = todo
    BY <1>4, <1>9 DEF Turn, RunType, Attached
  <2> HIDE DEF r
  <2>4. run' = [run EXCEPT ![w] = r] /\ run \in [Workers -> RunType]
    BY <1>11 DEF r, IInv, TypeOK
  <2>5. run'[w] = r /\ \A u \in Workers : u # w => run'[u].pc = "idle"
    BY <2>1, <2>4
  <2>6. token'[p] = w /\ token' \in [Phases -> Workers \cup {NoWorker}]
    BY <1>3, <1>9, <1>11, RowsAssumption DEF Phases
  <2>7. TypeOK'
    BY <1>11, <2>2, <2>3, <2>4, <2>6 DEF IInv, TypeOK
  <2>8. BusyInv(w)'
    BY <1>3, <1>9, <1>11, <2>3, <2>5 DEF BusyInv, todo
  <2>9. AttachedInv(w)'
    BY <1>9, <1>11, <2>3, <2>5, <2>6 DEF AttachedInv, OpenJob
  <2>10. ASSUME NEW u \in Workers
         PROVE  /\ run'[u].pc # "idle" => BusyInv(u)'
                /\ run'[u].pc \in Attached => AttachedInv(u)'
    BY <2>5, <2>8, <2>9 DEF Attached
  <2>11. RunInv'
    BY <2>10 DEF RunInv
  <2> QED BY <2>2, <2>7, <2>11 DEF IInv
<1> QED BY <1>2, <1>10, <1>11

\* A job about the wiki is parked before a phase has run.
LEMMA NeedsSourcesInv == ASSUME IInv, NEW w \in Workers, NeedsSources(w) PROVE IInv'
<1>1. PICK plan \in FirstPlans :
        LET minted == MintJob(plan, plan[1] = "research")
            e      == Then(minted, ParkForSources(minted.end, FormulateOf(plan)))
        IN \/ store' = e.end /\ told' = "waiting" /\ UNCHANGED <<up, live, token, run>>
           \/ CutShort(e)
  BY DEF NeedsSources
<1> DEFINE minted == MintJob(plan, plan[1] = "research")
           e      == Then(minted, ParkForSources(minted.end, FormulateOf(plan)))
<1>2. GoodEffect(EmptyStore, e)
  BY ParkForSourcesGood
<1>3. \/ store' = e.end /\ told' = "waiting" /\ UNCHANGED <<up, live, token, run>>
      \/ CutShort(e)
  BY <1>1
<1> HIDE DEF e
<1>4. CASE CutShort(e)
  BY <1>2, <1>4, CutShortInv
<1>5. CASE store' = e.end /\ told' = "waiting" /\ UNCHANGED <<up, live, token, run>>
  <2>1. StoreInv(store') /\ store' \in StoreType
    BY <1>2, <1>5 DEF GoodEffect, Good, StoreInv
  <2>2. TypeOK'
    BY <1>5, <2>1 DEF IInv, TypeOK
  <2>3. \A u \in Workers : run'[u].pc = "idle"
    BY <1>5 DEF NeedsSources, IInv, RunInv, BusyInv
  <2>4. RunInv'
    BY <2>3 DEF RunInv, Attached
  <2> QED BY <2>1, <2>2, <2>4 DEF IInv
<1> QED BY <1>3, <1>4, <1>5

\* The operator resumes, or answers.
LEMMA ResumeInv == ASSUME IInv, NEW w \in Workers, Resume(w) PROVE IInv'
<1> DEFINE p      == ContinuePhase(store)
           found  == ResumeAfterCrash(store)
           s1     == found.end
           starts == ~StartRefused(s1, p)
           f      == StartPhase(s1, p)
           e      == IF starts THEN Then(found, f) ELSE found
           holder == IF starts THEN w ELSE token[p]
<1>1. /\ up /\ live = NoWorker /\ Resumable(store) /\ StoreInv(store)
      /\ token \in [Phases -> Workers \cup {NoWorker}]
  BY DEF Resume, CanStream, SessionFree, IInv, TypeOK
<1>2. \/ /\ store' = e.end
         /\ live' = w
         /\ token' = [token EXCEPT ![p] = holder]
         /\ run' = [run EXCEPT ![w] = Turn(w, p, holder, "resume", {})]
         /\ UNCHANGED <<up, told>>
      \/ CutShort(e)
  BY DEF Resume
<1>3. /\ p \in Phases
      /\ GoodEffect(store, found)
      /\ s1.job.status \in OpenJob
      /\ \A q \in Phases : s1.phase[q].status # "running"
      /\ s1.phase[p].status \in Startable \cup TerminalPhase
  BY <1>1, ResumeAfterCrashGood
<1>4. StoreInv(s1)
  BY <1>3 DEF GoodEffect, Good
<1> HIDE DEF found, p
<1>5. /\ GoodEffect(store, e)
      /\ e.end.job.status \in OpenJob
      /\ \A q \in Phases : e.end.phase[q].status = "running" => q = p
      /\ starts => e.end.phase[p].status = "running"
      /\ ~starts => e.end.phase[p].status \in TerminalPhase
  <2>1. CASE starts
    <3>1. /\ GoodEffect(s1, f)
          /\ f.end.job = [status |-> "running", current |-> p]
          /\ f.end.phase[p].status = "running"
          /\ \A q \in Phases : q # p => f.end.phase[q] = s1.phase[q]
      BY <1>3, <1>4, <2>1, StartPhaseGood
    <3> HIDE DEF f
    <3>2. GoodEffect(store, Then(found, f)) /\ Then(found, f).end = f.end
      BY <1>3, <3>1, GoodThen
    <3>3. e = Then(found, f)
      BY <2>1
    <3> HIDE DEF e, starts
    <3> QED BY <1>3, <2>1, <3>1, <3>2, <3>3 DEF OpenJob
  <2>2. CASE ~starts
    <3>1. e = found
      BY <2>2
    <3>2. s1.phase[p].status \in TerminalPhase
      BY <1>3, <1>4, <2>2 DEF StartRefused, StoreInv
    <3> HIDE DEF e, starts
    <3> QED BY <1>3, <2>2, <3>1, <3>2
  <2> QED BY <2>1, <2>2
<1>6. holder \in Workers \cup {NoWorker} /\ (starts => holder = w)
  BY <1>1, <1>3
<1> HIDE DEF starts, e, holder
<1>7. CASE CutShort(e)
  BY <1>5, <1>7, CutShortInv
<1>8. CASE /\ store' = e.end
           /\ live' = w
           /\ token' = [token EXCEPT ![p] = holder]
           /\ run' = [run EXCEPT ![w] = Turn(w, p, holder, "resume", {})]
           /\ UNCHANGED <<up, told>>
  <2>1. Good(store, store')
    BY <1>5, <1>8 DEF GoodEffect
  <2>2. token' \in [Phases -> Workers \cup {NoWorker}] /\ token'[p] = holder
    BY <1>1, <1>3, <1>6, <1>8
  <2>3. \/ store'.phase[p].status = "running" /\ token'[p] = w /\ holder = w
        \/ store'.phase[p].status \in TerminalPhase
    BY <1>5, <1>6, <1>8, <2>2
  <2>4. /\ store'.job.status \in OpenJob
        /\ \A q \in Phases : store'.phase[q].status = "running" => q = p
        /\ up' = up /\ live' = w /\ told' = told
    BY <1>5, <1>8
  <2>5. /\ "resume" \in {"none", "mint", "resume", "rest"} /\ "resume" # "mint"
        /\ {} \in SUBSET Phases
    OBVIOUS
  <2> QED BY <1>1, <1>3, <1>6, <1>8, <2>1, <2>2, <2>3, <2>4, <2>5, TurnInv
<1> QED BY <1>2, <1>7, <1>8

\* The operator stops the worker.
LEMMA StopInv == ASSUME IInv, NEW w \in Workers, Stop(w) PROVE IInv'
<1> DEFINE e == KillSession(store)
           r == [run[w] EXCEPT !.pc = IF @ = "turn" THEN "stopTurn" ELSE "stopCheck"]
<1>1. /\ run[w].pc \in Attached
      /\ \/ /\ store' = e.end
            /\ live' = NoWorker
            /\ run' = [run EXCEPT ![w] = r]
            /\ UNCHANGED <<up, token, told>>
         \/ CutShort(e)
  BY DEF Stop
<1>2. GoodEffect(store, e) /\ run[w] \in RunType
  BY KillSessionGentle DEF GentleEffect, IInv, TypeOK
<1> HIDE DEF e
<1>3. CASE CutShort(e)
  BY <1>2, <1>3, CutShortInv
<1>4. CASE /\ store' = e.end
           /\ live' = NoWorker
           /\ run' = [run EXCEPT ![w] = r]
           /\ UNCHANGED <<up, token, told>>
  <2>1. /\ r \in RunType /\ r.pc \notin Attached
        /\ r.phase = run[w].phase /\ r.token = run[w].token
        /\ r.path = run[w].path /\ r.todo = run[w].todo
    BY <1>2 DEF RunType, Attached, Detached
  <2> HIDE DEF r
  <2>2. Good(store, store')
    BY <1>2, <1>4 DEF GoodEffect
  <2>3. run'[w] = r
    BY <1>4 DEF IInv, TypeOK
  <2>4. BusyInv(w)'
    BY <1>1, <1>4, <2>1, <2>2, <2>3, BusyStays DEF Attached
  <2>5. /\ live' \in Workers \cup {NoWorker} /\ told' \in Sayings /\ up' = up
        /\ token' \in [Phases -> Workers \cup {NoWorker}]
    BY <1>4 DEF IInv, TypeOK, Sayings
  <2> QED BY <1>1, <1>4, <2>1, <2>2, <2>4, <2>5, AttachedAlone, WorkerStep
<1> QED BY <1>1, <1>3, <1>4

\* The effect of Unwind: a stop of the worker's phase, or nothing.
LEMMA UnwindEffect ==
  ASSUME IInv, NEW w \in Workers, Unwind(w)
  PROVE  LET e == IF run[w].pc = "stopTurn" /\ ~Stale(w)
                  THEN KillPhase(store, run[w].phase, "operator_kill") ELSE NoEffect(store)
         IN /\ GentleEffect(store, e)
            /\ Ends(w, e, told)
            /\ store.job.status \in OpenJob => e.end.job.status \in OpenJob
            /\ \A q \in Phases :
                 \/ e.end.phase[q] = store.phase[q]
                 \/ /\ q = run[w].phase /\ ~Stale(w)
                    /\ store.phase[q].status = "running" /\ e.end.phase[q].status = "queued"
<1> DEFINE p == run[w].phase
           e == IF run[w].pc = "stopTurn" /\ ~Stale(w)
                THEN KillPhase(store, p, "operator_kill") ELSE NoEffect(store)
<1>1. StoreInv(store) /\ p \in Phases /\ Ends(w, e, told)
  BY DEF Unwind, Detached, IInv, RunInv, BusyInv
<1>2. CASE run[w].pc = "stopTurn" /\ ~Stale(w)
  <2> DEFINE k == KillPhase(store, p, "operator_kill")
  <2>1. /\ GentleEffect(store, k)
        /\ store.phase[p].status # "running" => k.end = store
        /\ store.phase[p].status = "running" => k.end.phase[p].status = "queued"
        /\ \A q \in Phases : q # p => k.end.phase[q] = store.phase[q]
        /\ store.job.status \in OpenJob => k.end.job.status \in OpenJob
    <3>1. "operator_kill" \in Reasons
      BY DEF Reasons
    <3> QED BY <1>1, <3>1, KillPhaseGentle
  <2>2. e = k
    BY <1>2
  <2> HIDE DEF k, e
  <2> QED BY <1>1, <1>2, <2>1, <2>2 DEF e
<1>3. CASE ~(run[w].pc = "stopTurn" /\ ~Stale(w))
  BY <1>1, <1>3, NoEffectGentle, NoEffectGood
<1> QED BY <1>2, <1>3

\* The stopped worker unwinds: a stale run leaves the phase of the new one alone.
LEMMA UnwindInv == ASSUME IInv, NEW w \in Workers, Unwind(w) PROVE IInv'
<1> DEFINE p == run[w].phase
           e == IF run[w].pc = "stopTurn" /\ ~Stale(w)
                THEN KillPhase(store, p, "operator_kill") ELSE NoEffect(store)
<1>1. /\ GentleEffect(store, e)
      /\ Ends(w, e, told)
      /\ store.job.status \in OpenJob => e.end.job.status \in OpenJob
      /\ \A q \in Phases :
           \/ e.end.phase[q] = store.phase[q]
           \/ /\ q = p /\ ~Stale(w)
              /\ store.phase[q].status = "running" /\ e.end.phase[q].status = "queued"
  BY UnwindEffect
<1>2. /\ run[w].pc # "idle" /\ BusyInv(w)
      /\ run \in [Workers -> RunType] /\ told \in Sayings /\ live \in Workers \cup {NoWorker}
      /\ up \in BOOLEAN /\ token \in [Phases -> Workers \cup {NoWorker}]
  BY DEF Unwind, Detached, IInv, RunInv, TypeOK, Sayings
<1> HIDE DEF e
<1>3. CASE CutShort(e)
  BY <1>1, <1>3, CutShortInv DEF GentleEffect
<1>4. CASE store' = e.end /\ EndRun(w, told)
  <2>1. Good(store, store') /\ StoreInv(store') /\ store' \in StoreType
    BY <1>1, <1>4 DEF GentleEffect, GoodEffect, Good, StoreInv
  <2>2. /\ run' = [run EXCEPT ![w] = Idle]
        /\ live' = IF live = w THEN NoWorker ELSE live
        /\ told' = told /\ up' = up /\ token' = token
    BY <1>4 DEF EndRun
  <2>3. /\ run'[w].pc = "idle"
        /\ \A u \in Workers : u # w => run'[u] = run[u]
    BY <1>2, <2>2, IdleType
  <2>4. TypeOK'
    BY <1>2, <2>1, <2>2, IdleType DEF TypeOK, Sayings
  <2>5. ASSUME NEW u \in Workers, run'[u].pc # "idle"
        PROVE  BusyInv(u)'
    BY <2>1, <2>2, <2>3, <2>5, BusyStays
  <2>6. ASSUME NEW u \in Workers, run'[u].pc \in Attached
        PROVE  AttachedInv(u)'
    <3> DEFINE o == run[u].phase
    <3>1. u # w /\ run'[u] = run[u] /\ run[u].pc \in Attached /\ run[u].pc # "idle"
      BY <2>3, <2>6 DEF Attached
    <3>2. AttachedInv(u) /\ BusyInv(u) /\ o \in Phases
      BY <3>1, AttachedFacts
    <3>3. live' = u /\ store'.job.status \in OpenJob
      BY <1>1, <1>4, <2>2, <3>1, <3>2 DEF AttachedInv
    <3>4. \A q \in Phases : store'.phase[q].status = "running" => q = o
      BY <1>1, <1>4, <3>2 DEF AttachedInv
    <3>5. store.phase[o].status = "running" /\ p = o => Stale(w)
      <4> SUFFICES ASSUME store.phase[o].status = "running", p = o PROVE Stale(w)
        OBVIOUS
      <4>1. run[w].token = w
        BY <1>2 DEF BusyInv, TerminalPhase
      <4>2. token[p] = u
        BY <3>2 DEF AttachedInv, TerminalPhase
      <4> QED BY <3>1, <4>1, <4>2, WorkersAssumption DEF Stale
    <3>6. store'.phase[o].status = store.phase[o].status
      BY <1>1, <1>4, <3>2, <3>5
    <3> QED BY <2>2, <3>1, <3>2, <3>3, <3>4, <3>6 DEF AttachedInv
  <2>7. RunInv'
    BY <2>5, <2>6 DEF RunInv
  <2> QED BY <2>1, <2>4, <2>7 DEF IInv
<1> QED BY <1>1, <1>3, <1>4 DEF Ends

\* The server starts and repairs.
LEMMA BootInv == ASSUME IInv, Boot PROVE IInv'
<1> DEFINE e == StartUp(store)
<1>1. GoodEffect(store, e)
  BY StartUpGentle DEF IInv, GentleEffect
<1>2. \/ store' = e.end /\ up' = TRUE /\ UNCHANGED <<live, token, run, told>>
      \/ CutShort(e)
  BY DEF Boot
<1>3. \A w \in Workers : run[w].pc = "idle"
  BY DEF Boot, IInv, RunInv, BusyInv
<1> HIDE DEF e
<1>4. CASE CutShort(e)
  BY <1>1, <1>4, CutShortInv
<1>5. CASE store' = e.end /\ up' = TRUE /\ UNCHANGED <<live, token, run, told>>
  <2>1. StoreInv(store') /\ store' \in StoreType
    BY <1>1, <1>5 DEF GoodEffect, Good, StoreInv
  <2>2. TypeOK'
    BY <1>5, <2>1 DEF IInv, TypeOK
  <2>3. RunInv'
    BY <1>3, <1>5 DEF RunInv, Attached
  <2> QED BY <2>1, <2>2, <2>3 DEF IInv
<1> QED BY <1>2, <1>4, <1>5

\* The server dies.
LEMMA CrashInv == ASSUME IInv, Crash PROVE IInv'
BY PowerOffInv DEF Crash, IInv

\* Every step keeps the invariant.
LEMMA NextInv == IInv /\ [Next]_vars => IInv'
<1> SUFFICES ASSUME IInv, [Next]_vars PROVE IInv'
  OBVIOUS
<1>1. CASE Crash
  BY <1>1, CrashInv
<1>2. CASE Boot
  BY <1>2, BootInv
<1>3. ASSUME NEW w \in Workers, Step(w)
      PROVE  IInv'
  BY <1>3, RunAsJobInv, NeedsSourcesInv, ResumeInv, TurnDoneInv, TurnFailsInv, TurnParksInv, AsksInv,
     VerifyFailsInv, CompletesInv, OffersChoiceInv, StopInv, UnwindInv DEF Step
<1>4. CASE UNCHANGED vars
  BY <1>4 DEF vars, IInv, TypeOK, RunInv, BusyInv, AttachedInv
<1> QED BY <1>1, <1>2, <1>3, <1>4 DEF Next

-----------------------------------------------------------------------------
(* The theorems.                                                            *)

\* The inductive invariant holds in every reachable state.
LEMMA Invariant == Spec => []IInv
BY InitInv, NextInv, PTL DEF Spec

\* Every variable keeps its type; in particular no checkpoint counts more than
\* MaxReplans replans, whatever is stopped, resumed or cut short
\* (run_bounded_auto_replan's cap).
THEOREM TypeCorrect == Spec => []TypeOK
<1>1. IInv => TypeOK
  BY DEF IInv
<1> QED BY <1>1, Invariant, PTL

\* At most one phase is running, for any number of workers, plans and replans, and
\* even when crashes fall between the commits of an operation.
THEOREM OneRunningPhaseHolds == Spec => []OneRunningPhase
<1>1. IInv => OneRunningPhase
  BY DEF IInv, StoreInv, OneRunningPhase, In
<1> QED BY <1>1, Invariant, PTL

\* A step of a worker that works for the session starts from an open job.
LEMMA WorkersMoveOpenJobs ==
  ASSUME IInv, NEW w \in Workers, Step(w), ~Unwind(w)
  PROVE  store.job.status \notin TerminalJob
<1>1. CASE run[w].pc \in Attached
  <2>1. store.job.status \in OpenJob
    BY <1>1 DEF IInv, RunInv, AttachedInv
  <2> QED BY <2>1 DEF OpenJob, TerminalJob
<1>2. CASE RunAsJob(w) \/ NeedsSources(w) \/ Resume(w)
  BY <1>2 DEF RunAsJob, NeedsSources, Resume, Resumable, OpenJob, TerminalJob
<1> QED BY <1>1, <1>2 DEF Step, TurnDone, TurnFails, TurnParks, Asks, VerifyFails, Completes,
                          OffersChoice, Stop, InTurn, InCheck, Attached

\* Crashes, start-up repairs, Stop and its unwinding change the store gently.
LEMMA StopsAreGentle ==
  ASSUME IInv, Crash \/ Boot \/ \E w \in Workers : Stop(w) \/ Unwind(w)
  PROVE  Gentle(store, store')
<1>0. StoreInv(store)
  BY DEF IInv
<1>1. CASE Crash
  BY <1>1 DEF Crash, Gentle
<1>2. CASE Boot
  BY <1>0, <1>2, StartUpGentle DEF Boot, GentleEffect, CutShort
<1>3. ASSUME NEW w \in Workers, Stop(w)
      PROVE  Gentle(store, store')
  BY <1>0, <1>3, KillSessionGentle DEF Stop, GentleEffect, CutShort
<1>4. ASSUME NEW w \in Workers, Unwind(w)
      PROVE  Gentle(store, store')
  BY <1>4, UnwindEffect DEF Ends, CutShort, GentleEffect
<1> QED BY <1>1, <1>2, <1>3, <1>4

\* A job that is done, failed or cancelled keeps that outcome: no late worker, no
\* Stop, resume or repair reopens or rewrites it.
THEOREM OutcomeFinal == Spec => OutcomeIsFinal
<1> DEFINE Kept == store.job.status \in TerminalJob => store'.job.status = store.job.status
<1>1. IInv /\ [Next]_vars => [Kept]_vars
  <2> SUFFICES ASSUME IInv, Next PROVE Kept
    OBVIOUS
  <2>1. CASE Crash \/ Boot \/ \E w \in Workers : Stop(w) \/ Unwind(w)
    BY <2>1, StopsAreGentle DEF Gentle
  <2>2. ASSUME NEW w \in Workers, Step(w), ~Unwind(w)
        PROVE  Kept
    BY <2>2, WorkersMoveOpenJobs
  <2> QED BY <2>1, <2>2 DEF Next
<1> QED BY <1>1, Invariant, PTL DEF Spec, OutcomeIsFinal

\* Stop, a crash, the start-up repair and the unwinding of a stopped worker never
\* make a phase failed or cancelled.
THEOREM StopNeverKillsHolds == Spec => StopNeverKills
<1> DEFINE Stops == Crash \/ Boot \/ \E w \in Workers : Stop(w) \/ Unwind(w)
           Kept == \A p \in Phases : store'.phase[p].status \in {"failed", "cancelled"}
                                      => store'.phase[p].status = store.phase[p].status
<1>1. IInv /\ [Next]_vars => [Stops => Kept]_vars
  BY StopsAreGentle DEF Gentle
<1> QED BY <1>1, Invariant, PTL DEF Spec, StopNeverKills

-----------------------------------------------------------------------------
(* The order of the phases, and the replan counter.                         *)

\* The phases a run or an approval card stands on.
Active(s) == In(s, "running") \cup In(s, "waiting")

\* Every phase before p is over, or is the Research a job about the wiki does later.
Ahead(s, p) ==
  \A q \in Phases : q < p =>
    \/ s.phase[q].status \in TerminalPhase
    \/ Wiki /\ s.phase[q].status # "absent" /\ s.phase[q].lane = "research"

\* One phase is active at most, and no phase before it, nor before the one an open
\* job points at, is still to be done.
OrderInv(s) ==
  /\ s \in StoreType
  /\ \A p, q \in Active(s) : p = q
  /\ \A p \in Active(s) : Ahead(s, p)
  /\ s.job.status \in OpenJob => Ahead(s, s.job.current)

\* From store s to store c: the order holds, what was ahead stays ahead, no row is
\* added and no replan counted.
Calm(s, c) ==
  /\ OrderInv(c)
  /\ \A p \in Phases : Ahead(s, p) => Ahead(c, p)
  /\ \A p \in Phases : c.phase[p].status = "absent" <=> s.phase[p].status = "absent"
  /\ c.checkpoint.replans = s.checkpoint.replans

CalmEffect(s, e) == \A c \in e.cuts \cup {e.end} : Calm(s, c)

\* Staying put is calm.
LEMMA CalmRefl == ASSUME NEW s, OrderInv(s) PROVE Calm(s, s)
BY DEF Calm

\* Calm steps compose.
LEMMA CalmTrans == ASSUME NEW s, NEW a, NEW b, Calm(s, a), Calm(a, b) PROVE Calm(s, b)
BY DEF Calm

\* So do calm effects.
LEMMA CalmThen ==
  ASSUME NEW s, NEW e, NEW f, CalmEffect(s, e), CalmEffect(e.end, f)
  PROVE  CalmEffect(s, Then(e, f)) /\ Then(e, f).end = f.end
<1>1. Calm(s, e.end)
  BY DEF CalmEffect
<1>2. \A c \in f.cuts \cup {f.end} : Calm(s, c)
  BY <1>1, CalmTrans DEF CalmEffect
<1> QED BY <1>2 DEF CalmEffect, Then, Effect

\* What writing one phase row leaves.
LEMMA PutPhaseForm ==
  ASSUME NEW s \in StoreType, NEW p \in Phases, NEW status \in Statuses, NEW react \in Reacts
  PROVE  LET c == PutPhase(s, p, status, react)
         IN /\ c \in StoreType
            /\ c.job = s.job
            /\ c.checkpoint = s.checkpoint
            /\ c.phase[p].status = status
            /\ c.phase[p].react = react
            /\ c.phase[p].lane = s.phase[p].lane
            /\ \A q \in Phases : q # p => c.phase[q] = s.phase[q]
<1> DEFINE c == PutPhase(s, p, status, react)
<1>1. s.phase \in [Phases -> PhaseType] /\ s.phase[p] \in PhaseType
  BY DEF StoreType
<1>2. /\ c = [s EXCEPT !.phase = [s.phase EXCEPT ![p] = c.phase[p]]]
      /\ c.phase[p] = [s.phase[p] EXCEPT !.status = status, !.react = react]
      /\ c.phase[p] \in PhaseType
      /\ c.phase[p].status = status /\ c.phase[p].react = react
      /\ c.phase[p].lane = s.phase[p].lane
  BY <1>1 DEF PutPhase, PhaseType, StoreType, Statuses, Reacts, TerminalPhase
<1> HIDE DEF c
<1>3. /\ c \in StoreType /\ c.job = s.job /\ c.checkpoint = s.checkpoint
      /\ \A q \in Phases : q # p => c.phase[q] = s.phase[q]
  BY <1>1, <1>2 DEF StoreType
<1> QED BY <1>2, <1>3 DEF c

\* What writing the job row leaves.
LEMMA PutJobForm ==
  ASSUME NEW s \in StoreType, NEW p \in Phases,
         NEW status \in {"queued", "running", "waiting", "done", "failed"}
  PROVE  LET c == PutJob(s, status, p)
         IN /\ c \in StoreType
            /\ c.job = [status |-> status, current |-> p]
            /\ c.phase = s.phase
            /\ c.checkpoint = s.checkpoint
BY DEF PutJob, StoreType, JobType, OpenJob, TerminalJob

\* What writing a checkpoint leaves.
LEMMA CheckpointForm ==
  ASSUME NEW s \in StoreType, NEW p \in Phases, NEW parked \in BOOLEAN, NEW reason \in Reasons
  PROVE  LET c == Checkpoint(s, p, parked, reason)
         IN /\ c \in StoreType
            /\ c.job = s.job
            /\ c.phase = s.phase
            /\ c.checkpoint.phase = p
            /\ c.checkpoint.parked = parked
            /\ c.checkpoint.reason = reason
            /\ c.checkpoint.replans = s.checkpoint.replans
BY DEF Checkpoint, StoreType, CheckpointType

\* Writing one phase row calmly: it is made active only when it is next.
LEMMA PutPhaseCalm ==
  ASSUME NEW s, OrderInv(s), NEW p \in Phases, NEW status \in Statuses, NEW react \in Reacts,
         s.phase[p].status # "absent",
         s.phase[p].status \in TerminalPhase => status \in TerminalPhase,
         status \in {"running", "waiting"} => Ahead(s, p) /\ \A q \in Active(s) : q = p
  PROVE  Calm(s, PutPhase(s, p, status, react))
<1> DEFINE c == PutPhase(s, p, status, react)
<1>1. /\ c \in StoreType /\ c.job = s.job /\ c.checkpoint = s.checkpoint
      /\ c.phase[p].status = status /\ c.phase[p].lane = s.phase[p].lane
      /\ \A q \in Phases : q # p => c.phase[q] = s.phase[q]
  BY PutPhaseForm DEF OrderInv
<1> HIDE DEF c
<1>2. \A q \in Phases : c.phase[q].status = "absent" <=> s.phase[q].status = "absent"
  BY <1>1 DEF Statuses, TerminalPhase
<1>3. \A q \in Phases : Ahead(s, q) => Ahead(c, q)
  <2>1. \A q \in Phases : /\ s.phase[q].status \in TerminalPhase => c.phase[q].status \in TerminalPhase
                          /\ c.phase[q].lane = s.phase[q].lane
    BY <1>1
  <2> QED BY <1>2, <2>1 DEF Ahead
<1>4. \A q \in Active(c) : q \in Active(s) \/ (q = p /\ status \in {"running", "waiting"})
  BY <1>1 DEF Active, In
<1>5. \A q, r \in Active(c) : q = r
  BY <1>1, <1>4 DEF OrderInv
<1>6. \A q \in Active(c) : Ahead(c, q)
  <2>1. Active(c) \subseteq Phases
    BY DEF Active, In
  <2> QED BY <1>3, <1>4, <2>1 DEF OrderInv
<1>7. c.job.status \in OpenJob => Ahead(c, c.job.current)
  <2>1. c.job.current \in Phases \/ c.job.current = NoPhase
    BY <1>1 DEF StoreType, JobType
  <2>2. \A q \in Phases : ~(q < NoPhase)
    BY RowsAssumption DEF Phases, NoPhase
  <2>3. c.job.current = NoPhase => Ahead(c, c.job.current)
    BY <2>2 DEF Ahead
  <2> QED BY <1>1, <1>3, <2>1, <2>3 DEF OrderInv
<1>8. OrderInv(c)
  BY <1>1, <1>5, <1>6, <1>7 DEF OrderInv
<1> QED BY <1>1, <1>2, <1>3, <1>8 DEF Calm, c

\* Writing the job row calmly: an open job points at a phase that is next.
LEMMA PutJobCalm ==
  ASSUME NEW s, OrderInv(s), NEW p \in Phases,
         NEW status \in {"queued", "running", "waiting", "done", "failed"},
         status \in OpenJob => Ahead(s, p)
  PROVE  Calm(s, PutJob(s, status, p))
<1> DEFINE c == PutJob(s, status, p)
<1>1. /\ c \in StoreType /\ c.job = [status |-> status, current |-> p]
      /\ c.phase = s.phase /\ c.checkpoint = s.checkpoint
  <2>1. s \in StoreType
    BY DEF OrderInv
  <2> QED BY <2>1, PutJobForm
<1> HIDE DEF c
<1>2. \A q : Ahead(s, q) <=> Ahead(c, q)
  BY <1>1 DEF Ahead
<1>3. Active(c) = Active(s)
  BY <1>1 DEF Active, In
<1>4. OrderInv(c)
  BY <1>1, <1>2, <1>3 DEF OrderInv
<1> QED BY <1>1, <1>2, <1>4 DEF Calm, c

\* Writing a checkpoint is calm.
LEMMA CheckpointCalm ==
  ASSUME NEW s, OrderInv(s), NEW p \in Phases, NEW parked \in BOOLEAN, NEW reason \in Reasons
  PROVE  Calm(s, Checkpoint(s, p, parked, reason))
<1> DEFINE c == Checkpoint(s, p, parked, reason)
<1>1. /\ c \in StoreType /\ c.job = s.job /\ c.phase = s.phase
      /\ c.checkpoint.replans = s.checkpoint.replans
  BY CheckpointForm DEF OrderInv
<1> HIDE DEF c
<1>2. \A q : Ahead(s, q) <=> Ahead(c, q)
  BY <1>1 DEF Ahead
<1>3. Active(c) = Active(s)
  BY <1>1 DEF Active, In
<1>4. OrderInv(c)
  BY <1>1, <1>2, <1>3 DEF OrderInv
<1> QED BY <1>1, <1>2, <1>4 DEF Calm, c

\* Also one that keeps the prior reason.
LEMMA InheritingCalm ==
  ASSUME NEW s, OrderInv(s), NEW p \in Phases, NEW parked \in BOOLEAN
  PROVE  Calm(s, CheckpointInheriting(s, p, parked))
<1>1. s.checkpoint.reason \in Reasons
  BY DEF OrderInv, StoreType, CheckpointType
<1> QED BY <1>1, CheckpointCalm DEF CheckpointInheriting

\* Smallest is a least member.
LEMMA SmallestLeast ==
  ASSUME NEW S \in SUBSET Phases, S # {}
  PROVE  Smallest(S) \in S /\ \A q \in S : Smallest(S) <= q
<1>1. S \in SUBSET Nat
  BY RowsAssumption DEF Phases
<1> QED BY <1>1, LeastNat DEF Smallest

-----------------------------------------------------------------------------
(* The operations are calm, wherever a crash cuts them short.               *)

\* Doing nothing.
LEMMA NoEffectCalm == ASSUME NEW s, OrderInv(s) PROVE CalmEffect(s, NoEffect(s))
BY CalmRefl DEF CalmEffect, NoEffect, Effect

\* start_phase, on the phase whose turn it is.
LEMMA StartPhaseCalm ==
  ASSUME NEW s, OrderInv(s), NEW p \in Phases, ~StartRefused(s, p),
         Ahead(s, p), \A q \in Active(s) : q = p
  PROVE  CalmEffect(s, StartPhase(s, p))
<1> DEFINE s1 == PutPhase(s, p, "running", "THINKING")
           s2 == PutJob(s1, "running", p)
<1>1. s.phase[p].status \notin TerminalPhase /\ s.phase[p].status # "absent"
  BY DEF StartRefused, Startable, TerminalPhase
<1>2. Calm(s, s1)
  BY <1>1, PutPhaseCalm DEF Statuses, Reacts
<1> HIDE DEF s1
<1>3. Calm(s1, s2)
  BY <1>2, PutJobCalm DEF Calm
<1>4. Calm(s, s2)
  BY <1>2, <1>3, CalmTrans
<1>5. StartPhase(s, p) = [cuts |-> {s1}, end |-> s2]
  BY DEF StartPhase, Effect, s1
<1> QED BY <1>2, <1>4, <1>5 DEF CalmEffect

\* complete_phase, while no other phase is active: the job goes on to the first
\* queued phase after it.
LEMMA CompletePhaseCalm ==
  ASSUME NEW s, StoreInv(s), OrderInv(s), NEW p \in Phases, ~CompleteRefused(s, p),
         s.phase[p].status # "absent", \A q \in Active(s) : q = p
  PROVE  CalmEffect(s, CompletePhase(s, p))
<1> DEFINE s1 == PutPhase(s, p, "done", "DONE")
           s2 == CheckpointInheriting(s1, p, FALSE)
           next == LaterQueued(s, p)
           s3 == IF next = {} THEN PutJob(s2, "done", p)
                 ELSE PutJob(s2, "running", Smallest(next))
<1>1. CASE s.phase[p].status = "done"
  BY <1>1, NoEffectCalm DEF CompletePhase
<1>2. CASE s.phase[p].status # "done"
  <2>0. s.phase[p].status = "running"
    BY <1>2 DEF OrderInv, StoreType, PhaseType, CompleteRefused, TerminalPhase
  <2>1. Calm(s, s1)
    BY PutPhaseCalm DEF Statuses, Reacts, TerminalPhase
  <2>2. /\ s1 \in StoreType /\ s1.phase[p].status = "done"
        /\ \A q \in Phases : q # p => s1.phase[q] = s.phase[q]
    BY PutPhaseForm DEF OrderInv, Statuses, Reacts, TerminalPhase
  <2> HIDE DEF s1
  <2>3. Calm(s1, s2)
    BY <2>1, InheritingCalm DEF Calm
  <2> HIDE DEF s2
  <2>4. Calm(s, s2)
    BY <2>1, <2>3, CalmTrans
  <2>5. Calm(s2, s3)
    <3>1. CASE next = {}
      BY <2>4, <3>1, PutJobCalm DEF Calm, OpenJob
    <3>2. CASE next # {}
      <4> DEFINE m == Smallest(next)
      <4>1. m \in next /\ \A q \in next : m <= q
        BY <3>2, SmallestLeast DEF LaterQueued, In
      <4>2. m \in Phases /\ m > p /\ s.phase[m].status = "queued"
        BY <4>1 DEF LaterQueued, In
      <4> HIDE DEF m
      <4>3. p \in Active(s) /\ Ahead(s, p)
        BY <2>0 DEF Active, In, OrderInv
      <4>4. Ahead(s1, m)
        <5> SUFFICES ASSUME NEW q \in Phases, q < m
                     PROVE  \/ s1.phase[q].status \in TerminalPhase
                            \/ /\ Wiki /\ s1.phase[q].status # "absent"
                               /\ s1.phase[q].lane = "research"
          BY DEF Ahead
        <5>1. CASE q = p
          BY <2>2, <5>1 DEF TerminalPhase
        <5>2. CASE q < p
          <6>1. q # p /\ s1.phase[q] = s.phase[q]
            BY <2>2, <5>2, RowsAssumption DEF Phases
          <6> QED BY <4>3, <5>2, <6>1 DEF Ahead
        <5>3. CASE q > p
          <6>1. q # p /\ s1.phase[q] = s.phase[q]
            BY <2>2, <5>3, RowsAssumption DEF Phases
          <6>2. s.phase[q].status # "queued"
            <7>1. ~(m <= q)
              BY <4>2, RowsAssumption DEF Phases
            <7> QED BY <4>1, <5>3, <7>1 DEF LaterQueued, In
          <6>3. s.phase[q].status # "running" /\ s.phase[q].status # "waiting"
            BY <6>1 DEF Active, In
          <6>4. s.phase[q].status # "absent"
            BY <4>2, RowsAssumption DEF StoreInv, Phases
          <6>5. s.phase[q] \in PhaseType
            BY DEF OrderInv, StoreType
          <6> QED BY <6>1, <6>2, <6>3, <6>4, <6>5 DEF PhaseType, TerminalPhase
        <5> QED BY <4>2, <5>1, <5>2, <5>3, RowsAssumption DEF Phases
      <4>5. Ahead(s2, m) /\ OrderInv(s2)
        BY <2>3, <4>2, <4>4 DEF Calm
      <4>6. Calm(s2, PutJob(s2, "running", m))
        BY <4>2, <4>5, PutJobCalm
      <4> QED BY <3>2, <4>6 DEF m
    <3> QED BY <3>1, <3>2
  <2> HIDE DEF s3
  <2>6. Calm(s, s3)
    BY <2>4, <2>5, CalmTrans
  <2>7. CompletePhase(s, p) = [cuts |-> {s1, s2}, end |-> s3]
    BY <1>2 DEF CompletePhase, Effect, s1, s2, s3
  <2> QED BY <2>1, <2>4, <2>6, <2>7 DEF CalmEffect
<1> QED BY <1>1, <1>2

\* fail_phase, on any row.
LEMMA FailPhaseCalm ==
  ASSUME NEW s, OrderInv(s), NEW p \in Phases, s.phase[p].status # "absent"
  PROVE  CalmEffect(s, FailPhase(s, p))
<1> DEFINE s1 == PutPhase(s, p, "failed", "FAILED")
           s2 == Checkpoint(s1, p, FALSE, "failure")
           s3 == PutJob(s2, "failed", p)
<1>1. FailPhase(s, p) = [cuts |-> {s1, s2}, end |-> s3]
  BY DEF FailPhase, Effect
<1>2. Calm(s, s1)
  BY PutPhaseCalm DEF Statuses, Reacts, TerminalPhase
<1> HIDE DEF s1
<1>3. Calm(s1, s2)
  BY <1>2, CheckpointCalm DEF Calm, Reasons
<1>4. Calm(s, s2)
  BY <1>2, <1>3, CalmTrans
<1> HIDE DEF s2
<1>5. Calm(s2, s3)
  BY <1>4, PutJobCalm DEF Calm, OpenJob
<1>6. Calm(s, s3)
  BY <1>4, <1>5, CalmTrans
<1> QED BY <1>1, <1>2, <1>4, <1>6 DEF CalmEffect

\* park_phase, on the phase whose turn it is.
LEMMA ParkPhaseCalm ==
  ASSUME NEW s, OrderInv(s), NEW p \in Phases, s.phase[p].status # "absent",
         ~ParkRefused(s, p), Ahead(s, p), \A q \in Active(s) : q = p
  PROVE  CalmEffect(s, ParkPhase(s, p))
<1> DEFINE s1 == PutPhase(s, p, "waiting", "PARKED")
           s2 == CheckpointInheriting(s1, p, TRUE)
           s3 == PutJob(s2, "waiting", p)
<1>1. ParkPhase(s, p) = [cuts |-> {s1, s2}, end |-> s3]
  BY DEF ParkPhase, Effect
<1>2. Calm(s, s1)
  BY PutPhaseCalm DEF Statuses, Reacts, ParkRefused
<1> HIDE DEF s1
<1>3. Calm(s1, s2)
  BY <1>2, InheritingCalm DEF Calm
<1>4. Calm(s, s2)
  BY <1>2, <1>3, CalmTrans
<1> HIDE DEF s2
<1>5. Calm(s2, s3)
  BY <1>4, PutJobCalm DEF Calm
<1>6. Calm(s, s3)
  BY <1>4, <1>5, CalmTrans
<1> QED BY <1>1, <1>2, <1>4, <1>6 DEF CalmEffect

\* wait_for_answer, on the phase whose turn it is.
LEMMA WaitForAnswerCalm ==
  ASSUME NEW s, OrderInv(s), NEW p \in Phases, s.phase[p].status # "absent",
         ~ParkRefused(s, p), Ahead(s, p)
  PROVE  CalmEffect(s, WaitForAnswer(s, p))
<1> DEFINE s1 == PutPhase(s, p, "queued", "none")
           s2 == Checkpoint(s1, p, FALSE, "answer")
           s3 == PutJob(s2, "running", p)
<1>1. WaitForAnswer(s, p) = [cuts |-> {s1, s2}, end |-> s3]
  BY DEF WaitForAnswer, Effect
<1>2. Calm(s, s1)
  BY PutPhaseCalm DEF Statuses, Reacts, ParkRefused
<1> HIDE DEF s1
<1>3. Calm(s1, s2)
  BY <1>2, CheckpointCalm DEF Calm, Reasons
<1>4. Calm(s, s2)
  BY <1>2, <1>3, CalmTrans
<1> HIDE DEF s2
<1>5. Calm(s2, s3)
  BY <1>4, PutJobCalm DEF Calm
<1>6. Calm(s, s3)
  BY <1>4, <1>5, CalmTrans
<1> QED BY <1>1, <1>2, <1>4, <1>6 DEF CalmEffect

\* Stopping a phase, running or not.
LEMMA KillPhaseCalm ==
  ASSUME NEW s, OrderInv(s), NEW p \in Phases, NEW reason \in Reasons
  PROVE  CalmEffect(s, KillPhase(s, p, reason))
<1> DEFINE s1 == PutPhase(s, p, "queued", "none")
           s2 == Checkpoint(s1, p, FALSE, reason)
           s3 == IF s.job.status \in TerminalJob THEN s2 ELSE PutJob(s2, "running", p)
<1>1. CASE s.phase[p].status # "running"
  BY <1>1, NoEffectCalm DEF KillPhase
<1>2. CASE s.phase[p].status = "running"
  <2>1. Ahead(s, p)
    BY <1>2 DEF OrderInv, Active, In
  <2>2. Calm(s, s1)
    BY <1>2, PutPhaseCalm DEF Statuses, Reacts, TerminalPhase
  <2>3. KillPhase(s, p, reason) = [cuts |-> {s1, s2}, end |-> s3]
    BY <1>2 DEF KillPhase, Requeue, Effect
  <2> HIDE DEF s1
  <2>4. Calm(s1, s2)
    BY <2>2, CheckpointCalm DEF Calm
  <2>5. Calm(s, s2)
    BY <2>2, <2>4, CalmTrans
  <2> HIDE DEF s2
  <2>6. Calm(s2, PutJob(s2, "running", p))
    BY <2>1, <2>5, PutJobCalm DEF Calm
  <2>7. Calm(s, s3)
    BY <2>5, <2>6, CalmTrans
  <2> QED BY <2>2, <2>3, <2>5, <2>7 DEF CalmEffect
<1> QED BY <1>1, <1>2

\* Stop.
LEMMA KillSessionCalm ==
  ASSUME NEW s, OrderInv(s)
  PROVE  CalmEffect(s, KillSession(s))
<1>1. In(s, "running") # {} => Smallest(In(s, "running")) \in Phases
  BY SmallestOf DEF In
<1> QED BY <1>1, KillPhaseCalm, NoEffectCalm DEF KillSession, Reasons

\* The start-up repair.
LEMMA StartUpCalm ==
  ASSUME NEW s, StoreInv(s), OrderInv(s)
  PROVE  CalmEffect(s, StartUp(s))
<1>1. ReconcileStuck(s) = NoEffect(s)
  BY DEF ReconcileStuck, Stuck, StoreInv
<1>2. CalmEffect(s, NoEffect(s)) /\ NoEffect(s).end = s
  BY NoEffectCalm DEF NoEffect, Effect
<1>3. CalmEffect(s, RequeueInterrupted(s))
  <2>1. In(s, "running") # {} => Smallest(In(s, "running")) \in Phases
    BY SmallestOf DEF In
  <2> QED BY <2>1, KillPhaseCalm, NoEffectCalm DEF RequeueInterrupted, Reasons
<1>4. StartUp(s) = Then(NoEffect(s), RequeueInterrupted(s))
  BY <1>1, <1>2 DEF StartUp
<1> QED BY <1>2, <1>3, <1>4, CalmThen

\* The least of the queued phases is next when no phase is active.
LEMMA LeastQueuedAhead ==
  ASSUME NEW s, StoreInv(s), Active(s) = {}, NEW p \in In(s, "queued"),
         \A q \in In(s, "queued") : p <= q
  PROVE  Ahead(s, p)
<1> SUFFICES ASSUME NEW q \in Phases, q < p
             PROVE  s.phase[q].status \in TerminalPhase
  BY DEF Ahead
<1>1. s.phase[q].status # "queued" /\ s.phase[q].status # "running" /\ s.phase[q].status # "waiting"
  <2>1. p \in Phases /\ ~(p <= q)
    BY RowsAssumption DEF Phases, In
  <2> QED BY <2>1 DEF Active, In
<1>2. s.phase[q].status # "absent"
  BY RowsAssumption DEF StoreInv, Phases, In
<1>3. s.phase[q] \in PhaseType
  BY DEF StoreInv, StoreType
<1> QED BY <1>1, <1>2, <1>3 DEF PhaseType, TerminalPhase

\* resume_after_crash is calm, and the phase it points at is next.
LEMMA ResumeAfterCrashCalm ==
  ASSUME NEW s, StoreInv(s), OrderInv(s), Resumable(s)
  PROVE  LET p == ContinuePhase(s)
             e == ResumeAfterCrash(s)
         IN /\ CalmEffect(s, e)
            /\ Ahead(e.end, p)
            /\ \A q \in Active(e.end) : q = p
<1> DEFINE p  == ContinuePhase(s)
           s1 == PutPhase(s, p, "queued", "none")
<1>0. s.job.status \in OpenJob /\ s \in StoreType
  BY DEF Resumable, OrderInv
<1>1. CASE In(s, "running") # {}
  <2>1. p \in In(s, "running")
    BY <1>1, SmallestOf DEF ContinuePhase, In
  <2>2. p \in Phases /\ s.phase[p].status = "running" /\ p \in Active(s)
    BY <2>1 DEF In, Active
  <2>3. ResumeAfterCrash(s) = [cuts |-> {s1}, end |-> PutJob(s1, "running", p)]
    BY <1>1 DEF ResumeAfterCrash, Effect
  <2>4. ContinuePhase(s) = p
    OBVIOUS
  <2> HIDE DEF p
  <2>5. Calm(s, s1)
    BY <2>2, PutPhaseCalm DEF Statuses, Reacts, TerminalPhase
  <2>6. /\ s1 \in StoreType /\ s1.phase[p].status = "queued"
        /\ \A q \in Phases : q # p => s1.phase[q] = s.phase[q]
    BY <1>0, <2>2, PutPhaseForm DEF Statuses, Reacts
  <2> HIDE DEF s1
  <2>7. Ahead(s, p) /\ \A q \in Active(s) : q = p
    BY <2>2 DEF OrderInv
  <2>8. Ahead(s1, p) /\ OrderInv(s1)
    BY <2>2, <2>5, <2>7 DEF Calm
  <2> DEFINE s2 == PutJob(s1, "running", p)
  <2>9. Calm(s1, s2) /\ s2.phase = s1.phase
    BY <2>2, <2>6, <2>8, PutJobCalm, PutJobForm
  <2> HIDE DEF s2
  <2>10. Calm(s, s2) /\ Ahead(s2, p)
    BY <2>2, <2>5, <2>8, <2>9, CalmTrans DEF Calm
  <2>11. \A q \in Active(s2) : q = p
    BY <2>6, <2>7, <2>9 DEF Active, In
  <2>12. ResumeAfterCrash(s) = [cuts |-> {s1}, end |-> s2]
    BY <2>3 DEF s2
  <2> QED BY <2>4, <2>5, <2>10, <2>11, <2>12 DEF CalmEffect
<1>2. CASE In(s, "running") = {} /\ In(s, "waiting") # {}
  <2>1. p \in In(s, "waiting")
    BY <1>2, SmallestOf DEF ContinuePhase, In
  <2>2. p \in Phases /\ p \in Active(s)
    BY <2>1 DEF In, Active
  <2>3. ResumeAfterCrash(s) = [cuts |-> {}, end |-> PutJob(s, "waiting", p)]
    BY <1>2 DEF ResumeAfterCrash, Effect
  <2>4. ContinuePhase(s) = p
    OBVIOUS
  <2> HIDE DEF p
  <2>5. Ahead(s, p) /\ \A q \in Active(s) : q = p
    BY <2>2 DEF OrderInv
  <2> DEFINE c == PutJob(s, "waiting", p)
  <2>6. Calm(s, c) /\ c.phase = s.phase
    BY <1>0, <2>2, <2>5, PutJobCalm, PutJobForm
  <2> HIDE DEF c
  <2>7. Ahead(c, p) /\ \A q \in Active(c) : q = p
    BY <2>2, <2>5, <2>6 DEF Calm, Active, In
  <2> QED BY <2>3, <2>4, <2>6, <2>7 DEF CalmEffect, c
<1>3. CASE /\ In(s, "running") = {} /\ In(s, "waiting") = {}
           /\ In(s, "queued") # {} /\ s.checkpoint.reason \in KillReasons
  <2>1. p \in In(s, "queued") /\ \A q \in In(s, "queued") : p <= q
    BY <1>3, SmallestLeast DEF ContinuePhase, In
  <2>2. p \in Phases /\ Active(s) = {}
    BY <1>3, <2>1 DEF In, Active
  <2>3. ResumeAfterCrash(s) = [cuts |-> {}, end |-> PutJob(s, "running", p)]
    BY <1>3 DEF ResumeAfterCrash, Effect
  <2>4. ContinuePhase(s) = p
    OBVIOUS
  <2> HIDE DEF p
  <2>5. Ahead(s, p)
    BY <2>1, <2>2, LeastQueuedAhead
  <2> DEFINE c == PutJob(s, "running", p)
  <2>6. Calm(s, c) /\ c.phase = s.phase
    BY <1>0, <2>2, <2>5, PutJobCalm, PutJobForm
  <2> HIDE DEF c
  <2>7. Ahead(c, p) /\ \A q \in Active(c) : q = p
    BY <2>2, <2>5, <2>6 DEF Calm, Active, In
  <2> QED BY <2>3, <2>4, <2>6, <2>7 DEF CalmEffect, c
<1>4. CASE /\ In(s, "running") = {} /\ In(s, "waiting") = {}
           /\ ~(In(s, "queued") # {} /\ s.checkpoint.reason \in KillReasons)
  <2>1. p = s.job.current /\ ResumeAfterCrash(s) = NoEffect(s)
    BY <1>4 DEF ContinuePhase, ResumeAfterCrash
  <2>2. Ahead(s, s.job.current) /\ Active(s) = {}
    BY <1>0, <1>4 DEF OrderInv, Active
  <2>3. NoEffect(s).end = s
    BY DEF NoEffect, Effect
  <2> QED BY <2>1, <2>2, <2>3, NoEffectCalm
<1> QED BY <1>1, <1>2, <1>3, <1>4

\* Cancelling the unfinished phases keeps the order.
LEMMA CancelUpToCalm ==
  ASSUME NEW s, StoreInv(s), OrderInv(s), NEW n \in Int
  PROVE  LET c == CancelUpTo(s, n)
         IN /\ Calm(s, c)
            /\ \A p \in Phases : p <= n /\ s.phase[p].status # "absent"
                                   => c.phase[p].status \in TerminalPhase
<1> DEFINE c == CancelUpTo(s, n)
           over(p) == p <= n /\ s.phase[p].status \in {"queued", "running", "waiting"}
<1>1. /\ Good(s, c) /\ c.job = s.job /\ c.checkpoint = s.checkpoint
      /\ \A p \in Phases : c.phase[p].status = "absent" <=> s.phase[p].status = "absent"
  BY CancelUpToGood
<1>2. \A p \in Phases :
        c.phase[p] = IF over(p) THEN [s.phase[p] EXCEPT !.status = "cancelled", !.react = "none"]
                     ELSE s.phase[p]
  BY DEF CancelUpTo, OrderInv, StoreType
<1> HIDE DEF c
<1>3. \A p \in Phases : /\ s.phase[p] \in PhaseType
                        /\ c.phase[p].lane = s.phase[p].lane
                        /\ over(p) => c.phase[p].status = "cancelled"
                        /\ ~over(p) => c.phase[p].status = s.phase[p].status
  <2> TAKE p \in Phases
  <2>1. s.phase[p] \in PhaseType
    BY DEF OrderInv, StoreType
  <2> HIDE DEF over
  <2> QED BY <1>2, <2>1 DEF PhaseType
<1>4. \A p \in Phases : Ahead(s, p) => Ahead(c, p)
  <2>1. \A p \in Phases : s.phase[p].status \in TerminalPhase => c.phase[p].status \in TerminalPhase
    BY <1>1 DEF Good
  <2> QED BY <1>1, <1>3, <2>1 DEF Ahead
<1>5. Active(c) \subseteq Active(s)
  BY <1>3 DEF Active, In
<1>6. c \in StoreType
  BY <1>1 DEF Good, StoreInv
<1>7. c.job.status \in OpenJob => Ahead(c, c.job.current)
  <2>1. c.job.status \in OpenJob => s.job.current \in Phases
    BY <1>1 DEF StoreInv, OpenJob
  <2> QED BY <1>1, <1>4, <2>1 DEF OrderInv
<1>8. Active(s) \subseteq Phases
  BY DEF Active, In
<1>9. OrderInv(c)
  BY <1>4, <1>5, <1>6, <1>7, <1>8 DEF OrderInv
<1>10. \A p \in Phases : p <= n /\ s.phase[p].status # "absent" => c.phase[p].status \in TerminalPhase
  BY <1>3 DEF PhaseType, TerminalPhase
<1> QED BY <1>1, <1>4, <1>9, <1>10 DEF Calm, c

\* A new row after the last one keeps the order.
LEMMA AppendPhaseOrder ==
  ASSUME NEW s, OrderInv(s), NEW p \in Phases, NEW lane \in Lanes, s.phase[p].status = "absent"
  PROVE  LET c == AppendPhase(s, p, lane)
         IN /\ OrderInv(c)
            /\ \A q \in Phases : Ahead(s, q) => Ahead(c, q)
            /\ c.checkpoint = s.checkpoint
<1> DEFINE c == AppendPhase(s, p, lane)
<1>1. s \in StoreType /\ s.phase \in [Phases -> PhaseType]
  BY DEF OrderInv, StoreType
<1>2. NewPhase(lane) \in PhaseType /\ NewPhase(lane).status = "queued"
  BY DEF NewPhase, PhaseType
<1>3. /\ c \in StoreType /\ c.job = s.job /\ c.checkpoint = s.checkpoint
      /\ c.phase[p] = NewPhase(lane)
      /\ \A q \in Phases : q # p => c.phase[q] = s.phase[q]
  BY <1>1, <1>2 DEF AppendPhase, StoreType
<1> HIDE DEF c
<1>4. ASSUME NEW q, Ahead(s, q)
      PROVE  Ahead(c, q)
  <2>1. ~(p < q)
    BY <1>4 DEF Ahead, TerminalPhase
  <2> QED BY <1>3, <1>4, <2>1 DEF Ahead
<1>5. Active(c) \subseteq Active(s)
  BY <1>2, <1>3 DEF Active, In
<1>6. OrderInv(c)
  BY <1>3, <1>4, <1>5 DEF OrderInv
<1> QED BY <1>3, <1>4, <1>6 DEF c

\* As many rows as the last row's number.
LEMMA RowsCount ==
  ASSUME NEW s, NEW k \in 0 .. MaxPhases,
         \A p \in Phases : s.phase[p].status # "absent" <=> p <= k
  PROVE  Cardinality(Rows(s)) = k
<1>1. Rows(s) = 1 .. k
  BY RowsAssumption DEF Rows, Phases
<1> QED BY <1>1, FS_Interval, RowsAssumption

\* A replan keeps the order and adds two rows; until it is counted, the count stands.
LEMMA ReplanJobOrder ==
  ASSUME NEW s, StoreInv(s), OrderInv(s), s.checkpoint.replans < MaxReplans, RoomToReplan(s)
  PROVE  LET e == ReplanJob(s)
         IN /\ \A c \in e.cuts \cup {e.end} :
                 OrderInv(c) /\ c.checkpoint.replans = s.checkpoint.replans
            /\ e.end.checkpoint = s.checkpoint
            /\ e.end.job.current \in Phases
            /\ Cardinality(Rows(e.end)) = Cardinality(Rows(s)) + ReplanSize
<1> DEFINE first == FirstFree(s)
           s1 == CancelUpTo(s, first - 1)
           s2 == AppendPhase(s1, first, "formulate")
           s3 == AppendPhase(s2, first + 1, "execute")
           status == IF In(s, "done") # {} THEN "running" ELSE "queued"
           s4 == PutJob(s3, status, first)
           cancels == {CancelUpTo(s, n) : n \in Phases}
<1>1. ReplanJob(s) = [cuts |-> cancels \cup {s2, s3}, end |-> s4]
  BY DEF ReplanJob, Effect
<1>2. \A c \in cancels : OrderInv(c) /\ c.checkpoint.replans = s.checkpoint.replans
  BY CancelUpToCalm, RowsAssumption DEF Phases, Calm
<1>3. /\ first \in Phases /\ first + 1 \in Phases
      /\ first - 1 \in Int /\ first \in Int /\ (first + 1) - 1 = first
      /\ \A p \in Phases : s.phase[p].status # "absent" <=> p <= first - 1
      /\ Cardinality(Rows(s)) \in Int /\ first = Cardinality(Rows(s)) + 1
  <2>1. PICK k \in 0 .. MaxPhases : \A p \in Phases : s.phase[p].status # "absent" <=> p <= k
    BY DEF StoreInv
  <2>2. Cardinality(Rows(s)) = k
    BY <2>1, RowsCount
  <2> QED BY <2>2, FirstFreeRow DEF RoomToReplan, FirstFree
<1> HIDE DEF first, cancels
<1>4. /\ Good(s, s1) /\ Calm(s, s1) /\ s1.checkpoint = s.checkpoint
      /\ \A p \in Phases : s1.phase[p].status # "absent" <=> p <= first - 1
      /\ \A p \in Phases : p < first => s1.phase[p].status \in TerminalPhase
  <2>1. \A p \in Phases : p < first => p <= first - 1 /\ s.phase[p].status # "absent"
    BY <1>3, RowsAssumption DEF Phases
  <2> QED BY <1>3, <2>1, CancelUpToGood, CancelUpToCalm
<1> HIDE DEF s1
<1>5. /\ Good(s1, s2) /\ s2.checkpoint = s1.checkpoint /\ OrderInv(s2)
      /\ \A p \in Phases : s2.phase[p].status # "absent" <=> p <= first
  <2>1. StoreInv(s1) /\ OrderInv(s1)
    BY <1>4 DEF Good, Calm
  <2>2. s1.phase[first].status = "absent"
    BY <1>3, <1>4
  <2> QED BY <1>3, <1>4, <2>1, <2>2, AppendPhaseGood, AppendPhaseOrder DEF Lanes
<1> HIDE DEF s2
<1>6. /\ Good(s2, s3) /\ s3.checkpoint = s2.checkpoint /\ OrderInv(s3)
      /\ \A p \in Phases : s3.phase[p].status # "absent" <=> p <= first + 1
  <2>1. StoreInv(s2)
    BY <1>5 DEF Good
  <2>2. \A p \in Phases : s2.phase[p].status # "absent" <=> p <= (first + 1) - 1
    BY <1>3, <1>5
  <2>3. s2.phase[first + 1].status = "absent"
    BY <1>3, <2>2
  <2> QED BY <1>3, <1>5, <2>1, <2>2, <2>3, AppendPhaseGood, AppendPhaseOrder DEF Lanes
<1> HIDE DEF s3
<1>7. Ahead(s3, first)
  BY <1>4, <1>5, <1>6 DEF Good, Ahead
<1>8. /\ OrderInv(s4) /\ s4.checkpoint = s3.checkpoint
      /\ s4.job = [status |-> status, current |-> first] /\ s4.phase = s3.phase
  <2>1. status \in {"queued", "running", "waiting", "done", "failed"}
    OBVIOUS
  <2>2. s3 \in StoreType
    BY <1>6 DEF OrderInv
  <2> HIDE DEF status
  <2>3. /\ s4.job = [status |-> status, current |-> first] /\ s4.phase = s3.phase
        /\ s4.checkpoint = s3.checkpoint
    BY <1>3, <2>1, <2>2, PutJobForm
  <2>4. Calm(s3, s4)
    BY <1>3, <1>6, <1>7, <2>1, PutJobCalm
  <2> QED BY <2>3, <2>4 DEF Calm
<1> HIDE DEF s4
<1>9. Cardinality(Rows(s4)) = Cardinality(Rows(s)) + ReplanSize
  <2>1. first + 1 \in 0 .. MaxPhases
    BY <1>3, RowsAssumption DEF Phases
  <2>2. \A p \in Phases : s4.phase[p].status # "absent" <=> p <= first + 1
    BY <1>6, <1>8
  <2>3. Cardinality(Rows(s4)) = first + 1
    BY <2>1, <2>2, RowsCount
  <2> QED BY <1>3, <2>3 DEF ReplanSize
<1> QED BY <1>1, <1>2, <1>3, <1>4, <1>5, <1>6, <1>8, <1>9

\* Counting a replan keeps the order.
LEMMA CountReplanOrder ==
  ASSUME NEW r, OrderInv(r), r.job.current \in Phases, r.checkpoint.replans < MaxReplans
  PROVE  LET c == CountReplan(r).end
         IN /\ OrderInv(c) /\ c.phase = r.phase
            /\ c.checkpoint.replans = r.checkpoint.replans + 1
<1> DEFINE k == r.job.current
           c1 == Checkpoint(r, k, FALSE, "failure")
           c2 == [c1 EXCEPT !.checkpoint.replans = @ + 1]
<1>1. CountReplan(r).end = c2
  BY DEF CountReplan, Effect
<1>2. /\ k \in Phases /\ "failure" \in Reasons /\ FALSE \in BOOLEAN /\ r \in StoreType
  BY DEF Reasons, OrderInv
<1> HIDE DEF k
<1>3. /\ c1.checkpoint.replans = r.checkpoint.replans /\ c1.phase = r.phase /\ c1.job = r.job
  BY <1>2 DEF Checkpoint, StoreType, CheckpointType
<1>4. OrderInv(c1)
  BY <1>2, CheckpointCalm DEF Calm
<1> HIDE DEF c1
<1>5. /\ c2 \in StoreType /\ c2.phase = c1.phase /\ c2.job = c1.job
      /\ c2.checkpoint.replans = r.checkpoint.replans + 1
  <2>1. c1 \in StoreType /\ c1.checkpoint \in CheckpointType
    BY <1>4 DEF OrderInv, StoreType
  <2>2. c1.checkpoint.replans + 1 \in 0 .. MaxReplans
    <3>1. c1.checkpoint.replans \in 0 .. MaxReplans
      BY <2>1 DEF CheckpointType
    <3> QED BY <1>3, <3>1, ReplansAssumption
  <2>3. [c1.checkpoint EXCEPT !.replans = c1.checkpoint.replans + 1] \in CheckpointType
    BY <2>1, <2>2 DEF CheckpointType
  <2> QED BY <1>3, <2>1, <2>3 DEF StoreType, CheckpointType
<1> HIDE DEF c2
<1>6. \A q : Ahead(c1, q) <=> Ahead(c2, q)
  BY <1>5 DEF Ahead
<1>7. Active(c2) = Active(c1)
  BY <1>5 DEF Active, In
<1> QED BY <1>1, <1>3, <1>4, <1>5, <1>6, <1>7 DEF OrderInv

\* The checker's failure: a replan is counted with its rows, a park counts none.
LEMMA BoundedReplanOrder ==
  ASSUME NEW s, StoreInv(s), OrderInv(s), NEW p \in Phases, s.phase[p].status # "absent",
         ~ParkRefused(s, p) => Ahead(s, p), \A q \in Active(s) : q = p,
         RoomToReplan(s), ~ReplanRefused(s, p)
  PROVE  LET e == BoundedReplan(s, p)
         IN /\ \A c \in e.cuts : OrderInv(c) /\ c.checkpoint.replans = s.checkpoint.replans
            /\ OrderInv(e.end)
            /\ Cardinality(Rows(e.end)) - Cardinality(Rows(s))
                 = ReplanSize * (e.end.checkpoint.replans - s.checkpoint.replans)
<1>0. /\ s.checkpoint.replans \in Nat /\ MaxReplans \in Nat
      /\ Cardinality(Rows(s)) \in Nat
  <2>1. PICK k \in 0 .. MaxPhases : \A q \in Phases : s.phase[q].status # "absent" <=> q <= k
    BY DEF StoreInv
  <2>2. Cardinality(Rows(s)) = k
    BY <2>1, RowsCount
  <2>3. s.checkpoint.replans \in 0 .. MaxReplans
    BY DEF OrderInv, StoreType, CheckpointType
  <2> QED BY <2>2, <2>3, ReplansAssumption, RowsAssumption
<1>1. CASE s.checkpoint.replans < MaxReplans
  <2> DEFINE e == ReplanJob(s)
             r == e.end
             c1 == Checkpoint(r, r.job.current, FALSE, "failure")
             c2 == [c1 EXCEPT !.checkpoint.replans = @ + 1]
  <2>1. BoundedReplan(s, p) = Then(e, CountReplan(r))
    BY <1>1 DEF BoundedReplan
  <2>2. CountReplan(r) = [cuts |-> {}, end |-> c2]
    BY DEF CountReplan, Effect
  <2>3. /\ \A c \in e.cuts \cup {r} : OrderInv(c) /\ c.checkpoint.replans = s.checkpoint.replans
        /\ r.checkpoint = s.checkpoint /\ r.job.current \in Phases
        /\ Cardinality(Rows(r)) = Cardinality(Rows(s)) + ReplanSize
    BY <1>1, ReplanJobOrder
  <2> DEFINE done == e.cuts \cup {r}
  <2>4. BoundedReplan(s, p) = [cuts |-> done, end |-> c2]
    BY <2>1, <2>2 DEF Then, Effect
  <2>5. OrderInv(r) /\ r.checkpoint.replans = s.checkpoint.replans
    BY <2>3
  <2>6. c2 = CountReplan(r).end
    BY <2>2
  <2> HIDE DEF e, r, done, c2
  <2>7. /\ OrderInv(c2) /\ c2.phase = r.phase
        /\ c2.checkpoint.replans = s.checkpoint.replans + 1
    BY <1>0, <1>1, <2>3, <2>5, <2>6, CountReplanOrder
  <2>9. Rows(c2) = Rows(r)
    BY <2>7 DEF Rows
  <2>10. Cardinality(Rows(c2)) - Cardinality(Rows(s)) = ReplanSize * (c2.checkpoint.replans - s.checkpoint.replans)
    BY <1>0, <2>3, <2>7, <2>9 DEF ReplanSize
  <2>11. \A c \in done : OrderInv(c) /\ c.checkpoint.replans = s.checkpoint.replans
    BY <2>3 DEF done, r
  <2> QED BY <2>4, <2>7, <2>10, <2>11
<1>2. CASE ~(s.checkpoint.replans < MaxReplans)
  <2> DEFINE e == ParkPhase(s, p)
             c == Checkpoint(e.end, p, TRUE, "failure")
             f == [cuts |-> {}, end |-> c]
  <2>1. BoundedReplan(s, p) = Then(e, f)
    BY <1>2 DEF BoundedReplan, ParkExhausted, Effect
  <2>2. CalmEffect(s, e)
    BY <1>2, ParkPhaseCalm DEF ReplanRefused
  <2> HIDE DEF e
  <2>3. Calm(e.end, c)
    BY <2>2, CheckpointCalm DEF CalmEffect, Calm, Reasons
  <2> HIDE DEF c
  <2>4. CalmEffect(e.end, f)
    BY <2>3 DEF CalmEffect
  <2>5. CalmEffect(s, BoundedReplan(s, p))
    BY <2>1, <2>2, <2>4, CalmThen
  <2> DEFINE d == BoundedReplan(s, p).end
  <2>6. Calm(s, d) /\ \A b \in BoundedReplan(s, p).cuts : Calm(s, b)
    BY <2>5 DEF CalmEffect
  <2>7. Rows(d) = Rows(s) /\ d.checkpoint.replans = s.checkpoint.replans
    BY <2>6 DEF Calm, Rows
  <2> HIDE DEF d
  <2>8. Cardinality(Rows(d)) - Cardinality(Rows(s)) = ReplanSize * (d.checkpoint.replans - s.checkpoint.replans)
    BY <1>0, <2>7 DEF ReplanSize
  <2> QED BY <2>6, <2>8 DEF Calm, d
<1> QED BY <1>1, <1>2

-----------------------------------------------------------------------------
(* Minting, and the steps of the workers.                                   *)

\* A store before any phase has run: no phase is active, the planned ones are
\* queued, and the job points at its first phase.
Planned(s, plan) ==
  /\ StoreInv(s)
  /\ s.job = [status |-> "queued", current |-> 1]
  /\ \A p \in Phases :
       /\ p \in DOMAIN plan => s.phase[p].status = "queued" /\ s.phase[p].lane = plan[p]
       /\ p \notin DOMAIN plan => s.phase[p].status = "absent"

\* No phase before the first one.
LEMMA FirstAhead == ASSUME NEW s PROVE Ahead(s, 1)
BY RowsAssumption DEF Ahead, Phases

\* A planned store is in order.
LEMMA PlannedOrder ==
  ASSUME NEW plan \in FirstPlans, NEW s, Planned(s, plan)
  PROVE  /\ OrderInv(s)
         /\ Active(s) = {}
         /\ In(s, "queued") = DOMAIN plan
<1>1. PICK n \in 2 .. 3 : /\ DOMAIN plan = 1 .. n
                          /\ \A p \in 1 .. n : plan[p] \in Lanes /\ p \in Phases
  BY PlanFacts
<1>2. \A p \in Phases : /\ p \in DOMAIN plan => s.phase[p].status = "queued"
                        /\ p \notin DOMAIN plan => s.phase[p].status = "absent"
  BY DEF Planned
<1>3. Active(s) = {}
  BY <1>2 DEF Active, In
<1>4. In(s, "queued") = DOMAIN plan
  BY <1>1, <1>2 DEF In
<1>5. s \in StoreType /\ s.job.current = 1
  BY DEF Planned, StoreInv
<1>6. OrderInv(s)
  BY <1>3, <1>5, FirstAhead DEF OrderInv
<1> QED BY <1>3, <1>4, <1>6

\* The rows of create_job_with_phases.
LEMMA MintJobPlanned ==
  ASSUME NEW plan \in FirstPlans, NEW research \in BOOLEAN
  PROVE  LET e == MintJob(plan, research)
         IN \A c \in e.cuts \cup {e.end} : Planned(c, plan)
<1> DEFINE row(p) == IF p \in DOMAIN plan THEN NewPhase(plan[p]) ELSE EmptyStore.phase[p]
           s1 == [EmptyStore EXCEPT !.job = [status |-> "queued", current |-> 1],
                                    !.phase = [p \in Phases |-> row(p)]]
           s2 == [s1 EXCEPT !.checkpoint = [s1.checkpoint EXCEPT !.phase = 1, !.research = research]]
<1>1. MintJob(plan, research) = [cuts |-> {s1}, end |-> s2]
  BY DEF MintJob, Effect, EmptyStore
<1>2. GoodEffect(EmptyStore, MintJob(plan, research))
  BY MintJobGood
<1>3. StoreInv(s1) /\ StoreInv(s2)
  <2> HIDE DEF s1, s2
  <2> QED BY <1>1, <1>2 DEF GoodEffect, Good
<1>4. \A p \in Phases : EmptyStore.phase[p].status = "absent"
  BY DEF EmptyStore
<1>5. /\ s1.job = [status |-> "queued", current |-> 1]
      /\ s1.phase = [p \in Phases |-> row(p)]
      /\ s2.job = s1.job /\ s2.phase = s1.phase
  BY DEF EmptyStore
<1>6. \A p \in Phases :
        /\ p \in DOMAIN plan => row(p).status = "queued" /\ row(p).lane = plan[p]
        /\ p \notin DOMAIN plan => row(p).status = "absent"
  BY <1>4 DEF NewPhase
<1> HIDE DEF s1, s2, row
<1>7. Planned(s1, plan) /\ Planned(s2, plan)
  BY <1>3, <1>5, <1>6 DEF Planned
<1> QED BY <1>1, <1>7

\* With the wiki's checkpoint or without.
LEMMA MintedPlanned ==
  ASSUME NEW plan \in FirstPlans, NEW wiki \in BOOLEAN
  PROVE  LET e == Minted(plan, wiki)
         IN \A c \in e.cuts \cup {e.end} : Planned(c, plan)
<1> DEFINE m == MintJob(plan, plan[1] = "research")
           p == FormulateOf(plan)
           c == CheckpointInheriting(m.end, p, FALSE)
<1>1. \A b \in m.cuts \cup {m.end} : Planned(b, plan)
  BY MintJobPlanned
<1>2. Minted(plan, wiki) = IF wiki THEN [cuts |-> m.cuts \cup {m.end}, end |-> c] ELSE m
  BY DEF Minted, Then, GroundOnNotes, Effect
<1> HIDE DEF m
<1>3. p \in Phases
  BY FormulateRow, PlanFacts
<1> HIDE DEF p
<1>4. StoreInv(m.end)
  BY <1>1 DEF Planned
<1>5. Good(m.end, c) /\ c.job = m.end.job /\ c.phase = m.end.phase
  BY <1>3, <1>4, InheritingGood
<1> HIDE DEF c
<1>6. Planned(c, plan)
  BY <1>1, <1>5 DEF Planned, Good
<1> QED BY <1>1, <1>2, <1>6

\* A job about the wiki is parked at its Formulate phase, before its Research.
LEMMA ParkForSourcesOrder ==
  ASSUME NEW plan \in FirstPlans, Wiki
  PROVE  LET m == MintJob(plan, plan[1] = "research")
             e == Then(m, ParkForSources(m.end, FormulateOf(plan)))
         IN \A c \in e.cuts \cup {e.end} : OrderInv(c)
<1> DEFINE m  == MintJob(plan, plan[1] = "research")
           p  == FormulateOf(plan)
           s1 == Checkpoint(m.end, p, TRUE, "failure")
           k  == ParkPhase(s1, p)
           e  == Then(m, ParkForSources(m.end, p))
<1>1. \A c \in m.cuts \cup {m.end} : Planned(c, plan)
  BY MintJobPlanned
<1>2. e = [cuts |-> m.cuts \cup {m.end} \cup ({} \cup {s1} \cup k.cuts), end |-> k.end]
  BY DEF Then, ParkForSources, Effect
<1> HIDE DEF m
<1>3. PICK n \in 2 .. 3 : /\ DOMAIN plan = 1 .. n
                          /\ \A q \in 1 .. n : plan[q] \in Lanes /\ q \in Phases
  BY PlanFacts
<1>4. p \in Phases /\ p \in DOMAIN plan /\ \A q \in Phases : q < p => q = 1 /\ plan[1] = "research"
  BY <1>3, RowsAssumption DEF FormulateOf, Phases
<1> HIDE DEF p
<1>5. OrderInv(m.end) /\ Active(m.end) = {}
  BY <1>1, PlannedOrder
<1>6. Calm(m.end, s1)
  BY <1>4, <1>5, CheckpointCalm DEF Reasons
<1>7. s1.phase = m.end.phase
  BY DEF Checkpoint
<1> HIDE DEF s1
<1>8. \A q \in Phases : q \in DOMAIN plan => s1.phase[q].status = "queued" /\ s1.phase[q].lane = plan[q]
  BY <1>1, <1>7 DEF Planned
<1>9. Ahead(s1, p)
  BY <1>3, <1>4, <1>8 DEF Ahead
<1>10. Active(s1) = {}
  BY <1>5, <1>7 DEF Active, In
<1>11. CalmEffect(s1, k)
  <2>1. s1.phase[p].status # "absent" /\ ~ParkRefused(s1, p) /\ OrderInv(s1)
    BY <1>4, <1>6, <1>8 DEF ParkRefused, TerminalPhase, Calm
  <2> QED BY <1>4, <1>9, <1>10, <2>1, ParkPhaseCalm
<1> HIDE DEF k
<1>12. \A c \in m.cuts \cup {m.end} : OrderInv(c)
  BY <1>1, PlannedOrder
<1>13. \A c \in e.cuts \cup {e.end} : OrderInv(c)
  <2> HIDE DEF e
  <2> QED BY <1>2, <1>6, <1>11, <1>12 DEF CalmEffect, Calm
<1> QED BY <1>13 DEF e, m, p

-----------------------------------------------------------------------------
\* An attached worker's phase is the only one that may be active, and its snapshot
\* of the phases still to do misses no queued one.
RunOrder ==
  \A w \in Workers : run[w].pc \in Attached =>
    /\ \A p \in Active(store) : p = run[w].phase
    /\ run[w].path # "resume" => In(store, "queued") \subseteq run[w].todo

OrderIInv == IInv /\ OrderInv(store) /\ RunOrder

\* The initial state is in order.
LEMMA InitOrder == Init => OrderIInv
<1> SUFFICES ASSUME Init PROVE OrderInv(store) /\ RunOrder
  BY InitInv DEF OrderIInv
<1>1. store = EmptyStore /\ \A p \in Phases : store.phase[p].status = "absent"
  BY DEF Init, EmptyStore
<1>2. store.job.status \notin OpenJob
  BY <1>1 DEF EmptyStore, OpenJob
<1>3. Active(store) = {}
  BY <1>1 DEF Active, In
<1>4. OrderInv(store)
  BY <1>1, <1>2, <1>3, EmptyStoreInv DEF OrderInv, StoreInv
<1>5. RunOrder
  BY IdleType DEF Init, RunOrder, Attached
<1> QED BY <1>4, <1>5

\* After a crash in the middle of an effect no worker is left.
LEMMA CutShortOrder ==
  ASSUME NEW e, CutShort(e)
  PROVE  RunOrder' /\ ~up' /\ store' \in e.cuts
BY IdleType DEF CutShort, PowerOff, RunOrder, Attached

\* After the end of the worker that works for the session, too.
LEMMA EndsRunOrder ==
  ASSUME IInv, NEW w \in Workers, run[w].pc \in Attached, NEW e, NEW saying, Ends(w, e, saying)
  PROVE  RunOrder' /\ (store' = e.end \/ (~up' /\ store' \in e.cuts))
<1>1. CASE CutShort(e)
  BY <1>1, CutShortOrder
<1>2. CASE store' = e.end /\ EndRun(w, saying)
  <2>1. run' = [run EXCEPT ![w] = Idle] /\ run \in [Workers -> RunType]
    BY <1>2 DEF EndRun, IInv, TypeOK
  <2>2. \A u \in Workers : run'[u].pc \notin Attached
    BY <2>1, AttachedAlone, IdleType DEF Attached
  <2> QED BY <1>2, <2>2 DEF RunOrder
<1> QED BY <1>1, <1>2 DEF Ends

\* A worker that ends with a calm effect.
LEMMA EndsOrder ==
  ASSUME IInv, NEW w \in Workers, run[w].pc \in Attached,
         NEW e, CalmEffect(store, e), NEW saying, Ends(w, e, saying)
  PROVE  RunOrder' /\ Calm(store, store')
<1>1. RunOrder' /\ (store' = e.end \/ store' \in e.cuts)
  BY EndsRunOrder
<1> QED BY <1>1 DEF CalmEffect

\* A worker that ends with an exception.
LEMMA RaisesOrder ==
  ASSUME OrderIInv, NEW w \in Workers, run[w].pc \in Attached, Raises(w)
  PROVE  RunOrder' /\ Calm(store, store')
<1>1. Ends(w, NoEffect(store), "error")
  BY DEF Raises, Ends, NoEffect, Effect
<1>2. CalmEffect(store, NoEffect(store)) /\ IInv
  BY NoEffectCalm DEF OrderIInv
<1> QED BY <1>1, <1>2, EndsOrder

\* What the order adds to what is known of an attached worker's phase.
LEMMA AttachedOrder ==
  ASSUME OrderIInv, NEW w \in Workers, run[w].pc \in Attached
  PROVE  /\ IInv /\ StoreInv(store) /\ OrderInv(store)
         /\ run[w] \in RunType
         /\ run[w].phase \in Phases
         /\ store.job.status \in OpenJob
         /\ store.phase[run[w].phase].status # "absent"
         /\ store.phase[run[w].phase].status \in {"running"} \cup TerminalPhase
         /\ store.phase[run[w].phase].status \notin TerminalPhase => Ahead(store, run[w].phase)
         /\ \A q \in Active(store) : q = run[w].phase
         /\ run[w].path # "resume" => In(store, "queued") \subseteq run[w].todo
<1> DEFINE p == run[w].phase
<1>1. /\ StoreInv(store) /\ AttachedInv(w) /\ run[w] \in RunType /\ p \in Phases
      /\ store.phase[p].status \in {"running"} \cup TerminalPhase
      /\ store.phase[p].status # "absent" /\ IInv
  BY AttachedFacts DEF OrderIInv
<1>2. store.phase[p].status \notin TerminalPhase => p \in Active(store)
  BY <1>1 DEF Active, In
<1>3. /\ OrderInv(store)
      /\ store.phase[p].status \notin TerminalPhase => Ahead(store, p)
      /\ \A q \in Active(store) : q = p
      /\ run[w].path # "resume" => In(store, "queued") \subseteq run[w].todo
  BY <1>2 DEF OrderIInv, OrderInv, RunOrder
<1> QED BY <1>1, <1>3 DEF AttachedInv

\* The reply is complete.
LEMMA TurnDoneOrder ==
  ASSUME OrderIInv, NEW w \in Workers, TurnDone(w)
  PROVE  RunOrder' /\ Calm(store, store')
<1> DEFINE p == run[w].phase
           status == store.phase[p].status
           c == PutPhase(store, p, status, "DONE")
<1>1. run[w].pc \in Attached
  BY DEF TurnDone, InTurn, Attached
<1>2. /\ IInv /\ OrderInv(store) /\ p \in Phases /\ store \in StoreType
      /\ status # "absent" /\ status \in {"running"} \cup TerminalPhase
      /\ status \notin TerminalPhase => Ahead(store, p)
      /\ \A q \in Active(store) : q = p
  BY <1>1, AttachedOrder DEF OrderInv
<1>3. status \in Statuses /\ "DONE" \in Reacts
  BY <1>2 DEF Statuses, Reacts
<1>4. Calm(store, c)
  BY <1>2, <1>3, PutPhaseCalm DEF TerminalPhase
<1>5. c.phase[p].status = status /\ \A q \in Phases : q # p => c.phase[q] = store.phase[q]
  BY <1>2, <1>3, PutPhaseForm
<1>6. store' = store \/ store' = c
  BY DEF TurnDone
<1> HIDE DEF c
<1>7. Calm(store, store')
  BY <1>2, <1>4, <1>6, CalmRefl
<1>8. \A q \in Phases : store'.phase[q].status = store.phase[q].status
  BY <1>5, <1>6
<1>9. Active(store') = Active(store) /\ In(store', "queued") = In(store, "queued")
  BY <1>8 DEF Active, In
<1>10. \A u \in Workers : run'[u].pc \in Attached =>
         /\ run[u].pc \in Attached /\ run'[u].phase = run[u].phase
         /\ run'[u].path = run[u].path /\ run'[u].todo = run[u].todo
  BY <1>1, <1>2 DEF TurnDone, IInv, TypeOK, RunType
<1> QED BY <1>7, <1>9, <1>10 DEF OrderIInv, RunOrder

\* The turn fails.
LEMMA TurnFailsOrder ==
  ASSUME OrderIInv, NEW w \in Workers, TurnFails(w)
  PROVE  RunOrder' /\ Calm(store, store')
<1>1. run[w].pc \in Attached /\ Ends(w, FailPhase(store, run[w].phase), "failed")
  BY DEF TurnFails, InTurn, Attached
<1>2. IInv /\ CalmEffect(store, FailPhase(store, run[w].phase))
  BY <1>1, AttachedOrder, FailPhaseCalm
<1> QED BY <1>1, <1>2, EndsOrder

\* The turn needs an approval.
LEMMA TurnParksOrder ==
  ASSUME OrderIInv, NEW w \in Workers, TurnParks(w)
  PROVE  RunOrder' /\ Calm(store, store')
<1> DEFINE p == run[w].phase
<1>1. run[w].pc \in Attached
  BY DEF TurnParks, InTurn, Attached
<1>2. CASE ParkRefused(store, p)
  BY <1>1, <1>2, RaisesOrder DEF TurnParks
<1>3. CASE ~ParkRefused(store, p)
  <2>1. IInv /\ CalmEffect(store, ParkPhase(store, p))
    BY <1>1, <1>3, AttachedOrder, ParkPhaseCalm DEF ParkRefused
  <2> QED BY <1>1, <1>3, <2>1, EndsOrder DEF TurnParks
<1> QED BY <1>2, <1>3

\* The step asks the operator.
LEMMA AsksOrder ==
  ASSUME OrderIInv, NEW w \in Workers, Asks(w)
  PROVE  RunOrder' /\ Calm(store, store')
<1> DEFINE p == run[w].phase
<1>1. run[w].pc \in Attached
  BY DEF Asks, InCheck, Attached
<1>2. CASE ParkRefused(store, p)
  BY <1>1, <1>2, RaisesOrder DEF Asks
<1>3. CASE ~ParkRefused(store, p)
  <2>1. IInv /\ CalmEffect(store, WaitForAnswer(store, p))
    BY <1>1, <1>3, AttachedOrder, WaitForAnswerCalm DEF ParkRefused
  <2> QED BY <1>1, <1>3, <2>1, EndsOrder DEF Asks
<1> QED BY <1>2, <1>3

\* From s to c, as many rows come as the counted replans bring.
Counted(s, c) ==
  Cardinality(Rows(c)) - Cardinality(Rows(s)) = ReplanSize * (c.checkpoint.replans - s.checkpoint.replans)

\* The checker fails: a replan is counted with its rows, unless a crash cuts it short;
\* a park and a refusal count none and bring none.
LEMMA VerifyFailsOrder ==
  ASSUME OrderIInv, NEW w \in Workers, VerifyFails(w)
  PROVE  /\ RunOrder' /\ OrderInv(store')
         /\ Counted(store, store') \/ (~up' /\ store'.checkpoint.replans = store.checkpoint.replans)
<1> DEFINE p == run[w].phase
           e == BoundedReplan(store, p)
<1>1. run[w].pc \in Attached /\ RoomToReplan(store)
  BY DEF VerifyFails, InCheck, Attached
<1>2. CASE ReplanRefused(store, p)
  <2>1. store' = store /\ Raises(w)
    BY <1>2 DEF VerifyFails, Raises
  <2>2. Counted(store, store)
    <3>1. PICK k \in 0 .. MaxPhases : \A q \in Phases : store.phase[q].status # "absent" <=> q <= k
      BY DEF OrderIInv, IInv, StoreInv
    <3>2. Cardinality(Rows(store)) = k
      BY <3>1, RowsCount
    <3>3. store.checkpoint.replans \in 0 .. MaxReplans
      BY DEF OrderIInv, OrderInv, StoreType, CheckpointType
    <3> QED BY <3>2, <3>3, ReplansAssumption, RowsAssumption DEF Counted, ReplanSize
  <2> QED BY <1>1, <2>1, <2>2, RaisesOrder DEF Calm
<1>3. CASE ~ReplanRefused(store, p)
  <2>1. /\ \A c \in e.cuts : OrderInv(c) /\ c.checkpoint.replans = store.checkpoint.replans
        /\ OrderInv(e.end) /\ Counted(store, e.end) /\ IInv
    BY <1>1, <1>3, AttachedOrder, BoundedReplanOrder DEF ParkRefused, Counted
  <2>2. \E saying : Ends(w, e, saying)
    BY <1>3 DEF VerifyFails
  <2> HIDE DEF e
  <2>3. RunOrder' /\ (store' = e.end \/ (~up' /\ store' \in e.cuts))
    BY <1>1, <2>1, <2>2, EndsRunOrder
  <2> QED BY <1>1, <2>1, <2>3
<1> QED BY <1>2, <1>3

\* A worker goes on with another phase: it is the one that is active, and what is
\* queued is still before it.
LEMMA TurnOrder ==
  ASSUME OrderIInv, NEW w \in Workers, run[w].pc \in Attached \/ live = NoWorker,
         NEW p, NEW k, NEW path, NEW todo,
         run' = [run EXCEPT ![w] = Turn(w, p, k, path, todo)],
         \A q \in Active(store') : q = p,
         path # "resume" => In(store', "queued") \subseteq todo
  PROVE  RunOrder'
<1>1. run \in [Workers -> RunType] /\ \A u \in Workers : u # w => run[u].pc \notin Attached
  BY AttachedAlone DEF OrderIInv, IInv, TypeOK
<1>2. \A u \in Workers : u # w => run'[u].pc \notin Attached
  BY <1>1
<1>3. run'[w].phase = p /\ run'[w].path = path /\ run'[w].todo = todo
  BY <1>1 DEF Turn
<1> QED BY <1>2, <1>3 DEF RunOrder

\* The phase completes: the next one is the first that is queued.
LEMMA CompletesOrder ==
  ASSUME OrderIInv, NEW w \in Workers, Completes(w)
  PROVE  RunOrder' /\ Calm(store, store')
<1> DEFINE p    == run[w].phase
           done == CompletePhase(store, p)
           s1   == done.end
           rest == Remaining(w, s1)
           next == Smallest(rest)
           f    == StartPhase(s1, next)
           e    == Then(done, f)
           path == IF run[w].path = "mint" THEN "mint" ELSE "rest"
<1>1. run[w].pc \in Attached
  BY DEF Completes, InCheck, Attached
<1>2. /\ IInv /\ StoreInv(store) /\ OrderInv(store) /\ run[w] \in RunType /\ p \in Phases
      /\ store.phase[p].status # "absent"
      /\ \A q \in Active(store) : q = p
      /\ run[w].path # "resume" => In(store, "queued") \subseteq run[w].todo
  BY <1>1, AttachedOrder
<1>3. CASE CompleteRefused(store, p)
  <2>1. Ends(w, FailPhase(store, p), "failed")
    BY <1>3 DEF Completes
  <2>2. CalmEffect(store, FailPhase(store, p))
    BY <1>2, FailPhaseCalm
  <2> QED BY <1>1, <1>2, <2>1, <2>2, EndsOrder
<1>4. CASE ~CompleteRefused(store, p)
  <2>1. /\ GoodEffect(store, done)
        /\ s1.phase[p].status = "done"
        /\ \A q \in Phases : q # p => s1.phase[q] = store.phase[q]
    BY <1>2, <1>4, CompletePhaseGood
  <2>2. CalmEffect(store, done)
    BY <1>2, <1>4, CompletePhaseCalm
  <2>3. StoreInv(s1) /\ OrderInv(s1) /\ Calm(store, s1)
    BY <2>1, <2>2 DEF GoodEffect, Good, CalmEffect, Calm
  <2>4. Active(s1) = {} /\ In(s1, "queued") \subseteq In(store, "queued")
    BY <1>2, <2>1 DEF Active, In
  <2>5. In(s1, "queued") \subseteq rest
    BY <1>2, <2>4 DEF Remaining, In, TerminalPhase
  <2>6. CASE rest = {}
    <3>1. Ends(w, done, "done")
      BY <1>4, <2>6 DEF Completes
    <3> QED BY <1>1, <1>2, <2>2, <3>1, EndsOrder
  <2>7. CASE rest # {}
    <3>1. next \in rest /\ next \in Phases /\ \A q \in rest : next <= q
      <4>1. rest \in SUBSET Phases
        BY <1>2 DEF Remaining, In, RunType
      <4> HIDE DEF rest
      <4> QED BY <2>7, <4>1, SmallestLeast
    <3>2. CASE ~StartRefused(s1, next)
      <4>1. \/ /\ store' = e.end
               /\ run' = [run EXCEPT ![w] = Turn(w, next, w, path, rest \ {next})]
            \/ CutShort(e)
        BY <1>4, <2>7, <3>2 DEF Completes
      <4> HIDE DEF rest, next, s1, done, path
      <4>2. s1.phase[next].status = "queued"
        BY <2>4, <3>1, <3>2 DEF StartRefused, Startable, Active, In
      <4>3. next \in In(s1, "queued") /\ \A q \in In(s1, "queued") : next <= q
        BY <2>5, <3>1, <4>2 DEF In
      <4>4. Ahead(s1, next)
        BY <2>3, <2>4, <4>3, LeastQueuedAhead
      <4>5. CalmEffect(s1, f)
        BY <2>3, <2>4, <3>1, <3>2, <4>4, StartPhaseCalm
      <4>6. /\ f.end.phase[next].status = "running"
            /\ \A q \in Phases : q # next => f.end.phase[q] = s1.phase[q]
        <5>1. \A q \in Phases : s1.phase[q].status # "running"
          BY <2>4 DEF Active, In
        <5> QED BY <2>3, <3>1, <3>2, <5>1, StartPhaseGood
      <4> HIDE DEF f
      <4>7. CalmEffect(store, e) /\ e.end = f.end
        BY <2>2, <4>5, CalmThen DEF s1
      <4> HIDE DEF e
      <4>8. CASE CutShort(e)
        <5>1. RunOrder' /\ store' \in e.cuts
          BY <4>8, CutShortOrder
        <5> QED BY <4>7, <5>1 DEF CalmEffect
      <4>9. CASE /\ store' = e.end
                 /\ run' = [run EXCEPT ![w] = Turn(w, next, w, path, rest \ {next})]
        <5>1. \A q \in Active(store') : q = next
          BY <2>4, <4>6, <4>7, <4>9 DEF Active, In
        <5>2. In(store', "queued") \subseteq rest \ {next}
          BY <2>5, <4>6, <4>7, <4>9 DEF In
        <5>3. Calm(store, store')
          BY <4>7, <4>9 DEF CalmEffect
        <5> QED BY <1>1, <4>9, <5>1, <5>2, <5>3, TurnOrder
      <4> QED BY <4>1, <4>8, <4>9
    <3>3. CASE StartRefused(s1, next) /\ path = "mint"
      <4>1. \/ /\ store' = s1
               /\ run' = [run EXCEPT ![w] = Turn(w, next, token[next], path, rest \ {next})]
            \/ CutShort(done)
        BY <1>4, <2>7, <3>3 DEF Completes
      <4>2. next \notin In(s1, "queued")
        BY <2>3, <3>3 DEF StartRefused, Startable, In, StoreInv
      <4> HIDE DEF rest, next, s1, done, path
      <4>3. CASE CutShort(done)
        <5>1. RunOrder' /\ store' \in done.cuts
          BY <4>3, CutShortOrder
        <5> QED BY <2>2, <5>1 DEF CalmEffect
      <4>4. CASE /\ store' = s1
                 /\ run' = [run EXCEPT ![w] = Turn(w, next, token[next], path, rest \ {next})]
        BY <1>1, <2>3, <2>4, <2>5, <4>2, <4>4, TurnOrder
      <4> QED BY <4>1, <4>3, <4>4
    <3>4. CASE StartRefused(s1, next) /\ path # "mint"
      <4>1. Ends(w, done, "error")
        BY <1>4, <2>7, <3>4 DEF Completes
      <4> QED BY <1>1, <1>2, <2>2, <4>1, EndsOrder
    <3> QED BY <3>2, <3>3, <3>4
  <2> QED BY <2>6, <2>7
<1> QED BY <1>3, <1>4

\* The plan offered a choice.
LEMMA OffersChoiceOrder ==
  ASSUME OrderIInv, NEW w \in Workers, OffersChoice(w)
  PROVE  RunOrder' /\ Calm(store, store')
<1> DEFINE done == CompletePhase(store, 1)
<1>1. run[w].pc \in Attached /\ run[w].phase = 1 /\ ~CompleteRefused(store, 1)
  BY DEF OffersChoice, InCheck, Attached
<1>2. /\ IInv /\ 1 \in Phases /\ StoreInv(store) /\ OrderInv(store)
      /\ store.phase[1].status # "absent" /\ \A q \in Active(store) : q = 1
  BY <1>1, AttachedOrder
<1>3. CalmEffect(store, done) /\ done.end.phase[1].status = "done"
  BY <1>1, <1>2, CompletePhaseGood, CompletePhaseCalm
<1>4. Ends(w, done, "error")
  BY <1>3 DEF OffersChoice, ParkRefused, TerminalPhase
<1> QED BY <1>1, <1>2, <1>3, <1>4, EndsOrder

\* The operator resumes, or answers.
LEMMA ResumeOrder ==
  ASSUME OrderIInv, NEW w \in Workers, Resume(w)
  PROVE  RunOrder' /\ Calm(store, store')
<1> DEFINE p      == ContinuePhase(store)
           found  == ResumeAfterCrash(store)
           s1     == found.end
           starts == ~StartRefused(s1, p)
           f      == StartPhase(s1, p)
           e      == IF starts THEN Then(found, f) ELSE found
           holder == IF starts THEN w ELSE token[p]
<1>1. live = NoWorker /\ Resumable(store) /\ StoreInv(store) /\ OrderInv(store)
  BY DEF Resume, CanStream, SessionFree, OrderIInv, IInv
<1>2. \/ /\ store' = e.end
         /\ run' = [run EXCEPT ![w] = Turn(w, p, holder, "resume", {})]
      \/ CutShort(e)
  BY DEF Resume
<1>3. /\ p \in Phases
      /\ GoodEffect(store, found)
      /\ \A q \in Phases : s1.phase[q].status # "running"
  BY <1>1, ResumeAfterCrashGood
<1>4. /\ CalmEffect(store, found)
      /\ Ahead(s1, p)
      /\ \A q \in Active(s1) : q = p
  BY <1>1, ResumeAfterCrashCalm
<1>5. StoreInv(s1) /\ OrderInv(s1)
  BY <1>3, <1>4 DEF GoodEffect, Good, CalmEffect, Calm
<1> HIDE DEF found, p
<1>6. CalmEffect(store, e) /\ \A q \in Active(e.end) : q = p
  <2>1. CASE starts
    <3>1. /\ CalmEffect(s1, f)
          /\ \A q \in Phases : q # p => f.end.phase[q] = s1.phase[q]
      BY <1>3, <1>4, <1>5, <2>1, StartPhaseGood, StartPhaseCalm
    <3> HIDE DEF f
    <3>2. CalmEffect(store, Then(found, f)) /\ Then(found, f).end = f.end
      BY <1>4, <3>1, CalmThen
    <3>3. \A q \in Active(f.end) : q = p
      BY <1>4, <3>1 DEF Active, In
    <3>4. e = Then(found, f)
      BY <2>1
    <3> HIDE DEF e
    <3> QED BY <3>2, <3>3, <3>4
  <2>2. CASE ~starts
    BY <1>4, <2>2
  <2> QED BY <2>1, <2>2
<1> HIDE DEF e
<1>7. CASE CutShort(e)
  <2>1. RunOrder' /\ store' \in e.cuts
    BY <1>7, CutShortOrder
  <2> QED BY <1>6, <2>1 DEF CalmEffect
<1>8. CASE /\ store' = e.end
           /\ run' = [run EXCEPT ![w] = Turn(w, p, holder, "resume", {})]
  <2>1. Calm(store, store') /\ \A q \in Active(store') : q = p
    BY <1>6, <1>8 DEF CalmEffect
  <2> HIDE DEF holder
  <2> QED BY <1>1, <1>8, <2>1, TurnOrder
<1> QED BY <1>2, <1>7, <1>8

\* A job is minted and its first phases started.
LEMMA RunAsJobOrder ==
  ASSUME OrderIInv, NEW w \in Workers, RunAsJob(w)
  PROVE  RunOrder' /\ OrderInv(store')
<1>1. PICK plan \in FirstPlans, wiki \in {FALSE, Wiki} :
        LET research == plan[1] = "research"
            minted   == Minted(plan, wiki)
            first    == Then(minted, StartPhase(minted.end, 1))
            skipped  == Then(first, CompletePhase(first.end, 1))
            e        == IF research THEN Then(skipped, StartPhase(skipped.end, 2)) ELSE first
            p        == e.end.job.current
        IN \/ /\ store' = e.end
              /\ live' = w
              /\ token' = [q \in Phases |-> IF q <= p THEN w ELSE token[q]]
              /\ run' = [run EXCEPT ![w] = Turn(w, p, w, "mint", {q \in DOMAIN plan : q > p})]
              /\ UNCHANGED <<up, told>>
           \/ CutShort(e)
  BY DEF RunAsJob
<1> DEFINE research == plan[1] = "research"
           minted   == Minted(plan, wiki)
           m        == minted.end
           f1       == StartPhase(m, 1)
           first    == Then(minted, f1)
           f2       == CompletePhase(first.end, 1)
           skipped  == Then(first, f2)
           f3       == StartPhase(skipped.end, 2)
           third    == Then(skipped, f3)
           e        == IF research THEN third ELSE first
           p        == e.end.job.current
           todo     == {q \in DOMAIN plan : q > p}
           Ordered(x) == \A c \in x.cuts \cup {x.end} : OrderInv(c)
<1>2. \/ /\ store' = e.end
         /\ run' = [run EXCEPT ![w] = Turn(w, p, w, "mint", todo)]
      \/ CutShort(e)
  BY <1>1
<1>3. live = NoWorker
  BY DEF RunAsJob, CanStream, SessionFree
<1>4. PICK n \in 2 .. 3 : /\ DOMAIN plan = 1 .. n
                          /\ \A q \in 1 .. n : plan[q] \in Lanes /\ q \in Phases
  BY PlanFacts
<1>5. 1 \in Phases /\ 2 \in Phases
  BY RowsAssumption DEF Phases
<1>6. \A c \in minted.cuts \cup {m} : Planned(c, plan)
  BY MintedPlanned, SwitchesAssumption
<1> HIDE DEF minted
<1>7. /\ Ordered(minted) /\ StoreInv(m) /\ OrderInv(m) /\ Active(m) = {}
      /\ In(m, "queued") = DOMAIN plan
      /\ ~StartRefused(m, 1)
  <2>1. 1 \in DOMAIN plan
    BY <1>4
  <2> QED BY <1>5, <1>6, <2>1, PlannedOrder DEF Planned, StartRefused, Startable
<1>8. CalmEffect(m, f1)
  BY <1>5, <1>7, FirstAhead, StartPhaseCalm
<1>9. /\ GoodEffect(m, f1)
      /\ f1.end.job = [status |-> "running", current |-> 1]
      /\ f1.end.phase[1].status = "running"
      /\ \A q \in Phases : q # 1 => f1.end.phase[q] = m.phase[q]
  <2>1. \A q \in Phases : m.phase[q].status # "running"
    BY <1>7 DEF Active, In
  <2> QED BY <1>5, <1>7, <2>1, StartPhaseGood
<1> HIDE DEF f1
<1>10. Ordered(first) /\ first.end = f1.end
  BY <1>7, <1>8 DEF Then, Effect, CalmEffect, Calm
<1>11. /\ StoreInv(first.end) /\ OrderInv(first.end) /\ first.end.job.current = 1
       /\ Active(first.end) = {1} /\ In(first.end, "queued") = {q \in DOMAIN plan : q > 1}
  <2>1. Active(first.end) = {1}
    BY <1>5, <1>7, <1>9, <1>10 DEF Active, In
  <2>2. In(first.end, "queued") = In(m, "queued") \ {1}
    BY <1>5, <1>9, <1>10 DEF In
  <2>3. (1 .. n) \ {1} = {q \in 1 .. n : q > 1}
    OBVIOUS
  <2> QED BY <1>4, <1>7, <1>9, <1>10, <2>1, <2>2, <2>3 DEF GoodEffect, Good
<1>12. CASE ~research
  <2>1. e = first /\ p = 1
    BY <1>11, <1>12
  <2> HIDE DEF first, e, p
  <2>2. CASE CutShort(e)
    BY <1>10, <2>1, <2>2, CutShortOrder
  <2>3. CASE /\ store' = e.end
             /\ run' = [run EXCEPT ![w] = Turn(w, p, w, "mint", todo)]
    <3>1. (\A q \in Active(store') : q = p) /\ In(store', "queued") \subseteq todo
      BY <1>11, <2>1, <2>3
    <3> HIDE DEF todo
    <3> QED BY <1>3, <1>11, <2>1, <2>3, <3>1, TurnOrder
  <2> QED BY <1>2, <2>2, <2>3
<1>13. CASE research
  <2>1. first.end.phase[1].status = "running" /\ ~CompleteRefused(first.end, 1)
    BY <1>9, <1>10 DEF CompleteRefused
  <2> HIDE DEF first
  <2>2. /\ GoodEffect(first.end, f2)
        /\ f2.end.phase[1].status = "done"
        /\ \A q \in Phases : q # 1 => f2.end.phase[q] = first.end.phase[q]
    BY <1>5, <1>11, <2>1, CompletePhaseGood
  <2>3. CalmEffect(first.end, f2)
    <3>1. first.end.phase[1].status # "absent" /\ \A q \in Active(first.end) : q = 1
      BY <1>11, <2>1
    <3> QED BY <1>5, <1>11, <2>1, <3>1, CompletePhaseCalm
  <2> HIDE DEF f2
  <2>4. Ordered(skipped) /\ skipped.end = f2.end
    BY <1>10, <2>3 DEF Then, Effect, CalmEffect, Calm
  <2>5. /\ StoreInv(skipped.end) /\ OrderInv(skipped.end) /\ Active(skipped.end) = {}
        /\ In(skipped.end, "queued") = {q \in DOMAIN plan : q > 1}
    <3>1. Active(skipped.end) = {}
      BY <1>5, <1>11, <2>2, <2>4 DEF Active, In
    <3>2. In(skipped.end, "queued") = In(first.end, "queued")
      BY <2>1, <2>2, <2>4 DEF In
    <3> QED BY <1>11, <2>2, <2>4, <3>1, <3>2 DEF GoodEffect, Good
  <2> HIDE DEF skipped
  <2>6. 2 \in In(skipped.end, "queued") /\ \A q \in In(skipped.end, "queued") : 2 <= q
    BY <1>4, <2>5
  <2>7. Ahead(skipped.end, 2)
    BY <2>5, <2>6, LeastQueuedAhead
  <2>8. ~StartRefused(skipped.end, 2)
    BY <2>5, <2>6 DEF StartRefused, Startable, In, StoreInv
  <2>9. CalmEffect(skipped.end, f3)
    BY <1>5, <2>5, <2>7, <2>8, StartPhaseCalm
  <2>10. /\ f3.end.job = [status |-> "running", current |-> 2]
         /\ f3.end.phase[2].status = "running"
         /\ \A q \in Phases : q # 2 => f3.end.phase[q] = skipped.end.phase[q]
    <3>1. \A q \in Phases : skipped.end.phase[q].status # "running"
      BY <2>5 DEF Active, In
    <3> QED BY <1>5, <2>5, <2>8, <3>1, StartPhaseGood
  <2> HIDE DEF f3
  <2>11. Ordered(third) /\ third.end = f3.end
    BY <2>4, <2>9 DEF Then, Effect, CalmEffect, Calm
  <2> HIDE DEF third
  <2>12. e = third /\ p = 2
    BY <1>13, <2>10, <2>11
  <2> HIDE DEF e, p
  <2>13. CASE CutShort(e)
    BY <2>11, <2>12, <2>13, CutShortOrder
  <2>14. CASE /\ store' = e.end
              /\ run' = [run EXCEPT ![w] = Turn(w, p, w, "mint", todo)]
    <3>1. \A q \in Active(store') : q = p
      BY <2>5, <2>10, <2>11, <2>12, <2>14 DEF Active, In
    <3>2. In(store', "queued") \subseteq In(skipped.end, "queued") \ {2}
      BY <2>10, <2>11, <2>12, <2>14 DEF In
    <3>3. In(store', "queued") \subseteq todo
      BY <1>4, <2>5, <2>12, <3>2
    <3> HIDE DEF todo
    <3> QED BY <1>3, <2>11, <2>12, <2>14, <3>1, <3>3, TurnOrder
  <2> QED BY <1>2, <2>13, <2>14
<1> QED BY <1>12, <1>13

\* A job about the wiki is parked before a phase has run.
LEMMA NeedsSourcesOrder ==
  ASSUME OrderIInv, NEW w \in Workers, NeedsSources(w)
  PROVE  RunOrder' /\ OrderInv(store')
<1>1. Wiki /\ live = NoWorker /\ IInv
  BY DEF NeedsSources, CanStream, SessionFree, OrderIInv
<1>2. PICK plan \in FirstPlans :
        LET minted == MintJob(plan, plan[1] = "research")
            e      == Then(minted, ParkForSources(minted.end, FormulateOf(plan)))
        IN \/ store' = e.end /\ told' = "waiting" /\ UNCHANGED <<up, live, token, run>>
           \/ CutShort(e)
  BY DEF NeedsSources
<1> DEFINE m == MintJob(plan, plan[1] = "research")
           e == Then(m, ParkForSources(m.end, FormulateOf(plan)))
<1>3. \A c \in e.cuts \cup {e.end} : OrderInv(c)
  BY <1>1, ParkForSourcesOrder
<1>4. \/ store' = e.end /\ run' = run
      \/ CutShort(e)
  BY <1>2
<1> HIDE DEF e
<1>5. CASE CutShort(e)
  BY <1>3, <1>5, CutShortOrder
<1>6. CASE store' = e.end /\ run' = run
  <2>1. \A u \in Workers : run'[u].pc \notin Attached
    BY <1>1, <1>6, WorkersAssumption DEF IInv, RunInv, AttachedInv
  <2> QED BY <1>3, <1>6, <2>1 DEF RunOrder
<1> QED BY <1>4, <1>5, <1>6

\* The operator stops the worker.
LEMMA StopOrder ==
  ASSUME OrderIInv, NEW w \in Workers, Stop(w)
  PROVE  RunOrder' /\ Calm(store, store')
<1> DEFINE e == KillSession(store)
           r == [run[w] EXCEPT !.pc = IF @ = "turn" THEN "stopTurn" ELSE "stopCheck"]
<1>1. /\ run[w].pc \in Attached
      /\ (store' = e.end /\ run' = [run EXCEPT ![w] = r]) \/ CutShort(e)
  BY DEF Stop
<1>2. CalmEffect(store, e) /\ IInv /\ run[w] \in RunType /\ run \in [Workers -> RunType]
  BY KillSessionCalm DEF OrderIInv, IInv, TypeOK
<1> HIDE DEF e
<1>3. CASE CutShort(e)
  <2>1. RunOrder' /\ store' \in e.cuts
    BY <1>3, CutShortOrder
  <2> QED BY <1>2, <2>1 DEF CalmEffect
<1>4. CASE store' = e.end /\ run' = [run EXCEPT ![w] = r]
  <2>1. r.pc \notin Attached
    BY <1>2 DEF RunType, Attached
  <2> HIDE DEF r
  <2>2. \A u \in Workers : run'[u].pc \notin Attached
    BY <1>1, <1>2, <1>4, <2>1, AttachedAlone
  <2> QED BY <1>2, <1>4, <2>2 DEF RunOrder, CalmEffect
<1> QED BY <1>1, <1>3, <1>4

\* The stopped worker unwinds: the phase of a new run is not its own any more.
LEMMA UnwindOrder ==
  ASSUME OrderIInv, NEW w \in Workers, Unwind(w)
  PROVE  RunOrder' /\ Calm(store, store')
<1> DEFINE p == run[w].phase
           e == IF run[w].pc = "stopTurn" /\ ~Stale(w)
                THEN KillPhase(store, p, "operator_kill") ELSE NoEffect(store)
<1>1. IInv /\ OrderInv(store) /\ Ends(w, e, told) /\ run[w].pc # "idle"
  BY DEF Unwind, Detached, OrderIInv
<1>2. p \in Phases /\ run \in [Workers -> RunType] /\ BusyInv(w)
  BY <1>1 DEF IInv, RunInv, BusyInv, TypeOK
<1>3. CalmEffect(store, e)
  BY <1>1, <1>2, KillPhaseCalm, NoEffectCalm DEF Reasons
<1>4. \A q \in Phases :
        \/ e.end.phase[q] = store.phase[q]
        \/ q = p /\ ~Stale(w) /\ store.phase[q].status = "running"
  BY <1>1, UnwindEffect
<1> HIDE DEF e
<1>5. CASE CutShort(e)
  <2>1. RunOrder' /\ store' \in e.cuts
    BY <1>5, CutShortOrder
  <2> QED BY <1>3, <2>1 DEF CalmEffect
<1>6. CASE store' = e.end /\ EndRun(w, told)
  <2>1. run' = [run EXCEPT ![w] = Idle]
    BY <1>6 DEF EndRun
  <2>2. ASSUME NEW u \in Workers, run'[u].pc \in Attached
        PROVE  /\ run'[u] = run[u] /\ run[u].pc \in Attached
               /\ Active(store') = Active(store) /\ In(store', "queued") = In(store, "queued")
    <3>1. u # w /\ run'[u] = run[u] /\ run[u].pc \in Attached
      BY <1>2, <2>1, <2>2, IdleType DEF Attached
    <3>2. AttachedInv(u)
      BY <1>1, <3>1, AttachedFacts
    <3>3. store.phase[p].status # "running" \/ Stale(w)
      <4> SUFFICES ASSUME store.phase[p].status = "running" PROVE Stale(w)
        OBVIOUS
      <4>1. run[w].token = w
        BY <1>2 DEF BusyInv, TerminalPhase
      <4>2. p = run[u].phase /\ token[p] = u
        BY <1>2, <3>2 DEF AttachedInv, TerminalPhase
      <4> QED BY <3>1, <4>1, <4>2, WorkersAssumption DEF Stale
    <3>4. \A q \in Phases : store'.phase[q] = store.phase[q]
      BY <1>4, <1>6, <3>3
    <3> QED BY <3>1, <3>4 DEF Active, In
  <2>3. Calm(store, store')
    BY <1>3, <1>6 DEF CalmEffect
  <2> QED BY <2>2, <2>3 DEF OrderIInv, RunOrder
<1> QED BY <1>1, <1>5, <1>6 DEF Ends

\* The server starts and repairs.
LEMMA BootOrder == ASSUME OrderIInv, Boot PROVE RunOrder' /\ Calm(store, store')
<1> DEFINE e == StartUp(store)
<1>1. CalmEffect(store, e)
  BY StartUpCalm DEF OrderIInv, IInv
<1>2. (store' = e.end /\ run' = run) \/ CutShort(e)
  BY DEF Boot
<1>3. \A w \in Workers : run[w].pc = "idle"
  BY DEF Boot, OrderIInv, IInv, RunInv, BusyInv
<1> HIDE DEF e
<1>4. CASE CutShort(e)
  <2>1. RunOrder' /\ store' \in e.cuts
    BY <1>4, CutShortOrder
  <2> QED BY <1>1, <2>1 DEF CalmEffect
<1>5. CASE store' = e.end /\ run' = run
  BY <1>1, <1>3, <1>5 DEF RunOrder, Attached, CalmEffect
<1> QED BY <1>2, <1>4, <1>5

\* The server dies.
LEMMA CrashOrder == ASSUME OrderIInv, Crash PROVE RunOrder' /\ Calm(store, store')
<1>1. store' = store /\ \A w \in Workers : run'[w].pc = "idle"
  BY IdleType DEF Crash, PowerOff
<1> QED BY <1>1, CalmRefl DEF OrderIInv, RunOrder, Attached

\* Every step keeps the order; only minting and the checker's failure add rows.
LEMMA StepOrder ==
  ASSUME OrderIInv, Next
  PROVE  /\ OrderIInv'
         /\ \/ Calm(store, store')
            \/ store.job.status = "none"
            \/ Counted(store, store')
            \/ ~up' /\ store'.checkpoint.replans = store.checkpoint.replans
<1>1. IInv'
  BY NextInv DEF OrderIInv
<1>2. CASE Crash \/ Boot
  BY <1>1, <1>2, CrashOrder, BootOrder DEF OrderIInv, Calm
<1>3. ASSUME NEW w \in Workers, RunAsJob(w) \/ NeedsSources(w)
      PROVE  RunOrder' /\ OrderInv(store') /\ store.job.status = "none"
  BY <1>3, RunAsJobOrder, NeedsSourcesOrder DEF RunAsJob, NeedsSources
<1>4. ASSUME NEW w \in Workers, VerifyFails(w)
      PROVE  /\ RunOrder' /\ OrderInv(store')
             /\ Counted(store, store') \/ (~up' /\ store'.checkpoint.replans = store.checkpoint.replans)
  BY <1>4, VerifyFailsOrder
<1>5. ASSUME NEW w \in Workers, Step(w), ~(RunAsJob(w) \/ NeedsSources(w) \/ VerifyFails(w))
      PROVE  RunOrder' /\ Calm(store, store')
  BY <1>5, ResumeOrder, TurnDoneOrder, TurnFailsOrder, TurnParksOrder, AsksOrder, CompletesOrder,
     OffersChoiceOrder, StopOrder, UnwindOrder DEF Step
<1> QED BY <1>1, <1>2, <1>3, <1>4, <1>5 DEF Next, OrderIInv, Calm

\* Every reachable state is in order.
LEMMA OrderInvariant == Spec => []OrderIInv
<1>1. OrderIInv /\ [Next]_vars => OrderIInv'
  <2>1. ASSUME OrderIInv, UNCHANGED vars PROVE OrderIInv'
    BY <2>1, NextInv DEF vars, OrderIInv, RunOrder
  <2> QED BY <2>1, StepOrder
<1> QED BY <1>1, InitOrder, PTL DEF Spec

\* No phase runs while one before it is still to be done, for any number of workers,
\* replans and phases, and wherever a crash cuts an operation short; the exception is
\* the Research of a job about the wiki.
THEOREM InOrderHolds == Spec => []InOrder
<1>1. OrderIInv => InOrder
  <2> SUFFICES ASSUME OrderIInv, NEW p \in In(store, "running"), NEW q \in Rows(store), q < p
               PROVE  \/ store.phase[q].status \in TerminalPhase
                      \/ Wiki /\ store.phase[q].lane = "research"
    BY DEF InOrder
  <2>1. Ahead(store, p)
    BY DEF OrderIInv, OrderInv, Active
  <2> QED BY <2>1 DEF Ahead, Rows
<1> QED BY <1>1, OrderInvariant, PTL

\* A replan is counted in the step that makes it, or the process dies in that step;
\* nothing else moves the counter or adds a row.
THEOREM ReplansCountedHolds == Spec => ReplansCounted
<1> DEFINE Kept ==
      store.job.status # "none" =>
        LET made == Cardinality(Rows(store')) - Cardinality(Rows(store))
        IN \/ made = ReplanSize * (store'.checkpoint.replans - store.checkpoint.replans)
           \/ ~up' /\ store'.checkpoint.replans = store.checkpoint.replans
<1>1. OrderIInv /\ [Next]_vars => [Kept]_vars
  <2> SUFFICES ASSUME OrderIInv, Next PROVE Kept
    OBVIOUS
  <2>1. CASE Calm(store, store')
    <3>1. Rows(store') = Rows(store) /\ store'.checkpoint.replans = store.checkpoint.replans
      BY <2>1 DEF Calm, Rows
    <3>2. PICK k \in 0 .. MaxPhases : \A q \in Phases : store.phase[q].status # "absent" <=> q <= k
      BY DEF OrderIInv, IInv, StoreInv
    <3>3. Cardinality(Rows(store)) = k
      BY <3>2, RowsCount
    <3>4. store.checkpoint.replans \in 0 .. MaxReplans
      BY DEF OrderIInv, OrderInv, StoreType, CheckpointType
    <3> QED BY <3>1, <3>3, <3>4, ReplansAssumption, RowsAssumption DEF ReplanSize
  <2> QED BY <2>1, StepOrder DEF Counted
<1> QED BY <1>1, OrderInvariant, PTL DEF Spec, ReplansCounted

-----------------------------------------------------------------------------
(* Between two actions, when no crash splits one: the job row, the phase     *)
(* rows and the checkpoint agree.                                            *)

\* The phase in front is the one the job row names; an open job has no failed phase,
\* a done one nothing left; a waiting one is parked; and a job that stands still with
\* its row saying running tells why, and for an answer, who asked.
Settled(s) ==
  /\ \A p \in Phases : s.phase[p].status = "running" => s.job.status = "running" /\ s.job.current = p
  /\ \A p \in Phases : s.phase[p].status = "waiting" => s.job.status = "waiting" /\ s.job.current = p
  /\ s.job.status \in OpenJob =>
       /\ s.phase[s.job.current].status \in {"queued", "running", "waiting"}
       /\ \A p \in Phases : s.phase[p].status # "failed"
  /\ s.job.status = "done" =>
       \A p \in Phases : s.phase[p].status \in {"absent", "done", "cancelled"}
  /\ s.job.status = "waiting" => s.checkpoint.parked = TRUE
  /\ s.job.status # "none" => s.checkpoint.phase # NoPhase
  /\ s.job.status = "none" => \A p \in Phases : s.phase[p].status = "absent"
  /\ s.job.status = "running" /\ (\A p \in Phases : s.phase[p].status # "running") =>
       /\ s.checkpoint.reason = "answer" => s.checkpoint.phase = s.job.current
       /\ \/ s.checkpoint.reason \in KillReasons \cup {"answer"}
          \/ LeftByReplan(s) \/ LeftByChoice(s)
  /\ s.job.status = "queued" => LeftByReplan(s)

\* Nothing runs in store s.
Still(s) == \A p \in Phases : s.phase[p].status # "running"

\* From s to c, done phases stay done.
DoneKept(s, c) == \A p \in Phases : s.phase[p].status = "done" => c.phase[p].status = "done"

\* The statuses an operation gives a job row that exists.
JobStatuses == {"queued", "running", "waiting", "done", "failed"}

\* The end of an operation that writes a phase row, a checkpoint and the job row.
LEMMA CommitsForm ==
  ASSUME NEW s \in StoreType, NEW p \in Phases, NEW n \in Phases,
         NEW status \in Statuses, NEW react \in Reacts, NEW parked \in BOOLEAN, NEW reason \in Reasons,
         NEW job \in JobStatuses
  PROVE  LET c == PutJob(Checkpoint(PutPhase(s, p, status, react), p, parked, reason), job, n)
         IN /\ c \in StoreType
            /\ c.job = [status |-> job, current |-> n]
            /\ c.phase[p].status = status
            /\ \A q \in Phases : q # p => c.phase[q] = s.phase[q]
            /\ c.checkpoint.phase = p /\ c.checkpoint.parked = parked /\ c.checkpoint.reason = reason
<1> DEFINE s1 == PutPhase(s, p, status, react)
           s2 == Checkpoint(s1, p, parked, reason)
           s3 == PutJob(s2, job, n)
<1>1. /\ s1 \in StoreType /\ s1.phase[p].status = status
      /\ \A q \in Phases : q # p => s1.phase[q] = s.phase[q]
  BY PutPhaseForm
<1> HIDE DEF s1
<1>2. /\ s2 \in StoreType /\ s2.phase = s1.phase
      /\ s2.checkpoint.phase = p /\ s2.checkpoint.parked = parked /\ s2.checkpoint.reason = reason
  BY <1>1, CheckpointForm
<1> HIDE DEF s2
<1>3. /\ s3 \in StoreType /\ s3.job = [status |-> job, current |-> n]
      /\ s3.phase = s2.phase /\ s3.checkpoint = s2.checkpoint
  BY <1>2, PutJobForm DEF JobStatuses
<1> QED BY <1>1, <1>2, <1>3 DEF s1, s2

\* Taking the running phase out of its run: failed with the job, parked with the job,
\* or queued again with a reason in the checkpoint.
LEMMA TakenOut ==
  ASSUME NEW s, Settled(s), NEW p \in Phases, s.phase[p].status = "running",
         NEW c, \A q \in Phases : q # p => c.phase[q] = s.phase[q],
         c.job.current = p, c.checkpoint.phase = p,
         \/ c.phase[p].status = "failed" /\ c.job.status = "failed"
         \/ c.phase[p].status = "waiting" /\ c.job.status = "waiting" /\ c.checkpoint.parked = TRUE
         \/ /\ c.phase[p].status = "queued" /\ c.job.status = "running"
            /\ c.checkpoint.reason \in KillReasons \cup {"answer"}
  PROVE  Settled(c) /\ Still(c) /\ DoneKept(s, c)
<1>1. s.job.status = "running" /\ s.job.current = p
  BY DEF Settled
<1>2. \A q \in Phases : q # p => /\ s.phase[q].status # "running" /\ s.phase[q].status # "waiting"
                                 /\ s.phase[q].status # "failed"
  BY <1>1 DEF Settled, OpenJob
<1>3. \A q \in Phases : q # p => c.phase[q].status = s.phase[q].status
  OBVIOUS
<1>4. Still(c)
  BY <1>2, <1>3 DEF Still
<1>5. DoneKept(s, c)
  BY <1>3 DEF DoneKept
<1>6. p # NoPhase
  BY RowsAssumption DEF Phases, NoPhase
<1>7. Settled(c)
  BY <1>1, <1>2, <1>3, <1>6 DEF Settled, OpenJob
<1> QED BY <1>4, <1>5, <1>7

\* fail_phase on the running phase.
LEMMA FailPhaseSettled ==
  ASSUME NEW s \in StoreType, Settled(s), NEW p \in Phases, s.phase[p].status = "running"
  PROVE  LET c == FailPhase(s, p).end IN Settled(c) /\ Still(c) /\ DoneKept(s, c)
<1> DEFINE parked == FALSE
           c == PutJob(Checkpoint(PutPhase(s, p, "failed", "FAILED"), p, parked, "failure"), "failed", p)
<1>1. FailPhase(s, p).end = c /\ parked \in BOOLEAN
  BY DEF FailPhase, Effect
<1>0. "failed" \in Statuses /\ "FAILED" \in Reacts /\ "failure" \in Reasons /\ "failed" \in JobStatuses
  BY DEF Statuses, TerminalPhase, Reacts, Reasons, JobStatuses
<1> HIDE DEF parked
<1>2. /\ c.job = [status |-> "failed", current |-> p] /\ c.phase[p].status = "failed"
      /\ \A q \in Phases : q # p => c.phase[q] = s.phase[q]
      /\ c.checkpoint.phase = p
  BY <1>0, <1>1, CommitsForm
<1> HIDE DEF c
<1>3. c.job.status = "failed" /\ c.job.current = p
  BY <1>2
<1>4. Settled(c) /\ Still(c) /\ DoneKept(s, c)
  BY <1>2, <1>3, TakenOut
<1> QED BY <1>1, <1>4

\* park_phase on the running phase, with whatever the checkpoint is stamped after it.
LEMMA ParkPhaseSettled ==
  ASSUME NEW s \in StoreType, Settled(s), NEW p \in Phases, s.phase[p].status = "running"
  PROVE  LET c == ParkPhase(s, p).end
             d == Checkpoint(c, p, TRUE, "failure")
         IN /\ Settled(c) /\ Still(c) /\ DoneKept(s, c)
            /\ Settled(d) /\ Still(d) /\ DoneKept(s, d)
<1> DEFINE parked == TRUE
           reason == s.checkpoint.reason
           c == PutJob(Checkpoint(PutPhase(s, p, "waiting", "PARKED"), p, parked, reason), "waiting", p)
           d == Checkpoint(c, p, parked, "failure")
<1>1. ParkPhase(s, p).end = c
  BY DEF ParkPhase, Effect, CheckpointInheriting, PutPhase
<1>2. /\ "waiting" \in Statuses /\ "PARKED" \in Reacts /\ "failure" \in Reasons
      /\ "waiting" \in JobStatuses
  BY DEF Statuses, Reacts, Reasons, JobStatuses
<1>3. parked \in BOOLEAN /\ reason \in Reasons
  BY DEF StoreType, CheckpointType
<1>0. parked = TRUE
  OBVIOUS
<1>4. d = Checkpoint(c, p, TRUE, "failure")
  OBVIOUS
<1> HIDE DEF parked, reason
<1>5. /\ c \in StoreType
      /\ c.job = [status |-> "waiting", current |-> p] /\ c.phase[p].status = "waiting"
      /\ \A q \in Phases : q # p => c.phase[q] = s.phase[q]
      /\ c.checkpoint.phase = p /\ c.checkpoint.parked = parked
  BY <1>2, <1>3, CommitsForm
<1> HIDE DEF c
<1>6. d.job = c.job /\ d.phase = c.phase /\ d.checkpoint.phase = p /\ d.checkpoint.parked = parked
  BY <1>2, <1>3, <1>5, CheckpointForm
<1> HIDE DEF d
<1>7. /\ c.job.status = "waiting" /\ c.job.current = p /\ c.checkpoint.parked = TRUE
      /\ d.job.status = "waiting" /\ d.job.current = p /\ d.checkpoint.parked = TRUE
  BY <1>0, <1>5, <1>6
<1>8. Settled(c) /\ Still(c) /\ DoneKept(s, c)
  BY <1>5, <1>7, TakenOut
<1>9. Settled(d) /\ Still(d) /\ DoneKept(s, d)
  BY <1>5, <1>6, <1>7, TakenOut
<1> QED BY <1>1, <1>4, <1>8, <1>9

\* wait_for_answer on the running phase.
LEMMA WaitForAnswerSettled ==
  ASSUME NEW s \in StoreType, Settled(s), NEW p \in Phases, s.phase[p].status = "running"
  PROVE  LET c == WaitForAnswer(s, p).end IN Settled(c) /\ Still(c) /\ DoneKept(s, c)
<1> DEFINE parked == FALSE
           c == PutJob(Checkpoint(PutPhase(s, p, "queued", "none"), p, parked, "answer"), "running", p)
<1>1. WaitForAnswer(s, p).end = c /\ parked \in BOOLEAN
  BY DEF WaitForAnswer, Effect
<1>0. "queued" \in Statuses /\ "none" \in Reacts /\ "answer" \in Reasons /\ "running" \in JobStatuses
  BY DEF Statuses, Reacts, Reasons, JobStatuses
<1> HIDE DEF parked
<1>2. /\ c.job = [status |-> "running", current |-> p] /\ c.phase[p].status = "queued"
      /\ \A q \in Phases : q # p => c.phase[q] = s.phase[q]
      /\ c.checkpoint.phase = p /\ c.checkpoint.reason = "answer"
  BY <1>0, <1>1, CommitsForm
<1> HIDE DEF c
<1>3. c.job.status = "running" /\ c.job.current = p /\ c.checkpoint.reason \in KillReasons \cup {"answer"}
  BY <1>2
<1>4. Settled(c) /\ Still(c) /\ DoneKept(s, c)
  BY <1>2, <1>3, TakenOut
<1> QED BY <1>1, <1>4

\* The RUNNING branch of checkpoint_mid_llm_kill_phase.
LEMMA KillPhaseSettled ==
  ASSUME NEW s \in StoreType, Settled(s), NEW p \in Phases, s.phase[p].status = "running",
         NEW reason \in KillReasons
  PROVE  LET c == KillPhase(s, p, reason).end IN Settled(c) /\ Still(c) /\ DoneKept(s, c)
<1> DEFINE parked == FALSE
           c == PutJob(Checkpoint(PutPhase(s, p, "queued", "none"), p, parked, reason), "running", p)
<1>0. "queued" \in Statuses /\ "none" \in Reacts /\ reason \in Reasons /\ "running" \in JobStatuses
  BY DEF Statuses, Reacts, Reasons, KillReasons, JobStatuses
<1>1. s.job.status = "running"
  BY DEF Settled
<1>2. KillPhase(s, p, reason).end = c /\ parked \in BOOLEAN
  BY <1>1 DEF KillPhase, Requeue, Effect, TerminalJob
<1> HIDE DEF parked
<1>3. /\ c.job = [status |-> "running", current |-> p] /\ c.phase[p].status = "queued"
      /\ \A q \in Phases : q # p => c.phase[q] = s.phase[q]
      /\ c.checkpoint.phase = p /\ c.checkpoint.reason = reason
  BY <1>0, <1>2, CommitsForm
<1> HIDE DEF c
<1>4. c.job.status = "running" /\ c.job.current = p /\ c.checkpoint.reason \in KillReasons \cup {"answer"}
  BY <1>3
<1>5. Settled(c) /\ Still(c) /\ DoneKept(s, c)
  BY <1>3, <1>4, TakenOut
<1> QED BY <1>2, <1>5

\* A store in which a phase may start: nothing else is active, nothing has failed.
Ready(s, p) ==
  /\ s \in StoreType
  /\ s.phase[p].status \in Startable
  /\ s.checkpoint.phase # NoPhase
  /\ \A q \in Phases : /\ s.phase[q].status \notin {"running", "failed"}
                       /\ s.phase[q].status = "waiting" => q = p

\* start_phase settles a ready store.
LEMMA StartPhaseSettled ==
  ASSUME NEW s, NEW p \in Phases, Ready(s, p)
  PROVE  LET c == StartPhase(s, p).end
         IN /\ Settled(c) /\ DoneKept(s, c)
            /\ c.phase[p].status = "running"
            /\ \A q \in Phases : q # p => c.phase[q] = s.phase[q]
            /\ c.checkpoint = s.checkpoint
<1> DEFINE s1 == PutPhase(s, p, "running", "THINKING")
           c  == PutJob(s1, "running", p)
<1>1. StartPhase(s, p).end = c
  BY DEF StartPhase, Effect
<1>2. /\ s1 \in StoreType /\ s1.checkpoint = s.checkpoint /\ s1.phase[p].status = "running"
      /\ \A q \in Phases : q # p => s1.phase[q] = s.phase[q]
  <2>1. s \in StoreType /\ "running" \in Statuses /\ "THINKING" \in Reacts
    BY DEF Ready, Statuses, Reacts
  <2> QED BY <2>1, PutPhaseForm
<1> HIDE DEF s1
<1>3. /\ c.job = [status |-> "running", current |-> p] /\ c.phase = s1.phase
      /\ c.checkpoint = s1.checkpoint
  BY <1>2, PutJobForm
<1> HIDE DEF c
<1>4. c.job.status = "running" /\ c.job.current = p
  BY <1>3
<1>5. \A q \in Phases : /\ q # p => c.phase[q].status \notin {"running", "waiting", "failed"}
                        /\ q = p => c.phase[q].status = "running"
  BY <1>2, <1>3 DEF Ready
<1>6. Settled(c)
  BY <1>2, <1>3, <1>4, <1>5 DEF Settled, OpenJob, Ready
<1>7. DoneKept(s, c)
  <2>1. s.phase[p].status # "done"
    BY DEF Ready, Startable
  <2> QED BY <1>2, <1>3, <2>1 DEF DoneKept
<1> QED BY <1>1, <1>2, <1>3, <1>6, <1>7

\* Where complete_phase leaves a settled store, whose running phase it ends.
LEMMA CompletePhaseForm ==
  ASSUME NEW s \in StoreType, Settled(s), NEW p \in Phases, s.phase[p].status = "running"
  PROVE  LET c == CompletePhase(s, p).end
             next == LaterQueued(s, p)
         IN /\ c \in StoreType
            /\ c.phase[p].status = "done"
            /\ \A q \in Phases : q # p => c.phase[q] = s.phase[q]
            /\ c.checkpoint.phase = p /\ c.checkpoint.reason = s.checkpoint.reason
            /\ next = {} => c.job.status = "done" /\ c.job.current = p
            /\ next # {} => c.job.status = "running" /\ c.job.current = Smallest(next)
            /\ \A q \in Phases : c.phase[q].status \notin {"running", "waiting", "failed"}
            /\ DoneKept(s, c)
<1> DEFINE parked == FALSE
           reason == s.checkpoint.reason
           next == LaterQueued(s, p)
           job == IF next = {} THEN "done" ELSE "running"
           n == IF next = {} THEN p ELSE Smallest(next)
           c == PutJob(Checkpoint(PutPhase(s, p, "done", "DONE"), p, parked, reason), job, n)
<1>1. CompletePhase(s, p).end = c
  <2> DEFINE s1 == PutPhase(s, p, "done", "DONE")
             s2 == CheckpointInheriting(s1, p, FALSE)
  <2>1. s1.checkpoint = s.checkpoint
    BY DEF PutPhase
  <2>2. s2 = Checkpoint(s1, p, parked, reason)
    BY <2>1 DEF CheckpointInheriting
  <2>3. CompletePhase(s, p).end = IF next = {} THEN PutJob(s2, "done", p)
                                  ELSE PutJob(s2, "running", Smallest(next))
    BY DEF CompletePhase, Effect
  <2> HIDE DEF s1, s2, next
  <2>4. CompletePhase(s, p).end = PutJob(s2, job, n)
    BY <2>3
  <2> QED BY <2>2, <2>4 DEF s1
<1>2. "done" \in Statuses /\ "DONE" \in Reacts /\ job \in JobStatuses
  BY DEF Statuses, Reacts, JobStatuses, TerminalPhase
<1>3. parked \in BOOLEAN /\ reason \in Reasons
  BY DEF StoreType, CheckpointType
<1>4. n \in Phases
  BY SmallestOf DEF LaterQueued, In
<1>5. next = {} => job = "done" /\ n = p
  OBVIOUS
<1>6. next # {} => job = "running" /\ n = Smallest(next)
  OBVIOUS
<1> HIDE DEF parked, reason, job, n, next
<1>7. /\ c \in StoreType
      /\ c.job = [status |-> job, current |-> n] /\ c.phase[p].status = "done"
      /\ \A q \in Phases : q # p => c.phase[q] = s.phase[q]
      /\ c.checkpoint.phase = p /\ c.checkpoint.reason = reason
  BY <1>2, <1>3, <1>4, CommitsForm
<1> HIDE DEF c
<1>8. s.job.status = "running" /\ s.job.current = p
  BY DEF Settled
<1>9. \A q \in Phases : q # p => /\ s.phase[q].status # "running" /\ s.phase[q].status # "waiting"
                                 /\ s.phase[q].status # "failed"
  BY <1>8 DEF Settled, OpenJob
<1>10. \A q \in Phases : c.phase[q].status \notin {"running", "waiting", "failed"}
  BY <1>7, <1>9
<1>11. DoneKept(s, c)
  BY <1>7 DEF DoneKept
<1> QED BY <1>1, <1>5, <1>6, <1>7, <1>10, <1>11 DEF reason, next

\* After the last queued phase the job is done, and nothing is left.
LEMMA CompletePhaseLast ==
  ASSUME NEW s \in StoreType, Settled(s), NEW p \in Phases, s.phase[p].status = "running",
         LET c == CompletePhase(s, p).end IN In(c, "queued") = {}
  PROVE  LET c == CompletePhase(s, p).end IN Settled(c) /\ Still(c)
<1> DEFINE c == CompletePhase(s, p).end
           next == LaterQueued(s, p)
<1>1. /\ c \in StoreType
      /\ c.phase[p].status = "done"
      /\ \A q \in Phases : q # p => c.phase[q] = s.phase[q]
      /\ c.checkpoint.phase = p
      /\ next = {} => c.job.status = "done" /\ c.job.current = p
      /\ \A q \in Phases : c.phase[q].status \notin {"running", "waiting", "failed"}
  BY CompletePhaseForm
<1> HIDE DEF c
<1>2. In(c, "queued") = {}
  BY DEF c
<1>3. next = {}
  <2>1. p \notin next
    BY RowsAssumption DEF LaterQueued, Phases
  <2> QED BY <1>1, <1>2, <2>1 DEF LaterQueued, In
<1>4. \A q \in Phases : c.phase[q].status \in {"absent", "done", "cancelled"}
  <2> TAKE q \in Phases
  <2>1. c.phase[q] \in PhaseType
    BY <1>1 DEF StoreType
  <2> QED BY <1>1, <1>2, <2>1 DEF In, PhaseType, TerminalPhase
<1>5. p # NoPhase
  BY RowsAssumption DEF Phases, NoPhase
<1>6. Settled(c) /\ Still(c)
  BY <1>1, <1>3, <1>4, <1>5 DEF Settled, Still, OpenJob
<1> QED BY <1>6 DEF c

\* Before the last one, any queued phase may start next.
LEMMA CompletePhaseReady ==
  ASSUME NEW s \in StoreType, Settled(s), NEW p \in Phases, s.phase[p].status = "running",
         NEW n \in Phases,
         LET c == CompletePhase(s, p).end IN n \in In(c, "queued")
  PROVE  LET c == CompletePhase(s, p).end IN Ready(c, n)
<1> DEFINE c == CompletePhase(s, p).end
<1>1. /\ c \in StoreType /\ c.checkpoint.phase = p
      /\ \A q \in Phases : c.phase[q].status \notin {"running", "waiting", "failed"}
  BY CompletePhaseForm
<1> HIDE DEF c
<1>2. n \in In(c, "queued")
  BY DEF c
<1>3. p # NoPhase
  BY RowsAssumption DEF Phases, NoPhase
<1>4. Ready(c, n)
  BY <1>1, <1>2, <1>3 DEF Ready, In, Startable
<1> QED BY <1>4 DEF c

\* The job that offers a choice after its first phase stands still, and its
\* checkpoint has no reason.
LEMMA CompletePhaseWaits ==
  ASSUME NEW s \in StoreType, Settled(s), NEW p \in Phases, s.phase[p].status = "running",
         LaterQueued(s, p) # {}, p = 1, s.checkpoint.reason = "none"
  PROVE  LET c == CompletePhase(s, p).end IN Settled(c) /\ Still(c)
<1> DEFINE c == CompletePhase(s, p).end
           next == LaterQueued(s, p)
<1>1. /\ c \in StoreType
      /\ c.phase[p].status = "done"
      /\ \A q \in Phases : q # p => c.phase[q] = s.phase[q]
      /\ c.checkpoint.phase = p /\ c.checkpoint.reason = s.checkpoint.reason
      /\ c.job.status = "running" /\ c.job.current = Smallest(next)
      /\ \A q \in Phases : c.phase[q].status \notin {"running", "waiting", "failed"}
  BY CompletePhaseForm
<1> HIDE DEF c
<1>2. Smallest(next) \in next
  BY SmallestOf DEF LaterQueued, In
<1> DEFINE n == Smallest(next)
<1>3. n \in Phases /\ n # p /\ s.phase[n].status = "queued" /\ c.job.current = n
  BY <1>1, <1>2, RowsAssumption DEF LaterQueued, In, Phases
<1> HIDE DEF n
<1>4. p # NoPhase
  BY RowsAssumption DEF Phases, NoPhase
<1>5. c.phase[n].status = "queued"
  BY <1>1, <1>3
<1>6. LeftByChoice(c)
  BY <1>1, <1>3, <1>5 DEF LeftByChoice
<1>7. Settled(c) /\ Still(c)
  BY <1>1, <1>3, <1>4, <1>5, <1>6 DEF Settled, Still, OpenJob
<1> QED BY <1>7 DEF c

\* A replan of an open job: what was unfinished is cancelled, and the job points at a
\* queued phase.
LEMMA ReplanSettled ==
  ASSUME NEW s, StoreInv(s), Settled(s), s.job.status = "running",
         s.checkpoint.replans < MaxReplans, RoomToReplan(s)
  PROVE  LET c == CountReplan(ReplanJob(s).end).end IN Settled(c) /\ Still(c) /\ DoneKept(s, c)
<1> DEFINE first == FirstFree(s)
           s1 == CancelUpTo(s, first - 1)
           s2 == AppendPhase(s1, first, "formulate")
           s3 == AppendPhase(s2, first + 1, "execute")
           status == IF In(s, "done") # {} THEN "running" ELSE "queued"
           r == PutJob(s3, status, first)
           c == CountReplan(r).end
<1>1. ReplanJob(s).end = r
  BY DEF ReplanJob, Effect
<1>2. /\ first \in Phases /\ first + 1 \in Phases /\ first # first + 1
      /\ \A p \in Phases : s.phase[p].status # "absent" <=> p <= first - 1
  <2>1. PICK k \in 0 .. MaxPhases : \A p \in Phases : s.phase[p].status # "absent" <=> p <= k
    BY DEF StoreInv
  <2>2. Cardinality(Rows(s)) = k
    BY <2>1, RowsCount
  <2> QED BY <2>1, <2>2 DEF RoomToReplan, FirstFree
<1>3. status \in {"queued", "running"}
  OBVIOUS
<1> HIDE DEF first, status
<1>4. \A q \in Phases : /\ s.phase[q] \in PhaseType
                        /\ s.phase[q].status # "failed"
  BY DEF StoreInv, StoreType, Settled, OpenJob
<1>5. \A q \in Phases :
        s1.phase[q] = IF q <= first - 1 /\ s.phase[q].status \in {"queued", "running", "waiting"}
                      THEN [s.phase[q] EXCEPT !.status = "cancelled", !.react = "none"]
                      ELSE s.phase[q]
  BY DEF CancelUpTo, StoreInv, StoreType
<1>6. s1.phase \in [Phases -> PhaseType] /\ s1 = [s EXCEPT !.phase = s1.phase]
  <2>1. \A q \in Phases : [s.phase[q] EXCEPT !.status = "cancelled", !.react = "none"] \in PhaseType
    BY <1>4 DEF PhaseType, TerminalPhase
  <2> QED BY <1>4, <2>1 DEF CancelUpTo, StoreInv, StoreType
<1> HIDE DEF s1
<1>7. \A q \in Phases : /\ s1.phase[q].status \in {"done", "cancelled", "absent"}
                        /\ s.phase[q].status = "done" => s1.phase[q].status = "done"
  <2> TAKE q \in Phases
  <2>1. CASE q <= first - 1 /\ s.phase[q].status \in {"queued", "running", "waiting"}
    BY <1>4, <1>5, <2>1 DEF PhaseType
  <2>2. CASE ~(q <= first - 1 /\ s.phase[q].status \in {"queued", "running", "waiting"})
    <3>1. s1.phase[q] = s.phase[q]
      BY <1>5, <2>2
    <3> QED BY <1>2, <1>4, <2>2, <3>1 DEF PhaseType, TerminalPhase
  <2> QED BY <2>1, <2>2
<1>8. /\ s3.phase = [[s1.phase EXCEPT ![first] = NewPhase("formulate")]
                       EXCEPT ![first + 1] = NewPhase("execute")]
      /\ s3 = [s EXCEPT !.phase = s3.phase]
  BY <1>6 DEF AppendPhase, StoreInv, StoreType
<1>9. r.job.status = status /\ r.job.current = first /\ r.phase = s3.phase /\ r = [s3 EXCEPT !.job = r.job]
  BY <1>8 DEF PutJob, StoreInv, StoreType
<1> HIDE DEF s2, s3
<1>10. /\ r.phase[first].status = "queued" /\ r.phase[first + 1].status = "queued"
       /\ \A q \in Phases : q # first /\ q # first + 1 => r.phase[q] = s1.phase[q]
  BY <1>2, <1>6, <1>8, <1>9 DEF NewPhase
<1>11. /\ c.job = r.job /\ c.phase = r.phase
       /\ c.checkpoint.phase = first /\ c.checkpoint.reason = "failure"
       /\ c.checkpoint.replans = s.checkpoint.replans + 1
  <2>0. r.checkpoint = s.checkpoint
    BY <1>8, <1>9 DEF StoreInv, StoreType
  <2>1. /\ r.checkpoint \in CheckpointType
        /\ r = [job |-> r.job, phase |-> r.phase, checkpoint |-> r.checkpoint]
    BY <1>8, <1>9 DEF StoreInv, StoreType
  <2> DEFINE k == Checkpoint(r, first, FALSE, "failure")
  <2>2. c = [k EXCEPT !.checkpoint.replans = @ + 1]
    BY <1>9 DEF CountReplan, Effect
  <2> HIDE DEF r, c
  <2> DEFINE h == [r.checkpoint EXCEPT !.phase = first, !.parked = FALSE, !.reason = "failure"]
  <2>3. k = [job |-> r.job, phase |-> r.phase, checkpoint |-> h]
    BY <2>1 DEF Checkpoint
  <2>4. /\ h.phase = first /\ h.reason = "failure" /\ h.replans = r.checkpoint.replans
        /\ {"phase", "reason", "replans"} \subseteq DOMAIN h
    BY <2>1 DEF CheckpointType
  <2> HIDE DEF k, h
  <2>5. c = [job |-> r.job, phase |-> r.phase, checkpoint |-> [h EXCEPT !.replans = h.replans + 1]]
    BY <2>2, <2>3
  <2> QED BY <2>0, <2>4, <2>5
<1> HIDE DEF c, r
<1>12. \A q \in Phases : c.phase[q].status \in {"done", "cancelled", "absent", "queued"}
  BY <1>7, <1>10, <1>11
<1>13. first # NoPhase
  BY <1>2, RowsAssumption DEF Phases, NoPhase
<1>14. LeftByReplan(c)
  <2>1. s.checkpoint.replans \in 0 .. MaxReplans
    BY DEF StoreInv, StoreType, CheckpointType
  <2>2. s.checkpoint.replans + 1 > 0
    BY <2>1, ReplansAssumption
  <2> QED BY <1>9, <1>10, <1>11, <2>2 DEF LeftByReplan
<1>15. Settled(c)
  BY <1>3, <1>9, <1>10, <1>11, <1>12, <1>13, <1>14 DEF Settled, OpenJob
<1>16. DoneKept(s, c)
  <2>1. s.phase[first].status = "absent" /\ s.phase[first + 1].status = "absent"
    BY <1>2, RowsAssumption DEF Phases
  <2> QED BY <1>7, <1>10, <1>11, <2>1 DEF DoneKept
<1> QED BY <1>1, <1>12, <1>15, <1>16 DEF Still, c, r

-----------------------------------------------------------------------------
\* A worker works for the session, or nothing runs; its phase is running, and its
\* snapshot is exactly what is queued.
SettledRun ==
  /\ up /\ live = NoWorker => Still(store)
  /\ live # NoWorker => run[live].pc \in Attached
  /\ \A w \in Workers : run[w].pc \in Attached =>
       /\ store.phase[run[w].phase].status = "running"
       /\ run[w].path # "resume" => run[w].todo = In(store, "queued")
       /\ run[w].path = "mint" => store.checkpoint.reason = "none"

SettledIInv == IInv /\ Settled(store) /\ SettledRun

\* What a step keeps, seen from the store.
SettledStep == Settled(store') /\ SettledRun' /\ DoneKept(store, store')

\* The initial state is settled.
LEMMA InitSettled == Init => SettledIInv
<1> SUFFICES ASSUME Init PROVE Settled(store) /\ SettledRun
  BY InitInv DEF SettledIInv
<1>1. /\ store.job.status = "none"
      /\ \A p \in Phases : store.phase[p].status = "absent"
  BY DEF Init, EmptyStore
<1>2. Settled(store) /\ Still(store)
  BY <1>1 DEF Settled, Still, OpenJob
<1>3. SettledRun
  BY <1>2, IdleType DEF Init, SettledRun, Attached
<1> QED BY <1>2, <1>3

\* What is known of an attached worker's phase between two actions.
LEMMA AttachedSettled ==
  ASSUME SettledIInv, NEW w \in Workers, run[w].pc \in Attached
  PROVE  /\ IInv /\ StoreInv(store) /\ store \in StoreType /\ Settled(store)
         /\ run[w] \in RunType /\ run[w].phase \in Phases
         /\ store.phase[run[w].phase].status = "running"
         /\ store.job.status = "running" /\ store.job.current = run[w].phase
         /\ run[w].path # "resume" => run[w].todo = In(store, "queued")
         /\ run[w].path = "mint" => store.checkpoint.reason = "none"
         /\ live = w
<1> DEFINE p == run[w].phase
<1>1. /\ IInv /\ StoreInv(store) /\ store \in StoreType /\ run[w] \in RunType
      /\ p \in Phases /\ AttachedInv(w)
  BY AttachedFacts DEF SettledIInv, StoreInv
<1>2. /\ Settled(store) /\ store.phase[p].status = "running"
      /\ run[w].path # "resume" => run[w].todo = In(store, "queued")
      /\ run[w].path = "mint" => store.checkpoint.reason = "none"
  BY DEF SettledIInv, SettledRun
<1>3. store.job.status = "running" /\ store.job.current = p
  BY <1>1, <1>2 DEF Settled
<1> QED BY <1>1, <1>2, <1>3 DEF AttachedInv

\* A worker that ends leaves a settled store in which nothing runs.
LEMMA EndsSettled ==
  ASSUME ~Torn, SettledIInv, NEW w \in Workers, run[w].pc \in Attached,
         NEW e, Settled(e.end), Still(e.end), DoneKept(store, e.end),
         NEW saying, Ends(w, e, saying)
  PROVE  SettledStep
<1>1. store' = e.end /\ EndRun(w, saying)
  BY DEF Ends, CutShort
<1>2. run' = [run EXCEPT ![w] = Idle] /\ run \in [Workers -> RunType] /\ IInv /\ live = w
  BY <1>1, AttachedSettled DEF EndRun, IInv, TypeOK
<1>3. \A u \in Workers : run'[u].pc \notin Attached
  BY <1>2, AttachedAlone, IdleType DEF Attached
<1>4. live' = NoWorker
  BY <1>1, <1>2 DEF EndRun
<1> QED BY <1>1, <1>3, <1>4 DEF SettledRun, SettledStep, Still

\* A worker goes on with a phase that runs.
LEMMA TurnSettled ==
  ASSUME SettledIInv, NEW w \in Workers, run[w].pc \in Attached \/ live = NoWorker,
         NEW p, NEW k, NEW path, NEW todo,
         run' = [run EXCEPT ![w] = Turn(w, p, k, path, todo)], live' = w,
         store'.phase[p].status = "running",
         path # "resume" => todo = In(store', "queued"),
         path = "mint" => store'.checkpoint.reason = "none"
  PROVE  SettledRun'
<1>1. run \in [Workers -> RunType] /\ \A u \in Workers : u # w => run[u].pc \notin Attached
  BY AttachedAlone DEF SettledIInv, IInv, TypeOK
<1>2. \A u \in Workers : u # w => run'[u].pc \notin Attached
  BY <1>1
<1>3. /\ run'[w].pc = "turn" /\ run'[w].phase = p
      /\ run'[w].path = path /\ run'[w].todo = todo
  BY <1>1 DEF Turn
<1>4. live' # NoWorker /\ run'[live'].pc \in Attached
  BY <1>3, WorkersAssumption DEF Attached
<1> QED BY <1>2, <1>3, <1>4 DEF SettledRun

\* The reply is complete.
LEMMA TurnDoneSettled ==
  ASSUME ~Torn, SettledIInv, NEW w \in Workers, TurnDone(w)
  PROVE  SettledStep
<1> DEFINE p == run[w].phase
           status == store.phase[p].status
           c == PutPhase(store, p, status, "DONE")
<1>1. run[w].pc \in Attached
  BY DEF TurnDone, InTurn, Attached
<1>2. /\ IInv /\ p \in Phases /\ store \in StoreType /\ status = "running" /\ Settled(store) /\ live = w
  BY <1>1, AttachedSettled
<1>3. status \in Statuses /\ "DONE" \in Reacts
  BY <1>2 DEF Statuses, Reacts
<1>4. /\ c.phase[p].status = status /\ \A q \in Phases : q # p => c.phase[q] = store.phase[q]
      /\ c.job = store.job /\ c.checkpoint = store.checkpoint
  BY <1>2, <1>3, PutPhaseForm
<1>5. store' = store \/ store' = c
  BY DEF TurnDone
<1> HIDE DEF c
<1>6. /\ \A q \in Phases : store'.phase[q].status = store.phase[q].status
      /\ store'.job = store.job /\ store'.checkpoint = store.checkpoint
  BY <1>4, <1>5
<1>7. In(store', "queued") = In(store, "queued")
  BY <1>6 DEF In
<1>8. run \in [Workers -> RunType] /\ run' = [run EXCEPT ![w].pc = "check"] /\ live' = live /\ up' = up
  BY <1>2 DEF TurnDone, IInv, TypeOK
<1>9. \A u \in Workers : /\ run'[u].pc \in Attached => run[u].pc \in Attached
                         /\ run'[u].phase = run[u].phase
                         /\ run'[u].path = run[u].path /\ run'[u].todo = run[u].todo
  BY <1>1, <1>8 DEF RunType
<1>10. run'[live'].pc \in Attached /\ live' \in Workers
  BY <1>2, <1>8 DEF RunType, Attached
<1>11. \A u \in Workers : run'[u].pc \in Attached => run'[u].phase \in Phases
  BY <1>9, AttachedSettled
<1>12. SettledRun'
  BY <1>6, <1>7, <1>9, <1>10, <1>11, WorkersAssumption DEF SettledIInv, SettledRun
<1>13. store.job.status \in OpenJob => store.job.current \in Phases
  BY <1>2 DEF IInv, StoreInv, OpenJob
<1>14. Settled(store')
  BY <1>2, <1>6, <1>13 DEF Settled
<1> QED BY <1>6, <1>12, <1>14 DEF SettledStep, DoneKept

\* The turn fails, needs an approval, or asks.
LEMMA TurnFailsSettled ==
  ASSUME ~Torn, SettledIInv, NEW w \in Workers, TurnFails(w)
  PROVE  SettledStep
<1> DEFINE p == run[w].phase
           e == FailPhase(store, p)
<1>1. run[w].pc \in Attached /\ Ends(w, e, "failed")
  BY DEF TurnFails, InTurn, Attached
<1>2. Settled(e.end) /\ Still(e.end) /\ DoneKept(store, e.end)
  BY <1>1, AttachedSettled, FailPhaseSettled
<1> HIDE DEF e
<1> QED BY <1>1, <1>2, EndsSettled

\* The turn parks on an approval: the job waits at the parked phase.
LEMMA TurnParksSettled ==
  ASSUME ~Torn, SettledIInv, NEW w \in Workers, TurnParks(w)
  PROVE  SettledStep
<1> DEFINE p == run[w].phase
           e == ParkPhase(store, p)
<1>1. run[w].pc \in Attached
  BY DEF TurnParks, InTurn, Attached
<1>2. ~ParkRefused(store, p)
  BY <1>1, AttachedSettled DEF ParkRefused, TerminalPhase
<1>3. Ends(w, e, "waiting")
  BY <1>2 DEF TurnParks
<1>4. Settled(e.end) /\ Still(e.end) /\ DoneKept(store, e.end)
  BY <1>1, AttachedSettled, ParkPhaseSettled
<1> HIDE DEF e
<1> QED BY <1>1, <1>3, <1>4, EndsSettled

\* The step asks the operator: the phase is queued, the checkpoint says who asked.
LEMMA AsksSettled ==
  ASSUME ~Torn, SettledIInv, NEW w \in Workers, Asks(w)
  PROVE  SettledStep
<1> DEFINE p == run[w].phase
           e == WaitForAnswer(store, p)
<1>1. run[w].pc \in Attached
  BY DEF Asks, InCheck, Attached
<1>2. ~ParkRefused(store, p)
  BY <1>1, AttachedSettled DEF ParkRefused, TerminalPhase
<1>3. Ends(w, e, "question")
  BY <1>2 DEF Asks
<1>4. Settled(e.end) /\ Still(e.end) /\ DoneKept(store, e.end)
  BY <1>1, AttachedSettled, WaitForAnswerSettled
<1> HIDE DEF e
<1> QED BY <1>1, <1>3, <1>4, EndsSettled

\* The checker fails: replanned, or parked after the last replan.
LEMMA VerifyFailsSettled ==
  ASSUME ~Torn, SettledIInv, NEW w \in Workers, VerifyFails(w)
  PROVE  SettledStep
<1> DEFINE p == run[w].phase
           e == BoundedReplan(store, p)
<1>1. run[w].pc \in Attached /\ RoomToReplan(store)
  BY DEF VerifyFails, InCheck, Attached
<1>2. /\ StoreInv(store) /\ store \in StoreType /\ Settled(store) /\ p \in Phases
      /\ store.phase[p].status = "running" /\ store.job.status = "running"
  BY <1>1, AttachedSettled
<1>3. ~ReplanRefused(store, p)
  BY <1>2 DEF ReplanRefused, ParkRefused, TerminalPhase, TerminalJob
<1>4. \E saying : Ends(w, e, saying)
  BY <1>3 DEF VerifyFails
<1>5. Settled(e.end) /\ Still(e.end) /\ DoneKept(store, e.end)
  <2>1. CASE store.checkpoint.replans < MaxReplans
    <3>1. e.end = CountReplan(ReplanJob(store).end).end
      BY <2>1 DEF BoundedReplan, Then, Effect
    <3> HIDE DEF e
    <3> QED BY <1>1, <1>2, <2>1, <3>1, ReplanSettled
  <2>2. CASE ~(store.checkpoint.replans < MaxReplans)
    <3>1. e.end = Checkpoint(ParkPhase(store, p).end, p, TRUE, "failure")
      BY <2>2 DEF BoundedReplan, ParkExhausted, Then, Effect
    <3> HIDE DEF e
    <3> QED BY <1>2, <3>1, ParkPhaseSettled
  <2> QED BY <2>1, <2>2
<1> HIDE DEF e
<1> QED BY <1>1, <1>4, <1>5, EndsSettled

\* The phase completes: the refusals and the streaming of a running phase, which
\* complete_phase_or_fail and the runner of a minted job allow for, cannot happen.
LEMMA CompletesSettled ==
  ASSUME ~Torn, SettledIInv, NEW w \in Workers, Completes(w)
  PROVE  SettledStep
<1> DEFINE p    == run[w].phase
           done == CompletePhase(store, p)
           s1   == done.end
           rest == Remaining(w, s1)
           next == Smallest(rest)
           f    == StartPhase(s1, next)
           e    == Then(done, f)
           path == IF run[w].path = "mint" THEN "mint" ELSE "rest"
<1>1. run[w].pc \in Attached
  BY DEF Completes, InCheck, Attached
<1>2. /\ StoreInv(store) /\ store \in StoreType /\ Settled(store) /\ p \in Phases
      /\ store.phase[p].status = "running"
      /\ store.phase[p].status # "absent"
      /\ run[w].path # "resume" => run[w].todo = In(store, "queued")
      /\ run[w].path = "mint" => store.checkpoint.reason = "none"
      /\ live = w
  BY <1>1, AttachedSettled
<1>3. ~CompleteRefused(store, p)
  BY <1>2 DEF CompleteRefused
<1>4. /\ s1.phase[p].status = "done"
      /\ \A q \in Phases : q # p => s1.phase[q] = store.phase[q]
      /\ s1.checkpoint.reason = store.checkpoint.reason
      /\ DoneKept(store, s1)
  BY <1>2, CompletePhaseForm
<1>5. GoodEffect(store, done)
  BY <1>2, <1>3, CompletePhaseGood
<1>6. StoreInv(s1)
  BY <1>5 DEF GoodEffect, Good
<1>7. In(s1, "queued") = In(store, "queued")
  BY <1>2, <1>4 DEF In
<1>8. rest = In(s1, "queued")
  BY <1>2, <1>4, <1>7 DEF Remaining, In, TerminalPhase
<1>9. CASE rest = {}
  <2>1. Ends(w, done, "done")
    BY <1>3, <1>9 DEF Completes
  <2>2. Settled(s1) /\ Still(s1)
    BY <1>2, <1>8, <1>9, CompletePhaseLast
  <2> HIDE DEF done
  <2> QED BY <1>1, <1>4, <2>1, <2>2, EndsSettled
<1>10. CASE rest # {}
  <2>1. next \in rest
    <3>1. rest \in SUBSET Phases
      BY <1>8 DEF In
    <3> HIDE DEF rest
    <3> QED BY <1>10, <3>1, SmallestOf
  <2>2. next \in Phases /\ next \in In(s1, "queued")
    BY <1>8, <2>1 DEF In
  <2>3. ~StartRefused(s1, next)
    BY <1>6, <2>2 DEF StartRefused, Startable, In, StoreInv
  <2>4. /\ store' = e.end /\ live' = live
        /\ run' = [run EXCEPT ![w] = Turn(w, next, w, path, rest \ {next})]
    BY <1>3, <1>10, <2>3 DEF Completes, CutShort
  <2>5. Ready(s1, next)
    <3> DEFINE n == next
    <3>1. n \in Phases /\ n \in In(s1, "queued")
      BY <2>2
    <3> HIDE DEF n
    <3>2. Ready(s1, n)
      BY <1>2, <3>1, CompletePhaseReady
    <3> QED BY <3>2 DEF n
  <2>6. path # "resume" /\ (path = "mint" => run[w].path = "mint")
    OBVIOUS
  <2> HIDE DEF s1, next, rest, path
  <2>7. /\ Settled(f.end) /\ DoneKept(s1, f.end)
        /\ f.end.phase[next].status = "running"
        /\ \A q \in Phases : q # next => f.end.phase[q] = s1.phase[q]
        /\ f.end.checkpoint = s1.checkpoint
    BY <2>2, <2>5, StartPhaseSettled
  <2>8. store' = f.end
    BY <2>4 DEF Then, Effect
  <2> HIDE DEF f
  <2>9. In(store', "queued") = rest \ {next}
    BY <1>8, <2>7, <2>8 DEF In
  <2>10. SettledRun'
    <3> DEFINE todo == rest \ {next}
    <3>1. /\ store'.phase[next].status = "running"
          /\ path # "resume" => todo = In(store', "queued")
          /\ path = "mint" => store'.checkpoint.reason = "none"
          /\ live' = w
      BY <1>2, <1>4, <2>4, <2>6, <2>7, <2>8, <2>9
    <3>2. run' = [run EXCEPT ![w] = Turn(w, next, w, path, todo)]
      BY <2>4
    <3> HIDE DEF todo
    <3> QED BY <1>1, <3>1, <3>2, TurnSettled
  <2> QED BY <1>4, <2>7, <2>8, <2>10 DEF SettledStep, DoneKept
<1> QED BY <1>9, <1>10

\* The plan offered a choice: the phase is done, its parking refused.
LEMMA OffersChoiceSettled ==
  ASSUME ~Torn, SettledIInv, NEW w \in Workers, OffersChoice(w)
  PROVE  SettledStep
<1> DEFINE done == CompletePhase(store, 1)
           s1   == done.end
<1>1. /\ run[w].pc \in Attached /\ run[w].phase = 1
      /\ run[w].path = "mint" /\ run[w].todo # {}
  BY DEF OffersChoice, InCheck, Attached
<1>2. /\ store \in StoreType /\ Settled(store) /\ 1 \in Phases
      /\ store.phase[1].status = "running"
      /\ run[w].todo = In(store, "queued") /\ store.checkpoint.reason = "none"
  BY <1>1, AttachedSettled
<1>3. s1.phase[1].status = "done" /\ DoneKept(store, s1)
  BY <1>2, CompletePhaseForm
<1>4. LaterQueued(store, 1) # {}
  <2>1. PICK q \in In(store, "queued") : TRUE
    BY <1>1, <1>2
  <2>2. q \in Phases /\ q # 1
    BY <1>2 DEF In
  <2>3. q > 1
    BY <2>2, RowsAssumption DEF Phases
  <2> QED BY <2>1, <2>3 DEF LaterQueued
<1>5. Settled(s1) /\ Still(s1)
  BY <1>1, <1>2, <1>4, CompletePhaseWaits
<1>6. Ends(w, done, "error")
  BY <1>3 DEF OffersChoice, ParkRefused, TerminalPhase
<1> HIDE DEF done
<1> QED BY <1>1, <1>3, <1>5, <1>6, EndsSettled

\* The operator resumes: the phase taken up always starts.
LEMMA ResumeSettled ==
  ASSUME ~Torn, SettledIInv, NEW w \in Workers, Resume(w)
  PROVE  SettledStep
<1> DEFINE p     == ContinuePhase(store)
           found == ResumeAfterCrash(store)
           s1    == found.end
           f     == StartPhase(s1, p)
<1>1. /\ up /\ live = NoWorker /\ Resumable(store) /\ StoreInv(store) /\ Settled(store)
      /\ store \in StoreType /\ SettledRun
  BY DEF Resume, CanStream, SessionFree, SettledIInv, IInv, StoreInv
<1>2. p \in Phases
  BY <1>1, ResumeAfterCrashGood
<1>3. Still(store) /\ In(store, "running") = {}
  BY <1>1 DEF SettledRun, Still, In
<1>4. /\ store.job.status \in OpenJob
      /\ \A q \in Phases : store.phase[q].status \notin {"running", "failed"}
  BY <1>1, <1>3 DEF Resumable, Settled, Still
<1>5. s1.phase = store.phase /\ s1.checkpoint = store.checkpoint /\ s1 \in StoreType
  <2>1. CASE In(store, "waiting") # {}
    <3>1. s1 = PutJob(store, "waiting", p)
      BY <1>3, <2>1 DEF ResumeAfterCrash, Effect
    <3> HIDE DEF p, s1
    <3> QED BY <1>1, <1>2, <3>1, PutJobForm
  <2>2. CASE In(store, "waiting") = {} /\ In(store, "queued") # {} /\ store.checkpoint.reason \in KillReasons
    <3>1. s1 = PutJob(store, "running", p)
      BY <1>3, <2>2 DEF ResumeAfterCrash, Effect
    <3> HIDE DEF p, s1
    <3> QED BY <1>1, <1>2, <3>1, PutJobForm
  <2>3. CASE In(store, "waiting") = {} /\ ~(In(store, "queued") # {} /\ store.checkpoint.reason \in KillReasons)
    BY <1>1, <1>3, <2>3 DEF ResumeAfterCrash, NoEffect, Effect
  <2> QED BY <2>1, <2>2, <2>3
<1>6. /\ store.phase[p].status \in Startable
      /\ \A q \in Phases : store.phase[q].status = "waiting" => q = p
  <2>1. CASE In(store, "waiting") # {}
    <3>1. p \in In(store, "waiting")
      BY <1>3, <2>1, SmallestOf DEF ContinuePhase, In
    <3> HIDE DEF p
    <3> QED BY <1>1, <3>1 DEF Settled, In, Startable
  <2>2. CASE In(store, "waiting") = {} /\ In(store, "queued") # {} /\ store.checkpoint.reason \in KillReasons
    <3>1. p \in In(store, "queued")
      BY <1>3, <2>2, SmallestOf DEF ContinuePhase, In
    <3> HIDE DEF p
    <3> QED BY <2>2, <3>1 DEF In, Startable
  <2>3. CASE In(store, "waiting") = {} /\ ~(In(store, "queued") # {} /\ store.checkpoint.reason \in KillReasons)
    <3>1. p = store.job.current
      BY <1>3, <2>3 DEF ContinuePhase
    <3>2. store.phase[p].status \in {"queued", "running", "waiting"}
      BY <1>1, <1>4, <3>1 DEF Settled
    <3> HIDE DEF p
    <3> QED BY <1>2, <1>4, <2>3, <3>2 DEF In, Startable
  <2> QED BY <2>1, <2>2, <2>3
<1> HIDE DEF p, s1
<1>7. Ready(s1, p)
  <2>1. store.checkpoint.phase # NoPhase
    BY <1>1 DEF Resumable
  <2> QED BY <1>4, <1>5, <1>6, <2>1 DEF Ready
<1>8. /\ Settled(f.end) /\ DoneKept(s1, f.end) /\ f.end.phase[p].status = "running"
  BY <1>2, <1>7, StartPhaseSettled
<1>9. ~StartRefused(s1, p)
  <2>1. s1.job.status # "cancelled"
    BY <1>1, ResumeAfterCrashGood DEF s1, OpenJob
  <2> QED BY <1>5, <1>6, <2>1 DEF StartRefused
<1>10. /\ store' = f.end /\ live' = w
       /\ run' = [run EXCEPT ![w] = Turn(w, p, w, "resume", {})]
  BY <1>9 DEF Resume, CutShort, Then, Effect, p, s1
<1> HIDE DEF f
<1>11. SettledRun'
  <2> DEFINE path == "resume"
             todo == {}
  <2>1. path # "resume" => todo = In(store', "queued")
    OBVIOUS
  <2>2. path = "mint" => store'.checkpoint.reason = "none"
    OBVIOUS
  <2>3. run' = [run EXCEPT ![w] = Turn(w, p, w, path, todo)] /\ store'.phase[p].status = "running"
    BY <1>8, <1>10
  <2>4. live = NoWorker /\ live' = w
    BY <1>1, <1>10
  <2> HIDE DEF path, todo
  <2> QED BY <2>1, <2>2, <2>3, <2>4, TurnSettled
<1> QED BY <1>5, <1>8, <1>10, <1>11 DEF SettledStep, DoneKept

\* The first checkpoints carry no reason.
LEMMA MintJobCheckpoint ==
  ASSUME NEW plan \in FirstPlans, NEW research \in BOOLEAN
  PROVE  LET m == MintJob(plan, research).end
         IN m.checkpoint.phase # NoPhase /\ m.checkpoint.reason = "none"
<1> DEFINE m == MintJob(plan, research).end
           k == [EmptyStore.checkpoint EXCEPT !.phase = 1, !.research = research]
<1>1. m.checkpoint = k
  BY DEF MintJob, Effect, EmptyStore
<1>2. k.phase = 1 /\ k.reason = "none"
  BY DEF EmptyStore
<1> HIDE DEF m, k
<1>3. m.checkpoint.phase # NoPhase /\ m.checkpoint.reason = "none"
  BY <1>1, <1>2 DEF NoPhase
<1> QED BY <1>3 DEF m

\* The same once Formulate is started or waits behind a prepared Research.
LEMMA MintedCheckpoint ==
  ASSUME NEW plan \in FirstPlans, NEW wiki \in BOOLEAN
  PROVE  LET m == Minted(plan, wiki).end
         IN m.checkpoint.phase # NoPhase /\ m.checkpoint.reason = "none"
<1> DEFINE m == MintJob(plan, plan[1] = "research")
           s == m.end
           p == FormulateOf(plan)
           parked == FALSE
           reason == s.checkpoint.reason
           c == Checkpoint(s, p, parked, reason)
<1>1. s.checkpoint.phase # NoPhase /\ s.checkpoint.reason = "none"
  BY MintJobCheckpoint
<1>2. s \in StoreType
  <2>1. Planned(s, plan)
    BY MintJobPlanned
  <2> QED BY <2>1 DEF Planned, StoreInv
<1>3. Minted(plan, wiki).end = IF wiki THEN c ELSE s
  BY DEF Minted, Then, GroundOnNotes, Effect, CheckpointInheriting
<1> HIDE DEF m
<1>4. p \in Phases /\ reason \in Reasons /\ parked \in BOOLEAN
  BY <1>2, FormulateRow, PlanFacts DEF StoreType, CheckpointType
<1>5. p # NoPhase
  BY <1>4, RowsAssumption DEF Phases, NoPhase
<1>6. reason = "none"
  BY <1>1
<1> HIDE DEF s, p, parked, reason
<1>7. c.checkpoint.phase = p /\ c.checkpoint.reason = reason
  BY <1>2, <1>4, CheckpointForm
<1> HIDE DEF c
<1> QED BY <1>1, <1>3, <1>5, <1>6, <1>7

\* A job is minted and its first phases started.
LEMMA RunAsJobSettled ==
  ASSUME ~Torn, SettledIInv, NEW w \in Workers, RunAsJob(w)
  PROVE  SettledStep
<1>1. PICK plan \in FirstPlans, wiki \in {FALSE, Wiki} :
        LET research == plan[1] = "research"
            minted   == Minted(plan, wiki)
            first    == Then(minted, StartPhase(minted.end, 1))
            skipped  == Then(first, CompletePhase(first.end, 1))
            e        == IF research THEN Then(skipped, StartPhase(skipped.end, 2)) ELSE first
            p        == e.end.job.current
        IN \/ /\ store' = e.end
              /\ live' = w
              /\ token' = [q \in Phases |-> IF q <= p THEN w ELSE token[q]]
              /\ run' = [run EXCEPT ![w] = Turn(w, p, w, "mint", {q \in DOMAIN plan : q > p})]
              /\ UNCHANGED <<up, told>>
           \/ CutShort(e)
  BY DEF RunAsJob
<1> DEFINE research == plan[1] = "research"
           m    == Minted(plan, wiki).end
           a    == StartPhase(m, 1).end
           b    == CompletePhase(a, 1).end
           c    == StartPhase(b, 2).end
           p    == store'.job.current
           todo == {q \in DOMAIN plan : q > p}
<1>2. /\ store' = IF research THEN c ELSE a
      /\ live' = w
      /\ run' = [run EXCEPT ![w] = Turn(w, p, w, "mint", todo)]
  BY <1>1 DEF CutShort, Then, Effect
<1>3. live = NoWorker /\ DoneKept(store, store')
  BY DEF RunAsJob, CanStream, SessionFree, SettledIInv, Settled, DoneKept
<1>4. PICK n \in 2 .. 3 : /\ DOMAIN plan = 1 .. n
                          /\ \A q \in 1 .. n : plan[q] \in Lanes /\ q \in Phases
  BY PlanFacts
<1>5. 1 \in Phases /\ 2 \in Phases /\ {q \in DOMAIN plan : q > 1} = DOMAIN plan \ {1}
      /\ {q \in DOMAIN plan : q > 2} = (DOMAIN plan \ {1}) \ {2}
      /\ 1 \in DOMAIN plan /\ 2 \in DOMAIN plan
  BY <1>4, RowsAssumption DEF Phases
<1>6. Planned(m, plan) /\ m.checkpoint.phase # NoPhase /\ m.checkpoint.reason = "none"
  BY MintedPlanned, MintedCheckpoint, SwitchesAssumption
<1> HIDE DEF m
<1>7. /\ m \in StoreType /\ In(m, "queued") = DOMAIN plan
      /\ \A q \in Phases : m.phase[q].status \in {"queued", "absent"}
      /\ m.phase[1].status = "queued"
  BY <1>5, <1>6, PlannedOrder DEF Planned, StoreInv
<1>8. Ready(m, 1)
  BY <1>6, <1>7 DEF Ready, Startable
<1>9. /\ Settled(a) /\ a.phase[1].status = "running"
      /\ \A q \in Phases : q # 1 => a.phase[q] = m.phase[q]
      /\ a.checkpoint.reason = "none"
  BY <1>5, <1>6, <1>8, StartPhaseSettled
<1>10. a \in StoreType
  <2> DEFINE s1 == PutPhase(m, 1, "running", "THINKING")
  <2>1. "running" \in Statuses /\ "THINKING" \in Reacts
    BY DEF Statuses, Reacts
  <2>2. s1 \in StoreType /\ a = PutJob(s1, "running", 1)
    BY <1>5, <1>7, <2>1, PutPhaseForm DEF StartPhase, Effect
  <2> HIDE DEF s1, a
  <2> QED BY <1>5, <2>2, PutJobForm
<1> HIDE DEF a
<1>11. a.job.current = 1 /\ In(a, "queued") = DOMAIN plan \ {1}
  BY <1>5, <1>7, <1>9 DEF Settled, In
<1> DEFINE path == "mint"
<1>12. path # "resume" /\ live' = w /\ live = NoWorker
  BY <1>2, <1>3
<1>13. CASE ~research
  <2>1. store' = a
    BY <1>2, <1>13
  <2> DEFINE rest == DOMAIN plan \ {1}
  <2>2. /\ store'.phase[1].status = "running" /\ rest = In(store', "queued")
        /\ store'.checkpoint.reason = "none"
        /\ run' = [run EXCEPT ![w] = Turn(w, 1, w, path, rest)]
    BY <1>2, <1>5, <1>9, <1>11, <2>1
  <2> HIDE DEF rest, path
  <2>3. SettledRun'
    BY <1>12, <2>2, TurnSettled
  <2> QED BY <1>3, <1>9, <2>1, <2>3 DEF SettledStep
<1>14. CASE research
  <2>1. store' = c
    BY <1>2, <1>14
  <2>2. /\ b.phase[1].status = "done"
        /\ \A q \in Phases : q # 1 => b.phase[q] = a.phase[q]
        /\ b.checkpoint.reason = "none"
    BY <1>5, <1>9, <1>10, CompletePhaseForm
  <2>3. In(b, "queued") = DOMAIN plan \ {1} /\ 2 \in In(b, "queued")
    BY <1>5, <1>9, <1>11, <2>2 DEF In
  <2>4. Ready(b, 2)
    BY <1>5, <1>9, <1>10, <2>3, CompletePhaseReady
  <2> HIDE DEF b
  <2>5. /\ Settled(c) /\ c.phase[2].status = "running"
        /\ \A q \in Phases : q # 2 => c.phase[q] = b.phase[q]
        /\ c.checkpoint.reason = "none"
    BY <1>5, <2>2, <2>4, StartPhaseSettled
  <2> HIDE DEF c
  <2> DEFINE rest == (DOMAIN plan \ {1}) \ {2}
  <2>6. In(c, "queued") = In(b, "queued") \ {2}
    BY <1>5, <2>5 DEF In
  <2>7. c.job.current = 2
    BY <1>5, <2>5 DEF Settled
  <2>8. /\ store'.phase[2].status = "running" /\ rest = In(store', "queued")
        /\ store'.checkpoint.reason = "none"
        /\ run' = [run EXCEPT ![w] = Turn(w, 2, w, path, rest)]
    BY <1>2, <1>5, <2>1, <2>3, <2>5, <2>6, <2>7
  <2> HIDE DEF rest, path
  <2>9. SettledRun'
    BY <1>12, <2>8, TurnSettled
  <2> QED BY <1>3, <2>1, <2>5, <2>9 DEF SettledStep
<1> QED BY <1>13, <1>14

\* A job about the wiki is parked before a phase has run.
LEMMA NeedsSourcesSettled ==
  ASSUME ~Torn, SettledIInv, NEW w \in Workers, NeedsSources(w)
  PROVE  SettledStep
<1>1. /\ live = NoWorker /\ DoneKept(store, store') /\ IInv /\ SettledRun
      /\ \A u \in Workers : run[u].pc \notin Attached
  BY WorkersAssumption DEF NeedsSources, CanStream, SessionFree, SettledIInv, Settled, DoneKept,
     IInv, RunInv, AttachedInv
<1>2. PICK plan \in FirstPlans :
        LET minted == MintJob(plan, plan[1] = "research")
            e      == Then(minted, ParkForSources(minted.end, FormulateOf(plan)))
        IN \/ store' = e.end /\ told' = "waiting" /\ UNCHANGED <<up, live, token, run>>
           \/ CutShort(e)
  BY DEF NeedsSources
<1> DEFINE m == MintJob(plan, plan[1] = "research").end
           p == FormulateOf(plan)
           parked == TRUE
           s1 == Checkpoint(m, p, parked, "failure")
           reason == s1.checkpoint.reason
           c == PutJob(Checkpoint(PutPhase(s1, p, "waiting", "PARKED"), p, parked, reason), "waiting", p)
<1>3. store' = ParkPhase(s1, p).end /\ UNCHANGED <<up, live, token, run>>
  BY <1>2 DEF CutShort, ParkForSources, Then, Effect
<1>4. store' = c
  BY <1>3 DEF ParkPhase, Effect, CheckpointInheriting, PutPhase
<1>5. Planned(m, plan)
  BY MintJobPlanned
<1> HIDE DEF m
<1>6. p \in Phases /\ p # NoPhase
  BY FormulateRow, PlanFacts, RowsAssumption DEF Phases, NoPhase
<1>7. parked \in BOOLEAN /\ "failure" \in Reasons
  BY DEF Reasons
<1>8. parked = TRUE
  OBVIOUS
<1> HIDE DEF p, parked
<1>9. m \in StoreType /\ \A q \in Phases : m.phase[q].status \in {"queued", "absent"}
  BY <1>5 DEF Planned, StoreInv
<1>10. s1 \in StoreType /\ s1.phase = m.phase
  BY <1>6, <1>7, <1>9, CheckpointForm
<1> HIDE DEF s1
<1>11. "waiting" \in Statuses /\ "PARKED" \in Reacts /\ "waiting" \in JobStatuses /\ reason \in Reasons
  BY <1>10 DEF Statuses, Reacts, JobStatuses, StoreType, CheckpointType
<1> HIDE DEF reason
<1>12. /\ c.job = [status |-> "waiting", current |-> p] /\ c.phase[p].status = "waiting"
       /\ \A q \in Phases : q # p => c.phase[q] = s1.phase[q]
       /\ c.checkpoint.phase = p /\ c.checkpoint.parked = parked
  BY <1>6, <1>7, <1>10, <1>11, CommitsForm
<1> HIDE DEF c
<1>13. c.job.status = "waiting" /\ c.job.current = p /\ c.checkpoint.parked = TRUE
  BY <1>8, <1>12
<1>14. \A q \in Phases : /\ q = p => c.phase[q].status = "waiting"
                         /\ q # p => c.phase[q].status \in {"queued", "absent"}
  BY <1>9, <1>10, <1>12
<1>15. Settled(c) /\ Still(c)
  BY <1>6, <1>12, <1>13, <1>14 DEF Settled, Still, OpenJob
<1>16. SettledRun'
  BY <1>1, <1>3, <1>4, <1>15 DEF SettledRun, Still
<1> QED BY <1>1, <1>4, <1>15, <1>16 DEF SettledStep

\* The operator stops the worker: its phase is queued again.
LEMMA StopSettled ==
  ASSUME ~Torn, SettledIInv, NEW w \in Workers, Stop(w)
  PROVE  SettledStep
<1> DEFINE p == run[w].phase
           e == KillSession(store)
           r == [run[w] EXCEPT !.pc = IF @ = "turn" THEN "stopTurn" ELSE "stopCheck"]
<1>1. /\ run[w].pc \in Attached
      /\ store' = e.end /\ run' = [run EXCEPT ![w] = r] /\ live' = NoWorker
  BY DEF Stop, CutShort
<1>2. /\ IInv /\ StoreInv(store) /\ store \in StoreType /\ Settled(store) /\ run[w] \in RunType
      /\ p \in Phases /\ store.phase[p].status = "running" /\ store.job.status = "running"
  BY <1>1, AttachedSettled
<1>3. In(store, "running") # {} /\ Smallest(In(store, "running")) = p
  <2>1. In(store, "running") = {p}
    BY <1>2 DEF StoreInv, In
  <2>2. Smallest({p}) \in {p}
    BY <1>2, SmallestOf
  <2> QED BY <2>1, <2>2
<1>4. e.end = KillPhase(store, p, "operator_kill").end
  BY <1>2, <1>3 DEF KillSession, OpenJob
<1>5. Settled(e.end) /\ Still(e.end) /\ DoneKept(store, e.end)
  <2>1. "operator_kill" \in KillReasons
    BY DEF KillReasons
  <2> HIDE DEF e
  <2> QED BY <1>2, <1>4, <2>1, KillPhaseSettled
<1> HIDE DEF e
<1>6. r.pc \notin Attached /\ run \in [Workers -> RunType]
  BY <1>2 DEF RunType, Attached, IInv, TypeOK
<1> HIDE DEF r
<1>7. \A u \in Workers : run'[u].pc \notin Attached
  BY <1>1, <1>2, <1>6, AttachedAlone
<1>8. SettledRun'
  BY <1>1, <1>5, <1>7 DEF SettledRun, Still
<1> QED BY <1>1, <1>5, <1>8 DEF SettledStep

\* A stopped worker unwinds: its phase has been queued, or taken up by another.
LEMMA UnwindSettled ==
  ASSUME ~Torn, SettledIInv, NEW w \in Workers, Unwind(w)
  PROVE  SettledStep
<1> DEFINE p == run[w].phase
           e == IF run[w].pc = "stopTurn" /\ ~Stale(w)
                THEN KillPhase(store, p, "operator_kill") ELSE NoEffect(store)
<1>1. /\ store' = e.end /\ EndRun(w, told) /\ run[w].pc \in Detached /\ Settled(store)
      /\ SettledRun /\ IInv
  BY DEF Unwind, Ends, CutShort, SettledIInv
<1>2. /\ p \in Phases /\ run \in [Workers -> RunType] /\ up
      /\ store.phase[p].status \notin TerminalPhase => run[w].token = w
      /\ live \in Workers \cup {NoWorker}
  BY <1>1 DEF IInv, RunInv, BusyInv, TypeOK, Detached
<1>3. live # w
  BY <1>1, WorkersAssumption DEF SettledRun, Attached, Detached
<1>4. store.phase[p].status = "running" => Stale(w)
  <2> SUFFICES ASSUME store.phase[p].status = "running" PROVE Stale(w)
    OBVIOUS
  <2>1. run[w].token = w
    BY <1>2 DEF TerminalPhase
  <2>2. live \in Workers /\ run[live].pc \in Attached
    BY <1>1, <1>2 DEF SettledRun, Still
  <2>3. AttachedInv(live)
    BY <1>1, <2>2 DEF IInv, RunInv
  <2>4. token[p] = live
    BY <1>2, <2>3 DEF AttachedInv, TerminalPhase
  <2> QED BY <1>3, <2>1, <2>2, <2>4, WorkersAssumption DEF Stale
<1>5. store' = store
  BY <1>1, <1>4 DEF KillPhase, NoEffect, Effect
<1>6. run' = [run EXCEPT ![w] = Idle] /\ live' = live /\ up' = up
  BY <1>1, <1>3 DEF EndRun
<1>7. \A u \in Workers : run'[u].pc \in Attached => run'[u] = run[u]
  BY <1>2, <1>6, IdleType DEF Attached
<1>8. live' # NoWorker => run'[live'].pc \in Attached
  BY <1>1, <1>2, <1>3, <1>6 DEF SettledRun
<1>9. SettledRun'
  BY <1>1, <1>5, <1>6, <1>7, <1>8 DEF SettledRun
<1> QED BY <1>1, <1>5, <1>9 DEF SettledStep, DoneKept

\* The server starts and repairs: what ran is queued again.
LEMMA BootSettled == ASSUME ~Torn, SettledIInv, Boot PROVE SettledStep
<1> DEFINE q == Smallest(In(store, "running"))
           e == RequeueInterrupted(store)
<1>1. /\ IInv /\ StoreInv(store) /\ store \in StoreType /\ Settled(store)
      /\ live \in Workers \cup {NoWorker} /\ ~up
      /\ \A w \in Workers : run[w].pc = "idle"
  BY DEF Boot, SettledIInv, IInv, TypeOK, RunInv, BusyInv, StoreInv
<1>2. live = NoWorker
  BY <1>1 DEF SettledIInv, SettledRun, Attached
<1>3. ReconcileStuck(store) = NoEffect(store)
  BY <1>1 DEF ReconcileStuck, Stuck, StoreInv
<1>4. /\ store' = e.end /\ up' = TRUE /\ live' = live /\ run' = run
  BY <1>3 DEF Boot, CutShort, StartUp, Then, NoEffect, Effect
<1>5. Settled(e.end) /\ Still(e.end) /\ DoneKept(store, e.end)
  <2>1. CASE In(store, "running") # {}
    <3>1. q \in Phases /\ store.phase[q].status = "running"
      BY <2>1, SmallestOf DEF In
    <3>2. e = KillPhase(store, q, "server_restart") /\ "server_restart" \in KillReasons
      BY <1>1, <2>1, <3>1 DEF RequeueInterrupted, Settled, KillReasons
    <3> HIDE DEF e, q
    <3> QED BY <1>1, <3>1, <3>2, KillPhaseSettled
  <2>2. CASE In(store, "running") = {}
    <3>1. e.end = store
      BY <2>2 DEF RequeueInterrupted, NoEffect, Effect
    <3> HIDE DEF e
    <3> QED BY <1>1, <2>2, <3>1 DEF In, Still, DoneKept
  <2> QED BY <2>1, <2>2
<1> HIDE DEF e
<1>6. SettledRun'
  BY <1>1, <1>2, <1>4, <1>5 DEF SettledRun, Still, Attached
<1> QED BY <1>4, <1>5, <1>6 DEF SettledStep

\* The server dies.
LEMMA CrashSettled == ASSUME SettledIInv, Crash PROVE SettledStep
<1>1. /\ store' = store /\ up' = FALSE /\ live' = NoWorker
      /\ \A w \in Workers : run'[w].pc = "idle"
  BY IdleType DEF Crash, PowerOff
<1> QED BY <1>1 DEF SettledStep, SettledRun, SettledIInv, DoneKept, Attached

\* Every step keeps the store settled and what is done.
LEMMA NextSettled == ASSUME ~Torn, SettledIInv, Next PROVE SettledIInv' /\ DoneKept(store, store')
<1>1. IInv'
  BY NextInv DEF SettledIInv
<1>2. ASSUME NEW w \in Workers, Step(w)
      PROVE  SettledStep
  BY <1>2, RunAsJobSettled, NeedsSourcesSettled, ResumeSettled, TurnDoneSettled, TurnFailsSettled,
     TurnParksSettled, AsksSettled, VerifyFailsSettled, CompletesSettled, OffersChoiceSettled,
     StopSettled, UnwindSettled DEF Step
<1>3. SettledStep
  BY <1>2, CrashSettled, BootSettled DEF Next
<1> QED BY <1>1, <1>3 DEF SettledIInv, SettledStep

\* While crashes do not split an operation, every reachable state is settled.
LEMMA SettledInvariant == ASSUME ~Torn PROVE Spec => []SettledIInv
<1>1. SettledIInv /\ [Next]_vars => SettledIInv'
  <2>1. ASSUME SettledIInv, UNCHANGED vars PROVE SettledIInv'
    BY <2>1, NextInv DEF vars, SettledIInv, SettledRun
  <2> QED BY <2>1, NextSettled
<1> QED BY <1>1, InitSettled, PTL DEF Spec

\* While crashes fall between operations: nobody takes a phase away from the run that
\* works on it, however often the job is stopped and resumed.
THEOREM RunOwnsPhaseHolds == ASSUME ~Torn PROVE Spec => []RunOwnsPhase
<1>1. SettledIInv => RunOwnsPhase
  <2> SUFFICES ASSUME SettledIInv, NEW w \in Workers, run[w].pc \in Attached
               PROVE  /\ live = w
                      /\ store.phase[run[w].phase].status = "running"
                      /\ token[run[w].phase] = run[w].token
    BY DEF RunOwnsPhase
  <2>1. live = w /\ store.phase[run[w].phase].status = "running" /\ IInv
    BY AttachedSettled
  <2>2. AttachedInv(w) /\ BusyInv(w)
    BY <2>1, AttachedFacts
  <2> QED BY <2>1, <2>2 DEF AttachedInv, BusyInv, TerminalPhase
<1> QED BY <1>1, SettledInvariant, PTL

\* The next message is taken for an answer only when the job's current phase is the
\* one that asked, and has been queued for it.
THEOREM AnswerReachesAskerHolds == ASSUME ~Torn PROVE Spec => []AnswerReachesAsker
<1>1. SettledIInv => AnswerReachesAsker
  <2> SUFFICES ASSUME SettledIInv, WaitsForAnswer(store)
               PROVE  /\ store.checkpoint.phase = store.job.current
                      /\ store.phase[store.job.current].status = "queued"
    BY DEF AnswerReachesAsker
  <2>1. /\ store.job.status = "running" /\ store.checkpoint.reason = "answer"
        /\ In(store, "running") = {} /\ In(store, "waiting") = {}
    BY DEF WaitsForAnswer, Paused
  <2>2. store.job.current \in Phases
    BY <2>1 DEF SettledIInv, IInv, StoreInv
  <2>3. /\ \A p \in Phases : store.phase[p].status # "running"
        /\ store.phase[store.job.current].status # "waiting"
    BY <2>1, <2>2 DEF In
  <2> QED BY <2>1, <2>2, <2>3 DEF SettledIInv, Settled, OpenJob
<1> QED BY <1>1, SettledInvariant, PTL

\* A job says done only when every phase is done or cancelled.
THEOREM DoneIsDoneHolds == ASSUME ~Torn PROVE Spec => []DoneIsDone
<1>1. SettledIInv => DoneIsDone
  BY DEF SettledIInv, Settled, DoneIsDone, Rows
<1> QED BY <1>1, SettledInvariant, PTL

\* No step takes a done phase back, or cancels it.
THEOREM DoneWorkStaysHolds == ASSUME ~Torn PROVE Spec => DoneWorkStays
<1> DEFINE Stays == \A p \in In(store, "done") : store'.phase[p].status = "done"
<1>1. SettledIInv /\ [Next]_vars => [Stays]_vars
  BY NextSettled DEF DoneKept, In
<1> QED BY <1>1, SettledInvariant, PTL DEF Spec, DoneWorkStays

\* While crashes fall between operations: an open job nobody works on is offered to
\* the operator, or it is one of two left-overs, known by their rows: the plan a
\* failed check has queued, and the plan of a choice that could not be parked.
THEOREM NoJobStrandedHolds == ASSUME ~Torn PROVE Spec => []NoJobStranded
<1>1. SettledIInv => NoJobStranded
  <2> SUFFICES ASSUME SettledIInv, up, live = NoWorker, store.job.status \in OpenJob
               PROVE  Offered(store) \/ LeftByReplan(store) \/ LeftByChoice(store)
    BY DEF NoJobStranded, LeftOver
  <2>1. Still(store) /\ Settled(store)
    BY DEF SettledIInv, SettledRun
  <2>2. CASE store.job.status = "waiting"
    BY <2>1, <2>2 DEF Settled, Offered
  <2>3. CASE store.job.status = "running"
    <3>1. store.job.current \in Phases
      BY <2>3 DEF SettledIInv, IInv, StoreInv
    <3>2. In(store, "running") = {} /\ In(store, "waiting") = {}
      BY <2>1, <2>3 DEF Settled, Still, In
    <3>3. store.job.current \in In(store, "queued")
      BY <2>1, <2>3, <3>1, <3>2 DEF Settled, OpenJob, In
    <3>4. store.checkpoint.phase # NoPhase
      BY <2>1, <2>3 DEF Settled
    <3>5. CASE store.checkpoint.reason \in KillReasons \cup {"answer"}
      BY <2>3, <3>2, <3>3, <3>4, <3>5 DEF Offered, StoppedByOperator, WaitsForAnswer, Paused
    <3>6. CASE store.checkpoint.reason \notin KillReasons \cup {"answer"}
      BY <2>1, <2>3, <3>6 DEF Settled, Still
    <3> QED BY <3>5, <3>6
  <2>4. CASE store.job.status = "queued"
    BY <2>1, <2>4 DEF Settled
  <2> QED BY <2>2, <2>3, <2>4 DEF OpenJob
<1> QED BY <1>1, SettledInvariant, PTL

=============================================================================
