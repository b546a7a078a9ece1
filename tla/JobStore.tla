------------------------------ MODULE JobStore ------------------------------
(***************************************************************************)
(* The durable record of one job and the operations of                     *)
(* src/application/orchestration/job_phase_orchestrator.py and             *)
(* job_recovery.py on it.                                                  *)
(*                                                                         *)
(* A store is a record: the job row (status, current phase), the phase     *)
(* rows in index order, and the latest checkpoint row, which is all that   *)
(* get_latest_job_phase_checkpoint ever returns.                           *)
(*                                                                         *)
(* An operation commits several rows one after the other, each in its own  *)
(* transaction.  It is therefore an effect: the store it ends in, and      *)
(* "cuts", the stores a crash in the middle of it may leave behind.        *)
(***************************************************************************)
EXTENDS Integers, FiniteSets

CONSTANTS MaxReplans,   \* MAX_REPLAN_ATTEMPTS (3 in the code)
          FirstPlans,   \* the plans create_job_from_catalog_resolve may write
          MaxPhases     \* bound: phase rows a job may come to have

ASSUME ReplansAssumption == MaxReplans \in Nat
ASSUME RowsAssumption    == MaxPhases \in Nat /\ MaxPhases >= 3

Lanes == {"research", "formulate", "execute"}

ReplanSize == 2               \* phases a replan appends
Phases     == 1 .. MaxPhases
NoPhase    == 0

\* Formulate and Execute, after a Research phase or not.
ASSUME PlansAssumption ==
  \A plan \in FirstPlans : \E n \in 2 .. 3 : plan \in [1 .. n -> Lanes]

OpenJob       == {"queued", "running", "waiting"}
TerminalJob   == {"done", "failed", "cancelled"}
TerminalPhase == {"done", "failed", "cancelled"}
Startable     == {"queued", "waiting"}

\* last_fail_reason, cut to the classes kill_resume.py tells apart ("failure" is any other).
Reasons     == {"none", "operator_kill", "server_restart", "answer", "failure"}
\* Mutant: a restart is not a reason Resume recognises.
KillReasonsBeforeRestarts == {"operator_kill"}
KillReasons == {"operator_kill", "server_restart"}

JobType   == [status : {"none"} \cup OpenJob \cup TerminalJob, current : Phases \cup {NoPhase}]
PhaseType == [lane   : Lanes \cup {"none"},
              status : {"absent", "queued", "running", "waiting"} \cup TerminalPhase,
              react  : {"none", "THINKING", "PARKED", "DONE", "FAILED"}]
\* The latest checkpoint; phase = NoPhase when none has been written.
CheckpointType == [phase : Phases \cup {NoPhase}, reason : Reasons, parked : BOOLEAN,
                   replans : 0 .. MaxReplans, research : BOOLEAN]

StoreType == [job : JobType, phase : [Phases -> PhaseType], checkpoint : CheckpointType]

EmptyStore ==
  [job        |-> [status |-> "none", current |-> NoPhase],
   phase      |-> [p \in Phases |-> [lane |-> "none", status |-> "absent", react |-> "none"]],
   checkpoint |-> [phase |-> NoPhase, reason |-> "none", parked |-> FALSE,
                   replans |-> 0, research |-> FALSE]]

-----------------------------------------------------------------------------
(* Single commits. *)

Smallest(S) == CHOOSE p \in S : \A q \in S : p <= q

In(s, status) == {p \in Phases : s.phase[p].status = status}
Rows(s)       == {p \in Phases : s.phase[p].status # "absent"}

PutPhase(s, p, status, react) ==
  [s EXCEPT !.phase[p].status = status, !.phase[p].react = react]

PutJob(s, status, current) ==
  [s EXCEPT !.job = [status |-> status, current |-> current]]

\* save_job_phase_checkpoint with a reason; the other fields are inherited.
Checkpoint(s, p, parked, reason) ==
  [s EXCEPT !.checkpoint = [@ EXCEPT !.phase = p, !.parked = parked, !.reason = reason]]

\* The same with last_fail_reason left out: the prior row's reason is kept.
CheckpointInheriting(s, p, parked) == Checkpoint(s, p, parked, s.checkpoint.reason)

-----------------------------------------------------------------------------
(* Effects. *)

Effect(cuts, end) == [cuts |-> cuts, end |-> end]
NoEffect(s)       == Effect({}, s)
\* e, and from the store it ends in, f.
Then(e, f)        == Effect(e.cuts \cup {e.end} \cup f.cuts, f.end)

\* The intake gate before this, of the first phase of a job (a testable rule, matched
\* capabilities), refuses only what the mint could not have written: it reads them from the
\* rule and the checkpoint that a mint writes, and without that checkpoint (a torn mint)
\* nothing is offered, so no phase is started.
StartRefused(s, p) == s.job.status = "cancelled" \/ s.phase[p].status \notin Startable

StartPhase(s, p) ==
  LET s1 == PutPhase(s, p, "running", "THINKING")
  IN Effect({s1}, PutJob(s1, "running", p))

CompleteRefused(s, p) == s.phase[p].status \in {"failed", "cancelled", "waiting", "queued"}

LaterQueued(s, p) == {q \in In(s, "queued") : q > p}

CompletePhase(s, p) ==
  LET s1 == PutPhase(s, p, "done", "DONE")
      s2 == CheckpointInheriting(s1, p, FALSE)
      next == LaterQueued(s, p)
  IN IF s.phase[p].status = "done" THEN NoEffect(s)
     ELSE Effect({s1, s2}, IF next = {} THEN PutJob(s2, "done", p)
                           ELSE PutJob(s2, "running", Smallest(next)))

\* Mutant: the phase fails and the job does not hear of it.
FailPhaseAlone(s, p) == Effect({}, PutPhase(s, p, "failed", "FAILED"))

FailPhase(s, p) ==
  LET s1 == PutPhase(s, p, "failed", "FAILED")
      s2 == Checkpoint(s1, p, FALSE, "failure")
  IN Effect({s1, s2}, PutJob(s2, "failed", p))

ParkRefused(s, p) == s.phase[p].status \in TerminalPhase

ParkPhase(s, p) ==
  LET s1 == PutPhase(s, p, "waiting", "PARKED")
      s2 == CheckpointInheriting(s1, p, TRUE)
  IN Effect({s1, s2}, PutJob(s2, "waiting", p))

WaitForAnswer(s, p) ==
  LET s1 == PutPhase(s, p, "queued", "none")
      s2 == Checkpoint(s1, p, FALSE, "answer")
  IN Effect({s1, s2}, PutJob(s2, "running", p))

-----------------------------------------------------------------------------
(* Minting and replanning. *)

NewPhase(lane) == [lane |-> lane, status |-> "queued", react |-> "none"]

\* create_job_with_phases (one transaction), then the first checkpoint.
MintJob(plan, research) ==
  LET s1 == [EmptyStore EXCEPT
               !.job   = [status |-> "queued", current |-> 1],
               !.phase = [p \in Phases |-> IF p \in DOMAIN plan THEN NewPhase(plan[p]) ELSE @[p]]]
  IN Effect({s1}, [s1 EXCEPT !.checkpoint = [@ EXCEPT !.phase = 1, !.research = research]])

\* The phase that plans: the first one that is no Research.
FormulateOf(plan) == IF plan[1] = "research" THEN 2 ELSE 1

\* wiki_thin_grounding.py, for a goal about the wiki: with notes on the topic a
\* checkpoint of the Formulate phase; without, the phase is parked for sources.
GroundOnNotes(s, p) == Effect({}, CheckpointInheriting(s, p, FALSE))

ParkForSources(s, p) ==
  LET s1 == Checkpoint(s, p, TRUE, "failure") IN Then(Effect({}, s1), ParkPhase(s1, p))

\* The unfinished phases up to index n are cancelled.
CancelUpTo(s, n) ==
  [s EXCEPT !.phase = [p \in Phases |->
     IF p <= n /\ s.phase[p].status \in {"queued", "running", "waiting"}
     THEN [@[p] EXCEPT !.status = "cancelled", !.react = "none"] ELSE @[p]]]

AppendPhase(s, p, lane) == [s EXCEPT !.phase[p] = NewPhase(lane)]

FirstFree(s) == Cardinality(Rows(s)) + 1

\* MaxPhases leaves room for another replan, if the cap allows one.
RoomToReplan(s) ==
  s.checkpoint.replans < MaxReplans => {FirstFree(s), FirstFree(s) + 1} \subseteq Phases

ReplanJob(s) ==
  LET first == FirstFree(s)
      s1 == CancelUpTo(s, first - 1)
      s2 == AppendPhase(s1, first, "formulate")
      s3 == AppendPhase(s2, first + 1, "execute")
      s4 == PutJob(s3, IF In(s, "done") # {} THEN "running" ELSE "queued", first)
  IN Effect({CancelUpTo(s, n) : n \in Phases} \cup {s2, s3}, s4)

\* Mutant: the replan count is inherited instead of raised.
CountReplanLost(s) == Effect({}, Checkpoint(s, s.job.current, FALSE, "failure"))

\* The checkpoint that makes the replan durable is written last.
CountReplan(s) ==
  Effect({}, [Checkpoint(s, s.job.current, FALSE, "failure") EXCEPT !.checkpoint.replans = @ + 1])

\* Mutant: the park after the last replan counts as one more.
ParkExhaustedCounting(s, p) ==
  LET e == ParkPhase(s, p) IN Then(e, CountReplan(e.end))

\* Park, then stamp the checkpoint again with the reason of the failure.
ParkExhausted(s, p) ==
  LET e == ParkPhase(s, p) IN Then(e, Effect({}, Checkpoint(e.end, p, TRUE, "failure")))

ReplanRefused(s, p) ==
  IF s.checkpoint.replans < MaxReplans THEN s.job.status \in TerminalJob ELSE ParkRefused(s, p)

BoundedReplan(s, p) ==
  LET e == ReplanJob(s)
  IN IF s.checkpoint.replans < MaxReplans THEN Then(e, CountReplan(e.end)) ELSE ParkExhausted(s, p)

-----------------------------------------------------------------------------
(* Stopping, restarting and resuming. *)

\* Mutants: no checkpoint; a checkpoint without its reason; the phase keeps the
\* react_state of the turn that was stopped.
RequeueUnrecorded(s, p, reason) ==
  Effect({}, PutJob(PutPhase(s, p, "queued", "none"), "running", p))
RequeueSilent(s, p, reason) ==
  Effect({}, PutJob(CheckpointInheriting(PutPhase(s, p, "queued", "none"), p, FALSE), "running", p))
RequeueKeepingReact(s, p, reason) ==
  Effect({}, PutJob(Checkpoint(PutPhase(s, p, "queued", s.phase[p].react), p, FALSE, reason), "running", p))

\* The RUNNING branch of checkpoint_mid_llm_kill_phase.
Requeue(s, p, reason) ==
  LET s1 == PutPhase(s, p, "queued", "none")
      s2 == Checkpoint(s1, p, FALSE, reason)
  IN Effect({s1, s2}, IF s.job.status \in TerminalJob THEN s2 ELSE PutJob(s2, "running", p))

\* checkpoint_mid_llm_kill_phase, for a run that still owns the phase.
KillPhase(s, p, reason) ==
  IF s.phase[p].status = "running" THEN Requeue(s, p, reason) ELSE NoEffect(s)

\* checkpoint_mid_llm_kill: the first running phase of the open job.
KillSession(s) ==
  IF s.job.status \in OpenJob /\ In(s, "running") # {}
  THEN KillPhase(s, Smallest(In(s, "running")), "operator_kill") ELSE NoEffect(s)

\* The signature of the job CARD-530 left behind.
Stuck(s) == /\ s.job.status = "running"
            /\ s.phase[s.job.current].status = "queued"
            /\ s.phase[s.job.current].react = "DONE"

ReconcileStuck(s) == IF Stuck(s) THEN FailPhase(s, s.job.current) ELSE NoEffect(s)

\* Only jobs whose row says running are looked at; OneRunningPhase below makes
\* the loop over the phases a single step.
RequeueInterrupted(s) ==
  IF s.job.status = "running" /\ In(s, "running") # {}
  THEN KillPhase(s, Smallest(In(s, "running")), "server_restart") ELSE NoEffect(s)

StartUp(s) == LET e == ReconcileStuck(s) IN Then(e, RequeueInterrupted(e.end))

\* Mutant: any job of the session is resumed, open or not.
ResumableClosed(s) == s.checkpoint.phase # NoPhase

Resumable(s) == s.job.status \in OpenJob /\ s.checkpoint.phase # NoPhase

\* Mutants: the interrupted phase is not looked for; the last queued one is taken.
ContinuePhaseUninterrupted(s) ==
  IF In(s, "queued") # {} THEN Smallest(In(s, "queued")) ELSE s.job.current
ContinuePhaseLast(s) ==
  LET open == In(s, "queued") \cup In(s, "running") \cup In(s, "waiting")
  IN IF open # {} THEN CHOOSE p \in open : \A q \in open : q <= p ELSE s.job.current

\* The phase resume_after_crash, and its caller in routers/chat.py, continue with.
ContinuePhase(s) ==
  IF In(s, "running") # {} THEN Smallest(In(s, "running"))
  ELSE IF In(s, "waiting") # {} THEN Smallest(In(s, "waiting"))
  ELSE IF In(s, "queued") # {} /\ s.checkpoint.reason \in KillReasons THEN Smallest(In(s, "queued"))
  ELSE s.job.current

ResumeAfterCrash(s) ==
  LET p  == ContinuePhase(s)
      s1 == PutPhase(s, p, "queued", "none")
  IN IF In(s, "running") # {} THEN Effect({s1}, PutJob(s1, "running", p))
     ELSE IF In(s, "waiting") # {} THEN Effect({}, PutJob(s, "waiting", p))
     ELSE IF In(s, "queued") # {} /\ s.checkpoint.reason \in KillReasons
          THEN Effect({}, PutJob(s, "running", p))
     ELSE NoEffect(s)

-----------------------------------------------------------------------------
(* What the chat offers (kill_resume.py). *)

\* _paused_reason is not None.
Paused(s) == /\ s.job.status = "running"
             /\ In(s, "queued") # {}
             /\ In(s, "running") \cup In(s, "waiting") = {}
             /\ s.checkpoint.phase # NoPhase

WaitsForAnswer(s)    == Paused(s) /\ s.checkpoint.reason = "answer"
StoppedByOperator(s) == Paused(s) /\ s.checkpoint.reason \in KillReasons

\* The operator can see how to go on: Resume, an answer, or an approval card
\* (after its decision, Resume: job_left_parked).
Offered(s) == \/ StoppedByOperator(s)
              \/ WaitsForAnswer(s)
              \/ s.job.status = "waiting" /\ s.checkpoint.parked

=============================================================================
