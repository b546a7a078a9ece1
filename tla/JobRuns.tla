------------------------------- MODULE JobRuns -------------------------------
(***************************************************************************)
(* One chat job and everything that moves it: the workers of               *)
(* POST /api/chat/stream (routers/chat.py, chat/job_runner.py,             *)
(* chat/job_resume.py, chat/turn_streamer.py), Stop, the operator who      *)
(* resumes, a crash of the server and the repairs of the next start        *)
(* (web/app.py, stuck_phase_reconciler.py).                                *)
(*                                                                         *)
(* All of it runs on one event loop.  A worker can only be overtaken while *)
(* it awaits: the model's reply ("turn", inside asyncio.wait_for) or what  *)
(* is asked about a finished reply ("check": is it a question, does the    *)
(* checker pass).  Everything between two awaits is one action; only a     *)
(* crash can split it, between two commits (CutShort).                     *)
(***************************************************************************)
EXTENDS JobStore

CONSTANTS Workers,     \* chat stream tasks
          NoWorker,
          Checked,     \* BOOLEAN: Execute phases have a checker that may fail
          Choices,     \* BOOLEAN: a first plan may ask the operator to choose
          Wiki,        \* BOOLEAN: a goal may be about the wiki
          Torn         \* BOOLEAN: a crash may fall between two commits

ASSUME WorkersAssumption  == NoWorker \notin Workers
ASSUME SwitchesAssumption == {Checked, Choices, Wiki, Torn} \subseteq BOOLEAN

VARIABLES
  store,   \* the durable rows of the job
  up,      \* the server process is running
  live,    \* _active_stream_tasks[session]
  token,   \* _PHASE_RUN_TOKENS; a run's token is named by the worker that made it
  run,     \* what each worker is doing
  told     \* the last thing a worker said about the job in the chat

vars == <<store, up, live, token, run, told>>

\* path: "mint" for execute_goal_job_phases, "resume" for the resumed phase,
\* "rest" for continue_remaining_resumed_phases; todo: its snapshot of phases.
Idle == [pc |-> "idle", phase |-> NoPhase, token |-> NoWorker, path |-> "none", todo |-> {}]

Attached == {"turn", "check"}            \* working for the session
Detached == {"stopTurn", "stopCheck"}    \* cancelled, not unwound yet

RunType == [pc    : {"idle"} \cup Attached \cup Detached,
            phase : Phases \cup {NoPhase},
            token : Workers \cup {NoWorker},
            path  : {"none", "mint", "resume", "rest"},
            todo  : SUBSET Phases]

TypeOK ==
  /\ store \in StoreType
  /\ up \in BOOLEAN
  /\ live \in Workers \cup {NoWorker}
  /\ token \in [Phases -> Workers \cup {NoWorker}]
  /\ run \in [Workers -> RunType]
  /\ told \in {"nothing", "failed", "waiting", "question", "done", "error"}

Init ==
  /\ store = EmptyStore
  /\ up = TRUE
  /\ live = NoWorker
  /\ token = [p \in Phases |-> NoWorker]
  /\ run = [w \in Workers |-> Idle]
  /\ told = "nothing"

-----------------------------------------------------------------------------
(* The server process. *)

\* What the process held in memory is gone.
PowerOff ==
  /\ up' = FALSE
  /\ live' = NoWorker
  /\ token' = [p \in Phases |-> NoWorker]
  /\ run' = [w \in Workers |-> Idle]
  /\ UNCHANGED told

\* The process dies in the middle of effect e.
CutShort(e) == Torn /\ store' \in e.cuts /\ PowerOff

Crash == up /\ PowerOff /\ UNCHANGED store

Boot ==
  /\ ~up
  /\ LET e == StartUp(store)
     IN \/ store' = e.end /\ up' = TRUE /\ UNCHANGED <<live, token, run, told>>
        \/ CutShort(e)

-----------------------------------------------------------------------------
(* Starting a worker. *)

\* Mutant: a second stream is let in.
SessionShared == TRUE

\* session_turn_running: a second stream is refused with 409.
SessionFree == live = NoWorker

\* create_task(worker()) and its registration.
CanStream(w) == up /\ SessionFree /\ run[w].pc = "idle"

Turn(w, p, runToken, path, todo) ==
  [pc |-> "turn", phase |-> p, token |-> runToken, path |-> path, todo |-> todo]

\* The minted job, grounded on the notes of the wiki if the goal is about it.
Minted(plan, wiki) ==
  LET minted == MintJob(plan, plan[1] = "research")
  IN IF wiki THEN Then(minted, GroundOnNotes(minted.end, FormulateOf(plan))) ELSE minted

\* Run as a job: mint, then start the first phase.  A Research phase whose
\* work was done at mint completes at once and the next one starts.
RunAsJob(w) ==
  /\ CanStream(w)
  /\ store.job.status = "none"
  /\ \E plan \in FirstPlans, wiki \in {FALSE, Wiki} :
       LET research == plan[1] = "research"
           minted   == Minted(plan, wiki)
           first    == Then(minted, StartPhase(minted.end, 1))
           skipped  == Then(first, CompletePhase(first.end, 1))
           e        == IF research THEN Then(skipped, StartPhase(skipped.end, 2)) ELSE first
           p        == e.end.job.current
       IN \/ /\ store' = e.end
             /\ live' = w
             /\ token' = [q \in Phases |-> IF q <= p THEN w ELSE token[q]]
             /\ run' = [run EXCEPT ![w] = Turn(w, p, w, "mint", {q \in DOMAIN plan : q > p})]
             /\ UNCHANGED <<up, told>>
          \/ CutShort(e)

\* Run as a job, and the wiki has no notes on the topic: the job parks before a
\* phase has run, and the worker ends.
NeedsSources(w) ==
  /\ CanStream(w) /\ Wiki
  /\ store.job.status = "none"
  /\ \E plan \in FirstPlans :
       LET minted == MintJob(plan, plan[1] = "research")
           e      == Then(minted, ParkForSources(minted.end, FormulateOf(plan)))
       IN \/ store' = e.end /\ told' = "waiting" /\ UNCHANGED <<up, live, token, run>>
          \/ CutShort(e)

\* resume: true, or a message that answers the step's question.
Resume(w) ==
  /\ CanStream(w)
  /\ Resumable(store)
  /\ LET p       == ContinuePhase(store)
         found   == ResumeAfterCrash(store)
         starts  == ~StartRefused(found.end, p)
         e       == IF starts THEN Then(found, StartPhase(found.end, p)) ELSE found
         holder  == IF starts THEN w ELSE token[p]
     IN \/ /\ store' = e.end
           /\ live' = w
           /\ token' = [token EXCEPT ![p] = holder]
           /\ run' = [run EXCEPT ![w] = Turn(w, p, holder, "resume", {})]
           /\ UNCHANGED <<up, told>>
        \/ CutShort(e)

-----------------------------------------------------------------------------
(* The end of a turn. *)

\* The worker's finally clause; what it said last is said.
EndRun(w, saying) ==
  /\ run' = [run EXCEPT ![w] = Idle]
  /\ live' = IF live = w THEN NoWorker ELSE live
  /\ told' = saying
  /\ UNCHANGED <<up, token>>

Ends(w, e, saying) == (store' = e.end /\ EndRun(w, saying)) \/ CutShort(e)

\* An exception the worker only reports.
Raises(w) == UNCHANGED store /\ EndRun(w, "error")

InTurn(w)  == run[w].pc = "turn"
InCheck(w) == run[w].pc = "check"

\* The reply is complete.  The kernel writes DONE on the phase row, unless the
\* one kernel all turns share already stood at DONE.
TurnDone(w) ==
  /\ InTurn(w)
  /\ store' \in {store, PutPhase(store, run[w].phase, store.phase[run[w].phase].status, "DONE")}
  /\ run' = [run EXCEPT ![w].pc = "check"]
  /\ UNCHANGED <<up, live, token, told>>

\* Timeout or stall after the last retry, an error, or a failed turn.
TurnFails(w) == InTurn(w) /\ Ends(w, FailPhase(store, run[w].phase), "failed")

\* An approval card is needed.
TurnParks(w) ==
  /\ InTurn(w)
  /\ LET p == run[w].phase
     IN IF ParkRefused(store, p) THEN Raises(w) ELSE Ends(w, ParkPhase(store, p), "waiting")

\* The step asked the operator something.
Asks(w) ==
  /\ InCheck(w)
  /\ LET p == run[w].phase
     IN IF ParkRefused(store, p) THEN Raises(w) ELSE Ends(w, WaitForAnswer(store, p), "question")

\* The checker failed: replan or park; nothing goes on to run the new phases.
VerifyFails(w) ==
  /\ InCheck(w) /\ Checked
  /\ store.phase[run[w].phase].lane = "execute"
  /\ RoomToReplan(store)
  /\ LET p == run[w].phase
         replans == store.checkpoint.replans < MaxReplans
     IN IF ReplanRefused(store, p) THEN Raises(w)
        ELSE Ends(w, BoundedReplan(store, p),
                  IF ~replans THEN "waiting" ELSE IF run[w].path = "mint" THEN "failed" ELSE told)

\* The phases still to run after a completed one.
Remaining(w, s) ==
  IF run[w].path = "resume" THEN In(s, "queued")
  ELSE IF run[w].path = "mint" THEN {q \in run[w].todo : s.phase[q].status \notin TerminalPhase}
  ELSE run[w].todo

\* The reply is recorded and the next phase starts; the last one ends the job.
\* A refused completion fails the phase (complete_phase_or_fail).
Completes(w) ==
  /\ InCheck(w)
  /\ LET p    == run[w].phase
         done == CompletePhase(store, p)
         rest == Remaining(w, done.end)
         next == Smallest(rest)
         e    == Then(done, StartPhase(done.end, next))
         path == IF run[w].path = "mint" THEN "mint" ELSE "rest"
     IN IF CompleteRefused(store, p) THEN Ends(w, FailPhase(store, p), "failed")
        ELSE IF rest = {} THEN Ends(w, done, "done")
        ELSE IF ~StartRefused(done.end, next)
        THEN \/ /\ store' = e.end
                /\ token' = [token EXCEPT ![next] = w]
                /\ run' = [run EXCEPT ![w] = Turn(w, next, w, path, rest \ {next})]
                /\ UNCHANGED <<up, live, told>>
             \/ CutShort(e)
        \* A minted job's runner streams a phase that is already running.
        ELSE IF path = "mint"
        THEN \/ /\ store' = done.end
                /\ run' = [run EXCEPT ![w] = Turn(w, next, token[next], path, rest \ {next})]
                /\ UNCHANGED <<up, live, token, told>>
             \/ CutShort(done)
        ELSE Ends(w, done, "error")

\* The first phase's plan asks for a choice: park_phase on the phase that was
\* just completed, which it refuses.
OffersChoice(w) ==
  /\ InCheck(w) /\ Choices
  /\ run[w].path = "mint" /\ run[w].phase = 1 /\ run[w].todo # {}
  /\ ~CompleteRefused(store, 1)
  /\ LET done == CompletePhase(store, 1)
     IN IF ParkRefused(done.end, 1) THEN Ends(w, done, "error")
        ELSE Ends(w, Then(done, ParkPhase(done.end, 1)), "waiting")

-----------------------------------------------------------------------------
(* Stop. *)

\* POST .../abort on a live worker: checkpoint the session, then cancel the
\* task.  The registry entry goes first, so a new stream may start at once.
Stop(w) ==
  /\ live = w /\ run[w].pc \in Attached
  /\ LET e == KillSession(store)
     IN \/ /\ store' = e.end
           /\ live' = NoWorker
           /\ run' = [run EXCEPT ![w].pc = IF @ = "turn" THEN "stopTurn" ELSE "stopCheck"]
           /\ UNCHANGED <<up, token, told>>
        \/ CutShort(e)

\* Mutant: the run token is not compared.
StaleUnknown(w) == FALSE

\* A stale run: another run has started its phase since.
Stale(w) ==
  LET p == run[w].phase
  IN run[w].token # NoWorker /\ token[p] # NoWorker /\ token[p] # run[w].token

\* CancelledError reaches the worker.  Inside wait_for it checkpoints its phase,
\* unless stale; elsewhere it only ends.
Unwind(w) ==
  /\ run[w].pc \in Detached
  /\ LET e == IF run[w].pc = "stopTurn" /\ ~Stale(w)
              THEN KillPhase(store, run[w].phase, "operator_kill") ELSE NoEffect(store)
     IN Ends(w, e, told)

Step(w) == \/ RunAsJob(w) \/ NeedsSources(w) \/ Resume(w)
           \/ TurnDone(w) \/ TurnFails(w) \/ TurnParks(w)
           \/ Asks(w) \/ VerifyFails(w) \/ Completes(w) \/ OffersChoice(w)
           \/ Stop(w) \/ Unwind(w)

Next == Crash \/ Boot \/ \E w \in Workers : Step(w)

Spec == Init /\ [][Next]_vars

-----------------------------------------------------------------------------
(* Safety. *)

\* At most one phase is running, whatever is stopped, resumed, replanned or cut
\* short by a crash (what the start-up repair and resume_after_crash rely on when
\* they take the first running phase they find).
OneRunningPhase == \A p, q \in In(store, "running") : p = q

\* Nobody takes a phase away from a run that works on it: it stays running and
\* the run's token stays current until the run itself ends it (CARD-530).
RunOwnsPhase ==
  \A w \in Workers : run[w].pc \in Attached =>
    /\ live = w
    /\ store.phase[run[w].phase].status = "running"
    /\ token[run[w].phase] = run[w].token

\* Two ways of the code to leave an open job to nobody.
\* The worker that replanned has ended: the new plan is queued, and the checkpoint
\* that counts the replan tells the failure, which nothing takes for a pause
\* (job_runner.py:446, bounded_auto_replan.py:138).
LeftByReplan(s) ==
  /\ s.checkpoint.reason = "failure" /\ s.checkpoint.replans > 0
  /\ s.checkpoint.phase = s.job.current
  /\ s.phase[s.job.current].status = "queued"

\* The worker that offered a choice has ended: the first phase is done, its park
\* was refused, and the checkpoint has no reason at all.
LeftByChoice(s) ==
  /\ s.checkpoint.reason = "none" /\ s.checkpoint.phase = 1
  /\ s.phase[1].status = "done"
  /\ s.phase[s.job.current].status = "queued"

\* Nobody works on the open job and the chat does not offer it.
LeftOver == live = NoWorker /\ store.job.status \in OpenJob
            /\ (LeftByReplan(store) \/ LeftByChoice(store))

\* An open job nobody is working on shows the operator how to go on: a Stop, a
\* question, an approval, a crash between operations and a park after the last
\* replan leave a checkpoint kill_resume.py recognises.  The exceptions are the
\* plan a replan has queued and the plan of a refused choice.
NoJobStranded ==
  up /\ live = NoWorker /\ store.job.status \in OpenJob => Offered(store) \/ LeftOver

\* While the chat takes the next message for an answer (waits_for_answer), the
\* phase that gets it, the job's current one, is the one that asked.
AnswerReachesAsker ==
  WaitsForAnswer(store) =>
    /\ store.checkpoint.phase = store.job.current
    /\ store.phase[store.job.current].status = "queued"

\* A job that says done has done or cancelled every phase; no failure, stop or
\* restart on the way is lost (complete_phase's last step, fail_phase).
DoneIsDone ==
  store.job.status = "done" =>
    \A p \in Rows(store) : store.phase[p].status \in {"done", "cancelled"}

\* The cap of bounded_auto_replan.py is a durable counter that every later checkpoint
\* must carry over: a replan is counted in the step that makes it, unless the process
\* dies within that step, and no stop, crash, resume or repair moves the counter.
ReplansCounted ==
  [][store.job.status # "none" =>
       LET made == Cardinality(Rows(store')) - Cardinality(Rows(store))
       IN \/ made = ReplanSize * (store'.checkpoint.replans - store.checkpoint.replans)
          \/ ~up' /\ store'.checkpoint.replans = store.checkpoint.replans]_vars

\* A job's outcome is final: no late worker, Stop, resume or repair reopens or
\* rewrites a done, failed or cancelled job.
OutcomeIsFinal ==
  [][store.job.status \in TerminalJob => store'.job.status = store.job.status]_vars

\* Work that was done is never undone, repeated as new or thrown away: neither
\* fail_phase, which has no guard, nor a replan or a resume touches a done phase.
DoneWorkStays ==
  [][\A p \in In(store, "done") : store'.phase[p].status = "done"]_vars

\* Stop, a crash and a restart never fail or cancel a phase; the repair of
\* CARD-530's jobs (reconcile_stuck_phases) never takes a stopped one for its own.
StopNeverKills ==
  [][(Crash \/ Boot \/ \E w \in Workers : Stop(w) \/ Unwind(w)) =>
       \A p \in Phases : store'.phase[p].status \in {"failed", "cancelled"}
                           => store'.phase[p].status = store.phase[p].status]_vars

\* No phase runs while one before it is still to be done, however the run was
\* interrupted and resumed (complete_phase's choice of the next phase, the choice
\* of resume_after_crash).  The exception is the Research of a job about the wiki:
\* a job parked for sources resumes with Formulate and runs its Research after it.
InOrder ==
  \A p \in In(store, "running"), q \in Rows(store) :
    q < p => \/ store.phase[q].status \in TerminalPhase
             \/ Wiki /\ store.phase[q].lane = "research"

-----------------------------------------------------------------------------
(* Liveness. *)

\* Model calls and checks have timeouts, the loop delivers a cancellation, the
\* server is started again, and the operator takes up what the chat offers.
Fairness ==
  /\ WF_vars(Boot)
  /\ \A w \in Workers : /\ WF_vars(TurnDone(w) \/ TurnFails(w))
                         /\ WF_vars(Completes(w))
                         /\ WF_vars(Unwind(w))
  /\ WF_vars(Offered(store) /\ \E w \in Workers : Resume(w))

FairSpec == Spec /\ Fairness

\* A step that sends the job back to the operator, or loses the process.
Setback == Crash \/ \E w \in Workers : Stop(w) \/ Asks(w) \/ TurnParks(w) \/ VerifyFails(w)

Ended == store.job.status \in TerminalJob

\* Once the setbacks end, a job ends, or it is left over by a replan or a refused
\* choice: no other interruption leaves a job that nobody works on and that the
\* operator is not offered.
JobEnds == (<>[][~Setback]_vars) => (store.job.status # "none" ~> Ended \/ LeftOver)

=============================================================================
