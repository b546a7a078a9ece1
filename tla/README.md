# AutoReiv in TLA+

AutoReiv is a control plane for language-model agents: a FastAPI server with one
asyncio event loop, one SQLite database, a browser front end and adapters to model
servers. A chat can start a *job*, a short plan whose phases are run one after the
other by an agent, with questions to the operator, approvals, checks of the result,
Stop, Resume, and a server that may be restarted at any moment. This directory
specifies the parts of it that are hard to get right, checks them with TLC on small
instances and proves the most important results with TLAPS for all instances.

Paths below are relative to the repository's `src/` (the Python package).

| file | what it is |
| --- | --- |
| `SlotQueue.tla` | abstract: a limit, a set of runners, a line |
| `GenerationSemaphore.tla` | the slot limiter in front of every model call |
| `JobStore.tla` | the durable rows of a job and the operations on them |
| `JobRuns.tla` | the chat workers, Stop, Resume, crashes and start-up repairs over one `JobStore` |
| `Compaction.tla` | the transcript, the Compact button, what a request to the model holds |
| `AgentTurns.tla` | turns of the kernel, their tool calls, approval cards, hand-offs |
| `Routines.tla` | scheduled runs, runs by hand, edits of the rows under them |
| `SelfUpdate.tla` | the server updates, installs and restarts itself |
| `DataDir.tla` | backups of the data directory, retention, restore |
| `Education.tla` | the mastery ledger, its reviews, the course that fills it |
| `*Proofs.tla` | the proofs |
| `MC*.tla`, `*.cfg` | the instances TLC checks |

`PROJECT.json` lists the components, the runs, a mutant for every property (a
plausible bug that makes TLC find it violated), which source lines each definition
stands for, the findings, the hazards and the theorems.

## 1. Inventory

For each part: its state, its operations, whom it meets, what is hard, what would
make it correct.

**Generation slot limiter** (`application/gateway/generation_semaphore.py`). State:
the cap, a counter, a deque of futures, the loop. Operations: enter and leave a
generation, be cancelled while waiting, change the cap. Every model call passes
through it; Settings changes its cap. Hard: a slot is handed over before its new
owner runs; cancels race with that; the cap may be set by another thread. Correct:
counter = holders, never above the cap, nobody waits beside a free slot, nobody
overtakes, everyone is served. *Modelled.* `GenerationPools` (one limiter per
endpoint, the same cap for each) and `validate_batch_size` are not.

**Job and phase orchestrator** (`application/orchestration/job_phase_orchestrator.py`,
`job_recovery.py`, `infrastructure/memory/repositories/jobs.py`). State: the job row
(status, current phase), the phase rows (lane, status, react state), the latest
checkpoint (phase, reason, parked, replan count), and in memory the run token of
each phase. Operations: mint, start, complete, fail, park, wait for an answer,
cancel, replan, checkpoint of a stopped phase, resume after a crash. Hard: each
operation is several commits; several callers; little of it is guarded. Correct: one
phase runs at most, in order; outcomes are final; done work stays. *Modelled but for*
`cancel_job` (whose callers are the Developer tool, follow-ups, declined routine
handoffs and the old goal review, never the chat worker), checkpoints that do
not parse, phase memory and skill binding.

**Chat job worker** (`web/routers/chat.py`, `application/chat/job_runner.py`,
`job_resume.py`, `turn_streamer.py`, `stream_registry.py`). State: the registry of
live tasks per session, and where each worker stands. Operations: run as a job,
resume or answer, the end of a turn in all its outcomes, Stop. It calls the
orchestrator, the kernel and the verify gate. Hard: Stop removes the worker from the
registry before the worker has unwound, so its successor overlaps with it. Correct:
nobody loses its phase; nobody's job is left without a way on. *Modelled for one
session.* Refusals before the mint (`check_job_mint_preconditions`), the
old goal review, `delete_session` and the frames sent to the browser are not.

**Start-up repair** (`application/orchestration/stuck_phase_reconciler.py`, called by
`web/app.py`). It fails jobs that an old bug left behind and queues again what a
restart cut off. Hard: it sees only rows, and must tell a stopped job from a broken
one. *Modelled.*

**Offers** (`application/orchestration/kill_resume.py`, `chat_job_binding.py`). What
the chat offers for an open job, read from the latest checkpoint: Resume, an answer,
an approval. Correct: an open job nobody works on is always offered. *Modelled; two kinds of job
are not* (section 10).

**Verify gate and bounded replan** (`external_verifier_policy.py`,
`bounded_auto_replan.py`). The outcome of the check is a choice; the cap on replans
and its durable counter are *modelled*.

**Research before plan, wiki grounding** (`research_before_plan.py`,
`wiki_thin_grounding.py`). What they do to the job is *modelled*: a prepared Research
phase completes at once; a goal about the wiki gets a checkpoint or, on a wiki with no
notes on it, a parked Formulate phase. What they read and write elsewhere is not.

**Kernel, tool gate, approvals, hand-offs** (`application/kernel/react_loop.py`,
`agent_kernel.py`, `reply_rules.py`, `application/hitl/approval_manager.py`,
`repositories/approvals.py`, `sessions.py`, `web/routers/hitl.py`,
`orchestration/handoff_engine.py`, `background_resume.py`). State: the transcript (one
row per call, keyed by the call's id), the cards, and in memory the turns and the
approved tools that are being run. Operations: ask the model, run, refuse or park a
call, ask the user, run another agent inside a call, decide a card, resume. A decision
comes from a request, runs the tool in a task of its own, writes rows into one or two
transcripts, and starts a turn of the child or has the browser start one of the chat.
Hard: several writers of one row; a parked batch; a park inside a hand-off; death of
the process between decision and result. Correct: what was approved runs once, the
model reads what happened, every call of a batch has a row, and a decision is heard.
*Modelled, one level of hand-offs.*

**Transcript and compaction** (`application/kernel/context_compactor.py`,
`compaction_verifier.py`, `repositories/sessions.py`). State: the rows of a session, which
of them are archived and for which summary, and in memory the rows a turn works with.
Operations: save a row, compact a request, the Compact button. Hard: calls and results
must stay together through cuts, pins and summaries of summaries; the button may be
pressed in the middle of a turn, and a card decided after its row was archived. Correct:
requests are well-formed, nothing the user said is lost, no row is lost, the button
settles. *Modelled; a finding.*

**Routines** (`application/routines/scheduler.py`, `executor.py`, `matcher.py`,
`web/routers/routines.py`, `repositories/routines.py`). State: rows with a schedule and
a next run; in memory the list a tick works through and the runs. Operations: tick,
run, run now, create, edit, pause, delete. Hard: a run saves the row it was given when
it ends, and ticks take as long as their runs. Correct: a slot fires once and on time,
none is left behind. *Modelled.* The phases of a routine's job are not composed with
`JobStore`.

**Self-update and restart** (`application/system/*`, `scripts/restart_serve.py`).
State: the checkout, what is installed, the process and the code it has loaded, the
restart script, the busy kinds, the deferrals. Operations: update now, switch branch,
the daily update, restart, reload. Hard: an update may fail or die between git and the
install. Correct: unpublished work stays; a restart is ordered onto a sound
installation; updates arrive. *Modelled.*

**Data directory** (`infrastructure/data/backup.py`, `application/system/
backup_scheduler.py`, `web/routers/settings_data_backup.py`). State: database, files,
wiki, archives. Operations: scheduled and manual backup, retention, delete, restore.
Hard: the schedule is itself in the database that a restore replaces; a restore may
stop half-way. Correct: a restore can be undone; retention keeps what it says; what is
left alone comes to be backed up. *Modelled.*

**Education** (`application/education/*`, `web/routers/education*.py`,
`repositories/education_*_ops.py`). State: one row per quizzed step (grade, rung, next
due, pending job), the course and its step, the jobs. Operations: seed, grade, force,
hand over, ask by hand, the nightly retention routine, and the course's start, jump and
completion. Hard: the model writes for a long time between reading a course's step and
completing it; jobs are created before they are marked. Correct: one review is asked
once; a rung is earned; what is due is asked. *Modelled.*

**Not modelled**: the model gateway's HTTP adapters, the SQLite access itself (one
repository call is one transaction, which every module relies on), fleet coordination
and standing hand-offs, content and wiki stores, the skills library, the MCP client,
the browser front end, the CLI. Section 11 says why.

## 2. Plan

1. *Done:* the limiter with its abstract specification; the job, its workers, its
   crashes.
2. *Done:* turns, cards and hand-offs; the transcript and its compaction; routines;
   self-update; the data directory; education.
3. *Left:* `JobStore` composed with a routine worker (no token, no registry) and with
   `cancel_job`; a second level of hand-offs, follow-ups and standing hand-offs; an
   abstract job life (open, waiting, ended) that `JobRuns` implements; `GenerationPools`.
4. *Done:* proofs about every module: each safety property of a passing run is a theorem.
   *Left:* theorems for what item 3 adds.

## 3. The limiter: `GenerationSemaphore`

A generation is a coroutine on the loop, so what it does between two awaits is one
action: `Enter` (fast path), `FindNoSlot` and `Enqueue` (the slow path up to its
await), `Resume` (the await returns), `Cancel`, `LeaveQueue` and `HandBack` (the except
clause, future cancelled or already resolved), `Exit`. `FindNoSlot` and `Enqueue` are
two actions, in which no other callback runs (`LoopFree`), because a worker thread may
run between them: it stores the cap (`SetCapInThread`) and then looks at the loop and
posts `_wake` (`PostWake`); the loop runs it later (`RunPostedWake`). A cap set on the
loop is one action (`SetCapOnLoop`). `WakeFrom` is the `while` of `_wake` in closed
form: the shortest prefix of the deque after which nothing is left to pop or no slot
is free.

`SlotQueue` promises a caller that runners are admitted from the front of a line and
that the line moves; the line is a set of clients and who came before whom.
`ImplementsSlotQueue` states that the limiter, under its fairness, implements it with
its fairness: runners are the holders (a slot counts from the moment it is handed over),
the line is the pending futures in the order of the deque. That every step is one of the
queue's is also proved for all constants (section 12).

Fairness (`FairSpec`): the event loop runs every ready callback, a started
`set_max_concurrent` returns, a model call ends (the adapters bound its silence, the
kernel its length). Strong fairness stands for asyncio's first-in first-out ready
queue, since an action is disabled while another callback runs. Nobody has to start,
cancel or change the cap.

| run | instance | shows |
| --- | --- | --- |
| `SemaphoreThreads` | 3 generations, caps 1-2, also threads, 2 outstanding posts | `TypeOK`, `SlotAccounting`, `NoStartAboveCap`, `NoOvertaking`, `QueuedStarts`, `ImplementsSlotQueue` |

Three generations against two slots give a queue, a cancelled future in front of a
pending one and a hand-over at every cap; the settings accept caps 1 to 3. `MaxPosts`
bounds the wake-ups in flight; a posted `_wake` has no parameters, so a third adds
nothing. `NoIdleSlot` is proved for a cap that is set on the loop (section 12), as today's
Settings route does. It does not hold with threads, and so is no property of this run: a
cap raised in a thread while the first generation ever to wait is inside `__aenter__`
wakes nobody (the loop is not known yet).

## 4. The job: `JobStore` and `JobRuns`

`JobStore` has no variables. A *store* is a record of the job row, the phase rows and
the latest checkpoint. Each operation of the orchestrator is an *effect*: the store
it ends in, and `cuts`, the stores a crash between two of its commits may leave. `Then`
chains effects. Guards that raise are separate (`StartRefused`, `CompleteRefused`,
`ParkRefused`). `StartRefused` leaves out the intake gate of a first phase
(`job_phase_orchestrator.py:227`): it reads the rule and the matched capabilities that the
mint has written, so it could refuse only a job without a checkpoint, of a torn mint, which
nothing offers to start. Checkpoint reasons are cut to the classes `kill_resume.py`
distinguishes; `WAITING_APPROVAL` is written "waiting".

`JobRuns` has the store, whether the server is up, the session's registered worker
(`live`), the run tokens, what each worker is doing and what it last said. All runs on
one loop, and a worker can only be overtaken while it awaits: the model's reply
("turn") or what is asked about a finished one ("check": is it a question, does the
checker pass). A stopped worker goes through "stopTurn" or "stopCheck" until its
`CancelledError` is delivered (`Unwind`). The actions:

| action | code |
| --- | --- |
| `RunAsJob`, `NeedsSources` | `create_job_from_catalog_resolve`, then `execute_goal_job_phases` up to its first await or its early return for sources |
| `Resume` | the resume and answer branch of `chat_stream`: `resume_after_crash`, `start_phase` |
| `TurnDone` | the kernel writes react state DONE, or not: its one react state is shared |
| `TurnFails`, `TurnParks`, `Asks`, `Completes` | the outcomes of `_stream_turn_bound`, with the next phase's start |
| `VerifyFails` | the verify gate: replan or park |
| `OffersChoice` | the choice branch of `execute_goal_job_phases` |
| `Stop`, `Unwind` | the abort route; the except clause of the turn |
| `Crash`, `Boot` | the process dies; the two start-up repairs |

With `Torn = TRUE` every effect may be cut short by a crash between its commits.
Abstracted: the text of plans, replies, packets and facts; retries of a turn (a turn
that fails has failed for the last time); the order of phases is their number.
`MaxPhases` bounds the phase rows; `RoomToReplan` keeps a replan from starting that it
has no room for (plan + 2 per replan). `JobEnds` has room for a replan of either plan,
`JobTorn` of the short one only, which keeps the instance small.

Fairness (`FairSpec`): the server is started again; a turn ends, a check ends in
`Completes` if in nothing else (both have timeouts); a cancellation is delivered; and
the operator, as long as the chat offers it, resumes. That last one is why `JobEnds`
is about more than the scheduler: it holds only if interruptions leave an offer.
It assumes that stops, questions, approvals, failed checks and crashes end at some time
(`Setback`), since a job that is stopped for ever need not end.

Two interruptions leave none, and `NoJobStranded` and `JobEnds` except them by name
(`LeftOver`): after a replan the worker ends with the new plan queued and a checkpoint
that says "failure" (`LeftByReplan`); after a choice whose park was refused it ends with
the next phase queued and a checkpoint without a reason (`LeftByChoice`). `kill_resume.py`
takes neither for a pause, so the chat offers nothing. The two definitions say exactly
which rows such a job has: any other job left without an offer is a violation.

| run | instance | shows |
| --- | --- | --- |
| `JobEnds` | 2 workers, plans with and without Research, wiki goals, checkers, replans, choices, 5 phase rows, a cap of one replan, fairness | `RunOwnsPhase`, `NoJobStranded`, `AnswerReachesAsker`, `DoneIsDone`, `DoneWorkStays`, `JobEnds` |
| `JobTorn` | with checkers, choices, 4 phase rows, a cap of one replan (3 in the code), crashes between commits | `TypeOK`, `OneRunningPhase`, `InOrder`, `ReplansCounted`, `OutcomeIsFinal`, `StopNeverKills` |

Two workers are enough for every overlap: the registry admits one at a time, so at any
moment one works and the others are stopped and unwinding, and unwinding does the same
thing for each. Three phases give a first, a middle and a last one, and five rows the
three and a replan. A cap of one is met below and at the cap. `ReplansCounted` says that the durable counter moves exactly with
the rows a replan adds, unless the process dies within that very step. `CHECK_DEADLOCK` is
never switched off: the server can always crash.

### What holds only without torn operations

Crashes *between* operations keep all of the properties above, with their exceptions. A crash *inside* one
(`Torn`) keeps `OneRunningPhase`, `InOrder`, `OutcomeIsFinal` and `StopNeverKills`, and
breaks `RunOwnsPhase`, `NoJobStranded`, `AnswerReachesAsker`, `DoneIsDone` and
`DoneWorkStays`, and leaves a replan uncounted: a phase row may be written whose
checkpoint or job row is not, and nothing repairs that at start. `JobEnds` fails in the same way: TLC ends
in such a job.

## 5. Turns, cards and hand-offs: `AgentTurns`

A *call* is a number; the module keeps for each its session, batch and kind, what its row
in the transcript says (`answer`), how often it was executed (`ran`) and its card. `turn`
is what `react_loop.py` holds on its stack: where it stands, the calls of the batch still
to do, the model calls so far, and whether it runs inside the hand-off call of its parent
(`live`). A child session has the number of the call that handed over. `executing` are
approved tools run by a decision request or its background task, `owed` that the browser
is to resume the chat after a decision.

| action | code |
| --- | --- |
| `Think`, `Finish` | a model call that answers with a batch, or with none; `MaxSteps` is `max_turns` |
| `Execute`, `Refuse`, `Clarify` | a call that runs, one the gate or a guard answers, one that asks the user and skips the rest of its batch |
| `Park` | the gate asks for confirmation: card, rows of the batch, end of the turn, and of the parent's if the child is live |
| `HandOff` | `execute_handoff`; the child's turn runs inside the call |
| `Approve`, `Executed`, `Reject` | `resolve_approval`, the run of the tool, its rows, the turn that goes on |
| `Send`, `Resume`, `Stop` | the operator and the browser |
| `Die`, `DieParking` | the process dies, also between a card and the rows of its call |

`Writes` and `LandsOn` keep two rules of the code that matter: a call that has a row keeps
its place, so "the last row" is not the last written; and the report of a resumed child
goes to the first hand-off of the latest batch that has one.

`Park` is one action although the gate stores the card first (`react_loop.py:574`) and the
rows are saved later (688, 692). Between them the turn only yields events (590, 651), and
none of its consumers gives up the event loop: the chat's worker puts the event into a
queue without a bound, the hand-off engine collects it, and the child's turn runs in the
task of its parent. Decisions and Stop are handlers on the same loop, so neither comes in
between. A death can: `DieParking` stores the card and any number of the rows, in their
order (`ParkOrder`), and `RowsTellTheTruth` excepts a card without a row of such a death. A
rejection, and the end of an approved tool, write card and row in one action for the same
reason.

Run `TurnsAndCards`: batches of every kind alone and the pairs in which one call decides
what becomes of the next; three calls, two model calls per turn, two messages, one death.
Three calls are a hand-off, a parked call of its child and one more of either. It shows
`RunsOnce`, `RowsTellTheTruth`, `BatchIsAnswered`, and with fairness `DecisionIsHeard`.
`CHECK_DEADLOCK FALSE`: a chat to which nobody sends more rests. Fairness: models,
tools and agents answer within their time limits, the operator decides every card,
the browser resumes when it was told to. `DecisionIsHeard` excepts runs in which the
process dies: an approved tool dies with it, and nothing starts it again.

Simplified: one level of hand-offs (the code allows two), risky calls only in the mode
that asks, each call with an id of its own, as the providers promise.

## 6. The transcript: `Compaction`

A row is its id, role, calls, the call it answers, what kind of text it has, and what it
`says`: of the user's rows their own id, of a summary what it must keep (paths, numbers,
names). `active` and `archived` are the rows without and with an archive link, `link` the
row an archived one points to, `history` the copy a turn works with, which the button does
not touch. `Compact` is `compact_with_stats`: UI rows out, outputs cut, the first message
of the user set aside, the split into recent rows and the rest (`Split`), the pinned ones
(`Pins`), one summary for each run between them (`Condensed`), and its five ways to leave
the rows as they are. Budgets and lengths are choices of its caller.

| action | code |
| --- | --- |
| `Say`, `CallTools`, `Result`, `Answer` | the rows `execute_react_loop` saves, in order |
| `Park` | a parked call and the deferred rows of its batch |
| `Interrupt` | Stop, which may save what was shown so far, or the death of the process |
| `Notice` | rows only the browser shows: notes, skill proposals |
| `Decide` | `persist_outcome`, with the turn that may follow |
| `DecideForChild` | the second copy of a child's decided row, in the chat on whose page it was decided (`hitl.py:306`) |
| `Press` | `run_session_compaction`, synchronous and so one action, at any moment of a turn |

`SaveResult` is what `save_message` does with a tool's row: the last row of the call is
rewritten, archived or not. `Replace` is `replace_session_messages`. `Requests` are the
requests the turn may send next, over or under budget, with summaries that do or do not
come out shorter.

| run | instance | shows |
| --- | --- | --- |
| `Compactions` | batches of a long output and a runbook after it, of a runbook before another call, of a card with another call; five rows, two presses, one note or copied decision | `TypeOK`, `RequestIsWellFormed`, `NothingSaidIsLost`, `LinksEndInChat`, `RowsAreKept`, `CompactSettles` |
| `CompactedCard` | cards only, one press | finding 3 |

Requests and the button keep two rows instead of eight and four, the least the code
allows: five rows then are a root, a middle with a pin beside a summary and recent rows
that would begin with a result, and a second press summarises a summary. `MaxRows` bounds
the rows before the next message or batch; summaries, results, answers and copies come on
top. `RequestIsWellFormed` has two exceptions, each a thing the code does. The result of a
runbook loaded after another call of its batch (`LateRunbooks`) may stand behind a summary
(section 10); every other row of such a chat is still held to the property. And a chat
that holds the copy of a child's decision (`HoldsCopies`) holds a result whose call is in
the child's chat; the adapter turns such a row into a note before it is sent
(`openai_adapter.py:237`). `CHECK_DEADLOCK FALSE`: an idle chat rests when the bounds are
used up.

Simplified: every summary keeps what is required of it, which is how the deterministic
`build_verified_summary` is made (no other summarizer is passed in); that a row without an
id is matched by equal content; empty rows of the assistant; calls with equal ids.

## 7. Routines: `Routines`

Time is a counter of instants; a calendar is a slot every so many of them, an interval
counts from the run's beginning, both as `compute_next_run` does but for the rules of
the calendar and daylight saving. `list` is what `tick` has still to look at, with the
rows *as they were read*; a run carries such a row too, and `Finish` saves all of it.

| action | code |
| --- | --- |
| `Tick` | `skip_missed_runs` and the one `list_routines` of a tick |
| `Pass`, `Fire` | the loop over that list, which waits for each run |
| `Finish` | the end of `execute_routine`, success or failure |
| `Toggle`, `Edit`, `Create`, `Delete`, `Press` | the routes of the studio; an update that sends the structured rule computes the next run anew, whatever else it changes |
| `Clock`, `Die` | time, and the process |

Run `RoutineSlots`: two routines, a calendar of every third instant and an interval of
two, a grace of one, five instants, one edit, one run by hand, one death. A tick of two
routines is the shortest in which one waits for the other. It shows `FiresOnTime`,
`SlotFiresOnce` and, as ticks go on and runs end, `SlotIsServed`. `fired` are the slots
the scheduler ran, in this life of the process or an earlier one; a death takes back the
slot whose run it cuts, which the next life may run again. `SlotFiresOnce` excepts a single
slot at a time: a run by hand that began before a slot and ended after it saves that slot
back, and it fires again (`broughtBack`). `RoutineDeleted` is finding 1.

## 8. Self-update: `SelfUpdate`

An update and a switch are synchronous, so each is one action; only `Die` splits them.
`CutUpdate` and `CutSwitch` are where: after the fetch, the checkout, the fast-forward, the
install, and in the update that follows a switch. What failing git, installs and checkouts leave is computed by operators named
for the functions of `update_service.py`. A revision is a number on a branch; `Needs`
says what it requires. Actions: `UpdateNow`, `SwitchBranch`, `Defer`, `AutoUpdate`,
`Restart` (`restart_serve.py`), `Reload` (the serve it starts has `--reload`), `Die`,
`Start`; and the world: `Publish`, `Edit`, `Works`, `TimeComes`, `Midnight`.

Run `UpdateFaults`: two branches, two revisions each, one deferral a day, every fault: a
remote that is away, a checkout, an install or the spawn of the restart script that fails
(the update still counts as a success), a death at any of the places above. It shows
`RestartIsSound`, `OperatorWorkStays`, and `AutoUpdateArrives`. `owed` is history: what is
installed is not what the checkout needs, since an install failed or was cut. The next
update then pulls nothing, sees no change and orders a restart; `RestartIsSound` excepts
it, by `owed`, and holds of every other restart, those of updates with a failed install or
after a switch included. Fairness: the clock goes on, the script and the service manager
do their work, and an automatic update that could succeed and have its script spawned
again and again at some time does (a remote that is never back, or a script that never
starts, refutes nothing). Two revisions are an old and a new need; two branches are one to
leave and one to come to.

## 9. Data directory and education

**`DataDir`.** The tree is the database row that matters (a value, and the schedule:
on, retention, time of the last backup), other files, the wiki, and whether the
projects' repositories are there. A backup and a restore run on the loop: one action;
`TickDies` and `RestoreStops` are their deaths half-way, with every order of deletions
and copies. Run `BackupRestores`: two changes of data or settings, retentions 1 and 2,
two restores. It shows `RestoreCanBeUndone`, `RetentionIsMet` and, with a scheduler that
ticks and a cadence that passes, `ChangesAreBackedUp`. Two restores in one second share
one pre-restore name; two changes give an archive that is older than another.
`BackupRepositories` (finding 2) also has the wiki outside the tree.

**`Education`.** A row per quizzed step; `due` counts days; `asked` and `streak` are
history, from which the properties are told. Actions: `Retention` (the nightly
routine), `Exercise`, `Grade`, `ForceDue`, `Reseed`, `HandOver`, `Day`; `Start`, `Jump`,
`Compose`, `Complete`, `Abandon` for the course, where a request reads the course, waits
for the model and completes the step that is then current; `JobDies` between a job
and its mark. An item is seeded by a quizzed step of the
course or by the dual-coding step, which is reached by a jump only; the assumptions are
one about the steps (`StepsAssumption`) and one about the numbers (`EducationAssumption`).
Run `EducationReviews`: three steps, two items (one of a step, one of dual coding), two rungs, lists and
batches of one (so that one item can stand before the other for ever), one death. It
shows `OneJobPerReview`, `StageIsEarned` and `DueIsAsked`. `CHECK_DEADLOCK FALSE` is for
the end of the bounded calendar. Fairness: days pass; the routine runs each night and
takes what stands first, so an item that is first again and again is taken (strong);
a learner answers what is due and asked; nobody forces reviews for ever. Simplified:
one course per topic, no request waits across a new course, the routine is
switched on, ties are broken by the order of the steps.

## 10. Findings

1. `RoutineDeleted`: a routine deleted while it runs is saved again when the run ends,
   whole and enabled (`executor.py:459`), also a shipped one whose deletion is to last.
2. `BackupRepositories`: a restore deletes the `.git` of the projects under the data
   directory, which neither the archive nor the pre-restore archive holds.

3. `CompactedCard`: the decision of a card whose row Compact has archived is written into
   the archived row (`sessions.py:239`); neither the chat nor the model sees it, where
   `hitl.py:279` promises it "where the turn and the operator look".

Disagreements seen while modelling, which the modules contain and no run states:

- a batch that loads a runbook by a later call than its first: compaction keeps the batch,
  with that call only, and its result (`context_compactor.py:305`), and puts a summary of
  the other results between the two; the gateway then hides the runbook's result in a
  note, and the call has no return (`openai_adapter.py:237`), where the comment at
  `context_compactor.py:291` promises that none is left so. `RequestIsWellFormed` excepts
  such results (`LateRunbooks`); without the exception `Compactions` finds it in a few
  steps;
- a child's card decided on the parent's page: the result row is saved in both chats
  (`hitl.py:300`), and in the parent's no call belongs to it;
- a job whose wiki has no notes on its topic parks in Formulate; `resume_after_crash`
  (`job_recovery.py:359`) continues with it before the Research phase inserted ahead of
  it (`research_before_plan.py:4`);
- a plan that offers a choice is parked after its phase is complete, which is refused
  (`job_runner.py:484`; `CHANGELOG.md:988`, REQ-ORCH-045), and the job is open with
  nothing offered: `NoJobStranded` and `JobEnds` except it (`LeftByChoice`);
- after a replan the chat says that the job failed (`job_runner.py:446`), while it is
  open with new phases that nothing offers: excepted too (`LeftByReplan`);
- a death between the card of a parked call and its row leaves a card that its chat has
  no row for (`react_loop.py:574`, `688`): `RowsTellTheTruth` excepts it;
- a crash between the two commits of `start_phase` (`job_phase_orchestrator.py:269`)
  leaves a running phase that the start-up repair does not see
  (`stuck_phase_reconciler.py:64`);
- an update tried again after a failed install pulls nothing, sees no changed
  dependency, reports success and restarts (`update_service.py:436`), against the
  repository's `.agents/cards/CARD-451-settings-software-updates-via-git.md:172`, "do **not** restart
  into a broken state". `RestartIsSound` excepts it (`owed`);
- a restore with the wiki outside the tree puts a second wiki into it
  (`backup.py:421`, `447`), which from then on is the one that is archived;
- the report of a resumed child may land on a sibling's hand-off
  (`handoff_engine.py:676`), and, when its hand-off was compacted away, becomes a row
  that answers no call;
- a cut tool output is still over the cap (the cap's worth of text and a notice), so the
  next press cuts it again, reports success although nothing shrank (`CHANGELOG.md:260`,
  CARD-623), and overwrites the file its notice calls the full output with the text that
  was already cut (`context_compactor.py:404`); `CompactSettles` excepts such rows;
- Compact also archives notes and skill proposals, which no summary stands for
  (`context_compactor.py:358`, `sessions.py:524`), and links them, without a summary, to
  an arbitrary kept row;
- a pinned batch loses its other calls in the stored row, for good
  (`context_compactor.py:309`), where CARD-699 speaks of a non-destructive archive;
- the backoff after failed summaries is set by the button and read by nobody: the
  requests, which would, pass no session (`react_loop.py:178`).

## 11. What is not modelled

Of the modelled parts, beside what the sections name: ids of education items are cut at
48 characters and may collide (`course_step_artifacts.py`); the environment step may
seed after the analysis hands over; a job that ends without a grade leaves its item
pending until the item is forced; job rows left open keep the server busy, and
self-update waits for them; a database write that fails; a restore under a lock of
SQLite; the copies made before updates, which are never pruned; a phase parked after its
last replan, which the chat offers to resume and which parks again; the handler of a
routine's failure, which fails the running phase of the routine's last job, be it of an
earlier run; tool calls without an id, which the adapter all names alike.

Of the others: fleet coordination, follow-ups and standing hand-offs are more callers of
the modelled operations and come next in the plan; `delete_session` during a stream and
the phases of a routine's job need a second kind of worker in `JobRuns`. The tool policy
and the command guard are tables over text. Model gateway, MCP client, content and wiki
stores, skills, browser front end and CLI are I/O or presentation with little protocol of
their own: what they do to the modelled parts (an answer, a failure, a timeout, a
click) is a choice of the actions that wait for it.

## 12. Proofs

Every theorem holds for all values of the constants that meet the named `ASSUME`s of its
module, which are as weak as the code allows: finite `Gens`, a positive `MaxCap` and
`MaxPosts`; `MaxReplans` a natural number, at least three phase rows, first plans of two
or three phases; `NoGen` and `NoWorker` outside their sets; batches of at least one call;
schedules of at least one instant; steps that are strings; a ladder of at least one rung; retention counts of at
least one; requests and the button keep at least two rows; the switches Boolean; the
other bounds natural numbers.

**Limiter** (`GenerationSemaphoreProofs`). `IInv` is `TypeOK`, `SlotAccounting`,
`QueueInv` (every pending future is in the deque; without a loop nothing is pending; the
generation inside `__aenter__` is not queued yet; a thread that has stored its cap has
room to post) and `LoopInv` (with no thread setting the cap, no wake-up is owed, and
while something is pending or about to queue every slot is taken). `NoIdleSlot` needs
the last part of `LoopInv`: the generation between `FindNoSlot` and `Enqueue` is not
pending yet, and must find the slots as it left them. `LeastNat` gives the
least index the closed form of `_wake` stops at. Proved for all constants: `TypeOK`,
`SlotAccounting`, `NoStartAboveCap`, `NoOvertaking`; and `NoIdleSlot` under the
hypothesis that no thread sets the cap. `ImplementsQueue` is the refinement of
`SlotQueue`, step by step (its fairness stays with TLC): `WakeAdmits` maps `_wake` to
the admission of a front of the line, and the cancels and removals that leave the line
as it is to stutters. It needs `OnceInv`: the deque holds a future at most once,
pending or cancelled. Otherwise a generation that comes back would find its old future
there and stand in front of those who came before it.

**Job** (`JobRunsProofs`). `IInv` is `TypeOK`, `StoreInv(store)` and `RunInv`.
`StoreInv` is what holds of every store, those of a torn operation included: rows
numbered without a gap, a current phase that exists, at most one running phase, no
queued phase that looks finished (what the start-up repair would take for CARD-530's).
`RunInv` ties workers to it: a worker that is not idle has its own run token unless its
phase is over; the worker of the session is the registered one, its job is open, no
other phase runs, and its own runs under its token or is over. Without the tie to
tokens a late `Unwind` could queue its successor's phase. Every operation gets a lemma
that it is `Good` (keeps `StoreInv`, keeps what is over over) at its end and at each of
its cuts, and the operations of Stop and start-up that they are `Gentle` (fail and
cancel nothing, leave outcomes alone); then one lemma per action. Proved for all
constants and for both values of each switch: `TypeOK` (so the replan cap),
`OneRunningPhase`, `OutcomeIsFinal`, `StopNeverKills`.

`OrderIInv` strengthens it for the order of the phases. `OrderInv(store)`: one phase at
most is active (running or waiting), and every phase before it, and before the one an
open job points at, is over or is the Research of a wiki job. `RunOrder` says of each
worker what it will still write: the phases it has left to do come after its own, and a
worker on its way out holds a phase that may be queued again without being overtaken.
Most operations are `Calm`: they keep `OrderInv`, add no row and leave the replan counter
alone; the two that are not are the mint (`Planned`) and the replan (`Counted`), which
are followed row by row. Each operation is looked at its end and at each of its cuts.
Proved for all constants, crashes inside operations included: `InOrder`, `ReplansCounted`.

`SettledIInv` is about what holds only while crashes fall between operations, and its
theorems have the hypothesis `~Torn`; each of the five properties is false without it
(below section 4 says why). `Settled(store)` makes the three kinds of rows agree: the
phase in front is the one the job row names and has the status that goes with it, an open
job has no failed phase, a done one nothing left, and a job that stands still with
its row saying running has a checkpoint that says who asked, or who stopped it, or is
one of the two that section 4 excepts (`LeftByReplan`, `LeftByChoice`); a queued job row is
that of a replan.
`SettledRun` adds that an attached worker is the registered one, its phase the running
one, and what it has left to do the queued phases. `NextSettled` proves it, with
`DoneKept`, one lemma per action. Proved: `RunOwnsPhase`, `AnswerReachesAsker`,
`DoneIsDone`, `DoneWorkStays` and `NoJobStranded`, for both values of `Checked` and
`Choices`.

**Education** (`EducationProofs`). `IInv` is the types, with what a row is worth: an item's
jobs are at most one more than the deaths, and one more only while it is marked pending
(so marking it again is what must not happen); its rung is at most its passes in a
row; and an item without a next review was never graded, so that the handoff of the
analysis, which gives it one, gives it the first rung. The second needs the third. Each
action that changes the ledger has a lemma; the assumptions are those of the module: a
ladder of at least one rung, all of them before `Never`, and quizzed steps that are of the
course, dual coding included, and not the analysis. Proved:
`TypeOK`, `OneJobPerReview`, `StageIsEarned`.

**Turns, cards and hand-offs** (`AgentTurnsProofs`). `IInv` is `TypeOK` and, per session,
`TurnInv`: the calls in hand are the session's, in order, and nothing has been done about
them (`Untouched`), save the hand-off a waiting turn has begun; a turn that runs outside
the chat is of a hand-off, and a live one is the call the chat waits for. Per call it is
`CallInv` (a call is of the chat or of an earlier hand-off, and a child hands nothing
over), `CardInv` (the life of a card: pending, then approved and being executed, the row
still `parked`, or missing if the process ever died) and `RowInv`. Why it is needed: that a call runs once follows only from
the calls in hand being untouched, and they stay so only because whatever ends, parks or
reports in the background (a resumed child writes to the first hand-off of the latest
batch, which may be another one) leaves the calls of other turns alone. `CallKept` and
`TurnKept` say so once; every action has a lemma. Proved: `TypeOK`, `RunsOnce`,
`RowsTellTheTruth`, and the action property `BatchIsAnswered`.

**Routines** (`RoutinesProofs`). `IInv` is the types, `RunInv` (at most one run is the
scheduler's, and it began no earlier than the slots fired before it) and `SlotInv` (fired
slots are past; every next run, in the list the tick works through and in the rows, has
not fired or was brought back by a run by hand, and only the row of a scheduled run in
progress may still hold the slot it runs). A death needs that last part: the slots it takes
back from `fired` are just those. That a run leaves a slot that has not fired then needs
that a next run is later than the time it is computed for (`NextIsLater`, arithmetic of the
calendar). Proved: `TypeOK`, `FiresOnTime`, `SlotFiresOnce`.

**Self-update** (`SelfUpdateProofs`). `IInv` adds to `TypeOK` that a branch with commits of
its own exists: a checkout creates a branch that does not, which would otherwise count as
moving it; and that what is installed is what the checkout needs, or an install is `owed`.
`Proper` is what an update or a switch owes: the operator's work kept
(`KeepsWork`), and a success or a restart only of what is installed. It holds of each
outcome, and of an update after a switch (`Twice`). Proved: `TypeOK`, `OperatorWorkStays`,
`RestartIsSound`.

**Data directory** (`DataDirProofs`). `TypeOK` is inductive by itself; `PrunedIs` and
`BackedUp` say what pruning leaves. Proved: `TypeOK`, `RestoreCanBeUndone`,
`RetentionIsMet`.

The type invariants of `SelfUpdate`, `DataDir`, `AgentTurns`, `Routines` and `Education`
are proved and not run.

**Compaction** (`CompactionProofs`). The lemmas about the algorithm come first, each stated
once. `SelectIs` says what the recursive function of `Select` picks, by the least place
where it would fail; `SpokenIs`, `PruneIs`, `PinsAre`, `CondensedIs`, `SplitIs` and
`PartsAre` what each part of `Compact` returns; `CompactTakes` that every row it returns is
a summary or a form of a row that was there, in the old order. `IInv` is `ChatInv` (the ids
of the rows, shown or archived, are the numbers from 1 on; a link leads to a row shown or
archived later; only batches have calls, only results answer one), `TodoInv` (the calls to
do have no row yet) and `TurnInv`. That ids are the numbers up to how many rows there are
is what makes each row have an id of its own (`OwnIds`), and so what makes `Replace`
archive exactly the rows that are not kept.

- `NothingSaidIsLost` needs `SaidInv`, which speaks of archived rows too: a summary that
  is summarised passes on what it says (`CondensedSays`, `ReplacedSays`).
- `RequestIsWellFormed` needs `ThreadInv`, as long as no child's decision was copied. It
  asks of the chat and of the rows of the turn that each result, but for that of a late
  runbook, follows the batch of its call with nothing but results and notices between
  (`Follows`), that it is later than its call (`Later`), that no two rows hold a call
  (`Owned`), and that the first result of a batch is that of its first call (`Leads`), which
  is why a runbook loaded first follows its call at once when the rest of its batch is
  summarised; while a batch runs, the rows end with it and the results it has (`Batch`).
  The set of late runbooks only grows (`LateGrows`), so a result once excused stays so.
  Compaction keeps all of this (`CompactWell`), a window of the rows at a time
  (`WindowThreads`, `CondensedThreads`, `ConcatThreads`).
- `CompactSettles` compares two uses of the button: the rows the first one joined, with
  ids, have the same root, and are split where the first split them (`JoinedAgain`), and
  between the two the pins are pinned again (`SettledAgain`).

Proved: `TypeOK`, `LinksEndInChat`, `RowsAreKept`, `NothingSaidIsLost`, `CompactSettles`,
`RequestIsWellFormed`; and of `Compact` on any rows, reached by a run
or not, `CompactTakes`, `CompactSays` and `CompactWell`.

**Only model-checked**: `QueuedStarts`, the fairness in `ImplementsSlotQueue`, `JobEnds`,
`DecisionIsHeard`, `SlotIsServed`, `AutoUpdateArrives`, `ChangesAreBackedUp`, `DueIsAsked`
(liveness and fairness, which involve ENABLED, are outside what TLAPS can prove here). No
recursive operator is used; where an argument runs over a sequence it takes the least
place that fails.
