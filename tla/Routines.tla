------------------------------ MODULE Routines ------------------------------
(***************************************************************************)
(* Routines: rows with a schedule, the scheduler that runs what is due,    *)
(* the executor, and the operator who edits, pauses, deletes and starts    *)
(* them by hand while they run (application/routines, the routes of        *)
(* web/routers/routines.py, memory/repositories/routines.py).              *)
(*                                                                         *)
(* A run works on the routine as it was read when the tick began and saves *)
(* all of it when it ends; what happens between two awaits is one step.    *)
(***************************************************************************)
EXTENDS Naturals, FiniteSetsExt

CONSTANTS MaxRoutines,  \* bound: routines, numbered in the order they were created
          Schedules,    \* the schedules a routine may have
          Grace,        \* MISSED_RUN_GRACE
          Horizon,      \* bound: the clock
          MaxEdits,     \* bound: what the operator does to the rows
          MaxPresses,   \* bound: runs started by hand
          MaxDeaths     \* bound: deaths of the process

ASSUME RoutinesAssumption ==
  /\ MaxRoutines \in Nat /\ Horizon \in Nat \ {0} /\ Grace \in Nat
  /\ MaxEdits \in Nat /\ MaxPresses \in Nat /\ MaxDeaths \in Nat
  /\ Schedules \subseteq [kind : {"calendar", "interval"}, every : 1 .. Horizon]

VARIABLES
  now,      \* the time, of which a slot is one instant
  rows,     \* table routines
  list,     \* what is left of the list the tick works through: routines and the rows it read
  run,      \* runs in progress, with the row they work on
  deleted,  \* deleted by the operator and not created again
  fired,    \* history: the slots the scheduler ran, save those whose run was cut
  broughtBack, \* history: the slots of fired that the end of a run by hand scheduled again
  edits, presses, deaths

vars == <<now, rows, list, run, deleted, fired, broughtBack, edits, presses, deaths>>

Ids   == 1 .. MaxRoutines
Times == 0 .. 2 * Horizon      \* 0: next_run_at is not set
Row   == [on : BOOLEAN, schedule : Schedules, next : Times]

Tables == UNION {[is -> Row] : is \in SUBSET Ids}

Scheduled == {r \in run : r.by = "tick"}

\* The slots the scheduler is running.
Running == {<<r.id, r.row.next>> : r \in Scheduled}

TypeOK ==
  /\ now \in 1 .. Horizon
  /\ rows \in Tables /\ list \in Tables
  /\ run \subseteq [id : Ids, row : Row, began : 1 .. Horizon, by : {"tick", "hand"}]
  /\ Cardinality(Scheduled) <= 1
  /\ deleted \subseteq Ids /\ fired \subseteq Ids \X Times /\ broughtBack \subseteq fired
  /\ edits \in 0 .. MaxEdits /\ presses \in 0 .. MaxPresses /\ deaths \in 0 .. MaxDeaths

-----------------------------------------------------------------------------
(* Schedules and rows. *)

\* compute_next_run: the first slot of the calendar after t, or an interval from t.
NextRun(s, t) == IF s.kind = "interval" THEN t + s.every ELSE (t \div s.every + 1) * s.every

From(row, t) == [row EXCEPT !.next = NextRun(row.schedule, t)]

\* save_routine inserts or updates.
Saved(i, row) == [j \in DOMAIN rows \cup {i} |-> IF j = i THEN row ELSE rows[j]]

\* Mutant: a missed run is caught up, however late.
DueHoweverLate(row) == row.on /\ 0 < row.next /\ row.next <= now

Due(row) == row.on /\ row.next \in 1 .. now /\ now <= row.next + Grace

\* Mutant: a routine without a next run is left alone.
MissedIfSet(row) == row.on /\ row.next > 0 /\ now > row.next + Grace

Missed(row) == row.on /\ (row.next = 0 \/ now > row.next + Grace)

Init ==
  /\ now = 1
  /\ \E n \in 0 .. MaxRoutines :
       rows \in [1 .. n -> {From([on |-> TRUE, schedule |-> s, next |-> 0], 1) : s \in Schedules}]
  /\ list = <<>> /\ run = {} /\ deleted = {} /\ fired = {} /\ broughtBack = {}
  /\ edits = 0 /\ presses = 0 /\ deaths = 0

-----------------------------------------------------------------------------
(* The scheduler. *)

\* skip_missed_runs, then list_routines(enabled_only): one pass through the table.
Tick ==
  LET skipped == [i \in DOMAIN rows |-> IF Missed(rows[i]) THEN From(rows[i], now) ELSE rows[i]]
  IN /\ DOMAIN list = {} /\ Scheduled = {}
     /\ rows' = skipped
     /\ list' = [i \in {j \in DOMAIN rows : skipped[j].on} |-> skipped[i]]
     /\ UNCHANGED <<now, run, deleted, fired, broughtBack, edits, presses, deaths>>

\* A routine that runs as a job is saved with its job's id before the first phase.
Begins(i, row, by) ==
  /\ run' = run \cup {[id |-> i, row |-> row, began |-> now, by |-> by]}
  /\ rows' \in {rows, Saved(i, row)}

Listed    == Min(DOMAIN list)
Remaining == [i \in DOMAIN list \ {Listed} |-> list[i]]

\* The next of the list is looked at when the one before it has ended.
Pass ==
  /\ DOMAIN list # {} /\ Scheduled = {} /\ ~Due(list[Listed])
  /\ list' = Remaining
  /\ UNCHANGED <<now, rows, run, deleted, fired, broughtBack, edits, presses, deaths>>

Fire ==
  /\ DOMAIN list # {} /\ Scheduled = {} /\ Due(list[Listed])
  /\ Begins(Listed, list[Listed], "tick")
  /\ list' = Remaining /\ fired' = fired \cup {<<Listed, list[Listed].next>>}
  /\ UNCHANGED <<now, deleted, broughtBack, edits, presses, deaths>>

\* A run by hand that began before a slot, and ends when that slot has fired.
BringsBack(r) ==
  broughtBack' = broughtBack \cup
    IF r.by = "hand" THEN {<<r.id, From(r.row, r.began).next>>} \cap fired ELSE {}

\* Mutant: a run that fails leaves the next run as it was.
FinishAsWas(r, outcome) ==
  /\ run' = run \ {r}
  /\ rows' = Saved(r.id, IF outcome = "failed" THEN r.row ELSE From(r.row, r.began))
  /\ BringsBack(r)
  /\ UNCHANGED <<now, list, deleted, fired, edits, presses, deaths>>

\* The end of execute_routine, whatever the outcome: the next run is computed from
\* the time the run began, and the whole row is saved.
Finish(r, outcome) ==
  /\ run' = run \ {r}
  /\ rows' = Saved(r.id, From(r.row, r.began))
  /\ BringsBack(r)
  /\ UNCHANGED <<now, list, deleted, fired, edits, presses, deaths>>

-----------------------------------------------------------------------------
(* The operator, the clock and the process. *)

\* An edit that changes nothing is a stuttering step.
Operator(i, row) ==
  /\ edits < MaxEdits /\ edits' = edits + 1
  /\ rows' = Saved(i, row) /\ rows' # rows
  /\ UNCHANGED <<now, list, run, fired, broughtBack, presses, deaths>>

\* Resuming schedules from now; pausing keeps the slot.
Toggle(i) ==
  /\ i \in DOMAIN rows
  /\ Operator(i, IF rows[i].on THEN [rows[i] EXCEPT !.on = FALSE]
                 ELSE From([rows[i] EXCEPT !.on = TRUE], now))
  /\ UNCHANGED deleted

\* A routine that is resumed or gets a new schedule counts from now, and any update that
\* sends the structured rule along.
Edit(i, s, on) ==
  /\ i \in DOMAIN rows
  /\ LET new     == [rows[i] EXCEPT !.schedule = s, !.on = on]
         resumed == on /\ (~rows[i].on \/ rows[i].schedule # s)
     IN \/ Operator(i, IF resumed THEN From(new, now) ELSE new)
        \/ s.kind = "calendar" /\ Operator(i, From(new, now))
  /\ UNCHANGED deleted

\* A row of that id is overwritten; only a structured rule gets its first slot here.
Create(i, s, on) ==
  /\ LET new == [on |-> on, schedule |-> s, next |-> 0]
     IN Operator(i, new) \/ (s.kind = "calendar" /\ Operator(i, From(new, now)))
  /\ deleted' = deleted \ {i}

Delete(i) ==
  /\ i \in DOMAIN rows /\ edits < MaxEdits /\ edits' = edits + 1
  /\ rows' = [j \in DOMAIN rows \ {i} |-> rows[j]] /\ deleted' = deleted \cup {i}
  /\ UNCHANGED <<now, list, run, fired, broughtBack, presses, deaths>>

\* Run now, from the studio: it does not look at what is running.
Press(i) ==
  /\ i \in DOMAIN rows /\ presses < MaxPresses /\ presses' = presses + 1
  /\ Begins(i, rows[i], "hand")
  /\ UNCHANGED <<now, list, deleted, fired, broughtBack, edits, deaths>>

Clock ==
  /\ now < Horizon /\ now' = now + 1
  /\ UNCHANGED <<rows, list, run, deleted, fired, broughtBack, edits, presses, deaths>>

\* A run that is cut saves nothing, so that its slot is still to be run; the next life
\* begins with a tick.
Die ==
  /\ deaths < MaxDeaths /\ deaths' = deaths + 1
  /\ list' = <<>> /\ run' = {}
  /\ fired' = fired \ Running /\ broughtBack' = broughtBack \ Running
  /\ UNCHANGED <<now, rows, deleted, edits, presses>>

Scheduler == Tick \/ Pass \/ Fire

Ends(r) == \E o \in {"success", "failed"} : Finish(r, o)

Next ==
  \/ Scheduler \/ Clock \/ Die
  \/ \E r \in run : Ends(r)
  \/ \E i \in Ids :
       \/ Toggle(i) \/ Delete(i) \/ Press(i)
       \/ \E s \in Schedules, on \in BOOLEAN : Edit(i, s, on) \/ Create(i, s, on)

\* The loop goes on ticking; agents answer within their limits.
Fairness == WF_vars(Scheduler) /\ WF_vars(\E r \in run : Ends(r))

Spec == Init /\ [][Next]_vars /\ Fairness

-----------------------------------------------------------------------------
(* Properties. *)

StartedByTick == {r \in run' \ run : r.by = "tick"}

\* CARD-635: routines fire only at their scheduled time, also one that had to wait in
\* its tick for the runs before it, after a sleep, or after a restart.
FiresOnTime == [][\A r \in StartedByTick : now \in r.row.next .. r.row.next + Grace]_vars

\* CARD-635: a slot is run once, whether the run succeeds or fails, whatever the operator
\* does to the row meanwhile and however often the process dies; a slot whose run was cut
\* is run again. The exception is a slot that a run by hand brought back: one that began
\* before the slot and ended after it saves the row with that slot (executor.py:459).
SlotFiresOnce ==
  [][\A r \in StartedByTick : <<r.id, r.row.next>> \notin fired \ broughtBack]_vars

Open(i) == i \in DOMAIN rows /\ rows[i].on /\ rows[i].next <= now

\* A routine that is on is never left with a past slot or none: it is run or moved to
\* its next slot, so that no row is stuck and no missed run waits to be caught up.
SlotIsServed ==
  \A i \in Ids : Open(i) ~> (~Open(i) \/ \E r \in run : r.id = i)

\* "Deleted ones stay deleted" (CARD-636).
StaysDeleted == deleted \cap DOMAIN rows = {}

=============================================================================
