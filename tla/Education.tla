----------------------------- MODULE Education -----------------------------
(***************************************************************************)
(* The mastery ledger of the education part, the course whose steps fill   *)
(* it, and the reviews it asks for (application/education, the routes of   *)
(* web/routers/education*.py, memory/repositories/education_*_ops.py).     *)
(*                                                                         *)
(* Every step of a course that has a quiz question keeps one item, named   *)
(* for the step.  A review is a job; the item remembers it as pending      *)
(* until it is graded.  The time of the next review is kept as the days    *)
(* that are left.                                                          *)
(***************************************************************************)
EXTENDS Integers, Sequences, FiniteSetsExt, SequencesExt

CONSTANTS Steps,       \* the steps of the course, in order
          Quizzed,     \* the steps that seed an item
          Labs,        \* the steps whose submission is graded
          Rungs,       \* SRS_INTERVALS_DAYS
          Window,      \* the rows one run of the retention routine lists
          Batch,       \* the jobs it creates at most
          Requests,    \* requests to complete a step, each waiting for the model
          Never,       \* the next review when next_due is NULL: after every interval
          MaxOverdue,  \* bound: days a review is overdue
          MaxDeaths    \* bound: deaths of the process inside an operation

ASSUME StepsAssumption ==
  /\ Steps \in Seq(STRING) /\ Steps # <<>> /\ Labs \subseteq ToSet(Steps)
  /\ Quizzed \subseteq (ToSet(Steps) \cup {"dual_coding"}) \ {"analysis"} /\ IsFiniteSet(Quizzed)

ASSUME EducationAssumption ==
  /\ Rungs \in Seq(Nat \ {0}) /\ Rungs # <<>>
  /\ Never \in Nat /\ \A k \in DOMAIN Rungs : Rungs[k] < Never
  /\ Window \in Nat \ {0} /\ Batch \in Nat \ {0} /\ MaxOverdue \in Nat /\ MaxDeaths \in Nat

VARIABLES
  rows,       \* education_mastery, by step
  course,     \* the latest course of the topic
  composing,  \* requests whose answer the model writes
  asked,      \* history: jobs created since the item was last graded or forced
  streak,     \* history: passes since the item was last missed or seeded
  deaths

vars == <<rows, course, composing, asked, streak, deaths>>

Items    == Quizzed

\* The steps of the course, and those it may not have: dual coding is no step of the
\* default course.
Jumpable == ToSet(Steps) \cup {"dual_coding", "custom"}

\* The place of a step in the course; 0 for one that is not of it.
Place(s) == IF s \in ToSet(Steps) THEN CHOOSE k \in DOMAIN Steps : Steps[k] = s ELSE 0

Top      == Len(Rungs) - 1
Days     == -MaxOverdue .. Never

Row == [grade : {"unseen", "pass", "miss"}, stage : 0 .. Top, due : Days, pending : BOOLEAN]

TypeOK ==
  /\ rows \in UNION {[is -> Row] : is \in SUBSET Items}
  /\ course \in [step : Jumpable, status : {"none", "active", "completed"}]
  /\ composing \subseteq Requests
  /\ asked \in [Items -> 0 .. 2 + MaxDeaths] /\ streak \in [Items -> 0 .. Top]
  /\ deaths \in 0 .. MaxDeaths

Init ==
  /\ rows = <<>>
  /\ course = [step |-> Steps[1], status |-> "none"]
  /\ composing = {}
  /\ asked = [i \in Items |-> 0] /\ streak = [i \in Items |-> 0] /\ deaths = 0

-----------------------------------------------------------------------------
(* The ledger. *)

\* upsert_education_mastery: the question is new, the pending job stays.
Seeded(i) ==
  [j \in DOMAIN rows \cup {i} |->
     IF j # i THEN rows[j]
     ELSE [grade |-> "unseen", stage |-> 0, due |-> Never, pending |-> i \in DOMAIN rows /\ rows[i].pending]]

\* Mutant: a miss keeps its rung.
NextRungKept(stage, correct) == IF correct THEN Min({stage + 1, Top}) ELSE stage

\* next_due_after_grade
NextRung(stage, correct) == IF correct THEN Min({stage + 1, Top}) ELSE 0

Graded(row, correct) ==
  LET rung == NextRung(row.stage, correct)
  IN [row EXCEPT !.grade = IF correct THEN "pass" ELSE "miss",
                 !.stage = rung, !.due = Rungs[rung + 1], !.pending = FALSE]

\* execute_analysis_retention_handoff: what has no next review gets one.
HandedOff(row) ==
  IF row.due # Never THEN row
  ELSE LET rung == NextRung(row.stage, row.grade = "pass")
       IN [row EXCEPT !.stage = rung, !.due = Rungs[rung + 1]]

Due == {i \in DOMAIN rows : rows[i].due <= 0}

\* The first n of a set of items: the longest overdue first, ties in the order of the steps.
First(n, is) ==
  LET before(j, i) == rows[j].due < rows[i].due \/ (rows[j].due = rows[i].due /\ Place(j) < Place(i))
  IN {i \in is : Cardinality({j \in is : before(j, i)}) < n}

\* list_due_education_mastery
Listed == First(Window, Due)

\* Mutant: the run creates a job for whatever is due.
ActionableTwice == Listed

\* The retention routine leaves alone what has a job already.
Actionable == {i \in Listed : ~rows[i].pending}

-----------------------------------------------------------------------------
(* Reviews. *)

Mark(is) ==
  /\ rows' = [j \in DOMAIN rows |-> IF j \in is THEN [rows[j] EXCEPT !.pending = TRUE] ELSE rows[j]]
  /\ asked' = [j \in Items |-> IF j \in is THEN asked[j] + 1 ELSE asked[j]]

\* run_education_retention
Retention ==
  /\ Actionable # {}
  /\ Mark(First(Batch, Actionable))
  /\ UNCHANGED <<course, composing, streak, deaths>>

\* mint_exercise_job, whether or not the item is due.
Exercise(i) ==
  /\ i \in DOMAIN rows /\ ~rows[i].pending
  /\ Mark({i})
  /\ UNCHANGED <<course, composing, streak, deaths>>

\* The process dies after either created a job and before the item was marked.
JobDies(i) ==
  /\ i \in DOMAIN rows /\ ~rows[i].pending
  /\ deaths < MaxDeaths /\ deaths' = deaths + 1
  /\ asked' = [asked EXCEPT ![i] = @ + 1]
  /\ composing' = {}
  /\ UNCHANGED <<rows, course, streak>>

\* Mutant: the grade leaves the job pending.
GradeLeavingJob(i, correct) ==
  /\ i \in DOMAIN rows
  /\ rows' = [rows EXCEPT ![i] = [Graded(@, correct) EXCEPT !.pending = rows[i].pending]]
  /\ asked' = [asked EXCEPT ![i] = 0]
  /\ streak' = [streak EXCEPT ![i] = IF correct THEN Min({@ + 1, Top}) ELSE 0]
  /\ UNCHANGED <<course, composing, deaths>>

\* record_education_grade.  A missed application exercise gets a new job at once.
Grade(i, correct) ==
  /\ i \in DOMAIN rows
  /\ \/ rows' = [rows EXCEPT ![i] = Graded(@, correct)] /\ asked' = [asked EXCEPT ![i] = 0]
     \/ /\ ~correct
        /\ rows' = [rows EXCEPT ![i] = [Graded(@, correct) EXCEPT !.pending = TRUE]]
        /\ asked' = [asked EXCEPT ![i] = 1]
  /\ streak' = [streak EXCEPT ![i] = IF correct THEN Min({@ + 1, Top}) ELSE 0]
  /\ UNCHANGED <<course, composing, deaths>>

\* force_education_mastery_due
ForceDue(i) ==
  /\ i \in DOMAIN rows
  /\ rows' = [rows EXCEPT ![i].due = 0, ![i].pending = FALSE]
  /\ asked' = [asked EXCEPT ![i] = 0]
  /\ UNCHANGED <<course, composing, streak, deaths>>

Day ==
  /\ rows' = [i \in DOMAIN rows |->
                [rows[i] EXCEPT !.due = IF @ = Never \/ @ = -MaxOverdue THEN @ ELSE @ - 1]]
  /\ UNCHANGED <<course, composing, asked, streak, deaths>>

-----------------------------------------------------------------------------
(* The course. *)

Seed(i) == rows' = Seeded(i) /\ streak' = [streak EXCEPT ![i] = 0]

\* quiz/extract, mastery/upsert, and the agent's tools for them.
Reseed(i) ==
  /\ Seed(i)
  /\ UNCHANGED <<course, composing, asked, deaths>>

\* start_or_resume_course: a completed course is followed by a new one (once no request
\* waits for the old one).
Start ==
  /\ course.status # "active" /\ composing = {}
  /\ course' = [step |-> Steps[1], status |-> "active"]
  /\ UNCHANGED <<rows, composing, asked, streak, deaths>>

\* jump_to_course_step, also to a step that is not of the course.
Jump(s) ==
  /\ course.status # "none" /\ s # course.step
  /\ course' = [course EXCEPT !.step = s]
  /\ UNCHANGED <<rows, composing, asked, streak, deaths>>

\* A request reads the current step and waits for the model.
Compose(r) ==
  /\ course.status # "none" /\ r \notin composing
  /\ composing' = composing \cup {r}
  /\ UNCHANGED <<rows, course, asked, streak, deaths>>

\* course_analysis_handoff
HandOver ==
  /\ rows' = [i \in DOMAIN rows |-> HandedOff(rows[i])]
  /\ UNCHANGED <<course, composing, asked, streak, deaths>>

\* _next_step: the first after a step that is not of the course; the last completes it.
Moved(s) ==
  IF Place(s) = Len(Steps) THEN [step |-> s, status |-> "completed"]
  ELSE [step |-> Steps[Place(s) + 1], status |-> "active"]

\* What the step that is current now writes: a question it may not have, the handoff
\* of the analysis, or nothing.
Written(s) ==
  \/ s = "analysis" /\ rows' = [i \in DOMAIN rows |-> HandedOff(rows[i])] /\ UNCHANGED streak
  \/ s \in Quizzed /\ Seed(s)
  \/ UNCHANGED <<rows, streak>>

\* complete_course_step: it completes the step that is current when the model has
\* answered; a failed lab does not advance.
Complete(r, passed) ==
  /\ r \in composing
  /\ composing' = composing \ {r}
  /\ Written(course.step)
  /\ course' = IF course.step \in Labs /\ ~passed THEN course ELSE Moved(course.step)
  /\ UNCHANGED <<asked, deaths>>

\* The model fails or the request is cut: nothing is written.
Abandon(r) ==
  /\ r \in composing
  /\ composing' = composing \ {r}
  /\ UNCHANGED <<rows, course, asked, streak, deaths>>

Learner ==
  \/ HandOver \/ Start \/ \E s \in Jumpable : Jump(s)
  \/ \E r \in Requests : Compose(r) \/ Abandon(r) \/ \E p \in BOOLEAN : Complete(r, p)
  \/ \E i \in Items :
       \/ Reseed(i) \/ Exercise(i) \/ ForceDue(i) \/ JobDies(i)
       \/ \E c \in BOOLEAN : Grade(i, c)

Next == Learner \/ Retention \/ Day

Spec == Init /\ [][Next]_vars

-----------------------------------------------------------------------------
(* Properties. *)

\* The routine runs every night and takes what stands first, a learner answers the
\* reviews that are asked, days pass, and nobody forces reviews for ever.
Fairness ==
  /\ WF_vars(Day)
  /\ \A i \in Items : SF_vars(i \in Actionable /\ Retention /\ rows'[i].pending)
  /\ \A i \in Items : WF_vars(i \in Due /\ asked[i] > 0 /\ \E c \in BOOLEAN : Grade(i, c))
  /\ <>[][\A i \in Items : ~ForceDue(i)]_vars

FairSpec == Spec /\ Fairness

\* "Skips items that already have a pending_job_id so the scheduler tick cannot spam
\* Jobs": one job for one review, whatever seeds the item again meanwhile; a death
\* between a job and its mark costs one more.
OneJobPerReview == \A i \in Items : asked[i] <= 1 + deaths

\* A rung of 1-3-7-30 is earned by passes in a row: no seeding, handoff, forced review
\* or death leaves an item on a higher one.
StageIsEarned == \A i \in DOMAIN rows : rows[i].stage <= streak[i]

\* REQ-EDU-RSV-001: what is due gets a job, also behind reviews that fill the list of a
\* run, as long as those are answered: no grade, seeding or forced review leaves it with
\* the mark of a job that is done.
DueIsAsked ==
  \A i \in Items : (i \in Due /\ asked[i] = 0) ~> (i \notin Due \/ asked[i] > 0)

=============================================================================
