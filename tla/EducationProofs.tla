-------------------------- MODULE EducationProofs --------------------------
(***************************************************************************)
(* Type correctness of Education, that a review gets one job, and that a   *)
(* rung is earned, for every course, every ladder of intervals and every   *)
(* size of the lists.                                                      *)
(***************************************************************************)
EXTENDS Education, TLAPS

USE EducationAssumption

\* The lesser of two naturals.
LEMMA MinOfTwo ==
  ASSUME NEW a \in Int, NEW b \in Int
  PROVE  Min({a, b}) = IF a <= b THEN a ELSE b
<1>1. CASE a <= b
  BY <1>1 DEF Min
<1>2. CASE b < a
  BY <1>2 DEF Min
<1> QED BY <1>1, <1>2

\* The ladder has a rung.
LEMMA TopIsNat == Top \in Nat /\ Len(Rungs) = Top + 1
BY DEF Top

\* A graded item's rung is a rung, its next review is before Never.
LEMMA NextRungIsRung ==
  ASSUME NEW stage \in 0 .. Top, NEW correct \in BOOLEAN
  PROVE  /\ NextRung(stage, correct) \in 0 .. Top
         /\ Rungs[NextRung(stage, correct) + 1] \in Days \ {Never}
<1>1. NextRung(stage, correct) \in 0 .. Top
  <2>1. Top \in Nat /\ stage + 1 \in Int /\ Top \in Int
    BY TopIsNat
  <2>2. Min({stage + 1, Top}) = IF stage + 1 <= Top THEN stage + 1 ELSE Top
    BY <2>1, MinOfTwo
  <2> QED BY <2>1, <2>2 DEF NextRung
<1>2. NextRung(stage, correct) + 1 \in DOMAIN Rungs
  BY <1>1, TopIsNat
<1>3. Rungs[NextRung(stage, correct) + 1] \in Nat
  BY <1>2
<1> QED BY <1>1, <1>2, <1>3 DEF Days

\* More passes, no lower a rung.
LEMMA RungsClimb ==
  ASSUME NEW a \in 0 .. Top, NEW b \in 0 .. Top, a <= b
  PROVE  /\ Min({b + 1, Top}) \in 0 .. Top
         /\ Min({a + 1, Top}) <= Min({b + 1, Top})
<1>1. a + 1 \in Int /\ b + 1 \in Int /\ Top \in Nat /\ Top \in Int
  BY TopIsNat
<1>2. Min({a + 1, Top}) = IF a + 1 <= Top THEN a + 1 ELSE Top
  BY <1>1, MinOfTwo
<1>3. Min({b + 1, Top}) = IF b + 1 <= Top THEN b + 1 ELSE Top
  BY <1>1, MinOfTwo
<1> QED BY <1>1, <1>2, <1>3

\* The steps of a course are steps.
LEMMA StepOfCourse ==
  ASSUME NEW k \in 1 .. Len(Steps)
  PROVE  Steps[k] \in ToSet(Steps)
BY DEF ToSet

LEMMA FirstStep == Steps[1] \in Jumpable
<1>1. 1 \in 1 .. Len(Steps)
  BY StepsAssumption
<1> QED BY <1>1, StepOfCourse DEF Jumpable

\* The step after one that is not the last.
LEMMA MovedIsStep ==
  ASSUME NEW s \in Jumpable
  PROVE  Moved(s) \in [step : Jumpable, status : {"none", "active", "completed"}]
<1>1. Place(s) \in 0 .. Len(Steps)
  BY DEF Place, ToSet
<1>2. CASE Place(s) = Len(Steps)
  BY <1>2 DEF Moved
<1>3. CASE Place(s) # Len(Steps)
  <2>1. Place(s) + 1 \in 1 .. Len(Steps)
    BY <1>1, <1>3
  <2>2. Steps[Place(s) + 1] \in Jumpable
    BY <2>1, StepOfCourse DEF Jumpable
  <2> QED BY <1>3, <2>2 DEF Moved
<1> QED BY <1>2, <1>3

-----------------------------------------------------------------------------
(* The inductive invariant. *)

\* What a row is worth: a job is counted by its mark or by a death, a rung by passes;
\* what was never graded has no next review, or stands on the first rung.
RowInv(i) ==
  /\ asked[i] <= 1 + deaths /\ (rows[i].pending \/ asked[i] <= deaths)
  /\ rows[i].stage <= streak[i]
  /\ rows[i].due = Never => rows[i].grade = "unseen"

\* The ledger: its types, and what its rows are worth.
Ledger ==
  /\ rows \in UNION {[is -> Row] : is \in SUBSET Items}
  /\ asked \in [Items -> Nat] /\ streak \in [Items -> 0 .. Top] /\ deaths \in 0 .. MaxDeaths
  /\ \A i \in DOMAIN rows : RowInv(i)
  /\ \A i \in Items \ DOMAIN rows : asked[i] <= deaths

CourseOK ==
  /\ course \in [step : Jumpable, status : {"none", "active", "completed"}]
  /\ composing \subseteq Requests

IInv == Ledger /\ CourseOK

\* The invariant holds the types.
LEMMA InvType == IInv => TypeOK
<1> SUFFICES ASSUME IInv PROVE TypeOK
  OBVIOUS
<1>1. ASSUME NEW i \in Items PROVE asked[i] \in 0 .. 2 + MaxDeaths
  <2>1. asked[i] <= 1 + deaths
    BY DEF IInv, Ledger, RowInv
  <2> QED BY <2>1 DEF IInv, Ledger
<1> QED BY <1>1 DEF IInv, Ledger, CourseOK, TypeOK

\* Rows are rows.
LEMMA RowsAreRows ==
  ASSUME Ledger
  PROVE  /\ DOMAIN rows \subseteq Items
         /\ rows = [i \in DOMAIN rows |-> rows[i]]
         /\ \A i \in DOMAIN rows : rows[i] \in Row
BY DEF Ledger

\* Rows of items are of the type.
LEMMA RowsType ==
  ASSUME NEW is \in SUBSET Items, NEW f \in [is -> Row]
  PROVE  f \in UNION {[s -> Row] : s \in SUBSET Items}
OBVIOUS

LEMMA InitInv == Init => IInv
<1> SUFFICES ASSUME Init PROVE IInv
  OBVIOUS
<1>1. DOMAIN rows = {} /\ rows \in [{} -> Row]
  BY DEF Init
<1>2. Steps[1] \in Jumpable
  BY FirstStep
<1>3. rows \in UNION {[is -> Row] : is \in SUBSET Items}
  BY <1>1, RowsType
<1>4. course \in [step : Jumpable, status : {"none", "active", "completed"}]
  BY <1>2 DEF Init
<1>5. /\ asked \in [Items -> Nat] /\ streak \in [Items -> 0 .. Top]
      /\ deaths \in 0 .. MaxDeaths /\ composing \subseteq Requests
  BY TopIsNat DEF Init
<1>6. \A i \in Items : asked[i] <= deaths
  BY DEF Init
<1>7. Ledger
  BY <1>1, <1>3, <1>5, <1>6 DEF Ledger
<1> QED BY <1>4, <1>5, <1>7 DEF IInv, CourseOK

\* A handoff keeps what a row is worth.
LEMMA HandedOffInv ==
  ASSUME Ledger, NEW i \in DOMAIN rows
  PROVE  LET new == HandedOff(rows[i])
         IN /\ new \in Row /\ new.pending = rows[i].pending
            /\ new.stage <= streak[i]
            /\ new.due = Never => new.grade = "unseen"
<1>1. rows[i] \in Row /\ RowInv(i)
  BY RowsAreRows DEF Ledger
<1>2. CASE rows[i].due # Never
  BY <1>1, <1>2 DEF HandedOff, RowInv
<1>3. CASE rows[i].due = Never
  <2>1. rows[i].grade = "unseen"
    BY <1>1, <1>3 DEF RowInv
  <2> DEFINE rung == NextRung(rows[i].stage, rows[i].grade = "pass")
  <2>2. rung = 0 /\ rung \in 0 .. Top
    BY <2>1, TopIsNat DEF NextRung
  <2>3. Rungs[rung + 1] \in Days \ {Never}
    BY <1>1, NextRungIsRung DEF Row
  <2>4. HandedOff(rows[i]) = [rows[i] EXCEPT !.stage = rung, !.due = Rungs[rung + 1]]
    BY <1>3 DEF HandedOff
  <2>5. i \in Items /\ streak[i] \in 0 .. Top
    BY RowsAreRows DEF Ledger
  <2> HIDE DEF rung
  <2>6. HandedOff(rows[i]) = [grade |-> rows[i].grade, stage |-> rung, due |-> Rungs[rung + 1],
                              pending |-> rows[i].pending]
    BY <1>1, <2>4 DEF Row
  <2>7. HandedOff(rows[i]) \in Row
    BY <1>1, <2>2, <2>3, <2>6 DEF Row
  <2> QED BY <2>2, <2>3, <2>5, <2>6, <2>7
<1> QED BY <1>2, <1>3

\* The handoff of all rows.
LEMMA HandOverInv ==
  ASSUME Ledger, rows' = [i \in DOMAIN rows |-> HandedOff(rows[i])],
         UNCHANGED <<asked, streak, deaths>>
  PROVE  Ledger'
<1>1. DOMAIN rows' = DOMAIN rows /\ DOMAIN rows \subseteq Items
  BY RowsAreRows
<1>2. rows' \in [DOMAIN rows -> Row]
  BY HandedOffInv
<1>3. \A i \in DOMAIN rows' : RowInv(i)'
  BY <1>1, HandedOffInv DEF Ledger, RowInv
<1>4. rows' \in UNION {[is -> Row] : is \in SUBSET Items}
  BY <1>1, <1>2, RowsType
<1> QED BY <1>1, <1>3, <1>4 DEF Ledger

\* A question is seeded.
LEMMA SeedInv ==
  ASSUME Ledger, NEW i \in Items, Seed(i), UNCHANGED <<asked, deaths>>
  PROVE  Ledger'
<1> DEFINE new == [grade |-> "unseen", stage |-> 0, due |-> Never, pending |-> i \in DOMAIN rows /\ rows[i].pending]
<1>1. /\ DOMAIN rows' = DOMAIN rows \cup {i}
      /\ rows'[i] = new
      /\ \A j \in DOMAIN rows : j # i => rows'[j] = rows[j]
      /\ rows' = [j \in DOMAIN rows \cup {i} |-> rows'[j]]
  BY DEF Seed, Seeded
<1>2. new \in Row
  <2>1. Never \in Days
    BY DEF Days
  <2> QED BY <2>1, TopIsNat DEF Row
<1>3. /\ streak' \in [Items -> 0 .. Top] /\ streak'[i] = 0
      /\ \A j \in Items : j # i => streak'[j] = streak[j]
  BY TopIsNat DEF Seed, Ledger
<1>4. rows' \in [DOMAIN rows \cup {i} -> Row]
  BY <1>1, <1>2, RowsAreRows
<1>5. rows' \in UNION {[is -> Row] : is \in SUBSET Items}
  <2>1. DOMAIN rows \cup {i} \in SUBSET Items
    BY RowsAreRows
  <2> QED BY ONLY <1>4, <2>1, RowsType
<1>6. ASSUME NEW j \in DOMAIN rows' PROVE RowInv(j)'
  <2>1. CASE j = i
    <3>1. asked[i] <= 1 + deaths /\ (new.pending \/ asked[i] <= deaths)
      <4>1. CASE i \in DOMAIN rows
        BY <4>1 DEF Ledger, RowInv
      <4>2. CASE i \notin DOMAIN rows
        <5>1. asked[i] \in Nat /\ deaths \in Nat /\ asked[i] <= deaths
          BY <4>2 DEF Ledger
        <5> QED BY <5>1
      <4> QED BY <4>1, <4>2
    <3> QED BY <1>1, <1>3, <2>1, <3>1 DEF RowInv
  <2>2. CASE j # i
    BY <1>1, <1>3, <2>2, RowsAreRows DEF Ledger, RowInv
  <2> QED BY <2>1, <2>2
<1> QED BY <1>1, <1>3, <1>5, <1>6 DEF Ledger

\* Jobs are created for items that have none.
LEMMA MarkInv ==
  ASSUME Ledger, NEW is \in SUBSET {i \in DOMAIN rows : ~rows[i].pending}, Mark(is),
         UNCHANGED <<streak, deaths>>
  PROVE  Ledger'
<1>1. /\ DOMAIN rows' = DOMAIN rows
      /\ rows' = [j \in DOMAIN rows |-> rows'[j]]
      /\ \A j \in DOMAIN rows : rows'[j] = IF j \in is THEN [rows[j] EXCEPT !.pending = TRUE] ELSE rows[j]
      /\ \A j \in Items : asked'[j] = IF j \in is THEN asked[j] + 1 ELSE asked[j]
      /\ asked' \in [Items -> Nat]
  BY DEF Mark, Ledger
<1>2. ASSUME NEW j \in DOMAIN rows
      PROVE  rows'[j] \in Row /\ RowInv(j)'
  <2>1. rows[j] \in Row /\ RowInv(j) /\ j \in Items
    BY RowsAreRows DEF Ledger
  <2>2. CASE j \in is
    <3>1. rows'[j] = [grade |-> rows[j].grade, stage |-> rows[j].stage, due |-> rows[j].due, pending |-> TRUE]
      BY <1>1, <2>1, <2>2 DEF Row
    <3>2. asked[j] <= deaths /\ asked'[j] = asked[j] + 1 /\ asked[j] \in Nat /\ deaths \in Nat
      BY <1>1, <2>1, <2>2 DEF RowInv, Ledger
    <3> QED BY <2>1, <3>1, <3>2 DEF Row, RowInv
  <2>3. CASE j \notin is
    BY <1>1, <2>1, <2>3 DEF RowInv
  <2> QED BY <2>2, <2>3
<1>3. rows' \in [DOMAIN rows -> Row]
  BY <1>1, <1>2
<1>4. rows' \in UNION {[s -> Row] : s \in SUBSET Items}
  BY <1>3, RowsAreRows, RowsType
<1> QED BY <1>1, <1>2, <1>4 DEF Ledger

\* A row after a grade.
LEMMA GradedRow ==
  ASSUME NEW row \in Row, NEW correct \in BOOLEAN
  PROVE  LET new == Graded(row, correct)
         IN /\ new \in Row /\ new.due # Never /\ ~new.pending
            /\ new.stage = NextRung(row.stage, correct)
<1> DEFINE rung == NextRung(row.stage, correct)
           grade == IF correct THEN "pass" ELSE "miss"
<1>1. rung \in 0 .. Top /\ Rungs[rung + 1] \in Days \ {Never}
  BY NextRungIsRung DEF Row
<1> HIDE DEF rung
<1>2. Graded(row, correct) = [row EXCEPT !.grade = grade, !.stage = rung, !.due = Rungs[rung + 1], !.pending = FALSE]
  BY DEF Graded, rung
<1>3. Graded(row, correct) = [grade |-> grade, stage |-> rung, due |-> Rungs[rung + 1], pending |-> FALSE]
  BY <1>2 DEF Row
<1> QED BY <1>1, <1>3 DEF Row, rung

\* A row whose review is a job.
LEMMA AskedRow ==
  ASSUME NEW row \in Row
  PROVE  LET new == [row EXCEPT !.pending = TRUE]
         IN new \in Row /\ new.due = row.due /\ new.pending /\ new.stage = row.stage
BY DEF Row

\* A row whose review is forced.
LEMMA ForcedRow ==
  ASSUME NEW row \in Row
  PROVE  LET new == [row EXCEPT !.due = 0, !.pending = FALSE]
         IN new \in Row /\ new.due # Never /\ new.stage = row.stage
<1>1. 0 \in Days /\ Never # 0
  <2>1. 1 \in DOMAIN Rungs /\ Rungs[1] \in Nat /\ Rungs[1] < Never
    BY TopIsNat
  <2> QED BY <2>1 DEF Days
<1> DEFINE mid == [row EXCEPT !.due = 0]
<1>2. mid \in Row /\ mid.due = 0 /\ mid.stage = row.stage
  BY <1>1 DEF Row
<1>3. [row EXCEPT !.due = 0, !.pending = FALSE] = [mid EXCEPT !.pending = FALSE]
  BY DEF Row
<1> HIDE DEF mid
<1> DEFINE new == [mid EXCEPT !.pending = FALSE]
<1>4. new \in Row /\ new.due = mid.due /\ new.stage = mid.stage
  BY <1>2 DEF Row
<1> HIDE DEF new
<1> QED BY <1>1, <1>2, <1>3, <1>4 DEF new

\* One row is replaced by another that is worth as much.
LEMMA ReplaceInv ==
  ASSUME Ledger, NEW i \in DOMAIN rows, NEW new \in Row, NEW n \in Nat, NEW k \in 0 .. Top,
         rows' = [rows EXCEPT ![i] = new], asked' = [asked EXCEPT ![i] = n],
         streak' = [streak EXCEPT ![i] = k], deaths' = deaths,
         n <= 1 + deaths, new.pending \/ n <= deaths,
         new.stage <= k, new.due = Never => new.grade = "unseen"
  PROVE  Ledger'
<1>1. i \in Items /\ DOMAIN rows' = DOMAIN rows /\ DOMAIN rows \in SUBSET Items
  BY RowsAreRows
<1>2. rows' \in [DOMAIN rows -> Row]
  BY RowsAreRows
<1>3. rows' \in UNION {[is -> Row] : is \in SUBSET Items}
  BY <1>1, <1>2, RowsType
<1>4. /\ asked' \in [Items -> Nat] /\ streak' \in [Items -> 0 .. Top]
      /\ asked'[i] = n /\ streak'[i] = k /\ rows'[i] = new
      /\ \A j \in Items : j # i => asked'[j] = asked[j] /\ streak'[j] = streak[j]
      /\ \A j \in DOMAIN rows : j # i => rows'[j] = rows[j]
  BY <1>1 DEF Ledger
<1>5. ASSUME NEW j \in DOMAIN rows' PROVE RowInv(j)'
  <2>1. CASE j = i
    BY <1>4, <2>1 DEF RowInv
  <2>2. CASE j # i
    BY <1>1, <1>4, <2>2 DEF Ledger, RowInv
  <2> QED BY <2>1, <2>2
<1> QED BY <1>1, <1>3, <1>4, <1>5 DEF Ledger

LEMMA GradeInv ==
  ASSUME Ledger, NEW i \in Items, NEW correct \in BOOLEAN, Grade(i, correct)
  PROVE  Ledger'
<1> DEFINE k == IF correct THEN Min({streak[i] + 1, Top}) ELSE 0
           new == Graded(rows[i], correct)
<1>1. i \in DOMAIN rows /\ rows[i] \in Row /\ RowInv(i) /\ streak[i] \in 0 .. Top
  BY RowsAreRows DEF Grade, Ledger
<1>2. new \in Row /\ new.due # Never /\ ~new.pending /\ new.stage = NextRung(rows[i].stage, correct)
  BY <1>1, GradedRow
<1>3. k \in 0 .. Top /\ NextRung(rows[i].stage, correct) <= k
  <2>1. CASE correct
    <3>1. rows[i].stage \in 0 .. Top /\ rows[i].stage <= streak[i]
      BY <1>1 DEF Row, RowInv
    <3> QED BY <1>1, <2>1, <3>1, RungsClimb DEF NextRung
  <2>2. CASE ~correct
    BY <2>2, TopIsNat DEF NextRung
  <2> QED BY <2>1, <2>2
<1>4. streak' = [streak EXCEPT ![i] = k] /\ deaths' = deaths
  BY DEF Grade
<1> HIDE DEF k, new
<1>a. 0 <= 1 + deaths /\ 0 <= deaths /\ 1 <= 1 + deaths
  BY DEF Ledger
<1>b. new.stage <= k
  BY <1>2, <1>3
<1>5. CASE rows' = [rows EXCEPT ![i] = new] /\ asked' = [asked EXCEPT ![i] = 0]
  BY <1>1, <1>2, <1>3, <1>4, <1>5, <1>a, <1>b, ReplaceInv
<1>6. CASE rows' = [rows EXCEPT ![i] = [new EXCEPT !.pending = TRUE]] /\ asked' = [asked EXCEPT ![i] = 1]
  <2> DEFINE again == [new EXCEPT !.pending = TRUE]
  <2>1. again \in Row /\ again.due # Never /\ again.pending /\ again.stage <= k
    BY <1>2, <1>b, AskedRow
  <2>2. rows' = [rows EXCEPT ![i] = again]
    BY <1>6
  <2> HIDE DEF again
  <2> QED BY <1>1, <1>3, <1>4, <1>6, <1>a, <2>1, <2>2, ReplaceInv
<1> QED BY <1>5, <1>6 DEF Grade, new

LEMMA ForceInv ==
  ASSUME Ledger, NEW i \in Items, ForceDue(i)
  PROVE  Ledger'
<1> DEFINE new == [rows[i] EXCEPT !.due = 0, !.pending = FALSE]
<1>1. i \in DOMAIN rows /\ rows[i] \in Row /\ RowInv(i) /\ streak[i] \in 0 .. Top
  BY RowsAreRows DEF ForceDue, Ledger
<1>4. new \in Row /\ new.due # Never /\ new.stage <= streak[i]
  <2>1. rows[i].stage <= streak[i]
    BY <1>1 DEF RowInv
  <2>2. new \in Row /\ new.due # Never /\ new.stage = rows[i].stage
    BY <1>1, ForcedRow
  <2> HIDE DEF new
  <2> QED BY <2>1, <2>2
<1>5. /\ rows' = [rows EXCEPT ![i] = new] /\ asked' = [asked EXCEPT ![i] = 0]
      /\ streak' = [streak EXCEPT ![i] = streak[i]] /\ deaths' = deaths
  BY DEF ForceDue, Ledger
<1>6. 0 <= 1 + deaths /\ 0 <= deaths
  BY DEF Ledger
<1> HIDE DEF new
<1> QED BY <1>1, <1>4, <1>5, <1>6, ReplaceInv

LEMMA JobDiesInv ==
  ASSUME Ledger, NEW i \in Items, JobDies(i)
  PROVE  Ledger'
<1>1. /\ rows' = rows /\ streak' = streak /\ deaths' = deaths + 1 /\ deaths' \in 0 .. MaxDeaths
      /\ deaths \in Nat
  BY DEF JobDies, Ledger
<1>2. /\ asked' \in [Items -> Nat] /\ asked'[i] = asked[i] + 1
      /\ \A j \in Items : j # i => asked'[j] = asked[j]
  BY DEF JobDies, Ledger
<1>3. i \in DOMAIN rows /\ asked[i] <= deaths
  BY DEF JobDies, Ledger, RowInv
<1>4. ASSUME NEW j \in DOMAIN rows PROVE RowInv(j)'
  <2>1. RowInv(j) /\ asked[j] \in Nat /\ j \in Items
    BY RowsAreRows DEF Ledger
  <2>2. asked'[j] <= deaths' /\ asked'[j] <= 1 + deaths'
    <3>1. CASE j = i
      BY <1>1, <1>2, <1>3, <2>1, <3>1
    <3>2. CASE j # i
      BY <1>1, <1>2, <2>1, <3>2 DEF RowInv
    <3> QED BY <3>1, <3>2
  <2> QED BY <1>1, <2>1, <2>2 DEF RowInv
<1>5. ASSUME NEW j \in Items, j \notin DOMAIN rows PROVE asked'[j] <= deaths'
  <2>1. asked[j] <= deaths /\ asked[j] \in Nat
    BY <1>5 DEF Ledger
  <2>2. asked'[j] = asked[j]
    BY <1>2, <1>3, <1>5
  <2> QED BY <2>1, <2>2, <1>1
<1> QED BY <1>1, <1>2, <1>4, <1>5 DEF Ledger

LEMMA DayInv ==
  ASSUME Ledger, Day
  PROVE  Ledger'
<1> DEFINE due(i) == IF rows[i].due = Never \/ rows[i].due = -MaxOverdue THEN rows[i].due ELSE rows[i].due - 1
<1>1. /\ DOMAIN rows' = DOMAIN rows
      /\ rows' = [i \in DOMAIN rows |-> rows'[i]]
      /\ \A i \in DOMAIN rows : rows'[i] = [rows[i] EXCEPT !.due = due(i)]
      /\ UNCHANGED <<asked, streak, deaths>>
  BY DEF Day
<1>2. ASSUME NEW i \in DOMAIN rows PROVE rows'[i] \in Row /\ RowInv(i)'
  <2>1. rows[i] \in Row /\ RowInv(i)
    BY RowsAreRows DEF Ledger
  <2>2. rows[i].due \in -MaxOverdue .. Never
    BY <2>1 DEF Row, Days
  <2>3. due(i) \in Days /\ (due(i) = Never => rows[i].due = Never)
    BY <2>2 DEF Days
  <2>4. rows'[i] = [grade |-> rows[i].grade, stage |-> rows[i].stage, due |-> due(i), pending |-> rows[i].pending]
    <3> DEFINE e == due(i)
    <3>1. rows'[i] = [rows[i] EXCEPT !.due = e]
      BY <1>1
    <3> HIDE DEF e
    <3>2. rows'[i] = [grade |-> rows[i].grade, stage |-> rows[i].stage, due |-> e, pending |-> rows[i].pending]
      BY ONLY <3>1, <2>1 DEF Row
    <3> QED BY <3>2 DEF e
  <2> HIDE DEF due
  <2> QED BY <1>1, <2>1, <2>3, <2>4 DEF Row, RowInv
<1>3. rows' \in [DOMAIN rows -> Row]
  BY <1>1, <1>2
<1>4. rows' \in UNION {[is -> Row] : is \in SUBSET Items}
  BY <1>3, RowsAreRows, RowsType
<1> QED BY <1>1, <1>2, <1>4 DEF Ledger

\* A job the learner or the routine asks for.
LEMMA AskInv ==
  ASSUME Ledger, Retention \/ \E i \in Items : Exercise(i)
  PROVE  Ledger'
<1>1. CASE Retention
  <2>1. First(Batch, Actionable) \in SUBSET {i \in DOMAIN rows : ~rows[i].pending}
    BY DEF First, Actionable, Listed, Due
  <2>2. Mark(First(Batch, Actionable)) /\ UNCHANGED <<streak, deaths>>
    BY <1>1 DEF Retention
  <2> QED BY <2>1, <2>2, MarkInv
<1>2. ASSUME NEW i \in Items, Exercise(i) PROVE Ledger'
  <2>1. {i} \in SUBSET {j \in DOMAIN rows : ~rows[j].pending}
    BY <1>2 DEF Exercise
  <2>2. Mark({i}) /\ UNCHANGED <<streak, deaths>>
    BY <1>2 DEF Exercise
  <2> QED BY <2>1, <2>2, MarkInv
<1> QED BY <1>1, <1>2

\* What no step of the ledger touches.
LEMMA LedgerKept ==
  ASSUME Ledger, UNCHANGED <<rows, asked, streak, deaths>>
  PROVE  Ledger'
BY DEF Ledger, RowInv

\* A completed step writes one of three things, and the course moves to a step.
LEMMA CompleteInv ==
  ASSUME IInv, NEW r \in Requests, NEW passed \in BOOLEAN, Complete(r, passed)
  PROVE  IInv'
<1>1. Written(course.step) /\ UNCHANGED <<asked, deaths>> /\ Ledger
  BY DEF Complete, IInv
<1>2. Ledger'
  <2>1. CASE rows' = [i \in DOMAIN rows |-> HandedOff(rows[i])] /\ UNCHANGED streak
    BY <1>1, <2>1, HandOverInv
  <2>2. CASE course.step \in Quizzed /\ Seed(course.step)
    BY <1>1, <2>2, SeedInv DEF Items
  <2>3. CASE UNCHANGED <<rows, streak>>
    BY <1>1, <2>3, LedgerKept
  <2> QED BY <1>1, <2>1, <2>2, <2>3 DEF Written
<1>3. course.step \in Jumpable
  BY DEF IInv, CourseOK
<1>4. course' = course \/ course' = Moved(course.step)
  BY DEF Complete
<1>5. course' \in [step : Jumpable, status : {"none", "active", "completed"}]
  BY <1>3, <1>4, MovedIsStep DEF IInv, CourseOK
<1>6. composing' \subseteq Requests
  BY DEF Complete, IInv, CourseOK
<1> QED BY <1>2, <1>5, <1>6 DEF IInv, CourseOK

\* Steps of the course that leave the ledger alone.
LEMMA CourseInv ==
  ASSUME IInv, \/ Start
               \/ \E s \in Jumpable : Jump(s)
               \/ \E r \in Requests : Compose(r) \/ Abandon(r)
  PROVE  IInv'
<1>1. UNCHANGED <<rows, asked, streak, deaths>>
  BY DEF Start, Jump, Compose, Abandon
<1>2. Ledger'
  BY <1>1, LedgerKept DEF IInv
<1>3. CASE Start
  <2>1. Steps[1] \in Jumpable
    BY FirstStep
  <2> QED BY <1>2, <1>3, <2>1 DEF Start, IInv, CourseOK
<1>4. ASSUME NEW s \in Jumpable, Jump(s) PROVE IInv'
  <2>1. course' \in [step : Jumpable, status : {"none", "active", "completed"}]
    BY <1>4 DEF Jump, IInv, CourseOK
  <2> QED BY <1>2, <1>4, <2>1 DEF Jump, IInv, CourseOK
<1>5. ASSUME NEW r \in Requests, Compose(r) \/ Abandon(r) PROVE IInv'
  BY <1>2, <1>5 DEF Compose, Abandon, IInv, CourseOK
<1> QED BY <1>3, <1>4, <1>5

\* Steps of the ledger that leave the course alone.
LEMMA LedgerStep ==
  ASSUME IInv, Ledger', course' = course, composing' \subseteq composing
  PROVE  IInv'
BY DEF IInv, CourseOK

LEMMA StepInv == IInv /\ [Next]_vars => IInv'
<1> SUFFICES ASSUME IInv, [Next]_vars PROVE IInv'
  OBVIOUS
<1>1. Ledger
  BY DEF IInv
<1>2. CASE HandOver
  <2>1. Ledger'
    BY <1>1, <1>2, HandOverInv DEF HandOver
  <2> QED BY <1>2, <2>1, LedgerStep DEF HandOver
<1>3. CASE Start \/ (\E s \in Jumpable : Jump(s)) \/ \E r \in Requests : Compose(r) \/ Abandon(r)
  BY <1>3, CourseInv
<1>4. CASE \E r \in Requests : \E p \in BOOLEAN : Complete(r, p)
  BY <1>4, CompleteInv
<1>5. ASSUME NEW i \in Items, Reseed(i) PROVE IInv'
  <2>1. Ledger'
    BY <1>1, <1>5, SeedInv DEF Reseed
  <2> QED BY <1>5, <2>1, LedgerStep DEF Reseed
<1>6. CASE Retention \/ \E i \in Items : Exercise(i)
  <2>1. Ledger'
    BY <1>1, <1>6, AskInv
  <2> QED BY <1>6, <2>1, LedgerStep DEF Retention, Exercise
<1>7. ASSUME NEW i \in Items, ForceDue(i) PROVE IInv'
  <2>1. Ledger'
    BY <1>1, <1>7, ForceInv
  <2> QED BY <1>7, <2>1, LedgerStep DEF ForceDue
<1>8. ASSUME NEW i \in Items, JobDies(i) PROVE IInv'
  <2>1. Ledger'
    BY <1>1, <1>8, JobDiesInv
  <2> QED BY <1>8, <2>1, LedgerStep DEF JobDies
<1>9. ASSUME NEW i \in Items, NEW c \in BOOLEAN, Grade(i, c) PROVE IInv'
  <2>1. Ledger'
    BY <1>1, <1>9, GradeInv
  <2> QED BY <1>9, <2>1, LedgerStep DEF Grade
<1>10. CASE Day
  <2>1. Ledger'
    BY <1>1, <1>10, DayInv
  <2> QED BY <1>10, <2>1, LedgerStep DEF Day
<1>11. CASE UNCHANGED vars
  BY <1>1, <1>11, LedgerKept, LedgerStep DEF vars
<1> QED BY <1>2, <1>3, <1>4, <1>5, <1>6, <1>7, <1>8, <1>9, <1>10, <1>11 DEF Next, Learner

\* The invariant holds in every reachable state.
LEMMA Invariant == Spec => []IInv
BY InitInv, StepInv, PTL DEF Spec

-----------------------------------------------------------------------------
(* The theorems. *)

\* Every row the routes, the tools and the routine write has a rung of the ladder and a
\* next review within it, and the course stands on a step of its own or a custom one.
THEOREM TypeCorrect == Spec => []TypeOK
BY Invariant, InvType, PTL

\* However items are seeded, graded, forced or handed over meanwhile, one review is asked
\* once, and once more for each death between a job and its mark.
THEOREM OneJobHolds == Spec => []OneJobPerReview
<1>1. IInv => OneJobPerReview
  <2> SUFFICES ASSUME IInv, NEW i \in Items PROVE asked[i] <= 1 + deaths
    BY DEF OneJobPerReview
  <2>1. asked[i] \in Nat /\ deaths \in Nat
    BY DEF IInv, Ledger
  <2>2. CASE i \in DOMAIN rows
    BY <2>2 DEF IInv, Ledger, RowInv
  <2>3. CASE i \notin DOMAIN rows
    BY <2>1, <2>3 DEF IInv, Ledger
  <2> QED BY <2>2, <2>3
<1> QED BY <1>1, Invariant, PTL

\* No item stands on a rung higher than the passes in a row that it was graded with.
THEOREM StageIsEarnedHolds == Spec => []StageIsEarned
<1>1. IInv => StageIsEarned
  BY DEF IInv, Ledger, RowInv, StageIsEarned
<1> QED BY <1>1, Invariant, PTL

=============================================================================
