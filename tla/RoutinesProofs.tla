--------------------------- MODULE RoutinesProofs ---------------------------
(***************************************************************************)
(* Type correctness of Routines, that runs begin on time and that a slot   *)
(* fires once, for any routines, schedules, grace and bounds.              *)
(***************************************************************************)
EXTENDS Routines, WellFoundedInduction, FiniteSetTheorems, TLAPS

USE RoutinesAssumption

-----------------------------------------------------------------------------
(* The inductive invariant. *)

\* A next run that has not fired, or that a run by hand brought back; 0 is none.
Fresh(i, next) == next = 0 \/ <<i, next>> \notin fired \ broughtBack

\* The runs: one by the scheduler at most, begun after the slots fired before it.
RunInv ==
  /\ \A r, q \in Scheduled : r = q
  /\ \A r \in Scheduled : \A m \in Times : <<r.id, m>> \in fired => m <= r.began

\* The slots: those that fired are past, and no row goes back to one, save a row that the
\* end of a run will overwrite.
SlotInv ==
  /\ \A i \in Ids : \A m \in Times : <<i, m>> \in fired => m <= now
  /\ \A i \in DOMAIN list : Fresh(i, list[i].next)
  /\ \A i \in DOMAIN rows :
       Fresh(i, rows[i].next) \/ <<i, rows[i].next>> \in Running

Typed ==
  /\ now \in 1 .. Horizon
  /\ rows \in Tables /\ list \in Tables
  /\ run \subseteq [id : Ids, row : Row, began : 1 .. Horizon, by : {"tick", "hand"}]
  /\ deleted \subseteq Ids /\ fired \subseteq Ids \X Times /\ broughtBack \subseteq fired
  /\ edits \in 0 .. MaxEdits /\ presses \in 0 .. MaxPresses /\ deaths \in 0 .. MaxDeaths

IInv == Typed /\ RunInv /\ SlotInv

\* The invariant holds the types: one scheduled run is at most one.
LEMMA InvType == IInv => TypeOK
<1> SUFFICES ASSUME IInv PROVE TypeOK
  OBVIOUS
<1>1. Cardinality(Scheduled) <= 1
  <2>1. CASE Scheduled = {}
    BY <2>1, FS_EmptySet
  <2>2. CASE Scheduled # {}
    <3>1. PICK r \in Scheduled : TRUE
      BY <2>2
    <3>2. Scheduled = {r}
      BY <3>1 DEF IInv, RunInv
    <3>3. Cardinality({r}) = 1
      BY FS_Singleton
    <3> QED BY <3>2, <3>3
  <2> QED BY <2>1, <2>2
<1> QED BY <1>1 DEF IInv, Typed, TypeOK

-----------------------------------------------------------------------------
(* Schedules and tables. *)

\* The slots of a calendar are every few instants: the next one is later and near.
LEMMA NextSlot ==
  ASSUME NEW t \in Nat, NEW e \in Nat \ {0}
  PROVE  /\ (t \div e + 1) * e \in Nat
         /\ t < (t \div e + 1) * e /\ (t \div e + 1) * e <= t + e
<1> DEFINE q == t \div e
<1>1. q \in Nat /\ t % e \in Nat /\ t % e < e /\ t = e * q + (t % e)
  OBVIOUS
<1>2. e * q \in Nat /\ (q + 1) * e = e * q + e
  BY <1>1
<1> QED BY <1>1, <1>2

\* A next run is later than the time it is computed for.
LEMMA NextIsLater ==
  ASSUME NEW s \in Schedules, NEW t \in 1 .. Horizon
  PROVE  NextRun(s, t) \in Times /\ t < NextRun(s, t)
<1>1. s.every \in 1 .. Horizon /\ s.every \in Nat \ {0} /\ t \in Nat
  OBVIOUS
<1>2. CASE s.kind = "interval"
  BY <1>1, <1>2 DEF NextRun, Times
<1>3. CASE s.kind # "interval"
  <2>1. /\ (t \div s.every + 1) * s.every \in Nat
        /\ t < (t \div s.every + 1) * s.every
        /\ (t \div s.every + 1) * s.every <= t + s.every
    BY <1>1, NextSlot
  <2> QED BY <1>1, <1>3, <2>1 DEF NextRun, Times
<1> QED BY <1>2, <1>3

\* A row that is moved on.
LEMMA MovedOn ==
  ASSUME NEW row \in Row, NEW t \in 1 .. Horizon
  PROVE  /\ From(row, t) \in Row
         /\ From(row, t).next \in Times /\ t < From(row, t).next
<1> DEFINE n == NextRun(row.schedule, t)
<1>1. n \in Times /\ t < n
  BY NextIsLater DEF Row
<1>2. From(row, t) = [row EXCEPT !.next = n]
  BY DEF From
<1> HIDE DEF n
<1> QED BY <1>1, <1>2 DEF Row

\* Tables are tables.
LEMMA TableRows ==
  ASSUME NEW f \in Tables
  PROVE  /\ DOMAIN f \subseteq Ids /\ f = [i \in DOMAIN f |-> f[i]]
         /\ \A i \in DOMAIN f : f[i] \in Row
BY DEF Tables

LEMMA IsTable ==
  ASSUME NEW is \in SUBSET Ids, NEW f \in [is -> Row]
  PROVE  f \in Tables
BY DEF Tables

LEMMA EmptyTable == <<>> \in [{} -> Row]
OBVIOUS

\* A saved row is in the table, the others are as they were.
LEMMA SavedRow ==
  ASSUME rows \in Tables, NEW i \in Ids, NEW row \in Row
  PROVE  /\ Saved(i, row) \in Tables
         /\ DOMAIN Saved(i, row) = DOMAIN rows \cup {i}
         /\ Saved(i, row)[i] = row
         /\ \A j \in DOMAIN rows : j # i => Saved(i, row)[j] = rows[j]
<1>1. DOMAIN rows \cup {i} \in SUBSET Ids
  BY TableRows
<1>2. Saved(i, row) \in [DOMAIN rows \cup {i} -> Row]
  BY TableRows DEF Saved
<1> QED BY <1>1, <1>2, IsTable DEF Saved

\* A row that is moved on is later than every slot fired.
LEMMA MovedOnIsFresh ==
  ASSUME IInv, NEW i \in Ids, NEW row \in Row
  PROVE  From(row, now) \in Row /\ Fresh(i, From(row, now).next)
<1>1. From(row, now) \in Row /\ From(row, now).next \in Times /\ now < From(row, now).next
  BY MovedOn DEF IInv, Typed
<1>2. <<i, From(row, now).next>> \notin fired
  BY <1>1 DEF IInv, SlotInv, Typed, Times
<1> QED BY <1>1, <1>2 DEF Fresh

-----------------------------------------------------------------------------
(* The steps. *)

LEMMA InitInv == Init => IInv
<1> SUFFICES ASSUME Init PROVE IInv
  OBVIOUS
<1>1. DOMAIN list = {} /\ list \in Tables
  <2>1. list \in [{} -> Row]
    BY EmptyTable DEF Init
  <2> QED BY <2>1, IsTable
<1>2. Scheduled = {} /\ run = {} /\ fired = {} /\ broughtBack = {} /\ deleted = {}
  BY DEF Init, Scheduled
<1>3. PICK n \in 0 .. MaxRoutines :
        rows \in [1 .. n -> {From([on |-> TRUE, schedule |-> s, next |-> 0], 1) : s \in Schedules}]
  BY DEF Init
<1>4. now = 1 /\ edits = 0 /\ presses = 0 /\ deaths = 0
  BY DEF Init
<1>5. rows \in Tables
  <2>1. ASSUME NEW s \in Schedules PROVE From([on |-> TRUE, schedule |-> s, next |-> 0], 1) \in Row
    <3>1. [on |-> TRUE, schedule |-> s, next |-> 0] \in Row
      BY DEF Row, Times
    <3> QED BY <3>1, MovedOn
  <2> DEFINE first == {From([on |-> TRUE, schedule |-> s, next |-> 0], 1) : s \in Schedules}
  <2>a. first \subseteq Row
    BY <2>1
  <2>b. rows \in [1 .. n -> first]
    BY <1>3
  <2> HIDE DEF first
  <2>2. rows \in [1 .. n -> Row]
    BY <2>a, <2>b
  <2>3. 1 .. n \in SUBSET Ids
    BY DEF Ids
  <2> QED BY <2>2, <2>3, IsTable
<1>6. Typed
  BY <1>1, <1>2, <1>4, <1>5 DEF Typed
<1>7. RunInv
  BY <1>2 DEF RunInv
<1>8. SlotInv
  BY <1>1, <1>2, <1>4 DEF SlotInv, Fresh
<1> QED BY <1>6, <1>7, <1>8 DEF IInv

\* What no step changes.
LEMMA Kept == IInv /\ UNCHANGED vars => IInv'
BY DEF vars, IInv, Typed, RunInv, SlotInv, Fresh, Running, Scheduled

\* Before a tick and between the runs of one, every row is free to run or later.
LEMMA TickInv ==
  ASSUME IInv, Tick
  PROVE  IInv'
<1> DEFINE skipped == [i \in DOMAIN rows |-> IF Missed(rows[i]) THEN From(rows[i], now) ELSE rows[i]]
           on == {j \in DOMAIN rows : skipped[j].on}
<1>1. ASSUME NEW i \in DOMAIN rows
      PROVE  skipped[i] \in Row /\ (Fresh(i, skipped[i].next))
  <2>1. rows[i] \in Row /\ i \in Ids
    BY TableRows DEF IInv, Typed
  <2>2. From(rows[i], now) \in Row /\ Fresh(i, From(rows[i], now).next)
    BY <2>1, MovedOnIsFresh
  <2>3. Fresh(i, rows[i].next)
    BY DEF IInv, SlotInv, Tick, Running
  <2> QED BY <2>1, <2>2, <2>3
<1>2. DOMAIN rows \in SUBSET Ids /\ on \in SUBSET Ids
  BY TableRows DEF IInv, Typed
<1>3. skipped \in Tables /\ DOMAIN skipped = DOMAIN rows
  BY <1>1, <1>2, IsTable
<1>4. [i \in on |-> skipped[i]] \in Tables
  BY <1>1, <1>2, IsTable
<1>5. /\ rows' = skipped /\ list' = [i \in on |-> skipped[i]]
      /\ UNCHANGED <<now, run, deleted, fired, broughtBack, edits, presses, deaths>>
  BY DEF Tick
<1>6. Typed'
  BY <1>3, <1>4, <1>5 DEF IInv, Typed
<1>7. RunInv'
  BY <1>5 DEF IInv, RunInv, Scheduled
<1>8. ASSUME NEW i \in DOMAIN rows' PROVE Fresh(i, rows[i].next)'
  BY <1>1, <1>3, <1>5 DEF Fresh
<1>9. ASSUME NEW i \in DOMAIN list' PROVE Fresh(i, list[i].next)'
  BY <1>1, <1>5 DEF Fresh
<1>10. \A i \in Ids : \A m \in Times : <<i, m>> \in fired' => m <= now'
  BY <1>5 DEF IInv, SlotInv
<1>11. SlotInv'
  BY <1>8, <1>9, <1>10 DEF SlotInv
<1> QED BY <1>6, <1>7, <1>11 DEF IInv

\* The list gets shorter.
LEMMA RemainingRows ==
  ASSUME list \in Tables, DOMAIN list # {}
  PROVE  /\ Remaining \in Tables /\ DOMAIN Remaining = DOMAIN list \ {Listed}
         /\ \A i \in DOMAIN Remaining : Remaining[i] = list[i]
<1>1. DOMAIN list \ {Listed} \in SUBSET Ids
  BY TableRows
<1>2. Remaining \in [DOMAIN list \ {Listed} -> Row]
  BY TableRows DEF Remaining
<1> QED BY <1>1, <1>2, IsTable DEF Remaining

\* A nonempty set of naturals has a least element.
LEMMA LeastNat ==
  ASSUME NEW T \in SUBSET Nat, T # {}
  PROVE  \E x \in T : \A y \in T : x <= y
<1>1. \E x \in T : \A y \in T : ~ (<<y, x>> \in OpToRel(<, Nat))
  BY NatLessThanWellFounded, WFMin
<1>2. PICK x \in T : \A y \in T : ~ (<<y, x>> \in OpToRel(<, Nat))
  BY <1>1
<1>3. \A y \in T : ~ (y < x)
  BY <1>2 DEF OpToRel
<1> QED BY <1>3

\* The first of a list is of the list.
LEMMA ListedIsListed ==
  ASSUME list \in Tables, DOMAIN list # {}
  PROVE  Listed \in DOMAIN list /\ Listed \in Ids /\ list[Listed] \in Row
<1>1. DOMAIN list \subseteq Ids
  BY TableRows
<1>2. \E i \in DOMAIN list : \A j \in DOMAIN list : i <= j
  <2>1. DOMAIN list \subseteq Nat /\ DOMAIN list # {}
    BY <1>1 DEF Ids
  <2> QED BY <2>1, LeastNat
<1>3. Listed \in DOMAIN list
  BY <1>2 DEF Listed, Min
<1> QED BY <1>1, <1>3, TableRows

\* A row is passed over.
LEMMA PassInv ==
  ASSUME IInv, Pass
  PROVE  IInv'
<1>1. /\ list' = Remaining /\ DOMAIN list # {}
      /\ UNCHANGED <<now, rows, run, deleted, fired, broughtBack, edits, presses, deaths>>
  BY DEF Pass
<1>2. /\ Remaining \in Tables /\ DOMAIN Remaining \subseteq DOMAIN list
      /\ \A i \in DOMAIN Remaining : Remaining[i] = list[i]
  BY <1>1, RemainingRows DEF IInv, Typed
<1>3. Typed'
  BY <1>1, <1>2 DEF IInv, Typed
<1>4. RunInv'
  BY <1>1 DEF IInv, RunInv, Scheduled
<1>5. SlotInv'
  BY <1>1, <1>2 DEF IInv, SlotInv, Fresh, Running, Scheduled
<1> QED BY <1>3, <1>4, <1>5 DEF IInv

\* The first of the list is run: its slot has not fired, and is past.
LEMMA FireInv ==
  ASSUME IInv, Fire
  PROVE  IInv'
<1> DEFINE i == Listed
           row == list[Listed]
           new == [id |-> i, row |-> row, began |-> now, by |-> "tick"]
<1>1. /\ list' = Remaining /\ DOMAIN list # {} /\ Scheduled = {} /\ Due(row)
      /\ run' = run \cup {new} /\ rows' \in {rows, Saved(i, row)}
      /\ fired' = fired \cup {<<i, row.next>>}
      /\ UNCHANGED <<now, deleted, broughtBack, edits, presses, deaths>>
  BY DEF Fire, Begins
<1>2. i \in DOMAIN list /\ i \in Ids /\ row \in Row
  BY <1>1, ListedIsListed DEF IInv, Typed
<1>3. /\ Remaining \in Tables /\ DOMAIN Remaining = DOMAIN list \ {i}
      /\ \A j \in DOMAIN Remaining : Remaining[j] = list[j]
  BY <1>1, RemainingRows DEF IInv, Typed
<1>4. row.next \in Times /\ row.next <= now /\ now \in 1 .. Horizon
  BY <1>1, <1>2 DEF Due, Row, IInv, Typed
<1>a. /\ Saved(i, row) \in Tables /\ DOMAIN Saved(i, row) = DOMAIN rows \cup {i}
      /\ Saved(i, row)[i] = row
      /\ \A j \in DOMAIN rows : j # i => Saved(i, row)[j] = rows[j]
  BY <1>2, SavedRow DEF IInv, Typed
<1>5. /\ rows' \in Tables /\ DOMAIN rows' \subseteq DOMAIN rows \cup {i}
      /\ \A j \in DOMAIN rows' : j # i => rows'[j] = rows[j]
  <2>1. CASE rows' = rows
    BY <2>1 DEF IInv, Typed
  <2>2. CASE rows' = Saved(i, row)
    BY <1>a, <2>2
  <2> QED BY <1>1, <2>1, <2>2
<1>6. new \in [id : Ids, row : Row, began : 1 .. Horizon, by : {"tick", "hand"}]
  BY <1>2, <1>4
<1>7. Scheduled' = {new}
  BY <1>1 DEF Scheduled
<1>8. \A j \in Ids, m \in Times : <<j, m>> \in fired' => m <= now
  BY <1>1, <1>4 DEF IInv, SlotInv
<1>9. Typed'
  <2>1. fired' \subseteq Ids \X Times
    BY <1>1, <1>2, <1>4 DEF IInv, Typed
  <2>2. run' \subseteq [id : Ids, row : Row, began : 1 .. Horizon, by : {"tick", "hand"}]
    BY <1>1, <1>6 DEF IInv, Typed
  <2> QED BY <1>1, <1>3, <1>5, <2>1, <2>2 DEF IInv, Typed
<1>10. RunInv'
  <2>2. new.id = i /\ new.began = now
    OBVIOUS
  <2>3. \A m \in Times : <<new.id, m>> \in fired' => m <= new.began
    BY <1>2, <1>8, <2>2
  <2> HIDE DEF new
  <2> QED BY <1>7, <2>3 DEF RunInv
<1>11. SlotInv'
  <2>1. ASSUME NEW j \in DOMAIN list' PROVE Fresh(j, list[j].next)'
    <3>1. j # i /\ j \in DOMAIN list /\ list'[j] = list[j] /\ j \in Ids
      BY <1>1, <1>3, TableRows DEF IInv, Typed
    <3>2. Fresh(j, list[j].next)
      BY <3>1 DEF IInv, SlotInv
    <3> QED BY <1>1, <3>1, <3>2 DEF Fresh
  <2>2. ASSUME NEW j \in DOMAIN rows'
        PROVE  (Fresh(j, rows[j].next) \/ <<j, rows[j].next>> \in Running)'
    <3>1. CASE j = i
      <4>1. \/ j \in DOMAIN rows /\ rows'[i] = rows[i]
            \/ rows'[i] = row
        BY <1>1, <1>2, <1>a, <3>1
      <4>2. <<i, row.next>> \in Running'
        BY <1>7 DEF Running
      <4>3. CASE j \in DOMAIN rows /\ rows'[i] = rows[i]
        <5>a. Running = {}
          BY <1>1 DEF Running
        <5>1. Fresh(i, rows[i].next)
          BY <3>1, <4>3, <5>a DEF IInv, SlotInv
        <5> QED BY <1>1, <3>1, <4>2, <4>3, <5>1 DEF Fresh
      <4> QED BY <3>1, <4>1, <4>2, <4>3
    <3>2. CASE j # i
      <4>1. j \in DOMAIN rows /\ rows'[j] = rows[j] /\ j \in Ids
        BY <1>1, <1>5, <3>2, TableRows DEF IInv, Typed
      <4>2. Fresh(j, rows[j].next)
        <5>1. Running = {}
          BY <1>1 DEF Running
        <5> QED BY <4>1, <5>1 DEF IInv, SlotInv
      <4> QED BY <1>1, <3>2, <4>1, <4>2 DEF Fresh
    <3> QED BY <3>1, <3>2
  <2> QED BY <1>1, <1>8, <2>1, <2>2 DEF SlotInv
<1> QED BY <1>9, <1>10, <1>11 DEF IInv

\* A run ends and saves its row, moved on from the time it began.
LEMMA FinishInv ==
  ASSUME IInv, NEW r \in run, NEW o \in {"success", "failed"}, Finish(r, o)
  PROVE  IInv'
<1> DEFINE i == r.id
           row == From(r.row, r.began)
<1>1. /\ run' = run \ {r} /\ rows' = Saved(i, row)
      /\ UNCHANGED <<now, list, deleted, fired, edits, presses, deaths>>
  BY DEF Finish
<1>2. i \in Ids /\ r.row \in Row /\ r.began \in 1 .. Horizon /\ r.by \in {"tick", "hand"}
  BY DEF IInv, Typed
<1>3. row \in Row /\ row.next \in Times /\ r.began < row.next
  BY <1>2, MovedOn
<1>b. broughtBack' = broughtBack \cup IF r.by = "hand" THEN {<<i, row.next>>} \cap fired ELSE {}
  BY DEF Finish, BringsBack
<1>a. /\ Saved(i, row) \in Tables /\ DOMAIN Saved(i, row) = DOMAIN rows \cup {i}
      /\ Saved(i, row)[i] = row
      /\ \A j \in DOMAIN rows : j # i => Saved(i, row)[j] = rows[j]
  BY <1>2, <1>3, SavedRow DEF IInv, Typed
<1> HIDE DEF row
<1>4. Fresh(i, row.next)'
  <2>1. CASE r.by = "hand"
    BY <1>1, <1>b, <2>1 DEF Fresh
  <2>2. CASE r.by = "tick"
    <3>1. \A m \in Times : <<i, m>> \in fired => m <= r.began
      BY <2>2 DEF IInv, RunInv, Scheduled
    <3>2. <<i, row.next>> \notin fired
      BY <1>2, <1>3, <3>1 DEF Times
    <3> QED BY <1>1, <3>2 DEF Fresh
  <2> QED BY <1>2, <2>1, <2>2
<1>5. /\ rows' \in Tables /\ DOMAIN rows' = DOMAIN rows \cup {i} /\ rows'[i] = row
      /\ \A j \in DOMAIN rows : j # i => rows'[j] = rows[j]
  BY <1>1, <1>a
<1>c. broughtBack \subseteq broughtBack' /\ broughtBack' \subseteq fired
  BY <1>b DEF IInv, Typed
<1>6. Typed'
  BY <1>1, <1>5, <1>c DEF IInv, Typed
<1>7. RunInv'
  BY <1>1 DEF IInv, RunInv, Scheduled
<1>8. ASSUME NEW j \in DOMAIN rows'
      PROVE  (Fresh(j, rows[j].next) \/ <<j, rows[j].next>> \in Running)'
  <2>1. CASE j = i
    BY <1>4, <1>5, <2>1 DEF Fresh
  <2>2. CASE j # i
    <3>1. j \in DOMAIN rows /\ rows'[j] = rows[j]
      BY <1>1, <1>5, <2>2
    <3>2. CASE Fresh(j, rows[j].next)
      BY <1>1, <1>c, <3>1, <3>2 DEF Fresh
    <3>3. CASE <<j, rows[j].next>> \in Running
      <4>1. PICK q \in Scheduled : q.id = j /\ q.row.next = rows[j].next
        BY <3>3 DEF Running
      <4>2. q \in Scheduled'
        BY <1>1, <2>2, <4>1 DEF Scheduled
      <4> QED BY <3>1, <4>1, <4>2 DEF Running
    <3> QED BY <3>1, <3>2, <3>3 DEF IInv, SlotInv
  <2> QED BY <2>1, <2>2
<1>9. ASSUME NEW j \in DOMAIN list' PROVE Fresh(j, list[j].next)'
  BY <1>1, <1>c DEF IInv, SlotInv, Fresh
<1>10. \A j \in Ids : \A m \in Times : <<j, m>> \in fired' => m <= now'
  BY <1>1 DEF IInv, SlotInv
<1>11. SlotInv'
  BY <1>8, <1>9, <1>10 DEF SlotInv
<1> QED BY <1>6, <1>7, <1>11 DEF IInv

\* A row is saved that is fresh, or that of a routine whose run will overwrite it.
LEMMA RowSaved ==
  ASSUME IInv, NEW i \in Ids, NEW row \in Row, rows' = Saved(i, row),
         Fresh(i, row.next) \/ <<i, row.next>> \in Running,
         UNCHANGED <<now, list, run, fired, broughtBack, presses, deaths>>,
         deleted' \subseteq Ids, edits' \in 0 .. MaxEdits
  PROVE  IInv'
<1>1. /\ rows' \in Tables /\ DOMAIN rows' = DOMAIN rows \cup {i} /\ rows'[i] = row
      /\ \A j \in DOMAIN rows : j # i => rows'[j] = rows[j]
  BY SavedRow DEF IInv, Typed
<1>2. Typed'
  BY <1>1 DEF IInv, Typed
<1>3. RunInv'
  BY DEF IInv, RunInv, Scheduled
<1>4. ASSUME NEW j \in DOMAIN rows'
      PROVE  (Fresh(j, rows[j].next) \/ <<j, rows[j].next>> \in Running)'
  <2>1. CASE j = i
    BY <1>1, <2>1 DEF Fresh, Running, Scheduled
  <2>2. CASE j # i
    BY <1>1, <2>2 DEF IInv, SlotInv, Fresh, Running, Scheduled
  <2> QED BY <2>1, <2>2
<1>5. SlotInv'
  BY <1>4 DEF IInv, SlotInv, Fresh
<1> QED BY <1>2, <1>3, <1>5 DEF IInv

\* What the operator keeps of a row is as fresh as it was.
LEMMA AsFresh ==
  ASSUME IInv, NEW i \in DOMAIN rows
  PROVE  /\ i \in Ids /\ rows[i] \in Row
         /\ Fresh(i, rows[i].next) \/ <<i, rows[i].next>> \in Running
BY TableRows DEF IInv, Typed, SlotInv

\* The rows that the studio writes.
LEMMA OperatorInv ==
  ASSUME IInv, NEW i \in Ids, NEW row \in Row, Operator(i, row), deleted' \subseteq Ids,
         Fresh(i, row.next) \/ <<i, row.next>> \in Running
  PROVE  IInv'
<1>1. /\ rows' = Saved(i, row) /\ edits' \in 0 .. MaxEdits
      /\ UNCHANGED <<now, list, run, fired, broughtBack, presses, deaths>>
  BY DEF Operator, IInv, Typed
<1> QED BY <1>1, RowSaved

LEMMA ToggleInv ==
  ASSUME IInv, NEW i \in Ids, Toggle(i)
  PROVE  IInv'
<1> DEFINE off == [rows[i] EXCEPT !.on = FALSE]
           on == [rows[i] EXCEPT !.on = TRUE]
<1>1. i \in DOMAIN rows /\ deleted' \subseteq Ids
  BY DEF Toggle, IInv, Typed
<1>2. off \in Row /\ off.next = rows[i].next /\ on \in Row
  BY <1>1, AsFresh DEF Row
<1>3. CASE Operator(i, off)
  <2> HIDE DEF off
  <2> QED BY <1>1, <1>2, <1>3, AsFresh, OperatorInv
<1>4. CASE Operator(i, From(on, now))
  <2> HIDE DEF on
  <2>1. From(on, now) \in Row /\ Fresh(i, From(on, now).next)
    BY <1>2, MovedOnIsFresh
  <2> QED BY <1>1, <1>4, <2>1, OperatorInv
<1> QED BY <1>3, <1>4 DEF Toggle

LEMMA EditInv ==
  ASSUME IInv, NEW i \in Ids, NEW s \in Schedules, NEW on \in BOOLEAN, Edit(i, s, on)
  PROVE  IInv'
<1> DEFINE new == [rows[i] EXCEPT !.schedule = s, !.on = on]
<1>1. i \in DOMAIN rows /\ deleted' \subseteq Ids
  BY DEF Edit, IInv, Typed
<1>2. new \in Row /\ new.next = rows[i].next
  BY <1>1, AsFresh DEF Row
<1>3. Operator(i, new) \/ Operator(i, From(new, now))
  BY DEF Edit
<1> HIDE DEF new
<1>4. CASE Operator(i, new)
  BY <1>1, <1>2, <1>4, AsFresh, OperatorInv
<1>5. CASE Operator(i, From(new, now))
  <2>1. From(new, now) \in Row /\ Fresh(i, From(new, now).next)
    BY <1>2, MovedOnIsFresh
  <2> QED BY <1>1, <1>5, <2>1, OperatorInv
<1> QED BY <1>3, <1>4, <1>5

LEMMA CreateInv ==
  ASSUME IInv, NEW i \in Ids, NEW s \in Schedules, NEW on \in BOOLEAN, Create(i, s, on)
  PROVE  IInv'
<1> DEFINE new == [on |-> on, schedule |-> s, next |-> 0]
<1>1. deleted' \subseteq Ids
  BY DEF Create, IInv, Typed
<1>2. new \in Row /\ new.next = 0
  BY DEF Row, Times
<1>3. Operator(i, new) \/ Operator(i, From(new, now))
  BY DEF Create
<1> HIDE DEF new
<1>4. CASE Operator(i, new)
  <2>1. Fresh(i, new.next)
    BY <1>2 DEF Fresh
  <2> QED BY <1>1, <1>2, <1>4, <2>1, OperatorInv
<1>5. CASE Operator(i, From(new, now))
  <2>1. From(new, now) \in Row /\ Fresh(i, From(new, now).next)
    BY <1>2, MovedOnIsFresh
  <2> QED BY <1>1, <1>5, <2>1, OperatorInv
<1> QED BY <1>3, <1>4, <1>5

LEMMA DeleteInv ==
  ASSUME IInv, NEW i \in Ids, Delete(i)
  PROVE  IInv'
<1>1. /\ rows' = [j \in DOMAIN rows \ {i} |-> rows[j]] /\ edits' \in 0 .. MaxEdits
      /\ deleted' \subseteq Ids
      /\ UNCHANGED <<now, list, run, fired, broughtBack, presses, deaths>>
  BY DEF Delete, IInv, Typed
<1>2. rows' \in Tables
  <2>1. DOMAIN rows \ {i} \in SUBSET Ids
    BY TableRows DEF IInv, Typed
  <2>2. rows' \in [DOMAIN rows \ {i} -> Row]
    BY <1>1, TableRows DEF IInv, Typed
  <2> QED BY <2>1, <2>2, IsTable
<1>3. Typed'
  BY <1>1, <1>2 DEF IInv, Typed
<1>4. RunInv'
  BY <1>1 DEF IInv, RunInv, Scheduled
<1>5. SlotInv'
  BY <1>1 DEF IInv, SlotInv, Fresh, Running, Scheduled
<1> QED BY <1>3, <1>4, <1>5 DEF IInv

\* A run by hand changes no row.
LEMMA PressInv ==
  ASSUME IInv, NEW i \in Ids, Press(i)
  PROVE  IInv'
<1> DEFINE new == [id |-> i, row |-> rows[i], began |-> now, by |-> "hand"]
<1>1. /\ i \in DOMAIN rows /\ presses' \in 0 .. MaxPresses
      /\ run' = run \cup {new} /\ rows' \in {rows, Saved(i, rows[i])}
      /\ UNCHANGED <<now, list, deleted, fired, broughtBack, edits, deaths>>
  BY DEF Press, Begins, IInv, Typed
<1>2. rows[i] \in Row
  BY <1>1, AsFresh
<1>3. rows' = rows
  <2>1. Saved(i, rows[i]) = rows
    <3>1. DOMAIN rows \cup {i} = DOMAIN rows
      BY <1>1
    <3>2. Saved(i, rows[i]) = [j \in DOMAIN rows |-> IF j = i THEN rows[i] ELSE rows[j]]
      BY <3>1 DEF Saved
    <3>3. Saved(i, rows[i]) = [j \in DOMAIN rows |-> rows[j]]
      BY <3>2, Zenon
    <3> QED BY <3>3, TableRows DEF IInv, Typed
  <2> QED BY <1>1, <2>1
<1>4. new \in [id : Ids, row : Row, began : 1 .. Horizon, by : {"tick", "hand"}]
  BY <1>2 DEF IInv, Typed
<1>5. Scheduled' = Scheduled
  BY <1>1 DEF Scheduled
<1>6. Typed'
  BY <1>1, <1>3, <1>4 DEF IInv, Typed
<1>7. RunInv'
  BY <1>1, <1>5 DEF IInv, RunInv
<1>8. SlotInv'
  BY <1>1, <1>3, <1>5 DEF IInv, SlotInv, Fresh, Running
<1> QED BY <1>6, <1>7, <1>8 DEF IInv

LEMMA ClockInv ==
  ASSUME IInv, Clock
  PROVE  IInv'
<1>1. Typed'
  BY DEF Clock, IInv, Typed
<1>2. RunInv'
  BY DEF Clock, IInv, RunInv, Scheduled
<1>3. SlotInv'
  <2>1. \A i \in Ids : \A m \in Times : <<i, m>> \in fired' => m <= now'
    BY DEF Clock, IInv, SlotInv, Typed, Times
  <2> QED BY <2>1 DEF Clock, IInv, SlotInv, Fresh, Running, Scheduled
<1> QED BY <1>1, <1>2, <1>3 DEF IInv

\* A new life has all the slots to come, and those whose run was cut.
LEMMA DieInv ==
  ASSUME IInv, Die
  PROVE  IInv'
<1>1. DOMAIN list' = {} /\ list' \in Tables
  <2>1. list' \in [{} -> Row]
    BY EmptyTable DEF Die
  <2> QED BY <2>1, IsTable
<1>2. /\ run' = {} /\ fired' = fired \ Running /\ broughtBack' = broughtBack \ Running
      /\ deaths' \in 0 .. MaxDeaths /\ UNCHANGED <<now, rows, deleted, edits, presses>>
  BY DEF Die, IInv, Typed
<1>3. Typed'
  BY <1>1, <1>2 DEF IInv, Typed
<1>4. RunInv'
  BY <1>2 DEF RunInv, Scheduled
<1>5. ASSUME NEW i \in DOMAIN rows' PROVE Fresh(i, rows[i].next)'
  BY <1>2 DEF IInv, SlotInv, Fresh
<1>6. \A i \in Ids : \A m \in Times : <<i, m>> \in fired' => m <= now'
  BY <1>2 DEF IInv, SlotInv
<1>7. SlotInv'
  BY <1>1, <1>5, <1>6 DEF SlotInv
<1> QED BY <1>3, <1>4, <1>7 DEF IInv

LEMMA StepInv == IInv /\ [Next]_vars => IInv'
<1> SUFFICES ASSUME IInv, [Next]_vars PROVE IInv'
  OBVIOUS
<1>1. CASE Scheduler
  BY <1>1, TickInv, PassInv, FireInv DEF Scheduler
<1>2. CASE Clock \/ Die
  BY <1>2, ClockInv, DieInv
<1>3. ASSUME NEW r \in run, Ends(r) PROVE IInv'
  BY <1>3, FinishInv DEF Ends
<1>4. ASSUME NEW i \in Ids, Toggle(i) \/ Delete(i) \/ Press(i) PROVE IInv'
  BY <1>4, ToggleInv, DeleteInv, PressInv
<1>5. ASSUME NEW i \in Ids, NEW s \in Schedules, NEW on \in BOOLEAN, Edit(i, s, on) \/ Create(i, s, on)
      PROVE  IInv'
  BY <1>5, EditInv, CreateInv
<1>6. CASE UNCHANGED vars
  BY <1>6, Kept
<1> QED BY <1>1, <1>2, <1>3, <1>4, <1>5, <1>6 DEF Next

\* The invariant holds in every reachable state.
LEMMA Invariant == Spec => []IInv
BY InitInv, StepInv, PTL DEF Spec

-----------------------------------------------------------------------------
(* The theorems. *)

\* A run that the scheduler starts is started by Fire, on the row it read.
LEMMA StartedByFire ==
  ASSUME IInv, [Next]_vars, NEW r \in StartedByTick
  PROVE  Fire /\ r.id = Listed /\ r.row = list[Listed]
<1>1. r \in run' /\ r \notin run /\ r.by = "tick"
  BY DEF StartedByTick
<1>2. CASE Fire
  BY <1>1, <1>2 DEF Fire, Begins
<1>3. CASE Tick \/ Pass \/ Clock \/ Die \/ UNCHANGED vars
  BY <1>1, <1>3 DEF Tick, Pass, Clock, Die, vars
<1>4. ASSUME NEW q \in run, Ends(q) PROVE FALSE
  BY <1>1, <1>4 DEF Ends, Finish
<1>5. ASSUME NEW i \in Ids, Toggle(i) \/ Delete(i) \/ Press(i) PROVE FALSE
  BY <1>1, <1>5 DEF Toggle, Delete, Press, Operator, Begins
<1>6. ASSUME NEW i \in Ids, NEW s \in Schedules, NEW on \in BOOLEAN, Edit(i, s, on) \/ Create(i, s, on)
      PROVE  FALSE
  BY <1>1, <1>6 DEF Edit, Create, Operator
<1> QED BY <1>2, <1>3, <1>4, <1>5, <1>6 DEF Next, Scheduler

\* Every row the studio, the ticks and the ends of runs write is a row, with a next run
\* within one schedule of the clock, and at most one scheduled run is in progress.
THEOREM TypeCorrect == Spec => []TypeOK
BY Invariant, InvType, PTL

\* However long a tick takes and whatever is edited meanwhile, what it starts is in its
\* slot: not early, and late by no more than the grace.
THEOREM FiresOnTimeHolds == Spec => FiresOnTime
<1>1. IInv /\ [Next]_vars => [\A r \in StartedByTick : now \in r.row.next .. r.row.next + Grace]_vars
  <2> SUFFICES ASSUME IInv, [Next]_vars, NEW r \in StartedByTick
               PROVE  now \in r.row.next .. r.row.next + Grace
    OBVIOUS
  <2>1. Fire /\ r.row = list[Listed]
    BY StartedByFire
  <2>2. list[Listed] \in Row
    BY <2>1, ListedIsListed DEF Fire, IInv, Typed
  <2> QED BY <2>1, <2>2 DEF Fire, Due, Row, Times, IInv, Typed
<1> QED BY <1>1, Invariant, PTL DEF Spec, FiresOnTime

\* A slot that has fired fires no more, in this life of the process or a later one, whether
\* its run succeeded or failed and whatever the operator wrote, deleted or created meanwhile;
\* what may run again is a slot whose run a death cut, and one that the end of a run by hand
\* brought back.
THEOREM SlotFiresOnceHolds == Spec => SlotFiresOnce
<1>1. IInv /\ [Next]_vars
        => [\A r \in StartedByTick : <<r.id, r.row.next>> \notin fired \ broughtBack]_vars
  <2> SUFFICES ASSUME IInv, [Next]_vars, NEW r \in StartedByTick
               PROVE  <<r.id, r.row.next>> \notin fired \ broughtBack
    OBVIOUS
  <2>1. Fire /\ r.id = Listed /\ r.row = list[Listed]
    BY StartedByFire
  <2>2. list[Listed] \in Row /\ Listed \in DOMAIN list
    BY <2>1, ListedIsListed DEF Fire, IInv, Typed
  <2>3. list[Listed].next \in 1 .. now
    BY <2>1, <2>2 DEF Fire, Due
  <2>4. Fresh(Listed, list[Listed].next)
    BY <2>1, <2>2 DEF IInv, SlotInv
  <2> QED BY <2>1, <2>3, <2>4 DEF Fresh, IInv, Typed
<1> QED BY <1>1, Invariant, PTL DEF Spec, SlotFiresOnce

=============================================================================
