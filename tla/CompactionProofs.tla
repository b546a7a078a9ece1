-------------------------- MODULE CompactionProofs --------------------------
(***************************************************************************)
(* Theorems about Compaction for any batches, any numbers of rows that     *)
(* requests and the button keep, and any bounds.                           *)
(***************************************************************************)
EXTENDS Compaction, WellFoundedInduction, FiniteSetTheorems, SequenceTheorems, TLAPS

USE BatchesAssumption, KeepsAssumption, BoundsAssumption

-----------------------------------------------------------------------------
(* Naturals, finite sets and sequences. *)

\* A nonempty set of naturals has a least element.
LEMMA LeastNat ==
  ASSUME NEW T \in SUBSET Nat, T # {}
  PROVE  \E x \in T : \A y \in T : x <= y
<1>1. \E x \in T : \A y \in T : ~ (<<y, x>> \in OpToRel(<, Nat))
  BY NatLessThanWellFounded, WFMin
<1>2. PICK x \in T : \A y \in T : ~ (<<y, x>> \in OpToRel(<, Nat))
  BY <1>1
<1>3. \A y \in T : ~ (y < x)
  BY <1>2 DEF OpToRel
<1> QED BY <1>3

\* The greatest of some numbers up to n is one of them.
LEMMA MaxIn ==
  ASSUME NEW n \in Nat, NEW T \in SUBSET (0 .. n), T # {}
  PROVE  Max(T) \in T /\ \A y \in T : y <= Max(T)
<1> DEFINE D == {n - x : x \in T}
<1>1. D \in SUBSET Nat /\ D # {}
  <2>1. ASSUME NEW x \in T PROVE n - x \in Nat
    <3>1. x \in 0 .. n
      OBVIOUS
    <3> QED BY <3>1
  <2> QED BY <2>1
<1>2. PICK d \in D : \A e \in D : d <= e
  BY <1>1, LeastNat
<1>3. PICK x \in T : d = n - x
  BY <1>2
<1>4. \A y \in T : n - x <= n - y
  BY <1>2, <1>3
<1>5. \A y \in T : x >= y
  BY <1>4
<1>6. Max(T) \in T /\ \A y \in T : Max(T) >= y
  BY <1>5 DEF Max
<1>7. \A y \in T : y \in Int
  OBVIOUS
<1> QED BY <1>6, <1>7

\* The least of some numbers is one of them.
LEMMA MinIn ==
  ASSUME NEW T \in SUBSET Nat, T # {}
  PROVE  Min(T) \in T /\ \A y \in T : Min(T) <= y
<1>1. \E x \in T : \A y \in T : x <= y
  BY LeastNat
<1> QED BY <1>1 DEF Min

\* A function on 1 .. n is a sequence.
LEMMA FunctionIsSeq ==
  ASSUME NEW S, NEW n \in Nat, NEW f \in [1 .. n -> S]
  PROVE  f \in Seq(S) /\ Len(f) = n /\ DOMAIN f = 1 .. n
OBVIOUS

\* How the selection of places of a sequence is found in it.
Picked(t, s, places) ==
  \E pos \in [1 .. Len(t) -> 1 .. Len(s)] :
    /\ \A k \in 1 .. Len(t) : pos[k] \in places /\ t[k] = s[pos[k]]
    /\ \A k, l \in 1 .. Len(t) : k < l => pos[k] < pos[l]
    /\ \A i \in 1 .. Len(s) : i \in places => \E k \in 1 .. Len(t) : pos[k] = i

\* The recursive function of Select, up to n.
Selects(f, S, s, places, n) ==
  /\ f \in [0 .. n -> Seq(S)]
  /\ f[0] = <<>>
  /\ \A k \in 1 .. n : f[k] = IF k \in places THEN Append(f[k - 1], s[k]) ELSE f[k - 1]

\* There is such a function.
LEMMA SelectsExists ==
  ASSUME NEW S, NEW s \in Seq(S), NEW places
  PROVE  \E f : Selects(f, S, s, places, Len(s))
<1> DEFINE Bad == {n \in 0 .. Len(s) : ~ \E f : Selects(f, S, s, places, n)}
<1>1. SUFFICES ASSUME Bad # {} PROVE FALSE
  BY LenProperties
<1>2. Bad \in SUBSET Nat
  OBVIOUS
<1>3. PICK n \in Bad : \A k \in Bad : n <= k
  BY <1>1, <1>2, LeastNat
<1>4. n \in 0 .. Len(s) /\ ~ \E f : Selects(f, S, s, places, n)
  BY <1>3
<1>5. n # 0
  <2>1. Selects([k \in 0 .. 0 |-> <<>>], S, s, places, 0)
    BY EmptySeq DEF Selects
  <2> QED BY <2>1, <1>4
<1>6. n - 1 \in 0 .. Len(s) /\ n - 1 \notin Bad
  BY <1>3, <1>4, <1>5
<1>7. PICK f : Selects(f, S, s, places, n - 1)
  BY <1>6
<1> DEFINE g == [k \in 0 .. n |-> IF k < n THEN f[k]
                 ELSE IF n \in places THEN Append(f[n - 1], s[n]) ELSE f[n - 1]]
<1>8. f \in [0 .. n - 1 -> Seq(S)] /\ n - 1 \in 0 .. n - 1 /\ f[n - 1] \in Seq(S)
  BY <1>4, <1>5, <1>7 DEF Selects
<1>9. n \in 1 .. Len(s) /\ s[n] \in S
  BY <1>4, <1>5, ElementOfSeq
<1>10. Append(f[n - 1], s[n]) \in Seq(S)
  BY <1>8, <1>9
<1>11. g \in [0 .. n -> Seq(S)]
  BY <1>4, <1>8, <1>10
<1>12. g[0] = <<>>
  BY <1>4, <1>5, <1>7 DEF Selects
<1>13. ASSUME NEW k \in 1 .. n
       PROVE  g[k] = IF k \in places THEN Append(g[k - 1], s[k]) ELSE g[k - 1]
  <2>1. k \in 0 .. n /\ k - 1 \in 0 .. n /\ k - 1 < n /\ n \in Nat
    BY <1>4
  <2>2. g[k - 1] = f[k - 1]
    BY <2>1
  <2>3. CASE k = n
    BY <2>1, <2>2, <2>3
  <2>4. CASE k < n
    <3>1. k \in 1 .. n - 1 /\ g[k] = f[k]
      BY <2>1, <2>4
    <3>2. f[k] = IF k \in places THEN Append(f[k - 1], s[k]) ELSE f[k - 1]
      BY <3>1, <1>7 DEF Selects
    <3> QED BY <3>1, <3>2, <2>2
  <2> QED BY <2>1, <2>3, <2>4
<1>14. Selects(g, S, s, places, n)
  <2> HIDE DEF g
  <2> QED BY <1>11, <1>12, <1>13 DEF Selects
<1> QED BY <1>14, <1>4

\* What the function selects from the first n.
LEMMA SelectsPicks ==
  ASSUME NEW S, NEW s \in Seq(S), NEW places, NEW f, Selects(f, S, s, places, Len(s))
  PROVE  Picked(f[Len(s)], s, places)
<1> DEFINE Found(n) ==
      \E pos \in [1 .. Len(f[n]) -> 1 .. n] :
        /\ \A k \in 1 .. Len(f[n]) : pos[k] \in places /\ f[n][k] = s[pos[k]]
        /\ \A k, l \in 1 .. Len(f[n]) : k < l => pos[k] < pos[l]
        /\ \A i \in 1 .. n : i \in places => \E k \in 1 .. Len(f[n]) : pos[k] = i
<1> DEFINE Bad == {n \in 0 .. Len(s) : ~ Found(n)}
<1>1. Len(s) \in 0 .. Len(s)
  BY LenProperties
<1>2. SUFFICES Bad = {}
  <2>1. Found(Len(s))
    <3> HIDE DEF Found
    <3> QED BY <1>1
  <2> QED BY <2>1 DEF Picked
<1>3. SUFFICES ASSUME Bad # {} PROVE FALSE
  OBVIOUS
<1>4. Bad \in SUBSET Nat
  OBVIOUS
<1>5. PICK n \in Bad : \A k \in Bad : n <= k
  BY <1>3, <1>4, LeastNat
<1>6. n \in 0 .. Len(s) /\ ~ Found(n)
  BY <1>5
<1>7. n # 0
  <2>1. Found(0)
    <3>1. f[0] = <<>> /\ Len(f[0]) = 0
      BY EmptySeq DEF Selects
    <3> DEFINE pos == [k \in 1 .. Len(f[0]) |-> 0]
    <3>2. pos \in [1 .. Len(f[0]) -> 1 .. 0] /\ 1 .. Len(f[0]) = {} /\ 1 .. 0 = {}
      BY <3>1
    <3> HIDE DEF pos
    <3> QED BY <3>2
  <2> HIDE DEF Found
  <2> QED BY <2>1, <1>6
<1>8. n - 1 \in 0 .. Len(s) /\ n - 1 \notin Bad /\ n \in Nat /\ n \in 1 .. Len(s)
  <2> HIDE DEF Bad
  <2> QED BY <1>5, <1>6, <1>7
<1>9. Found(n - 1)
  <2> HIDE DEF Found
  <2> QED BY <1>8
<1> DEFINE t == f[n - 1]
<1>10. PICK pos \in [1 .. Len(t) -> 1 .. n - 1] :
        /\ \A k \in 1 .. Len(t) : pos[k] \in places /\ t[k] = s[pos[k]]
        /\ \A k, l \in 1 .. Len(t) : k < l => pos[k] < pos[l]
        /\ \A i \in 1 .. n - 1 : i \in places => \E k \in 1 .. Len(t) : pos[k] = i
  BY <1>9
<1>11. t \in Seq(S) /\ Len(t) \in Nat
  BY <1>8 DEF Selects
<1>12. f[n] = IF n \in places THEN Append(t, s[n]) ELSE t
  BY <1>8 DEF Selects
<1>13. s[n] \in S
  BY <1>8, ElementOfSeq
<1> HIDE DEF t, Bad
<1>14. CASE n \notin places
  <2>1. f[n] = t
    BY <1>12, <1>14
  <2>2. pos \in [1 .. Len(f[n]) -> 1 .. n]
    BY <2>1, <1>8
  <2>3. ASSUME NEW i \in 1 .. n, i \in places PROVE \E k \in 1 .. Len(t) : pos[k] = i
    <3>1. i # n /\ i \in 1 .. n - 1
      BY <2>3, <1>8, <1>14
    <3> QED BY <3>1, <2>3, <1>10
  <2>4. Found(n)
    BY <2>1, <2>2, <2>3, <1>10
  <2> HIDE DEF Found
  <2> QED BY <2>4, <1>6
<1>15. CASE n \in places
  <2>1. f[n] = Append(t, s[n])
    BY <1>12, <1>15
  <2>2. /\ Len(f[n]) = Len(t) + 1
        /\ \A i \in 1 .. Len(t) : f[n][i] = t[i]
        /\ f[n][Len(t) + 1] = s[n]
    BY <2>1, <1>11, <1>13, AppendProperties
  <2> DEFINE more == [k \in 1 .. Len(t) + 1 |-> IF k <= Len(t) THEN pos[k] ELSE n]
  <2>3. more \in [1 .. Len(f[n]) -> 1 .. n]
    BY <2>2, <1>8, <1>11
  <2>4. \A k \in 1 .. Len(f[n]) : more[k] \in places /\ f[n][k] = s[more[k]]
    BY <2>2, <1>10, <1>11, <1>15
  <2>5. ASSUME NEW k \in 1 .. Len(f[n]), NEW l \in 1 .. Len(f[n]), k < l
        PROVE  more[k] < more[l]
    <3>0. k \in 1 .. Len(t)
      BY <2>2, <2>5, <1>11
    <3>1. k \in 1 .. Len(t) /\ more[k] = pos[k] /\ pos[k] \in 1 .. n - 1
      <4>1. k \in 1 .. Len(t) + 1 /\ k <= Len(t)
        BY <3>0, <1>11
      <4>2. more[k] = pos[k]
        BY <4>1
      <4>3. pos[k] \in 1 .. n - 1
        BY <3>0, <1>10
      <4> QED BY <3>0, <4>2, <4>3
    <3>2. CASE l \in 1 .. Len(t)
      <4>1. more[l] = pos[l]
        BY <2>2, <2>5, <3>2, <1>11
      <4> QED BY <4>1, <3>1, <3>2, <2>5, <1>10
    <3>3. CASE l = Len(t) + 1
      <4>1. more[l] = n
        BY <3>3, <2>2, <1>11
      <4> QED BY <4>1, <3>1, <1>8
    <3> QED BY <2>2, <2>5, <3>2, <3>3, <1>11
  <2>6. ASSUME NEW i \in 1 .. n, i \in places
        PROVE  \E k \in 1 .. Len(f[n]) : more[k] = i
    <3>1. CASE i = n
      <4>1. Len(t) + 1 \in 1 .. Len(f[n]) /\ more[Len(t) + 1] = n
        BY <2>2, <1>11
      <4> QED BY <4>1, <3>1
    <3>2. CASE i # n
      <4>1. i \in 1 .. n - 1
        BY <3>2, <1>8
      <4>2. PICK k \in 1 .. Len(t) : pos[k] = i
        BY <4>1, <2>6, <1>10
      <4>3. k \in 1 .. Len(f[n]) /\ more[k] = i
        BY <4>2, <2>2, <1>11
      <4> QED BY <4>3
    <3> QED BY <3>1, <3>2
  <2>7. Found(n)
    <3> HIDE DEF more
    <3> QED BY <2>3, <2>4, <2>5, <2>6
  <2> HIDE DEF Found
  <2> QED BY <2>7, <1>6
<1> QED BY <1>14, <1>15

\* Select returns the elements at the places, in order.
LEMMA SelectIs ==
  ASSUME NEW S, NEW s \in Seq(S), NEW places
  PROVE  Select(s, places) \in Seq(S) /\ Picked(Select(s, places), s, places)
<1> DEFINE Step(f, n) == IF n = 0 THEN <<>>
                         ELSE IF n \in places THEN Append(f[n - 1], s[n]) ELSE f[n - 1]
<1> DEFINE Is(f) == f = [n \in 0 .. Len(s) |-> Step(f, n)]
<1>1. PICK f : Selects(f, S, s, places, Len(s))
  BY SelectsExists
<1>2. Is(f)
  <2>1. ASSUME NEW n \in 0 .. Len(s) PROVE f[n] = Step(f, n)
    <3>1. n = 0 \/ n \in 1 .. Len(s)
      BY LenProperties
    <3> QED BY <1>1, <3>1 DEF Selects
  <2>2. f \in [0 .. Len(s) -> Seq(S)]
    BY <1>1 DEF Selects
  <2> HIDE DEF Step
  <2> QED BY <2>1, <2>2
<1> DEFINE g == CHOOSE h : Is(h)
<1>3. Is(g)
  <2> HIDE DEF Is
  <2> QED BY <1>2
<1>4. Select(s, places) = g[Len(s)]
  BY DEF Select
<1> HIDE DEF g
<1>5. \A n \in 0 .. Len(s) : g[n] = Step(g, n)
  BY <1>3
<1>6. DOMAIN g = 0 .. Len(s) /\ g = [n \in DOMAIN g |-> g[n]]
  BY <1>3
<1>7. ASSUME NEW n \in 0 .. Len(s) PROVE g[n] = f[n]
  <2> DEFINE Bad == {k \in 0 .. Len(s) : g[k] # f[k]}
  <2>1. SUFFICES ASSUME Bad # {} PROVE FALSE
    OBVIOUS
  <2>2. Bad \in SUBSET Nat
    OBVIOUS
  <2>3. PICK b \in Bad : \A k \in Bad : b <= k
    BY <2>1, <2>2, LeastNat
  <2>4. b \in 0 .. Len(s) /\ g[b] # f[b]
    BY <2>3
  <2>5. ASSUME NEW k \in 0 .. Len(s) PROVE f[k] = Step(f, k)
    <3>1. k = 0 \/ k \in 1 .. Len(s)
      BY LenProperties
    <3> QED BY <1>1, <3>1 DEF Selects
  <2>6. b # 0
    BY <2>4, <2>5, <1>5
  <2>7. b - 1 \in 0 .. Len(s) /\ b - 1 \notin Bad
    <3> HIDE DEF Bad
    <3> QED BY <2>3, <2>4, <2>6
  <2>8. g[b - 1] = f[b - 1]
    BY <2>7
  <2>9. g[b] = f[b]
    BY <2>4, <2>5, <2>8, <1>5
  <2> QED BY <2>9, <2>4
<1>8. Len(s) \in 0 .. Len(s)
  BY LenProperties
<1>9. Select(s, places) = f[Len(s)]
  BY <1>4, <1>7, <1>8
<1>10. f[Len(s)] \in Seq(S)
  BY <1>1, <1>8 DEF Selects
<1> QED BY <1>1, <1>9, <1>10, SelectsPicks

-----------------------------------------------------------------------------
(* Rows. *)

\* A row before it has an id.
DraftType == [id : Nat, role : {"user", "assistant", "tool", "ui"}, calls : Seq(CallType),
              of : Nat \X Nat, text : {"plain", "long", "cut", "parked", "decided", "summary"},
              says : SUBSET Nat]

\* Rows are drafts with ids.
LEMMA RowIsDraft ==
  /\ RowType \subseteq DraftType
  /\ \A r \in DraftType : r.id # 0 => r \in RowType
<1>1. ASSUME NEW r \in RowType PROVE r \in DraftType
  BY DEF RowType, DraftType
<1>2. ASSUME NEW r \in DraftType, r.id # 0 PROVE r \in RowType
  BY <1>2 DEF RowType, DraftType
<1> QED BY <1>1, <1>2

\* What a row becomes when it is cut.
CutForm(r) == [r EXCEPT !.id = 0, !.text = "cut"]

\* A cut row is the same row, but for its id and its text.
LEMMA CutIs ==
  ASSUME NEW r \in DraftType
  PROVE  LET c == CutForm(r)
         IN c \in DraftType /\ c.id = 0 /\ c.role = r.role /\ c.calls = r.calls /\ c.of = r.of
            /\ c.text = "cut" /\ c.says = r.says
BY DEF CutForm, DraftType

\* A batch that views a runbook has a greatest such call.
LEMMA ViewCallIs ==
  ASSUME NEW r \in DraftType, Views(r)
  PROVE  ViewCall(r) \in CallType /\ \E k \in DOMAIN r.calls : ViewCall(r) = r.calls[k] /\ r.calls[k].kind = "view"
<1> DEFINE P == {k \in DOMAIN r.calls : r.calls[k].kind = "view"}
<1>1. r.calls \in Seq(CallType) /\ Len(r.calls) \in Nat /\ DOMAIN r.calls = 1 .. Len(r.calls)
  BY DEF DraftType
<1>2. P \in SUBSET (0 .. Len(r.calls))
  BY <1>1
<1>3. P # {}
  BY DEF Views, Range
<1>4. Max(P) \in P
  <2> HIDE DEF P
  <2> QED BY <1>1, <1>2, <1>3, MaxIn
<1>5. ViewCall(r) = r.calls[Max(P)]
  BY DEF ViewCall
<1>6. r.calls[Max(P)] \in CallType
  BY <1>1, <1>4, ElementOfSeq
<1> QED BY <1>4, <1>5, <1>6

\* A pinned row is the same row, but for the calls beside its view.
LEMMA PinnedIs ==
  ASSUME NEW r \in DraftType
  PROVE  LET p == PinnedForm(r)
         IN p \in DraftType /\ p.id = r.id /\ p.role = r.role /\ p.of = r.of /\ p.text = r.text
            /\ p.says = r.says /\ Calls(p) \subseteq Calls(r)
            /\ (~ Views(r) => p = r)
            /\ (Views(r) => p.calls = <<ViewCall(r)>> /\ Calls(p) = {ViewCall(r).n})
<1>1. CASE ~ Views(r)
  BY <1>1 DEF PinnedForm
<1>2. CASE Views(r)
  <2>1. ViewCall(r) \in CallType /\ <<ViewCall(r)>> \in Seq(CallType)
    BY <1>2, ViewCallIs
  <2>2. PICK k \in DOMAIN r.calls : ViewCall(r) = r.calls[k]
    BY <1>2, ViewCallIs
  <2> DEFINE p == [r EXCEPT !.calls = <<ViewCall(r)>>]
  <2>3. PinnedForm(r) = p
    BY <1>2 DEF PinnedForm
  <2>4. p \in DraftType /\ p.id = r.id /\ p.role = r.role /\ p.of = r.of /\ p.text = r.text
        /\ p.says = r.says /\ p.calls = <<ViewCall(r)>>
    BY <2>1 DEF DraftType
  <2>5. Calls(p) = {ViewCall(r).n}
    <3> HIDE DEF p
    <3>1. DOMAIN p.calls = {1} /\ p.calls[1] = ViewCall(r)
      BY <2>4
    <3>2. Range(p.calls) = {ViewCall(r)}
      BY <3>1 DEF Range
    <3> QED BY <3>2 DEF Calls
  <2>6. ViewCall(r).n \in Calls(r)
    BY <2>2 DEF Calls, Range
  <2> QED BY <2>3, <2>4, <2>5, <2>6, <1>2
<1> QED BY <1>1, <1>2

\* What the pinned and the cut form of a row tell of it.
Form(t, r) == t = r \/ t = PinnedForm(r) \/ (Oversized(r) /\ t = CutForm(r))

LEMMA FormIs ==
  ASSUME NEW r \in DraftType, NEW t, Form(t, r)
  PROVE  /\ t \in DraftType /\ t.role = r.role /\ t.of = r.of /\ t.says = r.says /\ t.id \in {0, r.id}
         /\ Calls(t) \subseteq Calls(r)
         /\ t.id # 0 => t = r \/ (Views(r) /\ t = PinnedForm(r))
         /\ t.id = 0 => r.id = 0 \/ (t.role = "tool" /\ t.calls = r.calls)
<1>1. CASE t = r
  BY <1>1
<1>2. CASE t = PinnedForm(r)
  BY <1>2, PinnedIs
<1>3. CASE Oversized(r) /\ t = CutForm(r)
  BY <1>3, CutIs DEF Oversized, Calls
<1> QED BY <1>1, <1>2, <1>3 DEF Form

-----------------------------------------------------------------------------
(* What compaction makes of a sequence of rows. *)

Rows == Seq(DraftType)

\* Cutting changes some rows of a sequence.
LEMMA PruneIs ==
  ASSUME NEW rows \in Rows
  PROVE  /\ Prune(rows) \in Rows /\ Len(Prune(rows)) = Len(rows) /\ DOMAIN Prune(rows) = 1 .. Len(rows)
         /\ \A i \in 1 .. Len(rows) :
              Prune(rows)[i] = IF Oversized(rows[i]) THEN CutForm(rows[i]) ELSE rows[i]
<1> DEFINE e(i) == IF Oversized(rows[i]) THEN CutForm(rows[i]) ELSE rows[i]
<1> DEFINE p == [i \in 1 .. Len(rows) |-> e(i)]
<1>1. DOMAIN rows = 1 .. Len(rows) /\ Len(rows) \in Nat
  BY DEF Rows
<1>2. Prune(rows) = p
  BY <1>1 DEF Prune, CutForm
<1>3. ASSUME NEW i \in 1 .. Len(rows) PROVE e(i) \in DraftType
  <2>1. rows[i] \in DraftType
    BY ElementOfSeq DEF Rows
  <2> QED BY <2>1, CutIs
<1>4. p \in [1 .. Len(rows) -> DraftType]
  <2> HIDE DEF e
  <2> QED BY <1>3
<1>5. p \in Rows /\ Len(p) = Len(rows) /\ DOMAIN p = 1 .. Len(rows)
  <2> HIDE DEF p
  <2> QED BY <1>1, <1>4, FunctionIsSeq DEF Rows
<1> QED BY <1>2, <1>5

\* What is said is part of the rows.
LEMMA SpokenIs ==
  ASSUME NEW S, NEW rows \in Seq(S)
  PROVE  /\ Spoken(rows) \in Seq(S) /\ Len(Spoken(rows)) \in Nat
         /\ \E pos \in [1 .. Len(Spoken(rows)) -> 1 .. Len(rows)] :
              /\ \A k \in 1 .. Len(Spoken(rows)) :
                   Spoken(rows)[k] = rows[pos[k]] /\ rows[pos[k]].role # "ui"
              /\ \A k, l \in 1 .. Len(Spoken(rows)) : k < l => pos[k] < pos[l]
              /\ \A i \in 1 .. Len(rows) :
                   rows[i].role # "ui" => \E k \in 1 .. Len(Spoken(rows)) : pos[k] = i
<1> DEFINE places == {i \in DOMAIN rows : rows[i].role # "ui"}
<1>1. Spoken(rows) = Select(rows, places)
  BY DEF Spoken
<1>2. DOMAIN rows = 1 .. Len(rows)
  BY LenProperties
<1>3. Spoken(rows) \in Seq(S) /\ Picked(Spoken(rows), rows, places)
  <2> HIDE DEF places
  <2> QED BY <1>1, SelectIs
<1>4. PICK pos \in [1 .. Len(Spoken(rows)) -> 1 .. Len(rows)] :
        /\ \A k \in 1 .. Len(Spoken(rows)) : pos[k] \in places /\ Spoken(rows)[k] = rows[pos[k]]
        /\ \A k, l \in 1 .. Len(Spoken(rows)) : k < l => pos[k] < pos[l]
        /\ \A i \in 1 .. Len(rows) : i \in places => \E k \in 1 .. Len(Spoken(rows)) : pos[k] = i
  <2> HIDE DEF places
  <2> QED BY <1>3, SMTT(30) DEF Picked
<1> QED BY <1>2, <1>3, <1>4, LenProperties

\* A summary is a row without an id, a call or a result.
LEMMA SummaryIs ==
  ASSUME NEW rows, \A r \in rows : r.says \in SUBSET Nat
  PROVE  LET s == Summary(rows)
         IN s \in DraftType /\ s.id = 0 /\ s.role = "assistant" /\ s.calls = <<>> /\ s.of = NoCall
            /\ s.text = "summary" /\ s.says = Required(rows) /\ Calls(s) = {}
<1> DEFINE s == Summary(rows)
<1>1. Required(rows) \in SUBSET Nat
  BY DEF Required
<1>2. s = [id |-> 0, role |-> "assistant", calls |-> <<>>, of |-> NoCall, text |-> "summary",
           says |-> Required(rows)]
  BY DEF Summary, Row
<1>3. NoCall \in Nat \X Nat
  BY DEF NoCall
<1>4. <<>> \in Seq(CallType)
  BY EmptySeq
<1>5. s \in DraftType
  BY <1>1, <1>2, <1>3, <1>4 DEF DraftType
<1>6. Calls(s) = {}
  <2>1. DOMAIN s.calls = {}
    BY <1>2
  <2> QED BY <2>1 DEF Calls, Range
<1> QED BY <1>2, <1>5, <1>6

\* The pinned rows are rows: a message of the user, and a batch with a later result.
LEMMA PinsAre ==
  ASSUME NEW m \in Rows
  PROVE  /\ Pins(m) \subseteq 1 .. Len(m)
         /\ Users(m) # {} => Max(Users(m)) \in Users(m)
         /\ Loads(m) # {} => /\ Max(Loads(m)) \in Loads(m)
                             /\ Min(Results(m, Max(Loads(m)))) \in Results(m, Max(Loads(m)))
                             /\ \A j \in Results(m, Max(Loads(m))) : Min(Results(m, Max(Loads(m)))) <= j
<1>1. Len(m) \in Nat /\ DOMAIN m = 1 .. Len(m)
  BY LenProperties DEF Rows
<1>2. Users(m) \in SUBSET (0 .. Len(m)) /\ Loads(m) \in SUBSET (0 .. Len(m))
      /\ Users(m) \subseteq 1 .. Len(m) /\ Loads(m) \subseteq 1 .. Len(m)
  BY <1>1 DEF Users, Loads
<1>3. Users(m) # {} => Max(Users(m)) \in Users(m)
  BY <1>1, <1>2, MaxIn
<1>4. Loads(m) # {} => Max(Loads(m)) \in Loads(m)
  BY <1>1, <1>2, MaxIn
<1> DEFINE R == Results(m, Max(Loads(m)))
<1>5. ASSUME Loads(m) # {}
      PROVE  R # {} /\ R \in SUBSET Nat /\ R \subseteq 1 .. Len(m)
  <2>1. Max(Loads(m)) \in 1 .. Len(m)
    BY <1>2, <1>4, <1>5
  <2>2. R # {}
    BY <1>4, <1>5 DEF Loads
  <2>3. R \subseteq Max(Loads(m)) + 1 .. Len(m)
    BY DEF Results
  <2> HIDE DEF R
  <2> QED BY <2>1, <2>2, <2>3, <1>1
<1>6. Loads(m) # {} => Min(R) \in R /\ \A j \in R : Min(R) <= j
  <2> HIDE DEF R
  <2> QED BY <1>5, MinIn
<1>7. Pins(m) \subseteq 1 .. Len(m)
  BY <1>2, <1>3, <1>4, <1>5, <1>6 DEF Pins
<1> QED BY <1>3, <1>4, <1>6, <1>7

\* The condensed rows are the pinned ones and one summary for each run between them.
CondensedFrom(t, m, pos) ==
  /\ pos \in [1 .. Len(t) -> 1 .. Len(m)]
  /\ \A k \in 1 .. Len(t) :
       IF pos[k] \in Pins(m) THEN t[k] = PinnedForm(m[pos[k]])
       ELSE /\ t[k] = Summary({m[j] : j \in RunTo(Pins(m), pos[k])})
            /\ pos[k] + 1 \notin Loose(m)
  /\ \A k, l \in 1 .. Len(t) : k < l => pos[k] < pos[l]
  /\ \A i \in 1 .. Len(m) : i \in Pins(m) \/ i + 1 \notin Loose(m) => \E k \in 1 .. Len(t) : pos[k] = i

LEMMA CondensedIs ==
  ASSUME NEW m \in Rows
  PROVE  Condensed(m) \in Rows /\ \E pos : CondensedFrom(Condensed(m), m, pos)
<1> DEFINE pins == Pins(m)
<1> DEFINE e(i) == IF i \in pins THEN PinnedForm(m[i]) ELSE Summary({m[j] : j \in RunTo(pins, i)})
<1> DEFINE forms == [i \in 1 .. Len(m) |-> e(i)]
<1> DEFINE places == {i \in 1 .. Len(m) : i \in pins \/ i + 1 \notin Loose(m)}
<1>1. Len(m) \in Nat /\ DOMAIN m = 1 .. Len(m)
  BY LenProperties DEF Rows
<1>2. Condensed(m) = Select(forms, places)
  BY <1>1 DEF Condensed, Loose
<1>3. \A i \in 1 .. Len(m) : m[i] \in DraftType
  BY ElementOfSeq DEF Rows
<1>4. ASSUME NEW i \in 1 .. Len(m) PROVE e(i) \in DraftType
  <2> DEFINE run == {m[j] : j \in RunTo(pins, i)}
  <2>1. \A j \in RunTo(pins, i) : j \in 1 .. Len(m)
    BY <1>1 DEF RunTo
  <2>2. \A r \in run : r \in DraftType
    BY <2>1, <1>3
  <2>3. \A r \in run : r.says \in SUBSET Nat
    BY <2>2 DEF DraftType
  <2>4. Summary(run) \in DraftType
    <3> HIDE DEF run
    <3> QED BY <2>3, SummaryIs
  <2>5. PinnedForm(m[i]) \in DraftType
    BY <1>3, PinnedIs
  <2> QED BY <2>4, <2>5
<1>5. forms \in Rows /\ Len(forms) = Len(m)
  <2> HIDE DEF e
  <2>1. forms \in [1 .. Len(m) -> DraftType]
    BY <1>4
  <2> HIDE DEF forms
  <2> QED BY <2>1, <1>1, FunctionIsSeq DEF Rows
<1> DEFINE t == Condensed(m)
<1>6. t \in Rows /\ Picked(t, forms, places)
  <2> HIDE DEF forms, places
  <2> QED BY <1>2, <1>5, SelectIs DEF Rows
<1>7. PICK pos \in [1 .. Len(t) -> 1 .. Len(m)] :
        /\ \A k \in 1 .. Len(t) : pos[k] \in places /\ t[k] = forms[pos[k]]
        /\ \A k, l \in 1 .. Len(t) : k < l => pos[k] < pos[l]
        /\ \A i \in 1 .. Len(m) : i \in places => \E k \in 1 .. Len(t) : pos[k] = i
  <2> HIDE DEF forms, places, t
  <2> QED BY <1>5, <1>6 DEF Picked
<1>8. ASSUME NEW k \in 1 .. Len(t)
      PROVE  IF pos[k] \in Pins(m) THEN t[k] = PinnedForm(m[pos[k]])
             ELSE /\ t[k] = Summary({m[j] : j \in RunTo(Pins(m), pos[k])})
                  /\ pos[k] + 1 \notin Loose(m)
  <2> HIDE DEF t
  <2>1. pos[k] \in 1 .. Len(m) /\ pos[k] \in places /\ t[k] = forms[pos[k]]
    BY <1>7
  <2>2. t[k] = e(pos[k])
    BY <2>1
  <2> QED BY <2>1, <2>2
<1>9. \A i \in 1 .. Len(m) : i \in Pins(m) \/ i + 1 \notin Loose(m) => i \in places
  OBVIOUS
<1>10. CondensedFrom(t, m, pos)
  <2> HIDE DEF t, places, forms
  <2> QED BY <1>7, <1>8, <1>9 DEF CondensedFrom
<1> QED BY <1>6, <1>10

\* The parts of a sequence of rows that is compacted: what is said, with its outputs
\* cut, is a root, the middle and the recent rows.
Pruned(rows)       == Prune(Spoken(rows))
Root(rows)         == IF Spoken(rows) # <<>> /\ Spoken(rows)[1].role = "user" THEN 1 ELSE 0
Turns(rows)        == SubSeq(Pruned(rows), Root(rows) + 1, Len(Pruned(rows)))
Middle(rows, keep) == SubSeq(Turns(rows), 1, Split(Turns(rows), keep))
Joined(rows, keep) ==
  SubSeq(Pruned(rows), 1, Root(rows)) \o Condensed(Middle(rows, keep))
    \o SubSeq(Turns(rows), Split(Turns(rows), keep) + 1, Len(Turns(rows)))

\* Compaction returns the rows with their outputs cut, or joins a condensed middle.
LEMMA CompactIs ==
  ASSUME NEW rows, NEW keep, NEW force, NEW over, NEW fits, NEW shrinks
  PROVE  LET c == Compact(rows, keep, force, over, fits, shrinks)
         IN \/ c = [rows |-> Pruned(rows), applied |-> FALSE]
            \/ /\ c = [rows |-> Pruned(rows), applied |-> TRUE]
               /\ \E r \in Range(Spoken(rows)) : Oversized(r)
            \/ /\ c = [rows |-> Joined(rows, keep), applied |-> TRUE]
               /\ ~ (Len(Turns(rows)) <= keep)
<1> DEFINE said   == Spoken(rows)
           pruned == Prune(said)
           cut    == \E r \in Range(said) : Oversized(r)
           root   == IF said # <<>> /\ said[1].role = "user" THEN 1 ELSE 0
           turns  == SubSeq(pruned, root + 1, Len(pruned))
           split  == Split(turns, keep)
           middle == SubSeq(turns, 1, split)
           asIs   == (~force /\ ~over) \/ Len(turns) <= keep
           vain   == ~cut /\ (Loose(middle) = {} \/ (force /\ ~shrinks))
           joined == SubSeq(pruned, 1, root) \o Condensed(middle) \o SubSeq(turns, split + 1, Len(turns))
           Same(applied) == [rows |-> pruned, applied |-> applied]
           c      == Compact(rows, keep, force, over, fits, shrinks)
<1>1. c = IF asIs THEN Same(cut)
          ELSE IF Settled(middle) THEN Same(FALSE)
          ELSE IF Loose(middle) # {} /\ ~fits THEN Same(cut)
          ELSE IF vain THEN Same(FALSE)
          ELSE [rows |-> joined, applied |-> TRUE]
  BY DEF Compact
<1>2. pruned = Pruned(rows) /\ turns = Turns(rows) /\ joined = Joined(rows, keep)
  BY DEF Pruned, Turns, Joined, Root, Middle
<1>3. cut = TRUE \/ cut = FALSE
  OBVIOUS
<1>4. c = Same(FALSE) \/ (c = Same(TRUE) /\ cut) \/ (c = [rows |-> joined, applied |-> TRUE] /\ ~ (Len(turns) <= keep))
  <2> HIDE DEF c, pruned, joined, turns, vain, middle, cut
  <2>1. CASE cut = TRUE
    BY <1>1, <2>1
  <2>2. CASE cut = FALSE
    BY <1>1, <2>2
  <2> QED BY <1>3, <2>1, <2>2
<1> QED BY <1>2, <1>4

\* Where the recent rows begin: not with a result, unless all rows are recent.
LEMMA SplitIs ==
  ASSUME NEW turns \in Rows, NEW keep \in Nat, keep <= Len(turns)
  PROVE  LET s == Split(turns, keep)
         IN /\ s \in 0 .. Len(turns) - keep
            /\ s = 0 \/ turns[s + 1].role # "tool"
            /\ \A k \in 0 .. Len(turns) - keep : turns[k + 1].role # "tool" => k <= s
<1> DEFINE P == {k \in 0 .. Len(turns) - keep : k = 0 \/ turns[k + 1].role # "tool"}
<1>1. Len(turns) - keep \in Nat
  BY LenProperties DEF Rows
<1>2. P \in SUBSET (0 .. Len(turns) - keep) /\ 0 \in P
  BY <1>1
<1>3. Max(P) \in P /\ \A y \in P : y <= Max(P)
  <2> HIDE DEF P
  <2> QED BY <1>1, <1>2, MaxIn
<1> QED BY <1>3 DEF Split

\* The places of the parts.
LEMMA PartsAre ==
  ASSUME NEW rows \in Rows, NEW keep \in Nat, keep <= Len(Turns(rows))
  PROVE  LET p == Pruned(rows)  R == Root(rows)  K == Split(Turns(rows), keep)
             m == Middle(rows, keep)  L == Len(Condensed(m))  t == Joined(rows, keep)
         IN /\ p \in Rows /\ R \in 0 .. 1 /\ R <= Len(p) /\ K \in 0 .. Len(p) - R - keep
            /\ m \in Rows /\ Len(m) = K /\ \A i \in 1 .. K : m[i] = p[R + i]
            /\ Turns(rows) \in Rows /\ Len(Turns(rows)) = Len(p) - R
            /\ \A i \in 1 .. Len(p) - R : Turns(rows)[i] = p[R + i]
            /\ L \in Nat /\ t \in Rows /\ Len(t) = R + L + (Len(p) - R - K)
            /\ \A k \in 1 .. R : t[k] = p[k]
            /\ \A k \in 1 .. L : t[R + k] = Condensed(m)[k]
            /\ \A k \in 1 .. Len(p) - R - K : t[R + L + k] = p[R + K + k]
            /\ LET a == SubSeq(p, 1, R)  d == SubSeq(Turns(rows), K + 1, Len(Turns(rows)))
               IN /\ a \in Rows /\ Len(a) = R /\ \A k \in 1 .. R : a[k] = p[k]
                  /\ d \in Rows /\ Len(d) = Len(p) - R - K
                  /\ \A k \in 1 .. Len(p) - R - K : d[k] = p[R + K + k]
<1> DEFINE p == Pruned(rows)
           R == Root(rows)
           u == Turns(rows)
           K == Split(u, keep)
           m == Middle(rows, keep)
           L == Len(Condensed(m))
           a == SubSeq(p, 1, R)
           b == Condensed(m)
           d == SubSeq(u, K + 1, Len(u))
<1>1. Spoken(rows) \in Rows
  BY SpokenIs DEF Rows
<1>2. p \in Rows /\ Len(p) = Len(Spoken(rows)) /\ Len(p) \in Nat
  BY <1>1, PruneIs, LenProperties DEF Pruned, Rows
<1>3. R \in 0 .. 1 /\ R <= Len(p)
  <2>1. Spoken(rows) # <<>> => Len(Spoken(rows)) # 0
    BY <1>1, EmptySeq DEF Rows
  <2> QED BY <1>2, <2>1 DEF Root
<1>4. \A i \in 1 .. Len(p) : p[i] \in DraftType
  BY <1>2, ElementOfSeq DEF Rows
<1> HIDE DEF p, R
<1>5. u \in Rows /\ Len(u) = Len(p) - R /\ \A i \in 1 .. Len(p) - R : u[i] = p[R + i]
  <2>1. u = SubSeq(p, R + 1, Len(p))
    BY DEF Turns, p, R
  <2>2. \A i \in R + 1 .. Len(p) : p[i] \in DraftType
    BY <1>2, <1>3, <1>4
  <2>3. u \in Seq(DraftType) /\ Len(u) = (IF R + 1 <= Len(p) THEN Len(p) - (R + 1) + 1 ELSE 0)
        /\ \A i \in 1 .. Len(p) - (R + 1) + 1 : u[i] = p[R + 1 + i - 1]
    <3> HIDE DEF u
    <3> QED BY <2>1, <2>2, <1>2, <1>3, SubSeqProperties, SMTT(30)
  <2> HIDE DEF u
  <2>4. \A i \in 1 .. Len(p) - R : i \in 1 .. Len(p) - (R + 1) + 1 /\ R + 1 + i - 1 = R + i
    BY <1>2, <1>3
  <2> QED BY <2>3, <2>4, <1>2, <1>3 DEF Rows
<1>6. K \in 0 .. Len(p) - R - keep
  <2>1. K \in 0 .. Len(u) - keep
    <3> HIDE DEF u
    <3> QED BY <1>5, SplitIs DEF u
  <2> QED BY <2>1, <1>5
<1>7. \A i \in 1 .. Len(u) : u[i] \in DraftType
  BY <1>5, ElementOfSeq DEF Rows
<1>8. Len(u) \in Nat /\ K \in 0 .. Len(u)
  BY <1>2, <1>3, <1>5, <1>6
<1> HIDE DEF u, K
<1>9. m \in Rows /\ Len(m) = K /\ \A i \in 1 .. K : m[i] = p[R + i]
  <2>1. m = SubSeq(u, 1, K)
    BY DEF Middle, u, K
  <2>2. \A i \in 1 .. K : u[i] \in DraftType
    BY <1>7, <1>8
  <2>3. m \in Seq(DraftType) /\ Len(m) = (IF 1 <= K THEN K - 1 + 1 ELSE 0)
        /\ \A i \in 1 .. K - 1 + 1 : m[i] = u[1 + i - 1]
    <3> HIDE DEF m
    <3> QED BY <2>1, <2>2, <1>8, SubSeqProperties
  <2> HIDE DEF m
  <2>4. \A i \in 1 .. K : i \in 1 .. K - 1 + 1 /\ 1 + i - 1 = i /\ i \in 1 .. Len(p) - R
    BY <1>5, <1>8
  <2> QED BY <2>3, <2>4, <1>5, <1>8 DEF Rows
<1>10. a \in Seq(DraftType) /\ Len(a) = R /\ \A k \in 1 .. R : a[k] = p[k]
  <2>1. \A i \in 1 .. R : p[i] \in DraftType
    BY <1>2, <1>3, <1>4
  <2>2. a \in Seq(DraftType) /\ Len(a) = (IF 1 <= R THEN R - 1 + 1 ELSE 0)
        /\ \A i \in 1 .. R - 1 + 1 : a[i] = p[1 + i - 1]
    BY <2>1, <1>3, SubSeqProperties
  <2> HIDE DEF a
  <2>3. \A i \in 1 .. R : i \in 1 .. R - 1 + 1 /\ 1 + i - 1 = i
    BY <1>3
  <2> QED BY <2>2, <2>3, <1>3
<1>11. b \in Seq(DraftType) /\ Len(b) = L /\ L \in Nat
  <2> HIDE DEF m
  <2>1. b \in Seq(DraftType)
    BY <1>9, CondensedIs DEF Rows
  <2> QED BY <2>1, LenProperties
<1>12. d \in Seq(DraftType) /\ Len(d) = Len(p) - R - K /\ \A k \in 1 .. Len(p) - R - K : d[k] = p[R + K + k]
  <2>1. \A i \in K + 1 .. Len(u) : u[i] \in DraftType
    BY <1>7, <1>8
  <2>2. d \in Seq(DraftType) /\ Len(d) = (IF K + 1 <= Len(u) THEN Len(u) - (K + 1) + 1 ELSE 0)
        /\ \A i \in 1 .. Len(u) - (K + 1) + 1 : d[i] = u[K + 1 + i - 1]
    BY <2>1, <1>8, SubSeqProperties
  <2> HIDE DEF d
  <2>3. ASSUME NEW k \in 1 .. Len(p) - R - K
        PROVE  k \in 1 .. Len(u) - (K + 1) + 1 /\ K + 1 + k - 1 = K + k /\ K + k \in 1 .. Len(p) - R
               /\ R + (K + k) = R + K + k
    BY <1>2, <1>3, <1>5, <1>8
  <2>4. ASSUME NEW k \in 1 .. Len(p) - R - K PROVE d[k] = p[R + K + k]
    <3>1. d[k] = u[K + k]
      BY <2>2, <2>3
    <3>2. u[K + k] = p[R + K + k]
      BY <2>3, <1>5
    <3> QED BY <3>1, <3>2
  <2>5. Len(d) = Len(p) - R - K
    BY <2>2, <1>2, <1>3, <1>5, <1>8
  <2> QED BY <2>2, <2>4, <2>5
<1> DEFINE t == (a \o b) \o d
<1>13. Joined(rows, keep) = t
  BY DEF Joined, a, b, d, p, R, u, K, m
<1> HIDE DEF a, b, d, m, L
<1>14. a \o b \in Seq(DraftType) /\ Len(a \o b) = R + L
       /\ \A i \in 1 .. R + L : (a \o b)[i] = IF i <= R THEN a[i] ELSE b[i - R]
  <2>1. a \in Seq(DraftType) /\ b \in Seq(DraftType)
    BY <1>10, <1>11
  <2>2. a \o b \in Seq(DraftType) /\ Len(a \o b) = Len(a) + Len(b)
        /\ \A i \in 1 .. Len(a) + Len(b) : (a \o b)[i] = IF i <= Len(a) THEN a[i] ELSE b[i - Len(a)]
    BY ONLY <2>1, ConcatProperties
  <2> QED BY <2>2, <1>10, <1>11
<1>15. t \in Seq(DraftType) /\ Len(t) = R + L + (Len(p) - R - K)
       /\ \A i \in 1 .. R + L + (Len(p) - R - K) : t[i] = IF i <= R + L THEN (a \o b)[i] ELSE d[i - (R + L)]
  <2> DEFINE c == a \o b
  <2>1. c \in Seq(DraftType) /\ d \in Seq(DraftType) /\ Len(c) = R + L /\ Len(d) = Len(p) - R - K
    BY <1>12, <1>14
  <2> HIDE DEF c
  <2>2. c \o d \in Seq(DraftType) /\ Len(c \o d) = Len(c) + Len(d)
        /\ \A i \in 1 .. Len(c) + Len(d) : (c \o d)[i] = IF i <= Len(c) THEN c[i] ELSE d[i - Len(c)]
    BY ONLY <2>1, ConcatProperties
  <2>3. t = c \o d
    BY DEF c
  <2> HIDE DEF t
  <2> QED BY <2>1, <2>2, <2>3 DEF c
<1> DEFINE D == Len(p) - R - K
<1>16. D \in Nat /\ R \in Nat /\ L \in Nat
  BY <1>3, <1>5, <1>8, <1>11
<1> HIDE DEF D, t
<1>17. ASSUME NEW k \in 1 .. R PROVE t[k] = p[k]
  <2>1. k \in 1 .. R + L /\ k \in 1 .. R + L + D /\ k <= R + L /\ k <= R
    BY <1>16
  <2> QED BY <2>1, <1>10, <1>14, <1>15 DEF D
<1>18. ASSUME NEW k \in 1 .. L PROVE t[R + k] = b[k]
  <2>1. R + k \in 1 .. R + L /\ R + k \in 1 .. R + L + D /\ R + k <= R + L /\ ~ (R + k <= R) /\ (R + k) - R = k
    BY <1>16
  <2> QED BY <2>1, <1>14, <1>15 DEF D
<1>19. ASSUME NEW k \in 1 .. D PROVE t[R + L + k] = p[R + K + k]
  <2>1. R + L + k \in 1 .. R + L + D /\ ~ (R + L + k <= R + L) /\ (R + L + k) - (R + L) = k
    BY <1>16
  <2> QED BY <2>1, <1>12, <1>15 DEF D
<1>20. t \in Rows
  BY <1>15 DEF Rows
<1>21. a \in Rows /\ d \in Rows
  BY <1>10, <1>12 DEF Rows
<1> QED BY <1>2, <1>3, <1>5, <1>6, <1>9, <1>10, <1>11, <1>12, <1>13, <1>15, <1>17, <1>18, <1>19, <1>20, <1>21
     DEF p, R, u, K, m, L, b, d, a, D

\* Which row of p stands behind a joined one; none behind a summary.
JoinedFrom(t, p, src) ==
  /\ src \in [1 .. Len(t) -> 0 .. Len(p)]
  /\ \A k \in 1 .. Len(t) :
       IF src[k] = 0 THEN t[k].id = 0 /\ t[k].role = "assistant" /\ t[k].calls = <<>>
                          /\ t[k].of = NoCall /\ t[k].text = "summary"
       ELSE t[k] = p[src[k]] \/ t[k] = PinnedForm(p[src[k]])
  /\ \A k, l \in 1 .. Len(t) : k < l /\ src[k] # 0 /\ src[l] # 0 => src[k] < src[l]

LEMMA JoinedIs ==
  ASSUME NEW rows \in Rows, NEW keep \in Nat, keep <= Len(Turns(rows))
  PROVE  \E src : JoinedFrom(Joined(rows, keep), Pruned(rows), src)
<1> DEFINE p == Pruned(rows)
           R == Root(rows)
           K == Split(Turns(rows), keep)
           m == Middle(rows, keep)
           b == Condensed(m)
           L == Len(b)
           t == Joined(rows, keep)
           D == Len(p) - R - K
<1>1. /\ p \in Rows /\ R \in 0 .. 1 /\ R <= Len(p) /\ K \in 0 .. Len(p) - R - keep
      /\ m \in Rows /\ Len(m) = K /\ \A i \in 1 .. K : m[i] = p[R + i]
      /\ L \in Nat /\ t \in Rows /\ Len(t) = R + L + D
      /\ \A k \in 1 .. R : t[k] = p[k]
      /\ \A k \in 1 .. L : t[R + k] = b[k]
      /\ \A k \in 1 .. D : t[R + L + k] = p[R + K + k]
  BY PartsAre
<1>2. Len(p) \in Nat
  BY <1>1, LenProperties DEF Rows
<1>3. PICK pos : CondensedFrom(b, m, pos)
  BY <1>1, CondensedIs
<1> HIDE DEF p, R, K, m, b, L, t
<1>4. K \in Nat /\ R \in Nat /\ D \in Nat /\ Len(p) = R + K + D /\ L \in Nat
  <2>1. R \in 0 .. 1 /\ R <= Len(p) /\ K \in 0 .. Len(p) - R - keep /\ L \in Nat
    BY <1>1
  <2>2. K <= Len(p) - R - keep /\ K \in Nat /\ R \in Nat
    BY <2>1, <1>2
  <2> QED BY <2>1, <2>2, <1>2
<1>5. /\ pos \in [1 .. L -> 1 .. K]
      /\ \A k \in 1 .. L : IF pos[k] \in Pins(m) THEN b[k] = PinnedForm(m[pos[k]])
                           ELSE b[k] = Summary({m[j] : j \in RunTo(Pins(m), pos[k])})
      /\ \A k, l \in 1 .. L : k < l => pos[k] < pos[l]
  BY <1>1, <1>3 DEF CondensedFrom, L
<1> HIDE DEF D
<1> DEFINE e(k) == IF k <= R THEN k
                   ELSE IF k <= R + L THEN IF pos[k - R] \in Pins(m) THEN R + pos[k - R] ELSE 0
                   ELSE (k - L) + K
           src == [k \in 1 .. R + L + D |-> e(k)]
<1>6. ASSUME NEW k \in 1 .. R + L + D
      PROVE  \/ k \in 1 .. R /\ e(k) = k
             \/ /\ k \notin 1 .. R /\ k - R \in 1 .. L /\ pos[k - R] \in 1 .. K
                /\ e(k) = (IF pos[k - R] \in Pins(m) THEN R + pos[k - R] ELSE 0)
             \/ /\ k \notin 1 .. R + L /\ k - R - L \in 1 .. D /\ e(k) = R + K + (k - R - L)
  <2>1. CASE k <= R
    BY <2>1, <1>1, <1>4
  <2>2. CASE k > R /\ k <= R + L
    <3>1. k - R \in 1 .. L
      BY <2>2, <1>1, <1>4
    <3>2. pos[k - R] \in 1 .. K
      BY <3>1, <1>5
    <3> QED BY <3>1, <3>2, <2>2, <1>1, <1>4
  <2>3. CASE k > R + L
    <3>1. k \notin 1 .. R + L /\ k - R - L \in 1 .. D /\ ~ (k <= R) /\ ~ (k <= R + L)
          /\ (k - L) + K = R + K + (k - R - L)
      BY <2>3, <1>4
    <3> QED BY <3>1
  <2> QED BY <2>1, <2>2, <2>3, <1>4
<1>7. ASSUME NEW k \in 1 .. R + L + D PROVE e(k) \in 0 .. Len(p)
  <2> HIDE DEF e
  <2>1. CASE k \in 1 .. R /\ e(k) = k
    BY <2>1, <1>4
  <2>2. CASE pos[k - R] \in 1 .. K /\ e(k) = (IF pos[k - R] \in Pins(m) THEN R + pos[k - R] ELSE 0)
    <3>1. R + pos[k - R] \in 0 .. Len(p) /\ 0 \in 0 .. Len(p)
      BY <2>2, <1>4
    <3> QED BY <2>2, <3>1
  <2>3. CASE k - R - L \in 1 .. D /\ e(k) = R + K + (k - R - L)
    BY <2>3, <1>4
  <2> QED BY <1>6, <2>1, <2>2, <2>3
<1>8. ASSUME NEW k \in 1 .. R + L + D
      PROVE  IF e(k) = 0 THEN t[k].id = 0 /\ t[k].role = "assistant" /\ t[k].calls = <<>>
                              /\ t[k].of = NoCall /\ t[k].text = "summary"
             ELSE t[k] = p[e(k)] \/ t[k] = PinnedForm(p[e(k)])
  <2>1. CASE k \in 1 .. R /\ e(k) = k
    <3> HIDE DEF e
    <3> QED BY <2>1, <1>1
  <2>2. CASE /\ k \notin 1 .. R /\ k - R \in 1 .. L /\ pos[k - R] \in 1 .. K
             /\ e(k) = (IF pos[k - R] \in Pins(m) THEN R + pos[k - R] ELSE 0)
    <3>1. t[k] = b[k - R]
      <4>1. t[R + (k - R)] = b[k - R]
        BY <2>2, <1>1
      <4>2. R + (k - R) = k
        BY <1>4
      <4> QED BY <4>1, <4>2
    <3>2. CASE pos[k - R] \in Pins(m)
      <4>1. e(k) = R + pos[k - R] /\ e(k) # 0
        <5> HIDE DEF e
        <5> QED BY <2>2, <3>2, <1>4
      <4>2. m[pos[k - R]] = p[R + pos[k - R]]
        BY <2>2, <1>1
      <4>3. b[k - R] = PinnedForm(m[pos[k - R]])
        BY <2>2, <3>2, <1>5
      <4> HIDE DEF e
      <4> QED BY <3>1, <4>1, <4>2, <4>3
    <3>3. CASE pos[k - R] \notin Pins(m)
      <4> DEFINE run == {m[j] : j \in RunTo(Pins(m), pos[k - R])}
      <4>0. pos[k - R] \in 1 .. K /\ Len(m) = K /\ K \in Nat
        BY <2>2, <1>1, <1>4
      <4>1. \A j \in RunTo(Pins(m), pos[k - R]) : j \in 1 .. Len(m)
        BY <4>0 DEF RunTo
      <4>2. \A r \in run : r \in DraftType
        BY <4>1, <1>1, ElementOfSeq DEF Rows
      <4>3. \A r \in run : r.says \in SUBSET Nat
        BY <4>2 DEF DraftType
      <4>4. b[k - R] = Summary(run)
        BY <2>2, <3>3, <1>5
      <4> HIDE DEF run
      <4>5. Summary(run).id = 0 /\ Summary(run).role = "assistant" /\ Summary(run).calls = <<>>
            /\ Summary(run).of = NoCall /\ Summary(run).text = "summary"
        BY <4>3, SummaryIs
      <4>6. e(k) = 0
        <5> HIDE DEF e
        <5> QED BY <2>2, <3>3
      <4> HIDE DEF e
      <4> QED BY <4>4, <4>5, <4>6, <3>1
    <3> QED BY <3>2, <3>3
  <2>3. CASE k \notin 1 .. R + L /\ k - R - L \in 1 .. D /\ e(k) = R + K + (k - R - L)
    <3>1. t[R + L + (k - R - L)] = p[R + K + (k - R - L)]
      BY <2>3, <1>1 DEF D
    <3>2. R + L + (k - R - L) = k
      BY <1>1, <1>4
    <3>3. e(k) # 0
      <4> HIDE DEF e
      <4> QED BY <2>3, <1>1, <1>4
    <3> HIDE DEF e
    <3> QED BY <3>1, <3>2, <3>3, <2>3
  <2> HIDE DEF e
  <2> QED BY <2>1, <2>2, <2>3, <1>6
<1>9. ASSUME NEW k \in 1 .. R + L + D, NEW l \in 1 .. R + L + D, k < l, e(k) # 0, e(l) # 0
      PROVE  e(k) < e(l)
  <2> HIDE DEF e
  <2>1. k - R \in 1 .. L /\ l - R \in 1 .. L => pos[k - R] < pos[l - R]
    BY <1>1, <1>4, <1>5, <1>9
  <2>2. k \in Nat /\ l \in Nat /\ R \in Nat /\ L \in Nat /\ D \in Nat /\ K \in Nat
    BY <1>4
  <2>3. CASE k \in 1 .. R /\ e(k) = k
    <3>1. CASE l \in 1 .. R /\ e(l) = l
      BY <2>2, <2>3, <3>1, <1>9
    <3>2. CASE l \notin 1 .. R /\ l - R \in 1 .. L /\ pos[l - R] \in 1 .. K /\ e(l) = R + pos[l - R]
      BY <2>2, <2>3, <3>2
    <3>3. CASE l - R - L \in 1 .. D /\ e(l) = R + K + (l - R - L)
      BY <2>2, <2>3, <3>3
    <3> QED BY <3>1, <3>2, <3>3, <1>6, <1>9
  <2>4. CASE k \notin 1 .. R /\ k - R \in 1 .. L /\ pos[k - R] \in 1 .. K /\ e(k) = R + pos[k - R]
    <3>1. l \notin 1 .. R
      BY <2>2, <2>4, <1>9
    <3>2. CASE l - R \in 1 .. L /\ e(l) = R + pos[l - R] /\ pos[l - R] \in 1 .. K
      <4>1. pos[k - R] < pos[l - R]
        BY <2>1, <2>4, <3>2
      <4> QED BY <4>1, <2>2, <2>4, <3>2
    <3>3. CASE l - R - L \in 1 .. D /\ e(l) = R + K + (l - R - L)
      BY <2>2, <2>4, <3>3
    <3> QED BY <3>1, <3>2, <3>3, <1>6, <1>9
  <2>5. CASE k \notin 1 .. R + L /\ k - R - L \in 1 .. D /\ e(k) = R + K + (k - R - L)
    <3>1. e(l) = R + K + (l - R - L)
      BY <2>2, <2>5, <1>6, <1>9
    <3> QED BY <2>2, <2>5, <3>1, <1>9
  <2> QED BY <2>3, <2>4, <2>5, <1>6, <1>9
<1>10. src \in [1 .. Len(t) -> 0 .. Len(p)] /\ Len(t) = R + L + D
  <2> HIDE DEF e
  <2> QED BY <1>1, <1>7 DEF D
<1>11. \A k \in 1 .. Len(t) : src[k] = e(k)
  BY <1>10
<1>12. JoinedFrom(t, p, src)
  <2> HIDE DEF e, src
  <2> QED BY <1>8, <1>9, <1>10, <1>11 DEF JoinedFrom
<1> QED BY <1>12 DEF t, p

\* What follows the root.
LEMMA TurnsAreRows ==
  ASSUME NEW rows \in Rows
  PROVE  Turns(rows) \in Rows
<1> DEFINE p == Pruned(rows)
<1>1. Spoken(rows) \in Rows
  BY SpokenIs DEF Rows
<1>2. p \in Rows
  BY <1>1, PruneIs DEF Pruned
<1>3. Root(rows) \in 0 .. 1 /\ Len(p) \in Nat
  BY <1>2, LenProperties DEF Root, Rows
<1>4. \A i \in Root(rows) + 1 .. Len(p) : p[i] \in DraftType
  BY <1>2, <1>3, ElementOfSeq DEF Rows
<1> QED BY <1>3, <1>4, SubSeqProperties DEF Turns, Rows

\* Each row is a summary or a form of a row that was there, in the same order.
TakenFrom(t, rows, from) ==
  /\ from \in [1 .. Len(t) -> 0 .. Len(rows)]
  /\ \A k \in 1 .. Len(t) :
       IF from[k] = 0 THEN t[k].id = 0 /\ t[k].role = "assistant" /\ t[k].calls = <<>>
                           /\ t[k].of = NoCall /\ t[k].text = "summary"
       ELSE rows[from[k]].role # "ui" /\ Form(t[k], rows[from[k]])
  /\ \A k, l \in 1 .. Len(t) : k < l /\ from[k] # 0 /\ from[l] # 0 => from[k] < from[l]

\* compact_with_stats, given any rows: it invents nothing and reorders nothing, whatever is
\* forced, over budget or too long.
THEOREM CompactTakes ==
  ASSUME NEW rows \in Rows, NEW keep \in Nat, NEW force, NEW over, NEW fits, NEW shrinks
  PROVE  LET t == Compact(rows, keep, force, over, fits, shrinks).rows
         IN t \in Rows /\ \E from : TakenFrom(t, rows, from)
<1> DEFINE s == Spoken(rows)
           p == Pruned(rows)
           c == Compact(rows, keep, force, over, fits, shrinks)
<1>1. s \in Rows /\ Len(s) \in Nat
  BY SpokenIs DEF Rows
<1>2. PICK pos \in [1 .. Len(s) -> 1 .. Len(rows)] :
        /\ \A k \in 1 .. Len(s) : s[k] = rows[pos[k]] /\ rows[pos[k]].role # "ui"
        /\ \A k, l \in 1 .. Len(s) : k < l => pos[k] < pos[l]
  BY SpokenIs DEF Rows
<1>3. p \in Rows /\ Len(p) = Len(s) /\ \A i \in 1 .. Len(s) : p[i] = IF Oversized(s[i]) THEN CutForm(s[i]) ELSE s[i]
  BY <1>1, PruneIs DEF Pruned
<1>4. \A i \in 1 .. Len(rows) : rows[i] \in DraftType
  BY ElementOfSeq DEF Rows
<1>5. ASSUME NEW k \in 1 .. Len(s), NEW x, x = p[k] \/ x = PinnedForm(p[k])
      PROVE  Form(x, rows[pos[k]]) /\ rows[pos[k]].role # "ui"
  <2> DEFINE r == rows[pos[k]]
  <2>1. r \in DraftType /\ s[k] = r /\ r.role # "ui"
    BY <1>2, <1>4
  <2>2. CASE ~ Oversized(r)
    BY <2>1, <2>2, <1>3, <1>5 DEF Form
  <2>3. CASE Oversized(r)
    <3>1. p[k] = CutForm(r)
      BY <2>1, <2>3, <1>3
    <3>2. ~ Views(CutForm(r)) /\ CutForm(r) \in DraftType
      BY <2>1, <2>3, CutIs DEF Oversized, Views
    <3>3. PinnedForm(CutForm(r)) = CutForm(r)
      BY <3>2 DEF PinnedForm
    <3> QED BY <2>1, <2>3, <3>1, <3>3, <1>5 DEF Form
  <2> QED BY <2>1, <2>2, <2>3
<1>6. CASE c.rows = p
  <2>1. pos \in [1 .. Len(p) -> 0 .. Len(rows)] /\ \A k \in 1 .. Len(p) : pos[k] # 0
    BY <1>1, <1>2, <1>3
  <2>2. \A k \in 1 .. Len(p) : rows[pos[k]].role # "ui" /\ Form(p[k], rows[pos[k]])
    BY <1>3, <1>5
  <2>3. \A k, l \in 1 .. Len(p) : k < l => pos[k] < pos[l]
    BY <1>2, <1>3
  <2>4. TakenFrom(p, rows, pos)
    <3> HIDE DEF p
    <3> QED BY <2>1, <2>2, <2>3 DEF TakenFrom
  <2> QED BY <2>4, <1>3, <1>6
<1>7. CASE c.rows = Joined(rows, keep) /\ ~ (Len(Turns(rows)) <= keep)
  <2> DEFINE t == Joined(rows, keep)
  <2>0. Turns(rows) \in Rows
    BY TurnsAreRows
  <2>1. keep <= Len(Turns(rows))
    BY <2>0, <1>7, LenProperties DEF Rows
  <2>2. t \in Rows
    BY <2>1, PartsAre
  <2>3. PICK src : JoinedFrom(t, p, src)
    BY <2>1, JoinedIs
  <2> HIDE DEF t, p, s, c
  <2> DEFINE from == [k \in 1 .. Len(t) |-> IF src[k] = 0 THEN 0 ELSE pos[src[k]]]
  <2>4. \A k \in 1 .. Len(t) : src[k] \in 0 .. Len(s) /\ (src[k] # 0 => src[k] \in 1 .. Len(s))
    BY <2>3, <1>1, <1>3 DEF JoinedFrom
  <2>5. \A k \in 1 .. Len(t) : src[k] # 0 => pos[src[k]] \in 1 .. Len(rows)
    BY <2>4, <1>2
  <2>6. Len(rows) \in Nat
    BY LenProperties DEF Rows
  <2>7. from \in [1 .. Len(t) -> 0 .. Len(rows)]
    BY <2>5, <2>6
  <2>8. \A k \in 1 .. Len(t) : (from[k] = 0) = (src[k] = 0) /\ (src[k] # 0 => from[k] = pos[src[k]])
    BY <2>5, <2>6
  <2> HIDE DEF from
  <2>9. \A k \in 1 .. Len(t) :
          IF src[k] = 0 THEN t[k].id = 0 /\ t[k].role = "assistant" /\ t[k].calls = <<>>
                           /\ t[k].of = NoCall /\ t[k].text = "summary"
          ELSE t[k] = p[src[k]] \/ t[k] = PinnedForm(p[src[k]])
    BY <2>3 DEF JoinedFrom
  <2>10. ASSUME NEW k \in 1 .. Len(t), from[k] # 0
         PROVE  rows[from[k]].role # "ui" /\ Form(t[k], rows[from[k]])
    BY <2>10, <2>4, <2>8, <2>9, <1>5
  <2>11. ASSUME NEW k \in 1 .. Len(t), NEW l \in 1 .. Len(t), k < l, from[k] # 0, from[l] # 0
         PROVE  from[k] < from[l]
    <3>1. src[k] < src[l]
      BY <2>3, <2>8, <2>11 DEF JoinedFrom
    <3>2. src[k] \in 1 .. Len(s) /\ src[l] \in 1 .. Len(s)
      BY <2>4, <2>8, <2>11
    <3> QED BY <3>1, <3>2, <2>8, <2>11, <1>2
  <2>12. TakenFrom(t, rows, from)
    BY <2>7, <2>8, <2>9, <2>10, <2>11 DEF TakenFrom
  <2> QED BY <2>2, <2>12, <1>7 DEF t, c
<1> QED BY <1>6, <1>7, CompactIs

-----------------------------------------------------------------------------
(* The invariant: the rows of the chat, and the turn in progress. *)

Ofs(rows) == {r.of : r \in Range(rows)}

\* Only batches have calls, which bear the id of their batch; only results answer one.
Shape(r) ==
  /\ r.role # "assistant" => r.calls = <<>>
  /\ r.role # "tool" => r.of = NoCall
  /\ r.role = "ui" => r.says = {}
  /\ \A c \in Calls(r) : c[1] = r.id

ChatInv(shown, hidden, links, cards) ==
  /\ shown \in Seq(RowType) /\ hidden \in Seq(RowType)
  /\ Ids(shown) \cup Ids(hidden) = 1 .. Len(shown) + Len(hidden)
  /\ links \in [Ids(hidden) -> 1 .. Len(shown) + Len(hidden)]
  /\ \A i \in 1 .. Len(hidden) :
       links[hidden[i].id] \in Ids(shown) \cup {hidden[j].id : j \in i + 1 .. Len(hidden)}
  /\ cards \subseteq Ofs(shown) \cup Ofs(hidden)
  /\ \A r \in Range(shown) \cup Range(hidden) : Shape(r) /\ r.of[1] <= Len(shown) + Len(hidden)

\* The calls that have no row yet are of a batch that has one.
TodoInv(calls, shown, hidden) ==
  /\ calls \in Seq(CallType)
  /\ \A i \in 1 .. Len(calls) : /\ calls[i].n[1] \in 1 .. Len(shown) + Len(hidden)
                                /\ calls[i].n \notin Ofs(shown) \cup Ofs(hidden)
  /\ \A i, j \in 1 .. Len(calls) : calls[i].n = calls[j].n => i = j

TurnInv ==
  /\ history \in Seq(RowType) /\ \A r \in Range(history) : Shape(r)
  /\ turn \in {"idle", "ask", "tools"}
  /\ (turn = "tools") = (todo # <<>>) /\ (turn = "idle" => history = <<>>)

IInv ==
  /\ ChatInv(active, archived, link, open)
  /\ TodoInv(todo, active, archived)
  /\ TurnInv
  /\ presses \in 0 .. MaxPresses /\ notices \in 0 .. MaxNotices

\* What there is in a sequence of rows.
LEMMA RangeIs ==
  ASSUME NEW S, NEW s \in Seq(S)
  PROVE  /\ Range(s) = {s[i] : i \in 1 .. Len(s)} /\ Range(s) \subseteq S
         /\ Ids(s) = {s[i].id : i \in 1 .. Len(s)} /\ Ofs(s) = {s[i].of : i \in 1 .. Len(s)}
<1>1. DOMAIN s = 1 .. Len(s)
  BY LenProperties
<1>2. Range(s) = {s[i] : i \in 1 .. Len(s)}
  BY <1>1 DEF Range
<1>3. Range(s) \subseteq S
  BY <1>2, ElementOfSeq
<1> QED BY <1>2, <1>3 DEF Ids, Ofs

\* What there is in two sequences, one after the other.
LEMMA ConcatIs ==
  ASSUME NEW S, NEW s \in Seq(S), NEW t \in Seq(S)
  PROVE  /\ Range(s \o t) = Range(s) \cup Range(t)
         /\ Ids(s \o t) = Ids(s) \cup Ids(t) /\ Ofs(s \o t) = Ofs(s) \cup Ofs(t)
         /\ s \o t \in Seq(S) /\ Len(s \o t) = Len(s) + Len(t)
<1>1. /\ s \o t \in Seq(S) /\ Len(s \o t) = Len(s) + Len(t)
      /\ \A i \in 1 .. Len(s) + Len(t) : (s \o t)[i] = IF i <= Len(s) THEN s[i] ELSE t[i - Len(s)]
  BY ConcatProperties
<1>2. Len(s) \in Nat /\ Len(t) \in Nat
  BY LenProperties
<1> DEFINE c == s \o t
<1>6. c \in Seq(S)
  BY <1>1
<1> HIDE DEF c
<1>c. \A i \in 1 .. Len(c) : c[i] \in Range(c)
  BY <1>6, RangeIs
<1>3. ASSUME NEW i \in 1 .. Len(c) PROVE c[i] \in Range(s) \cup Range(t)
  <2>1. i \in 1 .. Len(s) + Len(t)
    BY <1>1 DEF c
  <2>2. CASE i <= Len(s)
    <3>1. i \in 1 .. Len(s) /\ c[i] = s[i]
      BY <2>1, <2>2, <1>1, <1>2 DEF c
    <3> QED BY <3>1, RangeIs
  <2>3. CASE i > Len(s)
    <3>1. i - Len(s) \in 1 .. Len(t) /\ c[i] = t[i - Len(s)]
      BY <2>1, <2>3, <1>1, <1>2 DEF c
    <3> QED BY <3>1, RangeIs
  <2> QED BY <2>1, <2>2, <2>3, <1>2
<1>4. ASSUME NEW i \in 1 .. Len(s) PROVE s[i] \in Range(c)
  <2>1. i \in 1 .. Len(s) + Len(t) /\ i <= Len(s)
    BY <1>2
  <2>2. c[i] = s[i] /\ i \in 1 .. Len(c)
    BY <2>1, <1>1 DEF c
  <2>3. c[i] \in Range(c)
    BY <2>2, <1>c
  <2> QED BY <2>2, <2>3
<1>5. ASSUME NEW i \in 1 .. Len(t) PROVE t[i] \in Range(c)
  <2>1. Len(s) + i \in 1 .. Len(s) + Len(t) /\ ~ (Len(s) + i <= Len(s)) /\ (Len(s) + i) - Len(s) = i
    BY <1>2
  <2>2. c[Len(s) + i] = t[i] /\ Len(s) + i \in 1 .. Len(c)
    BY <2>1, <1>1 DEF c
  <2>3. c[Len(s) + i] \in Range(c)
    BY <2>2, <1>c
  <2> QED BY <2>2, <2>3
<1>7. Range(c) \subseteq Range(s) \cup Range(t)
  BY <1>3, <1>6, RangeIs
<1>8. Range(s) \subseteq Range(c) /\ Range(t) \subseteq Range(c)
  BY <1>4, <1>5, RangeIs
<1>9. Range(c) = Range(s) \cup Range(t)
  BY <1>7, <1>8
<1> QED BY <1>1, <1>9 DEF c, Ids, Ofs

\* One more row.
LEMMA AppendIs ==
  ASSUME NEW S, NEW s \in Seq(S), NEW r \in S
  PROVE  /\ Append(s, r) \in Seq(S) /\ Len(Append(s, r)) = Len(s) + 1
         /\ Range(Append(s, r)) = Range(s) \cup {r}
         /\ Ids(Append(s, r)) = Ids(s) \cup {r.id} /\ Ofs(Append(s, r)) = Ofs(s) \cup {r.of}
<1>1. Append(s, r) = s \o <<r>>
  BY AppendIsConcat
<1>2. <<r>> \in Seq(S) /\ Len(<<r>>) = 1 /\ <<r>>[1] = r
  OBVIOUS
<1>3. Range(<<r>>) = {r}
  BY DEF Range
<1>4. Ids(<<r>>) = {r.id} /\ Ofs(<<r>>) = {r.of}
  BY <1>3 DEF Ids, Ofs
<1> DEFINE one == <<r>>
<1> HIDE DEF one
<1>5. /\ Range(s \o one) = Range(s) \cup Range(one)
      /\ Ids(s \o one) = Ids(s) \cup Ids(one) /\ Ofs(s \o one) = Ofs(s) \cup Ofs(one)
      /\ s \o one \in Seq(S) /\ Len(s \o one) = Len(s) + Len(one)
  BY <1>2, ConcatIs DEF one
<1> QED BY <1>1, <1>2, <1>3, <1>4, <1>5 DEF one

\* In two sequences of rows whose ids are the numbers up to their length, each row
\* has an id of its own.
LEMMA OwnIds ==
  ASSUME NEW s \in Seq(RowType), NEW t \in Seq(RowType), Ids(s) \cup Ids(t) = 1 .. Len(s) + Len(t)
  PROVE  /\ \A i, j \in 1 .. Len(s) : s[i].id = s[j].id => i = j
         /\ \A i, j \in 1 .. Len(t) : t[i].id = t[j].id => i = j
         /\ Ids(s) \cap Ids(t) = {}
<1> DEFINE c == s \o t
           n == Len(s) + Len(t)
           f == [i \in 1 .. n |-> c[i].id]
<1>1. Len(s) \in Nat /\ Len(t) \in Nat /\ n \in Nat
  BY LenProperties
<1>2. /\ c \in Seq(RowType) /\ Len(c) = n
      /\ \A i \in 1 .. n : c[i] = IF i <= Len(s) THEN s[i] ELSE t[i - Len(s)]
  BY ConcatProperties
<1>3. Ids(c) = 1 .. n
  <2>1. Ids(s \o t) = Ids(s) \cup Ids(t)
    BY ConcatIs
  <2> QED BY <2>1
<1> HIDE DEF c, n
<1>4. Ids(c) = {c[i].id : i \in 1 .. n}
  BY <1>2, RangeIs
<1>5. f \in Surjection(1 .. n, 1 .. n)
  <2>1. \A i \in 1 .. n : c[i].id \in 1 .. n
    BY <1>3, <1>4
  <2>2. f \in [1 .. n -> 1 .. n]
    BY <2>1
  <2>3. ASSUME NEW x \in 1 .. n PROVE \E i \in 1 .. n : f[i] = x
    <3>1. PICK i \in 1 .. n : c[i].id = x
      BY <1>3, <1>4
    <3> QED BY <3>1
  <2> HIDE DEF f
  <2> QED BY <2>2, <2>3 DEF Surjection
<1>6. IsFiniteSet(1 .. n)
  BY <1>1, FS_Interval
<1>7. f \in Injection(1 .. n, 1 .. n)
  <2> HIDE DEF f
  <2> QED BY <1>5, <1>6, FS_SurjSameCardinalityImpliesInj
<1>8. \A i, j \in 1 .. n : f[i] = f[j] => i = j
  <2> HIDE DEF f
  <2> QED BY <1>7 DEF Injection, IsInjective
<1>9. \A i, j \in 1 .. n : c[i].id = c[j].id => i = j
  BY <1>8
<1>10. ASSUME NEW i \in 1 .. Len(s) PROVE i \in 1 .. n /\ c[i] = s[i]
  <2>1. i \in 1 .. n /\ i <= Len(s)
    BY <1>1 DEF n
  <2> QED BY <2>1, <1>2
<1>11. ASSUME NEW i \in 1 .. Len(t) PROVE Len(s) + i \in 1 .. n /\ c[Len(s) + i] = t[i]
  <2>1. Len(s) + i \in 1 .. n /\ ~ (Len(s) + i <= Len(s)) /\ (Len(s) + i) - Len(s) = i
    BY <1>1 DEF n
  <2> QED BY <2>1, <1>2
<1>12. ASSUME NEW i \in 1 .. Len(s), NEW j \in 1 .. Len(s), s[i].id = s[j].id PROVE i = j
  BY <1>9, <1>10, <1>12
<1>13. ASSUME NEW i \in 1 .. Len(t), NEW j \in 1 .. Len(t), t[i].id = t[j].id PROVE i = j
  <2>1. Len(s) + i \in 1 .. n /\ Len(s) + j \in 1 .. n /\ c[Len(s) + i].id = c[Len(s) + j].id
    BY <1>11, <1>13
  <2>2. Len(s) + i = Len(s) + j
    BY ONLY <2>1, <1>9
  <2> QED BY <2>2, <1>1
<1>14. ASSUME NEW i \in 1 .. Len(s), NEW j \in 1 .. Len(t), s[i].id = t[j].id PROVE FALSE
  <2>1. i = Len(s) + j
    BY <1>9, <1>10, <1>11, <1>14
  <2> QED BY <2>1, <1>1
<1>15. Ids(s) = {s[i].id : i \in 1 .. Len(s)} /\ Ids(t) = {t[i].id : i \in 1 .. Len(t)}
  BY RangeIs
<1> QED BY <1>12, <1>13, <1>14, <1>15

\* Conversely, own ids that are the numbers up to n are those up to the length.
LEMMA AsManyAsIds ==
  ASSUME NEW s \in Seq(RowType), NEW t \in Seq(RowType), NEW n \in Nat, Ids(s) \cup Ids(t) = 1 .. n,
         \A i, j \in 1 .. Len(s) : s[i].id = s[j].id => i = j,
         \A i, j \in 1 .. Len(t) : t[i].id = t[j].id => i = j,
         Ids(s) \cap Ids(t) = {}
  PROVE  n = Len(s) + Len(t)
<1>1. Len(s) \in Nat /\ Len(t) \in Nat
  BY LenProperties
<1> DEFINE N == Len(s) + Len(t)
           f == [i \in 1 .. N |-> IF i <= Len(s) THEN s[i].id ELSE t[i - Len(s)].id]
<1>2. Ids(s) = {s[i].id : i \in 1 .. Len(s)} /\ Ids(t) = {t[i].id : i \in 1 .. Len(t)}
  BY RangeIs
<1>3. ASSUME NEW i \in 1 .. N
      PROVE  \/ i \in 1 .. Len(s) /\ f[i] = s[i].id
             \/ i \notin 1 .. Len(s) /\ i - Len(s) \in 1 .. Len(t) /\ f[i] = t[i - Len(s)].id
  BY <1>1
<1>4. ASSUME NEW i \in 1 .. Len(s) PROVE i \in 1 .. N /\ f[i] = s[i].id
  BY <1>1
<1>5. ASSUME NEW i \in 1 .. Len(t) PROVE Len(s) + i \in 1 .. N /\ f[Len(s) + i] = t[i].id
  BY <1>1
<1>6. N \in Nat /\ DOMAIN f = 1 .. N /\ f \in [1 .. N -> {f[i] : i \in 1 .. N}]
  BY <1>1
<1> HIDE DEF f
<1>s. \A i \in 1 .. Len(s) : s[i].id \in Ids(s) /\ s[i].id \in 1 .. n
  BY <1>2
<1>t. \A i \in 1 .. Len(t) : t[i].id \in Ids(t) /\ t[i].id \in 1 .. n
  BY <1>2
<1>st. \A i \in 1 .. Len(s), j \in 1 .. Len(t) : s[i].id # t[j].id
  BY <1>s, <1>t
<1>7. ASSUME NEW i \in 1 .. N PROVE f[i] \in 1 .. n
  BY <1>s, <1>t, <1>3
<1>8. f \in [1 .. N -> 1 .. n]
  BY <1>6, <1>7
<1>9. ASSUME NEW x \in 1 .. n PROVE \E i \in 1 .. N : f[i] = x
  <2>1. x \in Ids(s) \/ x \in Ids(t)
    OBVIOUS
  <2>2. CASE x \in Ids(s)
    <3>1. PICK i \in 1 .. Len(s) : x = s[i].id
      BY <2>2, <1>2
    <3> QED BY <3>1, <1>4
  <2>3. CASE x \in Ids(t)
    <3>1. PICK i \in 1 .. Len(t) : x = t[i].id
      BY <2>3, <1>2
    <3> QED BY <3>1, <1>5
  <2> QED BY <2>1, <2>2, <2>3
<1>10. ASSUME NEW i \in 1 .. N, NEW j \in 1 .. N, f[i] = f[j] PROVE i = j
  <2>1. CASE i \in 1 .. Len(s) /\ f[i] = s[i].id /\ j \in 1 .. Len(s) /\ f[j] = s[j].id
    BY <2>1, <1>10
  <2>2. CASE /\ i - Len(s) \in 1 .. Len(t) /\ f[i] = t[i - Len(s)].id
             /\ j - Len(s) \in 1 .. Len(t) /\ f[j] = t[j - Len(s)].id
    <3>1. i - Len(s) = j - Len(s)
      BY <2>2, <1>10
    <3> QED BY <3>1, <1>1
  <2>3. CASE /\ i - Len(s) \in 1 .. Len(t) /\ f[i] = t[i - Len(s)].id
             /\ j \in 1 .. Len(s) /\ f[j] = s[j].id
    BY <2>3, <1>st, <1>10
  <2>4. CASE /\ j - Len(s) \in 1 .. Len(t) /\ f[j] = t[j - Len(s)].id
             /\ i \in 1 .. Len(s) /\ f[i] = s[i].id
    BY <2>4, <1>st, <1>10
  <2> QED BY <2>1, <2>2, <2>3, <2>4, <1>3
<1>11. f \in Bijection(1 .. N, 1 .. n)
  <2>1. f \in Injection(1 .. N, 1 .. n)
    BY <1>8, <1>10 DEF Injection, IsInjective
  <2>2. f \in Surjection(1 .. N, 1 .. n)
    BY <1>8, <1>9 DEF Surjection
  <2> QED BY <2>1, <2>2 DEF Bijection
<1>12. ExistsBijection(1 .. N, 1 .. n)
  BY <1>11 DEF ExistsBijection
<1>13. /\ IsFiniteSet(1 .. N) /\ Cardinality(1 .. N) = (IF 1 > N THEN 0 ELSE N - 1 + 1)
       /\ Cardinality(1 .. n) = (IF 1 > n THEN 0 ELSE n - 1 + 1)
  <2>1. N \in Int /\ n \in Int /\ 1 \in Int
    BY <1>6
  <2> HIDE DEF N
  <2> QED BY <2>1, FS_Interval
<1>14. Cardinality(1 .. n) = Cardinality(1 .. N)
  BY <1>12, <1>13, FS_Bijection
<1> HIDE DEF N
<1>15. n = N
  BY <1>6, <1>13, <1>14
<1> QED BY <1>15 DEF N

-----------------------------------------------------------------------------
(* Rows are added and rewritten. *)

Texts == {"plain", "long", "cut", "parked", "decided", "summary"}

\* The rows that actions make.
LEMMA NewRows ==
  ASSUME NEW id \in Nat \ {0}, NEW text \in Texts
  PROVE  /\ \A role \in {"user", "assistant", "tool", "ui"} :
              LET r == Row(id, role, text)
              IN r \in RowType /\ Shape(r) /\ r.id = id /\ r.role = role /\ r.of = NoCall /\ Calls(r) = {}
                 /\ r.calls = <<>> /\ r.says = {} /\ r.text = text
         /\ NoCall \in Nat \X Nat /\ NoCall[1] = 0
<1>1. NoCall \in Nat \X Nat /\ NoCall[1] = 0
  BY DEF NoCall
<1>2. ASSUME NEW role \in {"user", "assistant", "tool", "ui"}
      PROVE  LET r == Row(id, role, text)
             IN r \in RowType /\ Shape(r) /\ r.id = id /\ r.role = role /\ r.of = NoCall /\ Calls(r) = {}
                /\ r.calls = <<>> /\ r.says = {} /\ r.text = text
  <2> DEFINE r == Row(id, role, text)
  <2>1. r = [id |-> id, role |-> role, calls |-> <<>>, of |-> NoCall, text |-> text, says |-> {}]
    BY DEF Row
  <2>2. <<>> \in Seq(CallType) /\ DOMAIN <<>> = {}
    BY EmptySeq
  <2>3. r \in RowType
    BY <2>1, <2>2, <1>1 DEF RowType, Texts
  <2>4. r.id = id /\ r.role = role /\ r.of = NoCall /\ r.calls = <<>> /\ r.says = {} /\ r.text = text
    BY <2>1
  <2> HIDE DEF r
  <2>5. Calls(r) = {}
    BY <2>2, <2>4 DEF Calls, Range
  <2>6. Shape(r)
    BY <2>4, <2>5 DEF Shape
  <2> QED BY <2>3, <2>4, <2>5, <2>6 DEF r
<1> QED BY <1>1, <1>2

\* The rows of the chat, their number and the next id.
LEMMA StoredIs ==
  ASSUME NEW shown \in Seq(RowType), NEW hidden \in Seq(RowType)
  PROVE  /\ Range(shown \o hidden) = Range(shown) \cup Range(hidden)
         /\ Len(shown \o hidden) = Len(shown) + Len(hidden)
         /\ Len(shown) + Len(hidden) \in Nat
         /\ Ids(shown \o hidden) = Ids(shown) \cup Ids(hidden)
         /\ Ofs(shown \o hidden) = Ofs(shown) \cup Ofs(hidden)
BY ConcatIs, LenProperties

\* Rows with the next ids are added to the chat.
LEMMA GrownInv ==
  ASSUME NEW shown, NEW hidden, NEW links, NEW cards, ChatInv(shown, hidden, links, cards),
         NEW new \in Seq(RowType), NEW more,
         Ids(new) = Len(shown) + Len(hidden) + 1 .. Len(shown) + Len(hidden) + Len(new),
         \A r \in Range(new) : Shape(r) /\ r.of[1] <= Len(shown) + Len(hidden) + Len(new),
         more \subseteq cards \cup Ofs(new)
  PROVE  ChatInv(shown \o new, hidden, links, more)
<1>1. shown \in Seq(RowType) /\ hidden \in Seq(RowType)
  BY DEF ChatInv
<1> DEFINE n == Len(shown) + Len(hidden)
           grown == shown \o new
<1>2. Len(new) \in Nat /\ Len(shown) \in Nat /\ Len(hidden) \in Nat
  BY <1>1, LenProperties
<1>3. /\ grown \in Seq(RowType) /\ Len(grown) = Len(shown) + Len(new)
      /\ Range(grown) = Range(shown) \cup Range(new)
      /\ Ids(grown) = Ids(shown) \cup Ids(new) /\ Ofs(grown) = Ofs(shown) \cup Ofs(new)
  BY <1>1, ConcatIs
<1> HIDE DEF grown
<1>4. Len(grown) + Len(hidden) = n + Len(new)
  BY <1>2, <1>3
<1>5. Ids(grown) \cup Ids(hidden) = 1 .. n + Len(new)
  <2>1. Ids(shown) \cup Ids(hidden) = 1 .. n
    BY DEF ChatInv
  <2>2. (1 .. n) \cup (n + 1 .. n + Len(new)) = 1 .. n + Len(new)
    BY <1>2
  <2> QED BY <2>1, <2>2, <1>3
<1>6. links \in [Ids(hidden) -> 1 .. n + Len(new)]
  <2>1. links \in [Ids(hidden) -> 1 .. n] /\ 1 .. n \subseteq 1 .. n + Len(new)
    BY <1>2 DEF ChatInv
  <2> HIDE DEF n
  <2> QED BY <2>1
<1>7. \A i \in 1 .. Len(hidden) :
        links[hidden[i].id] \in Ids(grown) \cup {hidden[j].id : j \in i + 1 .. Len(hidden)}
  BY <1>3 DEF ChatInv
<1>8. more \subseteq Ofs(grown) \cup Ofs(hidden)
  BY <1>3 DEF ChatInv
<1>9. \A r \in Range(grown) \cup Range(hidden) : Shape(r) /\ r.of[1] <= n + Len(new)
  <2>1. ASSUME NEW r \in Range(shown) \cup Range(hidden) PROVE Shape(r) /\ r.of[1] <= n + Len(new)
    <3>1. Shape(r) /\ r.of[1] <= n
      BY DEF ChatInv
    <3>2. r \in RowType
      BY <1>1, RangeIs
    <3>3. r.of[1] \in Nat
      BY <3>2 DEF RowType
    <3> QED BY <3>1, <3>3, <1>2
  <2> QED BY <2>1, <1>3
<1>10. ChatInv(grown, hidden, links, more)
  BY <1>1, <1>3, <1>4, <1>5, <1>6, <1>7, <1>8, <1>9 DEF ChatInv
<1> QED BY <1>10 DEF grown

\* One row with the next id.
LEMMA AppendedInv ==
  ASSUME NEW shown, NEW hidden, NEW links, NEW cards, ChatInv(shown, hidden, links, cards),
         NEW r \in RowType, NEW more, r.id = Len(shown) + Len(hidden) + 1,
         Shape(r), r.of[1] <= Len(shown) + Len(hidden) + 1, more \subseteq cards \cup {r.of}
  PROVE  ChatInv(Append(shown, r), hidden, links, more)
<1> DEFINE one == <<r>>
<1>1. shown \in Seq(RowType) /\ hidden \in Seq(RowType)
  BY DEF ChatInv
<1>2. one \in Seq(RowType) /\ Len(one) = 1
  OBVIOUS
<1>3. Range(one) = {r}
  BY DEF Range
<1>4. Ids(one) = {r.id} /\ Ofs(one) = {r.of}
  BY <1>3 DEF Ids, Ofs
<1>5. Len(shown) + Len(hidden) \in Nat
  BY <1>1, LenProperties
<1>6. Append(shown, r) = shown \o one
  BY <1>1, AppendIsConcat
<1> HIDE DEF one
<1>7. Ids(one) = Len(shown) + Len(hidden) + 1 .. Len(shown) + Len(hidden) + Len(one)
  BY <1>2, <1>4, <1>5
<1>8. \A x \in Range(one) : Shape(x) /\ x.of[1] <= Len(shown) + Len(hidden) + Len(one)
  BY <1>2, <1>3
<1>9. more \subseteq cards \cup Ofs(one)
  BY <1>4
<1>10. ChatInv(shown \o one, hidden, links, more)
  BY <1>2, <1>7, <1>8, <1>9, GrownInv
<1> QED BY <1>6, <1>10

\* Rewriting changes the text of a row of the call.
LEMMA RewrittenIs ==
  ASSUME NEW rows \in Seq(RowType), NEW c, Has(rows, c), NEW text \in Texts
  PROVE  LET w == Rewritten(rows, c, text)
         IN /\ w \in Seq(RowType) /\ Len(w) = Len(rows)
            /\ \E x \in 1 .. Len(rows) :
                 /\ rows[x].of = c /\ w[x] = [rows[x] EXCEPT !.text = text]
                 /\ \A i \in 1 .. Len(rows) : i # x => w[i] = rows[i]
            /\ \A i \in 1 .. Len(rows) :
                 w[i].id = rows[i].id /\ w[i].role = rows[i].role /\ w[i].calls = rows[i].calls
                 /\ w[i].of = rows[i].of /\ w[i].says = rows[i].says
            /\ Ids(w) = Ids(rows) /\ Ofs(w) = Ofs(rows)
<1> DEFINE P == {i \in DOMAIN rows : rows[i].of = c}
           x == Max(P)
           w == Rewritten(rows, c, text)
<1>1. Len(rows) \in Nat /\ DOMAIN rows = 1 .. Len(rows)
  BY LenProperties
<1>2. P \in SUBSET (0 .. Len(rows)) /\ P # {}
  BY <1>1 DEF Has
<1>3. x \in P
  <2> HIDE DEF P
  <2> QED BY <1>1, <1>2, MaxIn
<1>4. x \in 1 .. Len(rows) /\ rows[x].of = c
  BY <1>1, <1>3
<1>5. w = [rows EXCEPT ![x].text = text]
  BY DEF Rewritten
<1> HIDE DEF x, w, P
<1>6. \A i \in 1 .. Len(rows) : rows[i] \in RowType
  BY ElementOfSeq
<1> DEFINE e == [rows[x] EXCEPT !.text = text]
<1>7. e \in RowType /\ e.id = rows[x].id /\ e.role = rows[x].role /\ e.calls = rows[x].calls
      /\ e.of = rows[x].of /\ e.says = rows[x].says
  <2>1. rows[x] \in RowType
    BY <1>4, <1>6
  <2> QED BY <2>1 DEF RowType, Texts
<1>8. w = [rows EXCEPT ![x] = e]
  BY <1>5
<1> HIDE DEF e
<1>9. w \in Seq(RowType) /\ Len(w) = Len(rows)
      /\ \A i \in 1 .. Len(rows) : w[i] = IF i = x THEN e ELSE rows[i]
  BY <1>4, <1>7, <1>8, ExceptSeq
<1>10. \A i \in 1 .. Len(rows) :
         w[i].id = rows[i].id /\ w[i].role = rows[i].role /\ w[i].calls = rows[i].calls
         /\ w[i].of = rows[i].of /\ w[i].says = rows[i].says
  BY <1>7, <1>9
<1>11. Ids(w) = {w[i].id : i \in 1 .. Len(rows)} /\ Ofs(w) = {w[i].of : i \in 1 .. Len(rows)}
  BY <1>9, RangeIs
<1>12. Ids(rows) = {rows[i].id : i \in 1 .. Len(rows)} /\ Ofs(rows) = {rows[i].of : i \in 1 .. Len(rows)}
  BY RangeIs
<1>13. Ids(w) = Ids(rows) /\ Ofs(w) = Ofs(rows)
  BY <1>10, <1>11, <1>12
<1>14. w[x] = [rows[x] EXCEPT !.text = text] /\ \A i \in 1 .. Len(rows) : i # x => w[i] = rows[i]
  BY <1>4, <1>9 DEF e
<1>15. \E y \in 1 .. Len(rows) :
         /\ rows[y].of = c /\ w[y] = [rows[y] EXCEPT !.text = text]
         /\ \A i \in 1 .. Len(rows) : i # y => w[i] = rows[i]
  BY <1>4, <1>14
<1> QED BY <1>9, <1>10, <1>13, <1>15 DEF w

\* Each row of the rewritten ones has the shape of the row it was.
LEMMA RewrittenShape ==
  ASSUME NEW rows \in Seq(RowType), NEW c, Has(rows, c), NEW text \in Texts, NEW n,
         \A r \in Range(rows) : Shape(r) /\ r.of[1] <= n
  PROVE  \A r \in Range(Rewritten(rows, c, text)) : Shape(r) /\ r.of[1] <= n
<1> DEFINE w == Rewritten(rows, c, text)
<1>1. /\ w \in Seq(RowType) /\ Len(w) = Len(rows)
      /\ \A i \in 1 .. Len(rows) :
           w[i].id = rows[i].id /\ w[i].role = rows[i].role /\ w[i].calls = rows[i].calls
           /\ w[i].of = rows[i].of /\ w[i].says = rows[i].says
  BY RewrittenIs
<1> HIDE DEF w
<1>2. Range(w) = {w[i] : i \in 1 .. Len(rows)}
  BY <1>1, RangeIs
<1>3. \A i \in 1 .. Len(rows) : rows[i] \in Range(rows)
  BY RangeIs
<1>4. ASSUME NEW i \in 1 .. Len(rows) PROVE Shape(w[i]) /\ w[i].of[1] <= n
  <2>1. Shape(rows[i]) /\ rows[i].of[1] <= n
    BY <1>3
  <2>2. Calls(w[i]) = Calls(rows[i])
    BY <1>1 DEF Calls
  <2> QED BY <2>1, <2>2, <1>1 DEF Shape
<1> QED BY <1>2, <1>4 DEF w

\* A row of the chat is rewritten.
LEMMA ShownRewrittenInv ==
  ASSUME NEW shown, NEW hidden, NEW links, NEW cards, ChatInv(shown, hidden, links, cards),
         NEW c, Has(shown, c), NEW text \in Texts, NEW fewer \in SUBSET cards
  PROVE  ChatInv(Rewritten(shown, c, text), hidden, links, fewer)
<1> DEFINE w == Rewritten(shown, c, text)
<1>1. shown \in Seq(RowType)
  BY DEF ChatInv
<1>2. /\ w \in Seq(RowType) /\ Len(w) = Len(shown) /\ Ids(w) = Ids(shown) /\ Ofs(w) = Ofs(shown)
  BY <1>1, RewrittenIs
<1>3. \A r \in Range(w) : Shape(r) /\ r.of[1] <= Len(shown) + Len(hidden)
  BY <1>1, RewrittenShape DEF ChatInv
<1> HIDE DEF w
<1>4. ChatInv(w, hidden, links, fewer)
  BY <1>2, <1>3 DEF ChatInv
<1> QED BY <1>4 DEF w

\* An archived row is rewritten.
LEMMA HiddenRewrittenInv ==
  ASSUME NEW shown, NEW hidden, NEW links, NEW cards, ChatInv(shown, hidden, links, cards),
         NEW c, Has(hidden, c), NEW text \in Texts, NEW fewer \in SUBSET cards
  PROVE  ChatInv(shown, Rewritten(hidden, c, text), links, fewer)
<1> DEFINE w == Rewritten(hidden, c, text)
<1>1. hidden \in Seq(RowType) /\ shown \in Seq(RowType)
  BY DEF ChatInv
<1>2. /\ w \in Seq(RowType) /\ Len(w) = Len(hidden) /\ Ids(w) = Ids(hidden) /\ Ofs(w) = Ofs(hidden)
      /\ \A i \in 1 .. Len(hidden) : w[i].id = hidden[i].id
  BY <1>1, RewrittenIs
<1>3. \A r \in Range(w) : Shape(r) /\ r.of[1] <= Len(shown) + Len(hidden)
  BY <1>1, RewrittenShape DEF ChatInv
<1> HIDE DEF w
<1>4. ASSUME NEW i \in 1 .. Len(w)
      PROVE  links[w[i].id] \in Ids(shown) \cup {w[j].id : j \in i + 1 .. Len(w)}
  <2>1. links[hidden[i].id] \in Ids(shown) \cup {hidden[j].id : j \in i + 1 .. Len(hidden)}
    BY <1>2 DEF ChatInv
  <2>2. Len(hidden) \in Nat
    BY <1>1, LenProperties
  <2>3. \A j \in i + 1 .. Len(hidden) : j \in 1 .. Len(hidden) /\ w[j].id = hidden[j].id
    BY <1>2, <2>2
  <2> QED BY <2>1, <2>3, <1>2
<1>5. ChatInv(shown, w, links, fewer)
  BY <1>2, <1>3, <1>4 DEF ChatInv
<1> QED BY <1>5 DEF w

-----------------------------------------------------------------------------
(* The Compact button replaces the rows of the chat. *)

\* The places of the rows without an id, before i.
Nameless(rows, i) == {j \in 1 .. i - 1 : rows[j].id = 0}

LEMMA NamelessIs ==
  ASSUME NEW rows \in Rows
  PROVE  LET z == Cardinality(Nameless(rows, Len(rows) + 1)) IN
         /\ z \in Nat
         /\ \A i \in 1 .. Len(rows) :
              /\ Cardinality(Nameless(rows, i)) \in Nat
              /\ rows[i].id = 0 => Cardinality(Nameless(rows, i)) < z
         /\ \A i, j \in 1 .. Len(rows) : i < j /\ rows[i].id = 0 =>
              Cardinality(Nameless(rows, i)) < Cardinality(Nameless(rows, j))
         /\ \A x \in 0 .. z - 1 : \E i \in 1 .. Len(rows) :
              rows[i].id = 0 /\ Cardinality(Nameless(rows, i)) = x
<1> DEFINE n == Len(rows)
           C(i) == Cardinality(Nameless(rows, i))
<1>1. n \in Nat
  BY LenProperties DEF Rows
<1>2. ASSUME NEW i \in 1 .. n + 1
      PROVE  IsFiniteSet(Nameless(rows, i)) /\ C(i) \in Nat
  <2>0. 1 \in Int /\ n \in Int
    BY <1>1
  <2>1. IsFiniteSet(1 .. n) /\ Nameless(rows, i) \in SUBSET (1 .. n)
    <3> HIDE DEF n
    <3>1. IsFiniteSet(1 .. n)
      BY <2>0, FS_Interval
    <3>2. Nameless(rows, i) \in SUBSET (1 .. n)
      BY <1>1 DEF Nameless
    <3> QED BY <3>1, <3>2
  <2>2. IsFiniteSet(Nameless(rows, i))
    BY <2>1, FS_Subset
  <2> QED BY <2>2, FS_CardinalityType
<1>3. ASSUME NEW i \in 1 .. n + 1, NEW j \in 1 .. n + 1, i < j, rows[i].id = 0
      PROVE  C(i) < C(j)
  <2>1. Nameless(rows, i) \in SUBSET Nameless(rows, j)
    BY <1>1, <1>3 DEF Nameless
  <2>2. i \in Nameless(rows, j) /\ i \notin Nameless(rows, i)
    BY <1>1, <1>3 DEF Nameless
  <2>3. C(i) <= C(j) /\ (C(j) = C(i) => Nameless(rows, j) = Nameless(rows, i))
    BY <2>1, <1>2, FS_Subset
  <2>4. C(i) # C(j)
    BY <2>2, <2>3
  <2> QED BY <2>3, <2>4, <1>2
<1>4. ASSUME NEW i \in 1 .. n
      PROVE  C(i + 1) = IF rows[i].id = 0 THEN C(i) + 1 ELSE C(i)
  <2>1. Nameless(rows, i + 1) = IF rows[i].id = 0 THEN Nameless(rows, i) \cup {i} ELSE Nameless(rows, i)
    <3>1. i \in 1 .. (i + 1) - 1 /\ \A j : j \in 1 .. (i + 1) - 1 <=> j \in 1 .. i - 1 \/ j = i
      BY <1>1
    <3> QED BY <3>1 DEF Nameless
  <2>2. i \notin Nameless(rows, i)
    BY <1>1 DEF Nameless
  <2>3. IsFiniteSet(Nameless(rows, i))
    BY <1>1, <1>2
  <2>4. Cardinality(Nameless(rows, i) \cup {i}) = C(i) + 1
    BY <2>2, <2>3, FS_AddElement
  <2> QED BY <2>1, <2>4
<1>5. C(1) = 0
  <2>1. Nameless(rows, 1) = {}
    BY DEF Nameless
  <2> QED BY <2>1, FS_EmptySet
<1> DEFINE z == C(n + 1)
<1>6. n + 1 \in 1 .. n + 1 /\ \A i \in 1 .. n : i \in 1 .. n + 1 /\ i < n + 1 /\ i + 1 \in 1 .. n + 1
  BY <1>1
<1>7. z \in Nat /\ \A i \in 1 .. n : C(i) \in Nat
  <2> HIDE DEF C
  <2> QED BY <1>2, <1>6
<1>8. ASSUME NEW x \in 0 .. z - 1
      PROVE  \E i \in 1 .. n : rows[i].id = 0 /\ C(i) = x
  <2> HIDE DEF C
  <2> DEFINE T == {i \in 1 .. n + 1 : C(i) > x}
  <2>1. T \in SUBSET Nat /\ n + 1 \in T
    BY <1>6, <1>7
  <2>2. PICK i \in T : \A j \in T : i <= j
    <3> HIDE DEF T
    <3> QED BY <2>1, LeastNat
  <2>3. i \in 1 .. n + 1 /\ C(i) > x
    BY <2>2
  <2>4. i # 1
    BY <2>3, <1>5
  <2>5. i - 1 \in 1 .. n /\ (i - 1) + 1 = i /\ i - 1 \in 1 .. n + 1 /\ ~ (i <= i - 1)
    BY <2>3, <2>4, <1>1
  <2>6. i - 1 \notin T
    <3> HIDE DEF T
    <3> QED BY <2>2, <2>5
  <2>7. ~ (C(i - 1) > x) /\ C(i - 1) \in Nat
    BY <2>5, <2>6, <1>7
  <2>8. C(i) = IF rows[i - 1].id = 0 THEN C(i - 1) + 1 ELSE C(i - 1)
    BY <2>5, <1>4
  <2>9. rows[i - 1].id = 0 /\ C(i - 1) = x
    BY <2>3, <2>7, <2>8
  <2> QED BY <2>5, <2>9
<1>9. \A i \in 1 .. n : rows[i].id = 0 => C(i) < z
  <2> HIDE DEF C
  <2> QED BY <1>3, <1>6
<1>10. \A i, j \in 1 .. n : i < j /\ rows[i].id = 0 => C(i) < C(j)
  <2> HIDE DEF C
  <2> QED BY <1>3, <1>6
<1> QED BY <1>7, <1>8, <1>9, <1>10

\* The rows without an id get the next ones, in order.
LEMMA NumberedIs ==
  ASSUME NEW rows \in Rows, Len(Stored) \in Nat
  PROVE  LET kept == Numbered(rows)
             z    == Cardinality(Nameless(rows, Len(rows) + 1))
         IN /\ kept \in Seq(RowType) /\ Len(kept) = Len(rows) /\ z \in Nat
            /\ \A i \in 1 .. Len(rows) :
                 IF rows[i].id # 0 THEN kept[i] = rows[i]
                 ELSE /\ kept[i].id \in Len(Stored) + 1 .. Len(Stored) + z
                      /\ kept[i] = [rows[i] EXCEPT !.id = kept[i].id]
            /\ \A i, j \in 1 .. Len(rows) :
                 rows[i].id = 0 /\ rows[j].id = 0 /\ kept[i].id = kept[j].id => i = j
            /\ \A x \in Len(Stored) + 1 .. Len(Stored) + z :
                 \E i \in 1 .. Len(rows) : rows[i].id = 0 /\ kept[i].id = x
<1> DEFINE n == Len(rows)
           s == Len(Stored)
           C(i) == Cardinality(Nameless(rows, i))
           z == C(n + 1)
           e(i) == IF rows[i].id # 0 THEN rows[i] ELSE [rows[i] EXCEPT !.id = (s + 1) + C(i)]
           kept == [i \in 1 .. n |-> e(i)]
<1>1. n \in Nat /\ DOMAIN rows = 1 .. n
  BY LenProperties DEF Rows
<1>2. Numbered(rows) = kept
  BY <1>1 DEF Numbered, NextId, Nameless
<1>3. /\ z \in Nat
      /\ \A i \in 1 .. n : C(i) \in Nat /\ (rows[i].id = 0 => C(i) < z)
      /\ \A i, j \in 1 .. n : i < j /\ rows[i].id = 0 => C(i) < C(j)
      /\ \A x \in 0 .. z - 1 : \E i \in 1 .. n : rows[i].id = 0 /\ C(i) = x
  BY NamelessIs
<1>4. \A i \in 1 .. n : rows[i] \in DraftType
  BY ElementOfSeq DEF Rows
<1> HIDE DEF C, s
<1>5. ASSUME NEW i \in 1 .. n
      PROVE  e(i) \in RowType /\ (rows[i].id = 0 => e(i).id = (s + 1) + C(i) /\ e(i) = [rows[i] EXCEPT !.id = e(i).id])
  <2>1. rows[i] \in DraftType
    BY <1>4
  <2>2. CASE rows[i].id # 0
    BY <2>1, <2>2, RowIsDraft
  <2>3. CASE rows[i].id = 0
    <3>1. (s + 1) + C(i) \in Nat /\ (s + 1) + C(i) # 0
      BY <1>3 DEF s
    <3> DEFINE id == (s + 1) + C(i)
               r == [rows[i] EXCEPT !.id = id]
    <3>2. e(i) = r
      BY <2>3
    <3> HIDE DEF id
    <3>3. r \in DraftType /\ r.id = id
      BY <2>1, <3>1 DEF DraftType, id
    <3>4. r \in RowType
      BY <3>1, <3>3, RowIsDraft DEF id
    <3> QED BY <3>2, <3>3, <3>4 DEF id
  <2> QED BY <2>2, <2>3
<1>6. kept \in [1 .. n -> RowType]
  <2> HIDE DEF e
  <2> QED BY <1>5
<1>7. kept \in Seq(RowType) /\ Len(kept) = n
  <2> HIDE DEF kept
  <2> QED BY <1>1, <1>6, FunctionIsSeq
<1>8. \A i \in 1 .. n : kept[i] = e(i)
  OBVIOUS
<1>9. \A i \in 1 .. n : rows[i].id # 0 => e(i) = rows[i]
  OBVIOUS
<1> HIDE DEF kept, e
<1>10. \A i \in 1 .. n : rows[i].id = 0 => kept[i].id = (s + 1) + C(i) /\ kept[i] = [rows[i] EXCEPT !.id = kept[i].id]
  BY <1>5, <1>8
<1>11. ASSUME NEW i \in 1 .. n, rows[i].id = 0
       PROVE  kept[i].id \in s + 1 .. s + z
  <2>1. C(i) \in Nat /\ C(i) < z /\ kept[i].id = (s + 1) + C(i) /\ z \in Nat
    BY <1>3, <1>10, <1>11
  <2>2. s \in Nat
    BY DEF s
  <2> HIDE DEF z
  <2> QED BY <2>1, <2>2
<1>12. ASSUME NEW i \in 1 .. n, NEW j \in 1 .. n, rows[i].id = 0, rows[j].id = 0, kept[i].id = kept[j].id
       PROVE  i = j
  <2>1. C(i) = C(j)
    <3>1. C(i) \in Nat /\ C(j) \in Nat
      BY <1>3
    <3>2. (s + 1) + C(i) = (s + 1) + C(j)
      BY <1>10, <1>12
    <3>3. s \in Nat
      BY DEF s
    <3> QED BY <3>1, <3>2, <3>3
  <2>2. ~ (i < j) /\ ~ (j < i)
    BY <2>1, <1>3, <1>12
  <2> QED BY <2>2, <1>1
<1>13. ASSUME NEW x \in s + 1 .. s + z
       PROVE  \E i \in 1 .. n : rows[i].id = 0 /\ kept[i].id = x
  <2>1. x - (s + 1) \in 0 .. z - 1 /\ (s + 1) + (x - (s + 1)) = x
    BY <1>3 DEF s
  <2>2. PICK i \in 1 .. n : rows[i].id = 0 /\ C(i) = x - (s + 1)
    BY <2>1, <1>3
  <2> QED BY <2>1, <2>2, <1>10
<1>14. \A i \in 1 .. n : IF rows[i].id # 0 THEN kept[i] = rows[i]
                         ELSE /\ kept[i].id \in s + 1 .. s + z
                              /\ kept[i] = [rows[i] EXCEPT !.id = kept[i].id]
  BY <1>8, <1>9, <1>10, <1>11
<1> QED BY <1>2, <1>3, <1>7, <1>12, <1>13, <1>14 DEF s, C

\* A row that is kept, with its id or a new one.
LEMMA KeptRow ==
  ASSUME ChatInv(active, archived, link, open), NEW rows \in Rows, NEW from, TakenFrom(rows, active, from),
         NEW k \in 1 .. Len(rows)
  PROVE  LET r == Numbered(rows)[k] IN
         /\ Shape(r) /\ r.of[1] <= Len(Stored) /\ r.of \in Ofs(active) \cup {NoCall}
         /\ rows[k].id # 0 => /\ from[k] \in 1 .. Len(active) /\ r.id = active[from[k]].id
                              /\ r = active[from[k]] \/ (Views(active[from[k]]) /\ r = PinnedForm(active[from[k]]))
         /\ rows[k].id = 0 => r.id > Len(Stored)
<1> DEFINE kept == Numbered(rows)
           r == kept[k]
           z == Cardinality(Nameless(rows, Len(rows) + 1))
<1>1. active \in Seq(RowType) /\ archived \in Seq(RowType)
  BY DEF ChatInv
<1>2. Len(Stored) = Len(active) + Len(archived) /\ Len(Stored) \in Nat
  BY <1>1, StoredIs DEF Stored
<1>3. /\ kept \in Seq(RowType) /\ Len(kept) = Len(rows) /\ z \in Nat
      /\ IF rows[k].id # 0 THEN r = rows[k]
         ELSE /\ r.id \in Len(Stored) + 1 .. Len(Stored) + z
              /\ r = [rows[k] EXCEPT !.id = r.id]
  BY <1>2, NumberedIs
<1> HIDE DEF kept, z
<1>4. r \in RowType /\ rows[k] \in DraftType
  BY <1>3, ElementOfSeq DEF Rows
<1>5. r.role = rows[k].role /\ r.of = rows[k].of /\ r.calls = rows[k].calls /\ r.says = rows[k].says
  BY <1>3, <1>4 DEF DraftType
<1>6. IF from[k] = 0 THEN rows[k].id = 0 /\ rows[k].role = "assistant" /\ rows[k].calls = <<>>
                          /\ rows[k].of = NoCall /\ rows[k].text = "summary"
      ELSE active[from[k]].role # "ui" /\ Form(rows[k], active[from[k]])
  BY DEF TakenFrom
<1>7. rows[k].id = 0 => r.id > Len(Stored)
  BY <1>2, <1>3
<1>8. NoCall[1] = 0
  BY DEF NoCall
<1>9. CASE from[k] = 0
  <2>1. r.role = "assistant" /\ r.calls = <<>> /\ r.of = NoCall /\ rows[k].id = 0
    BY <1>5, <1>6, <1>9
  <2>2. Calls(r) = {}
    <3>1. DOMAIN r.calls = {}
      BY <2>1
    <3> QED BY <3>1 DEF Calls, Range
  <2>3. Shape(r)
    BY <2>1, <2>2 DEF Shape
  <2> QED BY <2>1, <2>3, <1>2, <1>7, <1>8 DEF kept
<1>10. CASE from[k] # 0
  <2> DEFINE a == active[from[k]]
  <2>1. from[k] \in 1 .. Len(active)
    <3>1. from[k] \in 0 .. Len(active) /\ Len(active) \in Nat
      BY <1>1, LenProperties DEF TakenFrom
    <3> QED BY <3>1, <1>10
  <2>2. a \in RowType /\ a \in DraftType /\ a \in Range(active)
    BY <2>1, <1>1, RowIsDraft, ElementOfSeq, RangeIs
  <2>3. Shape(a) /\ a.of[1] <= Len(Stored)
    BY <2>2, <1>2 DEF ChatInv
  <2>4. Form(rows[k], a) /\ a.role # "ui"
    BY <1>6, <1>10
  <2> HIDE DEF a
  <2>5. /\ rows[k].role = a.role /\ rows[k].of = a.of /\ rows[k].id \in {0, a.id}
        /\ Calls(rows[k]) \subseteq Calls(a)
        /\ rows[k].id # 0 => rows[k] = a \/ (Views(a) /\ rows[k] = PinnedForm(a))
        /\ rows[k].id = 0 => a.id = 0 \/ (rows[k].role = "tool" /\ rows[k].calls = a.calls)
    BY <2>2, <2>4, FormIs
  <2>6. a.id # 0
    BY <2>2 DEF RowType
  <2>7. Calls(r) \subseteq Calls(a) /\ r.role = a.role /\ r.of = a.of
    BY <2>5, <1>5 DEF Calls
  <2>8. r.role # "assistant" => r.calls = <<>>
    <3>1. CASE rows[k].id = 0
      BY <2>3, <2>5, <2>6, <3>1, <1>5 DEF Shape
    <3>2. CASE rows[k] = a
      BY <2>3, <3>2, <1>5 DEF Shape
    <3>3. CASE Views(a)
      BY <2>7, <3>3 DEF Views
    <3> QED BY <2>5, <3>1, <3>2, <3>3
  <2>9. \A c \in Calls(r) : c[1] = r.id
    <3>1. CASE rows[k].id = 0
      <4>1. r.calls = <<>>
        BY <2>3, <2>5, <2>6, <3>1, <1>5 DEF Shape
      <4>2. Calls(r) = {}
        <5>1. DOMAIN r.calls = {}
          BY <4>1
        <5> QED BY <5>1 DEF Calls, Range
      <4> QED BY <4>2
    <3>2. CASE rows[k].id # 0
      BY <2>3, <2>5, <2>7, <3>2, <1>3 DEF Shape
    <3> QED BY <3>1, <3>2
  <2>10. Shape(r)
    BY <2>3, <2>4, <2>7, <2>8, <2>9 DEF Shape
  <2>11. r.of \in Ofs(active)
    BY <2>2, <2>7 DEF Ofs
  <2>12. rows[k].id # 0 => r.id = a.id /\ (r = a \/ (Views(a) /\ r = PinnedForm(a)))
    BY <2>5, <1>3
  <2> QED BY <2>1, <2>3, <2>7, <2>10, <2>11, <2>12, <1>7 DEF a, kept
<1> QED BY <1>9, <1>10 DEF kept

\* Where a link may lead: to a row that is kept.
LEMMA LinksToIs ==
  ASSUME NEW rows \in Seq(RowType)
  PROVE  LinksTo(rows) \subseteq Ids(rows)
<1> DEFINE sums == {i \in DOMAIN rows : IsSummary(rows[i])}
<1>1. DOMAIN rows = 1 .. Len(rows) /\ Len(rows) \in Nat
  BY LenProperties
<1>2. sums \in SUBSET (0 .. Len(rows)) /\ sums \subseteq 1 .. Len(rows)
  BY <1>1
<1>3. sums # {} => Max(sums) \in sums
  <2> HIDE DEF sums
  <2> QED BY <1>1, <1>2, MaxIn
<1>4. ASSUME sums # {} PROVE rows[Max(sums)].id \in Ids(rows)
  <2> HIDE DEF sums
  <2>1. Max(sums) \in 1 .. Len(rows)
    BY <1>2, <1>3, <1>4
  <2>2. Ids(rows) = {rows[i].id : i \in 1 .. Len(rows)}
    BY RangeIs
  <2> QED BY <2>1, <2>2
<1> QED BY <1>4 DEF LinksTo

\* The archived rows after it: those that were, and the ones that are gone.
Gone(kept) == Select(active, {i \in DOMAIN active : active[i].id \notin Ids(kept)})

LEMMA GoneIs ==
  ASSUME active \in Seq(RowType), NEW kept, NEW gone, gone = Gone(kept),
         \A i, j \in 1 .. Len(active) : active[i].id = active[j].id => i = j
  PROVE  /\ gone \in Seq(RowType)
         /\ \A x \in 1 .. Len(gone) : gone[x] \in Range(active) /\ gone[x].id \notin Ids(kept)
         /\ \A x, y \in 1 .. Len(gone) : gone[x].id = gone[y].id => x = y
         /\ \A r \in Range(active) : r.id \notin Ids(kept) => \E x \in 1 .. Len(gone) : gone[x] = r
<1> DEFINE places == {i \in DOMAIN active : active[i].id \notin Ids(kept)}
<1>1. gone = Select(active, places)
  BY DEF Gone
<1>2. DOMAIN active = 1 .. Len(active)
  BY LenProperties
<1>3. \A i \in places : i \in 1 .. Len(active) /\ active[i].id \notin Ids(kept)
  BY <1>2
<1>4. \A i \in 1 .. Len(active) : active[i].id \notin Ids(kept) => i \in places
  BY <1>2
<1> HIDE DEF places
<1>5. gone \in Seq(RowType) /\ Picked(gone, active, places)
  BY <1>1, SelectIs
<1>6. PICK pos \in [1 .. Len(gone) -> 1 .. Len(active)] :
        /\ \A k \in 1 .. Len(gone) : pos[k] \in places /\ gone[k] = active[pos[k]]
        /\ \A k, l \in 1 .. Len(gone) : k < l => pos[k] < pos[l]
        /\ \A i \in 1 .. Len(active) : i \in places => \E k \in 1 .. Len(gone) : pos[k] = i
  BY <1>5 DEF Picked
<1>7. ASSUME NEW x \in 1 .. Len(gone) PROVE gone[x] \in Range(active) /\ gone[x].id \notin Ids(kept)
  <2>1. pos[x] \in places /\ gone[x] = active[pos[x]]
    BY <1>6
  <2>2. Range(active) = {active[i] : i \in 1 .. Len(active)}
    BY RangeIs
  <2> QED BY <2>1, <2>2, <1>3
<1>8. ASSUME NEW x \in 1 .. Len(gone), NEW y \in 1 .. Len(gone), gone[x].id = gone[y].id PROVE x = y
  <2>0. pos[x] \in 1 .. Len(active) /\ pos[y] \in 1 .. Len(active)
        /\ active[pos[x]] = gone[x] /\ active[pos[y]] = gone[y]
    BY <1>6
  <2>1. pos[x] = pos[y] /\ pos[x] \in 1 .. Len(active)
    BY <2>0, <1>8
  <2>2. ~ (pos[x] < pos[y]) /\ ~ (pos[y] < pos[x])
    BY <2>1
  <2>3. ~ (x < y) /\ ~ (y < x)
    BY <2>2, <1>6
  <2> QED BY <2>3
<1>9. ASSUME NEW r \in Range(active), r.id \notin Ids(kept) PROVE \E x \in 1 .. Len(gone) : gone[x] = r
  <2>1. PICK i \in 1 .. Len(active) : r = active[i]
    BY RangeIs
  <2>2. PICK x \in 1 .. Len(gone) : pos[x] = i
    BY <2>1, <1>4, <1>6, <1>9
  <2> QED BY <2>1, <2>2, <1>6
<1> QED BY <1>5, <1>7, <1>8, <1>9

\* What is told of a replacement: the invariant, the number of rows, the calls that
\* have a result, and what became of each row.
ReplacedWell ==
  /\ ChatInv(active', archived', link', open)
  /\ Len(active) + Len(archived) <= Len(active') + Len(archived')
  /\ Ofs(active') \cup Ofs(archived') \subseteq Ofs(active) \cup Ofs(archived) \cup {NoCall}
  /\ \A r \in Range(active) \cup Range(archived) : \E s \in Range(active') \cup Range(archived') :
       s = r \/ (Views(r) /\ s = PinnedForm(r))

LEMMA ReplaceInv ==
  ASSUME ChatInv(active, archived, link, open), NEW rows \in Rows, NEW from, TakenFrom(rows, active, from),
         Replace(rows)
  PROVE  ReplacedWell
<1> DEFINE kept == Numbered(rows)
           gone == Gone(kept)
           n    == Len(Stored)
           z    == Cardinality(Nameless(rows, Len(rows) + 1))
           back == archived \o gone
<1>1. active \in Seq(RowType) /\ archived \in Seq(RowType)
  BY DEF ChatInv
<1>2. n = Len(active) + Len(archived) /\ n \in Nat /\ Ids(active) \cup Ids(archived) = 1 .. n
  BY <1>1, StoredIs DEF Stored, ChatInv
<1>3. /\ \A i, j \in 1 .. Len(active) : active[i].id = active[j].id => i = j
      /\ \A i, j \in 1 .. Len(archived) : archived[i].id = archived[j].id => i = j
      /\ Ids(active) \cap Ids(archived) = {}
  BY <1>1, OwnIds DEF ChatInv
<1>4. /\ kept \in Seq(RowType) /\ Len(kept) = Len(rows) /\ z \in Nat
      /\ \A i, j \in 1 .. Len(rows) :
           rows[i].id = 0 /\ rows[j].id = 0 /\ kept[i].id = kept[j].id => i = j
      /\ \A x \in n + 1 .. n + z : \E i \in 1 .. Len(rows) : rows[i].id = 0 /\ kept[i].id = x
      /\ \A i \in 1 .. Len(rows) : rows[i].id = 0 => kept[i].id \in n + 1 .. n + z
  BY <1>2, NumberedIs
<1>5. \A k \in 1 .. Len(rows) :
        /\ Shape(kept[k]) /\ kept[k].of[1] <= n /\ kept[k].of \in Ofs(active) \cup {NoCall}
        /\ rows[k].id # 0 => /\ from[k] \in 1 .. Len(active) /\ kept[k].id = active[from[k]].id
                             /\ kept[k] = active[from[k]] \/ (Views(active[from[k]]) /\ kept[k] = PinnedForm(active[from[k]]))
        /\ rows[k].id = 0 => kept[k].id > n
  BY KeptRow
<1>6. active' = kept /\ archived' = back
      /\ \E t \in LinksTo(kept) : link' = [i \in Ids(back) |-> IF i \in DOMAIN link THEN link[i] ELSE t]
  BY DEF Replace, Gone
<1>7. /\ gone \in Seq(RowType)
      /\ \A x \in 1 .. Len(gone) : gone[x] \in Range(active) /\ gone[x].id \notin Ids(kept)
      /\ \A x, y \in 1 .. Len(gone) : gone[x].id = gone[y].id => x = y
      /\ \A r \in Range(active) : r.id \notin Ids(kept) => \E x \in 1 .. Len(gone) : gone[x] = r
  BY <1>1, <1>3, GoneIs
<1> HIDE DEF kept, gone, n, z
<1>8. /\ back \in Seq(RowType) /\ Len(back) = Len(archived) + Len(gone)
      /\ Range(back) = Range(archived) \cup Range(gone) /\ Ids(back) = Ids(archived) \cup Ids(gone)
      /\ Ofs(back) = Ofs(archived) \cup Ofs(gone)
      /\ \A i \in 1 .. Len(archived) + Len(gone) : back[i] = IF i <= Len(archived) THEN archived[i] ELSE gone[i - Len(archived)]
  BY <1>1, <1>7, ConcatIs, ConcatProperties
<1> HIDE DEF back
<1>9. /\ Range(kept) = {kept[i] : i \in 1 .. Len(rows)} /\ Ids(kept) = {kept[i].id : i \in 1 .. Len(rows)}
      /\ Ofs(kept) = {kept[i].of : i \in 1 .. Len(rows)}
  BY <1>4, RangeIs
<1>10. /\ Range(gone) = {gone[i] : i \in 1 .. Len(gone)} /\ Ids(gone) = {gone[i].id : i \in 1 .. Len(gone)}
       /\ Ofs(gone) = {gone[i].of : i \in 1 .. Len(gone)}
  <2>1. gone \in Seq(RowType)
    BY <1>7
  <2> QED BY ONLY <2>1, RangeIs
<1>11. /\ Range(active) = {active[i] : i \in 1 .. Len(active)} /\ Ids(active) = {active[i].id : i \in 1 .. Len(active)}
       /\ Ofs(active) = {active[i].of : i \in 1 .. Len(active)}
       /\ Ids(active) = {r.id : r \in Range(active)} /\ Ofs(active) = {r.of : r \in Range(active)}
  <2>1. Ids(active) = {r.id : r \in Range(active)} /\ Ofs(active) = {r.of : r \in Range(active)}
    BY DEF Ids, Ofs
  <2> QED BY <2>1, <1>1, RangeIs
<1>12. Ids(archived) = {archived[i].id : i \in 1 .. Len(archived)}
  BY <1>1, RangeIs
<1>13. /\ \A x \in 1 .. Len(gone) : gone[x].id \in Ids(active) /\ gone[x].id \notin Ids(archived)
       /\ Ofs(gone) \subseteq Ofs(active)
  BY <1>3, <1>7, <1>10, <1>11
<1>14. \A k \in 1 .. Len(rows) : rows[k].id # 0 => kept[k].id \in Ids(active) /\ kept[k].id \in 1 .. n
  BY <1>2, <1>5, <1>11
<1>15. Len(active) \in Nat /\ Len(archived) \in Nat /\ Len(gone) \in Nat /\ Len(rows) \in Nat
  BY <1>1, <1>7, LenProperties DEF Rows
<1>16. ASSUME NEW k \in 1 .. Len(rows), NEW l \in 1 .. Len(rows), kept[k].id = kept[l].id PROVE k = l
  <2>1. CASE rows[k].id = 0 /\ rows[l].id = 0
    BY <2>1, <1>4, <1>16
  <2>2. CASE rows[k].id # 0 /\ rows[l].id # 0
    <3>0. from[k] \in 1 .. Len(active) /\ from[l] \in 1 .. Len(active)
          /\ active[from[k]].id = active[from[l]].id
      BY <2>2, <1>5, <1>16
    <3>1. from[k] = from[l] /\ from[k] # 0 /\ from[k] \in Nat
      <4>1. from[k] = from[l]
        BY <3>0, <1>3
      <4> QED BY <3>0, <4>1, <1>15
    <3>2. ~ (k < l) /\ ~ (l < k)
      BY <3>1, <1>4 DEF TakenFrom
    <3> QED BY <3>2, <1>15
  <2>3. CASE rows[k].id = 0 /\ rows[l].id # 0
    <3>1. kept[k].id > n /\ kept[l].id \in 1 .. n
      BY <2>3, <1>5, <1>14
    <3> QED BY <3>1, <1>2, <1>16
  <2>4. CASE rows[k].id # 0 /\ rows[l].id = 0
    <3>1. kept[l].id > n /\ kept[k].id \in 1 .. n
      BY <2>4, <1>5, <1>14
    <3> QED BY <3>1, <1>2, <1>16
  <2> QED BY <2>1, <2>2, <2>3, <2>4
<1>17. ASSUME NEW i \in 1 .. Len(back)
       PROVE  \/ i \in 1 .. Len(archived) /\ back[i] = archived[i]
              \/ i - Len(archived) \in 1 .. Len(gone) /\ back[i] = gone[i - Len(archived)]
  <2>1. CASE i <= Len(archived)
    <3>1. i \in 1 .. Len(archived) /\ i \in 1 .. Len(archived) + Len(gone)
      BY <2>1, <1>8, <1>15
    <3> QED BY <3>1, <2>1, <1>8
  <2>2. CASE i > Len(archived)
    <3>1. i - Len(archived) \in 1 .. Len(gone) /\ i \in 1 .. Len(archived) + Len(gone) /\ ~ (i <= Len(archived))
      BY <2>2, <1>8, <1>15
    <3> QED BY <3>1, <1>8
  <2> QED BY <2>1, <2>2, <1>8, <1>15
<1>18. ASSUME NEW i \in 1 .. Len(archived) PROVE i \in 1 .. Len(back) /\ back[i] = archived[i]
  <2>1. i \in 1 .. Len(archived) + Len(gone) /\ i <= Len(archived)
    BY <1>15
  <2> QED BY <2>1, <1>8
<1>19. ASSUME NEW i \in 1 .. Len(gone)
       PROVE  Len(archived) + i \in 1 .. Len(back) /\ back[Len(archived) + i] = gone[i]
  <2>1. Len(archived) + i \in 1 .. Len(archived) + Len(gone) /\ ~ (Len(archived) + i <= Len(archived))
        /\ (Len(archived) + i) - Len(archived) = i
    BY <1>15
  <2> QED BY <2>1, <1>8
<1>20. ASSUME NEW i \in 1 .. Len(back), NEW j \in 1 .. Len(back), back[i].id = back[j].id PROVE i = j
  <2>1. \A x \in 1 .. Len(archived), y \in 1 .. Len(gone) : archived[x].id # gone[y].id
    BY <1>12, <1>13
  <2>2. CASE i \in 1 .. Len(archived) /\ back[i] = archived[i] /\ j \in 1 .. Len(archived) /\ back[j] = archived[j]
    BY <2>2, <1>3, <1>20
  <2>3. CASE /\ i - Len(archived) \in 1 .. Len(gone) /\ back[i] = gone[i - Len(archived)]
             /\ j - Len(archived) \in 1 .. Len(gone) /\ back[j] = gone[j - Len(archived)]
    <3>1. i - Len(archived) = j - Len(archived)
      BY <2>3, <1>7, <1>20
    <3> QED BY <3>1, <1>8, <1>15
  <2> QED BY <2>1, <2>2, <2>3, <1>17, <1>20
<1>21. Ids(kept) \cap Ids(back) = {}
  <2>1. ASSUME NEW k \in 1 .. Len(rows), kept[k].id \in Ids(archived) PROVE FALSE
    <3>1. kept[k].id \in 1 .. n
      BY <2>1, <1>2
    <3>2. rows[k].id # 0
      BY <3>1, <1>2, <1>5
    <3> QED BY <3>2, <2>1, <1>3, <1>14
  <2> QED BY <2>1, <1>7, <1>8, <1>9, <1>10
<1>22. Ids(kept) \cup Ids(back) = 1 .. n + z
  <2>1. ASSUME NEW x \in Ids(kept) PROVE x \in 1 .. n + z
    <3>1. PICK k \in 1 .. Len(rows) : x = kept[k].id
      BY <1>9
    <3>2. x \in 1 .. n \/ x \in n + 1 .. n + z
      BY <3>1, <1>4, <1>14
    <3> QED BY <3>2, <1>2, <1>4
  <2>2. ASSUME NEW x \in Ids(back) PROVE x \in 1 .. n + z
    <3>1. x \in 1 .. n
      BY <1>2, <1>8, <1>10, <1>13
    <3> QED BY <3>1, <1>2, <1>4
  <2>3. ASSUME NEW x \in 1 .. n + z PROVE x \in Ids(kept) \cup Ids(back)
    <3>1. CASE x \in 1 .. n
      <4>1. x \in Ids(active) \/ x \in Ids(archived)
        BY <3>1, <1>2
      <4>2. CASE x \in Ids(active) /\ x \notin Ids(kept)
        <5>1. PICK r \in Range(active) : x = r.id
          BY <4>2, <1>11
        <5>2. PICK y \in 1 .. Len(gone) : gone[y] = r
          BY <4>2, <5>1, <1>7
        <5> QED BY <5>1, <5>2, <1>8, <1>10
      <4> QED BY <4>1, <4>2, <1>8
    <3>2. CASE x \in n + 1 .. n + z
      <4>1. PICK i \in 1 .. Len(rows) : rows[i].id = 0 /\ kept[i].id = x
        BY <3>2, <1>4
      <4> QED BY <4>1, <1>9
    <3> QED BY <3>1, <3>2, <1>2, <1>4
  <2> QED BY <2>1, <2>2, <2>3
<1>23. n + z = Len(kept) + Len(back)
  <2> DEFINE N == n + z
  <2>1. N \in Nat /\ Ids(kept) \cup Ids(back) = 1 .. N
    BY <1>2, <1>4, <1>22
  <2>2. /\ \A i, j \in 1 .. Len(kept) : kept[i].id = kept[j].id => i = j
        /\ \A i, j \in 1 .. Len(back) : back[i].id = back[j].id => i = j
    BY <1>4, <1>16, <1>20
  <2> HIDE DEF N
  <2>3. kept \in Seq(RowType) /\ back \in Seq(RowType) /\ N \in Nat /\ Ids(kept) \cup Ids(back) = 1 .. N
        /\ Ids(kept) \cap Ids(back) = {}
    BY <2>1, <1>4, <1>8, <1>21
  <2>4. N = Len(kept) + Len(back)
    BY ONLY <2>2, <2>3, AsManyAsIds
  <2> QED BY <2>4 DEF N
<1>24. PICK t \in LinksTo(kept) : link' = [i \in Ids(back) |-> IF i \in DOMAIN link THEN link[i] ELSE t]
  BY <1>6
<1>25. t \in Ids(kept)
  BY <1>4, <1>24, LinksToIs
<1>26. link \in [Ids(archived) -> 1 .. n] /\ DOMAIN link = Ids(archived)
  BY <1>2 DEF ChatInv
<1>27. link' \in [Ids(back) -> 1 .. n + z]
  <2>1. t \in 1 .. n + z
    BY <1>22, <1>25
  <2>2. \A i \in Ids(archived) : link[i] \in 1 .. n + z
    BY <1>2, <1>4, <1>26
  <2> QED BY <2>1, <2>2, <1>24, <1>26
<1>28. ASSUME NEW i \in 1 .. Len(back)
       PROVE  link'[back[i].id] \in Ids(kept) \cup {back[j].id : j \in i + 1 .. Len(back)}
  <2>0. back[i].id \in Ids(back)
    BY <1>8, RangeIs
  <2>1. CASE i \in 1 .. Len(archived) /\ back[i] = archived[i]
    <3>1. back[i].id \in Ids(archived) /\ link'[back[i].id] = link[archived[i].id]
      BY <2>0, <2>1, <1>12, <1>24, <1>26
    <3>2. link[archived[i].id] \in Ids(active) \cup {archived[j].id : j \in i + 1 .. Len(archived)}
      BY <2>1 DEF ChatInv
    <3>3. CASE link[archived[i].id] \in Ids(active) /\ link[archived[i].id] \notin Ids(kept)
      <4>1. PICK r \in Range(active) : link[archived[i].id] = r.id
        BY <3>3, <1>11
      <4>2. PICK y \in 1 .. Len(gone) : gone[y] = r
        BY <3>3, <4>1, <1>7
      <4>3. Len(archived) + y \in i + 1 .. Len(back) /\ back[Len(archived) + y] = r
        BY <2>1, <4>2, <1>8, <1>15, <1>19
      <4> QED BY <3>1, <4>1, <4>3
    <3>4. CASE link[archived[i].id] \in {archived[j].id : j \in i + 1 .. Len(archived)}
      <4>1. PICK j \in i + 1 .. Len(archived) : link[archived[i].id] = archived[j].id
        BY <3>4
      <4>2. j \in 1 .. Len(archived) /\ j \in i + 1 .. Len(back)
        BY <4>1, <2>1, <1>8, <1>15
      <4>3. back[j] = archived[j]
        BY <4>2, <1>18
      <4> QED BY <3>1, <4>1, <4>2, <4>3
    <3> QED BY <3>1, <3>2, <3>3, <3>4
  <2>2. CASE i - Len(archived) \in 1 .. Len(gone) /\ back[i] = gone[i - Len(archived)]
    <3>1. back[i].id \notin Ids(archived)
      BY <2>2, <1>13
    <3>2. link'[back[i].id] = t
      BY <2>0, <3>1, <1>24, <1>26
    <3> QED BY <3>2, <1>25
  <2> QED BY <2>1, <2>2, <1>17
<1>29. ASSUME NEW r \in Range(active) \cup Range(archived)
       PROVE  \E s \in Range(kept) \cup Range(back) : s = r \/ (Views(r) /\ s = PinnedForm(r))
  <2>1. CASE r \in Range(archived)
    BY <2>1, <1>8
  <2>2. CASE r \in Range(active) /\ r.id \notin Ids(kept)
    <3>1. PICK y \in 1 .. Len(gone) : gone[y] = r
      BY <2>2, <1>7
    <3> QED BY <3>1, <1>8, <1>10
  <2>3. CASE r \in Range(active) /\ r.id \in Ids(kept)
    <3>1. PICK k \in 1 .. Len(rows) : kept[k].id = r.id
      BY <2>3, <1>9
    <3>2. PICK i \in 1 .. Len(active) : r = active[i]
      BY <2>3, <1>11
    <3>3. r.id \in 1 .. n
      BY <3>2, <1>2, <1>11
    <3>4. rows[k].id # 0
      BY <3>1, <3>3, <1>2, <1>5
    <3>5. from[k] = i
      BY <3>1, <3>2, <3>4, <1>3, <1>5
    <3>6. kept[k] = r \/ (Views(r) /\ kept[k] = PinnedForm(r))
      BY <3>2, <3>4, <3>5, <1>5
    <3> QED BY <3>6, <1>9
  <2> QED BY <2>1, <2>2, <2>3
<1>30. open \subseteq Ofs(kept) \cup Ofs(back)
  <2>1. ASSUME NEW c \in open PROVE c \in Ofs(kept) \cup Ofs(back)
    <3>1. PICK r \in Range(active) \cup Range(archived) : c = r.of
      BY DEF ChatInv, Ofs
    <3>2. r \in DraftType
      BY <1>1, RangeIs, RowIsDraft
    <3>3. PICK s \in Range(kept) \cup Range(back) : s = r \/ (Views(r) /\ s = PinnedForm(r))
      BY <1>29
    <3>4. s.of = r.of
      BY <3>2, <3>3, PinnedIs
    <3> QED BY <3>1, <3>3, <3>4 DEF Ofs
  <2> QED BY <2>1
<1>31. \A r \in Range(kept) \cup Range(back) : Shape(r) /\ r.of[1] <= n + z
  <2>1. ASSUME NEW r \in Range(kept) \cup Range(back) PROVE Shape(r) /\ r.of[1] <= n
    <3>1. CASE r \in Range(kept)
      BY <3>1, <1>5, <1>9
    <3>2. CASE r \in Range(active) \cup Range(archived)
      BY <3>2, <1>2 DEF ChatInv
    <3>3. r \in Range(back) => r \in Range(active) \cup Range(archived)
      BY <1>7, <1>8, <1>10
    <3> QED BY <3>1, <3>2, <3>3
  <2>2. ASSUME NEW r \in Range(kept) \cup Range(back) PROVE r.of[1] \in Nat
    <3>1. r \in RowType
      BY <1>4, <1>8, RangeIs
    <3> QED BY <3>1 DEF RowType
  <2> QED BY <2>1, <2>2, <1>2, <1>4
<1>32. ChatInv(kept, back, link', open)
  BY <1>4, <1>8, <1>22, <1>23, <1>27, <1>28, <1>30, <1>31 DEF ChatInv
<1>33. Len(active) + Len(archived) <= Len(kept) + Len(back)
  BY <1>2, <1>4, <1>23
<1>34. Ofs(kept) \cup Ofs(back) \subseteq Ofs(active) \cup Ofs(archived) \cup {NoCall}
  BY <1>5, <1>8, <1>9, <1>13
<1> QED BY <1>6, <1>29, <1>32, <1>33, <1>34 DEF ReplacedWell

-----------------------------------------------------------------------------
(* The steps preserve the invariant. *)

\* What is said has the shape of the rows.
LEMMA SpokenShape ==
  ASSUME NEW rows \in Seq(RowType), \A r \in Range(rows) : Shape(r)
  PROVE  Spoken(rows) \in Seq(RowType) /\ \A r \in Range(Spoken(rows)) : Shape(r)
<1>1. Spoken(rows) \in Seq(RowType)
  BY SpokenIs
<1>2. PICK pos \in [1 .. Len(Spoken(rows)) -> 1 .. Len(rows)] :
        \A k \in 1 .. Len(Spoken(rows)) : Spoken(rows)[k] = rows[pos[k]]
  BY SpokenIs
<1>3. Range(Spoken(rows)) = {Spoken(rows)[k] : k \in 1 .. Len(Spoken(rows))}
      /\ Range(rows) = {rows[k] : k \in 1 .. Len(rows)}
  BY <1>1, RangeIs
<1>4. ASSUME NEW k \in 1 .. Len(Spoken(rows)) PROVE Spoken(rows)[k] \in Range(rows)
  BY <1>2, <1>3
<1> QED BY <1>1, <1>3, <1>4

\* The calls to do stay so while the chat grows and no row of them is added.
LEMMA TodoKept ==
  ASSUME NEW calls, NEW shown, NEW hidden, TodoInv(calls, shown, hidden),
         NEW shown2, NEW hidden2,
         Len(shown) + Len(hidden) \in Nat, Len(shown2) + Len(hidden2) \in Nat,
         Len(shown) + Len(hidden) <= Len(shown2) + Len(hidden2),
         Ofs(shown2) \cup Ofs(hidden2) \subseteq Ofs(shown) \cup Ofs(hidden) \cup {NoCall}
  PROVE  TodoInv(calls, shown2, hidden2)
<1>1. ASSUME NEW i \in 1 .. Len(calls)
      PROVE  /\ calls[i].n[1] \in 1 .. Len(shown2) + Len(hidden2)
             /\ calls[i].n \notin Ofs(shown2) \cup Ofs(hidden2)
  <2>1. calls[i].n[1] \in 1 .. Len(shown) + Len(hidden) /\ calls[i].n \notin Ofs(shown) \cup Ofs(hidden)
    BY DEF TodoInv
  <2>2. calls[i].n # NoCall
    <3>1. NoCall[1] = 0
      BY DEF NoCall
    <3> QED BY <2>1, <3>1
  <2> QED BY <2>1, <2>2
<1> QED BY <1>1 DEF TodoInv

\* A row that is no result of a call is added.
LEMMA AddedInv ==
  ASSUME ChatInv(active, archived, link, open), TodoInv(todo, active, archived),
         NEW r \in RowType, r.id = NextId, Shape(r), r.of = NoCall
  PROVE  /\ ChatInv(Append(active, r), archived, link, open)
         /\ TodoInv(todo, Append(active, r), archived)
<1>1. active \in Seq(RowType) /\ archived \in Seq(RowType)
  BY DEF ChatInv
<1>2. r.id = Len(active) + Len(archived) + 1 /\ Len(active) + Len(archived) \in Nat
  BY <1>1, StoredIs DEF NextId, Stored
<1>3. r.of[1] <= Len(active) + Len(archived) + 1
  <2>1. r.of[1] = 0
    BY DEF NoCall
  <2> QED BY <2>1, <1>2
<1>4. ChatInv(Append(active, r), archived, link, open)
  BY <1>2, <1>3, AppendedInv
<1>5. Len(Append(active, r)) = Len(active) + 1 /\ Ofs(Append(active, r)) = Ofs(active) \cup {NoCall}
  BY <1>1, AppendIs
<1>6. Len(active) \in Nat /\ Len(archived) \in Nat
  BY <1>1, LenProperties
<1>7. Len(Append(active, r)) + Len(archived) \in Nat
      /\ Len(active) + Len(archived) <= Len(Append(active, r)) + Len(archived)
  BY <1>5, <1>6
<1>8. Ofs(Append(active, r)) \cup Ofs(archived) \subseteq Ofs(active) \cup Ofs(archived) \cup {NoCall}
  BY <1>5
<1>9. TodoInv(todo, Append(active, r), archived)
  BY <1>2, <1>7, <1>8, TodoKept
<1> QED BY <1>4, <1>9

\* The next id, and the rows with it that actions add.
LEMMA NextRows ==
  ASSUME IInv
  PROVE  /\ NextId \in Nat \ {0} /\ NextId = Len(active) + Len(archived) + 1
         /\ \A role \in {"user", "assistant", "ui"} :
              LET r == Row(NextId, role, "plain")
              IN r \in RowType /\ r.id = NextId /\ Shape(r) /\ r.of = NoCall /\ r.role = role /\ r.calls = <<>>
         /\ UserRow \in RowType /\ UserRow.id = NextId /\ Shape(UserRow) /\ UserRow.of = NoCall
         /\ UserRow.role = "user" /\ UserRow.says = {NextId} /\ UserRow.calls = <<>>
<1>1. active \in Seq(RowType) /\ archived \in Seq(RowType)
  BY DEF IInv, ChatInv
<1>2. NextId \in Nat \ {0} /\ NextId = Len(active) + Len(archived) + 1
  BY <1>1, StoredIs DEF NextId, Stored
<1>3. \A role \in {"user", "assistant", "tool", "ui"} :
        LET r == Row(NextId, role, "plain")
        IN r \in RowType /\ Shape(r) /\ r.id = NextId /\ r.role = role /\ r.of = NoCall /\ Calls(r) = {}
           /\ r.calls = <<>> /\ r.says = {} /\ r.text = "plain"
  BY <1>2, NewRows DEF Texts
<1> DEFINE r == Row(NextId, "user", "plain")
<1>4. r \in RowType /\ Shape(r) /\ r.id = NextId /\ r.role = "user" /\ r.of = NoCall /\ r.calls = <<>>
      /\ Calls(r) = {}
  BY <1>3
<1>5. UserRow = [r EXCEPT !.says = {NextId}]
  BY DEF UserRow
<1> HIDE DEF r
<1>6. UserRow \in RowType /\ UserRow.id = NextId /\ UserRow.of = NoCall /\ UserRow.role = "user"
      /\ UserRow.says = {NextId} /\ UserRow.calls = <<>>
  BY <1>2, <1>4, <1>5 DEF RowType
<1>7. Calls(UserRow) = {}
  BY <1>4, <1>6 DEF Calls
<1>8. Shape(UserRow)
  BY <1>6, <1>7 DEF Shape
<1> QED BY <1>2, <1>3, <1>6, <1>8

LEMMA InitInv ==
  Init => IInv
<1> SUFFICES ASSUME Init PROVE IInv
  OBVIOUS
<1>1. active = <<>> /\ archived = <<>> /\ link = <<>> /\ history = <<>> /\ todo = <<>> /\ open = {}
      /\ turn = "idle" /\ presses = 0 /\ notices = 0
  BY DEF Init
<1>2. <<>> \in Seq(RowType) /\ <<>> \in Seq(CallType) /\ Len(<<>>) = 0 /\ DOMAIN <<>> = {}
  BY EmptySeq
<1>3. Range(<<>>) = {}
  BY <1>2 DEF Range
<1>4. Ids(<<>>) = {} /\ Ofs(<<>>) = {}
  BY <1>3 DEF Ids, Ofs
<1>5. 1 .. 0 = {} /\ 0 + 0 = 0
  OBVIOUS
<1>6. <<>> \in [{} -> 1 .. 0]
  BY <1>2
<1>7. ChatInv(<<>>, <<>>, <<>>, {})
  BY <1>2, <1>3, <1>4, <1>5, <1>6 DEF ChatInv
<1>8. TodoInv(<<>>, <<>>, <<>>)
  BY <1>2, <1>5 DEF TodoInv
<1>9. TurnInv
  BY <1>1, <1>2, <1>3 DEF TurnInv
<1>10. MaxPresses \in Nat /\ MaxNotices \in Nat
  BY BoundsAssumption
<1> QED BY <1>1, <1>7, <1>8, <1>9, <1>10 DEF IInv

\* A sequence has a row of a call when the call is among those of its rows.
LEMMA HasIs ==
  ASSUME NEW rows \in Seq(RowType), NEW c
  PROVE  Has(rows, c) <=> c \in Ofs(rows)
<1>1. DOMAIN rows = 1 .. Len(rows)
  BY LenProperties
<1>2. Ofs(rows) = {rows[i].of : i \in 1 .. Len(rows)}
  BY RangeIs
<1> QED BY <1>1, <1>2 DEF Has

LEMMA SayInv ==
  ASSUME IInv, Say
  PROVE  IInv'
<1>1. /\ active' = Append(active, UserRow) /\ archived' = archived /\ link' = link /\ open' = open
      /\ todo' = todo /\ presses' = presses /\ notices' = notices
      /\ turn = "idle" /\ turn' = "ask" /\ history' = Spoken(active')
  BY DEF Say
<1>2. ChatInv(active', archived', link', open') /\ TodoInv(todo', active', archived')
  <2>1. UserRow \in RowType /\ UserRow.id = NextId /\ Shape(UserRow) /\ UserRow.of = NoCall
    BY NextRows
  <2> QED BY <2>1, <1>1, AddedInv DEF IInv
<1>3. history' \in Seq(RowType) /\ \A r \in Range(history') : Shape(r)
  <2>1. active' \in Seq(RowType) /\ \A r \in Range(active') : Shape(r)
    BY <1>2 DEF ChatInv
  <2> QED BY <2>1, <1>1, SpokenShape
<1>4. todo' = <<>>
  BY <1>1 DEF IInv, TurnInv
<1> QED BY <1>1, <1>2, <1>3, <1>4 DEF IInv, TurnInv

LEMMA AnswerInv ==
  ASSUME IInv, Answer
  PROVE  IInv'
<1>1. /\ active' = Append(active, Row(NextId, "assistant", "plain")) /\ archived' = archived
      /\ link' = link /\ open' = open /\ todo' = todo /\ presses' = presses /\ notices' = notices
      /\ turn = "ask" /\ turn' = "idle" /\ history' = <<>>
  BY DEF Answer
<1>2. ChatInv(active', archived', link', open') /\ TodoInv(todo', active', archived')
  <2> DEFINE r == Row(NextId, "assistant", "plain")
  <2>1. r \in RowType /\ r.id = NextId /\ Shape(r) /\ r.of = NoCall
    BY NextRows
  <2> QED BY <2>1, <1>1, AddedInv DEF IInv
<1>3. todo' = <<>>
  BY <1>1 DEF IInv, TurnInv
<1>4. <<>> \in Seq(RowType) /\ Range(<<>>) = {}
  BY EmptySeq DEF Range
<1> QED BY <1>1, <1>2, <1>3, <1>4 DEF IInv, TurnInv

LEMMA InterruptInv ==
  ASSUME IInv, NEW partial \in BOOLEAN, Interrupt(partial)
  PROVE  IInv'
<1>1. /\ active' = IF partial THEN Append(active, Row(NextId, "assistant", "plain")) ELSE active
      /\ archived' = archived /\ link' = link /\ open' = open /\ todo' = <<>>
      /\ presses' = presses /\ notices' = notices /\ turn' = "idle" /\ history' = <<>>
  BY DEF Interrupt
<1>2. ChatInv(active', archived', link', open')
  <2> DEFINE r == Row(NextId, "assistant", "plain")
  <2>1. r \in RowType /\ r.id = NextId /\ Shape(r) /\ r.of = NoCall
    BY NextRows
  <2>2. ChatInv(Append(active, r), archived, link, open)
    BY <2>1, AddedInv DEF IInv
  <2> HIDE DEF r
  <2>3. active' = Append(active, r) \/ active' = active
    BY <1>1 DEF r
  <2> QED BY <2>2, <2>3, <1>1 DEF IInv
<1>3. <<>> \in Seq(RowType) /\ <<>> \in Seq(CallType) /\ Range(<<>>) = {} /\ Len(<<>>) = 0
  BY EmptySeq DEF Range
<1>4. TodoInv(<<>>, active', archived')
  BY <1>3 DEF TodoInv
<1> QED BY <1>1, <1>2, <1>3, <1>4 DEF IInv, TurnInv

LEMMA NoticeInv ==
  ASSUME IInv, Notice
  PROVE  IInv'
<1>1. /\ active' = Append(active, Row(NextId, "ui", "plain")) /\ archived' = archived
      /\ link' = link /\ open' = open /\ todo' = todo /\ turn' = turn /\ history' = history
      /\ presses' = presses /\ notices < MaxNotices /\ notices' = notices + 1
  BY DEF Notice
<1>2. ChatInv(active', archived', link', open') /\ TodoInv(todo', active', archived')
  <2> DEFINE r == Row(NextId, "ui", "plain")
  <2>1. r \in RowType /\ r.id = NextId /\ Shape(r) /\ r.of = NoCall
    BY NextRows
  <2> QED BY <2>1, <1>1, AddedInv DEF IInv
<1>3. notices' \in 0 .. MaxNotices
  BY <1>1, BoundsAssumption DEF IInv
<1> QED BY <1>1, <1>2, <1>3 DEF IInv, TurnInv

\* The calls of a batch and the row that holds them.
Made(id, batch)    == [i \in DOMAIN batch |-> [n |-> <<id, i>>, kind |-> batch[i]]]
MadeRow(id, batch) == [Row(id, "assistant", "plain") EXCEPT !.calls = Made(id, batch)]

LEMMA BatchIs ==
  ASSUME NEW batch \in Batches, NEW id \in Nat \ {0},
         NEW made, made = Made(id, batch), NEW row, row = MadeRow(id, batch)
  PROVE  /\ made \in Seq(CallType) /\ Len(made) = Len(batch) /\ made # <<>>
         /\ \A i \in 1 .. Len(made) : made[i].n = <<id, i>> /\ made[i].kind = batch[i]
         /\ row \in RowType /\ row.id = id /\ row.of = NoCall /\ row.role = "assistant" /\ row.text = "plain"
         /\ row.says = {} /\ row.calls = made /\ Shape(row)
<1>1. batch \in Seq(Kinds) /\ batch # <<>>
  BY BatchesAssumption
<1>2. Len(batch) \in Nat /\ DOMAIN batch = 1 .. Len(batch) /\ Len(batch) # 0
  <2>1. Len(batch) \in Nat /\ DOMAIN batch = 1 .. Len(batch)
    BY <1>1, LenProperties
  <2>2. Len(batch) # 0
    BY <1>1, EmptySeq
  <2> QED BY <2>1, <2>2
<1>3. \A i \in 1 .. Len(batch) : made[i] = [n |-> <<id, i>>, kind |-> batch[i]]
  BY <1>2 DEF Made
<1>4. ASSUME NEW i \in 1 .. Len(batch)
      PROVE  made[i] \in CallType /\ made[i].n = <<id, i>> /\ made[i].kind = batch[i]
  <2>1. batch[i] \in Kinds
    BY <1>1, ElementOfSeq
  <2>2. <<id, i>> \in Nat \X Nat
    BY <1>2
  <2> DEFINE c == [n |-> <<id, i>>, kind |-> batch[i]]
  <2>3. c \in CallType /\ c.n = <<id, i>> /\ c.kind = batch[i]
    BY <2>1, <2>2 DEF CallType
  <2>4. made[i] = c
    BY <1>3
  <2> HIDE DEF c
  <2> QED BY <2>3, <2>4
<1>5. made \in [1 .. Len(batch) -> CallType] /\ DOMAIN made = 1 .. Len(batch)
  BY <1>2, <1>4 DEF Made
<1>6. made \in Seq(CallType) /\ Len(made) = Len(batch)
  BY <1>2, <1>5, FunctionIsSeq
<1>7. made # <<>>
  BY <1>2, <1>6, EmptySeq
<1> DEFINE r == Row(id, "assistant", "plain")
<1>8. r \in RowType /\ r.id = id /\ r.role = "assistant" /\ r.of = NoCall /\ r.text = "plain" /\ r.says = {}
  BY NewRows DEF Texts
<1>9. row = [r EXCEPT !.calls = made]
  BY DEF MadeRow
<1> HIDE DEF r
<1>10. row \in RowType /\ row.id = id /\ row.of = NoCall /\ row.role = "assistant" /\ row.text = "plain"
       /\ row.says = {} /\ row.calls = made
  BY <1>6, <1>8, <1>9 DEF RowType
<1>11. \A c \in Calls(row) : c[1] = id
  <2>1. \A i \in DOMAIN made : made[i].n[1] = id
    BY <1>4, <1>5
  <2> QED BY <2>1, <1>10 DEF Calls, Range
<1>12. Shape(row)
  BY <1>10, <1>11 DEF Shape
<1>13. \A i \in 1 .. Len(made) : made[i].n = <<id, i>> /\ made[i].kind = batch[i]
  BY <1>4, <1>6
<1> QED BY <1>6, <1>7, <1>10, <1>12, <1>13

LEMMA CallToolsInv ==
  ASSUME IInv, NEW batch \in Batches, CallTools(batch)
  PROVE  IInv'
<1> DEFINE made == Made(NextId, batch)
           row  == MadeRow(NextId, batch)
<1>1. /\ active' = Append(active, row) /\ archived' = archived /\ link' = link /\ open' = open
      /\ todo' = made /\ presses' = presses /\ notices' = notices
      /\ turn = "ask" /\ turn' = "tools" /\ history' = Append(history, row)
  BY DEF CallTools, CallNumber, Made, MadeRow
<1>2. NextId \in Nat \ {0} /\ NextId = Len(active) + Len(archived) + 1
  BY NextRows
<1>3. /\ made \in Seq(CallType) /\ made # <<>>
      /\ \A i \in 1 .. Len(made) : made[i].n = <<NextId, i>>
      /\ row \in RowType /\ row.id = NextId /\ row.of = NoCall /\ Shape(row)
  BY <1>2, BatchIs
<1> HIDE DEF made, row
<1>4. ChatInv(active', archived', link', open')
  BY <1>1, <1>3, AddedInv DEF IInv
<1>5. active \in Seq(RowType) /\ archived \in Seq(RowType) /\ history \in Seq(RowType)
  BY DEF IInv, ChatInv, TurnInv
<1>6. Len(active') = Len(active) + 1 /\ Ofs(active') = Ofs(active) \cup {NoCall}
  BY <1>1, <1>3, <1>5, AppendIs
<1>7. Len(active) \in Nat /\ Len(archived) \in Nat
  BY <1>5, LenProperties
<1>8. ASSUME NEW x \in Ofs(active') \cup Ofs(archived') PROVE x[1] # NextId
  <2>1. x = NoCall \/ x \in Ofs(active) \cup Ofs(archived)
    BY <1>1, <1>6
  <2>2. CASE x = NoCall
    BY <2>2, <1>2 DEF NoCall
  <2>3. CASE x \in Ofs(active) \cup Ofs(archived)
    <3>1. PICK r \in Range(active) \cup Range(archived) : x = r.of
      BY <2>3 DEF Ofs
    <3>2. r.of[1] <= Len(active) + Len(archived)
      BY DEF IInv, ChatInv
    <3>3. r \in RowType
      BY <1>5, RangeIs
    <3>4. r.of[1] \in Nat
      BY <3>3 DEF RowType
    <3> QED BY <3>1, <3>2, <3>4, <1>2, <1>7
  <2> QED BY <2>1, <2>2, <2>3
<1>9. TodoInv(made, active', archived')
  <2>1. \A i \in 1 .. Len(made) : made[i].n[1] = NextId /\ made[i].n[2] = i
    BY <1>3
  <2>2. NextId \in 1 .. Len(active') + Len(archived')
    BY <1>1, <1>2, <1>6, <1>7
  <2>3. \A i \in 1 .. Len(made) : made[i].n[1] \in 1 .. Len(active') + Len(archived')
                                  /\ made[i].n \notin Ofs(active') \cup Ofs(archived')
    BY <2>1, <2>2, <1>8
  <2>4. \A i, j \in 1 .. Len(made) : made[i].n = made[j].n => i = j
    BY <2>1
  <2> QED BY <2>3, <2>4, <1>3 DEF TodoInv
<1>10. history' \in Seq(RowType) /\ \A r \in Range(history') : Shape(r)
  <2>1. history' \in Seq(RowType) /\ Range(history') = Range(history) \cup {row}
    BY <1>1, <1>3, <1>5, AppendIs
  <2> QED BY <2>1, <1>3 DEF IInv, TurnInv
<1> QED BY <1>1, <1>3, <1>4, <1>9, <1>10 DEF IInv, TurnInv

\* The row of a call.
LEMMA ToolRowIs ==
  ASSUME NextId \in Nat \ {0}, NEW c \in Nat \X Nat, NEW text \in Texts, NEW r, r = ToolRow(c, text)
  PROVE  /\ r \in RowType /\ Shape(r) /\ r.id = NextId /\ r.of = c /\ r.role = "tool" /\ r.text = text
         /\ r.says = {} /\ r.calls = <<>>
<1> DEFINE id == NextId
           b  == Row(id, "tool", text)
<1>0. id \in Nat \ {0} /\ "tool" \in {"user", "assistant", "tool", "ui"}
  OBVIOUS
<1> HIDE DEF id
<1>1. b \in RowType /\ b.id = id /\ b.role = "tool" /\ b.text = text /\ b.says = {} /\ b.calls = <<>>
      /\ Calls(b) = {}
  BY <1>0, NewRows
<1>2. r = [b EXCEPT !.of = c]
  BY DEF ToolRow, id
<1> HIDE DEF b
<1>3. /\ r \in RowType /\ r.id = id /\ r.of = c /\ r.role = "tool" /\ r.text = text
      /\ r.says = {} /\ r.calls = <<>>
  BY <1>0, <1>1, <1>2 DEF RowType
<1>4. Calls(r) = {}
  BY <1>1, <1>3 DEF Calls
<1>5. Shape(r)
  BY <1>3, <1>4 DEF Shape
<1> QED BY <1>3, <1>5 DEF id

\* The calls to do: the first one, and the others.
LEMMA TodoIs ==
  ASSUME IInv, turn = "tools"
  PROVE  /\ todo \in Seq(CallType) /\ Len(todo) \in Nat \ {0} /\ Head(todo) = todo[1]
         /\ Tail(todo) \in Seq(CallType) /\ Len(Tail(todo)) = Len(todo) - 1
         /\ \A i \in 1 .. Len(Tail(todo)) : i + 1 \in 1 .. Len(todo) /\ Tail(todo)[i] = todo[i + 1]
         /\ \A i \in 1 .. Len(todo) :
              /\ todo[i] \in CallType /\ todo[i].n \in Nat \X Nat
              /\ todo[i].n[1] \in 1 .. Len(active) + Len(archived)
              /\ todo[i].n \notin Ofs(active) /\ todo[i].n \notin Ofs(archived)
         /\ \A i, j \in 1 .. Len(todo) : todo[i].n = todo[j].n => i = j
<1>1. todo \in Seq(CallType) /\ todo # <<>>
  BY DEF IInv, TodoInv, TurnInv
<1>2. Len(todo) \in Nat /\ Len(todo) # 0
  BY <1>1, EmptySeq, LenProperties
<1>3. Head(todo) = todo[1]
  BY <1>1, HeadTailProperties
<1>4. Tail(todo) \in Seq(CallType) /\ Len(Tail(todo)) = Len(todo) - 1
      /\ \A i \in 1 .. Len(Tail(todo)) : Tail(todo)[i] = todo[i + 1]
  BY <1>1, HeadTailProperties
<1>5. \A i \in 1 .. Len(Tail(todo)) : i + 1 \in 1 .. Len(todo)
  BY <1>2, <1>4
<1>6. ASSUME NEW i \in 1 .. Len(todo)
      PROVE  /\ todo[i] \in CallType /\ todo[i].n \in Nat \X Nat
             /\ todo[i].n[1] \in 1 .. Len(active) + Len(archived)
             /\ todo[i].n \notin Ofs(active) /\ todo[i].n \notin Ofs(archived)
  <2>1. todo[i] \in CallType
    BY <1>1, ElementOfSeq
  <2>2. todo[i].n \in Nat \X Nat
    BY <2>1 DEF CallType
  <2> QED BY <2>1, <2>2 DEF IInv, TodoInv
<1>7. \A i, j \in 1 .. Len(todo) : todo[i].n = todo[j].n => i = j
  BY DEF IInv, TodoInv
<1> QED BY <1>1, <1>2, <1>3, <1>4, <1>5, <1>6, <1>7

\* A call that has no row gets one.
LEMMA SavedIs ==
  ASSUME active \in Seq(RowType), archived \in Seq(RowType), NEW c, c \notin Ofs(active), c \notin Ofs(archived),
         NEW text, SaveResult(c, text)
  PROVE  active' = Append(active, ToolRow(c, text)) /\ archived' = archived
<1>1. ~ Has(active, c) /\ ~ Has(archived, c)
  BY HasIs
<1> QED BY <1>1 DEF SaveResult

LEMMA ResultInv ==
  ASSUME IInv, Result
  PROVE  IInv'
<1> DEFINE c == Head(todo)
           r == ToolRow(c.n, Output(c.kind))
<1>1. /\ turn = "tools" /\ SaveResult(c.n, Output(c.kind)) /\ history' = Append(history, r)
      /\ todo' = Tail(todo) /\ turn' = IF Len(todo) = 1 THEN "ask" ELSE "tools"
      /\ link' = link /\ open' = open /\ presses' = presses /\ notices' = notices
  BY DEF Result
<1>2. active \in Seq(RowType) /\ archived \in Seq(RowType) /\ history \in Seq(RowType)
  BY DEF IInv, ChatInv, TurnInv
<1>3. /\ todo \in Seq(CallType) /\ Len(todo) \in Nat \ {0} /\ c = todo[1] /\ 1 \in 1 .. Len(todo)
      /\ c.n \in Nat \X Nat /\ c.n[1] \in 1 .. Len(active) + Len(archived)
      /\ c.n \notin Ofs(active) /\ c.n \notin Ofs(archived)
  <2>1. Len(todo) \in Nat \ {0} /\ todo \in Seq(CallType)
    BY <1>1, TodoIs
  <2>2. 1 \in 1 .. Len(todo)
    BY <2>1
  <2> QED BY <1>1, <2>1, <2>2, TodoIs
<1>4. active' = Append(active, r) /\ archived' = archived
  BY <1>1, <1>2, <1>3, SavedIs
<1>5. NextId \in Nat \ {0} /\ NextId = Len(active) + Len(archived) + 1
  BY NextRows
<1>6. r \in RowType /\ Shape(r) /\ r.id = NextId /\ r.of = c.n
  <2>1. Output(c.kind) \in Texts
    BY DEF Output, Texts
  <2> QED BY <2>1, <1>3, <1>5, ToolRowIs
<1> HIDE DEF r, c
<1>7. Len(active) \in Nat /\ Len(archived) \in Nat
  BY <1>2, LenProperties
<1>8. ChatInv(active', archived', link', open')
  <2>1. r.of[1] <= Len(active) + Len(archived) + 1
    BY <1>3, <1>6, <1>7
  <2>2. ChatInv(Append(active, r), archived, link, open)
    BY <2>1, <1>5, <1>6, AppendedInv DEF IInv
  <2> QED BY <2>2, <1>1, <1>4
<1>9. Len(active') = Len(active) + 1 /\ Ofs(active') = Ofs(active) \cup {c.n}
  BY <1>2, <1>4, <1>6, AppendIs
<1>10. /\ Tail(todo) \in Seq(CallType) /\ Len(Tail(todo)) = Len(todo) - 1
       /\ \A i \in 1 .. Len(Tail(todo)) : i + 1 \in 1 .. Len(todo) /\ Tail(todo)[i] = todo[i + 1]
       /\ \A i \in 1 .. Len(todo) : /\ todo[i].n[1] \in 1 .. Len(active) + Len(archived)
                                     /\ todo[i].n \notin Ofs(active) /\ todo[i].n \notin Ofs(archived)
       /\ \A i, j \in 1 .. Len(todo) : todo[i].n = todo[j].n => i = j
  BY <1>1, TodoIs
<1>11. TodoInv(todo', active', archived')
  <2> DEFINE rest == Tail(todo)
  <2>1. ASSUME NEW i \in 1 .. Len(rest)
        PROVE  /\ rest[i].n[1] \in 1 .. Len(active') + Len(archived')
               /\ rest[i].n \notin Ofs(active') \cup Ofs(archived')
    <3>1. i + 1 \in 1 .. Len(todo) /\ rest[i] = todo[i + 1] /\ i + 1 # 1
      BY <1>10
    <3>2. todo[i + 1].n # c.n
      BY <3>1, <1>3, <1>10
    <3>3. todo[i + 1].n[1] \in 1 .. Len(active) + Len(archived)
          /\ todo[i + 1].n \notin Ofs(active) /\ todo[i + 1].n \notin Ofs(archived)
      BY <3>1, <1>10
    <3>4. rest[i].n[1] \in 1 .. Len(active') + Len(archived')
      BY <3>1, <3>3, <1>4, <1>7, <1>9
    <3> QED BY <3>1, <3>2, <3>3, <3>4, <1>4, <1>9
  <2>2. ASSUME NEW i \in 1 .. Len(rest), NEW j \in 1 .. Len(rest), rest[i].n = rest[j].n PROVE i = j
    <3>1. i + 1 = j + 1
      BY <2>2, <1>10
    <3> QED BY <3>1, <1>3, <1>10
  <2>3. rest \in Seq(CallType)
    BY <1>10
  <2> HIDE DEF rest
  <2>4. TodoInv(rest, active', archived')
    BY <2>1, <2>2, <2>3 DEF TodoInv
  <2> QED BY <2>4, <1>1 DEF rest
<1>12. history' \in Seq(RowType) /\ \A x \in Range(history') : Shape(x)
  <2>1. history' \in Seq(RowType) /\ Range(history') = Range(history) \cup {r}
    BY <1>1, <1>2, <1>6, AppendIs
  <2> QED BY <2>1, <1>6 DEF IInv, TurnInv
<1>13. (turn' = "tools") = (todo' # <<>>) /\ turn' # "idle"
  <2>1. Len(todo') = Len(todo) - 1 /\ todo' \in Seq(CallType)
    BY <1>1, <1>10
  <2>2. (todo' # <<>>) = (Len(todo) # 1)
    BY <2>1, <1>3, EmptySeq
  <2> QED BY <2>2, <1>1
<1> QED BY <1>1, <1>8, <1>11, <1>12, <1>13 DEF IInv, TurnInv

\* The rows of the parked call and of the deferred ones.
ParkedRows ==
  [i \in DOMAIN todo |->
     [ToolRow(todo[i].n, IF i = 1 THEN "parked" ELSE "plain") EXCEPT !.id = NextId + i - 1]]

LEMMA ParkedAre ==
  ASSUME IInv, turn = "tools"
  PROVE  /\ ParkedRows \in Seq(RowType) /\ Len(ParkedRows) = Len(todo)
         /\ \A i \in 1 .. Len(todo) :
              /\ ParkedRows[i].id = NextId + i - 1 /\ ParkedRows[i].of = todo[i].n
              /\ ParkedRows[i].role = "tool" /\ ParkedRows[i].calls = <<>> /\ Shape(ParkedRows[i])
<1> DEFINE Text(i) == IF i = 1 THEN "parked" ELSE "plain"
           new == ParkedRows
           L   == Len(todo)
<1>1. /\ L \in Nat \ {0} /\ DOMAIN todo = 1 .. L /\ \A i \in 1 .. L : todo[i].n \in Nat \X Nat
  <2>1. todo \in Seq(CallType)
    BY TodoIs
  <2> QED BY <2>1, TodoIs, LenProperties
<1>2. NextId \in Nat \ {0}
  BY NextRows
<1> HIDE DEF L
<1>3. ASSUME NEW i \in 1 .. L
      PROVE  /\ new[i] \in RowType /\ new[i].id = NextId + i - 1 /\ new[i].of = todo[i].n
             /\ new[i].role = "tool" /\ new[i].calls = <<>> /\ Shape(new[i])
  <2> DEFINE b == ToolRow(todo[i].n, Text(i))
             id == NextId + i - 1
  <2>1. Text(i) \in Texts /\ todo[i].n \in Nat \X Nat
    BY <1>1 DEF Texts
  <2>2. b \in RowType /\ Shape(b) /\ b.of = todo[i].n /\ b.role = "tool" /\ b.calls = <<>>
    BY <2>1, <1>2, ToolRowIs
  <2>3. id \in Nat \ {0} /\ new[i] = [b EXCEPT !.id = id]
    BY <1>1, <1>2 DEF ParkedRows
  <2> HIDE DEF b, id, new
  <2>4. new[i] \in RowType /\ new[i].id = id /\ new[i].of = todo[i].n /\ new[i].role = "tool" /\ new[i].calls = <<>>
    BY <2>2, <2>3 DEF RowType
  <2>5. DOMAIN <<>> = {}
    BY EmptySeq
  <2>6. Calls(new[i]) = {}
    BY <2>4, <2>5 DEF Calls, Range
  <2>7. Shape(new[i])
    BY <2>4, <2>6 DEF Shape
  <2> QED BY <2>4, <2>7 DEF id
<1>4. new \in Seq(RowType) /\ Len(new) = L
  <2>1. DOMAIN new = 1 .. L /\ new = [i \in 1 .. L |-> new[i]]
    BY <1>1 DEF ParkedRows
  <2> HIDE DEF new
  <2>2. new \in [1 .. L -> RowType]
    BY <2>1, <1>3
  <2> QED BY <2>2, <1>1, FunctionIsSeq
<1> QED BY <1>3, <1>4 DEF L

LEMMA ParkInv ==
  ASSUME IInv, Park
  PROVE  IInv'
<1> DEFINE new == ParkedRows
           L   == Len(todo)
<1>1. /\ turn = "tools" /\ open' = open \cup {Head(todo).n} /\ active' = active \o new
      /\ history' = <<>> /\ todo' = <<>> /\ turn' = "idle" /\ archived' = archived /\ link' = link
      /\ presses' = presses /\ notices' = notices
  BY DEF Park, ParkedRows
<1>2. active \in Seq(RowType) /\ archived \in Seq(RowType)
  BY DEF IInv, ChatInv
<1>3. /\ L \in Nat \ {0} /\ Head(todo) = todo[1]
      /\ \A i \in 1 .. L : todo[i].n[1] \in 1 .. Len(active) + Len(archived)
  BY <1>1, TodoIs
<1>4. NextId \in Nat \ {0} /\ NextId = Len(active) + Len(archived) + 1
  BY NextRows
<1>5. Len(active) \in Nat /\ Len(archived) \in Nat
  BY <1>2, LenProperties
<1> HIDE DEF L, new
<1>6. \A i \in 1 .. L : new[i].id = NextId + i - 1 /\ new[i].of = todo[i].n /\ Shape(new[i])
  BY <1>1, ParkedAre DEF L, new
<1>7. new \in Seq(RowType) /\ Len(new) = L
  BY <1>1, ParkedAre DEF L, new
<1>8. /\ Range(new) = {new[i] : i \in 1 .. L} /\ Ids(new) = {new[i].id : i \in 1 .. L}
      /\ Ofs(new) = {new[i].of : i \in 1 .. L}
  BY <1>7, RangeIs
<1>9. Ids(new) = Len(active) + Len(archived) + 1 .. Len(active) + Len(archived) + Len(new)
  <2> DEFINE N == Len(active) + Len(archived)
  <2>1. N \in Nat /\ \A i \in 1 .. L : new[i].id = N + i
    BY <1>4, <1>5, <1>6
  <2> HIDE DEF N
  <2>2. \A i \in 1 .. L : new[i].id \in N + 1 .. N + L
    BY <2>1, <1>3
  <2>3. ASSUME NEW x \in N + 1 .. N + L PROVE x \in Ids(new)
    <3>1. x - N \in 1 .. L /\ N + (x - N) = x
      BY <2>1, <1>3
    <3>2. new[x - N].id = x
      BY <3>1, <2>1
    <3> QED BY <3>1, <3>2, <1>8
  <2>4. Ids(new) = N + 1 .. N + L
    BY <2>2, <2>3, <1>8
  <2> QED BY <2>4, <1>7 DEF N
<1>10. ASSUME NEW r \in Range(new)
       PROVE  Shape(r) /\ r.of[1] <= Len(active) + Len(archived) + Len(new)
  <2>1. PICK i \in 1 .. L : r = new[i]
    BY <1>8
  <2>2. r.of[1] \in 1 .. Len(active) + Len(archived)
    BY <2>1, <1>3, <1>6
  <2>3. r.of[1] <= Len(active) + Len(archived) + Len(new)
    BY <2>2, <1>3, <1>5, <1>7
  <2> QED BY <2>1, <2>3, <1>6
<1>11. open' \subseteq open \cup Ofs(new)
  <2>1. 1 \in 1 .. L
    BY <1>3
  <2>2. new[1].of = Head(todo).n
    BY <2>1, <1>3, <1>6
  <2> QED BY <2>1, <2>2, <1>1, <1>8
<1>12. ChatInv(active', archived', link', open')
  <2> DEFINE more == open \cup {Head(todo).n}
  <2>1. more \subseteq open \cup Ofs(new) /\ more = open'
    BY <1>1, <1>11
  <2> HIDE DEF more
  <2>2. ChatInv(active \o new, archived, link, more)
    BY <2>1, <1>7, <1>9, <1>10, GrownInv DEF IInv
  <2> QED BY <2>1, <2>2, <1>1
<1>13. <<>> \in Seq(RowType) /\ <<>> \in Seq(CallType) /\ Range(<<>>) = {} /\ Len(<<>>) = 0
  BY EmptySeq DEF Range
<1>14. TodoInv(<<>>, active', archived')
  BY <1>13 DEF TodoInv
<1> QED BY <1>1, <1>12, <1>13, <1>14 DEF IInv, TurnInv

\* A decision rewrites a row of the call.
LEMMA DecideInv ==
  ASSUME IInv, NEW c \in open, NEW resumes \in BOOLEAN, Decide(c, resumes)
  PROVE  /\ IInv'
         /\ \/ Has(active, c) /\ active' = Rewritten(active, c, "decided") /\ archived' = archived
            \/ Has(archived, c) /\ archived' = Rewritten(archived, c, "decided") /\ active' = active
<1>1. /\ open' = open \ {c} /\ SaveResult(c, "decided") /\ link' = link /\ todo' = todo
      /\ presses' = presses /\ notices' = notices
      /\ \/ turn = "idle" /\ turn' = "ask" /\ history' = Spoken(active')
         \/ history' = history /\ turn' = turn
  BY DEF Decide, GoOn
<1>2. active \in Seq(RowType) /\ archived \in Seq(RowType)
  BY DEF IInv, ChatInv
<1>3. c \in Ofs(active) \/ c \in Ofs(archived)
  BY DEF IInv, ChatInv
<1>4. \/ Has(active, c) /\ active' = Rewritten(active, c, "decided") /\ archived' = archived
      \/ Has(archived, c) /\ archived' = Rewritten(archived, c, "decided") /\ active' = active
  <2>1. Has(active, c) \/ Has(archived, c)
    BY <1>2, <1>3, HasIs
  <2> QED BY <2>1, <1>1 DEF SaveResult
<1>5. "decided" \in Texts
  BY DEF Texts
<1> DEFINE fewer == open \ {c}
<1>6. fewer \in SUBSET open /\ open' = fewer
  BY <1>1
<1> HIDE DEF fewer
<1>7. ChatInv(active', archived', link', open')
  <2>1. CASE Has(active, c) /\ active' = Rewritten(active, c, "decided") /\ archived' = archived
    <3>1. ChatInv(Rewritten(active, c, "decided"), archived, link, fewer)
      BY <2>1, <1>5, <1>6, ShownRewrittenInv DEF IInv
    <3> QED BY <2>1, <3>1, <1>1, <1>6
  <2>2. CASE Has(archived, c) /\ archived' = Rewritten(archived, c, "decided") /\ active' = active
    <3>1. ChatInv(active, Rewritten(archived, c, "decided"), link, fewer)
      BY <2>2, <1>5, <1>6, HiddenRewrittenInv DEF IInv
    <3> QED BY <2>2, <3>1, <1>1, <1>6
  <2> QED BY <2>1, <2>2, <1>4
<1>8. Len(active') = Len(active) /\ Len(archived') = Len(archived)
      /\ Ofs(active') = Ofs(active) /\ Ofs(archived') = Ofs(archived)
  BY <1>2, <1>4, <1>5, RewrittenIs
<1>9. TodoInv(todo', active', archived')
  BY <1>1, <1>8 DEF IInv, TodoInv
<1>10. history' \in Seq(RowType) /\ \A r \in Range(history') : Shape(r)
  <2>1. CASE history' = Spoken(active')
    <3>1. active' \in Seq(RowType) /\ \A r \in Range(active') : Shape(r)
      BY <1>7 DEF ChatInv
    <3> QED BY <2>1, <3>1, SpokenShape
  <2>2. CASE history' = history
    BY <2>2 DEF IInv, TurnInv
  <2> QED BY <2>1, <2>2, <1>1
<1> QED BY <1>1, <1>4, <1>7, <1>9, <1>10 DEF IInv, TurnInv

\* A child's decision is saved as the result of a call that no row of the chat holds.
LEMMA CopyIs ==
  ASSUME IInv, NEW resumes \in BOOLEAN, DecideForChild(resumes), NEW r, r = ToolRow(<<0, notices'>>, "decided")
  PROVE  /\ active' = Append(active, r) /\ archived' = archived /\ notices' \in 0 .. MaxNotices
         /\ r \in RowType /\ Shape(r) /\ r.id = NextId /\ r.role = "tool" /\ r.of[1] = 0 /\ Elsewhere(r.of)
<1>1. notices' = notices + 1 /\ notices < MaxNotices /\ notices \in 0 .. MaxNotices /\ MaxNotices \in Nat
  BY BoundsAssumption DEF DecideForChild, IInv
<1>2. notices' \in Nat /\ notices' # 0 /\ notices' \in 0 .. MaxNotices
  BY <1>1
<1> DEFINE c == <<0, notices'>>
<1>3. c \in Nat \X Nat /\ c[1] = 0 /\ c # NoCall
  BY <1>2 DEF NoCall
<1>4. NextId \in Nat \ {0} /\ "decided" \in Texts
  BY NextRows DEF Texts
<1>5. r = ToolRow(c, "decided")
  OBVIOUS
<1>6. active' = Append(active, r) /\ archived' = archived
  BY DEF DecideForChild
<1> HIDE DEF c
<1>7. r \in RowType /\ Shape(r) /\ r.id = NextId /\ r.of = c /\ r.role = "tool"
  BY <1>3, <1>4, <1>5, ToolRowIs
<1> QED BY <1>2, <1>3, <1>6, <1>7 DEF Elsewhere

LEMMA DecideForChildInv ==
  ASSUME IInv, NEW resumes \in BOOLEAN, DecideForChild(resumes)
  PROVE  IInv'
<1> DEFINE r == ToolRow(<<0, notices'>>, "decided")
<1>1. /\ link' = link /\ open' = open /\ todo' = todo /\ presses' = presses
      /\ \/ turn = "idle" /\ turn' = "ask" /\ history' = Spoken(active')
         \/ history' = history /\ turn' = turn
  BY DEF DecideForChild, GoOn
<1>2. /\ active' = Append(active, r) /\ archived' = archived /\ notices' \in 0 .. MaxNotices
      /\ r \in RowType /\ Shape(r) /\ r.id = NextId /\ r.of[1] = 0
  BY CopyIs
<1> HIDE DEF r
<1>3. active \in Seq(RowType) /\ archived \in Seq(RowType)
  BY DEF IInv, ChatInv
<1>4. Len(active) \in Nat /\ Len(archived) \in Nat /\ NextId = Len(active) + Len(archived) + 1
  BY <1>3, LenProperties, NextRows
<1>5. ChatInv(active', archived', link', open')
  <2>1. r.of[1] <= Len(active) + Len(archived) + 1 /\ r.id = Len(active) + Len(archived) + 1
    BY <1>2, <1>4
  <2>2. open \subseteq open \cup {r.of}
    OBVIOUS
  <2>3. ChatInv(Append(active, r), archived, link, open)
    BY <2>1, <2>2, <1>2, AppendedInv DEF IInv
  <2> QED BY <2>3, <1>1, <1>2
<1>6. Len(active') = Len(active) + 1 /\ Ofs(active') = Ofs(active) \cup {r.of}
  BY <1>2, <1>3, AppendIs
<1>7. TodoInv(todo', active', archived')
  <2>1. ASSUME NEW i \in 1 .. Len(todo)
        PROVE  todo[i].n[1] \in 1 .. Len(active') + Len(archived') /\ todo[i].n \notin Ofs(active') \cup Ofs(archived')
    <3>1. todo[i].n[1] \in 1 .. Len(active) + Len(archived) /\ todo[i].n \notin Ofs(active) \cup Ofs(archived)
      BY DEF IInv, TodoInv
    <3>2. todo[i].n[1] \in 1 .. Len(active') + Len(archived') /\ todo[i].n[1] # 0
      BY <3>1, <1>2, <1>4, <1>6
    <3> QED BY <3>1, <3>2, <1>2, <1>6
  <2> QED BY <2>1, <1>1 DEF IInv, TodoInv
<1>8. history' \in Seq(RowType) /\ \A x \in Range(history') : Shape(x)
  <2>1. CASE history' = Spoken(active')
    <3>1. active' \in Seq(RowType) /\ \A x \in Range(active') : Shape(x)
      BY <1>5 DEF ChatInv
    <3> QED BY <2>1, <3>1, SpokenShape
  <2>2. CASE history' = history
    BY <2>2 DEF IInv, TurnInv
  <2> QED BY <2>1, <2>2, <1>1
<1> QED BY <1>1, <1>2, <1>5, <1>7, <1>8 DEF IInv, TurnInv

\* Rows are drafts, so sequences of them can be compacted.
LEMMA RowsAreDrafts ==
  ASSUME NEW s \in Seq(RowType)
  PROVE  s \in Rows
<1>1. RowType \subseteq DraftType
  BY RowIsDraft
<1> QED BY <1>1, SeqMonotonic DEF Rows

LEMMA StoredRows ==
  ASSUME IInv
  PROVE  active \in Rows /\ history \in Rows
BY RowsAreDrafts DEF IInv, ChatInv, TurnInv

\* The button keeps the chat in order, and each row, or its pinned form.
LEMMA PressInv ==
  ASSUME IInv, Press
  PROVE  /\ IInv'
         /\ \A r \in Range(active) \cup Range(archived) : \E s \in Range(active') \cup Range(archived') :
              s = r \/ (Views(r) /\ s = PinnedForm(r))
<1>1. /\ presses < MaxPresses /\ presses' = presses + 1 /\ history' = history /\ turn' = turn
      /\ todo' = todo /\ open' = open /\ notices' = notices
  BY DEF Press
<1>2. PICK fits \in BOOLEAN, shrinks \in BOOLEAN :
        LET c == Compact(active, ButtonKeep, TRUE, TRUE, fits, shrinks)
        IN IF c.applied THEN Replace(c.rows) ELSE UNCHANGED <<active, archived, link>>
  BY DEF Press
<1> DEFINE rows == Compact(active, ButtonKeep, TRUE, TRUE, fits, shrinks).rows
<1>3. Replace(rows) \/ (active' = active /\ archived' = archived /\ link' = link)
  BY <1>2
<1>4. active \in Seq(RowType) /\ archived \in Seq(RowType)
  BY DEF IInv, ChatInv
<1>5. active \in Rows
  BY StoredRows
<1>6. rows \in Rows /\ \E from : TakenFrom(rows, active, from)
  <2>1. ButtonKeep \in Nat
    BY KeepsAssumption
  <2> DEFINE yes == TRUE
  <2> HIDE DEF yes
  <2>2. LET t == Compact(active, ButtonKeep, yes, yes, fits, shrinks).rows
        IN t \in Rows /\ \E from : TakenFrom(t, active, from)
    BY <2>1, <1>5, CompactTakes
  <2> QED BY <2>2 DEF yes
<1> HIDE DEF rows
<1>7. /\ ChatInv(active', archived', link', open')
      /\ Len(active) + Len(archived) <= Len(active') + Len(archived')
      /\ Ofs(active') \cup Ofs(archived') \subseteq Ofs(active) \cup Ofs(archived) \cup {NoCall}
      /\ \A r \in Range(active) \cup Range(archived) : \E s \in Range(active') \cup Range(archived') :
           s = r \/ (Views(r) /\ s = PinnedForm(r))
  <2>1. CASE Replace(rows)
    <3>1. PICK from : TakenFrom(rows, active, from)
      BY <1>6
    <3>2. ReplacedWell
      BY <2>1, <3>1, <1>6, ReplaceInv DEF IInv
    <3> QED BY <3>2, <1>1 DEF ReplacedWell
  <2>2. CASE active' = active /\ archived' = archived /\ link' = link
    <3>1. Len(active) + Len(archived) \in Nat
      BY <1>4, StoredIs
    <3> QED BY <2>2, <3>1, <1>1 DEF IInv
  <2> QED BY <2>1, <2>2, <1>3
<1>8. TodoInv(todo', active', archived')
  <2>1. active' \in Seq(RowType) /\ archived' \in Seq(RowType)
    BY <1>7 DEF ChatInv
  <2>2. Len(active) + Len(archived) \in Nat /\ Len(active') + Len(archived') \in Nat
    BY <2>1, <1>4, StoredIs
  <2>3. TodoInv(todo, active', archived')
    BY <2>2, <1>7, TodoKept DEF IInv
  <2> QED BY <2>3, <1>1
<1>9. presses' \in 0 .. MaxPresses
  BY <1>1, BoundsAssumption DEF IInv
<1> QED BY <1>1, <1>7, <1>8, <1>9 DEF IInv, TurnInv

LEMMA StepInv ==
  ASSUME IInv, [Next]_vars
  PROVE  IInv'
<1>1. CASE Say
  BY <1>1, SayInv
<1>2. CASE Answer
  BY <1>2, AnswerInv
<1>3. CASE Result
  BY <1>3, ResultInv
<1>4. CASE Park
  BY <1>4, ParkInv
<1>5. CASE Notice
  BY <1>5, NoticeInv
<1>6. CASE Press
  BY <1>6, PressInv
<1>7. ASSUME NEW b \in Batches, CallTools(b) PROVE IInv'
  BY <1>7, CallToolsInv
<1>8. ASSUME NEW partial \in BOOLEAN, Interrupt(partial) PROVE IInv'
  BY <1>8, InterruptInv
<1>9. ASSUME NEW c \in open, NEW resumes \in BOOLEAN, Decide(c, resumes) PROVE IInv'
  BY <1>9, DecideInv
<1>10. ASSUME NEW resumes \in BOOLEAN, DecideForChild(resumes) PROVE IInv'
  BY <1>10, DecideForChildInv
<1>11. CASE UNCHANGED vars
  BY <1>11 DEF vars, IInv, ChatInv, TodoInv, TurnInv
<1> QED BY <1>1, <1>2, <1>3, <1>4, <1>5, <1>6, <1>7, <1>8, <1>9, <1>10, <1>11 DEF Next

LEMMA Invariant ==
  Spec => []IInv
<1>1. Init => IInv
  BY InitInv
<1>2. IInv /\ [Next]_vars => IInv'
  BY StepInv
<1> QED BY <1>1, <1>2, PTL DEF Spec

-----------------------------------------------------------------------------
(* What is proved of every run. *)

\* Every variable is of its type; the ids of the rows of a chat, shown or archived, are
\* the numbers from 1 on, and the link of an archived row leads to a row that exists,
\* whatever the batches, the rows that are kept and the number of rows.
THEOREM TypeCorrect ==
  Spec => []TypeOK
<1>1. ASSUME IInv PROVE TypeOK
  <2>1. active \in Seq(RowType) /\ archived \in Seq(RowType)
    BY <1>1 DEF IInv, ChatInv
  <2>2. /\ Range(Stored) = Range(active) \cup Range(archived) /\ Len(Stored) = Len(active) + Len(archived)
        /\ Ids(Stored) = Ids(active) \cup Ids(archived) /\ Ofs(Stored) = Ofs(active) \cup Ofs(archived)
    BY <2>1, StoredIs DEF Stored
  <2>3. Ids(Stored) = 1 .. Len(Stored) /\ link \in [Ids(archived) -> Ids(Stored)]
    BY <2>2, <1>1 DEF IInv, ChatInv
  <2>4. open \subseteq {r.of : r \in Range(Stored)}
    BY <2>2, <1>1 DEF IInv, ChatInv, Ofs
  <2> QED BY <2>1, <2>3, <2>4, <1>1 DEF TypeOK, IInv, TurnInv, TodoInv
<1> QED BY <1>1, Invariant, PTL

\* The link of every archived row leads to a row of the chat, over rows that were
\* archived later: a row that the button hid can always be found.
THEOREM LinksEndInChatHolds ==
  Spec => []LinksEndInChat
<1>1. ASSUME IInv PROVE LinksEndInChat
  <2>1. DOMAIN archived = 1 .. Len(archived)
    BY <1>1, LenProperties DEF IInv, ChatInv
  <2> QED BY <2>1, <1>1 DEF IInv, ChatInv, LinksEndInChat
<1> QED BY <1>1, Invariant, PTL

\* What becomes of a row in a step.
LEMMA RowKept ==
  ASSUME IInv, [Next]_vars, NEW r \in Range(active) \cup Range(archived)
  PROVE  \E s \in Range(active') \cup Range(archived') :
           \/ s = r
           \/ s = [r EXCEPT !.text = "decided"] /\ r.of \in open \ open'
           \/ presses' # presses /\ Views(r) /\ s = PinnedForm(r)
<1>1. active \in Seq(RowType) /\ archived \in Seq(RowType) /\ active' \in Seq(RowType) /\ archived' \in Seq(RowType)
  BY StepInv DEF IInv, ChatInv
<1>2. ASSUME NEW x, active' = Append(active, x), archived' = archived
      PROVE  r \in Range(active') \cup Range(archived')
  <2>1. active' \in Seq(RowType) /\ Len(active) \in Nat /\ Len(active') = Len(active) + 1
        /\ \A i \in 1 .. Len(active) : active'[i] = active[i]
    BY <1>1, <1>2, AppendProperties, LenProperties
  <2>2. \A i \in 1 .. Len(active) : i \in 1 .. Len(active') /\ active'[i] = active[i]
    BY <2>1
  <2>3. Range(active) = {active[i] : i \in 1 .. Len(active)} /\ Range(active') = {active'[i] : i \in 1 .. Len(active')}
    BY <1>1, RangeIs
  <2>4. Range(active) \subseteq Range(active')
    BY <2>2, <2>3
  <2> QED BY <2>4, <1>2
<1>3. CASE Say
  BY <1>2, <1>3 DEF Say
<1>4. CASE Answer
  BY <1>2, <1>4 DEF Answer
<1>5. CASE Result
  <2>1. todo \in Seq(CallType) /\ Len(todo) \in Nat \ {0} /\ Head(todo) = todo[1]
        /\ \A i \in 1 .. Len(todo) : todo[i].n \notin Ofs(active) /\ todo[i].n \notin Ofs(archived)
    BY <1>5, TodoIs DEF Result
  <2>2. 1 \in 1 .. Len(todo)
    BY <2>1
  <2>3. SaveResult(Head(todo).n, Output(Head(todo).kind))
    BY <1>5 DEF Result
  <2>4. active' = Append(active, ToolRow(Head(todo).n, Output(Head(todo).kind))) /\ archived' = archived
    BY <2>1, <2>2, <2>3, <1>1, SavedIs
  <2> QED BY <2>4, <1>2
<1>6. CASE Park
  <2>1. active' = active \o ParkedRows /\ archived' = archived /\ turn = "tools"
    BY <1>6 DEF Park, ParkedRows
  <2>2. ParkedRows \in Seq(RowType)
    BY <2>1, ParkedAre
  <2>3. Range(active \o ParkedRows) = Range(active) \cup Range(ParkedRows)
    BY <2>2, <1>1, ConcatIs
  <2> QED BY <2>1, <2>3
<1>7. CASE Notice
  BY <1>2, <1>7 DEF Notice
<1>8. CASE Press
  <2>1. presses' # presses
    BY <1>8 DEF Press, IInv
  <2> QED BY <2>1, <1>8, PressInv
<1>9. ASSUME NEW b \in Batches, CallTools(b) PROVE r \in Range(active') \cup Range(archived')
  BY <1>2, <1>9 DEF CallTools
<1>10. ASSUME NEW partial \in BOOLEAN, Interrupt(partial) PROVE r \in Range(active') \cup Range(archived')
  <2>1. /\ active' = Append(active, Row(NextId, "assistant", "plain")) \/ active' = active
        /\ archived' = archived
    BY <1>10 DEF Interrupt
  <2> QED BY <2>1, <1>2
<1>11. ASSUME NEW c \in open, NEW resumes \in BOOLEAN, Decide(c, resumes)
       PROVE  \E s \in Range(active') \cup Range(archived') :
                s = r \/ (s = [r EXCEPT !.text = "decided"] /\ r.of \in open \ open')
  <2>1. c \in open \ open'
    BY <1>11 DEF Decide
  <2>2. "decided" \in Texts
    BY DEF Texts
  <2>3. ASSUME NEW rows \in Seq(RowType), Has(rows, c), NEW x \in Range(rows)
        PROVE  \E s \in Range(Rewritten(rows, c, "decided")) : s = x \/ (s = [x EXCEPT !.text = "decided"] /\ x.of = c)
    <3> DEFINE w == Rewritten(rows, c, "decided")
    <3>1. PICK y \in 1 .. Len(rows) :
            /\ rows[y].of = c /\ w[y] = [rows[y] EXCEPT !.text = "decided"]
            /\ \A i \in 1 .. Len(rows) : i # y => w[i] = rows[i]
      BY <2>2, <2>3, RewrittenIs
    <3>2. w \in Seq(RowType) /\ Len(w) = Len(rows)
      BY <2>2, <2>3, RewrittenIs
    <3> HIDE DEF w
    <3>3. PICK i \in 1 .. Len(rows) : x = rows[i]
      BY RangeIs
    <3>4. Range(w) = {w[k] : k \in 1 .. Len(rows)}
      BY <3>2, RangeIs
    <3>5. w[i] \in Range(w)
      BY <3>4
    <3>6. w[i] = x \/ (w[i] = [x EXCEPT !.text = "decided"] /\ x.of = c)
      BY <3>1, <3>3
    <3>7. \E s \in Range(w) : s = x \/ (s = [x EXCEPT !.text = "decided"] /\ x.of = c)
      BY <3>5, <3>6
    <3> QED BY <3>7 DEF w
  <2>4. CASE Has(active, c) /\ active' = Rewritten(active, c, "decided") /\ archived' = archived
    <3>1. CASE r \in Range(active)
      <4>1. PICK s \in Range(active') : s = r \/ (s = [r EXCEPT !.text = "decided"] /\ r.of = c)
        BY <3>1, <2>3, <2>4, <1>1
      <4> QED BY <4>1, <2>1
    <3>2. CASE r \in Range(archived)
      BY <3>2, <2>4
    <3> QED BY <3>1, <3>2
  <2>5. CASE Has(archived, c) /\ archived' = Rewritten(archived, c, "decided") /\ active' = active
    <3>1. CASE r \in Range(archived)
      <4>1. PICK s \in Range(archived') : s = r \/ (s = [r EXCEPT !.text = "decided"] /\ r.of = c)
        BY <3>1, <2>3, <2>5, <1>1
      <4> QED BY <4>1, <2>1
    <3>2. CASE r \in Range(active)
      BY <3>2, <2>5
    <3> QED BY <3>1, <3>2
  <2> QED BY <2>4, <2>5, <1>11, DecideInv
<1>12. ASSUME NEW resumes \in BOOLEAN, DecideForChild(resumes) PROVE r \in Range(active') \cup Range(archived')
  BY <1>2, <1>12 DEF DecideForChild
<1>13. CASE UNCHANGED vars
  BY <1>13 DEF vars
<1> QED BY <1>3, <1>4, <1>5, <1>6, <1>7, <1>8, <1>9, <1>10, <1>11, <1>12, <1>13 DEF Next

\* No step deletes or rewrites a row of the chat, shown or archived, but for a decision,
\* which rewrites a row of its call, and the Compact button, which may take from a row
\* the calls beside its skill_view.
THEOREM RowsAreKeptHolds ==
  Spec => RowsAreKept
<1> DEFINE A == \A r \in Range(Stored) : \E s \in Range(Stored') :
                  \/ s = r
                  \/ s = [r EXCEPT !.text = "decided"] /\ r.of \in open \ open'
                  \/ presses' # presses /\ Views(r) /\ s = PinnedForm(r)
<1>1. ASSUME IInv, [Next]_vars PROVE A
  <2>1. active \in Seq(RowType) /\ archived \in Seq(RowType) /\ active' \in Seq(RowType) /\ archived' \in Seq(RowType)
    BY <1>1, StepInv DEF IInv, ChatInv
  <2>2. Range(Stored) = Range(active) \cup Range(archived)
    BY <2>1, StoredIs DEF Stored
  <2>3. Range(active' \o archived') = Range(active') \cup Range(archived')
    BY <2>1, StoredIs
  <2>4. Range(Stored') = Range(active') \cup Range(archived')
    BY <2>3 DEF Stored
  <2> QED BY <2>2, <2>4, <1>1, RowKept
<1>2. IInv /\ [Next]_vars => [A]_vars
  BY <1>1
<1>3. RowsAreKept <=> [][A]_vars
  BY DEF RowsAreKept
<1> HIDE DEF A
<1> QED BY <1>2, <1>3, Invariant, PTL DEF Spec

-----------------------------------------------------------------------------
(* Nothing said is lost. *)

\* What some rows say is what their members say.
LEMMA RequiredIs ==
  ASSUME NEW S, NEW rows \in Seq(S)
  PROVE  /\ \A i \in 1 .. Len(rows) : rows[i].says \subseteq Required(Range(rows))
         /\ \A x \in Required(Range(rows)) : \E i \in 1 .. Len(rows) : x \in rows[i].says
<1>1. Range(rows) = {rows[i] : i \in 1 .. Len(rows)}
  BY RangeIs
<1> QED BY <1>1 DEF Required

\* A summary says what its run said, and each row that is not pinned is in a run.
LEMMA CondensedSays ==
  ASSUME NEW m \in Rows, NEW j \in 1 .. Len(m), NEW x \in m[j].says
  PROVE  \E k \in 1 .. Len(Condensed(m)) : x \in Condensed(m)[k].says
<1> DEFINE t == Condensed(m)
<1>1. PICK pos : CondensedFrom(t, m, pos)
  BY CondensedIs
<1> HIDE DEF t
<1>2. Len(m) \in Nat /\ DOMAIN m = 1 .. Len(m) /\ \A i \in 1 .. Len(m) : m[i] \in DraftType
  BY LenProperties, ElementOfSeq DEF Rows
<1>3. CASE j \in Pins(m)
  <2>1. PICK k \in 1 .. Len(t) : pos[k] = j
    BY <1>1, <1>3 DEF CondensedFrom
  <2>2. t[k] = PinnedForm(m[j])
    BY <2>1, <1>1, <1>3 DEF CondensedFrom
  <2>3. PinnedForm(m[j]).says = m[j].says
    BY <1>2, PinnedIs
  <2> QED BY <2>1, <2>2, <2>3 DEF t
<1>4. CASE j \notin Pins(m)
  <2> DEFINE E == {i \in Nat : i >= j /\ i + 1 \notin Loose(m)}
  <2>1. Len(m) \in E
    BY <1>2 DEF Loose
  <2>2. PICK e \in E : \A i \in E : e <= i
    <3> HIDE DEF E
    <3>1. E # {} /\ E \in SUBSET Nat
      BY <2>1 DEF E
    <3> QED BY <3>1, LeastNat
  <2>3. e \in j .. Len(m) /\ e \in 1 .. Len(m) /\ e + 1 \notin Loose(m)
    BY <2>1, <2>2, <1>2
  <2>4. ASSUME NEW i \in j .. e PROVE i \notin Pins(m)
    <3>1. CASE i = j
      BY <3>1, <1>4
    <3>2. CASE i # j
      <4>1. i - 1 \in Nat /\ i - 1 >= j /\ i - 1 < e /\ (i - 1) + 1 = i
        BY <3>2, <2>3
      <4>2. i - 1 \notin E
        BY <4>1, <2>2, <2>3
      <4>3. i \in Loose(m)
        BY <4>1, <4>2
      <4> QED BY <4>3 DEF Loose
    <3> QED BY <3>1, <3>2
  <2>5. e \notin Pins(m) /\ j \in RunTo(Pins(m), e)
    <3>1. e \in j .. e /\ j \in 1 .. e
      BY <2>3
    <3>2. (j .. e) \cap Pins(m) = {}
      BY <2>4
    <3> QED BY <3>1, <3>2 DEF RunTo
  <2>6. PICK k \in 1 .. Len(t) : pos[k] = e
    BY <2>3, <1>1 DEF CondensedFrom
  <2> DEFINE run == {m[i] : i \in RunTo(Pins(m), e)}
  <2>7. t[k] = Summary(run)
    BY <2>5, <2>6, <1>1 DEF CondensedFrom
  <2>8. m[j] \in run
    BY <2>5
  <2>9. \A r \in run : r.says \in SUBSET Nat
    <3>1. \A i \in RunTo(Pins(m), e) : i \in 1 .. Len(m)
      BY <2>3 DEF RunTo
    <3>2. \A r \in run : r \in DraftType
      BY <3>1, <1>2
    <3> QED BY <3>2 DEF DraftType
  <2> HIDE DEF run
  <2>10. t[k].says = Required(run)
    BY <2>7, <2>9, SummaryIs
  <2> QED BY <2>8, <2>10 DEF Required, t
<1> QED BY <1>3, <1>4

\* Compaction of any rows keeps what they said, if what only the browser shows says
\* nothing: what compact_with_stats leaves out of its rows is in one of its summaries.
THEOREM CompactSays ==
  ASSUME NEW rows \in Rows, NEW keep \in Nat, NEW force, NEW over, NEW fits, NEW shrinks,
         \A i \in 1 .. Len(rows) : rows[i].role = "ui" => rows[i].says = {}
  PROVE  LET t == Compact(rows, keep, force, over, fits, shrinks).rows
         IN \A i \in 1 .. Len(rows) : \A x \in rows[i].says : \E k \in 1 .. Len(t) : x \in t[k].says
<1> DEFINE s == Spoken(rows)
           p == Pruned(rows)
           c == Compact(rows, keep, force, over, fits, shrinks)
<1>1. s \in Rows /\ Len(s) \in Nat
  BY SpokenIs DEF Rows
<1>2. PICK pos \in [1 .. Len(s) -> 1 .. Len(rows)] :
        /\ \A k \in 1 .. Len(s) : s[k] = rows[pos[k]]
        /\ \A i \in 1 .. Len(rows) : rows[i].role # "ui" => \E k \in 1 .. Len(s) : pos[k] = i
  BY SpokenIs DEF Rows
<1>3. p \in Rows /\ Len(p) = Len(s) /\ \A i \in 1 .. Len(s) : p[i] = IF Oversized(s[i]) THEN CutForm(s[i]) ELSE s[i]
  BY <1>1, PruneIs DEF Pruned
<1>4. \A i \in 1 .. Len(s) : s[i] \in DraftType
  BY <1>1, ElementOfSeq DEF Rows
<1> HIDE DEF s, p
<1>5. ASSUME NEW i \in 1 .. Len(rows), NEW x \in rows[i].says PROVE \E k \in 1 .. Len(p) : x \in p[k].says
  <2>1. rows[i].role # "ui"
    BY <1>5
  <2>2. PICK k \in 1 .. Len(s) : s[k] = rows[i]
    BY <2>1, <1>2
  <2>3. p[k].says = s[k].says
    <3>1. CutForm(s[k]).says = s[k].says
      BY <1>4, CutIs
    <3> QED BY <3>1, <1>3
  <2> QED BY <2>2, <2>3, <1>3
<1>6. CASE c.rows = p
  BY <1>5, <1>6
<1>7. CASE c.rows = Joined(rows, keep) /\ ~ (Len(Turns(rows)) <= keep)
  <2> DEFINE R == Root(rows)
             K == Split(Turns(rows), keep)
             m == Middle(rows, keep)
             b == Condensed(m)
             t == Joined(rows, keep)
             L == Len(b)
             D == Len(p) - R - K
  <2>1. keep <= Len(Turns(rows))
    <3>1. Turns(rows) \in Rows
      BY TurnsAreRows
    <3> QED BY <3>1, <1>7, LenProperties DEF Rows
  <2>2. /\ R \in 0 .. 1 /\ R <= Len(p) /\ K \in 0 .. Len(p) - R - keep
        /\ m \in Rows /\ Len(m) = K /\ \A i \in 1 .. K : m[i] = p[R + i]
        /\ L \in Nat /\ Len(t) = R + L + D
        /\ \A k \in 1 .. R : t[k] = p[k]
        /\ \A k \in 1 .. L : t[R + k] = b[k]
        /\ \A k \in 1 .. D : t[R + L + k] = p[R + K + k]
    BY <2>1, PartsAre DEF p
  <2>3. Len(p) \in Nat /\ D \in Nat /\ R \in Nat /\ K \in Nat
    BY <2>2, <1>1, <1>3
  <2> HIDE DEF R, K, m, t, L, D
  <2>4. ASSUME NEW i \in 1 .. Len(p), NEW x \in p[i].says PROVE \E k \in 1 .. Len(t) : x \in t[k].says
    <3>1. CASE i <= R
      <4>1. i \in 1 .. R /\ i \in 1 .. Len(t)
        BY <3>1, <2>2, <2>3
      <4> QED BY <4>1, <2>2, <2>4
    <3>2. CASE i > R /\ i <= R + K
      <4>1. i - R \in 1 .. K /\ R + (i - R) = i
        BY <3>2, <2>3
      <4>2. m[i - R] = p[i]
        BY <4>1, <2>2
      <4>3. PICK k \in 1 .. L : x \in b[k].says
        BY <4>1, <4>2, <2>2, <2>4, CondensedSays DEF L
      <4>4. R + k \in 1 .. Len(t)
        BY <2>2, <2>3
      <4> QED BY <4>3, <4>4, <2>2
    <3>3. CASE i > R + K
      <4> DEFINE k == i - (R + K)
      <4>1. k \in 1 .. D /\ R + K + k = i /\ R + L + k \in 1 .. Len(t)
        BY <3>3, <2>2, <2>3 DEF D
      <4> HIDE DEF k
      <4>2. t[R + L + k] = p[i]
        BY <4>1, <2>2
      <4> QED BY <4>1, <4>2, <2>4
    <3> QED BY <3>1, <3>2, <3>3, <2>3
  <2>5. c.rows = t
    BY <1>7 DEF t
  <2> HIDE DEF c
  <2>6. ASSUME NEW i \in 1 .. Len(rows), NEW x \in rows[i].says PROVE \E k \in 1 .. Len(t) : x \in t[k].says
    BY <2>4, <1>5
  <2>7. \A i \in 1 .. Len(rows) : \A x \in rows[i].says : \E k \in 1 .. Len(c.rows) : x \in c.rows[k].says
    BY <2>5, <2>6
  <2> QED BY <2>7 DEF c
<1>8. c.rows = p \/ (c.rows = Joined(rows, keep) /\ ~ (Len(Turns(rows)) <= keep))
  BY CompactIs DEF p
<1> QED BY <1>6, <1>7, <1>8

\* What the user said, in rows that are shown or archived, is said by a row of the chat.
SaidInv ==
  \A r \in Range(active) \cup Range(archived) : r.role = "user" => r.id \in Required(Range(active))

\* Rows are added: a row of the user says its own id.
LEMMA GrownSays ==
  ASSUME active \in Seq(RowType), SaidInv, NEW new \in Seq(RowType),
         active' = active \o new, archived' = archived,
         \A i \in 1 .. Len(new) : new[i].role = "user" => new[i].id \in new[i].says
  PROVE  SaidInv'
<1>1. Range(active') = Range(active) \cup Range(new)
  BY ConcatIs
<1>2. Range(new) = {new[i] : i \in 1 .. Len(new)}
  BY RangeIs
<1>3. Required(Range(active)) \subseteq Required(Range(active'))
  BY <1>1 DEF Required
<1>4. ASSUME NEW r \in Range(new), r.role = "user" PROVE r.id \in Required(Range(active'))
  <2>1. r.id \in r.says
    BY <1>2, <1>4
  <2> QED BY <2>1, <1>1 DEF Required
<1> QED BY <1>1, <1>3, <1>4 DEF SaidInv

LEMMA AddedSays ==
  ASSUME active \in Seq(RowType), SaidInv, NEW r \in RowType,
         active' = Append(active, r), archived' = archived, r.role = "user" => r.id \in r.says
  PROVE  SaidInv'
<1> DEFINE one == <<r>>
<1>1. one \in Seq(RowType) /\ Len(one) = 1 /\ one[1] = r
  OBVIOUS
<1>2. Append(active, r) = active \o one
  BY AppendIsConcat
<1> HIDE DEF one
<1>3. \A i \in 1 .. Len(one) : one[i].role = "user" => one[i].id \in one[i].says
  BY <1>1
<1>4. active' = active \o one
  BY <1>2
<1> QED BY <1>1, <1>3, <1>4, GrownSays

\* The rewriting of a row leaves what the rows say.
LEMMA RewrittenSays ==
  ASSUME NEW rows \in Seq(RowType), NEW c, Has(rows, c)
  PROVE  /\ Required(Range(Rewritten(rows, c, "decided"))) = Required(Range(rows))
         /\ \A r \in Range(Rewritten(rows, c, "decided")) : \E s \in Range(rows) : s.role = r.role /\ s.id = r.id
<1> DEFINE w == Rewritten(rows, c, "decided")
<1>1. "decided" \in Texts
  BY DEF Texts
<1>2. /\ w \in Seq(RowType) /\ Len(w) = Len(rows)
      /\ \A i \in 1 .. Len(rows) :
           w[i].id = rows[i].id /\ w[i].role = rows[i].role /\ w[i].calls = rows[i].calls
           /\ w[i].of = rows[i].of /\ w[i].says = rows[i].says
  BY <1>1, RewrittenIs
<1> HIDE DEF w
<1>3. Range(w) = {w[i] : i \in 1 .. Len(rows)} /\ Range(rows) = {rows[i] : i \in 1 .. Len(rows)}
  BY <1>2, RangeIs
<1>4. Required(Range(w)) = Required(Range(rows))
  BY <1>2, <1>3 DEF Required
<1>5. ASSUME NEW r \in Range(w) PROVE \E s \in Range(rows) : s.role = r.role /\ s.id = r.id
  BY <1>2, <1>3
<1> QED BY <1>4, <1>5 DEF w

\* The button: what the rows of the chat said is said after it, and no row of the user
\* is new.
LEMMA ReplacedSays ==
  ASSUME ChatInv(active, archived, link, open), NEW rows \in Rows, NEW from, TakenFrom(rows, active, from),
         Replace(rows), SaidInv,
         \A i \in 1 .. Len(active) : \A x \in active[i].says : \E k \in 1 .. Len(rows) : x \in rows[k].says
  PROVE  SaidInv'
<1> DEFINE kept == Numbered(rows)
           gone == Gone(kept)
<1>1. active \in Seq(RowType) /\ archived \in Seq(RowType)
  BY DEF ChatInv
<1>2. active' = kept /\ archived' = archived \o gone
  BY DEF Replace, Gone
<1>3. Len(Stored) \in Nat
  BY <1>1, StoredIs DEF Stored
<1>4. /\ kept \in Seq(RowType) /\ Len(kept) = Len(rows)
      /\ \A i \in 1 .. Len(rows) : IF rows[i].id # 0 THEN kept[i] = rows[i]
                                   ELSE kept[i] = [rows[i] EXCEPT !.id = kept[i].id]
  BY <1>3, NumberedIs
<1>5. \A i \in 1 .. Len(rows) : rows[i] \in DraftType
  BY ElementOfSeq DEF Rows
<1>6. \A i, j \in 1 .. Len(active) : active[i].id = active[j].id => i = j
  BY <1>1, OwnIds DEF ChatInv
<1>7. gone \in Seq(RowType) /\ \A x \in 1 .. Len(gone) : gone[x] \in Range(active)
  BY <1>1, <1>6, GoneIs
<1> HIDE DEF kept, gone
<1>8. ASSUME NEW i \in 1 .. Len(rows) PROVE kept[i].says = rows[i].says /\ kept[i].role = rows[i].role
  <2>1. CASE rows[i].id # 0
    BY <2>1, <1>4
  <2>2. CASE rows[i].id = 0
    <3>1. kept[i] = [rows[i] EXCEPT !.id = kept[i].id]
      BY <2>2, <1>4
    <3> QED BY <3>1, <1>5 DEF DraftType
  <2> QED BY <2>1, <2>2
<1>9. Range(kept) = {kept[i] : i \in 1 .. Len(rows)} /\ Range(active) = {active[i] : i \in 1 .. Len(active)}
      /\ Range(gone) = {gone[i] : i \in 1 .. Len(gone)} /\ Range(archived \o gone) = Range(archived) \cup Range(gone)
  <2>1. Range(kept) = {kept[i] : i \in 1 .. Len(kept)}
    BY <1>4, RangeIs
  <2>2. Range(active) = {active[i] : i \in 1 .. Len(active)}
    BY <1>1, RangeIs
  <2>3. gone \in Seq(RowType)
    BY <1>7
  <2>4. Range(gone) = {gone[i] : i \in 1 .. Len(gone)}
    BY ONLY <2>3, RangeIs
  <2>5. Range(archived \o gone) = Range(archived) \cup Range(gone)
    BY <2>3, <1>1, ConcatIs
  <2> QED BY <2>1, <2>2, <2>4, <2>5, <1>4
<1>10. Required(Range(active)) \subseteq Required(Range(kept))
  <2>1. ASSUME NEW x \in Required(Range(active)) PROVE x \in Required(Range(kept))
    <3>1. PICK i \in 1 .. Len(active) : x \in active[i].says
      BY <1>1, RequiredIs
    <3>2. PICK k \in 1 .. Len(rows) : x \in rows[k].says
      BY <3>1
    <3>3. x \in kept[k].says /\ kept[k] \in Range(kept)
      BY <3>2, <1>8, <1>9
    <3> QED BY <3>3 DEF Required
  <2> QED BY <2>1
<1>11. ASSUME NEW k \in 1 .. Len(rows), kept[k].role = "user" PROVE kept[k].id \in Required(Range(active))
  <2>1. rows[k].role = "user"
    BY <1>8, <1>11
  <2>2. from[k] \in 0 .. Len(active) /\ from[k] # 0
    BY <2>1 DEF TakenFrom
  <2>3. from[k] \in 1 .. Len(active)
    <3>1. Len(active) \in Nat
      BY <1>1, LenProperties
    <3> QED BY <2>2, <3>1
  <2> DEFINE a == active[from[k]]
  <2>4. Form(rows[k], a)
    BY <2>2 DEF TakenFrom
  <2>5. a \in RowType
    BY <2>3, <1>1, ElementOfSeq
  <2>6. a.id # 0 /\ a \in Range(active) /\ a \in DraftType
    <3>1. a.id # 0
      BY <2>5 DEF RowType
    <3> QED BY <2>3, <2>5, <3>1, <1>9, RowIsDraft
  <2> HIDE DEF a
  <2>7. rows[k].role = a.role
    BY <2>4, <2>6, FormIs
  <2>8. rows[k].id = a.id
    <3>1. CASE rows[k] = a
      BY <3>1
    <3>2. CASE rows[k] = PinnedForm(a)
      BY <3>2, <2>6, PinnedIs
    <3>3. CASE Oversized(a)
      BY <3>3, <2>1, <2>7 DEF Oversized
    <3> QED BY <3>1, <3>2, <3>3, <2>4 DEF Form
  <2>9. kept[k] = rows[k]
    BY <2>6, <2>8, <1>4
  <2> QED BY <2>1, <2>6, <2>7, <2>8, <2>9 DEF SaidInv
<1>12. ASSUME NEW r \in Range(kept) \cup Range(archived \o gone), r.role = "user"
       PROVE  r.id \in Required(Range(kept))
  <2>1. CASE r \in Range(kept)
    <3>1. PICK k \in 1 .. Len(rows) : r = kept[k]
      BY <2>1, <1>9
    <3> QED BY <3>1, <1>10, <1>11, <1>12
  <2>2. CASE r \in Range(archived) \/ r \in Range(gone)
    <3>1. r \in Range(active) \cup Range(archived)
      BY <2>2, <1>7, <1>9
    <3> QED BY <3>1, <1>10, <1>12 DEF SaidInv
  <2> QED BY <2>1, <2>2, <1>9
<1> QED BY <1>2, <1>12 DEF SaidInv

\* The rows that Compact is given are those of the chat, and it keeps what they say.
LEMMA PressTakes ==
  ASSUME IInv, NEW fits \in BOOLEAN, NEW shrinks \in BOOLEAN
  PROVE  LET rows == Compact(active, ButtonKeep, TRUE, TRUE, fits, shrinks).rows
         IN /\ rows \in Rows /\ \E from : TakenFrom(rows, active, from)
            /\ \A i \in 1 .. Len(active) : \A x \in active[i].says : \E k \in 1 .. Len(rows) : x \in rows[k].says
<1>1. active \in Rows /\ ButtonKeep \in Nat
  BY KeepsAssumption, StoredRows
<1>2. \A i \in 1 .. Len(active) : active[i].role = "ui" => active[i].says = {}
  <2>1. \A i \in 1 .. Len(active) : active[i] \in Range(active)
    BY RangeIs DEF IInv, ChatInv
  <2> QED BY <2>1 DEF IInv, ChatInv, Shape
<1> DEFINE yes == TRUE
           t   == Compact(active, ButtonKeep, yes, yes, fits, shrinks).rows
<1> HIDE DEF yes
<1>3. t \in Rows /\ \E from : TakenFrom(t, active, from)
  BY <1>1, CompactTakes
<1>4. \A i \in 1 .. Len(active) : \A x \in active[i].says : \E k \in 1 .. Len(t) : x \in t[k].says
  BY <1>1, <1>2, CompactSays
<1> QED BY <1>3, <1>4 DEF yes

\* A request is what compaction makes of the rows of the turn.
LEMMA RequestIs ==
  ASSUME NEW t \in Requests
  PROVE  /\ turn = "ask"
         /\ \E over, fits \in BOOLEAN : t = Compact(history, RequestKeep, FALSE, over, fits, TRUE).rows
<1> DEFINE E(over, fits) == Compact(history, RequestKeep, FALSE, over, fits, TRUE).rows
<1>1. Requests = IF turn # "ask" THEN {} ELSE {E(over, fits) : over, fits \in BOOLEAN}
  BY DEF Requests
<1> HIDE DEF E
<1>2. turn = "ask" /\ \E over, fits \in BOOLEAN : t = E(over, fits)
  BY <1>1
<1> QED BY <1>2 DEF E

\* What the user said stays readable in every step.
LEMMA StepSays ==
  ASSUME IInv, SaidInv, [Next]_vars
  PROVE  SaidInv'
<1>1. active \in Seq(RowType) /\ archived \in Seq(RowType)
  BY DEF IInv, ChatInv
<1>2. CASE Say
  <2>1. UserRow \in RowType /\ UserRow.id = NextId /\ UserRow.says = {NextId}
    BY NextRows
  <2>2. active' = Append(active, UserRow) /\ archived' = archived
    BY <1>2 DEF Say
  <2> QED BY <2>1, <2>2, <1>1, AddedSays
<1>3. ASSUME NEW role \in {"assistant", "ui"}, active' = Append(active, Row(NextId, role, "plain")),
             archived' = archived
      PROVE  SaidInv'
  <2> DEFINE r == Row(NextId, role, "plain")
  <2>1. r \in RowType /\ r.role = role
    BY NextRows
  <2>2. active' = Append(active, r)
    BY <1>3
  <2> HIDE DEF r
  <2> QED BY <2>1, <2>2, <1>1, <1>3, AddedSays
<1>4. CASE Answer
  BY <1>3, <1>4 DEF Answer
<1>5. CASE Notice
  BY <1>3, <1>5 DEF Notice
<1>6. ASSUME NEW partial \in BOOLEAN, Interrupt(partial) PROVE SaidInv'
  <2>1. /\ active' = Append(active, Row(NextId, "assistant", "plain")) \/ active' = active
        /\ archived' = archived
    BY <1>6 DEF Interrupt
  <2>2. CASE active' = active
    BY <2>1, <2>2 DEF SaidInv
  <2> QED BY <2>1, <2>2, <1>3
<1>7. ASSUME NEW batch \in Batches, CallTools(batch) PROVE SaidInv'
  <2> DEFINE r == MadeRow(NextId, batch)
  <2>1. active' = Append(active, r) /\ archived' = archived
    BY <1>7 DEF CallTools, CallNumber, Made, MadeRow
  <2>2. NextId \in Nat \ {0}
    BY NextRows
  <2>3. r \in RowType /\ r.role = "assistant"
    BY <2>2, BatchIs
  <2> HIDE DEF r
  <2> QED BY <2>1, <2>3, <1>1, AddedSays
<1>8. CASE Result
  <2> DEFINE r == ToolRow(Head(todo).n, Output(Head(todo).kind))
  <2>1. turn = "tools" /\ SaveResult(Head(todo).n, Output(Head(todo).kind))
    BY <1>8 DEF Result
  <2>2. 1 \in 1 .. Len(todo) /\ Head(todo) = todo[1]
    BY <2>1, TodoIs
  <2>3. Head(todo).n \in Nat \X Nat /\ Head(todo).n \notin Ofs(active) /\ Head(todo).n \notin Ofs(archived)
    BY <2>1, <2>2, TodoIs
  <2>4. active' = Append(active, r) /\ archived' = archived
    BY <2>1, <2>3, <1>1, SavedIs
  <2>5. NextId \in Nat \ {0} /\ Output(Head(todo).kind) \in Texts
    BY NextRows DEF Output, Texts
  <2>6. r \in RowType /\ r.role = "tool"
    BY <2>3, <2>5, ToolRowIs
  <2> HIDE DEF r
  <2> QED BY <2>4, <2>6, <1>1, AddedSays
<1>9. CASE Park
  <2>1. active' = active \o ParkedRows /\ archived' = archived /\ turn = "tools"
    BY <1>9 DEF Park, ParkedRows
  <2>2. ParkedRows \in Seq(RowType) /\ \A i \in 1 .. Len(ParkedRows) : ParkedRows[i].role = "tool"
    BY <2>1, ParkedAre
  <2> QED BY <2>1, <2>2, <1>1, GrownSays
<1>10. ASSUME NEW c \in open, NEW resumes \in BOOLEAN, Decide(c, resumes) PROVE SaidInv'
  <2>1. CASE Has(active, c) /\ active' = Rewritten(active, c, "decided") /\ archived' = archived
    <3>1. Required(Range(active')) = Required(Range(active))
          /\ \A r \in Range(active') : \E s \in Range(active) : s.role = r.role /\ s.id = r.id
      BY <2>1, <1>1, RewrittenSays
    <3> QED BY <2>1, <3>1 DEF SaidInv
  <2>2. CASE Has(archived, c) /\ archived' = Rewritten(archived, c, "decided") /\ active' = active
    <3>1. \A r \in Range(archived') : \E s \in Range(archived) : s.role = r.role /\ s.id = r.id
      BY <2>2, <1>1, RewrittenSays
    <3> QED BY <2>2, <3>1 DEF SaidInv
  <2> QED BY <2>1, <2>2, <1>10, DecideInv
<1>11. CASE Press
  <2>1. PICK fits \in BOOLEAN, shrinks \in BOOLEAN :
          LET c == Compact(active, ButtonKeep, TRUE, TRUE, fits, shrinks)
          IN IF c.applied THEN Replace(c.rows) ELSE UNCHANGED <<active, archived, link>>
    BY <1>11 DEF Press
  <2> DEFINE rows == Compact(active, ButtonKeep, TRUE, TRUE, fits, shrinks).rows
  <2>2. Replace(rows) \/ (active' = active /\ archived' = archived)
    BY <2>1
  <2>3. /\ rows \in Rows /\ \E from : TakenFrom(rows, active, from)
        /\ \A i \in 1 .. Len(active) : \A x \in active[i].says : \E k \in 1 .. Len(rows) : x \in rows[k].says
    BY PressTakes
  <2> HIDE DEF rows
  <2>4. CASE Replace(rows)
    <3>1. PICK from : TakenFrom(rows, active, from)
      BY <2>3
    <3> QED BY <2>3, <2>4, <3>1, ReplacedSays DEF IInv
  <2>5. CASE active' = active /\ archived' = archived
    BY <2>5 DEF SaidInv
  <2> QED BY <2>2, <2>4, <2>5
<1>12. ASSUME NEW resumes \in BOOLEAN, DecideForChild(resumes) PROVE SaidInv'
  <2> DEFINE r == ToolRow(<<0, notices'>>, "decided")
  <2>1. active' = Append(active, r) /\ archived' = archived /\ r \in RowType /\ r.role = "tool"
    BY <1>12, CopyIs
  <2> HIDE DEF r
  <2> QED BY <2>1, <1>1, AddedSays
<1>13. CASE UNCHANGED vars
  BY <1>13 DEF vars, SaidInv
<1> QED BY <1>2, <1>4, <1>5, <1>6, <1>7, <1>8, <1>9, <1>10, <1>11, <1>12, <1>13 DEF Next

\* Whatever the user said, a row of the chat says: the message itself, if it is shown, or
\* a summary, if it was archived, or a summary of summaries; and a request says all that
\* the rows of its turn say, however the summaries come out.
THEOREM NothingSaidIsLostHolds ==
  Spec => []NothingSaidIsLost
<1>1. Init => SaidInv
  <2>1. DOMAIN <<>> = {}
    BY EmptySeq
  <2> QED BY <2>1 DEF Init, SaidInv, Range
<1>2. IInv /\ SaidInv /\ [Next]_vars => SaidInv'
  BY StepSays
<1>3. ASSUME IInv, SaidInv PROVE NothingSaidIsLost
  <2>1. active \in Seq(RowType) /\ archived \in Seq(RowType)
    BY <1>3 DEF IInv, ChatInv
  <2>2. Range(Stored) = Range(active) \cup Range(archived)
    BY <2>1, StoredIs DEF Stored
  <2>3. {r.id : r \in {x \in Range(Stored) : x.role = "user"}} \subseteq Required(Range(active))
    BY <2>2, <1>3 DEF SaidInv
  <2>4. ASSUME NEW t \in Requests PROVE Required(Range(history)) \subseteq Required(Range(t))
    <3>1. PICK over \in BOOLEAN, fits \in BOOLEAN :
            t = Compact(history, RequestKeep, FALSE, over, fits, TRUE).rows
      BY RequestIs
    <3>2. history \in Rows /\ RequestKeep \in Nat
      BY <1>3, KeepsAssumption, StoredRows
    <3>3. \A i \in 1 .. Len(history) : history[i].role = "ui" => history[i].says = {}
      <4>1. \A i \in 1 .. Len(history) : history[i] \in Range(history)
        BY <1>3, RangeIs DEF IInv, TurnInv
      <4> QED BY <4>1, <1>3 DEF IInv, TurnInv, Shape
    <3> DEFINE yes == TRUE
               no  == FALSE
    <3>4. t = Compact(history, RequestKeep, no, over, fits, yes).rows
      BY <3>1
    <3> HIDE DEF yes, no
    <3>5. t \in Rows
      BY <3>2, <3>4, CompactTakes
    <3>6. \A i \in 1 .. Len(history) : \A x \in history[i].says : \E k \in 1 .. Len(t) : x \in t[k].says
      BY <3>2, <3>3, <3>4, CompactSays
    <3>7. ASSUME NEW x \in Required(Range(history)) PROVE x \in Required(Range(t))
      <4>1. PICK i \in 1 .. Len(history) : x \in history[i].says
        BY <3>2, RequiredIs DEF Rows
      <4>2. PICK k \in 1 .. Len(t) : x \in t[k].says
        BY <4>1, <3>6
      <4> QED BY <4>2, <3>5, RequiredIs DEF Rows
    <3> QED BY <3>7
  <2> QED BY <2>3, <2>4 DEF NothingSaidIsLost
<1>4. Spec => [](IInv /\ SaidInv)
  BY <1>1, <1>2, Invariant, PTL DEF Spec
<1> QED BY <1>3, <1>4, PTL

-----------------------------------------------------------------------------
(* Requests are well formed, but for runbooks that are loaded late. *)

\* What is asked of each row; n is the number of rows there are, L the late runbooks.
RowOk(r, n, L) ==
  /\ r.role # "assistant" => r.calls = <<>>
  /\ r.role # "tool" => r.of = NoCall
  /\ r.of = NoCall \/ r.of[1] \in 1 .. n
  /\ \A c \in Calls(r) : c[1] \in 1 .. n
  /\ Views(r) => ViewCall(r).n = r.calls[1].n \/ ViewCall(r).n \in L

\* No two rows hold a call.
Owned(rows) ==
  \A i, j \in 1 .. Len(rows) : \A c \in Calls(rows[i]) : c \in Calls(rows[j]) => i = j

\* A result comes after the row that holds its call, if one does.
Later(rows) ==
  \A i, j \in 1 .. Len(rows) : rows[i].of \in Calls(rows[j]) => j < i

\* Rows that only the browser shows aside, a result follows a row of the assistant, or
\* another result that does: the batch of its call, unless it is a late runbook; and the
\* first result of a batch is that of its first call.
Follows(rows, L) ==
  \A i \in 1 .. Len(rows) : rows[i].role = "tool" =>
    \E j \in 1 .. i - 1 : /\ rows[j].role = "assistant" /\ (rows[i].of \in Calls(rows[j]) \/ rows[i].of \in L)
                          /\ \A k \in j + 1 .. i : rows[k].role \in {"tool", "ui"}

Leads(rows) ==
  \A i \in 1 .. Len(rows) : \A j \in 1 .. i - 1 :
    /\ rows[i].role = "tool" /\ rows[j].role = "assistant" /\ rows[j].calls # <<>>
    /\ \A k \in j + 1 .. i - 1 : rows[k].role = "ui"
    => rows[i].of = rows[j].calls[1].n

Threads(rows, n, L) ==
  /\ \A i \in 1 .. Len(rows) : RowOk(rows[i], n, L)
  /\ Owned(rows) /\ Later(rows) /\ Follows(rows, L) /\ Leads(rows)

\* The last row but results holds the calls to do, the first of them first.
Batch(rows, calls) ==
  \E b \in 1 .. Len(rows) :
    /\ rows[b].role = "assistant" /\ \A k \in b + 1 .. Len(rows) : rows[k].role \in {"tool", "ui"}
    /\ \A i \in 1 .. Len(calls) : calls[i].n \in Calls(rows[b])
    /\ (\A k \in b + 1 .. Len(rows) : rows[k].role = "ui") => calls[1].n = rows[b].calls[1].n

Alike(r, s) == r.role = s.role /\ r.of = s.of /\ r.calls = s.calls

\* Rows that are those of others, save some that only the browser shows.
Thinned(t, rows, pos) ==
  /\ pos \in [1 .. Len(t) -> 1 .. Len(rows)]
  /\ \A k \in 1 .. Len(t) : Alike(t[k], rows[pos[k]])
  /\ \A k, l \in 1 .. Len(t) : k < l => pos[k] < pos[l]
  /\ \A i \in 1 .. Len(rows) : rows[i].role # "ui" => \E k \in 1 .. Len(t) : pos[k] = i

\* The order of the places is that of the rows, both ways.
LEMMA ThinnedOrder ==
  ASSUME NEW t \in Rows, NEW rows \in Rows, NEW pos, Thinned(t, rows, pos),
         NEW k \in 1 .. Len(t), NEW l \in 1 .. Len(t)
  PROVE  /\ pos[k] \in 1 .. Len(rows) /\ pos[l] \in 1 .. Len(rows)
         /\ pos[k] < pos[l] => k < l
         /\ pos[k] = pos[l] => k = l
<1>1. Len(t) \in Nat /\ Len(rows) \in Nat
  BY LenProperties DEF Rows
<1>2. pos[k] \in 1 .. Len(rows) /\ pos[l] \in 1 .. Len(rows)
  BY DEF Thinned
<1>3. (k < l => pos[k] < pos[l]) /\ (l < k => pos[l] < pos[k])
  BY DEF Thinned
<1>4. k < l \/ k = l \/ l < k
  BY <1>1
<1> QED BY <1>1, <1>2, <1>3, <1>4

LEMMA ThinnedThreads ==
  ASSUME NEW t \in Rows, NEW rows \in Rows, NEW pos, Thinned(t, rows, pos), NEW n, NEW L, Threads(rows, n, L)
  PROVE  Threads(t, n, L)
<1>1. Len(t) \in Nat /\ Len(rows) \in Nat
  BY LenProperties DEF Rows
<1>2. \A k \in 1 .. Len(t) : /\ pos[k] \in 1 .. Len(rows) /\ t[k].role = rows[pos[k]].role
                             /\ t[k].of = rows[pos[k]].of /\ t[k].calls = rows[pos[k]].calls
  BY DEF Thinned, Alike
<1>3. \A k \in 1 .. Len(t) : Calls(t[k]) = Calls(rows[pos[k]])
  BY <1>2 DEF Calls
<1>4. ASSUME NEW k \in 1 .. Len(t) PROVE RowOk(t[k], n, L)
  <2>1. RowOk(rows[pos[k]], n, L)
    BY <1>2 DEF Threads
  <2>2. Views(t[k]) = Views(rows[pos[k]]) /\ ViewCall(t[k]) = ViewCall(rows[pos[k]])
    BY <1>2 DEF Views, ViewCall
  <2> QED BY <2>1, <2>2, <1>2, <1>3 DEF RowOk
<1>5. Owned(t)
  <2>1. ASSUME NEW i \in 1 .. Len(t), NEW j \in 1 .. Len(t), NEW c \in Calls(t[i]), c \in Calls(t[j]) PROVE i = j
    <3>1. pos[i] = pos[j]
      BY <2>1, <1>2, <1>3 DEF Threads, Owned
    <3> QED BY <3>1, ThinnedOrder
  <2> QED BY <2>1 DEF Owned
<1>6. Follows(t, L)
  <2>1. ASSUME NEW i \in 1 .. Len(t), t[i].role = "tool"
        PROVE  \E j \in 1 .. i - 1 : /\ t[j].role = "assistant" /\ (t[i].of \in Calls(t[j]) \/ t[i].of \in L)
                                     /\ \A k \in j + 1 .. i : t[k].role \in {"tool", "ui"}
    <3>1. PICK y \in 1 .. pos[i] - 1 :
            /\ rows[y].role = "assistant" /\ (rows[pos[i]].of \in Calls(rows[y]) \/ rows[pos[i]].of \in L)
            /\ \A k \in y + 1 .. pos[i] : rows[k].role \in {"tool", "ui"}
      BY <2>1, <1>2 DEF Threads, Follows
    <3>2. y \in 1 .. Len(rows) /\ y < pos[i] /\ pos[i] \in 1 .. Len(rows)
      BY <1>1, <1>2
    <3>3. PICK j \in 1 .. Len(t) : pos[j] = y
      BY <3>1, <3>2 DEF Thinned
    <3>4. j < i
      BY <3>2, <3>3, ThinnedOrder
    <3>5. ASSUME NEW k \in j + 1 .. i PROVE t[k].role \in {"tool", "ui"}
      <4>1. k \in 1 .. Len(t) /\ j < k /\ (k < i \/ k = i)
        BY <1>1
      <4>2. pos[j] < pos[k] /\ (pos[k] < pos[i] \/ pos[k] = pos[i])
        BY <4>1 DEF Thinned
      <4>3. pos[k] \in y + 1 .. pos[i]
        BY <4>1, <4>2, <3>2, <3>3, <1>2
      <4> QED BY <4>1, <4>3, <3>1, <1>2
    <3>6. j \in 1 .. i - 1
      BY <3>4, <1>1
    <3> QED BY <3>1, <3>3, <3>5, <3>6, <1>2, <1>3
  <2> QED BY <2>1 DEF Follows
<1>7. Leads(t)
  <2>1. ASSUME NEW i \in 1 .. Len(t), NEW j \in 1 .. i - 1, t[i].role = "tool", t[j].role = "assistant", t[j].calls # <<>>,
               \A k \in j + 1 .. i - 1 : t[k].role = "ui"
        PROVE  t[i].of = t[j].calls[1].n
    <3>1. j \in 1 .. Len(t) /\ j < i
      BY <1>1
    <3>2. pos[j] < pos[i] /\ pos[i] \in 1 .. Len(rows) /\ pos[j] \in 1 .. Len(rows)
      BY <3>1, <1>2 DEF Thinned
    <3>3. ASSUME NEW q \in pos[j] + 1 .. pos[i] - 1 PROVE rows[q].role = "ui"
      <4>1. q \in 1 .. Len(rows) /\ pos[j] < q /\ q < pos[i]
        BY <3>2, <1>1
      <4>2. SUFFICES ASSUME rows[q].role # "ui" PROVE FALSE
        OBVIOUS
      <4>3. PICK k \in 1 .. Len(t) : pos[k] = q
        BY <4>1, <4>2 DEF Thinned
      <4>4. j < k /\ k < i
        BY <4>1, <4>3, <3>1, ThinnedOrder
      <4>5. k \in j + 1 .. i - 1
        BY <4>4, <1>1
      <4> QED BY <4>2, <4>3, <4>5, <2>1, <1>2
    <3>4. pos[j] \in 1 .. pos[i] - 1
      BY <3>2, <1>1
    <3>5. rows[pos[i]].role = "tool" /\ rows[pos[j]].role = "assistant" /\ rows[pos[j]].calls # <<>>
      BY <2>1, <3>1, <1>2
    <3>6. rows[pos[i]].of = rows[pos[j]].calls[1].n
      BY <3>2, <3>3, <3>4, <3>5 DEF Threads, Leads
    <3> QED BY <3>1, <3>6, <1>2
  <2> QED BY <2>1 DEF Leads
<1>8. Later(t)
  <2>1. ASSUME NEW i \in 1 .. Len(t), NEW j \in 1 .. Len(t), t[i].of \in Calls(t[j]) PROVE j < i
    <3>1. pos[j] < pos[i]
      BY <2>1, <1>2, <1>3 DEF Threads, Later
    <3> QED BY <3>1, ThinnedOrder
  <2> QED BY <2>1 DEF Later
<1> QED BY <1>4, <1>5, <1>6, <1>7, <1>8 DEF Threads

LEMMA ThinnedBatch ==
  ASSUME NEW t \in Rows, NEW rows \in Rows, NEW pos, Thinned(t, rows, pos), NEW calls, Batch(rows, calls)
  PROVE  Batch(t, calls)
<1>1. Len(t) \in Nat /\ Len(rows) \in Nat
  BY LenProperties DEF Rows
<1>2. \A k \in 1 .. Len(t) : /\ pos[k] \in 1 .. Len(rows) /\ t[k].role = rows[pos[k]].role
                             /\ t[k].of = rows[pos[k]].of /\ t[k].calls = rows[pos[k]].calls
  BY DEF Thinned, Alike
<1>3. \A k \in 1 .. Len(t) : Calls(t[k]) = Calls(rows[pos[k]])
  BY <1>2 DEF Calls
<1>4. PICK y \in 1 .. Len(rows) :
        /\ rows[y].role = "assistant" /\ \A k \in y + 1 .. Len(rows) : rows[k].role \in {"tool", "ui"}
        /\ \A i \in 1 .. Len(calls) : calls[i].n \in Calls(rows[y])
        /\ (\A k \in y + 1 .. Len(rows) : rows[k].role = "ui") => calls[1].n = rows[y].calls[1].n
  BY DEF Batch
<1>5. PICK b \in 1 .. Len(t) : pos[b] = y
  BY <1>4 DEF Thinned
<1>6. ASSUME NEW k \in b + 1 .. Len(t) PROVE t[k].role \in {"tool", "ui"}
  <2>1. k \in 1 .. Len(t) /\ b < k
    BY <1>1
  <2>2. pos[b] < pos[k] /\ pos[k] \in 1 .. Len(rows)
    BY <2>1 DEF Thinned
  <2>3. pos[k] \in y + 1 .. Len(rows)
    BY <2>2, <1>1, <1>5
  <2> QED BY <2>1, <2>3, <1>2, <1>4
<1>7. ASSUME \A k \in b + 1 .. Len(t) : t[k].role = "ui" PROVE calls[1].n = t[b].calls[1].n
  <2>1. ASSUME NEW q \in y + 1 .. Len(rows) PROVE rows[q].role = "ui"
    <3>1. q \in 1 .. Len(rows) /\ pos[b] < q
      BY <1>1, <1>5
    <3>2. SUFFICES ASSUME rows[q].role # "ui" PROVE FALSE
      OBVIOUS
    <3>3. PICK k \in 1 .. Len(t) : pos[k] = q
      BY <3>1, <3>2 DEF Thinned
    <3>4. b < k
      BY <3>1, <3>3, ThinnedOrder
    <3>5. k \in b + 1 .. Len(t)
      BY <3>4, <1>1
    <3> QED BY <3>2, <3>3, <3>5, <1>2, <1>7
  <2> QED BY <2>1, <1>2, <1>4, <1>5
<1>8. t[b].role = "assistant" /\ \A i \in 1 .. Len(calls) : calls[i].n \in Calls(t[b])
  BY <1>2, <1>3, <1>4, <1>5
<1> QED BY <1>6, <1>7, <1>8 DEF Batch

\* The first row is no result, and the row after one of the user is none.
LEMMA ThreadsStart ==
  ASSUME NEW rows \in Rows, NEW n, NEW L, Threads(rows, n, L)
  PROVE  /\ Len(rows) >= 1 => rows[1].role # "tool"
         /\ Len(rows) >= 2 /\ rows[1].role = "user" => rows[2].role # "tool"
<1>1. Len(rows) \in Nat
  BY LenProperties DEF Rows
<1>2. ASSUME Len(rows) >= 1, rows[1].role = "tool" PROVE FALSE
  <2>1. 1 \in 1 .. Len(rows)
    BY <1>1, <1>2
  <2>2. \E j \in 1 .. 1 - 1 : TRUE
    BY <2>1, <1>2 DEF Threads, Follows
  <2> QED BY <2>2
<1>3. ASSUME Len(rows) >= 2, rows[1].role = "user", rows[2].role = "tool" PROVE FALSE
  <2>1. 2 \in 1 .. Len(rows)
    BY <1>1, <1>3
  <2>2. \E j \in 1 .. 2 - 1 : rows[j].role = "assistant"
    BY <2>1, <1>3 DEF Threads, Follows
  <2> QED BY <2>2, <1>3
<1> QED BY <1>2, <1>3

\* A part of the rows that begins with no result.
Window(w, p, o) ==
  /\ o \in Nat /\ o + Len(w) <= Len(p)
  /\ \A i \in 1 .. Len(w) : w[i] = p[o + i]

LEMMA WindowThreads ==
  ASSUME NEW p \in Rows, NEW n, NEW L, Threads(p, n, L), \A i \in 1 .. Len(p) : p[i].role # "ui",
         NEW w \in Rows, NEW o, Window(w, p, o), Len(w) > 0 => p[o + 1].role # "tool"
  PROVE  Threads(w, n, L)
<1>1. Len(w) \in Nat /\ Len(p) \in Nat /\ o \in Nat /\ o + Len(w) <= Len(p)
  BY LenProperties DEF Rows, Window
<1>2. \A i \in 1 .. Len(w) : o + i \in 1 .. Len(p) /\ w[i] = p[o + i]
  BY <1>1 DEF Window
<1>3. \A i \in 1 .. Len(w) : RowOk(w[i], n, L)
  BY <1>2 DEF Threads
<1>4. Owned(w)
  <2>1. ASSUME NEW i \in 1 .. Len(w), NEW j \in 1 .. Len(w), NEW c \in Calls(w[i]), c \in Calls(w[j]) PROVE i = j
    <3>1. o + i = o + j
      BY <2>1, <1>2 DEF Threads, Owned
    <3> QED BY <3>1, <1>1
  <2> QED BY <2>1 DEF Owned
<1>5. Follows(w, L)
  <2>1. ASSUME NEW i \in 1 .. Len(w), w[i].role = "tool"
        PROVE  \E j \in 1 .. i - 1 : /\ w[j].role = "assistant" /\ (w[i].of \in Calls(w[j]) \/ w[i].of \in L)
                                     /\ \A k \in j + 1 .. i : w[k].role \in {"tool", "ui"}
    <3>1. PICK y \in 1 .. (o + i) - 1 :
            /\ p[y].role = "assistant" /\ (p[o + i].of \in Calls(p[y]) \/ p[o + i].of \in L)
            /\ \A k \in y + 1 .. o + i : p[k].role \in {"tool", "ui"}
      BY <2>1, <1>2 DEF Threads, Follows
    <3>2. y >= o + 1
      <4>1. SUFFICES ASSUME ~ (y >= o + 1) PROVE FALSE
        OBVIOUS
      <4>2. o + 1 \in y + 1 .. o + i /\ o + 1 \in 1 .. Len(p) /\ Len(w) > 0
        BY <4>1, <1>1
      <4>3. p[o + 1].role = "tool"
        BY <4>2, <3>1
      <4> QED BY <4>2, <4>3
    <3>3. y - o \in 1 .. i - 1 /\ y - o \in 1 .. Len(w) /\ o + (y - o) = y
      BY <3>2, <1>1
    <3>4. w[y - o] = p[y]
      BY <3>3, <1>2
    <3>5. ASSUME NEW k \in (y - o) + 1 .. i PROVE w[k].role \in {"tool", "ui"}
      <4>1. k \in 1 .. Len(w) /\ o + k \in y + 1 .. o + i
        BY <3>3, <1>1
      <4> QED BY <4>1, <3>1, <1>2
    <3> QED BY <3>1, <3>3, <3>4, <3>5, <1>2
  <2> QED BY <2>1 DEF Follows
<1>6. Leads(w)
  <2>1. ASSUME NEW i \in 1 .. Len(w), NEW j \in 1 .. i - 1, w[i].role = "tool", w[j].role = "assistant", w[j].calls # <<>>,
               \A k \in j + 1 .. i - 1 : w[k].role = "ui"
        PROVE  w[i].of = w[j].calls[1].n
    <3>1. j \in 1 .. Len(w) /\ o + j \in 1 .. (o + i) - 1
      BY <1>1
    <3>2. ASSUME NEW q \in (o + j) + 1 .. (o + i) - 1 PROVE p[q].role = "ui"
      <4>1. q - o \in j + 1 .. i - 1 /\ q - o \in 1 .. Len(w) /\ o + (q - o) = q
        BY <1>1
      <4> QED BY <4>1, <2>1, <1>2
    <3>3. o + i \in 1 .. Len(p) /\ w[i] = p[o + i] /\ w[j] = p[o + j]
      BY <3>1, <1>2
    <3>4. p[o + i].of = p[o + j].calls[1].n
      BY <2>1, <3>1, <3>2, <3>3 DEF Threads, Leads
    <3> QED BY <3>3, <3>4
  <2> QED BY <2>1 DEF Leads
<1>7. Later(w)
  <2>1. ASSUME NEW i \in 1 .. Len(w), NEW j \in 1 .. Len(w), w[i].of \in Calls(w[j]) PROVE j < i
    <3>1. o + j < o + i
      BY <2>1, <1>2 DEF Threads, Later
    <3> QED BY <3>1, <1>1
  <2> QED BY <2>1 DEF Later
<1> QED BY <1>3, <1>4, <1>5, <1>6, <1>7 DEF Threads

\* Rows after others, if no call is held by rows of both, and none of the later rows has
\* its result before.
LEMMA ConcatThreads ==
  ASSUME NEW a \in Rows, NEW b \in Rows, NEW n, NEW L, Threads(a, n, L), Threads(b, n, L),
         \A i \in 1 .. Len(a) : \A j \in 1 .. Len(b) : \A c \in Calls(a[i]) : c \notin Calls(b[j]),
         \A i \in 1 .. Len(a) : \A j \in 1 .. Len(b) : a[i].of \notin Calls(b[j])
  PROVE  Threads(a \o b, n, L)
<1> DEFINE t == a \o b
<1>1. Len(a) \in Nat /\ Len(b) \in Nat
  BY LenProperties DEF Rows
<1>2. /\ Len(t) = Len(a) + Len(b)
      /\ \A i \in 1 .. Len(a) : t[i] = a[i]
      /\ \A i \in 1 .. Len(b) : t[Len(a) + i] = b[i]
  <2>1. a \in Seq(DraftType) /\ b \in Seq(DraftType)
    BY DEF Rows
  <2>2. /\ Len(t) = Len(a) + Len(b)
        /\ \A i \in 1 .. Len(t) : t[i] = IF i <= Len(a) THEN a[i] ELSE b[i - Len(a)]
    BY ONLY <2>1, ConcatProperties
  <2>3. ASSUME NEW i \in 1 .. Len(a) PROVE t[i] = a[i]
    <3>1. i \in 1 .. Len(t) /\ i <= Len(a)
      BY <2>2, <1>1
    <3> QED BY <3>1, <2>2
  <2>4. ASSUME NEW i \in 1 .. Len(b) PROVE t[Len(a) + i] = b[i]
    <3>1. Len(a) + i \in 1 .. Len(t) /\ ~ (Len(a) + i <= Len(a)) /\ (Len(a) + i) - Len(a) = i
      BY <2>2, <1>1
    <3> QED BY <3>1, <2>2
  <2> QED BY <2>2, <2>3, <2>4
<1> HIDE DEF t
<1>3. ASSUME NEW i \in 1 .. Len(t)
      PROVE  \/ i \in 1 .. Len(a) /\ t[i] = a[i]
             \/ i - Len(a) \in 1 .. Len(b) /\ i > Len(a) /\ t[i] = b[i - Len(a)]
  <2>1. CASE i <= Len(a)
    BY <2>1, <1>1, <1>2
  <2>2. CASE i > Len(a)
    <3>1. i - Len(a) \in 1 .. Len(b) /\ Len(a) + (i - Len(a)) = i
      BY <2>2, <1>1, <1>2
    <3> QED BY <3>1, <2>2, <1>2
  <2> QED BY <2>1, <2>2, <1>1
<1>4. \A i \in 1 .. Len(t) : RowOk(t[i], n, L)
  BY <1>3 DEF Threads
<1>5. Owned(t)
  <2>1. ASSUME NEW i \in 1 .. Len(t), NEW j \in 1 .. Len(t), NEW c \in Calls(t[i]), c \in Calls(t[j]) PROVE i = j
    <3>1. CASE i \in 1 .. Len(a) /\ t[i] = a[i] /\ j \in 1 .. Len(a) /\ t[j] = a[j]
      BY <3>1, <2>1 DEF Threads, Owned
    <3>2. CASE i - Len(a) \in 1 .. Len(b) /\ t[i] = b[i - Len(a)] /\ j - Len(a) \in 1 .. Len(b) /\ t[j] = b[j - Len(a)]
      <4>1. i - Len(a) = j - Len(a)
        BY <3>2, <2>1 DEF Threads, Owned
      <4> QED BY <4>1, <1>1
    <3>3. CASE i \in 1 .. Len(a) /\ t[i] = a[i] /\ j - Len(a) \in 1 .. Len(b) /\ t[j] = b[j - Len(a)]
      BY <3>3, <2>1
    <3>4. CASE j \in 1 .. Len(a) /\ t[j] = a[j] /\ i - Len(a) \in 1 .. Len(b) /\ t[i] = b[i - Len(a)]
      BY <3>4, <2>1
    <3> QED BY <3>1, <3>2, <3>3, <3>4, <1>3
  <2> QED BY <2>1 DEF Owned
<1>6. Follows(t, L)
  <2>1. ASSUME NEW i \in 1 .. Len(t), t[i].role = "tool"
        PROVE  \E j \in 1 .. i - 1 : /\ t[j].role = "assistant" /\ (t[i].of \in Calls(t[j]) \/ t[i].of \in L)
                                     /\ \A k \in j + 1 .. i : t[k].role \in {"tool", "ui"}
    <3>1. CASE i \in 1 .. Len(a) /\ t[i] = a[i]
      <4>1. PICK j \in 1 .. i - 1 :
              /\ a[j].role = "assistant" /\ (a[i].of \in Calls(a[j]) \/ a[i].of \in L)
              /\ \A k \in j + 1 .. i : a[k].role \in {"tool", "ui"}
        BY <3>1, <2>1 DEF Threads, Follows
      <4>2. j \in 1 .. Len(a) /\ \A k \in j + 1 .. i : k \in 1 .. Len(a)
        BY <3>1, <1>1
      <4> QED BY <4>1, <4>2, <3>1, <1>2
    <3>2. CASE i - Len(a) \in 1 .. Len(b) /\ i > Len(a) /\ t[i] = b[i - Len(a)]
      <4>1. PICK y \in 1 .. (i - Len(a)) - 1 :
              /\ b[y].role = "assistant" /\ (b[i - Len(a)].of \in Calls(b[y]) \/ b[i - Len(a)].of \in L)
              /\ \A k \in y + 1 .. i - Len(a) : b[k].role \in {"tool", "ui"}
        BY <3>2, <2>1 DEF Threads, Follows
      <4>2. y \in 1 .. Len(b) /\ Len(a) + y \in 1 .. i - 1 /\ t[Len(a) + y] = b[y]
        BY <3>2, <1>1, <1>2
      <4>3. ASSUME NEW k \in (Len(a) + y) + 1 .. i PROVE t[k].role \in {"tool", "ui"}
        <5>1. k - Len(a) \in y + 1 .. i - Len(a) /\ k - Len(a) \in 1 .. Len(b) /\ Len(a) + (k - Len(a)) = k
          <6>1. k \in Nat /\ i \in Nat /\ y \in Nat
            BY <1>1, <1>2, <4>2
          <6>2. k >= Len(a) + y + 1 /\ k <= i /\ i - Len(a) <= Len(b)
            BY <3>2, <6>1, <1>1
          <6> QED BY <6>1, <6>2, <1>1, <4>2
        <5> QED BY <5>1, <4>1, <1>2
      <4> QED BY <4>1, <4>2, <4>3, <3>2
    <3> QED BY <3>1, <3>2, <1>3
  <2> QED BY <2>1 DEF Follows
<1>7. Leads(t)
  <2>1. ASSUME NEW i \in 1 .. Len(t), NEW j \in 1 .. i - 1, t[i].role = "tool", t[j].role = "assistant", t[j].calls # <<>>,
               \A k \in j + 1 .. i - 1 : t[k].role = "ui"
        PROVE  t[i].of = t[j].calls[1].n
    <3>1. CASE i \in 1 .. Len(a) /\ t[i] = a[i]
      <4>1. j \in 1 .. Len(a) /\ \A k \in j + 1 .. i - 1 : k \in 1 .. Len(a)
        BY <3>1, <1>1
      <4>2. t[j] = a[j] /\ \A k \in j + 1 .. i - 1 : a[k].role = "ui"
        BY <4>1, <2>1, <1>2
      <4> QED BY <4>1, <4>2, <3>1, <2>1 DEF Threads, Leads
    <3>2. CASE i - Len(a) \in 1 .. Len(b) /\ i > Len(a) /\ t[i] = b[i - Len(a)]
      <4>1. PICK y \in 1 .. (i - Len(a)) - 1 : b[y].role = "assistant"
        BY <3>2, <2>1 DEF Threads, Follows
      <4>2. y \in 1 .. Len(b) /\ Len(a) + y \in 1 .. i - 1 /\ t[Len(a) + y] = b[y]
        BY <3>2, <1>1, <1>2
      <4>3. ~ (Len(a) + y \in j + 1 .. i - 1)
        BY <4>1, <4>2, <2>1
      <4>4. j > Len(a)
        BY <4>2, <4>3, <1>1
      <4>5. j - Len(a) \in 1 .. (i - Len(a)) - 1 /\ j - Len(a) \in 1 .. Len(b) /\ Len(a) + (j - Len(a)) = j
        BY <4>4, <3>2, <1>1
      <4>6. t[j] = b[j - Len(a)]
        BY <4>5, <1>2
      <4>7. ASSUME NEW q \in (j - Len(a)) + 1 .. (i - Len(a)) - 1 PROVE b[q].role = "ui"
        <5>1. Len(a) + q \in j + 1 .. i - 1 /\ q \in 1 .. Len(b)
          <6>1. i \in Nat /\ j \in Nat
            BY <1>1, <1>2
          <6>2. q \in Int /\ q >= j - Len(a) + 1 /\ q <= i - Len(a) - 1
            BY <6>1, <1>1
          <6>3. i - Len(a) <= Len(b) /\ j - Len(a) >= 1
            BY <4>5, <3>2, <6>1, <1>1
          <6> QED BY ONLY <6>1, <6>2, <6>3, <1>1
        <5> QED BY <5>1, <2>1, <1>2
      <4> QED BY <4>5, <4>6, <4>7, <3>2, <2>1 DEF Threads, Leads
    <3> QED BY <3>1, <3>2, <1>3
  <2> QED BY <2>1 DEF Leads
<1>8. Later(t)
  <2>1. ASSUME NEW i \in 1 .. Len(t), NEW j \in 1 .. Len(t), t[i].of \in Calls(t[j]) PROVE j < i
    <3>1. CASE i \in 1 .. Len(a) /\ t[i] = a[i] /\ j \in 1 .. Len(a) /\ t[j] = a[j]
      BY <3>1, <2>1 DEF Threads, Later
    <3>2. CASE i - Len(a) \in 1 .. Len(b) /\ t[i] = b[i - Len(a)] /\ j - Len(a) \in 1 .. Len(b) /\ t[j] = b[j - Len(a)]
      <4>1. j - Len(a) < i - Len(a)
        BY <3>2, <2>1 DEF Threads, Later
      <4> QED BY <4>1, <1>1, <1>2
    <3>3. CASE i \in 1 .. Len(a) /\ t[i] = a[i] /\ j - Len(a) \in 1 .. Len(b) /\ t[j] = b[j - Len(a)]
      BY <3>3, <2>1
    <3>4. CASE j \in 1 .. Len(a) /\ i - Len(a) \in 1 .. Len(b) /\ i > Len(a)
      BY <3>4, <1>1
    <3> QED BY <3>1, <3>2, <3>3, <3>4, <1>3
  <2> QED BY <2>1 DEF Later
<1>9. Threads(t, n, L)
  BY <1>4, <1>5, <1>6, <1>7, <1>8 DEF Threads
<1> QED BY <1>9 DEF t

\* A batch of one call that loads a runbook.
LEMMA SingleView ==
  ASSUME NEW r, NEW x, r.calls = <<x>>, x.kind = "view"
  PROVE  ViewCall(r) = x /\ (r.role = "assistant" => Views(r))
<1> DEFINE P == {k \in DOMAIN r.calls : r.calls[k].kind = "view"}
<1>1. DOMAIN r.calls = {1} /\ r.calls[1] = x
  OBVIOUS
<1>2. P = {1}
  BY <1>1
<1>3. P \in SUBSET (0 .. 1) /\ P # {}
  BY <1>2
<1>4. Max(P) \in P
  <2> HIDE DEF P
  <2>1. 1 \in Nat
    OBVIOUS
  <2> QED BY <1>3, <2>1, MaxIn
<1>5. ViewCall(r) = r.calls[Max(P)]
  BY DEF ViewCall
<1>6. ViewCall(r) = x
  <2> HIDE DEF P
  <2> QED BY <1>1, <1>2, <1>4, <1>5
<1>7. x \in Range(r.calls)
  BY <1>1 DEF Range
<1> QED BY <1>6, <1>7 DEF Views

\* The runbook that is pinned directly follows its batch, or it is a late one; what is
\* before it then is no message of the user.
LEMMA LoadedIs ==
  ASSUME NEW m \in Rows, NEW n, NEW L, Threads(m, n, L), \A i \in 1 .. Len(m) : m[i].role # "ui", Loads(m) # {}
  PROVE  LET v == Max(Loads(m))
             w == Min(Results(m, v))
         IN /\ v \in 1 .. Len(m) /\ w \in 1 .. Len(m) /\ v < w
            /\ m[v].role = "assistant" /\ Views(m[v]) /\ ViewCall(m[v]).kind = "view"
            /\ ViewCall(m[v]).n \in Calls(m[v])
            /\ m[w].role = "tool" /\ m[w].of = ViewCall(m[v]).n
            /\ w = v + 1 \/ (ViewCall(m[v]).n \in L /\ w - 1 \in 1 .. Len(m) /\ m[w - 1].role # "user")
<1> DEFINE v == Max(Loads(m))
           w == Min(Results(m, v))
<1>1. Len(m) \in Nat /\ DOMAIN m = 1 .. Len(m)
  BY LenProperties DEF Rows
<1>2. v \in Loads(m) /\ w \in Results(m, v) /\ \A j \in Results(m, v) : w <= j
  BY PinsAre
<1> HIDE DEF w, v
<1>3. v \in 1 .. Len(m) /\ Views(m[v]) /\ m[v].role = "assistant"
  BY <1>1, <1>2 DEF Loads, Views
<1>4. m[v] \in DraftType
  BY <1>3, ElementOfSeq DEF Rows
<1>5. PICK k \in DOMAIN m[v].calls : ViewCall(m[v]) = m[v].calls[k] /\ m[v].calls[k].kind = "view"
  BY <1>3, <1>4, ViewCallIs
<1>6. ViewCall(m[v]).kind = "view" /\ ViewCall(m[v]).n \in Calls(m[v]) /\ m[v].calls # <<>>
  <2>1. m[v].calls # <<>>
    <3>1. DOMAIN <<>> = {}
      BY EmptySeq
    <3> QED BY <3>1, <1>5
  <2> QED BY <2>1, <1>5 DEF Calls, Range
<1>7. w \in 1 .. Len(m) /\ w > v /\ m[w].role = "tool" /\ m[w].of = ViewCall(m[v]).n
  BY <1>1, <1>2, <1>3 DEF Results
<1>8. PICK y \in 1 .. w - 1 : /\ m[y].role = "assistant" /\ (m[w].of \in Calls(m[y]) \/ m[w].of \in L)
                               /\ \A q \in y + 1 .. w : m[q].role \in {"tool", "ui"}
  BY <1>7 DEF Threads, Follows
<1>9. w - 1 \in 1 .. Len(m) /\ m[w - 1].role # "user"
  <2>1. w - 1 \in 1 .. Len(m) /\ (w - 1 = y \/ w - 1 \in y + 1 .. w)
    BY <1>1, <1>7
  <2> QED BY <2>1, <1>8
<1>10. ASSUME ViewCall(m[v]).n \notin L PROVE w = v + 1
  <2>1. y \in 1 .. Len(m)
    BY <1>1, <1>7
  <2>2. y = v
    BY <2>1, <1>3, <1>6, <1>7, <1>8, <1>10 DEF Threads, Owned
  <2>3. v + 1 \in y + 1 .. w /\ v + 1 \in 1 .. Len(m) /\ v \in 1 .. (v + 1) - 1 /\ (v + 1) - 1 = v
    BY <2>2, <1>1, <1>3, <1>7
  <2>4. m[v + 1].role = "tool"
    <3>1. m[v + 1].role \in {"tool", "ui"} /\ m[v + 1].role # "ui"
      BY <2>3, <1>8
    <3> QED BY <3>1
  <2>5. \A q \in v + 1 .. (v + 1) - 1 : m[q].role = "ui"
    BY <2>3, <1>3
  <2>6. m[v + 1].of = m[v].calls[1].n
    BY <2>3, <2>4, <2>5, <1>3, <1>6 DEF Threads, Leads
  <2>7. ViewCall(m[v]).n = m[v].calls[1].n
    BY <1>3, <1>10 DEF Threads, RowOk
  <2>8. v + 1 \in Results(m, v)
    BY <2>3, <2>4, <2>6, <2>7, <1>1 DEF Results
  <2> QED BY <2>8, <1>1, <1>2, <1>3, <1>7
<1> QED BY <1>3, <1>6, <1>7, <1>9, <1>10 DEF v, w

\* What is behind the condensed rows: a summary, a message of the user, a batch whose
\* runbook comes later, or that runbook, behind its batch or, if it is late, a summary.
CondensedKind(c, m, pos, k, L) ==
  LET v == Max(Loads(m))
      w == Min(Results(m, v))
  IN /\ pos[k] \in 1 .. Len(m)
     /\ \/ c[k].role \in {"assistant", "user"} /\ c[k].calls = <<>> /\ Calls(c[k]) = {} /\ c[k].of = NoCall
        \/ /\ Loads(m) # {} /\ pos[k] = v /\ c[k].role = "assistant" /\ c[k].of = NoCall
           /\ c[k].calls = <<ViewCall(m[v])>> /\ Calls(c[k]) = {ViewCall(m[v]).n}
           /\ \E j \in 1 .. Len(c) : pos[j] = w /\ c[j].of = ViewCall(m[v]).n
        \/ /\ Loads(m) # {} /\ pos[k] = w /\ c[k].role = "tool" /\ c[k].of = ViewCall(m[v]).n
           /\ c[k].calls = <<>> /\ Calls(c[k]) = {}
           /\ k - 1 \in 1 .. Len(c) /\ c[k - 1].role = "assistant"
           /\ \/ c[k - 1].calls = <<ViewCall(m[v])>> /\ Calls(c[k - 1]) = {ViewCall(m[v]).n}
              \/ c[k - 1].calls = <<>> /\ ViewCall(m[v]).n \in L

LEMMA CondensedKinds ==
  ASSUME NEW m \in Rows, NEW n, NEW L, Threads(m, n, L), \A i \in 1 .. Len(m) : m[i].role # "ui",
         NEW c \in Rows, NEW pos, CondensedFrom(c, m, pos), NEW k \in 1 .. Len(c)
  PROVE  CondensedKind(c, m, pos, k, L)
<1> DEFINE v == Max(Loads(m))
           w == Min(Results(m, v))
<1>1. Len(m) \in Nat /\ DOMAIN m = 1 .. Len(m) /\ Len(c) \in Nat
  BY LenProperties DEF Rows
<1>2. pos[k] \in 1 .. Len(m)
  BY DEF CondensedFrom
<1>3. m[pos[k]] \in DraftType /\ RowOk(m[pos[k]], n, L)
  BY <1>2, ElementOfSeq DEF Rows, Threads
<1>4. ASSUME NEW q, Calls(q) # {}, q.calls = <<>> PROVE FALSE
  <2>1. Range(q.calls) = {}
    BY <1>4 DEF Range
  <2> QED BY <1>4, <2>1 DEF Calls
<1>5. ASSUME NEW q \in 1 .. Len(c), pos[q] \notin Pins(m)
      PROVE  c[q].role = "assistant" /\ c[q].calls = <<>> /\ c[q].of = NoCall /\ Calls(c[q]) = {}
  <2>1. c[q] = Summary({m[j] : j \in RunTo(Pins(m), pos[q])}) /\ pos[q] \in 1 .. Len(m)
    BY <1>5 DEF CondensedFrom
  <2>2. \A r \in {m[j] : j \in RunTo(Pins(m), pos[q])} : r.says \in SUBSET Nat
    <3>1. ASSUME NEW j \in RunTo(Pins(m), pos[q]) PROVE m[j].says \in SUBSET Nat
      <4>1. j \in 1 .. Len(m)
        BY <1>1, <2>1 DEF RunTo
      <4>2. m[j] \in DraftType
        BY <4>1, ElementOfSeq DEF Rows
      <4> QED BY <4>2 DEF DraftType
    <3> QED BY <3>1
  <2> QED BY <2>1, <2>2, SummaryIs
<1>6. CASE pos[k] \notin Pins(m)
  BY <1>2, <1>5, <1>6 DEF CondensedKind
<1>7. CASE pos[k] \in Pins(m) /\ pos[k] \in Users(m)
  <2>1. m[pos[k]].role = "user" /\ m[pos[k]].calls = <<>> /\ m[pos[k]].of = NoCall
    BY <1>3, <1>7 DEF Users, RowOk
  <2>2. c[k] = m[pos[k]]
    BY <1>7, <2>1 DEF CondensedFrom, PinnedForm, Views
  <2> QED BY <2>1, <2>2, <1>2, <1>4 DEF CondensedKind
<1>8. CASE pos[k] \in Pins(m) /\ pos[k] \notin Users(m)
  <2>1. Loads(m) # {} /\ (pos[k] = v \/ pos[k] = w)
    <3>1. Users(m) # {} => pos[k] # Max(Users(m))
      BY <1>8, PinsAre
    <3> QED BY <1>8, <3>1 DEF Pins
  <2>2. /\ v \in 1 .. Len(m) /\ w \in 1 .. Len(m) /\ v < w
        /\ m[v].role = "assistant" /\ Views(m[v])
        /\ m[w].role = "tool" /\ m[w].of = ViewCall(m[v]).n
        /\ w = v + 1 \/ (ViewCall(m[v]).n \in L /\ w - 1 \in 1 .. Len(m) /\ m[w - 1].role # "user")
    BY <2>1, LoadedIs
  <2>3. v \in Pins(m) /\ w \in Pins(m)
    BY <2>1 DEF Pins
  <2>4. ASSUME NEW i \in 1 .. Len(m), m[i].role # "user", i # v, i # w PROVE i \notin Pins(m)
    <3>1. Users(m) # {} => Max(Users(m)) \in Users(m)
      BY PinsAre
    <3>2. i \notin Users(m)
      BY <2>4 DEF Users
    <3> QED BY <3>1, <3>2, <2>4 DEF Pins
  <2> HIDE DEF v, w
  <2>5. m[v] \in DraftType /\ RowOk(m[v], n, L) /\ m[w] \in DraftType /\ RowOk(m[w], n, L)
    BY <2>2, ElementOfSeq DEF Rows, Threads
  <2>6. ASSUME NEW i \in 1 .. Len(c), NEW j \in 1 .. Len(c), pos[j] = pos[i] + 1 PROVE j = i + 1
    <3>1. pos[i] \in 1 .. Len(m) /\ pos[j] \in 1 .. Len(m) /\ pos[i] < pos[j]
      <4>1. pos[i] \in 1 .. Len(m) /\ pos[j] \in 1 .. Len(m)
        BY DEF CondensedFrom
      <4> QED BY <4>1, <2>6, <1>1
    <3>2. i < j
      <4>1. ~ (j < i) /\ j # i
        BY <3>1, <2>6 DEF CondensedFrom
      <4> QED BY <4>1, <1>1
    <3>3. j = i + 1
      <4>1. SUFFICES ASSUME j # i + 1 PROVE FALSE
        OBVIOUS
      <4>2. i + 1 \in 1 .. Len(c) /\ i < i + 1 /\ i + 1 < j
        BY <4>1, <3>2, <1>1
      <4>3. pos[i] < pos[i + 1] /\ pos[i + 1] < pos[j] /\ pos[i + 1] \in 1 .. Len(m)
        BY <4>2 DEF CondensedFrom
      <4> QED BY <4>3, <3>1, <2>6
    <3> QED BY <3>3
  <2>7. ASSUME NEW q \in 1 .. Len(c), pos[q] = w
        PROVE  c[q].role = "tool" /\ c[q].of = ViewCall(m[v]).n /\ c[q].calls = <<>> /\ Calls(c[q]) = {}
    <3>1. c[q] = PinnedForm(m[w])
      BY <2>3, <2>7 DEF CondensedFrom
    <3>2. c[q] = m[w] /\ m[w].calls = <<>>
      BY <2>2, <2>5, <3>1 DEF PinnedForm, Views, RowOk
    <3> QED BY <3>2, <2>2, <1>4
  <2>8. ASSUME NEW q \in 1 .. Len(c), pos[q] = v
        PROVE  /\ c[q].role = "assistant" /\ c[q].calls = <<ViewCall(m[v])>> /\ Calls(c[q]) = {ViewCall(m[v]).n}
               /\ c[q].of = NoCall
    <3>1. c[q] = PinnedForm(m[v])
      BY <2>3, <2>8 DEF CondensedFrom
    <3>2. c[q].role = "assistant" /\ c[q].calls = <<ViewCall(m[v])>> /\ Calls(c[q]) = {ViewCall(m[v]).n}
          /\ c[q].of = m[v].of
      BY <2>2, <2>5, <3>1, PinnedIs
    <3> QED BY <2>2, <2>5, <3>2 DEF RowOk
  <2>9. CASE pos[k] = v
    <3>1. PICK j \in 1 .. Len(c) : pos[j] = w
      BY <2>2, <2>3 DEF CondensedFrom
    <3>2. c[j].of = ViewCall(m[v]).n
      BY <3>1, <2>7
    <3> QED BY <2>1, <2>8, <2>9, <3>1, <3>2, <1>2 DEF v, w, CondensedKind
  <2>10. CASE pos[k] = w
    <3>1. PICK i \in 1 .. Len(c) :
            /\ pos[i] = w - 1 /\ c[i].role = "assistant"
            /\ \/ c[i].calls = <<ViewCall(m[v])>> /\ Calls(c[i]) = {ViewCall(m[v]).n}
               \/ c[i].calls = <<>> /\ ViewCall(m[v]).n \in L
      <4>1. CASE w = v + 1
        <5>1. PICK i \in 1 .. Len(c) : pos[i] = v
          BY <2>2, <2>3 DEF CondensedFrom
        <5>2. v = w - 1
          BY <2>2, <4>1, <1>1
        <5> QED BY <5>1, <5>2, <2>8
      <4>2. CASE w # v + 1
        <5>1. ViewCall(m[v]).n \in L /\ w - 1 \in 1 .. Len(m) /\ m[w - 1].role # "user"
          BY <2>2, <4>2
        <5>2. w - 1 # v /\ w - 1 # w /\ (w - 1) + 1 = w
          BY <2>2, <4>2, <1>1
        <5>3. w - 1 \notin Pins(m)
          BY <5>1, <5>2, <2>4
        <5>4. (w - 1) + 1 \notin Loose(m)
          BY <5>2, <2>3 DEF Loose
        <5>5. PICK i \in 1 .. Len(c) : pos[i] = w - 1
          BY <5>1, <5>4 DEF CondensedFrom
        <5> QED BY <5>1, <5>3, <5>5, <1>5
      <4> QED BY <4>1, <4>2
    <3>2. k = i + 1
      <4>1. pos[k] = pos[i] + 1
        BY <3>1, <2>2, <2>10, <1>1
      <4> QED BY <4>1, <2>6
    <3>3. k - 1 = i
      BY <3>2, <1>1
    <3> QED BY <2>1, <2>7, <2>10, <3>1, <3>3, <1>2 DEF v, w, CondensedKind
  <2> QED BY <2>1, <2>9, <2>10 DEF v, w
<1> QED BY <1>6, <1>7, <1>8

LEMMA CondensedThreads ==
  ASSUME NEW m \in Rows, NEW n, NEW L, Threads(m, n, L), \A i \in 1 .. Len(m) : m[i].role # "ui"
  PROVE  LET c == Condensed(m)
         IN /\ Threads(c, n, L)
            /\ \A k \in 1 .. Len(c) : /\ c[k].role # "ui"
                                      /\ c[k].of = NoCall \/ \E j \in 1 .. Len(m) : c[k].of \in Calls(m[j])
                                      /\ \A x \in Calls(c[k]) : /\ \E j \in 1 .. Len(m) : x \in Calls(m[j])
                                                                /\ \E j \in 1 .. Len(c) : c[j].of = x
<1> DEFINE c == Condensed(m)
<1> DEFINE v == Max(Loads(m))
           w == Min(Results(m, v))
<1>1. PICK pos : CondensedFrom(c, m, pos)
  BY CondensedIs
<1>2. c \in Rows
  BY CondensedIs
<1> HIDE DEF c
<1>3. Len(m) \in Nat /\ Len(c) \in Nat
  BY <1>2, LenProperties DEF Rows
<1>4. ASSUME NEW k \in 1 .. Len(c)
      PROVE  /\ pos[k] \in 1 .. Len(m)
             /\ \/ c[k].role \in {"assistant", "user"} /\ c[k].calls = <<>> /\ Calls(c[k]) = {} /\ c[k].of = NoCall
                \/ /\ Loads(m) # {} /\ pos[k] = v /\ c[k].role = "assistant" /\ c[k].of = NoCall
                   /\ c[k].calls = <<ViewCall(m[v])>> /\ Calls(c[k]) = {ViewCall(m[v]).n}
                   /\ \E j \in 1 .. Len(c) : pos[j] = w /\ c[j].of = ViewCall(m[v]).n
                \/ /\ Loads(m) # {} /\ pos[k] = w /\ c[k].role = "tool" /\ c[k].of = ViewCall(m[v]).n
                   /\ c[k].calls = <<>> /\ Calls(c[k]) = {}
                   /\ k - 1 \in 1 .. Len(c) /\ c[k - 1].role = "assistant"
                   /\ \/ c[k - 1].calls = <<ViewCall(m[v])>> /\ Calls(c[k - 1]) = {ViewCall(m[v]).n}
                      \/ c[k - 1].calls = <<>> /\ ViewCall(m[v]).n \in L
  <2>1. CondensedKind(c, m, pos, k, L)
    BY <1>1, <1>2, CondensedKinds
  <2> QED BY <2>1 DEF CondensedKind
<1>5. Loads(m) # {} => /\ v \in 1 .. Len(m) /\ w \in 1 .. Len(m) /\ v < w
                       /\ ViewCall(m[v]).kind = "view" /\ ViewCall(m[v]).n \in Calls(m[v])
                       /\ ViewCall(m[v]).n[1] \in 1 .. n
  <2>1. Loads(m) # {} => /\ v \in 1 .. Len(m) /\ w \in 1 .. Len(m) /\ v < w
                         /\ ViewCall(m[v]).kind = "view" /\ ViewCall(m[v]).n \in Calls(m[v])
    BY LoadedIs
  <2> HIDE DEF v, w
  <2> QED BY <2>1 DEF Threads, RowOk
<1> HIDE DEF v, w
<1>6. \A k, l \in 1 .. Len(c) : k < l => pos[k] < pos[l]
  BY <1>1 DEF CondensedFrom
<1>7. ASSUME NEW k \in 1 .. Len(c), NEW l \in 1 .. Len(c)
      PROVE  (pos[k] = pos[l] => k = l) /\ (pos[k] < pos[l] => k < l)
  <2>1. pos[k] \in 1 .. Len(m) /\ pos[l] \in 1 .. Len(m)
    BY <1>4
  <2>2. (k < l => pos[k] < pos[l]) /\ (l < k => pos[l] < pos[k])
    BY <1>6
  <2> QED BY <2>1, <2>2, <1>3
<1>8. ASSUME NEW k \in 1 .. Len(c) PROVE RowOk(c[k], n, L)
  <2>1. ASSUME NEW x \in Calls(c[k]) PROVE x[1] \in 1 .. n
    <3>1. Loads(m) # {} /\ Calls(c[k]) = {ViewCall(m[v]).n}
      BY <2>1, <1>4
    <3> QED BY <3>1, <1>5
  <2>2. Views(c[k]) => ViewCall(c[k]).n = c[k].calls[1].n
    <3>1. CASE c[k].calls = <<>>
      <4>1. Range(c[k].calls) = {}
        BY <3>1 DEF Range
      <4> QED BY <4>1 DEF Views
    <3>2. CASE c[k].calls = <<ViewCall(m[v])>> /\ Loads(m) # {}
      <4>1. ViewCall(c[k]) = ViewCall(m[v]) /\ c[k].calls[1] = ViewCall(m[v])
        BY <3>2, <1>5, SingleView
      <4> QED BY <4>1
    <3> QED BY <3>1, <3>2, <1>4
  <2>3. (c[k].role # "assistant" => c[k].calls = <<>>) /\ (c[k].role # "tool" => c[k].of = NoCall)
    BY <1>4
  <2>4. c[k].of = NoCall \/ c[k].of[1] \in 1 .. n
    BY <1>4, <1>5
  <2> QED BY <2>1, <2>2, <2>3, <2>4 DEF RowOk
<1>9. Owned(c)
  <2>1. ASSUME NEW i \in 1 .. Len(c), NEW j \in 1 .. Len(c), NEW x \in Calls(c[i]), x \in Calls(c[j]) PROVE i = j
    <3>1. pos[i] = v /\ pos[j] = v
      BY <2>1, <1>4
    <3> QED BY <3>1, <1>7
  <2> QED BY <2>1 DEF Owned
<1>10. Later(c)
  <2>1. ASSUME NEW i \in 1 .. Len(c), NEW j \in 1 .. Len(c), c[i].of \in Calls(c[j]) PROVE j < i
    <3>1. Loads(m) # {} /\ pos[j] = v /\ c[i].of = ViewCall(m[v]).n
      BY <2>1, <1>4
    <3>2. c[i].of # NoCall
      <4>1. NoCall[1] = 0 /\ 0 \notin 1 .. n
        BY DEF NoCall
      <4> QED BY <4>1, <3>1, <1>5
    <3>3. pos[i] = w
      BY <3>2, <1>4
    <3> QED BY <3>1, <3>3, <1>5, <1>7
  <2> QED BY <2>1 DEF Later
<1>11. Follows(c, L)
  <2>1. ASSUME NEW i \in 1 .. Len(c), c[i].role = "tool"
        PROVE  \E j \in 1 .. i - 1 : /\ c[j].role = "assistant" /\ (c[i].of \in Calls(c[j]) \/ c[i].of \in L)
                                     /\ \A k \in j + 1 .. i : c[k].role \in {"tool", "ui"}
    <3>1. i - 1 \in 1 .. Len(c) /\ c[i - 1].role = "assistant" /\ (c[i].of \in Calls(c[i - 1]) \/ c[i].of \in L)
      BY <2>1, <1>4
    <3>2. i - 1 \in 1 .. i - 1 /\ i \in Nat
      BY <3>1, <1>3
    <3>3. \A k \in (i - 1) + 1 .. i : k = i
      BY <3>2
    <3> QED BY <2>1, <3>1, <3>2, <3>3
  <2> QED BY <2>1 DEF Follows
<1>12. Leads(c)
  <2>1. ASSUME NEW i \in 1 .. Len(c), NEW j \in 1 .. i - 1, c[i].role = "tool", c[j].role = "assistant",
               c[j].calls # <<>>, \A k \in j + 1 .. i - 1 : c[k].role = "ui"
        PROVE  c[i].of = c[j].calls[1].n
    <3>1. /\ c[i].of = ViewCall(m[v]).n /\ c[i - 1].role = "assistant"
          /\ c[i - 1].calls = <<ViewCall(m[v])>> \/ c[i - 1].calls = <<>>
      BY <2>1, <1>4
    <3>2. j = i - 1
      <4>1. SUFFICES ASSUME j # i - 1 PROVE FALSE
        OBVIOUS
      <4>2. i - 1 \in j + 1 .. i - 1
        BY <4>1, <1>3
      <4> QED BY <4>2, <2>1, <3>1
    <3> QED BY <2>1, <3>1, <3>2
  <2> QED BY <2>1 DEF Leads
<1>13. ASSUME NEW k \in 1 .. Len(c)
       PROVE  /\ c[k].role # "ui"
              /\ c[k].of = NoCall \/ \E j \in 1 .. Len(m) : c[k].of \in Calls(m[j])
              /\ \A x \in Calls(c[k]) : /\ \E j \in 1 .. Len(m) : x \in Calls(m[j])
                                        /\ \E j \in 1 .. Len(c) : c[j].of = x
  <2>1. c[k].role # "ui" /\ (c[k].of = NoCall \/ \E j \in 1 .. Len(m) : c[k].of \in Calls(m[j]))
    BY <1>4, <1>5
  <2>2. ASSUME NEW x \in Calls(c[k])
        PROVE (\E j \in 1 .. Len(m) : x \in Calls(m[j])) /\ \E j \in 1 .. Len(c) : c[j].of = x
    <3>1. Loads(m) # {} /\ x = ViewCall(m[v]).n /\ \E j \in 1 .. Len(c) : c[j].of = ViewCall(m[v]).n
      BY <2>2, <1>4
    <3> QED BY <3>1, <1>5
  <2> QED BY <2>1, <2>2
<1>14. Threads(c, n, L)
  BY <1>8, <1>9, <1>10, <1>11, <1>12 DEF Threads
<1> QED BY <1>13, <1>14 DEF c

\* What is said, with its outputs cut, is alike.
LEMMA PrunedIs ==
  ASSUME NEW rows \in Rows
  PROVE  LET p == Pruned(rows)
         IN p \in Rows /\ (\A k \in 1 .. Len(p) : p[k].role # "ui") /\ \E pos : Thinned(p, rows, pos)
<1> DEFINE s == Spoken(rows)
<1> DEFINE p == Pruned(rows)
<1>1. s \in Rows /\ Len(s) \in Nat
  BY SpokenIs DEF Rows
<1>2. PICK pos \in [1 .. Len(s) -> 1 .. Len(rows)] :
        /\ \A k \in 1 .. Len(s) : s[k] = rows[pos[k]] /\ rows[pos[k]].role # "ui"
        /\ \A k, l \in 1 .. Len(s) : k < l => pos[k] < pos[l]
        /\ \A i \in 1 .. Len(rows) : rows[i].role # "ui" => \E k \in 1 .. Len(s) : pos[k] = i
  <2>1. rows \in Seq(DraftType)
    BY DEF Rows
  <2> QED BY ONLY <2>1, SpokenIs
<1>3. /\ p \in Rows /\ Len(p) = Len(s)
      /\ \A i \in 1 .. Len(s) : p[i] = IF Oversized(s[i]) THEN CutForm(s[i]) ELSE s[i]
  <2> HIDE DEF s
  <2>1. p = Prune(s)
    BY DEF Pruned, s
  <2> HIDE DEF p
  <2> QED BY <1>1, <2>1, PruneIs
<1> HIDE DEF s, p
<1>4. ASSUME NEW k \in 1 .. Len(s) PROVE Alike(p[k], s[k])
  <2>1. s[k] \in DraftType
    BY <1>1, ElementOfSeq DEF Rows
  <2>2. CutForm(s[k]).role = s[k].role /\ CutForm(s[k]).calls = s[k].calls /\ CutForm(s[k]).of = s[k].of
    BY <2>1, CutIs
  <2>3. p[k] = CutForm(s[k]) \/ p[k] = s[k]
    BY <1>3
  <2> QED BY <2>2, <2>3 DEF Alike
<1>5. \A k \in 1 .. Len(p) : p[k].role # "ui" /\ Alike(p[k], rows[pos[k]])
  BY <1>2, <1>3, <1>4 DEF Alike
<1>6. Thinned(p, rows, pos)
  BY <1>2, <1>3, <1>5 DEF Thinned
<1> QED BY <1>3, <1>5, <1>6 DEF p

\* A result of a call that a row holds comes after that row.
LEMMA ResultIsLater ==
  ASSUME NEW p \in Rows, NEW n, NEW L, Threads(p, n, L), NEW y \in 1 .. Len(p), NEW x \in Calls(p[y]),
         NEW q \in 1 .. Len(p), p[q].of = x
  PROVE  p[q].role = "tool" /\ q > y
<1>1. Len(p) \in Nat
  BY LenProperties DEF Rows
<1>2. x # NoCall
  <2>1. x[1] \in 1 .. n
    BY DEF Threads, RowOk
  <2>2. NoCall[1] = 0
    BY DEF NoCall
  <2>3. 0 \notin 1 .. n
    OBVIOUS
  <2> QED BY <2>1, <2>2, <2>3
<1>3. p[q].role = "tool"
  BY <1>2 DEF Threads, RowOk
<1>4. y < q
  BY DEF Threads, Later
<1> QED BY <1>1, <1>3, <1>4

\* If a call that a row holds has a result, what is said has it, after that row.
LEMMA PrunedHas ==
  ASSUME NEW rows \in Rows, NEW n, NEW L, Threads(rows, n, L), NEW p, p = Pruned(rows),
         NEW y \in 1 .. Len(p), NEW x \in Calls(p[y]), Has(rows, x)
  PROVE  \E q \in 1 .. Len(p) : q > y /\ p[q].of = x
<1>1. p \in Rows
  BY PrunedIs
<1>2. PICK pos : Thinned(p, rows, pos)
  BY PrunedIs
<1>3. Threads(p, n, L)
  BY <1>1, <1>2, ThinnedThreads
<1>4. PICK i \in 1 .. Len(rows) : rows[i].of = x
  <2>1. DOMAIN rows = 1 .. Len(rows)
    BY LenProperties DEF Rows
  <2> QED BY <2>1 DEF Has
<1>5. pos[y] \in 1 .. Len(rows) /\ Calls(rows[pos[y]]) = Calls(p[y])
  BY <1>2 DEF Thinned, Alike, Calls
<1>6. rows[i].role = "tool"
  BY <1>4, <1>5, ResultIsLater
<1>7. PICK q \in 1 .. Len(p) : pos[q] = i
  BY <1>2, <1>6 DEF Thinned
<1>8. p[q].of = x
  BY <1>2, <1>4, <1>7 DEF Thinned, Alike
<1> QED BY <1>1, <1>3, <1>8, ResultIsLater

\* What is told of compacted rows.
WellCompacted(t, rows, n, L) ==
  /\ Threads(t, n, L)
  /\ \A k \in 1 .. Len(t) : /\ t[k].role # "ui"
                            /\ \A x \in Calls(t[k]) : Has(rows, x) => Has(t, x)
  /\ \A calls : Batch(rows, calls) => Batch(t, calls)

LEMMA PrunedWell ==
  ASSUME NEW rows \in Rows, NEW n, NEW L, Threads(rows, n, L)
  PROVE  WellCompacted(Pruned(rows), rows, n, L)
<1> DEFINE p == Pruned(rows)
<1>1. p \in Rows /\ \A k \in 1 .. Len(p) : p[k].role # "ui"
  BY PrunedIs
<1>2. PICK pos : Thinned(p, rows, pos)
  BY PrunedIs
<1> HIDE DEF p
<1>3. Threads(p, n, L)
  BY <1>1, <1>2, ThinnedThreads
<1>4. ASSUME NEW k \in 1 .. Len(p), NEW x \in Calls(p[k]), Has(rows, x) PROVE Has(p, x)
  <2>1. \E q \in 1 .. Len(p) : p[q].of = x
    BY <1>4, PrunedHas DEF p
  <2>2. DOMAIN p = 1 .. Len(p)
    BY <1>1, LenProperties DEF Rows
  <2> QED BY <2>1, <2>2 DEF Has
<1>5. ASSUME NEW calls, Batch(rows, calls) PROVE Batch(p, calls)
  BY <1>1, <1>2, <1>5, ThinnedBatch
<1>6. WellCompacted(p, rows, n, L)
  BY <1>1, <1>3, <1>4, <1>5 DEF WellCompacted
<1> QED BY <1>6 DEF p

\* The root is the first row that is said, if the user says it.
LEMMA RootIs ==
  ASSUME NEW rows \in Rows
  PROVE  LET p == Pruned(rows)
         IN /\ Root(rows) = 1 => p[1].role = "user" /\ Len(p) >= 1
            /\ Root(rows) = 0 /\ Len(p) >= 1 => p[1].role # "user"
<1> DEFINE s == Spoken(rows)
<1> DEFINE p == Prune(s)
<1>1. rows \in Seq(DraftType)
  BY DEF Rows
<1>2. s \in Seq(DraftType) /\ Len(s) \in Nat
  BY ONLY <1>1, SpokenIs
<1>3. s \in Rows
  BY <1>2 DEF Rows
<1>4. Root(rows) = IF s # <<>> /\ s[1].role = "user" THEN 1 ELSE 0
  BY DEF Root
<1> HIDE DEF s
<1>5. Len(p) = Len(s) /\ \A i \in 1 .. Len(s) : p[i] = IF Oversized(s[i]) THEN CutForm(s[i]) ELSE s[i]
  BY <1>3, PruneIs
<1> HIDE DEF p
<1>6. s # <<>> <=> 1 \in 1 .. Len(s)
  BY <1>2, EmptySeq
<1>7. 1 \in 1 .. Len(s) => p[1].role = s[1].role
  <2>1. ASSUME 1 \in 1 .. Len(s) PROVE s[1] \in DraftType
    BY <1>2, <2>1, ElementOfSeq
  <2> QED BY <1>5, <2>1, CutIs
<1>8. 1 \in 1 .. Len(s) <=> Len(p) >= 1
  BY <1>2, <1>5
<1> QED BY <1>4, <1>6, <1>7, <1>8 DEF Pruned, p, s

\* The middle, condensed, between the root and the recent rows.
LEMMA JoinedWell ==
  ASSUME NEW rows \in Rows, NEW n, NEW L, Threads(rows, n, L), NEW keep \in Nat \ {0}, keep <= Len(Turns(rows))
  PROVE  WellCompacted(Joined(rows, keep), rows, n, L)
<1> DEFINE p == Pruned(rows)
<1> DEFINE R == Root(rows)
<1> DEFINE K == Split(Turns(rows), keep)
<1> DEFINE m == Middle(rows, keep)
<1> DEFINE C == Condensed(m)
<1> DEFINE a == SubSeq(p, 1, R)
<1> DEFINE d == SubSeq(Turns(rows), K + 1, Len(Turns(rows)))
<1> DEFINE t == Joined(rows, keep)
<1>1. /\ p \in Rows /\ R \in 0 .. 1 /\ R <= Len(p) /\ K \in 0 .. Len(p) - R - keep
      /\ m \in Rows /\ Len(m) = K /\ \A i \in 1 .. K : m[i] = p[R + i]
      /\ Turns(rows) \in Rows /\ Len(Turns(rows)) = Len(p) - R
      /\ \A i \in 1 .. Len(p) - R : Turns(rows)[i] = p[R + i]
      /\ Len(C) \in Nat /\ t \in Rows /\ Len(t) = R + Len(C) + (Len(p) - R - K)
      /\ \A k \in 1 .. R : t[k] = p[k]
      /\ \A k \in 1 .. Len(C) : t[R + k] = C[k]
      /\ \A k \in 1 .. Len(p) - R - K : t[R + Len(C) + k] = p[R + K + k]
      /\ a \in Rows /\ Len(a) = R /\ \A k \in 1 .. R : a[k] = p[k]
      /\ d \in Rows /\ Len(d) = Len(p) - R - K
      /\ \A k \in 1 .. Len(p) - R - K : d[k] = p[R + K + k]
  BY PartsAre
<1>2. t = (a \o C) \o d
  BY DEF Joined
<1>3. K = 0 \/ Turns(rows)[K + 1].role # "tool"
  BY <1>1, SplitIs
<1>4. R = 1 => p[1].role = "user"
  BY RootIs
<1>5. \A k \in 1 .. Len(p) : p[k].role # "ui"
  BY PrunedIs
<1>6. PICK pos : Thinned(p, rows, pos)
  BY PrunedIs
<1>7. Threads(p, n, L)
  BY <1>1, <1>6, ThinnedThreads
<1>8. /\ Len(p) \in Nat /\ R \in Nat /\ K \in Nat /\ Len(C) \in Nat /\ R <= 1 /\ R + K + 1 <= Len(p)
      /\ Len(m) = K /\ Len(a) = R /\ Len(d) = Len(p) - R - K /\ Len(t) = R + Len(C) + (Len(p) - R - K)
  <2>1. Len(p) \in Nat
    BY <1>1, LenProperties DEF Rows
  <2>2. /\ R \in 0 .. 1 /\ K \in 0 .. Len(p) - R - keep /\ Len(C) \in Nat
        /\ Len(m) = K /\ Len(a) = R /\ Len(d) = Len(p) - R - K /\ Len(t) = R + Len(C) + (Len(p) - R - K)
    BY <1>1
  <2>3. keep \in Nat \ {0}
    OBVIOUS
  <2> HIDE DEF p, R, K, m, C, a, d, t
  <2> QED BY ONLY <2>1, <2>2, <2>3
<1>9. /\ \A i \in 1 .. K : m[i] = p[R + i]
      /\ \A k \in 1 .. R : t[k] = p[k] /\ a[k] = p[k]
      /\ \A k \in 1 .. Len(C) : t[R + k] = C[k]
      /\ \A k \in 1 .. Len(p) - R - K : t[R + Len(C) + k] = p[R + K + k]
      /\ \A k \in 1 .. Len(p) - R - K : d[k] = p[R + K + k]
  BY <1>1
<1>10. p[R + K + 1].role # "tool" /\ p[R + 1].role # "tool"
  <2>1. p[R + 1].role # "tool"
    <3>1. CASE R = 0
      <4>1. p[1].role # "tool"
        BY <1>1, <1>7, <1>8, <3>1, ThreadsStart
      <4> QED BY <4>1, <3>1
    <3>2. CASE R = 1
      <4>1. Len(p) >= 2 /\ R + 1 = 2 /\ p[1].role = "user"
        BY <1>4, <1>8, <3>2
      <4>2. p \in Rows
        BY <1>1
      <4>3. p[2].role # "tool"
        BY ONLY <1>7, <4>1, <4>2, ThreadsStart
      <4> QED BY <4>1, <4>3
    <3>3. R = 0 \/ R = 1
      BY <1>1
    <3> QED BY <3>1, <3>2, <3>3
  <2>2. CASE K = 0
    BY <2>1, <2>2, <1>8
  <2>3. CASE K # 0
    <3>1. K + 1 \in 1 .. Len(p) - R /\ R + (K + 1) = R + K + 1
      <4> HIDE DEF p, R, K, m, C, a, d, t
      <4> QED BY <2>3, <1>8
    <3>2. Turns(rows)[K + 1] = p[R + (K + 1)]
      BY <3>1, <1>1
    <3>3. Turns(rows)[K + 1].role # "tool"
      BY <2>3, <1>3
    <3> HIDE DEF p, R, K
    <3> QED BY <2>1, <3>1, <3>2, <3>3
  <2> QED BY <2>2, <2>3
<1> HIDE DEF p, R, K, m, C, a, d, t
<1>11. Threads(m, n, L) /\ \A i \in 1 .. Len(m) : m[i].role # "ui"
  <2>1. Window(m, p, R)
    <3>1. R \in Nat /\ R + Len(m) <= Len(p) /\ Len(m) = K
      BY <1>8
    <3> QED BY <3>1, <1>9 DEF Window
  <2>2. Threads(m, n, L)
    BY <2>1, <1>1, <1>5, <1>7, <1>10, WindowThreads
  <2>3. \A i \in 1 .. Len(m) : R + i \in 1 .. Len(p) /\ i \in 1 .. K
    BY <1>8
  <2> QED BY <2>2, <2>3, <1>5, <1>9
<1>12. Threads(a, n, L) /\ \A k \in 1 .. R : Calls(a[k]) = {} /\ a[k].role # "ui" /\ a[k].of = NoCall
  <2>1. ASSUME NEW i \in 1 .. Len(a) PROVE a[i] = p[0 + i] /\ i \in 1 .. Len(p)
    <3>1. i \in 1 .. R /\ i \in 1 .. Len(p) /\ 0 + i = i
      BY <1>8
    <3>2. a[i] = p[i]
      BY <3>1, <1>9
    <3> QED BY <3>1, <3>2
  <2>2. Window(a, p, 0)
    <3>1. 0 \in Nat /\ 0 + Len(a) <= Len(p)
      BY <1>8
    <3> QED BY ONLY <2>1, <3>1 DEF Window
  <2>3. Len(a) > 0 => p[0 + 1].role # "tool"
    BY <1>1, <1>4
  <2>4. Threads(a, n, L)
    BY <2>2, <2>3, <1>1, <1>5, <1>7, WindowThreads
  <2>5. ASSUME NEW k \in 1 .. R PROVE Calls(a[k]) = {} /\ a[k].role # "ui" /\ a[k].of = NoCall
    <3>1. k = 1 /\ R = 1 /\ 1 \in 1 .. Len(p)
      BY <1>8
    <3>2. a[k] = p[1] /\ p[1].role = "user"
      BY <3>1, <1>4, <1>9
    <3>3. p[1].calls = <<>> /\ p[1].of = NoCall
      BY <3>1, <3>2, <1>7 DEF Threads, RowOk
    <3>4. Range(p[1].calls) = {}
      BY <3>3 DEF Range
    <3> QED BY <3>2, <3>3, <3>4 DEF Calls
  <2> QED BY <2>4, <2>5
<1>13. Threads(d, n, L)
  <2>1. Window(d, p, R + K)
    <3>1. R + K \in Nat /\ R + K + Len(d) <= Len(p) /\ \A i \in 1 .. Len(d) : i \in 1 .. Len(p) - R - K
      BY <1>8
    <3>2. \A i \in 1 .. Len(d) : d[i] = p[R + K + i]
      BY <3>1, <1>9
    <3> QED BY ONLY <3>1, <3>2 DEF Window
  <2> QED BY <2>1, <1>1, <1>5, <1>7, <1>10, WindowThreads
<1>14. /\ Threads(C, n, L) /\ C \in Rows
       /\ \A k \in 1 .. Len(C) : /\ C[k].role # "ui"
                                 /\ C[k].of = NoCall \/ \E j \in 1 .. Len(m) : C[k].of \in Calls(m[j])
                                 /\ \A x \in Calls(C[k]) : /\ \E j \in 1 .. Len(m) : x \in Calls(m[j])
                                                           /\ \E j \in 1 .. Len(C) : C[j].of = x
  <2>1. C \in Rows
    BY <1>1, CondensedIs DEF C
  <2> QED BY <2>1, <1>1, <1>11, CondensedThreads DEF C
<1>15. ASSUME NEW b \in Rows, Threads(b, n, L), NEW j \in 1 .. Len(b) PROVE NoCall \notin Calls(b[j])
  <2>1. NoCall[1] = 0 /\ 0 \notin 1 .. n
    BY DEF NoCall
  <2>2. \A x \in Calls(b[j]) : x[1] \in 1 .. n
    BY <1>15 DEF Threads, RowOk
  <2> QED BY <2>1, <2>2
<1>16. Threads(a \o C, n, L) /\ a \o C \in Rows
  <2>1. a \o C \in Rows
    BY <1>1, <1>14, ConcatProperties DEF Rows
  <2>2. \A i \in 1 .. Len(a) : \A j \in 1 .. Len(C) : a[i].of \notin Calls(C[j])
    BY <1>1, <1>12, <1>14, <1>15
  <2>3. \A i \in 1 .. Len(a) : \A j \in 1 .. Len(C) : \A x \in Calls(a[i]) : x \notin Calls(C[j])
    BY <1>1, <1>12
  <2> QED BY <2>1, <2>2, <2>3, <1>1, <1>12, <1>14, ConcatThreads
<1>17. Len(a \o C) = R + Len(C) /\ \A i \in 1 .. R + Len(C) : (a \o C)[i] = IF i <= R THEN a[i] ELSE C[i - R]
  <2>1. a \in Seq(DraftType) /\ C \in Seq(DraftType)
    BY <1>1, <1>14 DEF Rows
  <2>2. /\ Len(a \o C) = Len(a) + Len(C)
        /\ \A i \in 1 .. Len(a \o C) : (a \o C)[i] = IF i <= Len(a) THEN a[i] ELSE C[i - Len(a)]
    BY ONLY <2>1, ConcatProperties
  <2> QED BY <2>2, <1>1
<1>18. ASSUME NEW q \in 1 .. Len(m), NEW j \in 1 .. Len(d), NEW x \in Calls(m[q]) PROVE x \notin Calls(d[j])
  <2>1. SUFFICES ASSUME x \in Calls(d[j]) PROVE FALSE
    OBVIOUS
  <2>2. R + q \in 1 .. Len(p) /\ q \in 1 .. K /\ j \in 1 .. Len(p) - R - K /\ R + K + j \in 1 .. Len(p)
    BY <1>8
  <2>3. x \in Calls(p[R + q]) /\ x \in Calls(p[R + K + j])
    BY <2>1, <2>2, <1>9
  <2>4. R + q = R + K + j
    BY <2>2, <2>3, <1>7 DEF Threads, Owned
  <2> QED BY <2>2, <2>4, <1>8
<1>19. ASSUME NEW i \in 1 .. Len(a \o C), NEW j \in 1 .. Len(d)
       PROVE  (\A x \in Calls((a \o C)[i]) : x \notin Calls(d[j])) /\ (a \o C)[i].of \notin Calls(d[j])
  <2>1. i \in 1 .. R + Len(C)
    BY <1>17
  <2>2. CASE i <= R
    <3>1. i \in 1 .. R /\ (a \o C)[i] = a[i]
      BY <2>1, <2>2, <1>8, <1>17
    <3>2. d \in Rows
      BY <1>1
    <3> QED BY <3>1, <3>2, <1>12, <1>13, <1>15
  <2>3. CASE ~ (i <= R)
    <3>1. i - R \in 1 .. Len(C)
      BY <2>1, <2>3, <1>8
    <3>2. (a \o C)[i] = C[i - R]
      BY <2>1, <2>3, <1>17
    <3>3. d \in Rows
      BY <1>1
    <3>4. \A x \in Calls(C[i - R]) : x \notin Calls(d[j])
      BY <3>1, <1>14, <1>18
    <3>5. C[i - R].of = NoCall => C[i - R].of \notin Calls(d[j])
      BY <3>3, <1>13, <1>15
    <3>6. ASSUME C[i - R].of # NoCall PROVE C[i - R].of \notin Calls(d[j])
      <4>1. PICK q \in 1 .. Len(m) : C[i - R].of \in Calls(m[q])
        BY <3>1, <3>6, <1>14
      <4> DEFINE x == C[i - R].of
      <4>2. x \in Calls(m[q])
        BY <4>1
      <4> HIDE DEF x
      <4>3. x \notin Calls(d[j])
        BY <4>2, <1>18
      <4> QED BY <4>3 DEF x
    <3> QED BY <3>2, <3>4, <3>5, <3>6
  <2> QED BY <2>2, <2>3
<1>20. Threads(t, n, L)
  <2>1. \A i \in 1 .. Len(a \o C) : \A j \in 1 .. Len(d) :
          (\A x \in Calls((a \o C)[i]) : x \notin Calls(d[j])) /\ (a \o C)[i].of \notin Calls(d[j])
    BY <1>19
  <2> QED BY <2>1, <1>1, <1>2, <1>13, <1>16, ConcatThreads
<1>21. DOMAIN t = 1 .. Len(t)
  BY <1>1, LenProperties DEF Rows
<1>22. ASSUME NEW k \in 1 .. Len(t)
       PROVE  \/ k \in 1 .. R /\ t[k] = a[k]
              \/ k - R \in 1 .. Len(C) /\ t[k] = C[k - R]
              \/ /\ k - R - Len(C) \in 1 .. Len(p) - R - K
                 /\ t[k] = p[R + K + (k - R - Len(C))]
  <2>1. CASE k <= R
    <3>1. k \in 1 .. R
      BY <2>1, <1>8
    <3> QED BY <3>1, <1>9
  <2>2. CASE k > R /\ k <= R + Len(C)
    <3>1. k - R \in 1 .. Len(C) /\ R + (k - R) = k
      BY <2>2, <1>8
    <3>2. t[R + (k - R)] = C[k - R]
      BY <3>1, <1>9
    <3> QED BY <3>1, <3>2
  <2>3. CASE k > R + Len(C)
    <3>1. k - R - Len(C) \in 1 .. Len(p) - R - K /\ R + Len(C) + (k - R - Len(C)) = k
      BY <2>3, <1>8
    <3>2. t[R + Len(C) + (k - R - Len(C))] = p[R + K + (k - R - Len(C))]
      BY <3>1, <1>9
    <3> QED BY <3>1, <3>2
  <2> QED BY <2>1, <2>2, <2>3, <1>8
<1>23. ASSUME NEW k \in 1 .. Len(t)
       PROVE  t[k].role # "ui" /\ \A x \in Calls(t[k]) : Has(rows, x) => Has(t, x)
  <2>1. CASE k \in 1 .. R /\ t[k] = a[k]
    BY <2>1, <1>12
  <2>2. CASE k - R \in 1 .. Len(C) /\ t[k] = C[k - R]
    <3>1. t[k].role # "ui"
      BY <2>2, <1>14
    <3>2. ASSUME NEW x \in Calls(t[k]) PROVE Has(t, x)
      <4>1. PICK j \in 1 .. Len(C) : C[j].of = x
        BY <2>2, <3>2, <1>14
      <4>2. R + j \in 1 .. Len(t)
        BY <1>8
      <4>3. t[R + j] = C[j]
        BY <1>9
      <4> QED BY <4>1, <4>2, <4>3, <1>21 DEF Has
    <3> QED BY <3>1, <3>2
  <2>3. CASE /\ k - R - Len(C) \in 1 .. Len(p) - R - K
             /\ t[k] = p[R + K + (k - R - Len(C))]
    <3> DEFINE y == R + K + (k - R - Len(C))
    <3>1. y \in 1 .. Len(p) /\ t[k] = p[y] /\ y > R + K
      <4>1. R + K + (k - R - Len(C)) \in 1 .. Len(p) /\ R + K + (k - R - Len(C)) > R + K
        <5>1. k - R - Len(C) \in 1 .. Len(p) - R - K
          BY <2>3
        <5> QED BY <5>1, <1>8
      <4> QED BY <4>1, <2>3
    <3> HIDE DEF y
    <3>2. ASSUME NEW x \in Calls(t[k]), Has(rows, x) PROVE Has(t, x)
      <4>1. PICK q \in 1 .. Len(p) : q > y /\ p[q].of = x
        BY <3>1, <3>2, PrunedHas DEF p
      <4>2. q - R - K \in 1 .. Len(p) - R - K /\ R + K + (q - R - K) = q
            /\ R + Len(C) + (q - R - K) \in 1 .. Len(t)
        BY <4>1, <3>1, <1>8
      <4>3. t[R + Len(C) + (q - R - K)] = p[R + K + (q - R - K)]
        BY <4>2, <1>9
      <4> QED BY <4>1, <4>2, <4>3, <1>21 DEF Has
    <3> QED BY <3>1, <3>2, <1>5
  <2> QED BY <1>22, <2>1, <2>2, <2>3
<1>24. ASSUME NEW calls, Batch(rows, calls) PROVE Batch(t, calls)
  <2>1. Batch(p, calls)
    BY <1>1, <1>6, <1>24, ThinnedBatch
  <2>2. PICK b \in 1 .. Len(p) :
          /\ p[b].role = "assistant" /\ \A k \in b + 1 .. Len(p) : p[k].role \in {"tool", "ui"}
          /\ \A i \in 1 .. Len(calls) : calls[i].n \in Calls(p[b])
          /\ (\A k \in b + 1 .. Len(p) : p[k].role = "ui") => calls[1].n = p[b].calls[1].n
    BY <2>1 DEF Batch
  <2>3. b >= R + K + 1
    <3>1. SUFFICES ASSUME ~ (b >= R + K + 1) PROVE FALSE
      OBVIOUS
    <3>2. R + K + 1 \in b + 1 .. Len(p) /\ R + K + 1 \in 1 .. Len(p)
      BY <3>1, <1>8
    <3> QED BY <3>2, <2>2, <1>5, <1>10
  <2> DEFINE e == R + Len(C) + (b - R - K)
  <2>4. b - R - K \in 1 .. Len(p) - R - K /\ R + K + (b - R - K) = b /\ e \in 1 .. Len(t)
    BY <2>3, <1>8
  <2>5. t[e] = p[b]
    BY <2>4, <1>9
  <2>6. ASSUME NEW k \in e + 1 .. Len(t)
        PROVE  k - R - Len(C) + R + K \in b + 1 .. Len(p) /\ t[k] = p[k - R - Len(C) + R + K]
    <3>1. k - R - Len(C) \in 1 .. Len(p) - R - K /\ R + Len(C) + (k - R - Len(C)) = k
          /\ k - R - Len(C) + R + K \in b + 1 .. Len(p)
          /\ R + K + (k - R - Len(C)) = k - R - Len(C) + R + K
      BY <2>4, <1>8
    <3>2. t[R + Len(C) + (k - R - Len(C))] = p[R + K + (k - R - Len(C))]
      BY <3>1, <1>9
    <3> HIDE DEF e
    <3> QED BY <3>1, <3>2
  <2>7. ASSUME NEW q \in b + 1 .. Len(p)
        PROVE  R + Len(C) + (q - R - K) \in e + 1 .. Len(t) /\ t[R + Len(C) + (q - R - K)] = p[q]
    <3>1. q - R - K \in 1 .. Len(p) - R - K /\ R + K + (q - R - K) = q
          /\ R + Len(C) + (q - R - K) \in e + 1 .. Len(t)
      BY <2>3, <2>4, <1>8
    <3>2. t[R + Len(C) + (q - R - K)] = p[R + K + (q - R - K)]
      BY <3>1, <1>9
    <3> HIDE DEF e
    <3> QED BY <3>1, <3>2
  <2> HIDE DEF e
  <2>8. \A k \in e + 1 .. Len(t) : t[k].role \in {"tool", "ui"}
    BY <2>2, <2>6
  <2>9. (\A k \in e + 1 .. Len(t) : t[k].role = "ui") => \A q \in b + 1 .. Len(p) : p[q].role = "ui"
    BY <2>7
  <2> QED BY <2>2, <2>4, <2>5, <2>8, <2>9 DEF Batch
<1>25. WellCompacted(t, rows, n, L)
  BY <1>20, <1>23, <1>24 DEF WellCompacted
<1> QED BY <1>25 DEF t

\* Compaction of any threaded rows keeps the threads: results follow the batches of their
\* calls, a call whose result was there has it, and the batch that is executed stays last.
THEOREM CompactWell ==
  ASSUME NEW rows \in Rows, NEW n, NEW L, Threads(rows, n, L), NEW keep \in Nat \ {0},
         NEW force, NEW over, NEW fits, NEW shrinks
  PROVE  WellCompacted(Compact(rows, keep, force, over, fits, shrinks).rows, rows, n, L)
<1> DEFINE c == Compact(rows, keep, force, over, fits, shrinks)
<1>1. \/ c.rows = Pruned(rows)
      \/ c.rows = Joined(rows, keep) /\ ~ (Len(Turns(rows)) <= keep)
  BY CompactIs
<1> HIDE DEF c
<1>2. Len(Turns(rows)) \in Nat
  BY TurnsAreRows, LenProperties DEF Rows
<1>3. CASE c.rows = Pruned(rows)
  BY <1>3, PrunedWell DEF c
<1>4. CASE c.rows = Joined(rows, keep) /\ ~ (Len(Turns(rows)) <= keep)
  <2>1. keep <= Len(Turns(rows))
    BY <1>2, <1>4
  <2> QED BY <1>4, <2>1, JoinedWell DEF c
<1> QED BY <1>1, <1>3, <1>4

\* More rows in the chat, and more late runbooks.
LEMMA ThreadsMore ==
  ASSUME NEW rows \in Rows, NEW n \in Nat, NEW L, Threads(rows, n, L), NEW more \in Nat, n <= more,
         NEW wide, L \subseteq wide
  PROVE  Threads(rows, more, wide)
<1>1. 1 .. n \subseteq 1 .. more
  OBVIOUS
<1>2. \A i \in 1 .. Len(rows) : RowOk(rows[i], more, wide)
  BY <1>1 DEF Threads, RowOk
<1>3. Follows(rows, wide)
  <2>1. ASSUME NEW i \in 1 .. Len(rows), rows[i].role = "tool"
        PROVE  \E j \in 1 .. i - 1 : /\ rows[j].role = "assistant" /\ (rows[i].of \in Calls(rows[j]) \/ rows[i].of \in wide)
                                     /\ \A k \in j + 1 .. i : rows[k].role \in {"tool", "ui"}
    BY <2>1 DEF Threads, Follows
  <2> QED BY <2>1 DEF Follows
<1> QED BY <1>2, <1>3 DEF Threads

\* Rows of which each is alike, in its place.
LEMMA AlikeThreads ==
  ASSUME NEW t \in Rows, NEW rows \in Rows, Len(t) = Len(rows), \A i \in 1 .. Len(rows) : Alike(t[i], rows[i]),
         NEW n, NEW L, Threads(rows, n, L)
  PROVE  Threads(t, n, L) /\ \A calls : Batch(rows, calls) => Batch(t, calls)
<1> DEFINE pos == [i \in 1 .. Len(rows) |-> i]
<1>1. Thinned(t, rows, pos)
  BY DEF Thinned
<1> HIDE DEF pos
<1> QED BY <1>1, ThinnedThreads, ThinnedBatch

LEMMA SpokenThreads ==
  ASSUME NEW rows \in Rows, NEW n, NEW L, Threads(rows, n, L)
  PROVE  Threads(Spoken(rows), n, L)
<1> DEFINE s == Spoken(rows)
<1>1. rows \in Seq(DraftType)
  BY DEF Rows
<1>2. s \in Seq(DraftType)
  BY ONLY <1>1, SpokenIs
<1>3. PICK pos \in [1 .. Len(s) -> 1 .. Len(rows)] :
        /\ \A k \in 1 .. Len(s) : s[k] = rows[pos[k]] /\ rows[pos[k]].role # "ui"
        /\ \A k, l \in 1 .. Len(s) : k < l => pos[k] < pos[l]
        /\ \A i \in 1 .. Len(rows) : rows[i].role # "ui" => \E k \in 1 .. Len(s) : pos[k] = i
  BY ONLY <1>1, SpokenIs
<1>4. s \in Rows
  BY <1>2 DEF Rows
<1> HIDE DEF s
<1>5. Thinned(s, rows, pos)
  BY <1>3 DEF Thinned, Alike
<1>6. Threads(s, n, L)
  BY <1>4, <1>5, ThinnedThreads
<1> QED BY <1>6 DEF s

\* One more row.
LEMMA AppendedIs ==
  ASSUME NEW rows \in Rows, NEW x \in DraftType
  PROVE  LET t == Append(rows, x)
         IN /\ t \in Rows /\ Len(rows) \in Nat /\ Len(t) = Len(rows) + 1 /\ t = rows \o <<x>>
            /\ \A i \in 1 .. Len(rows) : t[i] = rows[i]
            /\ t[Len(rows) + 1] = x
            /\ <<x>> \in Rows /\ Len(<<x>>) = 1 /\ <<x>>[1] = x
<1>1. rows \in Seq(DraftType)
  BY DEF Rows
<1>2. Append(rows, x) = rows \o <<x>>
  BY ONLY <1>1, x \in DraftType, AppendIsConcat
<1>3. /\ Append(rows, x) \in Seq(DraftType) /\ Len(rows) \in Nat /\ Len(Append(rows, x)) = Len(rows) + 1
      /\ \A i \in 1 .. Len(rows) : Append(rows, x)[i] = rows[i]
      /\ Append(rows, x)[Len(rows) + 1] = x
  BY ONLY <1>1, x \in DraftType, AppendProperties, LenProperties
<1>4. <<x>> \in Seq(DraftType) /\ Len(<<x>>) = 1 /\ <<x>>[1] = x
  OBVIOUS
<1> QED BY <1>2, <1>3, <1>4 DEF Rows

\* A row that is no result, with calls that no row holds.
LEMMA AppendThreads ==
  ASSUME NEW rows \in Rows, NEW n \in Nat, NEW L, Threads(rows, n, L), NEW x \in DraftType, x.role # "tool",
         RowOk(x, n + 1, L), \A c \in Calls(x) : c[1] = n + 1
  PROVE  Threads(Append(rows, x), n + 1, L)
<1> DEFINE b == <<x>>
<1>1. b \in Rows /\ Len(b) = 1 /\ b[1] = x /\ Append(rows, x) = rows \o b
  BY AppendedIs
<1> HIDE DEF b
<1>2. \A i \in 1 .. Len(b) : i = 1 /\ b[i] = x
  BY <1>1
<1>3. Threads(b, n + 1, L)
  <2>1. \A i \in 1 .. Len(b) : RowOk(b[i], n + 1, L)
    BY <1>2
  <2>2. Owned(b)
    BY <1>2 DEF Owned
  <2>3. Follows(b, L) /\ Leads(b)
    BY <1>2 DEF Follows, Leads
  <2>4. Later(b)
    <3>1. x.of = NoCall /\ NoCall[1] = 0 /\ n + 1 # 0
      BY DEF RowOk, NoCall
    <3> QED BY <3>1, <1>2 DEF Later
  <2> QED BY <2>1, <2>2, <2>3, <2>4 DEF Threads
<1>4. Threads(rows, n + 1, L)
  BY ThreadsMore
<1>5. \A i \in 1 .. Len(rows) : \A j \in 1 .. Len(b) : rows[i].of \notin Calls(b[j])
  <2>1. ASSUME NEW i \in 1 .. Len(rows), NEW j \in 1 .. Len(b), rows[i].of \in Calls(b[j]) PROVE FALSE
    <3>1. rows[i].of[1] = n + 1
      BY <2>1, <1>2
    <3>2. rows[i].of = NoCall \/ rows[i].of[1] \in 1 .. n
      BY DEF Threads, RowOk
    <3>3. NoCall[1] = 0
      BY DEF NoCall
    <3> QED BY <3>1, <3>2, <3>3
  <2> QED BY <2>1
<1>6. \A i \in 1 .. Len(rows) : \A j \in 1 .. Len(b) : \A c \in Calls(rows[i]) : c \notin Calls(b[j])
  <2>1. ASSUME NEW i \in 1 .. Len(rows), NEW j \in 1 .. Len(b), NEW c \in Calls(rows[i]), c \in Calls(b[j])
        PROVE  FALSE
    <3>1. c[1] = n + 1
      BY <2>1, <1>2
    <3>2. c[1] \in 1 .. n
      BY DEF Threads, RowOk
    <3> QED BY <3>1, <3>2
  <2> QED BY <2>1
<1> QED BY <1>1, <1>3, <1>4, <1>6, <1>5, ConcatThreads

\* What only the browser shows leaves the batch the last.
LEMMA NoticeBatch ==
  ASSUME NEW rows \in Rows, NEW calls, Batch(rows, calls), NEW x \in DraftType, x.role = "ui"
  PROVE  Batch(Append(rows, x), calls)
<1> DEFINE t == Append(rows, x)
<1>1. /\ Len(rows) \in Nat /\ Len(t) = Len(rows) + 1 /\ \A i \in 1 .. Len(rows) : t[i] = rows[i]
      /\ t[Len(rows) + 1] = x
  BY AppendedIs
<1> HIDE DEF t
<1>2. PICK b \in 1 .. Len(rows) :
        /\ rows[b].role = "assistant" /\ \A k \in b + 1 .. Len(rows) : rows[k].role \in {"tool", "ui"}
        /\ \A i \in 1 .. Len(calls) : calls[i].n \in Calls(rows[b])
        /\ (\A k \in b + 1 .. Len(rows) : rows[k].role = "ui") => calls[1].n = rows[b].calls[1].n
  BY DEF Batch
<1>3. b \in 1 .. Len(t) /\ t[b] = rows[b]
  BY <1>1
<1>4. ASSUME NEW k \in b + 1 .. Len(t) PROVE (k \in b + 1 .. Len(rows) /\ t[k] = rows[k]) \/ t[k] = x
  <2>1. k \in 1 .. Len(rows) \/ k = Len(rows) + 1
    BY <1>1
  <2> QED BY <2>1, <1>1
<1>5. \A k \in b + 1 .. Len(t) : t[k].role \in {"tool", "ui"}
  BY <1>2, <1>4
<1>6. (\A k \in b + 1 .. Len(t) : t[k].role = "ui") => \A k \in b + 1 .. Len(rows) : rows[k].role = "ui"
  <2>1. \A k \in b + 1 .. Len(rows) : k \in b + 1 .. Len(t) /\ k \in 1 .. Len(rows)
    BY <1>1
  <2> QED BY <2>1, <1>1
<1>7. Batch(t, calls)
  BY <1>2, <1>3, <1>5, <1>6 DEF Batch
<1> QED BY <1>7 DEF t

\* The batch that is to be executed is the last row.
LEMMA NewBatch ==
  ASSUME NEW rows \in Rows, NEW x \in DraftType, x.role = "assistant"
  PROVE  Batch(Append(rows, x), x.calls)
<1> DEFINE t == Append(rows, x)
<1>1. Len(rows) \in Nat /\ Len(t) = Len(rows) + 1 /\ t[Len(rows) + 1] = x
  BY AppendedIs
<1> HIDE DEF t
<1>2. Len(t) \in 1 .. Len(t) /\ t[Len(t)] = x /\ \A k \in Len(t) + 1 .. Len(t) : FALSE
  BY <1>1
<1>3. \A i \in 1 .. Len(x.calls) : x.calls[i].n \in Calls(x)
  <2>1. x.calls \in Seq(CallType)
    BY DEF DraftType
  <2>2. DOMAIN x.calls = 1 .. Len(x.calls)
    BY <2>1, LenProperties
  <2> QED BY <2>2 DEF Calls, Range
<1>4. Batch(t, x.calls)
  BY <1>2, <1>3 DEF Batch
<1> QED BY <1>4 DEF t

\* The first of the calls to do get their results, after the rows of their batch.
LEMMA ResultThreads ==
  ASSUME NEW rows \in Rows, NEW n \in Nat, NEW L, Threads(rows, n, L), NEW calls \in Seq(CallType), Batch(rows, calls),
         NEW new \in Rows, Len(new) >= 1, Len(new) <= Len(calls),
         \A i \in 1 .. Len(new) : new[i].role = "tool" /\ new[i].of = calls[i].n /\ new[i].calls = <<>>,
         NEW more \in Nat, n <= more,
         NEW rest, Len(rest) = Len(calls) - Len(new), \A i \in 1 .. Len(rest) : rest[i] = calls[Len(new) + i]
  PROVE  Threads(rows \o new, more, L) /\ Batch(rows \o new, rest)
<1> DEFINE t == rows \o new
<1> DEFINE R == Len(rows)
<1>1. R \in Nat /\ Len(new) \in Nat /\ Len(calls) \in Nat
  BY LenProperties DEF Rows
<1>2. Len(t) = R + Len(new) /\ \A i \in 1 .. R + Len(new) : t[i] = IF i <= R THEN rows[i] ELSE new[i - R]
  <2>1. rows \in Seq(DraftType) /\ new \in Seq(DraftType)
    BY DEF Rows
  <2>2. /\ Len(rows \o new) = Len(rows) + Len(new)
        /\ \A i \in 1 .. Len(rows \o new) : (rows \o new)[i] = IF i <= Len(rows) THEN rows[i] ELSE new[i - Len(rows)]
    BY ONLY <2>1, ConcatProperties
  <2> QED BY <2>2
<1> HIDE DEF t, R
<1>3. \A i \in 1 .. R : i \in 1 .. Len(t) /\ i \in 1 .. Len(rows) /\ t[i] = rows[i]
  BY <1>1, <1>2 DEF R
<1>4. ASSUME NEW i \in 1 .. Len(t)
      PROVE  \/ i \in 1 .. R
             \/ /\ i > R /\ i - R \in 1 .. Len(new) /\ t[i].role = "tool" /\ t[i].of = calls[i - R].n
                /\ t[i].calls = <<>>
  <2>1. CASE i <= R
    BY <2>1, <1>1
  <2>2. CASE ~ (i <= R)
    <3>1. i \in 1 .. R + Len(new) /\ i > R /\ i - R \in 1 .. Len(new)
      BY <2>2, <1>1, <1>2
    <3>2. t[i] = new[i - R]
      BY <2>2, <3>1, <1>2
    <3> QED BY <3>1, <3>2
  <2> QED BY <2>1, <2>2
<1>5. PICK b \in 1 .. R :
        /\ rows[b].role = "assistant" /\ \A k \in b + 1 .. R : rows[k].role \in {"tool", "ui"}
        /\ \A i \in 1 .. Len(calls) : calls[i].n \in Calls(rows[b])
        /\ (\A k \in b + 1 .. R : rows[k].role = "ui") => calls[1].n = rows[b].calls[1].n
  BY DEF Batch, R
<1>6. \A k \in b + 1 .. Len(t) : k \in 1 .. Len(t) /\ t[k].role \in {"tool", "ui"}
  <2>1. ASSUME NEW k \in b + 1 .. Len(t) PROVE k \in 1 .. Len(t) /\ t[k].role \in {"tool", "ui"}
    <3>1. k \in 1 .. Len(t) /\ k > b
      BY <1>1, <1>2
    <3>2. CASE k \in 1 .. R
      <4>1. k \in b + 1 .. R
        BY <3>1, <3>2, <1>1
      <4> QED BY <3>1, <3>2, <4>1, <1>3, <1>5
    <3> QED BY <3>1, <3>2, <1>4
  <2> QED BY <2>1
<1>7. \A k \in 1 .. Len(t) : k \notin 1 .. R => Calls(t[k]) = {}
  <2>1. ASSUME NEW k \in 1 .. Len(t), k \notin 1 .. R PROVE Calls(t[k]) = {}
    <3>1. t[k].calls = <<>>
      BY <2>1, <1>4
    <3>2. Range(t[k].calls) = {}
      BY <3>1 DEF Range
    <3> QED BY <3>2 DEF Calls
  <2> QED BY <2>1
<1>8. Threads(rows, more, L)
  BY ThreadsMore
<1>9. \A i \in 1 .. Len(t) : RowOk(t[i], more, L)
  <2>1. ASSUME NEW i \in 1 .. Len(t) PROVE RowOk(t[i], more, L)
    <3>1. CASE i \in 1 .. R
      BY <3>1, <1>3, <1>8 DEF Threads
    <3>2. CASE i \notin 1 .. R
      <4>1. t[i].role = "tool" /\ t[i].calls = <<>> /\ Calls(t[i]) = {}
        BY <3>2, <1>4, <1>7
      <4>2. ~ Views(t[i])
        BY <4>1 DEF Views
      <4>3. i - R \in 1 .. Len(calls) /\ t[i].of = calls[i - R].n
        BY <3>2, <1>1, <1>4
      <4>4. t[i].of[1] \in 1 .. more
        <5>1. t[i].of \in Calls(rows[b]) /\ b \in 1 .. Len(rows)
          BY <4>3, <1>3, <1>5
        <5> QED BY <5>1, <1>8 DEF Threads, RowOk
      <4> QED BY <4>1, <4>2, <4>4 DEF RowOk
    <3> QED BY <3>1, <3>2
  <2> QED BY <2>1
<1>10. Owned(t)
  <2>1. ASSUME NEW i \in 1 .. Len(t), NEW j \in 1 .. Len(t), NEW c \in Calls(t[i]), c \in Calls(t[j]) PROVE i = j
    <3>1. i \in 1 .. R /\ j \in 1 .. R
      BY <2>1, <1>7
    <3> QED BY <2>1, <3>1, <1>3 DEF Threads, Owned
  <2> QED BY <2>1 DEF Owned
<1>11. Follows(t, L)
  <2>1. ASSUME NEW i \in 1 .. Len(t), t[i].role = "tool"
        PROVE  \E j \in 1 .. i - 1 : /\ t[j].role = "assistant" /\ (t[i].of \in Calls(t[j]) \/ t[i].of \in L)
                                     /\ \A k \in j + 1 .. i : t[k].role \in {"tool", "ui"}
    <3>1. CASE i \in 1 .. R
      <4>1. PICK j \in 1 .. i - 1 :
              /\ rows[j].role = "assistant" /\ (rows[i].of \in Calls(rows[j]) \/ rows[i].of \in L)
              /\ \A k \in j + 1 .. i : rows[k].role \in {"tool", "ui"}
        BY <2>1, <3>1, <1>3 DEF Threads, Follows
      <4>2. j \in 1 .. R /\ \A k \in j + 1 .. i : k \in 1 .. R
        BY <3>1, <1>1
      <4> QED BY <3>1, <4>1, <4>2, <1>3
    <3>2. CASE i \notin 1 .. R
      <4>1. i > R /\ i - R \in 1 .. Len(new) /\ t[i].of = calls[i - R].n
        BY <3>2, <1>4
      <4>2. i - R \in 1 .. Len(calls) /\ b \in 1 .. i - 1 /\ \A k \in b + 1 .. i : k \in b + 1 .. Len(t)
        BY <4>1, <1>1
      <4>3. t[i].of \in Calls(t[b]) /\ t[b].role = "assistant"
        BY <4>1, <4>2, <1>3, <1>5
      <4> QED BY <4>2, <4>3, <1>6
    <3> QED BY <3>1, <3>2
  <2> QED BY <2>1 DEF Follows
<1>12. Leads(t)
  <2>1. ASSUME NEW i \in 1 .. Len(t), NEW j \in 1 .. i - 1, t[i].role = "tool", t[j].role = "assistant", t[j].calls # <<>>,
               \A k \in j + 1 .. i - 1 : t[k].role = "ui"
        PROVE  t[i].of = t[j].calls[1].n
    <3>1. CASE i \in 1 .. R
      <4>1. j \in 1 .. R /\ \A k \in j + 1 .. i - 1 : k \in 1 .. R
        BY <3>1, <1>1
      <4>2. \A k \in j + 1 .. i - 1 : rows[k].role = "ui"
        BY <2>1, <4>1, <1>3
      <4>3. t[i] = rows[i] /\ t[j] = rows[j] /\ i \in 1 .. Len(rows)
        BY <3>1, <4>1, <1>3
      <4> QED BY <2>1, <4>2, <4>3 DEF Threads, Leads
    <3>2. CASE i \notin 1 .. R
      <4>1. i > R /\ i - R \in 1 .. Len(new) /\ t[i].of = calls[i - R].n /\ i \in Nat /\ j \in Nat /\ j < i /\ j >= 1
        BY <3>2, <1>1, <1>4
      <4>2. j \in 1 .. Len(t)
        BY <4>1, <1>1
      <4>3. j <= b
        <5>1. SUFFICES ASSUME ~ (j <= b) PROVE FALSE
          OBVIOUS
        <5>2. j \in b + 1 .. Len(t)
          BY <4>1, <4>2, <5>1, <1>1
        <5> QED BY <2>1, <5>2, <1>6
      <4>4. j >= b
        <5>1. SUFFICES ASSUME ~ (j >= b) PROVE FALSE
          OBVIOUS
        <5>2. b \in j + 1 .. i - 1
          BY <4>1, <5>1, <1>1
        <5> QED BY <2>1, <5>2, <1>3, <1>5
      <4>5. j = b /\ b \in Nat /\ b <= R
        BY <4>1, <4>3, <4>4, <1>1
      <4>6. i = R + 1
        <5>1. SUFFICES ASSUME i # R + 1 PROVE FALSE
          OBVIOUS
        <5>2. R + 1 \in 1 .. Len(t) /\ ~ (R + 1 \in 1 .. R)
          <6>1. Len(new) >= 1
            OBVIOUS
          <6> QED BY <6>1, <1>1, <1>2
        <5>3. R + 1 \in j + 1 .. i - 1
          BY <4>1, <4>5, <5>1, <1>1
        <5> QED BY <2>1, <5>2, <5>3, <1>4
      <4>7. \A k \in b + 1 .. R : rows[k].role = "ui"
        <5>1. ASSUME NEW k \in b + 1 .. R PROVE rows[k].role = "ui"
          <6>1. k \in j + 1 .. i - 1 /\ k \in 1 .. R
            BY <4>5, <4>6, <1>1
          <6> QED BY <2>1, <6>1, <1>3
        <5> QED BY <5>1
      <4>8. i - R = 1
        BY <4>6, <1>1
      <4> QED BY <4>1, <4>5, <4>7, <4>8, <1>3, <1>5
    <3> QED BY <3>1, <3>2
  <2> QED BY <2>1 DEF Leads
<1>13. Later(t)
  <2>1. ASSUME NEW i \in 1 .. Len(t), NEW j \in 1 .. Len(t), t[i].of \in Calls(t[j]) PROVE j < i
    <3>1. j \in 1 .. R
      BY <2>1, <1>7
    <3>2. CASE i \in 1 .. R
      BY <2>1, <3>1, <3>2, <1>3 DEF Threads, Later
    <3>3. CASE i \notin 1 .. R
      BY <3>1, <3>3, <1>1, <1>4
    <3> QED BY <3>2, <3>3
  <2> QED BY <2>1 DEF Later
<1>14. Threads(t, more, L)
  BY <1>9, <1>10, <1>11, <1>12, <1>13 DEF Threads
<1>15. Batch(t, rest)
  <2>1. b \in 1 .. Len(t) /\ t[b] = rows[b]
    BY <1>3
  <2>2. \A i \in 1 .. Len(rest) : rest[i].n \in Calls(t[b])
    <3>1. ASSUME NEW i \in 1 .. Len(rest) PROVE rest[i].n \in Calls(t[b])
      <4>1. Len(new) + i \in 1 .. Len(calls)
        BY <1>1
      <4> QED BY <2>1, <4>1, <1>5
    <3> QED BY <3>1
  <2>3. ~ \A k \in b + 1 .. Len(t) : t[k].role = "ui"
    <3>1. R + 1 \in b + 1 .. Len(t) /\ R + 1 \in 1 .. Len(t) /\ ~ (R + 1 \in 1 .. R)
      BY <1>1, <1>2
    <3>2. t[R + 1].role = "tool"
      BY <3>1, <1>4
    <3> QED BY <3>1, <3>2
  <2>4. \A k \in b + 1 .. Len(t) : t[k].role \in {"tool", "ui"}
    BY <1>6
  <2> QED BY <2>1, <2>2, <2>3, <2>4, <1>5 DEF Batch
<1> QED BY <1>14, <1>15 DEF t

\* The threads of the chat and of the turn in progress, and the batch it executes.
Total == Len(active) + Len(archived)

ThreadInv ==
  /\ Threads(active, Total, LateRunbooks) /\ Threads(history, Total, LateRunbooks)
  /\ turn = "tools" => Batch(active, todo) /\ Batch(history, todo)

LEMMA TotalIs ==
  ASSUME IInv
  PROVE  /\ Total \in Nat /\ NextId = Total + 1
         /\ active \in Rows /\ history \in Rows
         /\ active \in Seq(RowType) /\ archived \in Seq(RowType) /\ history \in Seq(RowType)
<1>1. active \in Seq(RowType) /\ archived \in Seq(RowType) /\ history \in Seq(RowType)
  BY DEF IInv, ChatInv, TurnInv
<1>2. Total \in Nat
  BY <1>1, StoredIs DEF Total
<1> QED BY <1>1, <1>2, NextRows, StoredRows DEF Total

\* A row without a call is added.
LEMMA PlainThreads ==
  ASSUME NEW rows \in Rows, NEW n \in Nat, NEW L, Threads(rows, n, L), NEW x \in RowType,
         x.role # "tool", x.of = NoCall, x.calls = <<>>
  PROVE  Threads(Append(rows, x), n + 1, L)
<1>1. x \in DraftType
  BY RowIsDraft
<1>2. Range(x.calls) = {}
  BY DEF Range
<1>3. Calls(x) = {}
  BY <1>2 DEF Calls
<1>4. ~ Views(x)
  BY <1>2 DEF Views
<1>5. RowOk(x, n + 1, L)
  BY <1>3, <1>4 DEF RowOk
<1> QED BY <1>1, <1>3, <1>5, AppendThreads

\* A batch is added.
LEMMA MadeThreads ==
  ASSUME NEW rows \in Rows, NEW n \in Nat, NEW L, Threads(rows, n, L), NEW batch \in Batches,
         NEW row, row = MadeRow(n + 1, batch), NEW made, made = Made(n + 1, batch),
         Views(row) => ViewCall(row).n = row.calls[1].n \/ ViewCall(row).n \in L
  PROVE  Threads(Append(rows, row), n + 1, L) /\ Batch(Append(rows, row), made)
<1>1. n + 1 \in Nat \ {0}
  OBVIOUS
<1>2. /\ made \in Seq(CallType) /\ Len(made) = Len(batch)
      /\ \A i \in 1 .. Len(made) : made[i].n = <<n + 1, i>> /\ made[i].kind = batch[i]
      /\ row \in RowType /\ row.of = NoCall /\ row.role = "assistant" /\ row.calls = made
  BY <1>1, BatchIs
<1>3. row \in DraftType
  BY <1>2, RowIsDraft
<1>4. DOMAIN made = 1 .. Len(made) /\ DOMAIN batch = 1 .. Len(batch)
  <2>1. batch \in Seq(Kinds)
    BY BatchesAssumption
  <2> QED BY <1>2, <2>1, LenProperties
<1>5. \A c \in Calls(row) : c[1] = n + 1
  BY <1>2, <1>4 DEF Calls, Range
<1>6. n + 1 \in 1 .. n + 1
  OBVIOUS
<1>7. \A c \in Calls(row) : c[1] \in 1 .. n + 1
  BY <1>5, <1>6
<1>8. RowOk(row, n + 1, L)
  BY <1>2, <1>7 DEF RowOk
<1>9. Threads(Append(rows, row), n + 1, L)
  BY <1>2, <1>3, <1>5, <1>8, AppendThreads
<1>10. Batch(Append(rows, row), row.calls)
  BY <1>2, <1>3, NewBatch
<1> QED BY <1>2, <1>9, <1>10

\* The first call to do gets its result.
LEMMA ResultThread ==
  ASSUME NEW rows \in Rows, NEW n \in Nat, NEW L, Threads(rows, n, L), NEW calls \in Seq(CallType), Batch(rows, calls),
         NEW x \in RowType, Len(calls) >= 1, x.role = "tool", x.of = calls[1].n, x.calls = <<>>,
         NEW rest, Len(rest) = Len(calls) - 1, \A i \in 1 .. Len(rest) : rest[i] = calls[i + 1]
  PROVE  Threads(Append(rows, x), n + 1, L) /\ Batch(Append(rows, x), rest)
<1> DEFINE new == <<x>>
<1>1. x \in DraftType
  BY RowIsDraft
<1>2. new \in Rows /\ Len(new) = 1 /\ new[1] = x /\ Append(rows, x) = rows \o new
  BY <1>1, AppendedIs
<1> HIDE DEF new
<1>3. \A i \in 1 .. Len(new) : new[i].role = "tool" /\ new[i].of = calls[i].n /\ new[i].calls = <<>>
  <2>1. \A i \in 1 .. Len(new) : i = 1
    BY <1>2
  <2> QED BY <2>1, <1>2
<1>4. \A i \in 1 .. Len(rest) : rest[i] = calls[Len(new) + i]
  <2>1. \A i \in 1 .. Len(rest) : Len(new) + i = i + 1
    BY <1>2
  <2> QED BY <2>1
<1>5. Len(new) >= 1 /\ Len(new) <= Len(calls) /\ Len(rest) = Len(calls) - Len(new) /\ n + 1 \in Nat /\ n <= n + 1
  BY <1>2
<1>6. Threads(rows \o new, n + 1, L) /\ Batch(rows \o new, rest)
  <2> DEFINE more == n + 1
  <2>1. more \in Nat /\ n <= more
    BY <1>5
  <2> HIDE DEF more
  <2>2. Threads(rows \o new, more, L) /\ Batch(rows \o new, rest)
    <3>1. rows \in Rows /\ n \in Nat /\ Threads(rows, n, L) /\ calls \in Seq(CallType) /\ Batch(rows, calls)
      OBVIOUS
    <3>2. new \in Rows
      BY <1>2
    <3> QED BY ONLY <1>3, <1>4, <1>5, <2>1, <3>1, <3>2, ResultThreads, ZenonT(30)
  <2> QED BY <2>2 DEF more
<1> QED BY <1>2, <1>6

\* The button.
LEMMA PressThreads ==
  ASSUME IInv, Press, NEW L, Threads(active, Total, L)
  PROVE  Threads(active', Total', L) /\ Total' \in Nat /\ Total <= Total'
         /\ \A calls : Batch(active, calls) => Batch(active', calls)
<1>1. PICK fits \in BOOLEAN, shrinks \in BOOLEAN :
        LET c == Compact(active, ButtonKeep, TRUE, TRUE, fits, shrinks)
        IN IF c.applied THEN Replace(c.rows) ELSE UNCHANGED <<active, archived, link>>
  BY DEF Press
<1> DEFINE rows == Compact(active, ButtonKeep, TRUE, TRUE, fits, shrinks).rows
<1>2. Replace(rows) \/ (active' = active /\ archived' = archived)
  BY <1>1
<1>3. active \in Rows /\ Total \in Nat
  BY TotalIs
<1>4. rows \in Rows /\ (\E from : TakenFrom(rows, active, from)) /\ WellCompacted(rows, active, Total, L)
  <2>1. ButtonKeep \in Nat \ {0} /\ ButtonKeep \in Nat
    BY KeepsAssumption
  <2> DEFINE yes == TRUE
  <2> HIDE DEF yes
  <2>2. LET t == Compact(active, ButtonKeep, yes, yes, fits, shrinks).rows
        IN t \in Rows /\ \E from : TakenFrom(t, active, from)
    BY <2>1, <1>3, CompactTakes
  <2>3. WellCompacted(Compact(active, ButtonKeep, yes, yes, fits, shrinks).rows, active, Total, L)
    BY <2>1, <1>3, CompactWell
  <2> QED BY <2>2, <2>3 DEF yes
<1> HIDE DEF rows
<1>5. CASE active' = active /\ archived' = archived
  BY <1>3, <1>5 DEF Total
<1>6. CASE Replace(rows)
  <2>1. PICK from : TakenFrom(rows, active, from)
    BY <1>4
  <2>2. ReplacedWell
    BY <2>1, <1>4, <1>6, ReplaceInv DEF IInv
  <2>3. Total <= Total' /\ active' \in Seq(RowType) /\ archived' \in Seq(RowType)
    BY <2>2 DEF ReplacedWell, ChatInv, Total
  <2>4. Total' \in Nat
    BY <2>3, StoredIs DEF Total
  <2>5. active' = Numbered(rows) /\ Len(Stored) \in Nat
    <3>1. Len(Stored) = Total
      BY TotalIs, StoredIs DEF Stored, Total
    <3> QED BY <3>1, <1>3, <1>6 DEF Replace
  <2>6. active' \in Rows /\ Len(active') = Len(rows) /\ \A i \in 1 .. Len(rows) : Alike(active'[i], rows[i])
    <3> DEFINE kept == Numbered(rows)
    <3>1. /\ kept \in Seq(RowType) /\ Len(kept) = Len(rows)
          /\ \A i \in 1 .. Len(rows) : IF rows[i].id # 0 THEN kept[i] = rows[i]
                                       ELSE kept[i] = [rows[i] EXCEPT !.id = kept[i].id]
      BY <1>4, <2>5, NumberedIs
    <3> HIDE DEF kept
    <3>2. ASSUME NEW i \in 1 .. Len(rows) PROVE Alike(kept[i], rows[i])
      <4>1. rows[i] \in DraftType
        BY <1>4, ElementOfSeq DEF Rows
      <4>2. kept[i] = rows[i] \/ kept[i] = [rows[i] EXCEPT !.id = kept[i].id]
        BY <3>1
      <4>3. CASE kept[i] = [rows[i] EXCEPT !.id = kept[i].id]
        <5> DEFINE e == kept[i].id
        <5> HIDE DEF e
        <5>1. kept[i] = [rows[i] EXCEPT !.id = e]
          BY <4>3 DEF e
        <5>2. [rows[i] EXCEPT !.id = e].role = rows[i].role /\ [rows[i] EXCEPT !.id = e].of = rows[i].of
              /\ [rows[i] EXCEPT !.id = e].calls = rows[i].calls
          BY <4>1 DEF DraftType
        <5> QED BY <5>1, <5>2 DEF Alike
      <4> QED BY <4>2, <4>3 DEF Alike
    <3> QED BY <3>1, <3>2, <2>5, RowsAreDrafts DEF kept
  <2>7. Threads(active', Total, L) /\ \A calls : Batch(rows, calls) => Batch(active', calls)
    BY <2>6, <1>4, AlikeThreads DEF WellCompacted
  <2>8. Threads(active', Total', L)
    <3>1. L \subseteq L
      OBVIOUS
    <3> QED BY <3>1, <2>3, <2>4, <2>6, <2>7, <1>3, ThreadsMore
  <2> QED BY <2>3, <2>4, <2>7, <2>8, <1>4 DEF WellCompacted
<1> QED BY <1>2, <1>5, <1>6

\* A step that leaves the rows leaves their threads; a turn that is over has no rows.
LEMMA NoThreads ==
  ASSUME NEW n, NEW L
  PROVE  Threads(<<>>, n, L) /\ <<>> \in Rows
<1>1. Len(<<>>) = 0 /\ <<>> \in Rows /\ \A i \in 1 .. Len(<<>>) : FALSE
  BY EmptySeq DEF Rows
<1> QED BY <1>1 DEF Threads, Owned, Later, Follows, Leads

\* The late runbooks and the copies, over the shown and the archived rows.
LEMMA LateIs ==
  ASSUME active \in Seq(RowType), archived \in Seq(RowType), NEW x
  PROVE  /\ x \in LateRunbooks <=> /\ x \notin Nat \X {1}
                                   /\ \E r \in Range(active) \cup Range(archived) : Views(r) /\ x = ViewCall(r).n
         /\ HoldsCopies <=> \E r \in Range(active) \cup Range(archived) : Elsewhere(r.of)
<1>1. Range(Stored) = Range(active) \cup Range(archived)
  BY StoredIs DEF Stored
<1> QED BY <1>1 DEF LateRunbooks, HoldsCopies

\* A row that loads a runbook keeps that call, and a result its call.
LEMMA KeptIs ==
  ASSUME NEW r \in RowType, NEW s,
         \/ s = r
         \/ s = [r EXCEPT !.text = "decided"]
         \/ Views(r) /\ s = PinnedForm(r)
  PROVE  s.of = r.of /\ (Views(r) => Views(s) /\ ViewCall(s) = ViewCall(r))
<1>1. CASE s = r
  BY <1>1
<1>2. CASE s = [r EXCEPT !.text = "decided"]
  <2>1. s.of = r.of /\ s.role = r.role /\ s.calls = r.calls
    BY <1>2 DEF RowType
  <2> QED BY <2>1 DEF Views, ViewCall
<1>3. CASE Views(r) /\ s = PinnedForm(r)
  <2> DEFINE x == ViewCall(r)
  <2>1. x.kind = "view" /\ r.role = "assistant"
    <3>1. r.calls \in Seq(CallType) /\ r.role = "assistant"
      BY <1>3 DEF RowType, Views
    <3>2. r \in DraftType
      BY RowIsDraft
    <3> QED BY <3>1, <3>2, <1>3, ViewCallIs
  <2>2. s = [r EXCEPT !.calls = <<x>>]
    BY <1>3 DEF PinnedForm
  <2> HIDE DEF x
  <2>3. s.of = r.of /\ s.role = r.role /\ s.calls = <<x>>
    BY <2>2 DEF RowType
  <2>4. ViewCall(s) = x /\ (s.role = "assistant" => Views(s))
    BY <2>1, <2>3, SingleView
  <2> QED BY <2>1, <2>3, <2>4 DEF x
<1> QED BY <1>1, <1>2, <1>3

\* A late runbook stays one, and a chat with a copy keeps it.
LEMMA LateGrows ==
  ASSUME IInv, [Next]_vars
  PROVE  LateRunbooks \subseteq LateRunbooks' /\ (HoldsCopies => HoldsCopies')
<1>1. active \in Seq(RowType) /\ archived \in Seq(RowType) /\ active' \in Seq(RowType) /\ archived' \in Seq(RowType)
  BY StepInv DEF IInv, ChatInv
<1>2. ASSUME NEW r \in Range(active) \cup Range(archived)
      PROVE  \E s \in Range(active') \cup Range(archived') :
               s.of = r.of /\ (Views(r) => Views(s) /\ ViewCall(s) = ViewCall(r))
  <2>1. PICK s \in Range(active') \cup Range(archived') :
           \/ s = r
           \/ s = [r EXCEPT !.text = "decided"] /\ r.of \in open \ open'
           \/ presses' # presses /\ Views(r) /\ s = PinnedForm(r)
    BY <1>2, RowKept
  <2>2. r \in RowType
    BY <1>1, RangeIs
  <2>3. s.of = r.of /\ (Views(r) => Views(s) /\ ViewCall(s) = ViewCall(r))
    BY <2>1, <2>2, KeptIs
  <2> QED BY <2>3
<1>3. Range(Stored') = Range(active') \cup Range(archived')
  <2>1. Range(active' \o archived') = Range(active') \cup Range(archived')
    BY <1>1, StoredIs
  <2> QED BY <2>1 DEF Stored
<1>4. ASSUME NEW x \in LateRunbooks PROVE x \in LateRunbooks'
  <2>1. x \notin Nat \X {1} /\ \E r \in Range(active) \cup Range(archived) : Views(r) /\ x = ViewCall(r).n
    BY <1>1, <1>4, LateIs
  <2>2. \E s \in Range(active') \cup Range(archived') : Views(s) /\ x = ViewCall(s).n
    BY <2>1, <1>2
  <2> QED BY <2>1, <2>2, <1>3 DEF LateRunbooks
<1>5. ASSUME HoldsCopies PROVE HoldsCopies'
  <2>1. \E r \in Range(active) \cup Range(archived) : Elsewhere(r.of)
    BY <1>1, <1>5, LateIs
  <2>2. \E s \in Range(active') \cup Range(archived') : Elsewhere(s.of)
    BY <2>1, <1>2
  <2> QED BY <2>2, <1>3 DEF HoldsCopies
<1> QED BY <1>4, <1>5

\* The threads are kept by every step that copies no child's decision.
LEMMA StepThreads ==
  ASSUME IInv, ThreadInv, [Next]_vars, ~HoldsCopies'
  PROVE  ThreadInv'
<1> DEFINE late == LateRunbooks'
<1>1. /\ Total \in Nat /\ NextId = Total + 1 /\ active \in Rows /\ history \in Rows
      /\ active \in Seq(RowType) /\ archived \in Seq(RowType) /\ history \in Seq(RowType)
      /\ Threads(active, Total, late) /\ Threads(history, Total, late)
  <2>1. LateRunbooks \subseteq late
    BY LateGrows
  <2> HIDE DEF late
  <2>2. /\ Total \in Nat /\ NextId = Total + 1 /\ active \in Rows /\ history \in Rows
        /\ active \in Seq(RowType) /\ archived \in Seq(RowType) /\ history \in Seq(RowType)
    BY TotalIs
  <2>3. Total <= Total
    BY <2>2
  <2> QED BY <2>1, <2>2, <2>3, ThreadsMore DEF ThreadInv
<1> DEFINE Kept == /\ Threads(active', Total', late) /\ Threads(history', Total', late)
                   /\ turn' = "tools" => Batch(active', todo') /\ Batch(history', todo')
<1>0. Kept => ThreadInv'
  BY DEF ThreadInv
<1> HIDE DEF late
<1>2. ASSUME NEW r \in RowType, active' = Append(active, r), archived' = archived
      PROVE  Total' = Total + 1 /\ active' \in Rows
  <2>1. Len(active') = Len(active) + 1 /\ active' \in Seq(RowType)
    BY <1>1, <1>2, AppendIs
  <2>2. Len(active) \in Nat /\ Len(archived) \in Nat
    BY <1>1, LenProperties
  <2>3. active' \in Rows
    BY <2>1, RowsAreDrafts
  <2>4. Total' = Len(active') + Len(archived)
    BY <1>2 DEF Total
  <2> QED BY <2>1, <2>2, <2>3, <2>4 DEF Total
<1>3. Threads(history, Total + 1, late)
  <2> DEFINE more == Total + 1
  <2>1. more \in Nat /\ Total <= more /\ late \subseteq late
    BY <1>1
  <2> HIDE DEF more
  <2>2. Threads(history, more, late)
    BY <2>1, <1>1, ThreadsMore
  <2> QED BY <2>2 DEF more
<1>4. ASSUME Say PROVE Kept
  <2> DEFINE r == UserRow
  <2>1. active' = Append(active, r) /\ archived' = archived /\ history' = Spoken(active') /\ turn' = "ask"
    BY <1>4 DEF Say
  <2>2. r \in RowType /\ r.of = NoCall /\ r.role = "user" /\ r.calls = <<>>
    BY NextRows
  <2> HIDE DEF r
  <2>3. Total' = Total + 1 /\ active' \in Rows
    BY <2>1, <2>2, <1>2
  <2>4. Threads(active', Total', late)
    BY <2>1, <2>2, <2>3, <1>1, PlainThreads
  <2>5. Threads(history', Total', late)
    BY <2>1, <2>3, <2>4, SpokenThreads
  <2> QED BY <2>1, <2>4, <2>5
<1>5. ASSUME NEW role \in {"assistant", "ui"}, active' = Append(active, Row(NextId, role, "plain")),
             archived' = archived
      PROVE  /\ Total' = Total + 1 /\ Threads(active', Total', late)
             /\ role = "ui" => \A calls : Batch(active, calls) => Batch(active', calls)
  <2> DEFINE r == Row(NextId, role, "plain")
  <2>1. r \in RowType /\ r.of = NoCall /\ r.role = role /\ r.calls = <<>>
    BY NextRows
  <2>2. active' = Append(active, r)
    BY <1>5
  <2> HIDE DEF r
  <2>3. Total' = Total + 1
    BY <2>1, <2>2, <1>2, <1>5
  <2>4. r \in DraftType /\ r.role # "tool"
    BY <2>1, RowIsDraft
  <2>5. Threads(active', Total', late)
    BY <2>1, <2>2, <2>3, <2>4, <1>1, PlainThreads
  <2>6. ASSUME role = "ui", NEW calls, Batch(active, calls) PROVE Batch(active', calls)
    BY <2>1, <2>2, <2>4, <2>6, <1>1, NoticeBatch
  <2> QED BY <2>3, <2>5, <2>6
<1>6. ASSUME Answer PROVE Kept
  <2>1. active' = Append(active, Row(NextId, "assistant", "plain")) /\ archived' = archived
        /\ history' = <<>> /\ turn' = "idle"
    BY <1>6 DEF Answer
  <2> QED BY <2>1, <1>5, NoThreads
<1>7. ASSUME Notice PROVE Kept
  <2>1. active' = Append(active, Row(NextId, "ui", "plain")) /\ archived' = archived
        /\ history' = history /\ turn' = turn /\ todo' = todo
    BY <1>7 DEF Notice
  <2>2. Total' = Total + 1 /\ Threads(active', Total', late) /\ \A calls : Batch(active, calls) => Batch(active', calls)
    BY <2>1, <1>5
  <2> QED BY <2>1, <2>2, <1>3 DEF ThreadInv
<1>8. ASSUME NEW partial \in BOOLEAN, Interrupt(partial) PROVE Kept
  <2>1. /\ active' = Append(active, Row(NextId, "assistant", "plain")) \/ active' = active
        /\ archived' = archived /\ history' = <<>> /\ turn' = "idle"
    BY <1>8 DEF Interrupt
  <2>2. CASE active' = active
    <3>1. Total' = Total
      BY <2>1, <2>2 DEF Total
    <3> QED BY <2>1, <2>2, <3>1, <1>1, NoThreads
  <2>3. CASE active' = Append(active, Row(NextId, "assistant", "plain"))
    BY <2>1, <2>3, <1>5, NoThreads
  <2> QED BY <2>1, <2>2, <2>3
<1>9. ASSUME NEW batch \in Batches, CallTools(batch) PROVE Kept
  <2> DEFINE made == Made(NextId, batch)
             row  == MadeRow(NextId, batch)
  <2>1. /\ active' = Append(active, row) /\ archived' = archived /\ history' = Append(history, row)
        /\ todo' = made /\ turn' = "tools"
    BY <1>9 DEF CallTools, CallNumber, Made, MadeRow
  <2>2. made = Made(Total + 1, batch) /\ row = MadeRow(Total + 1, batch)
    BY <1>1
  <2>3. row \in RowType
    <3>1. NextId \in Nat \ {0}
      BY <1>1
    <3> QED BY <3>1, BatchIs
  <2>7. made \in Seq(CallType) /\ Len(made) = Len(batch) /\ row.calls = made
        /\ \A i \in 1 .. Len(made) : made[i].n = <<Total + 1, i>>
    <3>1. NextId \in Nat \ {0}
      BY <1>1
    <3> QED BY <3>1, <1>1, BatchIs
  <2> HIDE DEF made, row
  <2>8. ASSUME Views(row) PROVE ViewCall(row).n = row.calls[1].n \/ ViewCall(row).n \in late
    <3>1. PICK k \in 1 .. Len(made) : ViewCall(row) = made[k]
      <4>1. row \in DraftType /\ DOMAIN made = 1 .. Len(made)
        BY <2>3, <2>7, RowIsDraft, LenProperties
      <4> QED BY <4>1, <2>7, <2>8, ViewCallIs
    <3>2. ViewCall(row).n = <<Total + 1, k>>
      BY <3>1, <2>7
    <3>3. CASE k = 1
      BY <3>1, <3>3, <2>7
    <3>4. CASE k # 1
      <4>1. ViewCall(row).n \notin Nat \X {1}
        BY <3>2, <3>4
      <4>2. active' \in Seq(RowType) /\ Len(active) \in Nat /\ Len(active') = Len(active) + 1
            /\ active'[Len(active) + 1] = row
        BY <2>1, <2>3, <1>1, AppendProperties, LenProperties
      <4>3. row \in Range(active')
        BY <4>2, RangeIs
      <4>4. Range(active' \o archived') = Range(active') \cup Range(archived')
        BY <2>1, <4>2, <1>1, StoredIs
      <4> QED BY <4>1, <4>3, <4>4, <2>8 DEF late, LateRunbooks, Stored
    <3> QED BY <3>3, <3>4
  <2>4. Threads(Append(active, row), Total + 1, late) /\ Batch(Append(active, row), made)
    BY <2>2, <2>8, <1>1, MadeThreads
  <2>5. Threads(Append(history, row), Total + 1, late) /\ Batch(Append(history, row), made)
    BY <2>2, <2>8, <1>1, MadeThreads
  <2>6. Total' = Total + 1
    BY <2>1, <2>3, <1>2
  <2> QED BY <2>1, <2>4, <2>5, <2>6
<1>10. ASSUME Result PROVE Kept
  <2> DEFINE r == ToolRow(Head(todo).n, Output(Head(todo).kind))
  <2>1. /\ turn = "tools" /\ SaveResult(Head(todo).n, Output(Head(todo).kind))
        /\ history' = Append(history, r) /\ todo' = Tail(todo)
    BY <1>10 DEF Result
  <2>2. /\ todo \in Seq(CallType) /\ Len(todo) \in Nat \ {0} /\ Head(todo) = todo[1]
        /\ Len(Tail(todo)) = Len(todo) - 1
        /\ \A i \in 1 .. Len(Tail(todo)) : Tail(todo)[i] = todo[i + 1]
    BY <2>1, TodoIs
  <2>3. 1 \in 1 .. Len(todo) /\ Len(todo) >= 1
    BY <2>2
  <2>4. Head(todo).n \in Nat \X Nat /\ Head(todo).n \notin Ofs(active) /\ Head(todo).n \notin Ofs(archived)
    BY <2>1, <2>2, <2>3, TodoIs
  <2>5. active' = Append(active, r) /\ archived' = archived
    BY <2>1, <2>4, <1>1, SavedIs
  <2>6. NextId \in Nat \ {0} /\ Output(Head(todo).kind) \in Texts
    BY NextRows DEF Output, Texts
  <2>7. r \in RowType /\ r.role = "tool" /\ r.of = todo[1].n /\ r.calls = <<>>
    BY <2>2, <2>4, <2>6, ToolRowIs
  <2> HIDE DEF r
  <2>8. Batch(active, todo) /\ Batch(history, todo)
    BY <2>1 DEF ThreadInv
  <2> DEFINE rest == Tail(todo)
  <2>9. Len(rest) = Len(todo) - 1 /\ \A i \in 1 .. Len(rest) : rest[i] = todo[i + 1]
    BY <2>2
  <2>10. todo' = rest /\ todo \in Seq(CallType)
    BY <2>1, <2>2
  <2> HIDE DEF rest
  <2>11. Threads(Append(active, r), Total + 1, late) /\ Batch(Append(active, r), rest)
    BY ONLY <2>3, <2>7, <2>8, <2>9, <2>10, <1>1, ResultThread
  <2>12. Threads(Append(history, r), Total + 1, late) /\ Batch(Append(history, r), rest)
    BY ONLY <2>3, <2>7, <2>8, <2>9, <2>10, <1>1, ResultThread
  <2>13. Total' = Total + 1
    BY <2>5, <2>7, <1>2
  <2> QED BY <2>1, <2>5, <2>10, <2>11, <2>12, <2>13
<1>11. ASSUME Park PROVE Kept
  <2> DEFINE new == ParkedRows
  <2>1. active' = active \o new /\ archived' = archived /\ turn = "tools" /\ history' = <<>> /\ turn' = "idle"
    BY <1>11 DEF Park, ParkedRows
  <2>2. /\ new \in Seq(RowType) /\ Len(new) = Len(todo)
        /\ \A i \in 1 .. Len(todo) : new[i].role = "tool" /\ new[i].of = todo[i].n /\ new[i].calls = <<>>
    BY <2>1, ParkedAre
  <2>3. todo \in Seq(CallType) /\ Len(todo) \in Nat \ {0}
    BY <2>1, TodoIs
  <2> HIDE DEF new
  <2>4. new \in Rows /\ Batch(active, todo)
    BY <2>1, <2>2, RowsAreDrafts DEF ThreadInv
  <2> DEFINE more == Total + Len(new)
  <2>5. more \in Nat /\ Total <= more /\ Total' = more
    <3>1. Len(active') = Len(active) + Len(new)
      BY <2>1, <2>2, <1>1, ConcatIs
    <3>2. Len(active) \in Nat /\ Len(archived) \in Nat
      BY <1>1, LenProperties
    <3>3. Total' = Len(active') + Len(archived)
      BY <2>1 DEF Total
    <3> QED BY <2>2, <2>3, <3>1, <3>2, <3>3 DEF Total
  <2> DEFINE rest == <<>>
  <2>6. Len(rest) = Len(todo) - Len(new) /\ (\A i \in 1 .. Len(rest) : rest[i] = todo[Len(new) + i])
        /\ Len(new) >= 1 /\ Len(new) <= Len(todo)
        /\ \A i \in 1 .. Len(new) : new[i].role = "tool" /\ new[i].of = todo[i].n /\ new[i].calls = <<>>
    <3>1. Len(rest) = 0
      OBVIOUS
    <3>2. \A i \in 1 .. Len(rest) : FALSE
      BY <3>1
    <3> HIDE DEF rest
    <3> QED BY <2>2, <2>3, <3>1, <3>2
  <2> HIDE DEF more, rest
  <2>7. active \in Rows /\ Total \in Nat /\ Threads(active, Total, late) /\ todo \in Seq(CallType)
        /\ more \in Nat /\ Total <= more
    BY <2>3, <2>5, <1>1
  <2>8. Threads(active \o new, more, late) /\ Batch(active \o new, rest)
    BY ONLY <2>4, <2>6, <2>7, ResultThreads
  <2> QED BY <2>1, <2>5, <2>8, NoThreads
<1>12. ASSUME NEW c \in open, NEW resumes \in BOOLEAN, Decide(c, resumes) PROVE Kept
  <2>1. \/ Has(active, c) /\ active' = Rewritten(active, c, "decided") /\ archived' = archived
        \/ Has(archived, c) /\ archived' = Rewritten(archived, c, "decided") /\ active' = active
    BY <1>12, DecideInv
  <2>2. todo' = todo /\ ((turn' = "ask" /\ history' = Spoken(active')) \/ (history' = history /\ turn' = turn))
    BY <1>12 DEF Decide, GoOn
  <2>3. "decided" \in Texts
    BY DEF Texts
  <2>4. /\ active' \in Rows /\ Total' = Total /\ Threads(active', Total, late)
        /\ \A calls : Batch(active, calls) => Batch(active', calls)
    <3>1. CASE Has(active, c) /\ active' = Rewritten(active, c, "decided") /\ archived' = archived
      <4> DEFINE w == Rewritten(active, c, "decided")
      <4>1. /\ w \in Seq(RowType) /\ Len(w) = Len(active)
            /\ \A i \in 1 .. Len(active) : w[i].role = active[i].role /\ w[i].calls = active[i].calls /\ w[i].of = active[i].of
        BY <2>3, <3>1, <1>1, RewrittenIs
      <4> HIDE DEF w
      <4>2. w \in Rows /\ \A i \in 1 .. Len(active) : Alike(w[i], active[i])
        BY <4>1, RowsAreDrafts DEF Alike
      <4>3. Threads(w, Total, late) /\ \A calls : Batch(active, calls) => Batch(w, calls)
        BY <4>1, <4>2, <1>1, AlikeThreads
      <4>4. active' = w
        BY <3>1 DEF w
      <4> QED BY <3>1, <4>1, <4>2, <4>3, <4>4 DEF Total
    <3>2. CASE Has(archived, c) /\ archived' = Rewritten(archived, c, "decided") /\ active' = active
      <4>1. Len(archived') = Len(archived)
        BY <2>3, <3>2, <1>1, RewrittenIs
      <4> QED BY <3>2, <4>1, <1>1 DEF Total
    <3> QED BY <2>1, <3>1, <3>2
  <2>5. Threads(history', Total', late)
    <3>1. CASE history' = Spoken(active')
      BY <2>4, <3>1, SpokenThreads
    <3> QED BY <2>2, <2>4, <3>1, <1>1
  <2> QED BY <2>2, <2>4, <2>5 DEF ThreadInv
<1>13. ASSUME Press PROVE Kept
  <2>1. history' = history /\ turn' = turn /\ todo' = todo
    BY <1>13 DEF Press
  <2>2. Threads(active', Total', late) /\ Total' \in Nat /\ Total <= Total'
        /\ \A calls : Batch(active, calls) => Batch(active', calls)
    BY <1>1, <1>13, PressThreads
  <2>3. Threads(history', Total', late)
    <3>1. late \subseteq late
      OBVIOUS
    <3> QED BY <3>1, <2>1, <2>2, <1>1, ThreadsMore
  <2> QED BY <2>1, <2>2, <2>3 DEF ThreadInv
<1>14. ASSUME NEW resumes \in BOOLEAN, DecideForChild(resumes) PROVE FALSE
  <2> DEFINE r == ToolRow(<<0, notices'>>, "decided")
  <2>1. active' = Append(active, r) /\ archived' = archived /\ r \in RowType /\ Elsewhere(r.of)
    BY <1>14, CopyIs
  <2> HIDE DEF r
  <2>2. active' \in Seq(RowType) /\ Len(active') \in Nat /\ Len(active') = Len(active) + 1
        /\ active'[Len(active) + 1] = r /\ Len(active) \in Nat
    BY <2>1, <1>1, AppendProperties, LenProperties
  <2>3. r \in Range(active')
    BY <2>2, RangeIs
  <2>4. Range(active' \o archived') = Range(active') \cup Range(archived')
    BY <2>1, <2>2, <1>1, StoredIs
  <2> QED BY <2>1, <2>3, <2>4 DEF HoldsCopies, Stored
<1>15. ASSUME UNCHANGED vars PROVE Kept
  BY <1>1, <1>15 DEF vars, ThreadInv, Total
<1> QED BY <1>0, <1>4, <1>6, <1>7, <1>8, <1>9, <1>10, <1>11, <1>12, <1>13, <1>14, <1>15 DEF Next

\* In every request each result directly follows the batch of its call or another result
\* of it, and no call whose result is known is sent without it, however often the chat and
\* the request were compacted, between turns and in the middle of one.  Two exceptions: a
\* runbook loaded after another call of its batch may stand behind a summary, and nothing
\* is said of a chat into which the decision of a child's card was copied.
THEOREM RequestIsWellFormedHolds ==
  Spec => []RequestIsWellFormed
<1> DEFINE J == ~HoldsCopies => ThreadInv
<1>1. Init => J
  BY NoThreads DEF Init, ThreadInv
<1>2. IInv /\ J /\ [Next]_vars => J'
  BY StepThreads, LateGrows
<1>3. ASSUME IInv, J PROVE RequestIsWellFormed
  <2> SUFFICES ASSUME ~HoldsCopies PROVE RequestIsWellFormed
    BY DEF RequestIsWellFormed
  <2> DEFINE late == LateRunbooks
  <2>1. history \in Rows /\ Threads(history, Total, late)
    BY <1>3, TotalIs DEF ThreadInv
  <2> HIDE DEF late
  <2>2. ASSUME NEW t \in Requests
        PROVE  Threaded(t) /\ \A i \in DOMAIN t : \A c \in Calls(t[i]) : Has(history, c) => Has(t, c)
    <3>1. PICK over \in BOOLEAN, fits \in BOOLEAN :
            t = Compact(history, RequestKeep, FALSE, over, fits, TRUE).rows
      BY RequestIs
    <3>2. RequestKeep \in Nat \ {0} /\ RequestKeep \in Nat
      BY KeepsAssumption
    <3> DEFINE yes == TRUE
               no  == FALSE
    <3>3. t = Compact(history, RequestKeep, no, over, fits, yes).rows
      BY <3>1
    <3> HIDE DEF yes, no
    <3>4. t \in Rows
      BY <2>1, <3>2, <3>3, CompactTakes
    <3>5. WellCompacted(t, history, Total, late)
      BY <2>1, <3>2, <3>3, CompactWell
    <3>6. DOMAIN t = 1 .. Len(t)
      BY <3>4, LenProperties DEF Rows
    <3>7. Threaded(t)
      <4>1. ASSUME NEW i \in DOMAIN t, t[i].role = "tool", t[i].of \notin LateRunbooks
            PROVE  \E j \in 1 .. i - 1 : t[i].of \in Calls(t[j]) /\ \A k \in j + 1 .. i : t[k].role = "tool"
        <5>1. PICK j \in 1 .. i - 1 : /\ t[j].role = "assistant" /\ (t[i].of \in Calls(t[j]) \/ t[i].of \in late)
                                      /\ \A k \in j + 1 .. i : t[k].role \in {"tool", "ui"}
          BY <3>5, <3>6, <4>1 DEF WellCompacted, Threads, Follows
        <5>2. \A k \in j + 1 .. i : k \in 1 .. Len(t)
          BY <3>6
        <5>3. t[i].of \in Calls(t[j])
          BY <4>1, <5>1 DEF late
        <5> QED BY <3>5, <5>1, <5>2, <5>3 DEF WellCompacted
      <4> QED BY <4>1 DEF Threaded
    <3> QED BY <3>5, <3>6, <3>7 DEF WellCompacted
  <2> QED BY <2>2 DEF RequestIsWellFormed
<1> HIDE DEF J
<1>4. Spec => [](IInv /\ J)
  BY <1>1, <1>2, Invariant, PTL DEF Spec
<1> QED BY <1>3, <1>4, PTL

-----------------------------------------------------------------------------
(* A second use of the Compact button finds nothing to do. *)

\* A selection of all places is the sequence.
LEMMA SelectAll ==
  ASSUME NEW S, NEW s \in Seq(S), NEW places, 1 .. Len(s) \subseteq places
  PROVE  Select(s, places) = s
<1> DEFINE t == Select(s, places)
<1>1. t \in Seq(S) /\ Picked(t, s, places)
  BY SelectIs
<1> HIDE DEF t
<1>2. Len(t) \in Nat /\ Len(s) \in Nat
  BY <1>1, LenProperties
<1>3. PICK pos \in [1 .. Len(t) -> 1 .. Len(s)] :
        /\ \A k \in 1 .. Len(t) : pos[k] \in places /\ t[k] = s[pos[k]]
        /\ \A k, l \in 1 .. Len(t) : k < l => pos[k] < pos[l]
        /\ \A i \in 1 .. Len(s) : i \in places => \E k \in 1 .. Len(t) : pos[k] = i
  BY <1>1 DEF Picked
<1>4. \A k \in 1 .. Len(t) : pos[k] \in 1 .. Len(s)
  BY <1>3
<1> DEFINE Bad == {k \in 1 .. Len(t) : pos[k] # k}
<1>5. Bad = {}
  <2>1. SUFFICES ASSUME Bad # {} PROVE FALSE
    OBVIOUS
  <2>2. Bad \in SUBSET Nat
    OBVIOUS
  <2>3. PICK k \in Bad : \A j \in Bad : k <= j
    BY <2>1, <2>2, LeastNat
  <2>4. k \in 1 .. Len(t) /\ pos[k] # k
    BY <2>3
  <2>5. \A j \in 1 .. k - 1 : pos[j] = j
    <3>1. \A j \in 1 .. k - 1 : j \in 1 .. Len(t) /\ ~ (k <= j)
      BY <2>4, <1>2
    <3> QED BY <3>1, <2>3
  <2> HIDE DEF Bad
  <2>6. pos[k] >= k
    <3>1. CASE k = 1
      BY <2>4, <3>1, <1>4
    <3>2. CASE k # 1
      <4>1. k - 1 \in 1 .. Len(t) /\ k - 1 \in 1 .. k - 1 /\ k - 1 < k
        BY <2>4, <3>2, <1>2
      <4>2. pos[k - 1] < pos[k] /\ pos[k - 1] = k - 1
        BY <2>4, <2>5, <4>1, <1>3
      <4> QED BY <2>4, <4>2, <1>2, <1>4
    <3> QED BY <3>1, <3>2
  <2>7. k \in 1 .. Len(s) /\ k < pos[k]
    BY <2>4, <2>6, <1>2, <1>4
  <2>8. PICK j \in 1 .. Len(t) : pos[j] = k
    BY <2>7, <1>3
  <2>9. CASE j < k
    <3>1. j \in 1 .. k - 1
      BY <2>4, <2>9, <1>2
    <3> QED BY <2>5, <2>8, <2>9, <3>1
  <2>10. CASE j = k
    BY <2>4, <2>8, <2>10
  <2>11. CASE k < j
    <3>1. pos[k] < pos[j]
      BY <2>4, <2>11, <1>3
    <3> QED BY <2>4, <2>7, <2>8, <3>1, <1>4
  <2> QED BY <2>4, <2>9, <2>10, <2>11, <1>2
<1>6. \A k \in 1 .. Len(t) : pos[k] = k /\ k \in 1 .. Len(s)
  BY <1>4, <1>5
<1> HIDE DEF Bad
<1>7. Len(t) = Len(s)
  <2>1. Len(t) <= Len(s)
    <3>1. Len(t) = 0 \/ Len(t) \in 1 .. Len(t)
      BY <1>2
    <3> QED BY <3>1, <1>2, <1>6
  <2>2. Len(s) <= Len(t)
    <3>1. CASE Len(s) = 0
      BY <3>1, <1>2
    <3>2. CASE Len(s) \in 1 .. Len(s)
      <4>1. PICK k \in 1 .. Len(t) : pos[k] = Len(s)
        BY <3>2, <1>3
      <4> QED BY <4>1, <1>2, <1>6
    <3> QED BY <3>1, <3>2, <1>2
  <2> QED BY <2>1, <2>2, <1>2
<1>8. \A k \in 1 .. Len(t) : t[k] = s[k]
  BY <1>3, <1>6
<1>9. t = s
  BY ONLY <1>1, <1>7, <1>8, s \in Seq(S), SeqEqual
<1> QED BY <1>9 DEF t

\* Rows without a row that only the browser shows or an output over the cap are sent as
\* they are.
LEMMA PrunedSame ==
  ASSUME NEW rows \in Rows, \A i \in 1 .. Len(rows) : rows[i].role # "ui" /\ ~ Oversized(rows[i])
  PROVE  Spoken(rows) = rows /\ Pruned(rows) = rows
<1>1. rows \in Seq(DraftType) /\ DOMAIN rows = 1 .. Len(rows)
  BY LenProperties DEF Rows
<1> DEFINE places == {i \in DOMAIN rows : rows[i].role # "ui"}
<1>2. 1 .. Len(rows) \subseteq places
  BY <1>1
<1>3. Spoken(rows) = Select(rows, places)
  BY DEF Spoken
<1> HIDE DEF places
<1>4. Spoken(rows) = rows
  BY <1>1, <1>2, <1>3, SelectAll
<1>5. Prune(rows) \in Rows /\ Len(Prune(rows)) = Len(rows) /\ \A i \in 1 .. Len(rows) : Prune(rows)[i] = rows[i]
  BY PruneIs
<1>6. Prune(rows) \in Seq(DraftType)
  BY <1>5 DEF Rows
<1>7. Prune(rows) = rows
  BY ONLY <1>1, <1>5, <1>6, SeqEqual
<1> QED BY <1>4, <1>7 DEF Pruned

\* Rows that are the same but for their ids.
Kin(r, s) == r.role = s.role /\ r.of = s.of /\ r.calls = s.calls /\ r.text = s.text

\* A row that is not pinned is condensed to a summary.
LEMMA CondensedPins ==
  ASSUME NEW m \in Rows, NEW c \in Rows, NEW pos, CondensedFrom(c, m, pos), NEW k \in 1 .. Len(c)
  PROVE  \/ c[k].role = "assistant" /\ c[k].calls = <<>> /\ IsSummary(c[k])
         \/ /\ Users(m) # {} /\ pos[k] = Max(Users(m)) /\ c[k].role = "user"
         \/ /\ Loads(m) # {} /\ pos[k] = Max(Loads(m)) /\ c[k].role = "assistant"
            /\ c[k].calls = <<ViewCall(m[pos[k]])>> /\ ViewCall(m[pos[k]]).kind = "view"
         \/ /\ Loads(m) # {} /\ pos[k] = Min(Results(m, Max(Loads(m)))) /\ c[k].role = "tool"
            /\ c[k].of = ViewCall(m[Max(Loads(m))]).n
<1>1. Len(m) \in Nat /\ DOMAIN m = 1 .. Len(m) /\ pos[k] \in 1 .. Len(m)
  BY LenProperties DEF Rows, CondensedFrom
<1>2. m[pos[k]] \in DraftType
  BY <1>1, ElementOfSeq DEF Rows
<1>3. CASE pos[k] \notin Pins(m)
  <2>1. c[k] = Summary({m[j] : j \in RunTo(Pins(m), pos[k])})
    BY <1>3 DEF CondensedFrom
  <2>2. \A r \in {m[j] : j \in RunTo(Pins(m), pos[k])} : r.says \in SUBSET Nat
    <3>1. ASSUME NEW j \in RunTo(Pins(m), pos[k]) PROVE m[j].says \in SUBSET Nat
      <4>1. j \in 1 .. Len(m)
        BY <1>1 DEF RunTo
      <4>2. m[j] \in DraftType
        BY <4>1, ElementOfSeq DEF Rows
      <4> QED BY <4>2 DEF DraftType
    <3> QED BY <3>1
  <2> QED BY <2>1, <2>2, SummaryIs DEF IsSummary
<1>4. CASE pos[k] \in Pins(m)
  <2>1. c[k] = PinnedForm(m[pos[k]])
    BY <1>4 DEF CondensedFrom
  <2>2. /\ c[k].role = m[pos[k]].role /\ c[k].of = m[pos[k]].of
        /\ Views(m[pos[k]]) => c[k].calls = <<ViewCall(m[pos[k]])>>
    BY <2>1, <1>2, PinnedIs
  <2>3. CASE Users(m) # {} /\ pos[k] = Max(Users(m))
    <3>1. pos[k] \in Users(m)
      BY <2>3, PinsAre
    <3> QED BY <2>2, <2>3, <3>1 DEF Users
  <2>4. CASE Loads(m) # {} /\ pos[k] = Max(Loads(m))
    <3>1. pos[k] \in Loads(m)
      BY <2>4, PinsAre
    <3>2. Views(m[pos[k]]) /\ m[pos[k]].role = "assistant"
      BY <3>1 DEF Loads, Views
    <3>3. ViewCall(m[pos[k]]).kind = "view"
      BY <3>2, <1>2, ViewCallIs
    <3> QED BY <2>2, <2>4, <3>2, <3>3
  <2>5. CASE Loads(m) # {} /\ pos[k] = Min(Results(m, Max(Loads(m))))
    <3>1. pos[k] \in Results(m, Max(Loads(m)))
      BY <2>5, PinsAre
    <3> QED BY <2>2, <2>5, <3>1 DEF Results
  <2> QED BY <2>3, <2>4, <2>5, <1>4 DEF Pins
<1> QED BY <1>3, <1>4

\* The only places of a kind among the pinned ones.
LEMMA SettledAgain ==
  ASSUME NEW m \in Rows, NEW c, c = Condensed(m), NEW s \in Rows, Len(s) = Len(c),
         \A k \in 1 .. Len(c) : Kin(s[k], c[k])
  PROVE  \A k \in Loose(s) : IsSummary(s[k])
<1>1. c \in Rows
  BY CondensedIs
<1>2. PICK pos : CondensedFrom(c, m, pos)
  BY CondensedIs
<1>3. Len(s) \in Nat /\ Len(c) \in Nat /\ DOMAIN s = 1 .. Len(c)
  BY <1>1, LenProperties DEF Rows
<1>4. \A k \in 1 .. Len(c) : s[k].role = c[k].role /\ s[k].of = c[k].of /\ s[k].calls = c[k].calls /\ s[k].text = c[k].text
  BY DEF Kin
<1> DEFINE v == Max(Loads(m))
           w == Min(Results(m, Max(Loads(m))))
<1>5. ASSUME NEW k \in 1 .. Len(c)
      PROVE  \/ s[k].role = "assistant" /\ s[k].calls = <<>> /\ IsSummary(s[k])
             \/ /\ Users(m) # {} /\ pos[k] = Max(Users(m)) /\ s[k].role = "user"
             \/ /\ Loads(m) # {} /\ pos[k] = v /\ s[k].role = "assistant"
                /\ s[k].calls = <<ViewCall(m[v])>> /\ ViewCall(m[v]).kind = "view"
             \/ /\ Loads(m) # {} /\ pos[k] = w /\ s[k].role = "tool" /\ s[k].of = ViewCall(m[v]).n
  <2>1. \/ c[k].role = "assistant" /\ c[k].calls = <<>> /\ IsSummary(c[k])
        \/ /\ Users(m) # {} /\ pos[k] = Max(Users(m)) /\ c[k].role = "user"
        \/ /\ Loads(m) # {} /\ pos[k] = Max(Loads(m)) /\ c[k].role = "assistant"
           /\ c[k].calls = <<ViewCall(m[pos[k]])>> /\ ViewCall(m[pos[k]]).kind = "view"
        \/ /\ Loads(m) # {} /\ pos[k] = Min(Results(m, Max(Loads(m)))) /\ c[k].role = "tool"
           /\ c[k].of = ViewCall(m[Max(Loads(m))]).n
    BY <1>1, <1>2, CondensedPins
  <2> QED BY <2>1, <1>4 DEF IsSummary
<1>6. \A k \in 1 .. Len(c) : pos[k] \in 1 .. Len(m)
  BY <1>2 DEF CondensedFrom
<1>7. ASSUME NEW k \in 1 .. Len(c), NEW l \in 1 .. Len(c), pos[k] = pos[l] PROVE k = l
  <2>1. ~ (k < l) /\ ~ (l < k)
    <3>1. (k < l => pos[k] < pos[l]) /\ (l < k => pos[l] < pos[k])
      BY <1>2 DEF CondensedFrom
    <3> QED BY <3>1, <1>6, <1>7
  <2> QED BY <2>1, <1>3
<1>8. \A x \in 1 .. Len(c) : \A S : S = {x} => S \in SUBSET (0 .. Len(c)) /\ S \in SUBSET Nat
  BY <1>3
<1>9. Loads(m) # {} => /\ v \in 1 .. Len(m) /\ w \in 1 .. Len(m) /\ v < w /\ v \in Pins(m) /\ w \in Pins(m)
  <2>1. ASSUME Loads(m) # {} PROVE v \in Loads(m) /\ w \in Results(m, v)
    BY <2>1, PinsAre
  <2>2. Len(m) \in Nat /\ DOMAIN m = 1 .. Len(m)
    BY LenProperties DEF Rows
  <2>3. ASSUME Loads(m) # {} PROVE v \in Pins(m) /\ w \in Pins(m)
    BY <2>3 DEF Pins
  <2> HIDE DEF v, w
  <2> QED BY <2>1, <2>2, <2>3 DEF Loads, Results
<1>10. \A k \in 1 .. Len(m) : k \in Pins(m) => \E l \in 1 .. Len(c) : pos[l] = k
  BY <1>2 DEF CondensedFrom
<1> HIDE DEF v, w
\* The row of the runbook's batch is the only one that loads any.
<1>11. ASSUME NEW k \in 1 .. Len(c), Loads(m) # {}, pos[k] = v, s[k].calls = <<ViewCall(m[v])>>,
              s[k].role = "assistant", ViewCall(m[v]).kind = "view",
              NEW l \in 1 .. Len(c), pos[l] = w, s[l].role = "tool", s[l].of = ViewCall(m[v]).n
       PROVE  k \in Pins(s) /\ l \in Pins(s)
  <2>1. ViewCall(s[k]) = ViewCall(m[v]) /\ Views(s[k])
    BY <1>11, SingleView
  <2>2. k < l
    <3>1. ~ (l < k) /\ l # k
      BY <1>2, <1>6, <1>9, <1>11 DEF CondensedFrom
    <3> QED BY <3>1, <1>3
  <2>3. l \in k + 1 .. Len(s)
    BY <2>2, <1>3
  <2>4. Results(s, k) = {l}
    <3>1. l \in Results(s, k)
      BY <2>1, <2>3, <1>11 DEF Results
    <3>2. ASSUME NEW j \in Results(s, k) PROVE j = l
      <4>1. j \in 1 .. Len(c) /\ s[j].role = "tool"
        BY <1>3 DEF Results
      <4>2. pos[j] = w
        BY <4>1, <1>5
      <4> QED BY <4>1, <4>2, <1>7, <1>11
    <3> QED BY <3>1, <3>2
  <2>5. Loads(s) = {k}
    <3>1. k \in Loads(s)
      BY <2>1, <2>4, <1>3 DEF Loads
    <3>2. ASSUME NEW j \in Loads(s) PROVE j = k
      <4>1. j \in 1 .. Len(c) /\ Views(s[j])
        BY <1>3 DEF Loads
      <4>2. s[j].role = "assistant" /\ s[j].calls # <<>>
        <5>1. Range(s[j].calls) # {}
          BY <4>1 DEF Views
        <5> QED BY <4>1, <5>1 DEF Views, Range
      <4>3. pos[j] = v
        BY <4>1, <4>2, <1>5
      <4> QED BY <4>1, <4>3, <1>7, <1>11
    <3> QED BY <3>1, <3>2
  <2>6. Max(Loads(s)) = k
    <3> DEFINE S == Loads(s)
    <3>1. S \in SUBSET (0 .. Len(c)) /\ S # {}
      BY <2>5, <1>8
    <3> HIDE DEF S
    <3>2. Max(S) \in S
      BY <3>1, <1>3, MaxIn
    <3> QED BY <2>5, <3>2 DEF S
  <2>7. Min(Results(s, k)) = l
    <3> DEFINE S == Results(s, k)
    <3>1. S \in SUBSET Nat /\ S # {}
      BY <2>4, <1>8
    <3> HIDE DEF S
    <3>2. Min(S) \in S
      BY <3>1, MinIn
    <3> QED BY <2>4, <3>2 DEF S
  <2> QED BY <2>5, <2>6, <2>7 DEF Pins
<1>12. ASSUME NEW k \in 1 .. Len(c), ~ IsSummary(s[k]) PROVE k \in Pins(s)
  <2>1. CASE Users(m) # {} /\ pos[k] = Max(Users(m)) /\ s[k].role = "user"
    <3> DEFINE S == Users(s)
    <3>1. S = {k}
      <4>1. k \in Users(s)
        BY <2>1, <1>3 DEF Users
      <4>2. ASSUME NEW j \in Users(s) PROVE j = k
        <5>1. j \in 1 .. Len(c) /\ s[j].role = "user"
          BY <1>3 DEF Users
        <5>2. pos[j] = Max(Users(m))
          BY <5>1, <1>5
        <5> QED BY <2>1, <5>1, <5>2, <1>7
      <4> QED BY <4>1, <4>2
    <3>2. S \in SUBSET (0 .. Len(c)) /\ S # {}
      BY <3>1, <1>8
    <3> HIDE DEF S
    <3>3. Max(S) \in S
      BY <3>2, <1>3, MaxIn
    <3>4. Max(Users(s)) = k /\ Users(s) # {}
      BY <3>1, <3>3 DEF S
    <3> QED BY <3>4 DEF Pins
  <2>2. CASE /\ Loads(m) # {} /\ pos[k] = v /\ s[k].role = "assistant"
             /\ s[k].calls = <<ViewCall(m[v])>> /\ ViewCall(m[v]).kind = "view"
    <3>1. PICK l \in 1 .. Len(c) : pos[l] = w
      BY <2>2, <1>9, <1>10
    <3>2. c[l] = PinnedForm(m[w]) /\ m[w] \in DraftType /\ m[w].role = "tool" /\ m[w].of = ViewCall(m[v]).n
      <4>1. w \in Results(m, v)
        BY <2>2, PinsAre DEF v, w
      <4> QED BY <2>2, <3>1, <4>1, <1>2, <1>9, ElementOfSeq DEF CondensedFrom, Results, Rows
    <3>3. s[l].role = "tool" /\ s[l].of = ViewCall(m[v]).n
      BY <3>2, <1>4, PinnedIs
    <3> QED BY <2>2, <3>1, <3>3, <1>11
  <2>3. CASE Loads(m) # {} /\ pos[k] = w /\ s[k].role = "tool" /\ s[k].of = ViewCall(m[v]).n
    <3>1. PICK l \in 1 .. Len(c) : pos[l] = v
      BY <2>3, <1>9, <1>10
    <3>2. c[l] = PinnedForm(m[v]) /\ m[v] \in DraftType /\ Views(m[v])
      <4>1. v \in Loads(m)
        BY <2>3, PinsAre DEF v
      <4> QED BY <2>3, <3>1, <4>1, <1>2, <1>9, ElementOfSeq DEF CondensedFrom, Loads, Rows
    <3>3. s[l].role = "assistant" /\ s[l].calls = <<ViewCall(m[v])>> /\ ViewCall(m[v]).kind = "view"
      <4>1. m[v].role = "assistant" /\ ViewCall(m[v]).kind = "view"
        BY <3>2, ViewCallIs DEF Views
      <4> QED BY <3>2, <4>1, <1>4, PinnedIs
    <3> QED BY <2>3, <3>1, <3>3, <1>11
  <2> QED BY <2>1, <2>2, <2>3, <1>5, <1>12
<1>13. \A k \in Loose(s) : k \in 1 .. Len(c) /\ k \notin Pins(s)
  BY <1>3 DEF Loose
<1> QED BY <1>12, <1>13

\* Compaction does nothing if no output is over the cap and the middle, if there is one,
\* is pinned or summarised already.
LEMMA CompactIdle ==
  ASSUME NEW rows, NEW keep, NEW force, NEW over, NEW fits, NEW shrinks,
         \A r \in Range(Spoken(rows)) : ~ Oversized(r),
         \A k \in Loose(Middle(rows, keep)) : IsSummary(Middle(rows, keep)[k])
  PROVE  ~ Compact(rows, keep, force, over, fits, shrinks).applied
<1> DEFINE m == Middle(rows, keep)
<1> DEFINE turns == Turns(rows)
<1>1. m = SubSeq(SubSeq(Prune(Spoken(rows)), Root(rows) + 1, Len(Prune(Spoken(rows)))), 1,
                 Split(SubSeq(Prune(Spoken(rows)), Root(rows) + 1, Len(Prune(Spoken(rows)))), keep))
  BY DEF Middle, Turns, Pruned
<1>2. ~ \E r \in Range(Spoken(rows)) : Oversized(r)
  OBVIOUS
<1>3. Settled(m) \/ Loose(m) = {}
  BY DEF Settled
<1> HIDE DEF m, turns
<1> QED BY <1>1, <1>2, <1>3 DEF Compact, Root

\* The first condensed row is no message of the user if the first row was none.
LEMMA CondensedStart ==
  ASSUME NEW m \in Rows, NEW c \in Rows, c = Condensed(m), Len(m) >= 1
  PROVE  Len(c) >= 1 /\ (m[1].role # "user" => c[1].role # "user")
<1>1. PICK pos : CondensedFrom(c, m, pos)
  BY CondensedIs
<1>2. Len(m) \in Nat /\ Len(c) \in Nat /\ DOMAIN m = 1 .. Len(m)
  BY LenProperties DEF Rows
<1>3. Len(c) >= 1
  <2>1. Len(m) \in 1 .. Len(m) /\ Len(m) + 1 \notin Loose(m)
    BY <1>2 DEF Loose
  <2>2. \E k \in 1 .. Len(c) : pos[k] = Len(m)
    BY <2>1, <1>1 DEF CondensedFrom
  <2> QED BY <2>2, <1>2
<1>4. 1 \in 1 .. Len(c)
  BY <1>2, <1>3
<1>5. pos[1] \in 1 .. Len(m) /\ \A k \in 1 .. Len(c) : pos[k] \in 1 .. Len(m) /\ (k # 1 => pos[1] < pos[k])
  <2>1. \A k \in 1 .. Len(c) : k # 1 => 1 < k
    BY <1>2
  <2> QED BY <2>1, <1>1, <1>4 DEF CondensedFrom
<1>6. ASSUME c[1].role = "user" PROVE m[1].role = "user"
  <2>1. Users(m) # {} /\ pos[1] = Max(Users(m))
    BY <1>1, <1>4, <1>6, CondensedPins
  <2>2. m[pos[1]].role = "user" /\ pos[1] \in Pins(m)
    BY <2>1, PinsAre DEF Users, Pins
  <2>3. pos[1] = 1
    <3>1. SUFFICES ASSUME pos[1] # 1 PROVE FALSE
      OBVIOUS
    <3>2. pos[1] - 1 \in 1 .. Len(m) /\ (pos[1] - 1) + 1 = pos[1] /\ pos[1] - 1 < pos[1]
      BY <3>1, <1>2, <1>5
    <3>3. (pos[1] - 1) + 1 \notin Loose(m)
      BY <2>2, <3>2 DEF Loose
    <3>4. PICK k \in 1 .. Len(c) : pos[k] = pos[1] - 1
      BY <3>2, <3>3, <1>1 DEF CondensedFrom
    <3> QED BY <3>2, <3>4, <1>5
  <2> QED BY <2>2, <2>3
<1> QED BY <1>3, <1>6

\* What only the browser shows is not in the rows that are joined.
LEMMA JoinedRoles ==
  ASSUME NEW rows \in Rows, NEW keep \in Nat, keep <= Len(Turns(rows)), NEW i \in 1 .. Len(Joined(rows, keep))
  PROVE  Joined(rows, keep)[i].role # "ui"
<1> DEFINE t == Joined(rows, keep)
           p == Pruned(rows)
<1>1. PICK src : JoinedFrom(t, p, src)
  BY JoinedIs
<1>2. p \in Rows /\ \A k \in 1 .. Len(p) : p[k].role # "ui"
  BY PrunedIs
<1>3. Len(p) \in Nat
  BY <1>2, LenProperties DEF Rows
<1>4. i \in 1 .. Len(t)
  OBVIOUS
<1> HIDE DEF t, p
<1> SUFFICES t[i].role # "ui"
  BY DEF t
<1>5. src[i] \in 0 .. Len(p)
  BY <1>1, <1>4 DEF JoinedFrom
<1>6. CASE src[i] = 0
  BY <1>1, <1>4, <1>6 DEF JoinedFrom
<1>7. CASE src[i] # 0
  <2>1. src[i] \in 1 .. Len(p)
    BY <1>3, <1>5, <1>7
  <2>2. p[src[i]] \in DraftType /\ p[src[i]].role # "ui"
    BY <2>1, <1>2, ElementOfSeq DEF Rows
  <2>3. t[i] = p[src[i]] \/ t[i] = PinnedForm(p[src[i]])
    BY <1>1, <1>4, <1>7 DEF JoinedFrom
  <2> QED BY <2>2, <2>3, PinnedIs
<1> QED BY <1>6, <1>7

\* What follows the root, in order.
LEMMA TurnsAre ==
  ASSUME NEW rows \in Rows
  PROVE  LET p == Pruned(rows)
         IN /\ Turns(rows) \in Rows /\ Len(Turns(rows)) = Len(p) - Root(rows)
            /\ \A i \in 1 .. Len(p) - Root(rows) : Turns(rows)[i] = p[Root(rows) + i]
<1> DEFINE p == Pruned(rows)
           R == Root(rows)
           u == Turns(rows)
<1>1. p \in Rows /\ Len(p) \in Nat
  BY PrunedIs, LenProperties DEF Rows
<1>2. R \in 0 .. 1 /\ R <= Len(p)
  <2>1. R \in 0 .. 1
    BY DEF Root
  <2>2. R = 1 => Len(p) >= 1
    BY RootIs
  <2> HIDE DEF R, p
  <2> QED BY <2>1, <2>2, <1>1
<1>3. u = SubSeq(p, R + 1, Len(p))
  BY DEF Turns
<1> HIDE DEF p, R, u
<1>4. \A i \in R + 1 .. Len(p) : p[i] \in DraftType
  <2>1. \A i \in R + 1 .. Len(p) : i \in 1 .. Len(p)
    BY <1>1, <1>2
  <2> QED BY <2>1, <1>1, ElementOfSeq DEF Rows
<1>5. u \in Seq(DraftType) /\ Len(u) = (IF R + 1 <= Len(p) THEN Len(p) - (R + 1) + 1 ELSE 0)
      /\ \A i \in 1 .. Len(p) - (R + 1) + 1 : u[i] = p[R + 1 + i - 1]
  BY <1>1, <1>2, <1>3, <1>4, SubSeqProperties
<1>6. /\ \A i \in 1 .. Len(p) - R : i \in 1 .. Len(p) - (R + 1) + 1 /\ R + 1 + i - 1 = R + i
      /\ (IF R + 1 <= Len(p) THEN Len(p) - (R + 1) + 1 ELSE 0) = Len(p) - R
  BY <1>1, <1>2
<1>7. u \in Rows /\ Len(u) = Len(p) - R /\ \A i \in 1 .. Len(p) - R : u[i] = p[R + i]
  BY <1>5, <1>6 DEF Rows
<1> QED BY <1>7 DEF p, R, u

\* The rows that are joined, with other ids: the same are recent, and what is between
\* them and the root is pinned or a summary.
LEMMA JoinedAgain ==
  ASSUME NEW rows \in Rows, NEW keep \in Nat \ {0}, keep <= Len(Turns(rows)),
         NEW s \in Rows, Len(s) = Len(Joined(rows, keep)),
         \A i \in 1 .. Len(s) : Kin(s[i], Joined(rows, keep)[i]) /\ ~ Oversized(s[i])
  PROVE  Spoken(s) = s /\ \A k \in Loose(Middle(s, keep)) : IsSummary(Middle(s, keep)[k])
<1> DEFINE p == Pruned(rows)
           R == Root(rows)
           K == Split(Turns(rows), keep)
           m == Middle(rows, keep)
           C == Condensed(m)
           t == Joined(rows, keep)
<1>1. /\ p \in Rows /\ R \in 0 .. 1 /\ K \in 0 .. Len(p) - R - keep
      /\ m \in Rows /\ Len(m) = K /\ \A i \in 1 .. K : m[i] = p[R + i]
      /\ Turns(rows) \in Rows /\ Len(Turns(rows)) = Len(p) - R
      /\ \A i \in 1 .. Len(p) - R : Turns(rows)[i] = p[R + i]
      /\ Len(C) \in Nat /\ t \in Rows /\ Len(t) = R + Len(C) + (Len(p) - R - K)
      /\ \A k \in 1 .. R : t[k] = p[k]
      /\ \A k \in 1 .. Len(C) : t[R + k] = C[k]
      /\ \A k \in 1 .. Len(p) - R - K : t[R + Len(C) + k] = p[R + K + k]
  BY PartsAre, ZenonT(30)
<1>2. \A i \in 1 .. Len(s) : s[i].role # "ui" /\ ~ Oversized(s[i])
  BY JoinedRoles DEF Kin
<1>3. Spoken(s) = s /\ Pruned(s) = s
  BY <1>2, PrunedSame
<1>4. /\ Root(s) = 1 => s[1].role = "user" /\ Len(s) >= 1
      /\ Root(s) = 0 /\ Len(s) >= 1 => s[1].role # "user"
  BY <1>3, RootIs
<1>5. /\ R = 1 => p[1].role = "user" /\ Len(p) >= 1
      /\ R = 0 /\ Len(p) >= 1 => p[1].role # "user"
  BY RootIs
<1>6. \A i \in 1 .. Len(s) : s[i].role = t[i].role /\ Kin(s[i], t[i])
  BY DEF Kin
<1>7. C \in Rows /\ (Len(m) >= 1 => Len(C) >= 1 /\ (m[1].role # "user" => C[1].role # "user"))
  BY <1>1, CondensedIs, CondensedStart
<1>8. /\ K = 0 \/ Turns(rows)[K + 1].role # "tool"
      /\ \A k \in 0 .. Len(p) - R - keep : Turns(rows)[k + 1].role # "tool" => k <= K
  BY <1>1, SplitIs
<1>9. keep \in Nat \ {0} /\ s \in Rows /\ Len(s) = Len(t)
  OBVIOUS
<1> HIDE DEF p, R, K, m, C, t
<1>10. Len(p) \in Nat
  BY <1>1, LenProperties DEF Rows
<1> DEFINE L == Len(C)
           N == Len(p) - R - K
<1>11. /\ R \in 0 .. 1 /\ K \in Nat /\ L \in Nat /\ N \in Nat /\ keep <= N /\ 1 <= N
       /\ Len(s) = R + L + N /\ Len(p) = R + K + N /\ Len(p) - R - keep = K + N - keep
  <2>1. R \in 0 .. 1 /\ K \in 0 .. Len(p) - R - keep /\ Len(C) \in Nat /\ Len(t) = R + Len(C) + (Len(p) - R - K)
    BY <1>1
  <2> QED BY ONLY <1>9, <1>10, <2>1
<1>12. /\ \A i \in 1 .. K : m[i] = p[R + i]
       /\ \A k \in 1 .. R : t[k] = p[k]
       /\ \A k \in 1 .. L : t[R + k] = C[k]
       /\ \A k \in 1 .. N : t[R + L + k] = p[R + K + k]
       /\ \A i \in 1 .. Len(p) - R : Turns(rows)[i] = p[R + i]
  BY <1>1
<1>13. K >= 1 => L >= 1 /\ (p[R + 1].role # "user" => C[1].role # "user")
  <2>1. Len(m) = K
    BY <1>1
  <2>2. K >= 1 => 1 \in 1 .. K
    BY <1>11
  <2> QED BY <2>1, <2>2, <1>7, <1>12 DEF L
<1>14. L >= 1 => K >= 1
  <2>1. PICK pos : CondensedFrom(C, m, pos)
    BY <1>1, CondensedIs DEF C
  <2>2. L >= 1 => pos[1] \in 1 .. K
    <3>1. L >= 1 => 1 \in 1 .. L
      BY <1>11
    <3> QED BY <2>1, <3>1, <1>1 DEF CondensedFrom, L
  <2> QED BY <2>2, <1>11
<1>15. s[1].role = "user" <=> R = 1
  <2>1. CASE R = 1
    <3>1. 1 \in 1 .. R /\ 1 \in 1 .. Len(s)
      BY <2>1, <1>11
    <3>2. s[1].role = p[1].role
      BY <3>1, <1>6, <1>12
    <3> QED BY <2>1, <3>2, <1>5
  <2>2. CASE R = 0 /\ L >= 1
    <3>1. 1 \in 1 .. L /\ 1 \in 1 .. Len(s) /\ R + 1 = 1 /\ K >= 1 /\ Len(p) >= 1
      BY <2>2, <1>11, <1>14
    <3>2. t[1] = C[1] /\ s[1].role = t[1].role /\ p[1].role # "user"
      BY <2>2, <3>1, <1>5, <1>6, <1>12
    <3> QED BY <2>2, <3>1, <3>2, <1>13
  <2>3. CASE R = 0 /\ L = 0
    <3>1. K = 0
      BY <2>3, <1>11, <1>13
    <3>2. 1 \in 1 .. N /\ 1 \in 1 .. Len(s) /\ R + L + 1 = 1 /\ R + K + 1 = 1 /\ Len(p) >= 1
      BY <2>3, <3>1, <1>11
    <3>3. t[1] = p[1] /\ s[1].role = t[1].role
      <4>1. t[R + L + 1] = p[R + K + 1]
        BY <3>2, <1>12
      <4> QED BY <4>1, <3>2, <1>6
    <3> QED BY <2>3, <3>2, <3>3, <1>5
  <2> QED BY <2>1, <2>2, <2>3, <1>11
<1>16. Root(s) = R
  <2>1. Root(s) \in 0 .. 1
    BY DEF Root
  <2>2. Len(s) >= 1 /\ (R = 0 \/ R = 1)
    BY <1>11
  <2>3. Root(s) = 0 \/ Root(s) = 1
    BY <2>1
  <2>4. Root(s) = 1 => s[1].role = "user"
    BY <1>4
  <2>5. Root(s) = 0 => s[1].role # "user"
    BY <2>2, <1>4
  <2> QED BY <2>2, <2>3, <2>4, <2>5, <1>15
<1> DEFINE u == Turns(s)
           V == Split(u, keep)
           w == Middle(s, keep)
<1>17. u \in Rows /\ Len(u) = L + N /\ \A i \in 1 .. L + N : u[i] = s[R + i]
  <2>1. u \in Rows /\ Len(u) = Len(s) - R /\ \A i \in 1 .. Len(s) - R : u[i] = s[R + i]
    BY <1>3, <1>16, TurnsAre
  <2>2. Len(s) - R = L + N
    BY <1>11
  <2> QED BY <2>1, <2>2
<1>18. keep <= Len(u) /\ L + N - keep \in Nat /\ keep \in Nat
  BY <1>11, <1>17
<1>19. /\ V \in 0 .. L + N - keep
       /\ V = 0 \/ u[V + 1].role # "tool"
       /\ \A k \in 0 .. L + N - keep : u[k + 1].role # "tool" => k <= V
  <2> HIDE DEF u
  <2>1. u \in Rows /\ keep <= Len(u) /\ Len(u) - keep = L + N - keep
    <3>1. u \in Rows /\ Len(u) = L + N
      BY <1>17
    <3>2. keep \in Nat /\ L \in Nat /\ N \in Nat /\ keep <= Len(u)
      BY <1>11, <1>18
    <3> HIDE DEF L, N
    <3> QED BY ONLY <3>1, <3>2
  <2>2. /\ V \in 0 .. Len(u) - keep
        /\ V = 0 \/ u[V + 1].role # "tool"
        /\ \A k \in 0 .. Len(u) - keep : u[k + 1].role # "tool" => k <= V
    BY <1>18, <2>1, SplitIs
  <2> QED BY <2>1, <2>2
<1>20. w \in Rows /\ Len(w) = V /\ \A i \in 1 .. V : w[i] = s[R + i]
  <2>1. w \in Rows /\ Len(w) = V /\ \A i \in 1 .. V : w[i] = Pruned(s)[Root(s) + i]
    BY <1>18, PartsAre
  <2> QED BY <2>1, <1>3, <1>16
<1> HIDE DEF u, V, w
<1>21. ASSUME NEW k \in 1 .. N PROVE u[L + k].role = p[R + K + k].role
  <2>1. L + k \in 1 .. L + N /\ R + (L + k) = R + L + k /\ R + L + k \in 1 .. Len(s)
    BY <1>11
  <2>2. u[L + k] = s[R + L + k] /\ t[R + L + k] = p[R + K + k]
    BY <2>1, <1>12, <1>17
  <2> QED BY <2>1, <2>2, <1>6
<1>22. L <= V
  <2>1. CASE L = 0
    BY <2>1, <1>11, <1>19
  <2>2. CASE L # 0
    <3>1. K # 0 /\ 1 \in 1 .. N /\ L \in 0 .. L + N - keep /\ K + 1 \in 1 .. Len(p) - R /\ R + (K + 1) = R + K + 1
      BY <2>2, <1>11, <1>14
    <3>2. p[R + K + 1].role # "tool"
      BY <3>1, <1>8, <1>12
    <3>3. u[L + 1].role # "tool"
      BY <3>1, <3>2, <1>21
    <3> QED BY <3>1, <3>3, <1>19
  <2> QED BY <2>1, <2>2
<1>23. V <= L
  <2>1. SUFFICES ASSUME ~ (V <= L) PROVE FALSE
    OBVIOUS
  <2>2. V \in Nat /\ V # 0 /\ V - L \in 1 .. N - keep
    BY <2>1, <1>11, <1>19
  <2> DEFINE j == V - L
             k == K + j
  <2>3. /\ j + 1 \in 1 .. N /\ L + (j + 1) = V + 1 /\ k \in 0 .. Len(p) - R - keep /\ k + 1 \in 1 .. Len(p) - R
        /\ R + (k + 1) = R + K + (j + 1) /\ ~ (k <= K)
    BY <2>2, <1>11
  <2> HIDE DEF j, k
  <2>4. u[V + 1].role # "tool"
    BY <2>2, <1>19
  <2>5. p[R + K + (j + 1)].role # "tool"
    BY <2>3, <2>4, <1>21
  <2>6. Turns(rows)[k + 1].role # "tool"
    BY <2>3, <2>5, <1>12
  <2> QED BY <2>3, <2>6, <1>8
<1>24. V = L
  BY <1>11, <1>19, <1>22, <1>23
<1>25. ASSUME NEW i \in 1 .. L PROVE Kin(w[i], C[i])
  <2>1. R + i \in 1 .. Len(s)
    BY <1>11
  <2>2. w[i] = s[R + i] /\ t[R + i] = C[i]
    BY <1>12, <1>20, <1>24
  <2> QED BY <2>1, <2>2, <1>6
<1>26. \A k \in Loose(w) : IsSummary(w[k])
  <2>1. C = Condensed(m) /\ m \in Rows /\ w \in Rows /\ Len(w) = Len(C) /\ \A k \in 1 .. Len(C) : Kin(w[k], C[k])
    BY <1>1, <1>20, <1>24, <1>25 DEF C
  <2> QED BY ONLY <2>1, SettledAgain
<1> QED BY <1>3, <1>26 DEF w

\* Rows that get ids stay the same otherwise.
LEMMA NumberedKin ==
  ASSUME NEW rows \in Rows, Len(Stored) \in Nat
  PROVE  LET kept == Numbered(rows)
         IN /\ kept \in Rows /\ Len(kept) = Len(rows)
            /\ \A i \in 1 .. Len(rows) : Kin(kept[i], rows[i])
<1> DEFINE kept == Numbered(rows)
<1>1. /\ kept \in Seq(RowType) /\ Len(kept) = Len(rows)
      /\ \A i \in 1 .. Len(rows) : IF rows[i].id # 0 THEN kept[i] = rows[i]
                                   ELSE kept[i] = [rows[i] EXCEPT !.id = kept[i].id]
  BY NumberedIs
<1> HIDE DEF kept
<1>2. kept \in Rows
  BY <1>1, RowsAreDrafts
<1>3. ASSUME NEW i \in 1 .. Len(rows) PROVE Kin(kept[i], rows[i])
  <2>1. rows[i] \in DraftType
    BY ElementOfSeq DEF Rows
  <2>2. CASE kept[i] = rows[i]
    BY <2>2 DEF Kin
  <2>3. CASE kept[i] = [rows[i] EXCEPT !.id = kept[i].id]
    <3>1. ASSUME NEW x, kept[i] = [rows[i] EXCEPT !.id = x] PROVE Kin(kept[i], rows[i])
      BY <2>1, <3>1 DEF Kin, DraftType
    <3> QED BY <2>3, <3>1
  <2> QED BY <2>2, <2>3, <1>1
<1> QED BY <1>1, <1>2, <1>3 DEF kept

\* An output over the cap that compaction cut is over the cap.
LEMMA CutStays ==
  ASSUME NEW rows \in Rows, NEW r \in Range(Spoken(rows)), Oversized(r),
         NEW s \in Rows, Len(s) = Len(Pruned(rows)), \A i \in 1 .. Len(s) : Kin(s[i], Pruned(rows)[i])
  PROVE  \E x \in Range(s) : Oversized(x)
<1> DEFINE said == Spoken(rows)
<1>1. rows \in Seq(DraftType)
  BY DEF Rows
<1>2. said \in Seq(DraftType)
  BY ONLY <1>1, SpokenIs
<1>3. said \in Rows
  BY <1>2 DEF Rows
<1>4. PICK i \in 1 .. Len(said) : r = said[i]
  BY <1>2, RangeIs
<1> HIDE DEF said
<1>5. Len(Prune(said)) = Len(said) /\ Prune(said)[i] = IF Oversized(said[i]) THEN CutForm(said[i]) ELSE said[i]
  BY <1>3, <1>4, PruneIs
<1>6. said[i] \in DraftType
  BY <1>2, <1>4, ElementOfSeq
<1>7. Prune(said)[i].role = "tool" /\ Prune(said)[i].text = "cut"
  BY <1>4, <1>5, <1>6, CutIs DEF Oversized
<1>8. i \in 1 .. Len(s) /\ Kin(s[i], Prune(said)[i])
  BY <1>4, <1>5 DEF Pruned, said
<1>9. Oversized(s[i])
  BY <1>7, <1>8 DEF Kin, Oversized
<1>10. s[i] \in Range(s)
  <2>1. s \in Seq(DraftType)
    BY DEF Rows
  <2> QED BY <2>1, <1>8, RangeIs
<1> QED BY <1>9, <1>10

\* The button, and the button again.
LEMMA PressSettles ==
  ASSUME IInv, Press, active' # active, \A r \in Range(active') : ~ Oversized(r),
         NEW fits \in BOOLEAN, NEW shrinks \in BOOLEAN
  PROVE  ~ Compact(active', ButtonKeep, TRUE, TRUE, fits, shrinks).applied
<1>1. PICK f \in BOOLEAN, h \in BOOLEAN :
        LET c == Compact(active, ButtonKeep, TRUE, TRUE, f, h)
        IN IF c.applied THEN Replace(c.rows) ELSE UNCHANGED <<active, archived, link>>
  BY DEF Press
<1> DEFINE yes == TRUE
<1> DEFINE c == Compact(active, ButtonKeep, yes, yes, f, h)
<1>2. c.applied /\ active' = Numbered(c.rows)
  <2>1. IF c.applied THEN Replace(c.rows) ELSE active' = active
    BY <1>1
  <2> HIDE DEF c
  <2> QED BY <2>1 DEF Replace
<1> HIDE DEF yes
<1>3. \/ c = [rows |-> Pruned(active), applied |-> FALSE]
      \/ /\ c = [rows |-> Pruned(active), applied |-> TRUE]
         /\ \E r \in Range(Spoken(active)) : Oversized(r)
      \/ /\ c = [rows |-> Joined(active, ButtonKeep), applied |-> TRUE]
         /\ ~ (Len(Turns(active)) <= ButtonKeep)
  BY CompactIs
<1> HIDE DEF c
<1>4. active \in Rows /\ Len(Stored) \in Nat /\ ButtonKeep \in Nat \ {0} /\ ButtonKeep \in Nat
  <2>1. active \in Seq(RowType) /\ archived \in Seq(RowType)
    BY DEF IInv, ChatInv
  <2> QED BY <2>1, StoredIs, StoredRows, KeepsAssumption DEF Stored
<1> DEFINE s == active'
<1>5. CASE c.rows = Pruned(active) /\ \E r \in Range(Spoken(active)) : Oversized(r)
  <2>1. Pruned(active) \in Rows
    BY <1>4, PrunedIs
  <2>2. s \in Rows /\ Len(s) = Len(Pruned(active)) /\ \A i \in 1 .. Len(Pruned(active)) : Kin(s[i], Pruned(active)[i])
    BY <2>1, <1>2, <1>4, <1>5, NumberedKin
  <2>3. \E x \in Range(s) : Oversized(x)
    <3> HIDE DEF s
    <3> QED BY <2>2, <1>4, <1>5, CutStays
  <2> QED BY <2>3
<1>6. CASE c.rows = Joined(active, ButtonKeep) /\ ~ (Len(Turns(active)) <= ButtonKeep)
  <2>1. ButtonKeep <= Len(Turns(active))
    <3>1. Turns(active) \in Seq(DraftType)
      BY <1>4, TurnsAre DEF Rows
    <3>2. Len(Turns(active)) \in Nat
      BY <3>1, LenProperties
    <3> QED BY <3>2, <1>4, <1>6
  <2>2. Joined(active, ButtonKeep) \in Rows
    BY <2>1, <1>4, PartsAre
  <2>3. s \in Rows /\ Len(s) = Len(Joined(active, ButtonKeep))
        /\ \A i \in 1 .. Len(Joined(active, ButtonKeep)) : Kin(s[i], Joined(active, ButtonKeep)[i])
    BY <2>2, <1>2, <1>4, <1>6, NumberedKin
  <2>4. \A r \in Range(s) : ~ Oversized(r)
    OBVIOUS
  <2> HIDE DEF s
  <2>5. \A i \in 1 .. Len(s) : ~ Oversized(s[i])
    <3>1. s \in Seq(DraftType)
      BY <2>3 DEF Rows
    <3>2. \A i \in 1 .. Len(s) : s[i] \in Range(s)
      BY <3>1, RangeIs
    <3> QED BY <3>2, <2>4
  <2>6. Spoken(s) = s /\ \A k \in Loose(Middle(s, ButtonKeep)) : IsSummary(Middle(s, ButtonKeep)[k])
    BY <2>1, <2>3, <2>5, <1>4, JoinedAgain
  <2>7. \A r \in Range(Spoken(s)) : ~ Oversized(r)
    BY <2>4, <2>6
  <2>8. ~ Compact(s, ButtonKeep, yes, yes, fits, shrinks).applied
    BY <2>6, <2>7, CompactIdle
  <2> QED BY <2>8 DEF s, yes
<1>7. \/ c.rows = Pruned(active) /\ \E r \in Range(Spoken(active)) : Oversized(r)
      \/ c.rows = Joined(active, ButtonKeep) /\ ~ (Len(Turns(active)) <= ButtonKeep)
  BY <1>2, <1>3
<1> QED BY <1>5, <1>6, <1>7

\* Once the Compact button has changed the chat, and no output over the cap is shown,
\* pressing it again changes nothing, however the summaries come out: what is between
\* the root and the recent rows is pinned, or a summary.
THEOREM CompactSettlesHolds ==
  Spec => CompactSettles
<1> DEFINE A == presses' # presses /\ active' # active /\ (\A r \in Range(active') : ~ Oversized(r))
                  => \A fits, shrinks \in BOOLEAN : ~ Compact(active', ButtonKeep, TRUE, TRUE, fits, shrinks).applied
<1>1. ASSUME IInv, [Next]_vars, presses' # presses, active' # active, \A r \in Range(active') : ~ Oversized(r),
             NEW fits \in BOOLEAN, NEW shrinks \in BOOLEAN
      PROVE  ~ Compact(active', ButtonKeep, TRUE, TRUE, fits, shrinks).applied
  <2>1. Press
    BY <1>1 DEF Next, vars, Say, Answer, Result, Park, Notice, CallTools, Interrupt, Decide,
           DecideForChild
  <2> QED BY <2>1, <1>1, PressSettles
<1>2. IInv /\ [Next]_vars => [A]_vars
  BY <1>1
<1>3. CompactSettles <=> [][A]_vars
  BY DEF CompactSettles
<1> HIDE DEF A
<1> QED BY <1>2, <1>3, Invariant, PTL DEF Spec

=============================================================================
