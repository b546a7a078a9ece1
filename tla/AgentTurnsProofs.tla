-------------------------- MODULE AgentTurnsProofs --------------------------
(***************************************************************************)
(* Type correctness of AgentTurns, that an approved call runs once, that   *)
(* rows tell the truth, and that every call of a batch is answered, for    *)
(* any batches and any numbers of calls, steps, messages and deaths.       *)
(***************************************************************************)
EXTENDS AgentTurns, WellFoundedInduction, SequenceTheorems, TLAPS

USE BatchesAssumption

-----------------------------------------------------------------------------
(* The inductive invariant. *)

\* The calls of a turn in progress: its session's, in the order of the batch.
TodoOf(s) == LET todo == turn[s].todo IN
  /\ \A k \in DOMAIN todo : calls[todo[k]].sess = s
  /\ \A j, k \in DOMAIN todo : j < k => todo[j] < todo[k]

\* Nothing has been done about a call yet; a resumed child may have reported to a hand-off.
Untouched(c) ==
  /\ ran[c] = 0 /\ card[c] = "none"
  /\ answer[c] = "none" \/ (calls[c].kind = "hand" /\ answer[c] \in {"done", "failed", "child"})

\* A turn works through untouched calls; while it waits, the first of them is with a child.
TurnInv(s) == LET t == turn[s] IN
  /\ TodoOf(s)
  /\ t.pc \in {"idle", "think"} <=> t.todo = <<>>
  /\ t.pc = "tools" => \A c \in ToSet(t.todo) : Untouched(c)
  /\ t.pc = "wait" => /\ calls[Head(t.todo)].kind = "hand"
                      /\ \A c \in ToSet(Tail(t.todo)) : Untouched(c)
  /\ t.pc # "idle" /\ s # Chat => s \in Ids /\ calls[s].kind = "hand"
  /\ t.live => t.pc # "idle" /\ s # Chat /\ turn[Parent(s)].pc = "wait" /\ Current(Parent(s)) = s

\* A call is of a session that exists: the chat or an earlier hand-off, which hands
\* nothing over in turn.
CallInv(c) ==
  LET s == calls[c].sess
  IN s # Chat => s \in Ids /\ s < c /\ calls[s].kind = "hand" /\ calls[c].kind # "hand"

\* A card is found from the row of its call, save one whose park was cut by a death.
Shown(c) == answer[c] = "parked" \/ (answer[c] = "none" /\ deaths > 0)

\* The life of a call and its card.
CardInv(c) ==
  /\ ran[c] <= 1
  /\ card[c] # "none" => calls[c].kind = "risky"
  /\ calls[c].kind = "risky" /\ ran[c] > 0 => card[c] = "approved"
  /\ c \in executing => card[c] = "approved" /\ ran[c] = 0 /\ Shown(c)
  /\ card[c] = "pending" => ran[c] = 0 /\ Shown(c)

RowInv(c) ==
  /\ answer[c] = "done" /\ calls[c].kind # "hand" => ran[c] = 1
  /\ answer[c] \in {"deferred", "skipped", "refused", "rejected"} => ran[c] = 0 /\ card[c] # "approved"
  /\ answer[c] = "parked" /\ ran[c] = 1 => deaths > 0

IInv ==
  /\ TypeOK
  /\ \A s \in Sessions : TurnInv(s)
  /\ \A c \in Ids : CallInv(c) /\ CardInv(c) /\ RowInv(c)

-----------------------------------------------------------------------------
(* Sequences and turns. *)

\* The first of a sequence and the others.
LEMMA TailFacts ==
  ASSUME NEW S, NEW q \in Seq(S), q # <<>>
  PROVE  /\ Head(q) = q[1] /\ Head(q) \in S /\ 1 \in DOMAIN q
         /\ Tail(q) \in Seq(S) /\ Len(Tail(q)) = Len(q) - 1
         /\ \A k \in DOMAIN Tail(q) : k + 1 \in DOMAIN q /\ Tail(q)[k] = q[k + 1]
         /\ ToSet(q) = {Head(q)} \cup ToSet(Tail(q))
<1>1. /\ Head(q) = q[1] /\ 1 \in DOMAIN q /\ q[1] \in S
      /\ Tail(q) \in Seq(S) /\ Len(Tail(q)) = Len(q) - 1
      /\ \A k \in DOMAIN Tail(q) : k + 1 \in DOMAIN q /\ Tail(q)[k] = q[k + 1]
  OBVIOUS
<1>2. ASSUME NEW k \in DOMAIN q PROVE q[k] \in {Head(q)} \cup ToSet(Tail(q))
  <2>1. CASE k = 1
    BY <1>1, <2>1
  <2>2. CASE k # 1
    <3>1. k - 1 \in DOMAIN Tail(q) /\ Tail(q)[k - 1] = q[k]
      BY <1>1, <2>2
    <3> QED BY <3>1 DEF ToSet
  <2> QED BY <2>1, <2>2
<1>3. {Head(q)} \cup ToSet(Tail(q)) \subseteq ToSet(q)
  BY <1>1 DEF ToSet
<1>4. ToSet(q) \subseteq {Head(q)} \cup ToSet(Tail(q))
  BY <1>2 DEF ToSet
<1> QED BY <1>1, <1>3, <1>4

Turns == [pc : {"idle", "think", "tools", "wait"}, todo : Seq(Ids), step : 0 .. MaxSteps, live : BOOLEAN]

\* The calls are numbers.
LEMMA IdsAre ==
  ASSUME TypeOK
  PROVE  /\ Ids = 1 .. Len(calls) /\ Len(calls) \in 0 .. MaxCalls /\ Ids \subseteq Sessions \ {Chat}
         /\ \A c \in Ids : calls[c].sess \in Sessions /\ calls[c].kind \in Kinds
                          /\ calls[c].batch \in 1 .. MaxCalls
<1>1. calls \in Seq([sess : Sessions, batch : 1 .. MaxCalls, kind : Kinds]) /\ Len(calls) <= MaxCalls
  BY DEF TypeOK
<1>2. Ids = 1 .. Len(calls) /\ Len(calls) \in 0 .. MaxCalls
  BY <1>1 DEF Ids
<1>3. ASSUME NEW c \in Ids
      PROVE  calls[c].sess \in Sessions /\ calls[c].kind \in Kinds /\ calls[c].batch \in 1 .. MaxCalls
  <2>1. calls[c] \in [sess : Sessions, batch : 1 .. MaxCalls, kind : Kinds]
    <3> DEFINE S == [sess : Sessions, batch : 1 .. MaxCalls, kind : Kinds]
    <3> HIDE DEF S
    <3>1. calls \in Seq(S) /\ c \in 1 .. Len(calls)
      BY <1>1, <1>2 DEF S
    <3>2. calls[c] \in S
      BY <3>1, ElementOfSeq
    <3> QED BY <3>2 DEF S
  <2> QED BY <2>1
<1>4. Ids \subseteq Sessions \ {Chat}
  BY <1>2 DEF Sessions, Chat
<1> QED BY <1>2, <1>3, <1>4

\* The call in hand and those after it.
LEMMA CallsInHand ==
  ASSUME IInv, NEW s \in Sessions, turn[s].pc \in {"tools", "wait"}
  PROVE  /\ turn[s] \in Turns /\ turn[s].todo # <<>>
         /\ Current(s) \in Ids /\ calls[Current(s)].sess = s /\ Current(s) \notin Rest(s)
         /\ Rest(s) \subseteq Ids /\ \A c \in Rest(s) : calls[c].sess = s
         /\ ToSet(turn[s].todo) = {Current(s)} \cup Rest(s)
<1> DEFINE q == turn[s].todo
<1>1. turn[s] \in Turns /\ q \in Seq(Ids) /\ TurnInv(s)
  BY DEF IInv, TypeOK, Turns
<1>2. q # <<>>
  BY <1>1 DEF TurnInv
<1>3. /\ Head(q) = q[1] /\ Head(q) \in Ids /\ 1 \in DOMAIN q
      /\ \A k \in DOMAIN Tail(q) : k + 1 \in DOMAIN q /\ Tail(q)[k] = q[k + 1]
      /\ ToSet(q) = {Head(q)} \cup ToSet(Tail(q))
      /\ Tail(q) \in Seq(Ids)
  BY <1>1, <1>2, TailFacts
<1>4. TodoOf(s)
  BY <1>1 DEF TurnInv
<1>5. \A k \in DOMAIN q : calls[q[k]].sess = s
  BY <1>4 DEF TodoOf
<1>6. ASSUME NEW k \in DOMAIN Tail(q) PROVE Tail(q)[k] \in Ids /\ calls[Tail(q)[k]].sess = s /\ Tail(q)[k] # q[1]
  <2>1. k + 1 \in DOMAIN q /\ 1 < k + 1 /\ q[k + 1] = Tail(q)[k]
    BY <1>3
  <2>2. q[1] < q[k + 1]
    BY <1>3, <1>4, <2>1 DEF TodoOf
  <2>3. \A c \in Ids : c \in Nat
    BY IdsAre DEF IInv
  <2>4. q[k + 1] \in Ids /\ q[1] \in Ids
    <3> HIDE DEF q
    <3> QED BY <1>1, <1>3, <2>1
  <2>5. q[k + 1] # q[1]
    <3> HIDE DEF q
    <3> QED BY <2>2, <2>3, <2>4
  <2> QED BY <1>5, <2>1, <2>4, <2>5
<1> QED BY <1>1, <1>2, <1>3, <1>5, <1>6 DEF Current, Rest, ToSet

\* A nonempty set of naturals has a least element.
LEMMA LeastNat ==
  ASSUME NEW T \in SUBSET Nat, T # {}
  PROVE  \E x \in T : \A y \in T : x <= y
<1>1. \E x \in T : \A y \in T : ~ (<<y, x>> \in OpToRel(<, Nat))
  BY NatLessThanWellFounded, WFMin
<1>2. PICK x \in T : \A y \in T : ~ (<<y, x>> \in OpToRel(<, Nat))
  BY <1>1
<1>3. \A y \in T : ~ (y < x)
  BY <1>2 DEF OpToRel
<1> QED BY <1>3

\* The greatest of some calls is one of them.
LEMMA MaxIn ==
  ASSUME NEW n \in Nat, NEW T \in SUBSET (1 .. n), T # {}
  PROVE  Max(T) \in T
<1> DEFINE D == {n - x : x \in T}
<1>1. D \in SUBSET Nat /\ D # {}
  <2>1. ASSUME NEW x \in T PROVE n - x \in Nat
    <3>1. x \in 1 .. n
      OBVIOUS
    <3> QED BY <3>1
  <2> QED BY <2>1
<1>2. PICK d \in D : \A e \in D : d <= e
  BY <1>1, LeastNat
<1>3. PICK x \in T : d = n - x
  BY <1>2
<1>4. \A y \in T : n - x <= n - y
  BY <1>2, <1>3
<1>5. \A y \in T : x >= y
  BY <1>4
<1> QED BY <1>5 DEF Max

\* The least of some calls is one of them.
LEMMA MinIn ==
  ASSUME NEW T \in SUBSET Nat, T # {}
  PROVE  Min(T) \in T
<1>1. \E x \in T : \A y \in T : x <= y
  BY LeastNat
<1> QED BY <1>1 DEF Min

\* A turn whose call is done.
LEMMA AdvancedIs ==
  ASSUME NEW t \in [Sessions -> Turns], NEW s \in Sessions, t[s].todo # <<>>
  PROVE  /\ Advanced(t, s) \in [Sessions -> Turns]
         /\ \A x \in Sessions : x # s => Advanced(t, s)[x] = t[x]
         /\ LET new == Advanced(t, s)[s]
            IN /\ new \in Turns /\ new.todo = Tail(t[s].todo)
               /\ new.pc = IF Len(turn[s].todo) = 1 THEN "think" ELSE "tools"
               /\ new.live = t[s].live
<1> DEFINE pc == IF Len(turn[s].todo) = 1 THEN "think" ELSE "tools"
           mid == [t[s] EXCEPT !.todo = Tail(@)]
           new == [t[s] EXCEPT !.todo = Tail(@), !.pc = pc]
<1>1. Advanced(t, s) = [t EXCEPT ![s] = new]
  BY DEF Advanced
<1>2. t[s] \in Turns /\ t[s].todo \in Seq(Ids)
  BY DEF Turns
<1>3. Tail(t[s].todo) \in Seq(Ids)
  BY <1>2, TailFacts
<1>4. mid \in Turns /\ mid.todo = Tail(t[s].todo) /\ mid.live = t[s].live
  BY <1>2, <1>3 DEF Turns
<1>5. pc \in {"think", "tools"}
  OBVIOUS
<1>6. new = [mid EXCEPT !.pc = pc]
  BY <1>2 DEF Turns
<1> HIDE DEF mid, pc
<1>7. new \in Turns /\ new.todo = mid.todo /\ new.pc = pc /\ new.live = mid.live
  BY <1>4, <1>5, <1>6 DEF Turns
<1> HIDE DEF new
<1> QED BY <1>1, <1>4, <1>7 DEF pc

-----------------------------------------------------------------------------
(* What a step that leaves something alone keeps. *)

CallOK(c) == CallInv(c) /\ CardInv(c) /\ RowInv(c)

\* A step has not touched a call, save for the report of a resumed child.
AsWas(c) ==
  /\ ran'[c] = ran[c] /\ card'[c] = card[c] /\ (c \in executing' => c \in executing)
  /\ answer'[c] = answer[c] \/ (calls[c].kind = "hand" /\ answer'[c] \in {"done", "failed", "child"})

LEMMA CallKept ==
  ASSUME IInv, calls' = calls, deaths' \in {deaths, deaths + 1}, NEW c \in Ids, AsWas(c)
  PROVE  CallOK(c)' /\ (Untouched(c) => Untouched(c)')
<1>1. CallInv(c) /\ CardInv(c) /\ RowInv(c) /\ deaths \in Nat
  BY DEF IInv, TypeOK
<1>2. CallInv(c)'
  BY <1>1 DEF CallInv, Ids
<1>3. CardInv(c)'
  BY <1>1 DEF CardInv, AsWas, Shown
<1>4. RowInv(c)'
  BY <1>1 DEF RowInv, AsWas
<1>5. Untouched(c) => Untouched(c)'
  BY DEF Untouched, AsWas
<1> QED BY <1>2, <1>3, <1>4, <1>5 DEF CallOK

\* Live turns are of hand-offs that the chat waits for.
LEMMA LiveIsCurrent ==
  ASSUME IInv, NEW x \in Sessions, turn[x].live
  PROVE  /\ x \in Ids /\ x # Chat /\ Parent(x) = Chat /\ turn[x].pc # "idle"
         /\ turn[Chat].pc = "wait" /\ Current(Chat) = x
<1>1. TurnInv(x) /\ x # Chat /\ turn[x].pc # "idle"
  BY DEF IInv, TurnInv
<1>2. x \in Ids /\ calls[x].kind = "hand"
  BY <1>1 DEF TurnInv
<1>3. calls[x].sess = Chat
  BY <1>2 DEF IInv, CallInv
<1> QED BY <1>1, <1>2, <1>3 DEF TurnInv, Parent

\* Only the chat waits.
LEMMA WaitIsChat ==
  ASSUME IInv, NEW s \in Sessions, turn[s].pc = "wait"
  PROVE  s = Chat
<1>1. Current(s) \in Ids /\ calls[Current(s)].sess = s
  BY CallsInHand
<1>2. calls[Current(s)].kind = "hand"
  BY DEF IInv, TurnInv, Current
<1> QED BY <1>1, <1>2 DEF IInv, CallInv

LEMMA TurnKept ==
  ASSUME IInv, calls' = calls, NEW s \in Sessions, turn'[s] = turn[s],
         \A c \in Ids : calls[c].sess = s /\ Untouched(c) => Untouched(c)',
         turn[s].live => turn'[Chat] = turn[Chat]
  PROVE  TurnInv(s)'
<1>1. TurnInv(s) /\ turn[s] \in Turns
  BY DEF IInv, TypeOK, Turns
<1>2. TodoOf(s)'
  BY <1>1 DEF TurnInv, TodoOf
<1>3. CASE turn[s].pc \in {"tools", "wait"}
  <2>1. /\ \A c \in ToSet(turn[s].todo) : c \in Ids /\ calls[c].sess = s
        /\ \A c \in Rest(s) : c \in Ids /\ calls[c].sess = s
    BY <1>3, CallsInHand
  <2>2. turn[s].pc = "tools" => \A c \in ToSet(turn[s].todo) : Untouched(c)'
    BY <1>1, <2>1 DEF TurnInv
  <2>3. turn[s].pc = "wait" => \A c \in ToSet(Tail(turn[s].todo)) : Untouched(c)'
    BY <1>1, <2>1 DEF TurnInv, Rest
  <2>4. turn[s].live => turn[s].pc # "idle" /\ s # Chat /\ turn'[Chat].pc = "wait" /\ Head(turn'[Chat].todo) = s
    BY LiveIsCurrent DEF Current
  <2>5. turn[s].live => Parent(s)' = Chat
    BY LiveIsCurrent DEF Parent
  <2> QED BY <1>1, <1>2, <1>3, <2>2, <2>3, <2>4, <2>5 DEF TurnInv, Current, Ids
<1>4. CASE turn[s].pc \notin {"tools", "wait"}
  <2>1. turn[s].live => turn[s].pc # "idle" /\ s # Chat /\ turn'[Chat].pc = "wait" /\ Head(turn'[Chat].todo) = s
    BY LiveIsCurrent DEF Current
  <2>2. turn[s].live => Parent(s)' = Chat
    BY LiveIsCurrent DEF Parent
  <2> QED BY <1>1, <1>2, <1>4, <2>1, <2>2 DEF TurnInv, Current, Ids
<1> QED BY <1>3, <1>4

LEMMA EmptyTodo == DOMAIN <<>> = {}
OBVIOUS

\* A session at rest.
LEMMA IdleTurn ==
  ASSUME NEW s \in Sessions, turn'[s] = Idle
  PROVE  TurnInv(s)' /\ Idle \in Turns
<1>1. turn'[s].pc = "idle" /\ turn'[s].todo = <<>> /\ ~turn'[s].live
  BY DEF Idle
<1>2. TodoOf(s)'
  BY <1>1, EmptyTodo DEF TodoOf
<1>3. Idle \in Turns
  BY DEF Idle, Turns
<1> QED BY <1>1, <1>2, <1>3 DEF TurnInv

\* A turn that begins.
LEMMA StartedTurn ==
  ASSUME NEW s \in Sessions, turn'[s] = Started(FALSE), s # Chat => s \in Ids' /\ calls'[s].kind = "hand"
  PROVE  TurnInv(s)' /\ Started(FALSE) \in Turns
<1>1. turn'[s].pc = "think" /\ turn'[s].todo = <<>> /\ ~turn'[s].live
  BY DEF Started
<1>2. TodoOf(s)'
  BY <1>1, EmptyTodo DEF TodoOf
<1>3. Started(FALSE) \in Turns
  BY DEF Started, Turns
<1> QED BY <1>1, <1>2, <1>3 DEF TurnInv

\* A turn whose call is done goes on with the others, which are untouched.
LEMMA AdvancedTurn ==
  ASSUME IInv, calls' = calls, NEW s \in Sessions, turn[s].pc \in {"tools", "wait"},
         NEW new, turn'[s] = new,
         new.todo = Tail(turn[s].todo), new.live = turn[s].live,
         new.pc = IF Len(turn[s].todo) = 1 THEN "think" ELSE "tools",
         \A c \in Rest(s) : Untouched(c)',
         turn[s].live => turn'[Chat] = turn[Chat]
  PROVE  TurnInv(s)'
<1> DEFINE q == turn[s].todo
<1>1. q \in Seq(Ids) /\ q # <<>> /\ TurnInv(s)
  BY CallsInHand DEF Turns, IInv
<1>2. /\ Tail(q) \in Seq(Ids) /\ Len(Tail(q)) = Len(q) - 1 /\ Len(q) \in Nat \ {0}
      /\ \A k \in DOMAIN Tail(q) : k + 1 \in DOMAIN q /\ Tail(q)[k] = q[k + 1]
      /\ DOMAIN Tail(q) \subseteq Nat
  <2> HIDE DEF q
  <2> QED BY <1>1, TailFacts
<1>3. Tail(q) = <<>> <=> Len(q) = 1
  <2> HIDE DEF q
  <2> QED BY <1>2
<1>4. TodoOf(s)'
  <2>1. TodoOf(s)
    BY <1>1 DEF TurnInv
  <2>2. \A k \in DOMAIN Tail(q) : calls[Tail(q)[k]].sess = s
    BY <1>2, <2>1 DEF TodoOf
  <2>3. \A j, k \in DOMAIN Tail(q) : j < k => Tail(q)[j] < Tail(q)[k]
    <3> SUFFICES ASSUME NEW j \in DOMAIN Tail(q), NEW k \in DOMAIN Tail(q), j < k
                 PROVE  Tail(q)[j] < Tail(q)[k]
      OBVIOUS
    <3>1. /\ j + 1 \in DOMAIN q /\ k + 1 \in DOMAIN q /\ j + 1 < k + 1
          /\ Tail(q)[j] = q[j + 1] /\ Tail(q)[k] = q[k + 1]
      <4>1. j \in Nat /\ k \in Nat
        BY <1>2
      <4> QED BY <1>2, <4>1
    <3> QED BY <2>1, <3>1 DEF TodoOf
  <2> QED BY <2>2, <2>3 DEF TodoOf
<1>5. s # Chat => s \in Ids /\ calls[s].kind = "hand"
  BY <1>1 DEF TurnInv
<1>6. turn[s].live => Parent(s)' = Chat /\ turn'[Chat].pc = "wait" /\ Head(turn'[Chat].todo) = s /\ s # Chat
  BY LiveIsCurrent DEF Parent, Current
<1>7. \A c \in ToSet(new.todo) : Untouched(c)'
  BY DEF Rest
<1> HIDE DEF q
<1>8. new.todo = Tail(q)
  BY DEF q
<1> QED BY <1>3, <1>4, <1>5, <1>6, <1>7, <1>8 DEF TurnInv, Ids, Current, q

-----------------------------------------------------------------------------
(* Rows. *)

LEMMA WritesType ==
  ASSUME TypeOK, calls' = calls, NEW rows \in [Ids -> Says], Writes(rows)
  PROVE  answer' = rows /\ lastRow' \in {0} \cup Ids'
<1> DEFINE new == {c \in CallsOf(Chat) : answer[c] = "none" /\ rows[c] # "none"}
<1>1. new \in SUBSET (1 .. Len(calls)) /\ Len(calls) \in Nat /\ Ids = 1 .. Len(calls)
  BY IdsAre DEF CallsOf
<1>2. lastRow \in {0} \cup Ids
  BY DEF TypeOK
<1>3. Ids' = Ids
  BY DEF Ids
<1>4. CASE new = {}
  BY <1>2, <1>3, <1>4 DEF Writes
<1>5. CASE new # {}
  <2>1. Max(new) \in new
    BY <1>1, <1>5, MaxIn
  <2> QED BY <1>1, <1>3, <1>5, <2>1 DEF Writes
<1> QED BY <1>4, <1>5

\* A resumed child reports to a hand-off.
LEMMA LandsOnHand ==
  ASSUME IInv, NEW s \in Ids, calls[s].kind = "hand"
  PROVE  LandsOn(Parent(s)) \in Ids /\ calls[LandsOn(Parent(s))].kind = "hand"
<1> DEFINE H == HandCalls(Parent(s))
           B == {calls[d].batch : d \in H}
           L == {c \in H : calls[c].batch = Max(B)}
<1>1. s \in H /\ H \subseteq Ids /\ \A c \in H : calls[c].kind = "hand"
  BY DEF HandCalls, CallsOf, Parent
<1>2. B \in SUBSET (1 .. MaxCalls) /\ B # {}
  BY <1>1, IdsAre DEF IInv
<1>3. Max(B) \in B
  <2> HIDE DEF B
  <2> QED BY <1>2, MaxIn
<1>4. L # {} /\ L \subseteq H
  BY <1>3
<1>5. L \in SUBSET Nat
  BY <1>1, <1>4, IdsAre DEF IInv
<1>6. Min(L) \in L
  <2> HIDE DEF L
  <2> QED BY <1>4, <1>5, MinIn
<1>7. LandsOn(Parent(s)) = Min(L)
  BY DEF LandsOn
<1> QED BY <1>1, <1>4, <1>6, <1>7

\* What a parent is told of its child stands on a hand-off.
LEMMA ToldRows ==
  ASSUME IInv, NEW s \in Ids, calls[s].kind = "hand", NEW rows \in [Ids -> Says],
         NEW what \in {"done", "failed", "child"}
  PROVE  /\ TellParent(rows, s, what) \in [Ids -> Says]
         /\ \A c \in Ids : \/ TellParent(rows, s, what)[c] = rows[c]
                           \/ calls[c].kind = "hand" /\ TellParent(rows, s, what)[c] = what
<1>1. LandsOn(Parent(s)) \in Ids /\ calls[LandsOn(Parent(s))].kind = "hand"
  BY LandsOnHand
<1>2. what \in Says
  BY DEF Says
<1> QED BY <1>1, <1>2 DEF TellParent, Say

-----------------------------------------------------------------------------
(* The kernel. *)

\* The parts of the invariant, put together.
LEMMA Together ==
  ASSUME TypeOK', \A s \in Sessions : TurnInv(s)', \A c \in Ids' : CallOK(c)'
  PROVE  IInv'
BY DEF IInv, CallOK, Sessions

\* A call in hand is untouched while its turn runs.
LEMMA InHandUntouched ==
  ASSUME IInv, NEW s \in Sessions
  PROVE  /\ turn[s].pc = "tools" => Untouched(Current(s))
         /\ turn[s].pc \in {"tools", "wait"} => \A c \in Rest(s) : Untouched(c)
<1>1. TurnInv(s)
  BY DEF IInv
<1>2. turn[s].pc \in {"tools", "wait"} => ToSet(turn[s].todo) = {Current(s)} \cup Rest(s)
  BY CallsInHand
<1> QED BY <1>1, <1>2 DEF TurnInv, Rest

\* What a row and a count may say of an untouched call afterwards.
Told(c, row, n) ==
  /\ n \in {0, 1} /\ (calls[c].kind = "risky" => n = 0)
  /\ row = "done" /\ calls[c].kind # "hand" => n = 1
  /\ row \in {"deferred", "skipped", "refused", "rejected"} => n = 0
  /\ row # "parked"

LEMMA ToldCall ==
  ASSUME IInv, calls' = calls, card' = card, executing' = executing, deaths' = deaths,
         NEW c \in Ids, Untouched(c), Told(c, answer'[c], ran'[c])
  PROVE  CallOK(c)'
<1>1. CallInv(c) /\ CardInv(c)
  BY DEF IInv
<1>2. CallInv(c)'
  BY <1>1 DEF CallInv, Ids
<1>3. c \notin executing /\ card[c] = "none"
  BY <1>1 DEF CardInv, Untouched
<1>4. CardInv(c)'
  BY <1>3 DEF CardInv, Told
<1>5. RowInv(c)'
  BY <1>3 DEF RowInv, Told
<1> QED BY <1>2, <1>4, <1>5 DEF CallOK

\* The call in hand gets its row and the turn goes on.
LEMMA StepOn ==
  ASSUME IInv, NEW s \in Sessions, turn[s].pc = "tools", turn' = Advanced(turn, s),
         NEW what \in Says, Writes(Say(answer, {Current(s)}, what)),
         ran' \in [Ids -> 0 .. 2], \A c \in Ids : c # Current(s) => ran'[c] = ran[c],
         Told(Current(s), what, ran'[Current(s)]),
         UNCHANGED <<calls, card, executing, owed, sends, deaths>>
  PROVE  IInv'
<1> DEFINE c0 == Current(s)
           rows == Say(answer, {c0}, what)
<1>1. /\ turn[s].todo # <<>> /\ c0 \in Ids /\ calls[c0].sess = s /\ c0 \notin Rest(s)
      /\ Rest(s) \subseteq Ids
  BY CallsInHand
<1>2. turn \in [Sessions -> Turns] /\ answer \in [Ids -> Says] /\ Ids' = Ids
  BY DEF IInv, TypeOK, Turns, Ids
<1>3. /\ rows \in [Ids -> Says] /\ rows[c0] = what
      /\ \A c \in Ids : c # c0 => rows[c] = answer[c]
  BY <1>1, <1>2 DEF Say
<1>4. answer' = rows /\ lastRow' \in {0} \cup Ids'
  <2> HIDE DEF rows
  <2> QED BY <1>3, WritesType DEF IInv, rows
<1>5. /\ turn' \in [Sessions -> Turns] /\ \A x \in Sessions : x # s => turn'[x] = turn[x]
      /\ turn'[s].todo = Tail(turn[s].todo) /\ turn'[s].live = turn[s].live
      /\ turn'[s].pc = IF Len(turn[s].todo) = 1 THEN "think" ELSE "tools"
  BY <1>1, <1>2, AdvancedIs
<1> HIDE DEF rows
<1>6. TypeOK'
  BY <1>2, <1>3, <1>4, <1>5 DEF IInv, TypeOK, Turns
<1>7. ASSUME NEW c \in Ids, c # c0 PROVE AsWas(c)
  BY <1>3, <1>4, <1>7 DEF AsWas
<1>8. ASSUME NEW c \in Ids PROVE CallOK(c)'
  <2>1. CASE c = c0
    BY <1>1, <1>3, <1>4, <2>1, InHandUntouched, ToldCall
  <2>2. CASE c # c0
    BY <1>7, <2>2, CallKept
  <2> QED BY <2>1, <2>2
<1>9. ASSUME NEW c \in Ids, c # c0, Untouched(c) PROVE Untouched(c)'
  BY <1>7, <1>9, CallKept
<1>10. ASSUME NEW x \in Sessions PROVE TurnInv(x)'
  <2>1. turn[x].live => s # Chat /\ turn'[Chat] = turn[Chat]
    <3>1. turn[x].live => turn[Chat].pc = "wait"
      BY LiveIsCurrent
    <3>2. Chat \in Sessions
      BY DEF Chat, Sessions
    <3> QED BY <1>5, <3>1, <3>2
  <2>2. CASE x = s
    <3>1. \A c \in Rest(s) : Untouched(c)'
      BY <1>1, <1>9, InHandUntouched
    <3> QED BY <1>5, <2>1, <2>2, <3>1, AdvancedTurn
  <2>3. CASE x # s
    BY <1>1, <1>5, <1>9, <2>1, <2>3, TurnKept
  <2> QED BY <2>2, <2>3
<1> QED BY <1>2, <1>6, <1>8, <1>10, Together

LEMMA ExecuteInv ==
  ASSUME IInv, NEW s \in Sessions, NEW o \in {"done", "failed"}, Execute(s, o)
  PROVE  IInv'
<1>1. Current(s) \in Ids /\ Untouched(Current(s)) /\ turn[s].pc = "tools" /\ calls[Current(s)].kind = "free"
  BY CallsInHand, InHandUntouched DEF Execute, Calls
<1>2. ran \in [Ids -> 0 .. 2] /\ ran[Current(s)] = 0
  BY <1>1 DEF IInv, TypeOK, Untouched
<1>3. ran' = [ran EXCEPT ![Current(s)] = 1]
  BY <1>2 DEF Execute
<1>4. ran' \in [Ids -> 0 .. 2] /\ ran'[Current(s)] = 1 /\ \A c \in Ids : c # Current(s) => ran'[c] = ran[c]
  BY <1>1, <1>2, <1>3
<1>5. Told(Current(s), o, 1) /\ o \in Says
  BY <1>1 DEF Told, Says
<1> QED BY <1>1, <1>4, <1>5, StepOn DEF Execute

LEMMA RefuseInv ==
  ASSUME IInv, NEW s \in Sessions, Refuse(s)
  PROVE  IInv'
<1>1. Current(s) \in Ids /\ Untouched(Current(s)) /\ turn[s].pc = "tools"
  BY CallsInHand, InHandUntouched DEF Refuse
<1>2. ran \in [Ids -> 0 .. 2] /\ ran' = ran /\ ran[Current(s)] = 0
  BY <1>1 DEF Refuse, IInv, TypeOK, Untouched
<1>3. Told(Current(s), "refused", ran'[Current(s)]) /\ "refused" \in Says
  BY <1>2 DEF Told, Says
<1> QED BY <1>1, <1>2, <1>3, StepOn DEF Refuse

\* No turn of a child is live while the chat does anything but wait.
LEMMA NoneLive ==
  ASSUME IInv, turn[Chat].pc # "wait"
  PROVE  \A x \in Sessions : ~turn[x].live
BY LiveIsCurrent

LEMMA ChatIsSession == Chat \in Sessions
BY DEF Chat, Sessions

\* The calls of a turn in progress are untouched; the call that waits is not among them.
LEMMA TodoUntouched ==
  ASSUME IInv, NEW s \in Sessions, turn[s].pc \in {"think", "tools"}
  PROVE  /\ ToSet(turn[s].todo) \subseteq Ids
         /\ \A c \in ToSet(turn[s].todo) : calls[c].sess = s /\ Untouched(c)
<1>1. TurnInv(s)
  BY DEF IInv
<1>2. CASE turn[s].pc = "think"
  <2>1. turn[s].todo = <<>>
    BY <1>1, <1>2 DEF TurnInv
  <2> QED BY <2>1, EmptyTodo DEF ToSet
<1>3. CASE turn[s].pc = "tools"
  BY <1>1, <1>3, CallsInHand DEF TurnInv
<1> QED BY <1>2, <1>3

\* A turn ends: the calls that were left have their rows, and a child reports.
LEMMA EndsInv ==
  ASSUME IInv, NEW s \in Sessions, turn[s].pc \in {"think", "tools"},
         NEW outcome \in {"done", "failed"}, NEW rows \in [Ids -> Says], Ends(s, rows, outcome),
         ran' \in [Ids -> 0 .. 2],
         \A c \in Ids \ ToSet(turn[s].todo) : rows[c] = answer[c] /\ ran'[c] = ran[c],
         \A c \in ToSet(turn[s].todo) : Told(c, rows[c], ran'[c]),
         UNCHANGED <<calls, card, executing, sends, deaths>>
  PROVE  IInv'
<1> DEFINE todo == ToSet(turn[s].todo)
           told == IF s = Chat THEN rows ELSE TellParent(rows, s, outcome)
<1>1. turn \in [Sessions -> Turns] /\ answer \in [Ids -> Says] /\ Ids' = Ids /\ owed \in BOOLEAN
  BY DEF IInv, TypeOK, Turns, Ids
<1>2. todo \subseteq Ids /\ \A c \in todo : calls[c].sess = s /\ Untouched(c)
  BY TodoUntouched
<1>3. s # Chat => s \in Ids /\ calls[s].kind = "hand"
  BY DEF IInv, TurnInv
<1>4. /\ told \in [Ids -> Says]
      /\ \A c \in Ids : told[c] = rows[c] \/ (calls[c].kind = "hand" /\ told[c] = outcome)
  BY <1>3, ToldRows
<1>5. Writes(told)
  BY DEF Ends
<1> HIDE DEF todo, told
<1>6. answer' = told /\ lastRow' \in {0} \cup Ids'
  BY <1>4, <1>5, WritesType DEF IInv
<1>7. ASSUME NEW c \in Ids, c \notin todo PROVE AsWas(c)
  BY <1>4, <1>6, <1>7 DEF AsWas, todo
<1>8. ASSUME NEW c \in Ids PROVE CallOK(c)'
  <2>1. CASE c \in todo
    <3>1. Told(c, answer'[c], ran'[c])
      BY <1>4, <1>6, <2>1 DEF Told, todo
    <3> QED BY <1>2, <2>1, <3>1, ToldCall
  <2>2. CASE c \notin todo
    BY <1>7, <2>2, CallKept
  <2> QED BY <2>1, <2>2
<1>9. ASSUME NEW c \in Ids, calls[c].sess # s, Untouched(c) PROVE Untouched(c)'
  BY <1>2, <1>7, <1>9, CallKept
<1>10. CASE ~turn[s].live
  <2>1. turn' = [turn EXCEPT ![s] = Idle] /\ owed' \in BOOLEAN
    BY <1>1, <1>10, LiveIsCurrent DEF Ends, Parent
  <2>2. turn'[s] = Idle /\ \A x \in Sessions : x # s => turn'[x] = turn[x]
    BY <1>1, <2>1
  <2>3. ASSUME NEW x \in Sessions PROVE TurnInv(x)'
    <3>1. CASE x = s
      BY <2>2, <3>1, IdleTurn
    <3>2. CASE x # s
      <4>1. turn[x].live => turn'[Chat] = turn[Chat]
        BY <2>2, LiveIsCurrent, ChatIsSession
      <4> QED BY <1>9, <2>2, <3>2, <4>1, TurnKept
    <3> QED BY <3>1, <3>2
  <2>4. turn' \in [Sessions -> Turns]
    BY <1>1, <2>1, <2>2, IdleTurn
  <2>5. TypeOK'
    BY <1>1, <1>4, <1>6, <2>1, <2>4 DEF IInv, TypeOK, Turns
  <2> QED BY <1>1, <1>8, <2>3, <2>5, Together
<1>11. CASE turn[s].live
  <2> DEFINE t == [turn EXCEPT ![s] = Idle]
  <2>1. s # Chat /\ Parent(s) = Chat /\ turn[Chat].pc = "wait" /\ Current(Chat) = s
    BY <1>11, LiveIsCurrent
  <2>2. turn' = Advanced(t, Chat) /\ owed' \in BOOLEAN
    BY <1>1, <1>11, <2>1 DEF Ends
  <2>3. Idle \in Turns
    BY DEF Idle, Turns
  <2>4. t \in [Sessions -> Turns] /\ t[Chat] = turn[Chat] /\ t[s] = Idle
        /\ \A x \in Sessions : x # s => t[x] = turn[x]
    BY <1>1, <2>1, <2>3, ChatIsSession
  <2>5. turn[Chat].todo # <<>> /\ Rest(Chat) \subseteq Ids /\ \A c \in Rest(Chat) : calls[c].sess = Chat
    BY <2>1, CallsInHand, ChatIsSession
  <2> HIDE DEF t
  <2>6. /\ turn' \in [Sessions -> Turns]
        /\ \A x \in Sessions : x # Chat => turn'[x] = t[x]
        /\ turn'[Chat].todo = Tail(turn[Chat].todo) /\ turn'[Chat].live = turn[Chat].live
        /\ turn'[Chat].pc = IF Len(turn[Chat].todo) = 1 THEN "think" ELSE "tools"
    BY <2>2, <2>4, <2>5, AdvancedIs, ChatIsSession
  <2>7. ASSUME NEW x \in Sessions PROVE TurnInv(x)'
    <3>1. CASE x = Chat
      <4>1. \A c \in Rest(Chat) : Untouched(c)'
        BY <1>9, <2>1, <2>5, InHandUntouched, ChatIsSession
      <4>2. ~turn[Chat].live
        BY LiveIsCurrent, ChatIsSession
      <4> QED BY <2>1, <2>6, <3>1, <4>1, <4>2, AdvancedTurn, ChatIsSession
    <3>2. CASE x = s
      BY <2>1, <2>4, <2>6, <3>2, IdleTurn
    <3>3. CASE x # s /\ x # Chat
      <4>1. ~turn[x].live
        BY <2>1, <3>3, LiveIsCurrent
      <4> QED BY <1>9, <2>4, <2>6, <3>3, <4>1, TurnKept
    <3> QED BY <3>1, <3>2, <3>3
  <2>8. TypeOK'
    BY <1>1, <1>4, <1>6, <2>2, <2>6 DEF IInv, TypeOK, Turns
  <2> QED BY <1>1, <1>8, <2>7, <2>8, Together
<1> QED BY <1>10, <1>11

LEMMA FinishInv ==
  ASSUME IInv, NEW s \in Sessions, NEW o \in {"done", "failed"}, Finish(s, o)
  PROVE  IInv'
<1>1. turn[s].pc = "think" /\ turn[s].todo = <<>>
  BY DEF Finish, IInv, TurnInv
<1>2. ToSet(turn[s].todo) = {}
  BY <1>1, EmptyTodo DEF ToSet
<1>3. answer \in [Ids -> Says] /\ ran \in [Ids -> 0 .. 2] /\ ran' = ran
  BY DEF IInv, TypeOK, Finish
<1> QED BY <1>1, <1>2, <1>3, EndsInv DEF Finish

LEMMA ClarifyInv ==
  ASSUME IInv, NEW s \in Sessions, Clarify(s)
  PROVE  IInv'
<1> DEFINE c0 == Current(s)
           rows == Say(Say(answer, {c0}, "done"), Rest(s), "skipped")
<1>1. /\ turn[s].pc = "tools" /\ calls[c0].kind = "ask"
      /\ c0 \in Ids /\ c0 \notin Rest(s) /\ Rest(s) \subseteq Ids
      /\ ToSet(turn[s].todo) = {c0} \cup Rest(s)
  BY CallsInHand DEF Clarify, Calls
<1>2. Untouched(c0) /\ \A c \in Rest(s) : Untouched(c)
  BY <1>1, InHandUntouched
<1>3. answer \in [Ids -> Says] /\ ran \in [Ids -> 0 .. 2] /\ {"done", "skipped"} \subseteq Says
  BY DEF IInv, TypeOK, Says
<1>4. /\ ran' \in [Ids -> 0 .. 2] /\ ran'[c0] = 1
      /\ \A c \in Ids : c # c0 => ran'[c] = ran[c]
  <2>1. ran[c0] = 0
    BY <1>2 DEF Untouched
  <2>2. ran' = [ran EXCEPT ![c0] = 1]
    BY <2>1 DEF Clarify
  <2> HIDE DEF c0
  <2> QED BY <1>1, <1>3, <2>2
<1>5. /\ rows \in [Ids -> Says] /\ rows[c0] = "done"
      /\ \A c \in Rest(s) : rows[c] = "skipped"
      /\ \A c \in Ids : c # c0 /\ c \notin Rest(s) => rows[c] = answer[c]
  BY <1>1, <1>3 DEF Say
<1>6. Ends(s, rows, "done") /\ UNCHANGED <<calls, card, executing, sends, deaths>>
  BY DEF Clarify
<1> HIDE DEF rows
<1>7. \A c \in ToSet(turn[s].todo) : Told(c, rows[c], ran'[c])
  <2>1. Told(c0, rows[c0], ran'[c0])
    BY <1>1, <1>4, <1>5 DEF Told
  <2>2. ASSUME NEW c \in Rest(s) PROVE Told(c, rows[c], ran'[c])
    <3>1. ran'[c] = 0
      BY <1>1, <1>2, <1>4 DEF Untouched
    <3> QED BY <1>5, <3>1 DEF Told
  <2> QED BY <1>1, <2>1, <2>2
<1>8. \A c \in Ids \ ToSet(turn[s].todo) : rows[c] = answer[c] /\ ran'[c] = ran[c]
  BY <1>1, <1>4, <1>5
<1> QED BY <1>1, <1>4, <1>5, <1>6, <1>7, <1>8, EndsInv

-----------------------------------------------------------------------------
(* Decisions. *)

\* One call and its card change; its child goes on, or the browser is to.
LEMMA DecidedInv ==
  ASSUME IInv, NEW c \in Ids, card[c] # "none", NEW what \in Says, WritesDecided(c, what),
         ran' \in [Ids -> 0 .. 2], card' \in [Ids -> {"none", "pending", "approved", "rejected"}],
         \A d \in Ids : d # c => ran'[d] = ran[d] /\ card'[d] = card[d],
         executing' \subseteq executing, UNCHANGED <<calls, sends, deaths>>,
         CardInv(c)', RowInv(c)', Continues(c)
  PROVE  IInv'
<1> DEFINE s == calls[c].sess
<1>1. /\ turn \in [Sessions -> Turns] /\ answer \in [Ids -> Says] /\ Ids' = Ids /\ owed \in BOOLEAN
      /\ executing \subseteq Ids /\ lastRow \in {0} \cup Ids
  BY DEF IInv, TypeOK, Turns, Ids
<1>2. s \in Sessions /\ (s # Chat => s \in Ids /\ calls[s].kind = "hand")
  BY IdsAre DEF IInv, CallInv
<1>3. /\ answer' \in [Ids -> Says] /\ lastRow' \in {0} \cup Ids
      /\ \A d \in Ids : d # c => answer'[d] = answer[d]
  BY <1>1 DEF WritesDecided, Say
<1>4. ASSUME NEW d \in Ids PROVE CallOK(d)' /\ (Untouched(d) => Untouched(d)')
  <2>1. CASE d = c
    <3>1. CallInv(c)'
      BY DEF IInv, CallInv, Ids
    <3>2. ~Untouched(c)
      BY DEF Untouched
    <3> QED BY <2>1, <3>1, <3>2 DEF CallOK
  <2>2. CASE d # c
    <3>1. AsWas(d)
      BY <1>3, <2>2 DEF AsWas
    <3> QED BY <3>1, CallKept
  <2> QED BY <2>1, <2>2
<1>5. Started(FALSE) \in Turns
  BY DEF Started, Turns
<1> HIDE DEF s
<1>6. /\ turn' = turn \/ (s # Chat /\ turn' = [turn EXCEPT ![s] = Started(FALSE)])
      /\ owed' \in BOOLEAN
  BY <1>1 DEF Continues, s
<1>7. turn' \in [Sessions -> Turns] /\ \A x \in Sessions : turn'[x] = turn[x] \/ (x # Chat /\ x = s /\ turn'[x] = Started(FALSE))
  BY <1>1, <1>2, <1>5, <1>6
<1>8. TypeOK'
  BY <1>1, <1>3, <1>6, <1>7 DEF IInv, TypeOK, Turns
<1>9. ASSUME NEW x \in Sessions PROVE TurnInv(x)'
  <2>1. CASE turn'[x] = turn[x]
    <3>1. turn'[Chat] = turn[Chat]
      BY <1>7, ChatIsSession
    <3> QED BY <1>4, <2>1, <3>1, TurnKept
  <2>2. CASE x # Chat /\ x = s /\ turn'[x] = Started(FALSE)
    BY <1>1, <1>2, <2>2, StartedTurn
  <2> QED BY <1>7, <2>1, <2>2
<1> QED BY <1>1, <1>4, <1>8, <1>9, Together

LEMMA RejectInv ==
  ASSUME IInv, NEW c \in Ids, Reject(c)
  PROVE  IInv'
<1>1. /\ ran \in [Ids -> 0 .. 2] /\ card \in [Ids -> {"none", "pending", "approved", "rejected"}]
      /\ answer \in [Ids -> Says] /\ CardInv(c) /\ card[c] = "pending" /\ "rejected" \in Says
  BY DEF IInv, TypeOK, Reject, Says
<1>2. /\ card' \in [Ids -> {"none", "pending", "approved", "rejected"}]
      /\ card'[c] = "rejected" /\ \A d \in Ids : d # c => card'[d] = card[d]
  BY <1>1 DEF Reject
<1>3. ran' = ran /\ executing' = executing /\ calls' = calls /\ deaths' = deaths /\ sends' = sends
  BY DEF Reject
<1>4. answer'[c] = "rejected"
  BY <1>1 DEF Reject, WritesDecided, Say
<1>5. ran[c] = 0 /\ calls[c].kind = "risky" /\ c \notin executing
  BY <1>1 DEF CardInv
<1>6. CardInv(c)' /\ RowInv(c)'
  BY <1>2, <1>3, <1>4, <1>5 DEF CardInv, RowInv
<1>7. WritesDecided(c, "rejected") /\ Continues(c)
  BY DEF Reject
<1> QED BY <1>1, <1>2, <1>3, <1>6, <1>7, DecidedInv

LEMMA ExecutedInv ==
  ASSUME IInv, NEW c \in Ids, NEW o \in {"done", "failed"}, Executed(c, o)
  PROVE  IInv'
<1>1. /\ ran \in [Ids -> 0 .. 2] /\ card \in [Ids -> {"none", "pending", "approved", "rejected"}]
      /\ answer \in [Ids -> Says] /\ CardInv(c) /\ c \in executing /\ o \in Says
  BY DEF IInv, TypeOK, Executed, Says
<1>2. ran[c] = 0 /\ card[c] = "approved" /\ calls[c].kind = "risky"
  BY <1>1 DEF CardInv
<1>3. /\ ran' = [ran EXCEPT ![c] = 1] /\ executing' = executing \ {c}
      /\ card' = card /\ calls' = calls /\ deaths' = deaths /\ sends' = sends
  BY <1>2 DEF Executed
<1>4. ran' \in [Ids -> 0 .. 2] /\ ran'[c] = 1 /\ \A d \in Ids : d # c => ran'[d] = ran[d]
  BY <1>1, <1>3
<1>5. answer'[c] = o
  BY <1>1 DEF Executed, WritesDecided, Say
<1>6. CardInv(c)' /\ RowInv(c)'
  BY <1>2, <1>3, <1>4, <1>5 DEF CardInv, RowInv
<1>7. WritesDecided(c, o) /\ Continues(c)
  BY DEF Executed
<1> QED BY <1>1, <1>2, <1>3, <1>4, <1>6, <1>7, DecidedInv

LEMMA ApproveInv ==
  ASSUME IInv, NEW c \in Ids, Approve(c)
  PROVE  IInv'
<1>1. /\ card \in [Ids -> {"none", "pending", "approved", "rejected"}]
      /\ executing \subseteq Ids /\ CardInv(c) /\ RowInv(c) /\ CallInv(c) /\ card[c] = "pending"
  BY DEF IInv, TypeOK, Approve
<1>2. /\ card' \in [Ids -> {"none", "pending", "approved", "rejected"}]
      /\ card'[c] = "approved" /\ \A d \in Ids : d # c => card'[d] = card[d]
      /\ executing' = executing \cup {c}
  BY <1>1 DEF Approve
<1>3. UNCHANGED <<calls, answer, lastRow, ran, turn, owed, sends, deaths>> /\ Ids' = Ids
  BY DEF Approve, Ids
<1>4. TypeOK'
  BY <1>1, <1>2, <1>3 DEF IInv, TypeOK
<1>5. ASSUME NEW d \in Ids PROVE CallOK(d)' /\ (Untouched(d) => Untouched(d)')
  <2>1. CASE d = c
    <3>1. CallInv(c)'
      BY <1>1, <1>3 DEF CallInv
    <3>2. CardInv(c)' /\ RowInv(c)' /\ ~Untouched(c)
      BY <1>1, <1>2, <1>3 DEF CardInv, RowInv, Untouched, Shown
    <3> QED BY <2>1, <3>1, <3>2 DEF CallOK
  <2>2. CASE d # c
    <3>1. AsWas(d)
      BY <1>2, <1>3, <2>2 DEF AsWas
    <3> QED BY <1>3, <3>1, CallKept
  <2> QED BY <2>1, <2>2
<1>6. ASSUME NEW x \in Sessions PROVE TurnInv(x)'
  BY <1>3, <1>5, TurnKept
<1> QED BY <1>3, <1>4, <1>5, <1>6, Together

-----------------------------------------------------------------------------
(* The operator and the process. *)

\* A turn of the chat may begin while none of it is in progress.
LEMMA ChatStarts ==
  ASSUME IInv, IsIdle(Chat), turn' = turn \/ turn' = [turn EXCEPT ![Chat] = Started(FALSE)],
         owed' \in BOOLEAN, sends' \in 0 .. MaxSends,
         UNCHANGED <<calls, answer, lastRow, ran, card, executing, deaths>>
  PROVE  IInv'
<1>1. turn \in [Sessions -> Turns] /\ Ids' = Ids
  BY DEF IInv, TypeOK, Turns, Ids
<1>2. Started(FALSE) \in Turns
  BY DEF Started, Turns
<1>3. /\ turn' \in [Sessions -> Turns]
      /\ \A x \in Sessions : turn'[x] = turn[x] \/ (x = Chat /\ turn'[x] = Started(FALSE))
  BY <1>1, <1>2, ChatIsSession
<1>4. TypeOK'
  BY <1>1, <1>3 DEF IInv, TypeOK, Turns
<1>5. ASSUME NEW d \in Ids PROVE CallOK(d)' /\ (Untouched(d) => Untouched(d)')
  <2>1. AsWas(d)
    BY DEF AsWas
  <2> QED BY <2>1, CallKept
<1>6. ASSUME NEW x \in Sessions PROVE TurnInv(x)'
  <2>1. ~turn[x].live
    BY NoneLive DEF IsIdle
  <2> QED BY <1>3, <1>5, <2>1, TurnKept, StartedTurn
<1> QED BY <1>1, <1>4, <1>5, <1>6, Together

LEMMA SendInv ==
  ASSUME IInv, Send
  PROVE  IInv'
<1>1. sends \in 0 .. MaxSends /\ sends' = sends + 1 /\ sends < MaxSends /\ owed' \in BOOLEAN
  BY DEF IInv, TypeOK, Send
<1>2. sends' \in 0 .. MaxSends
  BY <1>1
<1> QED BY <1>1, <1>2, ChatStarts DEF Send

LEMMA ResumeInv ==
  ASSUME IInv, Resume
  PROVE  IInv'
<1>1. sends' \in 0 .. MaxSends /\ owed' \in BOOLEAN
  BY DEF IInv, TypeOK, Resume
<1> QED BY <1>1, ChatStarts DEF Resume

\* What runs when a turn is cut has not run before.
LEMMA InHandIs ==
  ASSUME IInv, NEW ss \in SUBSET Sessions, NEW c \in InHand(ss)
  PROVE  c \in Ids /\ calls[c].sess \in ss /\ calls[c].kind = "free" /\ Untouched(c)
<1>1. PICK s \in ss : c = Current(s) /\ turn[s].pc = "tools" /\ calls[Current(s)].kind = "free"
  BY DEF InHand
<1> QED BY <1>1, CallsInHand, InHandUntouched

LEMMA RunSomeIs ==
  ASSUME TypeOK, NEW cs \in SUBSET Ids, \A c \in cs : ran[c] = 0, RunSome(cs)
  PROVE  /\ ran' \in [Ids -> 0 .. 2]
         /\ \A c \in Ids : ran'[c] = ran[c] \/ (c \in cs /\ ran'[c] = 1)
<1>1. ran \in [Ids -> 0 .. 2]
  BY DEF TypeOK
<1>2. PICK done \in SUBSET cs : ran' = [c \in Ids |-> IF c \in done THEN ran[c] + 1 ELSE ran[c]]
  BY DEF RunSome
<1>3. \A c \in Ids : ran'[c] = ran[c] \/ (c \in cs /\ ran'[c] = 1)
  BY <1>1, <1>2
<1>4. \A c \in Ids : ran'[c] \in 0 .. 2
  BY <1>1, <1>3
<1>5. ran' = [c \in Ids |-> ran'[c]]
  BY <1>2
<1>6. ran' \in [Ids -> 0 .. 2]
  <2> DEFINE F(c) == ran'[c]
  <2>1. \A c \in Ids : F(c) \in 0 .. 2
    BY <1>4
  <2>2. ran' = [c \in Ids |-> F(c)]
    BY <1>5
  <2> HIDE DEF F
  <2> QED BY <2>1, <2>2
<1> QED BY <1>3, <1>6

LEMMA StopInv ==
  ASSUME IInv, Stop
  PROVE  IInv'
<1> DEFINE cut == {Chat} \cup {s \in Sessions : ~IsIdle(s) /\ turn[s].live}
<1>1. /\ turn' = [s \in Sessions |-> IF s \in cut THEN Idle ELSE turn[s]]
      /\ RunSome(InHand(cut))
      /\ UNCHANGED <<calls, answer, lastRow, card, executing, owed, sends, deaths>>
  BY DEF Stop
<1>2. cut \subseteq Sessions /\ Chat \in cut
  BY ChatIsSession
<1>3. ASSUME NEW s \in Sessions, s \notin cut PROVE ~turn[s].live
  BY <1>3, LiveIsCurrent DEF IsIdle
<1> HIDE DEF cut
<1>4. turn \in [Sessions -> Turns] /\ Ids' = Ids
  BY <1>1 DEF IInv, TypeOK, Turns, Ids
<1>5. turn' \in [Sessions -> Turns]
  <2>1. Idle \in Turns
    BY DEF Idle, Turns
  <2> QED BY <1>1, <1>4, <2>1
<1>6. \A c \in InHand(cut) : c \in Ids /\ calls[c].sess \in cut /\ calls[c].kind = "free" /\ Untouched(c)
  BY <1>2, InHandIs
<1>7. /\ ran' \in [Ids -> 0 .. 2]
      /\ \A c \in Ids : ran'[c] = ran[c] \/ (c \in InHand(cut) /\ ran'[c] = 1)
  <2>1. \A c \in InHand(cut) : ran[c] = 0
    BY <1>6 DEF Untouched
  <2>2. InHand(cut) \subseteq Ids /\ TypeOK
    BY <1>6 DEF IInv
  <2> HIDE DEF InHand
  <2> QED BY <1>1, <2>1, <2>2, RunSomeIs
<1>8. TypeOK'
  BY <1>1, <1>4, <1>5, <1>7 DEF IInv, TypeOK, Turns
<1>9. ASSUME NEW c \in Ids, ran'[c] = ran[c] PROVE CallOK(c)' /\ (Untouched(c) => Untouched(c)')
  <2>1. AsWas(c)
    BY <1>1, <1>9 DEF AsWas
  <2> QED BY <1>1, <2>1, CallKept
<1>10. ASSUME NEW c \in Ids PROVE CallOK(c)'
  <2>1. CASE c \in InHand(cut) /\ ran'[c] = 1
    <3>1. Untouched(c) /\ Told(c, answer'[c], ran'[c])
      BY <1>1, <1>6, <2>1 DEF Untouched, Told
    <3> QED BY <1>1, <3>1, ToldCall
  <2> QED BY <1>7, <1>9, <2>1
<1>11. ASSUME NEW s \in Sessions PROVE TurnInv(s)'
  <2>1. CASE s \in cut
    <3>1. turn'[s] = Idle
      BY <1>1, <2>1
    <3> QED BY <3>1, IdleTurn
  <2>2. CASE s \notin cut
    <3>1. turn'[s] = turn[s] /\ ~turn[s].live
      BY <1>1, <1>3, <2>2
    <3>2. ASSUME NEW c \in Ids, calls[c].sess = s, Untouched(c) PROVE Untouched(c)'
      <4>1. ran'[c] = ran[c]
        BY <1>6, <1>7, <2>2, <3>2
      <4> QED BY <1>9, <3>2, <4>1
    <3> QED BY <1>1, <3>1, <3>2, TurnKept
  <2> QED BY <2>1, <2>2
<1> QED BY <1>4, <1>8, <1>10, <1>11, Together

LEMMA DieInv ==
  ASSUME IInv, Die
  PROVE  IInv'
<1>1. /\ deaths < MaxDeaths /\ deaths' = deaths + 1
      /\ turn' = [s \in Sessions |-> Idle] /\ executing' = {}
      /\ UNCHANGED <<calls, answer, lastRow, card, owed, sends>> /\ Ids' = Ids
  BY DEF Die, Ids
<1>2. deaths \in Nat /\ deaths' \in 0 .. MaxDeaths /\ deaths' > 0 /\ executing \subseteq Ids
  BY <1>1 DEF IInv, TypeOK
<1>3. turn' \in [Sessions -> Turns]
  <2>1. Idle \in Turns
    BY DEF Idle, Turns
  <2> QED BY <1>1, <2>1
<1>4. \A c \in InHand(Sessions) : c \in Ids /\ calls[c].kind = "free" /\ Untouched(c)
  BY InHandIs
<1>5. \A c \in executing : calls[c].kind = "risky" /\ card[c] = "approved" /\ ran[c] = 0 /\ answer[c] \in {"parked", "none"}
  <2>1. \A c \in executing : CardInv(c)
    BY <1>2 DEF IInv
  <2> QED BY <2>1 DEF CardInv, Shown
<1> DEFINE cs == InHand(Sessions) \cup executing
<1>6. /\ ran' \in [Ids -> 0 .. 2]
      /\ \A c \in Ids : ran'[c] = ran[c] \/ (c \in cs /\ ran'[c] = 1)
  <2>1. \A c \in cs : ran[c] = 0
    BY <1>4, <1>5 DEF Untouched
  <2>2. cs \subseteq Ids /\ TypeOK
    BY <1>2, <1>4 DEF IInv
  <2>3. RunSome(cs)
    BY DEF Die
  <2> HIDE DEF cs
  <2> QED BY <2>1, <2>2, <2>3, RunSomeIs
<1>7. TypeOK'
  BY <1>1, <1>2, <1>3, <1>6 DEF IInv, TypeOK, Turns
<1>8. ASSUME NEW c \in Ids PROVE CallOK(c)'
  <2>1. CallInv(c) /\ CardInv(c) /\ RowInv(c)
    BY DEF IInv
  <2>2. CallInv(c)'
    BY <1>1, <2>1 DEF CallInv
  <2>3. CASE ran'[c] = ran[c]
    BY <1>1, <1>2, <2>1, <2>2, <2>3 DEF CallOK, CardInv, RowInv, Shown
  <2>4. CASE c \in InHand(Sessions) /\ ran'[c] = 1
    <3>1. Untouched(c) /\ calls[c].kind = "free"
      BY <1>4, <2>4
    <3>2. answer[c] = "none" /\ card[c] = "none"
      BY <3>1 DEF Untouched
    <3> QED BY <1>1, <2>2, <2>4, <3>1, <3>2 DEF CallOK, CardInv, RowInv
  <2>5. CASE c \in executing /\ ran'[c] = 1
    BY <1>1, <1>2, <1>5, <2>2, <2>5 DEF CallOK, CardInv, RowInv
  <2> QED BY <1>6, <2>3, <2>4, <2>5
<1>9. ASSUME NEW s \in Sessions PROVE TurnInv(s)'
  BY <1>1, IdleTurn
<1> QED BY <1>1, <1>7, <1>8, <1>9, Together

LEMMA HandOffInv ==
  ASSUME IInv, NEW s \in Sessions, HandOff(s)
  PROVE  IInv'
<1> DEFINE c0 == Current(s)
<1>1. /\ turn[s].pc = "tools" /\ turn[s] \in Turns /\ turn[s].todo # <<>>
      /\ c0 \in Ids /\ c0 \notin Rest(s) /\ Rest(s) \subseteq Ids
      /\ calls[c0].kind = "hand" /\ calls[c0].sess = s /\ \A c \in Rest(s) : calls[c].sess = s
  BY CallsInHand DEF HandOff, Calls
<1>2. s = Chat /\ c0 \in Sessions \ {Chat}
  BY <1>1, IdsAre DEF IInv, CallInv
<1>3. Untouched(c0) /\ \A c \in Rest(s) : Untouched(c)
  BY <1>1, InHandUntouched
<1>4. turn \in [Sessions -> Turns] /\ ran \in [Ids -> 0 .. 2] /\ Ids' = Ids
  BY DEF IInv, TypeOK, Turns, HandOff, Ids
<1>5. \A x \in Sessions : ~turn[x].live
  BY <1>1, <1>2, NoneLive
<1>6. UNCHANGED <<calls, answer, lastRow, card, executing, owed, sends, deaths>>
  BY DEF HandOff
<1>7. ran' \in [Ids -> 0 .. 2] /\ ran'[c0] = 1 /\ \A c \in Ids : c # c0 => ran'[c] = ran[c]
  <2>1. ran[c0] = 0
    BY <1>3 DEF Untouched
  <2>2. ran' = [ran EXCEPT ![c0] = 1]
    BY <2>1 DEF HandOff
  <2> HIDE DEF c0
  <2> QED BY <1>1, <1>4, <2>2
<1> DEFINE waits == [turn[s] EXCEPT !.pc = "wait"]
<1>8. waits \in Turns /\ waits.pc = "wait" /\ waits.todo = turn[s].todo /\ ~waits.live
  BY <1>1, <1>2, <1>5, ChatIsSession DEF Turns
<1>9. Started(TRUE) \in Turns /\ Started(TRUE).pc = "think" /\ Started(TRUE).todo = <<>> /\ Started(TRUE).live
  BY DEF Started, Turns
<1>10. turn' = [turn EXCEPT ![s].pc = "wait", ![c0] = Started(TRUE)]
  BY DEF HandOff
<1>11. turn' = [x \in Sessions |-> IF x = c0 THEN Started(TRUE) ELSE IF x = s THEN waits ELSE turn[x]]
  <2> HIDE DEF c0
  <2> QED BY <1>2, <1>4, <1>10
<1> HIDE DEF waits
<1>12. /\ turn' \in [Sessions -> Turns] /\ turn'[c0] = Started(TRUE) /\ turn'[s] = waits
       /\ \A x \in Sessions : x # c0 /\ x # s => turn'[x] = turn[x]
  <2> HIDE DEF c0
  <2> QED BY <1>2, <1>4, <1>8, <1>9, <1>11, ChatIsSession
<1>13. TypeOK'
  BY <1>4, <1>6, <1>7, <1>12 DEF IInv, TypeOK, Turns
<1>14. ASSUME NEW c \in Ids PROVE CallOK(c)' /\ (c # c0 /\ Untouched(c) => Untouched(c)')
  <2>1. CASE c # c0
    <3>1. AsWas(c)
      BY <1>6, <1>7, <2>1 DEF AsWas
    <3> QED BY <1>6, <3>1, CallKept
  <2>2. CASE c = c0
    <3>1. Told(c, answer'[c], ran'[c])
      BY <1>1, <1>3, <1>6, <1>7, <2>2 DEF Told, Untouched
    <3> QED BY <1>3, <1>6, <2>2, <3>1, ToldCall
  <2> QED BY <2>1, <2>2
<1>15. ASSUME NEW x \in Sessions PROVE TurnInv(x)'
  <2>1. CASE x = s
    <3>1. \A c \in Rest(s) : Untouched(c)'
      BY <1>1, <1>3, <1>14
    <3>2. TodoOf(s)'
      BY <1>6, <1>8, <1>12 DEF IInv, TurnInv, TodoOf
    <3> QED BY <1>1, <1>2, <1>6, <1>8, <1>12, <2>1, <3>1, <3>2 DEF TurnInv, Current, Rest
  <2>2. CASE x = c0
    <3>1. TodoOf(x)'
      BY <1>9, <1>12, <2>2, EmptyTodo DEF TodoOf
    <3>2. Parent(x)' = s /\ Current(s)' = c0
      BY <1>1, <1>6, <1>8, <1>12, <2>2 DEF Parent, Current
    <3> QED BY <1>1, <1>2, <1>4, <1>6, <1>8, <1>9, <1>12, <2>2, <3>1, <3>2 DEF TurnInv
  <2>3. CASE x # s /\ x # c0
    <3>1. turn'[x] = turn[x] /\ ~turn[x].live
      BY <1>5, <1>12, <2>3
    <3>2. \A c \in Ids : calls[c].sess = x => c # c0
      BY <1>1, <2>3
    <3> QED BY <1>6, <1>14, <3>1, <3>2, TurnKept
  <2> QED BY <2>1, <2>2, <2>3
<1> QED BY <1>4, <1>13, <1>14, <1>15, Together

LEMMA InitInv ==
  ASSUME Init
  PROVE  IInv
<1>1. Ids = {} /\ calls = <<>> /\ Len(calls) = 0
  BY EmptyTodo DEF Init, Ids
<1>2. calls \in Seq([sess : Sessions, batch : 1 .. MaxCalls, kind : Kinds])
  BY <1>1
<1>3. answer \in [Ids -> Says] /\ ran \in [Ids -> 0 .. 2]
      /\ card \in [Ids -> {"none", "pending", "approved", "rejected"}]
  BY <1>1 DEF Init
<1>4. turn \in [Sessions -> Turns]
  <2>1. Idle \in Turns
    BY DEF Idle, Turns
  <2> QED BY <2>1 DEF Init
<1>5. TypeOK
  <2>1. /\ Len(calls) <= MaxCalls /\ lastRow \in {0} \cup Ids /\ executing \subseteq Ids
        /\ owed \in BOOLEAN /\ sends \in 0 .. MaxSends /\ deaths \in 0 .. MaxDeaths
    <3>1. Len(calls) <= MaxCalls
      BY <1>1
    <3>2. 0 \in 0 .. MaxSends /\ 0 \in 0 .. MaxDeaths
      OBVIOUS
    <3> QED BY <3>1, <3>2 DEF Init
  <2> QED BY <1>2, <1>3, <1>4, <2>1 DEF TypeOK, Turns
<1>6. ASSUME NEW s \in Sessions PROVE TurnInv(s)
  <2>1. turn[s].pc = "idle" /\ turn[s].todo = <<>> /\ ~turn[s].live
    BY DEF Init, Idle
  <2>2. TodoOf(s)
    BY <2>1, EmptyTodo DEF TodoOf
  <2> QED BY <2>1, <2>2 DEF TurnInv
<1> QED BY <1>1, <1>5, <1>6 DEF IInv

\* The turns that end when a call of s is parked.
Parking(s) == IF s # Chat /\ turn[s].live THEN {s, Chat} ELSE {s}

\* A call of s is parked: the calls D get their rows with it.
Parked(s, rows, D) ==
  /\ rows \in [Ids -> Says] /\ rows[Current(s)] = "parked"
  /\ D \in SUBSET Ids /\ Current(s) \notin D
  /\ \A c \in D : /\ Untouched(c) /\ rows[c] \in {"deferred", "child"}
                  /\ calls[c].sess \in Parking(s) /\ c \notin InHand(Sessions)
  /\ \A c \in Ids \ ({Current(s)} \cup D) :
        rows[c] = answer[c] \/ (calls[c].kind = "hand" /\ rows[c] = "child")
  /\ Parking(s) \in SUBSET Sessions /\ s \in Parking(s)
  /\ \A x \in Sessions \ Parking(s) : turn[x].live => Chat \notin Parking(s)

\* The rows a park leaves.
LEMMA RowsOfPark ==
  ASSUME IInv, NEW s \in Sessions, Calls(s, "risky")
  PROVE  \E D \in SUBSET Ids : Parked(s, ParkedRows(s), D)
<1> DEFINE c0 == Current(s)
<1>1. /\ turn[s].pc = "tools" /\ c0 \in Ids /\ calls[c0].kind = "risky" /\ calls[c0].sess = s
      /\ c0 \notin Rest(s) /\ Rest(s) \subseteq Ids
      /\ \A c \in Rest(s) : calls[c].sess = s /\ Untouched(c)
  BY CallsInHand, InHandUntouched DEF Calls
<1>2. turn \in [Sessions -> Turns] /\ answer \in [Ids -> Says] /\ {"parked", "deferred", "child"} \subseteq Says
  BY DEF IInv, TypeOK, Turns, Says
<1>3. s # Chat => s \in Ids /\ calls[s].kind = "hand"
  BY <1>1 DEF IInv, TurnInv
<1> DEFINE parked == ParkRows(s, "parked")
<1>5. /\ parked \in [Ids -> Says] /\ parked[c0] = "parked" /\ \A c \in Rest(s) : parked[c] = "deferred"
      /\ \A c \in Ids \ ({c0} \cup Rest(s)) : parked[c] = answer[c]
  BY <1>1, <1>2 DEF ParkRows, Say
<1>6. ASSUME NEW x \in Sessions, x = s \/ turn[x].pc = "wait" PROVE \A c \in Rest(x) : c \notin InHand(Sessions)
  <2>1. ASSUME NEW c \in Rest(x), c \in InHand(Sessions) PROVE FALSE
    <3>1. PICK y \in Sessions : c = Current(y) /\ turn[y].pc = "tools"
      BY <2>1 DEF InHand
    <3>2. calls[c].sess = x /\ calls[c].sess = y /\ c \notin {Current(x)}
      BY <1>1, <1>6, <2>1, <3>1, CallsInHand
    <3> QED BY <3>1, <3>2
  <2> QED BY <2>1
<1> HIDE DEF parked
<1>7. CASE s # Chat /\ turn[s].live
  <2>1. /\ Parent(s) = Chat /\ turn[Chat].pc = "wait" /\ Current(Chat) = s
    BY <1>7, LiveIsCurrent
  <2>2. /\ Rest(Chat) \subseteq Ids /\ \A c \in Rest(Chat) : calls[c].sess = Chat /\ Untouched(c)
    BY <2>1, CallsInHand, InHandUntouched, ChatIsSession
  <2> DEFINE rows == [c \in Ids |-> IF c = s THEN "child"
                         ELSE IF c \in Rest(Chat) THEN "deferred" ELSE parked[c]]
             D == (Rest(s) \cup Rest(Chat))
  <2>3. rows = ParkedRows(s) /\ Parking(s) = {s, Chat}
    BY <1>7, <2>1 DEF ParkedRows, parked, Parking
  <2>5. c0 # s /\ c0 \notin D
    BY <1>1, <1>3, <1>7, <2>2
  <2>6. rows \in [Ids -> Says] /\ rows[c0] = "parked"
    BY <1>1, <1>2, <1>5, <2>5
  <2>7. \A c \in D : Untouched(c) /\ rows[c] \in {"deferred", "child"} /\ calls[c].sess \in Parking(s)
    BY <1>1, <1>5, <2>2, <2>3
  <2>8. \A c \in Ids \ ({c0} \cup D) : rows[c] = answer[c] \/ (calls[c].kind = "hand" /\ rows[c] = "child")
    BY <1>3, <1>5, <1>7
  <2>9. D \in SUBSET Ids /\ Parking(s) \in SUBSET Sessions /\ s \in Parking(s)
    BY <1>1, <2>2, <2>3, ChatIsSession
  <2>10. \A x \in Sessions \ Parking(s) : turn[x].live => Chat \notin Parking(s)
    BY <2>1, <2>3, LiveIsCurrent
  <2>11. \A c \in D : c \notin InHand(Sessions)
    BY <1>6, <2>1, ChatIsSession
  <2> HIDE DEF rows, D
  <2>12. Parked(s, rows, D)
    BY <2>5, <2>6, <2>7, <2>8, <2>9, <2>10, <2>11 DEF Parked
  <2> QED BY <2>3, <2>9, <2>12
<1>8. CASE ~(s # Chat /\ turn[s].live)
  <2> DEFINE rows == IF s = Chat THEN parked ELSE TellParent(parked, s, "child")
             D == Rest(s)
  <2>1. rows = ParkedRows(s) /\ Parking(s) = {s}
    BY <1>8 DEF ParkedRows, parked, Parking
  <2>3. /\ rows \in [Ids -> Says]
        /\ \A c \in Ids : rows[c] = parked[c] \/ (calls[c].kind = "hand" /\ rows[c] = "child")
    BY <1>3, <1>5, ToldRows
  <2>4. rows[c0] = "parked"
    BY <1>1, <1>5, <2>3
  <2>5. \A c \in D : Untouched(c) /\ rows[c] \in {"deferred", "child"} /\ calls[c].sess \in Parking(s)
    BY <1>1, <1>5, <2>1, <2>3
  <2>6. \A c \in Ids \ ({c0} \cup D) : rows[c] = answer[c] \/ (calls[c].kind = "hand" /\ rows[c] = "child")
    BY <1>5, <2>3
  <2>7. \A x \in Sessions \ Parking(s) : turn[x].live => Chat \notin Parking(s)
    BY <1>1, <2>1, LiveIsCurrent
  <2>8. Parking(s) \in SUBSET Sessions /\ s \in Parking(s) /\ D \in SUBSET Ids /\ c0 \notin D
    BY <1>1, <2>1
  <2>9. \A c \in D : c \notin InHand(Sessions)
    BY <1>6
  <2> HIDE DEF rows, D
  <2>10. Parked(s, rows, D)
    BY <2>3, <2>4, <2>5, <2>6, <2>7, <2>8, <2>9 DEF Parked
  <2> QED BY <2>1, <2>8, <2>10
<1> QED BY <1>7, <1>8

LEMMA ParkInv ==
  ASSUME IInv, NEW s \in Sessions, Park(s)
  PROVE  IInv'
<1> DEFINE c0 == Current(s)
           rows == ParkedRows(s)
           S == Parking(s)
<1>1. PICK D \in SUBSET Ids : Parked(s, rows, D)
  BY RowsOfPark DEF Park
<1>2. /\ Calls(s, "risky") /\ card' = [card EXCEPT ![c0] = "pending"] /\ Writes(rows)
       /\ UNCHANGED <<calls, ran, executing, owed, sends, deaths>>
  BY DEF Park
<1>3. turn \in [Sessions -> Turns]
  BY DEF IInv, TypeOK, Turns
<1>4. s # Chat /\ turn[s].live => Parent(s) = Chat
  BY LiveIsCurrent
<1>5. turn' = [x \in Sessions |-> IF x \in S THEN Idle ELSE turn[x]]
  BY <1>3, <1>4 DEF Park, Parking
<1> HIDE DEF rows
<1> USE <1>1, <1>2, <1>5 DEF Parked
<1>6. /\ turn[s].pc = "tools" /\ c0 \in Ids /\ calls[c0].kind = "risky" /\ calls[c0].sess = s /\ Untouched(c0)
  BY CallsInHand, InHandUntouched DEF Calls
<1>7. /\ turn \in [Sessions -> Turns] /\ Ids' = Ids
      /\ card \in [Ids -> {"none", "pending", "approved", "rejected"}]
  BY DEF IInv, TypeOK, Turns, Ids
<1>8. /\ card' \in [Ids -> {"none", "pending", "approved", "rejected"}]
      /\ card'[c0] = "pending" /\ \A c \in Ids : c # c0 => card'[c] = card[c]
  <2>1. card' = [card EXCEPT ![c0] = "pending"]
    OBVIOUS
  <2> HIDE DEF c0
  <2> QED BY <1>6, <1>7, <2>1
<1>9. answer' = rows /\ lastRow' \in {0} \cup Ids'
  BY WritesType DEF IInv
<1>10. turn' \in [Sessions -> Turns]
  <2>1. Idle \in Turns
    BY DEF Idle, Turns
  <2> QED BY <1>7, <2>1
<1>11. TypeOK'
  BY <1>7, <1>8, <1>9, <1>10 DEF IInv, TypeOK, Turns
<1>12. ASSUME NEW c \in Ids, c # c0, c \notin D PROVE AsWas(c)
  <2>1. card'[c] = card[c]
    BY <1>8, <1>12
  <2> QED BY <1>9, <1>12, <2>1 DEF AsWas
<1>13. ASSUME NEW c \in Ids PROVE CallOK(c)'
  <2>1. CallInv(c)'
    BY <1>7 DEF IInv, CallInv
  <2>2. CASE c = c0
    <3>1. ran'[c] = 0 /\ card'[c] = "pending" /\ answer'[c] = "parked" /\ card[c] = "none"
      BY <1>6, <1>8, <1>9, <2>2 DEF Untouched
    <3>2. c \notin executing
      BY <3>1 DEF IInv, CardInv
    <3>3. calls'[c].kind = "risky" /\ c \notin executing'
      BY <1>6, <2>2, <3>2
    <3> QED BY <2>1, <3>1, <3>3 DEF CallOK, CardInv, RowInv, Shown
  <2>3. CASE c \in D
    <3>1. /\ ran'[c] = 0 /\ card'[c] = "none" /\ card[c] = "none" /\ answer'[c] \in {"deferred", "child"}
      BY <1>8, <1>9, <2>3 DEF Untouched
    <3>2. c \notin executing'
      BY <3>1 DEF IInv, CardInv
    <3> QED BY <2>1, <3>1, <3>2 DEF CallOK, CardInv, RowInv
  <2>4. CASE c # c0 /\ c \notin D
    <3>1. AsWas(c)
      BY <1>12, <2>4
    <3> QED BY <3>1, CallKept
  <2> QED BY <2>2, <2>3, <2>4
<1>14. ASSUME NEW x \in Sessions PROVE TurnInv(x)'
  <2>1. CASE x \in S
    <3>1. turn'[x] = Idle
      BY <2>1
    <3> QED BY <3>1, IdleTurn
  <2>2. CASE x \notin S
    <3>1. turn'[x] = turn[x] /\ (turn[x].live => turn'[Chat] = turn[Chat])
      BY <2>2, ChatIsSession
    <3>2. ASSUME NEW c \in Ids, calls[c].sess = x, Untouched(c) PROVE Untouched(c)'
      <4>1. c # c0 /\ c \notin D
        BY <1>6, <2>2, <3>2
      <4>2. AsWas(c)
        BY <1>12, <4>1
      <4> QED BY <3>2, <4>2, CallKept
    <3> QED BY <3>1, <3>2, TurnKept
  <2> QED BY <2>1, <2>2
<1> QED BY <1>7, <1>11, <1>13, <1>14, Together

\* The rows of a park that a death cut short are new or as they were.
LEMMA DieParkingInv ==
  ASSUME IInv, NEW s \in Sessions, DieParking(s)
  PROVE  IInv'
<1> DEFINE c0 == Current(s)
           rows == ParkedRows(s)
           cs == InHand(Sessions) \cup executing
<1>1. /\ deaths < MaxDeaths /\ deaths' = deaths + 1 /\ card' = [card EXCEPT ![c0] = "pending"]
      /\ turn' = [x \in Sessions |-> Idle] /\ executing' = {} /\ RunSome(cs)
      /\ UNCHANGED <<calls, owed, sends>> /\ Ids' = Ids /\ Calls(s, "risky")
  BY DEF DieParking, Ids
<1>2. PICK D \in SUBSET Ids : Parked(s, rows, D)
  BY <1>1, RowsOfPark
<1>3. /\ deaths \in Nat /\ deaths' \in 0 .. MaxDeaths /\ deaths' > 0 /\ executing \subseteq Ids
      /\ answer \in [Ids -> Says] /\ card \in [Ids -> {"none", "pending", "approved", "rejected"}]
  BY <1>1 DEF IInv, TypeOK
<1>4. PICK k \in 0 .. Len(ParkOrder(s)) :
        Writes([c \in Ids |-> IF c \in ToSet(SubSeq(ParkOrder(s), 1, k)) THEN rows[c] ELSE answer[c]])
  BY DEF DieParking
<1> DEFINE cut == [c \in Ids |-> IF c \in ToSet(SubSeq(ParkOrder(s), 1, k)) THEN rows[c] ELSE answer[c]]
<1>5. rows \in [Ids -> Says]
  BY <1>2 DEF Parked
<1> HIDE DEF rows, c0, cs
<1>6. cut \in [Ids -> Says] /\ \A c \in Ids : cut[c] \in {rows[c], answer[c]}
  BY <1>3, <1>5
<1> HIDE DEF cut
<1>7. answer' = cut /\ lastRow' \in {0} \cup Ids'
  BY <1>1, <1>4, <1>6, WritesType DEF IInv, cut
<1>8. turn' \in [Sessions -> Turns]
  <2>1. Idle \in Turns
    BY DEF Idle, Turns
  <2> QED BY <1>1, <2>1
<1>9. c0 \in Ids /\ calls[c0].kind = "risky" /\ Untouched(c0)
  BY <1>1, CallsInHand, InHandUntouched DEF Calls, c0
<1>10. \A c \in InHand(Sessions) : c \in Ids /\ calls[c].kind = "free" /\ Untouched(c)
  BY InHandIs
<1>11. \A c \in executing : calls[c].kind = "risky" /\ card[c] = "approved" /\ ran[c] = 0 /\ answer[c] \in {"parked", "none"}
  <2>1. \A c \in executing : CardInv(c)
    BY <1>3 DEF IInv
  <2> QED BY <2>1 DEF CardInv, Shown
<1>12. /\ ran' \in [Ids -> 0 .. 2]
       /\ \A c \in Ids : ran'[c] = ran[c] \/ (c \in cs /\ ran'[c] = 1)
  <2>1. \A c \in cs : ran[c] = 0
    BY <1>10, <1>11 DEF Untouched, cs
  <2>2. cs \subseteq Ids /\ TypeOK
    BY <1>3, <1>10 DEF IInv, cs
  <2> QED BY <1>1, <2>1, <2>2, RunSomeIs
<1>13. /\ card' \in [Ids -> {"none", "pending", "approved", "rejected"}]
       /\ card'[c0] = "pending" /\ \A c \in Ids : c # c0 => card'[c] = card[c]
  BY <1>1, <1>3, <1>9
<1>14. TypeOK'
  BY <1>1, <1>3, <1>6, <1>7, <1>8, <1>12, <1>13 DEF IInv, TypeOK, Turns
<1>15. ASSUME NEW c \in Ids PROVE CallOK(c)'
  <2>1. CallInv(c)' /\ CardInv(c) /\ RowInv(c)
    BY <1>1 DEF IInv, CallInv
  <2>2. c \notin executing'
    BY <1>1
  <2>3. CASE c = c0
    <3>1. ran[c] = 0 /\ card[c] = "none" /\ answer[c] = "none"
      BY <1>9, <2>3 DEF Untouched
    <3>2. c \notin cs
      BY <1>9, <1>10, <1>11, <2>3, <3>1 DEF cs
    <3>3. ran'[c] = 0 /\ card'[c] = "pending" /\ answer'[c] \in {"parked", "none"}
      <4>1. rows[c] = "parked"
        BY <1>2, <2>3 DEF Parked, c0
      <4> QED BY <1>6, <1>7, <1>12, <1>13, <2>3, <3>1, <3>2, <4>1
    <3>4. calls'[c].kind = "risky"
      BY <1>1, <1>9, <2>3
    <3> QED BY <1>3, <2>1, <2>2, <3>3, <3>4 DEF CallOK, CardInv, RowInv, Shown
  <2>4. CASE c \in D
    <3>1. c # c0 /\ Untouched(c) /\ rows[c] \in {"deferred", "child"} /\ c \notin InHand(Sessions)
      BY <1>2, <2>4 DEF Parked, c0
    <3>2. c \notin cs
      BY <1>11, <3>1 DEF cs, Untouched
    <3>3. ran'[c] = 0 /\ card'[c] = "none" /\ (answer'[c] = answer[c] \/ answer'[c] \in {"deferred", "child"})
      BY <1>6, <1>7, <1>12, <1>13, <3>1, <3>2 DEF Untouched
    <3>4. answer[c] = "none" \/ (calls[c].kind = "hand" /\ answer[c] \in {"done", "failed", "child"})
      BY <3>1 DEF Untouched
    <3> QED BY <1>1, <2>1, <2>2, <3>3, <3>4 DEF CallOK, CardInv, RowInv
  <2>5. CASE c # c0 /\ c \notin D
    <3>1. answer'[c] = answer[c] \/ (calls[c].kind = "hand" /\ answer'[c] = "child")
      <4>1. rows[c] = answer[c] \/ (calls[c].kind = "hand" /\ rows[c] = "child")
        BY <1>2, <2>5 DEF Parked, c0
      <4> QED BY <1>6, <1>7, <4>1
    <3>2. card'[c] = card[c]
      BY <1>13, <2>5
    <3>3. CASE ran'[c] = ran[c]
      <4>1. AsWas(c)
        BY <2>2, <3>1, <3>2, <3>3 DEF AsWas
      <4> QED BY <1>1, <4>1, CallKept
    <3>4. CASE c \in InHand(Sessions) /\ ran'[c] = 1
      <4>1. calls[c].kind = "free" /\ answer[c] = "none" /\ card[c] = "none"
        BY <1>10, <3>4 DEF Untouched
      <4> QED BY <1>1, <2>1, <2>2, <3>1, <3>2, <3>4, <4>1 DEF CallOK, CardInv, RowInv
    <3>5. CASE c \in executing /\ ran'[c] = 1
      <4>1. calls[c].kind = "risky" /\ card[c] = "approved" /\ answer[c] \in {"parked", "none"}
        BY <1>11, <3>5
      <4> QED BY <1>1, <1>3, <2>1, <2>2, <3>1, <3>2, <3>5, <4>1 DEF CallOK, CardInv, RowInv
    <3> QED BY <1>12, <3>3, <3>4, <3>5 DEF cs
  <2> QED BY <2>3, <2>4, <2>5
<1>16. ASSUME NEW x \in Sessions PROVE TurnInv(x)'
  BY <1>1, IdleTurn
<1> QED BY <1>1, <1>14, <1>15, <1>16, Together

-----------------------------------------------------------------------------
(* The model answers with a batch. *)

\* h is f, then g.
Extends(h, S, n, m, f, g) ==
  /\ h \in [1 .. (n + m) -> S]
  /\ \A c \in 1 .. n : h[c] = f[c]
  /\ \A c \in (n + 1) .. (n + m) : c - n \in 1 .. m /\ h[c] = g[c - n]

LEMMA Extended ==
  ASSUME NEW S, NEW n \in Nat, NEW m \in Nat, NEW f \in [1 .. n -> S], NEW g \in [1 .. m -> S],
         NEW h, h = f \o g
  PROVE  Extends(h, S, n, m, f, g)
<1>1. f \in Seq(S) /\ g \in Seq(S) /\ Len(f) = n /\ Len(g) = m
  <2>1. f \in Seq(S) /\ g \in Seq(S)
    BY SeqDef
  <2> QED BY <2>1
<1>2. f \o g \in Seq(S) /\ Len(f \o g) = n + m
  BY <1>1, ConcatProperties
<1>3. f \o g \in [1 .. (n + m) -> S]
  BY <1>2, LenProperties
<1>4. \A c \in 1 .. (n + m) : (f \o g)[c] = IF c <= n THEN f[c] ELSE g[c - n]
  BY <1>1, ConcatProperties
<1>5. ASSUME NEW c \in 1 .. n PROVE (f \o g)[c] = f[c]
  BY <1>4
<1>6. ASSUME NEW c \in (n + 1) .. (n + m) PROVE c - n \in 1 .. m /\ (f \o g)[c] = g[c - n]
  BY <1>4
<1> QED BY <1>3, <1>5, <1>6 DEF Extends

\* The new calls, and the calls there were.
LEMMA ThinkGrows ==
  ASSUME TypeOK, NEW s \in Sessions, NEW batch \in Batches, Think(s, batch)
  PROVE  LET n == Len(calls)
             m == Len(batch)
         IN /\ n \in Nat /\ m \in Nat \ {0} /\ n + m <= MaxCalls /\ Ids = 1 .. n /\ Ids' = 1 .. (n + m)
            /\ calls' \in Seq([sess : Sessions, batch : 1 .. MaxCalls, kind : Kinds]) /\ Len(calls') = n + m
            /\ answer' \in [Ids' -> Says] /\ ran' \in [Ids' -> 0 .. 2]
            /\ card' \in [Ids' -> {"none", "pending", "approved", "rejected"}]
            /\ \A c \in Ids : /\ calls'[c] = calls[c] /\ answer'[c] = answer[c]
                              /\ ran'[c] = ran[c] /\ card'[c] = card[c]
            /\ \A c \in (n + 1) .. (n + m) :
                 /\ calls'[c].sess = s /\ (s # Chat => calls'[c].kind # "hand")
                 /\ answer'[c] = "none" /\ ran'[c] = 0 /\ card'[c] = "none"
<1> DEFINE n == Len(calls)
           m == Len(batch)
           Call == [sess : Sessions, batch : 1 .. MaxCalls, kind : Kinds]
           Cards == {"none", "pending", "approved", "rejected"}
           more == [i \in 1 .. m |-> [sess |-> s, batch |-> n + 1, kind |-> batch[i]]]
<1>1. /\ n \in Nat /\ Ids = 1 .. n /\ calls \in [1 .. n -> Call]
      /\ answer \in [1 .. n -> Says] /\ ran \in [1 .. n -> 0 .. 2] /\ card \in [1 .. n -> Cards]
  <2>1. calls \in Seq(Call)
    BY DEF TypeOK
  <2> HIDE DEF Call
  <2>2. n \in Nat /\ Ids = 1 .. n /\ calls \in [1 .. n -> Call]
    BY <2>1, LenProperties DEF Ids
  <2> QED BY <2>2 DEF TypeOK
<1>2. batch \in Seq(Kinds) /\ batch # <<>>
  OBVIOUS
<1>3. m \in Nat \ {0} /\ \A i \in 1 .. m : batch[i] \in Kinds /\ i \in DOMAIN batch
  BY <1>2
<1>4. n + m <= MaxCalls
  BY DEF Think
<1>5. more \in [1 .. m -> Call]
  <2>1. n + 1 \in 1 .. MaxCalls
    BY <1>1, <1>3, <1>4
  <2> QED BY <1>3, <2>1
<1>6. ASSUME NEW i \in 1 .. m PROVE more[i].sess = s /\ (s # Chat => more[i].kind # "hand")
  BY <1>3 DEF Think, Range
<1> DEFINE none == [i \in 1 .. m |-> "none"]
           zero == [i \in 1 .. m |-> 0]
<1>7. calls' = calls \o more /\ answer' = answer \o none /\ ran' = ran \o zero /\ card' = card \o none
  BY DEF Think
<1>14. /\ none \in [1 .. m -> Says] /\ none \in [1 .. m -> Cards] /\ zero \in [1 .. m -> 0 .. 2]
       /\ \A i \in 1 .. m : none[i] = "none" /\ zero[i] = 0
  BY DEF Says
<1>15. m \in Nat
  OBVIOUS
<1> HIDE DEF n, m, Call, Cards, more, none, zero
<1>8. /\ calls' \in [1 .. (n + m) -> Call] /\ \A c \in 1 .. n : calls'[c] = calls[c]
      /\ \A c \in (n + 1) .. (n + m) : c - n \in 1 .. m /\ calls'[c] = more[c - n]
  <2>1. Extends(calls', Call, n, m, calls, more)
    BY <1>1, <1>5, <1>7, <1>15, Extended
  <2> QED BY <2>1 DEF Extends
<1>9. /\ answer' \in [1 .. (n + m) -> Says] /\ \A c \in 1 .. n : answer'[c] = answer[c]
      /\ \A c \in (n + 1) .. (n + m) : c - n \in 1 .. m /\ answer'[c] = none[c - n]
  <2>1. Extends(answer', Says, n, m, answer, none)
    BY <1>1, <1>14, <1>7, <1>15, Extended
  <2> QED BY <2>1 DEF Extends
<1>10. /\ ran' \in [1 .. (n + m) -> 0 .. 2] /\ \A c \in 1 .. n : ran'[c] = ran[c]
       /\ \A c \in (n + 1) .. (n + m) : c - n \in 1 .. m /\ ran'[c] = zero[c - n]
  <2>1. Extends(ran', 0 .. 2, n, m, ran, zero)
    BY <1>1, <1>14, <1>7, <1>15, Extended
  <2> QED BY <2>1 DEF Extends
<1>11. /\ card' \in [1 .. (n + m) -> Cards] /\ \A c \in 1 .. n : card'[c] = card[c]
       /\ \A c \in (n + 1) .. (n + m) : c - n \in 1 .. m /\ card'[c] = none[c - n]
  <2>1. Extends(card', Cards, n, m, card, none)
    BY <1>1, <1>14, <1>7, <1>15, Extended
  <2> QED BY <2>1 DEF Extends
<1>12. calls' \in Seq(Call) /\ Len(calls') = n + m /\ Ids' = 1 .. (n + m)
  <2>1. n + m \in Nat
    BY <1>1, <1>3
  <2>2. calls' \in Seq(Call)
    BY <1>8, <2>1, SeqDef
  <2> QED BY <1>8, <2>1, <2>2 DEF Ids
<1>13. \A c \in (n + 1) .. (n + m) : calls'[c].sess = s /\ (s # Chat => calls'[c].kind # "hand")
  BY <1>6, <1>8
<1>16. \A c \in (n + 1) .. (n + m) : answer'[c] = "none" /\ ran'[c] = 0 /\ card'[c] = "none"
  BY <1>9, <1>10, <1>11, <1>14
<1> QED BY <1>1, <1>3, <1>4, <1>8, <1>9, <1>10, <1>11, <1>12, <1>13, <1>16 DEF n, m, Call, Cards

LEMMA ThinkInv ==
  ASSUME IInv, NEW s \in Sessions, NEW batch \in Batches, Think(s, batch)
  PROVE  IInv'
<1> DEFINE n == Len(calls)
           m == Len(batch)
           new == [i \in 1 .. m |-> n + i]
           t == [turn[s] EXCEPT !.pc = "tools", !.todo = new, !.step = @ + 1]
<1>1. /\ n \in Nat /\ m \in Nat \ {0} /\ n + m <= MaxCalls /\ Ids = 1 .. n /\ Ids' = 1 .. (n + m)
      /\ calls' \in Seq([sess : Sessions, batch : 1 .. MaxCalls, kind : Kinds]) /\ Len(calls') = n + m
      /\ answer' \in [Ids' -> Says] /\ ran' \in [Ids' -> 0 .. 2]
      /\ card' \in [Ids' -> {"none", "pending", "approved", "rejected"}]
      /\ \A c \in Ids : /\ calls'[c] = calls[c] /\ answer'[c] = answer[c]
                        /\ ran'[c] = ran[c] /\ card'[c] = card[c]
      /\ \A c \in (n + 1) .. (n + m) :
           /\ calls'[c].sess = s /\ (s # Chat => calls'[c].kind # "hand")
           /\ answer'[c] = "none" /\ ran'[c] = 0 /\ card'[c] = "none"
  BY ThinkGrows DEF IInv
<1>2. /\ turn \in [Sessions -> Turns] /\ executing \subseteq Ids /\ lastRow \in {0} \cup Ids
      /\ turn[s].pc = "think" /\ turn[s].step < MaxSteps /\ turn' = [turn EXCEPT ![s] = t]
      /\ UNCHANGED <<lastRow, executing, owed, sends, deaths>>
  BY DEF IInv, TypeOK, Turns, Think
<1>3. Ids \subseteq Ids' /\ \A c \in Ids' : c \in Ids \/ c \in (n + 1) .. (n + m)
  BY <1>1
<1>4. new \in Seq(Ids') /\ Len(new) = m /\ DOMAIN new = 1 .. m /\ \A k \in 1 .. m : new[k] = n + k
  <2>1. \A k \in 1 .. m : n + k \in Ids'
    BY <1>1
  <2>2. new \in [1 .. m -> Ids'] /\ m \in Nat
    BY <1>1, <2>1
  <2>3. new \in Seq(Ids')
    BY <2>2, SeqDef
  <2> HIDE DEF m
  <2> QED BY <2>2, <2>3
<1>5. /\ t \in [pc : {"idle", "think", "tools", "wait"}, todo : Seq(Ids'), step : 0 .. MaxSteps, live : BOOLEAN]
      /\ t.pc = "tools" /\ t.todo = new /\ t.live = turn[s].live
  <2>1. turn[s] \in Turns /\ turn[s].step + 1 \in 0 .. MaxSteps
    BY <1>2 DEF Turns
  <2> DEFINE Type == [pc : {"idle", "think", "tools", "wait"}, todo : Seq(Ids'), step : 0 .. MaxSteps, live : BOOLEAN]
             mid1 == [turn[s] EXCEPT !.pc = "tools"]
             mid2 == [mid1 EXCEPT !.todo = new]
  <2> HIDE DEF new
  <2>2. Seq(Ids) \subseteq Seq(Ids')
    BY <1>3
  <2>3. mid1 \in Type /\ mid1.pc = "tools" /\ mid1.step = turn[s].step /\ mid1.live = turn[s].live
    BY <2>1, <2>2 DEF Turns
  <2>4. t = [mid2 EXCEPT !.step = turn[s].step + 1]
    BY <2>1 DEF Turns
  <2> HIDE DEF mid1
  <2>5. mid2 \in Type /\ mid2.pc = "tools" /\ mid2.todo = new /\ mid2.live = turn[s].live
    BY <1>4, <2>3
  <2> HIDE DEF mid2, t
  <2> QED BY <2>1, <2>4, <2>5
<1> HIDE DEF t, new
<1>6. turn'[s] = t /\ \A x \in Sessions : x # s => turn'[x] = turn[x]
  BY <1>2
<1>7. TypeOK'
  <2>1. turn' \in [Sessions -> [pc : {"idle", "think", "tools", "wait"}, todo : Seq(Ids'),
                                step : 0 .. MaxSteps, live : BOOLEAN]]
    <3>1. Seq(Ids) \subseteq Seq(Ids')
      BY <1>3
    <3>2. \A x \in Sessions : turn[x] \in [pc : {"idle", "think", "tools", "wait"}, todo : Seq(Ids'),
                                           step : 0 .. MaxSteps, live : BOOLEAN]
      BY <1>2, <3>1 DEF Turns
    <3> QED BY <1>2, <1>5, <3>2
  <2>2. Len(calls') <= MaxCalls /\ lastRow' \in {0} \cup Ids' /\ executing' \subseteq Ids'
    BY <1>1, <1>2, <1>3
  <2> QED BY <1>1, <1>2, <2>1, <2>2 DEF IInv, TypeOK, Sessions
<1>8. s # Chat => s \in Ids /\ calls[s].kind = "hand"
  BY <1>2 DEF IInv, TurnInv
<1>9. ASSUME NEW c \in Ids PROVE CallOK(c)' /\ (Untouched(c) => Untouched(c)')
  <2>1. CallInv(c) /\ CardInv(c) /\ RowInv(c)
    BY DEF IInv
  <2>2. CallInv(c)'
    BY <1>1, <1>3, <2>1 DEF CallInv
  <2>3. CardInv(c)' /\ RowInv(c)' /\ (Untouched(c) => Untouched(c)')
    BY <1>1, <1>2, <2>1 DEF CardInv, RowInv, Untouched, Shown
  <2> QED BY <2>2, <2>3 DEF CallOK
<1>10. ASSUME NEW c \in (n + 1) .. (n + m) PROVE CallOK(c)' /\ Untouched(c)'
  <2>1. CallInv(c)'
    <3>1. s # Chat => s < c
      BY <1>1, <1>8
    <3> QED BY <1>1, <1>3, <1>8, <3>1 DEF CallInv
  <2>2. c \notin executing'
    BY <1>1, <1>2
  <2>3. CardInv(c)' /\ RowInv(c)' /\ Untouched(c)'
    BY <1>1, <2>2 DEF CardInv, RowInv, Untouched
  <2> QED BY <2>1, <2>3 DEF CallOK
<1>11. ASSUME NEW x \in Sessions, turn[x].live PROVE Parent(x)' = Chat /\ turn'[Chat] = turn[Chat]
  BY <1>1, <1>2, <1>6, <1>11, LiveIsCurrent, ChatIsSession DEF Parent
<1>12. TurnInv(s)'
  <2>1. \A k \in DOMAIN new : new[k] \in (n + 1) .. (n + m)
    BY <1>1, <1>4
  <2>2. TodoOf(s)'
    <3>1. \A j, k \in DOMAIN new : j < k => new[j] < new[k]
      BY <1>1, <1>4
    <3> QED BY <1>1, <1>5, <1>6, <2>1, <3>1 DEF TodoOf
  <2>3. \A c \in ToSet(new) : Untouched(c)'
    BY <1>10, <2>1 DEF ToSet
  <2>4. new # <<>>
    BY <1>1, <1>4
  <2>5. t.live => s # Chat /\ turn'[Chat].pc = "wait" /\ Head(turn'[Chat].todo) = s /\ Parent(s)' = Chat
    BY <1>5, <1>11, LiveIsCurrent DEF Current
  <2> QED BY <1>1, <1>3, <1>5, <1>6, <1>8, <2>2, <2>3, <2>4, <2>5 DEF TurnInv, Current
<1>13. ASSUME NEW x \in Sessions, x # s PROVE TurnInv(x)'
  <2>1. TurnInv(x) /\ turn'[x] = turn[x] /\ turn[x] \in Turns
    BY <1>2, <1>6, <1>13 DEF IInv
  <2>2. \A k \in DOMAIN turn[x].todo : turn[x].todo[k] \in Ids
    BY <2>1 DEF Turns
  <2>3. TodoOf(x)'
    <3>1. TodoOf(x)
      BY <2>1 DEF TurnInv
    <3>2. \A k \in DOMAIN turn[x].todo : calls'[turn[x].todo[k]].sess = x
      BY <1>1, <2>2, <3>1 DEF TodoOf
    <3> HIDE <1>1
    <3> QED BY <2>1, <3>1, <3>2 DEF TodoOf
  <2>4. turn[x].pc = "tools" => \A c \in ToSet(turn[x].todo) : Untouched(c)'
    BY <1>9, <2>1, <2>2 DEF TurnInv, ToSet
  <2>5. turn[x].pc = "wait" => /\ calls'[Head(turn[x].todo)].kind = "hand"
                               /\ \A c \in ToSet(Tail(turn[x].todo)) : Untouched(c)'
    <3> HAVE turn[x].pc = "wait"
    <3>1. Current(x) \in Ids /\ Rest(x) \subseteq Ids
      BY CallsInHand
    <3> QED BY <1>1, <1>9, <2>1, <3>1 DEF TurnInv, Current, Rest
  <2>6. turn[x].live => turn[x].pc # "idle" /\ x # Chat /\ turn'[Chat].pc = "wait" /\ Head(turn'[Chat].todo) = x /\ Parent(x)' = Chat
    BY <1>11, LiveIsCurrent DEF Current
  <2>7. turn[x].pc # "idle" /\ x # Chat => x \in Ids' /\ calls'[x].kind = "hand"
    BY <1>1, <1>3, <2>1 DEF TurnInv
  <2> QED BY <2>1, <2>3, <2>4, <2>5, <2>6, <2>7 DEF TurnInv, Current
<1> QED BY <1>3, <1>7, <1>9, <1>10, <1>12, <1>13, Together

-----------------------------------------------------------------------------
(* Every step. *)

LEMMA StepInv ==
  ASSUME IInv, [Next]_vars
  PROVE  IInv'
<1>1. CASE UNCHANGED vars
  <2> USE <1>1 DEF vars
  <2>1. TypeOK'
    BY DEF IInv, TypeOK, Ids
  <2>2. ASSUME NEW s \in Sessions PROVE TurnInv(s)'
    BY DEF IInv, TurnInv, TodoOf, Untouched, Ids, Parent, Current
  <2>3. Ids' = Ids
    BY DEF Ids
  <2>4. ASSUME NEW c \in Ids PROVE CallOK(c)'
    BY <2>3 DEF IInv, CallOK, CallInv, CardInv, RowInv, Shown
  <2> QED BY <2>1, <2>2, <2>3, <2>4, Together
<1>2. CASE \E s \in Sessions : Kernel(s)
  <2> PICK s \in Sessions : Kernel(s)
    BY <1>2
  <2> QED BY ThinkInv, FinishInv, ExecuteInv, RefuseInv, ClarifyInv, ParkInv, HandOffInv DEF Kernel
<1>3. CASE \E c \in Ids : Decide(c) \/ \E o \in {"done", "failed"} : Executed(c, o)
  BY <1>3, ApproveInv, RejectInv, ExecutedInv DEF Decide
<1>4. CASE Send \/ Resume \/ Stop \/ Dies
  BY <1>4, SendInv, ResumeInv, StopInv, DieInv, DieParkingInv DEF Dies
<1> QED BY <1>1, <1>2, <1>3, <1>4 DEF Next

\* IInv is an invariant: what the theorems below rest on.
LEMMA Invariant == Spec => []IInv
<1>1. Init => IInv
  BY InitInv
<1>2. IInv /\ [Next]_vars => IInv'
  BY StepInv
<1> QED BY <1>1, <1>2, PTL DEF Spec

\* Calls, rows, cards and turns keep their types, whatever is decided, stopped or dies.
THEOREM TypeCorrect == Spec => []TypeOK
<1>1. IInv => TypeOK
  BY DEF IInv
<1> QED BY <1>1, Invariant, PTL

\* A call is executed at most once, and a risky one only after the operator approved
\* it, for any number of cards, devices, stops and deaths (hitl.py, react_loop.py).
THEOREM RunsOnceHolds == Spec => []RunsOnce
<1>1. IInv => RunsOnce
  BY DEF IInv, CardInv, RunsOnce
<1> QED BY <1>1, Invariant, PTL

\* What the tool rows say is what happened to the calls, and a pending card has its row,
\* save where a death cut an execution or a park (react_loop.py, sessions.py).
THEOREM RowsTellTheTruthHolds == Spec => []RowsTellTheTruth
<1>1. IInv => RowsTellTheTruth
  BY DEF IInv, CardInv, RowInv, Shown, RowsTellTheTruth
<1> QED BY <1>1, Invariant, PTL

-----------------------------------------------------------------------------
(* A turn that is not cut answers its batch. *)

Answers(s) ==
  ~IsIdle(s) /\ turn'[s].pc = "idle" => \A c \in ToSet(turn[s].todo) : answer'[c] # "none"

\* A turn that ends answers what it had left, and ends no other turn.
LEMMA EndsAnswers ==
  ASSUME IInv, NEW x \in Sessions, turn[x].pc \in {"think", "tools"}, NEW o \in {"done", "failed"},
         NEW rows \in [Ids -> Says], Ends(x, rows, o), \A c \in ToSet(turn[x].todo) : rows[c] # "none",
         NEW s \in Sessions
  PROVE  Answers(s)
<1>1. turn \in [Sessions -> Turns]
  BY DEF IInv, TypeOK, Turns
<1>2. x # Chat => x \in Ids /\ calls[x].kind = "hand"
  BY DEF IInv, TurnInv
<1>3. CASE s = x
  <2>1. ToSet(turn[x].todo) \subseteq Ids
    BY TodoUntouched
  <2>2. CASE x = Chat
    BY <1>3, <2>2 DEF Answers, Ends, Writes
  <2>3. CASE x # Chat
    <3>1. answer' = TellParent(rows, x, o)
      BY <2>3 DEF Ends, Writes
    <3>2. \A c \in Ids : answer'[c] = rows[c] \/ answer'[c] = o
      BY <1>2, <2>3, <3>1, ToldRows
    <3> QED BY <1>3, <2>1, <3>2 DEF Answers
  <2> QED BY <2>2, <2>3
<1>4. CASE s # x
  <2>1. CASE x = Chat \/ ~turn[x].live
    <3>1. turn'[s] = turn[s]
      BY <1>1, <1>4, <2>1 DEF Ends
    <3> QED BY <3>1 DEF Answers, IsIdle
  <2>2. CASE x # Chat /\ turn[x].live
    <3> DEFINE t == [turn EXCEPT ![x] = Idle]
    <3>1. Parent(x) = Chat /\ turn[Chat].pc = "wait"
      BY <2>2, LiveIsCurrent
    <3>2. turn' = Advanced(t, Chat)
      BY <2>2, <3>1 DEF Ends
    <3>3. Idle \in Turns
      BY DEF Idle, Turns
    <3>4. t \in [Sessions -> Turns] /\ t[Chat] = turn[Chat] /\ t[s] = turn[s]
      BY <1>1, <1>4, <2>2, <3>3, ChatIsSession
    <3>5. turn[Chat].todo # <<>>
      BY <3>1, CallsInHand, ChatIsSession
    <3> HIDE DEF t
    <3>6. turn'[s] = turn[s] \/ turn'[s].pc \in {"think", "tools"}
      BY <3>2, <3>4, <3>5, AdvancedIs, ChatIsSession
    <3> QED BY <3>6 DEF Answers, IsIdle
  <2> QED BY <2>1, <2>2
<1> QED BY <1>3, <1>4

LEMMA ParkAnswers ==
  ASSUME IInv, NEW x \in Sessions, Park(x), NEW s \in Sessions
  PROVE  Answers(s)
<1> DEFINE parked == ParkRows(x, "parked")
<1>1. turn \in [Sessions -> Turns] /\ answer \in [Ids -> Says] /\ {"parked", "deferred", "child"} \subseteq Says
  BY DEF IInv, TypeOK, Turns, Says
<1>2. /\ turn[x].pc = "tools" /\ Current(x) \in Ids /\ Rest(x) \subseteq Ids
      /\ ToSet(turn[x].todo) = {Current(x)} \cup Rest(x)
  BY CallsInHand DEF Park, Calls
<1>3. /\ parked \in [Ids -> Says] /\ \A c \in ToSet(turn[x].todo) : parked[c] # "none"
  BY <1>1, <1>2 DEF ParkRows, Say
<1>4. x # Chat => x \in Ids /\ calls[x].kind = "hand"
  BY <1>2 DEF IInv, TurnInv
<1> HIDE DEF parked
<1>5. CASE x # Chat /\ turn[x].live
  <2>1. Parent(x) = Chat /\ turn[Chat].pc = "wait" /\ Current(Chat) = x
    BY <1>5, LiveIsCurrent
  <2>2. /\ ToSet(turn[Chat].todo) = {x} \cup Rest(Chat) /\ Rest(Chat) \subseteq Ids
    BY <2>1, CallsInHand, ChatIsSession
  <2>3. /\ answer' = [c \in Ids |-> IF c = x THEN "child" ELSE IF c \in Rest(Chat) THEN "deferred" ELSE parked[c]]
        /\ turn' = [turn EXCEPT ![x] = Idle, ![Chat] = Idle]
    BY <1>5, <2>1 DEF Park, ParkedRows, Writes, parked
  <2>4. s # x /\ s # Chat => turn'[s] = turn[s]
    BY <1>1, <2>3
  <2>5. \A c \in ToSet(turn[x].todo) \cup ToSet(turn[Chat].todo) : answer'[c] # "none"
    BY <1>2, <1>3, <1>4, <1>5, <2>2, <2>3
  <2> QED BY <2>4, <2>5 DEF Answers, IsIdle
<1>6. CASE ~(x # Chat /\ turn[x].live)
  <2>1. turn' = [turn EXCEPT ![x] = Idle]
    BY <1>6 DEF Park
  <2>2. answer' = IF x = Chat THEN parked ELSE TellParent(parked, x, "child")
    BY <1>6 DEF Park, ParkedRows, Writes, parked
  <2>3. \A c \in Ids : answer'[c] = parked[c] \/ answer'[c] = "child"
    BY <1>3, <1>4, <2>2, ToldRows
  <2>4. s # x => turn'[s] = turn[s]
    BY <1>1, <2>1
  <2>5. \A c \in ToSet(turn[x].todo) : answer'[c] # "none"
    BY <1>2, <1>3, <2>3
  <2> QED BY <2>4, <2>5 DEF Answers, IsIdle
<1> QED BY <1>5, <1>6

\* Every other step of the kernel ends no turn.
LEMMA KernelAnswers ==
  ASSUME IInv, NEW x \in Sessions, Kernel(x), NEW s \in Sessions
  PROVE  Answers(s)
<1>1. turn \in [Sessions -> Turns] /\ answer \in [Ids -> Says]
  BY DEF IInv, TypeOK, Turns
<1>2. ASSUME NEW b \in Batches, Think(x, b) PROVE Answers(s)
  <2>1. \E todo : turn' = [turn EXCEPT ![x] = [turn[x] EXCEPT !.pc = "tools", !.todo = todo, !.step = @ + 1]]
    BY <1>2 DEF Think
  <2>2. turn'[s] = turn[s] \/ turn'[s].pc = "tools"
    BY <1>1, <2>1 DEF Turns
  <2> QED BY <2>2 DEF Answers, IsIdle
<1>3. ASSUME NEW o \in {"done", "failed"}, Finish(x, o) PROVE Answers(s)
  <2>1. turn[x].pc = "think" /\ turn[x].todo = <<>> /\ Ends(x, answer, o)
    BY <1>3 DEF Finish, IInv, TurnInv
  <2>2. ToSet(turn[x].todo) = {}
    BY <2>1, EmptyTodo DEF ToSet
  <2> QED BY <1>1, <2>1, <2>2, EndsAnswers
<1>4. ASSUME turn[x].pc = "tools", turn' = Advanced(turn, x) PROVE Answers(s)
  <2>1. turn[x].todo # <<>>
    BY <1>4, CallsInHand
  <2>2. turn'[s] = turn[s] \/ turn'[s].pc \in {"think", "tools"}
    BY <1>1, <1>4, <2>1, AdvancedIs
  <2> QED BY <2>2 DEF Answers, IsIdle
<1>5. ASSUME Clarify(x) PROVE Answers(s)
  <2> DEFINE rows == Say(Say(answer, {Current(x)}, "done"), Rest(x), "skipped")
  <2>1. /\ turn[x].pc = "tools" /\ Current(x) \in Ids /\ Rest(x) \subseteq Ids
        /\ ToSet(turn[x].todo) = {Current(x)} \cup Rest(x)
    BY <1>5, CallsInHand DEF Clarify, Calls
  <2>2. rows \in [Ids -> Says] /\ \A c \in ToSet(turn[x].todo) : rows[c] # "none"
    BY <1>1, <2>1 DEF Say, Says
  <2>3. Ends(x, rows, "done")
    BY <1>5 DEF Clarify
  <2> HIDE DEF rows
  <2> QED BY <2>1, <2>2, <2>3, EndsAnswers
<1>6. ASSUME HandOff(x) PROVE Answers(s)
  <2>1. turn' = [turn EXCEPT ![x].pc = "wait", ![Current(x)] = Started(TRUE)]
    BY <1>6 DEF HandOff
  <2>2. turn'[s] = turn[s] \/ turn'[s].pc \in {"wait", "think"}
    <3>1. Started(TRUE).pc = "think"
      BY DEF Started
    <3> QED BY <1>1, <2>1, <3>1 DEF Turns
  <2> QED BY <2>2 DEF Answers, IsIdle
<1> QED BY <1>2, <1>3, <1>4, <1>5, <1>6, ParkAnswers DEF Kernel, Execute, Refuse, Calls

\* No batch of a turn that ended by itself has a call without a row, so that the next
\* request to a provider is well-formed (react_loop.py, sessions.py).
THEOREM BatchIsAnsweredHolds == Spec => BatchIsAnswered
<1>1. ASSUME IInv, [Next]_vars, NEW s \in Sessions, ~Stop, ~Dies PROVE Answers(s)
  <2>1. turn \in [Sessions -> Turns]
    BY <1>1 DEF IInv, TypeOK, Turns
  <2>2. ASSUME turn'[s] = turn[s] \/ turn'[s].pc = "think" PROVE Answers(s)
    BY <2>2 DEF Answers, IsIdle
  <2>3. Started(FALSE).pc = "think"
    BY DEF Started
  <2>4. CASE UNCHANGED vars
    BY <2>2, <2>4 DEF vars
  <2>5. CASE \E x \in Sessions : Kernel(x)
    BY <1>1, <2>5, KernelAnswers
  <2>6. CASE \E c \in Ids : Decide(c) \/ \E o \in {"done", "failed"} : Executed(c, o)
    BY <2>1, <2>2, <2>3, <2>6 DEF Decide, Approve, Reject, Executed, Continues
  <2>7. CASE Send \/ Resume
    BY <2>1, <2>2, <2>3, <2>7 DEF Send, Resume
  <2> QED BY <1>1, <2>4, <2>5, <2>6, <2>7 DEF Next
<1>2. IInv /\ [Next]_vars
      => [\A s \in Sessions : ~IsIdle(s) /\ turn'[s].pc = "idle" /\ ~Stop /\ ~Dies
            => \A c \in ToSet(turn[s].todo) : answer'[c] # "none"]_vars
  BY <1>1 DEF Answers
<1> QED BY <1>2, Invariant, PTL DEF Spec, BatchIsAnswered

=============================================================================
