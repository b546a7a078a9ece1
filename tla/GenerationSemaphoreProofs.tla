---------------------- MODULE GenerationSemaphoreProofs ----------------------
(***************************************************************************)
(* Theorems about GenerationSemaphore for any finite set of generations    *)
(* and any largest cap.                                                    *)
(***************************************************************************)
EXTENDS GenerationSemaphore, WellFoundedInduction, FiniteSetTheorems, SequenceTheorems, TLAPS

-----------------------------------------------------------------------------
(* The library's facts about minima and cardinalities, as they are used below. *)

\* A nonempty set of naturals has a least element.
LEMMA LeastNat ==
  ASSUME NEW T \in SUBSET Nat, T # {}
  PROVE  \E x \in T : \A y \in T : x <= y
<1>1. \E x \in T : \A y \in T : ~ (<<y, x>> \in OpToRel(<, Nat))
  BY NatLessThanWellFounded, WFMin
<1>2. PICK x \in T : \A y \in T : ~ (<<y, x>> \in OpToRel(<, Nat))
  BY <1>1
<1>3. \A y \in T : ~ (y < x)
  BY <1>2 DEF OpToRel
<1> QED BY <1>3

\* Queues are made of their members.
LEMMA MembersOfSuffix ==
  ASSUME NEW q \in Seq(Gens), NEW k \in 0 .. Len(q)
  PROVE  /\ SubSeq(q, k + 1, Len(q)) \in Seq(Gens)
         /\ \A x \in Members(q) :
              x \in {q[i] : i \in 1 .. k} \/ x \in Members(SubSeq(q, k + 1, Len(q)))
<1> DEFINE s == SubSeq(q, k + 1, Len(q))
<1>1. s \in Seq(Gens) /\ Len(s) = Len(q) - k /\ \A i \in 1 .. Len(q) - k : s[i] = q[k + i]
  BY SubSeqProperties
<1>2. ASSUME NEW i \in 1 .. Len(q), i > k
      PROVE  q[i] \in Members(s)
  <2>1. i - k \in 1 .. Len(s) /\ s[i - k] = q[i]
    BY <1>1, <1>2
  <2> QED BY <2>1 DEF Members
<1>3. ASSUME NEW x \in Members(q), x \notin {q[i] : i \in 1 .. k}
      PROVE  x \in Members(s)
  <2>1. PICK i \in 1 .. Len(q) : x = q[i]
    BY <1>3 DEF Members
  <2>2. i > k
    BY <1>3, <2>1
  <2> QED BY <1>2, <2>1, <2>2
<1> QED BY <1>1, <1>3

\* deque.remove takes out one entry and keeps every other member.
LEMMA MembersWithout ==
  ASSUME NEW q \in Seq(Gens), NEW g \in Gens
  PROVE  /\ Without(q, g) \in Seq(Gens)
         /\ Members(q) \ {g} \subseteq Members(Without(q, g))
<1>1. CASE g \notin Members(q)
  BY <1>1 DEF Without
<1>2. CASE g \in Members(q)
  <2> DEFINE T == {i \in 1 .. Len(q) : q[i] = g}
             i == FirstAt(q, g)
  <2>1. \E n \in 1 .. Len(q) : q[n] = g /\ \A j \in 1 .. n - 1 : q[j] # g
    <3>1. T \in SUBSET Nat /\ T # {}
      BY <1>2 DEF Members
    <3>2. PICK n \in T : \A j \in T : n <= j
      BY <3>1, LeastNat
    <3> QED BY <3>2
  <2>2. i \in 1 .. Len(q) /\ q[i] = g
    BY <2>1 DEF FirstAt
  <2>3. Without(q, g) = SubSeq(q, 1, i - 1) \o SubSeq(q, i + 1, Len(q))
    BY <1>2 DEF Without
  <2> HIDE DEF i
  <2> DEFINE a == SubSeq(q, 1, i - 1)
             b == SubSeq(q, i + 1, Len(q))
             w == Without(q, g)
  <2>4. a \in Seq(Gens) /\ Len(a) = i - 1 /\ \A n \in 1 .. i - 1 : a[n] = q[n]
    BY <2>2, SubSeqProperties
  <2>5. b \in Seq(Gens) /\ Len(b) = Len(q) - i /\ \A n \in 1 .. Len(q) - i : b[n] = q[i + n]
    BY <2>2, SubSeqProperties
  <2>6. w = a \o b
    BY <2>3
  <2> HIDE DEF a, b, w
  <2>7. /\ w \in Seq(Gens) /\ Len(w) = Len(a) + Len(b)
        /\ \A n \in 1 .. Len(a) + Len(b) : w[n] = IF n <= Len(a) THEN a[n] ELSE b[n - Len(a)]
    <3>1. a \in Seq(Gens) /\ b \in Seq(Gens)
      BY <2>4, <2>5
    <3>2. /\ a \o b \in Seq(Gens) /\ Len(a \o b) = Len(a) + Len(b)
          /\ \A n \in 1 .. Len(a) + Len(b) :
               (a \o b)[n] = IF n <= Len(a) THEN a[n] ELSE b[n - Len(a)]
      BY <3>1, ConcatProperties
    <3> QED BY <2>6, <3>2
  <2>8. Len(w) = Len(q) - 1
    BY <2>2, <2>4, <2>5, <2>7
  <2>9. ASSUME NEW x \in Members(q), x # g
        PROVE  x \in Members(w)
    <3>1. PICK n \in 1 .. Len(q) : x = q[n]
      BY DEF Members
    <3>2. CASE n < i
      <4>1. n \in 1 .. Len(w) /\ w[n] = q[n]
        BY <2>2, <2>4, <2>5, <2>7, <2>8, <3>2
      <4> QED BY <3>1, <4>1 DEF Members
    <3>3. CASE n > i
      <4>1. n - 1 \in 1 .. Len(w) /\ n - 1 > Len(a) /\ (n - 1) - Len(a) = n - i
        BY <2>2, <2>4, <2>8, <3>3
      <4>2. n - i \in 1 .. Len(q) - i /\ i + (n - i) = n
        BY <2>2, <3>3
      <4>3. w[n - 1] = q[n]
        BY <2>5, <2>7, <4>1, <4>2, <2>4
      <4> QED BY <3>1, <4>1, <4>3 DEF Members
    <3> QED BY <2>2, <2>9, <3>1, <3>2, <3>3
  <2> QED BY <2>7, <2>9 DEF w
<1> QED BY <1>1, <1>2

-----------------------------------------------------------------------------
\* _wake stops, at the first place where nothing is left to pop or no slot is free.
LEMMA PrefixIs ==
  ASSUME NEW q \in Seq(Gens), NEW pending, NEW used, NEW limit
  PROVE  LET k == PrefixPopped(q, pending, used, limit)
         IN /\ k \in 0 .. Len(q) /\ Stops(q, pending, used, limit, k)
            /\ \A j \in 0 .. Len(q) : Stops(q, pending, used, limit, j) => k <= j
<1> DEFINE Stop(k) == Stops(q, pending, used, limit, k)
           T == {k \in 0 .. Len(q) : Stop(k)}
<1>1. T \in SUBSET Nat /\ Len(q) \in T
  BY DEF Stops
<1>2. PICK k \in T : \A j \in T : k <= j
  BY <1>1, LeastNat
<1>3. \E n \in 0 .. Len(q) : Stop(n) /\ \A j \in 0 .. Len(q) : Stop(j) => n <= j
  BY <1>2
<1> QED BY <1>3 DEF PrefixPopped

(***************************************************************************)
(* What _wake does: it hands slots to some of the pending generations,     *)
(* never past the limit, and leaves a generation pending only when the     *)
(* limit is reached.                                                       *)
(***************************************************************************)
LEMMA WakeEffect ==
  ASSUME waiters \in Seq(Gens),
         NEW used \in 0 .. MaxCap, NEW limit \in Caps,
         NEW st \in [Gens -> GenState],
         QueuedIn(st) \subseteq Members(waiters),
         WakeFrom(used, limit, st)
  PROVE  \E handed \in SUBSET QueuedIn(st) :
           /\ gen' = [g \in Gens |-> IF g \in handed THEN "granted" ELSE st[g]]
           /\ in_use' = used + Cardinality(handed)
           /\ in_use' \in 0 .. MaxCap
           /\ in_use' <= limit \/ in_use' = used
           /\ waiters' \in Seq(Gens)
           /\ QueuedIn(st) \ handed \subseteq Members(waiters')
           /\ QueuedIn(st) # handed => in_use' >= limit
<1> USE GensAssumption, CapAssumption
<1> DEFINE pending == QueuedIn(st)
           Popped(k) == HandedBy(waiters, pending, k)
           Stop(k) == Stops(waiters, pending, used, limit, k)
           least == PrefixPopped(waiters, pending, used, limit)
<1>1. Len(waiters) \in Nat
  OBVIOUS
<1>3. least \in 0 .. Len(waiters) /\ Stop(least)
      /\ \A j \in 0 .. Len(waiters) : Stop(j) => least <= j
  BY PrefixIs
<1>4. \A k \in 0 .. Len(waiters) : Popped(k) \subseteq Gens /\ Popped(k) \subseteq pending
                                   /\ IsFiniteSet(Popped(k)) /\ Cardinality(Popped(k)) \in Nat
  <2>1. pending \subseteq Gens
    BY DEF QueuedIn
  <2>2. \A k : Popped(k) \in SUBSET Gens /\ Popped(k) \subseteq pending
    BY <2>1 DEF HandedBy
  <2>3. \A k : IsFiniteSet(Popped(k))
    BY <2>2, FS_Subset
  <2> QED BY <2>2, <2>3, FS_CardinalityType
<1> DEFINE handed == Popped(least)
<1>5. /\ gen' = [g \in Gens |-> IF g \in handed THEN "granted" ELSE st[g]]
      /\ in_use' = used + Cardinality(handed)
      /\ waiters' = SubSeq(waiters, least + 1, Len(waiters))
  BY DEF WakeFrom
<1>6. in_use' <= limit \/ in_use' = used
  <2>1. CASE least = 0
    <3>1. handed = {}
      BY <2>1, <1>3 DEF HandedBy
    <3> QED BY <3>1, <1>5, FS_EmptySet
  <2>2. CASE least # 0
    <3>1. least - 1 \in 0 .. Len(waiters) /\ ~ Stop(least - 1)
      BY <2>2, <1>3, <1>1
    <3>2. used + Cardinality(Popped(least - 1)) < limit
      BY <3>1, <1>3, <1>4 DEF Stops, Caps
    <3>3. handed \subseteq Popped(least - 1) \cup {waiters[least]}
      BY <2>2, <1>3, <1>1 DEF HandedBy
    <3>4. Cardinality(handed) <= Cardinality(Popped(least - 1)) + 1
      <4> DEFINE before == Popped(least - 1)
                 more == before \cup {waiters[least]}
      <4>1. IsFiniteSet(before) /\ Cardinality(before) \in Nat
        BY <3>1, <1>4
      <4>2. IsFiniteSet(handed) /\ Cardinality(handed) \in Nat
        BY <1>3, <1>4
      <4>3. handed \in SUBSET more
        BY <3>3
      <4> HIDE DEF before, handed
      <4>4. /\ IsFiniteSet(more)
            /\ Cardinality(more) = Cardinality(before) \/ Cardinality(more) = Cardinality(before) + 1
        BY <4>1, FS_AddElement
      <4>5. Cardinality(handed) <= Cardinality(more)
        BY <4>3, <4>4, FS_Subset
      <4>6. Cardinality(handed) <= Cardinality(before) + 1
        BY <4>1, <4>2, <4>4, <4>5
      <4> QED BY <4>6 DEF before
    <3> QED BY <3>1, <3>2, <3>4, <1>3, <1>4, <1>5 DEF Caps
  <2> QED BY <2>1, <2>2
<1>7. in_use' \in 0 .. MaxCap
  BY <1>3, <1>4, <1>5, <1>6 DEF Caps
<1>8. /\ waiters' \in Seq(Gens)
      /\ \A x \in Members(waiters) : x \in {waiters[i] : i \in 1 .. least} \/ x \in Members(waiters')
  BY <1>3, <1>5, MembersOfSuffix
<1>9. pending \ handed \subseteq Members(waiters')
  BY <1>8 DEF HandedBy
<1>10. ASSUME pending # handed
       PROVE  in_use' >= limit
  <2>1. CASE least = Len(waiters)
    <3>1. handed = pending
      BY <2>1 DEF HandedBy, Members
    <3> QED BY <3>1, <1>10
  <2>2. CASE used + Cardinality(handed) >= limit
    BY <2>2, <1>5
  <2> QED BY <2>1, <2>2, <1>3 DEF Stops
<1> QED BY <1>3, <1>4, <1>5, <1>6, <1>7, <1>8, <1>9, <1>10

-----------------------------------------------------------------------------
(* The inductive invariant. *)

\* A pending future is in the deque, and nobody queues before the loop is known.
QueueInv ==
  /\ Pending \subseteq Members(waiters)
  /\ ~loop => Pending = {}
  /\ entering # NoGen => gen[entering] = "idle"
  /\ setter = "cap_set" => posted < MaxPosts

\* With no worker thread setting the cap, no wake-up is ever owed.
LoopInv ==
  "thread" \notin Callers =>
    /\ posted = 0 /\ setter = "idle"
    /\ Pending # {} => in_use >= cap
    /\ entering # NoGen => in_use >= cap

IInv == TypeOK /\ SlotAccounting /\ QueueInv /\ LoopInv

\* Any set of generations can be counted.
LEMMA HoldersFinite ==
  ASSUME NEW st
  PROVE  IsFiniteSet(HoldingIn(st)) /\ Cardinality(HoldingIn(st)) \in Nat
<1>1. HoldingIn(st) \in SUBSET Gens
  BY DEF HoldingIn
<1> QED BY <1>1, GensAssumption, FS_Subset, FS_CardinalityType

\* _wake started from an exact counter ends with an exact counter and an honest queue.
LEMMA WakeKeepsCount ==
  ASSUME waiters \in Seq(Gens), NEW limit \in Caps,
         NEW st \in [Gens -> GenState],
         QueuedIn(st) \subseteq Members(waiters),
         Cardinality(HoldingIn(st)) \in 0 .. MaxCap,
         WakeFrom(Cardinality(HoldingIn(st)), limit, st)
  PROVE  /\ in_use' = Cardinality(HoldingIn(gen')) /\ in_use' \in 0 .. MaxCap
         /\ in_use' <= limit \/ in_use' = Cardinality(HoldingIn(st))
         /\ gen' \in [Gens -> GenState] /\ waiters' \in Seq(Gens)
         /\ QueuedIn(gen') \subseteq Members(waiters')
         /\ QueuedIn(gen') # {} => in_use' >= limit
         /\ QueuedIn(gen') \subseteq QueuedIn(st)
         /\ \A g \in Gens : st[g] = "idle" => gen'[g] = "idle"
<1> DEFINE used == Cardinality(HoldingIn(st))
<1>1. PICK handed \in SUBSET QueuedIn(st) :
           /\ gen' = [g \in Gens |-> IF g \in handed THEN "granted" ELSE st[g]]
           /\ in_use' = used + Cardinality(handed)
           /\ in_use' \in 0 .. MaxCap
           /\ in_use' <= limit \/ in_use' = used
           /\ waiters' \in Seq(Gens)
           /\ QueuedIn(st) \ handed \subseteq Members(waiters')
           /\ QueuedIn(st) # handed => in_use' >= limit
  <2> HIDE DEF used
  <2>1. used \in 0 .. MaxCap /\ WakeFrom(used, limit, st)
    BY DEF used
  <2> QED BY <2>1, WakeEffect
<1>2. gen' \in [Gens -> GenState] /\ \A g \in Gens : st[g] = "idle" => gen'[g] = "idle"
  BY <1>1 DEF GenState, QueuedIn
<1>3. QueuedIn(gen') = QueuedIn(st) \ handed
  BY <1>1 DEF QueuedIn
<1>4. HoldingIn(gen') = HoldingIn(st) \cup handed /\ HoldingIn(st) \cap handed = {}
  BY <1>1 DEF QueuedIn, HoldingIn
<1>5. IsFiniteSet(handed) /\ Cardinality(handed) \in Nat
  <2>1. handed \in SUBSET Gens
    BY DEF QueuedIn
  <2> QED BY <2>1, GensAssumption, FS_Subset, FS_CardinalityType
<1>6. Cardinality(HoldingIn(gen')) = used + Cardinality(handed)
  <2> DEFINE H == HoldingIn(st)
  <2>1. IsFiniteSet(H) /\ Cardinality(H) \in Nat
    BY HoldersFinite
  <2>2. Cardinality(H \cap handed) = 0
    <3>1. H \cap handed = {}
      BY <1>4
    <3> QED BY <3>1, FS_EmptySet
  <2>3. Cardinality(H \cup handed) = Cardinality(H) + Cardinality(handed) - Cardinality(H \cap handed)
    BY <2>1, <1>5, FS_Union
  <2>4. Cardinality(H \cup handed) = Cardinality(H) + Cardinality(handed)
    <3> HIDE DEF H
    <3> QED BY <2>1, <2>2, <2>3, <1>5
  <2> QED BY <2>4, <1>4
<1> QED BY <1>1, <1>2, <1>3, <1>6

\* A generation that held a slot and goes idle frees exactly one.
LEMMA ReleaseKeepsCount ==
  ASSUME IInv, NEW g \in Gens, gen[g] \in {"holding", "revoked"},
         ReleaseFrom([gen EXCEPT ![g] = "idle"])
  PROVE  /\ in_use' = Cardinality(Holders') /\ in_use' \in 0 .. MaxCap
         /\ in_use' <= cap \/ in_use' < in_use
         /\ gen' \in [Gens -> GenState] /\ waiters' \in Seq(Gens)
         /\ Pending' \subseteq Members(waiters')
         /\ Pending' # {} => in_use' >= cap
         /\ Pending' \subseteq Pending
<1> DEFINE st == [gen EXCEPT ![g] = "idle"]
           H == HoldingIn(gen)
<1>1. TypeOK /\ SlotAccounting /\ QueueInv
  BY DEF IInv
<1>2. st \in [Gens -> GenState] /\ QueuedIn(st) = QueuedIn(gen)
      /\ HoldingIn(st) = H \ {g} /\ g \in H
  BY <1>1 DEF TypeOK, GenState, QueuedIn, HoldingIn
<1>3. IsFiniteSet(H) /\ Cardinality(H) \in Nat /\ in_use = Cardinality(H)
  BY <1>1, HoldersFinite DEF SlotAccounting, Holders
<1>4. Cardinality(H \ {g}) = Cardinality(H) - 1
  BY <1>2, <1>3, FS_RemoveElement
<1>5. Cardinality(HoldingIn(st)) = in_use - 1 /\ in_use > 0
  <2>1. Cardinality(HoldingIn(st)) = in_use - 1
    BY <1>2, <1>3, <1>4
  <2>2. Cardinality(HoldingIn(st)) \in Nat
    BY HoldersFinite
  <2> QED BY <2>1, <2>2, <1>3
<1>6. in_use \in 0 .. MaxCap /\ cap \in Caps /\ waiters \in Seq(Gens)
      /\ QueuedIn(st) \subseteq Members(waiters)
  BY <1>1, <1>2 DEF TypeOK, QueueInv, Pending
<1>7. Cardinality(HoldingIn(st)) \in 0 .. MaxCap
  BY <1>5, <1>6, CapAssumption
<1>8. WakeFrom(Cardinality(HoldingIn(st)), cap, st)
  BY <1>5 DEF ReleaseFrom
<1>9. /\ in_use' = Cardinality(HoldingIn(gen')) /\ in_use' \in 0 .. MaxCap
      /\ in_use' <= cap \/ in_use' = Cardinality(HoldingIn(st))
      /\ gen' \in [Gens -> GenState] /\ waiters' \in Seq(Gens)
      /\ QueuedIn(gen') \subseteq Members(waiters')
      /\ QueuedIn(gen') # {} => in_use' >= cap
      /\ QueuedIn(gen') \subseteq QueuedIn(st)
  <2> HIDE DEF st
  <2> QED BY <1>2, <1>6, <1>7, <1>8, WakeKeepsCount
<1>10. in_use' <= cap \/ in_use' < in_use
  BY <1>5, <1>6, <1>9
<1> HIDE DEF st
<1> QED BY <1>2, <1>9, <1>10 DEF Holders, Pending

-----------------------------------------------------------------------------
\* The initial state satisfies the invariant.
LEMMA InitIInv == Init => IInv
<1> SUFFICES ASSUME Init PROVE IInv
  OBVIOUS
<1>1. TypeOK
  <2>1. 0 \in 0 .. MaxCap /\ 0 \in 0 .. MaxPosts
    BY CapAssumption, PostsAssumption
  <2>2. gen \in [Gens -> GenState] /\ waiters \in Seq(Gens)
    BY EmptySeq DEF Init, GenState
  <2> QED BY <2>1, <2>2 DEF Init, TypeOK
<1>2. Pending = {} /\ Holders = {}
  BY DEF Init, Pending, QueuedIn, Holders, HoldingIn
<1>3. SlotAccounting
  BY <1>2, FS_EmptySet DEF Init, SlotAccounting
<1>4. QueueInv /\ LoopInv
  BY <1>2 DEF Init, QueueInv, LoopInv
<1> QED BY <1>1, <1>3, <1>4 DEF IInv

\* A step that takes no slot and frees none keeps the counter exact.
LEMMA SameHolders ==
  ASSUME SlotAccounting, in_use' = in_use, Holders' = Holders
  PROVE  SlotAccounting'
BY DEF SlotAccounting

\* Every step keeps the invariant.
LEMMA NextIInv == IInv /\ [Next]_vars => IInv'
<1> SUFFICES ASSUME IInv, [Next]_vars PROVE IInv'
  OBVIOUS
<1> USE DEF IInv
<1>0. TypeOK /\ SlotAccounting /\ QueueInv /\ LoopInv
  OBVIOUS
<1>1. ASSUME NEW g \in Gens, Enter(g)
      PROVE  IInv'
  <2>1. in_use \in 0 .. MaxCap /\ cap \in 1 .. MaxCap /\ in_use < cap /\ MaxCap \in Nat
    BY <1>1, CapAssumption DEF Enter, FastPath, TypeOK, Caps
  <2>2. TypeOK'
    BY <1>1, <2>1 DEF Enter, TypeOK, GenState
  <2>3. Pending' = {} /\ Holders' = Holders \cup {g} /\ g \notin Holders
    BY <1>1 DEF Enter, FastPath, TypeOK, Pending, QueuedIn, Holders, HoldingIn
  <2>4. SlotAccounting'
    <3>1. IsFiniteSet(Holders) /\ Cardinality(Holders) \in Nat
      BY HoldersFinite DEF Holders
    <3>2. Cardinality(Holders \cup {g}) = Cardinality(Holders) + 1
      BY <3>1, <2>3, FS_AddElement
    <3>3. in_use = Cardinality(Holders) /\ in_use' = in_use + 1
      BY <1>1 DEF Enter, SlotAccounting
    <3> QED BY <2>3, <3>2, <3>3 DEF SlotAccounting
  <2>5. QueueInv'
    BY <1>1, <2>3 DEF Enter, LoopFree, QueueInv
  <2>6. LoopInv'
    BY <1>1, <2>3 DEF Enter, LoopFree, LoopInv
  <2> QED BY <2>2, <2>4, <2>5, <2>6
<1>2. ASSUME NEW g \in Gens, FindNoSlot(g)
      PROVE  IInv'
  <2>1. TypeOK'
    BY <1>2 DEF FindNoSlot, TypeOK
  <2>2. SlotAccounting'
    BY <1>2, SameHolders DEF FindNoSlot, Holders
  <2>3. QueueInv'
    BY <1>2 DEF FindNoSlot, QueueInv, Pending
  <2>4. LoopInv'
    <3>1. "thread" \notin Callers => in_use >= cap
      BY <1>2, CapAssumption DEF FindNoSlot, FastPath, LoopInv, TypeOK, Caps
    <3> QED BY <3>1, <1>2 DEF FindNoSlot, LoopInv, Pending
  <2> QED BY <2>1, <2>2, <2>3, <2>4
<1>3. ASSUME NEW g \in Gens, Enqueue(g)
      PROVE  IInv'
  <2>1. gen[g] = "idle" /\ entering = g /\ g # NoGen
    BY <1>3, GensAssumption DEF Enqueue, QueueInv
  <2>2. TypeOK'
    BY <1>3 DEF Enqueue, TypeOK, GenState
  <2>3. Pending' = Pending \cup {g} /\ Holders' = Holders
    BY <1>3, <2>1 DEF Enqueue, TypeOK, Pending, QueuedIn, Holders, HoldingIn
  <2>4. SlotAccounting'
    BY <1>3, <2>3, SameHolders DEF Enqueue
  <2>5. Members(waiters') = Members(waiters) \cup {g}
    <3>1. waiters \in Seq(Gens) /\ waiters' = Append(waiters, g)
      BY <1>3 DEF Enqueue, TypeOK
    <3>2. /\ Len(waiters') = Len(waiters) + 1 /\ Len(waiters) \in Nat
          /\ \A i \in 1 .. Len(waiters) : waiters'[i] = waiters[i]
          /\ waiters'[Len(waiters) + 1] = g
      BY <3>1, AppendProperties
    <3>3. \A i \in 1 .. Len(waiters') : i \in 1 .. Len(waiters) \/ i = Len(waiters) + 1
      BY <3>2
    <3> QED BY <3>2, <3>3 DEF Members
  <2>6. QueueInv'
    BY <1>3, <2>3, <2>5 DEF Enqueue, QueueInv
  <2>7. LoopInv'
    BY <1>3, <2>1 DEF Enqueue, LoopInv
  <2> QED BY <2>2, <2>4, <2>6, <2>7
<1>4. ASSUME NEW g \in Gens, Resume(g)
      PROVE  IInv'
  <2>1. TypeOK'
    BY <1>4 DEF Resume, TypeOK, GenState
  <2>2. Pending' = Pending /\ Holders' = Holders
    BY <1>4 DEF Resume, TypeOK, Pending, QueuedIn, Holders, HoldingIn
  <2>3. SlotAccounting'
    BY <1>4, <2>2, SameHolders DEF Resume
  <2>4. QueueInv' /\ LoopInv'
    BY <1>4, <2>2 DEF Resume, LoopFree, QueueInv, LoopInv
  <2> QED BY <2>1, <2>3, <2>4
<1>5. ASSUME NEW g \in Gens, Cancel(g)
      PROVE  IInv'
  <2>1. TypeOK'
    BY <1>5 DEF Cancel, TypeOK, GenState
  <2>2. Pending' = Pending \ {g} /\ Holders' = Holders
    BY <1>5 DEF Cancel, TypeOK, Pending, QueuedIn, Holders, HoldingIn
  <2>3. SlotAccounting'
    BY <1>5, <2>2, SameHolders DEF Cancel
  <2>4. QueueInv' /\ LoopInv'
    BY <1>5, <2>2 DEF Cancel, LoopFree, QueueInv, LoopInv
  <2> QED BY <2>1, <2>3, <2>4
<1>6. ASSUME NEW g \in Gens, LeaveQueue(g)
      PROVE  IInv'
  <2>1. /\ Without(waiters, g) \in Seq(Gens)
        /\ Members(waiters) \ {g} \subseteq Members(Without(waiters, g))
    <3>1. waiters \in Seq(Gens)
      BY DEF TypeOK
    <3> QED BY <3>1, MembersWithout
  <2>2. TypeOK'
    BY <1>6, <2>1 DEF LeaveQueue, TypeOK, GenState
  <2>3. Pending' = Pending /\ Holders' = Holders /\ g \notin Pending
    BY <1>6 DEF LeaveQueue, TypeOK, Pending, QueuedIn, Holders, HoldingIn
  <2>4. SlotAccounting'
    BY <1>6, <2>3, SameHolders DEF LeaveQueue
  <2>5. QueueInv' /\ LoopInv'
    BY <1>6, <2>1, <2>3 DEF LeaveQueue, LoopFree, QueueInv, LoopInv
  <2> QED BY <2>2, <2>4, <2>5
<1>7. ASSUME NEW g \in Gens, HandBack(g) \/ Exit(g)
      PROVE  IInv'
  <2>1. /\ gen[g] \in {"holding", "revoked"} /\ ReleaseFrom([gen EXCEPT ![g] = "idle"])
        /\ LoopFree /\ UNCHANGED <<cap, loop, entering, setter, posted>>
    BY <1>7 DEF HandBack, Exit
  <2>2. /\ in_use' = Cardinality(Holders') /\ in_use' \in 0 .. MaxCap
        /\ gen' \in [Gens -> GenState] /\ waiters' \in Seq(Gens)
        /\ Pending' \subseteq Members(waiters')
        /\ Pending' # {} => in_use' >= cap
        /\ Pending' \subseteq Pending
    BY <2>1, ReleaseKeepsCount
  <2>3. TypeOK'
    BY <2>1, <2>2 DEF TypeOK
  <2>4. QueueInv' /\ LoopInv'
    BY <2>1, <2>2 DEF LoopFree, QueueInv, LoopInv
  <2> QED BY <2>2, <2>3, <2>4 DEF SlotAccounting
<1>8. ASSUME NEW c \in Caps, SetCapOnLoop(c)
      PROVE  IInv'
  <2>1. /\ cap' = c /\ LoopFree /\ UNCHANGED <<loop, entering, setter, posted>>
    BY <1>8 DEF SetCapOnLoop
  <2>2. CASE ~loop
    <3>1. UNCHANGED <<in_use, waiters, gen>>
      BY <1>8, <2>2 DEF SetCapOnLoop
    <3>2. Pending = {}
      BY <2>2 DEF QueueInv
    <3>3. TypeOK' /\ SlotAccounting' /\ QueueInv'
      BY <2>1, <3>1 DEF TypeOK, SlotAccounting, QueueInv, Pending, Holders
    <3>4. LoopInv'
      BY <2>1, <3>1, <3>2 DEF LoopFree, LoopInv, Pending
    <3> QED BY <3>3, <3>4
  <2>3. CASE loop
    <3>1. WakeFrom(Cardinality(HoldingIn(gen)), c, gen)
      BY <1>8, <2>3 DEF SetCapOnLoop, SlotAccounting, Holders
    <3>2. /\ waiters \in Seq(Gens) /\ gen \in [Gens -> GenState]
          /\ QueuedIn(gen) \subseteq Members(waiters)
          /\ Cardinality(HoldingIn(gen)) \in 0 .. MaxCap
      BY DEF TypeOK, SlotAccounting, Holders, QueueInv, Pending
    <3>3. /\ in_use' = Cardinality(HoldingIn(gen')) /\ in_use' \in 0 .. MaxCap
          /\ gen' \in [Gens -> GenState] /\ waiters' \in Seq(Gens)
          /\ QueuedIn(gen') \subseteq Members(waiters')
          /\ QueuedIn(gen') # {} => in_use' >= c
      BY <3>1, <3>2, WakeKeepsCount
    <3>4. TypeOK' /\ SlotAccounting'
      BY <2>1, <3>3 DEF TypeOK, SlotAccounting, Holders
    <3>5. QueueInv' /\ LoopInv'
      BY <2>1, <2>3, <3>3 DEF LoopFree, QueueInv, LoopInv, Pending
    <3> QED BY <3>4, <3>5
  <2> QED BY <2>2, <2>3
<1>9. ASSUME NEW c \in Caps, SetCapInThread(c)
      PROVE  IInv'
  <2>1. TypeOK'
    BY <1>9 DEF SetCapInThread, TypeOK
  <2>2. SlotAccounting' /\ QueueInv' /\ LoopInv'
    BY <1>9 DEF SetCapInThread, SlotAccounting, Holders, QueueInv, Pending, LoopInv
  <2> QED BY <2>1, <2>2
<1>10. ASSUME PostWake
       PROVE  IInv'
  <2>1. TypeOK'
    BY <1>10, PostsAssumption DEF PostWake, TypeOK, QueueInv
  <2>2. SlotAccounting' /\ QueueInv' /\ LoopInv'
    BY <1>10 DEF PostWake, SlotAccounting, Holders, QueueInv, Pending, LoopInv
  <2> QED BY <2>1, <2>2
<1>11. ASSUME RunPostedWake
       PROVE  IInv'
  <2>1. /\ posted \in 1 .. MaxPosts /\ posted' = posted - 1 /\ LoopFree
        /\ UNCHANGED <<cap, loop, entering, setter>>
    BY <1>11, PostsAssumption DEF RunPostedWake, TypeOK
  <2>2. /\ WakeFrom(Cardinality(HoldingIn(gen)), cap, gen) /\ cap \in Caps
        /\ waiters \in Seq(Gens) /\ gen \in [Gens -> GenState]
        /\ QueuedIn(gen) \subseteq Members(waiters)
        /\ Cardinality(HoldingIn(gen)) \in 0 .. MaxCap
    BY <1>11 DEF RunPostedWake, TypeOK, SlotAccounting, Holders, QueueInv, Pending
  <2>3. /\ in_use' = Cardinality(HoldingIn(gen')) /\ in_use' \in 0 .. MaxCap
        /\ gen' \in [Gens -> GenState] /\ waiters' \in Seq(Gens)
        /\ QueuedIn(gen') \subseteq Members(waiters')
        /\ QueuedIn(gen') \subseteq QueuedIn(gen)
    BY <2>2, WakeKeepsCount
  <2>4. TypeOK' /\ SlotAccounting'
    BY <2>1, <2>3, PostsAssumption DEF TypeOK, SlotAccounting, Holders
  <2>5. QueueInv' /\ LoopInv'
    BY <2>1, <2>3, PostsAssumption DEF LoopFree, QueueInv, LoopInv, Pending
  <2> QED BY <2>4, <2>5
<1>12. CASE UNCHANGED vars
  BY <1>12 DEF vars, TypeOK, SlotAccounting, Holders, QueueInv, Pending, LoopInv
<1> QED
  BY <1>1, <1>2, <1>3, <1>4, <1>5, <1>6, <1>7, <1>8, <1>9, <1>10, <1>11, <1>12 DEF Next

-----------------------------------------------------------------------------
(* The results. *)

\* The inductive invariant holds in every reachable state.
LEMMA Invariance == Spec => []IInv
BY InitIInv, NextIInv, PTL DEF Spec

\* The type invariant.
THEOREM TypeCorrect == Spec => []TypeOK
<1>1. IInv => TypeOK
  BY DEF IInv
<1> QED BY <1>1, Invariance, PTL

\* No slot leaks and none is given back twice, for any number of generations,
\* any cap and cap changes from the loop and from worker threads.
THEOREM SlotsAccounted == Spec => []SlotAccounting
<1>1. IInv => SlotAccounting
  BY DEF IInv
<1> QED BY <1>1, Invariance, PTL

\* As long as the cap is set on the event loop, nobody waits next to a free slot.
THEOREM NoIdleSlotOnLoop ==
  ASSUME "thread" \notin Callers
  PROVE  Spec => []NoIdleSlot
<1>1. IInv => NoIdleSlot
  BY CapAssumption DEF IInv, TypeOK, Caps, LoopInv, NoIdleSlot
<1> QED BY <1>1, Invariance, PTL

\* A lowered cap is respected by every later start: no step takes a slot above it.
THEOREM NoStartAboveCapHolds == Spec => NoStartAboveCap
<1>1. ASSUME IInv, Next, in_use' > in_use
      PROVE  in_use' <= cap'
  <2> USE <1>1 DEF IInv
  <2>1. /\ in_use \in 0 .. MaxCap /\ cap \in Caps /\ waiters \in Seq(Gens)
        /\ gen \in [Gens -> GenState] /\ QueuedIn(gen) \subseteq Members(waiters)
        /\ in_use = Cardinality(HoldingIn(gen))
    BY DEF TypeOK, QueueInv, Pending, SlotAccounting, Holders
  <2>2. ASSUME NEW c \in Caps, WakeFrom(in_use, c, gen)
        PROVE  in_use' <= c
    <3>1. in_use' <= c \/ in_use' = Cardinality(HoldingIn(gen))
      BY <2>1, <2>2, WakeKeepsCount
    <3> QED BY <2>1, <3>1
  <2>3. ASSUME NEW g \in Gens, Enter(g)
        PROVE  in_use' <= cap'
    BY <2>1, <2>3, CapAssumption DEF Enter, FastPath, Caps
  <2>4. ASSUME NEW g \in Gens, HandBack(g) \/ Exit(g)
        PROVE  in_use' <= cap'
    <3>1. /\ gen[g] \in {"holding", "revoked"} /\ ReleaseFrom([gen EXCEPT ![g] = "idle"])
          /\ cap' = cap
      BY <2>4 DEF HandBack, Exit
    <3>2. in_use' \in 0 .. MaxCap /\ (in_use' <= cap \/ in_use' < in_use)
      BY <3>1, ReleaseKeepsCount
    <3> QED BY <2>1, <3>1, <3>2, CapAssumption
  <2>5. ASSUME NEW c \in Caps, SetCapOnLoop(c)
        PROVE  in_use' <= cap'
    <3>1. cap' = c /\ (WakeFrom(in_use, c, gen) \/ in_use' = in_use)
      BY <2>5 DEF SetCapOnLoop
    <3> QED BY <2>1, <2>2, <3>1, CapAssumption
  <2>6. CASE RunPostedWake
    BY <2>1, <2>2, <2>6 DEF RunPostedWake
  <2>7. ASSUME \/ \E g \in Gens : FindNoSlot(g) \/ Enqueue(g) \/ Resume(g) \/ Cancel(g) \/ LeaveQueue(g)
               \/ \E c \in Caps : SetCapInThread(c)
               \/ PostWake
        PROVE  FALSE
    <3>1. in_use' = in_use
      BY <2>7 DEF FindNoSlot, Enqueue, Resume, Cancel, LeaveQueue, SetCapInThread, PostWake
    <3> QED BY <2>1, <3>1, CapAssumption
  <2> QED BY <2>3, <2>4, <2>5, <2>6, <2>7 DEF Next
<1>2. IInv /\ [Next]_vars => [in_use' > in_use => in_use' <= cap']_vars
  BY <1>1
<1> QED BY <1>2, Invariance, PTL DEF Spec, NoStartAboveCap

-----------------------------------------------------------------------------
(* The order of the line. *)

\* What _wake pops is a front of the deque, and the pending ones of it get slots.
LEMMA WakePops ==
  ASSUME waiters \in Seq(Gens), NEW st \in [Gens -> GenState], NEW used, NEW limit, WakeFrom(used, limit, st)
  PROVE  \E k \in 0 .. Len(waiters) :
           /\ gen' = [g \in Gens |-> IF g \in HandedBy(waiters, QueuedIn(st), k) THEN "granted" ELSE st[g]]
           /\ waiters' \in Seq(Gens) /\ Len(waiters') = Len(waiters) - k
           /\ \A i \in 1 .. Len(waiters) - k : waiters'[i] = waiters[k + i]
<1> DEFINE k == PrefixPopped(waiters, QueuedIn(st), used, limit)
<1>1. k \in 0 .. Len(waiters)
  BY PrefixIs
<1>2. /\ gen' = [g \in Gens |-> IF g \in HandedBy(waiters, QueuedIn(st), k) THEN "granted" ELSE st[g]]
      /\ waiters' = SubSeq(waiters, k + 1, Len(waiters))
  BY DEF WakeFrom
<1> HIDE DEF k
<1>3. /\ waiters' \in Seq(Gens) /\ Len(waiters') = Len(waiters) - k
      /\ \A i \in 1 .. Len(waiters) - k : waiters'[i] = waiters[k + i]
  <2>1. Len(waiters) \in Nat /\ \A i \in 1 .. Len(waiters) : waiters[i] \in Gens
    OBVIOUS
  <2>2. \A i \in k + 1 .. Len(waiters) : waiters[i] \in Gens
    BY <1>1, <2>1
  <2>3. CASE k = Len(waiters)
    <3>1. waiters' = <<>>
      BY <1>2, <2>1, <2>3, SubSeqProperties
    <3> QED BY <2>1, <2>3, <3>1
  <2>4. CASE k < Len(waiters)
    BY <1>1, <1>2, <2>1, <2>2, <2>4, SubSeqProperties
  <2> QED BY <1>1, <2>1, <2>3, <2>4
<1> QED BY <1>1, <1>2, <1>3

\* Who gets a slot stood before everybody who still waits, and those who still
\* wait keep their order.
LEMMA WakeKeepsLine ==
  ASSUME waiters \in Seq(Gens), NEW st \in [Gens -> GenState], NEW used, NEW limit,
         QueuedIn(st) \subseteq Members(waiters), WakeFrom(used, limit, st)
  PROVE  \E handed \in SUBSET QueuedIn(st) :
           /\ gen' = [g \in Gens |-> IF g \in handed THEN "granted" ELSE st[g]]
           /\ QueuedIn(gen') = QueuedIn(st) \ handed
           /\ HoldingIn(gen') = HoldingIn(st) \cup handed /\ HoldingIn(st) \cap handed = {}
           /\ \A h \in handed, g \in QueuedIn(st) \ handed : Before(h, g)
           /\ \A h, g \in QueuedIn(st) \ handed : Before(h, g) <=> Before(h, g)'
<1>1. PICK k \in 0 .. Len(waiters) :
           /\ gen' = [g \in Gens |-> IF g \in HandedBy(waiters, QueuedIn(st), k) THEN "granted" ELSE st[g]]
           /\ waiters' \in Seq(Gens) /\ Len(waiters') = Len(waiters) - k
           /\ \A i \in 1 .. Len(waiters) - k : waiters'[i] = waiters[k + i]
  BY WakePops
<1> DEFINE handed == HandedBy(waiters, QueuedIn(st), k)
<1>2. handed \in SUBSET QueuedIn(st) /\ Len(waiters) \in Nat
  BY DEF HandedBy
<1>3. \A i \in 1 .. Len(waiters) : waiters[i] \in QueuedIn(st) \ handed => i > k
  BY <1>1 DEF HandedBy
<1>4. \A h \in handed : \E i \in 1 .. k : waiters[i] = h
  BY DEF HandedBy
<1>5. ASSUME NEW h \in handed, NEW g \in QueuedIn(st) \ handed PROVE Before(h, g)
  <2>1. PICK i \in 1 .. k : waiters[i] = h
    BY <1>4
  <2>2. PICK j \in 1 .. Len(waiters) : waiters[j] = g
    BY DEF Members
  <2>3. j > k
    BY <1>3, <2>2
  <2>4. i \in 1 .. Len(waiters) /\ i < j
    BY <1>1, <1>2, <2>1, <2>2, <2>3
  <2> QED BY <2>1, <2>2, <2>4 DEF Before
<1>6. ASSUME NEW h \in QueuedIn(st) \ handed, NEW g \in QueuedIn(st) \ handed
      PROVE  Before(h, g) <=> Before(h, g)'
  <2>1. ASSUME NEW i \in 1 .. Len(waiters), NEW j \in 1 .. Len(waiters),
               i < j, waiters[i] = h, waiters[j] = g
        PROVE  Before(h, g)'
    <3>1. i > k /\ j > k
      BY <1>3, <2>1
    <3>2. i - k \in 1 .. Len(waiters') /\ j - k \in 1 .. Len(waiters') /\ i - k < j - k
      BY <1>1, <1>2, <2>1, <3>1
    <3>3. waiters'[i - k] = waiters[i] /\ waiters'[j - k] = waiters[j]
      BY <1>1, <1>2, <3>1, <3>2
    <3> QED BY <2>1, <3>2, <3>3 DEF Before
  <2>2. ASSUME NEW i \in 1 .. Len(waiters'), NEW j \in 1 .. Len(waiters'),
               i < j, waiters'[i] = h, waiters'[j] = g
        PROVE  Before(h, g)
    <3>1. k + i \in 1 .. Len(waiters) /\ k + j \in 1 .. Len(waiters) /\ k + i < k + j
      BY <1>1, <1>2, <2>2
    <3>2. waiters[k + i] = h /\ waiters[k + j] = g
      BY <1>1, <1>2, <2>2
    <3> QED BY <3>1, <3>2 DEF Before
  <2> QED BY <2>1, <2>2 DEF Before
<1> HIDE DEF handed
<1>7. QueuedIn(gen') = QueuedIn(st) \ handed
  BY <1>1, <1>2 DEF handed, QueuedIn
<1>8. HoldingIn(gen') = HoldingIn(st) \cup handed /\ HoldingIn(st) \cap handed = {}
  BY <1>1, <1>2 DEF handed, QueuedIn, HoldingIn
<1>9. gen' = [g \in Gens |-> IF g \in handed THEN "granted" ELSE st[g]]
  BY <1>1 DEF handed
<1> QED BY <1>2, <1>5, <1>6, <1>7, <1>8, <1>9

\* Slots are given in order of arrival: nobody who gets one overtakes a generation
\* that was waiting before and still is.
THEOREM NoOvertakingHolds == Spec => NoOvertaking
<1> DEFINE Fair == \A h \in Holders' \ Holders : \A g \in Pending \cap Pending' : Before(h, g)
<1>1. ASSUME IInv, Next PROVE Fair
  <2> SUFFICES ASSUME NEW h \in Holders' \ Holders, NEW g \in Pending \cap Pending'
               PROVE  Before(h, g)
    OBVIOUS
  <2>1. /\ waiters \in Seq(Gens) /\ gen \in [Gens -> GenState]
        /\ QueuedIn(gen) \subseteq Members(waiters)
    BY <1>1 DEF IInv, TypeOK, QueueInv, Pending
  <2>2. ASSUME NEW st \in [Gens -> GenState], NEW used, NEW limit, WakeFrom(used, limit, st),
               QueuedIn(st) = QueuedIn(gen), HoldingIn(st) \subseteq HoldingIn(gen)
        PROVE  Before(h, g)
    BY <2>1, <2>2, WakeKeepsLine DEF Holders, Pending
  <2>3. ASSUME NEW u \in Gens, Enter(u) PROVE FALSE
    BY <2>3 DEF Enter, FastPath
  <2>4. ASSUME NEW u \in Gens, HandBack(u) \/ Exit(u) PROVE Before(h, g)
    <3> DEFINE st == [gen EXCEPT ![u] = "idle"]
    <3>1. ReleaseFrom(st) /\ gen[u] \in {"holding", "revoked"}
      BY <2>4 DEF HandBack, Exit
    <3>2. /\ st \in [Gens -> GenState] /\ QueuedIn(st) = QueuedIn(gen)
          /\ HoldingIn(st) \subseteq HoldingIn(gen)
      BY <2>1, <3>1 DEF GenState, QueuedIn, HoldingIn
    <3> HIDE DEF st
    <3> QED BY <2>2, <3>1, <3>2 DEF ReleaseFrom
  <2>5. ASSUME NEW c \in Caps, SetCapOnLoop(c) PROVE Before(h, g)
    <3>1. CASE loop
      BY <2>1, <2>2, <2>5, <3>1 DEF SetCapOnLoop
    <3>2. CASE ~loop
      BY <2>5, <3>2 DEF SetCapOnLoop, Holders
    <3> QED BY <3>1, <3>2
  <2>6. CASE RunPostedWake
    BY <2>1, <2>2, <2>6 DEF RunPostedWake
  <2>7. ASSUME NEW u \in Gens, FindNoSlot(u) \/ Enqueue(u) \/ Resume(u) \/ Cancel(u) \/ LeaveQueue(u)
        PROVE  FALSE
    BY <1>1, <2>1, <2>7, GensAssumption
       DEF FindNoSlot, Enqueue, Resume, Cancel, LeaveQueue, Holders, HoldingIn, GenState, IInv, QueueInv
  <2>8. ASSUME (\E c \in Caps : SetCapInThread(c)) \/ PostWake PROVE FALSE
    BY <2>8 DEF SetCapInThread, PostWake, Holders
  <2> QED BY <1>1, <2>3, <2>4, <2>5, <2>6, <2>7, <2>8 DEF Next
<1>2. IInv /\ [Next]_vars => [Fair]_vars
  BY <1>1
<1> QED BY <1>2, Invariance, PTL DEF Spec, NoOvertaking

-----------------------------------------------------------------------------
(* The abstract queue. *)

\* The deque holds a future once, pending or cancelled: one that is done has been popped,
\* and a generation that left has taken its own out.
OnceInv ==
  /\ \A i, j \in 1 .. Len(waiters) : waiters[i] = waiters[j] => i = j
  /\ \A i \in 1 .. Len(waiters) : gen[waiters[i]] \in {"queued", "cancelled"}

\* _wake leaves futures in the deque that it has not looked at.
LEMMA WakeOnce ==
  ASSUME IInv, OnceInv, NEW used, NEW limit, NEW st \in [Gens -> GenState],
         \A x \in Gens : gen[x] \in {"queued", "cancelled"} => st[x] = gen[x],
         WakeFrom(used, limit, st)
  PROVE  OnceInv'
<1>1. waiters \in Seq(Gens)
  BY DEF IInv, TypeOK
<1>3. PICK k \in 0 .. Len(waiters) :
           /\ gen' = [x \in Gens |-> IF x \in HandedBy(waiters, QueuedIn(st), k) THEN "granted" ELSE st[x]]
           /\ waiters' \in Seq(Gens) /\ Len(waiters') = Len(waiters) - k
           /\ \A i \in 1 .. Len(waiters) - k : waiters'[i] = waiters[k + i]
  BY <1>1, WakePops
<1>4. Len(waiters) \in Nat /\ \A i \in 1 .. Len(waiters') : k + i \in 1 .. Len(waiters) /\ waiters'[i] = waiters[k + i]
  BY <1>1, <1>3
<1>5. ASSUME NEW i \in 1 .. Len(waiters'), NEW j \in 1 .. Len(waiters'), waiters'[i] = waiters'[j]
      PROVE  i = j
  <2>1. k + i = k + j
    BY <1>4, <1>5 DEF OnceInv
  <2> QED BY <1>3, <1>4, <2>1
<1>6. ASSUME NEW i \in 1 .. Len(waiters')
      PROVE  gen'[waiters'[i]] \in {"queued", "cancelled"}
  <2> DEFINE x == waiters[k + i]
  <2>1. x \in Gens /\ gen[x] \in {"queued", "cancelled"} /\ waiters'[i] = x
    BY <1>1, <1>4 DEF OnceInv
  <2>2. x \notin HandedBy(waiters, QueuedIn(st), k)
    <3>1. ASSUME NEW n \in 1 .. k, waiters[n] = x PROVE FALSE
      <4>1. n \in 1 .. Len(waiters) /\ n # k + i
        BY <1>3, <1>4
      <4> QED BY <1>4, <3>1, <4>1 DEF OnceInv
    <3> QED BY <3>1 DEF HandedBy
  <2> QED BY <1>3, <2>1, <2>2
<1> QED BY <1>5, <1>6 DEF OnceInv

\* deque.remove on a deque that holds a future once.
LEMMA WithoutPlaces ==
  ASSUME IInv, OnceInv, NEW g \in Gens, g \in Members(waiters)
  PROVE  \E k \in 1 .. Len(waiters) :
           /\ waiters[k] = g
           /\ Without(waiters, g) \in Seq(Gens)
           /\ Len(Without(waiters, g)) = Len(waiters) - 1
           /\ \A n \in 1 .. Len(waiters) - 1 :
                Without(waiters, g)[n] = waiters[IF n < k THEN n ELSE n + 1]
<1>1. waiters \in Seq(Gens) /\ Len(waiters) \in Nat
  BY DEF IInv, TypeOK
<1>2. PICK n \in 1 .. Len(waiters) : waiters[n] = g
  BY DEF Members
<1>3. \A j \in 1 .. n - 1 : waiters[j] # g
  <2> SUFFICES ASSUME NEW j \in 1 .. n - 1, waiters[j] = g PROVE FALSE
    OBVIOUS
  <2>1. j \in 1 .. Len(waiters) /\ j # n
    BY <1>1, <1>2
  <2> QED BY <1>2, <2>1 DEF OnceInv
<1> DEFINE k == FirstAt(waiters, g)
<1>4. k \in 1 .. Len(waiters) /\ waiters[k] = g
  BY <1>2, <1>3 DEF FirstAt
<1> DEFINE a == SubSeq(waiters, 1, k - 1)
           b == SubSeq(waiters, k + 1, Len(waiters))
<1>5. Without(waiters, g) = a \o b
  BY DEF Without
<1> HIDE DEF k
<1>6. a \in Seq(Gens) /\ Len(a) = k - 1 /\ \A i \in 1 .. k - 1 : a[i] = waiters[i]
  BY <1>1, <1>4, SubSeqProperties
<1>7. b \in Seq(Gens) /\ Len(b) = Len(waiters) - k /\ \A i \in 1 .. Len(waiters) - k : b[i] = waiters[k + i]
  BY <1>1, <1>4, SubSeqProperties
<1> HIDE DEF a, b
<1>8. /\ a \o b \in Seq(Gens) /\ Len(a \o b) = Len(waiters) - 1
      /\ \A i \in 1 .. Len(a) + Len(b) : (a \o b)[i] = IF i <= Len(a) THEN a[i] ELSE b[i - Len(a)]
  BY <1>1, <1>4, <1>6, <1>7, ConcatProperties
<1>9. ASSUME NEW i \in 1 .. Len(waiters) - 1
      PROVE  (a \o b)[i] = waiters[IF i < k THEN i ELSE i + 1]
  <2>1. CASE i < k
    BY <1>1, <1>4, <1>6, <1>7, <1>8, <2>1
  <2>2. CASE ~(i < k)
    <3>1. i - Len(a) \in 1 .. Len(waiters) - k /\ k + (i - Len(a)) = i + 1
      BY <1>1, <1>4, <1>6, <2>2
    <3>2. (a \o b)[i] = b[i - Len(a)]
      BY <1>1, <1>4, <1>6, <1>7, <1>8, <2>2
    <3> QED BY <1>7, <2>2, <3>1, <3>2
  <2> QED BY <2>1, <2>2
<1> QED BY <1>4, <1>5, <1>8, <1>9

\* Every step keeps the deque's futures apart.
LEMMA NextOnce == IInv /\ OnceInv /\ [Next]_vars => OnceInv'
<1> SUFFICES ASSUME IInv, OnceInv, [Next]_vars PROVE OnceInv'
  OBVIOUS
<1>1. /\ waiters \in Seq(Gens) /\ gen \in [Gens -> GenState] /\ Len(waiters) \in Nat
      /\ \A i \in 1 .. Len(waiters) : waiters[i] \in Gens
  BY DEF IInv, TypeOK
<1>2. ASSUME UNCHANGED waiters, \A x \in Gens : gen[x] \in {"queued", "cancelled"} => gen'[x] \in {"queued", "cancelled"}
      PROVE  OnceInv'
  BY <1>1, <1>2 DEF OnceInv
<1>3. ASSUME NEW g \in Gens, Enter(g) \/ FindNoSlot(g) \/ Resume(g) \/ Cancel(g) PROVE OnceInv'
  BY <1>1, <1>2, <1>3 DEF Enter, FindNoSlot, Resume, Cancel
<1>4. ASSUME NEW g \in Gens, Enqueue(g) PROVE OnceInv'
  <2>1. gen[g] = "idle"
    BY <1>4, GensAssumption DEF Enqueue, IInv, QueueInv
  <2>2. /\ gen' = [gen EXCEPT ![g] = "queued"] /\ Len(waiters') = Len(waiters) + 1
        /\ \A i \in 1 .. Len(waiters) : waiters'[i] = waiters[i]
        /\ waiters'[Len(waiters) + 1] = g
    BY <1>1, <1>4, AppendProperties DEF Enqueue
  <2>3. \A i \in 1 .. Len(waiters) : waiters[i] # g
    BY <2>1 DEF OnceInv
  <2>4. \A i \in 1 .. Len(waiters') : i \in 1 .. Len(waiters) \/ i = Len(waiters) + 1
    BY <1>1, <2>2
  <2>5. ASSUME NEW i \in 1 .. Len(waiters'), NEW j \in 1 .. Len(waiters'), waiters'[i] = waiters'[j]
        PROVE  i = j
    BY <2>2, <2>3, <2>4, <2>5 DEF OnceInv
  <2>6. ASSUME NEW i \in 1 .. Len(waiters') PROVE gen'[waiters'[i]] \in {"queued", "cancelled"}
    BY <1>1, <2>2, <2>3, <2>4 DEF OnceInv
  <2> QED BY <2>5, <2>6 DEF OnceInv
<1>5. ASSUME NEW g \in Gens, LeaveQueue(g) PROVE OnceInv'
  <2>1. waiters' = Without(waiters, g) /\ gen' = [gen EXCEPT ![g] = "idle"]
    BY <1>5 DEF LeaveQueue
  <2>2. CASE g \notin Members(waiters)
    BY <1>1, <2>1, <2>2 DEF Without, Members, OnceInv
  <2>3. CASE g \in Members(waiters)
    <3>1. PICK k \in 1 .. Len(waiters) :
               /\ waiters[k] = g /\ Len(waiters') = Len(waiters) - 1
               /\ \A n \in 1 .. Len(waiters) - 1 : waiters'[n] = waiters[IF n < k THEN n ELSE n + 1]
      BY <2>1, <2>3, WithoutPlaces
    <3> DEFINE At(n) == IF n < k THEN n ELSE n + 1
    <3>2. \A n \in 1 .. Len(waiters') : At(n) \in 1 .. Len(waiters) /\ At(n) # k /\ waiters'[n] = waiters[At(n)]
      BY <1>1, <3>1
    <3>3. \A n, m \in 1 .. Len(waiters') : At(n) = At(m) => n = m
      BY <1>1, <3>1
    <3> HIDE DEF At
    <3>4. \A n \in 1 .. Len(waiters') : waiters[At(n)] # g
      BY <3>1, <3>2 DEF OnceInv
    <3>5. ASSUME NEW n \in 1 .. Len(waiters') PROVE gen'[waiters'[n]] \in {"queued", "cancelled"}
      BY <1>1, <2>1, <3>2, <3>4 DEF OnceInv
    <3>6. ASSUME NEW n \in 1 .. Len(waiters'), NEW m \in 1 .. Len(waiters'), waiters'[n] = waiters'[m]
          PROVE  n = m
      BY <3>2, <3>3, <3>6 DEF OnceInv
    <3> QED BY <3>5, <3>6 DEF OnceInv
  <2> QED BY <2>2, <2>3
<1>6. ASSUME NEW g \in Gens, HandBack(g) \/ Exit(g) PROVE OnceInv'
  <2>1. gen[g] \in {"holding", "revoked"} /\ ReleaseFrom([gen EXCEPT ![g] = "idle"])
    BY <1>6 DEF HandBack, Exit
  <2> DEFINE st == [gen EXCEPT ![g] = "idle"]
  <2>2. /\ st \in [Gens -> GenState]
        /\ \A x \in Gens : gen[x] \in {"queued", "cancelled"} => st[x] = gen[x]
    BY <1>1, <2>1 DEF GenState
  <2> HIDE DEF st
  <2> QED BY <2>1, <2>2, WakeOnce DEF ReleaseFrom, st
<1>7. ASSUME NEW used, NEW limit, WakeFrom(used, limit, gen) PROVE OnceInv'
  BY <1>1, <1>7, WakeOnce
<1>8. ASSUME NEW c \in Caps, SetCapOnLoop(c) PROVE OnceInv'
  BY <1>2, <1>7, <1>8 DEF SetCapOnLoop
<1>9. CASE RunPostedWake
  BY <1>7, <1>9 DEF RunPostedWake
<1>10. ASSUME (\E c \in Caps : SetCapInThread(c)) \/ PostWake \/ UNCHANGED vars PROVE OnceInv'
  BY <1>2, <1>10 DEF SetCapInThread, PostWake, vars
<1> QED BY <1>3, <1>4, <1>5, <1>6, <1>8, <1>9, <1>10 DEF Next

\* The abstract queue counts as the limiter does.
LEMMA SameCount == \A S : Abstract!Cardinality(S) = Cardinality(S)
BY DEF Abstract!Cardinality, Abstract!IsFiniteSet, Cardinality, IsFiniteSet

\* Some of the pending futures stay as they were: the line keeps its order.
LEMMA LineRemains ==
  ASSUME NEW W \in SUBSET Pending, Pending' = W,
         \A h, g \in W : Before(h, g) <=> Before(h, g)'
  PROVE  Abstract!Remain(W)
<1>1. Line' = {p \in W \X W : Before(p[1], p[2])'}
  BY DEF Line
<1>2. \A p \in W \X W : p[1] \in W /\ p[2] \in W
  OBVIOUS
<1>3. Line \cap (W \X W) = {p \in W \X W : Before(p[1], p[2])}
  BY DEF Line
<1>4. Line' = Line \cap (W \X W)
  BY <1>1, <1>2, <1>3
<1> QED BY <1>4 DEF Abstract!Remain

\* As long as nothing waits or stops waiting, the line is the line.
LEMMA LineStays ==
  ASSUME Pending' = Pending, \A h, g \in Pending : Before(h, g) <=> Before(h, g)'
  PROVE  Line' = Line
<1>1. Abstract!Remain(Pending)
  BY LineRemains
<1> QED BY <1>1 DEF Abstract!Remain, Line

\* _wake admits the front of the line next to those that hold slots already.
LEMMA WakeAdmits ==
  ASSUME IInv, NEW st \in [Gens -> GenState], NEW limit \in Caps,
         QueuedIn(st) = Pending, HoldingIn(st) \subseteq Holders,
         WakeFrom(Cardinality(HoldingIn(st)), limit, st)
  PROVE  \E front \in SUBSET Pending :
           /\ Abstract!AdmitFront(HoldingIn(st), limit, front)
           /\ front = {} => Pending' = Pending /\ Holders' = HoldingIn(st) /\ Line' = Line
<1> DEFINE used == Cardinality(HoldingIn(st))
<1>1. waiters \in Seq(Gens) /\ QueuedIn(st) \subseteq Members(waiters)
  BY DEF IInv, TypeOK, QueueInv
<1>2. used \in 0 .. MaxCap
  <2>1. IsFiniteSet(Holders) /\ Cardinality(Holders) \in 0 .. MaxCap /\ Cardinality(Holders) \in Nat
    BY HoldersFinite DEF IInv, SlotAccounting, TypeOK, Holders
  <2>2. Cardinality(HoldingIn(st)) <= Cardinality(Holders) /\ Cardinality(HoldingIn(st)) \in Nat
    BY <2>1, FS_Subset, HoldersFinite
  <2> QED BY <2>1, <2>2, CapAssumption
<1> HIDE DEF used
<1>3. PICK front \in SUBSET QueuedIn(st) :
           /\ gen' = [g \in Gens |-> IF g \in front THEN "granted" ELSE st[g]]
           /\ QueuedIn(gen') = QueuedIn(st) \ front
           /\ HoldingIn(gen') = HoldingIn(st) \cup front /\ HoldingIn(st) \cap front = {}
           /\ \A h \in front, g \in QueuedIn(st) \ front : Before(h, g)
           /\ \A h, g \in QueuedIn(st) \ front : Before(h, g) <=> Before(h, g)'
  <2>1. WakeFrom(used, limit, st)
    BY DEF used
  <2> QED BY <1>1, <2>1, WakeKeepsLine
<1>4. PICK handed \in SUBSET QueuedIn(st) :
           /\ gen' = [g \in Gens |-> IF g \in handed THEN "granted" ELSE st[g]]
           /\ in_use' = used + Cardinality(handed)
           /\ in_use' <= limit \/ in_use' = used
  BY <1>1, <1>2, WakeEffect DEF used
<1>5. handed = front
  <2>1. \A g \in QueuedIn(st) : g \in Gens /\ st[g] = "queued"
    BY DEF QueuedIn
  <2>2. \A g \in QueuedIn(st) : g \in handed <=> gen'[g] = "granted"
    BY <1>4, <2>1
  <2>3. \A g \in QueuedIn(st) : g \in front <=> gen'[g] = "granted"
    BY <1>3, <2>1
  <2> QED BY <2>2, <2>3
<1>6. front # {} => used + Cardinality(front) <= limit
  <2> SUFFICES ASSUME front # {} PROVE used + Cardinality(front) <= limit
    OBVIOUS
  <2>1. IsFiniteSet(front) /\ Cardinality(front) \in Nat /\ Cardinality(front) # 0
    <3>1. front \in SUBSET Gens
      BY DEF QueuedIn
    <3> QED BY <3>1, GensAssumption, FS_Subset, FS_CardinalityType, FS_EmptySet
  <2> QED BY <1>2, <1>4, <1>5, <2>1
<1>7. Pending' = Pending \ front /\ Holders' = HoldingIn(st) \cup front
  BY <1>3 DEF Pending, Holders
<1>8. Abstract!Remain(Pending \ front)
  BY <1>3, <1>7, LineRemains
<1>9. Abstract!Front(front)
  <2>1. \A p \in front \X (Pending \ front) : Before(p[1], p[2]) /\ p[1] \in Pending /\ p[2] \in Pending
    BY <1>3
  <2> QED BY <2>1 DEF Abstract!Front, Line
<1>10. Abstract!AdmitFront(HoldingIn(st), limit, front)
  BY <1>6, <1>7, <1>8, <1>9, SameCount DEF Abstract!AdmitFront, used
<1>11. ASSUME front = {} PROVE Pending' = Pending /\ Holders' = HoldingIn(st) /\ Line' = Line
  <2>1. Pending' = Pending /\ Holders' = HoldingIn(st)
    BY <1>7, <1>11
  <2>2. Line' = Line
    BY <1>3, <1>11, <2>1, LineStays
  <2> QED BY <2>1, <2>2
<1> QED BY <1>3, <1>10, <1>11

\* A future that is removed from the deque leaves the others in their order.
LEMMA RemoveKeepsOrder ==
  ASSUME IInv, OnceInv, NEW g \in Gens, waiters' = Without(waiters, g),
         NEW a \in Gens \ {g}, NEW b \in Gens \ {g}
  PROVE  Before(a, b) <=> Before(a, b)'
<1>1. CASE g \notin Members(waiters)
  BY <1>1 DEF Without, Before
<1>2. CASE g \in Members(waiters)
  <2>1. PICK k \in 1 .. Len(waiters) :
           /\ waiters[k] = g /\ Len(waiters') = Len(waiters) - 1
           /\ \A n \in 1 .. Len(waiters) - 1 : waiters'[n] = waiters[IF n < k THEN n ELSE n + 1]
    BY <1>2, WithoutPlaces
  <2>2. Len(waiters) \in Nat
    BY DEF IInv, TypeOK
  <2> DEFINE At(n) == IF n < k THEN n ELSE n + 1
             From(n) == IF n < k THEN n ELSE n - 1
  <2>3. \A n \in 1 .. Len(waiters') : At(n) \in 1 .. Len(waiters) /\ waiters'[n] = waiters[At(n)]
    BY <2>1, <2>2
  <2>4. \A n, m \in 1 .. Len(waiters') : n < m => At(n) < At(m)
    BY <2>1, <2>2
  <2>5. \A n \in 1 .. Len(waiters) : n # k => From(n) \in 1 .. Len(waiters') /\ waiters'[From(n)] = waiters[n]
    <3> SUFFICES ASSUME NEW n \in 1 .. Len(waiters), n # k
                 PROVE  From(n) \in 1 .. Len(waiters') /\ waiters'[From(n)] = waiters[n]
      OBVIOUS
    <3>1. From(n) \in 1 .. Len(waiters')
      BY <2>1, <2>2
    <3>2. At(From(n)) = n
      BY <2>1, <2>2
    <3> QED BY <2>3, <3>1, <3>2
  <2>6. \A n, m \in 1 .. Len(waiters) : n < m /\ n # k /\ m # k => From(n) < From(m)
    BY <2>1, <2>2
  <2> HIDE DEF At, From
  <2>7. ASSUME Before(a, b) PROVE Before(a, b)'
    <3>1. PICK i, j \in 1 .. Len(waiters) : i < j /\ waiters[i] = a /\ waiters[j] = b
      BY <2>7 DEF Before
    <3>2. i # k /\ j # k
      BY <2>1, <3>1
    <3> QED BY <2>5, <2>6, <3>1, <3>2 DEF Before
  <2>8. ASSUME Before(a, b)' PROVE Before(a, b)
    <3>1. PICK i, j \in 1 .. Len(waiters') : i < j /\ waiters'[i] = a /\ waiters'[j] = b
      BY <2>8 DEF Before
    <3> QED BY <2>3, <2>4, <3>1 DEF Before
  <2> QED BY <2>7, <2>8
<1> QED BY <1>1, <1>2

\* Every step is one of the abstract queue, or none that it sees.
LEMMA StepImplements ==
  ASSUME IInv, OnceInv, Next
  PROVE  Abstract!Next \/ UNCHANGED Abstract!abstractVars
<1>1. /\ waiters \in Seq(Gens) /\ gen \in [Gens -> GenState] /\ Len(waiters) \in Nat
      /\ Pending \subseteq Members(waiters) /\ in_use = Cardinality(Holders)
  BY DEF IInv, TypeOK, QueueInv, SlotAccounting
<1>2. ASSUME UNCHANGED <<cap, waiters>>, Pending' = Pending, Holders' = Holders
      PROVE  UNCHANGED Abstract!abstractVars
  BY <1>2 DEF Abstract!abstractVars, Line, Before
<1>3. ASSUME NEW g \in Gens, Enter(g) PROVE Abstract!Start(g)
  <2>1. Pending = {} /\ Pending' = {} /\ Holders' = Holders \cup {g} /\ g \notin Holders
    BY <1>1, <1>3 DEF Enter, FastPath, Pending, QueuedIn, Holders, HoldingIn
  <2>2. Line = {} /\ Line' = {}
    BY <2>1 DEF Line
  <2> QED BY <1>1, <1>3, <2>1, <2>2, SameCount DEF Enter, FastPath, Abstract!Start
<1>4. ASSUME NEW g \in Gens, FindNoSlot(g) PROVE UNCHANGED Abstract!abstractVars
  BY <1>2, <1>4 DEF FindNoSlot, Pending, Holders
<1>5. ASSUME NEW g \in Gens, Enqueue(g) PROVE Abstract!Join(g)
  <2>1. gen[g] = "idle"
    BY <1>5, GensAssumption DEF Enqueue, IInv, QueueInv
  <2>2. Pending' = Pending \cup {g} /\ Holders' = Holders /\ g \notin Pending /\ g \notin Holders
    BY <1>1, <1>5, <2>1 DEF Enqueue, Pending, QueuedIn, Holders, HoldingIn
  <2>3. /\ Len(waiters') = Len(waiters) + 1
        /\ \A i \in 1 .. Len(waiters) : waiters'[i] = waiters[i]
        /\ waiters'[Len(waiters) + 1] = g
    BY <1>1, <1>5, AppendProperties DEF Enqueue
  <2>4. \A i \in 1 .. Len(waiters) : waiters[i] # g
    BY <2>1 DEF OnceInv
  <2>5. \A a, b \in Pending : Before(a, b)' <=> Before(a, b)
    <3> SUFFICES ASSUME NEW a \in Pending, NEW b \in Pending PROVE Before(a, b)' <=> Before(a, b)
      OBVIOUS
    <3>1. a # g /\ b # g
      BY <2>2
    <3>2. \A i \in 1 .. Len(waiters') : waiters'[i] \in {a, b} => i \in 1 .. Len(waiters)
      BY <1>1, <2>3, <3>1
    <3>3. \A i \in 1 .. Len(waiters) : i \in 1 .. Len(waiters')
      BY <1>1, <2>3
    <3> QED BY <2>3, <3>2, <3>3 DEF Before
  <2>6. \A a \in Pending : Before(a, g)'
    <3> SUFFICES ASSUME NEW a \in Pending PROVE Before(a, g)'
      OBVIOUS
    <3>1. PICK i \in 1 .. Len(waiters) : waiters[i] = a
      BY <1>1 DEF Members
    <3>2. i \in 1 .. Len(waiters') /\ Len(waiters) + 1 \in 1 .. Len(waiters') /\ i < Len(waiters) + 1
      BY <1>1, <2>3
    <3> QED BY <2>3, <3>1, <3>2 DEF Before
  <2>7. \A b \in Pending \cup {g} : ~ Before(g, b)'
    <3> SUFFICES ASSUME NEW b, Before(g, b)' PROVE FALSE
      OBVIOUS
    <3>1. PICK i, j \in 1 .. Len(waiters') : i < j /\ waiters'[i] = g
      BY DEF Before
    <3>2. i \in 1 .. Len(waiters)
      BY <1>1, <2>3, <3>1
    <3> QED BY <2>3, <2>4, <3>1, <3>2
  <2>8. Line' = Line \cup (Pending \X {g})
    <3>1. Line' = {p \in (Pending \cup {g}) \X (Pending \cup {g}) : Before(p[1], p[2])'}
      BY <2>2 DEF Line
    <3>2. \A p \in (Pending \cup {g}) \X (Pending \cup {g}) :
            Before(p[1], p[2])' <=> p \in Line \cup (Pending \X {g})
      <4> SUFFICES ASSUME NEW a \in Pending \cup {g}, NEW b \in Pending \cup {g}
                   PROVE  Before(a, b)' <=> <<a, b>> \in Line \cup (Pending \X {g})
        OBVIOUS
      <4>1. CASE a = g
        BY <2>2, <2>7, <4>1 DEF Line
      <4>2. CASE a \in Pending /\ b = g
        BY <2>6, <4>2
      <4>3. CASE a \in Pending /\ b \in Pending
        BY <2>2, <2>5, <4>3 DEF Line
      <4> QED BY <4>1, <4>2, <4>3
    <3>3. Line \cup (Pending \X {g}) \subseteq (Pending \cup {g}) \X (Pending \cup {g})
      BY DEF Line
    <3> QED BY <3>1, <3>2, <3>3
  <2> QED BY <1>5, <2>2, <2>8 DEF Enqueue, Abstract!Join
<1>6. ASSUME NEW g \in Gens, Resume(g) PROVE UNCHANGED Abstract!abstractVars
  <2>1. Pending' = Pending /\ Holders' = Holders
    BY <1>1, <1>6 DEF Resume, Pending, QueuedIn, Holders, HoldingIn
  <2> QED BY <1>2, <1>6, <2>1 DEF Resume
<1>7. ASSUME NEW g \in Gens, Cancel(g)
      PROVE  Abstract!GiveUp(g) \/ UNCHANGED Abstract!abstractVars
  <2>1. Holders' = Holders /\ UNCHANGED <<cap, waiters>>
    BY <1>1, <1>7 DEF Cancel, Holders, HoldingIn
  <2>2. CASE gen[g] = "granted"
    <3>1. Pending' = Pending
      BY <1>1, <1>7, <2>2 DEF Cancel, Pending, QueuedIn
    <3> QED BY <1>2, <2>1, <3>1
  <2>3. CASE gen[g] = "queued"
    <3>1. g \in Pending /\ Pending' = Pending \ {g}
      BY <1>1, <1>7, <2>3 DEF Cancel, Pending, QueuedIn
    <3>2. Abstract!Remain(Pending \ {g})
      BY <2>1, <3>1, LineRemains DEF Before
    <3> QED BY <2>1, <3>1, <3>2 DEF Abstract!GiveUp
  <2> QED BY <1>7, <2>2, <2>3 DEF Cancel
<1>8. ASSUME NEW g \in Gens, LeaveQueue(g) PROVE UNCHANGED Abstract!abstractVars
  <2>1. Pending' = Pending /\ Holders' = Holders /\ g \notin Pending /\ Pending \subseteq Gens
    BY <1>1, <1>8 DEF LeaveQueue, Pending, QueuedIn, Holders, HoldingIn
  <2>2. \A a, b \in Pending : Before(a, b) <=> Before(a, b)'
    BY <1>8, <2>1, RemoveKeepsOrder DEF LeaveQueue
  <2> QED BY <1>8, <2>1, <2>2, LineStays DEF LeaveQueue, Abstract!abstractVars
<1>9. ASSUME NEW g \in Gens, HandBack(g) \/ Exit(g) PROVE Abstract!Finish(g)
  <2> DEFINE st == [gen EXCEPT ![g] = "idle"]
  <2>1. gen[g] \in {"holding", "revoked"} /\ ReleaseFrom(st) /\ cap' = cap /\ cap \in Caps
    BY <1>9 DEF HandBack, Exit, IInv, TypeOK
  <2>2. /\ st \in [Gens -> GenState] /\ QueuedIn(st) = Pending
        /\ HoldingIn(st) = Holders \ {g} /\ g \in Holders
    BY <1>1, <2>1 DEF GenState, Pending, QueuedIn, Holders, HoldingIn
  <2> HIDE DEF st
  <2>3. IsFiniteSet(Holders) /\ Cardinality(Holders) \in Nat /\ Cardinality(Holders \ {g}) \in Nat
    BY <2>2, HoldersFinite DEF Holders
  <2>4. Cardinality(Holders \ {g}) = Cardinality(Holders) - 1
    BY <2>2, <2>3, FS_RemoveElement
  <2>5. (IF in_use > 0 THEN in_use - 1 ELSE 0) = Cardinality(HoldingIn(st))
    BY <1>1, <2>2, <2>3, <2>4
  <2>6. WakeFrom(Cardinality(HoldingIn(st)), cap, st)
    BY <2>1, <2>5 DEF ReleaseFrom
  <2>7. \E front \in SUBSET Pending : Abstract!AdmitFront(Holders \ {g}, cap, front)
    BY <2>1, <2>2, <2>6, WakeAdmits
  <2> QED BY <2>1, <2>2, <2>7 DEF Abstract!Finish
<1>10. ASSUME NEW limit \in Caps, WakeFrom(in_use, limit, gen)
       PROVE  \E front \in SUBSET Pending :
                /\ Abstract!AdmitFront(Holders, limit, front)
                /\ front = {} => Pending' = Pending /\ Holders' = Holders /\ Line' = Line
  <2>1. WakeFrom(Cardinality(HoldingIn(gen)), limit, gen) /\ QueuedIn(gen) = Pending /\ HoldingIn(gen) = Holders
    BY <1>1, <1>10 DEF Holders, Pending
  <2> QED BY <1>1, <2>1, WakeAdmits
<1>11. ASSUME NEW c \in Caps, cap' = c, UNCHANGED <<waiters, gen>> PROVE Abstract!SetLimit(c)
  <2>1. Pending' = Pending /\ Holders' = Holders
    BY <1>11 DEF Pending, Holders
  <2>2. Abstract!Remain(Pending)
    BY <1>11, <2>1, LineRemains DEF Before
  <2>3. Pending \ {} = Pending /\ {} \X Pending = {} /\ Holders \cup {} = Holders
    OBVIOUS
  <2>4. Abstract!AdmitFront(Holders, c, {})
    BY <2>1, <2>2, <2>3 DEF Abstract!AdmitFront, Abstract!Front
  <2> QED BY <1>11, <2>4 DEF Abstract!SetLimit
<1>12. ASSUME NEW c \in Caps, SetCapOnLoop(c) PROVE Abstract!SetLimit(c)
  <2>1. CASE loop
    <3>1. cap' = c /\ WakeFrom(in_use, c, gen)
      BY <1>12, <2>1 DEF SetCapOnLoop
    <3>2. \E front \in SUBSET Pending : Abstract!AdmitFront(Holders, c, front)
      BY <1>10, <3>1
    <3> QED BY <3>1, <3>2 DEF Abstract!SetLimit
  <2>2. CASE ~loop
    BY <1>11, <1>12, <2>2 DEF SetCapOnLoop
  <2> QED BY <2>1, <2>2
<1>13. ASSUME NEW c \in Caps, SetCapInThread(c) PROVE Abstract!SetLimit(c)
  BY <1>11, <1>13 DEF SetCapInThread
<1>14. CASE PostWake
  BY <1>2, <1>14 DEF PostWake, Pending, Holders
<1>15. ASSUME RunPostedWake PROVE Abstract!Admit \/ UNCHANGED Abstract!abstractVars
  <2>1. cap' = cap /\ cap \in Caps /\ WakeFrom(in_use, cap, gen)
    BY <1>15 DEF RunPostedWake, IInv, TypeOK
  <2>2. PICK front \in SUBSET Pending :
           /\ Abstract!AdmitFront(Holders, cap, front)
           /\ front = {} => Pending' = Pending /\ Holders' = Holders /\ Line' = Line
    BY <1>10, <2>1
  <2> QED BY <2>1, <2>2 DEF Abstract!Admit, Abstract!abstractVars
<1> QED
  BY <1>3, <1>4, <1>5, <1>6, <1>7, <1>8, <1>9, <1>12, <1>13, <1>14, <1>15 DEF Next, Abstract!Next

\* For any generations and caps the limiter implements the abstract queue: slots go to
\* the front of the line as far as the cap allows, whatever is cancelled, finished or set.
THEOREM ImplementsQueue == Spec => Abstract!Spec
<1>1. Init => Abstract!Init
  BY DEF Init, Abstract!Init, Holders, HoldingIn, Pending, QueuedIn, Line
<1>2. Init => OnceInv
  BY DEF Init, OnceInv
<1>3. IInv /\ OnceInv /\ [Next]_vars => [Abstract!Next]_(Abstract!abstractVars)
  <2>1. ASSUME UNCHANGED vars PROVE UNCHANGED Abstract!abstractVars
    BY <2>1 DEF vars, Abstract!abstractVars, Holders, Pending, Line, Before
  <2> QED BY <2>1, StepImplements
<1> QED BY <1>1, <1>2, <1>3, NextOnce, Invariance, PTL DEF Spec, Abstract!Spec

=============================================================================
