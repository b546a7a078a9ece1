------------------------- MODULE GenerationSemaphore -------------------------
(***************************************************************************)
(* The slot limiter in front of every model call                           *)
(* (src/application/gateway/generation_semaphore.py): one counter and one  *)
(* queue of futures that survive a change of the cap.                      *)
(*                                                                         *)
(* A generation is a coroutine on the event loop, so what it does between  *)
(* two awaits is one action.  The two exceptions are modelled: a slot is   *)
(* handed to a queued generation before its task runs again (set_result    *)
(* first, resume later), with a cancel possible in between; and the cap    *)
(* may be set by a worker thread, which may run between two statements of  *)
(* the loop's thread.                                                      *)
(***************************************************************************)
EXTENDS Integers, Sequences, FiniteSets

CONSTANTS Gens,       \* the generations (chat turns, helper calls) of one pool
          NoGen,      \* "no generation"
          MaxCap,     \* largest cap Settings accepts (3 in the code)
          Callers,    \* who sets the cap: "loop", "thread" or both
          MaxPosts    \* bound: wake-ups a worker thread may have outstanding

ASSUME GensAssumption    == IsFiniteSet(Gens) /\ NoGen \notin Gens
ASSUME CapAssumption     == MaxCap \in Nat \ {0}
ASSUME CallersAssumption == Callers \subseteq {"loop", "thread"}
ASSUME PostsAssumption   == MaxPosts \in Nat \ {0}

VARIABLES
  cap,        \* _max
  in_use,     \* _in_use
  waiters,    \* _waiters, the deque of futures, each named by its generation
  gen,        \* what each generation's task and future are doing
  loop,       \* _loop is set: some generation has queued before
  entering,   \* the generation inside __aenter__ that found no free slot
  setter,     \* the worker thread inside set_max_concurrent
  posted      \* _wake calls posted with call_soon_threadsafe, not yet run

vars == <<cap, in_use, waiters, gen, loop, entering, setter, posted>>

(***************************************************************************)
(* "queued": future pending.  "granted": future resolved, task not resumed.*)
(* "revoked": as granted, but the task was cancelled before it resumed.    *)
(* "cancelled": future cancelled, the task's except clause not yet run.    *)
(***************************************************************************)
GenState == {"idle", "queued", "granted", "revoked", "cancelled", "holding"}

Caps == 1 .. MaxCap

QueuedIn(st)  == {g \in Gens : st[g] = "queued"}
HoldingIn(st) == {g \in Gens : st[g] \in {"granted", "revoked", "holding"}}

\* The futures in _waiters that are not done.
Pending == QueuedIn(gen)
\* The generations the counter stands for: a slot handed over counts at once.
Holders == HoldingIn(gen)

Members(q) == {q[i] : i \in 1 .. Len(q)}

TypeOK ==
  /\ cap \in Caps
  /\ in_use \in 0 .. MaxCap
  /\ waiters \in Seq(Gens)
  /\ gen \in [Gens -> GenState]
  /\ loop \in BOOLEAN
  /\ entering \in Gens \cup {NoGen}
  /\ setter \in {"idle", "cap_set"}
  /\ posted \in 0 .. MaxPosts

Init ==
  /\ cap \in Caps
  /\ in_use = 0
  /\ waiters = <<>>
  /\ gen = [g \in Gens |-> "idle"]
  /\ loop = FALSE
  /\ entering = NoGen
  /\ setter = "idle"
  /\ posted = 0

-----------------------------------------------------------------------------
(***************************************************************************)
(* _wake pops futures from the left, skipping the done ones and handing a  *)
(* slot to each pending one, until the queue or the slots run out.  It     *)
(* stops at the shortest prefix of the queue after which nothing is left   *)
(* to pop or no slot is free.                                              *)
(***************************************************************************)
HandedBy(q, pending, k) == {q[i] : i \in 1 .. k} \cap pending

\* Mutant: _wake goes on while the slots in use do not exceed the cap.
StopsLate(q, pending, used, limit, k) ==
  k = Len(q) \/ used + Cardinality(HandedBy(q, pending, k)) > limit

Stops(q, pending, used, limit, k) ==
  k = Len(q) \/ used + Cardinality(HandedBy(q, pending, k)) >= limit

PrefixPopped(q, pending, used, limit) ==
  CHOOSE k \in 0 .. Len(q) :
    /\ Stops(q, pending, used, limit, k)
    /\ \A j \in 0 .. Len(q) : Stops(q, pending, used, limit, j) => k <= j

\* Mutant: the waiter counts its own slot when it resumes, not when it is handed one.
WakeFromUncounted(used, limit, st) ==
  LET pending == QueuedIn(st)
      k       == PrefixPopped(waiters, pending, used, limit)
      handed  == HandedBy(waiters, pending, k)
  IN  /\ waiters' = SubSeq(waiters, k + 1, Len(waiters))
      /\ in_use' = used
      /\ gen' = [g \in Gens |-> IF g \in handed THEN "granted" ELSE st[g]]

\* The effect of _wake on the queue, the counter and the futures, given the
\* counter `used`, the limit and the states `st` it starts from.
WakeFrom(used, limit, st) ==
  LET pending == QueuedIn(st)
      k       == PrefixPopped(waiters, pending, used, limit)
      handed  == HandedBy(waiters, pending, k)
  IN  /\ waiters' = SubSeq(waiters, k + 1, Len(waiters))
      /\ in_use' = used + Cardinality(handed)
      /\ gen' = [g \in Gens |-> IF g \in handed THEN "granted" ELSE st[g]]

\* Mutant: a release frees the slot and wakes nobody.
ReleaseUnheard(st) ==
  /\ in_use' = in_use - 1
  /\ gen' = st
  /\ UNCHANGED waiters

\* _release: one slot fewer (never below zero), then _wake.
ReleaseFrom(st) ==
  WakeFrom(IF in_use > 0 THEN in_use - 1 ELSE 0, cap, st)

\* The loop's thread runs one callback at a time.
LoopFree == entering = NoGen

\* Mutants: the fast path does not look at the queue, or at the cap.
FastPathBarging == in_use < cap
FastPathUncapped == Pending = {}

\* __aenter__ up to the await: the fast path needs a free slot and no pending future.
FastPath == in_use < cap /\ Pending = {}

Enter(g) ==
  /\ LoopFree
  /\ gen[g] = "idle"
  /\ FastPath
  /\ in_use' = in_use + 1
  /\ gen' = [gen EXCEPT ![g] = "holding"]
  /\ UNCHANGED <<cap, waiters, loop, entering, setter, posted>>

\* The test at the top of __aenter__ fails; the future is appended next, by the same thread.
FindNoSlot(g) ==
  /\ LoopFree
  /\ gen[g] = "idle"
  /\ ~FastPath
  /\ entering' = g
  /\ UNCHANGED <<cap, in_use, waiters, gen, loop, setter, posted>>

Enqueue(g) ==
  /\ entering = g
  /\ loop' = TRUE
  /\ waiters' = Append(waiters, g)
  /\ gen' = [gen EXCEPT ![g] = "queued"]
  /\ entering' = NoGen
  /\ UNCHANGED <<cap, in_use, setter, posted>>

\* `await fut` returns: the task runs again with its slot.
Resume(g) ==
  /\ LoopFree
  /\ gen[g] = "granted"
  /\ gen' = [gen EXCEPT ![g] = "holding"]
  /\ UNCHANGED <<cap, in_use, waiters, loop, entering, setter, posted>>

\* task.cancel() while the task awaits: a pending future is cancelled and stays in
\* the deque; a resolved one is too late to cancel, so the task is woken with the error.
Cancel(g) ==
  /\ LoopFree
  /\ gen[g] \in {"queued", "granted"}
  /\ gen' = [gen EXCEPT ![g] = IF @ = "queued" THEN "cancelled" ELSE "revoked"]
  /\ UNCHANGED <<cap, in_use, waiters, loop, entering, setter, posted>>

\* deque.remove, its ValueError ignored: the first occurrence goes, if there is one.
FirstAt(q, g) == CHOOSE i \in 1 .. Len(q) : q[i] = g /\ \A j \in 1 .. i - 1 : q[j] # g

Without(q, g) ==
  IF g \in Members(q)
  THEN SubSeq(q, 1, FirstAt(q, g) - 1) \o SubSeq(q, FirstAt(q, g) + 1, Len(q))
  ELSE q

\* The except clause, future cancelled: take it out of the deque if _wake has not.
LeaveQueue(g) ==
  /\ LoopFree
  /\ gen[g] = "cancelled"
  /\ waiters' = Without(waiters, g)
  /\ gen' = [gen EXCEPT ![g] = "idle"]
  /\ UNCHANGED <<cap, in_use, loop, entering, setter, posted>>

\* Mutant: a cancelled waiter never gives back the slot it was just handed.
HandBackLeaking(g) ==
  /\ LoopFree
  /\ gen[g] = "revoked"
  /\ gen' = [gen EXCEPT ![g] = "idle"]
  /\ UNCHANGED <<cap, in_use, waiters, loop, entering, setter, posted>>

\* The except clause, future resolved: give the slot back.
HandBack(g) ==
  /\ LoopFree
  /\ gen[g] = "revoked"
  /\ ReleaseFrom([gen EXCEPT ![g] = "idle"])
  /\ UNCHANGED <<cap, loop, entering, setter, posted>>

\* __aexit__: the model call ended, failed or was cancelled.
Exit(g) ==
  /\ LoopFree
  /\ gen[g] = "holding"
  /\ ReleaseFrom([gen EXCEPT ![g] = "idle"])
  /\ UNCHANGED <<cap, loop, entering, setter, posted>>

\* set_max_concurrent called on the loop: with no _loop nothing has ever queued.
SetCapOnLoop(c) ==
  /\ "loop" \in Callers
  /\ LoopFree
  /\ cap' = c
  /\ IF loop THEN WakeFrom(in_use, c, gen)
             ELSE UNCHANGED <<in_use, waiters, gen>>
  /\ UNCHANGED <<loop, entering, setter, posted>>

\* set_max_concurrent called in a worker thread: it stores the cap ...
SetCapInThread(c) ==
  /\ "thread" \in Callers
  /\ setter = "idle"
  /\ posted < MaxPosts
  /\ cap' = c
  /\ setter' = "cap_set"
  /\ UNCHANGED <<in_use, waiters, gen, loop, entering, posted>>

\* ... and then posts _wake to the loop, if it knows one.
PostWake ==
  /\ setter = "cap_set"
  /\ setter' = "idle"
  /\ posted' = IF loop THEN posted + 1 ELSE posted
  /\ UNCHANGED <<cap, in_use, waiters, gen, loop, entering>>

RunPostedWake ==
  /\ LoopFree
  /\ posted > 0
  /\ posted' = posted - 1
  /\ WakeFrom(in_use, cap, gen)
  /\ UNCHANGED <<cap, loop, entering, setter>>

Next ==
  \/ \E g \in Gens :
       \/ Enter(g) \/ FindNoSlot(g) \/ Enqueue(g) \/ Resume(g)
       \/ Cancel(g) \/ LeaveQueue(g) \/ HandBack(g) \/ Exit(g)
  \/ \E c \in Caps : SetCapOnLoop(c) \/ SetCapInThread(c)
  \/ PostWake
  \/ RunPostedWake

(***************************************************************************)
(* A started set_max_concurrent call returns, the loop runs every ready    *)
(* callback (asyncio's ready queue is first in, first out: hence SF, for   *)
(* another callback may run in between any number of times), and a model   *)
(* call ends: the provider adapters bound its silence by a read timeout    *)
(* and the kernel bounds its length.  Nobody is obliged to start a         *)
(* generation, to cancel one or to change the cap.                         *)
(***************************************************************************)
Fairness ==
  /\ \A g \in Gens :
       /\ WF_vars(Enqueue(g))
       /\ SF_vars(Resume(g) \/ Exit(g) \/ LeaveQueue(g) \/ HandBack(g))
  /\ WF_vars(PostWake)
  /\ SF_vars(RunPostedWake)

Spec     == Init /\ [][Next]_vars
FairSpec == Spec /\ Fairness

-----------------------------------------------------------------------------
(***************************************************************************)
(* Every slot the counter says is taken belongs to one generation that     *)
(* holds it or was handed it, through cancels that race with a hand-over   *)
(* and cap changes (no leak, no slot given back twice).                    *)
(***************************************************************************)
SlotAccounting == in_use = Cardinality(Holders)

(***************************************************************************)
(* "A raised cap starts queued generations at once": no generation waits   *)
(* next to a free slot unless a wake-up is on its way.                     *)
(***************************************************************************)
NoIdleSlot ==
  Pending # {} /\ in_use < cap => posted > 0 \/ setter = "cap_set"

(***************************************************************************)
(* "A lowered cap applies as running ones finish": more slots than the cap *)
(* may be in use only because the cap was lowered; no step takes one more. *)
(***************************************************************************)
NoStartAboveCap == [][in_use' > in_use => in_use' <= cap']_vars

\* g's future stands before h's in the deque.
Before(g, h) ==
  \E i, j \in 1 .. Len(waiters) : i < j /\ waiters[i] = g /\ waiters[j] = h

(***************************************************************************)
(* Slots are given in order of arrival: whoever gets one overtakes nobody  *)
(* who was waiting before and still is, not even through the fast path of  *)
(* __aenter__ right after a cancel or a cap change.                        *)
(***************************************************************************)
NoOvertaking ==
  [][\A h \in Holders' \ Holders : \A g \in Pending \cap Pending' : Before(h, g)]_vars

(***************************************************************************)
(* CARD-579: a generation that queues gets its slot or, cancelled, leaves; *)
(* no cap change and no cancel of another one makes it wait forever.       *)
(***************************************************************************)
QueuedStarts ==
  \A g \in Gens : gen[g] = "queued" ~> gen[g] \in {"holding", "idle"}

\* The line: the pending futures as they stand in the deque.
Line == {p \in Pending \X Pending : Before(p[1], p[2])}

\* The limiter implements the abstract queue.
Abstract ==
  INSTANCE SlotQueue WITH
    Clients <- Gens, Limits <- Caps, limit <- cap, running <- Holders,
    waiting <- Pending, ahead <- Line

\* Under the fairness above the limiter implements the abstract one and its fairness.
ImplementsSlotQueue == Abstract!FairSpec

=============================================================================
