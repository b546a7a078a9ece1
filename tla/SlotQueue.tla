------------------------------ MODULE SlotQueue ------------------------------
(***************************************************************************)
(* What a caller of the generation limiter may rely on: at most `limit`    *)
(* generations start to run, the rest stand in line and are admitted from  *)
(* the front, and the limit may change under way.  No futures, no event    *)
(* loop, no threads: GenerationSemaphore implements this specification.    *)
(***************************************************************************)
EXTENDS Integers, FiniteSets

CONSTANTS Clients,   \* whoever asks for a slot
          Limits     \* the limits that may be set

VARIABLES limit,     \* how many may run
          running,   \* who runs
          waiting,   \* who stands in line
          ahead      \* the line: who came before whom, as pairs

abstractVars == <<limit, running, waiting, ahead>>

Init ==
  /\ limit \in Limits
  /\ running = {}
  /\ waiting = {}
  /\ ahead = {}

\* Some of those waiting stay in line, in their order.
Remain(clients) ==
  /\ waiting' = clients
  /\ ahead' = ahead \cap (clients \X clients)

\* The front of the line: the others all came later.
Front(clients) == clients \X (waiting \ clients) \subseteq ahead

\* Admit the front of the line next to the others, as far as the limit allows.
AdmitFront(others, lim, front) ==
  /\ Front(front)
  /\ front # {} => Cardinality(others) + Cardinality(front) <= lim
  /\ running' = others \cup front
  /\ Remain(waiting \ front)

\* Start at once: only past an empty line.
Start(c) ==
  /\ c \notin running \cup waiting
  /\ waiting = {}
  /\ Cardinality(running) < limit
  /\ running' = running \cup {c}
  /\ UNCHANGED <<limit, waiting, ahead>>

Join(c) ==
  /\ c \notin running \cup waiting
  /\ waiting' = waiting \cup {c}
  /\ ahead' = ahead \cup (waiting \X {c})
  /\ UNCHANGED <<limit, running>>

GiveUp(c) ==
  /\ c \in waiting
  /\ Remain(waiting \ {c})
  /\ UNCHANGED <<limit, running>>

\* Whoever finishes makes room for the front of the line in the same step.
Finish(c) ==
  /\ c \in running
  /\ \E front \in SUBSET waiting : AdmitFront(running \ {c}, limit, front)
  /\ UNCHANGED limit

SetLimit(l) ==
  /\ limit' = l
  /\ \E front \in SUBSET waiting : AdmitFront(running, l, front)

Admit ==
  /\ \E front \in (SUBSET waiting) \ {{}} : AdmitFront(running, limit, front)
  /\ UNCHANGED limit

Next ==
  \/ \E c \in Clients : Start(c) \/ Join(c) \/ GiveUp(c) \/ Finish(c)
  \/ \E l \in Limits : SetLimit(l)
  \/ Admit

Spec == Init /\ [][Next]_abstractVars

\* Runners finish, and a free place does not stay empty while someone waits.
Fairness ==
  /\ \A c \in Clients : WF_abstractVars(Finish(c))
  /\ WF_abstractVars(Admit)

FairSpec == Spec /\ Fairness

=============================================================================
