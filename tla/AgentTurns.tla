----------------------------- MODULE AgentTurns -----------------------------
(***************************************************************************)
(* Turns of the agent kernel, the calls they make, the approval cards that *)
(* park them, and hand-offs to other agents, over one chat session and its *)
(* child sessions (application/kernel/react_loop.py, agent_kernel.py,      *)
(* application/orchestration/handoff_engine.py, web/routers/hitl.py,       *)
(* infrastructure/memory/repositories/{approvals,sessions}.py).            *)
(*                                                                         *)
(* A tool row is keyed by its call: save_message overwrites the row that a *)
(* call already has.  The transcript is therefore the sequence of calls    *)
(* and, for each, what its row says.                                       *)
(***************************************************************************)
EXTENDS Naturals, Sequences, FiniteSetsExt, SequencesExt

CONSTANTS Batches,    \* the batches of calls a model may answer with
          MaxCalls,   \* bound: calls of all sessions
          MaxSteps,   \* max_turns: model calls in one turn
          MaxSends,   \* bound: messages of the operator
          MaxDeaths   \* bound: deaths of the process

\* free runs at once, risky asks the operator, hand runs another agent, ask asks
\* the user a question.
Kinds == {"free", "risky", "hand", "ask"}

ASSUME BatchesAssumption ==
  /\ Batches \subseteq Seq(Kinds) \ {<<>>}
  /\ MaxCalls \in Nat /\ MaxSteps \in Nat /\ MaxSends \in Nat /\ MaxDeaths \in Nat

VARIABLES
  calls,      \* every call made: its session, its batch, its kind
  answer,     \* what its tool row says; none: there is no row
  lastRow,    \* the call of the last tool row in the chat's transcript; 0: there is none
  ran,        \* how often it was executed
  card,       \* its row in pending_approvals
  executing,  \* approved calls a decision request or its background task runs
  turn,       \* per session, the turn in progress
  owed,       \* the browser is to resume the chat after a decision
  sends, deaths

vars == <<calls, answer, lastRow, ran, card, executing, turn, owed, sends, deaths>>

Chat     == 0
Sessions == 0 .. MaxCalls   \* a hand-off's child session has the number of its call
Ids      == DOMAIN calls

Says == {"none", "done", "failed", "rejected", "parked", "child", "deferred", "skipped", "refused"}

TypeOK ==
  /\ calls \in Seq([sess : Sessions, batch : 1 .. MaxCalls, kind : Kinds])
  /\ Len(calls) <= MaxCalls
  /\ answer \in [Ids -> Says] /\ ran \in [Ids -> 0 .. 2]
  /\ lastRow \in {0} \cup Ids
  /\ card \in [Ids -> {"none", "pending", "approved", "rejected"}]
  /\ executing \subseteq Ids
  /\ turn \in [Sessions -> [pc : {"idle", "think", "tools", "wait"}, todo : Seq(Ids),
                            step : 0 .. MaxSteps, live : BOOLEAN]]
  /\ owed \in BOOLEAN /\ sends \in 0 .. MaxSends /\ deaths \in 0 .. MaxDeaths

Idle == [pc |-> "idle", todo |-> <<>>, step |-> 0, live |-> FALSE]

\* live: it runs inside the hand-off call of its parent's turn.
Started(live) == [pc |-> "think", todo |-> <<>>, step |-> 0, live |-> live]

Init ==
  /\ calls = <<>> /\ answer = <<>> /\ lastRow = 0 /\ ran = <<>> /\ card = <<>>
  /\ executing = {} /\ turn = [s \in Sessions |-> Idle]
  /\ owed = FALSE /\ sends = 0 /\ deaths = 0

IsIdle(s)   == turn[s].pc = "idle"
Parent(s)   == calls[s].sess
CallsOf(s)  == {c \in Ids : calls[c].sess = s}
Current(s)  == Head(turn[s].todo)
Rest(s)     == ToSet(Tail(turn[s].todo))

-----------------------------------------------------------------------------
(* Rows. *)

Say(rows, cs, what) == [c \in DOMAIN rows |-> IF c \in cs THEN what ELSE rows[c]]

\* save_message: a call that has a row keeps its place in the transcript.
Writes(rows) ==
  LET new == {c \in CallsOf(Chat) : answer[c] = "none" /\ rows[c] # "none"}
  IN /\ answer' = rows
     /\ lastRow' = IF new = {} THEN lastRow ELSE Max(new)

\* The row of a decided call is also saved in the chat where it was decided; a card
\* whose call has no row yet gets one.
WritesDecided(c, what) ==
  /\ answer' = Say(answer, {c}, what)
  /\ lastRow' = IF calls[c].sess = Chat /\ answer[c] # "none" THEN lastRow ELSE c

\* record_deferred_sibling_tool_calls
ParkRows(s, what) == Say(Say(answer, {Current(s)}, what), Rest(s), "deferred")

HandCalls(s) == {c \in CallsOf(s) : calls[c].kind = "hand"}

\* _parent_handoff_call: the first hand-off of the latest batch that has one.
LandsOn(s) == Min({c \in HandCalls(s) : calls[c].batch = Max({calls[d].batch : d \in HandCalls(s)})})

\* What the parent's transcript is told of a child that ended or parked.
TellParent(rows, s, what) ==
  IF turn[s].live THEN Say(rows, {s}, what) ELSE Say(rows, {LandsOn(Parent(s))}, what)

-----------------------------------------------------------------------------
(* The kernel. *)

\* The next call of the batch, or the next question to the model.
Advanced(t, s) ==
  [t EXCEPT ![s] = [t[s] EXCEPT !.todo = Tail(@), !.pc = IF Len(turn[s].todo) = 1 THEN "think" ELSE "tools"]]

\* The model answers with a batch of calls; a hand-off is made from the chat only.
Think(s, batch) ==
  /\ turn[s].pc = "think" /\ turn[s].step < MaxSteps
  /\ Len(calls) + Len(batch) <= MaxCalls
  /\ s # Chat => "hand" \notin Range(batch)
  /\ LET new == [i \in 1 .. Len(batch) |-> Len(calls) + i]
     IN /\ calls' = calls \o [i \in 1 .. Len(batch) |->
                       [sess |-> s, batch |-> Len(calls) + 1, kind |-> batch[i]]]
        /\ answer' = answer \o [i \in 1 .. Len(batch) |-> "none"]
        /\ ran' = ran \o [i \in 1 .. Len(batch) |-> 0]
        /\ card' = card \o [i \in 1 .. Len(batch) |-> "none"]
        /\ turn' = [turn EXCEPT ![s] = [turn[s] EXCEPT !.pc = "tools", !.todo = new, !.step = @ + 1]]
  /\ UNCHANGED <<lastRow, executing, owed, sends, deaths>>

\* A live child hands its result to the turn that waits for it; a child resumed in
\* the background writes it to the parent's transcript, and the browser resumes.
Ends(s, rows, outcome) ==
  IF s = Chat
  THEN /\ Writes(rows) /\ turn' = [turn EXCEPT ![s] = Idle] /\ UNCHANGED owed
  ELSE /\ Writes(TellParent(rows, s, outcome))
       /\ turn' = IF turn[s].live THEN Advanced([turn EXCEPT ![s] = Idle], Parent(s))
                  ELSE [turn EXCEPT ![s] = Idle]
       /\ owed' = (owed \/ ~turn[s].live)

\* A reply without calls, a failure, or the turn limit.
Finish(s, outcome) ==
  /\ turn[s].pc = "think"
  /\ turn[s].step = MaxSteps => outcome = "failed"
  /\ Ends(s, answer, outcome)
  /\ UNCHANGED <<calls, ran, card, executing, sends, deaths>>

Calls(s, kind) ==
  turn[s].pc = "tools" /\ calls[Current(s)].kind = kind

Execute(s, outcome) ==
  /\ Calls(s, "free")
  /\ ran' = [ran EXCEPT ![Current(s)] = @ + 1]
  /\ Writes(Say(answer, {Current(s)}, outcome))
  /\ turn' = Advanced(turn, s)
  /\ UNCHANGED <<calls, card, executing, owed, sends, deaths>>

\* The gate, the wiki budget or the repeat guard answers in the tool's place.
Refuse(s) ==
  /\ turn[s].pc = "tools"
  /\ Writes(Say(answer, {Current(s)}, "refused"))
  /\ turn' = Advanced(turn, s)
  /\ UNCHANGED <<calls, ran, card, executing, owed, sends, deaths>>

\* ask_clarification: the rest of the batch is skipped and the turn is done.
Clarify(s) ==
  /\ Calls(s, "ask")
  /\ ran' = [ran EXCEPT ![Current(s)] = @ + 1]
  /\ Ends(s, Say(Say(answer, {Current(s)}, "done"), Rest(s), "skipped"), "done")
  /\ UNCHANGED <<calls, card, executing, sends, deaths>>

\* Mutant: the siblings of a parked call get no row.
ParkLeavingSiblings(s) ==
  /\ Calls(s, "risky")
  /\ card' = [card EXCEPT ![Current(s)] = "pending"]
  /\ Writes(Say(answer, {Current(s)}, "parked"))
  /\ turn' = [turn EXCEPT ![s] = Idle]
  /\ UNCHANGED <<calls, ran, executing, owed, sends, deaths>>

\* The rows a park leaves; a live child's park parks the batch of its parent, a
\* resumed child's is written to the call its parent handed off with.
ParkedRows(s) ==
  IF s # Chat /\ turn[s].live
  THEN [c \in Ids |-> IF c = s THEN "child"
         ELSE IF c \in Rest(Parent(s)) THEN "deferred" ELSE ParkRows(s, "parked")[c]]
  ELSE IF s = Chat THEN ParkRows(s, "parked")
  ELSE TellParent(ParkRows(s, "parked"), s, "child")

\* The policy gate asks for confirmation: it stores the card, then the rows are saved
\* and the turn ends.  Nothing between them gives up the event loop, so that neither
\* a decision nor Stop comes in; see DieParking for a death.
Park(s) ==
  /\ Calls(s, "risky")
  /\ card' = [card EXCEPT ![Current(s)] = "pending"]
  /\ Writes(ParkedRows(s))
  /\ turn' = IF s # Chat /\ turn[s].live THEN [turn EXCEPT ![s] = Idle, ![Parent(s)] = Idle]
             ELSE [turn EXCEPT ![s] = Idle]
  /\ UNCHANGED <<calls, ran, executing, owed, sends, deaths>>

\* HandoffIsolationEngine.execute_handoff: the child's turn runs inside the call.
HandOff(s) ==
  /\ Calls(s, "hand")
  /\ ran' = [ran EXCEPT ![Current(s)] = @ + 1]
  /\ turn' = [turn EXCEPT ![s].pc = "wait", ![Current(s)] = Started(TRUE)]
  /\ UNCHANGED <<calls, answer, lastRow, card, executing, owed, sends, deaths>>

Kernel(s) ==
  \/ \E b \in Batches : Think(s, b)
  \/ \E o \in {"done", "failed"} : Finish(s, o) \/ Execute(s, o)
  \/ Refuse(s) \/ Clarify(s) \/ Park(s) \/ HandOff(s)

-----------------------------------------------------------------------------
(* Decisions. *)

\* A decision on a child's card resumes the child; one on the chat's own card is
\* answered to the browser, which resumes the chat.
Continues(c) ==
  IF calls[c].sess = Chat THEN owed' = TRUE /\ UNCHANGED turn
  ELSE turn' = [turn EXCEPT ![calls[c].sess] = Started(FALSE)] /\ UNCHANGED owed

\* Mutant: the decision is stored whatever the card's status is.
ApproveAgain(c) ==
  /\ card[c] \in {"pending", "approved"}
  /\ card' = [card EXCEPT ![c] = "approved"]
  /\ executing' = executing \cup {c}
  /\ UNCHANGED <<calls, answer, lastRow, ran, turn, owed, sends, deaths>>

\* resolve_approval compares and sets; then the request runs the tool.
Approve(c) ==
  /\ card[c] = "pending"
  /\ card' = [card EXCEPT ![c] = "approved"]
  /\ executing' = executing \cup {c}
  /\ UNCHANGED <<calls, answer, lastRow, ran, turn, owed, sends, deaths>>

\* Mutant: a rejection does not compare the status.
RejectLate(c) ==
  /\ card[c] \in {"pending", "approved"}
  /\ card' = [card EXCEPT ![c] = "rejected"]
  /\ WritesDecided(c, "rejected")
  /\ Continues(c)
  /\ UNCHANGED <<calls, ran, executing, sends, deaths>>

Reject(c) ==
  /\ card[c] = "pending"
  /\ card' = [card EXCEPT ![c] = "rejected"]
  /\ WritesDecided(c, "rejected")
  /\ Continues(c)
  /\ UNCHANGED <<calls, ran, executing, sends, deaths>>

\* Mutant: only what succeeded is saved and continued with.
ExecutedUnsaved(c, outcome) ==
  /\ c \in executing /\ executing' = executing \ {c}
  /\ ran' = [ran EXCEPT ![c] = @ + 1]
  /\ IF outcome = "done" THEN WritesDecided(c, outcome) /\ Continues(c)
     ELSE UNCHANGED <<answer, lastRow, turn, owed>>
  /\ UNCHANGED <<calls, card, sends, deaths>>

Executed(c, outcome) ==
  /\ c \in executing /\ executing' = executing \ {c}
  /\ ran' = [ran EXCEPT ![c] = @ + 1]
  /\ WritesDecided(c, outcome)
  /\ Continues(c)
  /\ UNCHANGED <<calls, card, sends, deaths>>

-----------------------------------------------------------------------------
(* The operator and the process. *)

\* A message does not wait for the cards that are still open.
Send ==
  /\ IsIdle(Chat) /\ sends < MaxSends
  /\ sends' = sends + 1
  /\ turn' = [turn EXCEPT ![Chat] = Started(FALSE)]
  /\ UNCHANGED <<calls, answer, lastRow, ran, card, executing, owed, deaths>>

\* _nested_park_replay_events: if the last row is a parked child, its card is shown
\* again and no turn begins.
Resume ==
  /\ owed /\ IsIdle(Chat) /\ owed' = FALSE
  /\ turn' = IF lastRow # 0 /\ answer[lastRow] = "child" THEN turn
             ELSE [turn EXCEPT ![Chat] = Started(FALSE)]
  /\ UNCHANGED <<calls, answer, lastRow, ran, card, executing, sends, deaths>>

\* The tools that are being run when a turn is cut: they may have run or not.
InHand(ss) == {Current(s) : s \in {x \in ss : turn[x].pc = "tools" /\ calls[Current(x)].kind = "free"}}

RunSome(cs) == \E done \in SUBSET cs : ran' = [c \in Ids |-> IF c \in done THEN ran[c] + 1 ELSE ran[c]]

\* Stop cancels the chat's task, and with it the child it waits for.
Stop ==
  LET cut == {Chat} \cup {s \in Sessions : ~IsIdle(s) /\ turn[s].live}
  IN /\ ~IsIdle(Chat)
     /\ turn' = [s \in Sessions |-> IF s \in cut THEN Idle ELSE turn[s]]
     /\ RunSome(InHand(cut))
     /\ UNCHANGED <<calls, answer, lastRow, card, executing, owed, sends, deaths>>

\* Whatever runs in the process is gone; rows and cards stay.
Die ==
  /\ deaths < MaxDeaths /\ deaths' = deaths + 1
  /\ turn' = [s \in Sessions |-> Idle] /\ executing' = {}
  /\ RunSome(InHand(Sessions) \cup executing)
  /\ UNCHANGED <<calls, answer, lastRow, card, owed, sends>>

\* The calls whose rows a park saves, in the order of the commits.
ParkOrder(s) ==
  turn[s].todo \o (IF s = Chat THEN <<>>
                   ELSE IF turn[s].live THEN turn[Parent(s)].todo ELSE <<LandsOn(Parent(s))>>)

\* The process dies when the card of a park is stored and k of its rows are saved.
DieParking(s) ==
  /\ Calls(s, "risky")
  /\ deaths < MaxDeaths /\ deaths' = deaths + 1
  /\ card' = [card EXCEPT ![Current(s)] = "pending"]
  /\ \E k \in 0 .. Len(ParkOrder(s)) :
       Writes([c \in Ids |-> IF c \in ToSet(SubSeq(ParkOrder(s), 1, k)) THEN ParkedRows(s)[c] ELSE answer[c]])
  /\ turn' = [x \in Sessions |-> Idle] /\ executing' = {}
  /\ RunSome(InHand(Sessions) \cup executing)
  /\ UNCHANGED <<calls, owed, sends>>

Dies == Die \/ \E s \in Sessions : DieParking(s)

Decide(c) == Approve(c) \/ Reject(c)

Next ==
  \/ \E s \in Sessions : Kernel(s)
  \/ \E c \in Ids : Decide(c) \/ \E o \in {"done", "failed"} : Executed(c, o)
  \/ Send \/ Resume \/ Stop \/ Dies

Spec == Init /\ [][Next]_vars

-----------------------------------------------------------------------------
(* Safety. *)

\* A call is executed at most once, and one that needs a decision only after it was
\* approved, however many devices decide and whatever is stopped or dies in between.
RunsOnce ==
  \A c \in Ids : ran[c] <= 1 /\ (calls[c].kind = "risky" /\ ran[c] > 0 => card[c] = "approved")

\* What the model reads is what happened: a result is of a call that ran; a call
\* that was deferred, skipped, refused, rejected or is parked has not run, save one that died
\* while it was being executed; a pending card can be found from its row, save one whose
\* park was cut by a death between the card and the row.
RowsTellTheTruth ==
  \A c \in Ids :
    /\ answer[c] = "done" /\ calls[c].kind # "hand" => ran[c] = 1
    /\ answer[c] \in {"deferred", "skipped", "refused", "rejected"} => ran[c] = 0 /\ card[c] # "approved"
    /\ answer[c] = "parked" /\ ran[c] = 1 => deaths > 0
    /\ card[c] = "pending" => answer[c] = "parked" \/ (answer[c] = "none" /\ deaths > 0)

\* A turn that is not cut leaves no call of its batch without a row, so that the
\* next request to a provider has a result for every call.
BatchIsAnswered ==
  [][\A s \in Sessions : ~IsIdle(s) /\ turn'[s].pc = "idle" /\ ~Stop /\ ~Dies
       => \A c \in ToSet(turn[s].todo) : answer'[c] # "none"]_vars

-----------------------------------------------------------------------------
(* Liveness. *)

\* Models, tools and agents answer within their time limits; the operator decides
\* every card; the browser resumes.
Fairness ==
  /\ \A s \in Sessions : WF_vars(Kernel(s))
  /\ \A c \in 1 .. MaxCalls :
       /\ WF_vars(c \in Ids /\ Decide(c))
       /\ WF_vars(c \in Ids /\ (Executed(c, "done") \/ Executed(c, "failed")))
  /\ WF_vars(Resume)

FairSpec == Spec /\ Fairness

Open(c) == c \in Ids /\ card[c] = "pending"

\* Unless the process dies, a decision on any card, the chat's or a child's, comes to
\* the model of the chat: it is asked again after the card was decided.
DecisionIsHeard ==
  \A c \in 1 .. MaxCalls : [](deaths = 0) => (Open(c) ~> turn[Chat].pc = "think")

=============================================================================
