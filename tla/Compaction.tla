----------------------------- MODULE Compaction -----------------------------
(***************************************************************************)
(* The transcript of one chat session, what of it a request to the model   *)
(* holds, and the Compact button (application/kernel/context_compactor.py, *)
(* compaction_verifier.py, infrastructure/memory/repositories/sessions.py, *)
(* the requests of react_loop.py, the decisions of web/routers/hitl.py).   *)
(*                                                                         *)
(* A row says, if it is the user's, what it alone says (its id), and, if   *)
(* it is a summary, what the summarised rows said: the paths, numbers and  *)
(* names a summary is verified to keep.  Sizes are abstracted: whether a   *)
(* request is over budget, a summary short enough and a compacted chat     *)
(* smaller is chosen, and a tool's output is either over the cap or not.   *)
(***************************************************************************)
EXTENDS Naturals, SequencesExt, FiniteSetsExt

CONSTANTS Batches,      \* the batches of calls a model may answer with
          RequestKeep,  \* rows a request keeps verbatim: 2 * keep_last_n_turns, 8 in the code
          ButtonKeep,   \* rows the Compact button keeps: 4 in the code
          MaxRows,      \* bound: rows stored before the last message or batch
          MaxPresses,   \* bound: uses of the Compact button
          MaxNotices    \* bound: rows that other parts of the program add

\* view loads a skill's runbook (skill_view), card is parked for an approval, the output
\* of big is over the cap on tool outputs.
Kinds == {"view", "card", "big", "other"}

ASSUME BatchesAssumption == Batches \subseteq Seq(Kinds) \ {<<>>}
ASSUME KeepsAssumption   == RequestKeep \in Nat \ {0, 1} /\ ButtonKeep \in Nat \ {0, 1}
ASSUME BoundsAssumption  == {MaxRows, MaxPresses, MaxNotices} \subseteq Nat

VARIABLES
  active,     \* the rows without an archive link, in order
  archived,   \* the others, in order; their sequence numbers are lower
  link,       \* archive_links: which row stands for an archived one
  history,    \* the rows the turn in progress works with, in memory
  turn,       \* idle; ask: a request to the model; tools: a batch is executed
  todo,       \* the calls of that batch that have no row yet
  open,       \* the calls with a pending approval card
  presses, notices

vars == <<active, archived, link, history, turn, todo, open, presses, notices>>

\* A call is known by the id of its batch's row and its place in the batch.
CallType == [n : Nat \X Nat, kind : Kinds]
RowType  == [id : Nat \ {0}, role : {"user", "assistant", "tool", "ui"}, calls : Seq(CallType),
             of : Nat \X Nat, text : {"plain", "long", "cut", "parked", "decided", "summary"},
             says : SUBSET Nat]

Ids(rows)    == {r.id : r \in Range(rows)}
Stored       == active \o archived
NextId       == Len(Stored) + 1
Calls(r)     == {c.n : c \in Range(r.calls)}
IsSummary(r) == r.text = "summary"
NoCall       == <<0, 0>>

TypeOK ==
  /\ active \in Seq(RowType) /\ archived \in Seq(RowType) /\ history \in Seq(RowType)
  /\ Ids(Stored) = 1 .. Len(Stored)
  /\ link \in [Ids(archived) -> Ids(Stored)]
  /\ turn \in {"idle", "ask", "tools"} /\ todo \in Seq(CallType)
  /\ (turn = "tools") = (todo # <<>>) /\ (turn = "idle" => history = <<>>)
  /\ open \subseteq {r.of : r \in Range(Stored)}
  /\ presses \in 0 .. MaxPresses /\ notices \in 0 .. MaxNotices

Init ==
  /\ active = <<>> /\ archived = <<>> /\ link = <<>> /\ history = <<>>
  /\ turn = "idle" /\ todo = <<>> /\ open = {} /\ presses = 0 /\ notices = 0

Row(id, role, text) ==
  [id |-> id, role |-> role, calls |-> <<>>, of |-> NoCall, text |-> text, says |-> {}]

UserRow      == [Row(NextId, "user", "plain") EXCEPT !.says = {NextId}]
ToolRow(c, text) == [Row(NextId, "tool", text) EXCEPT !.of = c]

\* The rows at some places, in order.
Select(rows, places) ==
  LET selected[n \in 0 .. Len(rows)] ==
        IF n = 0 THEN <<>>
        ELSE IF n \in places THEN Append(selected[n - 1], rows[n]) ELSE selected[n - 1]
  IN selected[Len(rows)]

-----------------------------------------------------------------------------
(* compact_with_stats *)

\* What may be sent to a model.
Spoken(rows) == Select(rows, {i \in DOMAIN rows : rows[i].role # "ui"})

\* An output that was cut is still over the cap: the cap's worth of text and a notice.
Oversized(r) == r.role = "tool" /\ r.text \in {"long", "cut"}

\* The cut row is a new message, which has no id.
Prune(rows) ==
  [i \in DOMAIN rows |-> IF Oversized(rows[i]) THEN [rows[i] EXCEPT !.id = 0, !.text = "cut"] ELSE rows[i]]

\* Mutant: the recent rows may begin with the result of a call that is summarised.
SplitAnywhere(turns, keep) == Len(turns) - keep

\* How many rows are not recent.
Split(turns, keep) ==
  Max({k \in 0 .. Len(turns) - keep : k = 0 \/ turns[k + 1].role # "tool"})

\* _pinned_intermediate: the latest message of the user, and the latest skill_view
\* call that has its result.
ViewCall(r)    == r.calls[Max({k \in DOMAIN r.calls : r.calls[k].kind = "view"})]
Views(r)       == r.role = "assistant" /\ \E c \in Range(r.calls) : c.kind = "view"
Results(m, i)  == {j \in i + 1 .. Len(m) : m[j].role = "tool" /\ m[j].of = ViewCall(m[i]).n}
Loads(m)       == {i \in DOMAIN m : Views(m[i]) /\ Results(m, i) # {}}
Users(m)       == {i \in DOMAIN m : m[i].role = "user"}

Pins(m) ==
  (IF Users(m) = {} THEN {} ELSE {Max(Users(m))}) \cup
  (IF Loads(m) = {} THEN {} ELSE {Max(Loads(m)), Min(Results(m, Max(Loads(m))))})

\* A pinned call is alone in its row: the calls beside it are summarised.
PinnedForm(r) == IF Views(r) THEN [r EXCEPT !.calls = <<ViewCall(r)>>] ELSE r

Loose(m) == DOMAIN m \ Pins(m)

\* The unpinned rows up to i, from the last pinned one before it.
RunTo(pins, i) == {j \in 1 .. i : (j .. i) \cap pins = {}}

\* Mutant: only what the user's own messages say is required of a summary.
RequiredOfUsers(rows) == UNION {r.says : r \in {x \in rows : x.role = "user"}}

\* required_fact_text: messages of the user and earlier summaries.
Required(rows) == UNION {r.says : r \in rows}

\* build_verified_summary
Summary(rows) == [Row(0, "assistant", "summary") EXCEPT !.says = Required(rows)]

Condensed(m) ==
  LET pins == Pins(m)
  IN Select([i \in DOMAIN m |-> IF i \in pins THEN PinnedForm(m[i]) ELSE Summary({m[j] : j \in RunTo(pins, i)})],
            {i \in DOMAIN m : i \in pins \/ i + 1 \notin DOMAIN m \ pins})

\* Mutant: the rows between the root and the recent ones are summarised, whatever they are.
SettledNever(m) == FALSE

\* Nothing is left to summarise but summaries.
Settled(m) == Loose(m) # {} /\ \A i \in Loose(m) : IsSummary(m[i])

\* Every summary passes check_summary: it holds what is required by construction, and
\* fits says that it is shorter than a long run of rows.
Compact(rows, keep, force, over, fits, shrinks) ==
  LET said   == Spoken(rows)
      pruned == Prune(said)
      cut    == \E r \in Range(said) : Oversized(r)
      root   == IF said # <<>> /\ said[1].role = "user" THEN 1 ELSE 0
      turns  == SubSeq(pruned, root + 1, Len(pruned))
      split  == Split(turns, keep)
      middle == SubSeq(turns, 1, split)
      asIs   == (~force /\ ~over) \/ Len(turns) <= keep
      vain   == ~cut /\ (Loose(middle) = {} \/ (force /\ ~shrinks))
      Same(applied) == [rows |-> pruned, applied |-> applied]
  IN IF asIs THEN Same(cut)
     ELSE IF Settled(middle) THEN Same(FALSE)
     ELSE IF Loose(middle) # {} /\ ~fits THEN Same(cut)
     ELSE IF vain THEN Same(FALSE)
     ELSE [rows    |-> SubSeq(pruned, 1, root) \o Condensed(middle) \o SubSeq(turns, split + 1, Len(turns)),
           applied |-> TRUE]

-----------------------------------------------------------------------------
(* Rows in the database. *)

\* The new rows among those that are kept get ids.
Numbered(rows) ==
  [i \in DOMAIN rows |->
     IF rows[i].id # 0 THEN rows[i]
     ELSE [rows[i] EXCEPT !.id = NextId + Cardinality({j \in 1 .. i - 1 : rows[j].id = 0})]]

\* Mutants: the rows that are summarised are deleted; they are linked to the newest
\* summary there was before.
ReplaceDeleting(rows) ==
  /\ active' = Numbered(rows)
  /\ UNCHANGED <<archived, link>>

LinksBehind(rows) == {r.id : r \in {x \in Range(active) : IsSummary(x)}} \cup Ids(rows)

\* Which row the archived ones are linked to: the last summary, else any kept row.
LinksTo(rows) ==
  LET sums == {i \in DOMAIN rows : IsSummary(rows[i])}
  IN IF sums = {} THEN Ids(rows) ELSE {rows[Max(sums)].id}

\* replace_session_messages: the active rows that are not among the new ones are archived.
Replace(rows) ==
  LET kept == Numbered(rows)
      gone == Select(active, {i \in DOMAIN active : active[i].id \notin Ids(kept)})
  IN /\ active' = kept /\ archived' = archived \o gone
     /\ \E t \in LinksTo(kept) :
          link' = [i \in Ids(archived') |-> IF i \in DOMAIN link THEN link[i] ELSE t]

Has(rows, c) == \E i \in DOMAIN rows : rows[i].of = c

Rewritten(rows, c, text) ==
  [rows EXCEPT ![Max({i \in DOMAIN rows : rows[i].of = c})].text = text]

\* save_message of a tool's row: the last row of its call is rewritten, archived or not.
SaveResult(c, text) ==
  IF Has(active, c) THEN active' = Rewritten(active, c, text) /\ UNCHANGED archived
  ELSE IF Has(archived, c) THEN archived' = Rewritten(archived, c, text) /\ UNCHANGED active
  ELSE active' = Append(active, ToolRow(c, text)) /\ UNCHANGED archived

-----------------------------------------------------------------------------
(* Turns. *)

RoomLeft == Len(Stored) < MaxRows

\* A message of the user starts a turn, with the rows the model may see.
Say ==
  /\ turn = "idle" /\ RoomLeft
  /\ active' = Append(active, UserRow)
  /\ history' = Spoken(active') /\ turn' = "ask"
  /\ UNCHANGED <<archived, link, todo, open, presses, notices>>

\* The model answers without calls: the turn is over.
Answer ==
  /\ turn = "ask"
  /\ active' = Append(active, Row(NextId, "assistant", "plain"))
  /\ history' = <<>> /\ turn' = "idle"
  /\ UNCHANGED <<archived, link, todo, open, presses, notices>>

CallNumber(i) == <<NextId, i>>

CallTools(batch) ==
  /\ turn = "ask" /\ RoomLeft
  /\ LET made == [i \in DOMAIN batch |-> [n |-> CallNumber(i), kind |-> batch[i]]]
         row  == [Row(NextId, "assistant", "plain") EXCEPT !.calls = made]
     IN /\ active' = Append(active, row) /\ history' = Append(history, row)
        /\ todo' = made /\ turn' = "tools"
  /\ UNCHANGED <<archived, link, open, presses, notices>>

Output(kind) == IF kind = "big" THEN "long" ELSE "plain"

Result ==
  /\ turn = "tools" /\ Head(todo).kind # "card"
  /\ LET c == Head(todo) IN
       /\ SaveResult(c.n, Output(c.kind))
       /\ history' = Append(history, ToolRow(c.n, Output(c.kind)))
  /\ todo' = Tail(todo) /\ turn' = IF Len(todo) = 1 THEN "ask" ELSE "tools"
  /\ UNCHANGED <<link, open, presses, notices>>

\* Mutant: the calls beside the parked one stay to be done.
ParkAlone ==
  /\ turn = "tools" /\ Head(todo).kind = "card"
  /\ open' = open \cup {Head(todo).n}
  /\ active' = Append(active, ToolRow(Head(todo).n, "parked"))
  /\ history' = <<>> /\ todo' = Tail(todo) /\ turn' = "idle"
  /\ UNCHANGED <<archived, link, presses, notices>>

\* The call waits for a decision, the rest of the batch is deferred, the turn ends.
Park ==
  /\ turn = "tools" /\ Head(todo).kind = "card"
  /\ open' = open \cup {Head(todo).n}
  /\ active' = active \o [i \in DOMAIN todo |->
                  [ToolRow(todo[i].n, IF i = 1 THEN "parked" ELSE "plain") EXCEPT !.id = NextId + i - 1]]
  /\ history' = <<>> /\ todo' = <<>> /\ turn' = "idle"
  /\ UNCHANGED <<archived, link, presses, notices>>

\* Stop, which may save what was written so far, or the death of the process.
Interrupt(partial) ==
  /\ turn # "idle"
  /\ active' = IF partial THEN Append(active, Row(NextId, "assistant", "plain")) ELSE active
  /\ history' = <<>> /\ todo' = <<>> /\ turn' = "idle"
  /\ UNCHANGED <<archived, link, open, presses, notices>>

\* A note or a skill proposal.
Notice ==
  /\ notices < MaxNotices /\ notices' = notices + 1
  /\ active' = Append(active, Row(NextId, "ui", "plain"))
  /\ UNCHANGED <<archived, link, history, turn, todo, open, presses>>

\* An idle chat may go on with a turn after a decision.
GoOn(resumes) ==
  IF resumes
  THEN turn = "idle" /\ turn' = "ask" /\ history' = Spoken(active')
  ELSE UNCHANGED <<history, turn>>

\* persist_outcome: the decision's result, or its rejection, is the call's row.
Decide(c, resumes) ==
  /\ c \in open /\ open' = open \ {c}
  /\ SaveResult(c, "decided") /\ GoOn(resumes)
  /\ UNCHANGED <<link, todo, presses, notices>>

\* A call of another chat.
Elsewhere(c) == c[1] = 0 /\ c # NoCall

\* The card of a child, decided on this chat's page: the row of its call, which is in
\* the child's chat, is saved here as well.
DecideForChild(resumes) ==
  /\ notices < MaxNotices /\ notices' = notices + 1
  /\ active' = Append(active, ToolRow(<<0, notices'>>, "decided"))
  /\ GoOn(resumes)
  /\ UNCHANGED <<archived, link, todo, open, presses>>

\* run_session_compaction, whatever the chat is doing.
Press ==
  /\ presses < MaxPresses /\ presses' = presses + 1
  /\ \E fits, shrinks \in BOOLEAN :
       LET c == Compact(active, ButtonKeep, TRUE, TRUE, fits, shrinks)
       IN IF c.applied THEN Replace(c.rows) ELSE UNCHANGED <<active, archived, link>>
  /\ UNCHANGED <<history, turn, todo, open, notices>>

Next ==
  \/ Say \/ Answer \/ Result \/ Park \/ Notice \/ Press
  \/ \E b \in Batches : CallTools(b)
  \/ \E partial \in BOOLEAN : Interrupt(partial)
  \/ \E c \in open, resumes \in BOOLEAN : Decide(c, resumes)
  \/ \E resumes \in BOOLEAN : DecideForChild(resumes)

Spec == Init /\ [][Next]_vars

-----------------------------------------------------------------------------
(* What must hold. *)

\* What the next request of the turn may be.
Requests ==
  IF turn # "ask" THEN {}
  ELSE {Compact(history, RequestKeep, FALSE, over, fits, TRUE).rows : over, fits \in BOOLEAN}

\* The calls that load a runbook after another call of their batch.  When the batch is
\* pinned without that other call, a summary comes between the call and its result.
LateRunbooks == {ViewCall(r).n : r \in {x \in Range(Stored) : Views(x)}} \ (Nat \X {1})

\* A child's decision was saved here: a result whose call is in another chat.
HoldsCopies == \E r \in Range(Stored) : Elsewhere(r.of)

\* Each result directly follows the batch of its call, or another result of it.
Threaded(rows) ==
  \A i \in DOMAIN rows : rows[i].role = "tool" /\ rows[i].of \notin LateRunbooks =>
    \E j \in 1 .. i - 1 : /\ rows[i].of \in Calls(rows[j])
                          /\ \A k \in j + 1 .. i : rows[k].role = "tool"

\* "Never leaves a tool return without its call", nor a call whose result is known
\* without it: providers refuse such requests.  However often the chat was compacted, by
\* the button or on the way to the model, before and in the middle of a turn; but for
\* the result of a runbook loaded after another call of its batch, which may stand
\* behind a summary, and but for a chat into which a child's decision was copied.
RequestIsWellFormed ==
  ~HoldsCopies =>
    \A rows \in Requests :
      /\ Threaded(rows)
      /\ \A i \in DOMAIN rows : \A c \in Calls(rows[i]) : Has(history, c) => Has(rows, c)

\* What the user ever said that a summary must keep can be read in the chat and in
\* every request: through summaries of summaries, pins and outputs that were cut.
NothingSaidIsLost ==
  LET said == {r.id : r \in {x \in Range(Stored) : x.role = "user"}}
  IN /\ said \subseteq Required(Range(active))
     /\ \A rows \in Requests : Required(Range(history)) \subseteq Required(Range(rows))

\* "Non-destructive": compaction neither deletes nor rewrites a row, except that a
\* pinned batch loses the calls beside its skill_view for good.
RowsAreKept ==
  [][\A r \in Range(Stored) : \E s \in Range(Stored') :
       \/ s = r
       \/ s = [r EXCEPT !.text = "decided"] /\ r.of \in open \ open'
       \/ presses' # presses /\ Views(r) /\ s = PinnedForm(r)]_vars

\* An archived row can be found from the chat: its link leads, over summaries that
\* were archived later, to a row that is shown.
LinksEndInChat ==
  \A i \in DOMAIN archived :
    link[archived[i].id] \in Ids(active) \cup {archived[j].id : j \in i + 1 .. Len(archived)}

\* Pressing Compact again finds nothing to do, unless an output is over the cap,
\* however the summaries came out the first time.
CompactSettles ==
  [][presses' # presses /\ active' # active /\ (\A r \in Range(active') : ~Oversized(r))
       => \A fits, shrinks \in BOOLEAN : ~Compact(active', ButtonKeep, TRUE, TRUE, fits, shrinks).applied]_vars

\* "Save the decision's TOOL row(s) where the turn and the operator look": the chat
\* shows the outcome of a card that was decided, not an archived row.
DecisionIsShown ==
  [][\A c \in open \ open' : \E r \in Range(active') : r.of = c /\ r.text = "decided"]_vars

=============================================================================
