----------------------------- MODULE ChatTurns -----------------------------
(***************************************************************************)
(* The chat service: a turn opens a conversation, replays its history to   *)
(* the AI service, calls at most one tool of the budget service, streams   *)
(* the result and saves the turn.                                          *)
(*                                                                         *)
(* Conversations and budgets live in two databases: a turn that changed a  *)
(* budget is recorded in its conversation by a later transaction, or not.  *)
(* The message_count that a conversation carries for display is left out.  *)
(***************************************************************************)
EXTENDS Naturals, FiniteSets, Sequences, SequencesExt

CONSTANTS Turns,         \* requests to /chat/stream
          Threads,       \* ids a conversation can get
          Companies,     \* customers: a conversation belongs to one
          HistoryLimit,  \* _MAX_HISTORY_MESSAGES
          MaxFaults,     \* bound on lost answers, failed saves and clients that leave
          none

\* What is assumed of the constants: _MAX_HISTORY_MESSAGES is 50, an even number of rows.
ChatAssumption ==
    /\ HistoryLimit \in Nat /\ \E pairs \in 1 .. HistoryLimit : HistoryLimit = 2 * pairs
    /\ MaxFaults \in Nat
    /\ none \notin Companies

VARIABLES owner,     \* the customer of each conversation, none before it exists
          messages,  \* rows of messages
          clock,     \* stamps created_at
          turn,      \* what each request holds
          seen,      \* the last frame its client was shown
          deeds,     \* the turns whose tool changed a budget
          faults

vars == <<owner, messages, clock, turn, seen, deeds, faults>>

Roles == {"user", "assistant"}
Tools == {"create", "target"}
Frames == {"nothing", "result", "done", "error"}
Steps == {"idle", "decide", "call", "stream", "save", "show", "over"}

\* A row of messages: ok is the success its tool_result reports.
Rows(t, tool, ok, at) ==
    {[thread |-> turn[t].thread, turn |-> t, role |-> r, at |-> at,
      tool |-> IF r = "user" THEN none ELSE tool, ok |-> r = "assistant" /\ ok] : r \in Roles}

RowsOf(th) == {m \in messages : m.thread = th}

\* A request that holds nothing yet.
NewTurn == [pc |-> "idle", company |-> none, thread |-> none,
            history |-> <<>>, past |-> {}, tool |-> none, ok |-> FALSE]

Init ==
    /\ owner = [th \in Threads |-> none]
    /\ messages = {}
    /\ clock = 0
    /\ turn = [t \in Turns |-> NewTurn]
    /\ seen = [t \in Turns |-> "nothing"]
    /\ deeds = {}
    /\ faults = 0

Fault == faults < MaxFaults /\ faults' = faults + 1
-----------------------------------------------------------------------------
(* One turn of a conversation.                                             *)

\* load_history: the newest rows, oldest first.  Both rows of a turn carry one
\* created_at and the query orders by it alone, so rows of one turn come in either order.
Histories(th) ==
    LET size == IF Cardinality(RowsOf(th)) < HistoryLimit THEN Cardinality(RowsOf(th))
                                                          ELSE HistoryLimit
        newest == {S \in SUBSET RowsOf(th) :
                      /\ Cardinality(S) = size
                      /\ \A m \in S, n \in RowsOf(th) \ S : n.at =< m.at}
    IN  {h \in UNION {SetToSeqs(S) : S \in newest} :
            \A i, j \in DOMAIN h : i < j => h[i].at =< h[j].at}

\* get_or_create_conversation: an id that is unknown, malformed or another
\* customer's silently starts a fresh conversation.
Effective(company, th) ==
    IF th \in Threads /\ owner[th] = company THEN {th} ELSE {f \in Threads : owner[f] = none}

Open(t) ==
    /\ turn[t].pc = "idle"
    /\ \E company \in Companies, asked \in Threads \cup {none} :
          \E th \in Effective(company, asked) : \E h \in Histories(th) :
              /\ owner' = [owner EXCEPT ![th] = company]
              /\ turn' = [turn EXCEPT ![t] = [NewTurn EXCEPT
                              !.pc = "decide", !.company = company, !.thread = th,
                              !.history = h, !.past = RowsOf(th)]]
    /\ UNCHANGED <<messages, clock, seen, deeds, faults>>

\* The stream ends here: one frame, and nothing is saved.
EndWith(t, frame) ==
    /\ turn' = [turn EXCEPT ![t].pc = "over"]
    /\ seen' = [seen EXCEPT ![t] = frame]

\* AiUnavailableError, AiRateLimitedError (a 429 before any stream) or any other:
\* one answer that says so.
DecideFails(t) ==
    /\ turn[t].pc = "decide"
    /\ EndWith(t, "error")
    /\ UNCHANGED <<owner, messages, clock, deeds, faults>>

\* run_turn: a reply, a targeted tool without a budget in view, a tool it does not
\* know and parameters that do not validate all become a plain reply.
Decide(t) ==
    /\ turn[t].pc = "decide"
    /\ \E decision \in Tools \cup {"reply", "unknown", "invalid"}, inView \in BOOLEAN :
          IF decision \in Tools /\ (decision = "target" => inView)
          THEN turn' = [turn EXCEPT ![t].pc = "call", ![t].tool = decision]
          ELSE turn' = [turn EXCEPT ![t].pc = "stream"]
    /\ UNCHANGED <<owner, messages, clock, seen, deeds, faults>>

\* The budget service did what the tool asks, and its answer came.
ToolDone(t) ==
    /\ turn[t].pc = "call"
    /\ deeds' = deeds \cup {t}
    /\ turn' = [turn EXCEPT ![t].pc = "stream", ![t].ok = TRUE]
    /\ UNCHANGED <<owner, messages, clock, seen, faults>>

\* It refused, could not be reached, or a proxy answered in its place with a body
\* that is not JSON: call_tool reports a failure, and the turn goes on with it.
ToolRefused(t) ==
    /\ turn[t].pc = "call"
    /\ turn' = [turn EXCEPT ![t].pc = "stream", ![t].ok = FALSE]
    /\ UNCHANGED <<owner, messages, clock, seen, deeds, faults>>

\* It did what the tool asks and the answer was lost: reported as a failure.
ToolAnswerLost(t) ==
    /\ turn[t].pc = "call" /\ Fault
    /\ deeds' = deeds \cup {t}
    /\ turn' = [turn EXCEPT ![t].pc = "stream", ![t].ok = FALSE]
    /\ UNCHANGED <<owner, messages, clock, seen>>

\* thinking, tool_call and action_result reach the client before anything is saved.
Stream(t) ==
    /\ turn[t].pc = "stream"
    /\ turn' = [turn EXCEPT ![t].pc = "save"]
    /\ seen' = [seen EXCEPT ![t] = IF turn[t].tool = none THEN @ ELSE "result"]
    /\ UNCHANGED <<owner, messages, clock, deeds, faults>>

\* The client leaves between two frames: the generator is closed where it stands.
ClientLeaves(t) ==
    /\ turn[t].pc \in {"stream", "save"} /\ Fault
    /\ turn' = [turn EXCEPT ![t].pc = "over"]
    /\ UNCHANGED <<owner, messages, clock, seen, deeds>>

\* _on_complete: save_turn adds both rows in one transaction, in a session of its own.
Save(t) ==
    /\ turn[t].pc = "save"
    /\ clock' = clock + 1
    /\ messages' = messages \cup Rows(t, turn[t].tool, turn[t].ok, clock')
    /\ turn' = [turn EXCEPT ![t].pc = "show"]
    /\ UNCHANGED <<owner, seen, deeds, faults>>

\* Mutant: the reply is shown all the same.
SaveFailsQuietly(t) ==
    /\ turn[t].pc = "save" /\ Fault
    /\ EndWith(t, "done")
    /\ UNCHANGED <<owner, messages, clock, deeds>>

\* The save raises: the client is shown error, never the reply.
SaveFails(t) ==
    /\ turn[t].pc = "save" /\ Fault
    /\ EndWith(t, "error")
    /\ UNCHANGED <<owner, messages, clock, deeds>>

Show(t) ==
    /\ turn[t].pc = "show"
    /\ EndWith(t, "done")
    /\ UNCHANGED <<owner, messages, clock, deeds, faults>>
-----------------------------------------------------------------------------
Over == (\A t \in Turns : turn[t].pc = "over") /\ UNCHANGED vars

Next ==
    \/ \E t \in Turns : Open(t)
    \/ \E t \in Turns : DecideFails(t)
    \/ \E t \in Turns : Decide(t)
    \/ \E t \in Turns : ToolDone(t)
    \/ \E t \in Turns : ToolRefused(t)
    \/ \E t \in Turns : ToolAnswerLost(t)
    \/ \E t \in Turns : Stream(t)
    \/ \E t \in Turns : ClientLeaves(t)
    \/ \E t \in Turns : Save(t)
    \/ \E t \in Turns : SaveFails(t)
    \/ \E t \in Turns : Show(t)
    \/ Over

Spec == Init /\ [][Next]_vars
-----------------------------------------------------------------------------
\* The variables hold what the columns and the requests can hold.
TypeOK ==
    /\ owner \in [Threads -> Companies \cup {none}]
    /\ clock \in Nat /\ faults \in 0..MaxFaults
    /\ seen \in [Turns -> Frames]
    /\ deeds \subseteq Turns
    /\ \A m \in messages : m.thread \in Threads /\ m.turn \in Turns /\ m.role \in Roles
    /\ \A t \in Turns : /\ turn[t].pc \in Steps
                        /\ turn[t].tool \in Tools \cup {none}
                        /\ Len(turn[t].history) =< HistoryLimit

\* Whatever id a client sends, a turn reads and writes messages of its own customer
\* only: what the AI is shown of a conversation never comes from another company.
ThreadsStayInTheirCompany ==
    /\ \A m \in messages : turn[m.turn].company = owner[m.thread]
    /\ \A t \in Turns : \A i \in DOMAIN turn[t].history :
          turn[turn[t].history[i].turn].company = turn[t].company

\* "Persist before showing the reply": a client that was shown the end of a turn finds
\* both rows of it, and one that was shown an error finds none.
ShownIsSaved ==
    \A t \in Turns :
        LET rows == {m.role : m \in {n \in messages : n.turn = t}} IN
        /\ seen[t] = "done" => rows = Roles
        /\ seen[t] = "error" => rows = {}

\* The history replayed to the AI is the newest whole turns: no question without its
\* answer, and no turn left out between two that are there.
HistoryIsWhole ==
    \A t \in Turns :
        LET kept == ToSet(turn[t].history) IN
        /\ \A m \in kept : \A n \in turn[t].past : n.turn = m.turn => n \in kept
        /\ \A m \in kept : \A n \in turn[t].past \ kept : n.at < m.at

\* A conversation says a tool succeeded only if the budget was changed, whatever is lost
\* or interleaved; and while nothing was lost, a change is in the conversation, under its
\* tool, once the turn is over.
RecordsAreTrue ==
    /\ \A m \in messages : m.ok => m.turn \in deeds
    /\ faults = 0 => \A t \in deeds : turn[t].pc = "over" =>
                        \E m \in messages : m.turn = t /\ m.ok /\ m.tool = turn[t].tool

\* openspec chat-conversations, "Long conversation capped": the history is "oldest first":
\* a question comes before its answer.  Not so: both rows of a turn carry one created_at,
\* and nothing else orders them.
OldestFirst ==
    \A t \in Turns : LET h == turn[t].history IN
        \A i, j \in DOMAIN h : h[i].turn = h[j].turn /\ h[i].role = "user" /\ h[j].role = "assistant" => i < j
=============================================================================
