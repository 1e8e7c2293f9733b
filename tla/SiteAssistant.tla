---------------------------- MODULE SiteAssistant ----------------------------
(***************************************************************************)
(* The public site assistant of the AI service.  When the service starts   *)
(* it indexes the pages and the guides of its release, then it serves:     *)
(* anonymous questions pass two daily caps in Redis, are answered by a     *)
(* model from the chunks that the index returns, and cite them.            *)
(***************************************************************************)
EXTENDS Naturals, FiniteSets

CONSTANTS Pages,      \* content ids of sections of site pages
          Guides,     \* content ids of sections of guides
          Versions,   \* what a section can say
          Questions,  \* requests under way at a time
          Visitors,   \* client addresses
          VisitorCap, GlobalCap, \* 0 is no cap (a finite run needs others)
          MaxFaults,  \* bound on refusals of Redis, of the model and of the database, and deaths
          none

\* What is assumed of the constants: the caps are numbers, and a moment has finitely many
\* requests.
AssistantAssumption ==
    /\ IsFiniteSet(Questions) /\ VisitorCap \in Nat /\ GlobalCap \in Nat /\ MaxFaults \in Nat
    /\ none # "answered"

VARIABLES release,   \* the file of each section in the release that runs
          rows,      \* site_chunks: the version each content id has
          phase,     \* of the service
          complete,  \* the last indexing went through
          asked,     \* today's counter of each visitor
          called,    \* today's global counter
          question,  \* what each request holds
          calls,     \* history: model calls counted today
          let,       \* history: questions of each visitor let through today
          faults

assistantVars == <<release, rows, phase, complete, asked, called, question, calls, let, faults>>

Sections == Pages \cup Guides
\* A file can be missing, or there and not to be indexed: a draft, excluded, unreadable.
Files == Versions \cup {"missing", "draft"}
NoQuestion == [step |-> "idle", who |-> none, found |-> {}, counted |-> FALSE,
               today |-> FALSE, outcome |-> none, cited |-> {}]

Init ==
    /\ release = [s \in Sections |-> "missing"]
    /\ rows = [s \in Sections |-> none]
    /\ phase = "down" /\ complete = FALSE
    /\ asked = [v \in Visitors |-> 0] /\ called = 0
    /\ question = [q \in Questions |-> NoQuestion]
    /\ calls = 0 /\ let = [v \in Visitors |-> 0]
    /\ faults = 0

Fault == faults < MaxFaults /\ faults' = faults + 1

ServingUnchanged == UNCHANGED <<asked, called, calls, let>>
IndexUnchanged == UNCHANGED <<release, rows, phase, complete>>
-----------------------------------------------------------------------------
(* Starting: lifespan, _ingest_site_knowledge.                             *)

\* A new image is started, with other files.
Deploy ==
    /\ phase = "down"
    /\ \E f \in [Sections -> Files] : release' = f
    /\ phase' = "pages"
    /\ complete' = TRUE
    /\ ServingUnchanged /\ UNCHANGED <<rows, question, faults>>

Published(s) == IF release[s] \in Versions THEN release[s] ELSE none

\* Mutant: what is no longer published stays in the index.
Added(source) ==
    [s \in Sections |-> IF s \in source /\ Published(s) # none THEN Published(s) ELSE rows[s]]

\* sync_chunks, one transaction: what is published is written, what is stale deleted.
Synced(source) == [s \in Sections |-> IF s \in source THEN Published(s) ELSE rows[s]]

\* No file at all is taken for a wrong path and leaves the index alone.
Empty(source) == \A s \in source : release[s] = "missing"

Ingest(source, now, next) ==
    /\ phase = now
    /\ \/ /\ phase' = next
          /\ rows' = IF Empty(source) THEN rows ELSE Synced(source)
          /\ complete' = (complete /\ ~Empty(source))
          /\ UNCHANGED faults
       \* An error ends the indexing, and the previous index keeps serving.
       \/ Fault /\ phase' = "serving" /\ complete' = FALSE /\ UNCHANGED rows
       \/ Fault /\ phase' = "down" /\ complete' = FALSE /\ UNCHANGED rows
    /\ ServingUnchanged /\ UNCHANGED <<release, question>>

IngestPages == Ingest(Pages, "pages", "guides")
IngestGuides == Ingest(Guides, "guides", "serving")

\* The service stops, for a new image or by itself; every request is lost.
Stop ==
    /\ phase = "serving"
    /\ phase' = "down"
    /\ question' = [q \in Questions |-> NoQuestion]
    /\ ServingUnchanged /\ UNCHANGED <<release, rows, complete, faults>>
-----------------------------------------------------------------------------
(* One question: ask_route and site_assistant.ask.                         *)

At(q, step) == phase = "serving" /\ question[q].step = step
Move(q, r) == question' = [question EXCEPT ![q] = r]
End(q, outcome) == Move(q, [question[q] EXCEPT !.step = "over", !.outcome = outcome])

\* Without a cap nothing is counted or compared.
Within(n, cap) == cap = 0 \/ n < cap

\* A counter is only compared with its cap: past it, it is left where it is.
OneMore(n, cap) == IF cap # 0 /\ n =< cap THEN n + 1 ELSE n

\* enforce_daily_cap of the visitor, then verification and the choice of the model
\* (which may refuse: 403, 503).  INCR and EXPIRE are one transaction.
Ask(q, v) ==
    /\ phase = "serving" /\ question[q].step \in {"idle", "over"}
    /\ \/ /\ asked' = [asked EXCEPT ![v] = OneMore(@, VisitorCap)]
          /\ IF Within(asked[v], VisitorCap)
             THEN \/ /\ Move(q, [NoQuestion EXCEPT !.step = "retrieve", !.who = v])
                     /\ let' = [let EXCEPT ![v] = @ + 1]
                  \/ /\ Move(q, [NoQuestion EXCEPT !.step = "over", !.outcome = "refused"])
                     /\ UNCHANGED let
             ELSE /\ Move(q, [NoQuestion EXCEPT !.step = "over", !.outcome = "capped"])
                  /\ UNCHANGED let
          /\ UNCHANGED faults
       \/ /\ VisitorCap # 0 /\ Fault
          /\ Move(q, [NoQuestion EXCEPT !.step = "over", !.outcome = "unavailable"])
          /\ UNCHANGED <<asked, let>>
    /\ IndexUnchanged /\ UNCHANGED <<called, calls>>

\* retrieve, reaches_model, load_prompt: some of the chunks match, the best of them
\* well enough or not; the index or the prompt may be unavailable.
Retrieve(q) ==
    /\ At(q, "retrieve")
    /\ \/ /\ \E found \in SUBSET {s \in Sections : rows[s] # none} :
                /\ found # {}
                /\ Move(q, [question[q] EXCEPT !.step = "cap",
                               !.found = {<<s, rows[s]>> : s \in found}])
          /\ UNCHANGED faults
       \/ End(q, "unanswerable") /\ UNCHANGED faults
       \/ Fault /\ End(q, "unavailable")
    /\ IndexUnchanged /\ ServingUnchanged

\* before_model_call: the global cap, only for a question that reaches the model.
Count(q) ==
    /\ At(q, "cap")
    /\ \/ /\ called' = OneMore(called, GlobalCap)
          /\ IF Within(called, GlobalCap)
             THEN Move(q, [question[q] EXCEPT !.step = "model", !.counted = TRUE, !.today = TRUE])
             ELSE Move(q, [question[q] EXCEPT !.step = "over", !.counted = TRUE, !.outcome = "capped"])
          /\ UNCHANGED faults
       \/ GlobalCap # 0 /\ Fault /\ End(q, "unavailable") /\ UNCHANGED called
    /\ IndexUnchanged /\ UNCHANGED <<asked, calls, let>>

\* resolve_citations keeps the ids that were retrieved.
Resolved(ids, found) == {c \in found : c[1] \in ids}

\* The model fails, or gives an answer that may be unanswerable, empty or link to a
\* foreign host, and cites any ids; without a citation that survives there is no answer.
Model(q) ==
    /\ At(q, "model")
    /\ calls' = IF question[q].today THEN calls + 1 ELSE calls
    /\ \/ /\ \E ids \in SUBSET Sections, sound \in BOOLEAN :
                LET cited == Resolved(ids, question[q].found) IN
                IF sound /\ cited # {}
                THEN Move(q, [question[q] EXCEPT !.step = "over", !.outcome = "answered",
                                 !.cited = cited])
                ELSE End(q, "unanswerable")
          /\ UNCHANGED faults
       \/ Fault /\ End(q, "unanswerable")
    /\ IndexUnchanged /\ UNCHANGED <<asked, called, let>>

\* The counters are keyed by the UTC day.
Midnight ==
    /\ asked' = [v \in Visitors |-> 0] /\ called' = 0
    /\ calls' = 0 /\ let' = [v \in Visitors |-> 0]
    /\ question' = [q \in Questions |-> [question[q] EXCEPT !.today = FALSE]]
    /\ IndexUnchanged /\ UNCHANGED faults
-----------------------------------------------------------------------------
Next ==
    \/ Deploy \/ IngestPages \/ IngestGuides \/ Stop
    \/ \E q \in Questions, v \in Visitors : Ask(q, v)
    \/ \E q \in Questions : Retrieve(q)
    \/ \E q \in Questions : Count(q)
    \/ \E q \in Questions : Model(q)
    \/ Midnight

Spec == Init /\ [][Next]_assistantVars
-----------------------------------------------------------------------------
\* Rows, counters and requests hold what they can hold.
TypeOK ==
    /\ release \in [Sections -> Files] /\ rows \in [Sections -> Versions \cup {none}]
    /\ phase \in {"down", "pages", "guides", "serving"} /\ complete \in BOOLEAN
    /\ asked \in [Visitors -> Nat] /\ called \in Nat /\ faults \in 0..MaxFaults
    /\ \A q \in Questions : question[q].found \subseteq Sections \X Versions

\* Whatever an earlier start left behind (it may have died between the pages and the
\* guides), a service whose indexing went through serves the sections its release
\* publishes, each as the release has it, and no other.
IndexIsRelease ==
    phase = "serving" /\ complete => \A s \in Sections : rows[s] = Published(s)

\* However questions overlap, and whether or not the store of the caps answers, one day
\* sees at most GlobalCap model calls and VisitorCap questions of one visitor, where there
\* is such a cap.
CapsHold ==
    /\ GlobalCap # 0 => calls =< GlobalCap
    /\ VisitorCap # 0 => \A v \in Visitors : let[v] =< VisitorCap

\* An answer cites at least one section; each was retrieved for this question and is
\* cited as the index has it while the answer is given.
AnswersAreGrounded ==
    \A q \in Questions : question[q].outcome = "answered" =>
        /\ question[q].cited # {} /\ question[q].cited \subseteq question[q].found
        /\ \A c \in question[q].cited : rows[c[1]] = c[2]
=============================================================================
