---------------------------- MODULE AiProviders ----------------------------
(***************************************************************************)
(* The AI service's provider configs of one customer (every query is by    *)
(* customer_id): saved, made the default and deleted by requests that      *)
(* overlap, and resolved by calls that then send a prompt somewhere.       *)
(*                                                                         *)
(* The database is Postgres at READ COMMITTED: a request sees what others  *)
(* committed, its own writes lock their rows until it commits, and a       *)
(* partial unique index admits one row with is_default.  The session keeps *)
(* the first value it loaded of a row and writes an attribute only when it *)
(* differs from what it loaded or last flushed.                            *)
(***************************************************************************)
EXTENDS Naturals, FiniteSets

CONSTANTS Configs,    \* ids of rows of user_provider_keys
          Unapproved, \* configs whose base_url the operator's policy does not list
          Writers,    \* requests to /ai/settings
          Calls,      \* requests to decide, parse-budget and extract-budget-excel
          platform,   \* the model GrantFlow pays for
          none

\* What is assumed of the constants.
ProvidersAssumption ==
    Unapproved \subseteq Configs /\ platform \notin Configs /\ none \notin Configs

VARIABLES stored,    \* committed rows
          default,   \* committed rows with is_default
          fallback,  \* platform_fallback_enabled
          writer,    \* what each settings request holds
          call       \* what each AI request holds

vars == <<stored, default, fallback, writer, call>>

Operations == {"create", "save", "set", "delete", "replace"}
NewWriter == [op |-> none, pc |-> "idle", target |-> none, other |-> none,
              was |-> FALSE, current |-> none, off |-> {}, on |-> {}, gone |-> {}]
NewCall == [kind |-> none, pc |-> "idle", chose |-> none, default |-> none, sent |-> none]

Init ==
    /\ stored = {} /\ default = {} /\ fallback = FALSE
    /\ writer = [w \in Writers |-> NewWriter]
    /\ call = [c \in Calls |-> NewCall]

\* Rows a request has written and not committed.
Held(w) == writer[w].off \cup writer[w].on \cup writer[w].gone
Free(w, k) == \A v \in Writers \ {w} : k \notin Held(v)

\* Mutant: an index that is not unique.
IndexAdmitsAny(w) == TRUE

\* The index: an is_default that another request is changing is waited for, and one
\* that is committed and not turned off by this request refuses the write.
IndexAdmits(w) == default \ (writer[w].off \cup writer[w].gone) = {}
IndexWaits(w) == \E v \in Writers \ {w} : writer[v].on # {} \/ Held(v) \cap default # {}

Set(w, r) == writer' = [writer EXCEPT ![w] = r]
Done(w) == Set(w, [writer[w] EXCEPT !.pc = "over", !.off = {}, !.on = {}, !.gone = {}])
DataUnchanged == UNCHANGED <<stored, default, fallback, call>>
-----------------------------------------------------------------------------
(* /ai/settings/keys, /default, DELETE, /platform-fallback.                *)

\* A key is checked with its provider before anything is read: no row can be in its place.
Begin(w) ==
    /\ writer[w].pc = "idle"
    /\ \/ \E k \in Configs \ stored :
             /\ \A v \in Writers : writer[v].target # k
             /\ \/ Set(w, [NewWriter EXCEPT !.op = "create", !.target = k, !.pc = "current"])
                \/ Set(w, [NewWriter EXCEPT !.op = "save", !.target = k, !.pc = "write"])
       \/ \E k \in stored :
             Set(w, [NewWriter EXCEPT !.op = "set", !.target = k, !.was = k \in default,
                                      !.pc = "current"])
    /\ DataUnchanged

\* delete: one query loads both rows, so their is_default is of one moment.
BeginDelete(w) ==
    /\ writer[w].pc = "idle"
    /\ \E k \in stored, o \in stored \cup {none} :
          /\ o # k
          /\ IF k \in default /\ o # none
             THEN Set(w, [NewWriter EXCEPT !.op = "replace", !.target = o, !.other = k, !.pc = "unset",
                                           !.current = k])
             ELSE Set(w, [NewWriter EXCEPT !.op = "delete", !.other = k, !.pc = "remove"])
    /\ DataUnchanged

\* _unset_default reads the default row; the object of a row loaded before keeps its value.
ReadCurrent(w) ==
    /\ writer[w].pc = "current"
    /\ Set(w, [writer[w] EXCEPT !.pc = "unset",
                  !.current = IF default = {} THEN none ELSE CHOOSE k \in default : TRUE])
    /\ DataUnchanged

\* The flush: UPDATE of the default row, if its value in the session is TRUE.
Unset(w) ==
    LET r == writer[w]
        loaded == r.current # r.target \/ r.was
    IN  /\ r.pc = "unset"
        /\ IF r.current = none \/ ~loaded
           THEN Set(w, [r EXCEPT !.pc = "write"])
           ELSE /\ Free(w, r.current) /\ r.current \in stored
                /\ Set(w, [r EXCEPT !.pc = "write", !.off = {r.current}])
        /\ DataUnchanged

\* Mutant: the session forgets that it turned the flag off itself.
KnownFromLoad(r) == r.op = "set" /\ r.was

\* The session takes the target for the default already, so the write changes nothing.
Known(r) == r.op = "set" /\ r.was /\ r.current # r.target

\* INSERT, or UPDATE of the target: only if the session knows it as not the default.
Write(w) ==
    LET r == writer[w]
    IN  /\ r.pc = "write"
        /\ IF r.op = "save" \/ Known(r)
           THEN Set(w, [r EXCEPT !.pc = "commit"])
           ELSE /\ Free(w, r.target) /\ ~IndexWaits(w) /\ IndexAdmits(w)
                /\ r.op = "create" \/ r.target \in stored
                /\ Set(w, [r EXCEPT !.on = {r.target},
                                    !.pc = IF r.op = "replace" THEN "remove" ELSE "commit"])
        /\ DataUnchanged

\* DELETE; that a row is gone already is only a warning.
Remove(w) ==
    /\ writer[w].pc = "remove"
    /\ Free(w, writer[w].other)
    /\ Set(w, [writer[w] EXCEPT !.gone = {writer[w].other}, !.pc = "commit"])
    /\ DataUnchanged

Commit(w) ==
    LET r == writer[w]
        made == IF r.op \in {"create", "save"} THEN {r.target} ELSE {}
    IN  /\ r.pc = "commit"
        /\ stored' = (stored \cup made) \ r.gone
        /\ default' = ((default \ r.off) \cup r.on) \ r.gone
        /\ Done(w)
        /\ UNCHANGED <<fallback, call>>

\* The index refuses, the row to update is gone (StaleDataError), Postgres breaks a deadlock or the
\* connection drops: the transaction is rolled back.
Fail(w) ==
    /\ writer[w].pc \in {"current", "unset", "write", "remove", "commit"}
    /\ Done(w)
    /\ DataUnchanged

\* A superuser's PUT /platform-fallback.
SetFallback ==
    /\ fallback' = ~fallback
    /\ UNCHANGED <<stored, default, writer, call>>
-----------------------------------------------------------------------------
(* decide, parse-budget, extract-budget-excel.                             *)

\* Mutant: the policy is not asked again when a stored config is used.
UsableStored(k) == k # none

\* A config whose adapter builds a model: its endpoint is one the operator approved.
Usable(k) == k # none /\ k \notin Unapproved

\* get_resolved_model: the default config, or nothing when there is none or the
\* adapter cannot build a model of it (its endpoint is not approved).
Resolve(c) ==
    /\ call[c].pc = "idle"
    /\ \E kind \in {"chat", "excel"}, k \in IF default = {} THEN {none} ELSE default :
          call' = [call EXCEPT ![c] = [NewCall EXCEPT
                      !.kind = kind, !.default = k,
                      !.chose = IF Usable(k) THEN k ELSE none,
                      !.pc = IF Usable(k) THEN "limit" ELSE "fallback"]]
    /\ UNCHANGED <<stored, default, fallback, writer>>

\* resolve_with_platform_fallback for chat; excel falls back whatever the flag says.
\* Without a fallback, or where the platform has no key of its own, there is no provider.
FallBack(c) ==
    /\ call[c].pc = "fallback"
    /\ \/ /\ call[c].kind = "excel" \/ fallback
          /\ call' = [call EXCEPT ![c].chose = platform, ![c].pc = "limit"]
       \/ call' = [call EXCEPT ![c].pc = "over"]
    /\ UNCHANGED <<stored, default, fallback, writer>>

\* enforce_rate_limit (not for excel on the customer's own key), then the prompt leaves.
Send(c) ==
    /\ call[c].pc = "limit"
    /\ \/ call' = [call EXCEPT ![c].pc = "over", ![c].sent = call[c].chose]
       \/ /\ ~(call[c].kind = "excel" /\ call[c].chose # platform)
          /\ call' = [call EXCEPT ![c].pc = "over"]
    /\ UNCHANGED <<stored, default, fallback, writer>>
-----------------------------------------------------------------------------
Next ==
    \/ \E w \in Writers : Begin(w)
    \/ \E w \in Writers : BeginDelete(w)
    \/ \E w \in Writers : ReadCurrent(w)
    \/ \E w \in Writers : Unset(w)
    \/ \E w \in Writers : Write(w)
    \/ \E w \in Writers : Remove(w)
    \/ \E w \in Writers : Commit(w)
    \/ \E w \in Writers : Fail(w)
    \/ SetFallback
    \/ \E c \in Calls : Resolve(c)
    \/ \E c \in Calls : FallBack(c)
    \/ \E c \in Calls : Send(c)

Spec == Init /\ [][Next]_vars
-----------------------------------------------------------------------------
\* The rows are the customer's, and a request waits only for rows that can be held.
TypeOK ==
    /\ default \subseteq stored /\ stored \subseteq Configs /\ fallback \in BOOLEAN
    /\ \A w \in Writers : writer[w].op \in Operations \cup {none} /\ Held(w) \subseteq Configs
    /\ \A c \in Calls : call[c].sent \in Configs \cup {platform, none}

\* openspec ai-provider-settings: "at most one SHALL be marked default at any time",
\* however the unsetting and the setting of several requests interleave.
AtMostOneDefault == Cardinality(default) =< 1

\* What commits has happened: a config created as the default, or put in the place of a
\* deleted default, is the default when its request commits; so is one that was set, unless
\* it was the default when the request loaded it and no longer when it read the default.
DefaultStep ==
    \A w \in Writers :
          (writer[w].pc = "commit" /\ writer'[w].pc = "over" /\ (stored' # stored \/ default' # default)) =>
              \/ writer[w].op \in {"save", "delete"}
              \/ writer[w].op = "set" /\ writer[w].was /\ writer[w].current # writer[w].target
              \/ default' = {writer[w].target}

DefaultTakesEffect == [][DefaultStep]_vars

\* A prompt goes to the config that was the default when it was resolved or to the model
\* GrantFlow pays for, and never to an endpoint the operator did not approve.
PromptsGoWhereAllowed ==
    \A c \in Calls : call[c].sent # none =>
        /\ call[c].sent \in {call[c].default, platform}
        /\ call[c].sent \notin Unapproved
        /\ Usable(call[c].default) => call[c].sent = call[c].default

\* openspec ai-provider-settings, "Stored config predating the policy": the request "is not
\* sent and the caller receives the same 'no usable AI provider' outcome".  Not so: the call
\* falls back to the model of the platform, as a customer without a config does.
DeniedMeansNoProvider ==
    \A c \in Calls : call[c].default \in Unapproved => call[c].sent = none

\* openspec ai-provider-settings, "Setting a new default": "that config becomes the default".
\* Not so when it was the default as the request loaded it and is no more when the
\* request reads the default: the session sees nothing to write.
SetBecomesDefault ==
    [][\A w \in Writers :
          (writer[w].op = "set" /\ writer[w].pc = "commit" /\ writer'[w].pc = "over" /\ default' # default)
              => default' = {writer[w].target}]_vars
=============================================================================
