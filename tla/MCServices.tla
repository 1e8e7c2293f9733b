------------------------------ MODULE MCServices ------------------------------
(***************************************************************************)
(* Instances for TLC of five parts that share no state: MailLinks and      *)
(* Lockouts of the users service, ChatTurns, AiProviders and SiteAssistant.*)
(* A behaviour is one of one part, chosen at the start; the variables of   *)
(* the others have no value.  One run thus explores the sum of the five    *)
(* state spaces, and not their product.                                    *)
(***************************************************************************)
EXTENDS Naturals, FiniteSets, Sequences, TLC

CONSTANTS
  People, Addresses, NoAddress, Tombstone, Invited, AskAgain, Workers, MaxRequests, MaxTokens,
  Tries, Emails, Ips, Attempts,
  Turns, Threads, Companies, HistoryLimit,
  Configs, Unapproved, Writers, Calls, platform,
  Pages, Guides, Versions, Questions, Visitors, VisitorCap, GlobalCap,
  MaxFaults, none

VARIABLES
  part,  \* the part this behaviour is of
  accounts, mails, req, issued, begun, proven, cut, crossed,
  bucket, count, ttl, try, wrong,
  owner, messages, clock, turn, seen, deeds,
  stored, default, fallback, writer, call,
  release, rows, phase, complete, asked, called, question, calls, let,
  faults \* of the part

Links == INSTANCE MailLinks
Lockout == INSTANCE Lockouts
Chat == INSTANCE ChatTurns
Ai == INSTANCE AiProviders
Site == INSTANCE SiteAssistant

\* The assumptions of the parts, for these constants.
ASSUME PartsAssumption ==
  /\ Links!MailLinksAssumption /\ Lockout!LockoutsAssumption /\ Chat!ChatAssumption
  /\ Ai!ProvidersAssumption /\ Site!AssistantAssumption

linksVars == <<accounts, mails, req, issued, begun, proven, cut, crossed>>
lockoutVars == <<bucket, count, ttl, try, wrong>>
chatVars == <<owner, messages, clock, turn, seen, deeds>>
providerVars == <<stored, default, fallback, writer, call>>
siteVars == <<release, rows, phase, complete, asked, called, question, calls, let>>
vars == <<part, linksVars, lockoutVars, chatVars, providerVars, siteVars, faults>>

\* Requests of a kind are alike; a set of names serves several parts, so few are permuted.
Alike == Permutations(Turns) \cup Permutations(Threads) \cup Permutations(Companies)

\* The variables of a part this behaviour is not of.
NoLinks ==
  /\ accounts = none /\ mails = none /\ req = none /\ issued = none
  /\ begun = none /\ proven = none /\ cut = none /\ crossed = none
NoLockout ==
  /\ bucket = none /\ count = none /\ ttl = none /\ try = none /\ wrong = none
NoChat ==
  /\ owner = none /\ messages = none /\ clock = none /\ turn = none
  /\ seen = none /\ deeds = none
NoAi ==
  /\ stored = none /\ default = none /\ fallback = none /\ writer = none
  /\ call = none
NoSite ==
  /\ release = none /\ rows = none /\ phase = none /\ complete = none /\ asked = none
  /\ called = none /\ question = none /\ calls = none /\ let = none

Init ==
  \/ part = "links" /\ Links!Init /\ NoLockout /\ NoChat /\ NoAi /\ NoSite /\ faults = 0
  \/ part = "lockouts" /\ Lockout!Init /\ NoLinks /\ NoChat /\ NoAi /\ NoSite
  \/ part = "chat" /\ Chat!Init /\ NoLinks /\ NoLockout /\ NoAi /\ NoSite
  \/ part = "providers" /\ Ai!Init /\ NoLinks /\ NoLockout /\ NoChat /\ NoSite /\ faults = 0
  \/ part = "assistant" /\ Site!Init /\ NoLinks /\ NoLockout /\ NoChat /\ NoAi

InLinks == part = "links"
LinksOnly == UNCHANGED <<part, lockoutVars, chatVars, providerVars, siteVars, faults>>
InLockouts == part = "lockouts"
LockoutsOnly == UNCHANGED <<part, linksVars, chatVars, providerVars, siteVars>>
InChat == part = "chat"
ChatOnly == UNCHANGED <<part, linksVars, lockoutVars, providerVars, siteVars>>
InProviders == part = "providers"
ProvidersOnly == UNCHANGED <<part, linksVars, lockoutVars, chatVars, siteVars, faults>>
InAssistant == part = "assistant"
AssistantOnly == UNCHANGED <<part, linksVars, lockoutVars, chatVars, providerVars>>

Next ==
  \/ \E w \in Workers, p \in People : InLinks /\ Links!Ask(w, p) /\ LinksOnly
  \/ \E w \in Workers, p \in People : InLinks /\ Links!Follow(w, p) /\ LinksOnly
  \/ \E w \in Workers : InLinks /\ Links!Write(w) /\ LinksOnly
  \/ \E w \in Workers : InLinks /\ Links!IssueToken(w) /\ LinksOnly
  \/ \E w \in Workers : InLinks /\ Links!Send(w) /\ LinksOnly
  \/ \E w \in Workers : InLinks /\ Links!GiveUp(w) /\ LinksOnly
  \/ \E t \in Tries, e \in Emails, i \in Ips : InLockouts /\ Lockout!Start(t, e, i) /\ LockoutsOnly
  \/ \E e \in Emails, i \in Ips : InLockouts /\ Lockout!SendForm(e, i) /\ LockoutsOnly
  \/ \E t \in Tries : InLockouts /\ Lockout!Wrong(t) /\ LockoutsOnly
  \/ \E t \in Tries : InLockouts /\ Lockout!Right(t) /\ LockoutsOnly
  \/ \E k \in Lockout!Keys : InLockouts /\ Lockout!Expire(k) /\ LockoutsOnly
  \/ \E t \in Turns : InChat /\ Chat!Open(t) /\ ChatOnly
  \/ \E t \in Turns : InChat /\ Chat!DecideFails(t) /\ ChatOnly
  \/ \E t \in Turns : InChat /\ Chat!Decide(t) /\ ChatOnly
  \/ \E t \in Turns : InChat /\ Chat!ToolDone(t) /\ ChatOnly
  \/ \E t \in Turns : InChat /\ Chat!ToolRefused(t) /\ ChatOnly
  \/ \E t \in Turns : InChat /\ Chat!ToolAnswerLost(t) /\ ChatOnly
  \/ \E t \in Turns : InChat /\ Chat!Stream(t) /\ ChatOnly
  \/ \E t \in Turns : InChat /\ Chat!ClientLeaves(t) /\ ChatOnly
  \/ \E t \in Turns : InChat /\ Chat!Save(t) /\ ChatOnly
  \/ \E t \in Turns : InChat /\ Chat!SaveFails(t) /\ ChatOnly
  \/ \E t \in Turns : InChat /\ Chat!Show(t) /\ ChatOnly
  \/ \E w \in Writers : InProviders /\ Ai!Begin(w) /\ ProvidersOnly
  \/ \E w \in Writers : InProviders /\ Ai!BeginDelete(w) /\ ProvidersOnly
  \/ \E w \in Writers : InProviders /\ Ai!ReadCurrent(w) /\ ProvidersOnly
  \/ \E w \in Writers : InProviders /\ Ai!Unset(w) /\ ProvidersOnly
  \/ \E w \in Writers : InProviders /\ Ai!Write(w) /\ ProvidersOnly
  \/ \E w \in Writers : InProviders /\ Ai!Remove(w) /\ ProvidersOnly
  \/ \E w \in Writers : InProviders /\ Ai!Commit(w) /\ ProvidersOnly
  \/ \E w \in Writers : InProviders /\ Ai!Fail(w) /\ ProvidersOnly
  \/ InProviders /\ Ai!SetFallback /\ ProvidersOnly
  \/ \E c \in Calls : InProviders /\ Ai!Resolve(c) /\ ProvidersOnly
  \/ \E c \in Calls : InProviders /\ Ai!FallBack(c) /\ ProvidersOnly
  \/ \E c \in Calls : InProviders /\ Ai!Send(c) /\ ProvidersOnly
  \/ InAssistant /\ Site!Deploy /\ AssistantOnly
  \/ InAssistant /\ Site!IngestPages /\ AssistantOnly
  \/ InAssistant /\ Site!IngestGuides /\ AssistantOnly
  \/ InAssistant /\ Site!Stop /\ AssistantOnly
  \/ \E q \in Questions, v \in Visitors : InAssistant /\ Site!Ask(q, v) /\ AssistantOnly
  \/ \E q \in Questions : InAssistant /\ Site!Retrieve(q) /\ AssistantOnly
  \/ \E q \in Questions : InAssistant /\ Site!Count(q) /\ AssistantOnly
  \/ \E q \in Questions : InAssistant /\ Site!Model(q) /\ AssistantOnly
  \/ InAssistant /\ Site!Midnight /\ AssistantOnly

Spec == Init /\ [][Next]_vars
-----------------------------------------------------------------------------
\* What the variables of each part can hold.
TypeOK ==
  /\ part = "links" => Links!TypeOK
  /\ part = "lockouts" => Lockout!TypeOK
  /\ part = "chat" => Chat!TypeOK
  /\ part = "providers" => Ai!TypeOK
  /\ part = "assistant" => Site!TypeOK

\* The statements below are those of the modules, where each is explained.

\* MailLinks: an account is confirmed only at an address whose own mail was read, unless
\* requests crossed when its token was issued, and the invitation of a person who has not
\* used it is still there, unless somebody filled in the resend form.
LinksProve == part = "links" => Links!AddressProven /\ Links!InvitationStands

\* Lockouts: wrong tries are bounded however requests overlap, and a lockout ends.
LockoutsHold == part = "lockouts" => Lockout!TriesBounded /\ Lockout!LockoutsEnd

\* ChatTurns: a turn reads and writes messages of its own customer only; what a client was
\* shown is saved, what is saved of a tool is true, and the history replayed to the AI is
\* the newest whole turns.
TurnsAreRecorded ==
  part = "chat" =>
    /\ Chat!ThreadsStayInTheirCompany /\ Chat!ShownIsSaved
    /\ Chat!RecordsAreTrue /\ Chat!HistoryIsWhole

\* AiProviders: at most one config of a customer is the default.
AtMostOneDefault == part = "providers" => Ai!AtMostOneDefault

\* AiProviders: a config that was made the default is the default when its request commits.
DefaultTakesEffect == [][part = "providers" => Ai!DefaultStep]_vars

\* AiProviders: prompts go to the default or to the platform's model, where it is allowed.
PromptsGoWhereAllowed == part = "providers" => Ai!PromptsGoWhereAllowed

\* SiteAssistant: the index serves what the release publishes, answers cite it, and the
\* daily caps hold however questions overlap and Redis fails.
AnswersAreOfTheRelease ==
  part = "assistant" => Site!IndexIsRelease /\ Site!AnswersAreGrounded /\ Site!CapsHold
=============================================================================
