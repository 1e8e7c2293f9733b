---------------------------- MODULE ServicesProofs ----------------------------
(***************************************************************************)
(* The five parts of MCServices, for any number of people, requests, tries,*)
(* turns, configs, questions and visitors: addresses are proven and        *)
(* invitations stand; tries are bounded; conversations record what         *)
(* happened; one config is the default and prompts go where they may; the  *)
(* site assistant answers from its release and within its caps.            *)
(*                                                                         *)
(* Each part has an inductive invariant of its own, and the names of what  *)
(* belongs to it begin alike: Ai, Links, Lock, Site, Chat.                 *)
(***************************************************************************)
EXTENDS MCServices, FiniteSetTheorems, TLAPS

-----------------------------------------------------------------------------
\* The instance counts as this module does.
LEMMA AiFinite == \A S : Ai!IsFiniteSet(S) = IsFiniteSet(S)
  BY DEF Ai!IsFiniteSet, IsFiniteSet

\* The size of a set is the same here and in the instance.
LEMMA AiCardinality == \A S : Ai!Cardinality(S) = Cardinality(S)
  BY AiFinite DEF Ai!Cardinality, Cardinality
-----------------------------------------------------------------------------
(* AiProviders: the inductive invariant.                                   *)

AiChoice == Configs \cup {none}
AiWriterType == [op : Ai!Operations \cup {none},
               pc : {"idle", "current", "unset", "write", "remove", "commit", "over"},
               target : AiChoice, other : AiChoice, was : BOOLEAN, current : AiChoice,
               off : SUBSET Configs, on : SUBSET Configs, gone : SUBSET Configs]
AiCallType == [kind : {"chat", "excel", none}, pc : {"idle", "limit", "fallback", "over"},
             chose : AiChoice \cup {platform}, default : AiChoice, sent : AiChoice \cup {platform}]

AiTypes ==
    /\ stored \subseteq Configs /\ default \subseteq stored /\ fallback \in BOOLEAN
    /\ writer \in [Writers -> AiWriterType]
    /\ call \in [Calls -> AiCallType]

\* What a settings request was asked for, from its first step on.
AiAsked(r) ==
    /\ r.op \in Ai!Operations
    /\ r.op \in {"create", "set", "save", "replace"} => r.target # none
    /\ r.op \in {"delete", "replace"} => r.other # none
    /\ r.op = "replace" => r.other # r.target
    /\ r.pc \in {"current", "unset"} => r.op \in {"create", "set", "replace"}
    /\ r.pc = "write" => r.op # "delete"
    /\ r.pc = "remove" => r.op \in {"delete", "replace"}

\* What it has written, by the place it has reached.
AiWritten(r) ==
    /\ r.on \subseteq {r.target}
    /\ r.pc \in {"idle", "over"} => r.on = {} /\ r.off = {} /\ r.gone = {}
    /\ r.pc \in {"current", "unset", "write"} => r.on = {} /\ r.gone = {}
    /\ r.pc # "idle" =>
          /\ AiAsked(r)
          /\ r.op = "delete" => r.on = {}
          /\ r.pc = "remove" /\ r.op = "replace" => r.on = {r.target} /\ r.gone = {}
          /\ r.pc = "commit" /\ r.op = "replace" => r.on = {r.target} /\ r.gone = {r.other}
          /\ r.pc = "commit" /\ r.op \in {"create", "set"} /\ ~Ai!Known(r) => r.on = {r.target}
          /\ r.op \in {"create", "set", "save"} => r.gone = {}

\* The index: one request at a time turns the default on, and no other default stays.
AiIndexInv ==
    /\ \A v, w \in Writers : writer[v].on # {} /\ writer[w].on # {} => v = w
    /\ \A w \in Writers : writer[w].on # {} => default \subseteq writer[w].off \cup writer[w].gone
    /\ \A j, k \in default : j = k

\* A row is written by one request at a time, and stays there for it.
AiHeldInv ==
    /\ \A v, w \in Writers : v # w => Ai!Held(v) \cap Ai!Held(w) = {}
    /\ \A w \in Writers : writer[w].on # {} /\ writer[w].op # "create" => writer[w].target \in stored

\* What a call has resolved, and where it sent its prompt.
AiResolvedOf(c) ==
    LET q == call[c]
    IN  /\ q.pc = "limit" => /\ q.chose \in {q.default, platform} /\ q.chose \notin Unapproved
                             /\ Ai!Usable(q.default) => q.chose = q.default
        /\ q.pc = "fallback" => ~Ai!Usable(q.default)
        /\ q.pc # "over" => q.sent = none
        /\ q.sent # none => /\ q.sent \in {q.default, platform} /\ q.sent \notin Unapproved
                            /\ Ai!Usable(q.default) => q.sent = q.default

AiTables == AiTypes /\ (\A w \in Writers : AiWritten(writer[w])) /\ AiHeldInv /\ AiIndexInv
AiResolved == \A c \in Calls : AiResolvedOf(c)

\* A settings request's steps, and a call's.
AiAct(w) == \/ Ai!Begin(w) \/ Ai!BeginDelete(w) \/ Ai!ReadCurrent(w) \/ Ai!Unset(w) \/ Ai!Write(w) \/ Ai!Remove(w)
          \/ Ai!Commit(w) \/ Ai!Fail(w)
AiAsk(c) == Ai!Resolve(c) \/ Ai!FallBack(c) \/ Ai!Send(c)

\* A step is one of a settings request, of the flag or of a call.
LEMMA AiNextIs ==
  Ai!Next <=> (\E w \in Writers : AiAct(w)) \/ Ai!SetFallback \/ \E c \in Calls : AiAsk(c)
  BY DEF Ai!Next, AiAct, AiAsk

\* A settings request changes settings only when it commits.
LEMMA AiActKeeps ==
  ASSUME NEW w \in Writers, AiAct(w)
  PROVE  UNCHANGED <<fallback, call>> /\ (Ai!Commit(w) \/ UNCHANGED <<stored, default>>)
  BY DEF AiAct, Ai!Begin, Ai!BeginDelete, Ai!ReadCurrent, Ai!Unset, Ai!Write, Ai!Remove, Ai!Commit, Ai!Fail, Ai!DataUnchanged

\* A call changes no settings.
LEMMA AiAskKeeps ==
  ASSUME NEW c \in Calls, AiAsk(c)
  PROVE  UNCHANGED <<stored, default, fallback, writer>>
  BY DEF AiAsk, Ai!Resolve, Ai!FallBack, Ai!Send

\* What a step of a settings request makes of its record.
AiStepOf(w, q) == q \in AiWriterType /\ Ai!Set(w, q)

\* A request that was not made yet.
LEMMA AiNewIsTyped == Ai!NewWriter \in AiWriterType
  BY DEF Ai!NewWriter, AiWriterType, AiChoice

\* What a request holds once it has begun.
LEMMA AiBeginSets ==
  ASSUME AiTypes, NEW w \in Writers, Ai!Begin(w)
  PROVE  \E q \in AiWriterType :
           /\ Ai!Set(w, q) /\ q.on = {} /\ q.gone = {} /\ q.off = {} /\ q.target \in Configs
           /\ \/ q.op \in {"create", "set"} /\ q.pc = "current"
              \/ q.op = "save" /\ q.pc = "write"
  <1>0. stored \subseteq Configs
    BY DEF AiTypes
  <1>1. CASE \E k \in Configs : Ai!Set(w, [Ai!NewWriter EXCEPT !.op = "create", !.target = k, !.pc = "current"])
    <2>1. PICK k \in Configs : Ai!Set(w, [Ai!NewWriter EXCEPT !.op = "create", !.target = k, !.pc = "current"])
      BY <1>1
    <2>2. [Ai!NewWriter EXCEPT !.op = "create", !.target = k, !.pc = "current"] \in AiWriterType
      BY DEF Ai!NewWriter, AiWriterType, AiChoice, Ai!Operations
    <2> QED BY <2>1, <2>2 DEF Ai!NewWriter
  <1>2. CASE \E k \in Configs : Ai!Set(w, [Ai!NewWriter EXCEPT !.op = "save", !.target = k, !.pc = "write"])
    <2>1. PICK k \in Configs : Ai!Set(w, [Ai!NewWriter EXCEPT !.op = "save", !.target = k, !.pc = "write"])
      BY <1>2
    <2>2. [Ai!NewWriter EXCEPT !.op = "save", !.target = k, !.pc = "write"] \in AiWriterType
      BY DEF Ai!NewWriter, AiWriterType, AiChoice, Ai!Operations
    <2> QED BY <2>1, <2>2 DEF Ai!NewWriter
  <1>3. CASE \E k \in stored : Ai!Set(w, [Ai!NewWriter EXCEPT !.op = "set", !.target = k, !.was = k \in default,
                                                      !.pc = "current"])
    <2>1. PICK k \in stored : Ai!Set(w, [Ai!NewWriter EXCEPT !.op = "set", !.target = k, !.was = k \in default,
                                                     !.pc = "current"])
      BY <1>3
    <2>2. PICK b \in BOOLEAN : b = (k \in default)
      <3>1. CASE k \in default
        <4>1. (k \in default) = TRUE
          BY <3>1
        <4> QED BY <4>1
      <3>2. CASE k \notin default
        <4>1. (k \in default) = FALSE
          BY <3>2
        <4> QED BY <4>1
      <3> QED BY <3>1, <3>2
    <2>3. [Ai!NewWriter EXCEPT !.op = "set", !.target = k, !.was = b, !.pc = "current"] \in AiWriterType
      BY <1>0 DEF Ai!NewWriter, AiWriterType, AiChoice, Ai!Operations
    <2>4. Ai!Set(w, [Ai!NewWriter EXCEPT !.op = "set", !.target = k, !.was = b, !.pc = "current"])
      BY <2>1, <2>2
    <2> QED BY <1>0, <2>3, <2>4 DEF Ai!NewWriter
  <1> QED BY <1>1, <1>2, <1>3 DEF Ai!Begin

\* What a request that deletes holds once it has begun.
LEMMA AiBeginDeleteSets ==
  ASSUME Ai!ProvidersAssumption, AiTypes, NEW w \in Writers, Ai!BeginDelete(w)
  PROVE  \E q \in AiWriterType :
           /\ Ai!Set(w, q) /\ q.on = {} /\ q.gone = {} /\ q.off = {} /\ q.other \in Configs
           /\ \/ q.op = "replace" /\ q.pc = "unset" /\ q.target # none /\ q.target # q.other
              \/ q.op = "delete" /\ q.pc = "remove"
  <1>1. PICK k \in stored, o \in stored \cup {none} :
          /\ o # k
          /\ \/ /\ o # none
                /\ Ai!Set(w, [Ai!NewWriter EXCEPT !.op = "replace", !.target = o, !.other = k, !.pc = "unset",
                                             !.current = k])
             \/ Ai!Set(w, [Ai!NewWriter EXCEPT !.op = "delete", !.other = k, !.pc = "remove"])
    BY DEF Ai!BeginDelete
  <1>2. k \in Configs /\ o \in AiChoice
    BY DEF AiTypes, AiChoice
  <1>3. [Ai!NewWriter EXCEPT !.op = "replace", !.target = o, !.other = k, !.pc = "unset", !.current = k]
          \in AiWriterType
    BY <1>2 DEF Ai!NewWriter, AiWriterType, AiChoice, Ai!Operations
  <1>4. [Ai!NewWriter EXCEPT !.op = "delete", !.other = k, !.pc = "remove"] \in AiWriterType
    BY <1>2 DEF Ai!NewWriter, AiWriterType, AiChoice, Ai!Operations
  <1> QED BY <1>1, <1>2, <1>3, <1>4 DEF Ai!NewWriter

\* Set says what the record is.
LEMMA AiSetIs ==
  ASSUME AiTypes, NEW w \in Writers, NEW q, Ai!Set(w, q)
  PROVE  writer'[w] = q /\ \A v \in Writers \ {w} : writer'[v] = writer[v]
  BY DEF Ai!Set, AiTypes

\* The same row but for the columns the transaction wrote.
AiAlike(q, r) == /\ q.op = r.op /\ q.target = r.target /\ q.other = r.other /\ q.was = r.was

\* What it holds once it has read the row.
LEMMA AiReadCurrentSets ==
  ASSUME AiTypes, NEW w \in Writers, Ai!ReadCurrent(w)
  PROVE  \E q \in AiWriterType :
           /\ Ai!Set(w, q) /\ q.on = writer[w].on /\ q.gone = writer[w].gone /\ q.off = writer[w].off
           /\ AiAlike(q, writer[w]) /\ q.pc = "unset"
  <1>0. writer[w] \in AiWriterType /\ default \subseteq Configs
    BY DEF AiTypes
  <1> DEFINE k == IF default = {} THEN none ELSE CHOOSE j \in default : TRUE
  <1>1. k \in AiChoice
    BY <1>0 DEF AiChoice
  <1>2. Ai!Set(w, [writer[w] EXCEPT !.pc = "unset", !.current = k])
    BY DEF Ai!ReadCurrent
  <1> HIDE DEF k
  <1>3. [writer[w] EXCEPT !.pc = "unset", !.current = k] \in AiWriterType
    BY <1>0, <1>1 DEF AiWriterType
  <1> QED BY <1>0, <1>2, <1>3 DEF AiWriterType, AiAlike

\* What it holds once it has unset the default.
LEMMA AiUnsetSets ==
  ASSUME AiTypes, NEW w \in Writers, Ai!Unset(w)
  PROVE  \E q \in AiWriterType :
           /\ Ai!Set(w, q) /\ q.on = writer[w].on /\ q.gone = writer[w].gone
           /\ AiAlike(q, writer[w]) /\ q.pc = "write" /\ q.current = writer[w].current
           /\ q.off = writer[w].off \/ \E k \in stored : Ai!Free(w, k) /\ q.off = {k}
  <1>0. writer[w] \in AiWriterType /\ stored \subseteq Configs
    BY DEF AiTypes
  <1>1. CASE Ai!Set(w, [writer[w] EXCEPT !.pc = "write"])
    <2>1. [writer[w] EXCEPT !.pc = "write"] \in AiWriterType
      BY <1>0 DEF AiWriterType
    <2> QED BY <1>0, <1>1, <2>1 DEF AiWriterType, AiAlike
  <1>2. CASE \E k \in stored : /\ Ai!Free(w, k)
                              /\ Ai!Set(w, [writer[w] EXCEPT !.pc = "write", !.off = {k}])
    <2>1. PICK k \in stored : Ai!Free(w, k) /\ Ai!Set(w, [writer[w] EXCEPT !.pc = "write", !.off = {k}])
      BY <1>2
    <2>2. [writer[w] EXCEPT !.pc = "write", !.off = {k}] \in AiWriterType
      BY <1>0 DEF AiWriterType
    <2> QED BY <1>0, <2>1, <2>2 DEF AiWriterType, AiAlike
  <1> QED BY <1>1, <1>2 DEF Ai!Unset

\* What it holds once its row is flushed.
LEMMA AiWriteSets ==
  ASSUME AiTypes, NEW w \in Writers, AiWritten(writer[w]), Ai!Write(w)
  PROVE  \E q \in AiWriterType :
           /\ Ai!Set(w, q) /\ q.gone = writer[w].gone /\ q.off = writer[w].off
           /\ AiAlike(q, writer[w]) /\ q.current = writer[w].current
           /\ \/ /\ q.op = "save" \/ Ai!Known(q)
                 /\ q.on = writer[w].on /\ q.pc = "commit"
              \/ /\ Ai!Free(w, q.target) /\ ~Ai!IndexWaits(w) /\ Ai!IndexAdmits(w)
                 /\ q.op = "create" \/ q.target \in stored
                 /\ q.on = {q.target} /\ q.pc = IF q.op = "replace" THEN "remove" ELSE "commit"
  <1>0. writer[w] \in AiWriterType
    BY DEF AiTypes
  <1>1. CASE (writer[w].op = "save" \/ Ai!Known(writer[w])) /\ Ai!Set(w, [writer[w] EXCEPT !.pc = "commit"])
    <2> DEFINE q == [writer[w] EXCEPT !.pc = "commit"]
    <2>1. q \in AiWriterType
      BY <1>0 DEF AiWriterType
    <2>2. /\ AiAlike(q, writer[w]) /\ q.pc = "commit" /\ q.current = writer[w].current
          /\ q.on = writer[w].on /\ q.gone = writer[w].gone /\ q.off = writer[w].off
      BY <1>0 DEF AiWriterType, AiAlike
    <2>3. Ai!Set(w, q)
      BY <1>1
    <2> HIDE DEF q
    <2>4. q.op = "save" \/ Ai!Known(q)
      BY <1>1, <2>2 DEF Ai!Known, AiAlike
    <2> QED BY <2>1, <2>2, <2>3, <2>4
  <1>2. CASE ~(writer[w].op = "save" \/ Ai!Known(writer[w]))
    <2> DEFINE pc == IF writer[w].op = "replace" THEN "remove" ELSE "commit"
               q == [writer[w] EXCEPT !.on = {writer[w].target}, !.pc = pc]
    <2>1. Ai!Set(w, q) /\ Ai!Free(w, writer[w].target) /\ ~Ai!IndexWaits(w) /\ Ai!IndexAdmits(w)
      BY <1>2 DEF Ai!Write
    <2>2. writer[w].op = "create" \/ writer[w].target \in stored
      BY <1>2 DEF Ai!Write
    <2>3. writer[w].target \in Configs
      <3>1. writer[w].pc = "write"
        BY DEF Ai!Write
      <3>2. AiAsked(writer[w]) /\ writer[w].op # "delete" /\ writer[w].op # "save"
        BY <1>2, <3>1 DEF AiWritten, AiAsked
      <3> QED BY <1>0, <3>2 DEF AiWriterType, Ai!Operations, AiChoice, AiAsked
    <2>4. pc \in {"remove", "commit"}
      OBVIOUS
    <2> HIDE DEF pc
    <2>5. q \in AiWriterType
      BY <1>0, <2>3, <2>4 DEF AiWriterType
    <2>6. /\ AiAlike(q, writer[w]) /\ q.pc = pc /\ q.on = {writer[w].target}
          /\ q.gone = writer[w].gone /\ q.off = writer[w].off /\ q.current = writer[w].current
      BY <1>0 DEF AiWriterType, AiAlike
    <2> HIDE DEF q
    <2> QED BY <2>1, <2>2, <2>5, <2>6 DEF AiAlike, pc
  <1> QED BY <1>1, <1>2 DEF Ai!Write

\* What it holds once the old row is deleted.
LEMMA AiRemoveSets ==
  ASSUME AiTypes, NEW w \in Writers, AiWritten(writer[w]), Ai!Remove(w)
  PROVE  \E q \in AiWriterType :
           /\ Ai!Set(w, q) /\ q.on = writer[w].on /\ q.off = writer[w].off
           /\ AiAlike(q, writer[w]) /\ q.pc = "commit"
           /\ Ai!Free(w, q.other) /\ q.gone = {q.other}
  <1>0. writer[w] \in AiWriterType /\ writer[w].other \in Configs
    BY DEF AiTypes, AiWritten, AiAsked, Ai!Remove, AiWriterType, AiChoice
  <1> DEFINE q == [writer[w] EXCEPT !.gone = {writer[w].other}, !.pc = "commit"]
  <1>1. q \in AiWriterType
    BY <1>0 DEF AiWriterType
  <1>2. AiAlike(q, writer[w]) /\ q.pc = "commit" /\ q.on = writer[w].on /\ q.off = writer[w].off
        /\ q.gone = {writer[w].other}
    BY <1>0 DEF AiWriterType, AiAlike
  <1>3. Ai!Set(w, q) /\ Ai!Free(w, writer[w].other)
    BY DEF Ai!Remove
  <1> HIDE DEF q
  <1> QED BY <1>1, <1>2, <1>3 DEF AiAlike

\* What it holds once it is over.
LEMMA AiDoneSets ==
  ASSUME AiTypes, NEW w \in Writers, Ai!Done(w)
  PROVE  \E q \in AiWriterType :
           Ai!Set(w, q) /\ q.on = {} /\ q.off = {} /\ q.gone = {} /\ AiAlike(q, writer[w]) /\ q.pc = "over"
  <1>0. writer[w] \in AiWriterType
    BY DEF AiTypes
  <1>1. [writer[w] EXCEPT !.pc = "over", !.off = {}, !.on = {}, !.gone = {}] \in AiWriterType
    BY <1>0 DEF AiWriterType
  <1> QED BY <1>0, <1>1 DEF Ai!Done, AiWriterType, AiAlike

\* A step before the commit: the rows it adds to its own are free, and the default it
\* turns on is the only one.
LEMMA AiMoves ==
  ASSUME AiTables, NEW w \in Writers, NEW q \in AiWriterType, Ai!Set(w, q), Ai!DataUnchanged, AiWritten(q),
         \A v \in Writers \ {w} : (q.off \cup q.on \cup q.gone) \cap Ai!Held(v) = {},
         q.on # {} => /\ \A v \in Writers \ {w} : writer[v].on = {}
                      /\ default \subseteq q.off \cup q.gone
                      /\ q.op # "create" => q.target \in stored
  PROVE  AiTables'
  <1>1. writer'[w] = q /\ \A v \in Writers \ {w} : writer'[v] = writer[v]
    BY AiSetIs DEF AiTables
  <1>2. UNCHANGED <<stored, default, fallback, call>>
    BY DEF Ai!DataUnchanged
  <1>3. AiTypes'
    BY <1>2 DEF Ai!Set, AiTables, AiTypes
  <1>4. \A v \in Writers : AiWritten(writer'[v])
    BY <1>1 DEF AiTables
  <1>5. \A v \in Writers \ {w} : Ai!Held(v)' = Ai!Held(v)
    BY <1>1 DEF Ai!Held
  <1>6. Ai!Held(w)' = q.off \cup q.on \cup q.gone
    BY <1>1 DEF Ai!Held
  <1>7. AiHeldInv'
    <2>1. ASSUME NEW u \in Writers, NEW v \in Writers, u # v PROVE (Ai!Held(u) \cap Ai!Held(v))' = {}
      <3>1. CASE u = w
        <4>1. (q.off \cup q.on \cup q.gone) \cap Ai!Held(v) = {}
          BY <2>1, <3>1
        <4>2. Ai!Held(u)' = q.off \cup q.on \cup q.gone /\ Ai!Held(v)' = Ai!Held(v)
          BY <1>5, <1>6, <2>1, <3>1
        <4> QED BY <4>1, <4>2
      <3>2. CASE v = w
        <4>1. (q.off \cup q.on \cup q.gone) \cap Ai!Held(u) = {}
          BY <2>1, <3>2
        <4>2. Ai!Held(v)' = q.off \cup q.on \cup q.gone /\ Ai!Held(u)' = Ai!Held(u)
          BY <1>5, <1>6, <2>1, <3>2
        <4> QED BY <4>1, <4>2
      <3>3. CASE u # w /\ v # w
        BY <1>5, <2>1, <3>3 DEF AiTables, AiHeldInv
      <3> QED BY <3>1, <3>2, <3>3
    <2>2. ASSUME NEW v \in Writers, writer'[v].on # {}, writer'[v].op # "create"
          PROVE  writer'[v].target \in stored'
      BY <1>1, <1>2, <2>2 DEF AiTables, AiHeldInv
    <2> QED BY <2>1, <2>2 DEF AiHeldInv
  <1>8. AiIndexInv'
    <2>1. ASSUME NEW u \in Writers, NEW v \in Writers, writer'[u].on # {}, writer'[v].on # {} PROVE u = v
      BY <1>1, <2>1 DEF AiTables, AiIndexInv
    <2>2. ASSUME NEW v \in Writers, writer'[v].on # {}
          PROVE  default' \subseteq writer'[v].off \cup writer'[v].gone
      BY <1>1, <1>2, <2>2 DEF AiTables, AiIndexInv
    <2>3. \A j, k \in default' : j = k
      BY <1>2 DEF AiTables, AiIndexInv
    <2> QED BY <2>1, <2>2, <2>3 DEF AiIndexInv
  <1> QED BY <1>3, <1>4, <1>7, <1>8 DEF AiTables

\* A step that keeps what the request had turned on, and adds to its rows at most free ones.
LEMMA AiKeeps ==
  ASSUME AiTables, NEW w \in Writers, NEW q \in AiWriterType, Ai!Set(w, q), Ai!DataUnchanged, AiWritten(q),
         q.on = {} \/ (q.on = writer[w].on /\ q.op = writer[w].op /\ q.target = writer[w].target),
         q.on # {} => writer[w].off \subseteq q.off /\ writer[w].gone \subseteq q.gone,
         \A k \in q.off \cup q.on \cup q.gone : k \in Ai!Held(w) \/ Ai!Free(w, k)
  PROVE  AiTables'
  <1>1. \A v \in Writers \ {w} : (q.off \cup q.on \cup q.gone) \cap Ai!Held(v) = {}
    <2>1. ASSUME NEW v \in Writers \ {w}, NEW k \in q.off \cup q.on \cup q.gone, k \in Ai!Held(v) PROVE FALSE
      <3>1. Ai!Held(w) \cap Ai!Held(v) = {}
        BY <2>1 DEF AiTables, AiHeldInv
      <3>2. k \notin Ai!Held(v)
        BY <2>1, <3>1 DEF Ai!Free
      <3> QED BY <2>1, <3>2
    <2> QED BY <2>1
  <1>2. ASSUME q.on # {}
        PROVE  /\ \A v \in Writers \ {w} : writer[v].on = {}
               /\ default \subseteq q.off \cup q.gone
               /\ q.op # "create" => q.target \in stored
    <2>1. writer[w].on # {} /\ q.op = writer[w].op /\ q.target = writer[w].target
      BY <1>2
    <2>2. writer[w].off \subseteq q.off /\ writer[w].gone \subseteq q.gone
      BY <1>2
    <2> QED BY <2>1, <2>2 DEF AiTables, AiHeldInv, AiIndexInv
  <1> QED BY <1>1, <1>2, AiMoves

\* Every step of a settings request but its commit keeps the tables.
LEMMA AiActMoves ==
  ASSUME Ai!ProvidersAssumption, AiTables, NEW w \in Writers, AiAct(w), ~Ai!Commit(w)
  PROVE  AiTables'
  <1>0. AiTypes /\ AiWritten(writer[w]) /\ writer[w] \in AiWriterType
    BY DEF AiTables, AiTypes
  <1>1. ASSUME Ai!Begin(w) PROVE AiTables'
    <2>1. PICK q \in AiWriterType :
            /\ Ai!Set(w, q) /\ q.on = {} /\ q.gone = {} /\ q.off = {} /\ q.target \in Configs
            /\ \/ q.op \in {"create", "set"} /\ q.pc = "current"
               \/ q.op = "save" /\ q.pc = "write"
      BY <1>0, <1>1, AiBeginSets
    <2>2. AiWritten(q)
      BY <2>1, Ai!ProvidersAssumption DEF AiWritten, AiAsked, Ai!Known, Ai!Operations, Ai!ProvidersAssumption
    <2>3. Ai!DataUnchanged
      BY <1>1 DEF Ai!Begin
    <2> QED BY <2>1, <2>2, <2>3, AiKeeps
  <1>2. ASSUME Ai!BeginDelete(w) PROVE AiTables'
    <2>1. PICK q \in AiWriterType :
            /\ Ai!Set(w, q) /\ q.on = {} /\ q.gone = {} /\ q.off = {} /\ q.other \in Configs
            /\ \/ q.op = "replace" /\ q.pc = "unset" /\ q.target # none /\ q.target # q.other
               \/ q.op = "delete" /\ q.pc = "remove"
      BY <1>0, <1>2, AiBeginDeleteSets
    <2>2. AiWritten(q)
      BY <2>1, Ai!ProvidersAssumption DEF AiWritten, AiAsked, Ai!Known, Ai!Operations, Ai!ProvidersAssumption
    <2>3. Ai!DataUnchanged
      BY <1>2 DEF Ai!BeginDelete
    <2> QED BY <2>1, <2>2, <2>3, AiKeeps
  <1>3. ASSUME Ai!ReadCurrent(w) PROVE AiTables'
    <2>1. PICK q \in AiWriterType :
            /\ Ai!Set(w, q) /\ q.on = writer[w].on /\ q.gone = writer[w].gone /\ q.off = writer[w].off
            /\ AiAlike(q, writer[w]) /\ q.pc = "unset"
      BY <1>0, <1>3, AiReadCurrentSets
    <2>2. AiWritten(q)
      BY <1>0, <1>3, <2>1 DEF AiWritten, AiAsked, Ai!Known, AiAlike, Ai!ReadCurrent
    <2>3. Ai!DataUnchanged
      BY <1>3 DEF Ai!ReadCurrent
    <2> QED BY <2>1, <2>2, <2>3, AiKeeps DEF AiAlike, Ai!Held
  <1>4. ASSUME Ai!Unset(w) PROVE AiTables'
    <2>1. PICK q \in AiWriterType :
            /\ Ai!Set(w, q) /\ q.on = writer[w].on /\ q.gone = writer[w].gone
            /\ AiAlike(q, writer[w]) /\ q.pc = "write" /\ q.current = writer[w].current
            /\ q.off = writer[w].off \/ \E k \in stored : Ai!Free(w, k) /\ q.off = {k}
      BY <1>0, <1>4, AiUnsetSets
    <2>2. writer[w].pc = "unset" /\ Ai!DataUnchanged
      BY <1>4 DEF Ai!Unset
    <2>3. AiWritten(q)
      BY <1>0, <2>1, <2>2 DEF AiWritten, AiAsked, Ai!Known, AiAlike
    <2>4. q.on = {} /\ q.gone = {}
      BY <1>0, <2>1, <2>2 DEF AiWritten, AiAsked
    <2>5. \A k \in q.off \cup q.on \cup q.gone : k \in Ai!Held(w) \/ Ai!Free(w, k)
      BY <2>1, <2>4 DEF Ai!Held
    <2> QED BY <2>1, <2>2, <2>3, <2>4, <2>5, AiKeeps
  <1>5. ASSUME Ai!Write(w) PROVE AiTables'
    <2>1. PICK q \in AiWriterType :
            /\ Ai!Set(w, q) /\ q.gone = writer[w].gone /\ q.off = writer[w].off
            /\ AiAlike(q, writer[w]) /\ q.current = writer[w].current
            /\ \/ /\ q.op = "save" \/ Ai!Known(q)
                  /\ q.on = writer[w].on /\ q.pc = "commit"
               \/ /\ Ai!Free(w, q.target) /\ ~Ai!IndexWaits(w) /\ Ai!IndexAdmits(w)
                  /\ q.op = "create" \/ q.target \in stored
                  /\ q.on = {q.target} /\ q.pc = IF q.op = "replace" THEN "remove" ELSE "commit"
      BY <1>0, <1>5, AiWriteSets
    <2>2. writer[w].pc = "write" /\ Ai!DataUnchanged
      BY <1>5 DEF Ai!Write
    <2>3. CASE (q.op = "save" \/ Ai!Known(q)) /\ q.on = writer[w].on /\ q.pc = "commit"
      <3>1. AiWritten(q)
        BY <1>0, <2>1, <2>2, <2>3 DEF AiWritten, AiAsked, Ai!Known, AiAlike
      <3> QED BY <2>1, <2>2, <2>3, <3>1, AiKeeps DEF AiAlike, Ai!Held
    <2>4. CASE /\ Ai!Free(w, q.target) /\ ~Ai!IndexWaits(w) /\ Ai!IndexAdmits(w)
               /\ q.op = "create" \/ q.target \in stored
               /\ q.on = {q.target} /\ q.pc = IF q.op = "replace" THEN "remove" ELSE "commit"
      <3>1. AiWritten(q)
        BY <1>0, <2>1, <2>2, <2>4 DEF AiWritten, AiAsked, Ai!Known, AiAlike
      <3>2. \A v \in Writers \ {w} : writer[v].on = {}
        BY <2>4 DEF Ai!IndexWaits
      <3>3. default \subseteq q.off \cup q.gone
        BY <2>1, <2>4 DEF Ai!IndexAdmits
      <3>4. \A v \in Writers \ {w} : (q.off \cup q.on \cup q.gone) \cap Ai!Held(v) = {}
        <4>1. ASSUME NEW v \in Writers \ {w} PROVE (q.off \cup q.on \cup q.gone) \cap Ai!Held(v) = {}
          <5>1. Ai!Held(w) \cap Ai!Held(v) = {} /\ q.target \notin Ai!Held(v)
            BY <2>4, <4>1 DEF AiTables, AiHeldInv, Ai!Free
          <5>2. q.off \subseteq Ai!Held(w) /\ q.gone \subseteq Ai!Held(w)
            BY <2>1 DEF Ai!Held
          <5> QED BY <2>4, <5>1, <5>2
        <4> QED BY <4>1
      <3> QED BY <2>1, <2>2, <2>4, <3>1, <3>2, <3>3, <3>4, AiMoves
    <2> QED BY <2>1, <2>3, <2>4
  <1>6. ASSUME Ai!Remove(w) PROVE AiTables'
    <2>1. PICK q \in AiWriterType :
            /\ Ai!Set(w, q) /\ q.on = writer[w].on /\ q.off = writer[w].off
            /\ AiAlike(q, writer[w]) /\ q.pc = "commit"
            /\ Ai!Free(w, q.other) /\ q.gone = {q.other}
      BY <1>0, <1>6, AiRemoveSets
    <2>2. writer[w].pc = "remove" /\ Ai!DataUnchanged
      BY <1>6 DEF Ai!Remove
    <2>3. AiWritten(q)
      BY <1>0, <2>1, <2>2 DEF AiWritten, AiAsked, Ai!Known, AiAlike
    <2>4. q.on # {} => writer[w].gone = {}
      BY <1>0, <2>1, <2>2 DEF AiWritten, AiAsked
    <2>5. \A k \in q.off \cup q.on \cup q.gone : k \in Ai!Held(w) \/ Ai!Free(w, k)
      BY <2>1 DEF Ai!Held
    <2> QED BY <2>1, <2>2, <2>3, <2>4, <2>5, AiKeeps DEF AiAlike
  <1>7. ASSUME Ai!Fail(w) PROVE AiTables'
    <2>1. PICK q \in AiWriterType :
            Ai!Set(w, q) /\ q.on = {} /\ q.off = {} /\ q.gone = {} /\ AiAlike(q, writer[w]) /\ q.pc = "over"
      BY <1>0, <1>7, AiDoneSets DEF Ai!Fail
    <2>2. AiWritten(q)
      BY <1>0, <1>7, <2>1 DEF AiWritten, AiAsked, Ai!Known, AiAlike, Ai!Fail
    <2>3. Ai!DataUnchanged
      BY <1>7 DEF Ai!Fail
    <2> QED BY <2>1, <2>2, <2>3, AiKeeps
  <1> QED BY <1>1, <1>2, <1>3, <1>4, <1>5, <1>6, <1>7 DEF AiAct

\* The commit: the default that this request turned on is the only one left.
LEMMA AiCommitStep ==
  ASSUME Ai!ProvidersAssumption, AiTables, NEW w \in Writers, Ai!Commit(w)
  PROVE  /\ AiTables'
         /\ writer[w].on # {} => default' = writer[w].on \ writer[w].gone
  <1> DEFINE made == IF writer[w].op \in {"create", "save"} THEN {writer[w].target} ELSE {}
  <1>1. /\ AiTypes /\ AiWritten(writer[w]) /\ writer[w] \in AiWriterType /\ writer[w].pc = "commit"
        /\ stored \subseteq Configs /\ default \subseteq stored
    BY DEF AiTables, AiTypes, Ai!Commit
  <1>2. /\ stored' = (stored \cup made) \ writer[w].gone
        /\ default' = ((default \ writer[w].off) \cup writer[w].on) \ writer[w].gone
        /\ UNCHANGED <<fallback, call>>
    BY DEF Ai!Commit
  <1>3. PICK q \in AiWriterType :
          Ai!Set(w, q) /\ q.on = {} /\ q.off = {} /\ q.gone = {} /\ AiAlike(q, writer[w]) /\ q.pc = "over"
    BY <1>1, AiDoneSets DEF Ai!Commit
  <1>4. writer'[w] = q /\ \A v \in Writers \ {w} : writer'[v] = writer[v]
    BY <1>1, <1>3, AiSetIs
  <1>5. AiWritten(q)
    BY <1>1, <1>3 DEF AiWritten, AiAsked, Ai!Known, AiAlike
  <1>6. made \subseteq Configs
    BY <1>1 DEF AiWritten, AiAsked, AiWriterType, AiChoice
  <1>7. writer[w].on \subseteq stored \cup made
    <2>1. CASE writer[w].on = {}
      BY <2>1
    <2>2. CASE writer[w].on # {} /\ writer[w].op = "create"
      BY <1>1, <2>2 DEF AiWritten, AiAsked
    <2>3. CASE writer[w].on # {} /\ writer[w].op # "create"
      BY <1>1, <2>3 DEF AiWritten, AiAsked, AiTables, AiHeldInv
    <2> QED BY <2>1, <2>2, <2>3
  <1> HIDE DEF made
  <1>8. AiTypes'
    <2>1. stored' \subseteq Configs /\ default' \subseteq stored'
      BY <1>1, <1>2, <1>6, <1>7
    <2> QED BY <1>1, <1>2, <1>3, <2>1 DEF Ai!Set, AiTypes
  <1>9. writer[w].on # {} => default' = writer[w].on \ writer[w].gone
    BY <1>2 DEF AiTables, AiIndexInv
  <1>10. \A v \in Writers : AiWritten(writer'[v])
    BY <1>4, <1>5 DEF AiTables
  <1>11. Ai!Held(w)' = {} /\ \A v \in Writers \ {w} : Ai!Held(v)' = Ai!Held(v)
    BY <1>3, <1>4 DEF Ai!Held
  <1>12. AiHeldInv'
    <2>1. ASSUME NEW u \in Writers, NEW v \in Writers, u # v PROVE (Ai!Held(u) \cap Ai!Held(v))' = {}
      BY <1>11, <2>1 DEF AiTables, AiHeldInv
    <2>2. ASSUME NEW v \in Writers, writer'[v].on # {}, writer'[v].op # "create"
          PROVE  writer'[v].target \in stored'
      <3>1. v # w /\ writer'[v] = writer[v]
        BY <1>3, <1>4, <2>2
      <3>2. writer[v].on = {writer[v].target} /\ writer[v].target \in stored
        BY <2>2, <3>1 DEF AiTables, AiWritten, AiHeldInv
      <3>3. Ai!Held(v) \cap Ai!Held(w) = {}
        BY <3>1 DEF AiTables, AiHeldInv
      <3>4. writer[v].target \notin writer[w].gone
        BY <3>2, <3>3 DEF Ai!Held
      <3> QED BY <1>2, <3>1, <3>2, <3>4
    <2> QED BY <2>1, <2>2 DEF AiHeldInv
  <1>13. AiIndexInv'
    <2>1. ASSUME NEW u \in Writers, NEW v \in Writers, writer'[u].on # {}, writer'[v].on # {} PROVE u = v
      <3>1. writer[u].on # {} /\ writer[v].on # {}
        BY <1>3, <1>4, <2>1
      <3> QED BY <3>1 DEF AiTables, AiIndexInv
    <2>2. ASSUME NEW v \in Writers, writer'[v].on # {}
          PROVE  default' \subseteq writer'[v].off \cup writer'[v].gone
      <3>1. v # w /\ writer'[v] = writer[v]
        BY <1>3, <1>4, <2>2
      <3>2. writer[w].on = {}
        BY <2>2, <3>1 DEF AiTables, AiIndexInv
      <3>3. default \subseteq writer[v].off \cup writer[v].gone
        BY <2>2, <3>1 DEF AiTables, AiIndexInv
      <3> QED BY <1>2, <3>1, <3>2, <3>3
    <2>3. ASSUME NEW j \in default', NEW k \in default' PROVE j = k
      <3>1. CASE writer[w].on = {}
        BY <1>2, <2>3, <3>1 DEF AiTables, AiIndexInv
      <3>2. CASE writer[w].on # {}
        BY <1>1, <1>9, <2>3, <3>2 DEF AiWritten, AiAsked
      <3> QED BY <3>1, <3>2
    <2> QED BY <2>1, <2>2, <2>3 DEF AiIndexInv
  <1> QED BY <1>8, <1>9, <1>10, <1>12, <1>13 DEF AiTables

\* A call keeps what was resolved.
LEMMA AiAskStep ==
  ASSUME Ai!ProvidersAssumption, AiTables, AiResolved, NEW c \in Calls, AiAsk(c)
  PROVE  AiTables' /\ AiResolved'
  <1>1. /\ UNCHANGED <<stored, default, fallback, writer>> /\ AiTypes /\ default \subseteq Configs
        /\ call \in [Calls -> AiCallType] /\ call[c] \in AiCallType /\ AiResolvedOf(c)
    BY AiAskKeeps DEF AiTables, AiTypes, AiResolved
  <1> SUFFICES ASSUME NEW q \in AiCallType, call' = [call EXCEPT ![c] = q], (call'[c] = q) => AiResolvedOf(c)'
               PROVE  AiTables' /\ AiResolved'
    <2>1. ASSUME Ai!Resolve(c)
          PROVE  \E q \in AiCallType : call' = [call EXCEPT ![c] = q] /\ ((call'[c] = q) => AiResolvedOf(c)')
      <3>1. PICK kind \in {"chat", "excel"}, k \in IF default = {} THEN {none} ELSE default :
              call' = [call EXCEPT ![c] = [Ai!NewCall EXCEPT
                        !.kind = kind, !.default = k,
                        !.chose = IF Ai!Usable(k) THEN k ELSE none,
                        !.pc = IF Ai!Usable(k) THEN "limit" ELSE "fallback"]]
        BY <2>1 DEF Ai!Resolve
      <3>2. k \in AiChoice
        BY <1>1 DEF AiChoice
      <3>3. CASE Ai!Usable(k)
        <4> DEFINE q == [Ai!NewCall EXCEPT !.kind = kind, !.default = k, !.chose = k, !.pc = "limit"]
        <4>1. q \in AiCallType
          BY <3>2 DEF Ai!NewCall, AiCallType, AiChoice
        <4>2. (IF Ai!Usable(k) THEN k ELSE none) = k /\ (IF Ai!Usable(k) THEN "limit" ELSE "fallback") = "limit"
          BY <3>3
        <4>3. call' = [call EXCEPT ![c] = q]
          BY <3>1, <4>2
        <4>4. q.pc = "limit" /\ q.chose = k /\ q.default = k /\ q.sent = none
          BY DEF Ai!NewCall
        <4> HIDE DEF q
        <4>5. (call'[c] = q) => AiResolvedOf(c)'
          BY <3>3, <4>4 DEF AiResolvedOf, Ai!Usable
        <4> QED BY <4>1, <4>3, <4>5
      <3>4. CASE ~Ai!Usable(k)
        <4> DEFINE q == [Ai!NewCall EXCEPT !.kind = kind, !.default = k, !.chose = none, !.pc = "fallback"]
        <4>1. q \in AiCallType
          BY <3>2 DEF Ai!NewCall, AiCallType, AiChoice
        <4>2. (IF Ai!Usable(k) THEN k ELSE none) = none /\ (IF Ai!Usable(k) THEN "limit" ELSE "fallback") = "fallback"
          BY <3>4
        <4>3. call' = [call EXCEPT ![c] = q]
          BY <3>1, <4>2
        <4>4. q.pc = "fallback" /\ q.chose = none /\ q.default = k /\ q.sent = none
          BY DEF Ai!NewCall
        <4> HIDE DEF q
        <4>5. (call'[c] = q) => AiResolvedOf(c)'
          BY <3>4, <4>4 DEF AiResolvedOf, Ai!Usable
        <4> QED BY <4>1, <4>3, <4>5
      <3> QED BY <3>3, <3>4
    <2>2. ASSUME Ai!FallBack(c)
          PROVE  \E q \in AiCallType : call' = [call EXCEPT ![c] = q] /\ ((call'[c] = q) => AiResolvedOf(c)')
      <3>1. call[c].pc = "fallback"
        BY <2>2 DEF Ai!FallBack
      <3>2. CASE call' = [call EXCEPT ![c].chose = platform, ![c].pc = "limit"]
        <4> DEFINE q == [call[c] EXCEPT !.chose = platform, !.pc = "limit"]
        <4>1. q \in AiCallType
          BY <1>1 DEF AiCallType
        <4>2. call' = [call EXCEPT ![c] = q]
          BY <1>1, <3>2
        <4>3. q.pc = "limit" /\ q.chose = platform /\ q.default = call[c].default /\ q.sent = call[c].sent
          BY <1>1 DEF AiCallType
        <4>4. platform \notin Unapproved
          BY Ai!ProvidersAssumption DEF Ai!ProvidersAssumption
        <4> HIDE DEF q
        <4>5. (call'[c] = q) => AiResolvedOf(c)'
          BY <1>1, <3>1, <4>3, <4>4 DEF AiResolvedOf, Ai!Usable
        <4> QED BY <4>1, <4>2, <4>5
      <3>3. CASE call' = [call EXCEPT ![c].pc = "over"]
        <4> DEFINE q == [call[c] EXCEPT !.pc = "over"]
        <4>1. q \in AiCallType
          BY <1>1 DEF AiCallType
        <4>2. call' = [call EXCEPT ![c] = q]
          BY <1>1, <3>3
        <4>3. q.pc = "over" /\ q.sent = call[c].sent
          BY <1>1 DEF AiCallType
        <4> HIDE DEF q
        <4>5. (call'[c] = q) => AiResolvedOf(c)'
          BY <1>1, <3>1, <4>3 DEF AiResolvedOf
        <4> QED BY <4>1, <4>2, <4>5
      <3> QED BY <2>2, <3>2, <3>3 DEF Ai!FallBack
    <2>3. ASSUME Ai!Send(c)
          PROVE  \E q \in AiCallType : call' = [call EXCEPT ![c] = q] /\ ((call'[c] = q) => AiResolvedOf(c)')
      <3>1. call[c].pc = "limit"
        BY <2>3 DEF Ai!Send
      <3>2. CASE call' = [call EXCEPT ![c].pc = "over", ![c].sent = call[c].chose]
        <4> DEFINE q == [call[c] EXCEPT !.pc = "over", !.sent = call[c].chose]
        <4>1. q \in AiCallType
          BY <1>1 DEF AiCallType
        <4>2. call' = [call EXCEPT ![c] = q]
          BY <1>1, <3>2
        <4>3. q.pc = "over" /\ q.sent = call[c].chose /\ q.default = call[c].default
          BY <1>1 DEF AiCallType
        <4> HIDE DEF q
        <4>4. (call'[c] = q) => AiResolvedOf(c)'
          BY <1>1, <3>1, <4>3 DEF AiResolvedOf
        <4> QED BY <4>1, <4>2, <4>4
      <3>3. CASE call' = [call EXCEPT ![c].pc = "over"]
        <4> DEFINE q == [call[c] EXCEPT !.pc = "over"]
        <4>1. q \in AiCallType
          BY <1>1 DEF AiCallType
        <4>2. call' = [call EXCEPT ![c] = q]
          BY <1>1, <3>3
        <4>3. q.pc = "over" /\ q.sent = call[c].sent
          BY <1>1 DEF AiCallType
        <4> HIDE DEF q
        <4>4. (call'[c] = q) => AiResolvedOf(c)'
          BY <1>1, <3>1, <4>3 DEF AiResolvedOf
        <4> QED BY <4>1, <4>2, <4>4
      <3> QED BY <2>3, <3>2, <3>3 DEF Ai!Send
    <2> QED BY <2>1, <2>2, <2>3 DEF AiAsk
  <1>2. call'[c] = q /\ \A d \in Calls \ {c} : call'[d] = call[d]
    BY <1>1
  <1>3. AiTypes'
    BY <1>1 DEF AiTypes
  <1>4. AiTables'
    BY <1>1, <1>3 DEF AiTables, AiHeldInv, AiIndexInv, Ai!Held
  <1>5. AiResolved'
    BY <1>2 DEF AiResolved, AiResolvedOf
  <1> QED BY <1>4, <1>5

\* The invariant holds at the start.
LEMMA AiInvInit ==
  ASSUME Ai!ProvidersAssumption, Ai!Init
  PROVE  AiTables /\ AiResolved
  <1>1. Ai!NewWriter \in AiWriterType /\ Ai!NewCall \in AiCallType
    BY AiNewIsTyped DEF Ai!NewCall, AiCallType, AiChoice
  <1>2. AiTypes
    BY <1>1 DEF Ai!Init, AiTypes
  <1>3. \A w \in Writers : writer[w] = Ai!NewWriter /\ AiWritten(writer[w]) /\ Ai!Held(w) = {}
    <2>1. AiWritten(Ai!NewWriter)
      BY DEF Ai!NewWriter, AiWritten, AiAsked, Ai!Known
    <2>2. \A w \in Writers : writer[w] = Ai!NewWriter
      BY DEF Ai!Init
    <2>3. Ai!NewWriter.off \cup Ai!NewWriter.on \cup Ai!NewWriter.gone = {}
      BY DEF Ai!NewWriter
    <2> QED BY <2>1, <2>2, <2>3 DEF Ai!Held
  <1>4. \A w \in Writers : writer[w].on = {}
    BY <1>3 DEF Ai!NewWriter
  <1>5. AiResolved
    BY DEF Ai!Init, AiResolved, AiResolvedOf, Ai!NewCall, Ai!Usable
  <1> QED BY <1>2, <1>3, <1>4, <1>5 DEF Ai!Init, AiTables, AiHeldInv, AiIndexInv

\* Every step keeps it.
LEMMA AiInvStep ==
  ASSUME Ai!ProvidersAssumption, AiTables, AiResolved, [Ai!Next]_(Ai!vars)
  PROVE  AiTables' /\ AiResolved'
  <1>1. ASSUME NEW w \in Writers, AiAct(w) PROVE AiTables' /\ AiResolved'
    <2>1. AiTables'
      BY <1>1, AiActMoves, AiCommitStep
    <2>2. AiResolved'
      BY <1>1, AiActKeeps DEF AiResolved, AiResolvedOf
    <2> QED BY <2>1, <2>2
  <1>2. ASSUME NEW c \in Calls, AiAsk(c) PROVE AiTables' /\ AiResolved'
    BY <1>2, AiAskStep
  <1>3. ASSUME Ai!SetFallback PROVE AiTables' /\ AiResolved'
    <2>1. fallback' \in BOOLEAN /\ UNCHANGED <<stored, default, writer, call>>
      BY <1>3 DEF Ai!SetFallback, AiTables, AiTypes
    <2> QED BY <2>1 DEF AiTables, AiTypes, AiHeldInv, AiIndexInv, Ai!Held, AiResolved, AiResolvedOf
  <1>4. ASSUME UNCHANGED Ai!vars PROVE AiTables' /\ AiResolved'
    BY <1>4 DEF Ai!vars, AiTables, AiTypes, AiHeldInv, AiIndexInv, Ai!Held, AiResolved, AiResolvedOf
  <1> QED BY <1>1, <1>2, <1>3, <1>4, AiNextIs

\* What the invariant says of providers.
LEMMA AiInvImplies ==
  ASSUME Ai!ProvidersAssumption, AiTables, AiResolved
  PROVE  Ai!TypeOK /\ Ai!AtMostOneDefault /\ Ai!PromptsGoWhereAllowed
  <1>1. Ai!TypeOK
    <2>1. ASSUME NEW w \in Writers PROVE writer[w].op \in Ai!Operations \cup {none} /\ Ai!Held(w) \subseteq Configs
      <3>1. writer[w] \in AiWriterType
        BY DEF AiTables, AiTypes
      <3> QED BY <3>1 DEF AiWriterType, Ai!Held
    <2>2. ASSUME NEW c \in Calls PROVE call[c].sent \in Configs \cup {platform, none}
      <3>1. call[c] \in AiCallType
        BY DEF AiTables, AiTypes
      <3> QED BY <3>1 DEF AiCallType, AiChoice
    <2> QED BY <2>1, <2>2 DEF Ai!TypeOK, AiTables, AiTypes
  <1>2. Ai!AtMostOneDefault
    <2>1. CASE default = {}
      BY <2>1, FS_EmptySet, AiCardinality DEF Ai!AtMostOneDefault
    <2>2. CASE default # {}
      <3>1. PICK k \in default : TRUE
        BY <2>2
      <3>2. default = {k}
        BY <3>1 DEF AiTables, AiIndexInv
      <3>3. Cardinality(default) = 1
        BY <3>2, FS_Singleton
      <3>4. Ai!Cardinality(default) = 1
        BY <3>3, AiCardinality
      <3> QED BY <3>4 DEF Ai!AtMostOneDefault
    <2> QED BY <2>1, <2>2
  <1>3. Ai!PromptsGoWhereAllowed
    BY DEF AiResolved, AiResolvedOf, Ai!PromptsGoWhereAllowed
  <1> QED BY <1>1, <1>2, <1>3

\* A request that commits has made its config the default, unless its session took it for the
\* default already: the index leaves no other default at that moment.
LEMMA AiDefaultStep ==
  ASSUME Ai!ProvidersAssumption, AiTables, [Ai!Next]_(Ai!vars)
  PROVE  Ai!DefaultStep
  <1> SUFFICES ASSUME NEW w \in Writers, writer[w].pc = "commit", writer'[w].pc = "over",
                      stored' # stored \/ default' # default
               PROVE  \/ writer[w].op \in {"save", "delete"}
                      \/ writer[w].op = "set" /\ writer[w].was /\ writer[w].current # writer[w].target
                      \/ default' = {writer[w].target}
    BY DEF Ai!DefaultStep
  <1>1. PICK v \in Writers : AiAct(v)
    BY AiNextIs, AiAskKeeps DEF Ai!SetFallback, Ai!vars
  <1>2. Ai!Commit(v)
    BY <1>1, AiActKeeps
  <1>3. v = w
    <2>1. writer \in [Writers -> AiWriterType]
      BY DEF AiTables, AiTypes
    <2>2. CASE v # w
      <3>1. writer'[w] = writer[w]
        BY <1>2, <2>1, <2>2 DEF Ai!Commit, Ai!Done, Ai!Set
      <3> QED BY <3>1
    <2> QED BY <2>2
  <1>4. AiWritten(writer[w]) /\ writer[w] \in AiWriterType
    BY DEF AiTables, AiTypes
  <1>5. CASE writer[w].op \in {"create", "set", "replace"} /\ ~Ai!Known(writer[w])
    <2>1. writer[w].on = {writer[w].target} /\ writer[w].target \notin writer[w].gone
      BY <1>4, <1>5 DEF AiWritten, AiAsked, Ai!Known
    <2>2. default' = writer[w].on \ writer[w].gone
      BY <1>2, <1>3, <2>1, AiCommitStep
    <2> QED BY <2>1, <2>2
  <1>6. CASE Ai!Known(writer[w])
    BY <1>6 DEF Ai!Known
  <1>7. writer[w].op \in {"create", "set", "replace", "save", "delete"}
    BY <1>4 DEF AiWritten, AiAsked, AiWriterType, Ai!Operations
  <1> QED BY <1>5, <1>6, <1>7

-----------------------------------------------------------------------------
(* MailLinks: the inductive invariant.                                     *)

\* What is always so of a row, and of a row that was loaded.
LinksSound(row) ==
  /\ row.there => row.email # NoAddress
  /\ ~row.there => /\ row.email = NoAddress /\ row.pending = NoAddress
                   /\ ~row.verified /\ ~row.deleted
  /\ ~row.verified => row.pending = NoAddress

\* What a request has loaded, and what it was asked for.
LinksLoaded(r) ==
  /\ r.kind # "none" /\ LinksSound(r.base) /\ r.base.token =< issued
  /\ IF r.kind \in {"register", "invite"}
     THEN ~r.base.there /\ r.address \in Addresses
     ELSE r.base.there
  /\ r.kind = "change" => r.address \in Addresses /\ r.base.verified
  /\ r.kind = "resend" => ~r.base.verified /\ r.address = r.base.email
  /\ r.kind = "forgot" => r.address = r.base.email
  /\ r.kind \in Links!Follows => r.base.token # 0 /\ r.address \in {r.base.email, r.base.pending} \ {NoAddress}
  /\ r.kind = "erase" => ~r.base.deleted

\* What is left for it to do after its commit.
LinksToSend(r) ==
  /\ r.kind \in Links!Issues \cup {"register", "invite"} /\ r.address # NoAddress
  /\ r.base.token =< issued
  /\ r.step = "token" => r.kind \in {"register", "invite"} /\ r.base.pending = NoAddress
  /\ r.step = "mail" => IF r.kind = "forgot" THEN r.base.reset \in 1 .. issued ELSE r.base.token # 0

\* The row never goes back behind what a request has loaded of it.
LinksSince(base, row) ==
  /\ base.there => row.there
  /\ base.verified => row.verified
  /\ base.deleted => row.deleted
  /\ base.there /\ ~row.verified /\ ~row.deleted => row.email = base.email

LinksTypes ==
  /\ Links!TypeOK
  /\ \A p \in People : LinksSound(accounts[p]) /\ accounts[p].token =< issued
  /\ \A mail \in mails : mail.token =< issued
  /\ \A w \in Workers : req[w].step = "write" => LinksLoaded(req[w]) /\ LinksSince(req[w].base, accounts[req[w].who])
  /\ \A w \in Workers : req[w].step \in {"token", "mail"} => LinksToSend(req[w])

\* Accounts of which the property speaks.
LinksFair(p) == p \notin crossed /\ ~accounts[p].deleted

\* The token of a row leads to the address that waits, if one does.
LinksMailedInv ==
  \A p \in People : LinksFair(p) =>
    /\ \A mail \in mails : mail.page # "reset-password" /\ mail.token = accounts[p].token
                             => accounts[p].pending \in {NoAddress, mail.to}
    /\ \A w \in Workers : req[w].step = "mail" /\ req[w].kind # "forgot"
                            /\ req[w].base.token = accounts[p].token
                             => accounts[p].pending \in {NoAddress, req[w].address}

\* A link that is being followed was mailed to the address that waited.
LinksFollowedInv ==
  \A w \in Workers :
    req[w].step = "write" /\ req[w].kind = "verify" /\ LinksFair(req[w].who)
      => req[w].base.pending \in {NoAddress, req[w].address}

LinksIInv == LinksTypes /\ LinksMailedInv /\ LinksFollowedInv /\ Links!AddressProven

-----------------------------------------------------------------------------
(* MailLinks: what a commit makes of a row.                                *)

\* A merge, attribute by attribute.
LEMMA LinksMergeIs ==
  ASSUME NEW n \in Links!Account, NEW b \in Links!Account, NEW c \in Links!Account
  PROVE  /\ Links!Merge(n, b, c) \in Links!Account
         /\ Links!Merge(n, b, c).there = IF n.there # b.there THEN n.there ELSE c.there
         /\ Links!Merge(n, b, c).email = IF n.email # b.email THEN n.email ELSE c.email
         /\ Links!Merge(n, b, c).pending = IF n.pending # b.pending THEN n.pending ELSE c.pending
         /\ Links!Merge(n, b, c).verified = IF n.verified # b.verified THEN n.verified ELSE c.verified
         /\ Links!Merge(n, b, c).token = IF n.token # b.token THEN n.token ELSE c.token
         /\ Links!Merge(n, b, c).reset = IF n.reset # b.reset THEN n.reset ELSE c.reset
         /\ Links!Merge(n, b, c).deleted = IF n.deleted # b.deleted THEN n.deleted ELSE c.deleted
  BY DEF Links!Merge, Links!Account

\* The attributes that each kind of request changes.
LinksEditOf(k, b, a, n) ==
  /\ IF k \in {"register", "invite"} THEN n.there ELSE n.there = b.there
  /\ n.email = CASE k \in {"register", "invite"} -> a
                 [] k = "erase" -> Tombstone
                 [] k = "verify" -> IF b.pending = NoAddress THEN b.email ELSE b.pending
                 [] OTHER -> b.email
  /\ n.pending = CASE k = "change" -> a
                   [] k \in {"verify", "erase"} -> NoAddress
                   [] OTHER -> b.pending
  /\ IF k \in Links!Follows THEN n.verified ELSE n.verified = b.verified
  /\ n.token = CASE k \in {"resend", "change"} -> issued + 1
                 [] k \in Links!Follows -> 0
                 [] OTHER -> b.token
  /\ k = "forgot" => n.reset = issued + 1
  /\ IF k = "erase" THEN n.deleted ELSE n.deleted = b.deleted

\* An edit is an account, and changes what its kind changes.
LEMMA LinksEditedIs ==
  ASSUME Links!MailLinksAssumption, issued \in 0 .. MaxTokens, NEW b \in Links!Account,
         NEW k \in Links!Kinds \ {"none"}, NEW a,
         k \in {"register", "invite", "change"} => a \in Addresses,
         k \in Links!Issues => issued < MaxTokens
  PROVE  Links!Edited(k, b, a) \in Links!Account /\ LinksEditOf(k, b, a, Links!Edited(k, b, a))
  <1>0. MaxTokens \in Nat /\ 0 \in 0 .. MaxTokens
    BY DEF Links!MailLinksAssumption
  <1>1. CASE k = "register"
    BY <1>1 DEF Links!Edited, LinksEditOf, Links!Account, Links!Follows
  <1>2. CASE k = "invite"
    BY <1>2 DEF Links!Edited, LinksEditOf, Links!Account, Links!Follows
  <1>3. CASE k = "resend"
    <2>1. issued + 1 \in 0 .. MaxTokens
      BY <1>0, <1>3 DEF Links!Issues
    <2> QED BY <1>3, <2>1 DEF Links!Edited, LinksEditOf, Links!Account, Links!Follows
  <1>4. CASE k = "change"
    <2>1. issued + 1 \in 0 .. MaxTokens
      BY <1>0, <1>4 DEF Links!Issues
    <2> QED BY <1>4, <2>1 DEF Links!Edited, LinksEditOf, Links!Account, Links!Follows
  <1>5. CASE k = "verify"
    <2>1. (IF b.pending = NoAddress THEN b.email ELSE b.pending) \in Addresses \cup {NoAddress, Tombstone}
      BY DEF Links!Account
    <2>2. Links!Edited(k, b, a) = Links!Verified(b)
      BY <1>5 DEF Links!Edited
    <2>3. Links!Verified(b) \in Links!Account
      BY <1>0, <2>1 DEF Links!Verified, Links!Account
    <2>4. LinksEditOf(k, b, a, Links!Verified(b))
      BY <1>5, <2>1 DEF Links!Verified, LinksEditOf, Links!Account, Links!Follows
    <2> QED BY <2>2, <2>3, <2>4
  <1>6. CASE k = "accept"
    BY <1>0, <1>6 DEF Links!Edited, LinksEditOf, Links!Account, Links!Follows
  <1>7. CASE k = "forgot"
    <2>1. issued + 1 \in 0 .. MaxTokens
      BY <1>0, <1>7 DEF Links!Issues
    <2> QED BY <1>7, <2>1 DEF Links!Edited, LinksEditOf, Links!Account, Links!Follows
  <1>8. CASE k = "reset"
    BY <1>0, <1>8 DEF Links!Edited, LinksEditOf, Links!Account, Links!Follows
  <1>9. CASE k = "erase"
    BY <1>9 DEF Links!Edited, LinksEditOf, Links!Account, Links!Follows
  <1> QED BY <1>1, <1>2, <1>3, <1>4, <1>5, <1>6, <1>7, <1>8, <1>9 DEF Links!Kinds

\* Where the row of a request can be after its commit, seen from the row before it.
LinksMoved(r, cur, row) ==
  /\ cur.there => row.there
  /\ cur.verified => row.verified
  /\ cur.deleted => row.deleted
  /\ cur.there /\ ~row.verified /\ ~row.deleted => row.email = cur.email
  /\ \/ row.pending = cur.pending /\ row.token = cur.token
     \/ row.token = 0
     \/ row.deleted
     \/ r.kind \in {"resend", "change"} /\ row.token = issued + 1
  /\ row.verified => cur.verified \/ r.kind \in Links!Follows
  /\ \/ row.email = cur.email \/ ~row.verified \/ row.deleted
     \/ r.kind = "verify" /\ r.base.pending # NoAddress /\ row.email = r.base.pending

\* The request's record, for any worker.
LinksRequestType == [kind: Links!Kinds, step: {"idle", "write", "token", "mail"}, who: People,
                base: Links!Account, address: Addresses \cup {NoAddress, Tombstone}]

\* A merged row has moved only as its request may move it.
LEMMA LinksRowMoves ==
  ASSUME Links!MailLinksAssumption, issued \in 0 .. MaxTokens, NEW r \in LinksRequestType, NEW cur \in Links!Account,
         NEW n \in Links!Account, LinksLoaded(r), LinksSound(cur), cur.token =< issued, LinksSince(r.base, cur),
         LinksEditOf(r.kind, r.base, r.address, n),
         r.kind \in {"register", "invite"} => ~cur.there
  PROVE  /\ LinksMoved(r, cur, Links!Merge(n, r.base, cur))
         /\ LET row == Links!Merge(n, r.base, cur)
            IN  /\ row.there => row.email # NoAddress
                /\ ~row.there => row.pending = NoAddress /\ ~row.verified /\ ~row.deleted
                /\ ~row.verified => row.pending = NoAddress
                /\ row.token =< IF r.kind \in Links!Issues THEN issued + 1 ELSE issued
  <1> DEFINE b == r.base
             row == Links!Merge(n, b, cur)
  <1>0. b \in Links!Account /\ r.kind \in Links!Kinds \ {"none"} /\ MaxTokens \in Nat /\ issued \in Nat
    BY DEF LinksRequestType, LinksLoaded, Links!MailLinksAssumption
  <1>1. /\ row \in Links!Account
        /\ row.there = IF n.there # b.there THEN n.there ELSE cur.there
        /\ row.email = IF n.email # b.email THEN n.email ELSE cur.email
        /\ row.pending = IF n.pending # b.pending THEN n.pending ELSE cur.pending
        /\ row.verified = IF n.verified # b.verified THEN n.verified ELSE cur.verified
        /\ row.token = IF n.token # b.token THEN n.token ELSE cur.token
        /\ row.deleted = IF n.deleted # b.deleted THEN n.deleted ELSE cur.deleted
    BY <1>0, LinksMergeIs
  <1>2. /\ b.token \in Nat /\ cur.token \in Nat /\ b.token =< issued /\ cur.token =< issued
        /\ b.there \in BOOLEAN /\ b.verified \in BOOLEAN /\ b.deleted \in BOOLEAN
        /\ n.there \in BOOLEAN /\ n.verified \in BOOLEAN /\ n.deleted \in BOOLEAN
        /\ cur.there \in BOOLEAN /\ cur.verified \in BOOLEAN /\ cur.deleted \in BOOLEAN
    BY <1>0 DEF Links!Account, LinksLoaded, LinksSound
  <1> HIDE DEF row
  <1>3. CASE r.kind \in {"register", "invite"}
    <2>1. /\ n.there /\ n.email = r.address /\ n.pending = b.pending /\ n.verified = b.verified
          /\ n.token = b.token /\ n.deleted = b.deleted
      BY <1>3 DEF LinksEditOf, Links!Follows
    <2>2. /\ ~cur.there /\ cur.pending = NoAddress /\ ~cur.verified /\ ~cur.deleted
          /\ ~b.there /\ r.address \in Addresses
      BY <1>3 DEF LinksLoaded, LinksSound
    <2>3. r.kind \notin Links!Issues
      BY <1>3 DEF Links!Issues
    <2>4. row.there /\ row.pending = NoAddress /\ ~row.verified /\ ~row.deleted /\ row.token = cur.token
      BY <1>1, <1>2, <2>1, <2>2
    <2>5. row.email # NoAddress
      <3>1. r.address # NoAddress /\ b.email = NoAddress
        BY <1>0, <2>2 DEF Links!MailLinksAssumption, LinksLoaded, LinksSound
      <3> QED BY <1>1, <2>1, <3>1
    <2> QED BY <1>2, <2>2, <2>3, <2>4, <2>5 DEF LinksMoved, row
  <1>4. ASSUME r.kind \notin {"register", "invite"}
        PROVE  /\ b.there /\ cur.there /\ row.there = cur.there /\ cur.email # NoAddress
               /\ b.email # NoAddress
    BY <1>1, <1>4 DEF LinksEditOf, LinksLoaded, LinksSound, LinksSince
  <1>5. CASE r.kind \in {"resend", "change"}
    <2>1. /\ n.email = b.email /\ n.verified = b.verified /\ n.deleted = b.deleted
          /\ n.token = issued + 1
      BY <1>5 DEF LinksEditOf, Links!Follows
    <2>2. /\ row.email = cur.email /\ row.verified = cur.verified /\ row.deleted = cur.deleted
          /\ row.token = issued + 1
      BY <1>0, <1>1, <1>2, <2>1
    <2>3. ~row.verified => row.pending = NoAddress
      <3>1. r.kind = "change" => cur.verified
        BY DEF LinksLoaded, LinksSince
      <3>2. r.kind = "resend" => row.pending = cur.pending
        BY <1>1 DEF LinksEditOf
      <3> QED BY <1>5, <2>2, <3>1, <3>2 DEF LinksSound
    <2>4. r.kind \in Links!Issues
      BY <1>5 DEF Links!Issues
    <2> QED BY <1>0, <1>4, <1>5, <2>2, <2>3, <2>4 DEF LinksMoved, row
  <1>6. CASE r.kind \in {"forgot", "reset"}
    <2>1. /\ n.email = b.email /\ n.verified = b.verified /\ n.deleted = b.deleted
          /\ n.token = b.token /\ n.pending = b.pending
      BY <1>6 DEF LinksEditOf, Links!Follows
    <2>2. /\ row.email = cur.email /\ row.verified = cur.verified /\ row.deleted = cur.deleted
          /\ row.token = cur.token /\ row.pending = cur.pending
      BY <1>1, <2>1
    <2> QED BY <1>0, <1>2, <1>4, <1>6, <2>2 DEF LinksMoved, LinksSound, row
  <1>7. CASE r.kind \in Links!Follows
    <2>1. n.verified /\ n.deleted = b.deleted /\ n.token = 0 /\ b.token # 0
      BY <1>7 DEF LinksEditOf, Links!Follows, LinksLoaded
    <2>2. row.deleted = cur.deleted /\ row.token = 0
      BY <1>1, <2>1
    <2>3. row.verified
      <3>1. CASE b.verified
        BY <1>1, <1>2, <2>1, <3>1 DEF LinksSince
      <3>2. CASE ~b.verified
        BY <1>1, <1>2, <2>1, <3>2
      <3> QED BY <3>1, <3>2
    <2>4. \/ row.email = cur.email
          \/ r.kind = "verify" /\ b.pending # NoAddress /\ row.email = b.pending
      <3>1. CASE r.kind = "verify"
        BY <1>1, <3>1 DEF LinksEditOf
      <3>2. CASE r.kind = "accept"
        BY <1>1, <3>2 DEF LinksEditOf
      <3> QED BY <1>7, <3>1, <3>2 DEF Links!Follows
    <2>5. LinksMoved(r, cur, row)
      BY <1>4, <1>7, <2>2, <2>3, <2>4 DEF LinksMoved
    <2>6. /\ row.there => row.email # NoAddress
          /\ ~row.there => row.pending = NoAddress /\ ~row.verified /\ ~row.deleted
          /\ ~row.verified => row.pending = NoAddress
          /\ row.token =< IF r.kind \in Links!Issues THEN issued + 1 ELSE issued
      BY <1>0, <1>4, <1>7, <2>2, <2>3, <2>4 DEF Links!Follows
    <2> QED BY <2>5, <2>6 DEF row
  <1>8. CASE r.kind = "erase"
    <2>1. n.verified = b.verified /\ n.deleted /\ ~b.deleted /\ n.token = b.token
          /\ n.email = Tombstone /\ n.pending = NoAddress
      BY <1>8 DEF LinksEditOf, Links!Follows, LinksLoaded
    <2>2. row.verified = cur.verified /\ row.token = cur.token
          /\ (row.email = Tombstone \/ row.email = cur.email)
          /\ (row.pending = NoAddress \/ row.pending = cur.pending)
      BY <1>1, <2>1
    <2>3. row.deleted
      BY <1>1, <1>2, <2>1
    <2>4. Tombstone # NoAddress /\ r.kind \notin Links!Issues
      BY <1>8 DEF Links!MailLinksAssumption, Links!Issues
    <2>5. LinksMoved(r, cur, row)
      BY <1>4, <2>2, <2>3 DEF LinksMoved
    <2>6. /\ row.there => row.email # NoAddress
          /\ ~row.there => row.pending = NoAddress /\ ~row.verified /\ ~row.deleted
          /\ ~row.verified => row.pending = NoAddress
          /\ row.token =< IF r.kind \in Links!Issues THEN issued + 1 ELSE issued
      BY <1>2, <1>4, <1>8, <2>2, <2>3, <2>4 DEF LinksSound
    <2> QED BY <2>5, <2>6 DEF row
  <1>9. r.kind \in {"register", "invite", "resend", "change", "forgot", "reset", "erase"} \cup Links!Follows
    BY <1>0 DEF Links!Kinds, Links!Follows
  <1> QED BY <1>3, <1>5, <1>6, <1>7, <1>8, <1>9 DEF row

-----------------------------------------------------------------------------
(* MailLinks: every step keeps the invariant.                              *)

\* A request that has loaded a row keeps the invariant.
LEMMA LinksStartKeeps ==
  ASSUME Links!MailLinksAssumption, LinksIInv, NEW w \in Workers, NEW kind \in Links!Kinds \ {"none"},
         NEW p \in People, NEW a \in Addresses \cup {Tombstone}, Links!Start(w, kind, p, a),
         LinksLoaded([kind |-> kind, step |-> "write", who |-> p, base |-> accounts[p], address |-> a]),
         kind = "verify" /\ LinksFair(p) => accounts[p].pending \in {NoAddress, a}
  PROVE  LinksIInv'
  <1> DEFINE r == [kind |-> kind, step |-> "write", who |-> p, base |-> accounts[p], address |-> a]
  <1>0. /\ Links!TypeOK /\ issued \in Nat /\ accounts[p] \in Links!Account /\ req \in [Workers -> LinksRequestType]
        /\ begun \in 0 .. MaxRequests /\ MaxRequests \in Nat
    BY DEF LinksIInv, LinksTypes, Links!TypeOK, LinksRequestType, Links!MailLinksAssumption
  <1>1. /\ UNCHANGED <<accounts, mails, issued, proven, cut, crossed>>
        /\ begun' = begun + 1 /\ begun < MaxRequests /\ req' = [req EXCEPT ![w] = r]
    BY DEF Links!Start
  <1>2. r \in LinksRequestType
    BY <1>0 DEF LinksRequestType
  <1>3. r.step = "write" /\ r.kind = kind /\ r.who = p /\ r.base = accounts[p] /\ r.address = a
    OBVIOUS
  <1>4. LinksLoaded(r)
    OBVIOUS
  <1> HIDE DEF r
  <1>5. req'[w] = r /\ \A v \in Workers \ {w} : req'[v] = req[v]
    BY <1>0, <1>1
  <1>6. Links!TypeOK'
    <2>1. begun' \in 0 .. MaxRequests
      BY <1>0, <1>1
    <2>2. req' \in [Workers -> LinksRequestType]
      BY <1>0, <1>1, <1>2
    <2> QED BY <1>0, <1>1, <2>1, <2>2 DEF Links!TypeOK, LinksRequestType
  <1>7. ASSUME NEW v \in Workers, req'[v].step = "write"
        PROVE  LinksLoaded(req'[v]) /\ LinksSince(req'[v].base, accounts[req'[v].who])
    <2>1. CASE v = w
      BY <1>3, <1>4, <1>5, <2>1 DEF LinksSince
    <2>2. CASE v # w
      BY <1>5, <1>7, <2>2 DEF LinksIInv, LinksTypes
    <2> QED BY <2>1, <2>2
  <1>8. ASSUME NEW v \in Workers, req'[v].step \in {"token", "mail"} PROVE LinksToSend(req'[v])
    BY <1>3, <1>5, <1>8 DEF LinksIInv, LinksTypes
  <1>9. LinksTypes'
    BY <1>1, <1>6, <1>7, <1>8 DEF LinksIInv, LinksTypes, LinksLoaded, LinksToSend, LinksSound
  <1>10. LinksMailedInv'
    BY <1>1, <1>3, <1>5 DEF LinksIInv, LinksMailedInv, LinksFair
  <1>11. LinksFollowedInv'
    BY <1>1, <1>3, <1>5 DEF LinksIInv, LinksFollowedInv, LinksFair
  <1>12. Links!AddressProven'
    BY <1>1 DEF LinksIInv, Links!AddressProven
  <1> QED BY <1>9, <1>10, <1>11, <1>12 DEF LinksIInv

\* So does every request that a form asks for.
LEMMA LinksAskKeeps ==
  ASSUME Links!MailLinksAssumption, LinksIInv, NEW w \in Workers, NEW p \in People, Links!Ask(w, p)
  PROVE  LinksIInv'
  <1>0. accounts[p] \in Links!Account /\ LinksSound(accounts[p]) /\ accounts[p].token =< issued
    BY DEF LinksIInv, LinksTypes, Links!TypeOK
  <1>1. ASSUME NEW a \in Addresses, Links!BeginRegister(w, p, a) PROVE LinksIInv'
    <2>1. Links!Start(w, "register", p, a) /\ ~accounts[p].there
      BY <1>1 DEF Links!BeginRegister
    <2>2. LinksLoaded([kind |-> "register", step |-> "write", who |-> p, base |-> accounts[p], address |-> a])
      BY <1>0, <2>1 DEF LinksLoaded, Links!Follows
    <2> QED BY <2>1, <2>2, LinksStartKeeps DEF Links!Kinds
  <1>2. ASSUME NEW a \in Addresses, Links!BeginInvite(w, p, a) PROVE LinksIInv'
    <2>1. Links!Start(w, "invite", p, a) /\ ~accounts[p].there
      BY <1>2 DEF Links!BeginInvite
    <2>2. LinksLoaded([kind |-> "invite", step |-> "write", who |-> p, base |-> accounts[p], address |-> a])
      BY <1>0, <2>1 DEF LinksLoaded, Links!Follows
    <2> QED BY <2>1, <2>2, LinksStartKeeps DEF Links!Kinds
  <1>3. ASSUME NEW a \in Addresses, Links!BeginChange(w, p, a) PROVE LinksIInv'
    <2>1. Links!Start(w, "change", p, a) /\ accounts[p].there /\ accounts[p].verified
      BY <1>3 DEF Links!BeginChange
    <2>2. LinksLoaded([kind |-> "change", step |-> "write", who |-> p, base |-> accounts[p], address |-> a])
      BY <1>0, <2>1 DEF LinksLoaded, Links!Follows
    <2> QED BY <2>1, <2>2, LinksStartKeeps DEF Links!Kinds
  <1>4. ASSUME Links!BeginResend(w, p) PROVE LinksIInv'
    <2>1. Links!Start(w, "resend", p, accounts[p].email) /\ accounts[p].there /\ ~accounts[p].verified
      BY <1>4 DEF Links!BeginResend, Links!Holders
    <2>2. LinksLoaded([kind |-> "resend", step |-> "write", who |-> p, base |-> accounts[p],
                  address |-> accounts[p].email])
      BY <1>0, <2>1 DEF LinksLoaded, Links!Follows
    <2>3. accounts[p].email \in Addresses \cup {Tombstone}
      BY <1>0, <2>1 DEF LinksSound, Links!Account
    <2> QED BY <2>1, <2>2, <2>3, LinksStartKeeps DEF Links!Kinds
  <1>5. ASSUME Links!BeginForgot(w, p) PROVE LinksIInv'
    <2>1. Links!Start(w, "forgot", p, accounts[p].email) /\ accounts[p].there
      BY <1>5 DEF Links!BeginForgot
    <2>2. LinksLoaded([kind |-> "forgot", step |-> "write", who |-> p, base |-> accounts[p],
                  address |-> accounts[p].email])
      BY <1>0, <2>1 DEF LinksLoaded, Links!Follows
    <2>3. accounts[p].email \in Addresses \cup {Tombstone}
      BY <1>0, <2>1 DEF LinksSound, Links!Account
    <2> QED BY <2>1, <2>2, <2>3, LinksStartKeeps DEF Links!Kinds
  <1>6. ASSUME Links!BeginErase(w, p) PROVE LinksIInv'
    <2>1. Links!Start(w, "erase", p, Tombstone) /\ accounts[p].there /\ ~accounts[p].deleted
      BY <1>6 DEF Links!BeginErase
    <2>2. LinksLoaded([kind |-> "erase", step |-> "write", who |-> p, base |-> accounts[p], address |-> Tombstone])
      BY <1>0, <2>1 DEF LinksLoaded, Links!Follows
    <2> QED BY <2>1, <2>2, LinksStartKeeps DEF Links!Kinds
  <1> QED BY <1>1, <1>2, <1>3, <1>4, <1>5, <1>6 DEF Links!Ask

\* So does every link that is followed.
LEMMA LinksFollowKeeps ==
  ASSUME Links!MailLinksAssumption, LinksIInv, NEW w \in Workers, NEW p \in People, Links!Follow(w, p)
  PROVE  LinksIInv'
  <1>0. accounts[p] \in Links!Account /\ LinksSound(accounts[p]) /\ accounts[p].token =< issued
    BY DEF LinksIInv, LinksTypes, Links!TypeOK
  <1>1. PICK mail \in mails : Links!BeginVerify(w, p, mail) \/ Links!BeginAccept(w, p, mail) \/ Links!BeginReset(w, p, mail)
    BY DEF Links!Follow
  <1>2. /\ mail.to \in Addresses \cup {Tombstone} /\ mail.token # 0
        /\ mail.to # NoAddress
    BY DEF LinksIInv, LinksTypes, Links!TypeOK, Links!Mails, Links!Tokens, Links!MailLinksAssumption
  <1>3. ASSUME Links!Opens(p, mail)
        PROVE  accounts[p].there /\ accounts[p].token = mail.token
               /\ mail.to \in {accounts[p].email, accounts[p].pending} \ {NoAddress}
    <2>1. p \in Links!Claimants(mail.to)
      BY <1>3 DEF Links!Opens
    <2> QED BY <1>2, <1>3, <2>1 DEF Links!Opens, Links!Claimants
  <1>4. ASSUME Links!BeginVerify(w, p, mail) PROVE LinksIInv'
    <2>1. Links!Start(w, "verify", p, mail.to) /\ Links!Opens(p, mail) /\ mail.page # "reset-password"
      BY <1>4 DEF Links!BeginVerify
    <2>2. LinksLoaded([kind |-> "verify", step |-> "write", who |-> p, base |-> accounts[p], address |-> mail.to])
      BY <1>0, <1>2, <1>3, <2>1 DEF LinksLoaded, Links!Follows
    <2>3. LinksFair(p) => accounts[p].pending \in {NoAddress, mail.to}
      BY <1>3, <2>1 DEF LinksIInv, LinksMailedInv
    <2> QED BY <1>2, <2>1, <2>2, <2>3, LinksStartKeeps DEF Links!Kinds
  <1>5. ASSUME Links!BeginAccept(w, p, mail) PROVE LinksIInv'
    <2>1. Links!Start(w, "accept", p, mail.to) /\ Links!Opens(p, mail)
      BY <1>5 DEF Links!BeginAccept
    <2>2. LinksLoaded([kind |-> "accept", step |-> "write", who |-> p, base |-> accounts[p], address |-> mail.to])
      BY <1>0, <1>2, <1>3, <2>1 DEF LinksLoaded, Links!Follows
    <2> QED BY <1>2, <2>1, <2>2, LinksStartKeeps DEF Links!Kinds
  <1>6. ASSUME Links!BeginReset(w, p, mail) PROVE LinksIInv'
    <2>1. Links!Start(w, "reset", p, mail.to) /\ p \in Links!Holders(mail.to)
      BY <1>6 DEF Links!BeginReset
    <2>2. LinksLoaded([kind |-> "reset", step |-> "write", who |-> p, base |-> accounts[p], address |-> mail.to])
      BY <1>0, <2>1 DEF LinksLoaded, Links!Follows, Links!Holders
    <2> QED BY <1>2, <2>1, <2>2, LinksStartKeeps DEF Links!Kinds
  <1> QED BY <1>1, <1>4, <1>5, <1>6

\* What a commit does, and what it leaves alone.
LEMMA LinksWriteIs ==
  ASSUME Links!MailLinksAssumption, LinksIInv, NEW w \in Workers, Links!Write(w)
  PROVE  \E n \in Links!Account, row \in Links!Account :
           LET r == req[w] IN
           /\ r.step = "write" /\ LinksLoaded(r)
           /\ LinksEditOf(r.kind, r.base, r.address, n)
           /\ LinksMoved(r, accounts[r.who], row) /\ LinksSound(row) /\ row.token =< issued'
           /\ accounts' = [accounts EXCEPT ![r.who] = row]
           /\ issued' = IF r.kind \in Links!Issues THEN issued + 1 ELSE issued
           /\ issued' \in 0 .. MaxTokens
           /\ proven' = IF r.kind \in Links!Follows THEN proven \cup {<<r.who, r.address>>} ELSE proven
           /\ req' = [req EXCEPT ![w] =
                CASE r.kind \in Links!Issues               -> [r EXCEPT !.step = "mail", !.base = n]
                  [] r.kind \in {"register", "invite"} -> [r EXCEPT !.step = "token", !.base = n]
                  [] OTHER                           -> Links!Idle]
           /\ crossed' = IF r.kind \in {"resend", "change"} THEN Links!Crossing(r.who, row, n) ELSE crossed
           /\ UNCHANGED <<mails, begun, cut>>
  <1> DEFINE r == req[w]
             n == Links!Edited(r.kind, r.base, r.address)
             cur == accounts[r.who]
             row == Links!Merge(n, r.base, cur)
  <1>0. /\ r \in LinksRequestType /\ r.step = "write" /\ issued \in 0 .. MaxTokens /\ MaxTokens \in Nat
        /\ cur \in Links!Account /\ r.base \in Links!Account
    BY DEF LinksIInv, LinksTypes, Links!TypeOK, LinksRequestType, Links!Write, Links!MailLinksAssumption
  <1>1. LinksLoaded(r) /\ LinksSince(r.base, cur) /\ LinksSound(cur) /\ cur.token =< issued
    BY <1>0 DEF LinksIInv, LinksTypes, LinksRequestType
  <1>2. /\ r.kind \in Links!Issues => issued < MaxTokens
        /\ r.kind \in {"register", "invite"} => ~cur.there
        /\ accounts' = [accounts EXCEPT ![r.who] = row]
        /\ issued' = IF r.kind \in Links!Issues THEN issued + 1 ELSE issued
        /\ proven' = IF r.kind \in Links!Follows THEN proven \cup {<<r.who, r.address>>} ELSE proven
        /\ crossed' = IF r.kind \in {"resend", "change"} THEN Links!Crossing(r.who, row, n) ELSE crossed
        /\ UNCHANGED <<mails, begun, cut>>
    BY DEF Links!Write
  <1>3. req' = [req EXCEPT ![w] =
                  CASE r.kind \in Links!Issues               -> [r EXCEPT !.step = "mail", !.base = n]
                    [] r.kind \in {"register", "invite"} -> [r EXCEPT !.step = "token", !.base = n]
                    [] OTHER                           -> Links!Idle]
    BY DEF Links!Write
  <1>4. n \in Links!Account /\ LinksEditOf(r.kind, r.base, r.address, n)
    <2>1. r.kind \in Links!Kinds \ {"none"}
      BY <1>0, <1>1 DEF LinksLoaded, LinksRequestType
    <2>2. r.kind \in {"register", "invite", "change"} => r.address \in Addresses
      BY <1>1 DEF LinksLoaded
    <2> QED BY <1>0, <1>2, <2>1, <2>2, LinksEditedIs
  <1> HIDE DEF n
  <1>5. row \in Links!Account
    BY <1>0, <1>4, LinksMergeIs
  <1>6. /\ LinksMoved(r, cur, row)
        /\ row.there => row.email # NoAddress
        /\ ~row.verified => row.pending = NoAddress
        /\ row.token =< IF r.kind \in Links!Issues THEN issued + 1 ELSE issued
        /\ ~row.there => row.pending = NoAddress /\ ~row.verified /\ ~row.deleted
    BY <1>0, <1>1, <1>2, <1>4, LinksRowMoves
  <1>7. row.there
    <2>1. CASE r.kind \in {"register", "invite"}
      <3>1. n.there /\ ~r.base.there
        BY <1>1, <1>4, <2>1 DEF LinksEditOf, LinksLoaded
      <3>2. n.there # r.base.there
        BY <3>1
      <3>3. row.there = n.there
        BY <1>0, <1>4, <3>2, LinksMergeIs
      <3> QED BY <3>1, <3>3
    <2>2. CASE r.kind \notin {"register", "invite"}
      BY <1>1, <1>6, <2>2 DEF LinksLoaded, LinksSince, LinksMoved
    <2> QED BY <2>1, <2>2
  <1> HIDE DEF row
  <1>8. LinksSound(row) /\ row.token =< issued'
    BY <1>2, <1>6, <1>7 DEF LinksSound
  <1>9. issued' \in 0 .. MaxTokens
    BY <1>0, <1>2
  <1> n \in Links!Account /\ row \in Links!Account
    BY <1>4, <1>5
  <1> WITNESS n \in Links!Account, row \in Links!Account
  <1> QED BY <1>0, <1>1, <1>2, <1>3, <1>4, <1>6, <1>8, <1>9

\* A commit keeps the invariant.
LEMMA LinksWriteKeeps ==
  ASSUME Links!MailLinksAssumption, LinksIInv, NEW w \in Workers, Links!Write(w)
  PROVE  LinksIInv'
  <1> DEFINE r == req[w]
             p == r.who
             cur == accounts[p]
  <1>1. PICK n \in Links!Account, row \in Links!Account :
          /\ r.step = "write" /\ LinksLoaded(r)
          /\ LinksEditOf(r.kind, r.base, r.address, n)
          /\ LinksMoved(r, cur, row) /\ LinksSound(row) /\ row.token =< issued'
          /\ accounts' = [accounts EXCEPT ![p] = row]
          /\ issued' = IF r.kind \in Links!Issues THEN issued + 1 ELSE issued
          /\ issued' \in 0 .. MaxTokens
          /\ proven' = IF r.kind \in Links!Follows THEN proven \cup {<<p, r.address>>} ELSE proven
          /\ req' = [req EXCEPT ![w] =
               CASE r.kind \in Links!Issues               -> [r EXCEPT !.step = "mail", !.base = n]
                 [] r.kind \in {"register", "invite"} -> [r EXCEPT !.step = "token", !.base = n]
                 [] OTHER                           -> Links!Idle]
          /\ crossed' = IF r.kind \in {"resend", "change"} THEN Links!Crossing(p, row, n) ELSE crossed
          /\ UNCHANGED <<mails, begun, cut>>
    BY LinksWriteIs
  <1>2. /\ Links!TypeOK /\ r \in LinksRequestType /\ p \in People /\ cur \in Links!Account /\ r.base \in Links!Account
        /\ req \in [Workers -> LinksRequestType] /\ accounts \in [People -> Links!Account]
        /\ issued \in Nat /\ issued =< issued' /\ issued' \in Nat
    <2>1. Links!TypeOK /\ req \in [Workers -> LinksRequestType] /\ issued \in Nat
      BY DEF LinksIInv, LinksTypes, Links!TypeOK, LinksRequestType
    <2> QED BY <1>1, <2>1 DEF Links!TypeOK, LinksRequestType
  <1>3. LinksSince(r.base, cur) /\ LinksSound(cur) /\ cur.token =< issued /\ cur.token \in Nat
    BY <1>1, <1>2 DEF LinksIInv, LinksTypes, Links!Account
  <1>4. accounts'[p] = row /\ \A q \in People \ {p} : accounts'[q] = accounts[q]
    BY <1>1, <1>2
  <1>5. PICK s \in LinksRequestType :
          /\ req' = [req EXCEPT ![w] = s]
          /\ \/ /\ r.kind \in Links!Issues /\ s.step = "mail" /\ s.kind = r.kind
                /\ s.address = r.address /\ s.base = n
             \/ /\ r.kind \in {"register", "invite"} /\ s.step = "token" /\ s.kind = r.kind
                /\ s.address = r.address /\ s.base = n
             \/ s.step = "idle"
    <2> DEFINE Next1(k) == [r EXCEPT !.step = k, !.base = n]
    <2>1. ASSUME NEW k \in {"mail", "token"}
          PROVE  /\ Next1(k) \in LinksRequestType /\ Next1(k).step = k /\ Next1(k).kind = r.kind
                 /\ Next1(k).address = r.address /\ Next1(k).base = n
      <3> HIDE DEF r, p, cur
      <3> QED BY <1>2 DEF LinksRequestType
    <2>2. Links!Idle \in LinksRequestType /\ Links!Idle.step = "idle"
      <3>1. 0 \in 0 .. MaxTokens
        BY DEF Links!MailLinksAssumption
      <3>2. Links!NoAccount \in Links!Account
        BY <3>1 DEF Links!NoAccount, Links!Account
      <3>3. Links!APerson \in People
        BY <1>2 DEF Links!APerson
      <3> QED BY <3>2, <3>3 DEF Links!Idle, LinksRequestType, Links!Kinds
    <2>3. req' = [req EXCEPT ![w] =
               CASE r.kind \in Links!Issues               -> Next1("mail")
                 [] r.kind \in {"register", "invite"} -> Next1("token")
                 [] OTHER                           -> Links!Idle]
      BY <1>1
    <2>4. r.kind \in Links!Issues => r.kind \notin {"register", "invite"}
      BY DEF Links!Issues
    <2> HIDE DEF r, p, cur, Next1
    <2>5. CASE r.kind \in Links!Issues
      <3>1. req' = [req EXCEPT ![w] = Next1("mail")]
        BY <2>3, <2>4, <2>5
      <3> QED BY <2>1, <2>5, <3>1
    <2>6. CASE r.kind \in {"register", "invite"}
      <3>1. req' = [req EXCEPT ![w] = Next1("token")]
        BY <2>3, <2>4, <2>6
      <3> QED BY <2>1, <2>6, <3>1
    <2>7. CASE r.kind \notin Links!Issues \cup {"register", "invite"}
      <3>1. req' = [req EXCEPT ![w] = Links!Idle]
        BY <2>3, <2>7
      <3> QED BY <2>2, <3>1
    <2> QED BY <2>5, <2>6, <2>7
  <1>6. req'[w] = s /\ \A v \in Workers \ {w} : req'[v] = req[v]
    BY <1>2, <1>5
  <1>7. /\ r.kind \in {"resend", "change"} => n.token = issued + 1
        /\ r.kind = "change" => n.pending = r.address
        /\ r.kind = "resend" => n.pending = NoAddress
        /\ r.kind \in {"register", "invite"} => n.pending = NoAddress
        /\ r.kind = "forgot" => n.reset = issued + 1
        /\ r.kind \in {"register", "invite", "forgot"} => n.token = r.base.token
        /\ r.kind \in Links!Issues \cup {"register", "invite"} \cup Links!Follows => r.address # NoAddress
    <2>1. r.kind \in {"resend", "forgot"} => r.address # NoAddress
      BY <1>1 DEF LinksLoaded, LinksSound
    <2>2. r.kind \in {"register", "invite", "change"} \cup Links!Follows => r.address # NoAddress
      BY <1>1 DEF LinksLoaded, Links!MailLinksAssumption
    <2>3. r.kind = "resend" => r.base.pending = NoAddress
      BY <1>1 DEF LinksLoaded, LinksSound
    <2>4. r.kind \in {"register", "invite"} => r.base.pending = NoAddress
      BY <1>1 DEF LinksLoaded, LinksSound
    <2> QED BY <1>1, <2>1, <2>2, <2>3, <2>4 DEF LinksEditOf, Links!Issues, Links!Follows
  <1>8. Links!TypeOK'
    <2>1. accounts' \in [People -> Links!Account] /\ req' \in [Workers -> LinksRequestType]
      BY <1>1, <1>2, <1>5
    <2>2. proven' \subseteq People \X (Addresses \cup {Tombstone})
      <3>1. r.kind \in Links!Follows => r.address \in Addresses \cup {Tombstone}
        BY <1>2, <1>7 DEF LinksRequestType
      <3> QED BY <1>1, <1>2, <3>1 DEF Links!TypeOK
    <2>3. crossed' \subseteq People
      BY <1>1, <1>2 DEF Links!TypeOK, Links!Crossing
    <2>4. \A q \in People : accounts'[q].there => accounts'[q].email # NoAddress
      BY <1>1, <1>2, <1>4 DEF Links!TypeOK, LinksSound
    <2> QED BY <1>1, <1>2, <2>1, <2>2, <2>3, <2>4 DEF Links!TypeOK, LinksRequestType
  <1>9. \A q \in People : LinksSound(accounts'[q]) /\ accounts'[q].token =< issued'
    <2>1. ASSUME NEW q \in People PROVE LinksSound(accounts'[q]) /\ accounts'[q].token =< issued'
      <3>1. CASE q = p
        BY <1>1, <1>4, <3>1
      <3>2. CASE q # p
        <4>1. LinksSound(accounts[q]) /\ accounts[q].token =< issued /\ accounts[q].token \in Nat
          BY <1>2 DEF LinksIInv, LinksTypes, Links!Account
        <4> QED BY <1>2, <1>4, <3>2, <4>1
      <3> QED BY <3>1, <3>2
    <2> QED BY <2>1
  <1>10. \A mail \in mails : mail.token =< issued /\ mail.token \in Nat /\ mail.token # 0
    BY <1>2 DEF LinksIInv, LinksTypes, Links!TypeOK, Links!Mails, Links!Tokens
  <1>11. ASSUME NEW v \in Workers, req'[v].step = "write"
         PROVE  (LinksLoaded(req[v]) /\ LinksSince(req[v].base, accounts[req[v].who]))'
    <2>1. v # w /\ req'[v] = req[v] /\ req[v] \in LinksRequestType
      BY <1>2, <1>5, <1>6, <1>11
    <2>2. LinksLoaded(req[v]) /\ LinksSince(req[v].base, accounts[req[v].who]) /\ req[v].base.token \in Nat
      BY <1>11, <2>1 DEF LinksIInv, LinksTypes, LinksRequestType, Links!Account
    <2>3. LinksLoaded(req[v])'
      BY <1>2, <2>1, <2>2 DEF LinksLoaded
    <2>4. CASE req[v].who = p
      <3>1. LinksSince(req[v].base, cur) /\ LinksMoved(r, cur, row)
        BY <1>1, <2>2, <2>4
      <3>2. LinksSince(req[v].base, row)
        BY <3>1 DEF LinksSince, LinksMoved
      <3> QED BY <1>4, <2>1, <2>3, <2>4, <3>2
    <2>5. CASE req[v].who # p
      <3>1. accounts'[req[v].who] = accounts[req[v].who]
        BY <1>4, <2>1, <2>5 DEF LinksRequestType
      <3> QED BY <2>1, <2>2, <2>3, <3>1
    <2> QED BY <2>4, <2>5
  <1>12. ASSUME NEW v \in Workers, req'[v].step \in {"token", "mail"}
         PROVE  LinksToSend(req[v])'
    <2>1. CASE v = w
      <3>1. r.base.token \in Nat /\ r.base.token =< issued /\ n.token \in Nat
        BY <1>1, <1>2 DEF LinksLoaded, Links!Account
      <3>2. CASE r.kind \in {"register", "invite"} /\ s.step = "token" /\ s.kind = r.kind
                 /\ s.address = r.address /\ s.base = n
        BY <1>2, <1>6, <1>7, <2>1, <3>1, <3>2 DEF LinksToSend
      <3>3. CASE r.kind \in Links!Issues /\ s.step = "mail" /\ s.kind = r.kind
                 /\ s.address = r.address /\ s.base = n
        <4>1. issued' = issued + 1
          BY <1>1, <3>3
        <4>2. r.kind \in {"resend", "change", "forgot"}
          BY <3>3 DEF Links!Issues
        <4> QED BY <1>2, <1>6, <1>7, <2>1, <3>1, <3>3, <4>1, <4>2 DEF LinksToSend
      <3> QED BY <1>5, <1>6, <1>12, <2>1, <3>2, <3>3
    <2>2. CASE v # w
      <3>1. req'[v] = req[v] /\ LinksToSend(req[v]) /\ req[v] \in LinksRequestType
        BY <1>2, <1>6, <1>12, <2>2 DEF LinksIInv, LinksTypes
      <3>2. req[v].base.token \in Nat /\ req[v].base.reset \in Nat
        BY <3>1 DEF LinksRequestType, Links!Account
      <3> QED BY <1>2, <3>1, <3>2 DEF LinksToSend
    <2> QED BY <2>1, <2>2
  <1>13. LinksTypes'
    <2>1. \A mail \in mails' : mail.token =< issued'
      BY <1>1, <1>2, <1>10
    <2> QED BY <1>8, <1>9, <1>11, <1>12, <2>1 DEF LinksTypes
  <1>14. ASSUME NEW q \in People, LinksFair(q)' PROVE LinksFair(q) /\ q \notin crossed'
    <2>1. crossed \subseteq crossed'
      BY <1>1 DEF Links!Crossing
    <2>2. ~accounts[q].deleted
      <3>1. CASE q = p
        BY <1>1, <1>4, <1>14, <3>1 DEF LinksFair, LinksMoved
      <3>2. CASE q # p
        BY <1>4, <1>14, <3>2 DEF LinksFair
      <3> QED BY <3>1, <3>2
    <2> QED BY <1>14, <2>1, <2>2 DEF LinksFair
  <1> HIDE DEF r, p, cur
  <1>15. LinksMailedInv'
    <2>1. ASSUME NEW q \in People, LinksFair(q)', NEW mail \in mails, mail.page # "reset-password",
                 mail.token = accounts'[q].token
          PROVE  accounts'[q].pending \in {NoAddress, mail.to}
      <3>1. CASE accounts'[q].pending = accounts[q].pending /\ accounts'[q].token = accounts[q].token
        BY <1>14, <2>1, <3>1 DEF LinksIInv, LinksMailedInv
      <3>2. CASE q = p /\ (row.token = 0 \/ row.deleted \/ row.token = issued + 1)
        BY <1>2, <1>4, <1>10, <2>1, <3>2 DEF LinksFair
      <3> QED BY <1>1, <1>4, <3>1, <3>2 DEF LinksMoved, cur
    <2>2. ASSUME NEW q \in People, LinksFair(q)', NEW v \in Workers, req'[v].step = "mail",
                 req'[v].kind # "forgot", req'[v].base.token = accounts'[q].token
          PROVE  accounts'[q].pending \in {NoAddress, req'[v].address}
      <3>1. CASE v # w
        <4>1. req'[v] = req[v] /\ req[v] \in LinksRequestType /\ LinksToSend(req[v])
          BY <1>2, <1>6, <2>2, <3>1 DEF LinksIInv, LinksTypes
        <4>2. req[v].base.token \in Nat /\ req[v].base.token =< issued /\ req[v].base.token # 0
          BY <2>2, <4>1 DEF LinksToSend, LinksRequestType, Links!Account
        <4>3. CASE accounts'[q].pending = accounts[q].pending /\ accounts'[q].token = accounts[q].token
          BY <1>14, <2>2, <4>1, <4>3 DEF LinksIInv, LinksMailedInv
        <4>4. CASE q = p /\ (row.token = 0 \/ row.deleted \/ row.token = issued + 1)
          BY <1>2, <1>4, <2>2, <4>1, <4>2, <4>4 DEF LinksFair
        <4> QED BY <1>1, <1>4, <4>3, <4>4 DEF LinksMoved, cur
      <3>2. CASE v = w
        <4>1. /\ r.kind \in {"resend", "change"} /\ req'[v].address = r.address
              /\ req'[v].base.token = issued + 1
          BY <1>5, <1>6, <1>7, <2>2, <3>2 DEF Links!Issues
        <4>2. q = p
          <5>1. CASE q # p
            <6>1. accounts'[q].token =< issued /\ accounts[q].token \in Nat
              BY <1>2, <1>4, <5>1 DEF LinksIInv, LinksTypes, Links!Account
            <6> QED BY <1>2, <1>4, <2>2, <4>1, <5>1, <6>1
          <5> QED BY <5>1
        <4>3. row.pending = n.pending
          BY <1>1, <1>14, <2>2, <4>1, <4>2 DEF Links!Crossing
        <4> QED BY <1>4, <1>7, <4>1, <4>2, <4>3
      <3> QED BY <3>1, <3>2
    <2>3. mails' = mails
      BY <1>1
    <2> QED BY <2>1, <2>2, <2>3 DEF LinksMailedInv
  <1>16. LinksFollowedInv'
    <2>1. ASSUME NEW v \in Workers, req'[v].step = "write", req'[v].kind = "verify", LinksFair(req[v].who)'
          PROVE  req'[v].base.pending \in {NoAddress, req'[v].address}
      <3>1. req'[v] = req[v] /\ req[v].who \in People
        BY <1>2, <1>5, <1>6, <2>1 DEF LinksRequestType
      <3>2. LinksFair(req[v].who)
        <4>1. PICK q \in People : q = req[v].who
          BY <3>1
        <4>2. LinksFair(q)'
          BY <2>1, <3>1, <4>1 DEF LinksFair
        <4> QED BY <1>14, <4>1, <4>2
      <3> QED BY <2>1, <3>1, <3>2 DEF LinksIInv, LinksFollowedInv
    <2> QED BY <2>1 DEF LinksFollowedInv
  <1>17. Links!AddressProven'
    <2>1. ASSUME NEW q \in People \ crossed', accounts'[q].verified, ~accounts'[q].deleted
          PROVE  <<q, accounts'[q].email>> \in proven'
      <3>1. LinksFair(q) /\ proven \subseteq proven'
        BY <1>1, <1>14, <2>1 DEF LinksFair
      <3>2. CASE accounts'[q].email = accounts[q].email /\ accounts[q].verified
        BY <3>1, <3>2 DEF LinksIInv, Links!AddressProven, LinksFair
      <3>3. CASE q = p /\ r.kind = "verify" /\ r.base.pending # NoAddress /\ row.email = r.base.pending
        <4>1. r.base.pending = r.address
          BY <1>1, <3>1, <3>3 DEF LinksIInv, LinksFollowedInv, r, p
        <4> QED BY <1>1, <1>4, <3>3, <4>1 DEF Links!Follows
      <3>4. CASE q = p /\ row.email = cur.email /\ ~cur.verified /\ r.kind \in Links!Follows
        <4>1. r.base.there /\ r.address \in {r.base.email, r.base.pending} \ {NoAddress} /\ LinksSound(r.base)
          BY <1>1, <3>4 DEF LinksLoaded, Links!Follows
        <4>2. ~r.base.verified /\ ~cur.deleted
          BY <1>3, <3>1, <3>4 DEF LinksSince, LinksFair, cur
        <4>3. r.address = r.base.email /\ cur.email = r.base.email
          BY <1>3, <3>4, <4>1, <4>2 DEF LinksSince, LinksSound
        <4> QED BY <1>1, <1>4, <3>4, <4>3
      <3> QED BY <1>1, <1>4, <2>1, <3>2, <3>3, <3>4 DEF LinksMoved, cur
    <2> QED BY <2>1 DEF Links!AddressProven
  <1> QED BY <1>13, <1>15, <1>16, <1>17 DEF LinksIInv

\* The second commit of a new account: only the token of the row changes.
LEMMA LinksTokenKeeps ==
  ASSUME Links!MailLinksAssumption, LinksIInv, NEW w \in Workers, Links!IssueToken(w)
  PROVE  LinksIInv'
  <1> DEFINE r == req[w]
             p == r.who
             cur == accounts[p]
             n == [r.base EXCEPT !.token = issued + 1]
             row == Links!Merge(n, r.base, cur)
             s == [r EXCEPT !.step = "mail", !.base = n]
  <1>1. /\ r.step = "token" /\ issued < MaxTokens /\ issued' = issued + 1
        /\ accounts' = [accounts EXCEPT ![p] = row]
        /\ req' = [req EXCEPT ![w] = s]
        /\ crossed' = Links!Crossing(p, row, n)
        /\ UNCHANGED <<mails, begun, proven, cut>>
    BY DEF Links!IssueToken
  <1>2. /\ Links!TypeOK /\ r \in LinksRequestType /\ p \in People /\ cur \in Links!Account /\ r.base \in Links!Account
        /\ req \in [Workers -> LinksRequestType] /\ accounts \in [People -> Links!Account]
        /\ issued \in Nat /\ issued' \in Nat /\ issued' \in 0 .. MaxTokens
    BY <1>1 DEF LinksIInv, LinksTypes, Links!TypeOK, LinksRequestType, Links!MailLinksAssumption
  <1>3. /\ LinksToSend(r) /\ r.kind \in {"register", "invite"} /\ r.base.pending = NoAddress
        /\ LinksSound(cur) /\ cur.token =< issued /\ cur.token \in Nat
    BY <1>1, <1>2 DEF LinksIInv, LinksTypes, LinksToSend, Links!Account
  <1>4. /\ r.address # NoAddress /\ r.base.token =< issued /\ r.base.token \in Nat
    BY <1>2, <1>3 DEF LinksToSend, Links!Account
  <1>5. /\ n \in Links!Account /\ n.token = issued + 1
        /\ n.there = r.base.there /\ n.email = r.base.email /\ n.pending = r.base.pending
        /\ n.verified = r.base.verified /\ n.deleted = r.base.deleted
    <2> HIDE DEF r, p, cur
    <2> QED BY <1>1, <1>2 DEF Links!Account
  <1> HIDE DEF n
  <1>6. /\ row \in Links!Account /\ row.token = issued + 1
        /\ row.there = cur.there /\ row.email = cur.email /\ row.pending = cur.pending
        /\ row.verified = cur.verified /\ row.deleted = cur.deleted
    <2>1. /\ row \in Links!Account
          /\ row.there = IF n.there # r.base.there THEN n.there ELSE cur.there
          /\ row.email = IF n.email # r.base.email THEN n.email ELSE cur.email
          /\ row.pending = IF n.pending # r.base.pending THEN n.pending ELSE cur.pending
          /\ row.verified = IF n.verified # r.base.verified THEN n.verified ELSE cur.verified
          /\ row.token = IF n.token # r.base.token THEN n.token ELSE cur.token
          /\ row.deleted = IF n.deleted # r.base.deleted THEN n.deleted ELSE cur.deleted
      BY <1>2, <1>5, LinksMergeIs
    <2> HIDE DEF row, r, p, cur
    <2>2. n.token # r.base.token
      BY <1>2, <1>4, <1>5
    <2> QED BY <1>5, <2>1, <2>2
  <1> HIDE DEF row
  <1>7. s \in LinksRequestType /\ s.step = "mail" /\ s.kind = r.kind /\ s.address = r.address /\ s.base = n
    <2> HIDE DEF r, p, cur
    <2> QED BY <1>2, <1>5 DEF LinksRequestType
  <1> HIDE DEF s
  <1>8. accounts'[p] = row /\ \A q \in People \ {p} : accounts'[q] = accounts[q]
    BY <1>1, <1>2
  <1>9. req'[w] = s /\ \A v \in Workers \ {w} : req'[v] = req[v]
    BY <1>1, <1>2
  <1>10. LinksSound(row)
    BY <1>3, <1>6 DEF LinksSound
  <1>11. Links!TypeOK'
    <2>1. accounts' \in [People -> Links!Account] /\ req' \in [Workers -> LinksRequestType]
      BY <1>1, <1>2, <1>6, <1>7
    <2>2. crossed' \subseteq People
      BY <1>1, <1>2 DEF Links!TypeOK, Links!Crossing
    <2>3. \A q \in People : accounts'[q].there => accounts'[q].email # NoAddress
      BY <1>2, <1>8, <1>10 DEF Links!TypeOK, LinksSound
    <2> QED BY <1>1, <1>2, <2>1, <2>2, <2>3 DEF Links!TypeOK, LinksRequestType
  <1>12. \A q \in People : LinksSound(accounts'[q]) /\ accounts'[q].token =< issued'
    <2>1. ASSUME NEW q \in People PROVE LinksSound(accounts'[q]) /\ accounts'[q].token =< issued'
      <3>1. CASE q = p
        BY <1>1, <1>2, <1>6, <1>8, <1>10, <3>1
      <3>2. CASE q # p
        <4>1. LinksSound(accounts[q]) /\ accounts[q].token =< issued /\ accounts[q].token \in Nat
          BY <1>2 DEF LinksIInv, LinksTypes, Links!Account
        <4> QED BY <1>1, <1>2, <1>8, <3>2, <4>1
      <3> QED BY <3>1, <3>2
    <2> QED BY <2>1
  <1>13. \A mail \in mails : mail.token =< issued /\ mail.token \in Nat
    BY <1>2 DEF LinksIInv, LinksTypes, Links!TypeOK, Links!Mails, Links!Tokens
  <1>14. ASSUME NEW v \in Workers, req'[v].step = "write"
         PROVE  (LinksLoaded(req[v]) /\ LinksSince(req[v].base, accounts[req[v].who]))'
    <2>1. v # w /\ req'[v] = req[v] /\ req[v] \in LinksRequestType
      BY <1>2, <1>7, <1>9, <1>14
    <2>2. LinksLoaded(req[v]) /\ LinksSince(req[v].base, accounts[req[v].who]) /\ req[v].base.token \in Nat
      BY <1>14, <2>1 DEF LinksIInv, LinksTypes, LinksRequestType, Links!Account
    <2>3. LinksLoaded(req[v])'
      BY <1>1, <1>2, <2>1, <2>2 DEF LinksLoaded
    <2>4. CASE req[v].who = p
      <3>1. LinksSince(req[v].base, cur)
        BY <2>2, <2>4
      <3>2. LinksSince(req[v].base, row)
        BY <1>6, <3>1 DEF LinksSince
      <3> QED BY <1>8, <2>1, <2>3, <2>4, <3>2
    <2>5. CASE req[v].who # p
      <3>1. accounts'[req[v].who] = accounts[req[v].who]
        BY <1>8, <2>1, <2>5 DEF LinksRequestType
      <3> QED BY <2>1, <2>2, <2>3, <3>1
    <2> QED BY <2>4, <2>5
  <1>15. ASSUME NEW v \in Workers, req'[v].step \in {"token", "mail"}
         PROVE  LinksToSend(req[v])'
    <2>1. CASE v = w
      BY <1>1, <1>2, <1>3, <1>4, <1>5, <1>7, <1>9, <2>1 DEF LinksToSend
    <2>2. CASE v # w
      <3>1. req'[v] = req[v] /\ LinksToSend(req[v]) /\ req[v] \in LinksRequestType
        BY <1>2, <1>9, <1>15, <2>2 DEF LinksIInv, LinksTypes
      <3>2. req[v].base.token \in Nat /\ req[v].base.reset \in Nat
        BY <3>1 DEF LinksRequestType, Links!Account
      <3> QED BY <1>1, <1>2, <3>1, <3>2 DEF LinksToSend
    <2> QED BY <2>1, <2>2
  <1>16. LinksTypes'
    <2>1. \A mail \in mails' : mail.token =< issued'
      BY <1>1, <1>2, <1>13
    <2> QED BY <1>11, <1>12, <1>14, <1>15, <2>1 DEF LinksTypes
  <1>17. ASSUME NEW q \in People, LinksFair(q)' PROVE LinksFair(q) /\ q \notin crossed'
    <2>1. crossed \subseteq crossed'
      BY <1>1 DEF Links!Crossing
    <2>2. accounts'[q].deleted = accounts[q].deleted
      BY <1>6, <1>8
    <2> QED BY <1>17, <2>1, <2>2 DEF LinksFair
  <1> HIDE DEF r, p, cur
  <1>18. LinksMailedInv'
    <2>1. ASSUME NEW q \in People, LinksFair(q)', NEW mail \in mails, mail.page # "reset-password",
                 mail.token = accounts'[q].token
          PROVE  accounts'[q].pending \in {NoAddress, mail.to}
      <3>1. q # p
        BY <1>2, <1>6, <1>8, <1>13, <2>1
      <3> QED BY <1>8, <1>17, <2>1, <3>1 DEF LinksIInv, LinksMailedInv
    <2>2. ASSUME NEW q \in People, LinksFair(q)', NEW v \in Workers, req'[v].step = "mail",
                 req'[v].kind # "forgot", req'[v].base.token = accounts'[q].token
          PROVE  accounts'[q].pending \in {NoAddress, req'[v].address}
      <3>1. CASE v # w
        <4>1. req'[v] = req[v] /\ req[v] \in LinksRequestType /\ LinksToSend(req[v])
          BY <1>2, <1>9, <2>2, <3>1 DEF LinksIInv, LinksTypes
        <4>2. req[v].base.token \in Nat /\ req[v].base.token =< issued
          BY <4>1 DEF LinksToSend, LinksRequestType, Links!Account
        <4>3. q # p
          BY <1>2, <1>6, <1>8, <2>2, <4>1, <4>2
        <4> QED BY <1>8, <1>17, <2>2, <4>1, <4>3 DEF LinksIInv, LinksMailedInv
      <3>2. CASE v = w
        <4>1. req'[v].base.token = issued + 1
          BY <1>5, <1>7, <1>9, <3>2
        <4>2. q = p
          <5>1. CASE q # p
            <6>1. accounts'[q].token =< issued /\ accounts[q].token \in Nat
              BY <1>2, <1>8, <5>1 DEF LinksIInv, LinksTypes, Links!Account
            <6> QED BY <1>2, <1>8, <2>2, <4>1, <5>1, <6>1
          <5> QED BY <5>1
        <4>3. row.pending = n.pending
          BY <1>1, <1>17, <2>2, <4>2 DEF Links!Crossing
        <4> QED BY <1>3, <1>5, <1>8, <4>2, <4>3
      <3> QED BY <3>1, <3>2
    <2>3. mails' = mails
      BY <1>1
    <2> QED BY <2>1, <2>2, <2>3 DEF LinksMailedInv
  <1>19. LinksFollowedInv'
    <2>1. ASSUME NEW v \in Workers, req'[v].step = "write", req'[v].kind = "verify", LinksFair(req[v].who)'
          PROVE  req'[v].base.pending \in {NoAddress, req'[v].address}
      <3>1. req'[v] = req[v] /\ req[v].who \in People
        BY <1>2, <1>7, <1>9, <2>1 DEF LinksRequestType
      <3>2. LinksFair(req[v].who)
        <4>1. PICK q \in People : q = req[v].who
          BY <3>1
        <4>2. LinksFair(q)'
          BY <2>1, <3>1, <4>1 DEF LinksFair
        <4> QED BY <1>17, <4>1, <4>2
      <3> QED BY <2>1, <3>1, <3>2 DEF LinksIInv, LinksFollowedInv
    <2> QED BY <2>1 DEF LinksFollowedInv
  <1>20. Links!AddressProven'
    <2>1. ASSUME NEW q \in People \ crossed', accounts'[q].verified, ~accounts'[q].deleted
          PROVE  <<q, accounts'[q].email>> \in proven'
      <3>1. LinksFair(q)
        BY <1>17, <2>1 DEF LinksFair
      <3>2. accounts'[q].email = accounts[q].email /\ accounts[q].verified
        BY <1>6, <1>8, <2>1 DEF cur
      <3> QED BY <1>1, <3>1, <3>2 DEF LinksIInv, Links!AddressProven, LinksFair
    <2> QED BY <2>1 DEF Links!AddressProven
  <1> QED BY <1>16, <1>18, <1>19, <1>20 DEF LinksIInv

\* A request that is over leaves what the others do as it is.
LEMMA LinksEnds ==
  ASSUME Links!MailLinksAssumption, LinksIInv, NEW w \in Workers, req' = [req EXCEPT ![w] = Links!Idle],
         mails' \subseteq Links!Mails, cut' \subseteq People,
         \A mail \in mails' :
           \/ mail \in mails
           \/ /\ mail.token =< issued
              /\ mail.page # "reset-password" =>
                   /\ req[w].step = "mail" /\ req[w].kind # "forgot"
                   /\ req[w].base.token = mail.token /\ req[w].address = mail.to,
         UNCHANGED <<accounts, issued, begun, proven, crossed>>
  PROVE  LinksIInv'
  <1>1. Links!TypeOK /\ req \in [Workers -> LinksRequestType]
    BY DEF LinksIInv, LinksTypes, Links!TypeOK, LinksRequestType
  <1>2. Links!Idle \in LinksRequestType /\ Links!Idle.step = "idle"
    <2>1. 0 \in 0 .. MaxTokens
      BY DEF Links!MailLinksAssumption
    <2>2. Links!NoAccount \in Links!Account
      BY <2>1 DEF Links!NoAccount, Links!Account
    <2>3. Links!APerson \in People
      <3>1. req[w].who \in People
        BY <1>1 DEF LinksRequestType
      <3> QED BY <3>1 DEF Links!APerson
    <2> QED BY <2>2, <2>3 DEF Links!Idle, LinksRequestType, Links!Kinds
  <1>3. req'[w] = Links!Idle /\ \A v \in Workers \ {w} : req'[v] = req[v]
    BY <1>1
  <1>4. Links!TypeOK'
    <2>1. req' \in [Workers -> LinksRequestType]
      BY <1>1, <1>2
    <2> QED BY <1>1, <2>1 DEF Links!TypeOK, LinksRequestType
  <1>5. LinksTypes'
    <2>1. \A mail \in mails' : mail.token =< issued'
      BY DEF LinksIInv, LinksTypes
    <2>2. ASSUME NEW v \in Workers, req'[v].step \in {"write", "token", "mail"} PROVE req'[v] = req[v]
      BY <1>2, <1>3, <2>2
    <2> QED BY <1>4, <2>1, <2>2 DEF LinksIInv, LinksTypes, LinksLoaded, LinksToSend, LinksSound
  <1>6. LinksMailedInv'
    <2>1. ASSUME NEW p \in People, LinksFair(p)', NEW mail \in mails', mail.page # "reset-password",
                 mail.token = accounts[p].token
          PROVE  accounts[p].pending \in {NoAddress, mail.to}
      <3>1. LinksFair(p)
        BY <2>1 DEF LinksFair
      <3> QED BY <2>1, <3>1 DEF LinksIInv, LinksMailedInv
    <2>2. ASSUME NEW p \in People, LinksFair(p)', NEW v \in Workers, req'[v].step = "mail",
                 req'[v].kind # "forgot", req'[v].base.token = accounts[p].token
          PROVE  accounts[p].pending \in {NoAddress, req'[v].address}
      <3>1. LinksFair(p) /\ req'[v] = req[v]
        BY <1>2, <1>3, <2>2 DEF LinksFair
      <3> QED BY <2>2, <3>1 DEF LinksIInv, LinksMailedInv
    <2> QED BY <2>1, <2>2 DEF LinksMailedInv
  <1>7. LinksFollowedInv'
    <2>1. ASSUME NEW v \in Workers, req'[v].step = "write" PROVE req'[v] = req[v]
      BY <1>2, <1>3, <2>1
    <2> QED BY <2>1 DEF LinksIInv, LinksFollowedInv, LinksFair
  <1>8. Links!AddressProven'
    BY DEF LinksIInv, Links!AddressProven
  <1> QED BY <1>5, <1>6, <1>7, <1>8 DEF LinksIInv

\* A mail that is handed over carries the token of its request.
LEMMA LinksSendKeeps ==
  ASSUME Links!MailLinksAssumption, LinksIInv, NEW w \in Workers, Links!Send(w)
  PROVE  LinksIInv'
  <1> DEFINE r == req[w]
  <1>1. /\ r.step = "mail" /\ req' = [req EXCEPT ![w] = Links!Idle]
        /\ mails' = mails \cup {Links!Mail(r)} \/ mails' = mails
        /\ UNCHANGED <<accounts, issued, begun, proven, cut, crossed>>
    BY DEF Links!Send
  <1>2. Links!TypeOK /\ r \in LinksRequestType /\ issued \in Nat /\ issued \in 0 .. MaxTokens /\ MaxTokens \in Nat
    BY DEF LinksIInv, LinksTypes, Links!TypeOK, LinksRequestType, Links!MailLinksAssumption
  <1>3. LinksToSend(r) /\ r.base.token \in Nat /\ r.base.reset \in Nat
    BY <1>1, <1>2 DEF LinksIInv, LinksTypes, LinksRequestType, Links!Account
  <1> HIDE DEF r
  <1>4. /\ Links!Mail(r).to = r.address
        /\ Links!Mail(r).token = IF r.kind = "forgot" THEN r.base.reset ELSE r.base.token
        /\ Links!Mail(r).page = "reset-password" <=> r.kind = "forgot"
        /\ Links!Mail(r).page \in {"verify-email", "accept-invite", "reset-password"}
    BY DEF Links!Mail
  <1>5. Links!Mail(r).token \in 1 .. issued
    BY <1>1, <1>2, <1>3, <1>4 DEF LinksToSend
  <1>6. Links!Mail(r) \in Links!Mails
    <2>1. r.address \in Addresses \cup {Tombstone}
      BY <1>2, <1>3 DEF LinksToSend, LinksRequestType
    <2>2. Links!Mail(r).token \in Links!Tokens \ {0}
      BY <1>2, <1>5 DEF Links!Tokens
    <2> QED BY <1>4, <2>1, <2>2 DEF Links!Mail, Links!Mails
  <1>7. mails' \subseteq Links!Mails /\ cut' \subseteq People
    BY <1>1, <1>2, <1>6 DEF Links!TypeOK
  <1>8. Links!Mail(r).token =< issued
    BY <1>2, <1>5
  <1>9. \A mail \in mails' :
          \/ mail \in mails
          \/ /\ mail.token =< issued
             /\ mail.page # "reset-password" =>
                  /\ req[w].step = "mail" /\ req[w].kind # "forgot"
                  /\ req[w].base.token = mail.token /\ req[w].address = mail.to
    <2>1. ASSUME NEW mail \in mails', mail \notin mails PROVE mail = Links!Mail(r)
      BY <1>1, <2>1
    <2>2. Links!Mail(r).page # "reset-password" =>
            r.step = "mail" /\ r.kind # "forgot" /\ r.base.token = Links!Mail(r).token /\ r.address = Links!Mail(r).to
      BY <1>1, <1>4
    <2> QED BY <1>8, <2>1, <2>2 DEF r
  <1>10. req' = [req EXCEPT ![w] = Links!Idle] /\ UNCHANGED <<accounts, issued, begun, proven, crossed>>
    BY <1>1
  <1> QED BY <1>7, <1>9, <1>10, LinksEnds

\* A request that gives up leaves rows and mails alone.
LEMMA LinksGiveUpKeeps ==
  ASSUME Links!MailLinksAssumption, LinksIInv, NEW w \in Workers, Links!GiveUp(w)
  PROVE  LinksIInv'
  <1>1. /\ req' = [req EXCEPT ![w] = Links!Idle]
        /\ cut' = cut \/ cut' = cut \cup {req[w].who}
        /\ UNCHANGED <<accounts, mails, issued, begun, proven, crossed>>
    BY DEF Links!GiveUp
  <1>2. Links!TypeOK /\ req \in [Workers -> LinksRequestType]
    BY DEF LinksIInv, LinksTypes, Links!TypeOK, LinksRequestType
  <1>3. mails' \subseteq Links!Mails /\ cut' \subseteq People
    BY <1>1, <1>2 DEF Links!TypeOK, LinksRequestType
  <1>4. \A mail \in mails' : mail \in mails
    BY <1>1
  <1>5. req' = [req EXCEPT ![w] = Links!Idle] /\ UNCHANGED <<accounts, issued, begun, proven, crossed>>
    BY <1>1
  <1> QED BY <1>3, <1>4, <1>5, LinksEnds

-----------------------------------------------------------------------------
(* MailLinks: the invariant holds.                                         *)

\* Every initial state satisfies the invariant.
LEMMA LinksInvInit ==
  ASSUME Links!MailLinksAssumption, Links!Init
  PROVE  LinksIInv
  <1>1. Links!NoAccount \in Links!Account /\ LinksSound(Links!NoAccount) /\ ~Links!NoAccount.there /\ ~Links!NoAccount.verified /\ Links!NoAccount.token = 0
    <2>1. 0 \in 0 .. MaxTokens
      BY DEF Links!MailLinksAssumption
    <2> QED BY <2>1 DEF Links!NoAccount, Links!Account, LinksSound
  <1>2. ASSUME NEW w \in Workers PROVE Links!Idle \in LinksRequestType
    <2>1. Links!APerson \in People
      BY DEF Links!MailLinksAssumption, Links!APerson
    <2> QED BY <1>1, <2>1 DEF Links!Idle, LinksRequestType, Links!Kinds
  <1>3. Links!Idle.step = "idle"
    BY DEF Links!Idle
  <1>4. \A p \in People : accounts[p] = Links!NoAccount
    BY DEF Links!Init
  <1>5. \A w \in Workers : req[w] = Links!Idle
    BY DEF Links!Init
  <1>6. Links!TypeOK
    <2>1. 0 \in 0 .. MaxTokens /\ 0 \in 0 .. MaxRequests
      BY DEF Links!MailLinksAssumption
    <2>2. req \in [Workers -> LinksRequestType]
      BY <1>2 DEF Links!Init
    <2> QED BY <1>1, <2>1, <2>2 DEF Links!Init, Links!TypeOK, LinksRequestType
  <1>7. LinksTypes
    BY <1>1, <1>3, <1>4, <1>5, <1>6 DEF LinksTypes, Links!Init
  <1> QED BY <1>1, <1>3, <1>4, <1>5, <1>7 DEF Links!Init, LinksIInv, LinksMailedInv, LinksFollowedInv, Links!AddressProven

\* Every step preserves it.
LEMMA LinksInvStep ==
  ASSUME Links!MailLinksAssumption, LinksIInv, [Links!Next]_(Links!vars)
  PROVE  LinksIInv'
  <1>1. CASE UNCHANGED Links!vars
    BY <1>1 DEF Links!vars, LinksIInv, LinksTypes, Links!TypeOK, LinksLoaded, LinksSound, LinksSince, LinksToSend, LinksMailedInv, LinksFollowedInv, LinksFair,
                Links!AddressProven
  <1>2. ASSUME NEW w \in Workers, NEW p \in People, Links!Ask(w, p) PROVE LinksIInv'
    BY <1>2, LinksAskKeeps
  <1>3. ASSUME NEW w \in Workers, NEW p \in People, Links!Follow(w, p) PROVE LinksIInv'
    BY <1>3, LinksFollowKeeps
  <1>4. ASSUME NEW w \in Workers, Links!Write(w) PROVE LinksIInv'
    BY <1>4, LinksWriteKeeps
  <1>5. ASSUME NEW w \in Workers, Links!IssueToken(w) PROVE LinksIInv'
    BY <1>5, LinksTokenKeeps
  <1>6. ASSUME NEW w \in Workers, Links!Send(w) PROVE LinksIInv'
    BY <1>6, LinksSendKeeps
  <1>7. ASSUME NEW w \in Workers, Links!GiveUp(w) PROVE LinksIInv'
    BY <1>7, LinksGiveUpKeeps
  <1> QED BY <1>1, <1>2, <1>3, <1>4, <1>5, <1>6, <1>7 DEF Links!Next

-----------------------------------------------------------------------------
(* MailLinks: invitations that stand.                                      *)

\* People whose invitation nothing in the program but its own link replaces.
LinksKept(p) == p \notin AskAgain /\ p \notin cut

\* A person who was invited and has not used the invitation, for a password or otherwise.
LinksWaits(row) == row.there /\ ~row.deleted /\ ~row.password /\ ~row.verified

\* The worker that is about to give a new account its token.
LinksTokenDue(w, p) == req[w].step = "token" /\ req[w].who = p

\* A row that is not there is blank; one that has a password keeps it, or is erased.
LinksPasswordInv ==
  /\ \A p \in People : ~accounts[p].there => accounts[p] = Links!NoAccount
  /\ \A w \in Workers : LET r == req[w] row == accounts[req[w].who] IN
       /\ r.step = "write" =>
            /\ ~r.base.there => r.base = Links!NoAccount
            /\ r.base.password => row.password \/ row.deleted
            /\ r.kind = "forgot" => r.base.password
            /\ r.kind = "resend" => r.who \in AskAgain
       /\ r.step = "token" =>
            /\ row.there
            /\ r.kind = "register" => row.password \/ row.deleted
       /\ r.step = "token" => ~r.base.verified /\ ~r.base.deleted /\ r.base.token = 0
            /\ (r.base.password <=> r.kind = "register")

\* A token is due for one new account at a time, and until then the row has none;
\* from then on every mail with it, sent or about to be, is the invitation.
LinksInviteInv ==
  /\ \A v, w \in Workers : req[v].step = "token" /\ req[w].step = "token" /\ req[v].who = req[w].who => v = w
  /\ \A p \in People : LinksKept(p) /\ LinksWaits(accounts[p]) =>
       \/ accounts[p].token = 0 /\ \E w \in Workers : LinksTokenDue(w, p)
       \/ /\ accounts[p].token # 0 /\ \A w \in Workers : ~LinksTokenDue(w, p)
          /\ \A mail \in mails : mail.token = accounts[p].token => mail.page = "accept-invite"
          /\ \A w \in Workers : req[w].step = "mail" /\ Links!Mail(req[w]).token = accounts[p].token
                                  => req[w].kind = "invite"

LinksStandInv == LinksPasswordInv /\ LinksInviteInv

\* The password that an edit leaves.
LEMMA LinksPasswordIs ==
  ASSUME NEW k \in Links!Kinds \ {"none"}, NEW b \in Links!Account, NEW a
  PROVE  /\ k \in {"register", "accept", "reset"} => Links!Edited(k, b, a).password
         /\ k \in {"invite", "resend", "change", "verify", "forgot"} => (Links!Edited(k, b, a).password <=> b.password)
  <1>1. CASE k = "verify"
    <2>1. Links!Verified(b).password = b.password
      BY DEF Links!Verified, Links!Account
    <2> QED BY <1>1, <2>1 DEF Links!Edited
  <1>2. CASE k = "register"
    BY <1>2 DEF Links!Edited, Links!Account
  <1>3. CASE k = "invite"
    BY <1>3 DEF Links!Edited, Links!Account
  <1>4. CASE k = "resend"
    BY <1>4 DEF Links!Edited, Links!Account
  <1>5. CASE k = "change"
    BY <1>5 DEF Links!Edited, Links!Account
  <1>6. CASE k = "accept"
    BY <1>6 DEF Links!Edited, Links!Account
  <1>7. CASE k = "forgot"
    BY <1>7 DEF Links!Edited, Links!Account
  <1>8. CASE k = "reset"
    BY <1>8 DEF Links!Edited, Links!Account
  <1>9. CASE k = "erase"
    BY <1>9 DEF Links!Edited, Links!Account
  <1> QED BY <1>1, <1>2, <1>3, <1>4, <1>5, <1>6, <1>7, <1>8, <1>9 DEF Links!Kinds

\* The password that a merge leaves.
LEMMA LinksMergedPassword ==
  ASSUME NEW n \in Links!Account, NEW b \in Links!Account, NEW c \in Links!Account
  PROVE  Links!Merge(n, b, c).password \in BOOLEAN /\ (Links!Merge(n, b, c).password <=> IF n.password # b.password THEN n.password ELSE c.password)
  BY DEF Links!Merge, Links!Account

\* A merged row loses no password, and waits for an invitation only where one was
\* just sent or where its request leaves the password alone.
LEMMA LinksRowWaits ==
  ASSUME Links!MailLinksAssumption, issued \in 0 .. MaxTokens, NEW r \in LinksRequestType, NEW cur \in Links!Account,
         NEW n \in Links!Account, LinksLoaded(r), LinksSince(r.base, cur), LinksEditOf(r.kind, r.base, r.address, n),
         r.kind \in {"register", "accept", "reset"} => n.password,
         r.kind \in {"resend", "change", "verify", "forgot"} => (n.password <=> r.base.password),
         r.base.password => cur.password \/ cur.deleted,
         ~cur.there => cur = Links!NoAccount,
         ~r.base.there => r.base = Links!NoAccount,
         r.kind \in {"register", "invite"} => ~cur.there
  PROVE  LET row == Links!Merge(n, r.base, cur) IN
         /\ row.there
         /\ cur.password \/ cur.deleted => row.password \/ row.deleted
         /\ r.kind = "register" => row.password
         /\ r.kind = "invite" => row.token = 0 /\ ~row.verified
         /\ LinksWaits(row) => \/ r.kind = "invite"
                               \/ LinksWaits(cur) /\ r.kind \in {"resend", "change", "forgot"}
  <1> DEFINE b == r.base
             row == Links!Merge(n, b, cur)
  <1>0. b \in Links!Account /\ r.kind \in Links!Kinds \ {"none"}
    BY DEF LinksRequestType, LinksLoaded
  <1>1. /\ row.there = IF n.there # b.there THEN n.there ELSE cur.there
        /\ row.verified = IF n.verified # b.verified THEN n.verified ELSE cur.verified
        /\ row.token = IF n.token # b.token THEN n.token ELSE cur.token
        /\ row.deleted = IF n.deleted # b.deleted THEN n.deleted ELSE cur.deleted
    BY <1>0, LinksMergeIs
  <1>6. row.password <=> IF n.password # b.password THEN n.password ELSE cur.password
    BY <1>0, LinksMergedPassword
  <1>2. /\ row \in Links!Account
        /\ n.there \in BOOLEAN /\ b.there \in BOOLEAN /\ cur.there \in BOOLEAN /\ row.there \in BOOLEAN
        /\ n.verified \in BOOLEAN /\ b.verified \in BOOLEAN /\ cur.verified \in BOOLEAN
        /\ n.deleted \in BOOLEAN /\ b.deleted \in BOOLEAN /\ cur.deleted \in BOOLEAN /\ row.deleted \in BOOLEAN
        /\ n.password \in BOOLEAN /\ b.password \in BOOLEAN /\ cur.password \in BOOLEAN /\ row.password \in BOOLEAN
    <2>1. row \in Links!Account
      BY <1>0, LinksMergeIs
    <2> QED BY <1>0, <2>1 DEF Links!Account
  <1>3. /\ ~Links!NoAccount.there /\ ~Links!NoAccount.password /\ ~Links!NoAccount.deleted
        /\ ~Links!NoAccount.verified /\ Links!NoAccount.token = 0
    BY DEF Links!NoAccount
  <1> HIDE DEF row, b
  <1>4. CASE r.kind \in {"register", "invite"}
    <2>1. b = Links!NoAccount /\ cur = Links!NoAccount
      BY <1>4 DEF LinksLoaded, b
    <2>2. n.there /\ n.verified = b.verified /\ n.token = b.token /\ n.deleted = b.deleted
      BY <1>4 DEF LinksEditOf, Links!Follows, b
    <2>3. r.kind = "register" => n.password
      OBVIOUS
    <2>4. row.there /\ ~row.verified /\ row.token = 0 /\ (r.kind = "register" => row.password)
      BY <1>1, <1>6, <1>2, <1>3, <2>1, <2>2, <2>3
    <2> QED BY <1>2, <1>3, <1>4, <2>1, <2>4 DEF LinksWaits, row, b
  <1>5. CASE r.kind \notin {"register", "invite"}
    <2>1. b.there /\ cur.there /\ n.there = b.there
      BY <1>5 DEF LinksLoaded, LinksSince, LinksEditOf, b
    <2>2. row.there
      BY <1>1, <2>1
    <2>3. (r.kind # "erase" => n.deleted = b.deleted) /\ (r.kind = "erase" => n.deleted /\ ~b.deleted)
      BY DEF LinksEditOf, LinksLoaded, b
    <2>4. (b.deleted => cur.deleted) /\ (cur.deleted => row.deleted)
      BY <1>1, <1>2, <2>3 DEF LinksSince, b
    <2>5. CASE r.kind = "erase"
      <3>1. row.deleted
        BY <1>1, <1>2, <2>3, <2>5
      <3> QED BY <2>2, <2>5, <3>1 DEF LinksWaits, row, b
    <2>6. CASE r.kind \in {"accept", "reset"}
      <3>1. n.password
        BY <2>6
      <3>2. row.password \/ row.deleted
        BY <1>6, <1>2, <2>4, <3>1 DEF b
      <3> QED BY <2>2, <2>6, <3>2 DEF LinksWaits, row, b
    <2>7. CASE r.kind \in {"resend", "change", "forgot"}
      <3>1. (n.password <=> b.password) /\ n.verified = b.verified
        BY <2>7 DEF LinksEditOf, Links!Follows, b
      <3>2. (row.password <=> cur.password) /\ (row.deleted <=> cur.deleted) /\ (row.verified <=> cur.verified)
        BY <1>1, <1>2, <1>6, <2>3, <2>7, <3>1
      <3> QED BY <2>1, <2>2, <2>7, <3>2 DEF LinksWaits, row, b
    <2>8. CASE r.kind = "verify"
      <3>1. (n.password <=> b.password) /\ n.verified
        BY <2>8 DEF LinksEditOf, Links!Follows, b
      <3>2. (row.password <=> cur.password) /\ (row.deleted <=> cur.deleted)
        BY <1>1, <1>2, <1>6, <2>3, <2>8, <3>1
      <3>3. b.verified => cur.verified
        BY DEF LinksSince, b
      <3>4. row.verified
        BY <1>1, <1>2, <3>1, <3>3
      <3> QED BY <2>2, <2>8, <3>2, <3>4 DEF LinksWaits, row, b
    <2> QED BY <1>0, <1>5, <2>5, <2>6, <2>7, <2>8 DEF Links!Kinds
  <1> QED BY <1>4, <1>5

\* What the types say of the rows and the requests.
LEMMA LinksStandTypes ==
  ASSUME Links!MailLinksAssumption, LinksIInv
  PROVE  /\ Links!TypeOK /\ issued \in Nat /\ issued \in 0 .. MaxTokens
         /\ req \in [Workers -> LinksRequestType] /\ accounts \in [People -> Links!Account]
         /\ \A p \in People : accounts[p].token \in Nat /\ accounts[p].token =< issued
         /\ \A mail \in mails : mail.token \in Nat /\ mail.token # 0 /\ mail.token =< issued
         /\ \A w \in Workers : req[w].who \in People /\ req[w].base \in Links!Account
         /\ \A w \in Workers : req[w].step = "mail" =>
              Links!Mail(req[w]).token \in Nat /\ Links!Mail(req[w]).token =< issued
         /\ Links!Idle \in LinksRequestType /\ Links!Idle.step = "idle"
  <1>1. Links!TypeOK /\ MaxTokens \in Nat /\ req \in [Workers -> LinksRequestType]
    BY DEF LinksIInv, LinksTypes, Links!TypeOK, LinksRequestType, Links!MailLinksAssumption
  <1>2. issued \in Nat /\ issued \in 0 .. MaxTokens /\ accounts \in [People -> Links!Account]
    BY <1>1 DEF Links!TypeOK
  <1>3. \A p \in People : accounts[p].token \in Nat /\ accounts[p].token =< issued
    BY <1>1, <1>2 DEF LinksIInv, LinksTypes, Links!Account
  <1>4. \A mail \in mails : mail.token \in Nat /\ mail.token # 0 /\ mail.token =< issued
    BY <1>1 DEF LinksIInv, LinksTypes, Links!TypeOK, Links!Mails, Links!Tokens
  <1>5. \A w \in Workers : req[w].who \in People /\ req[w].base \in Links!Account
    BY <1>1 DEF LinksRequestType
  <1>6. ASSUME NEW w \in Workers, req[w].step = "mail"
        PROVE  Links!Mail(req[w]).token \in Nat /\ Links!Mail(req[w]).token =< issued
    <2>1. LinksToSend(req[w])
      BY <1>6 DEF LinksIInv, LinksTypes
    <2>2. req[w].base.token \in Nat
      BY <1>1, <1>5 DEF Links!Account
    <2> QED BY <1>2, <1>6, <2>1, <2>2 DEF LinksToSend, Links!Mail
  <1>7. Links!Idle \in LinksRequestType /\ Links!Idle.step = "idle"
    <2>1. 0 \in 0 .. MaxTokens
      BY <1>1
    <2>2. Links!NoAccount \in Links!Account
      BY <2>1 DEF Links!NoAccount, Links!Account
    <2>3. Links!APerson \in People
      BY DEF Links!APerson, Links!MailLinksAssumption
    <2> QED BY <2>2, <2>3 DEF Links!Idle, LinksRequestType, Links!Kinds
  <1> QED BY <1>1, <1>2, <1>3, <1>4, <1>5, <1>6, <1>7

\* A request that loads a row.
LEMMA LinksStartStands ==
  ASSUME Links!MailLinksAssumption, LinksIInv, LinksStandInv, NEW w \in Workers, NEW kind, NEW p \in People, NEW a,
         Links!Start(w, kind, p, a),
         kind = "forgot" => accounts[p].password,
         kind = "resend" => p \in AskAgain
  PROVE  LinksStandInv'
  <1> DEFINE r == [kind |-> kind, step |-> "write", who |-> p, base |-> accounts[p], address |-> a]
  <1>1. UNCHANGED <<accounts, mails, issued, cut>> /\ req' = [req EXCEPT ![w] = r] /\ req[w] = Links!Idle
    BY DEF Links!Start
  <1>2. r.step = "write" /\ r.kind = kind /\ r.who = p /\ r.base = accounts[p]
    OBVIOUS
  <1> HIDE DEF r
  <1>3. req'[w] = r /\ \A v \in Workers \ {w} : req'[v] = req[v]
    BY <1>1, LinksStandTypes
  <1>4. req[w].step = "idle"
    BY <1>1, LinksStandTypes
  <1>5. LinksPasswordInv'
    BY <1>1, <1>2, <1>3 DEF LinksStandInv, LinksPasswordInv
  <1>7. LinksInviteInv'
    <2>1. \A v \in Workers : req'[v].step = "token" => v # w /\ req'[v] = req[v]
      BY <1>2, <1>3
    <2>2. \A v \in Workers : req'[v].step = "mail" => v # w /\ req'[v] = req[v]
      BY <1>2, <1>3
    <2>3. \A v \in Workers, q \in People : LinksTokenDue(v, q)' <=> LinksTokenDue(v, q)
      BY <1>2, <1>3, <1>4 DEF LinksTokenDue
    <2>4. \A q \in People : LinksKept(q)' = LinksKept(q) /\ LinksWaits(accounts[q])' = LinksWaits(accounts[q])
      BY <1>1 DEF LinksKept, LinksWaits
    <2>5. \A v, u \in Workers : req'[v].step = "token" /\ req'[u].step = "token" /\ req'[v].who = req'[u].who => v = u
      BY <2>1 DEF LinksStandInv, LinksInviteInv
    <2>6. ASSUME NEW q \in People, LinksKept(q), LinksWaits(accounts[q])
          PROVE  \/ accounts'[q].token = 0 /\ \E v \in Workers : LinksTokenDue(v, q)'
                 \/ /\ accounts'[q].token # 0 /\ \A v \in Workers : ~LinksTokenDue(v, q)'
                    /\ \A mail \in mails' : mail.token = accounts'[q].token => mail.page = "accept-invite"
                    /\ \A v \in Workers : req'[v].step = "mail" /\ Links!Mail(req'[v]).token = accounts'[q].token
                                            => req'[v].kind = "invite"
      <3>1. UNCHANGED <<accounts, mails>>
        BY <1>1
      <3> QED BY <2>2, <2>3, <2>6, <3>1 DEF LinksStandInv, LinksInviteInv
    <2> QED BY <2>4, <2>5, <2>6 DEF LinksInviteInv
  <1> QED BY <1>5, <1>7 DEF LinksStandInv

\* A commit.
LEMMA LinksWriteStands ==
  ASSUME Links!MailLinksAssumption, LinksIInv, LinksStandInv, NEW w \in Workers, Links!Write(w)
  PROVE  LinksStandInv'
  <1> DEFINE r == req[w]
             p == r.who
             cur == accounts[p]
             n == Links!Edited(r.kind, r.base, r.address)
             row == Links!Merge(n, r.base, cur)
             s == CASE r.kind \in Links!Issues               -> [r EXCEPT !.step = "mail", !.base = n]
                    [] r.kind \in {"register", "invite"} -> [r EXCEPT !.step = "token", !.base = n]
                    [] OTHER                           -> Links!Idle
  <1>1. /\ r.step = "write"
        /\ r.kind \in Links!Issues => issued < MaxTokens
        /\ r.kind \in {"register", "invite"} => ~cur.there
        /\ accounts' = [accounts EXCEPT ![p] = row] /\ req' = [req EXCEPT ![w] = s]
        /\ UNCHANGED <<mails, cut>>
    BY DEF Links!Write
  <1>2. /\ r \in LinksRequestType /\ p \in People /\ cur \in Links!Account /\ r.base \in Links!Account
        /\ r.kind \in Links!Kinds \ {"none"} /\ issued \in 0 .. MaxTokens /\ issued \in Nat
        /\ LinksLoaded(r) /\ LinksSince(r.base, cur) /\ LinksSound(cur)
    BY <1>1, LinksStandTypes DEF LinksIInv, LinksTypes, LinksLoaded, LinksRequestType
  <1>3. n \in Links!Account /\ LinksEditOf(r.kind, r.base, r.address, n)
    <2>1. r.kind \in {"register", "invite", "change"} => r.address \in Addresses
      BY <1>2 DEF LinksLoaded
    <2> QED BY <1>1, <1>2, <2>1, LinksEditedIs
  <1>4. /\ r.kind \in {"register", "accept", "reset"} => n.password
        /\ r.kind \in {"resend", "change", "verify", "forgot"} => (n.password <=> r.base.password)
        /\ r.kind = "invite" => (n.password <=> r.base.password)
    BY <1>2, LinksPasswordIs
  <1>5. /\ r.base.password => cur.password \/ cur.deleted
        /\ ~cur.there => cur = Links!NoAccount
        /\ ~r.base.there => r.base = Links!NoAccount
        /\ r.kind = "forgot" => r.base.password
        /\ r.kind = "resend" => p \in AskAgain
    BY <1>1, <1>2 DEF LinksStandInv, LinksPasswordInv
  <1> HIDE DEF n
  <1>6. /\ row.there
        /\ cur.password \/ cur.deleted => row.password \/ row.deleted
        /\ r.kind = "register" => row.password
        /\ r.kind = "invite" => row.token = 0 /\ ~row.verified
        /\ LinksWaits(row) => \/ r.kind = "invite"
                              \/ LinksWaits(cur) /\ r.kind \in {"resend", "change", "forgot"}
    BY <1>1, <1>2, <1>3, <1>4, <1>5, LinksRowWaits
  <1> HIDE DEF row
  <1>7. /\ s.step = "mail" => s.kind = r.kind /\ r.kind \in Links!Issues /\ Links!Mail(s).token = issued + 1
        /\ s.step = "token" => /\ s.kind = r.kind /\ r.kind \in {"register", "invite"} /\ s.who = p
                               /\ s.base = n
        /\ r.kind \in {"register", "invite"} => s.step = "token" /\ s.who = p
        /\ s.step \in {"mail", "token", "idle"}
    <2>1. ASSUME NEW k \in {"mail", "token"}
          PROVE  LET e == [r EXCEPT !.step = k, !.base = n] IN
                 e.step = k /\ e.kind = r.kind /\ e.who = p /\ e.base = n
      <3>1. r \in LinksRequestType
        BY <1>2
      <3> HIDE DEF r
      <3> QED BY <3>1 DEF LinksRequestType, p
    <2>2. CASE r.kind \in Links!Issues
      <3> DEFINE e == [r EXCEPT !.step = "mail", !.base = n]
      <3>1. s = e
        BY <2>2 DEF Links!Issues
      <3>2. e.step = "mail" /\ e.kind = r.kind /\ e.base = n
        BY <2>1
      <3>3. (r.kind = "forgot" => n.reset = issued + 1) /\ (r.kind # "forgot" => n.token = issued + 1)
        <4>1. CASE r.kind = "forgot"
          BY <1>3, <4>1 DEF LinksEditOf
        <4>2. CASE r.kind \in {"resend", "change"}
          <5>1. n.token = issued + 1
            BY <1>3, <4>2 DEF LinksEditOf, Links!Follows
          <5> QED BY <4>2, <5>1
        <4> QED BY <2>2, <4>1, <4>2 DEF Links!Issues
      <3> HIDE DEF e
      <3>4. Links!Mail(e).token = issued + 1
        BY <3>2, <3>3 DEF Links!Mail
      <3> QED BY <2>2, <3>1, <3>2, <3>4 DEF Links!Issues
    <2>3. CASE r.kind \in {"register", "invite"}
      <3> DEFINE e == [r EXCEPT !.step = "token", !.base = n]
      <3>1. s = e
        BY <2>3 DEF Links!Issues
      <3>2. e.step = "token" /\ e.kind = r.kind /\ e.who = p /\ e.base = n
        BY <2>1
      <3> QED BY <2>3, <3>1, <3>2
    <2>4. CASE r.kind \notin Links!Issues \cup {"register", "invite"}
      <3>1. s = Links!Idle
        BY <2>4
      <3> QED BY <2>4, <3>1, LinksStandTypes
    <2> QED BY <2>2, <2>3, <2>4
  <1> HIDE DEF s
  <1>8. /\ req'[w] = s /\ \A v \in Workers \ {w} : req'[v] = req[v]
        /\ accounts'[p] = row /\ \A q \in People \ {p} : accounts'[q] = accounts[q]
    BY <1>1, <1>2, LinksStandTypes
  <1> HIDE DEF r, p, cur
  <1>9. LinksKept(p) /\ LinksWaits(row) => r.kind = "invite" /\ row.token = 0 /\ ~row.verified
    <2> SUFFICES ASSUME LinksKept(p), LinksWaits(row), r.kind # "invite" PROVE FALSE
      BY <1>6
    <2>1. LinksWaits(cur) /\ r.kind \in {"resend", "change", "forgot"}
      BY <1>6
    <2>2. r.kind = "change"
      BY <1>5, <2>1 DEF LinksWaits, LinksKept
    <2>3. r.kind = "change" => cur.verified
      BY <1>2, <2>1 DEF LinksLoaded, LinksSince
    <2> QED BY <2>1, <2>2, <2>3 DEF LinksWaits
  <1>10. LinksPasswordInv'
    <2>1. ASSUME NEW q \in People, ~accounts'[q].there PROVE accounts'[q] = Links!NoAccount
      BY <1>6, <1>8, <2>1 DEF LinksStandInv, LinksPasswordInv
    <2>2. ASSUME NEW v \in Workers
          PROVE  /\ req'[v].step = "write" =>
                      /\ ~req'[v].base.there => req'[v].base = Links!NoAccount
                      /\ req'[v].base.password => accounts'[req'[v].who].password \/ accounts'[req'[v].who].deleted
                      /\ req'[v].kind = "forgot" => req'[v].base.password
                      /\ req'[v].kind = "resend" => req'[v].who \in AskAgain
                 /\ req'[v].step = "token" =>
                      /\ accounts'[req'[v].who].there
                      /\ req'[v].kind = "register" =>
                           accounts'[req'[v].who].password \/ accounts'[req'[v].who].deleted
                      /\ ~req'[v].base.verified /\ ~req'[v].base.deleted /\ req'[v].base.token = 0
                      /\ (req'[v].base.password <=> req'[v].kind = "register")
      <3>1. CASE v = w
        <4>1. ASSUME s.step = "token"
              PROVE  ~n.verified /\ ~n.deleted /\ n.token = 0 /\ (n.password <=> r.kind = "register")
          <5>1. r.kind \in {"register", "invite"} /\ r.base = Links!NoAccount
            BY <1>2, <1>5, <1>7, <4>1 DEF LinksLoaded
          <5>2. n.verified = r.base.verified /\ n.deleted = r.base.deleted /\ n.token = r.base.token
            BY <1>3, <5>1 DEF LinksEditOf, Links!Follows
          <5>3. n.password <=> r.kind = "register"
            BY <1>4, <5>1 DEF Links!NoAccount
          <5> QED BY <5>1, <5>2, <5>3 DEF Links!NoAccount
        <4> QED BY <1>6, <1>7, <1>8, <3>1, <4>1
      <3>2. CASE v # w
        <4>1. req'[v] = req[v] /\ req[v].who \in People
          BY <1>8, <3>2, LinksStandTypes
        <4>2. CASE req[v].who = p
          BY <1>6, <1>8, <4>1, <4>2 DEF LinksStandInv, LinksPasswordInv, cur
        <4>3. CASE req[v].who # p
          BY <1>8, <4>1, <4>3 DEF LinksStandInv, LinksPasswordInv
        <4> QED BY <4>2, <4>3
      <3> QED BY <3>1, <3>2
    <2> QED BY <2>1, <2>2 DEF LinksPasswordInv
  <1>11. \A q \in People : LinksKept(q)' <=> LinksKept(q)
    BY <1>1 DEF LinksKept
  <1>13. LinksInviteInv'
    <2>1. ASSUME NEW v \in Workers, v # w, req[v].step = "token", req[v].who = p PROVE cur.there
      BY <2>1 DEF LinksStandInv, LinksPasswordInv, cur
    <2>2. ASSUME NEW v \in Workers, NEW u \in Workers, req'[v].step = "token", req'[u].step = "token",
                 req'[v].who = req'[u].who
          PROVE  v = u
      <3>1. CASE v # w /\ u # w
        BY <1>8, <2>2, <3>1 DEF LinksStandInv, LinksInviteInv
      <3>2. CASE v = w /\ u # w
        BY <1>1, <1>7, <1>8, <2>1, <2>2, <3>2
      <3>3. CASE v # w /\ u = w
        BY <1>1, <1>7, <1>8, <2>1, <2>2, <3>3
      <3> QED BY <3>1, <3>2, <3>3
    <2>3. ASSUME NEW q \in People, LinksKept(q), LinksWaits(accounts'[q])
          PROVE  \/ accounts'[q].token = 0 /\ \E v \in Workers : LinksTokenDue(v, q)'
                 \/ /\ accounts'[q].token # 0 /\ \A v \in Workers : ~LinksTokenDue(v, q)'
                    /\ \A mail \in mails' : mail.token = accounts'[q].token => mail.page = "accept-invite"
                    /\ \A v \in Workers : req'[v].step = "mail" /\ Links!Mail(req'[v]).token = accounts'[q].token
                                            => req'[v].kind = "invite"
      <3>1. CASE q = p
        <4>1. r.kind = "invite" /\ row.token = 0
          BY <1>8, <1>9, <2>3, <3>1
        <4>2. LinksTokenDue(w, q)'
          BY <1>7, <1>8, <3>1, <4>1 DEF LinksTokenDue
        <4> QED BY <1>8, <3>1, <4>1, <4>2
      <3>2. CASE q # p
        <4>1. accounts'[q] = accounts[q] /\ accounts[q].token \in Nat /\ accounts[q].token =< issued
          BY <1>8, <3>2, LinksStandTypes
        <4>2. \A v \in Workers : LinksTokenDue(v, q)' <=> LinksTokenDue(v, q)
          <5>1. ~LinksTokenDue(w, q) /\ ~LinksTokenDue(w, q)'
            BY <1>1, <1>7, <1>8, <3>2 DEF LinksTokenDue, r
          <5> QED BY <1>8, <5>1 DEF LinksTokenDue
        <4>3. ASSUME NEW v \in Workers, req'[v].step = "mail", Links!Mail(req'[v]).token = accounts[q].token
              PROVE  req[v].step = "mail" /\ req'[v] = req[v]
          <5>1. v # w
            BY <1>2, <1>7, <1>8, <4>1, <4>3
          <5> QED BY <1>8, <4>3, <5>1
        <4>4. mails' = mails
          BY <1>1
        <4> QED BY <2>3, <4>1, <4>2, <4>3, <4>4 DEF LinksStandInv, LinksInviteInv
      <3> QED BY <3>1, <3>2
    <2>4. \A q \in People : LinksWaits(accounts[q])' = LinksWaits(accounts'[q])
      BY DEF LinksWaits
    <2> QED BY <1>11, <2>2, <2>3, <2>4 DEF LinksInviteInv
  <1> QED BY <1>10, <1>13 DEF LinksStandInv

\* The commit of a token.
LEMMA LinksTokenStands ==
  ASSUME Links!MailLinksAssumption, LinksIInv, LinksStandInv, NEW w \in Workers, Links!IssueToken(w)
  PROVE  LinksStandInv'
  <1> DEFINE r == req[w]
             p == r.who
             cur == accounts[p]
             n == [r.base EXCEPT !.token = issued + 1]
             row == Links!Merge(n, r.base, cur)
             s == [r EXCEPT !.step = "mail", !.base = n]
  <1>1. /\ r.step = "token" /\ issued < MaxTokens
        /\ accounts' = [accounts EXCEPT ![p] = row] /\ req' = [req EXCEPT ![w] = s]
        /\ UNCHANGED <<mails, cut>>
    BY DEF Links!IssueToken
  <1>2. /\ r \in LinksRequestType /\ p \in People /\ cur \in Links!Account /\ r.base \in Links!Account
        /\ issued \in 0 .. MaxTokens /\ issued \in Nat /\ LinksToSend(r)
    BY <1>1, LinksStandTypes DEF LinksIInv, LinksTypes, LinksRequestType
  <1>3. /\ n \in Links!Account /\ n.token = issued + 1 /\ n.there = r.base.there /\ n.verified = r.base.verified
        /\ n.deleted = r.base.deleted /\ n.password = r.base.password
    <2>1. r.base \in Links!Account /\ issued + 1 \in 0 .. MaxTokens
      BY <1>1, <1>2 DEF Links!MailLinksAssumption
    <2> HIDE DEF r
    <2> QED BY <2>1 DEF Links!Account
  <1>4. /\ r.base.token = 0 /\ r.kind \in {"register", "invite"}
        /\ cur.there /\ (r.kind = "register" => cur.password \/ cur.deleted)
    BY <1>1, <1>2 DEF LinksStandInv, LinksPasswordInv, LinksToSend
  <1>5. /\ s.step = "mail" /\ s.kind = r.kind /\ s.base = n /\ s.who = p
    <2>1. r \in LinksRequestType
      BY <1>2
    <2> HIDE DEF r, n
    <2> QED BY <2>1 DEF LinksRequestType, p
  <1> HIDE DEF n
  <1>6. /\ row.there = cur.there /\ row.verified = cur.verified /\ row.deleted = cur.deleted
        /\ row.token = issued + 1
    <2>1. /\ row.there = IF n.there # r.base.there THEN n.there ELSE cur.there
          /\ row.verified = IF n.verified # r.base.verified THEN n.verified ELSE cur.verified
          /\ row.token = IF n.token # r.base.token THEN n.token ELSE cur.token
          /\ row.deleted = IF n.deleted # r.base.deleted THEN n.deleted ELSE cur.deleted
      BY <1>2, <1>3, LinksMergeIs
    <2>2. n.token # r.base.token
      BY <1>2, <1>3, <1>4
    <2> HIDE DEF row, r, cur
    <2> QED BY <1>3, <2>1, <2>2
  <1>7. row.password <=> cur.password
    BY <1>2, <1>3, LinksMergedPassword
  <1> HIDE DEF row
  <1>8. Links!Mail(s).token = issued + 1
    BY <1>3, <1>4, <1>5 DEF Links!Mail
  <1> HIDE DEF s
  <1>9. /\ req'[w] = s /\ \A v \in Workers \ {w} : req'[v] = req[v]
        /\ accounts'[p] = row /\ \A q \in People \ {p} : accounts'[q] = accounts[q]
    BY <1>1, <1>2, LinksStandTypes
  <1> HIDE DEF r, p, cur
  <1>10. \A q \in People : LinksKept(q)' <=> LinksKept(q)
    BY <1>1 DEF LinksKept
  <1>11. LinksWaits(row) <=> LinksWaits(cur)
    BY <1>6, <1>7 DEF LinksWaits
  <1>12. \A q \in People : LinksWaits(accounts[q])' <=> LinksWaits(accounts[q])
    <2> SUFFICES ASSUME NEW q \in People PROVE LinksWaits(accounts'[q]) <=> LinksWaits(accounts[q])
      BY DEF LinksWaits
    <2>1. CASE q = p
      BY <1>9, <1>11, <2>1 DEF cur
    <2>2. CASE q # p
      BY <1>9, <2>2
    <2> QED BY <2>1, <2>2
  <1>13. LinksPasswordInv'
    <2>1. ASSUME NEW q \in People, ~accounts'[q].there PROVE accounts'[q] = Links!NoAccount
      BY <1>4, <1>6, <1>9, <2>1 DEF LinksStandInv, LinksPasswordInv
    <2>2. ASSUME NEW v \in Workers
          PROVE  /\ req'[v].step = "write" =>
                      /\ ~req'[v].base.there => req'[v].base = Links!NoAccount
                      /\ req'[v].base.password => accounts'[req'[v].who].password \/ accounts'[req'[v].who].deleted
                      /\ req'[v].kind = "forgot" => req'[v].base.password
                      /\ req'[v].kind = "resend" => req'[v].who \in AskAgain
                 /\ req'[v].step = "token" =>
                      /\ accounts'[req'[v].who].there
                      /\ req'[v].kind = "register" =>
                           accounts'[req'[v].who].password \/ accounts'[req'[v].who].deleted
                      /\ ~req'[v].base.verified /\ ~req'[v].base.deleted /\ req'[v].base.token = 0
                      /\ (req'[v].base.password <=> req'[v].kind = "register")
      <3>1. CASE v = w
        BY <1>5, <1>9, <3>1
      <3>2. CASE v # w
        <4>1. req'[v] = req[v] /\ req[v].who \in People
          BY <1>9, <3>2, LinksStandTypes
        <4>2. CASE req[v].who = p
          BY <1>6, <1>7, <1>9, <4>1, <4>2 DEF LinksStandInv, LinksPasswordInv, cur
        <4>3. CASE req[v].who # p
          BY <1>9, <4>1, <4>3 DEF LinksStandInv, LinksPasswordInv
        <4> QED BY <4>2, <4>3
      <3> QED BY <3>1, <3>2
    <2> QED BY <2>1, <2>2 DEF LinksPasswordInv
  <1>15. LinksInviteInv'
    <2>1. ASSUME NEW v \in Workers, v # w PROVE ~LinksTokenDue(v, p)
      BY <1>1, <2>1 DEF LinksStandInv, LinksInviteInv, LinksTokenDue, r, p
    <2>2. \A v \in Workers : req'[v].step = "token" => v # w /\ req'[v] = req[v]
      BY <1>5, <1>9
    <2>3. \A v, u \in Workers : req'[v].step = "token" /\ req'[u].step = "token" /\ req'[v].who = req'[u].who => v = u
      BY <2>2 DEF LinksStandInv, LinksInviteInv
    <2>4. ASSUME NEW v \in Workers, NEW q \in People, v # w, req'[v].step = "mail"
          PROVE  req'[v] = req[v] /\ Links!Mail(req[v]).token \in Nat /\ Links!Mail(req[v]).token =< issued
      BY <1>9, <2>4, LinksStandTypes
    <2>5. ASSUME NEW q \in People, LinksKept(q), LinksWaits(accounts[q])
          PROVE  \/ accounts'[q].token = 0 /\ \E v \in Workers : LinksTokenDue(v, q)'
                 \/ /\ accounts'[q].token # 0 /\ \A v \in Workers : ~LinksTokenDue(v, q)'
                    /\ \A mail \in mails' : mail.token = accounts'[q].token => mail.page = "accept-invite"
                    /\ \A v \in Workers : req'[v].step = "mail" /\ Links!Mail(req'[v]).token = accounts'[q].token
                                            => req'[v].kind = "invite"
      <3>1. CASE q = p
        <4>1. accounts'[q].token = issued + 1
          BY <1>6, <1>9, <3>1
        <4>2. \A v \in Workers : ~LinksTokenDue(v, q)'
          BY <1>5, <1>9, <2>1, <3>1 DEF LinksTokenDue
        <4>3. \A mail \in mails' : mail.token # issued + 1
          BY <1>1, <1>2, LinksStandTypes
        <4>4. r.kind = "invite"
          BY <1>4, <2>5, <3>1 DEF LinksWaits, cur
        <4>5. ASSUME NEW v \in Workers, req'[v].step = "mail", Links!Mail(req'[v]).token = issued + 1
              PROVE  req'[v].kind = "invite"
          <5>1. CASE v = w
            BY <1>5, <1>9, <4>4, <5>1
          <5>2. CASE v # w
            BY <1>2, <2>4, <4>5, <5>2
          <5> QED BY <5>1, <5>2
        <4> QED BY <1>2, <4>1, <4>2, <4>3, <4>5
      <3>2. CASE q # p
        <4>1. accounts'[q] = accounts[q] /\ accounts[q].token \in Nat /\ accounts[q].token =< issued
          BY <1>9, <3>2, LinksStandTypes
        <4>2. \A v \in Workers : LinksTokenDue(v, q)' <=> LinksTokenDue(v, q)
          <5>1. ~LinksTokenDue(w, q) /\ ~LinksTokenDue(w, q)'
            BY <1>5, <1>9, <3>2 DEF LinksTokenDue, r, p
          <5> QED BY <1>9, <5>1 DEF LinksTokenDue
        <4>3. ASSUME NEW v \in Workers, req'[v].step = "mail", Links!Mail(req'[v]).token = accounts[q].token
              PROVE  req[v].step = "mail" /\ req'[v] = req[v]
          <5>1. v # w
            BY <1>2, <1>8, <1>9, <4>1, <4>3
          <5> QED BY <1>9, <4>3, <5>1
        <4>4. mails' = mails
          BY <1>1
        <4> QED BY <2>5, <4>1, <4>2, <4>3, <4>4 DEF LinksStandInv, LinksInviteInv
      <3> QED BY <3>1, <3>2
    <2> QED BY <1>10, <1>12, <2>3, <2>5 DEF LinksInviteInv
  <1> QED BY <1>13, <1>15 DEF LinksStandInv

\* A request that ends, with its mail or without.
LEMMA LinksEndStands ==
  ASSUME Links!MailLinksAssumption, LinksIInv, LinksStandInv, NEW w \in Workers, Links!Send(w) \/ Links!GiveUp(w)
  PROVE  LinksStandInv'
  <1>1. /\ req' = [req EXCEPT ![w] = Links!Idle] /\ UNCHANGED accounts
        /\ cut \subseteq cut' /\ (req[w].step = "token" => req[w].who \in cut')
        /\ \A mail \in mails' : mail \in mails \/ (req[w].step = "mail" /\ mail = Links!Mail(req[w]))
    <2>1. CASE Links!Send(w)
      <3>1. /\ req[w].step = "mail" /\ req' = [req EXCEPT ![w] = Links!Idle] /\ accounts' = accounts /\ cut' = cut
            /\ mails' = mails \cup {Links!Mail(req[w])} \/ mails' = mails
        BY <2>1 DEF Links!Send
      <3>2. req[w].step # "token" /\ cut \subseteq cut'
        BY <3>1
      <3>3. \A mail \in mails' : mail \in mails \/ (req[w].step = "mail" /\ mail = Links!Mail(req[w]))
        BY <3>1
      <3> QED BY <3>1, <3>2, <3>3
    <2>2. CASE Links!GiveUp(w)
      <3>1. /\ req' = [req EXCEPT ![w] = Links!Idle] /\ accounts' = accounts /\ mails' = mails
            /\ cut' = (IF req[w].step = "token" THEN cut \cup {req[w].who} ELSE cut)
        BY <2>2 DEF Links!GiveUp
      <3>2. cut \subseteq cut' /\ (req[w].step = "token" => req[w].who \in cut')
        BY <3>1
      <3> QED BY <3>1, <3>2
    <2> QED BY <2>1, <2>2
  <1>2. req'[w].step = "idle" /\ \A v \in Workers \ {w} : req'[v] = req[v]
    BY <1>1, LinksStandTypes
  <1>3. \A q \in People : LinksKept(q)' => LinksKept(q)
    BY <1>1 DEF LinksKept
  <1>4. \A q \in People : LinksWaits(accounts[q])' <=> LinksWaits(accounts[q])
    BY <1>1 DEF LinksWaits
  <1>5. LinksPasswordInv'
    BY <1>1, <1>2 DEF LinksStandInv, LinksPasswordInv
  <1>7. LinksInviteInv'
    <2>1. \A v, u \in Workers : req'[v].step = "token" /\ req'[u].step = "token" /\ req'[v].who = req'[u].who => v = u
      BY <1>2 DEF LinksStandInv, LinksInviteInv
    <2>2. ASSUME NEW q \in People, LinksKept(q)', LinksWaits(accounts[q])
          PROVE  \/ accounts'[q].token = 0 /\ \E v \in Workers : LinksTokenDue(v, q)'
                 \/ /\ accounts'[q].token # 0 /\ \A v \in Workers : ~LinksTokenDue(v, q)'
                    /\ \A mail \in mails' : mail.token = accounts'[q].token => mail.page = "accept-invite"
                    /\ \A v \in Workers : req'[v].step = "mail" /\ Links!Mail(req'[v]).token = accounts'[q].token
                                            => req'[v].kind = "invite"
      <3>1. LinksKept(q) /\ accounts'[q] = accounts[q]
        BY <1>1, <1>3, <2>2
      <3>2. \A v \in Workers : LinksTokenDue(v, q)' <=> LinksTokenDue(v, q)
        <4>1. ~LinksTokenDue(w, q)'
          BY <1>2 DEF LinksTokenDue
        <4>2. ~LinksTokenDue(w, q)
          BY <1>1, <2>2 DEF LinksTokenDue, LinksKept
        <4> QED BY <1>2, <4>1, <4>2 DEF LinksTokenDue
      <3>3. CASE accounts[q].token = 0 /\ \E v \in Workers : LinksTokenDue(v, q)
        BY <3>1, <3>2, <3>3
      <3>4. CASE /\ accounts[q].token # 0 /\ \A v \in Workers : ~LinksTokenDue(v, q)
                 /\ \A mail \in mails : mail.token = accounts[q].token => mail.page = "accept-invite"
                 /\ \A v \in Workers : req[v].step = "mail" /\ Links!Mail(req[v]).token = accounts[q].token
                                         => req[v].kind = "invite"
        <4>1. ASSUME NEW mail \in mails', mail.token = accounts[q].token PROVE mail.page = "accept-invite"
          <5>1. CASE mail \in mails
            BY <3>4, <4>1, <5>1
          <5>2. CASE req[w].step = "mail" /\ mail = Links!Mail(req[w])
            BY <3>4, <4>1, <5>2 DEF Links!Mail
          <5> QED BY <1>1, <5>1, <5>2
        <4>2. \A v \in Workers : req'[v].step = "mail" => req'[v] = req[v]
          BY <1>2
        <4> QED BY <3>1, <3>2, <3>4, <4>1, <4>2
      <3> QED BY <2>2, <3>1, <3>3, <3>4 DEF LinksStandInv, LinksInviteInv
    <2> QED BY <1>4, <2>1, <2>2 DEF LinksInviteInv
  <1> QED BY <1>5, <1>7 DEF LinksStandInv

\* The requests that load a row.
LEMMA LinksBeginStands ==
  ASSUME Links!MailLinksAssumption, LinksIInv, LinksStandInv, NEW w \in Workers, NEW p \in People,
         Links!Ask(w, p) \/ Links!Follow(w, p)
  PROVE  LinksStandInv'
  <1>1. CASE Links!Ask(w, p)
    <2>1. CASE \E a \in Addresses : \/ Links!BeginRegister(w, p, a) \/ Links!BeginInvite(w, p, a)
                                   \/ Links!BeginChange(w, p, a)
      <3>1. PICK a \in Addresses, k \in {"register", "invite", "change"} : Links!Start(w, k, p, a)
        BY <2>1 DEF Links!BeginRegister, Links!BeginInvite, Links!BeginChange
      <3> QED BY <3>1, LinksStartStands
    <2>2. CASE Links!BeginResend(w, p)
      BY <2>2, LinksStartStands DEF Links!BeginResend
    <2>3. CASE Links!BeginForgot(w, p)
      BY <2>3, LinksStartStands DEF Links!BeginForgot
    <2>4. CASE Links!BeginErase(w, p)
      BY <2>4, LinksStartStands DEF Links!BeginErase
    <2> QED BY <1>1, <2>1, <2>2, <2>3, <2>4 DEF Links!Ask
  <1>2. CASE Links!Follow(w, p)
    <2>1. PICK mail \in mails : Links!BeginVerify(w, p, mail) \/ Links!BeginAccept(w, p, mail) \/ Links!BeginReset(w, p, mail)
      BY <1>2 DEF Links!Follow
    <2>2. CASE Links!BeginVerify(w, p, mail)
      BY <2>2, LinksStartStands DEF Links!BeginVerify
    <2>3. CASE Links!BeginAccept(w, p, mail)
      BY <2>3, LinksStartStands DEF Links!BeginAccept
    <2>4. CASE Links!BeginReset(w, p, mail)
      BY <2>4, LinksStartStands DEF Links!BeginReset
    <2> QED BY <2>1, <2>2, <2>3, <2>4
  <1> QED BY <1>1, <1>2

\* At the start nobody is there.
LEMMA LinksStandInit ==
  ASSUME Links!MailLinksAssumption, Links!Init
  PROVE  LinksStandInv
  <1>1. Links!Idle.step = "idle" /\ ~Links!NoAccount.there /\ ~Links!NoAccount.verified
    BY DEF Links!Idle, Links!NoAccount
  <1>2. (\A p \in People : accounts[p] = Links!NoAccount) /\ \A w \in Workers : req[w] = Links!Idle
    BY DEF Links!Init
  <1> QED BY <1>1, <1>2 DEF LinksStandInv, LinksPasswordInv, LinksInviteInv, LinksWaits

\* Every step keeps invitations standing.
LEMMA LinksStandStep ==
  ASSUME Links!MailLinksAssumption, LinksIInv, LinksStandInv, [Links!Next]_(Links!vars)
  PROVE  LinksStandInv'
  <1>1. CASE UNCHANGED Links!vars
    BY <1>1 DEF Links!vars, LinksStandInv, LinksPasswordInv, LinksInviteInv, LinksWaits, LinksKept,
                LinksTokenDue
  <1>2. ASSUME NEW w \in Workers, NEW p \in People, Links!Ask(w, p) \/ Links!Follow(w, p) PROVE LinksStandInv'
    BY <1>2, LinksBeginStands
  <1>3. ASSUME NEW w \in Workers, Links!Write(w) PROVE LinksStandInv'
    BY <1>3, LinksWriteStands
  <1>4. ASSUME NEW w \in Workers, Links!IssueToken(w) PROVE LinksStandInv'
    BY <1>4, LinksTokenStands
  <1>5. ASSUME NEW w \in Workers, Links!Send(w) \/ Links!GiveUp(w) PROVE LinksStandInv'
    BY <1>5, LinksEndStands
  <1> QED BY <1>1, <1>2, <1>3, <1>4, <1>5 DEF Links!Next

\* A person who was invited and has not used the invitation still has a link to take it
\* up with, unless the worker died before it issued one or somebody used the resend form.
LEMMA LinksStandImplies ==
  ASSUME Links!MailLinksAssumption, LinksIInv, LinksStandInv
  PROVE  Links!InvitationStands
  <1> SUFFICES ASSUME NEW p \in People \ AskAgain, LinksWaits(accounts[p]), p \notin cut
               PROVE  \/ accounts[p].token # 0 /\ \A mail \in mails :
                                        mail.token = accounts[p].token => mail.page = "accept-invite"
                      \/ \E w \in Workers : LinksTokenDue(w, p)
    BY DEF Links!InvitationStands, LinksWaits, LinksTokenDue
  <1> QED BY DEF LinksStandInv, LinksInviteInv, LinksKept

-----------------------------------------------------------------------------
(* Lockouts: the inductive invariant.                                      *)

\* Finiteness and cardinality as Lockouts reads them.
LEMMA LockCardinality == \A S : Lockout!Cardinality(S) = Cardinality(S) /\ Lockout!IsFiniteSet(S) = IsFiniteSet(S)
  <1>1. \A S : Lockout!IsFiniteSet(S) = IsFiniteSet(S)
    BY DEF Lockout!IsFiniteSet, IsFiniteSet
  <1> QED BY <1>1 DEF Lockout!Cardinality, Cardinality

\* The tries of an address that passed the check and have no answer yet.
LockUnderWay(i) == {t \in Tries : try[t] # Lockout!Idle /\ try[t].ip = i}

\* What the variables hold; a try under way has an address and an account.
LockTypes ==
  /\ bucket \in Lockout!Buckets
  /\ count \in [Lockout!Keys -> Nat] /\ \A k \in ttl : k \in Lockout!Keys /\ count[k] > 0
  /\ try \in [Tries -> {Lockout!Idle} \cup [email : Emails, ip : Ips]]
  /\ bucket = "form" => \A t \in Tries : try[t] = Lockout!Idle
  /\ wrong \in [Ips -> Nat] /\ faults \in 0 .. MaxFaults

\* While no call was refused, the counter of an address counts its wrong tries, and the tries
\* under way, every one of which passed the check, fit beside it.
LockCounts ==
  faults = 0 => \A i \in Ips :
    /\ wrong[i] = count[Lockout!Address(i)]
    /\ bucket = "form" => wrong[i] =< Attempts
    /\ bucket # "form" => wrong[i] + Cardinality(LockUnderWay(i)) =< Attempts + Cardinality(Tries) - 1

LockInv == LockTypes /\ LockCounts /\ Lockout!LockoutsEnd

\* The keys of a request.
LEMMA LockKeys ==
  ASSUME NEW e \in Emails, NEW i \in Ips
  PROVE  /\ Lockout!Account(e, i) \in Lockout!Keys /\ Lockout!Address(i) \in Lockout!Keys
         /\ \A j \in Ips : Lockout!Account(e, i) # Lockout!Address(j)
         /\ \A j \in Ips : Lockout!Address(i) = Lockout!Address(j) => i = j
  BY DEF Lockout!Account, Lockout!Address, Lockout!Keys

\* The tries under way of an address are finitely many.
LEMMA LockFinite ==
  ASSUME Lockout!LockoutsAssumption, NEW i
  PROVE  /\ IsFiniteSet(Tries) /\ Cardinality(Tries) \in Nat
         /\ IsFiniteSet(LockUnderWay(i)) /\ Cardinality(LockUnderWay(i)) \in Nat
         /\ Cardinality(LockUnderWay(i)) =< Cardinality(Tries)
  <1>1. IsFiniteSet(Tries)
    BY LockCardinality DEF Lockout!LockoutsAssumption
  <1>2. LockUnderWay(i) \in SUBSET Tries
    BY DEF LockUnderWay
  <1> QED BY <1>1, <1>2, FS_Subset, FS_CardinalityType

\* Counting one failed try: the keys stay typed, and a key that expires has a counter.
LEMMA LockRecordKeeps ==
  ASSUME Lockout!LockoutsAssumption, LockTypes, NEW e \in Emails, NEW i \in Ips, Lockout!Record(e, i)
  PROVE  /\ count' \in [Lockout!Keys -> Nat] /\ \A k \in ttl' : k \in Lockout!Keys /\ count'[k] > 0
         /\ wrong' = [wrong EXCEPT ![i] = @ + 1] /\ wrong' \in [Ips -> Nat]
         /\ faults' \in 0 .. MaxFaults
         /\ faults' = 0 =>
              /\ faults = 0 /\ \A j \in Ips : count'[Lockout!Address(j)] = count[Lockout!Address(j)] + (IF j = i THEN 1 ELSE 0)
              /\ Lockout!LockoutsEnd => Lockout!LockoutsEnd'
  <1> DEFINE a == Lockout!Account(e, i)
             b == Lockout!Address(i)
  <1>1. PICK n \in 0 .. 4 : Lockout!Recorded(e, i, n) /\ (faults' = 0 => n = 4 /\ faults = 0) /\ faults' \in 0 .. MaxFaults
    <2>1. MaxFaults \in Nat /\ faults \in 0 .. MaxFaults
      BY DEF Lockout!LockoutsAssumption, LockTypes
    <2>2. CASE Lockout!Recorded(e, i, 4) /\ UNCHANGED faults
      BY <2>1, <2>2
    <2>3. CASE Lockout!Fault /\ \E n \in 0 .. 4 : Lockout!Recorded(e, i, n)
      <3>1. faults' = faults + 1 /\ faults < MaxFaults
        BY <2>3 DEF Lockout!Fault
      <3> QED BY <2>1, <2>3, <3>1
    <2> QED BY <2>2, <2>3 DEF Lockout!Record
  <1>2. a \in Lockout!Keys /\ b \in Lockout!Keys /\ a # b /\ \A j \in Ips : Lockout!Address(j) # a /\ (Lockout!Address(j) = b => i = j)
    BY LockKeys
  <1>3. /\ count' = [count EXCEPT ![a] = IF n >= 1 THEN @ + 1 ELSE @, ![b] = IF n >= 3 THEN @ + 1 ELSE @]
        /\ ttl' = ttl \cup {k \in {a, b} : count[k] = 0 /\ n >= (IF k = a THEN 2 ELSE 4)}
    BY <1>1 DEF Lockout!Recorded
  <1> HIDE DEF a, b
  <1>4. count \in [Lockout!Keys -> Nat] /\ wrong \in [Ips -> Nat] /\ \A k \in ttl : k \in Lockout!Keys /\ count[k] > 0
    BY DEF LockTypes
  <1>5. /\ count'[a] = count[a] + (IF n >= 1 THEN 1 ELSE 0)
        /\ count'[b] = count[b] + (IF n >= 3 THEN 1 ELSE 0)
        /\ \A k \in Lockout!Keys \ {a, b} : count'[k] = count[k]
        /\ count' \in [Lockout!Keys -> Nat]
    BY <1>2, <1>3, <1>4
  <1>6. ASSUME NEW k \in ttl' PROVE k \in Lockout!Keys /\ count'[k] > 0
    <2>1. CASE k \in ttl
      BY <1>2, <1>4, <1>5, <2>1
    <2>2. CASE k = a /\ n >= 2
      BY <1>2, <1>4, <1>5, <2>2
    <2>3. CASE k = b /\ n >= 4
      BY <1>2, <1>4, <1>5, <2>3
    <2> QED BY <1>3, <2>1, <2>2, <2>3
  <1>7. wrong' = [wrong EXCEPT ![i] = @ + 1] /\ wrong' \in [Ips -> Nat]
    BY <1>4 DEF Lockout!Record
  <1>8. ASSUME faults' = 0
        PROVE  /\ faults = 0
               /\ \A j \in Ips : count'[Lockout!Address(j)] = count[Lockout!Address(j)] + (IF j = i THEN 1 ELSE 0)
               /\ Lockout!LockoutsEnd => Lockout!LockoutsEnd'
    <2>1. n = 4 /\ faults = 0
      BY <1>1, <1>8
    <2>2. ASSUME NEW j \in Ips PROVE count'[Lockout!Address(j)] = count[Lockout!Address(j)] + (IF j = i THEN 1 ELSE 0)
      <3>1. Lockout!Address(j) \in Lockout!Keys
        BY DEF Lockout!Address, Lockout!Keys
      <3>2. CASE j = i
        BY <1>5, <2>1, <3>2 DEF b
      <3>3. CASE j # i
        BY <1>2, <1>4, <1>5, <3>1, <3>3
      <3> QED BY <3>2, <3>3
    <2>3. ASSUME Lockout!LockoutsEnd, NEW k \in Lockout!Keys, count'[k] > 0 PROVE k \in ttl'
      <3>1. CASE k \in {a, b}
        <4>1. CASE count[k] = 0
          BY <1>3, <2>1, <3>1, <4>1
        <4>2. CASE count[k] # 0
          BY <1>3, <1>4, <2>1, <2>3, <4>2 DEF Lockout!LockoutsEnd
        <4> QED BY <4>1, <4>2
      <3>2. CASE k \notin {a, b}
        BY <1>3, <1>5, <2>1, <2>3, <3>2 DEF Lockout!LockoutsEnd
      <3> QED BY <3>1, <3>2
    <2> QED BY <2>1, <2>2, <2>3 DEF Lockout!LockoutsEnd
  <1> QED BY <1>1, <1>5, <1>6, <1>7, <1>8

\* A try that passed the check.
LEMMA LockStartKeeps ==
  ASSUME Lockout!LockoutsAssumption, LockInv, NEW t \in Tries, NEW e \in Emails, NEW i \in Ips,
         Lockout!Start(t, e, i)
  PROVE  LockInv'
  <1> DEFINE r == [email |-> e, ip |-> i]
  <1>1. /\ bucket # "form" /\ try[t] = Lockout!Idle /\ try' = [try EXCEPT ![t] = r]
        /\ UNCHANGED <<bucket, count, ttl, wrong>>
        /\ (~Lockout!LockedOut(e, i) /\ faults' = faults) \/ Lockout!Fault
    BY DEF Lockout!Start, Lockout!Passes
  <1>2. r \in [email : Emails, ip : Ips] /\ r.ip = i
    OBVIOUS
  <1> HIDE DEF r
  <1>3. faults \in Nat /\ MaxFaults \in Nat /\ Attempts \in Nat \ {0} /\ faults' \in 0 .. MaxFaults
        /\ (faults' = 0 => faults = 0 /\ ~Lockout!LockedOut(e, i))
    BY <1>1 DEF Lockout!LockoutsAssumption, LockInv, LockTypes, Lockout!Fault
  <1>4. /\ DOMAIN try' = Tries /\ try'[t] = r /\ \A u \in Tries \ {t} : try'[u] = try[u]
    BY <1>1 DEF LockInv, LockTypes
  <1>5. LockTypes'
    BY <1>1, <1>2, <1>3, <1>4 DEF LockInv, LockTypes
  <1>6. ASSUME faults' = 0, NEW j \in Ips
        PROVE  /\ wrong'[j] = count'[Lockout!Address(j)]
               /\ wrong'[j] + Cardinality(LockUnderWay(j)') =< Attempts + Cardinality(Tries) - 1
    <2>1. /\ wrong[j] = count[Lockout!Address(j)] /\ wrong[j] \in Nat
          /\ wrong[j] + Cardinality(LockUnderWay(j)) =< Attempts + Cardinality(Tries) - 1
      BY <1>1, <1>3, <1>6 DEF LockInv, LockTypes, LockCounts
    <2>2. Lockout!Address(j)' = Lockout!Address(j)
      BY DEF Lockout!Address
    <2>3. CASE j = i
      <3>1. count[Lockout!Address(i)] < Attempts
        <4>1. ~(count[Lockout!Address(i)] >= Attempts)
          BY <1>3, <1>6 DEF Lockout!LockedOut
        <4> QED BY <1>3, <2>1, <2>3, <4>1
      <3>2. LockUnderWay(j)' \in SUBSET Tries
        BY DEF LockUnderWay
      <3>3. Cardinality(LockUnderWay(j)') \in Nat /\ Cardinality(LockUnderWay(j)') =< Cardinality(Tries) /\ Cardinality(Tries) \in Nat
        BY <3>2, LockFinite, FS_Subset, FS_CardinalityType
      <3> QED BY <1>1, <1>3, <2>1, <2>3, <3>1, <3>3
    <2>4. CASE j # i
      <3>1. LockUnderWay(j)' = LockUnderWay(j)
        BY <1>1, <1>2, <1>4, <2>4 DEF LockUnderWay, Lockout!Idle
      <3> QED BY <1>1, <2>1, <3>1
    <2> QED BY <2>3, <2>4
  <1>7. LockCounts'
    <2>1. \A j \in Ips : Lockout!Address(j)' = Lockout!Address(j)
      BY DEF Lockout!Address
    <2> QED BY <1>1, <1>6, <2>1 DEF LockCounts
  <1>8. Lockout!LockoutsEnd'
    BY <1>1, <1>3 DEF LockInv, Lockout!LockoutsEnd, Lockout!Keys
  <1> QED BY <1>5, <1>7, <1>8 DEF LockInv

\* A form, which is checked and counted at once.
LEMMA LockFormKeeps ==
  ASSUME Lockout!LockoutsAssumption, LockInv, NEW e \in Emails, NEW i \in Ips, Lockout!SendForm(e, i)
  PROVE  LockInv'
  <1>1. bucket = "form" /\ Lockout!Record(e, i) /\ UNCHANGED <<bucket, try>> /\ (Lockout!LockedOut(e, i) => Lockout!Fault)
    BY DEF Lockout!SendForm
  <1>2. LockTypes
    BY DEF LockInv
  <1>3. LockTypes'
    BY <1>1, <1>2, LockRecordKeeps DEF LockTypes, Lockout!Idle, Lockout!Keys
  <1>4. ASSUME faults' = 0, NEW j \in Ips
        PROVE  wrong'[j] = count'[Lockout!Address(j)] /\ wrong'[j] =< Attempts
    <2>1. /\ faults = 0 /\ count'[Lockout!Address(j)] = count[Lockout!Address(j)] + (IF j = i THEN 1 ELSE 0)
          /\ wrong' = [wrong EXCEPT ![i] = @ + 1]
      BY <1>1, <1>2, <1>4, LockRecordKeeps
    <2>2. wrong[j] = count[Lockout!Address(j)] /\ wrong[j] =< Attempts /\ wrong \in [Ips -> Nat] /\ Attempts \in Nat
      BY <1>1, <2>1 DEF LockInv, LockCounts, LockTypes, Lockout!LockoutsAssumption
    <2>3. wrong'[j] = wrong[j] + (IF j = i THEN 1 ELSE 0)
      BY <2>1, <2>2
    <2>4. ~Lockout!LockedOut(e, i)
      BY <1>1, <1>4, <2>1 DEF Lockout!Fault
    <2>5. j = i => wrong[j] < Attempts
      BY <2>2, <2>4 DEF Lockout!LockedOut
    <2> QED BY <2>1, <2>2, <2>3, <2>5
  <1>5. LockCounts'
    <2>1. \A j \in Ips : Lockout!Address(j)' = Lockout!Address(j)
      BY DEF Lockout!Address
    <2> QED BY <1>1, <1>4, <2>1 DEF LockCounts
  <1>6. Lockout!LockoutsEnd'
    <2>1. CASE faults' = 0
      BY <1>1, <1>2, <2>1, LockRecordKeeps DEF LockInv
    <2>2. CASE faults' # 0
      BY <2>2 DEF Lockout!LockoutsEnd
    <2> QED BY <2>1, <2>2
  <1> QED BY <1>3, <1>5, <1>6 DEF LockInv

\* A try that is answered is no longer under way.
LEMMA LockAnswered ==
  ASSUME Lockout!LockoutsAssumption, LockTypes, NEW t \in Tries, try[t] # Lockout!Idle,
         try' = [try EXCEPT ![t] = Lockout!Idle]
  PROVE  /\ try[t] \in [email : Emails, ip : Ips] /\ try[t].email \in Emails /\ try[t].ip \in Ips /\ bucket # "form"
         /\ try' \in [Tries -> {Lockout!Idle} \cup [email : Emails, ip : Ips]]
         /\ \A j : Cardinality(LockUnderWay(j)') \in Nat
         /\ \A j : Cardinality(LockUnderWay(j)') = Cardinality(LockUnderWay(j)) - (IF j = try[t].ip THEN 1 ELSE 0)
  <1>1. try[t] \in [email : Emails, ip : Ips] /\ bucket # "form"
    BY DEF LockTypes
  <1>2. DOMAIN try' = Tries /\ try'[t] = Lockout!Idle /\ \A u \in Tries \ {t} : try'[u] = try[u]
    BY DEF LockTypes
  <1>3. try' \in [Tries -> {Lockout!Idle} \cup [email : Emails, ip : Ips]]
    BY DEF LockTypes
  <1>4. ASSUME NEW j
        PROVE  /\ Cardinality(LockUnderWay(j)') \in Nat
               /\ Cardinality(LockUnderWay(j)') = Cardinality(LockUnderWay(j)) - (IF j = try[t].ip THEN 1 ELSE 0)
    <2>1. IsFiniteSet(LockUnderWay(j)) /\ Cardinality(LockUnderWay(j)) \in Nat
      BY LockFinite
    <2>2. Lockout!Idle' = Lockout!Idle
      BY DEF Lockout!Idle
    <2>3. CASE j = try[t].ip
      <3>1. LockUnderWay(j)' = LockUnderWay(j) \ {t} /\ t \in LockUnderWay(j)
        BY <1>2, <2>2, <2>3 DEF LockUnderWay
      <3>2. IsFiniteSet(LockUnderWay(j) \ {t}) /\ Cardinality(LockUnderWay(j) \ {t}) = Cardinality(LockUnderWay(j)) - 1
        BY <2>1, <3>1, FS_RemoveElement
      <3> QED BY <2>3, <3>1, <3>2, FS_CardinalityType
    <2>4. CASE j # try[t].ip
      <3>1. LockUnderWay(j)' = LockUnderWay(j)
        BY <1>2, <2>2, <2>4 DEF LockUnderWay
      <3> QED BY <2>1, <2>4, <3>1
    <2> QED BY <2>3, <2>4
  <1> QED BY <1>1, <1>2, <1>3, <1>4

\* A wrong try.
LEMMA LockWrongKeeps ==
  ASSUME Lockout!LockoutsAssumption, LockInv, NEW t \in Tries, Lockout!Wrong(t)
  PROVE  LockInv'
  <1> DEFINE e == try[t].email
             i == try[t].ip
  <1>1. /\ try[t] # Lockout!Idle /\ Lockout!Record(e, i) /\ try' = [try EXCEPT ![t] = Lockout!Idle]
        /\ bucket' = bucket
    BY DEF Lockout!Wrong
  <1>2. LockTypes
    BY DEF LockInv
  <1>3. /\ e \in Emails /\ i \in Ips /\ bucket # "form"
        /\ try' \in [Tries -> {Lockout!Idle} \cup [email : Emails, ip : Ips]]
        /\ \A j : Cardinality(LockUnderWay(j)') \in Nat
        /\ \A j : Cardinality(LockUnderWay(j)') = Cardinality(LockUnderWay(j)) - (IF j = i THEN 1 ELSE 0)
    BY <1>1, <1>2, LockAnswered
  <1> HIDE DEF e, i
  <1>4. LockTypes'
    BY <1>1, <1>2, <1>3, LockRecordKeeps DEF LockTypes, Lockout!Idle, Lockout!Keys
  <1>5. ASSUME faults' = 0, NEW j \in Ips
        PROVE  /\ wrong'[j] = count'[Lockout!Address(j)]
               /\ wrong'[j] + Cardinality(LockUnderWay(j)') =< Attempts + Cardinality(Tries) - 1
    <2>1. /\ faults = 0 /\ count'[Lockout!Address(j)] = count[Lockout!Address(j)] + (IF j = i THEN 1 ELSE 0)
          /\ wrong' = [wrong EXCEPT ![i] = @ + 1]
      BY <1>1, <1>2, <1>3, <1>5, LockRecordKeeps
    <2>2. /\ wrong[j] = count[Lockout!Address(j)] /\ wrong \in [Ips -> Nat] /\ Attempts \in Nat
          /\ wrong[j] + Cardinality(LockUnderWay(j)) =< Attempts + Cardinality(Tries) - 1
      BY <1>3, <2>1 DEF LockInv, LockCounts, LockTypes, Lockout!LockoutsAssumption
    <2>3. wrong'[j] = wrong[j] + (IF j = i THEN 1 ELSE 0)
      BY <1>3, <2>1, <2>2
    <2>4. Cardinality(Tries) \in Nat /\ Cardinality(LockUnderWay(j)) \in Nat /\ wrong[j] \in Nat
      BY <2>2, LockFinite
    <2> QED BY <1>3, <2>1, <2>2, <2>3, <2>4
  <1>6. LockCounts'
    <2>1. \A j \in Ips : Lockout!Address(j)' = Lockout!Address(j)
      BY DEF Lockout!Address
    <2> QED BY <1>1, <1>3, <1>5, <2>1 DEF LockCounts
  <1>7. Lockout!LockoutsEnd'
    <2>1. CASE faults' = 0
      BY <1>1, <1>2, <1>3, <2>1, LockRecordKeeps DEF LockInv
    <2>2. CASE faults' # 0
      BY <2>2 DEF Lockout!LockoutsEnd
    <2> QED BY <2>1, <2>2
  <1> QED BY <1>4, <1>6, <1>7 DEF LockInv

\* A right try.
LEMMA LockRightKeeps ==
  ASSUME Lockout!LockoutsAssumption, LockInv, NEW t \in Tries, Lockout!Right(t)
  PROVE  LockInv'
  <1> DEFINE e == try[t].email
             i == try[t].ip
             gone == Lockout!Cleared(e, i)
  <1>1. /\ try[t] # Lockout!Idle /\ try' = [try EXCEPT ![t] = Lockout!Idle] /\ UNCHANGED <<bucket, wrong>>
        /\ \/ /\ count' = [k \in Lockout!Keys |-> IF k \in gone THEN 0 ELSE count[k]]
              /\ ttl' = ttl \ gone /\ faults' = faults
           \/ Lockout!Fault /\ UNCHANGED <<count, ttl>>
    BY DEF Lockout!Right
  <1>2. LockTypes /\ MaxFaults \in Nat /\ Attempts \in Nat
    BY DEF LockInv, Lockout!LockoutsAssumption
  <1>3. /\ e \in Emails /\ i \in Ips /\ bucket # "form"
        /\ try' \in [Tries -> {Lockout!Idle} \cup [email : Emails, ip : Ips]]
        /\ \A j : Cardinality(LockUnderWay(j)') \in Nat
        /\ \A j : Cardinality(LockUnderWay(j)') = Cardinality(LockUnderWay(j)) - (IF j = i THEN 1 ELSE 0)
    BY <1>1, <1>2, LockAnswered
  <1> HIDE DEF e, i
  <1>4. \A j \in Ips : Lockout!Address(j) \in Lockout!Keys \ gone
    BY <1>3, LockKeys DEF Lockout!Cleared
  <1> HIDE DEF gone
  <1>5. /\ count' \in [Lockout!Keys -> Nat] /\ faults' \in 0 .. MaxFaults /\ (faults' = 0 => faults = 0)
        /\ \A k \in Lockout!Keys : count'[k] = count[k] \/ (count'[k] = 0 /\ k \in gone)
        /\ \A j \in Ips : count'[Lockout!Address(j)] = count[Lockout!Address(j)]
        /\ \A k \in ttl' : k \in ttl /\ count'[k] = count[k]
        /\ \A k \in ttl : k \in ttl' \/ count'[k] = 0
    <2>1. CASE /\ count' = [k \in Lockout!Keys |-> IF k \in gone THEN 0 ELSE count[k]]
               /\ ttl' = ttl \ gone /\ faults' = faults
      BY <1>2, <1>4, <2>1 DEF LockTypes
    <2>2. CASE Lockout!Fault /\ UNCHANGED <<count, ttl>>
      BY <1>2, <2>2 DEF LockTypes, Lockout!Fault
    <2> QED BY <1>1, <2>1, <2>2
  <1>6. LockTypes'
    BY <1>1, <1>2, <1>3, <1>5 DEF LockTypes, Lockout!Keys, Lockout!Idle
  <1>7. ASSUME faults' = 0, NEW j \in Ips
        PROVE  /\ wrong'[j] = count'[Lockout!Address(j)]
               /\ wrong'[j] + Cardinality(LockUnderWay(j)') =< Attempts + Cardinality(Tries) - 1
    <2>1. /\ wrong[j] = count[Lockout!Address(j)] /\ wrong[j] \in Nat
          /\ wrong[j] + Cardinality(LockUnderWay(j)) =< Attempts + Cardinality(Tries) - 1
      BY <1>3, <1>5, <1>7 DEF LockInv, LockCounts, LockTypes
    <2>2. Cardinality(Tries) \in Nat /\ Cardinality(LockUnderWay(j)) \in Nat
      BY LockFinite
    <2> QED BY <1>1, <1>2, <1>3, <1>5, <2>1, <2>2
  <1>8. LockCounts'
    <2>1. \A j \in Ips : Lockout!Address(j)' = Lockout!Address(j)
      BY DEF Lockout!Address
    <2> QED BY <1>1, <1>3, <1>7, <2>1 DEF LockCounts
  <1>9. Lockout!LockoutsEnd'
    <2>1. ASSUME faults' = 0, NEW k \in Lockout!Keys, count'[k] > 0 PROVE k \in ttl'
      <3>1. count'[k] # 0
        BY <2>1
      <3>2. count'[k] = count[k]
        BY <1>5, <3>1
      <3> QED BY <1>5, <2>1, <3>1, <3>2 DEF LockInv, Lockout!LockoutsEnd
    <2> QED BY <2>1 DEF Lockout!LockoutsEnd, Lockout!Keys
  <1> QED BY <1>6, <1>8, <1>9 DEF LockInv

\* A key whose time is up.
LEMMA LockExpireKeeps ==
  ASSUME Lockout!LockoutsAssumption, LockInv, NEW k \in Lockout!Keys, Lockout!Expire(k)
  PROVE  LockInv'
  <1>1. /\ k \in ttl /\ ttl' = ttl \ {k} /\ count' = [count EXCEPT ![k] = 0]
        /\ wrong' = (IF k[1] = "ip" THEN [wrong EXCEPT ![k[2]] = 0] ELSE wrong)
        /\ UNCHANGED <<bucket, try, faults>>
    BY DEF Lockout!Expire
  <1>2. LockTypes /\ Attempts \in Nat \ {0}
    BY DEF LockInv, Lockout!LockoutsAssumption
  <1>3. count' \in [Lockout!Keys -> Nat] /\ count'[k] = 0 /\ \A m \in Lockout!Keys \ {k} : count'[m] = count[m]
    BY <1>1, <1>2 DEF LockTypes
  <1>4. ASSUME NEW j \in Ips
        PROVE  /\ Lockout!Address(j) \in Lockout!Keys /\ wrong'[j] \in Nat
               /\ k = Lockout!Address(j) => wrong'[j] = 0
               /\ k # Lockout!Address(j) => wrong'[j] = wrong[j]
    <2>1. Lockout!Address(j) \in Lockout!Keys /\ Lockout!Address(j)[1] = "ip" /\ Lockout!Address(j)[2] = j
      BY DEF Lockout!Address, Lockout!Keys
    <2>2. wrong \in [Ips -> Nat]
      BY <1>2 DEF LockTypes
    <2>3. CASE k[1] = "ip"
      <3>1. k[2] \in Ips /\ k = Lockout!Address(k[2])
        BY <2>3 DEF Lockout!Keys, Lockout!Address
      <3>2. wrong' = [wrong EXCEPT ![k[2]] = 0]
        BY <1>1, <2>3
      <3> QED BY <2>1, <2>2, <3>1, <3>2
    <2>4. CASE k[1] # "ip"
      BY <1>1, <2>1, <2>2, <2>4
    <2> QED BY <2>3, <2>4
  <1>5. wrong' \in [Ips -> Nat]
    <2>1. DOMAIN wrong' = Ips /\ wrong' = [j \in Ips |-> wrong'[j]]
      BY <1>1, <1>2 DEF LockTypes
    <2> QED BY <1>4, <2>1
  <1>6. LockTypes'
    BY <1>1, <1>2, <1>3, <1>5 DEF LockTypes, Lockout!Keys, Lockout!Idle
  <1>7. \A j : LockUnderWay(j)' = LockUnderWay(j)
    BY <1>1 DEF LockUnderWay, Lockout!Idle
  <1>8. LockCounts'
    <2>1. ASSUME faults' = 0, NEW j \in Ips
          PROVE  /\ wrong'[j] = count'[Lockout!Address(j)] /\ wrong'[j] =< wrong[j] /\ wrong[j] \in Nat /\ wrong'[j] \in Nat
      <3>1. wrong[j] = count[Lockout!Address(j)] /\ wrong[j] \in Nat
        BY <1>1, <1>2, <2>1 DEF LockInv, LockCounts, LockTypes
      <3> QED BY <1>3, <1>4, <3>1
    <2>2. \A j \in Ips : Lockout!Address(j)' = Lockout!Address(j)
      BY DEF Lockout!Address
    <2>3. \A j \in Ips : Cardinality(LockUnderWay(j)) \in Nat /\ Cardinality(Tries) \in Nat
      BY LockFinite
    <2> QED BY <1>1, <1>2, <1>7, <2>1, <2>2, <2>3 DEF LockInv, LockCounts
  <1>9. Lockout!LockoutsEnd'
    <2>1. ASSUME faults' = 0, NEW m \in Lockout!Keys, count'[m] > 0 PROVE m \in ttl'
      <3>1. m # k
        BY <1>3, <2>1
      <3> QED BY <1>1, <1>3, <2>1, <3>1 DEF LockInv, Lockout!LockoutsEnd
    <2> QED BY <2>1 DEF Lockout!LockoutsEnd, Lockout!Keys
  <1> QED BY <1>6, <1>8, <1>9 DEF LockInv

\* The invariant holds at the start.
LEMMA LockInvInit ==
  ASSUME Lockout!LockoutsAssumption, Lockout!Init
  PROVE  LockInv
  <1>1. 0 \in 0 .. MaxFaults /\ Attempts \in Nat \ {0} /\ 0 \in Nat
    BY DEF Lockout!LockoutsAssumption
  <1>2. LockTypes
    BY <1>1 DEF Lockout!Init, LockTypes
  <1>3. \A j \in Ips : wrong[j] = 0 /\ Lockout!Address(j) \in Lockout!Keys
    BY DEF Lockout!Init, Lockout!Address, Lockout!Keys
  <1>4. \A j : LockUnderWay(j) = {}
    BY DEF LockUnderWay, Lockout!Init
  <1>5. Cardinality({}) = 0 /\ Cardinality(Tries) \in Nat
    BY FS_EmptySet, LockFinite
  <1>6. \A k \in Lockout!Keys : count[k] = 0
    BY DEF Lockout!Init
  <1>7. LockCounts
    BY <1>1, <1>3, <1>4, <1>5, <1>6 DEF LockCounts
  <1> QED BY <1>2, <1>6, <1>7 DEF LockInv, Lockout!LockoutsEnd

\* Every step preserves it.
LEMMA LockInvStep ==
  ASSUME Lockout!LockoutsAssumption, LockInv, [Lockout!Next]_(Lockout!lockoutVars)
  PROVE  LockInv'
  <1>1. CASE UNCHANGED Lockout!lockoutVars
    BY <1>1 DEF Lockout!lockoutVars, LockInv, LockTypes, LockCounts, LockUnderWay, Lockout!LockoutsEnd, Lockout!Keys,
                Lockout!Idle, Lockout!Address
  <1>2. ASSUME NEW t \in Tries, NEW e \in Emails, NEW i \in Ips, Lockout!Start(t, e, i) PROVE LockInv'
    BY <1>2, LockStartKeeps
  <1>3. ASSUME NEW e \in Emails, NEW i \in Ips, Lockout!SendForm(e, i) PROVE LockInv'
    BY <1>3, LockFormKeeps
  <1>4. ASSUME NEW t \in Tries, Lockout!Wrong(t) PROVE LockInv'
    BY <1>4, LockWrongKeeps
  <1>5. ASSUME NEW t \in Tries, Lockout!Right(t) PROVE LockInv'
    BY <1>5, LockRightKeeps
  <1>6. ASSUME NEW k \in Lockout!Keys, Lockout!Expire(k) PROVE LockInv'
    BY <1>6, LockExpireKeeps
  <1> QED BY <1>1, <1>2, <1>3, <1>4, <1>5, <1>6 DEF Lockout!Next

\* What it says of the tries of one address.
LEMMA LockInvImplies ==
  ASSUME Lockout!LockoutsAssumption, LockInv
  PROVE  Lockout!TypeOK /\ Lockout!TriesBounded /\ Lockout!LockoutsEnd
  <1>1. Lockout!TypeOK
    <2>1. {Lockout!Idle} \cup [email : Emails, ip : Ips] \subseteq [email : Emails \cup {"none"}, ip : Ips \cup {"none"}]
      BY DEF Lockout!Idle
    <2>2. try \in [Tries -> [email : Emails \cup {"none"}, ip : Ips \cup {"none"}]]
      BY <2>1 DEF LockInv, LockTypes
    <2> QED BY <2>2 DEF LockInv, LockTypes, Lockout!TypeOK
  <1>2. ASSUME faults = 0, NEW i \in Ips
        PROVE  wrong[i] =< Attempts + (IF bucket = "form" THEN 0 ELSE Cardinality(Tries) - 1)
    <2>1. Cardinality(LockUnderWay(i)) \in Nat /\ Cardinality(Tries) \in Nat /\ wrong[i] \in Nat /\ Attempts \in Nat
      BY LockFinite DEF LockInv, LockTypes, Lockout!LockoutsAssumption
    <2> QED BY <1>2, <2>1 DEF LockInv, LockCounts
  <1>3. Lockout!TriesBounded
    BY <1>2, LockCardinality DEF Lockout!TriesBounded
  <1> QED BY <1>1, <1>3 DEF LockInv

-----------------------------------------------------------------------------
(* SiteAssistant: the inductive invariant.                                 *)

\* Finiteness and cardinality as SiteAssistant reads them.
LEMMA SiteFinite == \A S : Site!IsFiniteSet(S) = IsFiniteSet(S)
  BY DEF Site!IsFiniteSet, IsFiniteSet

\* A request.
SiteChunks == Site!Sections \X Versions
SiteRequest == [step : {"idle", "retrieve", "cap", "model", "over"}, who : Visitors \cup {none},
                found : SUBSET SiteChunks, counted : BOOLEAN, today : BOOLEAN,
                outcome : {none, "refused", "capped", "unavailable", "unanswerable", "answered"},
                cited : SUBSET SiteChunks]

SiteTypes ==
  /\ release \in [Site!Sections -> Site!Files] /\ rows \in [Site!Sections -> Versions \cup {none}]
  /\ phase \in {"down", "pages", "guides", "serving"} /\ complete \in BOOLEAN
  /\ asked \in [Visitors -> Nat] /\ called \in Nat /\ calls \in Nat /\ let \in [Visitors -> Nat]
  /\ faults \in 0 .. MaxFaults
  /\ question \in [Questions -> SiteRequest]

\* The pages are indexed before the guides.
SiteIndexed ==
  /\ phase = "guides" /\ complete => \A s \in Pages : rows[s] = Site!Published(s)
  /\ Site!IndexIsRelease

\* What a request found is in the index as it was, what it cites it found, and an answer cites.
SiteGrounded(r) ==
  /\ \A c \in r.found : rows[c[1]] = c[2]
  /\ r.cited \subseteq r.found
  /\ r.outcome = "answered" => r.cited # {}
  /\ r.step # "over" => r.cited = {} /\ r.outcome # "answered"

\* The index changes only while nobody asks.
SiteAnswers ==
  /\ phase # "serving" => \A q \in Questions : question[q] = Site!NoQuestion
  /\ \A q \in Questions : SiteGrounded(question[q])

\* Questions that are counted today and have not reached the model yet.
SiteCounted == {q \in Questions : question[q].step = "model" /\ question[q].today}

\* The calls made and those that are due fit under the counter and under the cap.
SiteCaps ==
  /\ GlobalCap # 0 => /\ calls + Cardinality(SiteCounted) =< called
                      /\ calls + Cardinality(SiteCounted) =< GlobalCap
  /\ VisitorCap # 0 => \A v \in Visitors : let[v] =< asked[v] /\ let[v] =< VisitorCap

SiteInv == SiteTypes /\ SiteIndexed /\ SiteAnswers /\ SiteCaps

\* A request that holds nothing.
LEMMA SiteNothing ==
  /\ Site!NoQuestion \in SiteRequest /\ Site!NoQuestion.step = "idle" /\ ~Site!NoQuestion.today
  /\ Site!NoQuestion.found = {} /\ Site!NoQuestion.cited = {} /\ Site!NoQuestion.outcome = none
  BY DEF Site!NoQuestion, SiteRequest

\* The questions that are due are finitely many.
LEMMA SiteCountedFinite ==
  ASSUME Site!AssistantAssumption
  PROVE  /\ IsFiniteSet(SiteCounted) /\ Cardinality(SiteCounted) \in Nat
         /\ IsFiniteSet(SiteCounted') /\ Cardinality(SiteCounted') \in Nat
  <1>1. IsFiniteSet(Questions)
    BY SiteFinite DEF Site!AssistantAssumption
  <1>2. SiteCounted \in SUBSET Questions /\ SiteCounted' \in SUBSET Questions
    BY DEF SiteCounted
  <1> QED BY <1>1, <1>2, FS_Subset, FS_CardinalityType

\* A step of one request, while the service serves.
LEMMA SiteMoves ==
  ASSUME Site!AssistantAssumption, SiteInv, NEW q \in Questions, NEW r \in SiteRequest,
         phase = "serving", Site!IndexUnchanged, question' = [question EXCEPT ![q] = r], SiteGrounded(r),
         asked' \in [Visitors -> Nat], called' \in Nat, calls' \in Nat, let' \in [Visitors -> Nat],
         faults' \in 0 .. MaxFaults
  PROVE  /\ SiteTypes' /\ SiteIndexed' /\ SiteAnswers'
         /\ SiteCounted' = IF r.step = "model" /\ r.today THEN SiteCounted \cup {q} ELSE SiteCounted \ {q}
  <1>1. UNCHANGED <<release, rows, phase, complete>>
    BY DEF Site!IndexUnchanged
  <1>2. question' \in [Questions -> SiteRequest] /\ question'[q] = r /\ \A u \in Questions \ {q} : question'[u] = question[u]
    BY DEF SiteInv, SiteTypes
  <1>3. SiteTypes'
    BY <1>1, <1>2 DEF SiteInv, SiteTypes, SiteRequest, SiteChunks, Site!Sections, Site!Files
  <1>4. SiteIndexed'
    BY <1>1 DEF SiteInv, SiteIndexed, Site!IndexIsRelease, Site!Published, Site!Sections
  <1>5. SiteAnswers'
    <2>1. ASSUME NEW u \in Questions PROVE SiteGrounded(question[u])'
      <3>1. CASE u = q
        BY <1>1, <1>2, <3>1 DEF SiteGrounded
      <3>2. CASE u # q
        BY <1>1, <1>2, <3>2 DEF SiteInv, SiteAnswers, SiteGrounded
      <3> QED BY <3>1, <3>2
    <2> QED BY <1>1, <2>1 DEF SiteAnswers
  <1>6. SiteCounted' = IF r.step = "model" /\ r.today THEN SiteCounted \cup {q} ELSE SiteCounted \ {q}
    <2>1. \A u \in Questions : u \in SiteCounted' <=> question'[u].step = "model" /\ question'[u].today
      BY DEF SiteCounted
    <2>2. SiteCounted \subseteq Questions /\ SiteCounted' \subseteq Questions
      BY DEF SiteCounted
    <2>3. \A u \in Questions \ {q} : u \in SiteCounted' <=> u \in SiteCounted
      BY <1>2, <2>1 DEF SiteCounted
    <2>4. q \in SiteCounted' <=> r.step = "model" /\ r.today
      BY <1>2, <2>1
    <2> QED BY <2>2, <2>3, <2>4
  <1> QED BY <1>3, <1>4, <1>5, <1>6

\* A refusal is one of the bounded number.
LEMMA SiteFault ==
  ASSUME Site!AssistantAssumption, SiteInv, Site!Fault \/ UNCHANGED faults
  PROVE  faults' \in 0 .. MaxFaults
  <1>1. faults \in 0 .. MaxFaults /\ MaxFaults \in Nat
    BY DEF SiteInv, SiteTypes, Site!AssistantAssumption
  <1> QED BY <1>1 DEF Site!Fault

\* A new release is started.
LEMMA SiteDeployKeeps ==
  ASSUME Site!AssistantAssumption, SiteInv, Site!Deploy
  PROVE  SiteInv'
  <1>1. /\ phase = "down" /\ phase' = "pages" /\ complete' = TRUE /\ release' \in [Site!Sections -> Site!Files]
        /\ UNCHANGED <<asked, called, calls, let, rows, question, faults>>
    BY DEF Site!Deploy, Site!ServingUnchanged
  <1>2. SiteTypes'
    BY <1>1 DEF SiteInv, SiteTypes, SiteRequest, SiteChunks, Site!Sections, Site!Files
  <1>3. SiteIndexed'
    BY <1>1 DEF SiteIndexed, Site!IndexIsRelease
  <1>4. SiteAnswers'
    BY <1>1 DEF SiteInv, SiteAnswers, SiteGrounded, Site!NoQuestion
  <1>5. SiteCaps'
    BY <1>1 DEF SiteInv, SiteCaps, SiteCounted
  <1> QED BY <1>2, <1>3, <1>4, <1>5 DEF SiteInv

\* Pages or guides are indexed, or not.
LEMMA SiteIngestKeeps ==
  ASSUME Site!AssistantAssumption, SiteInv, Site!IngestPages \/ Site!IngestGuides
  PROVE  SiteInv'
  <1>1. PICK source \in {Pages, Guides} :
          /\ Site!Ingest(source, phase, IF phase = "pages" THEN "guides" ELSE "serving")
          /\ (source = Pages /\ phase = "pages") \/ (source = Guides /\ phase = "guides")
    <2>1. CASE Site!IngestPages
      <3>1. phase = "pages" /\ Site!Ingest(Pages, "pages", "guides")
        BY <2>1 DEF Site!IngestPages, Site!Ingest
      <3> QED BY <3>1
    <2>2. CASE Site!IngestGuides
      <3>1. phase = "guides" /\ Site!Ingest(Guides, "guides", "serving")
        BY <2>2 DEF Site!IngestGuides, Site!Ingest
      <3> QED BY <3>1
    <2> QED BY <2>1, <2>2
  <1>2. /\ UNCHANGED <<asked, called, calls, let, release, question>>
        /\ \/ /\ phase' = (IF phase = "pages" THEN "guides" ELSE "serving")
              /\ rows' = (IF Site!Empty(source) THEN rows ELSE Site!Synced(source))
              /\ complete' = (complete /\ ~Site!Empty(source))
              /\ UNCHANGED faults
           \/ /\ Site!Fault /\ phase' \in {"serving", "down"} /\ complete' = FALSE /\ UNCHANGED rows
    BY <1>1 DEF Site!Ingest, Site!ServingUnchanged
  <1>3. \A q \in Questions : question[q] = Site!NoQuestion
    BY <1>1 DEF SiteInv, SiteAnswers
  <1>4. rows' \in [Site!Sections -> Versions \cup {none}]
    <2>1. Site!Synced(source) \in [Site!Sections -> Versions \cup {none}]
      BY DEF SiteInv, SiteTypes, Site!Synced, Site!Published
    <2> QED BY <1>2, <2>1 DEF SiteInv, SiteTypes
  <1>5. SiteTypes'
    <2>1. faults' \in 0 .. MaxFaults
      BY <1>2, SiteFault
    <2>2. phase' \in {"down", "pages", "guides", "serving"} /\ complete' \in BOOLEAN
      BY <1>2 DEF SiteInv, SiteTypes
    <2> QED BY <1>2, <1>4, <2>1, <2>2 DEF SiteInv, SiteTypes, SiteRequest, SiteChunks, Site!Sections, Site!Files
  <1>6. SiteIndexed'
    <2>1. CASE complete' = FALSE
      BY <2>1 DEF SiteIndexed, Site!IndexIsRelease
    <2>2. CASE complete' # FALSE
      <3>1. /\ complete /\ ~Site!Empty(source) /\ rows' = Site!Synced(source)
            /\ phase' = (IF phase = "pages" THEN "guides" ELSE "serving")
        BY <1>2, <2>2 DEF SiteInv, SiteTypes
      <3>2. \A s \in Site!Sections : Site!Published(s)' = Site!Published(s)
        BY <1>2 DEF Site!Published
      <3>3. \A s \in Site!Sections : rows'[s] = IF s \in source THEN Site!Published(s) ELSE rows[s]
        BY <3>1 DEF Site!Synced
      <3>4. CASE source = Pages /\ phase = "pages"
        BY <3>1, <3>2, <3>3, <3>4 DEF SiteIndexed, Site!IndexIsRelease, Site!Sections
      <3>5. CASE source = Guides /\ phase = "guides"
        <4>1. \A s \in Pages : rows[s] = Site!Published(s)
          BY <3>1, <3>5 DEF SiteInv, SiteIndexed
        <4> QED BY <3>1, <3>2, <3>3, <3>5, <4>1 DEF SiteIndexed, Site!IndexIsRelease, Site!Sections
      <3> QED BY <1>1, <3>4, <3>5
    <2> QED BY <2>1, <2>2
  <1>7. SiteAnswers'
    BY <1>2, <1>3, SiteNothing DEF SiteAnswers, SiteGrounded, Site!AssistantAssumption, Site!NoQuestion
  <1>8. SiteCaps'
    BY <1>2 DEF SiteInv, SiteCaps, SiteCounted
  <1> QED BY <1>5, <1>6, <1>7, <1>8 DEF SiteInv

\* The service stops.
LEMMA SiteStopKeeps ==
  ASSUME Site!AssistantAssumption, SiteInv, Site!Stop
  PROVE  SiteInv'
  <1>1. /\ phase' = "down" /\ question' = [q \in Questions |-> Site!NoQuestion]
        /\ UNCHANGED <<asked, called, calls, let, release, rows, complete, faults>>
    BY DEF Site!Stop, Site!ServingUnchanged
  <1>2. SiteTypes'
    BY <1>1, SiteNothing DEF SiteInv, SiteTypes, SiteRequest, SiteChunks, Site!Sections, Site!Files
  <1>3. SiteIndexed'
    BY <1>1 DEF SiteIndexed, Site!IndexIsRelease
  <1>4. \A q \in Questions : question'[q] = Site!NoQuestion
    BY <1>1
  <1>5. SiteAnswers'
    BY <1>4, SiteNothing DEF SiteAnswers, SiteGrounded, Site!AssistantAssumption, Site!NoQuestion
  <1>6. SiteCounted' = {}
    BY <1>4, SiteNothing DEF SiteCounted
  <1>7. Cardinality(SiteCounted') = 0 /\ Cardinality(SiteCounted) \in Nat
    BY <1>6, FS_EmptySet, SiteCountedFinite
  <1>8. SiteCaps'
    BY <1>1, <1>7 DEF SiteInv, SiteTypes, SiteCaps, Site!AssistantAssumption
  <1> QED BY <1>2, <1>3, <1>5, <1>8 DEF SiteInv

\* A question is let through, or not.
LEMMA SiteAskKeeps ==
  ASSUME Site!AssistantAssumption, SiteInv, NEW q \in Questions, NEW v \in Visitors, Site!Ask(q, v)
  PROVE  SiteInv'
  <1>1. /\ phase = "serving" /\ question[q].step \in {"idle", "over"} /\ Site!IndexUnchanged
        /\ UNCHANGED <<called, calls>> /\ (Site!Fault \/ UNCHANGED faults)
        /\ \/ /\ asked' = [asked EXCEPT ![v] = Site!OneMore(@, VisitorCap)]
              /\ let' = let \/ (Site!Within(asked[v], VisitorCap) /\ let' = [let EXCEPT ![v] = @ + 1])
           \/ UNCHANGED <<asked, let>>
    BY DEF Site!Ask
  <1>2. PICK r \in SiteRequest :
          /\ question' = [question EXCEPT ![q] = r] /\ r.step \in {"retrieve", "over"}
          /\ r.found = {} /\ r.cited = {} /\ r.outcome # "answered"
    <2>1. CASE Site!Move(q, [Site!NoQuestion EXCEPT !.step = "retrieve", !.who = v])
      <3> DEFINE r == [Site!NoQuestion EXCEPT !.step = "retrieve", !.who = v]
      <3>1. /\ r \in SiteRequest /\ r.step = "retrieve" /\ r.found = {} /\ r.cited = {} /\ r.outcome = none
        BY DEF Site!NoQuestion, SiteRequest
      <3> HIDE DEF r
      <3> QED BY <2>1, <3>1 DEF Site!Move, r, Site!AssistantAssumption
    <2>2. ASSUME NEW o \in {"refused", "capped", "unavailable"},
                 Site!Move(q, [Site!NoQuestion EXCEPT !.step = "over", !.outcome = o])
          PROVE  \E r \in SiteRequest :
                   /\ question' = [question EXCEPT ![q] = r] /\ r.step \in {"retrieve", "over"}
                   /\ r.found = {} /\ r.cited = {} /\ r.outcome # "answered"
      <3> DEFINE r == [Site!NoQuestion EXCEPT !.step = "over", !.outcome = o]
      <3>1. /\ r \in SiteRequest /\ r.step = "over" /\ r.found = {} /\ r.cited = {} /\ r.outcome = o
        BY DEF Site!NoQuestion, SiteRequest
      <3> HIDE DEF r
      <3> QED BY <2>2, <3>1 DEF Site!Move, r
    <2> QED BY <2>1, <2>2 DEF Site!Ask
  <1>3. SiteGrounded(r)
    BY <1>2 DEF SiteGrounded
  <1>4. /\ asked \in [Visitors -> Nat] /\ let \in [Visitors -> Nat] /\ VisitorCap \in Nat
        /\ called \in Nat /\ calls \in Nat
    BY DEF SiteInv, SiteTypes, Site!AssistantAssumption
  <1>5. /\ asked' \in [Visitors -> Nat] /\ let' \in [Visitors -> Nat]
        /\ VisitorCap # 0 => \A u \in Visitors : let'[u] =< asked'[u] /\ let'[u] =< VisitorCap
    <2>1. VisitorCap # 0 => \A u \in Visitors : let[u] =< asked[u] /\ let[u] =< VisitorCap
      BY DEF SiteInv, SiteCaps
    <2>2. CASE /\ asked' = [asked EXCEPT ![v] = Site!OneMore(@, VisitorCap)]
               /\ let' = let \/ (Site!Within(asked[v], VisitorCap) /\ let' = [let EXCEPT ![v] = @ + 1])
      <3>1. Site!OneMore(asked[v], VisitorCap) \in Nat /\ asked[v] =< Site!OneMore(asked[v], VisitorCap)
            /\ (VisitorCap # 0 /\ asked[v] < VisitorCap => Site!OneMore(asked[v], VisitorCap) = asked[v] + 1)
        BY <1>4 DEF Site!OneMore
      <3>2. asked' \in [Visitors -> Nat] /\ asked'[v] = Site!OneMore(asked[v], VisitorCap)
            /\ \A u \in Visitors \ {v} : asked'[u] = asked[u]
        BY <1>4, <2>2, <3>1
      <3>3. CASE let' = let
        BY <1>4, <2>1, <3>1, <3>2, <3>3
      <3>4. CASE Site!Within(asked[v], VisitorCap) /\ let' = [let EXCEPT ![v] = @ + 1]
        <4>1. let' \in [Visitors -> Nat] /\ let'[v] = let[v] + 1 /\ \A u \in Visitors \ {v} : let'[u] = let[u]
          BY <1>4, <3>4
        <4>2. VisitorCap # 0 => let'[v] =< asked'[v] /\ let'[v] =< VisitorCap
          BY <1>4, <2>1, <3>1, <3>2, <3>4, <4>1 DEF Site!Within
        <4> QED BY <2>1, <3>2, <4>1, <4>2
      <3> QED BY <2>2, <3>3, <3>4
    <2>3. CASE UNCHANGED <<asked, let>>
      BY <1>4, <2>1, <2>3
    <2> QED BY <1>1, <2>2, <2>3
  <1>6. faults' \in 0 .. MaxFaults
    BY <1>1, SiteFault
  <1>7. SiteTypes' /\ SiteIndexed' /\ SiteAnswers' /\ SiteCounted' = SiteCounted \ {q}
    BY <1>1, <1>2, <1>3, <1>4, <1>5, <1>6, SiteMoves
  <1>8. q \notin SiteCounted
    BY <1>1 DEF SiteCounted
  <1>9. SiteCounted' = SiteCounted
    BY <1>7, <1>8
  <1>10. SiteCaps'
    BY <1>1, <1>5, <1>9 DEF SiteInv, SiteCaps
  <1> QED BY <1>7, <1>10 DEF SiteInv

\* A question ends without an answer.
LEMMA SiteEnds ==
  ASSUME SiteInv, NEW q \in Questions, NEW o \in {"capped", "unavailable", "unanswerable"}
  PROVE  LET r == [question[q] EXCEPT !.step = "over", !.outcome = o]
         IN  r \in SiteRequest /\ r.step = "over" /\ SiteGrounded(r)
  <1> DEFINE b == question[q]
             r == [b EXCEPT !.step = "over", !.outcome = o]
  <1>1. b \in SiteRequest /\ SiteGrounded(b)
    BY DEF SiteInv, SiteTypes, SiteAnswers
  <1> HIDE DEF b
  <1>2. r \in SiteRequest /\ r.step = "over" /\ r.found = b.found /\ r.cited = b.cited /\ r.outcome = o
    BY <1>1 DEF SiteRequest
  <1> HIDE DEF r
  <1>3. SiteGrounded(r)
    BY <1>1, <1>2 DEF SiteGrounded
  <1> QED BY <1>2, <1>3 DEF r, b

\* The index is searched.
LEMMA SiteRetrieveKeeps ==
  ASSUME Site!AssistantAssumption, SiteInv, NEW q \in Questions, Site!Retrieve(q)
  PROVE  SiteInv'
  <1>1. /\ phase = "serving" /\ question[q].step = "retrieve" /\ Site!IndexUnchanged
        /\ UNCHANGED <<asked, called, calls, let>> /\ (Site!Fault \/ UNCHANGED faults)
    BY DEF Site!Retrieve, Site!At, Site!ServingUnchanged
  <1>2. PICK r \in SiteRequest :
          question' = [question EXCEPT ![q] = r] /\ r.step \in {"cap", "over"} /\ SiteGrounded(r)
    <2>1. ASSUME NEW found \in SUBSET {s \in Site!Sections : rows[s] # none},
                 Site!Move(q, [question[q] EXCEPT !.step = "cap", !.found = {<<s, rows[s]>> : s \in found}])
          PROVE  \E r \in SiteRequest :
                   question' = [question EXCEPT ![q] = r] /\ r.step \in {"cap", "over"} /\ SiteGrounded(r)
      <3> DEFINE b == question[q]
                 f == {<<s, rows[s]>> : s \in found}
                 r == [b EXCEPT !.step = "cap", !.found = f]
      <3>1. b \in SiteRequest /\ b.step = "retrieve"
        BY <1>1 DEF SiteInv, SiteTypes
      <3>2. f \in SUBSET SiteChunks /\ \A c \in f : rows[c[1]] = c[2]
        BY DEF SiteInv, SiteTypes, SiteChunks
      <3>3. SiteGrounded(b) /\ b.cited = {} /\ b.outcome # "answered"
        BY <1>1 DEF SiteInv, SiteAnswers, SiteGrounded
      <3> HIDE DEF f, b
      <3>4. r \in SiteRequest /\ r.step = "cap" /\ r.found = f /\ r.cited = b.cited /\ r.outcome = b.outcome
        BY <3>1, <3>2 DEF SiteRequest
      <3> HIDE DEF r
      <3>5. SiteGrounded(r)
        BY <3>2, <3>3, <3>4 DEF SiteGrounded
      <3> QED BY <2>1, <3>4, <3>5 DEF Site!Move, r, b, f
    <2>2. ASSUME NEW o \in {"unanswerable", "unavailable"}, Site!End(q, o)
          PROVE  \E r \in SiteRequest :
                   question' = [question EXCEPT ![q] = r] /\ r.step \in {"cap", "over"} /\ SiteGrounded(r)
      BY <2>2, SiteEnds DEF Site!End, Site!Move
    <2> QED BY <2>1, <2>2 DEF Site!Retrieve
  <1>3. faults' \in 0 .. MaxFaults
    BY <1>1, SiteFault
  <1>4. asked \in [Visitors -> Nat] /\ let \in [Visitors -> Nat] /\ called \in Nat /\ calls \in Nat
    BY DEF SiteInv, SiteTypes
  <1>5. SiteTypes' /\ SiteIndexed' /\ SiteAnswers' /\ SiteCounted' = SiteCounted \ {q}
    BY <1>1, <1>2, <1>3, <1>4, SiteMoves
  <1>6. SiteCounted' = SiteCounted
    BY <1>1, <1>5 DEF SiteCounted
  <1>7. SiteCaps'
    BY <1>1, <1>6 DEF SiteInv, SiteCaps
  <1> QED BY <1>5, <1>7 DEF SiteInv

\* A question that would reach the model is counted.
LEMMA SiteCountKeeps ==
  ASSUME Site!AssistantAssumption, SiteInv, NEW q \in Questions, Site!Count(q)
  PROVE  SiteInv'
  <1> DEFINE b == question[q]
  <1>1. /\ phase = "serving" /\ b.step = "cap" /\ Site!IndexUnchanged
        /\ UNCHANGED <<asked, calls, let>> /\ (Site!Fault \/ UNCHANGED faults)
        /\ called' = called \/ called' = Site!OneMore(called, GlobalCap)
    BY DEF Site!Count, Site!At
  <1>2. b \in SiteRequest /\ SiteGrounded(b)
    BY DEF SiteInv, SiteTypes, SiteAnswers
  <1>3. faults' \in 0 .. MaxFaults
    BY <1>1, SiteFault
  <1>4. /\ asked \in [Visitors -> Nat] /\ let \in [Visitors -> Nat] /\ called \in Nat /\ calls \in Nat /\ GlobalCap \in Nat
        /\ Cardinality(SiteCounted) \in Nat
    BY SiteCountedFinite DEF SiteInv, SiteTypes, Site!AssistantAssumption
  <1>5. called' \in Nat /\ called =< called' /\ (GlobalCap # 0 /\ called < GlobalCap => Site!OneMore(called, GlobalCap) = called + 1)
    BY <1>1, <1>4 DEF Site!OneMore
  <1>6. q \notin SiteCounted
    BY <1>1 DEF SiteCounted
  <1>7. \/ /\ Site!Within(called, GlobalCap) /\ called' = Site!OneMore(called, GlobalCap)
           /\ Site!Move(q, [b EXCEPT !.step = "model", !.counted = TRUE, !.today = TRUE])
        \/ Site!Move(q, [b EXCEPT !.step = "over", !.counted = TRUE, !.outcome = "capped"])
        \/ Site!End(q, "unavailable")
    BY DEF Site!Count
  <1>8. CASE /\ Site!Within(called, GlobalCap) /\ called' = Site!OneMore(called, GlobalCap)
             /\ Site!Move(q, [b EXCEPT !.step = "model", !.counted = TRUE, !.today = TRUE])
    <2> DEFINE r == [b EXCEPT !.step = "model", !.counted = TRUE, !.today = TRUE]
    <2> HIDE DEF b
    <2>1. /\ r \in SiteRequest /\ r.step = "model" /\ r.today /\ r.found = b.found
          /\ r.cited = b.cited /\ r.outcome = b.outcome
      BY <1>2 DEF SiteRequest
    <2>2. question' = [question EXCEPT ![q] = r]
      BY <1>8 DEF Site!Move
    <2> HIDE DEF r
    <2>3. SiteGrounded(r)
      BY <1>1, <1>2, <2>1 DEF SiteGrounded
    <2>4. SiteTypes' /\ SiteIndexed' /\ SiteAnswers' /\ SiteCounted' = SiteCounted \cup {q}
      BY <1>1, <1>3, <1>4, <1>5, <2>1, <2>2, <2>3, SiteMoves
    <2>5. Cardinality(SiteCounted') = Cardinality(SiteCounted) + 1
      BY <1>6, <2>4, SiteCountedFinite, FS_AddElement
    <2>6. GlobalCap # 0 => called' = called + 1 /\ called < GlobalCap
      BY <1>5, <1>8 DEF Site!Within
    <2>7. SiteCaps'
      BY <1>1, <1>4, <1>8, <2>5, <2>6 DEF SiteInv, SiteCaps
    <2> QED BY <2>4, <2>7 DEF SiteInv
  <1>9. ASSUME NEW r \in SiteRequest, r.step = "over", SiteGrounded(r), question' = [question EXCEPT ![q] = r]
        PROVE  SiteInv'
    <2>1. SiteTypes' /\ SiteIndexed' /\ SiteAnswers' /\ SiteCounted' = SiteCounted \ {q}
      BY <1>1, <1>3, <1>4, <1>5, <1>9, SiteMoves
    <2>2. SiteCounted' = SiteCounted
      BY <1>6, <2>1
    <2>3. SiteCaps'
      BY <1>1, <1>4, <1>5, <2>2 DEF SiteInv, SiteCaps
    <2> QED BY <2>1, <2>3 DEF SiteInv
  <1>10. CASE Site!Move(q, [b EXCEPT !.step = "over", !.counted = TRUE, !.outcome = "capped"])
    <2> DEFINE r == [b EXCEPT !.step = "over", !.counted = TRUE, !.outcome = "capped"]
    <2> HIDE DEF b
    <2>1. /\ r \in SiteRequest /\ r.step = "over" /\ r.found = b.found /\ r.cited = b.cited
          /\ r.outcome = "capped"
      BY <1>2 DEF SiteRequest
    <2>2. question' = [question EXCEPT ![q] = r]
      BY <1>10 DEF Site!Move
    <2> HIDE DEF r
    <2>3. SiteGrounded(r)
      BY <1>2, <2>1 DEF SiteGrounded
    <2> QED BY <1>9, <2>1, <2>2, <2>3
  <1>11. CASE Site!End(q, "unavailable")
    BY <1>9, <1>11, SiteEnds DEF Site!End, Site!Move
  <1> QED BY <1>7, <1>8, <1>10, <1>11

\* The model answers, or does not.
LEMMA SiteModelKeeps ==
  ASSUME Site!AssistantAssumption, SiteInv, NEW q \in Questions, Site!Model(q)
  PROVE  SiteInv'
  <1> DEFINE b == question[q]
  <1>1. /\ phase = "serving" /\ b.step = "model" /\ Site!IndexUnchanged
        /\ UNCHANGED <<asked, called, let>> /\ (Site!Fault \/ UNCHANGED faults)
        /\ calls' = IF b.today THEN calls + 1 ELSE calls
    BY DEF Site!Model, Site!At
  <1>2. b \in SiteRequest /\ SiteGrounded(b)
    BY DEF SiteInv, SiteTypes, SiteAnswers
  <1>3. PICK r \in SiteRequest : question' = [question EXCEPT ![q] = r] /\ r.step = "over" /\ SiteGrounded(r)
    <2>1. ASSUME NEW ids \in SUBSET Site!Sections, Site!Resolved(ids, b.found) # {},
                 Site!Move(q, [b EXCEPT !.step = "over", !.outcome = "answered",
                                        !.cited = Site!Resolved(ids, b.found)])
          PROVE  \E r \in SiteRequest : question' = [question EXCEPT ![q] = r] /\ r.step = "over" /\ SiteGrounded(r)
      <3> DEFINE cited == Site!Resolved(ids, b.found)
                 r == [b EXCEPT !.step = "over", !.outcome = "answered", !.cited = cited]
      <3>1. cited \subseteq b.found /\ b.found \in SUBSET SiteChunks
        BY <1>2 DEF Site!Resolved, SiteRequest
      <3> HIDE DEF cited, b
      <3>2. /\ r \in SiteRequest /\ r.step = "over" /\ r.found = b.found /\ r.cited = cited
            /\ r.outcome = "answered"
        BY <1>2, <3>1 DEF SiteRequest
      <3>3. question' = [question EXCEPT ![q] = r]
        BY <2>1 DEF Site!Move, cited
      <3> HIDE DEF r
      <3>4. SiteGrounded(r)
        BY <1>2, <2>1, <3>1, <3>2 DEF SiteGrounded, cited
      <3> QED BY <3>2, <3>3, <3>4
    <2>2. ASSUME Site!End(q, "unanswerable")
          PROVE  \E r \in SiteRequest : question' = [question EXCEPT ![q] = r] /\ r.step = "over" /\ SiteGrounded(r)
      BY <2>2, SiteEnds DEF Site!End, Site!Move
    <2>3. \/ \E ids \in SUBSET Site!Sections, sound \in BOOLEAN :
               IF sound /\ Site!Resolved(ids, b.found) # {}
               THEN Site!Move(q, [b EXCEPT !.step = "over", !.outcome = "answered",
                                           !.cited = Site!Resolved(ids, b.found)])
               ELSE Site!End(q, "unanswerable")
          \/ Site!End(q, "unanswerable")
      BY DEF Site!Model
    <2> QED BY <2>1, <2>2, <2>3
  <1>4. /\ asked \in [Visitors -> Nat] /\ let \in [Visitors -> Nat] /\ called \in Nat /\ calls \in Nat /\ GlobalCap \in Nat
        /\ calls' \in Nat /\ IsFiniteSet(SiteCounted) /\ Cardinality(SiteCounted) \in Nat
    BY <1>1, SiteCountedFinite DEF SiteInv, SiteTypes, Site!AssistantAssumption
  <1>5. faults' \in 0 .. MaxFaults
    BY <1>1, SiteFault
  <1>6. SiteTypes' /\ SiteIndexed' /\ SiteAnswers' /\ SiteCounted' = SiteCounted \ {q}
    BY <1>1, <1>3, <1>4, <1>5, SiteMoves
  <1>7. calls' + Cardinality(SiteCounted') = calls + Cardinality(SiteCounted)
    <2>1. q \in SiteCounted <=> b.today
      BY <1>1 DEF SiteCounted
    <2>2. Cardinality(SiteCounted \ {q}) = IF q \in SiteCounted THEN Cardinality(SiteCounted) - 1 ELSE Cardinality(SiteCounted)
      BY <1>4, FS_RemoveElement
    <2> QED BY <1>1, <1>4, <1>6, <2>1, <2>2
  <1>8. SiteCaps'
    BY <1>1, <1>7 DEF SiteInv, SiteCaps
  <1> QED BY <1>6, <1>8 DEF SiteInv

\* A new day.
LEMMA SiteMidnightKeeps ==
  ASSUME Site!AssistantAssumption, SiteInv, Site!Midnight
  PROVE  SiteInv'
  <1>1. /\ asked' = [v \in Visitors |-> 0] /\ called' = 0 /\ calls' = 0 /\ let' = [v \in Visitors |-> 0]
        /\ question' = [q \in Questions |-> [question[q] EXCEPT !.today = FALSE]]
        /\ UNCHANGED <<release, rows, phase, complete, faults>>
    BY DEF Site!Midnight, Site!IndexUnchanged
  <1>2. ASSUME NEW q \in Questions
        PROVE  /\ question'[q] \in SiteRequest /\ ~question'[q].today /\ SiteGrounded(question[q])'
               /\ phase # "serving" => question'[q] = Site!NoQuestion
    <2> DEFINE b == question[q]
               r == [b EXCEPT !.today = FALSE]
    <2>1. b \in SiteRequest /\ SiteGrounded(b) /\ (phase # "serving" => b = Site!NoQuestion)
      BY DEF SiteInv, SiteTypes, SiteAnswers
    <2>2. question'[q] = r
      BY <1>1
    <2> HIDE DEF b
    <2>3. /\ r \in SiteRequest /\ r.today = FALSE /\ r.step = b.step /\ r.found = b.found /\ r.cited = b.cited
          /\ r.outcome = b.outcome /\ r.who = b.who /\ r.counted = b.counted
      BY <2>1 DEF SiteRequest
    <2>4. phase # "serving" => b.today = FALSE
      BY <2>1 DEF Site!NoQuestion
    <2>5. ASSUME NEW x \in SiteRequest, NEW y \in SiteRequest, x.step = y.step, x.found = y.found, x.cited = y.cited,
                 x.outcome = y.outcome, x.who = y.who, x.counted = y.counted, x.today = y.today
          PROVE  x = y
      BY <2>5 DEF SiteRequest
    <2> HIDE DEF r
    <2>6. phase # "serving" => r = b
      BY <2>1, <2>3, <2>4, <2>5
    <2> QED BY <1>1, <2>1, <2>2, <2>3, <2>6 DEF SiteGrounded
  <1>3. SiteTypes'
    BY <1>1, <1>2 DEF SiteInv, SiteTypes, SiteRequest, SiteChunks, Site!Sections, Site!Files
  <1>4. SiteIndexed'
    BY <1>1 DEF SiteInv, SiteIndexed, Site!IndexIsRelease, Site!Published, Site!Sections
  <1>5. SiteAnswers'
    <2>1. Site!NoQuestion' = Site!NoQuestion
      BY DEF Site!NoQuestion
    <2> QED BY <1>1, <1>2, <2>1 DEF SiteAnswers
  <1>6. SiteCounted' = {}
    BY <1>2 DEF SiteCounted
  <1>7. Cardinality(SiteCounted') = 0 /\ GlobalCap \in Nat /\ VisitorCap \in Nat
    BY <1>6, FS_EmptySet DEF Site!AssistantAssumption
  <1>8. SiteCaps'
    BY <1>1, <1>7 DEF SiteCaps
  <1> QED BY <1>3, <1>4, <1>5, <1>8 DEF SiteInv

\* The invariant holds at the start.
LEMMA SiteInvInit ==
  ASSUME Site!AssistantAssumption, Site!Init
  PROVE  SiteInv
  <1>1. 0 \in 0 .. MaxFaults /\ GlobalCap \in Nat /\ VisitorCap \in Nat
    BY DEF Site!AssistantAssumption
  <1>2. /\ release = [s \in Site!Sections |-> "missing"] /\ rows = [s \in Site!Sections |-> none]
        /\ phase = "down" /\ complete = FALSE /\ asked = [v \in Visitors |-> 0] /\ called = 0
        /\ question = [q \in Questions |-> Site!NoQuestion] /\ calls = 0 /\ let = [v \in Visitors |-> 0]
        /\ faults = 0
    BY DEF Site!Init
  <1>3. SiteTypes
    BY <1>1, <1>2, SiteNothing DEF SiteTypes, Site!Files
  <1>4. SiteIndexed
    BY <1>2 DEF SiteIndexed, Site!IndexIsRelease
  <1>5. SiteAnswers
    BY <1>2, SiteNothing DEF SiteAnswers, SiteGrounded, Site!AssistantAssumption
  <1>6. SiteCounted = {}
    BY <1>2, SiteNothing DEF SiteCounted
  <1>7. SiteCaps
    BY <1>1, <1>2, <1>6, FS_EmptySet DEF SiteCaps
  <1> QED BY <1>3, <1>4, <1>5, <1>7 DEF SiteInv

\* Every step preserves it.
LEMMA SiteInvStep ==
  ASSUME Site!AssistantAssumption, SiteInv, [Site!Next]_(Site!assistantVars)
  PROVE  SiteInv'
  <1>1. CASE UNCHANGED Site!assistantVars
    BY <1>1 DEF Site!assistantVars, SiteInv, SiteTypes, SiteRequest, SiteChunks, SiteIndexed, SiteAnswers, SiteGrounded,
                SiteCaps, SiteCounted, Site!Sections, Site!Files, Site!IndexIsRelease, Site!Published, Site!NoQuestion
  <1>2. ASSUME Site!Deploy PROVE SiteInv'
    BY <1>2, SiteDeployKeeps
  <1>3. ASSUME Site!IngestPages \/ Site!IngestGuides PROVE SiteInv'
    BY <1>3, SiteIngestKeeps
  <1>4. ASSUME Site!Stop PROVE SiteInv'
    BY <1>4, SiteStopKeeps
  <1>5. ASSUME NEW q \in Questions, NEW v \in Visitors, Site!Ask(q, v) PROVE SiteInv'
    BY <1>5, SiteAskKeeps
  <1>6. ASSUME NEW q \in Questions, Site!Retrieve(q) PROVE SiteInv'
    BY <1>6, SiteRetrieveKeeps
  <1>7. ASSUME NEW q \in Questions, Site!Count(q) PROVE SiteInv'
    BY <1>7, SiteCountKeeps
  <1>8. ASSUME NEW q \in Questions, Site!Model(q) PROVE SiteInv'
    BY <1>8, SiteModelKeeps
  <1>9. ASSUME Site!Midnight PROVE SiteInv'
    BY <1>9, SiteMidnightKeeps
  <1> QED BY <1>1, <1>2, <1>3, <1>4, <1>5, <1>6, <1>7, <1>8, <1>9 DEF Site!Next

\* What it says of the index, the caps and the answers.
LEMMA SiteInvImplies ==
  ASSUME Site!AssistantAssumption, SiteInv
  PROVE  Site!TypeOK /\ Site!IndexIsRelease /\ Site!CapsHold /\ Site!AnswersAreGrounded
  <1>1. ASSUME NEW q \in Questions PROVE question[q].found \subseteq Site!Sections \X Versions
    BY DEF SiteInv, SiteTypes, SiteRequest, SiteChunks
  <1>2. Site!TypeOK
    BY <1>1 DEF SiteInv, SiteTypes, Site!TypeOK
  <1>3. Site!CapsHold
    <2>1. calls \in Nat /\ Cardinality(SiteCounted) \in Nat /\ GlobalCap \in Nat
      BY SiteCountedFinite DEF SiteInv, SiteTypes, Site!AssistantAssumption
    <2> QED BY <2>1 DEF SiteInv, SiteCaps, Site!CapsHold
  <1>4. Site!AnswersAreGrounded
    BY DEF SiteInv, SiteAnswers, SiteGrounded, Site!AnswersAreGrounded
  <1> QED BY <1>2, <1>3, <1>4 DEF SiteInv, SiteIndexed

-----------------------------------------------------------------------------
(* ChatTurns: the inductive invariant.                                     *)

\* A row of messages, and what a request holds.
ChatRow == [thread : Threads, turn : Turns, role : Chat!Roles, at : Nat,
            tool : Chat!Tools \cup {none}, ok : BOOLEAN]
ChatRequest == [pc : Chat!Steps, company : Companies \cup {none}, thread : Threads \cup {none},
                history : Seq(ChatRow), past : SUBSET ChatRow,
                tool : Chat!Tools \cup {none}, ok : BOOLEAN]

ChatTypes ==
  /\ owner \in [Threads -> Companies \cup {none}]
  /\ clock \in Nat /\ faults \in 0 .. MaxFaults
  /\ seen \in [Turns -> Chat!Frames] /\ deeds \subseteq Turns
  /\ messages \subseteq ChatRow /\ IsFiniteSet(messages)
  /\ turn \in [Turns -> ChatRequest]

\* A set of rows that holds both rows of a turn or none, with a stamp of their own.
ChatPaired(R) ==
  /\ \A m \in R, r \in Chat!Roles : \E n \in R : n.turn = m.turn /\ n.role = r
  /\ \A m, n \in R : m.turn = n.turn <=> m.at = n.at
  /\ \A m, n \in R : m.turn = n.turn /\ m.role = n.role => m = n

\* The rows that are saved, and the turns they are of.
ChatSaved ==
  /\ ChatPaired(messages)
  /\ \A m \in messages : /\ m.at =< clock
                         /\ turn[m.turn].pc \in {"show", "over"} /\ seen[m.turn] # "error"
                         /\ turn[m.turn].thread = m.thread
                         /\ m.ok => m.turn \in deeds
                         /\ m.role = "assistant" =>
                               m.tool = turn[m.turn].tool /\ (turn[m.turn].ok => m.ok)

\* The conversation a turn is in, and what it was given of it.
ChatReads(t) ==
  LET past == turn[t].past
      h == turn[t].history
      kept == Chat!ToSet(h) IN
  /\ turn[t].pc = "idle" => past = {}
  /\ turn[t].pc # "idle" => /\ turn[t].company \in Companies /\ turn[t].thread \in Threads
                            /\ owner[turn[t].thread] = turn[t].company
  /\ past \subseteq messages /\ kept \subseteq past /\ Len(h) =< HistoryLimit
  /\ \A m \in past : m.thread = turn[t].thread
  /\ \A m \in kept, n \in past : n.turn = m.turn => n \in kept
  /\ \A m \in kept, n \in past \ kept : n.at < m.at

\* How far a turn is, and what there is of it.
ChatDoes(t) ==
  /\ turn[t].pc = "show" \/ seen[t] = "done" => \E m \in messages : m.turn = t
  /\ seen[t] \in {"done", "error"} => turn[t].pc = "over"
  /\ turn[t].ok => t \in deeds
  /\ t \in deeds => turn[t].pc \notin {"idle", "decide", "call"}
  /\ faults = 0 /\ t \in deeds => turn[t].ok
  /\ faults = 0 /\ t \in deeds /\ turn[t].pc = "over" => \E m \in messages : m.turn = t

ChatInv == ChatTypes /\ ChatSaved /\ \A t \in Turns : ChatReads(t) /\ ChatDoes(t)
-----------------------------------------------------------------------------
(* ChatTurns: what the operators of the library are here.                  *)

\* The instance counts as this module does.
LEMMA ChatCardinality == \A S : Chat!Cardinality(S) = Cardinality(S)
  <1>1. \A S : Chat!IsFiniteSet(S) = IsFiniteSet(S)
    BY DEF Chat!IsFiniteSet, IsFiniteSet
  <1> QED BY <1>1 DEF Chat!Cardinality, Cardinality

\* A sequence made of a set holds every element of the set, once.
LEMMA ChatSequences ==
  ASSUME NEW T, NEW S \in SUBSET T, IsFiniteSet(S), NEW h \in Chat!SetToSeqs(S)
  PROVE  h \in Seq(T) /\ Len(h) = Cardinality(S) /\ Chat!ToSet(h) = S
  <1> DEFINE D == 1 .. Cardinality(S)
             H == {h[i] : i \in D}
  <1>1. /\ h \in [D -> S]
        /\ \A i, j \in D : i # j => h[i] # h[j]
    BY ChatCardinality DEF Chat!SetToSeqs
  <1>2. Cardinality(S) \in Nat
    BY FS_CardinalityType
  <1>3. h \in Seq(T) /\ Len(h) = Cardinality(S) /\ DOMAIN h = D
    BY <1>1, <1>2
  <1>4. h \in Bijection(D, H)
    BY <1>1 DEF Bijection, Injection, Surjection, IsInjective
  <1>5. IsFiniteSet(D) /\ Cardinality(D) = Cardinality(S)
    BY <1>2, FS_Interval
  <1>6. IsFiniteSet(H) /\ Cardinality(H) = Cardinality(S)
    BY <1>4, <1>5, FS_Bijection DEF ExistsBijection
  <1>7. H \in SUBSET S
    BY <1>1
  <1>8. S = H
    BY <1>6, <1>7, FS_Subset
  <1> QED BY <1>3, <1>8 DEF Chat!ToSet

\* Rows that come in pairs are an even number of rows.
LEMMA ChatPairsAreEven ==
  ASSUME NEW S \in SUBSET ChatRow, IsFiniteSet(S), ChatPaired(S)
  PROVE  \E pairs \in Nat : Cardinality(S) = 2 * pairs
  <1> DEFINE U == {m \in S : m.role = "user"}
             A == {m \in S : m.role = "assistant"}
             other == [m \in U |-> CHOOSE n \in A : n.turn = m.turn]
  <1>1. S = U \cup A /\ U \cap A = {}
    BY DEF ChatRow, Chat!Roles
  <1>2. \A m \in S : (\E n \in U : n.turn = m.turn) /\ \E n \in A : n.turn = m.turn
    BY DEF ChatPaired, Chat!Roles
  <1>3. \A m \in U : other[m] \in A /\ other[m].turn = m.turn
    BY <1>2
  <1>4. \A m, n \in S : m.turn = n.turn /\ m.role = n.role => m = n
    BY DEF ChatPaired
  <1>5. other \in [U -> A]
    BY <1>3
  <1>6. \A m, n \in U : m.turn = n.turn => m = n
    BY <1>4
  <1>7. \A m, n \in A : m.turn = n.turn => m = n
    BY <1>4
  <1>8. \A n \in A : \E m \in U : other[m] = n
    <2> TAKE n \in A
    <2>1. PICK m \in U : m.turn = n.turn
      BY <1>2
    <2>2. other[m] = n
      BY <1>3, <1>7, <2>1
    <2> QED BY <2>2
  <1>9. \A m, n \in U : other[m] = other[n] => m = n
    BY <1>3, <1>6
  <1> HIDE DEF other
  <1>10. other \in Bijection(U, A)
    BY <1>5, <1>8, <1>9 DEF Bijection, Injection, Surjection, IsInjective
  <1>11. U \in SUBSET S
    OBVIOUS
  <1> HIDE DEF U, A
  <1>12. IsFiniteSet(U)
    BY <1>11, FS_Subset
  <1>13. IsFiniteSet(A) /\ Cardinality(A) = Cardinality(U)
    BY <1>10, <1>12, FS_Bijection DEF ExistsBijection
  <1>14. Cardinality(S) = Cardinality(U) + Cardinality(A) - Cardinality(U \cap A)
    BY <1>1, <1>12, <1>13, FS_Union
  <1>15. Cardinality(U) \in Nat /\ Cardinality(U \cap A) = 0
    BY <1>1, <1>12, FS_CardinalityType, FS_EmptySet
  <1>16. Cardinality(S) = 2 * Cardinality(U)
    BY <1>13, <1>14, <1>15
  <1> QED BY <1>15, <1>16

\* The newest rows of a conversation are whole turns: an even number of them cannot
\* split the oldest one.
LEMMA ChatNewestAreWhole ==
  ASSUME Chat!ChatAssumption, NEW R \in SUBSET ChatRow, IsFiniteSet(R), ChatPaired(R), NEW S \in SUBSET R,
         Cardinality(S) = IF Cardinality(R) < HistoryLimit THEN Cardinality(R) ELSE HistoryLimit,
         \A m \in S, n \in R \ S : n.at =< m.at
  PROVE  /\ \A m \in S, n \in R : n.turn = m.turn => n \in S
         /\ \A m \in S, n \in R \ S : n.at < m.at
  <1>1. \A m \in R : m.at \in Nat
    BY DEF ChatRow
  <1>2. /\ \A m \in R, r \in Chat!Roles : \E n \in R : n.turn = m.turn /\ n.role = r
        /\ \A m, n \in R : m.turn = n.turn <=> m.at = n.at
        /\ \A m, n \in R : m.turn = n.turn /\ m.role = n.role => m = n
    BY DEF ChatPaired
  <1>3. ASSUME NEW m \in S, NEW n \in R \ S, n.turn = m.turn
        PROVE  FALSE
    <2> DEFINE Q == S \ {m}
    <2>1. m.at = n.at /\ m # n /\ m \in R /\ n \in R /\ m.at \in Nat
      BY <1>1, <1>2, <1>3
    <2>2. m.role # n.role /\ m.role \in Chat!Roles /\ n.role \in Chat!Roles
      BY <1>2, <1>3, <2>1 DEF ChatRow
    <2>3. \A p \in Q : p.turn # m.turn
      <3> SUFFICES ASSUME NEW p \in Q, p.turn = m.turn
                   PROVE  FALSE
        OBVIOUS
      <3>1. p.role \in Chat!Roles /\ p \in R
        BY DEF ChatRow
      <3>2. p.role = m.role \/ p.role = n.role
        BY <2>2, <3>1 DEF Chat!Roles
      <3>3. p = m \/ p = n
        BY <1>2, <1>3, <2>1, <3>1, <3>2
      <3> QED BY <1>3, <3>3
    <2>4. \A p \in Q : p.at > m.at /\ p.at \in Nat
      <3> TAKE p \in Q
      <3>1. p \in R /\ p \in S /\ n.at =< p.at
        BY <1>3
      <3>2. p.at # m.at
        BY <1>2, <2>1, <2>3, <3>1
      <3> QED BY <1>1, <2>1, <3>1, <3>2
    <2>5. \A p \in Q, r \in Chat!Roles : \E o \in Q : o.turn = p.turn /\ o.role = r
      <3> TAKE p \in Q, r \in Chat!Roles
      <3>1. PICK o \in R : o.turn = p.turn /\ o.role = r
        BY <1>2
      <3>2. o.at = p.at /\ p.at > m.at /\ p.at \in Nat
        BY <1>2, <2>4, <3>1
      <3>3. o # m
        BY <2>1, <3>2
      <3>4. o \in S
        BY <1>1, <2>1, <3>1, <3>2
      <3> QED BY <3>1, <3>3, <3>4
    <2>6. ChatPaired(Q)
      BY <1>2, <2>5 DEF ChatPaired
    <2>7. IsFiniteSet(S) /\ Cardinality(S) \in Nat /\ Cardinality(R) \in Nat
      BY FS_Subset, FS_CardinalityType
    <2>8. IsFiniteSet(Q) /\ Cardinality(Q) = Cardinality(S) - 1
      BY <2>7, FS_RemoveElement
    <2>9. PICK k \in Nat : Cardinality(Q) = 2 * k
      BY <2>6, <2>8, ChatPairsAreEven
    <2>10. Cardinality(S) # Cardinality(R)
      BY <1>3, FS_Subset
    <2>11. PICK pairs \in Nat : HistoryLimit = 2 * pairs
      BY DEF Chat!ChatAssumption
    <2>12. Cardinality(S) = 2 * pairs
      BY <2>10, <2>11
    <2> QED BY <2>7, <2>8, <2>9, <2>12
  <1>4. \A m \in S, n \in R : n.turn = m.turn => n \in S
    BY <1>3
  <1>5. ASSUME NEW m \in S, NEW n \in R \ S
        PROVE  n.at < m.at
    <2>1. m.at # n.at /\ m.at \in Nat /\ n.at \in Nat /\ n.at =< m.at
      BY <1>1, <1>2, <1>4
    <2> QED BY <2>1
  <1> QED BY <1>4, <1>5

-----------------------------------------------------------------------------
(* ChatTurns: every step keeps the invariant.                              *)

\* A step of one turn that saves nothing and opens nothing keeps the invariant when what
\* the turn does next agrees with what there is of it.
LEMMA ChatMoves ==
  ASSUME Chat!ChatAssumption, ChatInv, NEW t \in Turns, NEW r \in ChatRequest, NEW frame \in Chat!Frames,
         turn' = [turn EXCEPT ![t] = r], seen' = [seen EXCEPT ![t] = frame],
         owner' = owner, messages' = messages, clock' = clock,
         deeds' = deeds \/ deeds' = deeds \cup {t},
         faults' = faults \/ Chat!Fault,
         turn[t].pc # "idle", r.pc # "idle",
         r.company = turn[t].company, r.thread = turn[t].thread,
         r.history = turn[t].history, r.past = turn[t].past,
         (\E m \in messages : m.turn = t) =>
            /\ r.pc \in {"show", "over"} /\ frame # "error"
            /\ r.tool = turn[t].tool /\ (r.ok => turn[t].ok),
         ChatDoes(t)'
  PROVE  ChatInv'
  <1>1. ChatTypes /\ ChatSaved /\ (\A u \in Turns : ChatReads(u)) /\ \A u \in Turns : ChatDoes(u)
    BY DEF ChatInv
  <1>2. /\ turn \in [Turns -> ChatRequest] /\ seen \in [Turns -> Chat!Frames]
        /\ faults \in 0 .. MaxFaults /\ deeds \subseteq Turns /\ MaxFaults \in Nat
    BY <1>1 DEF ChatTypes, Chat!ChatAssumption
  <1>3. /\ turn'[t] = r /\ seen'[t] = frame
        /\ \A u \in Turns : u # t => turn'[u] = turn[u] /\ seen'[u] = seen[u]
        /\ turn' \in [Turns -> ChatRequest] /\ seen' \in [Turns -> Chat!Frames]
    BY <1>2
  <1>4. faults' \in 0 .. MaxFaults /\ (faults' = 0 => faults = 0)
    BY <1>2 DEF Chat!Fault
  <1>5. ChatTypes'
    BY <1>1, <1>2, <1>3, <1>4 DEF ChatTypes, ChatRow, ChatRequest
  <1>6. ChatPaired(messages)'
    BY <1>1 DEF ChatSaved, ChatPaired
  <1>7. ASSUME NEW m \in messages
        PROVE  /\ m.at =< clock
               /\ turn'[m.turn].pc \in {"show", "over"} /\ seen'[m.turn] # "error"
               /\ turn'[m.turn].thread = m.thread
               /\ m.ok => m.turn \in deeds'
               /\ m.role = "assistant" =>
                     m.tool = turn'[m.turn].tool /\ (turn'[m.turn].ok => m.ok)
    <2>1. /\ m.at =< clock
          /\ turn[m.turn].pc \in {"show", "over"} /\ seen[m.turn] # "error"
          /\ turn[m.turn].thread = m.thread
          /\ m.ok => m.turn \in deeds
          /\ m.role = "assistant" => m.tool = turn[m.turn].tool /\ (turn[m.turn].ok => m.ok)
      BY <1>1 DEF ChatSaved
    <2>2. m.turn \in Turns
      BY <1>1 DEF ChatTypes, ChatRow
    <2>3. m.turn # t => turn'[m.turn] = turn[m.turn] /\ seen'[m.turn] = seen[m.turn]
      BY <1>3, <2>2
    <2>4. m.turn = t => /\ r.pc \in {"show", "over"} /\ frame # "error"
                        /\ r.tool = turn[t].tool /\ (r.ok => turn[t].ok)
      OBVIOUS
    <2>5. m.turn \in deeds => m.turn \in deeds'
      OBVIOUS
    <2>6. CASE m.turn = t
      BY <1>3, <2>1, <2>4, <2>5, <2>6
    <2>7. CASE m.turn # t
      BY <2>1, <2>3, <2>5, <2>7
    <2> QED BY <2>6, <2>7
  <1>8. ChatSaved'
    BY <1>6, <1>7 DEF ChatSaved
  <1>9. ASSUME NEW u \in Turns
        PROVE  ChatReads(u)' /\ ChatDoes(u)'
    <2>1. ChatReads(u) /\ ChatDoes(u)
      BY <1>1
    <2>2. ChatReads(u)'
      <3>1. CASE u = t
        BY <1>3, <2>1, <3>1 DEF ChatReads, Chat!ToSet
      <3>2. CASE u # t
        BY <1>3, <2>1, <3>2 DEF ChatReads, Chat!ToSet
      <3> QED BY <3>1, <3>2
    <2>3. ChatDoes(u)'
      <3>1. CASE u = t
        BY <3>1
      <3>2. CASE u # t
        BY <1>3, <1>4, <2>1, <3>2 DEF ChatDoes
      <3> QED BY <3>1, <3>2
    <2> QED BY <2>2, <2>3
  <1> QED BY <1>5, <1>8, <1>9 DEF ChatInv

\* What is known of a turn that takes a step, and of the turn with other fields.
LEMMA ChatTurnNow ==
  ASSUME ChatInv, NEW t \in Turns
  PROVE  /\ turn[t] \in ChatRequest /\ seen[t] \in Chat!Frames /\ ChatDoes(t)
         /\ turn[t].pc \notin {"show", "over"} => \A m \in messages : m.turn # t
         /\ \A p \in Chat!Steps : /\ [turn[t] EXCEPT !.pc = p] \in ChatRequest
                                  /\ \A tool \in Chat!Tools \cup {none} :
                                        [turn[t] EXCEPT !.pc = p, !.tool = tool] \in ChatRequest
                                  /\ \A ok \in BOOLEAN : [turn[t] EXCEPT !.pc = p, !.ok = ok] \in ChatRequest
  <1>1. turn[t] \in ChatRequest /\ seen[t] \in Chat!Frames
    BY DEF ChatInv, ChatTypes
  <1>2. ChatDoes(t)
    BY DEF ChatInv
  <1>3. \A m \in messages : turn[m.turn].pc \in {"show", "over"}
    BY DEF ChatInv, ChatSaved
  <1> DEFINE b == turn[t]
  <1>4. b \in ChatRequest
    BY <1>1
  <1> HIDE DEF b
  <1>5. \A p \in Chat!Steps : /\ [b EXCEPT !.pc = p] \in ChatRequest
                              /\ \A tool \in Chat!Tools \cup {none} :
                                    [b EXCEPT !.pc = p, !.tool = tool] \in ChatRequest
                              /\ \A ok \in BOOLEAN : [b EXCEPT !.pc = p, !.ok = ok] \in ChatRequest
    BY <1>4 DEF ChatRequest
  <1> QED BY <1>1, <1>2, <1>3, <1>5 DEF b

\* Every step but the one that opens a turn and the one that saves it.
LEMMA ChatDecides ==
  ASSUME Chat!ChatAssumption, ChatInv, NEW t \in Turns,
         Chat!DecideFails(t) \/ Chat!Decide(t)
  PROVE  ChatInv'
  <1>1. turn[t].pc = "decide" /\ UNCHANGED <<owner, messages, clock, deeds, faults>>
    BY DEF Chat!DecideFails, Chat!Decide
  <1>2. turn[t] \in ChatRequest /\ seen[t] \in Chat!Frames /\ ChatDoes(t) /\ \A m \in messages : m.turn # t
    BY <1>1, ChatTurnNow
  <1>3. turn \in [Turns -> ChatRequest] /\ seen \in [Turns -> Chat!Frames]
    BY DEF ChatInv, ChatTypes
  <1>4. "over" \in Chat!Steps /\ "call" \in Chat!Steps /\ "stream" \in Chat!Steps
    BY DEF Chat!Steps
  <1>5. ASSUME Chat!DecideFails(t)
        PROVE  ChatInv'
    <2> DEFINE r == [turn[t] EXCEPT !.pc = "over"]
    <2>1. turn' = [turn EXCEPT ![t] = r] /\ seen' = [seen EXCEPT ![t] = "error"]
      BY <1>5 DEF Chat!DecideFails, Chat!EndWith
    <2>2. /\ r \in ChatRequest /\ r.pc = "over"
          /\ r.company = turn[t].company /\ r.thread = turn[t].thread
          /\ r.history = turn[t].history /\ r.past = turn[t].past /\ r.tool = turn[t].tool
          /\ r.ok <=> turn[t].ok
      BY <1>2, <1>4, ChatTurnNow DEF ChatRequest
    <2> HIDE DEF r
    <2>3. turn'[t] = r /\ seen'[t] = "error" /\ "error" \in Chat!Frames
      BY <1>3, <2>1 DEF Chat!Frames
    <2>4. ChatDoes(t)'
      BY <1>1, <1>2, <2>2, <2>3 DEF ChatDoes
    <2> QED BY <1>1, <1>2, <2>1, <2>2, <2>3, <2>4, ChatMoves
  <1>6. ASSUME Chat!Decide(t)
        PROVE  ChatInv'
    <2>1. PICK decision \in Chat!Tools \cup {"reply", "unknown", "invalid"}, inView \in BOOLEAN :
             IF decision \in Chat!Tools /\ (decision = "target" => inView)
             THEN turn' = [turn EXCEPT ![t].pc = "call", ![t].tool = decision]
             ELSE turn' = [turn EXCEPT ![t].pc = "stream"]
      BY <1>6 DEF Chat!Decide
    <2>2. seen' = seen
      BY <1>6 DEF Chat!Decide
    <2>3. PICK r \in ChatRequest :
             /\ turn' = [turn EXCEPT ![t] = r] /\ r.pc \in {"call", "stream"}
             /\ r.company = turn[t].company /\ r.thread = turn[t].thread
             /\ r.history = turn[t].history /\ r.past = turn[t].past
             /\ r.ok <=> turn[t].ok
      <3> DEFINE b == turn[t]
                 r1 == [b EXCEPT !.pc = "call", !.tool = decision]
                 r2 == [b EXCEPT !.pc = "stream"]
      <3>1. CASE decision \in Chat!Tools /\ (decision = "target" => inView)
        <4>1. turn' = [turn EXCEPT ![t].pc = "call", ![t].tool = decision]
          BY <2>1, <3>1
        <4>2. turn' = [turn EXCEPT ![t] = r1]
          BY <1>3, <4>1 DEF ChatRequest
        <4>3. r1 \in ChatRequest
          BY <1>4, <3>1, ChatTurnNow
        <4>4. /\ r1.pc \in {"call", "stream"} /\ r1.company = b.company /\ r1.thread = b.thread
              /\ r1.history = b.history /\ r1.past = b.past
              /\ r1.ok <=> b.ok
          BY <1>2 DEF ChatRequest
        <4> QED BY <4>2, <4>3, <4>4
      <3>2. CASE ~(decision \in Chat!Tools /\ (decision = "target" => inView))
        <4>1. turn' = [turn EXCEPT ![t] = r2] /\ r2 \in ChatRequest
          BY <1>3, <1>4, <2>1, <3>2, ChatTurnNow DEF ChatRequest
        <4>2. /\ r2.pc \in {"call", "stream"} /\ r2.company = b.company /\ r2.thread = b.thread
              /\ r2.history = b.history /\ r2.past = b.past
              /\ r2.ok <=> b.ok
          BY <1>2 DEF ChatRequest
        <4> QED BY <4>1, <4>2
      <3> QED BY <3>1, <3>2
    <2>4. turn'[t] = r /\ seen' = [seen EXCEPT ![t] = seen[t]] /\ seen'[t] = seen[t]
      BY <1>3, <2>2, <2>3
    <2>5. ChatDoes(t)'
      BY <1>1, <1>2, <2>3, <2>4 DEF ChatDoes
    <2> QED BY <1>1, <1>2, <2>3, <2>4, <2>5, ChatMoves
  <1> QED BY <1>5, <1>6

\* The tool is called.
LEMMA ChatCalls ==
  ASSUME Chat!ChatAssumption, ChatInv, NEW t \in Turns,
         Chat!ToolDone(t) \/ Chat!ToolRefused(t) \/ Chat!ToolAnswerLost(t)
  PROVE  ChatInv'
  <1>1. turn[t].pc = "call" /\ UNCHANGED <<owner, messages, clock, seen>>
    BY DEF Chat!ToolDone, Chat!ToolRefused, Chat!ToolAnswerLost
  <1>2. turn[t] \in ChatRequest /\ seen[t] \in Chat!Frames /\ ChatDoes(t) /\ \A m \in messages : m.turn # t
    BY <1>1, ChatTurnNow
  <1>3. turn \in [Turns -> ChatRequest] /\ seen \in [Turns -> Chat!Frames] /\ faults \in 0 .. MaxFaults
    BY DEF ChatInv, ChatTypes
  <1>4. PICK ok \in BOOLEAN :
           /\ turn' = [turn EXCEPT ![t].pc = "stream", ![t].ok = ok]
           /\ \/ ok = TRUE /\ deeds' = deeds \cup {t} /\ faults' = faults
              \/ ok = FALSE /\ deeds' = deeds /\ faults' = faults
              \/ ok = FALSE /\ deeds' = deeds \cup {t} /\ Chat!Fault
    BY DEF Chat!ToolDone, Chat!ToolRefused, Chat!ToolAnswerLost
  <1> DEFINE b == turn[t]
             r == [b EXCEPT !.pc = "stream", !.ok = ok]
  <1>5. "stream" \in Chat!Steps
    BY DEF Chat!Steps
  <1>6. turn' = [turn EXCEPT ![t] = r] /\ r \in ChatRequest
    <2>1. turn' = [turn EXCEPT ![t].pc = "stream", ![t].ok = ok]
      BY <1>4
    <2>2. turn' = [turn EXCEPT ![t] = r]
      BY <1>3, <2>1 DEF ChatRequest
    <2>3. r \in ChatRequest
      BY <1>5, ChatTurnNow
    <2> QED BY <2>2, <2>3
  <1>7. /\ r.pc = "stream" /\ r.company = b.company /\ r.thread = b.thread
        /\ r.history = b.history /\ r.past = b.past
        /\ r.ok <=> ok
    BY <1>2, <1>4 DEF ChatRequest
  <1> HIDE DEF r
  <1>8. turn'[t] = r /\ seen' = [seen EXCEPT ![t] = seen[t]] /\ seen'[t] = seen[t]
    BY <1>1, <1>3, <1>6
  <1>9. t \notin deeds
    BY <1>1, <1>2 DEF ChatDoes
  <1>10. Chat!Fault => faults' # 0
    BY <1>3 DEF Chat!Fault
  <1>11. /\ deeds' = deeds \/ deeds' = deeds \cup {t}
         /\ faults' = faults \/ Chat!Fault
         /\ ok => t \in deeds'
         /\ faults' = 0 /\ t \in deeds' => ok
    BY <1>4, <1>9, <1>10
  <1>12. ChatDoes(t)'
    BY <1>1, <1>2, <1>7, <1>8, <1>11 DEF ChatDoes
  <1> QED BY <1>1, <1>2, <1>6, <1>7, <1>8, <1>11, <1>12, ChatMoves

\* The turn is streamed, and ends in one of the ways it can end.
LEMMA ChatStreams ==
  ASSUME Chat!ChatAssumption, ChatInv, NEW t \in Turns,
         Chat!Stream(t) \/ Chat!ClientLeaves(t) \/ Chat!SaveFails(t) \/ Chat!Show(t)
  PROVE  ChatInv'
  <1>1. turn[t].pc \in {"stream", "save", "show"} /\ UNCHANGED <<owner, messages, clock, deeds>>
    BY DEF Chat!Stream, Chat!ClientLeaves, Chat!SaveFails, Chat!Show
  <1>2. /\ turn[t] \in ChatRequest /\ seen[t] \in Chat!Frames /\ ChatDoes(t)
        /\ turn[t].pc # "show" => \A m \in messages : m.turn # t
    BY <1>1, ChatTurnNow
  <1>3. turn \in [Turns -> ChatRequest] /\ seen \in [Turns -> Chat!Frames] /\ faults \in 0 .. MaxFaults
    BY DEF ChatInv, ChatTypes
  <1>4. Chat!Fault => faults' # 0
    BY <1>3 DEF Chat!Fault
  <1> DEFINE Ends(p, frame) ==
           /\ turn' = [turn EXCEPT ![t].pc = p] /\ seen' = [seen EXCEPT ![t] = frame]
           /\ \/ /\ turn[t].pc = "stream" /\ p = "save" /\ frame \notin {"done", "error"} /\ faults' = faults
              \/ /\ turn[t].pc \in {"stream", "save"} /\ p = "over" /\ frame = seen[t] /\ Chat!Fault
              \/ /\ turn[t].pc = "save" /\ p = "over" /\ frame = "error" /\ Chat!Fault
              \/ /\ turn[t].pc = "show" /\ p = "over" /\ frame = "done" /\ faults' = faults
  <1>5. PICK p \in Chat!Steps, frame \in Chat!Frames : Ends(p, frame)
    <2>1. \A p \in {"save", "over"} : p \in Chat!Steps
      BY DEF Chat!Steps
    <2>2. \A frame \in {"result", "error", "done"} : frame \in Chat!Frames
      BY DEF Chat!Frames
    <2>3. ASSUME Chat!Stream(t) PROVE \E p \in Chat!Steps, frame \in Chat!Frames : Ends(p, frame)
      <3> DEFINE frame == IF turn[t].tool = none THEN seen[t] ELSE "result"
      <3>1. turn' = [turn EXCEPT ![t].pc = "save"] /\ seen' = [seen EXCEPT ![t] = frame] /\ turn[t].pc = "stream"
            /\ faults' = faults
        BY <1>3, <2>3 DEF Chat!Stream
      <3>2. frame \in Chat!Frames /\ frame \notin {"done", "error"}
        BY <1>2, <2>2, <3>1 DEF ChatDoes
      <3> HIDE DEF frame
      <3>3. Ends("save", frame)
        BY <3>1, <3>2
      <3> QED BY <2>1, <3>2, <3>3
    <2>4. ASSUME Chat!ClientLeaves(t) PROVE \E p \in Chat!Steps, frame \in Chat!Frames : Ends(p, frame)
      <3>1. seen' = [seen EXCEPT ![t] = seen[t]]
        BY <1>3, <2>4 DEF Chat!ClientLeaves
      <3>2. Ends("over", seen[t])
        BY <2>4, <3>1 DEF Chat!ClientLeaves
      <3> QED BY <1>2, <2>1, <3>2
    <2>5. ASSUME Chat!SaveFails(t) PROVE \E p \in Chat!Steps, frame \in Chat!Frames : Ends(p, frame)
      <3>1. Ends("over", "error")
        BY <2>5 DEF Chat!SaveFails, Chat!EndWith
      <3> QED BY <2>1, <2>2, <3>1
    <2>6. ASSUME Chat!Show(t) PROVE \E p \in Chat!Steps, frame \in Chat!Frames : Ends(p, frame)
      <3>1. Ends("over", "done")
        BY <2>6 DEF Chat!Show, Chat!EndWith
      <3> QED BY <2>1, <2>2, <3>1
    <2> QED BY <2>3, <2>4, <2>5, <2>6
  <1> DEFINE b == turn[t]
             r == [b EXCEPT !.pc = p]
  <1>6. turn' = [turn EXCEPT ![t] = r] /\ r \in ChatRequest
    BY <1>3, <1>5, ChatTurnNow DEF ChatRequest
  <1>7. /\ r.pc = p /\ r.company = b.company /\ r.thread = b.thread
        /\ r.history = b.history /\ r.past = b.past /\ r.tool = b.tool
        /\ r.ok <=> b.ok
    BY <1>2, <1>5 DEF ChatRequest
  <1> HIDE DEF r
  <1>8. turn'[t] = r /\ seen'[t] = frame
    BY <1>3, <1>5, <1>6
  <1>9. ChatDoes(t)'
    BY <1>1, <1>2, <1>4, <1>5, <1>7, <1>8 DEF ChatDoes
  <1> QED BY <1>1, <1>2, <1>4, <1>5, <1>6, <1>7, <1>8, <1>9, ChatMoves

\* A turn opens a conversation: the history it is given is the newest whole turns of it.
LEMMA ChatHistories ==
  ASSUME Chat!ChatAssumption, ChatInv, NEW th \in Threads, NEW h \in Chat!Histories(th)
  PROVE  LET past == Chat!RowsOf(th)
             kept == Chat!ToSet(h) IN
         /\ past \subseteq messages /\ h \in Seq(ChatRow) /\ Len(h) =< HistoryLimit /\ kept \subseteq past
         /\ \A m \in past : m.thread = th
         /\ \A m \in kept, n \in past : n.turn = m.turn => n \in kept
         /\ \A m \in kept, n \in past \ kept : n.at < m.at
  <1> DEFINE R == Chat!RowsOf(th)
             size == IF Cardinality(R) < HistoryLimit THEN Cardinality(R) ELSE HistoryLimit
  <1>1. R \subseteq messages /\ \A m \in messages : m \in R <=> m.thread = th
    BY DEF Chat!RowsOf
  <1>2. messages \subseteq ChatRow /\ IsFiniteSet(messages)
    BY DEF ChatInv, ChatTypes
  <1>3. ChatPaired(messages) /\ \A m \in messages : turn[m.turn].thread = m.thread
    BY DEF ChatInv, ChatSaved
  <1>4. R \in SUBSET ChatRow /\ IsFiniteSet(R) /\ Cardinality(R) \in Nat
    BY <1>1, <1>2, FS_Subset, FS_CardinalityType
  <1>5. ChatPaired(R)
    <2>1. /\ \A m \in messages, r \in Chat!Roles : \E n \in messages : n.turn = m.turn /\ n.role = r
          /\ \A m, n \in messages : m.turn = n.turn <=> m.at = n.at
          /\ \A m, n \in messages : m.turn = n.turn /\ m.role = n.role => m = n
      BY <1>3 DEF ChatPaired
    <2>2. \A m \in R, r \in Chat!Roles : \E n \in R : n.turn = m.turn /\ n.role = r
      <3> TAKE m \in R, r \in Chat!Roles
      <3>1. PICK n \in messages : n.turn = m.turn /\ n.role = r
        BY <1>1, <2>1
      <3>2. n.thread = th
        BY <1>1, <1>3, <3>1
      <3> QED BY <1>1, <3>1, <3>2
    <2> QED BY <1>1, <2>1, <2>2 DEF ChatPaired
  <1>6. PICK S \in SUBSET R : /\ Cardinality(S) = size
                              /\ \A m \in S, n \in R \ S : n.at =< m.at
                              /\ h \in Chat!SetToSeqs(S)
    BY ChatCardinality DEF Chat!Histories
  <1> HIDE DEF R
  <1>7. IsFiniteSet(S) /\ S \in SUBSET ChatRow
    BY <1>4, FS_Subset
  <1>8. h \in Seq(ChatRow) /\ Len(h) = Cardinality(S) /\ Chat!ToSet(h) = S
    BY <1>6, <1>7, ChatSequences
  <1>9. size =< HistoryLimit
    BY <1>4 DEF Chat!ChatAssumption
  <1>10. /\ \A m \in S, n \in R : n.turn = m.turn => n \in S
         /\ \A m \in S, n \in R \ S : n.at < m.at
    <2>1. Cardinality(S) = IF Cardinality(R) < HistoryLimit THEN Cardinality(R) ELSE HistoryLimit
      BY <1>6
    <2> QED BY <1>4, <1>5, <1>6, <2>1, ChatNewestAreWhole
  <1>11. Len(h) =< HistoryLimit
    BY <1>6, <1>8, <1>9
  <1>12. \A m \in R : m.thread = th
    BY <1>1
  <1> QED BY <1>1, <1>8, <1>10, <1>11, <1>12 DEF R

\* A request that holds nothing yet.
LEMMA ChatNewTurn ==
  LET r == Chat!NewTurn IN
  r.pc = "idle" /\ r.past = {} /\ r.history = <<>> /\ r.ok = FALSE /\ r \in ChatRequest
  <1>1. "idle" \in Chat!Steps /\ <<>> \in Seq(ChatRow) /\ {} \in SUBSET ChatRow
    BY DEF Chat!Steps
  <1> QED BY <1>1 DEF Chat!NewTurn, ChatRequest

\* A request opens its turn.
LEMMA ChatOpens ==
  ASSUME Chat!ChatAssumption, ChatInv, NEW t \in Turns, Chat!Open(t)
  PROVE  ChatInv'
  <1>1. ChatTypes /\ ChatSaved /\ (\A u \in Turns : ChatReads(u)) /\ \A u \in Turns : ChatDoes(u)
    BY DEF ChatInv
  <1>2. turn[t].pc = "idle" /\ UNCHANGED <<messages, clock, seen, deeds, faults>>
    BY DEF Chat!Open
  <1>3. PICK company \in Companies, asked1 \in Threads \cup {none} :
           \E th \in Chat!Effective(company, asked1) : \E h \in Chat!Histories(th) :
              /\ owner' = [owner EXCEPT ![th] = company]
              /\ turn' = [turn EXCEPT ![t] = [Chat!NewTurn EXCEPT
                              !.pc = "decide", !.company = company, !.thread = th,
                              !.history = h, !.past = Chat!RowsOf(th)]]
    BY DEF Chat!Open
  <1>4a. PICK th \in Chat!Effective(company, asked1) : \E h \in Chat!Histories(th) :
              /\ owner' = [owner EXCEPT ![th] = company]
              /\ turn' = [turn EXCEPT ![t] = [Chat!NewTurn EXCEPT
                              !.pc = "decide", !.company = company, !.thread = th,
                              !.history = h, !.past = Chat!RowsOf(th)]]
    BY <1>3
  <1>4. PICK h \in Chat!Histories(th) :
              /\ owner' = [owner EXCEPT ![th] = company]
              /\ turn' = [turn EXCEPT ![t] = [Chat!NewTurn EXCEPT
                              !.pc = "decide", !.company = company, !.thread = th,
                              !.history = h, !.past = Chat!RowsOf(th)]]
    BY <1>4a
  <1>5. th \in Threads /\ (owner[th] = company \/ owner[th] = none)
    BY DEF Chat!Effective
  <1>6. /\ turn \in [Turns -> ChatRequest] /\ owner \in [Threads -> Companies \cup {none}]
        /\ messages \subseteq ChatRow /\ none \notin Companies
    BY <1>1 DEF ChatTypes, Chat!ChatAssumption
  <1> DEFINE past == Chat!RowsOf(th)
             kept == Chat!ToSet(h)
             r == [Chat!NewTurn EXCEPT !.pc = "decide", !.company = company, !.thread = th,
                                       !.history = h, !.past = past]
  <1>7. /\ past \subseteq messages /\ h \in Seq(ChatRow) /\ Len(h) =< HistoryLimit /\ kept \subseteq past
        /\ \A m \in past : m.thread = th
        /\ \A m \in kept, n \in past : n.turn = m.turn => n \in kept
        /\ \A m \in kept, n \in past \ kept : n.at < m.at
    BY <1>5, ChatHistories
  <1>8. turn' = [turn EXCEPT ![t] = r]
    BY <1>4
  <1> HIDE DEF past
  <1>9. /\ r.pc = "decide" /\ r.company = company /\ r.thread = th /\ r.history = h /\ r.past = past
        /\ r.ok = FALSE /\ r \in ChatRequest
    <2>1. past \in SUBSET ChatRow /\ "decide" \in Chat!Steps
      BY <1>6, <1>7 DEF Chat!Steps
    <2>2. Chat!NewTurn \in ChatRequest /\ Chat!NewTurn.ok = FALSE
      BY ChatNewTurn
    <2> QED BY <1>5, <1>7, <2>1, <2>2 DEF ChatRequest
  <1> HIDE DEF r, kept
  <1>10. /\ turn'[t] = r /\ \A u \in Turns : u # t => turn'[u] = turn[u]
         /\ turn' \in [Turns -> ChatRequest]
    BY <1>6, <1>8, <1>9
  <1>11. /\ owner'[th] = company /\ \A o \in Threads : o # th => owner'[o] = owner[o]
         /\ owner' \in [Threads -> Companies \cup {none}]
    BY <1>4, <1>5, <1>6
  <1>12. \A m \in messages : m.turn # t /\ m.turn \in Turns
    BY <1>1, <1>2, <1>6 DEF ChatSaved, ChatRow
  <1>13. ChatTypes'
    BY <1>1, <1>2, <1>10, <1>11 DEF ChatTypes, ChatRow, ChatRequest
  <1>14. ChatSaved'
    <2>1. ChatPaired(messages)'
      BY <1>1, <1>2 DEF ChatSaved, ChatPaired
    <2>2. \A m \in messages : turn'[m.turn] = turn[m.turn]
      BY <1>10, <1>12
    <2> QED BY <1>1, <1>2, <2>1, <2>2 DEF ChatSaved
  <1>15. ASSUME NEW u \in Turns
         PROVE  ChatReads(u)' /\ ChatDoes(u)'
    <2>1. ChatReads(u) /\ ChatDoes(u)
      BY <1>1
    <2>2. CASE u = t
      <3>1. ChatReads(t)'
        <4>1. /\ turn'[t].pc = "decide" /\ turn'[t].company = company /\ turn'[t].thread = th
              /\ turn'[t].history = h /\ turn'[t].past = past
          BY <1>9, <1>10
        <4>2. Chat!ToSet(turn[t].history)' = kept
          BY <4>1 DEF kept, Chat!ToSet
        <4> QED BY <1>2, <1>5, <1>7, <1>11, <4>1, <4>2 DEF ChatReads
      <3>2. t \notin deeds /\ seen[t] \notin {"done", "error"}
        BY <1>2, <2>1, <2>2 DEF ChatDoes
      <3>3. ChatDoes(t)'
        BY <1>2, <1>9, <1>10, <3>2 DEF ChatDoes
      <3> QED BY <2>2, <3>1, <3>3
    <2>3. CASE u # t
      <3>1. turn'[u] = turn[u]
        BY <1>10, <2>3
      <3>2. turn[u].pc # "idle" => owner'[turn[u].thread] = turn[u].company
        BY <1>5, <1>6, <1>11, <2>1 DEF ChatReads
      <3>3. ChatReads(u)'
        BY <1>2, <2>1, <3>1, <3>2 DEF ChatReads, Chat!ToSet
      <3>4. ChatDoes(u)'
        BY <1>2, <2>1, <3>1 DEF ChatDoes
      <3> QED BY <3>3, <3>4
    <2> QED BY <2>2, <2>3
  <1> QED BY <1>13, <1>14, <1>15 DEF ChatInv

\* A turn is saved: both its rows, with a stamp no other row has.
LEMMA ChatSaves ==
  ASSUME Chat!ChatAssumption, ChatInv, NEW t \in Turns, Chat!Save(t)
  PROVE  ChatInv'
  <1>1. ChatTypes /\ ChatSaved /\ (\A u \in Turns : ChatReads(u)) /\ \A u \in Turns : ChatDoes(u)
    BY DEF ChatInv
  <1>2. /\ turn[t].pc = "save" /\ UNCHANGED <<owner, seen, deeds, faults>>
        /\ clock' = clock + 1 /\ turn' = [turn EXCEPT ![t].pc = "show"]
        /\ messages' = messages \cup Chat!Rows(t, turn[t].tool, turn[t].ok, clock')
    BY DEF Chat!Save
  <1>3. /\ turn \in [Turns -> ChatRequest] /\ messages \subseteq ChatRow /\ IsFiniteSet(messages)
        /\ clock \in Nat /\ turn[t] \in ChatRequest /\ seen \in [Turns -> Chat!Frames]
    BY <1>1 DEF ChatTypes
  <1>4. ChatReads(t) /\ ChatDoes(t)
    BY <1>1
  <1>5. turn[t].thread \in Threads /\ turn[t].tool \in Chat!Tools \cup {none} /\ turn[t].ok \in BOOLEAN
    BY <1>2, <1>3, <1>4 DEF ChatReads, ChatRequest
  <1> DEFINE b == turn[t]
             r == [b EXCEPT !.pc = "show"]
             Row(role) == [thread |-> b.thread, turn |-> t, role |-> role, at |-> clock',
                           tool |-> IF role = "user" THEN none ELSE b.tool, ok |-> role = "assistant" /\ b.ok]
             q == Row("user")
             a == Row("assistant")
  <1>6. Chat!Rows(t, b.tool, b.ok, clock') = {q, a}
    BY DEF Chat!Rows, Chat!Roles
  <1>7. /\ q.turn = t /\ q.role = "user" /\ q.at = clock' /\ q.thread = b.thread /\ (q.ok <=> FALSE)
        /\ a.turn = t /\ a.role = "assistant" /\ a.at = clock' /\ a.thread = b.thread /\ (a.ok <=> b.ok)
        /\ a.tool = b.tool
    OBVIOUS
  <1>8. q \in ChatRow /\ a \in ChatRow
    <2>1. ("assistant" = "assistant" /\ b.ok) \in BOOLEAN /\ ("user" = "assistant" /\ b.ok) \in BOOLEAN
      OBVIOUS
    <2>2. clock' \in Nat /\ "user" \in Chat!Roles /\ "assistant" \in Chat!Roles
      BY <1>2, <1>3 DEF Chat!Roles
    <2> QED BY <1>5, <2>1, <2>2 DEF ChatRow
  <1> HIDE DEF q, a, Row
  <1>9. messages' = messages \cup {q, a}
    BY <1>2, <1>6
  <1>10. /\ turn' = [turn EXCEPT ![t] = r] /\ r.pc = "show" /\ r.company = b.company /\ r.thread = b.thread
         /\ r.history = b.history /\ r.past = b.past /\ r.tool = b.tool /\ (r.ok <=> b.ok)
         /\ r \in ChatRequest
    <2>1. "show" \in Chat!Steps
      BY DEF Chat!Steps
    <2>2. r \in ChatRequest
      BY <2>1, ChatTurnNow
    <2>3. turn' = [turn EXCEPT ![t] = r]
      BY <1>2, <1>3
    <2>4. /\ r.pc = "show" /\ r.company = b.company /\ r.thread = b.thread
          /\ r.history = b.history /\ r.past = b.past /\ r.tool = b.tool /\ (r.ok <=> b.ok)
      BY <1>3 DEF ChatRequest
    <2> QED BY <2>2, <2>3, <2>4
  <1> HIDE DEF r
  <1>11. /\ turn'[t] = r /\ \A u \in Turns : u # t => turn'[u] = turn[u]
         /\ turn' \in [Turns -> ChatRequest]
    BY <1>3, <1>10
  <1>12. \A m \in messages : m.turn # t /\ m.turn \in Turns /\ m.at =< clock /\ m.at \in Nat
    BY <1>1, <1>2, <1>3 DEF ChatSaved, ChatRow
  <1>13. IsFiniteSet(messages')
    <2>1. IsFiniteSet({q} \cup {a}) /\ {q} \cup {a} = {q, a}
      BY FS_Union, FS_Singleton
    <2>2. IsFiniteSet(messages \cup {q, a})
      BY <1>3, <2>1, FS_Union
    <2> QED BY <1>9, <2>2
  <1>14. ChatTypes'
    <2>1. messages' \subseteq ChatRow /\ clock' \in Nat
      BY <1>2, <1>3, <1>8, <1>9
    <2> QED BY <1>1, <1>2, <1>11, <1>13, <2>1 DEF ChatTypes, ChatRow, ChatRequest
  <1>15. ChatPaired(messages)'
    <2>1. /\ \A m \in messages, role \in Chat!Roles : \E n \in messages : n.turn = m.turn /\ n.role = role
          /\ \A m, n \in messages : m.turn = n.turn <=> m.at = n.at
          /\ \A m, n \in messages : m.turn = n.turn /\ m.role = n.role => m = n
      BY <1>1 DEF ChatSaved, ChatPaired
    <2>2. \A m \in {q, a} : m.turn = t /\ m.at = clock'
      BY <1>7
    <2>3. \A m \in messages : m.at # clock' /\ m.turn # t
      BY <1>2, <1>3, <1>12
    <2>4. \A m \in messages', role \in Chat!Roles : \E n \in messages' : n.turn = m.turn /\ n.role = role
      <3> TAKE m \in messages', role \in Chat!Roles
      <3>1. CASE m \in messages
        BY <1>9, <2>1, <3>1
      <3>2. CASE m \in {q, a}
        BY <1>7, <1>9, <2>2, <3>2 DEF Chat!Roles
      <3> QED BY <1>9, <3>1, <3>2
    <2>5. \A m, n \in messages' : m.turn = n.turn <=> m.at = n.at
      BY <1>9, <2>1, <2>2, <2>3
    <2>6. \A m, n \in {q, a} : m.role = n.role => m = n
      BY <1>7
    <2>7. \A m, n \in messages' : m.turn = n.turn /\ m.role = n.role => m = n
      BY <1>9, <2>1, <2>2, <2>3, <2>6
    <2> QED BY <2>4, <2>5, <2>7 DEF ChatPaired, Chat!Roles
  <1>16. seen[t] # "error" /\ (b.ok => t \in deeds)
    BY <1>2, <1>4 DEF ChatDoes
  <1>17. ASSUME NEW m \in messages'
         PROVE  /\ m.at =< clock'
                /\ turn'[m.turn].pc \in {"show", "over"} /\ seen'[m.turn] # "error"
                /\ turn'[m.turn].thread = m.thread
                /\ m.ok => m.turn \in deeds'
                /\ m.role = "assistant" =>
                      m.tool = turn'[m.turn].tool /\ (turn'[m.turn].ok => m.ok)
    <2>1. CASE m \in messages
      <3>1. turn'[m.turn] = turn[m.turn]
        BY <1>11, <1>12, <2>1
      <3>2. m.at =< clock'
        BY <1>2, <1>3, <1>12, <2>1
      <3>3. /\ turn[m.turn].pc \in {"show", "over"} /\ seen[m.turn] # "error"
            /\ turn[m.turn].thread = m.thread
            /\ m.ok => m.turn \in deeds
            /\ m.role = "assistant" => m.tool = turn[m.turn].tool /\ (turn[m.turn].ok => m.ok)
        BY <1>1, <2>1 DEF ChatSaved
      <3> QED BY <1>2, <3>1, <3>2, <3>3
    <2>2. CASE m = q
      <3>1. q.at =< clock'
        BY <1>2, <1>3, <1>7
      <3> QED BY <1>2, <1>7, <1>10, <1>11, <1>16, <2>2, <3>1
    <2>3. CASE m = a
      <3>1. a.at =< clock'
        BY <1>2, <1>3, <1>7
      <3> QED BY <1>2, <1>7, <1>10, <1>11, <1>16, <2>3, <3>1
    <2> QED BY <1>9, <2>1, <2>2, <2>3
  <1>18. ChatSaved'
    BY <1>15, <1>17 DEF ChatSaved
  <1>19. ASSUME NEW u \in Turns
         PROVE  ChatReads(u)' /\ ChatDoes(u)'
    <2>1. ChatReads(u) /\ ChatDoes(u)
      BY <1>1
    <2>2. messages \subseteq messages'
      BY <1>9
    <2>3. CASE u = t
      <3>1. ChatReads(t)'
        BY <1>2, <1>4, <1>10, <1>11, <2>2 DEF ChatReads, Chat!ToSet
      <3>2. \E m \in messages' : m.turn = t
        BY <1>7, <1>9
      <3>3. ChatDoes(t)'
        BY <1>2, <1>4, <1>10, <1>11, <3>2 DEF ChatDoes
      <3> QED BY <2>3, <3>1, <3>3
    <2>4. CASE u # t
      <3>1. turn'[u] = turn[u]
        BY <1>11, <2>4
      <3>2. ChatReads(u)'
        BY <1>2, <2>1, <2>2, <3>1 DEF ChatReads, Chat!ToSet
      <3>3. ChatDoes(u)'
        BY <1>2, <2>1, <2>2, <3>1 DEF ChatDoes
      <3> QED BY <3>2, <3>3
    <2> QED BY <2>3, <2>4
  <1> QED BY <1>14, <1>18, <1>19 DEF ChatInv

\* The invariant holds at the start.
LEMMA ChatInvInit ==
  ASSUME Chat!ChatAssumption, Chat!Init
  PROVE  ChatInv
  <1>1. /\ owner = [th \in Threads |-> none] /\ messages = {} /\ clock = 0
        /\ turn = [t \in Turns |-> Chat!NewTurn] /\ seen = [t \in Turns |-> "nothing"]
        /\ deeds = {} /\ faults = 0 /\ MaxFaults \in Nat /\ HistoryLimit \in Nat
    BY DEF Chat!Init, Chat!ChatAssumption
  <1> DEFINE r == Chat!NewTurn
  <1>2. r.pc = "idle" /\ r.past = {} /\ r.history = <<>> /\ r.ok = FALSE /\ r \in ChatRequest
    BY ChatNewTurn
  <1> HIDE DEF r
  <1>3. ChatTypes
    <2>1. 0 \in 0 .. MaxFaults /\ "nothing" \in Chat!Frames /\ IsFiniteSet({})
      BY <1>1, FS_EmptySet DEF Chat!Frames
    <2> QED BY <1>1, <1>2, <2>1 DEF ChatTypes, r
  <1>4. ChatSaved
    BY <1>1 DEF ChatSaved, ChatPaired
  <1>5. ASSUME NEW t \in Turns
        PROVE  ChatReads(t) /\ ChatDoes(t)
    <2>1. turn[t] = r /\ seen[t] = "nothing"
      BY <1>1 DEF r
    <2>2. Chat!ToSet(<<>>) = {} /\ Len(<<>>) = 0
      BY DEF Chat!ToSet
    <2>3. ChatReads(t)
      BY <1>1, <1>2, <2>1, <2>2 DEF ChatReads
    <2>4. ChatDoes(t)
      BY <1>1, <1>2, <2>1 DEF ChatDoes
    <2> QED BY <2>3, <2>4
  <1> QED BY <1>3, <1>4, <1>5 DEF ChatInv

\* Every step keeps it.
LEMMA ChatInvStep ==
  ASSUME Chat!ChatAssumption, ChatInv, [Chat!Next]_(Chat!vars)
  PROVE  ChatInv'
  <1>1. CASE UNCHANGED Chat!vars
    <2>1. UNCHANGED <<owner, messages, clock, turn, seen, deeds, faults>>
      BY <1>1 DEF Chat!vars
    <2>2. ChatTypes'
      BY <2>1 DEF ChatInv, ChatTypes, ChatRow, ChatRequest
    <2>3. ChatSaved'
      BY <2>1 DEF ChatInv, ChatSaved, ChatPaired
    <2>4. ASSUME NEW t \in Turns
          PROVE  ChatReads(t)' /\ ChatDoes(t)'
      <3>1. ChatReads(t) /\ ChatDoes(t)
        BY DEF ChatInv
      <3>2. ChatReads(t)'
        BY <2>1, <3>1 DEF ChatReads, Chat!ToSet
      <3>3. ChatDoes(t)'
        BY <2>1, <3>1 DEF ChatDoes
      <3> QED BY <3>2, <3>3
    <2> QED BY <2>2, <2>3, <2>4 DEF ChatInv
  <1>2. CASE Chat!Over
    BY <1>1, <1>2 DEF Chat!Over, Chat!vars
  <1>3. ASSUME NEW t \in Turns, Chat!Open(t)
        PROVE  ChatInv'
    BY <1>3, ChatOpens
  <1>4. ASSUME NEW t \in Turns, Chat!DecideFails(t) \/ Chat!Decide(t)
        PROVE  ChatInv'
    BY <1>4, ChatDecides
  <1>5. ASSUME NEW t \in Turns, Chat!ToolDone(t) \/ Chat!ToolRefused(t) \/ Chat!ToolAnswerLost(t)
        PROVE  ChatInv'
    BY <1>5, ChatCalls
  <1>6. ASSUME NEW t \in Turns, Chat!Stream(t) \/ Chat!ClientLeaves(t) \/ Chat!SaveFails(t) \/ Chat!Show(t)
        PROVE  ChatInv'
    BY <1>6, ChatStreams
  <1>7. ASSUME NEW t \in Turns, Chat!Save(t)
        PROVE  ChatInv'
    BY <1>7, ChatSaves
  <1> QED BY <1>1, <1>2, <1>3, <1>4, <1>5, <1>6, <1>7 DEF Chat!Next

\* What the invariant says of conversations.
LEMMA ChatInvImplies ==
  ASSUME Chat!ChatAssumption, ChatInv
  PROVE  /\ Chat!TypeOK /\ Chat!ThreadsStayInTheirCompany /\ Chat!ShownIsSaved
         /\ Chat!RecordsAreTrue /\ Chat!HistoryIsWhole
  <1>1. ChatTypes /\ ChatSaved /\ (\A u \in Turns : ChatReads(u)) /\ \A u \in Turns : ChatDoes(u)
    BY DEF ChatInv
  <1>2. turn \in [Turns -> ChatRequest] /\ messages \subseteq ChatRow /\ seen \in [Turns -> Chat!Frames]
    BY <1>1 DEF ChatTypes
  <1>3. Chat!TypeOK
    <2>1. \A m \in messages : m.thread \in Threads /\ m.turn \in Turns /\ m.role \in Chat!Roles
      BY <1>2 DEF ChatRow
    <2>2. \A t \in Turns : turn[t].pc \in Chat!Steps /\ turn[t].tool \in Chat!Tools \cup {none}
      BY <1>2 DEF ChatRequest
    <2>3. \A t \in Turns : Len(turn[t].history) =< HistoryLimit
      BY <1>1 DEF ChatReads
    <2> QED BY <1>1, <2>1, <2>2, <2>3 DEF ChatTypes, Chat!TypeOK
  <1>4. \A m \in messages : m.turn \in Turns /\ turn[m.turn].thread = m.thread /\ turn[m.turn].pc # "idle"
    BY <1>1, <1>2 DEF ChatSaved, ChatRow
  <1>5. \A m \in messages : turn[m.turn].company = owner[m.thread]
    BY <1>1, <1>4 DEF ChatReads
  <1>6. Chat!ThreadsStayInTheirCompany
    <2>1. ASSUME NEW t \in Turns, NEW i \in DOMAIN turn[t].history
          PROVE  turn[turn[t].history[i].turn].company = turn[t].company
      <3>1. ChatReads(t)
        BY <1>1
      <3>2. turn[t].history[i] \in turn[t].past
        BY <3>1 DEF ChatReads, Chat!ToSet
      <3>3. turn[t].history[i] \in messages /\ turn[t].history[i].thread = turn[t].thread
        BY <3>1, <3>2 DEF ChatReads
      <3>4. owner[turn[t].thread] = turn[t].company
        BY <3>1, <3>2 DEF ChatReads
      <3> QED BY <1>5, <3>3, <3>4
    <2> QED BY <1>5, <2>1 DEF Chat!ThreadsStayInTheirCompany
  <1>7. \A m \in messages, r \in Chat!Roles : \E n \in messages : n.turn = m.turn /\ n.role = r
    BY <1>1 DEF ChatSaved, ChatPaired
  <1>8. Chat!ShownIsSaved
    <2> SUFFICES ASSUME NEW t \in Turns
                 PROVE  LET rows1 == {m.role : m \in {n \in messages : n.turn = t}} IN
                        /\ seen[t] = "done" => rows1 = Chat!Roles
                        /\ seen[t] = "error" => rows1 = {}
      BY DEF Chat!ShownIsSaved
    <2> DEFINE rows1 == {m.role : m \in {n \in messages : n.turn = t}}
    <2>1. seen[t] = "error" => rows1 = {}
      BY <1>1 DEF ChatSaved
    <2>2. rows1 \subseteq Chat!Roles
      BY <1>2 DEF ChatRow
    <2>3. ASSUME seen[t] = "done"
          PROVE  rows1 = Chat!Roles
      <3>1. PICK m \in messages : m.turn = t
        BY <1>1, <2>3 DEF ChatDoes
      <3>2. \A r \in Chat!Roles : r \in rows1
        BY <1>7, <3>1
      <3> QED BY <2>2, <3>2
    <2> QED BY <2>1, <2>3
  <1>9. Chat!RecordsAreTrue
    <2>1. \A m \in messages : m.ok => m.turn \in deeds
      BY <1>1 DEF ChatSaved
    <2>2. ASSUME faults = 0, NEW t \in deeds, turn[t].pc = "over"
          PROVE  \E m \in messages : m.turn = t /\ m.ok /\ m.tool = turn[t].tool
      <3>1. t \in Turns
        BY <1>1 DEF ChatTypes
      <3>2. turn[t].ok /\ \E m \in messages : m.turn = t
        BY <1>1, <2>2, <3>1 DEF ChatDoes
      <3>3. PICK m \in messages : m.turn = t /\ m.role = "assistant"
        BY <1>7, <3>2 DEF Chat!Roles
      <3> QED BY <1>1, <3>2, <3>3 DEF ChatSaved
    <2> QED BY <2>1, <2>2 DEF Chat!RecordsAreTrue
  <1>10. Chat!HistoryIsWhole
    <2> SUFFICES ASSUME NEW t \in Turns
                 PROVE  LET kept == Chat!ToSet(turn[t].history) IN
                        /\ \A m \in kept : \A n \in turn[t].past : n.turn = m.turn => n \in kept
                        /\ \A m \in kept : \A n \in turn[t].past \ kept : n.at < m.at
      BY DEF Chat!HistoryIsWhole
    <2> QED BY <1>1 DEF ChatReads
  <1> QED BY <1>3, <1>6, <1>8, <1>9, <1>10

-----------------------------------------------------------------------------
(* The five parts of the instance.                                         *)

\* The inductive invariant: that of the part the behaviour is of.
ServicesInv ==
  /\ part = "links" => LinksIInv /\ LinksStandInv
  /\ part = "lockouts" => LockInv
  /\ part = "chat" => ChatInv
  /\ part = "providers" => AiTables /\ AiResolved
  /\ part = "assistant" => SiteInv

\* A step is one of the part the behaviour is of, which stays the same.
LEMMA StepsAreOfOnePart ==
  ASSUME [Next]_vars
  PROVE  /\ part' = part
         /\ part = "links" => [Links!Next]_(Links!vars)
         /\ part = "lockouts" => [Lockout!Next]_(Lockout!lockoutVars)
         /\ part = "chat" => [Chat!Next]_(Chat!vars)
         /\ part = "providers" => [Ai!Next]_(Ai!vars)
         /\ part = "assistant" => [Site!Next]_(Site!assistantVars)
  <1> DEFINE StepOf == /\ part' = part
                       /\ part = "links" => [Links!Next]_(Links!vars)
                       /\ part = "lockouts" => [Lockout!Next]_(Lockout!lockoutVars)
                       /\ part = "chat" => [Chat!Next]_(Chat!vars)
                       /\ part = "providers" => [Ai!Next]_(Ai!vars)
                       /\ part = "assistant" => [Site!Next]_(Site!assistantVars)
             LinksStep == \E w \in Workers :
                            \/ \E p \in People : Links!Ask(w, p) \/ Links!Follow(w, p)
                            \/ Links!Write(w) \/ Links!IssueToken(w) \/ Links!Send(w) \/ Links!GiveUp(w)
             LockoutStep == \/ \E t \in Tries, e \in Emails, i \in Ips : Lockout!Start(t, e, i)
                            \/ \E e \in Emails, i \in Ips : Lockout!SendForm(e, i)
                            \/ \E t \in Tries : Lockout!Wrong(t) \/ Lockout!Right(t)
                            \/ \E k \in Lockout!Keys : Lockout!Expire(k)
             ChatStep == \E t \in Turns :
                            \/ Chat!Open(t) \/ Chat!DecideFails(t) \/ Chat!Decide(t) \/ Chat!ToolDone(t)
                            \/ Chat!ToolRefused(t) \/ Chat!ToolAnswerLost(t) \/ Chat!Stream(t)
                            \/ Chat!ClientLeaves(t) \/ Chat!Save(t) \/ Chat!SaveFails(t) \/ Chat!Show(t)
             AiStep == \/ \E w \in Writers :
                            \/ Ai!Begin(w) \/ Ai!BeginDelete(w) \/ Ai!ReadCurrent(w) \/ Ai!Unset(w)
                            \/ Ai!Write(w) \/ Ai!Remove(w) \/ Ai!Commit(w) \/ Ai!Fail(w)
                       \/ Ai!SetFallback
                       \/ \E c \in Calls : Ai!Resolve(c) \/ Ai!FallBack(c) \/ Ai!Send(c)
             SiteStep == \/ Site!Deploy \/ Site!IngestPages \/ Site!IngestGuides \/ Site!Stop \/ Site!Midnight
                         \/ \E q \in Questions, v \in Visitors : Site!Ask(q, v)
                         \/ \E q \in Questions : Site!Retrieve(q) \/ Site!Count(q) \/ Site!Model(q)
  <1>1. \/ UNCHANGED vars
        \/ InLinks /\ LinksStep /\ LinksOnly
        \/ InLockouts /\ LockoutStep /\ LockoutsOnly
        \/ InChat /\ ChatStep /\ ChatOnly
        \/ InProviders /\ AiStep /\ ProvidersOnly
        \/ InAssistant /\ SiteStep /\ AssistantOnly
    BY DEF Next
  <1>2. LinksStep => Links!Next
    BY DEF Links!Next
  <1>3. LockoutStep => Lockout!Next
    BY DEF Lockout!Next
  <1>4. ChatStep => Chat!Next
    BY DEF Chat!Next
  <1>5. AiStep => Ai!Next
    BY DEF Ai!Next
  <1>6. SiteStep => Site!Next
    BY DEF Site!Next
  <1> HIDE DEF LinksStep, LockoutStep, ChatStep, AiStep, SiteStep
  <1>7. ASSUME UNCHANGED vars
        PROVE  StepOf
    BY <1>7 DEF vars, linksVars, lockoutVars, chatVars, providerVars, siteVars, Links!vars,
                Lockout!lockoutVars, Chat!vars, Ai!vars, Site!assistantVars
  <1>8. ASSUME InLinks /\ LinksStep /\ LinksOnly
        PROVE  StepOf
    BY <1>2, <1>8 DEF InLinks, LinksOnly
  <1>9. ASSUME InLockouts /\ LockoutStep /\ LockoutsOnly
        PROVE  StepOf
    BY <1>3, <1>9 DEF InLockouts, LockoutsOnly
  <1>10. ASSUME InChat /\ ChatStep /\ ChatOnly
         PROVE  StepOf
    BY <1>4, <1>10 DEF InChat, ChatOnly
  <1>11. ASSUME InProviders /\ AiStep /\ ProvidersOnly
         PROVE  StepOf
    BY <1>5, <1>11 DEF InProviders, ProvidersOnly
  <1>12. ASSUME InAssistant /\ SiteStep /\ AssistantOnly
         PROVE  StepOf
    BY <1>6, <1>12 DEF InAssistant, AssistantOnly
  <1> QED BY <1>1, <1>7, <1>8, <1>9, <1>10, <1>11, <1>12

\* The invariant holds in every reachable state.
LEMMA ServicesInvariance == Spec => []ServicesInv
  <1> USE PartsAssumption
  <1>1. Init => ServicesInv
    <2> SUFFICES ASSUME Init PROVE ServicesInv
      OBVIOUS
    <2>1. part = "links" => LinksIInv /\ LinksStandInv
      BY LinksInvInit, LinksStandInit DEF Init
    <2>2. part = "lockouts" => LockInv
      BY LockInvInit DEF Init
    <2>3. part = "chat" => ChatInv
      BY ChatInvInit DEF Init
    <2>4. part = "providers" => AiTables /\ AiResolved
      BY AiInvInit DEF Init
    <2>5. part = "assistant" => SiteInv
      BY SiteInvInit DEF Init
    <2> QED BY <2>1, <2>2, <2>3, <2>4, <2>5 DEF ServicesInv
  <1>2. ServicesInv /\ [Next]_vars => ServicesInv'
    <2> SUFFICES ASSUME ServicesInv, [Next]_vars PROVE ServicesInv'
      OBVIOUS
    <2>1. part' = part
      BY StepsAreOfOnePart
    <2>2. part = "links" => LinksIInv' /\ LinksStandInv'
      BY StepsAreOfOnePart, LinksInvStep, LinksStandStep DEF ServicesInv
    <2>3. part = "lockouts" => LockInv'
      BY StepsAreOfOnePart, LockInvStep DEF ServicesInv
    <2>4. part = "chat" => ChatInv'
      BY StepsAreOfOnePart, ChatInvStep DEF ServicesInv
    <2>5. part = "providers" => AiTables' /\ AiResolved'
      BY StepsAreOfOnePart, AiInvStep DEF ServicesInv
    <2>6. part = "assistant" => SiteInv'
      BY StepsAreOfOnePart, SiteInvStep DEF ServicesInv
    <2> QED BY <2>1, <2>2, <2>3, <2>4, <2>5, <2>6 DEF ServicesInv
  <1> QED BY <1>1, <1>2, PTL DEF Spec
-----------------------------------------------------------------------------
(* The modules by themselves.                                              *)

\* MailLinks by itself: however its requests overlap, addresses are proven and invitations stand.
THEOREM MailLinksCorrect ==
  ASSUME Links!MailLinksAssumption
  PROVE  Links!Spec => [](Links!TypeOK /\ Links!AddressProven /\ Links!InvitationStands)
  <1>1. Links!Init => LinksIInv /\ LinksStandInv
    BY LinksInvInit, LinksStandInit
  <1>2. LinksIInv /\ LinksStandInv /\ [Links!Next]_(Links!vars) => LinksIInv' /\ LinksStandInv'
    BY LinksInvStep, LinksStandStep
  <1>3. LinksIInv /\ LinksStandInv => Links!TypeOK /\ Links!AddressProven /\ Links!InvitationStands
    BY LinksStandImplies DEF LinksIInv, LinksTypes
  <1> QED BY <1>1, <1>2, <1>3, PTL DEF Links!Spec

\* Lockouts by itself: tries are bounded and lockouts end.
THEOREM LockoutsCorrect ==
  ASSUME Lockout!LockoutsAssumption
  PROVE  Lockout!Spec => [](Lockout!TypeOK /\ Lockout!TriesBounded /\ Lockout!LockoutsEnd)
  <1>1. Lockout!Init => LockInv
    BY LockInvInit
  <1>2. LockInv /\ [Lockout!Next]_(Lockout!lockoutVars) => LockInv'
    BY LockInvStep
  <1>3. LockInv => Lockout!TypeOK /\ Lockout!TriesBounded /\ Lockout!LockoutsEnd
    BY LockInvImplies
  <1> QED BY <1>1, <1>2, <1>3, PTL DEF Lockout!Spec

\* ChatTurns by itself: conversations stay with their customer and record what happened.
THEOREM ChatTurnsCorrect ==
  ASSUME Chat!ChatAssumption
  PROVE  Chat!Spec => [](/\ Chat!TypeOK /\ Chat!ThreadsStayInTheirCompany
                          /\ Chat!ShownIsSaved /\ Chat!RecordsAreTrue
                          /\ Chat!HistoryIsWhole)
  <1>1. Chat!Init => ChatInv
    BY ChatInvInit
  <1>2. ChatInv /\ [Chat!Next]_(Chat!vars) => ChatInv'
    BY ChatInvStep
  <1>3. ChatInv => Chat!TypeOK /\ Chat!ThreadsStayInTheirCompany /\ Chat!ShownIsSaved /\ Chat!RecordsAreTrue /\ Chat!HistoryIsWhole
    BY ChatInvImplies
  <1> QED BY <1>1, <1>2, <1>3, PTL DEF Chat!Spec

\* AiProviders by itself: one default, and prompts go where they may.
THEOREM AiProvidersCorrect ==
  ASSUME Ai!ProvidersAssumption
  PROVE  Ai!Spec => [](Ai!TypeOK /\ Ai!AtMostOneDefault /\ Ai!PromptsGoWhereAllowed)
  <1>1. Ai!Init => AiTables /\ AiResolved
    BY AiInvInit
  <1>2. AiTables /\ AiResolved /\ [Ai!Next]_(Ai!vars) => AiTables' /\ AiResolved'
    BY AiInvStep
  <1>3. AiTables /\ AiResolved => Ai!TypeOK /\ Ai!AtMostOneDefault /\ Ai!PromptsGoWhereAllowed
    BY AiInvImplies
  <1> QED BY <1>1, <1>2, <1>3, PTL DEF Ai!Spec

\* SiteAssistant by itself: the index is the release, answers cite it and the caps hold.
THEOREM SiteAssistantCorrect ==
  ASSUME Site!AssistantAssumption
  PROVE  Site!Spec => [](Site!TypeOK /\ Site!IndexIsRelease /\ Site!AnswersAreGrounded /\ Site!CapsHold)
  <1>1. Site!Init => SiteInv
    BY SiteInvInit
  <1>2. SiteInv /\ [Site!Next]_(Site!assistantVars) => SiteInv'
    BY SiteInvStep
  <1>3. SiteInv => Site!TypeOK /\ Site!IndexIsRelease /\ Site!AnswersAreGrounded /\ Site!CapsHold
    BY SiteInvImplies
  <1> QED BY <1>1, <1>2, <1>3, PTL DEF Site!Spec
-----------------------------------------------------------------------------
(* The properties of the instance.                                         *)

\* Rows, counters, messages, settings, questions and requests hold what the type invariants
\* of their modules say, for any number of people, requests, turns, configs and questions.
THEOREM ServicesTypeCorrect == Spec => []TypeOK
  <1>1. ServicesInv => TypeOK
    BY PartsAssumption, LockInvImplies, ChatInvImplies, AiInvImplies, SiteInvImplies
       DEF ServicesInv, TypeOK, LinksIInv, LinksTypes
  <1> QED BY <1>1, ServicesInvariance, PTL

\* However the requests about an account overlap, it is confirmed only at an address whose own
\* mail was read, unless requests crossed when its token was issued, and a person who was
\* invited still has a link to come in with, unless the resend form was used or the server
\* died before the token was there.
THEOREM LinksProven == Spec => []LinksProve
  <1>1. ServicesInv => LinksProve
    BY PartsAssumption, LinksStandImplies DEF ServicesInv, LinksProve, LinksIInv
  <1> QED BY <1>1, ServicesInvariance, PTL

\* However tries at an address overlap, no more of them are answered than the limit allows and
\* those that were under way, and no counter stays without a time at which it goes, unless
\* Redis failed between the two.
THEOREM LockoutsAreBounded == Spec => []LockoutsHold
  <1>1. ServicesInv => LockoutsHold
    BY PartsAssumption, LockInvImplies DEF ServicesInv, LockoutsHold
  <1> QED BY <1>1, ServicesInvariance, PTL

\* Turns read and write the conversations of their own customer; what a client was shown is
\* saved; a conversation says a tool succeeded only if it did; and the history replayed to the
\* AI is the newest whole turns, because an even number of rows cannot split one.
THEOREM TurnsRecorded == Spec => []TurnsAreRecorded
  <1>1. ServicesInv => TurnsAreRecorded
    BY PartsAssumption, ChatInvImplies DEF ServicesInv, TurnsAreRecorded
  <1> QED BY <1>1, ServicesInvariance, PTL

\* At most one config is the default, however the reads, the flushes and the commits of any
\* number of settings requests interleave, and whichever of them fail.
THEOREM OneDefault == Spec => []AtMostOneDefault
  <1>1. ServicesInv => AtMostOneDefault
    BY PartsAssumption, AiInvImplies DEF ServicesInv, AtMostOneDefault
  <1> QED BY <1>1, ServicesInvariance, PTL

\* A request that commits has made its config the default, unless its session took it for the
\* default already.
THEOREM DefaultsTakeEffect == Spec => DefaultTakesEffect
  <1>1. ServicesInv /\ [Next]_vars => (part = "providers" => Ai!DefaultStep)
    BY PartsAssumption, StepsAreOfOnePart, AiDefaultStep DEF ServicesInv
  <1> QED BY <1>1, ServicesInvariance, PTL DEF Spec, DefaultTakesEffect

\* A prompt leaves for the config that was the default when the call resolved it or for the
\* platform's model, never for an endpoint the operator did not approve, whatever the settings
\* requests do in between.
THEOREM PromptsAllowed == Spec => []PromptsGoWhereAllowed
  <1>1. ServicesInv => PromptsGoWhereAllowed
    BY PartsAssumption, AiInvImplies DEF ServicesInv, PromptsGoWhereAllowed
  <1> QED BY <1>1, ServicesInvariance, PTL

\* While the site serves, its index is what the release publishes; an answer cites sections
\* that were retrieved from it; and the caps of a day hold however questions overlap and
\* whatever Redis loses.
THEOREM AnswersGrounded == Spec => []AnswersAreOfTheRelease
  <1>1. ServicesInv => AnswersAreOfTheRelease
    BY PartsAssumption, SiteInvImplies DEF ServicesInv, AnswersAreOfTheRelease
  <1> QED BY <1>1, ServicesInvariance, PTL
=============================================================================
