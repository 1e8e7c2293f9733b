-------------------------- MODULE UserEventsProofs --------------------------
(***************************************************************************)
(* For any number of requests, names and failures, the state keeps its     *)
(* type, every field that the budget service shows of a user is one that   *)
(* was committed as the user's (what is published, requeued, fetched and   *)
(* merged is never made up), and once all events are handled the copy is   *)
(* what the last update said.                                              *)
(***************************************************************************)
EXTENDS UserEvents, SequenceTheorems, TLAPS

Fields == {"name", "role", "status", "company"}
Operations == {"patch", "onboard", "role", "accept", "erase"}

(* The inductive invariant. *)

\* What a step of a request or of the consumer has at hand.  Rows are never deleted.
Slots == [at: {"idle", "loaded", "publish"},
          op: {"none", "patch", "onboard", "role", "accept", "erase"},
          base: Row, event: Events \cup {NoEvent}]
Looks == [at: {"idle", "missed", "got", "found"}, got: Row, seen: Row]

SlotReady(slot, row) ==
  /\ slot.at = "loaded" => slot.base \in Users /\ row \in Users /\ slot.op \in Operations
  /\ slot.at = "publish" => slot.event \in Events

LookReady(look, row) ==
  /\ look.at \in {"got", "found"} => look.got \in Users
  /\ look.seen # NoUser => row \in Users

Ready ==
  /\ \A w \in Writers : SlotReady(writer[w], user)
  /\ \A r \in Readers : LookReady(reader[r], profile)
  /\ step # "idle" => hand \in Events
  /\ found # NoUser => profile \in Users

Types == TypeOK /\ Ready

\* Each field of the row is one of the rows that the user had.
Drawn(rows, row) == \A f \in Fields : \E h \in rows : h[f] = row[f]

TrueInv ==
  /\ user # NoUser => user \in held
  /\ profile # NoUser => Drawn(held, profile)
  /\ \A w \in Writers :
       /\ writer[w].base # NoUser => writer[w].base \in held
       /\ writer[w].at = "publish" => Drawn(held, writer[w].event.payload)
  /\ \A i \in 1 .. Len(queue) : Drawn(held, queue[i].payload)
  /\ hand # NoEvent => Drawn(held, hand.payload)
  /\ \A r \in Readers : reader[r].got # NoUser => Drawn(held, reader[r].got)

-----------------------------------------------------------------------------
(* Rows. *)

LEMMA Basics ==
  /\ NoUser \notin Users /\ NoEvent \notin Events /\ NoUser \in Row /\ Users \subseteq Row
  /\ \A row \in Users : DOMAIN row = Fields
  /\ \A e \in Events : e.payload \in Users
  BY UserEventsAssumption DEF Row, Users, Events, Fields

LEMMA MergeTypes ==
  ASSUME NEW new \in Users, NEW base \in Users, NEW current \in Users
  PROVE  /\ Merge(new, base, current) \in Users
         /\ \A f \in Fields :
              Merge(new, base, current)[f] = IF new[f] # base[f] THEN new[f] ELSE current[f]
  BY DEF Merge, Users, Fields

LEMMA EditedTypes ==
  ASSUME NEW row \in Users, NEW nm \in Names, NEW rl \in Roles, NEW op \in Operations
  PROVE  Edited(op, row, nm, rl) \in Users
  BY DEF Edited, Users, Roles, Operations

LEMMA AfterTypes ==
  ASSUME NEW op \in Operations, NEW new \in Users
  PROVE  \/ AfterWrite(op, new) = Idle
         \/ /\ [type |-> "user.updated", payload |-> new] \in Events
            /\ AfterWrite(op, new) =
                 [at |-> "publish", op |-> "none", base |-> NoUser,
                  event |-> [type |-> "user.updated", payload |-> new]]
  BY DEF AfterWrite, Events

\* What is drawn stays drawn, and a merge draws from both.
LEMMA DrawnKept ==
  ASSUME NEW rows, NEW more, rows \subseteq more, NEW row, Drawn(rows, row)
  PROVE  Drawn(more, row)
  BY DEF Drawn

LEMMA DrawnMerge ==
  ASSUME NEW rows, NEW new \in Users, NEW base \in Users, NEW current \in Users,
         Drawn(rows, new), Drawn(rows, current)
  PROVE  Drawn(rows, Merge(new, base, current))
  BY MergeTypes DEF Drawn

LEMMA DrawnMember ==
  ASSUME NEW rows, NEW row \in rows
  PROVE  Drawn(rows, row)
  BY DEF Drawn

\* The object of a session shows what it loaded and what it commits.
LEMMA DrawnObject ==
  ASSUME NEW rows, NEW new \in Users, NEW base \in Users, NEW current \in Users,
         base \in rows, Merge(new, base, current) \in rows
  PROVE  Drawn(rows, new)
  <1> SUFFICES ASSUME NEW f \in Fields PROVE \E h \in rows : h[f] = new[f]
    BY DEF Drawn
  <1>1. CASE new[f] = base[f]
    BY <1>1
  <1>2. CASE new[f] # base[f]
    BY <1>2, MergeTypes
  <1> QED BY <1>1, <1>2

\* The two writers of the profile.
LEMMA SavedRow ==
  ASSUME Types, TrueInv, NEW new \in Users, NEW known \in Row, Drawn(held, new),
         known # NoUser => profile \in Users, Saved(new, known)
  PROVE  profile' \in Users /\ Drawn(held, profile')
  <1>1. CASE known = NoUser
    BY <1>1 DEF Saved
  <1>2. CASE known # NoUser
    <2>1. known \in Users /\ profile \in Users /\ Drawn(held, profile)
      BY <1>2, Basics DEF Row, TrueInv
    <2> QED BY <1>2, <2>1, MergeTypes, DrawnMerge DEF Saved
  <1> QED BY <1>1, <1>2

-----------------------------------------------------------------------------
(* Queues. *)

LEMMA Appended ==
  ASSUME NEW q \in Seq(Events), NEW e \in Events
  PROVE  /\ Append(q, e) \in Seq(Events)
         /\ \A i \in 1 .. Len(Append(q, e)) :
              Append(q, e)[i] = e \/ \E j \in 1 .. Len(q) : Append(q, e)[i] = q[j]
  BY AppendProperties, LenProperties

LEMMA Taken ==
  ASSUME NEW q \in Seq(Events), q # <<>>
  PROVE  /\ Head(q) \in Events /\ Tail(q) \in Seq(Events)
         /\ \E j \in 1 .. Len(q) : Head(q) = q[j]
         /\ \A i \in 1 .. Len(Tail(q)) : \E j \in 1 .. Len(q) : Tail(q)[i] = q[j]
  <1>1. Len(q) \in Nat \ {0}
    BY EmptySeq
  <1>2. 1 \in 1 .. Len(q) /\ Head(q) = q[1]
    BY <1>1
  <1>3. /\ Head(q) \in Events /\ Tail(q) \in Seq(Events) /\ Len(Tail(q)) = Len(q) - 1
        /\ \A i \in 1 .. Len(Tail(q)) : Tail(q)[i] = q[i + 1]
    BY HeadTailProperties
  <1>4. \A i \in 1 .. Len(Tail(q)) : i + 1 \in 1 .. Len(q)
    BY <1>1, <1>3
  <1> QED BY <1>2, <1>3, <1>4

LEMMA PutBack ==
  ASSUME NEW q \in Seq(Events), NEW e \in Events
  PROVE  /\ <<e>> \o q \in Seq(Events)
         /\ \A i \in 1 .. Len(<<e>> \o q) :
              (<<e>> \o q)[i] = e \/ \E j \in 1 .. Len(q) : (<<e>> \o q)[i] = q[j]
  <1>1. <<e>> \in Seq(Events) /\ Len(<<e>>) = 1 /\ <<e>>[1] = e
    OBVIOUS
  <1>2. Len(q) \in Nat
    BY LenProperties
  <1>3. /\ <<e>> \o q \in Seq(Events) /\ Len(<<e>> \o q) = 1 + Len(q)
        /\ \A i \in 1 .. 1 + Len(q) :
              (<<e>> \o q)[i] = IF i <= 1 THEN <<e>>[i] ELSE q[i - 1]
    BY <1>1, ConcatProperties
  <1> SUFFICES ASSUME NEW i \in 1 .. 1 + Len(q)
               PROVE  (<<e>> \o q)[i] = e \/ \E j \in 1 .. Len(q) : (<<e>> \o q)[i] = q[j]
    BY <1>3
  <1>4. CASE i = 1
    BY <1>1, <1>3, <1>4
  <1>5. CASE i # 1
    <2>1. i - 1 \in 1 .. Len(q) /\ ~(i <= 1)
      BY <1>2, <1>5
    <2> QED BY <1>3, <2>1
  <1> QED BY <1>4, <1>5

-----------------------------------------------------------------------------
(* Types. *)

LEMMA SlotTypes ==
  ASSUME Types, NEW w \in Writers, NEW slot \in Slots, SlotReady(slot, user'),
         user' = user \/ user' \in Users, writer' = [writer EXCEPT ![w] = slot]
  PROVE  writer' \in [Writers -> Slots] /\ \A v \in Writers : SlotReady(writer'[v], user')
  <1>1. writer \in [Writers -> Slots] /\ \A v \in Writers : SlotReady(writer[v], user)
    BY DEF Types, TypeOK, Ready, Slots
  <1>2. writer' \in [Writers -> Slots]
    BY <1>1
  <1>3. ASSUME NEW v \in Writers PROVE SlotReady(writer'[v], user')
    <2>1. CASE v = w
      BY <2>1, <1>1
    <2>2. CASE v # w
      <3>1. writer'[v] = writer[v] /\ SlotReady(writer[v], user)
        BY <2>2, <1>1
      <3> QED BY <3>1 DEF SlotReady
    <2> QED BY <2>1, <2>2
  <1> QED BY <1>2, <1>3

LEMMA LookTypes ==
  ASSUME Types, NEW r \in Readers, NEW look \in Looks, LookReady(look, profile'),
         profile' = profile \/ profile' \in Users, reader' = [reader EXCEPT ![r] = look]
  PROVE  reader' \in [Readers -> Looks] /\ \A t \in Readers : LookReady(reader'[t], profile')
  <1>1. reader \in [Readers -> Looks] /\ \A t \in Readers : LookReady(reader[t], profile)
    BY DEF Types, TypeOK, Ready, Looks
  <1>2. reader' \in [Readers -> Looks]
    BY <1>1
  <1>3. ASSUME NEW t \in Readers PROVE LookReady(reader'[t], profile')
    <2>1. CASE t = r
      BY <2>1, <1>1
    <2>2. CASE t # r
      <3>1. reader'[t] = reader[t] /\ LookReady(reader[t], profile)
        BY <2>2, <1>1
      <3> QED BY <3>1 DEF LookReady
    <2> QED BY <2>1, <2>2
  <1> QED BY <1>2, <1>3

LEMMA Slot0 == Idle \in Slots /\ \A row : SlotReady(Idle, row)
  BY DEF Idle, Slots, SlotReady, Row

LEMMA Look0 == Away \in Looks /\ \A row : LookReady(Away, row)
  BY DEF Away, Looks, LookReady, Row

LEMMA TypesInit == Init => Types
  <1> SUFFICES ASSUME Init PROVE Types
    OBVIOUS
  <1>1. /\ writer \in [Writers -> Slots] /\ \A w \in Writers : SlotReady(writer[w], user)
        /\ reader \in [Readers -> Looks] /\ \A r \in Readers : LookReady(reader[r], profile)
    BY Slot0, Look0 DEF Init
  <1>2. user \in Row /\ profile \in Row /\ found \in Row /\ word \in Row /\ queue \in Seq(Events)
    BY DEF Init, Row
  <1>3. task \in {"runs", "ended", "dead"} /\ fetched \in BOOLEAN /\ erased \in BOOLEAN
    BY DEF Init
  <1>4. /\ writes \in 0 .. MaxWrites /\ lost \in 0 .. MaxLost /\ fails \in 0 .. MaxFails
        /\ held \subseteq Users /\ hand \in Events \cup {NoEvent}
        /\ step \in {"idle", "took", "found", "done"}
    BY UserEventsAssumption DEF Init
  <1>5. (step # "idle" => hand \in Events) /\ (found # NoUser => profile \in Users)
    BY DEF Init
  <1> QED BY <1>1, <1>2, <1>3, <1>4, <1>5 DEF Types, TypeOK, Ready, Slots, Looks

\* What an action of the users service must keep of the rest.
LEMMA ServiceTypes ==
  ASSUME Types, NEW w \in Writers, NEW slot \in Slots, SlotReady(slot, user'),
         user' = user \/ user' \in Users, writer' = [writer EXCEPT ![w] = slot],
         held' \subseteq Users, word' \in Row, queue' \in Seq(Events),
         erased' \in BOOLEAN, fetched' \in BOOLEAN,
         writes' \in 0 .. MaxWrites, lost' \in 0 .. MaxLost,
         UNCHANGED <<profile, consumerVars, reader, fails>>
  PROVE  Types'
  <1>1. writer' \in [Writers -> Slots] /\ \A v \in Writers : SlotReady(writer'[v], user')
    BY SlotTypes
  <1>2. user' \in Row
    BY DEF Types, TypeOK, Row
  <1> QED BY <1>1, <1>2 DEF Types, TypeOK, Ready, Slots, Looks, consumerVars

LEMMA CreateTypes ==
  ASSUME Types, NEW w \in Writers, NEW nm \in Names, NEW rl \in Roles,
         NEW invited \in BOOLEAN, Create(w, nm, rl, invited)
  PROVE  Types'
  <1> DEFINE row == [name |-> nm, role |-> rl, status |-> "pending", company |-> invited]
             event == [type |-> "user.created", payload |-> row]
             slot == [at |-> "publish", op |-> "none", base |-> NoUser, event |-> event]
  <1>1. row \in Users /\ event \in Events
    BY DEF Users, Events
  <1>2. slot \in Slots /\ SlotReady(slot, user')
    BY <1>1 DEF Slots, SlotReady, Row
  <1>3. /\ user' = row /\ held' = held \cup {row} /\ writes' = writes + 1
        /\ writer' = [writer EXCEPT ![w] = slot] /\ writes < MaxWrites
        /\ UNCHANGED <<erased, profile, queue, consumerVars, reader, lost, fails, word, fetched>>
    BY DEF Create
  <1>4. user' \in Users /\ held' \subseteq Users /\ writes' \in 0 .. MaxWrites
    BY <1>1, <1>3, UserEventsAssumption DEF Types, TypeOK
  <1>5. /\ word' \in Row /\ queue' \in Seq(Events) /\ lost' \in 0 .. MaxLost
        /\ erased' \in BOOLEAN /\ fetched' \in BOOLEAN
    BY <1>3 DEF Types, TypeOK
  <1> HIDE DEF row, event, slot
  <1> QED BY <1>2, <1>3, <1>4, <1>5, ServiceTypes

LEMMA LoadTypes ==
  ASSUME Types, NEW w \in Writers, NEW op \in Operations, Load(w, op)
  PROVE  Types'
  <1> DEFINE slot == [at |-> "loaded", op |-> op, base |-> user, event |-> NoEvent]
  <1>1. user \in Users /\ user' = user
    BY DEF Load, Types, TypeOK, Row
  <1>2. slot \in Slots /\ SlotReady(slot, user')
    BY <1>1 DEF Slots, SlotReady, Row, Operations
  <1>3. /\ writes' = writes + 1 /\ writes < MaxWrites
        /\ writer' = [writer EXCEPT ![w] = slot]
        /\ UNCHANGED <<erased, held, profile, queue, consumerVars, reader, lost, fails, word, fetched>>
    BY DEF Load
  <1>4. writes' \in 0 .. MaxWrites /\ held' \subseteq Users
    BY <1>3, UserEventsAssumption DEF Types, TypeOK
  <1>5. /\ word' \in Row /\ queue' \in Seq(Events) /\ lost' \in 0 .. MaxLost
        /\ erased' \in BOOLEAN /\ fetched' \in BOOLEAN
    BY <1>3 DEF Types, TypeOK
  <1> HIDE DEF slot
  <1> QED BY <1>1, <1>2, <1>3, <1>4, <1>5, ServiceTypes

\* What a write commits and what its session will publish.
LEMMA Written ==
  ASSUME Types, NEW w \in Writers, NEW nm \in Names, NEW rl \in Roles, Write(w, nm, rl)
  PROVE  LET op == writer[w].op
             new == Edited(op, writer[w].base, nm, rl)
             row == Merge(new, writer[w].base, user) IN
         /\ op \in Operations /\ writer[w].base \in Users /\ user \in Users
         /\ new \in Users /\ row \in Users
         /\ user' = row /\ held' = held \cup {row}
         /\ writer' = [writer EXCEPT ![w] = AfterWrite(op, new)]
         /\ erased' \in BOOLEAN
         /\ UNCHANGED <<profile, queue, consumerVars, reader, writes, lost, fails, word, fetched>>
  <1> DEFINE op == writer[w].op
             new == Edited(op, writer[w].base, nm, rl)
             row == Merge(new, writer[w].base, user)
  <1>1. op \in Operations /\ writer[w].base \in Users /\ user \in Users
    BY DEF Write, Types, Ready, SlotReady
  <1>2. new \in Users
    BY <1>1, EditedTypes
  <1>3. row \in Users
    BY <1>1, <1>2, MergeTypes
  <1>4. erased' \in BOOLEAN
    BY DEF Write
  <1> QED BY <1>1, <1>2, <1>3, <1>4 DEF Write

LEMMA WriteTypes ==
  ASSUME Types, NEW w \in Writers, NEW nm \in Names, NEW rl \in Roles, Write(w, nm, rl)
  PROVE  Types'
  <1> DEFINE op == writer[w].op
             new == Edited(op, writer[w].base, nm, rl)
             slot == AfterWrite(op, new)
  <1>1. /\ op \in Operations /\ new \in Users /\ user' \in Users /\ held' = held \cup {user'}
        /\ writer' = [writer EXCEPT ![w] = slot] /\ erased' \in BOOLEAN
        /\ UNCHANGED <<profile, queue, consumerVars, reader, writes, lost, fails, word, fetched>>
    BY Written
  <1>2. slot \in Slots /\ SlotReady(slot, user')
    <2>1. CASE slot = Idle
      BY <2>1, Slot0
    <2>2. CASE slot # Idle
      <3>1. /\ [type |-> "user.updated", payload |-> new] \in Events
            /\ slot = [at |-> "publish", op |-> "none", base |-> NoUser,
                       event |-> [type |-> "user.updated", payload |-> new]]
        BY <2>2, <1>1, AfterTypes
      <3> HIDE DEF slot, new
      <3> QED BY <3>1 DEF Slots, SlotReady, Row
    <2> QED BY <2>1, <2>2
  <1>3. held' \subseteq Users
    BY <1>1 DEF Types, TypeOK
  <1>4. /\ word' \in Row /\ queue' \in Seq(Events) /\ lost' \in 0 .. MaxLost
        /\ writes' \in 0 .. MaxWrites /\ fetched' \in BOOLEAN
    BY <1>1 DEF Types, TypeOK
  <1> HIDE DEF op, new, slot
  <1> QED BY <1>1, <1>2, <1>3, <1>4, ServiceTypes

LEMMA PublishTypes ==
  ASSUME Types, NEW w \in Writers, Publish(w)
  PROVE  Types'
  <1> DEFINE event == writer[w].event
  <1>1. event \in Events
    BY DEF Publish, Types, Ready, SlotReady
  <1>2. /\ queue' = Append(queue, event) /\ word' = Applied(event, word)
        /\ writer' = [writer EXCEPT ![w] = Idle]
        /\ UNCHANGED <<user, erased, held, writes, profile, consumerVars, reader, lost, fails>>
    BY DEF Publish
  <1>3. fetched' \in BOOLEAN
    BY DEF Publish
  <1>4. queue' \in Seq(Events)
    BY <1>1, <1>2, Appended DEF Types, TypeOK
  <1>5. word' \in Row
    BY <1>1, <1>2, Basics DEF Applied, Types, TypeOK
  <1>6. /\ held' \subseteq Users /\ lost' \in 0 .. MaxLost
        /\ writes' \in 0 .. MaxWrites /\ erased' \in BOOLEAN
    BY <1>2 DEF Types, TypeOK
  <1> QED BY <1>2, <1>3, <1>4, <1>5, <1>6, Slot0, ServiceTypes

LEMMA LoseTypes ==
  ASSUME Types, NEW w \in Writers, Lose(w)
  PROVE  Types'
  <1>1. /\ lost < MaxLost /\ lost' = lost + 1 /\ writer' = [writer EXCEPT ![w] = Idle]
        /\ UNCHANGED <<user, erased, held, writes, profile, queue, consumerVars, reader, fails,
                       word, fetched>>
    BY DEF Lose
  <1>2. lost' \in 0 .. MaxLost
    BY <1>1, UserEventsAssumption DEF Types, TypeOK
  <1>3. /\ held' \subseteq Users /\ word' \in Row /\ queue' \in Seq(Events)
        /\ writes' \in 0 .. MaxWrites /\ erased' \in BOOLEAN /\ fetched' \in BOOLEAN
    BY <1>1 DEF Types, TypeOK
  <1> QED BY <1>1, <1>2, <1>3, Slot0, ServiceTypes

\* What an action of the consumer must keep of the rest.
LEMMA ConsumerTypes ==
  ASSUME Types, profile' = profile \/ profile' \in Users,
         queue' \in Seq(Events), hand' \in Events \cup {NoEvent},
         step' \in {"idle", "took", "found", "done"}, found' \in Row,
         step' # "idle" => hand' \in Events, found' # NoUser => profile' \in Users,
         task' \in {"runs", "ended", "dead"}, fails' \in 0 .. MaxFails,
         UNCHANGED <<serviceVars, reader, lost, word, fetched>>
  PROVE  Types'
  <1>1. \A r \in Readers : LookReady(reader[r], profile')
    BY DEF Types, Ready, LookReady
  <1>2. profile' \in Row
    BY DEF Types, TypeOK, Row
  <1> QED BY <1>1, <1>2 DEF Types, TypeOK, Ready, Slots, Looks, serviceVars

\* A requeue leaves the consumer with nothing in hand.
LEMMA Requeued ==
  ASSUME Types, hand \in Events, Requeue
  PROVE  /\ queue' \in Seq(Events) /\ hand' = NoEvent /\ step' = "idle" /\ found' = NoUser
         /\ found' \in Row
  BY PutBack DEF Requeue, Types, TypeOK, Row

LEMMA HandlerTypes ==
  ASSUME Types, Deliver \/ Find \/ Ack \/ SaveRefused \/ HandlerFails \/ ConnectionLost
                \/ ConsumerDies \/ Restart
  PROVE  Types'
  <1>0. /\ queue \in Seq(Events) /\ hand \in Events \cup {NoEvent} /\ task \in {"runs", "ended", "dead"}
        /\ step \in {"idle", "took", "found", "done"} /\ found \in Row /\ profile \in Row
        /\ step # "idle" => hand \in Events
        /\ found # NoUser => profile \in Users
        /\ fails \in 0 .. MaxFails /\ (fails < MaxFails => fails + 1 \in 0 .. MaxFails)
    BY UserEventsAssumption DEF Types, TypeOK, Ready
  <1>1. CASE Deliver
    <2>1. queue' \in Seq(Events) /\ hand' \in Events
      BY <1>0, <1>1, Taken DEF Deliver
    <2>2. /\ step' = "took" /\ found' = NoUser /\ found' \in Row
          /\ UNCHANGED <<serviceVars, profile, task, reader, lost, fails, word, fetched>>
      BY <1>1 DEF Deliver, Row
    <2> QED BY <1>0, <2>1, <2>2, ConsumerTypes
  <1>2. CASE Find
    <2>1. /\ step' \in {"done", "found"} /\ hand \in Events /\ hand' = hand /\ found' = profile
          /\ UNCHANGED <<serviceVars, profile, queue, task, reader, lost, fails, word, fetched>>
      BY <1>0, <1>2 DEF Find
    <2>2. found' # NoUser => profile' \in Users
      BY <1>0, <2>1 DEF Row
    <2> QED BY <1>0, <2>1, <2>2, ConsumerTypes
  <1>3. CASE Ack
    <2>1. /\ hand' = NoEvent /\ step' = "idle" /\ found' = NoUser /\ found' \in Row
          /\ UNCHANGED <<serviceVars, profile, queue, task, reader, lost, fails, word, fetched>>
      BY <1>3 DEF Ack, Row
    <2> QED BY <1>0, <2>1, ConsumerTypes
  <1>4. CASE SaveRefused
    <2>1. /\ hand \in Events /\ Requeue
          /\ UNCHANGED <<serviceVars, profile, task, reader, lost, fails, word, fetched>>
      BY <1>0, <1>4 DEF SaveRefused
    <2> QED BY <1>0, <2>1, Requeued, ConsumerTypes
  <1>5. CASE HandlerFails
    <2>1. /\ hand \in Events /\ Requeue /\ fails' = fails + 1 /\ fails < MaxFails
          /\ UNCHANGED <<serviceVars, profile, task, reader, lost, word, fetched>>
      BY <1>0, <1>5 DEF HandlerFails
    <2> QED BY <1>0, <2>1, Requeued, ConsumerTypes
  <1>6. CASE ConnectionLost \/ ConsumerDies
    <2>1. /\ task' \in {"ended", "dead"} /\ fails' = fails + 1 /\ fails < MaxFails
          /\ UNCHANGED <<serviceVars, profile, reader, lost, word, fetched>>
      BY <1>6 DEF ConnectionLost, ConsumerDies, LetGo
    <2>2. CASE hand = NoEvent
      <3>1. UNCHANGED <<queue, hand, step, found>>
        BY <1>6, <2>2 DEF ConnectionLost, ConsumerDies, LetGo
      <3> QED BY <1>0, <2>1, <3>1, ConsumerTypes
    <2>3. CASE hand # NoEvent
      <3>1. hand \in Events /\ Requeue
        BY <1>0, <1>6, <2>3 DEF ConnectionLost, ConsumerDies, LetGo
      <3> QED BY <1>0, <2>1, <3>1, Requeued, ConsumerTypes
    <2> QED BY <2>2, <2>3
  <1>7. CASE Restart
    <2>1. /\ task' = "runs"
          /\ UNCHANGED <<serviceVars, profile, queue, hand, step, found, reader, lost, fails,
                         word, fetched>>
      BY <1>7 DEF Restart
    <2> QED BY <1>0, <2>1, ConsumerTypes
  <1> QED BY <1>1, <1>2, <1>3, <1>4, <1>5, <1>6, <1>7

\* A saved row is a row.
LEMMA SavedTypes ==
  ASSUME Types, NEW new \in Users, NEW known \in Row,
         known # NoUser => profile \in Users, Saved(new, known)
  PROVE  profile' \in Users
  <1>1. CASE known = NoUser
    BY <1>1 DEF Saved
  <1>2. CASE known # NoUser
    BY <1>2, MergeTypes DEF Saved, Row
  <1> QED BY <1>1, <1>2

LEMMA SaveTypes ==
  ASSUME Types, Save
  PROVE  Types'
  <1>1. /\ hand \in Events /\ hand' = hand /\ step' = "done" /\ found' = found
        /\ found \in Row /\ (found # NoUser => profile \in Users)
        /\ queue' \in Seq(Events) /\ task' \in {"runs", "ended", "dead"} /\ fails' \in 0 .. MaxFails
        /\ UNCHANGED <<serviceVars, reader, lost, word, fetched>>
    BY DEF Save, Types, TypeOK, Ready
  <1>2. Saved(hand.payload, found)
    BY DEF Save
  <1>3. profile' \in Users
    BY <1>1, <1>2, Basics, SavedTypes
  <1> QED BY <1>1, <1>3, ConsumerTypes

\* What an action of a reader must keep of the rest.
LEMMA ReaderTypes ==
  ASSUME Types, NEW r \in Readers, NEW look \in Looks, LookReady(look, profile'),
         profile' = profile \/ profile' \in Users, reader' = [reader EXCEPT ![r] = look],
         fetched' \in BOOLEAN,
         UNCHANGED <<serviceVars, queue, consumerVars, lost, fails, word>>
  PROVE  Types'
  <1>1. reader' \in [Readers -> Looks] /\ \A t \in Readers : LookReady(reader'[t], profile')
    BY LookTypes
  <1>2. profile' \in Row /\ (found # NoUser => profile' \in Users)
    BY DEF Types, TypeOK, Ready, Row
  <1> QED BY <1>1, <1>2 DEF Types, TypeOK, Ready, Slots, Looks, serviceVars, consumerVars

LEMMA LooksTypes ==
  ASSUME Types, NEW r \in Readers, Reader(r)
  PROVE  Types'
  <1>0. /\ reader \in [Readers -> Looks] /\ LookReady(reader[r], profile)
        /\ user \in Row /\ profile \in Row /\ fetched \in BOOLEAN
    BY DEF Types, TypeOK, Ready, Looks
  <1>1. CASE Miss(r)
    <2> DEFINE look == [reader[r] EXCEPT !.at = "missed"]
    <2>1. /\ reader' = [reader EXCEPT ![r] = look] /\ fetched' \in BOOLEAN /\ profile' = profile
          /\ UNCHANGED <<serviceVars, queue, consumerVars, lost, fails, word>>
      BY <1>0, <1>1 DEF Miss
    <2>2. look \in Looks /\ LookReady(look, profile')
      BY <1>0, <2>1 DEF Looks, LookReady
    <2> HIDE DEF look
    <2> QED BY <2>1, <2>2, ReaderTypes
  <1>2. CASE Fetch(r)
    <2> DEFINE look == [at |-> "got", got |-> user, seen |-> NoUser]
    <2>1. /\ reader' = [reader EXCEPT ![r] = IF user = NoUser THEN Away ELSE look]
          /\ fetched' \in BOOLEAN /\ profile' = profile
          /\ UNCHANGED <<serviceVars, queue, consumerVars, lost, fails, word>>
      BY <1>0, <1>2 DEF Fetch
    <2>2. user # NoUser => look \in Looks /\ LookReady(look, profile')
      BY <1>0 DEF Looks, LookReady, Row
    <2> HIDE DEF look
    <2>3. CASE user = NoUser
      <3>1. reader' = [reader EXCEPT ![r] = Away]
        BY <2>1, <2>3
      <3> QED BY <2>1, <3>1, Look0, ReaderTypes
    <2>4. CASE user # NoUser
      <3>1. reader' = [reader EXCEPT ![r] = look]
        BY <2>1, <2>4
      <3> QED BY <2>1, <2>2, <2>4, <3>1, ReaderTypes
    <2> QED BY <2>3, <2>4
  <1>3. CASE FindAgain(r)
    <2> DEFINE look == [reader[r] EXCEPT !.at = "found", !.seen = profile]
    <2>1. /\ reader[r].at = "got" /\ reader' = [reader EXCEPT ![r] = look]
          /\ fetched' \in BOOLEAN /\ profile' = profile
          /\ UNCHANGED <<serviceVars, queue, consumerVars, lost, fails, word>>
      BY <1>0, <1>3 DEF FindAgain
    <2>2. look \in Looks /\ LookReady(look, profile')
      BY <1>0, <2>1 DEF Looks, LookReady, Row
    <2> HIDE DEF look
    <2> QED BY <2>1, <2>2, ReaderTypes
  <1>4. CASE Fill(r)
    <2>1. /\ reader[r].at = "found" /\ Saved(reader[r].got, reader[r].seen)
          /\ reader' = [reader EXCEPT ![r] = Away] /\ fetched' \in BOOLEAN
          /\ UNCHANGED <<serviceVars, queue, consumerVars, lost, fails, word>>
      BY <1>0, <1>4 DEF Fill
    <2>2. reader[r].got \in Users /\ reader[r].seen \in Row
          /\ (reader[r].seen # NoUser => profile \in Users)
      BY <1>0, <2>1 DEF LookReady, Looks
    <2>3. profile' \in Users
      BY <2>1, <2>2, SavedTypes
    <2> QED BY <2>1, <2>3, Look0, ReaderTypes
  <1>5. CASE FillFails(r)
    <2>1. /\ reader' = [reader EXCEPT ![r] = Away] /\ fetched' \in BOOLEAN /\ profile' = profile
          /\ UNCHANGED <<serviceVars, queue, consumerVars, lost, fails, word>>
      BY <1>0, <1>5 DEF FillFails
    <2> QED BY <2>1, Look0, ReaderTypes
  <1> QED BY <1>1, <1>2, <1>3, <1>4, <1>5 DEF Reader

LEMMA TypesStep ==
  ASSUME Types, [Next]_vars
  PROVE  Types'
  <1>1. ASSUME NEW w \in Writers, Service(w) PROVE Types'
    BY <1>1, CreateTypes, LoadTypes, WriteTypes, PublishTypes, LoseTypes DEF Service, Operations
  <1>2. CASE Consumer
    BY <1>2, HandlerTypes, SaveTypes DEF Consumer
  <1>3. CASE UNCHANGED vars
    BY <1>3 DEF vars, serviceVars, consumerVars, Types, TypeOK, Ready
  <1> QED BY <1>1, <1>2, <1>3, HandlerTypes, LooksTypes DEF Next

LEMMA TypesAlways == Spec => []Types
  <1> QED BY TypesInit, TypesStep, PTL DEF Spec

\* The rows, the queue, the messages in hand and every request keep their type, whatever
\* is lost, requeued or refused (users: user_crud.py, event_publisher.py; budget:
\* event_consumer.py, event_handlers.py, user_cache.py).
THEOREM TypeCorrect == Spec => []TypeOK
  <1>1. Types => TypeOK
    BY DEF Types
  <1> QED BY <1>1, TypesAlways, PTL

-----------------------------------------------------------------------------
(* What is shown was committed. *)

LEMMA TrueInit == Init => TrueInv
  BY Basics DEF Init, TrueInv, Idle, Away

\* An action of the users service: more rows, and one request goes on.
LEMMA ServiceTrue ==
  ASSUME Types, TrueInv, NEW w \in Writers, NEW slot,
         writer' = [writer EXCEPT ![w] = slot], held \subseteq held',
         user' # NoUser => user' \in held',
         slot.base # NoUser => slot.base \in held',
         slot.at = "publish" => Drawn(held', slot.event.payload),
         UNCHANGED <<profile, queue, consumerVars, reader>>
  PROVE  TrueInv'
  <1>0. writer \in [Writers -> Slots]
    BY DEF Types, TypeOK, Slots
  <1>1. ASSUME NEW v \in Writers
        PROVE  /\ writer'[v].base # NoUser => writer'[v].base \in held'
               /\ writer'[v].at = "publish" => Drawn(held', writer'[v].event.payload)
    <2>1. CASE v = w
      <3>1. writer'[v] = slot
        BY <2>1, <1>0
      <3> QED BY <3>1
    <2>2. CASE v # w
      <3>1. writer'[v] = writer[v]
        BY <2>2, <1>0
      <3>2. /\ writer[v].base # NoUser => writer[v].base \in held
            /\ writer[v].at = "publish" => Drawn(held, writer[v].event.payload)
        BY DEF TrueInv
      <3> QED BY <3>1, <3>2, DrawnKept
    <2> QED BY <2>1, <2>2
  <1>2. profile' # NoUser => Drawn(held', profile')
    BY DrawnKept DEF TrueInv
  <1>3. \A i \in 1 .. Len(queue') : Drawn(held', queue'[i].payload)
    BY DrawnKept DEF TrueInv
  <1>4. hand' # NoEvent => Drawn(held', hand'.payload)
    BY DrawnKept DEF TrueInv, consumerVars
  <1>5. \A r \in Readers : reader'[r].got # NoUser => Drawn(held', reader'[r].got)
    BY DrawnKept DEF TrueInv
  <1> QED BY <1>1, <1>2, <1>3, <1>4, <1>5 DEF TrueInv

LEMMA CreateTrue ==
  ASSUME Types, TrueInv, NEW w \in Writers, NEW nm \in Names, NEW rl \in Roles,
         NEW invited \in BOOLEAN, Create(w, nm, rl, invited)
  PROVE  TrueInv'
  <1> DEFINE row == [name |-> nm, role |-> rl, status |-> "pending", company |-> invited]
             slot == [at |-> "publish", op |-> "none", base |-> NoUser,
                      event |-> [type |-> "user.created", payload |-> row]]
  <1>1. /\ writer' = [writer EXCEPT ![w] = slot] /\ held \subseteq held'
        /\ user' = row /\ row \in held'
        /\ UNCHANGED <<profile, queue, consumerVars, reader>>
    BY DEF Create
  <1>2. slot.base = NoUser /\ slot.event.payload = row
    OBVIOUS
  <1> HIDE DEF slot, row
  <1>3. Drawn(held', slot.event.payload)
    BY <1>1, <1>2, DrawnMember
  <1> QED BY <1>1, <1>2, <1>3, ServiceTrue

LEMMA WriteTrue ==
  ASSUME Types, TrueInv, NEW w \in Writers, NEW nm \in Names, NEW rl \in Roles, Write(w, nm, rl)
  PROVE  TrueInv'
  <1> DEFINE op == writer[w].op
             base == writer[w].base
             new == Edited(op, base, nm, rl)
             slot == AfterWrite(op, new)
  <1>1. /\ op \in Operations /\ base \in Users /\ user \in Users /\ new \in Users
        /\ user' = Merge(new, base, user) /\ held' = held \cup {Merge(new, base, user)}
        /\ writer' = [writer EXCEPT ![w] = slot]
        /\ UNCHANGED <<profile, queue, consumerVars, reader>>
    BY Written
  <1>2. base \in held
    BY <1>1, Basics DEF TrueInv
  <1>3. Drawn(held', new)
    <2> HIDE DEF op, base, new
    <2> QED BY <1>1, <1>2, DrawnObject
  <1>4. /\ slot.base # NoUser => slot.base \in held'
        /\ slot.at = "publish" => Drawn(held', slot.event.payload)
    <2>1. CASE slot = Idle
      BY <2>1 DEF Idle
    <2>2. CASE slot # Idle
      <3>1. slot = [at |-> "publish", op |-> "none", base |-> NoUser,
                    event |-> [type |-> "user.updated", payload |-> new]]
        BY <2>2, <1>1, AfterTypes
      <3> HIDE DEF slot, new
      <3>2. slot.base = NoUser /\ slot.event.payload = new
        BY <3>1
      <3> QED BY <1>3, <3>2
    <2> QED BY <2>1, <2>2
  <1> HIDE DEF op, base, new, slot
  <1> QED BY <1>1, <1>4, ServiceTrue

LEMMA LoadTrue ==
  ASSUME Types, TrueInv, NEW w \in Writers, NEW op \in Operations, Load(w, op)
  PROVE  TrueInv'
  <1> DEFINE slot == [at |-> "loaded", op |-> op, base |-> user, event |-> NoEvent]
  <1>1. /\ writer' = [writer EXCEPT ![w] = slot] /\ held' = held /\ user' = user
        /\ user \in held
        /\ UNCHANGED <<profile, queue, consumerVars, reader>>
    BY DEF Load, TrueInv
  <1>2. slot.base = user /\ slot.at # "publish"
    OBVIOUS
  <1> HIDE DEF slot
  <1> QED BY <1>1, <1>2, ServiceTrue

LEMMA LoseTrue ==
  ASSUME Types, TrueInv, NEW w \in Writers, Lose(w)
  PROVE  TrueInv'
  <1>1. /\ writer' = [writer EXCEPT ![w] = Idle] /\ held' = held /\ user' = user
        /\ UNCHANGED <<profile, queue, consumerVars, reader>>
    BY DEF Lose
  <1>2. Idle.base = NoUser /\ Idle.at # "publish" /\ (user' # NoUser => user' \in held')
    BY <1>1 DEF Idle, TrueInv
  <1> QED BY <1>1, <1>2, ServiceTrue

LEMMA PublishTrue ==
  ASSUME Types, TrueInv, NEW w \in Writers, Publish(w)
  PROVE  TrueInv'
  <1> DEFINE event == writer[w].event
  <1>1. /\ event \in Events /\ queue \in Seq(Events) /\ writer \in [Writers -> Slots]
        /\ Drawn(held, event.payload)
    BY DEF Publish, Types, TypeOK, Ready, SlotReady, Slots, TrueInv
  <1>2. /\ queue' = Append(queue, event) /\ writer' = [writer EXCEPT ![w] = Idle]
        /\ UNCHANGED <<user, held, profile, consumerVars, reader>>
    BY DEF Publish
  <1>3. \A i \in 1 .. Len(queue') : Drawn(held', queue'[i].payload)
    BY <1>1, <1>2, Appended DEF TrueInv
  <1>4. ASSUME NEW v \in Writers
        PROVE  /\ writer'[v].base # NoUser => writer'[v].base \in held'
               /\ writer'[v].at = "publish" => Drawn(held', writer'[v].event.payload)
    <2>1. writer'[v] = Idle \/ writer'[v] = writer[v]
      BY <1>1, <1>2
    <2> QED BY <1>2, <2>1 DEF Idle, TrueInv
  <1> QED BY <1>2, <1>3, <1>4 DEF TrueInv, consumerVars

\* An action of the consumer that leaves the profile alone.
LEMMA HandlerTrue ==
  ASSUME Types, TrueInv, UNCHANGED <<serviceVars, profile, reader>>,
         \/ hand' = hand /\ queue' = queue
         \/ hand' = NoEvent /\ queue' = queue
         \/ queue # <<>> /\ hand' = Head(queue) /\ queue' = Tail(queue)
         \/ hand \in Events /\ hand' = NoEvent /\ queue' = <<hand>> \o queue
  PROVE  TrueInv'
  <1>0. queue \in Seq(Events)
    BY DEF Types, TypeOK
  <1>1. /\ \A i \in 1 .. Len(queue) : Drawn(held, queue[i].payload)
        /\ hand # NoEvent => Drawn(held, hand.payload)
    BY DEF TrueInv
  <1>2. /\ \A i \in 1 .. Len(queue') : Drawn(held, queue'[i].payload)
        /\ hand' # NoEvent => Drawn(held, hand'.payload)
    <2>1. CASE queue' = queue /\ (hand' = hand \/ hand' = NoEvent)
      BY <1>1, <2>1
    <2>2. CASE queue # <<>> /\ hand' = Head(queue) /\ queue' = Tail(queue)
      BY <1>0, <1>1, <2>2, Taken
    <2>3. CASE hand \in Events /\ hand' = NoEvent /\ queue' = <<hand>> \o queue
      <3>1. hand # NoEvent
        BY <2>3, Basics
      <3> QED BY <1>0, <1>1, <2>3, <3>1, PutBack
    <2> QED BY <2>1, <2>2, <2>3
  <1> QED BY <1>2 DEF TrueInv, serviceVars

\* A saved row was drawn from the rows the user had.
LEMMA SaveTrue ==
  ASSUME Types, TrueInv, Save
  PROVE  TrueInv'
  <1>1. /\ hand \in Events /\ Saved(hand.payload, found) /\ found \in Row
        /\ (found # NoUser => profile \in Users)
        /\ UNCHANGED <<serviceVars, queue, hand, reader>>
    BY DEF Save, Types, TypeOK, Ready
  <1>2. hand.payload \in Users /\ Drawn(held, hand.payload)
    BY <1>1, Basics DEF TrueInv
  <1>3. Drawn(held, profile')
    BY <1>1, <1>2, SavedRow
  <1> QED BY <1>1, <1>3 DEF TrueInv, serviceVars

\* An action of a reader: one request goes on.
LEMMA ReaderTrue ==
  ASSUME Types, TrueInv, NEW r \in Readers, NEW look, reader' = [reader EXCEPT ![r] = look],
         look.got # NoUser => Drawn(held, look.got),
         profile' # NoUser => Drawn(held, profile'),
         UNCHANGED <<serviceVars, queue, consumerVars>>
  PROVE  TrueInv'
  <1>0. reader \in [Readers -> Looks]
    BY DEF Types, TypeOK, Looks
  <1>1. ASSUME NEW t \in Readers
        PROVE  reader'[t].got # NoUser => Drawn(held, reader'[t].got)
    <2>1. reader'[t] = look \/ reader'[t] = reader[t]
      BY <1>0
    <2> QED BY <2>1 DEF TrueInv
  <1> QED BY <1>1 DEF TrueInv, serviceVars, consumerVars

LEMMA LooksTrue ==
  ASSUME Types, TrueInv, NEW r \in Readers, Reader(r)
  PROVE  TrueInv'
  <1>0. /\ reader \in [Readers -> Looks] /\ LookReady(reader[r], profile)
        /\ reader[r].got # NoUser => Drawn(held, reader[r].got)
        /\ profile # NoUser => Drawn(held, profile)
    BY DEF Types, TypeOK, Ready, Looks, TrueInv
  <1>1. Away.got = NoUser
    BY DEF Away
  <1>2. CASE Miss(r)
    <2> DEFINE look == [reader[r] EXCEPT !.at = "missed"]
    <2>1. /\ reader' = [reader EXCEPT ![r] = look] /\ profile' = profile
          /\ UNCHANGED <<serviceVars, queue, consumerVars>>
      BY <1>2 DEF Miss
    <2>2. look.got = reader[r].got
      BY <1>0 DEF Looks
    <2> HIDE DEF look
    <2> QED BY <1>0, <2>1, <2>2, ReaderTrue
  <1>3. CASE Fetch(r)
    <2> DEFINE look == [at |-> "got", got |-> user, seen |-> NoUser]
               next == IF user = NoUser THEN Away ELSE look
    <2>1. /\ reader' = [reader EXCEPT ![r] = next] /\ profile' = profile
          /\ UNCHANGED <<serviceVars, queue, consumerVars>>
      BY <1>3 DEF Fetch
    <2>2. next.got = user
      BY <1>1
    <2>3. user # NoUser => Drawn(held, user)
      BY DrawnMember DEF TrueInv
    <2> HIDE DEF next
    <2> QED BY <1>0, <2>1, <2>2, <2>3, ReaderTrue
  <1>4. CASE FindAgain(r)
    <2> DEFINE look == [reader[r] EXCEPT !.at = "found", !.seen = profile]
    <2>1. /\ reader' = [reader EXCEPT ![r] = look] /\ profile' = profile
          /\ UNCHANGED <<serviceVars, queue, consumerVars>>
      BY <1>4 DEF FindAgain
    <2>2. look.got = reader[r].got
      BY <1>0 DEF Looks
    <2> HIDE DEF look
    <2> QED BY <1>0, <2>1, <2>2, ReaderTrue
  <1>5. CASE Fill(r)
    <2>1. /\ reader[r].at = "found" /\ Saved(reader[r].got, reader[r].seen)
          /\ reader' = [reader EXCEPT ![r] = Away]
          /\ UNCHANGED <<serviceVars, queue, consumerVars>>
      BY <1>5 DEF Fill
    <2>2. /\ reader[r].got \in Users /\ reader[r].seen \in Row
          /\ (reader[r].seen # NoUser => profile \in Users)
      BY <1>0, <2>1 DEF LookReady, Looks
    <2>3. Drawn(held, reader[r].got)
      BY <1>0, <2>2, Basics
    <2>4. Drawn(held, profile')
      BY <2>1, <2>2, <2>3, SavedRow
    <2> QED BY <1>1, <2>1, <2>4, ReaderTrue
  <1>6. CASE FillFails(r)
    <2>1. /\ reader' = [reader EXCEPT ![r] = Away] /\ profile' = profile
          /\ UNCHANGED <<serviceVars, queue, consumerVars>>
      BY <1>6 DEF FillFails
    <2> QED BY <1>0, <1>1, <2>1, ReaderTrue
  <1> QED BY <1>2, <1>3, <1>4, <1>5, <1>6 DEF Reader

LEMMA TrueStep ==
  ASSUME Types, TrueInv, [Next]_vars
  PROVE  TrueInv'
  <1>0. step # "idle" => hand \in Events
    BY DEF Types, Ready
  <1>1. ASSUME NEW w \in Writers, Service(w) PROVE TrueInv'
    BY <1>1, CreateTrue, LoadTrue, WriteTrue, PublishTrue, LoseTrue DEF Service, Operations
  <1>2. CASE Deliver
    BY <1>2, HandlerTrue DEF Deliver
  <1>3. CASE Find \/ Ack \/ Restart
    BY <1>3, HandlerTrue DEF Find, Ack, Restart
  <1>4. CASE SaveRefused \/ HandlerFails
    <2>1. hand \in Events /\ Requeue /\ UNCHANGED <<serviceVars, profile, reader>>
      BY <1>0, <1>4 DEF SaveRefused, HandlerFails
    <2> QED BY <2>1, HandlerTrue DEF Requeue
  <1>5. CASE ConnectionLost \/ ConsumerDies
    <2>1. hand \in Events \cup {NoEvent} /\ UNCHANGED <<serviceVars, profile, reader>>
      BY <1>5 DEF ConnectionLost, ConsumerDies, LetGo, Types, TypeOK
    <2>2. CASE hand = NoEvent
      BY <1>5, <2>1, <2>2, HandlerTrue DEF ConnectionLost, ConsumerDies, LetGo
    <2>3. CASE hand # NoEvent
      BY <1>5, <2>1, <2>3, HandlerTrue DEF ConnectionLost, ConsumerDies, LetGo, Requeue
    <2> QED BY <2>2, <2>3
  <1>6. ASSUME NEW r \in Readers, Reader(r) PROVE TrueInv'
    BY <1>6, LooksTrue
  <1>7. CASE UNCHANGED vars
    BY <1>7 DEF vars, serviceVars, consumerVars, TrueInv
  <1> QED BY <1>1, <1>2, <1>3, <1>4, <1>5, <1>6, <1>7, SaveTrue DEF Next, Consumer

LEMMA TrueShown == Types /\ TrueInv => FieldsWereTrue
  BY Basics DEF Types, TypeOK, Row, TrueInv, Drawn, FieldsWereTrue

\* Nothing is shown of a user that was not committed as that user's: the object a request
\* publishes may be older than the row, two requests may have edited different fields, and
\* a fetch and a redelivery may write over each other, but each field was once the user's
\* (users: user_crud.py update_user; budget: event_handlers.py, user_cache.py).
THEOREM FieldsTrue == Spec => []FieldsWereTrue
  <1>1. Types /\ TrueInv /\ [Next]_vars => TrueInv'
    BY TrueStep
  <1> QED BY TypesAlways, TrueInit, <1>1, TrueShown, PTL DEF Spec

-----------------------------------------------------------------------------
(* The copy is the last word. *)

\* What the events of a queue make of a row: the last update counts, wherever it found the row;
\* without one the row stays, or the first creation makes it.
LastUpdate(s, x) ==
  \E i \in 1 .. Len(s) :
     /\ s[i].type = "user.updated" /\ x = s[i].payload
     /\ \A j \in 1 .. Len(s) : i < j => s[j].type = "user.created"
Creations(s) == \A i \in 1 .. Len(s) : s[i].type = "user.created"
Said(row, s, x) ==
  \/ LastUpdate(s, x)
  \/ Creations(s) /\ x = IF row # NoUser \/ s = <<>> THEN row ELSE s[1].payload

\* An update waits in the queue, and will overwrite whatever the copy holds.
UpdateWaits == \E i \in 1 .. Len(queue) : queue[i].type = "user.updated"

\* The copy once the message in hand was handled.
Ahead == IF hand = NoEvent THEN profile ELSE Applied(hand, profile)

\* As long as no fetch was under way when the last update was published, nor since: no reader
\* is, what is in hand and in the queue comes to the last word, and unless an update is to come
\* the handler knows the row, and has done what it is done with.
WordInv ==
  /\ step = "found" /\ hand.type = "user.created" => found = NoUser
  /\ ~fetched =>
       /\ \A r \in Readers : reader[r].at = "idle"
       /\ Said(Ahead, queue, word)
       /\ step = "found" => found = profile \/ UpdateWaits
       /\ step = "done" => Applied(hand, profile) = profile \/ UpdateWaits

\* The length of a queue is a number.
LEMMA LengthOf == ASSUME NEW s \in Seq(Events) PROVE Len(s) \in Nat
  BY LenProperties

\* What an event says.
LEMMA EventTypes ==
  \A e \in Events : e.type \in {"user.created", "user.updated"} /\ e.payload \in Users
                    /\ e.payload # NoUser
  BY Basics DEF Events

\* The event in hand, handled twice, is handled once.
LEMMA AppliedTwice ==
  ASSUME NEW e \in Events, NEW row \in Row
  PROVE  /\ Applied(e, Applied(e, row)) = Applied(e, row) /\ Applied(e, row) \in Row
         /\ Applied(e, row) # NoUser
         /\ e.type = "user.updated" => Applied(e, row) = e.payload
         /\ e.type = "user.created" => Applied(e, row) = IF row # NoUser THEN row ELSE e.payload
  BY EventTypes, Basics DEF Applied

\* Nothing waits: the row is what it is.
LEMMA SaidNothing ==
  ASSUME NEW row, NEW x, Said(row, <<>>, x)
  PROVE  x = row
  <1>1. Len(<<>>) = 0 /\ 1 .. 0 = {}
    OBVIOUS
  <1> QED BY <1>1 DEF Said, LastUpdate

\* An event comes last.
LEMMA SaidAppend ==
  ASSUME NEW s \in Seq(Events), NEW e \in Events, NEW row \in Row, NEW x \in Row,
         e.type = "user.updated" \/ Said(row, s, x)
  PROVE  Said(row, Append(s, e), Applied(e, x))
  <1> DEFINE t == Append(s, e)
             n == Len(s)
  <1>1. /\ n \in Nat /\ Len(t) = n + 1 /\ t[n + 1] = e
        /\ \A i \in 1 .. n : t[i] = s[i] /\ i \in 1 .. Len(t)
        /\ s = <<>> <=> n = 0
    BY LengthOf, AppendProperties, EmptySeq
  <1>2. n + 1 \in 1 .. Len(t) /\ \A i \in 1 .. Len(t) : i = n + 1 \/ i \in 1 .. n
    BY <1>1
  <1>3. \A i \in 1 .. Len(t) : ~(n + 1 < i)
    BY <1>1
  <1>4. t # <<>>
    BY <1>1, EmptySeq
  <1> HIDE DEF t, n
  <1>5. CASE e.type = "user.updated"
    <2>1. LastUpdate(t, e.payload)
      BY <1>1, <1>2, <1>3, <1>5 DEF LastUpdate
    <2> QED BY <1>5, <2>1, AppliedTwice DEF Said, t
  <1>6. CASE e.type = "user.created"
    <2>0. Said(row, s, x)
      BY <1>6
    <2>1. ASSUME LastUpdate(s, x) PROVE Said(row, t, Applied(e, x))
      <3>1. PICK i \in 1 .. n : /\ s[i].type = "user.updated" /\ x = s[i].payload
                                /\ \A j \in 1 .. n : i < j => s[j].type = "user.created"
        BY <2>1 DEF LastUpdate, n
      <3>2. i \in 1 .. Len(t) /\ t[i] = s[i]
        BY <1>1, <3>1
      <3>3. \A j \in 1 .. Len(t) : i < j => t[j].type = "user.created"
        <4> SUFFICES ASSUME NEW j \in 1 .. Len(t), i < j PROVE t[j].type = "user.created"
          OBVIOUS
        <4>1. CASE j = n + 1
          BY <1>1, <1>6, <4>1
        <4>2. CASE j \in 1 .. n
          BY <1>1, <3>1, <4>2
        <4> QED BY <1>2, <4>1, <4>2
      <3>4. s[i] \in Events
        BY <3>1, ElementOfSeq DEF n
      <3>5. x # NoUser
        BY <3>1, <3>4, EventTypes
      <3>6. Applied(e, x) = x
        BY <1>6, <3>5, AppliedTwice
      <3> QED BY <3>1, <3>2, <3>3, <3>6 DEF Said, LastUpdate
    <2>2. ASSUME Creations(s), x = IF row # NoUser \/ s = <<>> THEN row ELSE s[1].payload
          PROVE  Said(row, t, Applied(e, x))
      <3>1. Creations(t)
        BY <1>1, <1>2, <1>6, <2>2 DEF Creations, n
      <3>2. CASE row # NoUser
        BY <1>6, <2>2, <3>1, <3>2, AppliedTwice DEF Said
      <3>3. CASE row = NoUser /\ s = <<>>
        <4>1. n = 0 /\ t[1] = e
          BY <1>1, <3>3
        <4>2. Applied(e, x) = e.payload
          BY <1>6, <2>2, <3>3, AppliedTwice
        <4> QED BY <1>4, <3>1, <3>3, <4>1, <4>2 DEF Said
      <3>4. CASE row = NoUser /\ s # <<>>
        <4>1. 1 \in 1 .. n
          BY <1>1, <3>4
        <4>2. t[1] = s[1] /\ s[1] \in Events
          BY <1>1, <4>1, ElementOfSeq DEF n
        <4>3. x = s[1].payload /\ x # NoUser
          BY <2>2, <3>4, <4>2, EventTypes
        <4>4. Applied(e, x) = x
          BY <1>6, <4>3, AppliedTwice
        <4> QED BY <1>4, <3>1, <3>4, <4>2, <4>3, <4>4 DEF Said
      <3> QED BY <3>2, <3>3, <3>4
    <2> QED BY <2>0, <2>1, <2>2 DEF Said, t
  <1> QED BY <1>5, <1>6, EventTypes

\* An event comes first.
LEMMA SaidFirst ==
  ASSUME NEW q \in Seq(Events), NEW s \in Seq(Events), NEW e \in Events, NEW row \in Row, NEW x,
         Len(q) = Len(s) + 1, q[1] = e, \A i \in 1 .. Len(s) : s[i] = q[i + 1]
  PROVE  Said(row, q, x) <=> Said(Applied(e, row), s, x)
  <1> DEFINE n == Len(s)
             new == Applied(e, row)
  <1>1. /\ n \in Nat /\ Len(q) = n + 1 /\ q # <<>>
        /\ s = <<>> <=> n = 0
    BY LengthOf, EmptySeq
  <1>2. /\ 1 \in 1 .. Len(q)
        /\ \A i \in 1 .. n : i + 1 \in 1 .. Len(q) /\ s[i] = q[i + 1]
        /\ \A i \in 1 .. Len(q) : i = 1 \/ (i - 1 \in 1 .. n /\ q[i] = s[i - 1])
    <2>1. ASSUME NEW i \in 1 .. Len(q), i # 1 PROVE i - 1 \in 1 .. n /\ q[i] = s[i - 1]
      <3>1. i - 1 \in 1 .. n /\ (i - 1) + 1 = i
        BY <1>1, <2>1
      <3> QED BY <3>1
    <2> QED BY <1>1, <2>1
  <1>3. /\ new # NoUser
        /\ e.type = "user.updated" => new = e.payload
        /\ e.type = "user.created" => new = IF row # NoUser THEN row ELSE e.payload
    BY AppliedTwice
  <1> HIDE DEF n, new
  <1>4. ASSUME LastUpdate(s, x) PROVE Said(row, q, x) /\ Said(new, s, x)
    <2>1. PICK i \in 1 .. n : /\ s[i].type = "user.updated" /\ x = s[i].payload
                              /\ \A j \in 1 .. n : i < j => s[j].type = "user.created"
      BY <1>4 DEF LastUpdate, n
    <2>2. i + 1 \in 1 .. Len(q) /\ q[i + 1] = s[i]
      BY <1>2, <2>1
    <2>3. ASSUME NEW j \in 1 .. Len(q), i + 1 < j PROVE q[j].type = "user.created"
      <3>1. j # 1
        BY <2>1, <2>3
      <3>2. j - 1 \in 1 .. n /\ q[j] = s[j - 1]
        BY <1>2, <3>1
      <3>3. i < j - 1
        BY <2>1, <2>3
      <3> QED BY <2>1, <3>2, <3>3
    <2>4. LastUpdate(q, x)
      BY <2>1, <2>2, <2>3 DEF LastUpdate
    <2> QED BY <1>4, <2>4 DEF Said
  <1>5. ASSUME LastUpdate(q, x) PROVE Said(new, s, x)
    <2>1. PICK i \in 1 .. Len(q) : /\ q[i].type = "user.updated" /\ x = q[i].payload
                                   /\ \A j \in 1 .. Len(q) : i < j => q[j].type = "user.created"
      BY <1>5 DEF LastUpdate
    <2>2. CASE i = 1
      <3>1. Creations(s)
        <4> SUFFICES ASSUME NEW j \in 1 .. n PROVE s[j].type = "user.created"
          BY DEF Creations, n
        <4>1. j + 1 \in 1 .. Len(q) /\ s[j] = q[j + 1] /\ i < j + 1
          BY <1>2, <2>2
        <4> QED BY <2>1, <4>1
      <3>2. x = new
        BY <1>3, <2>1, <2>2
      <3> QED BY <1>3, <3>1, <3>2 DEF Said
    <2>3. CASE i # 1
      <3>1. i - 1 \in 1 .. n /\ q[i] = s[i - 1]
        BY <1>2, <2>3
      <3>2. ASSUME NEW j \in 1 .. n, i - 1 < j PROVE s[j].type = "user.created"
        <4>1. j + 1 \in 1 .. Len(q) /\ s[j] = q[j + 1] /\ i < j + 1
          BY <1>2, <2>1, <3>2
        <4> QED BY <2>1, <4>1
      <3> QED BY <2>1, <3>1, <3>2 DEF Said, LastUpdate, n
    <2> QED BY <2>2, <2>3
  <1>6. Creations(q) <=> e.type = "user.created" /\ Creations(s)
    <2>1. ASSUME Creations(q) PROVE e.type = "user.created" /\ Creations(s)
      BY <1>2, <2>1 DEF Creations, n
    <2>2. ASSUME e.type = "user.created", Creations(s) PROVE Creations(q)
      <3> SUFFICES ASSUME NEW i \in 1 .. Len(q) PROVE q[i].type = "user.created"
        BY DEF Creations
      <3> QED BY <1>2, <2>2 DEF Creations, n
    <2> QED BY <2>1, <2>2
  <1>7. ASSUME Creations(q), x = IF row # NoUser THEN row ELSE q[1].payload
        PROVE  Said(new, s, x)
    BY <1>3, <1>6, <1>7 DEF Said
  <1>8. ASSUME Creations(s), x = new PROVE Said(row, q, x)
    <2>1. CASE e.type = "user.created"
      BY <1>1, <1>3, <1>6, <1>8, <2>1 DEF Said
    <2>2. CASE e.type = "user.updated"
      <3>1. ASSUME NEW j \in 1 .. Len(q), 1 < j PROVE q[j].type = "user.created"
        BY <1>2, <1>8, <3>1 DEF Creations, n
      <3>2. LastUpdate(q, x)
        BY <1>2, <1>3, <1>8, <2>2, <3>1 DEF LastUpdate
      <3> QED BY <3>2 DEF Said
    <2> QED BY <2>1, <2>2, EventTypes
  <1>9. ASSUME Said(row, q, x) PROVE Said(new, s, x)
    BY <1>1, <1>5, <1>7, <1>9 DEF Said
  <1>10. ASSUME Said(new, s, x) PROVE Said(row, q, x)
    BY <1>3, <1>4, <1>8, <1>10 DEF Said
  <1> QED BY <1>9, <1>10 DEF new

\* The head of a queue, and a message that returns to it.
LEMMA SaidTail ==
  ASSUME NEW q \in Seq(Events), q # <<>>, NEW row \in Row, NEW x, Said(row, q, x)
  PROVE  Said(Applied(Head(q), row), Tail(q), x)
  <1>1. /\ Head(q) \in Events /\ Tail(q) \in Seq(Events) /\ Len(Tail(q)) = Len(q) - 1
        /\ \A i \in 1 .. Len(Tail(q)) : Tail(q)[i] = q[i + 1]
    BY HeadTailProperties
  <1>2. Len(q) = Len(Tail(q)) + 1 /\ q[1] = Head(q)
    BY <1>1, LengthOf
  <1> QED BY <1>1, <1>2, SaidFirst

\* A message that returns to its place in front.
LEMMA SaidBack ==
  ASSUME NEW q \in Seq(Events), NEW e \in Events, NEW row \in Row, NEW x,
         Said(Applied(e, row), q, x)
  PROVE  Said(row, <<e>> \o q, x)
  <1> DEFINE b == <<e>> \o q
  <1>1. <<e>> \in Seq(Events) /\ Len(<<e>>) = 1 /\ <<e>>[1] = e /\ Len(q) \in Nat
    BY LengthOf
  <1>2. /\ b \in Seq(Events) /\ Len(b) = 1 + Len(q)
        /\ \A i \in 1 .. 1 + Len(q) : b[i] = IF i <= 1 THEN <<e>>[i] ELSE q[i - 1]
    BY <1>1, ConcatProperties
  <1>3. b[1] = e
    BY <1>1, <1>2
  <1>4. ASSUME NEW i \in 1 .. Len(q) PROVE q[i] = b[i + 1]
    <2>1. i + 1 \in 1 .. 1 + Len(q) /\ ~(i + 1 <= 1) /\ (i + 1) - 1 = i
      BY <1>1
    <2> QED BY <1>2, <2>1
  <1>5. Len(b) = Len(q) + 1
    BY <1>1, <1>2
  <1> HIDE DEF b
  <1> QED BY <1>2, <1>3, <1>4, <1>5, SaidFirst DEF b

\* An update in the queue makes what was there before it irrelevant.
LEMMA SaidAnyway ==
  ASSUME NEW row, NEW old, NEW x, UpdateWaits, Said(old, queue, x)
  PROVE  Said(row, queue, x)
  BY DEF Said, UpdateWaits, Creations

-----------------------------------------------------------------------------
(* WordInv. *)

\* At the start nothing was said.
LEMMA WordInit == Init => WordInv
  <1> SUFFICES ASSUME Init PROVE WordInv
    OBVIOUS
  <1>1. Creations(queue)
    BY DEF Init, Creations
  <1> QED BY <1>1 DEF Init, WordInv, Ahead, Said, Away

\* What the consumer has at hand.
LEMMA InHand ==
  ASSUME Types
  PROVE  /\ queue \in Seq(Events) /\ profile \in Row /\ found \in Row /\ word \in Row
         /\ hand \in Events \cup {NoEvent} /\ NoEvent \notin Events
         /\ step # "idle" => hand \in Events /\ hand # NoEvent
         /\ hand # NoEvent => hand \in Events
         /\ Ahead \in Row
  BY Basics, AppliedTwice DEF Types, TypeOK, Ready, Ahead

\* An action that leaves the copy, its queue and its handler alone, and lets nobody read who
\* did not read before.
LEMMA AsideWord ==
  ASSUME WordInv, UNCHANGED <<profile, queue, hand, step, found, word, fetched, reader>>
  PROVE  WordInv'
  BY DEF WordInv, Ahead, UpdateWaits

\* A request publishes: the event comes last.
LEMMA PublishWord ==
  ASSUME Types, WordInv, NEW w \in Writers, Publish(w)
  PROVE  WordInv'
  <1> DEFINE event == writer[w].event
  <1>1. event \in Events
    BY DEF Publish, Types, Ready, SlotReady
  <1>2. /\ queue' = Append(queue, event) /\ word' = Applied(event, word)
        /\ fetched' = \/ fetched /\ event.type = "user.created"
                      \/ \E r \in Readers : reader[r].at # "idle"
        /\ UNCHANGED <<profile, hand, step, found, reader>>
    BY DEF Publish, consumerVars
  <1> HIDE DEF event
  <1>3. queue \in Seq(Events) /\ word \in Row /\ Ahead \in Row
    BY InHand
  <1>4. Ahead' = Ahead
    BY <1>2 DEF Ahead
  <1>5. UpdateWaits \/ event.type = "user.updated" => UpdateWaits'
    <2>1. /\ Len(queue) \in Nat /\ Len(queue') = Len(queue) + 1
          /\ queue'[Len(queue) + 1] = event
          /\ \A i \in 1 .. Len(queue) : queue'[i] = queue[i]
      BY <1>1, <1>2, <1>3, LengthOf, AppendProperties
    <2>2. Len(queue) + 1 \in 1 .. Len(queue') /\ \A i \in 1 .. Len(queue) : i \in 1 .. Len(queue')
      BY <2>1
    <2> QED BY <2>1, <2>2 DEF UpdateWaits
  <1>6. step' = "found" /\ hand'.type = "user.created" => found' = NoUser
    BY <1>2 DEF WordInv
  <1>7. ASSUME ~fetched'
        PROVE  /\ \A r \in Readers : reader'[r].at = "idle"
               /\ Said(Ahead', queue', word')
               /\ step' = "found" => found' = profile' \/ UpdateWaits'
               /\ step' = "done" => Applied(hand', profile') = profile' \/ UpdateWaits'
    <2>1. /\ \A r \in Readers : reader'[r].at = "idle"
          /\ ~fetched \/ event.type = "user.updated"
      BY <1>1, <1>2, <1>7, EventTypes
    <2>2. event.type = "user.updated" \/ Said(Ahead, queue, word)
      BY <2>1 DEF WordInv
    <2>3. Said(Ahead', queue', word')
      BY <1>1, <1>2, <1>3, <1>4, <2>2, SaidAppend
    <2>4. ~fetched => /\ step = "found" => found = profile \/ UpdateWaits
                      /\ step = "done" => Applied(hand, profile) = profile \/ UpdateWaits
      BY DEF WordInv
    <2> QED BY <1>2, <1>5, <2>1, <2>3, <2>4
  <1> QED BY <1>6, <1>7 DEF WordInv

\* The head of the queue is taken in hand.
LEMMA DeliverWord ==
  ASSUME Types, WordInv, Deliver
  PROVE  WordInv'
  <1>1. /\ hand = NoEvent /\ queue # <<>> /\ hand' = Head(queue) /\ queue' = Tail(queue)
        /\ step' = "took" /\ UNCHANGED <<profile, reader, word, fetched>>
    BY DEF Deliver
  <1>2. queue \in Seq(Events) /\ profile \in Row /\ NoEvent \notin Events
    BY InHand
  <1>3. Head(queue) \in Events
    BY <1>1, <1>2, Taken
  <1>4. Ahead = profile /\ Ahead' = Applied(Head(queue), profile)
    BY <1>1, <1>2, <1>3 DEF Ahead, Applied
  <1>5. ~fetched => Said(Ahead', queue', word')
    BY <1>1, <1>2, <1>4, SaidTail DEF WordInv
  <1> QED BY <1>1, <1>5 DEF WordInv

\* The message in hand goes back, handled or not.
LEMMA RequeueWord ==
  ASSUME Types, WordInv, hand # NoEvent, Requeue, UNCHANGED <<profile, reader, word, fetched>>
  PROVE  WordInv'
  <1>1. /\ queue' = <<hand>> \o queue /\ hand' = NoEvent /\ step' = "idle"
    BY DEF Requeue
  <1>2. queue \in Seq(Events) /\ profile \in Row /\ hand \in Events
    BY InHand
  <1>3. Ahead = Applied(hand, profile) /\ Ahead' = profile
    BY <1>1 DEF Ahead
  <1>4. ~fetched => Said(Ahead', queue', word')
    BY <1>1, <1>2, <1>3, SaidBack DEF WordInv
  <1> QED BY <1>1, <1>4 DEF WordInv

\* The handler looks for the row.
LEMMA FindWord ==
  ASSUME Types, WordInv, Find
  PROVE  WordInv'
  <1>1. /\ step = "took" /\ found' = profile
        /\ step' = IF hand.type = "user.created" /\ profile # NoUser THEN "done" ELSE "found"
        /\ UNCHANGED <<profile, queue, hand, reader, word, fetched>>
    BY DEF Find
  <1>2. hand \in Events /\ profile \in Row
    BY <1>1, InHand
  <1>3. step' = "found" /\ hand'.type = "user.created" => found' = NoUser
    BY <1>1
  <1>4. step' = "done" => Applied(hand', profile') = profile'
    BY <1>1, <1>2, AppliedTwice
  <1>5. ~fetched' => (\A r \in Readers : reader'[r].at = "idle") /\ Said(Ahead', queue', word')
    BY <1>1 DEF WordInv, Ahead, Applied
  <1>6. step' = "found" => found' = profile'
    BY <1>1
  <1> QED BY <1>3, <1>4, <1>5, <1>6 DEF WordInv

\* The handler writes the row.
LEMMA SaveWord ==
  ASSUME Types, WordInv, Save
  PROVE  WordInv'
  <1>1. /\ step = "found" /\ Saved(hand.payload, found) /\ step' = "done"
        /\ UNCHANGED <<queue, hand, reader, word, fetched>>
    BY DEF Save
  <1>2. /\ hand \in Events /\ hand # NoEvent /\ profile \in Row /\ found \in Row
        /\ (found # NoUser => profile \in Users)
    BY <1>1, InHand DEF Types, Ready
  <1>3. hand.payload \in Users /\ profile' \in Users
    BY <1>1, <1>2, Basics, SavedTypes
  <1>4. Ahead = Applied(hand, profile) /\ Ahead' = Applied(hand', profile')
    BY <1>1, <1>2 DEF Ahead
  <1>5. ASSUME found = profile PROVE profile' = Applied(hand, profile)
    <2>1. CASE found = NoUser
      <3>1. profile' = hand.payload
        BY <1>1, <2>1 DEF Saved
      <3> QED BY <1>2, <1>5, <2>1, <3>1 DEF Applied
    <2>2. CASE found # NoUser
      <3>1. profile' = Merge(hand.payload, profile, profile) /\ profile \in Users
        BY <1>1, <1>2, <1>5, <2>2 DEF Saved
      <3>2. hand.type = "user.updated"
        BY <1>1, <1>2, <2>2, EventTypes DEF WordInv
      <3>3. Merge(hand.payload, profile, profile) = hand.payload
        BY <1>3, <3>1 DEF Merge, Users
      <3> QED BY <1>2, <3>1, <3>2, <3>3, AppliedTwice
    <2> QED BY <2>1, <2>2
  <1>6. ASSUME ~fetched'
        PROVE  /\ \A r \in Readers : reader'[r].at = "idle"
               /\ Said(Ahead', queue', word')
               /\ Applied(hand', profile') = profile' \/ UpdateWaits'
    <2>1. /\ \A r \in Readers : reader[r].at = "idle"
          /\ Said(Ahead, queue, word)
          /\ found = profile \/ UpdateWaits
      BY <1>1, <1>6 DEF WordInv
    <2>2. CASE found = profile
      <3>1. profile' = Applied(hand, profile)
        BY <1>5, <2>2
      <3>2. Applied(hand, profile') = profile'
        BY <1>2, <3>1, AppliedTwice
      <3>3. hand' = hand /\ queue' = queue /\ word' = word /\ reader' = reader
        BY <1>1
      <3>4. Ahead' = Ahead
        BY <1>4, <3>1, <3>2, <3>3
      <3> QED BY <2>1, <3>2, <3>3, <3>4
    <2>3. CASE UpdateWaits
      <3>1. UpdateWaits' /\ Said(Ahead', queue, word)
        BY <1>1, <2>1, <2>3, SaidAnyway DEF UpdateWaits
      <3> QED BY <1>1, <2>1, <3>1
    <2> QED BY <2>1, <2>2, <2>3
  <1> QED BY <1>1, <1>6 DEF WordInv

\* The message in hand was handled.
LEMMA AckWord ==
  ASSUME Types, WordInv, Ack
  PROVE  WordInv'
  <1>1. /\ step = "done" /\ hand' = NoEvent /\ step' = "idle"
        /\ UNCHANGED <<profile, queue, reader, word, fetched>>
    BY DEF Ack
  <1>2. hand # NoEvent
    BY <1>1, InHand
  <1>3. Ahead = Applied(hand, profile) /\ Ahead' = profile
    BY <1>1, <1>2 DEF Ahead
  <1>4. ASSUME ~fetched PROVE Said(Ahead', queue, word)
    <2>1. Said(Ahead, queue, word) /\ (Ahead = profile \/ UpdateWaits)
      BY <1>1, <1>3, <1>4 DEF WordInv
    <2> QED BY <1>3, <2>1, SaidAnyway
  <1> QED BY <1>1, <1>4 DEF WordInv

\* A reader that is under way has set fetched, and one that starts sets it.
LEMMA ReaderWord ==
  ASSUME Types, WordInv, NEW r \in Readers, Reader(r)
  PROVE  WordInv'
  <1>1. UNCHANGED <<queue, hand, step, found, word>>
    BY DEF Reader, Miss, Fetch, FindAgain, Fill, FillFails, consumerVars
  <1>2. fetched'
    <2>1. CASE Miss(r)
      BY <2>1 DEF Miss
    <2>2. CASE Fetch(r) \/ FindAgain(r) \/ Fill(r) \/ FillFails(r)
      <3>1. reader[r].at # "idle" /\ fetched' = fetched
        BY <2>2 DEF Fetch, FindAgain, Fill, FillFails
      <3> QED BY <3>1 DEF WordInv, Types, TypeOK
    <2> QED BY <2>1, <2>2 DEF Reader
  <1> QED BY <1>1, <1>2 DEF WordInv

\* Every step keeps WordInv.
LEMMA WordStep ==
  ASSUME Types, WordInv, [Next]_vars
  PROVE  WordInv'
  <1>1. ASSUME NEW w \in Writers, Service(w) PROVE WordInv'
    <2>1. CASE Publish(w)
      BY <2>1, PublishWord
    <2>2. CASE ~Publish(w)
      <3>1. UNCHANGED <<profile, queue, hand, step, found, word, fetched, reader>>
        BY <1>1, <2>2 DEF Service, Create, Load, Write, Lose, consumerVars
      <3> QED BY <3>1, AsideWord
    <2> QED BY <2>1, <2>2
  <1>2. CASE SaveRefused \/ HandlerFails
    <2>1. hand # NoEvent /\ Requeue /\ UNCHANGED <<profile, reader, word, fetched>>
      BY <1>2, InHand DEF SaveRefused, HandlerFails
    <2> QED BY <2>1, RequeueWord
  <1>3. CASE ConnectionLost \/ ConsumerDies
    <2>1. UNCHANGED <<profile, reader, word, fetched>>
      BY <1>3 DEF ConnectionLost, ConsumerDies, LetGo
    <2>2. CASE hand = NoEvent
      BY <1>3, <2>1, <2>2, AsideWord DEF ConnectionLost, ConsumerDies, LetGo
    <2>3. CASE hand # NoEvent
      BY <1>3, <2>1, <2>3, RequeueWord DEF ConnectionLost, ConsumerDies, LetGo
    <2> QED BY <2>2, <2>3
  <1>4. CASE Restart \/ UNCHANGED vars
    <2>1. UNCHANGED <<profile, queue, hand, step, found, word, fetched, reader>>
      BY <1>4 DEF Restart, vars, consumerVars
    <2> QED BY <2>1, AsideWord
  <1>5. CASE Consumer
    BY <1>2, <1>4, <1>5, DeliverWord, FindWord, SaveWord, AckWord DEF Consumer
  <1> QED BY <1>1, <1>2, <1>3, <1>4, <1>5, ReaderWord DEF Next

\* Once all events are handled the copy shows what the last update said, however often a
\* message was requeued and handled again, for any number of events and failures; excepted is
\* a fetch that was under way when that update was published, or came later (budget:
\* event_consumer.py requeues, event_handlers.py bears it, user_cache.py fetches).
THEOREM LastWordShown == Spec => []CopyIsLastWord
  <1>1. Types /\ WordInv /\ [Next]_vars => WordInv'
    BY WordStep
  <1>2. WordInv => CopyIsLastWord
    <2> SUFFICES ASSUME WordInv, Caught, ~fetched PROVE profile = word
      BY DEF CopyIsLastWord
    <2>1. Said(profile, <<>>, word)
      BY DEF WordInv, Caught, Ahead
    <2> QED BY <2>1, SaidNothing
  <1> QED BY TypesAlways, WordInit, <1>1, <1>2, PTL DEF Spec
=============================================================================
