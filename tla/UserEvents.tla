----------------------------- MODULE UserEvents -----------------------------
(***************************************************************************)
(* The read model of users: the users service commits a change of a user   *)
(* and then publishes an event (services/users, user_crud.py and           *)
(* event_publisher.py); one consumer of the budget service applies the     *)
(* events to its table user_profiles (event_consumer.py,                   *)
(* event_handlers.py); a request that misses a user there fetches it over  *)
(* HTTP and writes the same table (user_cache.py).                         *)
(*                                                                         *)
(* One user is modelled: users meet only in the queue, where an event of   *)
(* another user is one more event in front.  A row is what the two         *)
(* services share: a name (which stands for the address as well), a role,  *)
(* a status, and whether the user belongs to a company.                    *)
(***************************************************************************)
EXTENDS Naturals, Sequences

CONSTANTS
  Writers,    \* concurrent requests to the users service
  Readers,    \* concurrent requests to the budget service that need the user
  Names,      \* names a user may give
  TooLong,    \* those that users.first_name holds and user_profiles.first_name
              \* (255 characters) does not
  Tombstone,  \* the name of an erased user
  NoUser,     \* no row
  NoEvent,    \* no message
  MaxWrites,  \* bound: requests to the users service
  MaxLost,    \* bound: events that never reach the broker
  MaxFails    \* bound: failures and deaths of the consumer

Roles == {"user", "admin"}
Users == [name: Names \cup {Tombstone}, role: Roles,
          status: {"pending", "active"}, company: BOOLEAN]
Events == [type: {"user.created", "user.updated"}, payload: Users]

ASSUME UserEventsAssumption ==
  /\ TooLong \subseteq Names
  /\ Tombstone \notin Names
  /\ NoUser \notin Users
  /\ NoEvent \notin Events
  /\ MaxWrites \in Nat /\ MaxLost \in Nat /\ MaxFails \in Nat

VARIABLES
  user,      \* the row of users.users
  erased,    \* its deleted_at
  profile,   \* the row of budget.user_profiles
  queue,     \* the durable queue, head first
  writer,    \* requests to the users service: what they loaded and will publish
  hand,      \* the message delivered and not acknowledged yet
  step,      \* how far its handler is
  found,     \* the row the handler loaded
  task,      \* the consumer's task: it runs, ended in a process that lives on, or is
             \* dead with its process
  reader,    \* requests to the budget service: what they loaded
  writes, lost, fails,   \* how much of each bound is used
  held,      \* history: every row the user has had
  word,      \* history: what the events in the queue's order come to
  fetched    \* history: a fetch wrote the profile, or may yet, since the last
             \* event was published

serviceVars == <<user, erased, writer, writes, held>>
consumerVars == <<hand, step, found, task>>
vars == <<user, erased, profile, queue, writer, hand, step, found, task, reader,
          writes, lost, fails, held, word, fetched>>

Row == Users \cup {NoUser}
Idle == [at |-> "idle", op |-> "none", base |-> NoUser, event |-> NoEvent]
Away == [at |-> "idle", got |-> NoUser, seen |-> NoUser]

TypeOK ==
  /\ user \in Row /\ profile \in Row /\ found \in Row /\ word \in Row
  /\ queue \in Seq(Events)
  /\ writer \in [Writers -> [at: {"idle", "loaded", "publish"},
                             op: {"none", "patch", "onboard", "role", "accept", "erase"},
                             base: Row, event: Events \cup {NoEvent}]]
  /\ hand \in Events \cup {NoEvent}
  /\ step \in {"idle", "took", "found", "done"}
  /\ task \in {"runs", "ended", "dead"} /\ fetched \in BOOLEAN /\ erased \in BOOLEAN
  /\ reader \in [Readers -> [at: {"idle", "missed", "got", "found"},
                             got: Row, seen: Row]]
  /\ writes \in 0..MaxWrites /\ lost \in 0..MaxLost /\ fails \in 0..MaxFails
  /\ held \subseteq Users

Init ==
  /\ user = NoUser /\ profile = NoUser /\ word = NoUser
  /\ queue = <<>>
  /\ writer = [w \in Writers |-> Idle]
  /\ hand = NoEvent /\ step = "idle" /\ found = NoUser /\ task = "runs"
  /\ reader = [r \in Readers |-> Away]
  /\ writes = 0 /\ lost = 0 /\ fails = 0
  /\ held = {} /\ fetched = FALSE /\ erased = FALSE

-----------------------------------------------------------------------------
(* The users service. *)

\* A unit of work writes only the attributes that differ from what the session
\* loaded; the others keep what they are by now.
Merge(new, base, current) ==
  [f \in DOMAIN new |-> IF new[f] # base[f] THEN new[f] ELSE current[f]]

\* create_user at registration, create_invited_user at an invitation: the row is
\* committed first, whether or not its event will ever leave.
Create(w, nm, rl, invited) ==
  LET row == [name |-> nm, role |-> rl, status |-> "pending", company |-> invited] IN
  /\ writer[w].at = "idle" /\ writes < MaxWrites
  /\ user = NoUser
  /\ invited \/ rl = "user"
  /\ user' = row /\ held' = held \cup {row}
  /\ writes' = writes + 1
  /\ writer' = [writer EXCEPT ![w] =
       [at |-> "publish", op |-> "none", base |-> NoUser,
        event |-> [type |-> "user.created", payload |-> row]]]
  /\ UNCHANGED <<erased, profile, queue, consumerVars, reader, lost, fails, word, fetched>>

\* The guards that each request checks on the row it has loaded.  An erased user
\* has no address that an invitation could be sent to; that a request of the user
\* was let in before the sessions were revoked cannot be excluded.
Allowed(op, row) ==
  CASE op = "patch"   -> TRUE
    [] op = "onboard" -> row.status = "pending" /\ ~row.company
    [] op = "role"    -> row.company /\ ~erased
    [] op = "accept"  -> row.status = "pending" /\ row.company /\ ~erased
    [] op = "erase"   -> TRUE

Load(w, op) ==
  /\ writer[w].at = "idle" /\ writes < MaxWrites
  /\ user # NoUser
  /\ Allowed(op, user)
  /\ writes' = writes + 1
  /\ writer' = [writer EXCEPT ![w] =
       [at |-> "loaded", op |-> op, base |-> user, event |-> NoEvent]]
  /\ UNCHANGED <<user, erased, profile, queue, consumerVars, reader, lost, fails,
                 held, word, fetched>>

\* What the session's object looks like after the attributes were set.
Edited(op, row, nm, rl) ==
  CASE op = "patch"   -> [row EXCEPT !.name = nm]
    [] op = "onboard" -> [row EXCEPT !.role = "admin", !.status = "active", !.company = TRUE]
    [] op = "role"    -> [row EXCEPT !.role = rl]
    [] op = "accept"  -> [row EXCEPT !.status = "active"]
    [] op = "erase"   -> [row EXCEPT !.name = Tombstone]

\* update_user, accept_invite, soft_delete_user: only update_user publishes, and
\* what it publishes is the object of its own session.
AfterWrite(op, new) ==
  IF op \in {"patch", "onboard", "role"}
  THEN [at |-> "publish", op |-> "none", base |-> NoUser,
        event |-> [type |-> "user.updated", payload |-> new]]
  ELSE Idle

\* Mutant: the attributes are set and never committed.
WriteUncommitted(w, nm, rl) ==
  /\ writer[w].at = "loaded"
  /\ writer' = [writer EXCEPT ![w] =
       AfterWrite(writer[w].op, Edited(writer[w].op, writer[w].base, nm, rl))]
  /\ UNCHANGED <<user, erased, profile, queue, consumerVars, reader, writes, lost,
                 fails, held, word, fetched>>

Write(w, nm, rl) ==
  LET op == writer[w].op
      new == Edited(op, writer[w].base, nm, rl)
      row == Merge(new, writer[w].base, user)
  IN
  /\ writer[w].at = "loaded"
  /\ user' = row /\ held' = held \cup {row}
  /\ erased' = (erased \/ op = "erase")
  /\ writer' = [writer EXCEPT ![w] = AfterWrite(op, new)]
  /\ UNCHANGED <<profile, queue, consumerVars, reader, writes, lost, fails, word, fetched>>

-----------------------------------------------------------------------------
(* The broker. *)

\* What the profile comes to once the event is applied to it.
Applied(event, row) ==
  IF event.type = "user.created" /\ row # NoUser THEN row ELSE event.payload

\* _publish_user_event: after the commit, and never twice.
Publish(w) ==
  LET event == writer[w].event IN
  /\ writer[w].at = "publish"
  /\ queue' = Append(queue, event)
  /\ word' = Applied(event, word)
  /\ fetched' = \/ fetched /\ event.type = "user.created"
                \/ \E r \in Readers : reader[r].at # "idle"
  /\ writer' = [writer EXCEPT ![w] = Idle]
  /\ UNCHANGED <<user, erased, profile, consumerVars, reader, writes, lost, fails, held>>

\* The publisher is not connected, the publish raises and is logged, or the
\* process dies: the request has succeeded and the event is gone.
Lose(w) ==
  /\ writer[w].at = "publish" /\ lost < MaxLost
  /\ lost' = lost + 1
  /\ writer' = [writer EXCEPT ![w] = Idle]
  /\ UNCHANGED <<user, erased, profile, queue, consumerVars, reader, writes, fails,
                 held, word, fetched>>

\* The next message, one at a time (prefetch_count=1).
Deliver ==
  /\ task = "runs" /\ hand = NoEvent /\ queue # <<>>
  /\ hand' = Head(queue) /\ queue' = Tail(queue)
  /\ step' = "took" /\ found' = NoUser
  /\ UNCHANGED <<serviceVars, profile, task, reader, lost, fails, word, fetched>>

\* Mutant: a requeued message goes to the end of the queue.
RequeueLast ==
  /\ queue' = Append(queue, hand)
  /\ hand' = NoEvent /\ step' = "idle" /\ found' = NoUser

\* basic_nack(requeue=True), or a connection that went away: an unacknowledged
\* message returns to its old position.
Requeue ==
  /\ queue' = <<hand>> \o queue
  /\ hand' = NoEvent /\ step' = "idle" /\ found' = NoUser

-----------------------------------------------------------------------------
(* The handlers of the budget service. *)

\* Mutant: the handlers insert without looking for the row.
FindNothing ==
  /\ step = "took"
  /\ step' = "found"
  /\ UNCHANGED <<serviceVars, profile, queue, hand, found, task, reader, lost, fails, word, fetched>>

\* handle_user_created leaves a row that is there alone.
Find ==
  /\ step = "took"
  /\ found' = profile
  /\ step' = IF hand.type = "user.created" /\ profile # NoUser THEN "done" ELSE "found"
  /\ UNCHANGED <<serviceVars, profile, queue, hand, task, reader, lost, fails, word, fetched>>

Fits(row) == row.name \notin TooLong

\* The commit of an insert or of an update: refused when the name is too long or
\* when somebody else has inserted the row since.
Saved(new, seen) ==
  /\ Fits(new)
  /\ seen = NoUser => profile = NoUser
  /\ profile' = IF seen = NoUser THEN new ELSE Merge(new, seen, profile)

Save ==
  /\ step = "found"
  /\ Saved(hand.payload, found)
  /\ step' = "done"
  /\ UNCHANGED <<serviceVars, queue, hand, found, task, reader, lost, fails, word, fetched>>

Refused(new, seen) == ~Fits(new) \/ (seen = NoUser /\ profile # NoUser)

\* A handler that raises has its message requeued, however often it raised.
SaveRefused ==
  /\ step = "found"
  /\ Refused(hand.payload, found)
  /\ Requeue
  /\ UNCHANGED <<serviceVars, profile, task, reader, lost, fails, word, fetched>>

\* The database fails under the handler.
HandlerFails ==
  /\ step \in {"took", "found"} /\ fails < MaxFails
  /\ fails' = fails + 1
  /\ Requeue
  /\ UNCHANGED <<serviceVars, profile, task, reader, lost, word, fetched>>

Ack ==
  /\ step = "done"
  /\ hand' = NoEvent /\ step' = "idle" /\ found' = NoUser
  /\ UNCHANGED <<serviceVars, profile, queue, task, reader, lost, fails, word, fetched>>

\* What was handed out and not acknowledged goes back.
LetGo == IF hand = NoEvent THEN UNCHANGED <<queue, hand, step, found>> ELSE Requeue

\* The connection is lost, perhaps between a handler's commit and its acknowledgement:
\* start_consuming raises and the task ends, which nobody awaits.
ConnectionLost ==
  /\ task = "runs" /\ fails < MaxFails
  /\ fails' = fails + 1
  /\ task' = "ended"
  /\ LetGo
  /\ UNCHANGED <<serviceVars, profile, reader, lost, word, fetched>>

\* Mutant: a dying consumer requeues even when it holds nothing.
ConsumerDiesLoudly ==
  /\ task # "dead" /\ fails < MaxFails
  /\ fails' = fails + 1
  /\ task' = "dead"
  /\ Requeue
  /\ UNCHANGED <<serviceVars, profile, reader, lost, word, fetched>>

\* The process dies, with or without its consumer.
ConsumerDies ==
  /\ task # "dead" /\ fails < MaxFails
  /\ fails' = fails + 1
  /\ task' = "dead"
  /\ LetGo
  /\ UNCHANGED <<serviceVars, profile, reader, lost, word, fetched>>

\* A process that died is started again; one that lives on without its consumer is not.
Restart ==
  /\ task = "dead"
  /\ task' = "runs"
  /\ UNCHANGED <<serviceVars, profile, queue, hand, step, found, reader, lost,
                 fails, word, fetched>>

-----------------------------------------------------------------------------
(* get_users_by_ids_cached *)

\* A miss; a hit returns the row and writes nothing.
Miss(r) ==
  /\ reader[r].at = "idle"
  /\ profile = NoUser
  /\ reader' = [reader EXCEPT ![r].at = "missed"]
  /\ fetched' = TRUE
  /\ UNCHANGED <<serviceVars, profile, queue, consumerVars, lost, fails, word>>

\* POST /users/by_ids/: the row as it is, erased or not; nothing when there is none.
Fetch(r) ==
  /\ reader[r].at = "missed"
  /\ reader' = [reader EXCEPT ![r] =
       IF user = NoUser THEN Away ELSE [at |-> "got", got |-> user, seen |-> NoUser]]
  /\ UNCHANGED <<serviceVars, profile, queue, consumerVars, lost, fails, word, fetched>>

\* It looks again before it writes.
FindAgain(r) ==
  /\ reader[r].at = "got"
  /\ reader' = [reader EXCEPT ![r].at = "found", ![r].seen = profile]
  /\ UNCHANGED <<serviceVars, profile, queue, consumerVars, lost, fails, word, fetched>>

Fill(r) ==
  /\ reader[r].at = "found"
  /\ Saved(reader[r].got, reader[r].seen)
  /\ reader' = [reader EXCEPT ![r] = Away]
  /\ UNCHANGED <<serviceVars, queue, consumerVars, lost, fails, word, fetched>>

\* The users service does not answer, or the commit is refused: the exception
\* leaves the request, which shows no names.
FillFails(r) ==
  /\ \/ reader[r].at = "missed"
     \/ reader[r].at = "found" /\ Refused(reader[r].got, reader[r].seen)
  /\ reader' = [reader EXCEPT ![r] = Away]
  /\ UNCHANGED <<serviceVars, profile, queue, consumerVars, lost, fails, word, fetched>>

-----------------------------------------------------------------------------
Service(w) ==
  \/ \E nm \in Names, rl \in Roles, invited \in BOOLEAN : Create(w, nm, rl, invited)
  \/ \E op \in {"patch", "onboard", "role", "accept", "erase"} : Load(w, op)
  \/ \E nm \in Names, rl \in Roles : Write(w, nm, rl)
  \/ Publish(w)
  \/ Lose(w)

Consumer == Deliver \/ Find \/ Save \/ SaveRefused \/ Ack \/ Restart

Reader(r) == Miss(r) \/ Fetch(r) \/ FindAgain(r) \/ Fill(r) \/ FillFails(r)

Next ==
  \/ \E w \in Writers : Service(w)
  \/ Consumer
  \/ HandlerFails
  \/ ConnectionLost
  \/ ConsumerDies
  \/ \E r \in Readers : Reader(r)

Spec == Init /\ [][Next]_vars

\* A consumer that runs goes on, and a process that died is started again (restart:
\* unless-stopped); nobody looks whether a living process still has its consumer.
FairSpec == Spec /\ WF_vars(Consumer)

-----------------------------------------------------------------------------
(* Properties. *)

\* Every event has been handled.
Caught == queue = <<>> /\ hand = NoEvent

\* Once the events are handled the profile shows what the last update said,
\* whatever was redelivered after a failed handler or a death between commit and
\* acknowledgement, and whether or not the creation was published late
\* (event_consumer.py requeues, event_handlers.py must bear it).  Excepted is a
\* fetch that was under way when that update was published, or came later.
CopyIsLastWord == Caught /\ ~fetched => profile = word

\* The profile shows nothing that was never committed as the user's: not a role,
\* a status or a name of a request that did not go through, or of another column.
FieldsWereTrue ==
  profile # NoUser => \A f \in DOMAIN profile : \E h \in held : h[f] = profile[f]

\* An event that the copy can never take heads the queue: one with a name that is too
\* long is requeued for ever, unless it is the creation of a user who is there.
Unfit(event) ==
  event # NoEvent /\ ~Fits(event.payload) /\ (event.type = "user.created" => profile = NoUser)

Blocked == Unfit(hand) \/ (queue # <<>> /\ Unfit(Head(queue)))

\* The consumer catches up, however many events wait and whatever is handled twice,
\* once failures stop: unless its connection was lost in a process that lives on
\* (event_consumer.py, start) or an event that the copy cannot take is at the head.
CatchesUp == []<>(Caught \/ task = "ended" \/ Blocked)

\* An erased user's name leaves the copy as well, once all is quiet.
ErasureReachesCopy ==
  /\ erased /\ user.name = Tombstone /\ Caught
  /\ (\A w \in Writers : writer[w] = Idle) /\ (\A r \in Readers : reader[r] = Away)
  => profile = NoUser \/ profile.name = Tombstone
=============================================================================
