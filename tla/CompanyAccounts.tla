-------------------------- MODULE CompanyAccounts --------------------------
(***************************************************************************)
(* The users of one company, their roles and their sessions                *)
(* (services/users).  Admins change roles and remove users under a row     *)
(* lock of the customer; users log in, refresh, reset or change passwords, *)
(* log out and leave.  A session lives in two stores: its row in Postgres  *)
(* and, once revoked, a mark in Redis, the only one the other services     *)
(* consult.  Every commit and every Redis call is a step of its own.       *)
(***************************************************************************)
EXTENDS Integers, FiniteSets

CONSTANTS
    Users,       \* users the company has or may invite
    Founders,    \* those who are its admins to begin with
    Leavers,     \* those who delete their own account
    Workers,     \* workers of the service, one request at a time each
    Office,      \* those that serve admins; all of them serve users
    MaxSessions, \* how many sessions are ever opened (a bound)
    MaxTokens,   \* how many refresh tokens are ever minted (a bound)
    MaxSecrets   \* how often a password is set (a bound)

Sids == 1 .. MaxSessions

ASSUME UsersAssumption == Founders \subseteq Users /\ Leavers \subseteq Users /\ Founders # {}
ASSUME WorkersAssumption == Office \subseteq Workers
ASSUME BoundsAssumption ==
    MaxSessions \in Nat /\ MaxTokens \in Nat /\ MaxSecrets \in Nat \ {0}

VARIABLES
    users,    \* role, status, deleted_at set, password version (0: none)
    locked,   \* workers that hold the customer's row FOR UPDATE
    rows,     \* user_sessions; `proved` is the password its login gave, `born` the
              \* one in force when the row was inserted
    nRows,    \* sessions ever opened
    minted,   \* refresh tokens ever minted
    cached,   \* refresh:<token> keys in Redis
    marked,   \* session:revoked:<id> keys in Redis
    missed,   \* history: sessions whose mark Redis refused
    claims,   \* access tokens handed out: session and role claim
    req,      \* what each worker is in the middle of
    overtaken \* history: a request took an admin when all the others were being taken
              \* too, by requests past their own count, or when it had loaded the last
              \* one before the role was given

storeVars == <<rows, nRows, minted, cached, marked, missed, claims>>
vars == <<users, locked, storeVars, req, overtaken>>

Roles == {"admin", "user"}
User == [role : Roles, status : {"none", "pending", "active"}, deleted : BOOLEAN,
         secret : 0 .. MaxSecrets]
Row == [user : Users, revoked : BOOLEAN, token : 0 .. MaxTokens,
        proved : 0 .. MaxSecrets, born : 0 .. MaxSecrets]
Kinds == {"none", "role", "remove", "leave", "reset", "change", "logout",
          "login", "refresh", "accept"}
Steps == {"lock", "revoke", "mark", "write", "list", "drop", "take", "go"}
Request == [kind : Kinds, step : Steps, user : Users, role : Roles, held : Roles,
            secret : 0 .. MaxSecrets, sid : 0 .. nRows, token : 0 .. MaxTokens,
            todo : SUBSET (1 .. nRows), marks : SUBSET (1 .. nRows)]

AUser == CHOOSE u \in Users : TRUE
NoUser == [role |-> "user", status |-> "none", deleted |-> FALSE, secret |-> 0]
Founder == [role |-> "admin", status |-> "active", deleted |-> FALSE, secret |-> 1]
NoRow == [user |-> AUser, revoked |-> FALSE, token |-> 0, proved |-> 0, born |-> 0]
Idle == [kind |-> "none", step |-> "go", user |-> AUser, role |-> "user", held |-> "user",
         secret |-> 0, sid |-> 0, token |-> 0, todo |-> {}, marks |-> {}]

TypeOK ==
    /\ users \in [Users -> User]
    /\ locked \subseteq Workers
    /\ rows \in [Sids -> Row]
    /\ nRows \in 0 .. MaxSessions
    /\ minted \in 0 .. MaxTokens
    /\ cached \subseteq 1 .. MaxTokens
    /\ marked \subseteq 1 .. nRows
    /\ missed \subseteq 1 .. nRows
    /\ claims \subseteq [sid : 1 .. nRows, role : Roles]
    /\ req \in [Workers -> Request]
    /\ overtaken \in BOOLEAN

\* A founder is an admin from the onboarding that made the company.
Init ==
    /\ users = [u \in Users |-> IF u \in Founders THEN Founder ELSE NoUser]
    /\ locked = {}
    /\ rows = [s \in Sids |-> NoRow]
    /\ nRows = 0 /\ minted = 0
    /\ cached = {} /\ marked = {} /\ missed = {} /\ claims = {}
    /\ req = [w \in Workers |-> Idle]
    /\ overtaken = FALSE

-----------------------------------------------------------------------------
Opened == 1 .. nRows
Live(u) == {s \in Opened : rows[s].user = u /\ ~rows[s].revoked}
Known(u) == users[u].status # "none"

\* get_current_user: the mark in Redis is all it looks at.
Accepted(c) == c \in claims /\ c.sid \notin marked

\* The company's own admins, by the claim of a token.
AdminClaim == \E c \in claims : Accepted(c) /\ c.role = "admin"

Become(w, request) == req' = [req EXCEPT ![w] = request]
Start(w, request) == req[w].kind = "none" /\ Become(w, request)
Finish(w) == Become(w, Idle)

\* A unit of work writes the attributes that differ from what it loaded.
Written(old, new, current) == IF new = old THEN current ELSE new

-----------------------------------------------------------------------------
(* Roles and membership: invite, change a role, remove, leave. *)

Invite(w) ==
    /\ w \in Office /\ req[w].kind = "none" /\ AdminClaim
    /\ \E u \in Users, r \in Roles :
          /\ ~Known(u)
          /\ users' = [users EXCEPT ![u] = [NoUser EXCEPT !.role = r, !.status = "pending"]]
    /\ UNCHANGED <<locked, storeVars, req, overtaken>>

\* The target is loaded before the customer's row is locked.
BeginManage(w) ==
    /\ w \in Office /\ AdminClaim
    /\ \E u \in Users, r \in Roles, k \in {"role", "remove"} :
          /\ Known(u) /\ ~users[u].deleted
          /\ k = "remove" => r = Idle.role
          /\ Start(w, [Idle EXCEPT !.kind = k, !.step = "lock", !.user = u, !.role = r,
                                   !.held = users[u].role, !.secret = users[u].secret])
    /\ UNCHANGED <<users, locked, storeVars, overtaken>>

Admins == {u \in Users :
    users[u].role = "admin" /\ users[u].status = "active" /\ ~users[u].deleted}

\* Mutant: an invited admin who has not accepted counts.
OtherAdminsInvited(u) ==
    {v \in Users \ {u} : users[v].role = "admin" /\ ~users[v].deleted}

\* count_admins, without the target
OtherAdmins(u) == Admins \ {u}

\* Requests that go on to remove their user, or to write another role than admin.
Takes(r) == r.kind = "remove" \/ (r.kind = "role" /\ r.held = "admin" /\ r.role # "admin")

\* Those that others, past their count and without the lock by now, are about to take.
Going == {req[v].user : v \in {x \in Workers : Takes(req[x]) /\ req[x].step \in {"mark", "write"}}}

Overtakes(r) ==
    /\ Takes(r) /\ r.user \in Admins
    /\ Admins \ {r.user} \subseteq Going
    /\ Admins = {r.user} => r.held # "admin"

\* The row is locked, then the other admins are counted.
LockAndCount(w) ==
    /\ req[w].step = "lock"
    /\ locked = {}
    /\ LET r == req[w]
           last == Takes(r) /\ r.held = "admin" /\ OtherAdmins(r.user) = {}
       IN \/ last /\ Finish(w) /\ UNCHANGED <<locked, overtaken>>
          \/ /\ ~last
             /\ Become(w, [r EXCEPT !.step = "revoke"])
             /\ locked' = {w}
             /\ overtaken' = (overtaken \/ Overtakes(r))
    /\ UNCHANGED <<users, storeVars>>

BeginLeave(w) ==
    /\ \E c \in claims :
          /\ Accepted(c) /\ rows[c.sid].user \in Leavers
          /\ LET u == rows[c.sid].user
             IN Start(w, [Idle EXCEPT !.kind = "leave", !.step = "revoke", !.user = u,
                                      !.secret = users[u].secret])
    /\ UNCHANGED <<users, locked, storeVars, overtaken>>

-----------------------------------------------------------------------------
(* Revoking: rows first, then one mark after the other. *)

\* Where a request goes on when it has listed, revoked or marked sessions.
Proceed(r) ==
    IF r.marks # {} THEN [r EXCEPT !.step = "mark"]
    ELSE IF r.kind \in {"role", "remove", "leave"} THEN [r EXCEPT !.step = "write"]
    ELSE IF r.todo # {} THEN [r EXCEPT !.step = "drop"]
    ELSE Idle

\* revoke_all_sessions_for_user commits: a lock taken before it is released.
Revoke(w) ==
    /\ req[w].step = "revoke"
    /\ LET live == Live(req[w].user)
       IN /\ rows' = [s \in Sids |-> IF s \in live THEN [rows[s] EXCEPT !.revoked = TRUE]
                                                   ELSE rows[s]]
          /\ Become(w, Proceed([req[w] EXCEPT !.marks = live]))
    /\ locked' = locked \ {w}
    /\ UNCHANGED <<users, nRows, minted, cached, marked, missed, claims, overtaken>>

\* _revoke_session_everywhere, once for each session on the list.
Drop(w) ==
    /\ req[w].step = "drop"
    /\ \E s \in req[w].todo :
          /\ rows' = [rows EXCEPT ![s].revoked = TRUE]
          /\ Become(w, Proceed([req[w] EXCEPT !.todo = @ \ {s}, !.marks = {s}]))
    /\ UNCHANGED <<users, locked, nRows, minted, cached, marked, missed, claims, overtaken>>

\* Best effort: a mark that Redis refuses is passed over in silence.
Mark(w) ==
    /\ req[w].step = "mark"
    /\ \E s \in req[w].marks :
          /\ \/ marked' = marked \cup {s} /\ UNCHANGED missed
             \/ missed' = missed \cup {s} /\ UNCHANGED marked
          /\ Become(w, Proceed([req[w] EXCEPT !.marks = @ \ {s}]))
    /\ UNCHANGED <<users, locked, rows, nRows, minted, cached, claims, overtaken>>

WriteRole(w) ==
    /\ req[w].kind = "role" /\ req[w].step = "write"
    /\ LET r == req[w] IN users' = [users EXCEPT ![r.user].role = Written(r.held, r.role, @)]
    /\ Finish(w)
    /\ UNCHANGED <<locked, storeVars, overtaken>>

\* Mutant: the role is scrubbed as well.
DeleteRole(w) ==
    /\ req[w].kind \in {"remove", "leave"} /\ req[w].step = "write"
    /\ users' = [users EXCEPT ![req[w].user].deleted = TRUE, ![req[w].user].role = "none"]
    /\ Finish(w)
    /\ UNCHANGED <<locked, storeVars, overtaken>>

\* soft_delete_user
Delete(w) ==
    /\ req[w].kind \in {"remove", "leave"} /\ req[w].step = "write"
    /\ LET r == req[w]
       IN users' = [users EXCEPT ![r.user].deleted = TRUE,
                                 ![r.user].secret = Written(r.secret, 0, @)]
    /\ Finish(w)
    /\ UNCHANGED <<locked, storeVars, overtaken>>

-----------------------------------------------------------------------------
(* A user's own requests. *)

BeginAccept(w) ==
    /\ \E u \in Users :
          /\ users[u].status = "pending" /\ users[u].secret = 0 /\ ~users[u].deleted
          /\ Start(w, [Idle EXCEPT !.kind = "accept", !.user = u])
    /\ UNCHANGED <<users, locked, storeVars, overtaken>>

Accept(w) ==
    /\ req[w].kind = "accept"
    /\ users' = [users EXCEPT ![req[w].user].status = "active", ![req[w].user].secret = 1]
    /\ Finish(w)
    /\ UNCHANGED <<locked, storeVars, overtaken>>

BeginLogin(w) ==
    /\ \E u \in Users :
          /\ users[u].secret # 0 /\ ~users[u].deleted
          /\ Start(w, [Idle EXCEPT !.kind = "login", !.user = u, !.held = users[u].role,
                                   !.secret = users[u].secret])
    /\ UNCHANGED <<users, locked, storeVars, overtaken>>

\* create_session, and the claims of what was loaded before the password
\* was verified.
OpenSession(w) ==
    /\ req[w].kind = "login"
    /\ \/ /\ nRows < MaxSessions /\ minted < MaxTokens
          /\ nRows' = nRows + 1
          /\ minted' = minted + 1
          /\ rows' = [rows EXCEPT ![nRows + 1] =
                [user |-> req[w].user, revoked |-> FALSE, token |-> minted + 1,
                 proved |-> req[w].secret, born |-> users[req[w].user].secret]]
          /\ cached' = cached \cup {minted + 1}
          /\ claims' = claims \cup {[sid |-> nRows + 1, role |-> req[w].held]}
          /\ UNCHANGED <<marked, missed>>
       \/ (nRows = MaxSessions \/ minted = MaxTokens) /\ UNCHANGED storeVars
    /\ Finish(w)
    /\ UNCHANGED <<users, locked, overtaken>>

\* GET of the key; the key maps to the session that minted it.
BeginRefresh(w) ==
    /\ \E s \in Opened :
          /\ rows[s].token \in cached
          /\ Start(w, [Idle EXCEPT !.kind = "refresh", !.step = "take", !.sid = s,
                                   !.token = rows[s].token])
    /\ UNCHANGED <<users, locked, storeVars, overtaken>>

\* DELETE of the key, then the session is loaded with its user.
Take(w) ==
    /\ req[w].kind = "refresh" /\ req[w].step = "take"
    /\ cached' = cached \ {req[w].token}
    /\ LET row == rows[req[w].sid]
       IN \/ /\ ~row.revoked /\ row.token = req[w].token
             /\ Become(w, [req[w] EXCEPT !.step = "go", !.held = users[row.user].role])
          \/ (row.revoked \/ row.token # req[w].token) /\ Finish(w)
    /\ UNCHANGED <<users, locked, rows, nRows, minted, marked, missed, claims, overtaken>>

\* Mutant: the whole row is written back as it was loaded.
RotateRow(w) ==
    /\ req[w].kind = "refresh" /\ req[w].step = "go"
    /\ minted < MaxTokens
    /\ minted' = minted + 1
    /\ rows' = [rows EXCEPT ![req[w].sid].token = minted + 1, ![req[w].sid].revoked = FALSE]
    /\ claims' = claims \cup {[sid |-> req[w].sid, role |-> req[w].held]}
    /\ Finish(w)
    /\ UNCHANGED <<users, locked, nRows, cached, marked, missed, overtaken>>

\* The rotated token goes to the row and to the client, not to Redis.
Rotate(w) ==
    /\ req[w].kind = "refresh" /\ req[w].step = "go"
    /\ \/ /\ minted < MaxTokens
          /\ minted' = minted + 1
          /\ rows' = [rows EXCEPT ![req[w].sid].token = minted + 1]
          /\ claims' = claims \cup {[sid |-> req[w].sid, role |-> req[w].held]}
       \/ minted = MaxTokens /\ UNCHANGED <<minted, rows, claims>>
    /\ Finish(w)
    /\ UNCHANGED <<users, locked, nRows, cached, marked, missed, overtaken>>

BeginLogout(w) ==
    /\ \E c \in claims :
          /\ Accepted(c)
          /\ \E s \in Live(rows[c.sid].user) :
                Start(w, [Idle EXCEPT !.kind = "logout", !.step = "drop",
                                      !.user = rows[s].user, !.todo = {s}])
    /\ UNCHANGED <<users, locked, storeVars, overtaken>>

\* By the token of a mail, or by the current password.
BeginReset(w) ==
    /\ \E u \in Users :
          /\ users[u].secret # 0 /\ ~users[u].deleted
          /\ Start(w, [Idle EXCEPT !.kind = "reset", !.step = "write", !.user = u])
    /\ UNCHANGED <<users, locked, storeVars, overtaken>>

BeginChange(w) ==
    /\ \E c \in claims :
          /\ Accepted(c) /\ users[rows[c.sid].user].secret # 0
          /\ LET u == rows[c.sid].user
             IN Start(w, [Idle EXCEPT !.kind = "change", !.step = "write", !.user = u,
                                      !.sid = c.sid])
    /\ UNCHANGED <<users, locked, storeVars, overtaken>>

\* Mutant: a reset sets the password and leaves the sessions alone.
SetPasswordOnly(w) ==
    /\ req[w].kind = "reset" /\ req[w].step = "write"
    /\ users[req[w].user].secret < MaxSecrets
    /\ users' = [users EXCEPT ![req[w].user].secret = @ + 1]
    /\ Finish(w)
    /\ UNCHANGED <<locked, storeVars, overtaken>>

\* A session that is kept counts as opened under the new password.
SetPassword(w) ==
    /\ req[w].kind \in {"reset", "change"} /\ req[w].step = "write"
    /\ LET r == req[w]
       IN \/ /\ users[r.user].secret < MaxSecrets
             /\ users' = [users EXCEPT ![r.user].secret = @ + 1]
             /\ rows' = IF r.kind = "change"
                        THEN [rows EXCEPT ![r.sid].proved = users[r.user].secret + 1,
                                          ![r.sid].born = users[r.user].secret + 1]
                        ELSE rows
             /\ Become(w, [r EXCEPT !.step = IF r.kind = "reset" THEN "revoke" ELSE "list"])
          \/ users[r.user].secret = MaxSecrets /\ Finish(w) /\ UNCHANGED <<users, rows>>
    /\ UNCHANGED <<locked, nRows, minted, cached, marked, missed, claims, overtaken>>

ListOthers(w) ==
    /\ req[w].step = "list"
    /\ Become(w, Proceed([req[w] EXCEPT !.todo = Live(req[w].user) \ {req[w].sid}]))
    /\ UNCHANGED <<users, locked, storeVars, overtaken>>

-----------------------------------------------------------------------------
Next ==
    \E w \in Workers :
        \/ Invite(w) \/ BeginManage(w) \/ LockAndCount(w) \/ BeginLeave(w)
        \/ Revoke(w) \/ Drop(w) \/ Mark(w) \/ WriteRole(w) \/ Delete(w)
        \/ BeginAccept(w) \/ Accept(w) \/ BeginLogin(w) \/ OpenSession(w)
        \/ BeginRefresh(w) \/ Take(w) \/ Rotate(w) \/ BeginLogout(w)
        \/ BeginReset(w) \/ BeginChange(w) \/ SetPassword(w) \/ ListOthers(w)

Spec == Init /\ [][Next]_vars

-----------------------------------------------------------------------------
(* Properties. *)

\* Not so when two admins are taken at once.  A company always has an admin who can
\* log in: remove_user_service and update_user_role_service refuse to take the last
\* one, "so a concurrent remove/demote for this company can't slip past the same
\* check".  Nothing asks those who delete their own account whether they are the last.
HasAdmin ==
    \/ Admins # {}
    \/ \E u \in Leavers : users[u].deleted
    \/ \E w \in Workers : req[w].kind = "leave"

\* An admin remains through every change of a role and every removal, unless a
\* request took one when the others were all being taken by requests that had
\* released the lock with their own write still to come, or had loaded the last one
\* before the role was given: the count itself never lets the last admin go.
AdminLostInTheGap == HasAdmin \/ overtaken

\* Postgres and Redis agree on which sessions are revoked, but for the marks
\* that some request is still to set, or that Redis refused: no service accepts a
\* session that the list of active sessions no longer shows, or refuses one that
\* it shows.
RevokedEverywhere ==
    \A s \in Opened :
        /\ s \in marked => rows[s].revoked
        /\ rows[s].revoked =>
              s \in marked \cup missed \/ \E w \in Workers : s \in req[w].marks

\* Once a reset or a change of a password is through, no token is accepted of a
\* session whose login gave an older one ("revokes every session for the account"),
\* whatever logs in, refreshes or logs out meanwhile: but a login that had verified
\* the old password opens its session after them, and Redis may refuse a mark.
\* (A session opened while its user was being deleted was opened under no password.)
ResetShutsOut ==
    \A s \in Opened :
        rows[s].proved \in 1 .. users[rows[s].user].secret - 1 /\ s \notin marked \cup missed =>
            \/ rows[s].born = users[rows[s].user].secret
            \/ \E w \in Workers :
                  \/ s \in req[w].marks
                  \/ req[w].kind \in {"reset", "change"} /\ req[w].user = rows[s].user

\* Nobody is accepted as an admin who is not one, but while the mark that ends
\* the session is on its way: sessions are revoked on a change of role,
\* "otherwise a still-live token keeps its stale role claim".
\* Not so when a login that loaded the old role opens its session after them.
NoStaleRole ==
    \A c \in claims :
        Accepted(c) /\ c.role = "admin" =>
            \/ users[rows[c.sid].user].role = "admin"
            \/ \E w \in Workers : c.sid \in req[w].marks

\* The client of a session that is not revoked can renew its access: Redis
\* knows the refresh token that the row holds, unless it is being exchanged.
\* Not so when a request fails between Redis and the commit of its row.
Renewable ==
    \A s \in Opened :
        ~rows[s].revoked /\ (\A w \in Workers : req[w].kind = "refresh" => req[w].sid # s)
            => rows[s].token \in cached
=============================================================================
