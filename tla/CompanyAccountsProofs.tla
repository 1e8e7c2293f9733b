------------------------ MODULE CompanyAccountsProofs ------------------------
(***************************************************************************)
(* For any number of users, workers, sessions and tokens: the state keeps  *)
(* its type, Postgres and Redis agree on the revoked sessions, a reset     *)
(* shuts every older session out, and the last admin is only ever lost to  *)
(* requests that overtake one another once the lock is released.           *)
(***************************************************************************)
EXTENDS CompanyAccounts, TLAPS

Manages(r) == r.kind \in {"role", "remove"}
Revokes(r) == Manages(r) \/ r.kind \in {"leave", "reset", "change", "logout"}

(* The inductive invariant, in parts. *)

\* What a request holds, by the place it has reached.
Job(r) ==
    /\ r.step # "mark" => r.marks = {}
    /\ r.step \notin {"mark", "drop"} => r.todo = {}
    /\ r.todo # {} => r.kind \in {"change", "logout"}
    /\ r.kind = "none" => r = Idle
    /\ r.kind \in {"refresh", "change"} => r.sid \in Opened
    /\ r.kind = "change" => rows[r.sid].user = r.user
    /\ r.step = "lock" => Manages(r)
    /\ r.step = "list" => r.kind = "change"
    /\ r.step = "revoke" => Manages(r) \/ r.kind \in {"leave", "reset"}
    /\ r.step \in {"drop", "mark"} => Revokes(r)

JobInv == \A w \in Workers : Job(req[w])

\* Only what Postgres says is revoked is, or is to be, marked.
MarksInv == \A w \in Workers : \A s \in req[w].marks : rows[s].revoked

\* w is going to revoke session s for a new password.
Ends(w, s) ==
    /\ req[w].user = rows[s].user
    /\ \/ req[w].kind = "reset" /\ req[w].step = "revoke"
       \/ req[w].kind = "change" /\ req[w].step = "list" /\ req[w].sid # s
       \/ req[w].kind = "change" /\ s \in req[w].todo

\* A password was set since s was opened: otherwise its user's is the same, or
\* gone with the account, or the first one.
Outdated(s) == users[rows[s].user].secret \notin {0, 1, rows[s].born}

ResetInv ==
    \A s \in Opened :
        Outdated(s) /\ s \notin marked \cup missed =>
            \E w \in Workers : s \in req[w].marks \/ Ends(w, s)

\* Nobody is deleted, logs in or is managed who was never invited.
KnownInv ==
    /\ \A u \in Users : users[u].deleted \/ users[u].secret # 0 => Known(u)
    /\ \A s \in Opened : Known(rows[s].user)
    /\ \A w \in Workers : req[w].kind \notin {"none", "refresh"} => Known(req[w].user)

\* Only the leavers leave.
LeaveInv == \A w \in Workers : req[w].kind = "leave" => req[w].user \in Leavers

\* A request that manages a user holds the lock until it has revoked the sessions.
LockInv ==
    \A w \in Workers :
        Manages(req[w]) => \/ req[w].step \in {"lock", "mark", "write"}
                           \/ req[w].step = "revoke" /\ w \in locked

Left == \/ \E u \in Leavers : users[u].deleted
        \/ \E w \in Workers : req[w].kind = "leave"

\* The users that requests past their count are taking.
Doomed == {req[v].user : v \in {x \in Workers : Takes(req[x]) /\ req[x].step # "lock"}}

\* Somebody is an admin, and nobody is about to take them.
AdminInv == overtaken \/ Left \/ Admins \ Doomed # {}

Types == TypeOK /\ JobInv
Stores == MarksInv /\ RevokedEverywhere /\ ResetInv
Company == KnownInv /\ LeaveInv /\ LockInv /\ AdminInv

-----------------------------------------------------------------------------
(* Types. *)

LEMMA Numbers ==
  /\ MaxSecrets \in Nat /\ 1 <= MaxSecrets /\ MaxSessions \in Nat /\ MaxTokens \in Nat
  /\ AUser \in Users
  BY UsersAssumption, BoundsAssumption DEF AUser

LEMMA IdleType ==
  ASSUME TypeOK
  PROVE  Idle \in Request
  BY Numbers DEF TypeOK, Idle, Request, Kinds, Steps, Roles

\* Where a request goes on keeps everything but the step.
LEMMA ProceedIs ==
  ASSUME NEW r \in Request
  PROVE  \/ r.marks # {} /\ Proceed(r) = [r EXCEPT !.step = "mark"]
         \/ /\ r.marks = {} /\ r.kind \in {"role", "remove", "leave"}
            /\ Proceed(r) = [r EXCEPT !.step = "write"]
         \/ /\ r.marks = {} /\ r.kind \notin {"role", "remove", "leave"} /\ r.todo # {}
            /\ Proceed(r) = [r EXCEPT !.step = "drop"]
         \/ /\ r.marks = {} /\ r.kind \notin {"role", "remove", "leave"} /\ r.todo = {}
            /\ Proceed(r) = Idle
  BY DEF Proceed

LEMMA StepType ==
  ASSUME NEW r \in Request, NEW to \in Steps
  PROVE  [r EXCEPT !.step = to] \in Request
  BY DEF Request

LEMMA ProceedType ==
  ASSUME TypeOK, NEW r \in Request
  PROVE  Proceed(r) \in Request
  BY ProceedIs, StepType, IdleType DEF Steps

LEMMA TypesInit == Init => Types
  <1> SUFFICES ASSUME Init PROVE Types
    OBVIOUS
  <1>1. NoUser \in User /\ Founder \in User /\ NoRow \in Row
    BY Numbers DEF NoUser, Founder, NoRow, User, Row, Roles
  <1>2. TypeOK
    <2>1. Idle \in Request
      BY Numbers DEF Init, Idle, Request, Kinds, Steps, Roles
    <2>2. users \in [Users -> User] /\ rows \in [Sids -> Row]
      BY <1>1 DEF Init
    <2>3. req \in [Workers -> Request]
      BY <2>1 DEF Init
    <2>4. nRows \in 0 .. MaxSessions /\ minted \in 0 .. MaxTokens
      BY Numbers DEF Init
    <2>5. overtaken \in BOOLEAN
      BY DEF Init
    <2>6. /\ locked \subseteq Workers /\ cached \subseteq 1 .. MaxTokens
          /\ marked \subseteq 1 .. nRows /\ missed \subseteq 1 .. nRows
          /\ claims \subseteq [sid : 1 .. nRows, role : Roles]
      BY DEF Init
    <2> QED BY <2>2, <2>3, <2>4, <2>5, <2>6 DEF TypeOK
  <1>3. JobInv
    BY DEF Init, JobInv, Job, Idle, Manages, Revokes
  <1> QED BY <1>2, <1>3 DEF Types

\* Sessions are only ever added, and keep their user.
RowsKept == /\ nRows' \in nRows .. MaxSessions
            /\ \A s \in Opened : rows'[s].user = rows[s].user

LEMMA BecomeTypes ==
  ASSUME Types, RowsKept, NEW w \in Workers, NEW r, Become(w, r), r \in Request',
         Job(r)'
  PROVE  req' \in [Workers -> Request'] /\ JobInv'
  <1>1. nRows \in Nat /\ nRows' \in Nat /\ nRows <= nRows'
    BY Numbers DEF RowsKept, Types, TypeOK
  <1>2. \A v \in Workers : req[v] \in Request /\ Job(req[v])
    BY DEF Types, TypeOK, JobInv
  <1>3. \A v \in Workers : req'[v] = IF v = w THEN r ELSE req[v]
    BY DEF Become, Types, TypeOK
  <1>4. ASSUME NEW v \in Workers, v # w
        PROVE  req[v] \in Request' /\ Job(req[v])'
    <2>1. req[v] \in Request'
      BY <1>1, <1>2 DEF Request
    <2>2. \A q \in Request : Job(q) => Job(q)'
      BY <1>1 DEF Job, Opened, RowsKept
    <2>3. Job(req[v])'
      BY <1>2, <1>3, <1>4, <2>2
    <2> QED BY <2>1, <2>3
  <1>5. req' \in [Workers -> Request']
    BY <1>3, <1>4 DEF Become, Types, TypeOK
  <1>6. JobInv'
    BY <1>3, <1>4 DEF JobInv
  <1> QED BY <1>5, <1>6

LEMMA IdleJob == Job(Idle) /\ Job(Idle)'
  BY DEF Job, Idle, Manages, Revokes

LEMMA RequestGrows ==
  ASSUME TypeOK, nRows' \in nRows .. MaxSessions
  PROVE  Request \subseteq Request'
  BY Numbers DEF TypeOK, Request

LEMMA FinishTypes ==
  ASSUME Types, RowsKept, NEW w \in Workers, Finish(w)
  PROVE  req' \in [Workers -> Request'] /\ JobInv'
  BY BecomeTypes, IdleType, IdleJob, RequestGrows DEF Types, RowsKept, Finish

\* The steps that leave the sessions' rows alone.
LEMMA GoOnTypes ==
  ASSUME Types, UNCHANGED <<rows, nRows>>, NEW w \in Workers, NEW r \in Request,
         Become(w, r), Job(r)
  PROVE  req' \in [Workers -> Request'] /\ JobInv'
  <1>1. RowsKept
    BY Numbers DEF RowsKept, Types, TypeOK
  <1>2. r \in Request' /\ Job(r)'
    BY DEF Request, Job, Opened
  <1> QED BY <1>1, <1>2, BecomeTypes

LEMMA ProceedJob ==
  ASSUME NEW r \in Request, Revokes(r), Job([r EXCEPT !.step = "mark"]),
         r.kind \in {"role", "remove", "leave"} => r.todo = {}
  PROVE  Job(Proceed(r))
  <1>1. CASE r.marks # {}
    BY <1>1, ProceedIs
  <1>2. CASE r.marks = {} /\ r.kind \in {"role", "remove", "leave"}
    BY <1>2, ProceedIs DEF Job, Revokes, Request
  <1>3. CASE r.marks = {} /\ r.kind \notin {"role", "remove", "leave"} /\ r.todo # {}
    BY <1>3, ProceedIs DEF Job, Revokes, Request
  <1>4. CASE r.marks = {} /\ r.kind \notin {"role", "remove", "leave"} /\ r.todo = {}
    BY <1>4, ProceedIs, IdleJob
  <1> QED BY <1>1, <1>2, <1>3, <1>4

\* What a request that begins knows of its user.
Fresh(r) ==
    /\ r.marks = {}
    /\ \/ r.kind = "refresh" \/ Known(r.user) \/ users[r.user].secret # 0
       \/ \E s \in Opened : rows[s].user = r.user
    /\ Manages(r) => r.step = "lock"
    /\ r.kind = "leave" => r.user \in Leavers

\* A request begins: it has nothing to revoke yet.
LEMMA BeginTypes ==
  ASSUME Types, NEW w \in Workers,
         BeginManage(w) \/ BeginLeave(w) \/ BeginAccept(w) \/ BeginLogin(w)
         \/ BeginRefresh(w) \/ BeginLogout(w) \/ BeginReset(w) \/ BeginChange(w)
  PROVE  /\ Types' /\ UNCHANGED <<users, locked, storeVars, overtaken>>
         /\ req[w].kind = "none"
         /\ \E r \in Request : Become(w, r) /\ Fresh(r)
  <1>1. UNCHANGED <<users, locked, storeVars, overtaken>>
    BY DEF BeginManage, BeginLeave, BeginAccept, BeginLogin, BeginRefresh, BeginLogout,
           BeginReset, BeginChange
  <1>2. users \in [Users -> User] /\ rows \in [Sids -> Row] /\ Opened \subseteq Sids
        /\ \A c \in claims : c.sid \in Opened
    BY Numbers DEF Types, TypeOK, Opened, Sids
  <1>3. AUser \in Users /\ \A u \in Users : users[u].role \in Roles
                          /\ users[u].secret \in 0 .. MaxSecrets
    BY <1>2, Numbers DEF User
  <1>4. /\ \A s \in Opened : /\ rows[s].user \in Users /\ rows[s].token \in 0 .. MaxTokens
                             /\ s \in 1 .. nRows /\ s \in 0 .. nRows
        /\ nRows \in Nat
    BY <1>2, Numbers DEF Row, Opened, Types, TypeOK
  <1>5. \E r \in Request : Become(w, r) /\ Job(r) /\ Fresh(r)
    <2> USE <1>2, <1>3, <1>4
    <2>1. CASE BeginManage(w)
      <3>1. PICK u \in Users, x \in Roles, k \in {"role", "remove"} :
              /\ Become(w, [Idle EXCEPT !.kind = k, !.step = "lock", !.user = u, !.role = x,
                                   !.held = users[u].role, !.secret = users[u].secret])
              /\ Known(u)
        BY <2>1 DEF BeginManage, Start
      <3> DEFINE r == [Idle EXCEPT !.kind = k, !.step = "lock", !.user = u, !.role = x,
                                !.held = users[u].role, !.secret = users[u].secret]
      <3>2. r \in Request
        BY Numbers, IdleType DEF Types, Request, Kinds, Steps, Roles
      <3>3. Job(r)
        BY DEF Idle, Job, Manages, Revokes
      <3>4. Fresh(r)
        BY <3>1 DEF Idle, Fresh, Manages, Known
      <3> QED BY <3>1, <3>2, <3>3, <3>4
    <2>2. CASE BeginLeave(w)
      <3>1. PICK c \in claims :
              /\ Become(w, [Idle EXCEPT !.kind = "leave", !.step = "revoke", !.user = rows[c.sid].user,
                                   !.secret = users[rows[c.sid].user].secret])
              /\ rows[c.sid].user \in Leavers
        BY <2>2 DEF BeginLeave, Start
      <3> DEFINE r == [Idle EXCEPT !.kind = "leave", !.step = "revoke", !.user = rows[c.sid].user,
                                !.secret = users[rows[c.sid].user].secret]
      <3>2. r \in Request
        BY Numbers, IdleType DEF Types, Request, Kinds, Steps, Roles
      <3>3. Job(r)
        BY DEF Idle, Job, Manages, Revokes
      <3>4. Fresh(r)
        BY <3>1 DEF Idle, Fresh, Manages, Known
      <3> QED BY <3>1, <3>2, <3>3, <3>4
    <2>3. CASE BeginAccept(w)
      <3>1. PICK u \in Users :
              /\ Become(w, [Idle EXCEPT !.kind = "accept", !.user = u])
              /\ users[u].status = "pending"
        BY <2>3 DEF BeginAccept, Start
      <3> DEFINE r == [Idle EXCEPT !.kind = "accept", !.user = u]
      <3>2. r \in Request
        BY Numbers, IdleType DEF Types, Request, Kinds, Steps, Roles
      <3>3. Job(r)
        BY DEF Idle, Job, Manages, Revokes
      <3>4. Fresh(r)
        BY <3>1 DEF Idle, Fresh, Manages, Known
      <3> QED BY <3>1, <3>2, <3>3, <3>4
    <2>4. CASE BeginLogin(w)
      <3>1. PICK u \in Users :
              /\ Become(w, [Idle EXCEPT !.kind = "login", !.user = u, !.held = users[u].role,
                                      !.secret = users[u].secret])
              /\ users[u].secret # 0
        BY <2>4 DEF BeginLogin, Start
      <3> DEFINE r == [Idle EXCEPT !.kind = "login", !.user = u, !.held = users[u].role,
                                !.secret = users[u].secret]
      <3>2. r \in Request
        BY Numbers, IdleType DEF Types, Request, Kinds, Steps, Roles
      <3>3. Job(r)
        BY DEF Idle, Job, Manages, Revokes
      <3>4. Fresh(r)
        BY <3>1 DEF Idle, Fresh, Manages, Known
      <3> QED BY <3>1, <3>2, <3>3, <3>4
    <2>5. CASE BeginRefresh(w)
      <3>1. PICK s \in Opened :
              Become(w, [Idle EXCEPT !.kind = "refresh", !.step = "take", !.sid = s,
                                !.token = rows[s].token])
        BY <2>5 DEF BeginRefresh, Start
      <3> DEFINE r == [Idle EXCEPT !.kind = "refresh", !.step = "take", !.sid = s,
                                !.token = rows[s].token]
      <3>2. r \in Request
        BY Numbers, IdleType DEF Types, Request, Kinds, Steps, Roles
      <3>3. Job(r)
        BY DEF Idle, Job, Manages, Revokes
      <3>4. Fresh(r)
        BY <3>1 DEF Idle, Fresh, Manages, Known
      <3> QED BY <3>1, <3>2, <3>3, <3>4
    <2>6. CASE BeginLogout(w)
      <3>1. PICK c \in claims, s \in Opened :
              Become(w, [Idle EXCEPT !.kind = "logout", !.step = "drop",
                                !.user = rows[s].user, !.todo = {s}])
        BY <2>6 DEF BeginLogout, Start, Live
      <3> DEFINE r == [Idle EXCEPT !.kind = "logout", !.step = "drop",
                                !.user = rows[s].user, !.todo = {s}]
      <3>2. r \in Request
        BY Numbers, IdleType DEF Types, Request, Kinds, Steps, Roles
      <3>3. Job(r)
        BY DEF Idle, Job, Manages, Revokes
      <3>4. Fresh(r)
        BY <3>1 DEF Idle, Fresh, Manages, Known
      <3> QED BY <3>1, <3>2, <3>3, <3>4
    <2>7. CASE BeginReset(w)
      <3>1. PICK u \in Users :
              /\ Become(w, [Idle EXCEPT !.kind = "reset", !.step = "write", !.user = u])
              /\ users[u].secret # 0
        BY <2>7 DEF BeginReset, Start
      <3> DEFINE r == [Idle EXCEPT !.kind = "reset", !.step = "write", !.user = u]
      <3>2. r \in Request
        BY Numbers, IdleType DEF Types, Request, Kinds, Steps, Roles
      <3>3. Job(r)
        BY DEF Idle, Job, Manages, Revokes
      <3>4. Fresh(r)
        BY <3>1 DEF Idle, Fresh, Manages, Known
      <3> QED BY <3>1, <3>2, <3>3, <3>4
    <2>8. CASE BeginChange(w)
      <3>1. PICK c \in claims :
              Become(w, [Idle EXCEPT !.kind = "change", !.step = "write",
                                !.user = rows[c.sid].user, !.sid = c.sid])
        BY <2>8 DEF BeginChange, Start
      <3> DEFINE r == [Idle EXCEPT !.kind = "change", !.step = "write",
                                !.user = rows[c.sid].user, !.sid = c.sid]
      <3>2. r \in Request
        BY Numbers, IdleType DEF Types, Request, Kinds, Steps, Roles
      <3>3. Job(r)
        BY DEF Idle, Job, Manages, Revokes
      <3>4. Fresh(r)
        BY <3>1 DEF Idle, Fresh, Manages, Known
      <3> QED BY <3>1, <3>2, <3>3, <3>4
    <2> QED BY <2>1, <2>2, <2>3, <2>4, <2>5, <2>6, <2>7, <2>8
  <1>6. req' \in [Workers -> Request'] /\ JobInv'
    BY <1>1, <1>5, GoOnTypes DEF storeVars
  <1>7. req[w].kind = "none"
    BY DEF BeginManage, BeginLeave, BeginAccept, BeginLogin, BeginRefresh, BeginLogout,
           BeginReset, BeginChange, Start
  <1> QED BY <1>1, <1>5, <1>6, <1>7 DEF Types, TypeOK, storeVars

LEMMA UserType ==
  ASSUME NEW u \in User, NEW n \in 0 .. MaxSecrets
  PROVE  /\ [u EXCEPT !.deleted = TRUE, !.secret = n] \in User
         /\ [u EXCEPT !.status = "active", !.secret = n] \in User
  BY DEF User

\* Roles and membership.
LEMMA MemberTypes ==
  ASSUME Types, NEW w \in Workers,
         Invite(w) \/ LockAndCount(w) \/ WriteRole(w) \/ Delete(w) \/ Accept(w)
  PROVE  Types' /\ UNCHANGED storeVars
  <1>1. UNCHANGED storeVars
    BY DEF Invite, LockAndCount, WriteRole, Delete, Accept
  <1>2. UNCHANGED <<rows, nRows>> /\ RowsKept
    BY <1>1, Numbers DEF storeVars, RowsKept, Types, TypeOK
  <1>3. req[w] \in Request /\ Job(req[w])
    BY DEF Types, TypeOK, JobInv
  <1>4. users' \in [Users -> User]
    <2> USE <1>3, Numbers
    <2>1. CASE Invite(w)
      <3>1. NoUser \in User
        BY DEF NoUser, User, Roles
      <3>2. PICK u \in Users, x \in Roles :
              users' = [users EXCEPT ![u] = [NoUser EXCEPT !.role = x, !.status = "pending"]]
        BY <2>1 DEF Invite
      <3>3. [NoUser EXCEPT !.role = x, !.status = "pending"] \in User
        BY <3>1 DEF User
      <3> QED BY <3>2, <3>3 DEF Types, TypeOK
    <2>2. CASE LockAndCount(w)
      BY <2>2 DEF LockAndCount, Types, TypeOK
    <2>3. PICK u \in Users : u = req[w].user /\ users[u] \in User
      BY DEF Request, Types, TypeOK
    <2>4. CASE WriteRole(w)
      <3>1. Written(req[w].held, req[w].role, users[u].role) \in Roles
        BY <2>3 DEF Written, Request, User
      <3> DEFINE new == [users[u] EXCEPT !.role = Written(req[w].held, req[w].role, @)]
      <3>2. new \in User
        BY <2>3, <3>1 DEF User
      <3>3. users' = [users EXCEPT ![u] = new]
        BY <2>3, <2>4 DEF WriteRole
      <3> QED BY <3>2, <3>3 DEF Types, TypeOK
    <2>5. CASE Delete(w)
      <3>1. PICK n \in 0 .. MaxSecrets : n = Written(req[w].secret, 0, users[u].secret)
        BY <2>3 DEF Written, Request, User
      <3> DEFINE new == [users[u] EXCEPT !.deleted = TRUE, !.secret = n]
      <3>2. new \in User
        BY <2>3, <3>1, UserType
      <3>3. users' = [users EXCEPT ![u] = new]
        BY <2>3, <2>5, <3>1 DEF Delete, User
      <3> QED BY <3>2, <3>3 DEF Types, TypeOK
    <2>6. CASE Accept(w)
      <3> DEFINE new == [users[u] EXCEPT !.status = "active", !.secret = 1]
      <3>1. 1 \in 0 .. MaxSecrets
        OBVIOUS
      <3>2. new \in User
        BY <2>3, <3>1, UserType
      <3>3. users' = [users EXCEPT ![u] = new]
        BY <2>3, <2>6 DEF Accept
      <3> QED BY <3>2, <3>3 DEF Types, TypeOK
    <2> QED BY <2>1, <2>2, <2>4, <2>5, <2>6
  <1>5. locked' \subseteq Workers /\ overtaken' \in BOOLEAN
    BY DEF Types, TypeOK, Invite, LockAndCount, WriteRole, Delete, Accept, Takes, Overtakes
  <1>6. req' \in [Workers -> Request'] /\ JobInv'
    <2>1. CASE Invite(w)
      <3>1. UNCHANGED req
        BY <2>1 DEF Invite
      <3>2. \A q \in Request : q \in Request' /\ (Job(q) => Job(q)')
        BY <1>2 DEF Request, Job, Opened
      <3> QED BY <3>1, <3>2 DEF Types, TypeOK, JobInv
    <2>2. CASE LockAndCount(w)
      <3>1. CASE Finish(w)
        BY <3>1, <1>2, FinishTypes
      <3>2. CASE Become(w, [req[w] EXCEPT !.step = "revoke"])
        <4> DEFINE r == [req[w] EXCEPT !.step = "revoke"]
        <4>1. r \in Request
          BY <1>3, StepType DEF Steps
        <4>2. req[w].step = "lock"
          BY <2>2 DEF LockAndCount
        <4>3. Job(r)
          BY <1>3, <4>2 DEF Job, Request, Manages, Revokes, Idle
        <4> QED BY <3>2, <4>1, <4>3, <1>2, GoOnTypes
      <3> QED BY <2>2, <3>1, <3>2 DEF LockAndCount
    <2>3. CASE WriteRole(w) \/ Delete(w) \/ Accept(w)
      BY <2>3, <1>2, FinishTypes DEF WriteRole, Delete, Accept
    <2> QED BY <2>1, <2>2, <2>3
  <1> QED BY <1>1, <1>4, <1>5, <1>6 DEF Types, TypeOK, storeVars

\* Listing, revoking and marking sessions.
LEMMA RevokeTypes ==
  ASSUME Types, NEW w \in Workers, Revoke(w) \/ Drop(w) \/ Mark(w) \/ ListOthers(w)
  PROVE  Types' /\ UNCHANGED <<users, nRows>> /\ RowsKept
  <1>1. UNCHANGED <<users, nRows, minted, cached, claims>>
    BY DEF Revoke, Drop, Mark, ListOthers, storeVars
  <1>2. req[w] \in Request /\ Job(req[w]) /\ nRows \in Nat /\ Opened \subseteq Sids
    BY Numbers DEF Types, TypeOK, JobInv, Opened, Sids
  <1>3. /\ locked' \subseteq Workers /\ overtaken' \in BOOLEAN
        /\ marked' \subseteq 1 .. nRows /\ missed' \subseteq 1 .. nRows
    BY <1>2 DEF Types, TypeOK, Revoke, Drop, Mark, ListOthers, storeVars, Request
  <1>4. rows' \in [Sids -> Row] /\ \A s \in Sids : rows'[s].user = rows[s].user
    <2>1. CASE Revoke(w)
      BY <2>1 DEF Types, TypeOK, Revoke, Row
    <2>2. CASE Drop(w)
      <3>1. PICK s \in req[w].todo : rows' = [rows EXCEPT ![s].revoked = TRUE]
        BY <2>2 DEF Drop
      <3>2. s \in Sids
        BY <1>2 DEF Request, Opened
      <3> QED BY <3>1, <3>2 DEF Types, TypeOK, Row
    <2>3. CASE Mark(w) \/ ListOthers(w)
      BY <2>3 DEF Types, TypeOK, Mark, ListOthers, storeVars
    <2> QED BY <2>1, <2>2, <2>3
  <1>5. RowsKept
    BY <1>1, <1>2, <1>4 DEF RowsKept, Types, TypeOK
  <1>6. Request' = Request /\ \A q \in Request : Job(q) => Job(q)'
    BY <1>1, <1>2, <1>4 DEF Request, Job, Opened
  <1>7. \E r \in Request : Become(w, Proceed(r)) /\ Revokes(r)
            /\ Job([r EXCEPT !.step = "mark"])
            /\ (r.kind \in {"role", "remove", "leave"} => r.todo = {})
    <2> USE <1>2
    <2>1. CASE Revoke(w)
      <3> DEFINE r == [req[w] EXCEPT !.marks = Live(req[w].user)]
      <3>1. r \in Request
        BY DEF Request, Live, Opened
      <3>2. Revokes(r) /\ r.todo = {} /\ Job([r EXCEPT !.step = "mark"])
        BY <2>1 DEF Revoke, Job, Request, Manages, Revokes, Idle
      <3> QED BY <2>1, <3>1, <3>2 DEF Revoke
    <2>2. CASE Drop(w)
      <3>1. PICK s \in req[w].todo :
              Become(w, Proceed([req[w] EXCEPT !.todo = @ \ {s}, !.marks = {s}]))
        BY <2>2 DEF Drop
      <3> DEFINE r == [req[w] EXCEPT !.todo = @ \ {s}, !.marks = {s}]
      <3>2. r \in Request
        BY DEF Request
      <3>3. req[w].kind \in {"change", "logout"}
        BY DEF Job
      <3>4. Revokes(r) /\ Job([r EXCEPT !.step = "mark"])
        BY <3>3 DEF Job, Request, Manages, Revokes, Idle
      <3> QED BY <3>1, <3>2, <3>3, <3>4 DEF Request
    <2>3. CASE Mark(w)
      <3>1. PICK s \in req[w].marks : Become(w, Proceed([req[w] EXCEPT !.marks = @ \ {s}]))
        BY <2>3 DEF Mark
      <3> DEFINE r == [req[w] EXCEPT !.marks = @ \ {s}]
      <3>2. r \in Request
        BY DEF Request
      <3>3. Revokes(r) /\ Job([r EXCEPT !.step = "mark"])
        BY <2>3 DEF Mark, Job, Request, Manages, Revokes, Idle
      <3>4. r.kind \in {"role", "remove", "leave"} => r.todo = {}
        BY DEF Job, Request
      <3> QED BY <3>1, <3>2, <3>3, <3>4
    <2>4. CASE ListOthers(w)
      <3> DEFINE r == [req[w] EXCEPT !.todo = Live(req[w].user) \ {req[w].sid}]
      <3>1. r \in Request
        BY DEF Request, Live, Opened
      <3>2. req[w].kind = "change"
        BY <2>4 DEF ListOthers, Job
      <3>3. Revokes(r) /\ Job([r EXCEPT !.step = "mark"])
        BY <3>2 DEF Job, Request, Manages, Revokes, Idle
      <3> QED BY <2>4, <3>1, <3>2, <3>3 DEF ListOthers, Request
    <2> QED BY <2>1, <2>2, <2>3, <2>4
  <1>8. req' \in [Workers -> Request'] /\ JobInv'
    <2>1. PICK r \in Request : Become(w, Proceed(r)) /\ Job(Proceed(r))
      BY <1>7, ProceedJob
    <2>2. Proceed(r) \in Request /\ TypeOK
      BY ProceedType DEF Types
    <2> QED BY <1>5, <1>6, <2>1, <2>2, BecomeTypes
  <1> QED BY <1>1, <1>3, <1>4, <1>5, <1>8 DEF Types, TypeOK

LEMMA RowType ==
  ASSUME NEW x \in Row, NEW n \in 0 .. MaxTokens, NEW b \in 0 .. MaxSecrets
  PROVE  [x EXCEPT !.token = n] \in Row /\ [x EXCEPT !.proved = b, !.born = b] \in Row
  BY DEF Row

\* Login, refresh and a new password.
LEMMA SessionTypes ==
  ASSUME Types, NEW w \in Workers,
         OpenSession(w) \/ Take(w) \/ Rotate(w) \/ SetPassword(w)
  PROVE  Types' /\ RowsKept
  <1>1. req[w] \in Request /\ Job(req[w]) /\ nRows \in Nat /\ minted \in 0 .. MaxTokens
        /\ req[w].user \in Users /\ users[req[w].user] \in User
        /\ users[req[w].user].secret \in 0 .. MaxSecrets
    BY Numbers DEF Types, TypeOK, JobInv, Request, User
  <1>2. nRows' \in nRows .. MaxSessions /\ minted' \in 0 .. MaxTokens
    BY <1>1, Numbers DEF Types, TypeOK, OpenSession, Take, Rotate, SetPassword, storeVars
  <1>3. /\ locked' \subseteq Workers /\ overtaken' \in BOOLEAN
        /\ marked' \subseteq 1 .. nRows' /\ missed' \subseteq 1 .. nRows'
    BY <1>1, <1>2, Numbers
       DEF Types, TypeOK, OpenSession, Take, Rotate, SetPassword, storeVars
  <1>4. cached' \subseteq 1 .. MaxTokens
    BY <1>1, Numbers DEF Types, TypeOK, OpenSession, Take, Rotate, SetPassword, storeVars
  <1>5. claims' \subseteq [sid : 1 .. nRows', role : Roles]
    <2>1. claims \subseteq [sid : 1 .. nRows', role : Roles]
      BY <1>1, <1>2 DEF Types, TypeOK
    <2>2. CASE OpenSession(w)
      <3>1. CASE UNCHANGED storeVars
        BY <2>1, <3>1 DEF storeVars
      <3>2. CASE nRows' = nRows + 1
                 /\ claims' = claims \cup {[sid |-> nRows + 1, role |-> req[w].held]}
        <4>1. [sid |-> nRows + 1, role |-> req[w].held] \in [sid : 1 .. nRows', role : Roles]
          BY <1>1, <3>2 DEF Request
        <4> QED BY <2>1, <3>2, <4>1
      <3> QED BY <2>2, <3>1, <3>2 DEF OpenSession
    <2>3. CASE Rotate(w)
      <3>1. CASE claims' = claims
        BY <2>1, <3>1
      <3>2. CASE claims' = claims \cup {[sid |-> req[w].sid, role |-> req[w].held]}
        <4>1. [sid |-> req[w].sid, role |-> req[w].held] \in [sid : 1 .. nRows', role : Roles]
          BY <1>1, <1>2, <2>3 DEF Request, Rotate, Job, Opened
        <4> QED BY <2>1, <3>2, <4>1
      <3> QED BY <2>3, <3>1, <3>2 DEF Rotate
    <2>4. CASE Take(w) \/ SetPassword(w)
      BY <2>1, <2>4 DEF Take, SetPassword
    <2> QED BY <2>2, <2>3, <2>4
  <1>6. rows' \in [Sids -> Row] /\ \A s \in Opened : rows'[s].user = rows[s].user
    <2>1. rows \in [Sids -> Row] /\ Opened \subseteq Sids
      BY Numbers DEF Types, TypeOK, Opened, Sids
    <2>2. CASE UNCHANGED rows
      BY <2>1, <2>2
    <2>3. CASE OpenSession(w) /\ nRows < MaxSessions /\ minted < MaxTokens
      <3> DEFINE new == [user |-> req[w].user, revoked |-> FALSE, token |-> minted + 1,
                         proved |-> req[w].secret, born |-> users[req[w].user].secret]
      <3>1. new \in Row
        BY <1>1, <2>3, Numbers DEF Row, Request
      <3>2. rows' = [rows EXCEPT ![nRows + 1] = new]
        BY <1>1, <2>3, Numbers DEF OpenSession, storeVars
      <3>3. \A s \in Opened : s # nRows + 1
        BY <1>1 DEF Opened
      <3> QED BY <2>1, <3>1, <3>2, <3>3
    <2>4. CASE Rotate(w) /\ minted < MaxTokens
      <3>1. PICK s \in Opened : s = req[w].sid
        BY <1>1, <2>4 DEF Rotate, Job
      <3>2. rows' = [rows EXCEPT ![s] = [@ EXCEPT !.token = minted + 1]]
        BY <1>1, <2>4, <3>1, Numbers DEF Rotate
      <3>3. minted + 1 \in 0 .. MaxTokens
        BY <1>1, <2>4, Numbers
      <3>4. [rows[s] EXCEPT !.token = minted + 1] \in Row
        BY <2>1, <3>3, Numbers DEF Row
      <3>5. [rows[s] EXCEPT !.token = minted + 1].user = rows[s].user
        BY <2>1 DEF Row
      <3> QED BY <2>1, <3>2, <3>4, <3>5
    <2>5. CASE SetPassword(w) /\ req[w].kind = "change"
               /\ users[req[w].user].secret < MaxSecrets
      <3>1. PICK s \in Opened : s = req[w].sid
        BY <1>1, <2>5 DEF Job
      <3>2. PICK b \in 0 .. MaxSecrets : b = users[req[w].user].secret + 1
        BY <1>1, <2>5, Numbers
      <3>3. rows' = [rows EXCEPT ![s].proved = b, ![s].born = b]
        BY <1>1, <2>5, <3>1, <3>2, Numbers DEF SetPassword
      <3>4. \A x \in Sids : rows'[x] = IF x = s THEN [rows[s] EXCEPT !.proved = b, !.born = b]
                                             ELSE rows[x]
        BY <2>1, <3>3 DEF Row
      <3>5. /\ [rows[s] EXCEPT !.proved = b, !.born = b] \in Row
            /\ [rows[s] EXCEPT !.proved = b, !.born = b].user = rows[s].user
        BY <2>1, <3>2 DEF Row
      <3> QED BY <2>1, <3>3, <3>4, <3>5
    <2> QED BY <1>1, <2>2, <2>3, <2>4, <2>5, Numbers
            DEF OpenSession, Take, Rotate, SetPassword, storeVars
  <1>7. RowsKept
    BY <1>2, <1>6 DEF RowsKept
  <1>8. users' \in [Users -> User]
    <2>1. CASE UNCHANGED users
      BY <2>1 DEF Types, TypeOK
    <2>2. CASE users[req[w].user].secret < MaxSecrets
               /\ users' = [users EXCEPT ![req[w].user].secret = @ + 1]
      <3>1. PICK u \in Users : u = req[w].user
        BY <1>1
      <3>2. [users[u] EXCEPT !.secret = @ + 1] \in User
        BY <1>1, <2>2, <3>1, Numbers DEF User
      <3> QED BY <2>2, <3>1, <3>2 DEF Types, TypeOK
    <2> QED BY <2>1, <2>2 DEF OpenSession, Take, Rotate, SetPassword
  <1>9. req' \in [Workers -> Request'] /\ JobInv'
    <2>1. CASE Finish(w)
      BY <1>7, <2>1, FinishTypes
    <2>2. CASE Take(w) /\ ~Finish(w)
      <3>1. PICK x \in Roles : Become(w, [req[w] EXCEPT !.step = "go", !.held = x])
        <4>1. rows[req[w].sid] \in Row
          BY <1>1, <2>2, Numbers DEF Take, Job, Types, TypeOK, Opened, Sids
        <4>2. users[rows[req[w].sid].user].role \in Roles
          BY <4>1 DEF Types, TypeOK, Row, User
        <4> QED BY <2>2, <4>2 DEF Take
      <3> DEFINE r == [req[w] EXCEPT !.step = "go", !.held = x]
      <3>2. r \in Request /\ Job(r)
        BY <1>1, <2>2 DEF Take, Job, Request, Steps, Manages, Revokes
      <3>3. UNCHANGED <<rows, nRows>>
        BY <2>2 DEF Take
      <3> QED BY <3>1, <3>2, <3>3, GoOnTypes
    <2>3. CASE SetPassword(w) /\ ~Finish(w)
      <3>1. PICK to \in {"revoke", "list"} :
              Become(w, [req[w] EXCEPT !.step = to])
              /\ to = IF req[w].kind = "reset" THEN "revoke" ELSE "list"
        BY <2>3 DEF SetPassword
      <3> DEFINE r == [req[w] EXCEPT !.step = to]
      <3>2. r \in Request
        BY <1>1, StepType DEF Steps
      <3>3. Job(r)
        BY <1>1, <2>3, <3>1 DEF SetPassword, Job, Request, Manages, Revokes
      <3>4. UNCHANGED nRows /\ Request' = Request
        BY <2>3 DEF SetPassword, Request
      <3>5. \A q \in Request : Job(q) => Job(q)'
        BY <1>7, <3>4 DEF Job, Opened, RowsKept
      <3> QED BY <1>7, <3>1, <3>2, <3>3, <3>4, <3>5, BecomeTypes
    <2> QED BY <2>1, <2>2, <2>3 DEF OpenSession, Rotate
  <1> QED BY <1>2, <1>3, <1>4, <1>5, <1>6, <1>7, <1>8, <1>9, Numbers
          DEF Types, TypeOK

LEMMA TypesStep ==
  ASSUME Types, [Next]_vars
  PROVE  Types'
  <1>1. ASSUME NEW w \in Workers,
               Invite(w) \/ LockAndCount(w) \/ WriteRole(w) \/ Delete(w) \/ Accept(w)
        PROVE  Types'
    BY <1>1, MemberTypes
  <1>2. ASSUME NEW w \in Workers,
               BeginManage(w) \/ BeginLeave(w) \/ BeginAccept(w) \/ BeginLogin(w)
               \/ BeginRefresh(w) \/ BeginLogout(w) \/ BeginReset(w) \/ BeginChange(w)
        PROVE  Types'
    BY <1>2, BeginTypes
  <1>3. ASSUME NEW w \in Workers, Revoke(w) \/ Drop(w) \/ Mark(w) \/ ListOthers(w)
        PROVE  Types'
    BY <1>3, RevokeTypes
  <1>4. ASSUME NEW w \in Workers, OpenSession(w) \/ Take(w) \/ Rotate(w) \/ SetPassword(w)
        PROVE  Types'
    BY <1>4, SessionTypes
  <1>5. CASE UNCHANGED vars
    BY <1>5 DEF vars, storeVars, Types, TypeOK, Request, JobInv, Job, Opened
  <1> QED BY <1>1, <1>2, <1>3, <1>4, <1>5 DEF Next

\* The users, the sessions in both stores and what every request holds keep
\* their type: in particular no request works on a session that was never
\* opened, and a deleted user keeps a role.
THEOREM TypeCorrect == Spec => []TypeOK
  <1>1. Spec => []Types
    BY TypesInit, TypesStep, PTL DEF Spec
  <1>2. Types => TypeOK
    BY DEF Types
  <1> QED BY <1>1, <1>2, PTL

-----------------------------------------------------------------------------
(* The two stores of a session. *)

\* A step of w that neither revokes nor is to revoke a session for a new
\* password, and changes no password that a session was opened under.
Quiet(w) ==
    /\ req[w].marks = {} /\ req'[w].marks = {}
    /\ \A s \in Opened : ~Ends(w, s)
    /\ \A v \in Workers \ {w} : req'[v] = req[v]
    /\ UNCHANGED <<marked, missed>>
    /\ \A s \in Opened : /\ rows'[s].user = rows[s].user
                         /\ rows'[s].revoked = rows[s].revoked
                         /\ rows'[s].born = rows[s].born
    /\ \A s \in Opened' \ Opened : /\ ~rows'[s].revoked
                                   /\ rows'[s].born = users'[rows'[s].user].secret
    /\ \A u \in Users : users'[u].secret \in {users[u].secret, 0, 1}

LEMMA Basics ==
  ASSUME Types
  PROVE  /\ nRows \in Nat /\ Opened \subseteq Sids /\ marked \cup missed \subseteq Opened
         /\ \A s \in Sids : /\ rows[s] \in Row /\ rows[s].user \in Users
                            /\ rows[s].born \in Nat /\ rows[s].revoked \in BOOLEAN
                            /\ rows[s].token \in 0 .. MaxTokens
         /\ \A u \in Users : users[u] \in User /\ users[u].secret \in 0 .. MaxSecrets
         /\ \A w \in Workers :
               /\ req[w] \in Request /\ Job(req[w])
               /\ req[w].user \in Users
               /\ req[w].marks \subseteq Opened /\ req[w].todo \subseteq Opened
  <1>1. nRows \in Nat /\ Opened \subseteq Sids /\ marked \cup missed \subseteq Opened
    BY Numbers DEF Types, TypeOK, Opened, Sids
  <1>2. ASSUME NEW s \in Sids
        PROVE  /\ rows[s] \in Row /\ rows[s].user \in Users
               /\ rows[s].born \in Nat /\ rows[s].revoked \in BOOLEAN
               /\ rows[s].token \in 0 .. MaxTokens
    <2>1. rows[s] \in Row
      BY DEF Types, TypeOK
    <2> QED BY <2>1, Numbers DEF Row
  <1>3. ASSUME NEW u \in Users
        PROVE  users[u] \in User /\ users[u].secret \in 0 .. MaxSecrets
    <2>1. users[u] \in User
      BY DEF Types, TypeOK
    <2> QED BY <2>1 DEF User
  <1>4. ASSUME NEW w \in Workers
        PROVE  /\ req[w] \in Request /\ Job(req[w])
               /\ req[w].user \in Users
               /\ req[w].marks \subseteq Opened /\ req[w].todo \subseteq Opened
    <2>1. req[w] \in Request /\ Job(req[w])
      BY DEF Types, TypeOK, JobInv
    <2> QED BY <2>1 DEF Request, Opened
  <1> QED BY <1>1, <1>2, <1>3, <1>4

LEMMA QuietStores ==
  ASSUME Types, Types', RowsKept, Stores, NEW w \in Workers, Quiet(w)
  PROVE  Stores'
  <1>1. Opened \subseteq Opened' /\ Opened' \subseteq Sids /\ marked \cup missed \subseteq Opened
    BY Basics, Numbers DEF RowsKept, Opened, Sids
  <1>2. MarksInv'
    BY <1>1, Basics DEF Stores, MarksInv, Quiet
  <1>3. RevokedEverywhere'
    BY <1>1, Basics DEF Stores, RevokedEverywhere, Quiet
  <1>4. ASSUME NEW s \in Opened', s \notin (marked \cup missed)', Outdated(s)'
        PROVE  \E v \in Workers : s \in req'[v].marks \/ Ends(v, s)'
    <2>1. rows'[s].user \in Users /\ rows'[s].born \in Nat /\ users'[rows'[s].user].secret \in Nat
      BY <1>1 DEF Types, TypeOK, Row, User
    <2>2. s \in Opened
      BY <1>4, <2>1 DEF Quiet, Outdated
    <2>3. Outdated(s)
      BY <1>1, <1>4, <2>1, <2>2, Basics DEF Quiet, Outdated
    <2>4. PICK v \in Workers : s \in req[v].marks \/ Ends(v, s)
      BY <1>4, <2>2, <2>3 DEF Stores, ResetInv, Quiet
    <2>5. v # w
      BY <2>2, <2>4 DEF Quiet
    <2> QED BY <2>2, <2>4, <2>5 DEF Quiet, Ends
  <1> QED BY <1>2, <1>3, <1>4 DEF Stores, ResetInv

LEMMA QuietSteps ==
  ASSUME Types, Types', RowsKept, NEW w \in Workers,
         \/ Invite(w) \/ LockAndCount(w) \/ WriteRole(w) \/ Delete(w) \/ Accept(w)
         \/ BeginManage(w) \/ BeginLeave(w) \/ BeginAccept(w) \/ BeginLogin(w)
         \/ BeginRefresh(w) \/ BeginLogout(w) \/ BeginReset(w) \/ BeginChange(w)
         \/ OpenSession(w) \/ Take(w) \/ Rotate(w) \/ (SetPassword(w) /\ Finish(w))
  PROVE  Quiet(w)
  <1>1. req[w] \in Request /\ Job(req[w])
    BY Basics
  <1>2. req[w].kind \in {"none", "accept", "login", "refresh"} \/ req[w].step \in {"lock", "write"}
    BY DEF LockAndCount, WriteRole, Delete, Accept, Invite,
           BeginManage, BeginLeave, BeginAccept, BeginLogin, BeginRefresh, BeginLogout,
           BeginReset, BeginChange, Start, OpenSession, Take, Rotate, SetPassword
  <1>3. req[w].marks = {} /\ \A s \in Opened : ~Ends(w, s)
    BY <1>1, <1>2 DEF Job, Ends, Manages, Revokes, Idle
  <1>4. req'[w].marks = {} /\ \A v \in Workers \ {w} : req'[v] = req[v]
    <2>1. CASE Invite(w)
      BY <1>3, <2>1 DEF Invite
    <2>2. CASE Finish(w)
      BY <2>2 DEF Finish, Become, Idle, Types, TypeOK
    <2>3. CASE LockAndCount(w) /\ ~Finish(w)
      <3>1. Become(w, [req[w] EXCEPT !.step = "revoke"])
        BY <2>3 DEF LockAndCount
      <3>2. [req[w] EXCEPT !.step = "revoke"].marks = {}
        BY <1>1, <1>3 DEF Request
      <3> QED BY <3>1, <3>2 DEF Become, Types, TypeOK
    <2>4. CASE \/ BeginManage(w) \/ BeginLeave(w) \/ BeginAccept(w) \/ BeginLogin(w)
               \/ BeginRefresh(w) \/ BeginLogout(w) \/ BeginReset(w) \/ BeginChange(w)
      <3>1. PICK r \in Request : Become(w, r) /\ r.marks = {}
        BY <2>4, BeginTypes DEF Fresh
      <3> QED BY <3>1 DEF Fresh, Become, Types, TypeOK
    <2>5. CASE Take(w) /\ ~Finish(w)
      <3>1. PICK x : Become(w, [req[w] EXCEPT !.step = "go", !.held = x])
        BY <2>5 DEF Take
      <3>2. [req[w] EXCEPT !.step = "go", !.held = x].marks = {}
        BY <1>1, <1>3 DEF Request
      <3> QED BY <3>1, <3>2 DEF Become, Types, TypeOK
    <2> QED BY <2>1, <2>2, <2>3, <2>4, <2>5
            DEF WriteRole, Delete, Accept, OpenSession, Rotate
  <1>5. /\ UNCHANGED <<marked, missed>>
        /\ \A s \in Opened : /\ rows'[s].user = rows[s].user
                             /\ rows'[s].revoked = rows[s].revoked
                             /\ rows'[s].born = rows[s].born
        /\ \A s \in Opened' \ Opened : /\ ~rows'[s].revoked
                                       /\ rows'[s].born = users'[rows'[s].user].secret
    <2>1. CASE UNCHANGED <<rows, nRows, marked, missed>>
      BY <2>1 DEF Opened
    <2>2. CASE OpenSession(w) /\ nRows' = nRows + 1
      <3>1. nRows + 1 \in Sids /\ Opened' = Opened \cup {nRows + 1} /\ nRows + 1 \notin Opened
        BY <2>2, Basics, Numbers DEF Opened, Sids, Types, TypeOK
      <3>2. /\ UNCHANGED <<marked, missed, users>>
            /\ rows' = [rows EXCEPT ![nRows + 1] =
                 [user |-> req[w].user, revoked |-> FALSE, token |-> minted + 1,
                  proved |-> req[w].secret, born |-> users[req[w].user].secret]]
        BY <2>2, Basics DEF OpenSession, storeVars
      <3> QED BY <3>1, <3>2, Basics DEF Types, TypeOK
    <2>3. CASE Rotate(w) /\ ~UNCHANGED rows
      <3>1. PICK s \in Opened : rows' = [rows EXCEPT ![s].token = minted + 1]
        BY <1>1, <2>3 DEF Rotate, Job
      <3>2. UNCHANGED <<nRows, marked, missed>> /\ \A x \in Opened : rows[x] \in Row /\ x \in Sids
        BY <2>3, Basics DEF Rotate
      <3> QED BY <3>1, <3>2 DEF Types, TypeOK, Row, Opened
    <2>4. SetPassword(w) /\ Finish(w) => UNCHANGED <<rows, nRows, marked, missed>>
      <3> SUFFICES ASSUME SetPassword(w), Finish(w) PROVE UNCHANGED <<rows, nRows, marked, missed>>
        OBVIOUS
      <3>1. req'[w].kind = "none" /\ req[w].kind # "none"
        BY DEF SetPassword, Finish, Become, Idle, Types, TypeOK
      <3>2. ~Become(w, [req[w] EXCEPT !.step = IF req[w].kind = "reset" THEN "revoke" ELSE "list"])
        BY <1>1, <3>1 DEF Become, Types, TypeOK, Request
      <3> QED BY <3>2 DEF SetPassword
    <2> QED BY <2>1, <2>2, <2>3, <2>4
            DEF LockAndCount, WriteRole, Delete, Accept, Invite, storeVars,
                BeginManage, BeginLeave, BeginAccept, BeginLogin, BeginRefresh, BeginLogout,
                BeginReset, BeginChange, OpenSession, Take, Rotate
  <1>6. ASSUME NEW u \in Users
        PROVE  users'[u].secret \in {users[u].secret, 0, 1}
    <2>1. users[u].secret \in {users[u].secret, 0, 1}
      OBVIOUS
    <2>2. CASE UNCHANGED users
      BY <2>1, <2>2
    <2>3. CASE Invite(w)
      <3>1. PICK v \in Users, x \in Roles :
              users' = [users EXCEPT ![v] = [NoUser EXCEPT !.role = x, !.status = "pending"]]
        BY <2>3 DEF Invite
      <3>2. [NoUser EXCEPT !.role = x, !.status = "pending"].secret = 0
        BY DEF NoUser
      <3> QED BY <2>1, <3>1, <3>2, Basics DEF Types, TypeOK
    <2>4. CASE WriteRole(w)
      BY <1>1, <2>1, <2>4, Basics DEF WriteRole, Types, TypeOK, User
    <2>5. CASE Delete(w)
      BY <1>1, <2>1, <2>5, Basics, Numbers DEF Delete, Written, Types, TypeOK, User
    <2>6. CASE Accept(w)
      BY <1>1, <2>1, <2>6, Basics DEF Accept, Types, TypeOK, User
    <2>7. SetPassword(w) /\ Finish(w) => UNCHANGED users
      <3> SUFFICES ASSUME SetPassword(w), Finish(w) PROVE UNCHANGED users
        OBVIOUS
      <3>1. req'[w].kind = "none" /\ req[w].kind # "none"
        BY DEF SetPassword, Finish, Become, Idle, Types, TypeOK
      <3>2. ~Become(w, [req[w] EXCEPT !.step = IF req[w].kind = "reset" THEN "revoke" ELSE "list"])
        BY <1>1, <3>1 DEF Become, Types, TypeOK, Request
      <3> QED BY <3>2 DEF SetPassword
    <2> QED BY <2>2, <2>3, <2>4, <2>5, <2>6, <2>7
            DEF LockAndCount, BeginManage, BeginLeave, BeginAccept, BeginLogin,
                BeginRefresh, BeginLogout, BeginReset, BeginChange, OpenSession, Take, Rotate
  <1> QED BY <1>3, <1>4, <1>5, <1>6 DEF Quiet

LEMMA ProceedKeeps ==
  ASSUME NEW r \in Request
  PROVE  /\ Proceed(r).marks = r.marks /\ Proceed(r).todo = r.todo
         /\ r.todo # {} => Proceed(r).kind = r.kind /\ Proceed(r).user = r.user
  BY ProceedIs DEF Request, Idle

\* Revoking: every session w was to end is revoked, and marked or to be.
LEMMA RevokeStores ==
  ASSUME Types, Stores, NEW w \in Workers, Revoke(w)
  PROVE  Stores'
  <1> DEFINE live == Live(req[w].user)
             r == [req[w] EXCEPT !.marks = live]
  <1>1. req[w] \in Request /\ req[w].marks = {} /\ req[w].todo = {} /\ req[w].step = "revoke"
    BY Basics DEF Revoke, Job
  <1>2. live \subseteq Opened /\ r \in Request /\ r.marks = live
    BY <1>1 DEF Live, Request, Opened
  <1>3. /\ req'[w].marks = live
        /\ \A v \in Workers \ {w} : req'[v] = req[v]
    BY <1>2, ProceedKeeps DEF Revoke, Become, Types, TypeOK
  <1>4. UNCHANGED <<users, nRows, marked, missed>> /\ Opened' = Opened
    BY DEF Revoke, Opened
  <1>5. \A s \in Opened : /\ rows'[s].user = rows[s].user
                         /\ rows'[s].born = rows[s].born
                         /\ rows'[s].revoked = (rows[s].revoked \/ s \in live)
    BY Basics DEF Revoke, Row
  <1>6. MarksInv'
    <2>1. ASSUME NEW v \in Workers, NEW s \in req'[v].marks PROVE rows'[s].revoked
      <3>1. CASE v = w
        BY <1>2, <1>3, <1>5, <2>1, <3>1
      <3>2. CASE v # w
        <4>1. s \in req[v].marks /\ s \in Opened
          BY <1>2, <1>3, <1>5, <2>1, <3>2, Basics
        <4> QED BY <1>2, <1>3, <1>5, <4>1 DEF Stores, MarksInv
      <3> QED BY <3>1, <3>2
    <2> QED BY <2>1 DEF MarksInv
  <1>7. RevokedEverywhere'
    BY <1>1, <1>2, <1>3, <1>4, <1>5, Basics DEF Stores, RevokedEverywhere
  <1>8. ASSUME NEW s \in Opened, s \notin marked \cup missed, Outdated(s)
        PROVE  \E v \in Workers : s \in req'[v].marks \/ Ends(v, s)'
    <2>1. PICK v \in Workers : s \in req[v].marks \/ Ends(v, s)
      BY <1>8 DEF Stores, ResetInv
    <2>2. CASE v # w
      BY <1>3, <1>5, <2>1, <2>2 DEF Ends
    <2>3. CASE v = w /\ rows[s].revoked
      <3>1. PICK x \in Workers : s \in req[x].marks
        BY <1>8, <2>3 DEF Stores, RevokedEverywhere
      <3> QED BY <1>1, <1>3, <3>1
    <2>4. CASE v = w /\ ~rows[s].revoked
      BY <1>1, <1>3, <2>1, <2>4 DEF Ends, Live
    <2> QED BY <2>2, <2>3, <2>4
  <1>9. ResetInv'
    BY <1>4, <1>5, <1>8 DEF ResetInv, Outdated
  <1> QED BY <1>6, <1>7, <1>9 DEF Stores

LEMMA DropStores ==
  ASSUME Types, Stores, NEW w \in Workers, Drop(w)
  PROVE  Stores'
  <1>1. req[w] \in Request /\ req[w].marks = {} /\ req[w].todo \subseteq Opened
    BY Basics DEF Drop, Job
  <1>2. PICK d \in req[w].todo :
          /\ rows' = [rows EXCEPT ![d].revoked = TRUE]
          /\ Become(w, Proceed([req[w] EXCEPT !.todo = @ \ {d}, !.marks = {d}]))
    BY DEF Drop
  <1> DEFINE r == [req[w] EXCEPT !.todo = @ \ {d}, !.marks = {d}]
  <1>3. /\ r \in Request /\ r.marks = {d} /\ r.todo = req[w].todo \ {d}
        /\ r.kind = req[w].kind /\ r.user = req[w].user
    BY <1>1, <1>2 DEF Request, Opened
  <1>4. /\ req'[w].marks = {d} /\ req'[w].todo = req[w].todo \ {d}
        /\ req'[w].todo # {} => req'[w].kind = req[w].kind /\ req'[w].user = req[w].user
        /\ \A v \in Workers \ {w} : req'[v] = req[v]
    BY <1>2, <1>3, ProceedKeeps DEF Become, Types, TypeOK
  <1>5. UNCHANGED <<users, nRows, marked, missed>> /\ Opened' = Opened /\ d \in Opened
    BY <1>1, <1>2 DEF Drop, Opened
  <1>6. \A s \in Opened : /\ rows'[s].user = rows[s].user
                         /\ rows'[s].born = rows[s].born
                         /\ rows'[s].revoked = (rows[s].revoked \/ s = d)
    BY <1>2, <1>5, Basics DEF Types, TypeOK, Row
  <1>7. MarksInv'
    <2>1. ASSUME NEW v \in Workers, NEW s \in req'[v].marks PROVE rows'[s].revoked
      <3>1. CASE v = w
        BY <1>4, <1>5, <1>6, <2>1, <3>1
      <3>2. CASE v # w
        <4>1. s \in req[v].marks /\ s \in Opened
          BY <1>4, <1>5, <1>6, <2>1, <3>2, Basics
        <4> QED BY <1>4, <1>5, <1>6, <4>1 DEF Stores, MarksInv
      <3> QED BY <3>1, <3>2
    <2> QED BY <2>1 DEF MarksInv
  <1>8. RevokedEverywhere'
    BY <1>1, <1>4, <1>5, <1>6, Basics DEF Stores, RevokedEverywhere
  <1>9. ASSUME NEW s \in Opened, s \notin marked \cup missed, Outdated(s)
        PROVE  \E v \in Workers : s \in req'[v].marks \/ Ends(v, s)'
    <2>1. PICK v \in Workers : s \in req[v].marks \/ Ends(v, s)
      BY <1>9 DEF Stores, ResetInv
    <2>2. CASE v # w
      BY <1>4, <1>6, <2>1, <2>2 DEF Ends
    <2>3. CASE v = w
      <3>1. req[w].kind = "change" /\ s \in req[w].todo /\ req[w].user = rows[s].user
        BY <1>1, <2>1, <2>3 DEF Ends, Drop
      <3> QED BY <1>4, <1>6, <3>1 DEF Ends
    <2> QED BY <2>2, <2>3
  <1>10. ResetInv'
    BY <1>5, <1>6, <1>9 DEF ResetInv, Outdated
  <1> QED BY <1>7, <1>8, <1>10 DEF Stores

LEMMA MarkStores ==
  ASSUME Types, Stores, NEW w \in Workers, Mark(w)
  PROVE  Stores'
  <1>1. req[w] \in Request /\ req[w].marks \subseteq Opened /\ req[w].step = "mark"
    BY Basics DEF Mark
  <1>2. PICK d \in req[w].marks :
          /\ (marked \cup missed)' = (marked \cup missed) \cup {d}
          /\ \A x \in marked' : x \in marked \/ x = d
          /\ marked \subseteq marked'
          /\ Become(w, Proceed([req[w] EXCEPT !.marks = @ \ {d}]))
    BY DEF Mark
  <1> DEFINE r == [req[w] EXCEPT !.marks = @ \ {d}]
  <1>3. /\ r \in Request /\ r.marks = req[w].marks \ {d} /\ r.todo = req[w].todo
        /\ r.kind = req[w].kind /\ r.user = req[w].user
    BY <1>1 DEF Request
  <1>4. /\ req'[w].marks = req[w].marks \ {d} /\ req'[w].todo = req[w].todo
        /\ req'[w].todo # {} => req'[w].kind = req[w].kind /\ req'[w].user = req[w].user
        /\ \A v \in Workers \ {w} : req'[v] = req[v]
    BY <1>2, <1>3, ProceedKeeps DEF Become, Types, TypeOK
  <1>5. UNCHANGED <<users, rows, nRows>> /\ Opened' = Opened
    BY DEF Mark, Opened
  <1>6. MarksInv'
    BY <1>4, <1>5 DEF Stores, MarksInv
  <1>7. RevokedEverywhere'
    BY <1>1, <1>2, <1>4, <1>5, Basics DEF Stores, RevokedEverywhere, MarksInv
  <1>8. ASSUME NEW s \in Opened, s \notin (marked \cup missed)', Outdated(s)
        PROVE  \E v \in Workers : s \in req'[v].marks \/ Ends(v, s)'
    <2>1. PICK v \in Workers : s \in req[v].marks \/ Ends(v, s)
      BY <1>2, <1>8 DEF Stores, ResetInv
    <2>2. CASE v # w
      BY <1>4, <1>5, <2>1, <2>2 DEF Ends
    <2>3. CASE v = w
      BY <1>1, <1>2, <1>4, <1>5, <1>8, <2>1, <2>3 DEF Ends
    <2> QED BY <2>2, <2>3
  <1>9. ResetInv'
    BY <1>5, <1>8 DEF ResetInv, Outdated
  <1> QED BY <1>6, <1>7, <1>9 DEF Stores

LEMMA ListStores ==
  ASSUME Types, Stores, NEW w \in Workers, ListOthers(w)
  PROVE  Stores'
  <1> DEFINE others == Live(req[w].user) \ {req[w].sid}
             r == [req[w] EXCEPT !.todo = others]
  <1>1. req[w] \in Request /\ req[w].marks = {} /\ req[w].kind = "change"
    BY Basics DEF ListOthers, Job
  <1>2. /\ r \in Request /\ r.marks = {} /\ r.todo = others
        /\ r.kind = "change" /\ r.user = req[w].user
    BY <1>1 DEF Request, Live, Opened
  <1>3. /\ req'[w].marks = {} /\ req'[w].todo = others
        /\ others # {} => req'[w].kind = "change" /\ req'[w].user = req[w].user
        /\ \A v \in Workers \ {w} : req'[v] = req[v]
    BY <1>2, ProceedKeeps DEF ListOthers, Become, Types, TypeOK
  <1>4. UNCHANGED <<users, rows, nRows, marked, missed>> /\ Opened' = Opened
    BY DEF ListOthers, storeVars, Opened
  <1>5. MarksInv' /\ RevokedEverywhere'
    BY <1>1, <1>3, <1>4 DEF Stores, MarksInv, RevokedEverywhere
  <1>6. ASSUME NEW s \in Opened, s \notin marked \cup missed, Outdated(s)
        PROVE  \E v \in Workers : s \in req'[v].marks \/ Ends(v, s)'
    <2>1. PICK v \in Workers : s \in req[v].marks \/ Ends(v, s)
      BY <1>6 DEF Stores, ResetInv
    <2>2. CASE v # w
      BY <1>3, <1>4, <2>1, <2>2 DEF Ends
    <2>3. CASE v = w /\ rows[s].revoked
      <3>1. PICK x \in Workers : s \in req[x].marks
        BY <1>6, <2>3 DEF Stores, RevokedEverywhere
      <3> QED BY <1>1, <1>3, <3>1
    <2>4. CASE v = w /\ ~rows[s].revoked
      <3>1. req[w].user = rows[s].user /\ req[w].sid # s
        <4>1. req[w].todo = {} /\ req[w].step = "list"
          BY Basics DEF ListOthers, Job
        <4> QED BY <1>1, <2>1, <2>4, <4>1 DEF Ends
      <3>2. s \in others
        BY <2>4, <3>1 DEF Live
      <3> QED BY <1>3, <1>4, <3>1, <3>2 DEF Ends
    <2> QED BY <2>2, <2>3, <2>4
  <1>7. ResetInv'
    BY <1>4, <1>6 DEF ResetInv, Outdated
  <1> QED BY <1>5, <1>7 DEF Stores

\* A new password: every other session of its user is to be revoked.
LEMMA PasswordStores ==
  ASSUME Types, Stores, NEW w \in Workers, SetPassword(w), ~Finish(w)
  PROVE  Stores'
  <1> DEFINE u == req[w].user
             to == IF req[w].kind = "reset" THEN "revoke" ELSE "list"
             r == [req[w] EXCEPT !.step = to]
  <1>1. /\ req[w] \in Request /\ req[w].marks = {} /\ req[w].todo = {} /\ u \in Users
        /\ req[w].kind \in {"reset", "change"} /\ req[w].step = "write"
        /\ req[w].kind = "change" => req[w].sid \in Opened /\ rows[req[w].sid].user = u
    BY Basics DEF SetPassword, Job
  <1>2. /\ users' = [users EXCEPT ![u].secret = @ + 1]
        /\ rows' = IF req[w].kind = "change"
                   THEN [rows EXCEPT ![req[w].sid].proved = users[u].secret + 1,
                                     ![req[w].sid].born = users[u].secret + 1]
                   ELSE rows
        /\ Become(w, r)
        /\ UNCHANGED <<nRows, marked, missed>> /\ Opened' = Opened
    BY DEF SetPassword, Opened
  <1>3. /\ req'[w].marks = {} /\ req'[w].kind = req[w].kind /\ req'[w].user = u
        /\ req'[w].sid = req[w].sid /\ req'[w].step = to
        /\ \A v \in Workers \ {w} : req'[v] = req[v]
    BY <1>1, <1>2 DEF Become, Types, TypeOK, Request
  <1>4. \A s \in Opened : /\ rows'[s].user = rows[s].user
                         /\ rows'[s].revoked = rows[s].revoked
    BY <1>1, <1>2, Basics DEF Row, Types, TypeOK
  <1>5. \A s \in Opened : rows'[s].born = IF req[w].kind = "change" /\ s = req[w].sid
                                         THEN users[u].secret + 1 ELSE rows[s].born
    BY <1>1, <1>2, Basics DEF Row, Types, TypeOK
  <1>6. \A x \in Users : users'[x].secret = IF x = u THEN users[x].secret + 1
                                                     ELSE users[x].secret
    BY <1>1, <1>2, Basics DEF User, Types, TypeOK
  <1>7. MarksInv' /\ RevokedEverywhere'
    <2>1. \A v \in Workers : req'[v].marks = req[v].marks /\ req[v].marks \subseteq Opened
      BY <1>1, <1>3, Basics
    <2> QED BY <1>2, <1>4, <2>1 DEF Stores, MarksInv, RevokedEverywhere
  <1>8. ASSUME NEW s \in Opened, s \notin marked \cup missed, Outdated(s)'
        PROVE  \E v \in Workers : s \in req'[v].marks \/ Ends(v, s)'
    <2>1. CASE rows[s].user = u
      <3>1. ~(req[w].kind = "change" /\ s = req[w].sid)
        BY <1>1, <1>4, <1>5, <1>6, <1>8, <2>1, Basics DEF Outdated
      <3> QED BY <1>1, <1>3, <1>4, <2>1, <3>1 DEF Ends
    <2>2. CASE rows[s].user # u
      <3>1. Outdated(s)
        BY <1>1, <1>4, <1>5, <1>6, <1>8, <2>2, Basics DEF Outdated
      <3>2. PICK v \in Workers : s \in req[v].marks \/ Ends(v, s)
        BY <1>8, <3>1 DEF Stores, ResetInv
      <3>3. v # w
        BY <1>1, <2>2, <3>2 DEF Ends
      <3> QED BY <1>3, <1>4, <3>2, <3>3 DEF Ends
    <2> QED BY <2>1, <2>2
  <1>9. ResetInv'
    BY <1>2, <1>8 DEF ResetInv, Outdated
  <1> QED BY <1>7, <1>9 DEF Stores

LEMMA StoresInit == Init => Stores
  BY DEF Init, Stores, MarksInv, RevokedEverywhere, ResetInv, Opened, Idle

LEMMA StoresStep ==
  ASSUME Types, Stores, [Next]_vars
  PROVE  Stores'
  <1>1. Types'
    BY TypesStep
  <1>2. ASSUME NEW w \in Workers,
               Invite(w) \/ LockAndCount(w) \/ WriteRole(w) \/ Delete(w) \/ Accept(w)
        PROVE  Stores'
    <2>1. RowsKept
      BY <1>2, MemberTypes, Basics DEF storeVars, RowsKept, Types, TypeOK
    <2>2. Quiet(w)
      BY <1>1, <1>2, <2>1, QuietSteps
    <2> QED BY <1>1, <2>1, <2>2, QuietStores
  <1>3. ASSUME NEW w \in Workers,
               BeginManage(w) \/ BeginLeave(w) \/ BeginAccept(w) \/ BeginLogin(w)
               \/ BeginRefresh(w) \/ BeginLogout(w) \/ BeginReset(w) \/ BeginChange(w)
        PROVE  Stores'
    <2>1. RowsKept
      BY <1>3, BeginTypes, Basics DEF storeVars, RowsKept, Types, TypeOK
    <2>2. Quiet(w)
      BY <1>1, <1>3, <2>1, QuietSteps
    <2> QED BY <1>1, <2>1, <2>2, QuietStores
  <1>4. ASSUME NEW w \in Workers,
               OpenSession(w) \/ Take(w) \/ Rotate(w) \/ (SetPassword(w) /\ Finish(w))
        PROVE  Stores'
    <2>1. RowsKept
      BY <1>4, SessionTypes
    <2>2. Quiet(w)
      BY <1>1, <1>4, <2>1, QuietSteps
    <2> QED BY <1>1, <2>1, <2>2, QuietStores
  <1>5. CASE UNCHANGED vars
    BY <1>5 DEF vars, storeVars, Stores, MarksInv, RevokedEverywhere, ResetInv, Opened, Ends,
                Outdated
  <1>6. ASSUME NEW w \in Workers, Revoke(w) \/ Drop(w) \/ Mark(w) \/ ListOthers(w)
        PROVE  Stores'
    BY <1>6, RevokeStores, DropStores, MarkStores, ListStores
  <1>7. ASSUME NEW w \in Workers, SetPassword(w)
        PROVE  Stores'
    <2>1. CASE Finish(w)
      BY <1>4, <1>7, <2>1
    <2>2. CASE ~Finish(w)
      BY <1>7, <2>2, PasswordStores
    <2> QED BY <2>1, <2>2
  <1>8. ASSUME NEW w \in Workers, OpenSession(w) \/ Take(w) \/ Rotate(w)
        PROVE  Stores'
    BY <1>4, <1>8
  <1> QED BY <1>2, <1>3, <1>5, <1>6, <1>7, <1>8 DEF Next

\* Postgres and Redis agree on what is revoked: however logins, refreshes,
\* revocations and logouts of any number of workers interleave, a session is
\* marked only if its row says revoked, and a row that says so is marked, or
\* is on the list of a request that is still to mark it, or Redis refused the mark.
THEOREM StoresAgree == Spec => []RevokedEverywhere
  <1>1. Spec => [](Types /\ Stores)
    BY TypesInit, TypesStep, StoresInit, StoresStep, PTL DEF Spec
  <1>2. Types /\ Stores => RevokedEverywhere
    BY DEF Stores
  <1> QED BY <1>1, <1>2, PTL

\* A reset or a change of a password ends every session whose login gave an older
\* one: while it is accepted it is on the way out by some request, or its login had
\* verified the old password and opened it under the new one, or Redis refused
\* the mark.
THEOREM ResetsShutOut == Spec => []ResetShutsOut
  <1>1. Spec => [](Types /\ Stores)
    BY TypesInit, TypesStep, StoresInit, StoresStep, PTL DEF Spec
  <1>2. Types /\ Stores => ResetShutsOut
    <2> SUFFICES ASSUME Types, Stores, NEW s \in Opened, s \notin marked \cup missed,
                        rows[s].proved \in 1 .. users[rows[s].user].secret - 1,
                        rows[s].born # users[rows[s].user].secret
                 PROVE  \E w \in Workers :
                          \/ s \in req[w].marks
                          \/ req[w].kind \in {"reset", "change"} /\ req[w].user = rows[s].user
      BY DEF ResetShutsOut
    <2>1. Outdated(s)
      BY Basics, Numbers DEF Outdated
    <2> QED BY <2>1 DEF Stores, ResetInv, Ends
  <1> QED BY <1>1, <1>2, PTL

-----------------------------------------------------------------------------
(* The last admin. *)

\* A step of w that takes no role and no account from anybody.
Steady(w) ==
    /\ \A v \in Workers \ {w} : req'[v] = req[v]
    /\ locked \ {w} \subseteq locked' /\ UNCHANGED overtaken
    /\ \/ req'[w].kind \in {"none", "refresh"} /\ req[w].kind # "leave"
       \/ /\ req'[w].kind = req[w].kind /\ req'[w].user = req[w].user
          /\ req'[w].role = req[w].role /\ req'[w].held = req[w].held
          /\ req[w].step # "lock"
          /\ Manages(req'[w]) => req'[w].step \in {"mark", "write"}
    /\ \A u \in Users : /\ users'[u].role = users[u].role
                        /\ users'[u].deleted = users[u].deleted
                        /\ users'[u].status \in {users[u].status, "active"}
                        /\ users'[u].secret # 0 => Known(u)'
    /\ \A s \in Opened' : \/ s \in Opened /\ rows'[s].user = rows[s].user
                          \/ Known(rows'[s].user)

LEMMA SteadyCompany ==
  ASSUME Types, Types', Company, NEW w \in Workers, Steady(w)
  PROVE  Company'
  <1>1. \A u \in Users : Known(u) => Known(u)'
    BY DEF Steady, Known
  <1>2. \A v \in Workers : /\ req[v].user \in Users
                           /\ req'[v].user \in Users
    BY Basics DEF Types, TypeOK, Request
  <1>3. \A s \in Opened : rows[s].user \in Users
    BY Basics
  <1>4. KnownInv'
    <2>1. \A u \in Users : (users[u].deleted \/ users[u].secret # 0 => Known(u))'
      BY <1>1 DEF Company, KnownInv, Steady
    <2>4. Opened' \subseteq Sids
      BY Numbers DEF Types, TypeOK, Opened, Sids
    <2>2. ASSUME NEW s \in Opened' PROVE Known(rows[s].user)'
      <3>1. CASE s \in Opened /\ rows'[s].user = rows[s].user
        BY <1>1, <1>3, <3>1 DEF Company, KnownInv, Known
      <3>2. CASE Known(rows'[s].user)
        <4>1. rows'[s].user \in Users
          BY <2>2, <2>4 DEF Types, TypeOK, Row
        <4> QED BY <1>1, <3>2, <4>1 DEF Known
      <3> QED BY <2>2, <3>1, <3>2 DEF Steady
    <2>3. \A v \in Workers : req'[v].kind \notin {"none", "refresh"} => Known(req[v].user)'
      BY <1>1, <1>2 DEF Company, KnownInv, Steady, Known
    <2> QED BY <2>1, <2>2, <2>3 DEF KnownInv
  <1>5. LeaveInv' /\ LockInv'
    BY DEF Company, LeaveInv, LockInv, Steady, Manages
  <1>6. AdminInv'
    <2>1. Left => Left'
      BY UsersAssumption DEF Left, Steady
    <2>2. Admins \subseteq Admins'
      BY DEF Admins, Steady
    <2>3. Doomed' \subseteq Doomed
      BY DEF Doomed, Takes, Steady
    <2> QED BY <2>1, <2>2, <2>3 DEF Company, AdminInv, Steady
  <1> QED BY <1>4, <1>5, <1>6 DEF Company

LEMMA SteadySteps ==
  ASSUME Types, Types', RowsKept, Company, NEW w \in Workers,
         \/ Accept(w) \/ OpenSession(w) \/ Take(w) \/ Rotate(w) \/ SetPassword(w)
         \/ Revoke(w) \/ Drop(w) \/ Mark(w) \/ ListOthers(w)
  PROVE  Steady(w)
  <1>1. req[w] \in Request /\ Job(req[w]) /\ req[w].user \in Users /\ users[req[w].user] \in User
    BY Basics
  <1>2. \A v \in Workers \ {w} : req'[v] = req[v]
    BY DEF Accept, OpenSession, Take, Rotate, SetPassword, Revoke, Drop, Mark, ListOthers,
           Finish, Become, Types, TypeOK
  <1>3. \/ req'[w].kind \in {"none", "refresh"} /\ req[w].kind # "leave"
        \/ /\ req'[w].kind = req[w].kind /\ req'[w].user = req[w].user
           /\ req'[w].role = req[w].role /\ req'[w].held = req[w].held
           /\ req[w].step # "lock"
           /\ Manages(req'[w]) => req'[w].step \in {"mark", "write"}
    <2>1. CASE Accept(w) \/ OpenSession(w) \/ Rotate(w)
      <3>1. Finish(w) /\ req[w].kind \in {"accept", "login", "refresh"}
        BY <2>1 DEF Accept, OpenSession, Rotate
      <3>2. req'[w] = Idle
        BY <3>1 DEF Finish, Become, Types, TypeOK
      <3>3. Idle.kind = "none" /\ req[w].kind # "leave"
        BY <3>1 DEF Idle
      <3> QED BY <3>2, <3>3
    <2>2. CASE Take(w)
      <3>1. req[w].kind = "refresh" /\ req[w].step = "take"
        BY <2>2 DEF Take
      <3>2. CASE Finish(w)
        <4>1. req'[w] = Idle
          BY <3>2 DEF Finish, Become, Types, TypeOK
        <4> QED BY <3>1, <4>1 DEF Idle
      <3>3. CASE Become(w, [req[w] EXCEPT !.step = "go",
                                          !.held = users[rows[req[w].sid].user].role])
        <4>1. req'[w].kind = "refresh"
          BY <1>1, <3>1, <3>3, Basics DEF Become, Types, TypeOK, Request
        <4> QED BY <3>1, <4>1
      <3> QED BY <2>2, <3>2, <3>3 DEF Take
    <2>3. CASE SetPassword(w)
      BY <1>1, <2>3 DEF SetPassword, Finish, Become, Idle, Types, TypeOK, Request, Manages
    <2>4. CASE Revoke(w) \/ Drop(w) \/ Mark(w) \/ ListOthers(w)
      <3>1. PICK r \in Request :
              /\ Become(w, Proceed(r))
              /\ r.kind = req[w].kind /\ r.user = req[w].user
              /\ r.role = req[w].role /\ r.held = req[w].held
        <4>1. CASE Revoke(w)
          <5> DEFINE r == [req[w] EXCEPT !.marks = Live(req[w].user)]
          <5>1. r \in Request
            BY <1>1 DEF Live, Opened, Request
          <5>2. /\ r.kind = req[w].kind /\ r.user = req[w].user
                /\ r.role = req[w].role /\ r.held = req[w].held
            BY <1>1 DEF Request
          <5>3. Become(w, Proceed(r))
            BY <4>1 DEF Revoke
          <5> QED BY <5>1, <5>2, <5>3
        <4>2. CASE Drop(w)
          <5>1. PICK s \in req[w].todo :
                  Become(w, Proceed([req[w] EXCEPT !.todo = @ \ {s}, !.marks = {s}]))
            BY <4>2 DEF Drop
          <5> DEFINE r == [req[w] EXCEPT !.todo = @ \ {s}, !.marks = {s}]
          <5>2. r \in Request
            BY <1>1, <5>1 DEF Request
          <5>3. /\ r.kind = req[w].kind /\ r.user = req[w].user
                /\ r.role = req[w].role /\ r.held = req[w].held
            BY <1>1 DEF Request
          <5> QED BY <5>1, <5>2, <5>3
        <4>3. CASE Mark(w)
          <5>1. PICK s \in req[w].marks : Become(w, Proceed([req[w] EXCEPT !.marks = @ \ {s}]))
            BY <4>3 DEF Mark
          <5> QED BY <1>1, <5>1 DEF Request
        <4>4. CASE ListOthers(w)
          <5> DEFINE r == [req[w] EXCEPT !.todo = Live(req[w].user) \ {req[w].sid}]
          <5>1. r \in Request
            BY <1>1 DEF Live, Opened, Request
          <5>2. /\ r.kind = req[w].kind /\ r.user = req[w].user
                /\ r.role = req[w].role /\ r.held = req[w].held
            BY <1>1 DEF Request
          <5> QED BY <4>4, <5>1, <5>2 DEF ListOthers
        <4> QED BY <2>4, <4>1, <4>2, <4>3, <4>4
      <3>2. req[w].step # "lock"
        BY <2>4 DEF Revoke, Drop, Mark, ListOthers
      <3>3. \/ Proceed(r).kind = "none" /\ r.kind # "leave"
            \/ /\ Proceed(r).kind = r.kind /\ Proceed(r).user = r.user
               /\ Proceed(r).role = r.role /\ Proceed(r).held = r.held
               /\ Manages(r) => Proceed(r).step \in {"mark", "write"}
        BY ProceedIs DEF Request, Idle, Manages
      <3>4. req'[w] = Proceed(r)
        BY <3>1 DEF Become, Types, TypeOK
      <3> QED BY <3>1, <3>2, <3>3, <3>4 DEF Manages
    <2> QED BY <2>1, <2>2, <2>3, <2>4
  <1>4. ASSUME NEW u \in Users
        PROVE  /\ users'[u].role = users[u].role
               /\ users'[u].deleted = users[u].deleted
               /\ users'[u].status \in {users[u].status, "active"}
               /\ users'[u].secret # 0 => Known(u)'
    <2>1. users[u].secret # 0 => Known(u)
      BY DEF Company, KnownInv
    <2>2. CASE UNCHANGED users
      BY <2>1, <2>2 DEF Known
    <2>3. CASE Accept(w)
      BY <1>1, <2>1, <2>3, Basics DEF Accept, Types, TypeOK, User, Known
    <2>4. CASE SetPassword(w) /\ ~UNCHANGED users
      <3>1. users' = [users EXCEPT ![req[w].user].secret = @ + 1]
        BY <2>4 DEF SetPassword
      <3>2. Known(req[w].user)
        BY <2>4 DEF Company, KnownInv, SetPassword
      <3> QED BY <1>1, <2>1, <3>1, <3>2, Basics DEF Types, TypeOK, User, Known
    <2> QED BY <2>2, <2>3, <2>4
            DEF OpenSession, Take, Rotate, Revoke, Drop, Mark, ListOthers
  <1>5. ASSUME NEW s \in Opened'
        PROVE  (s \in Opened /\ rows'[s].user = rows[s].user) \/ Known(rows'[s].user)
    <2>1. CASE s \in Opened
      BY <2>1 DEF RowsKept
    <2>2. CASE s \notin Opened
      <3>1. OpenSession(w) /\ nRows' = nRows + 1
        BY <2>2 DEF Opened, Accept, OpenSession, Take, Rotate, SetPassword, Revoke, Drop, Mark,
                    ListOthers, storeVars
      <3>2. s = nRows + 1 /\ s \in Sids
        BY <2>2, <3>1, Basics, Numbers DEF Opened, Sids, Types, TypeOK
      <3>3. rows'[s].user = req[w].user
        BY <3>1, <3>2, Basics DEF OpenSession, storeVars, Types, TypeOK
      <3>4. Known(req[w].user)
        BY <3>1 DEF OpenSession, Company, KnownInv
      <3> QED BY <3>3, <3>4
    <2> QED BY <2>1, <2>2
  <1>6. locked \ {w} \subseteq locked' /\ UNCHANGED overtaken
    BY DEF Accept, OpenSession, Take, Rotate, SetPassword, Revoke, Drop, Mark, ListOthers
  <1> QED BY <1>2, <1>3, <1>4, <1>5, <1>6 DEF Steady

\* A request that begins takes nothing from anybody, and has yet to count.
LEMMA BeginCompany ==
  ASSUME Types, Types', Company, NEW w \in Workers, 
         UNCHANGED <<users, rows, nRows, locked, overtaken>>, req[w].kind = "none", NEW r \in Request, Become(w, r), Fresh(r)
  PROVE  Company'
  <1>1. req'[w] = r /\ \A v \in Workers \ {w} : req'[v] = req[v]
    BY DEF Become, Types, TypeOK
  <1>2. Known(r.user) \/ r.kind = "refresh"
    <2>1. r.user \in Users
      BY DEF Request
    <2> QED BY <2>1 DEF Fresh, Company, KnownInv
  <1>3. KnownInv'
    <2>1. \A v \in Workers : req'[v].kind \notin {"none", "refresh"} => Known(req[v].user)'
      BY <1>1, <1>2 DEF Company, KnownInv, Known
    <2> QED BY <2>1 DEF Company, KnownInv, Known, Opened
  <1>4. LeaveInv' /\ LockInv'
    BY <1>1 DEF Company, LeaveInv, LockInv, Fresh
  <1>5. AdminInv'
    <2>1. Left => Left'
      BY <1>1 DEF Left
    <2>2. Admins' = Admins /\ Doomed' \subseteq Doomed
      BY <1>1 DEF Admins, Doomed, Takes, Fresh, Manages
    <2> QED BY <2>1, <2>2 DEF Company, AdminInv
  <1> QED BY <1>3, <1>4, <1>5 DEF Company

\* Whoever is invited was nobody's to count, to manage or to delete.
LEMMA InviteCompany ==
  ASSUME Types, Company, NEW w \in Workers, Invite(w)
  PROVE  Company'
  <1>1. UNCHANGED <<rows, nRows, req, locked, overtaken>>
    BY DEF Invite, storeVars
  <1>2. PICK u \in Users, x \in Roles :
          /\ ~Known(u)
          /\ users' = [users EXCEPT ![u] = [NoUser EXCEPT !.role = x, !.status = "pending"]]
    BY DEF Invite
  <1>3. users[u].status = "none" /\ ~users[u].deleted
    BY <1>2 DEF Company, KnownInv, Known
  <1>4. /\ users'[u].status = "pending" /\ users'[u].secret = 0 /\ ~users'[u].deleted
        /\ \A v \in Users \ {u} : users'[v] = users[v]
    BY <1>2 DEF NoUser, Types, TypeOK
  <1>5. \A v \in Users : Known(v) => Known(v)' /\ v # u
    BY <1>2, <1>4 DEF Known
  <1>6. \A v \in Workers : req[v].user \in Users
    BY Basics
  <1>7. KnownInv'
    <2>1. \A v \in Users : (users[v].deleted \/ users[v].secret # 0 => Known(v))'
      BY <1>4, <1>5 DEF Company, KnownInv
    <2>2. \A s \in Opened : Known(rows[s].user)'
      BY <1>1, <1>5, Basics DEF Company, KnownInv, Known
    <2>3. \A v \in Workers : req'[v].kind \notin {"none", "refresh"} => Known(req[v].user)'
      BY <1>1, <1>5, <1>6 DEF Company, KnownInv, Known
    <2> QED BY <1>1, <2>1, <2>2, <2>3 DEF KnownInv, Opened
  <1>8. LeaveInv' /\ LockInv'
    BY <1>1 DEF Company, LeaveInv, LockInv
  <1>9. AdminInv'
    <2>1. Left => Left'
      BY <1>1, <1>3, <1>4, UsersAssumption DEF Left
    <2>2. Admins \subseteq Admins'
      BY <1>3, <1>4 DEF Admins
    <2>3. Doomed' = Doomed
      BY <1>1 DEF Doomed
    <2> QED BY <1>1, <2>1, <2>2, <2>3 DEF Company, AdminInv
  <1> QED BY <1>7, <1>8, <1>9 DEF Company

\* Whoever is counted and not being taken remains; where nobody is, the request
\* overtakes.
LEMMA CountCompany ==
  ASSUME Types, Company, NEW w \in Workers, LockAndCount(w)
  PROVE  Company'
  <1> DEFINE t == req[w].user
  <1>1. UNCHANGED <<users, rows, nRows>> /\ locked = {} /\ req[w].step = "lock"
    BY DEF LockAndCount, storeVars
  <1>2. req[w] \in Request /\ Manages(req[w]) /\ req[w].kind \notin {"none", "leave"}
    BY Basics DEF LockAndCount, Job, Manages
  <1>3. \/ /\ req' = [req EXCEPT ![w] = Idle]
           /\ UNCHANGED <<locked, overtaken>>
        \/ /\ req' = [req EXCEPT ![w] = [req[w] EXCEPT !.step = "revoke"]]
           /\ locked' = {w}
           /\ overtaken' = (overtaken \/ Overtakes(req[w]))
           /\ Takes(req[w]) /\ req[w].held = "admin" => OtherAdmins(t) # {}
    BY DEF LockAndCount, Finish, Become
  <1>4. \A v \in Workers \ {w} : req'[v] = req[v]
    BY <1>3 DEF Types, TypeOK
  <1>5. \/ req'[w].kind = "none" /\ UNCHANGED <<locked, overtaken>>
        \/ /\ req'[w].kind = req[w].kind /\ req'[w].user = t
           /\ req'[w].role = req[w].role /\ req'[w].held = req[w].held
           /\ req'[w].step = "revoke" /\ locked' = {w}
           /\ overtaken' = (overtaken \/ Overtakes(req[w]))
           /\ Takes(req[w]) /\ req[w].held = "admin" => OtherAdmins(t) # {}
    <2>1. CASE req' = [req EXCEPT ![w] = Idle] /\ UNCHANGED <<locked, overtaken>>
      <3>1. req'[w] = Idle
        BY <2>1 DEF Types, TypeOK
      <3> QED BY <2>1, <3>1 DEF Idle
    <2>2. CASE req' = [req EXCEPT ![w] = [req[w] EXCEPT !.step = "revoke"]] /\ locked' = {w}
               /\ overtaken' = (overtaken \/ Overtakes(req[w]))
               /\ (Takes(req[w]) /\ req[w].held = "admin" => OtherAdmins(t) # {})
      <3>1. req'[w] = [req[w] EXCEPT !.step = "revoke"]
        BY <2>2 DEF Types, TypeOK
      <3> QED BY <1>2, <2>2, <3>1 DEF Request
    <2> QED BY <1>3, <2>1, <2>2
  <1>6. KnownInv'
    <2>1. \A v \in Workers : req'[v].kind \notin {"none", "refresh"} => Known(req[v].user)'
      BY <1>1, <1>2, <1>4, <1>5 DEF Company, KnownInv, Known, Manages
    <2> QED BY <1>1, <2>1 DEF Company, KnownInv, Known, Opened
  <1>7. LeaveInv' /\ LockInv'
    BY <1>1, <1>2, <1>4, <1>5 DEF Company, LeaveInv, LockInv, Manages
  <1>8. AdminInv'
    <2>1. Left => Left'
      BY <1>1, <1>2, <1>4 DEF Left
    <2>2. Admins' = Admins
      BY <1>1 DEF Admins
    <2>3. Doomed \subseteq Going
      <3>1. ASSUME NEW v \in Workers, Takes(req[v]), req[v].step # "lock"
            PROVE  req[v].step \in {"mark", "write"}
        BY <1>1, <3>1 DEF Company, LockInv, Manages, Takes
      <3> QED BY <3>1 DEF Doomed, Going
    <2>4. CASE req'[w].kind = "none" /\ UNCHANGED <<locked, overtaken>>
      <3>1. Doomed' \subseteq Doomed
        BY <1>4, <2>4 DEF Doomed, Takes
      <3> QED BY <2>1, <2>2, <2>4, <3>1 DEF Company, AdminInv
    <2>5. CASE /\ req'[w].user = t /\ req'[w].kind = req[w].kind
               /\ req'[w].role = req[w].role /\ req'[w].held = req[w].held
               /\ overtaken' = (overtaken \/ Overtakes(req[w]))
               /\ Takes(req[w]) /\ req[w].held = "admin" => OtherAdmins(t) # {}
      <3>1. CASE ~Takes(req[w])
        <4>1. Doomed' \subseteq Doomed
          BY <1>4, <2>5, <3>1 DEF Doomed, Takes
        <4> QED BY <2>1, <2>2, <2>5, <4>1 DEF Company, AdminInv
      <3>2. CASE Takes(req[w])
        <4>1. Doomed' \subseteq Doomed \cup {t}
          BY <1>4, <2>5 DEF Doomed, Takes
        <4>2. CASE t \notin Admins
          BY <2>1, <2>2, <2>5, <4>1, <4>2 DEF Company, AdminInv
        <4>3. CASE t \in Admins /\ Overtakes(req[w])
          BY <2>5, <4>3 DEF AdminInv
        <4>4. CASE t \in Admins /\ ~Overtakes(req[w])
          <5>1. \E u \in Admins \ {t} : u \notin Going
            BY <2>5, <3>2, <4>4 DEF Overtakes, OtherAdmins
          <5> QED BY <2>2, <2>3, <4>1, <5>1 DEF AdminInv
        <4> QED BY <4>2, <4>3, <4>4
      <3> QED BY <3>1, <3>2
    <2> QED BY <1>5, <2>4, <2>5
  <1> QED BY <1>6, <1>7, <1>8 DEF Company

\* What a request that managed or left does to its user.
LEMMA WriteCompany ==
  ASSUME Types, Company, NEW w \in Workers, WriteRole(w) \/ Delete(w)
  PROVE  Company'
  <1>1. UNCHANGED <<rows, nRows, locked, overtaken>> /\ Finish(w) /\ req[w].step = "write"
        /\ req[w].kind \in {"role", "remove", "leave"}
    BY DEF WriteRole, Delete, storeVars
  <1>2. req'[w].kind = "none" /\ \A v \in Workers \ {w} : req'[v] = req[v]
    <2>1. req'[w] = Idle /\ \A v \in Workers \ {w} : req'[v] = req[v]
      BY <1>1 DEF Finish, Become, Types, TypeOK
    <2> QED BY <2>1 DEF Idle
  <1> DEFINE t == req[w].user
  <1>3. t \in Users /\ Known(t) /\ \A v \in Workers : req[v].user \in Users
    BY <1>1, Basics DEF Company, KnownInv
  <1>4. /\ \A u \in Users \ {t} : users'[u] = users[u]
        /\ users'[t].status = users[t].status
        /\ \/ /\ WriteRole(w) /\ users'[t].deleted = users[t].deleted
              /\ users'[t].role = Written(req[w].held, req[w].role, users[t].role)
           \/ Delete(w) /\ users'[t].deleted /\ users'[t].role = users[t].role
    <2>1. users[t] \in User
      BY <1>3, Basics
    <2>2. CASE WriteRole(w)
      <3>1. users' = [users EXCEPT ![t].role = Written(req[w].held, req[w].role, @)]
        BY <2>2 DEF WriteRole
      <3> QED BY <1>3, <2>1, <2>2, <3>1 DEF Types, TypeOK, User
    <2>3. CASE Delete(w)
      <3>1. users' = [users EXCEPT ![t].deleted = TRUE,
                                   ![t].secret = Written(req[w].secret, 0, @)]
        BY <2>3 DEF Delete
      <3> QED BY <1>3, <2>1, <2>3, <3>1 DEF Types, TypeOK, User
    <2> QED BY <2>2, <2>3
  <1>5. \A u \in Users : Known(u) => Known(u)'
    BY <1>4 DEF Known
  <1>6. \A u \in Users : ~Known(u) => u # t
    BY <1>3
  <1>7. KnownInv'
    <2>1. \A u \in Users : (users[u].deleted \/ users[u].secret # 0 => Known(u))'
      BY <1>3, <1>4, <1>5 DEF Company, KnownInv
    <2>2. \A s \in Opened : Known(rows[s].user)'
      BY <1>1, <1>5, Basics DEF Company, KnownInv, Known
    <2>3. \A v \in Workers : req'[v].kind \notin {"none", "refresh"} => Known(req[v].user)'
      BY <1>2, <1>3, <1>5 DEF Company, KnownInv, Known
    <2> QED BY <1>1, <2>1, <2>2, <2>3 DEF KnownInv, Opened
  <1>8. LeaveInv' /\ LockInv'
    BY <1>1, <1>2 DEF Company, LeaveInv, LockInv, Manages
  <1>9. AdminInv'
    <2>1. CASE req[w].kind = "leave"
      <3>1. t \in Leavers /\ users'[t].deleted
        BY <1>4, <2>1 DEF Company, LeaveInv, WriteRole
      <3> QED BY <3>1 DEF AdminInv, Left
    <2>2. CASE req[w].kind # "leave"
      <3>1. Left => Left'
        <4>1. \A u \in Users : users[u].deleted => users'[u].deleted
          BY <1>4
        <4> QED BY <1>2, <2>2, <4>1, UsersAssumption DEF Left
      <3>2. Doomed' \subseteq Doomed
        BY <1>2 DEF Doomed, Takes
      <3>3. CASE Takes(req[w])
        <4>1. t \in Doomed
          BY <1>1, <3>3 DEF Doomed
        <4>2. Admins \ {t} \subseteq Admins'
          BY <1>4 DEF Admins
        <4> QED BY <1>1, <3>1, <3>2, <4>1, <4>2 DEF Company, AdminInv
      <3>4. CASE ~Takes(req[w])
        <4>1. /\ req[w].held \in {"admin", "user"} /\ req[w].role \in {"admin", "user"}
              /\ WriteRole(w) /\ req[w].kind = "role"
          BY <1>1, <2>2, <3>4, Basics DEF Takes, Request, Roles, Delete
        <4>2. users[t].role = "admin" => users'[t].role = "admin"
          BY <1>4, <3>4, <4>1 DEF Takes, Written, Delete
        <4>3. Admins \subseteq Admins'
          BY <1>3, <1>4, <4>1, <4>2 DEF Admins, Delete
        <4> QED BY <1>1, <3>1, <3>2, <4>3 DEF Company, AdminInv
      <3> QED BY <3>3, <3>4
    <2> QED BY <2>1, <2>2
  <1> QED BY <1>7, <1>8, <1>9 DEF Company

LEMMA CompanyInit == Init => Company
  <1> SUFFICES ASSUME Init PROVE Company
    OBVIOUS
  <1>1. /\ Opened = {}
        /\ \A w \in Workers : req[w] = Idle
        /\ \A u \in Users : users[u] = IF u \in Founders THEN Founder ELSE NoUser
    BY DEF Init, Opened
  <1>2. KnownInv
    BY <1>1 DEF KnownInv, Known, Idle, Founder, NoUser
  <1>3. LeaveInv /\ LockInv
    BY <1>1 DEF LeaveInv, LockInv, Manages, Idle
  <1>4. AdminInv
    <2>1. PICK u \in Users : u \in Founders
      BY UsersAssumption
    <2>2. u \in Admins
      BY <1>1, <2>1 DEF Admins, Founder
    <2>3. Doomed = {}
      BY <1>1 DEF Doomed, Takes, Idle
    <2> QED BY <2>2, <2>3 DEF AdminInv
  <1> QED BY <1>2, <1>3, <1>4 DEF Company

LEMMA CompanyStep ==
  ASSUME Types, Company, [Next]_vars
  PROVE  Company'
  <1>1. Types'
    BY TypesStep
  <1>2. ASSUME NEW w \in Workers,
               BeginManage(w) \/ BeginLeave(w) \/ BeginAccept(w) \/ BeginLogin(w)
               \/ BeginRefresh(w) \/ BeginLogout(w) \/ BeginReset(w) \/ BeginChange(w)
        PROVE  Company'
    <2>1. UNCHANGED <<users, rows, nRows, locked, overtaken>> /\ req[w].kind = "none"
      BY <1>2, BeginTypes DEF storeVars
    <2>2. PICK r \in Request : Become(w, r) /\ Fresh(r)
      BY <1>2, BeginTypes
    <2> QED BY <1>1, <2>1, <2>2, BeginCompany
  <1>3. ASSUME NEW w \in Workers, Accept(w)
        PROVE  Company'
    <2>1. RowsKept
      BY <1>3, MemberTypes, Basics DEF storeVars, RowsKept, Types, TypeOK
    <2> QED BY <1>1, <1>3, <2>1, SteadySteps, SteadyCompany
  <1>4. ASSUME NEW w \in Workers, OpenSession(w) \/ Take(w) \/ Rotate(w) \/ SetPassword(w)
        PROVE  Company'
    <2>1. RowsKept
      BY <1>4, SessionTypes
    <2> QED BY <1>1, <1>4, <2>1, SteadySteps, SteadyCompany
  <1>5. ASSUME NEW w \in Workers, Revoke(w) \/ Drop(w) \/ Mark(w) \/ ListOthers(w)
        PROVE  Company'
    <2>1. RowsKept
      BY <1>5, RevokeTypes
    <2> QED BY <1>1, <1>5, <2>1, SteadySteps, SteadyCompany
  <1>6. CASE UNCHANGED vars
    BY <1>6 DEF vars, storeVars, Company, KnownInv, LeaveInv, LockInv, AdminInv, Known, Left,
                Opened, Admins, Doomed
  <1> QED BY <1>2, <1>3, <1>4, <1>5, <1>6, InviteCompany, CountCompany, WriteCompany DEF Next

\* However many admins are served at once, the company keeps an admin who can log
\* in through every change of a role and every removal, although the lock is gone
\* before they are written: only somebody who deletes their own account can take
\* the last one away, or a request that overtook the others in the gap.
THEOREM AdminRemains == Spec => []AdminLostInTheGap
  <1>1. Types /\ Company => AdminLostInTheGap
    BY DEF Company, AdminInv, Left, HasAdmin, AdminLostInTheGap
  <1>2. Init => Types /\ Company
    BY TypesInit, CompanyInit
  <1>3. Types /\ Company /\ [Next]_vars => Types' /\ Company'
    BY TypesStep, CompanyStep
  <1> QED BY <1>1, <1>2, <1>3, PTL DEF Spec
=============================================================================
