------------------------------ MODULE MailLinks ------------------------------
(***************************************************************************)
(* Accounts, addresses and the links that are mailed to them               *)
(* (services/users: auth_routes.py, user_routes.py, user_crud.py; the      *)
(* mails leave through celery_client.py and services/worker).  An account  *)
(* has an address, perhaps another one that waits for confirmation, one    *)
(* column for the token of a verification, an invitation or a change of    *)
(* address, and one for the token of a password reset.  A request loads    *)
(* what it checks and commits later; the mail is handed over after the     *)
(* commit.  Sessions are the subject of CompanyAccounts.                   *)
(***************************************************************************)
EXTENDS Naturals, FiniteSets

CONSTANTS
  People,      \* accounts that may come to exist
  Addresses,   \* addresses that people give
  NoAddress,   \* NULL
  Tombstone,   \* deleted-<id>@deleted.invalid
  Invited,     \* people whom an admin invites
  AskAgain,    \* people for whom somebody fills in the resend form
  Workers,     \* concurrent requests
  MaxRequests, \* bound: requests
  MaxTokens    \* bound: tokens ever issued

\* What is assumed of the constants.
MailLinksAssumption ==
  /\ People # {}
  /\ NoAddress \notin Addresses /\ Tombstone \notin Addresses /\ NoAddress # Tombstone
  /\ Invited \subseteq People /\ AskAgain \subseteq People
  /\ MaxRequests \in Nat /\ MaxTokens \in Nat

Tokens == 1 .. MaxTokens
Account == [there: BOOLEAN, email: Addresses \cup {NoAddress, Tombstone},
            pending: Addresses \cup {NoAddress}, verified: BOOLEAN, password: BOOLEAN,
            token: 0 .. MaxTokens, reset: 0 .. MaxTokens, deleted: BOOLEAN]
Mails == [to: Addresses \cup {Tombstone}, page: {"verify-email", "accept-invite", "reset-password"},
          token: Tokens]
Kinds == {"none", "register", "invite", "resend", "change", "verify", "accept",
          "forgot", "reset", "erase"}

VARIABLES
  accounts,  \* the rows of users
  mails,     \* mails sent: each may be read late, again, or never (too late is never)
  req,       \* what each worker is in the middle of
  issued,    \* tokens issued so far
  begun,     \* requests begun
  proven,    \* history: who followed a link that was mailed to which address
  cut,       \* history: whose creation died between its two commits
  crossed    \* history: who got a token while another address waits than its request knows of

vars == <<accounts, mails, req, issued, begun, proven, cut, crossed>>

NoAccount == [there |-> FALSE, email |-> NoAddress, pending |-> NoAddress,
              verified |-> FALSE, password |-> FALSE, token |-> 0, reset |-> 0,
              deleted |-> FALSE]
APerson == CHOOSE p \in People : TRUE
Idle == [kind |-> "none", step |-> "idle", who |-> APerson, base |-> NoAccount,
         address |-> NoAddress]

TypeOK ==
  /\ accounts \in [People -> Account]
  /\ \A p \in People : accounts[p].there => accounts[p].email # NoAddress
  /\ mails \subseteq Mails
  /\ req \in [Workers -> [kind: Kinds, step: {"idle", "write", "token", "mail"}, who: People,
                          base: Account, address: Addresses \cup {NoAddress, Tombstone}]]
  /\ issued \in 0 .. MaxTokens /\ begun \in 0 .. MaxRequests
  /\ proven \subseteq People \X (Addresses \cup {Tombstone}) /\ cut \subseteq People
  /\ crossed \subseteq People

Init ==
  /\ accounts = [p \in People |-> NoAccount]
  /\ mails = {}
  /\ req = [w \in Workers |-> Idle]
  /\ issued = 0 /\ begun = 0 /\ proven = {} /\ cut = {} /\ crossed = {}

-----------------------------------------------------------------------------
(* What requests look up and check. *)

\* get_user_by_email
Holders(a) == {p \in People : accounts[p].there /\ accounts[p].email = a}

\* The lookup of a link: by the address or by the one that waits.
Claimants(a) == {p \in People : accounts[p].there /\ a \in {accounts[p].email, accounts[p].pending}}

\* get_user_by_verification_token: two rows are an error, as is another token.
Opens(p, mail) == Claimants(mail.to) = {p} /\ accounts[p].token = mail.token

\* The request has loaded the row of p and found nothing to object to.
Start(w, kind, p, a) ==
  /\ req[w] = Idle /\ begun < MaxRequests
  /\ begun' = begun + 1
  /\ req' = [req EXCEPT ![w] = [kind |-> kind, step |-> "write", who |-> p,
                                base |-> accounts[p], address |-> a]]
  /\ UNCHANGED <<accounts, mails, issued, proven, cut, crossed>>

\* create_user, create_invited_user: nobody has the address as his own.
BeginRegister(w, p, a) == ~accounts[p].there /\ Holders(a) = {} /\ Start(w, "register", p, a)
BeginInvite(w, p, a) ==
  p \in Invited /\ ~accounts[p].there /\ Holders(a) = {} /\ Start(w, "invite", p, a)

\* resend_verification
BeginResend(w, p) ==
  /\ p \in AskAgain /\ Holders(accounts[p].email) = {p} /\ ~accounts[p].verified
  /\ Start(w, "resend", p, accounts[p].email)

\* Mutant: an account that is not confirmed may ask for another address.
BeginChangeUnverified(w, p, a) ==
  accounts[p].there /\ Claimants(a) \subseteq {p} /\ Start(w, "change", p, a)

\* request_email_change: a confirmed account, and an address nobody else has or
\* waits for.
BeginChange(w, p, a) ==
  /\ accounts[p].there /\ accounts[p].verified
  /\ Claimants(a) \subseteq {p}
  /\ Start(w, "change", p, a)

\* verify_email: any token of the column will do, an invitation's too.
BeginVerify(w, p, mail) ==
  /\ mail.page # "reset-password"
  /\ Opens(p, mail)
  /\ Start(w, "verify", p, mail.to)

\* accept_invite_endpoint: so will it here, for an account without a password.
BeginAccept(w, p, mail) ==
  /\ mail.page # "reset-password"
  /\ Opens(p, mail) /\ ~accounts[p].password
  /\ Start(w, "accept", p, mail.to)

\* forgot_password: does nothing for an account without a password.
BeginForgot(w, p) ==
  /\ accounts[p].there /\ accounts[p].email # Tombstone /\ accounts[p].password
  /\ Start(w, "forgot", p, accounts[p].email)

\* reset_password_endpoint
BeginReset(w, p, mail) ==
  /\ mail.page = "reset-password"
  /\ Holders(mail.to) = {p} /\ accounts[p].reset = mail.token
  /\ Start(w, "reset", p, mail.to)

\* delete_my_account, remove_user_service
BeginErase(w, p) == accounts[p].there /\ ~accounts[p].deleted /\ Start(w, "erase", p, Tombstone)

-----------------------------------------------------------------------------
(* What they commit. *)

\* Only attributes that differ from what the session loaded are written.
Merge(new, base, current) ==
  [f \in DOMAIN new |-> IF new[f] # base[f] THEN new[f] ELSE current[f]]

\* Mutant: the address is replaced whether or not another one waits.
VerifiedAnyway(row) ==
  [row EXCEPT !.verified = TRUE, !.token = 0, !.pending = NoAddress, !.email = row.pending]

\* mark_email_verified: the address that waited, if there was one, takes over.
Verified(row) ==
  [row EXCEPT !.verified = TRUE, !.token = 0, !.pending = NoAddress,
              !.email = IF row.pending = NoAddress THEN row.email ELSE row.pending]

Edited(kind, row, a) ==
  CASE kind = "register" -> [row EXCEPT !.there = TRUE, !.email = a, !.password = TRUE]
    [] kind = "invite"   -> [row EXCEPT !.there = TRUE, !.email = a]
    [] kind = "resend"   -> [row EXCEPT !.token = issued + 1]
    [] kind = "change"   -> [row EXCEPT !.pending = a, !.token = issued + 1]
    [] kind = "verify"   -> Verified(row)
    [] kind = "accept"   -> [row EXCEPT !.password = TRUE, !.verified = TRUE, !.token = 0]
    [] kind = "forgot"   -> [row EXCEPT !.reset = issued + 1]
    [] kind = "reset"    -> [row EXCEPT !.password = TRUE, !.reset = 0]
    [] kind = "erase"    -> [row EXCEPT !.email = Tombstone, !.pending = NoAddress,
                                        !.password = FALSE, !.deleted = TRUE]

Issues == {"resend", "change", "forgot"}
Follows == {"verify", "accept"}

\* The unique index on users.email.
Unique(p, a) == a = Tombstone \/ Holders(a) \subseteq {p}

\* The row and the request that gives it a token differ on which address waits.
Crossing(p, row, new) == IF row.pending # new.pending THEN crossed \cup {p} ELSE crossed

\* The commit.  A row that appeared meanwhile under the same person or address
\* makes it fail, and the request with it.
Write(w) ==
  LET r == req[w]
      new == Edited(r.kind, r.base, r.address)
      row == Merge(new, r.base, accounts[r.who])
  IN
  /\ r.step = "write"
  /\ r.kind \in Issues => issued < MaxTokens
  /\ r.kind \in {"register", "invite"} => ~accounts[r.who].there
  /\ Unique(r.who, row.email)
  /\ accounts' = [accounts EXCEPT ![r.who] = row]
  /\ issued' = IF r.kind \in Issues THEN issued + 1 ELSE issued
  /\ proven' = IF r.kind \in Follows THEN proven \cup {<<r.who, r.address>>} ELSE proven
  /\ req' = [req EXCEPT ![w] =
       CASE r.kind \in Issues               -> [r EXCEPT !.step = "mail", !.base = new]
         [] r.kind \in {"register", "invite"} -> [r EXCEPT !.step = "token", !.base = new]
         [] OTHER                           -> Idle]
  /\ crossed' = IF r.kind \in {"resend", "change"} THEN Crossing(r.who, row, new) ELSE crossed
  /\ UNCHANGED <<mails, begun, cut>>

\* set_email_verification_token of a new account, in a commit of its own.
IssueToken(w) ==
  LET r == req[w]
      new == [r.base EXCEPT !.token = issued + 1]
      row == Merge(new, r.base, accounts[r.who])
  IN
  /\ r.step = "token" /\ issued < MaxTokens
  /\ issued' = issued + 1
  /\ accounts' = [accounts EXCEPT ![r.who] = row]
  /\ req' = [req EXCEPT ![w] = [r EXCEPT !.step = "mail", !.base = new]]
  /\ crossed' = Crossing(r.who, row, new)
  /\ UNCHANGED <<mails, begun, proven, cut>>

\* The page that the link in a mail leads to, and the address and the token in it; what
\* is posted with them, and where, is up to who reads the mail.
Mail(r) ==
  [to |-> r.address,
   page |-> CASE r.kind = "invite" -> "accept-invite"
              [] r.kind = "forgot" -> "reset-password"
              [] OTHER             -> "verify-email",
   token |-> IF r.kind = "forgot" THEN r.base.reset ELSE r.base.token]

\* enqueue_verification_email and its like: a broker that is down is logged.
Send(w) ==
  /\ req[w].step = "mail"
  /\ \/ mails' = mails \cup {Mail(req[w])}
     \/ UNCHANGED mails
  /\ req' = [req EXCEPT ![w] = Idle]
  /\ UNCHANGED <<accounts, issued, begun, proven, cut, crossed>>

\* An error, a bound that is used up, or the death of the worker ends a request.
GiveUp(w) ==
  /\ req[w].step \in {"write", "token"}
  /\ req' = [req EXCEPT ![w] = Idle]
  /\ cut' = IF req[w].step = "token" THEN cut \cup {req[w].who} ELSE cut
  /\ UNCHANGED <<accounts, mails, issued, begun, proven, crossed>>

-----------------------------------------------------------------------------
Ask(w, p) ==
  \/ \E a \in Addresses : BeginRegister(w, p, a) \/ BeginInvite(w, p, a) \/ BeginChange(w, p, a)
  \/ BeginResend(w, p)
  \/ BeginForgot(w, p)
  \/ BeginErase(w, p)

Follow(w, p) ==
  \E mail \in mails : BeginVerify(w, p, mail) \/ BeginAccept(w, p, mail) \/ BeginReset(w, p, mail)

Next ==
  \/ \E w \in Workers, p \in People : Ask(w, p) \/ Follow(w, p)
  \/ \E w \in Workers : Write(w) \/ IssueToken(w) \/ Send(w) \/ GiveUp(w)

Spec == Init /\ [][Next]_vars

-----------------------------------------------------------------------------
(* Properties. *)

\* Whatever else overlaps, an account is confirmed only at an address whose own mail was
\* read: a link mailed to one address never confirms another (request_email_change keeps
\* the token of a new account from being reused).  Not so of the `crossed`: a resend that
\* was loaded before the account was confirmed, or one of two changes, puts its token on
\* a row where another address waits meanwhile, and its link confirms that one.
AddressProven ==
  \A p \in People \ crossed : accounts[p].verified /\ ~accounts[p].deleted
                              => <<p, accounts[p].email>> \in proven

\* The invitation of a person who has not taken it up is still there: it is the
\* only way to a password for an account that has none (forgot_password does
\* nothing for it, and the address is taken).  Unless the worker died between
\* the commit of the row and that of its token, or somebody fills in the resend form,
\* whose mail leads to no password and whose token replaces the invitation's; or the
\* invitation's own token was posted to verify_email, which uses it up and leaves the
\* account verified, signed in, and without a password.
InvitationStands ==
  \A p \in People \ AskAgain :
    LET row == accounts[p] IN
    row.there /\ ~row.deleted /\ ~row.password /\ ~row.verified =>
      \/ row.token # 0 /\ \A mail \in mails :
                            mail.token = row.token => mail.page = "accept-invite"
      \/ p \in cut \/ \E w \in Workers : req[w].step = "token" /\ req[w].who = p

\* A link leads to one account: no address is one account's own and another's
\* to be confirmed.  Not so when requests overlap: nothing keeps the addresses that wait
\* unique.  The lookup then finds two accounts and refuses the link.
LinkFindsOneAccount == \A a \in Addresses : Cardinality(Claimants(a)) <= 1

\* An erased account shows no address, now or later.  Not so when a change of address was
\* loaded before the account was erased: it is committed over the tombstone.
ErasedStaysAnonymous ==
  \A p \in People : accounts[p].deleted =>
    accounts[p].email = Tombstone /\ accounts[p].pending = NoAddress
=============================================================================
