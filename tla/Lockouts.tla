------------------------------ MODULE Lockouts ------------------------------
(***************************************************************************)
(* The counters in Redis that lock an account or an IP address out after   *)
(* too many failed tries (services/users: login_rate_limiter.py and the    *)
(* endpoints of auth_routes.py that call it).  A behaviour is about one    *)
(* bucket: a bucket shares no key with another.                            *)
(*                                                                         *)
(* The limiter's calls are synchronous in a service of one process, so no  *)
(* other request runs between two of them; a request does let others run   *)
(* while it looks its answer up, between the check and the record.  Redis  *)
(* may refuse any call, and the process may die between two.               *)
(***************************************************************************)
EXTENDS Naturals, FiniteSets

CONSTANTS Tries,      \* requests under way at a time
          Emails, Ips,
          Attempts,   \* LOGIN_MAX_ATTEMPTS
          MaxFaults   \* bound on refused calls and deaths

\* What is assumed of the constants: LOGIN_MAX_ATTEMPTS is positive, and a moment has
\* finitely many requests.
LockoutsAssumption == IsFiniteSet(Tries) /\ Attempts \in Nat \ {0} /\ MaxFaults \in Nat

\* A "form" (resend-verification, forgot-password) is counted whenever it is sent;
\* a "guess" (login, verify-email, reset-password, change-password) when it is wrong,
\* and so is a "register", whose account is the address it comes from.
Buckets == {"form", "guess", "register"}

VARIABLES bucket,
          count,    \* the value of a key, 0 when there is none
          ttl,      \* keys that have an expiry
          try,      \* what each request is about
          wrong,    \* history: tries counted against an IP since its key began
          faults

lockoutVars == <<bucket, count, ttl, try, wrong, faults>>

Keys == {"acct"} \X (Emails \cup Ips) \cup {"ip"} \X Ips
Idle == [email |-> "none", ip |-> "none"]

Account(email, ip) == <<"acct", IF bucket = "register" THEN ip ELSE email>>
Address(ip) == <<"ip", ip>>

Init ==
    /\ bucket \in Buckets
    /\ count = [k \in Keys |-> 0] /\ ttl = {}
    /\ try = [t \in Tries |-> Idle]
    /\ wrong = [i \in Ips |-> 0]
    /\ faults = 0

Fault == faults < MaxFaults /\ faults' = faults + 1

\* is_locked_out
LockedOut(email, ip) == \E k \in {Account(email, ip), Address(ip)} : count[k] >= Attempts

\* record_failed_attempt: INCR and, for a key that is new, EXPIRE, of the account and
\* then of the address; the first n of these four calls happen.
Recorded(email, ip, n) ==
    LET a == Account(email, ip) i == Address(ip) IN
    /\ count' = [count EXCEPT ![a] = IF n >= 1 THEN @ + 1 ELSE @,
                              ![i] = IF n >= 3 THEN @ + 1 ELSE @]
    /\ ttl' = ttl \cup {k \in {a, i} : count[k] = 0 /\ n >= (IF k = a THEN 2 ELSE 4)}

Record(email, ip) ==
    /\ \/ Recorded(email, ip, 4) /\ UNCHANGED faults
       \/ Fault /\ \E n \in 0..4 : Recorded(email, ip, n)
    /\ wrong' = [wrong EXCEPT ![ip] = @ + 1]
-----------------------------------------------------------------------------
\* The check passes: no counter is full, or Redis does not answer (it fails open).
Passes(email, ip) == (~LockedOut(email, ip) /\ UNCHANGED faults) \/ Fault

\* The request goes on to look its answer up.
Start(t, email, ip) ==
    /\ bucket # "form" /\ try[t] = Idle /\ Passes(email, ip)
    /\ try' = [try EXCEPT ![t] = [email |-> email, ip |-> ip]]
    /\ UNCHANGED <<bucket, count, ttl, wrong>>

\* A form is checked and counted with nothing in between.
SendForm(email, ip) ==
    /\ bucket = "form" /\ (LockedOut(email, ip) => Fault)
    /\ Record(email, ip)
    /\ UNCHANGED <<bucket, try>>

\* A wrong password, an unknown or expired token, an address that is taken.
Wrong(t) ==
    /\ try[t] # Idle
    /\ Record(try[t].email, try[t].ip)
    /\ try' = [try EXCEPT ![t] = Idle]
    /\ UNCHANGED bucket

\* Mutant: both counters are deleted.
Forgiven(email, ip) == {Account(email, ip), Address(ip)}

\* clear_failed_attempts: the counter of the account, never that of the address.
Cleared(email, ip) == {Account(email, ip)}

\* The right answer; the counter stays if Redis refuses, or if the process dies.
Right(t) ==
    /\ try[t] # Idle
    /\ LET gone == Cleared(try[t].email, try[t].ip) IN
       \/ /\ count' = [k \in Keys |-> IF k \in gone THEN 0 ELSE count[k]]
          /\ ttl' = ttl \ gone
          /\ UNCHANGED faults
       \/ Fault /\ UNCHANGED <<count, ttl>>
    /\ try' = [try EXCEPT ![t] = Idle]
    /\ UNCHANGED <<bucket, wrong>>

\* LOGIN_LOCKOUT_SECONDS after the expiry was set, Redis drops the key.
Expire(k) ==
    /\ k \in ttl
    /\ ttl' = ttl \ {k}
    /\ count' = [count EXCEPT ![k] = 0]
    /\ wrong' = IF k[1] = "ip" THEN [wrong EXCEPT ![k[2]] = 0] ELSE wrong
    /\ UNCHANGED <<bucket, try, faults>>
-----------------------------------------------------------------------------
Next ==
    \/ \E t \in Tries, e \in Emails, i \in Ips : Start(t, e, i)
    \/ \E e \in Emails, i \in Ips : SendForm(e, i)
    \/ \E t \in Tries : Wrong(t)
    \/ \E t \in Tries : Right(t)
    \/ \E k \in Keys : Expire(k)

Spec == Init /\ [][Next]_lockoutVars
-----------------------------------------------------------------------------
\* Counters are natural numbers, and only keys that exist expire.
TypeOK ==
    /\ bucket \in Buckets
    /\ count \in [Keys -> Nat] /\ \A k \in ttl : k \in Keys /\ count[k] > 0
    /\ try \in [Tries -> [email : Emails \cup {"none"}, ip : Ips \cup {"none"}]]
    /\ wrong \in [Ips -> Nat] /\ faults \in 0..MaxFaults

\* However requests overlap, and whatever succeeds in between (the counter of the
\* address survives a success, to protect the other accounts), one address gets at most
\* LOGIN_MAX_ATTEMPTS wrong tries before its window elapses, and beyond them only those
\* that had passed the check already.
TriesBounded ==
    faults = 0 => \A i \in Ips :
        wrong[i] =< Attempts + (IF bucket = "form" THEN 0 ELSE Cardinality(Tries) - 1)

\* A lockout ends: unless a call to Redis failed, every counter has an expiry.
LockoutsEnd == faults = 0 => \A k \in Keys : count[k] > 0 => k \in ttl

\* openspec auth-hardening: the system rejects further attempts "until the lockout window
\* elapses"; so there is a window.  Not so when the process dies between INCR and EXPIRE.
EveryLockoutEnds == \A k \in Keys : count[k] >= Attempts => k \in ttl
=============================================================================
