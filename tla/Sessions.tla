------------------------------ MODULE Sessions ------------------------------
(***************************************************************************)
(* The admin app's sessions (admin/auth.py, admin/settings.py and the      *)
(* handlers of admin/api.py and admin/server.py).  A session is a signed   *)
(* cookie: nothing is stored of it but, once logged out, its id in         *)
(* revoked-sessions.json.  Each request reads the signing key once, at its *)
(* start, and what it needs else later; other admin processes and          *)
(* set-password change the files in between.                               *)
(***************************************************************************)
EXTENDS Naturals, FiniteSets

CONSTANTS
    Requests,       \* requests that may be under way at a time, in any admin process
    MaxSessions,    \* logins that succeed
    MaxResets,      \* runs of set-password
    MaxRevoked,     \* entries of revoked-sessions.json (4096 in the code)
    TTL,            \* lifetime of a session
    MaxTime,
    None

\* Assumed of the constants; the module of a run asserts it of its instances.
SessionsAssumption ==
    {MaxSessions, MaxResets, MaxRevoked, TTL, MaxTime} \subseteq Nat /\ MaxRevoked > 0 /\ None \notin Requests

VARIABLES
    now,
    secret,     \* the generation of the signing key
    password,   \* the generation of the password hash
    sessions,   \* the cookies that have been handed out, by id
    revoked,    \* revoked-sessions.json: the ids in it
    lock,       \* the flock of revoked-sessions.lock
    req,        \* per request: its kind, where it is, the key and the cookie it has
    reset,      \* set-password between its two files
    closed,     \* ghost: the sessions whose logout has been answered
    past,       \* ghost: the passwords that a completed set-password has replaced
    wrong,      \* ghost: requests that were let in and should not have been, by their key
    resets, serial

vars == <<now, secret, password, sessions, revoked, lock, req, reset, closed, past, wrong, resets, serial>>

Idle == [kind |-> "none", pc |-> "idle", key |-> 0, id |-> 0, closed |-> {}, past |-> {}]

Init ==
    /\ now = 0 /\ secret = 1 /\ password = 1
    /\ sessions = {} /\ revoked = {} /\ lock = None
    /\ req = [r \in Requests |-> Idle]
    /\ reset = FALSE
    /\ closed = {} /\ past = {} /\ wrong = {}
    /\ resets = 0 /\ serial = 1

Session(id) == CHOOSE s \in sessions : s.id = id
Go(r, pc) == req' = [req EXCEPT ![r].pc = pc]
Done(r) == req' = [req EXCEPT ![r] = Idle]

\* verify_session: the signature, the expiry and the list.
Valid(id, key) ==
    LET s == Session(id) IN s.key = key /\ s.exp >= now /\ id \notin revoked

-----------------------------------------------------------------------------

\* The middleware session_generation: one look at the key per request.
Arrive(r, kind, id) ==
    /\ req[r].pc = "idle"
    /\ req' = [req EXCEPT ![r] = [kind |-> kind, pc |-> kind, key |-> secret, id |-> id,
                                  closed |-> closed, past |-> past]]
    /\ UNCHANGED <<now, secret, password, sessions, revoked, lock, reset, closed, past, wrong, resets, serial>>

\* login, from the body on: the password is the current one, the key is the request's.
Login(r) ==
    /\ req[r].pc = "login" /\ Cardinality(sessions) < MaxSessions
    /\ sessions' = sessions \cup {[id |-> Cardinality(sessions) + 1, key |-> req[r].key,
                                   exp |-> now + TTL, pw |-> password]}
    /\ Done(r)
    /\ UNCHANGED <<now, secret, password, revoked, lock, reset, closed, past, wrong, resets, serial>>

\* require_user and current_user.
Authenticate(r) ==
    /\ req[r].pc \in {"use", "logout"}
    /\ LET ok == Valid(req[r].id, req[r].key) IN
       /\ wrong' = IF ok /\ (req[r].id \in req[r].closed \/ Session(req[r].id).pw \in req[r].past)
                   THEN wrong \cup {IF req[r].key = secret THEN "current key" ELSE "old key"} ELSE wrong
       /\ IF ok /\ req[r].kind = "logout" THEN Go(r, "lock") ELSE Done(r)
    /\ UNCHANGED <<now, secret, password, sessions, revoked, lock, reset, closed, past, resets, serial>>

\* Mutant: the list is read without the lock, and written with it.
RevokeLockNot(r) ==
    /\ req[r].pc = "lock"
    /\ req' = [req EXCEPT ![r].pc = "write", ![r].past = {i \in revoked : Session(i).exp >= now} \cup {req[r].id}]
    /\ UNCHANGED <<now, secret, password, sessions, revoked, lock, reset, closed, past, wrong, resets, serial>>

\* revoke_session, under the flock: expired entries are dropped; a full list is emptied and
\* the key replaced.  The list to be written is kept in the request's field past.
RevokeLock(r) ==
    /\ req[r].pc = "lock" /\ lock = None
    /\ LET kept == {i \in revoked : Session(i).exp >= now} IN
       IF ~Valid(req[r].id, req[r].key)
       THEN /\ Done(r) /\ UNCHANGED lock
            /\ closed' = closed \cup {req[r].id}
       ELSE /\ lock' = r /\ UNCHANGED closed
            /\ IF Cardinality(kept) >= MaxRevoked
               THEN req' = [req EXCEPT ![r].pc = "rotate", ![r].past = {}]
               ELSE req' = [req EXCEPT ![r].pc = "write", ![r].past = kept \cup {req[r].id}]
    /\ UNCHANGED <<now, secret, password, sessions, revoked, reset, past, wrong, resets, serial>>

\* Mutant: the list is emptied, the key stays.
RevokeRotateNot(r) ==
    /\ req[r].pc = "rotate"
    /\ Go(r, "write")
    /\ UNCHANGED <<now, secret, password, sessions, revoked, lock, reset, closed, past, wrong, resets, serial>>

RevokeRotate(r) ==
    /\ req[r].pc = "rotate"
    /\ secret' = serial + 1 /\ serial' = serial + 1
    /\ Go(r, "write")
    /\ UNCHANGED <<now, password, sessions, revoked, lock, reset, closed, past, wrong, resets>>

RevokeWrite(r) ==
    /\ req[r].pc = "write"
    /\ revoked' = req[r].past
    /\ lock' = None
    /\ closed' = closed \cup {req[r].id}
    /\ Done(r)
    /\ UNCHANGED <<now, secret, password, sessions, reset, past, wrong, resets, serial>>

-----------------------------------------------------------------------------
(* python3 -m admin set-password: the hash, then the key *)

WriteHash ==
    /\ ~reset /\ resets < MaxResets
    /\ resets' = resets + 1 /\ reset' = TRUE
    /\ password' = password + 1
    /\ UNCHANGED <<now, secret, sessions, revoked, lock, req, closed, past, wrong, serial>>

RotateSecret ==
    /\ reset /\ reset' = FALSE
    /\ secret' = serial + 1 /\ serial' = serial + 1
    /\ past' = 1 .. password - 1
    /\ UNCHANGED <<now, password, sessions, revoked, lock, req, closed, wrong, resets>>

\* The command dies between its two files: the old sessions stay, as its operator can tell
\* from the message that did not come.
ResetDies ==
    /\ reset /\ reset' = FALSE
    /\ UNCHANGED <<now, secret, password, sessions, revoked, lock, req, closed, past, wrong, resets, serial>>

\* An admin process dies: its requests end and its lock is free.
Crash(r) ==
    /\ req[r].pc \in {"lock", "rotate", "write"}
    /\ lock' = IF lock = r THEN None ELSE lock
    /\ Done(r)
    /\ UNCHANGED <<now, secret, password, sessions, revoked, reset, closed, past, wrong, resets, serial>>

Tick ==
    /\ now < MaxTime /\ now' = now + 1
    /\ UNCHANGED <<secret, password, sessions, revoked, lock, req, reset, closed, past, wrong, resets, serial>>

Next ==
    \/ \E r \in Requests :
          \/ Arrive(r, "login", 0)
          \/ \E s \in sessions : Arrive(r, "use", s.id) \/ Arrive(r, "logout", s.id)
          \/ Login(r) \/ Authenticate(r) \/ RevokeLock(r) \/ RevokeRotate(r) \/ RevokeWrite(r) \/ Crash(r)
    \/ WriteHash \/ RotateSecret \/ ResetDies
    \/ Tick

Spec == Init /\ [][Next]_vars

-----------------------------------------------------------------------------
(* Properties *)

\* The type of every variable; the list is never longer than its bound, and is only
\* replaced by the holder of its lock.
TypeOK ==
    /\ now \in 0 .. MaxTime /\ secret \in 1 .. serial /\ password \in 1 .. MaxResets + 1
    /\ sessions \subseteq [id : 1 .. MaxSessions, key : 1 .. serial, exp : 0 .. MaxTime + TTL, pw : 1 .. MaxResets + 1]
    /\ revoked \subseteq 1 .. MaxSessions /\ Cardinality(revoked) <= MaxRevoked
    /\ lock \in Requests \cup {None}
    /\ \A r \in Requests : req[r].pc \in {"rotate", "write"} => lock = r

\* A session whose logout has been answered opens no later request that reads the current
\* key, nor does one that was opened with an old password once set-password has returned
\* (rotate_session_secret: "invalidating every existing signed session ... on the next
\* request"): through logouts at once in several processes, a full list, expiry, and logins
\* that straddle the change.
ClosedOnNextRequest == "current key" \notin wrong

\* The inductive invariant behind both: a session that was logged out, or opened with a
\* replaced password, has an old key, has expired or is in the list; the holder of the lock
\* knows every such session, because nobody else logs one out, and a new key makes all of them
\* old.
Shut(id, list) == Session(id).key = secret /\ Session(id).exp >= now => id \in list

ReqInv(r) ==
    LET q == req[r] IN
    /\ q.pc = "idle" => q = Idle
    /\ q.pc # "idle" => q.kind \in {"login", "use", "logout"} /\ q.key \in 1 .. serial
    /\ q.pc \in {"login", "use"} => q.kind = q.pc
    /\ q.pc \in {"logout", "lock", "rotate", "write"} => q.kind = "logout"
    /\ q.pc \notin {"idle", "login"} => \E s \in sessions : s.id = q.id
    /\ q.pc \in {"use", "logout"} => q.closed \subseteq closed /\ q.past \subseteq past
    /\ q.pc \in {"lock", "rotate", "write"} => Session(q.id).key = q.key
    /\ q.pc = "rotate" => q.past = {}
    /\ q.pc = "write" =>
          /\ q.past \subseteq {s.id : s \in sessions} /\ Cardinality(q.past) <= MaxRevoked
          /\ \A id \in closed \cup {q.id} : Shut(id, q.past)

SessionsInv ==
    /\ TypeOK /\ ClosedOnNextRequest
    /\ serial \in Nat \ {0} /\ resets \in 0 .. MaxResets /\ password \in 1 .. resets + 1
    /\ IsFiniteSet(sessions) /\ Cardinality(sessions) <= MaxSessions
    /\ \A s \in sessions : s.id <= Cardinality(sessions)
    /\ \A s, t \in sessions : s.id = t.id => s = t
    /\ \A s \in sessions : s.key = secret => s.pw \notin past
    /\ past \subseteq 1 .. password - 1
    /\ closed \cup revoked \subseteq {s.id : s \in sessions}
    /\ \A id \in closed : Shut(id, revoked)
    /\ req \in [Requests -> [kind : {"none", "login", "use", "logout"},
                             pc : {"idle", "login", "use", "logout", "lock", "rotate", "write"},
                             key : Nat, id : Nat, closed : SUBSET Nat, past : SUBSET Nat]]
    /\ \A r \in Requests : ReqInv(r)

-----------------------------------------------------------------------------
(* Said of the code and not true of it (README, section 5) *)

\* "Bound state without making any revoked token valid again" (revoke_session): the same of
\* every later request.
NeverValidAgain == wrong = {}

=============================================================================
