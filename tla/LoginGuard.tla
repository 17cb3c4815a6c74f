----------------------------- MODULE LoginGuard -----------------------------
(***************************************************************************)
(* The login throttle (admin/loginguard.py) and the two handlers that      *)
(* share it.  A login asks retry_after when its headers are there and      *)
(* checks the password after an await for its body: others run in between. *)
(* Instants are even and the windows odd, since two readings of time.time  *)
(* are never exactly a window apart.                                       *)
(***************************************************************************)
EXTENDS Integers, FiniteSets, FiniteSetsExt

CONSTANTS
    Ips,
    Slots,                      \* logins under way at a time
    MaxPerIp, Lockout,          \* 5 failures, 300 seconds in the code
    GlobalMax, GlobalWindow,    \* 50 failures, 300 seconds
    MaxTime, MaxFails,
    None

\* Assumed of the constants; the module of a run asserts it of its instances.
LoginGuardAssumption ==
    /\ {MaxPerIp, Lockout, GlobalMax, GlobalWindow, MaxTime, MaxFails} \subseteq Nat
    /\ Lockout % 2 = 1 /\ GlobalWindow % 2 = 1 /\ MaxTime % 2 = 0
    /\ MaxPerIp > 0 /\ IsFiniteSet(Slots) /\ None \notin Ips

VARIABLES
    now,
    ipFails,        \* _ip_fails: failures of each address, as <<time, serial number>>
    globalFails,    \* _global_fails
    login,          \* per slot: the address whose password is awaited, or None
    tried,          \* ghost: every failed check of a password, with its address
    blocked,        \* per address: when a blocked client was told to come back, and after which failure
    serial

vars == <<now, ipFails, globalFails, login, tried, blocked, serial>>

Init ==
    /\ now = 0
    /\ ipFails = [i \in Ips |-> {}] /\ globalFails = {}
    /\ login = [s \in Slots |-> None]
    /\ tried = {}
    /\ blocked = [i \in Ips |-> None]
    /\ serial = 0

Recent(fails, window) == {f \in fails : f[1] >= now - window}
Oldest(fails) == Min({f[1] : f \in fails})

Prune ==
    /\ ipFails' = [i \in Ips |-> Recent(ipFails[i], Lockout)]
    /\ globalFails' = Recent(globalFails, GlobalWindow)

\* retry_after: until the oldest failure leaves the window.
RetryAfter(i) ==
    IF Cardinality(ipFails'[i]) >= MaxPerIp THEN Lockout - (now - Oldest(ipFails'[i]))
    ELSE IF Cardinality(globalFails') >= GlobalMax THEN GlobalWindow - (now - Oldest(globalFails'))
    ELSE 0

\* /login and /api/login, up to the await.
Arrive(s, i) ==
    /\ login[s] = None
    /\ Prune
    /\ IF RetryAfter(i) > 0
       THEN blocked' = [blocked EXCEPT ![i] = [until |-> now + RetryAfter(i), serial |-> serial]] /\ UNCHANGED login
       ELSE blocked' = [blocked EXCEPT ![i] = None] /\ login' = [login EXCEPT ![s] = i]
    /\ UNCHANGED <<now, tried, serial>>

\* Mutant: the failure counts for its address only.
FailLocal(s) ==
    /\ login[s] # None /\ serial < MaxFails
    /\ serial' = serial + 1
    /\ ipFails' = [ipFails EXCEPT ![login[s]] = @ \cup {<<now, serial'>>}]
    /\ tried' = tried \cup {<<now, serial', login[s]>>}
    /\ login' = [login EXCEPT ![s] = None]
    /\ UNCHANGED <<now, globalFails, blocked>>

\* The password is wrong: record_failure.
Fail(s) ==
    /\ login[s] # None /\ serial < MaxFails
    /\ serial' = serial + 1
    /\ LET i == login[s] f == <<now, serial'>> IN
       /\ ipFails' = [ipFails EXCEPT ![i] = @ \cup {f}]
       /\ globalFails' = globalFails \cup {f}
       /\ tried' = tried \cup {<<now, serial', i>>}
    /\ login' = [login EXCEPT ![s] = None]
    /\ UNCHANGED <<now, blocked>>

\* The password is right: record_success forgets the address's failures.
Succeed(s) ==
    /\ login[s] # None
    /\ ipFails' = [ipFails EXCEPT ![login[s]] = {}]
    /\ tried' = {f \in tried : f[3] # login[s]}
    /\ login' = [login EXCEPT ![s] = None]
    /\ UNCHANGED <<now, globalFails, blocked, serial>>

\* The client goes away before its body is there.
Abandon(s) ==
    /\ login[s] # None
    /\ login' = [login EXCEPT ![s] = None]
    /\ UNCHANGED <<now, ipFails, globalFails, tried, blocked, serial>>

Tick == now < MaxTime /\ now' = now + 2 /\ UNCHANGED <<ipFails, globalFails, login, tried, blocked, serial>>

Next ==
    \/ \E s \in Slots : (\E i \in Ips : Arrive(s, i)) \/ Fail(s) \/ Succeed(s) \/ Abandon(s)
    \/ Tick

Spec == Init /\ [][Next]_vars

-----------------------------------------------------------------------------
(* Properties *)

\* The type of every variable; what the guard remembers of an address it also counts for all,
\* unless a success has made it forget.
TypeOK ==
    /\ now \in 0 .. MaxTime /\ serial \in 0 .. MaxFails
    /\ login \in [Slots -> Ips \cup {None}]
    /\ \A i \in Ips : {f \in ipFails[i] : f[1] >= now - GlobalWindow} \subseteq globalFails

\* "trips a sliding-window lockout once too many land within the window": in every window,
\* at most MaxPerIp wrong passwords of an address that has not succeeded are tried, and one
\* more for each login that was already past the check.
PerIpBound ==
    \A i \in Ips :
        Cardinality({f \in tried : f[3] = i /\ f[1] >= now - Lockout}) <= MaxPerIp + Cardinality(Slots) - 1

\* The inductive invariant behind both: the guard remembers, of the failures still in its
\* window, each one of an address that has not succeeded since; and those of an address and
\* its logins past the check are together fewer than its limit and all logins.
Window(i) == {f \in tried : f[3] = i /\ f[1] >= now - Lockout}
Past(i) == {s \in Slots : login[s] = i}

LoginInv ==
    /\ TypeOK
    /\ now % 2 = 0
    /\ tried \subseteq Nat \X Nat \X Ips /\ IsFiniteSet(tried)
    /\ ipFails \in [Ips -> SUBSET (Nat \X Nat)] /\ globalFails \subseteq Nat \X Nat
    /\ IsFiniteSet(globalFails) /\ \A i \in Ips : IsFiniteSet(ipFails[i])
    /\ \A f \in tried : f[1] % 2 = 0 /\ f[2] <= serial
    /\ \A f \in tried, g \in tried : f[2] = g[2] => f = g
    /\ \A i \in Ips : \A f \in ipFails[i] : f[1] % 2 = 0
    /\ \A f \in globalFails : f[1] % 2 = 0
    /\ \A i \in Ips : \A f \in Window(i) : <<f[1], f[2]>> \in ipFails[i]
    /\ \A i \in Ips : Cardinality(Window(i)) + Cardinality(Past(i)) <= MaxPerIp + Cardinality(Slots) - 1

-----------------------------------------------------------------------------
(* Said of the code and not true of it (README, section 5) *)

\* retry_after: "Seconds the caller must wait before another attempt is allowed": a client
\* that comes back when it was told to is not turned away again, if nobody has failed since.
HonestWait ==
    \A i \in Ips :
       blocked[i] # None /\ blocked'[i] # None /\ blocked'[i] # blocked[i] =>
           now < blocked[i].until \/ serial > blocked[i].serial

=============================================================================
