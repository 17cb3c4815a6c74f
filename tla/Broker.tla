------------------------------- MODULE Broker -------------------------------
(***************************************************************************)
(* The broker's request lifecycle (broker/request_lifecycle.py, gateway.py *)
(* and store.py) with everything that races it.                            *)
(*                                                                         *)
(* One process serves HTTP requests one at a time: its program counter is  *)
(* pc, its local variables are h.  Each step of it is one SQLite           *)
(* transaction, one call to the approval surface or one call to the tool;  *)
(* between two steps operators' processes (brokerctl, the admin app)       *)
(* commit their own transactions, a SIGHUP replaces the catalog, a human   *)
(* answers an approval card, the clock moves, the process dies.            *)
(***************************************************************************)
EXTENDS Integers, Sequences, FiniteSets, Policy

CONSTANTS
    Callers,        \* broker callers (rows of "callers")
    Tokens,         \* bearer tokens, issued or still to be issued
    Owner,          \* Owner[t] is the caller a token belongs to
    FirstTokens,    \* the tokens that exist initially
    Tools,          \* tool ids
    Actions,        \* [tool, op] pairs an agent may name
    Policies,       \* the policies a caller may be given
    Manifests,      \* contents a toolyard.toml may have (its generation)
    Edits,          \* what an edit may leave in a toolyard.toml (None: no file)
    Offers,         \* Offers[m] is the set of actions manifest m declares
    BadEnvelope,    \* <<m, p>>: payload p fails m's REST envelope check
    Keys,           \* idempotency keys
    Payloads,       \* canonical arguments and reason
    ReqIds,         \* ids of rows of "requests": bounds how many there are
    TTL,            \* approval_ttl, in ticks
    LockWait,       \* ticks a writer may wait for SQLite's lock
    MaxTime,        \* the clock stops here unless an approval is pending
    MaxFaults,      \* how many crashes and internal errors may happen
    None            \* Python's None

ASSUME SetsAssumption ==
    /\ Owner \in [Tokens -> Callers]
    /\ FirstTokens \subseteq Tokens
    /\ \A a \in Actions : a.tool \in Tools
    /\ Offers \in [Manifests -> SUBSET Actions]
    /\ Edits \subseteq Manifests \cup {None}

ASSUME BoundsAssumption ==
    TTL \in Nat /\ LockWait \in Nat /\ MaxTime \in Nat /\ MaxFaults \in Nat

VARIABLES
    now,        \* time.time()
    up,         \* the broker process runs
    faults,     \* crashes and internal errors so far
    revoked,    \* callers.revoked_at IS NOT NULL
    tok,        \* tokens: absent, active or revoked
    rotating,   \* tokens whose rotation has yet to revoke the others
    policy,     \* caller_policies
    disk,       \* the toolyard.toml files
    loaded,     \* the broker's catalog
    req,        \* requests: the columns written once, by reserve_action
    status,     \* requests.status
    kept,       \* requests.arguments_json and action_json are not NULL
    app,        \* approvals.status
    expires,    \* approvals.expires_at
    card,       \* the approval card as nod shows it
    decidedAt,  \* when the human answered
    effects,    \* the calls that reached the tool, as the generation sent
    told,       \* the last answer given about a request
    events,     \* the terminal request.* audit events
    pc, h,      \* the request handler
    listing,    \* callers whose pending approvals an operator will list
    work        \* requests an operator's revocation will cancel

clockVars == <<now, faults>>
authVars == <<revoked, tok, rotating, policy>>
catalogVars == <<disk, loaded>>
rowVars == <<req, status, kept, app, expires>>
nodVars == <<card, decidedAt>>
seenVars == <<effects, told, events>>
handlerVars == <<pc, h>>
operatorVars == <<listing, work>>
vars == <<clockVars, up, authVars, catalogVars, rowVars, nodVars, seenVars,
          handlerVars, operatorVars>>

-----------------------------------------------------------------------------
(* Data *)

LiveStatus == {"received", "pending_approval", "executing"}
Terminal == {"completed", "denied", "expired", "failed", "unknown",
             "result_expired", "not_found", "invalid"}
AppStatus == {"none", "pending", "approved", "rejected", "expired", "cancelled"}
CardState == {"none", "open", "approved", "rejected", "dismissed", "expired", "cancelled"}
Outcomes == {"ok", "pending_approval", "denied", "not_found", "failed", "expired",
             "unavailable", "received", "executing", "unknown", "conflict",
             "invalid", "result_expired"}

Rows == [caller : Callers, act : Actions, key : Keys \cup {None},
         pay : Payloads, gen : Manifests \cup {None}, bind : Policies]

ASSUME NoneAssumption ==
    None \notin Callers \cup Tokens \cup Actions \cup Manifests \cup Keys \cup Payloads
                \cup ReqIds \cup Rows

Locals == [kind : {"none", "submit", "poll"},
           tok : Tokens \cup {None},          \* the authenticated caller's token
           act : Actions \cup {None},
           key : Keys \cup {None},
           pay : Payloads \cup {None},
           r : ReqIds \cup {None},            \* the request being served
           gen : Manifests \cup {None},       \* tool_op, as last looked up
           t : Nat,                           \* the clock as last read
           ans : AppStatus \cup {"ok", "refused", "error"},  \* what a call returned
           todo : SUBSET ReqIds,              \* rows the sweep has yet to visit
           pend : BOOLEAN,                    \* was_pending
           reused : BOOLEAN,
           out : Outcomes \cup {"none"}]      \* the Outcome being returned

NoLocals == [kind |-> "none", tok |-> None, act |-> None, key |-> None, pay |-> None,
             r |-> None, gen |-> None, t |-> 0, ans |-> "none", todo |-> {},
             pend |-> FALSE, reused |-> FALSE, out |-> "none"]

PCs == {"idle", "sweep", "sweeping", "lookup", "reserve", "decide", "open", "create",
        "park", "lookup_allowed", "claim_received", "execute", "record", "respond",
        "authorize", "resolve", "surface", "after_poll", "lookup_approved",
        "claim_approval", "finish", "reauthorize"}

\* _outcome_from_request: the answer a stored row gives.
OutcomeOf(st) == IF st = "completed" THEN "ok" ELSE st

\* _REQUEST_TERMINAL: the audit event of an outcome, if it has one.
TerminalEvent == [ok |-> "completed", denied |-> "denied", failed |-> "failed",
                  unavailable |-> "failed", expired |-> "expired", unknown |-> "unknown"]

\* A clock value read before BEGIN IMMEDIATE, which may wait for the lock.
RecentClock == {n \in (now - LockWait) .. now : n >= 0}

-----------------------------------------------------------------------------
(* Reads *)

ActiveTokens(c) == {t \in Tokens : Owner[t] = c /\ tok[t] = "active"}

\* Store._live with the authenticated caller, and caller_by_token_hash.
Live(t) == tok[t] = "active" /\ ~revoked[Owner[t]]

\* What finish_pending asks of a caller: neither revoked nor tokenless.
Reachable(c) == ~revoked[c] /\ ActiveTokens(c) # {}

\* Registry.lookup: the loaded entry, if its file is still the one that was loaded.
Lookup(a) ==
    IF loaded[a.tool] # None /\ a \in Offers[loaded[a.tool]] /\ disk[a.tool] = loaded[a.tool]
    THEN loaded[a.tool]
    ELSE None

DecideFor(c, a) == Decide(policy[c], a.tool, a.op)

\* The row reserve_action finds for (caller_id, idempotency_key).
Prior(c, k) == {r \in ReqIds : k # None /\ req[r] # None /\ req[r].caller = c /\ req[r].key = k}

\* Store.authorized_request: current authority over a receipt, in one snapshot.
Authorized(t, r) ==
    /\ req[r].caller = Owner[t]
    /\ Live(t)
    /\ DecideFor(Owner[t], req[r].act) # DENY

-----------------------------------------------------------------------------
(* Writes *)

\* update_request to a terminal status also clears the private payload.
Terminate(r, st) ==
    /\ status' = [status EXCEPT ![r] = st]
    /\ kept' = [kept EXCEPT ![r] = FALSE]

\* Mutant: the row is finished without asking whether it still waits.
FinishPendingBlind(r, st, ap, deadlineOnly, n) ==
    /\ Terminate(r, IF n >= expires[r] THEN "expired" ELSE st)
    /\ app' = [app EXCEPT ![r] = ap]

\* finish_pending: the broker's deadline, then the caller's revocation, win over
\* the outcome asked for; a row that is no longer pending is left alone.
FinishPending(r, st, ap, deadlineOnly, n) ==
    IF /\ status[r] = "pending_approval"
       /\ app[r] = "pending"
       /\ deadlineOnly => expires[r] <= n
    THEN \/ /\ n >= expires[r]
            /\ Terminate(r, "expired")
            /\ app' = [app EXCEPT ![r] = "expired"]
         \/ /\ n < expires[r] /\ ~Reachable(req[r].caller)
            /\ Terminate(r, "expired")
            /\ app' = [app EXCEPT ![r] = "cancelled"]
         \/ /\ n < expires[r] /\ Reachable(req[r].caller)
            /\ Terminate(r, st)
            /\ app' = [app EXCEPT ![r] = ap]
    ELSE UNCHANGED <<status, kept, app>>

\* surface.cancel after a successful finish_pending: best effort, so it may not happen.
Withdraw(r) ==
    \/ card' = card
    \/ /\ status'[r] # status[r]
       /\ card[r] = "open"
       /\ card' = [card EXCEPT ![r] = "cancelled"]

\* _expire_approval: the one place that fails an approval closed.
ExpireApproval(r, n) ==
    /\ FinishPending(r, "expired", "expired", TRUE, n)
    /\ Withdraw(r)

At(p) == up /\ pc = p
Goto(p) == pc' = p

-----------------------------------------------------------------------------
(* POST /v1/actions/<tool>.<op>: gateway._action and request_lifecycle.submit *)

\* authenticate.  (Bound: a row id is left for the request, or its key is known.)
SubmitStart(t, a, k, p) ==
    /\ At("idle")
    /\ Live(t)
    /\ Prior(Owner[t], k) # {} \/ \E r \in ReqIds : req[r] = None
    /\ h' = [NoLocals EXCEPT !.kind = "submit", !.tok = t, !.act = a, !.key = k, !.pay = p]
    /\ Goto("sweep")
    /\ UNCHANGED <<clockVars, up, authVars, catalogVars, rowVars, nodVars, seenVars, operatorVars>>

\* sweep_expired: the worklist is read once, with the clock of that moment.
SweepList ==
    /\ At("sweep")
    /\ h' = [h EXCEPT !.t = now,
                      !.todo = {r \in ReqIds : app[r] = "pending" /\ expires[r] <= now}]
    /\ Goto("sweeping")
    /\ UNCHANGED <<clockVars, up, authVars, catalogVars, rowVars, nodVars, seenVars, operatorVars>>

SweepRow(r) ==
    /\ At("sweeping")
    /\ r \in h.todo
    /\ ExpireApproval(r, h.t)
    /\ h' = [h EXCEPT !.todo = @ \ {r}]
    /\ UNCHANGED <<clockVars, up, authVars, catalogVars, req, expires, decidedAt, seenVars, pc,
                   operatorVars>>

SweepDone ==
    /\ At("sweeping")
    /\ h.todo = {}
    /\ Goto("lookup")
    /\ UNCHANGED <<clockVars, up, authVars, catalogVars, rowVars, nodVars, seenVars, h, operatorVars>>

\* An unknown operation without a key leaves no row; with a key it is reserved first.
SubmitLookup ==
    /\ At("lookup")
    /\ LET g == Lookup(h.act) IN
        \/ /\ g = None /\ h.key = None
           /\ h' = [h EXCEPT !.out = "not_found"]
           /\ Goto("respond")
        \/ /\ g # None \/ h.key # None
           /\ h' = [h EXCEPT !.gen = g]
           /\ Goto("reserve")
    /\ UNCHANGED <<clockVars, up, authVars, catalogVars, rowVars, nodVars, seenVars, operatorVars>>

\* reserve_action raises PermissionError: authority went away, or the receipt the
\* key names is for an operation the policy now denies.
ReserveRefused ==
    /\ At("reserve")
    /\ \/ ~Live(h.tok)
       \/ \E r \in Prior(Owner[h.tok], h.key) : DecideFor(Owner[h.tok], req[r].act) = DENY
    /\ h' = [h EXCEPT !.out = "denied"]
    /\ Goto("respond")
    /\ UNCHANGED <<clockVars, up, authVars, catalogVars, rowVars, nodVars, seenVars, operatorVars>>

\* The key is taken: the old receipt as it stands, or a conflict if the payload differs.
ReserveReused ==
    /\ At("reserve")
    /\ Live(h.tok)
    /\ \E r \in Prior(Owner[h.tok], h.key) :
        /\ DecideFor(Owner[h.tok], req[r].act) # DENY
        /\ h' = [h EXCEPT !.r = r, !.reused = TRUE,
                          !.out = IF req[r].pay = h.pay /\ req[r].act = h.act
                                  THEN OutcomeOf(status[r]) ELSE "conflict"]
    /\ Goto("respond")
    /\ UNCHANGED <<clockVars, up, authVars, catalogVars, rowVars, nodVars, seenVars, operatorVars>>

\* Mutant: the key is not looked up before the row is inserted.
ReserveAnyway ==
    /\ At("reserve")
    /\ Live(h.tok)
    /\ \E r \in ReqIds :
        /\ req[r] = None
        /\ req' = [req EXCEPT ![r] = [caller |-> Owner[h.tok], act |-> h.act, key |-> h.key,
                                      pay |-> h.pay, gen |-> h.gen, bind |-> policy[Owner[h.tok]]]]
        /\ status' = [status EXCEPT ![r] = "received"]
        /\ kept' = [kept EXCEPT ![r] = TRUE]
        /\ h' = [h EXCEPT !.r = r]
    /\ Goto("decide")
    /\ UNCHANGED <<clockVars, up, authVars, catalogVars, app, expires, nodVars, seenVars, operatorVars>>

\* A new row, bound to the policy, the generation and the payload of this moment.
ReserveCreated ==
    /\ At("reserve")
    /\ Live(h.tok)
    /\ Prior(Owner[h.tok], h.key) = {}
    /\ \E r \in ReqIds :
        /\ req[r] = None
        /\ req' = [req EXCEPT ![r] = [caller |-> Owner[h.tok], act |-> h.act, key |-> h.key,
                                      pay |-> h.pay, gen |-> h.gen, bind |-> policy[Owner[h.tok]]]]
        /\ status' = [status EXCEPT ![r] = "received"]
        /\ kept' = [kept EXCEPT ![r] = TRUE]
        /\ h' = [h EXCEPT !.r = r]
    /\ Goto("decide")
    /\ UNCHANGED <<clockVars, up, authVars, catalogVars, app, expires, nodVars, seenVars, operatorVars>>

\* The checks that end a new request before it reaches a human or a tool.
SubmitEnds(st) ==
    /\ At("decide")
    /\ \/ st = "not_found" /\ h.gen = None
       \/ st = "denied" /\ h.gen # None /\ DecideFor(Owner[h.tok], h.act) = DENY
       \/ /\ st = "invalid" /\ h.gen # None /\ DecideFor(Owner[h.tok], h.act) # DENY
          /\ <<h.gen, h.pay>> \in BadEnvelope
    /\ Terminate(h.r, st)
    /\ h' = [h EXCEPT !.out = st]
    /\ Goto("respond")
    /\ UNCHANGED <<clockVars, up, authVars, catalogVars, req, app, expires, nodVars, seenVars, operatorVars>>

\* What is left is reviewed or allowed, by the policy as it is now.
SubmitDecides ==
    /\ At("decide")
    /\ h.gen # None
    /\ <<h.gen, h.pay>> \notin BadEnvelope
    /\ \/ DecideFor(Owner[h.tok], h.act) = REVIEW /\ Goto("open")
       \/ DecideFor(Owner[h.tok], h.act) = ALLOW /\ Goto("lookup_allowed")
    /\ UNCHANGED <<clockVars, up, authVars, catalogVars, rowVars, nodVars, seenVars, h, operatorVars>>

\* surface.open returns: the card is shown.
OpenCard ==
    /\ At("open")
    /\ card' = [card EXCEPT ![h.r] = "open"]
    /\ Goto("create")
    /\ UNCHANGED <<clockVars, up, authVars, catalogVars, rowVars, decidedAt, seenVars, h, operatorVars>>

\* No surface, or surface.open raises; nod may have taken the card all the same.
OpenFails ==
    /\ At("open")
    /\ card' \in {card, [card EXCEPT ![h.r] = "open"]}
    /\ Terminate(h.r, "failed")
    /\ h' = [h EXCEPT !.out = "unavailable"]
    /\ Goto("respond")
    /\ UNCHANGED <<clockVars, up, authVars, catalogVars, req, app, expires, decidedAt, seenVars, operatorVars>>

CreateApproval ==
    /\ At("create")
    /\ app' = [app EXCEPT ![h.r] = "pending"]
    /\ \E n \in RecentClock : expires' = [expires EXCEPT ![h.r] = n + TTL]
    /\ Goto("park")
    /\ UNCHANGED <<clockVars, up, authVars, catalogVars, req, status, kept, nodVars, seenVars, h, operatorVars>>

\* update_request(status="pending_approval"), whatever the row says by now.
MarkPending ==
    /\ At("park")
    /\ status' = [status EXCEPT ![h.r] = "pending_approval"]
    /\ h' = [h EXCEPT !.out = "pending_approval"]
    /\ Goto("respond")
    /\ UNCHANGED <<clockVars, up, authVars, catalogVars, req, kept, app, expires, nodVars, seenVars, operatorVars>>

LookupAgain(from, to) ==
    /\ At(from)
    /\ h' = [h EXCEPT !.gen = Lookup(req[h.r].act)]
    /\ Goto(to)
    /\ UNCHANGED <<clockVars, up, authVars, catalogVars, rowVars, nodVars, seenVars, operatorVars>>

\* Mutant: any generation will do.
StillThere(r, g) == g # None /\ kept[r]

\* The action is still the one that was bound: same generation, payload present.
StillBound(r, g) == g # None /\ req[r].gen = g /\ kept[r]

\* Mutants: the policy may have changed as long as it gives the same effect; the token
\* was checked when the request came in.
StillSameEffect(r, t, effect) == Live(t) /\ DecideFor(req[r].caller, req[r].act) = effect

StillSamePolicy(r, t, effect) ==
    /\ policy[req[r].caller] = req[r].bind
    /\ DecideFor(req[r].caller, req[r].act) = effect

\* Same caller, same policy, same effect as when the row was reserved.
StillAuthorized(r, t, effect) ==
    /\ Live(t)
    /\ policy[req[r].caller] = req[r].bind
    /\ DecideFor(req[r].caller, req[r].act) = effect

\* Mutant: a claim that is refused leaves the row as it is.
ClaimOrLeave ==
    /\ At("claim_received")
    /\ \/ /\ status[h.r] = "received" /\ StillBound(h.r, h.gen) /\ StillAuthorized(h.r, h.tok, ALLOW)
          /\ status' = [status EXCEPT ![h.r] = "executing"]
          /\ Goto("execute")
          /\ UNCHANGED h
       \/ /\ ~(StillBound(h.r, h.gen) /\ StillAuthorized(h.r, h.tok, ALLOW))
          /\ h' = [h EXCEPT !.out = "denied"]
          /\ Goto("respond")
          /\ UNCHANGED status
    /\ UNCHANGED <<clockVars, up, authVars, catalogVars, req, kept, app, expires, nodVars, seenVars, operatorVars>>

\* claim_received: the commit point of an allowed request.
ClaimReceived ==
    /\ At("claim_received")
    /\ LET valid == status[h.r] = "received" /\ StillBound(h.r, h.gen)
                        /\ StillAuthorized(h.r, h.tok, ALLOW)
       IN \/ /\ valid
             /\ status' = [status EXCEPT ![h.r] = "executing"]
             /\ Goto("execute")
             /\ UNCHANGED <<kept, h>>
          \/ /\ ~valid
             /\ IF status[h.r] = "received" THEN Terminate(h.r, "denied")
                                            ELSE UNCHANGED <<status, kept>>
             /\ h' = [h EXCEPT !.out = OutcomeOf(status'[h.r])]
             /\ Goto("respond")
    /\ UNCHANGED <<clockVars, up, authVars, catalogVars, req, app, expires, nodVars, seenVars, operatorVars>>

-----------------------------------------------------------------------------
(* execute_request: the call to the tool, and the record of what came of it *)

\* runtime.execute.  A tool that answers was called; a refused connection was not
\* (NotDispatched); any other error (a timeout, a reset, a malformed answer) leaves
\* that open.  Nothing is sent for a row that is not executing.
Dispatch ==
    /\ At("execute")
    /\ IF status[h.r] # "executing"
       THEN /\ h' = [h EXCEPT !.out = "failed"]
            /\ Goto("respond")
            /\ UNCHANGED effects
       ELSE /\ \E sent \in BOOLEAN, a \in {"ok", "refused", "error"} :
                /\ a = "ok" => sent
                /\ a = "refused" => ~sent
                /\ effects' = IF sent THEN [effects EXCEPT ![h.r] = Append(@, h.gen)] ELSE effects
                /\ h' = [h EXCEPT !.ans = a]
            /\ Goto("record")
    /\ UNCHANGED <<clockVars, up, authVars, catalogVars, rowVars, nodVars, told, events, operatorVars>>

\* Mutant: a call that may have been made is recorded as one that was not.
ResultOrFailed(a) == IF a = "ok" THEN "completed" ELSE "failed"

\* The status a finished call is recorded with.
ResultStatus(a) == CASE a = "ok" -> "completed" [] a = "refused" -> "failed" [] a = "error" -> "unknown"

RecordResult ==
    /\ At("record")
    /\ Terminate(h.r, ResultStatus(h.ans))
    /\ h' = [h EXCEPT !.out = OutcomeOf(ResultStatus(h.ans))]
    /\ Goto(IF h.kind = "poll" THEN "reauthorize" ELSE "respond")
    /\ UNCHANGED <<clockVars, up, authVars, catalogVars, req, app, expires, nodVars, seenVars, operatorVars>>

-----------------------------------------------------------------------------
(* GET /v1/requests/<id>: gateway._request_status and resolve_request *)

\* authenticate, and the first read of the row, which fixes was_pending.
PollStart(t, r) ==
    /\ At("idle")
    /\ Live(t)
    /\ req[r] # None /\ req[r].caller = Owner[t]
    /\ h' = [NoLocals EXCEPT !.kind = "poll", !.tok = t, !.r = r,
                             !.pend = (status[r] = "pending_approval")]
    /\ Goto("authorize")
    /\ UNCHANGED <<clockVars, up, authVars, catalogVars, rowVars, nodVars, seenVars, operatorVars>>

\* authorized_request, before and after resolve_request: a 403 tells nothing and
\* records nothing.
Authorize(from, to) ==
    /\ At(from)
    /\ IF Authorized(h.tok, h.r) THEN Goto(to) /\ UNCHANGED h
                                 ELSE Goto("idle") /\ h' = NoLocals
    /\ UNCHANGED <<clockVars, up, authVars, catalogVars, rowVars, nodVars, seenVars, operatorVars>>

\* The row is final, or not yet at the surface: answer as it stands.
Resolve ==
    /\ At("resolve")
    /\ \/ /\ status[h.r] # "pending_approval" \/ app[h.r] = "none"
          /\ h' = [h EXCEPT !.t = now, !.out = OutcomeOf(status[h.r])]
          /\ Goto("reauthorize")
          /\ UNCHANGED <<status, kept, app, card>>
       \/ /\ status[h.r] = "pending_approval" /\ app[h.r] # "none" /\ now >= expires[h.r]
          /\ ExpireApproval(h.r, now)
          /\ h' = [h EXCEPT !.t = now, !.out = OutcomeOf(status'[h.r])]
          /\ Goto("reauthorize")
       \/ /\ status[h.r] = "pending_approval" /\ app[h.r] # "none" /\ now < expires[h.r]
          /\ h' = [h EXCEPT !.t = now]
          /\ Goto("surface")
          /\ UNCHANGED <<status, kept, app, card>>
    /\ UNCHANGED <<clockVars, up, authVars, catalogVars, req, expires, decidedAt, seenVars, operatorVars>>

\* Mutant: nod's own name for an undecided card is passed on.
ToSame(c) == IF c = "none" THEN "expired" ELSE c

\* _to_state and the 404 of NodSurface.poll: an open card is undecided, so is one that
\* was dismissed, and a card nod does not know has expired.
ToState(c) ==
    CASE c \in {"open", "dismissed"} -> "pending"
      [] c = "none" -> "expired"
      [] OTHER -> c

\* NodSurface.poll: what the card says now; it may be out of date when it is used.
SurfacePoll ==
    /\ At("surface")
    /\ h' = [h EXCEPT !.ans = ToState(card[h.r])]
    /\ Goto("after_poll")
    /\ UNCHANGED <<clockVars, up, authVars, catalogVars, rowVars, nodVars, seenVars, operatorVars>>

\* Rows and clock are read again; a stale answer is dropped and the deadline wins.
AfterPoll ==
    /\ At("after_poll")
    /\ LET pending == status[h.r] = "pending_approval" /\ app[h.r] = "pending" IN
        \/ /\ ~pending \/ (now < expires[h.r] /\ h.ans = "pending")
           /\ h' = [h EXCEPT !.t = now, !.out = OutcomeOf(status[h.r])]
           /\ Goto("reauthorize")
           /\ UNCHANGED <<status, kept, app, card>>
        \/ /\ pending /\ now >= expires[h.r]
           /\ ExpireApproval(h.r, now)
           /\ h' = [h EXCEPT !.t = now, !.out = OutcomeOf(status'[h.r])]
           /\ Goto("reauthorize")
        \/ /\ pending /\ now < expires[h.r] /\ h.ans # "pending"
           /\ h' = [h EXCEPT !.t = now]
           /\ Goto(IF h.ans = "approved" THEN "lookup_approved" ELSE "finish")
           /\ UNCHANGED <<status, kept, app, card>>
    /\ UNCHANGED <<clockVars, up, authVars, catalogVars, req, expires, decidedAt, seenVars, operatorVars>>

\* Mutant: the answer is what was asked of finish_pending, not what the row then says.
FinishAsAsked ==
    /\ At("finish")
    /\ \E n \in {m \in RecentClock : m >= h.t} :
        FinishPending(h.r, IF h.ans = "rejected" THEN "denied" ELSE "expired", h.ans, FALSE, n)
    /\ h' = [h EXCEPT !.out = IF h.ans = "rejected" THEN "denied" ELSE "expired"]
    /\ Goto("reauthorize")
    /\ UNCHANGED <<clockVars, up, authVars, catalogVars, req, expires, nodVars, seenVars, operatorVars>>

\* A rejection denies; a card nod expired or cancelled expires the request.
FinishAnswered ==
    /\ At("finish")
    /\ \E n \in {m \in RecentClock : m >= h.t} :
        FinishPending(h.r, IF h.ans = "rejected" THEN "denied" ELSE "expired", h.ans, FALSE, n)
    /\ h' = [h EXCEPT !.out = OutcomeOf(status'[h.r])]
    /\ Goto("reauthorize")
    /\ UNCHANGED <<clockVars, up, authVars, catalogVars, req, expires, nodVars, seenVars, operatorVars>>

\* claim_approval: the commit point of a reviewed request.
ClaimApproval ==
    /\ At("claim_approval")
    /\ \E n \in {m \in RecentClock : m >= h.t} :
        LET waiting == status[h.r] = "pending_approval"
            valid == waiting /\ app[h.r] = "pending" /\ expires[h.r] > n
                        /\ StillBound(h.r, h.gen) /\ StillAuthorized(h.r, h.tok, REVIEW)
            late == app[h.r] = "pending" /\ expires[h.r] <= n
        IN \/ /\ valid
              /\ status' = [status EXCEPT ![h.r] = "executing"]
              /\ app' = [app EXCEPT ![h.r] = "approved"]
              /\ Goto("execute")
              /\ UNCHANGED <<kept, h>>
           \/ /\ ~valid /\ waiting
              /\ Terminate(h.r, IF late THEN "expired" ELSE "denied")
              /\ app' = IF app[h.r] = "pending"
                        THEN [app EXCEPT ![h.r] = IF late THEN "expired" ELSE "cancelled"] ELSE app
              /\ h' = [h EXCEPT !.out = OutcomeOf(status'[h.r])]
              /\ Goto("reauthorize")
           \/ /\ ~valid /\ ~waiting
              /\ h' = [h EXCEPT !.out = OutcomeOf(status[h.r])]
              /\ Goto("reauthorize")
              /\ UNCHANGED <<status, kept, app>>
    /\ UNCHANGED <<clockVars, up, authVars, catalogVars, req, expires, nodVars, seenVars, operatorVars>>

\* Mutant: every answer is recorded, pending before it or not.
RespondAndRecord ==
    /\ At("respond")
    /\ events' = IF h.out \in DOMAIN TerminalEvent /\ h.r # None
                 THEN [events EXCEPT ![h.r] = Append(@, TerminalEvent[h.out])]
                 ELSE events
    /\ told' = IF h.r # None /\ h.out # "conflict" THEN [told EXCEPT ![h.r] = h.out] ELSE told
    /\ Goto("idle")
    /\ h' = NoLocals
    /\ UNCHANGED <<clockVars, up, authVars, catalogVars, rowVars, nodVars, effects, operatorVars>>

\* _audit_request_terminal, then the response.  A reused receipt, a conflict and a
\* poll of a request that was not pending record no terminal event.
Respond ==
    /\ At("respond")
    /\ events' = IF /\ h.out \in DOMAIN TerminalEvent /\ h.r # None /\ ~h.reused
                    /\ h.kind = "poll" => h.pend
                 THEN [events EXCEPT ![h.r] = Append(@, TerminalEvent[h.out])]
                 ELSE events
    /\ told' = IF h.r # None /\ h.out # "conflict" THEN [told EXCEPT ![h.r] = h.out] ELSE told
    /\ Goto("idle")
    /\ h' = NoLocals
    /\ UNCHANGED <<clockVars, up, authVars, catalogVars, rowVars, nodVars, effects, operatorVars>>

-----------------------------------------------------------------------------
(* Failures of the broker process, and recovery from them *)

\* handle raises (the store is locked too long, the surface is unreachable): 500.
InternalError ==
    /\ up /\ pc # "idle"
    /\ faults < MaxFaults
    /\ faults' = faults + 1
    /\ Goto("idle")
    /\ h' = NoLocals
    /\ UNCHANGED <<now, up, authVars, catalogVars, rowVars, nodVars, seenVars, operatorVars>>

Crash ==
    /\ up
    /\ faults < MaxFaults
    /\ faults' = faults + 1
    /\ up' = FALSE
    /\ Goto("idle")
    /\ h' = NoLocals
    /\ UNCHANGED <<now, authVars, catalogVars, rowVars, nodVars, seenVars, operatorVars>>

\* build_server loads the catalog; nothing is resumed.
Start ==
    /\ ~up
    /\ up' = TRUE
    /\ loaded' = disk
    /\ UNCHANGED <<clockVars, authVars, disk, rowVars, nodVars, seenVars, handlerVars, operatorVars>>

\* Mutant: what was interrupted is recorded as not done.
ReconcileAsFailed ==
    LET stale == {r \in ReqIds : status[r] \in {"received", "executing"}} IN
    /\ ~up
    /\ stale # {}
    /\ status' = [r \in ReqIds |-> IF r \in stale THEN "failed" ELSE status[r]]
    /\ kept' = [r \in ReqIds |-> r \notin stale /\ kept[r]]
    /\ UNCHANGED <<clockVars, up, authVars, catalogVars, req, app, expires, nodVars, seenVars,
                   handlerVars, operatorVars>>

\* brokerctl reconcile-offline --confirm-offline: the operator asserts ~up.
ReconcileOffline ==
    LET stale == {r \in ReqIds : status[r] \in {"received", "executing"}} IN
    /\ ~up
    /\ stale # {}
    /\ status' = [r \in ReqIds |-> IF r \in stale THEN "unknown" ELSE status[r]]
    /\ kept' = [r \in ReqIds |-> r \notin stale /\ kept[r]]
    /\ UNCHANGED <<clockVars, up, authVars, catalogVars, req, app, expires, nodVars, seenVars,
                   handlerVars, operatorVars>>

\* SIGHUP: _reload_registry replaces the catalog between two steps of the handler.
Reload ==
    /\ up
    /\ loaded' = disk
    /\ UNCHANGED <<clockVars, up, authVars, disk, rowVars, nodVars, seenVars, handlerVars, operatorVars>>

-----------------------------------------------------------------------------
(* Operators: brokerctl and the admin app, in processes of their own *)

IssueToken(t) ==
    /\ tok[t] = "absent"
    /\ tok' = [tok EXCEPT ![t] = "active"]
    /\ UNCHANGED <<clockVars, up, revoked, rotating, policy, catalogVars, rowVars, nodVars, seenVars,
                   handlerVars, operatorVars>>

\* rotate_token adds a token, then revokes the caller's others, in two transactions.
RotateAdd(t) ==
    /\ tok[t] = "absent"
    /\ tok' = [tok EXCEPT ![t] = "active"]
    /\ rotating' = rotating \cup {t}
    /\ UNCHANGED <<clockVars, up, revoked, policy, catalogVars, rowVars, nodVars, seenVars,
                   handlerVars, operatorVars>>

RotateRevoke(t) ==
    /\ t \in rotating
    /\ rotating' = rotating \ {t}
    /\ tok' = [u \in Tokens |-> IF Owner[u] = Owner[t] /\ u # t /\ tok[u] = "active"
                                THEN "revoked" ELSE tok[u]]
    /\ UNCHANGED <<clockVars, up, revoked, policy, catalogVars, rowVars, nodVars, seenVars,
                   handlerVars, operatorVars>>

\* revoke_token: the caller's pending approvals are cancelled only if, when they are
\* counted, it has no active token left.
RevokeToken(t) ==
    /\ tok[t] = "active"
    /\ tok' = [tok EXCEPT ![t] = "revoked"]
    /\ listing' = listing \cup {<<Owner[t], "count">>}
    /\ UNCHANGED <<clockVars, up, revoked, rotating, policy, catalogVars, rowVars, nodVars, seenVars,
                   handlerVars, work>>

CountTokens(c) ==
    /\ <<c, "count">> \in listing
    /\ listing' = (listing \ {<<c, "count">>})
                    \cup (IF ActiveTokens(c) = {} THEN {<<c, "list">>} ELSE {})
    /\ UNCHANGED <<clockVars, up, authVars, catalogVars, rowVars, nodVars, seenVars, handlerVars, work>>

RevokeCaller(c) ==
    /\ ~revoked[c]
    /\ revoked' = [revoked EXCEPT ![c] = TRUE]
    /\ listing' = listing \cup {<<c, "list">>}
    /\ UNCHANGED <<clockVars, up, tok, rotating, policy, catalogVars, rowVars, nodVars, seenVars,
                   handlerVars, work>>

\* _cancel_pending_approvals: list, then finish each row in a transaction of its own.
CancelList(c) ==
    /\ <<c, "list">> \in listing
    /\ listing' = listing \ {<<c, "list">>}
    /\ work' = work \cup {r \in ReqIds : req[r] # None /\ req[r].caller = c /\ app[r] = "pending"}
    /\ UNCHANGED <<clockVars, up, authVars, catalogVars, rowVars, nodVars, seenVars, handlerVars>>

CancelRow(r) ==
    /\ r \in work
    /\ work' = work \ {r}
    /\ \E n \in RecentClock : FinishPending(r, "expired", "cancelled", FALSE, n)
    /\ Withdraw(r)
    /\ UNCHANGED <<clockVars, up, authVars, catalogVars, req, expires, decidedAt, seenVars, handlerVars,
                   listing>>

\* Mutant: the requests are denied, their approvals are forgotten.
WritePolicyOnly(c, p) ==
    LET parked == {r \in ReqIds : req[r] # None /\ req[r].caller = c /\ status[r] = "pending_approval"}
    IN /\ policy' = [policy EXCEPT ![c] = p]
       /\ status' = [r \in ReqIds |-> IF r \in parked THEN "denied" ELSE status[r]]
       /\ kept' = [r \in ReqIds |-> r \notin parked /\ kept[r]]
       /\ UNCHANGED <<clockVars, up, revoked, tok, rotating, catalogVars, req, app, expires, nodVars, seenVars,
                      handlerVars, operatorVars>>

\* _write_policy: the policy and everything waiting on the old one, in one transaction.
WritePolicy(c, p) ==
    LET parked == {r \in ReqIds : req[r] # None /\ req[r].caller = c /\ status[r] = "pending_approval"}
    IN /\ policy' = [policy EXCEPT ![c] = p]
       /\ app' = [r \in ReqIds |-> IF r \in parked /\ app[r] = "pending" THEN "cancelled" ELSE app[r]]
       /\ status' = [r \in ReqIds |-> IF r \in parked THEN "denied" ELSE status[r]]
       /\ kept' = [r \in ReqIds |-> r \notin parked /\ kept[r]]
       /\ UNCHANGED <<clockVars, up, revoked, tok, rotating, catalogVars, req, expires, nodVars, seenVars,
                      handlerVars, operatorVars>>

\* Mutant: only the approvals of callers that can still poll are swept.
SweepReachable(r) ==
    /\ app[r] = "pending" /\ status[r] = "pending_approval" /\ expires[r] <= now
    /\ Reachable(req[r].caller)
    /\ ExpireApproval(r, now)
    /\ UNCHANGED <<clockVars, up, authVars, catalogVars, req, expires, decidedAt, seenVars, handlerVars,
                   operatorVars>>

\* brokerctl sweep: sweep_expired outside the broker.
OperatorSweep(r) ==
    /\ app[r] = "pending" /\ status[r] = "pending_approval" /\ expires[r] <= now
    /\ ExpireApproval(r, now)
    /\ UNCHANGED <<clockVars, up, authVars, catalogVars, req, expires, decidedAt, seenVars, handlerVars,
                   operatorVars>>

\* prune_payloads, of whichever completed rows are seven days old.  Other terminal
\* rows keep their status and have nothing left to clear.
Prune(S) ==
    /\ S # {} /\ \A r \in S : status[r] = "completed"
    /\ status' = [r \in ReqIds |-> IF r \in S THEN "result_expired" ELSE status[r]]
    /\ UNCHANGED <<clockVars, up, authVars, catalogVars, req, kept, app, expires, nodVars, seenVars,
                   handlerVars, operatorVars>>

-----------------------------------------------------------------------------
(* The world: manifests, the human behind the surface, the clock *)

EditManifest(tl, m) ==
    /\ disk[tl] # m
    /\ disk' = [disk EXCEPT ![tl] = m]
    /\ UNCHANGED <<clockVars, up, authVars, loaded, rowVars, nodVars, seenVars, handlerVars, operatorVars>>

HumanDecides(r, d) ==
    /\ card[r] = "open"
    /\ card' = [card EXCEPT ![r] = d]
    /\ decidedAt' = [decidedAt EXCEPT ![r] = now]
    /\ UNCHANGED <<clockVars, up, authVars, catalogVars, rowVars, seenVars, handlerVars, operatorVars>>

CardLapses(r, d) ==
    /\ card[r] = "open"
    /\ card' = [card EXCEPT ![r] = d]
    /\ UNCHANGED <<clockVars, up, authVars, catalogVars, rowVars, decidedAt, seenVars, handlerVars,
                   operatorVars>>

Tick ==
    /\ now < MaxTime \/ \E r \in ReqIds : app[r] = "pending" /\ now <= expires[r]
    /\ now' = now + 1
    /\ UNCHANGED <<faults, up, authVars, catalogVars, rowVars, nodVars, seenVars, handlerVars, operatorVars>>

-----------------------------------------------------------------------------

Init ==
    /\ now = 0 /\ up = TRUE /\ faults = 0
    /\ revoked = [c \in Callers |-> FALSE]
    /\ tok = [t \in Tokens |-> IF t \in FirstTokens THEN "active" ELSE "absent"]
    /\ rotating = {}
    /\ policy \in [Callers -> Policies]
    /\ disk \in [Tools -> Manifests] /\ loaded = disk
    /\ req = [r \in ReqIds |-> None]
    /\ status = [r \in ReqIds |-> "none"]
    /\ kept = [r \in ReqIds |-> FALSE]
    /\ app = [r \in ReqIds |-> "none"]
    /\ expires = [r \in ReqIds |-> 0]
    /\ card = [r \in ReqIds |-> "none"]
    /\ decidedAt = [r \in ReqIds |-> 0]
    /\ effects = [r \in ReqIds |-> <<>>]
    /\ told = [r \in ReqIds |-> "none"]
    /\ events = [r \in ReqIds |-> <<>>]
    /\ pc = "idle" /\ h = NoLocals
    /\ listing = {} /\ work = {}

SubmitStep ==
    \/ SweepList \/ (\E r \in ReqIds : SweepRow(r)) \/ SweepDone \/ SubmitLookup
    \/ ReserveRefused \/ ReserveReused \/ ReserveCreated
    \/ \E st \in {"not_found", "denied", "invalid"} : SubmitEnds(st)
    \/ SubmitDecides \/ OpenCard \/ OpenFails \/ CreateApproval \/ MarkPending
    \/ LookupAgain("lookup_allowed", "claim_received") \/ ClaimReceived

PollStep ==
    \/ Authorize("authorize", "resolve") \/ Resolve \/ SurfacePoll \/ AfterPoll \/ FinishAnswered
    \/ LookupAgain("lookup_approved", "claim_approval") \/ ClaimApproval
    \/ Authorize("reauthorize", "respond")

\* Everything the handler does once it has accepted a request.
HandlerStep == SubmitStep \/ PollStep \/ Dispatch \/ RecordResult \/ Respond

Agent ==
    \/ \E t \in Tokens, a \in Actions, k \in Keys \cup {None}, p \in Payloads : SubmitStart(t, a, k, p)
    \/ \E t \in Tokens, r \in ReqIds : PollStart(t, r)

Operator ==
    \/ \E t \in Tokens : IssueToken(t) \/ RotateAdd(t) \/ RotateRevoke(t) \/ RevokeToken(t)
    \/ \E c \in Callers : CountTokens(c) \/ RevokeCaller(c) \/ CancelList(c)
    \/ \E r \in ReqIds : CancelRow(r) \/ OperatorSweep(r)
    \/ \E c \in Callers, p \in Policies : WritePolicy(c, p)
    \/ \E S \in SUBSET ReqIds : Prune(S)
    \/ ReconcileOffline

World ==
    \/ \E tl \in Tools, m \in Edits : EditManifest(tl, m)
    \/ \E r \in ReqIds : (\E d \in {"approved", "rejected", "dismissed"} : HumanDecides(r, d))
                         \/ (\E d \in {"expired", "cancelled"} : CardLapses(r, d))
    \/ Tick

Fault == InternalError \/ Crash

Next == HandlerStep \/ Agent \/ Operator \/ World \/ Fault \/ Start \/ Reload

Spec == Init /\ [][Next]_vars

\* The handler's thread runs and each of its calls is bounded by a timeout; time
\* passes; and, since the broker has no background worker, somebody sweeps.
Fairness ==
    /\ WF_vars(HandlerStep)
    /\ WF_vars(Tick)
    /\ \A r \in ReqIds : WF_vars(OperatorSweep(r))

FairSpec == Spec /\ Fairness

-----------------------------------------------------------------------------
(* What the broker promises *)

ClockType == now \in Nat /\ up \in BOOLEAN /\ faults \in Nat

AuthType ==
    /\ revoked \in [Callers -> BOOLEAN]
    /\ tok \in [Tokens -> {"absent", "active", "revoked"}]
    /\ rotating \subseteq Tokens
    /\ policy \in [Callers -> Policies]

CatalogType ==
    /\ disk \in [Tools -> Manifests \cup {None}]
    /\ loaded \in [Tools -> Manifests \cup {None}]

StatusType == status \in [ReqIds -> LiveStatus \cup Terminal \cup {"none"}]
AppType == app \in [ReqIds -> AppStatus]
CardType == card \in [ReqIds -> CardState]

RowType ==
    /\ req \in [ReqIds -> Rows \cup {None}]
    /\ StatusType
    /\ kept \in [ReqIds -> BOOLEAN]
    /\ AppType
    /\ expires \in [ReqIds -> Nat]

SeenType ==
    /\ effects \in [ReqIds -> Seq(Manifests)]
    /\ told \in [ReqIds -> Outcomes \cup {"none"}]
    /\ events \in [ReqIds -> Seq({"completed", "denied", "failed", "expired", "unknown"})]

HandlerType == pc \in PCs /\ h \in Locals

\* The type of every variable.
TypeOK ==
    /\ ClockType /\ AuthType /\ CatalogType /\ RowType
    /\ CardType /\ decidedAt \in [ReqIds -> Nat]
    /\ SeenType /\ HandlerType
    /\ listing \subseteq Callers \X {"count", "list"} /\ work \subseteq ReqIds

\* At most one effect: whatever crashes, retries and races happen, a request reaches
\* its tool at most once, and a caller's idempotency key names at most one request.
AtMostOnce ==
    /\ \A r \in ReqIds : Len(effects[r]) <= 1
    /\ \A r, s \in ReqIds :
        /\ req[r] # None /\ req[s] # None
        /\ req[r].key # None
        /\ req[r].key = req[s].key /\ req[r].caller = req[s].caller
        => r = s

NotRun == {"denied", "expired", "failed", "unavailable", "not_found", "invalid"}

\* A receipt never says that nothing happened when the tool may have been called, nor
\* that the call succeeded when it was not made: neither the row nor what the agent was
\* last told.  (request_lifecycle.execute_request, "never promise safe replay".)
HonestReceipt ==
    \A r \in ReqIds :
        /\ effects[r] # <<>> => status[r] \in {"executing", "completed", "result_expired", "unknown"}
        /\ status[r] \in {"completed", "result_expired"} => effects[r] # <<>>
        /\ told[r] \in NotRun => effects[r] = <<>>
        /\ told[r] = "ok" => effects[r] # <<>>

\* What reaches a tool was allowed outright by the policy it was reserved under, or
\* approved by a human on that request's own card before the broker's deadline.
ReviewedExecution ==
    \A r \in ReqIds : effects[r] # <<>> =>
        LET effect == Decide(req[r].bind, req[r].act.tool, req[r].act.op) IN
        \/ effect = ALLOW
        \/ effect = REVIEW /\ card[r] = "approved" /\ app[r] = "approved" /\ decidedAt[r] < expires[r]

\* The operation that reaches a tool is the generation of the manifest that was bound
\* to the request (and shown on its card), whatever was reloaded or edited meanwhile.
BoundExecution ==
    \A r \in ReqIds : \A i \in 1 .. Len(effects[r]) : effects[r][i] = req[r].gen

\* The two rows of a request tell one story, and the private payload is kept exactly
\* while the request may still run.
RowsAgree ==
    \A r \in ReqIds :
        /\ kept[r] <=> status[r] \in LiveStatus
        /\ status[r] = "pending_approval" => app[r] = "pending"
        /\ app[r] = "pending" => status[r] \in {"received", "pending_approval", "unknown"}
        /\ app[r] = "approved" => status[r] \in {"executing", "completed", "failed", "unknown", "result_expired"}
        /\ app[r] = "rejected" => status[r] = "denied"
        /\ app[r] \in {"expired", "cancelled"} => status[r] \in {"expired", "denied"}

EventFits == [completed |-> {"completed", "result_expired"}, denied |-> {"denied"},
              failed |-> {"failed"}, expired |-> {"expired"}, unknown |-> {"unknown"}]

\* The audit trail records at most one terminal event per request, and the one it
\* records is the outcome the row ends with.
AuditAgrees ==
    \A r \in ReqIds :
        /\ Len(events[r]) <= 1
        /\ \A i \in 1 .. Len(events[r]) : status[r] \in EventFits[events[r][i]]

\* A terminal receipt is final: only the result of a completed call may expire.
TerminalStable ==
    [][\A r \in ReqIds : status[r] \in Terminal =>
          \/ status'[r] = status[r]
          \/ status[r] = "completed" /\ status'[r] = "result_expired"]_vars

\* Revocation and policy changes win until the commit point: no request starts to
\* execute unless, at that very step, its caller and the token it came with are live
\* and the policy is the one it was reserved under and still lets it run.
AuthorityAtCommit ==
    [][\A r \in ReqIds : status[r] # "executing" /\ status'[r] = "executing" =>
          /\ Live(h.tok) /\ Owner[h.tok] = req[r].caller
          /\ policy[req[r].caller] = req[r].bind
          /\ DecideFor(req[r].caller, req[r].act) \in {ALLOW, REVIEW}]_vars

Later == [ok |-> {"ok", "result_expired"}, unavailable |-> {"unavailable", "failed"}]

\* Once an agent has been told a final outcome, every later answer about that request
\* is the same one (a pruned result, and the row behind "unavailable", excepted).
AnswersStable ==
    [][\A r \in ReqIds : told[r] \in Outcomes \ LiveStatus =>
          told'[r] \in IF told[r] \in DOMAIN Later THEN Later[told[r]] ELSE {told[r]}]_vars

\* The broker's audit map (gateway._REQUEST_TERMINAL, "A single terminal request.* event
\* per request"): between two HTTP requests, every request that has ended with an audited
\* outcome has its event.
EveryOutcomeAudited ==
    pc = "idle" => \A r \in ReqIds :
        status[r] \in {"completed", "denied", "failed", "expired", "unknown"} => Len(events[r]) = 1

\* No approval waits for ever: a parked request is claimed or ends, even if its agent
\* never polls, its caller is revoked meanwhile or the broker stays down.
ParkedResolves ==
    \A r \in ReqIds : status[r] = "pending_approval" ~> status[r] # "pending_approval"

\* As long as the broker process does not fail, no accepted request is left half done:
\* it is parked for review or ends.
AcceptedSettles ==
    \A r \in ReqIds : status[r] \in {"received", "executing"} ~>
        (status[r] \notin {"received", "executing"} \/ faults > 0)

-----------------------------------------------------------------------------
(* The inductive invariant behind AtMostOnce, HonestReceipt and BoundExecution *)

\* Where the handler owns a row it has just reserved.
Reserved == {"decide", "open", "create", "park", "lookup_allowed", "claim_received"}

\* Where it serves a row that exists.
Serving == Reserved \cup {"authorize", "resolve", "surface", "after_poll", "lookup_approved",
                          "claim_approval", "finish", "reauthorize", "execute", "record"}

NotRunStatus == {"denied", "expired", "failed", "not_found", "invalid"}

\* An answer about row r is backed by the row's status, which can no longer contradict it.
Backed(r, out) ==
    /\ out \in NotRun => status[r] \in NotRunStatus
    /\ out = "ok" => status[r] \in {"completed", "result_expired"}

\* Every row that has not reached its commit point is without effect, a completed one
\* has its effect, and an effect is the call of the bound generation, once.
RowsInv ==
    \A r \in ReqIds :
        /\ req[r] = None <=> status[r] = "none"
        /\ status[r] \in NotRunStatus \cup {"none", "received", "pending_approval"} => effects[r] = <<>>
        /\ status[r] \in {"completed", "result_expired"} => effects[r] # <<>>
        /\ effects[r] # <<>> => req[r].gen \in Manifests /\ effects[r] = <<req[r].gen>>
        /\ Backed(r, told[r])

KeysInv ==
    \A r, s \in ReqIds :
        /\ req[r] # None /\ req[s] # None
        /\ req[r].key # None
        /\ req[r].key = req[s].key /\ req[r].caller = req[s].caller
        => r = s

\* What the handler's program counter says about the row it serves.
HandlerInv ==
    /\ ~up => pc = "idle"
    /\ pc \notin {"idle", "respond"} => h.kind # "none" /\ h.tok \in Tokens
    /\ pc \in {"sweep", "sweeping", "lookup", "reserve"} \cup Reserved =>
          h.act \in Actions /\ h.pay \in Payloads
    /\ pc \in {"sweep", "sweeping", "lookup", "reserve"} => h.r = None
    /\ pc \in Serving => h.r \in ReqIds /\ req[h.r] # None
    /\ pc \in Reserved => status[h.r] = "received"
    /\ pc = "execute" => /\ status[h.r] = "executing" /\ effects[h.r] = <<>>
                         /\ h.gen \in Manifests /\ req[h.r].gen = h.gen
    /\ pc = "record" => /\ status[h.r] = "executing"
                        /\ h.ans \in {"ok", "refused", "error"}
                        /\ h.ans = "ok" => effects[h.r] # <<>>
                        /\ h.ans = "refused" => effects[h.r] = <<>>
    /\ pc \in {"after_poll", "finish"} => h.ans \in AppStatus
    /\ pc \in {"respond", "reauthorize"} /\ h.r # None => req[h.r] # None /\ Backed(h.r, h.out)
    /\ pc \in {"respond", "reauthorize"} => h.out # "none"

\* The commit points and the handler agree: the strengthening that the proofs of
\* BrokerProofs need, and that every step of the broker preserves.
Inv == TypeOK /\ RowsInv /\ KeysInv /\ HandlerInv

-----------------------------------------------------------------------------
(* What AuthorityAtCommit, RowsAgree, ReviewedExecution, AnswersStable and  *)
(* AuditAgrees need beyond it                                               *)

\* The handler serves a row of the caller whose token it has checked.
OwnerInv == pc \in Serving => req[h.r].caller = Owner[h.tok]

\* The approval row appears between the reservation and the parking, and an answer of the
\* surface that ends a request is one of nod's.
ApprovalInv ==
    /\ RowsAgree
    /\ \A r \in ReqIds : status[r] = "none" => app[r] = "none"
    /\ pc \in Reserved \ {"park"} => app[h.r] = "none"
    /\ pc = "park" => app[h.r] = "pending"
    /\ pc = "after_poll" => h.ans # "none"
    /\ pc = "finish" => h.ans \in {"rejected", "expired", "cancelled"}

\* A request that has passed its commit point was allowed, or approved in time.
Sanctioned(r) ==
    LET effect == Decide(req[r].bind, req[r].act.tool, req[r].act.op) IN
    \/ effect = ALLOW
    \/ effect = REVIEW /\ card[r] = "approved" /\ app[r] = "approved" /\ decidedAt[r] < expires[r]

\* An approval that the handler carries from the surface to the commit point is on the card,
\* from before the deadline: neither card nor deadline can change any more.
ReviewInv ==
    /\ \A r \in ReqIds : decidedAt[r] <= now
    /\ \A r \in ReqIds : status[r] = "executing" \/ effects[r] # <<>> => Sanctioned(r)
    /\ pc = "after_poll" /\ h.ans = "approved" => card[h.r] = "approved"
    /\ pc \in {"lookup_approved", "claim_approval"} =>
          card[h.r] = "approved" /\ decidedAt[h.r] < expires[h.r]

FinalAnswers == Outcomes \ (LiveStatus \cup {"conflict"})

\* The final answer out is what a row with status st says.
StandsFor(out, st) ==
    CASE out = "ok" -> st \in {"completed", "result_expired"}
      [] out = "unavailable" -> st = "failed"
      [] OTHER -> st = out

\* The handler may answer out about row r: it is what the row says, and no contradiction of
\* what the agent was told before.
MaySay(r, out) ==
    /\ out \in FinalAnswers => StandsFor(out, status[r])
    /\ told[r] \in FinalAnswers =>
          out \in {"conflict"} \cup IF told[r] \in DOMAIN Later THEN Later[told[r]] ELSE {told[r]}

\* What an agent was told as final is what the row says, and so is what it is about to be told.
AnswerInv ==
    /\ \A r \in ReqIds :
        /\ told[r] # "conflict"
        /\ told[r] \in FinalAnswers => StandsFor(told[r], status[r])
    /\ pc \in {"respond", "reauthorize"} /\ h.r # None => MaySay(h.r, h.out)

\* As long as the handler may still record the end of its request, nobody has.
AuditInv ==
    /\ AuditAgrees
    /\ /\ pc # "idle" /\ h.r # None /\ ~h.reused
       /\ h.kind = "poll" => h.pend
       => events[h.r] = <<>>

LifecycleInv == Inv /\ OwnerInv /\ ApprovalInv /\ ReviewInv /\ AnswerInv /\ AuditInv

=============================================================================
