------------------------------ MODULE ClaimTxn ------------------------------
(***************************************************************************)
(* The commit points of the broker, statement by statement.  Broker.tla    *)
(* takes claim_received, claim_approval and finish_pending (broker/        *)
(* store.py) as atomic because each runs under BEGIN IMMEDIATE on the      *)
(* broker's only connection.  Here the statements are steps, the write     *)
(* lock is explicit, operators commit whenever they can get it, and the    *)
(* SIGHUP handler of broker/server.py may run between two statements: its  *)
(* set_catalog_receipt uses "with self._conn", which commits whatever      *)
(* transaction that connection has open.                                   *)
(*                                                                         *)
(* One request, reserved with a live caller under some policy.  Deadlines   *)
(* are left to Broker.tla.                                                 *)
(***************************************************************************)
EXTENDS Naturals

CONSTANT Reloads    \* how many SIGHUPs arrive while a commit point runs

\* Assumed of the constants; the module of a run asserts it of its instances.
ReloadsAssumption == Reloads \in Nat

VARIABLES
    db,         \* the committed rows: requests.status and approvals.status
    revoked,    \* the caller is revoked
    repolicied, \* the policy is not the one the row is bound to
    lock,       \* who holds SQLite's write lock
    tx,         \* the broker's view of the rows inside its transaction
    pc, op,     \* the broker: its next statement, and which commit point it runs
    seen,       \* requests.status and approvals.status as it read them
    ok,         \* its checks have passed so far
    reloads

vars == <<db, revoked, repolicied, lock, tx, pc, op, seen, ok, reloads>>

Ops == {"claim_received", "claim_approval", "finish_pending"}
Status == {"received", "pending_approval", "executing", "denied", "expired"}
AppStatus == {"none", "pending", "approved", "cancelled", "rejected"}
Db == [req : Status, app : AppStatus]
Final == {"denied", "expired"}

\* The status the rows must be in for a commit point to act on them.
Wanted(o) ==
    CASE o = "claim_received" -> [req |-> "received", app |-> "none"]
      [] OTHER -> [req |-> "pending_approval", app |-> "pending"]

Init ==
    /\ db \in {[req |-> "received", app |-> "none"], [req |-> "pending_approval", app |-> "pending"]}
    /\ revoked = FALSE /\ repolicied = FALSE
    /\ lock = "free" /\ tx = db
    /\ pc = "idle" /\ op = "claim_received" /\ seen = db /\ ok = FALSE
    /\ reloads = 0

\* What a statement of the broker reads: its own transaction, or the committed rows.
View == IF lock = "broker" THEN tx ELSE db

\* BEGIN IMMEDIATE waits for the lock and freezes the rows.
Begin(o) ==
    /\ pc = "idle" /\ lock = "free"
    /\ lock' = "broker" /\ tx' = db
    /\ op' = o /\ pc' = "rows" /\ ok' = FALSE /\ seen' = db
    /\ UNCHANGED <<db, revoked, repolicied, reloads>>

ReadRows ==
    /\ pc = "rows"
    /\ seen' = View
    /\ ok' = (View = Wanted(op))
    /\ pc' = "authority"
    /\ UNCHANGED <<db, revoked, repolicied, lock, tx, op, reloads>>

\* Mutant: the caller was checked before the transaction began.
SkipAuthority ==
    /\ pc = "authority"
    /\ pc' = "policy"
    /\ UNCHANGED <<db, revoked, repolicied, lock, tx, op, seen, ok, reloads>>

\* _live; finish_pending reads authority only to choose between two endings.
ReadAuthority ==
    /\ pc = "authority"
    /\ ok' = (ok /\ (op = "finish_pending" \/ ~revoked))
    /\ pc' = "policy"
    /\ UNCHANGED <<db, revoked, repolicied, lock, tx, op, seen, reloads>>

ReadPolicy ==
    /\ pc = "policy"
    /\ ok' = (ok /\ (op = "finish_pending" \/ ~repolicied))
    /\ pc' = "request"
    /\ UNCHANGED <<db, revoked, repolicied, lock, tx, op, seen, reloads>>

\* An UPDATE outside a transaction opens one, as sqlite3 does before any DML.
Write(rows) ==
    /\ lock \in {"free", "broker"}
    /\ lock' = "broker"
    /\ tx' = rows

\* UPDATE requests: claim_received repeats its status test in SQL, the others do not.
UpdateRequest ==
    /\ pc = "request"
    /\ pc' = "approval"
    /\ \/ /\ ok /\ op = "claim_received"
          /\ Write(IF View.req = "received" THEN [View EXCEPT !.req = "executing"] ELSE View)
       \/ /\ ok /\ op = "claim_approval"
          /\ Write([View EXCEPT !.req = "executing"])
       \/ /\ ok /\ op = "finish_pending"
          /\ Write([View EXCEPT !.req = IF revoked THEN "expired" ELSE "denied"])
       \/ /\ ~ok /\ op # "finish_pending" /\ seen.req = Wanted(op).req
          /\ Write([View EXCEPT !.req = "denied"])
       \/ /\ ~ok /\ (op = "finish_pending" \/ seen.req # Wanted(op).req)
          /\ UNCHANGED <<lock, tx>>
    /\ UNCHANGED <<db, revoked, repolicied, op, seen, ok, reloads>>

\* Mutant: the approval is left to another transaction.
SkipApproval ==
    /\ pc = "approval"
    /\ pc' = "commit"
    /\ UNCHANGED <<db, revoked, repolicied, lock, tx, op, seen, ok, reloads>>

UpdateApproval ==
    /\ pc = "approval"
    /\ pc' = "commit"
    /\ \/ /\ ok /\ op = "claim_approval"
          /\ Write([View EXCEPT !.app = "approved"])
       \/ /\ ok /\ op = "finish_pending"
          /\ Write([View EXCEPT !.app = IF revoked THEN "cancelled" ELSE "rejected"])
       \/ /\ ~ok /\ op = "claim_approval" /\ seen.req = "pending_approval"
          /\ Write(IF View.app = "pending" THEN [View EXCEPT !.app = "cancelled"] ELSE View)
       \/ /\ op = "claim_received" \/ (~ok /\ (op = "finish_pending" \/ seen.req # "pending_approval"))
          /\ UNCHANGED <<lock, tx>>
    /\ UNCHANGED <<db, revoked, repolicied, op, seen, ok, reloads>>

Commit ==
    /\ pc = "commit"
    /\ pc' = "idle"
    /\ db' = View
    /\ lock' = IF lock = "broker" THEN "free" ELSE lock
    /\ UNCHANGED <<revoked, repolicied, tx, op, seen, ok, reloads>>

\* SIGHUP between two statements: set_catalog_receipt writes and commits.
Sighup ==
    /\ pc # "idle" /\ reloads < Reloads
    /\ lock \in {"free", "broker"}
    /\ db' = View
    /\ lock' = "free"
    /\ reloads' = reloads + 1
    /\ UNCHANGED <<revoked, repolicied, tx, pc, op, seen, ok>>

\* Operators: each is one transaction of its own, taken when the lock is free.
RevokeCaller ==
    /\ lock = "free" /\ ~revoked
    /\ revoked' = TRUE
    /\ UNCHANGED <<db, repolicied, lock, tx, pc, op, seen, ok, reloads>>

CancelPending ==
    /\ lock = "free" /\ revoked
    /\ db = [req |-> "pending_approval", app |-> "pending"]
    /\ db' = [req |-> "expired", app |-> "cancelled"]
    /\ UNCHANGED <<revoked, repolicied, lock, tx, pc, op, seen, ok, reloads>>

WritePolicy ==
    /\ lock = "free" /\ ~repolicied
    /\ repolicied' = TRUE
    /\ db' = IF db.req # "pending_approval" THEN db
             ELSE [req |-> "denied", app |-> IF db.app = "pending" THEN "cancelled" ELSE db.app]
    /\ UNCHANGED <<revoked, lock, tx, pc, op, seen, ok, reloads>>

\* The broker parks a received request for review.
Park ==
    /\ pc = "idle" /\ lock = "free" /\ db = [req |-> "received", app |-> "none"]
    /\ db' = [req |-> "pending_approval", app |-> "pending"]
    /\ UNCHANGED <<revoked, repolicied, lock, tx, pc, op, seen, ok, reloads>>

Next ==
    \/ \E o \in Ops : Begin(o)
    \/ ReadRows \/ ReadAuthority \/ ReadPolicy \/ UpdateRequest \/ UpdateApproval \/ Commit
    \/ Sighup
    \/ RevokeCaller \/ CancelPending \/ WritePolicy \/ Park

Spec == Init /\ [][Next]_vars

-----------------------------------------------------------------------------

\* The type of every variable.
TypeOK ==
    /\ db \in Db /\ tx \in Db /\ seen \in Db
    /\ revoked \in BOOLEAN /\ repolicied \in BOOLEAN /\ ok \in BOOLEAN
    /\ lock \in {"free", "broker"}
    /\ pc \in {"idle", "rows", "authority", "policy", "request", "approval", "commit"}
    /\ op \in Ops /\ reloads \in 0 .. Reloads

ClaimIsCurrent ==
    db.req # "executing" /\ db'.req = "executing" =>
        /\ db.req \notin Final
        /\ ~revoked /\ ~repolicied

\* "Commit point: revocation/cancellation wins until this transaction claims"
\* (Store.claim_approval): a request is committed to its tool only from the state it
\* waited in, while its caller is live and its policy is unchanged.
RevocationWins == [][ClaimIsCurrent]_vars

\* "Conditionally finish both rows" (Store.finish_pending): what other connections see
\* of a request's two rows always agrees.
RowsTogether ==
    /\ db.req = "pending_approval" <=> db.app = "pending"
    /\ db.app = "approved" => db.req = "executing"
    /\ db.app \in {"cancelled", "rejected"} => db.req \in Final

\* However often a SIGHUP commits its transaction early, a commit point leaves none open
\* behind it: the lock is free between two requests, so operators are never shut out.
NoLeakedTransaction == pc = "idle" => lock = "free"

\* What the UPDATEs of a commit point make of the two rows that it has read.
RequestGoal ==
    CASE ok /\ op # "finish_pending" -> "executing"
      [] ok /\ op = "finish_pending" -> IF revoked THEN "expired" ELSE "denied"
      [] ~ok /\ op # "finish_pending" /\ db.req = Wanted(op).req -> "denied"
      [] OTHER -> db.req

ApprovalGoal ==
    CASE ok /\ op = "claim_approval" -> "approved"
      [] ok /\ op = "finish_pending" -> IF revoked THEN "cancelled" ELSE "rejected"
      [] ~ok /\ op = "claim_approval" /\ db.req = "pending_approval" -> "cancelled"
      [] OTHER -> db.app

\* The write lock freezes what a commit point has read until it commits.
InTransaction ==
    /\ pc \in {"rows", "authority", "policy", "request"} => tx = db
    /\ pc = "rows" => ~ok
    /\ pc # "rows" => seen = db
    /\ ok => db = Wanted(op)
    /\ ok /\ op # "finish_pending" /\ pc \in {"policy", "request", "approval", "commit"} => ~revoked
    /\ ok /\ op # "finish_pending" /\ pc \in {"request", "approval", "commit"} => ~repolicied
    /\ pc = "approval" => tx = [req |-> RequestGoal, app |-> db.app]
    /\ pc = "commit" => tx = [req |-> RequestGoal, app |-> ApprovalGoal]

\* While no SIGHUP comes in between, the broker holds the lock from the first statement of
\* a commit point to the last.
ClaimInv ==
    /\ TypeOK /\ RowsTogether
    /\ lock = "free" <=> pc = "idle"
    /\ pc # "idle" => InTransaction

\* What a commit point keeps: the rows agree unless a SIGHUP splits its transaction, and
\* even then none is left open.
ClaimAtomic ==
    /\ TypeOK /\ NoLeakedTransaction
    /\ Reloads = 0 => ClaimInv

=============================================================================
