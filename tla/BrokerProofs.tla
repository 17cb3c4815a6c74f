---------------------------- MODULE BrokerProofs ----------------------------
(***************************************************************************)
(* Machine-checked proofs about Broker, for any sets of callers, tokens,   *)
(* tools, policies, manifests, keys, payloads and requests, any time to    *)
(* live and any number of faults.                                          *)
(*                                                                         *)
(* First that Inv (Broker.tla) holds initially and every step preserves    *)
(* it.  Then what an agent and an auditor see of a request: the broker     *)
(* implements the contract of Receipt, a final receipt stays final, so     *)
(* does a final answer, and the audit trail ends a request once, with the  *)
(* outcome its row has.  All of that follows from what one step may do to  *)
(* one row (RowStory), proved action by action from Inv, and from what the *)
(* handler is about to answer (AnswerInv, AuditInv).  Last, who may commit *)
(* a request to its tool: the authority of the caller at the commit point, *)
(* the agreement of a request's two rows, and the human review behind      *)
(* every call that the policy did not allow outright.                      *)
(***************************************************************************)
EXTENDS BrokerReceipt, TLAPS

-----------------------------------------------------------------------------
(* Moves of a row *)

\* The status changes that cannot make a receipt dishonest.
Move(from, to, calls) ==
    \/ to = from
    \/ /\ from \in {"received", "pending_approval"}
       /\ to \in NotRunStatus \cup {"pending_approval", "executing", "unknown"}
    \/ from = "executing" /\ to = "unknown"
    \/ from = "executing" /\ to = "completed" /\ calls # <<>>
    \/ from = "executing" /\ to \in NotRunStatus /\ calls = <<>>
    \/ from = "completed" /\ to = "result_expired"

\* Every row of a step moves so.
RowsMove == \A r \in ReqIds : Move(status[r], status'[r], effects[r])

\* A step whose rows all move so, with nothing inserted, called or told, keeps the rows honest.
LEMMA RowsMoveKeeps ==
  ASSUME RowsInv, KeysInv, RowsMove, UNCHANGED <<req, effects, told>>
  PROVE  RowsInv' /\ KeysInv'
<1>1. KeysInv'
  BY DEF KeysInv
<1>2. ASSUME NEW r \in ReqIds
      PROVE  /\ req'[r] = None <=> status'[r] = "none"
             /\ status'[r] \in NotRunStatus \cup {"none", "received", "pending_approval"} => effects'[r] = <<>>
             /\ status'[r] \in {"completed", "result_expired"} => effects'[r] # <<>>
  BY DEF RowsInv, RowsMove, Move, NotRunStatus
<1>3. ASSUME NEW r \in ReqIds PROVE Backed(r, told[r])'
  BY DEF RowsInv, RowsMove, Move, NotRunStatus, Backed, NotRun
<1> QED
  BY <1>1, <1>2, <1>3 DEF RowsInv

\* A step outside the handler that leaves the rows the handler owns alone does not
\* disturb what the program counter says.
LEMMA HandlerFrame ==
  ASSUME HandlerInv, RowsMove, UNCHANGED <<pc, h, up, req, effects>>,
         \A r \in ReqIds : status[r] \in {"received", "executing"} => status'[r] = status[r],
         HandlerType
  PROVE  HandlerInv'
<1>1. ASSUME pc \in {"respond", "reauthorize"}, h.r # None, Backed(h.r, h.out) PROVE Backed(h.r, h.out)'
  <2>1. h.r \in ReqIds
    BY <1>1 DEF HandlerType, Locals
  <2> QED
    BY <1>1, <2>1 DEF RowsMove, Move, NotRunStatus, Backed, NotRun
<1> QED
  BY <1>1 DEF HandlerInv, Serving, Reserved

\* A step that touches no row keeps the rows honest.
LEMMA RowsFrame ==
  ASSUME RowsInv, KeysInv, UNCHANGED <<req, status, effects, told>>
  PROVE  RowsInv' /\ KeysInv'
  BY RowsMoveKeeps DEF RowsMove, Move

\* Ending a request keeps the types of its row.
LEMMA TerminateType ==
  ASSUME RowType, NEW r \in ReqIds, NEW st \in Terminal, Terminate(r, st)
  PROVE  StatusType' /\ kept' \in [ReqIds -> BOOLEAN]
  BY DEF RowType, StatusType, Terminate

\* finish_pending moves only a pending row, and only to an ending without effect.
LEMMA FinishMoves ==
  ASSUME RowType, NEW r \in ReqIds, NEW st \in NotRunStatus, NEW ap \in AppStatus,
         NEW dl \in BOOLEAN, NEW n, FinishPending(r, st, ap, dl, n)
  PROVE  /\ StatusType' /\ AppType' /\ kept' \in [ReqIds -> BOOLEAN]
         /\ RowsMove
         /\ \A s \in ReqIds : status[s] # "pending_approval" => status'[s] = status[s]
         /\ status'[r] \in Terminal \/ status'[r] = status[r]
<1>1. CASE UNCHANGED <<status, kept, app>>
  BY <1>1 DEF RowType, StatusType, AppType, RowsMove, Move
<1>2. ASSUME NEW s \in NotRunStatus, NEW a \in AppStatus, status[r] = "pending_approval",
             Terminate(r, s), app' = [app EXCEPT ![r] = a]
      PROVE  /\ StatusType' /\ AppType' /\ kept' \in [ReqIds -> BOOLEAN]
             /\ RowsMove
             /\ \A q \in ReqIds : status[q] # "pending_approval" => status'[q] = status[q]
             /\ status'[r] \in Terminal
  BY <1>2 DEF RowType, StatusType, AppType, Terminate, RowsMove, Move, NotRunStatus, Terminal
<1>3. "expired" \in NotRunStatus /\ "expired" \in AppStatus /\ "cancelled" \in AppStatus
  BY DEF NotRunStatus, AppStatus
<1> QED
  BY <1>1, <1>2, <1>3 DEF FinishPending

LEMMA WithdrawType ==
  ASSUME CardType, NEW r \in ReqIds, Withdraw(r)
  PROVE  CardType'
  BY DEF CardType, Withdraw, CardState

\* A record of the requests table is not None.
LEMMA NoRow == \A x \in Rows : x # None
  BY NoneAssumption

LEMMA LookupType ==
  ASSUME CatalogType, NEW a \in Actions
  PROVE  Lookup(a) \in Manifests \cup {None}
  BY SetsAssumption DEF CatalogType, Lookup

-----------------------------------------------------------------------------
(* Frames: what is left to prove of a step, by the variables it leaves alone *)

\* A step of the handler that only moves its own locals.
LEMMA LocalStep ==
  ASSUME Inv, HandlerType', HandlerInv',
         UNCHANGED <<clockVars, up, authVars, catalogVars, rowVars, nodVars, seenVars, operatorVars>>
  PROVE  Inv'
<1> USE DEF clockVars, authVars, catalogVars, rowVars, nodVars, seenVars, operatorVars
<1>1. TypeOK'
  BY DEF Inv, TypeOK, ClockType, AuthType, CatalogType, RowType, StatusType, AppType, CardType, SeenType
<1>2. RowsInv' /\ KeysInv'
  BY RowsFrame DEF Inv
<1> QED
  BY <1>1, <1>2 DEF Inv

\* A step that moves rows but inserts none, calls no tool and answers nobody.
LEMMA RowStep ==
  ASSUME Inv, HandlerType', HandlerInv', RowsMove,
         StatusType', AppType', kept' \in [ReqIds -> BOOLEAN], expires' \in [ReqIds -> Nat], CardType',
         work' \subseteq ReqIds,
         UNCHANGED <<clockVars, up, authVars, catalogVars, req, decidedAt, seenVars, listing>>
  PROVE  Inv'
<1> USE DEF clockVars, authVars, catalogVars, seenVars
<1>1. TypeOK'
  BY DEF Inv, TypeOK, ClockType, AuthType, CatalogType, RowType, SeenType
<1>2. RowsInv' /\ KeysInv'
  BY RowsMoveKeeps DEF Inv
<1> QED
  BY <1>1, <1>2 DEF Inv

\* The same, outside the handler.
LEMMA OutsideStep ==
  ASSUME Inv, RowsMove, UNCHANGED <<pc, h, up, req, effects>>,
         \A r \in ReqIds : status[r] \in {"received", "executing"} => status'[r] = status[r]
  PROVE  HandlerType' /\ HandlerInv'
  BY HandlerFrame DEF Inv, TypeOK, HandlerType

-----------------------------------------------------------------------------
(* Submission *)

LEMMA SubmitStartKeeps ==
  ASSUME Inv, NEW t \in Tokens, NEW a \in Actions, NEW k \in Keys \cup {None}, NEW p \in Payloads,
         SubmitStart(t, a, k, p)
  PROVE  Inv'
<1> USE NoneAssumption DEF At, Goto
<1>1. HandlerType'
  BY ZenonT(60) DEF SubmitStart, NoLocals, Inv, TypeOK, HandlerType, Locals, PCs, AppStatus
<1>2. HandlerInv'
  BY DEF SubmitStart, NoLocals, Inv, HandlerInv, Serving, Reserved
<1> QED
  BY <1>1, <1>2, LocalStep DEF SubmitStart

LEMMA SweepListKeeps == ASSUME Inv, SweepList PROVE Inv'
<1> USE DEF At, Goto
<1>1. HandlerType'
  BY DEF SweepList, Inv, TypeOK, ClockType, HandlerType, Locals, PCs
<1>2. HandlerInv'
  BY DEF SweepList, Inv, TypeOK, HandlerType, Locals, HandlerInv, Serving, Reserved
<1> QED
  BY <1>1, <1>2, LocalStep DEF SweepList

LEMMA SweepRowKeeps == ASSUME Inv, NEW r \in ReqIds, SweepRow(r) PROVE Inv'
<1> USE DEF At, Goto
<1>0. /\ StatusType' /\ AppType' /\ kept' \in [ReqIds -> BOOLEAN]
      /\ RowsMove
  BY FinishMoves DEF SweepRow, ExpireApproval, AppStatus, NotRunStatus, Inv, TypeOK
<1>1. HandlerType'
  BY DEF SweepRow, Inv, TypeOK, HandlerType, Locals, PCs
<1>2. HandlerInv'
  BY DEF SweepRow, Inv, TypeOK, HandlerType, Locals, HandlerInv, Serving, Reserved
<1>3. CardType'
  BY WithdrawType DEF SweepRow, ExpireApproval, Inv, TypeOK
<1> QED
  BY <1>0, <1>1, <1>2, <1>3, RowStep
  DEF SweepRow, operatorVars, Inv, TypeOK, RowType

LEMMA SweepDoneKeeps == ASSUME Inv, SweepDone PROVE Inv'
<1> USE DEF At, Goto
<1>1. HandlerType'
  BY DEF SweepDone, Inv, TypeOK, HandlerType, PCs
<1>2. HandlerInv'
  BY DEF SweepDone, Inv, HandlerInv, Serving, Reserved
<1> QED
  BY <1>1, <1>2, LocalStep DEF SweepDone

LEMMA SubmitLookupKeeps == ASSUME Inv, SubmitLookup PROVE Inv'
<1> USE DEF At, Goto
<1>0. Lookup(h.act) \in Manifests \cup {None}
  BY LookupType DEF SubmitLookup, Inv, TypeOK, HandlerInv
<1>1. HandlerType'
  <2>1. CASE h' = [h EXCEPT !.out = "not_found"] /\ pc' = "respond"
    BY <2>1 DEF Inv, TypeOK, HandlerType, Locals, Outcomes, PCs
  <2>2. CASE h' = [h EXCEPT !.gen = Lookup(h.act)] /\ pc' = "reserve"
    BY <2>2, <1>0 DEF Inv, TypeOK, HandlerType, Locals, PCs
  <2> QED BY <2>1, <2>2 DEF SubmitLookup
<1>2. HandlerInv'
  BY DEF SubmitLookup, Inv, TypeOK, HandlerType, Locals, HandlerInv, Serving, Reserved
<1> QED
  BY <1>1, <1>2, LocalStep DEF SubmitLookup

LEMMA ReserveRefusedKeeps == ASSUME Inv, ReserveRefused PROVE Inv'
<1> USE DEF At, Goto
<1>1. HandlerType'
  BY DEF ReserveRefused, Inv, TypeOK, HandlerType, Locals, PCs, Outcomes
<1>2. HandlerInv'
  BY DEF ReserveRefused, Inv, TypeOK, HandlerType, Locals, HandlerInv, Serving, Reserved
<1> QED
  BY <1>1, <1>2, LocalStep DEF ReserveRefused

\* The answer a stored status gives is an outcome, backed by that status.
LEMMA OutcomeBacked ==
  ASSUME NEW st \in LiveStatus \cup Terminal
  PROVE  /\ OutcomeOf(st) \in Outcomes /\ OutcomeOf(st) # "none"
         /\ OutcomeOf(st) \in NotRun => st \in NotRunStatus
         /\ OutcomeOf(st) = "ok" => st = "completed"
  BY DEF OutcomeOf, LiveStatus, Terminal, Outcomes, NotRun, NotRunStatus

LEMMA ReserveReusedKeeps == ASSUME Inv, ReserveReused PROVE Inv'
<1> USE DEF At, Goto
<1>1. PICK r \in Prior(Owner[h.tok], h.key) :
        h' = [h EXCEPT !.r = r, !.reused = TRUE,
                       !.out = IF req[r].pay = h.pay /\ req[r].act = h.act
                               THEN OutcomeOf(status[r]) ELSE "conflict"]
  BY DEF ReserveReused
<1>2. r \in ReqIds /\ req[r] # None /\ status[r] \in LiveStatus \cup Terminal
  BY DEF Prior, Inv, TypeOK, RowType, StatusType, RowsInv
<1> DEFINE o == IF req[r].pay = h.pay /\ req[r].act = h.act THEN OutcomeOf(status[r]) ELSE "conflict"
<1>3. o \in Outcomes /\ o # "none" /\ Backed(r, o)
  BY <1>2, OutcomeBacked DEF Backed, NotRun, Outcomes
<1>4. h' = [h EXCEPT !.r = r, !.reused = TRUE, !.out = o]
  BY <1>1
<1> HIDE DEF o
<1>5. HandlerType'
  BY <1>2, <1>3, <1>4 DEF ReserveReused, Inv, TypeOK, HandlerType, Locals, PCs
<1>6. HandlerInv'
  BY <1>2, <1>3, <1>4
  DEF ReserveReused, Inv, TypeOK, HandlerType, Locals, HandlerInv, Serving, Reserved, Backed, rowVars
<1> QED
  BY <1>5, <1>6, LocalStep DEF ReserveReused

LEMMA ReserveCreatedKeeps == ASSUME Inv, ReserveCreated PROVE Inv'
<1> USE DEF At, Goto
<1>1. PICK r \in ReqIds :
        /\ req[r] = None
        /\ req' = [req EXCEPT ![r] = [caller |-> Owner[h.tok], act |-> h.act, key |-> h.key,
                                      pay |-> h.pay, gen |-> h.gen, bind |-> policy[Owner[h.tok]]]]
        /\ status' = [status EXCEPT ![r] = "received"]
        /\ kept' = [kept EXCEPT ![r] = TRUE]
        /\ h' = [h EXCEPT !.r = r]
  BY DEF ReserveCreated
<1> DEFINE row == [caller |-> Owner[h.tok], act |-> h.act, key |-> h.key,
                   pay |-> h.pay, gen |-> h.gen, bind |-> policy[Owner[h.tok]]]
<1>2. row \in Rows /\ row # None
  <2>1. h.tok \in Tokens /\ h.act \in Actions /\ h.pay \in Payloads
    BY DEF ReserveCreated, Inv, HandlerInv
  <2>2. Owner[h.tok] \in Callers /\ policy[Owner[h.tok]] \in Policies
    BY <2>1, SetsAssumption DEF Inv, TypeOK, AuthType
  <2>3. h.key \in Keys \cup {None} /\ h.gen \in Manifests \cup {None}
    BY DEF Inv, TypeOK, HandlerType, Locals
  <2> QED BY <2>1, <2>2, <2>3, NoRow DEF Rows
<1>3. status[r] = "none" /\ effects[r] = <<>> /\ ~(told[r] \in NotRun) /\ told[r] # "ok"
  BY <1>1 DEF Inv, RowsInv, Backed, NotRunStatus
<1>4. HandlerType'
  BY <1>1 DEF ReserveCreated, Inv, TypeOK, HandlerType, Locals, PCs
<1>5. TypeOK'
  BY <1>1, <1>2, <1>4
  DEF ReserveCreated, Inv, TypeOK, ClockType, AuthType, CatalogType, RowType, StatusType, AppType,
      CardType, SeenType, LiveStatus, clockVars, authVars, catalogVars, nodVars, seenVars, operatorVars
<1>6. RowsInv'
  BY <1>1, <1>2, <1>3
  DEF ReserveCreated, Inv, TypeOK, RowType, StatusType, RowsInv, Backed, NotRunStatus, NotRun, seenVars
<1>7. KeysInv'
  <2>1. ASSUME NEW s \in ReqIds, req[s] # None, req[s].caller = row.caller, req[s].key = row.key, row.key # None
        PROVE  FALSE
    BY <2>1 DEF ReserveCreated, Prior
  <2> QED BY <1>1, <2>1 DEF Inv, TypeOK, RowType, KeysInv
<1>8. HandlerInv'
  BY <1>1, <1>2
  DEF ReserveCreated, Inv, TypeOK, RowType, StatusType, HandlerType, Locals, HandlerInv, Serving, Reserved
<1> QED
  BY <1>5, <1>6, <1>7, <1>8 DEF Inv

LEMMA SubmitEndsKeeps ==
  ASSUME Inv, NEW st \in {"not_found", "denied", "invalid"}, SubmitEnds(st)
  PROVE  Inv'
<1> USE DEF At, Goto
<1>0. h.r \in ReqIds /\ status[h.r] = "received" /\ st \in Terminal /\ st \in NotRunStatus /\ st \in Outcomes
  BY DEF SubmitEnds, Inv, HandlerInv, Serving, Reserved, Terminal, NotRunStatus, Outcomes
<1>1. HandlerType'
  BY <1>0 DEF SubmitEnds, Inv, TypeOK, HandlerType, Locals, PCs
<1>2. StatusType' /\ kept' \in [ReqIds -> BOOLEAN]
  BY <1>0, TerminateType DEF SubmitEnds, Inv, TypeOK
<1>3. RowsMove /\ status'[h.r] = st
  BY <1>0 DEF SubmitEnds, Terminate, RowsMove, Move, Inv, TypeOK, RowType, StatusType
<1>4. HandlerInv'
  BY <1>0, <1>3
  DEF SubmitEnds, Inv, TypeOK, HandlerType, Locals, HandlerInv, Serving, Reserved, Backed, NotRun
<1> QED
  BY <1>1, <1>2, <1>3, <1>4, RowStep
  DEF SubmitEnds, Inv, TypeOK, RowType, AppType, CardType, nodVars, operatorVars

LEMMA SubmitDecidesKeeps == ASSUME Inv, SubmitDecides PROVE Inv'
<1> USE DEF At, Goto
<1>1. HandlerType'
  BY DEF SubmitDecides, Inv, TypeOK, HandlerType, PCs
<1>2. HandlerInv'
  BY DEF SubmitDecides, Inv, HandlerInv, Serving, Reserved, rowVars
<1> QED
  BY <1>1, <1>2, LocalStep DEF SubmitDecides

LEMMA OpenCardKeeps == ASSUME Inv, OpenCard PROVE Inv'
<1> USE DEF At, Goto, rowVars
<1>1. HandlerType'
  BY DEF OpenCard, Inv, TypeOK, HandlerType, PCs
<1>2. HandlerInv'
  BY DEF OpenCard, Inv, HandlerInv, Serving, Reserved
<1>3. CardType'
  BY DEF OpenCard, Inv, TypeOK, CardType, CardState
<1>4. RowsMove
  BY DEF OpenCard, RowsMove, Move
<1> QED
  BY <1>1, <1>2, <1>3, <1>4, RowStep
  DEF OpenCard, Inv, TypeOK, RowType, StatusType, AppType, operatorVars

LEMMA OpenFailsKeeps == ASSUME Inv, OpenFails PROVE Inv'
<1> USE DEF At, Goto
<1>0. h.r \in ReqIds /\ status[h.r] = "received" /\ "failed" \in Terminal
  BY DEF OpenFails, Inv, HandlerInv, Serving, Reserved, Terminal
<1>1. HandlerType'
  BY DEF OpenFails, Inv, TypeOK, HandlerType, Locals, PCs, Outcomes
<1>2. StatusType' /\ kept' \in [ReqIds -> BOOLEAN]
  BY <1>0, TerminateType DEF OpenFails, Inv, TypeOK
<1>3. RowsMove /\ status'[h.r] = "failed"
  BY <1>0 DEF OpenFails, Terminate, RowsMove, Move, NotRunStatus, Inv, TypeOK, RowType, StatusType
<1>4. HandlerInv'
  BY <1>0, <1>3
  DEF OpenFails, Inv, TypeOK, HandlerType, Locals, HandlerInv, Serving, Reserved, Backed, NotRun, NotRunStatus
<1>5. CardType'
  BY <1>0 DEF OpenFails, Inv, TypeOK, CardType, CardState
<1> QED
  BY <1>1, <1>2, <1>3, <1>4, <1>5, RowStep
  DEF OpenFails, Inv, TypeOK, RowType, AppType, operatorVars

LEMMA CreateApprovalKeeps == ASSUME Inv, CreateApproval PROVE Inv'
<1> USE DEF At, Goto
<1>1. HandlerType'
  BY DEF CreateApproval, Inv, TypeOK, HandlerType, PCs
<1>2. HandlerInv'
  BY DEF CreateApproval, Inv, HandlerInv, Serving, Reserved
<1>3. AppType'
  BY DEF CreateApproval, Inv, TypeOK, RowType, AppType, AppStatus
<1>4. expires' \in [ReqIds -> Nat]
  <2>1. PICK n \in RecentClock : expires' = [expires EXCEPT ![h.r] = n + TTL]
    BY DEF CreateApproval
  <2>2. n \in Int /\ n >= 0
    BY <2>1, BoundsAssumption DEF RecentClock, Inv, TypeOK, ClockType
  <2>3. n + TTL \in Nat
    BY <2>2, BoundsAssumption
  <2> QED BY <2>1, <2>3 DEF Inv, TypeOK, RowType
<1>5. RowsMove
  BY DEF CreateApproval, RowsMove, Move
<1> QED
  BY <1>1, <1>2, <1>3, <1>4, <1>5, RowStep
  DEF CreateApproval, Inv, TypeOK, RowType, StatusType, CardType, nodVars, operatorVars

LEMMA MarkPendingKeeps == ASSUME Inv, MarkPending PROVE Inv'
<1> USE DEF At, Goto
<1>0. h.r \in ReqIds /\ status[h.r] = "received"
  BY DEF MarkPending, Inv, HandlerInv, Serving, Reserved
<1>1. HandlerType'
  BY DEF MarkPending, Inv, TypeOK, HandlerType, Locals, PCs, Outcomes
<1>2. StatusType' /\ status'[h.r] = "pending_approval"
  BY <1>0 DEF MarkPending, Inv, TypeOK, RowType, StatusType, LiveStatus
<1>3. RowsMove
  BY <1>0 DEF MarkPending, RowsMove, Move, Inv, TypeOK, RowType, StatusType
<1>4. HandlerInv'
  BY <1>0, <1>2
  DEF MarkPending, Inv, TypeOK, HandlerType, Locals, HandlerInv, Serving, Reserved, Backed, NotRun
<1> QED
  BY <1>1, <1>2, <1>3, <1>4, RowStep
  DEF MarkPending, Inv, TypeOK, RowType, AppType, CardType, nodVars, operatorVars

\* Both lookups before a commit point only refresh the generation in the locals.
LEMMA LookupAgainKeeps ==
  ASSUME Inv, NEW from, NEW to, LookupAgain(from, to),
         \/ from = "lookup_allowed" /\ to = "claim_received"
         \/ from = "lookup_approved" /\ to = "claim_approval"
  PROVE  Inv'
<1> USE DEF At, Goto
<1>0. req[h.r].act \in Actions
  BY DEF LookupAgain, Inv, TypeOK, RowType, HandlerInv, Serving, Reserved, Rows
<1>1. Lookup(req[h.r].act) \in Manifests \cup {None}
  BY <1>0, LookupType DEF Inv, TypeOK
<1>2. HandlerType'
  BY <1>1 DEF LookupAgain, Inv, TypeOK, HandlerType, Locals, PCs
<1>3. HandlerInv'
  BY DEF LookupAgain, Inv, TypeOK, HandlerType, Locals, HandlerInv, Serving, Reserved, rowVars
<1> QED
  BY <1>2, <1>3, LocalStep DEF LookupAgain

\* A claim that goes through sets the row executing, with its effect still to come.
LEMMA ClaimMoves ==
  ASSUME Inv, NEW r \in ReqIds, status[r] \in {"received", "pending_approval"},
         status' = [status EXCEPT ![r] = "executing"]
  PROVE  StatusType' /\ RowsMove /\ status'[r] = "executing" /\ effects[r] = <<>>
  BY DEF Inv, TypeOK, RowType, StatusType, RowsInv, RowsMove, Move, LiveStatus

\* Ending an open row is a move, and the row's answer is then backed.
LEMMA EndMoves ==
  ASSUME Inv, NEW r \in ReqIds, status[r] \in {"received", "pending_approval"},
         NEW st \in NotRunStatus, Terminate(r, st)
  PROVE  StatusType' /\ kept' \in [ReqIds -> BOOLEAN] /\ RowsMove /\ status'[r] = st
<1>1. st \in Terminal
  BY DEF NotRunStatus, Terminal
<1> QED
  BY <1>1, TerminateType DEF Terminate, RowsMove, Move, Inv, TypeOK, RowType, StatusType

\* Answering for row r from its status keeps the handler's part, wherever it answers from.
LEMMA AnswerKeeps ==
  ASSUME Inv, StatusType', NEW r \in ReqIds, h.r = r, req[r] # None, status'[r] # "none",
         NEW u \in Nat, h' = [h EXCEPT !.t = u, !.out = OutcomeOf(status'[r])],
         pc' \in {"respond", "reauthorize"}, pc \notin {"idle", "respond"}, UNCHANGED <<up, req>>, up
  PROVE  HandlerType' /\ HandlerInv'
<1> DEFINE o == OutcomeOf(status'[r])
<1>1. status'[r] \in LiveStatus \cup Terminal
  BY DEF StatusType
<1>2. /\ o \in Outcomes /\ o # "none"
      /\ o \in NotRun => status'[r] \in NotRunStatus
      /\ o = "ok" => status'[r] \in {"completed", "result_expired"}
  BY <1>1, OutcomeBacked
<1>3. h' = [h EXCEPT !.t = u, !.out = o]
  OBVIOUS
<1> HIDE DEF o
<1>4. HandlerType'
  BY <1>2, <1>3, ZenonT(60) DEF Inv, TypeOK, HandlerType, Locals, PCs
<1>5. h'.r = r /\ h'.out = o /\ h'.kind = h.kind /\ h'.tok = h.tok
  BY <1>3 DEF Inv, TypeOK, HandlerType, Locals
<1>6. h.kind # "none" /\ h.tok \in Tokens
  BY DEF Inv, HandlerInv
<1>7. Backed(h.r, h.out)'
  BY <1>2, <1>5 DEF Backed
<1>8. HandlerInv'
  BY <1>2, <1>5, <1>6, <1>7 DEF HandlerInv, Serving, Reserved
<1> QED
  BY <1>4, <1>8

LEMMA ClaimReceivedKeeps == ASSUME Inv, ClaimReceived PROVE Inv'
<1> USE DEF At, Goto
<1>0. h.r \in ReqIds /\ status[h.r] = "received" /\ req[h.r] # None /\ h \in Locals
  BY DEF ClaimReceived, Inv, TypeOK, HandlerType, HandlerInv, Serving, Reserved
<1>1. CASE status' = [status EXCEPT ![h.r] = "executing"] /\ pc' = "execute" /\ UNCHANGED <<kept, h>>
             /\ StillBound(h.r, h.gen)
  <2>1. StatusType' /\ RowsMove /\ status'[h.r] = "executing" /\ effects[h.r] = <<>>
    BY <1>0, <1>1, ClaimMoves
  <2>2. h.gen \in Manifests /\ req[h.r].gen = h.gen
    BY <1>0, <1>1 DEF StillBound, Locals
  <2>3. HandlerType'
    BY <1>1 DEF Inv, TypeOK, HandlerType, PCs
  <2>4. HandlerInv'
    BY <1>0, <1>1, <2>1, <2>2 DEF ClaimReceived, Inv, HandlerInv, Serving, Reserved, seenVars
  <2> QED
    BY <1>1, <2>1, <2>3, <2>4, RowStep
    DEF ClaimReceived, Inv, TypeOK, RowType, AppType, CardType, nodVars, operatorVars
<1>2. CASE Terminate(h.r, "denied") /\ pc' = "respond" /\ h' = [h EXCEPT !.out = OutcomeOf(status'[h.r])]
  <2>1. StatusType' /\ kept' \in [ReqIds -> BOOLEAN] /\ RowsMove /\ status'[h.r] = "denied"
    BY <1>0, <1>2, EndMoves DEF NotRunStatus
  <2>2. h' = [h EXCEPT !.t = h.t, !.out = OutcomeOf(status'[h.r])] /\ h.t \in Nat
    BY <1>0, <1>2 DEF Locals
  <2>3. HandlerType' /\ HandlerInv'
    BY <1>0, <1>2, <2>1, <2>2, AnswerKeeps DEF ClaimReceived
  <2> QED
    BY <2>1, <2>3, RowStep
    DEF ClaimReceived, Inv, TypeOK, RowType, AppType, CardType, nodVars, operatorVars
<1> QED
  BY <1>0, <1>1, <1>2 DEF ClaimReceived

-----------------------------------------------------------------------------
(* Execution *)

LEMMA DispatchKeeps == ASSUME Inv, Dispatch PROVE Inv'
<1> USE DEF At, Goto
<1>0. /\ h.r \in ReqIds /\ status[h.r] = "executing" /\ effects[h.r] = <<>>
      /\ h.gen \in Manifests /\ req[h.r].gen = h.gen /\ req[h.r] # None
  BY DEF Dispatch, Inv, HandlerInv, Serving
<1>1. PICK sent \in BOOLEAN, a \in {"ok", "refused", "error"} :
        /\ a = "ok" => sent
        /\ a = "refused" => ~sent
        /\ effects' = IF sent THEN [effects EXCEPT ![h.r] = Append(@, h.gen)] ELSE effects
        /\ h' = [h EXCEPT !.ans = a]
        /\ pc' = "record"
  BY <1>0 DEF Dispatch
<1>2. /\ effects' \in [ReqIds -> Seq(Manifests)]
      /\ \A s \in ReqIds \ {h.r} : effects'[s] = effects[s]
      /\ effects'[h.r] = IF sent THEN <<h.gen>> ELSE <<>>
  BY <1>0, <1>1 DEF Inv, TypeOK, SeenType
<1>3. HandlerType'
  BY <1>1 DEF Dispatch, Inv, TypeOK, HandlerType, Locals, PCs
<1>4. TypeOK'
  BY <1>2, <1>3
  DEF Dispatch, Inv, TypeOK, ClockType, AuthType, CatalogType, RowType, StatusType, AppType,
      CardType, SeenType, clockVars, authVars, catalogVars, rowVars, nodVars, operatorVars
<1>5. RowsInv' /\ KeysInv'
  <2>1. KeysInv'
    BY DEF Dispatch, Inv, KeysInv, rowVars
  <2>2. RowsInv'
    BY <1>0, <1>2 DEF Dispatch, Inv, RowsInv, rowVars, Backed, NotRunStatus
  <2> QED BY <2>1, <2>2
<1>6. HandlerInv'
  BY <1>0, <1>1, <1>2
  DEF Dispatch, Inv, TypeOK, HandlerType, Locals, HandlerInv, Serving, Reserved, rowVars
<1> QED
  BY <1>4, <1>5, <1>6 DEF Inv

LEMMA RecordResultKeeps == ASSUME Inv, RecordResult PROVE Inv'
<1> USE DEF At, Goto
<1>0. /\ h.r \in ReqIds /\ status[h.r] = "executing" /\ req[h.r] # None /\ h \in Locals
      /\ h.ans \in {"ok", "refused", "error"}
      /\ h.ans = "ok" => effects[h.r] # <<>>
      /\ h.ans = "refused" => effects[h.r] = <<>>
  BY DEF RecordResult, Inv, TypeOK, HandlerType, HandlerInv, Serving
<1>1. PICK st \in {"completed", "failed", "unknown"} :
        /\ st = ResultStatus(h.ans)
        /\ st = "completed" => effects[h.r] # <<>>
        /\ st = "failed" => effects[h.r] = <<>>
  BY <1>0 DEF ResultStatus
<1>2. st \in Terminal
  BY DEF Terminal
<1>3. StatusType' /\ kept' \in [ReqIds -> BOOLEAN] /\ status'[h.r] = st
  BY <1>0, <1>1, <1>2, TerminateType DEF RecordResult, Terminate, Inv, TypeOK, RowType, StatusType
<1>4. RowsMove
  BY <1>0, <1>1 DEF RecordResult, Terminate, RowsMove, Move, NotRunStatus, Inv, TypeOK, RowType, StatusType
<1>5. h' = [h EXCEPT !.t = h.t, !.out = OutcomeOf(status'[h.r])] /\ h.t \in Nat
  BY <1>0, <1>1, <1>3 DEF RecordResult, Locals
<1>6. HandlerType' /\ HandlerInv'
  BY <1>0, <1>3, <1>5, AnswerKeeps DEF RecordResult
<1> QED
  BY <1>3, <1>4, <1>6, RowStep
  DEF RecordResult, Inv, TypeOK, RowType, AppType, CardType, nodVars, operatorVars

-----------------------------------------------------------------------------
(* Polling *)

LEMMA PollStartKeeps ==
  ASSUME Inv, NEW t \in Tokens, NEW r \in ReqIds, PollStart(t, r)
  PROVE  Inv'
<1> USE NoneAssumption DEF At, Goto
<1> DEFINE was == status[r] = "pending_approval"
<1>0. was \in BOOLEAN /\ h' = [NoLocals EXCEPT !.kind = "poll", !.tok = t, !.r = r, !.pend = was]
  BY DEF PollStart
<1> HIDE DEF was
<1>1. HandlerType'
  <2>1. NoLocals \in Locals
    BY DEF NoLocals, Locals, AppStatus
  <2>2. h' \in Locals
    BY <1>0, <2>1 DEF Locals
  <2> QED BY <2>2 DEF PollStart, HandlerType, PCs
<1>2. HandlerInv'
  BY DEF PollStart, NoLocals, Inv, HandlerInv, Serving, Reserved, rowVars
<1> QED
  BY <1>1, <1>2, LocalStep DEF PollStart

\* An idle handler has nothing to answer for.
LEMMA IdleKeeps ==
  ASSUME h' = NoLocals, pc' = "idle"
  PROVE  HandlerType' /\ HandlerInv'
<1>1. HandlerType'
  BY DEF NoLocals, HandlerType, Locals, PCs, AppStatus
<1>2. HandlerInv'
  BY DEF HandlerInv, Serving, Reserved
<1> QED BY <1>1, <1>2

LEMMA AuthorizeKeeps ==
  ASSUME Inv, NEW from, NEW to, Authorize(from, to),
         \/ from = "authorize" /\ to = "resolve"
         \/ from = "reauthorize" /\ to = "respond"
  PROVE  Inv'
<1> USE DEF At, Goto
<1>1. CASE pc' = "idle" /\ h' = NoLocals
  BY <1>1, IdleKeeps, LocalStep DEF Authorize
<1>2. CASE pc' = to /\ h' = h
  <2>1. HandlerType'
    BY <1>2 DEF Inv, TypeOK, HandlerType, PCs
  <2>2. HandlerInv'
    BY <1>2 DEF Authorize, Inv, HandlerInv, Serving, Reserved, Backed, rowVars
  <2> QED BY <2>1, <2>2, LocalStep DEF Authorize
<1> QED
  BY <1>1, <1>2 DEF Authorize

\* What the steps of a poll know of the row they serve.
LEMMA PollRow ==
  ASSUME Inv, pc \in Serving
  PROVE  /\ h.r \in ReqIds /\ req[h.r] # None /\ status[h.r] # "none"
         /\ h \in Locals /\ RowType /\ now \in Nat /\ h.t \in Nat
<1>1. h.r \in ReqIds /\ req[h.r] # None
  BY DEF Inv, HandlerInv
<1>2. status[h.r] # "none"
  BY <1>1 DEF Inv, RowsInv
<1>3. h \in Locals /\ RowType /\ now \in Nat
  BY DEF Inv, TypeOK, HandlerType, ClockType
<1>4. h.t \in Nat
  BY <1>3 DEF Locals
<1> QED BY <1>1, <1>2, <1>3, <1>4

\* A poll that leaves the rows alone and answers with the row as it stands.
LEMMA AnswerAsIs ==
  ASSUME Inv, up, pc \in Serving, pc' = "reauthorize",
         NEW u \in Nat, h' = [h EXCEPT !.t = u, !.out = OutcomeOf(status[h.r])],
         UNCHANGED <<clockVars, up, authVars, catalogVars, rowVars, nodVars, seenVars, operatorVars>>
  PROVE  Inv'
<1>1. h.r \in ReqIds /\ req[h.r] # None /\ status[h.r] # "none" /\ RowType
  BY PollRow
<1>2. StatusType' /\ status' = status /\ req' = req
  BY <1>1 DEF RowType, StatusType, rowVars
<1>3. pc \notin {"idle", "respond"}
  BY DEF Serving, Reserved
<1>4. HandlerType' /\ HandlerInv'
  BY <1>1, <1>2, <1>3, AnswerKeeps
<1> QED
  BY <1>4, LocalStep

\* A poll that finishes the row and answers with what it then says.
LEMMA AnswerFinished ==
  ASSUME Inv, up, pc \in Serving, pc' = "reauthorize",
         NEW st \in NotRunStatus, NEW ap \in AppStatus, NEW dl \in BOOLEAN, NEW n,
         FinishPending(h.r, st, ap, dl, n), CardType',
         NEW u \in Nat, h' = [h EXCEPT !.t = u, !.out = OutcomeOf(status'[h.r])],
         UNCHANGED <<clockVars, up, authVars, catalogVars, req, expires, decidedAt, seenVars, operatorVars>>
  PROVE  Inv'
<1>1. h.r \in ReqIds /\ req[h.r] # None /\ status[h.r] # "none" /\ RowType
  BY PollRow
<1>2. /\ StatusType' /\ AppType' /\ kept' \in [ReqIds -> BOOLEAN]
      /\ RowsMove
      /\ status'[h.r] \in Terminal \/ status'[h.r] = status[h.r]
  BY <1>1, FinishMoves
<1>3. status'[h.r] # "none" /\ pc \notin {"idle", "respond"}
  BY <1>1, <1>2 DEF Terminal, Serving, Reserved
<1>4. HandlerType' /\ HandlerInv'
  BY <1>1, <1>2, <1>3, AnswerKeeps
<1> QED
  BY <1>1, <1>2, <1>4, RowStep DEF operatorVars, RowType, Inv, TypeOK

\* A poll that goes on with the same row.
LEMMA PollOn ==
  ASSUME Inv, up, pc \in Serving, pc' \in {"surface", "lookup_approved", "finish"},
         NEW u \in Nat, h' = [h EXCEPT !.t = u], pc' = "finish" => h.ans \in AppStatus,
         UNCHANGED <<clockVars, up, authVars, catalogVars, rowVars, nodVars, seenVars, operatorVars>>
  PROVE  Inv'
<1>1. HandlerType'
  BY DEF Inv, TypeOK, HandlerType, Locals, PCs
<1>2. h'.r = h.r /\ h'.kind = h.kind /\ h'.tok = h.tok /\ h'.ans = h.ans
  BY DEF Inv, TypeOK, HandlerType, Locals
<1>3. HandlerInv'
  BY <1>2 DEF Inv, HandlerInv, Serving, Reserved, rowVars
<1> QED
  BY <1>1, <1>3, LocalStep

LEMMA ResolveKeeps == ASSUME Inv, Resolve PROVE Inv'
<1> USE DEF At, Goto
<1>0. up /\ pc \in Serving /\ now \in Nat /\ h.r \in ReqIds
  BY PollRow DEF Resolve, Serving
<1>1. CASE /\ h' = [h EXCEPT !.t = now, !.out = OutcomeOf(status[h.r])]
           /\ pc' = "reauthorize" /\ UNCHANGED <<status, kept, app, card>>
  BY <1>0, <1>1, AnswerAsIs DEF Resolve, rowVars, nodVars
<1>2. CASE /\ ExpireApproval(h.r, now) /\ pc' = "reauthorize"
           /\ h' = [h EXCEPT !.t = now, !.out = OutcomeOf(status'[h.r])]
  <2>1. CardType'
    BY <1>0, <1>2, WithdrawType DEF ExpireApproval, Inv, TypeOK
  <2>2. "expired" \in NotRunStatus /\ "expired" \in AppStatus
    BY DEF NotRunStatus, AppStatus
  <2> QED BY <1>0, <1>2, <2>1, <2>2, AnswerFinished DEF Resolve, ExpireApproval
<1>3. CASE h' = [h EXCEPT !.t = now] /\ pc' = "surface" /\ UNCHANGED <<status, kept, app, card>>
  BY <1>0, <1>3, PollOn DEF Resolve, rowVars, nodVars
<1> QED
  BY <1>1, <1>2, <1>3 DEF Resolve

LEMMA SurfacePollKeeps == ASSUME Inv, SurfacePoll PROVE Inv'
<1> USE DEF At, Goto
<1>1. h.r \in ReqIds /\ card[h.r] \in CardState
  BY PollRow DEF SurfacePoll, Serving, Inv, TypeOK, CardType
<1>2. ToState(card[h.r]) \in AppStatus
  BY <1>1 DEF ToState, CardState, AppStatus
<1>3. HandlerType'
  BY <1>2 DEF SurfacePoll, Inv, TypeOK, HandlerType, Locals, PCs
<1>4. HandlerInv'
  BY <1>2 DEF SurfacePoll, Inv, TypeOK, HandlerType, Locals, HandlerInv, Serving, Reserved, rowVars
<1> QED
  BY <1>3, <1>4, LocalStep DEF SurfacePoll

LEMMA AfterPollKeeps == ASSUME Inv, AfterPoll PROVE Inv'
<1> USE DEF At, Goto
<1>0. up /\ pc \in Serving /\ now \in Nat /\ h.r \in ReqIds /\ h.ans \in AppStatus
  BY PollRow DEF AfterPoll, Serving, Inv, HandlerInv
<1>1. CASE /\ h' = [h EXCEPT !.t = now, !.out = OutcomeOf(status[h.r])]
           /\ pc' = "reauthorize" /\ UNCHANGED <<status, kept, app, card>>
  BY <1>0, <1>1, AnswerAsIs DEF AfterPoll, rowVars, nodVars
<1>2. CASE /\ ExpireApproval(h.r, now) /\ pc' = "reauthorize"
           /\ h' = [h EXCEPT !.t = now, !.out = OutcomeOf(status'[h.r])]
  <2>1. CardType'
    BY <1>0, <1>2, WithdrawType DEF ExpireApproval, Inv, TypeOK
  <2>2. "expired" \in NotRunStatus /\ "expired" \in AppStatus
    BY DEF NotRunStatus, AppStatus
  <2> QED BY <1>0, <1>2, <2>1, <2>2, AnswerFinished DEF AfterPoll, ExpireApproval
<1>3. CASE /\ h' = [h EXCEPT !.t = now] /\ pc' \in {"lookup_approved", "finish"}
           /\ UNCHANGED <<status, kept, app, card>>
  BY <1>0, <1>3, PollOn DEF AfterPoll, rowVars, nodVars
<1> QED
  BY <1>1, <1>2, <1>3 DEF AfterPoll

LEMMA FinishAnsweredKeeps == ASSUME Inv, FinishAnswered PROVE Inv'
<1> USE DEF At, Goto
<1>0. /\ up /\ pc \in Serving /\ pc' = "reauthorize" /\ h.ans \in AppStatus /\ h \in Locals /\ h.t \in Nat
  BY PollRow DEF FinishAnswered, Serving, Inv, HandlerInv
<1>1. PICK n \in RecentClock :
        FinishPending(h.r, IF h.ans = "rejected" THEN "denied" ELSE "expired", h.ans, FALSE, n)
  BY DEF FinishAnswered
<1>2. PICK st \in NotRunStatus : FinishPending(h.r, st, h.ans, FALSE, n)
  BY <1>1 DEF NotRunStatus
<1>3. h' = [h EXCEPT !.t = h.t, !.out = OutcomeOf(status'[h.r])]
  BY <1>0 DEF FinishAnswered, Locals
<1>4. CardType'
  BY DEF FinishAnswered, Inv, TypeOK, CardType, nodVars
<1> QED
  BY <1>0, <1>2, <1>3, <1>4, AnswerFinished DEF FinishAnswered, nodVars

LEMMA ClaimApprovalKeeps == ASSUME Inv, ClaimApproval PROVE Inv'
<1> USE DEF At, Goto
<1>0. /\ up /\ pc \in Serving /\ h.r \in ReqIds /\ req[h.r] # None /\ h \in Locals /\ h.t \in Nat
      /\ RowType
  BY PollRow DEF ClaimApproval, Serving
<1>1. CASE /\ status[h.r] = "pending_approval" /\ StillBound(h.r, h.gen)
           /\ status' = [status EXCEPT ![h.r] = "executing"]
           /\ app' = [app EXCEPT ![h.r] = "approved"]
           /\ pc' = "execute" /\ UNCHANGED <<kept, h>>
  <2>1. StatusType' /\ RowsMove /\ status'[h.r] = "executing" /\ effects[h.r] = <<>>
    BY <1>0, <1>1, ClaimMoves
  <2>2. h.gen \in Manifests /\ req[h.r].gen = h.gen
    BY <1>0, <1>1 DEF StillBound, Locals
  <2>3. HandlerType'
    BY <1>1 DEF Inv, TypeOK, HandlerType, PCs
  <2>4. HandlerInv'
    BY <1>0, <1>1, <2>1, <2>2 DEF ClaimApproval, Inv, HandlerInv, Serving, Reserved, seenVars
  <2>5. AppType'
    BY <1>1 DEF Inv, TypeOK, RowType, AppType, AppStatus
  <2> QED
    BY <1>1, <2>1, <2>3, <2>4, <2>5, RowStep
    DEF ClaimApproval, Inv, TypeOK, RowType, CardType, nodVars, operatorVars
<1>2. ASSUME NEW st \in {"expired", "denied"}, status[h.r] = "pending_approval", Terminate(h.r, st),
             AppType', h' = [h EXCEPT !.out = OutcomeOf(status'[h.r])], pc' = "reauthorize"
      PROVE  Inv'
  <2>1. StatusType' /\ kept' \in [ReqIds -> BOOLEAN] /\ RowsMove /\ status'[h.r] = st
    BY <1>0, <1>2, EndMoves DEF NotRunStatus
  <2>2. h' = [h EXCEPT !.t = h.t, !.out = OutcomeOf(status'[h.r])]
    BY <1>0, <1>2 DEF Locals
  <2>3. HandlerType' /\ HandlerInv'
    BY <1>0, <1>2, <2>1, <2>2, AnswerKeeps DEF ClaimApproval
  <2> QED
    BY <1>2, <2>1, <2>3, RowStep
    DEF ClaimApproval, Inv, TypeOK, RowType, CardType, nodVars, operatorVars
<1>3. CASE /\ h' = [h EXCEPT !.out = OutcomeOf(status[h.r])] /\ pc' = "reauthorize"
           /\ UNCHANGED <<status, kept, app>>
  <2>1. h' = [h EXCEPT !.t = h.t, !.out = OutcomeOf(status[h.r])]
    BY <1>0, <1>3 DEF Locals
  <2> QED BY <1>0, <1>3, <2>1, AnswerAsIs DEF ClaimApproval, rowVars
<1>4. ASSUME NEW late \in BOOLEAN,
             app' = IF app[h.r] = "pending"
                    THEN [app EXCEPT ![h.r] = IF late THEN "expired" ELSE "cancelled"] ELSE app
      PROVE  AppType'
  BY <1>0, <1>4 DEF RowType, AppType, AppStatus
<1>5. PICK n \in RecentClock :
        \/ /\ status[h.r] = "pending_approval" /\ StillBound(h.r, h.gen)
           /\ status' = [status EXCEPT ![h.r] = "executing"]
           /\ app' = [app EXCEPT ![h.r] = "approved"]
           /\ pc' = "execute" /\ UNCHANGED <<kept, h>>
        \/ /\ status[h.r] = "pending_approval"
           /\ Terminate(h.r, IF app[h.r] = "pending" /\ expires[h.r] <= n THEN "expired" ELSE "denied")
           /\ app' = IF app[h.r] = "pending"
                     THEN [app EXCEPT ![h.r] = IF app[h.r] = "pending" /\ expires[h.r] <= n
                                               THEN "expired" ELSE "cancelled"] ELSE app
           /\ h' = [h EXCEPT !.out = OutcomeOf(status'[h.r])]
           /\ pc' = "reauthorize"
        \/ /\ h' = [h EXCEPT !.out = OutcomeOf(status[h.r])] /\ pc' = "reauthorize"
           /\ UNCHANGED <<status, kept, app>>
  BY DEF ClaimApproval
<1>6. CASE app[h.r] = "pending" /\ expires[h.r] <= n
  BY <1>1, <1>2, <1>3, <1>4, <1>5, <1>6
<1>7. CASE ~(app[h.r] = "pending" /\ expires[h.r] <= n)
  BY <1>1, <1>2, <1>3, <1>4, <1>5, <1>7
<1> QED
  BY <1>6, <1>7

LEMMA RespondKeeps == ASSUME Inv, Respond PROVE Inv'
<1> USE DEF At, Goto
<1>0. HandlerType' /\ HandlerInv'
  BY IdleKeeps DEF Respond
<1>1. h \in Locals /\ h.out \in Outcomes
  BY DEF Respond, Inv, TypeOK, HandlerType, HandlerInv, Locals
<1>2. told' \in [ReqIds -> Outcomes \cup {"none"}]
  BY <1>1 DEF Respond, Inv, TypeOK, SeenType, Locals
<1>3. events' \in [ReqIds -> Seq({"completed", "denied", "failed", "expired", "unknown"})]
  <2>1. \A o \in DOMAIN TerminalEvent : TerminalEvent[o] \in {"completed", "denied", "failed", "expired", "unknown"}
    BY DEF TerminalEvent
  <2>2. CASE events' = events
    BY <2>2 DEF Inv, TypeOK, SeenType
  <2>3. CASE h.r \in ReqIds /\ h.out \in DOMAIN TerminalEvent
             /\ events' = [events EXCEPT ![h.r] = Append(@, TerminalEvent[h.out])]
    <3> DEFINE e == TerminalEvent[h.out]
    <3>1. e \in {"completed", "denied", "failed", "expired", "unknown"}
      BY <2>1, <2>3
    <3> HIDE DEF e
    <3> QED BY <2>3, <3>1 DEF e, Inv, TypeOK, SeenType
  <2> QED BY <1>1, <2>2, <2>3 DEF Respond, Locals
<1>4. TypeOK'
  BY <1>0, <1>2, <1>3
  DEF Respond, Inv, TypeOK, ClockType, AuthType, CatalogType, RowType, StatusType, AppType,
      CardType, SeenType, clockVars, authVars, catalogVars, rowVars, nodVars, operatorVars
<1>5. RowsInv'
  BY <1>1 DEF Respond, Inv, TypeOK, SeenType, Locals, HandlerInv, RowsInv, Backed, rowVars
<1>6. KeysInv'
  BY DEF Respond, Inv, KeysInv, rowVars
<1> QED
  BY <1>0, <1>4, <1>5, <1>6 DEF Inv

-----------------------------------------------------------------------------
(* Failures, operators and the world *)

\* A step that leaves the rows, and what was seen of them, alone.
LEMMA QuietStep ==
  ASSUME Inv, HandlerType', HandlerInv', ClockType', AuthType', CatalogType', CardType',
         decidedAt' \in [ReqIds -> Nat], listing' \subseteq Callers \X {"count", "list"}, work' \subseteq ReqIds,
         UNCHANGED <<rowVars, seenVars>>
  PROVE  Inv'
<1> USE DEF rowVars, seenVars
<1>1. TypeOK'
  BY DEF Inv, TypeOK, RowType, StatusType, AppType, SeenType
<1>2. RowsInv' /\ KeysInv'
  BY RowsFrame DEF Inv
<1> QED
  BY <1>1, <1>2 DEF Inv

LEMMA FaultKeeps == ASSUME Inv, Fault PROVE Inv'
<1>1. HandlerType' /\ HandlerInv'
  BY IdleKeeps DEF Fault, InternalError, Crash, Goto
<1>2. ClockType'
  <2>1. now \in Nat /\ faults \in Nat /\ up \in BOOLEAN
    BY DEF Inv, TypeOK, ClockType
  <2>2. now' \in Nat /\ faults' \in Nat
    BY <2>1 DEF Fault, InternalError, Crash
  <2>3. up' \in BOOLEAN
    BY <2>1, Zenon DEF Fault, InternalError, Crash
  <2> QED BY <2>2, <2>3 DEF ClockType
<1> QED
  BY <1>1, <1>2, QuietStep
  DEF Fault, InternalError, Crash, Inv, TypeOK, AuthType, CatalogType, CardType,
      authVars, catalogVars, nodVars, operatorVars

\* Starting the broker and reloading its catalog.
LEMMA LoadKeeps == ASSUME Inv, Start \/ Reload PROVE Inv'
<1> USE DEF clockVars, authVars, nodVars, handlerVars, operatorVars, rowVars, seenVars
<1>1. HandlerType'
  BY DEF Start, Reload, Inv, TypeOK, HandlerType
<1>2. HandlerInv'
  BY DEF Start, Reload, Inv, HandlerInv, Serving, Reserved, Backed
<1>3. ClockType' /\ AuthType' /\ CatalogType' /\ CardType'
  BY DEF Start, Reload, Inv, TypeOK, ClockType, AuthType, CatalogType, CardType
<1> QED
  BY <1>1, <1>2, <1>3, QuietStep DEF Start, Reload, Inv, TypeOK

LEMMA ReconcileKeeps == ASSUME Inv, ReconcileOffline PROVE Inv'
<1> USE DEF handlerVars, rowVars
<1>0. pc' = "idle" /\ h' = h
  BY DEF ReconcileOffline, Inv, HandlerInv
<1>1. HandlerType'
  BY <1>0 DEF Inv, TypeOK, HandlerType, PCs
<1>2. HandlerInv'
  BY <1>0 DEF HandlerInv, Serving, Reserved
<1>3. StatusType'
  BY DEF ReconcileOffline, Inv, TypeOK, RowType, StatusType, Terminal
<1>4. kept' \in [ReqIds -> BOOLEAN]
  <2>1. \A r \in ReqIds : kept[r] \in BOOLEAN
    BY DEF Inv, TypeOK, RowType
  <2> QED BY <2>1, Zenon DEF ReconcileOffline
<1>5. RowsMove
  BY DEF ReconcileOffline, RowsMove, Move
<1> QED
  BY <1>1, <1>2, <1>3, <1>4, <1>5, RowStep
  DEF ReconcileOffline, Inv, TypeOK, RowType, AppType, CardType, nodVars, operatorVars

\* A step outside the handler that touches neither rows nor handler.
LEMMA OutsideQuiet ==
  ASSUME Inv, UNCHANGED <<up, rowVars, seenVars, handlerVars>>
  PROVE  HandlerType' /\ HandlerInv'
<1> USE DEF rowVars, seenVars, handlerVars
<1>1. RowsMove
  BY DEF RowsMove, Move
<1> QED
  BY <1>1, OutsideStep

LEMMA TokenKeeps ==
  ASSUME Inv, NEW t \in Tokens, IssueToken(t) \/ RotateAdd(t) \/ RotateRevoke(t) \/ RevokeToken(t)
  PROVE  Inv'
<1> USE DEF IssueToken, RotateAdd, RotateRevoke, RevokeToken
<1>1. HandlerType' /\ HandlerInv'
  BY OutsideQuiet
<1>2. AuthType'
  BY DEF Inv, TypeOK, AuthType
<1>3. listing' \subseteq Callers \X {"count", "list"} /\ work' \subseteq ReqIds
  BY SetsAssumption DEF Inv, TypeOK, operatorVars
<1> QED
  BY <1>1, <1>2, <1>3, QuietStep
  DEF Inv, TypeOK, ClockType, CatalogType, CardType, clockVars, catalogVars, nodVars

LEMMA CallerKeeps ==
  ASSUME Inv, NEW c \in Callers, CountTokens(c) \/ RevokeCaller(c) \/ CancelList(c)
  PROVE  Inv'
<1> USE DEF CountTokens, RevokeCaller, CancelList
<1>1. HandlerType' /\ HandlerInv'
  BY OutsideQuiet
<1>2. AuthType'
  BY DEF Inv, TypeOK, AuthType, authVars
<1>3. listing' \subseteq Callers \X {"count", "list"} /\ work' \subseteq ReqIds
  BY DEF Inv, TypeOK
<1> QED
  BY <1>1, <1>2, <1>3, QuietStep
  DEF Inv, TypeOK, ClockType, CatalogType, CardType, clockVars, catalogVars, nodVars

LEMMA CancelRowKeeps ==
  ASSUME Inv, NEW r \in ReqIds, CancelRow(r) \/ OperatorSweep(r)
  PROVE  Inv'
<1> USE DEF handlerVars, operatorVars
<1>0. PICK ap, dl, n : /\ ap \in AppStatus /\ dl \in BOOLEAN
                       /\ FinishPending(r, "expired", ap, dl, n) /\ Withdraw(r)
  <2>1. "expired" \in AppStatus /\ "cancelled" \in AppStatus
    BY DEF AppStatus
  <2> QED BY <2>1 DEF CancelRow, OperatorSweep, ExpireApproval
<1>1. /\ StatusType' /\ AppType' /\ kept' \in [ReqIds -> BOOLEAN]
      /\ RowsMove
      /\ \A s \in ReqIds : status[s] # "pending_approval" => status'[s] = status[s]
  BY <1>0, FinishMoves DEF NotRunStatus, Inv, TypeOK
<1>2. HandlerType' /\ HandlerInv'
  BY <1>1, OutsideStep DEF CancelRow, OperatorSweep, seenVars
<1>3. CardType'
  BY <1>0, WithdrawType DEF Inv, TypeOK
<1> QED
  BY <1>1, <1>2, <1>3, RowStep DEF CancelRow, OperatorSweep, Inv, TypeOK, RowType

LEMMA WritePolicyKeeps ==
  ASSUME Inv, NEW c \in Callers, NEW p \in Policies, WritePolicy(c, p)
  PROVE  Inv'
<1> USE DEF handlerVars, operatorVars, seenVars
<1>1. StatusType' /\ AppType'
  BY DEF WritePolicy, Inv, TypeOK, RowType, StatusType, AppType, AppStatus, Terminal
<1>2. kept' \in [ReqIds -> BOOLEAN]
  <2>1. \A r \in ReqIds : kept[r] \in BOOLEAN
    BY DEF Inv, TypeOK, RowType
  <2> QED BY <2>1, Zenon DEF WritePolicy
<1>3. RowsMove /\ \A s \in ReqIds : status[s] # "pending_approval" => status'[s] = status[s]
  BY DEF WritePolicy, RowsMove, Move, NotRunStatus
<1>4. HandlerType' /\ HandlerInv'
  BY <1>3, OutsideStep DEF WritePolicy
<1>5. AuthType'
  BY DEF WritePolicy, Inv, TypeOK, AuthType
<1>6. TypeOK'
  BY <1>1, <1>2, <1>4, <1>5
  DEF WritePolicy, Inv, TypeOK, ClockType, CatalogType, RowType, SeenType, CardType,
      clockVars, catalogVars, nodVars
<1>7. RowsInv' /\ KeysInv'
  BY <1>3, RowsMoveKeeps DEF WritePolicy, Inv
<1> QED
  BY <1>4, <1>6, <1>7 DEF Inv

LEMMA PruneKeeps ==
  ASSUME Inv, NEW S \in SUBSET ReqIds, Prune(S)
  PROVE  Inv'
<1> USE DEF handlerVars, operatorVars, seenVars
<1>1. StatusType'
  BY DEF Prune, Inv, TypeOK, RowType, StatusType, Terminal
<1>2. RowsMove /\ \A s \in ReqIds : status[s] # "completed" => status'[s] = status[s]
  BY DEF Prune, RowsMove, Move
<1>3. HandlerType' /\ HandlerInv'
  BY <1>2, OutsideStep DEF Prune
<1> QED
  BY <1>1, <1>2, <1>3, RowStep DEF Prune, Inv, TypeOK, RowType, AppType, CardType, nodVars

LEMMA WorldKeeps == ASSUME Inv, World PROVE Inv'
<1> USE DEF clockVars, authVars, nodVars, operatorVars
<1>1. ASSUME NEW tl \in Tools, NEW m \in Edits, EditManifest(tl, m) PROVE Inv'
  <2>1. HandlerType' /\ HandlerInv'
    BY <1>1, OutsideQuiet DEF EditManifest
  <2>2. CatalogType'
    BY <1>1, SetsAssumption DEF EditManifest, Inv, TypeOK, CatalogType
  <2> QED
    BY <1>1, <2>1, <2>2, QuietStep DEF EditManifest, Inv, TypeOK, ClockType, AuthType, CardType
<1>2. ASSUME NEW r \in ReqIds, NEW d \in {"approved", "rejected", "dismissed", "expired", "cancelled"},
             HumanDecides(r, d) \/ CardLapses(r, d)
      PROVE  Inv'
  <2>1. HandlerType' /\ HandlerInv'
    BY <1>2, OutsideQuiet DEF HumanDecides, CardLapses
  <2>2. CardType' /\ decidedAt' \in [ReqIds -> Nat]
    BY <1>2 DEF HumanDecides, CardLapses, Inv, TypeOK, ClockType, CardType, CardState
  <2> QED
    BY <1>2, <2>1, <2>2, QuietStep
    DEF HumanDecides, CardLapses, Inv, TypeOK, ClockType, AuthType, CatalogType, catalogVars
<1>3. ASSUME Tick PROVE Inv'
  <2>1. HandlerType' /\ HandlerInv'
    BY <1>3, OutsideQuiet DEF Tick
  <2>2. ClockType'
    BY <1>3 DEF Tick, Inv, TypeOK, ClockType
  <2> QED
    BY <1>3, <2>1, <2>2, QuietStep DEF Tick, Inv, TypeOK, AuthType, CatalogType, CardType, catalogVars
<1> QED
  BY <1>1, <1>2, <1>3 DEF World

-----------------------------------------------------------------------------
(* The theorems *)

LEMMA InitInv == ASSUME Init PROVE Inv
<1>1. HandlerType /\ HandlerInv
  BY DEF Init, NoLocals, HandlerType, Locals, PCs, AppStatus, HandlerInv, Serving, Reserved
<1>2. RowType /\ CardType /\ SeenType
  BY DEF Init, RowType, StatusType, AppType, AppStatus, CardType, CardState, SeenType
<1>3. ClockType /\ AuthType /\ CatalogType
  BY DEF Init, ClockType, AuthType, CatalogType
<1>4. TypeOK
  BY <1>1, <1>2, <1>3 DEF Init, TypeOK
<1>5. RowsInv
  BY DEF Init, RowsInv, NotRunStatus, Backed, NotRun
<1>6. KeysInv
  BY DEF Init, KeysInv
<1> QED
  BY <1>1, <1>4, <1>5, <1>6 DEF Inv

LEMMA StutterInv == ASSUME Inv, UNCHANGED vars PROVE Inv'
<1> USE DEF vars, handlerVars, rowVars, nodVars, operatorVars
<1>1. HandlerType' /\ HandlerInv'
  BY OutsideQuiet
<1> QED
  BY <1>1, QuietStep
  DEF Inv, TypeOK, ClockType, AuthType, CatalogType, CardType, clockVars, authVars, catalogVars

LEMMA NextInv == ASSUME Inv, Next PROVE Inv'
<1>1. CASE SubmitStep
  BY <1>1, SweepListKeeps, SweepRowKeeps, SweepDoneKeeps, SubmitLookupKeeps, ReserveRefusedKeeps,
     ReserveReusedKeeps, ReserveCreatedKeeps, SubmitEndsKeeps, SubmitDecidesKeeps, OpenCardKeeps,
     OpenFailsKeeps, CreateApprovalKeeps, MarkPendingKeeps, LookupAgainKeeps, ClaimReceivedKeeps
  DEF SubmitStep
<1>2. CASE PollStep
  <2>1. CASE Authorize("authorize", "resolve") \/ Authorize("reauthorize", "respond")
    BY <2>1, AuthorizeKeeps
  <2>2. CASE Resolve \/ SurfacePoll \/ AfterPoll \/ FinishAnswered \/ ClaimApproval
    BY <2>2, ResolveKeeps, SurfacePollKeeps, AfterPollKeeps, FinishAnsweredKeeps, ClaimApprovalKeeps
  <2>3. CASE LookupAgain("lookup_approved", "claim_approval")
    BY <2>3, LookupAgainKeeps
  <2> QED BY <1>2, <2>1, <2>2, <2>3 DEF PollStep
<1>3. CASE Dispatch \/ RecordResult \/ Respond
  BY <1>3, DispatchKeeps, RecordResultKeeps, RespondKeeps
<1>4. CASE Agent
  BY <1>4, SubmitStartKeeps, PollStartKeeps DEF Agent
<1>5. CASE Operator
  BY <1>5, TokenKeeps, CallerKeeps, CancelRowKeeps, WritePolicyKeeps, PruneKeeps, ReconcileKeeps
  DEF Operator
<1>6. CASE World \/ Fault \/ Start \/ Reload
  BY <1>6, WorldKeeps, FaultKeeps, LoadKeeps
<1> QED
  BY <1>1, <1>2, <1>3, <1>4, <1>5, <1>6 DEF Next, HandlerStep

\* Every reachable state of the broker satisfies the inductive invariant: whatever the
\* handler, the operators, the human, the clock and the failures do in between.
THEOREM InvHolds == Spec => []Inv
<1>1. Init => Inv
  BY InitInv
<1>2. Inv /\ [Next]_vars => Inv'
  BY NextInv, StutterInv
<1> QED
  BY <1>1, <1>2, PTL DEF Spec

\* Every variable of the broker always has its type.
THEOREM TypeCorrect == Spec => []TypeOK
<1>1. Inv => TypeOK
  BY DEF Inv
<1> QED
  BY <1>1, InvHolds, PTL

\* However often an agent retries, whatever crashes and whoever interferes between two
\* steps of execute_request, a request calls its tool at most once, and reserve_action
\* gives a caller's idempotency key to one request only.
THEOREM AtMostOnceHolds == Spec => []AtMostOnce
<1>1. Inv => AtMostOnce
  <2> SUFFICES ASSUME Inv PROVE AtMostOnce
    OBVIOUS
  <2>1. ASSUME NEW r \in ReqIds PROVE Len(effects[r]) <= 1
    <3>1. CASE effects[r] = <<>>
      BY <3>1
    <3>2. CASE effects[r] # <<>>
      <4>1. effects[r] = <<req[r].gen>>
        BY <3>2 DEF Inv, RowsInv
      <4> QED BY <4>1
    <3> QED BY <3>1, <3>2
  <2> QED
    BY <2>1 DEF AtMostOnce, Inv, KeysInv
<1> QED
  BY <1>1, InvHolds, PTL

\* No row and no answer ever says that a request had no effect when its tool may have
\* been called, or that it succeeded when the tool was not called.
THEOREM HonestReceiptHolds == Spec => []HonestReceipt
<1>1. Inv => HonestReceipt
  <2> SUFFICES ASSUME Inv, NEW r \in ReqIds
               PROVE  /\ effects[r] # <<>> => status[r] \in {"executing", "completed", "result_expired", "unknown"}
                      /\ status[r] \in {"completed", "result_expired"} => effects[r] # <<>>
                      /\ told[r] \in NotRun => effects[r] = <<>>
                      /\ told[r] = "ok" => effects[r] # <<>>
    BY DEF HonestReceipt
  <2>1. status[r] \in LiveStatus \cup Terminal \cup {"none"}
    BY DEF Inv, TypeOK, RowType, StatusType
  <2> QED
    BY <2>1 DEF Inv, RowsInv, Backed, NotRunStatus, LiveStatus, Terminal
<1> QED
  BY <1>1, InvHolds, PTL

\* What reaches a tool is the generation of the manifest bound to the request at its
\* reservation, whatever is edited or reloaded before the commit point.
THEOREM BoundExecutionHolds == Spec => []BoundExecution
<1>1. Inv => BoundExecution
  BY DEF Inv, RowsInv, BoundExecution
<1> QED
  BY <1>1, InvHolds, PTL

-----------------------------------------------------------------------------
(* Receipts, answers, the audit trail and the authority of a claim *)

\* What a step may do to a row: insert it, move it, or call its tool for the first time.
RowStory(r) ==
    \/ status[r] = "none" /\ status'[r] = "received" /\ effects'[r] = effects[r]
    \/ Move(status[r], status'[r], effects[r]) /\ effects'[r] = effects[r]
    \/ /\ status[r] = "executing" /\ status'[r] = "executing"
       /\ effects[r] = <<>> /\ Len(effects'[r]) = 1

\* A step that moves rows and calls no tool.
LEMMA MovesAreStories ==
  ASSUME RowsMove, UNCHANGED effects
  PROVE  \A r \in ReqIds : RowStory(r)
  BY DEF RowsMove, RowStory

\* A step that leaves every row alone.
LEMMA RestIsStory ==
  ASSUME UNCHANGED <<status, effects>>
  PROVE  \A r \in ReqIds : RowStory(r)
  BY DEF RowStory, Move

\* The steps of a submission.
LEMMA SubmitStory == ASSUME Inv, SubmitStep PROVE \A r \in ReqIds : RowStory(r)
<1> USE DEF At, rowVars, seenVars
<1>1. CASE SweepList \/ SweepDone \/ SubmitLookup \/ ReserveRefused \/ ReserveReused \/ SubmitDecides
           \/ OpenCard \/ CreateApproval \/ LookupAgain("lookup_allowed", "claim_received")
  BY <1>1, RestIsStory
  DEF SweepList, SweepDone, SubmitLookup, ReserveRefused, ReserveReused, SubmitDecides, OpenCard,
      CreateApproval, LookupAgain
<1>2. ASSUME NEW r \in ReqIds, SweepRow(r) PROVE RowsMove /\ UNCHANGED effects
  BY <1>2, FinishMoves DEF SweepRow, ExpireApproval, AppStatus, NotRunStatus, Inv, TypeOK
<1>3. CASE ReserveCreated
  <2>1. PICK r \in ReqIds : req[r] = None /\ status' = [status EXCEPT ![r] = "received"]
    BY <1>3 DEF ReserveCreated
  <2>2. status[r] = "none" /\ status \in [ReqIds -> LiveStatus \cup Terminal \cup {"none"}]
    BY <2>1 DEF Inv, RowsInv, TypeOK, RowType, StatusType
  <2>3. effects' = effects
    BY <1>3 DEF ReserveCreated
  <2> QED BY <2>1, <2>2, <2>3 DEF RowStory, Move
<1>4. ASSUME pc \in Reserved PROVE h.r \in ReqIds /\ status[h.r] = "received" /\ StatusType
  BY <1>4 DEF Inv, HandlerInv, Serving, TypeOK, RowType
<1>5. ASSUME NEW st \in {"not_found", "denied", "invalid"}, SubmitEnds(st) PROVE RowsMove /\ UNCHANGED effects
  BY <1>4, <1>5 DEF SubmitEnds, Reserved, Terminate, RowsMove, Move, NotRunStatus, StatusType
<1>6. CASE OpenFails \/ MarkPending \/ ClaimReceived
  <2>1. RowsMove
    BY <1>4, <1>6 DEF OpenFails, MarkPending, ClaimReceived, Reserved, Terminate, RowsMove, Move,
                      NotRunStatus, StatusType
  <2> QED BY <1>6, <2>1, MovesAreStories DEF OpenFails, MarkPending, ClaimReceived
<1> QED
  BY <1>1, <1>2, <1>3, <1>5, <1>6, MovesAreStories DEF SubmitStep

\* The steps of a poll.
LEMMA PollStory == ASSUME Inv, PollStep PROVE \A r \in ReqIds : RowStory(r)
<1> USE DEF At, rowVars, seenVars
<1>0. "expired" \in NotRunStatus /\ "denied" \in NotRunStatus /\ "expired" \in AppStatus
  BY DEF NotRunStatus, AppStatus
<1>1. CASE Authorize("authorize", "resolve") \/ Authorize("reauthorize", "respond") \/ SurfacePoll
           \/ LookupAgain("lookup_approved", "claim_approval")
  BY <1>1, RestIsStory DEF Authorize, SurfacePoll, LookupAgain
<1>2. CASE Resolve \/ AfterPoll
  <2>1. h.r \in ReqIds /\ RowType
    BY <1>2, PollRow DEF Resolve, AfterPoll, Serving
  <2>2. effects' = effects
    BY <1>2 DEF Resolve, AfterPoll
  <2>3. CASE status' = status
    BY <2>2, <2>3, RestIsStory
  <2>4. CASE FinishPending(h.r, "expired", "expired", TRUE, now)
    BY <1>0, <2>1, <2>2, <2>4, FinishMoves, MovesAreStories
  <2> QED BY <1>2, <2>3, <2>4 DEF Resolve, AfterPoll, ExpireApproval
<1>3. CASE FinishAnswered
  <2>1. h.r \in ReqIds /\ RowType /\ h.ans \in AppStatus
    BY <1>3, PollRow DEF FinishAnswered, Serving, Inv, HandlerInv
  <2>2. PICK n : FinishPending(h.r, IF h.ans = "rejected" THEN "denied" ELSE "expired", h.ans, FALSE, n)
    BY <1>3 DEF FinishAnswered
  <2>3. PICK st \in NotRunStatus : FinishPending(h.r, st, h.ans, FALSE, n)
    BY <1>0, <2>2
  <2> QED BY <1>3, <2>1, <2>3, FinishMoves, MovesAreStories DEF FinishAnswered
<1>4. CASE ClaimApproval
  <2>1. h.r \in ReqIds /\ StatusType
    BY <1>4, PollRow DEF ClaimApproval, Serving, RowType
  <2>2. \/ status' = status
        \/ /\ status[h.r] = "pending_approval"
           /\ \E st \in {"executing", "expired", "denied"} : status' = [status EXCEPT ![h.r] = st]
    BY <1>4 DEF ClaimApproval, Terminate
  <2>3. RowsMove
    BY <2>1, <2>2 DEF RowsMove, Move, NotRunStatus, StatusType
  <2> QED BY <1>4, <2>3, MovesAreStories DEF ClaimApproval
<1> QED
  BY <1>1, <1>2, <1>3, <1>4 DEF PollStep

\* The call of the tool, its record and the answer.
LEMMA ExecuteStory == ASSUME Inv, Dispatch \/ RecordResult \/ Respond PROVE \A r \in ReqIds : RowStory(r)
<1> USE DEF At, rowVars, seenVars
<1>1. CASE Dispatch
  <2>1. /\ h.r \in ReqIds /\ status[h.r] = "executing" /\ effects[h.r] = <<>>
        /\ h.gen \in Manifests /\ effects \in [ReqIds -> Seq(Manifests)]
    BY <1>1 DEF Dispatch, Inv, HandlerInv, Serving, TypeOK, SeenType
  <2>2. status' = status /\ (effects' = effects \/ effects' = [effects EXCEPT ![h.r] = Append(@, h.gen)])
    BY <1>1 DEF Dispatch
  <2>3. CASE effects' = effects
    BY <2>2, <2>3, RestIsStory
  <2>4. CASE effects' = [effects EXCEPT ![h.r] = Append(@, h.gen)]
    <3>1. Len(effects'[h.r]) = 1 /\ \A s \in ReqIds \ {h.r} : effects'[s] = effects[s]
      BY <2>1, <2>4
    <3> QED BY <2>1, <2>2, <3>1 DEF RowStory, Move
  <2> QED BY <2>2, <2>3, <2>4
<1>2. CASE RecordResult
  <2>1. /\ h.r \in ReqIds /\ status[h.r] = "executing" /\ StatusType
        /\ h.ans \in {"ok", "refused", "error"}
        /\ h.ans = "ok" => effects[h.r] # <<>>
        /\ h.ans = "refused" => effects[h.r] = <<>>
    BY <1>2 DEF RecordResult, Inv, TypeOK, RowType, HandlerInv, Serving
  <2>2. RowsMove
    BY <1>2, <2>1 DEF RecordResult, ResultStatus, Terminate, RowsMove, Move, NotRunStatus, StatusType
  <2> QED BY <1>2, <2>2, MovesAreStories DEF RecordResult
<1>3. CASE Respond
  BY <1>3, RestIsStory DEF Respond
<1> QED
  BY <1>1, <1>2, <1>3

\* Everything that is not the handler.
LEMMA OutsideStory ==
  ASSUME Inv, Agent \/ Operator \/ World \/ Fault \/ Start \/ Reload
  PROVE  \A r \in ReqIds : RowStory(r)
<1> USE DEF rowVars, seenVars
<1>1. CASE Agent \/ World \/ Fault \/ Start \/ Reload
  <2>1. UNCHANGED <<status, effects>>
    BY <1>1 DEF Agent, SubmitStart, PollStart, World, EditManifest, HumanDecides, CardLapses, Tick,
                Fault, InternalError, Crash, Start, Reload
  <2> QED BY <2>1, RestIsStory, SMTT(60)
<1>2. ASSUME NEW t \in Tokens, IssueToken(t) \/ RotateAdd(t) \/ RotateRevoke(t) \/ RevokeToken(t)
      PROVE  UNCHANGED <<status, effects>>
  BY <1>2 DEF IssueToken, RotateAdd, RotateRevoke, RevokeToken
<1>3. ASSUME NEW c \in Callers, CountTokens(c) \/ RevokeCaller(c) \/ CancelList(c)
      PROVE  UNCHANGED <<status, effects>>
  BY <1>3 DEF CountTokens, RevokeCaller, CancelList
<1>4. ASSUME NEW r \in ReqIds, CancelRow(r) \/ OperatorSweep(r)
      PROVE  RowsMove /\ UNCHANGED effects
  <2>1. PICK ap, dl, n : ap \in AppStatus /\ dl \in BOOLEAN /\ FinishPending(r, "expired", ap, dl, n)
    BY <1>4 DEF CancelRow, OperatorSweep, ExpireApproval, AppStatus
  <2> QED BY <1>4, <2>1, FinishMoves DEF CancelRow, OperatorSweep, NotRunStatus, Inv, TypeOK
<1>5. ASSUME NEW c \in Callers, NEW p \in Policies, WritePolicy(c, p) PROVE RowsMove /\ UNCHANGED effects
  BY <1>5 DEF WritePolicy, RowsMove, Move, NotRunStatus
<1>6. ASSUME NEW S \in SUBSET ReqIds, Prune(S) PROVE RowsMove /\ UNCHANGED effects
  BY <1>6 DEF Prune, RowsMove, Move
<1>7. ASSUME ReconcileOffline PROVE RowsMove /\ UNCHANGED effects
  BY <1>7 DEF ReconcileOffline, RowsMove, Move
<1> QED
  BY <1>1, <1>2, <1>3, <1>4, <1>5, <1>6, <1>7, RestIsStory, MovesAreStories DEF Operator

\* Every step of the broker tells, of every row, one of the three stories.
LEMMA StepStory == ASSUME Inv, [Next]_vars PROVE \A r \in ReqIds : RowStory(r)
<1>1. CASE UNCHANGED vars
  BY <1>1, RestIsStory DEF vars, rowVars, seenVars
<1> QED
  BY <1>1, SubmitStory, PollStory, ExecuteStory, OutsideStory DEF Next, HandlerStep

-----------------------------------------------------------------------------
(* The theorems *)

\* A receipt that has become final never changes again, except that the result of a
\* completed call may be pruned: no crash, late answer, revocation, policy change or
\* offline reconciliation rewrites it.
THEOREM TerminalStableHolds == Spec => TerminalStable
<1>1. Inv /\ [Next]_vars =>
        [\A r \in ReqIds : status[r] \in Terminal =>
            \/ status'[r] = status[r]
            \/ status[r] = "completed" /\ status'[r] = "result_expired"]_vars
  <2> SUFFICES ASSUME Inv, [Next]_vars, NEW r \in ReqIds, status[r] \in Terminal
               PROVE  \/ status'[r] = status[r]
                      \/ status[r] = "completed" /\ status'[r] = "result_expired"
    OBVIOUS
  <2> QED BY StepStory DEF RowStory, Move, Terminal
<1> QED
  BY <1>1, InvHolds, PTL DEF Spec, TerminalStable

\* The number of calls of a row that has its effect is one.
LEMMA CallsOfRow ==
  ASSUME Inv, NEW r \in ReqIds
  PROVE  /\ Len(effects[r]) \in {0, 1}
         /\ Len(effects[r]) = 0 <=> effects[r] = <<>>
<1>1. CASE effects[r] = <<>>
  BY <1>1
<1>2. CASE effects[r] # <<>>
  <2>1. effects[r] = <<req[r].gen>>
    BY <1>2 DEF Inv, RowsInv
  <2> QED BY <2>1
<1> QED BY <1>1, <1>2

\* The story of a row is a step of its receipt.
LEMMA StoryKeepsContract ==
  ASSUME Inv, Inv', NEW r \in ReqIds, RowStory(r)
  PROVE  LET p == PhaseOf(status[r])
             q == PhaseOf(status'[r])
             n == Len(effects[r])
             m == Len(effects'[r])
         IN \/ p = "absent" /\ q = "open" /\ m = n
            \/ p = "open" /\ q = "running" /\ m = n
            \/ p = "running" /\ n = 0 /\ m = 1 /\ q = p
            \/ /\ p \in {"open", "running"}
               /\ (q = "not_run" /\ n = 0) \/ (q = "ran" /\ n = 1) \/ q = "unknown"
               /\ m = n
            \/ q = p /\ m = n
<1>1. Len(effects[r]) \in {0, 1} /\ (Len(effects[r]) = 0 <=> effects[r] = <<>>)
  BY CallsOfRow
<1>2. status[r] \in NotRunStatus \cup {"none", "received", "pending_approval"} => effects[r] = <<>>
  BY DEF Inv, RowsInv
<1> QED
  BY <1>1, <1>2 DEF RowStory, Move, PhaseOf, NotRunStatus

\* Every behaviour of the broker is a behaviour of the receipt contract: accepted,
\* perhaps committed, called at most once and only then, ended with one verdict that is
\* true of the call.
THEOREM KeepsContractHolds == Spec => KeepsContract
<1> DEFINE phases == [r \in ReqIds |-> PhaseOf(status[r])]
           counts == [r \in ReqIds |-> Len(effects[r])]
<1>1. Init => Contract!Init
  BY DEF Init, Contract!Init, PhaseOf
<1>2. Inv /\ Inv' /\ [Next]_vars => [Contract!Next]_<<phases, counts>>
  <2> SUFFICES ASSUME Inv, Inv', [Next]_vars PROVE Contract!Next
    OBVIOUS
  <2>1. \A r \in ReqIds : phases[r] = PhaseOf(status[r]) /\ phases'[r] = PhaseOf(status'[r])
    OBVIOUS
  <2>2. \A r \in ReqIds : counts[r] = Len(effects[r]) /\ counts'[r] = Len(effects'[r])
    OBVIOUS
  <2>3. phases' \in [ReqIds -> Contract!Phases]
    BY DEF PhaseOf, Contract!Phases
  <2>4. counts' \in [ReqIds -> Nat]
    BY DEF Inv, TypeOK, SeenType
  <2>5. ASSUME NEW r \in ReqIds
        PROVE  Contract!Accept(r) \/ Contract!Commit(r) \/ Contract!Call(r) \/ Contract!End(r) \/ Contract!Stay(r)
    <3>1. RowStory(r)
      BY StepStory
    <3> QED
      BY <2>1, <2>2, <3>1, StoryKeepsContract
      DEF Contract!Accept, Contract!Commit, Contract!Call, Contract!End, Contract!Stay
  <2> QED BY <2>3, <2>4, <2>5 DEF Contract!Next
<1> QED
  BY <1>1, <1>2, InvHolds, PTL DEF Spec, KeepsContract, Contract!Spec

-----------------------------------------------------------------------------
(* Answers *)

\* A final answer that stands for the status of a row goes on standing for it.
LEMMA StandsOn ==
  ASSUME NEW r \in ReqIds, RowStory(r), NEW out \in FinalAnswers, StandsFor(out, status[r])
  PROVE  StandsFor(out, status'[r])
  BY DEF FinalAnswers, Outcomes, LiveStatus, StandsFor, RowStory, Move

\* The answer that a stored status gives may be given, whatever fitting answer came before.
LEMMA StatusMaySay ==
  ASSUME NEW st \in LiveStatus \cup Terminal, NEW before \in Outcomes \cup {"none"},
         before \in FinalAnswers => StandsFor(before, st)
  PROVE  /\ OutcomeOf(st) \in FinalAnswers => StandsFor(OutcomeOf(st), st)
         /\ before \in FinalAnswers =>
              OutcomeOf(st) \in {"conflict"} \cup IF before \in DOMAIN Later THEN Later[before] ELSE {before}
<1>1. st # "none" /\ st \in {"received", "pending_approval", "executing", "completed", "denied", "expired",
                             "failed", "unknown", "result_expired", "not_found", "invalid"}
  BY DEF LiveStatus, Terminal
<1>2. OutcomeOf(st) \in FinalAnswers => StandsFor(OutcomeOf(st), st)
  BY <1>1 DEF OutcomeOf, FinalAnswers, Outcomes, LiveStatus, StandsFor
<1>3. ASSUME before \in FinalAnswers, before \in DOMAIN Later PROVE OutcomeOf(st) \in Later[before]
  <2>1. before \in {"ok", "unavailable"}
    BY <1>3 DEF Later
  <2> QED BY <1>3, <2>1 DEF OutcomeOf, StandsFor, Later
<1>4. ASSUME before \in FinalAnswers, before \notin DOMAIN Later PROVE OutcomeOf(st) = before
  <2>1. before # "ok" /\ before # "unavailable" /\ before # "completed"
    BY <1>4 DEF Later, FinalAnswers, Outcomes
  <2> QED BY <1>4, <2>1 DEF OutcomeOf, StandsFor
<1> QED BY <1>2, <1>3, <1>4

\* An open row has not been answered for good.
LEMMA OpenUntold ==
  ASSUME AnswerInv, NEW r \in ReqIds, status[r] \in LiveStatus
  PROVE  told[r] \notin FinalAnswers
  BY DEF AnswerInv, FinalAnswers, Outcomes, LiveStatus, StandsFor

\* What is left to prove of a step that answers nobody: what the handler will say.
LEMMA AnswerStep ==
  ASSUME Inv, AnswerInv, \A r \in ReqIds : RowStory(r), UNCHANGED told,
         pc' \in {"respond", "reauthorize"} /\ h'.r # None => MaySay(h.r, h.out)'
  PROVE  AnswerInv'
<1>1. ASSUME NEW r \in ReqIds, told[r] \in FinalAnswers PROVE StandsFor(told[r], status'[r])
  <2>1. StandsFor(told[r], status[r]) /\ RowStory(r)
    BY <1>1 DEF AnswerInv
  <2> QED BY <1>1, <2>1, StandsOn
<1> QED BY <1>1 DEF AnswerInv

\* What the handler is about to say stays true while it waits.
LEMMA WaitingSays ==
  ASSUME Inv, AnswerInv, \A r \in ReqIds : RowStory(r), UNCHANGED <<told, h>>,
         pc \in {"respond", "reauthorize"}, h.r # None
  PROVE  MaySay(h.r, h.out)'
<1>1. h.r \in ReqIds
  BY DEF Inv, TypeOK, HandlerType, Locals
<1> QED BY <1>1, StandsOn DEF AnswerInv, MaySay

\* An answer read off the row, as it is after the step.
LEMMA RowSays ==
  ASSUME Inv, Inv', AnswerInv, NEW r \in ReqIds, RowStory(r), UNCHANGED told, status'[r] # "none",
         h'.r = r, h'.out = OutcomeOf(status'[r])
  PROVE  MaySay(h.r, h.out)'
<1>1. status'[r] \in LiveStatus \cup Terminal /\ told[r] \in Outcomes \cup {"none"}
  BY DEF Inv, TypeOK, RowType, StatusType, SeenType
<1>2. ASSUME told[r] \in FinalAnswers PROVE StandsFor(told[r], status'[r])
  <2>1. StandsFor(told[r], status[r])
    BY <1>2 DEF AnswerInv
  <2> QED BY <1>2, <2>1, StandsOn
<1> HIDE DEF OutcomeOf
<1> QED BY <1>1, <1>2, StatusMaySay DEF MaySay

\* The steps of a submission.
LEMMA SubmitAnswers ==
  ASSUME Inv, Inv', AnswerInv, SubmitStep, \A r \in ReqIds : RowStory(r)
  PROVE  AnswerInv'
<1> USE DEF At, Goto, rowVars, seenVars
<1>1. told' = told
  BY DEF SubmitStep, SweepList, SweepRow, SweepDone, SubmitLookup, ReserveRefused, ReserveReused,
         ReserveCreated, SubmitEnds, SubmitDecides, OpenCard, OpenFails, CreateApproval, MarkPending,
         LookupAgain, ClaimReceived
<1>2. ASSUME pc' \notin {"respond", "reauthorize"} \/ h'.r = None PROVE AnswerInv'
  BY <1>1, <1>2, AnswerStep
<1>3. CASE SweepList \/ (\E r \in ReqIds : SweepRow(r)) \/ SweepDone \/ ReserveCreated \/ SubmitDecides
           \/ OpenCard \/ CreateApproval \/ LookupAgain("lookup_allowed", "claim_received")
  BY <1>2, <1>3
  DEF SweepList, SweepRow, SweepDone, ReserveCreated, SubmitDecides, OpenCard, CreateApproval, LookupAgain
<1>4. CASE SubmitLookup \/ ReserveRefused
  <2>1. h'.r = None
    BY <1>4 DEF SubmitLookup, ReserveRefused, Inv, HandlerInv, TypeOK, HandlerType, Locals
  <2> QED BY <1>2, <2>1
<1>5. CASE ReserveReused
  <2>1. PICK r \in Prior(Owner[h.tok], h.key) :
          h' = [h EXCEPT !.r = r, !.reused = TRUE,
                         !.out = IF req[r].pay = h.pay /\ req[r].act = h.act
                                 THEN OutcomeOf(status[r]) ELSE "conflict"]
    BY <1>5 DEF ReserveReused
  <2>2. r \in ReqIds /\ status[r] # "none" /\ status' = status /\ h \in Locals
    BY <1>5, <2>1 DEF ReserveReused, Prior, Inv, RowsInv, TypeOK, HandlerType
  <2>3. h'.r = r /\ h'.out \in {OutcomeOf(status'[r]), "conflict"}
    BY <2>1, <2>2 DEF Locals
  <2>4. CASE h'.out = "conflict"
    BY <1>1, <2>3, <2>4, AnswerStep DEF MaySay, FinalAnswers
  <2>5. CASE h'.out = OutcomeOf(status'[r])
    <3>1. MaySay(h.r, h.out)'
      BY <1>1, <2>2, <2>3, <2>5, RowSays
    <3> QED BY <1>1, <3>1, AnswerStep
  <2> QED BY <2>3, <2>4, <2>5
<1>6. ASSUME pc \in Reserved
      PROVE  /\ h.r \in ReqIds /\ status[h.r] = "received" /\ StatusType /\ h \in Locals
             /\ told[h.r] \notin FinalAnswers
  <2>1. h.r \in ReqIds /\ status[h.r] = "received" /\ StatusType /\ h \in Locals
    BY <1>6 DEF Inv, HandlerInv, Serving, TypeOK, RowType, HandlerType
  <2> QED BY <2>1, OpenUntold DEF LiveStatus
<1>7. ASSUME NEW st \in {"not_found", "denied", "invalid"}, SubmitEnds(st) PROVE AnswerInv'
  <2>1. h'.r = h.r /\ h'.out = st /\ status'[h.r] = st /\ told[h.r] \notin FinalAnswers
    BY <1>6, <1>7 DEF SubmitEnds, Reserved, Terminate, StatusType, Locals
  <2>2. MaySay(h.r, h.out)'
    BY <1>1, <2>1 DEF MaySay, StandsFor
  <2> QED BY <1>1, <2>2, AnswerStep
<1>8. CASE OpenFails \/ MarkPending
  <2>1. /\ h'.r = h.r /\ told[h.r] \notin FinalAnswers
        /\ \/ h'.out = "unavailable" /\ status'[h.r] = "failed"
           \/ h'.out = "pending_approval"
    BY <1>6, <1>8 DEF OpenFails, MarkPending, Reserved, Terminate, StatusType, Locals
  <2>2. MaySay(h.r, h.out)'
    BY <1>1, <2>1 DEF MaySay, StandsFor, FinalAnswers, LiveStatus
  <2> QED BY <1>1, <2>2, AnswerStep
<1>9. CASE ClaimReceived
  <2>1. pc' = "execute" \/ (h'.r = h.r /\ h'.out = OutcomeOf(status'[h.r]) /\ status'[h.r] = "denied")
    BY <1>6, <1>9 DEF ClaimReceived, Reserved, Terminate, StatusType, Locals
  <2>2. CASE pc' = "execute"
    BY <1>2, <2>2
  <2>3. CASE h'.r = h.r /\ h'.out = OutcomeOf(status'[h.r]) /\ status'[h.r] = "denied"
    <3>1. h.r \in ReqIds
      BY <1>6, <1>9 DEF ClaimReceived, Reserved
    <3>2. MaySay(h.r, h.out)'
      BY <1>1, <2>3, <3>1, RowSays
    <3> QED BY <1>1, <3>2, AnswerStep
  <2> QED BY <2>1, <2>2, <2>3
<1> QED
  BY <1>3, <1>4, <1>5, <1>7, <1>8, <1>9, SMTT(60) DEF SubmitStep

\* The steps of a poll and of an execution.
LEMMA PollAnswers ==
  ASSUME Inv, Inv', AnswerInv, PollStep \/ Dispatch \/ RecordResult, \A r \in ReqIds : RowStory(r)
  PROVE  AnswerInv'
<1> USE DEF At, Goto, rowVars, seenVars
<1>1. told' = told
  BY DEF PollStep, Authorize, Resolve, SurfacePoll, AfterPoll, FinishAnswered, LookupAgain, ClaimApproval,
         Dispatch, RecordResult
<1>2. ASSUME pc' \notin {"respond", "reauthorize"} PROVE AnswerInv'
  BY <1>1, <1>2, AnswerStep
<1>3. CASE Authorize("authorize", "resolve") \/ SurfacePoll \/ LookupAgain("lookup_approved", "claim_approval")
  BY <1>2, <1>3 DEF Authorize, SurfacePoll, LookupAgain
<1>4. CASE Authorize("reauthorize", "respond")
  <2>1. pc' = "idle" \/ (pc = "reauthorize" /\ h' = h)
    BY <1>4 DEF Authorize
  <2> QED BY <1>1, <1>2, <2>1, AnswerStep, WaitingSays
<1>5. ASSUME h.r \in ReqIds, status'[h.r] # "none", h'.r = h.r, h'.out = OutcomeOf(status'[h.r])
      PROVE  AnswerInv'
  <2>1. MaySay(h.r, h.out)'
    BY <1>1, <1>5, RowSays
  <2> QED BY <1>1, <2>1, AnswerStep
<1>6. CASE Resolve \/ AfterPoll \/ FinishAnswered \/ ClaimApproval \/ RecordResult
  <2>1. h.r \in ReqIds /\ status[h.r] # "none" /\ h \in Locals
    BY <1>6, PollRow DEF Resolve, AfterPoll, FinishAnswered, ClaimApproval, RecordResult, Serving
  <2>2. status'[h.r] # "none"
    BY <2>1 DEF RowStory, Move, NotRunStatus
  <2>3. pc' \in {"respond", "reauthorize"} => h'.r = h.r /\ h'.out = OutcomeOf(status'[h.r])
    <3>1. CASE Resolve \/ AfterPoll
      BY <2>1, <3>1 DEF Resolve, AfterPoll, Locals
    <3>2. CASE FinishAnswered \/ ClaimApproval
      BY <2>1, <3>2 DEF FinishAnswered, ClaimApproval, Locals
    <3>3. CASE RecordResult
      BY <2>1, <3>3 DEF RecordResult, Terminate, Inv, TypeOK, RowType, StatusType, Locals
    <3> QED BY <1>6, <3>1, <3>2, <3>3
  <2> QED BY <1>2, <1>5, <2>1, <2>2, <2>3
<1>7. CASE Dispatch
  <2>1. pc' = "record"
    BY <1>7 DEF Dispatch, Inv, HandlerInv
  <2> QED BY <1>2, <2>1
<1> QED
  BY <1>3, <1>4, <1>6, <1>7 DEF PollStep

LEMMA RespondAnswers ==
  ASSUME Inv, AnswerInv, Respond PROVE AnswerInv'
<1>1. pc' = "idle" /\ status' = status /\ h.r \in ReqIds \cup {None} /\ told \in [ReqIds -> Outcomes \cup {"none"}]
  BY DEF Respond, Goto, rowVars, Inv, TypeOK, SeenType, HandlerType, Locals
<1>2. ASSUME NEW r \in ReqIds, r = h.r, h.out # "conflict" PROVE told'[r] = h.out /\ MaySay(r, h.out)
  BY <1>1, <1>2, NoneAssumption DEF Respond, At, AnswerInv
<1>3. ASSUME NEW r \in ReqIds, r # h.r \/ h.out = "conflict" PROVE told'[r] = told[r]
  BY <1>1, <1>3 DEF Respond
<1>4. ASSUME NEW r \in ReqIds
      PROVE  told'[r] # "conflict" /\ (told'[r] \in FinalAnswers => StandsFor(told'[r], status'[r]))
  <2>1. CASE r = h.r /\ h.out # "conflict"
    BY <1>1, <1>2, <2>1 DEF MaySay
  <2>2. CASE r # h.r \/ h.out = "conflict"
    BY <1>1, <1>3, <2>2 DEF AnswerInv
  <2> QED BY <2>1, <2>2
<1> QED BY <1>1, <1>4 DEF AnswerInv

\* Everything that is not the handler, and stuttering.
LEMMA OutsideAnswers ==
  ASSUME Inv, AnswerInv, Agent \/ Operator \/ World \/ Fault \/ Start \/ Reload \/ UNCHANGED vars,
         \A r \in ReqIds : RowStory(r)
  PROVE  AnswerInv'
<1> USE DEF Goto, rowVars, seenVars
<1>1. told' = told
  BY DEF Agent, SubmitStart, PollStart, Operator, IssueToken, RotateAdd, RotateRevoke, RevokeToken,
         CountTokens, RevokeCaller, CancelList, CancelRow, OperatorSweep, WritePolicy, Prune,
         ReconcileOffline, World, EditManifest, HumanDecides, CardLapses, Tick, Fault, InternalError,
         Crash, Start, Reload, vars
<1>2. pc' \in {"respond", "reauthorize"} => pc = pc' /\ h' = h
  <2>1. CASE Agent \/ Fault
    BY <2>1 DEF Agent, SubmitStart, PollStart, Fault, InternalError, Crash
  <2>2. CASE Operator
    BY <2>2 DEF Operator, IssueToken, RotateAdd, RotateRevoke, RevokeToken,
         CountTokens, RevokeCaller, CancelList, CancelRow, OperatorSweep, WritePolicy, Prune,
         ReconcileOffline, handlerVars
  <2>3. CASE World \/ Start \/ Reload \/ UNCHANGED vars
    BY <2>3 DEF World, EditManifest, HumanDecides, CardLapses, Tick, Start, Reload, vars, handlerVars
  <2> QED BY <2>1, <2>2, <2>3
<1> QED
  BY <1>1, <1>2, AnswerStep, WaitingSays

\* The rows, what agents were told of them and what the handler is about to tell agree in
\* every reachable state.
THEOREM AnswerInvHolds == Spec => []AnswerInv
<1>1. Init => AnswerInv
  BY DEF Init, AnswerInv, FinalAnswers, Outcomes
<1>2. Inv /\ Inv' /\ AnswerInv /\ [Next]_vars => AnswerInv'
  BY StepStory, SubmitAnswers, PollAnswers, RespondAnswers, OutsideAnswers DEF Next, HandlerStep
<1> QED
  BY <1>1, <1>2, InvHolds, PTL DEF Spec

\* Once an agent has been told a final outcome of a request, by its submission, a poll or a
\* retry with the same key, every later answer repeats it: the deadline, a revocation, a
\* crash or a reconciliation in between do not make the broker contradict itself.
THEOREM AnswersStableHolds == Spec => AnswersStable
<1> DEFINE Repeats == \A r \in ReqIds : told[r] \in Outcomes \ LiveStatus =>
                        told'[r] \in IF told[r] \in DOMAIN Later THEN Later[told[r]] ELSE {told[r]}
<1>1. Inv /\ AnswerInv /\ [Next]_vars => [Repeats]_vars
  <2> SUFFICES ASSUME Inv, AnswerInv, Next, NEW r \in ReqIds, told[r] \in Outcomes \ LiveStatus
               PROVE  told'[r] \in IF told[r] \in DOMAIN Later THEN Later[told[r]] ELSE {told[r]}
    OBVIOUS
  <2>1. told[r] \in FinalAnswers
    BY DEF AnswerInv, FinalAnswers
  <2>2. told[r] \in IF told[r] \in DOMAIN Later THEN Later[told[r]] ELSE {told[r]}
    BY DEF Later
  <2>3. CASE told'[r] = told[r]
    BY <2>2, <2>3
  <2>4. CASE Respond /\ told'[r] # told[r]
    <3>1. h.r = r /\ h.out # "conflict" /\ told'[r] = h.out
      BY <2>4 DEF Respond, Inv, TypeOK, SeenType, HandlerType, Locals
    <3>2. MaySay(r, h.out)
      BY <2>4, <3>1, NoneAssumption, SMTT(60) DEF Respond, At, AnswerInv
    <3> QED BY <2>1, <3>1, <3>2 DEF MaySay
  <2>5. ~Respond => told' = told
    BY DEF Next, HandlerStep, SubmitStep, SweepList, SweepRow, SweepDone, SubmitLookup, ReserveRefused,
         ReserveReused, ReserveCreated, SubmitEnds, SubmitDecides, OpenCard, OpenFails, CreateApproval,
         MarkPending, LookupAgain, ClaimReceived, PollStep, Authorize, Resolve, SurfacePoll, AfterPoll,
         FinishAnswered, ClaimApproval, Dispatch, RecordResult, Agent, SubmitStart, PollStart, Operator,
         IssueToken, RotateAdd, RotateRevoke, RevokeToken, CountTokens, RevokeCaller, CancelList,
         CancelRow, OperatorSweep, WritePolicy, Prune, ReconcileOffline, World, EditManifest,
         HumanDecides, CardLapses, Tick, Fault, InternalError, Crash, Start, Reload, seenVars
  <2> QED BY <2>3, <2>4, <2>5
<1> QED
  BY <1>1, InvHolds, AnswerInvHolds, PTL DEF Spec, AnswersStable

-----------------------------------------------------------------------------
(* The audit trail *)

EventNames == {"completed", "denied", "failed", "expired", "unknown"}

\* An event that fits the status of a row goes on fitting it.
LEMMA FitsOn ==
  ASSUME NEW r \in ReqIds, RowStory(r), NEW e \in EventNames, status[r] \in EventFits[e]
  PROVE  status'[r] \in EventFits[e]
<1>1. /\ EventFits["completed"] = {"completed", "result_expired"} /\ EventFits["denied"] = {"denied"}
      /\ EventFits["failed"] = {"failed"} /\ EventFits["expired"] = {"expired"}
      /\ EventFits["unknown"] = {"unknown"}
  BY DEF EventFits
<1> QED BY <1>1 DEF EventNames, RowStory, Move

\* A row that is open, or not yet there, has no event.
LEMMA OpenUnrecorded ==
  ASSUME Inv, AuditInv, NEW r \in ReqIds, status[r] \in {"none"} \cup LiveStatus
  PROVE  events[r] = <<>>
<1>1. events[r] \in Seq(EventNames) /\ Len(events[r]) <= 1
  BY DEF Inv, TypeOK, SeenType, EventNames, AuditInv, AuditAgrees
<1>2. CASE Len(events[r]) = 1
  <2>1. events[r][1] \in EventNames /\ status[r] \in EventFits[events[r][1]]
    BY <1>1, <1>2 DEF AuditInv, AuditAgrees
  <2> QED BY <2>1 DEF EventNames, EventFits, LiveStatus
<1>3. Len(events[r]) = 1 \/ Len(events[r]) = 0
  <2>1. Len(events[r]) \in Nat
    BY <1>1
  <2>2. \A n \in Nat : n <= 1 => n = 1 \/ n = 0
    OBVIOUS
  <2> QED BY <1>1, <2>1, <2>2, Zenon
<1> QED BY <1>1, <1>2, <1>3

\* What is left to prove of a step that records nothing: what the handler may record.
LEMMA AuditStep ==
  ASSUME Inv, AuditInv, \A r \in ReqIds : RowStory(r), UNCHANGED events,
         (pc' # "idle" /\ h'.r # None /\ ~h'.reused /\ (h'.kind = "poll" => h'.pend)) => events[h'.r] = <<>>
  PROVE  AuditInv'
<1>1. ASSUME NEW r \in ReqIds, NEW i \in 1 .. Len(events[r]) PROVE status'[r] \in EventFits[events[r][i]]
  <2>1. events[r][i] \in EventNames /\ status[r] \in EventFits[events[r][i]]
    BY <1>1 DEF Inv, TypeOK, SeenType, EventNames, AuditInv, AuditAgrees
  <2> QED BY <2>1, FitsOn
<1>2. AuditAgrees'
  BY <1>1 DEF AuditAgrees, AuditInv
<1> QED BY <1>2 DEF AuditInv

\* The handler goes on with the request it had, or has none to record.
SameRequest ==
    \/ pc' = "idle" \/ h'.r = None \/ h'.reused
    \/ pc # "idle" /\ h'.r = h.r /\ h'.reused = h.reused /\ h'.kind = h.kind /\ h'.pend = h.pend

LEMMA SameRequestAudit ==
  ASSUME Inv, AuditInv, \A r \in ReqIds : RowStory(r), UNCHANGED events, SameRequest
  PROVE  AuditInv'
  BY AuditStep DEF SameRequest, AuditInv

LEMMA HandlerSameRequest ==
  ASSUME Inv, SubmitStep \/ PollStep \/ Dispatch \/ RecordResult, ~ReserveCreated
  PROVE  SameRequest /\ UNCHANGED events
<1> USE DEF At, Goto, SameRequest, seenVars
<1>0. h \in Locals
  BY DEF Inv, TypeOK, HandlerType
<1>1. CASE SubmitStep
  <2>1. CASE SweepList \/ (\E r \in ReqIds : SweepRow(r)) \/ SweepDone \/ SubmitLookup \/ ReserveRefused
    BY <1>0, <2>1 DEF SweepList, SweepRow, SweepDone, SubmitLookup, ReserveRefused, Locals
  <2>2. CASE ReserveReused
    BY <1>0, <2>2 DEF ReserveReused, Locals
  <2>3. CASE (\E st \in {"not_found", "denied", "invalid"} : SubmitEnds(st)) \/ SubmitDecides \/ OpenCard
             \/ OpenFails \/ CreateApproval \/ MarkPending
    BY <1>0, <2>3 DEF SubmitEnds, SubmitDecides, OpenCard, OpenFails, CreateApproval, MarkPending, Locals
  <2>4. CASE LookupAgain("lookup_allowed", "claim_received") \/ ClaimReceived
    BY <1>0, <2>4 DEF LookupAgain, ClaimReceived, Locals
  <2> QED BY <1>1, <2>1, <2>2, <2>3, <2>4 DEF SubmitStep
<1>2. CASE PollStep
  BY <1>0, <1>2 DEF PollStep, Authorize, Resolve, SurfacePoll, AfterPoll, FinishAnswered, LookupAgain,
                    ClaimApproval, Locals
<1>3. CASE Dispatch \/ RecordResult
  BY <1>0, <1>3 DEF Dispatch, RecordResult, Locals
<1> QED BY <1>1, <1>2, <1>3

LEMMA ReserveCreatedAudit ==
  ASSUME Inv, AuditInv, ReserveCreated, \A r \in ReqIds : RowStory(r)
  PROVE  AuditInv'
<1>1. PICK r \in ReqIds : req[r] = None /\ h' = [h EXCEPT !.r = r]
  BY DEF ReserveCreated
<1>2. h'.r = r /\ status[r] = "none"
  BY <1>1 DEF Inv, TypeOK, HandlerType, Locals, RowsInv
<1>3. events[r] = <<>>
  BY <1>2, OpenUnrecorded
<1> QED BY <1>2, <1>3, AuditStep DEF ReserveCreated, seenVars

LEMMA OutsideAudit ==
  ASSUME Inv, AuditInv, Agent \/ Operator \/ World \/ Fault \/ Start \/ Reload \/ UNCHANGED vars,
         \A r \in ReqIds : RowStory(r)
  PROVE  AuditInv'
<1> USE DEF Goto, seenVars
<1>1. ASSUME NEW t \in Tokens, NEW r \in ReqIds, PollStart(t, r) PROVE AuditInv'
  <2>1. h'.r = r /\ h'.kind = "poll" /\ h'.pend = (status[r] = "pending_approval")
    BY <1>1 DEF PollStart, NoLocals
  <2>2. h'.pend => events[r] = <<>>
    BY <2>1, OpenUnrecorded DEF LiveStatus
  <2> QED BY <1>1, <2>1, <2>2, AuditStep DEF PollStart
<1>2. ASSUME NEW t \in Tokens, NEW a \in Actions, NEW k \in Keys \cup {None}, NEW p \in Payloads,
             SubmitStart(t, a, k, p)
      PROVE  AuditInv'
  <2>1. h'.r = None /\ UNCHANGED events
    BY <1>2 DEF SubmitStart, NoLocals
  <2> QED BY <2>1, AuditStep
<1>3. CASE Fault
  BY <1>3, AuditStep DEF Fault, InternalError, Crash
<1>4. ASSUME UNCHANGED <<pc, h, events>> PROVE AuditInv'
  BY <1>4, AuditStep DEF AuditInv
<1>5. CASE Operator
  <2>1. UNCHANGED <<pc, h, events>>
    BY <1>5 DEF Operator, IssueToken, RotateAdd, RotateRevoke, RevokeToken,
         CountTokens, RevokeCaller, CancelList, CancelRow, OperatorSweep, WritePolicy, Prune,
         ReconcileOffline, handlerVars
  <2> QED BY <1>4, <2>1
<1>6. CASE World \/ Start \/ Reload \/ UNCHANGED vars
  <2>1. UNCHANGED <<pc, h, events>>
    BY <1>6 DEF World, EditManifest, HumanDecides, CardLapses, Tick, Start, Reload, vars, handlerVars
  <2> QED BY <1>4, <2>1
<1> QED
  BY <1>1, <1>2, <1>3, <1>5, <1>6 DEF Agent

\* _audit_request_terminal appends the first event of the row, and it fits.
LEMMA RespondAudit ==
  ASSUME Inv, AnswerInv, AuditInv, Respond
  PROVE  AuditInv'
<1> USE DEF Goto
<1>1. pc' = "idle" /\ status' = status
  BY DEF Respond, rowVars
<1>2. CASE events' = events
  BY <1>1, <1>2 DEF AuditInv, AuditAgrees
<1>3. CASE events' # events
  <2>1. /\ h.out \in DOMAIN TerminalEvent /\ h.r # None /\ ~h.reused /\ (h.kind = "poll" => h.pend)
        /\ events' = [events EXCEPT ![h.r] = Append(@, TerminalEvent[h.out])]
        /\ pc = "respond"
    BY <1>3 DEF Respond, At
  <2>2. h.r \in ReqIds /\ events[h.r] = <<>> /\ events \in [ReqIds -> Seq(EventNames)]
    BY <2>1 DEF AuditInv, Inv, TypeOK, SeenType, EventNames, HandlerType, Locals
  <2>3. MaySay(h.r, h.out)
    BY <2>1 DEF AnswerInv
  <2>4. TerminalEvent[h.out] \in EventNames /\ status[h.r] \in EventFits[TerminalEvent[h.out]]
    <3>1. h.out \in {"ok", "denied", "failed", "unavailable", "expired", "unknown"}
      BY <2>1 DEF TerminalEvent
    <3>2. StandsFor(h.out, status[h.r])
      BY <2>3, <3>1 DEF MaySay, FinalAnswers, Outcomes, LiveStatus
    <3> QED BY <3>1, <3>2 DEF StandsFor, TerminalEvent, EventFits, EventNames
  <2> DEFINE e == TerminalEvent[h.out]
  <2> HIDE DEF e
  <2>5. events'[h.r] = <<e>> /\ \A r \in ReqIds \ {h.r} : events'[r] = events[r]
    BY <2>1, <2>2, <2>4 DEF e
  <2>6. ASSUME NEW r \in ReqIds
        PROVE  Len(events'[r]) <= 1 /\ \A i \in 1 .. Len(events'[r]) : status'[r] \in EventFits[events'[r][i]]
    <3>1. CASE r = h.r
      <4>1. status'[r] \in EventFits[e] /\ events'[r] = <<e>>
        BY <1>1, <2>4, <2>5, <3>1 DEF e
      <4>2. Len(<<e>>) = 1 /\ <<e>>[1] = e
        OBVIOUS
      <4> QED BY <4>1, <4>2
    <3>2. CASE r # h.r
      BY <1>1, <2>5, <3>2 DEF AuditInv, AuditAgrees
    <3> QED BY <3>1, <3>2
  <2> QED BY <1>1, <2>6 DEF AuditInv, AuditAgrees
<1> QED BY <1>2, <1>3

\* Nobody has recorded the end of a request that the handler may still record: AuditInv.
THEOREM AuditInvHolds == Spec => []AuditInv
<1>1. Init => AuditInv
  BY DEF Init, AuditInv, AuditAgrees
<1>2. Inv /\ AnswerInv /\ AuditInv /\ [Next]_vars => AuditInv'
  BY StepStory, HandlerSameRequest, SameRequestAudit, ReserveCreatedAudit, RespondAudit, OutsideAudit
  DEF Next, HandlerStep
<1> QED
  BY <1>1, <1>2, InvHolds, AnswerInvHolds, PTL DEF Spec

\* The audit trail records at most one terminal event per request, in whichever HTTP request
\* its end is seen, and the event never disagrees with the row: no later step moves the row
\* to another outcome, and none records a second end.
THEOREM AuditAgreesHolds == Spec => []AuditAgrees
<1>1. AuditInv => AuditAgrees
  BY DEF AuditInv
<1> QED
  BY <1>1, AuditInvHolds, PTL

-----------------------------------------------------------------------------
(* The handler serves a row of its own caller *)

\* The handler goes on with the row and the token it had, or serves none.
SameServed == pc' \in Serving => pc \in Serving /\ h'.r = h.r /\ h'.tok = h.tok /\ req' = req

LEMMA SameServedOwner ==
  ASSUME OwnerInv, SameServed
  PROVE  OwnerInv'
  BY DEF OwnerInv, SameServed

LEMMA HandlerSameServed ==
  ASSUME Inv, HandlerStep, ~ReserveCreated
  PROVE  SameServed
<1> USE DEF At, Goto, SameServed, Serving, Reserved, rowVars
<1>0. h \in Locals
  BY DEF Inv, TypeOK, HandlerType
<1>1. CASE SubmitStep
  <2>1. CASE SweepList \/ (\E r \in ReqIds : SweepRow(r)) \/ SweepDone \/ SubmitLookup \/ ReserveRefused
             \/ ReserveReused
    BY <2>1 DEF SweepList, SweepRow, SweepDone, SubmitLookup, ReserveRefused, ReserveReused
  <2>2. CASE (\E st \in {"not_found", "denied", "invalid"} : SubmitEnds(st)) \/ SubmitDecides \/ OpenCard
             \/ OpenFails \/ CreateApproval \/ MarkPending
    BY <2>2 DEF SubmitEnds, SubmitDecides, OpenCard, OpenFails, CreateApproval, MarkPending
  <2>3. CASE LookupAgain("lookup_allowed", "claim_received") \/ ClaimReceived
    BY <1>0, <2>3 DEF LookupAgain, ClaimReceived, Locals
  <2> QED BY <1>1, <2>1, <2>2, <2>3 DEF SubmitStep
<1>2. CASE PollStep
  BY <1>0, <1>2 DEF PollStep, Authorize, Resolve, SurfacePoll, AfterPoll, FinishAnswered, LookupAgain,
                    ClaimApproval, Locals
<1>3. CASE Dispatch \/ RecordResult \/ Respond
  BY <1>0, <1>3 DEF Dispatch, RecordResult, Respond, Locals
<1> QED BY <1>1, <1>2, <1>3 DEF HandlerStep

\* The steps of a submission that read the store and write nothing.
LEMMA ReadingSteps ==
  ASSUME SweepList \/ SweepDone \/ SubmitLookup \/ ReserveRefused \/ ReserveReused \/ SubmitDecides
  PROVE  UNCHANGED <<rowVars, nodVars>>
<1>1. CASE SweepList \/ SweepDone
  BY <1>1, Zenon DEF SweepList, SweepDone
<1>2. CASE SubmitLookup
  BY <1>2, Zenon DEF SubmitLookup
<1>3. CASE ReserveRefused
  BY <1>3, Zenon DEF ReserveRefused
<1>4. CASE ReserveReused
  BY <1>4, Zenon DEF ReserveReused
<1>5. CASE SubmitDecides
  BY <1>5, Zenon DEF SubmitDecides
<1> QED BY <1>1, <1>2, <1>3, <1>4, <1>5

\* So does the acceptance of an HTTP request.
LEMMA AgentReads == ASSUME Agent PROVE UNCHANGED <<rowVars, nodVars>>
<1>1. ASSUME NEW t, NEW a, NEW k, NEW p, SubmitStart(t, a, k, p) PROVE UNCHANGED <<rowVars, nodVars>>
  BY <1>1, Zenon DEF SubmitStart
<1>2. ASSUME NEW t, NEW r, PollStart(t, r) PROVE UNCHANGED <<rowVars, nodVars>>
  BY <1>2, Zenon DEF PollStart
<1> QED BY <1>1, <1>2 DEF Agent

\* The clock moves only in Tick, and an answer is given only in HumanDecides.
LEMMA SubmitClock == ASSUME SubmitStep PROVE UNCHANGED <<now, decidedAt>>
<1> USE DEF clockVars, nodVars
<1>1. CASE SweepList \/ SweepDone
  BY <1>1, Zenon DEF SweepList, SweepDone
<1>2. CASE SubmitLookup \/ ReserveRefused
  BY <1>2, Zenon DEF SubmitLookup, ReserveRefused
<1>3. CASE ReserveReused
  BY <1>3, Zenon DEF ReserveReused
<1>4. CASE SubmitDecides \/ (\E r \in ReqIds : SweepRow(r)) \/ ReserveCreated
  BY <1>4 DEF SubmitDecides, SweepRow, ReserveCreated
<1>5. CASE (\E st \in {"not_found", "denied", "invalid"} : SubmitEnds(st)) \/ OpenCard \/ OpenFails
           \/ CreateApproval \/ MarkPending
  BY <1>5 DEF SubmitEnds, OpenCard, OpenFails, CreateApproval, MarkPending
<1>6. CASE LookupAgain("lookup_allowed", "claim_received") \/ ClaimReceived
  BY <1>6 DEF LookupAgain, ClaimReceived
<1> QED BY <1>1, <1>2, <1>3, <1>4, <1>5, <1>6 DEF SubmitStep

LEMMA PollClock == ASSUME PollStep PROVE UNCHANGED <<now, decidedAt>>
  BY DEF PollStep, Authorize, Resolve, SurfacePoll, AfterPoll, FinishAnswered, LookupAgain, ClaimApproval,
         clockVars, nodVars

LEMMA AgentClock == ASSUME Agent PROVE UNCHANGED <<now, decidedAt>>
<1> USE DEF clockVars, nodVars
<1>1. ASSUME NEW t, NEW a, NEW k, NEW p, SubmitStart(t, a, k, p) PROVE UNCHANGED <<now, decidedAt>>
  BY <1>1, Zenon DEF SubmitStart
<1>2. ASSUME NEW t, NEW r, PollStart(t, r) PROVE UNCHANGED <<now, decidedAt>>
  BY <1>2, Zenon DEF PollStart
<1> QED BY <1>1, <1>2 DEF Agent

\* A submission never enters the steps of a poll.
LEMMA SubmitPlaces ==
  ASSUME Inv, SubmitStep PROVE pc' \notin {"after_poll", "lookup_approved", "claim_approval"}
<1> USE DEF At, Goto
<1>1. CASE SweepList \/ SweepDone
  BY <1>1 DEF SweepList, SweepDone
<1>2. CASE SubmitLookup \/ ReserveRefused
  BY <1>2 DEF SubmitLookup, ReserveRefused
<1>3. CASE ReserveReused
  BY <1>3 DEF ReserveReused
<1>4. CASE SubmitDecides \/ (\E r \in ReqIds : SweepRow(r)) \/ ReserveCreated
  BY <1>4 DEF SubmitDecides, SweepRow, ReserveCreated
<1>5. CASE (\E st \in {"not_found", "denied", "invalid"} : SubmitEnds(st)) \/ OpenCard \/ OpenFails
           \/ CreateApproval \/ MarkPending
  BY <1>5 DEF SubmitEnds, OpenCard, OpenFails, CreateApproval, MarkPending
<1>6. CASE LookupAgain("lookup_allowed", "claim_received") \/ ClaimReceived
  BY <1>6 DEF LookupAgain, ClaimReceived
<1> QED BY <1>1, <1>2, <1>3, <1>4, <1>5, <1>6 DEF SubmitStep

\* Only reserve_action writes the columns of req.
LEMMA HandlerSameRows ==
  ASSUME HandlerStep, ~ReserveCreated
  PROVE  req' = req
<1> USE DEF rowVars
<1>1. CASE SubmitStep
  <2>1. CASE SweepList \/ SweepDone \/ SubmitLookup \/ ReserveRefused \/ ReserveReused \/ SubmitDecides
    BY <2>1, ReadingSteps
  <2>2. CASE (\E r \in ReqIds : SweepRow(r)) \/ (\E st \in {"not_found", "denied", "invalid"} : SubmitEnds(st))
             \/ OpenCard \/ OpenFails \/ CreateApproval \/ MarkPending
    BY <2>2 DEF SweepRow, SubmitEnds, OpenCard, OpenFails, CreateApproval, MarkPending
  <2>3. CASE LookupAgain("lookup_allowed", "claim_received") \/ ClaimReceived
    BY <2>3 DEF LookupAgain, ClaimReceived
  <2> QED BY <1>1, <2>1, <2>2, <2>3 DEF SubmitStep
<1>2. CASE PollStep
  BY <1>2 DEF PollStep, Authorize, Resolve, SurfacePoll, AfterPoll, FinishAnswered, LookupAgain, ClaimApproval
<1>3. CASE Dispatch \/ RecordResult \/ Respond
  BY <1>3 DEF Dispatch, RecordResult, Respond
<1> QED BY <1>1, <1>2, <1>3 DEF HandlerStep

LEMMA OutsideSame ==
  ASSUME Operator \/ World \/ Start \/ Reload \/ UNCHANGED vars
  PROVE  UNCHANGED <<pc, h, req, effects>>
<1> USE DEF handlerVars, rowVars, seenVars
<1>1. CASE Operator
  BY <1>1 DEF Operator, IssueToken, RotateAdd, RotateRevoke, RevokeToken, CountTokens, RevokeCaller,
              CancelList, CancelRow, OperatorSweep, WritePolicy, Prune, ReconcileOffline
<1>2. CASE World \/ Start \/ Reload \/ UNCHANGED vars
  BY <1>2 DEF World, EditManifest, HumanDecides, CardLapses, Tick, Start, Reload, vars
<1> QED BY <1>1, <1>2

\* The request being served belongs to the caller whose token came with the HTTP request:
\* a submission reserves it in that caller's name, a poll is refused for any other row.
THEOREM OwnerInvHolds == Spec => []OwnerInv
<1>1. Init => OwnerInv
  BY DEF Init, OwnerInv, Serving, Reserved
<1>2. ASSUME Inv, OwnerInv, [Next]_vars PROVE OwnerInv'
  <2>1. CASE ReserveCreated
    <3>1. PICK r \in ReqIds :
            /\ req' = [req EXCEPT ![r] = [caller |-> Owner[h.tok], act |-> h.act, key |-> h.key,
                                          pay |-> h.pay, gen |-> h.gen, bind |-> policy[Owner[h.tok]]]]
            /\ h' = [h EXCEPT !.r = r]
      BY <2>1 DEF ReserveCreated
    <3>2. h'.r = r /\ h'.tok = h.tok
      BY <1>2, <3>1 DEF Inv, TypeOK, HandlerType, Locals
    <3>3. r \in DOMAIN req
      BY <1>2 DEF Inv, TypeOK, RowType
    <3>4. req'[r].caller = Owner[h.tok]
      BY <3>1, <3>3
    <3> QED BY <3>2, <3>4 DEF OwnerInv
  <2>2. CASE HandlerStep /\ ~ReserveCreated
    BY <1>2, <2>2, HandlerSameServed, SameServedOwner
  <2>3. ASSUME NEW t \in Tokens, NEW r \in ReqIds, PollStart(t, r) PROVE OwnerInv'
    BY <2>3 DEF PollStart, NoLocals, OwnerInv, rowVars
  <2>4. CASE Fault \/ \E t \in Tokens, a \in Actions, k \in Keys \cup {None}, p \in Payloads : SubmitStart(t, a, k, p)
    BY <2>4 DEF Fault, InternalError, Crash, SubmitStart, Goto, OwnerInv, Serving, Reserved
  <2>5. CASE Operator \/ World \/ Start \/ Reload \/ UNCHANGED vars
    BY <1>2, <2>5, OutsideSame DEF OwnerInv
  <2> QED BY <1>2, <2>1, <2>2, <2>3, <2>4, <2>5 DEF Next, Agent
<1> QED
  BY <1>1, <1>2, InvHolds, PTL DEF Spec

-----------------------------------------------------------------------------
(* The commit points *)

\* Only the two claims move a row to executing, the one the handler serves.
LEMMA OnlyClaims ==
  ASSUME Inv, Next, NEW r \in ReqIds, status[r] # "executing", status'[r] = "executing"
  PROVE  r = h.r /\ (ClaimReceived \/ ClaimApproval)
<1> USE DEF rowVars
<1>0. StatusType /\ h \in Locals
  BY DEF Inv, TypeOK, RowType, HandlerType
<1>1. ASSUME NEW s \in ReqIds, NEW st \in NotRunStatus, NEW ap, NEW dl, NEW n, FinishPending(s, st, ap, dl, n)
      PROVE  FALSE
  BY <1>0, <1>1 DEF FinishPending, Terminate, StatusType, NotRunStatus
<1>2. CASE SubmitStep
  <2>1. CASE \E s \in ReqIds : SweepRow(s)
    BY <1>1, <2>1 DEF SweepRow, ExpireApproval, NotRunStatus
  <2>2. CASE ReserveCreated
    BY <1>0, <2>2 DEF ReserveCreated, StatusType
  <2>3. CASE (\E st \in {"not_found", "denied", "invalid"} : SubmitEnds(st)) \/ OpenFails \/ MarkPending
    BY <1>0, <2>3 DEF SubmitEnds, OpenFails, MarkPending, Terminate, StatusType
  <2>4. CASE ClaimReceived
    BY <1>0, <2>4 DEF ClaimReceived, Terminate, StatusType
  <2>5. CASE SweepList \/ SweepDone \/ SubmitLookup \/ ReserveRefused \/ ReserveReused \/ SubmitDecides
             \/ OpenCard \/ CreateApproval \/ LookupAgain("lookup_allowed", "claim_received")
    BY <2>5 DEF SweepList, SweepDone, SubmitLookup, ReserveRefused, ReserveReused, SubmitDecides, OpenCard,
                CreateApproval, LookupAgain
  <2> QED BY <1>2, <2>1, <2>2, <2>3, <2>4, <2>5 DEF SubmitStep
<1>3. CASE PollStep
  <2>1. CASE ClaimApproval
    BY <1>0, <2>1 DEF ClaimApproval, Terminate, StatusType
  <2>2. CASE Resolve \/ AfterPoll \/ FinishAnswered
    <3>1. h.r \in ReqIds
      BY <2>2, PollRow DEF Resolve, AfterPoll, FinishAnswered, At, Serving
    <3>2. PICK st, ap, dl, n : st \in NotRunStatus /\ (status' = status \/ FinishPending(h.r, st, ap, dl, n))
      <4>1. "expired" \in NotRunStatus /\ "denied" \in NotRunStatus
        BY DEF NotRunStatus
      <4>2. CASE Resolve \/ AfterPoll
        BY <4>1, <4>2 DEF Resolve, AfterPoll, ExpireApproval
      <4>3. CASE FinishAnswered
        BY <4>1, <4>3 DEF FinishAnswered
      <4> QED BY <2>2, <4>2, <4>3
    <3> QED BY <1>1, <3>1, <3>2
  <2>3. CASE Authorize("authorize", "resolve") \/ Authorize("reauthorize", "respond") \/ SurfacePoll
             \/ LookupAgain("lookup_approved", "claim_approval")
    BY <2>3 DEF Authorize, SurfacePoll, LookupAgain
  <2> QED BY <1>3, <2>1, <2>2, <2>3 DEF PollStep
<1>4. CASE Dispatch \/ RecordResult \/ Respond
  <2>1. RecordResult => h.ans \in {"ok", "refused", "error"} /\ status[h.r] = "executing"
    BY DEF RecordResult, At, Inv, HandlerInv
  <2> QED BY <1>0, <1>4, <2>1 DEF Dispatch, RecordResult, ResultStatus, Respond, Terminate, StatusType
<1>5. CASE Operator
  <2>1. CASE \E s \in ReqIds : CancelRow(s) \/ OperatorSweep(s)
    BY <1>1, <2>1 DEF CancelRow, OperatorSweep, ExpireApproval, NotRunStatus
  <2>2. CASE (\E c \in Callers, p \in Policies : WritePolicy(c, p)) \/ (\E S \in SUBSET ReqIds : Prune(S))
             \/ ReconcileOffline
    BY <2>2 DEF WritePolicy, Prune, ReconcileOffline
  <2>3. CASE \/ \E t \in Tokens : IssueToken(t) \/ RotateAdd(t) \/ RotateRevoke(t) \/ RevokeToken(t)
             \/ \E c \in Callers : CountTokens(c) \/ RevokeCaller(c) \/ CancelList(c)
    BY <2>3 DEF IssueToken, RotateAdd, RotateRevoke, RevokeToken, CountTokens, RevokeCaller, CancelList
  <2> QED BY <1>5, <2>1, <2>2, <2>3 DEF Operator
<1>6. CASE Agent \/ World \/ Fault \/ Start \/ Reload
  BY <1>6 DEF Agent, SubmitStart, PollStart, World, EditManifest, HumanDecides, CardLapses, Tick,
              Fault, InternalError, Crash, Start, Reload
<1> QED
  BY <1>2, <1>3, <1>4, <1>5, <1>6 DEF Next, HandlerStep

\* "Revocation/cancellation wins until this transaction claims": a request starts to execute
\* only in a step in which its caller and the token it came with are live, the policy is the
\* one it was reserved under, and that policy lets it run.
THEOREM AuthorityAtCommitHolds == Spec => AuthorityAtCommit
<1> DEFINE Current ==
      \A r \in ReqIds : status[r] # "executing" /\ status'[r] = "executing" =>
          /\ Live(h.tok) /\ Owner[h.tok] = req[r].caller
          /\ policy[req[r].caller] = req[r].bind
          /\ DecideFor(req[r].caller, req[r].act) \in {ALLOW, REVIEW}
<1>1. Inv /\ OwnerInv /\ [Next]_vars => [Current]_vars
  <2> SUFFICES ASSUME Inv, OwnerInv, Next, NEW r \in ReqIds, status[r] # "executing", status'[r] = "executing"
               PROVE  /\ Live(h.tok) /\ Owner[h.tok] = req[r].caller
                      /\ policy[req[r].caller] = req[r].bind
                      /\ DecideFor(req[r].caller, req[r].act) \in {ALLOW, REVIEW}
    OBVIOUS
  <2>1. r = h.r /\ (ClaimReceived \/ ClaimApproval)
    BY OnlyClaims
  <2>2. Owner[h.tok] = req[r].caller
    BY <2>1 DEF ClaimReceived, ClaimApproval, At, OwnerInv, Serving, Reserved
  <2>3. StillAuthorized(r, h.tok, ALLOW) \/ StillAuthorized(r, h.tok, REVIEW)
    <3>1. StatusType
      BY DEF Inv, TypeOK, RowType
    <3>2. CASE ClaimReceived
      BY <2>1, <3>1, <3>2 DEF ClaimReceived, Terminate, StatusType
    <3>3. CASE ClaimApproval
      BY <2>1, <3>1, <3>3 DEF ClaimApproval, Terminate, StatusType
    <3> QED BY <2>1, <3>2, <3>3
  <2> QED BY <2>2, <2>3 DEF StillAuthorized
<1> QED
  BY <1>1, InvHolds, OwnerInvHolds, PTL DEF Spec, AuthorityAtCommit

-----------------------------------------------------------------------------
(* The two rows of a request *)

\* What RowsAgree says of one request, as a relation between its columns.
Agree(st, ap, kp) ==
    /\ kp <=> st \in LiveStatus
    /\ st = "pending_approval" => ap = "pending"
    /\ ap = "pending" => st \in {"received", "pending_approval", "unknown"}
    /\ ap = "approved" => st \in {"executing", "completed", "failed", "unknown", "result_expired"}
    /\ ap = "rejected" => st = "denied"
    /\ ap \in {"expired", "cancelled"} => st \in {"expired", "denied"}
    /\ st = "none" => ap = "none"

RowsFit == \A r \in ReqIds : Agree(status[r], app[r], kept[r])

\* The part of ApprovalInv that is about the handler.
HandlerApproval ==
    /\ pc \in Reserved \ {"park"} => app[h.r] = "none"
    /\ pc = "park" => app[h.r] = "pending"
    /\ pc = "after_poll" => h.ans # "none"
    /\ pc = "finish" => h.ans \in {"rejected", "expired", "cancelled"}

LEMMA ApprovalParts == ApprovalInv <=> RowsFit /\ HandlerApproval
  BY DEF ApprovalInv, RowsAgree, RowsFit, Agree, HandlerApproval

LEMMA ApprovalPartsNext == ApprovalInv' <=> RowsFit' /\ HandlerApproval'
  BY DEF ApprovalInv, RowsAgree, RowsFit, Agree, HandlerApproval

\* A step that changes the columns of one request, and leaves them in agreement.
LEMMA OneRowFits ==
  ASSUME RowType, RowsFit, NEW r \in ReqIds, NEW st, NEW ap, NEW kp, Agree(st, ap, kp),
         status' = [status EXCEPT ![r] = st], app' = [app EXCEPT ![r] = ap], kept' = [kept EXCEPT ![r] = kp]
  PROVE  RowsFit'
<1> SUFFICES ASSUME NEW s \in ReqIds PROVE Agree(status'[s], app'[s], kept'[s])
  BY DEF RowsFit
<1>1. CASE s = r
  <2>1. status'[s] = st /\ app'[s] = ap /\ kept'[s] = kp
    BY <1>1 DEF RowType, StatusType, AppType
  <2> QED BY <2>1
<1>2. CASE s # r
  <2>1. status'[s] = status[s] /\ app'[s] = app[s] /\ kept'[s] = kept[s]
    BY <1>2 DEF RowType, StatusType, AppType
  <2> QED BY <2>1 DEF RowsFit
<1> QED BY <1>1, <1>2

\* The endings that finish_pending gives to both rows.
Ending(st, ap) == (st = "denied" /\ ap = "rejected") \/ (st = "expired" /\ ap \in {"expired", "cancelled"})

\* finish_pending leaves the two rows of the request in agreement and every other request,
\* and every request that is not parked, alone.
LEMMA FinishFits ==
  ASSUME RowType, RowsFit, NEW r \in ReqIds, NEW st, NEW ap, Ending(st, ap), NEW dl, NEW n,
         FinishPending(r, st, ap, dl, n)
  PROVE  /\ RowsFit'
         /\ \A s \in ReqIds : status[s] # "pending_approval" => app'[s] = app[s]
<1>1. CASE UNCHANGED <<status, kept, app>>
  BY <1>1 DEF RowsFit
<1>2. ASSUME NEW x, NEW y, Ending(x, y), Terminate(r, x), app' = [app EXCEPT ![r] = y],
             status[r] = "pending_approval"
      PROVE  /\ RowsFit'
             /\ \A s \in ReqIds : status[s] # "pending_approval" => app'[s] = app[s]
  <2>1. Agree(x, y, FALSE)
    BY <1>2 DEF Agree, Ending, LiveStatus
  <2>2. RowsFit'
    BY <1>2, <2>1, OneRowFits DEF Terminate
  <2> QED BY <1>2, <2>2 DEF RowType, AppType
<1>3. Ending("expired", "expired") /\ Ending("expired", "cancelled")
  BY DEF Ending
<1> QED BY <1>1, <1>2, <1>3 DEF FinishPending

\* A step outside the handler leaves a row that the handler has reserved alone.
LEMMA OutsideApproval ==
  ASSUME Inv, HandlerApproval, UNCHANGED <<pc, h>>,
         \A s \in ReqIds : status[s] # "pending_approval" => app'[s] = app[s]
  PROVE  HandlerApproval'
<1>1. pc \in Reserved => h.r \in ReqIds /\ status[h.r] = "received"
  BY DEF Inv, HandlerInv, Serving
<1>2. "park" \in Reserved
  BY DEF Reserved
<1> QED BY <1>1, <1>2 DEF HandlerApproval

\* The row that the handler has reserved, before it is parked, claimed or ended.
LEMMA ReservedRow ==
  ASSUME Inv, RowsFit, HandlerApproval, pc \in Reserved
  PROVE  /\ h.r \in ReqIds /\ status[h.r] = "received" /\ kept[h.r] = TRUE
         /\ app[h.r] = IF pc = "park" THEN "pending" ELSE "none"
<1>1. h.r \in ReqIds /\ status[h.r] = "received" /\ kept[h.r] \in BOOLEAN
  BY DEF Inv, HandlerInv, Serving, TypeOK, RowType
<1>2. kept[h.r]
  BY <1>1 DEF RowsFit, Agree, LiveStatus
<1> QED BY <1>1, <1>2 DEF HandlerApproval

\* The columns of the row being served are set; app keeps its value where it is not written.
LEMMA SetColumns ==
  ASSUME RowType, RowsFit, NEW r \in ReqIds, NEW st, Agree(st, app[r], FALSE), Terminate(r, st), app' = app
  PROVE  RowsFit'
<1>1. app' = [app EXCEPT ![r] = app[r]]
  BY DEF RowType, AppType
<1> QED BY <1>1, OneRowFits DEF Terminate

\* The steps of a submission.
LEMMA SubmitFits ==
  ASSUME Inv, RowsFit, HandlerApproval, SubmitStep
  PROVE  RowsFit' /\ HandlerApproval'
<1> USE DEF At, Goto, rowVars
<1>0. RowType /\ h \in Locals
  BY DEF Inv, TypeOK, HandlerType
<1>1. ASSUME UNCHANGED <<status, app, kept>> PROVE RowsFit'
  BY <1>1 DEF RowsFit
<1>2. CASE SweepList \/ SweepDone \/ SubmitLookup \/ ReserveRefused \/ ReserveReused
  <2>1. UNCHANGED <<status, app, kept>> /\ pc' \in {"sweeping", "lookup", "respond", "reserve"}
    BY <1>2 DEF SweepList, SweepDone, SubmitLookup, ReserveRefused, ReserveReused
  <2> QED BY <1>1, <2>1 DEF HandlerApproval, Reserved
<1>3. ASSUME NEW r \in ReqIds, SweepRow(r) PROVE RowsFit' /\ HandlerApproval'
  <2>1. RowsFit'
    BY <1>0, <1>3, FinishFits DEF SweepRow, ExpireApproval, Ending
  <2> QED BY <1>3, <2>1 DEF SweepRow, HandlerApproval, Reserved
<1>4. CASE ReserveCreated
  <2>1. PICK r \in ReqIds : /\ req[r] = None
                            /\ status' = [status EXCEPT ![r] = "received"]
                            /\ kept' = [kept EXCEPT ![r] = TRUE]
                            /\ h' = [h EXCEPT !.r = r]
    BY <1>4 DEF ReserveCreated
  <2>2. app[r] = "none" /\ app' = app /\ pc' = "decide"
    BY <1>4, <2>1 DEF ReserveCreated, Inv, RowsInv, RowsFit, Agree
  <2>3. app' = [app EXCEPT ![r] = "none"]
    BY <1>0, <2>2 DEF RowType, AppType
  <2>4. Agree("received", "none", TRUE)
    BY DEF Agree, LiveStatus
  <2>5. RowsFit'
    BY <1>0, <2>1, <2>3, <2>4, OneRowFits
  <2>6. h'.r = r
    BY <1>0, <2>1 DEF Locals
  <2> QED BY <2>2, <2>5, <2>6 DEF HandlerApproval
<1>5. ASSUME NEW st \in {"not_found", "denied", "invalid"}, SubmitEnds(st) PROVE RowsFit' /\ HandlerApproval'
  <2>1. h.r \in ReqIds /\ app[h.r] = "none" /\ pc' = "respond" /\ app' = app
    BY <1>5, ReservedRow DEF SubmitEnds, Reserved
  <2>2. Agree(st, app[h.r], FALSE)
    BY <2>1 DEF Agree, LiveStatus
  <2>3. RowsFit'
    BY <1>0, <1>5, <2>1, <2>2, SetColumns DEF SubmitEnds
  <2> QED BY <2>1, <2>3 DEF HandlerApproval, Reserved
<1>6. CASE SubmitDecides \/ OpenCard \/ LookupAgain("lookup_allowed", "claim_received")
  <2>1. /\ UNCHANGED <<status, app, kept>> /\ pc \in Reserved \ {"park"}
        /\ pc' \in {"open", "lookup_allowed", "create", "claim_received"} /\ h'.r = h.r
    BY <1>0, <1>6 DEF SubmitDecides, OpenCard, LookupAgain, Reserved, Locals
  <2> QED BY <1>1, <2>1 DEF HandlerApproval
<1>7. CASE OpenFails
  <2>1. h.r \in ReqIds /\ app[h.r] = "none" /\ pc' = "respond" /\ app' = app
    BY <1>7, ReservedRow DEF OpenFails, Reserved
  <2>2. Agree("failed", app[h.r], FALSE)
    BY <2>1 DEF Agree, LiveStatus
  <2>3. RowsFit'
    BY <1>0, <1>7, <2>1, <2>2, SetColumns DEF OpenFails
  <2> QED BY <2>1, <2>3 DEF HandlerApproval, Reserved
<1>8. CASE CreateApproval \/ MarkPending
  <2>1. h.r \in ReqIds /\ status[h.r] = "received" /\ kept[h.r] = TRUE
    BY <1>8, ReservedRow DEF CreateApproval, MarkPending, Reserved
  <2>2. kept' = [kept EXCEPT ![h.r] = TRUE]
    BY <1>0, <1>8, <2>1 DEF CreateApproval, MarkPending, RowType
  <2>3. CASE CreateApproval
    <3>1. status' = [status EXCEPT ![h.r] = "received"] /\ app' = [app EXCEPT ![h.r] = "pending"]
      BY <1>0, <2>1, <2>3 DEF CreateApproval, RowType, StatusType
    <3>2. Agree("received", "pending", TRUE)
      BY DEF Agree, LiveStatus
    <3>3. RowsFit'
      BY <1>0, <2>1, <2>2, <3>1, <3>2, OneRowFits
    <3>4. app'[h.r] = "pending" /\ h' = h /\ pc' = "park"
      BY <1>0, <2>1, <2>3 DEF CreateApproval, RowType, AppType
    <3> QED BY <3>3, <3>4 DEF HandlerApproval
  <2>4. CASE MarkPending
    <3>1. app[h.r] = "pending"
      BY <2>4 DEF MarkPending, HandlerApproval
    <3>2. status' = [status EXCEPT ![h.r] = "pending_approval"] /\ app' = [app EXCEPT ![h.r] = "pending"]
      BY <1>0, <2>1, <2>4, <3>1 DEF MarkPending, RowType, AppType
    <3>3. Agree("pending_approval", "pending", TRUE)
      BY DEF Agree, LiveStatus
    <3>4. RowsFit'
      BY <1>0, <2>1, <2>2, <3>2, <3>3, OneRowFits
    <3> QED BY <2>4, <3>4 DEF MarkPending, HandlerApproval, Reserved
  <2> QED BY <1>8, <2>3, <2>4
<1>9. CASE ClaimReceived
  <2>1. h.r \in ReqIds /\ status[h.r] = "received" /\ kept[h.r] = TRUE /\ app[h.r] = "none" /\ app' = app
    BY <1>9, ReservedRow DEF ClaimReceived, Reserved
  <2>2. pc' \in {"execute", "respond"}
    BY <1>9 DEF ClaimReceived
  <2>3. CASE status' = [status EXCEPT ![h.r] = "executing"] /\ kept' = kept
    <3>1. kept' = [kept EXCEPT ![h.r] = TRUE] /\ app' = [app EXCEPT ![h.r] = "none"]
      BY <1>0, <2>1, <2>3 DEF RowType, AppType
    <3>2. Agree("executing", "none", TRUE)
      BY DEF Agree, LiveStatus
    <3>3. RowsFit'
      BY <1>0, <2>1, <2>3, <3>1, <3>2, OneRowFits
    <3> QED BY <2>2, <3>3 DEF HandlerApproval, Reserved
  <2>4. CASE Terminate(h.r, "denied")
    <3>1. Agree("denied", app[h.r], FALSE)
      BY <2>1 DEF Agree, LiveStatus
    <3>2. RowsFit'
      BY <1>0, <2>1, <2>4, <3>1, SetColumns
    <3> QED BY <2>2, <3>2 DEF HandlerApproval, Reserved
  <2> QED BY <1>9, <2>1, <2>3, <2>4 DEF ClaimReceived
<1> QED
  BY <1>2, <1>3, <1>4, <1>5, <1>6, <1>7, <1>8, <1>9 DEF SubmitStep

\* The steps of a poll.
LEMMA PollFits ==
  ASSUME Inv, RowsFit, HandlerApproval, PollStep
  PROVE  RowsFit' /\ HandlerApproval'
<1> USE DEF At, Goto, rowVars
<1>0. RowType /\ h \in Locals /\ CardType
  BY DEF Inv, TypeOK, HandlerType
<1>1. ASSUME UNCHANGED <<status, app, kept>> PROVE RowsFit'
  BY <1>1 DEF RowsFit
<1>2. CASE \/ Authorize("authorize", "resolve") \/ Authorize("reauthorize", "respond")
           \/ LookupAgain("lookup_approved", "claim_approval")
  <2>1. UNCHANGED <<status, app, kept>> /\ pc' \in {"idle", "resolve", "respond", "claim_approval"}
    BY <1>2 DEF Authorize, LookupAgain
  <2> QED BY <1>1, <2>1 DEF HandlerApproval, Reserved
<1>3. CASE SurfacePoll
  <2>1. h.r \in ReqIds /\ card[h.r] \in CardState
    BY <1>0, <1>3, PollRow DEF SurfacePoll, Serving, CardType
  <2>2. ToState(card[h.r]) # "none"
    BY <2>1 DEF ToState, CardState
  <2>3. h'.ans # "none" /\ pc' = "after_poll" /\ UNCHANGED <<status, app, kept>>
    BY <1>0, <1>3, <2>2 DEF SurfacePoll, Locals
  <2> QED BY <1>1, <2>3 DEF HandlerApproval, Reserved
<1>4. CASE Resolve \/ AfterPoll
  <2>1. h.r \in ReqIds
    BY <1>4, PollRow DEF Resolve, AfterPoll, Serving
  <2>2. UNCHANGED <<status, app, kept>> \/ FinishPending(h.r, "expired", "expired", TRUE, now)
    BY <1>4 DEF Resolve, AfterPoll, ExpireApproval
  <2>3. RowsFit'
    BY <1>0, <1>1, <2>1, <2>2, FinishFits DEF Ending
  <2>4. \/ pc' \in {"reauthorize", "surface", "lookup_approved"}
        \/ pc = "after_poll" /\ pc' = "finish" /\ h' = [h EXCEPT !.t = now] /\ h.ans # "pending" /\ h.ans # "approved"
    BY <1>4 DEF Resolve, AfterPoll
  <2>5. pc' = "finish" => h'.ans \in {"rejected", "expired", "cancelled"}
    BY <1>0, <2>4 DEF Locals, Inv, HandlerInv, HandlerApproval, AppStatus
  <2> QED BY <2>3, <2>4, <2>5 DEF HandlerApproval, Reserved
<1>5. CASE FinishAnswered
  <2>1. h.r \in ReqIds /\ h.ans \in {"rejected", "expired", "cancelled"} /\ pc' = "reauthorize"
    BY <1>5, PollRow DEF FinishAnswered, Serving, HandlerApproval
  <2>2. PICK n : FinishPending(h.r, IF h.ans = "rejected" THEN "denied" ELSE "expired", h.ans, FALSE, n)
    BY <1>5 DEF FinishAnswered
  <2>3. Ending(IF h.ans = "rejected" THEN "denied" ELSE "expired", h.ans)
    BY <2>1 DEF Ending
  <2>4. RowsFit'
    BY <1>0, <2>1, <2>2, <2>3, FinishFits
  <2> QED BY <2>1, <2>4 DEF HandlerApproval, Reserved
<1>6. CASE ClaimApproval
  <2>1. h.r \in ReqIds /\ pc' \in {"execute", "reauthorize"}
    BY <1>6, PollRow DEF ClaimApproval, Serving
  <2>2. status[h.r] = "pending_approval" => app[h.r] = "pending" /\ kept[h.r] = TRUE
    <3>1. kept[h.r] \in BOOLEAN
      BY <1>0, <2>1 DEF RowType
    <3> QED BY <2>1, <3>1 DEF RowsFit, Agree, LiveStatus
  <2>3. \/ UNCHANGED <<status, app, kept>>
        \/ /\ status[h.r] = "pending_approval" /\ kept' = kept
           /\ status' = [status EXCEPT ![h.r] = "executing"] /\ app' = [app EXCEPT ![h.r] = "approved"]
        \/ /\ status[h.r] = "pending_approval" /\ Terminate(h.r, "expired")
           /\ app' = [app EXCEPT ![h.r] = "expired"]
        \/ /\ status[h.r] = "pending_approval" /\ Terminate(h.r, "denied")
           /\ app' = [app EXCEPT ![h.r] = "cancelled"]
    BY <1>6, <2>2 DEF ClaimApproval
  <2>4. Agree("executing", "approved", TRUE) /\ Agree("expired", "expired", FALSE) /\ Agree("denied", "cancelled", FALSE)
    BY DEF Agree, LiveStatus
  <2>5. ASSUME status[h.r] = "pending_approval", kept' = kept PROVE kept' = [kept EXCEPT ![h.r] = TRUE]
    BY <1>0, <2>1, <2>2, <2>5 DEF RowType
  <2>6. RowsFit'
    BY <1>0, <1>1, <2>1, <2>3, <2>4, <2>5, OneRowFits DEF Terminate
  <2> QED BY <2>1, <2>6 DEF HandlerApproval, Reserved
<1> QED
  BY <1>2, <1>3, <1>4, <1>5, <1>6 DEF PollStep

\* The call of the tool, its record and the answer.
LEMMA ExecuteFits ==
  ASSUME Inv, RowsFit, HandlerApproval, Dispatch \/ RecordResult \/ Respond
  PROVE  RowsFit' /\ HandlerApproval'
<1> USE DEF At, Goto, rowVars
<1>1. pc' \in {"idle", "record", "respond", "reauthorize"}
  BY DEF Dispatch, RecordResult, Respond
<1>2. HandlerApproval'
  BY <1>1 DEF HandlerApproval, Reserved
<1>3. CASE Dispatch \/ Respond
  BY <1>2, <1>3 DEF Dispatch, Respond, RowsFit
<1>4. CASE RecordResult
  <2>1. h.r \in ReqIds /\ status[h.r] = "executing" /\ h.ans \in {"ok", "refused", "error"} /\ RowType
    BY <1>4 DEF RecordResult, Inv, TypeOK, HandlerInv, Serving
  <2>2. app[h.r] \in {"none", "approved"}
    BY <2>1 DEF RowsFit, Agree, RowType, AppType, AppStatus
  <2>3. ResultStatus(h.ans) \in {"completed", "failed", "unknown"}
    BY <2>1 DEF ResultStatus
  <2>4. Agree(ResultStatus(h.ans), app[h.r], FALSE)
    BY <2>2, <2>3 DEF Agree, LiveStatus
  <2>5. RowsFit'
    BY <1>4, <2>1, <2>4, SetColumns DEF RecordResult
  <2> QED BY <1>2, <2>5
<1> QED BY <1>3, <1>4

\* Everything that is not the handler, and stuttering.
LEMMA OutsideFits ==
  ASSUME Inv, RowsFit, HandlerApproval, Agent \/ Operator \/ World \/ Fault \/ Start \/ Reload \/ UNCHANGED vars
  PROVE  RowsFit' /\ HandlerApproval'
<1> USE DEF Goto, rowVars
<1>0. RowType
  BY DEF Inv, TypeOK
<1>1. ASSUME UNCHANGED <<status, app, kept>> PROVE RowsFit'
  BY <1>1 DEF RowsFit
<1>2. CASE Agent \/ Fault
  <2>1. UNCHANGED <<status, app, kept>> /\ pc' \in {"idle", "sweep", "authorize"}
    BY <1>2 DEF Agent, SubmitStart, PollStart, Fault, InternalError, Crash
  <2> QED BY <1>1, <2>1, SMTT(60) DEF HandlerApproval, Reserved
<1>3. ASSUME UNCHANGED <<pc, h>>, RowsFit', \A s \in ReqIds : status[s] # "pending_approval" => app'[s] = app[s]
      PROVE  RowsFit' /\ HandlerApproval'
  BY <1>3, OutsideApproval
<1>4. CASE World \/ Start \/ Reload \/ UNCHANGED vars
  <2>1. UNCHANGED <<pc, h, status, app, kept>>
    BY <1>4 DEF World, EditManifest, HumanDecides, CardLapses, Tick, Start, Reload, vars, handlerVars
  <2> QED BY <1>1, <1>3, <2>1
<1>5. CASE Operator
  <2>0. UNCHANGED <<pc, h>>
    BY <1>5, OutsideSame
  <2>1. CASE \/ \E t \in Tokens : IssueToken(t) \/ RotateAdd(t) \/ RotateRevoke(t) \/ RevokeToken(t)
             \/ \E c \in Callers : CountTokens(c) \/ RevokeCaller(c) \/ CancelList(c)
    <3>1. UNCHANGED <<status, app, kept>>
      BY <2>1 DEF IssueToken, RotateAdd, RotateRevoke, RevokeToken, CountTokens, RevokeCaller, CancelList
    <3> QED BY <1>1, <1>3, <2>0, <3>1
  <2>2. ASSUME NEW r \in ReqIds, CancelRow(r) \/ OperatorSweep(r)
        PROVE  RowsFit' /\ \A s \in ReqIds : status[s] # "pending_approval" => app'[s] = app[s]
    <3>1. PICK ap \in {"expired", "cancelled"} : \E dl, n : FinishPending(r, "expired", ap, dl, n)
      BY <2>2 DEF CancelRow, OperatorSweep, ExpireApproval
    <3>2. PICK dl, n : FinishPending(r, "expired", ap, dl, n)
      BY <3>1
    <3>3. Ending("expired", ap)
      BY DEF Ending
    <3> QED BY <1>0, <3>2, <3>3, FinishFits
  <2>3. ASSUME NEW c \in Callers, NEW p \in Policies, WritePolicy(c, p)
        PROVE  RowsFit' /\ \A s \in ReqIds : status[s] # "pending_approval" => app'[s] = app[s]
    <3> DEFINE parked == {r \in ReqIds : req[r] # None /\ req[r].caller = c /\ status[r] = "pending_approval"}
    <3>1. /\ app' = [r \in ReqIds |-> IF r \in parked /\ app[r] = "pending" THEN "cancelled" ELSE app[r]]
          /\ status' = [r \in ReqIds |-> IF r \in parked THEN "denied" ELSE status[r]]
          /\ kept' = [r \in ReqIds |-> r \notin parked /\ kept[r]]
      BY <2>3 DEF WritePolicy
    <3>2. ASSUME NEW s \in ReqIds PROVE Agree(status'[s], app'[s], kept'[s])
      <4>1. CASE s \in parked
        <5>1. status'[s] = "denied" /\ app'[s] = "cancelled"
          BY <3>1, <4>1 DEF RowsFit, Agree
        <5>2. ~kept'[s]
          BY <3>1, <4>1, Zenon
        <5> QED BY <5>1, <5>2 DEF Agree, LiveStatus
      <4>2. CASE s \notin parked
        <5>1. status'[s] = status[s] /\ app'[s] = app[s]
          BY <3>1, <4>2
        <5>2. kept'[s] <=> kept[s]
          <6>1. kept'[s] = (s \notin parked /\ kept[s])
            BY <3>1, Zenon
          <6> QED BY <4>2, <6>1
        <5> QED BY <5>1, <5>2 DEF RowsFit, Agree
      <4> QED BY <4>1, <4>2
    <3>3. \A s \in ReqIds : status[s] # "pending_approval" => app'[s] = app[s]
      BY <3>1
    <3> QED BY <3>2, <3>3 DEF RowsFit
  <2>4. ASSUME NEW S \in SUBSET ReqIds, Prune(S) PROVE RowsFit' /\ app' = app
    <3>1. ASSUME NEW s \in ReqIds PROVE Agree(status'[s], app'[s], kept'[s])
      <4>1. kept' = kept /\ app' = app /\ (status'[s] = status[s] \/ (status[s] = "completed" /\ status'[s] = "result_expired"))
        BY <2>4 DEF Prune
      <4> QED BY <4>1 DEF RowsFit, Agree, LiveStatus
    <3> QED BY <2>4, <3>1 DEF RowsFit, Prune
  <2>5. ASSUME ReconcileOffline PROVE RowsFit' /\ app' = app
    <3> DEFINE stale == {r \in ReqIds : status[r] \in {"received", "executing"}}
    <3>1. /\ status' = [r \in ReqIds |-> IF r \in stale THEN "unknown" ELSE status[r]]
          /\ kept' = [r \in ReqIds |-> r \notin stale /\ kept[r]]
          /\ app' = app
      BY <2>5 DEF ReconcileOffline
    <3>2. ASSUME NEW s \in ReqIds PROVE Agree(status'[s], app'[s], kept'[s])
      <4>1. CASE s \in stale
        <5>1. status'[s] = "unknown" /\ app'[s] \in {"none", "pending", "approved"}
          BY <1>0, <3>1, <4>1 DEF RowsFit, Agree, RowType, AppType, AppStatus
        <5>2. ~kept'[s]
          BY <3>1, <4>1, Zenon
        <5> QED BY <5>1, <5>2 DEF Agree, LiveStatus
      <4>2. CASE s \notin stale
        <5>1. status'[s] = status[s] /\ app'[s] = app[s]
          BY <3>1, <4>2
        <5>2. kept'[s] <=> kept[s]
          <6>1. kept'[s] = (s \notin stale /\ kept[s])
            BY <3>1, Zenon
          <6> QED BY <4>2, <6>1
        <5> QED BY <5>1, <5>2 DEF RowsFit, Agree
      <4> QED BY <4>1, <4>2
    <3> QED BY <3>1, <3>2 DEF RowsFit
  <2> QED BY <1>3, <1>5, <2>0, <2>1, <2>2, <2>3, <2>4, <2>5 DEF Operator
<1> QED BY <1>2, <1>4, <1>5

LEMMA ApprovalNext == ASSUME Inv, ApprovalInv, [Next]_vars PROVE ApprovalInv'
<1>1. RowsFit /\ HandlerApproval
  BY ApprovalParts
<1>2. RowsFit' /\ HandlerApproval'
  BY <1>1, SubmitFits, PollFits, ExecuteFits, OutsideFits DEF Next, HandlerStep
<1> QED BY <1>2, ApprovalPartsNext

\* The approval row exists exactly from create_approval on, agrees with the request row, and
\* what the handler carries from the surface to finish_pending is an ending: ApprovalInv.
THEOREM ApprovalInvHolds == Spec => []ApprovalInv
<1>1. Init => ApprovalInv
  BY DEF Init, ApprovalInv, RowsAgree, LiveStatus, Reserved
<1>2. Inv /\ ApprovalInv /\ [Next]_vars => ApprovalInv'
  BY ApprovalNext
<1> QED
  BY <1>1, <1>2, InvHolds, PTL DEF Spec

\* A request's row and its approval row always tell one story, and its private payload is
\* kept exactly while it may still run, although the store writes the two rows in several
\* transactions that operators, deadlines and crashes come between.
THEOREM RowsAgreeHolds == Spec => []RowsAgree
<1>1. ApprovalInv => RowsAgree
  BY DEF ApprovalInv
<1> QED
  BY <1>1, ApprovalInvHolds, PTL

-----------------------------------------------------------------------------
(* The human review behind a call *)

\* No deadline moves, and a card that was answered keeps its answer and its time.
SurfaceKept ==
    /\ expires' = expires
    /\ \A r \in ReqIds : card[r] # "open" => card'[r] = card[r] /\ decidedAt'[r] = decidedAt[r]

LEMMA WithdrawKeeps ==
  ASSUME CardType, NEW r \in ReqIds, Withdraw(r), UNCHANGED <<expires, decidedAt>>
  PROVE  SurfaceKept
  BY DEF CardType, Withdraw, SurfaceKept

\* Only a submission opens cards and sets deadlines.
LEMMA SurfaceStep ==
  ASSUME Inv, [Next]_vars, ~OpenCard, ~OpenFails, ~CreateApproval
  PROVE  SurfaceKept
<1> USE DEF rowVars, nodVars
<1>0. CardType /\ decidedAt \in [ReqIds -> Nat]
  BY DEF Inv, TypeOK
<1>1. ASSUME UNCHANGED <<expires, card, decidedAt>> PROVE SurfaceKept
  BY <1>1 DEF SurfaceKept
<1>2. ASSUME NEW r \in ReqIds, SweepRow(r) \/ CancelRow(r) \/ OperatorSweep(r) PROVE SurfaceKept
  BY <1>0, <1>2, WithdrawKeeps DEF SweepRow, CancelRow, OperatorSweep, ExpireApproval
<1>3. CASE SubmitStep
  <2>1. CASE SweepList \/ SweepDone \/ SubmitLookup \/ ReserveRefused \/ ReserveReused \/ SubmitDecides
    BY <1>1, <2>1, ReadingSteps
  <2>2. CASE ReserveCreated \/ (\E st \in {"not_found", "denied", "invalid"} : SubmitEnds(st)) \/ MarkPending
             \/ LookupAgain("lookup_allowed", "claim_received") \/ ClaimReceived
    <3>1. UNCHANGED <<expires, card, decidedAt>>
      BY <2>2 DEF ReserveCreated, SubmitEnds, MarkPending, LookupAgain, ClaimReceived
    <3> QED BY <1>1, <3>1
  <2> QED BY <1>2, <1>3, <2>1, <2>2 DEF SubmitStep
<1>4. CASE PollStep
  <2>1. CASE Resolve \/ AfterPoll
    <3>1. h.r \in ReqIds
      BY <2>1, PollRow DEF Resolve, AfterPoll, At, Serving
    <3>2. UNCHANGED <<expires, decidedAt>> /\ (card' = card \/ Withdraw(h.r))
      BY <2>1 DEF Resolve, AfterPoll, ExpireApproval
    <3> QED BY <1>0, <1>1, <3>1, <3>2, WithdrawKeeps
  <2>2. CASE Authorize("authorize", "resolve") \/ Authorize("reauthorize", "respond") \/ SurfacePoll
             \/ FinishAnswered \/ LookupAgain("lookup_approved", "claim_approval") \/ ClaimApproval
    <3>1. UNCHANGED <<expires, card, decidedAt>>
      <4>1. CASE Authorize("authorize", "resolve") \/ Authorize("reauthorize", "respond") \/ SurfacePoll
                 \/ LookupAgain("lookup_approved", "claim_approval")
        BY <4>1 DEF Authorize, SurfacePoll, LookupAgain
      <4>2. CASE FinishAnswered
        BY <4>2 DEF FinishAnswered
      <4>3. CASE ClaimApproval
        BY <4>3 DEF ClaimApproval
      <4> QED BY <2>2, <4>1, <4>2, <4>3
    <3> QED BY <1>1, <3>1
  <2> QED BY <1>4, <2>1, <2>2 DEF PollStep
<1>5. CASE Dispatch \/ RecordResult \/ Respond \/ Agent \/ Fault \/ Start \/ Reload \/ UNCHANGED vars
  <2>1. UNCHANGED <<expires, card, decidedAt>>
    <3>1. CASE Dispatch \/ RecordResult \/ Respond
      BY <3>1 DEF Dispatch, RecordResult, Respond
    <3>2. CASE Agent
      BY <3>2, AgentReads
    <3>3. CASE Fault \/ Start \/ Reload \/ UNCHANGED vars
      BY <3>3 DEF Fault, InternalError, Crash, Start, Reload, vars
    <3> QED BY <1>5, <3>1, <3>2, <3>3
  <2> QED BY <1>1, <2>1
<1>6. CASE Operator
  <2>1. CASE \/ \E t \in Tokens : IssueToken(t) \/ RotateAdd(t) \/ RotateRevoke(t) \/ RevokeToken(t)
             \/ \E c \in Callers : CountTokens(c) \/ RevokeCaller(c) \/ CancelList(c)
             \/ \E c \in Callers, p \in Policies : WritePolicy(c, p)
             \/ \E S \in SUBSET ReqIds : Prune(S)
             \/ ReconcileOffline
    <3>1. UNCHANGED <<expires, card, decidedAt>>
      BY <2>1 DEF IssueToken, RotateAdd, RotateRevoke, RevokeToken, CountTokens, RevokeCaller, CancelList,
                  WritePolicy, Prune, ReconcileOffline
    <3> QED BY <1>1, <3>1
  <2> QED BY <1>2, <1>6, <2>1 DEF Operator
<1>7. CASE World
  <2>1. ASSUME NEW r \in ReqIds, NEW d, HumanDecides(r, d) \/ CardLapses(r, d) PROVE SurfaceKept
    BY <1>0, <2>1 DEF HumanDecides, CardLapses, SurfaceKept, CardType
  <2>2. CASE (\E tl \in Tools, m \in Edits : EditManifest(tl, m)) \/ Tick
    BY <1>1, <2>2 DEF EditManifest, Tick
  <2> QED BY <1>7, <2>1, <2>2 DEF World
<1> QED BY <1>3, <1>4, <1>5, <1>6, <1>7 DEF Next, HandlerStep

\* A step outside the handler is not one of those of a submission.
LEMMA OutsideSurface ==
  ASSUME Operator \/ World \/ Start \/ Reload \/ UNCHANGED vars
  PROVE  ~OpenCard /\ ~OpenFails /\ ~CreateApproval
  BY OutsideSame DEF OpenCard, OpenFails, CreateApproval, At, Goto

\* Only the dispatch adds a call.
LEMMA OnlyDispatchCalls ==
  ASSUME [Next]_vars, effects' # effects
  PROVE  Dispatch
<1> USE DEF seenVars
<1>1. CASE SubmitStep
  <2>1. CASE SweepList \/ SweepDone \/ SubmitLookup \/ ReserveRefused
    BY <2>1, Zenon DEF SweepList, SweepDone, SubmitLookup, ReserveRefused
  <2>2. CASE ReserveReused
    BY <2>2, Zenon DEF ReserveReused
  <2>3. CASE SubmitDecides \/ (\E r \in ReqIds : SweepRow(r)) \/ ReserveCreated
    BY <2>3 DEF SubmitDecides, SweepRow, ReserveCreated
  <2>4. CASE (\E st \in {"not_found", "denied", "invalid"} : SubmitEnds(st)) \/ OpenCard \/ OpenFails
             \/ CreateApproval \/ MarkPending
    BY <2>4 DEF SubmitEnds, OpenCard, OpenFails, CreateApproval, MarkPending
  <2>5. CASE LookupAgain("lookup_allowed", "claim_received") \/ ClaimReceived
    BY <2>5 DEF LookupAgain, ClaimReceived
  <2> QED BY <1>1, <2>1, <2>2, <2>3, <2>4, <2>5 DEF SubmitStep
<1>2. CASE PollStep
  BY <1>2 DEF PollStep, Authorize, Resolve, SurfacePoll, AfterPoll, FinishAnswered, LookupAgain, ClaimApproval
<1>3. CASE RecordResult \/ Respond \/ Fault
  BY <1>3 DEF RecordResult, Respond, Fault, InternalError, Crash
<1>4. CASE Agent
  <2>1. ASSUME NEW t, NEW a, NEW k, NEW p, SubmitStart(t, a, k, p) PROVE FALSE
    BY <2>1, Zenon DEF SubmitStart
  <2>2. ASSUME NEW t, NEW r, PollStart(t, r) PROVE FALSE
    BY <2>2, Zenon DEF PollStart
  <2> QED BY <1>4, <2>1, <2>2 DEF Agent
<1> QED BY <1>1, <1>2, <1>3, <1>4, OutsideSame DEF Next, HandlerStep

\* An approval that was claimed stays approved.
LEMMA ApprovedStays ==
  ASSUME Inv, ApprovalInv, [Next]_vars, NEW r \in ReqIds, app[r] = "approved"
  PROVE  app'[r] = "approved"
<1> USE DEF rowVars
<1>0. AppType
  BY DEF Inv, TypeOK, RowType
<1>1. ASSUME NEW s \in ReqIds, NEW st, NEW ap, NEW dl, NEW n, FinishPending(s, st, ap, dl, n)
      PROVE  app'[r] = "approved"
  BY <1>0, <1>1 DEF FinishPending, AppType
<1>2. CASE SubmitStep
  <2>1. CASE \E s \in ReqIds : SweepRow(s)
    BY <1>1, <2>1 DEF SweepRow, ExpireApproval
  <2>2. CASE CreateApproval
    <3>1. h.r \in ReqIds /\ app[h.r] = "none"
      BY <2>2 DEF CreateApproval, At, ApprovalInv, Inv, HandlerInv, Serving, Reserved
    <3> QED BY <1>0, <2>2, <3>1 DEF CreateApproval, AppType
  <2>3. CASE SweepList \/ SweepDone \/ SubmitLookup \/ ReserveRefused \/ ReserveReused \/ SubmitDecides
    BY <2>3, ReadingSteps
  <2>5. CASE ReserveCreated \/ \E st \in {"not_found", "denied", "invalid"} : SubmitEnds(st)
    BY <2>5 DEF ReserveCreated, SubmitEnds
  <2>4. CASE OpenCard \/ OpenFails \/ MarkPending \/ LookupAgain("lookup_allowed", "claim_received") \/ ClaimReceived
    BY <2>4 DEF OpenCard, OpenFails, MarkPending, LookupAgain, ClaimReceived
  <2> QED BY <1>2, <2>1, <2>2, <2>3, <2>4, <2>5 DEF SubmitStep
<1>3. CASE PollStep
  <2>1. CASE ClaimApproval
    BY <1>0, <2>1 DEF ClaimApproval, AppType
  <2>2. CASE Resolve \/ AfterPoll \/ FinishAnswered
    <3>1. h.r \in ReqIds
      BY <2>2, PollRow DEF Resolve, AfterPoll, FinishAnswered, At, Serving
    <3>2. PICK st, ap, dl, n : app' = app \/ FinishPending(h.r, st, ap, dl, n)
      <4>1. CASE Resolve \/ AfterPoll
        BY <4>1 DEF Resolve, AfterPoll, ExpireApproval
      <4>2. CASE FinishAnswered
        BY <4>2 DEF FinishAnswered
      <4> QED BY <2>2, <4>1, <4>2
    <3> QED BY <1>1, <3>1, <3>2
  <2>3. CASE Authorize("authorize", "resolve") \/ Authorize("reauthorize", "respond") \/ SurfacePoll
             \/ LookupAgain("lookup_approved", "claim_approval")
    BY <2>3 DEF Authorize, SurfacePoll, LookupAgain
  <2> QED BY <1>3, <2>1, <2>2, <2>3 DEF PollStep
<1>4. CASE Dispatch \/ RecordResult \/ Respond \/ Agent \/ World \/ Fault \/ Start \/ Reload \/ UNCHANGED vars
  BY <1>4 DEF Dispatch, RecordResult, Respond, Agent, SubmitStart, PollStart, World, EditManifest, HumanDecides,
              CardLapses, Tick, Fault, InternalError, Crash, Start, Reload, vars
<1>5. CASE Operator
  <2>1. CASE \E s \in ReqIds : CancelRow(s) \/ OperatorSweep(s)
    BY <1>1, <2>1 DEF CancelRow, OperatorSweep, ExpireApproval
  <2>2. CASE \E c \in Callers, p \in Policies : WritePolicy(c, p)
    BY <2>2 DEF WritePolicy
  <2>3. CASE \/ \E t \in Tokens : IssueToken(t) \/ RotateAdd(t) \/ RotateRevoke(t) \/ RevokeToken(t)
             \/ \E c \in Callers : CountTokens(c) \/ RevokeCaller(c) \/ CancelList(c)
             \/ \E S \in SUBSET ReqIds : Prune(S)
             \/ ReconcileOffline
    BY <2>3 DEF IssueToken, RotateAdd, RotateRevoke, RevokeToken, CountTokens, RevokeCaller, CancelList, Prune,
                ReconcileOffline
  <2> QED BY <1>5, <2>1, <2>2, <2>3 DEF Operator
<1> QED BY <1>2, <1>3, <1>4, <1>5 DEF Next, HandlerStep

\* What the review of a request consists of does not change once the request is parked.
LEMMA SanctionKept ==
  ASSUME Inv, ApprovalInv, [Next]_vars, NEW r \in ReqIds, status[r] \notin {"none", "received"}, Sanctioned(r)
  PROVE  Sanctioned(r)'
<1>1. req'[r] = req[r]
  <2>1. CASE ReserveCreated
    <3>1. req[r] # None
      BY DEF Inv, RowsInv
    <3> QED BY <2>1, <3>1 DEF ReserveCreated, Inv, TypeOK, RowType
  <2>2. CASE HandlerStep /\ ~ReserveCreated
    BY <2>2, HandlerSameRows
  <2>3. CASE Agent \/ Fault
    BY <2>3, AgentReads DEF Fault, InternalError, Crash, rowVars
  <2> QED BY <2>1, <2>2, <2>3, OutsideSame DEF Next
<1>2. app[r] = "approved" => app'[r] = "approved"
  BY ApprovedStays
<1>3. card[r] = "approved" => card'[r] = "approved" /\ decidedAt'[r] = decidedAt[r] /\ expires'[r] = expires[r]
  <2>1. CASE OpenCard \/ OpenFails \/ CreateApproval
    <3>1. r # h.r /\ h.r \in ReqIds
      BY <2>1 DEF OpenCard, OpenFails, CreateApproval, At, Inv, HandlerInv, Serving, Reserved
    <3> QED BY <2>1, <3>1 DEF OpenCard, OpenFails, CreateApproval, Inv, TypeOK, RowType, CardType, rowVars, nodVars
  <2>2. CASE ~OpenCard /\ ~OpenFails /\ ~CreateApproval
    BY <2>2, SurfaceStep DEF SurfaceKept
  <2> QED BY <2>1, <2>2
<1> QED BY <1>1, <1>2, <1>3 DEF Sanctioned

\* A request is sanctioned by the transaction that claims it.
LEMMA ClaimSanctions ==
  ASSUME Inv, ReviewInv, Next, NEW r \in ReqIds, status[r] # "executing", status'[r] = "executing"
  PROVE  Sanctioned(r)'
<1>0. StatusType /\ AppType
  BY DEF Inv, TypeOK, RowType
<1>1. r = h.r /\ (ClaimReceived \/ ClaimApproval)
  BY OnlyClaims
<1>2. CASE ClaimReceived
  <2>1. StillAuthorized(r, h.tok, ALLOW)
    BY <1>0, <1>1, <1>2 DEF ClaimReceived, Terminate, StatusType
  <2>2. req' = req
    BY <1>2 DEF ClaimReceived
  <2> QED BY <2>1, <2>2 DEF StillAuthorized, DecideFor, Sanctioned
<1>3. CASE ClaimApproval
  <2>1. StillAuthorized(r, h.tok, REVIEW) /\ app' = [app EXCEPT ![r] = "approved"]
    BY <1>0, <1>1, <1>3 DEF ClaimApproval, Terminate, StatusType
  <2>2. UNCHANGED <<req, card, decidedAt, expires>>
    BY <1>3 DEF ClaimApproval, nodVars
  <2>3. card[r] = "approved" /\ decidedAt[r] < expires[r]
    BY <1>1, <1>3 DEF ClaimApproval, At, ReviewInv
  <2>4. app'[r] = "approved"
    BY <1>0, <2>1 DEF AppType
  <2> QED BY <2>1, <2>2, <2>3, <2>4 DEF StillAuthorized, DecideFor, Sanctioned
<1> QED BY <1>1, <1>2, <1>3

\* The clock never runs behind an answer.
LEMMA AnswersInThePast ==
  ASSUME Inv, \A r \in ReqIds : decidedAt[r] <= now, [Next]_vars
  PROVE  \A r \in ReqIds : decidedAt'[r] <= now'
<1>0. now \in Nat /\ decidedAt \in [ReqIds -> Nat]
  BY DEF Inv, TypeOK, ClockType
<1>1. CASE \E r \in ReqIds : \E d \in {"approved", "rejected", "dismissed"} : HumanDecides(r, d)
  BY <1>0, <1>1 DEF HumanDecides, clockVars
<1>2. CASE Tick
  BY <1>0, <1>2 DEF Tick, nodVars
<1>3. CASE UNCHANGED <<now, decidedAt>>
  BY <1>3
<1>4. CASE HandlerStep \/ Agent \/ Fault \/ Start \/ Reload \/ UNCHANGED vars
  <2> USE DEF clockVars, nodVars
  <2>1. CASE SubmitStep
    BY <1>3, <2>1, SubmitClock
  <2>2. CASE PollStep
    BY <1>3, <2>2, PollClock
  <2>3. CASE Dispatch \/ RecordResult \/ Respond
    BY <1>3, <2>3 DEF Dispatch, RecordResult, Respond
  <2>4. CASE Agent
    BY <1>3, <2>4, AgentClock
  <2>5. CASE Fault \/ Start \/ Reload \/ UNCHANGED vars
    BY <1>3, <2>5 DEF Fault, InternalError, Crash, Start, Reload, vars
  <2> QED BY <1>4, <2>1, <2>2, <2>3, <2>4, <2>5 DEF HandlerStep
<1>5. CASE Operator
  <2>1. UNCHANGED <<now, decidedAt>>
    BY <1>5 DEF Operator, IssueToken, RotateAdd, RotateRevoke, RevokeToken, CountTokens, RevokeCaller, CancelList,
                CancelRow, OperatorSweep, WritePolicy, Prune, ReconcileOffline, clockVars, nodVars
  <2> QED BY <1>3, <2>1
<1>6. CASE World
  <2>1. CASE \/ \E tl \in Tools, m \in Edits : EditManifest(tl, m)
             \/ \E r \in ReqIds : \E d \in {"expired", "cancelled"} : CardLapses(r, d)
    BY <1>3, <2>1 DEF EditManifest, CardLapses, clockVars, nodVars
  <2> QED BY <1>1, <1>2, <1>6, <2>1 DEF World
<1> QED BY <1>4, <1>5, <1>6 DEF Next

\* What the handler carries from the surface to the commit point.
Carried ==
    /\ pc = "after_poll" /\ h.ans = "approved" => card[h.r] = "approved"
    /\ pc \in {"lookup_approved", "claim_approval"} =>
          card[h.r] = "approved" /\ decidedAt[h.r] < expires[h.r]

LEMMA CarriedNext ==
  ASSUME Inv, ReviewInv, [Next]_vars
  PROVE  Carried'
<1> USE DEF At, Goto
<1>0. h \in Locals /\ now \in Nat /\ decidedAt \in [ReqIds -> Nat] /\ expires \in [ReqIds -> Nat]
  BY DEF Inv, TypeOK, HandlerType, ClockType, RowType
<1>1. Carried /\ \A r \in ReqIds : decidedAt[r] <= now
  BY DEF ReviewInv, Carried
<1>2. CASE SubmitStep
  <2>1. pc' \notin {"after_poll", "lookup_approved", "claim_approval"}
    BY <1>2, SubmitPlaces
  <2> QED BY <2>1 DEF Carried
<1>3. CASE PollStep
  <2>0. h.r \in ReqIds
    BY <1>3, PollRow DEF PollStep, Authorize, Resolve, SurfacePoll, AfterPoll, FinishAnswered, LookupAgain,
                         ClaimApproval, Serving
  <2>1. CASE SurfacePoll
    <3>1. UNCHANGED card /\ pc' = "after_poll" /\ h'.ans = ToState(card[h.r]) /\ h'.r = h.r
      BY <1>0, <2>1 DEF SurfacePoll, nodVars, Locals
    <3>2. ToState(card[h.r]) = "approved" => card[h.r] = "approved"
      BY DEF ToState
    <3> QED BY <3>1, <3>2 DEF Carried
  <2>2. CASE AfterPoll
    <3>1. SurfaceKept
      BY <2>2, SurfaceStep DEF AfterPoll, OpenCard, OpenFails, CreateApproval
    <3>2. CASE pc' = "lookup_approved"
      <4>1. h.ans = "approved" /\ now < expires[h.r] /\ h'.r = h.r /\ pc = "after_poll"
        BY <1>0, <2>2, <3>2 DEF AfterPoll, Locals
      <4>2. card[h.r] = "approved" /\ decidedAt[h.r] < expires[h.r]
        BY <1>0, <1>1, <2>0, <4>1 DEF Carried
      <4> QED BY <2>0, <3>1, <3>2, <4>1, <4>2 DEF Carried, SurfaceKept
    <3>3. CASE pc' # "lookup_approved"
      <4>1. pc' \in {"reauthorize", "finish"}
        BY <2>2, <3>3 DEF AfterPoll
      <4> QED BY <4>1 DEF Carried
    <3> QED BY <3>2, <3>3
  <2>3. CASE LookupAgain("lookup_approved", "claim_approval")
    BY <1>0, <1>1, <2>3 DEF LookupAgain, Carried, rowVars, nodVars, Locals
  <2>4. CASE Authorize("authorize", "resolve") \/ Authorize("reauthorize", "respond") \/ Resolve
             \/ FinishAnswered \/ ClaimApproval
    <3>1. pc' \in {"resolve", "respond", "idle", "reauthorize", "surface", "execute"}
      BY <2>4 DEF Authorize, Resolve, FinishAnswered, ClaimApproval
    <3> QED BY <3>1 DEF Carried
  <2> QED BY <1>3, <2>1, <2>2, <2>3, <2>4 DEF PollStep
<1>4. CASE Dispatch \/ RecordResult \/ Respond \/ Agent \/ Fault
  <2>1. pc' \in {"record", "respond", "reauthorize", "idle", "sweep", "authorize"}
    BY <1>4 DEF Dispatch, RecordResult, Respond, Agent, SubmitStart, PollStart, Fault, InternalError, Crash
  <2> QED BY <2>1 DEF Carried
<1>5. CASE Operator \/ World \/ Start \/ Reload \/ UNCHANGED vars
  <2>1. UNCHANGED <<pc, h>>
    BY <1>5, OutsideSame
  <2>2. pc \in {"after_poll", "lookup_approved", "claim_approval"} => h.r \in ReqIds
    BY DEF Inv, HandlerInv, Serving
  <2>3. SurfaceKept
    BY <1>5, SurfaceStep, OutsideSurface
  <2> QED BY <1>1, <2>1, <2>2, <2>3 DEF Carried, SurfaceKept
<1> QED BY <1>2, <1>3, <1>4, <1>5 DEF Next, HandlerStep

LEMMA ReviewNext ==
  ASSUME Inv, ApprovalInv, ReviewInv, [Next]_vars
  PROVE  ReviewInv'
<1>1. \A r \in ReqIds : decidedAt'[r] <= now'
  BY AnswersInThePast DEF ReviewInv
<1>2. Carried'
  BY CarriedNext
<1>3. ASSUME NEW r \in ReqIds, status'[r] = "executing" \/ effects'[r] # <<>> PROVE Sanctioned(r)'
  <2>1. CASE status[r] = "executing" \/ effects[r] # <<>>
    <3>1. Sanctioned(r)
      BY <2>1 DEF ReviewInv
    <3>2. status[r] \notin {"none", "received"}
      BY <2>1 DEF Inv, RowsInv
    <3> QED BY <3>1, <3>2, SanctionKept
  <2>2. CASE status[r] # "executing" /\ status'[r] = "executing"
    <3>1. Next
      BY <2>2 DEF vars, rowVars
    <3> QED BY <2>2, <3>1, ClaimSanctions
  <2>3. CASE status[r] # "executing" /\ effects[r] = <<>> /\ effects'[r] # <<>>
    <3>1. Dispatch
      BY <2>3, OnlyDispatchCalls
    <3>2. h.r \in ReqIds /\ status[h.r] = "executing"
      BY <3>1 DEF Dispatch, At, Inv, HandlerInv, Serving
    <3> QED BY <2>3, <3>1, <3>2 DEF Dispatch, Inv, TypeOK, SeenType
  <2> QED BY <1>3, <2>1, <2>2, <2>3
<1> QED BY <1>1, <1>2, <1>3 DEF ReviewInv, Carried

\* What a human has approved is carried unchanged to the commit point: ReviewInv.
THEOREM ReviewInvHolds == Spec => []ReviewInv
<1>1. Init => ReviewInv
  BY DEF Init, ReviewInv
<1>2. Inv /\ ApprovalInv /\ ReviewInv /\ [Next]_vars => ReviewInv'
  BY ReviewNext
<1> QED
  BY <1>1, <1>2, InvHolds, ApprovalInvHolds, PTL DEF Spec

\* Whatever reaches a tool was allowed outright by the policy the request was reserved under,
\* or a human approved that request's own card before the broker's deadline: a late answer, an
\* answer read before the deadline and used after it, or a card of another request is not enough.
THEOREM ReviewedExecutionHolds == Spec => []ReviewedExecution
<1>1. ReviewInv => ReviewedExecution
  BY DEF ReviewInv, ReviewedExecution, Sanctioned
<1> QED
  BY <1>1, ReviewInvHolds, PTL

-----------------------------------------------------------------------------

\* The inductive invariant of the whole request lifecycle, as the runs check it.
THEOREM LifecycleInvHolds == Spec => []LifecycleInv
  BY InvHolds, OwnerInvHolds, ApprovalInvHolds, ReviewInvHolds, AnswerInvHolds, AuditInvHolds, PTL DEF LifecycleInv

=============================================================================
