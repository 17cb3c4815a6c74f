---------------------------- MODULE BrokerReceipt ----------------------------
(***************************************************************************)
(* The broker implements the contract of Receipt: the refinement mapping   *)
(* from its rows and from the calls that reached a tool.                   *)
(***************************************************************************)
EXTENDS Broker

\* The phase of the contract that a stored status stands for.
PhaseOf(st) ==
    CASE st = "none" -> "absent"
      [] st \in {"received", "pending_approval"} -> "open"
      [] st = "executing" -> "running"
      [] st \in {"completed", "result_expired"} -> "ran"
      [] st = "unknown" -> "unknown"
      [] OTHER -> "not_run"

Contract == INSTANCE Receipt WITH
    Requests <- ReqIds,
    phase <- [r \in ReqIds |-> PhaseOf(status[r])],
    calls <- [r \in ReqIds |-> Len(effects[r])]

\* Every behaviour of the broker, with its crashes, retries, revocations and offline
\* reconciliations, is a behaviour of the receipt contract.
KeepsContract == Contract!Spec

=============================================================================
