------------------------------ MODULE Receipt -------------------------------
(***************************************************************************)
(* What a broker receipt promises an agent, with no broker in it.  A       *)
(* request is accepted, may be committed to its tool, and ends with one    *)
(* verdict for good: it did not run, it ran, or nobody can tell.  The tool *)
(* is called at most once, only after the commitment, and the verdict is   *)
(* never a lie about that call.                                            *)
(***************************************************************************)
EXTENDS Naturals

CONSTANT Requests

VARIABLES phase, calls

Phases == {"absent", "open", "running", "not_run", "ran", "unknown"}

Init ==
    /\ phase = [r \in Requests |-> "absent"]
    /\ calls = [r \in Requests |-> 0]

Accept(r) == phase[r] = "absent" /\ phase'[r] = "open" /\ calls'[r] = calls[r]

Commit(r) == phase[r] = "open" /\ phase'[r] = "running" /\ calls'[r] = calls[r]

Call(r) == phase[r] = "running" /\ calls[r] = 0 /\ calls'[r] = 1 /\ phase'[r] = phase[r]

End(r) ==
    /\ phase[r] \in {"open", "running"}
    /\ \/ phase'[r] = "not_run" /\ calls[r] = 0
       \/ phase'[r] = "ran" /\ calls[r] = 1
       \/ phase'[r] = "unknown"
    /\ calls'[r] = calls[r]

Stay(r) == phase'[r] = phase[r] /\ calls'[r] = calls[r]

\* One transaction of the broker may end several requests.
Next ==
    /\ phase' \in [Requests -> Phases]
    /\ calls' \in [Requests -> Nat]
    /\ \A r \in Requests : Accept(r) \/ Commit(r) \/ Call(r) \/ End(r) \/ Stay(r)

Spec == Init /\ [][Next]_<<phase, calls>>

=============================================================================
