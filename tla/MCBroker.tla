------------------------------ MODULE MCBroker ------------------------------
(***************************************************************************)
(* Small instances of Broker for TLC.                                      *)
(***************************************************************************)
EXTENDS BrokerReceipt, TLC

CONSTANTS c1, t1, t2, m1, m2, k1, p1, p2, r1, r2

MCTool == "echo"
MCSay == [tool |-> MCTool, op |-> "say"]
MCActions == {MCSay}

\* The policies a caller may be given: one rule for the one operation.
MCPolicy(effect) == [keys |-> {}, enabled |-> {}, disabled |-> {}, rules |-> (<<MCTool, "say">> :> effect)]
MCAllowReview == {MCPolicy(ALLOW), MCPolicy(REVIEW)}
MCAllPolicies == {MCPolicy(e) : e \in Effects}
MCAllow == {MCPolicy(ALLOW)}
MCReview == {MCPolicy(REVIEW)}

MCOwner == [t \in Tokens |-> c1]
MCOffers == [m \in Manifests |-> MCActions]
MCBadEnvelope == {<<m1, p2>>}

ManifestSymmetry == Permutations({m1, m2})
RequestSymmetry == Permutations({r1, r2})

=============================================================================
