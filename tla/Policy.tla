------------------------------- MODULE Policy -------------------------------
(***************************************************************************)
(* The policy engine (broker/policy.py): a caller's policy gives each      *)
(* operation of each tool one of three effects, and everything it does not *)
(* name is denied.                                                         *)
(*                                                                         *)
(* A policy is the stored JSON object, reduced to what decide reads:       *)
(*   keys     - which of "enabled" and "disabled_functions" it has;        *)
(*   enabled  - the tools under "enabled";                                 *)
(*   disabled - the <<tool, op>> pairs under "disabled_functions";         *)
(*   rules    - a function from the <<tool, op>> pairs under "tools" to    *)
(*              the effect written there, which may be any string.         *)
(***************************************************************************)

ALLOW == "allow"
REVIEW == "review"
DENY == "deny"
Effects == {ALLOW, REVIEW, DENY}

\* _norm: an effect nobody knows is a denial.
Norm(effect) == IF effect \in Effects THEN effect ELSE DENY

\* rules.get(op), with Python's None as a string no rule contains.
RuleFor(policy, tool, op) ==
    IF <<tool, op>> \in DOMAIN policy.rules THEN policy.rules[<<tool, op>>] ELSE "None"

\* A managed policy (both keys present) that does not enable the tool.
ToolDisabled(policy, tool) ==
    /\ {"enabled", "disabled_functions"} \subseteq policy.keys
    /\ tool \notin policy.enabled

FunctionDisabled(policy, tool, op) ==
    /\ "disabled_functions" \in policy.keys
    /\ <<tool, op>> \in policy.disabled

Decide(policy, tool, op) ==
    IF ToolDisabled(policy, tool) \/ FunctionDisabled(policy, tool, op)
    THEN DENY
    ELSE Norm(RuleFor(policy, tool, op))

=============================================================================
