---------------------------- MODULE CallerEdits -----------------------------
(***************************************************************************)
(* Operators that edit one caller: the admin app's pages and API           *)
(* (admin/server.py, admin/api.py, admin/caller_settings.py,               *)
(* admin/policy_edits.py) and brokerctl, all through broker/operations.py. *)
(* Every editor is a process of its own, with a connection per command; a  *)
(* step is one statement of the store or one transaction.  The settings    *)
(* page saves with a compare-and-set; the others read, change and write.   *)
(*                                                                         *)
(* A tool has one operation here, so that a rule belongs to a tool.        *)
(***************************************************************************)
EXTENDS Naturals, FiniteSets

CONSTANTS
    Editors,        \* operator processes
    Rotators,       \* those that rotate tokens (admin apps)
    Tools,
    Effects,        \* what a rule may say
    Ops,            \* the commands that this instance uses
    MaxEdits,       \* commands in all
    MaxTokens,      \* tokens ever issued
    MaxCatalog,     \* changes of the catalog on disk
    MaxCrashes      \* editors that die inside a command

\* Assumed of the constants; the module of a run asserts it of its instances.
CallerEditsAssumption ==
    /\ {"allow", "deny"} \subseteq Effects
    /\ Rotators \subseteq Editors
    /\ {MaxEdits, MaxTokens, MaxCatalog, MaxCrashes} \subseteq Nat /\ MaxTokens > 0
    /\ IsFiniteSet(Editors)

VARIABLES
    caller,         \* "none", "live" or "revoked"
    policy,         \* the row of caller_policies
    tokens,         \* the active tokens
    catalog,        \* the tools of the registry on disk
    job,            \* per editor: the command, where it is and what it has read
    trail,          \* policy commits that have their audit event, and those that have not
    edits, issued, changes, crashes

vars == <<caller, policy, tokens, catalog, job, trail, edits, issued, changes, crashes>>
counts == <<edits, issued, changes, crashes>>

\* "managed" stands for the key disabled_functions, which comes with the key enabled.
NoPolicy == [managed |-> FALSE, enabled |-> {}, disabled |-> {}, rule |-> [t \in Tools |-> "none"]]
Idle == [op |-> "none", pc |-> "idle", seen |-> NoPolicy, cat |-> {}, new |-> NoPolicy, token |-> 0]

Policies == [managed : BOOLEAN, enabled : SUBSET Tools, disabled : SUBSET Tools,
             rule : [Tools -> Effects \cup {"none"}]]

Init ==
    /\ \/ caller = "none" /\ policy = NoPolicy /\ tokens = {} /\ issued = 0
       \/ /\ caller = "live" /\ tokens = {1} /\ issued = 1
          /\ policy = [NoPolicy EXCEPT !.rule = [t \in Tools |-> "allow"]]
    /\ catalog = Tools
    /\ job = [e \in Editors |-> Idle]
    /\ trail = [audited |-> 0, silent |-> 0]
    /\ edits = 0 /\ changes = 0 /\ crashes = 0

\* enabled_tools: a legacy policy also enables what it has rules for.
EnabledTools(p) == IF p.managed THEN p.enabled
                   ELSE p.enabled \cup {t \in Tools : p.rule[t] # "none"}

\* policy.decide, for the one operation of a tool.
Allowed(p, t) == ~(p.managed /\ t \notin p.enabled) /\ t \notin p.disabled /\ p.rule[t] = "allow"

Ready(e, op) == job[e].pc = "idle" /\ op \in Ops /\ edits < MaxEdits
Start(e, j) == edits' = edits + 1 /\ job' = [job EXCEPT ![e] = j]
Go(e, pc) == job' = [job EXCEPT ![e].pc = pc]
Done(e) == job' = [job EXCEPT ![e] = Idle]

-----------------------------------------------------------------------------
(* The settings page: one snapshot, one compare-and-set *)

\* The revision that snapshot computes stands for the policy and the catalog.
Snapshot(j) == [j EXCEPT !.seen = policy, !.cat = catalog]

LoadSettings(e) ==
    /\ Ready(e, "settings") /\ caller = "live"
    /\ Start(e, Snapshot([Idle EXCEPT !.op = "settings", !.pc = "page"]))
    /\ UNCHANGED <<caller, policy, tokens, catalog, trail, issued, changes, crashes>>

Shown(p, t) == IF p.rule[t] = "none" THEN "deny" ELSE p.rule[t]

\* The saved policy: what the page sent for the tools it has seen, the rest as it was.
Applied(p, cat, t, on, off, effect) ==
    LET want == {x \in cat : IF x = t THEN on ELSE x \in EnabledTools(p)}
        excluded == {x \in cat : IF x = t THEN off ELSE x \in p.disabled} IN
    [managed |-> TRUE,
     enabled |-> (EnabledTools(p) \ cat) \cup want,
     disabled |-> (p.disabled \ cat) \cup excluded,
     rule |-> [x \in Tools |-> IF x \notin cat THEN p.rule[x] ELSE IF x = t THEN effect ELSE Shown(p, x)]]

\* Mutant: the revision is not compared.
CheckSettingsBlind(e) ==
    /\ job[e].op = "settings" /\ job[e].pc = "page"
    /\ \E t \in catalog, on, off \in BOOLEAN, effect \in Effects :
          job' = [job EXCEPT ![e].pc = "cas", ![e].token = 0,
                             ![e].new = Applied(policy, catalog, t, on, off, effect)]
    /\ UNCHANGED <<caller, policy, tokens, catalog, trail, counts>>

\* apply: the operator saves, having changed one tool; the revision must be the current one.
CheckSettings(e) ==
    /\ job[e].op = "settings" /\ job[e].pc = "page"
    /\ IF caller = "live" /\ Snapshot(job[e]) = job[e]
       THEN \E t \in catalog, on, off \in BOOLEAN, effect \in Effects :
               job' = [job EXCEPT ![e].pc = "cas", ![e].new = Applied(policy, catalog, t, on, off, effect)]
       ELSE Done(e)
    /\ UNCHANGED <<caller, policy, tokens, catalog, trail, counts>>

\* Mutant: no comparison under the lock.
CompareAndSetBlind(e) ==
    /\ job[e].pc = "cas"
    /\ policy' = job[e].new
    /\ trail' = [trail EXCEPT !.audited = @ + 1]
    /\ Done(e)
    /\ UNCHANGED <<caller, tokens, catalog, counts>>

\* compare_and_set_policy: under the write lock, the policy, the approvals and the event.
CompareAndSet(e) ==
    /\ job[e].pc = "cas"
    /\ IF caller = "live" /\ policy = job[e].seen
       THEN policy' = job[e].new /\ trail' = [trail EXCEPT !.audited = @ + 1]
       ELSE UNCHANGED <<policy, trail>>
    /\ Done(e)
    /\ UNCHANGED <<caller, tokens, catalog, counts>>

-----------------------------------------------------------------------------
(* The policy page, PUT /policy and brokerctl set-policy *)

\* operation_fields: the form has a field for each operation of the enabled tools.
FormFields == catalog \cap EnabledTools(policy)

\* merge_grants: a posted effect replaces one rule of the policy as it is now.
Merged(t, effect) == [policy.rule EXCEPT ![t] = effect]

LoadPolicyPage(e) ==
    /\ Ready(e, "form") /\ caller = "live"
    /\ Start(e, [Idle EXCEPT !.op = "form", !.pc = "page", !.cat = FormFields])
    /\ UNCHANGED <<caller, policy, tokens, catalog, trail, issued, changes, crashes>>

\* save_policy: a field that is no longer there is refused.
MergeGrants(e) ==
    /\ job[e].op = "form" /\ job[e].pc = "page"
    /\ \/ \E t \in job[e].cat, effect \in Effects :
             IF job[e].cat \subseteq FormFields
             THEN job' = [job EXCEPT ![e].pc = "before", ![e].new.rule = Merged(t, effect)]
             ELSE Done(e)
       \/ job[e].cat = {} /\ Done(e)
    /\ UNCHANGED <<caller, policy, tokens, catalog, trail, counts>>

\* PUT /policy and brokerctl set-policy replace the rules.
SetPolicy(e) ==
    /\ Ready(e, "policy") /\ caller # "none"
    /\ \E rule \in [Tools -> {"none", "allow"}] :
          Start(e, [Idle EXCEPT !.op = "policy", !.pc = "before", !.new.rule = rule])
    /\ UNCHANGED <<caller, policy, tokens, catalog, trail, issued, changes, crashes>>

\* operations.set_policy: what it will keep of the policy.
ReadBefore(e) ==
    /\ job[e].pc = "before"
    /\ job' = [job EXCEPT ![e].pc = "write", ![e].seen = policy,
                          ![e].new = [policy EXCEPT !.rule = job[e].new.rule]]
    /\ UNCHANGED <<caller, policy, tokens, catalog, trail, counts>>

\* store.set_policy, and then the audit event in a transaction of its own.
Write(e) ==
    /\ job[e].pc = "write"
    /\ policy' = job[e].new
    /\ trail' = [trail EXCEPT !.silent = @ + 1]
    /\ Go(e, "audit")
    /\ UNCHANGED <<caller, tokens, catalog, counts>>

Audit(e) ==
    /\ job[e].pc = "audit"
    /\ trail' = [audited |-> trail.audited + 1, silent |-> trail.silent - 1]
    /\ Done(e)
    /\ UNCHANGED <<caller, policy, tokens, catalog, counts>>

-----------------------------------------------------------------------------
(* The tools page and PUT /tools: set_enabled_tools reads the policy three times *)

SetEnabled(e, on) ==
    /\ Ready(e, "tools") /\ caller # "none"
    /\ Start(e, [Idle EXCEPT !.op = "tools", !.pc = "prior", !.cat = on])
    /\ UNCHANGED <<caller, policy, tokens, catalog, trail, issued, changes, crashes>>

\* merge_enabled: a tool that is not in the catalog cannot be unchecked.
MergeEnabled(on) == ((policy.enabled \cup {t \in Tools : policy.rule[t] # "none"}) \ catalog) \cup on

ToolsPage(e) == \E on \in SUBSET catalog : SetEnabled(e, MergeEnabled(on))

\* PUT /tools takes the list as it is.
PutTools(e) == \E on \in SUBSET Tools : SetEnabled(e, on)

ReadPrior(e) ==
    /\ job[e].pc = "prior"
    /\ job' = [job EXCEPT ![e].pc = "managed", ![e].new.enabled = job[e].cat,
                          ![e].new.rule = [t \in Tools |-> IF t \in job[e].cat THEN policy.rule[t] ELSE "none"]]
    /\ UNCHANGED <<caller, policy, tokens, catalog, trail, counts>>

ReadManaged(e) ==
    /\ job[e].pc = "managed"
    /\ job' = [job EXCEPT ![e].pc = IF policy.managed THEN "disabled" ELSE "write",
                          ![e].new.managed = policy.managed]
    /\ UNCHANGED <<caller, policy, tokens, catalog, trail, counts>>

\* A key that has gone since is an error, and nothing is written.
ReadDisabled(e) ==
    /\ job[e].pc = "disabled"
    /\ IF policy.managed THEN job' = [job EXCEPT ![e].pc = "write", ![e].new.disabled = policy.disabled]
       ELSE Done(e)
    /\ UNCHANGED <<caller, policy, tokens, catalog, trail, counts>>

-----------------------------------------------------------------------------
(* Callers and tokens *)

\* create_caller: the name is unique, also among revoked callers.  The API takes rules with
\* it, the page does not.
CreateCaller(e, op) ==
    /\ Ready(e, op) /\ caller = "none" /\ issued < MaxTokens
    /\ caller' = "live"
    /\ issued' = issued + 1
    /\ Start(e, [Idle EXCEPT !.op = op, !.pc = "token", !.token = issued'])
    /\ UNCHANGED <<policy, tokens, catalog, trail, changes, crashes>>

\* rotate_token and issue_token; both read the caller's row whether it is revoked or not.
NewToken(e, op) ==
    /\ Ready(e, op) /\ caller # "none" /\ issued < MaxTokens
    /\ issued' = issued + 1
    /\ Start(e, [Idle EXCEPT !.op = op, !.pc = "token", !.token = issued'])
    /\ UNCHANGED <<caller, policy, tokens, catalog, trail, changes, crashes>>

RotateToken(e) == e \in Rotators /\ NewToken(e, "rotate")
IssueToken(e) == NewToken(e, "issue")

AddToken(e) ==
    /\ job[e].pc = "token"
    /\ tokens' = tokens \cup {job[e].token}
    /\ CASE job[e].op = "create" -> Go(e, "write")
         [] job[e].op = "create_with" ->
              \E rule \in [Tools -> {"none", "allow"}] :
                  job' = [job EXCEPT ![e].pc = "write", ![e].new.rule = rule]
         [] job[e].op = "rotate" -> Go(e, "others")
         [] OTHER -> Done(e)
    /\ UNCHANGED <<caller, policy, catalog, trail, counts>>

\* revoke_tokens_for_caller(except_hash): whatever is active by now.
RevokeOthers(e) ==
    /\ job[e].pc = "others"
    /\ tokens' = tokens \cap {job[e].token}
    /\ Done(e)
    /\ UNCHANGED <<caller, policy, catalog, trail, counts>>

\* revoke_token, by the prefix of its hash.
RevokeToken(e) ==
    /\ Ready(e, "revoke_token")
    /\ \E k \in tokens : tokens' = tokens \ {k}
    /\ Start(e, Idle)
    /\ UNCHANGED <<caller, policy, catalog, trail, issued, changes, crashes>>

RevokeCaller(e) ==
    /\ Ready(e, "revoke") /\ caller # "none"
    /\ caller' = "revoked"
    /\ Start(e, Idle)
    /\ UNCHANGED <<policy, tokens, catalog, trail, issued, changes, crashes>>

-----------------------------------------------------------------------------

\* A tool directory comes or goes.
CatalogChanges ==
    /\ changes < MaxCatalog /\ changes' = changes + 1
    /\ \E t \in Tools : catalog' = IF t \in catalog THEN catalog \ {t} ELSE catalog \cup {t}
    /\ UNCHANGED <<caller, policy, tokens, job, trail, edits, issued, crashes>>

\* A command dies between two of its transactions.
Crash(e) ==
    /\ job[e].pc # "idle" /\ crashes < MaxCrashes
    /\ crashes' = crashes + 1
    /\ Done(e)
    /\ UNCHANGED <<caller, policy, tokens, catalog, trail, edits, issued, changes>>

Command(e) ==
    \/ LoadSettings(e) \/ LoadPolicyPage(e) \/ SetPolicy(e) \/ ToolsPage(e) \/ PutTools(e)
    \/ CreateCaller(e, "create") \/ CreateCaller(e, "create_with")
    \/ RotateToken(e) \/ IssueToken(e)
    \/ RevokeToken(e) \/ RevokeCaller(e)

Step(e) ==
    \/ CheckSettings(e) \/ CompareAndSet(e)
    \/ MergeGrants(e) \/ ReadBefore(e) \/ Write(e) \/ Audit(e)
    \/ ReadPrior(e) \/ ReadManaged(e) \/ ReadDisabled(e)
    \/ AddToken(e) \/ RevokeOthers(e)

Next == CatalogChanges \/ \E e \in Editors : Command(e) \/ Step(e) \/ Crash(e)

Spec == Init /\ [][Next]_vars

-----------------------------------------------------------------------------
(* Properties *)

\* The type of every variable; a policy that is not managed excludes no function.
TypeOK ==
    /\ caller \in {"none", "live", "revoked"}
    /\ policy \in Policies /\ (~policy.managed => policy.disabled = {})
    /\ tokens \subseteq 1 .. MaxTokens /\ catalog \subseteq Tools
    /\ \A e \in Editors : job[e].seen \in Policies /\ job[e].new \in Policies
    /\ trail \in [audited : Nat, silent : Nat]

Saves(e) == job[e].pc = "cas" /\ job'[e].pc # "cas" /\ policy' # policy

\* "Never replace authority the editor could not see" (caller_settings.apply): a save of the
\* settings page changes the policy its operator was looking at, never a newer one, and
\* leaves what it allows of every tool outside the catalog of that page.
SettingsSeen ==
    \A e \in Editors : Saves(e) =>
       /\ policy = job[e].seen
       /\ caller = "live"
       /\ \A t \in Tools \ job[e].cat : Allowed(policy', t) = Allowed(policy, t)

Disables(e) == job[e].op = "tools" /\ job[e].pc = "write" /\ job'[e].pc = "audit"

\* "disabling revokes access, not just hides it" (operations.set_enabled_tools): whatever
\* happens to the policy between its three reads and its write, a tool that it switches off
\* is denied.
DisablingRevokes ==
    \A e \in Editors : Disables(e) => \A t \in Tools \ job[e].cat : ~Allowed(policy', t)

\* "one audit trail" (operations.py): a commit of a policy that has no event yet belongs to a
\* command that is about to write it, unless that command died.
CommitsAudited ==
    trail.silent <= Cardinality({e \in Editors : job[e].pc = "audit"}) + crashes

\* "the caller is never momentarily tokenless" (operations.rotate_token), nor tokenless for
\* good: a rotation never takes the last token away.
NeverTokenless == tokens # {} /\ tokens' = {} => edits' > edits

\* The inductive invariant behind SettingsSeen, DisablingRevokes and CommitsAudited: what the
\* settings page saves allows of the tools outside its catalog what the policy it has seen
\* allows, and what switches tools off has no rule for them.
EditsInv ==
    /\ TypeOK /\ CommitsAudited
    /\ Cardinality({e \in Editors : job[e].pc = "audit"}) <= trail.silent
    /\ issued \in 0 .. MaxTokens /\ crashes \in Nat
    /\ job \in [Editors -> [op : {"none", "settings", "form", "policy", "tools", "create", "create_with",
                                  "rotate", "issue"},
                            pc : {"idle", "page", "cas", "before", "write", "audit", "prior", "managed",
                                  "disabled", "token", "others"},
                            seen : Policies, cat : SUBSET Tools, new : Policies, token : 0 .. MaxTokens]]
    /\ \A e \in Editors :
          /\ ~job[e].seen.managed => job[e].seen.disabled = {}
          /\ ~job[e].new.managed => job[e].new.disabled = {}
          /\ job[e].pc = "disabled" => job[e].new.managed
          /\ job[e].pc = "token" => job[e].token # 0
          /\ job[e].pc \in {"prior", "managed", "disabled"} => job[e].op = "tools"
          /\ job[e].pc \in {"prior", "managed"} => job[e].new.disabled = {}
          /\ job[e].pc = "before" => job[e].op \in {"form", "policy"}
          /\ job[e].pc = "cas" =>
                /\ job[e].op = "settings"
                /\ \A t \in Tools \ job[e].cat : Allowed(job[e].new, t) = Allowed(job[e].seen, t)
          /\ job[e].op = "tools" /\ job[e].pc \in {"managed", "disabled", "write"} =>
                \A t \in Tools \ job[e].cat : job[e].new.rule[t] = "none"

\* The one behind NeverTokenless, for one process that rotates and no command that takes a
\* single token away: the token that a rotation is about to keep is there.
TokensInv ==
    /\ EditsInv
    /\ \A e \in Editors :
          /\ job[e].op = "rotate" => e \in Rotators
          /\ job[e].pc = "others" => job[e].op = "rotate" /\ job[e].token \in tokens

-----------------------------------------------------------------------------
(* Said of the code and not true of it (README, section 5) *)

WritesPolicy(e) == job[e].op \in {"form", "policy"} /\ job[e].pc = "write" /\ job'[e].pc = "audit"

\* "preserve tool-enablement" (operations.set_policy): writing the rules leaves what is
\* enabled and what is excluded alone.
EnablementKept ==
    \A e \in Editors : WritesPolicy(e) =>
       [policy' EXCEPT !.rule = policy.rule] = policy

=============================================================================
