------------------------------ MODULE NetGuard ------------------------------
(***************************************************************************)
(* The network guard of one tool id (toolyard/netguard.py): run installs a *)
(* cgroup and its nft rules around a tool, teardown removes them.  Every   *)
(* command may fail, the helper may be killed at any point, and the kernel *)
(* takes its time to kill.  One helper runs at a time, as under the        *)
(* runner's lock; the tools it has started live on.                        *)
(***************************************************************************)
EXTENDS Integers, FiniteSets

CONSTANTS
    Launches,       \* successive launches of the id, each with rules of its own
    None

VARIABLES
    dir,            \* the cgroup exists
    procs,          \* the processes in it that are alive
    dying,          \* killed, but still counted by the kernel
    rules,          \* the launches whose rules are in the tool's table
    live,           \* tools past execvp that run their own code
    helper,         \* what the helper is: None or [at, launch, failed]
    used,
    exit            \* how the last helper ended

vars == <<dir, procs, dying, rules, live, helper, used, exit>>

Init ==
    /\ dir = FALSE /\ procs = {} /\ dying = {} /\ rules = {} /\ live = {}
    /\ helper = None /\ used = {} /\ exit = "none"

At(p) == helper # None /\ helper.at = p
Go(p) == helper' = [helper EXCEPT !.at = p]
Undo == helper' = [helper EXCEPT !.at = "kill", !.failed = TRUE]

\* The runner starts a helper for a launch, or for a teardown.
StartRun(l) ==
    /\ helper = None /\ l \notin used /\ live = {}
    /\ helper' = [at |-> "makedirs", launch |-> l, failed |-> FALSE]
    /\ used' = used \cup {l}
    /\ UNCHANGED <<dir, procs, dying, rules, live, exit>>

StartTeardown ==
    /\ helper = None
    /\ helper' = [at |-> "kill", launch |-> None, failed |-> FALSE]
    /\ UNCHANGED <<dir, procs, dying, rules, live, used, exit>>

MakeDirs ==
    /\ At("makedirs")
    /\ dir' = TRUE /\ Go("flush")
    /\ UNCHANGED <<procs, dying, rules, live, used, exit>>

\* Mutant: a leftover table is not dropped.
FlushNothing == At("flush") /\ Go("install") /\ UNCHANGED <<dir, procs, dying, rules, live, used, exit>>

\* The leftover table of an earlier launch goes first.
Flush ==
    /\ At("flush")
    /\ rules' = {} /\ Go("install")
    /\ UNCHANGED <<dir, procs, dying, live, used, exit>>

\* nft -f adds to a table that is already there.
Install ==
    /\ At("install")
    /\ rules' = rules \cup {helper.launch} /\ Go("join")
    /\ UNCHANGED <<dir, procs, dying, live, used, exit>>

Join ==
    /\ At("join")
    /\ procs' = procs \cup {helper.launch} /\ Go("exec")
    /\ UNCHANGED <<dir, dying, rules, live, used, exit>>

\* A step up to the join fails: teardown, and the helper is then in the cgroup it kills if it has joined.
StepFails ==
    /\ helper # None /\ helper.at \in {"makedirs", "install", "join"}
    /\ Undo
    /\ UNCHANGED <<dir, procs, dying, rules, live, used, exit>>

\* Privileges are dropped and the tool replaces the helper.
Exec ==
    /\ At("exec")
    /\ live' = live \cup {helper.launch} /\ helper' = None /\ exit' = "none"
    /\ UNCHANGED <<dir, procs, dying, rules, used>>

\* setuid, prctl or execvp fails: nothing is undone.
ExecFails ==
    /\ At("exec")
    /\ procs' = procs \ {helper.launch} /\ helper' = None /\ exit' = "failed"
    /\ UNCHANGED <<dir, dying, rules, live, used>>

\* _teardown: kill what is in the cgroup,
Kill ==
    /\ At("kill")
    /\ dying' = dying \cup procs /\ procs' = {} /\ live' = live \ procs
    /\ Go("unrule")
    /\ UNCHANGED <<dir, rules, used, exit>>

\* delete its table,
Unrule ==
    /\ At("unrule")
    /\ rules' = {} /\ Go("rmdir")
    /\ UNCHANGED <<dir, procs, dying, live, used, exit>>

\* and remove it, unless a process still holds it.
RmDir ==
    /\ At("rmdir")
    /\ dir' = (dir /\ (procs \cup dying) # {})
    /\ helper' = None /\ exit' = (IF helper.failed THEN "failed" ELSE "none")
    /\ UNCHANGED <<procs, dying, rules, live, used>>

\* The kernel reaps a killed process.
Reap(l) == l \in dying /\ dying' = dying \ {l} /\ UNCHANGED <<dir, procs, rules, live, helper, used, exit>>

\* The tool ends by itself, or the helper is killed between two steps.
ToolEnds(l) == l \in live /\ live' = live \ {l} /\ procs' = procs \ {l} /\ UNCHANGED <<dir, dying, rules, helper, used, exit>>
HelperDies ==
    /\ helper # None
    /\ procs' = procs \ (IF helper.at = "exec" THEN {helper.launch} ELSE {})
    /\ helper' = None /\ exit' = "killed"
    /\ UNCHANGED <<dir, dying, rules, live, used>>

Next ==
    \/ \E l \in Launches : StartRun(l) \/ Reap(l) \/ ToolEnds(l)
    \/ StartTeardown \/ MakeDirs \/ Flush \/ Install \/ Join \/ StepFails \/ Exec \/ ExecFails
    \/ Kill \/ Unrule \/ RmDir \/ HelperDies

Spec == Init /\ [][Next]_vars

-----------------------------------------------------------------------------
(* Properties *)

\* A tool runs its code only inside the cgroup, under its own rules and no other launch's,
\* whatever earlier launches and teardowns left behind.
Confined == \A l \in live : l \in procs /\ dir /\ rules = {l}

-----------------------------------------------------------------------------
(* The inductive invariant behind Confined *)

Launching == {"makedirs", "flush", "install", "join", "exec"}
Places == Launching \cup {"kill", "unrule", "rmdir"}
Helpers == [at : Places, launch : Launches \cup {None}, failed : BOOLEAN]

\* No tool lives while a launch is under way, and what the helper has done so far stands.
GuardInv ==
    /\ Confined
    /\ helper # None =>
        /\ helper \in Helpers
        /\ helper.at \in Launching \cup {"unrule", "rmdir"} => live = {}
        /\ helper.at \in Launching \ {"makedirs"} => dir
        /\ helper.at = "install" => rules = {}
        /\ helper.at \in {"join", "exec"} => rules = {helper.launch}
        /\ helper.at = "exec" => helper.launch \in procs

-----------------------------------------------------------------------------
(* Said of the code and not true of it (README, section 5) *)

\* "On any failure before the exec it tears the setup back down": a launch that failed, with
\* its helper alive, leaves no rules behind.
FailureUndone == helper = None /\ exit = "failed" => rules = {}

=============================================================================
