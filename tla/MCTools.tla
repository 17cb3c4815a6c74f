------------------------------ MODULE MCTools -------------------------------
(***************************************************************************)
(* The tool runner, the REST forwarder and the parts of the broker beside  *)
(* its request handling, each on a small instance.                         *)
(***************************************************************************)
EXTENDS OneOf, TLC

CONSTANTS
    pid1, pid2,
    StopCase, RecoverCase,  \* the parameters of two instances of Toolyard
    Launches,               \* of the network guard
    Copiers, MaxCopies, MaxDeaths, Snap, New, Empty,    \* of backup and restore
    Reloads                 \* SIGHUPs during the commit points

\* A catalog whose ids hold "__", and two operations with one name; the other is a rest one.
CatalogOps == {<<<<"a", "b">>, <<"c">>>>, <<<<"d">>, <<"e", "f">>>>, <<<<"d", "e">>, <<"f">>>>}
RestOps == {<<<<"a", "b">>, <<"c">>>>}

RawOperations ==
    {o \in [headers : {{}, {"auth"}}, headerRefs : {{}, {"s"}}, allowed : {{}, {"s"}, {"s", "t"}},
            template : {None, {"t"}}, kind : {"none", "text"},
            allowedHeaders : {{"extra"}, {"auth", "extra"}},
            rules : {<<>>, <<"s", "s">>, <<"s", "t">>}, redact : {None, TRUE, FALSE}] :
        o.headers = {} => o.headerRefs = {}}

Headers ==
    {None} \cup [name : {"auth", "extra"}, upper : BOOLEAN, ref : {FALSE}]
           \cup {[name |-> "extra", upper |-> FALSE, ref |-> TRUE]}

PidSymmetry == Permutations({pid1, pid2})

-----------------------------------------------------------------------------
(* Tool processes and their network *)

\* Starts and stops of two processes, with a failure and a crash, and a pid that is used
\* again.
MCStop ==
    [Tools |-> {"echo"}, Secretless |-> {}, Decls |-> {"d1"}, Callers |-> {"cli"},
     Ops |-> {"start", "stop"}, MaxBorn |-> 2, MaxSps |-> 1, MaxFaults |-> 1, MaxCrashes |-> 1]

\* The reconciler and the watchdog beside the commands of the panel, while a manifest is
\* edited and SPS restarts.
MCRecover ==
    [Tools |-> {"echo"}, Secretless |-> {}, Decls |-> {"d1", "d2"}, Callers |-> {"admin"},
     Ops |-> {"start", "restart", "remove"}, MaxBorn |-> 1, MaxSps |-> 2, MaxFaults |-> 0,
     MaxCrashes |-> 0]

Ys == INSTANCE Toolyard WITH
    Pids <- {pid1, pid2}, Tools <- StopCase.Tools, Secretless <- StopCase.Secretless,
    Decls <- StopCase.Decls, Callers <- StopCase.Callers, Ops <- StopCase.Ops,
    MaxBorn <- StopCase.MaxBorn, MaxSps <- StopCase.MaxSps, MaxFaults <- StopCase.MaxFaults,
    MaxCrashes <- StopCase.MaxCrashes, boot <- v1, procs <- v2, born <- v3, disk <- v4,
    state <- v5, chan <- v6, sps <- v7, reg <- v8, job <- v9, reclock <- v10, rc <- v11,
    wd <- v12, wanted <- v13, approved <- v14, lost <- v15, faults <- v16, crashes <- v17

Yr == INSTANCE Toolyard WITH
    Pids <- {pid1, pid2}, Tools <- RecoverCase.Tools, Secretless <- RecoverCase.Secretless,
    Decls <- RecoverCase.Decls, Callers <- RecoverCase.Callers, Ops <- RecoverCase.Ops,
    MaxBorn <- RecoverCase.MaxBorn, MaxSps <- RecoverCase.MaxSps,
    MaxFaults <- RecoverCase.MaxFaults, MaxCrashes <- RecoverCase.MaxCrashes, boot <- v1,
    procs <- v2, born <- v3, disk <- v4, state <- v5, chan <- v6, sps <- v7, reg <- v8,
    job <- v9, reclock <- v10, rc <- v11, wd <- v12, wanted <- v13, approved <- v14,
    lost <- v15, faults <- v16, crashes <- v17

Ng == INSTANCE NetGuard WITH
    Launches <- Launches, dir <- v1, procs <- v2, dying <- v3, rules <- v4,
    live <- v5, helper <- v6, used <- v7, exit <- v8

-----------------------------------------------------------------------------
(* The REST forwarder, a tool that calls the API of its manifest *)

\* Manifests with two secrets, and every order of up to two rules.
Fw == INSTANCE Forwarder WITH
    Declared <- {"s", "t"}, Writable <- {"s", "t"}, RawOps <- RawOperations,
    CallerHeaders <- Headers, Bodies <- {None, "text", "ref", "big"},
    VarValues <- {"absent", "word", "slash", "bad"}, MaxCalls <- 2, MaxValue <- 2, op <- v1,
    sps <- v2, cache <- v3, at <- v4, request <- v5, todo <- v6, extracted <- v7,
    before <- v8, reply <- v9, next <- v10, calls <- v11

-----------------------------------------------------------------------------
(* The broker's database *)

Bk == INSTANCE Backup WITH
    Procs <- Copiers, MaxRuns <- MaxCopies, MaxCrashes <- MaxDeaths, db <- v1, fs <- v2, stage <- v3,
    proc <- v4, orphans <- v5, ran <- v6, origin <- v7, runs <- v8, crashes <- v9

\* No SIGHUP inside a commit point.
Cl == INSTANCE ClaimTxn WITH
    Reloads <- 0, db <- v1, revoked <- v2, repolicied <- v3, lock <- v4, tx <- v5, pc <- v6,
    op <- v7, seen <- v8, ok <- v9, reloads <- v10

\* SIGHUPs between the statements of a commit point.
Cr == INSTANCE ClaimTxn WITH
    Reloads <- Reloads, db <- v1, revoked <- v2, repolicied <- v3, lock <- v4, tx <- v5, pc <- v6,
    op <- v7, seen <- v8, ok <- v9, reloads <- v10

-----------------------------------------------------------------------------
(* The MCP face of the broker *)

Mc == INSTANCE Mcp WITH
    Ops <- CatalogOps, Rest <- RestOps, MaxSteps <- 3, registry <- v1, effect <- v2,
    names <- v3, shown <- v4, everShown <- v5, last <- v6, steps <- v7

-----------------------------------------------------------------------------

ASSUME ToolsAssumption ==
    /\ Ys!ToolyardAssumption
    /\ Yr!ToolyardAssumption
    /\ Bk!BackupAssumption
    /\ Cl!ReloadsAssumption
    /\ Cr!ReloadsAssumption
    /\ Fw!ForwarderAssumption
    /\ Mc!McpAssumption

Init ==
    \/ Start("stop", 17) /\ Ys!Init
    \/ Start("recover", 17) /\ Yr!Init
    \/ Start("netguard", 8) /\ Ng!Init
    \/ Start("forwarder", 11) /\ Fw!Init
    \/ Start("backup", 9) /\ Bk!Init
    \/ Start("claim", 10) /\ Cl!Init
    \/ Start("claim_reload", 10) /\ Cr!Init
    \/ Start("mcp", 7) /\ Mc!Init

Next ==
    \/ Stay("stop", 17) /\ Ys!Next
    \/ Stay("recover", 17) /\ Yr!Next
    \/ Stay("netguard", 8) /\ Ng!Next
    \/ Stay("forwarder", 11) /\ Fw!Next
    \/ Stay("backup", 9) /\ Bk!Next
    \/ Stay("claim", 10) /\ Cl!Next
    \/ Stay("claim_reload", 10) /\ Cr!Next
    \/ Stay("mcp", 7) /\ Mc!Next

Spec == Init /\ [][Next]_all

-----------------------------------------------------------------------------
(* Properties *)

\* A live tool process is recorded in state.json or in the hands of a running command,
\* unless that died or its record and its cleanup both failed (RunnerStartCleanupError); a
\* tool that its operators want up stays recorded through every failed restart
\* (reconcile_running_tools) unless something dies meanwhile; SPS holds only declarations
\* that an operator has approved (docs/secret-declarations.md); and what each thread has in
\* hand agrees with state.json, with the processes and with the start it was taken from.
ToolsAccountedFor ==
    /\ comp = "stop" => Ys!ToolyardInv
    /\ comp = "recover" => Yr!ToolyardInv

\* A tool runs its code only inside the cgroup, under the rules of its own launch and of
\* no other (netguard.py).
Confined == comp = "netguard" => Ng!Confined /\ Ng!GuardInv

\* An operation that loads is never refused for the place of its secrets when it is
\* called, and its request has valid variables, the headers of the operator as written and
\* no secret beyond the allowed ones (config.py, request_builder.py); what a reply says of
\* secret updates is true of the cache, also after a write that failed, and a response
\* that rotates a secret is shown only where the operator decided against redaction
\* (rules.py).
ForwardsAsDeclared == comp = "forwarder" => Fw!ForwarderInv

\* A request that was in the snapshot is never executed from the restored database, and
\* whoever opens that finds a finished, audited restore and a new installation
\* (backup.py).
RestoreSafe == comp = "backup" => Bk!RestoreSafe /\ Bk!BackupInv

\* What other connections see of the two rows of a request agrees (finish_pending), and a
\* commit point leaves no transaction open, however often a SIGHUP commits it early.
ClaimAtomic ==
    /\ comp = "claim" => Cl!ClaimAtomic
    /\ comp = "claim_reload" => Cr!ClaimAtomic

\* A name from a listing submits the operation it stood for, while that is registered and
\* permitted and no other registered one has that name; a name that only operations never
\* listed to the caller have is answered as an unknown tool, unless one of them may be used now
\* (mcp.py).
NamesHold == comp = "mcp" => Mc!McpInv

\* A stop never ends a process that was given the PID of the recorded one (_terminate).
NoForeignSignal == [][comp = "stop" => Ys!NoForeignSignal]_all

\* What a backup or a restore has published changes only by the steps of a broker
\* (backup.py).
NeverOverwritten == [][comp = "backup" => Bk!NeverOverwritten]_all

\* A request is committed to its tool only while its caller is live and its policy is
\* unchanged (claim_approval).
RevocationWins == [][comp = "claim" => Cl!ClaimIsCurrent]_all

=============================================================================
