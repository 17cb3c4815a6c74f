------------------------------- MODULE Backup -------------------------------
(***************************************************************************)
(* Snapshots of the broker's database and restores from them               *)
(* (broker/store.py _snapshot_new, backup_to, restore_new and brokerctl).  *)
(* Both build a private stage next to the destination and publish it with  *)
(* a hard link that refuses an existing name.  Two operator processes may  *)
(* aim at one destination and die at any step; the source broker runs on.  *)
(***************************************************************************)
EXTENDS Integers, FiniteSets

CONSTANTS
    Procs,                      \* operator commands at work
    Snap, New,                  \* the two destinations: a snapshot and a restored database
    None, Empty,                \* no file; a stage without content
    MaxRuns, MaxCrashes         \* bounds

\* Databases, as far as a restore tells them apart: one request and its approval, one token,
\* one policy, the installation, the audit record of a restore.
Requests == {"absent", "received", "pending", "executing", "expired", "completed", "unknown"}
Rows == [request : Requests, approval : BOOLEAN, token : BOOLEAN, policy : BOOLEAN, uuid : Nat,
         audited : BOOLEAN]
Stages == {"copy", "sanitize", "audit", "link", "unlink"}

\* Assumed of the constants; the module of a run asserts it of its instances.
BackupAssumption ==
    /\ Snap # New /\ "db" \notin {Snap, New}
    /\ None \notin Rows \cup Stages \cup {"backup", "restore", "absent"}

Paths == {Snap, New}

VARIABLES
    db,         \* the source database
    fs,         \* per destination: None or the published file
    stage,      \* per process: the stage it owns
    proc,       \* per process: what it does and where it is
    orphans,    \* stages whose process died, by the destination they share a file with, or None
    ran,        \* ghost: the request has been executed, by database
    origin,     \* ghost: what the request was in the snapshot that was restored
    runs, crashes

vars == <<db, fs, stage, proc, orphans, ran, origin, runs, crashes>>

Fresh == [request |-> "absent", approval |-> FALSE, token |-> TRUE, policy |-> TRUE, uuid |-> 0, audited |-> FALSE]
Idle == [kind |-> None, pc |-> None, to |-> None]

Init ==
    /\ db = Fresh /\ fs = [p \in Paths |-> None]
    /\ stage = [q \in Procs |-> None] /\ proc = [q \in Procs |-> Idle] /\ orphans = {}
    /\ ran = [d \in Paths \union {"db"} |-> 0] /\ origin = None /\ runs = 0 /\ crashes = 0

-----------------------------------------------------------------------------
(* A broker on a database: the steps of one request, as far as they write rows. *)

Submitted(d) ==
    {[d EXCEPT !.request = "received"], [d EXCEPT !.request = "pending", !.approval = TRUE]}

\* What one step of a broker may make of a database.  A key already used gives the old row.
Steps(d) ==
    UNION {
        IF d.request = "absent" /\ d.token /\ d.policy THEN Submitted(d) ELSE {},
        IF d.request = "received" /\ d.token /\ d.policy THEN {[d EXCEPT !.request = "executing"]} ELSE {},
        IF d.request = "pending" /\ d.approval /\ d.token /\ d.policy
        THEN {[d EXCEPT !.request = "executing", !.approval = FALSE], [d EXCEPT !.request = "expired", !.approval = FALSE]}
        ELSE {},
        IF d.request = "executing" THEN {[d EXCEPT !.request = "completed"], [d EXCEPT !.request = "unknown"]} ELSE {}}

Executes(d, e) == IF d.request # "executing" /\ e.request = "executing" THEN 1 ELSE 0

BrokerStep ==
    /\ \E e \in Steps(db) : db' = e /\ ran' = [ran EXCEPT !["db"] = @ + Executes(db, e)]
    /\ UNCHANGED <<fs, stage, proc, orphans, origin, runs, crashes>>

\* A restored database is put to use: Store opens it if it has one link; the operator issues
\* tokens and sets policies anew; the surface may still answer an old approval.
Openable(p) == fs[p] # None /\ ~\E o \in orphans : o = p
                            /\ ~\E q \in Procs : proc[q].pc = "unlink" /\ proc[q].to = p

RestoredStep ==
    /\ Openable(New)
    /\ \E e \in Steps(fs[New]) \union {[fs[New] EXCEPT !.token = TRUE], [fs[New] EXCEPT !.policy = TRUE]} :
            /\ fs' = [fs EXCEPT ![New] = e]
            /\ ran' = [ran EXCEPT ![New] = @ + Executes(fs[New], e)]
    /\ UNCHANGED <<db, stage, proc, orphans, origin, runs, crashes>>

-----------------------------------------------------------------------------
(* The commands *)

Free(q) == proc[q] = Idle /\ runs < MaxRuns /\ runs' = runs + 1
At(q, pc) == proc[q].pc = pc
Goto(q, pc) == proc' = [proc EXCEPT ![q].pc = pc]
\* finally: the process removes its own stage.
Finish(q) == proc' = [proc EXCEPT ![q] = Idle] /\ stage' = [stage EXCEPT ![q] = None]

\* The destination must not exist; the stage is a new private file.
BackupStart(q) ==
    /\ Free(q) /\ fs[Snap] = None
    /\ proc' = [proc EXCEPT ![q] = [kind |-> "backup", pc |-> "copy", to |-> Snap]]
    /\ stage' = [stage EXCEPT ![q] = Empty]
    /\ UNCHANGED <<db, fs, orphans, ran, origin, crashes>>

\* A snapshot with another name for its file, like one whose backup died before it removed
\* its stage, is refused.
RestoreStart(q) ==
    /\ Free(q) /\ fs[New] = None /\ Openable(Snap)
    /\ proc' = [proc EXCEPT ![q] = [kind |-> "restore", pc |-> "copy", to |-> New]]
    /\ stage' = [stage EXCEPT ![q] = Empty]
    /\ UNCHANGED <<db, fs, orphans, ran, origin, crashes>>

\* SQLite's online backup gives one committed state of the source, or misses its deadline.
Copy(q) ==
    /\ At(q, "copy")
    /\ \/ /\ stage' = [stage EXCEPT ![q] = IF proc[q].kind = "backup" THEN db ELSE fs[Snap]]
          /\ Goto(q, IF proc[q].kind = "backup" THEN "link" ELSE "sanitize")
       \/ Finish(q)
    /\ UNCHANGED <<db, fs, orphans, ran, origin, runs, crashes>>

\* Mutant: rows that are not pending are restored as they were.
SanitizedPending(d) == [d EXCEPT !.approval = FALSE, !.token = FALSE, !.policy = FALSE, !.uuid = @ + 1,
    !.request = IF @ = "pending" THEN "expired" ELSE @]

\* What sanitize commits in one transaction.
Sanitized(d) == [d EXCEPT !.approval = FALSE, !.token = FALSE, !.policy = FALSE, !.uuid = @ + 1,
    !.request = IF @ = "pending" THEN "expired" ELSE IF @ \in {"received", "executing"} THEN "unknown" ELSE @]

Sanitize(q) ==
    /\ At(q, "sanitize")
    /\ \/ stage' = [stage EXCEPT ![q] = Sanitized(@)] /\ Goto(q, "audit")
       \/ Finish(q)
    /\ UNCHANGED <<db, fs, orphans, ran, origin, runs, crashes>>

\* The audit record is a transaction of its own.
AuditRestore(q) ==
    /\ At(q, "audit")
    /\ \/ stage' = [stage EXCEPT ![q].audited = TRUE] /\ Goto(q, "link")
       \/ Finish(q)
    /\ UNCHANGED <<db, fs, orphans, ran, origin, runs, crashes>>

\* Mutant: the stage is renamed over the destination.
LinkReplaces(q) ==
    /\ At(q, "link")
    /\ fs' = [fs EXCEPT ![proc[q].to] = stage[q]] /\ Goto(q, "unlink") /\ UNCHANGED stage
    /\ origin' = IF proc[q].kind = "restore" THEN fs[Snap].request ELSE origin
    /\ UNCHANGED <<db, orphans, ran, runs, crashes>>

\* os.link publishes the stage unless the name is taken.
Link(q) ==
    /\ At(q, "link")
    /\ IF fs[proc[q].to] = None
       THEN /\ fs' = [fs EXCEPT ![proc[q].to] = stage[q]] /\ Goto(q, "unlink") /\ UNCHANGED stage
            /\ origin' = IF proc[q].kind = "restore" THEN fs[Snap].request ELSE origin
       ELSE Finish(q) /\ UNCHANGED <<fs, origin>>
    /\ UNCHANGED <<db, orphans, ran, runs, crashes>>

\* The stage goes; a backup is then audited in the source, which no property here reads.
Unlink(q) ==
    /\ At(q, "unlink")
    /\ Finish(q)
    /\ UNCHANGED <<db, fs, orphans, ran, origin, runs, crashes>>

\* The process dies: its stage stays, and is a second name of what it has published.
Die(q) ==
    /\ proc[q] # Idle /\ crashes < MaxCrashes /\ crashes' = crashes + 1
    /\ orphans' = orphans \union {IF proc[q].pc = "unlink" THEN proc[q].to ELSE None}
    /\ proc' = [proc EXCEPT ![q] = Idle] /\ stage' = [stage EXCEPT ![q] = None]
    /\ UNCHANGED <<db, fs, ran, origin, runs>>

\* The operator removes the stages that dead commands left.
Tidy ==
    /\ orphans # {} /\ orphans' = {}
    /\ UNCHANGED <<db, fs, stage, proc, ran, origin, runs, crashes>>

Next ==
    \/ BrokerStep \/ RestoredStep \/ Tidy
    \/ \E q \in Procs :
        \/ BackupStart(q) \/ RestoreStart(q) \/ Copy(q) \/ Sanitize(q) \/ AuditRestore(q)
        \/ Link(q) \/ Unlink(q) \/ Die(q)

Spec == Init /\ [][Next]_vars

-----------------------------------------------------------------------------
(* Properties *)

\* "no execution or replay": a request that was in the snapshot is never executed from the
\* restored database, whatever the source did after the snapshot and whatever authority the
\* operator gives back.
NeverReplayed == origin \notin {None, "absent"} => ran[New] = 0

\* Whoever opens the restored database finds a finished, audited restore: a new installation
\* that nobody published over.
RestoredWhole == fs[New] # None => fs[New].audited /\ fs[New].uuid # db.uuid

\* "never overwritten": what has been published changes only by a broker's own steps.
NeverOverwritten ==
    \A p \in Paths : fs[p] # None /\ fs'[p] # fs[p] =>
     p = New /\ Openable(New) /\ \A q \in Procs : proc'[q] = proc[q]

\* What a command has in its stage at each of its steps.
StageSound(q) ==
    /\ proc[q].kind = "backup" /\ proc[q].pc = "link" => stage[q] \in Rows /\ stage[q].uuid = 0
    /\ proc[q].kind = "restore" => fs[Snap] # None
    /\ proc[q].pc = "sanitize" => stage[q] = fs[Snap]
    /\ proc[q].pc = "audit" => stage[q] = Sanitized(fs[Snap])
    /\ proc[q].kind = "restore" /\ proc[q].pc = "link" =>
          stage[q] = [Sanitized(fs[Snap]) EXCEPT !.audited = TRUE]

Commands ==
    {Idle} \cup [kind : {"backup"}, pc : {"copy", "link", "unlink"}, to : {Snap}]
           \cup [kind : {"restore"}, pc : Stages, to : {New}]

\* A published snapshot never changes, so a restored database is what sanitize makes of it
\* and what brokers do with that: none of its old requests can be executed any more.
BackupInv ==
    /\ db \in Rows /\ db.uuid = 0
    /\ fs \in [Paths -> Rows \cup {None}]
    /\ stage \in [Procs -> Rows \cup {None, Empty}]
    /\ proc \in [Procs -> Commands]
    /\ ran \in [Paths \cup {"db"} -> Nat]
    /\ fs[Snap] # None => fs[Snap].uuid = 0
    /\ \A q \in Procs : StageSound(q)
    /\ fs[New] = None => origin = None /\ ran[New] = 0
    /\ fs[New] # None => fs[New].uuid = 1 /\ fs[New].audited
    /\ fs[New] # None /\ origin # "absent" =>
          ran[New] = 0 /\ fs[New].request \in {"expired", "completed", "unknown"}

\* What a restore promises of the database it has published.
RestoreSafe == NeverReplayed /\ RestoredWhole

=============================================================================
