------------------------------ MODULE Toolyard ------------------------------
(***************************************************************************)
(* Starting, stopping and recovering tools: the process runner and its     *)
(* command line (toolyard/runner.py, cli.py), the admin panel's use of     *)
(* them (admin/toolyard_ops.py), the reconciler (admin/reconciler.py), the *)
(* SPS watchdog (admin/sps_watchdog.py) and SPS's registrations            *)
(* (sps/store.py).                                                         *)
(*                                                                         *)
(* A lifecycle command holds the flock of state_lock from its load of      *)
(* state.json to its last save, so at most one is under way: job.  Around  *)
(* it processes exit, PIDs are reused, SPS restarts, and the process that  *)
(* runs the command may die.  A process is known by its birth, the boot    *)
(* and start time that _process_identity reads; the E_SECRET and the       *)
(* channel secret that a start mints are known by the same number.         *)
(***************************************************************************)
EXTENDS Naturals, FiniteSets

CONSTANTS
    Tools,          \* tool ids
    Secretless,     \* the tools that declare no secrets
    Pids,           \* process ids
    Decls,          \* secret declarations a manifest may hold
    Callers,        \* who runs commands: "cli", "admin"
    Ops,            \* the commands they run
    MaxBorn,        \* starts and foreign processes, in all
    MaxSps,         \* starts of SPS
    MaxFaults,      \* failed saves, lost replies
    MaxCrashes,     \* deaths of a command, of the admin process, of the host
    None

VARIABLES
    boot,       \* the kernel's boot id
    procs,      \* processes that hold a PID, zombies included
    born,       \* births so far
    disk,       \* the declarations in each toolyard.toml (None: no such tool)
    state,      \* state.json
    chan,       \* channels.json
    sps,        \* SPS: does it run, and its boot id
    reg,        \* SPS's registrations, in memory
    job,        \* the command that holds state_lock (None: it is free)
    reclock,    \* who holds RECONCILE_LOCK
    rc,         \* the reconciler thread
    wd,         \* the watchdog thread
    wanted,     \* what the operators' last finished command asked for
    approved,   \* the declarations an operator has approved, by Start or by Edit
    lost,       \* the runtimes in hand when their command died, or given up loudly
    faults, crashes

hostVars == <<boot, procs, born>>
fileVars == <<state, chan>>
spsVars == <<sps, reg>>
threadVars == <<reclock, rc, wd>>
countVars == <<faults, crashes>>
ghostVars == <<wanted, approved, lost>>
vars == <<hostVars, disk, fileVars, spsVars, job, threadVars, ghostVars, countVars>>

-----------------------------------------------------------------------------
(* Data *)

Process == [pid : Pids, birth : Nat, tool : Tools \cup {"other"}, live : BOOLEAN,
            parent : {"cli", "admin", "init"}]

\* RunningTool: handle, process_identity, boot_id, secret_declarations, and whether there
\* is an e_secret.
RunningTool == [pid : Pids \cup {0}, birth : Nat, boot : Nat, decl : Decls, sps : BOOLEAN]

Registration == [esecret : Nat, decl : Decls]

Job == [who : {"cli", "admin", "reconciler", "watchdog"},
        op : {"start", "stop", "restart", "remove", "recover", "reregister"},
        tool : Tools \cup {None},
        pc : {"alive", "check", "signal", "confirm", "unregister", "save", "publish",
              "register", "spawn", "ready", "rmtree", "done", "failed", "loop"},
        ctx : {"old", "stop", "fresh", "abort", "rollback", "none"},
        decl : Decls \cup {None},               \* the definition's declarations
        run : RunningTool \cup {None},          \* the runtime in hand
        ok : BOOLEAN,                           \* its exit is confirmed
        rec : RunningTool \cup {None},          \* what the save writes for the tool
        then : {"register", "rmtree", "done", "failed"}]

Threads == [pc : {"off", "wait", "snap", "pick", "assess", "start", "job", "restore"},
            todo : SUBSET Tools, tool : Tools \cup {None},
            snap : [Tools -> RunningTool \cup {None}]]

Watch == [pc : {"idle", "lock", "load", "pass"}, seen : Nat, cur : Nat,
          todo : SUBSET Tools, bad : BOOLEAN]

\* Assumed of the constants; the module of a run asserts it of its instances.
ToolyardAssumption ==
    /\ Secretless \subseteq Tools
    /\ 0 \notin Pids /\ "other" \notin Tools
    /\ Callers \subseteq {"cli", "admin"}
    /\ Ops \subseteq {"start", "stop", "restart", "remove"}
    /\ {MaxBorn, MaxSps, MaxFaults, MaxCrashes} \subseteq Nat
    /\ None \notin Tools \cup Decls \cup RunningTool \cup Registration \cup Job

NoState == [t \in Tools |-> None]
RcOff == [pc |-> "off", todo |-> {}, tool |-> None, snap |-> NoState]
WdNew == [pc |-> "idle", seen |-> 0, cur |-> 0, todo |-> {}, bad |-> FALSE]

Init ==
    /\ boot = 1 /\ procs = {} /\ born = 0
    /\ disk \in [Tools -> Decls]
    /\ state = NoState /\ chan = [t \in Tools |-> 0]
    /\ sps = [up |-> TRUE, boot |-> 1] /\ reg = NoState
    /\ job = None /\ reclock = None
    /\ rc = [RcOff EXCEPT !.pc = "wait"] /\ wd = WdNew
    /\ wanted = [t \in Tools |-> "open"] /\ approved = [t \in Tools |-> {}] /\ lost = {}
    /\ faults = 0 /\ crashes = 0

-----------------------------------------------------------------------------
(* Processes *)

At(pid) == {p \in procs : p.pid = pid}

\* The process whose children a command may reap: the admin's threads share one.
Self(who) == IF who = "cli" THEN "cli" ELSE "admin"

\* The recorded process, if it still has its PID in this boot.
Same(run) == {p \in At(run.pid) : p.birth = run.birth /\ run.boot = boot}
Other(run) == {p \in At(run.pid) : p.birth # run.birth /\ run.boot = boot}

\* waitpid: a dead child of the caller is reaped.
Reapable(run, who) == {p \in Same(run) : ~p.live /\ p.parent = Self(who)}

\* ProcessRunner.is_alive.  A zombie that somebody else must reap still counts as alive.
Alive(run, who) == Same(run) # {} /\ Reapable(run, who) = {}

\* _terminate's check_exit.
CheckExit(run, who) ==
    CASE Other(run) # {} -> "changed"
      [] Alive(run, who) -> "there"
      [] OTHER -> "gone"

\* A process ends: init reaps its children at once, others leave a zombie.
Ended(p) == IF p.parent = "init" THEN procs \ {p}
            ELSE (procs \ {p}) \cup {[p EXCEPT !.live = FALSE]}

Exit(p) ==
    /\ p.live
    /\ procs' = Ended(p)
    /\ UNCHANGED <<boot, born, disk, fileVars, spsVars, job, threadVars, ghostVars, countVars>>

\* Some other program is given a free PID.
Foreign(pid) ==
    /\ At(pid) = {} /\ born < MaxBorn
    /\ born' = born + 1
    /\ procs' = procs \cup {[pid |-> pid, birth |-> born', tool |-> "other",
                             live |-> TRUE, parent |-> "init"]}
    /\ UNCHANGED <<boot, disk, fileVars, spsVars, job, threadVars, ghostVars, countVars>>

\* list_tools, without the lock: the admin process looks at a recorded tool and reaps it.
ListTools(t) ==
    /\ state[t] # None
    /\ Reapable(state[t], "admin") # {}
    /\ procs' = procs \ Reapable(state[t], "admin")
    /\ UNCHANGED <<boot, born, disk, fileVars, spsVars, job, threadVars, ghostVars, countVars>>

-----------------------------------------------------------------------------
(* Commands *)

NewJob(who, op, t, pc, ctx, decl) ==
    [who |-> who, op |-> op, tool |-> t, pc |-> pc, ctx |-> ctx, decl |-> decl,
     run |-> IF t = None THEN None ELSE state[t], ok |-> FALSE, rec |-> None, then |-> "done"]

Go(pc) == job' = [job EXCEPT !.pc = pc]

\* cmd_up, _start: the definitions and the state are loaded under the lock.
BeginStart(who, t) ==
    /\ job = None /\ disk[t] # None /\ born < MaxBorn
    /\ job' = NewJob(who, "start", t, IF state[t] # None THEN "alive" ELSE "register", "none", disk[t])
    /\ approved' = [approved EXCEPT ![t] = @ \cup {disk[t]}]
    /\ UNCHANGED <<hostVars, disk, fileVars, spsVars, threadVars, wanted, lost, countVars>>

\* cmd_down, _stop, _remove, and restart, which stops and starts under one lock.
BeginStop(who, op, t) ==
    /\ job = None
    /\ op # "stop" => disk[t] # None
    /\ op \in {"restart", "remove"} => who = "admin"
    /\ op = "restart" => born < MaxBorn
    /\ approved' = IF op = "restart" THEN [approved EXCEPT ![t] = @ \cup {disk[t]}] ELSE approved
    /\ job' = IF state[t] # None THEN NewJob(who, op, t, "check", "stop", disk[t])
              ELSE NewJob(who, op, t, CASE op = "stop" -> "done" [] op = "remove" -> "rmtree"
                                        [] op = "restart" -> "register", "none", disk[t])
    /\ UNCHANGED <<hostVars, disk, fileVars, spsVars, threadVars, wanted, lost, countVars>>

\* "already running", or a dead record to clean up first.
IsAlive ==
    /\ job # None /\ job.pc = "alive"
    /\ procs' = procs \ Reapable(job.run, job.who)
    /\ job' = IF Alive(job.run, job.who) THEN [job EXCEPT !.pc = "done"]
              ELSE [job EXCEPT !.pc = "check", !.ctx = "old"]
    /\ UNCHANGED <<boot, born, disk, fileVars, spsVars, threadVars, ghostVars, countVars>>

\* _terminate: look first, and give up when the PID is somebody else's.
TermCheck ==
    /\ job # None /\ job.pc = "check"
    /\ LET seen == CheckExit(job.run, job.who) IN
       /\ procs' = procs \ Reapable(job.run, job.who)
       /\ job' = [job EXCEPT !.pc = IF seen = "there" THEN "signal" ELSE "unregister",
                             !.ok = (seen = "gone")]
    /\ UNCHANGED <<boot, born, disk, fileVars, spsVars, threadVars, ghostVars, countVars>>

\* Mutant: the PID alone is signalled.
TermSignalPid ==
    /\ job # None /\ job.pc = "signal"
    /\ \/ \E p \in At(job.run.pid) : procs' = (IF p.live THEN Ended(p) ELSE procs) /\ Go("confirm")
       \/ At(job.run.pid) = {} /\ UNCHANGED procs /\ Go("unregister")
    /\ UNCHANGED <<boot, born, disk, fileVars, spsVars, threadVars, ghostVars, countVars>>

\* SIGTERM, SIGKILL: only after another positive match; otherwise nothing is confirmed.  A
\* process that does not end within the two waits is a fault.
TermSignal ==
    /\ job # None /\ job.pc = "signal"
    /\ \/ \E p \in Same(job.run) :
            /\ Go("confirm")
            /\ \/ procs' = (IF p.live THEN Ended(p) ELSE procs) /\ UNCHANGED faults
               \/ p.live /\ faults < MaxFaults /\ faults' = faults + 1 /\ UNCHANGED procs
       \/ Same(job.run) = {} /\ UNCHANGED <<procs, faults>> /\ Go("unregister")
    /\ UNCHANGED <<boot, born, disk, fileVars, spsVars, threadVars, ghostVars, crashes>>

\* Mutant: a signal that was sent counts as an exit.
ConfirmSent ==
    /\ job # None /\ job.pc = "confirm"
    /\ job' = [job EXCEPT !.pc = "unregister", !.ok = TRUE]
    /\ procs' = procs \ Reapable(job.run, job.who)
    /\ UNCHANGED <<boot, born, disk, fileVars, spsVars, threadVars, ghostVars, countVars>>

TermConfirm ==
    /\ job # None /\ job.pc = "confirm"
    /\ job' = [job EXCEPT !.pc = "unregister",
                          !.ok = (CheckExit(job.run, job.who) = "gone")]
    /\ procs' = procs \ Reapable(job.run, job.who)
    /\ UNCHANGED <<boot, born, disk, fileVars, spsVars, threadVars, ghostVars, countVars>>

\* Mutant: the record is dropped whether or not the exit was confirmed.
AfterAnyCleanup(j) ==
    IF j.ctx \in {"old", "stop"}
    THEN [j EXCEPT !.pc = "save", !.rec = None,
                   !.then = IF j.ctx = "old" \/ j.op = "restart" THEN "register" ELSE "done"]
    ELSE [j EXCEPT !.pc = "failed"]

\* Where a cleanup leads: the record goes once the exit is confirmed and is kept
\* otherwise; a rollback that fails leaves the runtime unrecorded.
AfterCleanup(j) ==
    LET save(rec, then) == [j EXCEPT !.pc = "save", !.rec = rec, !.then = then] IN
    CASE j.ctx \in {"old", "stop"} /\ j.ok ->
            save(None, CASE j.ctx = "old" \/ j.op = "restart" -> "register"
                         [] j.op = "remove" -> "rmtree" [] OTHER -> "done")
      [] j.ctx \in {"old", "stop", "abort"} /\ ~j.ok -> save(j.run, "failed")
      [] j.ctx = "rollback" /\ j.ok -> save(None, "failed")
      [] OTHER -> [j EXCEPT !.pc = "failed"]

\* _sps_unregister, by tool id: best effort, and its failure is only logged.
Unregister ==
    /\ job # None /\ job.pc = "unregister"
    /\ \/ job.run.sps /\ sps.up /\ reg' = [reg EXCEPT ![job.tool] = None]
       \/ (job.run.sps => ~sps.up \/ faults < MaxFaults) /\ UNCHANGED reg
    /\ faults' = IF job.run.sps /\ sps.up /\ reg' = reg /\ reg[job.tool] # None
                 THEN faults + 1 ELSE faults
    /\ job' = AfterCleanup(job)
    /\ lost' = IF job.ctx = "rollback" /\ ~job.ok THEN lost \cup {job.run.birth} ELSE lost
    /\ UNCHANGED <<hostVars, disk, fileVars, sps, threadVars, wanted, approved, crashes>>

\* _save_state: state.json first, then the view that holds the channel secrets only.
SaveState ==
    /\ job # None /\ job.pc = "save"
    /\ state' = [state EXCEPT ![job.tool] = job.rec]
    /\ Go("publish")
    /\ UNCHANGED <<hostVars, disk, chan, spsVars, threadVars, ghostVars, countVars>>

\* Mutant: the view keeps an entry without a secret for a stopped tool.
ViewAll(st) == [t \in Tools |-> IF st[t] = None THEN None ELSE st[t].birth]

View(st) == [t \in Tools |-> IF st[t] = None THEN 0 ELSE st[t].birth]

PublishChannels ==
    /\ job # None /\ job.pc = "publish"
    /\ chan' = View(state)
    /\ Go(job.then)
    /\ UNCHANGED <<hostVars, disk, state, spsVars, threadVars, ghostVars, countVars>>

\* Either file cannot be written.  A fresh runtime is stopped again (_record_or_rollback,
\* and cmd_up's own handler, which has none for a start that failed before).
SaveFails ==
    /\ job # None /\ job.pc \in {"save", "publish"} /\ faults < MaxFaults
    /\ faults' = faults + 1
    /\ job' = IF job.ctx = "fresh" \/ (job.ctx = "abort" /\ job.who # "cli")
              THEN [job EXCEPT !.pc = "check", !.ctx = "rollback"]
              ELSE [job EXCEPT !.pc = "failed"]
    /\ lost' = IF job.ctx = "abort" /\ job.who = "cli" /\ job.pc = "save"
               THEN lost \cup {job.run.birth} ELSE lost
    /\ UNCHANGED <<hostVars, disk, fileVars, spsVars, threadVars, wanted, approved, crashes>>

Minted(isSps) == [pid |-> 0, birth |-> born + 1, boot |-> boot, decl |-> job.decl, sps |-> isSps]

\* ProcessRunner.start up to the registration: the port, the new secrets, SPS.
Register ==
    /\ job # None /\ job.pc = "register"
    /\ born' = born + 1
    /\ \/ /\ sps.up
          /\ reg' = [reg EXCEPT ![job.tool] = [esecret |-> born', decl |-> job.decl]]
          /\ job' = [job EXCEPT !.pc = "spawn", !.run = Minted(TRUE)]
          /\ UNCHANGED faults
       \/ \* no answer: SPS is down, or took the call and its reply was lost
          /\ \/ ~sps.up /\ UNCHANGED <<reg, faults>>
             \/ /\ sps.up /\ faults < MaxFaults /\ faults' = faults + 1
                /\ reg' \in {reg, [reg EXCEPT ![job.tool] = [esecret |-> born', decl |-> job.decl]]}
          /\ job' = IF job.tool \in Secretless
                    THEN [job EXCEPT !.pc = "spawn", !.run = Minted(FALSE)]
                    ELSE [job EXCEPT !.pc = "failed"]
    /\ UNCHANGED <<boot, procs, disk, fileVars, sps, threadVars, ghostVars, crashes>>

\* _check_port_free: a survivor of an earlier start may hold the port.
PortTaken ==
    /\ job # None /\ job.pc = "register"
    /\ \E p \in procs : p.tool = job.tool /\ p.live
    /\ Go("failed")
    /\ UNCHANGED <<hostVars, disk, fileVars, spsVars, threadVars, ghostVars, countVars>>

Spawn(pid) ==
    /\ job # None /\ job.pc = "spawn" /\ At(pid) = {}
    /\ procs' = procs \cup {[pid |-> pid, birth |-> job.run.birth, tool |-> job.tool,
                             live |-> TRUE, parent |-> Self(job.who)]}
    /\ job' = [job EXCEPT !.pc = "ready", !.run.pid = pid]
    /\ UNCHANGED <<boot, born, disk, fileVars, spsVars, threadVars, ghostVars, countVars>>

\* After _READINESS_WAIT: a tool that has exited is reaped and its start undone.
Ready ==
    /\ job # None /\ job.pc = "ready"
    /\ procs' = procs \ Reapable(job.run, job.who)
    /\ job' = IF Alive(job.run, job.who)
              THEN [job EXCEPT !.pc = "save", !.ctx = "fresh", !.rec = job.run, !.then = "done"]
              ELSE [job EXCEPT !.pc = "unregister", !.ctx = "abort", !.ok = TRUE]
    /\ UNCHANGED <<boot, born, disk, fileVars, spsVars, threadVars, ghostVars, countVars>>

\* An exception while the new process is being looked at (an interrupt, a failed read).
StartInterrupted ==
    /\ job # None /\ job.pc = "ready" /\ faults < MaxFaults
    /\ faults' = faults + 1
    /\ job' = [job EXCEPT !.pc = "check", !.ctx = "abort"]
    /\ UNCHANGED <<hostVars, disk, fileVars, spsVars, threadVars, ghostVars, crashes>>

Rmtree ==
    /\ job # None /\ job.pc = "rmtree"
    /\ disk' = [disk EXCEPT ![job.tool] = None]
    /\ Go("done")
    /\ UNCHANGED <<hostVars, fileVars, spsVars, threadVars, ghostVars, countVars>>

\* The children of a command line that exits are init's.
Orphaned(parent) ==
    {[p EXCEPT !.parent = IF @ = parent THEN "init" ELSE @] :
        p \in {q \in procs : q.live \/ q.parent # parent}}

\* The command ends and the lock is released.
Finish ==
    /\ job # None /\ job.pc \in {"done", "failed"}
    /\ job' = None
    /\ procs' = IF job.who = "cli" THEN Orphaned("cli") ELSE procs
    /\ rc' = IF job.who # "reconciler" THEN rc
             ELSE [rc EXCEPT !.pc = IF job.pc = "done" THEN "pick" ELSE "restore"]
    /\ reclock' = IF job.who = "reconciler" /\ job.pc = "done" THEN None ELSE reclock
    /\ wanted' = IF job.who = "reconciler" THEN wanted
                 ELSE [wanted EXCEPT ![job.tool] =
                           CASE job.pc = "failed" -> "open"
                             [] job.pc = "done" /\ job.op \in {"start", "restart"} -> "up"
                             [] OTHER -> "down"]
    /\ UNCHANGED <<boot, born, disk, fileVars, spsVars, wd, approved, lost, countVars>>

\* Somebody edits a manifest, or updates a tool from its source.
EditManifest(t, d) ==
    /\ disk[t] \notin {None, d}
    /\ disk' = [disk EXCEPT ![t] = d]
    /\ UNCHANGED <<hostVars, fileVars, spsVars, job, threadVars, ghostVars, countVars>>

\* record_edited_declarations, after the panel has written the manifest.
RecordEdit(t) ==
    /\ job = None
    /\ state[t] # None /\ disk[t] \notin {None, state[t].decl}
    /\ state' = [state EXCEPT ![t].decl = disk[t]]
    /\ chan' = View(state)
    /\ approved' = [approved EXCEPT ![t] = @ \cup {disk[t]}]
    /\ UNCHANGED <<hostVars, disk, spsVars, job, threadVars, wanted, lost, countVars>>

-----------------------------------------------------------------------------
(* The reconciler: one pass when the admin process starts *)

\* wait_until_up, and the pass that is not made when SPS stays away.
RcWait ==
    /\ rc.pc = "wait"
    /\ rc' = [rc EXCEPT !.pc = IF sps.up THEN "snap" ELSE "off"]
    /\ UNCHANGED <<hostVars, disk, fileVars, spsVars, job, reclock, wd, ghostVars, countVars>>

RcSnap ==
    /\ rc.pc = "snap" /\ job = None
    /\ rc' = [rc EXCEPT !.pc = "pick", !.snap = state, !.todo = {t \in Tools : state[t] # None}]
    /\ UNCHANGED <<hostVars, disk, fileVars, spsVars, job, reclock, wd, ghostVars, countVars>>

RcPick ==
    /\ rc.pc = "pick"
    /\ \/ rc.todo = {} /\ rc' = RcOff /\ UNCHANGED reclock
       \/ \E t \in rc.todo :
            /\ reclock = None /\ reclock' = "reconciler"
            /\ rc' = [rc EXCEPT !.pc = "assess", !.tool = t, !.todo = @ \ {t}]
    /\ UNCHANGED <<hostVars, disk, fileVars, spsVars, job, wd, ghostVars, countVars>>

\* is_alive of the record in the snapshot.
RcAssess ==
    /\ rc.pc = "assess"
    /\ LET run == rc.snap[rc.tool] IN
       /\ procs' = procs \ Reapable(run, "reconciler")
       /\ IF Alive(run, "reconciler")
          THEN rc' = [rc EXCEPT !.pc = "pick"] /\ reclock' = None
          ELSE rc' = [rc EXCEPT !.pc = "start"] /\ UNCHANGED reclock
    /\ UNCHANGED <<boot, born, disk, fileVars, spsVars, job, wd, ghostVars, countVars>>

\* toolyard_ops.start(recovery=True): a tool that is not discoverable keeps its record; a
\* record that is no longer there has no declarations, which is an error like any other.
RcStart ==
    /\ rc.pc = "start" /\ job = None
    /\ \/ /\ disk[rc.tool] = None
          /\ rc' = [rc EXCEPT !.pc = "pick"] /\ reclock' = None /\ UNCHANGED job
       \/ /\ disk[rc.tool] # None /\ state[rc.tool] = None
          /\ rc' = [rc EXCEPT !.pc = "restore"] /\ UNCHANGED <<job, reclock>>
       \/ /\ disk[rc.tool] # None /\ state[rc.tool] # None
          /\ job' = NewJob("reconciler", "recover", rc.tool, "alive", "none", state[rc.tool].decl)
          /\ rc' = [rc EXCEPT !.pc = "job"] /\ UNCHANGED reclock
    /\ UNCHANGED <<hostVars, disk, fileVars, spsVars, wd, ghostVars, countVars>>

\* "restoring intent": setdefault under the lock, and the whole pass ends if it cannot.
RcRestore ==
    /\ rc.pc = "restore" /\ job = None /\ reclock' = None
    /\ \/ /\ state' = [state EXCEPT ![rc.tool] = IF @ = None THEN rc.snap[rc.tool] ELSE @]
          /\ chan' = View(state')
          /\ rc' = [rc EXCEPT !.pc = "pick"]
          /\ UNCHANGED <<faults, wanted>>
       \/ /\ faults < MaxFaults /\ faults' = faults + 1
          /\ rc' = RcOff
          /\ wanted' = [wanted EXCEPT ![rc.tool] = "open"]
          /\ UNCHANGED fileVars
    /\ UNCHANGED <<hostVars, disk, spsVars, job, wd, approved, lost, crashes>>

-----------------------------------------------------------------------------
(* The watchdog: SPS's boot id has changed, so its registrations are gone *)

WdProbe ==
    /\ wd.pc = "idle" /\ sps.up /\ sps.boot # wd.seen
    /\ wd' = [wd EXCEPT !.pc = "lock", !.cur = sps.boot]
    /\ UNCHANGED <<hostVars, disk, fileVars, spsVars, job, reclock, rc, ghostVars, countVars>>

WdLock ==
    /\ wd.pc = "lock" /\ reclock = None
    /\ reclock' = "watchdog"
    /\ wd' = [wd EXCEPT !.pc = "load"]
    /\ UNCHANGED <<hostVars, disk, fileVars, spsVars, job, rc, ghostVars, countVars>>

WdLoad ==
    /\ wd.pc = "load" /\ job = None
    /\ job' = NewJob("watchdog", "reregister", None, "loop", "none", None)
    /\ wd' = [wd EXCEPT !.pc = "pass", !.bad = FALSE,
                        !.todo = {t \in Tools : state[t] # None /\ state[t].sps}]
    /\ UNCHANGED <<hostVars, disk, fileVars, spsVars, reclock, rc, ghostVars, countVars>>

\* The recorded secret and declarations of a live tool; a dead one is the reconciler's.
WdRegister(t) ==
    /\ wd.pc = "pass" /\ t \in wd.todo
    /\ procs' = procs \ Reapable(state[t], "watchdog")
    /\ \/ /\ Alive(state[t], "watchdog") /\ sps.up
          /\ reg' = [reg EXCEPT ![t] = [esecret |-> state[t].birth, decl |-> state[t].decl]]
          /\ wd' = [wd EXCEPT !.todo = @ \ {t}]
          /\ UNCHANGED faults
       \/ /\ Alive(state[t], "watchdog") /\ (~sps.up \/ faults < MaxFaults)
          /\ faults' = IF sps.up THEN faults + 1 ELSE faults
          /\ wd' = [wd EXCEPT !.todo = @ \ {t}, !.bad = TRUE]
          /\ UNCHANGED reg
       \/ /\ ~Alive(state[t], "watchdog")
          /\ wd' = [wd EXCEPT !.todo = @ \ {t}]
          /\ UNCHANGED <<reg, faults>>
    /\ UNCHANGED <<boot, born, disk, fileVars, sps, job, reclock, rc, ghostVars, crashes>>

\* Mutant: the boot id is read when the pass ends, not before it begins.
WdEndReprobe ==
    /\ wd.pc = "pass" /\ wd.todo = {}
    /\ wd' = [wd EXCEPT !.pc = "idle", !.seen = IF wd.bad THEN @ ELSE sps.boot]
    /\ job' = None /\ reclock' = None
    /\ UNCHANGED <<hostVars, disk, fileVars, spsVars, rc, ghostVars, countVars>>

WdEnd ==
    /\ wd.pc = "pass" /\ wd.todo = {}
    /\ wd' = [wd EXCEPT !.pc = "idle", !.seen = IF wd.bad THEN @ ELSE wd.cur]
    /\ job' = None /\ reclock' = None
    /\ UNCHANGED <<hostVars, disk, fileVars, spsVars, rc, ghostVars, countVars>>

-----------------------------------------------------------------------------
(* Failures *)

\* SPS stops: its registrations were in memory only.
SpsStop ==
    /\ sps.up /\ sps.boot < MaxSps
    /\ sps' = [sps EXCEPT !.up = FALSE]
    /\ reg' = NoState
    /\ UNCHANGED <<hostVars, disk, fileVars, job, threadVars, ghostVars, countVars>>

SpsStart ==
    /\ ~sps.up
    /\ sps' = [up |-> TRUE, boot |-> sps.boot + 1]
    /\ UNCHANGED <<hostVars, disk, fileVars, reg, job, threadVars, ghostVars, countVars>>

\* The runtime in the hands of a command that dies.
InHand == IF job # None /\ job.run # None THEN {job.run.birth} ELSE {}

\* A command line is killed: the lock goes with its descriptor, its children live on.
CliCrash ==
    /\ job # None /\ job.who = "cli" /\ crashes < MaxCrashes
    /\ crashes' = crashes + 1
    /\ job' = None
    /\ procs' = Orphaned("cli")
    /\ wanted' = [wanted EXCEPT ![job.tool] = "open"] /\ lost' = lost \cup InHand
    /\ UNCHANGED <<boot, born, disk, fileVars, spsVars, threadVars, approved, faults>>

\* The admin process restarts; systemd's control group may take its tools with it.
AdminRestart ==
    /\ crashes < MaxCrashes
    /\ crashes' = crashes + 1
    /\ procs' \in {Orphaned("admin"), {p \in procs : p.parent # "admin"}}
    /\ job' = IF job # None /\ job.who # "cli" THEN None ELSE job
    /\ reclock' = None
    /\ rc' = [RcOff EXCEPT !.pc = "wait"] /\ wd' = WdNew
    /\ wanted' = IF job # None /\ job.who = "admin"
                 THEN [wanted EXCEPT ![job.tool] = "open"] ELSE wanted
    /\ lost' = IF job # None /\ job.who # "cli" THEN lost \cup InHand ELSE lost
    /\ UNCHANGED <<boot, born, disk, fileVars, spsVars, approved, faults>>

\* The host reboots: nothing survives but the files.
Reboot ==
    /\ crashes < MaxCrashes
    /\ crashes' = crashes + 1
    /\ boot' = boot + 1
    /\ procs' = {}
    /\ sps' = [sps EXCEPT !.boot = @ + 1, !.up = TRUE] /\ reg' = NoState
    /\ job' = None /\ reclock' = None
    /\ rc' = [RcOff EXCEPT !.pc = "wait"] /\ wd' = WdNew
    /\ wanted' = IF job # None /\ job.tool # None /\ job.who # "reconciler"
                 THEN [wanted EXCEPT ![job.tool] = "open"] ELSE wanted
    /\ UNCHANGED <<born, disk, fileVars, approved, lost, faults>>

-----------------------------------------------------------------------------

JobStep ==
    \/ IsAlive \/ TermCheck \/ TermSignal \/ TermConfirm \/ Unregister
    \/ SaveState \/ PublishChannels \/ Register \/ (\E pid \in Pids : Spawn(pid))
    \/ Ready \/ Rmtree \/ Finish

RcStep == RcWait \/ RcSnap \/ RcPick \/ RcAssess \/ RcStart \/ RcRestore

WdStep == WdProbe \/ WdLock \/ WdLoad \/ (\E t \in Tools : WdRegister(t)) \/ WdEnd

Next ==
    \/ \E who \in Callers, t \in Tools :
         \/ "start" \in Ops /\ BeginStart(who, t)
         \/ \E op \in Ops \ {"start"} : BeginStop(who, op, t)
    \/ JobStep \/ SaveFails \/ StartInterrupted \/ PortTaken
    \/ RcStep \/ WdStep
    \/ \E p \in procs : Exit(p)
    \/ \E pid \in Pids : Foreign(pid)
    \/ \E t \in Tools : ListTools(t) \/ RecordEdit(t)
    \/ \E t \in Tools, d \in Decls : EditManifest(t, d)
    \/ SpsStop \/ SpsStart \/ CliCrash \/ AdminRestart \/ Reboot

Spec == Init /\ [][Next]_vars

-----------------------------------------------------------------------------
(* Properties *)

\* The type of every variable.
TypeOK ==
    /\ boot \in Nat /\ procs \subseteq Process /\ born \in Nat
    /\ disk \in [Tools -> Decls \cup {None}]
    /\ state \in [Tools -> RunningTool \cup {None}] /\ chan \in [Tools -> Nat]
    /\ sps \in [up : BOOLEAN, boot : Nat] /\ reg \in [Tools -> Registration \cup {None}]
    /\ job \in Job \cup {None}
    /\ reclock \in {"reconciler", "watchdog", None} /\ rc \in Threads /\ wd \in Watch
    /\ wanted \in [Tools -> {"up", "down", "open"}] /\ approved \in [Tools -> SUBSET Decls]
    /\ lost \subseteq Nat /\ faults \in 0 .. MaxFaults /\ crashes \in 0 .. MaxCrashes

\* "Start failed but cleanup is unconfirmed: persist running for later recovery"
\* (RunnerStartCleanupError): whatever fails, a live tool process is recorded in state.json
\* or in the hands of a running command.  Only the death of that command, or a start whose
\* record and whose cleanup both failed (UnrecordedRuntimeError), can lose it.
NoForgottenProcess ==
    \A p \in procs : p.tool \in Tools /\ p.live =>
        \/ state[p.tool] # None /\ state[p.tool].birth = p.birth
        \/ job # None /\ job.run # None /\ job.run.birth = p.birth
        \/ p.birth \in lost

\* "require a positive boot/start match for each signal" (_terminate): a stop never ends a
\* process that was given the PID of the recorded one.
NoForeignSignal ==
    job # None /\ job.pc = "signal" /\ job' # None /\ job'.pc = "confirm" =>
       \A p \in procs \ procs' : p.tool = job.tool /\ p.birth = job.run.birth

\* "restore intent so the tool isn't down and unrecorded" (reconcile_running_tools): a tool
\* its operators want up stays in state.json through every failed restart of it, as long as
\* nothing dies between the two saves of a start.
IntentKept ==
    crashes = 0 => \A t \in Tools : wanted[t] = "up" =>
        \/ state[t] # None
        \/ job # None /\ job.tool = t
        \/ rc.pc = "restore" /\ rc.tool = t

\* "upstream declarations never become grants merely by updating code"
\* (docs/secret-declarations.md): SPS only ever holds declarations that an operator has
\* approved, by a Start or by an Edit, however the tool was registered.
GrantsApproved == \A t \in Tools : reg[t] # None => reg[t].decl \in approved[t]

\* The inductive invariant behind these.  Every record, wherever it is held, is of a birth whose
\* process, if there is one, has the recorded tool, PID and boot.
Dead(run) == \A p \in procs : p.birth = run.birth => ~p.live

Sound(run, t) ==
    /\ run.birth \in 1 .. born /\ run.decl \in approved[t]
    /\ \A p \in procs : p.birth = run.birth => p.tool = t /\ p.pid = run.pid /\ run.boot = boot

ProcsInv ==
    /\ \A p \in procs : p.birth \in 1 .. born
    /\ \A p, q \in procs : p.birth = q.birth => p = q

RecordsInv == \A t \in Tools : /\ state[t] # None => Sound(state[t], t)
                               /\ rc.snap[t] # None => Sound(rc.snap[t], t)

Starts == {"start", "restart", "recover"}

\* What is in the hands of the command that holds the lock: up to the save its record is the one
\* in state.json; a record goes only when its process has ended; and no start begins before.
InHandInv ==
    /\ job.pc \in {"alive", "check", "signal", "confirm", "unregister", "save", "publish", "spawn", "ready"} =>
         job.run # None
    /\ job.run # None => Sound(job.run, job.tool)
    /\ job.pc \in {"alive", "check", "signal", "confirm", "unregister", "save"} =>
         /\ job.pc = "alive" \/ job.ctx \in {"old", "stop"} => state[job.tool] = job.run
         /\ job.pc = "alive" \/ job.ctx # "none"
         /\ state[job.tool] \in {None, job.run}
    /\ job.pc \in {"check", "signal", "confirm", "unregister"} => job.ctx # "fresh"
    /\ job.pc = "unregister" /\ job.ok => Dead(job.run)
    /\ job.pc \in {"save", "publish"} => job.rec = job.run \/ (job.rec = None /\ job.ctx # "fresh" /\ Dead(job.run))
    /\ job.pc = "save" /\ job.ctx = "rollback" => job.rec = None
    /\ job.pc = "publish" => state[job.tool] = job.rec
    /\ job.pc \in {"save", "publish"} /\ job.then \in {"register", "rmtree"} => job.rec = None
    /\ job.pc \in {"register", "spawn", "ready"} => state[job.tool] = None
    /\ job.pc \in {"register", "rmtree"} /\ job.run # None => Dead(job.run)
    /\ job.pc = "spawn" =>
         /\ job.run.boot = boot /\ \A p \in procs : p.birth # job.run.birth
         /\ \A t \in Tools : /\ state[t] # None => state[t].birth # job.run.birth
                             /\ rc.snap[t] # None => rc.snap[t].birth # job.run.birth
    /\ job.pc \in {"done", "failed"} /\ job.run # None =>
         Dead(job.run) \/ state[job.tool] = job.run \/ job.run.birth \in lost

\* What the command is doing, and for whom.
PhaseInv ==
    /\ job.tool \in Tools /\ job.pc # "loop" /\ job.who # "watchdog"
    /\ job.who = "reconciler" <=> job.op = "recover"
    /\ job.who = "reconciler" => rc.pc = "job" /\ rc.tool = job.tool
    /\ job.op \in Starts => job.decl \in Decls \cap approved[job.tool]
    /\ job.pc \in {"alive", "register", "spawn", "ready"} \/ job.ctx \in {"old", "fresh", "abort"} =>
         job.op \in Starts
    /\ job.pc = "alive" \/ job.ctx = "old" => job.op # "restart"
    /\ job.ctx = "stop" => job.op \in {"stop", "restart", "remove"}
    /\ job.pc \in {"save", "publish"} /\ job.then = "register" => job.op \in Starts
    /\ (job.pc \in {"save", "publish"} /\ job.then = "rmtree") \/ job.pc = "rmtree" => job.op = "remove"
    /\ job.pc \in {"save", "publish"} /\ job.then = "done" /\ job.op \in Starts => job.rec # None
    /\ job.pc = "done" /\ job.op \in Starts => state[job.tool] # None

ThreadsInv ==
    /\ rc.pc \in {"assess", "start", "job", "restore"} => rc.tool \in Tools /\ rc.snap[rc.tool] # None
    /\ \A t \in rc.todo : rc.snap[t] # None
    /\ wd.pc = "pass" => job # None /\ job.op = "reregister" /\ \A t \in wd.todo : state[t] # None

ToolyardInv ==
    /\ TypeOK /\ ProcsInv /\ RecordsInv /\ ThreadsInv
    /\ job # None => \/ /\ job.op = "reregister" /\ job.who = "watchdog"
                        /\ job.pc = "loop" /\ job.tool = None /\ job.run = None
                     \/ job.op # "reregister" /\ InHandInv /\ PhaseInv
    /\ NoForgottenProcess /\ IntentKept /\ GrantsApproved

\* A live tool that its operators want up and that SPS has forgotten.
Unserved(t) ==
    /\ wanted[t] = "up" /\ state[t] # None /\ state[t].sps
    /\ \E p \in Same(state[t]) : p.live
    /\ ~(reg[t] # None /\ reg[t].esecret = state[t].birth)

\* The reconciler's pass is under way, for its progress.
Reconciling == rc.pc # "off"

-----------------------------------------------------------------------------
(* Said of the code and not true of it (README, section 5) *)

\* "state.json records running *intent*" (admin/reconciler.py): a tool that its operators
\* have stopped is not recorded until they start it again.
StopStays ==
    \A t \in Tools : wanted[t] = "down" =>
        \/ state[t] = None
        \/ job # None /\ job.tool = t /\ job.op \in {"start", "restart"}

=============================================================================
