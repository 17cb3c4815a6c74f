----------------------------- MODULE Supervisor -----------------------------
(***************************************************************************)
(* The supervision of the broker process (admin/supervisor.py).  The admin *)
(* app runs start, stop and restart one at a time (admin/blocking.py has   *)
(* one slot) while its event loop answers pages that call status() itself. *)
(* What it knows of the broker is one file with a pid.  The admin app may  *)
(* die and come back, after which the broker is no longer its child; a pid *)
(* that is free may be given to another process.                           *)
(***************************************************************************)
EXTENDS Naturals

CONSTANTS
    Pids,
    MaxSpawns, MaxCrashes, MaxReuse,    \* starts, brokers that die by themselves, pids reused
    MaxRestarts,                        \* deaths of the admin app
    MaxFaults,                          \* ps(1) times out, or the admin app dies before it wrote the pid
    Polls,                              \* whether the event loop calls status() too
    None

\* Assumed of the constants; the module of a run asserts it of its instances.
SupervisorAssumption ==
    /\ {MaxSpawns, MaxCrashes, MaxReuse, MaxRestarts, MaxFaults} \subseteq Nat
    /\ Polls \in BOOLEAN /\ None \notin Pids

Actors == IF Polls THEN {"worker", "loop"} ELSE {"worker"}

VARIABLES
    proc,       \* per pid: what the process is, whether it is our child, the signal it has
    port,       \* the process that listens on the broker's port
    file,       \* broker.state.json
    act,        \* per actor: the call, where it is, the pid it has read
    report,     \* what the last start or restart returned
    foreign,    \* whether a signal has reached a process that is no broker
    lost,       \* whether a fault has cost us the pid of a running broker
    spawns, deaths, reuse, restarts, faults

vars == <<proc, port, file, act, report, foreign, lost, spawns, deaths, reuse, restarts, faults>>
counts == <<spawns, deaths, reuse, restarts, faults>>

Free == [is |-> "free", child |-> FALSE, sig |-> "none"]
Idle == [op |-> "none", pc |-> "idle", pid |-> None, healthy |-> FALSE]
NoReport == [pid |-> None, served |-> TRUE, error |-> FALSE]

Init ==
    /\ proc = [p \in Pids |-> Free]
    /\ port = None /\ file = None
    /\ act = [a \in Actors |-> Idle]
    /\ report = NoReport
    /\ foreign = FALSE /\ lost = FALSE
    /\ spawns = 0 /\ deaths = 0 /\ reuse = 0 /\ restarts = 0 /\ faults = 0

Running(p) == proc[p].is \in {"boot", "serve"}
Go(a, pc) == act' = [act EXCEPT ![a].pc = pc]

-----------------------------------------------------------------------------
(* The system: processes come and go *)

\* Mutant: the port of a dead broker stays taken.
GoneUnbound(p) ==
    /\ proc' = [proc EXCEPT ![p] = IF @.child THEN [@ EXCEPT !.is = "zombie"] ELSE Free]
    /\ UNCHANGED port

\* A process is gone: our child stays a zombie until somebody waits for it.
Gone(p) ==
    /\ proc' = [proc EXCEPT ![p] = IF @.child THEN [@ EXCEPT !.is = "zombie"] ELSE Free]
    /\ port' = IF port = p THEN None ELSE port

\* The broker binds its port, or finds it taken and exits.
Bind(p) ==
    /\ proc[p].is = "boot"
    /\ IF port = None THEN proc' = [proc EXCEPT ![p].is = "serve"] /\ port' = p ELSE Gone(p)
    /\ UNCHANGED <<file, act, report, foreign, lost, counts>>

\* A signalled broker exits; one that is not may die too.
Exit(p) ==
    /\ Running(p)
    /\ proc[p].sig = "none" => deaths < MaxCrashes
    /\ deaths' = IF proc[p].sig = "none" THEN deaths + 1 ELSE deaths
    /\ Gone(p)
    /\ UNCHANGED <<file, act, report, foreign, lost, spawns, reuse, restarts, faults>>

\* Pids are handed out in turn: one is not reused within the seconds that a call lasts.
Reuse(p) ==
    /\ proc[p].is = "free" /\ reuse < MaxReuse /\ \A a \in Actors : act[a].pc = "idle"
    /\ reuse' = reuse + 1
    /\ proc' = [proc EXCEPT ![p].is = "other"]
    /\ UNCHANGED <<port, file, act, report, foreign, lost, spawns, deaths, restarts, faults>>

\* The admin app dies and comes back: init adopts its children and reaps the dead ones.
AdminRestart ==
    /\ restarts < MaxRestarts /\ restarts' = restarts + 1
    /\ LET unwritten == act["worker"].pc = "write" IN
       /\ unwritten => faults < MaxFaults
       /\ faults' = IF unwritten THEN faults + 1 ELSE faults
       /\ lost' = (lost \/ unwritten)
    /\ proc' = [p \in Pids |-> IF proc[p].is = "zombie" THEN Free ELSE [proc[p] EXCEPT !.child = FALSE]]
    /\ act' = [a \in Actors |-> Idle]
    /\ UNCHANGED <<port, file, report, foreign, spawns, deaths, reuse>>

-----------------------------------------------------------------------------
(* status(), of the worker's start or of the event loop *)

\* Where a call goes when status() says that nothing runs.
Stopped(a) ==
    \/ a = "loop" /\ act' = [act EXCEPT ![a] = Idle] /\ UNCHANGED report
    \/ a = "worker" /\ act[a].pc \in {"read", "wait", "alive", "clear"} /\ Go(a, "spawn") /\ UNCHANGED report
    \/ /\ a = "worker" /\ act[a].pc \in {"read2", "wait2", "alive2", "clear2"}
       /\ act' = [act EXCEPT ![a] = Idle]
       /\ report' = [pid |-> None, served |-> TRUE, error |-> ~act[a].healthy]

Poll ==
    /\ Polls /\ act["loop"].pc = "idle"
    /\ act' = [act EXCEPT !["loop"] = [Idle EXCEPT !.pc = "read"]]
    /\ UNCHANGED <<proc, port, file, report, foreign, lost, counts>>

ReadState(a) ==
    /\ act[a].pc \in {"read", "read2"}
    /\ IF file = None THEN Stopped(a)
       ELSE /\ act' = [act EXCEPT ![a].pid = file, ![a].pc = IF @ = "read" THEN "wait" ELSE "wait2"]
            /\ UNCHANGED report
    /\ UNCHANGED <<proc, port, file, foreign, lost, counts>>

Dead(p) == proc[p].child /\ proc[p].is = "zombie"

\* os.waitpid(pid, WNOHANG)
Reap(a) ==
    /\ act[a].pc \in {"wait", "wait2"}
    /\ LET p == act[a].pid IN
       IF Dead(p)
       THEN /\ proc' = [proc EXCEPT ![p] = Free]
            /\ Go(a, IF act[a].pc = "wait" THEN "clear" ELSE "clear2")
       ELSE /\ Go(a, IF act[a].pc = "wait" THEN "alive" ELSE "alive2")
            /\ UNCHANGED proc
    /\ UNCHANGED <<port, file, report, foreign, lost, counts>>

\* os.killpg(pid, 0): whether another process with this pid leads a group we may signal is
\* its own affair.
PidAlive(p) == IF proc[p].is = "other" THEN BOOLEAN ELSE {proc[p].is # "free"}

\* The answer of status(): running, and healthy when whatever listens on the port says so.
Alive(a) ==
    /\ act[a].pc \in {"alive", "alive2"}
    /\ \E alive \in PidAlive(act[a].pid) :
          \/ ~alive /\ Go(a, IF act[a].pc = "alive" THEN "clear" ELSE "clear2") /\ UNCHANGED report
          \/ /\ alive
             /\ act' = [act EXCEPT ![a] = Idle]
             /\ report' = IF a = "loop" THEN report
                          ELSE [pid |-> act[a].pid,
                                served |-> port # None => port = act[a].pid,
                                error |-> act[a].pc = "alive2" /\ ~act[a].healthy /\ port = None]
    /\ UNCHANGED <<proc, port, file, foreign, lost, counts>>

\* _clear_state, whatever the file holds by now.
ClearState(a) ==
    /\ act[a].pc \in {"clear", "clear2"}
    /\ file' = None
    /\ Stopped(a)
    /\ UNCHANGED <<proc, port, foreign, lost, counts>>

-----------------------------------------------------------------------------
(* start, stop and restart *)

\* work.run, from a handler of the event loop: the one slot is free.
Request(op) ==
    /\ \A a \in Actors : act[a].pc = "idle"
    /\ spawns < MaxSpawns
    /\ act' = [act EXCEPT !["worker"] =
                  [Idle EXCEPT !.op = op, !.pc = IF op = "start" THEN "read" ELSE "stop"]]
    /\ UNCHANGED <<proc, port, file, report, foreign, lost, counts>>

Spawn ==
    /\ act["worker"].pc = "spawn"
    /\ spawns' = spawns + 1
    /\ \E p \in Pids :
          /\ proc[p].is = "free"
          /\ proc' = [proc EXCEPT ![p] = [is |-> "boot", child |-> TRUE, sig |-> "none"]]
          /\ act' = [act EXCEPT !["worker"].pc = "write", !["worker"].pid = p]
    /\ UNCHANGED <<port, file, report, foreign, lost, deaths, reuse, restarts, faults>>

WriteState ==
    /\ act["worker"].pc = "write"
    /\ file' = act["worker"].pid
    /\ Go("worker", "await")
    /\ UNCHANGED <<proc, port, report, foreign, lost, counts>>

\* _await_health: somebody answers on the port, or the attempts are used up.
AwaitHealth ==
    /\ act["worker"].pc = "await"
    /\ \E ok \in {FALSE, port # None} :
          act' = [act EXCEPT !["worker"].pc = "read2", !["worker"].healthy = ok]
    /\ UNCHANGED <<proc, port, file, report, foreign, lost, counts>>

StopRead ==
    /\ act["worker"].pc = "stop"
    /\ act' = [act EXCEPT !["worker"].pid = file,
                          !["worker"].pc = IF file = None THEN "stopped" ELSE "check"]
    /\ UNCHANGED <<proc, port, file, report, foreign, lost, counts>>

\* Mutant: whatever has the recorded pid is the broker.
IsBrokerAlive ==
    /\ act["worker"].pc = "check"
    /\ Go("worker", IF proc[act["worker"].pid].is # "free" THEN "term" ELSE "unlink")
    /\ UNCHANGED <<proc, port, file, report, foreign, lost, counts>>

\* _is_broker asks ps for the command line; if ps fails the pid is left alone and forgotten.
IsBroker ==
    /\ act["worker"].pc = "check"
    /\ LET p == act["worker"].pid IN
       \/ /\ Go("worker", IF Running(p) THEN "term" ELSE "unlink")
          /\ UNCHANGED <<faults, lost>>
       \/ /\ faults < MaxFaults /\ faults' = faults + 1
          /\ Go("worker", "unlink")
          /\ lost' = (lost \/ Running(p))
    /\ UNCHANGED <<proc, port, file, report, foreign, spawns, deaths, reuse, restarts>>

Signal(p, sig, next) ==
    /\ foreign' = (foreign \/ proc[p].is = "other")
    /\ proc' = IF Running(p) THEN [proc EXCEPT ![p].sig = sig] ELSE proc
    /\ Go("worker", IF proc[p].is = "free" THEN "unlink" ELSE next)
    /\ UNCHANGED <<port, file, report, lost, counts>>

Terminate == act["worker"].pc = "term" /\ Signal(act["worker"].pid, "term", "reap")

\* Mutant: SIGTERM is enough.
ReapNever ==
    /\ act["worker"].pc \in {"reap", "dead"}
    /\ Go("worker", "unlink")
    /\ UNCHANGED <<proc, port, file, report, foreign, lost, counts>>

\* The polls of _terminate: a process that is not our child is not waited for.
ReapStopped ==
    /\ act["worker"].pc \in {"reap", "dead"}
    /\ LET p == act["worker"].pid IN
       \/ /\ Dead(p)
          /\ proc' = [proc EXCEPT ![p] = Free] /\ Go("worker", "unlink")
       \/ ~proc[p].child /\ Go("worker", "unlink") /\ UNCHANGED proc
    /\ UNCHANGED <<port, file, report, foreign, lost, counts>>

\* Thirty polls are over: SIGKILL, and a wait without a limit.
Escalate ==
    /\ act["worker"].pc = "reap"
    /\ proc[act["worker"].pid].child /\ ~Dead(act["worker"].pid)
    /\ Signal(act["worker"].pid, "kill", "dead")

Unlink ==
    /\ act["worker"].pc = "unlink"
    /\ file' = None
    /\ Go("worker", "stopped")
    /\ UNCHANGED <<proc, port, report, foreign, lost, counts>>

\* stop() returns; restart() goes on to start().
StopDone ==
    /\ act["worker"].pc = "stopped"
    /\ act' = [act EXCEPT !["worker"] =
                  IF @.op = "restart" THEN [@ EXCEPT !.pc = "read", !.pid = None] ELSE Idle]
    /\ UNCHANGED <<proc, port, file, report, foreign, lost, counts>>

-----------------------------------------------------------------------------

Status(a) == ReadState(a) \/ Reap(a) \/ Alive(a) \/ ClearState(a)

Worker ==
    \/ Status("worker")
    \/ Spawn \/ WriteState \/ AwaitHealth
    \/ StopRead \/ IsBroker \/ Terminate \/ ReapStopped \/ Escalate \/ Unlink \/ StopDone

Next ==
    \/ \E p \in Pids : Bind(p) \/ Exit(p) \/ Reuse(p)
    \/ AdminRestart
    \/ \E op \in {"start", "stop", "restart"} : Request(op)
    \/ Worker
    \/ Poll
    \/ Polls /\ Status("loop")

Spec == Init /\ [][Next]_vars

\* A process dies of SIGKILL.
Killed(p) == proc[p].sig = "kill" /\ Exit(p)

-----------------------------------------------------------------------------
(* Properties *)

\* The type of every variable.
TypeOK ==
    /\ proc \in [Pids -> [is : {"free", "boot", "serve", "zombie", "other"}, child : BOOLEAN,
                          sig : {"none", "term", "kill"}]]
    /\ port \in Pids \cup {None} /\ file \in Pids \cup {None}
    /\ port # None => proc[port].is = "serve"
    /\ \A a \in Actors : act[a].pid \in Pids \cup {None}
    /\ report.pid \in Pids \cup {None}

\* _terminate: "Never signal it" of a pid that has gone to some other process, through
\* restarts of the admin app and brokers that died unseen.
NoForeignSignal == ~foreign

\* "one supervised broker per machine, identified by the state file" (supervisor.py:11):
\* between calls, a broker that runs and has not been told to stop is the recorded one.
Recorded ==
    act["worker"].pc = "idle" /\ ~lost =>
        \A p \in Pids : Running(p) /\ proc[p].sig = "none" => file = p

\* "a GET /v1/health probe confirms it is actually serving" (supervisor.py:7): when start
\* reports a process healthy, it is that process which answers.
HealthyIsRecorded == lost \/ report.served

\* Where a call may be.
Places ==
    {"idle", "read", "wait", "alive", "clear", "spawn", "write", "await", "read2", "wait2", "alive2",
     "clear2", "stop", "check", "term", "reap", "dead", "unlink", "stopped"}

CallsTyped ==
    act \in [Actors -> [op : {"none", "start", "stop", "restart"}, pc : Places, pid : Pids \cup {None},
                        healthy : BOOLEAN]]

\* The inductive invariant behind Recorded, while no page clears the file: a broker that has
\* not been told to stop is the recorded one, or the one that start has not recorded yet, and
\* none runs where a call has told it to stop or has found that it is gone.
RecordInv ==
    /\ TypeOK /\ CallsTyped /\ lost \in BOOLEAN
    /\ act["worker"].pc \in {"wait", "wait2", "alive", "alive2", "check", "term", "reap", "dead"} =>
          file # None /\ act["worker"].pid = file
    /\ act["worker"].pc = "write" => act["worker"].pid \in Pids
    /\ lost \/ \A p \in Pids : Running(p) /\ proc[p].sig = "none" =>
          CASE act["worker"].pc = "write" -> p = act["worker"].pid
            [] act["worker"].pc \in {"reap", "dead", "spawn", "clear", "clear2", "unlink", "stopped"} -> FALSE
            [] OTHER -> p = file

\* The one behind NoForeignSignal, with pages or without: a call that is about to signal a
\* process has seen that it was the broker, and no pid is reused during the call.
SignalInv ==
    /\ TypeOK /\ CallsTyped /\ NoForeignSignal
    /\ act["worker"].pc \in {"check", "term", "reap", "dead"} =>
          /\ act["worker"].pid \in Pids
          /\ act["worker"].pc # "check" => proc[act["worker"].pid].is # "other"

\* The inductive invariant behind it, while the admin app lives and no page clears the file:
\* every broker that runs is our child, and there is at most one, which is the recorded one,
\* or the one that start has not recorded yet; none runs where a call has found or made sure
\* that the recorded one is gone.
OwnInv ==
    /\ TypeOK /\ HealthyIsRecorded
    /\ restarts = 0 /\ lost \in BOOLEAN
    /\ CallsTyped
    /\ \A p \in Pids : Running(p) => proc[p].child
    /\ act["worker"].pc \in {"wait", "wait2", "alive", "alive2", "check", "term", "reap", "dead"} =>
          file # None /\ act["worker"].pid = file
    /\ act["worker"].pc = "write" => act["worker"].pid \in Pids
    /\ lost \/ \A p \in Pids : Running(p) =>
          CASE act["worker"].pc = "write" -> p = act["worker"].pid
            [] act["worker"].pc \in {"spawn", "clear", "clear2", "unlink", "stopped"} -> FALSE
            [] OTHER -> p = file

\* A start, stop or restart is under way, for their progress.
InCall == act["worker"].pc # "idle"

=============================================================================
