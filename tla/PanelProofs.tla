----------------------------- MODULE PanelProofs ----------------------------
(***************************************************************************)
(* What the parts of the admin panel keep: the catalog observation         *)
(* (CatalogView.tla), the supervision of the broker (Supervisor.tla), the  *)
(* run configuration (RunConfig.tla), the edits of callers                 *)
(* (CallerEdits.tla), the tool folders (ToolSources.tla), the manifests in *)
(* them (Manifest.tla), the sessions (Sessions.tla) and the login throttle *)
(* (LoginGuard.tla), for any number of requests, processes, workers,       *)
(* tools and failures.                                                     *)
(***************************************************************************)
EXTENDS Integers, Sequences, FiniteSetTheorems, WellFoundedInduction, TLAPS

CONSTANTS None, Requests, MaxSessions, MaxResets, MaxRevoked, TTL, MaxTime
CONSTANTS Ips, Slots, MaxPerIp, Lockout, GlobalMax, GlobalWindow, LoginTime, MaxFails
CONSTANTS Savers, Removers, External
CONSTANTS Editors, Rotators, Ops, Tools, Effects, MaxEdits, MaxTokens, MaxCatalog, MaxCrashes
CONSTANTS JobWorkers, MaxJobs, MaxVersion
CONSTANTS Runner, MaxChanges
CONSTANTS Catalogs, Bad, MaxReloads, MaxStarts
CONSTANTS Pids, PollPids, MaxSpawns, MaxPollSpawns, MaxDeaths, MaxReuse, MaxRestarts, MaxFaults

VARIABLES now, secret, password, sessions, revoked, lock, req, reset, closed, past, wrong, resets, serial
VARIABLES ipFails, globalFails, login, tried, blocked, failures
VARIABLES toml, records, cleared, saves
VARIABLES caller, policy, tokens, catalog, cmd, trail, edits, issued, changes, crashes
VARIABLES source, dest, dir, made, slot, job, asked, edit, lost, told, kept, broken, jobs, edited, died
VARIABLES disk, up, loaded, oid, receipt, frames, at, seen, got, cert, failed, writes, reloads, starts, ids
VARIABLES form, altered, written, via
VARIABLES proc, port, file, act, report, foreign, forgot, spawns, deaths, reuse, restarts, faults

Sess == INSTANCE Sessions
Login == INSTANCE LoginGuard WITH MaxTime <- LoginTime, serial <- failures
Conf == INSTANCE RunConfig WITH
    Handlers <- Savers, Workers <- Removers, Tools <- External, file <- toml, trail <- records, job <- saves
Page == INSTANCE CallerEdits WITH job <- cmd
Folder == INSTANCE ToolSources WITH
    Workers <- JobWorkers, MaxEdits <- 1, edits <- edited, crashes <- died
Toml == INSTANCE Manifest WITH changes <- altered, disk <- written
Seen == INSTANCE CatalogView WITH MaxDepth <- 1, edits <- writes
Adopt == INSTANCE Supervisor WITH MaxCrashes <- MaxDeaths, Polls <- FALSE, lost <- forgot
Polled == INSTANCE Supervisor WITH
    Pids <- PollPids, MaxSpawns <- MaxPollSpawns, MaxCrashes <- MaxDeaths, Polls <- TRUE, lost <- forgot

-----------------------------------------------------------------------------
(* The catalog observation *)

LEMMA CatalogInit == ASSUME Seen!CatalogViewAssumption, Seen!Init PROVE Seen!CatalogInv
  BY DEF Seen!CatalogViewAssumption, Seen!Init, Seen!CatalogInv, Seen!Running

\* The publication under way, if there is one, before and after a step.
LEMMA OneFrame ==
  ASSUME NEW f, frames = <<f>>
  PROVE  /\ frames # <<>> /\ Seen!Top = f /\ Tail(frames) = <<>>
         /\ \A pc : Seen!Running(pc) <=> f.pc = pc
         /\ \A g : Seen!Becomes(g) <=> frames' = <<g>>
         /\ \A ok : Seen!Returns(ok) <=> frames' = <<>> /\ failed' = ~ok
  BY DEF Seen!Top, Seen!Running, Seen!Becomes, Seen!Returns

LEMMA NextFrame ==
  ASSUME NEW f, frames' = <<f>>
  PROVE  frames' # <<>> /\ Seen!Top' = f /\ \A pc : Seen!Running(pc)' <=> f.pc = pc
  BY DEF Seen!Top, Seen!Running

LEMMA NoFrame ==
  /\ frames = <<>> => \A pc : ~Seen!Running(pc)
  /\ frames' = <<>> => \A pc : ~Seen!Running(pc)'
  BY DEF Seen!Running

\* What a step of the panel, an edit of the manifests, a start, an exit and a signal keep.
LEMMA CatalogOutside ==
  ASSUME Seen!CatalogViewAssumption, Seen!CatalogInv,
         \/ Seen!Edit \/ Seen!Start \/ Seen!Die \/ Seen!Sighup \/ UNCHANGED Seen!vars
         \/ Seen!Health1 \/ Seen!ReadReceipt \/ Seen!ReadCurrent \/ Seen!Health2
  PROVE  Seen!CatalogInv'
<1> USE DEF Seen!CatalogViewAssumption
<1>1. CASE Seen!Edit
  BY <1>1 DEF Seen!Edit, Seen!CatalogInv, Seen!Running, Seen!Top, Seen!Frames, Seen!broker, Seen!panel
<1>2. CASE Seen!Start
  <2>1. frames = <<>>
    BY <1>2 DEF Seen!Start, Seen!CatalogInv
  <2>2. PICK f : f = [Seen!Frame EXCEPT !.pc = "print", !.boot = TRUE]
    OBVIOUS
  <2>3. f \in Seen!Frames' /\ f.pc = "print" /\ frames' = <<f>>
    BY <1>2, <2>2 DEF Seen!Start, Seen!Frame, Seen!Frames, Seen!CatalogInv, Seen!panel
  <2> QED BY <1>2, <2>1, <2>3, NextFrame DEF Seen!Start, Seen!CatalogInv, Seen!panel
<1>3. CASE Seen!Die
  BY <1>3, NoFrame DEF Seen!Die, Seen!CatalogInv, Seen!panel, Seen!counts
<1>4. CASE Seen!Sighup
  <2>1. frames = <<>>
    BY <1>4 DEF Seen!Sighup, Seen!CatalogInv
  <2>2. PICK f : f = Seen!Frame
    OBVIOUS
  <2>3. f \in Seen!Frames' /\ f.pc = "clear_id" /\ frames' = <<f>>
    BY <1>4, <2>1, <2>2 DEF Seen!Sighup, Seen!Frame, Seen!Frames, Seen!CatalogInv, Seen!panel
  <2> QED BY <1>4, <2>1, <2>3, NextFrame DEF Seen!Sighup, Seen!CatalogInv, Seen!panel
<1>5. CASE UNCHANGED Seen!vars
  BY <1>5 DEF Seen!vars, Seen!CatalogInv, Seen!Running, Seen!Top, Seen!Frames
<1>6. CASE Seen!Health1 \/ Seen!ReadReceipt \/ Seen!ReadCurrent \/ Seen!Health2
  <2>1. UNCHANGED <<disk, Seen!broker, Seen!counts>>
    BY <1>6 DEF Seen!Health1, Seen!ReadReceipt, Seen!ReadCurrent, Seen!Health2
  <2>2. /\ at' \in {"idle", "receipt", "current", "again"} /\ (at' # "idle" => seen' # 0)
        /\ seen' \in 0 .. ids /\ got' \in [id : 1 .. ids, fp : Catalogs] \cup {None}
        /\ got' # None => got' = got \/ got' = receipt
        /\ at' = "again" => got' # None /\ got'.id = seen'
    BY <1>6 DEF Seen!Health1, Seen!ReadReceipt, Seen!ReadCurrent, Seen!Health2, Seen!Unknown, Seen!CatalogInv, Seen!Shown
  <2> QED BY <2>1, <2>2 DEF Seen!CatalogInv, Seen!Running, Seen!Top, Seen!Frames, Seen!broker, Seen!counts
<1> QED BY <1>1, <1>2, <1>3, <1>4, <1>5, <1>6

\* What a step of the publication keeps.
LEMMA CatalogPublication ==
  ASSUME Seen!CatalogViewAssumption, Seen!CatalogInv,
         \/ Seen!ClearId \/ Seen!ClearReceipt \/ Seen!Parse \/ Seen!Swap
         \/ Seen!Fingerprint \/ Seen!WriteReceipt \/ Seen!WriteId
  PROVE  Seen!CatalogInv'
<1> USE DEF Seen!CatalogViewAssumption
<1>1. PICK f \in Seen!Frames : frames = <<f>>
  BY DEF Seen!CatalogInv, Seen!ClearId, Seen!ClearReceipt, Seen!Parse, Seen!Swap, Seen!Fingerprint,
         Seen!WriteReceipt, Seen!WriteId, Seen!Running
<1>2. f.pc \in {"clear_id", "clear_receipt", "parse", "swap", "print", "receipt", "id"}
      /\ up /\ (f.pc # "clear_id" => oid = 0)
  BY <1>1, OneFrame DEF Seen!CatalogInv, Seen!Frames
<1>3. UNCHANGED <<disk, up, Seen!panel>>
  BY DEF Seen!ClearId, Seen!ClearReceipt, Seen!Parse, Seen!Swap, Seen!Fingerprint, Seen!WriteReceipt, Seen!WriteId
<1>4. ASSUME NEW p \in {"clear_receipt", "parse", "print", "id"}, frames' = <<[f EXCEPT !.pc = p]>>
      PROVE  \E g \in Seen!Frames : frames' = <<g>> /\ g.pc = p /\ g.id = f.id /\ g.new = f.new /\ g.fp = f.fp
  BY <1>1, <1>4 DEF Seen!Frames
<1>11. CASE Seen!ClearId
  <2>1. PICK g \in Seen!Frames : frames' = <<g>> /\ g.pc = "clear_receipt"
    BY <1>1, <1>4, <1>11, OneFrame DEF Seen!ClearId
  <2> QED BY <1>11, <1>2, <1>3, <2>1, NextFrame DEF Seen!ClearId, Seen!CatalogInv, Seen!Frames, Seen!panel, Seen!counts
<1>12. CASE Seen!ClearReceipt
  <2>1. CASE receipt' = None /\ Seen!Becomes([Seen!Top EXCEPT !.pc = "parse"]) /\ UNCHANGED failed
    <3>1. PICK g \in Seen!Frames : frames' = <<g>> /\ g.pc = "parse"
      BY <1>1, <1>4, <2>1, OneFrame
    <3> QED BY <1>12, <1>1, <1>2, <1>3, <2>1, <3>1, OneFrame, NextFrame
            DEF Seen!ClearReceipt, Seen!CatalogInv, Seen!Frames, Seen!panel, Seen!counts
  <2>2. CASE UNCHANGED receipt /\ Seen!Returns(FALSE)
    <3>1. frames' = <<>> /\ f.pc = "clear_receipt"
      BY <1>1, <1>12, <2>2, OneFrame DEF Seen!ClearReceipt
    <3> QED BY <1>12, <1>2, <1>3, <2>2, <3>1, NoFrame
            DEF Seen!ClearReceipt, Seen!CatalogInv, Seen!panel, Seen!counts
  <2> QED BY <1>12, <2>1, <2>2 DEF Seen!ClearReceipt
<1>13. CASE Seen!Parse
  <2>0. f.pc = "parse"
    BY <1>1, <1>13, OneFrame DEF Seen!Parse
  <2>1. CASE disk = Bad
    <3>1. frames' = <<>>
      BY <1>1, <1>13, <2>1, OneFrame DEF Seen!Parse
    <3> QED BY <1>13, <1>2, <1>3, <2>0, <3>1, NoFrame DEF Seen!Parse, Seen!CatalogInv, Seen!panel, Seen!counts
  <2>2. CASE disk # Bad
    <3>1. disk \in Catalogs /\ frames' = <<[f EXCEPT !.pc = "swap", !.new = disk]>> /\ failed' = failed
      BY <1>1, <1>13, <2>2, OneFrame DEF Seen!Parse, Seen!CatalogInv
    <3>2. PICK g \in Seen!Frames : frames' = <<g>> /\ g.pc = "swap" /\ g.new = disk
      <4>1. PICK h : h = [f EXCEPT !.pc = "swap", !.new = disk]
        OBVIOUS
      <4>2. h \in Seen!Frames /\ h.pc = "swap" /\ h.new = disk
        BY <3>1, <4>1 DEF Seen!Frames
      <4> QED BY <3>1, <4>1, <4>2
    <3> QED BY <1>13, <1>2, <1>3, <2>0, <3>1, <3>2, NextFrame
            DEF Seen!Parse, Seen!CatalogInv, Seen!Frames, Seen!panel, Seen!counts
  <2> QED BY <2>1, <2>2
<1>14. CASE Seen!Swap
  <2>1. f.pc = "swap" /\ f.new \in Catalogs /\ loaded' = f.new
    BY <1>1, <1>14, OneFrame DEF Seen!Swap, Seen!CatalogInv
  <2>2. PICK g \in Seen!Frames : frames' = <<g>> /\ g.pc = "print"
    BY <1>1, <1>4, <1>14, OneFrame DEF Seen!Swap
  <2> QED BY <1>14, <1>2, <1>3, <2>1, <2>2, NextFrame DEF Seen!Swap, Seen!CatalogInv, Seen!Frames, Seen!panel, Seen!counts
<1>15. CASE Seen!Fingerprint
  <2>1. f.pc = "print" /\ ids' = ids + 1 /\ loaded \in Catalogs
    BY <1>1, <1>2, <1>15, OneFrame DEF Seen!Fingerprint, Seen!CatalogInv
  <2>2. frames' = <<[f EXCEPT !.pc = "receipt", !.id = ids + 1, !.fp = loaded]>>
    BY <1>1, <1>15, OneFrame DEF Seen!Fingerprint
  <2>3. PICK g \in Seen!Frames' : frames' = <<g>> /\ g.pc = "receipt" /\ g.id = ids + 1 /\ g.fp = loaded
    <3>1. PICK h : h = [f EXCEPT !.pc = "receipt", !.id = ids + 1, !.fp = loaded]
      OBVIOUS
    <3>2. h \in Seen!Frames' /\ h.pc = "receipt" /\ h.id = ids + 1 /\ h.fp = loaded
      <4>1. ids \in Nat /\ ids + 1 \in 0 .. ids'
        BY <2>1 DEF Seen!CatalogInv
      <4>2. h = [pc |-> "receipt", new |-> f.new, id |-> ids + 1, fp |-> loaded, boot |-> f.boot]
        BY <1>1, <3>1 DEF Seen!Frames
      <4> QED BY <1>1, <2>1, <4>1, <4>2 DEF Seen!Frames
    <3> QED BY <2>2, <3>1, <3>2
  <2> QED BY <1>15, <1>2, <1>3, <2>1, <2>3, NextFrame DEF Seen!Fingerprint, Seen!CatalogInv, Seen!Frames, Seen!panel
<1>16. CASE Seen!WriteReceipt
  <2>0. f.pc = "receipt" /\ f.id = ids /\ ids > 0 /\ f.fp = loaded /\ loaded \in Catalogs
    BY <1>1, <1>2, <1>16, OneFrame DEF Seen!WriteReceipt, Seen!CatalogInv
  <2>1. CASE receipt' = [id |-> Seen!Top.id, fp |-> Seen!Top.fp] /\ Seen!Becomes([Seen!Top EXCEPT !.pc = "id"]) /\ UNCHANGED failed
    <3>1. PICK g \in Seen!Frames : frames' = <<g>> /\ g.pc = "id" /\ g.id = f.id /\ g.fp = f.fp
      BY <1>1, <1>4, <2>1, OneFrame
    <3>2. receipt' = [id |-> ids, fp |-> loaded]
      BY <1>1, <2>0, <2>1, OneFrame
    <3>3. got # None => got.id < ids
      BY <1>1, <2>0, OneFrame DEF Seen!CatalogInv
    <3> QED BY <1>16, <1>2, <1>3, <2>0, <2>1, <3>1, <3>2, <3>3, NextFrame
            DEF Seen!WriteReceipt, Seen!CatalogInv, Seen!Frames, Seen!panel, Seen!counts
  <2>2. CASE UNCHANGED receipt /\ Seen!Returns(FALSE)
    <3>1. frames' = <<>>
      BY <1>1, <2>2, OneFrame
    <3> QED BY <1>16, <1>2, <1>3, <2>0, <2>2, <3>1, NoFrame
            DEF Seen!WriteReceipt, Seen!CatalogInv, Seen!panel, Seen!counts
  <2> QED BY <1>16, <2>1, <2>2 DEF Seen!WriteReceipt
<1>17. CASE Seen!WriteId
  <2>1. f.pc = "id" /\ receipt = [id |-> f.id, fp |-> loaded] /\ frames' = <<>> /\ failed' = FALSE /\ oid' = f.id
    BY <1>1, <1>17, OneFrame DEF Seen!WriteId, Seen!CatalogInv
  <2>2. f.id \in 0 .. ids /\ receipt # None /\ loaded # None
    BY <1>1, <1>2, <2>1 DEF Seen!Frames, Seen!CatalogInv
  <2> QED BY <1>17, <1>2, <1>3, <2>1, <2>2, NoFrame DEF Seen!WriteId, Seen!CatalogInv, Seen!panel, Seen!counts
<1> QED BY <1>11, <1>12, <1>13, <1>14, <1>15, <1>16, <1>17

LEMMA CatalogNext ==
  ASSUME Seen!CatalogViewAssumption, Seen!CatalogInv, [Seen!Next]_(Seen!vars)
  PROVE  Seen!CatalogInv'
  BY CatalogOutside, CatalogPublication DEF Seen!Next

\* Only the second look of the panel at the health page certifies, and what it sees there is
\* the id of the receipt that it holds.
LEMMA CatalogCertifies ==
  ASSUME Seen!CatalogViewAssumption, Seen!CatalogInv, [Seen!Next]_(Seen!vars)
  PROVE  Seen!CertifiedIsLoaded /\ Seen!FailedReloadUncertified
<1>1. CASE Seen!Health2 /\ Seen!Shown = seen /\ at = "again"
  <2>1. seen # 0 /\ got # None /\ got.id = seen /\ cert' = got.fp
    BY <1>1 DEF Seen!Health2, Seen!CatalogInv
  <2>2. up /\ oid = seen /\ ~failed /\ receipt = [id |-> oid, fp |-> loaded] /\ receipt # None
    BY <1>1, <2>1 DEF Seen!Shown, Seen!CatalogInv, Seen!CatalogViewAssumption
  <2>3. got = receipt
    BY <2>1, <2>2 DEF Seen!CatalogInv
  <2>4. up /\ ~failed /\ cert' = loaded
    BY <2>1, <2>2, <2>3
  <2> QED BY <1>1, <2>4 DEF Seen!CertifiedIsLoaded, Seen!FailedReloadUncertified, Seen!Health2, Seen!broker
<1>2. CASE at = "again" /\ at' = "idle" /\ ~(Seen!Health2 /\ Seen!Shown = seen)
  <2>1. Seen!Health2
    BY <1>2 DEF Seen!Next, Seen!vars, Seen!Edit, Seen!Start, Seen!Die, Seen!Sighup, Seen!ClearId, Seen!ClearReceipt,
       Seen!Parse, Seen!Swap, Seen!Fingerprint, Seen!WriteReceipt, Seen!WriteId, Seen!Health1, Seen!ReadReceipt,
       Seen!ReadCurrent, Seen!panel
  <2> QED BY <1>2, <2>1 DEF Seen!Health2, Seen!Unknown, Seen!CertifiedIsLoaded, Seen!FailedReloadUncertified
<1> QED BY <1>1, <1>2 DEF Seen!CertifiedIsLoaded, Seen!FailedReloadUncertified

-----------------------------------------------------------------------------
(* The supervisor of the broker process, without pages: a broker that runs is recorded *)

LEMMA RecordInit == ASSUME Adopt!SupervisorAssumption, Adopt!Init PROVE Adopt!RecordInv
  BY DEF Adopt!SupervisorAssumption, Adopt!Init, Adopt!RecordInv, Adopt!CallsTyped, Adopt!TypeOK, Adopt!Actors,
     Adopt!Free, Adopt!Idle, Adopt!NoReport, Adopt!Running, Adopt!Places

\* A broker that runs and has not been told to stop.
Live(p) == Adopt!Running(p) /\ proc[p].sig = "none"

\* What the invariant says of the worker's call w when the file holds f.
Calls == [op : {"none", "start", "stop", "restart"}, pc : Adopt!Places, pid : Pids \cup {None}, healthy : BOOLEAN]

Fits(w, f) ==
    /\ w.pc \in {"wait", "wait2", "alive", "alive2", "check", "term", "reap", "dead"} => f # None /\ w.pid = f
    /\ w.pc = "write" => w.pid \in Pids
    /\ forgot \/ \A p \in Pids : Live(p) =>
          CASE w.pc = "write" -> p = w.pid
            [] w.pc \in {"reap", "dead", "spawn", "clear", "clear2", "unlink", "stopped"} -> FALSE
            [] OTHER -> p = f

\* A step of the worker that touches no process, but for a dead one it waits for.
LEMMA RecordStep ==
  ASSUME Adopt!SupervisorAssumption, Adopt!RecordInv, NEW w \in Calls, act' = [act EXCEPT !["worker"] = w],
         \/ proc' = proc
         \/ \E q \in Pids : Adopt!Dead(q) /\ proc' = [proc EXCEPT ![q] = Adopt!Free],
         UNCHANGED <<port, forgot>>, file' \in Pids \cup {None}, Fits(w, file'),
         report'.pid \in Pids \cup {None}
  PROVE  Adopt!RecordInv'
<1>1. Adopt!Actors = {"worker"} /\ None \notin Pids
  BY DEF Adopt!Actors, Adopt!SupervisorAssumption
<1>2. act'["worker"] = w /\ act' \in [Adopt!Actors -> Calls]
  BY <1>1 DEF Adopt!RecordInv, Adopt!CallsTyped, Calls
<1>3. /\ proc' \in [Pids -> [is : {"free", "boot", "serve", "zombie", "other"}, child : BOOLEAN,
                             sig : {"none", "term", "kill"}]]
      /\ port # None => proc'[port].is = "serve"
      /\ \A q \in Pids : Live(q)' => Live(q)
  <2>1. CASE proc' = proc
    BY <1>1, <2>1 DEF Adopt!RecordInv, Adopt!CallsTyped, Adopt!TypeOK, Live, Adopt!Running
  <2>2. ASSUME NEW q \in Pids, Adopt!Dead(q), proc' = [proc EXCEPT ![q] = Adopt!Free]
        PROVE  /\ proc' \in [Pids -> [is : {"free", "boot", "serve", "zombie", "other"}, child : BOOLEAN,
                                      sig : {"none", "term", "kill"}]]
               /\ port # None => proc'[port].is = "serve"
               /\ \A p \in Pids : Live(p)' => Live(p)
    BY <1>1, <2>2 DEF Adopt!RecordInv, Adopt!CallsTyped, Adopt!TypeOK, Live, Adopt!Running, Adopt!Dead, Adopt!Free
  <2> QED BY <2>1, <2>2
<1>4. Adopt!TypeOK'
  BY <1>1, <1>2, <1>3 DEF Adopt!RecordInv, Adopt!CallsTyped, Adopt!TypeOK, Calls
<1>5. forgot' \/ \A q \in Pids : Live(q)' =>
          CASE w.pc = "write" -> q = w.pid
            [] w.pc \in {"reap", "dead", "spawn", "clear", "clear2", "unlink", "stopped"} -> FALSE
            [] OTHER -> q = file'
  BY <1>3 DEF Fits
<1> QED BY <1>2, <1>3, <1>4, <1>5 DEF Live, Adopt!RecordInv, Adopt!CallsTyped, Calls, Fits

LEMMA WorkerFits ==
  ASSUME Adopt!SupervisorAssumption, Adopt!RecordInv
  PROVE  /\ act["worker"] \in Calls /\ Fits(act["worker"], file) /\ None \notin Pids
         /\ file \in Pids \cup {None} /\ report.pid \in Pids \cup {None}
<1>1. "worker" \in Adopt!Actors /\ None \notin Pids
  BY DEF Adopt!Actors, Adopt!SupervisorAssumption
<1> QED BY <1>1 DEF Live, Adopt!RecordInv, Adopt!CallsTyped, Adopt!TypeOK, Calls, Fits

\* A call that has answered.
LEMMA Answered == Adopt!Idle \in Calls /\ Adopt!Idle.pc = "idle"
  BY DEF Calls, Adopt!Idle, Adopt!Places

\* How the worker's call moves on.
LEMMA GoesTo ==
  ASSUME NEW q, NEW w, w = [act["worker"] EXCEPT !.pc = q], Adopt!Go("worker", q)
  PROVE  act' = [act EXCEPT !["worker"] = w]
  BY DEF Adopt!Go

LEMMA RecordRead ==
  ASSUME Adopt!SupervisorAssumption, Adopt!RecordInv, Adopt!ReadState("worker")
  PROVE  Adopt!RecordInv'
<1>0. /\ act["worker"] \in Calls /\ Fits(act["worker"], file) /\ None \notin Pids
      /\ file \in Pids \cup {None} /\ report.pid \in Pids \cup {None}
  BY WorkerFits
<1>1. act["worker"].pc \in {"read", "read2"} /\ UNCHANGED <<proc, port, file, forgot>>
  BY DEF Adopt!ReadState, Adopt!counts
<1>2. CASE file = None /\ act["worker"].pc = "read"
  <2>1. PICK w \in Calls : w = [act["worker"] EXCEPT !.pc = "spawn"] /\ w.pc = "spawn"
    <3>1. PICK v : v = [act["worker"] EXCEPT !.pc = "spawn"]
      OBVIOUS
    <3>2. v \in Calls /\ v.pc = "spawn"
      BY <1>0, <3>1 DEF Calls, Adopt!Places
    <3> QED BY <3>1, <3>2
  <2>2. act' = [act EXCEPT !["worker"] = w] /\ report' = report
    <3>1. Adopt!Go("worker", "spawn") /\ report' = report
      BY <1>2 DEF Adopt!ReadState, Adopt!Stopped
    <3> QED BY <2>1, <3>1, GoesTo
  <2>3. Fits(w, file)
    BY <1>0, <1>2, <2>1 DEF Fits
  <2> QED BY <1>0, <1>1, <2>2, <2>3, RecordStep
<1>3. CASE file = None /\ act["worker"].pc = "read2"
  <2>1. act' = [act EXCEPT !["worker"] = Adopt!Idle] /\ report'.pid = None
    BY <1>3 DEF Adopt!ReadState, Adopt!Stopped
  <2>2. Adopt!Idle \in Calls /\ Adopt!Idle.pc = "idle"
    BY Answered
  <2>3. Fits(Adopt!Idle, file)
    BY <1>0, <1>3, <2>2 DEF Fits
  <2> QED BY <1>0, <1>1, <2>1, <2>2, <2>3, RecordStep
<1>4. CASE file # None
  <2>1. PICK q \in {"wait", "wait2"} : q = IF act["worker"].pc = "read" THEN "wait" ELSE "wait2"
    OBVIOUS
  <2>2. PICK w : w = [act["worker"] EXCEPT !.pid = file, !.pc = q]
    OBVIOUS
  <2>3. w \in Calls /\ w.pc = q /\ w.pid = file
    BY <1>0, <2>1, <2>2 DEF Calls, Adopt!Places
  <2>4. act' = [act EXCEPT !["worker"] = w] /\ report' = report
    BY <1>4, <2>1, <2>2 DEF Adopt!ReadState
  <2>5. Fits(w, file)
    BY <1>0, <1>1, <1>4, <2>1, <2>3 DEF Fits
  <2> QED BY <1>0, <1>1, <2>3, <2>4, <2>5, RecordStep
<1> QED BY <1>1, <1>2, <1>3, <1>4

LEMMA RecordClear ==
  ASSUME Adopt!SupervisorAssumption, Adopt!RecordInv, Adopt!ClearState("worker")
  PROVE  Adopt!RecordInv'
<1>0. /\ act["worker"] \in Calls /\ Fits(act["worker"], file) /\ None \notin Pids
      /\ file \in Pids \cup {None} /\ report.pid \in Pids \cup {None}
  BY WorkerFits
<1>1. act["worker"].pc \in {"clear", "clear2"} /\ file' = None /\ UNCHANGED <<proc, port, forgot>>
  BY DEF Adopt!ClearState, Adopt!counts
<1>2. CASE act["worker"].pc = "clear"
  <2>1. PICK w \in Calls : w = [act["worker"] EXCEPT !.pc = "spawn"] /\ w.pc = "spawn"
    <3>1. PICK v : v = [act["worker"] EXCEPT !.pc = "spawn"]
      OBVIOUS
    <3>2. v \in Calls /\ v.pc = "spawn"
      BY <1>0, <3>1 DEF Calls, Adopt!Places
    <3> QED BY <3>1, <3>2
  <2>2. act' = [act EXCEPT !["worker"] = w] /\ report' = report
    <3>1. Adopt!Go("worker", "spawn") /\ report' = report
      BY <1>2 DEF Adopt!ClearState, Adopt!Stopped
    <3> QED BY <2>1, <3>1, GoesTo
  <2>3. Fits(w, None)
    BY <1>0, <1>2, <2>1 DEF Fits
  <2> QED BY <1>0, <1>1, <2>2, <2>3, RecordStep
<1>3. CASE act["worker"].pc = "clear2"
  <2>1. act' = [act EXCEPT !["worker"] = Adopt!Idle] /\ report'.pid = None
    BY <1>3 DEF Adopt!ClearState, Adopt!Stopped
  <2>2. Adopt!Idle \in Calls /\ Adopt!Idle.pc = "idle"
    BY Answered
  <2>3. Fits(Adopt!Idle, None)
    BY <1>0, <1>3, <2>2 DEF Fits
  <2> QED BY <1>0, <1>1, <2>1, <2>2, <2>3, RecordStep
<1> QED BY <1>1, <1>2, <1>3

LEMMA RecordReap ==
  ASSUME Adopt!SupervisorAssumption, Adopt!RecordInv, Adopt!Reap("worker")
  PROVE  Adopt!RecordInv'
<1>0. /\ act["worker"] \in Calls /\ Fits(act["worker"], file) /\ None \notin Pids
      /\ file \in Pids \cup {None} /\ report.pid \in Pids \cup {None}
  BY WorkerFits
<1>1. act["worker"].pc \in {"wait", "wait2"} /\ UNCHANGED <<port, file, report, forgot>>
  BY DEF Adopt!Reap, Adopt!counts
<1>2. act["worker"].pid = file /\ file \in Pids /\ (forgot \/ \A p \in Pids : Live(p) => p = file)
  BY <1>0, <1>1 DEF Fits
<1>3. CASE Adopt!Dead(file)
  <2>1. PICK q \in {"clear", "clear2"} : q = IF act["worker"].pc = "wait" THEN "clear" ELSE "clear2"
    OBVIOUS
  <2>2. PICK w \in Calls : w = [act["worker"] EXCEPT !.pc = q] /\ w.pc = q
    <3>1. PICK v : v = [act["worker"] EXCEPT !.pc = q]
      OBVIOUS
    <3>2. v \in Calls /\ v.pc = q
      BY <1>0, <2>1, <3>1 DEF Calls, Adopt!Places
    <3> QED BY <3>1, <3>2
  <2>3. act' = [act EXCEPT !["worker"] = w] /\ proc' = [proc EXCEPT ![file] = Adopt!Free]
    <3>1. Adopt!Go("worker", q) /\ proc' = [proc EXCEPT ![file] = Adopt!Free]
      BY <1>2, <1>3, <2>1 DEF Adopt!Reap
    <3> QED BY <2>2, <3>1, GoesTo
  <2>4. Fits(w, file)
    BY <1>2, <1>3, <2>1, <2>2 DEF Fits, Adopt!Dead, Live, Adopt!Running
  <2> QED BY <1>0, <1>1, <1>2, <1>3, <2>3, <2>4, RecordStep
<1>4. CASE ~Adopt!Dead(file)
  <2>1. PICK q \in {"alive", "alive2"} : q = IF act["worker"].pc = "wait" THEN "alive" ELSE "alive2"
    OBVIOUS
  <2>2. PICK w \in Calls : w = [act["worker"] EXCEPT !.pc = q] /\ w.pc = q /\ w.pid = act["worker"].pid
    <3>1. PICK v : v = [act["worker"] EXCEPT !.pc = q]
      OBVIOUS
    <3>2. v \in Calls /\ v.pc = q /\ v.pid = act["worker"].pid
      BY <1>0, <2>1, <3>1 DEF Calls, Adopt!Places
    <3> QED BY <3>1, <3>2
  <2>3. act' = [act EXCEPT !["worker"] = w] /\ proc' = proc
    <3>1. Adopt!Go("worker", q) /\ proc' = proc
      BY <1>2, <1>4, <2>1 DEF Adopt!Reap
    <3> QED BY <2>2, <3>1, GoesTo
  <2>4. Fits(w, file)
    BY <1>0, <1>2, <2>1, <2>2 DEF Fits
  <2> QED BY <1>0, <1>1, <2>3, <2>4, RecordStep
<1> QED BY <1>3, <1>4

LEMMA RecordAlive ==
  ASSUME Adopt!SupervisorAssumption, Adopt!RecordInv, Adopt!Alive("worker")
  PROVE  Adopt!RecordInv'
<1>0. /\ act["worker"] \in Calls /\ Fits(act["worker"], file) /\ None \notin Pids
      /\ file \in Pids \cup {None} /\ report.pid \in Pids \cup {None}
  BY WorkerFits
<1>1. act["worker"].pc \in {"alive", "alive2"} /\ UNCHANGED <<proc, port, file, forgot>>
  BY DEF Adopt!Alive, Adopt!counts
<1>2. act["worker"].pid = file /\ file \in Pids /\ (forgot \/ \A p \in Pids : Live(p) => p = file)
  BY <1>0, <1>1 DEF Fits
<1>3. PICK q \in {"clear", "clear2"} : q = IF act["worker"].pc = "alive" THEN "clear" ELSE "clear2"
  OBVIOUS
<1>4. PICK alive \in Adopt!PidAlive(act["worker"].pid) :
          \/ ~alive /\ Adopt!Go("worker", q) /\ UNCHANGED report
          \/ /\ alive /\ act' = [act EXCEPT !["worker"] = Adopt!Idle]
             /\ report'.pid = act["worker"].pid
  BY <1>3 DEF Adopt!Alive
<1>5. CASE ~alive /\ Adopt!Go("worker", q) /\ UNCHANGED report
  <2>1. PICK w \in Calls : w = [act["worker"] EXCEPT !.pc = q] /\ w.pc = q
    <3>1. PICK v : v = [act["worker"] EXCEPT !.pc = q]
      OBVIOUS
    <3>2. v \in Calls /\ v.pc = q
      BY <1>0, <1>3, <3>1 DEF Calls, Adopt!Places
    <3> QED BY <3>1, <3>2
  <2>2. act' = [act EXCEPT !["worker"] = w]
    BY <1>5, <2>1, GoesTo
  <2>3. ~Live(file)
    BY <1>2, <1>4, <1>5 DEF Adopt!PidAlive, Live, Adopt!Running
  <2>4. Fits(w, file)
    BY <1>2, <1>3, <2>1, <2>3 DEF Fits
  <2> QED BY <1>0, <1>1, <1>5, <2>2, <2>4, RecordStep
<1>6. CASE /\ act' = [act EXCEPT !["worker"] = Adopt!Idle] /\ report'.pid = act["worker"].pid
  <2>3. Adopt!Idle \in Calls /\ Adopt!Idle.pc = "idle"
    BY Answered
  <2>4. Fits(Adopt!Idle, file)
    BY <1>2, <2>3 DEF Fits
  <2> QED BY <1>0, <1>1, <1>2, <1>6, <2>3, <2>4, RecordStep
<1> QED BY <1>4, <1>5, <1>6

LEMMA RecordSpawn ==
  ASSUME Adopt!SupervisorAssumption, Adopt!RecordInv, Adopt!Spawn
  PROVE  Adopt!RecordInv'
<1>0. /\ act["worker"] \in Calls /\ Fits(act["worker"], file) /\ None \notin Pids
      /\ file \in Pids \cup {None} /\ report.pid \in Pids \cup {None}
  BY WorkerFits
<1>1. act["worker"].pc = "spawn" /\ UNCHANGED <<port, file, report, forgot>>
  BY DEF Adopt!Spawn
<1>2. PICK p \in Pids : /\ proc[p].is = "free"
                        /\ proc' = [proc EXCEPT ![p] = [is |-> "boot", child |-> TRUE, sig |-> "none"]]
                        /\ act' = [act EXCEPT !["worker"].pc = "write", !["worker"].pid = p]
  BY DEF Adopt!Spawn
<1>3. Adopt!Actors = {"worker"} /\ act \in [Adopt!Actors -> Calls]
  BY DEF Adopt!Actors, Adopt!RecordInv, Adopt!CallsTyped, Calls
<1>4. act' \in [Adopt!Actors -> Calls] /\ act'["worker"].pc = "write" /\ act'["worker"].pid = p
  <2>1. PICK w : w = [act["worker"] EXCEPT !.pc = "write", !.pid = p]
    OBVIOUS
  <2>2. w \in Calls /\ w.pc = "write" /\ w.pid = p
    BY <1>0, <2>1 DEF Calls, Adopt!Places
  <2>3. act' = [act EXCEPT !["worker"] = w]
    BY <1>2, <2>1
  <2> QED BY <1>3, <2>2, <2>3
<1>5. /\ proc' \in [Pids -> [is : {"free", "boot", "serve", "zombie", "other"}, child : BOOLEAN,
                             sig : {"none", "term", "kill"}]]
      /\ port # None => proc'[port].is = "serve"
      /\ forgot \/ \A q \in Pids : Live(q)' => q = p
  BY <1>0, <1>1, <1>2 DEF Adopt!RecordInv, Adopt!CallsTyped, Adopt!TypeOK, Live, Adopt!Running, Fits
<1>6. Adopt!TypeOK'
  BY <1>0, <1>1, <1>3, <1>4, <1>5 DEF Adopt!TypeOK, Calls, Adopt!RecordInv, Adopt!CallsTyped
<1> QED BY <1>1, <1>4, <1>5, <1>6 DEF Adopt!RecordInv, Adopt!CallsTyped, Calls, Live

LEMMA RecordAwait ==
  ASSUME Adopt!SupervisorAssumption, Adopt!RecordInv, Adopt!AwaitHealth
  PROVE  Adopt!RecordInv'
<1>0. /\ act["worker"] \in Calls /\ Fits(act["worker"], file) /\ None \notin Pids
      /\ file \in Pids \cup {None} /\ report.pid \in Pids \cup {None}
  BY WorkerFits
<1>1. act["worker"].pc = "await" /\ UNCHANGED <<proc, port, file, report, forgot>>
  BY DEF Adopt!AwaitHealth, Adopt!counts
<1>2. PICK ok \in BOOLEAN : act' = [act EXCEPT !["worker"].pc = "read2", !["worker"].healthy = ok]
  BY DEF Adopt!AwaitHealth
<1>3. PICK w : w = [act["worker"] EXCEPT !.pc = "read2", !.healthy = ok]
  OBVIOUS
<1>4. w \in Calls /\ w.pc = "read2"
  BY <1>0, <1>3 DEF Calls, Adopt!Places
<1>5. act' = [act EXCEPT !["worker"] = w]
  BY <1>2, <1>3
<1>6. Fits(w, file)
  BY <1>0, <1>1, <1>4 DEF Fits
<1> QED BY <1>0, <1>1, <1>4, <1>5, <1>6, RecordStep

LEMMA RecordReapStopped ==
  ASSUME Adopt!SupervisorAssumption, Adopt!RecordInv, Adopt!ReapStopped
  PROVE  Adopt!RecordInv'
<1>0. /\ act["worker"] \in Calls /\ Fits(act["worker"], file) /\ None \notin Pids
      /\ file \in Pids \cup {None} /\ report.pid \in Pids \cup {None}
  BY WorkerFits
<1>1. act["worker"].pc \in {"reap", "dead"} /\ UNCHANGED <<port, file, report, forgot>>
  BY DEF Adopt!ReapStopped, Adopt!counts
<1>2. act["worker"].pid = file /\ file \in Pids /\ (forgot \/ \A p \in Pids : ~Live(p))
  BY <1>0, <1>1 DEF Fits
<1>3. PICK w \in Calls : w = [act["worker"] EXCEPT !.pc = "unlink"] /\ w.pc = "unlink"
  <2>1. PICK v : v = [act["worker"] EXCEPT !.pc = "unlink"]
    OBVIOUS
  <2>2. v \in Calls /\ v.pc = "unlink"
    BY <1>0, <2>1 DEF Calls, Adopt!Places
  <2> QED BY <2>1, <2>2
<1>4. /\ act' = [act EXCEPT !["worker"] = w]
      /\ \/ Adopt!Dead(file) /\ proc' = [proc EXCEPT ![file] = Adopt!Free]
         \/ ~proc[file].child /\ proc' = proc
  <2>1. /\ Adopt!Go("worker", "unlink")
        /\ \/ Adopt!Dead(file) /\ proc' = [proc EXCEPT ![file] = Adopt!Free]
           \/ ~proc[file].child /\ proc' = proc
    BY <1>2 DEF Adopt!ReapStopped
  <2> QED BY <1>3, <2>1, GoesTo
<1>5. Fits(w, file)
  BY <1>2, <1>3 DEF Fits
<1> QED BY <1>0, <1>1, <1>2, <1>4, <1>5, RecordStep

LEMMA RecordStopDone ==
  ASSUME Adopt!SupervisorAssumption, Adopt!RecordInv, Adopt!StopDone
  PROVE  Adopt!RecordInv'
<1>0. /\ act["worker"] \in Calls /\ Fits(act["worker"], file) /\ None \notin Pids
      /\ file \in Pids \cup {None} /\ report.pid \in Pids \cup {None}
  BY WorkerFits
<1>1. act["worker"].pc = "stopped" /\ UNCHANGED <<proc, port, file, report, forgot>>
  BY DEF Adopt!StopDone, Adopt!counts
<1>2. PICK w : w = IF act["worker"].op = "restart" THEN [act["worker"] EXCEPT !.pc = "read", !.pid = None] ELSE Adopt!Idle
  OBVIOUS
<1>3. w \in Calls /\ w.pc \in {"read", "idle"}
  BY <1>0, <1>2 DEF Calls, Adopt!Places, Adopt!Idle
<1>4. act' = [act EXCEPT !["worker"] = w]
  BY <1>2 DEF Adopt!StopDone
<1>5. Fits(w, file)
  BY <1>0, <1>1, <1>3 DEF Fits
<1> QED BY <1>0, <1>1, <1>3, <1>4, <1>5, RecordStep

LEMMA RecordBind ==
  ASSUME Adopt!SupervisorAssumption, Adopt!RecordInv, NEW p \in Pids, Adopt!Bind(p)
  PROVE  Adopt!RecordInv'
<1>1. UNCHANGED <<file, act, report, forgot>> /\ None \notin Pids /\ proc[p].is = "boot"
  BY DEF Adopt!Bind, Adopt!SupervisorAssumption
<1>2. /\ proc' \in [Pids -> [is : {"free", "boot", "serve", "zombie", "other"}, child : BOOLEAN,
                             sig : {"none", "term", "kill"}]]
      /\ port' \in Pids \cup {None} /\ (port' # None => proc'[port'].is = "serve")
      /\ \A q \in Pids : Live(q)' => Live(q)
  <2>1. CASE port = None
    BY <1>1, <2>1 DEF Adopt!Bind, Adopt!RecordInv, Adopt!TypeOK, Live, Adopt!Running
  <2>2. CASE port # None
    <3>1. Adopt!Gone(p) /\ port # p
      BY <1>1, <2>2 DEF Adopt!Bind, Adopt!RecordInv, Adopt!TypeOK
    <3> QED BY <1>1, <2>2, <3>1 DEF Adopt!Gone, Adopt!Free, Adopt!RecordInv, Adopt!TypeOK, Live, Adopt!Running
  <2> QED BY <2>1, <2>2
<1>3. Adopt!TypeOK' /\ Adopt!CallsTyped'
  BY <1>1, <1>2 DEF Adopt!RecordInv, Adopt!TypeOK, Adopt!CallsTyped
<1> QED BY <1>1, <1>2, <1>3 DEF Adopt!RecordInv, Live

LEMMA RecordRestart ==
  ASSUME Adopt!SupervisorAssumption, Adopt!RecordInv, Adopt!AdminRestart
  PROVE  Adopt!RecordInv'
<1>0. None \notin Pids /\ Adopt!Actors = {"worker"}
  BY DEF Adopt!SupervisorAssumption, Adopt!Actors
<1>1. UNCHANGED <<port, file, report>> /\ forgot' = (forgot \/ act["worker"].pc = "write") /\ forgot' \in BOOLEAN
  BY DEF Adopt!AdminRestart, Adopt!RecordInv
<1>2. act' = [a \in {"worker"} |-> Adopt!Idle]
  BY <1>0 DEF Adopt!AdminRestart
<1>3. act' \in [Adopt!Actors -> Calls] /\ act'["worker"].pc = "idle"
  BY <1>0, <1>2, Answered
<1>4. /\ proc' \in [Pids -> [is : {"free", "boot", "serve", "zombie", "other"}, child : BOOLEAN,
                             sig : {"none", "term", "kill"}]]
      /\ port # None => proc'[port].is = "serve"
      /\ \A q \in Pids : Live(q)' => Live(q)
  BY DEF Adopt!AdminRestart, Adopt!Free, Adopt!RecordInv, Adopt!TypeOK, Live, Adopt!Running
<1>5. Adopt!TypeOK' /\ Adopt!CallsTyped'
  BY <1>0, <1>1, <1>3, <1>4 DEF Adopt!RecordInv, Adopt!TypeOK, Adopt!CallsTyped, Calls
<1>6. forgot' \/ \A q \in Pids : Live(q) => q = file
  BY <1>1 DEF Adopt!RecordInv, Live
<1> QED BY <1>1, <1>3, <1>4, <1>5, <1>6 DEF Adopt!RecordInv, Live

\* "If ps fails the pid is left alone and forgotten": only then does a broker go unrecorded.
LEMMA RecordIsBroker ==
  ASSUME Adopt!SupervisorAssumption, Adopt!RecordInv, Adopt!IsBroker
  PROVE  Adopt!RecordInv'
<1>0. /\ act["worker"] \in Calls /\ Fits(act["worker"], file) /\ None \notin Pids
      /\ file \in Pids \cup {None} /\ report.pid \in Pids \cup {None}
  BY WorkerFits
<1>1. act["worker"].pc = "check" /\ UNCHANGED <<proc, port, file, report>>
  BY DEF Adopt!IsBroker
<1>2. act["worker"].pid = file /\ file \in Pids /\ (forgot \/ \A p \in Pids : Live(p) => p = file)
  BY <1>0, <1>1 DEF Fits
<1>3. PICK q \in {"term", "unlink"} :
          /\ Adopt!Go("worker", q)
          /\ \/ q = "unlink" /\ ~Adopt!Running(file) /\ forgot' = forgot
             \/ q = "unlink" /\ forgot' = (forgot \/ Adopt!Running(file))
             \/ q = "term" /\ forgot' = forgot
  BY <1>2 DEF Adopt!IsBroker
<1>4. PICK w \in Calls : w = [act["worker"] EXCEPT !.pc = q] /\ w.pc = q /\ w.pid = file
  <2>1. PICK v : v = [act["worker"] EXCEPT !.pc = q]
    OBVIOUS
  <2>2. v \in Calls /\ v.pc = q /\ v.pid = file
    BY <1>0, <1>2, <1>3, <2>1 DEF Calls, Adopt!Places
  <2> QED BY <2>1, <2>2
<1>5. act' = [act EXCEPT !["worker"] = w]
  BY <1>3, <1>4, GoesTo
<1>6. Adopt!Actors = {"worker"} /\ act \in [Adopt!Actors -> Calls]
  BY DEF Adopt!Actors, Adopt!RecordInv, Adopt!CallsTyped, Calls
<1>7. act' \in [Adopt!Actors -> Calls] /\ act'["worker"] = w
  BY <1>4, <1>5, <1>6
<1>8. forgot' \in BOOLEAN /\ (forgot' \/ \A p \in Pids : Live(p) => p = file /\ q = "term")
  <2>1. forgot \in BOOLEAN /\ Adopt!Running(file) \in BOOLEAN
    BY DEF Adopt!RecordInv, Adopt!Running
  <2>2. forgot' \in BOOLEAN
    BY <1>3, <2>1, Zenon
  <2>3. CASE Live(file)
    BY <1>2, <1>3, <2>1, <2>3 DEF Live
  <2>4. CASE ~Live(file)
    <3>1. forgot => forgot'
      BY <1>3, <2>1, Zenon
    <3> QED BY <1>2, <2>2, <2>4, <3>1
  <2> QED BY <2>2, <2>3, <2>4
<1>9. Adopt!TypeOK' /\ Adopt!CallsTyped' /\ \A p \in Pids : Live(p)' <=> Live(p)
  BY <1>1, <1>6, <1>7, SMTT(60) DEF Adopt!RecordInv, Adopt!TypeOK, Adopt!CallsTyped, Calls, Live, Adopt!Running
<1> QED BY <1>1, <1>2, <1>3, <1>4, <1>7, <1>8, <1>9 DEF Adopt!RecordInv, Live

LEMMA RecordNext ==
  ASSUME Adopt!SupervisorAssumption, Adopt!RecordInv, [Adopt!Next]_(Adopt!vars)
  PROVE  Adopt!RecordInv'
<1>0. None \notin Pids /\ Adopt!Actors = {"worker"}
  BY DEF Adopt!SupervisorAssumption, Adopt!Actors
<1> USE <1>0 DEF Adopt!RecordInv, Adopt!CallsTyped, Adopt!TypeOK, Live, Adopt!Running, Adopt!Places, Adopt!counts
<1>1. ASSUME NEW p \in Pids, Adopt!Bind(p) PROVE Adopt!RecordInv'
  BY <1>1, RecordBind
<1>2. ASSUME NEW p \in Pids, Adopt!Exit(p) PROVE Adopt!RecordInv'
  BY <1>2 DEF Adopt!Exit, Adopt!Gone, Adopt!Free
<1>3. ASSUME NEW p \in Pids, Adopt!Reuse(p) PROVE Adopt!RecordInv'
  BY <1>3 DEF Adopt!Reuse
<1>4. ASSUME Adopt!AdminRestart PROVE Adopt!RecordInv'
  BY <1>4, RecordRestart
<1>5. ASSUME NEW op \in {"start", "stop", "restart"}, Adopt!Request(op) PROVE Adopt!RecordInv'
  BY <1>5, ZenonT(60) DEF Adopt!Request, Adopt!Idle
<1>6. CASE Adopt!ReadState("worker")
  BY <1>6, RecordRead
<1>7. CASE Adopt!Reap("worker")
  BY <1>7, RecordReap
<1>8. CASE Adopt!Alive("worker")
  BY <1>8, RecordAlive
<1>9. CASE Adopt!ClearState("worker")
  BY <1>9, RecordClear
<1>10. CASE Adopt!Spawn
  BY <1>10, RecordSpawn
<1>11. CASE Adopt!WriteState
  BY <1>11 DEF Adopt!WriteState, Adopt!Go
<1>12. CASE Adopt!AwaitHealth
  BY <1>12, RecordAwait
<1>13. CASE Adopt!StopRead
  BY <1>13 DEF Adopt!StopRead
<1>14. CASE Adopt!IsBroker
  BY <1>14, RecordIsBroker
<1>15. CASE Adopt!Terminate
  BY <1>15, SMTT(60) DEF Adopt!Terminate, Adopt!Signal, Adopt!Go
<1>16. CASE Adopt!ReapStopped
  BY <1>16, RecordReapStopped
<1>17. CASE Adopt!Escalate
  BY <1>17 DEF Adopt!Escalate, Adopt!Signal, Adopt!Dead, Adopt!Go
<1>18. CASE Adopt!Unlink
  BY <1>18 DEF Adopt!Unlink, Adopt!Go
<1>19. CASE Adopt!StopDone
  BY <1>19, RecordStopDone
<1>20. CASE UNCHANGED Adopt!vars
  BY <1>20 DEF Adopt!vars
<1>21. Adopt!Poll => FALSE
  BY DEF Adopt!Poll
<1> QED BY <1>1, <1>2, <1>3, <1>4, <1>5, <1>6, <1>7, <1>8, <1>9, <1>10, <1>11, <1>12, <1>13, <1>14,
           <1>15, <1>16, <1>17, <1>18, <1>19, <1>20, <1>21 DEF Adopt!Next, Adopt!Worker, Adopt!Status

LEMMA RecordKeeps == ASSUME Adopt!RecordInv PROVE Adopt!Recorded
  BY DEF Adopt!RecordInv, Adopt!Recorded

-----------------------------------------------------------------------------
(* The supervisor with pages: no signal to a process that is no broker *)

LEMMA SignalInit == ASSUME Polled!SupervisorAssumption, Polled!Init PROVE Polled!SignalInv
  BY DEF Polled!SupervisorAssumption, Polled!Init, Polled!SignalInv, Polled!CallsTyped, Polled!TypeOK, Polled!Actors,
     Polled!Free, Polled!Idle, Polled!NoReport, Polled!Places, Polled!NoForeignSignal

PollCalls == [op : {"none", "start", "stop", "restart"}, pc : Polled!Places, pid : PollPids \cup {None}, healthy : BOOLEAN]
Procs == [is : {"free", "boot", "serve", "zombie", "other"}, child : BOOLEAN, sig : {"none", "term", "kill"}]
Signalling == {"check", "term", "reap", "dead"}

\* What is asked of a step of actor a, which goes on to its call w: the processes stay
\* typed, none becomes another's while the worker is about to signal it, and only a call that
\* has the pid of a broker comes to a signal.
LEMMA SignalStep ==
  ASSUME Polled!SupervisorAssumption, Polled!SignalInv,
         NEW a \in Polled!Actors, NEW w \in PollCalls, act' = [act EXCEPT ![a] = w],
         proc' \in [PollPids -> Procs], port' \in PollPids \cup {None}, port' # None => proc'[port'].is = "serve",
         file' \in PollPids \cup {None}, report'.pid \in PollPids \cup {None}, foreign' => foreign,
         \A p \in PollPids : proc'[p].is = "other" => proc[p].is = "other",
         a = "worker" /\ w.pc \in Signalling => w.pid \in PollPids /\ (w.pc # "check" => proc'[w.pid].is # "other")
  PROVE  Polled!SignalInv'
<1>1. Polled!Actors = {"worker", "loop"} /\ act \in [Polled!Actors -> PollCalls]
  BY DEF Polled!Actors, Polled!SignalInv, Polled!CallsTyped, PollCalls
<1>2. act' \in [Polled!Actors -> PollCalls] /\ act'[a] = w /\ (a # "worker" => act'["worker"] = act["worker"])
  BY <1>1
<1>3. Polled!TypeOK' /\ Polled!CallsTyped' /\ Polled!NoForeignSignal'
  BY <1>1, <1>2 DEF Polled!SignalInv, Polled!TypeOK, Polled!CallsTyped, Polled!NoForeignSignal, PollCalls, Procs
<1>4. ASSUME act'["worker"].pc \in Signalling
      PROVE  /\ act'["worker"].pid \in PollPids
             /\ act'["worker"].pc # "check" => proc'[act'["worker"].pid].is # "other"
  <2>1. CASE a = "worker"
    BY <1>2, <1>4, <2>1
  <2>2. CASE a # "worker"
    BY <1>2, <1>4, <2>2 DEF Polled!SignalInv, Signalling
  <2> QED BY <2>1, <2>2
<1> QED BY <1>3, <1>4 DEF Polled!SignalInv, Signalling

\* What is known before a step of actor a.
LEMMA SignalTyped ==
  ASSUME Polled!SupervisorAssumption, Polled!SignalInv
  PROVE  /\ Polled!Actors = {"worker", "loop"} /\ None \notin PollPids
         /\ \A a \in Polled!Actors : act[a] \in PollCalls
         /\ proc \in [PollPids -> Procs] /\ port \in PollPids \cup {None} /\ (port # None => proc[port].is = "serve")
         /\ file \in PollPids \cup {None} /\ report.pid \in PollPids \cup {None}
         /\ act["worker"].pc \in Signalling =>
            /\ act["worker"].pid \in PollPids
            /\ act["worker"].pc # "check" => proc[act["worker"].pid].is # "other"
  BY DEF Polled!SupervisorAssumption, Polled!Actors, Polled!SignalInv, Polled!TypeOK, Polled!CallsTyped, PollCalls,
     Procs, Signalling

\* A call that moves on, or that has answered.
LEMMA PollGoes ==
  ASSUME NEW a, act[a] \in PollCalls, NEW q \in Polled!Places, Polled!Go(a, q)
  PROVE  \E w \in PollCalls : act' = [act EXCEPT ![a] = w] /\ w.pc = q /\ w.pid = act[a].pid
<1>1. PICK w : w = [act[a] EXCEPT !.pc = q]
  OBVIOUS
<1>2. w \in PollCalls /\ w.pc = q /\ w.pid = act[a].pid
  BY <1>1 DEF PollCalls
<1>3. act' = [act EXCEPT ![a] = w]
  BY <1>1 DEF Polled!Go
<1> QED BY <1>2, <1>3

LEMMA PollAnswered == Polled!Idle \in PollCalls /\ Polled!Idle.pc = "idle"
  BY DEF PollCalls, Polled!Idle, Polled!Places

LEMMA PollStopped ==
  ASSUME Polled!SupervisorAssumption, Polled!SignalInv, NEW a \in Polled!Actors, Polled!Stopped(a)
  PROVE  /\ report'.pid \in PollPids \cup {None}
         /\ \E w \in PollCalls : act' = [act EXCEPT ![a] = w] /\ w.pc \notin Signalling
<1>1. CASE act' = [act EXCEPT ![a] = Polled!Idle] /\ UNCHANGED report
  BY <1>1, PollAnswered, SignalTyped DEF Signalling
<1>2. CASE Polled!Go(a, "spawn") /\ UNCHANGED report
  BY <1>2, PollGoes, SignalTyped DEF Signalling, Polled!Places
<1>3. CASE act' = [act EXCEPT ![a] = Polled!Idle] /\ report'.pid = None
  BY <1>3, PollAnswered, SignalTyped DEF Signalling
<1> QED BY <1>1, <1>2, <1>3 DEF Polled!Stopped

\* status(), whoever calls it, signals nobody and starts no process.
LEMMA SignalStatus ==
  ASSUME Polled!SupervisorAssumption, Polled!SignalInv, NEW a \in Polled!Actors, Polled!Status(a)
  PROVE  Polled!SignalInv'
<1>0. /\ None \notin PollPids /\ act[a] \in PollCalls /\ proc \in [PollPids -> Procs]
      /\ port \in PollPids \cup {None} /\ (port # None => proc[port].is = "serve")
      /\ file \in PollPids \cup {None} /\ report.pid \in PollPids \cup {None}
  BY SignalTyped
<1>1. CASE Polled!ReadState(a)
  <2>1. UNCHANGED <<proc, port, file, foreign>>
    BY <1>1 DEF Polled!ReadState
  <2>2. CASE file = None
    <3>1. Polled!Stopped(a)
      BY <1>1, <2>2 DEF Polled!ReadState
    <3> QED BY <1>0, <2>1, <3>1, PollStopped, SignalStep
  <2>3. CASE file # None
    <3>1. PICK q \in {"wait", "wait2"} : q = IF act[a].pc = "read" THEN "wait" ELSE "wait2"
      OBVIOUS
    <3>2. PICK w : w = [act[a] EXCEPT !.pid = file, !.pc = q]
      OBVIOUS
    <3>3. w \in PollCalls /\ w.pc = q
      BY <1>0, <3>1, <3>2 DEF PollCalls, Polled!Places
    <3>4. act' = [act EXCEPT ![a] = w] /\ report' = report
      BY <1>1, <2>3, <3>1, <3>2 DEF Polled!ReadState
    <3>5. w.pc \notin Signalling
      BY <3>1, <3>3 DEF Signalling
    <3> QED BY <1>0, <2>1, <3>3, <3>4, <3>5, SignalStep
  <2> QED BY <2>2, <2>3
<1>2. CASE Polled!Reap(a)
  <2>1. PICK p \in PollPids \cup {None} : p = act[a].pid
    BY <1>0 DEF PollCalls
  <2>2. PICK q \in {"clear", "clear2", "alive", "alive2"} : Polled!Go(a, q)
    BY <1>2 DEF Polled!Reap
  <2>3. PICK w \in PollCalls : act' = [act EXCEPT ![a] = w] /\ w.pc \notin Signalling
    BY <1>0, <2>2, PollGoes DEF Polled!Places, Signalling
  <2>4. UNCHANGED <<port, file, report, foreign>>
    BY <1>2 DEF Polled!Reap
  <2>5. \/ proc' = proc
        \/ Polled!Dead(p) /\ proc' = [proc EXCEPT ![p] = Polled!Free]
    BY <1>2, <2>1 DEF Polled!Reap
  <2>6. /\ proc' \in [PollPids -> Procs] /\ (port # None => proc'[port].is = "serve")
        /\ \A r \in PollPids : proc'[r].is = "other" => proc[r].is = "other"
    <3>1. CASE proc' = proc
      BY <1>0, <3>1
    <3>2. CASE Polled!Dead(p) /\ proc' = [proc EXCEPT ![p] = Polled!Free]
      BY <1>0, <3>2 DEF Polled!Dead, Polled!Free, Procs
    <3> QED BY <2>5, <3>1, <3>2
  <2> QED BY <1>0, <2>3, <2>4, <2>6, SignalStep
<1>3. CASE Polled!Alive(a)
  <2>1. UNCHANGED <<proc, port, file, foreign>>
    BY <1>3 DEF Polled!Alive
  <2>2. PICK q \in {"clear", "clear2"} : q = IF act[a].pc = "alive" THEN "clear" ELSE "clear2"
    OBVIOUS
  <2>3. \/ Polled!Go(a, q) /\ UNCHANGED report
        \/ act' = [act EXCEPT ![a] = Polled!Idle] /\ report'.pid \in PollPids \cup {None}
    BY <1>0, <1>3, <2>2 DEF Polled!Alive, PollCalls
  <2>4. CASE Polled!Go(a, q) /\ UNCHANGED report
    <3>1. PICK w \in PollCalls : act' = [act EXCEPT ![a] = w] /\ w.pc \notin Signalling
      BY <1>0, <2>2, <2>4, PollGoes DEF Polled!Places, Signalling
    <3> QED BY <1>0, <2>1, <2>4, <3>1, SignalStep
  <2>5. CASE act' = [act EXCEPT ![a] = Polled!Idle] /\ report'.pid \in PollPids \cup {None}
    BY <1>0, <2>1, <2>5, PollAnswered, SignalStep DEF Signalling
  <2> QED BY <2>3, <2>4, <2>5
<1>4. CASE Polled!ClearState(a)
  <2>1. file' = None /\ UNCHANGED <<proc, port, foreign>> /\ Polled!Stopped(a)
    BY <1>4 DEF Polled!ClearState
  <2> QED BY <1>0, <2>1, PollStopped, SignalStep
<1> QED BY <1>1, <1>2, <1>3, <1>4 DEF Polled!Status

\* Processes come and go, the admin app dies, a call is made.
LEMMA SignalOutside ==
  ASSUME Polled!SupervisorAssumption, Polled!SignalInv,
         \/ \E p \in PollPids : Polled!Bind(p) \/ Polled!Exit(p) \/ Polled!Reuse(p)
         \/ Polled!AdminRestart \/ Polled!Poll \/ UNCHANGED Polled!vars
         \/ \E op \in {"start", "stop", "restart"} : Polled!Request(op)
  PROVE  Polled!SignalInv'
<1>0. /\ Polled!Actors = {"worker", "loop"} /\ None \notin PollPids /\ proc \in [PollPids -> Procs]
      /\ port \in PollPids \cup {None} /\ (port # None => proc[port].is = "serve")
      /\ file \in PollPids \cup {None} /\ report.pid \in PollPids \cup {None}
      /\ act["worker"].pc \in Signalling =>
            /\ act["worker"].pid \in PollPids
            /\ act["worker"].pc # "check" => proc[act["worker"].pid].is # "other"
      /\ act \in [Polled!Actors -> PollCalls]
  BY SignalTyped DEF Polled!SignalInv, Polled!CallsTyped, PollCalls
<1>1. ASSUME NEW p \in PollPids, Polled!Gone(p), UNCHANGED <<file, act, report, foreign>>, Polled!Running(p)
      PROVE  Polled!SignalInv'
  <2>1. /\ proc' \in [PollPids -> Procs] /\ port' \in PollPids \cup {None} /\ (port' # None => proc'[port'].is = "serve")
        /\ \A q \in PollPids : proc'[q].is = "other" => proc[q].is = "other"
    BY <1>0, <1>1 DEF Polled!Gone, Polled!Free, Polled!Running, Procs
  <2> QED BY <1>0, <1>1, <2>1 DEF Polled!SignalInv, Polled!TypeOK, Polled!CallsTyped, Polled!NoForeignSignal,
             Signalling, Procs, PollCalls
<1>2. ASSUME NEW p \in PollPids, Polled!Bind(p) PROVE Polled!SignalInv'
  <2>1. CASE port = None
    <3>1. proc' = [proc EXCEPT ![p].is = "serve"] /\ port' = p /\ UNCHANGED <<file, act, report, foreign>>
      BY <1>2, <2>1 DEF Polled!Bind
    <3>2. /\ proc' \in [PollPids -> Procs] /\ proc'[port'].is = "serve"
          /\ \A q \in PollPids : proc'[q].is = "other" => proc[q].is = "other"
      BY <1>0, <1>2, <3>1 DEF Procs
    <3>3. Polled!TypeOK' /\ Polled!CallsTyped' /\ Polled!NoForeignSignal'
      BY <1>0, <3>1, <3>2 DEF Polled!SignalInv, Polled!TypeOK, Polled!CallsTyped, Polled!NoForeignSignal,
         Procs, PollCalls
    <3> QED BY <1>0, <3>1, <3>2, <3>3 DEF Polled!SignalInv, Signalling
  <2>2. CASE port # None
    BY <1>1, <1>2, <2>2 DEF Polled!Bind, Polled!Running
  <2> QED BY <2>1, <2>2
<1>3. ASSUME NEW p \in PollPids, Polled!Exit(p) PROVE Polled!SignalInv'
  BY <1>1, <1>3 DEF Polled!Exit
<1>4. ASSUME NEW p \in PollPids, Polled!Reuse(p) PROVE Polled!SignalInv'
  <2>1. proc' = [proc EXCEPT ![p].is = "other"] /\ proc[p].is = "free" /\ act["worker"].pc = "idle"
        /\ UNCHANGED <<port, file, act, report, foreign>>
    BY <1>0, <1>4 DEF Polled!Reuse
  <2>2. proc' \in [PollPids -> Procs] /\ (port # None => proc'[port].is = "serve")
    BY <1>0, <2>1 DEF Procs
  <2> QED BY <1>0, <2>1, <2>2 DEF Polled!SignalInv, Polled!TypeOK, Polled!CallsTyped, Polled!NoForeignSignal,
             Procs, PollCalls
<1>5. CASE Polled!AdminRestart
  <2>1. /\ proc' = [p \in PollPids |-> IF proc[p].is = "zombie" THEN Polled!Free ELSE [proc[p] EXCEPT !.child = FALSE]]
        /\ act' = [a \in Polled!Actors |-> Polled!Idle] /\ UNCHANGED <<port, file, report, foreign>>
    BY <1>5 DEF Polled!AdminRestart
  <2>2. proc' \in [PollPids -> Procs] /\ (port # None => proc'[port].is = "serve")
    BY <1>0, <2>1 DEF Procs, Polled!Free
  <2>3. act' \in [Polled!Actors -> PollCalls] /\ act'["worker"].pc = "idle"
    BY <1>0, <2>1, PollAnswered
  <2> QED BY <1>0, <2>1, <2>2, <2>3 DEF Polled!SignalInv, Polled!TypeOK, Polled!CallsTyped, Polled!NoForeignSignal,
             Procs, PollCalls
<1>6. CASE Polled!Poll
  <2>1. PICK w : w = [Polled!Idle EXCEPT !.pc = "read"]
    OBVIOUS
  <2>2. w \in PollCalls /\ w.pc = "read"
    BY <2>1 DEF PollCalls, Polled!Idle, Polled!Places
  <2>3. act' = [act EXCEPT !["loop"] = w] /\ UNCHANGED <<proc, port, file, report, foreign>>
    BY <1>6, <2>1 DEF Polled!Poll
  <2> QED BY <1>0, <2>2, <2>3, SignalStep DEF Signalling
<1>7. ASSUME NEW op \in {"start", "stop", "restart"}, Polled!Request(op) PROVE Polled!SignalInv'
  <2>1. PICK q \in {"read", "stop"} : q = IF op = "start" THEN "read" ELSE "stop"
    OBVIOUS
  <2>2. PICK w : w = [Polled!Idle EXCEPT !.op = op, !.pc = q]
    OBVIOUS
  <2>3. w \in PollCalls /\ w.pc = q
    BY <1>7, <2>1, <2>2 DEF PollCalls, Polled!Idle, Polled!Places
  <2>4. act' = [act EXCEPT !["worker"] = w] /\ UNCHANGED <<proc, port, file, report, foreign>>
    BY <1>7, <2>1, <2>2 DEF Polled!Request
  <2>5. w.pc \notin Signalling
    BY <2>1, <2>3 DEF Signalling
  <2> QED BY <1>0, <2>3, <2>4, <2>5, SignalStep
<1>8. CASE UNCHANGED Polled!vars
  BY <1>8 DEF Polled!vars, Polled!SignalInv, Polled!TypeOK, Polled!CallsTyped, Polled!NoForeignSignal
<1> QED BY <1>2, <1>3, <1>4, <1>5, <1>6, <1>7, <1>8

LEMMA SignalWorker ==
  ASSUME Polled!SupervisorAssumption, Polled!SignalInv,
         \/ Polled!Spawn \/ Polled!WriteState \/ Polled!AwaitHealth \/ Polled!StopRead \/ Polled!IsBroker
         \/ Polled!ReapStopped \/ Polled!Unlink \/ Polled!StopDone
  PROVE  Polled!SignalInv'
<1>0. /\ None \notin PollPids /\ proc \in [PollPids -> Procs] /\ "worker" \in Polled!Actors /\ act["worker"] \in PollCalls
      /\ port \in PollPids \cup {None} /\ (port # None => proc[port].is = "serve")
      /\ file \in PollPids \cup {None} /\ report.pid \in PollPids \cup {None}
      /\ act["worker"].pc \in Signalling =>
            /\ act["worker"].pid \in PollPids
            /\ act["worker"].pc # "check" => proc[act["worker"].pid].is # "other"
  BY SignalTyped
<1>1. CASE Polled!Spawn
  <2>1. PICK p \in PollPids : /\ proc[p].is = "free"
                            /\ proc' = [proc EXCEPT ![p] = [is |-> "boot", child |-> TRUE, sig |-> "none"]]
                            /\ act' = [act EXCEPT !["worker"].pc = "write", !["worker"].pid = p]
    BY <1>1 DEF Polled!Spawn
  <2>2. UNCHANGED <<port, file, report, foreign>>
    BY <1>1 DEF Polled!Spawn
  <2>3. PICK w : w = [act["worker"] EXCEPT !.pc = "write", !.pid = p]
    OBVIOUS
  <2>4. w \in PollCalls /\ w.pc \notin Signalling
    BY <1>0, <2>3 DEF PollCalls, Polled!Places, Signalling
  <2>5. act' = [act EXCEPT !["worker"] = w]
    BY <2>1, <2>3
  <2>6. /\ proc' \in [PollPids -> Procs] /\ (port # None => proc'[port].is = "serve")
        /\ \A q \in PollPids : proc'[q].is = "other" => proc[q].is = "other"
    BY <1>0, <2>1 DEF Procs
  <2> QED BY <1>0, <2>2, <2>4, <2>5, <2>6, SignalStep
<1>2. CASE Polled!WriteState
  <2>1. /\ UNCHANGED <<proc, port, report, foreign>> /\ Polled!Go("worker", "await")
        /\ file' \in PollPids \cup {None}
    BY <1>0, <1>2 DEF Polled!WriteState, PollCalls
  <2>2. PICK w \in PollCalls : act' = [act EXCEPT !["worker"] = w] /\ w.pc \notin Signalling
    BY <1>0, <2>1, PollGoes DEF Polled!Places, Signalling
  <2> QED BY <1>0, <2>1, <2>2, SignalStep
<1>3. CASE Polled!AwaitHealth
  <2>1. PICK ok \in BOOLEAN : act' = [act EXCEPT !["worker"].pc = "read2", !["worker"].healthy = ok]
    BY <1>3 DEF Polled!AwaitHealth
  <2>2. PICK w : w = [act["worker"] EXCEPT !.pc = "read2", !.healthy = ok]
    OBVIOUS
  <2>3. w \in PollCalls /\ w.pc \notin Signalling
    BY <1>0, <2>2 DEF PollCalls, Polled!Places, Signalling
  <2>4. act' = [act EXCEPT !["worker"] = w] /\ UNCHANGED <<proc, port, file, report, foreign>>
    BY <1>3, <2>1, <2>2 DEF Polled!AwaitHealth
  <2> QED BY <1>0, <2>3, <2>4, SignalStep
<1>4. CASE Polled!StopRead
  <2>1. PICK q \in {"stopped", "check"} : q = IF file = None THEN "stopped" ELSE "check"
    OBVIOUS
  <2>2. PICK w : w = [act["worker"] EXCEPT !.pid = file, !.pc = q]
    OBVIOUS
  <2>3. w \in PollCalls /\ w.pc = q /\ w.pid = file
    BY <1>0, <2>1, <2>2 DEF PollCalls, Polled!Places
  <2>4. act' = [act EXCEPT !["worker"] = w] /\ UNCHANGED <<proc, port, file, report, foreign>>
    BY <1>4, <2>1, <2>2 DEF Polled!StopRead
  <2>5. w.pc \in Signalling => w.pid \in PollPids /\ w.pc = "check"
    BY <1>0, <2>1, <2>3 DEF Signalling
  <2> QED BY <1>0, <2>3, <2>4, <2>5, SignalStep
<1>5. CASE Polled!IsBroker
  <2>1. act["worker"].pc = "check" /\ UNCHANGED <<proc, port, file, report, foreign>>
    BY <1>5 DEF Polled!IsBroker
  <2>2. PICK q \in {"term", "unlink"} :
            Polled!Go("worker", q) /\ (q = "term" => Polled!Running(act["worker"].pid))
    BY <1>5 DEF Polled!IsBroker
  <2>3. PICK w \in PollCalls : act' = [act EXCEPT !["worker"] = w] /\ w.pc = q /\ w.pid = act["worker"].pid
    BY <1>0, <2>2, PollGoes DEF Polled!Places
  <2>4. w.pc \in Signalling => w.pid \in PollPids /\ proc[w.pid].is # "other"
    BY <1>0, <2>1, <2>2, <2>3 DEF Signalling, Polled!Running
  <2> QED BY <1>0, <2>1, <2>3, <2>4, SignalStep
<1>6. CASE Polled!ReapStopped
  <2>1. PICK p \in PollPids : p = act["worker"].pid
    BY <1>0, <1>6 DEF Polled!ReapStopped, Signalling
  <2>2. /\ Polled!Go("worker", "unlink") /\ UNCHANGED <<port, file, report, foreign>>
        /\ \/ Polled!Dead(p) /\ proc' = [proc EXCEPT ![p] = Polled!Free]
           \/ proc' = proc
    BY <1>6, <2>1 DEF Polled!ReapStopped
  <2>3. PICK w \in PollCalls : act' = [act EXCEPT !["worker"] = w] /\ w.pc \notin Signalling
    BY <1>0, <2>2, PollGoes DEF Polled!Places, Signalling
  <2>4. /\ proc' \in [PollPids -> Procs] /\ (port # None => proc'[port].is = "serve")
        /\ \A r \in PollPids : proc'[r].is = "other" => proc[r].is = "other"
    <3>1. CASE proc' = proc
      BY <1>0, <3>1
    <3>2. CASE Polled!Dead(p) /\ proc' = [proc EXCEPT ![p] = Polled!Free]
      BY <1>0, <3>2 DEF Polled!Dead, Polled!Free, Procs
    <3> QED BY <2>2, <3>1, <3>2
  <2> QED BY <1>0, <2>2, <2>3, <2>4, SignalStep
<1>7. CASE Polled!Unlink
  <2>1. file' = None /\ Polled!Go("worker", "stopped") /\ UNCHANGED <<proc, port, report, foreign>>
    BY <1>7 DEF Polled!Unlink
  <2>2. PICK w \in PollCalls : act' = [act EXCEPT !["worker"] = w] /\ w.pc \notin Signalling
    BY <1>0, <2>1, PollGoes DEF Polled!Places, Signalling
  <2> QED BY <1>0, <2>1, <2>2, SignalStep
<1>8. CASE Polled!StopDone
  <2>1. PICK w : w = IF act["worker"].op = "restart" THEN [act["worker"] EXCEPT !.pc = "read", !.pid = None] ELSE Polled!Idle
    OBVIOUS
  <2>2. w \in PollCalls /\ w.pc \in {"read", "idle"}
    BY <1>0, <2>1 DEF PollCalls, Polled!Places, Polled!Idle
  <2>3. act' = [act EXCEPT !["worker"] = w] /\ UNCHANGED <<proc, port, file, report, foreign>>
    BY <1>8, <2>1 DEF Polled!StopDone
  <2>4. w.pc \notin Signalling
    BY <2>2 DEF Signalling
  <2> QED BY <1>0, <2>2, <2>3, <2>4, SignalStep
<1> QED BY <1>1, <1>2, <1>3, <1>4, <1>5, <1>6, <1>7, <1>8

\* A signal goes to the process that the call has seen to be the broker, or to nobody.
LEMMA SignalSent ==
  ASSUME Polled!SupervisorAssumption, Polled!SignalInv, Polled!Terminate \/ Polled!Escalate
  PROVE  Polled!SignalInv'
<1>0. /\ None \notin PollPids /\ proc \in [PollPids -> Procs] /\ "worker" \in Polled!Actors /\ act["worker"] \in PollCalls
      /\ port \in PollPids \cup {None} /\ (port # None => proc[port].is = "serve")
      /\ file \in PollPids \cup {None} /\ report.pid \in PollPids \cup {None}
      /\ act["worker"].pc \in Signalling =>
            /\ act["worker"].pid \in PollPids
            /\ act["worker"].pc # "check" => proc[act["worker"].pid].is # "other"
  BY SignalTyped
<1>1. PICK p \in PollPids : p = act["worker"].pid /\ proc[p].is # "other"
  BY <1>0 DEF Polled!Terminate, Polled!Escalate, Signalling
<1>2. PICK sig \in {"term", "kill"}, next \in {"reap", "dead"} : Polled!Signal(p, sig, next)
  BY <1>1 DEF Polled!Terminate, Polled!Escalate
<1>3. PICK q \in {"unlink", "reap", "dead"} : Polled!Go("worker", q)
  BY <1>2 DEF Polled!Signal
<1>4. PICK w \in PollCalls : act' = [act EXCEPT !["worker"] = w] /\ w.pid = p
  BY <1>0, <1>1, <1>3, PollGoes DEF Polled!Places
<1>5. UNCHANGED <<port, file, report>> /\ (foreign' => foreign)
  <2>1. UNCHANGED <<port, file, report>> /\ foreign' = (foreign \/ proc[p].is = "other")
    BY <1>2 DEF Polled!Signal
  <2> QED BY <1>1, <2>1, Zenon
<1>6. /\ proc' \in [PollPids -> Procs] /\ (port # None => proc'[port].is = "serve")
      /\ \A r \in PollPids : proc'[r].is = "other" => proc[r].is = "other"
  <2>1. CASE proc' = proc
    BY <1>0, <2>1
  <2>2. CASE proc' = [proc EXCEPT ![p].sig = sig]
    BY <1>0, <2>2 DEF Procs
  <2> QED BY <1>2, <2>1, <2>2 DEF Polled!Signal
<1> QED BY <1>0, <1>1, <1>4, <1>5, <1>6, SignalStep

LEMMA SignalNext ==
  ASSUME Polled!SupervisorAssumption, Polled!SignalInv, [Polled!Next]_(Polled!vars)
  PROVE  Polled!SignalInv'
<1>1. "worker" \in Polled!Actors /\ "loop" \in Polled!Actors
  BY DEF Polled!Actors
<1> QED BY <1>1, SignalStatus, SignalOutside, SignalWorker, SignalSent DEF Polled!Next, Polled!Worker

LEMMA SignalKeeps == ASSUME Polled!SignalInv PROVE Polled!NoForeignSignal
  BY DEF Polled!SignalInv

-----------------------------------------------------------------------------
(* The run configuration *)

LEMMA FieldsOf ==
  ASSUME NEW c \in Conf!Configs, NEW d \in Conf!Configs
  PROVE  Conf!Fields(c, d) = {f \in {"rate", "url", "token", "dirs"} : c[f] # d[f]}
<1>1. DOMAIN c = {"rate", "url", "token", "dirs"}
  BY DEF Conf!Configs
<1> QED BY <1>1 DEF Conf!Fields

LEMMA InitialConfig == Conf!Initial \in Conf!Configs
  BY DEF Conf!Initial, Conf!Configs, Conf!Rates, Conf!Urls, Conf!Tokens

\* A change of an announced configuration is announced with the fields it changes.
LEMMA AnnouncedOn ==
  ASSUME NEW c \in Conf!Configs, NEW d \in Conf!Configs, Conf!Announced(c),
         \A f \in Conf!Fields(c, d) : <<"config_change_requested", f>> \in records',
         records \subseteq records', cleared' = cleared
  PROVE  Conf!Announced(d)'
<1>1. ASSUME NEW f \in Conf!Fields(Conf!Initial, d) PROVE f \in Conf!Fields(Conf!Initial, c) \/ f \in Conf!Fields(c, d)
  BY <1>1, FieldsOf, InitialConfig
<1> QED BY <1>1 DEF Conf!Announced

\* Records are only added, or all of them are cleared.
LEMMA AnnouncedStays ==
  ASSUME NEW c, Conf!Announced(c), (records \subseteq records' /\ cleared' = cleared) \/ cleared'
  PROVE  Conf!Announced(c)'
<1>1. Conf!Fields(Conf!Initial, c)' = Conf!Fields(Conf!Initial, c)
  BY DEF Conf!Fields, Conf!Initial
<1>2. CASE cleared'
  BY <1>2, Zenon DEF Conf!Announced
<1>3. CASE records \subseteq records' /\ cleared' = cleared
  BY <1>1, <1>3, Zenon DEF Conf!Announced
<1> QED BY <1>2, <1>3

SaveJobs ==
    [pc : {"idle", "body", "list", "request", "save", "changed"}, seen : Conf!Configs, old : Conf!Configs,
     new : Conf!Configs, tool : External \cup {None}]

\* What the invariant says of a job.
JobAnnounced(j) ==
    Conf!Announced(j.seen) /\ Conf!Announced(j.old) /\ (j.pc \in {"save", "changed"} => Conf!Announced(j.new))

LEMMA SavesTyped ==
  ASSUME Conf!SavesInv
  PROVE  /\ toml \in Conf!Configs /\ Conf!Announced(toml)
         /\ \A a \in Conf!Actors : saves[a] \in SaveJobs /\ JobAnnounced(saves[a])
  BY DEF Conf!SavesInv, SaveJobs, JobAnnounced

\* A step of one job, which records or clears and may replace the file.
LEMMA SaveStep ==
  ASSUME Conf!SavesInv, NEW a \in Conf!Actors, NEW j \in SaveJobs, saves' = [saves EXCEPT ![a] = j],
         toml' \in Conf!Configs, Conf!Announced(toml)', JobAnnounced(j)', cleared' \in BOOLEAN,
         (records \subseteq records' /\ cleared' = cleared) \/ cleared'
  PROVE  Conf!SavesInv'
<1>0. saves \in [Conf!Actors -> SaveJobs]
  BY DEF Conf!SavesInv, SaveJobs
<1>1. ASSUME NEW b \in Conf!Actors, NEW k, k = saves'[b] PROVE JobAnnounced(k)'
  <2>1. CASE b = a
    BY <1>0, <1>1, <2>1
  <2>2. CASE b # a
    <3>1. k = saves[b] /\ JobAnnounced(k)
      BY <1>0, <1>1, <2>2, SavesTyped
    <3> QED BY <3>1, AnnouncedStays DEF JobAnnounced
  <2> QED BY <2>1, <2>2
<1>2. saves' \in [Conf!Actors -> SaveJobs]
  BY <1>0
<1>3. ASSUME NEW b \in Conf!Actors
      PROVE  /\ Conf!Announced(saves[b].seen)' /\ Conf!Announced(saves[b].old)'
             /\ saves'[b].pc \in {"save", "changed"} => Conf!Announced(saves[b].new)'
  <2>1. PICK k : k = saves'[b]
    OBVIOUS
  <2>2. JobAnnounced(k)'
    BY <1>1, <2>1
  <2> QED BY <2>1, <2>2 DEF JobAnnounced, Conf!Announced, Conf!Fields, Conf!Initial
<1> QED BY <1>2, <1>3 DEF Conf!SavesInv, SaveJobs

LEMMA SavesInit == ASSUME Conf!Init PROVE Conf!SavesInv
<1>1. Conf!Announced(Conf!Initial)
  BY DEF Conf!Announced, Conf!Fields
<1>2. Conf!Idle \in SaveJobs /\ Conf!Idle.seen = Conf!Initial /\ Conf!Idle.old = Conf!Initial /\ Conf!Idle.pc = "idle"
  BY InitialConfig DEF SaveJobs, Conf!Idle
<1> QED BY <1>1, <1>2, InitialConfig DEF Conf!Init, Conf!SavesInv, SaveJobs

LEMMA IdleSave == Conf!Idle \in SaveJobs /\ Conf!Idle.pc = "idle" /\ JobAnnounced(Conf!Idle)
<1>1. Conf!Idle \in SaveJobs /\ Conf!Idle.seen = Conf!Initial /\ Conf!Idle.old = Conf!Initial /\ Conf!Idle.pc = "idle"
  BY InitialConfig DEF SaveJobs, Conf!Idle
<1>2. Conf!Announced(Conf!Initial)
  BY DEF Conf!Announced, Conf!Fields
<1> QED BY <1>1, <1>2 DEF JobAnnounced

\* A job that is dropped.
LEMMA SaveDropped ==
  ASSUME Conf!SavesInv, NEW a \in Conf!Actors, saves' = [saves EXCEPT ![a] = Conf!Idle], toml' = toml,
         (records \subseteq records' /\ cleared' = cleared) \/ cleared', cleared' \in BOOLEAN
  PROVE  Conf!SavesInv'
<1>1. PICK j : j = Conf!Idle
  OBVIOUS
<1>2. j \in SaveJobs /\ JobAnnounced(j)
  BY <1>1, IdleSave
<1>3. JobAnnounced(j)'
  BY <1>2, AnnouncedStays DEF JobAnnounced
<1>4. PICK t : t = toml
  OBVIOUS
<1>5. Conf!Announced(t)'
  BY <1>4, SavesTyped, AnnouncedStays
<1>6. toml' \in Conf!Configs /\ Conf!Announced(toml)'
  BY <1>4, <1>5, SavesTyped DEF Conf!Announced, Conf!Fields, Conf!Initial
<1> QED BY <1>1, <1>2, <1>3, <1>6, SaveStep

\* A job that announces nothing and saves nothing.
LEMMA SaveQuiet ==
  ASSUME Conf!SavesInv, NEW a \in Conf!Actors, NEW j \in SaveJobs, saves' = [saves EXCEPT ![a] = j],
         JobAnnounced(j), UNCHANGED <<toml, records, cleared>>
  PROVE  Conf!SavesInv'
<1>1. JobAnnounced(j)' /\ Conf!Announced(toml)' /\ cleared' \in BOOLEAN
  <2>1. PICK t : t = toml
    OBVIOUS
  <2>2. Conf!Announced(t)' /\ JobAnnounced(j)'
    BY <2>1, SavesTyped, AnnouncedStays DEF JobAnnounced
  <2> QED BY <2>1, <2>2 DEF Conf!Announced, Conf!Fields, Conf!Initial, Conf!SavesInv
<1> QED BY <1>1, SavesTyped, SaveStep

\* A change begins from a configuration that is announced.
LEMMA SaveBegins ==
  ASSUME Conf!SavesInv, NEW a \in Conf!Actors, NEW c \in Conf!Configs, NEW d \in Conf!Configs,
         Conf!Announced(c), Conf!Begin(a, c, d), UNCHANGED <<toml, records, cleared>>
  PROVE  Conf!SavesInv'
<1>1. PICK j : j = [saves[a] EXCEPT !.pc = "request", !.old = c, !.new = d]
  OBVIOUS
<1>2. saves' = [saves EXCEPT ![a] = j]
  BY <1>1 DEF Conf!Begin
<1>3. j \in SaveJobs /\ j.pc = "request" /\ j.seen = saves[a].seen /\ j.old = c
  BY <1>1, SavesTyped DEF SaveJobs
<1>4. JobAnnounced(j)
  BY <1>3, SavesTyped DEF JobAnnounced
<1> QED BY <1>2, <1>3, <1>4, SaveQuiet

\* What merge_update makes of a request is a configuration, with the token it had.
LEMMA Merged ==
  ASSUME NEW c \in Conf!Configs, NEW r \in Conf!Rates \cup {None}, NEW l \in Conf!Urls \cup {None},
         NEW t \in Conf!Tokens \cup {None}
  PROVE  LET m == Conf!MergeUpdate(c, [rate |-> r, url |-> l, token |-> t]) IN
         m \in Conf!Configs /\ (c.token # "" => m.token # "")
<1>1. PICK m : m = Conf!MergeUpdate(c, [rate |-> r, url |-> l, token |-> t])
  OBVIOUS
<1>2. m = [c EXCEPT !.rate = IF r = None THEN @ ELSE r, !.url = IF l = None THEN @ ELSE l,
                    !.token = IF t \in {None, ""} THEN @ ELSE t]
  BY <1>1 DEF Conf!MergeUpdate
<1>3. m = [rate |-> IF r = None THEN c.rate ELSE r, url |-> IF l = None THEN c.url ELSE l,
           token |-> IF t \in {None, ""} THEN c.token ELSE t, dirs |-> c.dirs]
  BY <1>2 DEF Conf!Configs
<1>4. m \in Conf!Configs /\ (c.token # "" => m.token # "")
  BY <1>3 DEF Conf!Configs
<1> QED BY <1>1, <1>4

\* Reading a request, and beginning a change.
LEMMA SavesBefore ==
  ASSUME Conf!SavesInv,
         \/ \E h \in Savers : Conf!Arrive(h) \/ Conf!SaveConfig(h) \/ Conf!CreateTool(h) \/ Conf!ClearAudit(h)
         \/ \E w \in Removers : Conf!RemoveRequest(w) \/ Conf!RemoveTool(w)
  PROVE  Conf!SavesInv'
<1>0. cleared \in BOOLEAN
  BY DEF Conf!SavesInv
<1>1. ASSUME NEW h \in Savers, Conf!Arrive(h) PROVE Conf!SavesInv'
  <2>1. PICK j : j = [Conf!Idle EXCEPT !.pc = "body", !.seen = toml]
    OBVIOUS
  <2>2. j \in SaveJobs /\ j.pc = "body" /\ j.seen = toml /\ j.old = Conf!Initial
    BY <2>1, SavesTyped, InitialConfig DEF SaveJobs, Conf!Idle
  <2>3. JobAnnounced(j)
    BY <2>2, SavesTyped, IdleSave DEF JobAnnounced, Conf!Idle
  <2> QED BY <1>1, <2>1, <2>2, <2>3, SaveQuiet DEF Conf!Arrive, Conf!Actors
<1>2. ASSUME NEW h \in Savers, Conf!SaveConfig(h) PROVE Conf!SavesInv'
  <2>1. PICK r \in Conf!Rates \cup {None}, l \in Conf!Urls \cup {None}, t \in Conf!Tokens \cup {None} :
            LET m == Conf!MergeUpdate(toml, [rate |-> r, url |-> l, token |-> t]) IN
            Conf!Begin(h, toml, m) \/ saves' = [saves EXCEPT ![h] = Conf!Idle]
    BY <1>2 DEF Conf!SaveConfig, Conf!Load
  <2>2. PICK m : m = Conf!MergeUpdate(toml, [rate |-> r, url |-> l, token |-> t])
    OBVIOUS
  <2>3. m \in Conf!Configs
    BY <2>2, Merged, SavesTyped
  <2>4. UNCHANGED <<toml, records, cleared>> /\ h \in Conf!Actors
    BY <1>2 DEF Conf!SaveConfig, Conf!Actors
  <2>5. CASE Conf!Begin(h, toml, m)
    BY <2>3, <2>4, <2>5, SaveBegins, SavesTyped
  <2>6. CASE saves' = [saves EXCEPT ![h] = Conf!Idle]
    BY <1>0, <2>4, <2>6, SaveDropped
  <2> QED BY <2>1, <2>2, <2>5, <2>6
<1>3. ASSUME NEW h \in Savers, Conf!CreateTool(h) PROVE Conf!SavesInv'
  <2>1. PICK t \in External : Conf!Begin(h, toml, [toml EXCEPT !.dirs = @ \cup {t}])
    BY <1>3 DEF Conf!CreateTool, Conf!Load
  <2>2. PICK d : d = [toml EXCEPT !.dirs = @ \cup {t}]
    OBVIOUS
  <2>3. d \in Conf!Configs
    BY <2>2, SavesTyped DEF Conf!Configs
  <2> QED BY <1>3, <2>1, <2>2, <2>3, SaveBegins, SavesTyped DEF Conf!CreateTool, Conf!Actors
<1>4. ASSUME NEW h \in Savers, Conf!ClearAudit(h) PROVE Conf!SavesInv'
  BY <1>4, SaveDropped DEF Conf!ClearAudit, Conf!Actors
<1>5. ASSUME NEW w \in Removers, Conf!RemoveRequest(w) PROVE Conf!SavesInv'
  <2>1. PICK t \in External : saves' = [saves EXCEPT ![w] = [Conf!Idle EXCEPT !.pc = "list", !.seen = toml, !.tool = t]]
    BY <1>5 DEF Conf!RemoveRequest
  <2>2. PICK j : j = [Conf!Idle EXCEPT !.pc = "list", !.seen = toml, !.tool = t]
    OBVIOUS
  <2>3. j \in SaveJobs /\ j.pc = "list" /\ j.seen = toml /\ j.old = Conf!Initial
    BY <2>2, SavesTyped, InitialConfig DEF SaveJobs, Conf!Idle
  <2>4. JobAnnounced(j)
    BY <2>3, SavesTyped, IdleSave DEF JobAnnounced, Conf!Idle
  <2> QED BY <1>5, <2>1, <2>2, <2>3, <2>4, SaveQuiet DEF Conf!RemoveRequest, Conf!Actors
<1>6. ASSUME NEW w \in Removers, Conf!RemoveTool(w) PROVE Conf!SavesInv'
  <2>1. w \in Conf!Actors /\ UNCHANGED <<toml, records, cleared>>
    BY <1>6 DEF Conf!RemoveTool, Conf!Actors
  <2>2. PICK c \in Conf!Configs : c = saves[w].seen /\ Conf!Announced(c)
    BY <2>1, SavesTyped DEF SaveJobs, JobAnnounced
  <2>3. PICK d : d = [c EXCEPT !.dirs = @ \ {saves[w].tool}]
    OBVIOUS
  <2>4. d \in Conf!Configs
    BY <2>3 DEF Conf!Configs
  <2>5. Conf!Begin(w, c, d) \/ saves' = [saves EXCEPT ![w] = Conf!Idle]
    BY <1>6, <2>2, <2>3 DEF Conf!RemoveTool
  <2> QED BY <1>0, <2>1, <2>2, <2>4, <2>5, SaveBegins, SaveDropped
<1> QED BY <1>1, <1>2, <1>3, <1>4, <1>5, <1>6

\* A job goes on with the change it has.
LEMMA SaveGoes ==
  ASSUME NEW a \in Conf!Actors, saves[a] \in SaveJobs, NEW q \in {"save", "changed"},
         saves' = [saves EXCEPT ![a].pc = q]
  PROVE  \E j \in SaveJobs : /\ saves' = [saves EXCEPT ![a] = j] /\ j.pc = q
                            /\ j.seen = saves[a].seen /\ j.old = saves[a].old /\ j.new = saves[a].new
<1>1. PICK j : j = [saves[a] EXCEPT !.pc = q]
  OBVIOUS
<1>2. j \in SaveJobs /\ j.pc = q /\ j.seen = saves[a].seen /\ j.old = saves[a].old /\ j.new = saves[a].new
  BY <1>1 DEF SaveJobs
<1> QED BY <1>1, <1>2

LEMMA RecordsAdded ==
  ASSUME NEW kind, NEW fields, Conf!Record(kind, fields)
  PROVE  records \subseteq records' /\ \A f \in fields : <<kind, f>> \in records'
  BY DEF Conf!Record

LEMMA SavesNext ==
  ASSUME Conf!SavesInv, [Conf!Next]_(Conf!vars)
  PROVE  Conf!SavesInv'
<1>0. cleared \in BOOLEAN
  BY DEF Conf!SavesInv
<1>1. ASSUME NEW a \in Conf!Actors, Conf!Request(a) PROVE Conf!SavesInv'
  <2>1. UNCHANGED <<toml, cleared>> /\ saves[a].pc = "request"
    BY <1>1 DEF Conf!Request
  <2>2. CASE UNCHANGED records /\ saves' = [saves EXCEPT ![a] = Conf!Idle]
    BY <1>0, <2>1, <2>2, SaveDropped
  <2>3. CASE /\ Conf!Record("config_change_requested", Conf!Fields(saves[a].old, saves[a].new))
             /\ saves' = [saves EXCEPT ![a].pc = "save"]
    <3>1. PICK j \in SaveJobs : /\ saves' = [saves EXCEPT ![a] = j] /\ j.pc = "save"
                              /\ j.seen = saves[a].seen /\ j.old = saves[a].old /\ j.new = saves[a].new
      BY <2>3, SaveGoes, SavesTyped
    <3>2. records \subseteq records' /\ \A f \in Conf!Fields(j.old, j.new) : <<"config_change_requested", f>> \in records'
      BY <2>3, <3>1, RecordsAdded
    <3>3. j.old \in Conf!Configs /\ j.new \in Conf!Configs /\ Conf!Announced(j.old) /\ Conf!Announced(j.seen)
      BY <3>1, SavesTyped DEF JobAnnounced, SaveJobs
    <3>4. Conf!Announced(j.old)' /\ Conf!Announced(j.seen)'
      BY <2>1, <3>2, <3>3, AnnouncedStays
    <3>5. PICK c \in Conf!Configs, d \in Conf!Configs : c = j.old /\ d = j.new /\ Conf!Announced(c)
      BY <3>3
    <3>6. Conf!Announced(d)'
      BY <2>1, <3>2, <3>5, AnnouncedOn
    <3>7. JobAnnounced(j)'
      BY <3>4, <3>5, <3>6 DEF JobAnnounced
    <3>8. PICK t : t = toml /\ Conf!Announced(t)'
      BY <2>1, <3>2, SavesTyped, AnnouncedStays
    <3>9. toml' \in Conf!Configs /\ Conf!Announced(toml)'
      BY <2>1, <3>8, SavesTyped DEF Conf!Announced, Conf!Fields, Conf!Initial
    <3> QED BY <1>0, <2>1, <3>1, <3>2, <3>7, <3>9, SaveStep
  <2> QED BY <1>1, <2>2, <2>3 DEF Conf!Request
<1>2. ASSUME NEW a \in Conf!Actors, Conf!Save(a) PROVE Conf!SavesInv'
  <2>1. UNCHANGED <<records, cleared>> /\ saves[a].pc = "save" /\ toml' = saves[a].new
    BY <1>2 DEF Conf!Save
  <2>2. PICK j \in SaveJobs : /\ saves' = [saves EXCEPT ![a] = j] /\ j.pc = "changed"
                            /\ j.seen = saves[a].seen /\ j.old = saves[a].old /\ j.new = saves[a].new
    BY <1>2, SaveGoes, SavesTyped DEF Conf!Save
  <2>3. JobAnnounced(j)
    BY <2>1, <2>2, SavesTyped DEF JobAnnounced
  <2>4. JobAnnounced(j)'
    BY <2>1, <2>3, AnnouncedStays, <2>2 DEF JobAnnounced
  <2>5. Conf!Announced(j.new)' /\ toml' = j.new /\ j.new \in Conf!Configs
    BY <2>1, <2>2, <2>4 DEF JobAnnounced, SaveJobs
  <2>6. Conf!Announced(toml)'
    BY <2>5 DEF Conf!Announced, Conf!Fields, Conf!Initial
  <2> QED BY <1>0, <2>1, <2>2, <2>4, <2>5, <2>6, SaveStep
<1>3. ASSUME NEW a \in Conf!Actors, Conf!Changed(a) PROVE Conf!SavesInv'
  <2>1. UNCHANGED <<toml, cleared>> /\ records \subseteq records' /\ saves' = [saves EXCEPT ![a] = Conf!Idle]
    BY <1>3, RecordsAdded DEF Conf!Changed
  <2> QED BY <1>0, <2>1, SaveDropped
<1>4. CASE (UNCHANGED <<toml, records, cleared>> /\ saves' \in [Conf!Actors -> {Conf!Idle}]) \/ UNCHANGED Conf!vars
  <2>1. ASSUME NEW a \in Conf!Actors, NEW k, k = saves'[a] PROVE k \in SaveJobs /\ JobAnnounced(k)
    BY <1>4, <2>1, IdleSave, SavesTyped DEF Conf!vars
  <2>2. UNCHANGED <<toml, records, cleared>> /\ saves' \in [Conf!Actors -> SaveJobs]
    BY <1>4, IdleSave DEF Conf!vars, Conf!SavesInv, SaveJobs
  <2>3. ASSUME NEW a \in Conf!Actors
        PROVE  /\ Conf!Announced(saves[a].seen)' /\ Conf!Announced(saves[a].old)'
               /\ saves'[a].pc \in {"save", "changed"} => Conf!Announced(saves[a].new)'
    <3>1. PICK k : k = saves'[a]
      OBVIOUS
    <3>2. JobAnnounced(k)
      BY <2>1, <3>1
    <3> QED BY <2>2, <3>1, <3>2 DEF JobAnnounced, Conf!Announced, Conf!Fields, Conf!Initial
  <2>4. Conf!Announced(toml)'
    BY <2>2 DEF Conf!SavesInv, Conf!Announced, Conf!Fields, Conf!Initial
  <2> QED BY <1>0, <2>2, <2>3, <2>4 DEF Conf!SavesInv, SaveJobs
<1>5. Conf!Crash => UNCHANGED <<toml, records, cleared>> /\ saves' \in [Conf!Actors -> {Conf!Idle}]
  BY DEF Conf!Crash
<1> QED BY <1>1, <1>2, <1>3, <1>4, <1>5, SavesBefore DEF Conf!Next

LEMMA SavesKeeps == ASSUME Conf!SavesInv PROVE Conf!NoSilentChange
  BY DEF Conf!SavesInv, Conf!NoSilentChange, Conf!Announced

\* Without removals.  A handler leaves "body" only while no other handler is past it, and the
\* file changes only in the handler that has left it.
LEMMA LoopInit == ASSUME Conf!Init, Removers = {} PROVE Conf!LoopInv
  BY DEF Conf!Init, Conf!LoopInv, Conf!Actors, Conf!Idle

Away == {"idle", "body"}

\* A step of handler h, with its job j: it was past "body", or no handler was.
LEMMA LoopStep ==
  ASSUME Removers = {}, Conf!SavesInv, Conf!LoopInv, NEW h \in Savers, NEW j \in SaveJobs,
         saves' = [saves EXCEPT ![h] = j],
         saves[h].pc \notin Away \/ Conf!LoopFree,
         j.pc \in {"request", "save"} => j.old = toml' /\ (toml'.token # "" => j.new.token # ""),
         toml' = toml \/ saves[h].pc \notin Away
  PROVE  Conf!LoopInv'
<1>0. saves \in [Savers -> SaveJobs] /\ Conf!Actors = Savers
  BY DEF Conf!SavesInv, Conf!Actors, SaveJobs
<1>1. \A g \in Savers : g # h => saves'[g] = saves[g] /\ saves[g].pc \in Away
  BY <1>0 DEF Conf!LoopInv, Conf!LoopFree, Away
<1>2. saves'[h] = j
  BY <1>0
<1>3. \A g \in Savers : g # h => saves'[g].pc \in Away
  BY <1>1
<1>4. ASSUME NEW g \in Savers, saves'[g].pc \in {"request", "save"}
      PROVE  saves'[g].old = toml' /\ (toml'.token # "" => saves'[g].new.token # "")
  <2>1. g = h
    BY <1>3, <1>4 DEF Away
  <2> QED BY <1>2, <1>4, <2>1
<1>5. ASSUME NEW g \in Savers, NEW k \in Savers, saves'[g].pc \notin Away, saves'[k].pc \notin Away PROVE g = k
  BY <1>3, <1>5
<1> QED BY <1>4, <1>5 DEF Conf!LoopInv, Away

LEMMA LoopBegins ==
  ASSUME Removers = {}, Conf!SavesInv, Conf!LoopInv, NEW h \in Savers, NEW d \in Conf!Configs, Conf!LoopFree,
         Conf!Begin(h, toml, d), toml.token # "" => d.token # "", toml' = toml
  PROVE  Conf!LoopInv'
<1>1. PICK j : j = [saves[h] EXCEPT !.pc = "request", !.old = toml, !.new = d]
  OBVIOUS
<1>2. saves' = [saves EXCEPT ![h] = j]
  BY <1>1 DEF Conf!Begin
<1>3. saves[h] \in SaveJobs /\ toml \in Conf!Configs
  BY SavesTyped DEF Conf!Actors
<1>4. j \in SaveJobs /\ j.old = toml /\ j.new = d
  BY <1>1, <1>3 DEF SaveJobs
<1> QED BY <1>2, <1>4, LoopStep

LEMMA LoopNext ==
  ASSUME Removers = {}, Conf!SavesInv, Conf!LoopInv, [Conf!Next]_(Conf!vars)
  PROVE  Conf!LoopInv'
<1>0. Conf!Actors = Savers /\ toml \in Conf!Configs /\ \A h \in Savers : saves[h] \in SaveJobs
  BY SavesTyped DEF Conf!Actors
<1>1. ASSUME NEW h \in Savers, saves' = [saves EXCEPT ![h] = Conf!Idle], saves[h].pc \notin Away \/ Conf!LoopFree, toml' = toml
      PROVE  Conf!LoopInv'
  <2>1. PICK j : j = Conf!Idle
    OBVIOUS
  <2>2. j \in SaveJobs /\ j.pc = "idle"
    BY <2>1, IdleSave
  <2> QED BY <1>1, <2>1, <2>2, LoopStep
<1>2. ASSUME NEW h \in Savers, Conf!Arrive(h) PROVE Conf!LoopInv'
  <2>1. PICK j : j = [Conf!Idle EXCEPT !.pc = "body", !.seen = toml]
    OBVIOUS
  <2>2. j \in SaveJobs /\ j.pc = "body"
    BY <1>0, <2>1, InitialConfig DEF SaveJobs, Conf!Idle
  <2> QED BY <1>2, <2>1, <2>2, LoopStep DEF Conf!Arrive
<1>3. ASSUME NEW h \in Savers, Conf!SaveConfig(h) PROVE Conf!LoopInv'
  <2>1. PICK r \in Conf!Rates \cup {None}, l \in Conf!Urls \cup {None}, t \in Conf!Tokens \cup {None} :
            LET m == Conf!MergeUpdate(toml, [rate |-> r, url |-> l, token |-> t]) IN
            Conf!Begin(h, toml, m) \/ saves' = [saves EXCEPT ![h] = Conf!Idle]
    BY <1>3 DEF Conf!SaveConfig, Conf!Load
  <2>2. PICK m : m = Conf!MergeUpdate(toml, [rate |-> r, url |-> l, token |-> t])
    OBVIOUS
  <2>3. m \in Conf!Configs /\ (toml.token # "" => m.token # "")
    BY <1>0, <2>2, Merged
  <2>4. toml' = toml /\ Conf!LoopFree
    BY <1>3 DEF Conf!SaveConfig
  <2>5. CASE Conf!Begin(h, toml, m)
    BY <2>3, <2>4, <2>5, LoopBegins
  <2>6. CASE saves' = [saves EXCEPT ![h] = Conf!Idle]
    BY <1>1, <2>4, <2>6
  <2> QED BY <2>1, <2>2, <2>5, <2>6
<1>4. ASSUME NEW h \in Savers, Conf!CreateTool(h) PROVE Conf!LoopInv'
  <2>1. PICK t \in External : Conf!Begin(h, toml, [toml EXCEPT !.dirs = @ \cup {t}])
    BY <1>4 DEF Conf!CreateTool, Conf!Load
  <2>2. PICK d : d = [toml EXCEPT !.dirs = @ \cup {t}]
    OBVIOUS
  <2>3. d \in Conf!Configs /\ d.token = toml.token
    BY <1>0, <2>2 DEF Conf!Configs
  <2> QED BY <1>4, <2>1, <2>2, <2>3, LoopBegins DEF Conf!CreateTool
<1>5. ASSUME NEW h \in Savers, Conf!ClearAudit(h) PROVE Conf!LoopInv'
  BY <1>1, <1>5 DEF Conf!ClearAudit
<1>6. ASSUME NEW h \in Savers, Conf!Request(h) PROVE Conf!LoopInv'
  <2>1. saves[h].pc = "request" /\ toml' = toml
    BY <1>6 DEF Conf!Request
  <2>2. CASE saves' = [saves EXCEPT ![h].pc = "save"]
    <3>1. PICK j \in SaveJobs : /\ saves' = [saves EXCEPT ![h] = j] /\ j.pc = "save"
                              /\ j.seen = saves[h].seen /\ j.old = saves[h].old /\ j.new = saves[h].new
      BY <1>0, <2>2, SaveGoes
    <3>2. j.old = toml /\ (toml.token # "" => j.new.token # "")
      BY <2>1, <3>1 DEF Conf!LoopInv
    <3> QED BY <2>1, <3>1, <3>2, LoopStep DEF Away
  <2>3. CASE saves' = [saves EXCEPT ![h] = Conf!Idle]
    BY <1>1, <2>1, <2>3 DEF Away
  <2> QED BY <1>6, <2>2, <2>3 DEF Conf!Request
<1>7. ASSUME NEW h \in Savers, Conf!Save(h) PROVE Conf!LoopInv'
  <2>1. saves[h].pc = "save"
    BY <1>7 DEF Conf!Save
  <2>2. PICK j \in SaveJobs : saves' = [saves EXCEPT ![h] = j] /\ j.pc = "changed"
    BY <1>0, <1>7, SaveGoes DEF Conf!Save
  <2> QED BY <2>1, <2>2, LoopStep DEF Away
<1>8. ASSUME NEW h \in Savers, Conf!Changed(h) PROVE Conf!LoopInv'
  BY <1>1, <1>8 DEF Conf!Changed, Away
<1>9. CASE Conf!Crash
  BY <1>0, <1>9 DEF Conf!Crash, Conf!LoopInv, Conf!Idle
<1>10. CASE UNCHANGED Conf!vars
  BY <1>10 DEF Conf!vars, Conf!LoopInv
<1> QED BY <1>0, <1>2, <1>3, <1>4, <1>5, <1>6, <1>7, <1>8, <1>9, <1>10 DEF Conf!Next

\* Only a save changes the file, and it was announced from what the file still holds.
LEMMA LoopKeeps ==
  ASSUME Removers = {}, Conf!SavesInv, Conf!LoopInv, [Conf!Next]_(Conf!vars)
  PROVE  Conf!TokenKept /\ Conf!FieldsNamed
<1>1. ASSUME NEW h \in Conf!Actors, Conf!Save(h) PROVE Conf!TokenKept /\ Conf!FieldsNamed
  <2>1. h \in Savers /\ saves[h].pc = "save" /\ toml' = saves[h].new /\ saves[h].old = toml
        /\ (toml.token # "" => saves[h].new.token # "")
    BY <1>1 DEF Conf!Save, Conf!LoopInv, Conf!Actors
  <2> QED BY <1>1, <2>1 DEF Conf!TokenKept, Conf!FieldsNamed, Conf!Fields
<1>2. CASE toml' = toml
  BY <1>2 DEF Conf!TokenKept, Conf!FieldsNamed
<1>3. (\E h \in Conf!Actors : Conf!Save(h)) \/ toml' = toml
  BY DEF Conf!Next, Conf!vars, Conf!Arrive, Conf!SaveConfig, Conf!CreateTool, Conf!ClearAudit, Conf!RemoveRequest,
         Conf!RemoveTool, Conf!Request, Conf!Changed, Conf!Crash
<1> QED BY <1>1, <1>2, <1>3

-----------------------------------------------------------------------------
(* The tool folders *)

\* The jobs: j at worker w, which may be none, and nothing elsewhere.
Works(w, j) ==
    /\ job = [x \in JobWorkers |-> IF x = w THEN j ELSE Folder!Idle]
    /\ w \in JobWorkers \/ j = Folder!Idle

FolderJobs ==
    [kind : {"none", "add", "author", "update", "remove"}, pc : Folder!Places \cup {"idle"},
     stage : 0 .. made, back : 0 .. made, decl : Nat, version : Nat]

\* What the invariant says of the folders when j is the job at work.
FoldersTyped ==
    /\ jobs \in 0 .. MaxJobs /\ made \in 0 .. jobs /\ source \in Nat \ {0}
    /\ dir \in [Folder!Dirs -> [files : Int, ops : Nat, decl : Nat, sidecar : BOOLEAN]]
    /\ dest \in 0 .. made /\ dest \notin lost /\ lost \subseteq 1 .. made
    /\ edited \in Nat /\ kept \in Nat /\ slot \in BOOLEAN /\ told \in BOOLEAN /\ broken \in BOOLEAN

EditFits ==
    /\ edit \in [pc : {"idle", "form", "open", "write"}, ops : Nat, decl : Nat, fd : 0 .. made]
    /\ edit.pc # "idle" => edit.ops # 0
    /\ edit.pc = "write" => edit.fd # 0

JobStands(j) ==
    /\ j \in FolderJobs
    /\ j.kind = "none" => j = Folder!Idle
    /\ j.kind # "none" => ~slot /\ j.pc # "idle"
    /\ j.kind \in {"add", "author"} => j.pc \in {"begin", "mkdir", "copy", "record"}
    /\ j.kind = "update" => j.pc \in {"begin", "fetch", "stage", "aside", "swap", "clean"}
    /\ j.kind = "remove" => j.pc \in {"begin", "delete"} /\ ~told

JobFolders(j) ==
    /\ j.pc \in {"begin", "mkdir", "fetch", "stage"} => made < jobs
    /\ j.pc = "mkdir" => dest = 0
    /\ j.pc = "copy" => dest # 0 /\ dir[dest].files = -1
    /\ j.pc = "record" => dest # 0 /\ dir[dest].files > 0 /\ (j.kind = "add" => dir[dest].ops # 0)
    /\ j.pc = "stage" => j.version > 0
    /\ j.stage # 0 <=> j.pc \in {"aside", "swap", "clean"}
    /\ j.stage # 0 => Folder!Whole(j.stage) /\ j.stage \notin lost
    /\ j.pc = "aside" => j.stage # dest
    /\ j.back # 0 <=> j.pc \in {"swap", "clean"}
    /\ j.back # 0 => j.back # j.stage /\ j.back \notin lost
    /\ j.pc = "swap" => dest = 0 /\ (dir[j.back].files <= 0 => broken)
    /\ j.pc = "clean" => dest = j.stage

ToolKept(j) ==
    /\ dest # 0 /\ dir[dest].files <= 0 => broken \/ j.pc \in {"copy", "delete"}
    /\ told /\ ~broken => \E d \in ({dest} \union lost \union {j.back}) \ {0} : Folder!Whole(d)

Standing(j) == FoldersTyped /\ EditFits /\ JobStands(j) /\ JobFolders(j) /\ ToolKept(j)

LEMMA IdleJob ==
  /\ Folder!Idle.kind = "none" /\ Folder!Idle.pc = "idle" /\ Folder!Idle.stage = 0 /\ Folder!Idle.back = 0
  /\ FoldersTyped => Folder!Idle \in FolderJobs /\ JobStands(Folder!Idle) /\ JobFolders(Folder!Idle)
<1>1. Folder!Idle.kind = "none" /\ Folder!Idle.pc = "idle" /\ Folder!Idle.stage = 0 /\ Folder!Idle.back = 0
  BY DEF Folder!Idle
<1>2. FoldersTyped => Folder!Idle \in FolderJobs
  BY DEF Folder!Idle, FolderJobs, FoldersTyped
<1> QED BY <1>1, <1>2 DEF JobStands, JobFolders

\* The job at work, or none.
LEMMA FolderFits ==
  ASSUME Folder!SourcesInv
  PROVE  /\ \E w, j : Works(w, j) /\ Standing(j)
         /\ \A w \in JobWorkers : job[w].kind # "none" => Works(w, job[w]) /\ Standing(job[w])
         /\ \A w \in JobWorkers : slot => Works(w, Folder!Idle) /\ Standing(Folder!Idle)
<1>0. FoldersTyped /\ EditFits
  BY DEF Folder!SourcesInv, FoldersTyped, EditFits
<1>1. /\ job \in [JobWorkers -> FolderJobs]
      /\ \A x \in JobWorkers : job[x].kind = "none" => job[x] = Folder!Idle
  BY DEF Folder!SourcesInv, FolderJobs, Folder!JobInv
<1>2. ASSUME NEW w \in JobWorkers, job[w].kind # "none" PROVE Works(w, job[w]) /\ Standing(job[w])
  <2>1. \A x \in JobWorkers : x # w => job[x] = Folder!Idle
    BY <1>1, <1>2 DEF Folder!SourcesInv
  <2>2. Works(w, job[w])
    BY <1>1, <2>1 DEF Works
  <2>3. JobStands(job[w]) /\ JobFolders(job[w])
    BY <1>1 DEF Folder!SourcesInv, Folder!JobInv, JobStands, JobFolders
  <2>4. ToolKept(job[w])
    BY <2>1, IdleJob DEF Folder!SourcesInv, ToolKept
  <2> QED BY <1>0, <2>2, <2>3, <2>4 DEF Standing
<1>3. ASSUME \A x \in JobWorkers : job[x].kind = "none", NEW w PROVE Works(w, Folder!Idle) /\ Standing(Folder!Idle)
  <2>1. \A x \in JobWorkers : job[x] = Folder!Idle
    BY <1>1, <1>3
  <2>2. Works(w, Folder!Idle)
    BY <1>1, <2>1 DEF Works
  <2>3. JobStands(Folder!Idle) /\ JobFolders(Folder!Idle)
    BY <1>0, IdleJob
  <2>4. ToolKept(Folder!Idle)
    BY <2>1, IdleJob DEF Folder!SourcesInv, ToolKept
  <2> QED BY <1>0, <2>2, <2>3, <2>4 DEF Standing
<1>4. slot => \A x \in JobWorkers : job[x].kind = "none"
  BY DEF Folder!SourcesInv, Folder!JobInv
<1> QED BY <1>2, <1>3, <1>4

LEMMA FolderHolds ==
  ASSUME NEW w, NEW j, Works(w, j)', Standing(j)'
  PROVE  Folder!SourcesInv'
<1>1. \A x \in JobWorkers : job'[x] = IF x = w THEN j ELSE Folder!Idle
  BY DEF Works
<1>2. FoldersTyped' /\ EditFits' /\ JobStands(j)' /\ JobFolders(j)' /\ ToolKept(j)'
  BY DEF Standing
<1>3. JobStands(Folder!Idle)' /\ JobFolders(Folder!Idle)'
  BY <1>2, IdleJob DEF JobStands, JobFolders, FolderJobs, FoldersTyped, Folder!Idle, Folder!Places
<1>4. job' \in [JobWorkers -> FolderJobs']
  BY <1>2, <1>3 DEF Works, JobStands
<1>5. ASSUME NEW x \in JobWorkers PROVE Folder!JobInv(x)'
  <2>1. PICK k : k = job'[x] /\ JobStands(k)' /\ JobFolders(k)'
    <3>1. CASE x = w
      BY <1>1, <1>2, <3>1
    <3>2. CASE x # w
      <4>1. PICK k : k = Folder!Idle
        OBVIOUS
      <4>2. JobStands(k)' /\ JobFolders(k)'
        BY <1>3, <4>1 DEF JobStands, JobFolders, FolderJobs, Folder!Whole
      <4> QED BY <1>1, <3>2, <4>1, <4>2
    <3> QED BY <3>1, <3>2
  <2> QED BY <2>1 DEF JobStands, JobFolders, Folder!JobInv
<1>6. \A x, y \in JobWorkers : job'[x].kind # "none" /\ job'[y].kind # "none" => x = y
  BY <1>1, IdleJob
<1>7. dest' # 0 /\ dir'[dest'].files <= 0 => broken' \/ \E x \in JobWorkers : job'[x].pc \in {"copy", "delete"}
  BY <1>1, <1>2, IdleJob DEF ToolKept, Works
<1>8. told' /\ ~broken' => \E d \in ({dest'} \union lost' \union {job'[x].back : x \in JobWorkers}) \ {0} : Folder!Whole(d)'
  BY <1>1, <1>2, IdleJob DEF ToolKept, Works
<1> QED BY <1>2, <1>4, <1>5, <1>6, <1>7, <1>8 DEF Folder!SourcesInv, FoldersTyped, EditFits, FolderJobs

\* The next job of the worker at work.
LEMMA WorksOn ==
  ASSUME NEW w \in JobWorkers, NEW i, Works(w, i), NEW j, job' = [job EXCEPT ![w] = j]
  PROVE  Works(w, j)' /\ job[w] = i
  BY DEF Works

LEMMA FolderInit == ASSUME Folder!ToolSourcesAssumption, Folder!Init PROVE Folder!SourcesInv
<1>1. Folder!Idle \in [kind : {"none", "add", "author", "update", "remove"}, pc : Folder!Places \cup {"idle"},
                        stage : 0 .. 0, back : 0 .. 0, decl : Nat, version : Nat]
  BY DEF Folder!Idle, Folder!Places
<1>2. job \in [JobWorkers -> {Folder!Idle}] /\ \A w \in JobWorkers : Folder!JobInv(w)
  BY IdleJob DEF Folder!Init, Folder!JobInv
<1>3. dir \in [Folder!Dirs -> [files : Int, ops : Nat, decl : Nat, sidecar : BOOLEAN]]
  BY DEF Folder!Init, Folder!Empty
<1>4. edit \in [pc : {"idle", "form", "open", "write"}, ops : Nat, decl : Nat, fd : 0 .. 0] /\ edit.pc = "idle"
  BY DEF Folder!Init, Folder!NoEdit
<1>5. {slot, told, broken} \subseteq BOOLEAN
  BY DEF Folder!Init
<1>6. /\ jobs = 0 /\ made = 0 /\ source = 1 /\ dest = 0 /\ lost = {} /\ edited = 0 /\ kept = 0 /\ told = FALSE
      /\ 0 \in 0 .. MaxJobs
  BY DEF Folder!Init, Folder!ToolSourcesAssumption
<1> QED BY <1>1, <1>2, <1>3, <1>4, <1>5, <1>6, IdleJob DEF Folder!SourcesInv

\* A worker is given work, or its caller goes away.
LEMMA FolderSubmit ==
  ASSUME Folder!ToolSourcesAssumption, Folder!SourcesInv, NEW w \in JobWorkers,
         NEW k \in {"add", "author", "update", "remove"}, Folder!Submit(w, k)
  PROVE  Folder!SourcesInv'
<1>1. Works(w, Folder!Idle) /\ Standing(Folder!Idle) /\ slot' = FALSE /\ jobs < MaxJobs /\ jobs' = jobs + 1
      /\ told' = (told /\ k # "remove")
      /\ UNCHANGED <<source, dest, dir, made, edit, lost, kept, broken, edited>>
  BY FolderFits DEF Folder!Submit, Folder!Begin
<1>2. PICK j : j = [Folder!Idle EXCEPT !.kind = k, !.pc = "begin"]
  OBVIOUS
<1>3. j = [kind |-> k, pc |-> "begin", stage |-> 0, back |-> 0, decl |-> 0, version |-> 0]
  BY <1>2 DEF Folder!Idle
<1>4. job' = [job EXCEPT ![w] = j]
  BY <1>2 DEF Folder!Submit, Folder!Begin
<1>5. Works(w, j)'
  BY <1>1, <1>4, WorksOn
<1>6. FoldersTyped' /\ EditFits'
  <2>1. told' \in BOOLEAN
    BY <1>1, Zenon DEF Standing, FoldersTyped
  <2>2. slot' \in BOOLEAN
    BY <1>1
  <2>3. jobs' \in 0 .. MaxJobs /\ made' \in 0 .. jobs'
    BY <1>1 DEF Standing, FoldersTyped, Folder!ToolSourcesAssumption
  <2> QED BY <1>1, <2>1, <2>2, <2>3 DEF Standing, FoldersTyped, EditFits
<1>7. JobStands(j)' /\ JobFolders(j)'
  BY <1>1, <1>3, <1>6 DEF Standing, JobStands, JobFolders, FolderJobs, FoldersTyped, Folder!Places
<1>8. ToolKept(j)'
  BY <1>1, <1>3 DEF Standing, ToolKept, Folder!Idle, Folder!Whole
<1> QED BY <1>5, <1>6, <1>7, <1>8, FolderHolds DEF Standing

Present == dest # 0 /\ Folder!Whole(dest)
Somewhere == \E d \in ({dest} \union lost) \ {0} : Folder!Whole(d)

\* The work of w ends: what is left to show of the folders and of the tool.
LEMMA FolderEnds ==
  ASSUME NEW w \in JobWorkers, NEW i, Works(w, i), NEW ok \in BOOLEAN, Folder!End(w, ok),
         ok => i.kind \notin {"add", "author"} \/ Present',
         told \in BOOLEAN, told' \in BOOLEAN /\ slot' \in BOOLEAN => FoldersTyped', EditFits',
         dest' # 0 /\ dir'[dest'].files <= 0 => broken',
         told /\ ~broken' => Somewhere'
  PROVE  Folder!SourcesInv'
<1>1. Works(w, Folder!Idle)' /\ job[w] = i /\ slot' = TRUE /\ told' = (told \/ (ok /\ asked[w] /\ job[w].kind \in {"add", "author"}))
  <2>1. PICK j : j = Folder!Idle
    OBVIOUS
  <2>2. Works(w, j)' /\ job[w] = i
    BY <2>1, WorksOn DEF Folder!End
  <2> QED BY <2>1, <2>2 DEF Folder!End, Works, Folder!Idle
<1>2. told' \in BOOLEAN
  BY <1>1, Zenon
<1>3. FoldersTyped'
  BY <1>1, <1>2
<1>4. told' => told \/ Present'
  BY <1>1
<1>5. Present' => Somewhere'
  BY DEF Present, Somewhere
<1>6. ToolKept(Folder!Idle)'
  BY <1>4, <1>5 DEF ToolKept, Folder!Idle, Somewhere
<1>7. JobStands(Folder!Idle)' /\ JobFolders(Folder!Idle)'
  BY <1>3 DEF JobStands, JobFolders, FolderJobs, FoldersTyped, Folder!Idle, Folder!Places
<1>8. PICK j : j = Folder!Idle
  OBVIOUS
<1>9. JobStands(j)' /\ JobFolders(j)'
  BY <1>7, <1>8 DEF JobStands, JobFolders, FolderJobs, Folder!Idle, Folder!Whole
<1>10. ToolKept(j)' /\ Works(w, j)'
  BY <1>1, <1>6, <1>8 DEF ToolKept, Works, Folder!Idle, Folder!Whole
<1> QED BY <1>3, <1>9, <1>10, FolderHolds DEF Standing

\* A worker whose job is at a place.
LEMMA FolderAt ==
  ASSUME Folder!SourcesInv, NEW w \in JobWorkers, NEW kinds, NEW q, Folder!At(w, kinds, q), "none" \notin kinds
  PROVE  /\ Works(w, job[w]) /\ Standing(job[w]) /\ job[w].kind \in kinds /\ job[w].pc = q
         /\ FoldersTyped /\ EditFits
  BY FolderFits DEF Folder!At, Standing

LEMMA FolderGoes ==
  ASSUME NEW w \in JobWorkers, NEW i \in FolderJobs, Works(w, i), NEW q \in Folder!Places, Folder!Goto(w, q)
  PROVE  \E j \in FolderJobs : /\ Works(w, j)' /\ j.pc = q /\ j.kind = i.kind /\ j.stage = i.stage /\ j.back = i.back
                              /\ j.version = i.version
<1>1. PICK j : j = [i EXCEPT !.pc = q]
  OBVIOUS
<1>2. j \in FolderJobs /\ j.pc = q /\ j.kind = i.kind /\ j.stage = i.stage /\ j.back = i.back /\ j.version = i.version
  BY <1>1 DEF FolderJobs
<1>3. job' = [job EXCEPT ![w] = j]
  BY <1>1 DEF Folder!Goto, Works
<1> QED BY <1>2, <1>3, WorksOn

\* Every folder there is has a number.
LEMMA Numbered ==
  ASSUME Folder!ToolSourcesAssumption, FoldersTyped
  PROVE  /\ \A d \in 1 .. jobs : d \in Folder!Dirs
         /\ dest # 0 => dest \in Folder!Dirs
         /\ \A d \in lost : d \in Folder!Dirs /\ d # 0 /\ d # dest /\ d # made + 1
         /\ made < jobs => made + 1 \in Folder!Dirs /\ made + 1 \in 1 .. jobs /\ made + 1 \notin lost /\ made + 1 # dest
<1>1. jobs <= MaxJobs /\ MaxJobs <= 2 * MaxJobs /\ MaxJobs \in Nat
  BY DEF FoldersTyped, Folder!ToolSourcesAssumption
<1> QED BY <1>1 DEF FoldersTyped, Folder!Dirs

LEMMA FolderAdd ==
  ASSUME Folder!ToolSourcesAssumption, Folder!SourcesInv, NEW w \in JobWorkers,
         Folder!AddCheck(w) \/ Folder!AddMkdir(w) \/ Folder!AddCopy(w) \/ Folder!AddRecord(w) \/ Folder!AuthorWrite(w)
  PROVE  Folder!SourcesInv'
<1>1. PICK i : i = job[w]
  OBVIOUS
<1>2. Works(w, i) /\ Standing(i) /\ FoldersTyped /\ EditFits /\ i.kind \in {"add", "author"}
  BY <1>1, FolderAt DEF Folder!AddCheck, Folder!AddMkdir, Folder!AddCopy, Folder!AddRecord, Folder!AuthorWrite
<1>3. i \in FolderJobs /\ i.stage = 0 /\ i.back = 0 /\ told \in BOOLEAN /\ i.pc = job[w].pc
      /\ UNCHANGED <<source, edit, lost, kept, jobs, edited>>
  <2>1. i.pc \in {"begin", "mkdir", "copy", "record"}
    BY <1>2 DEF Standing, JobStands
  <2> QED BY <1>1, <1>2, <2>1 DEF Standing, JobStands, JobFolders, FoldersTyped,
             Folder!AddCheck, Folder!AddMkdir, Folder!AddCopy, Folder!AddRecord, Folder!AuthorWrite
<1>4. told /\ ~broken => \E d \in ({dest} \union lost) \ {0} : Folder!Whole(d)
  BY <1>2, <1>3 DEF Standing, ToolKept
<1>5. CASE Folder!AddCheck(w)
  <2>1. i.pc = "begin" /\ UNCHANGED <<dest, dir, made, broken>>
    BY <1>3, <1>5 DEF Folder!AddCheck, Folder!At
  <2>2. CASE dest = 0 /\ Folder!Goto(w, "mkdir")
    <3>1. PICK j \in FolderJobs : Works(w, j)' /\ j.pc = "mkdir" /\ j.kind = i.kind /\ j.stage = 0 /\ j.back = 0
      BY <1>2, <1>3, <2>2, FolderGoes DEF Folder!Places
    <3>2. UNCHANGED <<slot, told>>
      BY <2>2 DEF Folder!Goto
    <3>3. FoldersTyped' /\ EditFits'
      BY <1>2, <1>3, <2>1, <3>2 DEF FoldersTyped, EditFits
    <3>4. JobStands(j)' /\ JobFolders(j)' /\ ToolKept(j)'
      BY <1>2, <1>3, <1>4, <2>1, <2>2, <3>1, <3>2
         DEF Standing, JobStands, JobFolders, ToolKept, FolderJobs, Folder!Whole
    <3> QED BY <3>1, <3>3, <3>4, FolderHolds DEF Standing
  <2>3. CASE Folder!End(w, FALSE)
    <3>1. (told' \in BOOLEAN /\ slot' \in BOOLEAN => FoldersTyped') /\ EditFits'
      BY <1>2, <1>3, <2>1 DEF FoldersTyped, EditFits
    <3>2. dest' # 0 /\ dir'[dest'].files <= 0 => broken'
      BY <1>2, <2>1 DEF Standing, ToolKept
    <3>3. told /\ ~broken' => Somewhere'
      BY <1>3, <1>4, <2>1 DEF Somewhere, Folder!Whole
    <3> QED BY <1>2, <1>3, <2>3, <3>1, <3>2, <3>3, FolderEnds
  <2> QED BY <1>5, <2>2, <2>3 DEF Folder!AddCheck
<1>6. CASE Folder!AddMkdir(w)
  <2>1. i.pc = "mkdir" /\ dest = 0 /\ made < jobs /\ UNCHANGED broken
    BY <1>2, <1>3, <1>6 DEF Folder!AddMkdir, Folder!At, Standing, JobFolders
  <2>2. /\ made' = made + 1 /\ dest' = made + 1 /\ Folder!Goto(w, "copy")
        /\ dir' = [dir EXCEPT ![made + 1] = [Folder!Empty EXCEPT !.files = -1]]
    BY <1>6, <2>1 DEF Folder!AddMkdir
  <2>3. PICK e : e = [Folder!Empty EXCEPT !.files = -1]
    OBVIOUS
  <2>4. e \in [files : Int, ops : Nat, decl : Nat, sidecar : BOOLEAN] /\ e.files = -1
    <3>1. e = [files |-> -1, ops |-> 0, decl |-> 0, sidecar |-> FALSE]
      BY <2>3 DEF Folder!Empty
    <3> QED BY <3>1
  <2>5. made + 1 \in Folder!Dirs /\ made + 1 \in 1 .. jobs /\ made + 1 \notin lost
    BY <1>2, <2>1, Numbered
  <2>6. /\ dir' \in [Folder!Dirs -> [files : Int, ops : Nat, decl : Nat, sidecar : BOOLEAN]]
        /\ dir'[made + 1].files = -1 /\ \A d \in Folder!Dirs : d # made + 1 => dir'[d] = dir[d]
    BY <1>2, <2>2, <2>3, <2>4, <2>5 DEF FoldersTyped
  <2>7. PICK j \in FolderJobs : Works(w, j)' /\ j.pc = "copy" /\ j.kind = i.kind /\ j.stage = 0 /\ j.back = 0
    BY <1>2, <1>3, <2>2, FolderGoes DEF Folder!Places
  <2>8. UNCHANGED <<slot, told>>
    BY <2>2 DEF Folder!Goto
  <2>9. FoldersTyped' /\ EditFits' /\ j \in FolderJobs'
    BY <1>2, <1>3, <2>1, <2>2, <2>5, <2>6, <2>8 DEF FoldersTyped, EditFits, FolderJobs
  <2>10. JobStands(j)' /\ JobFolders(j)'
    BY <1>2, <1>3, <2>2, <2>5, <2>6, <2>7, <2>8, <2>9 DEF Standing, JobStands, JobFolders, FoldersTyped
  <2>11. ToolKept(j)'
    <3>1. \A d \in lost : d \in Folder!Dirs /\ d # made + 1 /\ d # 0
      BY <1>2, Numbered
    <3>2. \A d \in lost : Folder!Whole(d) => Folder!Whole(d)'
      BY <2>6, <3>1 DEF Folder!Whole
    <3> QED BY <1>3, <1>4, <2>1, <2>7, <2>8, <3>1, <3>2 DEF ToolKept
  <2> QED BY <2>7, <2>9, <2>10, <2>11, FolderHolds DEF Standing
<1>7. CASE Folder!AddCopy(w)
  <2>1. i.pc = "copy" /\ dest # 0 /\ dir[dest].files = -1 /\ UNCHANGED <<made, broken>> /\ dest \in Folder!Dirs
    BY <1>2, <1>3, <1>7, Numbered DEF Folder!AddCopy, Folder!At, Standing, JobFolders
  <2>2. told /\ ~broken => \E d \in lost : Folder!Whole(d)
    BY <1>4, <2>1 DEF Folder!Whole
  <2>3. \A d \in lost : d \in Folder!Dirs /\ d # dest /\ d # 0
    BY <1>2, Numbered
  <2>4. CASE /\ dir' = [dir EXCEPT ![dest].files = source, ![dest].ops = IF job[w].kind = "add" THEN source ELSE 0]
             /\ Folder!Goto(w, "record") /\ UNCHANGED dest
    <3>1. PICK e : e = [dir[dest] EXCEPT !.files = source, !.ops = IF job[w].kind = "add" THEN source ELSE 0]
      OBVIOUS
    <3>2. /\ e \in [files : Int, ops : Nat, decl : Nat, sidecar : BOOLEAN] /\ e.files > 0
          /\ i.kind = "add" => e.ops # 0
      <4>1. e = [files |-> source, ops |-> IF i.kind = "add" THEN source ELSE 0,
                 decl |-> dir[dest].decl, sidecar |-> dir[dest].sidecar]
        BY <1>1, <1>2, <2>1, <3>1 DEF FoldersTyped
      <4> QED BY <1>2, <2>1, <4>1 DEF FoldersTyped
    <3>3. dir' = [dir EXCEPT ![dest] = e]
      BY <2>4, <3>1
    <3>4. /\ dir' \in [Folder!Dirs -> [files : Int, ops : Nat, decl : Nat, sidecar : BOOLEAN]]
          /\ dir'[dest] = e /\ \A d \in lost : dir'[d] = dir[d]
      BY <1>2, <2>1, <2>3, <3>2, <3>3 DEF FoldersTyped
    <3>5. PICK j \in FolderJobs : Works(w, j)' /\ j.pc = "record" /\ j.kind = i.kind /\ j.stage = 0 /\ j.back = 0
      BY <1>2, <1>3, <2>4, FolderGoes DEF Folder!Places
    <3>6. UNCHANGED <<slot, told, dest>>
      BY <2>4 DEF Folder!Goto
    <3>7. FoldersTyped' /\ EditFits'
      BY <1>2, <1>3, <2>1, <3>4, <3>6 DEF FoldersTyped, EditFits
    <3>8. JobStands(j)' /\ JobFolders(j)'
      BY <1>2, <1>3, <2>1, <3>2, <3>4, <3>5, <3>6 DEF Standing, JobStands, JobFolders, FolderJobs
    <3>9. ToolKept(j)'
      BY <1>3, <2>1, <2>2, <2>3, <3>2, <3>4, <3>6 DEF ToolKept, Folder!Whole
    <3> QED BY <3>5, <3>7, <3>8, <3>9, FolderHolds DEF Standing
  <2>5. CASE dest' = 0 /\ dir' = [dir EXCEPT ![dest] = Folder!Empty] /\ Folder!End(w, FALSE)
    <3>1. /\ dir' \in [Folder!Dirs -> [files : Int, ops : Nat, decl : Nat, sidecar : BOOLEAN]]
          /\ \A d \in lost : dir'[d] = dir[d]
      BY <1>2, <2>1, <2>3, <2>5 DEF FoldersTyped, Folder!Empty
    <3>2. (told' \in BOOLEAN /\ slot' \in BOOLEAN => FoldersTyped') /\ EditFits'
      BY <1>2, <1>3, <2>1, <2>3, <2>5, <3>1 DEF FoldersTyped, EditFits
    <3>3. told /\ ~broken' => Somewhere'
      BY <1>3, <2>1, <2>2, <2>3, <3>1 DEF Somewhere, Folder!Whole
    <3> QED BY <1>2, <1>3, <2>5, <3>2, <3>3, FolderEnds
  <2> QED BY <1>7, <2>4, <2>5 DEF Folder!AddCopy
<1>8. CASE Folder!AddRecord(w) \/ Folder!AuthorWrite(w)
  <2>1. i.pc = "record" /\ dest # 0 /\ dir[dest].files > 0 /\ (i.kind = "add" => dir[dest].ops # 0)
        /\ dest \in Folder!Dirs /\ UNCHANGED <<dest, made>>
    BY <1>2, <1>3, <1>8, Numbered DEF Folder!AddRecord, Folder!AuthorWrite, Folder!At, Standing, JobFolders
  <2>2. ASSUME NEW e \in [files : Int, ops : Nat, decl : Nat, sidecar : BOOLEAN], e.ops # 0, e.files > 0,
               dir' = [dir EXCEPT ![dest] = e], Folder!End(w, TRUE), UNCHANGED broken
        PROVE  Folder!SourcesInv'
    <3>1. dir' \in [Folder!Dirs -> [files : Int, ops : Nat, decl : Nat, sidecar : BOOLEAN]] /\ dir'[dest] = e
      BY <1>2, <2>1, <2>2 DEF FoldersTyped
    <3>2. (told' \in BOOLEAN /\ slot' \in BOOLEAN => FoldersTyped') /\ EditFits'
      BY <1>2, <1>3, <2>1, <2>2, <3>1 DEF FoldersTyped, EditFits
    <3>3. Present'
      BY <2>1, <2>2, <3>1 DEF Present, Folder!Whole
    <3>4. Somewhere'
      BY <3>3 DEF Present, Somewhere
    <3>5. ~(dir'[dest'].files <= 0)
      BY <2>1, <2>2, <3>1
    <3> QED BY <1>2, <1>3, <2>2, <3>2, <3>3, <3>4, <3>5, FolderEnds
  <2>3. CASE broken' = TRUE /\ Folder!End(w, FALSE) /\ UNCHANGED dir
    <3>1. (told' \in BOOLEAN /\ slot' \in BOOLEAN => FoldersTyped') /\ EditFits'
      BY <1>2, <1>3, <2>1, <2>3 DEF FoldersTyped, EditFits
    <3> QED BY <1>2, <1>3, <2>3, <3>1, FolderEnds
  <2>4. CASE dir' = [dir EXCEPT ![dest].sidecar = TRUE] /\ Folder!End(w, TRUE) /\ UNCHANGED broken /\ i.kind = "add"
    <3>1. PICK e : e = [dir[dest] EXCEPT !.sidecar = TRUE]
      OBVIOUS
    <3>2. e = [files |-> dir[dest].files, ops |-> dir[dest].ops, decl |-> dir[dest].decl, sidecar |-> TRUE]
      BY <1>2, <2>1, <3>1, Zenon DEF FoldersTyped
    <3> QED BY <1>2, <2>1, <2>2, <2>4, <3>1, <3>2 DEF FoldersTyped
  <2>5. CASE dir' = [dir EXCEPT ![dest].ops = dir[dest].files] /\ Folder!End(w, TRUE) /\ UNCHANGED broken
    <3>1. PICK e : e = [dir[dest] EXCEPT !.ops = dir[dest].files]
      OBVIOUS
    <3>2. e \in [files : Int, ops : Nat, decl : Nat, sidecar : BOOLEAN] /\ e.ops # 0 /\ e.files > 0
      BY <1>2, <2>1, <3>1 DEF FoldersTyped
    <3> QED BY <2>2, <2>5, <3>1, <3>2
  <2> QED BY <1>1, <1>8, <2>3, <2>4, <2>5 DEF Folder!AddRecord, Folder!AuthorWrite, Folder!At
<1> QED BY <1>5, <1>6, <1>7, <1>8

\* The folders of an update: what it stages is whole, and what it set aside comes back or has
\* been replaced.
LEMMA FolderUpdate ==
  ASSUME Folder!ToolSourcesAssumption, Folder!SourcesInv, NEW w \in JobWorkers,
         \/ Folder!UpdateRead(w) \/ Folder!UpdateFetch(w) \/ Folder!UpdateStage(w)
         \/ Folder!UpdateAside(w) \/ Folder!UpdateSwap(w) \/ Folder!UpdateClean(w)
  PROVE  Folder!SourcesInv'
<1>1. PICK i : i = job[w]
  OBVIOUS
<1>2. Works(w, i) /\ Standing(i) /\ FoldersTyped /\ EditFits /\ i.kind = "update"
  <2>1. \E q : Folder!At(w, {"update"}, q)
    BY DEF Folder!UpdateRead, Folder!UpdateFetch, Folder!UpdateStage, Folder!UpdateAside, Folder!UpdateSwap, Folder!UpdateClean
  <2> QED BY <1>1, <2>1, FolderAt
<1>3. i \in FolderJobs /\ told \in BOOLEAN /\ i.pc = job[w].pc /\ JobFolders(i) /\ JobStands(i) /\ ToolKept(i)
      /\ UNCHANGED <<source, edit, lost, kept, jobs, edited, broken>>
  <2>1. i \in FolderJobs /\ told \in BOOLEAN /\ JobFolders(i) /\ JobStands(i) /\ ToolKept(i)
    BY <1>2 DEF Standing, JobStands, FoldersTyped
  <2>2. UNCHANGED <<source, edit, lost, kept, jobs, edited, broken>>
    BY DEF Folder!UpdateRead, Folder!UpdateFetch, Folder!UpdateStage, Folder!UpdateAside, Folder!UpdateSwap, Folder!UpdateClean
  <2> QED BY <1>1, <2>1, <2>2
<1>4. ASSUME UNCHANGED <<dest, dir, made>>, i.back = 0, i.pc \notin {"copy", "delete"}, Folder!End(w, FALSE)
      PROVE  Folder!SourcesInv'
  <2>1. (told' \in BOOLEAN /\ slot' \in BOOLEAN => FoldersTyped') /\ EditFits'
    BY <1>2, <1>3, <1>4 DEF FoldersTyped, EditFits
  <2>2. dest' # 0 /\ dir'[dest'].files <= 0 => broken'
    BY <1>3, <1>4 DEF ToolKept
  <2>3. told /\ ~broken' => Somewhere'
    BY <1>3, <1>4 DEF Somewhere, ToolKept, Folder!Whole
  <2> QED BY <1>2, <1>3, <1>4, <2>1, <2>2, <2>3, FolderEnds
<1>5. ASSUME NEW j \in FolderJobs, job' = [job EXCEPT ![w] = j], UNCHANGED <<dest, dir, made, slot, told>>,
             j.kind = "update", j.pc \in {"fetch", "stage"}, i.pc \in {"begin", "fetch"}, j.stage = 0, j.back = 0,
             j.pc = "stage" => j.version > 0
      PROVE  Folder!SourcesInv'
  <2>1. Works(w, j)'
    BY <1>2, <1>5, WorksOn
  <2>2. FoldersTyped' /\ EditFits'
    BY <1>2, <1>3, <1>5 DEF FoldersTyped, EditFits
  <2>3. JobStands(j)' /\ JobFolders(j)'
    BY <1>2, <1>3, <1>5 DEF JobStands, JobFolders, FolderJobs
  <2>4. ToolKept(j)'
    BY <1>2, <1>3, <1>5 DEF ToolKept, JobFolders, Folder!Whole
  <2> QED BY <2>1, <2>2, <2>3, <2>4, FolderHolds DEF Standing
<1>6. CASE Folder!UpdateRead(w)
  <2>1. i.pc = "begin" /\ i.stage = 0 /\ i.back = 0 /\ UNCHANGED <<dest, dir, made>>
    BY <1>3, <1>6 DEF Folder!UpdateRead, Folder!At, JobFolders
  <2>2. CASE Folder!Discoverable /\ job' = [job EXCEPT ![w].pc = "fetch", ![w].decl = dir[dest].decl] /\ UNCHANGED <<slot, told>>
    <3>1. PICK j : j = [i EXCEPT !.pc = "fetch", !.decl = dir[dest].decl]
      OBVIOUS
    <3>2. dir[dest].decl \in Nat
      BY <1>2, <2>2, Numbered DEF Folder!Discoverable, FoldersTyped
    <3>3. j \in FolderJobs /\ j.pc = "fetch" /\ j.kind = "update" /\ j.stage = 0 /\ j.back = 0
      BY <1>2, <1>3, <2>1, <3>1, <3>2 DEF FolderJobs, Folder!Places
    <3>4. job' = [job EXCEPT ![w] = j]
      BY <1>1, <2>2, <3>1
    <3> QED BY <1>5, <2>1, <2>2, <3>3, <3>4
  <2>3. CASE Folder!End(w, FALSE)
    BY <1>4, <2>1, <2>3
  <2> QED BY <1>6, <2>2, <2>3 DEF Folder!UpdateRead
<1>7. CASE Folder!UpdateFetch(w)
  <2>1. i.pc = "fetch" /\ i.stage = 0 /\ i.back = 0 /\ UNCHANGED <<dest, dir, made>> /\ source > 0 /\ source \in Nat
    BY <1>2, <1>3, <1>7 DEF Folder!UpdateFetch, Folder!At, JobFolders, FoldersTyped
  <2>2. CASE job' = [job EXCEPT ![w].pc = "stage", ![w].version = source] /\ UNCHANGED <<slot, told>>
    <3>1. PICK j : j = [i EXCEPT !.pc = "stage", !.version = source]
      OBVIOUS
    <3>2. j \in FolderJobs /\ j.pc = "stage" /\ j.kind = "update" /\ j.stage = 0 /\ j.back = 0 /\ j.version > 0
      BY <1>2, <1>3, <2>1, <3>1 DEF FolderJobs, Folder!Places
    <3>3. job' = [job EXCEPT ![w] = j]
      BY <1>1, <2>2, <3>1
    <3> QED BY <1>5, <2>1, <2>2, <3>2, <3>3
  <2>3. CASE Folder!End(w, FALSE)
    BY <1>4, <2>1, <2>3
  <2> QED BY <1>7, <2>2, <2>3 DEF Folder!UpdateFetch
<1>8. CASE Folder!UpdateStage(w)
  <2>1. i.pc = "stage" /\ i.stage = 0 /\ i.back = 0 /\ made < jobs /\ i.version > 0 /\ UNCHANGED dest
    BY <1>3, <1>8 DEF Folder!UpdateStage, Folder!At, JobFolders
  <2>2. CASE /\ made' = made + 1
             /\ dir' = [dir EXCEPT ![made + 1] =
                   [files |-> job[w].version, ops |-> job[w].version, decl |-> job[w].decl, sidecar |-> TRUE]]
             /\ job' = [job EXCEPT ![w].pc = "aside", ![w].stage = made + 1] /\ UNCHANGED <<slot, told>>
    <3>1. PICK e : e = [files |-> i.version, ops |-> i.version, decl |-> i.decl, sidecar |-> TRUE]
      OBVIOUS
    <3>2. e \in [files : Int, ops : Nat, decl : Nat, sidecar : BOOLEAN] /\ e.files > 0 /\ e.ops # 0
      BY <1>3, <2>1, <3>1 DEF FolderJobs
    <3>3. made + 1 \in Folder!Dirs /\ made + 1 \in 1 .. jobs /\ made + 1 \notin lost /\ made + 1 # dest
      BY <1>2, <2>1, Numbered
    <3>4. /\ dir' \in [Folder!Dirs -> [files : Int, ops : Nat, decl : Nat, sidecar : BOOLEAN]]
          /\ dir'[made + 1] = e /\ \A d \in Folder!Dirs : d # made + 1 => dir'[d] = dir[d]
      BY <1>1, <1>2, <2>2, <3>1, <3>2, <3>3 DEF FoldersTyped
    <3>5. PICK j : j = [i EXCEPT !.pc = "aside", !.stage = made + 1]
      OBVIOUS
    <3>6. j \in FolderJobs' /\ j.pc = "aside" /\ j.kind = "update" /\ j.stage = made + 1 /\ j.back = 0
      <4>1. j = [kind |-> "update", pc |-> "aside", stage |-> made + 1, back |-> 0, decl |-> i.decl, version |-> i.version]
        BY <1>2, <1>3, <2>1, <3>5 DEF FolderJobs
      <4>2. made + 1 \in 0 .. made' /\ 0 \in 0 .. made'
        BY <1>2, <2>2 DEF FoldersTyped
      <4> QED BY <1>3, <4>1, <4>2 DEF FolderJobs, Folder!Places
    <3>7. Works(w, j)'
      <4>1. job' = [job EXCEPT ![w] = j]
        BY <1>1, <2>2, <3>5
      <4> QED BY <1>2, <4>1, WorksOn
    <3>8. FoldersTyped' /\ EditFits'
      BY <1>2, <1>3, <2>1, <2>2, <3>3, <3>4 DEF FoldersTyped, EditFits
    <3>9. JobStands(j)'
      BY <1>2, <1>3, <2>2, <3>6 DEF JobStands
    <3>10. JobFolders(j)'
      BY <1>3, <2>1, <2>2, <3>2, <3>3, <3>4, <3>6, <1>2 DEF JobFolders, Folder!Whole, FoldersTyped
    <3>11. ToolKept(j)'
      <4>1. \A d \in ({dest} \union lost) \ {0} : dir'[d] = dir[d]
        BY <1>2, <3>3, <3>4, Numbered
      <4> QED BY <1>3, <2>1, <2>2, <3>6, <4>1 DEF ToolKept, Folder!Whole
    <3> QED BY <3>7, <3>8, <3>9, <3>10, <3>11, FolderHolds DEF Standing
  <2>3. CASE Folder!End(w, FALSE) /\ UNCHANGED <<dir, made>>
    BY <1>4, <2>1, <2>3
  <2> QED BY <1>8, <2>2, <2>3 DEF Folder!UpdateStage
<1>9. CASE Folder!UpdateAside(w)
  <2>1. i.pc = "aside" /\ i.stage # 0 /\ i.stage # dest /\ i.back = 0 /\ Folder!Whole(i.stage) /\ i.stage \notin lost
        /\ UNCHANGED <<dir, made>>
    BY <1>3, <1>9 DEF Folder!UpdateAside, Folder!At, JobFolders
  <2>2. CASE /\ dest # 0 /\ dest' = 0
             /\ job' = [job EXCEPT ![w].pc = "swap", ![w].back = dest] /\ UNCHANGED <<slot, told>>
    <3>1. PICK j : j = [i EXCEPT !.pc = "swap", !.back = dest]
      OBVIOUS
    <3>2. j \in FolderJobs /\ j.pc = "swap" /\ j.kind = "update" /\ j.stage = i.stage /\ j.back = dest
      BY <1>2, <1>3, <2>1, <3>1 DEF FolderJobs, Folder!Places, FoldersTyped
    <3>3. Works(w, j)'
      <4>1. job' = [job EXCEPT ![w] = j]
        BY <1>1, <2>2, <3>1
      <4> QED BY <1>2, <4>1, WorksOn
    <3>4. FoldersTyped' /\ EditFits'
      BY <1>2, <1>3, <2>1, <2>2 DEF FoldersTyped, EditFits
    <3>5. JobStands(j)' /\ JobFolders(j)'
      BY <1>2, <1>3, <2>1, <2>2, <3>2 DEF JobStands, JobFolders, FolderJobs, FoldersTyped, Folder!Whole, ToolKept
    <3>6. ToolKept(j)'
      BY <1>3, <2>1, <2>2, <3>2 DEF ToolKept, Folder!Whole
    <3> QED BY <3>3, <3>4, <3>5, <3>6, FolderHolds DEF Standing
  <2>3. CASE Folder!End(w, FALSE) /\ UNCHANGED dest
    BY <1>4, <2>1, <2>3
  <2> QED BY <1>9, <2>2, <2>3 DEF Folder!UpdateAside
<1>10. CASE Folder!UpdateSwap(w)
  <2>1. /\ i.pc = "swap" /\ i.stage # 0 /\ i.back # 0 /\ i.back # i.stage /\ Folder!Whole(i.stage)
        /\ i.stage \notin lost /\ i.back \notin lost /\ dest = 0 /\ (dir[i.back].files <= 0 => broken)
        /\ UNCHANGED <<dir, made>> /\ i.stage \in 1 .. made /\ i.back \in 1 .. made
    BY <1>3, <1>2, <1>10 DEF Folder!UpdateSwap, Folder!At, JobFolders, FolderJobs, FoldersTyped
  <2>2. CASE dest' = i.stage /\ Folder!Goto(w, "clean")
    <3>1. PICK j \in FolderJobs : /\ Works(w, j)' /\ j.pc = "clean" /\ j.kind = i.kind /\ j.stage = i.stage
                                /\ j.back = i.back /\ j.version = i.version
      BY <1>2, <1>3, <2>2, FolderGoes DEF Folder!Places
    <3>2. UNCHANGED <<slot, told>>
      BY <2>2 DEF Folder!Goto
    <3>3. FoldersTyped' /\ EditFits'
      BY <1>2, <1>3, <2>1, <2>2, <3>2 DEF FoldersTyped, EditFits
    <3>4. JobStands(j)' /\ JobFolders(j)'
      <4>1. j \in FolderJobs'
        BY <2>1, <3>1 DEF FolderJobs
      <4>2. JobStands(j)'
        BY <1>2, <1>3, <3>1, <3>2, <4>1 DEF JobStands
      <4> QED BY <2>1, <2>2, <3>1, <1>3, <4>2 DEF JobFolders, Folder!Whole
    <3>5. ToolKept(j)'
      <4>1. dir[i.stage].files \in Int /\ dir[i.stage].files > 0
        BY <1>2, <2>1, Numbered DEF FoldersTyped, Folder!Whole
      <4>2. ~(dir'[dest'].files <= 0)
        BY <2>1, <2>2, <4>1
      <4>3. Folder!Whole(i.stage)'
        BY <2>1 DEF Folder!Whole
      <4> QED BY <2>1, <2>2, <4>2, <4>3 DEF ToolKept
    <3> QED BY <3>1, <3>3, <3>4, <3>5, FolderHolds DEF Standing
  <2>3. CASE dest' = i.back /\ Folder!End(w, FALSE)
    <3>1. (told' \in BOOLEAN /\ slot' \in BOOLEAN => FoldersTyped') /\ EditFits'
      BY <1>2, <1>3, <2>1, <2>3 DEF FoldersTyped, EditFits
    <3>2. dest' # 0 /\ dir'[dest'].files <= 0 => broken'
      BY <1>3, <2>1, <2>3
    <3>3. told /\ ~broken' => Somewhere'
      BY <1>3, <2>1, <2>3 DEF Somewhere, ToolKept, Folder!Whole
    <3> QED BY <1>2, <1>3, <2>3, <3>1, <3>2, <3>3, FolderEnds
  <2> QED BY <1>1, <1>10, <2>2, <2>3 DEF Folder!UpdateSwap
<1>11. CASE Folder!UpdateClean(w)
  <2>1. /\ i.pc = "clean" /\ i.stage # 0 /\ i.back # 0 /\ i.back # i.stage /\ Folder!Whole(i.stage)
        /\ i.back \notin lost /\ dest = i.stage /\ UNCHANGED <<dest, made>> /\ i.back \in Folder!Dirs
        /\ dir' = [dir EXCEPT ![i.back] = Folder!Empty] /\ Folder!End(w, TRUE) /\ dest \in Folder!Dirs
    <3>1. i.back \in 1 .. jobs /\ i.stage \in 1 .. jobs
      BY <1>2, <1>3, <1>11 DEF Folder!UpdateClean, Folder!At, JobFolders, FolderJobs, FoldersTyped
    <3> QED BY <1>1, <1>2, <1>3, <1>11, <3>1, Numbered DEF Folder!UpdateClean, Folder!At, JobFolders
  <2>2. dir' \in [Folder!Dirs -> [files : Int, ops : Nat, decl : Nat, sidecar : BOOLEAN]] /\ dir'[dest] = dir[dest]
    BY <1>2, <2>1 DEF FoldersTyped, Folder!Empty
  <2>3. (told' \in BOOLEAN /\ slot' \in BOOLEAN => FoldersTyped') /\ EditFits'
    BY <1>2, <1>3, <2>1, <2>2 DEF FoldersTyped, EditFits
  <2>4. Present'
    BY <2>1, <2>2 DEF Present, Folder!Whole
  <2>5. Somewhere'
    BY <2>4 DEF Present, Somewhere
  <2>6. ~(dir'[dest'].files <= 0)
    BY <1>2, <2>1, <2>2 DEF Folder!Whole, FoldersTyped
  <2> QED BY <1>2, <1>3, <2>1, <2>3, <2>5, <2>6, FolderEnds
<1> QED BY <1>6, <1>7, <1>8, <1>9, <1>10, <1>11

LEMMA FolderRemove ==
  ASSUME Folder!ToolSourcesAssumption, Folder!SourcesInv, NEW w \in JobWorkers,
         Folder!RemoveStart(w) \/ Folder!RemoveDelete(w)
  PROVE  Folder!SourcesInv'
<1>1. PICK i : i = job[w]
  OBVIOUS
<1>2. Works(w, i) /\ Standing(i) /\ FoldersTyped /\ EditFits /\ i.kind = "remove"
  <2>1. \E q : Folder!At(w, {"remove"}, q)
    BY DEF Folder!RemoveStart, Folder!RemoveDelete
  <2> QED BY <1>1, <2>1, FolderAt
<1>3. /\ i \in FolderJobs /\ told = FALSE /\ i.pc = job[w].pc /\ i.stage = 0 /\ i.back = 0 /\ ToolKept(i)
      /\ UNCHANGED <<source, edit, lost, made, jobs, edited>>
  <2>1. i \in FolderJobs /\ told = FALSE /\ i.stage = 0 /\ i.back = 0 /\ ToolKept(i)
    BY <1>2 DEF Standing, JobStands, JobFolders, FoldersTyped
  <2> QED BY <1>1, <2>1 DEF Folder!RemoveStart, Folder!RemoveDelete
<1>4. CASE Folder!RemoveStart(w)
  <2>1. i.pc = "begin" /\ UNCHANGED <<dest, kept, broken>>
    BY <1>3, <1>4 DEF Folder!RemoveStart, Folder!At
  <2>2. CASE Folder!End(w, FALSE) /\ UNCHANGED dir
    <3>1. (told' \in BOOLEAN /\ slot' \in BOOLEAN => FoldersTyped') /\ EditFits'
      BY <1>2, <1>3, <2>1, <2>2 DEF FoldersTyped, EditFits
    <3>2. dest' # 0 /\ dir'[dest'].files <= 0 => broken'
      BY <1>3, <2>1, <2>2 DEF ToolKept
    <3> QED BY <1>2, <1>3, <2>2, <3>1, <3>2, FolderEnds
  <2>3. CASE dest # 0 /\ dir' = [dir EXCEPT ![dest].files = -1] /\ Folder!Goto(w, "delete")
    <3>1. PICK e : e = [dir[dest] EXCEPT !.files = -1]
      OBVIOUS
    <3>2. dest \in Folder!Dirs
      BY <1>2, <2>3, Numbered
    <3>3. e \in [files : Int, ops : Nat, decl : Nat, sidecar : BOOLEAN]
      BY <1>2, <3>1, <3>2 DEF FoldersTyped
    <3>4. dir' \in [Folder!Dirs -> [files : Int, ops : Nat, decl : Nat, sidecar : BOOLEAN]]
      BY <1>2, <2>3, <3>1, <3>2, <3>3 DEF FoldersTyped
    <3>5. PICK j \in FolderJobs : /\ Works(w, j)' /\ j.pc = "delete" /\ j.kind = i.kind /\ j.stage = i.stage
                                /\ j.back = i.back /\ j.version = i.version
      BY <1>2, <1>3, <2>3, FolderGoes DEF Folder!Places
    <3>6. UNCHANGED <<slot, told>>
      BY <2>3 DEF Folder!Goto
    <3>7. FoldersTyped' /\ EditFits'
      BY <1>2, <1>3, <2>1, <3>4, <3>6 DEF FoldersTyped, EditFits
    <3>8. JobStands(j)'
      <4>1. j \in FolderJobs'
        BY <1>3, <3>5 DEF FolderJobs
      <4> QED BY <1>2, <1>3, <3>5, <3>6, <4>1 DEF Standing, JobStands
    <3>9. JobFolders(j)'
      BY <1>3, <3>5 DEF JobFolders
    <3>10. ToolKept(j)'
      BY <1>3, <3>5, <3>6 DEF ToolKept
    <3> QED BY <3>5, <3>7, <3>8, <3>9, <3>10, FolderHolds DEF Standing
  <2> QED BY <1>4, <2>2, <2>3 DEF Folder!RemoveStart, Folder!Discoverable
<1>5. CASE Folder!RemoveDelete(w)
  <2>1. CASE dest' = 0 /\ dir' = [dir EXCEPT ![dest] = Folder!Empty] /\ kept' = 0 /\ Folder!End(w, TRUE) /\ UNCHANGED broken
    <3>1. dir' \in [Folder!Dirs -> [files : Int, ops : Nat, decl : Nat, sidecar : BOOLEAN]]
      <4>1. Folder!Empty \in [files : Int, ops : Nat, decl : Nat, sidecar : BOOLEAN]
        BY DEF Folder!Empty
      <4> QED BY <1>2, <2>1, <4>1 DEF FoldersTyped
    <3>2. (told' \in BOOLEAN /\ slot' \in BOOLEAN => FoldersTyped') /\ EditFits'
      BY <1>2, <1>3, <2>1, <3>1 DEF FoldersTyped, EditFits
    <3> QED BY <1>2, <1>3, <2>1, <3>2, FolderEnds
  <2>2. CASE broken' = TRUE /\ Folder!End(w, FALSE) /\ UNCHANGED <<dest, dir, kept>>
    <3>1. (told' \in BOOLEAN /\ slot' \in BOOLEAN => FoldersTyped') /\ EditFits'
      BY <1>2, <1>3, <2>2 DEF FoldersTyped, EditFits
    <3> QED BY <1>2, <1>3, <2>2, <3>1, FolderEnds
  <2> QED BY <1>5, <2>1, <2>2 DEF Folder!RemoveDelete
<1> QED BY <1>4, <1>5

\* What an edit, a release of the source and a caller that goes away keep: no folder loses its
\* files or its operations.
LEMMA FolderEdited ==
  ASSUME Folder!ToolSourcesAssumption, Folder!SourcesInv, FoldersTyped', EditFits',
         UNCHANGED <<dest, made, slot, job, lost, told, broken, jobs>>,
         \A d \in Folder!Dirs : dir'[d].files = dir[d].files /\ (dir[d].ops # 0 => dir'[d].ops # 0)
  PROVE  Folder!SourcesInv'
<1>1. PICK w, j : Works(w, j) /\ Standing(j)
  BY FolderFits
<1>2. FoldersTyped /\ j \in FolderJobs /\ JobStands(j) /\ JobFolders(j) /\ ToolKept(j)
  BY <1>1 DEF Standing, JobStands
<1>3. /\ \A d \in lost : d \in Folder!Dirs
      /\ dest # 0 => dest \in Folder!Dirs
      /\ j.stage # 0 => j.stage \in Folder!Dirs
      /\ j.back # 0 => j.back \in Folder!Dirs
  <2>1. (j.stage # 0 => j.stage \in 1 .. jobs) /\ (j.back # 0 => j.back \in 1 .. jobs)
    BY <1>2 DEF FolderJobs, FoldersTyped
  <2> QED BY <1>2, <2>1, Numbered
<1>4. \A d \in Folder!Dirs : Folder!Whole(d) => Folder!Whole(d)'
  BY DEF Folder!Whole
<1>5. Works(w, j)' /\ JobStands(j)'
  BY <1>1, <1>2 DEF Works, JobStands, FolderJobs
<1>6. JobFolders(j)'
  BY <1>2, <1>3, <1>4 DEF JobFolders
<1>7. ToolKept(j)'
  BY <1>2, <1>3, <1>4 DEF ToolKept
<1> QED BY <1>5, <1>6, <1>7, FolderHolds DEF Standing

LEMMA FolderEdits ==
  ASSUME Folder!ToolSourcesAssumption, Folder!SourcesInv,
         \/ Folder!EditRead \/ Folder!EditPage \/ Folder!SaveForm \/ Folder!EditOpen \/ Folder!EditWrite
         \/ Folder!Release \/ (\E w \in JobWorkers : Folder!Hangup(w)) \/ UNCHANGED Folder!vars
  PROVE  Folder!SourcesInv'
<1>1. FoldersTyped /\ EditFits
  BY DEF Folder!SourcesInv, FoldersTyped, EditFits
<1>2. CASE Folder!EditRead \/ Folder!EditPage
  <2>1. dir[dest].ops \in Nat /\ dir[dest].ops # 0
    BY <1>1, <1>2, Numbered DEF Folder!EditRead, Folder!EditPage, Folder!Discoverable, FoldersTyped
  <2>2. /\ edited' = edited + 1
        /\ edit' = [pc |-> edit'.pc, ops |-> dir[dest].ops, decl |-> edited + 1, fd |-> 0] /\ edit'.pc \in {"open", "form"}
    BY <1>2 DEF Folder!EditRead, Folder!EditPage
  <2>3. UNCHANGED <<source, dest, dir, made, slot, job, lost, told, kept, broken, jobs>>
    BY <1>2 DEF Folder!EditRead, Folder!EditPage
  <2>4. FoldersTyped' /\ EditFits'
    BY <1>1, <2>1, <2>2, <2>3 DEF FoldersTyped, EditFits
  <2> QED BY <2>3, <2>4, FolderEdited
<1>3. CASE Folder!SaveForm \/ Folder!EditOpen
  <2>1. UNCHANGED <<source, dest, dir, made, slot, job, lost, told, kept, broken, jobs, edited>>
    BY <1>3 DEF Folder!SaveForm, Folder!EditOpen
  <2>2. edit' = Folder!NoEdit \/ edit' = [edit EXCEPT !.pc = "open"] \/ (edit' = [edit EXCEPT !.pc = "write", !.fd = dest] /\ dest # 0)
    BY <1>3 DEF Folder!SaveForm, Folder!EditOpen
  <2>3. edit.ops # 0
    BY <1>1, <1>3 DEF Folder!SaveForm, Folder!EditOpen, EditFits
  <2>4. EditFits'
    <3>1. CASE edit' = Folder!NoEdit
      BY <1>1, <2>1, <3>1 DEF EditFits, FoldersTyped, Folder!NoEdit
    <3>2. CASE edit' = [edit EXCEPT !.pc = "open"]
      BY <1>1, <2>1, <2>3, <3>2 DEF EditFits, FoldersTyped
    <3>3. CASE edit' = [edit EXCEPT !.pc = "write", !.fd = dest] /\ dest # 0
      <4>1. edit' = [pc |-> "write", ops |-> edit.ops, decl |-> edit.decl, fd |-> dest]
        BY <1>1, <3>3 DEF EditFits
      <4> QED BY <1>1, <2>1, <2>3, <3>3, <4>1 DEF EditFits, FoldersTyped
    <3> QED BY <2>2, <3>1, <3>2, <3>3
  <2>5. FoldersTyped'
    BY <1>1, <2>1 DEF FoldersTyped
  <2> QED BY <2>1, <2>4, <2>5, FolderEdited
<1>4. CASE Folder!EditWrite
  <2>1. edit.fd \in Folder!Dirs /\ edit.ops # 0 /\ edit.ops \in Nat /\ edit.decl \in Nat
    <3>1. edit.fd \in 1 .. jobs /\ edit.ops # 0 /\ edit.ops \in Nat /\ edit.decl \in Nat
      BY <1>1, <1>4 DEF Folder!EditWrite, EditFits, FoldersTyped
    <3> QED BY <1>1, <3>1, Numbered
  <2>2. edit' = Folder!NoEdit /\ UNCHANGED <<source, dest, made, slot, job, lost, told, broken, jobs, edited>>
    BY <1>4 DEF Folder!EditWrite
  <2>3. EditFits'
    BY <1>1, <2>2 DEF EditFits, FoldersTyped, Folder!NoEdit
  <2>4. CASE UNCHANGED <<dir, kept>>
    <3>1. FoldersTyped'
      BY <1>1, <2>2, <2>4 DEF FoldersTyped
    <3> QED BY <2>2, <2>3, <2>4, <3>1, FolderEdited
  <2>5. CASE dir' = [dir EXCEPT ![edit.fd].ops = edit.ops, ![edit.fd].decl = edit.decl] /\ kept' = edit.decl
    <3>1. PICK e : e = [dir[edit.fd] EXCEPT !.ops = edit.ops, !.decl = edit.decl]
      OBVIOUS
    <3>2. e = [files |-> dir[edit.fd].files, ops |-> edit.ops, decl |-> edit.decl, sidecar |-> dir[edit.fd].sidecar]
      BY <1>1, <2>1, <3>1 DEF FoldersTyped
    <3>3. dir' = [dir EXCEPT ![edit.fd] = e]
      BY <1>1, <2>1, <2>5, <3>1 DEF FoldersTyped
    <3>4. e \in [files : Int, ops : Nat, decl : Nat, sidecar : BOOLEAN]
      BY <1>1, <2>1, <3>2 DEF FoldersTyped
    <3>5. /\ dir' \in [Folder!Dirs -> [files : Int, ops : Nat, decl : Nat, sidecar : BOOLEAN]]
          /\ \A d \in Folder!Dirs : dir'[d].files = dir[d].files /\ (dir[d].ops # 0 => dir'[d].ops # 0)
      BY <1>1, <2>1, <3>2, <3>3, <3>4 DEF FoldersTyped
    <3>6. FoldersTyped'
      BY <1>1, <2>1, <2>2, <2>5, <3>5 DEF FoldersTyped
    <3> QED BY <2>2, <2>3, <3>5, <3>6, FolderEdited
  <2> QED BY <1>4, <2>4, <2>5 DEF Folder!EditWrite
<1>5. CASE Folder!Release
  <2>1. source' = source + 1 /\ UNCHANGED <<dest, dir, made, slot, job, lost, told, kept, broken, jobs, edited, edit>>
    BY <1>5 DEF Folder!Release
  <2>2. FoldersTyped' /\ EditFits'
    BY <1>1, <2>1 DEF FoldersTyped, EditFits
  <2> QED BY <2>1, <2>2, FolderEdited
<1>6. CASE (\E w \in JobWorkers : Folder!Hangup(w)) \/ UNCHANGED Folder!vars
  <2>1. UNCHANGED <<source, dest, dir, made, slot, job, lost, told, kept, broken, jobs, edited, edit>>
    BY <1>6 DEF Folder!Hangup, Folder!vars
  <2>2. FoldersTyped' /\ EditFits'
    BY <1>1, <2>1 DEF FoldersTyped, EditFits
  <2> QED BY <2>1, <2>2, FolderEdited
<1> QED BY <1>2, <1>3, <1>4, <1>5, <1>6

\* The process dies: what its job had aside or staged stays where it was.
LEMMA FolderCrash ==
  ASSUME Folder!ToolSourcesAssumption, Folder!SourcesInv, Folder!Crash
  PROVE  Folder!SourcesInv'
<1>1. PICK w, j : Works(w, j) /\ Standing(j)
  BY FolderFits
<1>2. FoldersTyped /\ JobStands(j) /\ ToolKept(j) /\ j \in FolderJobs
  BY <1>1 DEF Standing, JobStands
<1>3. /\ UNCHANGED <<source, dest, dir, made, told, kept, jobs, edited>>
      /\ slot' = TRUE /\ edit' = Folder!NoEdit /\ job' = [x \in JobWorkers |-> Folder!Idle]
  BY DEF Folder!Crash
<1>4. \A x \in JobWorkers : job[x] = IF x = w THEN j ELSE Folder!Idle
  BY <1>1 DEF Works
<1>5. /\ \A d \in lost' : d \in lost \/ (d \in 1 .. made /\ d # dest)
      /\ lost \subseteq lost' /\ (j.back \notin {0, dest} => j.back \in lost')
  <2>1. lost' = lost \union UNION {{job[x].stage, job[x].back} \ {0, dest} : x \in JobWorkers}
    BY DEF Folder!Crash
  <2>2. \A x \in JobWorkers : job[x].stage \in 0 .. made /\ job[x].back \in 0 .. made
    BY <1>2, <1>4, IdleJob DEF FolderJobs, FoldersTyped
  <2>3. j.back # 0 => w \in JobWorkers /\ job[w] = j
    BY <1>1, <1>4, IdleJob DEF Works
  <2> QED BY <1>2, <2>1, <2>2, <2>3 DEF FoldersTyped
<1>6. broken' \in BOOLEAN
  BY Zenon DEF Folder!Crash
<1>7. broken => broken'
  BY DEF Folder!Crash
<1>8. j.pc \in {"copy", "delete"} => broken'
  <2>1. j.pc \in {"copy", "delete"} => j.kind \in {"add", "author", "remove"}
    BY <1>2, IdleJob DEF JobStands, FolderJobs
  <2>2. j.kind \in {"add", "author", "remove"} => w \in JobWorkers /\ job[w] = j
    BY <1>1, <1>4, IdleJob DEF Works
  <2>3. broken' = (broken \/ \E x \in JobWorkers : job[x].kind \in {"add", "author", "remove"})
    BY DEF Folder!Crash
  <2> QED BY <2>1, <2>2, <2>3
<1>9. FoldersTyped' /\ EditFits'
  <2>1. dest' \notin lost' /\ lost' \subseteq 1 .. made'
    BY <1>2, <1>3, <1>5 DEF FoldersTyped
  <2> QED BY <1>2, <1>3, <1>6, <2>1 DEF FoldersTyped, EditFits, Folder!NoEdit
<1>10. PICK k : k = Folder!Idle
  OBVIOUS
<1>11. Works(w, k)'
  BY <1>3, <1>10 DEF Works, Folder!Idle
<1>12. JobStands(k)' /\ JobFolders(k)'
  BY <1>9, <1>10 DEF JobStands, JobFolders, FolderJobs, FoldersTyped, Folder!Idle, Folder!Places
<1>13. ToolKept(k)'
  BY <1>2, <1>3, <1>5, <1>7, <1>8, <1>10 DEF ToolKept, Folder!Idle, Folder!Whole
<1> QED BY <1>9, <1>11, <1>12, <1>13, FolderHolds DEF Standing

LEMMA FolderNext ==
  ASSUME Folder!ToolSourcesAssumption, Folder!SourcesInv, Folder!Next \/ UNCHANGED Folder!vars
  PROVE  Folder!SourcesInv'
<1>1. CASE \E w \in JobWorkers : Folder!SubmitAdd(w) \/ Folder!SubmitUpdate(w) \/ Folder!SubmitRemove(w)
  BY <1>1, FolderSubmit DEF Folder!SubmitAdd, Folder!SubmitUpdate, Folder!SubmitRemove
<1>2. CASE \E w \in JobWorkers : Folder!Step(w)
  BY <1>2, FolderAdd, FolderUpdate, FolderRemove DEF Folder!Step
<1> QED BY <1>1, <1>2, FolderEdits, FolderCrash DEF Folder!Next

LEMMA FolderKeeps ==
  ASSUME Folder!SourcesInv
  PROVE  Folder!NothingLost /\ Folder!OneAtATime /\ Folder!WholeWhenSeen
<1>1. PICK w, j : Works(w, j) /\ Standing(j)
  BY FolderFits
<1>2. FoldersTyped /\ JobStands(j) /\ ToolKept(j) /\ j \in FolderJobs
  BY <1>1 DEF Standing, JobStands
<1>3. \A x \in JobWorkers : job[x] = IF x = w THEN j ELSE Folder!Idle
  BY <1>1 DEF Works
<1>4. Folder!Busy = {} \/ (Folder!Busy = {w} /\ w \in JobWorkers /\ j.kind # "none")
  BY <1>3, IdleJob DEF Folder!Busy
<1>5. Folder!OneAtATime
  <2>1. Cardinality({}) = 0 /\ Cardinality({w}) = 1
    BY FS_EmptySet, FS_Singleton
  <2>2. ASSUME NEW S PROVE Folder!Cardinality(S) = Cardinality(S)
    BY DEF Folder!Cardinality, Cardinality
  <2>3. Folder!Cardinality(Folder!Busy) <= 1
    BY <1>4, <2>1, <2>2
  <2> QED BY <1>2, <1>4, <2>3 DEF Folder!OneAtATime, JobStands
<1>6. Folder!NothingLost
  <2>1. Folder!Busy = {} => j.back = 0
    BY <1>1, <1>3, IdleJob DEF Folder!Busy, Works, Standing, JobStands
  <2> QED BY <1>2, <2>1 DEF Folder!NothingLost, ToolKept, Folder!Whole
<1>7. Folder!WholeWhenSeen
  <2>1. j.pc \in {"copy", "delete"} => w \in JobWorkers /\ job[w].kind \in {"add", "author", "remove"}
    BY <1>1, <1>2, <1>3, IdleJob DEF JobStands, FolderJobs, Works
  <2> QED BY <1>2, <2>1 DEF Folder!WholeWhenSeen, Folder!Discoverable, ToolKept
<1> QED BY <1>5, <1>6, <1>7

-----------------------------------------------------------------------------
(* The edits of callers *)

CallerJobs ==
    [op : {"none", "settings", "form", "policy", "tools", "create", "create_with", "rotate", "issue"},
     pc : {"idle", "page", "cas", "before", "write", "audit", "prior", "managed", "disabled", "token", "others"},
     seen : Page!Policies, cat : SUBSET Tools, new : Page!Policies, token : 0 .. MaxTokens]

\* What the invariant says of one command.
Held(j) ==
    /\ j \in CallerJobs
    /\ ~j.seen.managed => j.seen.disabled = {}
    /\ ~j.new.managed => j.new.disabled = {}
    /\ j.pc = "disabled" => j.new.managed
    /\ j.pc = "token" => j.token # 0
    /\ j.pc \in {"prior", "managed", "disabled"} => j.op = "tools"
    /\ j.pc \in {"prior", "managed"} => j.new.disabled = {}
    /\ j.pc = "before" => j.op \in {"form", "policy"}
    /\ j.pc = "cas" =>
          /\ j.op = "settings"
          /\ \A t \in Tools \ j.cat : Page!Allowed(j.new, t) = Page!Allowed(j.seen, t)
    /\ j.op = "tools" /\ j.pc \in {"managed", "disabled", "write"} =>
          \A t \in Tools \ j.cat : j.new.rule[t] = "none"

CallersTyped ==
    /\ caller \in {"none", "live", "revoked"}
    /\ policy \in Page!Policies /\ (~policy.managed => policy.disabled = {})
    /\ tokens \subseteq 1 .. MaxTokens /\ catalog \subseteq Tools
    /\ issued \in 0 .. MaxTokens

\* The commands that have committed a policy and not yet written the event.
Auditing == {e \in Editors : cmd[e].pc = "audit"}
Counted ==
    /\ trail \in [audited : Nat, silent : Nat] /\ crashes \in Nat
    /\ Cardinality(Auditing) <= trail.silent /\ trail.silent <= Cardinality(Auditing) + crashes

LEMMA PageSets ==
  ASSUME NEW S
  PROVE  Page!Cardinality(S) = Cardinality(S) /\ (Page!IsFiniteSet(S) <=> IsFiniteSet(S))
  BY DEF Page!Cardinality, Cardinality, Page!IsFiniteSet, IsFiniteSet

LEMMA EditsFit ==
  ASSUME Page!EditsInv
  PROVE  CallersTyped /\ Counted /\ cmd \in [Editors -> CallerJobs] /\ \A e \in Editors : Held(cmd[e])
<1>1. Counted
  BY PageSets DEF Page!EditsInv, Page!TypeOK, Page!CommitsAudited, Counted, Auditing
<1>2. cmd \in [Editors -> CallerJobs]
  BY DEF Page!EditsInv, CallerJobs
<1>3. \A e \in Editors : Held(cmd[e])
  BY <1>2 DEF Page!EditsInv, Held
<1> QED BY <1>1, <1>2, <1>3 DEF CallersTyped, Page!EditsInv, Page!TypeOK

LEMMA EditsHold ==
  ASSUME CallersTyped', Counted', cmd' \in [Editors -> CallerJobs], \A e \in Editors : Held(cmd'[e])
  PROVE  Page!EditsInv'
<1>1. Page!TypeOK'
  BY DEF Page!TypeOK, CallersTyped, Counted, CallerJobs
<1>2. /\ Page!CommitsAudited'
      /\ Page!Cardinality({e \in Editors : cmd'[e].pc = "audit"}) <= trail'.silent
  BY PageSets DEF Page!CommitsAudited, Counted, Auditing
<1>3. issued' \in 0 .. MaxTokens /\ crashes' \in Nat
  BY DEF CallersTyped, Counted
<1> QED BY <1>1, <1>2, <1>3 DEF Page!EditsInv, Held, CallerJobs

LEMMA NoCommand ==
  ASSUME Page!CallerEditsAssumption
  PROVE  Held(Page!Idle) /\ Page!Idle.pc = "idle" /\ Page!NoPolicy \in Page!Policies
<1>1. Page!NoPolicy \in Page!Policies /\ Page!NoPolicy.disabled = {}
  BY DEF Page!NoPolicy, Page!Policies
<1>2. Page!Idle \in CallerJobs
  BY <1>1 DEF Page!Idle, CallerJobs, Page!CallerEditsAssumption
<1>3. /\ Page!Idle.op = "none" /\ Page!Idle.pc = "idle"
      /\ Page!Idle.seen = Page!NoPolicy /\ Page!Idle.new = Page!NoPolicy
  BY DEF Page!Idle
<1> QED BY <1>1, <1>2, <1>3 DEF Held

\* A command moves on: its step commits with its event, commits without, writes the event, or
\* commits nothing; or the command dies.
Moves(e, j) ==
    /\ Held(j) /\ cmd' = [cmd EXCEPT ![e] = j] /\ CallersTyped'
    /\ \/ j.pc # "audit" /\ cmd[e].pc # "audit" /\ UNCHANGED <<trail, crashes>>
       \/ j.pc # "audit" /\ cmd[e].pc # "audit" /\ trail' = [trail EXCEPT !.audited = @ + 1] /\ UNCHANGED crashes
       \/ j.pc = "audit" /\ cmd[e].pc # "audit" /\ trail' = [trail EXCEPT !.silent = @ + 1] /\ UNCHANGED crashes
       \/ /\ j.pc # "audit" /\ cmd[e].pc = "audit" /\ UNCHANGED crashes
          /\ trail' = [audited |-> trail.audited + 1, silent |-> trail.silent - 1]
       \/ j.pc # "audit" /\ UNCHANGED trail /\ crashes' = crashes + 1

LEMMA EditsMove ==
  ASSUME Page!CallerEditsAssumption, Page!EditsInv, NEW e \in Editors, NEW j, Moves(e, j)
  PROVE  Page!EditsInv'
<1>1. CallersTyped /\ Counted /\ cmd \in [Editors -> CallerJobs] /\ \A x \in Editors : Held(cmd[x])
  BY EditsFit
<1>2. cmd' \in [Editors -> CallerJobs] /\ \A x \in Editors : Held(cmd'[x])
  BY <1>1 DEF Moves, Held
<1>3. IsFiniteSet(Auditing) /\ Cardinality(Auditing) \in Nat
  <2>1. IsFiniteSet(Editors) /\ Auditing \in SUBSET Editors
    BY PageSets DEF Page!CallerEditsAssumption, Auditing
  <2> QED BY <2>1, FS_Subset, FS_CardinalityType
<1>4. CASE j.pc = "audit" /\ cmd[e].pc # "audit"
  <2>1. Auditing' = Auditing \cup {e} /\ e \notin Auditing
    BY <1>1, <1>4 DEF Moves, Auditing
  <2>2. Cardinality(Auditing') = Cardinality(Auditing) + 1
    BY <1>3, <2>1, FS_AddElement
  <2>3. trail' = [trail EXCEPT !.silent = @ + 1] /\ UNCHANGED crashes
    BY <1>4 DEF Moves
  <2>4. Counted'
    BY <1>1, <1>3, <2>2, <2>3 DEF Counted
  <2> QED BY <1>2, <2>4, EditsHold DEF Moves
<1>5. CASE j.pc # "audit" /\ cmd[e].pc = "audit"
  <2>1. Auditing' = Auditing \ {e} /\ e \in Auditing
    BY <1>1, <1>5 DEF Moves, Auditing
  <2>2. Cardinality(Auditing') = Cardinality(Auditing) - 1
    BY <1>3, <2>1, FS_RemoveElement
  <2>3. Cardinality(Auditing') \in Nat
    BY <1>3, <2>1, FS_RemoveElement, FS_CardinalityType
  <2>4. \/ trail' = [audited |-> trail.audited + 1, silent |-> trail.silent - 1] /\ UNCHANGED crashes
        \/ UNCHANGED trail /\ crashes' = crashes + 1
    BY <1>5 DEF Moves
  <2>5. Counted'
    BY <1>1, <1>3, <2>2, <2>3, <2>4 DEF Counted
  <2> QED BY <1>2, <2>5, EditsHold DEF Moves
<1>6. CASE j.pc # "audit" /\ cmd[e].pc # "audit"
  <2>1. Auditing' = Auditing
    BY <1>1, <1>6 DEF Moves, Auditing
  <2>2. \/ UNCHANGED <<trail, crashes>>
        \/ trail' = [trail EXCEPT !.audited = @ + 1] /\ UNCHANGED crashes
        \/ UNCHANGED trail /\ crashes' = crashes + 1
    BY <1>6 DEF Moves
  <2>3. Counted'
    BY <1>1, <1>3, <2>1, <2>2 DEF Counted
  <2> QED BY <1>2, <2>3, EditsHold DEF Moves
<1> QED BY <1>4, <1>5, <1>6 DEF Moves

LEMMA EditsInit == ASSUME Page!CallerEditsAssumption, Page!Init PROVE Page!EditsInv
<1>1. CallersTyped
  <2>1. Page!NoPolicy.managed = FALSE /\ Page!NoPolicy.disabled = {}
    BY DEF Page!NoPolicy
  <2>2. PICK p : p = [Page!NoPolicy EXCEPT !.rule = [t \in Tools |-> "allow"]]
    OBVIOUS
  <2>3. p = [managed |-> FALSE, enabled |-> {}, disabled |-> {}, rule |-> [t \in Tools |-> "allow"]]
    BY <2>2 DEF Page!NoPolicy
  <2>4. p \in Page!Policies /\ p.disabled = {}
    BY <2>3 DEF Page!Policies, Page!CallerEditsAssumption
  <2>5. 0 \in 0 .. MaxTokens /\ 1 \in 0 .. MaxTokens /\ {1} \subseteq 1 .. MaxTokens
    BY DEF Page!CallerEditsAssumption
  <2>6. caller \in {"none", "live", "revoked"} /\ catalog = Tools
    BY DEF Page!Init
  <2>7. CASE policy = Page!NoPolicy /\ tokens = {} /\ issued = 0
    BY <2>1, <2>5, <2>6, <2>7, NoCommand DEF CallersTyped
  <2>8. CASE policy = p /\ tokens = {1} /\ issued = 1
    BY <2>4, <2>5, <2>6, <2>8 DEF CallersTyped
  <2> QED BY <2>2, <2>7, <2>8 DEF Page!Init
<1>2. cmd = [e \in Editors |-> Page!Idle]
  BY DEF Page!Init
<1>3. cmd \in [Editors -> CallerJobs] /\ \A e \in Editors : Held(cmd[e])
  BY <1>2, NoCommand DEF Held
<1>4. Page!TypeOK
  BY <1>1, <1>3 DEF Page!TypeOK, CallersTyped, Page!Init, CallerJobs
<1>5. /\ Page!Cardinality({e \in Editors : cmd[e].pc = "audit"}) = 0
      /\ trail.silent = 0 /\ crashes = 0
  <2>1. {e \in Editors : cmd[e].pc = "audit"} = {}
    BY <1>2, NoCommand
  <2> QED BY <2>1, PageSets, FS_EmptySet DEF Page!Init
<1>6. Page!CommitsAudited
  BY <1>5 DEF Page!CommitsAudited
<1> QED BY <1>1, <1>3, <1>4, <1>5, <1>6 DEF Page!EditsInv, CallersTyped, Held, CallerJobs

\* A command that starts.
LEMMA Started ==
  ASSUME NEW o, NEW q, NEW s, NEW c, NEW n, NEW k, NEW j,
         j = [op |-> o, pc |-> q, seen |-> s, cat |-> c, new |-> n, token |-> k],
         j \in CallerJobs, s.managed \/ s.disabled = {}, n.disabled = {},
         \/ o = "settings" /\ q = "page"
         \/ o = "form" /\ q = "page"
         \/ o = "policy" /\ q = "before"
         \/ o = "tools" /\ q = "prior"
         \/ q = "token" /\ k # 0 /\ o # "tools"
         \/ q = "idle" /\ o = "none"
  PROVE  Held(j) /\ j.pc = q /\ q # "audit"
<1>1. j.op = o /\ j.pc = q /\ j.seen = s /\ j.cat = c /\ j.new = n /\ j.token = k
  OBVIOUS
<1> QED BY <1>1 DEF Held

LEMMA PolicyOf ==
  ASSUME Page!CallerEditsAssumption
  PROVE  /\ Page!NoPolicy \in Page!Policies /\ Page!NoPolicy.disabled = {}
         /\ \A rule \in [Tools -> Effects \cup {"none"}] :
               LET n == [Page!NoPolicy EXCEPT !.rule = rule] IN n \in Page!Policies /\ n.disabled = {}
<1>1. ASSUME NEW rule \in [Tools -> Effects \cup {"none"}], NEW n, n = [Page!NoPolicy EXCEPT !.rule = rule]
      PROVE  n \in Page!Policies /\ n.disabled = {}
  <2>1. n = [managed |-> FALSE, enabled |-> {}, disabled |-> {}, rule |-> rule]
    BY <1>1 DEF Page!NoPolicy
  <2>2. rule \in [Tools -> Effects \cup {"none"}]
    BY <1>1
  <2>3. n \in Page!Policies
    BY <2>1, <2>2 DEF Page!Policies
  <2> QED BY <2>1, <2>3
<1>2. Page!NoPolicy.disabled = {}
  BY DEF Page!NoPolicy
<1> QED BY <1>1, <1>2, NoCommand

\* Only an editor that is idle takes a command, and a command commits no policy.
LEMMA CommandStarts ==
  ASSUME NEW e \in Editors, Page!Command(e)
  PROVE  cmd[e].pc = "idle" /\ UNCHANGED <<trail, crashes>>
<1>1. CASE Page!SetPolicy(e)
  BY <1>1, Zenon DEF Page!SetPolicy, Page!Ready
<1>2. CASE Page!LoadSettings(e) \/ Page!LoadPolicyPage(e)
  BY <1>2 DEF Page!LoadSettings, Page!LoadPolicyPage, Page!Ready
<1>3. CASE Page!ToolsPage(e) \/ Page!PutTools(e)
  <2>1. PICK on : Page!SetEnabled(e, on)
    BY <1>3 DEF Page!ToolsPage, Page!PutTools
  <2> QED BY <2>1 DEF Page!SetEnabled, Page!Ready
<1>4. CASE Page!CreateCaller(e, "create") \/ Page!CreateCaller(e, "create_with")
  BY <1>4 DEF Page!CreateCaller, Page!Ready
<1>5. CASE Page!RotateToken(e) \/ Page!IssueToken(e)
  BY <1>5 DEF Page!RotateToken, Page!IssueToken, Page!NewToken, Page!Ready
<1>6. CASE Page!RevokeToken(e) \/ Page!RevokeCaller(e)
  BY <1>6 DEF Page!RevokeToken, Page!RevokeCaller, Page!Ready
<1> QED BY <1>1, <1>2, <1>3, <1>4, <1>5, <1>6 DEF Page!Command

LEMMA CommandMoves ==
  ASSUME Page!CallerEditsAssumption, Page!EditsInv, NEW e \in Editors, Page!Command(e)
  PROVE  \E j : Moves(e, j)
<1>1. CallersTyped /\ cmd \in [Editors -> CallerJobs] /\ 0 \in 0 .. MaxTokens
  BY EditsFit DEF Page!CallerEditsAssumption
<1>2. cmd[e].pc # "audit" /\ UNCHANGED <<trail, crashes>>
  BY CommandStarts
<1>3. ASSUME NEW j, Held(j), j.pc # "audit", cmd' = [cmd EXCEPT ![e] = j], CallersTyped'
      PROVE  Moves(e, j)
  BY <1>2, <1>3 DEF Moves
<1>4. CASE Page!LoadSettings(e)
  <2>1. PICK j : j = Page!Snapshot([Page!Idle EXCEPT !.op = "settings", !.pc = "page"])
    OBVIOUS
  <2>2. j = [op |-> "settings", pc |-> "page", seen |-> policy, cat |-> catalog, new |-> Page!NoPolicy, token |-> 0]
    BY <2>1 DEF Page!Snapshot, Page!Idle
  <2>3. j \in CallerJobs
    BY <1>1, <2>2, PolicyOf DEF CallerJobs, CallersTyped
  <2>4. Held(j) /\ j.pc # "audit"
    BY <1>1, <2>2, <2>3, Started, PolicyOf DEF CallersTyped
  <2>5. cmd' = [cmd EXCEPT ![e] = j] /\ UNCHANGED <<caller, policy, tokens, catalog, issued>>
    BY <1>4, <2>1 DEF Page!LoadSettings, Page!Start
  <2>6. CallersTyped'
    BY <1>1, <2>5 DEF CallersTyped
  <2> QED BY <1>3, <2>4, <2>5, <2>6
<1>5. CASE Page!LoadPolicyPage(e)
  <2>1. PICK j : j = [Page!Idle EXCEPT !.op = "form", !.pc = "page", !.cat = Page!FormFields]
    OBVIOUS
  <2>2. j = [op |-> "form", pc |-> "page", seen |-> Page!NoPolicy, cat |-> Page!FormFields, new |-> Page!NoPolicy, token |-> 0]
    BY <2>1 DEF Page!Idle
  <2>3. Page!FormFields \subseteq Tools
    BY <1>1 DEF Page!FormFields, CallersTyped
  <2>4. j \in CallerJobs
    BY <1>1, <2>2, <2>3, PolicyOf DEF CallerJobs
  <2>5. Held(j) /\ j.pc # "audit"
    BY <2>2, <2>4, Started, PolicyOf
  <2>6. cmd' = [cmd EXCEPT ![e] = j] /\ UNCHANGED <<caller, policy, tokens, catalog, issued>>
    BY <1>5, <2>1 DEF Page!LoadPolicyPage, Page!Start
  <2>7. CallersTyped'
    BY <1>1, <2>6 DEF CallersTyped
  <2> QED BY <1>3, <2>5, <2>6, <2>7
<1>6. CASE Page!SetPolicy(e)
  <2>1. PICK rule \in [Tools -> {"none", "allow"}] :
           Page!Start(e, [Page!Idle EXCEPT !.op = "policy", !.pc = "before", !.new.rule = rule])
    BY <1>6, Zenon DEF Page!SetPolicy
  <2>2. PICK n : n = [Page!NoPolicy EXCEPT !.rule = rule]
    OBVIOUS
  <2>3. n \in Page!Policies /\ n.disabled = {}
    <3>1. rule \in [Tools -> Effects \cup {"none"}]
      BY <2>1 DEF Page!CallerEditsAssumption
    <3> QED BY <2>2, <3>1, PolicyOf
  <2>4. PICK j : j = [Page!Idle EXCEPT !.op = "policy", !.pc = "before", !.new.rule = rule]
    OBVIOUS
  <2>5. j = [op |-> "policy", pc |-> "before", seen |-> Page!NoPolicy, cat |-> {}, new |-> n, token |-> 0]
    BY <2>2, <2>4 DEF Page!Idle
  <2>6. j \in CallerJobs
    BY <1>1, <2>3, <2>5, PolicyOf DEF CallerJobs
  <2>7. Held(j) /\ j.pc # "audit"
    BY <2>3, <2>5, <2>6, Started, PolicyOf
  <2>8. UNCHANGED <<caller, policy, tokens, catalog, issued>>
    BY <1>6, Zenon DEF Page!SetPolicy
  <2>9. CallersTyped'
    BY <1>1, <2>8 DEF CallersTyped
  <2>10. cmd' = [cmd EXCEPT ![e] = j]
    BY <2>1, <2>4 DEF Page!Start
  <2> QED BY <1>3, <2>7, <2>9, <2>10
<1>7. CASE Page!ToolsPage(e) \/ Page!PutTools(e)
  <2>1. PICK on \in SUBSET Tools : Page!SetEnabled(e, on)
    BY <1>1, <1>7 DEF Page!ToolsPage, Page!PutTools, Page!MergeEnabled, CallersTyped, Page!Policies
  <2>2. PICK j : j = [Page!Idle EXCEPT !.op = "tools", !.pc = "prior", !.cat = on]
    OBVIOUS
  <2>3. j = [op |-> "tools", pc |-> "prior", seen |-> Page!NoPolicy, cat |-> on, new |-> Page!NoPolicy, token |-> 0]
    BY <2>2 DEF Page!Idle
  <2>4. j \in CallerJobs
    BY <1>1, <2>1, <2>3, PolicyOf DEF CallerJobs
  <2>5. Held(j) /\ j.pc # "audit"
    BY <2>3, <2>4, Started, PolicyOf
  <2>6. cmd' = [cmd EXCEPT ![e] = j] /\ UNCHANGED <<caller, policy, tokens, catalog, issued>>
    BY <2>1, <2>2 DEF Page!SetEnabled, Page!Start
  <2>7. CallersTyped'
    BY <1>1, <2>6 DEF CallersTyped
  <2> QED BY <1>3, <2>5, <2>6, <2>7
<1>8. ASSUME NEW o \in {"create", "create_with", "rotate", "issue"}, issued < MaxTokens, issued' = issued + 1,
             cmd' = [cmd EXCEPT ![e] = [Page!Idle EXCEPT !.op = o, !.pc = "token", !.token = issued']],
             caller' \in {caller, "live"}, UNCHANGED <<policy, tokens, catalog>>
      PROVE  \E j : Moves(e, j)
  <2>1. PICK j : j = [Page!Idle EXCEPT !.op = o, !.pc = "token", !.token = issued']
    OBVIOUS
  <2>2. j = [op |-> o, pc |-> "token", seen |-> Page!NoPolicy, cat |-> {}, new |-> Page!NoPolicy, token |-> issued']
    BY <2>1 DEF Page!Idle
  <2>3. issued' \in 0 .. MaxTokens /\ issued' # 0
    BY <1>1, <1>8 DEF CallersTyped, Page!CallerEditsAssumption
  <2>4. j \in CallerJobs
    BY <1>8, <2>2, <2>3, PolicyOf DEF CallerJobs
  <2>5. Held(j) /\ j.pc # "audit"
    BY <1>8, <2>2, <2>3, <2>4, Started, PolicyOf
  <2>6. CallersTyped'
    BY <1>1, <1>8, <2>3 DEF CallersTyped
  <2> QED BY <1>3, <1>8, <2>1, <2>5, <2>6
<1>9. CASE Page!CreateCaller(e, "create") \/ Page!CreateCaller(e, "create_with")
  BY <1>8, <1>9 DEF Page!CreateCaller, Page!Start
<1>10. CASE Page!RotateToken(e) \/ Page!IssueToken(e)
  BY <1>8, <1>10 DEF Page!RotateToken, Page!IssueToken, Page!NewToken, Page!Start
<1>11. CASE Page!RevokeToken(e) \/ Page!RevokeCaller(e)
  <2>1. PICK j : j = Page!Idle
    OBVIOUS
  <2>2. Held(j) /\ j.pc # "audit"
    BY <2>1, NoCommand
  <2>3. cmd' = [cmd EXCEPT ![e] = j]
    BY <1>11, <2>1 DEF Page!RevokeToken, Page!RevokeCaller, Page!Start
  <2>4. CallersTyped'
    BY <1>1, <1>11 DEF Page!RevokeToken, Page!RevokeCaller, CallersTyped
  <2> QED BY <1>3, <2>2, <2>3, <2>4
<1> QED BY <1>4, <1>5, <1>6, <1>7, <1>9, <1>10, <1>11 DEF Page!Command

\* A policy n that a save may make of p, on a page that shows the tools cat.
SavedOver(p, cat, n) ==
    \E t \in cat, on, off \in BOOLEAN, effect \in Effects : n = Page!Applied(p, cat, t, on, off, effect)

SameOutside(p, cat, n) == \A x \in Tools \ cat : Page!Allowed(n, x) = Page!Allowed(p, x)

\* What the settings page saves is a policy, and allows of a tool outside its catalog what the
\* policy it was loaded with allows.
LEMMA AppliedFits ==
  ASSUME Page!CallerEditsAssumption, NEW p \in Page!Policies, NEW cat \in SUBSET Tools, NEW n, SavedOver(p, cat, n)
  PROVE  n \in Page!Policies /\ n.managed /\ SameOutside(p, cat, n)
<1>0. PICK t \in cat, on \in BOOLEAN, off \in BOOLEAN, effect \in Effects : n = Page!Applied(p, cat, t, on, off, effect)
  BY DEF SavedOver
<1>1. PICK want, excluded, rule :
         /\ want = {x \in cat : IF x = t THEN on ELSE x \in Page!EnabledTools(p)}
         /\ excluded = {x \in cat : IF x = t THEN off ELSE x \in p.disabled}
         /\ rule = [x \in Tools |-> IF x \notin cat THEN p.rule[x] ELSE IF x = t THEN effect ELSE Page!Shown(p, x)]
  OBVIOUS
<1>2. n = [managed |-> TRUE, enabled |-> (Page!EnabledTools(p) \ cat) \cup want,
           disabled |-> (p.disabled \ cat) \cup excluded, rule |-> rule]
  BY <1>0, <1>1, Zenon DEF Page!Applied
<1>3. want \subseteq cat /\ excluded \subseteq cat
  BY <1>1
<1>4. p.rule \in [Tools -> Effects \cup {"none"}] /\ p.enabled \subseteq Tools /\ p.disabled \subseteq Tools
      /\ p.managed \in BOOLEAN
  BY DEF Page!Policies
<1>5. Page!EnabledTools(p) \subseteq Tools
  BY <1>4 DEF Page!EnabledTools
<1>6. rule \in [Tools -> Effects \cup {"none"}]
  BY <1>0, <1>1, <1>4 DEF Page!Shown, Page!CallerEditsAssumption
<1>7. n \in Page!Policies
  BY <1>2, <1>3, <1>4, <1>5, <1>6 DEF Page!Policies
<1>8. ASSUME NEW x \in Tools \ cat PROVE Page!Allowed(n, x) = Page!Allowed(p, x)
  <2>1. /\ n.managed = TRUE /\ n.rule[x] = p.rule[x]
        /\ x \in n.enabled <=> x \in Page!EnabledTools(p)
        /\ x \in n.disabled <=> x \in p.disabled
    BY <1>1, <1>2, <1>3
  <2>2. x \in Page!EnabledTools(p) <=> IF p.managed THEN x \in p.enabled ELSE x \in p.enabled \/ p.rule[x] # "none"
    BY DEF Page!EnabledTools
  <2>3. Page!Allowed(n, x) <=> x \in Page!EnabledTools(p) /\ x \notin p.disabled /\ p.rule[x] = "allow"
    BY <2>1 DEF Page!Allowed
  <2>4. Page!Allowed(p, x) <=> x \in Page!EnabledTools(p) /\ x \notin p.disabled /\ p.rule[x] = "allow"
    BY <2>2 DEF Page!Allowed
  <2>5. Page!Allowed(n, x) \in BOOLEAN /\ Page!Allowed(p, x) \in BOOLEAN
    BY Zenon DEF Page!Allowed
  <2> QED BY <2>3, <2>4, <2>5
<1>9. n.managed
  BY <1>2
<1> QED BY <1>7, <1>8, <1>9 DEF SameOutside

LEMMA SettingsMoves ==
  ASSUME Page!CallerEditsAssumption, Page!EditsInv, NEW e \in Editors,
         Page!CheckSettings(e) \/ Page!CompareAndSet(e)
  PROVE  \E j : Moves(e, j)
<1>0. PICK i : i = cmd[e]
  OBVIOUS
<1>1. CallersTyped /\ cmd \in [Editors -> CallerJobs] /\ Held(i) /\ i \in CallerJobs
  BY <1>0, EditsFit DEF Held
<1>2. ASSUME UNCHANGED trail \/ trail' = [trail EXCEPT !.audited = @ + 1], UNCHANGED crashes, i.pc # "audit",
             cmd' = [cmd EXCEPT ![e] = Page!Idle], CallersTyped'
      PROVE  \E j : Moves(e, j)
  <2>1. PICK j : j = Page!Idle
    OBVIOUS
  <2>2. Held(j) /\ j.pc # "audit"
    BY <2>1, NoCommand
  <2>3. cmd' = [cmd EXCEPT ![e] = j] /\ cmd[e].pc # "audit"
    BY <1>0, <1>2, <2>1
  <2> QED BY <1>2, <2>2, <2>3 DEF Moves
<1>3. CASE Page!CheckSettings(e)
  <2>1. i.op = "settings" /\ i.pc = "page" /\ UNCHANGED <<caller, policy, tokens, catalog, trail, issued, crashes>>
    BY <1>0, <1>3 DEF Page!CheckSettings, Page!counts
  <2>2. CallersTyped'
    BY <1>1, <2>1 DEF CallersTyped
  <2>3. CASE Page!Done(e)
    BY <1>2, <2>1, <2>2, <2>3 DEF Page!Done
  <2>4. CASE Page!Snapshot(i) = i /\ ~Page!Done(e)
    <3>1. PICK t \in catalog, on, off \in BOOLEAN, effect \in Effects :
             cmd' = [cmd EXCEPT ![e].pc = "cas", ![e].new = Page!Applied(policy, catalog, t, on, off, effect)]
      BY <1>3, <2>4, Zenon DEF Page!CheckSettings
    <3>2. PICK n : n = Page!Applied(policy, catalog, t, on, off, effect)
      OBVIOUS
    <3>3. /\ n \in Page!Policies /\ n.managed
          /\ \A x \in Tools \ catalog : Page!Allowed(n, x) = Page!Allowed(policy, x)
      <4>1. policy \in Page!Policies /\ catalog \in SUBSET Tools
        BY <1>1 DEF CallersTyped
      <4>2. SavedOver(policy, catalog, n)
        BY <3>1, <3>2 DEF SavedOver
      <4> QED BY <4>1, <4>2, AppliedFits DEF SameOutside
    <3>4. i.seen = policy /\ i.cat = catalog
      <4>1. PICK s : s = [i EXCEPT !.seen = policy, !.cat = catalog]
        OBVIOUS
      <4>2. s.seen = policy /\ s.cat = catalog
        BY <1>1, <4>1 DEF CallerJobs
      <4> QED BY <2>4, <4>1, <4>2 DEF Page!Snapshot
    <3>5. PICK j : j = [i EXCEPT !.pc = "cas", !.new = n]
      OBVIOUS
    <3>6. j = [op |-> "settings", pc |-> "cas", seen |-> i.seen, cat |-> i.cat, new |-> n, token |-> i.token]
      BY <1>1, <2>1, <3>5 DEF CallerJobs
    <3>7. j \in CallerJobs
      BY <1>1, <3>3, <3>6 DEF CallerJobs
    <3>8. Held(j) /\ j.pc # "audit"
      <4>1. j.op = "settings" /\ j.pc = "cas" /\ j.seen = policy /\ j.cat = catalog /\ j.new = n
        BY <3>4, <3>6
      <4>2. policy.managed \/ policy.disabled = {}
        BY <1>1 DEF CallersTyped
      <4> QED BY <3>3, <3>7, <4>1, <4>2 DEF Held
    <3>9. cmd' = [cmd EXCEPT ![e] = j]
      BY <1>0, <3>1, <3>2, <3>5, Zenon
    <3>10. cmd[e].pc # "audit"
      BY <1>0, <2>1
    <3> QED BY <2>1, <2>2, <3>8, <3>9, <3>10 DEF Moves
  <2> QED BY <1>0, <1>3, <2>3, <2>4 DEF Page!CheckSettings
<1>4. CASE Page!CompareAndSet(e)
  <2>1. i.pc = "cas" /\ UNCHANGED <<caller, tokens, catalog, issued, crashes>> /\ cmd' = [cmd EXCEPT ![e] = Page!Idle]
        /\ (UNCHANGED trail \/ trail' = [trail EXCEPT !.audited = @ + 1]) /\ (policy' = policy \/ policy' = i.new)
    BY <1>0, <1>4 DEF Page!CompareAndSet, Page!Done, Page!counts
  <2>2. i.new \in Page!Policies /\ (~i.new.managed => i.new.disabled = {})
    BY <1>1 DEF Held, CallerJobs
  <2>3. CallersTyped'
    BY <1>1, <2>1, <2>2 DEF CallersTyped
  <2> QED BY <1>2, <2>1, <2>3
<1> QED BY <1>3, <1>4

\* A command ends, with nothing written, with its event, or by dying.
LEMMA DoneMoves ==
  ASSUME Page!CallerEditsAssumption, NEW e \in Editors, Page!Done(e), CallersTyped',
         \/ cmd[e].pc # "audit" /\ UNCHANGED <<trail, crashes>>
         \/ /\ cmd[e].pc = "audit" /\ UNCHANGED crashes
            /\ trail' = [audited |-> trail.audited + 1, silent |-> trail.silent - 1]
         \/ UNCHANGED trail /\ crashes' = crashes + 1
  PROVE  \E j : Moves(e, j)
<1>1. PICK j : j = Page!Idle
  OBVIOUS
<1>2. Held(j) /\ j.pc # "audit"
  BY <1>1, NoCommand
<1>3. cmd' = [cmd EXCEPT ![e] = j]
  BY <1>1 DEF Page!Done
<1> QED BY <1>2, <1>3 DEF Moves

LEMMA PolicyMoves ==
  ASSUME Page!CallerEditsAssumption, Page!EditsInv, NEW e \in Editors,
         Page!MergeGrants(e) \/ Page!ReadBefore(e) \/ Page!Write(e) \/ Page!Audit(e)
  PROVE  \E j : Moves(e, j)
<1>0. PICK i : i = cmd[e]
  OBVIOUS
<1>1. CallersTyped /\ cmd \in [Editors -> CallerJobs] /\ Held(i) /\ i \in CallerJobs
  BY <1>0, EditsFit DEF Held
<1>2. /\ i.seen \in Page!Policies /\ (~i.seen.managed => i.seen.disabled = {})
      /\ i.new \in Page!Policies /\ (~i.new.managed => i.new.disabled = {}) /\ i.cat \subseteq Tools
  BY <1>1 DEF Held, CallerJobs
<1>3. policy \in Page!Policies /\ (~policy.managed => policy.disabled = {})
  BY <1>1 DEF CallersTyped
<1>4. ASSUME NEW p \in Page!Policies, NEW rule \in [Tools -> Effects \cup {"none"}], NEW n, n = [p EXCEPT !.rule = rule]
      PROVE  n \in Page!Policies /\ n.managed = p.managed /\ n.disabled = p.disabled
  <2>1. n = [managed |-> p.managed, enabled |-> p.enabled, disabled |-> p.disabled, rule |-> rule]
    BY <1>4 DEF Page!Policies
  <2>2. n \in Page!Policies
    BY <1>4, <2>1 DEF Page!Policies
  <2> QED BY <2>1, <2>2
<1>5. CASE Page!MergeGrants(e)
  <2>1. i.op = "form" /\ i.pc = "page" /\ UNCHANGED <<caller, policy, tokens, catalog, trail, issued, crashes>>
    BY <1>0, <1>5 DEF Page!MergeGrants, Page!counts
  <2>2. CallersTyped'
    BY <1>1, <2>1 DEF CallersTyped
  <2>3. CASE Page!Done(e)
    BY <1>0, <2>1, <2>2, <2>3, DoneMoves
  <2>4. CASE ~Page!Done(e)
    <3>1. PICK t \in i.cat, effect \in Effects :
             cmd' = [cmd EXCEPT ![e].pc = "before", ![e].new.rule = Page!Merged(t, effect)]
      BY <1>0, <1>5, <2>4, Zenon DEF Page!MergeGrants
    <3>2. PICK rule : rule = Page!Merged(t, effect)
      OBVIOUS
    <3>3. rule \in [Tools -> Effects \cup {"none"}]
      BY <1>2, <1>3, <3>1, <3>2 DEF Page!Merged, Page!Policies
    <3>4. PICK n : n = [i.new EXCEPT !.rule = rule]
      OBVIOUS
    <3>5. n \in Page!Policies /\ (~n.managed => n.disabled = {})
      BY <1>2, <1>4, <3>3, <3>4
    <3>6. PICK j : j = [i EXCEPT !.pc = "before", !.new = n]
      OBVIOUS
    <3>7. j = [op |-> "form", pc |-> "before", seen |-> i.seen, cat |-> i.cat, new |-> n, token |-> i.token]
      BY <1>1, <2>1, <3>6 DEF CallerJobs
    <3>8. j \in CallerJobs
      BY <1>1, <3>5, <3>7 DEF CallerJobs
    <3>9. Held(j) /\ j.pc # "audit"
      BY <1>2, <3>5, <3>7, <3>8 DEF Held
    <3>10. cmd' = [cmd EXCEPT ![e] = j]
      <4>1. j = [i EXCEPT !.pc = "before", !.new.rule = rule]
        <5>1. [i EXCEPT !.pc = "before"].new = i.new
          BY <1>1 DEF CallerJobs
        <5> QED BY <3>4, <3>6, <5>1, Zenon
      <4> QED BY <1>0, <1>1, <3>1, <3>2, <4>1, Zenon
    <3> QED BY <1>0, <2>1, <2>2, <3>9, <3>10 DEF Moves
  <2> QED BY <2>3, <2>4
<1>6. CASE Page!ReadBefore(e)
  <2>1. i.pc = "before" /\ i.op \in {"form", "policy"}
        /\ UNCHANGED <<caller, policy, tokens, catalog, trail, issued, crashes>>
    BY <1>0, <1>1, <1>6 DEF Page!ReadBefore, Page!counts, Held
  <2>2. PICK n : n = [policy EXCEPT !.rule = i.new.rule]
    OBVIOUS
  <2>3. n \in Page!Policies /\ (~n.managed => n.disabled = {})
    <3>1. i.new.rule \in [Tools -> Effects \cup {"none"}]
      BY <1>2 DEF Page!Policies
    <3> QED BY <1>3, <1>4, <2>2, <3>1
  <2>4. PICK j : j = [i EXCEPT !.pc = "write", !.seen = policy, !.new = n]
    OBVIOUS
  <2>5. j = [op |-> i.op, pc |-> "write", seen |-> policy, cat |-> i.cat, new |-> n, token |-> i.token]
    BY <1>1, <2>4 DEF CallerJobs
  <2>6. j \in CallerJobs
    BY <1>1, <1>3, <2>3, <2>5 DEF CallerJobs
  <2>7. Held(j) /\ j.pc # "audit"
    BY <1>3, <2>1, <2>3, <2>5, <2>6 DEF Held
  <2>8. cmd' = [cmd EXCEPT ![e] = j]
    <3>1. cmd' = [cmd EXCEPT ![e] = [i EXCEPT !.pc = "write", !.seen = policy, !.new = [policy EXCEPT !.rule = i.new.rule]]]
      BY <1>0, <1>1, <1>6 DEF Page!ReadBefore
    <3> QED BY <2>2, <2>4, <3>1
  <2>9. CallersTyped'
    BY <1>1, <2>1 DEF CallersTyped
  <2> QED BY <1>0, <2>1, <2>7, <2>8, <2>9 DEF Moves
<1>7. CASE Page!Write(e)
  <2>1. i.pc = "write" /\ policy' = i.new /\ trail' = [trail EXCEPT !.silent = @ + 1]
        /\ UNCHANGED <<caller, tokens, catalog, issued, crashes>>
    BY <1>0, <1>7 DEF Page!Write, Page!counts
  <2>2. PICK j : j = [i EXCEPT !.pc = "audit"]
    OBVIOUS
  <2>3. j = [op |-> i.op, pc |-> "audit", seen |-> i.seen, cat |-> i.cat, new |-> i.new, token |-> i.token]
    BY <1>1, <2>2 DEF CallerJobs
  <2>4. j \in CallerJobs
    BY <1>1, <2>3 DEF CallerJobs
  <2>5. Held(j) /\ j.pc = "audit"
    BY <1>2, <2>3, <2>4 DEF Held
  <2>6. cmd' = [cmd EXCEPT ![e] = j]
    BY <1>0, <1>7, <2>2 DEF Page!Write, Page!Go
  <2>7. CallersTyped'
    BY <1>1, <1>2, <2>1 DEF CallersTyped
  <2> QED BY <1>0, <2>1, <2>5, <2>6, <2>7 DEF Moves
<1>8. CASE Page!Audit(e)
  <2>1. CallersTyped'
    BY <1>1, <1>8 DEF CallersTyped, Page!Audit, Page!counts
  <2> QED BY <1>8, <2>1, DoneMoves DEF Page!Audit, Page!counts
<1> QED BY <1>5, <1>6, <1>7, <1>8

\* A command at its next step, with what it is to write.
Reaches(i, q, n) == [i EXCEPT !.pc = q, !.new = n]

LEMMA ToolsMoves ==
  ASSUME Page!CallerEditsAssumption, Page!EditsInv, NEW e \in Editors,
         Page!ReadPrior(e) \/ Page!ReadManaged(e) \/ Page!ReadDisabled(e)
  PROVE  \E j : Moves(e, j)
<1>0. PICK i : i = cmd[e]
  OBVIOUS
<1>1. CallersTyped /\ cmd \in [Editors -> CallerJobs] /\ Held(i) /\ i \in CallerJobs
  BY <1>0, EditsFit DEF Held
<1>2. /\ i.seen \in Page!Policies /\ (~i.seen.managed => i.seen.disabled = {})
      /\ i.new \in Page!Policies /\ (~i.new.managed => i.new.disabled = {}) /\ i.cat \subseteq Tools
  BY <1>1 DEF Held, CallerJobs
<1>3. policy \in Page!Policies /\ (~policy.managed => policy.disabled = {})
  BY <1>1 DEF CallersTyped
<1>4. UNCHANGED <<caller, policy, tokens, catalog, trail, issued, crashes>> /\ i.op = "tools"
      /\ i.pc \in {"prior", "managed", "disabled"} /\ cmd[e].pc # "audit"
  BY <1>0, <1>1 DEF Page!ReadPrior, Page!ReadManaged, Page!ReadDisabled, Page!counts, Held
<1>5. CallersTyped'
  BY <1>1, <1>4 DEF CallersTyped
<1>6. ASSUME NEW q \in {"managed", "disabled", "write"}, NEW n \in Page!Policies, NEW j,
             j = Reaches(i, q, n), cmd' = [cmd EXCEPT ![e] = j],
             ~n.managed => n.disabled = {}, q = "disabled" => n.managed, q = "managed" => n.disabled = {},
             \A t \in Tools \ i.cat : n.rule[t] = "none"
      PROVE  Moves(e, j)
  <2>1. j = [op |-> "tools", pc |-> q, seen |-> i.seen, cat |-> i.cat, new |-> n, token |-> i.token]
    BY <1>1, <1>4, <1>6 DEF CallerJobs, Reaches
  <2>2. j \in CallerJobs
    BY <1>1, <1>6, <2>1 DEF CallerJobs
  <2>3. j.op = "tools" /\ j.pc = q /\ j.seen = i.seen /\ j.cat = i.cat /\ j.new = n
    BY <2>1
  <2>4. Held(j) /\ j.pc # "audit"
    BY <1>2, <1>6, <2>2, <2>3 DEF Held
  <2> QED BY <1>4, <1>5, <1>6, <2>4 DEF Moves
<1>7. CASE Page!ReadPrior(e)
  <2>1. PICK rule : rule = [t \in Tools |-> IF t \in i.cat THEN policy.rule[t] ELSE "none"]
    OBVIOUS
  <2>2. rule \in [Tools -> Effects \cup {"none"}] /\ \A t \in Tools \ i.cat : rule[t] = "none"
    BY <1>3, <2>1 DEF Page!Policies
  <2>3. PICK n : n = [i.new EXCEPT !.enabled = i.cat, !.rule = rule]
    OBVIOUS
  <2>4. n = [managed |-> i.new.managed, enabled |-> i.cat, disabled |-> i.new.disabled, rule |-> rule]
    BY <1>2, <2>3 DEF Page!Policies
  <2>5. n \in Page!Policies
    BY <1>2, <2>2, <2>4 DEF Page!Policies
  <2>6. n.disabled = {} /\ n.rule = rule
    <3>1. i.new.disabled = {}
      BY <1>0, <1>1, <1>7 DEF Page!ReadPrior, Held
    <3> QED BY <2>4, <3>1
  <2>7. PICK j : j = Reaches(i, "managed", n)
    OBVIOUS
  <2>8. cmd' = [cmd EXCEPT ![e] = j]
    <3>1. cmd' = [cmd EXCEPT ![e] = [i EXCEPT !.pc = "managed", !.new.enabled = i.cat, !.new.rule = rule]]
      BY <1>0, <1>1, <1>7, <2>1, Zenon DEF Page!ReadPrior
    <3>2. PICK k : k = [i EXCEPT !.pc = "managed", !.new.enabled = i.cat, !.new.rule = rule]
      OBVIOUS
    <3>3. k = j
      BY <1>1, <2>3, <2>7, <3>2 DEF CallerJobs, Reaches
    <3> QED BY <3>1, <3>2, <3>3
  <2> QED BY <1>6, <2>2, <2>5, <2>6, <2>7, <2>8
<1>8. CASE Page!ReadManaged(e)
  <2>1. i.pc = "managed" /\ i.new.disabled = {} /\ \A t \in Tools \ i.cat : i.new.rule[t] = "none"
    BY <1>0, <1>1, <1>4, <1>8 DEF Page!ReadManaged, Held
  <2>2. PICK n : n = [i.new EXCEPT !.managed = policy.managed]
    OBVIOUS
  <2>3. n = [managed |-> policy.managed, enabled |-> i.new.enabled, disabled |-> i.new.disabled, rule |-> i.new.rule]
    BY <1>2, <2>2, Zenon DEF Page!Policies
  <2>4. n \in Page!Policies
    BY <1>2, <1>3, <2>3, Zenon DEF Page!Policies
  <2>5. n.disabled = {} /\ n.rule = i.new.rule /\ (n.managed <=> policy.managed)
    BY <2>1, <2>3
  <2>6. PICK q : q = IF policy.managed THEN "disabled" ELSE "write"
    OBVIOUS
  <2>7. PICK j : j = Reaches(i, q, n)
    OBVIOUS
  <2>8. cmd' = [cmd EXCEPT ![e] = j]
    <3>1. [i EXCEPT !.pc = q].new = i.new
      BY <1>1 DEF CallerJobs
    <3>2. j = [i EXCEPT !.pc = q, !.new.managed = policy.managed]
      BY <2>2, <2>7, <3>1, Zenon DEF Reaches
    <3> QED BY <1>0, <1>1, <1>8, <2>6, <3>2, Zenon DEF Page!ReadManaged
  <2>9. q \in {"managed", "disabled", "write"} /\ (q = "disabled" => n.managed) /\ q # "managed"
    BY <2>5, <2>6
  <2> QED BY <1>6, <2>1, <2>4, <2>5, <2>7, <2>8, <2>9
<1>9. CASE Page!ReadDisabled(e)
  <2>1. i.pc = "disabled" /\ i.new.managed /\ \A t \in Tools \ i.cat : i.new.rule[t] = "none"
    BY <1>0, <1>1, <1>4, <1>9 DEF Page!ReadDisabled, Held
  <2>2. CASE Page!Done(e)
    BY <1>4, <1>5, <2>2, DoneMoves
  <2>3. CASE ~Page!Done(e)
    <3>1. PICK n : n = [i.new EXCEPT !.disabled = policy.disabled]
      OBVIOUS
    <3>2. n = [managed |-> i.new.managed, enabled |-> i.new.enabled, disabled |-> policy.disabled, rule |-> i.new.rule]
      BY <1>2, <3>1, Zenon DEF Page!Policies
    <3>3. n \in Page!Policies
      BY <1>2, <1>3, <3>2, Zenon DEF Page!Policies
    <3>4. n.rule = i.new.rule /\ n.managed
      BY <2>1, <3>2
    <3>5. PICK j : j = Reaches(i, "write", n)
      OBVIOUS
    <3>6. cmd' = [cmd EXCEPT ![e] = j]
      <4>1. [i EXCEPT !.pc = "write"].new = i.new
        BY <1>1 DEF CallerJobs
      <4>2. j = [i EXCEPT !.pc = "write", !.new.disabled = policy.disabled]
        BY <3>1, <3>5, <4>1, Zenon DEF Reaches
      <4> QED BY <1>0, <1>1, <1>9, <2>3, <4>2, Zenon DEF Page!ReadDisabled
    <3> QED BY <1>6, <2>1, <3>3, <3>4, <3>5, <3>6
  <2> QED BY <2>2, <2>3
<1> QED BY <1>7, <1>8, <1>9

LEMMA TokenMoves ==
  ASSUME Page!CallerEditsAssumption, Page!EditsInv, NEW e \in Editors,
         Page!AddToken(e) \/ Page!RevokeOthers(e) \/ Page!Crash(e)
  PROVE  \E j : Moves(e, j)
<1>0. PICK i : i = cmd[e]
  OBVIOUS
<1>1. CallersTyped /\ cmd \in [Editors -> CallerJobs] /\ Held(i) /\ i \in CallerJobs
  BY <1>0, EditsFit DEF Held
<1>2. /\ i.seen \in Page!Policies /\ (~i.seen.managed => i.seen.disabled = {})
      /\ i.new \in Page!Policies /\ (~i.new.managed => i.new.disabled = {}) /\ i.cat \subseteq Tools
      /\ i.token \in 0 .. MaxTokens
  BY <1>1 DEF Held, CallerJobs
<1>3. CASE Page!AddToken(e)
  <2>1. i.pc = "token" /\ i.token # 0 /\ UNCHANGED <<caller, policy, catalog, trail, issued, crashes>>
        /\ tokens' = tokens \cup {i.token} /\ cmd[e].pc # "audit"
    BY <1>0, <1>1, <1>3 DEF Page!AddToken, Page!counts, Held
  <2>2. CallersTyped'
    <3>1. i.token \in 1 .. MaxTokens
      BY <1>2, <2>1 DEF Page!CallerEditsAssumption
    <3> QED BY <1>1, <2>1, <3>1 DEF CallersTyped
  <2>3. ASSUME NEW q \in {"write", "others"}, i.op # "tools", NEW n \in Page!Policies, ~n.managed => n.disabled = {},
               cmd' = [cmd EXCEPT ![e] = Reaches(i, q, n)]
        PROVE  \E j : Moves(e, j)
    <3>1. PICK j : j = Reaches(i, q, n)
      OBVIOUS
    <3>2. j = [op |-> i.op, pc |-> q, seen |-> i.seen, cat |-> i.cat, new |-> n, token |-> i.token]
      BY <1>1, <3>1 DEF CallerJobs, Reaches
    <3>3. j \in CallerJobs
      BY <1>1, <2>3, <3>2 DEF CallerJobs
    <3>4. j.op = i.op /\ j.pc = q /\ j.seen = i.seen /\ j.new = n
      BY <3>2
    <3>5. Held(j) /\ j.pc # "audit"
      BY <1>2, <2>3, <3>3, <3>4 DEF Held
    <3> QED BY <2>1, <2>2, <2>3, <3>1, <3>5 DEF Moves
  <2>4. ASSUME NEW q \in {"write", "others"}, i.op # "tools", Page!Go(e, q)
        PROVE  \E j : Moves(e, j)
    <3>1. [i EXCEPT !.pc = q] = Reaches(i, q, i.new)
      BY <1>1 DEF CallerJobs, Reaches
    <3>2. cmd' = [cmd EXCEPT ![e] = Reaches(i, q, i.new)]
      BY <1>0, <2>4, <3>1, Zenon DEF Page!Go
    <3> QED BY <1>2, <2>3, <2>4, <3>1, <3>2
  <2>5. CASE i.op = "create"
    BY <1>0, <1>3, <2>4, <2>5 DEF Page!AddToken
  <2>6. CASE i.op = "rotate"
    BY <1>0, <1>3, <2>4, <2>6 DEF Page!AddToken
  <2>7. CASE i.op = "create_with"
    <3>1. PICK rule \in [Tools -> {"none", "allow"}] : cmd' = [cmd EXCEPT ![e].pc = "write", ![e].new.rule = rule]
      BY <1>0, <1>3, <2>7, Zenon DEF Page!AddToken
    <3>2. PICK n : n = [i.new EXCEPT !.rule = rule]
      OBVIOUS
    <3>3. n = [managed |-> i.new.managed, enabled |-> i.new.enabled, disabled |-> i.new.disabled, rule |-> rule]
      BY <1>2, <3>2, Zenon DEF Page!Policies
    <3>4. n \in Page!Policies /\ (~n.managed => n.disabled = {})
      <4>1. rule \in [Tools -> Effects \cup {"none"}]
        BY <3>1 DEF Page!CallerEditsAssumption
      <4>2. n \in Page!Policies
        BY <1>2, <3>3, <4>1, Zenon DEF Page!Policies
      <4> QED BY <1>2, <3>3, <4>2
    <3>5. cmd' = [cmd EXCEPT ![e] = Reaches(i, "write", n)]
      <4>1. [i EXCEPT !.pc = "write"].new = i.new
        BY <1>1 DEF CallerJobs
      <4>2. Reaches(i, "write", n) = [i EXCEPT !.pc = "write", !.new.rule = rule]
        BY <3>2, <4>1, Zenon DEF Reaches
      <4> QED BY <1>0, <1>1, <3>1, <4>2, Zenon
    <3> QED BY <2>3, <2>7, <3>4, <3>5
  <2>8. CASE i.op \notin {"create", "create_with", "rotate"}
    <3>1. Page!Done(e)
      BY <1>0, <1>3, <2>8 DEF Page!AddToken
    <3> QED BY <2>1, <2>2, <3>1, DoneMoves
  <2> QED BY <2>5, <2>6, <2>7, <2>8
<1>4. CASE Page!RevokeOthers(e)
  <2>1. CallersTyped' /\ cmd[e].pc # "audit" /\ UNCHANGED <<trail, crashes>>
    BY <1>1, <1>4 DEF CallersTyped, Page!RevokeOthers, Page!counts
  <2> QED BY <1>4, <2>1, DoneMoves DEF Page!RevokeOthers
<1>5. CASE Page!Crash(e)
  <2>1. CallersTyped' /\ UNCHANGED trail /\ crashes' = crashes + 1
    BY <1>1, <1>5 DEF CallersTyped, Page!Crash
  <2> QED BY <1>5, <2>1, DoneMoves DEF Page!Crash
<1> QED BY <1>3, <1>4, <1>5

\* Every step of an editor moves its command.
LEMMA EditorMoves ==
  ASSUME Page!CallerEditsAssumption, Page!EditsInv, NEW e \in Editors,
         Page!Command(e) \/ Page!Step(e) \/ Page!Crash(e)
  PROVE  \E j : Moves(e, j)
  BY CommandMoves, SettingsMoves, PolicyMoves, ToolsMoves, TokenMoves DEF Page!Step

LEMMA EditsNext ==
  ASSUME Page!CallerEditsAssumption, Page!EditsInv, Page!Next \/ UNCHANGED Page!vars
  PROVE  Page!EditsInv'
<1>1. CASE \E e \in Editors : Page!Command(e) \/ Page!Step(e) \/ Page!Crash(e)
  BY <1>1, EditorMoves, EditsMove
<1>2. CASE Page!CatalogChanges \/ UNCHANGED Page!vars
  <2>1. CallersTyped /\ Counted /\ cmd \in [Editors -> CallerJobs] /\ \A e \in Editors : Held(cmd[e])
    BY EditsFit
  <2>2. UNCHANGED <<caller, policy, tokens, cmd, trail, issued, crashes>>
    BY <1>2 DEF Page!CatalogChanges, Page!vars
  <2>3. catalog' \subseteq Tools
    BY <1>2, <2>1 DEF Page!CatalogChanges, Page!vars, CallersTyped
  <2>4. CallersTyped' /\ Counted'
    BY <2>1, <2>2, <2>3 DEF CallersTyped, Counted, Auditing
  <2> QED BY <2>1, <2>2, <2>4, EditsHold DEF Held
<1> QED BY <1>1, <1>2 DEF Page!Next

\* Only the compare-and-set and the write of the other commands commit a policy.
LEMMA Committed ==
  ASSUME NEW e \in Editors, Page!Command(e) \/ Page!Step(e) \/ Page!Crash(e)
  PROVE  policy' = policy \/ Page!CompareAndSet(e) \/ Page!Write(e)
<1>1. CASE Page!SetPolicy(e)
  BY <1>1, Zenon DEF Page!SetPolicy
<1>2. CASE Page!LoadSettings(e) \/ Page!LoadPolicyPage(e)
  BY <1>2 DEF Page!LoadSettings, Page!LoadPolicyPage
<1>3. CASE Page!ToolsPage(e) \/ Page!PutTools(e)
  <2>1. PICK on : Page!SetEnabled(e, on)
    BY <1>3 DEF Page!ToolsPage, Page!PutTools
  <2> QED BY <2>1 DEF Page!SetEnabled
<1>4. CASE Page!CreateCaller(e, "create") \/ Page!CreateCaller(e, "create_with")
  BY <1>4 DEF Page!CreateCaller
<1>5. CASE Page!RotateToken(e) \/ Page!IssueToken(e)
  BY <1>5 DEF Page!RotateToken, Page!IssueToken, Page!NewToken
<1>6. CASE Page!RevokeToken(e) \/ Page!RevokeCaller(e) \/ Page!Crash(e)
  BY <1>6 DEF Page!RevokeToken, Page!RevokeCaller, Page!Crash
<1>7. CASE Page!CheckSettings(e) \/ Page!MergeGrants(e) \/ Page!ReadBefore(e) \/ Page!Audit(e)
  BY <1>7, Zenon DEF Page!CheckSettings, Page!MergeGrants, Page!ReadBefore, Page!Audit
<1>8. CASE Page!ReadPrior(e) \/ Page!ReadManaged(e) \/ Page!ReadDisabled(e) \/ Page!AddToken(e) \/ Page!RevokeOthers(e)
  BY <1>8, Zenon DEF Page!ReadPrior, Page!ReadManaged, Page!ReadDisabled, Page!AddToken, Page!RevokeOthers
<1> QED BY <1>1, <1>2, <1>3, <1>4, <1>5, <1>6, <1>7, <1>8 DEF Page!Command, Page!Step

LEMMA EditsKeep ==
  ASSUME Page!CallerEditsAssumption, Page!EditsInv, Page!Next \/ UNCHANGED Page!vars
  PROVE  Page!CommitsAudited /\ Page!SettingsSeen /\ Page!DisablingRevokes
<1>1. cmd \in [Editors -> CallerJobs] /\ \A e \in Editors : Held(cmd[e])
  BY EditsFit
<1>2. ASSUME NEW e \in Editors, cmd'[e] # cmd[e]
      PROVE  (Page!Command(e) \/ Page!Step(e) \/ Page!Crash(e)) /\ \E j : Moves(e, j)
  <2>1. ~UNCHANGED Page!vars /\ ~Page!CatalogChanges
    BY <1>2 DEF Page!vars, Page!CatalogChanges
  <2>2. PICK x \in Editors : Page!Command(x) \/ Page!Step(x) \/ Page!Crash(x)
    BY <2>1 DEF Page!Next
  <2>3. PICK j : Moves(x, j)
    BY <2>2, EditorMoves
  <2>4. x = e
    BY <1>1, <1>2, <2>3 DEF Moves
  <2> QED BY <2>2, <2>3, <2>4
<1>3. Page!SettingsSeen
  <2>1. SUFFICES ASSUME NEW e \in Editors, Page!Saves(e)
                 PROVE  /\ policy = cmd[e].seen /\ caller = "live"
                        /\ \A t \in Tools \ cmd[e].cat : Page!Allowed(policy', t) = Page!Allowed(policy, t)
    BY DEF Page!SettingsSeen
  <2>2. cmd[e].pc = "cas" /\ cmd'[e] # cmd[e] /\ policy' # policy
    BY <2>1 DEF Page!Saves
  <2>3. Page!CompareAndSet(e)
    BY <1>2, <2>2, Committed DEF Page!Write
  <2>4. policy = cmd[e].seen /\ caller = "live" /\ policy' = cmd[e].new
    BY <2>2, <2>3 DEF Page!CompareAndSet
  <2> QED BY <1>1, <2>2, <2>4 DEF Held
<1>4. Page!DisablingRevokes
  <2>1. SUFFICES ASSUME NEW e \in Editors, Page!Disables(e), NEW t \in Tools \ cmd[e].cat
                 PROVE  ~Page!Allowed(policy', t)
    BY DEF Page!DisablingRevokes
  <2>2. cmd[e].op = "tools" /\ cmd[e].pc = "write" /\ cmd'[e].pc = "audit" /\ cmd'[e] # cmd[e]
    BY <2>1 DEF Page!Disables
  <2>3. PICK j : Moves(e, j)
    BY <1>2, <2>2
  <2>4. j.pc = "audit" /\ trail' = [trail EXCEPT !.silent = @ + 1] /\ UNCHANGED crashes
    BY <1>1, <2>2, <2>3 DEF Moves
  <2>5. Page!Write(e)
    <3>1. trail.silent' = trail.silent + 1 /\ trail.silent \in Nat
      BY <2>4, EditsFit DEF Counted
    <3>2. trail' # trail
      BY <3>1
    <3>3. ~Page!Command(e)
      BY <2>2, CommandStarts
    <3>4. ~Page!Crash(e)
      BY <3>2 DEF Page!Crash
    <3>5. ~(Page!CheckSettings(e) \/ Page!CompareAndSet(e) \/ Page!MergeGrants(e) \/ Page!ReadBefore(e) \/ Page!Audit(e))
      BY <2>2, Zenon DEF Page!CheckSettings, Page!CompareAndSet, Page!MergeGrants, Page!ReadBefore, Page!Audit
    <3>6. ~(Page!ReadPrior(e) \/ Page!ReadManaged(e) \/ Page!ReadDisabled(e) \/ Page!AddToken(e) \/ Page!RevokeOthers(e))
      BY <2>2, Zenon DEF Page!ReadPrior, Page!ReadManaged, Page!ReadDisabled, Page!AddToken, Page!RevokeOthers
    <3> QED BY <1>2, <2>2, <3>3, <3>4, <3>5, <3>6 DEF Page!Step
  <2>6. policy' = cmd[e].new /\ cmd[e].new.rule[t] = "none"
    BY <1>1, <2>1, <2>2, <2>5 DEF Page!Write, Held
  <2> QED BY <2>6 DEF Page!Allowed
<1> QED BY <1>3, <1>4 DEF Page!EditsInv

\* The steps that touch the tokens, where only one process rotates: a command that rotates is
\* that process's, and only a token that has just been issued is about to stay alone.
LEMMA Rotates ==
  ASSUME Page!CallerEditsAssumption, Page!EditsInv, NEW e \in Editors,
         Page!Command(e) \/ Page!Step(e) \/ Page!Crash(e)
  PROVE  /\ cmd'[e].op = "rotate" => cmd[e].op = "rotate" \/ e \in Rotators
         /\ cmd'[e].pc = "others" => /\ cmd'[e].op = "rotate" /\ cmd'[e].token = cmd[e].token
                                     /\ tokens' = tokens \cup {cmd[e].token}
<1>0. PICK i : i = cmd[e]
  OBVIOUS
<1>1. cmd \in [Editors -> CallerJobs] /\ Held(i) /\ i \in CallerJobs
  BY <1>0, EditsFit DEF Held
<1>2. Page!Idle.op = "none" /\ Page!Idle.pc = "idle"
  BY DEF Page!Idle
<1>3. ASSUME Page!Done(e) PROVE cmd'[e].op = "none" /\ cmd'[e].pc = "idle"
  BY <1>1, <1>2, <1>3 DEF Page!Done
<1>4. ASSUME NEW o, NEW q, NEW c, NEW n, NEW s, NEW k, q # "others",
             cmd' = [cmd EXCEPT ![e] = [op |-> o, pc |-> q, seen |-> s, cat |-> c, new |-> n, token |-> k]]
      PROVE  cmd'[e].op = o /\ cmd'[e].pc # "others"
  BY <1>1, <1>4
<1>5. CASE Page!LoadSettings(e) \/ Page!LoadPolicyPage(e) \/ Page!ToolsPage(e) \/ Page!PutTools(e)
  <2>1. PICK j : cmd' = [cmd EXCEPT ![e] = j] /\ j.op # "rotate" /\ j.pc # "others"
    <3>1. CASE Page!LoadSettings(e)
      <4>1. PICK k : k = [Page!Idle EXCEPT !.op = "settings", !.pc = "page"]
        OBVIOUS
      <4>2. PICK j : j = [k EXCEPT !.seen = policy, !.cat = catalog]
        OBVIOUS
      <4>3. j.op = "settings" /\ j.pc = "page"
        BY <4>1, <4>2 DEF Page!Idle
      <4>4. cmd' = [cmd EXCEPT ![e] = j]
        BY <3>1, <4>1, <4>2, Zenon DEF Page!LoadSettings, Page!Start, Page!Snapshot
      <4> QED BY <4>3, <4>4
    <3>2. CASE Page!LoadPolicyPage(e)
      <4>1. PICK j : j = [Page!Idle EXCEPT !.op = "form", !.pc = "page", !.cat = Page!FormFields]
        OBVIOUS
      <4>2. j.op = "form" /\ j.pc = "page"
        BY <4>1 DEF Page!Idle
      <4>3. cmd' = [cmd EXCEPT ![e] = j]
        BY <3>2, <4>1, Zenon DEF Page!LoadPolicyPage, Page!Start
      <4> QED BY <4>2, <4>3
    <3>3. CASE Page!ToolsPage(e) \/ Page!PutTools(e)
      <4>1. PICK on : Page!SetEnabled(e, on)
        BY <3>3, Zenon DEF Page!ToolsPage, Page!PutTools
      <4>2. PICK j : j = [Page!Idle EXCEPT !.op = "tools", !.pc = "prior", !.cat = on]
        OBVIOUS
      <4>3. j.op = "tools" /\ j.pc = "prior"
        BY <4>2 DEF Page!Idle
      <4>4. cmd' = [cmd EXCEPT ![e] = j]
        BY <4>1, <4>2, Zenon DEF Page!SetEnabled, Page!Start
      <4> QED BY <4>3, <4>4
    <3> QED BY <1>5, <3>1, <3>2, <3>3
  <2> QED BY <1>1, <2>1
<1>6. CASE Page!SetPolicy(e)
  <2>1. PICK rule : Page!Start(e, [Page!Idle EXCEPT !.op = "policy", !.pc = "before", !.new.rule = rule])
    BY <1>6, Zenon DEF Page!SetPolicy
  <2>2. PICK j : j = [Page!Idle EXCEPT !.op = "policy", !.pc = "before", !.new.rule = rule]
    OBVIOUS
  <2>3. j.op = "policy" /\ j.pc = "before"
    BY <2>2 DEF Page!Idle
  <2>4. cmd' = [cmd EXCEPT ![e] = j]
    BY <2>1, <2>2 DEF Page!Start
  <2> QED BY <1>1, <2>3, <2>4
<1>7. CASE Page!CreateCaller(e, "create") \/ Page!CreateCaller(e, "create_with")
           \/ Page!RotateToken(e) \/ Page!IssueToken(e)
  <2>1. ASSUME NEW o, o = "rotate" => e \in Rotators,
               cmd' = [cmd EXCEPT ![e] = [Page!Idle EXCEPT !.op = o, !.pc = "token", !.token = issued']]
        PROVE  (cmd'[e].op = "rotate" => e \in Rotators) /\ cmd'[e].pc # "others"
    <3>1. PICK j : j = [Page!Idle EXCEPT !.op = o, !.pc = "token", !.token = issued']
      OBVIOUS
    <3>2. j.op = o /\ j.pc = "token"
      BY <3>1 DEF Page!Idle
    <3>3. cmd' = [cmd EXCEPT ![e] = j]
      BY <2>1, <3>1
    <3> QED BY <1>1, <2>1, <3>2, <3>3
  <2>2. CASE Page!CreateCaller(e, "create")
    <3>1. cmd' = [cmd EXCEPT ![e] = [Page!Idle EXCEPT !.op = "create", !.pc = "token", !.token = issued']]
      BY <2>2, Zenon DEF Page!CreateCaller, Page!Start
    <3>2. "create" = "rotate" => e \in Rotators
      OBVIOUS
    <3> QED BY <2>1, <3>1, <3>2, Zenon
  <2>3. CASE Page!CreateCaller(e, "create_with")
    <3>1. cmd' = [cmd EXCEPT ![e] = [Page!Idle EXCEPT !.op = "create_with", !.pc = "token", !.token = issued']]
      BY <2>3, Zenon DEF Page!CreateCaller, Page!Start
    <3>2. "create_with" = "rotate" => e \in Rotators
      OBVIOUS
    <3> QED BY <2>1, <3>1, <3>2, Zenon
  <2>4. CASE Page!RotateToken(e)
    <3>1. cmd' = [cmd EXCEPT ![e] = [Page!Idle EXCEPT !.op = "rotate", !.pc = "token", !.token = issued']]
      BY <2>4, Zenon DEF Page!RotateToken, Page!NewToken, Page!Start
    <3>2. e \in Rotators
      BY <2>4 DEF Page!RotateToken
    <3> QED BY <2>1, <3>1, <3>2, Zenon
  <2>5. CASE Page!IssueToken(e)
    <3>1. cmd' = [cmd EXCEPT ![e] = [Page!Idle EXCEPT !.op = "issue", !.pc = "token", !.token = issued']]
      BY <2>5, Zenon DEF Page!IssueToken, Page!NewToken, Page!Start
    <3>2. "issue" = "rotate" => e \in Rotators
      OBVIOUS
    <3> QED BY <2>1, <3>1, <3>2, Zenon
  <2> QED BY <1>7, <2>2, <2>3, <2>4, <2>5, Zenon
<1>8. CASE Page!RevokeToken(e) \/ Page!RevokeCaller(e) \/ Page!Crash(e)
  BY <1>1, <1>2, <1>8 DEF Page!RevokeToken, Page!RevokeCaller, Page!Crash, Page!Start, Page!Done
<1>9. ASSUME NEW q, q # "others", NEW j, j.op = i.op, j.pc = q, cmd' = [cmd EXCEPT ![e] = j]
      PROVE  (cmd'[e].op = "rotate" => cmd[e].op = "rotate") /\ cmd'[e].pc # "others"
  BY <1>0, <1>1, <1>9
<1>10. CASE Page!AddToken(e)
  <2>1. i.pc = "token" /\ tokens' = tokens \cup {i.token}
    BY <1>0, <1>10 DEF Page!AddToken
  <2>2. CASE i.op = "rotate"
    <3>1. PICK j : j = [i EXCEPT !.pc = "others"]
      OBVIOUS
    <3>2. j.op = i.op /\ j.token = i.token
      BY <1>1, <3>1 DEF CallerJobs
    <3>3. cmd' = [cmd EXCEPT ![e] = j]
      BY <1>0, <1>10, <2>2, <3>1 DEF Page!AddToken, Page!Go
    <3> QED BY <1>0, <1>1, <2>1, <2>2, <3>2, <3>3
  <2>3. CASE i.op = "create"
    <3>1. PICK j : j = [i EXCEPT !.pc = "write"]
      OBVIOUS
    <3>2. j.op = i.op /\ j.pc = "write"
      BY <1>1, <3>1 DEF CallerJobs
    <3>3. cmd' = [cmd EXCEPT ![e] = j]
      BY <1>0, <1>10, <2>3, <3>1 DEF Page!AddToken, Page!Go
    <3> QED BY <1>9, <3>2, <3>3
  <2>4. CASE i.op = "create_with"
    <3>1. PICK rule : cmd' = [cmd EXCEPT ![e].pc = "write", ![e].new.rule = rule]
      BY <1>0, <1>10, <2>4, Zenon DEF Page!AddToken
    <3>2. PICK j : j = [i EXCEPT !.pc = "write", !.new.rule = rule]
      OBVIOUS
    <3>3. j.op = i.op /\ j.pc = "write"
      BY <1>1, <3>2 DEF CallerJobs
    <3>4. cmd' = [cmd EXCEPT ![e] = j]
      BY <1>0, <1>1, <3>1, <3>2, Zenon
    <3> QED BY <1>9, <3>3, <3>4
  <2>5. CASE i.op \notin {"create", "create_with", "rotate"}
    <3>1. Page!Done(e)
      BY <1>0, <1>10, <2>5 DEF Page!AddToken
    <3> QED BY <1>3, <3>1
  <2> QED BY <2>2, <2>3, <2>4, <2>5
<1>11. CASE Page!Step(e) /\ ~Page!AddToken(e)
  <2>1. CASE Page!Done(e)
    BY <1>3, <2>1
  <2>2. CASE ~Page!Done(e)
    <3>1. PICK q, j : q # "others" /\ j.op = i.op /\ j.pc = q /\ cmd' = [cmd EXCEPT ![e] = j]
      <4>1. CASE Page!CheckSettings(e)
        <5>1. PICK n : cmd' = [cmd EXCEPT ![e].pc = "cas", ![e].new = n]
          BY <2>2, <4>1, Zenon DEF Page!CheckSettings
        <5>2. PICK j : j = Reaches(i, "cas", n)
          OBVIOUS
        <5>3. cmd' = [cmd EXCEPT ![e] = j]
          BY <1>0, <1>1, <5>1, <5>2, Zenon DEF Reaches
        <5>4. j.op = i.op /\ j.pc = "cas"
          BY <1>1, <5>2 DEF Reaches, CallerJobs
        <5> QED BY <5>3, <5>4
      <4>2. CASE Page!MergeGrants(e)
        <5>1. PICK rule : cmd' = [cmd EXCEPT ![e].pc = "before", ![e].new.rule = rule]
          BY <2>2, <4>2, Zenon DEF Page!MergeGrants
        <5>2. PICK j : j = [i EXCEPT !.pc = "before", !.new.rule = rule]
          OBVIOUS
        <5>3. cmd' = [cmd EXCEPT ![e] = j]
          BY <1>0, <1>1, <5>1, <5>2, Zenon
        <5>4. j.op = i.op /\ j.pc = "before"
          BY <1>1, <5>2 DEF CallerJobs
        <5> QED BY <5>3, <5>4
      <4>3. CASE Page!ReadBefore(e)
        <5>1. PICK n : n = [policy EXCEPT !.rule = i.new.rule]
          OBVIOUS
        <5>2. PICK j : j = [i EXCEPT !.pc = "write", !.seen = policy, !.new = n]
          OBVIOUS
        <5>3. cmd' = [cmd EXCEPT ![e] = j]
          <6>1. cmd' = [cmd EXCEPT ![e] = [i EXCEPT !.pc = "write", !.seen = policy, !.new = [policy EXCEPT !.rule = i.new.rule]]]
            BY <1>0, <1>1, <4>3 DEF Page!ReadBefore
          <6> QED BY <5>1, <5>2, <6>1
        <5>4. j.op = i.op /\ j.pc = "write"
          BY <1>1, <5>2 DEF CallerJobs
        <5> QED BY <5>3, <5>4
      <4>4. CASE Page!Write(e)
        <5>1. PICK j : j = [i EXCEPT !.pc = "audit"]
          OBVIOUS
        <5>2. cmd' = [cmd EXCEPT ![e] = j]
          BY <1>0, <4>4, <5>1 DEF Page!Write, Page!Go
        <5>3. j.op = i.op /\ j.pc = "audit"
          BY <1>1, <5>1 DEF CallerJobs
        <5> QED BY <5>2, <5>3
      <4>5. CASE Page!ReadPrior(e)
        <5>1. PICK rule : rule = [t \in Tools |-> IF t \in i.cat THEN policy.rule[t] ELSE "none"]
          OBVIOUS
        <5>2. PICK j : j = [i EXCEPT !.pc = "managed", !.new.enabled = i.cat, !.new.rule = rule]
          OBVIOUS
        <5>3. cmd' = [cmd EXCEPT ![e] = j]
          BY <1>0, <1>1, <4>5, <5>1, <5>2, Zenon DEF Page!ReadPrior
        <5>4. j.op = i.op /\ j.pc = "managed"
          BY <1>1, <5>2 DEF CallerJobs
        <5> QED BY <5>3, <5>4
      <4>6. CASE Page!ReadManaged(e)
        <5>1. PICK q : q = IF policy.managed THEN "disabled" ELSE "write"
          OBVIOUS
        <5>2. PICK j : j = [i EXCEPT !.pc = q, !.new.managed = policy.managed]
          OBVIOUS
        <5>3. cmd' = [cmd EXCEPT ![e] = j]
          BY <1>0, <1>1, <4>6, <5>1, <5>2, Zenon DEF Page!ReadManaged
        <5>4. j.op = i.op /\ j.pc = q /\ q # "others"
          BY <1>1, <5>1, <5>2 DEF CallerJobs
        <5> QED BY <5>3, <5>4
      <4>7. CASE Page!ReadDisabled(e)
        <5>1. PICK j : j = [i EXCEPT !.pc = "write", !.new.disabled = policy.disabled]
          OBVIOUS
        <5>2. cmd' = [cmd EXCEPT ![e] = j]
          BY <1>0, <1>1, <2>2, <4>7, <5>1, Zenon DEF Page!ReadDisabled
        <5>3. j.op = i.op /\ j.pc = "write"
          BY <1>1, <5>1 DEF CallerJobs
        <5> QED BY <5>2, <5>3
      <4>8. ~Page!CompareAndSet(e) /\ ~Page!Audit(e) /\ ~Page!RevokeOthers(e)
        BY <2>2 DEF Page!CompareAndSet, Page!Audit, Page!RevokeOthers
      <4> QED BY <1>11, <4>1, <4>2, <4>3, <4>4, <4>5, <4>6, <4>7, <4>8 DEF Page!Step
    <3> QED BY <1>9, <3>1
  <2> QED BY <2>1, <2>2
<1> QED BY <1>5, <1>6, <1>7, <1>8, <1>10, <1>11 DEF Page!Command

\* Only the end of a rotation takes tokens away.
LEMMA TokensStay ==
  ASSUME NEW e \in Editors, Page!Command(e) \/ Page!Step(e) \/ Page!Crash(e), "revoke_token" \notin Ops
  PROVE  tokens \subseteq tokens' \/ (Page!RevokeOthers(e) /\ cmd[e].pc = "others" /\ tokens' = tokens \cap {cmd[e].token})
<1>1. CASE Page!SetPolicy(e)
  BY <1>1, Zenon DEF Page!SetPolicy
<1>2. CASE Page!LoadSettings(e) \/ Page!LoadPolicyPage(e)
  BY <1>2 DEF Page!LoadSettings, Page!LoadPolicyPage
<1>3. CASE Page!ToolsPage(e) \/ Page!PutTools(e)
  <2>1. PICK on : Page!SetEnabled(e, on)
    BY <1>3 DEF Page!ToolsPage, Page!PutTools
  <2> QED BY <2>1 DEF Page!SetEnabled
<1>4. CASE Page!CreateCaller(e, "create") \/ Page!CreateCaller(e, "create_with")
  BY <1>4 DEF Page!CreateCaller
<1>5. CASE Page!RotateToken(e) \/ Page!IssueToken(e)
  BY <1>5 DEF Page!RotateToken, Page!IssueToken, Page!NewToken
<1>6. CASE Page!RevokeToken(e) \/ Page!RevokeCaller(e) \/ Page!Crash(e)
  BY <1>6 DEF Page!RevokeToken, Page!RevokeCaller, Page!Crash, Page!Ready
<1>7. CASE Page!CheckSettings(e) \/ Page!CompareAndSet(e) \/ Page!MergeGrants(e) \/ Page!ReadBefore(e)
           \/ Page!Write(e) \/ Page!Audit(e)
  BY <1>7, Zenon DEF Page!CheckSettings, Page!CompareAndSet, Page!MergeGrants, Page!ReadBefore, Page!Write, Page!Audit
<1>8. CASE Page!ReadPrior(e) \/ Page!ReadManaged(e) \/ Page!ReadDisabled(e)
  BY <1>8, Zenon DEF Page!ReadPrior, Page!ReadManaged, Page!ReadDisabled
<1>9. CASE Page!AddToken(e)
  <2>1. tokens' = tokens \cup {cmd[e].token}
    BY <1>9, Zenon DEF Page!AddToken
  <2> QED BY <2>1
<1>10. CASE Page!RevokeOthers(e)
  BY <1>10 DEF Page!RevokeOthers
<1> QED BY <1>1, <1>2, <1>3, <1>4, <1>5, <1>6, <1>7, <1>8, <1>9, <1>10 DEF Page!Command, Page!Step

LEMMA TokensInit == ASSUME Page!CallerEditsAssumption, Page!Init PROVE Page!TokensInv
<1>1. \A e \in Editors : cmd[e].op = "none" /\ cmd[e].pc = "idle"
  BY DEF Page!Init, Page!Idle
<1> QED BY <1>1, EditsInit DEF Page!TokensInv

LEMMA TokensNext ==
  ASSUME Page!CallerEditsAssumption, Page!TokensInv, "revoke_token" \notin Ops, \A x, y \in Rotators : x = y,
         Page!Next \/ UNCHANGED Page!vars
  PROVE  Page!TokensInv' /\ Page!NeverTokenless
<1>1. Page!EditsInv /\ Page!EditsInv' /\ cmd \in [Editors -> CallerJobs]
  BY EditsNext, EditsFit DEF Page!TokensInv
<1>2. \A e \in Editors : /\ cmd[e].op = "rotate" => e \in Rotators
                         /\ cmd[e].pc = "others" => cmd[e].op = "rotate" /\ cmd[e].token \in tokens
  BY DEF Page!TokensInv
<1>3. CASE Page!CatalogChanges \/ UNCHANGED Page!vars
  <2>1. UNCHANGED <<cmd, tokens>>
    BY <1>3 DEF Page!CatalogChanges, Page!vars
  <2> QED BY <1>1, <1>2, <2>1 DEF Page!TokensInv, Page!NeverTokenless
<1>4. ASSUME NEW x \in Editors, Page!Command(x) \/ Page!Step(x) \/ Page!Crash(x)
      PROVE  Page!TokensInv' /\ Page!NeverTokenless
  <2>1. PICK j : Moves(x, j)
    BY <1>1, <1>4, EditorMoves
  <2>2. \A e \in Editors : e # x => cmd'[e] = cmd[e]
    BY <1>1, <2>1 DEF Moves
  <2>3. /\ cmd'[x].op = "rotate" => cmd[x].op = "rotate" \/ x \in Rotators
        /\ cmd'[x].pc = "others" => /\ cmd'[x].op = "rotate" /\ cmd'[x].token = cmd[x].token
                                    /\ tokens' = tokens \cup {cmd[x].token}
    BY <1>1, <1>4, Rotates
  <2>4. tokens \subseteq tokens' \/ (Page!RevokeOthers(x) /\ cmd[x].pc = "others" /\ tokens' = tokens \cap {cmd[x].token})
    BY <1>4, TokensStay
  <2>5. ASSUME NEW e \in Editors, cmd'[e].pc = "others" PROVE cmd'[e].op = "rotate" /\ cmd'[e].token \in tokens'
    <3>1. CASE e = x
      BY <2>3, <2>5, <3>1
    <3>2. CASE e # x
      <4>1. cmd[e].op = "rotate" /\ cmd[e].token \in tokens /\ e \in Rotators
        BY <1>2, <2>2, <2>5, <3>2
      <4>2. tokens \subseteq tokens'
        BY <1>2, <2>4, <3>2, <4>1
      <4> QED BY <2>2, <2>5, <3>2, <4>1, <4>2
    <3> QED BY <3>1, <3>2
  <2>6. ASSUME NEW e \in Editors, cmd'[e].op = "rotate" PROVE e \in Rotators
    BY <1>2, <2>2, <2>3, <2>6
  <2>7. tokens # {} => tokens' # {}
    BY <1>2, <2>4
  <2> QED BY <1>1, <2>5, <2>6, <2>7 DEF Page!TokensInv, Page!NeverTokenless
<1> QED BY <1>3, <1>4 DEF Page!Next

-----------------------------------------------------------------------------
(* The sessions *)

LEMMA SessionSets ==
  ASSUME NEW S
  PROVE  Sess!Cardinality(S) = Cardinality(S) /\ (Sess!IsFiniteSet(S) <=> IsFiniteSet(S))
  BY DEF Sess!Cardinality, Cardinality, Sess!IsFiniteSet, IsFiniteSet

\* The cookies by their ids, and what a cookie is after its logout.
Known == {s.id : s \in sessions}
Shuts(s, list) == s.key = secret /\ s.exp >= now => s.id \in list

Cookies == [id : 1 .. MaxSessions, key : 1 .. serial, exp : 0 .. MaxTime + TTL, pw : 1 .. MaxResets + 1]
Answering == [kind : {"none", "login", "use", "logout"},
              pc : {"idle", "login", "use", "logout", "lock", "rotate", "write"},
              key : Nat, id : Nat, closed : SUBSET Nat, past : SUBSET Nat]

CookiesFit ==
    /\ now \in 0 .. MaxTime /\ secret \in 1 .. serial /\ serial \in Nat \ {0}
    /\ resets \in 0 .. MaxResets /\ password \in 1 .. resets + 1
    /\ sessions \subseteq Cookies /\ IsFiniteSet(sessions) /\ Cardinality(sessions) <= MaxSessions
    /\ \A s \in sessions : s.id <= Cardinality(sessions)
    /\ \A s, t \in sessions : s.id = t.id => s = t
    /\ \A s \in sessions : s.key = secret => s.pw \notin past
    /\ past \subseteq 1 .. password - 1
    /\ closed \subseteq Known /\ revoked \subseteq Known /\ Cardinality(revoked) <= MaxRevoked
    /\ \A s \in sessions : s.id \in closed => Shuts(s, revoked)

Answers(q) ==
    /\ q \in Answering
    /\ q.pc = "idle" => q = Sess!Idle
    /\ q.pc # "idle" => q.kind \in {"login", "use", "logout"} /\ q.key \in 1 .. serial
    /\ q.pc \in {"login", "use"} => q.kind = q.pc
    /\ q.pc \in {"logout", "lock", "rotate", "write"} => q.kind = "logout"
    /\ q.pc \notin {"idle", "login"} => q.id \in Known
    /\ q.pc \in {"use", "logout"} => q.closed \subseteq closed /\ q.past \subseteq past
    /\ q.pc \in {"lock", "rotate", "write"} => \A s \in sessions : s.id = q.id => s.key = q.key
    /\ q.pc = "rotate" => q.past = {}
    /\ q.pc = "write" =>
          /\ q.past \subseteq Known /\ Cardinality(q.past) <= MaxRevoked
          /\ \A s \in sessions : s.id \in closed \cup {q.id} => Shuts(s, q.past)

Locked ==
    /\ lock \in Requests \cup {None} /\ "current key" \notin wrong
    /\ \A r \in Requests : req[r].pc \in {"rotate", "write"} => lock = r

LEMMA SessionIs ==
  ASSUME NEW s \in sessions, \A x, y \in sessions : x.id = y.id => x = y
  PROVE  Sess!Session(s.id) = s
  BY DEF Sess!Session

LEMMA SessionsFit ==
  ASSUME Sess!SessionsInv
  PROVE  CookiesFit /\ Locked /\ req \in [Requests -> Answering] /\ \A r \in Requests : Answers(req[r])
<1>1. /\ sessions \subseteq Cookies /\ \A s, t \in sessions : s.id = t.id => s = t
      /\ req \in [Requests -> Answering] /\ closed \cup revoked \subseteq Known
      /\ \A r \in Requests : Sess!ReqInv(r)
  BY DEF Sess!SessionsInv, Sess!TypeOK, Cookies, Answering, Known
<1>2. ASSUME NEW s \in sessions, NEW list PROVE Sess!Shut(s.id, list) <=> Shuts(s, list)
  BY <1>1, SessionIs DEF Sess!Shut, Shuts
<1>3. Locked
  BY DEF Locked, Sess!SessionsInv, Sess!TypeOK, Sess!ClosedOnNextRequest
<1>4. \A s \in sessions : s.id \in closed => Shuts(s, revoked)
  BY <1>2 DEF Sess!SessionsInv
<1>5. CookiesFit
  BY <1>1, <1>4, SessionSets DEF CookiesFit, Sess!SessionsInv, Sess!TypeOK
<1>6. ASSUME NEW r \in Requests PROVE Answers(req[r])
  <2>1. PICK q : q = req[r]
    OBVIOUS
  <2>2. q.pc \notin {"idle", "login"} => q.id \in Known
    BY <1>1, <2>1 DEF Sess!ReqInv, Known
  <2>3. q.pc \in {"lock", "rotate", "write"} => \A s \in sessions : s.id = q.id => s.key = q.key
    BY <1>1, <2>1, SessionIs DEF Sess!ReqInv
  <2>4. q.pc = "write" =>
          /\ q.past \subseteq Known /\ Cardinality(q.past) <= MaxRevoked
          /\ \A s \in sessions : s.id \in closed \cup {q.id} => Shuts(s, q.past)
    BY <1>1, <1>2, <2>1, SessionSets DEF Sess!ReqInv, Known
  <2>5. q \in Answering
    BY <1>1, <2>1
  <2> QED BY <1>1, <2>1, <2>2, <2>3, <2>4, <2>5 DEF Answers, Sess!ReqInv
<1> QED BY <1>1, <1>3, <1>5, <1>6

LEMMA SessionsHold ==
  ASSUME Sess!SessionsAssumption,
         CookiesFit', Locked', req' \in [Requests -> Answering],
         \A r \in Requests, q \in Answering : q = req'[r] => Answers(q)'
  PROVE  Sess!SessionsInv'
<1> USE DEF Sess!SessionsAssumption
<1>1. /\ sessions' \subseteq Cookies' /\ \A s, t \in sessions' : s.id = t.id => s = t
      /\ closed' \subseteq Known' /\ revoked' \subseteq Known'
  BY DEF CookiesFit
<1>2. ASSUME NEW s \in sessions' PROVE Sess!Session(s.id)' = s
  BY <1>1 DEF Sess!Session
<1>3. ASSUME NEW s \in sessions', NEW list PROVE Sess!Shut(s.id, list)' <=> Shuts(s, list)'
  BY <1>2 DEF Sess!Shut, Shuts
<1>4. Sess!TypeOK'
  <2>1. password' \in 1 .. MaxResets + 1
    BY DEF CookiesFit
  <2>2. revoked' \subseteq 1 .. MaxSessions
    BY <1>1 DEF Known, Cookies
  <2> QED BY <1>1, <2>1, <2>2, SessionSets DEF Sess!TypeOK, CookiesFit, Locked, Cookies
<1>5. ASSUME NEW r \in Requests PROVE Sess!ReqInv(r)'
  <2>1. PICK q \in Answering : q = req'[r] /\ Answers(q)'
    OBVIOUS
  <2>2. q.pc \notin {"idle", "login"} => \E s \in sessions' : s.id = q.id
    BY <2>1 DEF Answers, Known
  <2>3. q.pc \in {"lock", "rotate", "write"} => Sess!Session(q.id)'.key = q.key
    BY <1>2, <2>1, <2>2 DEF Answers
  <2>4. q.pc = "write" =>
          /\ q.past \subseteq {s.id : s \in sessions'} /\ Cardinality(q.past) <= MaxRevoked
          /\ \A id \in closed' \cup {q.id} : Sess!Shut(id, q.past)'
    BY <1>1, <1>3, <2>1, <2>2 DEF Answers, Known
  <2> QED BY <2>1, <2>2, <2>3, <2>4, SessionSets DEF Answers, Sess!ReqInv
<1>6. \A id \in closed' : Sess!Shut(id, revoked)'
  BY <1>1, <1>2 DEF CookiesFit, Known, Sess!Shut, Shuts
<1>7. Sess!IsFiniteSet(sessions') /\ Sess!Cardinality(sessions') = Cardinality(sessions')
  BY SessionSets DEF CookiesFit
<1>8. /\ closed' \cup revoked' \subseteq {s.id : s \in sessions'}
      /\ "current key" \notin wrong'
  BY <1>1 DEF Known, Locked
<1> QED BY <1>1, <1>4, <1>5, <1>6, <1>7, <1>8 DEF CookiesFit, Sess!SessionsInv, Sess!ClosedOnNextRequest, Answering

LEMMA NoRequest == Sess!Idle \in Answering /\ Sess!Idle.pc = "idle" /\ Answers(Sess!Idle)
<1>1. Sess!Idle \in Answering /\ Sess!Idle.pc = "idle"
  BY DEF Sess!Idle, Answering
<1> QED BY <1>1 DEF Answers

\* A step of one request that leaves the cookies, the list and the key as they are.
LEMMA SessionStep ==
  ASSUME Sess!SessionsAssumption, Sess!SessionsInv, NEW r \in Requests, NEW q \in Answering, Answers(q),
         req' = [req EXCEPT ![r] = q],
         UNCHANGED <<now, secret, password, sessions, revoked, closed, past, resets, serial>>,
         lock' \in Requests \cup {None}, "current key" \notin wrong',
         q.pc \in {"rotate", "write"} => lock' = r,
         lock' = lock \/ lock = None \/ lock = r
  PROVE  Sess!SessionsInv'
<1>1. CookiesFit /\ Locked /\ req \in [Requests -> Answering] /\ \A x \in Requests : Answers(req[x])
  BY SessionsFit
<1>2. Known' = Known
  BY DEF Known
<1>3. CookiesFit'
  BY <1>1, <1>2 DEF CookiesFit, Cookies, Shuts
<1>4. req' \in [Requests -> Answering]
  BY <1>1
<1>5. Locked'
  BY <1>1 DEF Locked, Sess!SessionsAssumption
<1>6. ASSUME NEW x \in Requests, NEW k \in Answering, k = req'[x] PROVE Answers(k)'
  <2>1. Answers(k)
    BY <1>1, <1>6
  <2> QED BY <1>2, <2>1 DEF Answers, Shuts
<1> QED BY <1>3, <1>4, <1>5, <1>6, SessionsHold

LEMMA SessionsInit == ASSUME Sess!SessionsAssumption, Sess!Init PROVE Sess!SessionsInv
<1>1. Sess!Idle \in Answering /\ Sess!Idle.pc = "idle"
  BY NoRequest
<1>2. Sess!Cardinality({}) = 0 /\ Sess!IsFiniteSet({})
  BY SessionSets, FS_EmptySet
<1>3. Sess!TypeOK
  BY <1>1, <1>2 DEF Sess!Init, Sess!SessionsAssumption, Sess!TypeOK
<1>4. ASSUME NEW r \in Requests PROVE Sess!ReqInv(r)
  BY <1>1 DEF Sess!Init, Sess!ReqInv
<1>5. req \in [Requests -> Answering]
  BY <1>1 DEF Sess!Init
<1> QED BY <1>2, <1>3, <1>4, <1>5
        DEF Sess!Init, Sess!SessionsAssumption, Sess!SessionsInv, Sess!ClosedOnNextRequest, Answering

LEMMA SessionArrives ==
  ASSUME Sess!SessionsAssumption, Sess!SessionsInv, NEW r \in Requests, NEW kind \in {"login", "use", "logout"},
         NEW id \in Nat, kind # "login" => id \in Known, Sess!Arrive(r, kind, id)
  PROVE  Sess!SessionsInv'
<1>1. CookiesFit /\ Locked
  BY SessionsFit
<1>2. PICK q : q = [kind |-> kind, pc |-> kind, key |-> secret, id |-> id, closed |-> closed, past |-> past]
  OBVIOUS
<1>3. closed \subseteq Nat /\ past \subseteq Nat /\ secret \in Nat
  BY <1>1 DEF CookiesFit, Known, Cookies, Sess!SessionsAssumption
<1>4. q \in Answering /\ Answers(q)
  BY <1>1, <1>2, <1>3 DEF Answering, Answers, CookiesFit
<1>5. req' = [req EXCEPT ![r] = q]
  BY <1>2 DEF Sess!Arrive
<1> QED BY <1>1, <1>2, <1>4, <1>5, SessionStep DEF Sess!Arrive, Locked

LEMMA SessionAuthenticates ==
  ASSUME Sess!SessionsAssumption, Sess!SessionsInv, NEW r \in Requests, Sess!Authenticate(r)
  PROVE  Sess!SessionsInv'
<1>1. CookiesFit /\ Locked /\ req \in [Requests -> Answering]
  BY SessionsFit
<1>2. PICK q \in Answering : q = req[r] /\ Answers(q) /\ q.pc \in {"use", "logout"}
  BY SessionsFit DEF Sess!Authenticate
<1>3. PICK s \in sessions : s.id = q.id /\ Sess!Session(q.id) = s
  BY <1>1, <1>2, SessionIs DEF Answers, Known, CookiesFit
<1>4. Sess!Valid(q.id, q.key) <=> s.key = q.key /\ s.exp >= now /\ q.id \notin revoked
  BY <1>3 DEF Sess!Valid
<1>5. Sess!Valid(q.id, q.key) /\ (q.id \in q.closed \/ s.pw \in q.past) => q.key # secret
  BY <1>1, <1>2, <1>3, <1>4 DEF CookiesFit, Answers, Shuts
<1>6. "current key" \notin wrong'
  BY <1>1, <1>2, <1>3, <1>5 DEF Sess!Authenticate, Locked
<1>7. CASE Sess!Valid(q.id, q.key) /\ q.kind = "logout"
  <2>1. PICK k : k = [q EXCEPT !.pc = "lock"]
    OBVIOUS
  <2>2. k \in Answering /\ k.pc = "lock" /\ k.kind = "logout" /\ k.key = q.key /\ k.id = q.id
    BY <1>2, <1>7, <2>1 DEF Answering
  <2>3. Answers(k)
    BY <1>1, <1>2, <1>3, <1>4, <1>7, <2>2 DEF Answers, CookiesFit
  <2>4. req' = [req EXCEPT ![r] = k]
    BY <1>2, <1>7, <2>1 DEF Sess!Authenticate, Sess!Go
  <2> QED BY <1>1, <1>6, <2>2, <2>3, <2>4, SessionStep DEF Sess!Authenticate, Locked
<1>8. CASE ~(Sess!Valid(q.id, q.key) /\ q.kind = "logout")
  <2>1. req' = [req EXCEPT ![r] = Sess!Idle]
    BY <1>2, <1>8 DEF Sess!Authenticate, Sess!Done
  <2> QED BY <1>1, <1>6, <2>1, NoRequest, SessionStep DEF Sess!Authenticate, Locked
<1> QED BY <1>7, <1>8

\* A new cookie has an id of its own and the password of its moment.
LEMMA SessionLogin ==
  ASSUME Sess!SessionsAssumption, Sess!SessionsInv, NEW r \in Requests, Sess!Login(r)
  PROVE  Sess!SessionsInv'
<1> USE DEF Sess!SessionsAssumption
<1>1. CookiesFit /\ Locked /\ req \in [Requests -> Answering] /\ \A x \in Requests : Answers(req[x])
  BY SessionsFit
<1>2. PICK n : n = Cardinality(sessions) /\ n \in Nat /\ n < MaxSessions
  BY <1>1, SessionSets, FS_CardinalityType DEF Sess!Login, CookiesFit
<1>3. req[r].key \in 1 .. serial
  BY <1>1 DEF Sess!Login, Answers
<1>4. PICK c : c = [id |-> n + 1, key |-> req[r].key, exp |-> now + TTL, pw |-> password]
  OBVIOUS
<1>5. c \in Cookies /\ c.id = n + 1 /\ c.pw = password
  BY <1>1, <1>2, <1>3, <1>4 DEF CookiesFit, Cookies
<1>6. sessions' = sessions \cup {c}
  BY <1>2, <1>4, SessionSets DEF Sess!Login
<1>7. UNCHANGED <<now, secret, password, revoked, lock, reset, closed, past, wrong, resets, serial>>
  BY DEF Sess!Login
<1>8. \A s \in sessions : s.id <= n
  BY <1>1, <1>2 DEF CookiesFit
<1>9. c \notin sessions /\ IsFiniteSet(sessions') /\ Cardinality(sessions') = n + 1
  <2>1. c \notin sessions
    BY <1>2, <1>5, <1>8
  <2> QED BY <1>1, <1>2, <1>6, <2>1, FS_AddElement DEF CookiesFit
<1>10. Known \subseteq Known' /\ \A k \in Known : k <= n
  BY <1>6, <1>8 DEF Known
<1>11. \A s, t \in sessions' : s.id = t.id => s = t
  <2>1. \A s \in sessions : s.id # c.id
    BY <1>1, <1>2, <1>5, <1>8 DEF CookiesFit, Cookies
  <2> QED BY <1>1, <1>6, <2>1 DEF CookiesFit
<1>12. CookiesFit'
  <2>1. \A s \in sessions' : s.id <= n + 1
    BY <1>1, <1>2, <1>5, <1>6, <1>8 DEF CookiesFit, Cookies
  <2>2. \A s \in sessions' : s.key = secret => s.pw \notin past
    BY <1>1, <1>5, <1>6 DEF CookiesFit
  <2>3. \A s \in sessions' : s.id \in closed => (s.key = secret /\ s.exp >= now => s.id \in revoked)
    <3>1. c.id \notin closed
      BY <1>1, <1>2, <1>5, <1>10 DEF CookiesFit
    <3> QED BY <1>1, <1>6, <3>1 DEF CookiesFit, Shuts
  <2>4. sessions' \subseteq Cookies' /\ n + 1 <= MaxSessions
    BY <1>1, <1>2, <1>5, <1>6, <1>7 DEF CookiesFit, Cookies
  <2>5. closed \subseteq Known' /\ revoked \subseteq Known'
    BY <1>1, <1>10 DEF CookiesFit
  <2> QED BY <1>1, <1>7, <1>9, <1>11, <2>1, <2>2, <2>3, <2>4, <2>5 DEF CookiesFit, Shuts
<1>13. req' = [req EXCEPT ![r] = Sess!Idle]
  BY DEF Sess!Login, Sess!Done
<1>14. ASSUME NEW x \in Requests, NEW k \in Answering, k = req'[x] PROVE Answers(k)'
  <2>1. CASE x = r
    BY <1>1, <1>13, <1>14, <2>1, NoRequest DEF Answers
  <2>2. CASE x # r
    <3>1. Answers(k)
      BY <1>1, <1>13, <1>14, <2>2
    <3>2. k.pc \notin {"idle", "login"} => k.id # c.id
      BY <1>2, <1>5, <1>10, <3>1 DEF Answers
    <3>3. c.id \notin closed
      BY <1>1, <1>2, <1>5, <1>10 DEF CookiesFit
    <3> QED BY <1>6, <1>7, <1>10, <3>1, <3>2, <3>3 DEF Answers, Shuts
  <2> QED BY <2>1, <2>2
<1>15. req' \in [Requests -> Answering] /\ Locked'
  BY <1>1, <1>7, <1>13, NoRequest DEF Locked
<1> QED BY <1>12, <1>14, <1>15, SessionsHold

\* The list under the lock: a cookie that is not valid any more is as good as in it.
LEMMA SessionLocks ==
  ASSUME Sess!SessionsAssumption, Sess!SessionsInv, NEW r \in Requests, Sess!RevokeLock(r)
  PROVE  Sess!SessionsInv'
<1> USE DEF Sess!SessionsAssumption
<1>1. CookiesFit /\ Locked /\ req \in [Requests -> Answering] /\ \A x \in Requests : Answers(req[x])
  BY SessionsFit
<1>2. PICK q \in Answering : q = req[r] /\ Answers(q) /\ q.pc = "lock"
  BY <1>1 DEF Sess!RevokeLock
<1>3. PICK s \in sessions : s.id = q.id /\ Sess!Session(q.id) = s
  BY <1>1, <1>2, SessionIs DEF Answers, Known, CookiesFit
<1>4. s.key = q.key /\ q.id \in Known /\ q.kind = "logout"
  BY <1>2, <1>3 DEF Answers
<1>5. Sess!Valid(q.id, q.key) <=> s.exp >= now /\ q.id \notin revoked
  BY <1>3, <1>4 DEF Sess!Valid
<1>6. UNCHANGED <<now, secret, password, sessions, revoked, reset, past, wrong, resets, serial>> /\ lock = None
  BY DEF Sess!RevokeLock
<1>7. \A x \in Requests : req[x].pc \notin {"rotate", "write"}
  BY <1>1, <1>6 DEF Locked
<1>8. CASE ~Sess!Valid(q.id, q.key)
  <2>1. req' = [req EXCEPT ![r] = Sess!Idle] /\ lock' = lock /\ closed' = closed \cup {q.id}
    BY <1>2, <1>8 DEF Sess!RevokeLock, Sess!Done
  <2>2. Known' = Known
    BY <1>6 DEF Known
  <2>3. \A x \in sessions : x.id \in closed' => Shuts(x, revoked)
    <3>1. Shuts(s, revoked)
      BY <1>3, <1>5, <1>8 DEF Shuts
    <3> QED BY <1>1, <1>3, <2>1, <3>1 DEF CookiesFit
  <2>4. CookiesFit'
    BY <1>1, <1>4, <1>6, <2>1, <2>2, <2>3 DEF CookiesFit, Cookies, Shuts
  <2>5. ASSUME NEW x \in Requests, NEW k \in Answering, k = req'[x] PROVE Answers(k)'
    <3>1. Answers(k) /\ k.pc \notin {"rotate", "write"}
      BY <1>1, <1>7, <2>1, <2>5, NoRequest
    <3> QED BY <1>6, <2>1, <2>2, <3>1 DEF Answers
  <2>6. req' \in [Requests -> Answering] /\ Locked'
    BY <1>1, <1>6, <2>1, NoRequest DEF Locked
  <2> QED BY <2>4, <2>5, <2>6, SessionsHold
<1>9. CASE Sess!Valid(q.id, q.key)
  <2>1. PICK list : list = {i \in revoked : Sess!Session(i).exp >= now}
    OBVIOUS
  <2>0. IF Cardinality(list) >= MaxRevoked THEN req' = [req EXCEPT ![r].pc = "rotate", ![r].past = {}]
        ELSE req' = [req EXCEPT ![r].pc = "write", ![r].past = list \cup {q.id}]
    <3>1. Sess!Cardinality(list) = Cardinality(list)
      BY SessionSets
    <3> QED BY <1>2, <1>9, <2>1, <3>1, Zenon DEF Sess!RevokeLock
  <2>2. lock' = r /\ UNCHANGED closed
    BY <1>2, <1>9 DEF Sess!RevokeLock
  <2>3. list \subseteq Known /\ IsFiniteSet(list) /\ Cardinality(list) \in Nat
    <3>1. revoked \subseteq 1 .. MaxSessions /\ list \subseteq Known
      BY <1>1, <2>1 DEF CookiesFit, Known, Cookies
    <3>2. IsFiniteSet(1 .. MaxSessions)
      <4>1. 1 \in Int /\ MaxSessions \in Int
        OBVIOUS
      <4> QED BY <4>1, FS_Interval, Zenon
    <3>3. IsFiniteSet(list)
      BY <2>1, <3>1, <3>2, FS_Subset
    <3> QED BY <3>1, <3>3, FS_CardinalityType
  <2>4. Known \subseteq Nat
    BY <1>1 DEF Known, CookiesFit, Cookies
  <2>5. CASE Cardinality(list) >= MaxRevoked
    <3>1. PICK k : k = [q EXCEPT !.pc = "rotate", !.past = {}]
      OBVIOUS
    <3>2. k \in Answering /\ k.pc = "rotate" /\ k.kind = "logout" /\ k.key = q.key /\ k.id = q.id /\ k.past = {}
      BY <1>2, <1>4, <3>1 DEF Answering
    <3>3. req' = [req EXCEPT ![r] = k]
      <4>1. req' = [req EXCEPT ![r].pc = "rotate", ![r].past = {}]
        BY <2>0, <2>5
      <4> QED BY <1>1, <1>2, <3>1, <4>1, Zenon
    <3>4. Answers(k)
      BY <1>2, <3>2 DEF Answers
    <3> QED BY <1>1, <1>6, <2>2, <3>2, <3>3, <3>4, SessionStep DEF Locked
  <2>6. CASE ~(Cardinality(list) >= MaxRevoked)
    <3>1. PICK k : k = [q EXCEPT !.pc = "write", !.past = list \cup {q.id}]
      OBVIOUS
    <3>2. /\ k \in Answering /\ k.pc = "write" /\ k.kind = "logout" /\ k.key = q.key /\ k.id = q.id
          /\ k.past = list \cup {q.id}
      BY <1>2, <1>4, <2>3, <2>4, <3>1 DEF Answering
    <3>3. req' = [req EXCEPT ![r] = k]
      <4>1. req' = [req EXCEPT ![r].pc = "write", ![r].past = list \cup {q.id}]
        BY <2>0, <2>6
      <4> QED BY <1>1, <1>2, <3>1, <4>1, Zenon
    <3>4. Cardinality(k.past) <= MaxRevoked /\ k.past \subseteq Known
      <4>1. \/ Cardinality(list \cup {q.id}) = Cardinality(list)
            \/ Cardinality(list \cup {q.id}) = Cardinality(list) + 1
        BY <2>3, FS_AddElement, Zenon
      <4> QED BY <1>4, <2>3, <2>6, <3>2, <4>1
    <3>5. ASSUME NEW x \in sessions, x.id \in closed \cup {k.id} PROVE Shuts(x, k.past)
      <4>1. Sess!Session(x.id) = x
        BY <1>1, SessionIs DEF CookiesFit
      <4>2. x.id = q.id \/ Shuts(x, revoked)
        BY <1>1, <3>2, <3>5 DEF CookiesFit
      <4> QED BY <2>1, <3>2, <4>1, <4>2 DEF Shuts
    <3>6. Answers(k)
      BY <1>2, <3>2, <3>4, <3>5 DEF Answers
    <3> QED BY <1>1, <1>6, <2>2, <3>2, <3>3, <3>6, SessionStep DEF Locked
  <2> QED BY <2>5, <2>6
<1> QED BY <1>8, <1>9

\* A new key, of a full list or of set-password: every cookie has an old one.
LEMMA SessionRotates ==
  ASSUME Sess!SessionsAssumption, Sess!SessionsInv,
         secret' = serial + 1, serial' = serial + 1,
         UNCHANGED <<now, password, sessions, revoked, lock, closed, wrong, resets>>,
         past \subseteq past', past' \subseteq 1 .. password - 1,
         req' \in [Requests -> Answering],
         \A x \in Requests : \/ req'[x] = req[x]
                            \/ \E q \in Answering : /\ req[x] = q /\ q.pc = "rotate"
                                                    /\ req'[x] = [q EXCEPT !.pc = "write"]
  PROVE  Sess!SessionsInv'
<1> USE DEF Sess!SessionsAssumption
<1>1. CookiesFit /\ Locked /\ \A x \in Requests : Answers(req[x])
  BY SessionsFit
<1>2. Known' = Known /\ secret' \in 1 .. serial' /\ serial' \in Nat \ {0} /\ Cookies \subseteq Cookies'
  BY <1>1 DEF Known, CookiesFit, Cookies
<1>3. \A s \in sessions : s.key # secret'
  BY <1>1 DEF CookiesFit, Cookies
<1>4. CookiesFit'
  BY <1>1, <1>2, <1>3 DEF CookiesFit, Shuts
<1>5. ASSUME NEW x \in Requests, NEW k \in Answering, k = req'[x]
      PROVE  Answers(k)' /\ (k.pc \in {"rotate", "write"} => req[x].pc \in {"rotate", "write"})
  <2>1. 1 .. serial \subseteq 1 .. serial'
    BY <1>1 DEF CookiesFit
  <2>2. CASE req'[x] = req[x]
    <3>1. Answers(k)
      BY <1>1, <1>5, <2>2
    <3> QED BY <1>2, <1>3, <1>5, <2>1, <2>2, <3>1 DEF Answers, Shuts
  <2>3. ASSUME NEW q \in Answering, req[x] = q, q.pc = "rotate", k = [q EXCEPT !.pc = "write"]
        PROVE  Answers(k)' /\ req[x].pc \in {"rotate", "write"}
    <3>1. Answers(q)
      BY <1>1, <2>3
    <3>2. /\ k.pc = "write" /\ k.kind = q.kind /\ k.key = q.key /\ k.id = q.id
          /\ k.past = q.past /\ k.closed = q.closed
      BY <2>3 DEF Answering
    <3>3. k.past = {} /\ Cardinality(k.past) <= MaxRevoked
      <4>1. Cardinality({}) = 0
        BY FS_EmptySet
      <4>2. k.past = {}
        BY <2>3, <3>1, <3>2 DEF Answers
      <4>3. 0 <= MaxRevoked
        OBVIOUS
      <4> QED BY <4>1, <4>2, <4>3
    <3> QED BY <1>2, <1>3, <1>5, <2>1, <2>3, <3>1, <3>2, <3>3 DEF Answers, Shuts
  <2> QED BY <1>5, <2>2, <2>3
<1>6. Locked'
  BY <1>1, <1>5 DEF Locked
<1> QED BY <1>4, <1>5, <1>6, SessionsHold

LEMMA SessionWrites ==
  ASSUME Sess!SessionsAssumption, Sess!SessionsInv, NEW r \in Requests, Sess!RevokeWrite(r)
  PROVE  Sess!SessionsInv'
<1> USE DEF Sess!SessionsAssumption
<1>1. CookiesFit /\ Locked /\ req \in [Requests -> Answering] /\ \A x \in Requests : Answers(req[x])
  BY SessionsFit
<1>2. PICK q \in Answering : q = req[r] /\ Answers(q) /\ q.pc = "write"
  BY <1>1 DEF Sess!RevokeWrite
<1>3. /\ UNCHANGED <<now, secret, password, sessions, reset, past, wrong, resets, serial>>
      /\ revoked' = q.past /\ lock' = None /\ closed' = closed \cup {q.id}
      /\ req' = [req EXCEPT ![r] = Sess!Idle]
  BY <1>2 DEF Sess!RevokeWrite, Sess!Done
<1>4. Known' = Known
  BY <1>3 DEF Known
<1>5. CookiesFit'
  BY <1>1, <1>2, <1>3, <1>4 DEF CookiesFit, Cookies, Answers, Shuts
<1>6. \A x \in Requests : x # r => req[x].pc \notin {"rotate", "write"}
  BY <1>1, <1>2 DEF Locked
<1>7. ASSUME NEW x \in Requests, NEW k \in Answering, k = req'[x]
      PROVE  Answers(k)' /\ k.pc \notin {"rotate", "write"}
  <2>1. Answers(k) /\ k.pc \notin {"rotate", "write"}
    BY <1>1, <1>3, <1>6, <1>7, NoRequest
  <2> QED BY <1>3, <1>4, <2>1 DEF Answers
<1>8. req' \in [Requests -> Answering] /\ Locked'
  BY <1>1, <1>3, <1>6, NoRequest DEF Locked
<1> QED BY <1>5, <1>7, <1>8, SessionsHold

\* What set-password, the time and a death do beside.
LEMMA SessionOutside ==
  ASSUME Sess!SessionsAssumption, Sess!SessionsInv,
         Sess!WriteHash \/ Sess!ResetDies \/ Sess!Tick \/ UNCHANGED Sess!vars
  PROVE  Sess!SessionsInv'
<1> USE DEF Sess!SessionsAssumption
<1>1. CookiesFit /\ Locked /\ req \in [Requests -> Answering] /\ \A x \in Requests : Answers(req[x])
  BY SessionsFit
<1>2. /\ UNCHANGED <<secret, sessions, revoked, lock, req, closed, past, wrong, serial>>
      /\ now' \in 0 .. MaxTime /\ now' >= now /\ resets' \in 0 .. MaxResets
      /\ password' \in 1 .. resets' + 1 /\ password' >= password
  BY <1>1 DEF CookiesFit, Sess!WriteHash, Sess!ResetDies, Sess!Tick, Sess!vars
<1>3. Known' = Known
  BY <1>2 DEF Known
<1>4. ASSUME NEW s \in sessions, NEW list, Shuts(s, list) PROVE Shuts(s, list)'
  BY <1>1, <1>2, <1>4 DEF Shuts, CookiesFit, Cookies
<1>5. CookiesFit'
  <2>1. \A s \in sessions : s.id \in closed => (s.key = secret /\ s.exp >= now' => s.id \in revoked)
    BY <1>1, <1>2 DEF Shuts, CookiesFit, Cookies
  <2>2. past \subseteq 1 .. password' - 1
    BY <1>1, <1>2 DEF CookiesFit
  <2> QED BY <1>1, <1>2, <1>3, <2>1, <2>2 DEF CookiesFit, Cookies, Shuts
<1>6. ASSUME NEW x \in Requests, NEW k \in Answering, k = req'[x] PROVE Answers(k)'
  <2>1. Answers(k)
    BY <1>1, <1>2, <1>6
  <2> QED BY <1>2, <1>3, <1>4, <2>1 DEF Answers
<1>7. Locked'
  BY <1>1, <1>2 DEF Locked
<1> QED BY <1>1, <1>2, <1>5, <1>6, <1>7, SessionsHold

LEMMA SessionsNext ==
  ASSUME Sess!SessionsAssumption, Sess!SessionsInv, Sess!Next \/ UNCHANGED Sess!vars
  PROVE  Sess!SessionsInv'
<1>1. CookiesFit /\ Locked /\ req \in [Requests -> Answering] /\ \A x \in Requests : Answers(req[x])
  BY SessionsFit
<1>2. ASSUME NEW r \in Requests, Sess!Arrive(r, "login", 0) PROVE Sess!SessionsInv'
  BY <1>2, SessionArrives
<1>3. ASSUME NEW r \in Requests, NEW s \in sessions, Sess!Arrive(r, "use", s.id) \/ Sess!Arrive(r, "logout", s.id)
      PROVE  Sess!SessionsInv'
  <2>1. s.id \in Nat /\ s.id \in Known
    BY <1>1, <1>3 DEF Known, CookiesFit, Cookies
  <2> QED BY <1>3, <2>1, SessionArrives
<1>4. ASSUME NEW r \in Requests, Sess!RevokeRotate(r) PROVE Sess!SessionsInv'
  <2>1. PICK q \in Answering : q = req[r] /\ q.pc = "rotate"
    BY <1>1, <1>4 DEF Sess!RevokeRotate
  <2>2. PICK k : k = [q EXCEPT !.pc = "write"]
    OBVIOUS
  <2>3. k \in Answering
    BY <2>2 DEF Answering
  <2>4. req' = [req EXCEPT ![r] = k]
    BY <1>1, <1>4, <2>1, <2>2, Zenon DEF Sess!RevokeRotate, Sess!Go
  <2>5. req' \in [Requests -> Answering] /\ req'[r] = k /\ \A x \in Requests : x # r => req'[x] = req[x]
    BY <1>1, <1>4, <2>3, <2>4
  <2>6. past \subseteq 1 .. password - 1
    BY <1>1 DEF CookiesFit
  <2> QED BY <1>4, <2>1, <2>2, <2>5, <2>6, SessionRotates DEF Sess!RevokeRotate
<1>5. CASE Sess!RotateSecret
  <2>1. past \subseteq past' /\ past' \subseteq 1 .. password - 1
    BY <1>1, <1>5 DEF CookiesFit, Sess!RotateSecret
  <2> QED BY <1>1, <1>5, <2>1, SessionRotates DEF Sess!RotateSecret
<1>6. ASSUME NEW r \in Requests, Sess!Crash(r) PROVE Sess!SessionsInv'
  <2>1. req' = [req EXCEPT ![r] = Sess!Idle] /\ lock' = IF lock = r THEN None ELSE lock
    BY <1>6 DEF Sess!Crash, Sess!Done
  <2> QED BY <1>1, <1>6, <2>1, NoRequest, SessionStep DEF Sess!Crash, Locked
<1> QED BY <1>2, <1>3, <1>4, <1>5, <1>6, SessionLogin, SessionAuthenticates, SessionLocks, SessionWrites,
           SessionOutside DEF Sess!Next

LEMMA SessionsKeep == ASSUME Sess!SessionsInv PROVE Sess!ClosedOnNextRequest
  BY DEF Sess!SessionsInv

-----------------------------------------------------------------------------
(* The login throttle *)

LEMMA LoginSets ==
  ASSUME NEW S
  PROVE  Login!Cardinality(S) = Cardinality(S) /\ (Login!IsFiniteSet(S) <=> IsFiniteSet(S))
  BY DEF Login!Cardinality, Cardinality, Login!IsFiniteSet, IsFiniteSet

LEMMA Smallest ==
  ASSUME NEW S \in SUBSET Nat, S # {}
  PROVE  Login!Min(S) \in S
<1>1. PICK x \in S : \A y \in S : ~(<<y, x>> \in OpToRel(<, Nat))
  BY WFMin, NatLessThanWellFounded
<1>2. \A y \in S : ~(y < x)
  BY <1>1 DEF OpToRel
<1>3. \A y \in S : x <= y
  BY <1>2
<1> QED BY <1>3 DEF Login!Min

\* A failure in its window is not as old as the window is long: the wait is a real one.
LEMMA Waits ==
  ASSUME NEW t \in Nat, t % 2 = 0, NEW w \in Nat, w % 2 = 1, NEW F, F # {},
         \A f \in F : f[1] \in Nat /\ f[1] % 2 = 0 /\ f[1] >= t - w
  PROVE  w - (t - Login!Oldest(F)) > 0
<1>1. PICK S : S = {f[1] : f \in F}
  OBVIOUS
<1>2. S \subseteq Nat /\ S # {}
  BY <1>1
<1>3. PICK f \in F : f[1] = Login!Min(S)
  BY <1>1, <1>2, Smallest
<1>4. PICK o : o = Login!Oldest(F) /\ o \in Nat /\ o % 2 = 0 /\ o >= t - w
  BY <1>1, <1>3 DEF Login!Oldest
<1>5. (t - w) % 2 = 1
  OBVIOUS
<1>6. o # t - w
  BY <1>4, <1>5
<1> QED BY <1>4, <1>6

\* The failures that the guard remembers of an address are as many as those of its window.
LEMMA Remembered ==
  ASSUME NEW W, NEW F, IsFiniteSet(F), \A f \in W : <<f[1], f[2]>> \in F,
         \A f, g \in W : f[2] = g[2] => f = g
  PROVE  Cardinality(W) <= Cardinality(F)
<1>1. PICK h : h = [f \in W |-> <<f[1], f[2]>>]
  OBVIOUS
<1>2. h \in [W -> F]
  BY <1>1
<1>3. h \in Injection(W, F)
  BY <1>1, <1>2 DEF Injection, IsInjective
<1> QED BY <1>3, FS_Injection

\* What the guard remembers and what it bounds.
GuardFit ==
    /\ now \in 0 .. LoginTime /\ failures \in 0 .. MaxFails /\ now % 2 = 0
    /\ login \in [Slots -> Ips \cup {None}]
    /\ \A i \in Ips : {f \in ipFails[i] : f[1] >= now - GlobalWindow} \subseteq globalFails
    /\ tried \subseteq Nat \X Nat \X Ips /\ IsFiniteSet(tried)
    /\ ipFails \in [Ips -> SUBSET (Nat \X Nat)] /\ globalFails \subseteq Nat \X Nat
    /\ IsFiniteSet(globalFails) /\ \A i \in Ips : IsFiniteSet(ipFails[i])
    /\ \A f \in tried : f[1] % 2 = 0 /\ f[2] <= failures
    /\ \A f \in tried, g \in tried : f[2] = g[2] => f = g
    /\ \A i \in Ips : \A f \in ipFails[i] : f[1] % 2 = 0
    /\ \A f \in globalFails : f[1] % 2 = 0
    /\ \A i \in Ips : \A f \in Login!Window(i) : <<f[1], f[2]>> \in ipFails[i]

Bounded == \A i \in Ips : Cardinality(Login!Window(i)) + Cardinality(Login!Past(i)) <= MaxPerIp + Cardinality(Slots) - 1

LEMMA LoginIs == Login!LoginInv <=> GuardFit /\ Bounded
  BY LoginSets DEF Login!LoginInv, Login!TypeOK, GuardFit, Bounded

LEMMA LoginIsNext == Login!LoginInv' <=> (GuardFit /\ Bounded)'
  BY LoginIs, PTL

LEMMA PastCounts ==
  ASSUME Login!LoginGuardAssumption, NEW i
  PROVE  /\ Login!Past(i) \subseteq Slots /\ IsFiniteSet(Slots) /\ IsFiniteSet(Login!Past(i))
         /\ Cardinality(Slots) \in Nat /\ Cardinality(Login!Past(i)) \in Nat
         /\ Cardinality(Login!Past(i)) <= Cardinality(Slots)
<1>1. IsFiniteSet(Slots)
  BY LoginSets DEF Login!LoginGuardAssumption
<1>2. Login!Past(i) \subseteq Slots
  BY DEF Login!Past
<1> QED BY <1>1, <1>2, FS_Subset, FS_CardinalityType

LEMMA WindowCounts ==
  ASSUME IsFiniteSet(tried), NEW i
  PROVE  /\ Login!Window(i) \subseteq tried /\ IsFiniteSet(Login!Window(i))
         /\ Cardinality(Login!Window(i)) \in Nat
<1>1. Login!Window(i) \subseteq tried
  BY DEF Login!Window
<1> QED BY <1>1, FS_Subset, FS_CardinalityType

LEMMA LoginInit == ASSUME Login!LoginGuardAssumption, Login!Init PROVE Login!LoginInv
<1> USE DEF Login!LoginGuardAssumption
<1>1. IsFiniteSet({}) /\ Cardinality({}) = 0
  BY FS_EmptySet
<1>2. \A i \in Ips : Login!Window(i) = {} /\ Login!Past(i) = {}
  BY DEF Login!Init, Login!Window, Login!Past
<1>3. GuardFit
  BY <1>1, <1>2 DEF GuardFit, Login!Init
<1>4. Cardinality(Slots) \in Nat /\ MaxPerIp \in Nat /\ MaxPerIp > 0
  BY PastCounts
<1>5. ASSUME NEW i \in Ips
      PROVE  Cardinality(Login!Window(i)) + Cardinality(Login!Past(i)) <= MaxPerIp + Cardinality(Slots) - 1
  <2>1. Cardinality(Login!Window(i)) = 0 /\ Cardinality(Login!Past(i)) = 0
    BY <1>1, <1>2
  <2> QED BY <1>4, <2>1
<1>6. Bounded
  BY <1>5 DEF Bounded
<1> QED BY <1>3, <1>6, LoginIs

\* Fewer logins under way, no more failures in the window.
LEMMA LoginLess ==
  ASSUME Login!LoginGuardAssumption, Login!LoginInv, GuardFit', NEW i \in Ips,
         Login!Window(i)' \subseteq Login!Window(i), Login!Past(i)' \subseteq Login!Past(i)
  PROVE  Cardinality(Login!Window(i)') + Cardinality(Login!Past(i)') <= MaxPerIp + Cardinality(Slots) - 1
<1>1. GuardFit /\ Bounded
  BY LoginIs
<1>2. /\ Cardinality(Login!Window(i)) \in Nat /\ Cardinality(Login!Past(i)) \in Nat
      /\ IsFiniteSet(Login!Window(i)) /\ IsFiniteSet(Login!Past(i)) /\ Cardinality(Slots) \in Nat
  BY <1>1, WindowCounts, PastCounts DEF GuardFit
<1>3. PICK W, P : W = Login!Window(i)' /\ P = Login!Past(i)'
  OBVIOUS
<1>4. /\ Cardinality(W) \in Nat /\ Cardinality(W) <= Cardinality(Login!Window(i))
      /\ Cardinality(P) \in Nat /\ Cardinality(P) <= Cardinality(Login!Past(i))
  BY <1>2, <1>3, FS_Subset, FS_CardinalityType
<1>5. MaxPerIp \in Nat
  BY DEF Login!LoginGuardAssumption
<1> QED BY <1>1, <1>2, <1>3, <1>4, <1>5 DEF Bounded

LEMMA LoginKeeps == ASSUME Login!LoginGuardAssumption, Login!LoginInv PROVE Login!PerIpBound
<1>1. GuardFit /\ Bounded
  BY LoginIs
<1>2. ASSUME NEW i \in Ips
      PROVE  /\ Cardinality(Login!Window(i)) \in Nat /\ Cardinality(Login!Past(i)) \in Nat
             /\ Cardinality(Slots) \in Nat /\ MaxPerIp \in Nat
  BY <1>1, WindowCounts, PastCounts DEF GuardFit, Login!LoginGuardAssumption
<1>3. \A i \in Ips : Cardinality(Login!Window(i)) <= MaxPerIp + Cardinality(Slots) - 1
  BY <1>1, <1>2 DEF Bounded
<1> QED BY <1>3, LoginSets DEF Login!PerIpBound, Login!Window

LEMMA LoginArrives ==
  ASSUME Login!LoginGuardAssumption, Login!LoginInv, NEW s \in Slots, NEW i \in Ips, Login!Arrive(s, i)
  PROVE  Login!LoginInv'
<1> USE DEF Login!LoginGuardAssumption
<1>1. GuardFit /\ Bounded
  BY LoginIs
<1>2. /\ ipFails' = [k \in Ips |-> {f \in ipFails[k] : f[1] >= now - Lockout}]
      /\ globalFails' = {f \in globalFails : f[1] >= now - GlobalWindow}
      /\ UNCHANGED <<now, tried, failures>> /\ login[s] = None
  BY DEF Login!Arrive, Login!Prune, Login!Recent
<1>3. \A k : Login!Window(k)' = Login!Window(k)
  BY <1>2 DEF Login!Window
<1>4. \A k \in Ips : \A f \in Login!Window(k) : f[1] >= now - Lockout
  BY DEF Login!Window
<1>5. \/ login' = login
      \/ login' = [login EXCEPT ![s] = i] /\ ~(Login!RetryAfter(i) > 0)
  BY DEF Login!Arrive
<1>6. GuardFit'
  <2>1. IsFiniteSet(globalFails') /\ \A k \in Ips : IsFiniteSet(ipFails'[k])
    <3>1. globalFails' \subseteq globalFails
      BY <1>2
    <3>2. \A k \in Ips : ipFails'[k] \subseteq ipFails[k]
      BY <1>2
    <3> QED BY <1>1, <3>1, <3>2, FS_Subset DEF GuardFit
  <2>2. login' \in [Slots -> Ips \cup {None}]
    BY <1>1, <1>5 DEF GuardFit
  <2>3. \A k \in Ips : \A f \in Login!Window(k)' : <<f[1], f[2]>> \in ipFails'[k]
    BY <1>1, <1>2, <1>3, <1>4 DEF GuardFit
  <2>4. \A k \in Ips : {f \in ipFails'[k] : f[1] >= now - GlobalWindow} \subseteq globalFails'
    BY <1>1, <1>2 DEF GuardFit
  <2> QED BY <1>1, <1>2, <2>1, <2>2, <2>3, <2>4 DEF GuardFit
<1>7. ASSUME NEW k \in Ips
      PROVE  Cardinality(Login!Window(k)') + Cardinality(Login!Past(k)') <= MaxPerIp + Cardinality(Slots) - 1
  <2>1. CASE login' = login \/ k # i
    <3>1. Login!Past(k)' \subseteq Login!Past(k)
      BY <1>1, <1>5, <2>1 DEF Login!Past, GuardFit
    <3> QED BY <1>3, <1>6, <3>1, LoginLess
  <2>2. CASE login' # login /\ k = i
    <3>1. ~(Login!RetryAfter(i) > 0)
      BY <1>5, <2>2
    <3>2. PICK F : F = ipFails'[i]
      OBVIOUS
    <3>3. IsFiniteSet(F) /\ Cardinality(F) \in Nat
      BY <1>6, <3>2, FS_CardinalityType DEF GuardFit
    <3>4. \A f \in F : f[1] \in Nat /\ f[1] % 2 = 0 /\ f[1] >= now - Lockout
      BY <1>1, <1>2, <3>2 DEF GuardFit
    <3>5. Cardinality(F) < MaxPerIp
      <4>1. SUFFICES ASSUME Cardinality(F) >= MaxPerIp PROVE FALSE
        BY <3>3
      <4>2. F # {}
        <5>1. Cardinality({}) = 0
          BY FS_EmptySet
        <5> QED BY <4>1, <5>1
      <4>3. Lockout - (now - Login!Oldest(F)) > 0
        <5>1. now \in Nat /\ now % 2 = 0
          BY <1>1 DEF GuardFit
        <5>2. Lockout \in Nat /\ Lockout % 2 = 1
          OBVIOUS
        <5> QED BY <3>4, <4>2, <5>1, <5>2, Waits, Zenon
      <4>4. Login!RetryAfter(i) = Lockout - (now - Login!Oldest(F))
        BY <3>2, <4>1, LoginSets DEF Login!RetryAfter
      <4> QED BY <3>1, <4>3, <4>4
    <3>6. Cardinality(Login!Window(i)) <= Cardinality(F)
      <4>1. \A f \in Login!Window(i) : <<f[1], f[2]>> \in F
        BY <1>3, <1>6, <3>2 DEF GuardFit
      <4>2. \A f, g \in Login!Window(i) : f[2] = g[2] => f = g
        BY <1>1 DEF Login!Window, GuardFit
      <4> QED BY <3>3, <4>1, <4>2, Remembered
    <3>7. PICK P : P = Login!Past(i)'
      OBVIOUS
    <3>8. P \subseteq Slots
      BY <3>7 DEF Login!Past
    <3>9. Cardinality(P) \in Nat /\ Cardinality(P) <= Cardinality(Slots) /\ Cardinality(Slots) \in Nat
      BY <3>8, PastCounts, FS_Subset, FS_CardinalityType
    <3>10. Cardinality(Login!Window(i)) \in Nat
      BY <1>1, WindowCounts DEF GuardFit
    <3>11. Login!Window(k)' = Login!Window(i) /\ Login!Past(k)' = P
      BY <1>3, <2>2, <3>7
    <3>12. MaxPerIp \in Nat
      OBVIOUS
    <3> QED BY <3>3, <3>5, <3>6, <3>9, <3>10, <3>11, <3>12
  <2> QED BY <2>1, <2>2
<1>8. Bounded'
  BY <1>7 DEF Bounded
<1> QED BY <1>6, <1>8, LoginIsNext

\* A failure ends a login that was past the check.
LEMMA LoginFails ==
  ASSUME Login!LoginGuardAssumption, Login!LoginInv, NEW s \in Slots, Login!Fail(s)
  PROVE  Login!LoginInv'
<1> USE DEF Login!LoginGuardAssumption
<1>1. GuardFit /\ Bounded
  BY LoginIs
<1>2. PICK i \in Ips : i = login[s]
  BY <1>1 DEF GuardFit, Login!Fail
<1>3. PICK n \in Nat : n = failures + 1 /\ n \in 0 .. MaxFails
  BY <1>1 DEF GuardFit, Login!Fail
<1>4. PICK f, g : f = <<now, n>> /\ g = <<now, n, i>>
  OBVIOUS
<1>5. /\ ipFails' = [ipFails EXCEPT ![i] = @ \cup {f}] /\ globalFails' = globalFails \cup {f}
      /\ tried' = tried \cup {g} /\ login' = [login EXCEPT ![s] = None]
      /\ now' = now /\ failures' = n
  BY <1>2, <1>3, <1>4 DEF Login!Fail
<1>6. now \in Nat /\ now % 2 = 0 /\ f \in Nat \X Nat /\ g \in Nat \X Nat \X Ips
  BY <1>1, <1>2, <1>3, <1>4 DEF GuardFit
<1>7. f[1] = now /\ f[2] = n /\ g[1] = now /\ g[2] = n /\ g[3] = i
  BY <1>4
<1>8. \A k \in Ips : Login!Window(k)' \subseteq Login!Window(k) \cup (IF k = i THEN {g} ELSE {})
  BY <1>5, <1>7 DEF Login!Window
<1>9. GuardFit'
  <2>1. IsFiniteSet(tried') /\ IsFiniteSet(globalFails') /\ \A k \in Ips : IsFiniteSet(ipFails'[k])
    <3>1. \A S, x : IsFiniteSet(S) => IsFiniteSet(S \cup {x})
      BY FS_AddElement
    <3>2. \A k \in Ips : ipFails'[k] = ipFails[k] \/ ipFails'[k] = ipFails[k] \cup {f}
      BY <1>1, <1>5 DEF GuardFit
    <3> QED BY <1>1, <1>5, <3>1, <3>2 DEF GuardFit
  <2>2. login' \in [Slots -> Ips \cup {None}]
    BY <1>1, <1>5 DEF GuardFit
  <2>3. \A k \in Ips : \A x \in Login!Window(k)' : <<x[1], x[2]>> \in ipFails'[k]
    <3>1. ASSUME NEW k \in Ips, NEW x \in Login!Window(k)' PROVE <<x[1], x[2]>> \in ipFails'[k]
      <4>1. ipFails[k] \subseteq ipFails'[k] /\ (k = i => f \in ipFails'[k])
        BY <1>1, <1>2, <1>5 DEF GuardFit
      <4>2. CASE x \in Login!Window(k)
        BY <1>1, <4>1, <4>2 DEF GuardFit
      <4>3. CASE k = i /\ x = g
        <5>1. <<x[1], x[2]>> = f
          BY <1>4, <1>7, <4>3
        <5> QED BY <4>1, <4>3, <5>1
      <4> QED BY <1>8, <3>1, <4>2, <4>3
    <3> QED BY <3>1
  <2>4. \A k \in Ips : {x \in ipFails'[k] : x[1] >= now - GlobalWindow} \subseteq globalFails'
    BY <1>1, <1>5 DEF GuardFit
  <2>5. tried' \subseteq Nat \X Nat \X Ips /\ globalFails' \subseteq Nat \X Nat
        /\ ipFails' \in [Ips -> SUBSET (Nat \X Nat)]
    BY <1>1, <1>5, <1>6 DEF GuardFit
  <2>6. \A x \in tried' : x[1] % 2 = 0 /\ x[2] <= n
    <3>1. \A x \in tried : x[2] \in Nat /\ x[2] <= failures
      BY <1>1 DEF GuardFit
    <3> QED BY <1>1, <1>3, <1>5, <1>6, <1>7, <3>1 DEF GuardFit
  <2>7. \A x \in tried', y \in tried' : x[2] = y[2] => x = y
    <3>1. \A x \in tried : x[2] # n
      BY <1>1, <1>3 DEF GuardFit
    <3> QED BY <1>1, <1>5, <1>7, <3>1 DEF GuardFit
  <2>8. /\ \A k \in Ips : \A x \in ipFails'[k] : x[1] % 2 = 0
        /\ \A x \in globalFails' : x[1] % 2 = 0
    BY <1>1, <1>5, <1>6, <1>7 DEF GuardFit
  <2> QED BY <1>1, <1>3, <1>5, <2>1, <2>2, <2>3, <2>4, <2>5, <2>6, <2>7, <2>8 DEF GuardFit
<1>10. ASSUME NEW k \in Ips
       PROVE  Cardinality(Login!Window(k)') + Cardinality(Login!Past(k)') <= MaxPerIp + Cardinality(Slots) - 1
  <2>1. CASE k # i
    <3>1. Login!Past(k)' \subseteq Login!Past(k) /\ Login!Window(k)' \subseteq Login!Window(k)
      BY <1>1, <1>2, <1>5, <1>8, <2>1 DEF Login!Past, GuardFit
    <3> QED BY <1>9, <3>1, LoginLess
  <2>2. CASE k = i
    <3>1. PICK W, P : W = Login!Window(i)' /\ P = Login!Past(i)'
      OBVIOUS
    <3>2. /\ Cardinality(Login!Window(i)) \in Nat /\ Cardinality(Login!Past(i)) \in Nat
          /\ IsFiniteSet(Login!Window(i)) /\ IsFiniteSet(Login!Past(i)) /\ Cardinality(Slots) \in Nat
      BY <1>1, WindowCounts, PastCounts DEF GuardFit
    <3>3. W \subseteq Login!Window(i) \cup {g}
      BY <1>8, <3>1
    <3>4. /\ IsFiniteSet(Login!Window(i) \cup {g})
          /\ Cardinality(Login!Window(i) \cup {g}) <= Cardinality(Login!Window(i)) + 1
      <4>1. \/ Cardinality(Login!Window(i) \cup {g}) = Cardinality(Login!Window(i))
            \/ Cardinality(Login!Window(i) \cup {g}) = Cardinality(Login!Window(i)) + 1
        BY <3>2, FS_AddElement, Zenon
      <4>2. IsFiniteSet(Login!Window(i) \cup {g})
        BY <3>2, FS_AddElement, Zenon
      <4> QED BY <3>2, <4>1, <4>2
    <3>5. Cardinality(W) \in Nat /\ Cardinality(W) <= Cardinality(Login!Window(i)) + 1
      <4>1. Cardinality(W) \in Nat /\ Cardinality(W) <= Cardinality(Login!Window(i) \cup {g})
            /\ Cardinality(Login!Window(i) \cup {g}) \in Nat
        BY <3>3, <3>4, FS_Subset, FS_CardinalityType
      <4> QED BY <3>2, <3>4, <4>1
    <3>6. s \in Login!Past(i) /\ P = Login!Past(i) \ {s}
      BY <1>1, <1>2, <1>5, <3>1 DEF Login!Past, GuardFit
    <3>7. Cardinality(P) = Cardinality(Login!Past(i)) - 1
      BY <3>2, <3>6, FS_RemoveElement
    <3>8. MaxPerIp \in Nat
      OBVIOUS
    <3>9. Cardinality(Login!Window(i)) + Cardinality(Login!Past(i)) <= MaxPerIp + Cardinality(Slots) - 1
      BY <1>1 DEF Bounded
    <3> QED BY <2>2, <3>1, <3>2, <3>5, <3>7, <3>8, <3>9
  <2> QED BY <2>1, <2>2
<1>11. Bounded'
  BY <1>10 DEF Bounded
<1> QED BY <1>9, <1>11, LoginIsNext

\* A success, a client that goes away and the time.
LEMMA LoginEnds ==
  ASSUME Login!LoginGuardAssumption, Login!LoginInv,
         \/ \E s \in Slots : Login!Succeed(s) \/ Login!Abandon(s)
         \/ Login!Tick \/ UNCHANGED Login!vars
  PROVE  Login!LoginInv'
<1> USE DEF Login!LoginGuardAssumption
<1>1. GuardFit /\ Bounded
  BY LoginIs
<1>2. /\ UNCHANGED <<globalFails, failures>> /\ tried' \subseteq tried
      /\ now' \in 0 .. LoginTime /\ now' % 2 = 0 /\ now' >= now
      /\ login' \in [Slots -> Ips \cup {None}] /\ \A s \in Slots : login'[s] = login[s] \/ login'[s] = None
      /\ \/ UNCHANGED <<ipFails, tried>>
         \/ \E i \in Ips : ipFails' = [ipFails EXCEPT ![i] = {}] /\ \A f \in tried' : f[3] # i
  <2>1. ASSUME NEW s \in Slots, Login!Succeed(s)
        PROVE  \E i \in Ips : ipFails' = [ipFails EXCEPT ![i] = {}] /\ \A f \in tried' : f[3] # i
    BY <1>1, <2>1 DEF GuardFit, Login!Succeed
  <2>2. ASSUME NEW s \in Slots, Login!Succeed(s) \/ Login!Abandon(s)
        PROVE  /\ login' = [login EXCEPT ![s] = None] /\ UNCHANGED <<globalFails, failures, now>>
               /\ tried' \subseteq tried /\ (Login!Abandon(s) => UNCHANGED <<ipFails, tried>>)
    BY <2>2 DEF Login!Succeed, Login!Abandon
  <2>3. CASE Login!Tick
    BY <1>1, <2>3 DEF GuardFit, Login!Tick
  <2>4. CASE UNCHANGED Login!vars
    BY <1>1, <2>4 DEF GuardFit, Login!vars
  <2>5. ASSUME NEW s \in Slots, Login!Succeed(s) \/ Login!Abandon(s)
        PROVE  /\ now' \in 0 .. LoginTime /\ now' % 2 = 0 /\ now' >= now
               /\ login' \in [Slots -> Ips \cup {None}]
               /\ \A x \in Slots : login'[x] = login[x] \/ login'[x] = None
    BY <1>1, <2>2, <2>5 DEF GuardFit
  <2> QED BY <2>1, <2>2, <2>3, <2>4, <2>5
<1>3. \A k \in Ips : Login!Window(k)' \subseteq Login!Window(k) /\ Login!Past(k)' \subseteq Login!Past(k)
  <2>1. \A f \in tried : f[1] \in Nat
    BY <1>1 DEF GuardFit
  <2>2. now \in Nat /\ now' \in Nat
    BY <1>1, <1>2 DEF GuardFit
  <2>3. \A f \in tried : f[1] >= now' - Lockout => f[1] >= now - Lockout
    BY <1>2, <2>1, <2>2
  <2> QED BY <1>2, <2>3 DEF Login!Window, Login!Past
<1>4. \A k \in Ips : \/ ipFails'[k] = ipFails[k]
                     \/ ipFails'[k] = {} /\ Login!Window(k)' = {}
  BY <1>1, <1>2 DEF GuardFit, Login!Window
<1>5. GuardFit'
  <2>1. IsFiniteSet(tried') /\ IsFiniteSet({})
    BY <1>1, <1>2, FS_Subset, FS_EmptySet DEF GuardFit
  <2>2. \A k \in Ips : \A f \in ipFails[k] : f[1] \in Nat
    BY <1>1 DEF GuardFit
  <2>3. \A k \in Ips : {f \in ipFails'[k] : f[1] >= now' - GlobalWindow} \subseteq globalFails'
    <3>1. \A k \in Ips : \A f \in ipFails[k] : f[1] >= now' - GlobalWindow => f[1] >= now - GlobalWindow
      BY <1>1, <1>2, <2>2 DEF GuardFit
    <3> QED BY <1>1, <1>2, <1>4, <3>1 DEF GuardFit
  <2>4. \A k \in Ips : \A f \in Login!Window(k)' : <<f[1], f[2]>> \in ipFails'[k]
    BY <1>1, <1>3, <1>4 DEF GuardFit
  <2>5. ipFails' \in [Ips -> SUBSET (Nat \X Nat)]
    BY <1>1, <1>2 DEF GuardFit
  <2>6. \A k \in Ips : IsFiniteSet(ipFails'[k]) /\ \A f \in ipFails'[k] : f[1] % 2 = 0
    BY <1>1, <1>4, <2>1 DEF GuardFit
  <2> QED BY <1>1, <1>2, <2>1, <2>3, <2>4, <2>5, <2>6 DEF GuardFit
<1>6. ASSUME NEW k \in Ips
      PROVE  Cardinality(Login!Window(k)') + Cardinality(Login!Past(k)') <= MaxPerIp + Cardinality(Slots) - 1
  BY <1>3, <1>5, LoginLess
<1>7. Bounded'
  BY <1>6 DEF Bounded
<1> QED BY <1>5, <1>7, LoginIsNext

LEMMA LoginNext ==
  ASSUME Login!LoginGuardAssumption, Login!LoginInv, Login!Next \/ UNCHANGED Login!vars
  PROVE  Login!LoginInv'
  BY LoginArrives, LoginFails, LoginEnds DEF Login!Next

-----------------------------------------------------------------------------
-----------------------------------------------------------------------------
(* A manifest on its way to its readers *)

TomlFields == DOMAIN Toml!Values

LEMMA TomlNames ==
  TomlFields = {"id", "type", "port", "url", "command", "image", "dockerfile", "name", "twin", "risk", "fields",
                "arg", "verb", "path", "body", "header", "placed", "rule", "redact", "secret", "field", "item",
                "writable", "egress", "confirm"}
  BY DEF TomlFields, Toml!Values

\* A change of some fields leaves a manifest.
LEMMA TomlExcept ==
  ASSUME NEW m, Toml!IsManifest(m), NEW k \in TomlFields, NEW v
  PROVE  Toml!IsManifest([m EXCEPT ![k] = v])
  BY DEF Toml!IsManifest, TomlFields

\* What normalisation leaves alone.
Normal(n) ==
    /\ n.type # "" /\ n.port # "text" /\ n.egress = "" /\ n.confirm = FALSE
    /\ n.command = "" => n.type # "rest"
    /\ n.name = "" => /\ n.twin = "" /\ n.risk = "" /\ n.fields = "absent" /\ n.arg = "" /\ n.verb = "" /\ n.path = ""
                      /\ n.body = "" /\ n.header = "" /\ n.placed = TRUE /\ n.rule = "" /\ n.redact = ""
    /\ n.name # "" /\ n.type = "rest" =>
         n.verb # "" /\ n.risk = Toml!VerbRisk(n.verb) /\ n.arg = "" /\ n.rule # "untyped" /\ n.body # ""
    /\ n.name # "" /\ n.type # "rest" =>
         /\ n.risk # "" /\ n.verb = "" /\ n.path = "" /\ n.body = ""
         /\ n.header = "" /\ n.placed = TRUE /\ n.rule = "" /\ n.redact = ""
    /\ n.secret = "" => n.field = "" /\ n.item = "" /\ n.writable = FALSE

\* The steps of a normalisation.
TomlTyped(m) == [m EXCEPT !.type = IF @ = "" THEN "api" ELSE @,
                          !.port = IF @ = "text" THEN "int" ELSE @, !.egress = "", !.confirm = FALSE]
TomlCommand(t) == [t EXCEPT !.command = IF @ = "" /\ t.type = "rest" THEN "cmd" ELSE @]
TomlOperation(c) ==
    IF c.name = "" THEN Toml!NoOperation(c) ELSE IF c.type = "rest" THEN Toml!NormalRest(c) ELSE Toml!NormalOther(c)
TomlSecret(o) == IF o.secret = "" THEN Toml!NoSecret(o) ELSE o

LEMMA TomlSteps ==
  ASSUME NEW m PROVE Toml!Normalize(m) = TomlSecret(TomlOperation(TomlCommand(TomlTyped(m))))
  BY DEF Toml!Normalize, TomlSecret, TomlOperation, TomlCommand, TomlTyped

LEMMA TomlTypedFields ==
  ASSUME NEW m, Toml!IsManifest(m)
  PROVE  LET t == TomlTyped(m) IN
         /\ Toml!IsManifest(t) /\ t.type # "" /\ t.port # "text" /\ t.egress = "" /\ t.confirm = FALSE
  BY TomlNames DEF TomlTyped, Toml!IsManifest, TomlFields

LEMMA TomlCommandFields ==
  ASSUME NEW t, Toml!IsManifest(t)
  PROVE  LET c == TomlCommand(t) IN
         /\ Toml!IsManifest(c) /\ (c.command = "" => c.type # "rest")
         /\ c.type = t.type /\ c.port = t.port /\ c.egress = t.egress /\ c.confirm = t.confirm
  BY TomlNames DEF TomlCommand, Toml!IsManifest, TomlFields

\* The fields an operation does not touch.
Beside(m) == <<m.type, m.port, m.egress, m.confirm, m.command, m.name, m.secret>>

LEMMA TomlNoOperation ==
  ASSUME NEW m, Toml!IsManifest(m)
  PROVE  LET o == Toml!NoOperation(m) IN
         /\ Toml!IsManifest(o) /\ Beside(o) = Beside(m)
         /\ o.twin = "" /\ o.risk = "" /\ o.fields = "absent" /\ o.arg = "" /\ o.verb = "" /\ o.path = ""
         /\ o.body = "" /\ o.header = "" /\ o.placed = TRUE /\ o.rule = "" /\ o.redact = ""
  BY TomlNames, ZenonT(60) DEF Toml!NoOperation, Toml!IsManifest, TomlFields, Beside

LEMMA TomlRest ==
  ASSUME NEW m, Toml!IsManifest(m)
  PROVE  LET o == Toml!NormalRest(m) IN
         /\ Toml!IsManifest(o) /\ Beside(o) = Beside(m)
         /\ o.verb # "" /\ o.risk = Toml!VerbRisk(o.verb) /\ o.arg = "" /\ o.rule # "untyped" /\ o.body # ""
  BY TomlNames, ZenonT(60) DEF Toml!NormalRest, Toml!NormalRule, Toml!IsManifest, TomlFields, Beside

LEMMA TomlOther ==
  ASSUME NEW m, Toml!IsManifest(m)
  PROVE  LET o == Toml!NormalOther(m) IN
         /\ Toml!IsManifest(o) /\ Beside(o) = Beside(m)
         /\ o.risk # "" /\ o.verb = "" /\ o.path = "" /\ o.body = ""
         /\ o.header = "" /\ o.placed = TRUE /\ o.rule = "" /\ o.redact = ""
  BY TomlNames DEF Toml!NormalOther, Toml!IsManifest, TomlFields, Beside

LEMMA TomlNoSecret ==
  ASSUME NEW m, Toml!IsManifest(m)
  PROVE  LET o == Toml!NoSecret(m) IN
         /\ Toml!IsManifest(o) /\ o.field = "" /\ o.item = "" /\ o.writable = FALSE
         /\ \A k \in TomlFields \ {"field", "item", "writable"} : o[k] = m[k]
  BY TomlNames DEF Toml!NoSecret, Toml!IsManifest, TomlFields

\* Normalisation makes a normal manifest of any.
LEMMA TomlNormalizes ==
  ASSUME NEW m, Toml!IsManifest(m)
  PROVE  Toml!IsManifest(Toml!Normalize(m)) /\ Normal(Toml!Normalize(m))
<1> DEFINE c == TomlCommand(TomlTyped(m))
           o == TomlOperation(c)
           s == TomlSecret(o)
<1>1. /\ Toml!IsManifest(c) /\ c.type # "" /\ c.port # "text" /\ c.egress = "" /\ c.confirm = FALSE
      /\ c.command = "" => c.type # "rest"
  BY TomlTypedFields, TomlCommandFields
<1> HIDE DEF c
<1>2. /\ Toml!IsManifest(o) /\ Beside(o) = Beside(c)
      /\ o.name = "" => /\ o.twin = "" /\ o.risk = "" /\ o.fields = "absent" /\ o.arg = "" /\ o.verb = ""
                        /\ o.path = "" /\ o.body = "" /\ o.header = "" /\ o.placed = TRUE /\ o.rule = ""
                        /\ o.redact = ""
      /\ o.name # "" /\ o.type = "rest" =>
           o.verb # "" /\ o.risk = Toml!VerbRisk(o.verb) /\ o.arg = "" /\ o.rule # "untyped" /\ o.body # ""
      /\ o.name # "" /\ o.type # "rest" =>
           /\ o.risk # "" /\ o.verb = "" /\ o.path = "" /\ o.body = ""
           /\ o.header = "" /\ o.placed = TRUE /\ o.rule = "" /\ o.redact = ""
  <2>1. CASE c.name = ""
    <3>1. o = Toml!NoOperation(c) BY <2>1 DEF TomlOperation
    <3> HIDE DEF o
    <3> QED BY <1>1, <2>1, <3>1, TomlNoOperation DEF Beside
  <2>2. CASE c.name # "" /\ c.type = "rest"
    <3>1. o = Toml!NormalRest(c) BY <2>2 DEF TomlOperation
    <3> HIDE DEF o
    <3> QED BY <1>1, <2>2, <3>1, TomlRest DEF Beside
  <2>3. CASE c.name # "" /\ c.type # "rest"
    <3>1. o = Toml!NormalOther(c) BY <2>3 DEF TomlOperation
    <3> HIDE DEF o
    <3> QED BY <1>1, <2>3, <3>1, TomlOther DEF Beside
  <2> QED BY <2>1, <2>2, <2>3
<1> HIDE DEF o
<1>3. Toml!IsManifest(s) /\ Normal(s)
  <2>1. CASE o.secret = ""
    <3>1. s = Toml!NoSecret(o) BY <2>1 DEF TomlSecret
    <3> HIDE DEF s
    <3>2. \A k \in TomlFields \ {"field", "item", "writable"} : s[k] = o[k] BY <1>2, <3>1, TomlNoSecret
    <3>3. /\ s.type = o.type /\ s.port = o.port /\ s.egress = o.egress /\ s.confirm = o.confirm
          /\ s.command = o.command /\ s.name = o.name /\ s.secret = o.secret /\ s.twin = o.twin /\ s.risk = o.risk
          /\ s.fields = o.fields /\ s.arg = o.arg /\ s.verb = o.verb /\ s.path = o.path /\ s.body = o.body
          /\ s.header = o.header /\ s.placed = o.placed /\ s.rule = o.rule /\ s.redact = o.redact
      BY <3>2, TomlNames
    <3> QED BY <1>1, <1>2, <2>1, <3>1, <3>3, TomlNoSecret, ZenonT(60) DEF Normal, Beside
  <2>2. CASE o.secret # ""
    BY <1>1, <1>2, <2>2 DEF Normal, TomlSecret, Beside
  <2> QED BY <2>1, <2>2
<1> QED BY <1>3, TomlSteps DEF c, o, s

LEMMA TomlStaysSame ==
  ASSUME NEW m, Toml!IsManifest(m), NEW k \in TomlFields
  PROVE  [m EXCEPT ![k] = m[k]] = m
  BY DEF Toml!IsManifest, TomlFields

\* A normal manifest is left as it is.
LEMMA TomlKeeps ==
  ASSUME NEW m, Toml!IsManifest(m), Normal(m)
  PROVE  Toml!Normalize(m) = m
<1>1. TomlTyped(m) = m
  <2>1. m.type # "" /\ m.port # "text" /\ m.egress = "" /\ m.confirm = FALSE BY DEF Normal
  <2> QED BY <2>1, TomlNames DEF TomlTyped, Toml!IsManifest, TomlFields
<1>2. TomlCommand(m) = m
  <2>1. m.command = "" => m.type # "rest" BY DEF Normal
  <2> QED BY <2>1, TomlNames DEF TomlCommand, Toml!IsManifest, TomlFields
<1>3. TomlOperation(m) = m
  <2>1. CASE m.name = ""
    <3>1. /\ m.twin = "" /\ m.risk = "" /\ m.fields = "absent" /\ m.arg = "" /\ m.verb = "" /\ m.path = ""
          /\ m.body = "" /\ m.header = "" /\ m.placed = TRUE /\ m.rule = "" /\ m.redact = ""
      BY <2>1 DEF Normal
    <3>2. Toml!NoOperation(m) = m BY <3>1, TomlNames, ZenonT(60) DEF Toml!NoOperation, Toml!IsManifest, TomlFields
    <3> QED BY <2>1, <3>2 DEF TomlOperation
  <2>2. CASE m.name # "" /\ m.type = "rest"
    <3>1. m.verb # "" /\ m.risk = Toml!VerbRisk(m.verb) /\ m.arg = "" /\ m.rule # "untyped" /\ m.body # ""
      BY <2>2 DEF Normal
    <3>2. Toml!NormalRest(m) = m
      BY <3>1, TomlNames DEF Toml!NormalRest, Toml!NormalRule, Toml!IsManifest, TomlFields
    <3> QED BY <2>2, <3>2 DEF TomlOperation
  <2>3. CASE m.name # "" /\ m.type # "rest"
    <3>1. /\ m.risk # "" /\ m.verb = "" /\ m.path = "" /\ m.body = ""
          /\ m.header = "" /\ m.placed = TRUE /\ m.rule = "" /\ m.redact = ""
      BY <2>3 DEF Normal
    <3>2. Toml!NormalOther(m) = m BY <3>1, TomlNames DEF Toml!NormalOther, Toml!IsManifest, TomlFields
    <3> QED BY <2>3, <3>2 DEF TomlOperation
  <2> QED BY <2>1, <2>2, <2>3
<1>4. TomlSecret(m) = m
  <2>1. m.secret = "" => m.field = "" /\ m.item = "" /\ m.writable = FALSE BY DEF Normal
  <2>2. m.secret = "" => Toml!NoSecret(m) = m BY <2>1, TomlNames DEF Toml!NoSecret, Toml!IsManifest, TomlFields
  <2> QED BY <2>2 DEF TomlSecret
<1> QED BY <1>1, <1>2, <1>3, <1>4, TomlSteps

\* Serialisation drops what a normal manifest does not have, and the URL of a tool that is no rest tool.
LEMMA TomlWrites ==
  ASSUME NEW n, Toml!IsManifest(n), Normal(n)
  PROVE  /\ Toml!IsManifest(Toml!ToToml(n)) /\ Normal(Toml!ToToml(n))
         /\ Toml!Shown(Toml!ToToml(n)) = Toml!Shown(n)
         /\ Toml!ToToml(n).risk = n.risk /\ Toml!ToToml(n).verb = n.verb /\ Toml!ToToml(n).type = n.type
<1> DEFINE d == Toml!ToToml(n)
<1>1. Toml!IsManifest(d) BY TomlNames DEF Toml!ToToml, Toml!IsManifest, TomlFields
<1>2. \A k \in TomlFields \ {"url", "egress"} : d[k] = n[k]
  BY TomlNames DEF Toml!ToToml, Toml!IsManifest, TomlFields
<1>3. d.egress = "" /\ d.url = (IF n.type = "rest" THEN n.url ELSE "")
  BY TomlNames DEF Toml!ToToml, Toml!IsManifest, TomlFields
<1> HIDE DEF d
<1>4. /\ d.type = n.type /\ d.port = n.port /\ d.confirm = n.confirm /\ d.command = n.command /\ d.name = n.name
      /\ d.secret = n.secret /\ d.twin = n.twin /\ d.risk = n.risk /\ d.fields = n.fields /\ d.arg = n.arg
      /\ d.verb = n.verb /\ d.path = n.path /\ d.body = n.body /\ d.header = n.header /\ d.placed = n.placed
      /\ d.rule = n.rule /\ d.redact = n.redact /\ d.field = n.field /\ d.item = n.item /\ d.writable = n.writable
  BY <1>2, TomlNames
<1>5. Normal(d) BY <1>3, <1>4, ZenonT(60) DEF Normal
<1>6. Toml!Shown(d) = Toml!Shown(n)
  <2>1. n.egress = "" BY DEF Normal
  <2>2. \A k \in TomlFields \ {"url"} : d[k] = n[k] BY <1>2, <1>3, <2>1, TomlNames
  <2>3. (IF d.type = "rest" THEN d.url ELSE "") = (IF n.type = "rest" THEN n.url ELSE "") BY <1>3, <1>4
  <2> QED BY <1>1, <2>2, <2>3, TomlNames DEF Toml!Shown, Toml!IsManifest, TomlFields
<1> QED BY <1>1, <1>4, <1>5, <1>6 DEF d

\* What the panel found valid the runner loads when it is written.
LEMMA TomlLoads ==
  ASSUME NEW n, Toml!IsManifest(n), NEW confirm, Toml!Validate(n, confirm)
  PROVE  Toml!RunnerLoads(Toml!ToToml(n))
<1> DEFINE d == Toml!ToToml(n)
<1>1. \A k \in TomlFields \ {"url", "egress"} : d[k] = n[k]
  BY TomlNames DEF Toml!ToToml, Toml!IsManifest, TomlFields
<1>2. n.type = "rest" => d.url = n.url
  BY TomlNames DEF Toml!ToToml, Toml!IsManifest, TomlFields
<1> HIDE DEF d
<1>3. /\ d.id = n.id /\ d.type = n.type /\ d.port = n.port /\ d.secret = n.secret /\ d.field = n.field
      /\ d.rule = n.rule /\ d.writable = n.writable
  BY <1>1, TomlNames
<1>4. /\ n.id = "tool" /\ n.type \in {"api", "mcp", "rest"} /\ n.port = "int"
      /\ n.secret # "" => n.field # ""
      /\ n.type = "rest" => /\ n.url \in {"https", "v6"}
                            /\ n.rule # "" => n.rule = "json" /\ n.secret # "" /\ n.writable
  BY DEF Toml!Validate, Toml!RestValid, Toml!RulesValid
<1>5. Toml!RunnerLoads(d) BY <1>2, <1>3, <1>4 DEF Toml!RunnerLoads, Toml!ValidateRest
<1> QED BY <1>5 DEF d

\* The editor's confirmation is no part of a manifest.
LEMMA TomlConfirm ==
  ASSUME NEW m, Toml!IsManifest(m)
  PROVE  Toml!Normalize([m EXCEPT !.confirm = FALSE]) = Toml!Normalize(m)
<1>1. TomlTyped([m EXCEPT !.confirm = FALSE]) = TomlTyped(m)
  BY TomlNames DEF TomlTyped, Toml!IsManifest, TomlFields
<1> QED BY <1>1, TomlSteps

LEMMA TomlRisk ==
  ASSUME NEW n, Normal(n), NEW confirm, Toml!Validate(n, confirm), n.type = "rest"
  PROVE  n.risk = Toml!VerbRisk(n.verb)
<1>1. n.name # "" BY DEF Toml!Validate
<1> QED BY <1>1 DEF Normal

LEMMA TomlInit ==
  ASSUME Toml!ManifestAssumption, Toml!Init
  PROVE  Toml!ManifestInv
<1>1. Toml!IsManifest(Toml!Plain) BY TomlNames DEF Toml!Plain, Toml!IsManifest, TomlFields
<1>2. Toml!IsManifest(Toml!RestPlain) BY <1>1, TomlNames DEF Toml!RestPlain, Toml!IsManifest, TomlFields
<1>3. Toml!IsManifest(form) BY <1>1, <1>2 DEF Toml!Init
<1>4. written = None /\ via = None BY DEF Toml!Init
<1>5. via # "panel" BY <1>4 DEF Toml!ManifestAssumption
<1> QED BY <1>3, <1>4, <1>5 DEF Toml!ManifestInv, Toml!RunnerAccepts, Toml!RoundTrip, Toml!RiskFollowsVerb

\* What a save of a manifest that normalisation knows makes of the file.
LEMMA TomlSaved ==
  ASSUME NEW m, Toml!IsManifest(m), NEW confirm, Toml!Validate(Toml!Normalize(m), confirm),
         NEW d, d = Toml!ToToml(Toml!Normalize(m))
  PROVE  /\ Toml!IsManifest(d) /\ Toml!RunnerLoads(d) /\ (d.type = "rest" => d.risk = Toml!VerbRisk(d.verb))
         /\ Toml!Shown(Toml!Normalize(d)) = Toml!Shown(Toml!Normalize(m))
<1>1. Toml!IsManifest(Toml!Normalize(m)) /\ Normal(Toml!Normalize(m)) BY TomlNormalizes
<1>2. Toml!RunnerLoads(d) BY <1>1, TomlLoads
<1>3. /\ Toml!IsManifest(d) /\ Normal(d) /\ Toml!Shown(d) = Toml!Shown(Toml!Normalize(m))
      /\ d.risk = Toml!Normalize(m).risk /\ d.verb = Toml!Normalize(m).verb /\ d.type = Toml!Normalize(m).type
  BY <1>1, TomlWrites
<1>4. Toml!Normalize(d) = d BY <1>3, TomlKeeps
<1>5. d.type = "rest" => d.risk = Toml!VerbRisk(d.verb) BY <1>1, <1>3, TomlRisk
<1> QED BY <1>2, <1>3, <1>4, <1>5

LEMMA TomlNext ==
  ASSUME Toml!ManifestAssumption, Toml!ManifestInv, [Toml!Next]_(Toml!vars)
  PROVE  Toml!ManifestInv'
<1> USE DEF Toml!ManifestInv, Toml!RunnerAccepts, Toml!RoundTrip, Toml!RiskFollowsVerb, Toml!Read
<1>0. None # "panel" /\ None # "source" /\ None # "failed" BY DEF Toml!ManifestAssumption
<1>1. CASE Toml!Change
  <2>1. PICK k \in DOMAIN Toml!Values : \E v \in Toml!Values[k] : form[k] # v /\ form' = [form EXCEPT ![k] = v]
    BY <1>1 DEF Toml!Change
  <2>2. PICK v \in Toml!Values[k] : form' = [form EXCEPT ![k] = v] BY <2>1
  <2>3. Toml!IsManifest(form)' BY <2>2, TomlExcept DEF TomlFields
  <2>4. via = None /\ via' = via BY <1>1 DEF Toml!Change
  <2> QED BY <1>0, <2>3, <2>4
<1>2. CASE Toml!Write
  <2>1. /\ Toml!Validate(Toml!Normalize(form), form.confirm) /\ written' = Toml!ToToml(Toml!Normalize(form))
        /\ via' = "panel" /\ form' = form
    BY <1>2 DEF Toml!Write
  <2>2. /\ Toml!IsManifest(written') /\ Toml!RunnerLoads(written')
        /\ (written'.type = "rest" => written'.risk = Toml!VerbRisk(written'.verb))
        /\ Toml!Shown(Toml!Normalize(written')) = Toml!Shown(Toml!Normalize(form))
    BY <2>1, TomlSaved
  <2> QED BY <1>0, <2>1, <2>2
<1>3. CASE Toml!Ingest
  <2>1. written' = [form EXCEPT !.confirm = FALSE] /\ via' \in {"source", "failed"} /\ form' = form
    BY <1>3 DEF Toml!Ingest
  <2>2. Toml!Normalize(written') = Toml!Normalize(form) BY <2>1, TomlConfirm
  <2>3. Toml!IsManifest(written') BY <2>1, TomlExcept, TomlNames
  <2>4. via' # "panel" /\ via' # None BY <1>0, <2>1
  <2> QED BY <2>1, <2>2, <2>3, <2>4
<1>4. CASE Toml!Resave
  <2>1. /\ via # None /\ Toml!Validate(Toml!Normalize(written), TRUE)
        /\ written' = Toml!ToToml(Toml!Normalize(written)) /\ via' = "panel" /\ form' = form
    BY <1>4 DEF Toml!Resave
  <2>2. Toml!IsManifest(written) /\ Toml!Shown(Toml!Normalize(written)) = Toml!Shown(Toml!Normalize(form)) BY <2>1
  <2>3. /\ Toml!IsManifest(written') /\ Toml!RunnerLoads(written')
        /\ (written'.type = "rest" => written'.risk = Toml!VerbRisk(written'.verb))
        /\ Toml!Shown(Toml!Normalize(written')) = Toml!Shown(Toml!Normalize(written))
    BY <2>1, <2>2, TomlSaved
  <2> QED BY <1>0, <2>1, <2>2, <2>3
<1>5. CASE UNCHANGED Toml!vars
  BY <1>5 DEF Toml!vars
<1> QED BY <1>1, <1>2, <1>3, <1>4, <1>5 DEF Toml!Next

\* Under either runner and after any number of changes: what the panel writes the runner loads,
\* a file read back and saved is the same to the editor, and the risk of a rest operation the
\* panel wrote is that of its verb (tool_authoring.py, toolyard/config.py).
THEOREM ManifestInvHolds ==
  ASSUME Toml!ManifestAssumption
  PROVE  Toml!Spec => []Toml!ManifestInv
  BY TomlInit, TomlNext, PTL DEF Toml!Spec

=============================================================================
