---------------------------- MODULE MCToolsProofs ---------------------------
(***************************************************************************)
(* The properties of MCTools.tla for every value of its constants: the     *)
(* lemmas of StorageProofs.tla, taken over for the components of MCTools.  *)
(* Nothing is taken over of the secrets, whose constants are empty here.   *)
(***************************************************************************)
EXTENDS MCTools, TLAPS

\* The starts and stops, and no SIGHUP inside a commit point; the reconciler and the watchdog,
\* and some SIGHUPs.
Calm == INSTANCE StorageProofs WITH
    Reloads <- 0, db <- v1, revoked <- v2, repolicied <- v3, writer <- v4, tx <- v5, pc <- v6,
    op <- v7, seen <- v8, ok <- v9, reloads <- v10,
    Procs <- Copiers, MaxRuns <- MaxCopies, source <- v1, fs <- v2,
    stage <- v3, proc <- v4, orphans <- v5, ran <- v6, origin <- v7, runs <- v8, deaths <- v9,
    dir <- v1, procs <- v2, dying <- v3, rules <- v4, live <- v5, helper <- v6, used <- v7, exit <- v8,
    Tools <- StopCase.Tools, Esecrets <- {}, ToolOf <- None, Names <- {}, Decls <- StopCase.Decls,
    Grants <- None,
    Ops <- {}, Conns <- {}, MaxWorkers <- 0, MaxCalls <- 0, MaxFaults <- 0,
    Fields <- {}, Servers <- {}, Commands <- {}, MaxSets <- 0, MaxInits <- 0, MaxCrashes <- 0,
    reg <- v1, backend <- v2, held <- v3, slots <- v4, conn <- v5, rejects <- v6, summed <- v7,
    happened <- v8, logged <- v9, cache <- v10, calls <- v11, faults <- v12,
    file <- v1, lock <- v2, salt <- v3, mem <- v4, job <- v5, last <- v6, answer <- v7,
    sets <- v8, inits <- v9, crashes <- v10,
    MaxBytes <- 0, Generations <- 0, MaxEvents <- 0, MaxLogFaults <- 0,
    files <- v1, logPc <- v2, index <- v3, offered <- v4, acked <- v5, logFaults <- v6,
    Secretless <- StopCase.Secretless, Pids <- {pid1, pid2}, Operators <- StopCase.Callers,
    LifecycleOps <- StopCase.Ops, MaxBorn <- StopCase.MaxBorn, MaxSps <- StopCase.MaxSps,
    MaxMishaps <- StopCase.MaxFaults, MaxKills <- StopCase.MaxCrashes,
    boot <- v1, processes <- v2, born <- v3, disk <- v4, recorded <- v5, chan <- v6, sps <- v7,
    regs <- v8, task <- v9, reclock <- v10, rc <- v11, wd <- v12, wanted <- v13, approved <- v14,
    given <- v15, mishaps <- v16, kills <- v17,
    Operations <- CatalogOps, RestOnes <- RestOps, MaxTurns <- 3, registry <- v1, effect <- v2,
    names <- v3, shown <- v4, everShown <- v5, called <- v6, steps <- v7,
    Declared <- {"s", "t"}, Writable <- {"s", "t"}, RawOps <- RawOperations,
    CallerHeaders <- Headers, Bodies <- {None, "text", "ref", "big"},
    VarValues <- {"absent", "word", "slash", "bad"}, MaxAsked <- 2, MaxValue <- 2,
    operation <- v1, provided <- v2, copied <- v3, at <- v4, request <- v5, todo <- v6,
    extracted <- v7, before <- v8, reply <- v9, next <- v10, asked <- v11

Busy == INSTANCE StorageProofs WITH
    Reloads <- Reloads, db <- v1, revoked <- v2, repolicied <- v3, writer <- v4, tx <- v5, pc <- v6,
    op <- v7, seen <- v8, ok <- v9, reloads <- v10,
    Procs <- Copiers, MaxRuns <- MaxCopies, source <- v1, fs <- v2,
    stage <- v3, proc <- v4, orphans <- v5, ran <- v6, origin <- v7, runs <- v8, deaths <- v9,
    dir <- v1, procs <- v2, dying <- v3, rules <- v4, live <- v5, helper <- v6, used <- v7, exit <- v8,
    Tools <- RecoverCase.Tools, Esecrets <- {}, ToolOf <- None, Names <- {}, Decls <- RecoverCase.Decls,
    Grants <- None,
    Ops <- {}, Conns <- {}, MaxWorkers <- 0, MaxCalls <- 0, MaxFaults <- 0,
    Fields <- {}, Servers <- {}, Commands <- {}, MaxSets <- 0, MaxInits <- 0, MaxCrashes <- 0,
    reg <- v1, backend <- v2, held <- v3, slots <- v4, conn <- v5, rejects <- v6, summed <- v7,
    happened <- v8, logged <- v9, cache <- v10, calls <- v11, faults <- v12,
    file <- v1, lock <- v2, salt <- v3, mem <- v4, job <- v5, last <- v6, answer <- v7,
    sets <- v8, inits <- v9, crashes <- v10,
    MaxBytes <- 0, Generations <- 0, MaxEvents <- 0, MaxLogFaults <- 0,
    files <- v1, logPc <- v2, index <- v3, offered <- v4, acked <- v5, logFaults <- v6,
    Secretless <- RecoverCase.Secretless, Pids <- {pid1, pid2}, Operators <- RecoverCase.Callers,
    LifecycleOps <- RecoverCase.Ops, MaxBorn <- RecoverCase.MaxBorn, MaxSps <- RecoverCase.MaxSps,
    MaxMishaps <- RecoverCase.MaxFaults, MaxKills <- RecoverCase.MaxCrashes,
    boot <- v1, processes <- v2, born <- v3, disk <- v4, recorded <- v5, chan <- v6, sps <- v7,
    regs <- v8, task <- v9, reclock <- v10, rc <- v11, wd <- v12, wanted <- v13, approved <- v14,
    given <- v15, mishaps <- v16, kills <- v17,
    Operations <- CatalogOps, RestOnes <- RestOps, MaxTurns <- 3, registry <- v1, effect <- v2,
    names <- v3, shown <- v4, everShown <- v5, called <- v6, steps <- v7,
    Declared <- {"s", "t"}, Writable <- {"s", "t"}, RawOps <- RawOperations,
    CallerHeaders <- Headers, Bodies <- {None, "text", "ref", "big"},
    VarValues <- {"absent", "word", "slash", "bad"}, MaxAsked <- 2, MaxValue <- 2,
    operation <- v1, provided <- v2, copied <- v3, at <- v4, request <- v5, todo <- v6,
    extracted <- v7, before <- v8, reply <- v9, next <- v10, asked <- v11

-----------------------------------------------------------------------------
(* A step of MCTools is a step of the component that runs, or leaves it alone. *)

LEMMA OneComponent ==
  ASSUME [Next]_all
  PROVE  /\ comp' = comp
         /\ comp = "stop" => [Ys!Next]_(Ys!vars)
         /\ comp = "recover" => [Yr!Next]_(Yr!vars)
         /\ comp = "netguard" => [Ng!Next]_(Ng!vars)
         /\ comp = "forwarder" => [Fw!Next]_(Fw!vars)
         /\ comp = "mcp" => [Mc!Next]_(Mc!vars)
         /\ comp = "backup" => [Bk!Next]_(Bk!vars)
         /\ comp = "claim" => [Cl!Next]_(Cl!vars)
         /\ comp = "claim_reload" => [Cr!Next]_(Cr!vars)
<1>1. CASE Next
  BY <1>1 DEF Next, Stay
<1>2. CASE UNCHANGED all
  <2>1. /\ UNCHANGED <<comp, v1, v2, v3, v4, v5, v6, v7, v8, v9>>
        /\ UNCHANGED <<v10, v11, v12, v13, v14, v15, v16, v17>>
    BY <1>2 DEF all
  <2>2. UNCHANGED <<Ng!vars, Bk!vars, Cl!vars, Cr!vars, Fw!vars, Mc!vars>>
    BY <2>1 DEF Ng!vars, Bk!vars, Cl!vars, Cr!vars, Fw!vars, Mc!vars
  <2>3. UNCHANGED Ys!vars
    BY <2>1 DEF Ys!vars, Ys!hostVars, Ys!fileVars, Ys!spsVars, Ys!threadVars, Ys!ghostVars, Ys!countVars
  <2>4. UNCHANGED Yr!vars
    BY <2>1 DEF Yr!vars, Yr!hostVars, Yr!fileVars, Yr!spsVars, Yr!threadVars, Yr!ghostVars, Yr!countVars
  <2> QED BY <2>1, <2>2, <2>3, <2>4
<1> QED BY <1>1, <1>2

(* The components of MCTools are those of StorageProofs: both are instances of one module, *)
(* and what they define is the same once it is written out.                                *)


LEMMA SameYard ==
  /\ Ys!ToolyardAssumption <=> Calm!Yard!ToolyardAssumption
  /\ Ys!Init <=> Calm!Yard!Init
  /\ [Ys!Next]_(Ys!vars) <=> [Calm!Yard!Next]_(Calm!Yard!vars)
  /\ Ys!ToolyardInv <=> Calm!Yard!ToolyardInv
  /\ Ys!NoForeignSignal <=> Calm!Yard!NoForeignSignal
  /\ Ys!ToolyardInv' <=> Calm!Yard!ToolyardInv'
  /\ (UNCHANGED Ys!vars) <=> (UNCHANGED Calm!Yard!vars)
<1>1. Ys!JobStep <=> Calm!Yard!JobStep
  BY DEF Ys!JobStep, Calm!Yard!JobStep, Ys!IsAlive, Calm!Yard!IsAlive, Ys!TermCheck,
    Calm!Yard!TermCheck, Ys!TermSignal, Calm!Yard!TermSignal, Ys!TermConfirm,
    Calm!Yard!TermConfirm, Ys!Unregister, Calm!Yard!Unregister, Ys!SaveState,
    Calm!Yard!SaveState, Ys!PublishChannels, Calm!Yard!PublishChannels, Ys!Register,
    Calm!Yard!Register, Ys!Spawn, Calm!Yard!Spawn, Ys!Ready, Calm!Yard!Ready, Ys!Rmtree,
    Calm!Yard!Rmtree, Ys!Finish, Calm!Yard!Finish, Ys!Reapable, Calm!Yard!Reapable, Ys!Alive,
    Calm!Yard!Alive, Ys!fileVars, Calm!Yard!fileVars, Ys!spsVars, Calm!Yard!spsVars,
    Ys!threadVars, Calm!Yard!threadVars, Ys!ghostVars, Calm!Yard!ghostVars, Ys!countVars,
    Calm!Yard!countVars, Ys!CheckExit, Calm!Yard!CheckExit, Ys!Same, Calm!Yard!Same, Ys!Go,
    Calm!Yard!Go, Ys!Ended, Calm!Yard!Ended, Ys!AfterCleanup, Calm!Yard!AfterCleanup,
    Ys!hostVars, Calm!Yard!hostVars, Ys!View, Calm!Yard!View, Ys!Minted, Calm!Yard!Minted,
    Ys!At, Calm!Yard!At, Ys!Self, Calm!Yard!Self, Ys!Orphaned, Calm!Yard!Orphaned, Ys!Other,
    Calm!Yard!Other
<1>2. Ys!RcStep <=> Calm!Yard!RcStep
  BY DEF Ys!RcStep, Calm!Yard!RcStep, Ys!RcWait, Calm!Yard!RcWait, Ys!RcSnap, Calm!Yard!RcSnap,
    Ys!RcPick, Calm!Yard!RcPick, Ys!RcAssess, Calm!Yard!RcAssess, Ys!RcStart,
    Calm!Yard!RcStart, Ys!RcRestore, Calm!Yard!RcRestore, Ys!hostVars, Calm!Yard!hostVars,
    Ys!fileVars, Calm!Yard!fileVars, Ys!spsVars, Calm!Yard!spsVars, Ys!ghostVars,
    Calm!Yard!ghostVars, Ys!countVars, Calm!Yard!countVars, Ys!RcOff, Calm!Yard!RcOff,
    Ys!Reapable, Calm!Yard!Reapable, Ys!Alive, Calm!Yard!Alive, Ys!NewJob, Calm!Yard!NewJob,
    Ys!View, Calm!Yard!View, Ys!NoState, Calm!Yard!NoState, Ys!Same, Calm!Yard!Same, Ys!Self,
    Calm!Yard!Self, Ys!At, Calm!Yard!At
<1>3. Ys!WdStep <=> Calm!Yard!WdStep
  BY DEF Ys!WdStep, Calm!Yard!WdStep, Ys!WdProbe, Calm!Yard!WdProbe, Ys!WdLock,
    Calm!Yard!WdLock, Ys!WdLoad, Calm!Yard!WdLoad, Ys!WdRegister, Calm!Yard!WdRegister,
    Ys!WdEnd, Calm!Yard!WdEnd, Ys!hostVars, Calm!Yard!hostVars, Ys!fileVars,
    Calm!Yard!fileVars, Ys!spsVars, Calm!Yard!spsVars, Ys!ghostVars, Calm!Yard!ghostVars,
    Ys!countVars, Calm!Yard!countVars, Ys!NewJob, Calm!Yard!NewJob, Ys!Reapable,
    Calm!Yard!Reapable, Ys!Alive, Calm!Yard!Alive, Ys!Same, Calm!Yard!Same, Ys!Self,
    Calm!Yard!Self, Ys!At, Calm!Yard!At
<1>4. Ys!ToolyardAssumption <=> Calm!Yard!ToolyardAssumption
  BY DEF Ys!ToolyardAssumption, Calm!Yard!ToolyardAssumption, Ys!RunningTool,
    Calm!Yard!RunningTool, Ys!Registration, Calm!Yard!Registration, Ys!Job, Calm!Yard!Job
<1>5. Ys!Init <=> Calm!Yard!Init
  BY DEF Ys!Init, Calm!Yard!Init, Ys!NoState, Calm!Yard!NoState, Ys!RcOff, Calm!Yard!RcOff,
    Ys!WdNew, Calm!Yard!WdNew
<1>6. [Ys!Next]_(Ys!vars) <=> [Calm!Yard!Next]_(Calm!Yard!vars)
  BY <1>1, <1>2, <1>3 DEF Ys!Next, Calm!Yard!Next, Ys!vars, Calm!Yard!vars, Ys!BeginStart,
    Calm!Yard!BeginStart, Ys!BeginStop, Calm!Yard!BeginStop, Ys!SaveFails, Calm!Yard!SaveFails,
    Ys!StartInterrupted, Calm!Yard!StartInterrupted, Ys!PortTaken, Calm!Yard!PortTaken,
    Ys!Exit, Calm!Yard!Exit, Ys!Foreign, Calm!Yard!Foreign, Ys!ListTools, Calm!Yard!ListTools,
    Ys!RecordEdit, Calm!Yard!RecordEdit, Ys!EditManifest, Calm!Yard!EditManifest, Ys!SpsStop,
    Calm!Yard!SpsStop, Ys!SpsStart, Calm!Yard!SpsStart, Ys!CliCrash, Calm!Yard!CliCrash,
    Ys!AdminRestart, Calm!Yard!AdminRestart, Ys!Reboot, Calm!Yard!Reboot, Ys!hostVars,
    Calm!Yard!hostVars, Ys!fileVars, Calm!Yard!fileVars, Ys!spsVars, Calm!Yard!spsVars,
    Ys!threadVars, Calm!Yard!threadVars, Ys!ghostVars, Calm!Yard!ghostVars, Ys!countVars,
    Calm!Yard!countVars, Ys!NewJob, Calm!Yard!NewJob, Ys!Go, Calm!Yard!Go, Ys!Ended,
    Calm!Yard!Ended, Ys!At, Calm!Yard!At, Ys!Reapable, Calm!Yard!Reapable, Ys!View,
    Calm!Yard!View, Ys!NoState, Calm!Yard!NoState, Ys!Orphaned, Calm!Yard!Orphaned, Ys!InHand,
    Calm!Yard!InHand, Ys!RcOff, Calm!Yard!RcOff, Ys!WdNew, Calm!Yard!WdNew, Ys!Same,
    Calm!Yard!Same, Ys!Self, Calm!Yard!Self
<1>7. Ys!ToolyardInv <=> Calm!Yard!ToolyardInv
  BY DEF Ys!ToolyardInv, Calm!Yard!ToolyardInv, Ys!TypeOK, Calm!Yard!TypeOK, Ys!ProcsInv,
    Calm!Yard!ProcsInv, Ys!RecordsInv, Calm!Yard!RecordsInv, Ys!ThreadsInv,
    Calm!Yard!ThreadsInv, Ys!InHandInv, Calm!Yard!InHandInv, Ys!PhaseInv, Calm!Yard!PhaseInv,
    Ys!NoForgottenProcess, Calm!Yard!NoForgottenProcess, Ys!IntentKept, Calm!Yard!IntentKept,
    Ys!GrantsApproved, Calm!Yard!GrantsApproved, Ys!Process, Calm!Yard!Process, Ys!RunningTool,
    Calm!Yard!RunningTool, Ys!Registration, Calm!Yard!Registration, Ys!Job, Calm!Yard!Job,
    Ys!Threads, Calm!Yard!Threads, Ys!Watch, Calm!Yard!Watch, Ys!Sound, Calm!Yard!Sound,
    Ys!Dead, Calm!Yard!Dead, Ys!Starts, Calm!Yard!Starts
<1>8. Ys!NoForeignSignal <=> Calm!Yard!NoForeignSignal
  BY DEF Ys!NoForeignSignal, Calm!Yard!NoForeignSignal
<1>9. Ys!ToolyardInv' <=> Calm!Yard!ToolyardInv'
  BY DEF Ys!ToolyardInv, Calm!Yard!ToolyardInv, Ys!TypeOK, Calm!Yard!TypeOK, Ys!ProcsInv,
    Calm!Yard!ProcsInv, Ys!RecordsInv, Calm!Yard!RecordsInv, Ys!ThreadsInv,
    Calm!Yard!ThreadsInv, Ys!InHandInv, Calm!Yard!InHandInv, Ys!PhaseInv, Calm!Yard!PhaseInv,
    Ys!NoForgottenProcess, Calm!Yard!NoForgottenProcess, Ys!IntentKept, Calm!Yard!IntentKept,
    Ys!GrantsApproved, Calm!Yard!GrantsApproved, Ys!Process, Calm!Yard!Process, Ys!RunningTool,
    Calm!Yard!RunningTool, Ys!Registration, Calm!Yard!Registration, Ys!Job, Calm!Yard!Job,
    Ys!Threads, Calm!Yard!Threads, Ys!Watch, Calm!Yard!Watch, Ys!Sound, Calm!Yard!Sound,
    Ys!Dead, Calm!Yard!Dead, Ys!Starts, Calm!Yard!Starts
<1>10. (UNCHANGED Ys!vars) <=> (UNCHANGED Calm!Yard!vars)
  BY DEF Ys!vars, Calm!Yard!vars, Ys!hostVars, Calm!Yard!hostVars, Ys!fileVars,
    Calm!Yard!fileVars, Ys!spsVars, Calm!Yard!spsVars, Ys!threadVars, Calm!Yard!threadVars,
    Ys!ghostVars, Calm!Yard!ghostVars, Ys!countVars, Calm!Yard!countVars
<1> QED BY <1>4, <1>5, <1>6, <1>7, <1>8, <1>9, <1>10

LEMMA SameRecovery ==
  /\ Yr!ToolyardAssumption <=> Busy!Yard!ToolyardAssumption
  /\ Yr!Init <=> Busy!Yard!Init
  /\ [Yr!Next]_(Yr!vars) <=> [Busy!Yard!Next]_(Busy!Yard!vars)
  /\ Yr!ToolyardInv <=> Busy!Yard!ToolyardInv
  /\ Yr!NoForeignSignal <=> Busy!Yard!NoForeignSignal
  /\ Yr!ToolyardInv' <=> Busy!Yard!ToolyardInv'
  /\ (UNCHANGED Yr!vars) <=> (UNCHANGED Busy!Yard!vars)
<1>1. Yr!JobStep <=> Busy!Yard!JobStep
  BY DEF Yr!JobStep, Busy!Yard!JobStep, Yr!IsAlive, Busy!Yard!IsAlive, Yr!TermCheck,
    Busy!Yard!TermCheck, Yr!TermSignal, Busy!Yard!TermSignal, Yr!TermConfirm,
    Busy!Yard!TermConfirm, Yr!Unregister, Busy!Yard!Unregister, Yr!SaveState,
    Busy!Yard!SaveState, Yr!PublishChannels, Busy!Yard!PublishChannels, Yr!Register,
    Busy!Yard!Register, Yr!Spawn, Busy!Yard!Spawn, Yr!Ready, Busy!Yard!Ready, Yr!Rmtree,
    Busy!Yard!Rmtree, Yr!Finish, Busy!Yard!Finish, Yr!Reapable, Busy!Yard!Reapable, Yr!Alive,
    Busy!Yard!Alive, Yr!fileVars, Busy!Yard!fileVars, Yr!spsVars, Busy!Yard!spsVars,
    Yr!threadVars, Busy!Yard!threadVars, Yr!ghostVars, Busy!Yard!ghostVars, Yr!countVars,
    Busy!Yard!countVars, Yr!CheckExit, Busy!Yard!CheckExit, Yr!Same, Busy!Yard!Same, Yr!Go,
    Busy!Yard!Go, Yr!Ended, Busy!Yard!Ended, Yr!AfterCleanup, Busy!Yard!AfterCleanup,
    Yr!hostVars, Busy!Yard!hostVars, Yr!View, Busy!Yard!View, Yr!Minted, Busy!Yard!Minted,
    Yr!At, Busy!Yard!At, Yr!Self, Busy!Yard!Self, Yr!Orphaned, Busy!Yard!Orphaned, Yr!Other,
    Busy!Yard!Other
<1>2. Yr!RcStep <=> Busy!Yard!RcStep
  BY DEF Yr!RcStep, Busy!Yard!RcStep, Yr!RcWait, Busy!Yard!RcWait, Yr!RcSnap, Busy!Yard!RcSnap,
    Yr!RcPick, Busy!Yard!RcPick, Yr!RcAssess, Busy!Yard!RcAssess, Yr!RcStart,
    Busy!Yard!RcStart, Yr!RcRestore, Busy!Yard!RcRestore, Yr!hostVars, Busy!Yard!hostVars,
    Yr!fileVars, Busy!Yard!fileVars, Yr!spsVars, Busy!Yard!spsVars, Yr!ghostVars,
    Busy!Yard!ghostVars, Yr!countVars, Busy!Yard!countVars, Yr!RcOff, Busy!Yard!RcOff,
    Yr!Reapable, Busy!Yard!Reapable, Yr!Alive, Busy!Yard!Alive, Yr!NewJob, Busy!Yard!NewJob,
    Yr!View, Busy!Yard!View, Yr!NoState, Busy!Yard!NoState, Yr!Same, Busy!Yard!Same, Yr!Self,
    Busy!Yard!Self, Yr!At, Busy!Yard!At
<1>3. Yr!WdStep <=> Busy!Yard!WdStep
  BY DEF Yr!WdStep, Busy!Yard!WdStep, Yr!WdProbe, Busy!Yard!WdProbe, Yr!WdLock,
    Busy!Yard!WdLock, Yr!WdLoad, Busy!Yard!WdLoad, Yr!WdRegister, Busy!Yard!WdRegister,
    Yr!WdEnd, Busy!Yard!WdEnd, Yr!hostVars, Busy!Yard!hostVars, Yr!fileVars,
    Busy!Yard!fileVars, Yr!spsVars, Busy!Yard!spsVars, Yr!ghostVars, Busy!Yard!ghostVars,
    Yr!countVars, Busy!Yard!countVars, Yr!NewJob, Busy!Yard!NewJob, Yr!Reapable,
    Busy!Yard!Reapable, Yr!Alive, Busy!Yard!Alive, Yr!Same, Busy!Yard!Same, Yr!Self,
    Busy!Yard!Self, Yr!At, Busy!Yard!At
<1>4. Yr!ToolyardAssumption <=> Busy!Yard!ToolyardAssumption
  BY DEF Yr!ToolyardAssumption, Busy!Yard!ToolyardAssumption, Yr!RunningTool,
    Busy!Yard!RunningTool, Yr!Registration, Busy!Yard!Registration, Yr!Job, Busy!Yard!Job
<1>5. Yr!Init <=> Busy!Yard!Init
  BY DEF Yr!Init, Busy!Yard!Init, Yr!NoState, Busy!Yard!NoState, Yr!RcOff, Busy!Yard!RcOff,
    Yr!WdNew, Busy!Yard!WdNew
<1>6. [Yr!Next]_(Yr!vars) <=> [Busy!Yard!Next]_(Busy!Yard!vars)
  BY <1>1, <1>2, <1>3 DEF Yr!Next, Busy!Yard!Next, Yr!vars, Busy!Yard!vars, Yr!BeginStart,
    Busy!Yard!BeginStart, Yr!BeginStop, Busy!Yard!BeginStop, Yr!SaveFails, Busy!Yard!SaveFails,
    Yr!StartInterrupted, Busy!Yard!StartInterrupted, Yr!PortTaken, Busy!Yard!PortTaken,
    Yr!Exit, Busy!Yard!Exit, Yr!Foreign, Busy!Yard!Foreign, Yr!ListTools, Busy!Yard!ListTools,
    Yr!RecordEdit, Busy!Yard!RecordEdit, Yr!EditManifest, Busy!Yard!EditManifest, Yr!SpsStop,
    Busy!Yard!SpsStop, Yr!SpsStart, Busy!Yard!SpsStart, Yr!CliCrash, Busy!Yard!CliCrash,
    Yr!AdminRestart, Busy!Yard!AdminRestart, Yr!Reboot, Busy!Yard!Reboot, Yr!hostVars,
    Busy!Yard!hostVars, Yr!fileVars, Busy!Yard!fileVars, Yr!spsVars, Busy!Yard!spsVars,
    Yr!threadVars, Busy!Yard!threadVars, Yr!ghostVars, Busy!Yard!ghostVars, Yr!countVars,
    Busy!Yard!countVars, Yr!NewJob, Busy!Yard!NewJob, Yr!Go, Busy!Yard!Go, Yr!Ended,
    Busy!Yard!Ended, Yr!At, Busy!Yard!At, Yr!Reapable, Busy!Yard!Reapable, Yr!View,
    Busy!Yard!View, Yr!NoState, Busy!Yard!NoState, Yr!Orphaned, Busy!Yard!Orphaned, Yr!InHand,
    Busy!Yard!InHand, Yr!RcOff, Busy!Yard!RcOff, Yr!WdNew, Busy!Yard!WdNew, Yr!Same,
    Busy!Yard!Same, Yr!Self, Busy!Yard!Self
<1>7. Yr!ToolyardInv <=> Busy!Yard!ToolyardInv
  BY DEF Yr!ToolyardInv, Busy!Yard!ToolyardInv, Yr!TypeOK, Busy!Yard!TypeOK, Yr!ProcsInv,
    Busy!Yard!ProcsInv, Yr!RecordsInv, Busy!Yard!RecordsInv, Yr!ThreadsInv,
    Busy!Yard!ThreadsInv, Yr!InHandInv, Busy!Yard!InHandInv, Yr!PhaseInv, Busy!Yard!PhaseInv,
    Yr!NoForgottenProcess, Busy!Yard!NoForgottenProcess, Yr!IntentKept, Busy!Yard!IntentKept,
    Yr!GrantsApproved, Busy!Yard!GrantsApproved, Yr!Process, Busy!Yard!Process, Yr!RunningTool,
    Busy!Yard!RunningTool, Yr!Registration, Busy!Yard!Registration, Yr!Job, Busy!Yard!Job,
    Yr!Threads, Busy!Yard!Threads, Yr!Watch, Busy!Yard!Watch, Yr!Sound, Busy!Yard!Sound,
    Yr!Dead, Busy!Yard!Dead, Yr!Starts, Busy!Yard!Starts
<1>8. Yr!NoForeignSignal <=> Busy!Yard!NoForeignSignal
  BY DEF Yr!NoForeignSignal, Busy!Yard!NoForeignSignal
<1>9. Yr!ToolyardInv' <=> Busy!Yard!ToolyardInv'
  BY DEF Yr!ToolyardInv, Busy!Yard!ToolyardInv, Yr!TypeOK, Busy!Yard!TypeOK, Yr!ProcsInv,
    Busy!Yard!ProcsInv, Yr!RecordsInv, Busy!Yard!RecordsInv, Yr!ThreadsInv,
    Busy!Yard!ThreadsInv, Yr!InHandInv, Busy!Yard!InHandInv, Yr!PhaseInv, Busy!Yard!PhaseInv,
    Yr!NoForgottenProcess, Busy!Yard!NoForgottenProcess, Yr!IntentKept, Busy!Yard!IntentKept,
    Yr!GrantsApproved, Busy!Yard!GrantsApproved, Yr!Process, Busy!Yard!Process, Yr!RunningTool,
    Busy!Yard!RunningTool, Yr!Registration, Busy!Yard!Registration, Yr!Job, Busy!Yard!Job,
    Yr!Threads, Busy!Yard!Threads, Yr!Watch, Busy!Yard!Watch, Yr!Sound, Busy!Yard!Sound,
    Yr!Dead, Busy!Yard!Dead, Yr!Starts, Busy!Yard!Starts
<1>10. (UNCHANGED Yr!vars) <=> (UNCHANGED Busy!Yard!vars)
  BY DEF Yr!vars, Busy!Yard!vars, Yr!hostVars, Busy!Yard!hostVars, Yr!fileVars,
    Busy!Yard!fileVars, Yr!spsVars, Busy!Yard!spsVars, Yr!threadVars, Busy!Yard!threadVars,
    Yr!ghostVars, Busy!Yard!ghostVars, Yr!countVars, Busy!Yard!countVars
<1> QED BY <1>4, <1>5, <1>6, <1>7, <1>8, <1>9, <1>10

LEMMA SameGuard ==
  /\ Ng!Init <=> Calm!Guard!Init
  /\ [Ng!Next]_(Ng!vars) <=> [Calm!Guard!Next]_(Calm!Guard!vars)
  /\ Ng!GuardInv <=> Calm!Guard!GuardInv
  /\ Ng!GuardInv' <=> Calm!Guard!GuardInv'
  BY DEF Ng!Init, Calm!Guard!Init, Ng!Next, Calm!Guard!Next, Ng!GuardInv, Calm!Guard!GuardInv,
    Ng!vars, Calm!Guard!vars, Ng!StartRun, Calm!Guard!StartRun, Ng!Reap, Calm!Guard!Reap,
    Ng!ToolEnds, Calm!Guard!ToolEnds, Ng!StartTeardown, Calm!Guard!StartTeardown, Ng!MakeDirs,
    Calm!Guard!MakeDirs, Ng!Flush, Calm!Guard!Flush, Ng!Install, Calm!Guard!Install, Ng!Join,
    Calm!Guard!Join, Ng!StepFails, Calm!Guard!StepFails, Ng!Exec, Calm!Guard!Exec,
    Ng!ExecFails, Calm!Guard!ExecFails, Ng!Kill, Calm!Guard!Kill, Ng!Unrule,
    Calm!Guard!Unrule, Ng!RmDir, Calm!Guard!RmDir, Ng!HelperDies, Calm!Guard!HelperDies,
    Ng!Confined, Calm!Guard!Confined, Ng!Helpers, Calm!Guard!Helpers, Ng!Launching,
    Calm!Guard!Launching, Ng!At, Calm!Guard!At, Ng!Go, Calm!Guard!Go, Ng!Undo,
    Calm!Guard!Undo, Ng!Places, Calm!Guard!Places

LEMMA SameCopies ==
  /\ Bk!BackupAssumption <=> Calm!Copies!BackupAssumption
  /\ Bk!Init <=> Calm!Copies!Init
  /\ [Bk!Next]_(Bk!vars) <=> [Calm!Copies!Next]_(Calm!Copies!vars)
  /\ Bk!BackupInv <=> Calm!Copies!BackupInv
  /\ Bk!RestoreSafe <=> Calm!Copies!RestoreSafe
  /\ [Bk!NeverOverwritten]_(Bk!vars) <=> [Calm!Copies!NeverOverwritten]_(Calm!Copies!vars)
  /\ Bk!BackupInv' <=> Calm!Copies!BackupInv'
  /\ Bk!RestoreSafe' <=> Calm!Copies!RestoreSafe'
  BY DEF Bk!BackupAssumption, Calm!Copies!BackupAssumption, Bk!Init, Calm!Copies!Init,
    Bk!Next, Calm!Copies!Next, Bk!BackupInv, Calm!Copies!BackupInv, Bk!RestoreSafe,
    Calm!Copies!RestoreSafe, Bk!NeverOverwritten, Calm!Copies!NeverOverwritten, Bk!vars,
    Calm!Copies!vars, Bk!Rows, Calm!Copies!Rows, Bk!Stages, Calm!Copies!Stages, Bk!Fresh,
    Calm!Copies!Fresh, Bk!Paths, Calm!Copies!Paths, Bk!Idle, Calm!Copies!Idle, Bk!BrokerStep,
    Calm!Copies!BrokerStep, Bk!RestoredStep, Calm!Copies!RestoredStep, Bk!Tidy,
    Calm!Copies!Tidy, Bk!BackupStart, Calm!Copies!BackupStart, Bk!RestoreStart,
    Calm!Copies!RestoreStart, Bk!Copy, Calm!Copies!Copy, Bk!Sanitize, Calm!Copies!Sanitize,
    Bk!AuditRestore, Calm!Copies!AuditRestore, Bk!Link, Calm!Copies!Link, Bk!Unlink,
    Calm!Copies!Unlink, Bk!Die, Calm!Copies!Die, Bk!Commands, Calm!Copies!Commands,
    Bk!StageSound, Calm!Copies!StageSound, Bk!NeverReplayed, Calm!Copies!NeverReplayed,
    Bk!RestoredWhole, Calm!Copies!RestoredWhole, Bk!Openable, Calm!Copies!Openable,
    Bk!Requests, Calm!Copies!Requests, Bk!Steps, Calm!Copies!Steps, Bk!Executes,
    Calm!Copies!Executes, Bk!Free, Calm!Copies!Free, Bk!At, Calm!Copies!At, Bk!Goto,
    Calm!Copies!Goto, Bk!Finish, Calm!Copies!Finish, Bk!Sanitized, Calm!Copies!Sanitized,
    Bk!Submitted, Calm!Copies!Submitted

LEMMA SameClaim ==
  /\ Cl!ReloadsAssumption <=> Calm!Txn!ReloadsAssumption
  /\ Cl!Init <=> Calm!Txn!Init
  /\ [Cl!Next]_(Cl!vars) <=> [Calm!Txn!Next]_(Calm!Txn!vars)
  /\ Cl!ClaimAtomic <=> Calm!Txn!ClaimAtomic
  /\ [Cl!ClaimIsCurrent]_(Cl!vars) <=> [Calm!Txn!ClaimIsCurrent]_(Calm!Txn!vars)
  /\ Cl!ClaimAtomic' <=> Calm!Txn!ClaimAtomic'
  BY DEF Cl!ReloadsAssumption, Calm!Txn!ReloadsAssumption, Cl!Init, Calm!Txn!Init, Cl!Next,
    Calm!Txn!Next, Cl!ClaimAtomic, Calm!Txn!ClaimAtomic, Cl!ClaimIsCurrent,
    Calm!Txn!ClaimIsCurrent, Cl!vars, Calm!Txn!vars, Cl!Ops, Calm!Txn!Ops, Cl!Begin,
    Calm!Txn!Begin, Cl!ReadRows, Calm!Txn!ReadRows, Cl!ReadAuthority, Calm!Txn!ReadAuthority,
    Cl!ReadPolicy, Calm!Txn!ReadPolicy, Cl!UpdateRequest, Calm!Txn!UpdateRequest,
    Cl!UpdateApproval, Calm!Txn!UpdateApproval, Cl!Commit, Calm!Txn!Commit, Cl!Sighup,
    Calm!Txn!Sighup, Cl!RevokeCaller, Calm!Txn!RevokeCaller, Cl!CancelPending,
    Calm!Txn!CancelPending, Cl!WritePolicy, Calm!Txn!WritePolicy, Cl!Park, Calm!Txn!Park,
    Cl!TypeOK, Calm!Txn!TypeOK, Cl!NoLeakedTransaction, Calm!Txn!NoLeakedTransaction,
    Cl!ClaimInv, Calm!Txn!ClaimInv, Cl!Final, Calm!Txn!Final, Cl!View, Calm!Txn!View,
    Cl!Wanted, Calm!Txn!Wanted, Cl!Write, Calm!Txn!Write, Cl!Db, Calm!Txn!Db, Cl!RowsTogether,
    Calm!Txn!RowsTogether, Cl!InTransaction, Calm!Txn!InTransaction, Cl!Status,
    Calm!Txn!Status, Cl!AppStatus, Calm!Txn!AppStatus, Cl!RequestGoal, Calm!Txn!RequestGoal,
    Cl!ApprovalGoal, Calm!Txn!ApprovalGoal

LEMMA SameClaimReload ==
  /\ Cr!ReloadsAssumption <=> Busy!Txn!ReloadsAssumption
  /\ Cr!Init <=> Busy!Txn!Init
  /\ [Cr!Next]_(Cr!vars) <=> [Busy!Txn!Next]_(Busy!Txn!vars)
  /\ Cr!ClaimAtomic <=> Busy!Txn!ClaimAtomic
  /\ Cr!ClaimAtomic' <=> Busy!Txn!ClaimAtomic'
  BY DEF Cr!ReloadsAssumption, Busy!Txn!ReloadsAssumption, Cr!Init, Busy!Txn!Init, Cr!Next,
    Busy!Txn!Next, Cr!ClaimAtomic, Busy!Txn!ClaimAtomic, Cr!vars, Busy!Txn!vars, Cr!Ops,
    Busy!Txn!Ops, Cr!Begin, Busy!Txn!Begin, Cr!ReadRows, Busy!Txn!ReadRows, Cr!ReadAuthority,
    Busy!Txn!ReadAuthority, Cr!ReadPolicy, Busy!Txn!ReadPolicy, Cr!UpdateRequest,
    Busy!Txn!UpdateRequest, Cr!UpdateApproval, Busy!Txn!UpdateApproval, Cr!Commit,
    Busy!Txn!Commit, Cr!Sighup, Busy!Txn!Sighup, Cr!RevokeCaller, Busy!Txn!RevokeCaller,
    Cr!CancelPending, Busy!Txn!CancelPending, Cr!WritePolicy, Busy!Txn!WritePolicy, Cr!Park,
    Busy!Txn!Park, Cr!TypeOK, Busy!Txn!TypeOK, Cr!NoLeakedTransaction,
    Busy!Txn!NoLeakedTransaction, Cr!ClaimInv, Busy!Txn!ClaimInv, Cr!View, Busy!Txn!View,
    Cr!Wanted, Busy!Txn!Wanted, Cr!Write, Busy!Txn!Write, Cr!Db, Busy!Txn!Db, Cr!RowsTogether,
    Busy!Txn!RowsTogether, Cr!InTransaction, Busy!Txn!InTransaction, Cr!Status,
    Busy!Txn!Status, Cr!AppStatus, Busy!Txn!AppStatus, Cr!Final, Busy!Txn!Final,
    Cr!RequestGoal, Busy!Txn!RequestGoal, Cr!ApprovalGoal, Busy!Txn!ApprovalGoal

LEMMA SameForwarder ==
  /\ Fw!ForwarderAssumption <=> Calm!Fwd!ForwarderAssumption
  /\ Fw!Init <=> Calm!Fwd!Init
  /\ [Fw!Next]_(Fw!vars) <=> [Calm!Fwd!Next]_(Calm!Fwd!vars)
  /\ Fw!ForwarderInv <=> Calm!Fwd!ForwarderInv
  /\ Fw!ForwarderInv' <=> Calm!Fwd!ForwarderInv'
  BY DEF Fw!ForwarderAssumption, Calm!Fwd!ForwarderAssumption, Fw!Init, Calm!Fwd!Init,
    Fw!Next, Calm!Fwd!Next, Fw!ForwarderInv, Calm!Fwd!ForwarderInv, Fw!vars, Calm!Fwd!vars,
    Fw!Loads, Calm!Fwd!Loads, Fw!Refresh, Calm!Fwd!Refresh, Fw!OperatorSets,
    Calm!Fwd!OperatorSets, Fw!Arguments, Calm!Fwd!Arguments, Fw!Build, Calm!Fwd!Build,
    Fw!SendFails, Calm!Fwd!SendFails, Fw!Apply, Calm!Fwd!Apply, Fw!Write, Calm!Fwd!Write,
    Fw!WriteFails, Calm!Fwd!WriteFails, Fw!Respond, Calm!Fwd!Respond, Fw!WritesInv,
    Calm!Fwd!WritesInv, Fw!RequestWellFormed, Calm!Fwd!RequestWellFormed, Fw!LoadedOpsUsable,
    Calm!Fwd!LoadedOpsUsable, Fw!RepliesTellWrites, Calm!Fwd!RepliesTellWrites,
    Fw!RotationPrivate, Calm!Fwd!RotationPrivate, Fw!PlacementOK, Calm!Fwd!PlacementOK,
    Fw!RulesOK, Calm!Fwd!RulesOK, Fw!Reply, Calm!Fwd!Reply, Fw!BuildError,
    Calm!Fwd!BuildError, Fw!OutboundRequest, Calm!Fwd!OutboundRequest, Fw!Turn, Calm!Fwd!Turn,
    Fw!Written, Calm!Fwd!Written, Fw!ValidPathVariable, Calm!Fwd!ValidPathVariable,
    Fw!TemplateRefs, Calm!Fwd!TemplateRefs, Fw!First, Calm!Fwd!First, Fw!PathError,
    Calm!Fwd!PathError, Fw!HeaderError, Calm!Fwd!HeaderError, Fw!SecretError,
    Calm!Fwd!SecretError, Fw!BodyError, Calm!Fwd!BodyError, Fw!Lower, Calm!Fwd!Lower,
    Fw!Refused, Calm!Fwd!Refused, Fw!ValidQueryVariable, Calm!Fwd!ValidQueryVariable

LEMMA SameNames ==
  /\ Mc!McpAssumption <=> Calm!Face!McpAssumption
  /\ Mc!Init <=> Calm!Face!Init
  /\ [Mc!Next]_(Mc!vars) <=> [Calm!Face!Next]_(Calm!Face!vars)
  /\ Mc!McpInv <=> Calm!Face!McpInv
  /\ Mc!McpInv' <=> Calm!Face!McpInv'
<1>1. Mc!McpAssumption <=> Calm!Face!McpAssumption
  BY DEF Mc!McpAssumption, Calm!Face!McpAssumption
<1>2. Mc!Init <=> Calm!Face!Init
  BY DEF Mc!Init, Calm!Face!Init, Mc!Catalogs, Calm!Face!Catalogs, Mc!NoNames,
    Calm!Face!NoNames, Mc!IsInjective, Calm!Face!IsInjective, Mc!Cardinality,
    Calm!Face!Cardinality
<1>3. [Mc!Next]_(Mc!vars) <=> [Calm!Face!Next]_(Calm!Face!vars)
  BY DEF Mc!Next, Calm!Face!Next, Mc!vars, Calm!Face!vars, Mc!Catalogs, Calm!Face!Catalogs,
    Mc!Reload, Calm!Face!Reload, Mc!SetPolicy, Calm!Face!SetPolicy, Mc!List, Calm!Face!List,
    Mc!ListAdapter, Calm!Face!ListAdapter, Mc!Name, Calm!Face!Name, Mc!CallBroker,
    Calm!Face!CallBroker, Mc!CallAdapter, Calm!Face!CallAdapter, Mc!Throttled,
    Calm!Face!Throttled, Mc!IsInjective, Calm!Face!IsInjective, Mc!Cardinality,
    Calm!Face!Cardinality, Mc!Step, Calm!Face!Step, Mc!ByName, Calm!Face!ByName, Mc!Allowed,
    Calm!Face!Allowed, Mc!At, Calm!Face!At, Mc!Resolve, Calm!Face!Resolve, Mc!Registered,
    Calm!Face!Registered, Mc!Record, Calm!Face!Record, Mc!Answer, Calm!Face!Answer,
    Mc!Outcome, Calm!Face!Outcome, Mc!Named, Calm!Face!Named, Mc!Range, Calm!Face!Range
<1>4. Mc!McpInv <=> Calm!Face!McpInv
  BY DEF Mc!McpInv, Calm!Face!McpInv, Mc!Catalogs, Calm!Face!Catalogs, Mc!MapSound,
    Calm!Face!MapSound, Mc!RunsWhatWasListed, Calm!Face!RunsWhatWasListed, Mc!HidesUnlisted,
    Calm!Face!HidesUnlisted, Mc!IsInjective, Calm!Face!IsInjective, Mc!Cardinality,
    Calm!Face!Cardinality, Mc!Name, Calm!Face!Name
<1>5. Mc!McpInv' <=> Calm!Face!McpInv'
  BY <1>4, PTL
<1> QED BY <1>1, <1>2, <1>3, <1>4, <1>5

-----------------------------------------------------------------------------
(* Tool processes *)

\* A live tool process is recorded in state.json or in the hands of a running command,
\* unless that died or its record and its cleanup both failed; a tool that its operators
\* want up stays recorded through every failed restart; SPS holds only declarations that an
\* operator has approved: with any number of tools, starts, restarts of SPS, failures and
\* crashes, and two process ids that are used again (toolyard/cli.py, admin/reconciler.py).
THEOREM ToolsAccountedForHolds == Spec => []ToolsAccountedFor
<1>0. Calm!Yard!ToolyardAssumption /\ Busy!Yard!ToolyardAssumption
  BY ToolsAssumption, SameYard, SameRecovery
<1>1. ASSUME Init PROVE ToolsAccountedFor
  BY <1>0, <1>1, Calm!YardInit, Busy!YardInit, SameYard, SameRecovery
     DEF Init, Start, ToolsAccountedFor
<1>2. ASSUME ToolsAccountedFor, [Next]_all PROVE ToolsAccountedFor'
  <2>1. ASSUME comp = "stop" PROVE Ys!ToolyardInv'
    <3>1. Calm!Yard!ToolyardInv /\ [Calm!Yard!Next]_(Calm!Yard!vars)
      BY <1>2, <2>1, OneComponent, SameYard DEF ToolsAccountedFor
    <3> QED BY <1>0, <3>1, Calm!YardNext, Calm!YardStutter, SameYard
  <2>2. ASSUME comp = "recover" PROVE Yr!ToolyardInv'
    <3>1. Busy!Yard!ToolyardInv /\ [Busy!Yard!Next]_(Busy!Yard!vars)
      BY <1>2, <2>2, OneComponent, SameRecovery DEF ToolsAccountedFor
    <3> QED BY <1>0, <3>1, Busy!YardNext, Busy!YardStutter, SameRecovery
  <2> QED BY <1>2, <2>1, <2>2, OneComponent DEF ToolsAccountedFor
<1> QED BY <1>1, <1>2, PTL DEF Spec

\* "require a positive boot/start match for each signal": a stop never ends a process that was
\* given the PID of the recorded one (_terminate).
THEOREM NoForeignSignalHolds == Spec => NoForeignSignal
<1>0. Calm!Yard!ToolyardAssumption
  BY ToolsAssumption, SameYard
<1>1. ASSUME ToolsAccountedFor, [Next]_all PROVE [comp = "stop" => Ys!NoForeignSignal]_all
  <2>1. ASSUME comp = "stop", ~ UNCHANGED Ys!vars PROVE Ys!NoForeignSignal
    <3>1. Calm!Yard!ToolyardInv /\ [Calm!Yard!Next]_(Calm!Yard!vars) /\ ~ UNCHANGED Calm!Yard!vars
      BY <1>1, <2>1, OneComponent, SameYard DEF ToolsAccountedFor
    <3> QED BY <1>0, <3>1, Calm!YardSignals, SameYard
  <2>2. ASSUME UNCHANGED Ys!vars PROVE Ys!NoForeignSignal
    <3>1. v9' = v9
      BY <2>2 DEF Ys!vars, Ys!threadVars
    <3> QED BY <3>1 DEF Ys!NoForeignSignal
  <2> QED BY <2>1, <2>2
<1> QED BY <1>1, ToolsAccountedForHolds, PTL DEF Spec, NoForeignSignal

-----------------------------------------------------------------------------
(* The network guard *)

\* A tool runs its code only inside the cgroup and under the rules of its own launch alone,
\* whatever earlier launches, failed ones, killed helpers and teardowns have left behind
\* (netguard.py).
THEOREM ConfinedHolds == Spec => []Confined
<1>1. ASSUME Init PROVE Confined
  BY <1>1, Calm!GuardInit, SameGuard DEF Init, Start, Confined, Ng!GuardInv
<1>2. ASSUME Confined, [Next]_all PROVE Confined'
  <2>1. ASSUME comp = "netguard" PROVE Ng!GuardInv'
    <3>1. Calm!Guard!GuardInv /\ [Calm!Guard!Next]_(Calm!Guard!vars)
      BY <1>2, <2>1, OneComponent, SameGuard DEF Confined
    <3> QED BY <3>1, Calm!GuardNext, SameGuard
  <2> QED BY <1>2, <2>1, OneComponent DEF Confined, Ng!GuardInv
<1> QED BY <1>1, <1>2, PTL DEF Spec

-----------------------------------------------------------------------------
(* The REST forwarder and the MCP names *)

\* In each operation of the family that loads, whatever its callers pass: it is never refused
\* for the place of its secrets, its request has valid variables, the headers of the operator
\* and no secret beyond the allowed ones; what a reply says of secret updates is true of the
\* cache; and a response that rotates a secret is shown only where the operator decided
\* against redaction (config.py, request_builder.py, rules.py).
THEOREM ForwardsAsDeclaredHolds == Spec => []ForwardsAsDeclared
<1>0. Calm!Fwd!ForwarderAssumption
  BY ToolsAssumption, SameForwarder
<1>1. ASSUME Init PROVE ForwardsAsDeclared
  BY <1>0, <1>1, Calm!FwdInit, SameForwarder DEF Init, Start, ForwardsAsDeclared
<1>2. ASSUME ForwardsAsDeclared, [Next]_all PROVE ForwardsAsDeclared'
  <2>1. ASSUME comp = "forwarder" PROVE Fw!ForwarderInv'
    <3>1. Calm!Fwd!ForwarderInv /\ [Calm!Fwd!Next]_(Calm!Fwd!vars)
      BY <1>2, <2>1, OneComponent, SameForwarder DEF ForwardsAsDeclared
    <3> QED BY <1>0, <3>1, Calm!FwdNext, SameForwarder
  <2> QED BY <1>2, <2>1, OneComponent DEF ForwardsAsDeclared
<1> QED BY <1>1, <1>2, PTL DEF Spec

\* In a catalog with ids that hold "__" and a name two operations share, whatever is registered,
\* permitted and listed: a name from a listing submits the operation it stood for, while that may be used and no other registered one has that name,
\* and a name whose operations were never listed to the caller and may not be used is answered
\* as an unknown tool (broker/mcp.py).
THEOREM NamesHoldHolds == Spec => []NamesHold
<1>0. Calm!Face!McpAssumption
  BY ToolsAssumption, SameNames
<1>1. ASSUME Init PROVE NamesHold
  BY <1>0, <1>1, Calm!FaceInit, SameNames DEF Init, Start, NamesHold
<1>2. ASSUME NamesHold, [Next]_all PROVE NamesHold'
  <2>1. ASSUME comp = "mcp" PROVE Mc!McpInv'
    <3>1. Calm!Face!McpInv /\ [Calm!Face!Next]_(Calm!Face!vars)
      BY <1>2, <2>1, OneComponent, SameNames DEF NamesHold
    <3> QED BY <1>0, <3>1, Calm!FaceNext, SameNames
  <2> QED BY <1>2, <2>1, OneComponent DEF NamesHold
<1> QED BY <1>1, <1>2, PTL DEF Spec

-----------------------------------------------------------------------------
(* The broker's database *)

\* The rows of a request agree for every other connection while no SIGHUP splits a commit
\* point, and with any number of SIGHUPs no commit point leaves its transaction open
\* (store.py).
THEOREM ClaimAtomicHolds == Spec => []ClaimAtomic
<1>0. Calm!Txn!ReloadsAssumption /\ Busy!Txn!ReloadsAssumption
  BY ToolsAssumption, SameClaim, SameClaimReload
<1>1. ASSUME Init PROVE ClaimAtomic
  BY <1>0, <1>1, Calm!ClaimAtomicInit, Busy!ClaimAtomicInit, SameClaim, SameClaimReload
     DEF Init, Start, ClaimAtomic
<1>2. ASSUME ClaimAtomic, [Next]_all PROVE ClaimAtomic'
  <2>1. ASSUME comp = "claim" PROVE Cl!ClaimAtomic'
    <3>1. Calm!Txn!ClaimAtomic /\ [Calm!Txn!Next]_(Calm!Txn!vars)
      BY <1>2, <2>1, OneComponent, SameClaim DEF ClaimAtomic
    <3> QED BY <1>0, <3>1, Calm!ClaimAtomicNext, SameClaim
  <2>2. ASSUME comp = "claim_reload" PROVE Cr!ClaimAtomic'
    <3>1. Busy!Txn!ClaimAtomic /\ [Busy!Txn!Next]_(Busy!Txn!vars)
      BY <1>2, <2>2, OneComponent, SameClaimReload DEF ClaimAtomic
    <3> QED BY <1>0, <3>1, Busy!ClaimAtomicNext, SameClaimReload
  <2> QED BY <1>2, <2>1, <2>2, OneComponent DEF ClaimAtomic
<1> QED BY <1>1, <1>2, PTL DEF Spec

\* "revocation/cancellation wins until this transaction claims": a request is committed to
\* its tool only from the state it waited in, with a live caller and under its policy
\* (claim_approval).
THEOREM RevocationWinsHolds == Spec => RevocationWins
<1>1. ASSUME ClaimAtomic, [Next]_all PROVE [comp = "claim" => Cl!ClaimIsCurrent]_all
  <2>1. ASSUME comp = "claim" PROVE [Cl!ClaimIsCurrent]_(Cl!vars)
    <3>1. Calm!Txn!ClaimAtomic /\ [Calm!Txn!Next]_(Calm!Txn!vars)
      BY <1>1, <2>1, OneComponent, SameClaim DEF ClaimAtomic
    <3> QED BY <3>1, Calm!ClaimCurrent, SameClaim
  <2>2. ASSUME UNCHANGED Cl!vars PROVE Cl!ClaimIsCurrent
    BY <2>2 DEF Cl!vars, Cl!ClaimIsCurrent
  <2> QED BY <2>1, <2>2
<1> QED BY <1>1, ClaimAtomicHolds, PTL DEF Spec, RevocationWins

\* A request that was in the snapshot is never executed from the restored database, and
\* whoever opens that finds a finished, audited restore of another installation than the
\* source, whatever commands die and whatever brokers do (backup.py).
THEOREM RestoreSafeHolds == Spec => []RestoreSafe
<1>0. Calm!Copies!BackupAssumption
  BY ToolsAssumption, SameCopies
<1>1. ASSUME Init PROVE RestoreSafe
  BY <1>0, <1>1, Calm!BackupInit, Calm!RestoreIsSafe, SameCopies DEF Init, Start, RestoreSafe
<1>2. ASSUME RestoreSafe, [Next]_all PROVE RestoreSafe'
  <2>1. ASSUME comp = "backup" PROVE Bk!BackupInv'
    <3>1. Calm!Copies!BackupInv /\ [Calm!Copies!Next]_(Calm!Copies!vars)
      BY <1>2, <2>1, OneComponent, SameCopies DEF RestoreSafe
    <3> QED BY <1>0, <3>1, Calm!BackupNext, SameCopies
  <2>2. Bk!BackupInv' => Bk!RestoreSafe'
    BY DEF Bk!BackupInv, Bk!RestoreSafe, Bk!NeverReplayed, Bk!RestoredWhole
  <2> QED BY <1>2, <2>1, <2>2, OneComponent DEF RestoreSafe
<1> QED BY <1>1, <1>2, PTL DEF Spec

\* "never overwritten": what a backup or a restore has published changes only by the steps
\* of a broker that has opened the restored database, though commands race for one name
\* (backup.py).
THEOREM NeverOverwrittenHolds == Spec => NeverOverwritten
<1>1. ASSUME RestoreSafe, [Next]_all PROVE [comp = "backup" => Bk!NeverOverwritten]_all
  <2>1. ASSUME comp = "backup" PROVE [Bk!NeverOverwritten]_(Bk!vars)
    <3>1. Calm!Copies!BackupInv /\ [Calm!Copies!Next]_(Calm!Copies!vars)
      BY <1>1, <2>1, OneComponent, SameCopies DEF RestoreSafe
    <3> QED BY <3>1, Calm!PublishedStays, SameCopies
  <2>2. ASSUME UNCHANGED Bk!vars PROVE Bk!NeverOverwritten
    BY <2>2 DEF Bk!vars, Bk!NeverOverwritten
  <2> QED BY <2>1, <2>2
<1> QED BY <1>1, RestoreSafeHolds, PTL DEF Spec, NeverOverwritten

=============================================================================
