--------------------------- MODULE MCSecretsProofs --------------------------
(***************************************************************************)
(* What the properties of MCSecrets.tla say of the secrets provider, its   *)
(* audit log and the vault, for every value of its constants: the lemmas   *)
(* of StorageProofs.tla, taken over for the components of MCSecrets.       *)
(* Nothing is taken over of the tools, the forwarder, the MCP names and    *)
(* the database, whose constants are empty.                                *)
(***************************************************************************)
EXTENDS MCSecrets, TLAPS

Rp == INSTANCE StorageProofs WITH
    Tools <- ReleaseCase.Tools, Esecrets <- ReleaseCase.Esecrets, ToolOf <- ReleaseCase.ToolOf,
    Names <- ReleaseCase.Names, Decls <- ReleaseCase.Decls, Grants <- ReleaseCase.Grants,
    Ops <- ReleaseCase.Ops, Conns <- ReleaseCase.Conns, MaxWorkers <- ReleaseCase.MaxWorkers,
    MaxCalls <- ReleaseCase.MaxCalls, MaxFaults <- ReleaseCase.MaxFaults,
    reg <- v1, backend <- v2, held <- v3, slots <- v4, conn <- v5, rejects <- v6, summed <- v7,
    happened <- v8, logged <- v9, cache <- v10, calls <- v11, faults <- v12,
    file <- v1, lock <- v2, salt <- v3, mem <- v4, job <- v5, last <- v6, answer <- v7,
    sets <- v8, inits <- v9, crashes <- v10,
    files <- v1, logPc <- v2, index <- v3, offered <- v4, acked <- v5, logFaults <- v6,
    Reloads <- 0, Launches <- {}, Procs <- {}, Snap <- None, New <- None, Empty <- None,
    MaxRuns <- 0, MaxDeaths <- 0,
    db <- v1, revoked <- v2, repolicied <- v3, writer <- v4, tx <- v5, pc <- v6, op <- v7, seen <- v8,
    ok <- v9, reloads <- v10, source <- v1, fs <- v2, stage <- v3, proc <- v4, orphans <- v5, ran <- v6,
    origin <- v7, runs <- v8, deaths <- v9, dir <- v1, procs <- v2, dying <- v3, rules <- v4, live <- v5,
    helper <- v6, used <- v7, exit <- v8,
    Secretless <- {}, Pids <- {}, Operators <- {}, LifecycleOps <- {}, MaxBorn <- 0, MaxSps <- 0,
    MaxMishaps <- 0, MaxKills <- 0,
    boot <- v1, processes <- v2, born <- v3, disk <- v4, recorded <- v5, chan <- v6, sps <- v7,
    regs <- v8, task <- v9, reclock <- v10, rc <- v11, wd <- v12, wanted <- v13, approved <- v14,
    given <- v15, mishaps <- v16, kills <- v17,
    Operations <- {}, RestOnes <- {}, MaxTurns <- 0, registry <- v1, effect <- v2,
    names <- v3, shown <- v4, everShown <- v5, called <- v6, steps <- v7,
    Declared <- {}, Writable <- {}, RawOps <- {}, CallerHeaders <- {}, Bodies <- {}, VarValues <- {},
    MaxAsked <- 0, MaxValue <- 0,
    operation <- v1, provided <- v2, copied <- v3, at <- v4, request <- v5, todo <- v6,
    extracted <- v7, before <- v8, reply <- v9, next <- v10, asked <- v11

Wp == INSTANCE StorageProofs WITH
    Tools <- WriteCase.Tools, Esecrets <- WriteCase.Esecrets, ToolOf <- WriteCase.ToolOf,
    Names <- WriteCase.Names, Decls <- WriteCase.Decls, Grants <- WriteCase.Grants,
    Ops <- WriteCase.Ops, Conns <- WriteCase.Conns, MaxWorkers <- WriteCase.MaxWorkers,
    MaxCalls <- WriteCase.MaxCalls, MaxFaults <- WriteCase.MaxFaults,
    reg <- v1, backend <- v2, held <- v3, slots <- v4, conn <- v5, rejects <- v6, summed <- v7,
    happened <- v8, logged <- v9, cache <- v10, calls <- v11, faults <- v12,
    file <- v1, lock <- v2, salt <- v3, mem <- v4, job <- v5, last <- v6, answer <- v7,
    sets <- v8, inits <- v9, crashes <- v10,
    files <- v1, logPc <- v2, index <- v3, offered <- v4, acked <- v5, logFaults <- v6,
    Reloads <- 0, Launches <- {}, Procs <- {}, Snap <- None, New <- None, Empty <- None,
    MaxRuns <- 0, MaxDeaths <- 0,
    db <- v1, revoked <- v2, repolicied <- v3, writer <- v4, tx <- v5, pc <- v6, op <- v7, seen <- v8,
    ok <- v9, reloads <- v10, source <- v1, fs <- v2, stage <- v3, proc <- v4, orphans <- v5, ran <- v6,
    origin <- v7, runs <- v8, deaths <- v9, dir <- v1, procs <- v2, dying <- v3, rules <- v4, live <- v5,
    helper <- v6, used <- v7, exit <- v8,
    Secretless <- {}, Pids <- {}, Operators <- {}, LifecycleOps <- {}, MaxBorn <- 0, MaxSps <- 0,
    MaxMishaps <- 0, MaxKills <- 0,
    boot <- v1, processes <- v2, born <- v3, disk <- v4, recorded <- v5, chan <- v6, sps <- v7,
    regs <- v8, task <- v9, reclock <- v10, rc <- v11, wd <- v12, wanted <- v13, approved <- v14,
    given <- v15, mishaps <- v16, kills <- v17,
    Operations <- {}, RestOnes <- {}, MaxTurns <- 0, registry <- v1, effect <- v2,
    names <- v3, shown <- v4, everShown <- v5, called <- v6, steps <- v7,
    Declared <- {}, Writable <- {}, RawOps <- {}, CallerHeaders <- {}, Bodies <- {}, VarValues <- {},
    MaxAsked <- 0, MaxValue <- 0,
    operation <- v1, provided <- v2, copied <- v3, at <- v4, request <- v5, todo <- v6,
    extracted <- v7, before <- v8, reply <- v9, next <- v10, asked <- v11

Kp == INSTANCE StorageProofs WITH
    Tools <- WorkerCase.Tools, Esecrets <- WorkerCase.Esecrets, ToolOf <- WorkerCase.ToolOf,
    Names <- WorkerCase.Names, Decls <- WorkerCase.Decls, Grants <- WorkerCase.Grants,
    Ops <- WorkerCase.Ops, Conns <- WorkerCase.Conns, MaxWorkers <- WorkerCase.MaxWorkers,
    MaxCalls <- WorkerCase.MaxCalls, MaxFaults <- WorkerCase.MaxFaults,
    reg <- v1, backend <- v2, held <- v3, slots <- v4, conn <- v5, rejects <- v6, summed <- v7,
    happened <- v8, logged <- v9, cache <- v10, calls <- v11, faults <- v12,
    file <- v1, lock <- v2, salt <- v3, mem <- v4, job <- v5, last <- v6, answer <- v7,
    sets <- v8, inits <- v9, crashes <- v10,
    files <- v1, logPc <- v2, index <- v3, offered <- v4, acked <- v5, logFaults <- v6,
    Reloads <- 0, Launches <- {}, Procs <- {}, Snap <- None, New <- None, Empty <- None,
    MaxRuns <- 0, MaxDeaths <- 0,
    db <- v1, revoked <- v2, repolicied <- v3, writer <- v4, tx <- v5, pc <- v6, op <- v7, seen <- v8,
    ok <- v9, reloads <- v10, source <- v1, fs <- v2, stage <- v3, proc <- v4, orphans <- v5, ran <- v6,
    origin <- v7, runs <- v8, deaths <- v9, dir <- v1, procs <- v2, dying <- v3, rules <- v4, live <- v5,
    helper <- v6, used <- v7, exit <- v8,
    Secretless <- {}, Pids <- {}, Operators <- {}, LifecycleOps <- {}, MaxBorn <- 0, MaxSps <- 0,
    MaxMishaps <- 0, MaxKills <- 0,
    boot <- v1, processes <- v2, born <- v3, disk <- v4, recorded <- v5, chan <- v6, sps <- v7,
    regs <- v8, task <- v9, reclock <- v10, rc <- v11, wd <- v12, wanted <- v13, approved <- v14,
    given <- v15, mishaps <- v16, kills <- v17,
    Operations <- {}, RestOnes <- {}, MaxTurns <- 0, registry <- v1, effect <- v2,
    names <- v3, shown <- v4, everShown <- v5, called <- v6, steps <- v7,
    Declared <- {}, Writable <- {}, RawOps <- {}, CallerHeaders <- {}, Bodies <- {}, VarValues <- {},
    MaxAsked <- 0, MaxValue <- 0,
    operation <- v1, provided <- v2, copied <- v3, at <- v4, request <- v5, todo <- v6,
    extracted <- v7, before <- v8, reply <- v9, next <- v10, asked <- v11

-----------------------------------------------------------------------------
(* A step of MCSecrets is a step of the component that runs, or leaves it alone. *)

LEMMA OneComponent ==
  ASSUME [Next]_all
  PROVE  /\ comp' = comp
         /\ comp = "release" => [Sr!Next]_(Sr!vars)
         /\ comp = "writes" => [Sw!Next]_(Sw!vars)
         /\ comp = "workers" => [Sk!Next]_(Sk!vars)
         /\ comp = "vault" => [Va!Next]_(Va!vars)
         /\ comp = "audit" => [Al!Next]_(Al!vars)
<1>1. CASE Next
  BY <1>1 DEF Next, Stay
<1>2. CASE UNCHANGED all
  BY <1>2 DEF all, Sr!vars, Sw!vars, Sk!vars, Va!vars, Al!vars
<1> QED BY <1>1, <1>2

(* The components of MCSecrets are those of StorageProofs: both are instances of one       *)
(* module, and what they define is the same once it is written out.                        *)

LEMMA SameRelease ==
  /\ Sr!SpsAssumption <=> Rp!SpsAssumption
  /\ Sr!Init <=> Rp!Init
  /\ [Sr!Next]_(Sr!vars) <=> [Rp!Next]_(Rp!vars)
  /\ Sr!SpsInv <=> Rp!SpsInv
  /\ Sr!SecretsGuarded <=> Rp!SecretsGuarded
  /\ Sr!SpsInv' <=> Rp!SpsInv'
<1>1. Sr!SpsAssumption <=> Rp!SpsAssumption
  BY DEF Sr!SpsAssumption, Rp!SpsAssumption, Sr!Entry, Rp!Entry, Sr!IsFiniteSet, Rp!IsFiniteSet
<1>2. Sr!Init <=> Rp!Init
  BY DEF Sr!Init, Rp!Init, Sr!Key, Rp!Key, Sr!Idle, Rp!Idle, Sr!NoMsg, Rp!NoMsg
<1>3. [Sr!Next]_(Sr!vars) <=> [Rp!Next]_(Rp!vars)
  BY SMTT(60) DEF Sr!Next, Rp!Next, Sr!vars, Rp!vars, Sr!Messages, Rp!Messages, Sr!Call,
    Rp!Call, Sr!NoThread, Rp!NoThread, Sr!ServerStep, Rp!ServerStep, Sr!Receive, Rp!Receive,
    Sr!Set, Rp!Set, Sr!Current, Rp!Current, Sr!counts, Rp!counts, Sr!Fault, Rp!Fault, Sr!Admit,
    Rp!Admit, Sr!FlushTake, Rp!FlushTake, Sr!FlushWrite, Rp!FlushWrite, Sr!Read, Rp!Read,
    Sr!DispatchRunner, Rp!DispatchRunner, Sr!DispatchTool, Rp!DispatchTool, Sr!BackendRead,
    Rp!BackendRead, Sr!BackendWrite, Rp!BackendWrite, Sr!Audit, Rp!Audit, Sr!Reply, Rp!Reply,
    Sr!Release, Rp!Release, Sr!Idle, Rp!Idle, Sr!Reject, Rp!Reject, Sr!FlushPcs, Rp!FlushPcs,
    Sr!Flushing, Rp!Flushing, Sr!After, Rp!After, Sr!Refusal, Rp!Refusal, Sr!Authorized,
    Rp!Authorized, Sr!NoMsg, Rp!NoMsg, Sr!Duplicate, Rp!Duplicate, Sr!Ungranted, Rp!Ungranted
<1>4. Sr!SpsInv <=> Rp!SpsInv
  BY DEF Sr!SpsInv, Rp!SpsInv, Sr!TypeOK, Rp!TypeOK, Sr!SlotsConserved, Rp!SlotsConserved,
    Sr!CacheReal, Rp!CacheReal, Sr!Entry, Rp!Entry, Sr!Key, Rp!Key, Sr!Connection,
    Rp!Connection, Sr!CallerKnown, Rp!CallerKnown, Sr!ValuesAllowed, Rp!ValuesAllowed,
    Sr!RepliesTrue, Rp!RepliesTrue, Sr!Holds, Rp!Holds, Sr!Replies, Rp!Replies, Sr!Cardinality,
    Rp!Cardinality, Sr!Current, Rp!Current, Sr!Allowed, Rp!Allowed, Sr!Unread, Rp!Unread,
    Sr!Answered, Rp!Answered
<1>5. Sr!SecretsGuarded <=> Rp!SecretsGuarded
  BY DEF Sr!SecretsGuarded, Rp!SecretsGuarded, Sr!TypeOK, Rp!TypeOK, Sr!ReleasesAllowed,
    Rp!ReleasesAllowed, Sr!FailClosed, Rp!FailClosed, Sr!CacheReal, Rp!CacheReal, Sr!Entry,
    Rp!Entry, Sr!Key, Rp!Key, Sr!Holds, Rp!Holds, Sr!Replies, Rp!Replies
<1>6. Sr!SpsInv' <=> Rp!SpsInv'
  BY DEF Sr!SpsInv, Rp!SpsInv, Sr!TypeOK, Rp!TypeOK, Sr!SlotsConserved, Rp!SlotsConserved,
    Sr!CacheReal, Rp!CacheReal, Sr!Entry, Rp!Entry, Sr!Key, Rp!Key, Sr!Connection,
    Rp!Connection, Sr!CallerKnown, Rp!CallerKnown, Sr!ValuesAllowed, Rp!ValuesAllowed,
    Sr!RepliesTrue, Rp!RepliesTrue, Sr!Holds, Rp!Holds, Sr!Replies, Rp!Replies, Sr!Cardinality,
    Rp!Cardinality, Sr!Current, Rp!Current, Sr!Allowed, Rp!Allowed, Sr!Unread, Rp!Unread,
    Sr!Answered, Rp!Answered
<1> QED BY <1>1, <1>2, <1>3, <1>4, <1>5, <1>6

LEMMA SameWrites ==
  /\ Sw!SpsAssumption <=> Wp!SpsAssumption
  /\ Sw!Init <=> Wp!Init
  /\ [Sw!Next]_(Sw!vars) <=> [Wp!Next]_(Wp!vars)
  /\ Sw!SpsInv <=> Wp!SpsInv
  /\ Sw!SecretsGuarded <=> Wp!SecretsGuarded
  /\ Sw!SpsInv' <=> Wp!SpsInv'
<1>1. Sw!SpsAssumption <=> Wp!SpsAssumption
  BY DEF Sw!SpsAssumption, Wp!SpsAssumption, Sw!Entry, Wp!Entry, Sw!IsFiniteSet, Wp!IsFiniteSet
<1>2. Sw!Init <=> Wp!Init
  BY DEF Sw!Init, Wp!Init, Sw!Key, Wp!Key, Sw!Idle, Wp!Idle, Sw!NoMsg, Wp!NoMsg
<1>3. [Sw!Next]_(Sw!vars) <=> [Wp!Next]_(Wp!vars)
  BY SMTT(60) DEF Sw!Next, Wp!Next, Sw!vars, Wp!vars, Sw!Messages, Wp!Messages, Sw!Call,
    Wp!Call, Sw!NoThread, Wp!NoThread, Sw!ServerStep, Wp!ServerStep, Sw!Receive, Wp!Receive,
    Sw!Set, Wp!Set, Sw!Current, Wp!Current, Sw!counts, Wp!counts, Sw!Fault, Wp!Fault, Sw!Admit,
    Wp!Admit, Sw!FlushTake, Wp!FlushTake, Sw!FlushWrite, Wp!FlushWrite, Sw!Read, Wp!Read,
    Sw!DispatchRunner, Wp!DispatchRunner, Sw!DispatchTool, Wp!DispatchTool, Sw!BackendRead,
    Wp!BackendRead, Sw!BackendWrite, Wp!BackendWrite, Sw!Audit, Wp!Audit, Sw!Reply, Wp!Reply,
    Sw!Release, Wp!Release, Sw!Idle, Wp!Idle, Sw!Reject, Wp!Reject, Sw!FlushPcs, Wp!FlushPcs,
    Sw!Flushing, Wp!Flushing, Sw!After, Wp!After, Sw!Refusal, Wp!Refusal, Sw!Authorized,
    Wp!Authorized, Sw!NoMsg, Wp!NoMsg, Sw!Duplicate, Wp!Duplicate, Sw!Ungranted, Wp!Ungranted
<1>4. Sw!SpsInv <=> Wp!SpsInv
  BY DEF Sw!SpsInv, Wp!SpsInv, Sw!TypeOK, Wp!TypeOK, Sw!SlotsConserved, Wp!SlotsConserved,
    Sw!CacheReal, Wp!CacheReal, Sw!Entry, Wp!Entry, Sw!Key, Wp!Key, Sw!Connection,
    Wp!Connection, Sw!CallerKnown, Wp!CallerKnown, Sw!ValuesAllowed, Wp!ValuesAllowed,
    Sw!RepliesTrue, Wp!RepliesTrue, Sw!Holds, Wp!Holds, Sw!Replies, Wp!Replies, Sw!Cardinality,
    Wp!Cardinality, Sw!Current, Wp!Current, Sw!Allowed, Wp!Allowed, Sw!Unread, Wp!Unread,
    Sw!Answered, Wp!Answered
<1>5. Sw!SecretsGuarded <=> Wp!SecretsGuarded
  BY DEF Sw!SecretsGuarded, Wp!SecretsGuarded, Sw!TypeOK, Wp!TypeOK, Sw!ReleasesAllowed,
    Wp!ReleasesAllowed, Sw!FailClosed, Wp!FailClosed, Sw!CacheReal, Wp!CacheReal, Sw!Entry,
    Wp!Entry, Sw!Key, Wp!Key, Sw!Holds, Wp!Holds, Sw!Replies, Wp!Replies
<1>6. Sw!SpsInv' <=> Wp!SpsInv'
  BY DEF Sw!SpsInv, Wp!SpsInv, Sw!TypeOK, Wp!TypeOK, Sw!SlotsConserved, Wp!SlotsConserved,
    Sw!CacheReal, Wp!CacheReal, Sw!Entry, Wp!Entry, Sw!Key, Wp!Key, Sw!Connection,
    Wp!Connection, Sw!CallerKnown, Wp!CallerKnown, Sw!ValuesAllowed, Wp!ValuesAllowed,
    Sw!RepliesTrue, Wp!RepliesTrue, Sw!Holds, Wp!Holds, Sw!Replies, Wp!Replies, Sw!Cardinality,
    Wp!Cardinality, Sw!Current, Wp!Current, Sw!Allowed, Wp!Allowed, Sw!Unread, Wp!Unread,
    Sw!Answered, Wp!Answered
<1> QED BY <1>1, <1>2, <1>3, <1>4, <1>5, <1>6

LEMMA SameWorkers ==
  /\ Sk!SpsAssumption <=> Kp!SpsAssumption
  /\ Sk!Init <=> Kp!Init
  /\ [Sk!Next]_(Sk!vars) <=> [Kp!Next]_(Kp!vars)
  /\ Sk!SpsInv <=> Kp!SpsInv
  /\ Sk!WorkersCounted <=> Kp!WorkersCounted
  /\ Sk!SpsInv' <=> Kp!SpsInv'
<1>1. Sk!SpsAssumption <=> Kp!SpsAssumption
  BY DEF Sk!SpsAssumption, Kp!SpsAssumption, Sk!Entry, Kp!Entry, Sk!IsFiniteSet, Kp!IsFiniteSet
<1>2. Sk!Init <=> Kp!Init
  BY DEF Sk!Init, Kp!Init, Sk!Key, Kp!Key, Sk!Idle, Kp!Idle, Sk!NoMsg, Kp!NoMsg
<1>3. [Sk!Next]_(Sk!vars) <=> [Kp!Next]_(Kp!vars)
  BY SMTT(60) DEF Sk!Next, Kp!Next, Sk!vars, Kp!vars, Sk!Messages, Kp!Messages, Sk!Call,
    Kp!Call, Sk!NoThread, Kp!NoThread, Sk!ServerStep, Kp!ServerStep, Sk!Receive, Kp!Receive,
    Sk!Set, Kp!Set, Sk!Current, Kp!Current, Sk!counts, Kp!counts, Sk!Fault, Kp!Fault, Sk!Admit,
    Kp!Admit, Sk!FlushTake, Kp!FlushTake, Sk!FlushWrite, Kp!FlushWrite, Sk!Read, Kp!Read,
    Sk!DispatchRunner, Kp!DispatchRunner, Sk!DispatchTool, Kp!DispatchTool, Sk!BackendRead,
    Kp!BackendRead, Sk!BackendWrite, Kp!BackendWrite, Sk!Audit, Kp!Audit, Sk!Reply, Kp!Reply,
    Sk!Release, Kp!Release, Sk!Idle, Kp!Idle, Sk!Reject, Kp!Reject, Sk!FlushPcs, Kp!FlushPcs,
    Sk!Flushing, Kp!Flushing, Sk!After, Kp!After, Sk!Refusal, Kp!Refusal, Sk!Authorized,
    Kp!Authorized, Sk!NoMsg, Kp!NoMsg, Sk!Duplicate, Kp!Duplicate, Sk!Ungranted, Kp!Ungranted
<1>4. Sk!SpsInv <=> Kp!SpsInv
  BY DEF Sk!SpsInv, Kp!SpsInv, Sk!TypeOK, Kp!TypeOK, Sk!SlotsConserved, Kp!SlotsConserved,
    Sk!CacheReal, Kp!CacheReal, Sk!Entry, Kp!Entry, Sk!Key, Kp!Key, Sk!Connection,
    Kp!Connection, Sk!CallerKnown, Kp!CallerKnown, Sk!ValuesAllowed, Kp!ValuesAllowed,
    Sk!RepliesTrue, Kp!RepliesTrue, Sk!Holds, Kp!Holds, Sk!Replies, Kp!Replies, Sk!Cardinality,
    Kp!Cardinality, Sk!Current, Kp!Current, Sk!Allowed, Kp!Allowed, Sk!Unread, Kp!Unread,
    Sk!Answered, Kp!Answered
<1>5. Sk!WorkersCounted <=> Kp!WorkersCounted
  BY DEF Sk!WorkersCounted, Kp!WorkersCounted, Sk!TypeOK, Kp!TypeOK, Sk!SlotsConserved,
    Kp!SlotsConserved, Sk!NotOvercounted, Kp!NotOvercounted, Sk!Entry, Kp!Entry, Sk!Key,
    Kp!Key, Sk!Holds, Kp!Holds, Sk!Replies, Kp!Replies, Sk!Cardinality, Kp!Cardinality
<1>6. Sk!SpsInv' <=> Kp!SpsInv'
  BY DEF Sk!SpsInv, Kp!SpsInv, Sk!TypeOK, Kp!TypeOK, Sk!SlotsConserved, Kp!SlotsConserved,
    Sk!CacheReal, Kp!CacheReal, Sk!Entry, Kp!Entry, Sk!Key, Kp!Key, Sk!Connection,
    Kp!Connection, Sk!CallerKnown, Kp!CallerKnown, Sk!ValuesAllowed, Kp!ValuesAllowed,
    Sk!RepliesTrue, Kp!RepliesTrue, Sk!Holds, Kp!Holds, Sk!Replies, Kp!Replies, Sk!Cardinality,
    Kp!Cardinality, Sk!Current, Kp!Current, Sk!Allowed, Kp!Allowed, Sk!Unread, Kp!Unread,
    Sk!Answered, Kp!Answered
<1> QED BY <1>1, <1>2, <1>3, <1>4, <1>5, <1>6

LEMMA SameVault ==
  /\ Va!VaultAssumption <=> Rp!File!VaultAssumption
  /\ Va!Init <=> Rp!File!Init
  /\ [Va!Next]_(Va!vars) <=> [Rp!File!Next]_(Rp!File!vars)
  /\ Va!VaultInv <=> Rp!File!VaultInv
  /\ Va!VaultInv' <=> Rp!File!VaultInv'
  BY DEF Va!VaultAssumption, Rp!File!VaultAssumption, Va!Init, Rp!File!Init, Va!Next,
    Rp!File!Next, Va!VaultInv, Rp!File!VaultInv, Va!vars, Rp!File!vars, Va!Empty,
    Rp!File!Empty, Va!Workers, Rp!File!Workers, Va!NoJob, Rp!File!NoJob, Va!Connect,
    Rp!File!Connect, Va!Step, Rp!File!Step, Va!InitUnlink, Rp!File!InitUnlink, Va!Crash,
    Rp!File!Crash, Va!Ask, Rp!File!Ask, Va!VaultCurrent, Rp!File!VaultCurrent, Va!JobSound,
    Rp!File!JobSound, Va!Sharing, Rp!File!Sharing, Va!Lock, Rp!File!Lock, Va!Reload,
    Rp!File!Reload, Va!Get, Rp!File!Get, Va!Persist, Rp!File!Persist, Va!PersistFails,
    Rp!File!PersistFails, Va!InitWrite, Rp!File!InitWrite, Va!TypeOK, Rp!File!TypeOK,
    Va!NoLostSet, Rp!File!NoLostSet, Va!ReadsLatest, Rp!File!ReadsLatest, Va!Go, Rp!File!Go,
    Va!Unlock, Rp!File!Unlock, Va!Data, Rp!File!Data

LEMMA SameLog ==
  /\ Al!AuditLogAssumption <=> Rp!Log!AuditLogAssumption
  /\ Al!Init <=> Rp!Log!Init
  /\ [Al!Next]_(Al!vars) <=> [Rp!Log!Next]_(Rp!Log!vars)
  /\ Al!LogInv <=> Rp!Log!LogInv
  /\ Al!LogInv' <=> Rp!Log!LogInv'
  BY DEF Al!AuditLogAssumption, Rp!Log!AuditLogAssumption, Al!Init, Rp!Log!Init, Al!Next,
    Rp!Log!Next, Al!LogInv, Rp!Log!LogInv, Al!vars, Rp!Log!vars, Al!Gens, Rp!Log!Gens,
    Al!Begin, Rp!Log!Begin, Al!Shift, Rp!Log!Shift, Al!Write, Rp!Log!Write, Al!Return,
    Rp!Log!Return, Al!Fail, Rp!Log!Fail, Al!Bounded, Rp!Log!Bounded, Al!NoHoles,
    Rp!Log!NoHoles, Al!RecentKept, Rp!Log!RecentKept, Al!Present, Rp!Log!Present, Al!Records,
    Rp!Log!Records, Al!Cardinality, Rp!Log!Cardinality, Al!Gaps, Rp!Log!Gaps, Al!Moving,
    Rp!Log!Moving, Al!Rename, Rp!Log!Rename

-----------------------------------------------------------------------------
(* The secrets provider *)

\* What the two instances that hand out and write values keep.
ProviderInv ==
    /\ comp = "release" => Sr!SpsInv
    /\ comp = "writes" => Sw!SpsInv

\* Values are released only to a process whose E_SECRET was registered during the call, and
\* only those of its tool or granted to it; nobody is told of a success, or given a value,
\* that the audit log does not have; and the cache of a tool holds only values that the
\* backend has held (sps/server.py, sps/client.py).
THEOREM SecretsGuardedHolds == Spec => []SecretsGuarded
<1>0. Rp!SpsAssumption /\ Wp!SpsAssumption
  BY SecretsAssumption, SameRelease, SameWrites
<1>1. ASSUME Init PROVE ProviderInv
  BY <1>0, <1>1, Rp!SpsInit, Wp!SpsInit, SameRelease, SameWrites DEF Init, Start, ProviderInv
<1>2. ASSUME ProviderInv, [Next]_all PROVE ProviderInv'
  <2>1. ASSUME comp = "release" PROVE Sr!SpsInv'
    <3>1. Rp!SpsInv /\ [Rp!Next]_(Rp!vars)
      BY <1>2, <2>1, OneComponent, SameRelease DEF ProviderInv
    <3> QED BY <1>0, <3>1, Rp!SpsNext, SameRelease
  <2>2. ASSUME comp = "writes" PROVE Sw!SpsInv'
    <3>1. Wp!SpsInv /\ [Wp!Next]_(Wp!vars)
      BY <1>2, <2>2, OneComponent, SameWrites DEF ProviderInv
    <3> QED BY <1>0, <3>1, Wp!SpsNext, SameWrites
  <2> QED BY <1>2, <2>1, <2>2, OneComponent DEF ProviderInv
<1>3. ProviderInv => SecretsGuarded
  <2>1. Sr!SpsInv => Sr!TypeOK /\ Sr!ReleasesAllowed
    BY Rp!GuardedBySpsInv, SameRelease DEF Sr!SecretsGuarded
  <2>2. Sw!SpsInv => Sw!ReleasesAllowed /\ Sw!FailClosed
    BY Wp!GuardedBySpsInv, SameWrites DEF Sw!SecretsGuarded
  <2> QED BY <2>1, <2>2 DEF ProviderInv, SecretsGuarded
<1> QED BY <1>1, <1>2, <1>3, PTL DEF Spec

\* The rejections that the workers hold, with what the counter and the summaries have, are
\* all different ones.
WorkersInv == comp = "workers" => Sk!SpsInv /\ Kp!SharedOut

\* The permits of the semaphore and the workers that hold one add up, whatever breaks, and
\* the summaries never count a rejected connection twice (sps/server.py, _flush_rejects).
THEOREM WorkersCountedHolds == Spec => []WorkersCounted
<1>0. Kp!SpsAssumption
  BY SecretsAssumption, SameWorkers
<1>1. ASSUME Init PROVE WorkersInv
  BY <1>0, <1>1, Kp!SpsInit, Kp!SharedInit, SameWorkers DEF Init, Start, WorkersInv
<1>2. ASSUME WorkersInv, [Next]_all PROVE WorkersInv'
  <2>1. ASSUME comp = "workers" PROVE Sk!SpsInv' /\ Kp!SharedOut'
    <3>1. Kp!SpsInv /\ Kp!SharedOut /\ [Kp!Next]_(Kp!vars)
      BY <1>2, <2>1, OneComponent, SameWorkers DEF WorkersInv
    <3> QED BY <1>0, <3>1, Kp!SpsNext, Kp!SharedNext, SameWorkers
  <2> QED BY <1>2, <2>1, OneComponent DEF WorkersInv
<1>3. WorkersInv => WorkersCounted
  BY Kp!CountedByShares, SameWorkers DEF WorkersInv, WorkersCounted
<1> QED BY <1>1, <1>2, <1>3, PTL DEF Spec

-----------------------------------------------------------------------------
(* The vault *)

\* No set of a field undoes that of another process and a read returns the last value that
\* anyone has set, through crashes and forced init-vaults that unlink the file without the
\* lock (the vault plugin).
THEOREM VaultCurrentHolds == Spec => []VaultCurrent
<1>0. Rp!File!VaultAssumption
  BY SecretsAssumption, SameVault
<1>1. ASSUME Init PROVE VaultCurrent
  BY <1>0, <1>1, Rp!VaultInit, SameVault DEF Init, Start, VaultCurrent, Va!VaultInv
<1>2. ASSUME VaultCurrent, [Next]_all PROVE VaultCurrent'
  <2>1. ASSUME comp = "vault" PROVE Va!VaultInv'
    <3>1. Rp!File!VaultInv /\ [Rp!File!Next]_(Rp!File!vars)
      BY <1>2, <2>1, OneComponent, SameVault DEF VaultCurrent
    <3> QED BY <1>0, <3>1, Rp!VaultNext, SameVault
  <2>2. Va!VaultInv' => Va!VaultCurrent'
    BY DEF Va!VaultInv
  <2> QED BY <1>2, <2>1, <2>2, OneComponent DEF VaultCurrent
<1> QED BY <1>1, <1>2, PTL DEF Spec

-----------------------------------------------------------------------------
(* The audit log *)

\* However often a rotation is interrupted, no file of the audit log grows past its bound and
\* the history forgets from its old end only: of the newest events that its files have room
\* for, less one file for each interruption but never less than two, no acknowledged one is
\* missing (sps/audit.py).
THEOREM LogKeptHolds == Spec => []LogKept
<1>0. Rp!Log!AuditLogAssumption
  BY SecretsAssumption, SameLog
<1>1. ASSUME Init PROVE LogKept
  <2>1. comp = "audit" => Al!LogInv
    BY <1>0, <1>1, Rp!LogInit, SameLog DEF Init, Start
  <2> QED BY <2>1 DEF LogKept, Al!LogInv
<1>2. ASSUME LogKept, [Next]_all PROVE LogKept'
  <2>1. ASSUME comp = "audit" PROVE Al!LogInv'
    <3>1. Rp!Log!LogInv /\ [Rp!Log!Next]_(Rp!Log!vars)
      BY <1>2, <2>1, OneComponent, SameLog DEF LogKept
    <3> QED BY <1>0, <3>1, Rp!LogNext, SameLog
  <2>2. Al!LogInv' => Al!Bounded' /\ Al!NoHoles' /\ Al!RecentKept'
    BY DEF Al!LogInv
  <2> QED BY <1>2, <2>1, <2>2, OneComponent DEF LogKept
<1> QED BY <1>1, <1>2, PTL DEF Spec

=============================================================================
