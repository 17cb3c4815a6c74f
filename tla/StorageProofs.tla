---------------------------- MODULE StorageProofs ---------------------------
(***************************************************************************)
(* What the parts that keep things beside the broker's handler hold to:    *)
(* the secrets provider with its workers and registrations (Sps.tla), the  *)
(* generations of its audit log (AuditLog.tla), the vault file it shares   *)
(* with the operator's commands (Vault.tla), the rows that a commit point  *)
(* writes (ClaimTxn.tla), the snapshots and restored databases that        *)
(* operators make of them (Backup.tla); what confines the network of a     *)
(* tool, the cgroup and the rules around its process (NetGuard.tla); the   *)
(* record that its runner keeps of it (Toolyard.tla); the names of the MCP *)
(* framing (Mcp.tla); and the requests of the REST forwarder               *)
(* (Forwarder.tla).  For any number of tools, operations, rules,           *)
(* connections, workers, fields, generations, launches, commands, SIGHUPs, *)
(* failed renames, reboots and crashes.                                    *)
(***************************************************************************)
EXTENDS Sps, FiniteSetTheorems, SequenceTheorems, WellFoundedInduction, TLAPS

CONSTANTS Fields, Servers, Commands, MaxSets, MaxInits, MaxCrashes
CONSTANTS MaxBytes, Generations, MaxEvents, MaxLogFaults
CONSTANTS Reloads, Launches, Procs, Snap, New, Empty, MaxRuns, MaxDeaths
CONSTANTS Secretless, Pids, Operators, LifecycleOps, MaxBorn, MaxSps, MaxMishaps, MaxKills
CONSTANTS Operations, RestOnes, MaxTurns
CONSTANTS Declared, Writable, RawOps, CallerHeaders, Bodies, VarValues, MaxAsked, MaxValue

VARIABLES file, lock, salt, mem, job, last, answer, sets, inits, crashes
VARIABLES files, logPc, index, offered, acked, logFaults
VARIABLES db, revoked, repolicied, writer, tx, pc, op, seen, ok, reloads
VARIABLES source, fs, stage, proc, orphans, ran, origin, runs, deaths
VARIABLES dir, procs, dying, rules, live, helper, used, exit
VARIABLES boot, processes, born, disk, recorded, chan, sps, regs, task, reclock, rc, wd
VARIABLES wanted, approved, given, mishaps, kills
VARIABLES registry, effect, names, shown, everShown, called, steps
VARIABLES operation, provided, copied, at, request, todo, extracted, before, reply, next, asked

File == INSTANCE Vault
Log == INSTANCE AuditLog WITH pc <- logPc, faults <- logFaults, MaxFaults <- MaxLogFaults
Txn == INSTANCE ClaimTxn WITH lock <- writer
Copies == INSTANCE Backup WITH db <- source, crashes <- deaths, MaxCrashes <- MaxDeaths
Guard == INSTANCE NetGuard
Yard == INSTANCE Toolyard WITH
    Callers <- Operators, Ops <- LifecycleOps, MaxFaults <- MaxMishaps, MaxCrashes <- MaxKills,
    procs <- processes, state <- recorded, reg <- regs, job <- task, lost <- given,
    faults <- mishaps, crashes <- kills
Face == INSTANCE Mcp WITH Ops <- Operations, Rest <- RestOnes, MaxSteps <- MaxTurns, last <- called
Fwd == INSTANCE Forwarder WITH
    op <- operation, sps <- provided, cache <- copied, calls <- asked, MaxCalls <- MaxAsked

-----------------------------------------------------------------------------
(* The vault file *)

LEMMA VaultInit == ASSUME File!VaultAssumption, File!Init PROVE File!VaultInv
<1> USE DEF File!Init
<1>1. File!Empty \in File!Data
  BY DEF File!Empty, File!Data
<1>2. MaxInits \in Nat /\ 1 \in 1 .. MaxInits /\ 0 \in 0 .. MaxInits /\ 1 \in 0 .. MaxInits
  BY DEF File!VaultAssumption
<1>3. File!TypeOK
  <2>1. file \in [salt : 1 .. MaxInits, data : File!Data] /\ salt \in [File!Workers -> 0 .. MaxInits]
    BY <1>1, <1>2
  <2>2. job \in [File!Workers -> [pc : {"idle", "lock", "reload", "have", "exists"},
                                  op : {"none", "get", "set", "init"}, field : Fields \cup {None}, value : Nat]]
    BY DEF File!NoJob
  <2> QED BY <1>1, <2>1, <2>2 DEF File!TypeOK
<1>4. File!NoLostSet /\ File!ReadsLatest
  BY DEF File!NoLostSet, File!ReadsLatest
<1>5. \A w \in File!Workers : File!JobSound(w)
  BY DEF File!JobSound, File!NoJob
<1> QED BY <1>2, <1>3, <1>4, <1>5 DEF File!VaultInv, File!VaultCurrent

\* The jobs that a step leaves alone stay sound.
LEMMA JobsStay ==
  ASSUME NEW w \in File!Workers, File!JobSound(w), job'[w] = job[w], last' = last, salt'[w] = salt[w],
         job[w].pc = "have" => mem'[w] = mem[w],
         lock = w => lock' = w
  PROVE  File!JobSound(w)'
  BY DEF File!JobSound

LEMMA VaultNext ==
  ASSUME File!VaultAssumption, File!VaultInv, [File!Next]_(File!vars)
  PROVE  File!VaultInv'
<1> USE DEF File!VaultInv, File!VaultCurrent
<1> DEFINE Jobs == [pc : {"idle", "lock", "reload", "have", "exists"},
                    op : {"none", "get", "set", "init"}, field : Fields \cup {None}, value : Nat]
<1>0. None \notin File!Workers /\ MaxInits \in Nat /\ File!NoJob \in Jobs
  BY DEF File!VaultAssumption, File!Workers, File!NoJob
<1>a. job \in [File!Workers -> Jobs] /\ mem \in [File!Workers -> File!Data] /\ salt \in [File!Workers -> 0 .. MaxInits]
      /\ last \in File!Data
  BY DEF File!TypeOK
<1>1. ASSUME NEW w \in File!Workers, File!Connect(w) PROVE File!VaultInv'
  <2>1. file # None /\ file.salt \in 1 .. MaxInits /\ file.data \in File!Data
    BY <1>1 DEF File!Connect, File!TypeOK
  <2>2. /\ salt' = [x \in File!Workers |-> IF x \in File!Sharing(w) THEN file.salt ELSE salt[x]]
        /\ mem' = [x \in File!Workers |-> IF x \in File!Sharing(w) THEN file.data ELSE mem[x]]
        /\ UNCHANGED <<file, lock, job, last, answer, sets, inits>>
    BY <1>1 DEF File!Connect
  <2>3. \A x \in File!Sharing(w) : job[x].pc = "idle"
    BY <1>1 DEF File!Connect, File!Sharing, File!Workers, File!VaultAssumption
  <2>4. salt' \in [File!Workers -> 0 .. MaxInits] /\ mem' \in [File!Workers -> File!Data]
    BY <2>1, <2>2, <1>a, <1>0
  <2>5. ASSUME NEW x \in File!Workers PROVE File!JobSound(x)'
    <3>1. CASE x \in File!Sharing(w)
      BY <2>1, <2>2, <2>3, <3>1 DEF File!JobSound
    <3>2. CASE x \notin File!Sharing(w)
      BY <2>2, <3>2, JobsStay
    <3> QED BY <3>1, <3>2
  <2> QED BY <2>2, <2>4, <2>5 DEF File!TypeOK, File!NoLostSet, File!ReadsLatest
<1>2. ASSUME NEW w \in File!Workers, NEW f \in Fields, NEW o \in {"get", "set"}, File!Ask(w, o, f)
      PROVE  File!VaultInv'
  <2>1. sets' \in Nat
    BY <1>2 DEF File!Ask
  <2> DEFINE j == [pc |-> "lock", op |-> o, field |-> f, value |-> IF o = "set" THEN sets' ELSE 0]
  <2>2. j \in Jobs /\ job' = [job EXCEPT ![w] = j] /\ salt[w] # 0
    BY <1>2, <2>1 DEF File!Ask
  <2>3. UNCHANGED <<file, lock, salt, mem, last, answer, inits>>
    BY <1>2 DEF File!Ask
  <2>4. job' \in [File!Workers -> Jobs] /\ job'[w] = j /\ \A x \in File!Workers \ {w} : job'[x] = job[x]
    BY <2>2, <1>a
  <2>5. ASSUME NEW x \in File!Workers PROVE File!JobSound(x)'
    <3>1. CASE x = w
      BY <2>2, <2>3, <2>4, <3>1 DEF File!JobSound
    <3>2. CASE x # w
      BY <2>3, <2>4, <3>2, JobsStay
    <3> QED BY <3>1, <3>2
  <2> QED BY <2>1, <2>3, <2>4, <2>5 DEF File!TypeOK, File!NoLostSet, File!ReadsLatest
<1>3. ASSUME NEW w \in File!Workers, File!Lock(w) PROVE File!VaultInv'
  <2> DEFINE p == IF job[w].op = "init" THEN "exists" ELSE "reload"
  <2>1. job' = [job EXCEPT ![w].pc = p] /\ lock = None /\ lock' = w /\ job[w].pc = "lock"
    BY <1>3 DEF File!Lock, File!Go
  <2>2. UNCHANGED <<file, salt, mem, last, answer, sets, inits>>
    BY <1>3 DEF File!Lock
  <2>3. /\ job' \in [File!Workers -> Jobs] /\ job'[w] = [job[w] EXCEPT !.pc = p]
        /\ \A x \in File!Workers \ {w} : job'[x] = job[x]
    BY <2>1, <1>a
  <2>4. ASSUME NEW x \in File!Workers PROVE File!JobSound(x)'
    <3>1. CASE x = w
      <4>1. job'[w].pc = p /\ job'[w].op = job[w].op /\ job'[w].field = job[w].field /\ job'[w].value = job[w].value
        BY <2>3, <1>a
      <4> QED BY <2>1, <2>2, <4>1, <3>1, <1>a DEF File!JobSound
    <3>2. CASE x # w
      BY <2>1, <2>2, <2>3, <3>2, <1>0, JobsStay
    <3> QED BY <3>1, <3>2
  <2> QED BY <2>1, <2>2, <2>3, <2>4 DEF File!TypeOK, File!NoLostSet, File!ReadsLatest
\* The holder ends its job: nobody else is past the lock.
<1>4. ASSUME NEW w \in File!Workers, lock = w, File!Unlock(w), UNCHANGED <<salt, sets, inits>>,
             mem' \in [File!Workers -> File!Data], last' \in File!Data,
             file' = None \/ file' \in [salt : 1 .. MaxInits, data : File!Data],
             answer' \in [got : Nat, want : Nat], File!NoLostSet', File!ReadsLatest'
      PROVE  File!VaultInv'
  <2>1. lock' = None /\ job' = [job EXCEPT ![w] = File!NoJob]
    BY <1>4 DEF File!Unlock
  <2>2. /\ job' \in [File!Workers -> Jobs] /\ job'[w] = File!NoJob
        /\ \A x \in File!Workers \ {w} : job'[x] = job[x]
    BY <2>1, <1>a, <1>0
  <2>3. ASSUME NEW x \in File!Workers PROVE File!JobSound(x)'
    <3>1. CASE x = w
      BY <2>2, <3>1 DEF File!JobSound, File!NoJob
    <3>2. CASE x # w
      <4>1. File!JobSound(x) /\ job'[x] = job[x] /\ lock # x /\ salt' = salt
        BY <1>4, <2>2, <3>2
      <4> QED BY <4>1 DEF File!JobSound
    <3> QED BY <3>1, <3>2
  <2>4. File!TypeOK'
    BY <1>4, <2>1, <2>2, <1>a DEF File!TypeOK
  <2> QED BY <1>4, <2>3, <2>4
<1>5. ASSUME NEW w \in File!Workers, File!Reload(w) PROVE File!VaultInv'
  <2>0. lock = w /\ job[w].pc = "reload"
    BY <1>5 DEF File!Reload, File!JobSound
  <2>1. UNCHANGED <<file, salt, last, answer, sets, inits>>
    BY <1>5 DEF File!Reload
  <2>2. CASE File!Unlock(w) /\ UNCHANGED mem
    BY <1>4, <2>0, <2>1, <2>2 DEF File!TypeOK, File!NoLostSet, File!ReadsLatest
  <2>3. CASE ~(File!Unlock(w) /\ UNCHANGED mem)
    <3>1. /\ file # None /\ UNCHANGED lock
          /\ mem' = [x \in File!Workers |-> IF x \in File!Sharing(w) THEN file.data ELSE mem[x]]
          /\ job' = [job EXCEPT ![w].pc = "have"]
      BY <1>5, <2>3 DEF File!Reload, File!Go
    <3>2. file.data \in File!Data /\ file.data = last
      BY <3>1 DEF File!TypeOK, File!NoLostSet
    <3>3. w \in File!Sharing(w) /\ mem'[w] = last /\ mem' \in [File!Workers -> File!Data]
      BY <3>1, <3>2, <1>a DEF File!Sharing
    <3>4. /\ job' \in [File!Workers -> Jobs] /\ job'[w] = [job[w] EXCEPT !.pc = "have"]
          /\ \A x \in File!Workers \ {w} : job'[x] = job[x]
      BY <3>1, <1>a
    <3>5. ASSUME NEW x \in File!Workers PROVE File!JobSound(x)'
      <4>1. CASE x = w
        <5>1. /\ job'[w].pc = "have" /\ job'[w].op = job[w].op /\ job'[w].field = job[w].field
              /\ job'[w].value = job[w].value
          BY <3>4, <1>a
        <5> QED BY <2>0, <2>1, <3>1, <3>3, <4>1, <5>1 DEF File!JobSound
      <4>2. CASE x # w
        <5>1. job[x].pc # "have"
          BY <2>0, <4>2 DEF File!JobSound
        <5> QED BY <2>1, <3>1, <3>4, <4>2, <5>1, JobsStay
      <4> QED BY <4>1, <4>2
    <3> QED BY <2>1, <3>1, <3>3, <3>4, <3>5 DEF File!TypeOK, File!NoLostSet, File!ReadsLatest
  <2> QED BY <2>2, <2>3
<1>6. ASSUME NEW w \in File!Workers, File!Get(w) PROVE File!VaultInv'
  <2>1. lock = w /\ mem[w] = last /\ job[w].field \in Fields
    BY <1>6 DEF File!Get, File!JobSound
  <2>2. answer' = [got |-> last[job[w].field], want |-> last[job[w].field]] /\ last[job[w].field] \in Nat
    BY <1>6, <2>1, <1>a DEF File!Get, File!Data
  <2>3. answer' \in [got : Nat, want : Nat] /\ File!ReadsLatest'
    BY <2>2 DEF File!ReadsLatest
  <2>4. File!Unlock(w) /\ UNCHANGED <<file, salt, mem, last, sets, inits>>
    BY <1>6 DEF File!Get
  <2>5. File!NoLostSet'
    BY <2>4 DEF File!NoLostSet
  <2>6. /\ mem' \in [File!Workers -> File!Data] /\ last' \in File!Data
        /\ file' = None \/ file' \in [salt : 1 .. MaxInits, data : File!Data]
    BY <2>4, <1>a DEF File!TypeOK
  <2> QED BY <1>4, <2>1, <2>3, <2>4, <2>5, <2>6
<1>7. ASSUME NEW w \in File!Workers, File!Persist(w) PROVE File!VaultInv'
  <2> DEFINE d == [last EXCEPT ![job[w].field] = job[w].value]
  <2>1. lock = w /\ mem[w] = last /\ salt[w] \in 1 .. MaxInits /\ w \in File!Sharing(w)
    BY <1>7, <1>a, <1>0 DEF File!Persist, File!JobSound, File!Sharing
  <2>2. d \in File!Data
    BY <1>a DEF File!Data
  <2> HIDE DEF d
  <2>3. last' = d /\ mem' = [x \in File!Workers |-> IF x \in File!Sharing(w) THEN d ELSE mem[x]]
    BY <1>7, <2>1 DEF File!Persist, d
  <2>4. mem' \in [File!Workers -> File!Data] /\ mem'[w] = d
    BY <2>1, <2>2, <2>3, <1>a
  <2>5. file' = [salt |-> salt[w], data |-> d]
    BY <1>7, <2>4 DEF File!Persist
  <2>6. file' \in [salt : 1 .. MaxInits, data : File!Data] /\ File!NoLostSet'
    BY <2>1, <2>2, <2>3, <2>5 DEF File!NoLostSet
  <2>7. File!Unlock(w) /\ UNCHANGED <<salt, answer, sets, inits>>
    BY <1>7 DEF File!Persist
  <2>8. answer' \in [got : Nat, want : Nat] /\ File!ReadsLatest'
    BY <2>7 DEF File!TypeOK, File!ReadsLatest
  <2> QED BY <1>4, <2>1, <2>2, <2>3, <2>4, <2>6, <2>7, <2>8
<1>8. ASSUME NEW w \in File!Workers, File!PersistFails(w) PROVE File!VaultInv'
  <2>1. lock = w
    BY <1>8 DEF File!PersistFails, File!JobSound
  <2> QED BY <1>4, <1>8, <2>1 DEF File!PersistFails, File!TypeOK, File!NoLostSet, File!ReadsLatest
<1>9. ASSUME NEW w \in File!Workers, File!InitWrite(w) PROVE File!VaultInv'
  <2>1. lock = w /\ job[w].value \in 1 .. MaxInits
    BY <1>9 DEF File!InitWrite, File!JobSound
  <2>2. File!Empty \in File!Data
    BY DEF File!Empty, File!Data
  <2>3. /\ last' \in File!Data
        /\ file' = None \/ file' \in [salt : 1 .. MaxInits, data : File!Data]
        /\ file' # None => file'.data = last'
    BY <1>9, <2>1, <2>2, <1>a DEF File!InitWrite, File!TypeOK, File!NoLostSet
  <2> QED BY <1>4, <1>9, <2>1, <2>3 DEF File!InitWrite, File!TypeOK, File!NoLostSet, File!ReadsLatest
<1>10. ASSUME NEW w \in File!Workers, File!InitUnlink(w) PROVE File!VaultInv'
  <2>1. inits' \in 1 .. MaxInits /\ file' = None
    BY <1>10, <1>0 DEF File!InitUnlink
  <2> DEFINE j == [pc |-> "lock", op |-> "init", field |-> None, value |-> inits']
  <2>2. j \in Jobs /\ job' = [job EXCEPT ![w] = j]
    BY <1>10, <2>1 DEF File!InitUnlink
  <2>3. UNCHANGED <<lock, salt, mem, last, answer, sets>>
    BY <1>10 DEF File!InitUnlink
  <2>4. job' \in [File!Workers -> Jobs] /\ job'[w] = j /\ \A x \in File!Workers \ {w} : job'[x] = job[x]
    BY <2>2, <1>a
  <2>5. ASSUME NEW x \in File!Workers PROVE File!JobSound(x)'
    <3>1. CASE x = w
      BY <2>1, <2>3, <2>4, <3>1 DEF File!JobSound
    <3>2. CASE x # w
      BY <2>3, <2>4, <3>2, JobsStay
    <3> QED BY <3>1, <3>2
  <2> QED BY <2>1, <2>3, <2>4, <2>5 DEF File!TypeOK, File!NoLostSet, File!ReadsLatest
<1>11. ASSUME NEW w \in File!Workers, File!Crash(w) PROVE File!VaultInv'
  <2>1. UNCHANGED <<file, mem, last, answer, sets, inits>>
    BY <1>11 DEF File!Crash
  <2>2. salt' \in [File!Workers -> 0 .. MaxInits] /\ job' \in [File!Workers -> Jobs] /\ lock' \in File!Workers \cup {None}
    BY <1>11, <1>a, <1>0 DEF File!Crash, File!TypeOK
  <2>3. ASSUME NEW x \in File!Workers PROVE File!JobSound(x)'
    <3>1. CASE x \in File!Sharing(w)
      BY <1>11, <3>1 DEF File!Crash, File!JobSound, File!NoJob
    <3>2. CASE x \notin File!Sharing(w)
      BY <1>11, <3>2, <2>1, JobsStay DEF File!Crash
    <3> QED BY <3>1, <3>2
  <2> QED BY <2>1, <2>2, <2>3 DEF File!TypeOK, File!NoLostSet, File!ReadsLatest
<1>12. CASE UNCHANGED File!vars
  <2>1. UNCHANGED <<file, lock, salt, mem, job, last, answer, sets, inits>>
    BY <1>12 DEF File!vars
  <2>2. \A x \in File!Workers : File!JobSound(x)'
    BY <2>1, JobsStay
  <2> QED BY <2>1, <2>2 DEF File!TypeOK, File!NoLostSet, File!ReadsLatest
<1> QED BY <1>1, <1>2, <1>3, <1>5, <1>6, <1>7, <1>8, <1>9, <1>10, <1>11, <1>12 DEF File!Next, File!Step

\* No set of a field undoes that of another process and a read returns the last value that
\* anyone has set, through crashes and forced init-vaults that unlink the file without the
\* lock.
THEOREM VaultCurrentHolds == ASSUME File!VaultAssumption PROVE File!Spec => []File!VaultCurrent
<1>1. File!VaultInv => File!VaultCurrent
  BY DEF File!VaultInv
<1> QED BY <1>1, VaultInit, VaultNext, PTL DEF File!Spec

-----------------------------------------------------------------------------
(* The provider: what a step does to its connection *)

Fieldnames == {"pc", "id", "msg", "todo", "body", "reply", "taken", "cur"}

\* Set changes the fields it names, of its connection only.
LEMMA SetFields ==
  ASSUME conn \in [Conns -> Connection], NEW c \in Conns, NEW fields, Set(c, fields)
  PROVE  /\ DOMAIN conn' = Conns /\ DOMAIN conn'[c] = Fieldnames
         /\ conn' = [d \in Conns |-> conn'[d]]
         /\ conn'[c] = [f \in Fieldnames |-> conn'[c][f]]
         /\ \A d \in Conns \ {c} : conn'[d] = conn[d]
         /\ \A f \in Fieldnames : conn'[c][f] = IF f \in DOMAIN fields THEN fields[f] ELSE conn[c][f]
<1>1. conn[c] \in Connection /\ DOMAIN conn[c] = Fieldnames
  BY DEF Connection, Fieldnames
<1>2. conn' = [conn EXCEPT ![c] = [f \in DOMAIN conn[c] |-> IF f \in DOMAIN fields THEN fields[f] ELSE conn[c][f]]]
  BY DEF Set
<1> QED BY <1>1, <1>2

\* A record of the fields of a connection is one.
LEMMA ConnectionRecord ==
  ASSUME NEW x, x = [f \in Fieldnames |-> x[f]],
         x.pc \in Holds \cup {"idle", "queued", "replied"}, x.id \in Nat,
         x.msg \in [op : {"none", "invalid", "register", "unregister", "get_secrets", "get_secret",
                          "write_secret", "ping"},
                    es : Esecrets \cup {None}, name : Names \cup {None}, decl : SUBSET Entry, sp : BOOLEAN],
         x.todo \in SUBSET Entry, x.body \in SUBSET (Names \X Nat \X Tools), x.reply \in Replies,
         x.taken \in Nat, x.cur \in BOOLEAN
  PROVE  x \in Connection
  BY DEF Connection, Fieldnames

LEMMA AllowedTools == ASSUME SpsAssumption, NEW e \in Esecrets PROVE Allowed(e) \subseteq Tools
  BY DEF SpsAssumption, Allowed

\* The other connections stay sound while the registrations stay and nothing is forgotten.
LEMMA OthersStay ==
  ASSUME SpsAssumption, SpsInv, NEW d \in Conns, conn'[d] = conn[d], reg' = reg,
         calls' \in Nat, calls' >= calls, logged \subseteq logged',
         \A k \in Key : held[k] \subseteq held'[k]
  PROVE  CallerKnown(d)' /\ ValuesAllowed(d)' /\ RepliesTrue(d)'
<1>0. conn[d] \in Connection /\ CallerKnown(d) /\ ValuesAllowed(d) /\ RepliesTrue(d) /\ calls \in Nat
  BY DEF SpsInv, TypeOK
<1>1. CallerKnown(d)'
  BY <1>0 DEF CallerKnown, Current
<1>2. ASSUME NEW b \in conn[d].body PROVE <<b[3], b[1]>> \in Key
  BY <1>0, <1>2 DEF Connection, Key
<1>3. ValuesAllowed(d)'
  BY <1>0, <1>2 DEF ValuesAllowed, Allowed
<1>4. RepliesTrue(d)'
  <2>1. ASSUME conn[d].msg.op = "write_secret", conn[d].reply = "ok"
        PROVE  \E t \in Allowed(conn[d].msg.es) : conn[d].id \in held'[<<t, conn[d].msg.name>>]
    BY <1>0, <2>1, AllowedTools DEF RepliesTrue, CallerKnown, Key
  <2> QED BY <1>0, <2>1 DEF RepliesTrue, Allowed
<1> QED BY <1>1, <1>3, <1>4

-----------------------------------------------------------------------------
(* The permits of the semaphore *)

Holders == {c \in Conns : conn[c].pc \in Holds}

LEMMA HoldersFinite == ASSUME SpsAssumption PROVE IsFiniteSet(Holders) /\ Cardinality(Holders) \in Nat
<1>1. Holders \subseteq Conns /\ IsFiniteSet(Conns)
  BY DEF Holders, SpsAssumption
<1> QED BY <1>1, FS_Subset, FS_CardinalityType

\* A step that neither takes nor returns a permit.
LEMMA HoldersSame ==
  ASSUME SlotsConserved, NEW c \in Conns, slots' = slots, \A d \in Conns \ {c} : conn'[d] = conn[d],
         conn'[c].pc \in Holds <=> conn[c].pc \in Holds
  PROVE  SlotsConserved'
<1>1. {d \in Conns : conn'[d].pc \in Holds} = {d \in Conns : conn[d].pc \in Holds}
  OBVIOUS
<1> QED BY <1>1 DEF SlotsConserved

\* process_request takes a permit for the thread it starts.
LEMMA HoldersMore ==
  ASSUME SpsAssumption, SlotsConserved, slots \in 0 .. MaxWorkers, NEW c \in Conns, slots > 0, slots' = slots - 1,
         \A d \in Conns \ {c} : conn'[d] = conn[d], conn[c].pc \notin Holds, conn'[c].pc \in Holds
  PROVE  SlotsConserved' /\ slots' \in 0 .. MaxWorkers
<1>1. Holders' = Holders \cup {c} /\ c \notin Holders
  BY DEF Holders
<1>2. Cardinality(Holders \cup {c}) = Cardinality(Holders) + 1
  BY <1>1, HoldersFinite, FS_AddElement
<1>3. slots + Cardinality(Holders) = MaxWorkers /\ Cardinality(Holders) \in Nat /\ MaxWorkers \in Nat
  BY HoldersFinite DEF SlotsConserved, Holders, SpsAssumption
<1>4. slots' + Cardinality(Holders') = MaxWorkers
  BY <1>1, <1>2, <1>3
<1>5. SlotsConserved'
  BY <1>4 DEF SlotsConserved, Holders
<1> QED BY <1>3, <1>5

\* process_request_thread gives it back.
LEMMA HoldersLess ==
  ASSUME SpsAssumption, SlotsConserved, slots \in 0 .. MaxWorkers, NEW c \in Conns, slots' = slots + 1,
         \A d \in Conns \ {c} : conn'[d] = conn[d], conn[c].pc \in Holds, conn'[c].pc \notin Holds
  PROVE  SlotsConserved' /\ slots' \in 0 .. MaxWorkers
<1>1. Holders' = Holders \ {c} /\ c \in Holders
  BY DEF Holders
<1>2. Cardinality(Holders \ {c}) = Cardinality(Holders) - 1
  BY <1>1, HoldersFinite, FS_RemoveElement
<1>3. slots + Cardinality(Holders) = MaxWorkers /\ Cardinality(Holders) \in Nat /\ MaxWorkers \in Nat
  BY HoldersFinite DEF SlotsConserved, Holders, SpsAssumption
<1>4. Cardinality(Holders) # 0
  BY <1>1, HoldersFinite, FS_EmptySet
<1>5. slots' + Cardinality(Holders') = MaxWorkers
  BY <1>1, <1>2, <1>3
<1>6. SlotsConserved'
  BY <1>5 DEF SlotsConserved, Holders
<1> QED BY <1>3, <1>4, <1>6

-----------------------------------------------------------------------------
(* Its invariant, step by step *)

\* A step of one connection that leaves the registrations alone.
LEMMA StepKeeps ==
  ASSUME SpsAssumption, SpsInv, NEW c \in Conns,
         conn' = [d \in Conns |-> conn'[d]], \A d \in Conns \ {c} : conn'[d] = conn[d],
         conn'[c] \in Connection, reg' = reg,
         calls' \in Nat, calls' >= calls, logged \subseteq logged', logged' \subseteq 1 .. calls',
         backend' \in [Key -> Nat], held' \in [Key -> SUBSET Nat],
         \A k \in Key : held[k] \subseteq held'[k] /\ backend'[k] \in held'[k],
         {rejects', summed', happened', faults'} \subseteq Nat,
         cache' \in [Esecrets -> [Names -> Nat \cup {None}]], CacheReal',
         slots' \in 0 .. MaxWorkers, SlotsConserved',
         CallerKnown(c)', ValuesAllowed(c)', RepliesTrue(c)'
  PROVE  SpsInv'
<1>1. conn' \in [Conns -> Connection]
  BY DEF SpsInv
<1>2. \A d \in Conns : CallerKnown(d)' /\ ValuesAllowed(d)' /\ RepliesTrue(d)'
  BY OthersStay
<1>3. \A d \in Conns : conn'[d].pc \in Holds \cup {"idle", "queued", "replied"} /\ conn'[d].reply \in Replies
  BY <1>1 DEF Connection
<1>4. TypeOK'
  BY <1>3 DEF TypeOK, SpsInv
<1> QED BY <1>1, <1>2, <1>4 DEF SpsInv

\* A step that reads or writes no secret and moves no permit.
LEMMA QuietStep ==
  ASSUME SpsAssumption, SpsInv, NEW c \in Conns,
         conn' = [d \in Conns |-> conn'[d]], \A d \in Conns \ {c} : conn'[d] = conn[d],
         conn'[c] \in Connection, UNCHANGED <<reg, backend, held, slots, cache, calls>>,
         logged \subseteq logged', logged' \subseteq 1 .. calls,
         {rejects', summed', happened', faults'} \subseteq Nat,
         conn'[c].pc \in Holds <=> conn[c].pc \in Holds,
         CallerKnown(c)', ValuesAllowed(c)', RepliesTrue(c)'
  PROVE  SpsInv'
<1>1. SlotsConserved'
  BY HoldersSame DEF SpsInv
<1>2. CacheReal'
  BY DEF SpsInv, CacheReal
<1>3. /\ calls' \in Nat /\ calls' >= calls /\ logged' \subseteq 1 .. calls' /\ slots' \in 0 .. MaxWorkers
      /\ backend' \in [Key -> Nat] /\ held' \in [Key -> SUBSET Nat]
      /\ cache' \in [Esecrets -> [Names -> Nat \cup {None}]]
  BY DEF SpsInv, TypeOK
<1>4. \A k \in Key : held[k] \subseteq held'[k] /\ backend'[k] \in held'[k]
  BY DEF SpsInv
<1> QED BY <1>1, <1>2, <1>3, <1>4, StepKeeps

\* What is true of a connection stays true while it only goes on to its next place.
LEMMA PlaceMoves ==
  ASSUME SpsAssumption, SpsInv, NEW c \in Conns,
         conn' = [d \in Conns |-> conn'[d]], \A d \in Conns \ {c} : conn'[d] = conn[d],
         conn'[c] = [f \in Fieldnames |-> conn'[c][f]],
         \A f \in Fieldnames \ {"pc", "taken"} : conn'[c][f] = conn[c][f],
         conn'[c].taken \in Nat,
         \/ conn[c].pc \in Unread \ {"idle"} /\ conn'[c].pc \in Unread \ {"idle"}
         \/ conn[c].pc \in Answered /\ conn'[c].pc \in Answered,
         UNCHANGED <<reg, held, logged, calls>>
  PROVE  conn'[c] \in Connection /\ CallerKnown(c)' /\ ValuesAllowed(c)' /\ RepliesTrue(c)'
<1>0. conn[c] \in Connection /\ CallerKnown(c) /\ ValuesAllowed(c) /\ RepliesTrue(c)
  BY DEF SpsInv
<1>1. /\ conn'[c].id = conn[c].id /\ conn'[c].msg = conn[c].msg /\ conn'[c].todo = conn[c].todo
      /\ conn'[c].body = conn[c].body /\ conn'[c].reply = conn[c].reply /\ conn'[c].cur = conn[c].cur
  BY DEF Fieldnames
<1>2. conn'[c].pc \in Holds \cup {"idle", "queued", "replied"}
  BY DEF Unread, Answered, Holds
<1>3. conn'[c] \in Connection
  BY <1>0, <1>1, <1>2, ConnectionRecord, SMTT(60) DEF Connection
<1>4. CallerKnown(c)'
  BY <1>0, <1>1, SMTT(60) DEF CallerKnown, Current, Unread, Answered
<1>5. ValuesAllowed(c)'
  BY <1>0, <1>1, SMTT(60) DEF ValuesAllowed, Allowed
<1>6. RepliesTrue(c)'
  BY <1>0, <1>1 DEF RepliesTrue, Allowed, Unread, Answered
<1> QED BY <1>3, <1>4, <1>5, <1>6

\* A request that ends without a success and without values.
LEMMA Refused ==
  ASSUME SpsAssumption, SpsInv, NEW c \in Conns,
         conn'[c] = [f \in Fieldnames |-> conn'[c][f]], conn[c].pc # "idle",
         conn'[c].id = conn[c].id, conn'[c].cur = conn[c].cur, conn'[c].taken \in Nat,
         conn'[c].msg = conn[c].msg \/ conn'[c].msg = [conn[c].msg EXCEPT !.op = "invalid"],
         conn'[c].body = {}, conn'[c].todo \subseteq conn[c].todo,
         conn'[c].reply \in Replies \ {"ok", "none"}, conn'[c].pc \in {"audit"} \cup Answered,
         UNCHANGED <<reg, calls>>
  PROVE  conn'[c] \in Connection /\ CallerKnown(c)' /\ ValuesAllowed(c)' /\ RepliesTrue(c)'
<1>0. conn[c] \in Connection /\ CallerKnown(c) /\ ValuesAllowed(c) /\ RepliesTrue(c)
  BY DEF SpsInv
<1>1. /\ conn'[c].msg.es = conn[c].msg.es /\ conn'[c].msg.name = conn[c].msg.name
      /\ conn'[c].msg.op \in {conn[c].msg.op, "invalid"}
      /\ conn'[c].msg \in [op : {"none", "invalid", "register", "unregister", "get_secrets", "get_secret",
                                 "write_secret", "ping"},
                           es : Esecrets \cup {None}, name : Names \cup {None}, decl : SUBSET Entry, sp : BOOLEAN]
  BY <1>0 DEF Connection
<1>2. conn'[c].pc \in Holds \cup {"idle", "queued", "replied"} /\ conn'[c].pc \notin Unread
  BY DEF Unread, Answered, Holds
<1>3. conn'[c] \in Connection
  BY <1>0, <1>1, <1>2, ConnectionRecord DEF Connection
<1>4. CallerKnown(c)'
  BY <1>0, <1>1, SMTT(60) DEF CallerKnown, Current
<1>5. ValuesAllowed(c)'
  BY <1>0, <1>1 DEF ValuesAllowed, Allowed
<1>6. RepliesTrue(c)'
  BY <1>1, <1>2 DEF RepliesTrue, Answered
<1> QED BY <1>3, <1>4, <1>5, <1>6

LEMMA CountsType == ASSUME SpsInv PROVE {rejects, summed, happened, calls, faults} \subseteq Nat /\ logged \subseteq 1 .. calls
  BY DEF SpsInv, TypeOK

\* The steps of the server that read no secret.
LEMMA QuietNext ==
  ASSUME SpsAssumption, SpsInv, NEW c \in Conns,
         NoThread(c) \/ FlushTake(c) \/ FlushWrite(c) \/ Read(c) \/ Reply(c)
  PROVE  SpsInv'
<1>0. /\ conn \in [Conns -> Connection] /\ conn[c] \in Connection
      /\ CallerKnown(c) /\ ValuesAllowed(c) /\ RepliesTrue(c)
  BY DEF SpsInv
<1>a. rejects \in Nat /\ summed \in Nat /\ happened \in Nat /\ calls \in Nat /\ faults \in Nat /\ logged \subseteq 1 .. calls
  BY CountsType
<1>1. CASE NoThread(c)
  <2>1. /\ conn[c].pc = "queued" /\ Set(c, [pc |-> "replied", reply |-> "closed"]) /\ faults' = faults + 1
        /\ UNCHANGED <<reg, backend, held, slots, counts, logged, cache, calls>>
    BY <1>1 DEF NoThread, Fault
  <2>2. /\ conn' = [d \in Conns |-> conn'[d]] /\ conn'[c] = [f \in Fieldnames |-> conn'[c][f]]
        /\ \A d \in Conns \ {c} : conn'[d] = conn[d]
        /\ conn'[c].pc = "replied" /\ conn'[c].reply = "closed" /\ conn'[c].id = conn[c].id
        /\ conn'[c].cur = conn[c].cur /\ conn'[c].taken = conn[c].taken /\ conn'[c].msg = conn[c].msg
        /\ conn'[c].body = conn[c].body /\ conn'[c].todo = conn[c].todo
    BY <1>0, <2>1, SetFields DEF Fieldnames
  <2>3. conn[c].body = {} /\ conn[c].taken \in Nat
    BY <1>0, <2>1 DEF RepliesTrue, Unread, Connection
  <2>4. conn'[c] \in Connection /\ CallerKnown(c)' /\ ValuesAllowed(c)' /\ RepliesTrue(c)'
    BY <2>1, <2>2, <2>3, Refused DEF Replies, Answered
  <2>5. conn[c].pc \notin Holds /\ conn'[c].pc \notin Holds
    BY <2>1, <2>2 DEF Holds
  <2>6. {rejects', summed', happened', faults'} \subseteq Nat /\ logged' = logged
    BY <1>a, <2>1 DEF counts
  <2> QED BY <1>a, <2>1, <2>2, <2>4, <2>5, <2>6, QuietStep
<1>2. CASE FlushTake(c) \/ FlushWrite(c) \/ Reply(c)
  <2>1. PICK fields : /\ Set(c, fields) /\ DOMAIN fields \subseteq {"pc", "taken"}
                      /\ "pc" \in DOMAIN fields /\ ("taken" \in DOMAIN fields => fields["taken"] \in Nat)
                      /\ \/ conn[c].pc \in {"enter", "enter_flush"} /\ fields["pc"] \in {"enter_flush", "read"}
                         \/ conn[c].pc \in {"reply", "leave", "leave_flush"} /\ fields["pc"] \in {"leave", "leave_flush", "release"}
    <3>1. CASE FlushTake(c)
      BY <1>a, <3>1 DEF FlushTake, FlushPcs, Flushing, After
    <3>2. CASE FlushWrite(c)
      BY <3>2 DEF FlushWrite
    <3>3. CASE Reply(c)
      BY <3>3 DEF Reply
    <3> QED BY <1>2, <3>1, <3>2, <3>3
  <2>2. /\ conn' = [d \in Conns |-> conn'[d]] /\ conn'[c] = [f \in Fieldnames |-> conn'[c][f]]
        /\ \A d \in Conns \ {c} : conn'[d] = conn[d]
        /\ \A f \in Fieldnames \ {"pc", "taken"} : conn'[c][f] = conn[c][f]
        /\ conn'[c].pc = fields["pc"] /\ conn'[c].taken \in Nat
    BY <1>0, <2>1, SetFields DEF Fieldnames, Connection
  <2>3. UNCHANGED <<reg, backend, held, slots, cache, calls, logged>>
    BY <1>2 DEF FlushTake, FlushWrite, Reply
  <2>4. {rejects', summed', happened', faults'} \subseteq Nat
    BY <1>0, <1>a, <1>2 DEF FlushTake, FlushWrite, Reply, counts, Fault, Connection
  <2>5. conn'[c] \in Connection /\ CallerKnown(c)' /\ ValuesAllowed(c)' /\ RepliesTrue(c)'
    BY <2>1, <2>2, <2>3, PlaceMoves DEF Unread, Answered
  <2>6. conn[c].pc \in Holds /\ conn'[c].pc \in Holds
    BY <2>1, <2>2 DEF Holds
  <2> QED BY <1>a, <2>2, <2>3, <2>4, <2>5, <2>6, QuietStep
<1>3. CASE Read(c)
  <2>1. conn[c].pc = "read" /\ UNCHANGED <<reg, backend, held, slots, logged, cache, calls>>
    BY <1>3 DEF Read
  <2>2. conn[c].body = {} /\ conn[c].todo = {} /\ conn[c].taken \in Nat
    BY <1>0, <2>1 DEF RepliesTrue, Unread, Connection
  <2>3. {rejects', summed', happened', faults'} \subseteq Nat
    <3>1. (UNCHANGED <<rejects, summed, happened>> \/ Reject) /\ (UNCHANGED faults \/ Fault)
      BY <1>3, Zenon DEF Read, counts
    <3> QED BY <1>a, <3>1 DEF Reject, Fault
  <2>4. CASE Set(c, [pc |-> "dispatch"])
    <3>1. /\ conn' = [d \in Conns |-> conn'[d]] /\ conn'[c] = [f \in Fieldnames |-> conn'[c][f]]
          /\ \A d \in Conns \ {c} : conn'[d] = conn[d]
          /\ \A f \in Fieldnames \ {"pc", "taken"} : conn'[c][f] = conn[c][f]
          /\ conn'[c].pc = "dispatch" /\ conn'[c].taken \in Nat
      BY <1>0, <2>4, SetFields DEF Fieldnames, Connection
    <3>2. conn'[c] \in Connection /\ CallerKnown(c)' /\ ValuesAllowed(c)' /\ RepliesTrue(c)'
      BY <2>1, <3>1, PlaceMoves DEF Unread
    <3>3. conn[c].pc \in Holds /\ conn'[c].pc \in Holds
      BY <2>1, <3>1 DEF Holds
    <3> QED BY <1>a, <2>1, <2>3, <3>1, <3>2, <3>3, QuietStep
  <2>5. CASE Set(c, [pc |-> "leave", reply |-> "closed"])
    <3>1. /\ conn' = [d \in Conns |-> conn'[d]] /\ conn'[c] = [f \in Fieldnames |-> conn'[c][f]]
          /\ \A d \in Conns \ {c} : conn'[d] = conn[d]
          /\ conn'[c].pc = "leave" /\ conn'[c].reply = "closed" /\ conn'[c].id = conn[c].id
          /\ conn'[c].cur = conn[c].cur /\ conn'[c].taken = conn[c].taken /\ conn'[c].msg = conn[c].msg
          /\ conn'[c].body = {} /\ conn'[c].todo = {}
      BY <1>0, <2>2, <2>5, SetFields DEF Fieldnames
    <3>2. conn'[c] \in Connection /\ CallerKnown(c)' /\ ValuesAllowed(c)' /\ RepliesTrue(c)'
      BY <2>1, <2>2, <3>1, Refused DEF Replies, Answered
    <3>3. conn[c].pc \in Holds /\ conn'[c].pc \in Holds
      BY <2>1, <3>1 DEF Holds
    <3> QED BY <1>a, <2>1, <2>3, <3>1, <3>2, <3>3, QuietStep
  <2>6. CASE Set(c, [pc |-> "audit", reply |-> "Bad request", msg |-> [conn[c].msg EXCEPT !.op = "invalid"]])
    <3>1. /\ conn' = [d \in Conns |-> conn'[d]] /\ conn'[c] = [f \in Fieldnames |-> conn'[c][f]]
          /\ \A d \in Conns \ {c} : conn'[d] = conn[d]
          /\ conn'[c].pc = "audit" /\ conn'[c].reply = "Bad request" /\ conn'[c].id = conn[c].id
          /\ conn'[c].cur = conn[c].cur /\ conn'[c].taken = conn[c].taken
          /\ conn'[c].msg = [conn[c].msg EXCEPT !.op = "invalid"]
          /\ conn'[c].body = {} /\ conn'[c].todo = {}
      <4>1. PICK m : m = [conn[c].msg EXCEPT !.op = "invalid"]
        OBVIOUS
      <4>2. Set(c, [pc |-> "audit", reply |-> "Bad request", msg |-> m])
        BY <2>6, <4>1
      <4>3. /\ conn' = [d \in Conns |-> conn'[d]] /\ conn'[c] = [f \in Fieldnames |-> conn'[c][f]]
            /\ \A d \in Conns \ {c} : conn'[d] = conn[d]
        BY <1>0, <4>2, SetFields
      <4>4. /\ conn'[c].pc = "audit" /\ conn'[c].reply = "Bad request" /\ conn'[c].id = conn[c].id
            /\ conn'[c].cur = conn[c].cur /\ conn'[c].taken = conn[c].taken /\ conn'[c].msg = m
            /\ conn'[c].body = conn[c].body /\ conn'[c].todo = conn[c].todo
        <5>1. PICK fields : fields = [pc |-> "audit", reply |-> "Bad request", msg |-> m]
          OBVIOUS
        <5>2. /\ DOMAIN fields = {"pc", "reply", "msg"} /\ fields["pc"] = "audit"
              /\ fields["reply"] = "Bad request" /\ fields["msg"] = m
          BY <5>1
        <5>3. \A f \in Fieldnames : conn'[c][f] = IF f \in DOMAIN fields THEN fields[f] ELSE conn[c][f]
          BY <1>0, <4>2, <5>1, SetFields
        <5> QED BY <5>2, <5>3 DEF Fieldnames
      <4> QED BY <2>2, <4>1, <4>3, <4>4
    <3>2. conn'[c] \in Connection /\ CallerKnown(c)' /\ ValuesAllowed(c)' /\ RepliesTrue(c)'
      BY <2>1, <2>2, <3>1, Refused DEF Replies, Answered
    <3>3. conn[c].pc \in Holds /\ conn'[c].pc \in Holds
      BY <2>1, <3>1 DEF Holds
    <3> QED BY <1>a, <2>1, <2>3, <3>1, <3>2, <3>3, QuietStep
  <2> QED BY <1>3, <2>4, <2>5, <2>6 DEF Read
<1> QED BY <1>1, <1>2, <1>3

\* Admission, and the end of a worker.
LEMMA PermitNext ==
  ASSUME SpsAssumption, SpsInv, NEW c \in Conns, Admit(c) \/ Release(c)
  PROVE  SpsInv'
<1>0. /\ conn \in [Conns -> Connection] /\ conn[c] \in Connection /\ SlotsConserved /\ CacheReal
      /\ CallerKnown(c) /\ ValuesAllowed(c) /\ RepliesTrue(c)
  BY DEF SpsInv
<1>a. /\ rejects \in Nat /\ summed \in Nat /\ happened \in Nat /\ calls \in Nat /\ faults \in Nat
      /\ logged \subseteq 1 .. calls /\ slots \in 0 .. MaxWorkers
  BY CountsType DEF SpsInv, TypeOK
<1>b. /\ conn[c].pc \in {"queued", "release"}
      /\ UNCHANGED <<reg, backend, held, cache, calls, faults, logged>>
  BY DEF Admit, Release
<1>c. /\ backend' \in [Key -> Nat] /\ held' \in [Key -> SUBSET Nat]
      /\ cache' \in [Esecrets -> [Names -> Nat \cup {None}]] /\ CacheReal'
      /\ \A k \in Key : held[k] \subseteq held'[k] /\ backend'[k] \in held'[k]
  BY <1>0, <1>b DEF SpsInv, TypeOK, CacheReal
<1>d. calls' \in Nat /\ calls' >= calls /\ logged \subseteq logged' /\ logged' \subseteq 1 .. calls'
  BY <1>a, <1>b
<1>e. {rejects', summed', happened', faults'} \subseteq Nat
  <2>1. (UNCHANGED <<rejects, summed, happened>> \/ Reject) /\ UNCHANGED faults
    BY Zenon DEF Admit, Release, counts
  <2> QED BY <1>a, <2>1 DEF Reject
<1>1. CASE conn[c].pc = "queued" /\ slots > 0 /\ slots' = slots - 1 /\ Set(c, [pc |-> "enter"])
  <2>1. /\ conn' = [d \in Conns |-> conn'[d]] /\ conn'[c] = [f \in Fieldnames |-> conn'[c][f]]
        /\ \A d \in Conns \ {c} : conn'[d] = conn[d]
        /\ \A f \in Fieldnames \ {"pc", "taken"} : conn'[c][f] = conn[c][f]
        /\ conn'[c].pc = "enter" /\ conn'[c].taken \in Nat
    BY <1>0, <1>1, SetFields DEF Fieldnames, Connection
  <2>2. conn'[c] \in Connection /\ CallerKnown(c)' /\ ValuesAllowed(c)' /\ RepliesTrue(c)'
    BY <1>1, <1>b, <2>1, PlaceMoves DEF Unread
  <2>3. conn[c].pc \notin Holds /\ conn'[c].pc \in Holds
    BY <1>1, <2>1 DEF Holds
  <2>4. SlotsConserved' /\ slots' \in 0 .. MaxWorkers
    BY <1>0, <1>a, <1>1, <2>1, <2>3, HoldersMore
  <2> QED BY <1>b, <1>c, <1>d, <1>e, <2>1, <2>2, <2>4, StepKeeps
<1>2. CASE conn[c].pc = "queued" /\ UNCHANGED slots /\ Set(c, [pc |-> "replied", reply |-> "closed"])
  <2>1. /\ conn' = [d \in Conns |-> conn'[d]] /\ conn'[c] = [f \in Fieldnames |-> conn'[c][f]]
        /\ \A d \in Conns \ {c} : conn'[d] = conn[d]
        /\ conn'[c].pc = "replied" /\ conn'[c].reply = "closed" /\ conn'[c].id = conn[c].id
        /\ conn'[c].cur = conn[c].cur /\ conn'[c].taken = conn[c].taken /\ conn'[c].msg = conn[c].msg
        /\ conn'[c].body = conn[c].body /\ conn'[c].todo = conn[c].todo
    BY <1>0, <1>2, SetFields DEF Fieldnames
  <2>2. conn[c].body = {} /\ conn[c].taken \in Nat
    BY <1>0, <1>2 DEF RepliesTrue, Unread, Connection
  <2>3. conn'[c] \in Connection /\ CallerKnown(c)' /\ ValuesAllowed(c)' /\ RepliesTrue(c)'
    BY <1>2, <1>b, <2>1, <2>2, Refused DEF Replies, Answered
  <2>4. conn[c].pc \notin Holds /\ conn'[c].pc \notin Holds
    BY <1>2, <2>1 DEF Holds
  <2>5. logged' \subseteq 1 .. calls /\ UNCHANGED <<reg, backend, held, slots, cache, calls>>
    BY <1>a, <1>b, <1>2
  <2> QED BY <1>d, <1>e, <2>1, <2>3, <2>4, <2>5, QuietStep
<1>3. CASE Release(c)
  <2>1. conn[c].pc = "release" /\ slots' = slots + 1 /\ Set(c, [pc |-> "replied"])
    BY <1>3 DEF Release
  <2>2. /\ conn' = [d \in Conns |-> conn'[d]] /\ conn'[c] = [f \in Fieldnames |-> conn'[c][f]]
        /\ \A d \in Conns \ {c} : conn'[d] = conn[d]
        /\ \A f \in Fieldnames \ {"pc", "taken"} : conn'[c][f] = conn[c][f]
        /\ conn'[c].pc = "replied" /\ conn'[c].taken \in Nat
    BY <1>0, <2>1, SetFields DEF Fieldnames, Connection
  <2>3. conn'[c] \in Connection /\ CallerKnown(c)' /\ ValuesAllowed(c)' /\ RepliesTrue(c)'
    BY <1>b, <2>1, <2>2, PlaceMoves DEF Answered
  <2>4. conn[c].pc \in Holds /\ conn'[c].pc \notin Holds
    BY <2>1, <2>2 DEF Holds
  <2>5. SlotsConserved' /\ slots' \in 0 .. MaxWorkers
    BY <1>0, <1>a, <2>1, <2>2, <2>4, HoldersLess
  <2> QED BY <1>b, <1>c, <1>d, <1>e, <2>2, <2>3, <2>5, StepKeeps
<1> QED BY <1>1, <1>2, <1>3 DEF Admit

\* The answer is logged before it leaves; a log that cannot be written takes it back.
LEMMA AuditNext ==
  ASSUME SpsAssumption, SpsInv, NEW c \in Conns, Audit(c)
  PROVE  SpsInv'
<1>0. /\ conn \in [Conns -> Connection] /\ conn[c] \in Connection
      /\ CallerKnown(c) /\ ValuesAllowed(c) /\ RepliesTrue(c)
  BY DEF SpsInv
<1>a. /\ rejects \in Nat /\ summed \in Nat /\ happened \in Nat /\ calls \in Nat /\ faults \in Nat
      /\ logged \subseteq 1 .. calls
  BY CountsType
<1>b. conn[c].pc = "audit" /\ UNCHANGED <<reg, backend, held, slots, cache, calls>>
  BY DEF Audit
<1>c. {rejects', summed', happened', faults'} \subseteq Nat
  <2>1. (UNCHANGED <<rejects, summed, happened>> \/ Reject) /\ (UNCHANGED faults \/ Fault)
    BY Zenon DEF Audit, counts
  <2> QED BY <1>a, <2>1 DEF Reject, Fault
<1>d. conn[c].id \in 1 .. calls /\ conn[c].taken \in Nat
  BY <1>0, <1>b DEF CallerKnown, Connection
<1>1. CASE Set(c, [pc |-> "reply"])
  <2>1. /\ conn' = [d \in Conns |-> conn'[d]] /\ conn'[c] = [f \in Fieldnames |-> conn'[c][f]]
        /\ \A d \in Conns \ {c} : conn'[d] = conn[d]
    BY <1>0, <1>1, SetFields
  <2>2. /\ conn'[c].id = conn[c].id /\ conn'[c].msg = conn[c].msg /\ conn'[c].todo = conn[c].todo
        /\ conn'[c].body = conn[c].body /\ conn'[c].reply = conn[c].reply /\ conn'[c].cur = conn[c].cur
        /\ conn'[c].pc = "reply" /\ conn'[c].taken = conn[c].taken
    <3>1. PICK fields : fields = [pc |-> "reply"]
      OBVIOUS
    <3>2. DOMAIN fields = {"pc"} /\ fields["pc"] = "reply"
      BY <3>1
    <3>3. \A f \in Fieldnames : conn'[c][f] = IF f \in DOMAIN fields THEN fields[f] ELSE conn[c][f]
      BY <1>0, <1>1, <3>1, SetFields
    <3> QED BY <3>2, <3>3 DEF Fieldnames
  <2>3. conn'[c] \in Connection
    BY <1>0, <2>1, <2>2, ConnectionRecord DEF Connection, Holds
  <2>4. /\ logged' = logged \cup {conn[c].id} \/ logged' = logged
        /\ conn[c].id \in logged' \/ conn[c].msg.op \in {"ping", "invalid"} \/ conn[c].reply # "ok"
    <3>1. CASE conn[c].msg.op \in {"ping", "invalid"} \/ conn[c].reply \in {"Bad request", "Unauthorized"}
      BY <3>1 DEF Audit
    <3>2. CASE ~(conn[c].msg.op \in {"ping", "invalid"} \/ conn[c].reply \in {"Bad request", "Unauthorized"})
      <4>1. ~Set(c, [pc |-> "reply", reply |-> "Backend error", body |-> {}]) => logged' = logged \cup {conn[c].id}
        BY <3>2 DEF Audit
      <4>2. ASSUME Set(c, [pc |-> "reply", reply |-> "Backend error", body |-> {}])
            PROVE  conn[c].reply = "Backend error"
        <5>1. PICK fields : fields = [pc |-> "reply", reply |-> "Backend error", body |-> {}]
          OBVIOUS
        <5>2. DOMAIN fields = {"pc", "reply", "body"} /\ fields["reply"] = "Backend error"
          BY <5>1
        <5>3. \A f \in Fieldnames : conn'[c][f] = IF f \in DOMAIN fields THEN fields[f] ELSE conn[c][f]
          BY <1>0, <4>2, <5>1, SetFields, ZenonT(60)
        <5>4. conn'[c].reply = "Backend error"
          BY <5>2, <5>3 DEF Fieldnames
        <5> QED BY <2>2, <5>4
      <4> QED BY <4>1, <4>2, <3>2 DEF Audit
    <3> QED BY <3>1, <3>2
  <2>5. CallerKnown(c)'
    BY <1>0, <1>b, <2>2 DEF CallerKnown, Current
  <2>6. ValuesAllowed(c)'
    BY <1>0, <1>b, <2>2 DEF ValuesAllowed, Allowed
  <2>7. RepliesTrue(c)'
    BY <1>0, <1>b, <2>2, <2>4 DEF RepliesTrue, Allowed, Unread, Answered
  <2>8. conn[c].pc \in Holds /\ conn'[c].pc \in Holds
    BY <1>b, <2>2 DEF Holds
  <2>9. logged \subseteq logged' /\ logged' \subseteq 1 .. calls
    BY <1>a, <1>d, <2>4
  <2> QED BY <1>b, <1>c, <2>1, <2>3, <2>5, <2>6, <2>7, <2>8, <2>9, QuietStep
<1>2. CASE Set(c, [pc |-> "reply", reply |-> "Backend error", body |-> {}]) /\ UNCHANGED logged
  <2>1. /\ conn' = [d \in Conns |-> conn'[d]] /\ conn'[c] = [f \in Fieldnames |-> conn'[c][f]]
        /\ \A d \in Conns \ {c} : conn'[d] = conn[d]
    BY <1>0, <1>2, SetFields
  <2>2. PICK fields : fields = [pc |-> "reply", reply |-> "Backend error", body |-> {}]
    OBVIOUS
  <2>3. /\ DOMAIN fields = {"pc", "reply", "body"} /\ fields["pc"] = "reply"
        /\ fields["reply"] = "Backend error" /\ fields["body"] = {}
    BY <2>2
  <2>4. \A f \in Fieldnames : conn'[c][f] = IF f \in DOMAIN fields THEN fields[f] ELSE conn[c][f]
    BY <1>0, <1>2, <2>2, SetFields, ZenonT(60)
  <2>5. /\ conn'[c].id = conn[c].id /\ conn'[c].msg = conn[c].msg /\ conn'[c].todo = conn[c].todo
        /\ conn'[c].body = {} /\ conn'[c].reply = "Backend error" /\ conn'[c].cur = conn[c].cur
        /\ conn'[c].pc = "reply" /\ conn'[c].taken = conn[c].taken
    BY <2>3, <2>4 DEF Fieldnames
  <2>6. conn'[c] \in Connection /\ CallerKnown(c)' /\ ValuesAllowed(c)' /\ RepliesTrue(c)'
    BY <1>b, <1>d, <2>1, <2>5, Refused DEF Replies, Answered
  <2>7. conn[c].pc \in Holds /\ conn'[c].pc \in Holds
    BY <1>b, <2>5 DEF Holds
  <2>8. logged \subseteq logged' /\ logged' \subseteq 1 .. calls
    BY <1>a, <1>2
  <2> QED BY <1>b, <1>c, <2>1, <2>6, <2>7, <2>8, QuietStep
<1> QED BY <1>1, <1>2 DEF Audit

\* A request reads the registration once, and goes to the backend only for what that allows.
LEMMA DispatchToolNext ==
  ASSUME SpsAssumption, SpsInv, NEW c \in Conns, DispatchTool(c)
  PROVE  SpsInv'
<1> DEFINE m == conn[c].msg
           entries == IF m.op = "ping" THEN {} ELSE reg[ToolOf[m.es]].entries
           match == {a \in entries : m.op = "get_secrets" \/ a.name = m.name}
<1>0. /\ conn \in [Conns -> Connection] /\ conn[c] \in Connection
      /\ CallerKnown(c) /\ ValuesAllowed(c) /\ RepliesTrue(c)
  BY DEF SpsInv
<1>a. /\ {rejects, summed, happened, faults} \subseteq Nat /\ logged \subseteq 1 .. calls
  BY CountsType, SMTT(60)
<1>b. /\ conn[c].pc = "dispatch" /\ m.op \in {"ping", "get_secrets", "get_secret", "write_secret"}
      /\ UNCHANGED <<reg, backend, held, slots, rejects, summed, happened, logged, cache, calls, faults>>
  BY DEF DispatchTool, counts
<1>c. conn[c].body = {} /\ conn[c].todo = {} /\ conn[c].reply = "none" /\ conn[c].taken \in Nat
  BY <1>0, <1>b DEF RepliesTrue, Unread, Connection
<1>d. {rejects', summed', happened', faults'} \subseteq Nat /\ logged \subseteq logged' /\ logged' \subseteq 1 .. calls
  BY <1>a, <1>b, SMTT(60)
<1>1. \/ m.op = "ping" /\ Set(c, [pc |-> "audit", reply |-> "ok"])
      \/ \E r \in {"Unauthorized", "Not found", "Not writable"} : Set(c, [pc |-> "audit", reply |-> r])
      \/ m.op # "ping" /\ Authorized(m) /\ Set(c, [pc |-> "backend", todo |-> match])
  BY <1>b DEF DispatchTool
<1>2. ASSUME NEW r \in {"ok", "Unauthorized", "Not found", "Not writable"}, r = "ok" => m.op = "ping",
             Set(c, [pc |-> "audit", reply |-> r])
      PROVE  SpsInv'
  <2>1. /\ conn' = [d \in Conns |-> conn'[d]] /\ conn'[c] = [f \in Fieldnames |-> conn'[c][f]]
        /\ \A d \in Conns \ {c} : conn'[d] = conn[d]
    BY <1>0, <1>2, SetFields
  <2>2. PICK fields : fields = [pc |-> "audit", reply |-> r]
    OBVIOUS
  <2>3. DOMAIN fields = {"pc", "reply"} /\ fields["pc"] = "audit" /\ fields["reply"] = r
    BY <2>2
  <2>4. \A f \in Fieldnames : conn'[c][f] = IF f \in DOMAIN fields THEN fields[f] ELSE conn[c][f]
    BY <1>0, <1>2, <2>2, SetFields
  <2>5. /\ conn'[c].id = conn[c].id /\ conn'[c].msg = m /\ conn'[c].todo = {}
        /\ conn'[c].body = {} /\ conn'[c].reply = r /\ conn'[c].cur = conn[c].cur
        /\ conn'[c].pc = "audit" /\ conn'[c].taken = conn[c].taken
    BY <1>c, <2>3, <2>4 DEF Fieldnames
  <2>6. conn'[c] \in Connection
    BY <1>0, <1>c, <2>1, <2>5, ConnectionRecord DEF Connection, Holds, Replies
  <2>7. CallerKnown(c)' /\ ValuesAllowed(c)'
    BY <1>0, <1>b, <2>5 DEF CallerKnown, Current, ValuesAllowed
  <2>8. RepliesTrue(c)'
    BY <1>2, <1>b, <2>5 DEF RepliesTrue, Unread, Answered
  <2>9. conn[c].pc \in Holds /\ conn'[c].pc \in Holds
    BY <1>b, <2>5 DEF Holds
  <2> QED BY <1>b, <1>d, <2>1, <2>6, <2>7, <2>8, <2>9, QuietStep
<1>3. ASSUME m.op # "ping", Authorized(m), Set(c, [pc |-> "backend", todo |-> match]) PROVE SpsInv'
  <2>0. /\ m.es \in Esecrets /\ ToolOf[m.es] \in Tools /\ reg[ToolOf[m.es]] # None
        /\ reg[ToolOf[m.es]].esecret = m.es /\ reg[ToolOf[m.es]].entries \subseteq Entry
        /\ m.op \in {"get_secrets", "get_secret", "write_secret"}
    BY <1>0, <1>3, <1>b DEF CallerKnown, Authorized, SpsAssumption, SpsInv, TypeOK
  <2>1. conn[c].cur
    BY <1>0, <2>0, SMTT(60) DEF CallerKnown, Current, SpsAssumption
  <2>2. match \subseteq Entry /\ \A a \in match : a.item \in Allowed(m.es) /\ (m.op = "write_secret" => a.name = m.name)
    BY <2>0 DEF SpsInv, Allowed
  <2> HIDE DEF match
  <2>3. /\ conn' = [d \in Conns |-> conn'[d]] /\ conn'[c] = [f \in Fieldnames |-> conn'[c][f]]
        /\ \A d \in Conns \ {c} : conn'[d] = conn[d]
    BY <1>0, <1>3, SetFields
  <2>4. PICK fields : fields = [pc |-> "backend", todo |-> match]
    OBVIOUS
  <2>5. DOMAIN fields = {"pc", "todo"} /\ fields["pc"] = "backend" /\ fields["todo"] = match
    BY <2>4
  <2>6. \A f \in Fieldnames : conn'[c][f] = IF f \in DOMAIN fields THEN fields[f] ELSE conn[c][f]
    BY <1>0, <1>3, <2>4, SetFields
  <2>7. /\ conn'[c].id = conn[c].id /\ conn'[c].msg = m /\ conn'[c].todo = match
        /\ conn'[c].body = {} /\ conn'[c].reply = "none" /\ conn'[c].cur = conn[c].cur
        /\ conn'[c].pc = "backend" /\ conn'[c].taken = conn[c].taken
    BY <1>c, <2>5, <2>6 DEF Fieldnames
  <2>8. conn'[c] \in Connection
    BY <1>0, <1>c, <2>2, <2>3, <2>7, ConnectionRecord DEF Connection, Holds, Replies
  <2>9. CallerKnown(c)'
    BY <1>0, <1>b, <2>7, SMTT(60) DEF CallerKnown, Current
  <2>10. ValuesAllowed(c)'
    BY <2>0, <2>1, <2>2, <2>7 DEF ValuesAllowed, Allowed
  <2>11. RepliesTrue(c)'
    BY <2>0, <2>7 DEF RepliesTrue, Unread, Answered
  <2>12. conn[c].pc \in Holds /\ conn'[c].pc \in Holds
    BY <1>b, <2>7 DEF Holds
  <2> QED BY <1>b, <1>d, <2>3, <2>8, <2>9, <2>10, <2>11, <2>12, QuietStep, SMTT(60)
<1> QED BY <1>1, <1>2, <1>3

\* A read adds one value to the answer, and what it adds is what the backend has.
LEMMA BackendReadNext ==
  ASSUME SpsAssumption, SpsInv, NEW c \in Conns, BackendRead(c)
  PROVE  SpsInv'
<1> DEFINE m == conn[c].msg
<1>0. /\ conn \in [Conns -> Connection] /\ conn[c] \in Connection
      /\ CallerKnown(c) /\ ValuesAllowed(c) /\ RepliesTrue(c)
  BY DEF SpsInv
<1>a. /\ rejects \in Nat /\ summed \in Nat /\ happened \in Nat /\ faults \in Nat /\ logged \subseteq 1 .. calls
  BY CountsType
<1>b. /\ conn[c].pc = "backend" /\ m.op \in {"get_secrets", "get_secret"}
      /\ UNCHANGED <<reg, backend, held, slots, rejects, summed, happened, logged, cache, calls>>
  BY <1>0 DEF BackendRead, counts, RepliesTrue
<1>c. conn[c].taken \in Nat /\ conn[c].todo \subseteq Entry /\ conn[c].body \subseteq Names \X Nat \X Tools
  BY <1>0 DEF Connection
<1>d. {rejects', summed', happened', faults'} \subseteq Nat /\ logged \subseteq logged' /\ logged' \subseteq 1 .. calls
  <2>1. UNCHANGED faults \/ Fault
    BY Zenon DEF BackendRead
  <2> QED BY <1>a, <1>b, <2>1 DEF Fault
\* What a change of the answer and of what is left to read has to keep.
<1>1. ASSUME NEW fields, Set(c, fields), DOMAIN fields \subseteq {"pc", "reply", "todo", "body"},
             NEW T \in SUBSET conn[c].todo, NEW B \in SUBSET (Names \X Nat \X Tools), NEW r \in Replies,
             NEW p \in {"backend", "audit"},
             p = IF "pc" \in DOMAIN fields THEN fields["pc"] ELSE conn[c].pc,
             r = IF "reply" \in DOMAIN fields THEN fields["reply"] ELSE conn[c].reply,
             T = IF "todo" \in DOMAIN fields THEN fields["todo"] ELSE conn[c].todo,
             B = IF "body" \in DOMAIN fields THEN fields["body"] ELSE conn[c].body,
             B # {} => conn[c].cur /\ m.es \in Esecrets,
             \A b \in B : b[3] \in Allowed(m.es) /\ b[2] \in held[<<b[3], b[1]>>],
             p = "audit" /\ r # "ok" => B = {}
      PROVE  SpsInv'
  <2>1. /\ conn' = [d \in Conns |-> conn'[d]] /\ conn'[c] = [f \in Fieldnames |-> conn'[c][f]]
        /\ \A d \in Conns \ {c} : conn'[d] = conn[d]
        /\ \A f \in Fieldnames : conn'[c][f] = IF f \in DOMAIN fields THEN fields[f] ELSE conn[c][f]
    BY <1>0, <1>1, SetFields
  <2>2. /\ conn'[c].id = conn[c].id /\ conn'[c].msg = m /\ conn'[c].todo = T
        /\ conn'[c].body = B /\ conn'[c].reply = r /\ conn'[c].cur = conn[c].cur
        /\ conn'[c].pc = p /\ conn'[c].taken = conn[c].taken
    BY <1>1, <2>1 DEF Fieldnames
  <2>3. conn'[c] \in Connection
    BY <1>0, <1>1, <1>c, <2>1, <2>2, ConnectionRecord DEF Connection, Holds
  <2>4. CallerKnown(c)'
    BY <1>0, <1>b, <2>2, SMTT(60) DEF CallerKnown, Current
  <2>5. ValuesAllowed(c)'
    BY <1>0, <1>1, <1>b, <2>2 DEF ValuesAllowed, Allowed
  <2>6. RepliesTrue(c)'
    BY <1>1, <1>b, <2>2 DEF RepliesTrue, Unread, Answered
  <2>7. conn[c].pc \in Holds /\ conn'[c].pc \in Holds
    BY <1>1, <1>b, <2>2 DEF Holds
  <2> QED BY <1>b, <1>d, <2>1, <2>3, <2>4, <2>5, <2>6, <2>7, QuietStep
<1>2. CASE Set(c, [pc |-> "audit", reply |-> "ok"])
  <2>1. PICK fields : fields = [pc |-> "audit", reply |-> "ok"]
    OBVIOUS
  <2>2. DOMAIN fields = {"pc", "reply"} /\ fields["pc"] = "audit" /\ fields["reply"] = "ok"
    BY <2>1
  <2>3. "ok" \in Replies /\ Set(c, fields)
    BY <1>2, <2>1 DEF Replies
  <2>4. /\ conn[c].body # {} => conn[c].cur /\ m.es \in Esecrets
        /\ \A b \in conn[c].body : b[3] \in Allowed(m.es) /\ b[2] \in held[<<b[3], b[1]>>]
    BY <1>0 DEF ValuesAllowed
  <2> QED BY <1>1, <1>c, <2>2, <2>3, <2>4
<1>3. ASSUME NEW a \in conn[c].todo,
             Set(c, [todo |-> conn[c].todo \ {a},
                     body |-> conn[c].body \cup {<<a.name, backend[<<a.item, a.name>>], a.item>>}])
      PROVE  SpsInv'
  <2> DEFINE T == conn[c].todo \ {a}
             b0 == <<a.name, backend[<<a.item, a.name>>], a.item>>
             B == conn[c].body \cup {b0}
  <2>1. a \in Entry /\ <<a.item, a.name>> \in Key /\ a.item \in Allowed(m.es) /\ conn[c].cur /\ m.es \in Esecrets
    BY <1>0, <1>c DEF ValuesAllowed, Entry, Key
  <2>2. b0 \in Names \X Nat \X Tools /\ b0[2] \in held[<<b0[3], b0[1]>>] /\ b0[3] \in Allowed(m.es)
    BY <2>1 DEF SpsInv, TypeOK, Entry
  <2>3. /\ B \in SUBSET (Names \X Nat \X Tools) /\ T \in SUBSET conn[c].todo
        /\ \A b \in B : b[3] \in Allowed(m.es) /\ b[2] \in held[<<b[3], b[1]>>]
    BY <1>0, <1>c, <2>2 DEF ValuesAllowed
  <2>4. Set(c, [todo |-> T, body |-> B])
    BY <1>3
  <2> HIDE DEF T, B, b0
  <2>5. PICK fields : fields = [todo |-> T, body |-> B]
    OBVIOUS
  <2>6. DOMAIN fields = {"todo", "body"} /\ fields["todo"] = T /\ fields["body"] = B
    BY <2>5
  <2>7. conn[c].reply \in Replies /\ Set(c, fields)
    BY <1>0, <2>4, <2>5 DEF Connection
  <2> QED BY <1>1, <1>b, <2>1, <2>3, <2>6, <2>7
<1>4. CASE Set(c, [pc |-> "audit", reply |-> "Backend error", body |-> {}, todo |-> {}])
  <2>1. PICK fields : fields = [pc |-> "audit", reply |-> "Backend error", body |-> {}, todo |-> {}]
    OBVIOUS
  <2>2. /\ DOMAIN fields = {"pc", "reply", "body", "todo"} /\ fields["pc"] = "audit"
        /\ fields["reply"] = "Backend error" /\ fields["body"] = {} /\ fields["todo"] = {}
    BY <2>1
  <2>3. "Backend error" \in Replies /\ Set(c, fields)
    BY <1>4, <2>1 DEF Replies
  <2> QED BY <1>1, <2>2, <2>3
<1> QED BY <1>2, <1>3, <1>4 DEF BackendRead

\* A write that is answered with a success has been done; one that failed may have been.
LEMMA BackendWriteNext ==
  ASSUME SpsAssumption, SpsInv, NEW c \in Conns, BackendWrite(c)
  PROVE  SpsInv'
<1> DEFINE m == conn[c].msg
<1>0. /\ conn \in [Conns -> Connection] /\ conn[c] \in Connection /\ SlotsConserved /\ CacheReal
      /\ CallerKnown(c) /\ ValuesAllowed(c) /\ RepliesTrue(c)
  BY DEF SpsInv
<1>a. /\ rejects \in Nat /\ summed \in Nat /\ happened \in Nat /\ faults \in Nat /\ calls \in Nat
      /\ logged \subseteq 1 .. calls
  BY CountsType
<1>b. /\ conn[c].pc = "backend" /\ m.op = "write_secret"
      /\ UNCHANGED <<reg, slots, rejects, summed, happened, logged, cache, calls>>
  BY DEF BackendWrite, counts
<1>c. /\ conn[c].taken \in Nat /\ conn[c].body = {} /\ conn[c].id \in Nat /\ m.es \in Esecrets /\ m.name \in Names
  BY <1>0, <1>b DEF Connection, ValuesAllowed, CallerKnown
<1>d. {rejects', summed', happened', faults'} \subseteq Nat
  <2>1. UNCHANGED faults \/ Fault
    BY Zenon DEF BackendWrite
  <2> QED BY <1>a, <1>b, <2>1 DEF Fault
<1>1. PICK a \in conn[c].todo :
        /\ \/ /\ backend' = [backend EXCEPT ![<<a.item, a.name>>] = conn[c].id]
              /\ held' = [held EXCEPT ![<<a.item, a.name>>] = @ \cup {conn[c].id}]
           \/ UNCHANGED <<backend, held>>
        /\ \/ /\ held' = [held EXCEPT ![<<a.item, a.name>>] = @ \cup {conn[c].id}]
              /\ Set(c, [pc |-> "audit", reply |-> "ok", todo |-> {}])
           \/ Set(c, [pc |-> "audit", reply |-> "Backend error", todo |-> {}])
  BY DEF BackendWrite
<1> DEFINE k0 == <<a.item, a.name>>
<1>2. k0 \in Key /\ a.name = m.name /\ a.item \in Allowed(m.es)
  BY <1>0, <1>b DEF ValuesAllowed, Connection, Entry, Key
<1>3. /\ backend' \in [Key -> Nat] /\ held' \in [Key -> SUBSET Nat]
      /\ \A k \in Key : held[k] \subseteq held'[k] /\ backend'[k] \in held'[k]
  <2>1. CASE UNCHANGED <<backend, held>>
    BY <2>1 DEF SpsInv, TypeOK
  <2>2. CASE /\ backend' = [backend EXCEPT ![k0] = conn[c].id]
             /\ held' = [held EXCEPT ![k0] = @ \cup {conn[c].id}]
    <3> HIDE DEF k0
    <3>1. backend \in [Key -> Nat] /\ held \in [Key -> SUBSET Nat] /\ \A k \in Key : backend[k] \in held[k]
      BY DEF SpsInv, TypeOK
    <3> QED BY <1>2, <1>c, <2>2, <3>1
  <2> QED BY <1>1, <2>1, <2>2
<1>4. CacheReal' /\ cache' \in [Esecrets -> [Names -> Nat \cup {None}]]
  <2>1. ASSUME NEW e \in Esecrets, NEW n \in Names, cache[e][n] # None
        PROVE  \E t \in {ToolOf[e]} \cup Grants[ToolOf[e]] : cache[e][n] \in held'[<<t, n>>]
    <3>1. PICK t \in Allowed(e) : cache[e][n] \in held[<<t, n>>]
      BY <1>0, <2>1 DEF CacheReal, Allowed
    <3>2. <<t, n>> \in Key
      BY <3>1, AllowedTools DEF Key
    <3> QED BY <1>3, <3>1, <3>2 DEF Allowed
  <2> QED BY <1>b, <2>1 DEF CacheReal, SpsInv, TypeOK
<1>5. calls' \in Nat /\ calls' >= calls /\ logged \subseteq logged' /\ logged' \subseteq 1 .. calls' /\ slots' \in 0 .. MaxWorkers
  BY <1>a, <1>b DEF SpsInv, TypeOK
<1>6. ASSUME NEW r \in {"ok", "Backend error"}, Set(c, [pc |-> "audit", reply |-> r, todo |-> {}]),
             r = "ok" => conn[c].id \in held'[k0]
      PROVE  SpsInv'
  <2>1. /\ conn' = [d \in Conns |-> conn'[d]] /\ conn'[c] = [f \in Fieldnames |-> conn'[c][f]]
        /\ \A d \in Conns \ {c} : conn'[d] = conn[d]
    BY <1>0, <1>6, SetFields
  <2>2. PICK fields : fields = [pc |-> "audit", reply |-> r, todo |-> {}]
    OBVIOUS
  <2>3. /\ DOMAIN fields = {"pc", "reply", "todo"} /\ fields["pc"] = "audit" /\ fields["reply"] = r
        /\ fields["todo"] = {}
    BY <2>2
  <2>4. \A f \in Fieldnames : conn'[c][f] = IF f \in DOMAIN fields THEN fields[f] ELSE conn[c][f]
    BY <1>0, <1>6, <2>2, SetFields
  <2>5. /\ conn'[c].id = conn[c].id /\ conn'[c].msg = m /\ conn'[c].todo = {}
        /\ conn'[c].body = {} /\ conn'[c].reply = r /\ conn'[c].cur = conn[c].cur
        /\ conn'[c].pc = "audit" /\ conn'[c].taken = conn[c].taken
    BY <1>c, <2>3, <2>4 DEF Fieldnames
  <2>6. conn'[c] \in Connection
    BY <1>0, <1>c, <2>1, <2>5, ConnectionRecord DEF Connection, Holds, Replies
  <2>7. CallerKnown(c)' /\ ValuesAllowed(c)'
    BY <1>0, <1>b, <2>5 DEF CallerKnown, Current, ValuesAllowed
  <2>8. RepliesTrue(c)'
    BY <1>6, <1>b, <1>2, <2>5 DEF RepliesTrue, Unread, Answered, Allowed
  <2>9. conn[c].pc \in Holds /\ conn'[c].pc \in Holds
    BY <1>b, <2>5 DEF Holds
  <2>10. SlotsConserved'
    BY <1>0, <1>b, <2>1, <2>9, HoldersSame
  <2> QED BY <1>b, <1>d, <1>3, <1>4, <1>5, <2>1, <2>6, <2>7, <2>8, <2>10, StepKeeps
<1>7. held' = [held EXCEPT ![k0] = @ \cup {conn[c].id}] => conn[c].id \in held'[k0]
  <2> HIDE DEF k0
  <2> QED BY <1>2 DEF SpsInv, TypeOK
<1> QED BY <1>1, <1>6, <1>7

LEMMA NoMsgIn ==
  NoMsg \in [op : {"none", "invalid", "register", "unregister", "get_secrets", "get_secret",
                   "write_secret", "ping"},
             es : Esecrets \cup {None}, name : Names \cup {None}, decl : SUBSET Entry, sp : BOOLEAN]
  BY DEF NoMsg

LEMMA IdleConnection == Idle \in Connection
  BY NoMsgIn DEF Idle, Connection, Holds, Replies

\* A connection at rest says nothing.
LEMMA IdleSound ==
  ASSUME SpsAssumption, NEW c \in Conns, conn'[c] = Idle
  PROVE  CallerKnown(c)' /\ ValuesAllowed(c)' /\ RepliesTrue(c)'
<1>1. /\ conn'[c].pc = "idle" /\ conn'[c].body = {} /\ conn'[c].todo = {} /\ conn'[c].reply = "none"
      /\ conn'[c].msg.op = "none" /\ conn'[c].msg.es = None
  BY DEF Idle, NoMsg
<1> QED BY <1>1 DEF CallerKnown, ValuesAllowed, RepliesTrue, Unread, Answered

LEMMA SpsInit == ASSUME SpsAssumption, Init PROVE SpsInv
<1> USE DEF Init
<1>1. conn \in [Conns -> Connection] /\ \A c \in Conns : conn[c] = Idle
  BY IdleConnection
<1>2. ASSUME NEW c \in Conns PROVE CallerKnown(c) /\ ValuesAllowed(c) /\ RepliesTrue(c)
  <2>1. /\ conn[c].pc = "idle" /\ conn[c].body = {} /\ conn[c].todo = {} /\ conn[c].reply = "none"
        /\ conn[c].msg.op = "none" /\ conn[c].msg.es = None
    BY DEF Idle, NoMsg
  <2> QED BY <2>1 DEF CallerKnown, ValuesAllowed, RepliesTrue, Unread, Answered
<1>3. SlotsConserved
  <2>1. {c \in Conns : conn[c].pc \in Holds} = {}
    BY DEF Idle, Holds
  <2>2. Cardinality({}) = 0 /\ MaxWorkers \in Nat
    BY FS_EmptySet DEF SpsAssumption
  <2> QED BY <2>1, <2>2, SMTT(60) DEF SlotsConserved
<1>4. \A c \in Conns : conn[c].pc \in Holds \cup {"idle", "queued", "replied"} /\ conn[c].reply \in Replies
  BY <1>1 DEF Connection
<1>5. TypeOK
  BY <1>4 DEF TypeOK, SpsAssumption
<1>6. CacheReal
  BY DEF CacheReal
<1> QED BY <1>1, <1>2, <1>3, <1>5, <1>6 DEF SpsInv

LEMMA MessageTypes ==
  ASSUME SpsAssumption, NEW m \in Messages
  PROVE  /\ m \in [op : {"none", "invalid", "register", "unregister", "get_secrets", "get_secret",
                         "write_secret", "ping"},
                   es : Esecrets \cup {None}, name : Names \cup {None}, decl : SUBSET Entry, sp : BOOLEAN]
         /\ m.op # "invalid" /\ m.op # "none"
         /\ m.op \in {"register", "unregister", "get_secrets", "get_secret", "write_secret"} => m.es \in Esecrets
         /\ m.op \in {"get_secret", "write_secret"} => m.name \in Names
<1>1. CASE m \in [op : Ops \cap {"register"}, es : Esecrets, name : {None}, decl : Decls, sp : BOOLEAN]
  BY <1>1 DEF SpsAssumption
<1>2. CASE m \in [op : Ops \cap {"unregister", "get_secrets"}, es : Esecrets, name : {None}, decl : {{}}, sp : {TRUE}]
  BY <1>2
<1>3. CASE m \in [op : Ops \cap {"get_secret", "write_secret"}, es : Esecrets, name : Names, decl : {{}}, sp : {FALSE}]
  BY <1>3
<1>4. CASE m \in [op : Ops \cap {"ping"}, es : {None}, name : {None}, decl : {{}}, sp : {FALSE}]
  BY <1>4
<1> QED BY <1>1, <1>2, <1>3, <1>4 DEF Messages

LEMMA CallNext ==
  ASSUME SpsAssumption, SpsInv, NEW c \in Conns, NEW m \in Messages, Call(c, m)
  PROVE  SpsInv'
<1>0. /\ conn \in [Conns -> Connection] /\ conn[c] \in Connection /\ SlotsConserved /\ CacheReal
      /\ CallerKnown(c) /\ ValuesAllowed(c) /\ RepliesTrue(c)
  BY DEF SpsInv
<1>a. /\ rejects \in Nat /\ summed \in Nat /\ happened \in Nat /\ faults \in Nat /\ calls \in Nat
      /\ logged \subseteq 1 .. calls
  BY CountsType
<1>b. /\ conn[c].pc = "idle" /\ calls' = calls + 1
      /\ UNCHANGED <<reg, backend, held, slots, rejects, summed, happened, logged, cache, faults>>
  BY DEF Call, counts
<1>c. conn[c].body = {} /\ conn[c].todo = {} /\ conn[c].reply = "none" /\ conn[c].taken \in Nat
  BY <1>0, <1>b DEF RepliesTrue, Unread, Connection
<1>1. PICK u \in BOOLEAN : u = (m.es # None /\ Current(reg, m.es))
  OBVIOUS
<1>2. PICK fields : fields = [pc |-> "queued", id |-> calls', msg |-> m, cur |-> u] /\ Set(c, fields)
  BY <1>1 DEF Call
<1>3. /\ DOMAIN fields = {"pc", "id", "msg", "cur"} /\ fields["pc"] = "queued" /\ fields["id"] = calls'
      /\ fields["msg"] = m /\ fields["cur"] = u
  BY <1>2
<1>4. /\ conn' = [d \in Conns |-> conn'[d]] /\ conn'[c] = [f \in Fieldnames |-> conn'[c][f]]
      /\ \A d \in Conns \ {c} : conn'[d] = conn[d]
      /\ \A f \in Fieldnames : conn'[c][f] = IF f \in DOMAIN fields THEN fields[f] ELSE conn[c][f]
  BY <1>0, <1>2, SetFields
<1>5. /\ conn'[c].id = calls' /\ conn'[c].msg = m /\ conn'[c].todo = {}
      /\ conn'[c].body = {} /\ conn'[c].reply = "none" /\ conn'[c].cur = u
      /\ conn'[c].pc = "queued" /\ conn'[c].taken = conn[c].taken
  BY <1>c, <1>3, <1>4 DEF Fieldnames
<1>6. conn'[c] \in Connection
  <2>1. calls' \in Nat
    BY <1>a, <1>b
  <2> QED BY <1>c, <1>4, <1>5, <2>1, ConnectionRecord, MessageTypes DEF Replies
<1>7. CallerKnown(c)'
  <2>1. conn'[c].id \in 1 .. calls'
    BY <1>a, <1>b, <1>5
  <2>2. m.es # None /\ Current(reg', m.es) => conn'[c].cur
    BY <1>1, <1>b, <1>5
  <2> QED BY <1>5, <2>1, <2>2, MessageTypes DEF CallerKnown
<1>8. ValuesAllowed(c)' /\ RepliesTrue(c)'
  BY <1>5 DEF ValuesAllowed, RepliesTrue, Unread, Answered
<1>9. conn[c].pc \notin Holds /\ conn'[c].pc \notin Holds
  BY <1>b, <1>5 DEF Holds
<1>10. SlotsConserved'
  BY <1>0, <1>b, <1>4, <1>9, HoldersSame
<1>11. /\ calls' \in Nat /\ calls' >= calls /\ logged \subseteq logged' /\ logged' \subseteq 1 .. calls'
       /\ {rejects', summed', happened', faults'} \subseteq Nat
  BY <1>a, <1>b
<1>12. /\ backend' \in [Key -> Nat] /\ held' \in [Key -> SUBSET Nat] /\ slots' \in 0 .. MaxWorkers
       /\ cache' \in [Esecrets -> [Names -> Nat \cup {None}]]
       /\ \A k \in Key : held[k] \subseteq held'[k] /\ backend'[k] \in held'[k]
  BY <1>b DEF SpsInv, TypeOK
<1>13. CacheReal'
  BY <1>0, <1>b DEF CacheReal
<1> QED BY <1>b, <1>4, <1>6, <1>7, <1>8, <1>10, <1>11, <1>12, <1>13, StepKeeps

\* The client keeps only what a success has brought.
LEMMA ReceiveNext ==
  ASSUME SpsAssumption, SpsInv, NEW c \in Conns, Receive(c)
  PROVE  SpsInv'
<1> DEFINE m == conn[c].msg
           got == [n \in {b[1] : b \in conn[c].body} |-> (CHOOSE b \in conn[c].body : b[1] = n)[2]]
           value(n) == IF n \in DOMAIN got THEN got[n] ELSE None
<1>0. /\ conn \in [Conns -> Connection] /\ conn[c] \in Connection /\ SlotsConserved /\ CacheReal
      /\ CallerKnown(c) /\ ValuesAllowed(c) /\ RepliesTrue(c)
      /\ cache \in [Esecrets -> [Names -> Nat \cup {None}]]
  BY SMTT(60) DEF SpsInv, TypeOK
<1>a. /\ rejects \in Nat /\ summed \in Nat /\ happened \in Nat /\ faults \in Nat /\ calls \in Nat
      /\ logged \subseteq 1 .. calls
  BY CountsType
<1>b. /\ conn[c].pc = "replied" /\ conn' = [conn EXCEPT ![c] = Idle]
      /\ UNCHANGED <<reg, backend, held, slots, rejects, summed, happened, logged, calls>>
  BY DEF Receive, counts
<1>c. {rejects', summed', happened', faults'} \subseteq Nat
  <2>1. UNCHANGED faults \/ Fault
    BY Zenon DEF Receive
  <2> QED BY <1>a, <1>b, <2>1 DEF Fault
<1>d. /\ conn' = [d \in Conns |-> conn'[d]] /\ \A d \in Conns \ {c} : conn'[d] = conn[d]
      /\ conn'[c] = Idle /\ conn'[c] \in Connection
  BY <1>0, <1>b, IdleConnection
<1>e. CallerKnown(c)' /\ ValuesAllowed(c)' /\ RepliesTrue(c)'
  BY <1>d, IdleSound
<1>f. SlotsConserved'
  <2>1. conn[c].pc \notin Holds /\ conn'[c].pc \notin Holds
    BY <1>b, <1>d DEF Holds, Idle
  <2> QED BY <1>0, <1>b, <1>d, <2>1, HoldersSame
\* The value of a name in the answer is one that an allowed item has held.
<1>1. ASSUME NEW n \in Names, value(n) # None
      PROVE  /\ value(n) \in Nat /\ m.es \in Esecrets
             /\ \E t \in Allowed(m.es) : value(n) \in held[<<t, n>>]
  <2>1. PICK b \in conn[c].body : b[1] = n /\ value(n) = b[2]
    <3>1. n \in {b[1] : b \in conn[c].body}
      BY <1>1
    <3>2. \E b \in conn[c].body : b[1] = n
      BY <3>1
    <3> DEFINE w == CHOOSE b \in conn[c].body : b[1] = n
    <3>3. w \in conn[c].body /\ w[1] = n
      BY <3>2
    <3>4. value(n) = w[2]
      BY <3>1
    <3> QED BY <3>3, <3>4
  <2>2. b \in Names \X Nat \X Tools /\ b[3] \in Allowed(m.es) /\ b[2] \in held[<<b[3], b[1]>>] /\ m.es \in Esecrets
    BY <1>0 DEF Connection, ValuesAllowed
  <2> QED BY <2>1, <2>2
<1>2. \A n \in Names : value(n) \in Nat \cup {None}
  BY <1>1, SMTT(60)
<1> HIDE DEF value
<1>3. \/ cache' = cache
      \/ m.op = "get_secrets" /\ cache' = [cache EXCEPT ![m.es] = [n \in Names |-> value(n)]]
      \/ m.op = "get_secret" /\ cache' = [cache EXCEPT ![m.es][m.name] = value(m.name)]
      \/ conn[c].reply = "ok" /\ m.op = "write_secret" /\ cache' = [cache EXCEPT ![m.es][m.name] = conn[c].id]
  BY DEF Receive, value
<1>4. cache' \in [Esecrets -> [Names -> Nat \cup {None}]] /\ CacheReal'
  <2>0. \A e \in Esecrets, n \in Names : cache[e][n] # None => \E t \in Allowed(e) : cache[e][n] \in held[<<t, n>>]
    BY <1>0 DEF CacheReal, Allowed
  <2>1. CASE cache' = cache
    BY <1>0, <1>b, <2>1 DEF CacheReal
  <2>2. CASE m.op = "get_secrets" /\ cache' = [cache EXCEPT ![m.es] = [n \in Names |-> value(n)]]
    <3>1. m.es \in Esecrets
      BY <1>0, <2>2 DEF CallerKnown
    <3>2. cache' \in [Esecrets -> [Names -> Nat \cup {None}]]
      BY <1>0, <1>2, <2>2, <3>1
    <3>3. ASSUME NEW e \in Esecrets, NEW n \in Names, cache'[e][n] # None
          PROVE  \E t \in Allowed(e) : cache'[e][n] \in held[<<t, n>>]
      <4>1. CASE e = m.es
        <5>1. cache'[e][n] = value(n)
          BY <1>0, <2>2, <3>1, <4>1
        <5> QED BY <1>1, <3>3, <4>1, <5>1
      <4>2. CASE e # m.es
        <5>1. cache'[e][n] = cache[e][n]
          BY <1>0, <2>2, <3>1, <4>2
        <5> QED BY <2>0, <3>3, <5>1
      <4> QED BY <4>1, <4>2
    <3> QED BY <1>b, <3>2, <3>3 DEF CacheReal, Allowed
  <2>3. ASSUME NEW v \in Nat \cup {None}, m.es \in Esecrets, m.name \in Names,
               cache' = [cache EXCEPT ![m.es][m.name] = v],
               v # None => \E t \in Allowed(m.es) : v \in held[<<t, m.name>>]
        PROVE  cache' \in [Esecrets -> [Names -> Nat \cup {None}]] /\ CacheReal'
    <3>1. cache' \in [Esecrets -> [Names -> Nat \cup {None}]]
      BY <1>0, <2>3
    <3>2. ASSUME NEW e \in Esecrets, NEW n \in Names, cache'[e][n] # None
          PROVE  \E t \in Allowed(e) : cache'[e][n] \in held[<<t, n>>]
      <4>1. CASE e = m.es /\ n = m.name
        <5>1. cache'[e][n] = v
          BY <1>0, <2>3, <4>1
        <5> QED BY <2>3, <3>2, <4>1, <5>1
      <4>2. CASE ~(e = m.es /\ n = m.name)
        <5>1. cache'[e][n] = cache[e][n]
          BY <1>0, <2>3, <4>2, SMTT(60)
        <5> QED BY <2>0, <3>2, <5>1
      <4> QED BY <4>1, <4>2
    <3> QED BY <1>b, <3>1, <3>2 DEF CacheReal, Allowed
  <2>4. CASE m.op = "get_secret" /\ cache' = [cache EXCEPT ![m.es][m.name] = value(m.name)]
    <3>1. m.es \in Esecrets /\ m.name \in Names
      BY <1>0, <2>4 DEF CallerKnown
    <3>2. PICK v \in Nat \cup {None} : v = value(m.name)
      BY <1>2, <3>1
    <3>3. v # None => \E t \in Allowed(m.es) : v \in held[<<t, m.name>>]
      BY <1>1, <3>1, <3>2
    <3> QED BY <2>3, <2>4, <3>1, <3>2, <3>3
  <2>5. CASE conn[c].reply = "ok" /\ m.op = "write_secret" /\ cache' = [cache EXCEPT ![m.es][m.name] = conn[c].id]
    <3>1. m.es \in Esecrets /\ m.name \in Names /\ conn[c].id \in Nat
      BY <1>0, <2>5 DEF CallerKnown, Connection
    <3>2. \E t \in Allowed(m.es) : conn[c].id \in held[<<t, m.name>>]
      BY <1>0, <2>5 DEF RepliesTrue
    <3> QED BY <2>3, <2>5, <3>1, <3>2
  <2> QED BY <1>3, <2>1, <2>2, <2>4, <2>5
<1>5. /\ calls' \in Nat /\ calls' >= calls /\ logged \subseteq logged' /\ logged' \subseteq 1 .. calls'
      /\ slots' \in 0 .. MaxWorkers /\ backend' \in [Key -> Nat] /\ held' \in [Key -> SUBSET Nat]
      /\ \A k \in Key : held[k] \subseteq held'[k] /\ backend'[k] \in held'[k]
  BY <1>a, <1>b DEF SpsInv, TypeOK
<1> QED BY <1>b, <1>c, <1>d, <1>e, <1>f, <1>4, <1>5, StepKeeps

\* A registration is kept only with entries that the tool may declare, and every request
\* under way notes that its caller has been registered.
LEMMA DispatchRunnerNext ==
  ASSUME SpsAssumption, SpsInv, NEW c \in Conns, DispatchRunner(c)
  PROVE  SpsInv'
<1> DEFINE m == conn[c].msg
           t0 == ToolOf[m.es]
           moved(d) == IF d = c THEN [conn[d] EXCEPT !.pc = "audit", !.reply = Refusal(m)] ELSE conn[d]
           now(d) == conn[d].cur \/ (conn[d].msg.es # None /\ Current(reg', conn[d].msg.es))
<1>0. /\ conn \in [Conns -> Connection] /\ SlotsConserved /\ CacheReal /\ TypeOK
      /\ \A d \in Conns : conn[d] \in Connection /\ CallerKnown(d) /\ ValuesAllowed(d) /\ RepliesTrue(d)
      /\ reg \in [Tools -> {None} \cup [esecret : Esecrets, entries : SUBSET Entry]]
      /\ \A t \in Tools : reg[t] # None => \A a \in reg[t].entries : a.item \in {t} \cup Grants[t]
  BY DEF SpsInv
<1>b. /\ conn[c].pc = "dispatch" /\ m.op \in {"register", "unregister"}
      /\ UNCHANGED <<backend, held, slots, rejects, summed, happened, logged, cache, calls, faults>>
  BY DEF DispatchRunner, counts
<1>c. /\ m.es \in Esecrets /\ t0 \in Tools /\ m.decl \subseteq Entry
      /\ conn[c].body = {} /\ conn[c].todo = {} /\ conn[c].reply = "none"
  BY <1>0, <1>b DEF CallerKnown, Connection, RepliesTrue, Unread, SpsAssumption
<1>1. Refusal(m) \in {"Unauthorized", "Bad request", "ok"}
  BY DEF Refusal
<1>2. Refusal(m) = "ok" /\ m.op = "register" => \A a \in m.decl : a.item \in {t0} \cup Grants[t0]
  BY DEF Refusal, Ungranted
<1>3. /\ reg' \in [Tools -> {None} \cup [esecret : Esecrets, entries : SUBSET Entry]]
      /\ \A t \in Tools : reg'[t] # None => \A a \in reg'[t].entries : a.item \in {t} \cup Grants[t]
  <2>1. CASE reg' = reg
    BY <1>0, <2>1
  <2>2. CASE reg' = [reg EXCEPT ![t0] = None]
    BY <1>0, <1>c, <2>2
  <2>3. CASE Refusal(m) = "ok" /\ m.op = "register" /\ reg' = [reg EXCEPT ![t0] = [esecret |-> m.es, entries |-> m.decl]]
    <3> DEFINE r0 == [esecret |-> m.es, entries |-> m.decl]
    <3>1. r0 \in [esecret : Esecrets, entries : SUBSET Entry] /\ r0.entries = m.decl
      BY <1>c
    <3>2. reg'[t0] = r0 /\ \A t \in Tools \ {t0} : reg'[t] = reg[t]
      BY <1>0, <1>c, <2>3
    <3>3. reg' \in [Tools -> {None} \cup [esecret : Esecrets, entries : SUBSET Entry]]
      BY <1>0, <1>c, <2>3, <3>1
    <3>4. \A a \in reg'[t0].entries : a.item \in {t0} \cup Grants[t0]
      BY <1>2, <2>3, <3>1, <3>2
    <3> QED BY <1>0, <3>2, <3>3, <3>4
  <2>4. \/ reg' = reg \/ reg' = [reg EXCEPT ![t0] = None]
        \/ Refusal(m) = "ok" /\ m.op = "register" /\ reg' = [reg EXCEPT ![t0] = [esecret |-> m.es, entries |-> m.decl]]
    BY <1>b DEF DispatchRunner
  <2> QED BY <2>1, <2>2, <2>3, <2>4
<1>4. ASSUME NEW d \in Conns
      PROVE  /\ conn'[d] = [moved(d) EXCEPT !.cur = moved(d).cur \/ (moved(d).msg.es # None /\ Current(reg', moved(d).msg.es))]
             /\ moved(d) \in Connection /\ moved(d).cur = conn[d].cur /\ moved(d).msg = conn[d].msg
  <2>1. moved(d) \in Connection /\ moved(d).cur = conn[d].cur /\ moved(d).msg = conn[d].msg
    <3>1. PICK r \in Replies : r = Refusal(m)
      BY <1>1 DEF Replies
    <3>2. PICK x \in Connection : x = [conn[d] EXCEPT !.pc = "audit"] /\ x.cur = conn[d].cur /\ x.msg = conn[d].msg
      <4>1. [conn[d] EXCEPT !.pc = "audit"] \in Connection
        BY <1>0 DEF Connection, Holds
      <4>2. [conn[d] EXCEPT !.pc = "audit"].cur = conn[d].cur /\ [conn[d] EXCEPT !.pc = "audit"].msg = conn[d].msg
        BY <1>0 DEF Connection
      <4> QED BY <4>1, <4>2
    <3>3. [x EXCEPT !.reply = r] \in Connection /\ [x EXCEPT !.reply = r].cur = x.cur /\ [x EXCEPT !.reply = r].msg = x.msg
      BY DEF Connection
    <3>4. d = c => moved(d) = [x EXCEPT !.reply = r]
      BY <3>1, <3>2
    <3> QED BY <1>0, <3>2, <3>3, <3>4
  <2>2. conn'[d] = [moved(d) EXCEPT !.cur = moved(d).cur \/ (moved(d).msg.es # None /\ Current(reg', moved(d).msg.es))]
    BY DEF DispatchRunner
  <2> QED BY <2>1, <2>2
<1>5. ASSUME NEW d \in Conns
      PROVE  conn'[d] = [moved(d) EXCEPT !.cur = now(d)] /\ moved(d) \in Connection
  BY <1>4
<1>6. ASSUME NEW d \in Conns
      PROVE  /\ conn'[d] \in Connection /\ conn'[d].cur = now(d)
             /\ conn'[d].id = conn[d].id /\ conn'[d].msg = conn[d].msg /\ conn'[d].todo = conn[d].todo
             /\ conn'[d].body = conn[d].body
             /\ d # c => conn'[d].pc = conn[d].pc /\ conn'[d].reply = conn[d].reply
             /\ d = c => conn'[d].pc = "audit" /\ conn'[d].reply = Refusal(m)
  <2>1. now(d) \in BOOLEAN
    BY <1>0 DEF Connection
  <2>2. /\ moved(d).id = conn[d].id /\ moved(d).msg = conn[d].msg /\ moved(d).todo = conn[d].todo
        /\ moved(d).body = conn[d].body
        /\ d # c => moved(d).pc = conn[d].pc /\ moved(d).reply = conn[d].reply
        /\ d = c => moved(d).pc = "audit" /\ moved(d).reply = Refusal(m)
    BY <1>0 DEF Connection
  <2> HIDE DEF now, moved
  <2>3. /\ conn'[d] \in Connection /\ conn'[d].cur = now(d)
        /\ conn'[d].id = moved(d).id /\ conn'[d].msg = moved(d).msg /\ conn'[d].todo = moved(d).todo
        /\ conn'[d].body = moved(d).body /\ conn'[d].pc = moved(d).pc /\ conn'[d].reply = moved(d).reply
    <3>1. PICK x \in Connection : x = moved(d)
      BY <1>5
    <3>2. PICK b \in BOOLEAN : b = now(d)
      BY <2>1
    <3>3. /\ [x EXCEPT !.cur = b] \in Connection /\ [x EXCEPT !.cur = b].cur = b
          /\ [x EXCEPT !.cur = b].id = x.id /\ [x EXCEPT !.cur = b].msg = x.msg
          /\ [x EXCEPT !.cur = b].todo = x.todo /\ [x EXCEPT !.cur = b].body = x.body
          /\ [x EXCEPT !.cur = b].pc = x.pc /\ [x EXCEPT !.cur = b].reply = x.reply
      BY DEF Connection
    <3>4. conn'[d] = [x EXCEPT !.cur = b]
      BY <1>5, <3>1, <3>2
    <3> QED BY <3>1, <3>2, <3>3, <3>4
  <2> QED BY <2>2, <2>3
<1>7. conn' \in [Conns -> Connection]
  <2>1. conn' = [d \in Conns |-> conn'[d]]
    BY DEF DispatchRunner
  <2> QED BY <1>6, <2>1
<1>8. ASSUME NEW d \in Conns PROVE CallerKnown(d)' /\ ValuesAllowed(d)' /\ RepliesTrue(d)'
  <2>0. conn[d] \in Connection /\ CallerKnown(d) /\ ValuesAllowed(d) /\ RepliesTrue(d)
    BY <1>0
  <2>1. CallerKnown(d)'
    BY <1>6, <1>b, <2>0 DEF CallerKnown
  <2>2. ValuesAllowed(d)'
    BY <1>6, <1>b, <2>0, ZenonT(60) DEF ValuesAllowed, Allowed
  <2>3. RepliesTrue(d)'
    <3>1. CASE d = c
      BY <1>6, <1>b, <1>c, <3>1 DEF RepliesTrue, Unread, Answered
    <3>2. CASE d # c
      BY <1>6, <1>b, <2>0, <3>2 DEF RepliesTrue, Allowed
    <3> QED BY <3>1, <3>2
  <2> QED BY <2>1, <2>2, <2>3
<1>9. SlotsConserved'
  <2>1. \A d \in Conns : conn'[d].pc \in Holds <=> conn[d].pc \in Holds
    BY <1>6, <1>b DEF Holds
  <2>2. {d \in Conns : conn'[d].pc \in Holds} = {d \in Conns : conn[d].pc \in Holds}
    BY <2>1
  <2> QED BY <1>0, <1>b, <2>2 DEF SlotsConserved
<1>10. TypeOK'
  <2>1. \A d \in Conns : conn'[d].pc \in Holds \cup {"idle", "queued", "replied"} /\ conn'[d].reply \in Replies
    BY <1>6 DEF Connection
  <2> QED BY <1>0, <1>3, <1>b, <2>1 DEF TypeOK
<1>11. CacheReal' /\ \A k \in Key : backend'[k] \in held'[k]
  BY <1>b DEF SpsInv, CacheReal
<1> QED BY <1>3, <1>7, <1>8, <1>9, <1>10, <1>11 DEF SpsInv

LEMMA SpsNext == ASSUME SpsAssumption, SpsInv, [Next]_vars PROVE SpsInv'
<1>1. CASE UNCHANGED vars
  BY <1>1, ZenonT(60) DEF vars, SpsInv, TypeOK, SlotsConserved, CacheReal, CallerKnown, Current, ValuesAllowed, RepliesTrue, Allowed
<1>2. ASSUME NEW c \in Conns, ServerStep(c) \/ NoThread(c) \/ Receive(c) PROVE SpsInv'
  BY <1>2, QuietNext, PermitNext, AuditNext, DispatchToolNext, DispatchRunnerNext, BackendReadNext,
     BackendWriteNext, ReceiveNext DEF ServerStep
<1> QED BY <1>1, <1>2, CallNext DEF Next

LEMMA GuardedBySpsInv == SpsInv => SecretsGuarded
<1>1. ASSUME SpsInv PROVE ReleasesAllowed
  BY <1>1 DEF SpsInv, ReleasesAllowed, ValuesAllowed, Allowed
<1>2. ASSUME SpsInv PROVE FailClosed
  BY <1>2 DEF SpsInv, FailClosed, RepliesTrue, Answered
<1> QED BY <1>1, <1>2 DEF SpsInv, SecretsGuarded

\* Values are released only to a process whose E_SECRET was registered during the call, and
\* only those of its tool or granted to it; nobody is told of a success, or given a value,
\* that the audit log does not have; and a tool's cache holds only values that the backend
\* has held: for any tools, declarations, connections, interleavings and faults.
THEOREM SecretsGuardedHolds == ASSUME SpsAssumption PROVE Spec => []SecretsGuarded
  BY GuardedBySpsInv, SpsInit, SpsNext, PTL DEF Spec

-----------------------------------------------------------------------------
(* The count of the rejections.  NotOvercounted says nothing of two workers that hold      *)
(* counts at the same time, so it is not inductive.  What is: the rejections there were,   *)
(* numbered, can be shared out among the summaries, the counter and the workers so that    *)
(* none is given out twice.                                                                *)

Shares(S, R, P) ==
    /\ S \in SUBSET (1 .. happened) /\ R \in SUBSET (1 .. happened)
    /\ P \in [Conns -> SUBSET (1 .. happened)]
    /\ Cardinality(S) = summed /\ Cardinality(R) = rejects
    /\ \A c \in Conns : Cardinality(P[c]) = conn[c].taken
    /\ S \cap R = {}
    /\ \A c \in Conns : P[c] \cap S = {} /\ P[c] \cap R = {}
    /\ \A c, d \in Conns : c # d => P[c] \cap P[d] = {}

SharedOut == \E S, R, P : Shares(S, R, P)

LEMMA PartFinite ==
  ASSUME happened \in Nat, NEW X \in SUBSET (1 .. happened)
  PROVE  IsFiniteSet(X) /\ Cardinality(X) \in Nat /\ Cardinality(X) <= happened
<1>1. IsFiniteSet(1 .. happened) /\ Cardinality(1 .. happened) = happened
  BY FS_Interval
<1> QED BY <1>1, FS_Subset, FS_CardinalityType

LEMMA DisjointParts ==
  ASSUME happened \in Nat, NEW X \in SUBSET (1 .. happened), NEW Y \in SUBSET (1 .. happened), X \cap Y = {}
  PROVE  Cardinality(X \cup Y) = Cardinality(X) + Cardinality(Y)
<1>1. IsFiniteSet(X) /\ IsFiniteSet(Y) /\ Cardinality(X) \in Nat /\ Cardinality(Y) \in Nat
  BY PartFinite
<1>2. Cardinality(X \cup Y) = Cardinality(X) + Cardinality(Y) - Cardinality(X \cap Y)
  BY <1>1, FS_Union
<1>3. Cardinality(X \cap Y) = 0
  BY FS_EmptySet
<1> QED BY <1>1, <1>2, <1>3

LEMMA SharedIsNotOver == ASSUME SpsInv, SharedOut PROVE NotOvercounted
<1>0. happened \in Nat /\ summed \in Nat /\ rejects \in Nat /\ \A c \in Conns : conn[c].taken \in Nat
  BY DEF SpsInv, TypeOK, Connection
<1>1. PICK S, R, P : Shares(S, R, P)
  BY DEF SharedOut
<1> USE DEF Shares
<1>2. Cardinality(S \cup R) = summed + rejects /\ S \cup R \in SUBSET (1 .. happened)
  BY <1>0, <1>1, DisjointParts
<1>3. summed + rejects <= happened
  BY <1>0, <1>2, PartFinite
<1>4. ASSUME NEW c \in Conns PROVE summed + rejects + conn[c].taken <= happened
  <2>1. P[c] \in SUBSET (1 .. happened) /\ (S \cup R) \cap P[c] = {}
    BY <1>1
  <2>2. Cardinality((S \cup R) \cup P[c]) = summed + rejects + conn[c].taken
    BY <1>0, <1>1, <1>2, <2>1, DisjointParts, ZenonT(60)
  <2>3. (S \cup R) \cup P[c] \in SUBSET (1 .. happened)
    BY <1>2, <2>1
  <2> QED BY <1>0, <2>2, <2>3, PartFinite
<1> QED BY <1>3, <1>4 DEF NotOvercounted

\* _record_reject: the new rejection is the counter's.
LEMMA ShareReject ==
  ASSUME SpsInv, SharedOut, Reject, \A d \in Conns : conn'[d].taken = conn[d].taken
  PROVE  SharedOut'
<1>0. happened \in Nat /\ rejects \in Nat /\ happened' = happened + 1 /\ rejects' = rejects + 1 /\ summed' = summed
  BY DEF SpsInv, TypeOK, Reject
<1>1. PICK S, R, P : Shares(S, R, P)
  BY DEF SharedOut
<1>q. PICK Q : Q = R \cup {happened + 1}
  OBVIOUS
<1>2. \A X \in SUBSET (1 .. happened) : X \in SUBSET (1 .. happened') /\ happened + 1 \notin X
  BY <1>0
<1>3. Cardinality(Q) = rejects' /\ Q \in SUBSET (1 .. happened')
  <2>1. IsFiniteSet(R) /\ happened + 1 \notin R /\ Cardinality(R) = rejects /\ R \in SUBSET (1 .. happened)
    BY <1>0, <1>1, <1>2, PartFinite DEF Shares
  <2>2. Cardinality(Q) = Cardinality(R) + 1
    BY <1>q, <2>1, FS_AddElement
  <2> QED BY <1>0, <1>q, <1>2, <2>1, <2>2
<1>4. S \cap Q = {} /\ \A c \in Conns : P[c] \cap Q = {}
  <2>1. S \in SUBSET (1 .. happened) /\ S \cap R = {}
    BY <1>1 DEF Shares
  <2>2. S \cap Q = {}
    BY <1>q, <1>2, <2>1
  <2>3. ASSUME NEW c \in Conns PROVE P[c] \cap Q = {}
    <3>1. P[c] \in SUBSET (1 .. happened) /\ P[c] \cap R = {}
      BY <1>1 DEF Shares
    <3> QED BY <1>q, <1>2, <3>1
  <2> QED BY <2>2, <2>3
<1>5. P \in [Conns -> SUBSET (1 .. happened')] /\ S \in SUBSET (1 .. happened')
  <2>1. P \in [Conns -> SUBSET (1 .. happened)] /\ S \in SUBSET (1 .. happened)
    BY <1>1 DEF Shares
  <2>2. SUBSET (1 .. happened) \subseteq SUBSET (1 .. happened')
    BY <1>2
  <2> QED BY <2>1, <2>2
<1>6. Shares(S, Q, P)'
  <2>1. Cardinality(S) = summed' /\ \A c \in Conns : Cardinality(P[c]) = conn'[c].taken
    BY <1>0, <1>1 DEF Shares
  <2>2. /\ \A c \in Conns : P[c] \cap S = {}
        /\ \A c, d \in Conns : c # d => P[c] \cap P[d] = {}
    BY <1>1 DEF Shares
  <2> QED BY <1>3, <1>4, <1>5, <2>1, <2>2 DEF Shares
<1> QED BY <1>6 DEF SharedOut

\* _flush_rejects takes the counter's share.
LEMMA ShareTake ==
  ASSUME SpsInv, SharedOut, NEW c \in Conns, rejects' = 0, conn'[c].taken = rejects,
         \A d \in Conns \ {c} : conn'[d].taken = conn[d].taken, UNCHANGED <<summed, happened>>
  PROVE  SharedOut'
<1>1. PICK S, R, P : Shares(S, R, P)
  BY DEF SharedOut
<1> DEFINE Q == [P EXCEPT ![c] = R]
<1>2. /\ Q \in [Conns -> SUBSET (1 .. happened)] /\ Q[c] = R /\ \A d \in Conns \ {c} : Q[d] = P[d]
  BY <1>1 DEF Shares
<1> HIDE DEF Q
<1>3. {} \in SUBSET (1 .. happened) /\ Cardinality({}) = 0
  BY FS_EmptySet
<1>4. \A d \in Conns : Cardinality(Q[d]) = conn'[d].taken
  BY <1>1, <1>2 DEF Shares
<1>5. \A d, e \in Conns : d # e => Q[d] \cap Q[e] = {}
  BY <1>1, <1>2 DEF Shares
<1>6. \A d \in Conns : Q[d] \cap S = {} /\ Q[d] \cap {} = {}
  BY <1>1, <1>2 DEF Shares
<1>7. Shares(S, {}, Q)'
  BY <1>1, <1>2, <1>3, <1>4, <1>5, <1>6 DEF Shares
<1> QED BY <1>7 DEF SharedOut

\* A worker's share goes to the summaries, or is lost with the worker.
LEMMA ShareGive ==
  ASSUME SpsInv, SharedOut, NEW c \in Conns, conn'[c].taken = 0,
         \A d \in Conns \ {c} : conn'[d].taken = conn[d].taken, UNCHANGED <<rejects, happened>>,
         summed' = summed \/ summed' = summed + conn[c].taken
  PROVE  SharedOut'
<1>0. happened \in Nat
  BY DEF SpsInv, TypeOK
<1>1. PICK S, R, P : Shares(S, R, P)
  BY DEF SharedOut
<1> DEFINE Q == [P EXCEPT ![c] = {}]
<1>2. /\ Q \in [Conns -> SUBSET (1 .. happened)] /\ Q[c] = {} /\ \A d \in Conns \ {c} : Q[d] = P[d]
  BY <1>1 DEF Shares
<1> HIDE DEF Q
<1>3. \A d \in Conns : Cardinality(Q[d]) = conn'[d].taken
  BY <1>1, <1>2, FS_EmptySet DEF Shares
<1>4. \A d, e \in Conns : d # e => Q[d] \cap Q[e] = {}
  BY <1>1, <1>2 DEF Shares
<1>5. PICK T : T \in SUBSET (1 .. happened) /\ Cardinality(T) = summed' /\ T \cap R = {} /\ \A d \in Conns : Q[d] \cap T = {}
  <2>1. CASE summed' = summed
    BY <1>1, <1>2, <2>1 DEF Shares
  <2>2. CASE summed' = summed + conn[c].taken
    <3>1. S \in SUBSET (1 .. happened) /\ P[c] \in SUBSET (1 .. happened) /\ S \cap P[c] = {}
      BY <1>1 DEF Shares
    <3>2. Cardinality(S \cup P[c]) = summed'
      BY <1>0, <1>1, <2>2, <3>1, DisjointParts DEF Shares
    <3>3. S \cup P[c] \in SUBSET (1 .. happened) /\ (S \cup P[c]) \cap R = {}
      BY <1>1, <3>1 DEF Shares
    <3>4. \A d \in Conns : Q[d] \cap (S \cup P[c]) = {}
      BY <1>1, <1>2 DEF Shares
    <3> QED BY <3>2, <3>3, <3>4
  <2> QED BY <2>1, <2>2
<1>6. \A d \in Conns : Q[d] \cap R = {}
  BY <1>1, <1>2 DEF Shares
<1>7. Shares(T, R, Q)'
  BY <1>1, <1>2, <1>3, <1>4, <1>5, <1>6 DEF Shares
<1> QED BY <1>7 DEF SharedOut

LEMMA ShareSame ==
  ASSUME SharedOut, UNCHANGED <<rejects, summed, happened>>, \A d \in Conns : conn'[d].taken = conn[d].taken
  PROVE  SharedOut'
<1>1. PICK S, R, P : Shares(S, R, P)
  BY DEF SharedOut
<1>2. Shares(S, R, P)'
  BY <1>1 DEF Shares
<1> QED BY <1>2 DEF SharedOut

LEMMA SharedInit == ASSUME Init PROVE SharedOut
<1>1. PICK P : P = [c \in Conns |-> {}]
  OBVIOUS
<1>2. Cardinality({}) = 0
  BY FS_EmptySet
<1>3. /\ rejects = 0 /\ summed = 0 /\ happened = 0 /\ conn = [c \in Conns |-> Idle]
  BY DEF Init
<1>4. \A c \in Conns : conn[c].taken = 0
  BY <1>3 DEF Idle
<1>5. P \in [Conns -> SUBSET (1 .. happened)] /\ \A c \in Conns : P[c] = {}
  BY <1>1
<1>6. Shares({}, {}, P)
  BY <1>2, <1>3, <1>4, <1>5 DEF Shares
<1> QED BY <1>6 DEF SharedOut

\* A step that writes fields of a connection other than taken leaves every worker its share.
LEMMA TakenStays ==
  ASSUME SpsInv, NEW c \in Conns, NEW fields, Set(c, fields), "taken" \notin DOMAIN fields
  PROVE  \A d \in Conns : conn'[d].taken = conn[d].taken
<1>1. conn \in [Conns -> Connection]
  BY DEF SpsInv
<1>2. /\ \A d \in Conns \ {c} : conn'[d] = conn[d]
      /\ \A f \in Fieldnames : conn'[c][f] = IF f \in DOMAIN fields THEN fields[f] ELSE conn[c][f]
  BY <1>1, SetFields
<1>3. conn'[c].taken = conn[c].taken
  BY <1>2 DEF Fieldnames
<1> QED BY <1>2, <1>3

LEMMA TakenSet ==
  ASSUME SpsInv, NEW c \in Conns, NEW p, NEW n, Set(c, [pc |-> p, taken |-> n])
  PROVE  conn'[c].taken = n /\ \A d \in Conns \ {c} : conn'[d].taken = conn[d].taken
<1>1. conn \in [Conns -> Connection]
  BY DEF SpsInv
<1>2. PICK fields : fields = [pc |-> p, taken |-> n]
  OBVIOUS
<1>3. "taken" \in DOMAIN fields /\ fields["taken"] = n
  BY <1>2
<1>4. Set(c, fields)
  BY <1>2
<1> QED BY <1>1, <1>3, <1>4, SetFields, ZenonT(60) DEF Fieldnames

LEMMA TakenRunner ==
  ASSUME SpsInv, NEW c \in Conns, DispatchRunner(c)
  PROVE  \A d \in Conns : conn'[d].taken = conn[d].taken
<1>0. conn \in [Conns -> Connection]
  BY DEF SpsInv
<1> DEFINE moved(d) == IF d = c THEN [conn[d] EXCEPT !.pc = "audit", !.reply = Refusal(conn[c].msg)] ELSE conn[d]
<1>1. ASSUME NEW d \in Conns PROVE conn'[d].taken = conn[d].taken
  <2>1. conn'[d] = [moved(d) EXCEPT !.cur = moved(d).cur \/ (moved(d).msg.es # None /\ Current(reg', moved(d).msg.es))]
    BY DEF DispatchRunner
  <2>2. conn[d] \in Connection
    BY <1>0
  <2>3. moved(d).taken = conn[d].taken /\ DOMAIN moved(d) = DOMAIN conn[d] /\ "taken" \in DOMAIN conn[d]
    BY <2>2 DEF Connection
  <2> HIDE DEF moved
  <2> QED BY <2>1, <2>3
<1> QED BY <1>1

\* The steps that move no count but those of a rejection.
LEMMA TakenKept ==
  ASSUME SpsInv, NEW c \in Conns,
         \/ \E m \in Messages : Call(c, m)
         \/ NoThread(c) \/ Admit(c) \/ Read(c) \/ DispatchRunner(c) \/ DispatchTool(c)
         \/ BackendRead(c) \/ BackendWrite(c) \/ Audit(c) \/ Reply(c) \/ Release(c)
  PROVE  \A d \in Conns : conn'[d].taken = conn[d].taken
<1> DEFINE Kept == \A d \in Conns : conn'[d].taken = conn[d].taken
<1>0. conn \in [Conns -> Connection]
  BY DEF SpsInv
<1>1. ASSUME NEW a, Set(c, [pc |-> a]) PROVE Kept
  BY <1>1, TakenStays
<1>2. ASSUME NEW a, NEW b, Set(c, [pc |-> a, reply |-> b]) PROVE Kept
  BY <1>2, TakenStays
<1>3. ASSUME NEW a, NEW b, Set(c, [pc |-> a, todo |-> b]) PROVE Kept
  BY <1>3, TakenStays
<1>4. ASSUME NEW a, NEW b, Set(c, [todo |-> a, body |-> b]) PROVE Kept
  BY <1>4, TakenStays
<1>5. ASSUME NEW a, NEW b, NEW m, Set(c, [pc |-> a, reply |-> b, msg |-> m]) PROVE Kept
  <2>1. PICK fields : fields = [pc |-> a, reply |-> b, msg |-> m]
    OBVIOUS
  <2>2. Set(c, fields) /\ "taken" \notin DOMAIN fields
    BY <1>5, <2>1
  <2> QED BY <2>2, TakenStays
<1>6. ASSUME NEW a, NEW b, NEW m, Set(c, [pc |-> a, reply |-> b, todo |-> m]) PROVE Kept
  <2>1. PICK fields : fields = [pc |-> a, reply |-> b, todo |-> m]
    OBVIOUS
  <2>2. Set(c, fields) /\ "taken" \notin DOMAIN fields
    BY <1>6, <2>1
  <2> QED BY <2>2, TakenStays
<1>7. ASSUME NEW a, NEW b, NEW m, Set(c, [pc |-> a, reply |-> b, body |-> m]) PROVE Kept
  <2>1. PICK fields : fields = [pc |-> a, reply |-> b, body |-> m]
    OBVIOUS
  <2>2. Set(c, fields) /\ "taken" \notin DOMAIN fields
    BY <1>7, <2>1
  <2> QED BY <2>2, TakenStays
<1>8. ASSUME NEW a, NEW b, NEW m, NEW n, Set(c, [pc |-> a, reply |-> b, body |-> m, todo |-> n]) PROVE Kept
  <2>1. PICK fields : fields = [pc |-> a, reply |-> b, body |-> m, todo |-> n]
    OBVIOUS
  <2>2. Set(c, fields) /\ "taken" \notin DOMAIN fields
    BY <1>8, <2>1
  <2> QED BY <2>2, TakenStays
<1>9. ASSUME NEW a, NEW b, NEW m, NEW n, Set(c, [pc |-> a, id |-> b, msg |-> m, cur |-> n]) PROVE Kept
  <2>1. PICK fields : fields = [pc |-> a, id |-> b, msg |-> m, cur |-> n]
    OBVIOUS
  <2>2. Set(c, fields) /\ "taken" \notin DOMAIN fields
    BY <1>9, <2>1
  <2> QED BY <2>2, TakenStays
<1>10. ASSUME DispatchRunner(c) PROVE Kept
  BY <1>10, TakenRunner
<1> HIDE DEF Kept
<1>11. ASSUME \E m \in Messages : Call(c, m) PROVE Kept
  BY <1>9, <1>11, Zenon DEF Call
<1>12. ASSUME NoThread(c) \/ Admit(c) \/ Reply(c) \/ Release(c) PROVE Kept
  BY <1>1, <1>2, <1>12, Zenon DEF NoThread, Admit, Reply, Release
<1>13. ASSUME Read(c) PROVE Kept
  BY <1>1, <1>2, <1>5, <1>13, Zenon DEF Read
<1>14. ASSUME DispatchTool(c) PROVE Kept
  BY <1>2, <1>3, <1>14, Zenon DEF DispatchTool
<1>15. ASSUME BackendRead(c) PROVE Kept
  BY <1>2, <1>4, <1>8, <1>15, Zenon DEF BackendRead
<1>16. ASSUME BackendWrite(c) PROVE Kept
  BY <1>6, <1>16, Zenon DEF BackendWrite
<1>17. ASSUME Audit(c) PROVE Kept
  BY <1>1, <1>7, <1>17, Zenon DEF Audit
<1>18. Kept
  BY <1>10, <1>11, <1>12, <1>13, <1>14, <1>15, <1>16, <1>17
<1> QED BY <1>18 DEF Kept

LEMMA SharedNext == ASSUME SpsInv, SharedOut, [Next]_vars PROVE SharedOut'
<1>1. CASE UNCHANGED vars
  <2>1. UNCHANGED <<rejects, summed, happened>> /\ UNCHANGED conn
    BY <1>1 DEF vars
  <2> QED BY <2>1, ShareSame
<1>2. ASSUME NEW c \in Conns,
             \/ \E m \in Messages : Call(c, m)
             \/ NoThread(c) \/ Admit(c) \/ Read(c) \/ DispatchRunner(c) \/ DispatchTool(c)
             \/ BackendRead(c) \/ BackendWrite(c) \/ Audit(c) \/ Reply(c) \/ Release(c)
      PROVE  SharedOut'
  <2>1. \A d \in Conns : conn'[d].taken = conn[d].taken
    BY <1>2, TakenKept
  <2>2. UNCHANGED <<rejects, summed, happened>> \/ Reject
    BY <1>2, Zenon DEF Call, NoThread, Admit, Read, DispatchRunner, DispatchTool, BackendRead, BackendWrite,
       Audit, Reply, Release, counts
  <2> QED BY <2>1, <2>2, ShareSame, ShareReject
<1>3. ASSUME NEW c \in Conns, FlushTake(c) PROVE SharedOut'
  <2>1. CASE rejects' = 0 /\ Set(c, [pc |-> Flushing(conn[c].pc), taken |-> rejects])
    <3>1. UNCHANGED <<summed, happened>>
      BY <1>3 DEF FlushTake
    <3> QED BY <2>1, <3>1, TakenSet, ShareTake
  <2>2. CASE UNCHANGED rejects /\ Set(c, [pc |-> After(conn[c].pc)])
    <3>1. UNCHANGED <<rejects, summed, happened>>
      BY <1>3, <2>2 DEF FlushTake
    <3>2. \A d \in Conns : conn'[d].taken = conn[d].taken
      BY <2>2, TakenStays
    <3> QED BY <3>1, <3>2, ShareSame
  <2> QED BY <1>3, <2>1, <2>2 DEF FlushTake
<1>4. ASSUME NEW c \in Conns, FlushWrite(c) PROVE SharedOut'
  <2>1. PICK p : Set(c, [pc |-> p, taken |-> 0])
    BY <1>4, SMTT(60) DEF FlushWrite
  <2>2. conn'[c].taken = 0 /\ \A d \in Conns \ {c} : conn'[d].taken = conn[d].taken
    BY <2>1, TakenSet
  <2>3. UNCHANGED <<rejects, happened>> /\ (summed' = summed \/ summed' = summed + conn[c].taken)
    BY <1>4 DEF FlushWrite
  <2> QED BY <2>2, <2>3, ShareGive
<1>5. ASSUME NEW c \in Conns, Receive(c) PROVE SharedOut'
  <2>1. conn' = [conn EXCEPT ![c] = Idle] /\ UNCHANGED <<rejects, summed, happened>>
    BY <1>5 DEF Receive, counts
  <2>2. conn'[c].taken = 0 /\ \A d \in Conns \ {c} : conn'[d].taken = conn[d].taken
    BY <2>1 DEF SpsInv, Idle
  <2> QED BY <2>1, <2>2, ShareGive, SMTT(60)
<1> QED BY <1>1, <1>2, <1>3, <1>4, <1>5 DEF Next, ServerStep

LEMMA CountedByShares == SpsInv /\ SharedOut => WorkersCounted
  BY SharedIsNotOver DEF SpsInv, WorkersCounted

\* BoundedSemaphore(max_workers) and _flush_rejects: the permits and the workers that hold
\* one add up whatever breaks, and the summaries never count a rejection twice, however the
\* workers interleave.
THEOREM WorkersCountedHolds == ASSUME SpsAssumption PROVE Spec => []WorkersCounted
<1>1. Init => SpsInv /\ SharedOut
  BY SpsInit, SharedInit
<1>2. SpsInv /\ SharedOut /\ [Next]_vars => SpsInv' /\ SharedOut'
  BY SpsNext, SharedNext
<1> QED BY <1>1, <1>2, CountedByShares, PTL DEF Spec

-----------------------------------------------------------------------------
(* Commit points *)

LEMMA ClaimTypeInit == ASSUME Txn!ReloadsAssumption, Txn!Init PROVE Txn!TypeOK /\ Txn!NoLeakedTransaction
<1>1. db \in Txn!Db
  BY DEF Txn!Init, Txn!Db, Txn!Status, Txn!AppStatus
<1>2. reloads \in 0 .. Reloads
  BY DEF Txn!ReloadsAssumption, Txn!Init
<1> QED BY <1>1, <1>2 DEF Txn!Init, Txn!TypeOK, Txn!NoLeakedTransaction, Txn!Ops

LEMMA ViewType == ASSUME Txn!TypeOK PROVE Txn!View \in Txn!Db
  BY DEF Txn!TypeOK, Txn!View

LEMMA ClaimTypeNext ==
  ASSUME Txn!ReloadsAssumption, Txn!TypeOK, Txn!NoLeakedTransaction, [Txn!Next]_(Txn!vars)
  PROVE  Txn!TypeOK' /\ Txn!NoLeakedTransaction'
<1> USE DEF Txn!TypeOK, Txn!NoLeakedTransaction
<1>0. Txn!View \in Txn!Db
  BY ViewType
<1>1. ASSUME NEW o \in Txn!Ops, Txn!Begin(o) PROVE Txn!TypeOK' /\ Txn!NoLeakedTransaction'
  BY <1>1 DEF Txn!Begin
<1>2. CASE Txn!ReadRows
  BY <1>2, <1>0 DEF Txn!ReadRows
<1>3. CASE Txn!ReadAuthority \/ Txn!ReadPolicy
  BY <1>3 DEF Txn!ReadAuthority, Txn!ReadPolicy
<1>4. CASE Txn!UpdateRequest
  <2>1. \A s \in Txn!Status : [Txn!View EXCEPT !.req = s] \in Txn!Db
    BY <1>0 DEF Txn!Db
  <2>2. tx' \in Txn!Db /\ writer' \in {"free", "broker"}
    BY <1>4, <1>0, <2>1 DEF Txn!UpdateRequest, Txn!Write, Txn!Status
  <2> QED BY <1>4, <2>2 DEF Txn!UpdateRequest
<1>5. CASE Txn!UpdateApproval
  <2>1. \A s \in Txn!AppStatus : [Txn!View EXCEPT !.app = s] \in Txn!Db
    BY <1>0 DEF Txn!Db
  <2>2. tx' \in Txn!Db /\ writer' \in {"free", "broker"}
    BY <1>5, <1>0, <2>1 DEF Txn!UpdateApproval, Txn!Write, Txn!AppStatus
  <2> QED BY <1>5, <2>2 DEF Txn!UpdateApproval
<1>6. CASE Txn!Commit
  BY <1>6, <1>0 DEF Txn!Commit
<1>7. CASE Txn!Sighup
  BY <1>7, <1>0 DEF Txn!Sighup, Txn!ReloadsAssumption
<1>8. CASE Txn!RevokeCaller
  BY <1>8 DEF Txn!RevokeCaller
<1>9. CASE Txn!CancelPending \/ Txn!WritePolicy \/ Txn!Park
  <2>1. db' \in Txn!Db
    BY <1>9 DEF Txn!CancelPending, Txn!WritePolicy, Txn!Park, Txn!Db, Txn!Status, Txn!AppStatus
  <2> QED BY <1>9, <2>1 DEF Txn!CancelPending, Txn!WritePolicy, Txn!Park
<1>10. CASE UNCHANGED Txn!vars
  BY <1>10 DEF Txn!vars
<1> QED BY <1>1, <1>2, <1>3, <1>4, <1>5, <1>6, <1>7, <1>8, <1>9, <1>10 DEF Txn!Next

LEMMA ClaimInit == ASSUME Txn!Init PROVE Txn!RowsTogether /\ (writer = "free" <=> pc = "idle")
  BY DEF Txn!Init, Txn!RowsTogether, Txn!Final

\* The rows that a commit point leaves agree, if the ones it has read do.
LEMMA GoalsAgree ==
  ASSUME Txn!TypeOK, Txn!RowsTogether, ok => db = Txn!Wanted(op)
  PROVE  LET r == Txn!RequestGoal
             a == Txn!ApprovalGoal
         IN /\ r = "pending_approval" <=> a = "pending"
            /\ a = "approved" => r = "executing"
            /\ a \in {"cancelled", "rejected"} => r \in Txn!Final
  BY DEF Txn!TypeOK, Txn!RowsTogether, Txn!Wanted, Txn!RequestGoal, Txn!ApprovalGoal, Txn!Final, Txn!Db,
         Txn!Status, Txn!AppStatus, Txn!Ops

\* Every step of a commit point without a SIGHUP.
LEMMA ClaimNext ==
  ASSUME Reloads = 0, Txn!ClaimInv, Txn!TypeOK', [Txn!Next]_(Txn!vars)
  PROVE  Txn!ClaimInv'
<1> USE DEF Txn!ClaimInv
<1>0. Txn!TypeOK /\ Txn!RowsTogether
  OBVIOUS
<1>1. ASSUME NEW o \in Txn!Ops, Txn!Begin(o) PROVE Txn!ClaimInv'
  BY <1>1, <1>0 DEF Txn!Begin, Txn!RowsTogether, Txn!InTransaction
<1>2. CASE Txn!ReadRows
  <2>1. Txn!View = db /\ writer = "broker" /\ tx = db
    BY <1>2 DEF Txn!ReadRows, Txn!InTransaction, Txn!View, Txn!TypeOK
  <2> QED BY <1>2, <2>1 DEF Txn!ReadRows, Txn!InTransaction, Txn!RowsTogether, Txn!Wanted
<1>3. CASE Txn!ReadAuthority
  BY <1>3 DEF Txn!ReadAuthority, Txn!InTransaction, Txn!RowsTogether, Txn!Wanted
<1>4. CASE Txn!ReadPolicy
  BY <1>4 DEF Txn!ReadPolicy, Txn!InTransaction, Txn!RowsTogether, Txn!Wanted
<1>5. CASE Txn!UpdateRequest
  <2>1. Txn!View = db /\ writer = "broker" /\ tx = db /\ seen = db /\ pc = "request"
    BY <1>5 DEF Txn!UpdateRequest, Txn!InTransaction, Txn!View, Txn!TypeOK
  <2>2. db = [req |-> db.req, app |-> db.app]
    BY DEF Txn!TypeOK, Txn!Db
  <2>3. Txn!RequestGoal' = Txn!RequestGoal /\ UNCHANGED <<db, revoked, repolicied, op, seen, ok>>
    BY <1>5 DEF Txn!UpdateRequest, Txn!RequestGoal
  <2>4. tx' = [req |-> Txn!RequestGoal, app |-> db.app] /\ writer' = "broker"
    BY <1>5, <2>1, <2>2 DEF Txn!UpdateRequest, Txn!InTransaction, Txn!RequestGoal, Txn!Write, Txn!Wanted,
                            Txn!TypeOK, Txn!Ops
  <2> QED BY <1>5, <2>1, <2>3, <2>4 DEF Txn!UpdateRequest, Txn!InTransaction, Txn!RowsTogether, Txn!Wanted
<1>6. CASE Txn!UpdateApproval
  <2>1. Txn!View = tx /\ writer = "broker" /\ seen = db /\ pc = "approval" /\ tx = [req |-> Txn!RequestGoal, app |-> db.app]
    BY <1>6 DEF Txn!UpdateApproval, Txn!InTransaction, Txn!View, Txn!TypeOK
  <2>3. /\ Txn!RequestGoal' = Txn!RequestGoal /\ Txn!ApprovalGoal' = Txn!ApprovalGoal
        /\ UNCHANGED <<db, revoked, repolicied, op, seen, ok>>
    BY <1>6 DEF Txn!UpdateApproval, Txn!RequestGoal, Txn!ApprovalGoal
  <2>4. tx' = [req |-> Txn!RequestGoal, app |-> Txn!ApprovalGoal] /\ writer' = "broker"
    <3> HIDE DEF Txn!RequestGoal
    <3> QED BY <1>6, <2>1 DEF Txn!UpdateApproval, Txn!InTransaction, Txn!ApprovalGoal, Txn!Write,
                              Txn!Wanted, Txn!TypeOK, Txn!Ops, Txn!RowsTogether
  <2> QED BY <1>6, <2>1, <2>3, <2>4 DEF Txn!UpdateApproval, Txn!InTransaction, Txn!RowsTogether, Txn!Wanted
<1>7. CASE Txn!Commit
  <2>1. db' = [req |-> Txn!RequestGoal, app |-> Txn!ApprovalGoal] /\ writer' = "free" /\ pc' = "idle"
    BY <1>7 DEF Txn!Commit, Txn!View, Txn!InTransaction, Txn!TypeOK
  <2>2. Txn!RowsTogether'
    BY <1>7, <2>1, GoalsAgree DEF Txn!Commit, Txn!InTransaction, Txn!RowsTogether
  <2> QED BY <2>1, <2>2
<1>8. CASE Txn!Sighup
  BY <1>8 DEF Txn!Sighup, Txn!TypeOK
<1>9. CASE Txn!RevokeCaller \/ Txn!CancelPending \/ Txn!WritePolicy \/ Txn!Park
  BY <1>9 DEF Txn!RevokeCaller, Txn!CancelPending, Txn!WritePolicy, Txn!Park, Txn!RowsTogether,
              Txn!TypeOK, Txn!Db, Txn!Status, Txn!AppStatus, Txn!Final
<1>10. CASE UNCHANGED Txn!vars
  BY <1>10 DEF Txn!vars, Txn!InTransaction, Txn!RowsTogether, Txn!Wanted, Txn!RequestGoal, Txn!ApprovalGoal
<1> QED BY <1>1, <1>2, <1>3, <1>4, <1>5, <1>6, <1>7, <1>8, <1>9, <1>10 DEF Txn!Next

LEMMA ClaimAtomicInit == ASSUME Txn!ReloadsAssumption, Txn!Init PROVE Txn!ClaimAtomic
  BY ClaimTypeInit, ClaimInit DEF Txn!ClaimAtomic, Txn!ClaimInv, Txn!Init

LEMMA ClaimAtomicNext == ASSUME Txn!ReloadsAssumption, Txn!ClaimAtomic,
[Txn!Next]_(Txn!vars) PROVE Txn!ClaimAtomic'
<1>1. Txn!TypeOK' /\ Txn!NoLeakedTransaction'
  BY ClaimTypeNext DEF Txn!ClaimAtomic
<1>2. ASSUME Reloads = 0 PROVE Txn!ClaimInv'
  BY <1>1, <1>2, ClaimNext DEF Txn!ClaimAtomic
<1> QED BY <1>1, <1>2 DEF Txn!ClaimAtomic

\* However operators and the broker interleave, the two rows of a request agree for every
\* other connection while no SIGHUP splits a commit point, and with any number of SIGHUPs
\* no commit point leaves its transaction open.
THEOREM ClaimAtomicHolds == ASSUME Txn!ReloadsAssumption PROVE Txn!Spec => []Txn!ClaimAtomic
  BY ClaimAtomicInit, ClaimAtomicNext, PTL DEF Txn!Spec

\* Only Commit can make a request executing, and what it commits was read under the lock.
LEMMA ClaimCurrent ==
  ASSUME Reloads = 0, Txn!ClaimAtomic, [Txn!Next]_(Txn!vars) PROVE [Txn!ClaimIsCurrent]_(Txn!vars)
<1>0. Txn!ClaimInv /\ Txn!TypeOK /\ Txn!RowsTogether
  BY DEF Txn!ClaimAtomic, Txn!ClaimInv
<1>1. CASE Txn!Commit
  <2>1. pc = "commit" /\ writer = "broker" /\ Txn!InTransaction /\ db' = tx /\ db'.req = Txn!RequestGoal
    BY <1>0, <1>1 DEF Txn!ClaimInv, Txn!Commit, Txn!View, Txn!TypeOK, Txn!InTransaction
  <2>2. ASSUME db.req # "executing", db'.req = "executing" PROVE ok /\ op # "finish_pending"
    BY <2>1, <2>2, <1>0 DEF Txn!RequestGoal
  <2>3. ok /\ op # "finish_pending" => db.req \notin Txn!Final /\ ~revoked /\ ~repolicied
    BY <2>1 DEF Txn!InTransaction, Txn!Wanted, Txn!Final
  <2> QED BY <2>2, <2>3 DEF Txn!ClaimIsCurrent
<1>2. CASE Txn!CancelPending \/ Txn!WritePolicy \/ Txn!Park
  BY <1>2, <1>0 DEF Txn!CancelPending, Txn!WritePolicy, Txn!Park, Txn!ClaimIsCurrent
<1>3. CASE db' = db
  BY <1>3 DEF Txn!ClaimIsCurrent
<1>4. ~Txn!Sighup
  BY <1>0 DEF Txn!Sighup, Txn!TypeOK
<1>5. Txn!Commit \/ Txn!CancelPending \/ Txn!WritePolicy \/ Txn!Park \/ db' = db
  BY <1>4 DEF Txn!Next, Txn!vars, Txn!Begin, Txn!ReadRows, Txn!ReadAuthority, Txn!ReadPolicy,
              Txn!UpdateRequest, Txn!UpdateApproval,
     Txn!RevokeCaller
<1> QED BY <1>1, <1>2, <1>3, <1>5

\* "revocation/cancellation wins until this transaction claims": a request is committed to
\* its tool only from the state it waited in, with a live caller and under its policy.
THEOREM RevocationWinsHolds == ASSUME Reloads = 0 PROVE Txn!Spec => Txn!RevocationWins
<1>1. Txn!ReloadsAssumption
  BY DEF Txn!ReloadsAssumption
<1>2. Txn!Spec => []Txn!ClaimAtomic
  BY <1>1, ClaimAtomicHolds
<1> QED BY <1>2, ClaimCurrent, PTL DEF Txn!Spec, Txn!RevocationWins

-----------------------------------------------------------------------------
(* Snapshots and restores *)

\* A broker's step keeps the installation and its audit record, and nothing is done with a
\* request that is over.
LEMMA StepsKeep ==
  ASSUME NEW d \in Copies!Rows, NEW e \in Copies!Steps(d)
  PROVE  /\ e \in Copies!Rows /\ e.uuid = d.uuid /\ e.audited = d.audited
         /\ d.request \notin {"expired", "completed", "unknown"}
<1> USE DEF Copies!Rows, Copies!Requests
<1>1. CASE d.request = "absent" /\ e \in Copies!Submitted(d)
  BY <1>1 DEF Copies!Submitted
<1>2. CASE d.request = "received" /\ e = [d EXCEPT !.request = "executing"]
  BY <1>2
<1>3. CASE d.request = "pending" /\ e \in {[d EXCEPT !.request = "executing", !.approval = FALSE],
                                          [d EXCEPT !.request = "expired", !.approval = FALSE]}
  BY <1>3
<1>4. CASE d.request = "executing" /\ e \in {[d EXCEPT !.request = "completed"], [d EXCEPT !.request = "unknown"]}
  BY <1>4
<1>5. \/ d.request = "absent" /\ e \in Copies!Submitted(d)
      \/ d.request = "received" /\ e = [d EXCEPT !.request = "executing"]
      \/ d.request = "pending" /\ e \in {[d EXCEPT !.request = "executing", !.approval = FALSE],
                                         [d EXCEPT !.request = "expired", !.approval = FALSE]}
      \/ d.request = "executing" /\ e \in {[d EXCEPT !.request = "completed"], [d EXCEPT !.request = "unknown"]}
  BY Zenon DEF Copies!Steps
<1> QED BY <1>1, <1>2, <1>3, <1>4, <1>5

LEMMA ExecutesCounts == \A d, e : Copies!Executes(d, e) \in Nat
  BY DEF Copies!Executes

\* What sanitize leaves of a snapshot.
LEMMA SanitizedEnds ==
  ASSUME NEW d \in Copies!Rows, d.uuid = 0
  PROVE  LET e == Copies!Sanitized(d)
         IN /\ e \in Copies!Rows /\ e.uuid = 1
            /\ [e EXCEPT !.audited = TRUE] \in Copies!Rows /\ [e EXCEPT !.audited = TRUE].uuid = 1
            /\ [e EXCEPT !.audited = TRUE].audited
            /\ d.request # "absent" =>
                  [e EXCEPT !.audited = TRUE].request \in {"expired", "completed", "unknown"}
<1> USE DEF Copies!Rows, Copies!Requests
<1>1. Copies!Sanitized(d) \in Copies!Rows /\ Copies!Sanitized(d).uuid = 1
  <2> DEFINE bare == [d EXCEPT !.approval = FALSE, !.token = FALSE, !.policy = FALSE]
             over(r) == IF r = "pending" THEN "expired" ELSE IF r \in {"received", "executing"} THEN "unknown" ELSE r
  <2>1. bare \in Copies!Rows /\ bare.uuid = 0 /\ over(bare.request) \in Copies!Requests
    OBVIOUS
  <2>3. Copies!Sanitized(d) = [bare EXCEPT !.uuid = bare.uuid + 1, !.request = over(bare.request)]
    BY DEF Copies!Sanitized
  <2>2. bare.uuid + 1 = 1
    BY <2>1
  <2>5. Copies!Sanitized(d) = [bare EXCEPT !.uuid = 1, !.request = over(bare.request)]
    BY <2>3, <2>2
  <2> HIDE DEF bare, over
  <2>6. PICK r \in Copies!Requests : r = over(bare.request)
    BY <2>1
  <2>7. Copies!Sanitized(d) = [bare EXCEPT !.uuid = 1, !.request = r]
    BY <2>5, <2>6
  <2>8. Copies!Sanitized(d) \in Copies!Rows
    <3>1. PICK m \in Copies!Rows : m = [bare EXCEPT !.uuid = 1]
      BY <2>1
    <3>2. [m EXCEPT !.request = r] \in Copies!Rows
      BY <2>6
    <3> QED BY <2>7, <3>1, <3>2
  <2>9. Copies!Sanitized(d).uuid = 1
    BY <2>1, <2>7
  <2> QED BY <2>8, <2>9
<1>2. d.request # "absent" => Copies!Sanitized(d).request \in {"expired", "completed", "unknown"}
  BY DEF Copies!Sanitized
<1> QED BY <1>1, <1>2

LEMMA BackupInit == ASSUME Copies!BackupAssumption, Copies!Init PROVE Copies!BackupInv
<1> USE DEF Copies!Init
<1>1. source \in Copies!Rows /\ source.uuid = 0
  BY DEF Copies!Fresh, Copies!Rows, Copies!Requests
<1>2. Copies!Idle \in Copies!Commands
  BY DEF Copies!Commands
<1>3. New \in Copies!Paths /\ Snap \in Copies!Paths
  BY DEF Copies!Paths
<1>4. \A q \in Procs : Copies!StageSound(q)
  BY DEF Copies!StageSound, Copies!Idle, Copies!BackupAssumption, Copies!Stages
<1> QED BY <1>1, <1>2, <1>3, <1>4 DEF Copies!BackupInv

LEMMA BackupNext ==
  ASSUME Copies!BackupAssumption, Copies!BackupInv, [Copies!Next]_(Copies!vars)
  PROVE  Copies!BackupInv'
<1> DEFINE Same == UNCHANGED <<source, fs, ran, origin>>
<1>0. /\ Snap # New /\ "db" \notin {Snap, New} /\ Copies!Paths = {Snap, New}
      /\ None \notin Copies!Rows /\ None \notin Copies!Stages /\ None \notin {"backup", "restore", "absent"}
  BY DEF Copies!BackupAssumption, Copies!Paths
<1>1. CASE Copies!BrokerStep
  <2>1. PICK e \in Copies!Steps(source) :
            source' = e /\ ran' = [ran EXCEPT !["db"] = @ + Copies!Executes(source, e)]
    BY <1>1 DEF Copies!BrokerStep
  <2>2. source' \in Copies!Rows /\ source'.uuid = 0
    BY <2>1, StepsKeep DEF Copies!BackupInv
  <2>3. ran' \in [Copies!Paths \cup {"db"} -> Nat] /\ ran'[New] = ran[New]
    BY <2>1, <1>0, ExecutesCounts DEF Copies!BackupInv
  <2>4. UNCHANGED <<fs, stage, proc, orphans, origin>>
    BY <1>1 DEF Copies!BrokerStep
  <2>5. \A q \in Procs : Copies!StageSound(q)'
    BY <2>4 DEF Copies!BackupInv, Copies!StageSound
  <2> QED BY <2>2, <2>3, <2>4, <2>5 DEF Copies!BackupInv
<1>2. CASE Copies!RestoredStep
  <2>0. fs[New] # None /\ fs[New] \in Copies!Rows
    BY <1>2, <1>0 DEF Copies!RestoredStep, Copies!Openable, Copies!BackupInv
  <2>1. PICK e \in Copies!Steps(fs[New]) \cup {[fs[New] EXCEPT !.token = TRUE], [fs[New] EXCEPT !.policy = TRUE]} :
            /\ fs' = [fs EXCEPT ![New] = e]
            /\ ran' = [ran EXCEPT ![New] = @ + Copies!Executes(fs[New], e)]
    BY <1>2 DEF Copies!RestoredStep
  <2>2. /\ e \in Copies!Rows /\ e.uuid = fs[New].uuid /\ e.audited = fs[New].audited
        /\ fs[New].request \in {"expired", "completed", "unknown"} => e.request = fs[New].request
    <3>1. CASE e \in Copies!Steps(fs[New])
      BY <3>1, <2>0, StepsKeep
    <3>2. CASE e \in {[fs[New] EXCEPT !.token = TRUE], [fs[New] EXCEPT !.policy = TRUE]}
      BY <3>2, <2>0 DEF Copies!Rows
    <3> QED BY <3>1, <3>2
  <2>3. fs'[New] = e /\ fs'[Snap] = fs[Snap] /\ fs' \in [Copies!Paths -> Copies!Rows \cup {None}]
    BY <2>1, <2>2, <1>0 DEF Copies!BackupInv
  <2>4. /\ ran' \in [Copies!Paths \cup {"db"} -> Nat]
        /\ ran'[New] = ran[New] + Copies!Executes(fs[New], e)
    BY <2>1, <1>0, ExecutesCounts DEF Copies!BackupInv
  <2>5. fs[New].request \in {"expired", "completed", "unknown"} => ran'[New] = ran[New]
    BY <2>4, <2>2, <1>0 DEF Copies!Executes, Copies!BackupInv
  <2>6. UNCHANGED <<source, stage, proc, origin>>
    BY <1>2 DEF Copies!RestoredStep
  <2>7. \A q \in Procs : Copies!StageSound(q)'
    BY <2>6, <2>3 DEF Copies!BackupInv, Copies!StageSound
  <2> QED BY <1>0, <2>0, <2>2, <2>3, <2>4, <2>5, <2>6, <2>7 DEF Copies!BackupInv
<1>3. CASE Copies!Tidy \/ UNCHANGED Copies!vars
  <2>1. UNCHANGED <<source, fs, stage, proc, ran, origin>>
    BY <1>3 DEF Copies!Tidy, Copies!vars
  <2>2. \A q \in Procs : Copies!StageSound(q)'
    BY <2>1 DEF Copies!BackupInv, Copies!StageSound
  <2> QED BY <2>1, <2>2 DEF Copies!BackupInv
\* The steps of one command, which touch nothing of another's.
<1>4. ASSUME NEW q \in Procs, NEW j \in Copies!Commands, NEW r \in Copies!Rows \cup {None, Empty},
             proc' = [proc EXCEPT ![q] = j], stage' = [stage EXCEPT ![q] = r], Same,
             Copies!StageSound(q)'
      PROVE  Copies!BackupInv'
  <2>1. \A p \in Procs \ {q} : proc'[p] = proc[p] /\ stage'[p] = stage[p]
    BY <1>4 DEF Copies!BackupInv
  <2>2. \A p \in Procs : Copies!StageSound(p)'
    BY <1>4, <2>1 DEF Copies!BackupInv, Copies!StageSound
  <2> QED BY <1>4, <2>2 DEF Copies!BackupInv
<1>5. ASSUME NEW q \in Procs, Copies!Finish(q), Same PROVE Copies!BackupInv'
  <2>1. Copies!Idle \in Copies!Commands /\ proc'[q] = Copies!Idle
    BY <1>5 DEF Copies!Finish, Copies!Commands, Copies!BackupInv
  <2>2. Copies!StageSound(q)'
    BY <2>1, <1>0 DEF Copies!StageSound, Copies!Idle, Copies!Stages
  <2> QED BY <1>4, <1>5, <2>1, <2>2 DEF Copies!Finish
<1>6. ASSUME NEW q \in Procs, Copies!BackupStart(q) \/ Copies!RestoreStart(q) PROVE Copies!BackupInv'
  <2>1. PICK j \in Copies!Commands : /\ proc' = [proc EXCEPT ![q] = j] /\ j.pc = "copy"
                                     /\ j.kind = "restore" => fs[Snap] # None
    <3>1. CASE Copies!BackupStart(q)
      <4>1. [kind |-> "backup", pc |-> "copy", to |-> Snap] \in Copies!Commands
        BY DEF Copies!Commands
      <4> QED BY <3>1, <4>1 DEF Copies!BackupStart
    <3>2. CASE Copies!RestoreStart(q)
      <4>1. [kind |-> "restore", pc |-> "copy", to |-> New] \in Copies!Commands
        BY DEF Copies!Commands, Copies!Stages
      <4> QED BY <3>2, <4>1 DEF Copies!RestoreStart, Copies!Openable
    <3> QED BY <1>6, <3>1, <3>2
  <2>2. proc'[q] = j /\ stage' = [stage EXCEPT ![q] = Empty] /\ Same
    BY <1>6, <2>1 DEF Copies!BackupStart, Copies!RestoreStart, Copies!BackupInv
  <2>3. Copies!StageSound(q)'
    BY <2>1, <2>2 DEF Copies!StageSound
  <2> QED BY <1>4, <2>1, <2>2, <2>3
<1>7. ASSUME NEW q \in Procs, Copies!Copy(q) PROVE Copies!BackupInv'
  <2>1. Same /\ proc[q].pc = "copy"
    BY <1>7 DEF Copies!Copy, Copies!At
  <2>2. CASE Copies!Finish(q)
    BY <1>5, <2>1, <2>2
  <2>3. CASE proc[q].kind = "backup" /\ ~Copies!Finish(q)
    <3>1. stage' = [stage EXCEPT ![q] = source] /\ proc' = [proc EXCEPT ![q].pc = "link"]
      BY <1>7, <2>3 DEF Copies!Copy, Copies!Goto
    <3>2. proc[q] \in Copies!Commands /\ proc[q] # Copies!Idle
      BY <2>1, <1>0 DEF Copies!BackupInv, Copies!Idle, Copies!Stages
    <3>3. proc' = [proc EXCEPT ![q] = [kind |-> "backup", pc |-> "link", to |-> Snap]]
      <4>1. proc[q] = [kind |-> "backup", pc |-> "copy", to |-> Snap]
        BY <3>2, <2>1, <2>3 DEF Copies!Commands
      <4>2. [proc[q] EXCEPT !.pc = "link"] = [kind |-> "backup", pc |-> "link", to |-> Snap]
        BY <4>1
      <4> QED BY <3>1, <4>1, <4>2
    <3>4. [kind |-> "backup", pc |-> "link", to |-> Snap] \in Copies!Commands
      BY DEF Copies!Commands
    <3>5. source \in Copies!Rows /\ source.uuid = 0 /\ stage'[q] = source
      BY <3>1 DEF Copies!BackupInv
    <3>6. proc'[q] = [kind |-> "backup", pc |-> "link", to |-> Snap] /\ source' = source
      BY <3>3, <2>1 DEF Copies!BackupInv
    <3>7. Copies!StageSound(q)'
      BY <3>5, <3>6 DEF Copies!StageSound
    <3> QED BY <1>4, <2>1, <3>1, <3>3, <3>4, <3>5, <3>7
  <2>4. CASE proc[q].kind # "backup" /\ ~Copies!Finish(q)
    <3>1. stage' = [stage EXCEPT ![q] = fs[Snap]] /\ proc' = [proc EXCEPT ![q].pc = "sanitize"]
      BY <1>7, <2>4 DEF Copies!Copy, Copies!Goto
    <3>2. proc[q] \in Copies!Commands /\ proc[q] # Copies!Idle
      BY <2>1, <1>0 DEF Copies!BackupInv, Copies!Idle, Copies!Stages
    <3>3. proc[q].kind = "restore" /\ proc' = [proc EXCEPT ![q] = [kind |-> "restore", pc |-> "sanitize", to |-> New]]
      <4>1. proc[q] = [kind |-> "restore", pc |-> "copy", to |-> New]
        BY <3>2, <2>1, <2>4 DEF Copies!Commands
      <4>2. [proc[q] EXCEPT !.pc = "sanitize"] = [kind |-> "restore", pc |-> "sanitize", to |-> New]
        BY <4>1
      <4> QED BY <3>1, <4>1, <4>2
    <3>4. [kind |-> "restore", pc |-> "sanitize", to |-> New] \in Copies!Commands
      BY DEF Copies!Commands, Copies!Stages
    <3>5. fs[Snap] # None /\ fs[Snap] \in Copies!Rows /\ stage'[q] = fs[Snap]
      BY <3>1, <3>3, <1>0 DEF Copies!BackupInv, Copies!StageSound
    <3>6. proc'[q] = [kind |-> "restore", pc |-> "sanitize", to |-> New] /\ fs' = fs
      BY <3>3, <2>1 DEF Copies!BackupInv
    <3>7. Copies!StageSound(q)'
      BY <3>5, <3>6 DEF Copies!StageSound
    <3> QED BY <1>4, <2>1, <3>1, <3>3, <3>4, <3>5, <3>7
  <2> QED BY <2>2, <2>3, <2>4
\* A restore between its copy and its link.
<1>8. ASSUME NEW q \in Procs, proc[q].pc \in {"sanitize", "audit"}
      PROVE  /\ proc[q] = [kind |-> "restore", pc |-> proc[q].pc, to |-> New]
             /\ fs[Snap] # None /\ fs[Snap] \in Copies!Rows /\ fs[Snap].uuid = 0
  <2>1. proc[q] \in Copies!Commands /\ proc[q] # Copies!Idle
    BY <1>8, <1>0 DEF Copies!BackupInv, Copies!Idle, Copies!Stages
  <2>2. proc[q] = [kind |-> "restore", pc |-> proc[q].pc, to |-> New]
    BY <2>1, <1>8 DEF Copies!Commands
  <2> QED BY <2>2, <1>0 DEF Copies!BackupInv, Copies!StageSound
<1>9. ASSUME NEW q \in Procs, Copies!Sanitize(q) PROVE Copies!BackupInv'
  <2>1. Same /\ proc[q].pc = "sanitize"
    BY <1>9 DEF Copies!Sanitize, Copies!At
  <2>2. CASE Copies!Finish(q)
    BY <1>5, <2>1, <2>2
  <2>3. CASE ~Copies!Finish(q)
    <3> DEFINE j == [kind |-> "restore", pc |-> "audit", to |-> New]
    <3>1. stage' = [stage EXCEPT ![q] = Copies!Sanitized(@)] /\ proc' = [proc EXCEPT ![q].pc = "audit"]
      BY <1>9, <2>3 DEF Copies!Sanitize, Copies!Goto
    <3>2. stage[q] = fs[Snap] /\ fs[Snap] \in Copies!Rows /\ fs[Snap].uuid = 0 /\ fs[Snap] # None
      BY <2>1, <1>8 DEF Copies!BackupInv, Copies!StageSound
    <3>3. stage' = [stage EXCEPT ![q] = Copies!Sanitized(fs[Snap])] /\ Copies!Sanitized(fs[Snap]) \in Copies!Rows
      BY <3>1, <3>2, SanitizedEnds
    <3>4. proc' = [proc EXCEPT ![q] = j] /\ j \in Copies!Commands
      <4>1. proc' = [proc EXCEPT ![q] = j]
        <5>1. proc[q] = [kind |-> "restore", pc |-> "sanitize", to |-> New]
          BY <2>1, <1>8
        <5>2. [proc[q] EXCEPT !.pc = j.pc] = j
          BY <5>1
        <5> QED BY <3>1, <5>2
      <4>2. j \in Copies!Commands
        BY DEF Copies!Commands, Copies!Stages
      <4> QED BY <4>1, <4>2
    <3>5. proc'[q] = j /\ stage'[q] = Copies!Sanitized(fs[Snap]) /\ fs' = fs
      BY <3>3, <3>4, <2>1 DEF Copies!BackupInv
    <3>6. Copies!StageSound(q)'
      <4>1. Copies!Sanitized(fs'[Snap]) = Copies!Sanitized(fs[Snap])
        BY <3>5
      <4> QED BY <3>2, <3>5, <4>1 DEF Copies!StageSound
    <3> QED BY <1>4, <2>1, <3>3, <3>4, <3>6
  <2> QED BY <2>2, <2>3
<1>10. ASSUME NEW q \in Procs, Copies!AuditRestore(q) PROVE Copies!BackupInv'
  <2>1. Same /\ proc[q].pc = "audit"
    BY <1>10 DEF Copies!AuditRestore, Copies!At
  <2>2. CASE Copies!Finish(q)
    BY <1>5, <2>1, <2>2
  <2>3. CASE ~Copies!Finish(q)
    <3> DEFINE j == [kind |-> "restore", pc |-> "link", to |-> New]
               e == [Copies!Sanitized(fs[Snap]) EXCEPT !.audited = TRUE]
    <3>1. stage' = [stage EXCEPT ![q].audited = TRUE] /\ proc' = [proc EXCEPT ![q].pc = "link"]
      BY <1>10, <2>3 DEF Copies!AuditRestore, Copies!Goto
    <3>2. stage[q] = Copies!Sanitized(fs[Snap]) /\ fs[Snap] \in Copies!Rows /\ fs[Snap].uuid = 0 /\ fs[Snap] # None
      BY <2>1, <1>8 DEF Copies!BackupInv, Copies!StageSound
    <3>3. stage' = [stage EXCEPT ![q] = e] /\ e \in Copies!Rows
      BY <3>1, <3>2, SanitizedEnds DEF Copies!BackupInv
    <3>4. proc' = [proc EXCEPT ![q] = j] /\ j \in Copies!Commands
      <4>1. proc' = [proc EXCEPT ![q] = j]
        <5>1. proc[q] = [kind |-> "restore", pc |-> "audit", to |-> New]
          BY <2>1, <1>8
        <5>2. [proc[q] EXCEPT !.pc = j.pc] = j
          BY <5>1
        <5> QED BY <3>1, <5>2
      <4>2. j \in Copies!Commands
        BY DEF Copies!Commands, Copies!Stages
      <4> QED BY <4>1, <4>2
    <3>5. proc'[q] = j /\ stage'[q] = e /\ fs' = fs
      BY <3>3, <3>4, <2>1 DEF Copies!BackupInv
    <3>6. Copies!StageSound(q)'
      <4>1. Copies!Sanitized(fs'[Snap]) = Copies!Sanitized(fs[Snap])
        BY <3>5
      <4> QED BY <3>2, <3>5, <4>1 DEF Copies!StageSound
    <3> QED BY <1>4, <2>1, <3>3, <3>4, <3>6
  <2> QED BY <2>2, <2>3
<1>11. ASSUME NEW q \in Procs, Copies!Link(q), fs[proc[q].to] # None PROVE Copies!BackupInv'
  BY <1>5, <1>11 DEF Copies!Link
\* The backup publishes its snapshot, which no restore can have read before.
<1>12. ASSUME NEW q \in Procs, Copies!Link(q), fs[proc[q].to] = None PROVE Copies!BackupInv'
  <2>1. /\ fs' = [fs EXCEPT ![proc[q].to] = stage[q]] /\ proc' = [proc EXCEPT ![q].pc = "unlink"] /\ stage' = stage
        /\ origin' = IF proc[q].kind = "restore" THEN fs[Snap].request ELSE origin
        /\ proc[q].pc = "link" /\ UNCHANGED <<source, ran>>
    BY <1>12 DEF Copies!Link, Copies!At, Copies!Goto
  <2>2. proc[q] \in Copies!Commands /\ proc[q] # Copies!Idle
    BY <2>1, <1>0 DEF Copies!BackupInv, Copies!Idle, Copies!Stages
  <2>3. CASE proc[q].kind = "backup"
    <3> DEFINE j == [kind |-> "backup", pc |-> "unlink", to |-> Snap]
    <3>1. proc[q] = [kind |-> "backup", pc |-> "link", to |-> Snap]
      BY <2>1, <2>2, <2>3 DEF Copies!Commands
    <3>2. [proc[q] EXCEPT !.pc = "unlink"] = j
      BY <3>1
    <3>3. proc' = [proc EXCEPT ![q] = j]
      BY <2>1, <3>2
    <3>4. j \in Copies!Commands
      BY DEF Copies!Commands
    <3>5. fs[Snap] = None /\ stage[q] \in Copies!Rows /\ stage[q].uuid = 0
      BY <3>1, <1>12 DEF Copies!BackupInv, Copies!StageSound
    <3>6. fs'[Snap] = stage[q] /\ fs'[New] = fs[New] /\ fs' \in [Copies!Paths -> Copies!Rows \cup {None}]
      BY <2>1, <3>1, <3>5, <1>0 DEF Copies!BackupInv
    <3>7. ASSUME NEW p \in Procs PROVE Copies!StageSound(p)'
      <4>1. CASE p = q
        <5>1. proc'[p] = j
          BY <3>3, <4>1 DEF Copies!BackupInv
        <5> QED BY <5>1 DEF Copies!StageSound
      <4>2. CASE p # q
        <5>1. proc'[p] = proc[p] /\ stage'[p] = stage[p] /\ proc[p] \in Copies!Commands
          BY <2>1, <3>3, <4>2 DEF Copies!BackupInv
        <5>2. proc[p].kind # "restore" /\ Copies!StageSound(p)
          BY <3>5 DEF Copies!BackupInv, Copies!StageSound
        <5>3. proc[p].pc \notin {"sanitize", "audit"}
          BY <1>8, <3>5
        <5> QED BY <5>1, <5>2, <5>3 DEF Copies!StageSound
      <4> QED BY <4>1, <4>2
    <3>8. UNCHANGED <<origin, source, ran, stage>>
      BY <2>1, <2>3
    <3> QED BY <3>3, <3>4, <3>5, <3>6, <3>7, <3>8 DEF Copies!BackupInv
  <2>4. CASE proc[q].kind # "backup"
    <3> DEFINE j == [kind |-> "restore", pc |-> "unlink", to |-> New]
               e == [Copies!Sanitized(fs[Snap]) EXCEPT !.audited = TRUE]
    <3>1. proc[q] = [kind |-> "restore", pc |-> "link", to |-> New]
      BY <2>1, <2>2, <2>4 DEF Copies!Commands
    <3>2. [proc[q] EXCEPT !.pc = "unlink"] = j
      BY <3>1
    <3>3. proc' = [proc EXCEPT ![q] = j]
      BY <2>1, <3>2
    <3>4. j \in Copies!Commands
      BY DEF Copies!Commands, Copies!Stages
    <3>5. fs[New] = None /\ fs[Snap] # None /\ fs[Snap] \in Copies!Rows /\ fs[Snap].uuid = 0 /\ stage[q] = e
      BY <3>1, <1>0, <1>12 DEF Copies!BackupInv, Copies!StageSound
    <3>6. /\ e \in Copies!Rows /\ e.uuid = 1 /\ e.audited
          /\ fs[Snap].request # "absent" => e.request \in {"expired", "completed", "unknown"}
      BY <3>5, SanitizedEnds
    <3> HIDE DEF e
    <3>7. fs'[New] = e /\ fs'[Snap] = fs[Snap] /\ fs' \in [Copies!Paths -> Copies!Rows \cup {None}]
      BY <2>1, <3>1, <3>5, <3>6, <1>0 DEF Copies!BackupInv
    <3>8. ASSUME NEW p \in Procs PROVE Copies!StageSound(p)'
      <4>1. CASE p = q
        <5>1. proc'[p] = j
          BY <3>3, <4>1 DEF Copies!BackupInv
        <5> QED BY <5>1, <3>5, <3>7 DEF Copies!StageSound
      <4>2. CASE p # q
        <5>1. proc'[p] = proc[p] /\ stage'[p] = stage[p]
          BY <2>1, <3>3, <4>2 DEF Copies!BackupInv
        <5> QED BY <5>1, <3>7 DEF Copies!BackupInv, Copies!StageSound
      <4> QED BY <4>1, <4>2
    <3>9. origin' = fs[Snap].request /\ ran' = ran /\ ran[New] = 0 /\ UNCHANGED <<source, stage>>
      BY <2>1, <3>1, <3>5 DEF Copies!BackupInv
    <3>10. e # None
      BY <3>6, <1>0
    <3> QED BY <3>3, <3>4, <3>5, <3>6, <3>7, <3>8, <3>9, <3>10 DEF Copies!BackupInv
  <2> QED BY <2>3, <2>4
<1>13. ASSUME NEW q \in Procs, Copies!Unlink(q) PROVE Copies!BackupInv'
  BY <1>5, <1>13 DEF Copies!Unlink
<1>14. ASSUME NEW q \in Procs, Copies!Die(q) PROVE Copies!BackupInv'
  BY <1>5, <1>14 DEF Copies!Die, Copies!Finish
<1> QED BY <1>1, <1>2, <1>3, <1>6, <1>7, <1>9, <1>10, <1>11, <1>12, <1>13, <1>14 DEF Copies!Next

LEMMA RestoreIsSafe == Copies!BackupInv => Copies!RestoreSafe
  BY DEF Copies!BackupInv, Copies!RestoreSafe, Copies!NeverReplayed, Copies!RestoredWhole

\* "no execution or replay": a request that was in the snapshot is never executed from the
\* restored database, and whoever opens that finds a finished, audited restore of another
\* installation than the source, whatever commands die and whatever brokers do.
THEOREM RestoreSafeHolds == ASSUME Copies!BackupAssumption PROVE Copies!Spec => []Copies!RestoreSafe
  BY RestoreIsSafe, BackupInit, BackupNext, PTL DEF Copies!Spec

\* Only the broker of the restored database and Link write a published file, and a link that
\* finds its name taken fails.
LEMMA PublishedStays ==
  ASSUME Copies!BackupInv, [Copies!Next]_(Copies!vars)
  PROVE  [Copies!NeverOverwritten]_(Copies!vars)
<1>1. CASE Copies!RestoredStep
  BY <1>1 DEF Copies!RestoredStep, Copies!NeverOverwritten, Copies!BackupInv, Copies!Paths
<1>2. ASSUME NEW q \in Procs, Copies!Link(q) PROVE Copies!NeverOverwritten
  BY <1>2 DEF Copies!Link, Copies!NeverOverwritten, Copies!BackupInv, Copies!Paths
<1>3. CASE fs' = fs
  BY <1>3 DEF Copies!NeverOverwritten
<1> QED BY <1>1, <1>2, <1>3 DEF Copies!Next, Copies!vars, Copies!BrokerStep, Copies!Tidy,
        Copies!BackupStart, Copies!RestoreStart, Copies!Copy, Copies!Sanitize, Copies!AuditRestore,
        Copies!Unlink, Copies!Die

\* "never overwritten": what a backup or a restore has published changes only by the steps
\* of a broker that has opened the restored database, though commands race for one name.
THEOREM NeverOverwrittenHolds ==
  ASSUME Copies!BackupAssumption PROVE Copies!Spec => [][Copies!NeverOverwritten]_(Copies!vars)
  BY PublishedStays, BackupInit, BackupNext, PTL DEF Copies!Spec

-----------------------------------------------------------------------------
(* The network guard *)

LEMMA GuardInit == Guard!Init => Guard!GuardInv
  BY DEF Guard!Init, Guard!GuardInv, Guard!Confined

LEMMA GuardNext == ASSUME Guard!GuardInv, [Guard!Next]_(Guard!vars) PROVE Guard!GuardInv'
<1> USE DEF Guard!GuardInv, Guard!Confined, Guard!At, Guard!Go, Guard!Helpers, Guard!Places, Guard!Launching
<1>1. ASSUME NEW l \in Launches, Guard!StartRun(l) PROVE Guard!GuardInv'
  <2>1. live = {} /\ live' = {} /\ helper' = [at |-> "makedirs", launch |-> l, failed |-> FALSE]
    BY <1>1 DEF Guard!StartRun
  <2>2. helper' \in Guard!Helpers /\ helper'.at = "makedirs"
    BY <2>1, <1>1
  <2> QED BY <2>1, <2>2
<1>2. ASSUME NEW l \in Launches, Guard!Reap(l) \/ Guard!ToolEnds(l) PROVE Guard!GuardInv'
  BY <1>2 DEF Guard!Reap, Guard!ToolEnds
<1>9. CASE Guard!StartTeardown \/ Guard!StepFails
  <2>1. helper' \in Guard!Helpers /\ helper'.at = "kill"
    <3>1. CASE Guard!StartTeardown
      BY <3>1 DEF Guard!StartTeardown
    <3>2. CASE Guard!StepFails
      BY <3>2 DEF Guard!StepFails, Guard!Undo
    <3> QED BY <1>9, <3>1, <3>2
  <2>2. UNCHANGED <<live, procs, dir, rules>>
    BY <1>9 DEF Guard!StartTeardown, Guard!StepFails
  <2> QED BY <2>1, <2>2
<1>3. CASE Guard!MakeDirs \/ Guard!Flush \/ Guard!Install
  BY <1>3 DEF Guard!MakeDirs, Guard!Flush, Guard!Install
<1>4. CASE Guard!Join \/ Guard!Exec \/ Guard!ExecFails
  BY <1>4 DEF Guard!Join, Guard!Exec, Guard!ExecFails
<1>5. CASE Guard!Kill
  BY <1>5 DEF Guard!Kill
<1>6. CASE Guard!Unrule \/ Guard!RmDir
  BY <1>6 DEF Guard!Unrule, Guard!RmDir
<1>7. CASE Guard!HelperDies
  BY <1>7 DEF Guard!HelperDies
<1>8. CASE UNCHANGED Guard!vars
  BY <1>8 DEF Guard!vars
<1> QED BY <1>1, <1>2, <1>3, <1>4, <1>5, <1>6, <1>7, <1>8, <1>9 DEF Guard!Next

\* A tool runs its code only inside the cgroup and under the rules of its own launch alone,
\* whatever earlier launches, failed ones, killed helpers and teardowns have left behind.
THEOREM ConfinedHolds == Guard!Spec => []Guard!Confined
<1>1. Guard!GuardInv => Guard!Confined
  BY DEF Guard!GuardInv
<1> QED BY <1>1, GuardInit, GuardNext, PTL DEF Guard!Spec

-----------------------------------------------------------------------------
(* The audit log *)

LEMMA LogSets == \A S : Log!Cardinality(S) = Cardinality(S)
  BY DEF Log!Cardinality, Cardinality

\* The files of the log, and what they are.
LEMMA LogTyped ==
  ASSUME Log!AuditLogAssumption, Log!LogInv
  PROVE  /\ MaxBytes \in Nat /\ MaxBytes > 0 /\ Generations \in Nat /\ Generations > 0
         /\ Log!Gens = 0 .. Generations /\ offered \in Nat /\ index \in 0 .. Generations - 1 /\ logFaults \in Nat
         /\ \A i \in 0 .. Generations :
               /\ files[i] \in Seq(1 .. offered) /\ Len(files[i]) \in Nat /\ DOMAIN files[i] = 1 .. Len(files[i])
               /\ \A k \in 1 .. Len(files[i]) : files[i][k] \in 1 .. offered
               /\ Len(files[i]) <= MaxBytes /\ (files[i] = <<>> <=> Len(files[i]) = 0)
               /\ i # 0 /\ files[i] # <<>> => Len(files[i]) = MaxBytes
<1>1. /\ MaxBytes \in Nat /\ MaxBytes > 0 /\ Generations \in Nat /\ Generations > 0 /\ Log!Gens = 0 .. Generations
      /\ offered \in Nat /\ index \in 0 .. Generations - 1 /\ logFaults \in Nat /\ files \in [Log!Gens -> Seq(1 .. offered)]
  BY DEF Log!AuditLogAssumption, Log!LogInv, Log!Gens
<1>2. ASSUME NEW i \in 0 .. Generations
      PROVE  /\ files[i] \in Seq(1 .. offered) /\ Len(files[i]) \in Nat /\ DOMAIN files[i] = 1 .. Len(files[i])
             /\ \A k \in 1 .. Len(files[i]) : files[i][k] \in 1 .. offered
             /\ Len(files[i]) <= MaxBytes /\ (files[i] = <<>> <=> Len(files[i]) = 0)
             /\ i # 0 /\ files[i] # <<>> => Len(files[i]) = MaxBytes
  <2>1. files[i] \in Seq(1 .. offered)
    BY <1>1
  <2>2. Len(files[i]) <= MaxBytes /\ (i # 0 /\ files[i] # <<>> => Len(files[i]) = MaxBytes)
    BY <1>1 DEF Log!LogInv, Log!Bounded, Log!Present
  <2>3. PICK s \in Seq(1 .. offered) : s = files[i]
    BY <2>1
  <2>4. Len(s) \in Nat /\ DOMAIN s = 1 .. Len(s) /\ s \in [1 .. Len(s) -> 1 .. offered]
    BY LenProperties
  <2>5. s = <<>> <=> Len(s) = 0
    BY EmptySeq
  <2> QED BY <2>1, <2>2, <2>3, <2>4, <2>5
<1> QED BY <1>1, <1>2

LEMMA LogRecords ==
  \A e : e \in Log!Records <=> \E i \in Log!Gens : \E k \in DOMAIN files[i] : files[i][k] = e
  BY DEF Log!Records

LEMMA LogRange ==
  ASSUME Log!AuditLogAssumption, Log!LogInv
  PROVE  Log!Records \subseteq 1 .. offered
<1>1. ASSUME NEW e \in Log!Records PROVE e \in 1 .. offered
  <2>1. PICK i \in Log!Gens : \E k \in DOMAIN files[i] : files[i][k] = e
    BY LogRecords
  <2>2. PICK k \in DOMAIN files[i] : files[i][k] = e
    BY <2>1
  <2> QED BY <2>2, LogTyped
<1> QED BY <1>1

LEMMA LogGaps ==
  ASSUME NEW j \in Int
  PROVE  /\ IsFiniteSet(Log!Gaps(j)) /\ Cardinality(Log!Gaps(j)) \in Nat /\ Log!Gaps(j) \subseteq 1 .. j - 1
         /\ \A x : /\ IsFiniteSet(Log!Gaps(j) \ {x}) /\ Cardinality(Log!Gaps(j) \ {x}) \in Nat
                   /\ Cardinality(Log!Gaps(j) \ {x}) =
                        IF x \in Log!Gaps(j) THEN Cardinality(Log!Gaps(j)) - 1 ELSE Cardinality(Log!Gaps(j))
<1>1. Log!Gaps(j) \subseteq 1 .. j - 1
  BY DEF Log!Gaps
<1>2. IsFiniteSet(1 .. j - 1)
  BY FS_Interval
<1>3. IsFiniteSet(Log!Gaps(j)) /\ Cardinality(Log!Gaps(j)) \in Nat
  BY <1>1, <1>2, FS_Subset, FS_CardinalityType
<1> QED BY <1>1, <1>3, FS_RemoveElement, FS_CardinalityType

LEMMA LogUpTo ==
  ASSUME NEW a \in Int, NEW n \in Nat
  PROVE  IsFiniteSet(a .. a + n - 1) /\ Cardinality(a .. a + n - 1) = n
<1>1. a + n - 1 \in Int /\ (a + n - 1) - a + 1 = n /\ (a > a + n - 1 <=> n = 0)
  OBVIOUS
<1>2. /\ IsFiniteSet(a .. a + n - 1)
      /\ Cardinality(a .. a + n - 1) = IF a > a + n - 1 THEN 0 ELSE (a + n - 1) - a + 1
  BY <1>1, FS_Interval, Zenon
<1> QED BY <1>1, <1>2

LEMMA LogProduct ==
  ASSUME NEW m \in Nat, NEW a \in Int, NEW b \in Int, a <= b
  PROVE  m * a \in Int /\ m * b \in Int /\ m * a <= m * b
<1>1. PICK d \in Nat : b = a + d
  BY b - a \in Nat
<1>2. m * b = m * a + m * d /\ m * d >= 0
  BY <1>1, Z3
<1> QED BY <1>2

\* A record that only the oldest generation has, while every younger one that is present is
\* full: MaxBytes records or more of each are newer.
LEMMA LogCounts ==
  ASSUME Log!AuditLogAssumption, Log!LogInv, logPc = "shift", NEW e \in Nat,
         \A i \in 0 .. Generations - 1 : \A k \in DOMAIN files[i] : e < files[i][k]
  PROVE  MaxBytes * (Generations - Cardinality(Log!Gaps(Generations))) <= offered - e - 1
<1> DEFINE I == (0 .. Generations - 1) \ Log!Gaps(Generations)
<1> DEFINE R == I \X (1 .. MaxBytes)
<1> DEFINE T == e + 1 .. offered - 1
<1> DEFINE f == [q \in R |-> files[q[1]][q[2]]]
<1>0. /\ MaxBytes \in Nat /\ MaxBytes > 0 /\ Generations \in Nat /\ Generations > 0 /\ offered \in Nat
      /\ Log!Gens = 0 .. Generations /\ Log!Gaps(Generations) \subseteq 1 .. Generations - 1
      /\ Cardinality(Log!Gaps(Generations)) \in Nat
  BY LogTyped, LogGaps
<1>a. \A i \in 1 .. Generations - 1 : i \notin Log!Gaps(Generations) => files[i] # <<>>
  BY DEF Log!Gaps
<1>1. ASSUME NEW i \in I
      PROVE  /\ i \in Log!Gens /\ Len(files[i]) = MaxBytes /\ DOMAIN files[i] = 1 .. MaxBytes
             /\ \A k \in 1 .. MaxBytes : files[i][k] \in T
  <2>1. Len(files[i]) = MaxBytes
    <3>1. CASE i = 0
      BY <3>1 DEF Log!LogInv
    <3>2. CASE i # 0
      BY <1>0, <1>a, <3>2, LogTyped
    <3> QED BY <3>1, <3>2
  <2>2. DOMAIN files[i] = 1 .. MaxBytes /\ i \in Log!Gens
    BY <1>0, <2>1, LogTyped
  <2>3. ASSUME NEW k \in 1 .. MaxBytes PROVE files[i][k] \in T
    <3>1. files[i][k] \in Log!Records
      BY <2>2, LogRecords
    <3>2. files[i][k] # offered
      BY <3>1 DEF Log!LogInv
    <3>3. files[i][k] \in 1 .. offered /\ e < files[i][k] /\ offered \in Nat
      BY <2>1, <2>2, LogTyped
    <3> QED BY <3>2, <3>3
  <2> QED BY <2>1, <2>2, <2>3
<1>2. f \in Injection(R, T)
  <2>1. f \in [R -> T]
    BY <1>1
  <2>2. ASSUME NEW p \in R, NEW q \in R, f[p] = f[q] PROVE p = q
    <3>1. PICK i \in I, k \in 1 .. MaxBytes : p = <<i, k>>
      OBVIOUS
    <3>2. PICK j \in I, l \in 1 .. MaxBytes : q = <<j, l>>
      OBVIOUS
    <3>3. files[i][k] = files[j][l]
      BY <2>2, <3>1, <3>2
    <3>4. files[i][k] \in T /\ files[j][l] \in T /\ k \in DOMAIN files[i] /\ l \in DOMAIN files[j] /\ i \in Log!Gens /\ j \in Log!Gens
      BY <1>1, Zenon
    <3>5. ~(i > j \/ (i = j /\ k < l)) /\ ~(j > i \/ (j = i /\ l < k))
      <4>1. e \in Int /\ offered \in Int
        BY LogTyped
      <4>2. ~(files[i][k] < files[j][l]) /\ ~(files[j][l] < files[i][k])
        BY <3>3, <3>4, <4>1
      <4> QED BY <3>4, <4>2 DEF Log!LogInv, Log!NoHoles
    <3> QED BY <3>1, <3>2, <3>5
  <2> QED BY <2>1, <2>2 DEF Injection, IsInjective
<1>3. IsFiniteSet(T) /\ Cardinality(T) = IF e + 1 > offered - 1 THEN 0 ELSE offered - 1 - e
  <2>1. e + 1 \in Int /\ offered - 1 \in Int /\ offered \in Nat
    BY LogTyped
  <2>2. /\ IsFiniteSet(e + 1 .. offered - 1)
        /\ Cardinality(e + 1 .. offered - 1) = IF e + 1 > offered - 1 THEN 0 ELSE (offered - 1) - (e + 1) + 1
    BY <2>1, FS_Interval, Zenon
  <2>3. (offered - 1) - (e + 1) + 1 = offered - 1 - e
    BY <2>1
  <2> QED BY <2>2, <2>3
<1>4. IsFiniteSet(R) /\ Cardinality(R) <= Cardinality(T)
  BY <1>2, <1>3, FS_Injection
<1>5. IsFiniteSet(I) /\ Cardinality(I) = Generations - Cardinality(Log!Gaps(Generations))
  <2>1. IsFiniteSet(0 .. Generations - 1) /\ Cardinality(0 .. Generations - 1) = Generations
    <3>1. Generations \in Nat /\ 0 \in Int /\ 0 + Generations - 1 = Generations - 1
      BY LogTyped
    <3> QED BY <3>1, LogUpTo
  <2>2. Log!Gaps(Generations) = (0 .. Generations - 1) \cap Log!Gaps(Generations)
    BY <1>0
  <2>3. /\ IsFiniteSet((0 .. Generations - 1) \ Log!Gaps(Generations))
        /\ Cardinality((0 .. Generations - 1) \ Log!Gaps(Generations)) =
             Cardinality(0 .. Generations - 1) - Cardinality((0 .. Generations - 1) \cap Log!Gaps(Generations))
    BY <2>1, FS_Difference, Zenon
  <2> QED BY <2>1, <2>2, <2>3
<1>6. Cardinality(R) = Cardinality(I) * Cardinality(1 .. MaxBytes) /\ Cardinality(1 .. MaxBytes) = MaxBytes
  <2>1. IsFiniteSet(1 .. MaxBytes) /\ Cardinality(1 .. MaxBytes) = MaxBytes
    <3>1. MaxBytes \in Nat /\ 1 \in Int /\ 1 + MaxBytes - 1 = MaxBytes
      BY LogTyped
    <3> QED BY <3>1, LogUpTo
  <2> QED BY <1>5, <2>1, FS_Product
<1>7. Cardinality(I) \in Nat /\ Cardinality(Log!Gaps(Generations)) \in Nat
  BY <1>5, FS_CardinalityType, LogGaps, LogTyped
<1>8. offered - 1 - e >= 0
  <2>1. 0 \in I
    BY <1>0
  <2>2. files[0][1] \in T
    BY <1>1, <2>1, LogTyped
  <2> QED BY <2>2, LogTyped
<1>9. MaxBytes * Cardinality(I) = Cardinality(R)
  <2>1. MaxBytes \in Nat
    BY LogTyped
  <2> QED BY <1>6, <1>7, <2>1, Z3
<1>10. Cardinality(R) <= offered - 1 - e
  BY <1>3, <1>4, <1>8, LogTyped
<1>11. MaxBytes * (Generations - Cardinality(Log!Gaps(Generations))) = Cardinality(R)
  BY <1>5, <1>9
<1> HIDE DEF I, R, T, f
<1> QED BY <1>10, <1>11, LogTyped

\* A longer range of events.
LEMMA LogGrows ==
  ASSUME Log!AuditLogAssumption, Log!LogInv
  PROVE  \A i \in Log!Gens : files[i] \in Seq(1 .. offered + 1)
<1>1. ASSUME NEW i \in Log!Gens PROVE files[i] \in Seq(1 .. offered + 1)
  <2>1. files[i] \in Seq(1 .. offered) /\ 1 .. offered \subseteq 1 .. offered + 1
    BY <1>1, LogTyped
  <2> QED BY <2>1, SeqMonotonic
<1> QED BY <1>1

\* What a step that keeps the records, and may add the newest, leaves true of them.
LEMMA LogKeeps ==
  ASSUME Log!AuditLogAssumption, Log!LogInv, NEW n \in Nat, offered' = n, offered <= n,
         Log!Records \subseteq Log!Records', Log!Records' \subseteq Log!Records \cup {offered},
         acked \subseteq acked', acked' \subseteq acked \cup {offered}, offered \in acked' => offered \in Log!Records \cup acked,
         NEW x \in Nat, logFaults' = x, logFaults <= x
  PROVE  /\ \A e \in acked' : (\E k \in Log!Records' : k < e) => e \in Log!Records'
         /\ Log!RecentKept'
<1>1. /\ MaxBytes \in Nat /\ Generations \in Nat /\ offered \in Nat /\ logFaults \in Nat /\ acked \subseteq 1 .. offered
      /\ \A e \in acked' : e \in acked \/ e \in Log!Records'
  BY LogTyped DEF Log!LogInv
<1>2. \A e \in acked' : (\E k \in Log!Records' : k < e) => e \in Log!Records'
  BY <1>1 DEF Log!LogInv, Log!NoHoles
<1>3. PICK a \in Int, b \in Int : a = MaxBytes * (Generations - logFaults) /\ b = MaxBytes * (IF Generations = 1 THEN 1 ELSE 2)
  BY <1>1
<1>4. PICK c \in Int : c = MaxBytes * (Generations - x) /\ c <= a
  <2>1. MaxBytes * (Generations - x) <= MaxBytes * (Generations - logFaults) /\ MaxBytes * (Generations - x) \in Int
    <3>1. Generations - x \in Int /\ Generations - logFaults \in Int /\ Generations - x <= Generations - logFaults
      BY <1>1
    <3> QED BY <1>1, <3>1, LogProduct
  <2> QED BY <1>3, <2>1
<1>5. \A e \in acked : offered - e <= a \/ offered - e <= b => e \in Log!Records
  BY <1>3 DEF Log!LogInv, Log!RecentKept
<1>6. ASSUME NEW e \in acked', n - e <= c \/ n - e <= b PROVE e \in Log!Records'
  <2>1. CASE e \in acked
    <3>1. e \in Int
      BY <1>1, <2>1
    <3>2. offered - e <= a \/ offered - e <= b
      BY <1>1, <1>4, <1>6, <3>1
    <3> QED BY <1>5, <2>1, <3>2
  <2> QED BY <1>1, <2>1
<1>7. Log!RecentKept'
  BY <1>3, <1>4, <1>6 DEF Log!RecentKept
<1> QED BY <1>2, <1>7

\* Steps that leave the files alone.
LEMMA LogSame ==
  ASSUME files' = files
  PROVE  /\ Log!Records' = Log!Records /\ Log!Present' = Log!Present /\ Log!Bounded' = Log!Bounded
         /\ \A j : Log!Gaps(j)' = Log!Gaps(j)
<1>1. Log!Records' = Log!Records
  BY DEF Log!Records, Log!Gens
<1>2. Log!Present' = Log!Present /\ Log!Bounded' = Log!Bounded
  BY DEF Log!Present, Log!Bounded, Log!Gens
<1>3. \A j : Log!Gaps(j)' = Log!Gaps(j)
  BY DEF Log!Gaps
<1> QED BY <1>1, <1>2, <1>3

LEMMA LogBegin == ASSUME Log!AuditLogAssumption, Log!LogInv, Log!Begin PROVE Log!LogInv'
<1>1. files' = files /\ acked' = acked /\ logFaults' = logFaults /\ offered' = offered + 1 /\ logPc = "idle"
  BY DEF Log!Begin
<1>2. /\ MaxBytes \in Nat /\ Generations \in Nat /\ Generations > 0 /\ offered \in Nat /\ logFaults \in Nat
      /\ index \in 0 .. Generations - 1 /\ Log!Gens = 0 .. Generations /\ Len(files[0]) \in Nat /\ Len(files[0]) <= MaxBytes
  <2>1. Generations \in Nat /\ 0 \in 0 .. Generations
    BY LogTyped
  <2> QED BY <2>1, LogTyped, Zenon
<1>3. \/ logPc' = "shift" /\ index' = Generations - 1 /\ Len(files[0]) = MaxBytes
      \/ logPc' = "write" /\ index' = index /\ Len(files[0]) < MaxBytes
  BY <1>2 DEF Log!Begin
<1>4. Log!RecentKept' /\ Log!NoHoles'
  <2>1. acked \subseteq 1 .. offered
    BY DEF Log!LogInv
  <2>2. /\ Log!RecentKept'
        /\ \A e \in acked' : (\E k \in Log!Records' : k < e) => e \in Log!Records'
    <3>1. PICK n \in Nat : n = offered + 1 /\ offered <= n
      BY <1>2
    <3>2. offered' = n /\ logFaults' = logFaults /\ logFaults <= logFaults
      BY <1>1, <1>2, <3>1
    <3>3. Log!Records' = Log!Records /\ acked' = acked
      BY <1>1, LogSame
    <3> QED BY <1>2, <3>1, <3>2, <3>3, LogKeeps
  <2> QED BY <1>1, <2>2 DEF Log!LogInv, Log!NoHoles, Log!Gens
<1>5. files' \in [Log!Gens -> Seq(1 .. offered')]
  BY <1>1, LogGrows DEF Log!LogInv
<1>6. offered' > 0 /\ offered' \notin acked' \cup Log!Records' /\ acked' \subseteq 1 .. offered'
  <2>1. Log!Records \subseteq 1 .. offered /\ acked \subseteq 1 .. offered
    BY LogTyped, LogRecords DEF Log!LogInv
  <2> QED BY <1>1, <1>2, <2>1, LogSame
<1>7. \A j \in Log!Present' : Cardinality((Log!Gaps(j) \ Log!Moving)') <= logFaults
  <2>1. SUFFICES ASSUME NEW j \in Log!Present PROVE Cardinality(Log!Gaps(j) \ Log!Moving') <= logFaults
    BY <1>1, LogSame
  <2>2. j \in 0 .. Generations /\ Log!Gaps(j) \subseteq 1 .. j - 1
    BY <1>2, LogGaps DEF Log!Present
  <2>3. Log!Gaps(j) \ Log!Moving' = Log!Gaps(j) /\ Log!Gaps(j) \ Log!Moving = Log!Gaps(j)
    BY <1>1, <1>2, <1>3, <2>2 DEF Log!Moving
  <2> QED BY <2>3, LogSets DEF Log!LogInv
<1>8. \A j \in Log!Present' : Log!Cardinality((Log!Gaps(j) \ Log!Moving)') <= logFaults'
  BY <1>1, <1>7, LogSets
<1>9. /\ logPc' \in {"shift", "write"} /\ index' \in 0 .. Generations - 1 /\ offered' \in Nat
      /\ (logPc' = "shift" => index' = Generations - 1 /\ Len(files'[0]) = MaxBytes)
      /\ (logPc' = "write" => Len(files'[0]) < MaxBytes)
      /\ \A i \in Log!Present' \ {0} : Len(files'[i]) = MaxBytes
  BY <1>1, <1>2, <1>3, LogSame DEF Log!LogInv
<1>10. /\ Log!Bounded' /\ Log!NoHoles' /\ Log!RecentKept' /\ acked' \subseteq 1 .. offered' /\ logFaults' \in Nat
       /\ (logPc' = "shift" => ~(index' < Generations - 1)) /\ logPc' # "return"
  BY <1>1, <1>2, <1>3, <1>4, <1>6, LogSame DEF Log!LogInv
<1> QED
  BY <1>5, <1>6, <1>8, <1>9, <1>10 DEF Log!LogInv

\* A step that ends the work on an event.
LEMMA LogStops ==
  ASSUME Log!AuditLogAssumption, Log!LogInv, files' = files, offered' = offered, logPc' = "idle", index' = 0,
         NEW x \in Nat, logFaults' = x, logFaults <= x,
         acked' = acked \/ (acked' = acked \cup {offered} /\ offered \in Log!Records),
         \A j \in Log!Present : Cardinality(Log!Gaps(j)) <= x
  PROVE  Log!LogInv'
<1>1. /\ Generations \in Nat /\ Generations > 0 /\ offered \in Nat /\ Log!Gens = 0 .. Generations /\ acked \subseteq 1 .. offered
      /\ Log!Records \subseteq 1 .. offered
  BY LogTyped, LogRecords DEF Log!LogInv
<1>2. Log!RecentKept' /\ Log!NoHoles'
  <2>1. Log!Records' = Log!Records
    BY LogSame
  <2>2. acked \subseteq acked' /\ acked' \subseteq acked \cup {offered} /\ (offered \in acked' => offered \in Log!Records \cup acked)
    OBVIOUS
  <2>3. PICK n \in Nat : n = offered /\ offered <= n
    BY <1>1
  <2>4. offered' = n
    BY <2>3
  <2>5. /\ Log!RecentKept'
        /\ \A e \in acked' : (\E k \in Log!Records' : k < e) => e \in Log!Records'
    BY <2>1, <2>2, <2>3, <2>4, LogKeeps
  <2> QED BY <2>5 DEF Log!LogInv, Log!NoHoles, Log!Gens
<1>3. \A j \in Log!Present' : Log!Cardinality((Log!Gaps(j) \ Log!Moving)') <= x
  <2>1. SUFFICES ASSUME NEW j \in Log!Present PROVE Log!Cardinality(Log!Gaps(j) \ Log!Moving') <= x
    BY LogSame
  <2>2. Log!Gaps(j) \ Log!Moving' = Log!Gaps(j)
    BY DEF Log!Moving
  <2> QED BY <2>2, LogSets
<1>4. /\ Log!Bounded' /\ files' \in [Log!Gens -> Seq(1 .. offered')] /\ acked' \subseteq 1 .. offered'
      /\ \A i \in Log!Present' \ {0} : Len(files'[i]) = MaxBytes
  BY <1>1, LogSame DEF Log!LogInv
<1>5. index' \in 0 .. Generations - 1 /\ offered' \in Nat /\ logFaults' \in Nat
  BY <1>1
<1> QED BY <1>2, <1>3, <1>4, <1>5 DEF Log!LogInv

LEMMA LogReturn == ASSUME Log!AuditLogAssumption, Log!LogInv, Log!Return PROVE Log!LogInv'
<1>1. /\ files' = files /\ offered' = offered /\ logPc' = "idle" /\ index' = 0 /\ logFaults' = logFaults /\ logPc = "return"
      /\ acked' = acked \cup {offered} /\ offered \in Log!Records
  BY DEF Log!Return, Log!LogInv
<1>2. \A j \in Log!Present : Cardinality(Log!Gaps(j)) <= logFaults
  <2>1. ASSUME NEW j \in Log!Present PROVE Cardinality(Log!Gaps(j)) <= logFaults
    <3>1. Log!Gaps(j) \ Log!Moving = Log!Gaps(j)
      BY <1>1 DEF Log!Moving
    <3> QED BY <3>1, LogSets DEF Log!LogInv
  <2> QED BY <2>1
<1>3. logFaults \in Nat /\ logFaults <= logFaults
  BY LogTyped
<1> QED BY <1>1, <1>2, <1>3, LogStops

LEMMA LogFail == ASSUME Log!AuditLogAssumption, Log!LogInv, Log!Fail PROVE Log!LogInv'
<1>1. /\ files' = files /\ offered' = offered /\ logPc' = "idle" /\ index' = 0 /\ logFaults' = logFaults + 1
      /\ acked' = acked
  BY DEF Log!Fail
<1>2. PICK x \in Nat : x = logFaults + 1 /\ logFaults <= x
  BY LogTyped
<1>3. ASSUME NEW j \in Log!Present PROVE Cardinality(Log!Gaps(j)) <= x
  <2>1. j \in Int /\ logFaults \in Nat
    BY LogTyped DEF Log!Present
  <2>2. Cardinality(Log!Gaps(j) \ Log!Moving) <= logFaults
    BY LogSets DEF Log!LogInv
  <2>3. PICK m : Log!Gaps(j) \ Log!Moving = Log!Gaps(j) \ {m}
    <3>1. CASE logPc = "shift"
      BY <3>1 DEF Log!Moving
    <3>2. CASE logPc # "shift"
      <4>1. Log!Gaps(j) \ {0} = Log!Gaps(j)
        BY <2>1, LogGaps
      <4> QED BY <3>2, <4>1 DEF Log!Moving
    <3> QED BY <3>1, <3>2
  <2>4. PICK c \in Nat, d \in Nat : c = Cardinality(Log!Gaps(j)) /\ d = Cardinality(Log!Gaps(j) \ {m}) /\ c <= d + 1
    <3>1. /\ Cardinality(Log!Gaps(j)) \in Nat /\ Cardinality(Log!Gaps(j) \ {m}) \in Nat
          /\ Cardinality(Log!Gaps(j) \ {m}) =
               IF m \in Log!Gaps(j) THEN Cardinality(Log!Gaps(j)) - 1 ELSE Cardinality(Log!Gaps(j))
      BY <2>1, LogGaps, Zenon
    <3> QED BY <3>1
  <2>5. d <= logFaults
    BY <2>2, <2>3, <2>4
  <2> QED BY <1>2, <2>1, <2>4, <2>5
<1> QED BY <1>1, <1>2, <1>3, LogStops

LEMMA LogWrite == ASSUME Log!AuditLogAssumption, Log!LogInv, Log!Write PROVE Log!LogInv'
<1>1. /\ files' = [files EXCEPT ![0] = Append(@, offered)] /\ logPc = "write" /\ logPc' = "return"
      /\ index' = index /\ offered' = offered /\ acked' = acked /\ logFaults' = logFaults
  BY DEF Log!Write
<1>2. /\ MaxBytes \in Nat /\ Generations \in Nat /\ offered \in Nat /\ logFaults \in Nat /\ Log!Gens = 0 .. Generations
      /\ index \in 0 .. Generations - 1 /\ acked \subseteq 1 .. offered
      /\ files \in [Log!Gens -> Seq(1 .. offered)] /\ Len(files[0]) < MaxBytes /\ offered \notin acked \cup Log!Records
      /\ Log!Records \subseteq 1 .. offered
  <2>1. Log!Records \subseteq 1 .. offered
    BY LogRange
  <2>2. /\ acked \subseteq 1 .. offered /\ files \in [Log!Gens -> Seq(1 .. offered)]
        /\ Len(files[0]) < MaxBytes /\ offered \notin acked \cup Log!Records
    BY <1>1 DEF Log!LogInv
  <2> QED BY <2>1, <2>2, LogTyped
<1>a. files[0] \in Seq(1 .. offered) /\ Len(files[0]) \in Nat /\ 0 \in Log!Gens
  BY <1>2, LogTyped
<1>3. PICK s : s = Append(files[0], offered)
  OBVIOUS
<1>4. offered > 0 /\ offered \in 1 .. offered
  BY <1>1, <1>2 DEF Log!LogInv
<1>5. /\ s \in Seq(1 .. offered) /\ Len(s) = Len(files[0]) + 1 /\ DOMAIN s = 1 .. Len(files[0]) + 1
      /\ s[Len(files[0]) + 1] = offered /\ \A k \in 1 .. Len(files[0]) : s[k] = files[0][k]
  BY <1>a, <1>3, <1>4, AppendProperties
<1>6. files'[0] = s /\ \A i \in Log!Gens : i # 0 => files'[i] = files[i]
  BY <1>1, <1>2, <1>3, <1>a
<1>7. files' \in [Log!Gens -> Seq(1 .. offered')]
  BY <1>1, <1>2, <1>3, <1>5, <1>a
<1>b. \A i \in Log!Gens : DOMAIN files[i] = 1 .. Len(files[i]) /\ Len(files[i]) \in Nat
  BY LogTyped
<1>c. \A i \in Log!Gens : \A k \in DOMAIN files[i] : files[i][k] \in Log!Records /\ files[i][k] \in Int /\ files[i][k] < offered
  <2>1. ASSUME NEW i \in Log!Gens, NEW k \in DOMAIN files[i] PROVE files[i][k] \in Log!Records /\ files[i][k] \in Int /\ files[i][k] < offered
    <3>1. files[i][k] \in Log!Records
      BY LogRecords
    <3>2. files[i][k] \in 1 .. offered /\ files[i][k] # offered
      BY <1>2, <3>1
    <3> QED BY <1>2, <3>1, <3>2
  <2> QED BY <2>1
<1>8. Log!Records' = Log!Records \cup {offered}
  <2>1. Log!Records' = UNION {{files'[i][k] : k \in DOMAIN files'[i]} : i \in Log!Gens}
    BY DEF Log!Records, Log!Gens
  <2>2. ASSUME NEW e \in Log!Records' PROVE e \in Log!Records \cup {offered}
    <3>1. PICK i \in Log!Gens : \E k \in DOMAIN files'[i] : e = files'[i][k]
      BY <2>1
    <3>2. PICK k \in DOMAIN files'[i] : e = files'[i][k]
      BY <3>1
    <3>3. CASE i # 0
      BY <1>6, <1>c, <3>1, <3>2, <3>3
    <3>4. CASE i = 0
      <4>1. k \in 1 .. Len(files[0]) \/ k = Len(files[0]) + 1
        BY <1>5, <1>6, <1>a, <3>2, <3>4
      <4>2. CASE k \in 1 .. Len(files[0])
        BY <1>5, <1>6, <1>a, <1>b, <1>c, <3>2, <3>4, <4>2
      <4> QED BY <1>5, <1>6, <3>2, <3>4, <4>1, <4>2
    <3> QED BY <3>3, <3>4
  <2>3. ASSUME NEW e \in Log!Records PROVE e \in Log!Records'
    <3>0. PICK i \in Log!Gens : \E k \in DOMAIN files[i] : files[i][k] = e
      BY LogRecords
    <3>1. PICK k \in DOMAIN files[i] : files[i][k] = e
      BY <3>0
    <3>2. k \in DOMAIN files'[i] /\ files'[i][k] = e
      <4>1. CASE i = 0
        BY <1>5, <1>6, <1>a, <1>b, <3>1, <4>1
      <4> QED BY <1>6, <3>1, <4>1
    <3> QED BY <2>1, <3>2
  <2>4. offered \in Log!Records'
    BY <1>5, <1>6, <1>a, <2>1
  <2> QED BY <2>2, <2>3, <2>4
<1>9. Log!Present' \ {0} = Log!Present \ {0} /\ \A j \in Log!Gens : Log!Gaps(j)' = Log!Gaps(j)
  <2>1. Log!Present' = {i \in Log!Gens : files'[i] # <<>>}
    BY DEF Log!Present, Log!Gens
  <2>2. \A j \in Log!Gens : j \in 0 .. Generations /\ Log!Gaps(j)' = {i \in 1 .. j - 1 : files'[i] = <<>>}
    BY <1>2 DEF Log!Gaps
  <2>3. ASSUME NEW j \in Log!Gens PROVE Log!Gaps(j)' = Log!Gaps(j)
    <3>1. \A i \in 1 .. j - 1 : files'[i] = files[i]
      BY <1>2, <1>6, <2>2
    <3> QED BY <2>2, <3>1 DEF Log!Gaps
  <2> QED BY <1>6, <2>1, <2>3 DEF Log!Present
<1>10. \A i, j \in Log!Gens : \A k \in DOMAIN files[i], l \in DOMAIN files[j] :
          i > j \/ (i = j /\ k < l) => files[i][k] < files[j][l]
  BY DEF Log!LogInv, Log!NoHoles
<1>11. ASSUME NEW i \in Log!Gens, NEW j \in Log!Gens, NEW k \in DOMAIN files'[i], NEW l \in DOMAIN files'[j],
              i > j \/ (i = j /\ k < l)
       PROVE  files'[i][k] < files'[j][l]
  <2>1. i \in Nat /\ j \in Nat
    BY <1>2
  <2>2. CASE j # 0
    BY <1>6, <1>10, <1>11, <2>1, <2>2
  <2>3. CASE j = 0 /\ i # 0
    <3>1. files'[i] = files[i] /\ files[i][k] < offered /\ k \in DOMAIN files[i]
      BY <1>6, <1>c, <2>3
    <3>2. CASE l = Len(files[0]) + 1
      BY <1>5, <1>6, <2>3, <3>1, <3>2
    <3>3. CASE l \in 1 .. Len(files[0])
      <4>1. files'[j][l] = files[j][l] /\ l \in DOMAIN files[j]
        BY <1>5, <1>6, <1>b, <1>a, <2>3, <3>3
      <4>2. files[i][k] < files[j][l]
        BY <1>10, <2>1, <2>3, <3>1, <4>1
      <4> QED BY <3>1, <4>1, <4>2
    <3> QED BY <1>5, <1>6, <1>a, <2>3, <3>2, <3>3
  <2>4. CASE j = 0 /\ i = 0
    <3>1. k < l /\ k \in 1 .. Len(files[0]) + 1 /\ l \in 1 .. Len(files[0]) + 1
      BY <1>5, <1>6, <1>11, <2>4
    <3>2. k \in 1 .. Len(files[0]) /\ k \in DOMAIN files[i] /\ files'[i][k] = files[i][k]
      BY <1>5, <1>6, <1>a, <1>b, <2>4, <3>1
    <3>3. CASE l = Len(files[0]) + 1
      BY <1>5, <1>6, <1>c, <2>4, <3>2, <3>3
    <3>4. CASE l \in 1 .. Len(files[0])
      <4>1. files'[j][l] = files[j][l] /\ l \in DOMAIN files[j]
        BY <1>5, <1>6, <1>a, <1>b, <2>4, <3>4
      <4>2. files[i][k] < files[j][l]
        BY <1>10, <2>4, <3>1, <3>2, <4>1
      <4> QED BY <3>2, <4>1, <4>2
    <3> QED BY <1>a, <3>1, <3>3, <3>4
  <2> QED BY <2>2, <2>3, <2>4
<1>12. Log!NoHoles' /\ Log!RecentKept'
  <2>1. PICK n \in Nat : n = offered /\ offered <= n
    BY <1>2
  <2>2. /\ Log!RecentKept'
        /\ \A e \in acked' : (\E k \in Log!Records' : k < e) => e \in Log!Records'
    <3>1. offered' = n /\ Log!Records \subseteq Log!Records' /\ Log!Records' \subseteq Log!Records \cup {offered}
      BY <1>1, <1>8, <2>1
    <3>2. logFaults' = logFaults /\ logFaults <= logFaults /\ acked' = acked
      BY <1>1, <1>2
    <3> QED BY <1>2, <2>1, <3>1, <3>2, LogKeeps
  <2>3. \A i, j \in Log!Gens : \A k \in DOMAIN files'[i], l \in DOMAIN files'[j] :
          i > j \/ (i = j /\ k < l) => files'[i][k] < files'[j][l]
    BY <1>11
  <2> QED BY <2>2, <2>3 DEF Log!NoHoles, Log!Gens
<1>13. \A j \in Log!Present' : Log!Cardinality((Log!Gaps(j) \ Log!Moving)') <= logFaults'
  <2>1. Log!Moving' = {} /\ Log!Moving = {}
    BY <1>1 DEF Log!Moving
  <2>2. ASSUME NEW j \in Log!Present' PROVE Log!Cardinality(Log!Gaps(j)' \ Log!Moving') <= logFaults
    <3>1. j \in Log!Gens
      BY DEF Log!Present, Log!Gens
    <3>2. CASE j = 0
      <4>1. Log!Gaps(j) = {} /\ Log!Gaps(j)' \ Log!Moving' = {}
        BY <1>9, <2>1, <3>1, <3>2 DEF Log!Gaps
      <4>2. Log!Cardinality({}) = 0
        BY LogSets, FS_EmptySet, Zenon
      <4>3. Log!Cardinality(Log!Gaps(j)' \ Log!Moving') = 0
        BY <4>1, <4>2, Zenon
      <4> QED BY <1>2, <4>3
    <3>3. CASE j # 0
      <4>1. j \in Log!Present /\ Log!Gaps(j)' \ Log!Moving' = Log!Gaps(j) \ Log!Moving
        BY <1>9, <2>1, <3>1, <3>3
      <4> QED BY <4>1 DEF Log!LogInv
    <3> QED BY <3>2, <3>3
  <2> QED BY <1>1, <2>2
<1>14. Log!Bounded' /\ \A i \in Log!Present' \ {0} : Len(files'[i]) = MaxBytes
  <2>1. ASSUME NEW i \in Log!Gens PROVE Len(files'[i]) <= MaxBytes
    <3>1. CASE i = 0
      BY <1>2, <1>5, <1>6, <1>a, <3>1
    <3>2. CASE i # 0
      BY <1>6, <3>2 DEF Log!LogInv, Log!Bounded
    <3> QED BY <3>1, <3>2
  <2>2. \A i \in Log!Present \ {0} : i \in Log!Gens /\ Len(files[i]) = MaxBytes
    BY DEF Log!LogInv, Log!Present
  <2>3. Log!Bounded'
    BY <2>1 DEF Log!Bounded, Log!Gens
  <2> QED BY <1>6, <1>9, <2>2, <2>3
<1> QED BY <1>1, <1>2, <1>7, <1>8, <1>12, <1>13, <1>14 DEF Log!LogInv

\* The rotation leaves a generation alone that is not there.
LEMMA LogSkips ==
  ASSUME Log!AuditLogAssumption, Log!LogInv, Log!Shift, index > 0, files[index] = <<>>
  PROVE  Log!LogInv'
<1>1. /\ files' = files /\ logPc = "shift" /\ logPc' = "shift" /\ index' = index - 1 /\ offered' = offered /\ acked' = acked
      /\ logFaults' = logFaults
  BY LogTyped DEF Log!Shift
<1>2. /\ Generations \in Nat /\ index \in 1 .. Generations - 1 /\ offered \in Nat /\ logFaults \in Nat /\ Log!Gens = 0 .. Generations
  BY LogTyped
<1>3. Log!RecentKept' /\ Log!NoHoles'
  <2>1. Log!Records' = Log!Records
    BY <1>1, LogSame
  <2> QED BY <1>1, <2>1 DEF Log!LogInv, Log!NoHoles, Log!RecentKept, Log!Gens
<1>4. ASSUME NEW j \in Log!Present
      PROVE  Log!Cardinality(Log!Gaps(j) \ {index}) <= logFaults
  <2>1. j \in 0 .. Generations /\ j # index
    BY <1>2 DEF Log!Present
  <2>a. j \in Int
    BY <2>1
  <2>b. /\ Log!Gaps(j) \subseteq 1 .. j - 1 /\ Cardinality(Log!Gaps(j)) \in Nat
        /\ Cardinality(Log!Gaps(j) \ {index}) = IF index \in Log!Gaps(j) THEN Cardinality(Log!Gaps(j)) - 1 ELSE Cardinality(Log!Gaps(j))
        /\ Cardinality(Log!Gaps(j) \ {index + 1}) = IF index + 1 \in Log!Gaps(j) THEN Cardinality(Log!Gaps(j)) - 1 ELSE Cardinality(Log!Gaps(j))
        /\ Cardinality(Log!Gaps(j) \ {index}) \in Nat /\ Cardinality(Log!Gaps(j) \ {index + 1}) \in Nat
    BY <2>a, LogGaps, Zenon
  <2>2. Cardinality(Log!Gaps(j) \ {index + 1}) <= logFaults
    BY <1>1, LogSets DEF Log!LogInv, Log!Moving
  <2>3. Cardinality(Log!Gaps(j) \ {index}) <= Cardinality(Log!Gaps(j) \ {index + 1})
    <3>1. CASE j < index
      <4>1. index \notin Log!Gaps(j) /\ index + 1 \notin Log!Gaps(j)
        <5>1. index \notin 1 .. j - 1 /\ index + 1 \notin 1 .. j - 1
          BY <1>2, <2>1, <3>1
        <5> QED BY <2>b, <5>1
      <4> QED BY <2>b, <4>1
    <3>2. CASE j = index + 1
      <4>1. index + 1 \notin Log!Gaps(j)
        <5>1. index + 1 \notin 1 .. j - 1
          BY <1>2, <2>1, <3>2
        <5> QED BY <2>b, <5>1
      <4> QED BY <2>b, <4>1
    <3>3. CASE j > index + 1
      <4>1. index \in Log!Gaps(j) /\ index + 1 \in Log!Gaps(j)
        <5>1. index < Generations - 1
          BY <1>2, <2>1, <3>3
        <5>2. files[index + 1] = <<>>
          BY <1>1, <5>1 DEF Log!LogInv
        <5> QED BY <1>2, <2>1, <3>3, <5>2 DEF Log!Gaps
      <4> QED BY <2>b, <4>1
    <3> QED BY <1>2, <2>1, <3>1, <3>2, <3>3
  <2>4. Cardinality(Log!Gaps(j) \ {index}) <= logFaults
    BY <1>2, <2>2, <2>3, <2>b
  <2> QED BY <2>4, LogSets
<1>5. \A j \in Log!Present' : Log!Cardinality((Log!Gaps(j) \ Log!Moving)') <= logFaults'
  <2>1. Log!Moving' = {index}
    BY <1>1, <1>2 DEF Log!Moving
  <2> QED BY <1>1, <1>4, <2>1, LogSame
<1>6. index' \in 0 .. Generations - 1 /\ files'[index' + 1] = <<>>
  <2>1. index - 1 + 1 = index
    BY <1>2
  <2> QED BY <1>1, <1>2, <2>1
<1> QED BY <1>1, <1>2, <1>3, <1>5, <1>6, LogSame DEF Log!LogInv

\* When the oldest generation is about to go, all but a few of the younger ones are there.
LEMMA LogBelow ==
  ASSUME Log!AuditLogAssumption, Log!LogInv, logPc = "shift", index = Generations - 1, files[Generations] # <<>>,
         files[index] # <<>>
  PROVE  LET g == Cardinality(Log!Gaps(Generations))
         IN g \in Nat /\ g <= logFaults /\ g <= Generations - (IF Generations = 1 THEN 1 ELSE 2)
<1>1. Generations \in Nat /\ Generations > 0 /\ Log!Gens = 0 .. Generations /\ logFaults \in Nat
  BY LogTyped
<1>2. Log!Gaps(Generations) \subseteq 1 .. Generations - 1 /\ Cardinality(Log!Gaps(Generations)) \in Nat
  BY <1>1, LogGaps
<1>3. Cardinality(Log!Gaps(Generations)) <= logFaults
  <2>1. Generations \in Log!Present /\ Log!Gaps(Generations) \ Log!Moving = Log!Gaps(Generations)
    BY <1>1, <1>2 DEF Log!Present, Log!Moving
  <2> QED BY <2>1, LogSets DEF Log!LogInv
<1>4. Log!Gaps(Generations) \subseteq 1 .. Generations - 2
  <2>1. Generations - 1 \notin Log!Gaps(Generations)
    BY DEF Log!Gaps
  <2> QED BY <1>1, <1>2, <2>1
<1>5. Cardinality(Log!Gaps(Generations)) <= Cardinality(1 .. Generations - 2)
  <2>1. 1 \in Int /\ Generations - 2 \in Int
    BY <1>1
  <2>2. IsFiniteSet(1 .. Generations - 2)
    BY <2>1, FS_Interval, Zenon
  <2> QED BY <1>4, <2>2, FS_Subset
<1>6. Cardinality(1 .. Generations - 2) = IF Generations = 1 THEN 0 ELSE Generations - 2
  <2>1. Generations - 2 \in Int
    BY <1>1
  <2>2. Cardinality(1 .. Generations - 2) = IF 1 > Generations - 2 THEN 0 ELSE Generations - 2 - 1 + 1
    BY <2>1, FS_Interval
  <2> QED BY <1>1, <2>2
<1> QED BY <1>1, <1>2, <1>3, <1>5, <1>6

\* The rotation moves one generation up.
LEMMA LogMoves ==
  ASSUME Log!AuditLogAssumption, Log!LogInv, Log!Shift, ~(index > 0 /\ files[index] = <<>>)
  PROVE  Log!LogInv'
<1> DEFINE x == index
<1>1. /\ files' = [files EXCEPT ![x + 1] = files[x], ![x] = <<>>] /\ logPc = "shift"
      /\ IF x = 0 THEN logPc' = "write" /\ index' = index ELSE logPc' = "shift" /\ index' = x - 1
      /\ offered' = offered /\ acked' = acked /\ logFaults' = logFaults
  BY DEF Log!Shift, Log!Rename
<1>2. /\ MaxBytes \in Nat /\ MaxBytes > 0 /\ Generations \in Nat /\ Generations > 0 /\ Log!Gens = 0 .. Generations
      /\ offered \in Nat /\ logFaults \in Nat /\ x \in 0 .. Generations - 1
  BY LogTyped
<1> DEFINE Old(i) == IF i = x + 1 THEN x ELSE i
<1>3. files \in [Log!Gens -> Seq(1 .. offered)] /\ acked \subseteq 1 .. offered /\ x + 1 \in Log!Gens /\ x \in Log!Gens /\ x + 1 # x
  BY <1>2 DEF Log!LogInv
<1>4. files'[x] = <<>> /\ \A i \in Log!Gens : i # x => files'[i] = files[Old(i)] /\ Old(i) \in Log!Gens
  BY <1>1, <1>3
<1>5. Len(files[x]) = MaxBytes /\ files[x] # <<>>
  <2>1. CASE x = 0
    <3>1. Len(files[x]) = MaxBytes
      BY <1>1, <2>1 DEF Log!LogInv
    <3> QED BY <1>2, <1>3, <3>1, LogTyped
  <2>2. CASE x # 0
    <3>1. files[x] # <<>>
      BY <1>2, <2>2
    <3>2. x \in Log!Present \ {0}
      BY <1>3, <2>2, <3>1 DEF Log!Present
    <3> QED BY <3>1, <3>2 DEF Log!LogInv
  <2> QED BY <2>1, <2>2
<1>6. x < Generations - 1 => files[x + 1] = <<>>
  BY <1>1 DEF Log!LogInv
<1>7. files' \in [Log!Gens -> Seq(1 .. offered')]
  <2>1. <<>> \in Seq(1 .. offered)
    BY EmptySeq
  <2> QED BY <1>1, <1>3, <2>1
<1>8. \A i \in Log!Gens : \A k \in DOMAIN files'[i] : i # x /\ k \in DOMAIN files[Old(i)] /\ files'[i][k] = files[Old(i)][k]
  <2>1. ASSUME NEW i \in Log!Gens, NEW k \in DOMAIN files'[i] PROVE i # x
    <3>1. DOMAIN <<>> = {}
      OBVIOUS
    <3> QED BY <1>4, <2>1, <3>1
  <2> QED BY <1>4, <2>1
<1>9. \A i, j \in Log!Gens : i > j /\ i # x /\ j # x => Old(i) > Old(j)
  BY <1>2
<1> HIDE DEF Old, x
<1>10. \A i, j \in Log!Gens : \A k \in DOMAIN files[i], l \in DOMAIN files[j] :
          i > j \/ (i = j /\ k < l) => files[i][k] < files[j][l]
  BY DEF Log!LogInv, Log!NoHoles
<1>11. \A i, j \in Log!Gens : \A k \in DOMAIN files'[i], l \in DOMAIN files'[j] :
          i > j \/ (i = j /\ k < l) => files'[i][k] < files'[j][l]
  <2>1. ASSUME NEW i \in Log!Gens, NEW j \in Log!Gens, NEW k \in DOMAIN files'[i], NEW l \in DOMAIN files'[j],
               i > j \/ (i = j /\ k < l)
        PROVE  files'[i][k] < files'[j][l]
    <3>1. /\ i # x /\ j # x /\ Old(i) \in Log!Gens /\ Old(j) \in Log!Gens
          /\ k \in DOMAIN files[Old(i)] /\ files'[i][k] = files[Old(i)][k]
          /\ l \in DOMAIN files[Old(j)] /\ files'[j][l] = files[Old(j)][l]
      BY <1>4, <1>8
    <3>2. Old(i) > Old(j) \/ (Old(i) = Old(j) /\ k < l)
      BY <1>9, <2>1, <3>1
    <3>3. files[Old(i)][k] < files[Old(j)][l]
      BY <1>10, <3>1, <3>2
    <3> QED BY <3>1, <3>3
  <2> QED BY <2>1
<1>12. \A e : e \in Log!Records' <=> \E i \in Log!Gens : \E k \in DOMAIN files'[i] : files'[i][k] = e
  BY DEF Log!Records, Log!Gens
<1>13. Log!Records' \subseteq Log!Records
  BY <1>4, <1>8, <1>12, LogRecords
\* What is not there any more was in the last generation.
<1>14. ASSUME NEW e \in Log!Records, e \notin Log!Records'
       PROVE  x = Generations - 1 /\ files[Generations] # <<>> /\ \E p \in DOMAIN files[Generations] : files[Generations][p] = e
  <2>1. PICK i \in Log!Gens : \E p \in DOMAIN files[i] : files[i][p] = e
    BY LogRecords
  <2>2. PICK p \in DOMAIN files[i] : files[i][p] = e
    BY <2>1
  <2>3. i = x + 1
    <3>1. CASE i = x
      <4>1. files'[x + 1] = files[x]
        BY <1>3, <1>4 DEF Old
      <4> QED BY <1>3, <1>12, <1>14, <2>2, <3>1, <4>1
    <3>2. CASE i # x /\ i # x + 1
      <4>1. files'[i] = files[i]
        BY <1>4, <3>2 DEF Old
      <4> QED BY <1>12, <1>14, <2>2, <4>1
    <3> QED BY <3>1, <3>2
  <2>4. files[x + 1] # <<>>
    <3>1. DOMAIN <<>> = {}
      OBVIOUS
    <3> QED BY <2>2, <2>3, <3>1
  <2>5. x + 1 = Generations
    BY <1>2, <1>6, <2>4
  <2> QED BY <1>2, <2>2, <2>3, <2>4, <2>5
\* And everything that is left is newer, MaxBytes of it for each generation but the gaps.
<1>15. ASSUME NEW e \in Log!Records, e \notin Log!Records'
       PROVE  /\ \A r \in Log!Records' : e < r
              /\ MaxBytes * (Generations - Cardinality(Log!Gaps(Generations))) <= offered - e - 1
  <2>1. PICK p \in DOMAIN files[Generations] : files[Generations][p] = e
    BY <1>14, <1>15
  <2>2. x = Generations - 1 /\ Generations \in Log!Gens
    BY <1>2, <1>14, <1>15
  <2>3. \A i \in 0 .. Generations - 1 : \A k \in DOMAIN files[i] : e < files[i][k]
    BY <1>2, <1>10, <2>1, <2>2
  <2>4. ASSUME NEW r \in Log!Records' PROVE e < r
    <3>1. PICK i \in Log!Gens : \E k \in DOMAIN files'[i] : files'[i][k] = r
      BY <1>12
    <3>2. PICK k \in DOMAIN files'[i] : files'[i][k] = r
      BY <3>1
    <3>3. i # x /\ k \in DOMAIN files[Old(i)] /\ files[Old(i)][k] = r
      BY <1>8, <3>2
    <3>4. Old(i) \in 0 .. Generations - 1
      <4>1. i \in 0 .. Generations /\ i # x
        BY <1>2, <3>3
      <4> QED BY <1>2, <2>2, <4>1 DEF Old
    <3> QED BY <2>3, <3>3, <3>4
  <2>5. e \in Nat
    <3>1. e \in 1 .. offered
      BY LogRange
    <3> QED BY <1>2, <3>1
  <2> QED BY <1>1, <2>3, <2>4, <2>5, LogCounts
<1>16. Log!NoHoles'
  <2>1. ASSUME NEW e \in acked', NEW k \in Log!Records', k < e PROVE e \in Log!Records'
    <3>1. e \in Log!Records
      BY <1>1, <1>13, <2>1 DEF Log!LogInv, Log!NoHoles
    <3>2. k \in Int /\ e \in Int
      <4>1. Log!Records \subseteq 1 .. offered
        BY LogRange
      <4> QED BY <1>2, <1>13, <3>1, <4>1
    <3>3. CASE e \notin Log!Records'
      <4>1. e < k
        BY <1>15, <3>1, <3>3
      <4> QED BY <2>1, <3>2, <4>1
    <3> QED BY <3>3
  <2> QED BY <1>11, <2>1 DEF Log!NoHoles, Log!Gens
<1>17. Log!RecentKept'
  <2>1. ASSUME NEW e \in acked,
               \/ offered - e <= MaxBytes * (Generations - logFaults)
               \/ offered - e <= MaxBytes * (IF Generations = 1 THEN 1 ELSE 2)
        PROVE  e \in Log!Records'
    <3>1. e \in Log!Records /\ e \in Int
      BY <1>2, <1>3, <2>1 DEF Log!LogInv, Log!RecentKept
    <3>2. CASE e \notin Log!Records'
      <4>1. PICK g \in Nat : g = Cardinality(Log!Gaps(Generations)) /\ g <= logFaults /\ g <= Generations - (IF Generations = 1 THEN 1 ELSE 2)
        <5>1. index = Generations - 1 /\ files[Generations] # <<>> /\ files[index] # <<>> /\ logPc = "shift"
          BY <1>1, <1>5, <1>14, <3>1, <3>2 DEF x
        <5> QED BY <5>1, LogBelow
      <4>2. MaxBytes * (Generations - g) <= offered - e - 1
        BY <1>15, <3>1, <3>2, <4>1
      <4>3. /\ MaxBytes * (Generations - logFaults) <= MaxBytes * (Generations - g)
            /\ MaxBytes * (Generations - logFaults) \in Int /\ MaxBytes * (Generations - g) \in Int
        <5>1. Generations - logFaults \in Int /\ Generations - g \in Int /\ Generations - logFaults <= Generations - g
          BY <1>2, <4>1
        <5> QED BY <1>2, <5>1, LogProduct
      <4>4. /\ MaxBytes * (IF Generations = 1 THEN 1 ELSE 2) <= MaxBytes * (Generations - g)
            /\ MaxBytes * (IF Generations = 1 THEN 1 ELSE 2) \in Int
        <5>1. (IF Generations = 1 THEN 1 ELSE 2) \in Int /\ Generations - g \in Int /\ (IF Generations = 1 THEN 1 ELSE 2) <= Generations - g
          BY <1>2, <4>1
        <5> QED BY <1>2, <5>1, LogProduct
      <4>5. PICK a \in Int, b \in Int, c \in Int :
              /\ a = MaxBytes * (Generations - logFaults) /\ b = MaxBytes * (IF Generations = 1 THEN 1 ELSE 2)
              /\ c = MaxBytes * (Generations - g)
        BY <4>3, <4>4
      <4>6. (offered - e <= a \/ offered - e <= b) /\ a <= c /\ b <= c /\ c <= offered - e - 1
        BY <2>1, <4>2, <4>3, <4>4, <4>5, Zenon
      <4> HIDE DEF x
      <4> QED BY <1>2, <3>1, <4>6
    <3> QED BY <3>2
  <2> QED BY <1>1, <2>1 DEF Log!RecentKept
\* The generation that has moved leaves a gap behind, which the next step fills, and fills the
\* one above.
<1>18. \A j \in Log!Present' : Log!Cardinality((Log!Gaps(j) \ Log!Moving)') <= logFaults'
  <2>1. Log!Moving = {x + 1} /\ Log!Moving' \cap 1 .. Generations = {x} \ {0}
    BY <1>1, <1>2 DEF Log!Moving, x
  <2>2. SUFFICES ASSUME NEW j \in Log!Present' PROVE Log!Cardinality(Log!Gaps(j)' \ Log!Moving') <= logFaults
    BY <1>1
  <2>3. j \in 0 .. Generations /\ j # x /\ files'[j] # <<>> /\ files[Old(j)] # <<>> /\ Old(j) \in Log!Present /\ Old(j) \in 0 .. Generations
    <3>1. j \in Log!Gens /\ files'[j] # <<>>
      BY DEF Log!Present, Log!Gens
    <3> QED BY <1>2, <1>4, <3>1 DEF Log!Present
  <2>4. Log!Gaps(j)' = {i \in 1 .. j - 1 : files'[i] = <<>>}
    BY <2>3 DEF Log!Gaps
  <2>5. Log!Gaps(j)' \ Log!Moving' = Log!Gaps(Old(j)) \ Log!Moving
    <3>1. ASSUME NEW i \in 1 .. Generations
          PROVE  i \in Log!Gaps(j)' \ Log!Moving' <=> i \in Log!Gaps(Old(j)) \ Log!Moving
      <4>1. i \in Log!Gens /\ (i \in Log!Moving' <=> i = x) /\ (i \in Log!Moving <=> i = x + 1)
        BY <1>2, <2>1
      <4>2. i \in Log!Gaps(j)' <=> i \in 1 .. j - 1 /\ files'[i] = <<>>
        BY <2>4
      <4>3. i \in Log!Gaps(Old(j)) <=> i \in 1 .. Old(j) - 1 /\ files[i] = <<>>
        BY DEF Log!Gaps
      <4>4. CASE i = x
        <5>1. files[i] # <<>>
          BY <1>5, <4>4 DEF x
        <5> QED BY <4>1, <4>3, <4>4, <5>1
      <4>5. CASE i = x + 1
        <5>1. files'[i] = files[x] /\ files[x] # <<>>
          BY <1>2, <1>4, <1>5, <4>1, <4>5 DEF Old, x
        <5> QED BY <4>1, <4>2, <4>5, <5>1
      <4>6. CASE i # x /\ i # x + 1
        <5>1. files'[i] = files[i]
          BY <1>4, <4>1, <4>6 DEF Old
        <5>2. i \in 1 .. j - 1 <=> i \in 1 .. Old(j) - 1
          BY <1>2, <2>3, <4>6 DEF Old
        <5> QED BY <4>1, <4>2, <4>3, <4>6, <5>1, <5>2
      <4> QED BY <4>4, <4>5, <4>6
    <3>2. Log!Gaps(j)' \subseteq 1 .. Generations /\ Log!Gaps(Old(j)) \subseteq 1 .. Generations
      <4>1. 1 .. j - 1 \subseteq 1 .. Generations /\ 1 .. Old(j) - 1 \subseteq 1 .. Generations
        BY <1>2, <2>3
      <4> QED BY <2>4, <4>1 DEF Log!Gaps
    <3> QED BY <3>1, <3>2
  <2> QED BY <2>3, <2>5 DEF Log!LogInv
<1>19. Log!Bounded' /\ \A i \in Log!Present' \ {0} : Len(files'[i]) = MaxBytes
  <2>1. ASSUME NEW i \in Log!Gens PROVE Len(files'[i]) <= MaxBytes /\ (i # 0 /\ files'[i] # <<>> => Len(files'[i]) = MaxBytes)
    <3>1. CASE i = x
      <4>1. Len(<<>>) = 0
        OBVIOUS
      <4> QED BY <1>2, <1>4, <3>1, <4>1
    <3>2. CASE i = x + 1
      <4>1. Len(files'[i]) = MaxBytes
        BY <1>2, <1>4, <1>5, <3>2, <1>3 DEF Old, x
      <4> QED BY <1>2, <4>1
    <3>3. CASE i # x /\ i # x + 1
      <4>1. files'[i] = files[i] /\ i \in 0 .. Generations
        BY <1>2, <1>4, <3>3 DEF Old
      <4> QED BY <4>1, LogTyped
    <3> QED BY <3>1, <3>2, <3>3
  <2> QED BY <2>1 DEF Log!Bounded, Log!Present, Log!Gens
<1>20. /\ logPc' = "shift" => Len(files'[0]) = MaxBytes /\ (index' < Generations - 1 => files'[index' + 1] = <<>>)
       /\ logPc' = "write" => Len(files'[0]) < MaxBytes
       /\ index' \in 0 .. Generations - 1 /\ logPc' \in {"shift", "write"}
  <2>1. CASE x = 0
    <3>1. Len(<<>>) = 0
      OBVIOUS
    <3> QED BY <1>1, <1>2, <1>4, <2>1, <3>1 DEF x
  <2>2. CASE x # 0
    <3>1. logPc' = "shift" /\ index' = x - 1 /\ x - 1 + 1 = x /\ x - 1 \in 0 .. Generations - 1
      BY <1>1, <1>2, <2>2 DEF x
    <3>2. index' + 1 = x
      BY <3>1
    <3>3. files'[0] = files[0]
      BY <1>2, <1>4, <2>2 DEF Old
    <3> QED BY <1>1, <1>4, <3>1, <3>2, <3>3 DEF Log!LogInv
  <2> QED BY <2>1, <2>2
<1> QED
  BY <1>1, <1>2, <1>3, <1>7, <1>13, <1>16, <1>17, <1>18, <1>19, <1>20 DEF Log!LogInv

LEMMA LogInit == ASSUME Log!AuditLogAssumption, Log!Init PROVE Log!LogInv
<1>1. /\ MaxBytes \in Nat /\ MaxBytes > 0 /\ Generations \in Nat /\ Generations > 0 /\ Len(<<>>) = 0
      /\ \A i \in Log!Gens : files[i] = <<>> /\ DOMAIN files[i] = {}
      /\ files \in [Log!Gens -> {<<>>}] /\ 0 \in Log!Gens
  BY DEF Log!AuditLogAssumption, Log!Init, Log!Gens
<1>2. Log!Present = {} /\ Log!Records = {} /\ <<>> \in Seq(1 .. offered)
  BY <1>1, EmptySeq DEF Log!Present, Log!Records
<1>3. files \in [Log!Gens -> Seq(1 .. offered)]
  BY <1>1, <1>2
<1>4. /\ Log!Bounded /\ Log!NoHoles /\ Log!RecentKept /\ logPc = "idle" /\ index = 0 /\ offered = 0 /\ acked = {} /\ logFaults = 0
  BY <1>1, <1>2 DEF Log!Init, Log!Bounded, Log!NoHoles, Log!RecentKept
<1> QED BY <1>1, <1>2, <1>3, <1>4 DEF Log!LogInv

LEMMA LogNext ==
  ASSUME Log!AuditLogAssumption, Log!LogInv, Log!Next \/ UNCHANGED Log!vars
  PROVE  Log!LogInv'
<1>1. CASE Log!Begin
  BY <1>1, LogBegin
<1>2. CASE Log!Shift
  BY <1>2, LogSkips, LogMoves
<1>3. CASE Log!Write
  BY <1>3, LogWrite
<1>4. CASE Log!Return
  BY <1>4, LogReturn
<1>5. CASE Log!Fail
  BY <1>5, LogFail
<1>6. CASE UNCHANGED Log!vars
  <2>1. /\ files' = files /\ logPc' = logPc /\ index' = index /\ offered' = offered /\ acked' = acked
        /\ logFaults' = logFaults
    BY <1>6 DEF Log!vars
  <2>2. Log!Records' = Log!Records /\ Log!Present' = Log!Present /\ Log!Bounded' = Log!Bounded
    BY <2>1, LogSame
  <2>3. Log!NoHoles' /\ Log!RecentKept'
    BY <2>1, <2>2 DEF Log!LogInv, Log!NoHoles, Log!RecentKept, Log!Gens
  <2>4. \A j \in Log!Present' : Log!Cardinality((Log!Gaps(j) \ Log!Moving)') <= logFaults'
    <3>1. Log!Moving' = Log!Moving /\ \A j : Log!Gaps(j)' = Log!Gaps(j)
      BY <2>1, LogSame DEF Log!Moving
    <3> QED BY <2>1, <2>2, <3>1 DEF Log!LogInv
  <2>5. files' \in [Log!Gens -> Seq(1 .. offered')]
    BY <2>1 DEF Log!LogInv
  <2> QED BY <2>1, <2>2, <2>3, <2>4, <2>5 DEF Log!LogInv
<1> QED BY <1>1, <1>2, <1>3, <1>4, <1>5, <1>6 DEF Log!Next

-----------------------------------------------------------------------------
(* Starting, stopping and recovering tools *)

\* What is known of the job of a command.
LEMMA YardJob ==
  ASSUME Yard!ToolyardAssumption, Yard!ToolyardInv, task # None
  PROVE  /\ task \in Yard!Job
         /\ task.pc # "loop" => /\ Yard!InHandInv /\ Yard!PhaseInv /\ task.op # "reregister"
                               /\ task.tool \in Tools /\ task.who # "watchdog"
         /\ task.pc = "loop" => task.op = "reregister" /\ task.who = "watchdog" /\ task.tool = None /\ task.run = None
         /\ task.run # None => task.run \in Yard!RunningTool
<1>1. task \in Yard!Job
  BY DEF Yard!ToolyardInv, Yard!TypeOK
<1>2. task.pc # "loop" => /\ Yard!InHandInv /\ Yard!PhaseInv /\ task.op # "reregister"
                         /\ task.tool \in Tools /\ task.who # "watchdog"
  BY DEF Yard!ToolyardInv, Yard!PhaseInv
<1>3. task.pc = "loop" => task.op = "reregister" /\ task.who = "watchdog" /\ task.tool = None /\ task.run = None
  BY DEF Yard!ToolyardInv, Yard!PhaseInv
<1>4. task.run # None => task.run \in Yard!RunningTool
  BY <1>1 DEF Yard!Job
<1> QED BY <1>1, <1>2, <1>3, <1>4

\* How processes fare in a step that starts none of a tool: they end, are reaped or are given
\* another parent, and other programs may be started.
Wane ==
    /\ \A p \in processes' :
         \/ \E q \in processes : q.birth = p.birth /\ q.pid = p.pid /\ q.tool = p.tool /\ (p.live => q.live)
         \/ p.birth = born + 1 /\ born' = born + 1 /\ p.tool = "other"
    /\ \A p, q \in processes' : p.birth = q.birth => p = q

LEMMA YardWane ==
  ASSUME born \in Nat, born' \in Nat, born <= born', Yard!ProcsInv, Wane, boot' = boot,
         \A t \in Tools : approved[t] \subseteq approved'[t]
  PROVE  /\ Yard!ProcsInv'
         /\ \A r, t : t \in Tools /\ Yard!Sound(r, t) => Yard!Sound(r, t)'
         /\ \A r : r.birth \in 1 .. born /\ Yard!Dead(r) => Yard!Dead(r)'
<1>1. Yard!ProcsInv'
  BY DEF Yard!ProcsInv, Wane
<1>2. ASSUME NEW r, NEW t \in Tools, Yard!Sound(r, t) PROVE Yard!Sound(r, t)'
  BY <1>2 DEF Yard!Sound, Wane
<1>3. ASSUME NEW r, r.birth \in 1 .. born, Yard!Dead(r) PROVE Yard!Dead(r)'
  BY <1>3 DEF Yard!Dead, Wane
<1> QED BY <1>1, <1>2, <1>3

\* Steps that leave the processes alone, or only reap some.
LEMMA YardReaps ==
  ASSUME Yard!ProcsInv, processes' \subseteq processes PROVE Wane
  BY DEF Wane, Yard!ProcsInv

-----------------------------------------------------------------------------
(* Types *)

\* Ended and Orphaned keep what a process is.
LEMMA YardProcs ==
  ASSUME processes \subseteq Yard!Process
  PROVE  /\ \A p \in processes : Yard!Ended(p) \subseteq Yard!Process
         /\ \A parent \in {"cli", "admin"} : Yard!Orphaned(parent) \subseteq Yard!Process
  BY DEF Yard!Process, Yard!Ended, Yard!Orphaned

LEMMA YardNewJob ==
  ASSUME Yard!ToolyardAssumption, Yard!TypeOK, NEW who \in {"cli", "admin", "reconciler", "watchdog"},
         NEW cmd \in {"start", "stop", "restart", "remove", "recover", "reregister"}, NEW t \in Tools \cup {None},
         NEW pc0 \in {"alive", "check", "register", "rmtree", "done", "loop"}, NEW ctx \in {"stop", "none"},
         NEW decl \in Decls \cup {None}
  PROVE  /\ Yard!NewJob(who, cmd, t, pc0, ctx, decl) \in Yard!Job
         /\ Yard!NewJob(who, cmd, t, pc0, ctx, decl) # None
<1> DEFINE r == IF t = None THEN None ELSE recorded[t]
<1>1. r \in Yard!RunningTool \cup {None}
  BY DEF Yard!TypeOK
<1> HIDE DEF r
<1>2. [who |-> who, op |-> cmd, tool |-> t, pc |-> pc0, ctx |-> ctx, decl |-> decl,
       run |-> r, ok |-> FALSE, rec |-> None, then |-> "done"] \in Yard!Job
  BY <1>1 DEF Yard!Job
<1>3. Yard!NewJob(who, cmd, t, pc0, ctx, decl) \in Yard!Job
  BY <1>2 DEF Yard!NewJob, r
<1> QED BY <1>3 DEF Yard!ToolyardAssumption

LEMMA YardTypesBegin ==
  ASSUME Yard!ToolyardAssumption, Yard!TypeOK, NEW who \in Operators, NEW cmd \in LifecycleOps, NEW t \in Tools,
         Yard!BeginStart(who, t) \/ (cmd # "start" /\ Yard!BeginStop(who, cmd, t))
  PROVE  Yard!TypeOK'
<1>1. who \in {"cli", "admin"} /\ cmd \in {"start", "stop", "restart", "remove"} /\ disk[t] \in Decls \cup {None}
  BY DEF Yard!ToolyardAssumption, Yard!TypeOK
<1>2. CASE Yard!BeginStart(who, t)
  <2>1. task' \in Yard!Job
    BY <1>1, <1>2, YardNewJob DEF Yard!BeginStart
  <2>2. approved' \in [Tools -> SUBSET Decls]
    BY <1>1, <1>2 DEF Yard!BeginStart, Yard!TypeOK
  <2> QED BY <1>2, <2>1, <2>2
       DEF Yard!BeginStart, Yard!TypeOK, Yard!hostVars, Yard!fileVars, Yard!spsVars, Yard!threadVars, Yard!countVars
<1>3. CASE cmd # "start" /\ Yard!BeginStop(who, cmd, t)
  <2>1. task' \in Yard!Job
    BY <1>1, <1>3, YardNewJob DEF Yard!BeginStop
  <2>2. approved' \in [Tools -> SUBSET Decls]
    BY <1>1, <1>3, SMTT(60) DEF Yard!BeginStop, Yard!TypeOK
  <2> QED BY <1>3, <2>1, <2>2
       DEF Yard!BeginStop, Yard!TypeOK, Yard!hostVars, Yard!fileVars, Yard!spsVars, Yard!threadVars, Yard!countVars
<1> QED BY <1>2, <1>3

\* The fields of a job that a step sets.
YardPcs == {"alive", "check", "signal", "confirm", "unregister", "save", "publish", "register", "spawn", "ready",
            "rmtree", "done", "failed", "loop"}
YardWhos == {"cli", "admin", "reconciler", "watchdog"}
YardOps == {"start", "stop", "restart", "remove", "recover", "reregister"}
YardCtxs == {"old", "stop", "fresh", "abort", "rollback", "none"}
YardRuns == Yard!RunningTool \cup {None}
YardThens == {"register", "rmtree", "done", "failed"}

LEMMA YardJobSet ==
  ASSUME NEW j \in Yard!Job
  PROVE  /\ \A phase \in YardPcs : [j EXCEPT !.pc = phase] \in Yard!Job
         /\ \A phase \in YardPcs, ctx \in YardCtxs : [j EXCEPT !.pc = phase, !.ctx = ctx] \in Yard!Job
         /\ \A phase \in YardPcs, sure \in BOOLEAN : [j EXCEPT !.pc = phase, !.ok = sure] \in Yard!Job
         /\ \A phase \in YardPcs, run \in YardRuns : [j EXCEPT !.pc = phase, !.run = run] \in Yard!Job
         /\ \A phase \in YardPcs, rec \in YardRuns, th \in YardThens :
              [j EXCEPT !.pc = phase, !.rec = rec, !.then = th] \in Yard!Job
         /\ \A phase \in YardPcs, ctx \in YardCtxs, rec \in YardRuns, th \in YardThens :
              [j EXCEPT !.pc = phase, !.ctx = ctx, !.rec = rec, !.then = th] \in Yard!Job
         /\ \A phase \in YardPcs, ctx \in YardCtxs, sure \in BOOLEAN :
              [j EXCEPT !.pc = phase, !.ctx = ctx, !.ok = sure] \in Yard!Job
<1>0. Yard!Job = [who : YardWhos, op : YardOps, tool : Tools \cup {None}, pc : YardPcs, ctx : YardCtxs,
                  decl : Decls \cup {None}, run : YardRuns, ok : BOOLEAN, rec : YardRuns, then : YardThens]
  BY Zenon DEF Yard!Job, YardWhos, YardOps, YardPcs, YardCtxs, YardRuns, YardThens
<1>1. \A phase \in YardPcs : [j EXCEPT !.pc = phase] \in Yard!Job
  BY <1>0
<1>2. \A phase \in YardPcs, ctx \in YardCtxs : [j EXCEPT !.pc = phase, !.ctx = ctx] \in Yard!Job
  BY <1>0
<1>3. \A phase \in YardPcs, sure \in BOOLEAN : [j EXCEPT !.pc = phase, !.ok = sure] \in Yard!Job
  BY <1>0
<1>4. \A phase \in YardPcs, run \in YardRuns : [j EXCEPT !.pc = phase, !.run = run] \in Yard!Job
  BY <1>0
<1>5. \A phase \in YardPcs, rec \in YardRuns, th \in YardThens :
        [j EXCEPT !.pc = phase, !.rec = rec, !.then = th] \in Yard!Job
  BY <1>0
<1>6. \A phase \in YardPcs, ctx \in YardCtxs, rec \in YardRuns, th \in YardThens :
        [j EXCEPT !.pc = phase, !.ctx = ctx, !.rec = rec, !.then = th] \in Yard!Job
  BY <1>0
<1>7. \A phase \in YardPcs, ctx \in YardCtxs, sure \in BOOLEAN :
        [j EXCEPT !.pc = phase, !.ctx = ctx, !.ok = sure] \in Yard!Job
  BY <1>0
<1> QED BY <1>1, <1>2, <1>3, <1>4, <1>5, <1>6, <1>7

\* The steps of a command change the fields of its job and little else.
LEMMA YardTypesTerminate ==
  ASSUME Yard!ToolyardAssumption, Yard!ToolyardInv, Yard!IsAlive \/ Yard!TermCheck \/ Yard!TermSignal \/ Yard!TermConfirm
  PROVE  Yard!TypeOK'
<1>1. Yard!TypeOK /\ task \in Yard!Job
  BY YardJob DEF Yard!ToolyardInv, Yard!IsAlive, Yard!TermCheck, Yard!TermSignal, Yard!TermConfirm
<1>2. task' \in Yard!Job
  <2>1. CASE Yard!IsAlive
    BY <1>1, <2>1, YardJobSet DEF Yard!IsAlive, YardPcs, YardCtxs
  <2>2. CASE Yard!TermCheck
    <3> DEFINE pc1 == IF Yard!CheckExit(task.run, task.who) = "there" THEN "signal" ELSE "unregister"
               ok1 == Yard!CheckExit(task.run, task.who) = "gone"
    <3>1. pc1 \in YardPcs /\ ok1 \in BOOLEAN
      BY DEF YardPcs
    <3>2. task' = [task EXCEPT !.pc = pc1, !.ok = ok1]
      BY <2>2, SMTT(60) DEF Yard!TermCheck
    <3> QED BY <1>1, <3>1, <3>2, YardJobSet
  <2>3. CASE Yard!TermSignal
    BY <1>1, <2>3, YardJobSet, ZenonT(60) DEF Yard!TermSignal, Yard!Go, YardPcs
  <2>4. CASE Yard!TermConfirm
    <3> DEFINE ok1 == Yard!CheckExit(task.run, task.who) = "gone"
    <3>1. "unregister" \in YardPcs /\ ok1 \in BOOLEAN
      BY DEF YardPcs
    <3>2. task' = [task EXCEPT !.pc = "unregister", !.ok = ok1]
      BY <2>4 DEF Yard!TermConfirm
    <3> QED BY <1>1, <3>1, <3>2, YardJobSet
  <2> QED BY <2>1, <2>2, <2>3, <2>4, SMTT(60)
<1>3. processes' \subseteq Yard!Process
  BY <1>1, YardProcs DEF Yard!IsAlive, Yard!TermCheck, Yard!TermSignal, Yard!TermConfirm, Yard!TypeOK, Yard!Same, Yard!At
<1>4. mishaps' \in 0 .. MaxMishaps
  BY <1>1 DEF Yard!IsAlive, Yard!TermCheck, Yard!TermSignal, Yard!TermConfirm, Yard!TypeOK, Yard!countVars,
       Yard!ToolyardAssumption
<1> QED BY <1>1, <1>2, <1>3, <1>4
     DEF Yard!IsAlive, Yard!TermCheck, Yard!TermSignal, Yard!TermConfirm, Yard!TypeOK,
         Yard!fileVars, Yard!spsVars, Yard!threadVars, Yard!ghostVars, Yard!countVars

LEMMA YardTypesSave ==
  ASSUME Yard!ToolyardAssumption, Yard!ToolyardInv,
         Yard!Unregister \/ Yard!SaveState \/ Yard!PublishChannels \/ Yard!SaveFails
  PROVE  Yard!TypeOK'
<1>1. /\ Yard!TypeOK /\ task \in Yard!Job /\ task.tool \in Tools
      /\ task.pc \in {"unregister", "save"} => task.run \in Yard!RunningTool
  BY YardJob DEF Yard!ToolyardInv, Yard!Unregister, Yard!SaveState, Yard!PublishChannels, Yard!SaveFails, Yard!InHandInv
<1>2. CASE Yard!Unregister
  <2>1. task' \in Yard!Job
    BY <1>1, <1>2, YardJobSet, ZenonT(60) DEF Yard!Unregister, Yard!AfterCleanup, YardPcs, YardRuns, YardThens
  <2>2. given' \subseteq Nat
    BY <1>1, <1>2 DEF Yard!Unregister, Yard!TypeOK, Yard!RunningTool
  <2>3. regs' \in [Tools -> Yard!Registration \cup {None}]
    BY <1>1, <1>2 DEF Yard!Unregister, Yard!TypeOK
  <2>4. mishaps' \in 0 .. MaxMishaps
    BY <1>1, <1>2 DEF Yard!Unregister, Yard!TypeOK, Yard!ToolyardAssumption
  <2> QED BY <1>1, <1>2, <2>1, <2>2, <2>3, <2>4
       DEF Yard!Unregister, Yard!TypeOK, Yard!hostVars, Yard!fileVars, Yard!threadVars
<1>3. CASE Yard!SaveState
  <2>1. task' \in Yard!Job
    BY <1>1, <1>3 DEF Yard!SaveState, Yard!Go, Yard!Job
  <2>2. recorded' \in [Tools -> Yard!RunningTool \cup {None}]
    BY <1>1, <1>3 DEF Yard!SaveState, Yard!TypeOK, Yard!Job
  <2> QED BY <1>1, <1>3, <2>1, <2>2
       DEF Yard!SaveState, Yard!TypeOK, Yard!hostVars, Yard!spsVars, Yard!threadVars, Yard!ghostVars, Yard!countVars
<1>4. CASE Yard!PublishChannels
  <2>1. task' \in Yard!Job
    BY <1>1, <1>4 DEF Yard!PublishChannels, Yard!Go, Yard!Job
  <2>2. chan' \in [Tools -> Nat]
    BY <1>1, <1>4 DEF Yard!PublishChannels, Yard!View, Yard!TypeOK, Yard!RunningTool
  <2> QED BY <1>1, <1>4, <2>1, <2>2
       DEF Yard!PublishChannels, Yard!TypeOK, Yard!hostVars, Yard!spsVars, Yard!threadVars, Yard!ghostVars, Yard!countVars
<1>5. CASE Yard!SaveFails
  <2>1. task' \in Yard!Job
    BY <1>1, <1>5, YardJobSet DEF Yard!SaveFails, YardPcs, YardCtxs
  <2>2. given' \subseteq Nat
    BY <1>1, <1>5 DEF Yard!SaveFails, Yard!TypeOK, Yard!RunningTool
  <2>3. mishaps' \in 0 .. MaxMishaps
    BY <1>1, <1>5 DEF Yard!SaveFails, Yard!TypeOK, Yard!ToolyardAssumption
  <2> QED BY <1>1, <1>5, <2>1, <2>2, <2>3, SMTT(60)
       DEF Yard!SaveFails, Yard!TypeOK, Yard!hostVars, Yard!fileVars, Yard!spsVars, Yard!threadVars
<1> QED BY <1>2, <1>3, <1>4, <1>5

LEMMA YardInHand ==
  ASSUME Yard!ToolyardAssumption, Yard!ToolyardInv, Yard!CliCrash \/ Yard!AdminRestart
  PROVE  given' \subseteq Nat
<1>1. given \subseteq Nat
  BY DEF Yard!ToolyardInv, Yard!TypeOK
<1>2. Yard!InHand \subseteq Nat
  BY YardJob DEF Yard!InHand, Yard!RunningTool
<1> QED BY <1>1, <1>2 DEF Yard!CliCrash, Yard!AdminRestart

LEMMA YardMinted ==
  ASSUME Yard!TypeOK, task \in Yard!Job, task.decl \in Decls, NEW isSps \in BOOLEAN
  PROVE  Yard!Minted(isSps) \in Yard!RunningTool
  BY DEF Yard!Minted, Yard!RunningTool, Yard!TypeOK

LEMMA YardTypesStart ==
  ASSUME Yard!ToolyardAssumption, Yard!ToolyardInv,
         Yard!Register \/ Yard!PortTaken \/ (\E pid \in Pids : Yard!Spawn(pid)) \/ Yard!Ready \/ Yard!StartInterrupted
  PROVE  Yard!TypeOK'
<1>1. /\ Yard!TypeOK /\ task \in Yard!Job /\ task.tool \in Tools
      /\ task.pc \in {"spawn", "ready"} => task.run \in Yard!RunningTool
      /\ task.pc = "register" => task.decl \in Decls
  BY YardJob DEF Yard!ToolyardInv, Yard!Register, Yard!PortTaken, Yard!Spawn, Yard!Ready, Yard!StartInterrupted,
       Yard!InHandInv, Yard!PhaseInv
<1>2. CASE Yard!Register
  <2>1. task.decl \in Decls
    BY <1>1, <1>2 DEF Yard!Register
  <2>2. Yard!Minted(TRUE) \in Yard!RunningTool /\ Yard!Minted(FALSE) \in Yard!RunningTool
    BY <1>1, <2>1, YardMinted
  <2>3. task' \in Yard!Job
    <3>1. \/ task' = [task EXCEPT !.pc = "spawn", !.run = Yard!Minted(TRUE)]
          \/ task' = [task EXCEPT !.pc = "spawn", !.run = Yard!Minted(FALSE)]
          \/ task' = [task EXCEPT !.pc = "failed"]
      BY <1>2 DEF Yard!Register
    <3>2. "spawn" \in YardPcs /\ "failed" \in YardPcs
      BY DEF YardPcs
    <3>3. Yard!Minted(TRUE) \in YardRuns /\ Yard!Minted(FALSE) \in YardRuns
      BY <2>2, Zenon DEF YardRuns
    <3>4. \A run \in YardRuns : [task EXCEPT !.pc = "spawn", !.run = run] \in Yard!Job
      BY <1>1, <3>2, YardJobSet
    <3>5. [task EXCEPT !.pc = "failed"] \in Yard!Job
      BY <1>1, <3>2, YardJobSet
    <3> QED BY <3>1, <3>3, <3>4, <3>5, Zenon
  <2>4. regs' \in [Tools -> Yard!Registration \cup {None}] /\ born' \in Nat
    BY <1>1, <1>2, <2>1 DEF Yard!Register, Yard!TypeOK, Yard!Registration
  <2>5. mishaps' \in 0 .. MaxMishaps
    BY <1>1, <1>2 DEF Yard!Register, Yard!TypeOK, Yard!ToolyardAssumption
  <2> QED BY <1>1, <1>2, <2>3, <2>4, <2>5
       DEF Yard!Register, Yard!TypeOK, Yard!fileVars, Yard!threadVars, Yard!ghostVars
<1>3. CASE Yard!PortTaken
  <2>1. task' \in Yard!Job
    BY <1>1, <1>3 DEF Yard!PortTaken, Yard!Go, Yard!Job
  <2> QED BY <1>1, <1>3, <2>1
       DEF Yard!PortTaken, Yard!TypeOK, Yard!hostVars, Yard!fileVars, Yard!spsVars, Yard!threadVars, Yard!ghostVars, Yard!countVars
<1>4. ASSUME NEW pid \in Pids, Yard!Spawn(pid) PROVE Yard!TypeOK'
  <2>1. task.run \in Yard!RunningTool
    BY <1>1, <1>4 DEF Yard!Spawn
  <2>2. [task.run EXCEPT !.pid = pid] \in Yard!RunningTool
    BY <2>1 DEF Yard!RunningTool
  <2>3. task' \in Yard!Job
    BY <1>1, <1>4, <2>2 DEF Yard!Spawn, Yard!Job
  <2>4. [pid |-> pid, birth |-> task.run.birth, tool |-> task.tool, live |-> TRUE, parent |-> Yard!Self(task.who)]
          \in Yard!Process
    BY <1>1, <2>1 DEF Yard!Process, Yard!RunningTool, Yard!Self
  <2>5. processes' \subseteq Yard!Process
    BY <1>1, <1>4, <2>4 DEF Yard!Spawn, Yard!TypeOK
  <2> QED BY <1>1, <1>4, <2>3, <2>5
       DEF Yard!Spawn, Yard!TypeOK, Yard!fileVars, Yard!spsVars, Yard!threadVars, Yard!ghostVars, Yard!countVars
<1>5. CASE Yard!Ready
  <2>1. task' \in Yard!Job
    BY <1>1, <1>5, ZenonT(60) DEF Yard!Ready, Yard!Job
  <2> QED BY <1>1, <1>5, <2>1
       DEF Yard!Ready, Yard!TypeOK, Yard!fileVars, Yard!spsVars, Yard!threadVars, Yard!ghostVars, Yard!countVars
<1>6. CASE Yard!StartInterrupted
  <2>1. task' \in Yard!Job
    BY <1>1, <1>6 DEF Yard!StartInterrupted, Yard!Job
  <2>2. mishaps' \in 0 .. MaxMishaps
    BY <1>1, <1>6 DEF Yard!StartInterrupted, Yard!TypeOK, Yard!ToolyardAssumption
  <2> QED BY <1>1, <1>6, <2>1, <2>2
       DEF Yard!StartInterrupted, Yard!TypeOK, Yard!hostVars, Yard!fileVars, Yard!spsVars, Yard!threadVars, Yard!ghostVars
<1> QED BY <1>2, <1>3, <1>4, <1>5, <1>6, SMTT(60)

LEMMA YardTypesEnd ==
  ASSUME Yard!ToolyardAssumption, Yard!ToolyardInv, Yard!Rmtree \/ Yard!Finish \/ Yard!CliCrash
  PROVE  Yard!TypeOK'
<1>1. Yard!TypeOK /\ task \in Yard!Job /\ task.tool \in Tools
  BY YardJob DEF Yard!ToolyardInv, Yard!Rmtree, Yard!Finish, Yard!CliCrash
<1>2. CASE Yard!Rmtree
  <2>1. task' \in Yard!Job
    BY <1>1, <1>2, YardJobSet DEF Yard!Rmtree, Yard!Go, YardPcs
  <2>2. disk' \in [Tools -> Decls \cup {None}]
    BY <1>1, <1>2 DEF Yard!Rmtree, Yard!TypeOK
  <2> QED BY <1>1, <1>2, <2>1, <2>2
       DEF Yard!Rmtree, Yard!TypeOK, Yard!hostVars, Yard!fileVars, Yard!spsVars, Yard!threadVars, Yard!ghostVars, Yard!countVars
<1>3. CASE Yard!Finish
  <2>1. processes' \subseteq Yard!Process
    BY <1>1, <1>3, YardProcs DEF Yard!Finish, Yard!TypeOK
  <2>2. rc' \in Yard!Threads
    BY <1>1, <1>3 DEF Yard!Finish, Yard!TypeOK, Yard!Threads
  <2>3. wanted' \in [Tools -> {"up", "down", "open"}]
    BY <1>1, <1>3 DEF Yard!Finish, Yard!TypeOK
  <2> QED BY <1>1, <1>3, <2>1, <2>2, <2>3
       DEF Yard!Finish, Yard!TypeOK, Yard!fileVars, Yard!spsVars, Yard!countVars
<1>4. CASE Yard!CliCrash
  <2>1. processes' \subseteq Yard!Process
    BY <1>1, <1>4, YardProcs DEF Yard!CliCrash, Yard!TypeOK
  <2>2. wanted' \in [Tools -> {"up", "down", "open"}]
    BY <1>1, <1>4 DEF Yard!CliCrash, Yard!TypeOK
  <2>3. given' \subseteq Nat
    BY <1>1, <1>4, YardInHand
  <2>4. kills' \in 0 .. MaxKills
    BY <1>1, <1>4 DEF Yard!CliCrash, Yard!TypeOK, Yard!ToolyardAssumption
  <2> QED BY <1>1, <1>4, <2>1, <2>2, <2>3, <2>4
       DEF Yard!CliCrash, Yard!TypeOK, Yard!fileVars, Yard!spsVars, Yard!threadVars
<1> QED BY <1>2, <1>3, <1>4

LEMMA YardTypesHost ==
  ASSUME Yard!ToolyardAssumption, Yard!ToolyardInv,
         \/ \E p \in processes : Yard!Exit(p)
         \/ \E pid \in Pids : Yard!Foreign(pid)
         \/ \E t \in Tools : Yard!ListTools(t) \/ Yard!RecordEdit(t)
         \/ \E t \in Tools, d \in Decls : Yard!EditManifest(t, d)
         \/ Yard!SpsStop \/ Yard!SpsStart
  PROVE  Yard!TypeOK'
<1>1. Yard!TypeOK
  BY DEF Yard!ToolyardInv
<1>2. ASSUME NEW p \in processes, Yard!Exit(p) PROVE Yard!TypeOK'
  BY <1>1, <1>2, YardProcs
     DEF Yard!Exit, Yard!TypeOK, Yard!fileVars, Yard!spsVars, Yard!threadVars, Yard!ghostVars, Yard!countVars
<1>3. ASSUME NEW pid \in Pids, Yard!Foreign(pid) PROVE Yard!TypeOK'
  <2>1. [pid |-> pid, birth |-> born', tool |-> "other", live |-> TRUE, parent |-> "init"] \in Yard!Process /\ born' \in Nat
    BY <1>1, <1>3 DEF Yard!Foreign, Yard!Process, Yard!TypeOK
  <2>2. processes' \subseteq Yard!Process
    BY <1>1, <1>3, <2>1 DEF Yard!Foreign, Yard!TypeOK
  <2> QED BY <1>1, <1>3, <2>1, <2>2
       DEF Yard!Foreign, Yard!TypeOK, Yard!fileVars, Yard!spsVars, Yard!threadVars, Yard!ghostVars, Yard!countVars
<1>4. ASSUME NEW t \in Tools, Yard!ListTools(t) PROVE Yard!TypeOK'
  BY <1>1, <1>4
     DEF Yard!ListTools, Yard!TypeOK, Yard!fileVars, Yard!spsVars, Yard!threadVars, Yard!ghostVars, Yard!countVars
<1>5. ASSUME NEW t \in Tools, Yard!RecordEdit(t) PROVE Yard!TypeOK'
  <2>1. disk[t] \in Decls /\ recorded[t] \in Yard!RunningTool
    BY <1>1, <1>5 DEF Yard!RecordEdit, Yard!TypeOK
  <2>2. [recorded[t] EXCEPT !.decl = disk[t]] \in Yard!RunningTool
    BY <2>1 DEF Yard!RunningTool
  <2>3. recorded' \in [Tools -> Yard!RunningTool \cup {None}]
    BY <1>1, <1>5, <2>2 DEF Yard!RecordEdit, Yard!TypeOK
  <2>4. chan' \in [Tools -> Nat]
    BY <1>1, <1>5 DEF Yard!RecordEdit, Yard!View, Yard!TypeOK, Yard!RunningTool
  <2>5. approved' \in [Tools -> SUBSET Decls]
    BY <1>1, <1>5, <2>1 DEF Yard!RecordEdit, Yard!TypeOK
  <2> QED BY <1>1, <1>5, <2>3, <2>4, <2>5
       DEF Yard!RecordEdit, Yard!TypeOK, Yard!hostVars, Yard!spsVars, Yard!threadVars, Yard!countVars
<1>6. ASSUME NEW t \in Tools, NEW d \in Decls, Yard!EditManifest(t, d) PROVE Yard!TypeOK'
  BY <1>1, <1>6
     DEF Yard!EditManifest, Yard!TypeOK, Yard!hostVars, Yard!fileVars, Yard!spsVars, Yard!threadVars, Yard!ghostVars, Yard!countVars
<1>7. CASE Yard!SpsStop
  BY <1>1, <1>7
     DEF Yard!SpsStop, Yard!TypeOK, Yard!NoState, Yard!hostVars, Yard!fileVars, Yard!threadVars, Yard!ghostVars, Yard!countVars
<1>8. CASE Yard!SpsStart
  BY <1>1, <1>8
     DEF Yard!SpsStart, Yard!TypeOK, Yard!hostVars, Yard!fileVars, Yard!threadVars, Yard!ghostVars, Yard!countVars
<1> QED BY <1>2, <1>3, <1>4, <1>5, <1>6, <1>7, <1>8

LEMMA YardTypesRc ==
  ASSUME Yard!ToolyardAssumption, Yard!ToolyardInv, Yard!RcStep
  PROVE  Yard!TypeOK'
<1>1. Yard!TypeOK /\ Yard!ThreadsInv
  BY DEF Yard!ToolyardInv
<1>2. rc \in Yard!Threads
  BY <1>1 DEF Yard!TypeOK
<1>3. CASE Yard!RcWait
  <2>1. rc' \in Yard!Threads
    BY <1>2, <1>3 DEF Yard!RcWait, Yard!Threads
  <2> QED BY <1>1, <1>3, <2>1
       DEF Yard!RcWait, Yard!TypeOK, Yard!hostVars, Yard!fileVars, Yard!spsVars, Yard!ghostVars, Yard!countVars
<1>4. CASE Yard!RcSnap
  <2>1. rc' \in Yard!Threads
    BY <1>1, <1>2, <1>4 DEF Yard!RcSnap, Yard!Threads, Yard!TypeOK
  <2> QED BY <1>1, <1>4, <2>1
       DEF Yard!RcSnap, Yard!TypeOK, Yard!hostVars, Yard!fileVars, Yard!spsVars, Yard!ghostVars, Yard!countVars
<1>5. CASE Yard!RcPick
  <2>1. rc' \in Yard!Threads
    <3>1. Yard!RcOff \in Yard!Threads
      BY DEF Yard!Threads, Yard!RcOff, Yard!NoState
    <3>2. ASSUME NEW t \in rc.todo, rc' = [rc EXCEPT !.pc = "assess", !.tool = t, !.todo = rc.todo \ {t}]
          PROVE  rc' \in Yard!Threads
      <4>1. t \in Tools /\ rc.todo \ {t} \in SUBSET Tools
        BY <1>2 DEF Yard!Threads
      <4> QED BY <1>2, <3>2, <4>1 DEF Yard!Threads
    <3> QED BY <1>5, <3>1, <3>2 DEF Yard!RcPick
  <2>2. reclock' \in {"reconciler", "watchdog", None}
    BY <1>1, <1>5 DEF Yard!RcPick, Yard!TypeOK
  <2> QED BY <1>1, <1>5, <2>1, <2>2
       DEF Yard!RcPick, Yard!TypeOK, Yard!hostVars, Yard!fileVars, Yard!spsVars, Yard!ghostVars, Yard!countVars
<1>6. CASE Yard!RcAssess
  <2>1. rc' \in Yard!Threads
    BY <1>2, <1>6 DEF Yard!RcAssess, Yard!Threads
  <2>2. reclock' \in {"reconciler", "watchdog", None} /\ processes' \subseteq processes
    BY <1>1, <1>6 DEF Yard!RcAssess, Yard!TypeOK
  <2> QED BY <1>1, <1>6, <2>1, <2>2
       DEF Yard!RcAssess, Yard!TypeOK, Yard!fileVars, Yard!spsVars, Yard!ghostVars, Yard!countVars
<1>7. CASE Yard!RcStart
  <2>0. rc.tool \in Tools
    BY <1>1, <1>7 DEF Yard!RcStart, Yard!ThreadsInv
  <2>1. rc' \in Yard!Threads
    BY <1>2, <1>7 DEF Yard!RcStart, Yard!Threads
  <2>2. reclock' \in {"reconciler", "watchdog", None}
    BY <1>1, <1>7 DEF Yard!RcStart, Yard!TypeOK
  <2>3. recorded[rc.tool] # None => recorded[rc.tool].decl \in Decls
    BY <1>1, <2>0 DEF Yard!TypeOK, Yard!RunningTool
  <2>4. task' \in Yard!Job \cup {None}
    BY <1>1, <1>7, <2>0, <2>3, YardNewJob DEF Yard!RcStart
  <2> QED BY <1>1, <1>7, <2>1, <2>2, <2>4
       DEF Yard!RcStart, Yard!TypeOK, Yard!hostVars, Yard!fileVars, Yard!spsVars, Yard!ghostVars, Yard!countVars
<1>8. CASE Yard!RcRestore
  <2>0. rc.tool \in Tools
    BY <1>1, <1>8 DEF Yard!RcRestore, Yard!ThreadsInv
  <2>1. rc' \in Yard!Threads
    BY <1>2, <1>8 DEF Yard!RcRestore, Yard!Threads, Yard!RcOff, Yard!NoState
  <2>2. rc.snap[rc.tool] \in Yard!RunningTool \cup {None}
    BY <1>2, <2>0 DEF Yard!Threads
  <2>3. recorded' \in [Tools -> Yard!RunningTool \cup {None}]
    BY <1>1, <1>8, <2>0, <2>2 DEF Yard!RcRestore, Yard!TypeOK, Yard!fileVars
  <2>4. chan' \in [Tools -> Nat]
    BY <1>1, <1>8, <2>3 DEF Yard!RcRestore, Yard!TypeOK, Yard!fileVars, Yard!View, Yard!RunningTool
  <2>5. wanted' \in [Tools -> {"up", "down", "open"}] /\ mishaps' \in 0 .. MaxMishaps /\ reclock' = None
    BY <1>1, <1>8, <2>0 DEF Yard!RcRestore, Yard!TypeOK, Yard!ToolyardAssumption
  <2> QED BY <1>1, <1>8, <2>1, <2>3, <2>4, <2>5
       DEF Yard!RcRestore, Yard!TypeOK, Yard!hostVars, Yard!spsVars
<1> QED BY <1>3, <1>4, <1>5, <1>6, <1>7, <1>8 DEF Yard!RcStep

LEMMA YardTypesWd ==
  ASSUME Yard!ToolyardAssumption, Yard!ToolyardInv, Yard!WdStep
  PROVE  Yard!TypeOK'
<1>1. Yard!TypeOK /\ Yard!ThreadsInv
  BY DEF Yard!ToolyardInv
<1>2. wd \in Yard!Watch /\ sps \in [up : BOOLEAN, boot : Nat]
  BY <1>1 DEF Yard!TypeOK
<1>3. CASE Yard!WdProbe
  <2>1. wd' \in Yard!Watch
    BY <1>2, <1>3 DEF Yard!WdProbe, Yard!Watch
  <2> QED BY <1>1, <1>3, <2>1
       DEF Yard!WdProbe, Yard!TypeOK, Yard!hostVars, Yard!fileVars, Yard!spsVars, Yard!ghostVars, Yard!countVars
<1>4. CASE Yard!WdLock
  <2>1. wd' \in Yard!Watch
    BY <1>2, <1>4 DEF Yard!WdLock, Yard!Watch
  <2> QED BY <1>1, <1>4, <2>1
       DEF Yard!WdLock, Yard!TypeOK, Yard!hostVars, Yard!fileVars, Yard!spsVars, Yard!ghostVars, Yard!countVars
<1>5. CASE Yard!WdLoad
  <2>1. wd' \in Yard!Watch
    BY <1>2, <1>5 DEF Yard!WdLoad, Yard!Watch
  <2>2. task' \in Yard!Job
    BY <1>1, <1>5, YardNewJob DEF Yard!WdLoad
  <2> QED BY <1>1, <1>5, <2>1, <2>2
       DEF Yard!WdLoad, Yard!TypeOK, Yard!hostVars, Yard!fileVars, Yard!spsVars, Yard!ghostVars, Yard!countVars
<1>6. ASSUME NEW t \in Tools, Yard!WdRegister(t) PROVE Yard!TypeOK'
  <2>1. wd' \in Yard!Watch
    BY <1>2, <1>6, ZenonT(60) DEF Yard!WdRegister, Yard!Watch
  <2>2. recorded[t] \in Yard!RunningTool
    BY <1>1, <1>6 DEF Yard!WdRegister, Yard!TypeOK, Yard!ThreadsInv
  <2>3. [esecret |-> recorded[t].birth, decl |-> recorded[t].decl] \in Yard!Registration
    BY <2>2 DEF Yard!RunningTool, Yard!Registration
  <2>4. regs' \in [Tools -> Yard!Registration \cup {None}]
    BY <1>1, <1>6, <2>3 DEF Yard!WdRegister, Yard!TypeOK
  <2>5. mishaps' \in 0 .. MaxMishaps
    BY <1>1, <1>6 DEF Yard!WdRegister, Yard!TypeOK, Yard!ToolyardAssumption
  <2> QED BY <1>1, <1>6, <2>1, <2>4, <2>5
       DEF Yard!WdRegister, Yard!TypeOK, Yard!fileVars, Yard!ghostVars
<1>7. CASE Yard!WdEnd
  <2>1. wd' \in Yard!Watch
    BY <1>2, <1>7 DEF Yard!WdEnd, Yard!Watch
  <2> QED BY <1>1, <1>7, <2>1
       DEF Yard!WdEnd, Yard!TypeOK, Yard!hostVars, Yard!fileVars, Yard!spsVars, Yard!ghostVars, Yard!countVars
<1> QED BY <1>3, <1>4, <1>5, <1>6, <1>7 DEF Yard!WdStep

LEMMA YardTypesCrash ==
  ASSUME Yard!ToolyardAssumption, Yard!ToolyardInv, Yard!AdminRestart \/ Yard!Reboot
  PROVE  Yard!TypeOK'
<1>1. Yard!TypeOK
  BY DEF Yard!ToolyardInv
<1>2. [Yard!RcOff EXCEPT !.pc = "wait"] \in Yard!Threads /\ Yard!WdNew \in Yard!Watch
  BY DEF Yard!RcOff, Yard!NoState, Yard!WdNew, Yard!Threads, Yard!Watch
<1>3. task # None => task \in Yard!Job /\ (task.who = "admin" => task.tool \in Tools)
  BY YardJob
<1>4. kills' \in 0 .. MaxKills
  BY <1>1 DEF Yard!AdminRestart, Yard!Reboot, Yard!TypeOK, Yard!ToolyardAssumption
<1>5. CASE Yard!AdminRestart
  <2>1. processes' \subseteq Yard!Process
    BY <1>1, <1>5, YardProcs DEF Yard!AdminRestart, Yard!TypeOK
  <2>2. wanted' \in [Tools -> {"up", "down", "open"}]
    BY <1>1, <1>3, <1>5 DEF Yard!AdminRestart, Yard!TypeOK
  <2>3. given' \subseteq Nat
    BY <1>1, <1>5, YardInHand
  <2>4. task' \in Yard!Job \cup {None}
    BY <1>3, <1>5 DEF Yard!AdminRestart
  <2> QED BY <1>1, <1>2, <1>4, <1>5, <2>1, <2>2, <2>3, <2>4
       DEF Yard!AdminRestart, Yard!TypeOK, Yard!fileVars, Yard!spsVars
<1>6. CASE Yard!Reboot
  <2>1. wanted' \in [Tools -> {"up", "down", "open"}]
    BY <1>1, <1>3, <1>6 DEF Yard!Reboot, Yard!TypeOK, Yard!Job
  <2>2. sps' \in [up : BOOLEAN, boot : Nat] /\ boot' \in Nat
    <3>1. boot \in Nat /\ sps \in [up : BOOLEAN, boot : Nat]
      BY <1>1 DEF Yard!TypeOK
    <3>2. boot' = boot + 1 /\ sps' = [sps EXCEPT !.boot = sps.boot + 1, !.up = TRUE]
      BY <1>6 DEF Yard!Reboot
    <3>3. sps.boot + 1 \in Nat /\ boot + 1 \in Nat
      BY <3>1
    <3>4. ASSUME NEW n \in Nat PROVE [sps EXCEPT !.boot = n, !.up = TRUE] \in [up : BOOLEAN, boot : Nat]
      BY <3>1
    <3> QED BY <3>2, <3>3, <3>4
  <2>3. regs' \in [Tools -> Yard!Registration \cup {None}]
    BY <1>6 DEF Yard!Reboot, Yard!NoState
  <2> QED BY <1>1, <1>2, <1>4, <1>6, <2>1, <2>2, <2>3
       DEF Yard!Reboot, Yard!TypeOK, Yard!fileVars
<1> QED BY <1>5, <1>6

LEMMA YardTypes ==
  ASSUME Yard!ToolyardAssumption, Yard!ToolyardInv, Yard!Next PROVE Yard!TypeOK'
<1>1. Yard!TypeOK
  BY DEF Yard!ToolyardInv
<1> QED BY <1>1, YardTypesBegin, YardTypesTerminate, YardTypesSave, YardTypesStart, YardTypesEnd, YardTypesHost, YardTypesRc,
           YardTypesWd, YardTypesCrash
     DEF Yard!Next, Yard!JobStep

-----------------------------------------------------------------------------
(* Steps beside the command that holds the lock *)

\* Such a step leaves the job and state.json alone, and what is in hand stays in hand.
LEMMA YardAsideInHand ==
  ASSUME Yard!ToolyardAssumption, Yard!ToolyardInv, Yard!TypeOK', born <= born', boot' = boot, Wane,
         task # None, task.pc # "loop", task' = task, recorded' = recorded, given' = given,
         \A t \in Tools : approved[t] \subseteq approved'[t],
         \A t \in Tools : rc'.snap[t] \in {None, recorded[t], rc.snap[t]}
  PROVE  Yard!InHandInv'
<1>1. /\ Yard!InHandInv /\ task.tool \in Tools /\ Yard!ProcsInv /\ born \in Nat /\ born' \in Nat
  BY YardJob DEF Yard!ToolyardInv, Yard!TypeOK
<1>2. /\ \A r, t : t \in Tools /\ Yard!Sound(r, t) => Yard!Sound(r, t)'
      /\ \A r : r.birth \in 1 .. born /\ Yard!Dead(r) => Yard!Dead(r)'
  BY <1>1, YardWane
<1>3. task.run # None => Yard!Sound(task.run, task.tool) /\ task.run.birth \in 1 .. born
  BY <1>1 DEF Yard!InHandInv, Yard!Sound
<1>4. task.run # None => Yard!Sound(task.run, task.tool)'
  BY <1>1, <1>2, <1>3 DEF Yard!Sound
<1>5. task.run # None /\ Yard!Dead(task.run) => Yard!Dead(task.run)'
  BY <1>2, <1>3 DEF Yard!Dead
<1>6. task.pc = "spawn" =>
         /\ task.run.boot = boot /\ \A p \in processes' : p.birth # task.run.birth
         /\ \A t \in Tools : /\ recorded[t] # None => recorded[t].birth # task.run.birth
                            /\ rc'.snap[t] # None => rc'.snap[t].birth # task.run.birth
  BY <1>1, <1>3 DEF Yard!InHandInv, Wane
<1> QED BY <1>1, <1>4, <1>5, <1>6 DEF Yard!InHandInv, Yard!Dead, Yard!Sound

LEMMA YardAside ==
  ASSUME Yard!ToolyardAssumption, Yard!ToolyardInv, Yard!TypeOK', born <= born', boot' = boot, Wane,
         task' = task, recorded' = recorded, given' = given,
         \A t \in Tools : approved[t] \subseteq approved'[t],
         \A t \in Tools : rc'.snap[t] \in {None, recorded[t], rc.snap[t]},
         rc.pc = "job" /\ task # None /\ task.who = "reconciler" => rc' = rc,
         Yard!ThreadsInv', Yard!IntentKept', Yard!GrantsApproved'
  PROVE  Yard!ToolyardInv'
<1>1. /\ Yard!ProcsInv /\ Yard!RecordsInv /\ Yard!NoForgottenProcess /\ born \in Nat /\ born' \in Nat
  BY DEF Yard!ToolyardInv, Yard!TypeOK
<1>2. /\ Yard!ProcsInv'
      /\ \A r, t : t \in Tools /\ Yard!Sound(r, t) => Yard!Sound(r, t)'
  BY <1>1, YardWane
<1>3. Yard!RecordsInv'
  <2>1. ASSUME NEW t \in Tools
        PROVE  /\ (recorded[t] # None => Yard!Sound(recorded[t], t))'
               /\ (rc.snap[t] # None => Yard!Sound(rc.snap[t], t))'
    <3>1. /\ recorded[t] # None => Yard!Sound(recorded[t], t)
          /\ rc.snap[t] # None => Yard!Sound(rc.snap[t], t)
      BY <1>1 DEF Yard!RecordsInv, Yard!Sound
    <3> QED BY <1>2, <3>1 DEF Yard!Sound
  <2> QED BY <2>1 DEF Yard!RecordsInv, Yard!Sound
<1>4. task # None /\ task.pc # "loop" => Yard!InHandInv'
  BY YardAsideInHand
<1>5. task # None /\ task.pc # "loop" => Yard!PhaseInv'
  <2> SUFFICES ASSUME task # None, task.pc # "loop" PROVE Yard!PhaseInv'
    OBVIOUS
  <2>1. Yard!PhaseInv
    BY YardJob
  <2> QED BY <2>1 DEF Yard!PhaseInv
<1>6. Yard!NoForgottenProcess'
  BY <1>1 DEF Yard!NoForgottenProcess, Wane, Yard!ToolyardAssumption
<1>7. task # None => IF task.pc = "loop" THEN task.op = "reregister" /\ task.who = "watchdog" /\ task.tool = None /\ task.run = None
                    ELSE task.op # "reregister"
  BY YardJob
<1> QED BY <1>2, <1>3, <1>4, <1>5, <1>6, <1>7 DEF Yard!ToolyardInv

LEMMA YardHostAside ==
  ASSUME Yard!ToolyardAssumption, Yard!ToolyardInv, Yard!TypeOK',
         \/ \E p \in processes : Yard!Exit(p)
         \/ \E pid \in Pids : Yard!Foreign(pid)
         \/ \E t \in Tools : Yard!ListTools(t)
         \/ \E t \in Tools, d \in Decls : Yard!EditManifest(t, d)
         \/ Yard!SpsStop \/ Yard!SpsStart
  PROVE  Yard!ToolyardInv'
<1>1. /\ Yard!TypeOK /\ Yard!ProcsInv /\ Yard!ThreadsInv /\ Yard!IntentKept /\ Yard!GrantsApproved /\ born \in Nat
  BY DEF Yard!ToolyardInv, Yard!TypeOK
<1>2. /\ boot' = boot /\ task' = task /\ recorded' = recorded /\ given' = given /\ approved' = approved
      /\ rc' = rc /\ wd' = wd /\ wanted' = wanted /\ kills' = kills /\ (regs' = regs \/ regs' = [t \in Tools |-> None])
  BY DEF Yard!Exit, Yard!Foreign, Yard!ListTools, Yard!EditManifest, Yard!SpsStop, Yard!SpsStart, Yard!NoState,
         Yard!hostVars, Yard!fileVars, Yard!spsVars, Yard!threadVars, Yard!ghostVars, Yard!countVars
<1>3. Yard!ThreadsInv' /\ Yard!IntentKept' /\ Yard!GrantsApproved'
  BY <1>1, <1>2 DEF Yard!ThreadsInv, Yard!IntentKept, Yard!GrantsApproved
<1>4. Wane /\ born <= born'
  <2>1. ASSUME NEW p \in processes, Yard!Exit(p) PROVE Wane /\ born' = born
    <3>1. p \in Yard!Process
      BY <1>1 DEF Yard!TypeOK
    <3>2. PICK q : q.birth = p.birth /\ q.pid = p.pid /\ q.tool = p.tool
                   /\ (processes' = processes \ {p} \/ processes' = (processes \ {p}) \cup {q}) /\ ~q.live
      <4>1. /\ [p EXCEPT !.live = FALSE].birth = p.birth /\ [p EXCEPT !.live = FALSE].pid = p.pid
            /\ [p EXCEPT !.live = FALSE].tool = p.tool /\ ~[p EXCEPT !.live = FALSE].live
        BY <3>1 DEF Yard!Process
      <4> QED BY <2>1, <4>1, Zenon DEF Yard!Exit, Yard!Ended
    <3> QED BY <1>1, <2>1, <3>2 DEF Yard!Exit, Wane, Yard!ProcsInv
  <2>2. ASSUME NEW pid \in Pids, Yard!Foreign(pid) PROVE Wane /\ born' = born + 1
    <3>1. \A p \in processes : p.birth \in 1 .. born
      BY <1>1 DEF Yard!ProcsInv
    <3>2. PICK new : new.birth = born + 1 /\ new.tool = "other" /\ processes' = processes \cup {new}
      BY <2>2 DEF Yard!Foreign
    <3> QED BY <1>1, <2>2, <3>1, <3>2 DEF Yard!Foreign, Wane, Yard!ProcsInv
  <2>3. ASSUME NEW t \in Tools, Yard!ListTools(t) PROVE Wane /\ born' = born
    BY <1>1, <2>3, YardReaps DEF Yard!ListTools
  <2>4. ASSUME processes' = processes, born' = born PROVE Wane /\ born' = born
    BY <1>1, <2>4, YardReaps
  <2>5. (\E t \in Tools, d \in Decls : Yard!EditManifest(t, d)) \/ Yard!SpsStop \/ Yard!SpsStart => processes' = processes /\ born' = born
    BY DEF Yard!EditManifest, Yard!SpsStop, Yard!SpsStart, Yard!hostVars
  <2> QED BY <1>1, <2>1, <2>2, <2>3, <2>4, <2>5
<1> QED BY <1>1, <1>2, <1>3, <1>4, YardAside

LEMMA YardRcAside ==
  ASSUME Yard!ToolyardAssumption, Yard!ToolyardInv, Yard!TypeOK',
         \/ Yard!RcWait \/ Yard!RcSnap \/ Yard!RcPick \/ Yard!RcAssess
         \/ Yard!RcStart /\ task' = task
  PROVE  Yard!ToolyardInv'
<1>1. /\ Yard!TypeOK /\ Yard!ProcsInv /\ Yard!ThreadsInv /\ Yard!IntentKept /\ Yard!GrantsApproved /\ born \in Nat
      /\ rc \in Yard!Threads
  BY DEF Yard!ToolyardInv, Yard!TypeOK
<1>2. /\ boot' = boot /\ born' = born /\ task' = task /\ recorded' = recorded /\ given' = given /\ approved' = approved
      /\ wd' = wd /\ wanted' = wanted /\ kills' = kills /\ regs' = regs /\ processes' \subseteq processes
  BY DEF Yard!RcWait, Yard!RcSnap, Yard!RcPick, Yard!RcAssess, Yard!RcStart,
         Yard!hostVars, Yard!fileVars, Yard!spsVars, Yard!threadVars, Yard!ghostVars, Yard!countVars
<1>3. Wane
  BY <1>1, <1>2, YardReaps
<1>4. Yard!GrantsApproved'
  BY <1>1, <1>2 DEF Yard!GrantsApproved
<1>5. /\ \A t \in Tools : rc'.snap[t] \in {None, recorded[t], rc.snap[t]}
      /\ rc.pc = "job" => rc' = rc
      /\ rc.pc # "restore"
      /\ rc'.pc \in {"assess", "start", "job", "restore"} => rc'.tool \in Tools /\ rc'.snap[rc'.tool] # None
      /\ \A t \in rc'.todo : rc'.snap[t] # None
  <2>1. CASE Yard!RcWait
    BY <1>1, <2>1 DEF Yard!RcWait, Yard!ThreadsInv, Yard!Threads
  <2>2. CASE Yard!RcSnap
    BY <1>1, <2>2, SMTT(60) DEF Yard!RcSnap, Yard!ThreadsInv, Yard!Threads
  <2>3. CASE Yard!RcPick
    <3>1. CASE rc' = Yard!RcOff
      BY <1>1, <2>3, <3>1 DEF Yard!RcPick, Yard!RcOff, Yard!NoState
    <3>2. ASSUME NEW t \in rc.todo, rc' = [rc EXCEPT !.pc = "assess", !.tool = t, !.todo = rc.todo \ {t}]
          PROVE  <1>5
      <4>1. t \in Tools /\ rc.snap[t] # None
        BY <1>1 DEF Yard!Threads, Yard!ThreadsInv
      <4>2. rc'.pc = "assess" /\ rc'.tool = t /\ rc'.todo = rc.todo \ {t} /\ rc'.snap = rc.snap
        BY <1>1, <3>2 DEF Yard!Threads
      <4> QED BY <1>1, <2>3, <4>1, <4>2 DEF Yard!ThreadsInv, Yard!RcPick
    <3> QED BY <2>3, <3>1, <3>2 DEF Yard!RcPick
  <2>4. CASE Yard!RcAssess
    <3>1. PICK q \in {"pick", "start"} : rc' = [rc EXCEPT !.pc = q]
      BY <2>4 DEF Yard!RcAssess
    <3>2. rc'.pc = q /\ rc'.tool = rc.tool /\ rc'.todo = rc.todo /\ rc'.snap = rc.snap
      BY <1>1, <3>1 DEF Yard!Threads
    <3> QED BY <1>1, <2>4, <3>2 DEF Yard!RcAssess, Yard!ThreadsInv
  <2>5. CASE Yard!RcStart /\ task' = task
    <3>1. PICK q \in {"pick", "restore", "job"} : rc' = [rc EXCEPT !.pc = q]
      BY <2>5 DEF Yard!RcStart
    <3>2. rc'.pc = q /\ rc'.tool = rc.tool /\ rc'.todo = rc.todo /\ rc'.snap = rc.snap
      BY <1>1, <3>1 DEF Yard!Threads
    <3> QED BY <1>1, <2>5, <3>2 DEF Yard!RcStart, Yard!ThreadsInv
  <2> QED BY <2>1, <2>2, <2>3, <2>4, <2>5
<1>6. Yard!ThreadsInv'
  BY <1>1, <1>2, <1>5 DEF Yard!ThreadsInv
<1>7. Yard!IntentKept'
  BY <1>1, <1>2, <1>5 DEF Yard!IntentKept
<1> QED BY <1>1, <1>2, <1>3, <1>4, <1>5, <1>6, <1>7, YardAside

LEMMA YardWdAside ==
  ASSUME Yard!ToolyardAssumption, Yard!ToolyardInv, Yard!TypeOK',
         Yard!WdProbe \/ Yard!WdLock \/ (\E t \in Tools : Yard!WdRegister(t))
  PROVE  Yard!ToolyardInv'
<1>1. /\ Yard!TypeOK /\ Yard!ProcsInv /\ Yard!ThreadsInv /\ Yard!IntentKept /\ Yard!GrantsApproved /\ born \in Nat
      /\ wd \in Yard!Watch /\ Yard!RecordsInv
  BY DEF Yard!ToolyardInv, Yard!TypeOK
<1>2. /\ boot' = boot /\ born' = born /\ task' = task /\ recorded' = recorded /\ given' = given /\ approved' = approved
      /\ rc' = rc /\ wanted' = wanted /\ kills' = kills /\ processes' \subseteq processes
  BY DEF Yard!WdProbe, Yard!WdLock, Yard!WdRegister,
         Yard!hostVars, Yard!fileVars, Yard!spsVars, Yard!ghostVars, Yard!countVars
<1>3. Wane
  BY <1>1, <1>2, YardReaps
<1>4. wd'.pc = "pass" => wd.pc = "pass" /\ wd'.todo \subseteq wd.todo
  <2>1. ASSUME NEW t \in Tools, Yard!WdRegister(t) PROVE wd.pc = "pass" /\ wd'.todo \subseteq wd.todo
    <3>1. \/ wd' = [wd EXCEPT !.todo = wd.todo \ {t}]
          \/ wd' = [wd EXCEPT !.todo = wd.todo \ {t}, !.bad = TRUE]
      BY <2>1 DEF Yard!WdRegister
    <3>2. wd'.todo = wd.todo \ {t}
      BY <1>1, <3>1 DEF Yard!Watch
    <3> QED BY <2>1, <3>2 DEF Yard!WdRegister
  <2>2. Yard!WdProbe \/ Yard!WdLock => wd'.pc # "pass"
    <3>1. Yard!WdLock => wd' = [wd EXCEPT !.pc = "load"]
      BY DEF Yard!WdLock
    <3>2. Yard!WdProbe => wd' = [wd EXCEPT !.pc = "lock", !.cur = sps.boot]
      BY DEF Yard!WdProbe
    <3>3. \A n : [wd EXCEPT !.pc = "lock", !.cur = n].pc = "lock"
      BY <1>1 DEF Yard!Watch
    <3>4. [wd EXCEPT !.pc = "load"].pc = "load"
      BY <1>1 DEF Yard!Watch
    <3> QED BY <3>1, <3>2, <3>3, <3>4
  <2> QED BY <2>1, <2>2
<1>5. Yard!ThreadsInv' /\ Yard!IntentKept'
  BY <1>1, <1>2, <1>4 DEF Yard!ThreadsInv, Yard!IntentKept
<1>6. Yard!GrantsApproved'
  <2>1. CASE regs' = regs
    BY <1>1, <1>2, <2>1 DEF Yard!GrantsApproved
  <2>2. ASSUME NEW t \in Tools, Yard!WdRegister(t),
               regs' = [regs EXCEPT ![t] = [esecret |-> recorded[t].birth, decl |-> recorded[t].decl]]
        PROVE  Yard!GrantsApproved'
    <3>1. recorded[t].decl \in approved[t]
      BY <1>1, <2>2 DEF Yard!WdRegister, Yard!ThreadsInv, Yard!RecordsInv, Yard!Sound
    <3>2. regs \in [Tools -> Yard!Registration \cup {None}]
      BY <1>1 DEF Yard!TypeOK
    <3> QED BY <1>1, <1>2, <2>2, <3>1, <3>2 DEF Yard!GrantsApproved
  <2> QED BY <2>1, <2>2 DEF Yard!WdProbe, Yard!WdLock, Yard!WdRegister, Yard!spsVars
<1> QED BY <1>1, <1>2, <1>3, <1>5, <1>6, YardAside

-----------------------------------------------------------------------------
(* The steps of a command that keep its runtime in hand *)

\* What such a step leaves alone.
CommandStep ==
    /\ task # None /\ task.pc # "loop" /\ task' # None
    /\ task'.tool = task.tool /\ task'.op = task.op /\ task'.who = task.who /\ task'.decl = task.decl
    /\ rc' = rc /\ wd' = wd /\ boot' = boot /\ approved' = approved /\ wanted' = wanted /\ kills' = kills
    /\ given \subseteq given'

LEMMA YardSome ==
  ASSUME Yard!ToolyardAssumption PROVE \A j \in Yard!Job : j # None
  BY DEF Yard!ToolyardAssumption

LEMMA YardEnded ==
  ASSUME Yard!TypeOK, Yard!ProcsInv, NEW p \in processes, processes' = Yard!Ended(p) PROVE Wane
<1>1. p \in Yard!Process
  BY DEF Yard!TypeOK
<1>2. PICK q : q.birth = p.birth /\ q.pid = p.pid /\ q.tool = p.tool
               /\ (processes' = processes \ {p} \/ processes' = (processes \ {p}) \cup {q}) /\ ~q.live
  <2>1. /\ [p EXCEPT !.live = FALSE].birth = p.birth /\ [p EXCEPT !.live = FALSE].pid = p.pid
        /\ [p EXCEPT !.live = FALSE].tool = p.tool /\ ~[p EXCEPT !.live = FALSE].live
    BY <1>1 DEF Yard!Process
  <2> QED BY <2>1, Zenon DEF Yard!Ended
<1> QED BY <1>2 DEF Wane, Yard!ProcsInv

\* A runtime that does not answer any more has no live process.
LEMMA YardGone ==
  ASSUME Yard!ProcsInv, NEW run, NEW t, NEW who, Yard!Sound(run, t), ~Yard!Alive(run, who)
  PROVE  Yard!Dead(run)
  BY DEF Yard!ProcsInv, Yard!Sound, Yard!Alive, Yard!Reapable, Yard!Same, Yard!At, Yard!Dead

LEMMA YardCommand ==
  ASSUME Yard!ToolyardAssumption, Yard!ToolyardInv, Yard!TypeOK', CommandStep, recorded' = recorded,
         born <= born', Wane, Yard!GrantsApproved', Yard!InHandInv', Yard!PhaseInv', Yard!NoForgottenProcess'
  PROVE  Yard!ToolyardInv'
<1>1. /\ Yard!TypeOK /\ Yard!ProcsInv /\ Yard!RecordsInv /\ Yard!ThreadsInv /\ Yard!IntentKept
      /\ task.op # "reregister" /\ born \in Nat /\ born' \in Nat
  BY YardJob DEF Yard!ToolyardInv, Yard!TypeOK, CommandStep
<1>2. /\ Yard!ProcsInv'
      /\ \A r, t : t \in Tools /\ Yard!Sound(r, t) => Yard!Sound(r, t)'
  BY <1>1, YardWane DEF CommandStep
<1>3. Yard!RecordsInv'
  BY <1>1, <1>2 DEF Yard!RecordsInv, Yard!Sound, CommandStep
<1>4. Yard!ThreadsInv' /\ Yard!IntentKept'
  BY <1>1 DEF Yard!ThreadsInv, Yard!IntentKept, CommandStep
<1> QED BY <1>1, <1>2, <1>3, <1>4 DEF Yard!ToolyardInv, CommandStep

\* The runtime in hand stays what it was, and so does its end.
LEMMA YardSameRun ==
  ASSUME Yard!ToolyardAssumption, Yard!ToolyardInv, Yard!TypeOK', CommandStep, recorded' = recorded,
         born' = born, Wane, task'.run = task.run
  PROVE  /\ Yard!NoForgottenProcess'
         /\ task.run # None => /\ task.run.birth \in 1 .. born /\ task.run.decl \in approved[task.tool]
                              /\ \A p \in processes' : p.birth = task.run.birth => p.tool = task.tool /\ p.pid = task.run.pid
                                                                             /\ task.run.boot = boot
         /\ task.run # None /\ Yard!Dead(task.run) => \A p \in processes' : p.birth = task.run.birth => ~p.live
<1>1. Yard!InHandInv /\ Yard!ProcsInv /\ Yard!NoForgottenProcess
  BY YardJob DEF Yard!ToolyardInv, CommandStep
<1>2. Yard!NoForgottenProcess'
  BY <1>1 DEF Yard!NoForgottenProcess, Wane, Yard!ToolyardAssumption, CommandStep
<1>3. task.run # None => /\ task.run.birth \in 1 .. born /\ task.run.decl \in approved[task.tool]
                        /\ \A p \in processes : p.birth = task.run.birth => p.tool = task.tool /\ p.pid = task.run.pid
                                                                       /\ task.run.boot = boot
  BY <1>1 DEF Yard!InHandInv, Yard!Sound
<1>4. born \in Nat
  BY DEF Yard!ToolyardInv, Yard!TypeOK
<1>5. task.run # None => task.run.birth # born + 1
  BY <1>3, <1>4
<1> QED BY <1>2, <1>3, <1>5 DEF Wane, Yard!Dead

LEMMA YardIsAlive ==
  ASSUME Yard!ToolyardAssumption, Yard!ToolyardInv, Yard!TypeOK', Yard!IsAlive PROVE Yard!ToolyardInv'
<1>1. task # None /\ task.pc = "alive" /\ task \in Yard!Job /\ Yard!InHandInv /\ Yard!PhaseInv /\ Yard!ProcsInv /\ Yard!GrantsApproved
  BY YardJob DEF Yard!IsAlive, Yard!ToolyardInv
<1>2. task' = [task EXCEPT !.pc = "done"] \/ task' = [task EXCEPT !.pc = "check", !.ctx = "old"]
  BY DEF Yard!IsAlive
<1>3. /\ task'.tool = task.tool /\ task'.op = task.op /\ task'.who = task.who /\ task'.decl = task.decl /\ task'.run = task.run
      /\ task'.rec = task.rec /\ task'.then = task.then /\ task'.ok = task.ok
      /\ task'.pc = "done" \/ (task'.pc = "check" /\ task'.ctx = "old")
      /\ task'.pc = "done" => task'.ctx = task.ctx
  BY <1>1, <1>2 DEF Yard!Job
<1>4. task' # None
  BY <1>1, <1>2, YardJobSet, YardSome DEF YardPcs, YardCtxs
<1>5. CommandStep /\ recorded' = recorded /\ born' = born /\ regs' = regs /\ processes' \subseteq processes
  BY <1>1, <1>3, <1>4 DEF CommandStep, Yard!IsAlive, Yard!fileVars, Yard!spsVars, Yard!threadVars, Yard!ghostVars, Yard!countVars
<1>6. Wane
  BY <1>1, <1>5, YardReaps
<1>7. Yard!InHandInv'
  BY <1>1, <1>3, <1>5, <1>6, YardSameRun DEF Yard!InHandInv, Yard!Sound, Yard!Dead, CommandStep
<1>8. Yard!PhaseInv'
  BY <1>1, <1>3, <1>5 DEF Yard!InHandInv, Yard!PhaseInv, CommandStep, Yard!Starts
<1>9. Yard!GrantsApproved' /\ born <= born'
  BY <1>1, <1>5 DEF Yard!GrantsApproved, CommandStep, Yard!ToolyardInv, Yard!TypeOK
<1> QED BY <1>3, <1>5, <1>6, <1>7, <1>8, <1>9, YardSameRun, YardCommand

LEMMA YardTermCheck ==
  ASSUME Yard!ToolyardAssumption, Yard!ToolyardInv, Yard!TypeOK', Yard!TermCheck \/ Yard!TermConfirm PROVE Yard!ToolyardInv'
<1>1. /\ task # None /\ task.pc \in {"check", "confirm"} /\ task \in Yard!Job
      /\ Yard!InHandInv /\ Yard!PhaseInv /\ Yard!ProcsInv /\ Yard!GrantsApproved
  BY YardJob DEF Yard!TermCheck, Yard!TermConfirm, Yard!ToolyardInv
<1>2. PICK q \in {"signal", "unregister"}, sure \in BOOLEAN :
        task' = [task EXCEPT !.pc = q, !.ok = sure] /\ (sure => Yard!CheckExit(task.run, task.who) = "gone")
  <2>1. CASE Yard!TermCheck
    <3> DEFINE q == IF Yard!CheckExit(task.run, task.who) = "there" THEN "signal" ELSE "unregister"
               sure == Yard!CheckExit(task.run, task.who) = "gone"
    <3>1. task' = [task EXCEPT !.pc = q, !.ok = sure] /\ q \in {"signal", "unregister"} /\ sure \in BOOLEAN
      BY <2>1 DEF Yard!TermCheck
    <3>2. sure => Yard!CheckExit(task.run, task.who) = "gone"
      OBVIOUS
    <3> HIDE DEF q, sure
    <3> QED BY <3>1, <3>2
  <2>2. CASE Yard!TermConfirm
    <3> DEFINE sure == Yard!CheckExit(task.run, task.who) = "gone"
    <3>1. task' = [task EXCEPT !.pc = "unregister", !.ok = sure] /\ sure \in BOOLEAN
      BY <2>2 DEF Yard!TermConfirm
    <3>2. sure => Yard!CheckExit(task.run, task.who) = "gone"
      OBVIOUS
    <3> HIDE DEF sure
    <3> QED BY <3>1, <3>2
  <2> QED BY <2>1, <2>2
<1>3. /\ task'.tool = task.tool /\ task'.op = task.op /\ task'.who = task.who /\ task'.decl = task.decl /\ task'.run = task.run
      /\ task'.rec = task.rec /\ task'.then = task.then /\ task'.ok = sure /\ task'.pc = q /\ task'.ctx = task.ctx
  BY <1>1, <1>2, SMTT(60) DEF Yard!Job
<1>4. task' # None
  BY <1>1, <1>2, YardJobSet, YardSome DEF YardPcs
<1>5. CommandStep /\ recorded' = recorded /\ born' = born /\ regs' = regs /\ processes' \subseteq processes
  BY <1>1, <1>3, <1>4 DEF CommandStep, Yard!TermCheck, Yard!TermConfirm,
       Yard!fileVars, Yard!spsVars, Yard!threadVars, Yard!ghostVars, Yard!countVars
<1>6. Wane
  BY <1>1, <1>5, YardReaps
<1>7. task.run # None /\ Yard!Sound(task.run, task.tool)
  BY <1>1 DEF Yard!InHandInv
<1>8. sure => Yard!Dead(task.run)
  <2>1. Yard!CheckExit(task.run, task.who) = "gone" => ~Yard!Alive(task.run, task.who)
    BY DEF Yard!CheckExit
  <2>2. Yard!CheckExit(task.run, task.who) = "gone" => Yard!Dead(task.run)
    BY <1>1, <1>7, <2>1, YardGone
  <2> QED BY <1>2, <2>2
<1>9. Yard!InHandInv'
  BY <1>1, <1>2, <1>3, <1>5, <1>6, <1>8, YardSameRun DEF Yard!InHandInv, Yard!Sound, Yard!Dead, CommandStep
<1>10. Yard!PhaseInv'
  BY <1>1, <1>2, <1>3, <1>5 DEF Yard!InHandInv, Yard!PhaseInv, CommandStep, Yard!Starts
<1>11. Yard!GrantsApproved' /\ born <= born'
  BY <1>1, <1>5 DEF Yard!GrantsApproved, CommandStep, Yard!ToolyardInv, Yard!TypeOK
<1> QED BY <1>3, <1>5, <1>6, <1>9, <1>10, <1>11, YardSameRun, YardCommand

LEMMA YardTermSignal ==
  ASSUME Yard!ToolyardAssumption, Yard!ToolyardInv, Yard!TypeOK', Yard!TermSignal PROVE Yard!ToolyardInv'
<1>1. /\ task # None /\ task.pc = "signal" /\ task \in Yard!Job /\ Yard!TypeOK
      /\ Yard!InHandInv /\ Yard!PhaseInv /\ Yard!ProcsInv /\ Yard!GrantsApproved
  BY YardJob DEF Yard!TermSignal, Yard!ToolyardInv
<1>2. PICK q \in {"confirm", "unregister"} : task' = [task EXCEPT !.pc = q] /\ (q = "unregister" => Yard!Same(task.run) = {})
  BY DEF Yard!TermSignal, Yard!Go
<1>3. /\ task'.tool = task.tool /\ task'.op = task.op /\ task'.who = task.who /\ task'.decl = task.decl /\ task'.run = task.run
      /\ task'.rec = task.rec /\ task'.then = task.then /\ task'.ok = task.ok /\ task'.pc = q /\ task'.ctx = task.ctx
  BY <1>1, <1>2, SMTT(60) DEF Yard!Job
<1>4. task' # None
  BY <1>1, <1>2, YardJobSet, YardSome DEF YardPcs
<1>5. CommandStep /\ recorded' = recorded /\ born' = born /\ regs' = regs
  BY <1>1, <1>3, <1>4 DEF CommandStep, Yard!TermSignal,
       Yard!fileVars, Yard!spsVars, Yard!threadVars, Yard!ghostVars, Yard!countVars
<1>6. Wane
  <2>1. ASSUME NEW p \in Yard!Same(task.run), processes' = Yard!Ended(p) PROVE Wane
    BY <1>1, <2>1, YardEnded DEF Yard!Same, Yard!At
  <2> QED BY <1>1, <2>1, YardReaps DEF Yard!TermSignal
<1>7. task.run # None /\ Yard!Sound(task.run, task.tool)
  BY <1>1 DEF Yard!InHandInv
<1>8. q = "unregister" => Yard!Dead(task.run)
  BY <1>2, <1>7 DEF Yard!Dead, Yard!Sound, Yard!Same, Yard!At
<1>9. Yard!InHandInv'
  BY <1>1, <1>2, <1>3, <1>5, <1>6, <1>8, YardSameRun DEF Yard!InHandInv, Yard!Sound, Yard!Dead, CommandStep
<1>10. Yard!PhaseInv'
  BY <1>1, <1>2, <1>3, <1>5 DEF Yard!InHandInv, Yard!PhaseInv, CommandStep, Yard!Starts
<1>11. Yard!GrantsApproved' /\ born <= born'
  BY <1>1, <1>5 DEF Yard!GrantsApproved, CommandStep, Yard!ToolyardInv, Yard!TypeOK
<1> QED BY <1>3, <1>5, <1>6, <1>9, <1>10, <1>11, YardSameRun, YardCommand

LEMMA YardUnregister ==
  ASSUME Yard!ToolyardAssumption, Yard!ToolyardInv, Yard!TypeOK', Yard!Unregister PROVE Yard!ToolyardInv'
<1>1. /\ task # None /\ task.pc = "unregister" /\ task \in Yard!Job /\ Yard!TypeOK
      /\ Yard!InHandInv /\ Yard!PhaseInv /\ Yard!ProcsInv /\ Yard!GrantsApproved
  BY YardJob DEF Yard!Unregister, Yard!ToolyardInv
<1>2. /\ task.run # None /\ task.run \in Yard!RunningTool /\ Yard!Sound(task.run, task.tool)
      /\ task.ok => Yard!Dead(task.run)
      /\ task.ctx \in {"old", "stop", "abort", "rollback"}
  BY <1>1, YardJob DEF Yard!InHandInv, Yard!Job
<1>3. \/ /\ task.ctx \in {"old", "stop"} /\ task.ok
         /\ \E th \in {"register", "rmtree", "done"} :
              /\ task' = [task EXCEPT !.pc = "save", !.rec = None, !.then = th]
              /\ th = "register" <=> task.ctx = "old" \/ task.op = "restart"
              /\ th = "rmtree" => task.op = "remove"
      \/ task.ctx \in {"old", "stop", "abort"} /\ ~task.ok /\ task' = [task EXCEPT !.pc = "save", !.rec = task.run, !.then = "failed"]
      \/ task.ctx = "rollback" /\ task.ok /\ task' = [task EXCEPT !.pc = "save", !.rec = None, !.then = "failed"]
      \/ /\ (task.ctx = "rollback" /\ ~task.ok) \/ (task.ctx = "abort" /\ task.ok)
         /\ task' = [task EXCEPT !.pc = "failed"]
  <2>1. CASE task.ctx \in {"old", "stop"} /\ task.ok
    <3> DEFINE th == CASE task.ctx = "old" \/ task.op = "restart" -> "register"
                       [] task.op = "remove" -> "rmtree" [] OTHER -> "done"
    <3>1. task' = [task EXCEPT !.pc = "save", !.rec = None, !.then = th]
      BY <2>1, Zenon DEF Yard!Unregister, Yard!AfterCleanup
    <3>2. /\ th \in {"register", "rmtree", "done"}
          /\ th = "register" <=> task.ctx = "old" \/ task.op = "restart"
          /\ th = "rmtree" => task.op = "remove"
      <4>1. task.ctx = "old" => task.op # "remove"
        BY <1>1 DEF Yard!PhaseInv, Yard!Starts
      <4> QED BY <4>1
    <3> HIDE DEF th
    <3> QED BY <2>1, <3>1, <3>2
  <2>2. CASE task.ctx \in {"old", "stop", "abort"} /\ ~task.ok
    BY <2>2 DEF Yard!Unregister, Yard!AfterCleanup
  <2>3. CASE task.ctx = "rollback" /\ task.ok
    BY <2>3 DEF Yard!Unregister, Yard!AfterCleanup
  <2>4. CASE (task.ctx = "rollback" /\ ~task.ok) \/ (task.ctx = "abort" /\ task.ok)
    BY <2>4 DEF Yard!Unregister, Yard!AfterCleanup
  <2>5. task.ok \in BOOLEAN
    BY <1>1 DEF Yard!Job
  <2> QED BY <1>2, <2>1, <2>2, <2>3, <2>4, <2>5
<1>4. task' \in Yard!Job
  <2>1. \A rec \in {task.run, None}, th \in {"register", "rmtree", "done", "failed"} :
           [task EXCEPT !.pc = "save", !.rec = rec, !.then = th] \in Yard!Job
    <3>1. "save" \in YardPcs /\ {"register", "rmtree", "done", "failed"} = YardThens /\ {task.run, None} \subseteq YardRuns
      BY <1>2, SMTT(60) DEF YardPcs, YardThens, YardRuns
    <3> QED BY <1>1, <3>1, YardJobSet
  <2>2. [task EXCEPT !.pc = "failed"] \in Yard!Job
    BY <1>1, YardJobSet DEF YardPcs
  <2> QED BY <1>3, <2>1, <2>2, Zenon
<1>5. /\ task'.tool = task.tool /\ task'.op = task.op /\ task'.who = task.who /\ task'.decl = task.decl /\ task'.run = task.run
      /\ task'.ok = task.ok /\ task'.ctx = task.ctx
      /\ \/ /\ task.ctx \in {"old", "stop"} /\ task.ok /\ task'.pc = "save" /\ task'.rec = None
            /\ task'.then \in {"register", "rmtree", "done"}
            /\ task'.then = "register" <=> task.ctx = "old" \/ task.op = "restart"
            /\ task'.then = "rmtree" => task.op = "remove"
         \/ /\ task.ctx \in {"old", "stop", "abort"} /\ ~task.ok /\ task'.pc = "save" /\ task'.rec = task.run /\ task'.then = "failed"
         \/ /\ task.ctx = "rollback" /\ task.ok /\ task'.pc = "save" /\ task'.rec = None /\ task'.then = "failed"
         \/ /\ (task.ctx = "rollback" /\ ~task.ok) \/ (task.ctx = "abort" /\ task.ok)
            /\ task'.pc = "failed"
  BY <1>1, <1>3, ZenonT(60) DEF Yard!Job
<1>6. CommandStep /\ recorded' = recorded /\ born' = born /\ processes' = processes
  BY <1>1, <1>4, <1>5, YardSome DEF CommandStep, Yard!Unregister, Yard!hostVars, Yard!fileVars, Yard!threadVars
<1>7. Wane
  BY <1>1, <1>6, YardReaps
<1>8. task.ctx = "rollback" /\ ~task.ok => task.run.birth \in given'
  BY DEF Yard!Unregister
<1>9. Yard!InHandInv'
  BY <1>1, <1>2, <1>5, <1>6, <1>7, <1>8, YardSameRun DEF Yard!InHandInv, Yard!Sound, Yard!Dead, CommandStep
<1>10. Yard!PhaseInv'
  BY <1>1, <1>2, <1>5, <1>6 DEF Yard!InHandInv, Yard!PhaseInv, CommandStep, Yard!Starts
<1>11. Yard!GrantsApproved'
  <2>1. regs' = regs \/ (task.tool \in Tools /\ regs' = [regs EXCEPT ![task.tool] = None])
    BY <1>1 DEF Yard!Unregister, Yard!PhaseInv
  <2>2. regs \in [Tools -> Yard!Registration \cup {None}]
    BY <1>1 DEF Yard!TypeOK
  <2> QED BY <1>1, <1>6, <2>1, <2>2 DEF Yard!GrantsApproved, CommandStep
<1>12. born <= born'
  BY <1>1, <1>6 DEF Yard!TypeOK
<1> QED BY <1>5, <1>6, <1>7, <1>9, <1>10, <1>11, <1>12, YardSameRun, YardCommand

LEMMA YardPublishChannels ==
  ASSUME Yard!ToolyardAssumption, Yard!ToolyardInv, Yard!TypeOK', Yard!PublishChannels PROVE Yard!ToolyardInv'
<1>1. /\ task # None /\ task.pc = "publish" /\ task \in Yard!Job /\ Yard!TypeOK
      /\ Yard!InHandInv /\ Yard!PhaseInv /\ Yard!ProcsInv /\ Yard!GrantsApproved
  BY YardJob DEF Yard!PublishChannels, Yard!ToolyardInv
<1>2. task' = [task EXCEPT !.pc = task.then] /\ task.then \in {"register", "rmtree", "done", "failed"}
  BY <1>1, SMTT(60) DEF Yard!PublishChannels, Yard!Go, Yard!Job
<1>3. task' \in Yard!Job
  BY <1>1, <1>2, YardJobSet DEF YardPcs
<1>4. /\ task'.tool = task.tool /\ task'.op = task.op /\ task'.who = task.who /\ task'.decl = task.decl /\ task'.run = task.run
      /\ task'.ok = task.ok /\ task'.ctx = task.ctx /\ task'.rec = task.rec /\ task'.pc = task.then
  BY <1>1, <1>2 DEF Yard!Job
<1>5. CommandStep /\ recorded' = recorded /\ born' = born /\ processes' = processes /\ regs' = regs
  BY <1>1, <1>3, <1>4, YardSome
     DEF CommandStep, Yard!PublishChannels, Yard!hostVars, Yard!spsVars, Yard!threadVars, Yard!ghostVars, Yard!countVars
<1>6. Wane
  BY <1>1, <1>5, YardReaps
<1>7. Yard!InHandInv'
  BY <1>1, <1>2, <1>4, <1>5, <1>6, YardSameRun DEF Yard!InHandInv, Yard!Sound, Yard!Dead, CommandStep
<1>8. Yard!PhaseInv'
  BY <1>1, <1>2, <1>4, <1>5 DEF Yard!InHandInv, Yard!PhaseInv, CommandStep, Yard!Starts
<1>9. Yard!GrantsApproved' /\ born <= born'
  BY <1>1, <1>5 DEF Yard!GrantsApproved, CommandStep, Yard!TypeOK
<1> QED BY <1>4, <1>5, <1>6, <1>7, <1>8, <1>9, YardSameRun, YardCommand

LEMMA YardSaveFails ==
  ASSUME Yard!ToolyardAssumption, Yard!ToolyardInv, Yard!TypeOK', Yard!SaveFails PROVE Yard!ToolyardInv'
<1>1. /\ task # None /\ task.pc \in {"save", "publish"} /\ task \in Yard!Job /\ Yard!TypeOK
      /\ Yard!InHandInv /\ Yard!PhaseInv /\ Yard!ProcsInv /\ Yard!GrantsApproved
  BY YardJob DEF Yard!SaveFails, Yard!ToolyardInv
<1>2. \/ /\ task.ctx = "fresh" \/ (task.ctx = "abort" /\ task.who # "cli")
         /\ task' = [task EXCEPT !.pc = "check", !.ctx = "rollback"]
      \/ /\ ~(task.ctx = "fresh" \/ (task.ctx = "abort" /\ task.who # "cli"))
         /\ task' = [task EXCEPT !.pc = "failed"]
  BY DEF Yard!SaveFails
<1>3. task' \in Yard!Job
  <2>1. "check" \in YardPcs /\ "failed" \in YardPcs /\ "rollback" \in YardCtxs
    BY DEF YardPcs, YardCtxs
  <2>2. [task EXCEPT !.pc = "check", !.ctx = "rollback"] \in Yard!Job /\ [task EXCEPT !.pc = "failed"] \in Yard!Job
    BY <1>1, <2>1, YardJobSet
  <2> QED BY <1>2, <2>2, Zenon
<1>4. /\ task'.tool = task.tool /\ task'.op = task.op /\ task'.who = task.who /\ task'.decl = task.decl /\ task'.run = task.run
      /\ task'.ok = task.ok
      /\ \/ (task.ctx = "fresh" \/ (task.ctx = "abort" /\ task.who # "cli")) /\ task'.pc = "check" /\ task'.ctx = "rollback"
         \/ ~(task.ctx = "fresh" \/ (task.ctx = "abort" /\ task.who # "cli")) /\ task'.pc = "failed" /\ task'.ctx = task.ctx
  BY <1>1, <1>2 DEF Yard!Job
<1>5. CommandStep /\ recorded' = recorded /\ born' = born /\ processes' = processes /\ regs' = regs
  BY <1>1, <1>3, <1>4, YardSome
     DEF CommandStep, Yard!SaveFails, Yard!hostVars, Yard!fileVars, Yard!spsVars, Yard!threadVars
<1>6. Wane
  BY <1>1, <1>5, YardReaps
<1>7. task.ctx = "abort" /\ task.who = "cli" /\ task.pc = "save" => task.run.birth \in given'
  BY DEF Yard!SaveFails
<1>8. Yard!InHandInv'
  <2>1. /\ task.run # None => /\ task.run.birth \in 1 .. born /\ task.run.decl \in approved[task.tool]
                              /\ \A p \in processes' : p.birth = task.run.birth => p.tool = task.tool /\ p.pid = task.run.pid
                                                                             /\ task.run.boot = boot
        /\ task.run # None /\ Yard!Dead(task.run) => \A p \in processes' : p.birth = task.run.birth => ~p.live
    BY <1>4, <1>5, <1>6, YardSameRun
  <2>2. CASE task'.pc = "check"
    BY <1>1, <1>4, <1>5, <2>1, <2>2 DEF Yard!InHandInv, Yard!Sound, Yard!Dead, CommandStep
  <2>3. CASE task'.pc = "failed"
    <3>1. Yard!Dead(task.run) \/ recorded[task.tool] = task.run \/ task.run.birth \in given'
      <4>1. task.ctx \in {"old", "stop", "fresh", "abort", "rollback", "none"}
        BY <1>1 DEF Yard!Job
      <4>2. CASE task.pc = "save"
        BY <1>1, <1>4, <1>7, <2>3, <4>1, <4>2 DEF Yard!InHandInv, Yard!Dead, Yard!PhaseInv
      <4>3. CASE task.pc = "publish"
        BY <1>1, <4>3 DEF Yard!InHandInv, Yard!Dead
      <4> QED BY <1>1, <4>2, <4>3
    <3> QED BY <1>1, <1>4, <1>5, <2>1, <2>3, <3>1 DEF Yard!InHandInv, Yard!Sound, Yard!Dead, CommandStep
  <2> QED BY <1>4, <2>2, <2>3
<1>9. Yard!PhaseInv'
  BY <1>1, <1>4, <1>5 DEF Yard!InHandInv, Yard!PhaseInv, CommandStep, Yard!Starts
<1>10. Yard!GrantsApproved' /\ born <= born'
  BY <1>1, <1>5 DEF Yard!GrantsApproved, CommandStep, Yard!TypeOK
<1> QED BY <1>4, <1>5, <1>6, <1>8, <1>9, <1>10, YardSameRun, YardCommand

\* Refused, interrupted, or removed: only the phase changes.
LEMMA YardPhaseOnly ==
  ASSUME Yard!ToolyardAssumption, Yard!ToolyardInv, Yard!TypeOK', Yard!PortTaken \/ Yard!StartInterrupted \/ Yard!Rmtree
  PROVE  Yard!ToolyardInv'
<1>1. /\ task # None /\ task.pc \in {"register", "ready", "rmtree"} /\ task \in Yard!Job /\ Yard!TypeOK
      /\ Yard!InHandInv /\ Yard!PhaseInv /\ Yard!ProcsInv /\ Yard!GrantsApproved
  BY YardJob DEF Yard!PortTaken, Yard!StartInterrupted, Yard!Rmtree, Yard!ToolyardInv
<1>2. \/ task.pc = "register" /\ task' = [task EXCEPT !.pc = "failed"]
      \/ task.pc = "ready" /\ task' = [task EXCEPT !.pc = "check", !.ctx = "abort"]
      \/ task.pc = "rmtree" /\ task' = [task EXCEPT !.pc = "done"]
  BY DEF Yard!PortTaken, Yard!StartInterrupted, Yard!Rmtree, Yard!Go
<1>3. task' \in Yard!Job
  <2>1. {"failed", "check", "done"} \subseteq YardPcs /\ "abort" \in YardCtxs
    BY DEF YardPcs, YardCtxs
  <2>2. /\ [task EXCEPT !.pc = "failed"] \in Yard!Job /\ [task EXCEPT !.pc = "check", !.ctx = "abort"] \in Yard!Job
        /\ [task EXCEPT !.pc = "done"] \in Yard!Job
    BY <1>1, <2>1, YardJobSet
  <2> QED BY <1>2, <2>2, Zenon
<1>4. /\ task'.tool = task.tool /\ task'.op = task.op /\ task'.who = task.who /\ task'.decl = task.decl /\ task'.run = task.run
      /\ task'.rec = task.rec /\ task'.then = task.then
      /\ \/ task.pc = "register" /\ task'.pc = "failed" /\ task'.ctx = task.ctx
         \/ task.pc = "ready" /\ task'.pc = "check" /\ task'.ctx = "abort"
         \/ task.pc = "rmtree" /\ task'.pc = "done" /\ task'.ctx = task.ctx
  BY <1>1, <1>2 DEF Yard!Job
<1>5. CommandStep /\ recorded' = recorded /\ born' = born /\ processes' = processes /\ regs' = regs
  BY <1>1, <1>3, <1>4, YardSome
     DEF CommandStep, Yard!PortTaken, Yard!StartInterrupted, Yard!Rmtree,
         Yard!hostVars, Yard!fileVars, Yard!spsVars, Yard!threadVars, Yard!ghostVars, Yard!countVars
<1>6. Wane
  BY <1>1, <1>5, YardReaps
<1>7. Yard!InHandInv'
  BY <1>1, <1>4, <1>5, <1>6, YardSameRun DEF Yard!InHandInv, Yard!Sound, Yard!Dead, CommandStep
<1>8. Yard!PhaseInv'
  BY <1>1, <1>4, <1>5 DEF Yard!InHandInv, Yard!PhaseInv, CommandStep, Yard!Starts
<1>9. Yard!GrantsApproved' /\ born <= born'
  BY <1>1, <1>5 DEF Yard!GrantsApproved, CommandStep, Yard!TypeOK
<1> QED BY <1>4, <1>5, <1>6, <1>7, <1>8, <1>9, YardSameRun, YardCommand

LEMMA YardReady ==
  ASSUME Yard!ToolyardAssumption, Yard!ToolyardInv, Yard!TypeOK', Yard!Ready PROVE Yard!ToolyardInv'
<1>1. /\ task # None /\ task.pc = "ready" /\ task \in Yard!Job /\ Yard!TypeOK
      /\ Yard!InHandInv /\ Yard!PhaseInv /\ Yard!ProcsInv /\ Yard!GrantsApproved
  BY YardJob DEF Yard!Ready, Yard!ToolyardInv
<1>2. /\ task.run # None /\ task.run \in YardRuns /\ Yard!Sound(task.run, task.tool)
  BY <1>1, YardJob DEF Yard!InHandInv, YardRuns
<1>3. \/ task' = [task EXCEPT !.pc = "save", !.ctx = "fresh", !.rec = task.run, !.then = "done"]
      \/ /\ task' = [task EXCEPT !.pc = "unregister", !.ctx = "abort", !.ok = TRUE]
         /\ ~Yard!Alive(task.run, task.who)
  BY DEF Yard!Ready
<1>4. task' \in Yard!Job
  <2>1. {"save", "unregister"} \subseteq YardPcs /\ {"fresh", "abort"} \subseteq YardCtxs /\ "done" \in YardThens
    BY DEF YardPcs, YardCtxs, YardThens
  <2>2. /\ [task EXCEPT !.pc = "save", !.ctx = "fresh", !.rec = task.run, !.then = "done"] \in Yard!Job
        /\ [task EXCEPT !.pc = "unregister", !.ctx = "abort", !.ok = TRUE] \in Yard!Job
    BY <1>1, <1>2, <2>1, YardJobSet
  <2> QED BY <1>3, <2>2, Zenon
<1>5. /\ task'.tool = task.tool /\ task'.op = task.op /\ task'.who = task.who /\ task'.decl = task.decl /\ task'.run = task.run
      /\ \/ task'.pc = "save" /\ task'.ctx = "fresh" /\ task'.rec = task.run /\ task'.then = "done"
         \/ task'.pc = "unregister" /\ task'.ctx = "abort" /\ task'.ok = TRUE /\ ~Yard!Alive(task.run, task.who)
  BY <1>1, <1>3 DEF Yard!Job
<1>6. CommandStep /\ recorded' = recorded /\ born' = born /\ processes' \subseteq processes /\ regs' = regs
  BY <1>1, <1>4, <1>5, YardSome
     DEF CommandStep, Yard!Ready, Yard!fileVars, Yard!spsVars, Yard!threadVars, Yard!ghostVars, Yard!countVars
<1>7. Wane
  BY <1>1, <1>6, YardReaps
<1>8. task'.pc = "unregister" => Yard!Dead(task.run)
  BY <1>1, <1>2, <1>5, YardGone
<1>9. Yard!InHandInv'
  BY <1>1, <1>2, <1>5, <1>6, <1>7, <1>8, YardSameRun DEF Yard!InHandInv, Yard!Sound, Yard!Dead, CommandStep
<1>10. Yard!PhaseInv'
  BY <1>1, <1>2, <1>5, <1>6 DEF Yard!InHandInv, Yard!PhaseInv, CommandStep, Yard!Starts
<1>11. Yard!GrantsApproved' /\ born <= born'
  BY <1>1, <1>6 DEF Yard!GrantsApproved, CommandStep, Yard!TypeOK
<1> QED BY <1>5, <1>6, <1>7, <1>9, <1>10, <1>11, YardSameRun, YardCommand

\* state.json is written: the record is that of the runtime in hand, or goes when that has ended.
LEMMA YardSaveState ==
  ASSUME Yard!ToolyardAssumption, Yard!ToolyardInv, Yard!TypeOK', Yard!SaveState PROVE Yard!ToolyardInv'
<1>1. /\ task # None /\ task.pc = "save" /\ task \in Yard!Job /\ Yard!TypeOK
      /\ Yard!InHandInv /\ Yard!PhaseInv /\ Yard!ProcsInv /\ Yard!GrantsApproved
      /\ Yard!RecordsInv /\ Yard!ThreadsInv /\ Yard!NoForgottenProcess /\ Yard!IntentKept
      /\ recorded \in [Tools -> Yard!RunningTool \cup {None}]
  BY YardJob DEF Yard!SaveState, Yard!ToolyardInv, Yard!TypeOK
<1>2. task' = [task EXCEPT !.pc = "publish"]
  BY DEF Yard!SaveState, Yard!Go
<1>3. task' \in Yard!Job
  <2>1. "publish" \in YardPcs
    BY DEF YardPcs
  <2> QED BY <1>1, <1>2, <2>1, YardJobSet
<1>4. /\ task'.tool = task.tool /\ task'.op = task.op /\ task'.who = task.who /\ task'.decl = task.decl /\ task'.run = task.run
      /\ task'.rec = task.rec /\ task'.then = task.then /\ task'.ctx = task.ctx /\ task'.pc = "publish"
  BY <1>1, <1>2 DEF Yard!Job
<1>5. CommandStep /\ born' = born /\ processes' = processes /\ regs' = regs /\ given' = given
  BY <1>1, <1>3, <1>4, YardSome
     DEF CommandStep, Yard!SaveState, Yard!hostVars, Yard!spsVars, Yard!threadVars, Yard!ghostVars, Yard!countVars
<1>6. recorded' = [recorded EXCEPT ![task.tool] = task.rec] /\ task.tool \in Tools
  BY <1>1 DEF Yard!SaveState, Yard!PhaseInv
<1>7. /\ task.run # None /\ Yard!Sound(task.run, task.tool)
      /\ task.rec = task.run \/ (task.rec = None /\ task.ctx # "fresh" /\ Yard!Dead(task.run))
      /\ recorded[task.tool] \in {None, task.run}
  BY <1>1 DEF Yard!InHandInv
<1>8. \A t \in Tools : recorded'[t] = IF t = task.tool THEN task.rec ELSE recorded[t]
  BY <1>1, <1>6
<1>9. Yard!ProcsInv' /\ Yard!GrantsApproved'
  BY <1>1, <1>5 DEF Yard!ProcsInv, Yard!GrantsApproved, CommandStep
<1>10. Yard!RecordsInv'
  BY <1>1, <1>5, <1>7, <1>8 DEF Yard!RecordsInv, Yard!Sound, CommandStep
<1>11. Yard!ThreadsInv'
  <2>1. task.op # "reregister"
    BY <1>1, YardJob, <1>5 DEF CommandStep
  <2> QED BY <1>1, <1>5, <2>1 DEF Yard!ThreadsInv, CommandStep
<1>12. Yard!IntentKept'
  BY <1>1, <1>4, <1>5, <1>8 DEF Yard!IntentKept, CommandStep
<1>13. Yard!NoForgottenProcess'
  BY <1>1, <1>4, <1>5, <1>7, <1>8 DEF Yard!NoForgottenProcess, CommandStep
<1>14. Yard!InHandInv'
  BY <1>1, <1>4, <1>5, <1>6, <1>7, <1>8 DEF Yard!InHandInv, Yard!Sound, Yard!Dead, CommandStep
<1>15. Yard!PhaseInv'
  BY <1>1, <1>4, <1>5 DEF Yard!InHandInv, Yard!PhaseInv, CommandStep, Yard!Starts
<1>16. task.op # "reregister"
  BY <1>1, YardJob, <1>5 DEF CommandStep
<1> QED BY <1>4, <1>5, <1>9, <1>10, <1>11, <1>12, <1>13, <1>14, <1>15, <1>16 DEF Yard!ToolyardInv, CommandStep

\* A start: a birth that no process and no record has had before.
LEMMA YardRegister ==
  ASSUME Yard!ToolyardAssumption, Yard!ToolyardInv, Yard!TypeOK', Yard!Register PROVE Yard!ToolyardInv'
<1>1. /\ task # None /\ task.pc = "register" /\ task \in Yard!Job /\ Yard!TypeOK
      /\ Yard!InHandInv /\ Yard!PhaseInv /\ Yard!ProcsInv /\ Yard!GrantsApproved
      /\ Yard!RecordsInv /\ Yard!NoForgottenProcess /\ born \in Nat /\ boot \in Nat
      /\ regs \in [Tools -> Yard!Registration \cup {None}]
  BY YardJob DEF Yard!Register, Yard!ToolyardInv, Yard!TypeOK
<1>2. /\ task.tool \in Tools /\ task.op \in Yard!Starts /\ task.decl \in Decls /\ task.decl \in approved[task.tool]
      /\ recorded[task.tool] = None /\ (task.run # None => Yard!Dead(task.run))
  BY <1>1 DEF Yard!InHandInv, Yard!PhaseInv
<1>3. PICK run, q : /\ q \in {"spawn", "failed"}
                    /\ q = "spawn" => /\ task' = [task EXCEPT !.pc = "spawn", !.run = run]
                                      /\ run.pid = 0 /\ run.birth = born + 1 /\ run.boot = boot /\ run.decl = task.decl
                                      /\ run \in YardRuns /\ run # None
                    /\ q = "failed" => task' = [task EXCEPT !.pc = "failed"]
  <2>1. \A b \in BOOLEAN : /\ Yard!Minted(b).pid = 0 /\ Yard!Minted(b).birth = born + 1
                           /\ Yard!Minted(b).boot = boot /\ Yard!Minted(b).decl = task.decl
    BY DEF Yard!Minted
  <2>2. \A b \in BOOLEAN : Yard!Minted(b) \in Yard!RunningTool
    BY <1>1, <1>2, YardMinted
  <2>3. \A run \in Yard!RunningTool : run \in YardRuns /\ run # None
    BY DEF YardRuns, Yard!ToolyardAssumption
  <2>4. CASE task' = [task EXCEPT !.pc = "spawn", !.run = Yard!Minted(TRUE)]
    BY <2>1, <2>2, <2>3, <2>4, Zenon
  <2>5. CASE task' = [task EXCEPT !.pc = "spawn", !.run = Yard!Minted(FALSE)]
    BY <2>1, <2>2, <2>3, <2>5, Zenon
  <2>6. CASE task' = [task EXCEPT !.pc = "failed"]
    BY <2>6
  <2> QED BY <2>4, <2>5, <2>6 DEF Yard!Register
<1>4. task' \in Yard!Job
  <2>1. "spawn" \in YardPcs /\ "failed" \in YardPcs
    BY DEF YardPcs
  <2>2. [task EXCEPT !.pc = "failed"] \in Yard!Job /\ \A r \in YardRuns : [task EXCEPT !.pc = "spawn", !.run = r] \in Yard!Job
    BY <1>1, <2>1, YardJobSet
  <2> QED BY <1>3, <2>2, Zenon
<1>5. /\ task'.tool = task.tool /\ task'.op = task.op /\ task'.who = task.who /\ task'.decl = task.decl
      /\ task'.rec = task.rec /\ task'.then = task.then /\ task'.ctx = task.ctx /\ task'.pc = q
      /\ task'.run = IF q = "spawn" THEN run ELSE task.run
  BY <1>1, <1>3 DEF Yard!Job
<1>6. CommandStep /\ recorded' = recorded /\ born' = born + 1 /\ processes' = processes
  BY <1>1, <1>4, <1>5, YardSome DEF CommandStep, Yard!Register, Yard!fileVars, Yard!threadVars, Yard!ghostVars
<1>7. /\ Wane /\ born <= born'
      /\ \A p \in processes : p.birth # born + 1
      /\ \A t \in Tools : /\ recorded[t] # None => recorded[t].birth # born + 1
                          /\ rc.snap[t] # None => rc.snap[t].birth # born + 1
  BY <1>1, <1>6, YardReaps DEF Yard!ProcsInv, Yard!RecordsInv, Yard!Sound
<1>8. Yard!GrantsApproved'
  <2>1. regs' = regs \/ regs' = [regs EXCEPT ![task.tool] = [esecret |-> born', decl |-> task.decl]]
    BY DEF Yard!Register
  <2> QED BY <1>1, <1>2, <1>6, <2>1 DEF Yard!GrantsApproved, CommandStep
<1>9. Yard!NoForgottenProcess'
  BY <1>1, <1>2, <1>6 DEF Yard!NoForgottenProcess, Yard!Dead, CommandStep
<1>10. CASE q = "spawn"
  <2>1. run.birth \in 1 .. born' /\ run.birth = born + 1
    BY <1>1, <1>3, <1>6, <1>10
  <2>2. Yard!InHandInv'
    BY <1>1, <1>2, <1>3, <1>5, <1>6, <1>7, <1>10, <2>1 DEF Yard!InHandInv, Yard!Sound, Yard!Dead, CommandStep
  <2>3. Yard!PhaseInv'
    BY <1>1, <1>2, <1>5, <1>6, <1>10 DEF Yard!InHandInv, Yard!PhaseInv, CommandStep, Yard!Starts
  <2> QED BY <1>6, <1>7, <1>8, <1>9, <2>2, <2>3, YardCommand
<1>11. CASE q = "failed"
  <2>1. task.run # None => Yard!Sound(task.run, task.tool) /\ task.run.birth \in 1 .. born'
    BY <1>1, <1>6 DEF Yard!InHandInv, Yard!Sound
  <2>2. Yard!InHandInv'
    BY <1>1, <1>2, <1>5, <1>6, <1>11, <2>1 DEF Yard!InHandInv, Yard!Sound, Yard!Dead, CommandStep
  <2>3. Yard!PhaseInv'
    BY <1>1, <1>2, <1>5, <1>6, <1>11 DEF Yard!InHandInv, Yard!PhaseInv, CommandStep, Yard!Starts
  <2> QED BY <1>6, <1>7, <1>8, <1>9, <2>2, <2>3, YardCommand
<1> QED BY <1>3, <1>10, <1>11

LEMMA YardSpawn ==
  ASSUME Yard!ToolyardAssumption, Yard!ToolyardInv, Yard!TypeOK', NEW pid \in Pids, Yard!Spawn(pid) PROVE Yard!ToolyardInv'
<1>1. /\ task # None /\ task.pc = "spawn" /\ task \in Yard!Job /\ Yard!TypeOK
      /\ Yard!InHandInv /\ Yard!PhaseInv /\ Yard!ProcsInv /\ Yard!GrantsApproved
      /\ Yard!RecordsInv /\ Yard!ThreadsInv /\ Yard!NoForgottenProcess /\ Yard!IntentKept /\ task.op # "reregister"
  BY YardJob DEF Yard!Spawn, Yard!ToolyardInv, Yard!TypeOK
<1>2. task.run # None /\ task.run \in Yard!RunningTool /\ task.tool \in Tools
  BY <1>1, YardJob DEF Yard!InHandInv
<1>3. PICK run : run = [task.run EXCEPT !.pid = pid]
  OBVIOUS
<1>4. /\ run.birth = task.run.birth /\ run.boot = task.run.boot /\ run.decl = task.run.decl /\ run.pid = pid
      /\ run \in Yard!RunningTool /\ run # None
  BY <1>2, <1>3 DEF Yard!RunningTool, Yard!ToolyardAssumption
<1>5. task' = [task EXCEPT !.pc = "ready", !.run = run]
  BY <1>3 DEF Yard!Spawn
<1>6. task' \in Yard!Job
  <2>1. "ready" \in YardPcs /\ run \in YardRuns
    BY <1>4 DEF YardPcs, YardRuns
  <2> QED BY <1>1, <1>5, <2>1, YardJobSet
<1>7. /\ task'.tool = task.tool /\ task'.op = task.op /\ task'.who = task.who /\ task'.decl = task.decl
      /\ task'.rec = task.rec /\ task'.then = task.then /\ task'.ctx = task.ctx /\ task'.pc = "ready" /\ task'.run = run
  BY <1>1, <1>5 DEF Yard!Job
<1>8. CommandStep /\ recorded' = recorded /\ born' = born /\ regs' = regs /\ given' = given
  BY <1>1, <1>6, <1>7, YardSome
     DEF CommandStep, Yard!Spawn, Yard!fileVars, Yard!spsVars, Yard!threadVars, Yard!ghostVars, Yard!countVars
<1>9. PICK new : new.pid = pid /\ new.birth = task.run.birth /\ new.tool = task.tool /\ processes' = processes \cup {new}
  BY DEF Yard!Spawn
<1>10. /\ task.run.boot = boot /\ \A p \in processes : p.birth # task.run.birth
       /\ \A t \in Tools : /\ recorded[t] # None => recorded[t].birth # task.run.birth
                           /\ rc.snap[t] # None => rc.snap[t].birth # task.run.birth
       /\ task.run.birth \in 1 .. born /\ task.run.decl \in approved[task.tool]
       /\ recorded[task.tool] = None
  BY <1>1 DEF Yard!InHandInv, Yard!Sound
<1>11. Yard!ProcsInv'
  BY <1>1, <1>8, <1>9, <1>10 DEF Yard!ProcsInv
<1>12. Yard!RecordsInv'
  BY <1>1, <1>8, <1>9, <1>10 DEF Yard!RecordsInv, Yard!Sound, CommandStep
<1>13. Yard!ThreadsInv' /\ Yard!IntentKept' /\ Yard!GrantsApproved'
  BY <1>1, <1>8 DEF Yard!ThreadsInv, Yard!IntentKept, Yard!GrantsApproved, CommandStep
<1>14. Yard!NoForgottenProcess'
  BY <1>1, <1>4, <1>7, <1>8, <1>9 DEF Yard!NoForgottenProcess, CommandStep
<1>15. Yard!InHandInv'
  BY <1>1, <1>4, <1>7, <1>8, <1>9, <1>10 DEF Yard!InHandInv, Yard!Sound, Yard!Dead, CommandStep
<1>16. Yard!PhaseInv'
  BY <1>1, <1>7, <1>8 DEF Yard!PhaseInv, CommandStep, Yard!Starts
<1> QED BY <1>1, <1>7, <1>8, <1>11, <1>12, <1>13, <1>14, <1>15, <1>16 DEF Yard!ToolyardInv, CommandStep

-----------------------------------------------------------------------------
(* The lock is taken, and released *)

\* A command is begun: its job is new, and its approval, if it gives one, stands.
LEMMA YardBegun ==
  ASSUME Yard!ToolyardAssumption, Yard!ToolyardInv, Yard!TypeOK', task = None, task' # None, task' \in Yard!Job,
         boot' = boot, born' = born, processes' = processes, recorded' = recorded, given' = given, regs' = regs, wd' = wd,
         wanted' = wanted, kills' = kills, rc'.snap = rc.snap, rc'.todo = rc.todo, rc'.tool = rc.tool,
         rc'.pc = rc.pc \/ (rc.pc = "start" /\ rc'.pc = "job" /\ task'.tool = rc.tool),
         \A t \in Tools : approved[t] \subseteq approved'[t],
         task'.tool \in Tools, task'.run = recorded[task'.tool], task'.op # "reregister",
         task'.pc \in {"alive", "check"} => task'.run # None,
         task'.pc = "check" => task'.ctx = "stop",
         task'.pc \in {"register", "rmtree", "done", "alive", "check"},
         task'.pc \in {"register", "rmtree", "done"} => task'.run = None,
         Yard!PhaseInv'
  PROVE  Yard!ToolyardInv'
<1>1. /\ Yard!TypeOK /\ Yard!ProcsInv /\ Yard!RecordsInv /\ Yard!ThreadsInv /\ Yard!NoForgottenProcess /\ Yard!IntentKept
      /\ Yard!GrantsApproved /\ born \in Nat /\ rc \in Yard!Threads
  BY DEF Yard!ToolyardInv, Yard!TypeOK
<1>2. Yard!ProcsInv'
  BY <1>1 DEF Yard!ProcsInv
<1>3. Yard!RecordsInv'
  BY <1>1 DEF Yard!RecordsInv, Yard!Sound
<1>4. Yard!ThreadsInv' /\ Yard!IntentKept' /\ Yard!GrantsApproved'
  BY <1>1 DEF Yard!ThreadsInv, Yard!IntentKept, Yard!GrantsApproved
<1>5. Yard!NoForgottenProcess'
  BY <1>1 DEF Yard!NoForgottenProcess
<1>6. Yard!InHandInv'
  BY <1>1, <1>3 DEF Yard!InHandInv, Yard!RecordsInv
<1> QED BY <1>2, <1>3, <1>4, <1>5, <1>6 DEF Yard!ToolyardInv

LEMMA YardBeginStart ==
  ASSUME Yard!ToolyardAssumption, Yard!ToolyardInv, Yard!TypeOK', NEW who \in Operators, NEW t \in Tools, Yard!BeginStart(who, t)
  PROVE  Yard!ToolyardInv'
<1>1. Yard!TypeOK /\ task = None /\ disk[t] \in Decls /\ who \in {"cli", "admin"} /\ rc \in Yard!Threads
  BY DEF Yard!BeginStart, Yard!ToolyardInv, Yard!TypeOK, Yard!ToolyardAssumption
<1>2. task' = Yard!NewJob(who, "start", t, IF recorded[t] # None THEN "alive" ELSE "register", "none", disk[t])
  BY DEF Yard!BeginStart
<1>3. task' \in Yard!Job /\ task' # None
  BY <1>1, <1>2, YardNewJob
<1>4. /\ task'.tool = t /\ task'.op = "start" /\ task'.who = who /\ task'.ctx = "none" /\ task'.decl = disk[t]
      /\ task'.pc = IF recorded[t] # None THEN "alive" ELSE "register"
      /\ task'.run = recorded[t]
  <2>1. t # None
    BY DEF Yard!ToolyardAssumption
  <2> QED BY <1>2, <2>1 DEF Yard!NewJob
<1>5. /\ boot' = boot /\ born' = born /\ processes' = processes /\ recorded' = recorded /\ given' = given /\ regs' = regs
      /\ wd' = wd /\ rc' = rc /\ wanted' = wanted /\ kills' = kills
  BY DEF Yard!BeginStart, Yard!hostVars, Yard!fileVars, Yard!spsVars, Yard!threadVars, Yard!countVars
<1>6. /\ \A u \in Tools : approved[u] \subseteq approved'[u]
      /\ disk[t] \in approved'[t]
  BY <1>1 DEF Yard!BeginStart, Yard!TypeOK
<1>7. Yard!PhaseInv'
  BY <1>1, <1>4, <1>5, <1>6 DEF Yard!PhaseInv, Yard!Starts
<1> QED BY <1>1, <1>3, <1>4, <1>5, <1>6, <1>7, YardBegun

LEMMA YardBeginStop ==
  ASSUME Yard!ToolyardAssumption, Yard!ToolyardInv, Yard!TypeOK', NEW who \in Operators, NEW cmd \in LifecycleOps \ {"start"}, NEW t \in Tools,
         Yard!BeginStop(who, cmd, t)
  PROVE  Yard!ToolyardInv'
<1>1. /\ Yard!TypeOK /\ task = None /\ disk[t] \in Decls \cup {None} /\ (cmd # "stop" => disk[t] \in Decls)
      /\ who \in {"cli", "admin"} /\ cmd \in {"stop", "restart", "remove"} /\ rc \in Yard!Threads
  BY DEF Yard!BeginStop, Yard!ToolyardInv, Yard!TypeOK, Yard!ToolyardAssumption
<1> DEFINE pc0 == CASE cmd = "stop" -> "done" [] cmd = "remove" -> "rmtree" [] cmd = "restart" -> "register"
<1>2. /\ pc0 \in {"done", "rmtree", "register"}
      /\ pc0 = "register" <=> cmd = "restart"
      /\ pc0 = "rmtree" <=> cmd = "remove"
  BY <1>1
<1>3. task' = IF recorded[t] # None THEN Yard!NewJob(who, cmd, t, "check", "stop", disk[t])
             ELSE Yard!NewJob(who, cmd, t, pc0, "none", disk[t])
  BY DEF Yard!BeginStop
<1> HIDE DEF pc0
<1>4. task' \in Yard!Job /\ task' # None
  BY <1>1, <1>2, <1>3, YardNewJob
<1>5. /\ task'.tool = t /\ task'.op = cmd /\ task'.who = who /\ task'.decl = disk[t]
      /\ task'.pc = IF recorded[t] # None THEN "check" ELSE pc0
      /\ task'.ctx = IF recorded[t] # None THEN "stop" ELSE "none"
      /\ task'.run = recorded[t]
  <2>1. t # None
    BY DEF Yard!ToolyardAssumption
  <2> QED BY <1>3, <2>1 DEF Yard!NewJob
<1>6. /\ boot' = boot /\ born' = born /\ processes' = processes /\ recorded' = recorded /\ given' = given /\ regs' = regs
      /\ wd' = wd /\ rc' = rc /\ wanted' = wanted /\ kills' = kills
  BY DEF Yard!BeginStop, Yard!hostVars, Yard!fileVars, Yard!spsVars, Yard!threadVars, Yard!countVars
<1>7. /\ \A u \in Tools : approved[u] \subseteq approved'[u]
      /\ cmd = "restart" => disk[t] \in approved'[t]
  BY <1>1 DEF Yard!BeginStop, Yard!TypeOK
<1>8. Yard!PhaseInv'
  BY <1>1, <1>2, <1>5, <1>6, <1>7 DEF Yard!PhaseInv, Yard!Starts
<1> QED BY <1>1, <1>2, <1>4, <1>5, <1>6, <1>7, <1>8, YardBegun

LEMMA YardRcStart ==
  ASSUME Yard!ToolyardAssumption, Yard!ToolyardInv, Yard!TypeOK', Yard!RcStart PROVE Yard!ToolyardInv'
<1>1. CASE task' = task
  BY <1>1, YardRcAside
<1>2. CASE task' # task
  <2>1. /\ Yard!TypeOK /\ Yard!RecordsInv /\ task = None /\ rc.pc = "start" /\ rc.tool \in Tools /\ rc \in Yard!Threads
        /\ recorded[rc.tool] # None /\ recorded[rc.tool] \in Yard!RunningTool
    BY <1>2 DEF Yard!RcStart, Yard!ToolyardInv, Yard!TypeOK, Yard!ThreadsInv
  <2>2. task' = Yard!NewJob("reconciler", "recover", rc.tool, "alive", "none", recorded[rc.tool].decl)
        /\ rc' = [rc EXCEPT !.pc = "job"]
    BY <1>2 DEF Yard!RcStart
  <2>3. recorded[rc.tool].decl \in Decls /\ recorded[rc.tool].decl \in approved[rc.tool]
    BY <2>1 DEF Yard!RecordsInv, Yard!Sound, Yard!RunningTool
  <2>4. task' \in Yard!Job /\ task' # None
    BY <2>1, <2>2, <2>3, YardNewJob
  <2>5. /\ task'.tool = rc.tool /\ task'.op = "recover" /\ task'.who = "reconciler" /\ task'.ctx = "none"
        /\ task'.decl = recorded[rc.tool].decl /\ task'.pc = "alive" /\ task'.run = recorded[rc.tool]
    <3>1. rc.tool # None
      BY <2>1 DEF Yard!ToolyardAssumption
    <3> QED BY <2>2, <3>1 DEF Yard!NewJob
  <2>6. rc'.pc = "job" /\ rc'.tool = rc.tool /\ rc'.snap = rc.snap /\ rc'.todo = rc.todo
    BY <2>1, <2>2 DEF Yard!Threads
  <2>7. /\ boot' = boot /\ born' = born /\ processes' = processes /\ recorded' = recorded /\ given' = given /\ regs' = regs
        /\ wd' = wd /\ wanted' = wanted /\ kills' = kills /\ approved' = approved
    BY DEF Yard!RcStart, Yard!hostVars, Yard!fileVars, Yard!spsVars, Yard!ghostVars, Yard!countVars
  <2>8. Yard!PhaseInv'
    BY <2>1, <2>3, <2>5, <2>6, <2>7 DEF Yard!PhaseInv, Yard!Starts
  <2> QED BY <2>1, <2>4, <2>5, <2>6, <2>7, <2>8, YardBegun
<1> QED BY <1>1, <1>2

\* The lock is released: the runtime in hand has ended, is recorded or is given up.
LEMMA YardReleased ==
  ASSUME Yard!ToolyardAssumption, Yard!ToolyardInv, Yard!TypeOK', task' = None, recorded' = recorded, born' = born, boot' = boot,
         Wane, approved' = approved, regs' = regs \/ regs' = [t \in Tools |-> None], given \subseteq given',
         \A t \in Tools : rc'.snap[t] \in {None, rc.snap[t]},
         Yard!ThreadsInv', Yard!IntentKept',
         task # None /\ task.run # None =>
            Yard!Dead(task.run) \/ recorded[task.tool] = task.run \/ task.run.birth \in given'
  PROVE  Yard!ToolyardInv'
<1>1. /\ Yard!TypeOK /\ Yard!ProcsInv /\ Yard!RecordsInv /\ Yard!NoForgottenProcess /\ Yard!GrantsApproved /\ born \in Nat
  BY DEF Yard!ToolyardInv, Yard!TypeOK
<1>2. Yard!ProcsInv' /\ \A r, t : t \in Tools /\ Yard!Sound(r, t) => Yard!Sound(r, t)'
  BY <1>1, YardWane
<1>3. Yard!RecordsInv'
  BY <1>1, <1>2 DEF Yard!RecordsInv, Yard!Sound
<1>4. Yard!GrantsApproved'
  BY <1>1 DEF Yard!GrantsApproved
<1>5. task # None /\ task.run # None => Yard!Sound(task.run, task.tool) /\ task.tool \in Tools
  BY YardJob DEF Yard!InHandInv
<1>6. Yard!NoForgottenProcess'
  <2> SUFFICES ASSUME NEW p \in processes', p.tool \in Tools, p.live
               PROVE  (recorded[p.tool] # None /\ recorded[p.tool].birth = p.birth) \/ p.birth \in given'
    BY DEF Yard!NoForgottenProcess
  <2>1. PICK q \in processes : q.birth = p.birth /\ q.tool = p.tool /\ q.live
    BY DEF Wane, Yard!ToolyardAssumption
  <2>2. CASE task # None /\ task.run # None /\ task.run.birth = q.birth
    BY <1>5, <2>1, <2>2 DEF Yard!Sound, Yard!Dead
  <2>3. CASE ~(task # None /\ task.run # None /\ task.run.birth = q.birth)
    BY <1>1, <2>1, <2>3 DEF Yard!NoForgottenProcess
  <2> QED BY <2>2, <2>3
<1> QED BY <1>2, <1>3, <1>4, <1>6 DEF Yard!ToolyardInv

LEMMA YardOrphaned ==
  ASSUME Yard!TypeOK, Yard!ProcsInv, NEW parent \in {"cli", "admin"}, processes' = Yard!Orphaned(parent)
  PROVE  Wane
<1>1. \A p \in processes : LET r == [p EXCEPT !.parent = IF p.parent = parent THEN "init" ELSE p.parent] IN
                       r.birth = p.birth /\ r.pid = p.pid /\ r.tool = p.tool /\ r.live = p.live
  BY DEF Yard!TypeOK, Yard!Process
<1> DEFINE R(p) == [p EXCEPT !.parent = IF p.parent = parent THEN "init" ELSE p.parent]
<1>2. \A p \in processes : R(p).birth = p.birth /\ R(p).pid = p.pid /\ R(p).tool = p.tool /\ R(p).live = p.live
  BY <1>1
<1>3. processes' = {R(p) : p \in {q \in processes : q.live \/ q.parent # parent}}
  BY DEF Yard!Orphaned
<1> HIDE DEF R
<1> QED BY <1>2, <1>3 DEF Wane, Yard!ProcsInv

LEMMA YardWdJob ==
  ASSUME Yard!ToolyardAssumption, Yard!ToolyardInv, Yard!TypeOK', Yard!WdLoad \/ Yard!WdEnd PROVE Yard!ToolyardInv'
<1>1. /\ Yard!TypeOK /\ Yard!ProcsInv /\ Yard!RecordsInv /\ Yard!ThreadsInv /\ Yard!NoForgottenProcess /\ Yard!IntentKept
      /\ Yard!GrantsApproved /\ born \in Nat /\ wd \in Yard!Watch /\ recorded \in [Tools -> Yard!RunningTool \cup {None}]
  BY DEF Yard!ToolyardInv, Yard!TypeOK
<1>2. /\ boot' = boot /\ born' = born /\ processes' = processes /\ recorded' = recorded /\ given' = given /\ regs' = regs
      /\ rc' = rc /\ wanted' = wanted /\ kills' = kills /\ approved' = approved
  BY DEF Yard!WdLoad, Yard!WdEnd, Yard!hostVars, Yard!fileVars, Yard!spsVars, Yard!ghostVars, Yard!countVars
<1>3. CASE Yard!WdLoad
  <2>1. task = None /\ task' = Yard!NewJob("watchdog", "reregister", None, "loop", "none", None)
    BY <1>3 DEF Yard!WdLoad
  <2>2. /\ task'.tool = None /\ task'.op = "reregister" /\ task'.who = "watchdog" /\ task'.pc = "loop" /\ task'.run = None
    BY <2>1 DEF Yard!NewJob
  <2>3. task' # None
    BY <1>1, <2>1, YardNewJob
  <2>4. wd'.todo = {t \in Tools : recorded[t] # None /\ recorded[t].sps}
    BY <1>1, <1>3 DEF Yard!WdLoad, Yard!Watch
  <2>5. Yard!ThreadsInv'
    BY <1>1, <1>2, <2>2, <2>3, <2>4 DEF Yard!ThreadsInv
  <2>6. Yard!ProcsInv' /\ Yard!RecordsInv' /\ Yard!GrantsApproved'
    BY <1>1, <1>2 DEF Yard!ProcsInv, Yard!RecordsInv, Yard!Sound, Yard!GrantsApproved
  <2>7. Yard!NoForgottenProcess' /\ Yard!IntentKept'
    BY <1>1, <1>2, <2>1 DEF Yard!NoForgottenProcess, Yard!IntentKept
  <2> QED BY <2>2, <2>5, <2>6, <2>7 DEF Yard!ToolyardInv
<1>4. CASE Yard!WdEnd
  <2>1. task # None /\ task.tool = None /\ task.run = None /\ task' = None
    BY <1>1, <1>4, YardJob DEF Yard!WdEnd, Yard!ThreadsInv
  <2>2. wd'.pc = "idle"
    <3>1. wd' = [wd EXCEPT !.pc = "idle", !.seen = IF wd.bad THEN wd.seen ELSE wd.cur]
      BY <1>4 DEF Yard!WdEnd
    <3>2. \A n : [wd EXCEPT !.pc = "idle", !.seen = n].pc = "idle"
      BY <1>1 DEF Yard!Watch
    <3> QED BY <3>1, <3>2
  <2>3. Yard!ThreadsInv'
    BY <1>1, <1>2, <2>2 DEF Yard!ThreadsInv
  <2>4. None \notin Tools
    BY DEF Yard!ToolyardAssumption
  <2>5. Yard!IntentKept'
    BY <1>1, <1>2, <2>1, <2>4 DEF Yard!IntentKept
  <2>6. Wane
    BY <1>1, <1>2, YardReaps
  <2> QED BY <1>2, <2>1, <2>3, <2>5, <2>6, YardReleased
<1> QED BY <1>3, <1>4

LEMMA YardFinish ==
  ASSUME Yard!ToolyardAssumption, Yard!ToolyardInv, Yard!TypeOK', Yard!Finish PROVE Yard!ToolyardInv'
<1>1. /\ task # None /\ task.pc \in {"done", "failed"} /\ task \in Yard!Job /\ Yard!TypeOK
      /\ Yard!InHandInv /\ Yard!PhaseInv /\ Yard!ProcsInv /\ Yard!ThreadsInv /\ Yard!IntentKept
      /\ task.op # "reregister" /\ task.tool \in Tools /\ rc \in Yard!Threads
      /\ wanted \in [Tools -> {"up", "down", "open"}]
  BY YardJob DEF Yard!Finish, Yard!ToolyardInv, Yard!TypeOK
<1>2. /\ task' = None /\ boot' = boot /\ born' = born /\ recorded' = recorded /\ given' = given /\ regs' = regs /\ wd' = wd
      /\ kills' = kills /\ approved' = approved
  BY DEF Yard!Finish, Yard!fileVars, Yard!spsVars, Yard!countVars
<1>3. Wane
  BY <1>1, YardReaps, YardOrphaned DEF Yard!Finish
<1>4. /\ task.who # "reconciler" => rc' = rc
      /\ task.who = "reconciler" => /\ rc'.pc = IF task.pc = "done" THEN "pick" ELSE "restore"
                                   /\ rc'.tool = rc.tool /\ rc'.todo = rc.todo /\ rc'.snap = rc.snap
  BY <1>1 DEF Yard!Finish, Yard!Threads
<1>5. Yard!ThreadsInv'
  BY <1>1, <1>2, <1>4 DEF Yard!ThreadsInv, Yard!PhaseInv
<1>6. Yard!IntentKept'
  <2>1. CASE task.who = "reconciler"
    <3>1. wanted' = wanted
      BY <2>1 DEF Yard!Finish
    <3> QED BY <1>1, <1>2, <1>4, <2>1, <3>1 DEF Yard!IntentKept, Yard!PhaseInv, Yard!Starts
  <2>2. CASE task.who # "reconciler"
    <3>1. \A t \in Tools : t # task.tool => wanted'[t] = wanted[t]
      BY <1>1, <2>2 DEF Yard!Finish
    <3>2. wanted'[task.tool] = "up" => task.pc = "done" /\ task.op \in {"start", "restart"}
      <4> DEFINE w == CASE task.pc = "failed" -> "open" [] task.pc = "done" /\ task.op \in {"start", "restart"} -> "up"
                        [] OTHER -> "down"
      <4>1. wanted' = [wanted EXCEPT ![task.tool] = w]
        BY <2>2, Zenon DEF Yard!Finish
      <4>2. w = "up" => task.pc = "done" /\ task.op \in {"start", "restart"}
        BY <1>1
      <4> HIDE DEF w
      <4> QED BY <1>1, <4>1, <4>2
    <3>3. wanted'[task.tool] = "up" => recorded[task.tool] # None
      BY <1>1, <3>2 DEF Yard!PhaseInv, Yard!Starts
    <3> QED BY <1>1, <1>2, <1>4, <2>2, <3>1, <3>3 DEF Yard!IntentKept
  <2> QED BY <2>1, <2>2
<1>7. task.run # None => Yard!Dead(task.run) \/ recorded[task.tool] = task.run \/ task.run.birth \in given'
  BY <1>1, <1>2 DEF Yard!InHandInv
<1>8. \A t \in Tools : rc'.snap[t] \in {None, rc.snap[t]}
  BY <1>4
<1> QED BY <1>2, <1>3, <1>5, <1>6, <1>7, <1>8, YardReleased

LEMMA YardCliCrash ==
  ASSUME Yard!ToolyardAssumption, Yard!ToolyardInv, Yard!TypeOK', Yard!CliCrash PROVE Yard!ToolyardInv'
<1>1. /\ task # None /\ task.who = "cli" /\ Yard!TypeOK /\ Yard!ProcsInv /\ Yard!ThreadsInv /\ kills \in 0 .. MaxKills
      /\ MaxKills \in Nat /\ task.op # "reregister"
  BY YardJob DEF Yard!CliCrash, Yard!ToolyardInv, Yard!TypeOK, Yard!ToolyardAssumption
<1>2. /\ task' = None /\ boot' = boot /\ born' = born /\ recorded' = recorded /\ regs' = regs /\ wd' = wd /\ rc' = rc
      /\ approved' = approved /\ kills' = kills + 1
  BY DEF Yard!CliCrash, Yard!fileVars, Yard!spsVars, Yard!threadVars
<1>3. Wane
  BY <1>1, YardOrphaned DEF Yard!CliCrash
<1>4. Yard!ThreadsInv'
  BY <1>1, <1>2 DEF Yard!ThreadsInv
<1>5. kills' # 0
  BY <1>1, <1>2
<1>6. Yard!IntentKept'
  BY <1>5 DEF Yard!IntentKept
<1>7. given \subseteq given' /\ (task.run # None => task.run.birth \in given')
  BY <1>1 DEF Yard!CliCrash, Yard!InHand
<1> QED BY <1>2, <1>3, <1>4, <1>6, <1>7, YardReleased

LEMMA YardAdminRestart ==
  ASSUME Yard!ToolyardAssumption, Yard!ToolyardInv, Yard!TypeOK', Yard!AdminRestart PROVE Yard!ToolyardInv'
<1>1. Yard!TypeOK /\ Yard!ProcsInv /\ Yard!GrantsApproved /\ kills \in 0 .. MaxKills /\ MaxKills \in Nat /\ born \in Nat
  BY DEF Yard!ToolyardInv, Yard!TypeOK, Yard!ToolyardAssumption
<1>2. /\ boot' = boot /\ born' = born /\ recorded' = recorded /\ regs' = regs /\ approved' = approved /\ kills' = kills + 1
      /\ rc' = [Yard!RcOff EXCEPT !.pc = "wait"] /\ wd' = Yard!WdNew
  BY DEF Yard!AdminRestart, Yard!fileVars, Yard!spsVars
<1>3. /\ rc'.pc = "wait" /\ rc'.todo = {} /\ wd'.pc = "idle"
      /\ \A t \in Tools : rc'.snap[t] = None
  BY <1>2 DEF Yard!RcOff, Yard!NoState, Yard!WdNew
<1>4. Wane
  <2>1. CASE processes' = Yard!Orphaned("admin")
    BY <1>1, <2>1, YardOrphaned
  <2>2. CASE processes' = {p \in processes : p.parent # "admin"}
    BY <1>1, <2>2, YardReaps
  <2> QED BY <2>1, <2>2 DEF Yard!AdminRestart
<1>5. Yard!ThreadsInv'
  BY <1>3 DEF Yard!ThreadsInv
<1>6. kills' # 0
  BY <1>1, <1>2
<1>7. Yard!IntentKept'
  BY <1>6 DEF Yard!IntentKept
<1>8. Yard!GrantsApproved'
  BY <1>1, <1>2 DEF Yard!GrantsApproved
<1>9. CASE task # None /\ task.who # "cli"
  <2>1. task' = None /\ given' = given \cup Yard!InHand
    BY <1>9 DEF Yard!AdminRestart
  <2>2. given \subseteq given' /\ (task.run # None => task.run.birth \in given')
    BY <1>9, <2>1 DEF Yard!InHand
  <2> QED BY <1>2, <1>3, <1>4, <1>5, <1>7, <2>1, <2>2, YardReleased
<1>10. CASE ~(task # None /\ task.who # "cli")
  <2>1. task' = task /\ given' = given /\ born <= born'
    BY <1>1, <1>2, <1>10 DEF Yard!AdminRestart
  <2> QED BY <1>2, <1>3, <1>4, <1>5, <1>7, <1>8, <1>10, <2>1, YardAside
<1> QED BY <1>9, <1>10

\* Nothing runs after a reboot, so no record is of a live process.
LEMMA YardReboot ==
  ASSUME Yard!ToolyardAssumption, Yard!ToolyardInv, Yard!TypeOK', Yard!Reboot PROVE Yard!ToolyardInv'
<1>1. Yard!TypeOK /\ Yard!RecordsInv /\ kills \in 0 .. MaxKills /\ MaxKills \in Nat
  BY DEF Yard!ToolyardInv, Yard!TypeOK, Yard!ToolyardAssumption
<1>2. /\ born' = born /\ recorded' = recorded /\ regs' = [t \in Tools |-> None] /\ approved' = approved /\ kills' = kills + 1
      /\ rc' = [Yard!RcOff EXCEPT !.pc = "wait"] /\ wd' = Yard!WdNew /\ task' = None /\ processes' = {}
  BY DEF Yard!Reboot, Yard!fileVars, Yard!NoState
<1>3. /\ rc'.pc = "wait" /\ rc'.todo = {} /\ wd'.pc = "idle"
      /\ \A t \in Tools : rc'.snap[t] = None
  BY <1>2 DEF Yard!RcOff, Yard!NoState, Yard!WdNew
<1>4. kills' # 0
  BY <1>1, <1>2
<1>5. Yard!ThreadsInv' /\ Yard!IntentKept' /\ Yard!GrantsApproved' /\ Yard!ProcsInv' /\ Yard!NoForgottenProcess'
  BY <1>2, <1>3, <1>4 DEF Yard!ThreadsInv, Yard!IntentKept, Yard!GrantsApproved, Yard!ProcsInv, Yard!NoForgottenProcess
<1>6. Yard!RecordsInv'
  BY <1>1, <1>2, <1>3 DEF Yard!RecordsInv, Yard!Sound
<1> QED BY <1>2, <1>5, <1>6 DEF Yard!ToolyardInv

-----------------------------------------------------------------------------
(* Records that are changed beside a command *)

LEMMA YardRecordEdit ==
  ASSUME Yard!ToolyardAssumption, Yard!ToolyardInv, Yard!TypeOK', NEW t \in Tools, Yard!RecordEdit(t) PROVE Yard!ToolyardInv'
<1>1. /\ Yard!TypeOK /\ Yard!ProcsInv /\ Yard!RecordsInv /\ Yard!ThreadsInv /\ Yard!NoForgottenProcess /\ Yard!IntentKept
      /\ Yard!GrantsApproved /\ recorded \in [Tools -> Yard!RunningTool \cup {None}] /\ approved \in [Tools -> SUBSET Decls]
      /\ disk[t] \in Decls /\ task = None /\ recorded[t] # None /\ recorded[t] \in Yard!RunningTool
  BY DEF Yard!ToolyardInv, Yard!TypeOK, Yard!RecordEdit
<1>2. PICK run : run = [recorded[t] EXCEPT !.decl = disk[t]]
  OBVIOUS
<1>3. /\ run.birth = recorded[t].birth /\ run.pid = recorded[t].pid /\ run.boot = recorded[t].boot /\ run.decl = disk[t]
      /\ run \in Yard!RunningTool /\ run # None
  BY <1>1, <1>2 DEF Yard!RunningTool, Yard!ToolyardAssumption
<1>4. \A u \in Tools : recorded'[u] = IF u = t THEN run ELSE recorded[u]
  BY <1>1, <1>2 DEF Yard!RecordEdit
<1>5. /\ boot' = boot /\ born' = born /\ processes' = processes /\ given' = given /\ regs' = regs /\ task' = None
      /\ rc' = rc /\ wd' = wd /\ wanted' = wanted /\ kills' = kills
  BY <1>1 DEF Yard!RecordEdit, Yard!hostVars, Yard!spsVars, Yard!threadVars, Yard!countVars
<1>6. (\A u \in Tools : approved[u] \subseteq approved'[u]) /\ disk[t] \in approved'[t]
  BY <1>1 DEF Yard!RecordEdit
<1>7. Yard!ProcsInv' /\ Yard!GrantsApproved'
  BY <1>1, <1>5, <1>6 DEF Yard!ProcsInv, Yard!GrantsApproved
<1>8. Yard!RecordsInv'
  BY <1>1, <1>3, <1>4, <1>5, <1>6 DEF Yard!RecordsInv, Yard!Sound
<1>9. Yard!ThreadsInv' /\ Yard!IntentKept' /\ Yard!NoForgottenProcess'
  BY <1>1, <1>3, <1>4, <1>5 DEF Yard!ThreadsInv, Yard!IntentKept, Yard!NoForgottenProcess
<1> QED BY <1>5, <1>7, <1>8, <1>9 DEF Yard!ToolyardInv

LEMMA YardRcRestore ==
  ASSUME Yard!ToolyardAssumption, Yard!ToolyardInv, Yard!TypeOK', Yard!RcRestore PROVE Yard!ToolyardInv'
<1>1. /\ Yard!TypeOK /\ Yard!ProcsInv /\ Yard!RecordsInv /\ Yard!ThreadsInv /\ Yard!NoForgottenProcess /\ Yard!IntentKept
      /\ Yard!GrantsApproved /\ recorded \in [Tools -> Yard!RunningTool \cup {None}] /\ rc \in Yard!Threads
      /\ wanted \in [Tools -> {"up", "down", "open"}]
      /\ task = None /\ rc.pc = "restore" /\ rc.tool \in Tools /\ rc.snap[rc.tool] # None
  BY DEF Yard!ToolyardInv, Yard!TypeOK, Yard!RcRestore, Yard!ThreadsInv
<1>2. /\ boot' = boot /\ born' = born /\ processes' = processes /\ given' = given /\ regs' = regs /\ task' = None
      /\ wd' = wd /\ kills' = kills /\ approved' = approved
  BY <1>1 DEF Yard!RcRestore, Yard!hostVars, Yard!spsVars
<1>3. Yard!ProcsInv' /\ Yard!GrantsApproved'
  BY <1>1, <1>2 DEF Yard!ProcsInv, Yard!GrantsApproved
<1>4. CASE rc' = [rc EXCEPT !.pc = "pick"] /\ wanted' = wanted
           /\ recorded' = [recorded EXCEPT ![rc.tool] = IF recorded[rc.tool] = None THEN rc.snap[rc.tool] ELSE recorded[rc.tool]]
  <2>1. \A u \in Tools : recorded'[u] = IF u = rc.tool /\ recorded[u] = None THEN rc.snap[u] ELSE recorded[u]
    BY <1>1, <1>4
  <2>2. rc'.pc = "pick" /\ rc'.tool = rc.tool /\ rc'.todo = rc.todo /\ rc'.snap = rc.snap
    BY <1>1, <1>4 DEF Yard!Threads
  <2>3. Yard!RecordsInv'
    BY <1>1, <1>2, <2>1, <2>2 DEF Yard!RecordsInv, Yard!Sound
  <2>4. Yard!ThreadsInv' /\ Yard!IntentKept' /\ Yard!NoForgottenProcess'
    BY <1>1, <1>2, <1>4, <2>1, <2>2 DEF Yard!ThreadsInv, Yard!IntentKept, Yard!NoForgottenProcess
  <2> QED BY <1>2, <1>3, <2>3, <2>4 DEF Yard!ToolyardInv
<1>5. CASE rc' = Yard!RcOff /\ wanted' = [wanted EXCEPT ![rc.tool] = "open"] /\ recorded' = recorded
  <2>1. rc'.pc = "off" /\ rc'.todo = {} /\ \A t \in Tools : rc'.snap[t] = None
    BY <1>5 DEF Yard!RcOff, Yard!NoState
  <2>2. Yard!RecordsInv'
    BY <1>1, <1>2, <1>5, <2>1 DEF Yard!RecordsInv, Yard!Sound
  <2>3. Yard!ThreadsInv' /\ Yard!NoForgottenProcess'
    BY <1>1, <1>2, <1>5, <2>1 DEF Yard!ThreadsInv, Yard!NoForgottenProcess
  <2>4. Yard!IntentKept'
    BY <1>1, <1>2, <1>5, <2>1 DEF Yard!IntentKept
  <2> QED BY <1>2, <1>3, <2>2, <2>3, <2>4 DEF Yard!ToolyardInv
<1> QED BY <1>4, <1>5 DEF Yard!RcRestore, Yard!fileVars

-----------------------------------------------------------------------------
(* Every step, and what a signal ends *)

LEMMA YardInit ==
  ASSUME Yard!ToolyardAssumption, Yard!Init PROVE Yard!ToolyardInv
<1>1. Yard!RcOff \in Yard!Threads /\ [Yard!RcOff EXCEPT !.pc = "wait"] \in Yard!Threads /\ Yard!WdNew \in Yard!Watch
  BY DEF Yard!RcOff, Yard!NoState, Yard!WdNew, Yard!Threads, Yard!Watch
<1>2. rc.pc = "wait" /\ rc.todo = {} /\ wd.pc = "idle" /\ \A t \in Tools : rc.snap[t] = None
  BY DEF Yard!Init, Yard!RcOff, Yard!NoState, Yard!WdNew
<1>3. Yard!TypeOK
  BY <1>1 DEF Yard!Init, Yard!TypeOK, Yard!NoState, Yard!ToolyardAssumption
<1>4. Yard!ProcsInv /\ Yard!RecordsInv /\ Yard!ThreadsInv /\ Yard!NoForgottenProcess /\ Yard!IntentKept /\ Yard!GrantsApproved
  BY <1>2 DEF Yard!Init, Yard!NoState, Yard!ProcsInv, Yard!RecordsInv, Yard!ThreadsInv, Yard!NoForgottenProcess, Yard!IntentKept,
              Yard!GrantsApproved
<1> QED BY <1>3, <1>4 DEF Yard!ToolyardInv, Yard!Init

LEMMA YardNext ==
  ASSUME Yard!ToolyardAssumption, Yard!ToolyardInv, Yard!Next PROVE Yard!ToolyardInv'
<1>1. Yard!TypeOK'
  BY YardTypes
<1>2. (\E who \in Operators, t \in Tools : \/ "start" \in LifecycleOps /\ Yard!BeginStart(who, t)
                                           \/ \E cmd \in LifecycleOps \ {"start"} : Yard!BeginStop(who, cmd, t)) => Yard!ToolyardInv'
  BY <1>1, YardBeginStart, YardBeginStop
<1>3. Yard!JobStep => Yard!ToolyardInv'
  BY <1>1, YardIsAlive, YardTermCheck, YardTermSignal, YardUnregister, YardSaveState, YardPublishChannels, YardRegister,
     YardSpawn, YardReady, YardPhaseOnly, YardFinish DEF Yard!JobStep
<1>4. Yard!SaveFails \/ Yard!StartInterrupted \/ Yard!PortTaken => Yard!ToolyardInv'
  BY <1>1, YardSaveFails, YardPhaseOnly
<1>5. Yard!RcStep => Yard!ToolyardInv'
  BY <1>1, YardRcAside, YardRcStart, YardRcRestore DEF Yard!RcStep
<1>6. Yard!WdStep => Yard!ToolyardInv'
  BY <1>1, YardWdAside, YardWdJob DEF Yard!WdStep
<1>7. (\E p \in processes : Yard!Exit(p)) \/ (\E pid \in Pids : Yard!Foreign(pid)) \/ (\E t \in Tools : Yard!ListTools(t))
      \/ (\E t \in Tools, d \in Decls : Yard!EditManifest(t, d)) \/ Yard!SpsStop \/ Yard!SpsStart => Yard!ToolyardInv'
  BY <1>1, YardHostAside
<1>8. (\E t \in Tools : Yard!RecordEdit(t)) \/ Yard!CliCrash \/ Yard!AdminRestart \/ Yard!Reboot => Yard!ToolyardInv'
  BY <1>1, YardRecordEdit, YardCliCrash, YardAdminRestart, YardReboot
<1> QED BY <1>2, <1>3, <1>4, <1>5, <1>6, <1>7, <1>8 DEF Yard!Next

LEMMA YardStutter ==
  ASSUME Yard!ToolyardInv, UNCHANGED Yard!vars PROVE Yard!ToolyardInv'
<1>1. /\ boot' = boot /\ processes' = processes /\ born' = born /\ disk' = disk /\ recorded' = recorded /\ chan' = chan /\ sps' = sps
      /\ regs' = regs /\ task' = task /\ reclock' = reclock /\ rc' = rc /\ wd' = wd /\ wanted' = wanted /\ approved' = approved
      /\ given' = given /\ mishaps' = mishaps /\ kills' = kills
  BY DEF Yard!vars, Yard!hostVars, Yard!fileVars, Yard!spsVars, Yard!threadVars, Yard!ghostVars, Yard!countVars
<1> QED BY <1>1
     DEF Yard!ToolyardInv, Yard!TypeOK, Yard!ProcsInv, Yard!RecordsInv, Yard!ThreadsInv, Yard!InHandInv, Yard!PhaseInv, Yard!Sound,
         Yard!Dead, Yard!NoForgottenProcess, Yard!IntentKept, Yard!GrantsApproved

\* Only TermSignal goes from the signal to its confirmation, and it ends the recorded process only.
LEMMA YardSignals ==
  ASSUME Yard!ToolyardAssumption, Yard!ToolyardInv, Yard!Next PROVE Yard!NoForeignSignal
<1> SUFFICES ASSUME task # None, task.pc = "signal", task' # None, task'.pc = "confirm", NEW p \in processes \ processes'
             PROVE  p.tool = task.tool /\ p.birth = task.run.birth
  BY DEF Yard!NoForeignSignal
<1>1. task \in Yard!Job /\ Yard!InHandInv /\ task.run # None
  BY YardJob DEF Yard!InHandInv
<1>2. Yard!Sound(task.run, task.tool)
  BY <1>1 DEF Yard!InHandInv
<1>3. CASE Yard!TermSignal
  <2>1. [task EXCEPT !.pc = "unregister"].pc = "unregister"
    BY <1>1 DEF Yard!Job
  <2>2. p \in Yard!Same(task.run)
    BY <1>3, <2>1 DEF Yard!TermSignal, Yard!Go, Yard!Ended, Yard!Same
  <2> QED BY <1>2, <2>2 DEF Yard!Same, Yard!Sound, Yard!At
<1>4. CASE task' = task
  BY <1>4
<1>5. Yard!TermSignal \/ task' = task \/ task' = None
  <2>1. Yard!JobStep => Yard!TermSignal
    BY DEF Yard!JobStep, Yard!IsAlive, Yard!TermCheck, Yard!TermConfirm, Yard!Unregister, Yard!SaveState, Yard!PublishChannels,
           Yard!Register, Yard!Spawn, Yard!Ready, Yard!Rmtree, Yard!Finish
  <2>2. ~Yard!SaveFails /\ ~Yard!StartInterrupted /\ ~Yard!PortTaken
    BY DEF Yard!SaveFails, Yard!StartInterrupted, Yard!PortTaken
  <2>3. \A who \in Operators, t \in Tools : ~Yard!BeginStart(who, t) /\ \A cmd \in LifecycleOps : ~Yard!BeginStop(who, cmd, t)
    BY DEF Yard!BeginStart, Yard!BeginStop
  <2>4. Yard!RcStep => task' = task
    BY DEF Yard!RcStep, Yard!RcWait, Yard!RcSnap, Yard!RcPick, Yard!RcAssess, Yard!RcStart, Yard!RcRestore
  <2>5. Yard!WdStep => task' = task \/ task' = None
    BY DEF Yard!WdStep, Yard!WdProbe, Yard!WdLock, Yard!WdLoad, Yard!WdRegister, Yard!WdEnd
  <2>6. /\ \A q \in processes : Yard!Exit(q) => task' = task
        /\ \A pid \in Pids : Yard!Foreign(pid) => task' = task
        /\ \A t \in Tools : Yard!ListTools(t) \/ Yard!RecordEdit(t) => task' = task
        /\ \A t \in Tools, d \in Decls : Yard!EditManifest(t, d) => task' = task
        /\ Yard!SpsStop \/ Yard!SpsStart => task' = task
        /\ Yard!CliCrash \/ Yard!AdminRestart \/ Yard!Reboot => task' = task \/ task' = None
    BY DEF Yard!Exit, Yard!Foreign, Yard!ListTools, Yard!RecordEdit, Yard!EditManifest, Yard!SpsStop, Yard!SpsStart,
           Yard!CliCrash, Yard!AdminRestart, Yard!Reboot
  <2> QED BY <2>1, <2>2, <2>3, <2>4, <2>5, <2>6 DEF Yard!Next
<1> QED BY <1>3, <1>4, <1>5

-----------------------------------------------------------------------------
(* Tools by their MCP names *)

LEMMA FaceLatest ==
  ASSUME NEW m \in Nat, NEW I \in SUBSET (1 .. m), I # {}
  PROVE  \E i \in I : \A j \in I : j <= i
<1> DEFINE T == {m - i : i \in I}
<1>0. \A i \in I : i \in 1 .. m /\ m - i \in Nat
  OBVIOUS
<1>1. T \subseteq Nat /\ T # {}
  BY <1>0
<1> HIDE DEF T
<1>2. PICK x \in T : \A y \in T : ~(<<y, x>> \in OpToRel(<, Nat))
  BY <1>1, WFMin, NatLessThanWellFounded
<1>3. \A y \in T : ~(y < x)
  BY <1>1, <1>2 DEF OpToRel
<1>4. PICK i \in I : x = m - i
  BY DEF T
<1>5. ASSUME NEW j \in I PROVE j <= i
  <2>1. m - j \in T
    BY DEF T
  <2>2. ~(m - j < m - i)
    BY <1>3, <1>4, <2>1
  <2> QED BY <1>0, <2>2
<1> QED BY <1>5

\* What a catalog is.
LEMMA FaceCatalog ==
  ASSUME Face!McpAssumption, NEW c \in Face!Catalogs
  PROVE  /\ \E m \in Nat : DOMAIN c = 1 .. m
         /\ \A i \in DOMAIN c : c[i] \in Operations
         /\ \A i, j \in DOMAIN c : c[i] = c[j] => i = j
  BY DEF Face!Catalogs, Face!IsInjective

\* A map holds, under each name, an operation of that name from the places it was made of.
LEMMA FaceByName ==
  ASSUME Face!McpAssumption, registry \in Face!Catalogs, NEW I \in SUBSET DOMAIN registry,
         NEW n \in DOMAIN Face!ByName(I)
  PROVE  Face!ByName(I)[n] \in Face!At(I) /\ Face!Name(Face!ByName(I)[n]) = n
<1>1. PICK m \in Nat : DOMAIN registry = 1 .. m
  BY FaceCatalog
<1>2. n \in {Face!Name(o) : o \in Face!At(I)}
  BY DEF Face!ByName
<1>3. Face!Named(I, n) \in SUBSET (1 .. m) /\ Face!Named(I, n) # {} /\ Face!Named(I, n) \subseteq I
  BY <1>1, <1>2 DEF Face!Named, Face!At
<1>4. \E i \in Face!Named(I, n) : \A j \in Face!Named(I, n) : j <= i
  BY <1>3, FaceLatest
<1> DEFINE k == CHOOSE i \in Face!Named(I, n) : \A j \in Face!Named(I, n) : j <= i
<1>5. k \in Face!Named(I, n)
  BY <1>4
<1>6. Face!ByName(I)[n] = registry[k]
  BY <1>2 DEF Face!ByName
<1> QED BY <1>3, <1>5, <1>6 DEF Face!Named, Face!At

\* What a name stands for at the broker: an operation of that name, and the only registered one
\* when there is only one and it is no rest tool's.
LEMMA FaceResolves ==
  ASSUME Face!McpAssumption, registry \in Face!Catalogs, NEW S, NEW n \in Seq(S)
  PROVE  /\ Face!Resolve(n) \in Face!Registered => Face!Name(Face!Resolve(n)) = n
         /\ \A o \in Face!Registered \ RestOnes :
              {p \in Face!Registered : Face!Name(p) = n} = {o} => Face!Resolve(n) = o
<1> DEFINE I == {i \in DOMAIN registry : registry[i] \notin RestOnes}
<1>0. I \in SUBSET DOMAIN registry /\ Face!At(I) \subseteq Face!Registered
  BY DEF Face!At, Face!Registered, Face!Range
<1>1. Face!Resolve(n) = IF n \in DOMAIN Face!ByName(I) THEN Face!ByName(I)[n]
                        ELSE IF Len(n) < 2 THEN None ELSE <<SubSeq(n, 1, 1), Tail(n)>>
  BY DEF Face!Resolve
<1>2. n \in DOMAIN Face!ByName(I) => Face!ByName(I)[n] \in Face!At(I) /\ Face!Name(Face!ByName(I)[n]) = n
  BY <1>0, FaceByName
<1>3. Len(n) >= 2 => Face!Name(<<SubSeq(n, 1, 1), Tail(n)>>) = n
  <2>1. Face!Name(<<SubSeq(n, 1, 1), Tail(n)>>) = SubSeq(n, 1, 1) \o Tail(n)
    BY DEF Face!Name
  <2> HAVE Len(n) >= 2
  <2>2. /\ SubSeq(n, 1, 1) \in Seq(S) /\ Len(SubSeq(n, 1, 1)) = 1 /\ SubSeq(n, 1, 1)[1] = n[1]
        /\ Tail(n) \in Seq(S) /\ Len(Tail(n)) = Len(n) - 1 /\ \A i \in 1 .. Len(n) - 1 : Tail(n)[i] = n[i + 1]
    OBVIOUS
  <2>3. SubSeq(n, 1, 1) \o Tail(n) = n
    BY <2>2
  <2> QED BY <2>1, <2>3
<1>4. Face!Resolve(n) \in Face!Registered => Face!Name(Face!Resolve(n)) = n
  <2>1. None \notin Face!Registered
    BY FaceCatalog DEF Face!McpAssumption, Face!Registered, Face!Range
  <2>2. Len(n) \in Nat
    OBVIOUS
  <2> QED BY <1>1, <1>2, <1>3, <2>1, <2>2
<1>5. ASSUME NEW o \in Face!Registered \ RestOnes, {p \in Face!Registered : Face!Name(p) = n} = {o}
      PROVE  Face!Resolve(n) = o
  <2>1. PICK i \in DOMAIN registry : registry[i] = o
    BY DEF Face!Registered, Face!Range
  <2>2. o \in Face!At(I) /\ Face!Name(o) = n
    BY <1>5, <2>1 DEF Face!At
  <2>3. n \in DOMAIN Face!ByName(I)
    BY <2>2 DEF Face!ByName
  <2> QED BY <1>0, <1>1, <1>2, <1>5, <2>3
<1> QED BY <1>4, <1>5

\* A listing keeps a map sound: every operation in it counts as listed from then on.
LEMMA FaceMaps ==
  ASSUME Face!McpAssumption, Face!McpInv, NEW map, NEW rest \in BOOLEAN,
         map = Face!ByName(Face!Allowed(rest)), everShown' = everShown \cup Face!At(Face!Allowed(rest))
  PROVE  /\ everShown' \subseteq Operations /\ everShown \subseteq everShown'
         /\ \A n \in DOMAIN map : /\ map[n] \in everShown' /\ Face!Name(map[n]) = n
                                  /\ map[n] \in Face!Registered /\ effect[map[n]] # "deny"
                                  /\ (~rest => map[n] \notin RestOnes)
<1>1. registry \in Face!Catalogs /\ everShown \subseteq Operations
  BY DEF Face!McpInv
<1>2. Face!Allowed(rest) \in SUBSET DOMAIN registry
  BY DEF Face!Allowed
<1>3. \A o \in Face!At(Face!Allowed(rest)) :
         o \in Operations /\ o \in Face!Registered /\ effect[o] # "deny" /\ (~rest => o \notin RestOnes)
  BY <1>1, FaceCatalog DEF Face!At, Face!Allowed, Face!Registered, Face!Range
<1>4. \A n \in DOMAIN map : map[n] \in Face!At(Face!Allowed(rest)) /\ Face!Name(map[n]) = n
  BY <1>1, <1>2, FaceByName
<1> QED BY <1>1, <1>3, <1>4

\* What a call records, of a name, the listing it is from, what is submitted and the answer.
LEMMA FaceRecord ==
  ASSUME NEW n, NEW listing, NEW submitted, NEW reported, Face!Record(n, listing, submitted, reported)
  PROVE  /\ called' # None => /\ called'.name = n /\ called'.submitted = submitted /\ called'.answer = reported
                              /\ called'.listed = (IF n \in DOMAIN listing THEN listing[n] ELSE None)
                              /\ called'.usable = {o \in Face!Registered : effect[o] # "deny"}
                              /\ called'.homonyms = {o \in Face!Registered : Face!Name(o) = n}
                              /\ called'.fresh = {o \in Operations : Face!Name(o) = n /\ o \notin everShown}
  BY DEF Face!Record

\* What a step leaves of the last call.
LEMMA FaceQuiet ==
  ASSUME Face!McpInv, called' = called PROVE Face!RunsWhatWasListed' /\ Face!HidesUnlisted'
  BY DEF Face!McpInv, Face!RunsWhatWasListed, Face!HidesUnlisted

\* An answer other than an unknown tool means that the operation is registered and permitted.
LEMMA FaceAnswers ==
  ASSUME NEW o, effect \in [Operations -> {"allow", "review", "deny"}], Face!Registered \subseteq Operations
  PROVE  Face!Answer(Face!Outcome(o)) # "unknown tool" =>
           o \in {p \in Face!Registered : effect[p] # "deny"}
<1>1. o \notin Face!Registered => Face!Outcome(o) = "not_found"
  BY DEF Face!Outcome
<1>2. o \in Face!Registered /\ effect[o] = "deny" => Face!Outcome(o) = "denied"
  BY DEF Face!Outcome
<1> QED BY <1>1, <1>2 DEF Face!Answer

LEMMA FaceInit == ASSUME Face!McpAssumption, Face!Init PROVE Face!McpInv
  BY DEF Face!Init, Face!McpInv, Face!MapSound, Face!NoNames, Face!RunsWhatWasListed, Face!HidesUnlisted

LEMMA FaceNext ==
  ASSUME Face!McpAssumption, Face!McpInv, [Face!Next]_(Face!vars) PROVE Face!McpInv'
<1>0. /\ registry \in Face!Catalogs /\ effect \in [Operations -> {"allow", "review", "deny"}]
      /\ everShown \subseteq Operations /\ Face!MapSound(names) /\ Face!MapSound(shown)
      /\ \A n \in DOMAIN shown : shown[n] \notin RestOnes
  BY DEF Face!McpInv
<1>1. Face!Registered \subseteq Operations /\ None \notin Operations
  BY <1>0, FaceCatalog DEF Face!Registered, Face!Range, Face!McpAssumption
<1>2. ASSUME NEW c \in Face!Catalogs, Face!Reload(c) PROVE Face!McpInv'
  <2>1. /\ registry' = c /\ UNCHANGED <<effect, names, shown, everShown, called>>
    BY <1>2 DEF Face!Reload
  <2> QED BY <1>0, <2>1, FaceQuiet DEF Face!McpInv, Face!MapSound
<1>3. ASSUME NEW o \in Operations, NEW e \in {"allow", "deny"}, Face!SetPolicy(o, e) PROVE Face!McpInv'
  <2>1. effect' = [effect EXCEPT ![o] = e] /\ UNCHANGED <<registry, names, shown, everShown, called>>
    BY <1>3 DEF Face!SetPolicy
  <2>2. effect' \in [Operations -> {"allow", "review", "deny"}]
    BY <1>0, <2>1
  <2> QED BY <1>0, <2>1, <2>2, FaceQuiet DEF Face!McpInv, Face!MapSound
<1>4. CASE Face!List
  <2>1. /\ shown' = Face!ByName(Face!Allowed(FALSE)) /\ everShown' = everShown \cup Face!At(Face!Allowed(FALSE))
        /\ UNCHANGED <<registry, effect, names, called>>
    BY <1>4 DEF Face!List
  <2>2. /\ everShown' \subseteq Operations /\ everShown \subseteq everShown'
        /\ \A n \in DOMAIN shown' : /\ shown'[n] \in everShown' /\ Face!Name(shown'[n]) = n
                                    /\ shown'[n] \notin RestOnes
    BY <2>1, FaceMaps
  <2> QED BY <1>0, <2>1, <2>2, FaceQuiet DEF Face!McpInv, Face!MapSound
<1>5. CASE Face!ListAdapter
  <2>1. /\ names' = Face!ByName(Face!Allowed(TRUE)) /\ everShown' = everShown \cup Face!At(Face!Allowed(TRUE))
        /\ UNCHANGED <<registry, effect, shown, called>>
    BY <1>5 DEF Face!ListAdapter
  <2>2. /\ everShown' \subseteq Operations /\ everShown \subseteq everShown'
        /\ \A n \in DOMAIN names' : names'[n] \in everShown' /\ Face!Name(names'[n]) = n
    BY <2>1, FaceMaps
  <2> QED BY <1>0, <2>1, <2>2, FaceQuiet DEF Face!McpInv, Face!MapSound
<1>6. ASSUME NEW n \in {Face!Name(o) : o \in Operations} \cup {<<"x">>},
             Face!CallBroker(n) \/ Face!CallAdapter(n) \/ Face!Throttled(n)
      PROVE  Face!McpInv'
  <2> DEFINE Usable == {o \in Face!Registered : effect[o] # "deny"}
  <2>1. PICK S : n \in Seq(S)
    <3>1. ASSUME NEW o \in Operations PROVE Face!Name(o) \in Seq(STRING)
      <4>1. o[1] \in Seq(STRING) /\ o[2] \in Seq(STRING)
        BY DEF Face!McpAssumption
      <4> QED BY <4>1 DEF Face!Name
    <3>2. <<"x">> \in Seq({"x"})
      OBVIOUS
    <3> QED BY <3>1, <3>2
  <2>2. CASE Face!CallBroker(n)
    <3> DEFINE o == Face!Resolve(n)
    <3>1. /\ UNCHANGED <<registry, effect, names, shown, everShown>>
          /\ IF o = None \/ (o \in Face!Registered /\ o \in RestOnes)
             THEN Face!Record(n, shown, None, "unknown tool")
             ELSE Face!Record(n, shown, o, Face!Answer(Face!Outcome(o)))
      BY <2>2 DEF Face!CallBroker
    <3>2. /\ o \in Face!Registered => Face!Name(o) = n
          /\ \A p \in Face!Registered \ RestOnes : {q \in Face!Registered : Face!Name(q) = n} = {p} => o = p
      BY <1>0, <2>1, FaceResolves
    <3> HIDE DEF o
    <3>3. CASE o = None \/ (o \in Face!Registered /\ o \in RestOnes)
      <4>1. Face!Record(n, shown, None, "unknown tool")
        BY <3>1, <3>3
      <4>2. Face!HidesUnlisted'
        BY <4>1, FaceRecord DEF Face!HidesUnlisted
      <4>3. Face!RunsWhatWasListed'
        <5> SUFFICES ASSUME called' # None, called'.listed # None, called'.listed \in called'.usable,
                            called'.homonyms = {called'.listed}
                     PROVE  FALSE
          BY DEF Face!RunsWhatWasListed
        <5>1. n \in DOMAIN shown /\ called'.listed = shown[n] /\ shown[n] \notin RestOnes /\ shown[n] \in Face!Registered
          BY <1>0, <4>1, FaceRecord, ZenonT(60)
        <5>2. {q \in Face!Registered : Face!Name(q) = n} = {shown[n]}
          BY <4>1, <5>1, FaceRecord
        <5>3. o = shown[n]
          BY <3>2, <5>1, <5>2
        <5> QED BY <1>1, <3>3, <5>1, <5>3
      <4> QED BY <1>0, <3>1, <4>2, <4>3 DEF Face!McpInv, Face!MapSound
    <3>4. CASE ~(o = None \/ (o \in Face!Registered /\ o \in RestOnes))
      <4>1. Face!Record(n, shown, o, Face!Answer(Face!Outcome(o)))
        BY <3>1, <3>4
      <4>2. Face!RunsWhatWasListed'
        <5> SUFFICES ASSUME called' # None, called'.listed # None, called'.listed \in called'.usable,
                            called'.homonyms = {called'.listed}
                     PROVE  called'.submitted = called'.listed
          BY DEF Face!RunsWhatWasListed
        <5>1. n \in DOMAIN shown /\ called'.listed = shown[n] /\ shown[n] \notin RestOnes /\ shown[n] \in Face!Registered
          BY <1>0, <4>1, FaceRecord
        <5>2. {q \in Face!Registered : Face!Name(q) = n} = {shown[n]}
          BY <4>1, <5>1, FaceRecord
        <5> QED BY <3>2, <4>1, <5>1, <5>2, FaceRecord
      <4>3. Face!HidesUnlisted'
        <5> SUFFICES ASSUME called' # None, called'.fresh = {p \in Operations : Face!Name(p) = called'.name},
                            called'.fresh \cap called'.usable = {}
                     PROVE  called'.answer = "unknown tool"
          BY DEF Face!HidesUnlisted
        <5>1. /\ called'.answer = Face!Answer(Face!Outcome(o)) /\ called'.usable = Usable /\ called'.name = n
          BY <4>1, FaceRecord
        <5>2. o \in Usable => o \in Face!Registered /\ o \in Operations /\ o \in called'.fresh /\ o \in called'.usable
          BY <1>1, <3>2, <5>1
        <5> QED BY <1>0, <1>1, <5>1, <5>2, FaceAnswers
      <4> QED BY <1>0, <3>1, <4>2, <4>3 DEF Face!McpInv, Face!MapSound
    <3> QED BY <3>3, <3>4
  <2>3. CASE Face!CallAdapter(n)
    <3> DEFINE known == IF n \in DOMAIN names THEN names ELSE Face!ByName(Face!Allowed(TRUE))
    <3>1. /\ names' = known /\ UNCHANGED <<registry, effect, shown>>
          /\ IF n \in DOMAIN known THEN Face!Record(n, known, known[n], Face!Outcome(known[n]))
             ELSE Face!Record(n, known, None, "unknown tool")
          /\ everShown' = everShown \cup (IF n \in DOMAIN names THEN {} ELSE Face!At(Face!Allowed(TRUE)))
      BY <2>3 DEF Face!CallAdapter
    <3>2. /\ everShown' \subseteq Operations /\ everShown \subseteq everShown'
          /\ \A k \in DOMAIN known : known[k] \in everShown' /\ Face!Name(known[k]) = k
          /\ n \in DOMAIN known => known[n] \in everShown \/ known[n] \in Usable
      <4>1. CASE n \in DOMAIN names
        BY <1>0, <3>1, <4>1 DEF Face!MapSound
      <4>2. CASE n \notin DOMAIN names
        BY <3>1, <4>2, FaceMaps
      <4> QED BY <4>1, <4>2
    <3> HIDE DEF known
    <3>3. Face!RunsWhatWasListed'
      <4>1. CASE n \in DOMAIN known
        BY <3>1, <4>1, FaceRecord DEF Face!RunsWhatWasListed
      <4>2. CASE n \notin DOMAIN known
        BY <3>1, <4>2, FaceRecord DEF Face!RunsWhatWasListed
      <4> QED BY <4>1, <4>2
    <3>4. Face!HidesUnlisted'
      <4>1. CASE n \in DOMAIN known
        <5> SUFFICES ASSUME called' # None, called'.fresh = {p \in Operations : Face!Name(p) = called'.name},
                            called'.fresh \cap called'.usable = {}
                     PROVE  FALSE
          BY DEF Face!HidesUnlisted
        <5>1. /\ called'.usable = Usable /\ called'.name = n
              /\ called'.fresh = {p \in Operations : Face!Name(p) = n /\ p \notin everShown}
          BY <3>1, <4>1, FaceRecord
        <5>2. known[n] \in Operations /\ Face!Name(known[n]) = n
          BY <3>2, <4>1
        <5>3. known[n] \in called'.fresh /\ known[n] \notin everShown
          BY <5>1, <5>2
        <5> QED BY <3>2, <4>1, <5>1, <5>3
      <4>2. CASE n \notin DOMAIN known
        BY <3>1, <4>2, FaceRecord DEF Face!HidesUnlisted
      <4> QED BY <4>1, <4>2
    <3> QED BY <1>0, <3>1, <3>2, <3>3, <3>4 DEF Face!McpInv, Face!MapSound
  <2>4. CASE Face!Throttled(n)
    <3>1. /\ Face!Record(n, shown, None, "rate_limited") /\ UNCHANGED <<registry, effect, names, shown, everShown>>
      BY <2>4 DEF Face!Throttled
    <3>2. Face!RunsWhatWasListed' /\ Face!HidesUnlisted'
      BY <3>1, FaceRecord, ZenonT(60) DEF Face!RunsWhatWasListed, Face!HidesUnlisted
    <3> QED BY <1>0, <3>1, <3>2 DEF Face!McpInv, Face!MapSound
  <2> QED BY <1>6, <2>2, <2>3, <2>4
<1>7. CASE UNCHANGED Face!vars
  <2>1. UNCHANGED <<registry, effect, names, shown, everShown, called>>
    BY <1>7 DEF Face!vars
  <2> QED BY <1>0, <2>1, FaceQuiet DEF Face!McpInv, Face!MapSound
<1> QED BY <1>2, <1>3, <1>4, <1>5, <1>6, <1>7 DEF Face!Next

-----------------------------------------------------------------------------
(* The REST forwarder *)

\* The errors of a request: never the place of a secret, in an operation that loads.
FwdCodes == {"missing_variable", "invalid_variable", "header_not_allowed", "caller_secret_reference",
             "missing_secret", "body_not_allowed", "missing_body", "body_too_large"}

LEMMA FwdFirst ==
  ASSUME NEW e \in FwdCodes \cup {None}, NEW f \in FwdCodes \cup {None}
  PROVE  Fwd!First(e, f) \in FwdCodes \cup {None} /\ (Fwd!First(e, f) = None => e = None /\ f = None)
  BY DEF Fwd!First

LEMMA FwdSecrets ==
  ASSUME Fwd!ForwarderAssumption, NEW o, NEW refs, refs \subseteq o.allowed
  PROVE  Fwd!SecretError(o, refs) \in FwdCodes \cup {None}
<1>1. Fwd!Refused(~(refs \subseteq o.allowed), "secret_not_allowed") = None
  BY DEF Fwd!Refused
<1>2. Fwd!Refused(~(refs \subseteq DOMAIN copied), "missing_secret") \in FwdCodes \cup {None}
  BY DEF Fwd!Refused, FwdCodes
<1> QED BY <1>1, <1>2 DEF Fwd!SecretError, Fwd!First

LEMMA FwdErrors ==
  ASSUME Fwd!ForwarderAssumption, NEW o, Fwd!Loads(o), NEW a
  PROVE  /\ Fwd!BuildError(o, a) \in FwdCodes \cup {None}
         /\ Fwd!BuildError(o, a) = None =>
              /\ a.p = "word" /\ a.q \in {"absent", "word", "slash"}
              /\ a.header # None => Fwd!Lower(a.header) \notin o.headers
<1> USE DEF Fwd!Refused
<1>1. o.headerRefs \subseteq o.allowed /\ Fwd!TemplateRefs(o) \subseteq o.allowed
  BY DEF Fwd!Loads, Fwd!PlacementOK
<1>2. None \notin FwdCodes
  BY DEF Fwd!ForwarderAssumption, FwdCodes
<1>3. /\ Fwd!PathError(a) \in FwdCodes \cup {None}
      /\ Fwd!PathError(a) = None => a.p = "word" /\ a.q \in {"absent", "word", "slash"}
  BY <1>2 DEF Fwd!PathError, Fwd!First, Fwd!ValidPathVariable, Fwd!ValidQueryVariable, FwdCodes
<1>4. /\ Fwd!HeaderError(o, a.header) \in FwdCodes \cup {None}
      /\ Fwd!HeaderError(o, a.header) = None => (a.header # None => Fwd!Lower(a.header) \notin o.headers)
  BY <1>2 DEF Fwd!HeaderError, Fwd!First, FwdCodes
<1>5. Fwd!SecretError(o, o.headerRefs) \in FwdCodes \cup {None} /\ Fwd!SecretError(o, Fwd!TemplateRefs(o)) \in FwdCodes \cup {None}
  BY <1>1, FwdSecrets
<1>6. Fwd!BodyError(o, a.body) \in FwdCodes \cup {None}
  BY <1>5 DEF Fwd!BodyError, Fwd!First, FwdCodes
<1> QED BY <1>3, <1>4, <1>5, <1>6, FwdFirst DEF Fwd!BuildError

\* A request without an error is well formed.
LEMMA FwdOutbound ==
  ASSUME Fwd!ForwarderAssumption, NEW o, Fwd!Loads(o), NEW a, Fwd!BuildError(o, a) = None
  PROVE  LET r == Fwd!OutboundRequest(o, a) IN
         /\ r.path = "word" /\ r.query \in {"absent", "word", "slash"}
         /\ \A n \in o.headers : {h \in r.headers : h.name = n} = {[name |-> n, from |-> "operator"]}
         /\ DOMAIN r.secrets \subseteq o.allowed
<1> DEFINE r == Fwd!OutboundRequest(o, a)
           Caller == IF a.header = None THEN {} ELSE {[name |-> Fwd!Lower(a.header), from |-> "caller"]}
           Ours == {[name |-> n, from |-> "operator"] : n \in o.headers}
<1>1. /\ a.p = "word" /\ a.q \in {"absent", "word", "slash"}
      /\ a.header # None => Fwd!Lower(a.header) \notin o.headers
  BY FwdErrors
<1>2. r.path = a.p /\ r.query = a.q /\ r.headers = Caller \cup Ours /\ DOMAIN r.secrets = o.headerRefs \cup Fwd!TemplateRefs(o)
  BY DEF Fwd!OutboundRequest
<1> HIDE DEF r
<1>3. ASSUME NEW n \in o.headers PROVE {h \in r.headers : h.name = n} = {[name |-> n, from |-> "operator"]}
  <2>1. \A h \in Caller : h.name # n
    BY <1>1
  <2>2. \A h \in Ours : h.name = n => h = [name |-> n, from |-> "operator"]
    OBVIOUS
  <2>3. [name |-> n, from |-> "operator"] \in Ours /\ [name |-> n, from |-> "operator"].name = n
    OBVIOUS
  <2> HIDE DEF Caller, Ours
  <2> QED BY <1>2, <2>1, <2>2, <2>3
<1>4. DOMAIN r.secrets \subseteq o.allowed
  BY <1>2 DEF Fwd!Loads, Fwd!PlacementOK
<1> QED BY <1>1, <1>2, <1>3, <1>4 DEF r

LEMMA FwdInit == ASSUME Fwd!ForwarderAssumption, Fwd!Init PROVE Fwd!ForwarderInv
<1>1. /\ operation \in RawOps /\ Fwd!Loads(operation) /\ provided = [s \in Declared |-> 0] /\ copied = provided
      /\ at = "idle" /\ request = None /\ todo = {} /\ extracted = <<>> /\ before = copied /\ reply = None /\ next = 1
  BY DEF Fwd!Init
<1>2. DOMAIN extracted = {} /\ provided \in [Declared -> Nat]
  BY <1>1
<1>3. Fwd!WritesInv
  BY <1>1, <1>2 DEF Fwd!WritesInv
<1> QED BY <1>1, <1>2, <1>3
       DEF Fwd!ForwarderInv, Fwd!RequestWellFormed, Fwd!LoadedOpsUsable, Fwd!RepliesTellWrites, Fwd!RotationPrivate

\* What a request needs of the operation does not change while it is out, nor what a reply says.
LEMMA FwdRequestStays ==
  ASSUME Fwd!ForwarderInv, operation' = operation, request' = request \/ request' = None
  PROVE  Fwd!RequestWellFormed'
<1>1. CASE request' = request
  BY <1>1 DEF Fwd!ForwarderInv, Fwd!RequestWellFormed
<1>2. CASE request' = None
  BY <1>2 DEF Fwd!RequestWellFormed
<1> QED BY <1>1, <1>2

\* A call ends: what its reply needs.
LEMMA FwdReplied ==
  ASSUME Fwd!ForwarderAssumption, Fwd!ForwarderInv, operation' = operation,
         NEW code, NEW body, Fwd!Reply(code, body), code # "secret_not_allowed",
         body => code = "ok" /\ operation.redact # TRUE,
         copied' \in [Declared -> Nat], before' \in [Declared -> Nat], provided' \in [Declared -> Nat], next' \in Nat,
         DOMAIN extracted' \subseteq DOMAIN operation.rules, \A i \in DOMAIN extracted' : extracted'[i] \in Nat,
         code = "ok" => Fwd!Written(DOMAIN extracted)',
         code = "secret_update_failed" => (\E k \in DOMAIN extracted : Fwd!Written({i \in DOMAIN extracted : i < k}))',
         code \notin {"ok", "secret_update_failed"} => copied' = before'
  PROVE  Fwd!ForwarderInv'
<1>1. at' = "idle" /\ reply' = [code |-> code, body |-> body] /\ request' = None /\ todo' = {}
  BY DEF Fwd!Reply
<1>2. operation \in RawOps /\ Fwd!Loads(operation)
  BY DEF Fwd!ForwarderInv
<1>3. reply'.code = code /\ reply'.body = body
  BY <1>1
<1>4. Fwd!RepliesTellWrites'
  BY <1>3 DEF Fwd!RepliesTellWrites
<1>5. Fwd!RotationPrivate'
  <2> SUFFICES ASSUME reply'.body, DOMAIN extracted' # {} PROVE operation.redact = FALSE
    BY <1>3 DEF Fwd!RotationPrivate
  <2>1. operation.redact # TRUE /\ operation.redact \in BOOLEAN \cup {None}
    BY <1>2, <1>3 DEF Fwd!ForwarderAssumption
  <2>2. operation.rules # <<>>
    OBVIOUS
  <2>3. operation.redact # None
    BY <1>2, <2>2 DEF Fwd!Loads, Fwd!RulesOK
  <2> QED BY <2>1, <2>3
<1>6. Fwd!WritesInv'
  BY <1>1 DEF Fwd!WritesInv
<1>7. Fwd!LoadedOpsUsable' /\ Fwd!RequestWellFormed'
  BY <1>1, <1>3 DEF Fwd!LoadedOpsUsable, Fwd!RequestWellFormed
<1>8. Fwd!Loads(operation)'
  BY <1>2 DEF Fwd!Loads, Fwd!PlacementOK, Fwd!RulesOK, Fwd!TemplateRefs
<1> QED BY <1>2, <1>3, <1>4, <1>5, <1>6, <1>7, <1>8 DEF Fwd!ForwarderInv

\* A call goes on: what it may not disturb.
LEMMA FwdGoesOn ==
  ASSUME Fwd!ForwarderAssumption, Fwd!ForwarderInv, operation' = operation, reply' = reply, Fwd!RequestWellFormed',
         copied' \in [Declared -> Nat], before' \in [Declared -> Nat], provided' \in [Declared -> Nat], next' \in Nat,
         Fwd!WritesInv', Fwd!RepliesTellWrites'
  PROVE  Fwd!ForwarderInv'
<1>2. operation \in RawOps /\ Fwd!Loads(operation)
  BY DEF Fwd!ForwarderInv
<1>3. reply' # None /\ reply'.body => reply'.code = "ok" /\ operation.redact # TRUE
  BY DEF Fwd!ForwarderInv, Fwd!RotationPrivate
<1>5. Fwd!RotationPrivate'
  <2> SUFFICES ASSUME reply' # None, reply'.body, DOMAIN extracted' # {} PROVE operation.redact = FALSE
    BY <1>3 DEF Fwd!RotationPrivate
  <2>1. operation.redact # TRUE /\ operation.redact \in BOOLEAN \cup {None}
    BY <1>2, <1>3 DEF Fwd!ForwarderAssumption
  <2>2. operation.rules # <<>>
    BY DEF Fwd!WritesInv
  <2>3. operation.redact # None
    BY <1>2, <2>2 DEF Fwd!Loads, Fwd!RulesOK
  <2> QED BY <2>1, <2>3
<1>7. Fwd!LoadedOpsUsable'
  BY DEF Fwd!ForwarderInv, Fwd!LoadedOpsUsable
<1>8. Fwd!Loads(operation)'
  BY <1>2 DEF Fwd!Loads, Fwd!PlacementOK, Fwd!RulesOK, Fwd!TemplateRefs
<1> QED BY <1>2, <1>3, <1>5, <1>7, <1>8 DEF Fwd!ForwarderInv

\* A step that leaves the call alone.
LEMMA FwdStays ==
  ASSUME Fwd!ForwarderInv, UNCHANGED <<operation, copied, at, request, todo, extracted, before, reply>>
  PROVE  Fwd!WritesInv' /\ Fwd!RepliesTellWrites' /\ Fwd!RequestWellFormed'
<1>2. Fwd!WritesInv'
  <2>1. at = "write" => Fwd!Written(DOMAIN extracted \ todo)
    BY DEF Fwd!ForwarderInv, Fwd!WritesInv
  <2>2. (at = "write" => Fwd!Written(DOMAIN extracted \ todo))'
    BY <2>1 DEF Fwd!Written
  <2> QED BY <2>2 DEF Fwd!ForwarderInv, Fwd!WritesInv
<1>3. Fwd!RepliesTellWrites'
  BY DEF Fwd!ForwarderInv, Fwd!RepliesTellWrites, Fwd!Written
<1>4. Fwd!RequestWellFormed'
  BY FwdRequestStays
<1> QED BY <1>2, <1>3, <1>4

\* The values written before the one whose turn it is.
LEMMA FwdTurn ==
  ASSUME Fwd!ForwarderAssumption, Fwd!ForwarderInv, NEW i, Fwd!Turn(i)
  PROVE  /\ at = "write" /\ i \in todo /\ i \in DOMAIN extracted /\ extracted[i] \in Nat
         /\ {j \in DOMAIN extracted : j < i} = DOMAIN extracted \ todo
         /\ \A j \in DOMAIN extracted \ todo : j < i
         /\ Fwd!Written(DOMAIN extracted \ todo) /\ operation.rules[i] \in Writable
<1>1. at = "write" /\ i \in todo /\ \A j \in todo : i <= j
  BY DEF Fwd!Turn
<1>2. /\ todo \subseteq DOMAIN extracted /\ DOMAIN extracted \subseteq DOMAIN operation.rules
      /\ \A j \in DOMAIN extracted : extracted[j] \in Nat
      /\ \A k \in todo, j \in DOMAIN extracted \ todo : j < k
      /\ Fwd!Written(DOMAIN extracted \ todo)
  BY <1>1 DEF Fwd!ForwarderInv, Fwd!WritesInv
<1>3. \A j \in DOMAIN operation.rules : j \in Int /\ operation.rules[j] \in Writable
  BY DEF Fwd!ForwarderInv, Fwd!Loads, Fwd!RulesOK, Fwd!ForwarderAssumption
<1>4. \A j \in todo : ~(j < i)
  BY <1>1, <1>2, <1>3
<1> QED BY <1>1, <1>2, <1>3, <1>4

LEMMA FwdNext ==
  ASSUME Fwd!ForwarderAssumption, Fwd!ForwarderInv, [Fwd!Next]_(Fwd!vars) PROVE Fwd!ForwarderInv'
<1>0. /\ copied \in [Declared -> Nat] /\ before \in [Declared -> Nat] /\ provided \in [Declared -> Nat] /\ next \in Nat
      /\ operation \in RawOps /\ Fwd!Loads(operation) /\ Fwd!WritesInv
      /\ DOMAIN extracted \subseteq DOMAIN operation.rules /\ \A i \in DOMAIN extracted : extracted[i] \in Nat
      /\ Len(operation.rules) \in Nat /\ DOMAIN operation.rules = 1 .. Len(operation.rules)
  BY DEF Fwd!ForwarderInv, Fwd!WritesInv, Fwd!ForwarderAssumption
<1>1. ASSUME NEW S, Fwd!Refresh(S) PROVE Fwd!ForwarderInv'
  <2>1. /\ extracted' = <<>> /\ before' = copied' /\ UNCHANGED <<operation, provided, next>>
        /\ \E code \in {"refreshed", "dropped"} : Fwd!Reply(code, FALSE)
    BY <1>1 DEF Fwd!Refresh
  <2>2. copied' \in [Declared -> Nat]
    BY <1>0, <1>1 DEF Fwd!Refresh
  <2>3. DOMAIN extracted' = {}
    BY <2>1
  <2> QED BY <1>0, <2>1, <2>2, <2>3, FwdReplied
<1>2. ASSUME NEW a, Fwd!Build(a) PROVE Fwd!ForwarderInv'
  <2>1. extracted' = <<>> /\ before' = copied /\ UNCHANGED <<operation, provided, copied, next>>
    BY <1>2 DEF Fwd!Build
  <2>2. DOMAIN extracted' = {}
    BY <2>1
  <2>3. CASE Fwd!BuildError(operation, a) # None
    <3> DEFINE e == Fwd!BuildError(operation, a)
    <3>1. Fwd!Reply(e, FALSE)
      BY <1>2, <2>3 DEF Fwd!Build
    <3>2. e \in FwdCodes
      BY <1>0, <2>3, FwdErrors
    <3>3. e \notin {"ok", "secret_update_failed", "secret_not_allowed"}
      BY <3>2 DEF FwdCodes
    <3> HIDE DEF e
    <3> QED BY <1>0, <2>1, <2>2, <3>1, <3>3, FwdReplied
  <2>4. CASE Fwd!BuildError(operation, a) = None
    <3>1. request' = Fwd!OutboundRequest(operation, a) /\ at' = "send" /\ reply' = reply /\ todo' = todo
      BY <1>2, <2>4 DEF Fwd!Build
    <3>2. Fwd!RequestWellFormed'
      BY <1>0, <2>1, <2>4, <3>1, FwdOutbound DEF Fwd!RequestWellFormed, Fwd!ValidPathVariable
    <3>3. Fwd!WritesInv' /\ Fwd!RepliesTellWrites'
      BY <2>1, <2>2, <3>1 DEF Fwd!WritesInv, Fwd!RepliesTellWrites
    <3> QED BY <1>0, <2>1, <3>1, <3>2, <3>3, FwdGoesOn
  <2> QED BY <2>3, <2>4
<1>3. CASE Fwd!SendFails
  <2>1. /\ at = "send" /\ UNCHANGED <<operation, provided, copied, extracted, before, next>>
        /\ \E code \in {"outbound_unreachable", "response_too_large", "dropped"} : Fwd!Reply(code, FALSE)
    BY <1>3 DEF Fwd!SendFails
  <2>2. copied = before
    BY <1>0, <2>1 DEF Fwd!WritesInv
  <2> QED BY <1>0, <2>1, <2>2, FwdReplied
<1>4. ASSUME NEW M \in SUBSET DOMAIN operation.rules, NEW F, Fwd!Apply(M, F) PROVE Fwd!ForwarderInv'
  <2>1. /\ at = "send" /\ next' = next + Len(operation.rules)
        /\ UNCHANGED <<operation, provided, copied, before>>
        /\ IF M \subseteq F
           THEN /\ todo' = M /\ extracted' = [i \in M |-> next + i] /\ at' = "write"
                /\ UNCHANGED <<reply, request>>
           ELSE Fwd!Reply("rule_extraction_failed", FALSE) /\ extracted' = <<>>
    BY <1>4 DEF Fwd!Apply
  <2>2. copied = before /\ next' \in Nat
    BY <1>0, <2>1 DEF Fwd!WritesInv
  <2>3. CASE M \subseteq F
    <3>1. /\ todo' = M /\ extracted' = [i \in M |-> next + i] /\ at' = "write" /\ reply' = reply /\ request' = request
      BY <2>1, <2>3
    <3>2. DOMAIN extracted' = M /\ \A i \in DOMAIN extracted' : extracted'[i] \in Nat
      BY <1>0, <3>1
    <3>3. Fwd!Written({})'
      BY <2>1, <2>2 DEF Fwd!Written
    <3>4. DOMAIN extracted' \ todo' = {}
      BY <3>1, <3>2
    <3>5. Fwd!Written(DOMAIN extracted \ todo)'
      BY <3>3, <3>4
    <3>6. Fwd!WritesInv'
      BY <2>1, <3>1, <3>2, <3>4, <3>5 DEF Fwd!WritesInv
    <3>7. Fwd!RepliesTellWrites' /\ Fwd!RequestWellFormed'
      BY <2>1, <3>1, FwdRequestStays DEF Fwd!RepliesTellWrites
    <3> QED BY <1>0, <2>1, <2>2, <3>1, <3>6, <3>7, FwdGoesOn
  <2>4. CASE ~(M \subseteq F)
    <3>1. Fwd!Reply("rule_extraction_failed", FALSE) /\ extracted' = <<>>
      BY <2>1, <2>4
    <3>2. DOMAIN extracted' = {}
      BY <3>1
    <3> QED BY <1>0, <2>1, <2>2, <3>1, <3>2, FwdReplied
  <2> QED BY <2>3, <2>4
<1>5. ASSUME NEW i \in DOMAIN operation.rules, Fwd!Write(i) PROVE Fwd!ForwarderInv'
  <2> DEFINE K == DOMAIN extracted \ todo
  <2>1. /\ provided' = [provided EXCEPT ![operation.rules[i]] = extracted[i]]
        /\ copied' = [copied EXCEPT ![operation.rules[i]] = extracted[i]]
        /\ todo' = todo \ {i} /\ UNCHANGED <<operation, at, request, extracted, before, reply, next>> /\ Fwd!Turn(i)
    BY <1>5 DEF Fwd!Write
  <2>2. /\ at = "write" /\ i \in todo /\ i \in DOMAIN extracted /\ extracted[i] \in Nat
        /\ \A j \in K : j < i
        /\ Fwd!Written(K) /\ operation.rules[i] \in Declared
    BY <2>1, FwdTurn DEF Fwd!ForwarderAssumption
  <2>3. provided' \in [Declared -> Nat] /\ copied' \in [Declared -> Nat]
    BY <1>0, <2>1, <2>2
  <2>4. DOMAIN extracted' \ todo' = K \cup {i}
    BY <2>1, <2>2
  <2>5. ASSUME NEW s \in Declared
        PROVE  \/ {j \in K \cup {i} : operation.rules[j] = s} = {} /\ copied'[s] = before[s]
               \/ \E k \in {j \in K \cup {i} : operation.rules[j] = s} :
                     (\A j \in {j \in K \cup {i} : operation.rules[j] = s} : j <= k) /\ copied'[s] = extracted[k]
    <3>1. CASE operation.rules[i] = s
      <4>1. copied'[s] = extracted[i]
        BY <1>0, <2>1, <3>1
      <4>2. i \in {j \in K \cup {i} : operation.rules[j] = s}
        BY <3>1
      <4>3. \A j \in {j \in K \cup {i} : operation.rules[j] = s} : j <= i
        BY <1>0, <2>2
      <4> QED BY <4>1, <4>2, <4>3
    <3>2. CASE operation.rules[i] # s
      <4>1. copied'[s] = copied[s]
        BY <1>0, <2>1, <3>2
      <4>2. {j \in K \cup {i} : operation.rules[j] = s} = {j \in K : operation.rules[j] = s}
        BY <3>2
      <4>3. \/ {j \in K : operation.rules[j] = s} = {} /\ copied[s] = before[s]
            \/ \E k \in {j \in K : operation.rules[j] = s} :
                  (\A j \in {j \in K : operation.rules[j] = s} : j <= k) /\ copied[s] = extracted[k]
        BY <2>2 DEF Fwd!Written
      <4> QED BY <4>1, <4>2, <4>3
    <3> QED BY <3>1, <3>2
  <2>6. Fwd!Written(DOMAIN extracted \ todo)'
    BY <2>1, <2>4, <2>5 DEF Fwd!Written
  <2>7. \A j \in todo', k \in DOMAIN extracted' \ todo' : k < j
    <3>1. \A j \in todo' : j \in todo /\ i <= j /\ j # i /\ j \in Int
      BY <1>0, <2>1, <2>2 DEF Fwd!Turn, Fwd!WritesInv
    <3>2. \A j \in todo, k \in K : k < j
      BY <1>0, <2>2 DEF Fwd!WritesInv
    <3> QED BY <1>0, <2>2, <2>4, <3>1, <3>2
  <2>8. Fwd!WritesInv'
    BY <1>0, <2>1, <2>2, <2>6, <2>7 DEF Fwd!WritesInv
  <2>9. Fwd!RepliesTellWrites' /\ Fwd!RequestWellFormed'
    BY <2>1, <2>2, FwdRequestStays DEF Fwd!RepliesTellWrites
  <2> QED BY <1>0, <2>1, <2>3, <2>8, <2>9, FwdGoesOn
<1>6. ASSUME NEW i \in DOMAIN operation.rules, Fwd!WriteFails(i) PROVE Fwd!ForwarderInv'
  <2>1. /\ provided' = provided \/ provided' = [provided EXCEPT ![operation.rules[i]] = extracted[i]]
        /\ Fwd!Reply("secret_update_failed", FALSE) /\ Fwd!Turn(i)
        /\ UNCHANGED <<operation, copied, extracted, before, next>>
    BY <1>6 DEF Fwd!WriteFails
  <2>2. /\ i \in DOMAIN extracted /\ extracted[i] \in Nat /\ Fwd!Written({j \in DOMAIN extracted : j < i})
    BY <2>1, FwdTurn
  <2>3. provided' \in [Declared -> Nat]
    BY <1>0, <2>1, <2>2
  <2>4. Fwd!Written({j \in DOMAIN extracted : j < i})'
    BY <2>1, <2>2 DEF Fwd!Written
  <2>5. (\E k \in DOMAIN extracted : Fwd!Written({j \in DOMAIN extracted : j < k}))'
    BY <2>1, <2>2, <2>4
  <2> QED BY <1>0, <2>1, <2>3, <2>5, FwdReplied
<1>7. CASE Fwd!Respond
  <2>1. /\ at = "write" /\ todo = {} /\ Fwd!Reply("ok", operation.redact # TRUE)
        /\ UNCHANGED <<operation, provided, copied, extracted, before, next>>
    BY <1>7 DEF Fwd!Respond
  <2>2. Fwd!Written(DOMAIN extracted \ todo) /\ DOMAIN extracted \ todo = DOMAIN extracted
    BY <1>0, <2>1 DEF Fwd!WritesInv
  <2>3. Fwd!Written(DOMAIN extracted)'
    BY <2>1, <2>2 DEF Fwd!Written
  <2> QED BY <1>0, <2>1, <2>3, FwdReplied
<1>8. ASSUME NEW s \in Declared, Fwd!OperatorSets(s) PROVE Fwd!ForwarderInv'
  <2>1. /\ provided' = [provided EXCEPT ![s] = next + 1] /\ next' = next + 1
        /\ UNCHANGED <<operation, copied, at, request, todo, extracted, before, reply>>
    BY <1>8 DEF Fwd!OperatorSets
  <2>2. provided' \in [Declared -> Nat] /\ next' \in Nat
    BY <1>0, <2>1
  <2>3. Fwd!WritesInv' /\ Fwd!RepliesTellWrites' /\ Fwd!RequestWellFormed'
    BY <2>1, FwdStays
  <2> QED BY <1>0, <2>1, <2>2, <2>3, FwdGoesOn
<1>9. CASE UNCHANGED Fwd!vars
  <2>1. UNCHANGED <<operation, provided, copied, at, request, todo, extracted, before, reply, next>>
    BY <1>9 DEF Fwd!vars
  <2>2. Fwd!WritesInv' /\ Fwd!RepliesTellWrites' /\ Fwd!RequestWellFormed'
    BY <2>1, FwdStays
  <2> QED BY <1>0, <2>1, <2>2, FwdGoesOn
<1> QED BY <1>1, <1>2, <1>3, <1>4, <1>5, <1>6, <1>7, <1>8, <1>9 DEF Fwd!Next

-----------------------------------------------------------------------------
(* The tools, the names and the forwarder by themselves *)

\* A live tool process is recorded or in the hands of a command, unless something died or both
\* its record and its cleanup failed; a tool that is wanted stays recorded while nothing dies;
\* SPS holds approved declarations only: for any number of pids, tools, declarations, operators,
\* failures and crashes (toolyard/cli.py, admin/toolyard_ops.py, admin/reconciler.py).
THEOREM ToolyardInvHolds ==
  ASSUME Yard!ToolyardAssumption
  PROVE  Yard!Spec => []Yard!ToolyardInv
  BY YardInit, YardNext, YardStutter, PTL DEF Yard!Spec

\* A name from a listing submits the operation it stood for, while that is registered and
\* permitted and no other registered one has that name, and nothing is revealed of what was
\* never listed and may not be used: in every catalog, with ids of any form (broker/mcp.py,
\* client/mcp_server.py).
THEOREM McpInvHolds ==
  ASSUME Face!McpAssumption
  PROVE  Face!Spec => []Face!McpInv
  BY FaceInit, FaceNext, PTL DEF Face!Spec

\* An operation that loads is never refused for the place of its secrets, its requests are well
\* formed, its replies tell which secrets were written, and rotated ones stay private: for
\* every operation and rule, every caller's arguments and every loss of a write
\* (toolstack_forwarder).
THEOREM ForwarderInvHolds ==
  ASSUME Fwd!ForwarderAssumption
  PROVE  Fwd!Spec => []Fwd!ForwarderInv
  BY FwdInit, FwdNext, PTL DEF Fwd!Spec

=============================================================================
