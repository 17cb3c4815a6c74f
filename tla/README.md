# Toolstack, specified in TLA+

Toolstack lets software agents call tools on a person's behalf. An agent sends an
action to the *broker*; a per-caller policy allows it, denies it, or sends it to a
human for review; the broker calls the tool and keeps a receipt. Around the broker,
*toolyard* starts and stops tools, *SPS* hands them their secrets, and an *admin*
application supervises all of it. This directory models the parts where the order of
events matters, checks them with TLC on small instances, and proves the most important
results with TLAPS for every instance.

Every definition that models code is listed in `PROJECT.json` under `map`, with the
lines it stands for.

## 1. The system

### 1.1 Parts, their state and their operations

| Part | State | Operations | What must hold |
| --- | --- | --- | --- |
| Request lifecycle (`broker/request_lifecycle.py`, `gateway.py`) | none of its own: it drives the rows below | `submit`, `resolve_request`, `execute_request`, `sweep_expired` | one effect at most per request; what runs was allowed or approved; the receipt tells the truth |
| HTTP server (`broker/server.py`) and MCP endpoint (`broker/mcp.py`) | the connection being served | read, route, answer; list tools, resolve names | one answer; nobody starves; the operation that was listed is the one that is called |
| Store (`broker/store.py`) | SQLite: callers, tokens, policies, requests, approvals, audit | `reserve_action`, `claim_received`, `claim_approval`, `finish_pending`, `_write_policy`, reconcile, prune, backup | revocation and policy changes win until the commit point; the two rows of a request agree |
| Operators (`broker/operations.py`, `brokerctl.py`, the admin API) | none: processes of their own, on the same database | issue, rotate, revoke tokens; revoke callers; set policies; sweep; reconcile; reload | what they end stays ended; nothing is lost between two of their transactions |
| Catalog (`broker/registry.py`, `server.py`) | the loaded manifests, and the files they came from | load, lookup, SIGHUP reload | the operation that runs is the one that was bound and shown |
| Runtime (`broker/runtime.py`, `bounds.py`) | none | one HTTP, REST or MCP call under a deadline and a byte budget | "not dispatched" is claimed only when that is certain |
| Approval surface (`broker/surface_nod.py`, `approval*.py`) | cards in *nod*, an outside service | open, poll, cancel | only an explicit approval counts, and only before the broker's deadline |
| Policy (`broker/policy.py`) | none | `decide` | default deny |
| Rate limiter (`broker/ratelimit.py`), login guard and sessions (`admin/loginguard.py`, `auth.py`) | counters per window | allow, fail, reset | no more than the limit per window; a lockout ends |
| Tool runner (`toolyard/runner.py`, `cli.py`) | `state.json`, `channels.json`, processes or containers | start, stop, list, re-register | a recorded tool is one that runs or will be restarted; no process is forgotten |
| Secrets provider (`sps/`) | registrations in memory, secrets in a backend | register, fetch, write, ping | a tool gets its own secrets only; a restart forgets registrations and says so by its boot id |
| Supervision (`admin/supervisor.py`, `reconciler.py`, `sps_watchdog.py`) | a pid file, the last boot id seen | start, stop, probe, reconcile, re-register | no foreign process is signalled; after an SPS restart every running tool is registered again |
| Admin edits (`admin/policy_edits.py`, `caller_settings.py`) | drafts with the version they were read at | compare-and-set writes | no edit overwrites one it has not seen |
| Run configuration (`admin/broker_config.py`, `operator_audit.py`) | `broker.toml` | save, register and unregister a tool folder | no change without a record that names it |
| Tool folders and manifests (`admin/tool_sources.py`, `tool_authoring.py`, `manifest_files.py`) | `tools_root/<id>` with its source | add, update, edit, remove | no half tool is seen, no edit is lost; what is accepted loads |
| Catalog observation (`admin/catalog_observation.py`) | a receipt in the database, an id on the health page | observe | what is certified is loaded |
| REST forwarder (`toolstack_forwarder/`), egress proxy (`toolyard/egress_proxy.py`, `netguard.py`) | configuration | match a rule, build a request, allow a destination | nothing outside the rules leaves |
| Agent client (`client/`) | one request id | submit, poll until final | it stops at a final answer and at no other |
| Admin views, OpenAPI import, desktop and mac shells, deployment | | | no ordering of their own |

### 1.2 How they interact, and what is hard

The broker is one single-threaded process on one SQLite connection. That removes races
between two HTTP requests and leaves these:

* **Operators commit between any two of its transactions.** `brokerctl` and the admin
  application open the same database. A caller, a token or a policy may change after it
  was checked and before it matters.
* **Slow calls in the middle of a request.** Opening and polling a card and calling the
  tool are network calls; what was read before them is stale after them.
* **A signal in the middle of a statement sequence.** SIGHUP reloads the catalog from a
  Python signal handler, on the same connection.
* **A human answers whenever.** The card may be approved, rejected, dismissed, expired or
  withdrawn at any time; the broker's own deadline must win.
* **The process dies.** Nothing is resumed on restart; an operator may reconcile offline.
* **Agents retry.** With an idempotency key, after anything.
* **There is no background worker.** Deadlines are enforced by whoever comes next.

Around it, each part has its own:

* **The admin panel is one event loop and one worker thread.** Handlers interleave only at
  an `await`, the worker with all of them; what a handler loaded before it hands over is
  stale on the worker.
* **Several processes share files**: `state.json`, `channels.json`, the pid file,
  `broker.toml`, the vault, the audit log of SPS. Locks cover some of these, atomic renames
  others, and a process may die between any two steps.
* **Processes die, linger and leave their pids to others**, SPS forgets its registrations
  when it restarts, and the reconciler and the watchdog repair while operators act.
* **Timers run beside what they bound**: the egress proxy's and the server's deadlines, the
  login throttle, the rate limit's window under a clock that may be set back.

The full list, line by line, is `PROJECT.json`'s `hazards`.

## 2. The modules

| Module | Models |
| --- | --- |
| `Policy` | `decide` and `_norm` as operators |
| `Broker` | the request lifecycle, the store's transactions, the catalog, the surface, operators, failures |
| `BrokerProofs` | theorems about `Broker`: one call at most, honest receipts, the bound generation; what an agent and an auditor see (the refinement to `Receipt`, final receipts and answers, the audit trail); the way to the commit point (ownership, authority, the approval row, the human's decision) |
| `StorageProofs` | lemmas about `ClaimTxn`, `Backup`, `NetGuard`, `Toolyard`, `Forwarder`, `Mcp`, `Vault`, `Sps` and `AuditLog` |
| `PanelProofs` | lemmas about `Sessions`, `LoginGuard`, `RunConfig`, `CallerEdits`, `ToolSources`, `Manifest`, `CatalogView` and `Supervisor` beside its pages and through restarts |
| `ProgressProofs` | lemmas and theorems about `Egress`, `ToolCall`, `Ingress`, `RateLimit`, `Client`, `ChannelView` and `Supervisor` |
| `MCPanelProofs`, `MCToolsProofs`, `MCSecretsProofs`, `MCProgressProofs` | those results as theorems about the specifications the runs check |
| `Receipt` | the abstract contract: a request is accepted, committed, called once at most, and ends with one truthful verdict |
| `BrokerReceipt` | the refinement mapping from `Broker` to `Receipt` |
| `ClaimTxn` | the commit points of the store statement by statement, with the write lock and SIGHUP |
| `ToolCall` | one execution of the runtime: exchanges, shared deadline and byte budget |
| `Ingress` | the serial HTTP server: connections, read and write deadlines, the audit of failures |
| `Mcp` | MCP listing and name resolution, at the broker and in the stdio adapter |
| `RateLimit`, `ChannelView` | the limiter's windows; the cache of `channels.json` |
| `Backup` | `backup_to`, `restore_new`: staging, publication by hard link, racing and dying |
| `CatalogView` | reload, its receipt, and the panel's observation of both |
| `CallerEdits` | operators who edit one caller, statement by statement |
| `Client` | the agent's client, composed with the contract of `Receipt` as its broker |
| `Toolyard` | start, stop, restart, remove; the reconciler, the watchdog and SPS's registrations |
| `Sps` | the secrets provider: admission, handlers, audit, replies, and the SDK's cache |
| `Vault`, `AuditLog` | SPS's vault file; the rotation of its audit log |
| `Egress`, `NetGuard` | the egress proxy; the cgroup and nftables guard |
| `Forwarder` | the REST forwarder: loading, building, sending, writeback, redaction |
| `Supervisor` | the broker process, its pid file, health and signals |
| `Sessions`, `LoginGuard` | admin sessions and their revocation; the login throttle |
| `RunConfig` | `broker.toml` and the audit records around its changes |
| `ToolSources` | one tool's folder under adds, updates, removals and edits |
| `Manifest` | one manifest through normalisation, validation, serialisation and three loaders |
| `MCBroker` | values for the constants of `Broker` |
| `MCPanel`, `MCTools`, `MCSecrets`, `MCProgress` | instances of the other components, their properties and, in `MCProgress`, the fairness. The parameters of the components that are proved about are constants of these modules too, with values in the `.cfg` |
| `OneOf` | what those four share: one component of several runs |

How they compose: `Broker` extends `Policy`; `BrokerReceipt` maps it onto `Receipt`, and
`Client` runs against a broker that keeps that contract. `ClaimTxn` opens one step of
`Broker`, `ToolCall` its `Dispatch`, `Ingress` what surrounds its handler. `Toolyard` holds
the runner, the panel, both repair threads and SPS's registrations in one state, because
the hazards are between them; `Sps` opens what a registration or a fetch is inside SPS.

Parts that the code keeps apart are checked side by side. `MCPanel`, `MCTools`, `MCSecrets`
and `MCProgress` instantiate a component, sometimes twice, with the constants that suit a
question, and put its variables into the shared `v1`, `v2`, ... of `OneOf`; `comp` says
whose behaviour it is and never changes. A state of such a run is a state of one component,
so that its size is the sum of the components' and not their product, and
`comp = "vault" => Va!VaultCurrent` is `VaultCurrent` of `Vault` on that instance. An action
property of a component is an action formula there and `[][...]_all` here; a component's
progress is stated in `MCProgress` over the predicates the component names for it. A
property of these runs is one promise, to which each component that takes part in it
contributes a named part: `OutcomesHonest` is what the runtime, the server and the client
each owe to "what is reported of an action is true".

### 2.1 Broker

**State.** The database is one variable per column that a decision reads: `revoked`,
`tok`, `policy`, and per request `req` (the columns `reserve_action` writes once: caller,
action, key, payload, generation, policy binding), `status`, `kept` (the private payload
is present), `app` and `expires` (its approval). `disk` and `loaded` are the manifest
files and the catalog made from them; a manifest is its *generation*, the digest the
registry computes. `card` and `decidedAt` are nod's side. `effects` records every call
that reached a tool, `told` the last answer an agent got about a request, `events` the
terminal `request.*` audit events. `pc` and `h` are the handler: where it is, and its
local variables.

**Steps.** A step of the handler is one transaction, one surface call or one tool call;
what lies between two of them cannot be seen from outside. `POST /v1/actions` is
`SubmitStart`, `SweepList`, `SweepRow`*, `SweepDone`, `SubmitLookup`, one of `Reserve*`,
then `SubmitEnds` or `SubmitDecides`; an allowed request goes on with `LookupAgain`,
`ClaimReceived`, `Dispatch`, `RecordResult`; a reviewed one with `OpenCard` (or
`OpenFails`), `CreateApproval`, `MarkPending`. `GET /v1/requests/<id>` is `PollStart`,
`Authorize`, `Resolve`, `SurfacePoll`, `AfterPoll`, then `FinishAnswered` or `LookupAgain`,
`ClaimApproval`, `Dispatch`, `RecordResult`, and `Authorize` again. Both end in `Respond`.
The MCP endpoint calls the same `submit` with the same audit helper.

Operators' steps are the transactions of `operations.py`: `rotate_token` is `RotateAdd`
then `RotateRevoke`; `revoke_token` is `RevokeToken`, `CountTokens`, `CancelList`,
`CancelRow`*; `revoke_caller` joins it at `CancelList`.

**Abstractions.** A policy is a record (`Policy`), a payload a model value. The REST
envelope check is a set of (manifest, payload) pairs that fail it. A request refused
before it touches the store (malformed body or key, unknown path, rate limit) has no step.
Two reads in a row of rows that only this process could have changed in between are one
step. `time.time()` read just before `BEGIN IMMEDIATE` is any value of the last `LockWait`
ticks, since that statement waits for the lock. A tool that returns an error status was
called; a refused connection (`NotDispatched`) was not; anything else leaves it open, and
the model takes both.

**Failures.** `Crash` at any point, `InternalError` (an exception the HTTP layer turns into
500), `Start` (nothing is resumed), `ReconcileOffline` (only while the broker is down, as
the command's flag asserts).

### 2.2 ClaimTxn

`Broker` takes a commit point as one step because it runs under `BEGIN IMMEDIATE`.
`ClaimTxn` opens that step: rows, authority and policy are read one after the other, the
two rows written one after the other, the lock is a variable, and operators commit when
they can get it. `Sighup` is the catalog reload: `set_catalog_receipt` uses
`with self._conn`, which commits whatever that connection has open.

### 2.3 The other modules

What each leaves out, where it is not in the module's own header:

* **Toolyard.** A lifecycle command holds the flock of `state_lock`, so one `job` is under
  way; the reconciler and the watchdog take their own lock around it. A process is its
  birth (boot and start time). A process whose command died before it was recorded, or
  whose record and cleanup both failed (`UnrecordedRuntimeError`, or the save of `cmd_up`
  after an unconfirmed cleanup), is in `lost`. A restore
  from a stale snapshot can also put back declarations an Edit replaced; approval of both
  is the same operator's, so `GrantsApproved` covers them. Containers and sandboxes differ
  from processes in their command lines only and are not told apart.
* **Sps, Vault, AuditLog.** TLS, framing and encryption are taken to work; a connection
  carries one request. `Vault` keeps the salt of an envelope, since a worker's object reads
  it once and `init-vault --force` changes it.
* **Supervisor.** A pid is not reused within one call of the supervisor; a failing `ps` and
  a crash before the pid is written are in `lost`.
* **CallerEdits.** A tool has one operation. Editors are processes; each of their
  transactions is a step.
* **Sessions, LoginGuard.** Signatures and hashes are unforgeable. Instants are even and
  windows odd, since two readings of the clock are never exactly a window apart.
* **RateLimit, ChannelView.** Every replacement of `channels.json` has its own modification
  time (nanoseconds).
* **ToolCall.** A tool answers only after it has acted; bytes count, their content is
  whether a response matches.
* **Egress, NetGuard.** Resolution and connecting are steps of any duration. The runner
  does not call `netguard` at this commit: the module checks it as its docstring describes
  its use.
* **Forwarder.** Paths, headers and bodies are members of small sets of shapes; the
  extraction languages give a value, nothing, or an error. Its loader is the one `Manifest`
  leaves to it.
* **Backup.** The restored path is opened by a broker only after `restore-new` is done. A
  command killed between link and unlink leaves a file with two links that the store
  refuses until the stage is removed. The audit record of a backup is not part of it.
* **CatalogView.** A fingerprint leaves out manifest digests, so catalogs differ in what
  the fingerprint sees.
* **ToolSources.** One folder; a version stands for its files. What an edit records for
  approval is in `Toolyard`.
* **Manifest.** One operation, one secret, and one value per outcome of a check. The
  escaping of strings is taken to round-trip. The editor does not know `[sandbox] egress`
  and drops it (`ToToml`).
* **RunConfig.** The audit is the set of what its records name. Other admin processes and
  edits by hand are left out.
* **Client.** Its broker is `Receipt`'s; requests may be lost on the way in or back.

## 3. What is checked

All runs: `tlc -config <cfg> <module>`. **V** marks a run whose property is violated:
section 5.

| Run | Shows | Instance |
| --- | --- | --- |
| `revocation` (`MCBroker`) | `TerminalStable`, `AuthorityAtCommit`, `AnswersStable`: A reviewed request against every interleaving of revoking its caller, revoking and rotating its tokens, cancelling its approval, its deadline, and retries with its key, which sweep. | one request, one key, two tokens, review policy |
| `policy_change` (`MCBroker`) | `LifecycleInv`, `ReviewedExecution`, `RowsAgree`, `AuditAgrees`, `KeepsContract`: A request whose policy is rewritten, at any point, among allow, review and deny, with writers that wait for the lock across the deadline and one crash or internal error; every step of the broker is one that the abstract receipt allows, or a stutter. | one request, all three policies, `LockWait` 1, one fault |
| `catalog` (`MCBroker`) | `BoundExecution`: A request whose tool is edited, removed and reloaded at any point. | one request, two manifests |
| `replay` (`MCBroker`) | `LifecycleInv`, `AtMostOnce`, `HonestReceipt`: Two rows, one idempotency key, two payloads: retries of a request through two crashes, restarts and offline reconciliations. | two rows, one key, two payloads (one failing the envelope check), two faults |
| `liveness` (`MCBroker`) | `ParkedResolves`, `AcceptedSettles`: Under the fairness of the handler, the clock and somebody's sweep, no request waits for ever. | one request, allow and review, one fault |
| **V** `audit_trail` (`MCBroker`) | `EveryOutcomeAudited`: A parked request that a policy change ends has no terminal event. | one request |
| **V** `claim_txn_reload` (`ClaimTxn`) | `RevocationWins`: One SIGHUP inside claim_approval commits its transaction early, and a cancelled request is then claimed. | one request, one SIGHUP |
| **V** `toolyard_intent` (`Toolyard`) | `StopStays`: The reconciler puts back the record of a tool an operator stopped after its snapshot. | one tool, two pids, no fault |
| `panel` (`MCPanel`) | The admin panel's components one by one: sessions, login throttle, run configuration, edits of callers, tool sources, manifests, catalog observation and the supervision of the broker process keep their promises through overlapping requests, other admin processes, failures and restarts. | below |
| `tools` (`MCTools`) | The tool runner with its reconciler and watchdog, the network guard, backup and restore, the commit points statement by statement, the REST forwarder and the MCP names: no forgotten or foreign process, no unapproved grant, no replay from a restored database, no half committed request, no secret beyond the allowed ones, no call of another operation than the one listed. | below |
| `secrets` (`MCSecrets`) | The secrets provider, its vault and its audit log: values go only to registered processes of their tools, nothing succeeds unaudited, no write is lost, through concurrent connections, failing backends and crashes. | below |
| `progress` (`MCProgress`) | What must come to an end does, under the fairness of threads, timers and the clock: reconciliation, re-registration with SPS, connections of SPS, broker and egress proxy, tool calls, commands of the supervisor and of the agent client, refusals of the rate limit; with the safety of the parts that only occur here. | below |

The four composed runs, component by component. Every action of a component occurs in at
least one of its instances.

| Run | Component | Instance | Properties |
| --- | --- | --- | --- |
| `panel` | `Sessions` (`sessions`) | `Requests` 2, `MaxSessions` 2, `MaxResets` 1, `MaxRevoked` 1, `TTL` 1, `MaxTime` 2 | `AccessClosed`: `ClosedOnNextRequest`, `SessionsInv` (with `TypeOK`) |
| `panel` | `LoginGuard` (`login`) | `Ips` 2, `Slots` 2, `MaxPerIp` 2, `Lockout` 3, `GlobalMax` 3, `GlobalWindow` 3, `MaxTime` 6, `MaxFails` 4 | `AccessClosed`: `PerIpBound`, `LoginInv` (with `TypeOK`) |
| `panel` | `RunConfig` (`config`) | `Handlers` 2, `Workers` 0, `Tools` 1 | `EditsAsSeen`: `TokenKept`, `FieldsNamed`; `ChangesAnnounced`: `SavesInv`, `LoopInv` |
| `panel` | `RunConfig` (`config_remove`) | `Handlers` 1, `Workers` 1, `Tools` 1 | `ChangesAnnounced`: `NoSilentChange`, `SavesInv` |
| `panel` | `CallerEdits` (`settings`) | `Editors` 2, `Tools` 2, `Ops` {settings, form, policy, tools, revoke, revoke_token}, `MaxEdits` 3, `MaxTokens` 1, `MaxCatalog` 1, `MaxCrashes` 1 | `ChangesAnnounced`: `CommitsAudited`, `EditsInv` (with `TypeOK`); `EditsAsSeen`: `SettingsSeen`, `DisablingRevokes` |
| `panel` | `CallerEdits` (`tokens`) | `Editors` 2, `Tools` 2, `Ops` {create, create_with, rotate, issue, revoke}, `MaxEdits` 5, `MaxTokens` 5, `MaxCatalog` 0, `MaxCrashes` 1 | `EditsAsSeen`: `NeverTokenless`; `ChangesAnnounced`: `TokensInv` |
| `panel` | `ToolSources` (`sources`) | `Workers` 2, `MaxJobs` 3, `MaxEdits` 1, `MaxVersion` 2, `MaxCrashes` 1 | `ToolFolderKept`: `NothingLost`, `OneAtATime`, `WholeWhenSeen`, `SourcesInv` |
| `panel` | `Manifest` (`manifest`) | `Runner` process, `MaxChanges` 3 | `ManifestsAgree`: `ManifestInv` (with `RunnerAccepts`, `RoundTrip`, `RiskFollowsVerb`) |
| `panel` | `CatalogView` (`catalog`) | `Catalogs` 2, `MaxEdits` 3, `MaxReloads` 2, `MaxStarts` 2, `MaxDepth` 1 | `CatalogCertified`: `CertifiedIsLoaded`, `FailedReloadUncertified`; `BrokerOwned`: `CatalogInv` |
| `panel` | `Supervisor` (`adopt`) | `Pids` 3, `MaxSpawns` 3, `MaxCrashes` 1, `MaxReuse` 1, `MaxRestarts` 1, `MaxFaults` 1, `Polls` FALSE | `BrokerOwned`: `Recorded`, `RecordInv` (with `TypeOK`) |
| `panel` | `Supervisor` (`pages`) | `Pids` 2, `MaxSpawns` 2, `MaxCrashes` 1, `MaxReuse` 1, `MaxRestarts` 1, `MaxFaults` 1, `Polls` TRUE | `BrokerOwned`: `NoForeignSignal`, `SignalInv` (with `TypeOK`) |
| `tools` | `Toolyard` (`stop`) | `StopCase`: `Tools` 1, `Pids` 2, `Callers` 1, `Ops` {start, stop}, `MaxBorn` 2, `MaxSps` 1, `MaxFaults` 1, `MaxCrashes` 1 | `ToolsAccountedFor`: `ToolyardInv` (with `TypeOK`, `NoForgottenProcess`, `GrantsApproved`); `NoForeignSignal` |
| `tools` | `Toolyard` (`recover`) | `RecoverCase`: `Tools` 1, `Pids` 2, `Callers` 1, `Ops` {start, restart, remove}, `MaxBorn` 1, `MaxSps` 2, `MaxFaults` 0, `MaxCrashes` 0 | `ToolsAccountedFor`: `ToolyardInv` (with `IntentKept`, `GrantsApproved`) |
| `tools` | `NetGuard` (`netguard`) | `Launches` 3 | `Confined`: `Confined`, `GuardInv` |
| `tools` | `Forwarder` (`forwarder`) | `MaxCalls` 2, `MaxValue` 2 | `ForwardsAsDeclared`: `ForwarderInv` (with `RequestWellFormed`, `LoadedOpsUsable`, `RepliesTellWrites`, `RotationPrivate`) |
| `tools` | `Backup` (`backup`) | `Procs` 2, `MaxRuns` 3, `MaxCrashes` 1 | `RestoreSafe`: `NeverReplayed`, `RestoredWhole`, `BackupInv`; `NeverOverwritten` |
| `tools` | `ClaimTxn` (`claim`) | `Reloads` 0 | `ClaimAtomic`: `TypeOK`, `NoLeakedTransaction`, `ClaimInv` (with `RowsTogether`); `RevocationWins`: `ClaimIsCurrent` |
| `tools` | `ClaimTxn` (`claim_reload`) | `Reloads` 2 | `ClaimAtomic`: `TypeOK`, `NoLeakedTransaction` |
| `tools` | `Mcp` (`mcp`) | `Ops` CatalogOps, three operations of which two have one name, `MaxSteps` 3 | `NamesHold`: `McpInv` (with `RunsWhatWasListed`, `HidesUnlisted`, `MapSound`) |
| `secrets` | `Sps` (`release`) | `Tools` 2, `Esecrets` 3, `Ops` {register, unregister, get_secrets}, `Conns` 2, `MaxWorkers` 2, `MaxCalls` 3, `MaxFaults` 0 | `SecretsGuarded`: `TypeOK`, `ReleasesAllowed` |
| `secrets` | `Sps` (`writes`) | `Tools` 1, `Esecrets` 1, `Ops` {register, get_secrets, get_secret, write_secret}, `Conns` 2, `MaxWorkers` 2, `MaxCalls` 3, `MaxFaults` 1 | `SecretsGuarded`: `ReleasesAllowed`, `FailClosed`, `SpsInv` (with `TypeOK`, `CacheReal`) |
| `secrets` | `Sps` (`workers`) | `Tools` 1, `Esecrets` 1, `Ops` {ping}, `Conns` 3, `MaxWorkers` 2, `MaxCalls` 3, `MaxFaults` 1 | `WorkersCounted`: `TypeOK`, `SlotsConserved`, `NotOvercounted` |
| `secrets` | `Vault` (`vault`) | `Fields` 2, `Servers` 2, `Commands` 1, `MaxSets` 2, `MaxInits` 2, `MaxCrashes` 1 | `VaultCurrent`: `TypeOK`, `NoLostSet`, `ReadsLatest`, `VaultInv` |
| `secrets` | `AuditLog` (`audit`) | `MaxBytes` 3, `Generations` 3, `MaxEvents` 16, `MaxFaults` 2 | `LogKept`: `LogInv` (with `Bounded`, `NoHoles`, `RecentKept`) |
| `progress` | `Toolyard` (`watch`) | `Tools` 1, `Pids` 2, `Callers` 1, `Ops` {start}, `MaxBorn` 1, `MaxSps` 2, `MaxFaults` 0, `MaxCrashes` 0 | `Repairs`: `ServedAgain`, `ReconcileEnds` |
| `progress` | `Sps` (`workers`) | `Tools` 1, `Esecrets` 1, `Ops` {ping}, `Conns` 2, `MaxWorkers` 1, `MaxCalls` 3, `MaxFaults` 1 | `WaitsEnd`: `CallsEnd` |
| `progress` | `ChannelView` (`view`) | `Secrets` 2, `MaxWrites` 4, `MaxFails` 2 | `EvidenceFresh`: `NeverStale`, `ViewInv`; `Repairs`: `CatchesUp` |
| `progress` | `Egress` (`egress`) | `Conns` 2, `Slots` 1, `MaxAddrs` 2, `MaxResponse` 2, `MaxChunk` 2 | `LimitsHold`: `EgressInv` (with `TypeOK`); `NothingAfterExpiry`; `WaitsEnd`: `SlotReturned` |
| `progress` | `Ingress` (`ingress`) | `Conns` 2, `MaxHeader` 2 | `OutcomesHonest`: `AnsweredOnce`, `ExecutedIsKnown`, `IngressInv`; `WaitsEnd`: `QueueMoves` |
| `progress` | `ToolCall` (`call`) | `Budget` 4 | `OutcomesHonest`: `EvidenceHonest`, `CallInv`; `LimitsHold`: `BudgetShared`; `WaitsEnd`: `ExecutionEnds` |
| `progress` | `Supervisor` (`own`) | `Pids` 3, `MaxSpawns` 2, `MaxCrashes` 1, `MaxReuse` 1, `MaxRestarts` 0, `MaxFaults` 1, `Polls` FALSE | `EvidenceFresh`: `TypeOK`, `HealthyIsRecorded`, `OwnInv`; `WaitsEnd`: `CommandsEnd` |
| `progress` | `RateLimit` (`rate`) | `Callers` 1, `Limit` 2, `Window` 3, `MaxReal` 7, `MaxBack` 2 | `LimitsHold`: `BurstBound`, `RateInv`; `WaitsEnd`: `NeverStuck` |
| `progress` | `Client` (`client`) | `Requests` 2, `Keys` 1, `MaxCalls` 2 | `OutcomesHonest`: `SuccessIsTrue`, `LostIsUnknown`, `ClientInv`; `WaitsEnd`: `WaitEnds` |

**Bounds and why they are enough.** In `Broker`, requests interact only through a shared
idempotency key (`replay` has two rows for that) and through the sweep, which treats each
row on its own; one row per run is enough elsewhere, and everything else is proved or
quantified per row. `TTL` is one tick and the clock may always pass a pending deadline
(`Tick`), so "before", "at" and "after" the deadline all happen, with a lock wait across it.
Two tokens let a caller keep one when the other is revoked. Two manifests and their absence
give a generation that changes, changes back and disappears. Two faults give a crash during
recovery from another.

Elsewhere the rule is the same: two of whatever can race (editors, connections, workers,
commands, requests), one more of whatever is handed on (a third generation of a log, a third
pid or token to be given away, a second boot of SPS during a repair of the first), and one
or two faults, so that one can fall into the recovery from the other. Limits (`Slots`,
`MaxWorkers`, `MaxRevoked`, `MaxPerIp`, `Budget`, `MaxBytes`) are small enough to be reached
and passed. `Manifest` changes up to three fields of a plain manifest, since its checks
relate at most three. `Forwarder` takes every operation of a family that holds each shape
its checks tell apart, with up to two rules in both orders. Symmetry is used on model values
with the same properties, in runs without liveness.

**Fairness.** Only what the code's own threads and timers do is fair.

* `liveness`: the handler's thread runs, and each of its calls is bounded by a timeout
  (`bounds.py`, nod's and the tool's), hence `WF(HandlerStep)`; time passes, `WF(Tick)`; and
  since the broker has no background worker, somebody runs `brokerctl sweep` or submits,
  `WF(OperatorSweep(r))`. No fairness is assumed of humans, agents, operators' other commands,
  restarts or reconciliation; `ParkedResolves` therefore also covers a revoked caller and a
  broker that stays down, while `AcceptedSettles` holds only up to the first fault: a row that
  a crash leaves received or executing stays so until an operator reconciles.
* `progress`, tool lifecycle: the command under way goes on and SPS comes back (weak); the reconciler
  and the watchdog poll for ever, and are not starved of a lock that is free again and again
  (strong). Operators and failures are not fair.
* `progress`, supervisor: the worker thread runs, and a process that was sent SIGKILL ends.
* `progress`, SPS, proxy, server, tool call and client: threads run, and socket timeouts,
  timers and deadlines fire. Peers are not fair: they may never send, answer or read.
* `progress`, channel view and rate limit: the broker goes on serving, and real time passes.

The inductive invariants of the proofs (the definitions whose names end in `Inv`; section 4)
are checked on the same instances as what they are for.

Every property has a mutant: an operator marked *Mutant* in front of a definition, which
changes that definition the way a plausible mistake would and makes TLC find the property
violated.

## 4. What is proved

The theorems hold for every value of the constants: any callers, tokens, tools, policies,
manifests, keys, payloads, requests, sessions, connections, workers, fields, rules,
generations, launches, pids and commands, any limits and any number of faults. What they assume of the constants is named: the `ASSUME`s of
`Broker` (tokens have owners, `None` is none of the other values, bounds are naturals), and
one assumption per component proved about, `ReloadsAssumption` of `ClaimTxn` and otherwise
the component's name followed by `Assumption`: names that differ do differ, limits are natural
or positive, connections are finitely many. The `ASSUME` of each MC module states them of its
instances, so that TLC evaluates them too.

| Module | Theorem | States |
| --- | --- | --- |
| `BrokerProofs` | `InvHolds`, `TypeCorrect` | `Spec => []Inv`, `Spec => []TypeOK` |
| | `AtMostOnceHolds` | a request calls its tool once at most, and a key names one request |
| | `HonestReceiptHolds` | neither rows nor answers contradict whether the tool was called |
| | `BoundExecutionHolds` | what is called is the generation bound at reservation |
| | `KeepsContractHolds` | `Broker` implements `Receipt` |
| | `TerminalStableHolds` | a final receipt stays (a result may be pruned) |
| | `AnswersStableHolds` | a final answer is never contradicted by a later one |
| | `AuditAgreesHolds` | one terminal event at most, and it says what the row says |
| | `AuthorityAtCommitHolds` | a request starts to execute only under live authority and its own policy |
| | `RowsAgreeHolds` | the request row, the approval row and the payload tell one story |
| | `ReviewedExecutionHolds` | what reaches a tool was allowed, or approved on its own card in time |
| | `LifecycleInvHolds` | all the inductive invariants together |
| `MCToolsProofs` | `ClaimAtomicHolds` | the rows agree for other connections while no SIGHUP arrives; with any number of them no transaction is left open |
| | `RevocationWinsHolds` | a claim is current when it commits; from `Reloads = 0` |
| | `RestoreSafeHolds` | nothing of a snapshot is executed again; a restored file is finished and audited |
| | `NeverOverwrittenHolds` | a published file changes only by a broker that opened it |
| | `ConfinedHolds` | a tool runs under the rules of its own launch alone |
| | `ToolsAccountedForHolds` | a live tool process is recorded or in a command's hands; intent and grants are kept |
| | `NoForeignSignalHolds` | a stop never signals a process that was given the pid of a recorded one |
| | `ForwardsAsDeclaredHolds` | requests carry allowed secrets only, and replies tell which were written |
| | `NamesHoldHolds` | a listed name runs what it stood for; what may not be used looks unknown |
| `MCSecretsProofs` | `VaultCurrentHolds` | no set is undone, and a read returns the last one |
| | `SecretsGuardedHolds` | values are released, logged and cached as the provider promises |
| | `WorkersCountedHolds` | permits add up, and no rejection is summarised twice |
| | `LogKeptHolds` | the audit log stays bounded and ordered and forgets from its old end only |
| `MCPanelProofs` | `AccessClosedHolds` | a closed session opens no later request; wrong passwords are bounded |
| | `ChangesAnnouncedHolds` | no configuration or policy changes without its audit event |
| | `ToolFolderKeptHolds` | a tool the operator was told of exists whole somewhere |
| | `ManifestsAgreeHolds` | what the panel writes the runner loads, and saving it again changes nothing shown |
| | `BrokerOwnedHolds` | the broker that runs is the recorded one; no foreign process is signalled |
| | `EditsAsSeenHolds` | an edit changes what its operator saw and nothing else |
| | `CatalogCertifiedHolds` | the certified catalog is the loaded one |
| `MCProgressProofs` | `OutcomesHonestHolds` | what the runtime, the listener and the client report of an action is true |
| | `LimitsHoldHolds` | the budget of an execution, the slots and bytes of the proxy, and at most `2 * Limit - 1` requests of a caller in a minute |
| | `EvidenceFreshHolds` | a broker reported healthy is the recorded one, while the panel lives; a secret served from the view was in the file during the call |
| | `NothingAfterExpiryHolds` | nothing is sent or relayed once the timer has fired |
| `ProgressProofs` | `EgressInvHolds` | slots, sockets and bytes of the proxy are accounted for |
| `StorageProofs` | `ToolyardInvHolds` | as `ToolsAccountedForHolds`, for any pids |
| | `McpInvHolds`, `ForwarderInvHolds` | as `NamesHoldHolds` and `ForwardsAsDeclaredHolds`, for any catalog and any operations |
| `PanelProofs` | `ManifestInvHolds` | as `ManifestsAgreeHolds`, for either runner and any number of changed fields |

**From a component to its run.** A theorem of `MCPanelProofs`, `MCToolsProofs`,
`MCSecretsProofs` or `MCProgressProofs` is about the specification that TLC checks, `comp` and
all. Its component is proved about in `PanelProofs`, `StorageProofs` or `ProgressProofs`, on
variables with their own names; the MC proof module instantiates that module with the variables `v1`, `v2`, ... of `OneOf`, which
makes its lemmas facts about them. A `Same...` lemma says that the two instances of the
component, the one of the run and the one of the lemmas, are the same formulas, by expanding
both; `OneComponent` says that a step leaves `comp` alone and is a step of the component that
`comp` names, or none. The lemmas hold for any values of a component's constants; the theorem of the run
for those the MC module leaves open, which are all but a few that tell two instances of one
component apart (which commands run, whether pages poll, how many SIGHUPs) and the families
that `Forwarder`, `Mcp` and `Manifest` are checked on. Where that leaves something out which
the lemmas cover (the process ids of `Toolyard`, those families) the component has a theorem of
its own.

`RevocationWins` is proved without SIGHUPs only, because with one it is false: that is the
finding of the run `claim_txn_reload` (section 5).

**The lifecycle.** Hardly any of the broker's properties is inductive. That a request is
called once depends on the row being `executing` without an effect exactly when the handler is
about to dispatch it. `Inv` is `TypeOK` and

* `RowsInv`: a row that has not reached its commit point has no effect, a completed one
  has its effect, an effect is the bound generation, once, and what was told is backed by
  the row's status;
* `KeysInv`: a key names one row;
* `HandlerInv`: what each value of `pc` says about the row being served. The handler alone
  moves a row out of `received` or `executing` while it runs, so its knowledge survives
  everybody else's steps.

`Move` lists the status changes that cannot make a receipt dishonest, and `RowsMoveKeeps`
shows that a step whose rows all move so preserves `RowsInv`. `HandlerFrame` shows that a step
outside the handler that leaves `received` and `executing` rows alone preserves `HandlerInv`.
Then there is one lemma per action, and `LocalStep`, `RowStep`, `OutsideStep` and `QuietStep`
say what is left to prove of it, by the variables it leaves alone. Only `ReserveCreated`,
`Dispatch` and `Respond`, which insert a row, call the tool and answer, are proved directly.

The rest of what is proved about the broker builds on `Inv`:

* *The contract.* `StepStory` sums up what one step may do to one row: insert it, move it, or
  call its tool for the first time (`RowStory`). Every story is a step of `Receipt` or none,
  for each row by itself, and none changes a final status; that gives the refinement and
  `TerminalStable`.
* *Answers and events.* `AnswerInv` says that what was told as final is what the row says, and
  that what the handler is about to say contradicts neither; `AuditInv`, that nobody has
  recorded the end of a request which the handler may still record. Both are needed since
  the handler decides on an answer before it gives it.
* *Authority.* `OwnerInv`: the row being served is one of the caller whose token was checked.
  The rest is in the guard of the two claims.
* *Approvals.* `ApprovalInv` says where the approval row comes into being between reservation
  and parking, and which answers of the surface end a request. `ReviewInv` carries a human's
  approval from the card to the commit point: the card and the deadline cannot change any
  more, so what was compared before the lock is still true behind it.

**The store.** `ClaimInv`: the write lock freezes what a commit point has read, so that at
each statement the transaction's view is what the remaining statements make of the committed
rows (`InTransaction`). `BackupInv`: a published snapshot never changes, so the stage of a
restore is, step by step, what `sanitize` and the audit make of it, and none of the requests
in it can be executed.

**The network guard and the proxy.** `GuardInv` says how far a launch has come at each step of the helper, and
that no tool lives meanwhile. `EgressInv` says that the timer fires only late, and that its
handler then finds the socket shut before it sends or the deadline passed before it relays;
the slots are counted by the cardinality of the busy handlers.

**Secrets.** `VaultInv`: a worker past its reload holds the lock and the last contents.
`SpsInv` has, per connection, who the caller is and whether it was registered during the call
(`CallerKnown`), that all it has read or will read is allowed to that caller (`ValuesAllowed`),
and that a reply tells what happened (`RepliesTrue`); `SlotsConserved` is in it.
`NotOvercounted` bounds one worker's count at a time, so it is not inductive: two workers may
each hold some. The proof numbers the rejections, and shows that they can be shared out among
the summaries, the counter and the workers so that none is given out twice (`SharedOut`).

**What is reported.** `CallInv`: before the exchange that carries the call is sent the tool has
not acted, a response that matches it means that it has, and what remains of the budget and
what was read add up to it. `IngressInv`: connections are served one at a time; one that is
still read has been neither answered, executed nor refused, and none is both executed and
refused. `ClientInv`: a key, and the command under way, name only rows that the broker has,
and a row that ran was called; rows move only as `Receipt` allows, so that what a final status
told the client stays true.

**The rate limit.** `BurstBound` counts over any minute and is far from inductive. `RateInv`
says of each caller, whose admissions are a sorted list of real times, that the current
window starts no earlier than its first request, on the clock as it is set now, which setting
it back further cannot change; that what came `Limit` or more requests before this first request came a `Window`
before it; and that of any `2 * Limit` requests in a row the first and the last are a `Window`
apart. A new window opens only when the clock has moved by `Window`, hence real time has, at
least (`SpacedNew`); a request in an open window takes a place of `Limit` (`SpacedSame`). The
requests of one minute then lie within `2 * Limit - 1` places of the first of them (`InARow`).

**The channel view and the supervisor.** `ViewInv`: since no two files have one modification
time, and the file that is read is never older than the one whose time was looked at, a view
with the time of the file is the file's or empty; so what a call returns was in the file
while it ran. `OwnInv`: at most one broker runs, it is our child, and it is the recorded one,
or the one that `start` has not recorded yet; where a call has found or made sure that the
recorded one is gone, none runs. The port then answers for nobody else. This is proved, as it
is checked, while the admin app is not restarted (`MaxRestarts` 0; after a restart it does not
hold, section 5), no page polls (`Polls` FALSE), and no failing `ps` has made the supervisor
forget a broker that runs (`lost`).

**Sessions and the login.** `SessionsInv`: a session that was logged out is in the list of
revoked ones, or has expired, or has an old key (`Shut`); one with the present key was not
opened with a replaced password; and, per request, what it has read of all this is not outdated by
others before it uses it (`ReqInv`). Only the holder of the lock changes the list, so the list
it is about to write shuts every closed session. `LoginInv`: the guard remembers every
failure still in the window of an address, and those failures and the logins past the
check are together fewer than the limit and all logins. A login passes the check only below the
limit, so the bound can be exceeded by the other logins alone.

**The panel's edits.** `SavesInv`: the file, and whatever any handler or removal has read or is
about to write, differs from the original in announced fields only. `LoopInv`: the handler that
holds the event loop has read what the file has, which is why a save names every field it
changes; a removal on the worker thread breaks this (section 5). `EditsInv` has the same for
policies: what a settings page is about to save allows outside its catalog what the policy it
saw allows, and there are as many silent commits as commands between commit and audit, at
least. `TokensInv`: a rotation that is about to revoke the others has its own token.

**Tools and their catalog.** `SourcesInv` says per phase of a job which of the folders in
place, staged and set aside exist and are whole (`JobInv`), and that one job is at work.
`CatalogInv`: an id on the health page is the receipt's, whose fingerprint is of what is
loaded, unless a reload has taken it back; ids are given out once, so equal ids are equal
receipts. `ManifestInv` is not about steps but about what they compute: normalisation makes a
normal manifest (`TomlNormalizes`), and writing and reading keeps what is shown of a normal one
(`TomlKeeps`).

**The broker process, restarts included.** `RecordInv`: a broker not yet told to stop is the
recorded one, or the one that `start` is about to record. `SignalInv`: a call about to signal
a process has seen that it was the broker, and a pid is not reused within the call.

**Tool processes.** `ToolyardInv` has: births are unique (`ProcsInv`); every record, in the file or in a snapshot of the reconciler, is of a birth
of its own tool and pid (`RecordsInv`), so that boot and start time tell a reused pid; what a
command holds in its hands at each of its steps (`InHandInv`), what it is doing and for whom
(`PhaseInv`), and what the two threads look at (`ThreadsInv`). The step from a new runtime to
its record is where a process is in no file; `InHandInv` says that its command then has it.

**The audit log.** `LogInv` counts gaps: below a generation that is there, an empty one is
either the one being moved or was made by a fault, one by each (`Gaps`, `Moving`). A rotation
drops only the last of a full row or fills the first gap, so with a fault for each gap at most
that many files are missing, and never one of the newest two.

**Names and the forwarder.** `McpInv` needs only that a map holds operations under their own
names and has listed them (`MapSound`); that a name determines its operation where no other
registered one has it is a fact about places in the registry. `WritesInv`: the values of a
response are written in the order of its rules, so at each point the cache is what it was with
the values of the first rules over it.

**What the proofs found.** Four properties were true on the small instances of the runs and not
of larger ones, and were restated to say what the code does:

* `RecentKept`: an interrupted rotation leaves a gap, and the next rotation then drops its
  oldest generation early. Each interruption may cost one file of events (`faults`).
* `NoForgottenProcess`: `cmd_up` (`cli.py:159-162`) loses a runtime whose start failed,
  whose cleanup is unconfirmed and whose record then cannot be saved; it takes three faults. Such a
  process is in `lost`.
* `IntentKept`: something that dies during a reconciliation, or a restore whose save fails, leaves
  a wanted tool unrecorded; the property is about `crashes = 0`, and such a save leaves
  `wanted` open.
* `RunsWhatWasListed`: with two registered operations of one name, a listed name may run the
  other (section 5); the property is about names of one operation.

**Only model-checked.** Liveness (`ParkedResolves`, `AcceptedSettles`, `WaitsEnd`, `Repairs`),
which is out of the prover's reach: fairness and `ENABLED`. The runs marked **V** are
counterexamples. Every safety and action property of a passing run is a theorem.

## 5. Where code and documentation disagree

Three are runs, and `PROJECT.json`'s `findings` quote the line that says otherwise:

* **Not every request has a terminal event** (`audit_trail`). `gateway.py:26` promises one
  per request. A parked request that a policy change denies, a sweep expires or a revocation
  cancels never gets one: the poll that would record it finds it no longer pending.
* **A SIGHUP can void a commit point** (`claim_txn_reload`). The reload handler commits the
  claim's transaction between two of its statements; a policy change or cancellation then
  gets in, and the rest of the claim sets `executing` on a row that has ended. The instance
  of `MCTools` without SIGHUP has no such behaviour.
* **The reconciler brings back a tool an operator stopped** (`toolyard_intent`).

The others have no run of their own. Each is the property named, which is in its module,
checked with the module's `Spec` and with constants as in section 3 but for the change
named; an action formula `P` is checked as `[][P]_vars`.

| What happens | Property | Instance |
| --- | --- | --- |
| A SIGHUP inside a reload can certify a catalog that is not loaded | `CatalogView`: `CertifiedIsLoaded` | `MaxDepth` 2 |
| Two operations can have one MCP name: `a.b__c` and `a__b.c` | `Mcp`: `RunsWhatWasListed` without `homonyms = {listed}` | the same |
| A wait ends at the first poll that fails, 429 included | `Client`: `PollsToTheEnd` | the same |
| Two rotations revoke each other's token | `CallerEdits`: `NeverTokenless` | two `Rotators`, `Ops` create and rotate |
| `set_policy` enables what was switched off since it read | `CallerEdits`: `EnablementKept` | `Ops` create, policy and tools |
| A death of the panel between two saves of a start loses the intent | `Toolyard`: `IntentKept` without `crashes = 0` | `recover`, `MaxCrashes` 1 |
| A crash between the two renames of an update leaves no tool in place | `ToolSources`: `OriginalIntact` | the same |
| An edit saved during an update is lost with the folder set aside | `ToolSources`: `DeclarationsKept` | the same |
| An edit begun before an update writes the old operations over the new code | `ToolSources`: `OperationsKept` | the same |
| A manifest the panel accepts may stop the broker from loading | `Manifest`: `BrokerAccepts` | `Runner` docker |
| A guard whose exec fails is not torn down | `NetGuard`: `FailureUndone` | the same |
| A page can delete the record of a broker that has just started | `Supervisor`: `Recorded` | `Polls` |
| A restart after a restart of the panel takes the old broker's health for the new one's | `Supervisor`: `HealthyIsRecorded` | `MaxRestarts` 1 |
| Removing an external tool reverts settings saved since its request, and its audit does not say so | `RunConfig`: `FieldsNamed` | a worker |
| A full list of revocations lets a logged-out session in once | `Sessions`: `NeverValidAgain` | the same |
| The wait told to a blocked login can be too short | `LoginGuard`: `HonestWait` | the same |

Met while reading, without a run: `sweep_expired` names the admin dashboard as a caller,
which does not call it; after a crash between `create_approval` and `update_request`,
reconciliation leaves the approval row pending for good (`RowsAgree` states exactly that
much); an add whose copied manifest does not load reports an error and leaves the copy
(`Ingest` in `Manifest`).

## 6. Not modelled

Not modelled:

* HTML, CSS and JavaScript of the admin views, the desktop shell and the mac app: front ends
  of the API, whose only ordering rule is the server's compare-and-set;
* the Docker, bubblewrap and seatbelt runners' command lines, deployment scripts and example
  tools: what they do is done by programs outside the repository;
* the Infisical and Vault backends: stateless calls to services;
* OpenAPI import, redaction, the text of cards, TOML and HTTP parsing: text processing
  without state;
* the creation and migration of the database schema, which run before anything else has the
  file open.

Within what is modelled, what is left are the liveness properties, which no prover at hand can
prove: they stay with TLC, on the instances of section 3.
