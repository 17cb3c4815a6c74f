------------------------------ MODULE MCPanel -------------------------------
(***************************************************************************)
(* The components of the admin panel, each on a small instance.            *)
(***************************************************************************)
EXTENDS OneOf

CONSTANTS
    Requests, MaxSessions, MaxResets, MaxRevoked, TTL, MaxTime,         \* of the sessions
    Ips, Slots, MaxPerIp, Lockout, GlobalMax, GlobalWindow, LoginTime, MaxFails,    \* of the login
    Handlers, Savers, Remover, External,        \* of the run configuration, without and with removals
    Editors, Rotator, Tools, Effects, MaxEdits, MaxCatalog, MaxCrashes, \* of the callers
    MaxCommands, MaxTokens,                     \* of those that are made and rotated
    JobWorkers, MaxJobs, MaxVersion,            \* of the tool folders
    Catalogs, Bad, MaxReloads, MaxStarts,       \* of the catalog
    Pids, PollPids, MaxSpawns, MaxPollSpawns, MaxDeaths, MaxReuse, MaxRestarts, MaxFaults  \* of the supervisor

-----------------------------------------------------------------------------
(* The run configuration, the sessions and the login *)

\* Two requests at a time; a second logout finds the list of revoked sessions full.
Se == INSTANCE Sessions WITH
    now <- v1, secret <- v2, password <- v3, sessions <- v4, revoked <- v5,
    lock <- v6, req <- v7, reset <- v8, closed <- v9, past <- v10, wrong <- v11,
    resets <- v12, serial <- v13

\* Two addresses and two logins at a time.
Lg == INSTANCE LoginGuard WITH
    MaxTime <- LoginTime, now <- v1, ipFails <- v2,
    globalFails <- v3, login <- v4, tried <- v5, blocked <- v6, serial <- v7

\* Two requests on the event loop.
Rc == INSTANCE RunConfig WITH
    Workers <- {}, Tools <- External, file <- v1, trail <- v2,
    cleared <- v3, job <- v4

\* A request on the event loop and the removal of a tool on the worker thread.
Rw == INSTANCE RunConfig WITH
    Handlers <- Savers, Workers <- {Remover}, Tools <- External, file <- v1, trail <- v2,
    cleared <- v3, job <- v4

-----------------------------------------------------------------------------
(* Callers *)

\* The commands that change a policy, from two processes.
Cs == INSTANCE CallerEdits WITH
    Rotators <- {Rotator}, Ops <- {"settings", "form", "policy", "tools", "revoke", "revoke_token"},
    MaxTokens <- 1, caller <- v1, policy <- v2,
    tokens <- v3, catalog <- v4, job <- v5, trail <- v6, edits <- v7, issued <- v8,
    changes <- v9, crashes <- v10

\* The commands that make callers and tokens, with one process that rotates.
Ct == INSTANCE CallerEdits WITH
    Rotators <- {Rotator}, Ops <- {"create", "create_with", "rotate", "issue", "revoke"},
    MaxEdits <- MaxCommands, MaxCatalog <- 0, caller <- v1, policy <- v2,
    tokens <- v3, catalog <- v4, job <- v5, trail <- v6, edits <- v7, issued <- v8,
    changes <- v9, crashes <- v10

-----------------------------------------------------------------------------
(* Tools and their catalog *)

Ts == INSTANCE ToolSources WITH
    Workers <- JobWorkers, MaxEdits <- 1, source <- v1, dest <- v2, dir <- v3, made <- v4, slot <- v5, job <- v6, asked <- v7,
    edit <- v8, lost <- v9, told <- v10, kept <- v11, broken <- v12, jobs <- v13,
    edits <- v14, crashes <- v15

\* Every manifest that differs from a plain one in at most three fields.
Mf == INSTANCE Manifest WITH
    Runner <- "process", MaxChanges <- 3, form <- v1, changes <- v2, disk <- v3, via <- v4

\* Reloads that do not interrupt each other.
Cv == INSTANCE CatalogView WITH
    MaxDepth <- 1, disk <- v1, up <- v2, loaded <- v3, oid <- v4, receipt <- v5,
    frames <- v6, at <- v7, seen <- v8, got <- v9, cert <- v10, failed <- v11, edits <- v12,
    reloads <- v13, starts <- v14, ids <- v15

-----------------------------------------------------------------------------
(* The broker process *)

\* The worker thread alone, through a restart of the admin app.
Sa == INSTANCE Supervisor WITH
    MaxCrashes <- MaxDeaths, Polls <- FALSE, proc <- v1, port <- v2, file <- v3,
    act <- v4, report <- v5, foreign <- v6, lost <- v7, spawns <- v8, deaths <- v9,
    reuse <- v10, restarts <- v11, faults <- v12

\* The worker thread and the pages that ask for the status on the event loop.
Sp == INSTANCE Supervisor WITH
    Pids <- PollPids, MaxSpawns <- MaxPollSpawns, MaxCrashes <- MaxDeaths, Polls <- TRUE, proc <- v1, port <- v2, file <- v3, act <- v4,
    report <- v5, foreign <- v6, lost <- v7, spawns <- v8, deaths <- v9, reuse <- v10,
    restarts <- v11, faults <- v12

-----------------------------------------------------------------------------

ASSUME PanelAssumption ==
    /\ Se!SessionsAssumption
    /\ Lg!LoginGuardAssumption
    /\ Rc!RunConfigAssumption
    /\ Rw!RunConfigAssumption
    /\ Cs!CallerEditsAssumption
    /\ Ct!CallerEditsAssumption
    /\ Ts!ToolSourcesAssumption
    /\ Mf!ManifestAssumption
    /\ Cv!CatalogViewAssumption
    /\ Sa!SupervisorAssumption
    /\ Sp!SupervisorAssumption

Init ==
    \/ Start("sessions", 13) /\ Se!Init
    \/ Start("login", 7) /\ Lg!Init
    \/ Start("config", 4) /\ Rc!Init
    \/ Start("config_remove", 4) /\ Rw!Init
    \/ Start("settings", 10) /\ Cs!Init
    \/ Start("tokens", 10) /\ Ct!Init
    \/ Start("sources", 15) /\ Ts!Init
    \/ Start("manifest", 4) /\ Mf!Init
    \/ Start("catalog", 15) /\ Cv!Init
    \/ Start("adopt", 12) /\ Sa!Init
    \/ Start("pages", 12) /\ Sp!Init

Next ==
    \/ Stay("sessions", 13) /\ Se!Next
    \/ Stay("login", 7) /\ Lg!Next
    \/ Stay("config", 4) /\ Rc!Next
    \/ Stay("config_remove", 4) /\ Rw!Next
    \/ Stay("settings", 10) /\ Cs!Next
    \/ Stay("tokens", 10) /\ Ct!Next
    \/ Stay("sources", 15) /\ Ts!Next
    \/ Stay("manifest", 4) /\ Mf!Next
    \/ Stay("catalog", 15) /\ Cv!Next
    \/ Stay("adopt", 12) /\ Sa!Next
    \/ Stay("pages", 12) /\ Sp!Next

Spec == Init /\ [][Next]_all

-----------------------------------------------------------------------------
(* Properties *)

\* A session whose logout was answered, or that was opened with a replaced password, opens
\* no later request that reads the current key (revoke_session, rotate_session_secret);
\* and in every window at most the limit of wrong passwords, and one for each login that
\* was already past the check, are tried from an address (LoginGuard).
AccessClosed ==
    /\ comp = "sessions" => Se!ClosedOnNextRequest /\ Se!SessionsInv
    /\ comp = "login" => Lg!PerIpBound /\ Lg!LoginInv

\* A field of broker.toml that differs from the original was announced in the audit trail,
\* unless that was cleared (operator_audit), and the handler that holds the event loop has
\* read what the file has; a commit of a policy without an audit event belongs to a command
\* that is about to write it or that died, and one that rotates holds
\* a live token of its own before it revokes the others (operations.py).
ChangesAnnounced ==
    /\ comp = "config_remove" => Rw!NoSilentChange /\ Rw!SavesInv
    /\ comp = "config" => Rc!SavesInv /\ Rc!LoopInv
    /\ comp = "settings" => Cs!CommitsAudited /\ Cs!EditsInv
    /\ comp = "tokens" => Ct!TokensInv

\* A tool that the operator was told of exists whole somewhere, whatever an update, an
\* edit or a crash was doing; one job works on the folders at a time, also when its caller
\* is gone; and discovery sees no half written folder of an update (tool_sources.py,
\* blocking.py).
ToolFolderKept == comp = "sources" => Ts!NothingLost /\ Ts!OneAtATime /\ Ts!WholeWhenSeen /\ Ts!SourcesInv

\* What the panel writes, the runner loads; a manifest read back into the editor and saved
\* again is the same; the risk of a rest operation is that of its verb (tool_authoring.py,
\* toolyard/config.py).
ManifestsAgree == comp = "manifest" => Mf!ManifestInv

\* Between calls a broker that runs and was not told to stop is the recorded one, and no
\* signal reaches a process that was given the pid of a broker (supervisor.py,
\* _terminate); a catalog id stands for one catalog: a receipt that the panel holds is
\* the one in the database if their ids are equal (catalog_receipt.py).
BrokerOwned ==
    /\ comp = "adopt" => Sa!Recorded /\ Sa!RecordInv
    /\ comp = "pages" => Sp!NoForeignSignal /\ Sp!SignalInv
    /\ comp = "catalog" => Cv!CatalogInv

\* An edit does what its operator was shown, whatever is written between its reads and its
\* write: a save of the settings page changes the policy on that page only
\* (caller_settings.apply), a tool that is switched off is denied (set_enabled_tools), a
\* rotation leaves a token when one process rotates (rotate_token), and a save of
\* broker.toml keeps the approval token and is audited under every field it changes
\* (merge_update).
EditsAsSeen ==
    [][/\ comp = "settings" => Cs!SettingsSeen /\ Cs!DisablingRevokes
       /\ comp = "tokens" => Ct!NeverTokenless
       /\ comp = "config" => Rc!TokenKept /\ Rc!FieldsNamed]_all

\* The catalog that the panel certifies is the one the broker has loaded, and after a
\* failed reload nothing is certified until one succeeds (catalog receipt).
CatalogCertified == [][comp = "catalog" => Cv!CertifiedIsLoaded /\ Cv!FailedReloadUncertified]_all

=============================================================================
