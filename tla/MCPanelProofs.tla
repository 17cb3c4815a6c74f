---------------------------- MODULE MCPanelProofs ---------------------------
(***************************************************************************)
(* The safety properties of MCPanel.tla, for every value of its constants: *)
(* the lemmas of PanelProofs.tla, taken over for the components of         *)
(* MCPanel.  Px has the sessions, the login, the configuration with        *)
(* removals, the callers whose policy is edited, the tool folders, the     *)
(* manifests, the catalog and the supervisor; Py the configuration without *)
(* removals and the callers that are made and rotated.                     *)
(***************************************************************************)
EXTENDS MCPanel, TLAPS

Px == INSTANCE PanelProofs WITH
    Runner <- "process", MaxChanges <- 3, Removers <- {Remover}, Rotators <- {Rotator}, MaxTokens <- 1,
    Ops <- {"settings", "form", "policy", "tools", "revoke", "revoke_token"},
    now <- v1, secret <- v2, password <- v3, sessions <- v4, revoked <- v5, lock <- v6,
    req <- v7, reset <- v8, closed <- v9, past <- v10, wrong <- v11, resets <- v12,
    serial <- v13,
    ipFails <- v2, globalFails <- v3, login <- v4, tried <- v5, blocked <- v6,
    failures <- v7,
    toml <- v1, records <- v2, cleared <- v3, saves <- v4,
    caller <- v1, policy <- v2, tokens <- v3, catalog <- v4, cmd <- v5, trail <- v6,
    edits <- v7, issued <- v8, changes <- v9, crashes <- v10,
    source <- v1, dest <- v2, dir <- v3, made <- v4, slot <- v5, job <- v6, asked <- v7,
    edit <- v8, lost <- v9, told <- v10, kept <- v11, broken <- v12, jobs <- v13,
    edited <- v14, died <- v15,
    form <- v1, altered <- v2, written <- v3, via <- v4,
    disk <- v1, up <- v2, loaded <- v3, oid <- v4, receipt <- v5, frames <- v6, at <- v7,
    seen <- v8, got <- v9, cert <- v10, failed <- v11, writes <- v12, reloads <- v13,
    starts <- v14, ids <- v15,
    proc <- v1, port <- v2, file <- v3, act <- v4, report <- v5, foreign <- v6, forgot <- v7,
    spawns <- v8, deaths <- v9, reuse <- v10, restarts <- v11, faults <- v12

Py == INSTANCE PanelProofs WITH
    Savers <- Handlers, Runner <- "process", MaxChanges <- 3, Removers <- {}, Rotators <- {Rotator}, MaxEdits <- MaxCommands, MaxCatalog <- 0,
    Ops <- {"create", "create_with", "rotate", "issue", "revoke"},
    now <- v1, secret <- v2, password <- v3, sessions <- v4, revoked <- v5, lock <- v6,
    req <- v7, reset <- v8, closed <- v9, past <- v10, wrong <- v11, resets <- v12,
    serial <- v13,
    ipFails <- v2, globalFails <- v3, login <- v4, tried <- v5, blocked <- v6,
    failures <- v7,
    toml <- v1, records <- v2, cleared <- v3, saves <- v4,
    caller <- v1, policy <- v2, tokens <- v3, catalog <- v4, cmd <- v5, trail <- v6,
    edits <- v7, issued <- v8, changes <- v9, crashes <- v10,
    source <- v1, dest <- v2, dir <- v3, made <- v4, slot <- v5, job <- v6, asked <- v7,
    edit <- v8, lost <- v9, told <- v10, kept <- v11, broken <- v12, jobs <- v13,
    edited <- v14, died <- v15,
    form <- v1, altered <- v2, written <- v3, via <- v4,
    disk <- v1, up <- v2, loaded <- v3, oid <- v4, receipt <- v5, frames <- v6, at <- v7,
    seen <- v8, got <- v9, cert <- v10, failed <- v11, writes <- v12, reloads <- v13,
    starts <- v14, ids <- v15,
    proc <- v1, port <- v2, file <- v3, act <- v4, report <- v5, foreign <- v6, forgot <- v7,
    spawns <- v8, deaths <- v9, reuse <- v10, restarts <- v11, faults <- v12

\* A step of MCPanel is a step of the component that runs, or leaves it alone.
LEMMA OneComponent ==
  ASSUME [Next]_all
  PROVE  /\ comp' = comp
         /\ comp = "sessions" => [Se!Next]_(Se!vars)
         /\ comp = "login" => [Lg!Next]_(Lg!vars)
         /\ comp = "config" => [Rc!Next]_(Rc!vars)
         /\ comp = "config_remove" => [Rw!Next]_(Rw!vars)
         /\ comp = "settings" => [Cs!Next]_(Cs!vars)
         /\ comp = "tokens" => [Ct!Next]_(Ct!vars)
         /\ comp = "sources" => [Ts!Next]_(Ts!vars)
         /\ comp = "manifest" => [Mf!Next]_(Mf!vars)
         /\ comp = "catalog" => [Cv!Next]_(Cv!vars)
         /\ comp = "adopt" => [Sa!Next]_(Sa!vars)
         /\ comp = "pages" => [Sp!Next]_(Sp!vars)
<1>1. CASE Next
  BY <1>1 DEF Next, Stay
<1>2. CASE UNCHANGED all
  BY <1>2 DEF all, Se!vars, Lg!vars, Rc!vars, Rw!vars, Cs!vars, Ct!vars, Ts!vars, Mf!vars, Cv!vars, Sa!vars, Sp!vars
<1> QED BY <1>1, <1>2

\* The components of MCPanel are those of PanelProofs: both are instances of one module, and
\* what they define is the same once it is written out.
LEMMA SameSessions ==
  /\ Se!SessionsAssumption <=> Px!Sess!SessionsAssumption
  /\ Se!Init <=> Px!Sess!Init
  /\ [Se!Next]_(Se!vars) <=> [Px!Sess!Next]_(Px!Sess!vars)
  /\ Se!SessionsInv <=> Px!Sess!SessionsInv
  /\ Se!ClosedOnNextRequest <=> Px!Sess!ClosedOnNextRequest
  /\ Se!SessionsInv' <=> Px!Sess!SessionsInv'
  BY DEF Se!SessionsAssumption, Px!Sess!SessionsAssumption, Se!Init, Px!Sess!Init, Se!Next,
    Px!Sess!Next, Se!SessionsInv, Px!Sess!SessionsInv, Se!ClosedOnNextRequest,
    Px!Sess!ClosedOnNextRequest, Se!vars, Px!Sess!vars, Se!Idle, Px!Sess!Idle, Se!Arrive,
    Px!Sess!Arrive, Se!Login, Px!Sess!Login, Se!Authenticate, Px!Sess!Authenticate,
    Se!RevokeLock, Px!Sess!RevokeLock, Se!RevokeRotate, Px!Sess!RevokeRotate, Se!RevokeWrite,
    Px!Sess!RevokeWrite, Se!Crash, Px!Sess!Crash, Se!WriteHash, Px!Sess!WriteHash,
    Se!RotateSecret, Px!Sess!RotateSecret, Se!ResetDies, Px!Sess!ResetDies, Se!Tick,
    Px!Sess!Tick, Se!TypeOK, Px!Sess!TypeOK, Se!IsFiniteSet, Px!Sess!IsFiniteSet,
    Se!Cardinality, Px!Sess!Cardinality, Se!Shut, Px!Sess!Shut, Se!ReqInv, Px!Sess!ReqInv,
    Se!Done, Px!Sess!Done, Se!Valid, Px!Sess!Valid, Se!Session, Px!Sess!Session, Se!Go,
    Px!Sess!Go

LEMMA SameLogin ==
  /\ Lg!LoginGuardAssumption <=> Px!Login!LoginGuardAssumption
  /\ Lg!Init <=> Px!Login!Init
  /\ [Lg!Next]_(Lg!vars) <=> [Px!Login!Next]_(Px!Login!vars)
  /\ Lg!LoginInv <=> Px!Login!LoginInv
  /\ Lg!PerIpBound <=> Px!Login!PerIpBound
  /\ Lg!LoginInv' <=> Px!Login!LoginInv'
  BY DEF Lg!LoginGuardAssumption, Px!Login!LoginGuardAssumption, Lg!Init, Px!Login!Init,
    Lg!Next, Px!Login!Next, Lg!LoginInv, Px!Login!LoginInv, Lg!PerIpBound,
    Px!Login!PerIpBound, Lg!vars, Px!Login!vars, Lg!IsFiniteSet, Px!Login!IsFiniteSet,
    Lg!Arrive, Px!Login!Arrive, Lg!Fail, Px!Login!Fail, Lg!Succeed, Px!Login!Succeed,
    Lg!Abandon, Px!Login!Abandon, Lg!Tick, Px!Login!Tick, Lg!TypeOK, Px!Login!TypeOK,
    Lg!Window, Px!Login!Window, Lg!Cardinality, Px!Login!Cardinality, Lg!Past, Px!Login!Past,
    Lg!Prune, Px!Login!Prune, Lg!RetryAfter, Px!Login!RetryAfter, Lg!Recent, Px!Login!Recent,
    Lg!Oldest, Px!Login!Oldest, Lg!Min, Px!Login!Min

LEMMA SameConfig ==
  /\ Rc!RunConfigAssumption <=> Py!Conf!RunConfigAssumption
  /\ Rc!Init <=> Py!Conf!Init
  /\ [Rc!Next]_(Rc!vars) <=> [Py!Conf!Next]_(Py!Conf!vars)
  /\ Rc!SavesInv <=> Py!Conf!SavesInv
  /\ Rc!LoopInv <=> Py!Conf!LoopInv
  /\ Rc!TokenKept <=> Py!Conf!TokenKept
  /\ Rc!FieldsNamed <=> Py!Conf!FieldsNamed
  /\ Rc!SavesInv' <=> Py!Conf!SavesInv'
  /\ Rc!LoopInv' <=> Py!Conf!LoopInv'
  BY DEF Rc!RunConfigAssumption, Py!Conf!RunConfigAssumption, Rc!Init, Py!Conf!Init, Rc!Next,
    Py!Conf!Next, Rc!SavesInv, Py!Conf!SavesInv, Rc!LoopInv, Py!Conf!LoopInv, Rc!TokenKept,
    Py!Conf!TokenKept, Rc!FieldsNamed, Py!Conf!FieldsNamed, Rc!vars, Py!Conf!vars,
    Rc!Cardinality, Py!Conf!Cardinality, Rc!Initial, Py!Conf!Initial, Rc!Actors,
    Py!Conf!Actors, Rc!Idle, Py!Conf!Idle, Rc!Arrive, Py!Conf!Arrive, Rc!SaveConfig,
    Py!Conf!SaveConfig, Rc!CreateTool, Py!Conf!CreateTool, Rc!ClearAudit, Py!Conf!ClearAudit,
    Rc!RemoveRequest, Py!Conf!RemoveRequest, Rc!RemoveTool, Py!Conf!RemoveTool, Rc!Request,
    Py!Conf!Request, Rc!Save, Py!Conf!Save, Rc!Changed, Py!Conf!Changed, Rc!Crash,
    Py!Conf!Crash, Rc!Configs, Py!Conf!Configs, Rc!Announced, Py!Conf!Announced, Rc!Fields,
    Py!Conf!Fields, Rc!LoopFree, Py!Conf!LoopFree, Rc!Rates, Py!Conf!Rates, Rc!Urls,
    Py!Conf!Urls, Rc!Tokens, Py!Conf!Tokens, Rc!MergeUpdate, Py!Conf!MergeUpdate, Rc!Load,
    Py!Conf!Load, Rc!Accepted, Py!Conf!Accepted, Rc!Begin, Py!Conf!Begin, Rc!Record,
    Py!Conf!Record, Rc!ValidateNodUrl, Py!Conf!ValidateNodUrl

LEMMA SameRemoval ==
  /\ Rw!RunConfigAssumption <=> Px!Conf!RunConfigAssumption
  /\ Rw!Init <=> Px!Conf!Init
  /\ [Rw!Next]_(Rw!vars) <=> [Px!Conf!Next]_(Px!Conf!vars)
  /\ Rw!SavesInv <=> Px!Conf!SavesInv
  /\ Rw!NoSilentChange <=> Px!Conf!NoSilentChange
  /\ Rw!SavesInv' <=> Px!Conf!SavesInv'
  BY DEF Rw!RunConfigAssumption, Px!Conf!RunConfigAssumption, Rw!Init, Px!Conf!Init, Rw!Next,
    Px!Conf!Next, Rw!SavesInv, Px!Conf!SavesInv, Rw!NoSilentChange, Px!Conf!NoSilentChange,
    Rw!vars, Px!Conf!vars, Rw!Cardinality, Px!Conf!Cardinality, Rw!Initial, Px!Conf!Initial,
    Rw!Actors, Px!Conf!Actors, Rw!Idle, Px!Conf!Idle, Rw!Arrive, Px!Conf!Arrive,
    Rw!SaveConfig, Px!Conf!SaveConfig, Rw!CreateTool, Px!Conf!CreateTool, Rw!ClearAudit,
    Px!Conf!ClearAudit, Rw!RemoveRequest, Px!Conf!RemoveRequest, Rw!RemoveTool,
    Px!Conf!RemoveTool, Rw!Request, Px!Conf!Request, Rw!Save, Px!Conf!Save, Rw!Changed,
    Px!Conf!Changed, Rw!Crash, Px!Conf!Crash, Rw!Configs, Px!Conf!Configs, Rw!Announced,
    Px!Conf!Announced, Rw!Fields, Px!Conf!Fields, Rw!LoopFree, Px!Conf!LoopFree, Rw!Rates,
    Px!Conf!Rates, Rw!Urls, Px!Conf!Urls, Rw!Tokens, Px!Conf!Tokens, Rw!MergeUpdate,
    Px!Conf!MergeUpdate, Rw!Load, Px!Conf!Load, Rw!Accepted, Px!Conf!Accepted, Rw!Begin,
    Px!Conf!Begin, Rw!Record, Px!Conf!Record, Rw!ValidateNodUrl, Px!Conf!ValidateNodUrl

LEMMA SameSettings ==
  /\ Cs!CallerEditsAssumption <=> Px!Page!CallerEditsAssumption
  /\ Cs!Init <=> Px!Page!Init
  /\ [Cs!Next]_(Cs!vars) <=> [Px!Page!Next]_(Px!Page!vars)
  /\ Cs!EditsInv <=> Px!Page!EditsInv
  /\ Cs!CommitsAudited <=> Px!Page!CommitsAudited
  /\ Cs!SettingsSeen <=> Px!Page!SettingsSeen
  /\ Cs!DisablingRevokes <=> Px!Page!DisablingRevokes
  /\ Cs!EditsInv' <=> Px!Page!EditsInv'
  BY SMTT(60) DEF Cs!CallerEditsAssumption, Px!Page!CallerEditsAssumption, Cs!Init, Px!Page!Init,
    Cs!Next, Px!Page!Next, Cs!EditsInv, Px!Page!EditsInv, Cs!CommitsAudited,
    Px!Page!CommitsAudited, Cs!SettingsSeen, Px!Page!SettingsSeen, Cs!DisablingRevokes,
    Px!Page!DisablingRevokes, Cs!vars, Px!Page!vars, Cs!IsFiniteSet, Px!Page!IsFiniteSet,
    Cs!NoPolicy, Px!Page!NoPolicy, Cs!Idle, Px!Page!Idle, Cs!CatalogChanges,
    Px!Page!CatalogChanges, Cs!Command, Px!Page!Command, Cs!Step, Px!Page!Step, Cs!Crash,
    Px!Page!Crash, Cs!TypeOK, Px!Page!TypeOK, Cs!Cardinality, Px!Page!Cardinality,
    Cs!Policies, Px!Page!Policies, Cs!Allowed, Px!Page!Allowed, Cs!Saves, Px!Page!Saves,
    Cs!Disables, Px!Page!Disables, Cs!LoadSettings, Px!Page!LoadSettings, Cs!LoadPolicyPage,
    Px!Page!LoadPolicyPage, Cs!SetPolicy, Px!Page!SetPolicy, Cs!ToolsPage, Px!Page!ToolsPage,
    Cs!PutTools, Px!Page!PutTools, Cs!CreateCaller, Px!Page!CreateCaller, Cs!RotateToken,
    Px!Page!RotateToken, Cs!IssueToken, Px!Page!IssueToken, Cs!RevokeToken,
    Px!Page!RevokeToken, Cs!RevokeCaller, Px!Page!RevokeCaller, Cs!CheckSettings,
    Px!Page!CheckSettings, Cs!CompareAndSet, Px!Page!CompareAndSet, Cs!MergeGrants,
    Px!Page!MergeGrants, Cs!ReadBefore, Px!Page!ReadBefore, Cs!Write, Px!Page!Write, Cs!Audit,
    Px!Page!Audit, Cs!ReadPrior, Px!Page!ReadPrior, Cs!ReadManaged, Px!Page!ReadManaged,
    Cs!ReadDisabled, Px!Page!ReadDisabled, Cs!AddToken, Px!Page!AddToken, Cs!RevokeOthers,
    Px!Page!RevokeOthers, Cs!Done, Px!Page!Done, Cs!Ready, Px!Page!Ready, Cs!Start,
    Px!Page!Start, Cs!Snapshot, Px!Page!Snapshot, Cs!FormFields, Px!Page!FormFields,
    Cs!SetEnabled, Px!Page!SetEnabled, Cs!MergeEnabled, Px!Page!MergeEnabled, Cs!NewToken,
    Px!Page!NewToken, Cs!Applied, Px!Page!Applied, Cs!counts, Px!Page!counts, Cs!Merged,
    Px!Page!Merged, Cs!Go, Px!Page!Go, Cs!EnabledTools, Px!Page!EnabledTools, Cs!Shown,
    Px!Page!Shown

LEMMA SameTokens ==
  /\ Ct!CallerEditsAssumption <=> Py!Page!CallerEditsAssumption
  /\ Ct!Init <=> Py!Page!Init
  /\ [Ct!Next]_(Ct!vars) <=> [Py!Page!Next]_(Py!Page!vars)
  /\ Ct!TokensInv <=> Py!Page!TokensInv
  /\ Ct!NeverTokenless <=> Py!Page!NeverTokenless
  /\ Ct!TokensInv' <=> Py!Page!TokensInv'
  BY DEF Ct!CallerEditsAssumption, Py!Page!CallerEditsAssumption, Ct!Init, Py!Page!Init,
    Ct!Next, Py!Page!Next, Ct!TokensInv, Py!Page!TokensInv, Ct!NeverTokenless,
    Py!Page!NeverTokenless, Ct!vars, Py!Page!vars, Ct!IsFiniteSet, Py!Page!IsFiniteSet,
    Ct!NoPolicy, Py!Page!NoPolicy, Ct!Idle, Py!Page!Idle, Ct!CatalogChanges,
    Py!Page!CatalogChanges, Ct!Command, Py!Page!Command, Ct!Step, Py!Page!Step, Ct!Crash,
    Py!Page!Crash, Ct!EditsInv, Py!Page!EditsInv, Ct!LoadSettings, Py!Page!LoadSettings,
    Ct!LoadPolicyPage, Py!Page!LoadPolicyPage, Ct!SetPolicy, Py!Page!SetPolicy, Ct!ToolsPage,
    Py!Page!ToolsPage, Ct!PutTools, Py!Page!PutTools, Ct!CreateCaller, Py!Page!CreateCaller,
    Ct!RotateToken, Py!Page!RotateToken, Ct!IssueToken, Py!Page!IssueToken, Ct!RevokeToken,
    Py!Page!RevokeToken, Ct!RevokeCaller, Py!Page!RevokeCaller, Ct!CheckSettings,
    Py!Page!CheckSettings, Ct!CompareAndSet, Py!Page!CompareAndSet, Ct!MergeGrants,
    Py!Page!MergeGrants, Ct!ReadBefore, Py!Page!ReadBefore, Ct!Write, Py!Page!Write, Ct!Audit,
    Py!Page!Audit, Ct!ReadPrior, Py!Page!ReadPrior, Ct!ReadManaged, Py!Page!ReadManaged,
    Ct!ReadDisabled, Py!Page!ReadDisabled, Ct!AddToken, Py!Page!AddToken, Ct!RevokeOthers,
    Py!Page!RevokeOthers, Ct!Done, Py!Page!Done, Ct!TypeOK, Py!Page!TypeOK, Ct!CommitsAudited,
    Py!Page!CommitsAudited, Ct!Cardinality, Py!Page!Cardinality, Ct!Policies,
    Py!Page!Policies, Ct!Allowed, Py!Page!Allowed, Ct!Ready, Py!Page!Ready, Ct!Start,
    Py!Page!Start, Ct!Snapshot, Py!Page!Snapshot, Ct!FormFields, Py!Page!FormFields,
    Ct!SetEnabled, Py!Page!SetEnabled, Ct!MergeEnabled, Py!Page!MergeEnabled, Ct!NewToken,
    Py!Page!NewToken, Ct!Applied, Py!Page!Applied, Ct!counts, Py!Page!counts, Ct!Merged,
    Py!Page!Merged, Ct!Go, Py!Page!Go, Ct!EnabledTools, Py!Page!EnabledTools, Ct!Shown,
    Py!Page!Shown

LEMMA SameFolders ==
  /\ Ts!ToolSourcesAssumption <=> Px!Folder!ToolSourcesAssumption
  /\ Ts!Init <=> Px!Folder!Init
  /\ [Ts!Next]_(Ts!vars) <=> [Px!Folder!Next]_(Px!Folder!vars)
  /\ Ts!SourcesInv <=> Px!Folder!SourcesInv
  /\ Ts!NothingLost <=> Px!Folder!NothingLost
  /\ Ts!OneAtATime <=> Px!Folder!OneAtATime
  /\ Ts!WholeWhenSeen <=> Px!Folder!WholeWhenSeen
  /\ Ts!SourcesInv' <=> Px!Folder!SourcesInv'
  BY DEF Ts!ToolSourcesAssumption, Px!Folder!ToolSourcesAssumption, Ts!Init, Px!Folder!Init,
    Ts!Next, Px!Folder!Next, Ts!SourcesInv, Px!Folder!SourcesInv, Ts!NothingLost,
    Px!Folder!NothingLost, Ts!OneAtATime, Px!Folder!OneAtATime, Ts!WholeWhenSeen,
    Px!Folder!WholeWhenSeen, Ts!vars, Px!Folder!vars, Ts!Dirs, Px!Folder!Dirs, Ts!Empty,
    Px!Folder!Empty, Ts!Idle, Px!Folder!Idle, Ts!NoEdit, Px!Folder!NoEdit, Ts!SubmitAdd,
    Px!Folder!SubmitAdd, Ts!SubmitUpdate, Px!Folder!SubmitUpdate, Ts!SubmitRemove,
    Px!Folder!SubmitRemove, Ts!Step, Px!Folder!Step, Ts!Hangup, Px!Folder!Hangup, Ts!EditRead,
    Px!Folder!EditRead, Ts!EditPage, Px!Folder!EditPage, Ts!SaveForm, Px!Folder!SaveForm,
    Ts!EditOpen, Px!Folder!EditOpen, Ts!EditWrite, Px!Folder!EditWrite, Ts!Release,
    Px!Folder!Release, Ts!Crash, Px!Folder!Crash, Ts!Places, Px!Folder!Places, Ts!JobInv,
    Px!Folder!JobInv, Ts!Whole, Px!Folder!Whole, Ts!Busy, Px!Folder!Busy, Ts!Cardinality,
    Px!Folder!Cardinality, Ts!Discoverable, Px!Folder!Discoverable, Ts!Submit,
    Px!Folder!Submit, Ts!AddCheck, Px!Folder!AddCheck, Ts!AddMkdir, Px!Folder!AddMkdir,
    Ts!AddCopy, Px!Folder!AddCopy, Ts!AddRecord, Px!Folder!AddRecord, Ts!AuthorWrite,
    Px!Folder!AuthorWrite, Ts!UpdateRead, Px!Folder!UpdateRead, Ts!UpdateFetch,
    Px!Folder!UpdateFetch, Ts!UpdateStage, Px!Folder!UpdateStage, Ts!UpdateAside,
    Px!Folder!UpdateAside, Ts!UpdateSwap, Px!Folder!UpdateSwap, Ts!UpdateClean,
    Px!Folder!UpdateClean, Ts!RemoveStart, Px!Folder!RemoveStart, Ts!RemoveDelete,
    Px!Folder!RemoveDelete, Ts!Begin, Px!Folder!Begin, Ts!At, Px!Folder!At, Ts!Goto,
    Px!Folder!Goto, Ts!End, Px!Folder!End

LEMMA SameManifest ==
  /\ Mf!ManifestAssumption <=> Px!Toml!ManifestAssumption
  /\ Mf!Init <=> Px!Toml!Init
  /\ [Mf!Next]_(Mf!vars) <=> [Px!Toml!Next]_(Px!Toml!vars)
  /\ Mf!ManifestInv <=> Px!Toml!ManifestInv
  /\ Mf!ManifestInv' <=> Px!Toml!ManifestInv'
<1>1. Mf!ManifestAssumption <=> Px!Toml!ManifestAssumption
  BY DEF Mf!ManifestAssumption, Px!Toml!ManifestAssumption
<1>2. Mf!Init <=> Px!Toml!Init
  BY DEF Mf!Init, Px!Toml!Init, Mf!Plain, Px!Toml!Plain, Mf!RestPlain, Px!Toml!RestPlain
<1>3. [Mf!Next]_(Mf!vars) <=> [Px!Toml!Next]_(Px!Toml!vars)
  <2>1. \A m, c : Mf!Validate(m, c) <=> Px!Toml!Validate(m, c)
    BY DEF Mf!Validate, Px!Toml!Validate, Mf!RestValid, Px!Toml!RestValid, Mf!RulesValid,
      Px!Toml!RulesValid
  <2>2. \A m : Mf!EntrypointError(m) <=> Px!Toml!EntrypointError(m)
    BY DEF Mf!EntrypointError, Px!Toml!EntrypointError
  <2>3. \A m : Mf!ToToml(m) = Px!Toml!ToToml(m)
    BY SMTT(60) DEF Mf!ToToml, Px!Toml!ToToml
  <2>4. \A m : Mf!Normalize(m) = Px!Toml!Normalize(m)
    BY SMTT(60) DEF Mf!Normalize, Px!Toml!Normalize, Mf!NoOperation, Px!Toml!NoOperation, Mf!NormalRest,
      Px!Toml!NormalRest, Mf!NormalOther, Px!Toml!NormalOther, Mf!NoSecret, Px!Toml!NoSecret,
      Mf!VerbRisk, Px!Toml!VerbRisk, Mf!NormalRule, Px!Toml!NormalRule
  <2>5. \A m : Mf!RunnerLoads(m) <=> Px!Toml!RunnerLoads(m)
    BY DEF Mf!RunnerLoads, Px!Toml!RunnerLoads, Mf!ValidateRest, Px!Toml!ValidateRest
  <2>6. Mf!Change <=> Px!Toml!Change
    BY DEF Mf!Change, Px!Toml!Change, Mf!Values, Px!Toml!Values
  <2>7. Mf!Write <=> Px!Toml!Write
    BY <2>1, <2>2, <2>3, <2>4 DEF Mf!Write, Px!Toml!Write
  <2>8. Mf!Ingest <=> Px!Toml!Ingest
    BY <2>1, <2>2, <2>4, <2>5 DEF Mf!Ingest, Px!Toml!Ingest
  <2>9. Mf!Resave <=> Px!Toml!Resave
    BY <2>1, <2>2, <2>3, <2>4, <2>5, ZenonT(60) DEF Mf!Resave, Px!Toml!Resave, Mf!Read, Px!Toml!Read
  <2> QED BY <2>6, <2>7, <2>8, <2>9 DEF Mf!Next, Px!Toml!Next, Mf!vars, Px!Toml!vars
<1>4. Mf!ManifestInv <=> Px!Toml!ManifestInv
  BY DEF Mf!ManifestInv, Px!Toml!ManifestInv, Mf!IsManifest, Px!Toml!IsManifest,
    Mf!RunnerAccepts, Px!Toml!RunnerAccepts, Mf!RoundTrip, Px!Toml!RoundTrip,
    Mf!RiskFollowsVerb, Px!Toml!RiskFollowsVerb, Mf!Values, Px!Toml!Values, Mf!RunnerLoads,
    Px!Toml!RunnerLoads, Mf!Shown, Px!Toml!Shown, Mf!Read, Px!Toml!Read, Mf!Normalize,
    Px!Toml!Normalize, Mf!VerbRisk, Px!Toml!VerbRisk, Mf!ValidateRest, Px!Toml!ValidateRest,
    Mf!NoOperation, Px!Toml!NoOperation, Mf!NormalRest, Px!Toml!NormalRest, Mf!NormalOther,
    Px!Toml!NormalOther, Mf!NoSecret, Px!Toml!NoSecret, Mf!NormalRule, Px!Toml!NormalRule
<1>5. Mf!ManifestInv' <=> Px!Toml!ManifestInv'
  BY <1>4, PTL
<1> QED BY <1>1, <1>2, <1>3, <1>4, <1>5


LEMMA SameCatalog ==
  /\ Cv!CatalogViewAssumption <=> Px!Seen!CatalogViewAssumption
  /\ Cv!Init <=> Px!Seen!Init
  /\ [Cv!Next]_(Cv!vars) <=> [Px!Seen!Next]_(Px!Seen!vars)
  /\ Cv!CatalogInv <=> Px!Seen!CatalogInv
  /\ Cv!CertifiedIsLoaded <=> Px!Seen!CertifiedIsLoaded
  /\ Cv!FailedReloadUncertified <=> Px!Seen!FailedReloadUncertified
  /\ Cv!CatalogInv' <=> Px!Seen!CatalogInv'
  BY DEF Cv!CatalogViewAssumption, Px!Seen!CatalogViewAssumption, Cv!Init, Px!Seen!Init,
    Cv!Next, Px!Seen!Next, Cv!CatalogInv, Px!Seen!CatalogInv, Cv!CertifiedIsLoaded,
    Px!Seen!CertifiedIsLoaded, Cv!FailedReloadUncertified, Px!Seen!FailedReloadUncertified,
    Cv!vars, Px!Seen!vars, Cv!Edit, Px!Seen!Edit, Cv!Start, Px!Seen!Start, Cv!Die,
    Px!Seen!Die, Cv!Sighup, Px!Seen!Sighup, Cv!ClearId, Px!Seen!ClearId, Cv!ClearReceipt,
    Px!Seen!ClearReceipt, Cv!Parse, Px!Seen!Parse, Cv!Swap, Px!Seen!Swap, Cv!Fingerprint,
    Px!Seen!Fingerprint, Cv!WriteReceipt, Px!Seen!WriteReceipt, Cv!WriteId, Px!Seen!WriteId,
    Cv!Health1, Px!Seen!Health1, Cv!ReadReceipt, Px!Seen!ReadReceipt, Cv!ReadCurrent,
    Px!Seen!ReadCurrent, Cv!Health2, Px!Seen!Health2, Cv!Frames, Px!Seen!Frames, Cv!Top,
    Px!Seen!Top, Cv!Running, Px!Seen!Running, Cv!broker, Px!Seen!broker, Cv!panel,
    Px!Seen!panel, Cv!Frame, Px!Seen!Frame, Cv!counts, Px!Seen!counts, Cv!Becomes,
    Px!Seen!Becomes, Cv!Returns, Px!Seen!Returns, Cv!CanAnswer, Px!Seen!CanAnswer, Cv!Shown,
    Px!Seen!Shown, Cv!Unknown, Px!Seen!Unknown

LEMMA SameAdopt ==
  /\ Sa!SupervisorAssumption <=> Px!Adopt!SupervisorAssumption
  /\ Sa!Init <=> Px!Adopt!Init
  /\ [Sa!Next]_(Sa!vars) <=> [Px!Adopt!Next]_(Px!Adopt!vars)
  /\ Sa!RecordInv <=> Px!Adopt!RecordInv
  /\ Sa!Recorded <=> Px!Adopt!Recorded
  /\ Sa!RecordInv' <=> Px!Adopt!RecordInv'
  BY DEF Sa!SupervisorAssumption, Px!Adopt!SupervisorAssumption, Sa!Init, Px!Adopt!Init,
    Sa!Next, Px!Adopt!Next, Sa!RecordInv, Px!Adopt!RecordInv, Sa!Recorded, Px!Adopt!Recorded,
    Sa!vars, Px!Adopt!vars, Sa!Free, Px!Adopt!Free, Sa!Actors, Px!Adopt!Actors, Sa!Idle,
    Px!Adopt!Idle, Sa!NoReport, Px!Adopt!NoReport, Sa!Bind, Px!Adopt!Bind, Sa!Exit,
    Px!Adopt!Exit, Sa!Reuse, Px!Adopt!Reuse, Sa!AdminRestart, Px!Adopt!AdminRestart,
    Sa!Request, Px!Adopt!Request, Sa!Worker, Px!Adopt!Worker, Sa!Poll, Px!Adopt!Poll,
    Sa!Status, Px!Adopt!Status, Sa!TypeOK, Px!Adopt!TypeOK, Sa!CallsTyped,
    Px!Adopt!CallsTyped, Sa!Running, Px!Adopt!Running, Sa!Gone, Px!Adopt!Gone, Sa!counts,
    Px!Adopt!counts, Sa!Spawn, Px!Adopt!Spawn, Sa!WriteState, Px!Adopt!WriteState,
    Sa!AwaitHealth, Px!Adopt!AwaitHealth, Sa!StopRead, Px!Adopt!StopRead, Sa!IsBroker,
    Px!Adopt!IsBroker, Sa!Terminate, Px!Adopt!Terminate, Sa!ReapStopped, Px!Adopt!ReapStopped,
    Sa!Escalate, Px!Adopt!Escalate, Sa!Unlink, Px!Adopt!Unlink, Sa!StopDone,
    Px!Adopt!StopDone, Sa!ReadState, Px!Adopt!ReadState, Sa!Reap, Px!Adopt!Reap, Sa!Alive,
    Px!Adopt!Alive, Sa!ClearState, Px!Adopt!ClearState, Sa!Places, Px!Adopt!Places, Sa!Go,
    Px!Adopt!Go, Sa!Signal, Px!Adopt!Signal, Sa!Dead, Px!Adopt!Dead, Sa!Stopped,
    Px!Adopt!Stopped, Sa!PidAlive, Px!Adopt!PidAlive

LEMMA SamePages ==
  /\ Sp!SupervisorAssumption <=> Px!Polled!SupervisorAssumption
  /\ Sp!Init <=> Px!Polled!Init
  /\ [Sp!Next]_(Sp!vars) <=> [Px!Polled!Next]_(Px!Polled!vars)
  /\ Sp!SignalInv <=> Px!Polled!SignalInv
  /\ Sp!NoForeignSignal <=> Px!Polled!NoForeignSignal
  /\ Sp!SignalInv' <=> Px!Polled!SignalInv'
  BY DEF Sp!SupervisorAssumption, Px!Polled!SupervisorAssumption, Sp!Init, Px!Polled!Init,
    Sp!Next, Px!Polled!Next, Sp!SignalInv, Px!Polled!SignalInv, Sp!NoForeignSignal,
    Px!Polled!NoForeignSignal, Sp!vars, Px!Polled!vars, Sp!Free, Px!Polled!Free, Sp!Actors,
    Px!Polled!Actors, Sp!Idle, Px!Polled!Idle, Sp!NoReport, Px!Polled!NoReport, Sp!Bind,
    Px!Polled!Bind, Sp!Exit, Px!Polled!Exit, Sp!Reuse, Px!Polled!Reuse, Sp!AdminRestart,
    Px!Polled!AdminRestart, Sp!Request, Px!Polled!Request, Sp!Worker, Px!Polled!Worker,
    Sp!Poll, Px!Polled!Poll, Sp!Status, Px!Polled!Status, Sp!TypeOK, Px!Polled!TypeOK,
    Sp!CallsTyped, Px!Polled!CallsTyped, Sp!Gone, Px!Polled!Gone, Sp!counts, Px!Polled!counts,
    Sp!Running, Px!Polled!Running, Sp!Spawn, Px!Polled!Spawn, Sp!WriteState,
    Px!Polled!WriteState, Sp!AwaitHealth, Px!Polled!AwaitHealth, Sp!StopRead,
    Px!Polled!StopRead, Sp!IsBroker, Px!Polled!IsBroker, Sp!Terminate, Px!Polled!Terminate,
    Sp!ReapStopped, Px!Polled!ReapStopped, Sp!Escalate, Px!Polled!Escalate, Sp!Unlink,
    Px!Polled!Unlink, Sp!StopDone, Px!Polled!StopDone, Sp!ReadState, Px!Polled!ReadState,
    Sp!Reap, Px!Polled!Reap, Sp!Alive, Px!Polled!Alive, Sp!ClearState, Px!Polled!ClearState,
    Sp!Places, Px!Polled!Places, Sp!Go, Px!Polled!Go, Sp!Signal, Px!Polled!Signal, Sp!Dead,
    Px!Polled!Dead, Sp!Stopped, Px!Polled!Stopped, Sp!PidAlive, Px!Polled!PidAlive

-----------------------------------------------------------------------------

\* The inductive invariants of the parts; each implies what AccessClosed, ChangesAnnounced,
\* ToolFolderKept, ManifestsAgree and BrokerOwned say of it.
PartsInv ==
    /\ comp = "sessions" => Se!SessionsInv
    /\ comp = "login" => Lg!LoginInv
    /\ comp = "config" => Rc!SavesInv /\ Rc!LoopInv
    /\ comp = "config_remove" => Rw!SavesInv
    /\ comp = "settings" => Cs!EditsInv
    /\ comp = "tokens" => Ct!TokensInv
    /\ comp = "sources" => Ts!SourcesInv
    /\ comp = "manifest" => Mf!ManifestInv
    /\ comp = "catalog" => Cv!CatalogInv
    /\ comp = "adopt" => Sa!RecordInv
    /\ comp = "pages" => Sp!SignalInv

LEMMA Assumed ==
  /\ Px!Sess!SessionsAssumption
  /\ Px!Login!LoginGuardAssumption
  /\ Py!Conf!RunConfigAssumption
  /\ Px!Conf!RunConfigAssumption
  /\ Px!Page!CallerEditsAssumption
  /\ Py!Page!CallerEditsAssumption
  /\ Px!Folder!ToolSourcesAssumption
  /\ Px!Toml!ManifestAssumption
  /\ Px!Seen!CatalogViewAssumption
  /\ Px!Adopt!SupervisorAssumption
  /\ Px!Polled!SupervisorAssumption
  BY PanelAssumption, SameSessions, SameLogin, SameConfig, SameRemoval, SameSettings, SameTokens, SameFolders, SameManifest, SameCatalog, SameAdopt, SamePages DEF PanelAssumption

LEMMA PartsInvHolds == Spec => []PartsInv
<1>1. ASSUME Init PROVE PartsInv
  <2>1. comp = "sessions" => Se!SessionsInv
    BY <1>1, Assumed, Px!SessionsInit, SameSessions DEF Init, Start
  <2>2. comp = "login" => Lg!LoginInv
    BY <1>1, Assumed, Px!LoginInit, SameLogin DEF Init, Start
  <2>3. comp = "config" => Rc!SavesInv /\ Rc!LoopInv
    BY <1>1, Assumed, Py!SavesInit, Py!LoopInit, SameConfig DEF Init, Start
  <2>4. comp = "config_remove" => Rw!SavesInv
    BY <1>1, Assumed, Px!SavesInit, SameRemoval DEF Init, Start
  <2>5. comp = "settings" => Cs!EditsInv
    BY <1>1, Assumed, Px!EditsInit, SameSettings DEF Init, Start
  <2>6. comp = "tokens" => Ct!TokensInv
    BY <1>1, Assumed, Py!TokensInit, SameTokens DEF Init, Start
  <2>7. comp = "sources" => Ts!SourcesInv
    BY <1>1, Assumed, Px!FolderInit, SameFolders DEF Init, Start
  <2>8. comp = "manifest" => Mf!ManifestInv
    BY <1>1, Assumed, Px!TomlInit, SameManifest DEF Init, Start
  <2>9. comp = "catalog" => Cv!CatalogInv
    BY <1>1, Assumed, Px!CatalogInit, SameCatalog DEF Init, Start
  <2>10. comp = "adopt" => Sa!RecordInv
    BY <1>1, Assumed, Px!RecordInit, SameAdopt DEF Init, Start
  <2>11. comp = "pages" => Sp!SignalInv
    BY <1>1, Assumed, Px!SignalInit, SamePages DEF Init, Start
  <2> QED BY <2>1, <2>2, <2>3, <2>4, <2>5, <2>6, <2>7, <2>8, <2>9, <2>10, <2>11 DEF PartsInv
<1>2. ASSUME PartsInv, [Next]_all PROVE PartsInv'
  <2>0. comp' = comp
    BY <1>2, OneComponent
  <2>1. ASSUME comp = "sessions" PROVE Se!SessionsInv'
    <3>1. Px!Sess!SessionsInv /\ [Px!Sess!Next]_(Px!Sess!vars)
      BY <1>2, <2>1, OneComponent, SameSessions DEF PartsInv
    <3> QED BY <3>1, Assumed, Px!SessionsNext, SameSessions
  <2>2. ASSUME comp = "login" PROVE Lg!LoginInv'
    <3>1. Px!Login!LoginInv /\ [Px!Login!Next]_(Px!Login!vars)
      BY <1>2, <2>2, OneComponent, SameLogin DEF PartsInv
    <3> QED BY <3>1, Assumed, Px!LoginNext, SameLogin
  <2>3. ASSUME comp = "config" PROVE Rc!SavesInv' /\ Rc!LoopInv'
    <3>1. Py!Conf!SavesInv /\ Py!Conf!LoopInv /\ [Py!Conf!Next]_(Py!Conf!vars)
      BY <1>2, <2>3, OneComponent, SameConfig DEF PartsInv
    <3> QED BY <3>1, Assumed, Py!SavesNext, Py!LoopNext, SameConfig
  <2>4. ASSUME comp = "config_remove" PROVE Rw!SavesInv'
    <3>1. Px!Conf!SavesInv /\ [Px!Conf!Next]_(Px!Conf!vars)
      BY <1>2, <2>4, OneComponent, SameRemoval DEF PartsInv
    <3> QED BY <3>1, Assumed, Px!SavesNext, SameRemoval
  <2>5. ASSUME comp = "settings" PROVE Cs!EditsInv'
    <3>1. Px!Page!EditsInv /\ [Px!Page!Next]_(Px!Page!vars)
      BY <1>2, <2>5, OneComponent, SameSettings DEF PartsInv
    <3> QED BY <3>1, Assumed, Px!EditsNext, SameSettings
  <2>6. ASSUME comp = "tokens" PROVE Ct!TokensInv'
    <3>1. Py!Page!TokensInv /\ [Py!Page!Next]_(Py!Page!vars)
      BY <1>2, <2>6, OneComponent, SameTokens DEF PartsInv
    <3>2. /\ "revoke_token" \notin {"create", "create_with", "rotate", "issue", "revoke"}
          /\ \A x, y \in {Rotator} : x = y
      OBVIOUS
    <3> QED BY <3>1, <3>2, Assumed, Py!TokensNext, SameTokens
  <2>7. ASSUME comp = "sources" PROVE Ts!SourcesInv'
    <3>1. Px!Folder!SourcesInv /\ [Px!Folder!Next]_(Px!Folder!vars)
      BY <1>2, <2>7, OneComponent, SameFolders DEF PartsInv
    <3> QED BY <3>1, Assumed, Px!FolderNext, SameFolders
  <2>8. ASSUME comp = "manifest" PROVE Mf!ManifestInv'
    <3>1. Px!Toml!ManifestInv /\ [Px!Toml!Next]_(Px!Toml!vars)
      BY <1>2, <2>8, OneComponent, SameManifest DEF PartsInv
    <3> QED BY <3>1, Assumed, Px!TomlNext, SameManifest
  <2>9. ASSUME comp = "catalog" PROVE Cv!CatalogInv'
    <3>1. Px!Seen!CatalogInv /\ [Px!Seen!Next]_(Px!Seen!vars)
      BY <1>2, <2>9, OneComponent, SameCatalog DEF PartsInv
    <3> QED BY <3>1, Assumed, Px!CatalogNext, SameCatalog
  <2>10. ASSUME comp = "adopt" PROVE Sa!RecordInv'
    <3>1. Px!Adopt!RecordInv /\ [Px!Adopt!Next]_(Px!Adopt!vars)
      BY <1>2, <2>10, OneComponent, SameAdopt DEF PartsInv
    <3> QED BY <3>1, Assumed, Px!RecordNext, SameAdopt
  <2>11. ASSUME comp = "pages" PROVE Sp!SignalInv'
    <3>1. Px!Polled!SignalInv /\ [Px!Polled!Next]_(Px!Polled!vars)
      BY <1>2, <2>11, OneComponent, SamePages DEF PartsInv
    <3> QED BY <3>1, Assumed, Px!SignalNext, SamePages
  <2> QED BY <2>0, <2>1, <2>2, <2>3, <2>4, <2>5, <2>6, <2>7, <2>8, <2>9, <2>10, <2>11 DEF PartsInv
<1> QED BY <1>1, <1>2, PTL DEF Spec

-----------------------------------------------------------------------------

\* For any number of requests and sessions: a session whose logout was answered, or that was
\* opened with a replaced password, opens no later request that reads the current key
\* (sessions.py); for any number of logins at a time, an address gets at most its limit of
\* wrong passwords in a window and one for each other login that was already past the check
\* (LoginGuard).
THEOREM AccessClosedHolds == Spec => []AccessClosed
<1>1. ASSUME PartsInv PROVE AccessClosed
  <2>1. comp = "sessions" => Se!ClosedOnNextRequest /\ Se!SessionsInv
    BY <1>1, Px!SessionsKeep, SameSessions DEF PartsInv
  <2>2. comp = "login" => Lg!PerIpBound /\ Lg!LoginInv
    BY <1>1, Assumed, Px!LoginKeeps, SameLogin DEF PartsInv
  <2> QED BY <2>1, <2>2 DEF AccessClosed
<1> QED BY <1>1, PartsInvHolds, PTL

\* For any number of requests and removals: a field of broker.toml that differs from the
\* original was announced in the audit trail, unless that was cleared (operator_audit.py); for
\* any processes, tools and crashes, a commit of a policy without an audit event belongs to a
\* command that is about to write it or that died (operations.py).
THEOREM ChangesAnnouncedHolds == Spec => []ChangesAnnounced
<1>1. ASSUME PartsInv PROVE ChangesAnnounced
  <2>1. comp = "config_remove" => Rw!NoSilentChange /\ Rw!SavesInv
    BY <1>1, Px!SavesKeeps, SameRemoval DEF PartsInv
  <2>2. comp = "settings" => Cs!CommitsAudited /\ Cs!EditsInv
    BY <1>1 DEF PartsInv, Cs!EditsInv
  <2> QED BY <1>1, <2>1, <2>2 DEF ChangesAnnounced, PartsInv
<1> QED BY <1>1, PartsInvHolds, PTL

\* For any tools, jobs, edits and crashes: a tool that the operator was told of exists whole
\* somewhere, one job works on the folders at a time, also when its caller is gone, and
\* discovery sees no half written folder of an update (tool_sources.py, blocking.py).
THEOREM ToolFolderKeptHolds == Spec => []ToolFolderKept
<1>1. ASSUME PartsInv PROVE ToolFolderKept
  <2>1. comp = "sources" => Ts!NothingLost /\ Ts!OneAtATime /\ Ts!WholeWhenSeen /\ Ts!SourcesInv
    BY <1>1, Px!FolderKeeps, SameFolders DEF PartsInv
  <2> QED BY <2>1 DEF ToolFolderKept
<1> QED BY <1>1, PartsInvHolds, PTL

\* For a manifest with any three of its fields changed: what the panel writes the runner loads,
\* reading a file back and saving it changes nothing the editor shows, and the risk of a rest operation the panel
\* wrote is that of its verb (tool_authoring.py, config.py).
THEOREM ManifestsAgreeHolds == Spec => []ManifestsAgree
<1>1. ASSUME PartsInv PROVE ManifestsAgree BY <1>1 DEF ManifestsAgree, PartsInv
<1> QED BY <1>1, PartsInvHolds, PTL

\* For any process ids, reuse of them, deaths, failures and restarts of the admin app: between
\* calls a broker that runs and was not told to stop is the recorded one; and with pages that
\* poll at any time, no signal reaches a process that was given the pid of a broker
\* (supervisor.py, _terminate).
THEOREM BrokerOwnedHolds == Spec => []BrokerOwned
<1>1. ASSUME PartsInv PROVE BrokerOwned
  <2>1. comp = "adopt" => Sa!Recorded /\ Sa!RecordInv
    BY <1>1, Px!RecordKeeps, SameAdopt DEF PartsInv
  <2>2. comp = "pages" => Sp!NoForeignSignal /\ Sp!SignalInv
    BY <1>1, Px!SignalKeeps, SamePages DEF PartsInv
  <2> QED BY <1>1, <2>1, <2>2 DEF BrokerOwned, PartsInv
<1> QED BY <1>1, PartsInvHolds, PTL

\* An edit does what its operator was shown, for any editors, tools and crashes: a save of the
\* settings page changes the policy on that page only (caller_settings.apply), a tool that is
\* switched off is denied (set_enabled_tools), a rotation leaves a token when one process
\* rotates (rotate_token), and a save of broker.toml keeps the approval token and is audited
\* under every field it changes (merge_update).
THEOREM EditsAsSeenHolds == Spec => EditsAsSeen
<1> DEFINE Seen ==
      /\ comp = "settings" => Cs!SettingsSeen /\ Cs!DisablingRevokes
      /\ comp = "tokens" => Ct!NeverTokenless
      /\ comp = "config" => Rc!TokenKept /\ Rc!FieldsNamed
<1>1. ASSUME PartsInv, [Next]_all PROVE Seen
  <2>1. ASSUME comp = "settings" PROVE Cs!SettingsSeen /\ Cs!DisablingRevokes
    <3>1. Px!Page!EditsInv /\ [Px!Page!Next]_(Px!Page!vars)
      BY <1>1, <2>1, OneComponent, SameSettings DEF PartsInv
    <3> QED BY <3>1, Assumed, Px!EditsKeep, SameSettings
  <2>2. ASSUME comp = "tokens" PROVE Ct!NeverTokenless
    <3>1. Py!Page!TokensInv /\ [Py!Page!Next]_(Py!Page!vars)
      BY <1>1, <2>2, OneComponent, SameTokens DEF PartsInv
    <3>2. /\ "revoke_token" \notin {"create", "create_with", "rotate", "issue", "revoke"}
          /\ \A x, y \in {Rotator} : x = y
      OBVIOUS
    <3> QED BY <3>1, <3>2, Assumed, Py!TokensNext, SameTokens
  <2>3. ASSUME comp = "config" PROVE Rc!TokenKept /\ Rc!FieldsNamed
    <3>1. Py!Conf!SavesInv /\ Py!Conf!LoopInv /\ [Py!Conf!Next]_(Py!Conf!vars)
      BY <1>1, <2>3, OneComponent, SameConfig DEF PartsInv
    <3> QED BY <3>1, Py!LoopKeeps, SameConfig
  <2> QED BY <2>1, <2>2, <2>3
<1> QED BY <1>1, PartsInvHolds, PTL DEF Spec, EditsAsSeen

\* For any manifests, reloads, starts and deaths of the broker: the catalog that the panel
\* certifies is the one the broker has loaded, and after a failed reload nothing is certified
\* until one succeeds (catalog_receipt.py).
THEOREM CatalogCertifiedHolds == Spec => CatalogCertified
<1>1. ASSUME PartsInv, [Next]_all
      PROVE  comp = "catalog" => Cv!CertifiedIsLoaded /\ Cv!FailedReloadUncertified
  <2>1. ASSUME comp = "catalog" PROVE Px!Seen!CatalogInv /\ [Px!Seen!Next]_(Px!Seen!vars)
    BY <1>1, <2>1, OneComponent, SameCatalog DEF PartsInv
  <2> QED BY <2>1, Assumed, Px!CatalogCertifies, SameCatalog
<1> QED BY <1>1, PartsInvHolds, PTL DEF Spec, CatalogCertified

=============================================================================
