------------------------------ MODULE Manifest ------------------------------
(***************************************************************************)
(* One toolyard.toml on its way from the panel's editor or a source folder *)
(* to the programs that load it.  The panel normalises, validates and      *)
(* serialises (admin/tool_authoring.py); the runner (toolyard/config.py)   *)
(* and the broker (broker/registry.py) load the file with checks of their  *)
(* own.  A manifest is a function from fields to the values the checks     *)
(* tell apart; it has one operation, one secret and perhaps a twin.        *)
(***************************************************************************)
EXTENDS Integers, FiniteSets

CONSTANTS
    Runner,         \* process or docker: the runner of the deployment
    MaxChanges,     \* how many fields of a manifest differ from the plain one
    None

\* Assumed of the constants; the module of a run asserts it of its instances.
ManifestAssumption ==
    Runner \in {"process", "docker"} /\ MaxChanges \in Nat /\ None \notin {"panel", "source", "failed"}

VARIABLES
    form,           \* the editor's data, or the manifest in a source folder
    changes,        \* fields changed so far
    disk, via       \* the file under tools_root and how it came there; via is None while there is no file

vars == <<form, changes, disk, via>>

\* The values of a field; "" is a missing one.  "v6" is a base_url with an IPv6 host, twin a second
\* operation of the same name, placed whether secret references are where they may be.
Values == [
    id |-> {"tool", "my.tool", "long"}, type |-> {"", "api", "mcp", "rest", "odd"},
    port |-> {"int", "text", "", "big"}, url |-> {"https", "", "creds", "query", "v6"},
    command |-> {"cmd", ""}, image |-> {"", "img"}, dockerfile |-> BOOLEAN,
    name |-> {"op", "_op", "a-b", "refresh", ""}, twin |-> {"", "operation"},
    risk |-> {"", "read", "destructive", "odd"}, fields |-> {"absent", "some", "bad"}, arg |-> {"", "x", "x y"},
    verb |-> {"GET", "DELETE", "", "LIST"}, path |-> {"/p", "//p", "/p#f", "/p?q q"},
    body |-> {"", "none", "text", "odd"}, header |-> {"", "X-A", "X A"}, placed |-> BOOLEAN,
    rule |-> {"", "json", "untyped", "yaml", "pathless"}, redact |-> {"", "bool", "text"},
    secret |-> {"", "s", "s/t"}, field |-> {"f", ""}, item |-> {"", "own", "other"}, writable |-> BOOLEAN,
    egress |-> {"", "hosts"}, confirm |-> BOOLEAN]

Plain == [
    id |-> "tool", type |-> "api", port |-> "int", url |-> "https", command |-> "cmd", image |-> "", dockerfile |-> FALSE,
    name |-> "op", twin |-> "", risk |-> "read", fields |-> "absent", arg |-> "", verb |-> "GET", path |-> "/p",
    body |-> "none", header |-> "", placed |-> TRUE, rule |-> "", redact |-> "",
    secret |-> "", field |-> "f", item |-> "", writable |-> FALSE, egress |-> "", confirm |-> FALSE]

RestPlain == [Plain EXCEPT !.type = "rest", !.secret = "s", !.writable = TRUE]

Init == form \in {Plain, RestPlain} /\ changes = 0 /\ disk = None /\ via = None

-----------------------------------------------------------------------------
(* The panel *)

VerbRisk(v) == CASE v = "GET" -> "read" [] v = "DELETE" -> "destructive" [] OTHER -> "write"

\* A rule that names no response type is a json rule.
NormalRule(rule) == IF rule = "untyped" THEN "json" ELSE rule

\* An operation of a rest tool: its risk is its verb's and its arguments follow from its template.
NormalRest(m) ==
    LET v == IF m.verb = "" THEN "GET" ELSE m.verb IN
    [m EXCEPT !.verb = v, !.risk = VerbRisk(v), !.arg = "", !.rule = NormalRule(@),
              !.body = IF @ # "" THEN @ ELSE IF v \in {"GET", "DELETE"} THEN "none" ELSE "text"]

\* An operation of another tool has none of the rest fields.
NormalOther(m) ==
    [m EXCEPT !.risk = IF @ = "" THEN "read" ELSE @, !.verb = "", !.path = "", !.body = "",
              !.header = "", !.placed = TRUE, !.rule = "", !.redact = ""]

NoOperation(m) ==
    [m EXCEPT !.twin = "", !.risk = "", !.fields = "absent", !.arg = "", !.verb = "", !.path = "", !.body = "",
              !.header = "", !.placed = TRUE, !.rule = "", !.redact = ""]

NoSecret(m) == [m EXCEPT !.field = "", !.item = "", !.writable = FALSE]

Normalize(data) ==
    LET t == [data EXCEPT !.type = IF @ = "" THEN "api" ELSE @,
                          !.port = IF @ = "text" THEN "int" ELSE @, !.egress = "", !.confirm = FALSE]
        c == [t EXCEPT !.command = IF @ = "" /\ t.type = "rest" THEN "cmd" ELSE @]
        o == IF c.name = "" THEN NoOperation(c) ELSE IF c.type = "rest" THEN NormalRest(c) ELSE NormalOther(c)
    IN  IF o.secret = "" THEN NoSecret(o) ELSE o

\* secret_update_rules need a writable secret, a known type and a path, and both redaction decisions.
RulesValid(m) ==
    /\ m.rule # "" => m.rule = "json" /\ m.secret # "" /\ m.writable /\ m.redact = "bool"
    /\ m.redact \in {"", "bool"}

RestValid(m) ==
    /\ m.url \in {"https", "v6"}
    /\ m.verb \in {"GET", "DELETE"} /\ m.path = "/p" /\ m.body \in {"none", "text"} /\ m.header # "X A"
    /\ m.placed /\ RulesValid(m)

Validate(m, confirm) ==
    /\ m.id = "tool" /\ m.type \in {"api", "mcp", "rest"} /\ m.port = "int"
    /\ m.name \in {"op", "_op", "refresh"} /\ m.twin # "operation" /\ m.risk \in {"read", "write", "destructive"}
    /\ m.fields # "bad" /\ m.arg # "x y"
    /\ m.secret # "" => m.secret = "s" /\ m.field # "" /\ (m.item = "other" => confirm)
    /\ m.type = "rest" => RestValid(m)

\* A rest tool runs the bundled forwarder; docker wants an image or a Dockerfile, the other
\* runner a command.
EntrypointError(m) ==
    m.type # "rest" /\ IF Runner = "docker" THEN m.image = "" /\ ~m.dockerfile ELSE m.command = ""

\* Mutant: the pointers an approval may show are not written.
ToTomlDrops(m) == [m EXCEPT !.egress = "", !.fields = "absent", !.url = IF m.type = "rest" THEN @ ELSE ""]

\* What the file says: blank values are left out, and so is all the editor does not know.
ToToml(m) == [m EXCEPT !.egress = "", !.url = IF m.type = "rest" THEN @ ELSE ""]

Read(d) == Normalize(d)

-----------------------------------------------------------------------------
(* The loaders *)

\* toolyard/config.py
ValidateRest(d) ==
    /\ d.url \in {"https", "query", "v6"}
    /\ d.rule # "" => d.secret # "" /\ d.writable /\ d.rule = "json"

RunnerLoads(d) ==
    /\ d.id \in {"tool", "long"} /\ d.type \in {"", "api", "mcp", "rest"} /\ d.port = "int"
    /\ d.type = "rest" => ValidateRest(d)
    /\ d.secret # "" => d.field # ""

\* broker/registry.py
UrlHost(d) == d.url \in {"https", "query"}

BrokerLoads(d) ==
    /\ d.id \in {"tool", "long"} /\ d.type \in {"", "api", "mcp", "rest"} /\ d.port = "int"
    /\ d.type = "rest" => UrlHost(d)
    /\ d.name # "" =>
        /\ d.name \in {"op", "a-b", "refresh"} /\ d.twin # "operation" /\ d.fields # "bad"
        /\ d.type = "rest" => d.verb \in {"GET", "DELETE"} /\ d.path # "//p" /\ d.body \in {"", "none", "text"}
    /\ d.secret # "" => d.name # "refresh"

-----------------------------------------------------------------------------

Change ==
    /\ via = None /\ changes < MaxChanges /\ changes' = changes + 1
    /\ \E k \in DOMAIN Values : \E v \in Values[k] : form[k] # v /\ form' = [form EXCEPT ![k] = v]
    /\ UNCHANGED <<disk, via>>

\* The editor saves: what is validated is what is written.
Write ==
    /\ via = None
    /\ Validate(Normalize(form), form.confirm) /\ ~EntrypointError(Normalize(form))
    /\ disk' = ToToml(Normalize(form)) /\ via' = "panel"
    /\ UNCHANGED <<form, changes>>

\* A folder is added: its manifest is validated as read and copied as it is.  The copy is then
\* loaded; when that fails the add reports an error and the copy stays.
Ingest ==
    /\ via = None
    /\ Validate(Normalize(form), form.confirm) /\ ~EntrypointError(Normalize(form))
    /\ disk' = [form EXCEPT !.confirm = FALSE]
    /\ via' = IF RunnerLoads(disk') THEN "source" ELSE "failed"
    /\ UNCHANGED <<form, changes>>

\* The file is read into the editor, which lists tools that load, and saved unchanged.
Resave ==
    /\ via # None /\ RunnerLoads(disk)
    /\ Validate(Read(disk), TRUE) /\ ~EntrypointError(Read(disk))
    /\ disk' = ToToml(Read(disk)) /\ via' = "panel"
    /\ UNCHANGED <<form, changes>>

Next == Change \/ Write \/ Ingest \/ Resave

Spec == Init /\ [][Next]_vars

-----------------------------------------------------------------------------
(* Properties *)

\* What the panel writes the runner can load, whatever the editor was given.
RunnerAccepts == via = "panel" => RunnerLoads(disk)

Shown(m) == [m EXCEPT !.url = IF m.type = "rest" THEN @ ELSE ""]

\* Reading a file back into the editor and saving it changes nothing the editor shows, through
\* normalisation, serialisation and parsing.
RoundTrip == via # None => Shown(Read(disk)) = Shown(Normalize(form))

\* The risk the broker registers for a rest operation the panel wrote is that of its verb, also
\* when the file came from a source that said otherwise.
RiskFollowsVerb == via = "panel" /\ disk.type = "rest" => disk.risk = VerbRisk(disk.verb)

\* The inductive invariant behind these.
IsManifest(m) == m = [k \in DOMAIN Values |-> m[k]]

ManifestInv ==
    /\ IsManifest(form) /\ (via # None => IsManifest(disk))
    /\ RunnerAccepts /\ RoundTrip /\ RiskFollowsVerb

-----------------------------------------------------------------------------
(* Said of the code and not true of it (README, section 5) *)

\* "rejects a broken tool now (not at broker start)": a manifest that was accepted loads in
\* the broker.
BrokerAccepts == via \in {"panel", "source"} => BrokerLoads(disk)

=============================================================================
