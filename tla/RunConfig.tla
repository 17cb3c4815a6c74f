------------------------------ MODULE RunConfig -----------------------------
(***************************************************************************)
(* broker.toml, the run configuration the panel keeps and starts the       *)
(* broker from, and the audit records around every change of it            *)
(* (admin/broker_config.py, operator_audit.py).  Handlers run on one event *)
(* loop and give it up only while they read the request; removing an       *)
(* external tool runs on a worker thread with the configuration its        *)
(* request loaded.                                                         *)
(***************************************************************************)
EXTENDS Integers, FiniteSets

CONSTANTS
    Handlers,       \* requests on the event loop
    Workers,        \* the worker thread for removals, if any
    Tools,          \* external tool folders
    None

\* Assumed of the constants; the module of a run asserts it of its instances.
RunConfigAssumption == Handlers \cap Workers = {} /\ Cardinality(Workers) <= 1

Actors == Handlers \cup Workers

VARIABLES
    file,           \* broker.toml
    trail,          \* audit: the pairs of a record's kind and a field it names
    cleared,        \* the operator cleared the audit
    job             \* actor -> its step, the configuration seen on arrival, and its change

vars == <<file, trail, cleared, job>>

Rates == -1..1
Urls == {"", "http"}
Tokens == {"", "t"}

Initial == [rate |-> 0, url |-> "", token |-> "", dirs |-> {}]
Idle == [pc |-> "idle", seen |-> Initial, old |-> Initial, new |-> Initial, tool |-> None]

Init == file = Initial /\ trail = {} /\ cleared = FALSE /\ job = [a \in Actors |-> Idle]

Fields(old, new) == {f \in DOMAIN old : old[f] # new[f]}

\* A handler past its last await holds the event loop to its end.
LoopFree == \A h \in Handlers : job[h].pc \in {"idle", "body"}

-----------------------------------------------------------------------------
(* merge_update *)

ValidateNodUrl(url) == url # "http"

\* Fields the request leaves out stay; so does a token given as blank.
MergeUpdate(current, data) ==
    [current EXCEPT !.rate = IF data.rate = None THEN @ ELSE data.rate,
                    !.url = IF data.url = None THEN @ ELSE data.url,
                    !.token = IF data.token \in {None, ""} THEN @ ELSE data.token]

Accepted(config) == config.rate >= 0 /\ ValidateNodUrl(config.url)

-----------------------------------------------------------------------------
(* Requests *)

Load(h) == file

Arrive(h) ==
    /\ LoopFree /\ job[h].pc = "idle"
    /\ job' = [job EXCEPT ![h] = [Idle EXCEPT !.pc = "body", !.seen = file]]
    /\ UNCHANGED <<file, trail, cleared>>

Begin(a, old, new) == job' = [job EXCEPT ![a].pc = "request", ![a].old = old, ![a].new = new]

SaveConfig(h) ==
    /\ LoopFree /\ job[h].pc = "body"
    /\ \E r \in Rates \cup {None}, u \in Urls \cup {None}, t \in Tokens \cup {None} :
        LET updated == MergeUpdate(Load(h), [rate |-> r, url |-> u, token |-> t]) IN
        IF Accepted(updated) THEN Begin(h, Load(h), updated) ELSE job' = [job EXCEPT ![h] = Idle]
    /\ UNCHANGED <<file, trail, cleared>>

\* A tool written into a folder outside tools_root is registered.
CreateTool(h) ==
    /\ LoopFree /\ job[h].pc = "body"
    /\ \E t \in Tools :
        LET current == Load(h) IN t \notin current.dirs /\ Begin(h, current, [current EXCEPT !.dirs = @ \cup {t}])
    /\ UNCHANGED <<file, trail, cleared>>

\* The request to remove a tool loads the configuration and hands it to the worker, which has
\* one slot (admin/blocking.py).
RemoveRequest(w) ==
    /\ LoopFree /\ job[w].pc = "idle"
    /\ \E t \in Tools : job' = [job EXCEPT ![w] = [Idle EXCEPT !.pc = "list", !.seen = file, !.tool = t]]
    /\ UNCHANGED <<file, trail, cleared>>

\* The worker looks the tool up in that configuration and stops it; either may fail.
RemoveTool(w) ==
    /\ job[w].pc = "list"
    /\ LET config == job[w].seen IN
        \/ job[w].tool \in config.dirs /\ Begin(w, config, [config EXCEPT !.dirs = @ \ {job[w].tool}])
        \/ job' = [job EXCEPT ![w] = Idle]
    /\ UNCHANGED <<file, trail, cleared>>

-----------------------------------------------------------------------------
(* operator_audit *)

Record(kind, fields) == trail' = trail \cup ({kind} \X fields)

\* Mutant: the save goes on when its request cannot be recorded.
RequestLenient(a) ==
    /\ job[a].pc = "request"
    /\ \/ Record("config_change_requested", Fields(job[a].old, job[a].new))
       \/ UNCHANGED trail
    /\ job' = [job EXCEPT ![a].pc = "save"]
    /\ UNCHANGED <<file, cleared>>

\* The change is announced; when that fails it does not happen.
Request(a) ==
    /\ job[a].pc = "request"
    /\ \/ Record("config_change_requested", Fields(job[a].old, job[a].new)) /\ job' = [job EXCEPT ![a].pc = "save"]
       \/ UNCHANGED trail /\ job' = [job EXCEPT ![a] = Idle]
    /\ UNCHANGED <<file, cleared>>

\* The whole file is replaced.
Save(a) ==
    /\ job[a].pc = "save"
    /\ file' = job[a].new /\ job' = [job EXCEPT ![a].pc = "changed"]
    /\ UNCHANGED <<trail, cleared>>

\* The change is recorded; a failure is reported as an applied change.
Changed(a) ==
    /\ job[a].pc = "changed"
    /\ Record("config_changed", Fields(job[a].old, job[a].new)) \/ UNCHANGED trail
    /\ job' = [job EXCEPT ![a] = Idle]
    /\ UNCHANGED <<file, cleared>>

\* The records go; the marker, or the report of its loss, names no field.
ClearAudit(h) ==
    /\ LoopFree /\ job[h].pc = "body"
    /\ trail' = {}
    /\ cleared' = TRUE /\ job' = [job EXCEPT ![h] = Idle]
    /\ UNCHANGED file

Crash ==
    /\ job' = [a \in Actors |-> Idle]
    /\ UNCHANGED <<file, trail, cleared>>

Next ==
    \/ \E h \in Handlers : Arrive(h) \/ SaveConfig(h) \/ CreateTool(h) \/ ClearAudit(h)
    \/ \E w \in Workers : RemoveRequest(w) \/ RemoveTool(w)
    \/ \E a \in Actors : Request(a) \/ Save(a) \/ Changed(a)
    \/ Crash

Spec == Init /\ [][Next]_vars

-----------------------------------------------------------------------------
(* Properties *)

\* However saves, removals, audit failures and crashes interleave, a field whose value is no
\* longer the original one was announced by a record, unless the operator cleared the audit.
NoSilentChange ==
    \A f \in Fields(Initial, file) : cleared \/ <<"config_change_requested", f>> \in trail

\* The token the broker uses to ask for approvals is never lost by saving something else.
TokenKept == file.token # "" => file'.token # ""

\* The records around a change name every field whose value it changes in the file.
FieldsNamed ==
    file' # file => \E a \in Actors : job[a].pc = "save" /\ Fields(file, file') \subseteq Fields(job[a].old, job[a].new)

-----------------------------------------------------------------------------

\* The inductive invariant behind NoSilentChange: every configuration that is in the file, or
\* that a job has read or announced, differs from the original in announced fields only.
Configs == [rate : Rates, url : Urls, token : Tokens, dirs : SUBSET Tools]
Announced(c) == \A f \in Fields(Initial, c) : cleared \/ <<"config_change_requested", f>> \in trail

SavesInv ==
    /\ file \in Configs /\ cleared \in BOOLEAN
    /\ job \in [Actors -> [pc : {"idle", "body", "list", "request", "save", "changed"},
                           seen : Configs, old : Configs, new : Configs, tool : Tools \cup {None}]]
    /\ Announced(file)
    /\ \A a \in Actors :
          /\ Announced(job[a].seen) /\ Announced(job[a].old)
          /\ job[a].pc \in {"save", "changed"} => Announced(job[a].new)

\* The one behind TokenKept and FieldsNamed, with no removal at work: the handler that holds
\* the event loop has read the configuration that is in the file.
LoopInv ==
    /\ \A h \in Handlers :
          job[h].pc \in {"request", "save"} =>
              job[h].old = file /\ (file.token # "" => job[h].new.token # "")
    /\ \A g, h \in Handlers :
          job[g].pc \notin {"idle", "body"} /\ job[h].pc \notin {"idle", "body"} => g = h

=============================================================================
