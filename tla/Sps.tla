-------------------------------- MODULE Sps ---------------------------------
(***************************************************************************)
(* The secrets provider: its bounded threading server (sps/server.py), its *)
(* handlers and registrations (sps/handlers.py, sps/store.py), and the     *)
(* client that the runner and the tools' SDK use (sps/client.py,           *)
(* sps/tool_sdk.py).  One connection carries one request and one reply; a  *)
(* request passes admission, reading, dispatch, the backend, the audit log *)
(* and the reply, and other requests come in between.                      *)
(***************************************************************************)
EXTENDS Naturals, FiniteSets

CONSTANTS
    Tools,          \* tool ids, which are also the backend's items
    Esecrets,       \* the E_SECRETs of the tools' processes, old and new
    ToolOf,         \* the tool whose process was given an E_SECRET
    Names,          \* secret names, which are also the backend's fields
    Decls,          \* the declarations a runner may register: sets of entries
    Grants,         \* config.grants: the other tools' items a tool may use
    Ops,            \* the operations the clients call
    Conns,          \* concurrent connections
    MaxWorkers,     \* max_workers
    MaxCalls,       \* calls in all
    MaxFaults,      \* broken transports, failing backends, a failing audit log
    None

Entry == [name : Names, item : Tools, writable : BOOLEAN]

\* Assumed of the constants; the module of a run asserts it of its instances.
SpsAssumption ==
    /\ ToolOf \in [Esecrets -> Tools]
    /\ Grants \in [Tools -> SUBSET Tools]
    /\ Decls \subseteq SUBSET Entry
    /\ None \notin Esecrets /\ IsFiniteSet(Conns)
    /\ MaxWorkers \in Nat \ {0} /\ {MaxCalls, MaxFaults} \subseteq Nat

VARIABLES
    reg,        \* ToolRegistrationStore._by_id
    backend,    \* the plugin's values, as numbers of the calls that wrote them
    held,       \* every value each backend entry has held
    slots,      \* the free permits of the BoundedSemaphore
    conn,       \* the connections
    rejects,    \* the rejections counted and not yet summarised
    summed,     \* the rejections in summaries that reached the audit log
    happened,   \* the rejections there were
    logged,     \* the calls with an audit event of their own
    cache,      \* SecretClient._cache of the process that has an E_SECRET
    calls, faults

vars == <<reg, backend, held, slots, conn, rejects, summed, happened, logged, cache, calls, faults>>
counts == <<rejects, summed, happened>>

Key == Tools \X Names
NoMsg == [op |-> "none", es |-> None, name |-> None, decl |-> {}, sp |-> FALSE]
Idle == [pc |-> "idle", id |-> 0, msg |-> NoMsg, todo |-> {}, body |-> {}, reply |-> "none",
         taken |-> 0, cur |-> FALSE]

Init ==
    /\ reg = [t \in Tools |-> None]
    /\ backend = [k \in Key |-> 0] /\ held = [k \in Key |-> {0}]
    /\ slots = MaxWorkers
    /\ conn = [c \in Conns |-> Idle]
    /\ rejects = 0 /\ summed = 0 /\ happened = 0
    /\ logged = {}
    /\ cache = [e \in Esecrets |-> [n \in Names |-> None]]
    /\ calls = 0 /\ faults = 0

Set(c, fields) ==
    conn' = [conn EXCEPT ![c] = [f \in DOMAIN @ |-> IF f \in DOMAIN fields THEN fields[f] ELSE @[f]]]

\* _record_reject.
Reject == rejects' = rejects + 1 /\ happened' = happened + 1 /\ UNCHANGED summed

Fault == faults < MaxFaults /\ faults' = faults + 1

\* Whether an E_SECRET is its tool's current one.
Current(r, e) == r[ToolOf[e]] # None /\ r[ToolOf[e]].esecret = e

-----------------------------------------------------------------------------
(* Clients *)

Messages ==
    [op : Ops \cap {"register"}, es : Esecrets, name : {None}, decl : Decls, sp : BOOLEAN]
    \cup [op : Ops \cap {"unregister", "get_secrets"}, es : Esecrets, name : {None},
          decl : {{}}, sp : {TRUE}]
    \cup [op : Ops \cap {"get_secret", "write_secret"}, es : Esecrets, name : Names,
          decl : {{}}, sp : {FALSE}]
    \cup [op : Ops \cap {"ping"}, es : {None}, name : {None}, decl : {{}}, sp : {FALSE}]

\* SPSClient._call: a new connection for every call.
Call(c, m) ==
    /\ conn[c].pc = "idle" /\ calls < MaxCalls
    /\ calls' = calls + 1
    /\ Set(c, [pc |-> "queued", id |-> calls', msg |-> m,
               cur |-> m.es # None /\ Current(reg, m.es)])
    /\ UNCHANGED <<reg, backend, held, slots, counts, logged, cache, faults>>

\* The reply arrives, and SecretClient keeps what it brought.  An error, or a reply that
\* is lost, raises and leaves the cache alone.
Receive(c) ==
    /\ conn[c].pc = "replied"
    /\ LET m == conn[c].msg
           got == [n \in {b[1] : b \in conn[c].body} |-> (CHOOSE b \in conn[c].body : b[1] = n)[2]]
           value(n) == IF n \in DOMAIN got THEN got[n] ELSE None
       IN \/ conn[c].reply = "ok" /\
             cache' = (CASE m.op = "get_secrets" -> [cache EXCEPT ![m.es] = [n \in Names |-> value(n)]]
                         [] m.op = "get_secret" -> [cache EXCEPT ![m.es][m.name] = value(m.name)]
                         [] m.op = "write_secret" -> [cache EXCEPT ![m.es][m.name] = conn[c].id]
                         [] OTHER -> cache) /\ UNCHANGED faults
          \/ conn[c].reply # "ok" /\ UNCHANGED <<cache, faults>>
          \/ conn[c].reply = "ok" /\ Fault /\ UNCHANGED cache
    /\ conn' = [conn EXCEPT ![c] = Idle]
    /\ UNCHANGED <<reg, backend, held, slots, counts, logged, calls>>

-----------------------------------------------------------------------------
(* The server *)

\* process_request: admission never waits.
Admit(c) ==
    /\ conn[c].pc = "queued"
    /\ \/ /\ slots > 0 /\ slots' = slots - 1
          /\ Set(c, [pc |-> "enter"])
          /\ UNCHANGED counts
       \/ /\ slots = 0 /\ UNCHANGED slots
          /\ Set(c, [pc |-> "replied", reply |-> "closed"])
          /\ Reject
    /\ UNCHANGED <<reg, backend, held, logged, cache, calls, faults>>

\* The kernel has no thread to give: the permit goes back.
NoThread(c) ==
    /\ conn[c].pc = "queued" /\ slots > 0 /\ Fault
    /\ Set(c, [pc |-> "replied", reply |-> "closed"])
    /\ UNCHANGED <<reg, backend, held, slots, counts, logged, cache, calls>>

FlushPcs == {"enter", "leave"}
Flushing(pc) == IF pc = "enter" THEN "enter_flush" ELSE "leave_flush"
After(pc) == IF pc = "enter" THEN "read" ELSE "release"

\* _flush_rejects: take the counts under the lock, at most once a second ...
FlushTake(c) ==
    /\ conn[c].pc \in FlushPcs
    /\ \/ /\ rejects > 0 /\ rejects' = 0
          /\ Set(c, [pc |-> Flushing(conn[c].pc), taken |-> rejects])
       \/ /\ Set(c, [pc |-> After(conn[c].pc)])
          /\ UNCHANGED rejects
    /\ UNCHANGED <<reg, backend, held, slots, summed, happened, logged, cache, calls, faults>>

\* ... and write the summary, best effort.
FlushWrite(c) ==
    /\ conn[c].pc \in {"enter_flush", "leave_flush"}
    /\ \/ summed' = summed + conn[c].taken /\ UNCHANGED faults
       \/ Fault /\ UNCHANGED summed
    /\ Set(c, [pc |-> IF conn[c].pc = "enter_flush" THEN "read" ELSE "release", taken |-> 0])
    /\ UNCHANGED <<reg, backend, held, slots, rejects, happened, logged, cache, calls>>

\* The handshake and read_socket_json, each with its deadline: a message, a broken
\* transport, or a body that is late or no message, which is answered.
Read(c) ==
    /\ conn[c].pc = "read"
    /\ \/ Set(c, [pc |-> "dispatch"]) /\ UNCHANGED <<counts, faults>>
       \/ Fault /\ Set(c, [pc |-> "leave", reply |-> "closed"]) /\ Reject
       \/ /\ Fault /\ UNCHANGED counts
          /\ Set(c, [pc |-> "audit", reply |-> "Bad request", msg |-> [conn[c].msg EXCEPT !.op = "invalid"]])
    /\ UNCHANGED <<reg, backend, held, slots, logged, cache, calls>>

\* parse_cs_tuples.
Duplicate(decl) == \E a, b \in decl : a # b /\ a.name = b.name

Ungranted(t, decl) == \E a \in decl : a.item # t /\ a.item \notin Grants[t]

\* Mutant: any item may be declared.
RefusalOwn(m) ==
    CASE ~m.sp -> "Unauthorized"
      [] m.op = "register" /\ Duplicate(m.decl) -> "Bad request"
      [] OTHER -> "ok"

\* What handle_register and handle_unregister answer.
Refusal(m) ==
    CASE ~m.sp -> "Unauthorized"
      [] m.op = "register" /\ Duplicate(m.decl) -> "Bad request"
      [] m.op = "register" /\ Ungranted(ToolOf[m.es], m.decl) -> "Unauthorized"
      [] OTHER -> "ok"

DispatchRunner(c) ==
    LET m == conn[c].msg
        t == ToolOf[m.es]
    IN /\ conn[c].pc = "dispatch" /\ m.op \in {"register", "unregister"}
       /\ reg' = IF Refusal(m) # "ok" THEN reg
                 ELSE [reg EXCEPT ![t] = IF m.op = "unregister" THEN None
                                         ELSE [esecret |-> m.es, entries |-> m.decl]]
       /\ conn' = [d \in Conns |->
             LET x == IF d = c THEN [conn[d] EXCEPT !.pc = "audit", !.reply = Refusal(m)] ELSE conn[d]
             IN [x EXCEPT !.cur = @ \/ (x.msg.es # None /\ Current(reg', x.msg.es))]]
       /\ UNCHANGED <<backend, held, slots, counts, logged, cache, calls, faults>>

\* check_es.
Authorized(m) == reg[ToolOf[m.es]] # None /\ reg[ToolOf[m.es]].esecret = m.es

\* handle_ping, and the part of the tool's operations that comes before the backend.  The
\* registration is read here, once.
DispatchTool(c) ==
    LET m == conn[c].msg
        entries == IF m.op = "ping" THEN {} ELSE reg[ToolOf[m.es]].entries
        match == {a \in entries : m.op = "get_secrets" \/ a.name = m.name}
        refuse(r) == Set(c, [pc |-> "audit", reply |-> r])
    IN /\ conn[c].pc = "dispatch" /\ m.op \in {"ping", "get_secrets", "get_secret", "write_secret"}
       /\ CASE m.op = "ping" -> refuse("ok")
            [] m.op # "ping" /\ ~Authorized(m) -> refuse("Unauthorized")
            [] m.op \in {"get_secret", "write_secret"} /\ Authorized(m) /\ match = {} -> refuse("Not found")
            [] m.op = "write_secret" /\ Authorized(m) /\ \E a \in match : ~a.writable -> refuse("Not writable")
            [] OTHER -> Set(c, [pc |-> "backend", todo |-> match])
       /\ UNCHANGED <<reg, backend, held, slots, counts, logged, cache, calls, faults>>

\* One read of the plugin; the loop of _get_secrets_bounded makes one for each entry.
BackendRead(c) ==
    /\ conn[c].pc = "backend" /\ conn[c].msg.op # "write_secret"
    /\ \/ /\ conn[c].todo = {}
          /\ Set(c, [pc |-> "audit", reply |-> "ok"])
          /\ UNCHANGED faults
       \/ \E a \in conn[c].todo :
             /\ Set(c, [todo |-> conn[c].todo \ {a},
                        body |-> conn[c].body \cup {<<a.name, backend[<<a.item, a.name>>], a.item>>}])
             /\ UNCHANGED faults
       \/ /\ conn[c].todo # {} /\ Fault
          /\ Set(c, [pc |-> "audit", reply |-> "Backend error", body |-> {}, todo |-> {}])
    /\ UNCHANGED <<reg, backend, held, slots, counts, logged, cache, calls>>

\* The plugin's write: done, refused, or done by a backend whose answer was lost.
BackendWrite(c) ==
    /\ conn[c].pc = "backend" /\ conn[c].msg.op = "write_secret"
    /\ \E a \in conn[c].todo :
          LET k == <<a.item, a.name>>
              write == /\ backend' = [backend EXCEPT ![k] = conn[c].id]
                       /\ held' = [held EXCEPT ![k] = @ \cup {conn[c].id}]
          IN \/ write /\ UNCHANGED faults /\ Set(c, [pc |-> "audit", reply |-> "ok", todo |-> {}])
             \/ /\ Fault /\ (write \/ UNCHANGED <<backend, held>>)
                /\ Set(c, [pc |-> "audit", reply |-> "Backend error", todo |-> {}])
    /\ UNCHANGED <<reg, slots, counts, logged, cache, calls>>

\* Mutant: an audit log that cannot be written is ignored.
AuditOpen(c) ==
    /\ conn[c].pc = "audit"
    /\ IF conn[c].msg.op \in {"ping", "invalid"} \/ conn[c].reply \in {"Bad request", "Unauthorized"}
       THEN Reject /\ Set(c, [pc |-> "reply"]) /\ UNCHANGED <<logged, faults>>
       ELSE /\ UNCHANGED counts
            /\ Set(c, [pc |-> "reply"])
            /\ \/ logged' = logged \cup {conn[c].id} /\ UNCHANGED faults
               \/ Fault /\ UNCHANGED logged
    /\ UNCHANGED <<reg, backend, held, slots, cache, calls>>

\* Refusals are only counted; everything else is logged first, and a log that cannot be
\* written turns the answer into an error, whatever the backend has done.
Audit(c) ==
    /\ conn[c].pc = "audit"
    /\ IF conn[c].msg.op \in {"ping", "invalid"} \/ conn[c].reply \in {"Bad request", "Unauthorized"}
       THEN Reject /\ Set(c, [pc |-> "reply"]) /\ UNCHANGED <<logged, faults>>
       ELSE /\ UNCHANGED counts
            /\ \/ logged' = logged \cup {conn[c].id} /\ UNCHANGED faults /\ Set(c, [pc |-> "reply"])
               \/ /\ Fault /\ UNCHANGED logged
                  /\ Set(c, [pc |-> "reply", reply |-> "Backend error", body |-> {}])
    /\ UNCHANGED <<reg, backend, held, slots, cache, calls>>

Reply(c) ==
    /\ conn[c].pc = "reply"
    /\ Set(c, [pc |-> "leave"])
    /\ UNCHANGED <<reg, backend, held, slots, counts, logged, cache, calls, faults>>

\* Mutant: a transport that broke early keeps its permit.
ReleaseServed(c) ==
    /\ conn[c].pc = "release"
    /\ slots' = IF conn[c].reply = "closed" THEN slots ELSE slots + 1
    /\ Set(c, [pc |-> "replied"])
    /\ UNCHANGED <<reg, backend, held, counts, logged, cache, calls, faults>>

\* The finally of process_request_thread.
Release(c) ==
    /\ conn[c].pc = "release"
    /\ slots' = slots + 1
    /\ Set(c, [pc |-> "replied"])
    /\ UNCHANGED <<reg, backend, held, counts, logged, cache, calls, faults>>

ServerStep(c) ==
    \/ Admit(c) \/ FlushTake(c) \/ FlushWrite(c) \/ Read(c) \/ DispatchRunner(c) \/ DispatchTool(c)
    \/ BackendRead(c) \/ BackendWrite(c) \/ Audit(c) \/ Reply(c) \/ Release(c)

Next == \E c \in Conns :
            \/ \E m \in Messages : Call(c, m)
            \/ NoThread(c) \/ ServerStep(c) \/ Receive(c)

Spec == Init /\ [][Next]_vars

-----------------------------------------------------------------------------
(* Properties *)

Holds == {"enter", "enter_flush", "read", "dispatch", "backend", "audit", "reply", "leave",
          "leave_flush", "release"}

Replies == {"none", "ok", "closed", "Unauthorized", "Bad request", "Not found", "Not writable",
            "Backend error"}

\* The type of every variable; in particular no answer outside MESSAGE_SET.
TypeOK ==
    /\ \A t \in Tools : reg[t] # None => reg[t] \in [esecret : Esecrets, entries : SUBSET Entry]
    /\ backend \in [Key -> Nat] /\ held \in [Key -> SUBSET Nat]
    /\ slots \in 0 .. MaxWorkers
    /\ \A c \in Conns : conn[c].pc \in Holds \cup {"idle", "queued", "replied"} /\ conn[c].reply \in Replies
    /\ {rejects, summed, happened, calls, faults} \subseteq Nat
    /\ logged \subseteq 1 .. calls
    /\ cache \in [Esecrets -> [Names -> Nat \cup {None}]]

\* BoundedSemaphore(max_workers): whatever breaks, the permits and the workers that hold
\* one add up.
SlotsConserved == slots + Cardinality({c \in Conns : conn[c].pc \in Holds}) = MaxWorkers

\* Values are released only to a process whose E_SECRET was its tool's registered one at
\* some moment of the call, and only values of that tool or of items granted to it: a
\* tool that was stopped or restarted before it asks gets nothing.
ReleasesAllowed ==
    \A c \in Conns : conn[c].body # {} /\ conn[c].reply = "ok" =>
        /\ conn[c].cur
        /\ \A b \in conn[c].body : b[3] \in {ToolOf[conn[c].msg.es]} \cup Grants[ToolOf[conn[c].msg.es]]

\* "Fail closed on audit failure: do not release values or a success reply" (server.py):
\* nobody is told of a success, or given a value, that the audit log does not have.
FailClosed ==
    \A c \in Conns : conn[c].pc \in {"reply", "leave", "leave_flush", "release", "replied"} =>
        \/ conn[c].msg.op = "ping" \/ conn[c].id \in logged
        \/ conn[c].reply # "ok" /\ conn[c].body = {}

\* A tool's cache only holds values that the backend has held (SecretClient.writeback,
\* refresh): a write that failed, or whose outcome is unknown, is never taken for done.
CacheReal ==
    \A e \in Esecrets, n \in Names : cache[e][n] # None =>
        \E t \in {ToolOf[e]} \cup Grants[ToolOf[e]] : cache[e][n] \in held[<<t, n>>]

\* The summaries never count a rejection twice, however workers interleave in
\* _flush_rejects; they may lose some.
NotOvercounted ==
    LET inHand == {c \in Conns : conn[c].taken > 0}
    IN /\ summed + rejects <= happened
       /\ \A c \in inHand : summed + rejects + conn[c].taken <= happened

\* What the tools and the operators expect of the provider.
SecretsGuarded == TypeOK /\ ReleasesAllowed /\ FailClosed /\ CacheReal
WorkersCounted == TypeOK /\ SlotsConserved /\ NotOvercounted

-----------------------------------------------------------------------------
(* Why it holds *)

\* The items whose secrets a process may have.
Allowed(e) == {ToolOf[e]} \cup Grants[ToolOf[e]]

Unread == {"idle", "queued", "enter", "enter_flush", "read", "dispatch"}
Answered == {"reply", "leave", "leave_flush", "release", "replied"}

Connection ==
    [pc : Holds \cup {"idle", "queued", "replied"}, id : Nat,
     msg : [op : {"none", "invalid", "register", "unregister", "get_secrets", "get_secret",
                  "write_secret", "ping"},
            es : Esecrets \cup {None}, name : Names \cup {None}, decl : SUBSET Entry, sp : BOOLEAN],
     todo : SUBSET Entry, body : SUBSET (Names \X Nat \X Tools), reply : Replies, taken : Nat,
     cur : BOOLEAN]

\* A request knows its caller, and says truly whether that was registered during the call.
CallerKnown(c) ==
    LET m == conn[c].msg IN
    /\ conn[c].pc # "idle" => conn[c].id \in 1 .. calls
    /\ m.op \in {"register", "unregister", "get_secrets", "get_secret", "write_secret"} => m.es \in Esecrets
    /\ m.op \in {"get_secret", "write_secret"} => m.name \in Names
    /\ m.es # None /\ Current(reg, m.es) => conn[c].cur

\* What a request still has to read, and what it has read, is allowed to its caller.
ValuesAllowed(c) ==
    LET m == conn[c].msg IN
    /\ conn[c].todo # {} \/ conn[c].body # {} => conn[c].cur /\ m.es \in Esecrets
    /\ conn[c].body # {} => m.op \in {"get_secrets", "get_secret"}
    /\ \A a \in conn[c].todo : a.item \in Allowed(m.es) /\ (m.op = "write_secret" => a.name = m.name)
    /\ \A b \in conn[c].body : b[3] \in Allowed(m.es) /\ b[2] \in held[<<b[3], b[1]>>]

\* A success says what the backend has done, and only a success carries values.
RepliesTrue(c) ==
    LET m == conn[c].msg IN
    /\ conn[c].pc \in Unread => conn[c].reply = "none" /\ conn[c].body = {} /\ conn[c].todo = {}
    /\ conn[c].pc = "backend" => m.op \in {"get_secrets", "get_secret", "write_secret"}
    /\ conn[c].pc = "audit" /\ conn[c].reply # "ok" => conn[c].body = {}
    /\ conn[c].pc = "audit" /\ m.op = "invalid" => conn[c].reply # "ok"
    /\ m.op = "write_secret" /\ conn[c].reply = "ok" =>
          \E t \in Allowed(m.es) : conn[c].id \in held[<<t, m.name>>]
    /\ conn[c].pc \in Answered =>
          m.op = "ping" \/ conn[c].id \in logged \/ (conn[c].reply # "ok" /\ conn[c].body = {})

SpsInv ==
    /\ TypeOK /\ SlotsConserved /\ CacheReal
    /\ reg \in [Tools -> {None} \cup [esecret : Esecrets, entries : SUBSET Entry]]
    /\ \A t \in Tools : reg[t] # None => \A a \in reg[t].entries : a.item \in {t} \cup Grants[t]
    /\ \A k \in Key : backend[k] \in held[k]
    /\ conn \in [Conns -> Connection]
    /\ \A c \in Conns : CallerKnown(c) /\ ValuesAllowed(c) /\ RepliesTrue(c)

\* A call that waits for a worker, and a connection that is free again, for their progress.
Queued(c) == conn[c].pc = "queued"
Free(c) == conn[c].pc = "idle"

=============================================================================
