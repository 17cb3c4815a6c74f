------------------------------- MODULE Egress -------------------------------
(***************************************************************************)
(* The per-tool egress proxy (toolyard/egress_proxy.py): connections that  *)
(* share a bounded number of handler threads, each with a deadline that a  *)
(* timer thread enforces while the handler resolves, connects and relays.  *)
(* getaddrinfo and connect are single steps whose duration is Deadline's.  *)
(***************************************************************************)
EXTENDS Integers, FiniteSets

CONSTANTS
    Conns,
    Slots,          \* 16 in the code
    Requests,       \* records [form, host, port]
    Allow,          \* entries <<host, port>>, with port 0 for a bare host
    MaxAddrs,       \* addresses a name resolves to
    MaxResponse,    \* _MAX_RESPONSE, in chunks
    MaxChunk

\* Assumed of the constants; the module of a run asserts it of its instances.
EgressAssumption == {Slots, MaxAddrs, MaxResponse, MaxChunk} \subseteq Nat \ {0}

VARIABLES
    free,           \* the semaphore's value
    pc,             \* per connection: where its handler is
    request,        \* the request line it has read
    late,           \* its deadline has passed
    expired, timer, \* what the timer thread has set, and whether it is armed
    client,         \* the client's socket can still be read and written
    upstream,       \* upstream_socket: none, fresh (published), connected or shut
    addrs,          \* addresses not tried yet
    relayed, sent   \* ghosts: chunks relayed, request bytes sent

vars == <<free, pc, request, late, expired, timer, client, upstream, addrs, relayed, sent>>

Idle == CHOOSE r \in Requests : TRUE

Init ==
    /\ free = Slots
    /\ pc = [c \in Conns |-> "away"] /\ request = [c \in Conns |-> Idle]
    /\ late = [c \in Conns |-> FALSE] /\ expired = [c \in Conns |-> FALSE]
    /\ timer = [c \in Conns |-> "off"] /\ client = [c \in Conns |-> TRUE]
    /\ upstream = [c \in Conns |-> "none"]
    /\ addrs = [c \in Conns |-> 0] /\ relayed = [c \in Conns |-> 0] /\ sent = [c \in Conns |-> FALSE]

To(c, p) == pc' = [pc EXCEPT ![c] = p]

\* process_request: no slot, no service; a thread that does not start gives the slot back.
Refuse(c) ==
    /\ pc[c] = "away" /\ free = 0
    /\ To(c, "done") /\ client' = [client EXCEPT ![c] = FALSE]
    /\ UNCHANGED <<free, request, late, expired, timer, upstream, addrs, relayed, sent>>

StartFails(c) ==
    /\ pc[c] = "away" /\ free > 0
    /\ To(c, "done") /\ client' = [client EXCEPT ![c] = FALSE]
    /\ UNCHANGED <<free, request, late, expired, timer, upstream, addrs, relayed, sent>>

\* The thread starts and setup arms the timer.
Setup(c) ==
    /\ pc[c] = "away" /\ free > 0
    /\ free' = free - 1 /\ To(c, "read")
    /\ timer' = [timer EXCEPT ![c] = "armed"]
    /\ UNCHANGED <<request, late, expired, client, upstream, addrs, relayed, sent>>

Expire(c) ==
    /\ timer[c] = "armed" /\ late[c]
    /\ expired' = [expired EXCEPT ![c] = TRUE] /\ timer' = [timer EXCEPT ![c] = "off"]
    /\ client' = [client EXCEPT ![c] = FALSE]
    /\ upstream' = [upstream EXCEPT ![c] = IF @ = "connected" THEN "shut" ELSE @]
    /\ UNCHANGED <<free, pc, request, late, addrs, relayed, sent>>

Deadline(c) ==
    /\ pc[c] \notin {"away", "done"} /\ ~late[c]
    /\ late' = [late EXCEPT ![c] = TRUE]
    /\ UNCHANGED <<free, pc, request, expired, timer, client, upstream, addrs, relayed, sent>>

\* _remaining raises.
OutOfTime(c) == late[c] \/ expired[c]

\* The allowlist: a bare host stands for port 443 of a tunnel and for plain HTTP.
Permits(r) ==
    IF r.form = "connect" THEN <<r.host, r.port>> \in Allow \/ (r.port = 443 /\ <<r.host, 0>> \in Allow)
                          ELSE <<r.host, 0>> \in Allow

\* The upstream socket is closed on every way out of a handler.
GiveUp(c) == To(c, "finish") /\ upstream' = [upstream EXCEPT ![c] = "none"]

\* do_CONNECT and _forward up to _connect: the request, and its body, are read and refused or taken.
ReadRequest(c, r) ==
    /\ pc[c] = "read" /\ client[c]
    /\ request' = [request EXCEPT ![c] = r]
    /\ IF Permits(r) /\ ~OutOfTime(c) THEN To(c, "resolve") /\ UNCHANGED upstream ELSE GiveUp(c)
    /\ UNCHANGED <<free, late, expired, timer, client, addrs, relayed, sent>>

\* A malformed request, or one whose socket has been shut down.
ReadFails(c) ==
    /\ pc[c] = "read"
    /\ GiveUp(c)
    /\ UNCHANGED <<free, request, late, expired, timer, client, addrs, relayed, sent>>

\* getaddrinfo returns, perhaps late, or fails.
Resolve(c) ==
    /\ pc[c] = "resolve"
    /\ \/ /\ ~OutOfTime(c) /\ \E n \in 1 .. MaxAddrs : addrs' = [addrs EXCEPT ![c] = n]
          /\ To(c, "publish") /\ UNCHANGED upstream
       \/ GiveUp(c) /\ UNCHANGED addrs
    /\ UNCHANGED <<free, request, late, expired, timer, client, relayed, sent>>

\* The socket is published under socket_lock, unless time has run out.
Publish(c) ==
    /\ pc[c] = "publish"
    /\ IF OutOfTime(c) THEN GiveUp(c)
       ELSE upstream' = [upstream EXCEPT ![c] = "fresh"] /\ To(c, "connect")
    /\ UNCHANGED <<free, request, late, expired, timer, client, addrs, relayed, sent>>

\* Mutant: time is not checked again once the connection is there.
ConnectAndSend(c) ==
    /\ pc[c] = "connect"
    /\ addrs' = [addrs EXCEPT ![c] = @ - 1]
    /\ \/ upstream' = [upstream EXCEPT ![c] = "connected"] /\ To(c, "send")
       \/ GiveUp(c)
    /\ UNCHANGED <<free, request, late, expired, timer, client, relayed, sent>>

\* connect succeeds, even on a socket that the timer could not shut, or fails: the next address.
Connect(c) ==
    /\ pc[c] = "connect"
    /\ addrs' = [addrs EXCEPT ![c] = @ - 1]
    /\ \/ upstream' = [upstream EXCEPT ![c] = "connected"] /\ To(c, "connected")
       \/ IF addrs[c] > 1 /\ ~OutOfTime(c)
          THEN upstream' = [upstream EXCEPT ![c] = "none"] /\ To(c, "publish")
          ELSE GiveUp(c)
    /\ UNCHANGED <<free, request, late, expired, timer, client, relayed, sent>>

\* The last check before the answer to CONNECT or the request itself.
Checked(c) ==
    /\ pc[c] = "connected"
    /\ IF OutOfTime(c) THEN GiveUp(c) ELSE To(c, "send") /\ UNCHANGED upstream
    /\ UNCHANGED <<free, request, late, expired, timer, client, addrs, relayed, sent>>

\* The request (or the 200 of a tunnel) goes out; a socket that was shut fails.
Send(c) ==
    /\ pc[c] = "send"
    /\ \/ /\ upstream[c] = "connected"
          /\ sent' = [sent EXCEPT ![c] = TRUE] /\ To(c, "relay") /\ UNCHANGED upstream
       \/ GiveUp(c) /\ UNCHANGED sent
    /\ UNCHANGED <<free, request, late, expired, timer, client, addrs, relayed>>

\* _pump and the loop of _forward: a chunk is counted, then relayed.
Relay(c, n) ==
    /\ pc[c] = "relay"
    /\ IF late[c] \/ upstream[c] = "shut" \/ ~client[c] \/ relayed[c] + n > MaxResponse
       THEN GiveUp(c) /\ UNCHANGED relayed
       ELSE relayed' = [relayed EXCEPT ![c] = @ + n] /\ UNCHANGED <<pc, upstream>>
    /\ UNCHANGED <<free, request, late, expired, timer, client, addrs, sent>>

\* The end of the stream, an error, or the deadline noticed by the loop.
RelayEnds(c) ==
    /\ pc[c] = "relay"
    /\ GiveUp(c)
    /\ UNCHANGED <<free, request, late, expired, timer, client, addrs, relayed, sent>>

\* finish cancels and joins the timer, and process_request_thread returns the slot.
Finish(c) ==
    /\ pc[c] = "finish"
    /\ timer' = [timer EXCEPT ![c] = "off"] /\ client' = [client EXCEPT ![c] = FALSE]
    /\ free' = free + 1 /\ To(c, "done")
    /\ UNCHANGED <<request, late, expired, upstream, addrs, relayed, sent>>

Handler(c) == Resolve(c) \/ Publish(c) \/ Connect(c) \/ Checked(c) \/ Send(c) \/ Finish(c)

Next ==
    \E c \in Conns :
        \/ Refuse(c) \/ StartFails(c) \/ Setup(c) \/ Expire(c) \/ Deadline(c)
        \/ (\E r \in Requests : ReadRequest(c, r)) \/ ReadFails(c)
        \/ Handler(c) \/ (\E n \in 1 .. MaxChunk : Relay(c, n)) \/ RelayEnds(c)

\* A read of a socket that was shut, and a relay whose deadline the loop sees, end.
WaitsEnd(c) == (~client[c] /\ ReadFails(c)) \/ (late[c] /\ RelayEnds(c))

Spec == Init /\ [][Next]_vars

-----------------------------------------------------------------------------
(* Properties *)

\* A slot is taken exactly while a handler runs, an upstream socket is open only then, and
\* no response passes more than _MAX_RESPONSE.
TypeOK ==
    /\ free = Slots - Cardinality({c \in Conns : pc[c] \notin {"away", "done"}})
    /\ upstream \in [Conns -> {"none", "fresh", "connected", "shut"}]
    /\ \A c \in Conns : /\ relayed[c] <= MaxResponse
                        /\ pc[c] \in {"away", "done"} => upstream[c] = "none"

\* "the timer cannot miss a newly connected/published socket": once the timer has fired,
\* the request does not go out and nothing is relayed, wherever the handler was.
NothingAfterExpiry ==
    \A c \in Conns : sent'[c] # sent[c] \/ relayed'[c] # relayed[c] => ~expired[c]

-----------------------------------------------------------------------------
(* The inductive invariant behind them *)

Places == {"away", "read", "resolve", "publish", "connect", "connected", "send", "relay", "finish", "done"}
Busy == {c \in Conns : pc[c] \notin {"away", "done"}}

\* The timer fires only when the deadline has passed, and from then on the handler finds its
\* socket shut before it sends, or the deadline passed before it relays.
EgressInv ==
    /\ TypeOK
    /\ free \in Nat /\ IsFiniteSet(Busy)
    /\ pc \in [Conns -> Places]
    /\ late \in [Conns -> BOOLEAN] /\ expired \in [Conns -> BOOLEAN] /\ sent \in [Conns -> BOOLEAN]
    /\ relayed \in [Conns -> Nat]
    /\ \A c \in Conns :
        /\ expired[c] => late[c]
        /\ pc[c] \in {"away", "read", "resolve", "publish", "finish", "done"} => upstream[c] = "none"
        /\ pc[c] = "send" /\ expired[c] => upstream[c] # "connected"

\* A connection that holds a slot, and one that has returned it, for their progress.
HoldsSlot(c) == pc[c] = "read"
Over(c) == pc[c] = "done"

=============================================================================
