------------------------------ MODULE Ingress -------------------------------
(***************************************************************************)
(* The broker's HTTP server (broker/server.py) around the gateway: one     *)
(* connection at a time, read under a deadline, answered once under        *)
(* another.  A client may send as slowly as it likes, stop, or disappear,  *)
(* and the audit store may refuse to write.                                *)
(***************************************************************************)
EXTENDS Naturals, FiniteSets

CONSTANTS
    Conns,
    MaxHeader       \* MAX_HEADER_BYTES, in units of what a client sends at once

\* Assumed of the constants; the module of a run asserts it of its instances.
IngressAssumption == MaxHeader \in Nat

VARIABLES
    at,             \* where each connection is
    header,         \* header units read
    late,           \* the deadline of the input, or of the output, has passed
    replies,        \* status lines begun
    executed,       \* the gateway has handled the request
    refused,        \* the transport has answered instead
    delivered, noted, unnoted   \* ghosts: the answer went out whole; its failure was audited, or could not be

vars == <<at, header, late, replies, executed, refused, delivered, noted, unnoted>>
ghosts == <<delivered, noted, unnoted>>

Init ==
    /\ at = [c \in Conns |-> "queued"]
    /\ header = [c \in Conns |-> 0] /\ replies = [c \in Conns |-> 0]
    /\ late = [c \in Conns |-> FALSE] /\ executed = late /\ refused = late
    /\ delivered = late /\ noted = late /\ unnoted = late

Reading(c) == at[c] \in {"headers", "body"}
Writing(c) == at[c] \in {"head", "payload"}
To(c, p) == at' = [at EXCEPT ![c] = p]

\* The serial server takes the next connection; setup starts the input's deadline.
Accept(c) ==
    /\ at[c] = "queued" /\ \A d \in Conns : at[d] \in {"queued", "closed"}
    /\ To(c, "headers")
    /\ UNCHANGED <<header, late, replies, executed, refused, ghosts>>

\* Mutant: the deadline covers the headers only.
InputDeadlineHeaders(c) ==
    /\ at[c] = "headers" /\ ~late[c]
    /\ late' = [late EXCEPT ![c] = TRUE]
    /\ UNCHANGED <<at, header, replies, executed, refused, ghosts>>

InputDeadline(c) ==
    /\ Reading(c) /\ ~late[c]
    /\ late' = [late EXCEPT ![c] = TRUE]
    /\ UNCHANGED <<at, header, replies, executed, refused, ghosts>>

OutputDeadline(c) ==
    /\ Writing(c) /\ ~late[c]
    /\ late' = [late EXCEPT ![c] = TRUE]
    /\ UNCHANGED <<at, header, replies, executed, refused, ghosts>>

\* _send_json: from here on a failure is one of the output.
Begin(c) ==
    /\ To(c, "head") /\ late' = [late EXCEPT ![c] = FALSE]
    /\ replies' = [replies EXCEPT ![c] = @ + 1]

\* send_error, 401 and 413: whether or not the refusal can be audited.
Refuse(c) ==
    /\ Begin(c)
    /\ refused' = [refused EXCEPT ![c] = TRUE]
    /\ UNCHANGED <<header, executed, ghosts>>

\* _InputReader.readline: a piece of the request line or of the headers.
ReadHeader(c) ==
    /\ at[c] = "headers" /\ ~late[c]
    /\ IF header[c] = MaxHeader THEN Refuse(c)
       ELSE /\ header' = [header EXCEPT ![c] = @ + 1]
            /\ UNCHANGED <<at, late, replies, executed, refused, ghosts>>

\* parse_request and _read_body up to the read.
HeadersEnd(c) ==
    /\ at[c] = "headers" /\ ~late[c]
    /\ \/ To(c, "body") /\ UNCHANGED <<header, late, replies, executed, refused, ghosts>>
       \/ Refuse(c)

\* The peer is silent for too long, or the deadline has passed: 408.
ReadTimeout(c) == Reading(c) /\ Refuse(c)

\* The peer disappears: no answer.
Hangup(c) ==
    /\ Reading(c)
    /\ To(c, "closed")
    /\ UNCHANGED <<header, late, replies, executed, refused, ghosts>>

\* _respond: the body is there and the gateway runs (and may end in a 500), or the body is not usable.
Handle(c) ==
    /\ at[c] = "body" /\ ~late[c]
    /\ \/ /\ Begin(c) /\ executed' = [executed EXCEPT ![c] = TRUE]
          /\ UNCHANGED <<header, refused, ghosts>>
       \/ Refuse(c)

Write(c) ==
    /\ Writing(c) /\ ~late[c]
    /\ IF at[c] = "head" THEN To(c, "payload") /\ UNCHANGED delivered
       ELSE To(c, "closed") /\ delivered' = [delivered EXCEPT ![c] = TRUE]
    /\ UNCHANGED <<header, late, replies, executed, refused, noted, unnoted>>

\* _output_failed: the deadline, or a peer that is gone, ends the answer; it is noted if the store can.
WriteFails(c) ==
    /\ Writing(c)
    /\ To(c, "closed")
    /\ \/ noted' = [noted EXCEPT ![c] = TRUE] /\ UNCHANGED unnoted
       \/ unnoted' = [unnoted EXCEPT ![c] = TRUE] /\ UNCHANGED noted
    /\ UNCHANGED <<header, late, replies, executed, refused, delivered>>

Next ==
    \E c \in Conns :
        \/ Accept(c) \/ InputDeadline(c) \/ OutputDeadline(c)
        \/ ReadHeader(c) \/ HeadersEnd(c) \/ ReadTimeout(c) \/ Hangup(c) \/ Handle(c)
        \/ Write(c) \/ WriteFails(c)

\* What the server and the clock do by themselves; a peer may be as slow as the deadlines let
\* it.
AcceptNext == \E c \in Conns : Accept(c)
Deadlines(c) == InputDeadline(c) \/ OutputDeadline(c)
TimesOut(c) == late[c] /\ (ReadTimeout(c) \/ WriteFails(c))

Spec == Init /\ [][Next]_vars

-----------------------------------------------------------------------------
(* Properties *)

\* "failure is output failure, never a new HTTP reply": one answer a connection, and one
\* connection at a time; a request that the transport refuses is never executed,
\* "unavailable audit storage must not turn refusal into execution".
AnsweredOnce ==
    /\ \A c \in Conns : replies[c] <= 1 /\ ~(executed[c] /\ refused[c])
    /\ Cardinality({c \in Conns : Reading(c) \/ Writing(c)}) <= 1

\* An executed request whose connection is over was answered whole, or the failure of its
\* answer is in the audit log, unless the log could not be written.
ExecutedIsKnown ==
    \A c \in Conns : executed[c] /\ at[c] = "closed" => delivered[c] \/ noted[c] \/ unnoted[c]

\* The inductive invariant behind both: only the connection that is served changes, and
\* nothing was begun, executed or refused for it before its answer.
IngressInv ==
    /\ at \in [Conns -> {"queued", "headers", "body", "head", "payload", "closed"}]
    /\ replies \in [Conns -> Nat] /\ late \in [Conns -> BOOLEAN]
    /\ executed \in [Conns -> BOOLEAN] /\ refused \in [Conns -> BOOLEAN]
    /\ delivered \in [Conns -> BOOLEAN] /\ noted \in [Conns -> BOOLEAN] /\ unnoted \in [Conns -> BOOLEAN]
    /\ \A c \in Conns :
        /\ at[c] = "queued" \/ Reading(c) => replies[c] = 0 /\ ~executed[c] /\ ~refused[c]
        /\ replies[c] <= 1 /\ ~(executed[c] /\ refused[c])
    /\ \A c, d \in Conns : (Reading(c) \/ Writing(c)) /\ (Reading(d) \/ Writing(d)) => c = d
    /\ ExecutedIsKnown

\* A connection that waits in the queue, and one that is over, for their progress.
Queued(c) == at[c] = "queued"
Closed(c) == at[c] = "closed"

=============================================================================
