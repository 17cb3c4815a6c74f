----------------------------- MODULE MCProgress -----------------------------
(***************************************************************************)
(* The components that promise progress, each on a small instance, under   *)
(* the fairness their code and its system provide.                         *)
(***************************************************************************)
EXTENDS OneOf

CONSTANTS
    pid1, pid2,
    Connections,        \* of the egress proxy and of the broker's listener
    Slots, Requests, Allowlist, MaxAddrs, MaxResponse, MaxChunk,    \* of the egress proxy
    MaxHeader,                                  \* of the listener
    Budget,                                     \* of a tool call
    ViewSecrets, MaxWrites, MaxFails,           \* of the channel view
    Pids, MaxSpawns, MaxCrashes, MaxReuse, MaxFaults,   \* of the supervisor
    Callers, Limit, Window, MaxReal, MaxBack,   \* of the rate limit
    Rows, Keys, MaxCalls                        \* of the agent client

Workers == {"x", "y"}

\* Requests at the edges of the allowlist.
MCAllow == {<<"h", 0>>, <<"g", 80>>}
MCRequests ==
    {[form |-> "connect", host |-> "h", port |-> 443], [form |-> "connect", host |-> "h", port |-> 80],
     [form |-> "http", host |-> "g", port |-> 80]}

-----------------------------------------------------------------------------
(* Tools, and the secrets they are given *)

\* SPS restarts around the probes and passes of the watchdog.
Yw == INSTANCE Toolyard WITH
    Tools <- {"echo"}, Secretless <- {}, Pids <- {pid1, pid2}, Decls <- {"d1"},
    Callers <- {"admin"}, Ops <- {"start"}, MaxBorn <- 1, MaxSps <- 2, MaxFaults <- 0,
    MaxCrashes <- 0, boot <- v1, procs <- v2, born <- v3, disk <- v4, state <- v5,
    chan <- v6, sps <- v7, reg <- v8, job <- v9, reclock <- v10, rc <- v11, wd <- v12,
    wanted <- v13, approved <- v14, lost <- v15, faults <- v16, crashes <- v17

\* Two connections for one worker.
Sk == INSTANCE Sps WITH
    Tools <- {"a"}, Esecrets <- {"a1"}, ToolOf <- [a1 |-> "a"], Names <- {"k"},
    Decls <- {{}}, Grants <- [a |-> {}], Ops <- {"ping"}, Conns <- Workers, MaxWorkers <- 1,
    MaxCalls <- 3, MaxFaults <- 1, reg <- v1, backend <- v2, held <- v3, slots <- v4,
    conn <- v5, rejects <- v6, summed <- v7, happened <- v8, logged <- v9, cache <- v10,
    calls <- v11, faults <- v12

Cv == INSTANCE ChannelView WITH
    Secrets <- ViewSecrets, file <- v1, view <- v2,
    call <- v3, during <- v4, answer <- v5, writes <- v6, fails <- v7

-----------------------------------------------------------------------------
(* Connections *)

Eg == INSTANCE Egress WITH
    Conns <- Connections, Allow <- Allowlist, free <- v1, pc <- v2, request <- v3, late <- v4,
    expired <- v5, timer <- v6, client <- v7, upstream <- v8, addrs <- v9, relayed <- v10, sent <- v11

Ig == INSTANCE Ingress WITH
    Conns <- Connections, at <- v1, header <- v2, late <- v3, replies <- v4,
    executed <- v5, refused <- v6, delivered <- v7, noted <- v8, unnoted <- v9

Tc == INSTANCE ToolCall WITH
    type <- v1, exchange <- v2, at <- v3, remaining <- v4, late <- v5,
    effects <- v6, answered <- v7, outcome <- v8, total <- v9

-----------------------------------------------------------------------------
(* The broker process, its rate limit, and the agent that polls it *)

So == INSTANCE Supervisor WITH
    MaxRestarts <- 0, Polls <- FALSE, proc <- v1, port <- v2, file <- v3, act <- v4,
    report <- v5, foreign <- v6, lost <- v7, spawns <- v8, deaths <- v9, reuse <- v10,
    restarts <- v11, faults <- v12

Rl == INSTANCE RateLimit WITH
    real <- v1, back <- v2, state <- v3, admitted <- v4, refused <- v5

Ag == INSTANCE Client WITH
    Requests <- Rows, phase <- v1, calls <- v2, rowOf <- v3, cmd <- v4, out <- v5, run <- v6

-----------------------------------------------------------------------------

ASSUME ProgressAssumption ==
    /\ Yw!ToolyardAssumption
    /\ Sk!SpsAssumption
    /\ Cv!ChannelViewAssumption
    /\ Eg!EgressAssumption
    /\ Ig!IngressAssumption
    /\ Tc!ToolCallAssumption
    /\ So!SupervisorAssumption
    /\ Rl!RateLimitAssumption
    /\ Ag!ClientAssumption

Init ==
    \/ Start("watch", 17) /\ Yw!Init
    \/ Start("workers", 12) /\ Sk!Init
    \/ Start("view", 7) /\ Cv!Init
    \/ Start("egress", 11) /\ Eg!Init
    \/ Start("ingress", 9) /\ Ig!Init
    \/ Start("call", 9) /\ Tc!Init
    \/ Start("own", 12) /\ So!Init
    \/ Start("rate", 5) /\ Rl!Init
    \/ Start("client", 6) /\ Ag!Init

Next ==
    \/ Stay("watch", 17) /\ Yw!Next
    \/ Stay("workers", 12) /\ Sk!Next
    \/ Stay("view", 7) /\ Cv!Next
    \/ Stay("egress", 11) /\ Eg!Next
    \/ Stay("ingress", 9) /\ Ig!Next
    \/ Stay("call", 9) /\ Tc!Next
    \/ Stay("own", 12) /\ So!Next
    \/ Stay("rate", 5) /\ Rl!Next
    \/ Stay("client", 6) /\ Ag!Next

(***************************************************************************)
(* What the code and its system do without being asked:                    *)
(*  - commands of the tool runner end, because every wait in them has a    *)
(*    timeout, and SPS is started again.  The reconciler and the watchdog  *)
(*    wait for locks that others take and release: flock and               *)
(*    threading.Lock hand them on (strong fairness);                       *)
(*  - a worker of SPS is bounded by a deadline in every step, and clients  *)
(*    read their replies; tools ask the channel view again and again;      *)
(*  - handler threads, timers and the clock go on.  A client need not      *)
(*    send, nor an upstream or a tool answer, but a socket that was shut   *)
(*    and a deadline that has passed end the wait;                         *)
(*  - the supervisor's worker runs, and a process dies of SIGKILL;         *)
(*  - a refused caller asks again, and the agent polls until its deadline. *)
(* Nothing is assumed of operators, approvers, tools, agents and peers.    *)
(***************************************************************************)
Fairness ==
    /\ WF_all(Stay("watch", 17) /\ (Yw!JobStep \/ Yw!SpsStart))
    /\ SF_all(Stay("watch", 17) /\ Yw!RcStep)
    /\ SF_all(Stay("watch", 17) /\ Yw!WdStep)
    /\ \A c \in Workers : WF_all(Stay("workers", 12) /\ (Sk!ServerStep(c) \/ Sk!Receive(c)))
    /\ WF_all(Stay("view", 7) /\ (Cv!Begin \/ Cv!Stat \/ Cv!Open \/ Cv!Answer))
    /\ \A c \in Connections :
        /\ WF_all(Stay("egress", 11) /\ Eg!Handler(c))
        /\ WF_all(Stay("egress", 11) /\ Eg!Expire(c))
        /\ WF_all(Stay("egress", 11) /\ Eg!Deadline(c))
        /\ WF_all(Stay("egress", 11) /\ Eg!WaitsEnd(c))
        /\ WF_all(Stay("ingress", 9) /\ Ig!Deadlines(c))
        /\ WF_all(Stay("ingress", 9) /\ Ig!TimesOut(c))
    /\ WF_all(Stay("ingress", 9) /\ Ig!AcceptNext)
    /\ WF_all(Stay("call", 9) /\ Tc!Deadline)
    /\ WF_all(Stay("call", 9) /\ Tc!Timeout)
    /\ WF_all(Stay("own", 12) /\ So!Worker)
    /\ \A p \in Pids : WF_all(Stay("own", 12) /\ So!Killed(p))
    /\ WF_all(Stay("rate", 5) /\ Rl!Tick)
    /\ \A c \in Callers : WF_all(Stay("rate", 5) /\ Rl!Allow(c))
    /\ WF_all(Stay("client", 6) /\ Ag!PostEnds)
    /\ WF_all(Stay("client", 6) /\ Ag!PollRound)
    /\ WF_all(Stay("client", 6) /\ Ag!Deadline)

FairSpec == Init /\ [][Next]_all /\ Fairness

-----------------------------------------------------------------------------
(* Properties *)

\* What is reported of an action is true, from the tool to the agent: when the runtime
\* says not dispatched the tool has not acted, and when it gives a result the tool acted
\* once (runtime.py); a connection gets one answer, a request that the transport refuses
\* is never executed, and an executed one was answered whole or the failure of its answer
\* is in the audit log, unless that could not be written (server.py); a zero exit of the
\* client that waits means that the tool was called and answered, and a call whose receipt
\* was lost is reported as unknown (client).
OutcomesHonest ==
    /\ comp = "call" => Tc!EvidenceHonest /\ Tc!CallInv
    /\ comp = "ingress" => Ig!AnsweredOnce /\ Ig!ExecutedIsKnown /\ Ig!IngressInv
    /\ comp = "client" => Ag!SuccessIsTrue /\ Ag!LostIsUnknown /\ Ag!ClientInv

\* One execution reads at most its budget, over all its exchanges (bounds.py); in any
\* minute that really passes a caller gets through at most 2 * Limit - 1 times, whatever
\* is done to the clock (ratelimit.py); a slot of the egress proxy is taken exactly while
\* a handler runs, and no response passes more than _MAX_RESPONSE (egress_proxy.py).
LimitsHold ==
    /\ comp = "call" => Tc!BudgetShared
    /\ comp = "rate" => Rl!BurstBound /\ Rl!RateInv
    /\ comp = "egress" => Eg!EgressInv

\* When start reports a process healthy, it is that process which answers (supervisor.py);
\* a call of the channel view returns a secret that the file has held since the call began
\* (broker/channels.py).
EvidenceFresh ==
    /\ comp = "own" => So!TypeOK /\ So!HealthyIsRecorded /\ So!OwnInv
    /\ comp = "view" => Cv!NeverStale /\ Cv!ViewInv

\* Once the timer of a connection has fired, its request does not go out and nothing is
\* relayed (egress proxy).
NothingAfterExpiry == [][comp = "egress" => Eg!NothingAfterExpiry]_all

\* "whenever the id changes, it walks every running tool ... and re-registers it"
\* (admin/sps_watchdog.py): however SPS restarts around a probe or a pass, a running tool
\* gets its registration back.
ServedAgain == (comp = "watch" /\ Yw!Unserved("echo")) ~> (comp = "watch" /\ ~Yw!Unserved("echo"))

\* The reconciler's pass ends: it never waits for ever on a lock the watchdog or a command
\* holds while that waits for it (admin/reconciler.py).
ReconcileEnds == (comp = "watch" /\ Yw!Reconciling) ~> (comp = "watch" /\ ~Yw!Reconciling)

\* "a slow client cannot hold the server" (sps/server.py): every call ends, with a reply
\* or a closed connection, and its worker is free again.
CallsEnd == \A c \in Workers : (comp = "workers" /\ Sk!Queued(c)) ~> (comp = "workers" /\ Sk!Free(c))

\* A channel view that a failed read has cleared, or that a replacement has overtaken,
\* becomes the file's again.
CatchesUp ==
    \A s \in ViewSecrets :
        <>[](comp = "view" /\ Cv!Held = s) => <>[](comp = "view" /\ Cv!Answered(s))

\* Every connection of the egress proxy that got a slot returns it, though its client
\* sends nothing and its upstream never answers.
SlotReturned ==
    \A c \in Connections : (comp = "egress" /\ Eg!HoldsSlot(c)) ~> (comp = "egress" /\ Eg!Over(c))

\* However slow, silent or gone a peer is, every connection that queues for the broker is
\* served.
QueueMoves ==
    \A c \in Connections : (comp = "ingress" /\ Ig!Queued(c)) ~> (comp = "ingress" /\ Ig!Closed(c))

\* An execution ends though the tool never answers or never stops sending.
ExecutionEnds == comp = "call" ~> (comp = "call" /\ Tc!Over)

\* Every start, stop and restart of the broker returns, although it may ignore SIGTERM
\* (supervisor.py).
CommandsEnd == (comp = "own" /\ So!InCall) ~> (comp = "own" /\ ~So!InCall)

\* A caller that keeps asking is let through again, within a minute and what the clock was
\* set back, though it was refused when the clock jumped (ratelimit.py).
NeverStuck ==
    \A c \in Callers : (comp = "rate" /\ Rl!Refused(c)) ~> (comp = "rate" /\ Rl!LetThrough(c))

\* Every command of the agent client ends, whatever the broker and the approver do.
WaitEnds == (comp = "client" /\ Ag!Running) ~> (comp = "client" /\ ~Ag!Running)

\* Whatever clients, tools, upstreams, the broker process and the clock do or fail to do,
\* nobody waits for ever: the code ends every wait itself.
WaitsEnd ==
    /\ CallsEnd /\ SlotReturned /\ QueueMoves
    /\ ExecutionEnds /\ CommandsEnd /\ WaitEnds /\ NeverStuck

\* What a restart, a failure or a replacement left behind is repaired: registrations with
\* SPS, recorded tools, the channel view.
Repairs == ServedAgain /\ ReconcileEnds /\ CatchesUp

=============================================================================
