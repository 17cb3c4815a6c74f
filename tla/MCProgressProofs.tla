-------------------------- MODULE MCProgressProofs --------------------------
(***************************************************************************)
(* The safety properties of MCProgress.tla for the parts whose constants   *)
(* it leaves open (egress proxy, listener, tool call, rate limit, client,  *)
(* channel view, supervisor), for every value of these: the lemmas of      *)
(* ProgressProofs.tla, taken over for the components of MCProgress.        *)
(***************************************************************************)
EXTENDS MCProgress, TLAPS

Px == INSTANCE ProgressProofs WITH
    Conns <- Connections, Allow <- Allowlist, free <- v1, pc <- v2, request <- v3, late <- v4, expired <- v5,
    timer <- v6, client <- v7, upstream <- v8, addrs <- v9, relayed <- v10, sent <- v11,
    type <- v1, exchange <- v2, at <- v3, remaining <- v4, overdue <- v5,
    effects <- v6, answered <- v7, outcome <- v8, total <- v9,
    place <- v1, header <- v2, slow <- v3, replies <- v4, executed <- v5,
    refused <- v6, delivered <- v7, noted <- v8, unnoted <- v9,
    real <- v1, back <- v2, state <- v3, admitted <- v4, limited <- v5,
    phase <- v1, calls <- v2, rowOf <- v3, cmd <- v4, out <- v5, run <- v6,
    channels <- v1, view <- v2, call <- v3, during <- v4, answer <- v5, writes <- v6, fails <- v7,
    proc <- v1, port <- v2, file <- v3, act <- v4, report <- v5, foreign <- v6,
    lost <- v7, spawns <- v8, deaths <- v9, reuse <- v10, restarts <- v11, faults <- v12

\* A step of MCProgress is a step of the component that runs, or leaves it alone.
LEMMA OneComponent ==
  ASSUME [Next]_all
  PROVE  /\ comp' = comp
         /\ comp = "egress" => [Eg!Next]_(Eg!vars)
         /\ comp = "call" => [Tc!Next]_(Tc!vars)
         /\ comp = "ingress" => [Ig!Next]_(Ig!vars)
         /\ comp = "rate" => [Rl!Next]_(Rl!vars)
         /\ comp = "client" => [Ag!Next]_(Ag!vars)
         /\ comp = "view" => [Cv!Next]_(Cv!vars)
         /\ comp = "own" => [So!Next]_(So!vars)
<1>1. CASE Next
  BY <1>1 DEF Next, Stay
<1>2. CASE UNCHANGED all
  BY <1>2 DEF all, Eg!vars, Tc!vars, Ig!vars, Rl!vars, Ag!vars, Cv!vars, So!vars
<1> QED BY <1>1, <1>2

\* The components of MCProgress are those of ProgressProofs: both are instances of one
\* module, and what they define is the same once it is written out.
LEMMA SameProxy ==
  /\ Eg!EgressAssumption <=> Px!EgressAssumption
  /\ Eg!Init <=> Px!Init
  /\ [Eg!Next]_(Eg!vars) <=> [Px!Next]_(Px!vars)
  /\ Eg!EgressInv <=> Px!EgressInv
  /\ [Eg!NothingAfterExpiry]_(Eg!vars) <=> [Px!NothingAfterExpiry]_(Px!vars)
  /\ Eg!EgressInv' <=> Px!EgressInv'
  BY DEF Eg!EgressAssumption, Px!EgressAssumption, Eg!Init, Px!Init, Eg!Next, Px!Next,
    Eg!EgressInv, Px!EgressInv, Eg!NothingAfterExpiry, Px!NothingAfterExpiry, Eg!vars,
    Px!vars, Eg!Idle, Px!Idle, Eg!Refuse, Px!Refuse, Eg!StartFails, Px!StartFails, Eg!Setup,
    Px!Setup, Eg!Expire, Px!Expire, Eg!Deadline, Px!Deadline, Eg!ReadRequest, Px!ReadRequest,
    Eg!ReadFails, Px!ReadFails, Eg!Handler, Px!Handler, Eg!Relay, Px!Relay, Eg!RelayEnds,
    Px!RelayEnds, Eg!TypeOK, Px!TypeOK, Eg!IsFiniteSet, Px!IsFiniteSet, Eg!Busy, Px!Busy,
    Eg!Places, Px!Places, Eg!To, Px!To, Eg!Permits, Px!Permits, Eg!OutOfTime, Px!OutOfTime,
    Eg!GiveUp, Px!GiveUp, Eg!Resolve, Px!Resolve, Eg!Publish, Px!Publish, Eg!Connect,
    Px!Connect, Eg!Checked, Px!Checked, Eg!Send, Px!Send, Eg!Finish, Px!Finish,
    Eg!Cardinality, Px!Cardinality

LEMMA SameCall ==
  /\ Tc!ToolCallAssumption <=> Px!Exec!ToolCallAssumption
  /\ Tc!Init <=> Px!Exec!Init
  /\ [Tc!Next]_(Tc!vars) <=> [Px!Exec!Next]_(Px!Exec!vars)
  /\ Tc!CallInv <=> Px!Exec!CallInv
  /\ Tc!EvidenceHonest <=> Px!Exec!EvidenceHonest
  /\ Tc!BudgetShared <=> Px!Exec!BudgetShared
  /\ Tc!CallInv' <=> Px!Exec!CallInv'
  BY DEF Tc!ToolCallAssumption, Px!Exec!ToolCallAssumption, Tc!Init, Px!Exec!Init, Tc!Next,
    Px!Exec!Next, Tc!CallInv, Px!Exec!CallInv, Tc!EvidenceHonest, Px!Exec!EvidenceHonest,
    Tc!BudgetShared, Px!Exec!BudgetShared, Tc!vars, Px!Exec!vars, Tc!First, Px!Exec!First,
    Tc!Deadline, Px!Exec!Deadline, Tc!Connect, Px!Exec!Connect, Tc!Unreachable,
    Px!Exec!Unreachable, Tc!Send, Px!Exec!Send, Tc!Read, Px!Exec!Read, Tc!Take, Px!Exec!Take,
    Tc!Reject, Px!Exec!Reject, Tc!Timeout, Px!Exec!Timeout, Tc!Advance, Px!Exec!Advance,
    Tc!End, Px!Exec!End

LEMMA SameListener ==
  /\ Ig!Init <=> Px!Http!Init
  /\ [Ig!Next]_(Ig!vars) <=> [Px!Http!Next]_(Px!Http!vars)
  /\ Ig!IngressInv <=> Px!Http!IngressInv
  /\ Ig!AnsweredOnce <=> Px!Http!AnsweredOnce
  /\ Ig!ExecutedIsKnown <=> Px!Http!ExecutedIsKnown
  /\ Ig!IngressInv' <=> Px!Http!IngressInv'
  BY DEF Ig!Init, Px!Http!Init, Ig!Next, Px!Http!Next, Ig!IngressInv, Px!Http!IngressInv,
    Ig!AnsweredOnce, Px!Http!AnsweredOnce, Ig!ExecutedIsKnown, Px!Http!ExecutedIsKnown,
    Ig!vars, Px!Http!vars, Ig!Accept, Px!Http!Accept, Ig!InputDeadline, Px!Http!InputDeadline,
    Ig!OutputDeadline, Px!Http!OutputDeadline, Ig!ReadHeader, Px!Http!ReadHeader,
    Ig!HeadersEnd, Px!Http!HeadersEnd, Ig!ReadTimeout, Px!Http!ReadTimeout, Ig!Hangup,
    Px!Http!Hangup, Ig!Handle, Px!Http!Handle, Ig!Write, Px!Http!Write, Ig!WriteFails,
    Px!Http!WriteFails, Ig!Reading, Px!Http!Reading, Ig!Writing, Px!Http!Writing,
    Ig!Cardinality, Px!Http!Cardinality, Ig!To, Px!Http!To, Ig!ghosts, Px!Http!ghosts,
    Ig!Refuse, Px!Http!Refuse, Ig!Begin, Px!Http!Begin

LEMMA SameRate ==
  /\ Rl!RateLimitAssumption <=> Px!Rate!RateLimitAssumption
  /\ Rl!Init <=> Px!Rate!Init
  /\ [Rl!Next]_(Rl!vars) <=> [Px!Rate!Next]_(Px!Rate!vars)
  /\ Rl!RateInv <=> Px!Rate!RateInv
  /\ Rl!BurstBound <=> Px!Rate!BurstBound
  /\ Rl!RateInv' <=> Px!Rate!RateInv'
  BY DEF Rl!RateLimitAssumption, Px!Rate!RateLimitAssumption, Rl!Init, Px!Rate!Init, Rl!Next,
    Px!Rate!Next, Rl!RateInv, Px!Rate!RateInv, Rl!BurstBound, Px!Rate!BurstBound, Rl!vars,
    Px!Rate!vars, Rl!NoWindow, Px!Rate!NoWindow, Rl!Tick, Px!Rate!Tick, Rl!SetBack,
    Px!Rate!SetBack, Rl!Allow, Px!Rate!Allow, Rl!WindowSound, Px!Rate!WindowSound,
    Rl!Cardinality, Px!Rate!Cardinality, Rl!Current, Px!Rate!Current, Rl!now, Px!Rate!now

LEMMA SameClient ==
  /\ Ag!ClientAssumption <=> Px!Agent!ClientAssumption
  /\ Ag!Init <=> Px!Agent!Init
  /\ [Ag!Next]_(Ag!vars) <=> [Px!Agent!Next]_(Px!Agent!vars)
  /\ Ag!ClientInv <=> Px!Agent!ClientInv
  /\ Ag!SuccessIsTrue <=> Px!Agent!SuccessIsTrue
  /\ Ag!LostIsUnknown <=> Px!Agent!LostIsUnknown
  /\ Ag!ClientInv' <=> Px!Agent!ClientInv'
  BY DEF Ag!ClientAssumption, Px!Agent!ClientAssumption, Ag!Init, Px!Agent!Init, Ag!Next,
    Px!Agent!Next, Ag!ClientInv, Px!Agent!ClientInv, Ag!SuccessIsTrue, Px!Agent!SuccessIsTrue,
    Ag!LostIsUnknown, Px!Agent!LostIsUnknown, Ag!vars, Px!Agent!vars, Ag!BrokerWorks,
    Px!Agent!BrokerWorks, Ag!StartWait, Px!Agent!StartWait, Ag!Take, Px!Agent!Take,
    Ag!StartCall, Px!Agent!StartCall, Ag!PostEnds, Px!Agent!PostEnds, Ag!PollRound,
    Px!Agent!PollRound, Ag!PollFails, Px!Agent!PollFails, Ag!Deadline, Px!Agent!Deadline,
    Ag!Commands, Px!Agent!Commands, Ag!At, Px!Agent!At, Ag!Statuses, Px!Agent!Statuses,
    Ag!Answer, Px!Agent!Answer, Ag!PostFails, Px!Agent!PostFails, Ag!Poll, Px!Agent!Poll,
    Ag!Exit, Px!Agent!Exit, Ag!StatusOf, Px!Agent!StatusOf, Ag!Waiting, Px!Agent!Waiting,
    Ag!Fail, Px!Agent!Fail,
    Ag!Broker!Call, Px!Agent!Broker!Call, Ag!Broker!Commit, Px!Agent!Broker!Commit,
    Ag!Broker!End, Px!Agent!Broker!End, Ag!Broker!Init, Px!Agent!Broker!Init,
    Ag!Broker!Phases, Px!Agent!Broker!Phases

LEMMA SameView ==
  /\ Cv!ChannelViewAssumption <=> Px!View!ChannelViewAssumption
  /\ Cv!Init <=> Px!View!Init
  /\ [Cv!Next]_(Cv!vars) <=> [Px!View!Next]_(Px!View!vars)
  /\ Cv!ViewInv <=> Px!View!ViewInv
  /\ Cv!NeverStale <=> Px!View!NeverStale
  /\ Cv!ViewInv' <=> Px!View!ViewInv'
  BY DEF Cv!ChannelViewAssumption, Px!View!ChannelViewAssumption, Cv!Init, Px!View!Init,
    Cv!Next, Px!View!Next, Cv!ViewInv, Px!View!ViewInv, Cv!NeverStale, Px!View!NeverStale,
    Cv!vars, Px!View!vars, Cv!Replace, Px!View!Replace, Cv!Begin, Px!View!Begin, Cv!Stat,
    Px!View!Stat, Cv!Open, Px!View!Open, Cv!Answer, Px!View!Answer, Cv!Held, Px!View!Held

LEMMA SameOwn ==
  /\ So!SupervisorAssumption <=> Px!Own!SupervisorAssumption
  /\ So!Init <=> Px!Own!Init
  /\ [So!Next]_(So!vars) <=> [Px!Own!Next]_(Px!Own!vars)
  /\ So!OwnInv <=> Px!Own!OwnInv
  /\ So!TypeOK <=> Px!Own!TypeOK
  /\ So!HealthyIsRecorded <=> Px!Own!HealthyIsRecorded
  /\ So!OwnInv' <=> Px!Own!OwnInv'
  BY DEF So!SupervisorAssumption, Px!Own!SupervisorAssumption, So!Init, Px!Own!Init, So!Next,
    Px!Own!Next, So!OwnInv, Px!Own!OwnInv, So!TypeOK, Px!Own!TypeOK, So!HealthyIsRecorded,
    Px!Own!HealthyIsRecorded, So!vars, Px!Own!vars, So!Free, Px!Own!Free, So!Actors,
    Px!Own!Actors, So!Idle, Px!Own!Idle, So!NoReport, Px!Own!NoReport, So!Bind, Px!Own!Bind,
    So!Exit, Px!Own!Exit, So!Reuse, Px!Own!Reuse, So!AdminRestart, Px!Own!AdminRestart,
    So!Request, Px!Own!Request, So!Worker, Px!Own!Worker, So!Poll, Px!Own!Poll, So!Status,
    Px!Own!Status, So!CallsTyped, Px!Own!CallsTyped, So!Running, Px!Own!Running, So!Gone,
    Px!Own!Gone, So!counts, Px!Own!counts, So!Spawn, Px!Own!Spawn, So!WriteState,
    Px!Own!WriteState, So!AwaitHealth, Px!Own!AwaitHealth, So!StopRead, Px!Own!StopRead,
    So!IsBroker, Px!Own!IsBroker, So!Terminate, Px!Own!Terminate, So!ReapStopped,
    Px!Own!ReapStopped, So!Escalate, Px!Own!Escalate, So!Unlink, Px!Own!Unlink, So!StopDone,
    Px!Own!StopDone, So!ReadState, Px!Own!ReadState, So!Reap, Px!Own!Reap, So!Alive,
    Px!Own!Alive, So!ClearState, Px!Own!ClearState, So!Places, Px!Own!Places, So!Go,
    Px!Own!Go, So!Signal, Px!Own!Signal, So!Dead, Px!Own!Dead, So!Stopped, Px!Own!Stopped,
    So!PidAlive, Px!Own!PidAlive

-----------------------------------------------------------------------------

\* What LimitsHold says of the egress proxy.
ProxyInv == comp = "egress" => Eg!EgressInv

LEMMA ProxyInvHolds == FairSpec => []ProxyInv
<1>0. Px!EgressAssumption
  BY ProgressAssumption, SameProxy
<1>1. ASSUME Init PROVE ProxyInv
  BY <1>0, <1>1, Px!ProxyInit, SameProxy DEF Init, Start, ProxyInv
<1>2. ASSUME ProxyInv, [Next]_all PROVE ProxyInv'
  <2>1. ASSUME comp = "egress" PROVE Eg!EgressInv'
    <3>1. Px!EgressInv /\ [Px!Next]_(Px!vars)
      BY <1>2, <2>1, OneComponent, SameProxy DEF ProxyInv
    <3> QED BY <1>0, <3>1, Px!ProxyNext, SameProxy
  <2> QED BY <1>2, <2>1, OneComponent DEF ProxyInv
<1> QED BY <1>1, <1>2, PTL DEF FairSpec

\* "the timer cannot miss a newly connected/published socket": once the timer of a connection
\* has fired, its request does not go out and nothing is relayed, wherever its handler was
\* (egress_proxy.py).
THEOREM NothingAfterExpiryHolds == FairSpec => NothingAfterExpiry
<1>1. ASSUME ProxyInv, [Next]_all PROVE [comp = "egress" => Eg!NothingAfterExpiry]_all
  <2>0. Px!EgressAssumption
    BY ProgressAssumption, SameProxy
  <2>1. ASSUME comp = "egress" PROVE [Eg!NothingAfterExpiry]_(Eg!vars)
    <3>1. Px!EgressInv /\ [Px!Next]_(Px!vars)
      BY <1>1, <2>1, OneComponent, SameProxy DEF ProxyInv
    <3>2. [Px!NothingAfterExpiry]_(Px!vars)
      BY <2>0, <3>1, Px!ProxyQuiet
    <3> QED BY <3>2, SameProxy
  <2>2. ASSUME UNCHANGED Eg!vars PROVE Eg!NothingAfterExpiry
    BY <2>2 DEF Eg!vars, Eg!NothingAfterExpiry
  <2> QED BY <2>1, <2>2
<1> QED BY <1>1, ProxyInvHolds, PTL DEF FairSpec, NothingAfterExpiry

-----------------------------------------------------------------------------

\* The inductive invariants of the other parts; each implies what OutcomesHonest,
\* LimitsHold and EvidenceFresh say of it.
PartsInv ==
    /\ comp = "call" => Tc!CallInv
    /\ comp = "ingress" => Ig!IngressInv
    /\ comp = "rate" => Rl!RateInv
    /\ comp = "client" => Ag!ClientInv
    /\ comp = "view" => Cv!ViewInv
    /\ comp = "own" => So!OwnInv

LEMMA Assumed ==
  /\ Px!Exec!ToolCallAssumption /\ Px!Rate!RateLimitAssumption /\ Px!Agent!ClientAssumption
  /\ Px!View!ChannelViewAssumption /\ Px!Own!SupervisorAssumption
  BY ProgressAssumption, SameCall, SameRate, SameClient, SameView, SameOwn

LEMMA PartsInvHolds == FairSpec => []PartsInv
<1>1. ASSUME Init PROVE PartsInv
  <2>1. comp = "call" => Tc!CallInv
    BY <1>1, Assumed, Px!CallInit, SameCall DEF Init, Start
  <2>2. comp = "ingress" => Ig!IngressInv
    BY <1>1, Px!HttpInit, SameListener DEF Init, Start
  <2>3. comp = "rate" => Rl!RateInv
    BY <1>1, Assumed, Px!RateInit, SameRate DEF Init, Start
  <2>4. comp = "client" => Ag!ClientInv
    BY <1>1, Px!AgentInit, SameClient DEF Init, Start
  <2>5. comp = "view" => Cv!ViewInv
    BY <1>1, Assumed, Px!ViewInit, SameView DEF Init, Start
  <2>6. comp = "own" => So!OwnInv
    BY <1>1, Assumed, Px!OwnInit, SameOwn DEF Init, Start
  <2> QED BY <2>1, <2>2, <2>3, <2>4, <2>5, <2>6 DEF PartsInv
<1>2. ASSUME PartsInv, [Next]_all PROVE PartsInv'
  <2>0. comp' = comp
    BY <1>2, OneComponent
  <2>1. ASSUME comp = "call" PROVE Tc!CallInv'
    <3>1. Px!Exec!CallInv /\ [Px!Exec!Next]_(Px!Exec!vars)
      BY <1>2, <2>1, OneComponent, SameCall DEF PartsInv
    <3> QED BY <3>1, Assumed, Px!CallNext, SameCall
  <2>2. ASSUME comp = "ingress" PROVE Ig!IngressInv'
    <3>1. Px!Http!IngressInv /\ [Px!Http!Next]_(Px!Http!vars)
      BY <1>2, <2>2, OneComponent, SameListener DEF PartsInv
    <3> QED BY <3>1, Px!HttpNext, SameListener
  <2>3. ASSUME comp = "rate" PROVE Rl!RateInv'
    <3>1. Px!Rate!RateInv /\ [Px!Rate!Next]_(Px!Rate!vars)
      BY <1>2, <2>3, OneComponent, SameRate DEF PartsInv
    <3> QED BY <3>1, Assumed, Px!RateNext, SameRate
  <2>4. ASSUME comp = "client" PROVE Ag!ClientInv'
    <3>1. Px!Agent!ClientInv /\ [Px!Agent!Next]_(Px!Agent!vars)
      BY <1>2, <2>4, OneComponent, SameClient DEF PartsInv
    <3> QED BY <3>1, Assumed, Px!AgentNext, SameClient
  <2>5. ASSUME comp = "view" PROVE Cv!ViewInv'
    <3>1. Px!View!ViewInv /\ [Px!View!Next]_(Px!View!vars)
      BY <1>2, <2>5, OneComponent, SameView DEF PartsInv
    <3> QED BY <3>1, Assumed, Px!ViewNext, SameView
  <2>6. ASSUME comp = "own" PROVE So!OwnInv'
    <3>1. Px!Own!OwnInv /\ [Px!Own!Next]_(Px!Own!vars)
      BY <1>2, <2>6, OneComponent, SameOwn DEF PartsInv
    <3> QED BY <3>1, Assumed, Px!OwnNext, SameOwn
  <2> QED BY <2>0, <2>1, <2>2, <2>3, <2>4, <2>5, <2>6 DEF PartsInv
<1> QED BY <1>1, <1>2, PTL DEF FairSpec

\* What is reported of an action is true, from the tool to the agent: of any execution, with
\* any response budget (runtime.py), on any connections of the listener (server.py), and for
\* any commands of any agent (client).
THEOREM OutcomesHonestHolds == FairSpec => []OutcomesHonest
<1>1. ASSUME PartsInv PROVE OutcomesHonest
  <2>1. comp = "call" => Tc!EvidenceHonest /\ Tc!CallInv
    BY <1>1, Assumed, Px!CallKeeps, SameCall DEF PartsInv
  <2>2. comp = "ingress" => Ig!AnsweredOnce /\ Ig!ExecutedIsKnown /\ Ig!IngressInv
    BY <1>1, Px!HttpKeeps, SameListener DEF PartsInv
  <2>3. comp = "client" => Ag!SuccessIsTrue /\ Ag!LostIsUnknown /\ Ag!ClientInv
    BY <1>1, Px!AgentKeeps, SameClient DEF PartsInv
  <2> QED BY <2>1, <2>2, <2>3 DEF OutcomesHonest
<1> QED BY <1>1, PartsInvHolds, PTL

\* For any limit, window and clock that is set back at any time, a caller gets through at
\* most 2 * Limit - 1 times in a minute (ratelimit.py); an execution stays in its budget over
\* all its exchanges (bounds.py); the slots of the egress proxy are taken exactly by the
\* handlers that run, and no response passes its cap (egress_proxy.py).
THEOREM LimitsHoldHolds == FairSpec => []LimitsHold
<1>1. ASSUME PartsInv, ProxyInv PROVE LimitsHold
  <2>1. comp = "call" => Tc!BudgetShared
    BY <1>1, Assumed, Px!CallKeeps, SameCall DEF PartsInv
  <2>2. comp = "rate" => Rl!BurstBound /\ Rl!RateInv
    BY <1>1, Assumed, Px!RateKeeps, SameRate DEF PartsInv
  <2> QED BY <1>1, <2>1, <2>2 DEF LimitsHold, ProxyInv
<1> QED BY <1>1, PartsInvHolds, ProxyInvHolds, PTL

\* When start reports a process healthy it is that process which answers, for any process
\* ids, crashes and reuse of them (supervisor.py); a call of the channel view returns a
\* secret that the file has held since the call began, however often the file is replaced or
\* a read fails (broker/channels.py).
THEOREM EvidenceFreshHolds == FairSpec => []EvidenceFresh
<1>1. ASSUME PartsInv PROVE EvidenceFresh
  <2>1. comp = "own" => So!TypeOK /\ So!HealthyIsRecorded /\ So!OwnInv
    BY <1>1 DEF PartsInv, So!OwnInv
  <2>2. comp = "view" => Cv!NeverStale /\ Cv!ViewInv
    BY <1>1 DEF PartsInv, Cv!ViewInv
  <2> QED BY <2>1, <2>2 DEF EvidenceFresh
<1> QED BY <1>1, PartsInvHolds, PTL

=============================================================================
