--------------------------- MODULE ProgressProofs ---------------------------
(***************************************************************************)
(* What the parts that wait for others keep while they do: the egress      *)
(* proxy (Egress.tla), one execution of a tool (ToolCall.tla), the         *)
(* broker's listener (Ingress.tla), its rate limit (RateLimit.tla), the    *)
(* agent's client (Client.tla), the channel view (ChannelView.tla) and the *)
(* supervisor (Supervisor.tla), for any number of connections, requests,   *)
(* callers, secrets and process ids and any bounds.                        *)
(***************************************************************************)
EXTENDS Egress, Sequences, FiniteSetTheorems, WellFoundedInduction, TLAPS

CONSTANTS None, Budget, MaxHeader, Callers, Limit, Window, MaxReal, MaxBack, Rows, Keys, MaxCalls
CONSTANTS ViewSecrets, MaxWrites, MaxFails, Pids, MaxSpawns, MaxCrashes, MaxReuse, MaxFaults
VARIABLES type, exchange, at, remaining, overdue, effects, answered, outcome, total
VARIABLES place, header, slow, replies, executed, refused, delivered, noted, unnoted
VARIABLES real, back, state, admitted, limited
VARIABLES phase, calls, rowOf, cmd, out, run
VARIABLES channels, view, call, during, answer, writes, fails
VARIABLES proc, port, file, act, report, foreign, lost, spawns, deaths, reuse, restarts, faults

Exec == INSTANCE ToolCall WITH late <- overdue
Http == INSTANCE Ingress WITH at <- place, late <- slow
Rate == INSTANCE RateLimit WITH refused <- limited
Agent == INSTANCE Client WITH Requests <- Rows
View == INSTANCE ChannelView WITH Secrets <- ViewSecrets, file <- channels
Own == INSTANCE Supervisor WITH MaxRestarts <- 0, Polls <- FALSE

-----------------------------------------------------------------------------
(* The egress proxy *)

\* What the invariant says of one connection.
Sound(p, l, e, u, n) ==
    /\ p \in Places /\ l \in BOOLEAN /\ e \in BOOLEAN /\ n \in Nat /\ n <= MaxResponse
    /\ u \in {"none", "fresh", "connected", "shut"}
    /\ e => l
    /\ p \in {"away", "read", "resolve", "publish", "finish", "done"} => u = "none"
    /\ p = "send" /\ e => u # "connected"

ConnSound(c) == Sound(pc[c], late[c], expired[c], upstream[c], relayed[c])

\* The variables of the connections are functions on them.
Functions ==
    /\ pc \in [Conns -> Places] /\ upstream \in [Conns -> {"none", "fresh", "connected", "shut"}]
    /\ late \in [Conns -> BOOLEAN] /\ expired \in [Conns -> BOOLEAN] /\ sent \in [Conns -> BOOLEAN]
    /\ relayed \in [Conns -> Nat]

SlotsCounted ==
    free \in Nat /\ IsFiniteSet(Busy) /\ free = Slots - Cardinality(Busy)

LEMMA ProxyParts == EgressInv <=> SlotsCounted /\ Functions /\ \A c \in Conns : ConnSound(c)
<1>1. EgressInv => SlotsCounted /\ Functions /\ \A c \in Conns : ConnSound(c)
  <2> SUFFICES ASSUME EgressInv PROVE SlotsCounted /\ Functions /\ \A c \in Conns : ConnSound(c)
    OBVIOUS
  <2>1. SlotsCounted
    BY DEF EgressInv, TypeOK, Busy, SlotsCounted
  <2>2. Functions
    BY DEF EgressInv, TypeOK, Functions
  <2>3. ASSUME NEW c \in Conns PROVE ConnSound(c)
    BY DEF EgressInv, TypeOK, ConnSound, Sound
  <2> QED BY <2>1, <2>2, <2>3
<1>2. SlotsCounted /\ Functions /\ (\A c \in Conns : ConnSound(c)) => EgressInv
  <2> SUFFICES ASSUME SlotsCounted, Functions, \A c \in Conns : ConnSound(c) PROVE EgressInv
    OBVIOUS
  <2>1. TypeOK
    BY DEF TypeOK, Busy, SlotsCounted, Functions, ConnSound, Sound
  <2> QED BY <2>1 DEF EgressInv, SlotsCounted, Functions, ConnSound, Sound
<1> QED BY <1>1, <1>2

LEMMA ProxyPartsNext == EgressInv' <=> SlotsCounted' /\ Functions' /\ \A c \in Conns : ConnSound(c)'
<1>1. EgressInv' => SlotsCounted' /\ Functions' /\ \A c \in Conns : ConnSound(c)'
  <2> SUFFICES ASSUME EgressInv' PROVE SlotsCounted' /\ Functions' /\ \A c \in Conns : ConnSound(c)'
    OBVIOUS
  <2>1. SlotsCounted'
    BY DEF EgressInv, TypeOK, Busy, SlotsCounted
  <2>2. Functions'
    BY DEF EgressInv, TypeOK, Functions
  <2>3. ASSUME NEW c \in Conns PROVE ConnSound(c)'
    BY DEF EgressInv, TypeOK, ConnSound, Sound
  <2> QED BY <2>1, <2>2, <2>3
<1>2. SlotsCounted' /\ Functions' /\ (\A c \in Conns : ConnSound(c)') => EgressInv'
  <2> SUFFICES ASSUME SlotsCounted', Functions', \A c \in Conns : ConnSound(c)' PROVE EgressInv'
    OBVIOUS
  <2>1. TypeOK'
    BY DEF TypeOK, Busy, SlotsCounted, Functions, ConnSound, Sound
  <2> QED BY <2>1 DEF EgressInv, SlotsCounted, Functions, ConnSound, Sound
<1> QED BY <1>1, <1>2

\* A connection that gets a slot, one that gives its slot back, and one that does neither.
LEMMA SlotTaken ==
  ASSUME Slots \in Nat, SlotsCounted, NEW c \in Conns, Busy' = Busy \cup {c}, c \notin Busy,
         free > 0, free' = free - 1
  PROVE  SlotsCounted'
<1>1. IsFiniteSet(Busy) /\ Cardinality(Busy) \in Nat
  BY FS_CardinalityType DEF SlotsCounted
<1>2. IsFiniteSet(Busy \cup {c}) /\ Cardinality(Busy \cup {c}) = Cardinality(Busy) + 1
  BY <1>1, FS_AddElement
<1>3. IsFiniteSet(Busy') /\ Cardinality(Busy') = Cardinality(Busy) + 1
  BY <1>2
<1> QED BY <1>1, <1>3 DEF SlotsCounted

LEMMA SlotReturned ==
  ASSUME Slots \in Nat, SlotsCounted, NEW c \in Conns, Busy' = Busy \ {c}, c \in Busy,
         free' = free + 1
  PROVE  SlotsCounted'
<1>1. IsFiniteSet(Busy) /\ Cardinality(Busy) \in Nat
  BY FS_CardinalityType DEF SlotsCounted
<1>2. IsFiniteSet(Busy \ {c}) /\ Cardinality(Busy \ {c}) = Cardinality(Busy) - 1
  BY <1>1, FS_RemoveElement
<1>3. IsFiniteSet(Busy') /\ Cardinality(Busy') = Cardinality(Busy) - 1
  BY <1>2
<1> QED BY <1>1, <1>3 DEF SlotsCounted

LEMMA SlotKept ==
  ASSUME SlotsCounted, Busy' = Busy, free' = free
  PROVE  SlotsCounted'
  BY DEF SlotsCounted

\* A step of one connection that leaves the others alone.
Alone(c) ==
    \A d \in Conns \ {c} :
        /\ pc'[d] = pc[d] /\ late'[d] = late[d] /\ expired'[d] = expired[d]
        /\ upstream'[d] = upstream[d] /\ relayed'[d] = relayed[d] /\ sent'[d] = sent[d]

\* What is to be shown of a step of connection c.
StepGood(c) == Functions' /\ Alone(c) /\ ConnSound(c)'

LEMMA AloneKeeps ==
  ASSUME \A d \in Conns : ConnSound(d), NEW c \in Conns, StepGood(c)
  PROVE  \A d \in Conns : ConnSound(d)'
<1> SUFFICES ASSUME NEW d \in Conns PROVE ConnSound(d)'
  OBVIOUS
<1>1. CASE d = c
  BY <1>1 DEF StepGood
<1>2. CASE d # c
  BY <1>2 DEF StepGood, Alone, ConnSound
<1> QED BY <1>1, <1>2

\* Every step of a connection but the first and the last, which move slots.
InHandler(c) ==
    \/ Expire(c) \/ Deadline(c)
    \/ (\E r \in Requests : ReadRequest(c, r)) \/ ReadFails(c)
    \/ Resolve(c) \/ Publish(c) \/ Connect(c) \/ Checked(c) \/ Send(c)
    \/ (\E n \in 1 .. MaxChunk : Relay(c, n)) \/ RelayEnds(c)

LEMMA HandlerSound ==
  ASSUME EgressAssumption, Functions, NEW c \in Conns, ConnSound(c), InHandler(c)
  PROVE  StepGood(c) /\ (pc[c] \in {"away", "done"} <=> pc'[c] \in {"away", "done"}) /\ free' = free
<1> USE DEF Functions, StepGood, Alone, ConnSound, Sound, Places, To, GiveUp, OutOfTime
<1>1. CASE Expire(c)
  BY <1>1 DEF Expire
<1>2. CASE Deadline(c)
  BY <1>2 DEF Deadline
<1>3. ASSUME NEW r \in Requests, ReadRequest(c, r)
      PROVE  StepGood(c) /\ (pc[c] \in {"away", "done"} <=> pc'[c] \in {"away", "done"}) /\ free' = free
  BY <1>3 DEF ReadRequest
<1>4. CASE ReadFails(c) \/ RelayEnds(c)
  BY <1>4 DEF ReadFails, RelayEnds
<1>5. CASE Resolve(c)
  BY <1>5 DEF Resolve
<1>6. CASE Publish(c)
  BY <1>6 DEF Publish
<1>7. CASE Connect(c)
  BY <1>7 DEF Connect
<1>8. CASE Checked(c) \/ Send(c)
  BY <1>8, ZenonT(60) DEF Checked, Send
<1>9. ASSUME NEW n \in 1 .. MaxChunk, Relay(c, n)
      PROVE  StepGood(c) /\ (pc[c] \in {"away", "done"} <=> pc'[c] \in {"away", "done"}) /\ free' = free
  <2>1. n \in Nat /\ MaxResponse \in Nat
    BY DEF EgressAssumption
  <2> QED BY <1>9, <2>1 DEF Relay
<1> QED BY <1>1, <1>2, <1>3, <1>4, <1>5, <1>6, <1>7, <1>8, <1>9 DEF InHandler

LEMMA ProxyNext ==
  ASSUME EgressAssumption, EgressInv, [Next]_vars
  PROVE  EgressInv'
<1>0. SlotsCounted /\ Functions /\ (\A c \in Conns : ConnSound(c)) /\ Slots \in Nat
  BY ProxyParts DEF EgressAssumption
<1>1. ASSUME NEW c \in Conns, InHandler(c) PROVE EgressInv'
  <2>1. StepGood(c) /\ (pc[c] \in {"away", "done"} <=> pc'[c] \in {"away", "done"}) /\ free' = free
    BY <1>0, <1>1, HandlerSound
  <2>2. Busy' = Busy
    BY <1>0, <2>1 DEF Busy, StepGood, Alone
  <2> QED BY <1>0, <2>1, <2>2, SlotKept, AloneKeeps, ProxyPartsNext DEF StepGood
<1>2. ASSUME NEW c \in Conns, Refuse(c) \/ StartFails(c) PROVE EgressInv'
  <2>1. StepGood(c) /\ pc[c] = "away" /\ pc'[c] = "done" /\ free' = free
    BY <1>0, <1>2 DEF Refuse, StartFails, To, StepGood, Functions, Alone, ConnSound, Sound, Places
  <2>2. Busy' = Busy
    BY <1>0, <2>1 DEF Busy, StepGood, Alone
  <2> QED BY <1>0, <2>1, <2>2, SlotKept, AloneKeeps, ProxyPartsNext DEF StepGood
<1>3. ASSUME NEW c \in Conns, Setup(c) PROVE EgressInv'
  <2>1. StepGood(c) /\ pc[c] = "away" /\ pc'[c] = "read" /\ free > 0 /\ free' = free - 1
    BY <1>0, <1>3 DEF Setup, To, StepGood, Functions, Alone, ConnSound, Sound, Places
  <2>2. Busy' = Busy \cup {c} /\ c \notin Busy
    BY <1>0, <2>1 DEF Busy, StepGood, Alone
  <2> QED BY <1>0, <2>1, <2>2, SlotTaken, AloneKeeps, ProxyPartsNext DEF StepGood
<1>4. ASSUME NEW c \in Conns, Finish(c) PROVE EgressInv'
  <2>1. StepGood(c) /\ pc[c] = "finish" /\ pc'[c] = "done" /\ free' = free + 1
    BY <1>0, <1>4 DEF Finish, To, StepGood, Functions, Alone, ConnSound, Sound, Places
  <2>2. Busy' = Busy \ {c} /\ c \in Busy
    BY <1>0, <2>1 DEF Busy, StepGood, Alone
  <2> QED BY <1>0, <2>1, <2>2, SlotReturned, AloneKeeps, ProxyPartsNext DEF StepGood
<1>5. CASE UNCHANGED vars
  BY <1>5 DEF vars, EgressInv, TypeOK, Busy
<1> QED BY <1>1, <1>2, <1>3, <1>4, <1>5 DEF Next, Handler, InHandler

LEMMA ProxyInit == ASSUME EgressAssumption, Init PROVE EgressInv
<1>1. Busy = {}
  BY DEF Init, Busy
<1>2. SlotsCounted
  BY <1>1, FS_EmptySet DEF SlotsCounted, Init, EgressAssumption
<1>3. Functions /\ \A c \in Conns : ConnSound(c)
  BY DEF Functions, ConnSound, Sound, Init, Places, EgressAssumption
<1> QED BY <1>2, <1>3, ProxyParts

\* A slot is taken exactly while a handler runs, however it ends, an upstream socket is open
\* only then, and no response passes more than _MAX_RESPONSE; and the handler of a connection
\* whose timer has fired is bound to notice: EgressInv.
THEOREM EgressInvHolds ==
  ASSUME EgressAssumption
  PROVE  Spec => []EgressInv
  BY ProxyInit, ProxyNext, PTL DEF Spec

\* Only Send and Relay make progress that a peer can see, and both are safe in the invariant.
LEMMA ProxyQuiet ==
  ASSUME EgressAssumption, EgressInv, Next
  PROVE  NothingAfterExpiry
<1> USE DEF NothingAfterExpiry
<1>0. Functions /\ \A c \in Conns : ConnSound(c)
  BY ProxyParts
<1>1. PICK c \in Conns :
          \/ Refuse(c) \/ StartFails(c) \/ Setup(c) \/ Finish(c) \/ InHandler(c)
  BY DEF Next, Handler, InHandler
<1>2. CASE Send(c)
  BY <1>0, <1>2 DEF Send, Functions, ConnSound, Sound
<1>3. ASSUME NEW n \in 1 .. MaxChunk, Relay(c, n) PROVE NothingAfterExpiry
  BY <1>0, <1>3 DEF Relay, Functions, ConnSound, Sound
<1>4. CASE UNCHANGED <<sent, relayed>>
  BY <1>4
<1>5. CASE Refuse(c) \/ StartFails(c) \/ Setup(c) \/ Finish(c) \/ Expire(c) \/ Deadline(c)
  BY <1>4, <1>5 DEF Refuse, StartFails, Setup, Finish, Expire, Deadline
<1>6. CASE (\E r \in Requests : ReadRequest(c, r)) \/ ReadFails(c) \/ RelayEnds(c) \/ Resolve(c)
           \/ Publish(c) \/ Connect(c) \/ Checked(c)
  BY <1>4, <1>6 DEF ReadRequest, ReadFails, RelayEnds, Resolve, Publish, Connect, Checked
<1> QED BY <1>1, <1>2, <1>3, <1>5, <1>6 DEF InHandler

\* "the timer cannot miss a newly connected/published socket": once the timer of a connection
\* has fired, its request does not go out and nothing is relayed, wherever its handler was.
THEOREM NothingAfterExpiryHolds ==
  ASSUME EgressAssumption
  PROVE  Spec => [][NothingAfterExpiry]_vars
<1>1. EgressInv /\ [Next]_vars => [NothingAfterExpiry]_vars
  BY ProxyQuiet
<1> QED BY <1>1, EgressInvHolds, PTL DEF Spec

-----------------------------------------------------------------------------
(* One execution of a tool *)

LEMMA CallInit == ASSUME Exec!ToolCallAssumption, Exec!Init PROVE Exec!CallInv
  BY DEF Exec!ToolCallAssumption, Exec!Init, Exec!First, Exec!CallInv, Exec!EvidenceHonest

LEMMA CallNext ==
  ASSUME Exec!ToolCallAssumption, Exec!CallInv, [Exec!Next]_(Exec!vars)
  PROVE  Exec!CallInv'
<1> USE DEF Exec!CallInv, Exec!EvidenceHonest, Exec!ToolCallAssumption, Exec!End
<1>1. CASE Exec!Deadline \/ Exec!Connect
  BY <1>1 DEF Exec!Deadline, Exec!Connect
<1>2. CASE Exec!Unreachable
  BY <1>2 DEF Exec!Unreachable, Exec!Advance
<1>3. CASE Exec!Send
  BY <1>3 DEF Exec!Send, Exec!Advance
<1>4. ASSUME NEW n \in 1 .. 2, Exec!Read(n) PROVE Exec!CallInv'
  BY <1>4 DEF Exec!Read
<1>5. CASE Exec!Take
  BY <1>5 DEF Exec!Take, Exec!Advance
<1>6. CASE Exec!Reject \/ Exec!Timeout
  BY <1>6 DEF Exec!Reject, Exec!Timeout
<1>7. CASE UNCHANGED Exec!vars
  BY <1>7 DEF Exec!vars
<1> QED BY <1>1, <1>2, <1>3, <1>4, <1>5, <1>6, <1>7 DEF Exec!Next

LEMMA CallKeeps == ASSUME Exec!ToolCallAssumption, Exec!CallInv PROVE Exec!EvidenceHonest /\ Exec!BudgetShared
  BY DEF Exec!CallInv, Exec!BudgetShared, Exec!ToolCallAssumption

-----------------------------------------------------------------------------
(* The broker's listener *)

LEMMA HttpInit == Http!Init => Http!IngressInv
  BY DEF Http!Init, Http!IngressInv, Http!Reading, Http!Writing, Http!ExecutedIsKnown

LEMMA HttpNext ==
  ASSUME Http!IngressInv, [Http!Next]_(Http!vars)
  PROVE  Http!IngressInv'
<1> USE DEF Http!IngressInv, Http!Reading, Http!Writing, Http!ExecutedIsKnown, Http!To, Http!ghosts
<1>1. ASSUME NEW c \in Conns, Http!Accept(c) PROVE Http!IngressInv'
  BY <1>1 DEF Http!Accept
<1>2. ASSUME NEW c \in Conns, Http!InputDeadline(c) \/ Http!OutputDeadline(c) PROVE Http!IngressInv'
  <2>1. slow' = [slow EXCEPT ![c] = TRUE]
        /\ UNCHANGED <<place, header, replies, executed, refused, delivered, noted, unnoted>>
    BY <1>2 DEF Http!InputDeadline, Http!OutputDeadline
  <2> QED BY <2>1
<1>3. ASSUME NEW c \in Conns, Http!Reading(c), Http!Refuse(c) PROVE Http!IngressInv'
  BY <1>3 DEF Http!Refuse, Http!Begin
<1>4. ASSUME NEW c \in Conns, Http!ReadHeader(c) \/ Http!HeadersEnd(c) \/ Http!ReadTimeout(c) \/ Http!Hangup(c)
      PROVE  Http!IngressInv'
  BY <1>3, <1>4 DEF Http!ReadHeader, Http!HeadersEnd, Http!ReadTimeout, Http!Hangup
<1>5. ASSUME NEW c \in Conns, Http!Handle(c) PROVE Http!IngressInv'
  <2>1. CASE Http!Begin(c) /\ executed' = [executed EXCEPT ![c] = TRUE]
             /\ UNCHANGED <<header, refused, Http!ghosts>>
    BY <1>5, <2>1 DEF Http!Handle, Http!Begin
  <2>2. CASE Http!Refuse(c)
    BY <1>3, <1>5, <2>2 DEF Http!Handle
  <2> QED BY <1>5, <2>1, <2>2 DEF Http!Handle
<1>6. ASSUME NEW c \in Conns, Http!Write(c) PROVE Http!IngressInv'
  BY <1>6, ZenonT(60) DEF Http!Write
<1>7. ASSUME NEW c \in Conns, Http!WriteFails(c) PROVE Http!IngressInv'
  BY <1>7, ZenonT(60) DEF Http!WriteFails
<1>8. CASE UNCHANGED Http!vars
  BY <1>8 DEF Http!vars
<1> QED BY <1>1, <1>2, <1>4, <1>5, <1>6, <1>7, <1>8 DEF Http!Next

\* Of the connections that are served there is at most one.
LEMMA HttpKeeps == Http!IngressInv => Http!AnsweredOnce /\ Http!ExecutedIsKnown
<1> SUFFICES ASSUME Http!IngressInv PROVE Http!AnsweredOnce /\ Http!ExecutedIsKnown
  OBVIOUS
<1> DEFINE Served == {c \in Conns : Http!Reading(c) \/ Http!Writing(c)}
<1>1. Cardinality(Served) <= 1
  <2>1. CASE Served = {}
    BY <2>1, FS_EmptySet
  <2>2. ASSUME NEW c \in Served PROVE Cardinality(Served) <= 1
    <3>1. Served = {c}
      BY DEF Http!IngressInv
    <3> QED BY <3>1, FS_Singleton
  <2> QED BY <2>1, <2>2
<1> QED BY <1>1 DEF Http!IngressInv, Http!AnsweredOnce, Cardinality, Http!Cardinality

-----------------------------------------------------------------------------
(* The agent's client *)

LEMMA AgentInit == Agent!Init => Agent!ClientInv
  BY DEF Agent!Init, Agent!ClientInv, Agent!Broker!Init, Agent!Broker!Phases, Agent!SuccessIsTrue,
     Agent!LostIsUnknown

\* Statuses that a receipt reads in a phase, and what follows from them.
LEMMA StatusTells ==
  ASSUME NEW p \in Agent!Broker!Phases, p # "absent", NEW s \in Agent!StatusOf(p)
  PROVE  /\ s \in Agent!Fail \cup {"completed", "pending_approval"}
         /\ s = "completed" => p = "ran"
  BY DEF Agent!Broker!Phases, Agent!StatusOf, Agent!Fail

LEMMA AgentNext ==
  ASSUME Agent!ClientAssumption, Agent!ClientInv, [Agent!Next]_(Agent!vars)
  PROVE  Agent!ClientInv'
<1> USE DEF Agent!ClientAssumption
<1>1. ASSUME NEW r \in Rows, Agent!BrokerWorks(r) PROVE Agent!ClientInv'
  <2>1. PICK p \in Agent!Broker!Phases \ {"absent"}, n \in {0, 1} :
            phase' = [phase EXCEPT ![r] = p] /\ calls' = [calls EXCEPT ![r] = n]
    BY <1>1 DEF Agent!BrokerWorks
  <2>2. UNCHANGED <<rowOf, cmd, out, run>>
    BY <1>1 DEF Agent!BrokerWorks
  <2>3. (calls[r] = 1 => n = 1) /\ (p = "ran" => n = 1)
    BY <1>1, <2>1 DEF Agent!BrokerWorks, Agent!Broker!Commit, Agent!Broker!Call, Agent!Broker!End,
       Agent!ClientInv
  <2> QED BY <2>1, <2>2, <2>3 DEF Agent!ClientInv, Agent!SuccessIsTrue, Agent!LostIsUnknown, Agent!Commands
<1>2. ASSUME NEW r \in Rows, Agent!StartWait(r) PROVE Agent!ClientInv'
  BY <1>2 DEF Agent!StartWait, Agent!ClientInv, Agent!SuccessIsTrue, Agent!LostIsUnknown, Agent!Commands
<1>3. ASSUME NEW k \in Keys \cup {None}, NEW w \in BOOLEAN, Agent!StartCall(k, w) PROVE Agent!ClientInv'
  BY <1>3 DEF Agent!StartCall, Agent!ClientInv, Agent!SuccessIsTrue, Agent!LostIsUnknown, Agent!Commands
<1>4. ASSUME NEW r \in Rows, Agent!Take(r) PROVE Agent!ClientInv'
  <2>1. cmd \in Agent!Commands /\ cmd.at = "post" /\ cmd' = [cmd EXCEPT !.row = r] /\ out' = out /\ calls' = calls
    BY <1>4 DEF Agent!Take, Agent!At, Agent!ClientInv
  <2>2. cmd' \in Agent!Commands /\ cmd'.at = "post" /\ cmd'.row = r
    BY <2>1 DEF Agent!Commands
  <2>3. CASE cmd.key # None /\ rowOf[cmd.key] # None
    <3>1. cmd.key \in Keys /\ r = rowOf[cmd.key] /\ UNCHANGED <<phase, rowOf>>
      BY <1>4, <2>1, <2>3 DEF Agent!Take, Agent!Commands
    <3> QED BY <2>1, <2>2, <3>1 DEF Agent!ClientInv, Agent!SuccessIsTrue, Agent!LostIsUnknown
  <2>4. CASE ~(cmd.key # None /\ rowOf[cmd.key] # None)
    <3>1. phase' = [phase EXCEPT ![r] = "open"] /\ phase[r] = "absent"
      BY <1>4, <2>4 DEF Agent!Take
    <3>2. rowOf' = rowOf \/ (cmd.key \in Keys /\ rowOf' = [rowOf EXCEPT ![cmd.key] = r])
      BY <1>4, <2>1, <2>4 DEF Agent!Take, Agent!Commands
    <3>3. rowOf' \in [Keys -> Rows \cup {None}] /\ \A k \in Keys : rowOf'[k] \in {rowOf[k], r}
      BY <3>2 DEF Agent!ClientInv
    <3> QED BY <2>1, <2>2, <3>1, <3>3
            DEF Agent!ClientInv, Agent!SuccessIsTrue, Agent!LostIsUnknown, Agent!Broker!Phases
  <2> QED BY <2>3, <2>4
<1>5. ASSUME NEW s, NEW id \in BOOLEAN, cmd # None, Agent!Exit(s, id), UNCHANGED <<phase, calls, rowOf, run>>,
             s \in Agent!Fail \/ (s = "completed" /\ cmd.row # None /\ calls[cmd.row] = 1)
                            \/ (s = "pending_approval" /\ ~cmd.wait),
             cmd.row # None /\ ~id => s = "unknown"
      PROVE  Agent!ClientInv'
  <2>1. cmd' = None /\ out'.status = s /\ out'.row = cmd.row /\ out'.id = id /\ out'.waited = cmd.wait
        /\ out'.code = (IF s \in Agent!Fail THEN 1 ELSE 0)
    BY <1>5 DEF Agent!Exit
  <2>2. cmd.row \in Rows \cup {None}
    BY <1>5 DEF Agent!ClientInv, Agent!Commands
  <2> QED BY <1>5, <2>1, <2>2 DEF Agent!ClientInv, Agent!SuccessIsTrue, Agent!LostIsUnknown
<1>6. ASSUME NEW s \in Agent!Statuses, Agent!Answer(s) PROVE Agent!ClientInv'
  <2>1. cmd # None /\ cmd \in Agent!Commands /\ cmd.row \in Rows /\ phase[cmd.row] # "absent"
        /\ s \in Agent!StatusOf(phase[cmd.row]) /\ UNCHANGED <<phase, calls, rowOf, run>>
    BY <1>6 DEF Agent!Answer, Agent!At, Agent!ClientInv, Agent!Commands
  <2>2. s \in Agent!Fail \cup {"completed", "pending_approval"} /\ (s = "completed" => calls[cmd.row] = 1)
    BY <2>1, StatusTells DEF Agent!ClientInv
  <2>3. CASE cmd.wait /\ s \in Agent!Waiting
    <3>1. cmd' = [cmd EXCEPT !.at = "poll", !.known = TRUE] /\ out' = out
      BY <1>6, <2>3 DEF Agent!Answer
    <3>2. cmd' \in Agent!Commands /\ cmd'.row = cmd.row /\ cmd'.wait
      BY <2>1, <2>3, <3>1 DEF Agent!Commands
    <3> QED BY <2>1, <3>1, <3>2 DEF Agent!ClientInv, Agent!SuccessIsTrue, Agent!LostIsUnknown
  <2>4. CASE ~(cmd.wait /\ s \in Agent!Waiting)
    <3>1. Agent!Exit(s, TRUE)
      BY <1>6, <2>4 DEF Agent!Answer
    <3>2. s = "pending_approval" => ~cmd.wait
      BY <2>4 DEF Agent!Waiting
    <3> QED BY <1>5, <2>1, <2>2, <3>1, <3>2
  <2> QED BY <2>3, <2>4
<1>7. CASE Agent!PostFails
  <2>1. cmd # None /\ UNCHANGED <<phase, calls, rowOf, run>>
        /\ (Agent!Exit("unknown", FALSE) \/ (cmd.row = None /\ Agent!Exit("error", FALSE)))
    BY <1>7 DEF Agent!PostFails, Agent!At
  <2>2. "unknown" \in Agent!Fail /\ "error" \in Agent!Fail
    BY DEF Agent!Fail
  <2> QED BY <1>5, <2>1, <2>2
<1>8. ASSUME NEW s \in Agent!Statuses, Agent!Poll(s) PROVE Agent!ClientInv'
  <2>1. cmd # None /\ cmd \in Agent!Commands /\ cmd.row \in Rows /\ phase[cmd.row] # "absent"
        /\ s \in Agent!StatusOf(phase[cmd.row]) /\ UNCHANGED <<phase, calls, rowOf, run>>
    BY <1>8 DEF Agent!Poll, Agent!At, Agent!ClientInv, Agent!Commands
  <2>2. s \in Agent!Fail \cup {"completed", "pending_approval"} /\ (s = "completed" => calls[cmd.row] = 1)
    BY <2>1, StatusTells DEF Agent!ClientInv
  <2>3. CASE s \notin Agent!Waiting
    <3>1. Agent!Exit(s, TRUE) /\ s # "pending_approval"
      BY <1>8, <2>3 DEF Agent!Poll, Agent!Waiting
    <3> QED BY <1>5, <2>1, <2>2, <3>1
  <2>4. CASE s \in Agent!Waiting /\ cmd.late
    <3>1. Agent!Exit("timeout", TRUE) /\ "timeout" \in Agent!Fail
      BY <1>8, <2>4 DEF Agent!Poll, Agent!Fail
    <3> QED BY <1>5, <2>1, <3>1
  <2>5. CASE UNCHANGED <<cmd, out>>
    BY <2>1, <2>5 DEF Agent!ClientInv, Agent!SuccessIsTrue, Agent!LostIsUnknown
  <2> QED BY <1>8, <2>3, <2>4, <2>5 DEF Agent!Poll
<1>9. CASE Agent!PollFails
  <2>1. PICK s \in {"unknown", "error"} : Agent!Exit(s, TRUE)
    BY <1>9 DEF Agent!PollFails
  <2>2. cmd # None /\ UNCHANGED <<phase, calls, rowOf, run>> /\ s \in Agent!Fail
    BY <1>9 DEF Agent!PollFails, Agent!At, Agent!Fail
  <2> QED BY <1>5, <2>1, <2>2
<1>10. CASE Agent!Deadline
  <2>1. cmd # None /\ cmd \in Agent!Commands /\ cmd' = [cmd EXCEPT !.late = TRUE] /\ UNCHANGED <<phase, calls, rowOf, out>>
    BY <1>10 DEF Agent!Deadline, Agent!At, Agent!ClientInv
  <2>2. cmd' \in Agent!Commands /\ cmd'.row = cmd.row /\ cmd'.wait = cmd.wait /\ cmd'.at = cmd.at
    BY <2>1 DEF Agent!Commands
  <2> QED BY <2>1, <2>2 DEF Agent!ClientInv, Agent!SuccessIsTrue, Agent!LostIsUnknown
<1>11. CASE UNCHANGED Agent!vars
  BY <1>11 DEF Agent!vars, Agent!ClientInv, Agent!SuccessIsTrue, Agent!LostIsUnknown
<1> QED BY <1>1, <1>2, <1>3, <1>4, <1>6, <1>7, <1>8, <1>9, <1>10, <1>11
        DEF Agent!Next, Agent!PostEnds, Agent!PollRound

LEMMA AgentKeeps == Agent!ClientInv => Agent!SuccessIsTrue /\ Agent!LostIsUnknown
  BY DEF Agent!ClientInv

-----------------------------------------------------------------------------
(* The rate limit *)

\* What the invariant says of n times a, of which the current window has a[first] and the
\* ones after it.
Spaced(a, n, first) ==
    /\ \A i, j \in 1 .. n : i <= j => a[i] <= a[j]
    /\ \A i \in 1 .. first - Limit : a[i] + Window <= a[first]
    /\ \A i \in 1 .. n - (2 * Limit - 1) : a[i] + Window <= a[i + 2 * Limit - 1]

\* b is a with one more time, r, which is not before the others.
Later(a, b, n, r) ==
    /\ a \in [1 .. n -> Nat] /\ b \in [1 .. n + 1 -> Nat]
    /\ \A i \in 1 .. n : b[i] = a[i] /\ a[i] <= r
    /\ b[n + 1] = r

LEMMA LaterSorted ==
  ASSUME NEW n \in Nat, NEW r \in Nat, NEW a, NEW b, Later(a, b, n, r),
         \A i, j \in 1 .. n : i <= j => a[i] <= a[j]
  PROVE  \A i, j \in 1 .. n + 1 : i <= j => b[i] <= b[j]
<1> SUFFICES ASSUME NEW i \in 1 .. n + 1, NEW j \in 1 .. n + 1, i <= j PROVE b[i] <= b[j]
  OBVIOUS
<1>1. CASE j \in 1 .. n
  BY <1>1 DEF Later
<1>2. CASE j = n + 1 /\ i \in 1 .. n
  BY <1>2 DEF Later
<1>3. CASE j = n + 1 /\ i = n + 1
  BY <1>3 DEF Later
<1> QED BY <1>1, <1>2, <1>3

\* One more request in the current window, which is not full.
LEMMA SpacedSame ==
  ASSUME Limit \in Nat, Limit > 0, Window \in Nat, NEW n \in Nat, NEW r \in Nat, NEW a, NEW b,
         Later(a, b, n, r), NEW first \in 1 .. n, n - first + 1 < Limit, Spaced(a, n, first)
  PROVE  Spaced(b, n + 1, first)
<1>1. \A i, j \in 1 .. n + 1 : i <= j => b[i] <= b[j]
  BY LaterSorted DEF Spaced
<1>2. \A i \in 1 .. first - Limit : b[i] + Window <= b[first]
  BY DEF Spaced, Later
<1>3. ASSUME NEW i \in 1 .. n + 1 - (2 * Limit - 1) PROVE b[i] + Window <= b[i + 2 * Limit - 1]
  <2>1. CASE i + 2 * Limit - 1 <= n
    <3>1. i \in 1 .. n - (2 * Limit - 1) /\ i \in 1 .. n /\ i + 2 * Limit - 1 \in 1 .. n
      BY <2>1
    <3> QED BY <3>1 DEF Spaced, Later
  <2>2. CASE i + 2 * Limit - 1 = n + 1
    <3>1. i \in 1 .. first - Limit /\ i \in 1 .. n
      BY <2>2
    <3>2. a[i] + Window <= a[first] /\ a[first] <= r
      BY <3>1 DEF Spaced, Later
    <3> QED BY <2>2, <3>1, <3>2, SMTT(60) DEF Later
  <2> QED BY <2>1, <2>2
<1> QED BY <1>1, <1>2, <1>3 DEF Spaced

\* The first request of a new window, a Window after the first of the last one.
LEMMA SpacedNew ==
  ASSUME Limit \in Nat, Limit > 0, Window \in Nat, NEW n \in Nat, NEW r \in Nat, NEW a, NEW b,
         Later(a, b, n, r), NEW first \in 1 .. n, n - first + 1 <= Limit, Spaced(a, n, first),
         a[first] + Window <= r
  PROVE  Spaced(b, n + 1, n + 1)
<1>1. \A i, j \in 1 .. n + 1 : i <= j => b[i] <= b[j]
  BY LaterSorted DEF Spaced
<1>2. ASSUME NEW i \in 1 .. n + 1 - Limit PROVE b[i] + Window <= b[n + 1]
  <2>1. i \in 1 .. n /\ i <= first
    OBVIOUS
  <2>2. a[i] <= a[first] /\ a[i] \in Nat /\ a[first] \in Nat
    BY <2>1 DEF Spaced, Later
  <2> QED BY <2>1, <2>2 DEF Later
<1>3. ASSUME NEW i \in 1 .. n + 1 - (2 * Limit - 1) PROVE b[i] + Window <= b[i + 2 * Limit - 1]
  <2>1. CASE i + 2 * Limit - 1 <= n
    <3>1. i \in 1 .. n - (2 * Limit - 1) /\ i \in 1 .. n /\ i + 2 * Limit - 1 \in 1 .. n
      BY <2>1
    <3> QED BY <3>1 DEF Spaced, Later
  <2>2. CASE i + 2 * Limit - 1 = n + 1
    <3>1. i \in 1 .. n + 1 - Limit
      BY <2>2
    <3> QED BY <1>2, <2>2, <3>1
  <2> QED BY <2>1, <2>2
<1> QED BY <1>1, <1>2, <1>3 DEF Spaced

LEMMA AppendTime ==
  ASSUME NEW a \in Seq(Nat), NEW r \in Nat, \A i \in DOMAIN a : a[i] <= r
  PROVE  Append(a, r) \in Seq(Nat) /\ Len(Append(a, r)) = Len(a) + 1 /\ Later(a, Append(a, r), Len(a), r)
<1>1. Append(a, r) \in Seq(Nat) /\ Len(Append(a, r)) = Len(a) + 1 /\ Len(a) \in Nat
  OBVIOUS
<1>2. a \in [1 .. Len(a) -> Nat] /\ DOMAIN a = 1 .. Len(a)
  OBVIOUS
<1>3. \A b \in Seq(Nat) : b \in [1 .. Len(b) -> Nat]
  OBVIOUS
<1>4. Append(a, r)[Len(a) + 1] = r /\ \A i \in 1 .. Len(a) : Append(a, r)[i] = a[i]
  OBVIOUS
<1> QED BY <1>1, <1>2, <1>3, <1>4 DEF Later

LEMMA RateInit == ASSUME Rate!RateLimitAssumption, Rate!Init PROVE Rate!RateInv
  BY DEF Rate!RateLimitAssumption, Rate!Init, Rate!RateInv, Rate!WindowSound, Rate!NoWindow

\* The invariant of one caller in these terms.
LEMMA WindowParts ==
  ASSUME NEW c \in Callers, NEW a \in Seq(Nat), a = admitted[c], Rate!WindowSound(c)
  PROVE  /\ Len(a) \in Nat /\ \A i \in DOMAIN a : a[i] <= real
         /\ a = <<>> => state[c] = Rate!NoWindow
         /\ a # <<>> => /\ Spaced(a, Len(a), Len(a) - state[c].count + 1)
                        /\ Len(a) - state[c].count + 1 \in 1 .. Len(a)
                        /\ state[c].start >= MaxBack + a[Len(a) - state[c].count + 1] - back
<1>1. DOMAIN a = 1 .. Len(a) /\ Len(a) \in Nat
  OBVIOUS
<1>2. \A i \in DOMAIN a : a[i] <= real
  BY DEF Rate!WindowSound
<1>3. \A i, j \in 1 .. Len(a) : i <= j => a[i] <= a[j]
  BY <1>1 DEF Rate!WindowSound
<1>4. \A i \in 1 .. Len(a) - (2 * Limit - 1) : a[i] + Window <= a[i + 2 * Limit - 1]
  BY DEF Rate!WindowSound
<1>5. PICK first : first = Len(admitted[c]) - state[c].count + 1
  OBVIOUS
<1>6. IF admitted[c] = <<>> THEN state[c] = Rate!NoWindow
      ELSE /\ first \in DOMAIN admitted[c] /\ state[c].start >= MaxBack + admitted[c][first] - back
           /\ \A i \in 1 .. first - Limit : admitted[c][i] + Window <= admitted[c][first]
  BY <1>5, Zenon DEF Rate!WindowSound
<1>7. a = <<>> => state[c] = Rate!NoWindow
  BY <1>6
<1>8. ASSUME a # <<>>
      PROVE  first \in 1 .. Len(a) /\ Spaced(a, Len(a), first) /\ state[c].start >= MaxBack + a[first] - back
  BY <1>1, <1>3, <1>4, <1>6, <1>8 DEF Spaced
<1> QED BY <1>1, <1>2, <1>5, <1>7, <1>8

LEMMA WindowBuilt ==
  ASSUME NEW c \in Callers, NEW b \in Seq(Nat), b = admitted'[c], b # <<>>,
         NEW first \in 1 .. Len(b), first = Len(b) - state'[c].count + 1, Spaced(b, Len(b), first),
         state'[c].start >= MaxBack + b[first] - back', \A i \in 1 .. Len(b) : b[i] <= real'
  PROVE  Rate!WindowSound(c)'
<1>1. DOMAIN b = 1 .. Len(b) /\ Len(b) \in Nat
  OBVIOUS
<1>2. (\A i \in DOMAIN b : b[i] <= real') /\ (\A i, j \in DOMAIN b : i <= j => b[i] <= b[j])
  BY <1>1 DEF Spaced
<1>3. IF b = <<>> THEN state'[c] = Rate!NoWindow
      ELSE /\ first \in DOMAIN b /\ state'[c].start >= MaxBack + b[first] - back'
           /\ \A i \in 1 .. first - Limit : b[i] + Window <= b[first]
  BY <1>1 DEF Spaced
<1>4. \A i \in 1 .. Len(b) - (2 * Limit - 1) : b[i] + Window <= b[i + 2 * Limit - 1]
  BY DEF Spaced
<1> QED BY <1>2, <1>3, <1>4, Zenon DEF Rate!WindowSound, Rate!NoWindow

LEMMA RateNext ==
  ASSUME Rate!RateLimitAssumption, Rate!RateInv, [Rate!Next]_(Rate!vars)
  PROVE  Rate!RateInv'
<1>0. Limit \in Nat /\ Limit > 0 /\ Window \in Nat /\ Window > 0 /\ MaxReal \in Nat /\ MaxBack \in Nat
  BY DEF Rate!RateLimitAssumption
<1>1. CASE Rate!Tick
  BY <1>0, <1>1, SMTT(60) DEF Rate!Tick, Rate!RateInv, Rate!WindowSound
<1>2. CASE Rate!SetBack
  <2>1. back' \in 0 .. MaxBack /\ back' = back + 1 /\ back \in Nat /\ UNCHANGED <<real, state, admitted>>
    BY <1>0, <1>2 DEF Rate!SetBack, Rate!RateInv
  <2>2. ASSUME NEW c \in Callers PROVE Rate!WindowSound(c)'
    <3>1. admitted[c] \in Seq(Nat) /\ state[c].start \in Int /\ Rate!WindowSound(c)
      BY DEF Rate!RateInv
    <3>2. \A i \in DOMAIN admitted[c] : \A s \in Int :
              s >= MaxBack + admitted[c][i] - back => s >= MaxBack + admitted[c][i] - back'
      BY <1>0, <2>1, <3>1
    <3> QED BY <2>1, <3>1, <3>2 DEF Rate!WindowSound
  <2> QED BY <2>1, <2>2 DEF Rate!RateInv
<1>3. CASE UNCHANGED <<real, back, state, admitted>>
  BY <1>3 DEF Rate!RateInv, Rate!WindowSound
<1>4. ASSUME NEW c \in Callers, Rate!Allow(c), ~UNCHANGED <<state, admitted>> PROVE Rate!RateInv'
  <2>0. /\ real \in Nat /\ back \in 0 .. MaxBack /\ Rate!WindowSound(c)
        /\ admitted[c] \in Seq(Nat) /\ state[c].start \in Int /\ state[c].count \in 0 .. Limit
        /\ state[c] = [start |-> state[c].start, count |-> state[c].count]
    BY DEF Rate!RateInv
  <2>1. PICK st, k : st = Rate!Current(c).start /\ k = Rate!Current(c).count
    OBVIOUS
  <2>2. PICK a, n : a = admitted[c] /\ n = Len(a)
    OBVIOUS
  <2>3. Rate!now \in Int /\ Rate!now = MaxBack + real - back
    BY <1>0, <2>0 DEF Rate!now
  <2>4. Rate!Current(c) = [start |-> st, count |-> k] /\ st \in Int /\ k \in 0 .. Limit
    BY <1>0, <2>0, <2>1, <2>3 DEF Rate!Current
  <2>5. /\ k < Limit /\ UNCHANGED <<real, back>>
        /\ state' = [state EXCEPT ![c] = [start |-> st, count |-> k + 1]]
        /\ admitted' = [admitted EXCEPT ![c] = Append(a, real)]
    BY <1>0, <1>4, <2>2, <2>4 DEF Rate!Allow
  <2>6. n \in Nat /\ (\A i \in DOMAIN a : a[i] <= real) /\ (a = <<>> => state[c] = Rate!NoWindow)
    BY <2>0, <2>2, WindowParts
  <2>7. a # <<>> => /\ Spaced(a, n, n - state[c].count + 1) /\ n - state[c].count + 1 \in 1 .. n
                    /\ state[c].start >= MaxBack + a[n - state[c].count + 1] - back
    BY <2>0, <2>2, WindowParts
  <2>8. PICK b : b = Append(a, real) /\ b \in Seq(Nat) /\ Len(b) = n + 1 /\ Later(a, b, n, real)
    BY <2>0, <2>2, <2>6, AppendTime
  <2>9. Spaced(b, n + 1, n + 1 - k) /\ n + 1 - k \in 1 .. n + 1 /\ st >= MaxBack + b[n + 1 - k] - back
    <3>1. CASE a = <<>>
      <4>1. n = 0 /\ st = Rate!now /\ k = 0
        BY <2>1, <2>2, <2>6, <3>1 DEF Rate!Current
      <4>2. b[1] = real
        BY <2>8, <4>1 DEF Later
      <4>3. \A i, j \in 1 .. 1 : i <= j => b[i] <= b[j]
        BY <2>0, <4>2
      <4> QED BY <1>0, <2>0, <2>3, <4>1, <4>2, <4>3 DEF Spaced
    <3>2. PICK first : first = n - state[c].count + 1
      OBVIOUS
    <3>3. ASSUME a # <<>> PROVE first \in 1 .. n /\ Spaced(a, n, first) /\ a[first] \in Nat
                              /\ n - first + 1 = state[c].count /\ state[c].start >= MaxBack + a[first] - back
      <4>1. first \in 1 .. n /\ Spaced(a, n, first) /\ state[c].start >= MaxBack + a[first] - back
        BY <2>7, <3>2, <3>3
      <4>2. a[first] \in Nat
        BY <2>8, <4>1 DEF Later
      <4>3. n - first + 1 = state[c].count
        BY <1>0, <2>0, <2>6, <3>2
      <4> QED BY <4>1, <4>2, <4>3
    <3>4. CASE a # <<>> /\ Rate!now - state[c].start >= Window
      <4>1. st = Rate!now /\ k = 0
        BY <2>1, <3>4 DEF Rate!Current
      <4>2. a[first] + Window <= real
        <5>1. a[first] \in Nat /\ state[c].start >= MaxBack + a[first] - back
          BY <3>3, <3>4
        <5>2. MaxBack + real - back - state[c].start >= Window
          BY <1>0, <2>0, <2>3, <3>4
        <5> QED BY <1>0, <2>0, <5>1, <5>2
      <4>3. Spaced(b, n + 1, n + 1)
        <5>1. first \in 1 .. n /\ Spaced(a, n, first) /\ n - first + 1 <= Limit
          BY <1>0, <2>0, <3>3, <3>4
        <5> QED BY <1>0, <2>0, <2>6, <2>8, <5>1, <4>2, SpacedNew
      <4>4. b[n + 1] = real
        BY <2>8 DEF Later
      <4> QED BY <1>0, <2>0, <2>3, <2>6, <4>1, <4>3, <4>4
    <3>5. CASE a # <<>> /\ ~(Rate!now - state[c].start >= Window)
      <4>1. state[c].count > 0
        BY <2>0, <2>6, <3>3, <3>5
      <4>2. st = state[c].start /\ k = state[c].count
        BY <2>0, <2>1, <3>5, <4>1 DEF Rate!Current, Rate!NoWindow
      <4>3. first = n + 1 - k
        BY <2>0, <2>6, <3>2, <4>2
      <4>4. Spaced(b, n + 1, first)
        BY <1>0, <2>0, <2>5, <2>6, <2>8, <3>3, <3>5, <4>2, SpacedSame
      <4>5. b[first] = a[first]
        BY <2>8, <3>3, <3>5 DEF Later
      <4>6. first \in 1 .. n + 1 /\ st >= MaxBack + b[first] - back
        BY <2>6, <3>3, <3>5, <4>2, <4>5
      <4> QED BY <4>3, <4>4, <4>6
    <3> QED BY <3>1, <3>4, <3>5
  <2>10. Rate!WindowSound(c)'
    <3>1. b = admitted'[c] /\ state'[c].count = k + 1 /\ state'[c].start = st
      BY <2>5, <2>8 DEF Rate!RateInv
    <3>2. b # <<>>
      BY <2>6, <2>8
    <3>3. \A i \in 1 .. n + 1 : b[i] <= real
      BY <2>0, <2>6, <2>8, SMTT(60) DEF Later
    <3>4. n + 1 - k \in 1 .. Len(b) /\ n + 1 - k = Len(b) - state'[c].count + 1
      BY <2>4, <2>6, <2>8, <2>9, <3>1
    <3> QED BY <2>5, <2>8, <2>9, <3>1, <3>2, <3>3, <3>4, WindowBuilt
  <2>11. ASSUME NEW d \in Callers, d # c PROVE Rate!WindowSound(d)'
    <3>1. admitted'[d] = admitted[d] /\ state'[d] = state[d] /\ Rate!WindowSound(d)
      BY <2>5, <2>11 DEF Rate!RateInv
    <3> QED BY <2>5, <3>1 DEF Rate!WindowSound
  <2>12. state' \in [Callers -> [start : Int, count : 0 .. Limit]] /\ admitted' \in [Callers -> Seq(Nat)]
    <3>1. [start |-> st, count |-> k + 1] \in [start : Int, count : 0 .. Limit]
      BY <1>0, <2>4, <2>5
    <3> QED BY <2>5, <2>8, <3>1 DEF Rate!RateInv
  <2> QED BY <2>0, <2>5, <2>10, <2>11, <2>12 DEF Rate!RateInv
<1> QED BY <1>1, <1>2, <1>3, <1>4 DEF Rate!Next, Rate!vars, Rate!Allow

\* The requests of one minute are among 2 * Limit - 1 in a row: the next one is a Window later.
LEMMA InARow ==
  ASSUME Limit \in Nat, Limit > 0, Window \in Nat, NEW n \in Nat, NEW a \in [1 .. n -> Nat],
         NEW first, Spaced(a, n, first), NEW t \in Nat,
         NEW S, S = {i \in 1 .. n : a[i] >= t /\ a[i] < t + Window}
  PROVE  IsFiniteSet(S) /\ Cardinality(S) <= 2 * Limit - 1
<1>1. CASE S = {}
  <2>1. IsFiniteSet(S) /\ Cardinality(S) = 0
    BY <1>1, FS_EmptySet, Zenon
  <2> QED BY <2>1
<1>2. ASSUME S # {} PROVE IsFiniteSet(S) /\ Cardinality(S) <= 2 * Limit - 1
  <2>1. PICK m \in S : \A i \in S : ~(i < m)
    <3>1. S \subseteq Nat
      OBVIOUS
    <3>2. PICK m \in S : \A i \in S : ~(<<i, m>> \in OpToRel(<, Nat))
      BY <1>2, <3>1, NatLessThanWellFounded, WFMin
    <3> QED BY <3>1, <3>2 DEF OpToRel
  <2>2. m \in 1 .. n /\ a[m] >= t /\ a[m] \in Nat
    BY <2>1
  <2>3. ASSUME NEW i \in S PROVE i \in m .. m + 2 * Limit - 2
    <3>1. i \in 1 .. n /\ a[i] < t + Window /\ i >= m
      BY <2>1, <2>2
    <3>2. ASSUME i >= m + 2 * Limit - 1 PROVE FALSE
      <4>1. m + 2 * Limit - 1 \in 1 .. n /\ m \in 1 .. n - (2 * Limit - 1)
        BY <2>2, <3>1, <3>2
      <4>2. a[m + 2 * Limit - 1] <= a[i] /\ a[m] + Window <= a[m + 2 * Limit - 1]
        BY <3>1, <3>2, <4>1 DEF Spaced
      <4> QED BY <2>2, <3>1, <4>1, <4>2
    <3> QED BY <2>2, <3>1, <3>2
  <2>4. /\ IsFiniteSet(m .. m + 2 * Limit - 2)
        /\ Cardinality(m .. m + 2 * Limit - 2) = 2 * Limit - 1
    <3>1. PICK p : p = m + 2 * Limit - 2
      OBVIOUS
    <3>2. m \in Int /\ p \in Int /\ m <= p /\ p - m + 1 = 2 * Limit - 1
      BY <2>2, <3>1
    <3>3. IsFiniteSet(m .. p) /\ Cardinality(m .. p) = IF m > p THEN 0 ELSE p - m + 1
      BY <3>2, FS_Interval, Zenon
    <3>4. Cardinality(m .. p) = 2 * Limit - 1
      BY <3>2, <3>3
    <3> QED BY <3>1, <3>3, <3>4
  <2> QED BY <2>3, <2>4, FS_Subset, FS_CardinalityType
<1> QED BY <1>1, <1>2

LEMMA RateKeeps == ASSUME Rate!RateLimitAssumption, Rate!RateInv PROVE Rate!BurstBound
<1>0. Limit \in Nat /\ Limit > 0 /\ Window \in Nat /\ real \in Nat
  BY DEF Rate!RateLimitAssumption, Rate!RateInv
<1>1. ASSUME NEW c \in Callers, NEW t \in 0 .. real
      PROVE  Rate!Cardinality({i \in DOMAIN admitted[c] : admitted[c][i] >= t /\ admitted[c][i] < t + Window})
               <= 2 * Limit - 1
  <2>1. PICK a, n : a = admitted[c] /\ n = Len(a)
    OBVIOUS
  <2>2. a \in Seq(Nat) /\ Rate!WindowSound(c)
    BY <2>1 DEF Rate!RateInv
  <2>3. n \in Nat /\ DOMAIN a = 1 .. n /\ a \in [1 .. n -> Nat]
    BY <2>1, <2>2
  <2>4. PICK S : S = {i \in DOMAIN a : a[i] >= t /\ a[i] < t + Window}
    OBVIOUS
  <2>5. IsFiniteSet(S) /\ Cardinality(S) <= 2 * Limit - 1
    <3>1. CASE a = <<>>
      <4>1. S = {}
        BY <2>4, <3>1
      <4>2. IsFiniteSet(S) /\ Cardinality(S) = 0
        BY <4>1, FS_EmptySet, Zenon
      <4> QED BY <1>0, <4>2
    <3>2. CASE a # <<>>
      <4>1. PICK first : Spaced(a, n, first)
        BY <2>1, <2>2, <3>2, WindowParts
      <4>2. S = {i \in 1 .. n : a[i] >= t /\ a[i] < t + Window} /\ t \in Nat
        BY <1>0, <2>3, <2>4
      <4> QED BY <1>0, <2>3, <4>1, <4>2, InARow
    <3> QED BY <3>1, <3>2
  <2> QED BY <2>1, <2>4, <2>5 DEF Rate!Cardinality, Cardinality
<1> QED BY <1>1 DEF Rate!BurstBound

-----------------------------------------------------------------------------
(* The broker's view of the channel secrets *)

LEMMA ViewInit == ASSUME View!ChannelViewAssumption, View!Init PROVE View!ViewInv
  BY DEF View!Init, View!ViewInv, View!NeverStale

LEMMA ViewNext ==
  ASSUME View!ChannelViewAssumption, View!ViewInv, [View!Next]_(View!vars)
  PROVE  View!ViewInv'
<1> USE DEF View!ViewInv, View!NeverStale, View!Held
<1>1. CASE View!Replace
  BY <1>1 DEF View!Replace, View!ChannelViewAssumption
<1>2. CASE View!Begin
  BY <1>2 DEF View!Begin
<1>3. CASE View!Stat
  BY <1>3 DEF View!Stat
<1>4. CASE View!Open
  BY <1>4 DEF View!Open
<1>5. CASE View!Answer
  <2>1. view.secret \in during \cup {None} /\ call.pc = "answer"
    BY <1>5 DEF View!Answer
  <2>2. answer' = [secret |-> view.secret, held |-> TRUE]
    BY <1>5, <2>1, Zenon DEF View!Answer
  <2> QED BY <1>5, <2>2 DEF View!Answer
<1>6. CASE UNCHANGED View!vars
  BY <1>6 DEF View!vars
<1> QED BY <1>1, <1>2, <1>3, <1>4, <1>5, <1>6 DEF View!Next

-----------------------------------------------------------------------------
(* The supervisor of the broker process *)

LEMMA OwnInit == ASSUME Own!SupervisorAssumption, Own!Init PROVE Own!OwnInv
  BY DEF Own!SupervisorAssumption, Own!Init, Own!OwnInv, Own!CallsTyped, Own!TypeOK, Own!HealthyIsRecorded, Own!Actors,
     Own!Free, Own!Idle, Own!NoReport, Own!Running, Own!Places

\* What the invariant says of the worker's call w when the file holds f.
Calls == [op : {"none", "start", "stop", "restart"}, pc : Own!Places, pid : Pids \cup {None}, healthy : BOOLEAN]

Fits(w, f) ==
    /\ w.pc \in {"wait", "wait2", "alive", "alive2", "check", "term", "reap", "dead"} => f # None /\ w.pid = f
    /\ w.pc = "write" => w.pid \in Pids
    /\ lost \/ \A p \in Pids : Own!Running(p) =>
          CASE w.pc = "write" -> p = w.pid
            [] w.pc \in {"spawn", "clear", "clear2", "unlink", "stopped"} -> FALSE
            [] OTHER -> p = f

\* A step of the worker that touches no process, but for a dead one it waits for.
LEMMA CallStep ==
  ASSUME Own!SupervisorAssumption, Own!OwnInv, NEW w \in Calls, act' = [act EXCEPT !["worker"] = w],
         \/ proc' = proc
         \/ \E q \in Pids : Own!Dead(q) /\ proc' = [proc EXCEPT ![q] = Own!Free],
         UNCHANGED <<port, restarts, lost>>, file' \in Pids \cup {None}, Fits(w, file'),
         report'.pid \in Pids \cup {None}, lost \/ report'.served
  PROVE  Own!OwnInv'
<1>1. Own!Actors = {"worker"} /\ None \notin Pids
  BY DEF Own!Actors, Own!SupervisorAssumption
<1>2. act'["worker"] = w /\ act' \in [Own!Actors -> Calls]
  BY <1>1 DEF Own!OwnInv, Own!CallsTyped, Calls
<1>3. /\ proc' \in [Pids -> [is : {"free", "boot", "serve", "zombie", "other"}, child : BOOLEAN,
                             sig : {"none", "term", "kill"}]]
      /\ port # None => proc'[port].is = "serve"
      /\ \A q \in Pids : Own!Running(q)' => Own!Running(q) /\ proc'[q].child
  <2>1. CASE proc' = proc
    BY <1>1, <2>1 DEF Own!OwnInv, Own!CallsTyped, Own!TypeOK, Own!Running
  <2>2. ASSUME NEW q \in Pids, Own!Dead(q), proc' = [proc EXCEPT ![q] = Own!Free]
        PROVE  /\ proc' \in [Pids -> [is : {"free", "boot", "serve", "zombie", "other"}, child : BOOLEAN,
                                      sig : {"none", "term", "kill"}]]
               /\ port # None => proc'[port].is = "serve"
               /\ \A p \in Pids : Own!Running(p)' => Own!Running(p) /\ proc'[p].child
    BY <1>1, <2>2 DEF Own!OwnInv, Own!CallsTyped, Own!TypeOK, Own!Running, Own!Dead, Own!Free
  <2> QED BY <2>1, <2>2
<1>4. Own!TypeOK' /\ Own!HealthyIsRecorded'
  BY <1>1, <1>2, <1>3 DEF Own!OwnInv, Own!CallsTyped, Own!TypeOK, Own!HealthyIsRecorded, Calls
<1>5. lost' \/ \A q \in Pids : Own!Running(q)' =>
          CASE w.pc = "write" -> q = w.pid
            [] w.pc \in {"spawn", "clear", "clear2", "unlink", "stopped"} -> FALSE
            [] OTHER -> q = file'
  BY <1>3 DEF Fits
<1> QED BY <1>2, <1>3, <1>4, <1>5 DEF Own!OwnInv, Own!CallsTyped, Calls, Fits

LEMMA WorkerFits ==
  ASSUME Own!SupervisorAssumption, Own!OwnInv
  PROVE  /\ act["worker"] \in Calls /\ Fits(act["worker"], file) /\ None \notin Pids
         /\ file \in Pids \cup {None} /\ report.pid \in Pids \cup {None} /\ (lost \/ report.served)
<1>1. "worker" \in Own!Actors /\ None \notin Pids
  BY DEF Own!Actors, Own!SupervisorAssumption
<1> QED BY <1>1 DEF Own!OwnInv, Own!CallsTyped, Own!TypeOK, Own!HealthyIsRecorded, Calls, Fits

\* A call that has answered.
LEMMA Answered == Own!Idle \in Calls /\ Own!Idle.pc = "idle"
  BY DEF Calls, Own!Idle, Own!Places

\* How the worker's call moves on.
LEMMA GoesTo ==
  ASSUME NEW q, NEW w, w = [act["worker"] EXCEPT !.pc = q], Own!Go("worker", q)
  PROVE  act' = [act EXCEPT !["worker"] = w]
  BY DEF Own!Go

LEMMA OwnRead ==
  ASSUME Own!SupervisorAssumption, Own!OwnInv, Own!ReadState("worker")
  PROVE  Own!OwnInv'
<1>0. /\ act["worker"] \in Calls /\ Fits(act["worker"], file) /\ None \notin Pids
      /\ file \in Pids \cup {None} /\ report.pid \in Pids \cup {None} /\ (lost \/ report.served)
  BY WorkerFits
<1>1. act["worker"].pc \in {"read", "read2"} /\ UNCHANGED <<proc, port, file, lost, restarts>>
  BY DEF Own!ReadState, Own!counts
<1>2. CASE file = None /\ act["worker"].pc = "read"
  <2>1. PICK w \in Calls : w = [act["worker"] EXCEPT !.pc = "spawn"] /\ w.pc = "spawn"
    <3>1. PICK v : v = [act["worker"] EXCEPT !.pc = "spawn"]
      OBVIOUS
    <3>2. v \in Calls /\ v.pc = "spawn"
      BY <1>0, <3>1 DEF Calls, Own!Places
    <3> QED BY <3>1, <3>2
  <2>2. act' = [act EXCEPT !["worker"] = w] /\ report' = report
    <3>1. Own!Go("worker", "spawn") /\ report' = report
      BY <1>2 DEF Own!ReadState, Own!Stopped
    <3> QED BY <2>1, <3>1, GoesTo
  <2>3. Fits(w, file)
    BY <1>0, <1>2, <2>1 DEF Fits
  <2> QED BY <1>0, <1>1, <2>2, <2>3, CallStep
<1>3. CASE file = None /\ act["worker"].pc = "read2"
  <2>1. act' = [act EXCEPT !["worker"] = Own!Idle] /\ report'.pid = None /\ report'.served
    BY <1>3 DEF Own!ReadState, Own!Stopped
  <2>2. Own!Idle \in Calls /\ Own!Idle.pc = "idle"
    BY Answered
  <2>3. Fits(Own!Idle, file)
    BY <1>0, <1>3, <2>2 DEF Fits
  <2> QED BY <1>0, <1>1, <2>1, <2>2, <2>3, CallStep
<1>4. CASE file # None
  <2>1. PICK q \in {"wait", "wait2"} : q = IF act["worker"].pc = "read" THEN "wait" ELSE "wait2"
    OBVIOUS
  <2>2. PICK w : w = [act["worker"] EXCEPT !.pid = file, !.pc = q]
    OBVIOUS
  <2>3. w \in Calls /\ w.pc = q /\ w.pid = file
    BY <1>0, <2>1, <2>2 DEF Calls, Own!Places
  <2>4. act' = [act EXCEPT !["worker"] = w] /\ report' = report
    BY <1>4, <2>1, <2>2 DEF Own!ReadState
  <2>5. Fits(w, file)
    BY <1>0, <1>1, <1>4, <2>1, <2>3 DEF Fits
  <2> QED BY <1>0, <1>1, <2>3, <2>4, <2>5, CallStep
<1> QED BY <1>1, <1>2, <1>3, <1>4

LEMMA OwnClear ==
  ASSUME Own!SupervisorAssumption, Own!OwnInv, Own!ClearState("worker")
  PROVE  Own!OwnInv'
<1>0. /\ act["worker"] \in Calls /\ Fits(act["worker"], file) /\ None \notin Pids
      /\ file \in Pids \cup {None} /\ report.pid \in Pids \cup {None} /\ (lost \/ report.served)
  BY WorkerFits
<1>1. act["worker"].pc \in {"clear", "clear2"} /\ file' = None /\ UNCHANGED <<proc, port, lost, restarts>>
  BY DEF Own!ClearState, Own!counts
<1>2. CASE act["worker"].pc = "clear"
  <2>1. PICK w \in Calls : w = [act["worker"] EXCEPT !.pc = "spawn"] /\ w.pc = "spawn"
    <3>1. PICK v : v = [act["worker"] EXCEPT !.pc = "spawn"]
      OBVIOUS
    <3>2. v \in Calls /\ v.pc = "spawn"
      BY <1>0, <3>1 DEF Calls, Own!Places
    <3> QED BY <3>1, <3>2
  <2>2. act' = [act EXCEPT !["worker"] = w] /\ report' = report
    <3>1. Own!Go("worker", "spawn") /\ report' = report
      BY <1>2 DEF Own!ClearState, Own!Stopped
    <3> QED BY <2>1, <3>1, GoesTo
  <2>3. Fits(w, None)
    BY <1>0, <1>2, <2>1 DEF Fits
  <2> QED BY <1>0, <1>1, <2>2, <2>3, CallStep
<1>3. CASE act["worker"].pc = "clear2"
  <2>1. act' = [act EXCEPT !["worker"] = Own!Idle] /\ report'.pid = None /\ report'.served
    BY <1>3 DEF Own!ClearState, Own!Stopped
  <2>2. Own!Idle \in Calls /\ Own!Idle.pc = "idle"
    BY Answered
  <2>3. Fits(Own!Idle, None)
    BY <1>0, <1>3, <2>2 DEF Fits
  <2> QED BY <1>0, <1>1, <2>1, <2>2, <2>3, CallStep
<1> QED BY <1>1, <1>2, <1>3

LEMMA OwnReap ==
  ASSUME Own!SupervisorAssumption, Own!OwnInv, Own!Reap("worker")
  PROVE  Own!OwnInv'
<1>0. /\ act["worker"] \in Calls /\ Fits(act["worker"], file) /\ None \notin Pids
      /\ file \in Pids \cup {None} /\ report.pid \in Pids \cup {None} /\ (lost \/ report.served)
  BY WorkerFits
<1>1. act["worker"].pc \in {"wait", "wait2"} /\ UNCHANGED <<port, file, report, lost, restarts>>
  BY DEF Own!Reap, Own!counts
<1>2. act["worker"].pid = file /\ file \in Pids /\ (lost \/ \A p \in Pids : Own!Running(p) => p = file)
  BY <1>0, <1>1 DEF Fits
<1>3. CASE Own!Dead(file)
  <2>1. PICK q \in {"clear", "clear2"} : q = IF act["worker"].pc = "wait" THEN "clear" ELSE "clear2"
    OBVIOUS
  <2>2. PICK w \in Calls : w = [act["worker"] EXCEPT !.pc = q] /\ w.pc = q
    <3>1. PICK v : v = [act["worker"] EXCEPT !.pc = q]
      OBVIOUS
    <3>2. v \in Calls /\ v.pc = q
      BY <1>0, <2>1, <3>1 DEF Calls, Own!Places
    <3> QED BY <3>1, <3>2
  <2>3. act' = [act EXCEPT !["worker"] = w] /\ proc' = [proc EXCEPT ![file] = Own!Free]
    <3>1. Own!Go("worker", q) /\ proc' = [proc EXCEPT ![file] = Own!Free]
      BY <1>2, <1>3, <2>1 DEF Own!Reap
    <3> QED BY <2>2, <3>1, GoesTo
  <2>4. Fits(w, file)
    BY <1>2, <1>3, <2>1, <2>2 DEF Fits, Own!Dead, Own!Running
  <2> QED BY <1>0, <1>1, <1>2, <1>3, <2>3, <2>4, CallStep
<1>4. CASE ~Own!Dead(file)
  <2>1. PICK q \in {"alive", "alive2"} : q = IF act["worker"].pc = "wait" THEN "alive" ELSE "alive2"
    OBVIOUS
  <2>2. PICK w \in Calls : w = [act["worker"] EXCEPT !.pc = q] /\ w.pc = q /\ w.pid = act["worker"].pid
    <3>1. PICK v : v = [act["worker"] EXCEPT !.pc = q]
      OBVIOUS
    <3>2. v \in Calls /\ v.pc = q /\ v.pid = act["worker"].pid
      BY <1>0, <2>1, <3>1 DEF Calls, Own!Places
    <3> QED BY <3>1, <3>2
  <2>3. act' = [act EXCEPT !["worker"] = w] /\ proc' = proc
    <3>1. Own!Go("worker", q) /\ proc' = proc
      BY <1>2, <1>4, <2>1 DEF Own!Reap
    <3> QED BY <2>2, <3>1, GoesTo
  <2>4. Fits(w, file)
    BY <1>0, <1>2, <2>1, <2>2 DEF Fits
  <2> QED BY <1>0, <1>1, <2>3, <2>4, CallStep
<1> QED BY <1>3, <1>4

LEMMA OwnAlive ==
  ASSUME Own!SupervisorAssumption, Own!OwnInv, Own!Alive("worker")
  PROVE  Own!OwnInv'
<1>0. /\ act["worker"] \in Calls /\ Fits(act["worker"], file) /\ None \notin Pids
      /\ file \in Pids \cup {None} /\ report.pid \in Pids \cup {None} /\ (lost \/ report.served)
  BY WorkerFits
<1>1. act["worker"].pc \in {"alive", "alive2"} /\ UNCHANGED <<proc, port, file, lost, restarts>>
  BY DEF Own!Alive, Own!counts
<1>2. act["worker"].pid = file /\ file \in Pids /\ (lost \/ \A p \in Pids : Own!Running(p) => p = file)
  BY <1>0, <1>1 DEF Fits
<1>3. PICK q \in {"clear", "clear2"} : q = IF act["worker"].pc = "alive" THEN "clear" ELSE "clear2"
  OBVIOUS
<1>4. PICK alive \in Own!PidAlive(act["worker"].pid) :
          \/ ~alive /\ Own!Go("worker", q) /\ UNCHANGED report
          \/ /\ alive /\ act' = [act EXCEPT !["worker"] = Own!Idle]
             /\ report'.pid = act["worker"].pid
             /\ report'.served = (port # None => port = act["worker"].pid)
  BY <1>3 DEF Own!Alive
<1>5. CASE ~alive /\ Own!Go("worker", q) /\ UNCHANGED report
  <2>1. PICK w \in Calls : w = [act["worker"] EXCEPT !.pc = q] /\ w.pc = q
    <3>1. PICK v : v = [act["worker"] EXCEPT !.pc = q]
      OBVIOUS
    <3>2. v \in Calls /\ v.pc = q
      BY <1>0, <1>3, <3>1 DEF Calls, Own!Places
    <3> QED BY <3>1, <3>2
  <2>2. act' = [act EXCEPT !["worker"] = w]
    BY <1>5, <2>1, GoesTo
  <2>3. ~Own!Running(file)
    BY <1>2, <1>4, <1>5 DEF Own!PidAlive, Own!Running
  <2>4. Fits(w, file)
    BY <1>2, <1>3, <2>1, <2>3 DEF Fits
  <2> QED BY <1>0, <1>1, <1>5, <2>2, <2>4, CallStep
<1>6. CASE /\ act' = [act EXCEPT !["worker"] = Own!Idle] /\ report'.pid = act["worker"].pid
           /\ report'.served = (port # None => port = act["worker"].pid)
  <2>1. lost \/ (port # None => port = file)
    BY <1>2 DEF Own!OwnInv, Own!CallsTyped, Own!TypeOK, Own!Running
  <2>2. lost \/ report'.served
    BY <1>2, <1>6, <2>1
  <2>3. Own!Idle \in Calls /\ Own!Idle.pc = "idle"
    BY Answered
  <2>4. Fits(Own!Idle, file)
    BY <1>2, <2>3 DEF Fits
  <2> QED BY <1>0, <1>1, <1>2, <1>6, <2>2, <2>3, <2>4, CallStep
<1> QED BY <1>4, <1>5, <1>6

LEMMA OwnSpawn ==
  ASSUME Own!SupervisorAssumption, Own!OwnInv, Own!Spawn
  PROVE  Own!OwnInv'
<1>0. /\ act["worker"] \in Calls /\ Fits(act["worker"], file) /\ None \notin Pids
      /\ file \in Pids \cup {None} /\ report.pid \in Pids \cup {None} /\ (lost \/ report.served)
  BY WorkerFits
<1>1. act["worker"].pc = "spawn" /\ UNCHANGED <<port, file, report, lost, restarts>>
  BY DEF Own!Spawn
<1>2. PICK p \in Pids : /\ proc[p].is = "free"
                        /\ proc' = [proc EXCEPT ![p] = [is |-> "boot", child |-> TRUE, sig |-> "none"]]
                        /\ act' = [act EXCEPT !["worker"].pc = "write", !["worker"].pid = p]
  BY DEF Own!Spawn
<1>3. Own!Actors = {"worker"} /\ act \in [Own!Actors -> Calls]
  BY DEF Own!Actors, Own!OwnInv, Own!CallsTyped, Calls
<1>4. act' \in [Own!Actors -> Calls] /\ act'["worker"].pc = "write" /\ act'["worker"].pid = p
  <2>1. PICK w : w = [act["worker"] EXCEPT !.pc = "write", !.pid = p]
    OBVIOUS
  <2>2. w \in Calls /\ w.pc = "write" /\ w.pid = p
    BY <1>0, <2>1 DEF Calls, Own!Places
  <2>3. act' = [act EXCEPT !["worker"] = w]
    BY <1>2, <2>1
  <2> QED BY <1>3, <2>2, <2>3
<1>5. /\ proc' \in [Pids -> [is : {"free", "boot", "serve", "zombie", "other"}, child : BOOLEAN,
                             sig : {"none", "term", "kill"}]]
      /\ port # None => proc'[port].is = "serve"
      /\ \A q \in Pids : Own!Running(q)' => proc'[q].child
      /\ lost \/ \A q \in Pids : Own!Running(q)' => q = p
  BY <1>0, <1>1, <1>2 DEF Own!OwnInv, Own!CallsTyped, Own!TypeOK, Own!Running, Fits
<1>6. Own!TypeOK' /\ Own!HealthyIsRecorded'
  BY <1>0, <1>1, <1>3, <1>4, <1>5 DEF Own!TypeOK, Own!HealthyIsRecorded, Calls, Own!OwnInv, Own!CallsTyped
<1> QED BY <1>1, <1>4, <1>5, <1>6 DEF Own!OwnInv, Own!CallsTyped, Calls

LEMMA OwnAwait ==
  ASSUME Own!SupervisorAssumption, Own!OwnInv, Own!AwaitHealth
  PROVE  Own!OwnInv'
<1>0. /\ act["worker"] \in Calls /\ Fits(act["worker"], file) /\ None \notin Pids
      /\ file \in Pids \cup {None} /\ report.pid \in Pids \cup {None} /\ (lost \/ report.served)
  BY WorkerFits
<1>1. act["worker"].pc = "await" /\ UNCHANGED <<proc, port, file, report, lost, restarts>>
  BY DEF Own!AwaitHealth, Own!counts
<1>2. PICK ok \in BOOLEAN : act' = [act EXCEPT !["worker"].pc = "read2", !["worker"].healthy = ok]
  BY DEF Own!AwaitHealth
<1>3. PICK w : w = [act["worker"] EXCEPT !.pc = "read2", !.healthy = ok]
  OBVIOUS
<1>4. w \in Calls /\ w.pc = "read2"
  BY <1>0, <1>3 DEF Calls, Own!Places
<1>5. act' = [act EXCEPT !["worker"] = w]
  BY <1>2, <1>3
<1>6. Fits(w, file)
  BY <1>0, <1>1, <1>4 DEF Fits
<1> QED BY <1>0, <1>1, <1>4, <1>5, <1>6, CallStep

LEMMA OwnReapStopped ==
  ASSUME Own!SupervisorAssumption, Own!OwnInv, Own!ReapStopped
  PROVE  Own!OwnInv'
<1>0. /\ act["worker"] \in Calls /\ Fits(act["worker"], file) /\ None \notin Pids
      /\ file \in Pids \cup {None} /\ report.pid \in Pids \cup {None} /\ (lost \/ report.served)
  BY WorkerFits
<1>1. act["worker"].pc \in {"reap", "dead"} /\ UNCHANGED <<port, file, report, lost, restarts>>
  BY DEF Own!ReapStopped, Own!counts
<1>2. act["worker"].pid = file /\ file \in Pids /\ (lost \/ \A p \in Pids : Own!Running(p) => p = file)
  BY <1>0, <1>1 DEF Fits
<1>3. PICK w \in Calls : w = [act["worker"] EXCEPT !.pc = "unlink"] /\ w.pc = "unlink"
  <2>1. PICK v : v = [act["worker"] EXCEPT !.pc = "unlink"]
    OBVIOUS
  <2>2. v \in Calls /\ v.pc = "unlink"
    BY <1>0, <2>1 DEF Calls, Own!Places
  <2> QED BY <2>1, <2>2
<1>4. /\ act' = [act EXCEPT !["worker"] = w]
      /\ \/ Own!Dead(file) /\ proc' = [proc EXCEPT ![file] = Own!Free]
         \/ ~proc[file].child /\ proc' = proc
  <2>1. /\ Own!Go("worker", "unlink")
        /\ \/ Own!Dead(file) /\ proc' = [proc EXCEPT ![file] = Own!Free]
           \/ ~proc[file].child /\ proc' = proc
    BY <1>2 DEF Own!ReapStopped
  <2> QED BY <1>3, <2>1, GoesTo
<1>5. ~Own!Running(file)
  BY <1>2, <1>4 DEF Own!Dead, Own!Running, Own!OwnInv, Own!CallsTyped
<1>6. Fits(w, file)
  BY <1>2, <1>3, <1>5 DEF Fits
<1> QED BY <1>0, <1>1, <1>2, <1>4, <1>6, CallStep

LEMMA OwnStopDone ==
  ASSUME Own!SupervisorAssumption, Own!OwnInv, Own!StopDone
  PROVE  Own!OwnInv'
<1>0. /\ act["worker"] \in Calls /\ Fits(act["worker"], file) /\ None \notin Pids
      /\ file \in Pids \cup {None} /\ report.pid \in Pids \cup {None} /\ (lost \/ report.served)
  BY WorkerFits
<1>1. act["worker"].pc = "stopped" /\ UNCHANGED <<proc, port, file, report, lost, restarts>>
  BY DEF Own!StopDone, Own!counts
<1>2. PICK w : w = IF act["worker"].op = "restart" THEN [act["worker"] EXCEPT !.pc = "read", !.pid = None] ELSE Own!Idle
  OBVIOUS
<1>3. w \in Calls /\ w.pc \in {"read", "idle"}
  BY <1>0, <1>2 DEF Calls, Own!Places, Own!Idle
<1>4. act' = [act EXCEPT !["worker"] = w]
  BY <1>2 DEF Own!StopDone
<1>5. Fits(w, file)
  BY <1>0, <1>1, <1>3 DEF Fits
<1> QED BY <1>0, <1>1, <1>3, <1>4, <1>5, CallStep

LEMMA OwnNext ==
  ASSUME Own!SupervisorAssumption, Own!OwnInv, [Own!Next]_(Own!vars)
  PROVE  Own!OwnInv'
<1>0. None \notin Pids /\ Own!Actors = {"worker"}
  BY DEF Own!SupervisorAssumption, Own!Actors
<1> USE <1>0 DEF Own!OwnInv, Own!CallsTyped, Own!TypeOK, Own!HealthyIsRecorded, Own!Running, Own!Places, Own!counts
<1>1. ASSUME NEW p \in Pids, Own!Bind(p) PROVE Own!OwnInv'
  BY <1>1, SMTT(60) DEF Own!Bind, Own!Gone, Own!Free
<1>2. ASSUME NEW p \in Pids, Own!Exit(p) PROVE Own!OwnInv'
  BY <1>2 DEF Own!Exit, Own!Gone, Own!Free
<1>3. ASSUME NEW p \in Pids, Own!Reuse(p) PROVE Own!OwnInv'
  BY <1>3 DEF Own!Reuse
<1>4. ASSUME Own!AdminRestart PROVE FALSE
  BY <1>4 DEF Own!AdminRestart
<1>5. ASSUME NEW op \in {"start", "stop", "restart"}, Own!Request(op) PROVE Own!OwnInv'
  BY <1>5, ZenonT(60) DEF Own!Request, Own!Idle
<1>6. CASE Own!ReadState("worker")
  BY <1>6, OwnRead
<1>7. CASE Own!Reap("worker")
  BY <1>7, OwnReap
<1>8. CASE Own!Alive("worker")
  BY <1>8, OwnAlive
<1>9. CASE Own!ClearState("worker")
  BY <1>9, OwnClear
<1>10. CASE Own!Spawn
  BY <1>10, OwnSpawn
<1>11. CASE Own!WriteState
  BY <1>11 DEF Own!WriteState, Own!Go
<1>12. CASE Own!AwaitHealth
  BY <1>12, OwnAwait
<1>13. CASE Own!StopRead
  BY <1>13 DEF Own!StopRead
<1>14. CASE Own!IsBroker
  BY <1>14, SMTT(60) DEF Own!IsBroker, Own!Go
<1>15. CASE Own!Terminate
  BY <1>15, SMTT(60) DEF Own!Terminate, Own!Signal, Own!Go
<1>16. CASE Own!ReapStopped
  BY <1>16, OwnReapStopped
<1>17. CASE Own!Escalate
  BY <1>17 DEF Own!Escalate, Own!Signal, Own!Dead, Own!Go
<1>18. CASE Own!Unlink
  BY <1>18 DEF Own!Unlink, Own!Go
<1>19. CASE Own!StopDone
  BY <1>19, OwnStopDone
<1>20. CASE UNCHANGED Own!vars
  BY <1>20 DEF Own!vars
<1>21. Own!Poll => FALSE
  BY DEF Own!Poll
<1> QED BY <1>1, <1>2, <1>3, <1>4, <1>5, <1>6, <1>7, <1>8, <1>9, <1>10, <1>11, <1>12, <1>13, <1>14,
           <1>15, <1>16, <1>17, <1>18, <1>19, <1>20, <1>21 DEF Own!Next, Own!Worker, Own!Status

=============================================================================
