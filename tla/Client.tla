------------------------------- MODULE Client -------------------------------
(***************************************************************************)
(* The agent's client (client/toolstack.py, and the same loop in           *)
(* client/mcp_server.py) against a broker that keeps the receipt contract: *)
(* a call is posted once, its answer may be lost or late, and a wait polls *)
(* the receipt until it settles, the deadline passes, or a poll fails.     *)
(***************************************************************************)
EXTENDS Naturals, FiniteSets

CONSTANTS
    Requests,       \* rows of the broker
    Keys,           \* idempotency keys an agent uses
    MaxCalls,       \* commands the agent runs
    None

\* Assumed of the constants; the module of a run asserts it of its instances.
ClientAssumption == None \notin Requests

VARIABLES
    phase, calls,   \* the broker's rows, as in Receipt
    rowOf,          \* the row each key is bound to
    cmd,            \* the running command: None or [at, key, wait, row, known, late]
    out,            \* how the last command ended: [code, status, row, id, waited]
    run             \* commands started

vars == <<phase, calls, rowOf, cmd, out, run>>

Broker == INSTANCE Receipt

Waiting == {"pending_approval", "received", "executing"}

\* _FAIL, with "error" for a body that has an error and no status.
Fail ==
    {"denied", "expired", "failed", "unavailable", "invalid", "not_found", "rate_limited",
     "timeout", "received", "executing", "unknown", "result_expired", "conflict", "error"}

\* What a receipt reads in each phase.
StatusOf(p) ==
    CASE p = "open" -> {"received", "pending_approval"}
      [] p = "running" -> {"executing"}
      [] p = "not_run" -> {"denied", "expired", "failed", "unavailable"}
      [] p = "ran" -> {"completed", "failed", "result_expired"}
      [] p = "unknown" -> {"unknown"}

Init ==
    /\ Broker!Init
    /\ rowOf = [k \in Keys |-> None]
    /\ cmd = None /\ out = None /\ run = 0

At(p) == cmd # None /\ cmd.at = p

\* The broker goes on with a row by itself.
BrokerWorks(r) ==
    /\ \E p \in Broker!Phases \ {"absent"}, n \in {0, 1} :
          phase' = [phase EXCEPT ![r] = p] /\ calls' = [calls EXCEPT ![r] = n]
    /\ Broker!Commit(r) \/ Broker!Call(r) \/ Broker!End(r)
    /\ UNCHANGED <<rowOf, cmd, out, run>>

\* cmd_call, tools/call: the request is posted; cmd_wait starts with a receipt.
StartCall(k, w) ==
    /\ cmd = None /\ run < MaxCalls
    /\ cmd' = [at |-> "post", key |-> k, wait |-> w, row |-> None, known |-> FALSE, late |-> FALSE]
    /\ run' = run + 1
    /\ UNCHANGED <<phase, calls, rowOf, out>>

StartWait(r) ==
    /\ cmd = None /\ run < MaxCalls /\ phase[r] # "absent"
    /\ cmd' = [at |-> "poll", key |-> None, wait |-> TRUE, row |-> r, known |-> TRUE, late |-> FALSE]
    /\ run' = run + 1
    /\ UNCHANGED <<phase, calls, rowOf, out>>

\* The broker takes the post: a key it knows gives the row it has.
Take(r) ==
    /\ At("post") /\ cmd.row = None
    /\ IF cmd.key # None /\ rowOf[cmd.key] # None
       THEN r = rowOf[cmd.key] /\ UNCHANGED <<phase, calls, rowOf>>
       ELSE /\ phase[r] = "absent"
            /\ phase' = [phase EXCEPT ![r] = "open"] /\ UNCHANGED calls
            /\ rowOf' = IF cmd.key = None THEN rowOf ELSE [rowOf EXCEPT ![cmd.key] = r]
    /\ cmd' = [cmd EXCEPT !.row = r]
    /\ UNCHANGED <<out, run>>

\* _finish, and isError of a tool result
Exit(status, id) ==
    /\ out' = [code |-> IF status \in Fail THEN 1 ELSE 0, status |-> status, row |-> cmd.row,
               id |-> id, waited |-> cmd.wait]
    /\ cmd' = None

\* _send returns the answer of the post.
Answer(s) ==
    /\ At("post") /\ cmd.row # None
    /\ s \in StatusOf(phase[cmd.row])
    /\ IF cmd.wait /\ s \in Waiting
       THEN cmd' = [cmd EXCEPT !.at = "poll", !.known = TRUE] /\ UNCHANGED out
       ELSE Exit(s, TRUE)
    /\ UNCHANGED <<phase, calls, rowOf, run>>

\* Mutant: a refused connection is reported as a failure of the call.
PostFailsFinal ==
    /\ At("post")
    /\ Exit("error", FALSE)
    /\ UNCHANGED <<phase, calls, rowOf, run>>

\* _request: no usable answer, whether or not the broker has taken the post, or a refusal before it has.
PostFails ==
    /\ At("post")
    /\ \/ Exit("unknown", FALSE)
       \/ cmd.row = None /\ Exit("error", FALSE)
    /\ UNCHANGED <<phase, calls, rowOf, run>>

\* One round of _poll_until_done.
Poll(s) ==
    /\ At("poll")
    /\ s \in StatusOf(phase[cmd.row])
    /\ IF s \notin Waiting THEN Exit(s, TRUE)
       ELSE IF cmd.late THEN Exit("timeout", TRUE)
       ELSE UNCHANGED <<cmd, out>>
    /\ UNCHANGED <<phase, calls, rowOf, run>>

\* A poll without an answer is reported as unknown; one that is refused has an error and no status.
PollFails ==
    /\ At("poll")
    /\ \E s \in {"unknown", "error"} : Exit(s, TRUE)
    /\ UNCHANGED <<phase, calls, rowOf, run>>

\* The deadline of the wait passes.
Deadline ==
    /\ At("poll") /\ ~cmd.late
    /\ cmd' = [cmd EXCEPT !.late = TRUE]
    /\ UNCHANGED <<phase, calls, rowOf, out, run>>

Statuses == UNION {StatusOf(p) : p \in Broker!Phases \ {"absent"}}
PostEnds == (\E s \in Statuses : Answer(s)) \/ PostFails
PollRound == \E s \in Statuses : Poll(s)

Next ==
    \/ \E r \in Requests : BrokerWorks(r) \/ StartWait(r) \/ Take(r)
    \/ \E k \in Keys \cup {None}, w \in BOOLEAN : StartCall(k, w)
    \/ PostEnds \/ PollRound \/ PollFails \/ Deadline

Spec == Init /\ [][Next]_vars

-----------------------------------------------------------------------------
(* Properties *)

\* "Exit code is non-zero on ..." everything that is not a success: a zero exit of a command
\* that waits means that the tool was called and answered; without --wait it may also be
\* an approval under way.
SuccessIsTrue ==
    out # None /\ out.code = 0 =>
        \/ out.status = "completed" /\ out.row # None /\ calls[out.row] = 1
        \/ out.status = "pending_approval" /\ ~out.waited

\* A call that reached the broker and whose receipt the agent has not seen is reported as
\* unknown: neither a success nor a refusal that would invite another try.
LostIsUnknown == out # None /\ out.row # None /\ ~out.id => out.status = "unknown"

Commands ==
    [at : {"post", "poll"}, key : Keys \cup {None}, wait : BOOLEAN, row : Requests \cup {None},
     known : BOOLEAN, late : BOOLEAN]

\* The inductive invariant behind both: a command polls a row that the broker has, a row that
\* ran was called, and a call is never taken back.
ClientInv ==
    /\ phase \in [Requests -> Broker!Phases] /\ calls \in [Requests -> {0, 1}]
    /\ \A r \in Requests : phase[r] = "ran" => calls[r] = 1
    /\ rowOf \in [Keys -> Requests \cup {None}]
    /\ \A k \in Keys : rowOf[k] # None => phase[rowOf[k]] # "absent"
    /\ cmd # None =>
        /\ cmd \in Commands
        /\ cmd.row # None => phase[cmd.row] # "absent"
        /\ cmd.at = "poll" => cmd.row # None /\ cmd.wait
    /\ out # None => out.row \in Requests \cup {None}
    /\ SuccessIsTrue /\ LostIsUnknown

\* A command is running, for the progress of the client.
Running == cmd # None

-----------------------------------------------------------------------------
(* Said of the code and not true of it (README, section 5) *)

\* "Poll a pending request to a terminal outcome, or to a client-side timeout."
PollsToTheEnd ==
    At("poll") /\ cmd' = None => out'.status = "timeout" \/ out'.status \in StatusOf(phase[cmd.row]) \ Waiting

=============================================================================
