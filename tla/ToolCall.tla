------------------------------ MODULE ToolCall ------------------------------
(***************************************************************************)
(* One execution of the tool runtime (broker/runtime.py, broker/bounds.py) *)
(* against a tool that may be down, slow, talkative or broken.  An api or  *)
(* rest call is one exchange; an mcp call is three that share one deadline *)
(* and one byte budget: initialize, a notification, and the call.          *)
(***************************************************************************)
EXTENDS Integers

CONSTANTS
    Budget,         \* the response budget, in chunks
    None

\* Assumed of the constants; the module of a run asserts it of its instances.
ToolCallAssumption ==
    Budget \in Nat /\ None \notin {"some", "other", "match", "result", "not_dispatched", "error"}

VARIABLES
    type,           \* api, rest or mcp
    exchange,       \* initialize, notify or call
    at,             \* connect, send, read or done
    remaining,      \* of the byte budget
    late,           \* the deadline has passed
    effects,        \* how often the tool has acted on the call
    answered,       \* what of the response to the current exchange has been read
    outcome,        \* None, result, not_dispatched or error
    total           \* ghost: chunks read in all

vars == <<type, exchange, at, remaining, late, effects, answered, outcome, total>>

First(t) == IF t = "mcp" THEN "initialize" ELSE "call"

Init ==
    /\ type \in {"api", "rest", "mcp"} /\ exchange = First(type)
    /\ at = "connect" /\ remaining = Budget /\ late = FALSE
    /\ effects = 0 /\ answered = None /\ outcome = None /\ total = 0

End(o) == at' = "done" /\ outcome' = o

\* The next exchange of an mcp call.
Advance ==
    /\ at' = "connect" /\ answered' = None
    /\ exchange' = IF exchange = "initialize" THEN "notify" ELSE "call"
    /\ UNCHANGED outcome

Deadline == at # "done" /\ ~late /\ late' = TRUE /\ UNCHANGED <<type, exchange, at, remaining, effects, answered, outcome, total>>

Connect ==
    /\ at = "connect" /\ ~late
    /\ at' = "send"
    /\ UNCHANGED <<type, exchange, remaining, late, effects, answered, outcome, total>>

\* Mutant: any failure to reach an api or rest tool counts as not dispatched.
UnreachableEarly ==
    /\ at \in {"connect", "send"}
    /\ IF exchange = "notify" THEN Advance ELSE UNCHANGED <<exchange, answered>> /\ End("not_dispatched")
    /\ UNCHANGED <<type, remaining, late, effects, total>>

\* Refused connections are evidence for api and rest; a notification's failure is ignored.
Unreachable ==
    /\ at = "connect"
    /\ IF exchange = "notify" THEN Advance
       ELSE /\ UNCHANGED <<exchange, answered>>
            /\ \/ End("error")
               \/ type # "mcp" /\ End("not_dispatched")
    /\ UNCHANGED <<type, remaining, late, effects, total>>

\* The request goes out; the tool may act on a call even if the broker sees an error.
Send ==
    /\ at = "send"
    /\ effects' \in {effects, IF exchange = "call" THEN effects + 1 ELSE effects}
    /\ \/ at' = "read" /\ UNCHANGED <<exchange, answered, outcome>>
       \/ IF exchange = "notify" THEN Advance ELSE UNCHANGED <<exchange, answered>> /\ End("error")
    /\ UNCHANGED <<type, remaining, late, total>>

\* chunks: one more chunk of the response, within the budget.  A tool answers a call after it has acted on it.
Read(n) ==
    /\ at = "read" /\ ~late /\ answered # "match"
    /\ total' = total + n /\ remaining' = remaining - n
    /\ IF remaining' < 0 THEN End("error") /\ UNCHANGED answered
       ELSE /\ answered' \in {"some", "other", "match"}
            /\ answered' = "match" /\ exchange = "call" => effects = 1
            /\ UNCHANGED <<at, outcome>>
    /\ UNCHANGED <<type, exchange, late, effects>>

\* The response to this exchange is complete: its id and shape are right.  Deadlines are
\* checked once more when the execution ends.
Take ==
    /\ at = "read"
    /\ answered = "match" \/ exchange = "notify"
    /\ IF exchange # "call" THEN Advance
       ELSE UNCHANGED <<exchange, answered>> /\ End(IF late THEN "error" ELSE "result")
    /\ UNCHANGED <<type, remaining, late, effects, total>>

\* The stream ends without the response, is not JSON, has another id, or is an error.
Reject ==
    /\ at = "read"
    /\ UNCHANGED <<exchange, answered>> /\ End("error")
    /\ UNCHANGED <<type, remaining, late, effects, total>>

\* A connect, a send or a read finds the deadline passed.  A timeout while reading the reply
\* to a notification is not an URLError: it ends the execution.
Timeout ==
    /\ at \in {"connect", "send", "read"} /\ late
    /\ UNCHANGED <<exchange, answered>> /\ End("error")
    /\ UNCHANGED <<type, remaining, late, effects, total>>

Next == Deadline \/ Connect \/ Unreachable \/ Send \/ (\E n \in 1 .. 2 : Read(n)) \/ Take \/ Reject \/ Timeout

Spec == Init /\ [][Next]_vars

-----------------------------------------------------------------------------
(* Properties *)

\* "Positive transport evidence no action connection was established": when the runtime says
\* not dispatched the tool has not acted; when it gives a result the tool acted once,
\* and the result is the response to the call.
EvidenceHonest ==
    /\ outcome = "not_dispatched" => effects = 0
    /\ outcome = "result" => effects = 1 /\ answered = "match"

\* "capped across one execution": one execution reads at most the budget and the chunk that
\* breaks it, over all its exchanges.
BudgetShared == total <= Budget + 2 /\ (outcome = "result" => total <= Budget)

\* The inductive invariant behind both: what was read and what is left add up over all the
\* exchanges, and the tool can act on the call only once that has been sent, which is once.
CallInv ==
    /\ at \in {"connect", "send", "read", "done"} /\ exchange \in {"initialize", "notify", "call"}
    /\ total \in Nat /\ remaining \in Int /\ remaining >= -2 /\ total + remaining = Budget
    /\ at # "done" \/ outcome = "result" => remaining >= 0
    /\ at # "done" => outcome = None
    /\ effects \in {0, 1}
    /\ at \in {"connect", "send"} \/ exchange # "call" => effects = 0
    /\ at \in {"connect", "send"} => answered = None
    /\ exchange = "call" /\ answered = "match" => effects = 1
    /\ EvidenceHonest

\* The execution is over, for its progress.
Over == at = "done"

=============================================================================
