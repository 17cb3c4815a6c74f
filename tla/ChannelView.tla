---------------------------- MODULE ChannelView -----------------------------
(***************************************************************************)
(* The broker's view of the tools' channel secrets (broker/tool_state.py): *)
(* channels.json is read again when its modification time has changed, at  *)
(* every call.  The runner replaces the file (toolyard/cli.py) while the   *)
(* broker is between its stat and its open.                                *)
(***************************************************************************)
EXTENDS Naturals

CONSTANTS
    Secrets,        \* the channel secrets a tool may have
    MaxWrites,      \* replacements of the file
    MaxFails,       \* reads that fail
    None

\* Assumed of the constants; the module of a run asserts it of its instances.
ChannelViewAssumption ==
    /\ MaxWrites \in Nat /\ MaxFails \in Nat
    /\ None \notin Secrets /\ None \notin [secret : Secrets \cup {None}, mtime : Nat]

VARIABLES
    file,       \* channels.json: the secret in it and its mtime, or None
    view,       \* _by_id (None: no entry) and _mtime (0: never read)
    call,       \* the call under way: where it is, the mtime it has seen
    during,     \* ghost: what the file has held since the call began
    answer,     \* what the last call returned, and whether the file had held it meanwhile
    writes, fails

vars == <<file, view, call, during, answer, writes, fails>>

Init ==
    /\ file = None
    /\ view = [secret |-> None, mtime |-> 0]
    /\ call = [pc |-> "idle", mtime |-> 0]
    /\ during = {}
    /\ answer = [secret |-> None, held |-> TRUE]
    /\ writes = 0 /\ fails = 0

Held == IF file = None THEN None ELSE file.secret

\* The runner renames a new file into place, or the file is removed; each has its own mtime.
Replace ==
    /\ writes < MaxWrites /\ writes' = writes + 1
    /\ \E s \in Secrets \cup {None} :
          \/ file' = [secret |-> s, mtime |-> writes'] /\ during' = during \cup {s}
          \/ s = None /\ file' = None /\ during' = during \cup {None}
    /\ UNCHANGED <<view, call, answer, fails>>

\* channel_secret_for
Begin ==
    /\ call.pc = "idle"
    /\ call' = [pc |-> "stat", mtime |-> 0]
    /\ during' = {Held}
    /\ UNCHANGED <<file, view, answer, writes, fails>>

\* The stat of _refresh_if_stale.
Stat ==
    /\ call.pc = "stat"
    /\ CASE file = None -> view' = [secret |-> None, mtime |-> 0] /\ call' = [call EXCEPT !.pc = "answer"]
         [] file # None /\ file.mtime = view.mtime -> call' = [call EXCEPT !.pc = "answer"] /\ UNCHANGED view
         [] OTHER -> call' = [pc |-> "open", mtime |-> file.mtime] /\ UNCHANGED view
    /\ UNCHANGED <<file, during, answer, writes, fails>>

\* The file is read, whichever it is by now, and goes with the mtime seen before; a read that
\* fails clears the view and leaves the mtime, so that the next call tries again.
Open ==
    /\ call.pc = "open"
    /\ \/ file # None /\ view' = [secret |-> Held, mtime |-> call.mtime] /\ UNCHANGED fails
       \/ /\ file = None \/ fails < MaxFails
          /\ fails' = IF file = None THEN fails ELSE fails + 1
          /\ view' = [view EXCEPT !.secret = None]
    /\ call' = [call EXCEPT !.pc = "answer"]
    /\ UNCHANGED <<file, during, answer, writes>>

Answer ==
    /\ call.pc = "answer"
    /\ answer' = [secret |-> view.secret, held |-> view.secret \in during \cup {None}]
    /\ call' = [pc |-> "idle", mtime |-> 0]
    /\ UNCHANGED <<file, view, during, writes, fails>>

Next == Replace \/ Begin \/ Stat \/ Open \/ Answer

Spec == Init /\ [][Next]_vars

-----------------------------------------------------------------------------
(* Properties *)

\* "Picks up state changes via the file's mtime on each call": a call returns a secret that
\* the file has held since the call began, however the runner replaced it meanwhile, never
\* one from before.
NeverStale == answer.held

\* The inductive invariant behind it: a view with the mtime of the file is the file's, or
\* empty, since no two files have one mtime and the one that is read is never older than the
\* one whose mtime was seen; what the file holds now it has held during the call.
ViewInv ==
    /\ writes \in Nat /\ fails \in Nat
    /\ view \in [secret : Secrets \cup {None}, mtime : 0 .. writes]
    /\ call \in [pc : {"idle", "stat", "open", "answer"}, mtime : 0 .. writes]
    /\ file # None => /\ file \in [secret : Secrets \cup {None}, mtime : 1 .. writes]
                      /\ file.mtime = view.mtime => view.secret \in {None, file.secret}
    /\ call.pc # "idle" => Held \in during
    /\ call.pc = "answer" => view.secret \in during \cup {None}
    /\ NeverStale

\* What the last call returned, for the progress of the view.
Answered(s) == answer.secret = s

=============================================================================
