------------------------------ MODULE AuditLog ------------------------------
(***************************************************************************)
(* The provider's audit log (sps/audit.py): one file and its rotated       *)
(* generations.  An event that does not fit shifts every generation up by  *)
(* renames, one at a time, and starts a new file; a rename may fail and    *)
(* the process may die in between.  Records are numbered as they are       *)
(* offered; a record's size is 1, so a file holds MaxBytes of them.        *)
(***************************************************************************)
EXTENDS Integers, Sequences, FiniteSets

CONSTANTS
    MaxBytes,       \* max_bytes
    Generations,    \* generations
    MaxEvents, MaxFaults

\* Assumed of the constants; the module of a run asserts it of its instances.
AuditLogAssumption ==
    MaxBytes \in Nat \ {0} /\ Generations \in Nat \ {0} /\ {MaxEvents, MaxFaults} \subseteq Nat

VARIABLES
    files,      \* 0: the log, i: its i-th generation; <<>> where there is none
    pc,         \* what event() is doing, under its lock
    index,      \* the generation the rotation has come to
    offered,    \* events so far
    acked,      \* the events whose event() has returned
    faults

vars == <<files, pc, index, offered, acked, faults>>

Gens == 0 .. Generations

Init ==
    /\ files = [i \in Gens |-> <<>>]
    /\ pc = "idle" /\ index = 0
    /\ offered = 0 /\ acked = {} /\ faults = 0

\* Mutant: the older file is copied.
Copy(from) == files' = [files EXCEPT ![from + 1] = files[from]]

Rename(from) == files' = [files EXCEPT ![from + 1] = files[from], ![from] = <<>>]

\* event() up to the size check.
Begin ==
    /\ pc = "idle" /\ offered < MaxEvents
    /\ offered' = offered + 1
    /\ IF Len(files[0]) + 1 > MaxBytes THEN pc' = "shift" /\ index' = Generations - 1
       ELSE pc' = "write" /\ UNCHANGED index
    /\ UNCHANGED <<files, acked, faults>>

\* The oldest first, so that only what falls off the end is lost; a generation that is not
\* there is skipped.  The log itself goes last.
Shift ==
    /\ pc = "shift"
    /\ IF index > 0 /\ files[index] = <<>> THEN UNCHANGED files ELSE Rename(index)
    /\ IF index = 0 THEN pc' = "write" /\ UNCHANGED index ELSE pc' = pc /\ index' = index - 1
    /\ UNCHANGED <<offered, acked, faults>>

\* The record, flush and fsync.
Write ==
    /\ pc = "write"
    /\ files' = [files EXCEPT ![0] = Append(@, offered)]
    /\ pc' = "return"
    /\ UNCHANGED <<index, offered, acked, faults>>

Return ==
    /\ pc = "return"
    /\ acked' = acked \cup {offered}
    /\ pc' = "idle" /\ index' = 0
    /\ UNCHANGED <<files, offered, faults>>

\* A rename or a write fails, or the process dies and is started again, at any point.
Fail ==
    /\ pc # "idle" /\ faults < MaxFaults
    /\ faults' = faults + 1
    /\ pc' = "idle" /\ index' = 0
    /\ UNCHANGED <<files, offered, acked>>

Next == Begin \/ Shift \/ Write \/ Return \/ Fail

Spec == Init /\ [][Next]_vars

-----------------------------------------------------------------------------
(* Properties *)

\* The records of the files, and those files that have any; an older file has a higher
\* number.
Records == UNION {{files[i][k] : k \in DOMAIN files[i]} : i \in Gens}
Present == {i \in Gens : files[i] # <<>>}

\* "bounded rotated history": a file never grows past max_bytes, and there are never more
\* generations than asked for.
Bounded == \A i \in Gens : Len(files[i]) <= MaxBytes

\* The history stays in order, and rotation only forgets from its old end: no interrupted
\* rotation loses, repeats or reorders an acknowledged event between two that are kept.
NoHoles ==
    /\ \A i, j \in Gens : \A k \in DOMAIN files[i], l \in DOMAIN files[j] :
          i > j \/ (i = j /\ k < l) => files[i][k] < files[j][l]
    /\ \A e \in acked : (\E k \in Records : k < e) => e \in Records

\* "bounded rotated history": of the newest MaxBytes * Generations events the acknowledged
\* ones are there; every interrupted rotation may cost one generation of them, but however
\* many there are, the file and one older generation survive the next.
RecentKept ==
    \A e \in acked :
        (\/ offered - e <= MaxBytes * (Generations - faults)
         \/ offered - e <= MaxBytes * (IF Generations = 1 THEN 1 ELSE 2)) => e \in Records

\* The inductive invariant behind both: but for the generation that a rotation is just moving,
\* the gaps below a generation that is present were made by faults, one by each.
Gaps(j) == {i \in 1 .. j - 1 : files[i] = <<>>}
Moving == IF pc = "shift" THEN {index + 1} ELSE {}

LogInv ==
    /\ Bounded /\ NoHoles /\ RecentKept
    /\ files \in [Gens -> Seq(1 .. offered)] /\ pc \in {"idle", "shift", "write", "return"}
    /\ index \in 0 .. Generations - 1 /\ offered \in Nat /\ acked \subseteq 1 .. offered /\ faults \in Nat
    /\ \A i \in Present \ {0} : Len(files[i]) = MaxBytes
    /\ pc = "shift" => Len(files[0]) = MaxBytes
    /\ pc = "shift" /\ index < Generations - 1 => files[index + 1] = <<>>
    /\ pc = "write" => Len(files[0]) < MaxBytes
    /\ pc \in {"shift", "write"} => offered > 0 /\ offered \notin acked \cup Records
    /\ pc = "return" => offered \in Records
    /\ \A j \in Present : Cardinality(Gaps(j) \ Moving) <= faults

=============================================================================
