------------------------------- MODULE Vault --------------------------------
(***************************************************************************)
(* The encrypted vault file (sps/plugins/localfile.py) that the provider   *)
(* and the operator's commands (sps/cli.py: vault-set, init-vault --force) *)
(* share.  Each get or set holds the flock of a side file from its reload  *)
(* to its rename; the rename replaces the file as a whole (sps/paths.py).  *)
(* The salt stands for the encryption parameters of an envelope, which a   *)
(* _Vault object reads once, when it is made.                              *)
(***************************************************************************)
EXTENDS Naturals

CONSTANTS
    Fields,         \* <<tool, field>> entries of the vault
    Servers,        \* worker threads of the provider: one _Vault object
    Commands,       \* operator commands: a _Vault object each
    MaxSets,        \* sets in all
    MaxInits,       \* runs of init-vault
    MaxCrashes,
    None

\* Assumed of the constants; the module of a run asserts it of its instances.
VaultAssumption ==
    /\ Servers \cap Commands = {} /\ None \notin Servers \cup Commands
    /\ {MaxSets, MaxCrashes} \subseteq Nat /\ MaxInits \in Nat \ {0}

Workers == Servers \cup Commands
Data == [Fields -> Nat]
Empty == [f \in Fields |-> 0]

VARIABLES
    file,       \* the vault: its salt and its data, or None
    lock,       \* who holds the flock
    salt,       \* the salt of each worker's _Vault object (0: not connected)
    mem,        \* the _data of each worker's _Vault object
    job,        \* what each worker is doing
    last,       \* the last value that a completed set gave to each field
    answer,     \* the last read, and what it should have been
    sets, inits, crashes

vars == <<file, lock, salt, mem, job, last, answer, sets, inits, crashes>>

\* The workers that share a _Vault object with w.
Sharing(w) == IF w \in Servers THEN Servers ELSE {w}

NoJob == [pc |-> "idle", op |-> "none", field |-> None, value |-> 0]

Init ==
    /\ file = [salt |-> 1, data |-> Empty]
    /\ lock = None
    /\ salt = [w \in Workers |-> IF w \in Servers THEN 1 ELSE 0]
    /\ mem = [w \in Workers |-> Empty]
    /\ job = [w \in Workers |-> NoJob]
    /\ last = Empty
    /\ answer = [got |-> 0, want |-> 0]
    /\ sets = 0 /\ inits = 1 /\ crashes = 0

Go(w, pc) == job' = [job EXCEPT ![w].pc = pc]

\* _Vault.__init__: the envelope is read without the lock.
Connect(w) ==
    /\ job[w].pc = "idle" /\ file # None
    /\ w \in Commands \/ \A x \in Servers : job[x].pc = "idle" /\ salt[x] = 0
    /\ salt' = [x \in Workers |-> IF x \in Sharing(w) THEN file.salt ELSE salt[x]]
    /\ mem' = [x \in Workers |-> IF x \in Sharing(w) THEN file.data ELSE mem[x]]
    /\ UNCHANGED <<file, lock, job, last, answer, sets, inits, crashes>>

Ask(w, op, f) ==
    /\ job[w].pc = "idle" /\ salt[w] # 0
    /\ op = "set" => sets < MaxSets
    /\ sets' = IF op = "set" THEN sets + 1 ELSE sets
    /\ job' = [job EXCEPT ![w] = [pc |-> "lock", op |-> op, field |-> f,
                                  value |-> IF op = "set" THEN sets' ELSE 0]]
    /\ UNCHANGED <<file, lock, salt, mem, last, answer, inits, crashes>>

\* self._mutex and the flock.
Lock(w) ==
    /\ job[w].pc = "lock" /\ lock = None
    /\ lock' = w
    /\ Go(w, IF job[w].op = "init" THEN "exists" ELSE "reload")
    /\ UNCHANGED <<file, salt, mem, last, answer, sets, inits, crashes>>

Unlock(w) == lock' = None /\ job' = [job EXCEPT ![w] = NoJob]

\* Mutant: the data in memory is good enough.
ReloadNot(w) ==
    /\ job[w].pc = "reload"
    /\ Go(w, "have")
    /\ UNCHANGED <<file, lock, salt, mem, last, answer, sets, inits, crashes>>

\* _reload: the file as it is now; a file that is gone or was made anew is an error.
Reload(w) ==
    /\ job[w].pc = "reload"
    /\ LET readable == IF file = None THEN FALSE ELSE file.salt = salt[w] IN
       \/ /\ readable
          /\ mem' = [x \in Workers |-> IF x \in Sharing(w) THEN file.data ELSE mem[x]]
          /\ Go(w, "have") /\ UNCHANGED lock
       \/ /\ ~readable
          /\ Unlock(w) /\ UNCHANGED mem
    /\ UNCHANGED <<file, salt, last, answer, sets, inits, crashes>>

Get(w) ==
    /\ job[w].pc = "have" /\ job[w].op = "get"
    /\ answer' = [got |-> mem[w][job[w].field], want |-> last[job[w].field]]
    /\ Unlock(w)
    /\ UNCHANGED <<file, salt, mem, last, sets, inits, crashes>>

\* set: the candidate is written to a temporary file and renamed over the vault.
Persist(w) ==
    /\ job[w].pc = "have" /\ job[w].op = "set"
    /\ mem' = [x \in Workers |-> IF x \in Sharing(w) THEN [mem[w] EXCEPT ![job[w].field] = job[w].value]
                                 ELSE mem[x]]
    /\ file' = [salt |-> salt[w], data |-> mem'[w]]
    /\ last' = [last EXCEPT ![job[w].field] = job[w].value]
    /\ Unlock(w)
    /\ UNCHANGED <<salt, answer, sets, inits, crashes>>

\* The write fails: the object takes its old data back.
PersistFails(w) ==
    /\ job[w].pc = "have" /\ job[w].op = "set"
    /\ Unlock(w)
    /\ UNCHANGED <<file, salt, mem, last, answer, sets, inits, crashes>>

-----------------------------------------------------------------------------
(* init-vault --force *)

\* The old file is unlinked before the lock is taken.
InitUnlink(w) ==
    /\ w \in Commands /\ job[w].pc = "idle" /\ inits < MaxInits
    /\ inits' = inits + 1
    /\ file' = None
    /\ job' = [job EXCEPT ![w] = [pc |-> "lock", op |-> "init", field |-> None, value |-> inits']]
    /\ UNCHANGED <<lock, salt, mem, last, answer, sets, crashes>>

\* Mutant: the new envelope keeps the parameters of the old object.
InitAnyway(w) ==
    /\ job[w].pc = "exists"
    /\ file' = [salt |-> salt[w], data |-> Empty] /\ last' = Empty
    /\ Unlock(w)
    /\ UNCHANGED <<salt, mem, answer, sets, inits, crashes>>

\* _Vault.init: a file that has come back in the meantime is an error.
InitWrite(w) ==
    /\ job[w].pc = "exists"
    /\ IF file = None THEN file' = [salt |-> job[w].value, data |-> Empty] /\ last' = Empty
       ELSE UNCHANGED <<file, last>>
    /\ Unlock(w)
    /\ UNCHANGED <<salt, mem, answer, sets, inits, crashes>>

-----------------------------------------------------------------------------

\* The provider, or a command, dies: its lock goes with its descriptor, and a set that had
\* not renamed its temporary file has not happened.
Crash(w) ==
    /\ crashes < MaxCrashes /\ crashes' = crashes + 1
    /\ salt' = [x \in Workers |-> IF x \in Sharing(w) THEN 0 ELSE salt[x]]
    /\ job' = [x \in Workers |-> IF x \in Sharing(w) THEN NoJob ELSE job[x]]
    /\ lock' = IF lock \in Sharing(w) THEN None ELSE lock
    /\ UNCHANGED <<file, mem, last, answer, sets, inits>>

Step(w) == Lock(w) \/ Reload(w) \/ Get(w) \/ Persist(w) \/ PersistFails(w) \/ InitWrite(w)

Next == \E w \in Workers :
            \/ Connect(w) \/ Step(w) \/ InitUnlink(w) \/ Crash(w)
            \/ \E f \in Fields, op \in {"get", "set"} : Ask(w, op, f)

Spec == Init /\ [][Next]_vars

-----------------------------------------------------------------------------
(* Properties *)

\* The type of every variable.
TypeOK ==
    /\ file = None \/ file \in [salt : 1 .. MaxInits, data : Data]
    /\ lock \in Workers \cup {None}
    /\ salt \in [Workers -> 0 .. MaxInits] /\ mem \in [Workers -> Data]
    /\ job \in [Workers -> [pc : {"idle", "lock", "reload", "have", "exists"},
                            op : {"none", "get", "set", "init"}, field : Fields \cup {None},
                            value : Nat]]
    /\ last \in Data /\ answer \in [got : Nat, want : Nat]

\* Several processes set different fields of one file ("A stable sidecar inode, never the
\* atomically replaced vault inode", _file_lock): no set undoes another's, through crashes
\* and through an init-vault --force that races with it.
NoLostSet == file # None => file.data = last

\* A read returns the last value set by anyone, not what the reader's object remembers.
ReadsLatest == answer.got = answer.want

\* What the operators and the provider expect of the vault.
VaultCurrent == TypeOK /\ NoLostSet /\ ReadsLatest

\* Only the holder of the flock is past it, and what it has reloaded is what was last set,
\* also when init-vault --force has unlinked the file since.
JobSound(w) ==
    /\ job[w].pc \in {"reload", "have", "exists"} => lock = w
    /\ job[w].pc = "have" => mem[w] = last
    /\ job[w].pc \in {"reload", "have"} => job[w].op \in {"get", "set"}
    /\ job[w].pc = "exists" => job[w].op = "init"
    /\ job[w].op \in {"get", "set"} => job[w].field \in Fields /\ salt[w] # 0
    /\ job[w].op = "init" => job[w].value \in 1 .. MaxInits
    /\ job[w].pc = "lock" => job[w].op # "none"

VaultInv ==
    /\ VaultCurrent
    /\ sets \in Nat /\ inits \in 1 .. MaxInits
    /\ \A w \in Workers : JobSound(w)

=============================================================================
