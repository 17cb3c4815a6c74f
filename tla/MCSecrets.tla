----------------------------- MODULE MCSecrets ------------------------------
(***************************************************************************)
(* The secrets provider and what it stores, each on a small instance.      *)
(***************************************************************************)
EXTENDS OneOf, TLC

CONSTANTS
    c1, c2,
    ReleaseCase, WriteCase, WorkerCase,               \* the parameters of three instances of Sps
    Fields, Servers, Commands, MaxSets, MaxInits, MaxCrashes,   \* of the vault
    MaxBytes, Generations, MaxEvents, MaxLogFaults              \* of the audit log

Decl(n, i, w) == [name |-> n, item |-> i, writable |-> w]

\* Its own secret, the other's, and two entries of one name.
SharedDecls == {{Decl("k", "a", TRUE)}, {Decl("k", "b", FALSE)},
                {Decl("k", "a", TRUE), Decl("k", "b", FALSE)}}

OwnDecls == {{Decl("k", "a", TRUE), Decl("m", "a", FALSE)}}

ConnSymmetry == Permutations({c1, c2})

-----------------------------------------------------------------------------
(* The secrets provider *)

\* Two tools, of which "a" is granted the items of "b"; "a" was started twice.
MCRelease ==
    [Tools |-> {"a", "b"}, Esecrets |-> {"a1", "a2", "b1"},
     ToolOf |-> [a1 |-> "a", a2 |-> "a", b1 |-> "b"], Names |-> {"k"}, Decls |-> SharedDecls,
     Grants |-> [a |-> {"b"}, b |-> {}], Ops |-> {"register", "unregister", "get_secrets"},
     Conns |-> {c1, c2}, MaxWorkers |-> 2, MaxCalls |-> 3, MaxFaults |-> 0]

\* One tool with a writable secret, and a failing transport, backend or audit log.
MCWrites ==
    [Tools |-> {"a"}, Esecrets |-> {"a1"}, ToolOf |-> [a1 |-> "a"], Names |-> {"k", "m"},
     Decls |-> OwnDecls, Grants |-> [a |-> {}],
     Ops |-> {"register", "get_secrets", "get_secret", "write_secret"}, Conns |-> {c1, c2},
     MaxWorkers |-> 2, MaxCalls |-> 3, MaxFaults |-> 1]

\* Three connections for two workers.
MCWorkers ==
    [Tools |-> {"a"}, Esecrets |-> {"a1"}, ToolOf |-> [a1 |-> "a"], Names |-> {"k"},
     Decls |-> {{}}, Grants |-> [a |-> {}], Ops |-> {"ping"}, Conns |-> {"x", "y", "z"},
     MaxWorkers |-> 2, MaxCalls |-> 3, MaxFaults |-> 1]

Sr == INSTANCE Sps WITH
    Tools <- ReleaseCase.Tools, Esecrets <- ReleaseCase.Esecrets, ToolOf <- ReleaseCase.ToolOf,
    Names <- ReleaseCase.Names, Decls <- ReleaseCase.Decls, Grants <- ReleaseCase.Grants,
    Ops <- ReleaseCase.Ops, Conns <- ReleaseCase.Conns, MaxWorkers <- ReleaseCase.MaxWorkers,
    MaxCalls <- ReleaseCase.MaxCalls, MaxFaults <- ReleaseCase.MaxFaults, reg <- v1,
    backend <- v2, held <- v3, slots <- v4, conn <- v5, rejects <- v6, summed <- v7,
    happened <- v8, logged <- v9, cache <- v10, calls <- v11, faults <- v12

Sw == INSTANCE Sps WITH
    Tools <- WriteCase.Tools, Esecrets <- WriteCase.Esecrets, ToolOf <- WriteCase.ToolOf,
    Names <- WriteCase.Names, Decls <- WriteCase.Decls, Grants <- WriteCase.Grants,
    Ops <- WriteCase.Ops, Conns <- WriteCase.Conns, MaxWorkers <- WriteCase.MaxWorkers,
    MaxCalls <- WriteCase.MaxCalls, MaxFaults <- WriteCase.MaxFaults, reg <- v1, backend <- v2,
    held <- v3, slots <- v4, conn <- v5, rejects <- v6, summed <- v7, happened <- v8,
    logged <- v9, cache <- v10, calls <- v11, faults <- v12

Sk == INSTANCE Sps WITH
    Tools <- WorkerCase.Tools, Esecrets <- WorkerCase.Esecrets, ToolOf <- WorkerCase.ToolOf,
    Names <- WorkerCase.Names, Decls <- WorkerCase.Decls, Grants <- WorkerCase.Grants,
    Ops <- WorkerCase.Ops, Conns <- WorkerCase.Conns, MaxWorkers <- WorkerCase.MaxWorkers,
    MaxCalls <- WorkerCase.MaxCalls, MaxFaults <- WorkerCase.MaxFaults, reg <- v1,
    backend <- v2, held <- v3, slots <- v4, conn <- v5, rejects <- v6, summed <- v7,
    happened <- v8, logged <- v9, cache <- v10, calls <- v11, faults <- v12

-----------------------------------------------------------------------------
(* What it stores *)

Va == INSTANCE Vault WITH
    file <- v1, lock <- v2, salt <- v3, mem <- v4,
    job <- v5, last <- v6, answer <- v7, sets <- v8, inits <- v9, crashes <- v10

Al == INSTANCE AuditLog WITH
    MaxFaults <- MaxLogFaults, files <- v1, pc <- v2, index <- v3, offered <- v4,
    acked <- v5, faults <- v6

-----------------------------------------------------------------------------

ASSUME SecretsAssumption ==
    /\ Sr!SpsAssumption
    /\ Sw!SpsAssumption
    /\ Sk!SpsAssumption
    /\ Va!VaultAssumption
    /\ Al!AuditLogAssumption

Init ==
    \/ Start("release", 12) /\ Sr!Init
    \/ Start("writes", 12) /\ Sw!Init
    \/ Start("workers", 12) /\ Sk!Init
    \/ Start("vault", 10) /\ Va!Init
    \/ Start("audit", 6) /\ Al!Init

Next ==
    \/ Stay("release", 12) /\ Sr!Next
    \/ Stay("writes", 12) /\ Sw!Next
    \/ Stay("workers", 12) /\ Sk!Next
    \/ Stay("vault", 10) /\ Va!Next
    \/ Stay("audit", 6) /\ Al!Next

Spec == Init /\ [][Next]_all

-----------------------------------------------------------------------------
(* Properties *)

\* Values are released only to a process whose E_SECRET was registered during the call,
\* and only those of its tool or granted to it; nobody is told of a success, or given a
\* value, that the audit log does not have; and the cache of a tool holds only values that
\* the backend has held (sps/server.py, sps/client.py).
SecretsGuarded ==
    /\ comp = "release" => Sr!TypeOK /\ Sr!ReleasesAllowed
    /\ comp = "writes" => Sw!ReleasesAllowed /\ Sw!FailClosed /\ Sw!SpsInv

\* The permits of the semaphore and the workers that hold one add up, whatever breaks, and
\* the summaries never count a rejected connection twice (sps/server.py, _flush_rejects).
WorkersCounted == comp = "workers" => Sk!WorkersCounted

\* No set of a field undoes that of another process, through crashes and a forced
\* init-vault, and a read returns the last value that anyone has set (the vault plugin).
VaultCurrent == comp = "vault" => Va!VaultCurrent /\ Va!VaultInv

\* However often a rotation is interrupted, no file of the audit log grows past its bound and
\* the history forgets from its old end only: of the newest events that its files have room
\* for, less one file for each interruption but never less than two, no acknowledged one is
\* missing (sps/audit.py); with the inductive invariant behind it.
LogKept == comp = "audit" => Al!Bounded /\ Al!NoHoles /\ Al!RecentKept /\ Al!LogInv

=============================================================================
