---------------------------- MODULE CatalogView ----------------------------
(***************************************************************************)
(* How the admin panel learns that the broker has the manifests on disk    *)
(* loaded (broker/server.py, admin/catalog_observation.py).  The broker    *)
(* publishes a receipt in its database (a random id and the fingerprint of *)
(* the catalog it loaded) and gives the id alone on its health page.  A    *)
(* SIGHUP reloads the catalog in a signal handler, which another SIGHUP    *)
(* may interrupt.  The panel reads the health page, the receipt, the       *)
(* manifests and the health page again.                                    *)
(***************************************************************************)
EXTENDS Integers, Sequences

CONSTANTS
    Catalogs,       \* what manifests on disk may say, as far as a fingerprint covers it
    Bad,            \* manifests that do not load
    MaxEdits, MaxReloads, MaxStarts, MaxDepth,  \* bounds
    None

\* Assumed of the constants; the module of a run asserts it of its instances.
CatalogViewAssumption ==
    /\ Bad \notin Catalogs /\ None \notin Catalogs \cup [id : Nat, fp : Catalogs]
    /\ MaxDepth \in Nat \ {0}

VARIABLES
    disk,           \* the manifests
    up, loaded,     \* the broker process and its catalog
    oid, receipt,   \* the id its health page shows; the receipt in the database
    frames,         \* the publication under way: innermost signal handler first
    at, seen, got,  \* the panel's observation
    cert,           \* the catalog it certified last
    failed,         \* ghost: the last reload that ended has failed
    edits, reloads, starts, ids

vars == <<disk, up, loaded, oid, receipt, frames, at, seen, got, cert, failed, edits, reloads, starts, ids>>
broker == <<up, loaded, oid, receipt, frames, failed>>
panel == <<at, seen, got, cert>>
counts == <<edits, reloads, starts, ids>>

Frame == [pc |-> "clear_id", new |-> None, id |-> 0, fp |-> None, boot |-> FALSE]

Init ==
    /\ disk \in Catalogs
    /\ up = FALSE /\ loaded = None /\ oid = 0 /\ receipt = None /\ frames = <<>>
    /\ at = "idle" /\ seen = 0 /\ got = None /\ cert = None /\ failed = FALSE
    /\ edits = 0 /\ reloads = 0 /\ starts = 0 /\ ids = 0

\* An operator or a tool update changes the manifests.
Edit ==
    /\ edits < MaxEdits /\ edits' = edits + 1
    /\ disk' \in (Catalogs \union {Bad}) \ {disk}
    /\ UNCHANGED <<broker, panel, reloads, starts, ids>>

\* build_server loads the manifests and publishes before it serves; until main installs the
\* handler a SIGHUP, like a publication that fails, ends the process (Die).
Start ==
    /\ ~up /\ starts < MaxStarts /\ starts' = starts + 1
    /\ disk # Bad
    /\ up' = TRUE /\ loaded' = disk /\ oid' = 0 /\ failed' = FALSE
    /\ frames' = <<[Frame EXCEPT !.pc = "print", !.boot = TRUE]>>
    /\ UNCHANGED <<disk, receipt, panel, edits, reloads, ids>>

Die ==
    /\ up
    /\ up' = FALSE /\ loaded' = None /\ oid' = 0 /\ frames' = <<>>
    /\ UNCHANGED <<disk, receipt, failed, panel, counts>>

Sighup ==
    /\ up /\ reloads < MaxReloads /\ reloads' = reloads + 1
    /\ Len(frames) < MaxDepth
    /\ \A i \in DOMAIN frames : ~frames[i].boot
    /\ frames' = <<Frame>> \o frames
    /\ UNCHANGED <<disk, up, loaded, oid, receipt, failed, panel, edits, starts, ids>>

Top == Head(frames)
Running(pc) == frames # <<>> /\ Top.pc = pc
Becomes(f) == frames' = <<f>> \o Tail(frames)
Returns(ok) == frames' = Tail(frames) /\ failed' = ~ok

ClearId ==
    /\ Running("clear_id")
    /\ oid' = 0
    /\ Becomes([Top EXCEPT !.pc = "clear_receipt"])
    /\ UNCHANGED <<disk, up, loaded, receipt, failed, panel, counts>>

\* The write may fail: the reload ends there.
ClearReceipt ==
    /\ Running("clear_receipt")
    /\ \/ receipt' = None /\ Becomes([Top EXCEPT !.pc = "parse"]) /\ UNCHANGED failed
       \/ UNCHANGED receipt /\ Returns(FALSE)
    /\ UNCHANGED <<disk, up, loaded, oid, panel, counts>>

Parse ==
    /\ Running("parse")
    /\ IF disk = Bad THEN Returns(FALSE)
       ELSE Becomes([Top EXCEPT !.pc = "swap", !.new = disk]) /\ UNCHANGED failed
    /\ UNCHANGED <<disk, up, loaded, oid, receipt, panel, counts>>

Swap ==
    /\ Running("swap")
    /\ loaded' = Top.new
    /\ Becomes([Top EXCEPT !.pc = "print"])
    /\ UNCHANGED <<disk, up, oid, receipt, failed, panel, counts>>

\* A new id, and the fingerprint of what is loaded.
Fingerprint ==
    /\ Running("print")
    /\ ids' = ids + 1
    /\ Becomes([Top EXCEPT !.pc = "receipt", !.id = ids + 1, !.fp = loaded])
    /\ UNCHANGED <<disk, up, loaded, oid, receipt, failed, panel, edits, reloads, starts>>

WriteReceipt ==
    /\ Running("receipt")
    /\ \/ receipt' = [id |-> Top.id, fp |-> Top.fp] /\ Becomes([Top EXCEPT !.pc = "id"]) /\ UNCHANGED failed
       \/ ~Top.boot /\ UNCHANGED receipt /\ Returns(FALSE)
    /\ UNCHANGED <<disk, up, loaded, oid, panel, counts>>

WriteId ==
    /\ Running("id")
    /\ oid' = Top.id
    /\ Returns(TRUE)
    /\ UNCHANGED <<disk, up, loaded, receipt, panel, counts>>

\* The health page is answered by the main thread, so in no signal handler.
Shown == IF up /\ frames = <<>> THEN oid ELSE 0
CanAnswer == ~up \/ frames = <<>>

Unknown == at' = "idle" /\ seen' = 0 /\ got' = None /\ cert' = None

Health1 ==
    /\ at = "idle" /\ CanAnswer
    /\ IF Shown = 0 THEN Unknown
       ELSE at' = "receipt" /\ seen' = Shown /\ UNCHANGED <<got, cert>>
    /\ UNCHANGED <<disk, broker, counts>>

ReadReceipt ==
    /\ at = "receipt"
    /\ at' = "current" /\ got' = receipt
    /\ UNCHANGED <<disk, broker, seen, cert, counts>>

\* The receipt is of the id shown, and of the manifests as they are now.
ReadCurrent ==
    /\ at = "current"
    /\ IF got # None /\ disk # Bad /\ got = [id |-> seen, fp |-> disk]
       THEN at' = "again" /\ UNCHANGED <<seen, got, cert>>
       ELSE Unknown
    /\ UNCHANGED <<disk, broker, counts>>

\* Mutant: one look at the health page is enough.
Health2Once ==
    /\ at = "again" /\ CanAnswer
    /\ at' = "idle" /\ seen' = 0 /\ got' = None /\ cert' = got.fp
    /\ UNCHANGED <<disk, broker, counts>>

Health2 ==
    /\ at = "again" /\ CanAnswer
    /\ IF Shown = seen
       THEN at' = "idle" /\ seen' = 0 /\ got' = None /\ cert' = got.fp
       ELSE Unknown
    /\ UNCHANGED <<disk, broker, counts>>

Next ==
    \/ Edit \/ Start \/ Die \/ Sighup
    \/ ClearId \/ ClearReceipt \/ Parse \/ Swap \/ Fingerprint \/ WriteReceipt \/ WriteId
    \/ Health1 \/ ReadReceipt \/ ReadCurrent \/ Health2

Spec == Init /\ [][Next]_vars

-----------------------------------------------------------------------------
(* Properties *)

\* "A restart/reload racing the private read cannot certify the previous receipt": at the
\* panel's second look the broker has loaded exactly the catalog the panel certifies.
CertifiedIsLoaded == at = "again" /\ at' = "idle" /\ cert' # None => up /\ loaded = cert'

\* "failed reload must not certify the previous catalog": after one, nothing is certified
\* until a reload or a start succeeds.
FailedReloadUncertified == at = "again" /\ at' = "idle" /\ cert' # None => ~failed

\* The inductive invariant behind both, while no reload interrupts another.  The id on the
\* health page is the receipt's, whose fingerprint is of what is loaded; it is taken back
\* before anything of this changes.  An id is given out once, so that a receipt which the panel
\* holds is the one in the database if their ids are equal.
Frames == [pc : {"clear_id", "clear_receipt", "parse", "swap", "print", "receipt", "id"},
           new : Catalogs \cup {None}, id : 0 .. ids, fp : Catalogs \cup {None}, boot : BOOLEAN]

CatalogInv ==
    /\ ids \in Nat /\ oid \in 0 .. ids /\ seen \in 0 .. ids
    /\ disk \in Catalogs \cup {Bad} /\ loaded \in Catalogs \cup {None}
    /\ receipt \in [id : 1 .. ids, fp : Catalogs] \cup {None}
    /\ got \in [id : 1 .. ids, fp : Catalogs] \cup {None}
    /\ frames = <<>> \/ \E f \in Frames : frames = <<f>>
    /\ up => loaded # None
    /\ frames # <<>> => up /\ (Top.pc # "clear_id" => oid = 0)
    /\ Running("swap") => Top.new \in Catalogs
    /\ Running("receipt") =>
          /\ Top.id = ids /\ ids > 0 /\ Top.fp = loaded
          /\ (receipt # None => receipt.id < ids) /\ (got # None => got.id < ids)
    /\ Running("id") => receipt = [id |-> Top.id, fp |-> loaded]
    /\ oid # 0 => up /\ ~failed /\ receipt = [id |-> oid, fp |-> loaded]
    /\ got # None /\ receipt # None /\ got.id = receipt.id => got = receipt
    /\ at \in {"idle", "receipt", "current", "again"} /\ (at # "idle" => seen # 0)
    /\ at = "again" => got # None /\ got.id = seen

=============================================================================
