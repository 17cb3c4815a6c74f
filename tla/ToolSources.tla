---------------------------- MODULE ToolSources ----------------------------
(***************************************************************************)
(* One tool's folder under tools_root: added by copying a source, updated  *)
(* from it by a staged rename, removed, and its manifest edited            *)
(* (admin/tool_sources.py, tool_authoring.py, manifest_files.py,           *)
(* toolyard_ops.remove and their handlers).  Adds, updates and removals    *)
(* run on a worker thread behind one slot (admin/blocking.py); edits run   *)
(* on the event loop and interleave with them.  The process may die.       *)
(***************************************************************************)
EXTENDS Integers, FiniteSets

CONSTANTS
    Workers,                    \* jobs that may be at work if the slot lets them
    MaxJobs, MaxEdits, MaxVersion, MaxCrashes   \* bounds

\* Assumed of the constants; the module of a run asserts it of its instances.
ToolSourcesAssumption == MaxJobs \in Nat /\ MaxEdits \in Nat

Dirs == 1 .. (2 * MaxJobs)      \* every folder ever made

VARIABLES
    source,     \* the version of the code and operations at the source
    dest,       \* the folder tools_root/<id> is, or 0
    dir,        \* what each folder holds
    made,       \* folders made so far
    slot,       \* the work slot is free
    job,        \* per worker: what it does, where, its folders, what it has read
    asked,      \* the caller of that job is still waiting for the answer
    edit,       \* the edit under way on the event loop
    lost,       \* folders a crash left in a staging area
    told,       \* the operator has been told that the tool is there
    kept,       \* ghost: the declarations of the last acknowledged edit, 0: none
    broken,     \* ghost: an add or a removal has failed or died half way
    jobs, edits, crashes

vars == <<source, dest, dir, made, slot, job, asked, edit, lost, told, kept, broken, jobs, edits, crashes>>

Empty == [files |-> 0, ops |-> 0, decl |-> 0, sidecar |-> FALSE]
\* files: -1 some of them; ops: 0 no manifest.
Idle == [kind |-> "none", pc |-> "idle", stage |-> 0, back |-> 0, decl |-> 0, version |-> 0]
NoEdit == [pc |-> "idle", ops |-> 0, decl |-> 0, fd |-> 0]

Init ==
    /\ source = 1 /\ dest = 0 /\ dir = [d \in Dirs |-> Empty] /\ made = 0
    /\ slot = TRUE /\ job = [w \in Workers |-> Idle] /\ asked = [w \in Workers |-> FALSE]
    /\ edit = NoEdit /\ lost = {} /\ told = FALSE /\ kept = 0 /\ broken = FALSE
    /\ jobs = 0 /\ edits = 0 /\ crashes = 0

-----------------------------------------------------------------------------
(* The slot *)

Discoverable == dest # 0 /\ dir[dest].ops # 0

Begin(w, k) ==
    /\ job' = [job EXCEPT ![w] = [Idle EXCEPT !.kind = k, !.pc = "begin"]]
    /\ asked' = [asked EXCEPT ![w] = TRUE]
    /\ jobs' = jobs + 1
    /\ told' = (told /\ k # "remove")
    /\ UNCHANGED <<source, dest, dir, made, edit, lost, kept, broken, edits, crashes>>

\* A handler lists the tools and hands the work to the thread if the slot is free, or answers 503.
Submit(w, k) == job[w] = Idle /\ jobs < MaxJobs /\ slot /\ slot' = FALSE /\ Begin(w, k)

SubmitAdd(w) == Submit(w, "add") \/ Submit(w, "author")
SubmitUpdate(w) == Discoverable /\ Submit(w, "update")
SubmitRemove(w) == Submit(w, "remove")

\* The end of the work frees the slot; its caller, if there, is answered and the event audited.
End(w, ok) ==
    /\ slot' = TRUE
    /\ told' = (told \/ (ok /\ asked[w] /\ job[w].kind \in {"add", "author"}))
    /\ job' = [job EXCEPT ![w] = Idle]
    /\ asked' = [asked EXCEPT ![w] = FALSE]

\* The caller goes away; the work goes on and keeps the slot.
Hangup(w) ==
    /\ asked[w]
    /\ asked' = [asked EXCEPT ![w] = FALSE]
    /\ UNCHANGED <<source, dest, dir, made, slot, job, edit, lost, told, kept, broken, jobs, edits, crashes>>

At(w, kinds, pc) == job[w].kind \in kinds /\ job[w].pc = pc
Goto(w, pc) == job' = [job EXCEPT ![w].pc = pc] /\ UNCHANGED <<slot, asked, told>>

-----------------------------------------------------------------------------
(* Adding: validate the source, refuse a clash, copy in place, record the source. *)

\* _ingest and add_with_manifest validate first; then the folder must not exist.
AddCheck(w) ==
    /\ At(w, {"add", "author"}, "begin")
    /\ \/ dest = 0 /\ Goto(w, "mkdir")
       \/ End(w, FALSE)
    /\ UNCHANGED <<source, dest, dir, made, edit, lost, kept, broken, jobs, edits, crashes>>

\* copytree makes the folder.  One that appeared since makes it fail, and the clean-up removes it.
AddMkdir(w) ==
    /\ At(w, {"add", "author"}, "mkdir")
    /\ IF dest = 0
       THEN /\ made' = made + 1 /\ dest' = made + 1
            /\ dir' = [dir EXCEPT ![made + 1] = [Empty EXCEPT !.files = -1]]
            /\ Goto(w, "copy")
       ELSE dest' = 0 /\ dir' = [dir EXCEPT ![dest] = Empty] /\ End(w, FALSE) /\ UNCHANGED made
    /\ UNCHANGED <<source, edit, lost, kept, broken, jobs, edits, crashes>>

\* A source with a manifest brings it along; code alone does not.
AddCopy(w) ==
    /\ At(w, {"add", "author"}, "copy")
    /\ \/ /\ dir' = [dir EXCEPT ![dest].files = source, ![dest].ops = IF job[w].kind = "add" THEN source ELSE 0]
          /\ Goto(w, "record") /\ UNCHANGED dest
       \/ dest' = 0 /\ dir' = [dir EXCEPT ![dest] = Empty] /\ End(w, FALSE)
    /\ UNCHANGED <<source, made, edit, lost, kept, broken, jobs, edits, crashes>>

\* The sidecar; a failure here leaves the copy where it is.
AddRecord(w) ==
    /\ At(w, {"add"}, "record")
    /\ \/ dir' = [dir EXCEPT ![dest].sidecar = TRUE] /\ End(w, TRUE) /\ UNCHANGED broken
       \/ broken' = TRUE /\ End(w, FALSE) /\ UNCHANGED dir
    /\ UNCHANGED <<source, dest, made, edit, lost, kept, jobs, edits, crashes>>

\* The authored manifest is written into the copy; there is no sidecar.
AuthorWrite(w) ==
    /\ At(w, {"author"}, "record")
    /\ \/ dir' = [dir EXCEPT ![dest].ops = dir[dest].files] /\ End(w, TRUE) /\ UNCHANGED broken
       \/ broken' = TRUE /\ End(w, FALSE) /\ UNCHANGED dir
    /\ UNCHANGED <<source, dest, made, edit, lost, kept, jobs, edits, crashes>>

-----------------------------------------------------------------------------
(* Updating: keep the local declarations, take the source's code, swap by renaming. *)

\* The recorded source and the operator's declarations; a folder without a record is refused.
UpdateRead(w) ==
    /\ At(w, {"update"}, "begin")
    /\ IF Discoverable /\ dir[dest].sidecar
       THEN job' = [job EXCEPT ![w].pc = "fetch", ![w].decl = dir[dest].decl] /\ UNCHANGED <<slot, asked, told>>
       ELSE End(w, FALSE)
    /\ UNCHANGED <<source, dest, dir, made, edit, lost, kept, broken, jobs, edits, crashes>>

\* The source is read or cloned, merged and validated; it may be gone, broken or another tool.
UpdateFetch(w) ==
    /\ At(w, {"update"}, "fetch")
    /\ \/ job' = [job EXCEPT ![w].pc = "stage", ![w].version = source] /\ UNCHANGED <<slot, asked, told>>
       \/ End(w, FALSE)
    /\ UNCHANGED <<source, dest, dir, made, edit, lost, kept, broken, jobs, edits, crashes>>

\* The whole new folder is built where discovery does not look; a failure drops it.
UpdateStage(w) ==
    /\ At(w, {"update"}, "stage")
    /\ \/ /\ made' = made + 1
          /\ dir' = [dir EXCEPT ![made + 1] =
                [files |-> job[w].version, ops |-> job[w].version, decl |-> job[w].decl, sidecar |-> TRUE]]
          /\ job' = [job EXCEPT ![w].pc = "aside", ![w].stage = made + 1] /\ UNCHANGED <<slot, asked, told>>
       \/ End(w, FALSE) /\ UNCHANGED <<dir, made>>
    /\ UNCHANGED <<source, dest, edit, lost, kept, broken, jobs, edits, crashes>>

\* os.replace(dest, backup)
UpdateAside(w) ==
    /\ At(w, {"update"}, "aside")
    /\ \/ /\ dest # 0 /\ dest' = 0
          /\ job' = [job EXCEPT ![w].pc = "swap", ![w].back = dest] /\ UNCHANGED <<slot, asked, told>>
       \/ UNCHANGED dest /\ End(w, FALSE)
    /\ UNCHANGED <<source, dir, made, edit, lost, kept, broken, jobs, edits, crashes>>

\* Mutant: a rename that fails leaves the backup in the staging area, which is removed.
UpdateSwapForgets(w) ==
    /\ At(w, {"update"}, "swap")
    /\ \/ dest' = job[w].stage /\ Goto(w, "clean")
       \/ UNCHANGED dest /\ End(w, FALSE)
    /\ UNCHANGED <<source, dir, made, edit, lost, kept, broken, jobs, edits, crashes>>

\* os.replace(staging, dest), or the original back if that fails.
UpdateSwap(w) ==
    /\ At(w, {"update"}, "swap")
    /\ \/ dest' = job[w].stage /\ Goto(w, "clean")
       \/ dest' = job[w].back /\ End(w, FALSE)
    /\ UNCHANGED <<source, dir, made, edit, lost, kept, broken, jobs, edits, crashes>>

\* The staging area goes, the backup with it.
UpdateClean(w) ==
    /\ At(w, {"update"}, "clean")
    /\ dir' = [dir EXCEPT ![job[w].back] = Empty]
    /\ End(w, TRUE)
    /\ UNCHANGED <<source, dest, made, edit, lost, kept, broken, jobs, edits, crashes>>

-----------------------------------------------------------------------------
(* Removing: stop the tool, delete the folder. *)

RemoveStart(w) ==
    /\ At(w, {"remove"}, "begin")
    /\ IF ~Discoverable THEN End(w, FALSE) /\ UNCHANGED dir
       ELSE dir' = [dir EXCEPT ![dest].files = -1] /\ Goto(w, "delete")
    /\ UNCHANGED <<source, dest, made, edit, lost, kept, broken, jobs, edits, crashes>>

RemoveDelete(w) ==
    /\ At(w, {"remove"}, "delete")
    /\ \/ dest' = 0 /\ dir' = [dir EXCEPT ![dest] = Empty] /\ kept' = 0 /\ End(w, TRUE) /\ UNCHANGED broken
       \/ broken' = TRUE /\ End(w, FALSE) /\ UNCHANGED <<dest, dir, kept>>
    /\ UNCHANGED <<source, made, edit, lost, jobs, edits, crashes>>

-----------------------------------------------------------------------------
(* Editing, on the event loop: read the manifest, open the folder, replace the manifest in it. *)

\* The API reads the manifest and changes its declarations.
EditRead ==
    /\ edit.pc = "idle" /\ edits < MaxEdits /\ Discoverable
    /\ edit' = [pc |-> "open", ops |-> dir[dest].ops, decl |-> edits + 1, fd |-> 0]
    /\ edits' = edits + 1
    /\ UNCHANGED <<source, dest, dir, made, slot, job, asked, lost, told, kept, broken, jobs, crashes>>

\* The panel renders the manifest into a form.
EditPage ==
    /\ edit.pc = "idle" /\ edits < MaxEdits /\ Discoverable
    /\ edit' = [pc |-> "form", ops |-> dir[dest].ops, decl |-> edits + 1, fd |-> 0]
    /\ edits' = edits + 1
    /\ UNCHANGED <<source, dest, dir, made, slot, job, asked, lost, told, kept, broken, jobs, crashes>>

\* The form comes back with the operations it was rendered with.
SaveForm ==
    /\ edit.pc = "form"
    /\ edit' = IF Discoverable THEN [edit EXCEPT !.pc = "open"] ELSE NoEdit
    /\ UNCHANGED <<source, dest, dir, made, slot, job, asked, lost, told, kept, broken, jobs, edits, crashes>>

EditOpen ==
    /\ edit.pc = "open"
    /\ edit' = IF dest = 0 THEN NoEdit ELSE [edit EXCEPT !.pc = "write", !.fd = dest]
    /\ UNCHANGED <<source, dest, dir, made, slot, job, asked, lost, told, kept, broken, jobs, edits, crashes>>

\* The write follows the open folder wherever it has been renamed to; a deleted one refuses it.
EditWrite ==
    /\ edit.pc = "write"
    /\ edit' = NoEdit
    /\ IF dir[edit.fd] = Empty THEN UNCHANGED <<dir, kept>>
       ELSE dir' = [dir EXCEPT ![edit.fd].ops = edit.ops, ![edit.fd].decl = edit.decl] /\ kept' = edit.decl
    /\ UNCHANGED <<source, dest, made, slot, job, asked, lost, told, broken, jobs, edits, crashes>>

-----------------------------------------------------------------------------

\* The source changes.
Release ==
    /\ source < MaxVersion /\ source' = source + 1
    /\ UNCHANGED <<dest, dir, made, slot, job, asked, edit, lost, told, kept, broken, jobs, edits, crashes>>

\* The admin process dies and is started again; nothing looks into old staging areas.
Crash ==
    /\ crashes < MaxCrashes /\ crashes' = crashes + 1
    /\ lost' = lost \union UNION {{job[w].stage, job[w].back} \ {0, dest} : w \in Workers}
    /\ broken' = (broken \/ \E w \in Workers : job[w].kind \in {"add", "author", "remove"})
    /\ slot' = TRUE /\ job' = [w \in Workers |-> Idle] /\ asked' = [w \in Workers |-> FALSE] /\ edit' = NoEdit
    /\ UNCHANGED <<source, dest, dir, made, told, kept, jobs, edits>>

Step(w) ==
    \/ AddCheck(w) \/ AddMkdir(w) \/ AddCopy(w) \/ AddRecord(w) \/ AuthorWrite(w)
    \/ UpdateRead(w) \/ UpdateFetch(w) \/ UpdateStage(w) \/ UpdateAside(w) \/ UpdateSwap(w) \/ UpdateClean(w)
    \/ RemoveStart(w) \/ RemoveDelete(w)

Next ==
    \/ \E w \in Workers : SubmitAdd(w) \/ SubmitUpdate(w) \/ SubmitRemove(w) \/ Step(w) \/ Hangup(w)
    \/ EditRead \/ EditPage \/ SaveForm \/ EditOpen \/ EditWrite \/ Release \/ Crash

Spec == Init /\ [][Next]_vars

-----------------------------------------------------------------------------
(* Properties *)

Busy == {w \in Workers : job[w].kind # "none"}

\* A tool the operator was told of and has not asked to remove exists whole, in place, in the
\* backup of an update at work or in the staging area a crash left; no other job deletes it.
NothingLost ==
    told /\ Busy = {} /\ ~broken => \E d \in ({dest} \union lost) \ {0} : dir[d].ops # 0 /\ dir[d].files > 0

\* "Release only when actual work finishes, even if the caller disconnects": one job at a time.
OneAtATime == Cardinality(Busy) <= 1 /\ (Busy # {} => ~slot)

\* What discovery sees is a whole folder, unless an add or a removal is at work or has stopped
\* half way: an update shows the old folder, the new one or none.
WholeWhenSeen ==
    Discoverable /\ dir[dest].files <= 0 =>
        broken \/ \E w \in Workers : job[w].kind \in {"add", "author", "remove"}

\* The inductive invariant behind them: where each job stands, and what it knows of the
\* folders.  What an update builds is whole; nothing but the job that set a folder aside, or
\* made it, puts it in place or deletes it; and a tool that the operator was told of is whole
\* in place, aside or in the staging area of a job that died.
Whole(d) == dir[d].ops # 0 /\ dir[d].files > 0

Places == {"begin", "mkdir", "copy", "record", "fetch", "stage", "aside", "swap", "clean", "delete"}

JobInv(w) ==
    LET j == job[w] IN
    /\ j.kind = "none" => j = Idle
    /\ j.kind # "none" => ~slot /\ j.pc # "idle"
    /\ j.kind \in {"add", "author"} => j.pc \in {"begin", "mkdir", "copy", "record"}
    /\ j.kind = "update" => j.pc \in {"begin", "fetch", "stage", "aside", "swap", "clean"}
    /\ j.kind = "remove" => j.pc \in {"begin", "delete"} /\ ~told
    /\ j.pc \in {"begin", "mkdir", "fetch", "stage"} => made < jobs
    /\ j.pc = "mkdir" => dest = 0
    /\ j.pc = "copy" => dest # 0 /\ dir[dest].files = -1
    /\ j.pc = "record" => dest # 0 /\ dir[dest].files > 0 /\ (j.kind = "add" => dir[dest].ops # 0)
    /\ j.pc = "stage" => j.version > 0
    /\ j.stage # 0 <=> j.pc \in {"aside", "swap", "clean"}
    /\ j.stage # 0 => Whole(j.stage) /\ j.stage \notin lost
    /\ j.pc = "aside" => j.stage # dest
    /\ j.back # 0 <=> j.pc \in {"swap", "clean"}
    /\ j.back # 0 => j.back # j.stage /\ j.back \notin lost
    /\ j.pc = "swap" => dest = 0 /\ (dir[j.back].files <= 0 => broken)
    /\ j.pc = "clean" => dest = j.stage

SourcesInv ==
    /\ jobs \in 0 .. MaxJobs /\ made \in 0 .. jobs /\ source \in Nat \ {0}
    /\ dir \in [Dirs -> [files : Int, ops : Nat, decl : Nat, sidecar : BOOLEAN]]
    /\ dest \in 0 .. made /\ dest \notin lost /\ lost \subseteq 1 .. made
    /\ job \in [Workers -> [kind : {"none", "add", "author", "update", "remove"}, pc : Places \cup {"idle"},
                            stage : 0 .. made, back : 0 .. made, decl : Nat, version : Nat]]
    /\ \A w, x \in Workers : job[w].kind # "none" /\ job[x].kind # "none" => w = x
    /\ \A w \in Workers : JobInv(w)
    /\ edits \in Nat /\ kept \in Nat /\ {slot, told, broken} \subseteq BOOLEAN
    /\ edit \in [pc : {"idle", "form", "open", "write"}, ops : Nat, decl : Nat, fd : 0 .. made]
    /\ edit.pc # "idle" => edit.ops # 0
    /\ edit.pc = "write" => edit.fd # 0
    /\ dest # 0 /\ dir[dest].files <= 0 => broken \/ \E w \in Workers : job[w].pc \in {"copy", "delete"}
    /\ told /\ ~broken => \E d \in ({dest} \union lost \union {job[w].back : w \in Workers}) \ {0} : Whole(d)

-----------------------------------------------------------------------------
(* Said of the code and not true of it (README, section 5) *)

\* "so a mid-operation failure leaves the original tool intact": when no work is under way a
\* tool the operator was told of is in place.
OriginalIntact == told /\ Busy = {} /\ ~broken => Discoverable

\* "keeping the operator's description + secret declarations": with no work under way the
\* tool in place has the declarations of the last edit that was acknowledged.
DeclarationsKept == told /\ Busy = {} /\ Discoverable /\ kept # 0 => dir[dest].decl = kept

\* "preserving its operations and entrypoint": an edit never gives a folder the operations of
\* another version of the code.
OperationsKept == \A d \in Dirs : dir[d].ops > 0 /\ dir[d].files > 0 => dir[d].ops = dir[d].files

=============================================================================
