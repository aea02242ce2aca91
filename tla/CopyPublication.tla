---------------------------- MODULE CopyPublication ----------------------------
(***************************************************************************)
(* Journaled publication through a prepared sibling: a verified copy on    *)
(* another filesystem, or a destination artifact that was rendered with    *)
(* changed tags.  The prepared file is renamed to its target, the list     *)
(* database follows, and only then is the source removed.  The process or  *)
(* the machine may stop between any two steps; a startup recovery adopts,  *)
(* finishes, undoes or reports what was interrupted.                       *)
(*                                                                         *)
(* A file stands for one inode.  The file operation o prepares is named by *)
(* the operation; `content' says which item a file holds whole.            *)
(***************************************************************************)
EXTENDS Naturals, FiniteSets, PublicationJournal

CONSTANTS
    MaxOps,        \* number of journal records a behaviour can create
    Paths,         \* raw file names of the library
    Library,       \* files Trackbench lists
    Strangers,     \* files other programs may create
    Items,         \* persisted list occurrences
    Workers,       \* threads that run one publication each
    Recovery,      \* the startup recovery job
    NoPath,        \* the name of a file that does not exist
    Kinds,         \* subset of {"copy", "artifact"}
    MaxFaults,     \* bound on failing system calls, writes and callbacks
    MaxCrashes,    \* bound on crashes
    CrashKinds,    \* subset of {"process", "power"}
    ReplayMayFail  \* may the callback fail for a record it already applied

Ops == 1..MaxOps
Files == Library \cup Strangers \cup Ops
Jobs == Workers \cup {Recovery}

ASSUME CopyAssumption ==
    /\ MaxOps \in Nat /\ MaxFaults \in Nat /\ MaxCrashes \in Nat
    /\ Library \cap Strangers = {} /\ (Library \cup Strangers) \cap Ops = {}
    /\ Recovery \notin Workers
    /\ NoPath \notin Paths \cup Library \cup Strangers
    /\ Kinds \subseteq {"copy", "artifact"}
    /\ CrashKinds \subseteq {"process", "power"}
    /\ ReplayMayFail \in BOOLEAN

VARIABLES
    up,        \* is the program running
    name,      \* file -> the name it is visible under
    limbo,     \* file -> other names a power loss may bring back
    content,   \* file -> the item it holds, whole and synced
    journal,   \* operation -> its durable record, rowid order
    refs,      \* list occurrence -> persisted path and revision
    relocated, \* operations whose relocation row is committed
    job,       \* thread -> what it is doing
    faults,    \* failures injected so far
    crashes    \* crashes so far

vars == <<up, name, limbo, content, journal, refs, relocated, job, faults, crashes>>
disk == <<name, limbo, content>>
database == <<refs, relocated>>
budget == <<faults, crashes>>

(* .trackknife-<journal id>.prepared beside the target *)
Sibling(o) == <<"prepared", o>>
Names == Paths \cup {Sibling(o) : o \in Ops} \cup {NoPath}

Unused == [state |-> "none"]

Record ==
    [state : StatesOf(TRUE), file : Files, source : Paths, target : Paths, kind : Kinds]

Occurrence == [path : Paths, file : Files]

PCs == {"idle", "scan", "created", "writing", "unprepared", "adopt", "prepared", "ready",
        "renamed", "synced", "published", "committed", "verified", "advanced", "unlinked",
        "removed", "finishing", "discard", "discarded", "retract", "retracted",
        "abort", "stuck"}

Idle == [pc |-> "idle", op |-> 0, known |-> "none"]
Scan(cursor) == [pc |-> "scan", op |-> cursor, known |-> "none"]
At(pc, o, known) == [pc |-> pc, op |-> o, known |-> known]

-------------------------------------------------------------------------------
(* What a step can see. *)

Free(p) == \A f \in Files : name[f] # p
FileOf(o) == journal[o].file

SourceInPlace(o) == name[FileOf(o)] = journal[o].source
Prepared(o) == name[o] = Sibling(o)

(* Nothing happened: the source alone. *)
Intact(o) == SourceInPlace(o) /\ ~Prepared(o) /\ Free(journal[o].target)
(* Both the source and the published target. *)
Published(o) == SourceInPlace(o) /\ name[o] = journal[o].target
(* The published target alone. *)
Delivered(o) == Free(journal[o].source) /\ name[o] = journal[o].target

Exists(o) == journal[o] # Unused
Pending(o) == Exists(o) /\ journal[o].state \notin Final

(* A running job keeps advisory locks on its source and its prepared file. *)
Running(j) == job[j].pc \notin {"idle", "scan"}
Locked(f) == \E j \in Jobs : Running(j) /\ f \in {FileOf(job[j].op), job[j].op}

NextRow(o) ==
    /\ ~Exists(o)
    /\ \A q \in Ops : q < o => Exists(q)

Recovering == job[Recovery].pc # "idle"

-------------------------------------------------------------------------------
(* How a step can end. *)

Fault == faults < MaxFaults /\ faults' = faults + 1
Smooth == UNCHANGED faults

Becomes(j, thread) == job' = [job EXCEPT ![j] = thread]
Goto(j, pc) == Becomes(j, [job[j] EXCEPT !.pc = pc])
Return(j) == Becomes(j, Idle)

(* A worker returns; the recovery goes on with its next record. *)
Done(j) == Becomes(j, IF j = Recovery THEN Scan(job[j].op) ELSE Idle)

(* The executor cleans up where the recovery returns its error. *)
CleanUp(j, pc) == IF j = Recovery THEN Return(j) ELSE Goto(j, pc)

(* The journal accepts a write only from the state the writer knows. *)
Accepts(j, to) ==
    /\ journal[job[j].op].state = job[j].known
    /\ LegalTransition(TRUE, job[j].known, to)

Write(j, to) ==
    /\ Accepts(j, to) /\ Smooth
    /\ journal' = [journal EXCEPT ![job[j].op].state = to]

WriteFails(j, to) ==
    /\ Fault \/ (~Accepts(j, to) /\ Smooth)
    /\ UNCHANGED journal

(* A directory change that no fsync has made durable yet. *)
RenameTo(f, p) ==
    /\ name' = [name EXCEPT ![f] = p]
    /\ limbo' = [limbo EXCEPT ![f] = (@ \cup {name[f]}) \ {p}]

Unlink(f) == RenameTo(f, NoPath)

Sync(f) == limbo' = [limbo EXCEPT ![f] = {}]

-------------------------------------------------------------------------------
(* The dependent-state committer: one transaction over every occurrence,   *)
(* keyed by the operation, so that a repeated call finds its own row.      *)

Occurrences(p) == {i \in Items : refs[i].path = p}

Owned(o, p) ==
    /\ Occurrences(p) # {}
    /\ \A i \in Occurrences(p) : refs[i].file = FileOf(o)

CanRelocate(o) ==
    LET source == journal[o].source
        target == journal[o].target
    IN \/ Owned(o, source) /\ Occurrences(target) = {}
       \/ Occurrences(source) = {} /\ Owned(o, target)

Relocate(o) ==
    \/ o \in relocated /\ UNCHANGED database
    \/ /\ o \notin relocated /\ CanRelocate(o)
       /\ relocated' = relocated \cup {o}
       /\ refs' = [i \in Items |->
                     IF refs[i].path \in {journal[o].source, journal[o].target}
                       THEN [path |-> journal[o].target, file |-> o]
                       ELSE refs[i]]

RelocateFails(o) ==
    /\ UNCHANGED database
    /\ \/ o \notin relocated /\ ~CanRelocate(o) /\ Smooth
       \/ (o \in relocated => ReplayMayFail) /\ Fault

-------------------------------------------------------------------------------
Init ==
    /\ up = FALSE
    /\ name \in [Files -> Paths \cup {NoPath}]
    /\ \A f \in Library : name[f] # NoPath
    /\ \A f \in Strangers \cup Ops : name[f] = NoPath
    /\ \A f, g \in Library : f # g => name[f] # name[g]
    /\ limbo = [f \in Files |-> {}]
    /\ content = [f \in Files |-> IF f \in Ops THEN NoPath ELSE f]
    /\ journal = [o \in Ops |-> Unused]
    /\ refs \in [Items -> Occurrence]
    /\ \A i \in Items : /\ refs[i].file \in Library \cup Strangers
                        /\ refs[i].file \in Library => refs[i].path = name[refs[i].file]
    /\ relocated = {}
    /\ job = [j \in Jobs |-> Idle]
    /\ faults = 0 /\ crashes = 0

(* Startup opens the window and starts the recovery job. *)
Start ==
    /\ ~up /\ up' = TRUE
    /\ Becomes(Recovery, Scan(0))
    /\ UNCHANGED <<disk, journal, database, budget>>

(* Closing waits for running publications and cancels the recovery. *)
Close ==
    /\ up /\ up' = FALSE
    /\ \A j \in Workers : job[j].pc = "idle"
    /\ job[Recovery].pc \in {"idle", "scan"}
    /\ Return(Recovery)
    /\ UNCHANGED <<disk, journal, database, budget>>

Crash ==
    /\ up /\ crashes < MaxCrashes
    /\ up' = FALSE /\ crashes' = crashes + 1
    /\ job' = [j \in Jobs |-> Idle]
    /\ \/ "process" \in CrashKinds /\ UNCHANGED <<name, limbo>>
       \/ /\ "power" \in CrashKinds
          /\ name' \in [Files -> Names]
          /\ \A f \in Files : name'[f] \in {name[f]} \cup limbo[f]
          /\ \A f, g \in Files : f # g /\ name'[f] = name'[g] => name'[f] = NoPath
          /\ limbo' = [f \in Files |-> {}]
    /\ UNCHANGED <<content, journal, database, faults>>

(* Another program creates a file under a name it finds free. *)
Intrude ==
    \E f \in Strangers, p \in Paths :
        /\ name[f] = NoPath /\ Free(p)
        /\ \A o \in Ops : Exists(o) => FileOf(o) # f
        /\ name' = [name EXCEPT ![f] = p]
        /\ UNCHANGED <<up, limbo, content, journal, database, job, budget>>

-------------------------------------------------------------------------------
(* Preparation: the record, then the sibling that must become the target.  *)

Begin(j) ==
    \E o \in Ops, f \in Files, target \in Paths, kind \in Kinds :
        /\ up /\ ~Recovering /\ job[j].pc = "idle"
        /\ \E i \in Items : refs[i] = [path |-> name[f], file |-> f]
        /\ NextRow(o) /\ ~Locked(f) /\ Free(target)
        /\ journal' = [journal EXCEPT ![o] =
               [state |-> "planned", file |-> f, source |-> name[f],
                target |-> target, kind |-> kind]]
        /\ Becomes(j, At("created", o, "planned"))
        /\ UNCHANGED <<up, disk, database, budget>>

(* Cancelled, or a check before the next irrevocable step failed.  A        *)
(* cancelled recovery leaves its record where it is.                       *)
Withdraw(j) ==
    /\ \/ job[j].pc = "created" /\ Goto(j, "unprepared")
       \/ job[j].pc = "ready" /\ j # Recovery /\ Goto(j, "discard")
       \/ j = Recovery /\ job[j].pc \in {"ready", "published", "advanced"} /\ Return(j)
    /\ UNCHANGED <<up, disk, journal, database, budget>>

CreatePrepared(j) ==
    LET o == job[j].op
    IN /\ job[j].pc = "created" /\ Free(journal[o].target)
       /\ RenameTo(o, Sibling(o))
       /\ Goto(j, "writing")
       /\ UNCHANGED <<up, content, journal, database, budget>>

(* Both kinds are whole and synced before they count as prepared; only the *)
(* artifact's directory is synced too.                                     *)
FinishPrepared(j) ==
    LET o == job[j].op
    IN /\ job[j].pc = "writing"
       /\ content' = [content EXCEPT ![o] = content[FileOf(o)]]
       /\ IF journal[o].kind = "artifact" THEN Sync(o) ELSE UNCHANGED limbo
       /\ Goto(j, "prepared")
       /\ UNCHANGED <<up, name, journal, database, budget>>

(* The copy or the preparer fails; its own cleanup may fail as well. *)
SpoilPrepared(j) ==
    LET o == job[j].op
    IN /\ job[j].pc = "writing"
       /\ \/ /\ Smooth /\ name' = [name EXCEPT ![o] = NoPath] /\ Sync(o)
          \/ Fault /\ (Unlink(o) \/ UNCHANGED <<name, limbo>>)
       /\ Goto(j, "unprepared")
       /\ UNCHANGED <<up, content, journal, database, crashes>>

(* Mutation: the failure is a rollback without looking at the names. *)
FinishUnseen(j) ==
    /\ job[j].pc = "unprepared"
    /\ Goto(j, "abort")
    /\ UNCHANGED <<up, disk, journal, database, budget>>

(* A failure before target_prepared is a rollback only if nothing is left. *)
FinishPlanned(j) ==
    /\ job[j].pc = "unprepared"
    /\ \/ Smooth /\ Goto(j, IF Intact(job[j].op) THEN "abort" ELSE "stuck")
       \/ Fault /\ Goto(j, "stuck")
    /\ UNCHANGED <<up, disk, journal, database, crashes>>

RecordPrepared(j) ==
    /\ job[j].pc = "prepared"
    /\ \/ /\ Write(j, "target_prepared")
          /\ Becomes(j, At("ready", job[j].op, "target_prepared"))
       \/ WriteFails(j, "target_prepared") /\ CleanUp(j, "discard")
    /\ UNCHANGED <<up, disk, database, crashes>>

Discard(j) ==
    LET o == job[j].op
    IN /\ job[j].pc = "discard"
       /\ \/ Smooth /\ Prepared(o) /\ Unlink(o) /\ Goto(j, "discarded")
          \/ (Fault \/ (Smooth /\ ~Prepared(o))) /\ UNCHANGED <<name, limbo>> /\ Goto(j, "stuck")
       /\ UNCHANGED <<up, content, journal, database, crashes>>

-------------------------------------------------------------------------------
(* Publication of the prepared file. *)

Rename(j) ==
    LET o == job[j].op
    IN /\ job[j].pc = "ready"
       /\ \/ /\ Prepared(o) /\ Free(journal[o].target)
             /\ RenameTo(o, journal[o].target) /\ Goto(j, "renamed")
          \/ /\ ~(Prepared(o) /\ Free(journal[o].target)) /\ UNCHANGED <<name, limbo>>
             /\ Goto(j, IF j = Recovery THEN "stuck" ELSE "discard")
       /\ UNCHANGED <<up, content, journal, database, budget>>

(* Mutation: the directory of the target is not synced. *)
SyncNothing(j) ==
    /\ job[j].pc = "renamed"
    /\ Goto(j, IF Published(job[j].op) THEN "synced" ELSE "retract")
    /\ UNCHANGED <<up, disk, journal, database, budget>>

SyncTarget(j) ==
    LET o == job[j].op
    IN /\ job[j].pc = "renamed"
       /\ \/ Smooth /\ Sync(o)
             /\ Goto(j, IF Published(o) THEN "synced"
                        ELSE IF j = Recovery THEN "stuck" ELSE "retract")
          \/ Fault /\ UNCHANGED limbo /\ CleanUp(j, "retract")
       /\ UNCHANGED <<up, name, content, journal, database, crashes>>

Publish(j) ==
    /\ job[j].pc = "synced"
    /\ \/ /\ Write(j, "target_published")
          /\ Becomes(j, At("published", job[j].op, "target_published"))
       \/ WriteFails(j, "target_published") /\ CleanUp(j, "retract")
    /\ UNCHANGED <<up, disk, database, crashes>>

(* Mutation: a failed committer does not stop the publication. *)
CommitRegardless(j) ==
    /\ job[j].pc = "published"
    /\ (Relocate(job[j].op) /\ Smooth) \/ RelocateFails(job[j].op)
    /\ Goto(j, "committed")
    /\ UNCHANGED <<up, disk, journal, crashes>>

CommitDependents(j) ==
    /\ job[j].pc = "published"
    /\ \/ Relocate(job[j].op) /\ Smooth /\ Goto(j, "committed")
       \/ RelocateFails(job[j].op) /\ Goto(j, "retract")
    /\ UNCHANGED <<up, disk, journal, crashes>>

(* rollback_locked_cross_filesystem_target refuses without the source. *)
Retract(j) ==
    LET o == job[j].op
    IN /\ job[j].pc = "retract"
       /\ \/ Smooth /\ Published(o) /\ Unlink(o) /\ Goto(j, "retracted")
          \/ (Fault \/ (Smooth /\ ~Published(o))) /\ UNCHANGED <<name, limbo>> /\ Goto(j, "stuck")
       /\ UNCHANGED <<up, content, journal, database, crashes>>

VerifyTarget(j) ==
    /\ job[j].pc = "committed"
    /\ \/ Smooth /\ Goto(j, IF Published(job[j].op) THEN "verified" ELSE "stuck")
       \/ Fault /\ Goto(j, "stuck")
    /\ UNCHANGED <<up, disk, journal, database, crashes>>

RecordDependents(j) ==
    /\ job[j].pc = "verified"
    /\ \/ /\ Write(j, "dependent_state_committed")
          /\ Becomes(j, At("advanced", job[j].op, "dependent_state_committed"))
       \/ WriteFails(j, "dependent_state_committed") /\ Return(j)
    /\ UNCHANGED <<up, disk, database, crashes>>

-------------------------------------------------------------------------------
(* Removal of the source. *)

(* A failure leaves the record for the next recovery. *)
RemoveSource(j) ==
    LET o == job[j].op
    IN /\ job[j].pc = "advanced"
       /\ \/ Smooth /\ Published(o) /\ Unlink(FileOf(o)) /\ Goto(j, "unlinked")
          \/ (Fault \/ (Smooth /\ ~Published(o))) /\ UNCHANGED <<name, limbo>> /\ Return(j)
       /\ UNCHANGED <<up, content, journal, database, crashes>>

(* Every removal is followed by an fsync of the directory. *)
SyncRemoval(j) ==
    LET o == job[j].op
        pc == job[j].pc
    IN /\ pc \in {"discarded", "retracted", "unlinked"}
       /\ \/ /\ Smooth /\ Sync(IF pc = "unlinked" THEN FileOf(o) ELSE o)
             /\ Goto(j, IF pc = "unlinked" THEN "removed" ELSE "abort")
          \/ /\ Fault /\ UNCHANGED limbo
             /\ IF pc = "unlinked" THEN Return(j) ELSE Goto(j, "stuck")
       /\ UNCHANGED <<up, name, content, journal, database, crashes>>

RecordRemoval(j) ==
    /\ job[j].pc = "removed"
    /\ \/ /\ Delivered(job[j].op) /\ Write(j, "source_removed")
          /\ Becomes(j, At("finishing", job[j].op, "source_removed"))
       \/ Delivered(job[j].op) /\ WriteFails(j, "source_removed") /\ Return(j)
       \/ ~Delivered(job[j].op) /\ UNCHANGED <<journal, faults>> /\ Goto(j, "stuck")
    /\ UNCHANGED <<up, disk, database, crashes>>

(* The recovery looks once more before it completes. *)
Complete(j) ==
    LET certain == j = Recovery => Delivered(job[j].op)
    IN /\ job[j].pc = "finishing"
       /\ \/ certain /\ Write(j, "complete") /\ Done(j)
          \/ certain /\ WriteFails(j, "complete") /\ Return(j)
          \/ ~certain /\ UNCHANGED <<journal, faults>> /\ Goto(j, "stuck")
       /\ UNCHANGED <<up, disk, database, crashes>>

(* The failure is recorded; when even that fails the record stays as it is. *)
Fail(j) ==
    /\ job[j].pc \in {"abort", "stuck"}
    /\ LET to == IF job[j].pc = "abort" THEN "rolled_back" ELSE "needs_reconciliation"
       IN \/ Write(j, to) /\ Done(j)
          \/ WriteFails(j, to) /\ Return(j)
    /\ UNCHANGED <<up, disk, database, crashes>>

-------------------------------------------------------------------------------
(* Startup recovery: the incomplete records in rowid order. *)

NextPending(o) ==
    LET cursor == job[Recovery].op
    IN /\ o > cursor /\ Pending(o)
       /\ \A q \in Ops : cursor < q /\ q < o => ~Pending(q)

(* An unrecorded sibling is adopted only if it equals the source. *)
Adoptable(o) ==
    /\ SourceInPlace(o) /\ Prepared(o) /\ Free(journal[o].target)
    /\ journal[o].kind = "copy" /\ content[o] = content[FileOf(o)]

(* Where a record resumes, from the names observed under the files' locks. *)
Resume(o) ==
    LET state == journal[o].state
    IN CASE state = "planned" /\ Intact(o) -> "abort"
         [] state = "planned" /\ Adoptable(o) -> "adopt"
         [] state = "target_prepared" /\ Intact(o) -> "abort"
         [] state = "target_prepared" /\ SourceInPlace(o) /\ Prepared(o)
               /\ Free(journal[o].target) -> "ready"
         [] state = "target_prepared" /\ Published(o) -> "synced"
         [] state = "target_published" /\ Published(o) -> "published"
         [] state = "dependent_state_committed" /\ Published(o) -> "advanced"
         [] state = "dependent_state_committed" /\ Delivered(o) -> "removed"
         [] state = "source_removed" /\ Delivered(o) -> "finishing"
         [] OTHER -> "stuck"

Inspect ==
    /\ job[Recovery].pc = "scan"
    /\ \E o \in Ops :
          /\ NextPending(o)
          /\ \/ Smooth /\ Becomes(Recovery, At(Resume(o), o, journal[o].state))
             \/ Fault /\ Becomes(Recovery, At("stuck", o, journal[o].state))
    /\ UNCHANGED <<up, disk, journal, database, crashes>>

(* The adopted copy and its directory are synced. *)
Adopt(j) ==
    /\ job[j].pc = "adopt"
    /\ \/ Smooth /\ Sync(job[j].op) /\ Goto(j, "prepared")
       \/ Fault /\ UNCHANGED limbo /\ Goto(j, "stuck")
    /\ UNCHANGED <<up, name, content, journal, database, crashes>>

EndRecovery ==
    /\ job[Recovery].pc = "scan"
    /\ \A o \in Ops : o > job[Recovery].op => ~Pending(o)
    /\ Return(Recovery)
    /\ UNCHANGED <<up, disk, journal, database, budget>>

-------------------------------------------------------------------------------
Execute(j) ==
    \/ Withdraw(j) \/ CreatePrepared(j) \/ FinishPrepared(j) \/ SpoilPrepared(j)
    \/ FinishPlanned(j) \/ RecordPrepared(j) \/ Discard(j) \/ Rename(j) \/ SyncTarget(j)
    \/ Publish(j) \/ CommitDependents(j) \/ Retract(j) \/ VerifyTarget(j)
    \/ RecordDependents(j) \/ RemoveSource(j) \/ SyncRemoval(j) \/ RecordRemoval(j)
    \/ Complete(j) \/ Fail(j) \/ Adopt(j)

Next ==
    \/ Start \/ Close \/ Crash \/ Intrude
    \/ \E j \in Workers : Begin(j)
    \/ \E j \in Jobs : Execute(j)
    \/ Inspect \/ EndRecovery

Spec == Init /\ [][Next]_vars

-------------------------------------------------------------------------------
(* Properties. *)

TypeOK ==
    /\ up \in BOOLEAN
    /\ name \in [Files -> Names]
    /\ limbo \in [Files -> SUBSET Names]
    /\ content \in [Files -> Library \cup Strangers \cup {NoPath}]
    /\ journal \in [Ops -> Record \cup {Unused}]
    /\ refs \in [Items -> Occurrence]
    /\ relocated \subseteq Ops
    /\ job \in [Jobs -> [pc : PCs, op : Ops \cup {0}, known : States \cup {"none"}]]
    /\ faults \in 0..MaxFaults /\ crashes \in 0..MaxCrashes

(* At every moment each library item is whole under some name that a power *)
(* loss cannot take away: no crash, rollback or recovery removes the only  *)
(* copy before the other one is durable.                                   *)
OnlyCopySurvives ==
    \A item \in Library : \E f \in Files :
        content[f] = item /\ name[f] # NoPath /\ NoPath \notin limbo[f]

(* At every moment, and not only once an operation settles, a persisted    *)
(* occurrence names a path where its item can be read.                     *)
ReferencesNeverDangle ==
    \A i \in Items : refs[i].file \notin Strangers =>
        name[refs[i].file] = refs[i].path /\ content[refs[i].file] # NoPath

(* A later operation has taken over: it published the item of file f whole *)
(* under its own target before it removed f.                               *)
Carried(f) ==
    \E o \in Ops :
        /\ Exists(o) /\ FileOf(o) = f /\ content[o] = content[f]
        /\ journal[o].state \in {"dependent_state_committed", "source_removed",
                                 "complete", "needs_reconciliation"}

(* A settled operation leaves exactly one file.  Completed, the source is  *)
(* gone and the target holds the item whole; rolled back, the source is    *)
(* where it was and neither a prepared sibling nor a target stays behind;  *)
(* unless a later operation has carried on the file that remained.  And no *)
(* item of the library is ever without a file that holds it whole.         *)
ExactlyOneRemains ==
    /\ \A o \in Ops : Exists(o) =>
        /\ journal[o].state = "complete" =>
              /\ name[FileOf(o)] = NoPath /\ content[o] = content[FileOf(o)]
              /\ name[o] = journal[o].target \/ Carried(o)
        /\ journal[o].state = "rolled_back" =>
              /\ name[o] = NoPath
              /\ name[FileOf(o)] = journal[o].source \/ Carried(FileOf(o))
    /\ \A item \in Library : \E f \in Files : name[f] # NoPath /\ content[f] = item

===============================================================================
