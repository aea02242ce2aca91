--------------------------- MODULE RenamePublication ---------------------------
(***************************************************************************)
(* Journaled same-filesystem file publication: several workers rename      *)
(* library files, each behind its own journal record; the list database    *)
(* follows a published target; the process or the machine may stop         *)
(* between any two steps; a startup recovery then settles what was         *)
(* interrupted.  A completed publication can be undone by a linked reverse *)
(* record that runs through the same executor.                             *)
(*                                                                         *)
(* A file stands for one captured revision (device, inode, size, mtime).   *)
(* Strangers are files other programs drop on names they find free.        *)
(***************************************************************************)
EXTENDS Naturals, FiniteSets, PublicationJournal

CONSTANTS
    MaxOps,        \* number of journal records a behaviour can create
    Paths,         \* raw file names of one filesystem
    Library,       \* files Trackbench lists
    Strangers,     \* files other programs may create
    Items,         \* persisted list occurrences
    Workers,       \* threads that run one publication each
    Recovery,      \* the startup recovery job
    NoPath,        \* the name of a file that does not exist
    MaxFaults,     \* bound on failing system calls, writes and callbacks
    MaxCrashes,    \* bound on crashes
    CrashKinds,    \* subset of {"process", "power"}
    ReplayMayFail, \* may the callback fail for a record it already applied
    RetryUnsettled \* may a file be renamed again before its record is settled

Files == Library \cup Strangers
Ops == 1..MaxOps
Jobs == Workers \cup {Recovery}

ASSUME RenameAssumption ==
    /\ MaxOps \in Nat /\ MaxFaults \in Nat /\ MaxCrashes \in Nat
    /\ Library \cap Strangers = {}
    /\ Recovery \notin Workers
    /\ NoPath \notin Paths
    /\ CrashKinds \subseteq {"process", "power"}
    /\ ReplayMayFail \in BOOLEAN /\ RetryUnsettled \in BOOLEAN

VARIABLES
    up,        \* is the program running
    name,      \* file -> the name it is visible under
    limbo,     \* file -> other names a power loss may bring back
    journal,   \* operation -> its durable record, rowid order
    refs,      \* list occurrence -> persisted path and revision
    relocated, \* operations whose relocation row is committed
    job,       \* thread -> what it is doing
    faults,    \* failures injected so far
    crashes    \* crashes so far

vars == <<up, name, limbo, journal, refs, relocated, job, faults, crashes>>
disk == <<name, limbo>>
database == <<refs, relocated>>
budget == <<faults, crashes>>

Unused == [state |-> "none"]

Record ==
    [state : StatesOf(FALSE), file : Files, source : Paths, target : Paths,
     reverses : Ops \cup {0}]

Occurrence == [path : Paths, file : Files]

PCs == {"idle", "undo", "scan", "created", "checked", "renamed", "synced",
        "published", "committed", "verified", "advanced", "rollback",
        "restored", "abort", "stuck"}

Idle == [pc |-> "idle", op |-> 0, known |-> "none"]
Scan(cursor) == [pc |-> "scan", op |-> cursor, known |-> "none"]
At(pc, o, known) == [pc |-> pc, op |-> o, known |-> known]

-------------------------------------------------------------------------------
(* What a step can see. *)

Free(p) == \A f \in Files : name[f] # p
FileOf(o) == journal[o].file
Moved(o) == name[FileOf(o)] = journal[o].target /\ Free(journal[o].source)
Unmoved(o) == name[FileOf(o)] = journal[o].source /\ Free(journal[o].target)

Exists(o) == journal[o] # Unused
Finished(o) == Exists(o) /\ journal[o].state \in Settled
Closed(o) == Exists(o) /\ journal[o].state \in Final
Pending(o) == Exists(o) /\ journal[o].state \notin Final

(* A job past its admission keeps an advisory lock on its file. *)
Running(j) == job[j].pc \notin {"idle", "undo", "scan"}
NeverLocked(f) == FALSE \* mutation: the executor forgets flock

Locked(f) == \E j \in Jobs : Running(j) /\ FileOf(job[j].op) = f

NextRow(o) ==
    /\ ~Exists(o)
    /\ \A q \in Ops : q < o => Exists(q)

Recovering == job[Recovery].pc # "idle"

-------------------------------------------------------------------------------
(* How a step can end. *)

Fault == faults < MaxFaults /\ faults' = faults + 1
Smooth == UNCHANGED faults

Becomes(j, thread) == job' = [job EXCEPT ![j] = thread]
Goto(j, pc) == Becomes(j, [job[j] EXCEPT !.pc = pc])

(* A worker returns; the recovery goes on with its next record. *)
Done(j) == Becomes(j, IF j = Recovery THEN Scan(job[j].op) ELSE Idle)

(* The journal accepts a write only from the state the writer knows. *)
Accepts(j, to) ==
    /\ journal[job[j].op].state = job[j].known
    /\ LegalTransition(FALSE, job[j].known, to)

Write(j, to) ==
    /\ Accepts(j, to) /\ Smooth
    /\ journal' = [journal EXCEPT ![job[j].op].state = to]

WriteFails(j, to) ==
    /\ Fault \/ (~Accepts(j, to) /\ Smooth)
    /\ UNCHANGED journal

RenameTo(f, p) ==
    /\ name' = [name EXCEPT ![f] = p]
    /\ limbo' = [limbo EXCEPT ![f] = (@ \cup {name[f]}) \ {p}]

Sync(f) == limbo' = [limbo EXCEPT ![f] = {}]

-------------------------------------------------------------------------------
(* The dependent-state committer: one transaction over every occurrence,   *)
(* keyed by the operation, so that a repeated call finds its own row.      *)

Occurrences(p) == {i \in Items : refs[i].path = p}

Owned(o, p) ==
    /\ Occurrences(p) # {}
    /\ \A i \in Occurrences(p) : refs[i].file = FileOf(o)

CanRelocate(o) ==
    LET source == journal[o].source
        target == journal[o].target
    IN \/ Owned(o, source) /\ Occurrences(target) = {}
       \/ Occurrences(source) = {} /\ Owned(o, target)

(* Mutation: the new reference is left unbound in the UPDATE. *)
RelocateUnbound(o) ==
    /\ relocated' = relocated \cup {o}
    /\ refs' = [i \in Items |->
                  IF refs[i].path = journal[o].source
                    THEN [refs[i] EXCEPT !.path = NoPath] ELSE refs[i]]

Relocate(o) ==
    \/ o \in relocated /\ UNCHANGED database
    \/ /\ o \notin relocated /\ CanRelocate(o)
       /\ relocated' = relocated \cup {o}
       /\ refs' = [i \in Items |->
                     IF refs[i].path = journal[o].source
                       THEN [refs[i] EXCEPT !.path = journal[o].target]
                       ELSE refs[i]]

RelocateFails(o) ==
    /\ UNCHANGED database
    /\ \/ o \notin relocated /\ ~CanRelocate(o) /\ Smooth
       \/ (o \in relocated => ReplayMayFail) /\ Fault

-------------------------------------------------------------------------------
Init ==
    /\ up = FALSE
    /\ name \in [Files -> Paths \cup {NoPath}]
    /\ \A f \in Library : name[f] # NoPath
    /\ \A f \in Strangers : name[f] = NoPath
    /\ \A f, g \in Library : f # g => name[f] # name[g]
    /\ limbo = [f \in Files |-> {}]
    /\ journal = [o \in Ops |-> Unused]
    /\ refs \in [Items -> Occurrence]
    /\ \A i \in Items : refs[i].file \in Library => refs[i].path = name[refs[i].file]
    /\ relocated = {}
    /\ job = [j \in Jobs |-> Idle]
    /\ faults = 0 /\ crashes = 0

(* Startup opens the window and starts the recovery job. *)
Start ==
    /\ ~up /\ up' = TRUE
    /\ Becomes(Recovery, Scan(0))
    /\ UNCHANGED <<disk, journal, database, budget>>

(* Closing waits for running publications and cancels the recovery. *)
Close ==
    /\ up /\ up' = FALSE
    /\ \A j \in Workers : job[j].pc = "idle"
    /\ job[Recovery].pc \in {"idle", "scan"}
    /\ Becomes(Recovery, Idle)
    /\ UNCHANGED <<disk, journal, database, budget>>

Crash ==
    /\ up /\ crashes < MaxCrashes
    /\ up' = FALSE /\ crashes' = crashes + 1
    /\ job' = [j \in Jobs |-> Idle]
    /\ \/ "process" \in CrashKinds /\ UNCHANGED disk
       \/ /\ "power" \in CrashKinds
          /\ name' \in [Files -> Paths \cup {NoPath}]
          /\ \A f \in Files : name'[f] \in {name[f]} \cup limbo[f]
          /\ \A f, g \in Files : f # g /\ name'[f] = name'[g] => name'[f] = NoPath
          /\ limbo' = [f \in Files |-> {}]
    /\ UNCHANGED <<journal, database, faults>>

(* Another program creates a file under a name it finds free. *)
Intrude ==
    \E f \in Strangers, p \in Paths :
        /\ name[f] = NoPath /\ Free(p)
        /\ name' = [name EXCEPT ![f] = p]
        /\ UNCHANGED <<up, limbo, journal, database, job, budget>>

-------------------------------------------------------------------------------
(* Admission: everything the executor checks under the lock before its     *)
(* record exists, and the record itself.                                   *)

Create(j, o, f, target, reverses) ==
    /\ NextRow(o) /\ ~Locked(f) /\ Free(target)
    /\ journal' = [journal EXCEPT ![o] =
           [state |-> "planned", file |-> f, source |-> name[f],
            target |-> target, reverses |-> reverses]]
    /\ Becomes(j, At("created", o, "planned"))

(* The user acts on a file again only once its last record is settled, or  *)
(* while its job still runs, when the lock decides: no rule of the code,   *)
(* and lifted where RetryUnsettled.                                        *)
Retriable(f) ==
    \/ RetryUnsettled
    \/ \A q \in Ops : Pending(q) /\ FileOf(q) = f => \E j \in Jobs : Running(j) /\ job[j].op = q

Begin(j) ==
    \E o \in Ops, f \in Library, target \in Paths :
        /\ up /\ ~Recovering /\ job[j].pc = "idle"
        /\ \E i \in Items : refs[i] = [path |-> name[f], file |-> f]
        /\ Retriable(f)
        /\ Create(j, o, f, target, 0)
        /\ UNCHANGED <<up, disk, database, budget>>

Reversals(o) == {q \in Ops : Exists(q) /\ journal[q].reverses = o}

(* The reversals are read before the file is locked. *)
LoadUndo(j) ==
    \E o \in Ops :
        /\ up /\ ~Recovering /\ job[j].pc = "idle"
        /\ Exists(o) /\ journal[o].state = "complete" /\ journal[o].reverses = 0
        /\ \A q \in Reversals(o) : journal[q].state = "rolled_back"
        /\ Retriable(FileOf(o))
        /\ Becomes(j, At("undo", o, "none"))
        /\ UNCHANGED <<up, disk, journal, database, budget>>

CreateUndo(j) ==
    LET original == job[j].op
        f == FileOf(original)
    IN /\ job[j].pc = "undo" /\ Moved(original)
       /\ \E o \in Ops : Create(j, o, f, journal[original].source, original)
       /\ UNCHANGED <<up, disk, database, budget>>

(* Cancelled while it waited for the lock, or a check under it failed. *)
GiveUpUndo(j) ==
    /\ job[j].pc = "undo"
    /\ Becomes(j, Idle)
    /\ UNCHANGED <<up, disk, journal, database, budget>>

-------------------------------------------------------------------------------
(* Execution of an admitted rename. *)

(* Cancellation, a missing directory that cannot be created, a changed     *)
(* device: the rename is given up before it happens.                       *)
Withdraw(j) ==
    /\ job[j].pc \in {"created", "checked"}
    /\ Goto(j, "abort")
    /\ UNCHANGED <<up, disk, journal, database, budget>>

Check(j) ==
    /\ job[j].pc = "created"
    /\ Goto(j, IF Unmoved(job[j].op) THEN "checked" ELSE "abort")
    /\ UNCHANGED <<up, disk, journal, database, budget>>

(* Mutation: an ordinary overwriting rename. *)
RenameOver(j) ==
    /\ job[j].pc = "checked"
    /\ RenameTo(FileOf(job[j].op), journal[job[j].op].target)
    /\ Goto(j, "renamed")
    /\ UNCHANGED <<up, journal, database, budget>>

Rename(j) ==
    LET o == job[j].op
    IN /\ job[j].pc = "checked"
       /\ \/ /\ Unmoved(o) /\ RenameTo(FileOf(o), journal[o].target)
             /\ Goto(j, "renamed")
          \/ ~Unmoved(o) /\ UNCHANGED disk /\ Goto(j, "abort")
       /\ UNCHANGED <<up, journal, database, budget>>

(* Mutation: the parent directories are not synced. *)
SyncNothing(j) ==
    /\ job[j].pc = "renamed"
    /\ Goto(j, IF Moved(job[j].op) THEN "synced" ELSE "rollback")
    /\ UNCHANGED <<up, disk, journal, database, budget>>

SyncTarget(j) ==
    LET o == job[j].op
    IN /\ job[j].pc = "renamed"
       /\ \/ Smooth /\ Sync(FileOf(o)) /\ Goto(j, IF Moved(o) THEN "synced" ELSE "rollback")
          \/ Fault /\ UNCHANGED limbo /\ Goto(j, "rollback")
       /\ UNCHANGED <<up, name, journal, database, crashes>>

(* Only the executor renames back when the journal refuses; the recovery   *)
(* ends with the error.                                                    *)
Publish(j) ==
    /\ job[j].pc = "synced"
    /\ \/ /\ Write(j, "target_published")
          /\ Becomes(j, At("published", job[j].op, "target_published"))
       \/ /\ WriteFails(j, "target_published")
          /\ IF j = Recovery THEN Becomes(j, Idle) ELSE Goto(j, "rollback")
    /\ UNCHANGED <<up, disk, database, crashes>>

(* Mutation: a refused relocation is recorded but the file stays moved. *)
CommitWithoutRollBack(j) ==
    /\ job[j].pc = "published"
    /\ \/ Relocate(job[j].op) /\ Smooth /\ Goto(j, "committed")
       \/ RelocateFails(job[j].op) /\ Goto(j, "abort")
    /\ UNCHANGED <<up, disk, journal, crashes>>

CommitDependents(j) ==
    /\ job[j].pc = "published"
    /\ \/ Relocate(job[j].op) /\ Smooth /\ Goto(j, "committed")
       \/ RelocateFails(job[j].op) /\ Goto(j, "rollback")
    /\ UNCHANGED <<up, disk, journal, crashes>>

VerifyTarget(j) ==
    /\ job[j].pc = "committed"
    /\ \/ Smooth /\ Goto(j, IF Moved(job[j].op) THEN "verified" ELSE "stuck")
       \/ Fault /\ Goto(j, "stuck")
    /\ UNCHANGED <<up, disk, journal, database, crashes>>

(* Mutation: a refused write after the commit renames the file back. *)
RollBackAfterCommit(j) ==
    /\ job[j].pc = "verified"
    /\ \/ /\ Write(j, "dependent_state_committed")
          /\ Becomes(j, At("advanced", job[j].op, "dependent_state_committed"))
       \/ WriteFails(j, "dependent_state_committed") /\ Goto(j, "rollback")
    /\ UNCHANGED <<up, disk, database, crashes>>

(* A refused write after the commit leaves the target for the recovery. *)
RecordDependents(j) ==
    /\ job[j].pc = "verified"
    /\ \/ /\ Write(j, "dependent_state_committed")
          /\ Becomes(j, At("advanced", job[j].op, "dependent_state_committed"))
       \/ WriteFails(j, "dependent_state_committed") /\ Becomes(j, Idle)
    /\ UNCHANGED <<up, disk, database, crashes>>

Complete(j) ==
    /\ job[j].pc = "advanced"
    /\ \/ Write(j, "complete") /\ Done(j)
       \/ WriteFails(j, "complete") /\ Becomes(j, Idle)
    /\ UNCHANGED <<up, disk, database, crashes>>

(* Mutation: the rollback waits until the source name is free again. *)
RollBackWaits(j) ==
    LET o == job[j].op
    IN /\ job[j].pc = "rollback"
       /\ \/ /\ Moved(o) /\ Smooth /\ RenameTo(FileOf(o), journal[o].source)
             /\ Goto(j, "restored")
          \/ Fault /\ UNCHANGED disk /\ Goto(j, "stuck")
       /\ UNCHANGED <<up, journal, database, crashes>>

(* rollback_rename refuses unless the source name is free again. *)
RollBack(j) ==
    LET o == job[j].op
    IN /\ job[j].pc = "rollback"
       /\ \/ /\ Moved(o) /\ Smooth /\ RenameTo(FileOf(o), journal[o].source)
             /\ Goto(j, "restored")
          \/ ~Moved(o) /\ Smooth /\ UNCHANGED disk /\ Goto(j, "stuck")
          \/ Fault /\ UNCHANGED disk /\ Goto(j, "stuck")
       /\ UNCHANGED <<up, journal, database, crashes>>

SyncSource(j) ==
    LET o == job[j].op
    IN /\ job[j].pc = "restored"
       /\ \/ Smooth /\ Sync(FileOf(o)) /\ Goto(j, IF Unmoved(o) THEN "abort" ELSE "stuck")
          \/ Fault /\ UNCHANGED limbo /\ Goto(j, "stuck")
       /\ UNCHANGED <<up, name, journal, database, crashes>>

(* Mutation: the recovery goes on after a write the journal refused. *)
FailAndGoOn(j) ==
    /\ job[j].pc \in {"abort", "stuck"}
    /\ LET to == IF job[j].pc = "abort" THEN "rolled_back" ELSE "needs_reconciliation"
       IN (Write(j, to) \/ WriteFails(j, to)) /\ Done(j)
    /\ UNCHANGED <<up, disk, database, crashes>>

(* The failure is recorded; when even that fails the record stays as it is. *)
Fail(j) ==
    /\ job[j].pc \in {"abort", "stuck"}
    /\ LET to == IF job[j].pc = "abort" THEN "rolled_back" ELSE "needs_reconciliation"
       IN \/ Write(j, to) /\ Done(j)
          \/ WriteFails(j, to) /\ Becomes(j, Idle)
    /\ UNCHANGED <<up, disk, database, crashes>>

-------------------------------------------------------------------------------
(* Startup recovery: the incomplete records in rowid order. *)

NextPending(o) ==
    LET cursor == job[Recovery].op
    IN /\ o > cursor /\ Pending(o)
       /\ \A q \in Ops : cursor < q /\ q < o => ~Pending(q)

(* Mutation: references follow before the journal shows the target. *)
ResumeUnrecorded(o) ==
    LET state == journal[o].state
    IN CASE Unmoved(o) /\ state = "planned" -> "abort"
         [] Moved(o) /\ state \in {"planned", "target_published"} -> "published"
         [] Moved(o) /\ state = "dependent_state_committed" -> "advanced"
         [] OTHER -> "stuck"

(* Where a record resumes, from the names observed under the file's lock. *)
Resume(o) ==
    LET state == journal[o].state
    IN CASE Unmoved(o) /\ state = "planned" -> "abort"
         [] Moved(o) /\ state = "planned" -> "synced"
         [] Moved(o) /\ state = "target_published" -> "published"
         [] Moved(o) /\ state = "dependent_state_committed" -> "advanced"
         [] OTHER -> "stuck"

Inspect ==
    /\ job[Recovery].pc = "scan"
    /\ \E o \in Ops :
          /\ NextPending(o)
          /\ \/ Smooth /\ Becomes(Recovery, At(Resume(o), o, journal[o].state))
             \/ Fault /\ Becomes(Recovery, At("stuck", o, journal[o].state))
    /\ UNCHANGED <<up, disk, journal, database, crashes>>

EndRecovery ==
    /\ job[Recovery].pc = "scan"
    /\ \A o \in Ops : o > job[Recovery].op => ~Pending(o)
    /\ Becomes(Recovery, Idle)
    /\ UNCHANGED <<up, disk, journal, database, budget>>

-------------------------------------------------------------------------------
Execute(j) ==
    \/ Withdraw(j) \/ Check(j) \/ Rename(j) \/ SyncTarget(j) \/ Publish(j)
    \/ CommitDependents(j) \/ VerifyTarget(j) \/ RecordDependents(j)
    \/ Complete(j) \/ RollBack(j) \/ SyncSource(j) \/ Fail(j)

Advance(j) == Execute(j) \/ CreateUndo(j) \/ GiveUpUndo(j)

Recover == Inspect \/ EndRecovery \/ Execute(Recovery)

Next ==
    \/ Start \/ Close \/ Crash \/ Intrude
    \/ \E j \in Workers : Begin(j) \/ LoadUndo(j) \/ CreateUndo(j) \/ GiveUpUndo(j)
    \/ \E j \in Jobs : Execute(j)
    \/ Inspect \/ EndRecovery

Spec == Init /\ [][Next]_vars

(* A thread that was given a publication, and the recovery, keep running. *)
FairSpec ==
    /\ Spec
    /\ WF_vars(Recover)
    /\ \A j \in Workers : WF_vars(Advance(j))

-------------------------------------------------------------------------------
(* Properties. *)

TypeOK ==
    /\ up \in BOOLEAN
    /\ name \in [Files -> Paths \cup {NoPath}]
    /\ limbo \in [Files -> SUBSET (Paths \cup {NoPath})]
    /\ journal \in [Ops -> Record \cup {Unused}]
    /\ refs \in [Items -> Occurrence]
    /\ relocated \subseteq Ops
    /\ job \in [Jobs -> [pc : PCs, op : Ops \cup {0}, known : States \cup {"none"}]]
    /\ faults \in 0..MaxFaults /\ crashes \in 0..MaxCrashes

(* No publication, rollback or undo ever replaces a file: two files are    *)
(* never under one name, whoever else creates files meanwhile.             *)
OneFilePerName ==
    \A f, g \in Files : f # g /\ name[f] = name[g] => name[f] = NoPath

(* The advisory lock works: while a job runs, its file is under the name   *)
(* the job last gave it, so that no rollback moves somebody else's work.   *)
JobTracksFile ==
    \A j \in Jobs : Running(j) =>
        LET o == job[j].op
        IN /\ job[j].pc \in {"created", "checked", "restored", "abort"}
                  => name[FileOf(o)] = journal[o].source
           /\ job[j].pc \in {"renamed", "synced", "published", "committed",
                             "verified", "advanced", "rollback"}
                  => name[FileOf(o)] = journal[o].target

(* When every publication of a file has completed or rolled back, all its  *)
(* list occurrences name the path the file is really under.                *)
SettledAgreement ==
    \A i \in Items :
        LET f == refs[i].file
        IN f \in Library
           /\ (\A o \in Ops : Exists(o) /\ FileOf(o) = f => journal[o].state \in Settled)
           => refs[i].path = name[f]

(* A publication records target_published only for a name that a power     *)
(* loss can no longer take back.  A recovery may find the name in place    *)
(* and records it as it is.                                                *)
PublishedIsDurable ==
    [][\A o \in Ops :
          Exists(o) /\ ~Recovering /\ journal[o].state = "planned"
          /\ journal'[o].state = "target_published" => limbo[FileOf(o)] = {}]_vars

(* References move only for an operation whose published target is already *)
(* evident in the journal and on disk.                                     *)
EvidenceBeforeReferences ==
    [][refs' # refs => \E o \in Ops :
          /\ relocated' = relocated \cup {o} /\ journal[o].state = "target_published"
          /\ name[FileOf(o)] = journal[o].target]_vars

(* A recovery that reaches its end leaves no record half-way: each is      *)
(* complete, rolled back or presented for reconciliation.                  *)
RecoverySettles == [][EndRecovery => \A o \in Ops : ~Pending(o)]_vars

(* The publication as the lists see it; an undo is an operation of its own. *)
Verdict(o) ==
    IF ~Exists(o) THEN "none"
    ELSE IF journal[o].state = "rolled_back" THEN "given up"
    ELSE IF journal[o].state = "needs_reconciliation" THEN "unresolved"
    ELSE IF o \in relocated THEN "done" ELSE "open"

Plan(o) ==
    IF Exists(o) THEN [source |-> journal[o].source, target |-> journal[o].target]
    ELSE [source |-> NoPath, target |-> NoPath]

ShowTarget(o, plan, view) ==
    [i \in Items |-> IF view[i].path = plan.source
                       THEN [view[i] EXCEPT !.path = plan.target] ELSE view[i]]

Atomic == INSTANCE AtomicOperation WITH
    Operations <- Ops,
    Views <- [Items -> Occurrence],
    Effect <- ShowTarget,
    Reversal <- ShowTarget,
    verdict <- [o \in Ops |-> Verdict(o)],
    plan <- [o \in Ops |-> Plan(o)],
    view <- refs

(* Seen from the lists a publication happens in one step or not at all: an *)
(* interrupted, repeated or recovered one shows its effect once, never     *)
(* after it was given up, and is not given up once it shows.               *)
PublicationsAreAtomic == Atomic!Spec

(* A started recovery and every admitted publication come to an end, also  *)
(* when two of them want the same file.                                    *)
JobsEnd == \A j \in Jobs : job[j].pc # "idle" ~> job[j].pc = "idle"
===============================================================================
