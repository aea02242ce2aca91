---------------------------- MODULE MetadataCommit ----------------------------
(***************************************************************************)
(* The journaled rewrite of one file: a rewritten copy is prepared beside  *)
(* the source, a hard link keeps the old inode as a backup, one rename     *)
(* publishes the copy, the lists follow, and the record is completed.      *)
(* A failure after the rename exchanges the backup back.  Backups of       *)
(* completed operations may be undone until a startup expires them.        *)
(* The startup recovery, the undo of interrupted undos and the expiry run  *)
(* in one background job, while the user may already save again.           *)
(*                                                                         *)
(* All operations are on one source path.  A version is one inode with one *)
(* revision: 0 is the first, o is what operation o wrote, the others are   *)
(* what other programs wrote.                                              *)
(***************************************************************************)
EXTENDS Naturals, FiniteSets, Sequences

CONSTANTS
    MaxOps,         \* number of journal records a behaviour can create
    Foreign,        \* versions other programs may write
    Nothing,        \* no directory entry
    Workers,        \* threads that each save one file at a time
    Recovery,       \* the startup job
    Kinds,          \* subset of SaveKinds: which saves the user makes
    Undoes,         \* may a completed operation be undone
    AtomicExchange, \* does the filesystem know RENAME_EXCHANGE
    KeepBackups,    \* retention choices of the expiry, a set of BOOLEANs
    Moves,          \* may the program move the finished file elsewhere
    MaxFaults,      \* bound on failing calls, refused writes, cancellations
    MaxCrashes,     \* bound on crashes
    CrashKinds      \* subset of {"process", "power"}

Ops == 1..MaxOps
Jobs == Workers \cup {Recovery}
Versions == {0} \cup Ops \cup Foreign

(* A tag save of text only, a tag save with a picture, a cover save. *)
SaveKinds == {"text", "combined", "cover"}

ASSUME MetadataAssumption ==
    /\ MaxOps \in Nat /\ MaxFaults \in Nat /\ MaxCrashes \in Nat
    /\ Foreign \cap ({0} \cup Ops) = {}
    /\ Nothing \notin Versions
    /\ Recovery \notin Workers
    /\ Kinds \subseteq SaveKinds
    /\ KeepBackups \subseteq BOOLEAN
    /\ {Undoes, AtomicExchange, Moves} \subseteq BOOLEAN
    /\ CrashKinds \subseteq {"process", "power"}

VARIABLES
    up,        \* is the program running and not closing
    dir,       \* directory entry -> the version it names
    possible,  \* the directories a power loss may leave
    journal,   \* operation -> its durable record, rowid order
    backups,   \* operation -> state of its backup row
    listed,    \* the version the list database describes
    refreshed, \* refreshes the list database has applied, by identity
    lapses,    \* history: operations taken back although the lists show
               \* them, or finished without their committer telling the lists
    loaded,    \* what the startup job has read: operation -> state
    job,       \* thread -> what it is doing
    faults,    \* failures so far
    crashes    \* crashes so far

vars == <<up, dir, possible, journal, backups, listed, refreshed, lapses, loaded, job, faults, crashes>>
disk == <<dir, possible>>
evidence == <<journal, backups>>
lists == <<listed, refreshed, lapses>>
budget == <<faults, crashes>>

(* The source, and the hidden siblings named by the journal id. *)
Source == <<"source", 0>>
Prepared(o) == <<"prepared", o>>
Backup(o) == <<"backup", o>>
Entries == {Source} \cup {Prepared(o) : o \in Ops} \cup {Backup(o) : o \in Ops}

Unused == [state |-> "none"]
JournalStates == {"planned", "prepared", "published",
                  "complete", "rolled_back", "needs_reconciliation"}
BackupStates == {"none", "retained", "undoing", "undone", "released", "needs_reconciliation"}
Settled == {"complete", "rolled_back"}
Record == [state : JournalStates, expected : Versions, kind : Kinds]

(* Identities under which the list database applies a refresh once. *)
SaveOf(o) == <<"save", o>>
UndoOf(o) == <<"undo", o>>

CommitPCs == {"created", "copied", "ready", "linked", "safe", "renamed", "synced", "published",
              "reread", "listed", "verified"}
CleanPCs == {"drop", "rollback", "exchanged", "parked", "unparked", "cleared", "abort", "stuck"}
UndoPCs == {"undoing", "swapped", "original", "relisted", "dropped", "takeback", "keep", "ambiguous"}
JobPCs == {"idle", "load", "scan", "undos", "expire", "opened", "release", "released", "doubt"}

Idle == [pc |-> "idle", op |-> 0, known |-> "none", todo |-> <<>>, ok |-> TRUE, saw |-> Nothing]
At(pc, o, known) == [Idle EXCEPT !.pc = pc, !.op = o, !.known = known]
Scan(pc, cursor) == At(pc, cursor, "none")
DropAt(o, known, entries) == [At("drop", o, known) EXCEPT !.todo = entries]

-------------------------------------------------------------------------------
(* What a step can see. *)

Exists(o) == journal[o] # Unused
Expected(o) == journal[o].expected
Links(v) == Cardinality({e \in Entries : dir[e] = v})

(* The version an entry must name before the program removes it. *)
Owner(o, e) == IF e = Prepared(o) THEN o ELSE Expected(o)

Published(o) == dir[Source] = o /\ dir[Backup(o)] = Expected(o)
SingleLinks(o) == Links(o) = 1 /\ Links(Expected(o)) = 1

(* A thread at work holds the locks of both inodes of its operation. *)
Engaged(j) == job[j].pc \in CommitPCs \cup CleanPCs \cup (UndoPCs \ {"undoing"})
Holds(j) == IF Engaged(j) THEN {job[j].op, Expected(job[j].op)} ELSE {}
LockedByOther(j, v) == \E k \in Jobs \ {j} : v \in Holds(k)

(* Closing the program cancels its startup job and waits for it. *)
Closing == ~up /\ job[Recovery].pc # "idle"
Cancelled(j) == j = Recovery /\ Closing

NextRow(o) == ~Exists(o) /\ \A q \in Ops : q < o => Exists(q)

-------------------------------------------------------------------------------
(* How a step can end. *)

Fault == faults < MaxFaults /\ faults' = faults + 1
Smooth == UNCHANGED faults

Becomes(j, thread) == job' = [job EXCEPT ![j] = thread]
Goto(j, pc) == Becomes(j, [job[j] EXCEPT !.pc = pc])
Return(j) == Becomes(j, Idle)

(* An operation is over: a worker returns, the startup job goes on. *)
Done(j) == Becomes(j, IF j = Recovery THEN Scan("scan", job[j].op) ELSE Idle)
DoneUndo(j) == Becomes(j, IF j = Recovery THEN Scan("undos", job[j].op) ELSE Idle)

(* A directory change, before and after the fsync of the directory. *)
Unsynced(d) == dir' = d /\ possible' = possible \cup {d}
Synced(d) == dir' = d /\ possible' = {d}

(* The journal accepts a write only from the state the writer knows. *)
LegalStep(from, to) ==
    \/ to \in {"rolled_back", "needs_reconciliation"}
    \/ <<from, to>> \in {<<"planned", "prepared">>, <<"prepared", "published">>,
                         <<"published", "complete">>}

Accepts(o, from, to) == journal[o].state = from /\ LegalStep(from, to)

(* Completing a record and retaining its backup is one transaction. *)
Write(o, from, to) ==
    /\ Accepts(o, from, to) /\ Smooth
    /\ journal' = [journal EXCEPT ![o].state = to]
    /\ backups' = IF to = "complete" THEN [backups EXCEPT ![o] = "retained"] ELSE backups

WriteFails(o, from, to) ==
    /\ Fault \/ (~Accepts(o, from, to) /\ Smooth)
    /\ UNCHANGED evidence

LegalBackupStep(from, to) ==
    \/ from = "retained" /\ to \in {"undoing", "released", "needs_reconciliation"}
    \/ from = "undoing" /\ to \in {"retained", "undone", "needs_reconciliation"}

WriteBackup(o, from, to) ==
    /\ backups[o] = from /\ LegalBackupStep(from, to) /\ Smooth
    /\ backups' = [backups EXCEPT ![o] = to]
    /\ UNCHANGED journal

WriteBackupFails(o, from, to) ==
    /\ Fault \/ (backups[o] # from /\ Smooth)
    /\ UNCHANGED evidence

(* The list database refreshes every occurrence of the path in one         *)
(* transaction, once for each identity.                                    *)
Refresh(id, v) ==
    /\ refreshed' = refreshed \cup {id}
    /\ listed' = IF id \in refreshed THEN listed ELSE v
    /\ UNCHANGED lapses

(* An operation is given up before the lists follow it, or after.          *)
GiveUp(o, id) ==
    /\ lapses' = IF id \in refreshed THEN lapses \cup {o} ELSE lapses
    /\ UNCHANGED <<listed, refreshed>>

-------------------------------------------------------------------------------
Init ==
    /\ up = FALSE
    /\ dir = [e \in Entries |-> IF e = Source THEN 0 ELSE Nothing]
    /\ possible = {dir}
    /\ journal = [o \in Ops |-> Unused]
    /\ backups = [o \in Ops |-> "none"]
    /\ listed = 0 /\ refreshed = {} /\ lapses = {}
    /\ loaded = [o \in Ops |-> "none"]
    /\ job = [j \in Jobs |-> Idle]
    /\ faults = 0 /\ crashes = 0

(* The startup job does not keep the user from saving tags. *)
Start ==
    /\ ~up /\ ~Closing /\ up' = TRUE
    /\ Becomes(Recovery, Scan("load", 0))
    /\ UNCHANGED <<disk, evidence, lists, loaded, budget>>

(* Closing waits for saves, then cancels the startup job. *)
Close ==
    /\ up /\ up' = FALSE
    /\ \A j \in Workers : job[j].pc = "idle"
    /\ UNCHANGED <<disk, evidence, lists, loaded, job, budget>>

Crash ==
    /\ up \/ Closing
    /\ crashes < MaxCrashes
    /\ up' = FALSE /\ crashes' = crashes + 1
    /\ job' = [j \in Jobs |-> Idle]
    /\ \/ "process" \in CrashKinds /\ UNCHANGED disk
       \/ /\ "power" \in CrashKinds
          /\ dir' \in possible /\ possible' = {dir'}
    /\ UNCHANGED <<evidence, lists, loaded, faults>>

Unseen(v) ==
    /\ v # listed
    /\ \A d \in possible : \A e \in Entries : d[e] # v
    /\ \A o \in Ops : Exists(o) => Expected(o) # v

(* Another program replaces the file or rewrites it in place; never        *)
(* between the last look at the source and the rename over it.             *)
Edit ==
    \E v \in Foreign :
        /\ Unseen(v) /\ dir[Source] # Nothing
        /\ \A j \in Jobs : job[j].pc # "safe"
        /\ \/ Unsynced([dir EXCEPT ![Source] = v])
           \/ Unsynced([e \in Entries |-> IF dir[e] = dir[Source] THEN v ELSE dir[e]])
        /\ UNCHANGED <<up, evidence, lists, loaded, job, budget>>

(* The program renames the finished file; its lists follow it. *)
Move ==
    /\ Moves /\ up /\ dir[Source] # Nothing
    /\ \A j \in Jobs : job[j].pc = "idle"
    /\ Synced([dir EXCEPT ![Source] = Nothing])
    /\ listed' = Nothing
    /\ UNCHANGED <<up, evidence, refreshed, lapses, loaded, job, budget>>

-------------------------------------------------------------------------------
(* A save. *)

(* A tag save waits for the recovery of an earlier operation on the file;  *)
(* a cover save does not ask.                                              *)
Admits(kind) ==
    kind # "cover" => \A q \in Ops : Exists(q) => journal[q].state \in Settled

Begin(j) ==
    LET v == dir[Source]
    IN \E o \in Ops, kind \in Kinds :
        /\ up /\ job[j].pc = "idle" /\ NextRow(o)
        /\ v # Nothing /\ Links(v) = 1 /\ ~LockedByOther(j, v)
        /\ Admits(kind)
        /\ journal' = [journal EXCEPT ![o] =
               [state |-> "planned", expected |-> v, kind |-> kind]]
        /\ Becomes(j, At("created", o, "planned"))
        /\ UNCHANGED <<up, disk, backups, lists, loaded, budget>>

(* A failed preparation removes its own copy. *)
Prepare(j) ==
    LET o == job[j].op
    IN /\ job[j].pc = "created"
       /\ \/ Smooth /\ Unsynced([dir EXCEPT ![Prepared(o)] = o]) /\ Goto(j, "copied")
          \/ Fault /\ UNCHANGED disk /\ Goto(j, "abort")
       /\ UNCHANGED <<up, evidence, lists, loaded, crashes>>

RecordPrepared(j) ==
    LET o == job[j].op
    IN /\ job[j].pc = "copied"
       /\ \/ Write(o, "planned", "prepared") /\ Becomes(j, At("ready", o, "prepared"))
          \/ /\ WriteFails(o, "planned", "prepared")
             /\ Becomes(j, DropAt(o, "planned", <<Prepared(o)>>))
       /\ UNCHANGED <<up, disk, lists, loaded, crashes>>

(* Cancellation is one of the faults. *)
LinkBackup(j) ==
    LET o == job[j].op
        current == dir[Source] = Expected(o)
    IN /\ job[j].pc = "ready"
       /\ \/ /\ current /\ Smooth
             /\ Unsynced([dir EXCEPT ![Backup(o)] = Expected(o)]) /\ Goto(j, "linked")
          \/ /\ Fault \/ (~current /\ Smooth)
             /\ UNCHANGED disk
             /\ Becomes(j, DropAt(o, "prepared", <<Prepared(o)>>))
       /\ UNCHANGED <<up, evidence, lists, loaded, crashes>>

ConfirmBackup(j) ==
    LET o == job[j].op
        kept == dir[Source] = Expected(o) /\ dir[Backup(o)] = Expected(o)
    IN /\ job[j].pc = "linked"
       /\ \/ kept /\ Smooth /\ possible' = {dir} /\ Goto(j, "safe")
          \/ /\ Fault \/ (~kept /\ Smooth)
             /\ UNCHANGED possible
             /\ Becomes(j, DropAt(o, "prepared", <<Backup(o), Prepared(o)>>))
       /\ UNCHANGED <<up, dir, evidence, lists, loaded, crashes>>

PublishCopy(j) ==
    LET o == job[j].op
    IN /\ job[j].pc = "safe"
       /\ \/ /\ Smooth /\ Goto(j, "renamed")
             /\ Unsynced([dir EXCEPT ![Source] = o, ![Prepared(o)] = Nothing])
          \/ /\ Fault /\ UNCHANGED disk
             /\ Becomes(j, DropAt(o, "prepared", <<Backup(o), Prepared(o)>>))
       /\ UNCHANGED <<up, evidence, lists, loaded, crashes>>

SyncSource(j) ==
    /\ job[j].pc = "renamed"
    /\ \/ /\ Smooth /\ possible' = {dir}
          /\ Goto(j, IF dir[Source] = job[j].op THEN "synced" ELSE "rollback")
       \/ Fault /\ UNCHANGED possible /\ Goto(j, "rollback")
    /\ UNCHANGED <<up, dir, evidence, lists, loaded, crashes>>

RecordPublished(j) ==
    LET o == job[j].op
    IN /\ job[j].pc = "synced"
       /\ \/ Write(o, "prepared", "published") /\ Becomes(j, At("published", o, "published"))
          \/ WriteFails(o, "prepared", "published") /\ Goto(j, "rollback")
       /\ UNCHANGED <<up, disk, lists, loaded, crashes>>

(* The published file is reread: an error, or the cancellation of the      *)
(* startup job, takes the copy back whatever the lists already show.       *)
Reread(j) ==
    LET o == job[j].op
    IN /\ job[j].pc = "published"
       /\ \/ dir[Source] = o /\ Smooth /\ UNCHANGED lists /\ Goto(j, "reread")
          \/ dir[Source] # o /\ Smooth /\ UNCHANGED lists /\ Goto(j, "rollback")
          \/ /\ Fault \/ (Cancelled(j) /\ Smooth)
             /\ GiveUp(o, SaveOf(o)) /\ Goto(j, "rollback")
       /\ UNCHANGED <<up, disk, evidence, loaded, crashes>>

(* The committers of tag saves and of the startup job pass over pictures.  *)
PassesOver(j, kind) == kind = "combined" \/ (kind = "cover" /\ j = Recovery)

CommitDependents(j) ==
    LET o == job[j].op
        skipped == PassesOver(j, journal[o].kind)
    IN /\ job[j].pc = "reread"
       /\ \/ ~skipped /\ Smooth /\ Refresh(SaveOf(o), o) /\ Goto(j, "listed")
          \/ ~skipped /\ Fault /\ GiveUp(o, SaveOf(o)) /\ Goto(j, "rollback")
          \/ /\ skipped /\ Smooth /\ Goto(j, "listed")
             /\ lapses' = IF SaveOf(o) \in refreshed THEN lapses ELSE lapses \cup {o}
             /\ UNCHANGED <<listed, refreshed>>
       /\ UNCHANGED <<up, disk, evidence, loaded, crashes>>

(* After the lists have followed nothing is rolled back any more. *)
CheckAgain(j) ==
    /\ job[j].pc = "listed"
    /\ \/ Smooth /\ Goto(j, IF dir[Source] = job[j].op THEN "verified" ELSE "stuck")
       \/ Fault /\ Goto(j, "stuck")
    /\ UNCHANGED <<up, disk, evidence, lists, loaded, crashes>>

(* The recovery may still have to record the publication. *)
Complete(j) ==
    LET o == job[j].op
        known == job[j].known
        to == IF known = "prepared" THEN "published" ELSE "complete"
    IN /\ job[j].pc = "verified"
       /\ \/ /\ Write(o, known, to)
             /\ IF to = "published" THEN Becomes(j, At("verified", o, to)) ELSE Done(j)
          \/ WriteFails(o, known, to) /\ Return(j)
       /\ UNCHANGED <<up, disk, lists, loaded, crashes>>

-------------------------------------------------------------------------------
(* What a failure leaves is removed, or the rename is taken back. *)

(* Mutation: an entry that could not be removed is forgotten. *)
DropCarelessly(j) ==
    LET o == job[j].op
        e == Head(job[j].todo)
        rest == [job[j] EXCEPT !.todo = Tail(job[j].todo)]
    IN /\ job[j].pc = "drop" /\ job[j].todo # <<>>
       /\ \/ dir[e] = Owner(o, e) /\ Smooth /\ Synced([dir EXCEPT ![e] = Nothing])
          \/ dir[e] # Owner(o, e) /\ Smooth /\ UNCHANGED disk
          \/ Fault /\ UNCHANGED disk
       /\ Becomes(j, rest)
       /\ UNCHANGED <<up, evidence, lists, loaded, crashes>>

(* unlink_if_matches: an absent entry is no failure, a strange one is kept. *)
Drop(j) ==
    LET o == job[j].op
        e == Head(job[j].todo)
        rest == [job[j] EXCEPT !.todo = Tail(job[j].todo)]
        removed == [dir EXCEPT ![e] = Nothing]
    IN /\ job[j].pc = "drop" /\ job[j].todo # <<>>
       /\ \/ dir[e] = Nothing /\ Smooth /\ UNCHANGED disk /\ Becomes(j, rest)
          \/ dir[e] = Owner(o, e) /\ Smooth /\ Synced(removed) /\ Becomes(j, rest)
          \/ /\ \/ dir[e] \notin {Nothing, Owner(o, e)} /\ Smooth /\ UNCHANGED disk
                \/ dir[e] = Owner(o, e) /\ Fault /\ (UNCHANGED disk \/ Unsynced(removed))
             /\ Becomes(j, [rest EXCEPT !.ok = FALSE])
       /\ UNCHANGED <<up, evidence, lists, loaded, crashes>>

Dropped(j) ==
    /\ job[j].pc = "drop" /\ job[j].todo = <<>>
    /\ Goto(j, IF job[j].ok THEN "abort" ELSE "stuck")
    /\ UNCHANGED <<up, disk, evidence, lists, loaded, budget>>

(* Mutation: the identities are not looked at again. *)
RollBackBlindly(j) ==
    LET o == job[j].op
    IN /\ job[j].pc = "rollback" /\ Smooth
       /\ \/ /\ AtomicExchange
             /\ Unsynced([dir EXCEPT ![Source] = dir[Backup(o)], ![Backup(o)] = dir[Source]])
             /\ Goto(j, "exchanged")
          \/ /\ ~AtomicExchange
             /\ Unsynced([dir EXCEPT ![Source] = Nothing, ![Prepared(o)] = dir[Source]])
             /\ Goto(j, "parked")
       /\ UNCHANGED <<up, evidence, lists, loaded, crashes>>

RollBack(j) ==
    LET o == job[j].op
        proven == Published(o) /\ SingleLinks(o)
    IN /\ job[j].pc = "rollback"
       /\ \/ /\ proven /\ AtomicExchange /\ Smooth
             /\ Unsynced([dir EXCEPT ![Source] = Expected(o), ![Backup(o)] = o])
             /\ Goto(j, "exchanged")
          \/ /\ proven /\ ~AtomicExchange /\ Smooth
             /\ Unsynced([dir EXCEPT ![Source] = Nothing, ![Prepared(o)] = o])
             /\ Goto(j, "parked")
          \/ /\ Fault \/ (~proven /\ Smooth)
             /\ UNCHANGED disk /\ Goto(j, "stuck")
       /\ UNCHANGED <<up, evidence, lists, loaded, crashes>>

(* Without an exchange the source has no name for a moment. *)
Unpark(j) ==
    LET o == job[j].op
    IN /\ job[j].pc = "parked"
       /\ \/ /\ Smooth /\ Goto(j, "unparked")
             /\ Unsynced([dir EXCEPT ![Source] = Expected(o), ![Backup(o)] = Nothing])
          \/ /\ Fault /\ Goto(j, "stuck")
             /\ \/ Unsynced([dir EXCEPT ![Source] = o, ![Prepared(o)] = Nothing])
                \/ UNCHANGED disk
       /\ UNCHANGED <<up, evidence, lists, loaded, crashes>>

RemoveFailed(j) ==
    LET o == job[j].op
        e == IF job[j].pc = "exchanged" THEN Backup(o) ELSE Prepared(o)
    IN /\ job[j].pc \in {"exchanged", "unparked"}
       /\ \/ Smooth /\ Unsynced([dir EXCEPT ![e] = Nothing]) /\ Goto(j, "cleared")
          \/ Fault /\ UNCHANGED disk /\ Goto(j, "stuck")
       /\ UNCHANGED <<up, evidence, lists, loaded, crashes>>

SyncRollBack(j) ==
    /\ job[j].pc = "cleared"
    /\ \/ /\ Smooth /\ possible' = {dir}
          /\ Goto(j, IF dir[Source] = Expected(job[j].op) THEN "abort" ELSE "stuck")
       \/ Fault /\ UNCHANGED possible /\ Goto(j, "stuck")
    /\ UNCHANGED <<up, dir, evidence, lists, loaded, crashes>>

(* Mutation: a refused write is tried again. *)
FailAgain(j) ==
    LET o == job[j].op
        to == IF job[j].pc = "abort" THEN "rolled_back" ELSE "needs_reconciliation"
    IN /\ job[j].pc \in {"abort", "stuck"}
       /\ Write(o, job[j].known, to) /\ Done(j)
       /\ UNCHANGED <<up, disk, lists, loaded, crashes>>

(* The failure is recorded; when even that fails the record stays as it is. *)
Fail(j) ==
    LET o == job[j].op
        to == IF job[j].pc = "abort" THEN "rolled_back" ELSE "needs_reconciliation"
    IN /\ job[j].pc \in {"abort", "stuck"}
       /\ \/ Write(o, job[j].known, to) /\ Done(j)
          \/ WriteFails(o, job[j].known, to) /\ Return(j)
       /\ UNCHANGED <<up, disk, lists, loaded, crashes>>

Save(j) ==
    \/ Prepare(j) \/ RecordPrepared(j) \/ LinkBackup(j) \/ ConfirmBackup(j)
    \/ PublishCopy(j) \/ SyncSource(j) \/ RecordPublished(j) \/ Reread(j)
    \/ CommitDependents(j) \/ CheckAgain(j) \/ Complete(j) \/ Drop(j) \/ Dropped(j) \/ RollBack(j)
    \/ Unpark(j) \/ RemoveFailed(j) \/ SyncRollBack(j) \/ Fail(j)

-------------------------------------------------------------------------------
(* Startup recovery of unfinished saves, from a list read once. *)

Load ==
    /\ job[Recovery].pc = "load"
    /\ loaded' = [o \in Ops |-> IF Exists(o) THEN journal[o].state ELSE "none"]
    /\ Becomes(Recovery, Scan("scan", 0))
    /\ UNCHANGED <<up, disk, evidence, lists, budget>>

Unfinished(o) == loaded[o] \in {"planned", "prepared", "published"}
Incomplete(o) == Unfinished(o) \/ loaded[o] = "needs_reconciliation"

NextUnfinished(o) ==
    /\ o > job[Recovery].op /\ Unfinished(o)
    /\ \A q \in Ops : job[Recovery].op < q /\ q < o => ~Unfinished(q)

(* Mutation: a source that names the copy is taken for published at once. *)
ResumeWithoutBackup(o) ==
    IF dir[Source] = Expected(o)
      THEN DropAt(o, loaded[o], <<Prepared(o), Backup(o)>>)
      ELSE IF dir[Source] = o THEN At("verified", o, loaded[o])
      ELSE At("stuck", o, loaded[o])

(* Where an operation resumes, from what the directory shows. *)
Resume(o) ==
    IF dir[Source] = Expected(o)
      THEN DropAt(o, loaded[o], <<Prepared(o), Backup(o)>>)
      ELSE IF Published(o) /\ loaded[o] # "planned" THEN At("published", o, loaded[o])
      ELSE At("stuck", o, loaded[o])

Inspect ==
    /\ job[Recovery].pc = "scan"
    /\ \E o \in Ops :
          /\ NextUnfinished(o)
          /\ ~LockedByOther(Recovery, Expected(o)) /\ ~LockedByOther(Recovery, dir[Source])
          /\ \/ Smooth /\ Becomes(Recovery, Resume(o))
             \/ Fault /\ Becomes(Recovery, At("stuck", o, loaded[o]))
    /\ UNCHANGED <<up, disk, evidence, lists, loaded, crashes>>

EndScan ==
    /\ job[Recovery].pc = "scan"
    /\ \A o \in Ops : o > job[Recovery].op => ~Unfinished(o)
    /\ loaded' = backups
    /\ Becomes(Recovery, Scan("undos", MaxOps + 1))
    /\ UNCHANGED <<up, disk, evidence, lists, budget>>

(* Backup rows are read newest first. *)
NextRowDown(o, wanted) ==
    /\ o < job[Recovery].op /\ loaded[o] \in wanted
    /\ \A q \in Ops : o < q /\ q < job[Recovery].op => loaded[q] \notin wanted

ResumeUndo ==
    /\ job[Recovery].pc = "undos"
    /\ \E o \in Ops :
          NextRowDown(o, {"undoing"}) /\ Becomes(Recovery, At("undoing", o, "undoing"))
    /\ UNCHANGED <<up, disk, evidence, lists, loaded, budget>>

EndUndos ==
    /\ job[Recovery].pc = "undos"
    /\ \A o \in Ops : ~NextRowDown(o, {"undoing"})
    /\ loaded' = backups
    /\ Becomes(Recovery, [Scan("expire", MaxOps + 1) EXCEPT !.ok = FALSE])
    /\ UNCHANGED <<up, disk, evidence, lists, budget>>

-------------------------------------------------------------------------------
(* Undo of a completed save. *)

(* No part of the program offers an undo yet: it is taken to be offered    *)
(* once the startup job is done and no earlier undo is unsettled.          *)
MayUndo(j) ==
    /\ Undoes /\ up /\ job[j].pc = "idle" /\ job[Recovery].pc = "idle"
    /\ \A q \in Ops : backups[q] # "undoing"

(* The undo has a fresh identity: no earlier one hides its refresh. *)
BeginUndo(j) ==
    \E o \in Ops :
        /\ MayUndo(j) /\ backups[o] = "retained"
        /\ \/ /\ Published(o) /\ WriteBackup(o, "retained", "undoing")
              /\ refreshed' = refreshed \ {UndoOf(o)}
              /\ Becomes(j, At("undoing", o, "undoing"))
           \/ /\ ~Published(o) /\ WriteBackup(o, "retained", "needs_reconciliation")
              /\ UNCHANGED <<refreshed, job>>
        /\ UNCHANGED <<up, disk, listed, lapses, loaded, crashes>>

(* Cancelled while another thread holds a lock of the undo. *)
CancelUndo(j) ==
    LET o == job[j].op
    IN /\ job[j].pc = "undoing" /\ Fault /\ Goto(j, "keep")
       /\ \E v \in {o, Expected(o), dir[Source]} : LockedByOther(j, v)
       /\ UNCHANGED <<up, disk, evidence, lists, loaded, crashes>>

(* Source and backup change places; nothing is removed yet. *)
Exchange(j) ==
    LET o == job[j].op
        before == Published(o) /\ SingleLinks(o)
        after == /\ dir[Source] = Expected(o) /\ dir[Backup(o)] \in {Nothing, o}
                 /\ Links(Expected(o)) = 1 /\ Links(o) <= 1
        exchanged == [dir EXCEPT ![Source] = Expected(o), ![Backup(o)] = o]
    IN /\ job[j].pc = "undoing"
       /\ \A v \in {o, Expected(o), dir[Source]} : ~LockedByOther(j, v)
       /\ \/ before /\ AtomicExchange /\ Smooth /\ Synced(exchanged) /\ Goto(j, "swapped")
          \/ before /\ (Fault \/ (~AtomicExchange /\ Smooth)) /\ UNCHANGED disk /\ Goto(j, "keep")
          \/ before /\ AtomicExchange /\ Fault /\ Unsynced(exchanged) /\ Goto(j, "ambiguous")
          \/ after /\ Smooth /\ UNCHANGED disk /\ Goto(j, "swapped")
          \/ /\ (~before /\ ~after /\ Smooth) \/ Fault
             /\ UNCHANGED disk /\ Goto(j, "ambiguous")
       /\ UNCHANGED <<up, evidence, lists, loaded, crashes>>

(* The original is reread like the copy, and the exchange taken back.      *)
RereadOriginal(j) ==
    LET o == job[j].op
    IN /\ job[j].pc = "swapped"
       /\ \/ dir[Source] = Expected(o) /\ Smooth /\ UNCHANGED lists /\ Goto(j, "original")
          \/ dir[Source] # Expected(o) /\ Smooth /\ UNCHANGED lists /\ Goto(j, "takeback")
          \/ /\ Fault \/ (Cancelled(j) /\ Smooth)
             /\ GiveUp(o, UndoOf(o)) /\ Goto(j, "takeback")
       /\ UNCHANGED <<up, disk, evidence, loaded, crashes>>

(* The committer of an undo is told of tags, whatever the save was. *)
Relist(j) ==
    LET o == job[j].op
    IN /\ job[j].pc = "original"
       /\ \/ Smooth /\ Refresh(UndoOf(o), Expected(o)) /\ Goto(j, "relisted")
          \/ Fault /\ GiveUp(o, UndoOf(o)) /\ Goto(j, "takeback")
       /\ UNCHANGED <<up, disk, evidence, loaded, crashes>>

(* The exchange back asks for no identities. *)
TakeBack(j) ==
    LET o == job[j].op
        possibleBack == AtomicExchange /\ dir[Source] # Nothing /\ dir[Backup(o)] # Nothing
        exchanged == [dir EXCEPT ![Source] = dir[Backup(o)], ![Backup(o)] = dir[Source]]
    IN /\ job[j].pc = "takeback"
       /\ \/ possibleBack /\ Smooth /\ Synced(exchanged) /\ Goto(j, "keep")
          \/ possibleBack /\ Fault /\ Unsynced(exchanged) /\ Goto(j, "ambiguous")
          \/ /\ Fault \/ (~possibleBack /\ Smooth)
             /\ UNCHANGED disk /\ Goto(j, "ambiguous")
       /\ UNCHANGED <<up, evidence, lists, loaded, crashes>>

(* The replaced version goes once the lists show the original. *)
RemoveReplaced(j) ==
    LET o == job[j].op
        restored == dir[Source] = Expected(o)
        removed == [dir EXCEPT ![Backup(o)] = Nothing]
    IN /\ job[j].pc = "relisted"
       /\ \/ /\ restored /\ dir[Backup(o)] \in {Nothing, o} /\ Smooth
             /\ IF dir[Backup(o)] = o THEN Synced(removed) ELSE UNCHANGED disk
             /\ Goto(j, "dropped")
          \/ /\ \/ /\ ~restored \/ dir[Backup(o)] \notin {Nothing, o}
                   /\ Smooth /\ UNCHANGED disk
                \/ Fault /\ UNCHANGED disk
                \/ restored /\ dir[Backup(o)] = o /\ Fault /\ Unsynced(removed)
             /\ Goto(j, "ambiguous")
       /\ UNCHANGED <<up, evidence, lists, loaded, crashes>>

SettleUndo(j) ==
    LET o == job[j].op
        to == CASE job[j].pc = "dropped" -> "undone"
                [] job[j].pc = "keep" -> "retained"
                [] OTHER -> "needs_reconciliation"
    IN /\ job[j].pc \in {"dropped", "keep", "ambiguous"}
       /\ WriteBackup(o, "undoing", to) \/ WriteBackupFails(o, "undoing", to)
       /\ DoneUndo(j)
       /\ UNCHANGED <<up, disk, lists, loaded, crashes>>

Undo(j) ==
    \/ CancelUndo(j) \/ Exchange(j) \/ RereadOriginal(j) \/ Relist(j)
    \/ TakeBack(j) \/ RemoveReplaced(j) \/ SettleUndo(j)

-------------------------------------------------------------------------------
(* Expiry of backups at startup, newest first, from a list read once. *)

Rows == BackupStates \ {"none"}
Newest(o) == \A q \in Ops : q > o => loaded[q] = "none"

(* What the source must still be for its backups to be judged. *)
SourceAfter(o) == IF loaded[o] = "undone" THEN Expected(o) ELSE o

NextBackup ==
    /\ job[Recovery].pc = "expire"
    /\ \E o \in Ops :
          /\ NextRowDown(o, Rows)
          /\ IF Newest(o) /\ loaded[o] \in {"retained", "released", "undone"}
               THEN Becomes(Recovery, [At("opened", o, "none") EXCEPT !.saw = dir[Source]])
               ELSE Becomes(Recovery, [job[Recovery] EXCEPT !.pc = "release", !.op = o])
    /\ UNCHANGED <<up, disk, evidence, lists, loaded, budget>>

(* The lock is taken on the inode that was opened, whatever the path names *)
(* by the time it is granted.                                              *)
JudgeSource ==
    LET o == job[Recovery].op
        v == job[Recovery].saw
        same == v # Nothing /\ v = SourceAfter(o) /\ dir[Source] = v /\ Links(v) = 1
    IN /\ job[Recovery].pc = "opened" /\ ~LockedByOther(Recovery, v)
       /\ \/ Smooth /\ Becomes(Recovery, [At("release", o, "none") EXCEPT !.ok = same])
          \/ Fault /\ Becomes(Recovery, [At("release", o, "none") EXCEPT !.ok = FALSE])
       /\ UNCHANGED <<up, disk, evidence, lists, loaded, crashes>>

(* Mutation: an old backup is released without a look at the source. *)
ReleaseUnjudged ==
    LET o == job[Recovery].op
        removed == [dir EXCEPT ![Backup(o)] = Nothing]
    IN /\ job[Recovery].pc = "release" /\ loaded[o] = "retained"
       /\ Smooth /\ Synced(removed) /\ Goto(Recovery, "released")
       /\ UNCHANGED <<up, evidence, lists, loaded, crashes>>

Release ==
    LET o == job[Recovery].op
        retained == loaded[o] = "retained"
        mine == dir[Backup(o)] = Expected(o) /\ Links(Expected(o)) = 1
        removed == [dir EXCEPT ![Backup(o)] = Nothing]
    IN /\ job[Recovery].pc = "release"
       /\ \/ /\ \/ ~retained
                \/ job[Recovery].ok /\ backups[o] # "retained"
             /\ Smooth /\ UNCHANGED disk /\ Goto(Recovery, "expire")
          \/ retained /\ ~job[Recovery].ok /\ Smooth /\ UNCHANGED disk /\ Goto(Recovery, "doubt")
          \/ /\ retained /\ job[Recovery].ok /\ backups[o] = "retained"
             /\ ~LockedByOther(Recovery, Expected(o))
             /\ \/ /\ \/ TRUE \in KeepBackups /\ Newest(o) /\ mine
                   /\ Smooth /\ UNCHANGED disk /\ Goto(Recovery, "expire")
                \/ /\ FALSE \in KeepBackups /\ Smooth
                   /\ \/ mine /\ Synced(removed) /\ Goto(Recovery, "released")
                      \/ dir[Backup(o)] = Nothing /\ UNCHANGED disk /\ Goto(Recovery, "released")
                      \/ dir[Backup(o)] # Nothing /\ ~mine /\ UNCHANGED disk
                         /\ Goto(Recovery, "doubt")
                \/ /\ Fault /\ Goto(Recovery, "doubt")
                   /\ \/ UNCHANGED disk
                      \/ (mine /\ Unsynced(removed))
       /\ UNCHANGED <<up, evidence, lists, loaded, crashes>>

SettleRelease ==
    LET o == job[Recovery].op
        to == IF job[Recovery].pc = "released" THEN "released" ELSE "needs_reconciliation"
    IN /\ job[Recovery].pc \in {"released", "doubt"}
       /\ WriteBackup(o, "retained", to) \/ WriteBackupFails(o, "retained", to)
       /\ Goto(Recovery, "expire")
       /\ UNCHANGED <<up, disk, lists, loaded, crashes>>

EndExpiry ==
    /\ job[Recovery].pc = "expire"
    /\ \A o \in Ops : ~NextRowDown(o, Rows)
    /\ Return(Recovery)
    /\ UNCHANGED <<up, disk, evidence, lists, loaded, budget>>

(* A cancelled job stops before the next unfinished record or retained     *)
(* backup, unless it had looked at the cancellation before.                *)
Stop ==
    /\ Closing
    /\ \/ /\ job[Recovery].pc = "scan"
          /\ \E o \in Ops : Incomplete(o) /\ o > job[Recovery].op
       \/ job[Recovery].pc = "release" /\ loaded[job[Recovery].op] = "retained"
    /\ Return(Recovery)
    /\ UNCHANGED <<up, disk, evidence, lists, loaded, budget>>

Recover ==
    \/ Stop
    \/ Load \/ Inspect \/ EndScan \/ ResumeUndo \/ EndUndos
    \/ NextBackup \/ JudgeSource \/ Release \/ SettleRelease \/ EndExpiry

-------------------------------------------------------------------------------
Next ==
    \/ Start \/ Close \/ Crash \/ Edit \/ Move
    \/ \E j \in Workers : Begin(j) \/ BeginUndo(j)
    \/ \E j \in Jobs : Save(j) \/ Undo(j)
    \/ Recover

Spec == Init /\ [][Next]_vars

(* The startup job and a save that has begun keep running. *)
FairSpec ==
    /\ Spec
    /\ WF_vars(Recover \/ Save(Recovery) \/ Undo(Recovery))
    /\ \A j \in Workers : WF_vars(Save(j) \/ Undo(j))

-------------------------------------------------------------------------------
(* Properties. *)

TypeOK ==
    /\ up \in BOOLEAN
    /\ dir \in [Entries -> Versions \cup {Nothing}]
    /\ possible \subseteq [Entries -> Versions \cup {Nothing}] /\ dir \in possible
    /\ journal \in [Ops -> Record \cup {Unused}]
    /\ backups \in [Ops -> BackupStates]
    /\ listed \in Versions \cup {Nothing}
    /\ refreshed \subseteq {SaveOf(o) : o \in Ops} \cup {UndoOf(o) : o \in Ops}
    /\ lapses \subseteq Ops
    /\ loaded \in [Ops -> JournalStates \cup BackupStates]
    /\ \A j \in Jobs :
          /\ job[j].pc \in CommitPCs \cup CleanPCs \cup UndoPCs \cup JobPCs
          /\ job[j].op \in 0..MaxOps + 1
          /\ job[j].known \in JournalStates \cup BackupStates
          /\ job[j].todo \in Seq(Entries)
          /\ job[j].ok \in BOOLEAN
          /\ job[j].saw \in Versions \cup {Nothing}
    /\ faults \in 0..MaxFaults /\ crashes \in 0..MaxCrashes

(* Has another program written into the history of the file. *)
Edited ==
    \/ \E e \in Entries : dir[e] \in Foreign
    \/ \E o \in Ops : Exists(o) /\ Expected(o) \in Foreign

Unsettled(o) ==
    /\ Exists(o) /\ journal[o].state \in {"planned", "prepared", "published"}
    /\ Expected(o) \notin {q \in Ops : UndoOf(q) \in refreshed}

(* Whatever a failure or a power loss leaves, the path of the file names a *)
(* whole version.  The version a save replaces stays readable until the    *)
(* save is settled: only an undo takes it away from an unfinished save, or *)
(* a startup job that takes back a save the lists already show.            *)
NeverWithoutTheFile ==
    \A d \in possible :
        /\ d[Source] # Nothing
        /\ \A o \in Ops :
              Unsettled(o) /\ ~Edited /\ lapses = {} => \E e \in Entries : d[e] = Expected(o)

Quiet ==
    /\ \A j \in Jobs : ~Engaged(j)
    /\ \A o \in Ops : Exists(o) => journal[o].state \in Settled
    /\ \A o \in Ops : backups[o] \notin {"undoing", "needs_reconciliation"}

(* Once every save is complete or rolled back, the lists describe the      *)
(* version the path names, also after a power loss, unless a save or undo  *)
(* they showed was taken back, or a committer passed over a picture.       *)
ListsMatchFile ==
    Quiet /\ ~Edited /\ lapses = {} => \A d \in possible : d[Source] = listed

(* Claimed: a save that fails leaves everything as before, and a recovery  *)
(* completes what was published or keeps it as evidence, so that no save   *)
(* recorded as rolled back has reached the lists.                          *)
RolledBackIsUnseen ==
    \A o \in Ops : Exists(o) /\ journal[o].state = "rolled_back" => SaveOf(o) \notin refreshed

(* Claimed: the recovery is about unfinished records, so that only an undo *)
(* takes back a save that is recorded as complete.                         *)
CompletedSavesStand ==
    \A o \in Ops : Exists(o) /\ journal[o].state = "complete" /\ backups[o] = "retained"
        => dir[Source] # Expected(o)

(* Claimed: a recovered cover save refreshes the lists before it is        *)
(* recorded as complete, as one by the user does.                          *)
CoversAreTold ==
    \A o \in Ops :
        Exists(o) /\ journal[o].kind = "cover" /\ journal[o].state = "complete"
            => SaveOf(o) \in refreshed

(* A save that was rolled back has left no hidden sibling.                 *)
NothingLeftBehind ==
    \A o \in Ops : Exists(o) /\ journal[o].state = "rolled_back" =>
        \A d \in possible : d[Prepared(o)] = Nothing /\ d[Backup(o)] = Nothing

(* What another program has written stays under the name of the file until *)
(* the user saves over that very version.                                  *)
EditsSurvive ==
    [][dir[Source] \in Foreign /\ dir'[Source] # dir[Source]
         => Edit \/ Move \/ Crash \/ \E o \in Ops : Exists(o) /\ Expected(o) = dir[Source]]_vars

(* Every save that was begun and every startup job comes to an end. *)
JobsEnd == \A j \in Jobs : job[j].pc # "idle" ~> job[j].pc = "idle"

(* The save as the lists see it. *)
Verdict(o) ==
    IF ~Exists(o) THEN "none"
    ELSE IF journal[o].state = "rolled_back" THEN "given up"
    ELSE IF journal[o].state = "needs_reconciliation" THEN "unresolved"
    ELSE IF UndoOf(o) \in refreshed THEN "undone"
    ELSE IF SaveOf(o) \in refreshed THEN "done" ELSE "open"

Seen == [o \in Ops |-> Verdict(o)]
Plans == [o \in Ops |-> IF Exists(o) THEN Expected(o) ELSE Nothing]

ShowSaved(o, plan, view) == o
ShowOriginal(o, plan, view) == plan

Atomic == INSTANCE AtomicOperation WITH
    Operations <- Ops,
    Views <- Versions \cup {Nothing},
    Effect <- ShowSaved,
    Reversal <- ShowOriginal,
    verdict <- Seen,
    plan <- Plans,
    view <- listed

(* Seen from the lists, a save takes effect once or not at all, up to the  *)
(* first that is taken back after it took effect or finishes without them. *)
SavesAreAtomic ==
    Atomic!Init /\ [][lapses' = {} => Atomic!Next]_<<Seen, Plans, listed>>
===============================================================================
