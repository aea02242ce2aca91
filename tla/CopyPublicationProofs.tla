------------------------ MODULE CopyPublicationProofs -------------------------
(***************************************************************************)
(* What holds of CopyPublication for every number of operations, files,    *)
(* names, occurrences and workers.  The inductive invariant ties a running *)
(* thread to its record, to the names of its source and its prepared file  *)
(* and to what the prepared file holds; the advisory locks keep the        *)
(* threads from each other, the journal orders the steps of one thread.    *)
(***************************************************************************)
EXTENDS CopyPublication, TLAPS

-------------------------------------------------------------------------------
(* Type correctness. *)

Thread == [pc : PCs, op : Ops \cup {0}, known : States \cup {"none"}]

Busy(j) == job[j].pc \notin {"idle", "scan"}

JobsHaveRecords == \A j \in Jobs : Busy(j) => job[j].op \in Ops /\ Exists(job[j].op)

TypeInv == TypeOK /\ JobsHaveRecords

(* The recovery runs alone, and nothing runs in a stopped program. *)
RecoveryAlone ==
    /\ ~up => \A j \in Jobs : job[j].pc = "idle"
    /\ Recovering => \A j \in Workers : job[j].pc = "idle"

(* An existing record has all its fields. *)
LEMMA ExistingRecord ==
    ASSUME TypeOK, NEW o \in Ops, Exists(o)
    PROVE  /\ journal[o] \in Record /\ FileOf(o) \in Files /\ journal[o].state \in States
           /\ journal[o].source \in Paths /\ journal[o].target \in Paths
  BY DEF TypeOK, Exists, Record, FileOf, StatesOf

(* A record is not the unused one. *)
LEMMA RecordIsUsed == ASSUME NEW r \in Record PROVE r # Unused
  BY DEF Record, Unused, StatesOf, States

LEMMA ExecuteIsBusy == ASSUME NEW j, Execute(j) PROVE Busy(j)
  BY DEF Execute, Withdraw, CreatePrepared, FinishPrepared, SpoilPrepared, FinishPlanned,
         RecordPrepared, Discard, Rename, SyncTarget, Publish, CommitDependents, Retract,
         VerifyTarget, RecordDependents, RemoveSource, SyncRemoval, RecordRemoval, Complete,
         Fail, Adopt, Busy

(* The operation of a running job. *)
LEMMA BusyRecord ==
    ASSUME TypeInv, NEW j \in Jobs, Busy(j)
    PROVE  LET o == job[j].op
           IN /\ o \in Ops /\ o \in Files /\ Exists(o) /\ journal[o] \in Record
              /\ FileOf(o) \in Files /\ FileOf(o) = journal[o].file
              /\ journal[o].state \in States
              /\ journal[o].source \in Paths /\ journal[o].target \in Paths
  BY ExistingRecord DEF TypeInv, JobsHaveRecords, Files, FileOf

(* How the thread of a step goes on: with the operation it has, or at rest. *)
LEMMA ExecuteMoves ==
    ASSUME TypeInv, NEW j \in Jobs, Execute(j)
    PROVE  /\ job' \in [Jobs -> Thread]
           /\ \A k \in Jobs \ {j} : job'[k] = job[k]
           /\ Busy(j)' => job'[j].op = job[j].op
  <1> DEFINE w == job[j].op
  <1>1. Busy(j) /\ w \in Ops /\ job[j] \in Thread
    BY ExecuteIsBusy, BusyRecord DEF TypeInv, TypeOK, Thread
  <1>2. \/ \E pc \in PCs : Goto(j, pc)
        \/ \E pc \in PCs, known \in States : Becomes(j, At(pc, w, known))
        \/ Becomes(j, Idle) \/ Done(j)
    BY DEF Execute, Withdraw, CreatePrepared, FinishPrepared, SpoilPrepared, FinishPlanned,
         RecordPrepared, Discard, Rename, SyncTarget, Publish, CommitDependents, Retract,
         VerifyTarget, RecordDependents, RemoveSource, SyncRemoval, RecordRemoval, Complete,
         Fail, Adopt, CleanUp, Return, PCs, States
  <1>3. \A pc \in PCs : [job[j] EXCEPT !.pc = pc] \in Thread /\ [job[j] EXCEPT !.pc = pc].op = w
    BY <1>1 DEF Thread
  <1>4. \A pc \in PCs, known \in States : At(pc, w, known) \in Thread /\ At(pc, w, known).op = w
    BY <1>1 DEF Thread, At
  <1>5. /\ Idle \in Thread /\ Idle.pc = "idle"
        /\ Scan(w) \in Thread /\ Scan(w).pc = "scan"
    BY <1>1 DEF Thread, Idle, Scan, PCs
  <1>6. PICK t \in Thread : Becomes(j, t) /\ (t.pc \notin {"idle", "scan"} => t.op = w)
    <2>1. CASE \E pc \in PCs : Goto(j, pc)
      BY <1>3, <2>1 DEF Goto
    <2>2. CASE \E pc \in PCs, known \in States : Becomes(j, At(pc, w, known))
      BY <1>4, <2>2
    <2>3. CASE Becomes(j, Idle) \/ Done(j)
      BY <1>5, <2>3 DEF Done
    <2> QED BY <1>2, <2>1, <2>2, <2>3
  <1> QED BY <1>6 DEF Becomes, TypeInv, TypeOK, Thread, Busy

(* What a step of a job writes to the journal. *)
LEMMA ExecuteWrites ==
    ASSUME TypeInv, NEW j \in Jobs, Execute(j)
    PROVE  LET o == job[j].op
           IN /\ journal' \in [Ops -> Record \cup {Unused}]
              /\ \A q \in Ops \ {o} : journal'[q] = journal[q]
              /\ journal'[o] # Unused
              /\ journal'[o].file = journal[o].file
              /\ journal'[o].source = journal[o].source
              /\ journal'[o].target = journal[o].target
              /\ \/ journal'[o].state = journal[o].state
                 \/ LegalTransition(TRUE, journal[o].state, journal'[o].state)
  <1> DEFINE w == job[j].op
  <1>1. w \in Ops /\ journal[w] \in Record
    BY ExecuteIsBusy, BusyRecord
  <1>2. UNCHANGED journal \/ \E to \in States : Write(j, to)
    BY DEF Execute, Withdraw, CreatePrepared, FinishPrepared, SpoilPrepared, FinishPlanned,
         RecordPrepared, Discard, Rename, SyncTarget, Publish, CommitDependents, Retract,
         VerifyTarget, RecordDependents, RemoveSource, SyncRemoval, RecordRemoval, Complete,
         Fail, Adopt, WriteFails, States
  <1>3. CASE UNCHANGED journal
    BY <1>1, <1>3, RecordIsUsed DEF TypeInv, TypeOK
  <1>4. ASSUME NEW to \in States, Write(j, to)
        PROVE  /\ journal' \in [Ops -> Record \cup {Unused}]
               /\ journal'[w] = [journal[w] EXCEPT !.state = to]
               /\ journal'[w] \in Record
               /\ \A q \in Ops \ {w} : journal'[q] = journal[q]
               /\ LegalTransition(TRUE, journal[w].state, to)
    <2>1. [journal[w] EXCEPT !.state = to] \in Record
      BY <1>1 DEF Record, StatesOf
    <2>2. journal' = [journal EXCEPT ![w] = [journal[w] EXCEPT !.state = to]]
      BY <1>4 DEF Write
    <2> QED BY <1>1, <1>4, <2>1, <2>2 DEF Write, Accepts, TypeInv, TypeOK
  <1>5. ASSUME NEW to \in States, Write(j, to)
        PROVE  /\ journal'[w].file = journal[w].file
               /\ journal'[w].source = journal[w].source
               /\ journal'[w].target = journal[w].target
               /\ journal'[w].state = to
    BY <1>1, <1>4, <1>5 DEF Record
  <1> QED BY <1>2, <1>3, <1>4, <1>5, RecordIsUsed

(* What a step of a job does to the directory. *)
LEMMA ExecuteRenames ==
    ASSUME TypeInv, NEW j \in Jobs, Execute(j)
    PROVE  LET o == job[j].op
               f == journal[o].file
           IN \/ UNCHANGED name
              \/ /\ name' = [name EXCEPT ![o] = NoPath]
                 /\ job[j].pc \in {"writing", "discard", "retract"}
              \/ name' = [name EXCEPT ![o] = Sibling(o)] /\ job[j].pc = "created"
              \/ name' = [name EXCEPT ![o] = journal[o].target] /\ job[j].pc = "ready"
              \/ /\ name' = [name EXCEPT ![f] = NoPath]
                 /\ job[j].pc = "advanced" /\ Published(o)
  BY DEF Execute, Withdraw, CreatePrepared, FinishPrepared, SpoilPrepared, FinishPlanned,
         RecordPrepared, Discard, Rename, SyncTarget, Publish, CommitDependents, Retract,
         VerifyTarget, RecordDependents, RemoveSource, SyncRemoval, RecordRemoval, Complete,
         Fail, Adopt, Unlink, RenameTo, FileOf, disk

(* Only the preparation gives a file its content. *)
LEMMA ExecuteFills ==
    ASSUME TypeInv, NEW j \in Jobs, Execute(j)
    PROVE  \/ UNCHANGED content
           \/ /\ content' = [content EXCEPT ![job[j].op] = content[FileOf(job[j].op)]]
              /\ FinishPrepared(j)
  BY DEF Execute, Withdraw, CreatePrepared, FinishPrepared, SpoilPrepared, FinishPlanned,
         RecordPrepared, Discard, Rename, SyncTarget, Publish, CommitDependents, Retract,
         VerifyTarget, RecordDependents, RemoveSource, SyncRemoval, RecordRemoval, Complete,
         Fail, Adopt, disk

(* Only the committer follows in the list database. *)
LEMMA ExecuteFollows ==
    ASSUME NEW j \in Jobs, Execute(j)
    PROVE  \/ UNCHANGED database
           \/ CommitDependents(j) /\ Relocate(job[j].op) /\ Goto(j, "committed")
  BY DEF Execute, Withdraw, CreatePrepared, FinishPrepared, SpoilPrepared, FinishPlanned,
         RecordPrepared, Discard, Rename, SyncTarget, Publish, CommitDependents, Retract,
         VerifyTarget, RecordDependents, RemoveSource, SyncRemoval, RecordRemoval, Complete,
         Fail, Adopt, RelocateFails, database

LEMMA RelocateKeepsType ==
    ASSUME TypeOK, NEW o \in Ops, Exists(o), Relocate(o)
    PROVE  refs' \in [Items -> Occurrence] /\ relocated' \subseteq Ops
  <1>1. CASE UNCHANGED database
    BY <1>1 DEF TypeOK, database
  <1>2. CASE ~UNCHANGED database
    <2>1. /\ relocated' = relocated \cup {o}
          /\ refs' = [i \in Items |->
                        IF refs[i].path \in {journal[o].source, journal[o].target}
                          THEN [path |-> journal[o].target, file |-> o]
                          ELSE refs[i]]
      BY <1>2 DEF Relocate
    <2>2. [path |-> journal[o].target, file |-> o] \in Occurrence
      BY ExistingRecord DEF Occurrence, Files
    <2> QED BY <2>1, <2>2 DEF TypeOK
  <1> QED BY <1>1, <1>2

LEMMA ExecuteKeepsType == ASSUME TypeInv, NEW j \in Jobs, Execute(j) PROVE TypeInv'
  <1> DEFINE w == job[j].op
             f == journal[w].file
  <1>1. /\ TypeOK /\ Busy(j)
        /\ w \in Ops /\ w \in Files /\ Exists(w) /\ f \in Files /\ f = FileOf(w)
        /\ journal[w].target \in Paths
    BY ExecuteIsBusy, BusyRecord DEF TypeInv
  <1>2. /\ job' \in [Jobs -> Thread]
        /\ \A k \in Jobs \ {j} : job'[k] = job[k]
        /\ Busy(j)' => job'[j].op = w
    BY ExecuteMoves
  <1>3. /\ journal' \in [Ops -> Record \cup {Unused}]
        /\ \A q \in Ops \ {w} : journal'[q] = journal[q]
        /\ journal'[w] # Unused
    BY ExecuteWrites
  <1>4. JobsHaveRecords'
    BY <1>1, <1>2, <1>3 DEF TypeInv, JobsHaveRecords, Busy, Exists
  <1>5. name' \in [Files -> Names]
    <2>1. NoPath \in Names /\ Sibling(w) \in Names /\ journal[w].target \in Names
      BY <1>1 DEF Names
    <2> QED BY <1>1, <2>1, ExecuteRenames DEF TypeOK
  <1>6. content' \in [Files -> Library \cup Strangers \cup {NoPath}]
    BY <1>1, ExecuteFills DEF TypeOK
  <1>7. limbo' \in [Files -> SUBSET Names]
    <2>1. \A g \in Files : \A p : RenameTo(g, p) => limbo' \in [Files -> SUBSET Names]
      BY <1>1 DEF RenameTo, TypeOK
    <2>2. \A g \in Files : Sync(g) => limbo' \in [Files -> SUBSET Names]
      BY <1>1 DEF Sync, TypeOK
    <2>3. \/ UNCHANGED limbo
          \/ \E g \in {w, f} : Sync(g) \/ \E p : RenameTo(g, p)
      BY DEF Execute, Withdraw, CreatePrepared, FinishPrepared, SpoilPrepared, FinishPlanned,
         RecordPrepared, Discard, Rename, SyncTarget, Publish, CommitDependents, Retract,
         VerifyTarget, RecordDependents, RemoveSource, SyncRemoval, RecordRemoval, Complete,
         Fail, Adopt, Unlink, FileOf, disk
    <2> QED BY <1>1, <2>1, <2>2, <2>3 DEF TypeOK
  <1>8. refs' \in [Items -> Occurrence] /\ relocated' \subseteq Ops
    BY <1>1, ExecuteFollows, RelocateKeepsType DEF TypeOK, database
  <1>9. up' = up /\ faults' \in 0..MaxFaults /\ crashes' = crashes
    <2>1. Fault \/ Smooth
      BY DEF Execute, Withdraw, CreatePrepared, FinishPrepared, SpoilPrepared, FinishPlanned,
         RecordPrepared, Discard, Rename, SyncTarget, Publish, CommitDependents, Retract,
         VerifyTarget, RecordDependents, RemoveSource, SyncRemoval, RecordRemoval, Complete,
         Fail, Adopt, Write, WriteFails, RelocateFails, Smooth, budget
    <2>2. faults' \in 0..MaxFaults
      BY <1>1, <2>1, CopyAssumption DEF Fault, Smooth, TypeOK
    <2>3. up' = up /\ crashes' = crashes
      BY DEF Execute, Withdraw, CreatePrepared, FinishPrepared, SpoilPrepared, FinishPlanned,
         RecordPrepared, Discard, Rename, SyncTarget, Publish, CommitDependents, Retract,
         VerifyTarget, RecordDependents, RemoveSource, SyncRemoval, RecordRemoval, Complete,
         Fail, Adopt, budget
    <2> QED BY <2>2, <2>3
  <1> QED BY <1>1, <1>2, <1>3, <1>4, <1>5, <1>6, <1>7, <1>8, <1>9 DEF TypeInv, TypeOK, Thread

(* The record of a new operation. *)
LEMMA BeginCreates ==
    ASSUME TypeInv, NEW j \in Workers, Begin(j)
    PROVE  \E o \in Ops, f \in Files, target \in Paths, i \in Items :
             /\ up /\ ~Recovering /\ j \in Jobs /\ j # Recovery
             /\ refs[i].path = name[f] /\ refs[i].file = f /\ name[f] \in Paths
             /\ ~Exists(o) /\ ~Locked(f) /\ Free(target)
             /\ journal' \in [Ops -> Record \cup {Unused}]
             /\ \A q \in Ops \ {o} : journal'[q] = journal[q]
             /\ journal'[o] # Unused
             /\ journal'[o].state = "planned" /\ journal'[o].file = f
             /\ journal'[o].source = name[f] /\ journal'[o].target = target
             /\ job'[j] = At("created", o, "planned")
             /\ \A k \in Jobs \ {j} : job'[k] = job[k]
             /\ UNCHANGED <<up, disk, database, budget>>
  <1>1. PICK o \in Ops, f \in Files, target \in Paths, kind \in Kinds :
           /\ up /\ ~Recovering
           /\ \E i \in Items : refs[i] = [path |-> name[f], file |-> f]
           /\ NextRow(o) /\ ~Locked(f) /\ Free(target)
           /\ journal' = [journal EXCEPT ![o] =
                  [state |-> "planned", file |-> f, source |-> name[f],
                   target |-> target, kind |-> kind]]
           /\ Becomes(j, At("created", o, "planned"))
           /\ UNCHANGED <<up, disk, database, budget>>
    BY DEF Begin
  <1> DEFINE r == [state |-> "planned", file |-> f, source |-> name[f],
                   target |-> target, kind |-> kind]
  <1>2. PICK i \in Items : refs[i] = [path |-> name[f], file |-> f]
    BY <1>1
  <1>3. refs[i].path = name[f] /\ refs[i].file = f /\ refs[i] \in Occurrence
    BY <1>2 DEF TypeInv, TypeOK
  <1>4. name[f] \in Paths
    BY <1>3 DEF Occurrence
  <1>5. r \in Record
    BY <1>4, CopyAssumption DEF Record, StatesOf, States
  <1>6. r # Unused
    BY <1>5, RecordIsUsed
  <1>7. /\ journal' \in [Ops -> Record \cup {Unused}] /\ journal'[o] = r
        /\ \A q \in Ops \ {o} : journal'[q] = journal[q]
    BY <1>1, <1>5 DEF TypeInv, TypeOK
  <1>8. j \in Jobs /\ j # Recovery
    BY CopyAssumption DEF Jobs
  <1>9. job'[j] = At("created", o, "planned") /\ \A k \in Jobs \ {j} : job'[k] = job[k]
    BY <1>1, <1>8 DEF Becomes, TypeInv, TypeOK
  <1> QED BY <1>1, <1>3, <1>4, <1>6, <1>7, <1>8, <1>9 DEF NextRow

LEMMA BeginKeepsType == ASSUME TypeInv, NEW j \in Workers, Begin(j) PROVE TypeInv'
  <1>1. PICK o \in Ops :
          /\ j \in Jobs
          /\ journal' \in [Ops -> Record \cup {Unused}]
          /\ \A q \in Ops \ {o} : journal'[q] = journal[q]
          /\ journal'[o] # Unused
          /\ job'[j] = At("created", o, "planned")
          /\ \A k \in Jobs \ {j} : job'[k] = job[k]
          /\ UNCHANGED <<up, disk, database, budget>>
    BY BeginCreates
  <1>2. At("created", o, "planned") \in Thread /\ At("created", o, "planned").op = o
    BY DEF At, Thread, PCs, States
  <1>3. job' = [job EXCEPT ![j] = job'[j]]
    BY DEF Begin, Becomes, TypeInv, TypeOK
  <1>4. job' \in [Jobs -> Thread]
    BY <1>1, <1>2, <1>3 DEF TypeInv, TypeOK, Thread
  <1>5. JobsHaveRecords'
    BY <1>1, <1>2 DEF TypeInv, JobsHaveRecords, Busy, Exists
  <1> QED BY <1>1, <1>4, <1>5 DEF TypeInv, TypeOK, Thread, disk, database, budget

(* Where the recovery takes up a record. *)
LEMMA InspectMoves ==
    ASSUME TypeInv, Inspect
    PROVE  \E o \in Ops :
             /\ Exists(o) /\ Recovering
             /\ \/ job'[Recovery] = At(Resume(o), o, journal[o].state)
                \/ job'[Recovery] = At("stuck", o, journal[o].state)
             /\ job' \in [Jobs -> Thread] /\ \A k \in Jobs \ {Recovery} : job'[k] = job[k]
             /\ UNCHANGED <<up, disk, journal, database, crashes>> /\ (Fault \/ Smooth)
  <1>1. PICK o \in Ops : /\ NextPending(o)
                         /\ \/ Becomes(Recovery, At(Resume(o), o, journal[o].state))
                            \/ Becomes(Recovery, At("stuck", o, journal[o].state))
    BY DEF Inspect
  <1>2. UNCHANGED <<up, disk, journal, database, crashes>> /\ (Fault \/ Smooth) /\ Recovering
    BY DEF Inspect, Recovering
  <1>3. Exists(o) /\ Recovery \in Jobs
    BY <1>1 DEF NextPending, Pending, Jobs
  <1>4. journal[o].state \in States
    BY <1>3, ExistingRecord DEF TypeInv
  <1>5. Resume(o) \in PCs /\ "stuck" \in PCs
    BY DEF Resume, PCs
  <1>6. /\ At(Resume(o), o, journal[o].state) \in Thread
        /\ At("stuck", o, journal[o].state) \in Thread
    BY <1>4, <1>5 DEF At, Thread
  <1> QED BY <1>1, <1>2, <1>3, <1>6 DEF Becomes, TypeInv, TypeOK, Thread

LEMMA InspectKeepsType == ASSUME TypeInv, Inspect PROVE TypeInv'
  <1>1. PICK o \in Ops :
             /\ Exists(o)
             /\ \/ job'[Recovery] = At(Resume(o), o, journal[o].state)
                \/ job'[Recovery] = At("stuck", o, journal[o].state)
             /\ job' \in [Jobs -> Thread] /\ \A k \in Jobs \ {Recovery} : job'[k] = job[k]
             /\ UNCHANGED <<up, disk, journal, database, crashes>> /\ (Fault \/ Smooth)
    BY InspectMoves
  <1>2. job'[Recovery].op = o
    BY <1>1 DEF At
  <1>3. JobsHaveRecords'
    BY <1>1, <1>2 DEF TypeInv, JobsHaveRecords, Busy, Exists
  <1>4. faults' \in 0..MaxFaults
    BY <1>1, CopyAssumption DEF Fault, Smooth, TypeInv, TypeOK
  <1> QED BY <1>1, <1>3, <1>4 DEF TypeInv, TypeOK, Thread, disk, database

(* The program starts, closes, or its recovery ends. *)
LEMMA StartStopMoves ==
    ASSUME TypeInv, Start \/ Close \/ EndRecovery
    PROVE  /\ TypeInv' /\ (RecoveryAlone => RecoveryAlone') /\ ~Busy(Recovery)'
           /\ UNCHANGED <<disk, journal, database>>
           /\ \A k \in Jobs \ {Recovery} : job'[k] = job[k]
  <1>1. Idle \in Thread /\ Scan(0) \in Thread
    BY DEF Thread, Idle, Scan, PCs
  <1>2. PICK t \in {Idle, Scan(0)} : /\ Becomes(Recovery, t)
                                     /\ t = Idle \/ (Start /\ t = Scan(0))
    BY DEF Start, Close, EndRecovery, Return
  <1>3. Recovery \in Jobs
    BY DEF Jobs
  <1>4. /\ job' \in [Jobs -> Thread] /\ job'[Recovery] = t
        /\ \A k \in Jobs \ {Recovery} : job'[k] = job[k]
    BY <1>1, <1>2, <1>3 DEF Becomes, TypeInv, TypeOK, Thread
  <1>5. UNCHANGED <<disk, journal, database, budget>> /\ up' \in BOOLEAN
    BY DEF Start, Close, EndRecovery, TypeInv, TypeOK
  <1>6. t.pc \in {"idle", "scan"} /\ (t.pc = "scan" => Start)
    BY <1>2 DEF Idle, Scan
  <1>7. JobsHaveRecords' /\ ~Busy(Recovery)'
    BY <1>4, <1>5, <1>6 DEF TypeInv, JobsHaveRecords, Busy, Exists
  <1>8. TypeInv'
    BY <1>4, <1>5, <1>7 DEF TypeInv, TypeOK, Thread, disk, database, budget
  <1>9. RecoveryAlone => RecoveryAlone'
    BY <1>4, <1>6, CopyAssumption DEF Start, Close, EndRecovery, RecoveryAlone, Recovering, Jobs
  <1> QED BY <1>4, <1>5, <1>7, <1>8, <1>9

LEMMA CrashKeepsType == ASSUME TypeInv, Crash PROVE TypeInv' /\ RecoveryAlone'
  <1>1. /\ up' = FALSE /\ job' = [j \in Jobs |-> Idle]
        /\ UNCHANGED <<content, journal, database, faults>>
    BY DEF Crash
  <1>2. Idle \in Thread /\ Idle.pc = "idle"
    BY DEF Thread, Idle, PCs
  <1>3. job' \in [Jobs -> Thread] /\ \A k \in Jobs : job'[k].pc = "idle"
    BY <1>1, <1>2
  <1>4. JobsHaveRecords' /\ RecoveryAlone'
    BY <1>3 DEF JobsHaveRecords, Busy, RecoveryAlone, Recovering, Jobs
  <1>5. name' \in [Files -> Names] /\ limbo' \in [Files -> SUBSET Names]
    BY DEF Crash, TypeInv, TypeOK
  <1>6. crashes' \in 0..MaxCrashes
    BY CopyAssumption DEF Crash, TypeInv, TypeOK
  <1> QED BY <1>1, <1>3, <1>4, <1>5, <1>6 DEF TypeInv, TypeOK, Thread, database

LEMMA IntrudeKeepsType == ASSUME TypeInv, Intrude PROVE TypeInv'
  <1>1. PICK f \in Strangers, p \in Paths : name' = [name EXCEPT ![f] = p]
    BY DEF Intrude
  <1>2. UNCHANGED <<up, limbo, content, journal, database, job, budget>>
    BY DEF Intrude
  <1>3. name' \in [Files -> Names]
    BY <1>1 DEF TypeInv, TypeOK, Names
  <1>4. JobsHaveRecords'
    BY <1>2 DEF TypeInv, JobsHaveRecords, Busy, Exists
  <1> QED BY <1>2, <1>3, <1>4 DEF TypeInv, TypeOK, database, budget

LEMMA InitIsTyped == ASSUME Init PROVE TypeInv /\ RecoveryAlone
  <1>1. Idle \in Thread /\ Idle.pc = "idle"
    BY DEF Idle, Thread, PCs
  <1>2. job \in [Jobs -> Thread] /\ \A j \in Jobs : job[j].pc = "idle"
    BY <1>1 DEF Init
  <1>3. JobsHaveRecords /\ RecoveryAlone
    BY <1>2 DEF JobsHaveRecords, Busy, RecoveryAlone, Recovering, Jobs
  <1>4. faults \in 0..MaxFaults /\ crashes \in 0..MaxCrashes
    BY CopyAssumption DEF Init
  <1>5. name \in [Files -> Names] /\ limbo \in [Files -> SUBSET Names]
    BY DEF Init, Names
  <1>6. content \in [Files -> Library \cup Strangers \cup {NoPath}]
    BY DEF Init, Files
  <1> QED BY <1>2, <1>3, <1>4, <1>5, <1>6 DEF Init, TypeInv, TypeOK, Thread

(* The state of a journaled copy is always well-formed, also after a power *)
(* loss: records, occurrences, names and threads have their shape, and a   *)
(* busy thread has a record.                                               *)
THEOREM CopyTypeCorrect == Spec => []TypeOK
  <1>1. Init => TypeInv
    BY InitIsTyped
  <1>2. TypeInv /\ [Next]_vars => TypeInv'
    <2> SUFFICES ASSUME TypeInv, [Next]_vars PROVE TypeInv'
      OBVIOUS
    <2>1. CASE Start \/ Close \/ EndRecovery
      BY <2>1, StartStopMoves
    <2>2. CASE Crash \/ Intrude \/ Inspect
      BY <2>2, CrashKeepsType, IntrudeKeepsType, InspectKeepsType
    <2>3. CASE \E j \in Workers : Begin(j)
      BY <2>3, BeginKeepsType
    <2>4. CASE \E j \in Jobs : Execute(j)
      BY <2>4, ExecuteKeepsType
    <2>5. CASE UNCHANGED vars
      BY <2>5 DEF vars, TypeInv, TypeOK, JobsHaveRecords, Busy, Exists
    <2> QED BY <2>1, <2>2, <2>3, <2>4, <2>5 DEF Next
  <1>3. TypeInv => TypeOK
    BY DEF TypeInv
  <1> QED BY <1>1, <1>2, <1>3, PTL DEF Spec

-------------------------------------------------------------------------------
(* The inductive invariant.  A record that has left the first two states    *)
(* is late: no prepared file comes into being or is renamed for it again.   *)

Early == {"planned", "target_prepared"}

Late(o) == Exists(o) /\ journal[o].state \notin Early

(* Which journal state a thread knows in each place. *)
KnownRight(t) ==
    /\ t.pc \in {"created", "writing", "unprepared", "adopt", "prepared"} => t.known = "planned"
    /\ t.pc \in {"ready", "renamed", "synced"} => t.known = "target_prepared"
    /\ t.pc \in {"published", "committed", "verified"} => t.known = "target_published"
    /\ t.pc \in {"advanced", "unlinked", "removed"} => t.known = "dependent_state_committed"
    /\ t.pc = "finishing" => t.known = "source_removed"
    /\ t.pc \in {"discard", "discarded"} => t.known \in Early
    /\ t.pc \in {"retract", "retracted"} => t.known \in {"target_prepared", "target_published"}

(* Thread t with its record r: p names its source, q its prepared file,    *)
(* which holds c.  The source is in place until the thread has removed it. *)
Sound(t, r, p, q, c) ==
    /\ t.known = r.state /\ KnownRight(t)
    /\ t.pc \notin {"unlinked", "removed", "finishing", "stuck"} => p = r.source
    /\ t.pc \in {"discarded", "retracted", "abort"} => q = NoPath
    /\ t.pc \in {"synced", "published"} => q = r.target
    /\ t.pc = "finishing" => p = NoPath /\ q = r.target
    /\ t.pc = "created" => c = NoPath
    /\ t.pc \in {"adopt", "prepared"} => c # NoPath

ThreadsSound ==
    \A j \in Jobs : Busy(j) =>
        LET o == job[j].op
        IN Sound(job[j], journal[o], name[journal[o].file], name[o], content[o])

(* The locks: no two running threads share a source or a prepared file. *)
LocksDisjoint ==
    \A j, k \in Jobs :
        j # k /\ Busy(j) /\ Busy(k) =>
            /\ job[j].op # job[k].op /\ FileOf(job[j].op) # FileOf(job[k].op)
            /\ job[j].op # FileOf(job[k].op)

(* The states in which the prepared file is whole. *)
Filled == {"target_prepared", "target_published", "dependent_state_committed",
           "source_removed", "complete"}

RecordSound(o) ==
    /\ name[o] \in {NoPath, Sibling(o), journal[o].target}
    /\ name[FileOf(o)] \in {journal[o].source, NoPath}
    /\ FileOf(o) # o
    /\ FileOf(o) \in Ops => Late(FileOf(o))
    /\ content[FileOf(o)] # NoPath
    /\ content[o] \in {NoPath, content[FileOf(o)]}
    /\ journal[o].state \in Filled => content[o] # NoPath
    /\ journal[o].state = "complete" => name[FileOf(o)] = NoPath
    /\ journal[o].state = "rolled_back" => name[o] = NoPath

RecordsSound ==
    \A o \in Ops : /\ Exists(o) => RecordSound(o)
                   /\ ~Exists(o) => name[o] = NoPath /\ content[o] = NoPath

(* What an occurrence refers to was published and is whole. *)
RefsWhole ==
    \A i \in Items : /\ refs[i].file \in Ops => Late(refs[i].file)
                     /\ content[refs[i].file] # NoPath

CopyInv ==
    /\ TypeInv /\ RecoveryAlone /\ ThreadsSound /\ LocksDisjoint
    /\ RecordsSound /\ RefsWhole

-------------------------------------------------------------------------------
(* What a step of thread j does, and what it leaves alone. *)

(* The thread, its record and its files before the step. *)
LEMMA Engaged ==
    ASSUME CopyInv, NEW j \in Jobs, Busy(j)
    PROVE  LET o == job[j].op
               f == journal[o].file
           IN /\ Sound(job[j], journal[o], name[f], name[o], content[o])
              /\ RecordSound(o) /\ f # o
              /\ journal[o].source # NoPath /\ journal[o].target # NoPath
  <1>1. job[j].op \in Ops /\ Exists(job[j].op)
    BY DEF CopyInv, TypeInv, JobsHaveRecords
  <1>2. RecordSound(job[j].op)
    BY <1>1 DEF CopyInv, RecordsSound
  <1>3. journal[job[j].op].source # NoPath /\ journal[job[j].op].target # NoPath
    BY <1>1, ExistingRecord, CopyAssumption DEF CopyInv, TypeInv
  <1> QED BY <1>2, <1>3 DEF CopyInv, ThreadsSound, RecordSound, FileOf

(* A write happens in its place, and touches no file. *)
LEMMA WritesInPlace ==
    ASSUME TypeInv, NEW j \in Jobs, Execute(j),
           journal'[job[j].op].state # journal[job[j].op].state
    PROVE  LET to == journal'[job[j].op].state
           IN /\ UNCHANGED <<disk, database>>
              /\ to = "target_prepared" => job[j].pc = "prepared"
              /\ to = "target_published" => job[j].pc = "synced"
              /\ to = "dependent_state_committed" => job[j].pc = "verified"
              /\ to = "complete" => job[j].pc = "finishing"
              /\ to = "rolled_back" => job[j].pc = "abort"
  <1> DEFINE w == job[j].op
             Place(to) == /\ UNCHANGED <<disk, database>>
                          /\ to = "target_prepared" => job[j].pc = "prepared"
                          /\ to = "target_published" => job[j].pc = "synced"
                          /\ to = "dependent_state_committed" => job[j].pc = "verified"
                          /\ to = "complete" => job[j].pc = "finishing"
                          /\ to = "rolled_back" => job[j].pc = "abort"
  <1>1. w \in Ops /\ journal[w] \in Record
    BY ExecuteIsBusy, BusyRecord
  <1>2. UNCHANGED journal \/ \E to \in States : Write(j, to) /\ Place(to)
    BY DEF Execute, Withdraw, CreatePrepared, FinishPrepared, SpoilPrepared, FinishPlanned,
         RecordPrepared, Discard, Rename, SyncTarget, Publish, CommitDependents, Retract,
         VerifyTarget, RecordDependents, RemoveSource, SyncRemoval, RecordRemoval, Complete,
         Fail, Adopt, WriteFails, States
  <1>3. PICK to \in States : Write(j, to) /\ Place(to)
    BY <1>1, <1>2
  <1>4. journal' = [journal EXCEPT ![w] = [journal[w] EXCEPT !.state = to]]
    BY <1>3 DEF Write
  <1>5. journal'[w].state = to
    BY <1>1, <1>4 DEF TypeInv, TypeOK, Record
  <1> QED BY <1>3, <1>5

(* A late record stays late. *)
LEMMA LateStays ==
    ASSUME TypeInv, NEW j \in Jobs, Execute(j), NEW o \in Ops, Exists(o)
    PROVE  /\ Exists(o)' /\ FileOf(o)' = FileOf(o)
           /\ journal'[o].source = journal[o].source /\ journal'[o].target = journal[o].target
           /\ Late(o) => Late(o)'
  <1>1. CASE o # job[j].op
    BY <1>1, ExecuteWrites DEF Exists, Late, FileOf
  <1>2. CASE o = job[j].op
    BY <1>2, ExecuteWrites, BusyRecord, ExecuteIsBusy DEF Exists, Late, Early, FileOf,
       LegalTransition, RollBackStep, ForwardStep
  <1> QED BY <1>1, <1>2

(* Nobody but the preparation and the publication gives a file a name. *)
LEMMA NamesOnlyGo ==
    ASSUME CopyInv, NEW j \in Jobs, Execute(j), NEW g \in Files, g \in Ops => Late(g)
    PROVE  name'[g] \in {name[g], NoPath}
  <1> DEFINE w == job[j].op
             f == journal[w].file
  <1>1. TypeInv /\ Busy(j) /\ w \in Files /\ w \in Ops /\ f \in Files /\ name \in [Files -> Names]
    BY ExecuteIsBusy, BusyRecord DEF CopyInv, TypeInv, TypeOK
  <1>2. Sound(job[j], journal[w], name[f], name[w], content[w])
    BY <1>1, Engaged
  <1>3. job[j].pc \in {"created", "ready"} => ~Late(w)
    BY <1>2 DEF Sound, KnownRight, Late, Early
  <1> QED BY <1>1, <1>3, ExecuteRenames

LEMMA ContentStays ==
    ASSUME CopyInv, NEW j \in Jobs, Execute(j), NEW g \in Files, content[g] # NoPath
    PROVE  content'[g] # NoPath
  <1> DEFINE w == job[j].op
  <1>1. TypeInv /\ Busy(j) /\ content \in [Files -> Library \cup Strangers \cup {NoPath}]
    BY ExecuteIsBusy DEF CopyInv, TypeInv, TypeOK
  <1>2. content[FileOf(w)] # NoPath
    BY <1>1, Engaged DEF RecordSound
  <1> QED BY <1>1, <1>2, ExecuteFills

(* A file that is a source was published: nobody writes to it again. *)
LEMMA SourceContentStays ==
    ASSUME CopyInv, NEW j \in Jobs, Execute(j), NEW g \in Files, g \in Ops => Late(g)
    PROVE  content'[g] = content[g]
  <1> DEFINE w == job[j].op
             f == journal[w].file
  <1>1. TypeInv /\ Busy(j) /\ content \in [Files -> Library \cup Strangers \cup {NoPath}]
    BY ExecuteIsBusy DEF CopyInv, TypeInv, TypeOK
  <1>2. Sound(job[j], journal[w], name[f], name[w], content[w]) /\ w \in Ops
    BY <1>1, Engaged, BusyRecord
  <1>3. job[j].pc = "writing" => ~Late(w)
    BY <1>2 DEF Sound, KnownRight, Late, Early
  <1>4. UNCHANGED content \/ g # w
    BY <1>2, <1>3, ExecuteFills DEF CopyInv, FinishPrepared
  <1> QED BY <1>1, <1>4, ExecuteFills

(* The files of the others. *)
LEMMA FilesLeftAlone ==
    ASSUME TypeInv, NEW j \in Jobs, Execute(j),
           NEW g \in Files \ {job[j].op, journal[job[j].op].file}
    PROVE  name'[g] = name[g] /\ content'[g] = content[g]
  <1>1. job[j].op \in Files /\ journal[job[j].op].file \in Files
        /\ name \in [Files -> Names]
        /\ content \in [Files -> Library \cup Strangers \cup {NoPath}]
    BY ExecuteIsBusy, BusyRecord DEF TypeInv, TypeOK
  <1> QED BY <1>1, ExecuteRenames, ExecuteFills

(* Goto keeps the operation and the known state; a journal write sets them. *)
LEMMA GotoThread ==
    ASSUME TypeInv, NEW j \in Jobs, NEW pc, Goto(j, pc)
    PROVE  job'[j].pc = pc /\ job'[j].op = job[j].op /\ job'[j].known = job[j].known
  BY DEF Goto, Becomes, TypeInv, TypeOK

LEMMA RestThread ==
    ASSUME TypeInv, NEW j \in Jobs, Return(j) \/ Done(j) \/ Becomes(j, Idle)
    PROVE  ~Busy(j)'
  BY DEF Return, Done, Becomes, Idle, Scan, Busy, TypeInv, TypeOK

LEMMA WriteThread ==
    ASSUME TypeInv, NEW j \in Jobs, Busy(j), NEW pc, NEW to \in States,
           Write(j, to), Becomes(j, At(pc, job[j].op, to))
    PROVE  /\ job'[j].pc = pc /\ job'[j].op = job[j].op /\ job'[j].known = to
           /\ journal'[job[j].op].state = to
           /\ journal'[job[j].op].target = journal[job[j].op].target
           /\ journal'[job[j].op].file = journal[job[j].op].file
  <1>1. job[j].op \in Ops /\ journal[job[j].op] \in Record
    BY BusyRecord
  <1>2. journal' = [journal EXCEPT ![job[j].op] = [journal[job[j].op] EXCEPT !.state = to]]
    BY DEF Write
  <1>3. journal'[job[j].op] = [journal[job[j].op] EXCEPT !.state = to]
    BY <1>1, <1>2 DEF TypeInv, TypeOK
  <1>4. job'[j] = At(pc, job[j].op, to)
    BY DEF Becomes, TypeInv, TypeOK
  <1> QED BY <1>1, <1>3, <1>4 DEF At, Record

-------------------------------------------------------------------------------
(* The thread of a step is sound after it. *)

LEMMA ExecuteKeepsSound ==
    ASSUME CopyInv, NEW j \in Jobs, Execute(j), Busy(j)'
    PROVE  LET o == job[j].op
               f == journal[o].file
           IN Sound(job'[j], journal'[o], name'[f], name'[o], content'[o])
  <1> DEFINE w == job[j].op
             f == journal[w].file
             Goal == Sound(job'[j], journal'[w], name'[f], name'[w], content'[w])
  <1>1. /\ TypeInv /\ Busy(j) /\ w \in Ops /\ w \in Files /\ Exists(w) /\ f = FileOf(w)
        /\ f \in Files /\ journal[w] \in Record
        /\ name \in [Files -> Names]
        /\ content \in [Files -> Library \cup Strangers \cup {NoPath}]
    BY ExecuteIsBusy, BusyRecord DEF CopyInv, TypeInv, TypeOK
  <1>2. /\ Sound(job[j], journal[w], name[f], name[w], content[w])
        /\ RecordSound(w) /\ f # w
        /\ journal[w].source # NoPath /\ journal[w].target # NoPath
    BY <1>1, Engaged
  <1>3. CASE Withdraw(j) \/ FinishPlanned(j) \/ SyncTarget(j) \/ CommitDependents(j)
             \/ VerifyTarget(j) \/ SyncRemoval(j) \/ Adopt(j)
    <2>1. UNCHANGED <<name, content, journal>>
      BY <1>3 DEF Withdraw, FinishPlanned, SyncTarget, CommitDependents, VerifyTarget,
         SyncRemoval, Adopt, disk
    <2>2. \/ Return(j)
          \/ \E pc : /\ Goto(j, pc)
                     /\ \/ job[j].pc = "created" /\ pc = "unprepared"
                        \/ job[j].pc = "ready" /\ pc = "discard"
                        \/ job[j].pc = "unprepared" /\ (pc = "stuck" \/ (pc = "abort" /\ Intact(w)))
                        \/ job[j].pc = "renamed"
                              /\ (pc \in {"retract", "stuck"} \/ (pc = "synced" /\ Published(w)))
                        \/ job[j].pc = "published" /\ pc \in {"committed", "retract"}
                        \/ job[j].pc = "committed" /\ pc \in {"verified", "stuck"}
                        \/ job[j].pc \in {"discarded", "retracted"} /\ pc \in {"abort", "stuck"}
                        \/ job[j].pc = "unlinked" /\ pc = "removed"
                        \/ job[j].pc = "adopt" /\ pc \in {"prepared", "stuck"}
      <3>1. CASE Withdraw(j) \/ CommitDependents(j) \/ Adopt(j)
        BY <3>1 DEF Withdraw, CommitDependents, Adopt
      <3>2. CASE FinishPlanned(j) \/ VerifyTarget(j)
        <4>1. CASE FinishPlanned(j)
          <5>1. Goto(j, "stuck") \/ (Goto(j, "abort") /\ Intact(w))
            BY <4>1 DEF FinishPlanned
          <5> QED BY <4>1, <5>1 DEF FinishPlanned
        <4>2. CASE VerifyTarget(j)
          <5>1. Goto(j, "stuck") \/ Goto(j, "verified")
            BY <4>2 DEF VerifyTarget
          <5> QED BY <4>2, <5>1 DEF VerifyTarget
        <4> QED BY <3>2, <4>1, <4>2
      <3>3. CASE SyncTarget(j)
        <4>1. \/ Return(j) \/ Goto(j, "stuck") \/ Goto(j, "retract")
              \/ (Goto(j, "synced") /\ Published(w))
          BY <3>3 DEF SyncTarget, CleanUp
        <4>2. job[j].pc = "renamed"
          BY <3>3 DEF SyncTarget
        <4> QED BY <4>1, <4>2
      <3>4. CASE SyncRemoval(j)
        BY <3>4 DEF SyncRemoval
      <3> QED BY <1>3, <3>1, <3>2, <3>3, <3>4
    <2>3. PICK pc :
             /\ Goto(j, pc)
             /\ \/ job[j].pc = "created" /\ pc = "unprepared"
                \/ job[j].pc = "ready" /\ pc = "discard"
                \/ job[j].pc = "unprepared" /\ (pc = "stuck" \/ (pc = "abort" /\ Intact(w)))
                \/ job[j].pc = "renamed"
                      /\ (pc \in {"retract", "stuck"} \/ (pc = "synced" /\ Published(w)))
                \/ job[j].pc = "published" /\ pc \in {"committed", "retract"}
                \/ job[j].pc = "committed" /\ pc \in {"verified", "stuck"}
                \/ job[j].pc \in {"discarded", "retracted"} /\ pc \in {"abort", "stuck"}
                \/ job[j].pc = "unlinked" /\ pc = "removed"
                \/ job[j].pc = "adopt" /\ pc \in {"prepared", "stuck"}
      BY <1>1, <2>2, RestThread
    <2>4. job'[j].pc = pc /\ job'[j].op = w /\ job'[j].known = job[j].known
      BY <1>1, <2>3, GotoThread
    <2>5. Intact(w) => name[w] = NoPath
      BY <1>1, <1>2 DEF Intact, Prepared, Free, RecordSound
    <2>6. Published(w) => name[w] = journal[w].target
      BY DEF Published
    <2>7. KnownRight(job'[j])
      BY <1>2, <2>3, <2>4 DEF Sound, KnownRight, Early
    <2>8. pc \notin {"unlinked", "removed", "finishing", "stuck"} => name[f] = journal[w].source
      BY <1>2, <2>3 DEF Sound
    <2> QED BY <1>2, <2>1, <2>3, <2>4, <2>5, <2>6, <2>7, <2>8 DEF Sound
  <1>4. CASE CreatePrepared(j) \/ FinishPrepared(j) \/ SpoilPrepared(j) \/ Discard(j)
             \/ Rename(j) \/ Retract(j) \/ RemoveSource(j)
    <2>1. UNCHANGED journal
      BY <1>4 DEF CreatePrepared, FinishPrepared, SpoilPrepared, Discard, Rename, Retract,
         RemoveSource
    <2>2. \/ Return(j)
          \/ \E pc : /\ Goto(j, pc)
                     /\ \/ job[j].pc = "created" /\ pc = "writing"
                        \/ job[j].pc = "writing" /\ pc = "unprepared"
                        \/ job[j].pc = "writing" /\ pc = "prepared" /\ content'[w] # NoPath
                        \/ job[j].pc = "ready" /\ pc \in {"renamed", "stuck", "discard"}
                        \/ job[j].pc \in {"discard", "retract"} /\ pc = "stuck"
                        \/ job[j].pc = "discard" /\ pc = "discarded" /\ name'[w] = NoPath
                        \/ job[j].pc = "retract" /\ pc = "retracted" /\ name'[w] = NoPath
                        \/ job[j].pc = "advanced" /\ pc = "unlinked"
      <3>1. CASE FinishPrepared(j)
        <4>1. content' = [content EXCEPT ![w] = content[FileOf(w)]]
          BY <3>1 DEF FinishPrepared
        <4>2. content'[w] # NoPath
          BY <1>1, <1>2, <4>1 DEF RecordSound
        <4> QED BY <3>1, <4>2 DEF FinishPrepared
      <3>2. CASE Discard(j) \/ Retract(j)
        <4>1. Unlink(w) => name'[w] = NoPath
          BY <1>1 DEF Unlink, RenameTo
        <4> QED BY <3>2, <4>1 DEF Discard, Retract
      <3>3. CASE CreatePrepared(j) \/ SpoilPrepared(j) \/ Rename(j) \/ RemoveSource(j)
        BY <3>3 DEF CreatePrepared, SpoilPrepared, Rename, RemoveSource
      <3> QED BY <1>4, <3>1, <3>2, <3>3
    <2>3. PICK pc :
             /\ Goto(j, pc)
             /\ \/ job[j].pc = "created" /\ pc = "writing"
                \/ job[j].pc = "writing" /\ pc = "unprepared"
                \/ job[j].pc = "writing" /\ pc = "prepared" /\ content'[w] # NoPath
                \/ job[j].pc = "ready" /\ pc \in {"renamed", "stuck", "discard"}
                \/ job[j].pc \in {"discard", "retract"} /\ pc = "stuck"
                \/ job[j].pc = "discard" /\ pc = "discarded" /\ name'[w] = NoPath
                \/ job[j].pc = "retract" /\ pc = "retracted" /\ name'[w] = NoPath
                \/ job[j].pc = "advanced" /\ pc = "unlinked"
      BY <1>1, <2>2, RestThread
    <2>4. job'[j].pc = pc /\ job'[j].op = w /\ job'[j].known = job[j].known
      BY <1>1, <2>3, GotoThread
    <2>5. KnownRight(job'[j])
      BY <1>2, <2>3, <2>4 DEF Sound, KnownRight, Early
    <2>6. pc \notin {"unlinked", "stuck"} => name'[f] = journal[w].source
      <3>1. job[j].pc \notin {"unlinked", "removed", "finishing", "stuck"}
        BY <2>3
      <3>2. name[f] = journal[w].source
        BY <1>2, <3>1 DEF Sound
      <3>3. pc \notin {"unlinked", "stuck"} => job[j].pc # "advanced"
        BY <2>3
      <3>4. job[j].pc # "advanced" => name'[f] = name[f]
        BY <1>1, <1>2, ExecuteRenames
      <3> QED BY <3>2, <3>3, <3>4
    <2>7. pc # "finishing"
      BY <2>3
    <2> QED BY <1>2, <2>1, <2>3, <2>4, <2>5, <2>6, <2>7 DEF Sound
  <1>5. CASE RecordPrepared(j) \/ Publish(j) \/ RecordDependents(j) \/ RecordRemoval(j)
             \/ Complete(j) \/ Fail(j)
    <2>1. UNCHANGED <<name, content>>
      BY <1>5 DEF RecordPrepared, Publish, RecordDependents, RecordRemoval, Complete, Fail, disk
    <2>9. journal'[w].source = journal[w].source
      BY ExecuteWrites, <1>1
    <2>2. ASSUME NEW pc \in {"discard", "retract", "stuck"}, Goto(j, pc), UNCHANGED journal,
                 pc = "discard" => job[j].pc = "prepared",
                 pc = "retract" => job[j].pc = "synced"
          PROVE  Goal
      <3>1. job'[j].pc = pc /\ job'[j].op = w /\ job'[j].known = job[j].known
        BY <1>1, <2>2, GotoThread
      <3>2. KnownRight(job'[j])
        BY <1>2, <2>2, <3>1 DEF Sound, KnownRight, Early
      <3> QED BY <1>2, <2>1, <2>2, <3>1, <3>2 DEF Sound
    <2>3. ASSUME NEW pc, NEW to \in States, Write(j, to), Becomes(j, At(pc, w, to)),
                 \/ pc = "ready" /\ to = "target_prepared" /\ job[j].pc = "prepared"
                 \/ pc = "published" /\ to = "target_published" /\ job[j].pc = "synced"
                 \/ pc = "advanced" /\ to = "dependent_state_committed" /\ job[j].pc = "verified"
                 \/ pc = "finishing" /\ to = "source_removed" /\ Delivered(w)
          PROVE  Goal
      <3>1. /\ job'[j].pc = pc /\ job'[j].op = w /\ job'[j].known = to
            /\ journal'[w].state = to /\ journal'[w].target = journal[w].target
        BY <1>1, <2>3, WriteThread
      <3>2. KnownRight(job'[j])
        BY <2>3, <3>1 DEF KnownRight
      <3>3. Delivered(w) => name[f] = NoPath /\ name[w] = journal[w].target
        BY <1>1, <1>2 DEF Delivered, Free, RecordSound
      <3>4. job[j].pc = "synced" => name[w] = journal[w].target
        BY <1>2 DEF Sound
      <3>5. pc # "finishing" => name'[f] = journal'[w].source
        BY <1>2, <2>1, <2>3, <2>9 DEF Sound
      <3> QED BY <2>1, <2>3, <3>1, <3>2, <3>3, <3>4, <3>5 DEF Sound
    <2>4. CASE RecordPrepared(j)
      BY <1>1, <2>2, <2>3, <2>4, RestThread DEF RecordPrepared, WriteFails, CleanUp, States
    <2>5. CASE Publish(j)
      BY <1>1, <2>2, <2>3, <2>5, RestThread DEF Publish, WriteFails, CleanUp, States
    <2>6. CASE RecordDependents(j)
      BY <1>1, <2>3, <2>6, RestThread DEF RecordDependents, States
    <2>7. CASE RecordRemoval(j)
      BY <1>1, <2>2, <2>3, <2>7, RestThread DEF RecordRemoval, States
    <2>8. CASE Complete(j) \/ Fail(j)
      BY <1>1, <2>2, <2>8, RestThread DEF Complete, Fail
    <2> QED BY <1>5, <2>4, <2>5, <2>6, <2>7, <2>8
  <1> QED BY <1>3, <1>4, <1>5 DEF Execute

(* Every record is sound after a step of a job. *)
LEMMA ExecuteKeepsRecords ==
    ASSUME CopyInv, NEW j \in Jobs, Execute(j)
    PROVE  RecordsSound'
  <1> DEFINE w == job[j].op
             f == journal[w].file
  <1>1. /\ TypeInv /\ Busy(j) /\ w \in Ops /\ w \in Files /\ Exists(w) /\ f = FileOf(w)
        /\ f \in Files /\ name \in [Files -> Names]
    BY ExecuteIsBusy, BusyRecord DEF CopyInv, TypeInv, TypeOK
  <1>2. /\ Sound(job[j], journal[w], name[f], name[w], content[w])
        /\ RecordSound(w)
    BY <1>1, Engaged
  <1>3. ASSUME NEW o \in Ops, ~Exists(o)' PROVE name'[o] = NoPath /\ content'[o] = NoPath
    <2>1. ~Exists(o) /\ o # w
      BY <1>1, <1>3, LateStays
    <2>2. o # f
      BY <1>1, <1>2, <2>1 DEF RecordSound, Late
    <2>3. name[o] = NoPath /\ content[o] = NoPath /\ o \in Files
      BY <2>1 DEF CopyInv, RecordsSound, Files
    <2> QED BY <1>1, <2>1, <2>2, <2>3, FilesLeftAlone
  <1>4. ASSUME NEW o \in Ops, Exists(o)' PROVE RecordSound(o)'
    <2>1. Exists(o) /\ o \in Files
      <3>1. CASE o = w
        BY <1>1, <3>1
      <3>2. CASE o # w
        <4>1. journal'[o] = journal[o]
          BY <1>1, <3>2, ExecuteWrites
        <4> QED BY <1>4, <4>1 DEF Exists, Files
      <3> QED BY <3>1, <3>2 DEF Files
    <2>2. /\ RecordSound(o) /\ FileOf(o) \in Files
          /\ FileOf(o)' = FileOf(o)
          /\ journal'[o].source = journal[o].source /\ journal'[o].target = journal[o].target
      BY <1>1, <2>1, LateStays, ExistingRecord DEF CopyInv, RecordsSound, TypeInv
    <2>3. name'[FileOf(o)] \in {name[FileOf(o)], NoPath}
      BY <2>2, NamesOnlyGo DEF RecordSound
    <2>4. FileOf(o) \in Ops => Late(FileOf(o))'
      BY <1>1, <2>2, LateStays DEF RecordSound, Late
    <2>5. content'[FileOf(o)] # NoPath
      BY <2>2, ContentStays DEF RecordSound
    <2>6. name'[o] \in {name[o], NoPath, Sibling(o), journal[o].target}
      BY <1>1, <2>1, ExecuteRenames
    <2>7. \/ journal'[o].state = journal[o].state
          \/ /\ o = w /\ UNCHANGED <<name, content>>
             /\ LegalTransition(TRUE, journal[o].state, journal'[o].state)
             /\ journal'[o].state = "target_prepared" => job[j].pc = "prepared"
             /\ journal'[o].state = "complete" => job[j].pc = "finishing"
             /\ journal'[o].state = "rolled_back" => job[j].pc = "abort"
      BY <1>1, ExecuteWrites, WritesInPlace DEF disk
    <2>8. journal'[o].state \in Filled => content'[o] # NoPath
      <3>1. CASE journal'[o].state = journal[o].state
        BY <2>1, <2>2, <3>1, ContentStays DEF RecordSound
      <3>2. CASE journal'[o].state # journal[o].state
        <4>1. journal'[o].state \in Filled \ {"target_prepared"} => journal[o].state \in Filled
          BY <2>7, <3>2 DEF LegalTransition, ForwardStep, Filled
        <4>2. job[j].pc = "prepared" => content[w] # NoPath
          BY <1>2 DEF Sound
        <4> QED BY <2>2, <2>7, <3>2, <4>1, <4>2 DEF RecordSound
      <3> QED BY <3>1, <3>2
    <2>12. content \in [Files -> Library \cup Strangers \cup {NoPath}]
      BY <1>1 DEF TypeInv, TypeOK
    <2>11. content'[o] \in {NoPath, content'[FileOf(o)]}
      <3>1. content'[FileOf(o)] = content[FileOf(o)]
        BY <1>1, <2>2, SourceContentStays DEF RecordSound
      <3>2. content'[o] \in {content[o], content[FileOf(o)]}
        BY <1>1, <2>1, <2>12, ExecuteFills
      <3> QED BY <2>2, <3>1, <3>2 DEF RecordSound
    <2>9. journal'[o].state = "complete" => name'[FileOf(o)] = NoPath
      <3>1. CASE journal'[o].state = journal[o].state
        BY <2>2, <2>3, <3>1 DEF RecordSound
      <3>2. CASE journal'[o].state # journal[o].state
        BY <1>1, <1>2, <2>7, <3>2 DEF Sound
      <3> QED BY <3>1, <3>2
    <2>10. journal'[o].state = "rolled_back" => name'[o] = NoPath
      <3>1. CASE journal'[o].state = journal[o].state
        <4>1. journal[o].state = "rolled_back" => Late(o)
          BY <2>1 DEF Late, Early
        <4>2. journal[o].state = "rolled_back" => name'[o] \in {name[o], NoPath}
          BY <2>1, <4>1, NamesOnlyGo
        <4> QED BY <2>2, <3>1, <4>2 DEF RecordSound
      <3>2. CASE journal'[o].state # journal[o].state
        BY <1>2, <2>7, <3>2 DEF Sound
      <3> QED BY <3>1, <3>2
    <2> QED BY <2>2, <2>3, <2>4, <2>5, <2>6, <2>8, <2>9, <2>10, <2>11 DEF RecordSound
  <1> QED BY <1>3, <1>4 DEF RecordsSound

-------------------------------------------------------------------------------
(* Every step keeps CopyInv. *)

LEMMA ExecuteKeepsRefs == ASSUME CopyInv, NEW j \in Jobs, Execute(j) PROVE RefsWhole'
  <1> DEFINE w == job[j].op
  <1>1. TypeInv /\ TypeOK /\ Busy(j) /\ w \in Ops /\ w \in Files /\ Exists(w)
    BY ExecuteIsBusy, BusyRecord DEF CopyInv, TypeInv
  <1>2. ASSUME NEW g \in Files, g \in Ops => Late(g), content[g] # NoPath
        PROVE  /\ g \in Ops => journal'[g] # Unused /\ journal'[g].state \notin Early
               /\ content'[g] # NoPath
    BY <1>1, <1>2, LateStays, ContentStays DEF Late, Exists
  <1>3. \A i \in Items : /\ refs[i].file \in Files
                         /\ refs[i].file \in Ops => Late(refs[i].file)
                         /\ content[refs[i].file] # NoPath
    BY <1>1 DEF CopyInv, RefsWhole, TypeOK, Occurrence
  <1>6. ASSUME NEW i \in Items
         PROVE  /\ refs[i].file \in Ops =>
                     journal'[refs[i].file] # Unused /\ journal'[refs[i].file].state \notin Early
                /\ content'[refs[i].file] # NoPath
    BY <1>2, <1>3
  <1>4. CASE UNCHANGED database
    <2>1. refs' = refs
      BY <1>4 DEF database
    <2> QED BY <1>6, <2>1 DEF RefsWhole, Late, Exists
  <1>5. CASE CommitDependents(j) /\ Relocate(w) /\ ~UNCHANGED database
    <2>1. job[j].pc = "published"
      BY <1>5 DEF CommitDependents
    <2>2. journal[w].state = "target_published" /\ content[w] # NoPath
      BY <1>1, <2>1, Engaged DEF Sound, KnownRight, RecordSound, Filled
    <2>3. /\ journal'[w] # Unused /\ journal'[w].state \notin Early
          /\ content'[w] # NoPath
      <3>1. UNCHANGED <<journal, content>>
        BY <1>5 DEF CommitDependents, disk
      <3> QED BY <1>1, <2>2, <3>1 DEF Early, Exists
    <2>4. \A i \in Items : refs'[i] = [path |-> journal[w].target, file |-> w] \/ refs'[i] = refs[i]
      BY <1>5 DEF Relocate
    <2>5. \A i \in Items : refs'[i].file \in {w, refs[i].file}
      BY <2>4
    <2> QED BY <1>6, <2>3, <2>5 DEF RefsWhole, Late, Exists
  <1> QED BY <1>4, <1>5, ExecuteFollows

LEMMA ExecuteKeepsCopy == ASSUME CopyInv, NEW j \in Jobs, Execute(j) PROVE CopyInv'
  <1> DEFINE w == job[j].op
             f == journal[w].file
  <1>1. /\ TypeInv /\ TypeInv' /\ Busy(j) /\ w \in Ops /\ Exists(w) /\ f = FileOf(w)
        /\ RecordsSound' /\ RefsWhole'
    BY ExecuteIsBusy, BusyRecord, ExecuteKeepsType, ExecuteKeepsRecords, ExecuteKeepsRefs
       DEF CopyInv
  <1>2. /\ \A k \in Jobs \ {j} : job'[k] = job[k]
        /\ Busy(j)' => job'[j].op = w
    BY <1>1, ExecuteMoves
  <1>3. journal'[w].file = f
    BY <1>1, ExecuteWrites
  <1>4. \A k \in Jobs \ {j} : Busy(k) =>
          /\ job[k].op \in Files \ {w, f} /\ journal[job[k].op].file \in Files \ {w, f}
          /\ journal'[job[k].op] = journal[job[k].op]
    <2> SUFFICES ASSUME NEW k \in Jobs \ {j}, Busy(k)
                 PROVE  /\ job[k].op \in Files \ {w, f}
                        /\ journal[job[k].op].file \in Files \ {w, f}
                        /\ journal'[job[k].op] = journal[job[k].op]
      OBVIOUS
    <2>1. /\ job[k].op \in Ops /\ job[k].op \in Files
          /\ FileOf(job[k].op) \in Files /\ FileOf(job[k].op) = journal[job[k].op].file
      BY <1>1, BusyRecord
    <2>2. /\ job[k].op # w /\ FileOf(job[k].op) # FileOf(w)
          /\ job[k].op # FileOf(w) /\ w # FileOf(job[k].op)
      BY <1>1 DEF CopyInv, LocksDisjoint
    <2>3. journal'[job[k].op] = journal[job[k].op]
      BY <1>1, <2>1, <2>2, ExecuteWrites
    <2> QED BY <1>1, <2>1, <2>2, <2>3
  <1>5. ThreadsSound'
    <2> SUFFICES ASSUME NEW k \in Jobs, Busy(k)'
                 PROVE  Sound(job'[k], journal'[job'[k].op], name'[journal'[job'[k].op].file],
                              name'[job'[k].op], content'[job'[k].op])
      BY DEF ThreadsSound
    <2>1. CASE k = j
      BY <1>2, <1>3, <2>1, ExecuteKeepsSound
    <2>2. CASE k # j
      <3>1. Busy(k) /\ job'[k] = job[k]
        BY <1>2, <2>2 DEF Busy
      <3>2. /\ journal'[job[k].op] = journal[job[k].op]
            /\ name'[job[k].op] = name[job[k].op] /\ content'[job[k].op] = content[job[k].op]
            /\ name'[journal[job[k].op].file] = name[journal[job[k].op].file]
        BY <1>1, <1>4, <2>2, <3>1, FilesLeftAlone
      <3>3. Sound(job[k], journal[job[k].op], name[journal[job[k].op].file],
                  name[job[k].op], content[job[k].op])
        BY <3>1 DEF CopyInv, ThreadsSound
      <3> QED BY <3>1, <3>2, <3>3
    <2> QED BY <2>1, <2>2
  <1>6. LocksDisjoint'
    <2>1. \A k \in Jobs : Busy(k)' =>
            /\ Busy(k) /\ job'[k].op = job[k].op
            /\ journal'[job[k].op].file = journal[job[k].op].file
      BY <1>1, <1>2, <1>3, <1>4 DEF Busy
    <2> QED BY <2>1 DEF CopyInv, LocksDisjoint, FileOf
  <1>7. RecoveryAlone'
    <2>1. up' = up
      BY DEF Execute, Withdraw, CreatePrepared, FinishPrepared, SpoilPrepared, FinishPlanned,
         RecordPrepared, Discard, Rename, SyncTarget, Publish, CommitDependents, Retract,
         VerifyTarget, RecordDependents, RemoveSource, SyncRemoval, RecordRemoval, Complete,
         Fail, Adopt
    <2> QED BY <1>1, <1>2, <2>1 DEF CopyInv, RecoveryAlone, Recovering, Busy, Jobs
  <1> QED BY <1>1, <1>5, <1>6, <1>7 DEF CopyInv

LEMMA BeginKeepsCopy == ASSUME CopyInv, NEW j \in Workers, Begin(j) PROVE CopyInv'
  <1>1. TypeInv /\ TypeOK /\ TypeInv'
    BY BeginKeepsType DEF CopyInv, TypeInv
  <1>2. PICK o \in Ops, f \in Files, target \in Paths, i \in Items :
          /\ up /\ ~Recovering /\ j \in Jobs /\ j # Recovery
          /\ refs[i].path = name[f] /\ refs[i].file = f /\ name[f] \in Paths
          /\ ~Exists(o) /\ ~Locked(f) /\ Free(target)
          /\ journal' \in [Ops -> Record \cup {Unused}]
          /\ \A q \in Ops \ {o} : journal'[q] = journal[q]
          /\ journal'[o] # Unused
          /\ journal'[o].state = "planned" /\ journal'[o].file = f
          /\ journal'[o].source = name[f] /\ journal'[o].target = target
          /\ job'[j] = At("created", o, "planned")
          /\ \A k \in Jobs \ {j} : job'[k] = job[k]
          /\ UNCHANGED <<up, disk, database, budget>>
    BY <1>1, BeginCreates
  <1>3. UNCHANGED <<name, content, refs>>
    BY <1>2 DEF disk, database
  <1>4. (f \in Ops => Late(f)) /\ content[f] # NoPath /\ f # o
    BY <1>2 DEF CopyInv, RefsWhole, Late
  <1>5. \A q \in Ops : Exists(q) =>
          /\ q # o /\ FileOf(q) # o
          /\ journal'[q] = journal[q]
    BY <1>2 DEF CopyInv, RecordsSound, RecordSound, Exists, FileOf, Late
  <1>6. RecordsSound'
    <2>1. ASSUME NEW q \in Ops, ~Exists(q)' PROVE name'[q] = NoPath /\ content'[q] = NoPath
      <3>1. ~Exists(q)
        BY <1>5, <2>1 DEF Exists
      <3> QED BY <1>3, <3>1 DEF CopyInv, RecordsSound
    <2>2. ASSUME NEW q \in Ops, Exists(q)', q # o PROVE RecordSound(q)'
      <3>1. journal'[q] = journal[q] /\ Exists(q)
        BY <1>2, <2>2 DEF Exists
      <3>2. RecordSound(q)
        BY <3>1 DEF CopyInv, RecordsSound
      <3>3. FileOf(q) \in Ops => Late(FileOf(q))'
        BY <1>5, <3>1, <3>2 DEF RecordSound, Late, Exists, FileOf
      <3> QED BY <1>3, <3>1, <3>2, <3>3 DEF RecordSound, FileOf
    <2>3. RecordSound(o)'
      <3>1. name[o] = NoPath /\ content[o] = NoPath
        BY <1>2 DEF CopyInv, RecordsSound
      <3>2. f \in Ops => Late(f)'
        BY <1>4, <1>5 DEF Late, Exists
      <3> QED BY <1>2, <1>3, <1>4, <3>1, <3>2 DEF RecordSound, FileOf, Filled
    <2> QED BY <2>1, <2>2, <2>3 DEF RecordsSound
  <1>7. RefsWhole'
    BY <1>3, <1>5 DEF CopyInv, RefsWhole, Late, Exists
  <1>8. \A k \in Jobs \ {j} : Busy(k) =>
          /\ job[k].op \in Ops /\ Exists(job[k].op)
          /\ job[k].op # o /\ FileOf(job[k].op) # o
          /\ job[k].op # f /\ FileOf(job[k].op) # f
          /\ journal'[job[k].op] = journal[job[k].op]
    <2> SUFFICES ASSUME NEW k \in Jobs \ {j}, Busy(k)
                 PROVE  /\ job[k].op \in Ops /\ Exists(job[k].op)
                        /\ job[k].op # o /\ FileOf(job[k].op) # o
                        /\ job[k].op # f /\ FileOf(job[k].op) # f
                        /\ journal'[job[k].op] = journal[job[k].op]
      OBVIOUS
    <2>1. job[k].op \in Ops /\ Exists(job[k].op)
      BY <1>1, BusyRecord
    <2>2. job[k].op # f /\ FileOf(job[k].op) # f
      BY <1>2 DEF Locked, Running, Busy
    <2> QED BY <1>2, <1>5, <2>1, <2>2
  <1>9. /\ job'[j].pc = "created" /\ job'[j].op = o /\ job'[j].known = "planned"
    BY <1>2 DEF At
  <1>10. ThreadsSound'
    <2> SUFFICES ASSUME NEW k \in Jobs, Busy(k)'
                 PROVE  Sound(job'[k], journal'[job'[k].op], name'[journal'[job'[k].op].file],
                              name'[job'[k].op], content'[job'[k].op])
      BY DEF ThreadsSound
    <2>1. CASE k = j
      <3>1. content[o] = NoPath
        BY <1>2 DEF CopyInv, RecordsSound
      <3> QED BY <1>2, <1>3, <1>9, <2>1, <3>1 DEF Sound, KnownRight
    <2>2. CASE k # j
      <3>1. Busy(k) /\ job'[k] = job[k]
        BY <1>2, <2>2 DEF Busy
      <3>2. journal'[job[k].op] = journal[job[k].op]
        BY <1>8, <2>2, <3>1
      <3>3. Sound(job[k], journal[job[k].op], name[journal[job[k].op].file],
                  name[job[k].op], content[job[k].op])
        BY <3>1 DEF CopyInv, ThreadsSound
      <3> QED BY <1>3, <3>1, <3>2, <3>3
    <2> QED BY <2>1, <2>2
  <1>11. LocksDisjoint'
    <2>1. \A k \in Jobs \ {j} : Busy(k)' =>
            /\ Busy(k) /\ job'[k].op = job[k].op
            /\ journal'[job[k].op].file = FileOf(job[k].op)
      BY <1>2, <1>8 DEF Busy, FileOf
    <2>2. ASSUME NEW k \in Jobs \ {j}, Busy(k)'
          PROVE  /\ job'[k].op # o /\ journal'[job'[k].op].file # f
                 /\ job'[k].op # f /\ o # journal'[job'[k].op].file
      BY <1>8, <2>1, <2>2
    <2>3. ASSUME NEW k \in Jobs \ {j}, NEW l \in Jobs \ {j}, k # l, Busy(k)', Busy(l)'
          PROVE  /\ job'[k].op # job'[l].op
                 /\ journal'[job'[k].op].file # journal'[job'[l].op].file
                 /\ job'[k].op # journal'[job'[l].op].file
      BY <2>1, <2>3 DEF CopyInv, LocksDisjoint
    <2> QED BY <1>2, <1>9, <2>2, <2>3 DEF LocksDisjoint, FileOf
  <1>12. RecoveryAlone'
    BY <1>2 DEF RecoveryAlone, Recovering, Jobs
  <1> QED BY <1>1, <1>6, <1>7, <1>10, <1>11, <1>12 DEF CopyInv

(* A step that leaves journal, files and database, and at most stops threads. *)
LEMMA RestKeepsCopy ==
    ASSUME CopyInv, TypeInv', RecoveryAlone', UNCHANGED <<name, content, journal, refs>>,
           \A k \in Jobs : Busy(k)' => job'[k] = job[k]
    PROVE  CopyInv'
  <1>1. RecordsSound' /\ RefsWhole'
    BY DEF CopyInv, RecordsSound, RecordSound, RefsWhole, Exists, FileOf, Late
  <1>2. ThreadsSound'
    BY DEF CopyInv, ThreadsSound, Busy
  <1>3. LocksDisjoint'
    BY DEF CopyInv, LocksDisjoint, FileOf, Busy
  <1> QED BY <1>1, <1>2, <1>3 DEF CopyInv

(* The recovery takes up a record at a place that fits what it sees. *)
LEMMA ResumeIsSound ==
    ASSUME CopyInv, NEW o \in Ops, Exists(o), NEW pc \in {Resume(o), "stuck"}
    PROVE  Sound(At(pc, o, journal[o].state), journal[o], name[journal[o].file],
                 name[o], content[o])
  <1>1. TypeOK /\ RecordSound(o) /\ o \in Files /\ FileOf(o) \in Files /\ FileOf(o) = journal[o].file
    BY ExistingRecord DEF CopyInv, TypeInv, RecordsSound, Files, FileOf
  <1>2. Intact(o) => name[o] = NoPath /\ SourceInPlace(o)
    BY <1>1 DEF Intact, Prepared, Free, RecordSound
  <1>3. Adoptable(o) => content[o] # NoPath /\ SourceInPlace(o)
    BY <1>1 DEF Adoptable, RecordSound
  <1>4. Published(o) => name[o] = journal[o].target /\ SourceInPlace(o)
    BY DEF Published
  <1>5. Delivered(o) => name[journal[o].file] = NoPath /\ name[o] = journal[o].target
    BY <1>1 DEF Delivered, Free, RecordSound
  <1>6. \/ pc = "abort" /\ Intact(o)
        \/ pc = "adopt" /\ Adoptable(o) /\ journal[o].state = "planned"
        \/ pc = "ready" /\ journal[o].state = "target_prepared" /\ SourceInPlace(o)
        \/ pc = "synced" /\ Published(o) /\ journal[o].state = "target_prepared"
        \/ pc = "published" /\ Published(o) /\ journal[o].state = "target_published"
        \/ pc = "advanced" /\ Published(o) /\ journal[o].state = "dependent_state_committed"
        \/ pc = "removed" /\ journal[o].state = "dependent_state_committed"
        \/ pc = "finishing" /\ Delivered(o) /\ journal[o].state = "source_removed"
        \/ pc = "stuck"
    BY DEF Resume
  <1>7. SourceInPlace(o) => name[journal[o].file] = journal[o].source
    BY DEF SourceInPlace, FileOf
  <1> QED BY <1>2, <1>3, <1>4, <1>5, <1>6, <1>7 DEF At, Sound, KnownRight

LEMMA InspectKeepsCopy == ASSUME CopyInv, Inspect PROVE CopyInv'
  <1>1. TypeInv /\ TypeInv'
    BY InspectKeepsType DEF CopyInv
  <1>2. PICK o \in Ops :
          /\ Exists(o) /\ Recovering
          /\ \/ job'[Recovery] = At(Resume(o), o, journal[o].state)
             \/ job'[Recovery] = At("stuck", o, journal[o].state)
          /\ \A k \in Jobs \ {Recovery} : job'[k] = job[k]
          /\ UNCHANGED <<up, disk, journal, database, crashes>>
    BY <1>1, InspectMoves
  <1>3. UNCHANGED <<name, content, refs>>
    BY <1>2 DEF disk, database
  <1>4. \A k \in Workers : job[k].pc = "idle" /\ job'[k].pc = "idle"
    BY <1>2, CopyAssumption DEF CopyInv, RecoveryAlone, Jobs
  <1>5. RecordsSound' /\ RefsWhole'
    BY <1>2, <1>3 DEF CopyInv, RecordsSound, RecordSound, RefsWhole, Exists, FileOf, Late
  <1>6. Sound(job'[Recovery], journal[o], name[journal[o].file], name[o], content[o])
    BY <1>2, ResumeIsSound
  <1>7. job'[Recovery].op = o
    BY <1>2 DEF At
  <1>8. ThreadsSound'
    BY <1>2, <1>3, <1>4, <1>6, <1>7 DEF ThreadsSound, Busy, Jobs
  <1>9. LocksDisjoint'
    BY <1>4 DEF LocksDisjoint, Busy, Jobs
  <1>10. RecoveryAlone'
    <2>1. up
      BY <1>2 DEF CopyInv, RecoveryAlone, Recovering, Jobs
    <2> QED BY <1>2, <1>4, <2>1 DEF RecoveryAlone
  <1> QED BY <1>1, <1>5, <1>8, <1>9, <1>10 DEF CopyInv

LEMMA IntrudeKeepsCopy == ASSUME CopyInv, Intrude PROVE CopyInv'
  <1>1. TypeInv /\ TypeOK /\ TypeInv'
    BY IntrudeKeepsType DEF CopyInv, TypeInv
  <1>2. PICK f \in Strangers, p \in Paths :
          /\ name[f] = NoPath
          /\ \A o \in Ops : Exists(o) => FileOf(o) # f
          /\ name' = [name EXCEPT ![f] = p]
          /\ UNCHANGED <<up, limbo, content, journal, database, job, budget>>
    BY DEF Intrude
  <1>3. f \in Files /\ f \notin Ops /\ refs' = refs
    BY <1>2, CopyAssumption DEF Files, database
  <1>4. \A g \in Files \ {f} : name'[g] = name[g]
    BY <1>1, <1>2 DEF TypeOK
  <1>5. \A o \in Ops : /\ name'[o] = name[o]
                       /\ Exists(o) => name'[FileOf(o)] = name[FileOf(o)]
    <2>1. \A o \in Ops : o \in Files /\ o # f
      BY <1>3 DEF Files
    <2>2. \A o \in Ops : Exists(o) => FileOf(o) \in Files \ {f}
      BY <1>1, <1>2, ExistingRecord
    <2> QED BY <1>4, <2>1, <2>2
  <1>6. RecordsSound'
    <2>1. ASSUME NEW o \in Ops, Exists(o)' PROVE RecordSound(o)'
      <3>1. Exists(o) /\ RecordSound(o)
        BY <1>2, <2>1 DEF Exists, CopyInv, RecordsSound
      <3>2. name'[o] = name[o] /\ name'[FileOf(o)] = name[FileOf(o)]
        BY <1>5, <3>1
      <3> QED BY <1>2, <3>1, <3>2 DEF RecordSound, FileOf, Late, Exists
    <2>2. ASSUME NEW o \in Ops, ~Exists(o)' PROVE name'[o] = NoPath /\ content'[o] = NoPath
      BY <1>2, <1>5, <2>2 DEF CopyInv, RecordsSound, Exists
    <2> QED BY <2>1, <2>2 DEF RecordsSound
  <1>7. RefsWhole'
    BY <1>2, <1>3 DEF CopyInv, RefsWhole, Late, Exists
  <1>8. ThreadsSound'
    <2> SUFFICES ASSUME NEW k \in Jobs, Busy(k)
                 PROVE  Sound(job[k], journal[job[k].op], name'[journal[job[k].op].file],
                              name'[job[k].op], content[job[k].op])
      BY <1>2 DEF ThreadsSound, Busy
    <2>1. /\ Sound(job[k], journal[job[k].op], name[journal[job[k].op].file],
                   name[job[k].op], content[job[k].op])
          /\ job[k].op \in Ops /\ Exists(job[k].op)
          /\ FileOf(job[k].op) = journal[job[k].op].file
      BY <1>1, BusyRecord DEF CopyInv, ThreadsSound
    <2> QED BY <1>5, <2>1
  <1>9. LocksDisjoint' /\ RecoveryAlone'
    BY <1>2 DEF CopyInv, LocksDisjoint, RecoveryAlone, Recovering, Busy, FileOf
  <1> QED BY <1>1, <1>6, <1>7, <1>8, <1>9 DEF CopyInv

LEMMA InitiallyCopy == ASSUME Init PROVE CopyInv
  <1>1. TypeInv /\ TypeOK /\ RecoveryAlone
    BY InitIsTyped DEF TypeInv
  <1>2. \A j \in Jobs : ~Busy(j)
    BY DEF Init, Idle, Busy
  <1>3. \A o \in Ops : ~Exists(o) /\ name[o] = NoPath /\ content[o] = NoPath
    BY DEF Init, Exists, Files
  <1>4. RecordsSound
    BY <1>3 DEF RecordsSound
  <1>5. RefsWhole
    <2>1. \A i \in Items : refs[i].file \notin Ops /\ refs[i].file \in Files
      BY CopyAssumption DEF Init, Files
    <2>2. content = [f \in Files |-> IF f \in Ops THEN NoPath ELSE f]
      BY DEF Init
    <2> QED BY <2>1, <2>2, CopyAssumption DEF RefsWhole, Files
  <1> QED BY <1>1, <1>2, <1>4, <1>5 DEF CopyInv, ThreadsSound, LocksDisjoint

(* Without a power loss, no crash moves a file. *)
LEMMA CopyInductive ==
    ASSUME "power" \notin CrashKinds
    PROVE  /\ Init => CopyInv
           /\ CopyInv /\ [Next]_vars => CopyInv'
  <1>1. ASSUME CopyInv, [Next]_vars PROVE CopyInv'
    <2>1. CASE Start \/ Close \/ EndRecovery
      <3>1. /\ TypeInv' /\ RecoveryAlone' /\ ~Busy(Recovery)'
            /\ UNCHANGED <<disk, journal, database>>
            /\ \A k \in Jobs \ {Recovery} : job'[k] = job[k]
        BY <1>1, <2>1, StartStopMoves DEF CopyInv
      <3>2. UNCHANGED <<name, content, refs>> /\ \A k \in Jobs : Busy(k)' => job'[k] = job[k]
        BY <3>1 DEF disk, database
      <3> QED BY <1>1, <3>1, <3>2, RestKeepsCopy
    <2>2. CASE Crash
      <3>1. TypeInv' /\ RecoveryAlone'
        BY <1>1, <2>2, CrashKeepsType DEF CopyInv
      <3>2. UNCHANGED <<name, content, journal, refs>>
        BY <2>2 DEF Crash, database
      <3>3. \A k \in Jobs : ~Busy(k)'
        BY <2>2 DEF Crash, Idle, Busy
      <3> QED BY <1>1, <3>1, <3>2, <3>3, RestKeepsCopy
    <2>3. CASE Intrude
      BY <1>1, <2>3, IntrudeKeepsCopy
    <2>4. CASE \E j \in Workers : Begin(j)
      BY <1>1, <2>4, BeginKeepsCopy
    <2>5. CASE \E j \in Jobs : Execute(j)
      BY <1>1, <2>5, ExecuteKeepsCopy
    <2>6. CASE Inspect
      BY <1>1, <2>6, InspectKeepsCopy
    <2>7. CASE UNCHANGED vars
      <3>1. UNCHANGED <<up, name, limbo, content, journal, refs, relocated, job, faults, crashes>>
        BY <2>7 DEF vars
      <3>2. TypeInv' /\ RecoveryAlone'
        BY <1>1, <3>1 DEF CopyInv, TypeInv, TypeOK, JobsHaveRecords, Busy, Exists,
           RecoveryAlone, Recovering
      <3> QED BY <1>1, <3>1, <3>2, RestKeepsCopy
    <2> QED BY <1>1, <2>1, <2>2, <2>3, <2>4, <2>5, <2>6, <2>7 DEF Next
  <1> QED BY <1>1, InitiallyCopy

-------------------------------------------------------------------------------
(* References.  Which operations the list database has followed, and where  *)
(* the threads and the occurrences stand to them.                           *)

RelocatedRight ==
    \A o \in relocated :
        /\ Late(o) /\ journal[o].state # "rolled_back"
        /\ \A i \in Items : ~(refs[i].path = journal[o].source /\ refs[i].file = FileOf(o))

RecordsFollowed ==
    \A o \in Ops : Exists(o) =>
        /\ journal[o].state = "dependent_state_committed" => o \in relocated
        /\ FileOf(o) \in Ops => FileOf(o) \in relocated

ThreadsFollowed ==
    \A j \in Jobs :
        /\ job[j].pc \in {"committed", "verified"} => job[j].op \in relocated
        /\ job[j].pc \in {"retract", "retracted", "abort"} => job[j].op \notin relocated

RefsFollowed == \A i \in Items : refs[i].file \in Ops => refs[i].file \in relocated

FollowInv ==
    /\ RelocatedRight /\ RecordsFollowed /\ ThreadsFollowed /\ RefsFollowed
    /\ ReferencesNeverDangle

(* Where a step leaves its thread, as far as the list database goes. *)
LEMMA PlacesFollowed ==
    ASSUME CopyInv, ReplayMayFail = FALSE, NEW j \in Jobs, Execute(j)
    PROVE  /\ job'[j].pc = "committed" => job[j].op \in relocated'
           /\ job'[j].pc = "verified" => job[j].pc = "committed" /\ UNCHANGED database
           /\ job'[j].pc \in {"retract", "retracted", "abort"} =>
                 /\ UNCHANGED database
                 /\ \/ job[j].op \notin relocated
                    \/ job[j].pc \in {"renamed", "synced", "unprepared", "discarded",
                                     "retract", "retracted"}
  <1> DEFINE w == job[j].op
             Table(pc) ==
                 /\ pc = "committed" => w \in relocated'
                 /\ pc = "verified" => job[j].pc = "committed" /\ UNCHANGED database
                 /\ pc \in {"retract", "retracted", "abort"} =>
                       /\ UNCHANGED database
                       /\ \/ w \notin relocated
                          \/ job[j].pc \in {"renamed", "synced", "unprepared", "discarded",
                                           "retract", "retracted"}
  <1>1. TypeInv
    BY DEF CopyInv
  <1>2. ASSUME NEW pc, Goto(j, pc), Table(pc) PROVE Table(job'[j].pc)
    BY <1>1, <1>2, GotoThread
  <1>3. ASSUME NEW pc, NEW known, Becomes(j, At(pc, w, known)), Table(pc) PROVE Table(job'[j].pc)
    BY <1>1, <1>3 DEF Becomes, At, TypeInv, TypeOK
  <1>4. ASSUME Return(j) \/ Done(j) PROVE Table(job'[j].pc)
    <2>1. ~Busy(j)'
      BY <1>1, <1>4, RestThread
    <2> QED BY <2>1 DEF Busy
  <1>5. CASE Withdraw(j) \/ CreatePrepared(j) \/ FinishPrepared(j) \/ SpoilPrepared(j)
             \/ Discard(j) \/ Adopt(j)
    <2>1. \/ Return(j)
          \/ \E pc \in {"unprepared", "discard", "writing", "prepared", "discarded", "stuck"} : Goto(j, pc)
      BY <1>5 DEF Withdraw, CreatePrepared, FinishPrepared, SpoilPrepared, Discard, Adopt
    <2> QED BY <1>2, <1>4, <2>1
  <1>6. CASE FinishPlanned(j) \/ Retract(j) \/ SyncRemoval(j)
    <2>1. UNCHANGED database
      BY <1>6 DEF FinishPlanned, Retract, SyncRemoval
    <2>2. \/ Return(j)
          \/ \E pc \in {"abort", "stuck", "retracted", "removed"} :
                /\ Goto(j, pc)
                /\ pc \in {"abort", "retracted"} =>
                      job[j].pc \in {"unprepared", "retract", "discarded", "retracted"}
      BY <1>6 DEF FinishPlanned, Retract, SyncRemoval
    <2> QED BY <1>2, <1>4, <2>1, <2>2
  <1>7. CASE Rename(j)
    <2>1. \E pc \in {"renamed", "stuck", "discard"} : Goto(j, pc)
      BY <1>7 DEF Rename
    <2> QED BY <1>2, <2>1
  <1>8. CASE SyncTarget(j)
    <2>1. \/ Return(j)
          \/ \E pc \in {"synced", "stuck", "retract"} : Goto(j, pc)
      BY <1>8 DEF SyncTarget, CleanUp
    <2>2. job[j].pc = "renamed" /\ UNCHANGED database
      BY <1>8 DEF SyncTarget
    <2> QED BY <1>2, <1>4, <2>1, <2>2
  <1>9. CASE CommitDependents(j)
    <2>1. CASE Relocate(w) /\ Goto(j, "committed")
      <3>1. w \in relocated'
        BY <2>1 DEF Relocate, database
      <3> QED BY <1>2, <2>1, <3>1
    <2>2. CASE RelocateFails(w) /\ Goto(j, "retract")
      <3>1. w \notin relocated /\ UNCHANGED database
        BY <2>2 DEF RelocateFails
      <3> QED BY <1>2, <2>2, <3>1
    <2> QED BY <1>9, <2>1, <2>2 DEF CommitDependents
  <1>10. CASE VerifyTarget(j)
    <2>1. \E pc \in {"verified", "stuck"} : Goto(j, pc)
      BY <1>10 DEF VerifyTarget
    <2>2. job[j].pc = "committed" /\ UNCHANGED database
      BY <1>10 DEF VerifyTarget
    <2> QED BY <1>2, <2>1, <2>2
  <1>11. CASE Publish(j)
    <2>1. \/ Return(j) \/ Goto(j, "retract")
          \/ Becomes(j, At("published", w, "target_published"))
      BY <1>11 DEF Publish, CleanUp
    <2>2. job[j].pc = "synced" /\ UNCHANGED database
      BY <1>11 DEF Publish
    <2> QED BY <1>2, <1>3, <1>4, <2>1, <2>2
  <1>12. CASE RecordPrepared(j) \/ RecordDependents(j) \/ RecordRemoval(j) \/ RemoveSource(j)
              \/ Complete(j) \/ Fail(j)
    <2>1. \/ Return(j) \/ Done(j)
          \/ \E pc \in {"discard", "stuck", "unlinked"} : Goto(j, pc)
          \/ \E pc \in {"ready", "advanced", "finishing"}, known \in States :
                 Becomes(j, At(pc, w, known))
      BY <1>12 DEF RecordPrepared, RecordDependents, RecordRemoval, RemoveSource, Complete, Fail,
         CleanUp, States
    <2> QED BY <1>2, <1>3, <1>4, <2>1
  <1> QED BY <1>5, <1>6, <1>7, <1>8, <1>9, <1>10, <1>11, <1>12 DEF Execute

(* The committer's transaction. *)
LEMMA RelocationAdds ==
    ASSUME CopyInv, NEW j \in Jobs, Execute(j), ~UNCHANGED database
    PROVE  LET o == job[j].op
           IN /\ job[j].pc = "published" /\ o \notin relocated /\ relocated' = relocated \cup {o}
              /\ UNCHANGED <<name, content, journal>>
              /\ \A i \in Items :
                    \/ refs'[i] = [path |-> journal[o].target, file |-> o]
                    \/ refs'[i] = refs[i] /\ refs[i].path # journal[o].source
  <1>1. CommitDependents(j) /\ Relocate(job[j].op)
    BY ExecuteFollows
  <1> QED BY <1>1 DEF CommitDependents, Relocate, disk

(* A file that an occurrence refers to is neither renamed nor removed. *)
LEMMA ReferredStays ==
    ASSUME CopyInv, FollowInv, NEW j \in Jobs, Execute(j),
           NEW i \in Items, refs[i].file \notin Strangers
    PROVE  name'[refs[i].file] = name[refs[i].file] /\ content'[refs[i].file] # NoPath
  <1> DEFINE w == job[j].op
             f == journal[w].file
             g == refs[i].file
  <1>1. /\ Busy(j) /\ w \in Ops /\ w \in Files /\ Exists(w) /\ f = FileOf(w) /\ f \in Files
        /\ g \in Files /\ name \in [Files -> Names]
    BY ExecuteIsBusy, BusyRecord DEF CopyInv, TypeInv, TypeOK, Occurrence
  <1>2. Sound(job[j], journal[w], name[f], name[w], content[w])
    BY <1>1, Engaged
  <1>3. content[g] # NoPath /\ name[g] = refs[i].path
    BY DEF FollowInv, ReferencesNeverDangle
  <1>4. content'[g] # NoPath
    BY <1>1, <1>3, ContentStays
  <1>5. g = w => job[j].pc \notin {"created", "ready", "writing", "discard", "retract"}
    <2>1. g = w => w \in relocated
      BY <1>1 DEF FollowInv, RefsFollowed
    <2>2. w \in relocated => Late(w)
      BY DEF FollowInv, RelocatedRight
    <2>3. Late(w) => job[j].pc \notin {"created", "ready", "writing", "discard"}
      BY <1>2 DEF Sound, KnownRight, Late, Early
    <2>4. w \in relocated => job[j].pc # "retract"
      BY DEF FollowInv, ThreadsFollowed
    <2> QED BY <2>1, <2>2, <2>3, <2>4
  <1>6. g = f => ~(job[j].pc = "advanced" /\ Published(w))
    <2>1. job[j].pc = "advanced" => w \in relocated
      BY <1>1, <1>2 DEF Sound, KnownRight, FollowInv, RecordsFollowed
    <2>2. w \in relocated => ~(refs[i].path = journal[w].source /\ g = f)
      BY <1>1 DEF FollowInv, RelocatedRight
    <2>3. Published(w) => name[f] = journal[w].source
      BY <1>1 DEF Published, SourceInPlace
    <2> QED BY <1>3, <2>1, <2>2, <2>3
  <1>7. name'[g] = name[g]
    BY <1>1, <1>5, <1>6, ExecuteRenames DEF CopyInv
  <1> QED BY <1>4, <1>7

LEMMA ExecuteKeepsFollow ==
    ASSUME CopyInv, FollowInv, ReplayMayFail = FALSE, NEW j \in Jobs, Execute(j)
    PROVE  FollowInv'
  <1> DEFINE w == job[j].op
             f == journal[w].file
             Done2 == relocated' = relocated /\ refs' = refs
             Adds == /\ job[j].pc = "published" /\ w \notin relocated
                     /\ relocated' = relocated \cup {w}
                     /\ UNCHANGED <<name, content, journal>>
                     /\ \A i \in Items :
                           \/ refs'[i] = [path |-> journal[w].target, file |-> w]
                           \/ refs'[i] = refs[i] /\ refs[i].path # journal[w].source
  <1>1. /\ TypeInv /\ Busy(j) /\ w \in Ops /\ w \in Files /\ Exists(w) /\ f = FileOf(w)
        /\ relocated \subseteq Ops
    BY ExecuteIsBusy, BusyRecord DEF CopyInv, TypeInv, TypeOK
  <1>2. /\ Sound(job[j], journal[w], name[f], name[w], content[w])
        /\ RecordSound(w) /\ f # w
    BY <1>1, Engaged
  <1>3. Done2 \/ Adds
    <2>1. CASE UNCHANGED database
      BY <2>1 DEF database
    <2>2. CASE ~UNCHANGED database
      BY <2>2, RelocationAdds
    <2> QED BY <2>1, <2>2
  <1>4. Adds => journal[w].state = "target_published" /\ name[w] = journal[w].target
                /\ content[w] # NoPath
    BY <1>2 DEF Sound, KnownRight, RecordSound, Filled
  <1>5. \A o \in Ops : Exists(o) =>
          /\ journal'[o].file = journal[o].file /\ journal'[o].source = journal[o].source
    BY <1>1, LateStays DEF FileOf
  <1>6. \A o \in relocated : o \in Ops /\ Late(o) /\ Exists(o)
    BY <1>1 DEF FollowInv, RelocatedRight, Late
  <1>7. RelocatedRight'
    <2>1. ASSUME NEW o \in relocated'
          PROVE  journal'[o] # Unused /\ journal'[o].state \notin Early \cup {"rolled_back"}
      <3>1. CASE o \in relocated
        <4>1. journal'[o] # Unused /\ journal'[o].state \notin Early
          BY <1>1, <1>6, <3>1, LateStays DEF Late, Exists
        <4>2. journal[o].state # "rolled_back"
          BY <3>1 DEF FollowInv, RelocatedRight
        <4>3. o = w => job[j].pc # "abort"
          BY <3>1 DEF FollowInv, ThreadsFollowed
        <4>4. journal'[o].state # "rolled_back"
          <5>1. CASE o = w
            BY <1>1, <4>2, <4>3, <5>1, WritesInPlace
          <5>2. CASE o # w
            BY <1>1, <1>6, <3>1, <4>2, <5>2, ExecuteWrites
          <5> QED BY <5>1, <5>2
        <4> QED BY <4>1, <4>4
      <3>2. CASE o \notin relocated
        <4>1. o = w /\ Adds
          BY <1>3, <2>1, <3>2
        <4> QED BY <1>1, <1>4, <4>1 DEF Early, Exists
      <3> QED BY <3>1, <3>2
    <2>2. ASSUME NEW o \in relocated', NEW i \in Items
          PROVE  ~(refs'[i].path = journal'[o].source /\ refs'[i].file = journal'[o].file)
      <3>1. CASE Done2
        <4>1. o \in relocated
          BY <2>2, <3>1
        <4>2. ~(refs[i].path = journal[o].source /\ refs[i].file = journal[o].file)
          BY <4>1 DEF FollowInv, RelocatedRight, FileOf
        <4> QED BY <1>5, <1>6, <3>1, <4>1, <4>2
      <3>2. CASE Adds
        <4>1. journal' = journal /\ (o \in relocated \/ o = w)
          BY <2>2, <3>2
        <4>2. CASE refs'[i] = [path |-> journal[w].target, file |-> w]
          <5>1. refs'[i].file = w
            BY <4>2
          <5>2. o \in relocated => journal[o].file # w
            BY <1>1, <1>6, <3>2 DEF FollowInv, RecordsFollowed, FileOf
          <5> QED BY <1>2, <4>1, <5>1, <5>2
        <4>3. CASE refs'[i] = refs[i] /\ refs[i].path # journal[w].source
          <5>1. o \in relocated => ~(refs[i].path = journal[o].source /\ refs[i].file = journal[o].file)
            BY DEF FollowInv, RelocatedRight, FileOf
          <5> QED BY <4>1, <4>3, <5>1
        <4> QED BY <3>2, <4>2, <4>3
      <3> QED BY <1>3, <3>1, <3>2
    <2> QED BY <2>1, <2>2 DEF RelocatedRight, Late, Exists, FileOf
  <1>8. RecordsFollowed'
    <2>1. relocated \subseteq relocated'
      BY <1>3
    <2>2. ASSUME NEW o \in Ops, Exists(o)'
          PROVE  /\ journal'[o].state = "dependent_state_committed" => o \in relocated
                 /\ journal'[o].file \in Ops => journal'[o].file \in relocated
      <3>1. Exists(o) /\ journal'[o].file = journal[o].file
        <4>1. CASE o = w
          BY <1>1, <1>5, <4>1
        <4>2. CASE o # w
          <5>1. journal'[o] = journal[o]
            BY <1>1, <4>2, ExecuteWrites
          <5> QED BY <2>2, <5>1 DEF Exists
        <4> QED BY <4>1, <4>2
      <3>2. journal[o].file \in Ops => journal[o].file \in relocated
        BY <3>1 DEF FollowInv, RecordsFollowed, FileOf
      <3>3. journal'[o].state = "dependent_state_committed" => o \in relocated
        <4>1. CASE journal'[o].state = journal[o].state
          BY <3>1, <4>1 DEF FollowInv, RecordsFollowed
        <4>2. CASE journal'[o].state # journal[o].state
          <5>1. o = w
            BY <1>1, <4>2, ExecuteWrites
          <5>2. journal'[o].state = "dependent_state_committed" => job[j].pc = "verified"
            BY <1>1, <4>2, <5>1, WritesInPlace
          <5> QED BY <5>1, <5>2 DEF FollowInv, ThreadsFollowed
        <4> QED BY <4>1, <4>2
      <3> QED BY <3>1, <3>2, <3>3
    <2> QED BY <2>1, <2>2 DEF RecordsFollowed, FileOf
  <1>9. ThreadsFollowed'
    <2>1. ASSUME NEW k \in Jobs \ {j}
          PROVE  /\ job'[k].pc \in {"committed", "verified"} => job'[k].op \in relocated'
                 /\ job'[k].pc \in {"retract", "retracted", "abort"} => job'[k].op \notin relocated'
      <3>1. job'[k] = job[k]
        BY <1>1, ExecuteMoves
      <3>2. Busy(k) => job[k].op # w
        BY <1>1 DEF CopyInv, LocksDisjoint
      <3>3. /\ job[k].pc \in {"committed", "verified"} => job[k].op \in relocated
            /\ job[k].pc \in {"retract", "retracted", "abort"} => job[k].op \notin relocated
        BY DEF FollowInv, ThreadsFollowed
      <3> QED BY <1>3, <3>1, <3>2, <3>3 DEF Busy
    <2>2. /\ job'[j].pc \in {"committed", "verified"} => job'[j].op \in relocated'
          /\ job'[j].pc \in {"retract", "retracted", "abort"} => job'[j].op \notin relocated'
      <3>1. Busy(j)' => job'[j].op = w
        BY <1>1, ExecuteMoves
      <3>2. job'[j].pc \in {"committed", "verified"} => w \in relocated'
        BY <1>3, PlacesFollowed DEF FollowInv, ThreadsFollowed
      <3>3. job[j].pc \in {"renamed", "synced", "unprepared", "discarded"} => w \notin relocated
        BY <1>2 DEF Sound, KnownRight, FollowInv, RelocatedRight, Late, Early
      <3>4. job[j].pc \in {"retract", "retracted"} => w \notin relocated
        BY DEF FollowInv, ThreadsFollowed
      <3>5. job'[j].pc \in {"retract", "retracted", "abort"} => w \notin relocated'
        BY <3>3, <3>4, PlacesFollowed DEF database
      <3> QED BY <3>1, <3>2, <3>5 DEF Busy
    <2> QED BY <2>1, <2>2 DEF ThreadsFollowed
  <1>10. RefsFollowed' /\ ReferencesNeverDangle'
    <2>1. ASSUME NEW i \in Items, refs'[i] = refs[i]
          PROVE  /\ refs'[i].file \in Ops => refs'[i].file \in relocated'
                 /\ refs'[i].file \notin Strangers =>
                       name'[refs'[i].file] = refs'[i].path /\ content'[refs'[i].file] # NoPath
      <3>1. refs[i].file \in Ops => refs[i].file \in relocated
        BY DEF FollowInv, RefsFollowed
      <3>2. refs[i].file \notin Strangers => name[refs[i].file] = refs[i].path
        BY DEF FollowInv, ReferencesNeverDangle
      <3> QED BY <1>3, <2>1, <3>1, <3>2, ReferredStays
    <2>2. ASSUME NEW i \in Items, Adds, refs'[i] = [path |-> journal[w].target, file |-> w]
          PROVE  /\ refs'[i].file \in Ops => refs'[i].file \in relocated'
                 /\ refs'[i].file \notin Strangers =>
                       name'[refs'[i].file] = refs'[i].path /\ content'[refs'[i].file] # NoPath
      <3>1. refs'[i].file = w /\ refs'[i].path = journal[w].target
        BY <2>2
      <3> QED BY <1>4, <2>2, <3>1
    <2> QED BY <1>3, <2>1, <2>2 DEF RefsFollowed, ReferencesNeverDangle
  <1> QED BY <1>7, <1>8, <1>9, <1>10 DEF FollowInv

LEMMA BeginKeepsFollow ==
    ASSUME CopyInv, FollowInv, NEW j \in Workers, Begin(j) PROVE FollowInv'
  <1>1. PICK o \in Ops, f \in Files, target \in Paths, i \in Items :
          /\ j \in Jobs
          /\ refs[i].path = name[f] /\ refs[i].file = f
          /\ ~Exists(o)
          /\ \A q \in Ops \ {o} : journal'[q] = journal[q]
          /\ journal'[o].state = "planned" /\ journal'[o].file = f
          /\ job'[j] = At("created", o, "planned")
          /\ \A k \in Jobs \ {j} : job'[k] = job[k]
          /\ UNCHANGED <<up, disk, database, budget>>
    BY BeginCreates DEF CopyInv
  <1>2. UNCHANGED <<name, content, refs, relocated>>
    BY <1>1 DEF disk, database
  <1>3. \A q \in relocated : q \in Ops /\ q # o /\ journal'[q] = journal[q]
    BY <1>1 DEF FollowInv, RelocatedRight, Late, CopyInv, TypeInv, TypeOK
  <1>4. RelocatedRight'
    BY <1>2, <1>3 DEF FollowInv, RelocatedRight, Late, Exists, FileOf
  <1>5. f \in Ops => f \in relocated
    BY <1>1 DEF FollowInv, RefsFollowed
  <1>6. RecordsFollowed'
    BY <1>1, <1>2, <1>5 DEF FollowInv, RecordsFollowed, Exists, FileOf
  <1>7. job'[j].pc = "created"
    BY <1>1 DEF At
  <1>8. ThreadsFollowed'
    BY <1>1, <1>2, <1>7 DEF FollowInv, ThreadsFollowed
  <1> QED BY <1>2, <1>4, <1>6, <1>8 DEF FollowInv, RefsFollowed, ReferencesNeverDangle

(* A step of nobody's: files that are referred to, journal and database stay. *)
LEMMA RestKeepsFollow ==
    ASSUME FollowInv, UNCHANGED <<content, journal, refs, relocated>>,
           \A i \in Items : refs[i].file \notin Strangers =>
                name'[refs[i].file] = name[refs[i].file],
           ThreadsFollowed'
    PROVE  FollowInv'
  <1>1. RelocatedRight' /\ RecordsFollowed' /\ RefsFollowed'
    BY DEF FollowInv, RelocatedRight, RecordsFollowed, RefsFollowed, Late, Exists, FileOf
  <1>2. ReferencesNeverDangle'
    BY DEF FollowInv, ReferencesNeverDangle
  <1> QED BY <1>1, <1>2 DEF FollowInv

LEMMA FollowInductive ==
    ASSUME "power" \notin CrashKinds, ReplayMayFail = FALSE
    PROVE  /\ Init => FollowInv
           /\ CopyInv /\ FollowInv /\ [Next]_vars => FollowInv'
  <1>1. ASSUME Init PROVE FollowInv
    <2>1. \A i \in Items : /\ refs[i].file \in Library \cup Strangers
                           /\ refs[i].file \in Library => refs[i].path = name[refs[i].file]
      BY <1>1 DEF Init
    <2>2. relocated = {} /\ content = [g \in Files |-> IF g \in Ops THEN NoPath ELSE g]
          /\ \A o \in Ops : ~Exists(o)
      BY <1>1 DEF Init, Exists
    <2>3. \A j \in Jobs : job[j].pc = "idle"
      BY <1>1 DEF Init, Idle
    <2>4. RelocatedRight /\ RecordsFollowed /\ ThreadsFollowed /\ RefsFollowed
      BY <2>1, <2>2, <2>3, CopyAssumption
         DEF RelocatedRight, RecordsFollowed, ThreadsFollowed, RefsFollowed
    <2>5. ReferencesNeverDangle
      BY <2>1, <2>2, CopyAssumption DEF ReferencesNeverDangle, Files
    <2> QED BY <2>4, <2>5 DEF FollowInv
  <1>2. ASSUME CopyInv, FollowInv, [Next]_vars PROVE FollowInv'
    <2>1. CASE Start \/ Close \/ EndRecovery
      <3>1. /\ ~Busy(Recovery)' /\ UNCHANGED <<disk, journal, database>>
            /\ \A k \in Jobs \ {Recovery} : job'[k] = job[k]
        BY <1>2, <2>1, StartStopMoves DEF CopyInv
      <3>2. UNCHANGED <<name, content, journal, refs, relocated>>
        BY <3>1 DEF disk, database
      <3>3. ThreadsFollowed'
        BY <1>2, <3>1, <3>2 DEF FollowInv, ThreadsFollowed, Busy
      <3> QED BY <1>2, <3>2, <3>3, RestKeepsFollow
    <2>2. CASE Crash
      <3>1. UNCHANGED <<name, content, journal, refs, relocated>>
        BY <2>2 DEF Crash, database
      <3>2. \A k \in Jobs : job'[k].pc = "idle"
        BY <2>2 DEF Crash, Idle
      <3>3. ThreadsFollowed'
        BY <3>2 DEF ThreadsFollowed
      <3> QED BY <1>2, <3>1, <3>3, RestKeepsFollow
    <2>3. CASE Intrude
      <3>1. PICK f \in Strangers, p \in Paths : name' = [name EXCEPT ![f] = p]
        BY <2>3 DEF Intrude
      <3>2. UNCHANGED <<content, journal, refs, relocated, job>>
        BY <2>3 DEF Intrude, database
      <3>3. \A i \in Items : refs[i].file \notin Strangers =>
                name'[refs[i].file] = name[refs[i].file]
        BY <1>2, <3>1 DEF CopyInv, TypeInv, TypeOK, Occurrence
      <3>4. ThreadsFollowed'
        BY <1>2, <3>2 DEF FollowInv, ThreadsFollowed
      <3> QED BY <1>2, <3>2, <3>3, <3>4, RestKeepsFollow
    <2>4. CASE \E j \in Workers : Begin(j)
      BY <1>2, <2>4, BeginKeepsFollow
    <2>5. CASE \E j \in Jobs : Execute(j)
      BY <1>2, <2>5, ExecuteKeepsFollow
    <2>6. CASE Inspect
      <3>1. PICK o \in Ops :
              /\ Exists(o)
              /\ \/ job'[Recovery] = At(Resume(o), o, journal[o].state)
                 \/ job'[Recovery] = At("stuck", o, journal[o].state)
              /\ \A k \in Jobs \ {Recovery} : job'[k] = job[k]
              /\ UNCHANGED <<up, disk, journal, database, crashes>>
        BY <1>2, <2>6, InspectMoves DEF CopyInv
      <3>2. UNCHANGED <<name, content, journal, refs, relocated>>
        BY <3>1 DEF disk, database
      <3>3. job'[Recovery].op = o /\ job'[Recovery].pc \in {Resume(o), "stuck"}
        BY <3>1 DEF At
      <3>4. \/ Resume(o) = "abort" /\ journal[o].state \in Early
            \/ Resume(o) \in {"adopt", "ready", "synced", "published", "advanced", "removed",
                             "finishing", "stuck"}
        BY DEF Resume, Early
      <3>5. journal[o].state \in Early => o \notin relocated
        BY <1>2 DEF FollowInv, RelocatedRight, Late
      <3>6. ThreadsFollowed'
        BY <1>2, <3>1, <3>2, <3>3, <3>4, <3>5 DEF FollowInv, ThreadsFollowed
      <3> QED BY <1>2, <3>2, <3>6, RestKeepsFollow
    <2>7. CASE UNCHANGED vars
      <3>1. UNCHANGED <<name, content, journal, refs, relocated, job>>
        BY <2>7 DEF vars
      <3>2. ThreadsFollowed'
        BY <1>2, <3>1 DEF FollowInv, ThreadsFollowed
      <3> QED BY <1>2, <3>1, <3>2, RestKeepsFollow
    <2> QED BY <1>2, <2>1, <2>2, <2>3, <2>4, <2>5, <2>6, <2>7 DEF Next
  <1> QED BY <1>1, <1>2

(* At every moment, and not only once an operation settles, a persisted     *)
(* occurrence names a path where its item can be read: no failure, rollback *)
(* or crash takes a file away that the lists refer to.  The committer must  *)
(* accept again what it has already applied; otherwise the executor         *)
(* retracts a target the lists have moved to.                               *)
THEOREM ReferencesStayReadable ==
    ASSUME "power" \notin CrashKinds, ReplayMayFail = FALSE
    PROVE  Spec => []ReferencesNeverDangle
  <1>1. FollowInv => ReferencesNeverDangle
    BY DEF FollowInv
  <1>2. Init => CopyInv
    BY CopyInductive
  <1>3. CopyInv /\ [Next]_vars => CopyInv'
    BY CopyInductive
  <1>4. Init => FollowInv
    BY FollowInductive
  <1>5. CopyInv /\ FollowInv /\ [Next]_vars => FollowInv'
    BY FollowInductive
  <1> QED BY <1>1, <1>2, <1>3, <1>4, <1>5, PTL DEF Spec

-------------------------------------------------------------------------------
(* What a settled operation leaves. *)

Remains(o) ==
    /\ journal[o].state = "complete" =>
          /\ name[FileOf(o)] = NoPath /\ content[o] = content[FileOf(o)]
          /\ name[o] = journal[o].target \/ Carried(o)
    /\ journal[o].state = "rolled_back" =>
          /\ name[o] = NoPath
          /\ name[FileOf(o)] = journal[o].source \/ Carried(FileOf(o))

ItemsRemain ==
    \A item \in Library : \E f \in Files : name[f] # NoPath /\ content[f] = item

(* The states of an operation that has taken over from its source. *)
Taking == {"dependent_state_committed", "source_removed", "complete", "needs_reconciliation"}

LEMMA CarriedStays ==
    ASSUME CopyInv, NEW j \in Jobs, Execute(j), NEW g \in Files, Carried(g)
    PROVE  Carried(g)'
  <1>1. TypeInv
    BY DEF CopyInv
  <1>2. PICK o \in Ops : /\ Exists(o) /\ FileOf(o) = g /\ content[o] = content[g]
                         /\ journal[o].state \in Taking
    BY DEF Carried, Taking
  <1>3. RecordSound(o) /\ Late(o) /\ o \in Files
    BY <1>2 DEF CopyInv, RecordsSound, Late, Early, Taking, Files
  <1>4. content'[g] = content[g] /\ content'[o] = content[o]
    BY <1>2, <1>3, SourceContentStays DEF RecordSound
  <1>5. Exists(o)' /\ FileOf(o)' = g
    BY <1>1, <1>2, LateStays
  <1>6. journal'[o].state \in Taking
    <2>1. \/ journal'[o].state = journal[o].state
          \/ LegalTransition(TRUE, journal[o].state, journal'[o].state)
      BY <1>1, ExecuteWrites
    <2> QED BY <1>2, <2>1 DEF Taking, LegalTransition, RollBackStep, ForwardStep
  <1> QED BY <1>2, <1>4, <1>5, <1>6 DEF Carried, Taking

(* A file that counts loses its name only to an operation that takes over. *)
LEMMA NamesGoCarried ==
    ASSUME CopyInv, FollowInv, NEW j \in Jobs, Execute(j), NEW g \in Files,
           g \in Ops => Late(g) /\ (g \in relocated \/ journal[g].state = "complete"),
           name'[g] # name[g]
    PROVE  Carried(g)'
  <1> DEFINE w == job[j].op
             f == journal[w].file
  <1>1. /\ TypeInv /\ Busy(j) /\ w \in Ops /\ w \in Files /\ Exists(w) /\ f = FileOf(w)
        /\ f \in Files /\ name \in [Files -> Names]
    BY ExecuteIsBusy, BusyRecord DEF CopyInv, TypeInv, TypeOK
  <1>2. Sound(job[j], journal[w], name[f], name[w], content[w]) /\ RecordSound(w)
    BY <1>1, Engaged
  <1>3. g # w
    <2>1. SUFFICES ASSUME g = w PROVE FALSE
      OBVIOUS
    <2>2. Late(w) /\ (w \in relocated \/ journal[w].state = "complete")
      BY <1>1, <2>1
    <2>3. job[j].pc \notin {"writing", "discard", "created", "ready"}
      BY <1>2, <2>2 DEF Sound, KnownRight, Late, Early
    <2>4. job[j].pc # "retract"
      BY <1>2, <2>2 DEF Sound, KnownRight, FollowInv, ThreadsFollowed
    <2>5. g # f
      BY <1>1, <1>2, <2>1 DEF RecordSound
    <2> QED BY <1>1, <2>3, <2>4, <2>5, ExecuteRenames
  <1>4. g = f /\ job[j].pc = "advanced"
    BY <1>1, <1>3, ExecuteRenames
  <1>5. journal[w].state = "dependent_state_committed" /\ content[w] = content[f]
    BY <1>1, <1>2, <1>4 DEF Sound, KnownRight, RecordSound, Filled
  <1>6. Carried(g)
    BY <1>1, <1>4, <1>5 DEF Carried
  <1> QED BY <1>6, CarriedStays

LEMMA ExecuteKeepsRemains ==
    ASSUME CopyInv, CopyInv', FollowInv, ExactlyOneRemains, NEW j \in Jobs, Execute(j)
    PROVE  ExactlyOneRemains'
  <1> DEFINE w == job[j].op
             f == journal[w].file
  <1>1. /\ TypeInv /\ Busy(j) /\ w \in Ops /\ w \in Files /\ Exists(w) /\ f = FileOf(w)
        /\ f \in Files /\ name \in [Files -> Names]
        /\ journal[w].source # NoPath /\ journal[w].target # NoPath
    BY ExecuteIsBusy, BusyRecord, Engaged DEF CopyInv, TypeInv, TypeOK
  <1>2. Sound(job[j], journal[w], name[f], name[w], content[w]) /\ RecordSound(w)
    BY <1>1, Engaged
  <1>3. ASSUME NEW o \in Ops, Exists(o)' PROVE Remains(o)'
    <2>1. Exists(o) /\ o \in Files
      <3>1. o # w => journal'[o] = journal[o]
        BY <1>1, ExecuteWrites
      <3> QED BY <1>1, <1>3, <3>1 DEF Exists, Files
    <2>2. /\ RecordSound(o) /\ FileOf(o) \in Files
          /\ FileOf(o)' = FileOf(o)
          /\ journal'[o].source = journal[o].source /\ journal'[o].target = journal[o].target
      BY <1>1, <2>1, LateStays, ExistingRecord DEF CopyInv, RecordsSound, TypeInv
    <2>3. RecordSound(o)' /\ Remains(o)
      BY <1>3, <2>1 DEF CopyInv, RecordsSound, ExactlyOneRemains, Remains
    <2>4. content'[FileOf(o)] = content[FileOf(o)]
      BY <2>2, SourceContentStays DEF RecordSound
    <2>5. CASE journal'[o].state = journal[o].state
      <3>1. ASSUME journal[o].state = "complete"
            PROVE  /\ content'[o] = content[o]
                   /\ name'[o] = journal[o].target \/ Carried(o)'
        <4>1. Late(o)
          BY <2>1, <3>1 DEF Late, Early
        <4>2. name[o] = journal[o].target \/ Carried(o)
          BY <2>3, <3>1 DEF Remains
        <4> QED BY <2>1, <3>1, <4>1, <4>2, SourceContentStays, CarriedStays, NamesGoCarried
      <3>2. ASSUME journal[o].state = "rolled_back"
            PROVE  name'[FileOf(o)] = journal[o].source \/ Carried(FileOf(o))'
        <4>1. FileOf(o) \in Ops => Late(FileOf(o)) /\ FileOf(o) \in relocated
          BY <2>1, <2>2 DEF RecordSound, FollowInv, RecordsFollowed
        <4>2. name[FileOf(o)] = journal[o].source \/ Carried(FileOf(o))
          BY <2>3, <3>2 DEF Remains
        <4> QED BY <2>2, <4>1, <4>2, CarriedStays, NamesGoCarried
      <3> QED BY <2>2, <2>3, <2>4, <2>5, <3>1, <3>2 DEF Remains, RecordSound
    <2>6. CASE journal'[o].state # journal[o].state
      <3>1. /\ o = w /\ UNCHANGED <<name, content>>
            /\ LegalTransition(TRUE, journal[o].state, journal'[o].state)
            /\ journal'[o].state = "complete" => job[j].pc = "finishing"
            /\ journal'[o].state = "rolled_back" => job[j].pc = "abort"
        BY <1>1, <2>6, ExecuteWrites, WritesInPlace DEF disk
      <3>2. journal'[o].state = "complete" =>
                name[o] = journal[o].target /\ content[o] = content[FileOf(o)]
        BY <1>1, <1>2, <3>1 DEF Sound, KnownRight, RecordSound, Filled
      <3>3. journal'[o].state = "rolled_back" => name[FileOf(o)] = journal[o].source
        BY <1>1, <1>2, <3>1 DEF Sound
      <3> QED BY <2>2, <2>3, <3>1, <3>2, <3>3 DEF Remains, RecordSound
    <2> QED BY <2>5, <2>6
  <1>4. ASSUME NEW item \in Library
        PROVE  \E g \in Files : name'[g] # NoPath /\ content'[g] = item
    <2>1. PICK g \in Files : name[g] # NoPath /\ content[g] = item
      BY DEF ExactlyOneRemains
    <2>2. item # NoPath
      BY CopyAssumption
    <2>3. content[w] \in {NoPath, content[f]} /\ f # w
      BY <1>1, <1>2 DEF RecordSound
    <2>4. content'[g] = content[g]
      BY <1>1, <2>1, <2>2, <2>3, ExecuteFills DEF CopyInv, TypeInv, TypeOK
    <2>5. content'[f] = content[f]
      BY <1>1, <1>2, SourceContentStays DEF RecordSound
    <2>6. CASE name'[g] # NoPath
      BY <2>1, <2>4, <2>6
    <2>7. CASE name'[g] = NoPath /\ g = w
      <3>1. /\ name' = [name EXCEPT ![w] = NoPath]
            /\ job[j].pc \in {"writing", "discard", "retract"}
        <4>1. job[j].pc # "created"
          BY <1>2, <2>1, <2>2, <2>7 DEF Sound
        <4> QED BY <1>1, <2>1, <2>3, <2>7, <4>1, ExecuteRenames
      <3>2. name[f] = journal[w].source
        BY <1>2, <3>1 DEF Sound
      <3>3. name'[f] # NoPath
        BY <1>1, <2>3, <3>1, <3>2
      <3> QED BY <1>1, <2>1, <2>2, <2>3, <2>5, <2>7, <3>3
    <2>8. CASE name'[g] = NoPath /\ g # w
      <3>1. g = f /\ name' = [name EXCEPT ![f] = NoPath] /\ job[j].pc = "advanced" /\ Published(w)
        BY <1>1, <2>1, <2>8, ExecuteRenames
      <3>2. name'[w] # NoPath
        BY <1>1, <2>3, <3>1 DEF Published
      <3>3. content[w] = content[f] /\ Late(w)
        BY <1>1, <1>2, <3>1 DEF Sound, KnownRight, RecordSound, Filled, Late, Early
      <3>4. content'[w] = content[w]
        BY <1>1, <3>3, SourceContentStays
      <3> QED BY <1>1, <2>1, <3>1, <3>2, <3>3, <3>4
    <2> QED BY <2>6, <2>7, <2>8
  <1> QED BY <1>3, <1>4 DEF ExactlyOneRemains, Remains

(* A step that touches no file that counts and no existing record. *)
LEMMA RestKeepsRemains ==
    ASSUME TypeInv, ExactlyOneRemains, UNCHANGED content,
           \A g \in Files : name[g] # NoPath => name'[g] = name[g],
           \A o \in Ops : /\ name'[o] = name[o]
                          /\ Exists(o) => name'[FileOf(o)] = name[FileOf(o)],
           \A o \in Ops : Exists(o) => journal'[o] = journal[o],
           \A o \in Ops : ~Exists(o) /\ Exists(o)' => journal'[o].state = "planned"
    PROVE  ExactlyOneRemains'
  <1>1. \A g \in Files : Carried(g) => Carried(g)'
    BY DEF Carried, Exists, FileOf
  <1>2. ASSUME NEW o \in Ops, Exists(o)' PROVE Remains(o)'
    <2>1. CASE ~Exists(o)
      BY <1>2, <2>1 DEF Remains
    <2>2. CASE Exists(o)
      <3>1. Remains(o) /\ o \in Files /\ FileOf(o) \in Files /\ FileOf(o)' = FileOf(o)
        BY <2>2, ExistingRecord DEF ExactlyOneRemains, Remains, FileOf, TypeInv, Files
      <3> QED BY <1>1, <2>2, <3>1 DEF Remains
    <2> QED BY <2>1, <2>2
  <1>3. ItemsRemain'
    BY DEF ExactlyOneRemains, ItemsRemain
  <1> QED BY <1>2, <1>3 DEF ExactlyOneRemains, Remains, ItemsRemain

LEMMA RemainsInductive ==
    ASSUME "power" \notin CrashKinds
    PROVE  /\ Init => ExactlyOneRemains
           /\ CopyInv /\ FollowInv /\ ExactlyOneRemains /\ [Next]_vars => ExactlyOneRemains'
  <1>1. ASSUME Init PROVE ExactlyOneRemains
    <2>1. \A o \in Ops : ~Exists(o)
      BY <1>1 DEF Init, Exists
    <2>2. ASSUME NEW item \in Library
          PROVE  \E f \in Files : name[f] # NoPath /\ content[f] = item
      <3>1. item \in Files /\ item \notin Ops
        BY CopyAssumption DEF Files
      <3>2. content = [f \in Files |-> IF f \in Ops THEN NoPath ELSE f] /\ name[item] # NoPath
        BY <1>1 DEF Init
      <3> QED BY <3>1, <3>2
    <2> QED BY <2>1, <2>2 DEF ExactlyOneRemains
  <1>2. ASSUME CopyInv, FollowInv, ExactlyOneRemains, [Next]_vars PROVE ExactlyOneRemains'
    <2>1. CASE UNCHANGED <<name, content, journal>>
      <3>1. /\ \A o \in Ops : Exists(o) => journal'[o] = journal[o]
            /\ \A o \in Ops : ~(~Exists(o) /\ Exists(o)')
        BY <2>1 DEF Exists
      <3> QED BY <1>2, <2>1, <3>1, RestKeepsRemains DEF CopyInv
    <2>2. CASE Start \/ Close \/ EndRecovery \/ Crash \/ Inspect \/ UNCHANGED vars
      <3>1. UNCHANGED <<name, content, journal>>
        BY <2>2 DEF Start, Close, EndRecovery, Crash, Inspect, vars, disk
      <3> QED BY <2>1, <3>1
    <2>3. CASE Intrude
      <3>1. PICK f \in Strangers, p \in Paths :
              /\ name[f] = NoPath
              /\ \A o \in Ops : Exists(o) => FileOf(o) # f
              /\ name' = [name EXCEPT ![f] = p]
              /\ UNCHANGED <<up, limbo, content, journal, database, job, budget>>
        BY <2>3 DEF Intrude
      <3>2. f \in Files /\ f \notin Ops /\ name \in [Files -> Names] /\ TypeOK /\ TypeInv
        BY <1>2, CopyAssumption DEF Files, CopyInv, TypeInv, TypeOK
      <3>3. \A g \in Files \ {f} : name'[g] = name[g]
        BY <3>1, <3>2
      <3>4. \A o \in Ops : /\ name'[o] = name[o]
                           /\ Exists(o) => name'[FileOf(o)] = name[FileOf(o)]
        <4>1. \A o \in Ops : o \in Files /\ o # f
          BY <3>2 DEF Files
        <4>2. \A o \in Ops : Exists(o) => FileOf(o) \in Files \ {f}
          BY <3>1, <3>2, ExistingRecord
        <4> QED BY <3>3, <4>1, <4>2
      <3>5. /\ \A o \in Ops : Exists(o) => journal'[o] = journal[o]
            /\ \A o \in Ops : ~(~Exists(o) /\ Exists(o)')
        BY <3>1 DEF Exists
      <3> QED BY <1>2, <3>1, <3>2, <3>3, <3>4, <3>5, RestKeepsRemains
    <2>4. CASE \E j \in Workers : Begin(j)
      <3>1. PICK j \in Workers : Begin(j)
        BY <2>4
      <3>2. PICK o \in Ops :
              /\ ~Exists(o)
              /\ \A q \in Ops \ {o} : journal'[q] = journal[q]
              /\ journal'[o].state = "planned"
              /\ UNCHANGED <<up, disk, database, budget>>
        BY <1>2, <3>1, BeginCreates DEF CopyInv
      <3>3. /\ UNCHANGED <<name, content>>
            /\ \A q \in Ops : Exists(q) => journal'[q] = journal[q]
            /\ \A q \in Ops : ~Exists(q) /\ Exists(q)' => journal'[q].state = "planned"
        BY <3>2 DEF disk, Exists
      <3> QED BY <1>2, <3>3, RestKeepsRemains DEF CopyInv
    <2>5. CASE \E j \in Jobs : Execute(j)
      <3>1. CopyInv'
        BY <1>2, CopyInductive
      <3> QED BY <1>2, <2>5, <3>1, ExecuteKeepsRemains
    <2> QED BY <1>2, <2>2, <2>3, <2>4, <2>5 DEF Next
  <1> QED BY <1>1, <1>2

(* A settled operation leaves exactly one file, whatever failed or crashed: *)
(* when it is complete the source is gone and the target holds the item     *)
(* whole, when it is rolled back the source is where it was and neither a   *)
(* prepared sibling nor a target stays behind; unless a later operation has *)
(* carried on the file that remained.  No library item is ever without a    *)
(* file that holds it whole.  A power loss is excluded, since the cleanup   *)
(* of a failed preparation is not synced before the rollback, and so is a   *)
(* committer that fails for what it has already applied.                    *)
THEOREM OneFileRemains ==
    ASSUME "power" \notin CrashKinds, ReplayMayFail = FALSE
    PROVE  Spec => []ExactlyOneRemains
  <1>1. Init => CopyInv /\ FollowInv /\ ExactlyOneRemains
    BY CopyInductive, FollowInductive, RemainsInductive
  <1>2. CopyInv /\ FollowInv /\ ExactlyOneRemains /\ [Next]_vars
          => (CopyInv /\ FollowInv /\ ExactlyOneRemains)'
    BY CopyInductive, FollowInductive, RemainsInductive
  <1> QED BY <1>1, <1>2, PTL DEF Spec
===============================================================================
