----------------------- MODULE RenamePublicationProofs ------------------------
(***************************************************************************)
(* What holds of RenamePublication for every number of operations, files,  *)
(* names, occurrences and workers, with any bound on faults and crashes:   *)
(* types and the frame of each action, then the safety of the executor,    *)
(* then the refinement of an operation that takes effect once or not at    *)
(* all.                                                                    *)
(***************************************************************************)
EXTENDS RenamePublication, TLAPS

-------------------------------------------------------------------------------
(* Type correctness.  TypeOK is not inductive: a step that writes the      *)
(* record of its job must know that the record exists.                     *)

Busy(j) == job[j].pc \notin {"idle", "scan"}

JobsHaveRecords == \A j \in Jobs : Busy(j) => job[j].op \in Ops /\ Exists(job[j].op)

TypeInv == TypeOK /\ JobsHaveRecords

(* An existing record has all its fields. *)
LEMMA ExistingRecord ==
    ASSUME TypeOK, NEW o \in Ops, Exists(o)
    PROVE  /\ journal[o] \in Record
           /\ FileOf(o) \in Files
           /\ journal[o].source \in Paths /\ journal[o].target \in Paths
  BY DEF TypeOK, Exists, Record, FileOf

(* A record is not the unused one. *)
LEMMA RecordIsUsed == ASSUME NEW r \in Record PROVE r # Unused
  BY DEF Record, Unused, StatesOf, States

(* The step of a job changes its pc and operation only. *)
LEMMA JobMoves ==
    ASSUME TypeOK, NEW j \in Jobs,
           NEW t \in [pc : PCs, op : Ops \cup {0}, known : States \cup {"none"}],
           Becomes(j, t)
    PROVE  /\ job' \in [Jobs -> [pc : PCs, op : Ops \cup {0}, known : States \cup {"none"}]]
           /\ job'[j] = t
           /\ \A k \in Jobs \ {j} : job'[k] = job[k]
  BY DEF TypeOK, Becomes

(* A thread that goes on with the operation it has, in another place. *)
LEMMA GotoMoves ==
    ASSUME TypeInv, NEW j \in Jobs, Busy(j), NEW pc \in PCs, Goto(j, pc)
    PROVE  /\ job' \in [Jobs -> [pc : PCs, op : Ops \cup {0}, known : States \cup {"none"}]]
           /\ job'[j].pc = pc /\ job'[j].op = job[j].op /\ job'[j].known = job[j].known
           /\ \A k \in Jobs \ {j} : job'[k] = job[k]
  BY DEF TypeInv, TypeOK, Goto, Becomes

(* Records are never deleted. *)
KeepsRecords == \A o \in Ops : journal[o] # Unused => journal'[o] # Unused

(* Every record a write leaves behind is a record of the same operation. *)
LEMMA WriteKeepsRecords ==
    ASSUME TypeInv, NEW j \in Jobs, Busy(j), NEW to \in StatesOf(FALSE), Write(j, to)
    PROVE  /\ journal' \in [Ops -> Record \cup {Unused}]
           /\ journal'[job[j].op] = [journal[job[j].op] EXCEPT !.state = to]
           /\ \A o \in Ops \ {job[j].op} : journal'[o] = journal[o]
           /\ KeepsRecords
  <1> DEFINE w == job[j].op
  <1>1. w \in Ops /\ Exists(w)
    BY DEF TypeInv, JobsHaveRecords
  <1>2. journal[w] \in Record
    BY <1>1, ExistingRecord DEF TypeInv
  <1>3. [journal[w] EXCEPT !.state = to] \in Record
    BY <1>2 DEF Record
  <1>4. journal' = [journal EXCEPT ![w] = [journal[w] EXCEPT !.state = to]]
    BY DEF Write
  <1>5. journal \in [Ops -> Record \cup {Unused}]
    BY DEF TypeInv, TypeOK
  <1>6. journal' \in [Ops -> Record \cup {Unused}]
    BY <1>1, <1>3, <1>4, <1>5
  <1>7. journal'[w] \in Record /\ \A o \in Ops \ {w} : journal'[o] = journal[o]
    BY <1>1, <1>3, <1>4, <1>5
  <1>8. KeepsRecords
    BY <1>7, RecordIsUsed DEF KeepsRecords
  <1> QED BY <1>1, <1>4, <1>5, <1>6, <1>7, <1>8
-------------------------------------------------------------------------------
(* The steps of one thread. *)

JobTypeOK == job \in [Jobs -> [pc : PCs, op : Ops \cup {0}, known : States \cup {"none"}]]

(* TypeInv is kept by a thread that stays with its operation while the     *)
(* records of the others survive.                                          *)
LEMMA ThreadKeepsRecords ==
    ASSUME TypeInv, NEW j \in Jobs, JobTypeOK',
           \A k \in Jobs \ {j} : job'[k] = job[k],
           Busy(j)' => job'[j].op \in Ops /\ journal'[job'[j].op] # Unused,
           KeepsRecords
    PROVE  JobsHaveRecords'
  <1> SUFFICES ASSUME NEW k \in Jobs, Busy(k)'
               PROVE  job'[k].op \in Ops /\ journal'[job'[k].op] # Unused
    BY DEF JobsHaveRecords, Exists
  <1>1. CASE k = j
    BY <1>1
  <1>2. CASE k # j
    BY <1>2 DEF TypeInv, JobsHaveRecords, Busy, Exists, KeepsRecords
  <1> QED BY <1>1, <1>2

(* A thread that goes to another place with an unchanged journal. *)
LEMMA GotoKeepsType ==
    ASSUME TypeInv, NEW j \in Jobs, Busy(j), NEW pc \in PCs, Goto(j, pc), UNCHANGED journal
    PROVE  JobTypeOK' /\ JobsHaveRecords'
  <1>1. /\ JobTypeOK'
        /\ job'[j].op = job[j].op
        /\ \A k \in Jobs \ {j} : job'[k] = job[k]
    BY GotoMoves DEF JobTypeOK
  <1>2. job'[j].op \in Ops /\ journal'[job'[j].op] # Unused
    BY <1>1 DEF TypeInv, JobsHaveRecords, Exists
  <1>3. KeepsRecords
    BY DEF KeepsRecords
  <1> QED BY <1>1, <1>2, <1>3, ThreadKeepsRecords

(* A thread that ends, or returns to its scan, with existing records. *)
LEMMA RestKeepsType ==
    ASSUME TypeInv, NEW j \in Jobs, KeepsRecords,
           Becomes(j, Idle) \/ (job[j].op \in Ops /\ Done(j))
    PROVE  JobTypeOK' /\ JobsHaveRecords'
  <1>1. PICK t \in {Idle} \cup {Scan(o) : o \in Ops} : Becomes(j, t)
    BY DEF Done
  <1>2. /\ t \in [pc : PCs, op : Ops \cup {0}, known : States \cup {"none"}]
        /\ t.pc \in {"idle", "scan"}
    BY DEF Idle, Scan, PCs
  <1>3. JobTypeOK' /\ job'[j] = t /\ \A k \in Jobs \ {j} : job'[k] = job[k]
    BY <1>1, <1>2, JobMoves DEF TypeInv, JobTypeOK
  <1>4. ~Busy(j)'
    BY <1>2, <1>3 DEF Busy
  <1> QED BY <1>3, <1>4, ThreadKeepsRecords

(* A thread that is sent to a place of an existing operation. *)
LEMMA AtKeepsType ==
    ASSUME TypeInv, NEW j \in Jobs, KeepsRecords,
           NEW pc \in PCs, NEW o \in Ops, NEW known \in States \cup {"none"},
           Becomes(j, At(pc, o, known)), journal'[o] # Unused
    PROVE  JobTypeOK' /\ JobsHaveRecords'
  <1>1. At(pc, o, known) \in [pc : PCs, op : Ops \cup {0}, known : States \cup {"none"}]
    BY DEF At
  <1>2. /\ JobTypeOK' /\ job'[j] = At(pc, o, known)
        /\ \A k \in Jobs \ {j} : job'[k] = job[k]
    BY <1>1, JobMoves DEF TypeInv, JobTypeOK
  <1>3. job'[j].op = o
    BY <1>2 DEF At
  <1> QED BY <1>2, <1>3, ThreadKeepsRecords

(* Renaming to a planned path keeps the directory a directory. *)
LEMMA RenameKeepsType ==
    ASSUME TypeOK, NEW f \in Files, NEW p \in Paths, RenameTo(f, p)
    PROVE  /\ name' \in [Files -> Paths \cup {NoPath}]
           /\ limbo' \in [Files -> SUBSET (Paths \cup {NoPath})]
  BY DEF TypeOK, RenameTo

LEMMA SyncKeepsType ==
    ASSUME TypeOK, NEW f \in Files, Sync(f)
    PROVE  limbo' \in [Files -> SUBSET (Paths \cup {NoPath})]
  BY DEF TypeOK, Sync

LEMMA RelocateKeepsType ==
    ASSUME TypeOK, NEW o \in Ops, Exists(o), Relocate(o)
    PROVE  refs' \in [Items -> Occurrence] /\ relocated' \subseteq Ops
  <1>1. CASE UNCHANGED database
    BY <1>1 DEF TypeOK, database
  <1>2. CASE ~UNCHANGED database
    <2>1. /\ relocated' = relocated \cup {o}
          /\ refs' = [i \in Items |->
                        IF refs[i].path = journal[o].source
                          THEN [refs[i] EXCEPT !.path = journal[o].target]
                          ELSE refs[i]]
      BY <1>2 DEF Relocate
    <2>2. journal[o].target \in Paths
      BY ExistingRecord
    <2>3. \A i \in Items : [refs[i] EXCEPT !.path = journal[o].target] \in Occurrence
      BY <2>2 DEF TypeOK, Occurrence
    <2> QED BY <2>1, <2>3 DEF TypeOK
  <1> QED BY <1>1, <1>2

(* The injected failures stay within their bound. *)
LEMMA FaultsBounded ==
    ASSUME TypeOK, Fault \/ Smooth
    PROVE  faults' \in 0..MaxFaults
  BY RenameAssumption DEF TypeOK, Fault, Smooth
-------------------------------------------------------------------------------
(* Type correctness of the steps of a running job. *)

(* A write, and a write the journal refuses. *)
LEMMA AttemptKeepsRecords ==
    ASSUME TypeInv, NEW j \in Jobs, Busy(j), NEW to \in StatesOf(FALSE),
           Write(j, to) \/ WriteFails(j, to)
    PROVE  /\ journal' \in [Ops -> Record \cup {Unused}]
           /\ KeepsRecords /\ faults' \in 0..MaxFaults
  <1>1. CASE Write(j, to)
    BY <1>1, WriteKeepsRecords, FaultsBounded DEF Write, TypeInv
  <1>2. CASE WriteFails(j, to)
    <2>1. journal' = journal
      BY <1>2 DEF WriteFails
    <2>2. Fault \/ Smooth
      BY <1>2 DEF WriteFails
    <2> QED BY <2>1, <2>2, FaultsBounded DEF TypeInv, TypeOK, KeepsRecords
  <1> QED BY <1>1, <1>2

LEMMA ExecuteKeepsType ==
    ASSUME TypeInv, NEW j \in Jobs, Execute(j)
    PROVE  TypeInv'
  <1> DEFINE w == job[j].op
  <1>1. Busy(j)
    BY DEF Execute, Withdraw, Check, Rename, SyncTarget, Publish, CommitDependents,
           VerifyTarget, RecordDependents, Complete, RollBack, SyncSource, Fail, Busy
  <1>2. w \in Ops /\ Exists(w)
    BY <1>1 DEF TypeInv, JobsHaveRecords
  <1>3. /\ FileOf(w) \in Files
        /\ journal[w].source \in Paths /\ journal[w].target \in Paths
    BY <1>2, ExistingRecord DEF TypeInv
  <1>4. up' = up /\ crashes' = crashes
    BY DEF Execute, Withdraw, Check, Rename, SyncTarget, Publish, CommitDependents,
           VerifyTarget, RecordDependents, Complete, RollBack, SyncSource, Fail, budget
  <1>5. CASE Withdraw(j) \/ Check(j) \/ VerifyTarget(j)
    <2>1. UNCHANGED <<disk, journal, database>> /\ (Fault \/ Smooth)
      BY <1>5 DEF Withdraw, Check, VerifyTarget, Smooth, budget
    <2>2. PICK pc \in PCs : Goto(j, pc)
      BY <1>5 DEF Withdraw, Check, VerifyTarget, PCs
    <2>3. JobTypeOK' /\ JobsHaveRecords'
      BY <1>1, <2>1, <2>2, GotoKeepsType
    <2> QED BY <1>4, <2>1, <2>3, FaultsBounded
            DEF TypeInv, TypeOK, JobTypeOK, disk, database
  <1>6. CASE Rename(j) \/ SyncTarget(j) \/ RollBack(j) \/ SyncSource(j)
    <2>1. UNCHANGED <<journal, database>> /\ (Fault \/ Smooth)
      BY <1>6 DEF Rename, SyncTarget, RollBack, SyncSource, Smooth, budget
    <2>2. PICK pc \in PCs : Goto(j, pc)
      BY <1>6 DEF Rename, SyncTarget, RollBack, SyncSource, PCs
    <2>3. JobTypeOK' /\ JobsHaveRecords'
      BY <1>1, <2>1, <2>2, GotoKeepsType
    <2>4. \/ UNCHANGED disk
          \/ \E p \in Paths : RenameTo(FileOf(w), p)
          \/ Sync(FileOf(w)) /\ UNCHANGED name
          \/ UNCHANGED limbo /\ UNCHANGED name
      BY <1>3, <1>6 DEF Rename, SyncTarget, RollBack, SyncSource
    <2>5. /\ name' \in [Files -> Paths \cup {NoPath}]
          /\ limbo' \in [Files -> SUBSET (Paths \cup {NoPath})]
      BY <1>3, <2>4, RenameKeepsType, SyncKeepsType DEF TypeInv, TypeOK, disk
    <2> QED BY <1>4, <2>1, <2>3, <2>5, FaultsBounded
            DEF TypeInv, TypeOK, JobTypeOK, database
  <1>7. CASE CommitDependents(j)
    <2>1. UNCHANGED <<disk, journal>> /\ (Fault \/ Smooth)
      BY <1>7 DEF CommitDependents, RelocateFails
    <2>2. PICK pc \in PCs : Goto(j, pc)
      BY <1>7 DEF CommitDependents, PCs
    <2>3. JobTypeOK' /\ JobsHaveRecords'
      BY <1>1, <2>1, <2>2, GotoKeepsType
    <2>4. refs' \in [Items -> Occurrence] /\ relocated' \subseteq Ops
      <3>1. Relocate(w) \/ UNCHANGED database
        BY <1>7 DEF CommitDependents, RelocateFails
      <3> QED BY <1>2, <3>1, RelocateKeepsType DEF TypeInv, TypeOK, database
    <2> QED BY <1>4, <2>1, <2>3, <2>4, FaultsBounded
            DEF TypeInv, TypeOK, JobTypeOK, disk
  <1>8. CASE Publish(j) \/ RecordDependents(j) \/ Complete(j) \/ Fail(j)
    <2>1. UNCHANGED <<disk, database>>
      BY <1>8 DEF Publish, RecordDependents, Complete, Fail
    <2>2. PICK to \in StatesOf(FALSE) : Write(j, to) \/ WriteFails(j, to)
      BY <1>8 DEF Publish, RecordDependents, Complete, Fail, StatesOf, States
    <2>3. /\ journal' \in [Ops -> Record \cup {Unused}]
          /\ KeepsRecords /\ faults' \in 0..MaxFaults
      BY <1>1, <2>2, AttemptKeepsRecords
    <2>4. \/ \E pc \in PCs, known \in States : Becomes(j, At(pc, w, known))
          \/ Goto(j, "rollback")
          \/ Becomes(j, Idle) \/ Done(j)
      BY <1>8 DEF Publish, RecordDependents, Complete, Fail, PCs, States
    <2>5. CASE Becomes(j, Idle) \/ Done(j)
      <3>1. JobTypeOK' /\ JobsHaveRecords'
        BY <1>2, <2>3, <2>5, RestKeepsType
      <3> QED BY <1>4, <2>1, <2>3, <3>1 DEF TypeInv, TypeOK, JobTypeOK, disk, database
    <2>6. CASE \E pc \in PCs, known \in States : Becomes(j, At(pc, w, known))
      <3>1. journal'[w] # Unused
        BY <1>2, <2>3 DEF KeepsRecords, Exists
      <3>2. JobTypeOK' /\ JobsHaveRecords'
        BY <1>2, <2>3, <2>6, <3>1, AtKeepsType
      <3> QED BY <1>4, <2>1, <2>3, <3>2 DEF TypeInv, TypeOK, JobTypeOK, disk, database
    <2>7. CASE Goto(j, "rollback")
      <3>1. Becomes(j, At("rollback", w, job[j].known))
        <4>1. job[j] \in [pc : PCs, op : Ops \cup {0}, known : States \cup {"none"}]
          BY DEF TypeInv, TypeOK
        <4>2. [job[j] EXCEPT !.pc = "rollback"] = At("rollback", w, job[j].known)
          BY <4>1 DEF At
        <4> QED BY <2>7, <4>2 DEF Goto
      <3>2. job[j].known \in States \cup {"none"}
        BY DEF TypeInv, TypeOK
      <3>3. journal'[w] # Unused
        BY <1>2, <2>3 DEF KeepsRecords, Exists
      <3>4. JobTypeOK' /\ JobsHaveRecords'
        BY <1>2, <2>3, <3>1, <3>2, <3>3, AtKeepsType DEF PCs
      <3> QED BY <1>4, <2>1, <2>3, <3>4 DEF TypeInv, TypeOK, JobTypeOK, disk, database
    <2> QED BY <2>4, <2>5, <2>6, <2>7
  <1> QED BY <1>5, <1>6, <1>7, <1>8 DEF Execute
-------------------------------------------------------------------------------
(* Type correctness of every other step. *)

LEMMA CreateKeepsType ==
    ASSUME TypeInv, NEW j \in Jobs, NEW o \in Ops, NEW f \in Files,
           NEW target \in Paths, NEW reverses \in Ops \cup {0},
           name[f] \in Paths, Create(j, o, f, target, reverses)
    PROVE  /\ journal' \in [Ops -> Record \cup {Unused}]
           /\ JobTypeOK' /\ JobsHaveRecords'
  <1> DEFINE r == [state |-> "planned", file |-> f, source |-> name[f],
                   target |-> target, reverses |-> reverses]
  <1>1. r \in Record
    BY DEF Record, StatesOf, States
  <1>2. journal' = [journal EXCEPT ![o] = r]
    BY DEF Create
  <1>3. journal' \in [Ops -> Record \cup {Unused}] /\ journal'[o] = r
    BY <1>1, <1>2 DEF TypeInv, TypeOK
  <1>4. r # Unused
    BY <1>1, RecordIsUsed
  <1>5. KeepsRecords
    BY <1>2, <1>3, <1>4 DEF KeepsRecords, TypeInv, TypeOK
  <1>6. Becomes(j, At("created", o, "planned")) /\ journal'[o] # Unused
    BY <1>3, <1>4 DEF Create
  <1>7. "created" \in PCs /\ "planned" \in States
    BY DEF PCs, States
  <1> QED BY <1>3, <1>5, <1>6, <1>7, AtKeepsType

LEMMA BeginKeepsType == ASSUME TypeInv, NEW j \in Workers, Begin(j) PROVE TypeInv'
  <1>1. PICK o \in Ops, f \in Library, target \in Paths :
          /\ \E i \in Items : refs[i] = [path |-> name[f], file |-> f]
          /\ Create(j, o, f, target, 0)
          /\ UNCHANGED <<up, disk, database, budget>>
    BY DEF Begin
  <1>2. name[f] \in Paths
    BY <1>1 DEF TypeInv, TypeOK, Occurrence
  <1>3. f \in Files /\ j \in Jobs
    BY DEF Files, Jobs
  <1>4. journal' \in [Ops -> Record \cup {Unused}] /\ JobTypeOK' /\ JobsHaveRecords'
    BY <1>1, <1>2, <1>3, CreateKeepsType
  <1> QED BY <1>1, <1>4 DEF TypeInv, TypeOK, JobTypeOK, disk, database, budget

LEMMA CreateUndoKeepsType ==
    ASSUME TypeInv, NEW j \in Workers, CreateUndo(j) PROVE TypeInv'
  <1> DEFINE w == job[j].op
  <1>1. j \in Jobs /\ w \in Ops /\ Exists(w)
    BY DEF CreateUndo, TypeInv, JobsHaveRecords, Busy, Jobs
  <1>2. PICK o \in Ops : Create(j, o, FileOf(w), journal[w].source, w)
    BY DEF CreateUndo
  <1>3. FileOf(w) \in Files /\ journal[w].source \in Paths /\ journal[w].target \in Paths
    BY <1>1, ExistingRecord DEF TypeInv
  <1>4. name[FileOf(w)] \in Paths
    BY <1>3 DEF CreateUndo, Moved
  <1>5. journal' \in [Ops -> Record \cup {Unused}] /\ JobTypeOK' /\ JobsHaveRecords'
    BY <1>1, <1>2, <1>3, <1>4, CreateKeepsType
  <1> QED BY <1>5 DEF CreateUndo, TypeInv, TypeOK, JobTypeOK, disk, database, budget

LEMMA LoadUndoKeepsType == ASSUME TypeInv, NEW j \in Workers, LoadUndo(j) PROVE TypeInv'
  <1>1. UNCHANGED <<up, disk, journal, database, budget>> /\ j \in Jobs
    BY DEF LoadUndo, Jobs
  <1>2. PICK o \in Ops : Exists(o) /\ Becomes(j, At("undo", o, "none"))
    BY DEF LoadUndo
  <1>3. KeepsRecords /\ journal'[o] # Unused
    BY <1>1, <1>2 DEF KeepsRecords, Exists
  <1>4. JobTypeOK' /\ JobsHaveRecords'
    BY <1>1, <1>2, <1>3, AtKeepsType DEF PCs
  <1> QED BY <1>1, <1>4 DEF TypeInv, TypeOK, JobTypeOK, disk, database, budget

LEMMA InspectKeepsType == ASSUME TypeInv, Inspect PROVE TypeInv'
  <1>1. UNCHANGED <<up, disk, journal, database, crashes>> /\ (Fault \/ Smooth)
    BY DEF Inspect
  <1>2. PICK o \in Ops : /\ journal[o] # Unused
                         /\ \/ Becomes(Recovery, At(Resume(o), o, journal[o].state))
                            \/ Becomes(Recovery, At("stuck", o, journal[o].state))
    BY DEF Inspect, NextPending, Pending, Exists
  <1>3. Resume(o) \in PCs /\ "stuck" \in PCs
    BY DEF Resume, PCs
  <1>4. Exists(o)
    BY <1>2 DEF Exists
  <1>5. journal[o].state \in States
    BY <1>4, ExistingRecord DEF TypeInv, Record, StatesOf
  <1>6. KeepsRecords /\ journal'[o] # Unused /\ Recovery \in Jobs
    BY <1>1, <1>4 DEF KeepsRecords, Exists, Jobs
  <1>7. JobTypeOK' /\ JobsHaveRecords'
    BY <1>2, <1>3, <1>5, <1>6, AtKeepsType
  <1> QED BY <1>1, <1>7, FaultsBounded DEF TypeInv, TypeOK, JobTypeOK, disk, database

LEMMA StartKeepsType == ASSUME TypeInv, Start PROVE TypeInv'
  <1>1. Scan(0) \in [pc : PCs, op : Ops \cup {0}, known : States \cup {"none"}]
    BY DEF Scan, PCs
  <1>2. /\ JobTypeOK' /\ job'[Recovery] = Scan(0)
        /\ \A k \in Jobs \ {Recovery} : job'[k] = job[k]
    BY <1>1, JobMoves DEF Start, Jobs, TypeInv, JobTypeOK
  <1>3. ~Busy(Recovery)'
    BY <1>2 DEF Busy, Scan
  <1>4. UNCHANGED <<disk, journal, database, budget>> /\ up' = TRUE /\ KeepsRecords
    BY DEF Start, KeepsRecords
  <1>5. JobsHaveRecords'
    BY <1>2, <1>3, <1>4, ThreadKeepsRecords DEF Jobs
  <1> QED BY <1>2, <1>4, <1>5 DEF TypeInv, TypeOK, JobTypeOK, disk, database, budget

(* A step that only lets one thread rest. *)
LEMMA RestStepKeepsType ==
    ASSUME TypeInv, NEW j \in Jobs, Becomes(j, Idle), up' \in BOOLEAN,
           UNCHANGED <<disk, journal, database, budget>>
    PROVE  TypeInv'
  <1>1. KeepsRecords
    BY DEF KeepsRecords
  <1>2. JobTypeOK' /\ JobsHaveRecords'
    BY <1>1, RestKeepsType
  <1> QED BY <1>2 DEF TypeInv, TypeOK, JobTypeOK, disk, database, budget

LEMMA CrashKeepsType == ASSUME TypeInv, Crash PROVE TypeInv'
  <1>1. /\ up' = FALSE /\ job' = [j \in Jobs |-> Idle]
        /\ UNCHANGED <<journal, database, faults>>
    BY DEF Crash
  <1>2. JobTypeOK' /\ JobsHaveRecords'
    BY <1>1 DEF JobTypeOK, JobsHaveRecords, Busy, Idle, PCs
  <1>3. /\ name' \in [Files -> Paths \cup {NoPath}]
        /\ limbo' \in [Files -> SUBSET (Paths \cup {NoPath})]
    BY DEF Crash, disk, TypeInv, TypeOK
  <1>4. crashes' \in 0..MaxCrashes
    BY RenameAssumption DEF Crash, TypeInv, TypeOK
  <1> QED BY <1>1, <1>2, <1>3, <1>4 DEF TypeInv, TypeOK, JobTypeOK, database

LEMMA IntrudeKeepsType == ASSUME TypeInv, Intrude PROVE TypeInv'
  <1>1. PICK f \in Strangers, p \in Paths : name' = [name EXCEPT ![f] = p]
    BY DEF Intrude
  <1>2. UNCHANGED <<up, limbo, journal, database, job, budget>>
    BY DEF Intrude
  <1>3. name' \in [Files -> Paths \cup {NoPath}]
    BY <1>1 DEF TypeInv, TypeOK
  <1>4. JobsHaveRecords'
    BY <1>2 DEF TypeInv, JobsHaveRecords, Busy, Exists
  <1> QED BY <1>2, <1>3, <1>4 DEF TypeInv, TypeOK, database, budget

LEMMA InitIsTyped == ASSUME Init PROVE TypeInv
  <1>1. Idle \in [pc : PCs, op : Ops \cup {0}, known : States \cup {"none"}]
    BY DEF Idle, PCs
  <1>2. JobTypeOK /\ JobsHaveRecords
    BY <1>1 DEF Init, JobTypeOK, JobsHaveRecords, Busy, Idle
  <1>3. faults \in 0..MaxFaults /\ crashes \in 0..MaxCrashes
    BY RenameAssumption DEF Init
  <1> QED BY <1>2, <1>3 DEF Init, TypeInv, TypeOK, JobTypeOK

(* The state of the program is always well-formed: records, occurrences,   *)
(* names and threads have their shape, and a busy thread has a record.     *)
THEOREM TypeCorrect == Spec => []TypeOK
  <1>1. Init => TypeInv
    BY InitIsTyped
  <1>2. TypeInv /\ [Next]_vars => TypeInv'
    <2> SUFFICES ASSUME TypeInv, [Next]_vars PROVE TypeInv'
      OBVIOUS
    <2>1. CASE Start \/ Crash \/ Intrude \/ Inspect
      BY <2>1, StartKeepsType, CrashKeepsType, IntrudeKeepsType, InspectKeepsType
    <2>2. CASE Close \/ EndRecovery
      <3>1. Recovery \in Jobs /\ up' \in BOOLEAN /\ Becomes(Recovery, Idle)
            /\ UNCHANGED <<disk, journal, database, budget>>
        BY <2>2 DEF Close, EndRecovery, Jobs, TypeInv, TypeOK
      <3> QED BY <3>1, RestStepKeepsType
    <2>3. ASSUME NEW j \in Workers, GiveUpUndo(j) PROVE TypeInv'
      <3>1. j \in Jobs /\ up' \in BOOLEAN /\ Becomes(j, Idle)
            /\ UNCHANGED <<disk, journal, database, budget>>
        BY <2>3 DEF GiveUpUndo, Jobs, TypeInv, TypeOK
      <3> QED BY <3>1, RestStepKeepsType
    <2>4. ASSUME NEW j \in Workers, Begin(j) \/ LoadUndo(j) \/ CreateUndo(j) PROVE TypeInv'
      BY <2>4, BeginKeepsType, LoadUndoKeepsType, CreateUndoKeepsType
    <2>5. CASE \E j \in Jobs : Execute(j)
      BY <2>5, ExecuteKeepsType
    <2>6. CASE UNCHANGED vars
      BY <2>6 DEF vars, TypeInv, TypeOK, JobsHaveRecords, Busy, Exists
    <2> QED BY <2>1, <2>2, <2>3, <2>4, <2>5, <2>6 DEF Next
  <1>3. TypeInv => TypeOK
    BY DEF TypeInv
  <1> QED BY <1>1, <1>2, <1>3, PTL DEF Spec

-------------------------------------------------------------------------------
(* The safety of RenamePublication.  The inductive invariant ties each     *)
(* running thread to its record and to the name of its file; the advisory  *)
(* lock is what keeps the threads from each other.                         *)

AtSource == {"created", "checked", "restored", "abort"}
AtTarget == {"renamed", "synced", "published", "committed", "verified", "advanced",
             "rollback"}

Engaged(t) == t.pc \notin {"idle", "undo", "scan"}

(* Thread t, its record r and the name p of its file belong together. *)
Sound(t, r, p) ==
    /\ t.known = r.state
    /\ t.pc \in AtSource => p = r.source
    /\ t.pc \in AtTarget => p = r.target
    /\ t.pc \in {"published", "committed", "verified"} => t.known = "target_published"
    /\ t.pc = "advanced" => t.known = "dependent_state_committed"
    /\ t.pc \in {"created", "checked", "renamed", "synced"} => t.known = "planned"

NameOf(o) == name[journal[o].file]

ThreadsSound ==
    \A j \in Jobs : Engaged(job[j]) => Sound(job[j], journal[job[j].op], NameOf(job[j].op))

(* The lock: no two running threads work on one file. *)
FilesExclusive ==
    \A j, k \in Jobs :
        j # k /\ Engaged(job[j]) /\ Engaged(job[k])
        => journal[job[j].op].file # journal[job[k].op].file

(* The recovery runs alone, and nothing runs in a stopped program. *)
RecoveryAlone ==
    /\ ~up => \A j \in Jobs : job[j].pc = "idle"
    /\ Recovering => \A j \in Workers : job[j].pc = "idle"

LockInv == TypeInv /\ ThreadsSound /\ FilesExclusive /\ RecoveryAlone

-------------------------------------------------------------------------------
(* What a step of thread j leaves alone. *)

LEMMA ExecuteIsEngaged ==
    ASSUME NEW j, Execute(j)
    PROVE  Busy(j) /\ Engaged(job[j])
  BY DEF Execute, Withdraw, Check, Rename, SyncTarget, Publish, CommitDependents,
         VerifyTarget, RecordDependents, Complete, RollBack, SyncSource, Fail, Busy, Engaged

LEMMA ExecuteFrame ==
    ASSUME TypeInv, NEW j \in Jobs, Execute(j)
    PROVE  /\ up' = up
           /\ \A k \in Jobs \ {j} : job'[k] = job[k]
           /\ Engaged(job'[j]) => job'[j].op = job[j].op
           /\ \A o \in Ops \ {job[j].op} : journal'[o] = journal[o]
           /\ journal'[job[j].op].file = journal[job[j].op].file
           /\ journal'[job[j].op].source = journal[job[j].op].source
           /\ journal'[job[j].op].target = journal[job[j].op].target
           /\ \A f \in Files \ {FileOf(job[j].op)} : name'[f] = name[f]
  <1> DEFINE w == job[j].op
  <1>1. Busy(j) /\ w \in Ops /\ journal[w] \in Record /\ FileOf(w) \in Files
    BY ExecuteIsEngaged, ExistingRecord DEF TypeInv, JobsHaveRecords
  <1>2. up' = up
    BY DEF Execute, Withdraw, Check, Rename, SyncTarget, Publish, CommitDependents,
           VerifyTarget, RecordDependents, Complete, RollBack, SyncSource, Fail
  <1>3. \E t : Becomes(j, t) /\ (Engaged(t) => t.op = w)
    <2>1. \A pc : [job[j] EXCEPT !.pc = pc].op = w
      BY DEF TypeInv, TypeOK
    <2>2. ~Engaged(Idle) /\ \A o : ~Engaged(Scan(o))
      BY DEF Engaged, Idle, Scan
    <2>3. \A pc, known : At(pc, w, known).op = w
      BY DEF At
    <2>4. \/ \E pc : Goto(j, pc)
          \/ \E pc, known : Becomes(j, At(pc, w, known))
          \/ Becomes(j, Idle) \/ Done(j)
      BY DEF Execute, Withdraw, Check, Rename, SyncTarget, Publish, CommitDependents,
             VerifyTarget, RecordDependents, Complete, RollBack, SyncSource, Fail
    <2>5. CASE \E pc : Goto(j, pc)
      BY <2>1, <2>5 DEF Goto
    <2>6. CASE \E pc, known : Becomes(j, At(pc, w, known))
      BY <2>3, <2>6
    <2>7. CASE Becomes(j, Idle) \/ Done(j)
      BY <2>2, <2>7 DEF Done
    <2> QED BY <2>4, <2>5, <2>6, <2>7
  <1>4. /\ \A k \in Jobs \ {j} : job'[k] = job[k]
        /\ Engaged(job'[j]) => job'[j].op = w
    BY <1>3 DEF Becomes, TypeInv, TypeOK
  <1>5. \/ UNCHANGED journal
        \/ \E to \in StatesOf(FALSE) : Write(j, to)
    BY DEF Execute, Withdraw, Check, Rename, SyncTarget, Publish, CommitDependents,
           VerifyTarget, RecordDependents, Complete, RollBack, SyncSource, Fail,
           WriteFails, StatesOf, States
  <1>6. /\ \A o \in Ops \ {w} : journal'[o] = journal[o]
        /\ journal'[w].file = journal[w].file
        /\ journal'[w].source = journal[w].source
        /\ journal'[w].target = journal[w].target
    <2>1. CASE \E to \in StatesOf(FALSE) : Write(j, to)
      BY <1>1, <2>1, WriteKeepsRecords DEF Record
    <2> QED BY <1>5, <2>1
  <1>7. UNCHANGED name \/ \E p \in Paths : RenameTo(FileOf(w), p)
    BY <1>1 DEF Execute, Withdraw, Check, Rename, SyncTarget, Publish, CommitDependents,
       VerifyTarget, RecordDependents, Complete, RollBack, SyncSource, Fail, disk, Record
  <1>8. \A f \in Files \ {FileOf(w)} : name'[f] = name[f]
    BY <1>1, <1>7 DEF RenameTo, TypeInv, TypeOK
  <1> QED BY <1>2, <1>4, <1>6, <1>8
(* Goto keeps the operation and the known state. *)
LEMMA GotoThread ==
    ASSUME TypeInv, NEW j \in Jobs, NEW pc, Goto(j, pc)
    PROVE  job'[j].pc = pc /\ job'[j].op = job[j].op /\ job'[j].known = job[j].known
  BY DEF Goto, Becomes, TypeInv, TypeOK

(* Thread j is sound after its own step. *)
LEMMA ExecuteKeepsSound ==
    ASSUME LockInv, NEW j \in Jobs, Execute(j), Engaged(job'[j])
    PROVE  Sound(job'[j], journal'[job[j].op], name'[journal[job[j].op].file])
  <1> DEFINE w == job[j].op
             f == journal[w].file
  <1>1. /\ TypeInv /\ Busy(j) /\ Engaged(job[j])
        /\ w \in Ops /\ Exists(w) /\ journal[w] \in Record /\ f \in Files
    BY ExecuteIsEngaged, ExistingRecord DEF LockInv, TypeInv, JobsHaveRecords, FileOf
  <1>2. Sound(job[j], journal[w], name[f])
    BY <1>1 DEF LockInv, ThreadsSound, NameOf
  <1>3. CASE Withdraw(j) \/ Check(j) \/ VerifyTarget(j)
    <2>1. UNCHANGED <<name, journal>>
      BY <1>3 DEF Withdraw, Check, VerifyTarget, disk
    <2>2. PICK pc : /\ Goto(j, pc)
                    /\ \/ job[j].pc \in {"created", "checked"} /\ pc \in {"abort", "checked"}
                       \/ job[j].pc = "committed" /\ pc \in {"verified", "stuck"}
      BY <1>3 DEF Withdraw, Check, VerifyTarget
    <2>3. job'[j].pc = pc /\ job'[j].known = job[j].known
      BY <1>1, <2>2, GotoThread
    <2> QED BY <1>2, <2>1, <2>2, <2>3 DEF Sound, AtSource, AtTarget
  <1>4. CASE CommitDependents(j)
    <2>1. UNCHANGED <<name, journal>>
      BY <1>4 DEF CommitDependents, disk
    <2>2. PICK pc \in {"committed", "rollback"} : Goto(j, pc)
      BY <1>4 DEF CommitDependents
    <2>3. job'[j].pc = pc /\ job'[j].known = job[j].known /\ job[j].pc = "published"
      BY <1>1, <1>4, <2>2, GotoThread DEF CommitDependents
    <2> QED BY <1>2, <2>1, <2>3 DEF Sound, AtSource, AtTarget
  <1>5. CASE Rename(j)
    <2>1. journal' = journal /\ job[j].pc = "checked"
      BY <1>5 DEF Rename
    <2>2. CASE RenameTo(f, journal[w].target) /\ Goto(j, "renamed")
      <3>1. name'[f] = journal[w].target
        BY <1>1, <2>2 DEF RenameTo, TypeInv, TypeOK
      <3>2. job'[j].pc = "renamed" /\ job'[j].known = job[j].known
        BY <1>1, <2>2, GotoThread
      <3> QED BY <1>2, <2>1, <3>1, <3>2 DEF Sound, AtSource, AtTarget
    <2>3. CASE UNCHANGED disk /\ Goto(j, "abort")
      <3>1. job'[j].pc = "abort" /\ job'[j].known = job[j].known /\ name' = name
        BY <1>1, <2>3, GotoThread DEF disk
      <3> QED BY <1>2, <2>1, <3>1 DEF Sound, AtSource, AtTarget
    <2> QED BY <1>5, <2>2, <2>3 DEF Rename, FileOf
  <1>6. CASE RollBack(j)
    <2>1. journal' = journal /\ job[j].pc = "rollback"
      BY <1>6 DEF RollBack
    <2>2. CASE RenameTo(f, journal[w].source) /\ Goto(j, "restored")
      <3>1. name'[f] = journal[w].source
        BY <1>1, <2>2 DEF RenameTo, TypeInv, TypeOK
      <3>2. job'[j].pc = "restored" /\ job'[j].known = job[j].known
        BY <1>1, <2>2, GotoThread
      <3> QED BY <1>2, <2>1, <3>1, <3>2 DEF Sound, AtSource, AtTarget
    <2>3. CASE UNCHANGED disk /\ Goto(j, "stuck")
      <3>1. job'[j].pc = "stuck" /\ job'[j].known = job[j].known
        BY <1>1, <2>3, GotoThread
      <3> QED BY <1>2, <2>1, <3>1 DEF Sound, AtSource, AtTarget
    <2> QED BY <1>6, <2>2, <2>3 DEF RollBack, FileOf
  <1>7. CASE SyncTarget(j) \/ SyncSource(j)
    <2>1. name' = name /\ journal' = journal
      BY <1>7 DEF SyncTarget, SyncSource
    <2>2. PICK pc : /\ Goto(j, pc)
                    /\ \/ job[j].pc = "renamed" /\ pc \in {"synced", "rollback"}
                       \/ job[j].pc = "restored" /\ pc \in {"abort", "stuck"}
      BY <1>7 DEF SyncTarget, SyncSource
    <2>3. job'[j].pc = pc /\ job'[j].known = job[j].known
      BY <1>1, <2>2, GotoThread
    <2> QED BY <1>2, <2>1, <2>2, <2>3 DEF Sound, AtSource, AtTarget
  <1>8. CASE Publish(j)
    <2>1. name' = name /\ job[j].pc = "synced"
      BY <1>8 DEF Publish, disk
    <2>2. CASE Write(j, "target_published")
               /\ Becomes(j, At("published", w, "target_published"))
      <3>1. job'[j] = At("published", w, "target_published")
        BY <1>1, <2>2 DEF Becomes, TypeInv, TypeOK
      <3>2. journal'[w] = [journal[w] EXCEPT !.state = "target_published"]
        BY <1>1, <2>2, WriteKeepsRecords DEF StatesOf, States
      <3> QED BY <1>1, <1>2, <2>1, <3>1, <3>2 DEF Sound, AtSource, AtTarget, At, Record
    <2>3. CASE UNCHANGED journal /\ Becomes(j, Idle)
      BY <1>1, <2>3 DEF Becomes, Idle, Engaged, TypeInv, TypeOK
    <2>4. CASE UNCHANGED journal /\ Goto(j, "rollback")
      <3>1. job'[j].pc = "rollback" /\ job'[j].known = job[j].known
        BY <1>1, <2>4, GotoThread
      <3> QED BY <1>2, <2>1, <2>4, <3>1 DEF Sound, AtSource, AtTarget
    <2> QED BY <1>8, <2>2, <2>3, <2>4 DEF Publish, WriteFails
  <1>9. CASE RecordDependents(j)
    <2>1. name' = name /\ job[j].pc = "verified"
      BY <1>9 DEF RecordDependents, disk
    <2>2. CASE Write(j, "dependent_state_committed")
               /\ Becomes(j, At("advanced", w, "dependent_state_committed"))
      <3>1. job'[j] = At("advanced", w, "dependent_state_committed")
        BY <1>1, <2>2 DEF Becomes, TypeInv, TypeOK
      <3>2. journal'[w] = [journal[w] EXCEPT !.state = "dependent_state_committed"]
        BY <1>1, <2>2, WriteKeepsRecords DEF StatesOf, States
      <3> QED BY <1>1, <1>2, <2>1, <3>1, <3>2 DEF Sound, AtSource, AtTarget, At, Record
    <2>3. CASE Becomes(j, Idle)
      BY <1>1, <2>3 DEF Becomes, Idle, Engaged, TypeInv, TypeOK
    <2> QED BY <1>9, <2>2, <2>3 DEF RecordDependents
  <1>10. CASE Complete(j) \/ Fail(j)
    <2>1. Becomes(j, Idle) \/ Done(j)
      BY <1>10 DEF Complete, Fail
    <2>2. ~Engaged(job'[j])
      BY <1>1, <2>1 DEF Done, Becomes, Idle, Scan, Engaged, TypeInv, TypeOK
    <2> QED BY <2>2
  <1> QED BY <1>3, <1>4, <1>5, <1>6, <1>7, <1>8, <1>9, <1>10 DEF Execute
-------------------------------------------------------------------------------
(* Every step keeps LockInv. *)

LEMMA ExecuteKeepsLock == ASSUME LockInv, NEW j \in Jobs, Execute(j) PROVE LockInv'
  <1> DEFINE w == job[j].op
  <1>1. TypeInv /\ TypeInv' /\ Engaged(job[j])
    BY ExecuteKeepsType, ExecuteIsEngaged DEF LockInv
  <1>2. /\ up' = up
        /\ \A k \in Jobs \ {j} : job'[k] = job[k]
        /\ Engaged(job'[j]) => job'[j].op = w
        /\ \A o \in Ops \ {w} : journal'[o] = journal[o]
        /\ journal'[w].file = journal[w].file
        /\ \A f \in Files \ {journal[w].file} : name'[f] = name[f]
    BY <1>1, ExecuteFrame DEF FileOf
  <1>3. \A k \in Jobs \ {j} : Engaged(job[k]) =>
          /\ job[k].op \in Ops \ {w}
          /\ journal[job[k].op].file \in Files \ {journal[w].file}
    <2> SUFFICES ASSUME NEW k \in Jobs \ {j}, Engaged(job[k])
                 PROVE  /\ job[k].op \in Ops \ {w}
                        /\ journal[job[k].op].file \in Files \ {journal[w].file}
      OBVIOUS
    <2>1. job[k].op \in Ops /\ Exists(job[k].op)
      BY DEF LockInv, TypeInv, JobsHaveRecords, Busy, Engaged
    <2>2. journal[job[k].op].file \in Files
      BY <1>1, <2>1, ExistingRecord DEF TypeInv, FileOf
    <2>3. journal[job[k].op].file # journal[w].file
      BY <1>1 DEF LockInv, FilesExclusive
    <2> QED BY <2>1, <2>2, <2>3
  <1>4. ThreadsSound'
    <2> SUFFICES ASSUME NEW k \in Jobs, Engaged(job'[k])
                 PROVE  Sound(job'[k], journal'[job'[k].op], name'[journal'[job'[k].op].file])
      BY DEF ThreadsSound, NameOf
    <2>1. CASE k = j
      BY <1>2, <2>1, ExecuteKeepsSound
    <2>2. CASE k # j
      BY <1>2, <1>3, <2>2 DEF LockInv, ThreadsSound, NameOf
    <2> QED BY <2>1, <2>2
  <1>5. FilesExclusive'
    BY <1>1, <1>2, <1>3 DEF LockInv, FilesExclusive
  <1>6. RecoveryAlone'
    BY <1>1, <1>2 DEF LockInv, RecoveryAlone, Recovering, Engaged, Jobs
  <1> QED BY <1>1, <1>4, <1>5, <1>6 DEF LockInv

(* Thread j does not hold a lock after the step, nothing else changes. *)
LEMMA RestKeepsLock ==
    ASSUME LockInv, NEW j \in Jobs, UNCHANGED <<journal, name>>,
           \A k \in Jobs \ {j} : job'[k] = job[k], ~Engaged(job'[j])
    PROVE  ThreadsSound' /\ FilesExclusive'
  BY DEF LockInv, ThreadsSound, FilesExclusive, NameOf

LEMMA CreateKeepsLock ==
    ASSUME LockInv, TypeInv', NEW j \in Workers, NEW o \in Ops, NEW f \in Files,
           NEW target \in Paths, NEW reverses \in Ops \cup {0},
           up, ~Recovering, UNCHANGED <<up, name>>,
           Create(j, o, f, target, reverses)
    PROVE  LockInv'
  <1> DEFINE r == [state |-> "planned", file |-> f, source |-> name[f],
                   target |-> target, reverses |-> reverses]
  <1>1. /\ journal'[o] = r /\ \A q \in Ops \ {o} : journal'[q] = journal[q]
        /\ job'[j] = At("created", o, "planned")
        /\ \A k \in Jobs \ {j} : job'[k] = job[k]
        /\ j \in Jobs /\ j # Recovery
    BY RenameAssumption DEF Create, Becomes, LockInv, TypeInv, TypeOK, Jobs
  <1>2. \A k \in Jobs : Engaged(job[k]) =>
          /\ job[k].op \in Ops \ {o} /\ journal[job[k].op].file # f
    BY DEF Create, NextRow, Locked, Running, FileOf, Engaged, Busy,
           LockInv, TypeInv, JobsHaveRecords
  <1>3. ThreadsSound'
    <2> SUFFICES ASSUME NEW k \in Jobs, Engaged(job'[k])
                 PROVE  Sound(job'[k], journal'[job'[k].op], name'[journal'[job'[k].op].file])
      BY DEF ThreadsSound, NameOf
    <2>1. CASE k = j
      BY <1>1, <2>1 DEF At, Sound, AtSource, AtTarget
    <2>2. CASE k # j
      BY <1>1, <1>2, <2>2 DEF LockInv, ThreadsSound, NameOf
    <2> QED BY <2>1, <2>2
  <1>4. FilesExclusive'
    BY <1>1, <1>2 DEF LockInv, FilesExclusive, At
  <1>5. RecoveryAlone'
    BY <1>1 DEF RecoveryAlone, Recovering, Jobs
  <1> QED BY <1>3, <1>4, <1>5 DEF LockInv

LEMMA WorkerKeepsLock ==
    ASSUME LockInv, NEW j \in Workers,
           Begin(j) \/ LoadUndo(j) \/ CreateUndo(j) \/ GiveUpUndo(j)
    PROVE  LockInv'
  <1>1. TypeInv /\ j \in Jobs /\ j # Recovery
    BY RenameAssumption DEF LockInv, Jobs
  <1>2. CASE Begin(j)
    <2>1. TypeInv'
      BY <1>1, <1>2, BeginKeepsType
    <2>2. PICK o \in Ops, f \in Library, target \in Paths : Create(j, o, f, target, 0)
      BY <1>2 DEF Begin
    <2>3. up /\ ~Recovering /\ UNCHANGED <<up, name>> /\ f \in Files
      BY <1>2 DEF Begin, disk, Files
    <2> QED BY <2>1, <2>2, <2>3, CreateKeepsLock
  <1>3. CASE CreateUndo(j)
    <2>1. TypeInv'
      BY <1>1, <1>3, CreateUndoKeepsType
    <2>2. job[j].op \in Ops /\ Exists(job[j].op)
      BY <1>1, <1>3 DEF CreateUndo, TypeInv, JobsHaveRecords, Busy
    <2>3. FileOf(job[j].op) \in Files /\ journal[job[j].op].source \in Paths
      BY <1>1, <2>2, ExistingRecord DEF TypeInv
    <2>4. PICK o \in Ops : Create(j, o, FileOf(job[j].op), journal[job[j].op].source, job[j].op)
      BY <1>3 DEF CreateUndo
    <2>5. up /\ ~Recovering /\ UNCHANGED <<up, name>>
      BY <1>1, <1>3 DEF CreateUndo, LockInv, RecoveryAlone, disk
    <2> QED BY <2>1, <2>2, <2>3, <2>4, <2>5, CreateKeepsLock
  <1>4. CASE LoadUndo(j) \/ GiveUpUndo(j)
    <2>1. TypeInv'
      <3>1. CASE LoadUndo(j)
        BY <1>1, <3>1, LoadUndoKeepsType
      <3>2. CASE GiveUpUndo(j)
        <4>1. Becomes(j, Idle) /\ up' \in BOOLEAN /\ UNCHANGED <<disk, journal, database, budget>>
          BY <1>1, <3>2 DEF GiveUpUndo, TypeInv, TypeOK
        <4> QED BY <1>1, <4>1, RestStepKeepsType
      <3> QED BY <1>4, <3>1, <3>2
    <2>2. UNCHANGED <<journal, name, up>>
      BY <1>4 DEF LoadUndo, GiveUpUndo, disk
    <2>3. PICK t : Becomes(j, t) /\ ~Engaged(t)
      <3>1. ~Engaged(Idle) /\ \A o : ~Engaged(At("undo", o, "none"))
        BY DEF At, Idle, Engaged
      <3> QED BY <1>4, <3>1 DEF LoadUndo, GiveUpUndo
    <2>4. job'[j] = t /\ \A k \in Jobs \ {j} : job'[k] = job[k]
      BY <1>1, <2>3 DEF Becomes, TypeInv, TypeOK
    <2>5. ThreadsSound' /\ FilesExclusive'
      BY <1>1, <2>2, <2>3, <2>4, RestKeepsLock
    <2>6. up /\ ~Recovering
      BY <1>1, <1>4 DEF LoadUndo, GiveUpUndo, LockInv, RecoveryAlone
    <2>7. RecoveryAlone'
      BY <1>1, <2>2, <2>4, <2>6 DEF RecoveryAlone, Recovering, Jobs
    <2> QED BY <2>1, <2>5, <2>7 DEF LockInv
  <1> QED BY <1>2, <1>3, <1>4

LEMMA InspectKeepsLock == ASSUME LockInv, Inspect PROVE LockInv'
  <1>1. TypeInv /\ TypeInv' /\ Recovery \in Jobs
    BY InspectKeepsType DEF LockInv, Jobs
  <1>2. PICK o \in Ops :
          /\ journal[o] # Unused
          /\ \/ Becomes(Recovery, At(Resume(o), o, journal[o].state))
             \/ Becomes(Recovery, At("stuck", o, journal[o].state))
    BY DEF Inspect, NextPending, Pending, Exists
  <1>3. /\ UNCHANGED <<name, journal, up>>
        /\ \A k \in Workers : job[k].pc = "idle"
        /\ up
    BY <1>1 DEF Inspect, disk, LockInv, RecoveryAlone, Recovering
  <1>4. \A k \in Jobs \ {Recovery} : job'[k] = job[k]
    BY <1>1, <1>2 DEF Becomes, TypeInv, TypeOK
  <1>5. job'[Recovery] \in {At(Resume(o), o, journal[o].state), At("stuck", o, journal[o].state)}
    BY <1>1, <1>2 DEF Becomes, TypeInv, TypeOK
  <1>6. Sound(job'[Recovery], journal[o], name[journal[o].file]) /\ job'[Recovery].op = o
    <2>1. CASE job'[Recovery] = At("stuck", o, journal[o].state)
      BY <2>1 DEF At, Sound, AtSource, AtTarget
    <2>2. CASE job'[Recovery] = At(Resume(o), o, journal[o].state)
      <3>1. /\ job'[Recovery].pc = Resume(o) /\ job'[Recovery].known = journal[o].state
            /\ job'[Recovery].op = o
        BY <2>2 DEF At
      <3>2. \/ Resume(o) = "abort" /\ name[journal[o].file] = journal[o].source
            \/ /\ Resume(o) = "synced" /\ name[journal[o].file] = journal[o].target
               /\ journal[o].state = "planned"
            \/ /\ Resume(o) = "published" /\ name[journal[o].file] = journal[o].target
               /\ journal[o].state = "target_published"
            \/ /\ Resume(o) = "advanced" /\ name[journal[o].file] = journal[o].target
               /\ journal[o].state = "dependent_state_committed"
            \/ Resume(o) = "stuck"
        BY DEF Resume, Moved, Unmoved, FileOf
      <3> QED BY <3>1, <3>2 DEF Sound, AtSource, AtTarget
    <2> QED BY <1>5, <2>1, <2>2
  <1>7. \A k \in Workers : job'[k].pc = "idle"
    BY <1>3, <1>4, RenameAssumption DEF Jobs
  <1>8. ThreadsSound' /\ FilesExclusive'
    BY <1>3, <1>6, <1>7 DEF ThreadsSound, FilesExclusive, NameOf, Engaged, Jobs
  <1>9. RecoveryAlone'
    BY <1>3, <1>7 DEF RecoveryAlone
  <1> QED BY <1>1, <1>8, <1>9 DEF LockInv

LEMMA StartStopKeepsLock ==
    ASSUME LockInv, Start \/ Close \/ EndRecovery
    PROVE  LockInv'
  <1>1. TypeInv /\ Recovery \in Jobs
    BY DEF LockInv, Jobs
  <1>2. TypeInv'
    <2>1. CASE Start
      BY <1>1, <2>1, StartKeepsType
    <2>2. CASE Close \/ EndRecovery
      <3>1. up' \in BOOLEAN /\ Becomes(Recovery, Idle)
            /\ UNCHANGED <<disk, journal, database, budget>>
        BY <1>1, <2>2 DEF Close, EndRecovery, TypeInv, TypeOK
      <3> QED BY <1>1, <3>1, RestStepKeepsType
    <2> QED BY <2>1, <2>2
  <1>3. UNCHANGED <<journal, name>>
    BY DEF Start, Close, EndRecovery, disk
  <1>4. /\ job'[Recovery].pc \in {"scan", "idle"}
        /\ Start \/ job'[Recovery].pc = "idle"
        /\ \A k \in Jobs \ {Recovery} : job'[k] = job[k]
    BY <1>1 DEF Start, Close, EndRecovery, Becomes, Idle, Scan, TypeInv, TypeOK
  <1>5. ThreadsSound' /\ FilesExclusive'
    BY <1>1, <1>3, <1>4, RestKeepsLock DEF Engaged
  <1>6. RecoveryAlone'
    BY <1>1, <1>4, RenameAssumption
       DEF Start, Close, EndRecovery, LockInv, RecoveryAlone, Recovering, Jobs
  <1> QED BY <1>2, <1>5, <1>6 DEF LockInv

LEMMA EnvironmentKeepsLock == ASSUME LockInv, Crash \/ Intrude PROVE LockInv'
  <1>1. CASE Crash
    <2>1. TypeInv'
      BY <1>1, CrashKeepsType DEF LockInv
    <2>2. \A k \in Jobs : job'[k].pc = "idle"
      BY <1>1 DEF Crash, Idle
    <2> QED BY <2>1, <2>2
            DEF LockInv, ThreadsSound, FilesExclusive, RecoveryAlone, Engaged, Jobs
  <1>2. CASE Intrude
    <2>1. TypeInv /\ TypeInv'
      BY <1>2, IntrudeKeepsType DEF LockInv
    <2>2. UNCHANGED <<up, journal, job>>
      BY <1>2 DEF Intrude
    <2>3. \A f \in Files : name[f] # NoPath => name'[f] = name[f]
      BY <1>2, <2>1 DEF Intrude, TypeInv, TypeOK
    <2>4. ThreadsSound'
      <3> SUFFICES ASSUME NEW k \in Jobs, Engaged(job[k])
                   PROVE  Sound(job[k], journal[job[k].op], name'[journal[job[k].op].file])
        BY <2>2 DEF ThreadsSound, NameOf
      <3>1. job[k].op \in Ops /\ Exists(job[k].op)
        BY <2>1 DEF TypeInv, JobsHaveRecords, Busy, Engaged
      <3>2. /\ journal[job[k].op].file \in Files
            /\ journal[job[k].op].source # NoPath /\ journal[job[k].op].target # NoPath
        BY <2>1, <3>1, ExistingRecord, RenameAssumption DEF TypeInv, FileOf
      <3>3. Sound(job[k], journal[job[k].op], name[journal[job[k].op].file])
        BY DEF LockInv, ThreadsSound, NameOf
      <3> QED BY <2>3, <3>2, <3>3 DEF Sound
    <2>5. FilesExclusive' /\ RecoveryAlone'
      BY <2>2 DEF LockInv, FilesExclusive, RecoveryAlone, Recovering
    <2> QED BY <2>1, <2>4, <2>5 DEF LockInv
  <1> QED BY <1>1, <1>2
LEMMA LockInductive ==
    /\ Init => LockInv
    /\ LockInv /\ [Next]_vars => LockInv'
  <1>1. ASSUME Init PROVE LockInv
    <2>1. TypeInv
      BY <1>1, InitIsTyped
    <2>2. \A j \in Jobs : job[j].pc = "idle"
      BY <1>1 DEF Init, Idle
    <2> QED BY <2>1, <2>2
            DEF LockInv, ThreadsSound, FilesExclusive, RecoveryAlone, Engaged, Jobs
  <1>2. ASSUME LockInv, [Next]_vars PROVE LockInv'
    <2>1. CASE Start \/ Close \/ EndRecovery
      BY <1>2, <2>1, StartStopKeepsLock
    <2>2. CASE Crash \/ Intrude
      BY <1>2, <2>2, EnvironmentKeepsLock
    <2>3. CASE Inspect
      BY <1>2, <2>3, InspectKeepsLock
    <2>4. CASE \E j \in Workers : Begin(j) \/ LoadUndo(j) \/ CreateUndo(j) \/ GiveUpUndo(j)
      BY <1>2, <2>4, WorkerKeepsLock
    <2>5. CASE \E j \in Jobs : Execute(j)
      BY <1>2, <2>5, ExecuteKeepsLock
    <2>6. CASE UNCHANGED vars
      <3>1. TypeInv'
        BY <1>2, <2>6 DEF LockInv, TypeInv, TypeOK, JobsHaveRecords, Busy, Exists, vars
      <3> QED BY <1>2, <2>6, <3>1
              DEF LockInv, ThreadsSound, FilesExclusive, RecoveryAlone, Recovering, NameOf, vars
    <2> QED BY <1>2, <2>1, <2>2, <2>3, <2>4, <2>5, <2>6 DEF Next
  <1> QED BY <1>1, <1>2

(* While a thread works on a file, nobody else renames it: the file is     *)
(* under the name the thread last gave it, in the executor, in a rollback  *)
(* and in the recovery alike.                                              *)
THEOREM LockProtects == Spec => []JobTracksFile
  <1>1. LockInv => JobTracksFile
    BY DEF LockInv, ThreadsSound, Sound, AtSource, AtTarget, NameOf, Engaged,
           JobTracksFile, Running, FileOf
  <1> QED BY <1>1, LockInductive, PTL DEF Spec

-------------------------------------------------------------------------------
(* Names. *)

(* A rename that finds its new name free leaves every name single. *)
LEMMA FreeNameStaysSingle ==
    ASSUME TypeOK, OneFilePerName, NEW f \in Files, NEW p \in Paths, Free(p),
           name' = [name EXCEPT ![f] = p]
    PROVE  OneFilePerName'
  BY DEF TypeOK, OneFilePerName, Free

LEMMA NamesInductive ==
    /\ Init => OneFilePerName
    /\ TypeInv /\ OneFilePerName /\ [Next]_vars => OneFilePerName'
  <1>1. Init => OneFilePerName
    BY RenameAssumption DEF Init, OneFilePerName, Files
  <1>2. ASSUME TypeInv, OneFilePerName, [Next]_vars PROVE OneFilePerName'
    <2>1. ASSUME NEW j \in Jobs, Rename(j) \/ RollBack(j) PROVE OneFilePerName'
      <3> DEFINE w == job[j].op
      <3>1. w \in Ops /\ Exists(w)
        BY <1>2, <2>1 DEF Rename, RollBack, TypeInv, JobsHaveRecords, Busy
      <3>2. FileOf(w) \in Files /\ journal[w].source \in Paths /\ journal[w].target \in Paths
        BY <1>2, <3>1, ExistingRecord DEF TypeInv
      <3>3. \/ UNCHANGED name
            \/ \E p \in Paths : Free(p) /\ name' = [name EXCEPT ![FileOf(w)] = p]
        BY <2>1, <3>2 DEF Rename, RollBack, RenameTo, Moved, Unmoved, disk
      <3> QED BY <1>2, <3>2, <3>3, FreeNameStaysSingle DEF TypeInv, OneFilePerName
    <2>2. CASE Intrude
      BY <1>2, <2>2, FreeNameStaysSingle DEF Intrude, TypeInv, Files
    <2>3. CASE Crash
      BY <1>2, <2>3 DEF Crash, disk, OneFilePerName
    <2>4. ASSUME NEW j \in Jobs, Execute(j), ~Rename(j), ~RollBack(j) PROVE OneFilePerName'
      <3>1. name' = name
        BY <2>4 DEF Execute, Withdraw, Check, SyncTarget, Publish, CommitDependents,
           VerifyTarget, RecordDependents, Complete, SyncSource, Fail, disk
      <3> QED BY <1>2, <3>1 DEF OneFilePerName
    <2>5. CASE \/ Start \/ Close \/ Inspect \/ EndRecovery \/ UNCHANGED vars
               \/ \E j \in Workers : Begin(j) \/ LoadUndo(j) \/ CreateUndo(j) \/ GiveUpUndo(j)
      <3>1. name' = name
        BY <2>5 DEF Start, Close, Inspect, EndRecovery, Begin, LoadUndo, CreateUndo,
           GiveUpUndo, disk, vars
      <3> QED BY <1>2, <3>1 DEF OneFilePerName
    <2> QED BY <1>2, <2>1, <2>2, <2>3, <2>4, <2>5 DEF Next
  <1> QED BY <1>1, <1>2

(* No publication, rollback, undo or recovery ever replaces a file,        *)
(* whatever other programs create meanwhile and whenever the process or    *)
(* the machine stops.                                                      *)
THEOREM NeverReplacesAFile == Spec => []OneFilePerName
  <1>1. LockInv => TypeInv
    BY DEF LockInv
  <1> QED BY <1>1, NamesInductive, LockInductive, PTL DEF Spec

-------------------------------------------------------------------------------
(* References. *)

(* The list database follows a file only when the journal says so and the  *)
(* file is under its target name at that moment.                           *)
THEOREM ReferencesFollowEvidence == Spec => EvidenceBeforeReferences
  <1> DEFINE Step == refs' # refs => \E o \in Ops :
                 /\ relocated' = relocated \cup {o} /\ journal[o].state = "target_published"
                 /\ name[FileOf(o)] = journal[o].target
  <1>1. ASSUME LockInv, [Next]_vars, refs' # refs PROVE Step
    <2>1. PICK j \in Jobs : CommitDependents(j)
      BY <1>1 DEF Next, Start, Close, Crash, Intrude, Begin, LoadUndo, CreateUndo, GiveUpUndo,
         Execute, Withdraw, Check, Rename, SyncTarget, Publish, VerifyTarget,
         RecordDependents, Complete, RollBack, SyncSource, Fail, Inspect, EndRecovery,
         database, vars
    <2> DEFINE w == job[j].op
    <2>2. relocated' = relocated \cup {w}
      BY <1>1, <2>1 DEF CommitDependents, Relocate, RelocateFails, database
    <2>3. Engaged(job[j]) /\ job[j].pc = "published" /\ w \in Ops
      BY <1>1, <2>1 DEF CommitDependents, Engaged, LockInv, TypeInv, JobsHaveRecords, Busy
    <2>4. Sound(job[j], journal[w], name[FileOf(w)])
      BY <1>1, <2>3 DEF LockInv, ThreadsSound, NameOf, FileOf
    <2> QED BY <2>2, <2>3, <2>4 DEF Sound, AtTarget
  <1>2. LockInv /\ [Next]_vars => [Step]_vars
    BY <1>1
  <1> QED BY <1>2, LockInductive, PTL DEF Spec, EvidenceBeforeReferences
-------------------------------------------------------------------------------
(* No rollback behind committed references. *)

Replayable == {"published", "committed", "verified", "advanced", "stuck"}

(* A relocated operation is published for good; a thread that works on it  *)
(* is past every place from which it could rename the file back.           *)
RelocatedForward ==
    \A o \in relocated :
        /\ Exists(o)
        /\ journal[o].state \in {"target_published", "dependent_state_committed",
                                 "complete", "needs_reconciliation"}
        /\ \A j \in Jobs : Engaged(job[j]) /\ job[j].op = o => job[j].pc \in Replayable

LEMMA ExecuteKeepsForward ==
    ASSUME ReplayMayFail = FALSE, LockInv, RelocatedForward, NEW j \in Jobs, Execute(j)
    PROVE  RelocatedForward'
  <1> DEFINE w == job[j].op
  <1>1. /\ TypeInv /\ TypeInv' /\ Engaged(job[j]) /\ Busy(j)
        /\ w \in Ops /\ Exists(w) /\ journal[w] \in Record /\ relocated \subseteq Ops
    BY ExecuteKeepsType, ExecuteIsEngaged, ExistingRecord
       DEF LockInv, TypeInv, JobsHaveRecords, TypeOK
  <1>2. /\ \A k \in Jobs \ {j} : job'[k] = job[k]
        /\ Engaged(job'[j]) => job'[j].op = w
        /\ \A o \in Ops \ {w} : journal'[o] = journal[o]
    BY <1>1, ExecuteFrame
  <1>3. \A k \in Jobs \ {j} : Engaged(job[k]) => job[k].op # w
    BY <1>1 DEF LockInv, FilesExclusive
  <1>4. \A o \in relocated \ {w} :
          /\ Exists(o)'
          /\ journal'[o].state \in {"target_published", "dependent_state_committed",
                                    "complete", "needs_reconciliation"}
          /\ \A k \in Jobs : Engaged(job'[k]) /\ job'[k].op = o => job'[k].pc \in Replayable
    BY <1>1, <1>2 DEF RelocatedForward, Exists
  <1>5. relocated' = relocated \/ relocated' = relocated \cup {w}
    BY DEF Execute, Withdraw, Check, Rename, SyncTarget, Publish, CommitDependents,
       VerifyTarget, RecordDependents, Complete, RollBack, SyncSource, Fail,
       Relocate, RelocateFails, database
  <1>6. ASSUME w \in relocated'
        PROVE  /\ journal'[w] # Unused
               /\ journal'[w].state \in {"target_published", "dependent_state_committed",
                                         "complete", "needs_reconciliation"}
               /\ Engaged(job'[j]) => job'[j].pc \in Replayable
    <2>1. CASE CommitDependents(j)
      <3>1. journal' = journal /\ job[j].pc = "published"
        BY <2>1 DEF CommitDependents
      <3>2. journal[w].state = "target_published"
        BY <1>1, <3>1 DEF LockInv, ThreadsSound, Sound
      <3>3. Goto(j, "committed")
        BY <1>6, <2>1 DEF CommitDependents, RelocateFails, database
      <3>4. job'[j].pc = "committed"
        BY <1>1, <3>3, GotoThread
      <3> QED BY <1>1, <3>1, <3>2, <3>4 DEF Replayable, Exists
    <2>2. CASE ~CommitDependents(j)
      <3>1. w \in relocated
        BY <1>6, <2>2
           DEF Execute, Withdraw, Check, Rename, SyncTarget, Publish, VerifyTarget,
               RecordDependents, Complete, RollBack, SyncSource, Fail, database
      <3>2. /\ job[j].pc \in Replayable
            /\ journal[w].state \in {"target_published", "dependent_state_committed",
                                     "complete", "needs_reconciliation"}
        BY <1>1, <3>1 DEF RelocatedForward
      <3>3. CASE VerifyTarget(j)
        <4>1. journal' = journal /\ (Goto(j, "verified") \/ Goto(j, "stuck"))
          BY <3>3 DEF VerifyTarget
        <4>2. job'[j].pc \in Replayable
          BY <1>1, <4>1, GotoThread DEF Replayable
        <4> QED BY <1>1, <3>2, <4>1, <4>2 DEF Exists
      <3>4. CASE RecordDependents(j) \/ Complete(j) \/ (Fail(j) /\ job[j].pc = "stuck")
        <4>1. \/ UNCHANGED journal
              \/ \E to \in {"dependent_state_committed", "complete", "needs_reconciliation"} :
                   Write(j, to)
          BY <3>4 DEF RecordDependents, Complete, Fail, WriteFails
        <4>2. /\ journal'[w] # Unused
              /\ journal'[w].state \in {"target_published", "dependent_state_committed",
                                        "complete", "needs_reconciliation"}
          <5>1. CASE UNCHANGED journal
            BY <1>1, <3>2, <5>1 DEF Exists
          <5>2. ASSUME NEW to \in {"dependent_state_committed", "complete",
                                   "needs_reconciliation"}, Write(j, to)
                PROVE  /\ journal'[w] # Unused
                       /\ journal'[w].state \in {"target_published",
                              "dependent_state_committed", "complete", "needs_reconciliation"}
            <6>1. to \in StatesOf(FALSE)
              BY DEF StatesOf, States
            <6>2. journal'[w] = [journal[w] EXCEPT !.state = to] /\ KeepsRecords
              BY <1>1, <5>2, <6>1, WriteKeepsRecords
            <6> QED BY <1>1, <6>2 DEF Record, KeepsRecords, Exists
          <5> QED BY <4>1, <5>1, <5>2
        <4>3. \/ Becomes(j, Idle) \/ Done(j)
              \/ Becomes(j, At("advanced", w, "dependent_state_committed"))
          BY <3>4 DEF RecordDependents, Complete, Fail
        <4>4. Engaged(job'[j]) => job'[j].pc \in Replayable
          BY <1>1, <4>3 DEF Done, Becomes, Idle, Scan, At, Engaged, Replayable, TypeInv, TypeOK
        <4> QED BY <4>2, <4>4
      <3> QED BY <2>2, <3>2, <3>3, <3>4
              DEF Replayable, Execute, Withdraw, Check, Rename, SyncTarget, Publish,
                  RollBack, SyncSource, Fail
    <2> QED BY <2>1, <2>2
  <1>7. \A k \in Jobs \ {j} : Engaged(job'[k]) => job'[k].op # w
    BY <1>2, <1>3
  <1> QED BY <1>4, <1>5, <1>6, <1>7 DEF RelocatedForward, Exists

LEMMA OthersKeepForward ==
    ASSUME LockInv, RelocatedForward, [Next]_vars, \A j \in Jobs : ~Execute(j)
    PROVE  RelocatedForward'
  <1>1. TypeInv /\ relocated \subseteq Ops
    BY DEF LockInv, TypeInv, TypeOK
  <1>2. relocated' = relocated
    BY DEF Next, Start, Close, Crash, Intrude, Begin, LoadUndo, CreateUndo, GiveUpUndo,
       Inspect, EndRecovery, database, vars
  <1>3. \A o \in relocated : journal'[o] = journal[o]
    <2>1. \A o \in relocated : journal[o] # Unused
      BY DEF RelocatedForward, Exists
    <2>2. \/ UNCHANGED journal
          \/ \E j \in Workers, o \in Ops :
               \E f, target, reverses : Create(j, o, f, target, reverses)
      BY DEF Next, Start, Close, Crash, Intrude, Begin, LoadUndo, CreateUndo, GiveUpUndo,
         Inspect, EndRecovery, vars
    <2>3. ASSUME NEW j \in Workers, NEW o \in Ops, NEW f, NEW target, NEW reverses,
                 Create(j, o, f, target, reverses)
          PROVE  \A q \in relocated : journal'[q] = journal[q]
      BY <1>1, <2>1, <2>3 DEF Create, NextRow, Exists, TypeInv, TypeOK
    <2> QED BY <2>2, <2>3
  <1>4. ASSUME NEW k \in Jobs, NEW o \in relocated, Engaged(job'[k]), job'[k].op = o
        PROVE  job'[k].pc \in Replayable
    <2>1. CASE job'[k] = job[k]
      BY <1>4, <2>1 DEF RelocatedForward
    <2>2. CASE Inspect
      <3>1. PICK q \in Ops : /\ Pending(q)
                             /\ \/ Becomes(Recovery, At(Resume(q), q, journal[q].state))
                                \/ Becomes(Recovery, At("stuck", q, journal[q].state))
        BY <2>2 DEF Inspect, NextPending
      <3>2. CASE k # Recovery
        BY <1>1, <2>1, <3>1, <3>2 DEF Becomes, TypeInv, TypeOK
      <3>3. CASE k = Recovery
        <4>1. job'[k] \in {At(Resume(q), q, journal[q].state), At("stuck", q, journal[q].state)}
          BY <1>1, <3>1, <3>3 DEF Becomes, TypeInv, TypeOK
        <4>2. q = o /\ job'[k].pc \in {Resume(q), "stuck"}
          BY <1>4, <4>1 DEF At
        <4>3. journal[q].state \in {"target_published", "dependent_state_committed",
                                    "complete", "needs_reconciliation"}
          BY <4>2 DEF RelocatedForward
        <4> QED BY <4>2, <4>3 DEF Resume, Replayable
      <3> QED BY <3>2, <3>3
    <2>3. CASE Start \/ Close \/ EndRecovery
      BY <1>1, <1>4, <2>1, <2>3
         DEF Start, Close, EndRecovery, Becomes, Idle, Scan, Engaged, TypeInv, TypeOK, Jobs
    <2>4. CASE Crash
      BY <1>4, <2>4 DEF Crash, Idle, Engaged
    <2>5. ASSUME NEW j \in Workers, LoadUndo(j) \/ GiveUpUndo(j)
          PROVE  job'[k].pc \in Replayable
      <3>1. PICK t : Becomes(j, t) /\ ~Engaged(t)
        <4>1. ~Engaged(Idle) /\ \A q : ~Engaged(At("undo", q, "none"))
          BY DEF At, Idle, Engaged
        <4> QED BY <2>5, <4>1 DEF LoadUndo, GiveUpUndo
      <3> QED BY <1>1, <1>4, <2>1, <3>1 DEF Becomes, TypeInv, TypeOK
    <2>6. ASSUME NEW j \in Workers, Begin(j) \/ CreateUndo(j)
          PROVE  job'[k].pc \in Replayable
      <3>1. PICK q \in Ops : journal[q] = Unused /\ Becomes(j, At("created", q, "planned"))
        BY <2>6 DEF Begin, CreateUndo, Create, NextRow, Exists
      <3>2. q # o
        BY <3>1 DEF RelocatedForward, Exists
      <3> QED BY <1>1, <1>4, <2>1, <3>1, <3>2 DEF Becomes, At, TypeInv, TypeOK
    <2>7. CASE Intrude \/ UNCHANGED vars
      BY <2>1, <2>7 DEF Intrude, vars
    <2> QED BY <2>2, <2>3, <2>4, <2>5, <2>6, <2>7 DEF Next
  <1> QED BY <1>2, <1>3, <1>4 DEF RelocatedForward, Exists

-------------------------------------------------------------------------------
(* The recovery leaves nothing half-way. *)

(* What the recovery has passed is no longer pending. *)
ScanBehind ==
    LET t == job[Recovery]
    IN Recovering =>
         \A q \in Ops : q < t.op \/ (t.pc = "scan" /\ q = t.op) => ~Pending(q)

LEMMA RecoveryStepKeepsScan ==
    ASSUME LockInv, ScanBehind, Execute(Recovery)
    PROVE  ScanBehind'
  <1> DEFINE w == job[Recovery].op
  <1>1. /\ TypeInv /\ Recovery \in Jobs /\ Busy(Recovery) /\ Recovering
        /\ w \in Ops /\ journal[w] \in Record
    BY ExecuteIsEngaged, ExistingRecord
       DEF LockInv, TypeInv, JobsHaveRecords, Jobs, Recovering, Busy
  <1>2. /\ Engaged(job'[Recovery]) => job'[Recovery].op = w
        /\ \A o \in Ops \ {w} : journal'[o] = journal[o]
    BY <1>1, ExecuteFrame
  <1>3. \A q \in Ops : q < w => ~Pending(q)'
    BY <1>1, <1>2 DEF ScanBehind, Pending, Exists, Ops
  <1>4. CASE Engaged(job'[Recovery])
    BY <1>2, <1>3, <1>4 DEF ScanBehind, Engaged
  <1>5. CASE job'[Recovery].pc = "idle"
    BY <1>5 DEF ScanBehind, Recovering
  <1>6. CASE ~Engaged(job'[Recovery]) /\ job'[Recovery].pc # "idle"
    <2>1. job'[Recovery] = Scan(w)
          /\ \E to \in Final : to \in StatesOf(FALSE) /\ Write(Recovery, to)
      <3>1. Done(Recovery) \/ Becomes(Recovery, Idle) \/ \E t : Becomes(Recovery, t) /\ Engaged(t)
        <4>1. \A pc \in PCs \ {"idle", "undo", "scan"} :
                 /\ \A o, known : Engaged(At(pc, o, known))
                 /\ Engaged([job[Recovery] EXCEPT !.pc = pc])
          BY <1>1 DEF Engaged, At, TypeInv, TypeOK
        <4> QED BY <4>1
                DEF Execute, Withdraw, Check, Rename, SyncTarget, Publish, CommitDependents,
                VerifyTarget, RecordDependents, Complete, RollBack, SyncSource, Fail, Goto, PCs
      <3>2. Done(Recovery)
        BY <1>1, <1>6, <3>1 DEF Becomes, Idle, TypeInv, TypeOK
      <3>3. job'[Recovery] = Scan(w)
        BY <1>1, <3>2 DEF Done, Becomes, TypeInv, TypeOK
      <3>4. \E to \in Final : to \in StatesOf(FALSE) /\ Write(Recovery, to)
        BY <1>1, <1>6
           DEF Execute, Withdraw, Check, Rename, SyncTarget, Publish, CommitDependents,
           VerifyTarget, RecordDependents, Complete, RollBack, SyncSource, Fail,
           Goto, Becomes, At, Idle, Engaged, TypeInv, TypeOK, Final, Settled, StatesOf, States
      <3> QED BY <3>3, <3>4
    <2>2. PICK to \in Final : to \in StatesOf(FALSE) /\ Write(Recovery, to)
      BY <2>1
    <2>3. journal'[w].state \in Final
      <3>1. journal'[w] = [journal[w] EXCEPT !.state = to]
        BY <1>1, <2>2, WriteKeepsRecords
      <3> QED BY <1>1, <3>1 DEF Record
    <2> QED BY <1>3, <2>1, <2>3 DEF ScanBehind, Scan, Pending, Ops
  <1> QED BY <1>4, <1>5, <1>6

LEMMA OthersKeepScan ==
    ASSUME LockInv, ScanBehind, [Next]_vars, ~Execute(Recovery)
    PROVE  ScanBehind'
  <1>1. TypeInv /\ Recovery \in Jobs
    BY DEF LockInv, Jobs
  <1>2. CASE Start
    BY <1>1, <1>2 DEF Start, Becomes, Scan, ScanBehind, Ops, TypeInv, TypeOK
  <1>3. CASE Close \/ EndRecovery \/ Crash
    BY <1>1, <1>3 DEF Close, EndRecovery, Crash, Becomes, Idle, ScanBehind, Recovering,
       TypeInv, TypeOK
  <1>4. CASE Inspect
    <2>1. PICK o \in Ops : /\ NextPending(o)
                           /\ \/ Becomes(Recovery, At(Resume(o), o, journal[o].state))
                              \/ Becomes(Recovery, At("stuck", o, journal[o].state))
      BY <1>4 DEF Inspect
    <2>2. job'[Recovery].op = o /\ job'[Recovery].pc # "scan" /\ journal' = journal
      <3>1. job'[Recovery] \in {At(Resume(o), o, journal[o].state), At("stuck", o, journal[o].state)}
        BY <1>1, <2>1 DEF Becomes, TypeInv, TypeOK
      <3>2. Resume(o) # "scan"
        BY DEF Resume
      <3> QED BY <1>4, <3>1, <3>2 DEF At, Inspect
    <2>3. job[Recovery].op \in Ops \cup {0} /\ job[Recovery].pc = "scan"
      BY <1>1, <1>4 DEF Inspect, TypeInv, TypeOK
    <2>4. \A q \in Ops : q < o => ~Pending(q)
      BY <2>1, <2>3, RenameAssumption DEF NextPending, ScanBehind, Recovering, Ops
    <2> QED BY <2>2, <2>4 DEF ScanBehind, Pending, Exists
  <1>5. CASE \E j \in Workers : \/ Execute(j) \/ Begin(j) \/ LoadUndo(j)
                               \/ CreateUndo(j) \/ GiveUpUndo(j)
    <2>1. PICK j \in Workers : \/ Execute(j) \/ Begin(j) \/ LoadUndo(j)
                               \/ CreateUndo(j) \/ GiveUpUndo(j)
      BY <1>5
    <2>2. job[j].pc # "idle" \/ ~Recovering
      BY <2>1, ExecuteIsEngaged DEF Engaged, Begin, LoadUndo, CreateUndo, GiveUpUndo
    <2>3. ~Recovering
      BY <2>2 DEF LockInv, RecoveryAlone
    <2>4. \E t : Becomes(j, t)
      BY <2>1 DEF Execute, Withdraw, Check, Rename, SyncTarget, Publish, CommitDependents,
         VerifyTarget, RecordDependents, Complete, RollBack, SyncSource, Fail, Goto, Done,
         Begin, LoadUndo, CreateUndo, GiveUpUndo, Create
    <2>5. job'[Recovery] = job[Recovery]
      BY <1>1, <2>1, <2>4, RenameAssumption DEF Becomes, TypeInv, TypeOK
    <2> QED BY <2>3, <2>5 DEF ScanBehind, Recovering
  <1>6. CASE Intrude \/ UNCHANGED vars
    BY <1>6 DEF Intrude, vars, ScanBehind, Recovering, Pending, Exists
  <1> QED BY <1>2, <1>3, <1>4, <1>5, <1>6 DEF Next, Jobs

(* A recovery that reaches its end leaves every record complete, rolled    *)
(* back or presented for reconciliation.                                   *)
THEOREM RecoveryLeavesNothing == Spec => RecoverySettles
  <1>1. Init => ScanBehind
    BY DEF Init, ScanBehind, Recovering, Idle, Jobs
  <1>2. LockInv /\ ScanBehind /\ [Next]_vars => ScanBehind'
    BY RecoveryStepKeepsScan, OthersKeepScan
  <1>3. ASSUME LockInv, ScanBehind, EndRecovery
        PROVE  \A o \in Ops : ~Pending(o)
    <2>1. job[Recovery].op \in Ops \cup {0}
      BY <1>3 DEF LockInv, TypeInv, TypeOK, Jobs
    <2> QED BY <1>3, <2>1, RenameAssumption DEF EndRecovery, ScanBehind, Recovering, Ops
  <1>4. LockInv /\ ScanBehind => [EndRecovery => \A o \in Ops : ~Pending(o)]_vars
    BY <1>3
  <1> QED BY <1>1, <1>2, <1>4, LockInductive, PTL DEF Spec, RecoverySettles

-------------------------------------------------------------------------------
(* Durability. *)

(* Between its fsync and its journal write a publication has nothing left  *)
(* that a power loss could take back.                                      *)
TargetSynced ==
    \A j \in Workers : job[j].pc = "synced" => limbo[FileOf(job[j].op)] = {}

(* The thread's own step. *)
LEMMA ExecuteSyncsTarget ==
    ASSUME TypeInv, NEW j \in Jobs, Execute(j), job'[j].pc = "synced"
    PROVE  limbo'[FileOf(job[j].op)] = {} /\ journal' = journal /\ job'[j].op = job[j].op
  <1> DEFINE w == job[j].op
  <1>1. w \in Ops /\ FileOf(w) \in Files
    BY ExecuteIsEngaged, ExistingRecord DEF TypeInv, JobsHaveRecords
  <1>2. \A t : Becomes(j, t) => job'[j] = t
    BY DEF Becomes, TypeInv, TypeOK
  <1>3. \A pc : Goto(j, pc) => job'[j].pc = pc /\ job'[j].op = w
    BY <1>2 DEF Goto, TypeInv, TypeOK
  <1>4. ~Becomes(j, Idle) /\ ~Done(j)
    BY <1>2 DEF Idle, Done, Scan
  <1>5. SyncTarget(j)
    <2>1. \A pc, o, known : Becomes(j, At(pc, o, known)) => pc = "synced"
      BY <1>2 DEF At
    <2> QED
      BY <1>3, <1>4, <2>1
         DEF Execute, Withdraw, Check, Rename, Publish, CommitDependents, VerifyTarget,
             RecordDependents, Complete, RollBack, SyncSource, Fail
  <1> QED BY <1>1, <1>3, <1>5 DEF SyncTarget, Sync, TypeInv, TypeOK

(* Another thread's step leaves the file alone. *)
LEMMA ExecuteSparesLimbo ==
    ASSUME TypeInv, NEW k \in Jobs, Execute(k), NEW f \in Files, f # FileOf(job[k].op)
    PROVE  limbo'[f] = limbo[f]
  <1>1. \/ UNCHANGED limbo \/ Sync(FileOf(job[k].op))
        \/ \E p \in Paths \cup {NoPath} \cup {journal[job[k].op].source, journal[job[k].op].target} :
              RenameTo(FileOf(job[k].op), p)
    BY DEF Execute, Withdraw, Check, Rename, SyncTarget, Publish, CommitDependents,
           VerifyTarget, RecordDependents, Complete, RollBack, SyncSource, Fail, disk
  <1> QED BY <1>1 DEF Sync, RenameTo, TypeInv, TypeOK

LEMMA SyncedInductive ==
    ASSUME LockInv, TargetSynced, [Next]_vars PROVE TargetSynced'
  <1>1. TypeInv /\ FilesExclusive
    BY DEF LockInv
  <1>2. SUFFICES ASSUME NEW j \in Workers, job'[j].pc = "synced"
                 PROVE  limbo'[journal'[job'[j].op].file] = {}
    BY DEF TargetSynced, FileOf
  <1>3. j \in Jobs
    BY DEF Jobs
  <1>4. CASE Execute(j)
    BY <1>1, <1>2, <1>3, <1>4, ExecuteSyncsTarget DEF FileOf
  <1>5. ASSUME job'[j] = job[j],
               limbo'[FileOf(job[j].op)] = limbo[FileOf(job[j].op)],
               journal'[job[j].op] = journal[job[j].op]
        PROVE  limbo'[journal'[job'[j].op].file] = {}
    BY <1>2, <1>5 DEF TargetSynced, FileOf
  <1>6. job[j].pc = "synced" =>
           /\ Engaged(job[j]) /\ Busy(j) /\ job[j].op \in Ops
           /\ journal[job[j].op] # Unused /\ FileOf(job[j].op) \in Files
    BY <1>1, <1>3, ExistingRecord DEF Engaged, Busy, TypeInv, JobsHaveRecords, Exists
  <1>7. ASSUME NEW k \in Jobs, k # j, Execute(k)
        PROVE  limbo'[journal'[job'[j].op].file] = {}
    <2>1. job'[j] = job[j]
      BY <1>1, <1>3, <1>7, ExecuteFrame
    <2>2. FileOf(job[j].op) # FileOf(job[k].op) /\ job[j].op # job[k].op
      BY <1>1, <1>2, <1>3, <1>6, <1>7, <2>1, ExecuteIsEngaged DEF FilesExclusive, FileOf
    <2>3. journal'[job[j].op] = journal[job[j].op]
      BY <1>1, <1>2, <1>6, <1>7, <2>1, <2>2, ExecuteFrame
    <2>4. FileOf(job[j].op) \in Files
      BY <1>2, <1>6, <2>1
    <2>5. limbo'[FileOf(job[j].op)] = limbo[FileOf(job[j].op)]
      BY <1>1, <1>7, <2>2, <2>4, ExecuteSparesLimbo
    <2> QED BY <1>5, <2>1, <2>3, <2>5
  <1>8. CASE Start \/ Close \/ Inspect \/ EndRecovery
    <2>1. job'[j] = job[j]
      BY <1>1, <1>3, <1>8, RenameAssumption
         DEF Start, Close, Inspect, EndRecovery, Becomes, TypeInv, TypeOK
    <2> QED BY <1>5, <1>8, <2>1 DEF Start, Close, Inspect, EndRecovery, disk
  <1>9. CASE Crash
    BY <1>2, <1>3, <1>9 DEF Crash, Idle
  <1>10. CASE Intrude \/ UNCHANGED vars
    BY <1>5, <1>10 DEF Intrude, vars
  <1>11. ASSUME NEW k \in Workers, LoadUndo(k) \/ GiveUpUndo(k)
         PROVE  limbo'[journal'[job'[j].op].file] = {}
    <2>1. UNCHANGED <<limbo, journal>>
      BY <1>11 DEF LoadUndo, GiveUpUndo, disk
    <2>2. PICK t : Becomes(k, t) /\ t.pc # "synced"
      <3>1. Idle.pc # "synced" /\ \A q : At("undo", q, "none").pc # "synced"
        BY DEF Idle, At
      <3> QED BY <1>11, <3>1 DEF LoadUndo, GiveUpUndo
    <2>3. job'[j] = job[j]
      BY <1>1, <1>2, <1>3, <2>2 DEF Becomes, TypeInv, TypeOK
    <2> QED BY <1>5, <2>1, <2>3
  <1>12. ASSUME NEW k \in Workers, Begin(k) \/ CreateUndo(k)
         PROVE  limbo'[journal'[job'[j].op].file] = {}
    <2>1. PICK o \in Ops : /\ journal[o] = Unused
                           /\ \E r : journal' = [journal EXCEPT ![o] = r]
                           /\ Becomes(k, At("created", o, "planned"))
      BY <1>12 DEF Begin, CreateUndo, Create, NextRow, Exists
    <2>2. limbo' = limbo
      BY <1>12 DEF Begin, CreateUndo, disk
    <2>3. job'[j] = job[j]
      BY <1>1, <1>2, <1>3, <2>1 DEF Becomes, At, TypeInv, TypeOK
    <2>4. o # job[j].op
      BY <1>2, <1>6, <2>1, <2>3
    <2>5. journal'[job[j].op] = journal[job[j].op]
      BY <2>1, <2>4, <1>1, <1>2, <1>6, <2>3 DEF TypeInv, TypeOK
    <2>6. limbo'[FileOf(job[j].op)] = limbo[FileOf(job[j].op)]
      BY <2>2
    <2> QED BY <1>5, <2>3, <2>5, <2>6
  <1> QED
    BY <1>4, <1>7, <1>8, <1>9, <1>10, <1>11, <1>12 DEF Next

(* A publication never records target_published for a name that a power    *)
(* loss could still take back.                                             *)
THEOREM PublicationsAreDurable == Spec => PublishedIsDurable
  <1> DEFINE Step == \A o \in Ops :
               Exists(o) /\ ~Recovering /\ journal[o].state = "planned"
               /\ journal'[o].state = "target_published" => limbo[FileOf(o)] = {}
  <1>1. Init => TargetSynced
    BY DEF Init, TargetSynced, Idle, Jobs
  <1>2. ASSUME LockInv, TargetSynced, Next PROVE Step
    <2>1. SUFFICES ASSUME NEW o \in Ops, Exists(o), ~Recovering, journal[o].state = "planned",
                          journal'[o].state = "target_published"
                   PROVE  limbo[FileOf(o)] = {}
      OBVIOUS
    <2>2. TypeInv
      BY <1>2 DEF LockInv
    <2>3. PICK j \in Jobs : Execute(j)
      <3>1. ASSUME NEW k \in Workers, Begin(k) \/ CreateUndo(k) PROVE journal'[o] = journal[o]
        <4>1. PICK q \in Ops : journal[q] = Unused /\ \E r : journal' = [journal EXCEPT ![q] = r]
          BY <3>1 DEF Begin, CreateUndo, Create, NextRow, Exists
        <4>2. q # o
          BY <2>1, <4>1 DEF Exists
        <4> QED BY <2>2, <4>1, <4>2 DEF TypeInv, TypeOK
      <3> QED BY <1>2, <2>1, <3>1 DEF Next, Start, Close, Crash, Intrude, LoadUndo, GiveUpUndo,
                   Inspect, EndRecovery
    <2>4. o = job[j].op
      BY <2>1, <2>2, <2>3, ExecuteFrame
    <2>5. Busy(j) /\ j \in Workers
      BY <2>1, <2>3, ExecuteIsEngaged DEF Busy, Recovering, Jobs
    <2>6. Publish(j)
      <3>1. \A s : Write(j, s) => s = "target_published"
        BY <2>1, <2>2, <2>4, <2>5 DEF Write, JobsHaveRecords, TypeInv, TypeOK
      <3>2. ~RecordDependents(j) /\ ~Complete(j) /\ ~Fail(j)
        <4>1. journal' # journal
          BY <2>1
        <4> QED
          BY <3>1, <4>1 DEF RecordDependents, Complete, Fail, WriteFails
      <3> QED
        BY <2>1, <2>3, <3>2
           DEF Execute, Withdraw, Check, Rename, SyncTarget, CommitDependents, VerifyTarget,
               RollBack, SyncSource
    <2> QED BY <1>2, <2>4, <2>5, <2>6 DEF Publish, TargetSynced
  <1>3. LockInv /\ TargetSynced /\ [Next]_vars => [Step]_vars
    BY <1>2
  <1> QED BY <1>1, <1>3, SyncedInductive, LockInductive, PTL DEF Spec, PublishedIsDurable
-------------------------------------------------------------------------------
(* Agreement of references and names. *)

(* A record of file f that is not closed yet. *)
Underway(o, f) == Pending(o) /\ FileOf(o) = f

(* No record of file f needs a person. *)
Clear(f) ==
    \A o \in Ops : Exists(o) /\ FileOf(o) = f => journal[o].state # "needs_reconciliation"

(* No file is published again before its last record is closed: the user   *)
(* has not acted on an interrupted file, and no second undo was admitted   *)
(* on reversals that were read before the lock.                            *)
OneOpenPerFile ==
    \A o, q \in Ops : Pending(o) /\ Pending(q) /\ FileOf(o) = FileOf(q) => o = q

(* What is settled was synced: no record was closed by a recovery, or      *)
(* after a failed fsync, on a name that a power loss can take back.        *)
SettledIsDurable ==
    "power" \in CrashKinds =>
        \A f \in Library :
            (\A o \in Ops : Exists(o) /\ FileOf(o) = f => journal[o].state \in Settled)
            => limbo[f] = {}

(* The journal and the threads remember which relocations were committed,  *)
(* and a thread works on a record that is still open.                      *)
Recorded ==
    /\ \A j \in Jobs : job[j].pc \in {"committed", "verified", "advanced"}
                          => job[j].op \in relocated
    /\ \A j \in Jobs : Engaged(job[j]) => Pending(job[j].op)
    /\ \A o \in Ops :
          Exists(o) /\ journal[o].state \in {"dependent_state_committed", "complete"}
          => o \in relocated

(* The path an open operation shows in the lists. *)
NameShown(o) == IF o \in relocated THEN journal[o].target ELSE journal[o].source

(* The occurrences of a file follow its open operation, or else the file. *)
Agreed ==
    \A i \in Items :
        refs[i].file \in Library /\ Clear(refs[i].file) =>
            /\ (\A o \in Ops : ~Underway(o, refs[i].file)) => refs[i].path = name[refs[i].file]
            /\ \A o \in Ops : Underway(o, refs[i].file) => refs[i].path = NameShown(o)

(* What a step of a thread does to records, references and names. *)
LEMMA ExecuteKinds ==
    ASSUME TypeInv, NEW j \in Jobs, Execute(j)
    PROVE  \/ UNCHANGED <<journal, database>>
           \/ /\ job[j].pc = "published" /\ Relocate(job[j].op) /\ Goto(j, "committed")
              /\ UNCHANGED <<name, journal>>
           \/ \E to \in StatesOf(FALSE) :
                 /\ Write(j, to) /\ UNCHANGED <<name, database>>
                 /\ <<job[j].pc, to>> \in
                       {<<"synced", "target_published">>,
                        <<"verified", "dependent_state_committed">>,
                        <<"advanced", "complete">>, <<"abort", "rolled_back">>,
                        <<"stuck", "needs_reconciliation">>}
  <1>1. CASE Withdraw(j) \/ Check(j) \/ Rename(j) \/ SyncTarget(j) \/ VerifyTarget(j)
             \/ RollBack(j) \/ SyncSource(j)
    BY <1>1 DEF Withdraw, Check, Rename, SyncTarget, VerifyTarget, RollBack, SyncSource, database
  <1>2. CASE CommitDependents(j)
    BY <1>2 DEF CommitDependents, RelocateFails, disk
  <1>3. CASE Publish(j) \/ RecordDependents(j) \/ Complete(j) \/ Fail(j)
    BY <1>3 DEF Publish, RecordDependents, Complete, Fail, WriteFails, disk, StatesOf, States
  <1> QED BY <1>1, <1>2, <1>3 DEF Execute

(* The record a write leaves, and the state it was written from. *)
LEMMA WrittenRecord ==
    ASSUME TypeInv, NEW j \in Jobs, Busy(j), NEW to \in StatesOf(FALSE), Write(j, to)
    PROVE  /\ journal'[job[j].op] # Unused /\ journal'[job[j].op].state = to
           /\ journal'[job[j].op].file = journal[job[j].op].file
           /\ journal'[job[j].op].source = journal[job[j].op].source
           /\ journal'[job[j].op].target = journal[job[j].op].target
           /\ journal[job[j].op].state \notin Final
           /\ \A o \in Ops \ {job[j].op} : journal'[o] = journal[o]
  <1> DEFINE w == job[j].op
  <1>1. w \in Ops /\ Exists(w) /\ journal[w] \in Record
    BY ExistingRecord DEF TypeInv, JobsHaveRecords
  <1>2. /\ journal'[w] = [journal[w] EXCEPT !.state = to]
        /\ \A o \in Ops \ {w} : journal'[o] = journal[o]
        /\ KeepsRecords
    BY WriteKeepsRecords
  <1>3. journal[w].state \notin Final
    BY DEF Write, Accepts, LegalTransition, RollBackStep, ForwardStep, Final, Settled
  <1> QED BY <1>1, <1>2, <1>3 DEF Record, KeepsRecords, Exists

LEMMA ExecuteKeepsRecorded ==
    ASSUME LockInv, Recorded, NEW j \in Jobs, Execute(j)
    PROVE  Recorded'
  <1> DEFINE w == job[j].op
  <1>1. /\ TypeInv /\ Engaged(job[j]) /\ Busy(j) /\ w \in Ops /\ Exists(w) /\ Pending(w)
        /\ job[j].known = journal[w].state
    BY ExecuteIsEngaged
       DEF LockInv, TypeInv, JobsHaveRecords, Recorded, ThreadsSound, Sound
  <1>2. /\ \A k \in Jobs \ {j} : job'[k] = job[k]
        /\ Engaged(job'[j]) => job'[j].op = w
        /\ \A o \in Ops \ {w} : journal'[o] = journal[o]
    BY <1>1, ExecuteFrame
  <1>3. relocated \subseteq relocated'
    BY <1>1, ExecuteKinds DEF Relocate, database
  <1>4. \A k \in Jobs \ {j} : Engaged(job[k]) => job[k].op \in Ops \ {w}
    BY <1>1 DEF LockInv, FilesExclusive, TypeInv, JobsHaveRecords, Engaged, Busy
  <1>5. \A k \in Jobs \ {j} :
          /\ job'[k].pc \in {"committed", "verified", "advanced"} => job'[k].op \in relocated'
          /\ Engaged(job'[k]) => /\ journal'[job'[k].op] # Unused
                                /\ journal'[job'[k].op].state \notin Final
    BY <1>2, <1>3, <1>4 DEF Recorded, Pending, Exists
  <1>6. job'[j].pc \in {"committed", "verified", "advanced"} => job'[j].op \in relocated'
    <2> SUFFICES ASSUME job'[j].pc \in {"committed", "verified", "advanced"}
                 PROVE  w \in relocated'
      BY <1>2 DEF Engaged
    <2>1. \A pc : Goto(j, pc) => job'[j].pc = pc
      BY <1>1, GotoThread
    <2>2. /\ \A pc, o, known : Becomes(j, At(pc, o, known)) => job'[j].pc = pc
          /\ ~Becomes(j, Idle) /\ ~Done(j)
      BY <1>1 DEF Becomes, At, Done, Idle, Scan, TypeInv, TypeOK
    <2>3. \/ job[j].pc \in {"committed", "verified", "advanced"}
          \/ CommitDependents(j)
      BY <2>1, <2>2
         DEF Execute, Withdraw, Check, Rename, SyncTarget, Publish, VerifyTarget,
             RecordDependents, Complete, RollBack, SyncSource, Fail
    <2>4. CASE CommitDependents(j)
      BY <2>1, <2>4 DEF CommitDependents, Relocate, database
    <2> QED BY <1>3, <2>3, <2>4 DEF Recorded
  <1>7. /\ journal'[w].state \in {"dependent_state_committed", "complete"} => w \in relocated'
        /\ Engaged(job'[j]) => journal'[w] # Unused /\ journal'[w].state \notin Final
    <2>1. CASE UNCHANGED journal
      BY <1>1, <1>3, <2>1 DEF Recorded, Pending, Exists
    <2>2. ASSUME NEW to \in StatesOf(FALSE), Write(j, to), ~UNCHANGED journal,
                 <<job[j].pc, to>> \in
                       {<<"synced", "target_published">>,
                        <<"verified", "dependent_state_committed">>,
                        <<"advanced", "complete">>, <<"abort", "rolled_back">>,
                        <<"stuck", "needs_reconciliation">>}
          PROVE  /\ journal'[w].state \in {"dependent_state_committed", "complete"}
                        => w \in relocated'
                 /\ Engaged(job'[j]) => journal'[w] # Unused /\ journal'[w].state \notin Final
      <3>1. journal'[w] # Unused /\ journal'[w].state = to
        BY <1>1, <2>2, WrittenRecord
      <3>2. to \in {"dependent_state_committed", "complete"} => w \in relocated'
        BY <1>3, <2>2 DEF Recorded
      <3>3. CASE to \in {"target_published", "dependent_state_committed"}
        BY <3>1, <3>2, <3>3 DEF Final, Settled
      <3>4. CASE to \in Final
        <4>0. job[j].pc \in {"advanced", "abort", "stuck"}
          BY <2>2, <3>4 DEF Final, Settled
        <4>1. Becomes(j, Idle) \/ Done(j)
          BY <4>0
             DEF Execute, Withdraw, Check, Rename, SyncTarget, Publish, CommitDependents,
                 VerifyTarget, RecordDependents, Complete, RollBack, SyncSource, Fail
        <4>2. ~Engaged(job'[j])
          BY <1>1, <4>1 DEF Done, Becomes, Idle, Scan, Engaged, TypeInv, TypeOK
        <4> QED BY <3>1, <3>2, <4>2
      <3> QED BY <2>2, <3>3, <3>4 DEF Final, Settled
    <2> QED BY <1>1, <2>1, <2>2, ExecuteKinds
  <1>8. \A k \in Jobs : Engaged(job'[k]) => /\ journal'[job'[k].op] # Unused
                                            /\ journal'[job'[k].op].state \notin Final
    BY <1>2, <1>5, <1>7
  <1>9. \A o \in Ops : Exists(o)' /\ journal'[o].state \in {"dependent_state_committed", "complete"}
                       => o \in relocated'
    BY <1>2, <1>3, <1>7 DEF Recorded, Exists
  <1> QED BY <1>5, <1>6, <1>8, <1>9 DEF Recorded, Pending, Exists

(* Begin and CreateUndo create a record of a file that stays where it is. *)
LEMMA AdmissionCreates ==
    ASSUME LockInv, NEW j \in Workers, Begin(j) \/ CreateUndo(j)
    PROVE  \E o \in Ops, f \in Files : \E target, reverses :
              Create(j, o, f, target, reverses) /\ UNCHANGED name
  <1>1. CASE Begin(j)
    BY <1>1 DEF Begin, Files, disk
  <1>2. CASE CreateUndo(j)
    <2>1. job[j].op \in Ops /\ Exists(job[j].op)
      BY <1>2 DEF CreateUndo, LockInv, TypeInv, JobsHaveRecords, Busy, Jobs
    <2>2. FileOf(job[j].op) \in Files
      BY <2>1, ExistingRecord DEF LockInv, TypeInv
    <2> QED BY <1>2, <2>2 DEF CreateUndo, disk
  <1> QED BY <1>1, <1>2

(* A step that is not a thread's own keeps existing records, the relocated *)
(* operations and the references.                                          *)
LEMMA OthersFrame ==
    ASSUME LockInv, [Next]_vars, \A j \in Jobs : ~Execute(j)
    PROVE  /\ UNCHANGED database
           /\ \/ UNCHANGED journal
              \/ \E j \in Workers, o \in Ops, f \in Files : \E target, reverses :
                    Create(j, o, f, target, reverses) /\ UNCHANGED name
  <1>1. UNCHANGED database
    BY DEF Next, Start, Close, Crash, Intrude, Begin, LoadUndo, CreateUndo, GiveUpUndo,
       Inspect, EndRecovery, database, vars
  <1>2. \/ UNCHANGED journal
        \/ \E j \in Workers : Begin(j) \/ CreateUndo(j)
    BY DEF Next, Start, Close, Crash, Intrude, LoadUndo, GiveUpUndo,
       Inspect, EndRecovery, vars
  <1> QED BY <1>1, <1>2, AdmissionCreates

(* The record a thread creates. *)
LEMMA CreatedRecord ==
    ASSUME TypeInv, NEW j \in Workers, NEW o \in Ops, NEW f, NEW target,
           NEW reverses, Create(j, o, f, target, reverses)
    PROVE  /\ journal[o] = Unused
           /\ journal'[o] = [state |-> "planned", file |-> f, source |-> name[f],
                             target |-> target, reverses |-> reverses]
           /\ journal'[o] # Unused /\ journal'[o].state = "planned"
           /\ \A q \in Ops \ {o} : journal'[q] = journal[q]
           /\ job'[j] = At("created", o, "planned")
           /\ \A k \in Jobs \ {j} : job'[k] = job[k]
  <1> DEFINE r == [state |-> "planned", file |-> f, source |-> name[f],
                   target |-> target, reverses |-> reverses]
  <1>1. journal' = [journal EXCEPT ![o] = r] /\ journal[o] = Unused
    BY DEF Create, NextRow, Exists
  <1>2. r # Unused
    <2>1. DOMAIN r # DOMAIN Unused
      BY DEF Unused
    <2> QED BY <2>1
  <1>3. j \in Jobs /\ Becomes(j, At("created", o, "planned"))
    BY DEF Create, Jobs
  <1> QED BY <1>1, <1>2, <1>3 DEF Becomes, TypeInv, TypeOK

LEMMA OthersKeepRecorded ==
    ASSUME LockInv, Recorded, RelocatedForward, [Next]_vars, \A j \in Jobs : ~Execute(j)
    PROVE  Recorded'
  <1>1. TypeInv /\ UNCHANGED database
    BY OthersFrame DEF LockInv
  <1>2. /\ \A o \in Ops : journal[o] # Unused => journal'[o] = journal[o]
        /\ \A o \in Ops : journal'[o] # journal[o] => journal'[o].state = "planned"
    <2>1. ASSUME NEW j \in Workers, NEW o \in Ops, NEW f, NEW target, NEW reverses,
                 Create(j, o, f, target, reverses)
          PROVE  /\ \A q \in Ops : journal[q] # Unused => journal'[q] = journal[q]
                 /\ \A q \in Ops : journal'[q] # journal[q] => journal'[q].state = "planned"
      <3>1. /\ journal[o] = Unused /\ journal'[o].state = "planned"
            /\ \A q \in Ops \ {o} : journal'[q] = journal[q]
        BY <1>1, <2>1, CreatedRecord
      <3> QED BY <3>1
    <2> QED BY <2>1, OthersFrame
  <1>3. \A o \in Ops : Exists(o)' /\ journal'[o].state \in {"dependent_state_committed", "complete"}
                       => o \in relocated'
    BY <1>1, <1>2 DEF Recorded, Exists, database
  <1>4. ASSUME NEW k \in Jobs, job'[k] = job[k]
        PROVE  /\ job'[k].pc \in {"committed", "verified", "advanced"} => job'[k].op \in relocated'
               /\ Engaged(job'[k]) => /\ journal'[job'[k].op] # Unused
                                      /\ journal'[job'[k].op].state \notin Final
    <2>1. Engaged(job[k]) => job[k].op \in Ops
      BY <1>1 DEF TypeInv, JobsHaveRecords, Busy, Engaged
    <2> QED BY <1>1, <1>2, <1>4, <2>1 DEF Recorded, Pending, Exists, database
  <1>5. ASSUME NEW k \in Jobs, job'[k] # job[k], Engaged(job'[k])
        PROVE  /\ job'[k].pc \in {"committed", "verified", "advanced"} => job'[k].op \in relocated'
               /\ journal'[job'[k].op] # Unused /\ journal'[job'[k].op].state \notin Final
    <2>1. CASE Inspect
      <3>1. PICK q \in Ops : /\ Pending(q)
                             /\ \/ Becomes(Recovery, At(Resume(q), q, journal[q].state))
                                \/ Becomes(Recovery, At("stuck", q, journal[q].state))
        BY <2>1 DEF Inspect, NextPending
      <3>2. job'[k] \in {At(Resume(q), q, journal[q].state), At("stuck", q, journal[q].state)}
        BY <1>1, <1>5, <3>1 DEF Becomes, TypeInv, TypeOK
      <3>3. job'[k].op = q /\ job'[k].pc \in {Resume(q), "stuck"}
        BY <3>2 DEF At
      <3>4. Resume(q) \in {"committed", "verified", "advanced"}
               => journal[q].state = "dependent_state_committed"
        BY DEF Resume
      <3> QED BY <1>1, <1>2, <3>1, <3>3, <3>4 DEF Recorded, Pending, Exists, database
    <2>2. CASE Start \/ Close \/ EndRecovery \/ Crash
      BY <1>1, <1>5, <2>2
         DEF Start, Close, EndRecovery, Crash, Becomes, Idle, Scan, Engaged, TypeInv, TypeOK, Jobs
    <2>3. ASSUME NEW j \in Workers, LoadUndo(j) \/ GiveUpUndo(j)
          PROVE  FALSE
      <3>1. PICK t : Becomes(j, t) /\ ~Engaged(t)
        <4>1. ~Engaged(Idle) /\ \A q : ~Engaged(At("undo", q, "none"))
          BY DEF At, Idle, Engaged
        <4> QED BY <2>3, <4>1 DEF LoadUndo, GiveUpUndo
      <3> QED BY <1>1, <1>5, <3>1 DEF Becomes, TypeInv, TypeOK
    <2>4. ASSUME NEW j \in Workers, NEW o \in Ops, NEW f, NEW target, NEW reverses,
                 Create(j, o, f, target, reverses)
          PROVE  /\ job'[k].pc \notin {"committed", "verified", "advanced"}
                 /\ journal'[job'[k].op] # Unused /\ journal'[job'[k].op].state \notin Final
      <3>1. /\ journal'[o] # Unused /\ journal'[o].state = "planned"
            /\ job'[j] = At("created", o, "planned")
            /\ \A q \in Jobs \ {j} : job'[q] = job[q]
        BY <1>1, <2>4, CreatedRecord
      <3>2. job'[k] = At("created", o, "planned")
        BY <1>5, <3>1
      <3> QED BY <3>1, <3>2 DEF At, Final, Settled
    <2>5. CASE Intrude \/ UNCHANGED vars
      BY <1>5, <2>5 DEF Intrude, vars
    <2>6. ASSUME NEW j \in Workers, Begin(j) \/ CreateUndo(j)
          PROVE  /\ job'[k].pc \notin {"committed", "verified", "advanced"}
                 /\ journal'[job'[k].op] # Unused /\ journal'[job'[k].op].state \notin Final
      BY <2>4, <2>6, AdmissionCreates
    <2> QED BY <2>1, <2>2, <2>3, <2>4, <2>5, <2>6 DEF Next
  <1> QED BY <1>3, <1>4, <1>5 DEF Recorded, Pending, Exists, Engaged

(* A relocation moves the occurrences of its own file only, and all of     *)
(* those that show the operation's source.                                 *)
LEMMA RelocationMoves ==
    ASSUME TypeInv, NEW o \in Ops, o \notin relocated, Relocate(o),
           \A i \in Items : refs[i].file = FileOf(o) => refs[i].path = journal[o].source
    PROVE  /\ \A i \in Items : refs'[i].file = refs[i].file
           /\ \A i \in Items : refs[i].file # FileOf(o) => refs'[i] = refs[i]
           /\ \A i \in Items : refs[i].file = FileOf(o) => refs'[i].path = journal[o].target
           /\ relocated' = relocated \cup {o}
  <1>1. /\ CanRelocate(o) /\ relocated' = relocated \cup {o}
        /\ refs' = [i \in Items |-> IF refs[i].path = journal[o].source
                                     THEN [refs[i] EXCEPT !.path = journal[o].target]
                                     ELSE refs[i]]
    BY DEF Relocate
  <1>2. \A i \in Items : refs[i] \in Occurrence
    BY DEF TypeInv, TypeOK
  <1>3. \A i \in Items : refs[i].path = journal[o].source => refs[i].file = FileOf(o)
    <2>1. Occurrences(journal[o].source) = {} \/ Owned(o, journal[o].source)
      BY <1>1 DEF CanRelocate
    <2> QED BY <2>1 DEF Occurrences, Owned
  <1> QED BY <1>1, <1>2, <1>3 DEF Occurrence

(* A thread's step on an open record of file f disturbs only f. *)
LEMMA ExecuteKeepsAgreed ==
    ASSUME LockInv, Recorded, RelocatedForward, Agreed, OneOpenPerFile,
           NEW j \in Jobs, Execute(j)
    PROVE  Agreed'
  <1> DEFINE w == job[j].op
             g == FileOf(w)
  <1>1. /\ TypeInv /\ Engaged(job[j]) /\ Busy(j) /\ w \in Ops /\ Exists(w) /\ Pending(w)
        /\ Underway(w, g) /\ g \in Files
        /\ Sound(job[j], journal[w], name[g])
    BY ExecuteIsEngaged, ExistingRecord
       DEF LockInv, TypeInv, JobsHaveRecords, Recorded, ThreadsSound, NameOf, FileOf, Underway
  <1>2. /\ \A o \in Ops \ {w} : journal'[o] = journal[o]
        /\ journal'[w].file = g
        /\ journal'[w].source = journal[w].source /\ journal'[w].target = journal[w].target
        /\ \A f \in Files \ {g} : name'[f] = name[f]
    BY <1>1, ExecuteFrame DEF FileOf
  <1>3. \A i \in Items : refs[i] \in Occurrence
    BY <1>1 DEF TypeInv, TypeOK
  <1>4. CASE UNCHANGED <<journal, database>>
    <2>1. \A f \in Files : name'[f] = name[f] \/ ~(\A o \in Ops : ~Underway(o, f))
      BY <1>1, <1>2
    <2> QED BY <1>3, <1>4, <2>1
            DEF Agreed, Clear, Underway, Pending, Exists, FileOf, NameShown, database, Occurrence
  <1>5. CASE /\ job[j].pc = "published" /\ Relocate(w) /\ UNCHANGED <<name, journal>>
    <2>1. CASE UNCHANGED database
      BY <1>5, <2>1 DEF Agreed, Clear, Underway, Pending, Exists, FileOf, NameShown, database
    <2>2. CASE w \notin relocated /\ g \in Library /\ Clear(g)
      <3>1. \A i \in Items : refs[i].file = g => refs[i].path = journal[w].source
        BY <1>1, <2>2 DEF Agreed, NameShown
      <3>2. /\ \A i \in Items : refs'[i].file = refs[i].file
            /\ \A i \in Items : refs[i].file # g => refs'[i] = refs[i]
            /\ \A i \in Items : refs[i].file = g => refs'[i].path = journal[w].target
            /\ relocated' = relocated \cup {w}
        BY <1>1, <1>5, <2>2, <3>1, RelocationMoves
      <3>3. SUFFICES ASSUME NEW i \in Items, refs[i].file \in Library, Clear(refs[i].file)
                     PROVE  /\ (\A o \in Ops : ~Underway(o, refs[i].file))
                                   => refs'[i].path = name[refs[i].file]
                            /\ \A o \in Ops : Underway(o, refs[i].file)
                                   => refs'[i].path = NameShown(o)'
        BY <1>5, <3>2 DEF Agreed, Clear, Underway, Pending, Exists, FileOf
      <3>4. CASE refs[i].file = g
        <4>1. \A o \in Ops : Underway(o, g) => o = w
          BY <1>1 DEF OneOpenPerFile, Underway
        <4>2. ASSUME NEW o \in Ops, o = w PROVE refs'[i].path = NameShown(o)'
          BY <1>5, <3>2, <3>4, <4>2 DEF NameShown
        <4> QED BY <1>1, <3>4, <4>1, <4>2
      <3>5. CASE refs[i].file # g
        <4>1. \A o \in Ops : Underway(o, refs[i].file) => NameShown(o)' = NameShown(o)
          BY <1>1, <1>5, <3>2, <3>5 DEF NameShown, Underway
        <4> QED BY <3>2, <3>3, <3>5, <4>1 DEF Agreed
      <3> QED BY <3>4, <3>5
    <2>3. CASE w \notin relocated /\ ~(g \in Library /\ Clear(g))
      <3>1. /\ CanRelocate(w) /\ relocated' = relocated \cup {w}
            /\ refs' = [i \in Items |-> IF refs[i].path = journal[w].source
                                         THEN [refs[i] EXCEPT !.path = journal[w].target]
                                         ELSE refs[i]]
        BY <1>5, <2>3 DEF Relocate
      <3>2. \A i \in Items : refs[i].path = journal[w].source => refs[i].file = g
        <4>1. Occurrences(journal[w].source) = {} \/ Owned(w, journal[w].source)
          BY <3>1 DEF CanRelocate
        <4> QED BY <4>1 DEF Occurrences, Owned
      <3>3. \A i \in Items : /\ refs'[i].file = refs[i].file
                             /\ refs[i].file # g => refs'[i] = refs[i]
        BY <1>3, <3>1, <3>2 DEF Occurrence
      <3>4. SUFFICES ASSUME NEW i \in Items, refs[i].file \in Library, Clear(refs[i].file)
                     PROVE  /\ (\A o \in Ops : ~Underway(o, refs[i].file))
                                   => refs'[i].path = name[refs[i].file]
                            /\ \A o \in Ops : Underway(o, refs[i].file) => refs'[i].path = NameShown(o)'
        BY <1>5, <3>3 DEF Agreed, Clear, Underway, Pending, Exists, FileOf
      <3>5. refs[i].file # g
        BY <2>3, <3>4
      <3>6. \A o \in Ops : Underway(o, refs[i].file) => NameShown(o)' = NameShown(o)
        BY <1>1, <1>5, <3>1, <3>5 DEF NameShown, Underway
      <3> QED BY <3>3, <3>4, <3>5, <3>6 DEF Agreed
    <2> QED BY <1>5, <2>1, <2>2, <2>3 DEF Relocate
  <1>6. ASSUME NEW to \in StatesOf(FALSE), Write(j, to), UNCHANGED <<name, database>>,
               <<job[j].pc, to>> \in
                     {<<"synced", "target_published">>,
                      <<"verified", "dependent_state_committed">>,
                      <<"advanced", "complete">>, <<"abort", "rolled_back">>,
                      <<"stuck", "needs_reconciliation">>}
        PROVE  Agreed'
    <2>1. journal'[w] # Unused /\ journal'[w].state = to
      BY <1>1, <1>6, WrittenRecord
    <2>2. SUFFICES ASSUME NEW i \in Items, NEW f \in Library, f = refs[i].file, Clear(f)'
                   PROVE  /\ (\A o \in Ops : ~Underway(o, f)') => refs[i].path = name[f]
                          /\ \A o \in Ops : Underway(o, f)' => refs[i].path = NameShown(o)
      BY <1>2, <1>6 DEF Agreed, Clear, Underway, Pending, Exists, FileOf, NameShown, database
    <2>3. Clear(f)
      <3>1. journal[w].state # "needs_reconciliation"
        BY <1>1 DEF Pending, Final
      <3> QED BY <1>2, <2>1, <2>2, <3>1 DEF Clear, Exists, FileOf
    <2>4. /\ (\A o \in Ops : ~Underway(o, f)) => refs[i].path = name[f]
          /\ \A o \in Ops : Underway(o, f) => refs[i].path = NameShown(o)
      BY <2>2, <2>3 DEF Agreed
    <2>5. \A o \in Ops \ {w} : Underway(o, f)' <=> Underway(o, f)
      BY <1>2 DEF Underway, Pending, Exists, FileOf
    <2>6. \A o \in Ops : Underway(o, f)' => Underway(o, f)
      BY <1>1, <1>2, <2>5 DEF Underway, FileOf
    <2>7. \A o \in Ops : Underway(o, f)' => refs[i].path = NameShown(o)
      BY <2>4, <2>6
    <2>8. ASSUME \A o \in Ops : ~Underway(o, f)' PROVE refs[i].path = name[f]
      <3>1. CASE f # g
        BY <2>4, <2>5, <2>8, <3>1, <1>1 DEF Underway
      <3>2. CASE f = g
        <4>1. to \in Final
          BY <1>1, <1>2, <2>1, <2>8, <3>2 DEF Underway, Pending, Exists, FileOf
        <4>2. to # "needs_reconciliation"
          BY <1>1, <1>2, <2>1, <2>2, <3>2 DEF Clear, Exists, FileOf
        <4>3. CASE job[j].pc = "advanced"
          <5>1. w \in relocated /\ name[g] = journal[w].target
            BY <1>1, <4>3 DEF Recorded, Sound, AtTarget
          <5> QED BY <1>1, <2>4, <3>2, <5>1 DEF NameShown
        <4>4. CASE job[j].pc = "abort"
          <5>1. w \notin relocated
            BY <1>1, <4>4 DEF RelocatedForward, Replayable
          <5>2. name[g] = journal[w].source
            BY <1>1, <4>4 DEF Sound, AtSource
          <5> QED BY <1>1, <2>4, <3>2, <5>1, <5>2 DEF NameShown
        <4>5. job[j].pc \in {"advanced", "abort"}
          BY <1>6, <4>1, <4>2 DEF Final, Settled
        <4> QED BY <4>3, <4>4, <4>5
      <3> QED BY <3>1, <3>2
    <2> QED BY <2>7, <2>8
  <1> QED BY <1>1, <1>4, <1>5, <1>6, ExecuteKinds

(* A crash of the machine leaves a settled file where it is. *)
LEMMA OthersKeepAgreed ==
    ASSUME LockInv, RelocatedForward, Agreed, SettledIsDurable, OneOpenPerFile',
           [Next]_vars, \A j \in Jobs : ~Execute(j)
    PROVE  Agreed'
  <1>1. TypeInv /\ UNCHANGED database
    BY OthersFrame DEF LockInv
  <1>2. \A i \in Items : refs[i] \in Occurrence
    BY <1>1 DEF TypeInv, TypeOK
  <1>3. CASE UNCHANGED journal
    <2>1. ASSUME NEW f \in Library, Clear(f), \A o \in Ops : ~Underway(o, f)
          PROVE  name'[f] = name[f]
      <3>1. CASE Crash
        <4>1. \A o \in Ops : Exists(o) /\ FileOf(o) = f => journal[o].state \in Settled
          BY <2>1 DEF Clear, Underway, Pending, Final
        <4>2. "power" \in CrashKinds => limbo[f] = {}
          BY <4>1 DEF SettledIsDurable
        <4> QED BY <3>1, <4>2 DEF Crash, disk, Files
      <3>2. CASE Intrude
        <4>1. PICK s \in Strangers, p \in Paths : name' = [name EXCEPT ![s] = p]
          BY <3>2 DEF Intrude
        <4> QED BY <1>1, <4>1, RenameAssumption DEF TypeInv, TypeOK, Files
      <3>3. CASE ~Crash /\ ~Intrude
        BY <3>3 DEF Next, Start, Close, Begin, LoadUndo, CreateUndo, GiveUpUndo,
           Inspect, EndRecovery, disk, vars
      <3> QED BY <3>1, <3>2, <3>3
    <2> QED BY <1>1, <1>3, <2>1
            DEF Agreed, Clear, Underway, Pending, Exists, FileOf, NameShown, database
  <1>4. ASSUME NEW j \in Workers, NEW o \in Ops, NEW g \in Files, NEW target, NEW reverses,
               Create(j, o, g, target, reverses), UNCHANGED name
        PROVE  Agreed'
    <2>1. /\ journal[o] = Unused
          /\ journal'[o] # Unused /\ journal'[o].state = "planned"
          /\ \A q \in Ops \ {o} : journal'[q] = journal[q]
      BY <1>1, <1>4, CreatedRecord
    <2>2. journal'[o].file = g /\ journal'[o].source = name[g]
      <3>1. journal'[o] = [state |-> "planned", file |-> g, source |-> name[g],
                           target |-> target, reverses |-> reverses]
        BY <1>1, <1>4, CreatedRecord
      <3> QED BY <3>1
    <2>3. o \notin relocated
      BY <2>1 DEF RelocatedForward, Exists
    <2>4. Underway(o, g)'
      BY <2>1, <2>2 DEF Underway, Pending, Exists, FileOf, Final, Settled
    <2>5. \A q \in Ops \ {o} : \A f : Underway(q, f)' <=> Underway(q, f)
      BY <2>1 DEF Underway, Pending, Exists, FileOf
    <2>6. \A f : ~Underway(o, f)
      BY <2>1 DEF Underway, Pending, Exists
    <2>7. \A q \in Ops : ~Underway(q, g)
      <3>1. \A q \in Ops : Underway(q, g)' => q = o
        BY <2>4 DEF OneOpenPerFile, Underway
      <3> QED BY <2>5, <2>6, <3>1
    <2>8. SUFFICES ASSUME NEW i \in Items, NEW f \in Library, f = refs[i].file, Clear(f)'
                   PROVE  /\ (\A q \in Ops : ~Underway(q, f)') => refs[i].path = name[f]
                          /\ \A q \in Ops : Underway(q, f)' => refs[i].path = NameShown(q)'
      BY <1>1, <1>4 DEF Agreed, Underway, FileOf, Pending, Exists, Clear, database
    <2>9. Clear(f)
      BY <2>1, <2>8 DEF Clear, Exists, FileOf
    <2>10. /\ (\A q \in Ops : ~Underway(q, f)) => refs[i].path = name[f]
           /\ \A q \in Ops : Underway(q, f) => refs[i].path = NameShown(q)
      BY <2>8, <2>9 DEF Agreed
    <2>11. (\A q \in Ops : ~Underway(q, f)') => refs[i].path = name[f]
      BY <2>5, <2>6, <2>10
    <2>12. \A q \in Ops \ {o} : Underway(q, f)' => refs[i].path = NameShown(q)'
      BY <1>1, <2>1, <2>5, <2>10 DEF NameShown, database
    <2>13. Underway(o, f)' => refs[i].path = NameShown(o)'
      <3>1. Underway(o, f)' => f = g
        BY <2>2 DEF Underway, FileOf
      <3>2. NameShown(o)' = name[g]
        BY <1>1, <2>2, <2>3 DEF NameShown, database
      <3> QED BY <2>7, <2>10, <3>1, <3>2
    <2> QED BY <2>11, <2>12, <2>13
  <1> QED BY <1>3, <1>4, OthersFrame

LEMMA AgreementInductive ==
    ASSUME ReplayMayFail = FALSE
    PROVE  /\ Init => RelocatedForward /\ Recorded /\ Agreed
           /\ LockInv /\ RelocatedForward /\ [Next]_vars => RelocatedForward'
           /\ LockInv /\ RelocatedForward /\ Recorded /\ [Next]_vars => Recorded'
           /\ LockInv /\ RelocatedForward /\ Recorded /\ Agreed
              /\ OneOpenPerFile /\ SettledIsDurable /\ OneOpenPerFile' /\ [Next]_vars
                 => Agreed'
  <1>1. Init => RelocatedForward /\ Recorded /\ Agreed
    BY DEF Init, RelocatedForward, Recorded, Agreed, Underway, Pending, Exists, Engaged, Idle
  <1>2. LockInv /\ RelocatedForward /\ [Next]_vars => RelocatedForward'
    BY ExecuteKeepsForward, OthersKeepForward
  <1>3. LockInv /\ RelocatedForward /\ Recorded /\ [Next]_vars => Recorded'
    BY ExecuteKeepsRecorded, OthersKeepRecorded
  <1>4. LockInv /\ RelocatedForward /\ Recorded /\ Agreed
           /\ OneOpenPerFile /\ SettledIsDurable /\ OneOpenPerFile' /\ [Next]_vars => Agreed'
    BY ExecuteKeepsAgreed, OthersKeepAgreed
  <1> QED BY <1>1, <1>2, <1>3, <1>4

LEMMA AgreedSettles == TypeInv /\ Agreed => SettledAgreement
  <1> SUFFICES ASSUME TypeInv, Agreed, NEW i \in Items, refs[i].file \in Library,
                      \A o \in Ops : Exists(o) /\ FileOf(o) = refs[i].file
                                       => journal[o].state \in Settled
               PROVE  refs[i].path = name[refs[i].file]
    BY DEF SettledAgreement
  <1>1. Clear(refs[i].file) /\ \A o \in Ops : ~Underway(o, refs[i].file)
    BY DEF Clear, Underway, Pending, Final, Settled
  <1> QED BY <1>1 DEF Agreed

(* When all publications of a file have ended, its occurrences name the    *)
(* path the file is under, whatever failed, stopped or was replayed        *)
(* meanwhile, in every behaviour that keeps two promises the code leaves   *)
(* to others: no file is acted on again while a record of it is open, and  *)
(* none is settled under a name that was not synced.                       *)
THEOREM AgreementFollowsFromTwoPromises ==
    ASSUME ReplayMayFail = FALSE
    PROVE  Spec /\ []OneOpenPerFile /\ []SettledIsDurable => []SettledAgreement
  <1>1. LockInv => TypeInv
    BY DEF LockInv
  <1> QED BY <1>1, AgreementInductive, AgreedSettles, LockInductive, PTL DEF Spec

(* The user does not act on an interrupted file, and one worker runs.      *)
UndoAlone ==
    \A j \in Workers : job[j].pc = "undo" =>
        \A q \in Ops : ~Underway(q, FileOf(job[j].op))

LEMMA OneOpenInductive ==
    ASSUME RetryUnsettled = FALSE, \A j, k \in Workers : j = k
    PROVE  /\ Init => OneOpenPerFile /\ UndoAlone
           /\ LockInv /\ OneOpenPerFile /\ UndoAlone /\ [Next]_vars
                 => OneOpenPerFile' /\ UndoAlone'
  <1>1. Init => OneOpenPerFile /\ UndoAlone
    BY DEF Init, OneOpenPerFile, UndoAlone, Pending, Exists, Idle, Jobs
  <1>2. ASSUME LockInv, OneOpenPerFile, UndoAlone, [Next]_vars
        PROVE  OneOpenPerFile' /\ UndoAlone'
    <2>1. TypeInv /\ \A j \in Workers : j \in Jobs /\ j # Recovery
      BY <1>2, RenameAssumption DEF LockInv, Jobs
    <2>2. ASSUME NEW j \in Jobs, Execute(j)
          PROVE  OneOpenPerFile' /\ UndoAlone'
      <3> DEFINE w == job[j].op
      <3>1. Engaged(job[j]) /\ Busy(j) /\ w \in Ops /\ Exists(w)
        BY <2>1, <2>2, ExecuteIsEngaged DEF TypeInv, JobsHaveRecords
      <3>2. /\ \A k \in Jobs \ {j} : job'[k] = job[k]
            /\ \A o \in Ops \ {w} : journal'[o] = journal[o]
            /\ journal'[w].file = journal[w].file
        BY <2>1, <2>2, ExecuteFrame
      <3>3. \A o \in Ops : Pending(o)' => Pending(o)
        <4>1. journal'[w] # Unused /\ journal'[w].state \notin Final => Pending(w)
          <5>1. CASE UNCHANGED journal
            BY <5>1 DEF Pending, Exists
          <5>2. ASSUME NEW to \in StatesOf(FALSE), Write(j, to) PROVE Pending(w)
            BY <2>1, <3>1, <5>2, WrittenRecord DEF Pending
          <5> QED BY <2>1, <2>2, <5>1, <5>2, ExecuteKinds
        <4> QED BY <3>2, <4>1 DEF Pending, Exists
      <3>4. OneOpenPerFile'
        BY <1>2, <3>1, <3>2, <3>3 DEF OneOpenPerFile, FileOf
      <3>5. \A k \in Workers : job'[k].pc # "undo"
        <4>1. CASE j = Recovery
          BY <1>2, <2>1, <3>1, <3>2, <4>1 DEF LockInv, RecoveryAlone, Recovering, Engaged
        <4>2. CASE j \in Workers
          <5>1. job'[j].pc # "undo"
            <6>1. \A pc : Goto(j, pc) => job'[j].pc = pc
              BY <2>1, GotoThread
            <6>2. /\ \A pc, o, known : Becomes(j, At(pc, o, known)) => job'[j].pc = pc
                  /\ Becomes(j, Idle) => job'[j].pc = "idle"
                  /\ Done(j) => job'[j].pc \in {"idle", "scan"}
              BY <2>1 DEF Becomes, At, Done, Idle, Scan, TypeInv, TypeOK
            <6> QED BY <2>2, <6>1, <6>2
                DEF Execute, Withdraw, Check, Rename, SyncTarget, Publish, CommitDependents,
                    VerifyTarget, RecordDependents, Complete, RollBack, SyncSource, Fail
          <5> QED BY <4>2, <5>1
        <4> QED BY <4>1, <4>2 DEF Jobs
      <3> QED BY <3>4, <3>5 DEF UndoAlone
    <2>3. ASSUME NEW j \in Workers, Begin(j) \/ CreateUndo(j)
          PROVE  OneOpenPerFile' /\ UndoAlone'
      <3>1. PICK o \in Ops, f \in Files :
              /\ \E target, reverses : Create(j, o, f, target, reverses)
              /\ \A q \in Ops : ~Underway(q, f)
        <4>1. CASE Begin(j)
          <5>1. \A k \in Jobs : ~Running(k)
            BY <1>2, <2>1, <4>1 DEF Begin, Running, Recovering, Jobs
          <5> QED BY <4>1, <5>1 DEF Begin, Retriable, Underway, Files
        <4>2. CASE CreateUndo(j)
          <5>1. job[j].op \in Ops /\ Exists(job[j].op)
            BY <2>1, <4>2 DEF CreateUndo, TypeInv, JobsHaveRecords, Busy
          <5>2. FileOf(job[j].op) \in Files
            BY <2>1, <5>1, ExistingRecord DEF TypeInv
          <5> QED BY <1>2, <4>2, <5>2 DEF CreateUndo, UndoAlone
        <4> QED BY <2>3, <4>1, <4>2
      <3>2. /\ journal[o] = Unused /\ journal'[o].file = f
            /\ \A q \in Ops \ {o} : journal'[q] = journal[q]
            /\ job'[j].pc = "created"
            /\ \A k \in Jobs \ {j} : job'[k] = job[k]
        <4>1. ASSUME NEW target, NEW reverses, Create(j, o, f, target, reverses)
              PROVE  /\ journal[o] = Unused /\ journal'[o].file = f
                     /\ \A q \in Ops \ {o} : journal'[q] = journal[q]
                     /\ job'[j].pc = "created"
                     /\ \A k \in Jobs \ {j} : job'[k] = job[k]
          <5>1. /\ journal[o] = Unused
                /\ journal'[o] = [state |-> "planned", file |-> f, source |-> name[f],
                                  target |-> target, reverses |-> reverses]
                /\ \A q \in Ops \ {o} : journal'[q] = journal[q]
                /\ job'[j] = At("created", o, "planned")
                /\ \A k \in Jobs \ {j} : job'[k] = job[k]
            BY <2>1, <4>1, CreatedRecord
          <5> QED BY <5>1 DEF At
        <4> QED BY <3>1, <4>1
      <3>3. \A q \in Ops \ {o} : /\ Pending(q)' <=> Pending(q)
                                 /\ journal'[q].file = FileOf(q)
        BY <3>2 DEF Pending, Exists, FileOf
      <3>4. OneOpenPerFile'
        <4> SUFFICES ASSUME NEW p \in Ops, NEW q \in Ops, Pending(p)', Pending(q)',
                            journal'[p].file = journal'[q].file
                     PROVE  p = q
          BY DEF OneOpenPerFile, FileOf
        <4>1. CASE p # o /\ q # o
          BY <1>2, <3>3, <4>1 DEF OneOpenPerFile
        <4>2. CASE p = o \/ q = o
          BY <3>1, <3>2, <3>3, <4>2 DEF Underway
        <4> QED BY <4>1, <4>2
      <3>5. \A k \in Workers : job'[k].pc # "undo"
        BY <3>2
      <3> QED BY <3>4, <3>5 DEF UndoAlone
    <2>4. ASSUME UNCHANGED journal, \A k \in Workers : job'[k].pc = "undo" => job'[k] = job[k]
          PROVE  OneOpenPerFile' /\ UndoAlone'
      BY <1>2, <2>4 DEF OneOpenPerFile, UndoAlone, Underway, Pending, Exists, FileOf
    <2>5. CASE Start \/ Close \/ EndRecovery \/ Inspect
      <3>1. \A k \in Workers : job'[k] = job[k]
        BY <2>1, <2>5 DEF Start, Close, EndRecovery, Inspect, Becomes, TypeInv, TypeOK
      <3> QED BY <2>4, <2>5, <3>1 DEF Start, Close, EndRecovery, Inspect
    <2>6. CASE Crash
      BY <2>1, <2>4, <2>6 DEF Crash, Idle
    <2>7. CASE Intrude \/ UNCHANGED vars
      BY <2>4, <2>7 DEF Intrude, vars
    <2>8. ASSUME NEW j \in Workers, GiveUpUndo(j)
          PROVE  OneOpenPerFile' /\ UndoAlone'
      <3>1. \A k \in Workers : job'[k] = job[k] \/ job'[k].pc = "idle"
        BY <2>1, <2>8 DEF GiveUpUndo, Becomes, Idle, TypeInv, TypeOK
      <3> QED BY <2>4, <2>8, <3>1 DEF GiveUpUndo
    <2>9. ASSUME NEW j \in Workers, LoadUndo(j)
          PROVE  OneOpenPerFile' /\ UndoAlone'
      <3>1. PICK o \in Ops : Retriable(FileOf(o)) /\ Becomes(j, At("undo", o, "none"))
        BY <2>9 DEF LoadUndo
      <3>2. journal' = journal /\ job[j].pc = "idle" /\ ~Recovering
        BY <2>9 DEF LoadUndo
      <3>3. \A k \in Jobs : ~Running(k)
        BY <1>2, <2>1, <3>2 DEF Running, Recovering, Jobs
      <3>4. \A q \in Ops : ~Underway(q, FileOf(o))
        BY <1>2, <3>1, <3>3 DEF Retriable, Underway
      <3>5. job'[j].op = o
        BY <2>1, <3>1 DEF Becomes, At, TypeInv, TypeOK
      <3>6. OneOpenPerFile'
        BY <1>2, <3>2 DEF OneOpenPerFile, Pending, Exists, FileOf
      <3>7. UndoAlone'
        BY <1>2, <3>2, <3>4, <3>5 DEF UndoAlone, Underway, Pending, Exists, FileOf
      <3> QED BY <3>6, <3>7
    <2> QED BY <1>2, <2>2, <2>3, <2>5, <2>6, <2>7, <2>8, <2>9 DEF Next
  <1> QED BY <1>1, <1>2

(* Both promises are kept by one worker, a user who leaves interrupted     *)
(* files to the recovery, and a machine that keeps its power: then the     *)
(* occurrences of every settled file agree with the disk.                  *)
THEOREM SettledFilesAgree ==
    ASSUME ReplayMayFail = FALSE, RetryUnsettled = FALSE, "power" \notin CrashKinds,
           \A j, k \in Workers : j = k
    PROVE  Spec => []SettledAgreement
  <1>1. SettledIsDurable
    BY DEF SettledIsDurable
  <1>2. [](SettledIsDurable)
    BY <1>1, PTL
  <1> QED BY <1>2, OneOpenInductive, AgreementFollowsFromTwoPromises, LockInductive, PTL DEF Spec

-------------------------------------------------------------------------------
(* A journaled rename, with its crashes and its recovery, implements the   *)
(* abstract operation that takes effect once or not at all.  Besides the   *)
(* invariants behind the lock and the references nothing is needed: each   *)
(* step of the executor maps to one step of the abstract operation, or to  *)
(* none.                                                                   *)

Shown == [o \in Ops |-> Verdict(o)]
Plans == [o \in Ops |-> Plan(o)]

(* A step that leaves journal and database alone does not show. *)
LEMMA StutterStep ==
    ASSUME UNCHANGED journal, UNCHANGED database
    PROVE  UNCHANGED <<Shown, Plans, refs>>
  BY DEF Shown, Plans, Verdict, Plan, Exists, database

(* A record that keeps its plan keeps its verdict, unless it is closed or  *)
(* its relocation is committed.                                            *)
LEMMA OthersUnmoved ==
    ASSUME LockInv, NEW o \in Ops,
           \A q \in Ops \ {o} : /\ journal'[q] = journal[q]
                                /\ q \in relocated' <=> q \in relocated
    PROVE  \A q \in Ops \ {o} : Shown'[q] = Shown[q] /\ Plans'[q] = Plans[q]
  BY DEF Shown, Plans, Verdict, Plan, Exists

(* A new record announces its operation. *)
LEMMA CreateAnnounces ==
    ASSUME LockInv, RelocatedForward, UNCHANGED database,
           NEW j \in Jobs, NEW o \in Ops, NEW f, NEW target, NEW reverses,
           Create(j, o, f, target, reverses)
    PROVE  Atomic!Announce(o)
  <1> DEFINE new == [state |-> "planned", file |-> f, source |-> name[f],
                     target |-> target, reverses |-> reverses]
  <1>1. journal \in [Ops -> Record \cup {Unused}] /\ relocated' = relocated /\ refs' = refs
    BY DEF LockInv, TypeInv, TypeOK, database
  <1>2. journal[o] = Unused /\ journal' = [journal EXCEPT ![o] = new]
    BY DEF Create, NextRow, Exists
  <1>3. o \notin relocated
    BY <1>2 DEF RelocatedForward, Exists
  <1>4. journal'[o] = new /\ new # Unused /\ new.state = "planned"
    BY <1>1, <1>2 DEF Unused
  <1>5. Shown[o] = "none"
    BY <1>2 DEF Shown, Verdict, Exists
  <1>6. \A q \in Ops \ {o} : Shown'[q] = Shown[q] /\ Plans'[q] = Plans[q]
    BY <1>1, <1>2, OthersUnmoved
  <1>7. Shown'[o] = "open"
    <2> HIDE DEF new
    <2> QED BY <1>1, <1>3, <1>4 DEF Shown, Verdict, Exists
  <1>8. Shown' = [Shown EXCEPT ![o] = "open"]
    BY <1>6, <1>7 DEF Shown
  <1> QED BY <1>1, <1>5, <1>6, <1>8 DEF Atomic!Announce, Shown, Plans

(* A write that only advances the record does not show; a write that       *)
(* closes it gives the operation up or presents it, and is never the end   *)
(* of one whose effect shows.                                              *)
LEMMA WriteShows ==
    ASSUME LockInv, RelocatedForward, RelocatedForward', UNCHANGED database,
           NEW j \in Jobs, Engaged(job[j]), Busy(j), NEW to \in StatesOf(FALSE), Write(j, to)
    PROVE  \/ UNCHANGED <<Shown, Plans, refs>>
           \/ Atomic!GiveUp(job[j].op)
           \/ Atomic!Present(job[j].op)
  <1> DEFINE w == job[j].op
  <1>1. /\ w \in Ops /\ journal[w] \in Record /\ journal[w] # Unused /\ TypeInv
        /\ relocated' = relocated /\ refs' = refs
    BY ExistingRecord, RecordIsUsed DEF LockInv, TypeInv, JobsHaveRecords, Exists, database
  <1>2. /\ journal'[w] = [journal[w] EXCEPT !.state = to]
        /\ \A q \in Ops \ {w} : journal'[q] = journal[q]
        /\ journal'[w] # Unused
    BY <1>1, WriteKeepsRecords DEF KeepsRecords
  <1>3. /\ journal'[w].state = to
        /\ journal'[w].source = journal[w].source
        /\ journal'[w].target = journal[w].target
    BY <1>1, <1>2 DEF Record
  <1>4. \A q \in Ops \ {w} : Shown'[q] = Shown[q] /\ Plans'[q] = Plans[q]
    BY <1>1, <1>2, OthersUnmoved
  <1>5. Plans'[w] = Plans[w]
    BY <1>1, <1>2, <1>3 DEF Plans, Plan, Exists
  <1>6. Plans' = Plans
    BY <1>4, <1>5 DEF Plans
  <1>7. journal[w].state \notin {"rolled_back", "needs_reconciliation"}
    BY DEF Write, Accepts, LegalTransition, RollBackStep, ForwardStep, Final, Settled
  <1>8. CASE to = "rolled_back"
    <2>1. w \notin relocated
      BY <1>1, <1>3, <1>8 DEF RelocatedForward
    <2>2. Shown[w] = "open"
      BY <1>1, <1>7, <2>1 DEF Shown, Verdict, Exists
    <2>3. Shown'[w] = "given up"
      BY <1>1, <1>2, <1>3, <1>8 DEF Shown, Verdict, Exists
    <2>4. Shown' = [Shown EXCEPT ![w] = "given up"]
      BY <1>4, <2>3 DEF Shown
    <2> QED BY <1>1, <1>6, <2>2, <2>4 DEF Atomic!GiveUp, Shown, Plans
  <1>9. CASE to = "needs_reconciliation"
    <2>1. Shown[w] \in {"open", "done"}
      BY <1>1, <1>7 DEF Shown, Verdict, Exists
    <2>2. Shown'[w] = "unresolved"
      BY <1>1, <1>2, <1>3, <1>9 DEF Shown, Verdict, Exists
    <2>3. Shown' = [Shown EXCEPT ![w] = "unresolved"]
      BY <1>4, <2>2 DEF Shown
    <2> QED BY <1>1, <1>6, <2>1, <2>3 DEF Atomic!Present, Shown, Plans
  <1>10. CASE to \notin {"rolled_back", "needs_reconciliation"}
    <2>1. Shown'[w] = Shown[w]
      BY <1>1, <1>2, <1>3, <1>7, <1>10 DEF Shown, Verdict, Exists
    <2>2. Shown' = Shown
      BY <1>4, <2>1 DEF Shown
    <2> QED BY <1>1, <1>6, <2>2
  <1> QED BY <1>8, <1>9, <1>10

(* The first relocation of an operation is the step in which it takes      *)
(* effect; a repeated one does not show.                                   *)
LEMMA CommitApplies ==
    ASSUME LockInv, RelocatedForward, NEW j \in Jobs, CommitDependents(j)
    PROVE  UNCHANGED <<Shown, Plans, refs>> \/ Atomic!Apply(job[j].op)
  <1> DEFINE w == job[j].op
  <1>1. /\ w \in Ops /\ journal[w] \in Record /\ journal[w] # Unused
        /\ journal' = journal /\ job[j].pc = "published"
    BY ExistingRecord, RecordIsUsed
       DEF CommitDependents, LockInv, TypeInv, JobsHaveRecords, Exists, Busy
  <1>2. journal[w].state = "target_published"
    BY <1>1 DEF LockInv, ThreadsSound, Sound, Engaged
  <1>3. CASE UNCHANGED database
    BY <1>1, <1>3, StutterStep
  <1>4. CASE ~UNCHANGED database
    <2>1. /\ w \notin relocated /\ relocated' = relocated \cup {w}
          /\ refs' = [i \in Items |->
                        IF refs[i].path = journal[w].source
                          THEN [refs[i] EXCEPT !.path = journal[w].target] ELSE refs[i]]
      BY <1>4 DEF CommitDependents, Relocate, RelocateFails
    <2>2. \A q \in Ops \ {w} : Shown'[q] = Shown[q]
      BY <1>1, <2>1 DEF Shown, Verdict, Exists
    <2>3. Shown[w] = "open" /\ Shown'[w] = "done"
      BY <1>1, <1>2, <2>1 DEF Shown, Verdict, Exists
    <2>4. Shown' = [Shown EXCEPT ![w] = "done"]
      BY <2>2, <2>3 DEF Shown
    <2>5. Plans' = Plans
      BY <1>1 DEF Plans, Plan, Exists
    <2>6. Plans[w] = [source |-> journal[w].source, target |-> journal[w].target]
      BY <1>1 DEF Plans, Plan, Exists
    <2>7. refs' = ShowTarget(w, Plans[w], refs)
      BY <2>1, <2>6 DEF ShowTarget
    <2> QED BY <2>3, <2>4, <2>5, <2>7 DEF Atomic!Apply, Shown, Plans
  <1> QED BY <1>3, <1>4

-------------------------------------------------------------------------------
(* Every step of a publication is a step of the abstract operation or does *)
(* not show.                                                               *)
LEMMA ExecuteRefines ==
    ASSUME LockInv, RelocatedForward, RelocatedForward', NEW j \in Jobs, Execute(j)
    PROVE  Atomic!Next \/ UNCHANGED <<Shown, Plans, refs>>
  <1>1. Engaged(job[j]) /\ Busy(j) /\ job[j].op \in Ops
    BY ExecuteIsEngaged DEF LockInv, TypeInv, JobsHaveRecords
  <1>2. CASE CommitDependents(j)
    BY <1>1, <1>2, CommitApplies DEF Atomic!Next
  <1>3. CASE UNCHANGED journal /\ UNCHANGED database
    BY <1>3, StutterStep
  <1>4. ASSUME ~CommitDependents(j), ~UNCHANGED journal
        PROVE  Atomic!Next \/ UNCHANGED <<Shown, Plans, refs>>
    <2>1. PICK to \in StatesOf(FALSE) : Write(j, to) /\ UNCHANGED database
      BY <1>4 DEF Execute, Withdraw, Check, Rename, SyncTarget, Publish, VerifyTarget,
                  RecordDependents, Complete, RollBack, SyncSource, Fail, WriteFails,
                  StatesOf, States
    <2>2. \/ UNCHANGED <<Shown, Plans, refs>>
          \/ Atomic!GiveUp(job[j].op)
          \/ Atomic!Present(job[j].op)
      BY <1>1, <2>1, WriteShows
    <2> QED BY <1>1, <2>2 DEF Atomic!Next
  <1>5. ~CommitDependents(j) => UNCHANGED database
    BY DEF Execute, Withdraw, Check, Rename, SyncTarget, Publish, VerifyTarget,
           RecordDependents, Complete, RollBack, SyncSource, Fail
  <1> QED BY <1>2, <1>3, <1>4, <1>5

LEMMA StepRefines ==
    ASSUME LockInv, RelocatedForward, RelocatedForward', [Next]_vars
    PROVE  Atomic!Next \/ UNCHANGED <<Shown, Plans, refs>>
  <1>1. ASSUME NEW j \in Jobs, Execute(j)
        PROVE  Atomic!Next \/ UNCHANGED <<Shown, Plans, refs>>
    BY <1>1, ExecuteRefines
  <1>2. ASSUME NEW j \in Workers, Begin(j) \/ CreateUndo(j)
        PROVE  Atomic!Next
    <2>1. j \in Jobs /\ UNCHANGED database
      BY <1>2 DEF Jobs, Begin, CreateUndo
    <2>2. PICK o \in Ops : \E f, target, reverses : Create(j, o, f, target, reverses)
      BY <1>2 DEF Begin, CreateUndo
    <2>3. Atomic!Announce(o)
      BY <2>1, <2>2, CreateAnnounces
    <2> QED BY <2>3 DEF Atomic!Next
  <1>3. CASE \/ Start \/ Close \/ Crash \/ Intrude \/ Inspect \/ EndRecovery
             \/ UNCHANGED vars
             \/ \E j \in Workers : LoadUndo(j) \/ GiveUpUndo(j)
    BY <1>3, StutterStep DEF Start, Close, Crash, Intrude, Inspect, EndRecovery, LoadUndo,
                             GiveUpUndo, vars, database
  <1> QED BY <1>1, <1>2, <1>3 DEF Next

(* Where a repeated callback finds its own relocation, the lists of the    *)
(* program see every publication and every undo as one atomic operation,   *)
(* whatever crashes, power losses, failures and recoveries it went         *)
(* through.                                                                *)
THEOREM RefinesAtomicOperation ==
    ASSUME ReplayMayFail = FALSE
    PROVE  Spec => PublicationsAreAtomic
  <1>1. Init => Atomic!Init
    BY DEF Init, Atomic!Init, Verdict, Exists
  <1>2. Init => RelocatedForward
    BY DEF Init, RelocatedForward
  <1>3. LockInv /\ RelocatedForward /\ [Next]_vars => RelocatedForward'
    BY ExecuteKeepsForward, OthersKeepForward
  <1>4. LockInv /\ RelocatedForward /\ RelocatedForward' /\ [Next]_vars
        => [Atomic!Next]_<<[o \in Ops |-> Verdict(o)], [o \in Ops |-> Plan(o)], refs>>
    BY StepRefines DEF Shown, Plans
  <1> QED BY <1>1, <1>2, <1>3, <1>4, LockInductive, PTL
          DEF Spec, PublicationsAreAtomic, Atomic!Spec
===============================================================================
