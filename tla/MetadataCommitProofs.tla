------------------------- MODULE MetadataCommitProofs -------------------------
(***************************************************************************)
(* What holds of MetadataCommit for every number of saves, threads and     *)
(* foreign versions.  The inductive invariant says what a thread at each   *)
(* of its places has left in the directory, in every directory a power     *)
(* loss may still bring back; the locks of the two inodes keep threads     *)
(* from each other where they rename over the file.  From it follow, part  *)
(* by part, that the user's file is never lost, that the lists follow the  *)
(* file, and that a save is atomic (AtomicOperation), each under the       *)
(* hypotheses its theorem names.                                           *)
(***************************************************************************)
EXTENDS MetadataCommit, FiniteSetTheorems, TLAPS

OpenStates == {"planned", "prepared", "published"}
SavePCs == CommitPCs \cup CleanPCs
AllPCs == SavePCs \cup UndoPCs \cup JobPCs
ExpiryPCs == {"opened", "release", "released", "doubt"}

(* Where the startup job is once it reads backup rows. *)
BackupPhase == {"undos", "expire"} \cup ExpiryPCs \cup UndoPCs

(* Where a save stands that only its own thread can have brought there. *)
FirstPCs == {"created", "copied", "ready", "linked", "safe", "renamed", "synced"}

Directories == [Entries -> Versions \cup {Nothing}]
Thread == [pc : AllPCs, op : 0..MaxOps + 1, known : JournalStates \cup BackupStates,
           todo : Seq(Entries), ok : BOOLEAN, saw : Versions \cup {Nothing}]

DropLists(o) == {<<>>, <<Prepared(o)>>, <<Backup(o)>>,
                 <<Prepared(o), Backup(o)>>, <<Backup(o), Prepared(o)>>}

ThreadRight(j) ==
    LET t == job[j]
        o == job[j].op
    IN /\ t.pc \in SavePCs => o \in Ops /\ Exists(o) /\ t.known \in OpenStates
       /\ t.pc = "drop" => t.todo \in DropLists(o)
       /\ t.pc \in {"created", "copied"} => t.known = "planned"
       /\ t.pc \in FirstPCs \ {"created", "copied"} => t.known = "prepared"
       /\ t.pc \in UndoPCs => o \in Ops /\ backups[o] # "none"
       /\ t.pc \in ExpiryPCs => o \in Ops
       /\ j \in Workers => /\ t.pc \in {"idle"} \cup SavePCs \cup UndoPCs
                           /\ t.pc \in SavePCs => journal[o].state = t.known
                           /\ t.pc \in UndoPCs => job[Recovery].pc = "idle"
       /\ j = Recovery => t.pc \notin FirstPCs

(* A backup is kept of completed saves only, and what the startup job read *)
(* of a record or of a backup row is there.                                *)
RowsRight ==
    /\ \A o \in Ops : backups[o] # "none" => Exists(o) /\ journal[o].state = "complete"
    /\ job[Recovery].pc \in BackupPhase =>
          \A o \in Ops : loaded[o] # "none" => backups[o] # "none"
    /\ job[Recovery].pc \in {"scan"} \cup SavePCs =>
          \A o \in Ops : Unfinished(o) => Exists(o)

Stopped == ~up => \A j \in Workers : job[j].pc = "idle"

NoUndo ==
    ~Undoes => /\ \A o \in Ops : backups[o] # "undoing"
               /\ \A j \in Jobs : job[j].pc \notin UndoPCs
               /\ job[Recovery].pc = "undos" => \A o \in Ops : loaded[o] # "undoing"

VarsTyped ==
    /\ up \in BOOLEAN
    /\ dir \in Directories /\ possible \subseteq Directories /\ dir \in possible
    /\ journal \in [Ops -> Record \cup {Unused}]
    /\ backups \in [Ops -> BackupStates]
    /\ listed \in Versions \cup {Nothing}
    /\ refreshed \subseteq {SaveOf(o) : o \in Ops} \cup {UndoOf(o) : o \in Ops}
    /\ lapses \subseteq Ops
    /\ loaded \in [Ops -> JournalStates \cup BackupStates]
    /\ job \in [Jobs -> Thread]
    /\ faults \in 0..MaxFaults /\ crashes \in 0..MaxCrashes

(* A record is worked on by one thread at a time. *)
OneThread ==
    \A j, k \in Jobs :
        j # k /\ job[j].pc \in SavePCs /\ job[k].pc \in SavePCs => job[j].op # job[k].op

TypeInv ==
    VarsTyped /\ RowsRight /\ Stopped /\ NoUndo /\ OneThread /\ \A j \in Jobs : ThreadRight(j)

-------------------------------------------------------------------------------
(* The entries of the directory. *)

LEMMA EntryFacts ==
    /\ Source \in Entries
    /\ \A o \in Ops : /\ Prepared(o) \in Entries /\ Backup(o) \in Entries
                      /\ Source # Prepared(o) /\ Source # Backup(o)
    /\ \A o, q \in Ops : /\ Prepared(o) # Backup(q)
                         /\ Prepared(o) = Prepared(q) => o = q
                         /\ Backup(o) = Backup(q) => o = q
  BY DEF Entries, Source, Prepared, Backup

LEMMA EntriesFinite == IsFiniteSet(Entries)
  <1>1. /\ [o \in Ops |-> Prepared(o)] \in Surjection(Ops, {Prepared(o) : o \in Ops})
        /\ [o \in Ops |-> Backup(o)] \in Surjection(Ops, {Backup(o) : o \in Ops})
    BY DEF Surjection
  <1>2. IsFiniteSet({Prepared(o) : o \in Ops}) /\ IsFiniteSet({Backup(o) : o \in Ops})
    <2>1. IsFiniteSet(Ops)
      BY MetadataAssumption, FS_Interval DEF Ops
    <2> QED BY <1>1, <2>1, FS_Surjection
  <1>3. IsFiniteSet({Source})
    BY FS_Singleton
  <1> QED BY <1>2, <1>3, FS_Union DEF Entries

(* A version with one link has one name. *)
LEMMA OneName ==
    ASSUME NEW v, Links(v) = 1, NEW a \in Entries, dir[a] = v, NEW e \in Entries, dir[e] = v
    PROVE  e = a
  <1> DEFINE S == {x \in Entries : dir[x] = v}
  <1>1. IsFiniteSet(S)
    BY EntriesFinite, FS_Subset
  <1>2. Cardinality(S) = 1
    BY DEF Links
  <1>3. \E x : S = {x}
    BY <1>1, <1>2, FS_Singleton
  <1> QED BY <1>3

LEMMA OpsAreVersions ==
    /\ Ops \subseteq Versions /\ 0 \notin Ops /\ Nothing \notin Versions
    /\ Foreign \subseteq Versions /\ Foreign \cap Ops = {}
    /\ \A o \in Ops : o # Nothing
  BY MetadataAssumption DEF Versions, Ops

LEMMA JobFacts == Recovery \in Jobs /\ Workers \subseteq Jobs /\ Recovery \notin Workers
                  /\ \A j \in Jobs : j # Recovery => j \in Workers
  BY MetadataAssumption DEF Jobs

LEMMA PlaceFacts ==
    /\ SavePCs \cap UndoPCs = {} /\ SavePCs \cap JobPCs = {} /\ UndoPCs \cap JobPCs = {}
    /\ FirstPCs \subseteq SavePCs /\ ExpiryPCs \subseteq JobPCs
    /\ "idle" \notin SavePCs \cup UndoPCs /\ "idle" \in JobPCs
    /\ {"undos", "expire", "scan", "load"} \subseteq JobPCs
    /\ {"idle", "scan", "load"} \cap BackupPhase = {} /\ SavePCs \cap BackupPhase = {}
  BY DEF SavePCs, CommitPCs, CleanPCs, UndoPCs, JobPCs, FirstPCs, ExpiryPCs, BackupPhase

LEMMA ExistingRecord ==
    ASSUME VarsTyped, NEW o \in Ops, Exists(o)
    PROVE  /\ journal[o] \in Record /\ Expected(o) \in Versions /\ Expected(o) # Nothing
           /\ journal[o].state \in JournalStates
  BY OpsAreVersions DEF VarsTyped, Exists, Record, Expected

LEMMA RecordIsUsed == ASSUME NEW r \in Record PROVE r # Unused
  BY DEF Record, Unused, JournalStates

(* Threads at their places. *)
LEMMA ThreadValues ==
    /\ Idle \in Thread /\ Idle.pc = "idle"
    /\ \A pc \in AllPCs, o \in 0..MaxOps + 1, known \in JournalStates \cup BackupStates :
          At(pc, o, known) \in Thread /\ At(pc, o, known).pc = pc
            /\ At(pc, o, known).op = o /\ At(pc, o, known).known = known
            /\ At(pc, o, known).ok = TRUE
    /\ \A pc \in AllPCs, o \in 0..MaxOps + 1 :
          Scan(pc, o) \in Thread /\ Scan(pc, o).pc = pc /\ Scan(pc, o).op = o
    /\ \A o \in 0..MaxOps + 1, known \in JournalStates \cup BackupStates, todo \in Seq(Entries) :
          DropAt(o, known, todo) \in Thread /\ DropAt(o, known, todo).pc = "drop"
            /\ DropAt(o, known, todo).op = o /\ DropAt(o, known, todo).known = known
            /\ DropAt(o, known, todo).todo = todo /\ DropAt(o, known, todo).ok = TRUE
  <1>1. "none" \in BackupStates /\ "idle" \in AllPCs /\ "drop" \in AllPCs
    BY DEF BackupStates, AllPCs, SavePCs, CleanPCs, JobPCs
  <1>2. 0 \in 0..MaxOps + 1 /\ Nothing \in Versions \cup {Nothing} /\ <<>> \in Seq(Entries)
    BY MetadataAssumption
  <1> QED BY ZenonT(60), <1>1, <1>2 DEF Idle, At, Scan, DropAt, Thread

-------------------------------------------------------------------------------
(* What a step of a save does, one variable at a time. *)

LEMMA SaveIsEngaged == ASSUME NEW j, Save(j) PROVE job[j].pc \in SavePCs
  BY DEF Save, Prepare, RecordPrepared, LinkBackup, ConfirmBackup, PublishCopy, SyncSource,
         RecordPublished, Reread, CommitDependents, CheckAgain, Complete, Drop, Dropped, RollBack, Unpark,
         RemoveFailed, SyncRollBack, Fail, SavePCs, CommitPCs, CleanPCs

(* The operation of a thread at work. *)
LEMMA EngagedRecord ==
    ASSUME TypeInv, NEW j \in Jobs, job[j].pc \in SavePCs
    PROVE  LET o == job[j].op
           IN /\ o \in Ops /\ o \in 0..MaxOps + 1 /\ o \in Versions /\ o # Nothing
              /\ Exists(o) /\ journal[o] \in Record
              /\ Expected(o) \in Versions /\ Expected(o) # Nothing
              /\ Prepared(o) \in Entries /\ Backup(o) \in Entries
              /\ job[j] \in Thread /\ job[j].known \in OpenStates
              /\ DropLists(o) \subseteq Seq(Entries)
  <1> DEFINE o == job[j].op
  <1>1. o \in Ops /\ Exists(o) /\ job[j].known \in OpenStates /\ VarsTyped
    BY DEF TypeInv, ThreadRight
  <1>2. o \in Versions /\ o # Nothing /\ Prepared(o) \in Entries /\ Backup(o) \in Entries
    BY <1>1, OpsAreVersions, EntryFacts
  <1>3. DropLists(o) \subseteq Seq(Entries)
    BY <1>2 DEF DropLists
  <1>4. job[j] \in Thread /\ o \in 0..MaxOps + 1
    BY <1>1, MetadataAssumption DEF VarsTyped, Ops
  <1> QED BY <1>1, <1>2, <1>3, <1>4, ExistingRecord

LEMMA TailFacts == /\ \A a : Tail(<<a>>) = <<>> /\ Head(<<a>>) = a
                   /\ \A a, b : Tail(<<a, b>>) = <<b>> /\ Head(<<a, b>>) = a
  OBVIOUS

(* The thread after a step: at another place of its save, or done. *)
LEMMA SaveMoves ==
    ASSUME TypeInv, NEW j \in Jobs, Save(j)
    PROVE  LET o == job[j].op
           IN /\ job' \in [Jobs -> Thread]
              /\ \A k \in Jobs \ {j} : job'[k] = job[k]
              /\ job'[j].pc \in SavePCs => job'[j].op = o
              /\ job'[j].pc \notin SavePCs =>
                    \/ job'[j] = Idle
                    \/ j = Recovery /\ job'[j] = Scan("scan", o)
              /\ job'[j].pc = "drop" => job'[j].todo \in DropLists(o)
              /\ job'[j].pc \in FirstPCs => job[j].pc \in FirstPCs
  <1> DEFINE o == job[j].op
  <1>1. /\ job \in [Jobs -> Thread] /\ job[j].pc \in SavePCs /\ o \in 0..MaxOps + 1
        /\ job[j] \in Thread /\ DropLists(o) \subseteq Seq(Entries)
    BY SaveIsEngaged, EngagedRecord DEF TypeInv, VarsTyped
  <1> DEFINE Fine(t) == /\ t \in Thread
                        /\ t.pc \in SavePCs => t.op = o
                        /\ t.pc \notin SavePCs => t = Idle \/ (j = Recovery /\ t = Scan("scan", o))
                        /\ t.pc = "drop" => t.todo \in DropLists(o)
                        /\ t.pc \in FirstPCs => job[j].pc \in FirstPCs
  <1>2. ASSUME NEW pc \in SavePCs \ {"drop"}, pc \in FirstPCs => job[j].pc \in FirstPCs
        PROVE  Fine([job[j] EXCEPT !.pc = pc])
    BY <1>1, <1>2 DEF Thread, AllPCs
  <1>3. ASSUME NEW pc \in SavePCs \ {"drop"}, NEW known \in OpenStates,
               pc \in FirstPCs => job[j].pc \in FirstPCs
        PROVE  Fine(At(pc, o, known))
    <2>1. pc \in AllPCs /\ known \in JournalStates \cup BackupStates
      BY DEF AllPCs, OpenStates, JournalStates
    <2>2. At(pc, o, known) \in Thread /\ At(pc, o, known).pc = pc /\ At(pc, o, known).op = o
      BY <1>1, <2>1, ThreadValues
    <2> QED BY <1>3, <2>2
  <1>4. ASSUME NEW known \in OpenStates, NEW todo \in DropLists(o)
        PROVE  Fine(DropAt(o, known, todo))
    <2>1. todo \in Seq(Entries) /\ known \in JournalStates \cup BackupStates
      BY <1>1 DEF OpenStates, JournalStates
    <2>2. /\ DropAt(o, known, todo) \in Thread /\ DropAt(o, known, todo).pc = "drop"
          /\ DropAt(o, known, todo).op = o /\ DropAt(o, known, todo).todo = todo
      BY <1>1, <2>1, ThreadValues
    <2>3. "drop" \in SavePCs /\ "drop" \notin FirstPCs
      BY DEF SavePCs, CleanPCs, FirstPCs
    <2> QED BY <2>2, <2>3
  <1>5. ASSUME job[j].pc = "drop", job[j].todo # <<>>, NEW ok \in BOOLEAN
        PROVE  /\ Fine([job[j] EXCEPT !.todo = Tail(job[j].todo)])
               /\ Fine([[job[j] EXCEPT !.todo = Tail(job[j].todo)] EXCEPT !.ok = FALSE])
    <2>1. job[j].todo \in DropLists(o)
      BY <1>5 DEF TypeInv, ThreadRight
    <2>2. Tail(job[j].todo) \in DropLists(o)
      BY <1>5, <2>1, TailFacts DEF DropLists
    <2>3. Tail(job[j].todo) \in Seq(Entries)
      BY <1>1, <2>2
    <2> QED BY <1>1, <1>5, <2>2, <2>3 DEF Thread
  <1>6. Fine(Idle) /\ (j = Recovery => Fine(Scan("scan", o)))
    <2>1. Idle \in Thread /\ Idle.pc = "idle" /\ "idle" \notin SavePCs
      BY ThreadValues, PlaceFacts
    <2>2. Scan("scan", o) \in Thread /\ Scan("scan", o).pc = "scan" /\ "scan" \notin SavePCs
      BY <1>1, ThreadValues, PlaceFacts DEF AllPCs
    <2> QED BY <2>1, <2>2, PlaceFacts DEF SavePCs, CleanPCs, FirstPCs
  <1>7. \/ \E pc \in SavePCs \ {"drop"} :
              (pc \in FirstPCs => job[j].pc \in FirstPCs) /\ Goto(j, pc)
        \/ \E pc \in SavePCs \ {"drop"}, known \in OpenStates :
              (pc \in FirstPCs => job[j].pc \in FirstPCs) /\ Becomes(j, At(pc, o, known))
        \/ \E known \in OpenStates, todo \in DropLists(o) : Becomes(j, DropAt(o, known, todo))
        \/ /\ job[j].pc = "drop" /\ job[j].todo # <<>>
           /\ \/ Becomes(j, [job[j] EXCEPT !.todo = Tail(job[j].todo)])
              \/ Becomes(j, [[job[j] EXCEPT !.todo = Tail(job[j].todo)] EXCEPT !.ok = FALSE])
        \/ Becomes(j, Idle)
        \/ j = Recovery /\ Becomes(j, Scan("scan", o))
    <2> USE DEF SavePCs, CommitPCs, CleanPCs, FirstPCs, OpenStates, DropLists
    <2>1. CASE Prepare(j)
      BY <2>1 DEF Prepare
    <2>2. CASE RecordPrepared(j)
      BY <2>2 DEF RecordPrepared
    <2>3. CASE LinkBackup(j)
      BY <2>3 DEF LinkBackup
    <2>4. CASE ConfirmBackup(j)
      BY <2>4 DEF ConfirmBackup
    <2>5. CASE PublishCopy(j)
      BY <2>5 DEF PublishCopy
    <2>6. CASE SyncSource(j)
      BY <2>6 DEF SyncSource
    <2>7. CASE RecordPublished(j)
      BY <2>7 DEF RecordPublished
    <2>8. CASE Reread(j) \/ CommitDependents(j)
      BY <2>8 DEF Reread, CommitDependents
    <2>9. CASE CheckAgain(j)
      BY <2>9 DEF CheckAgain
    <2>10. CASE Complete(j)
      BY <2>10 DEF Complete, Done, Return
    <2>11. CASE Drop(j)
      BY <2>11 DEF Drop
    <2>12. CASE Dropped(j)
      BY <2>12 DEF Dropped
    <2>13. CASE RollBack(j)
      BY <2>13 DEF RollBack
    <2>14. CASE Unpark(j)
      BY <2>14 DEF Unpark
    <2>15. CASE RemoveFailed(j)
      BY <2>15 DEF RemoveFailed
    <2>16. CASE SyncRollBack(j)
      BY <2>16 DEF SyncRollBack
    <2>17. CASE Fail(j)
      BY <2>17 DEF Fail, Done, Return
    <2> QED BY <2>1, <2>2, <2>3, <2>4, <2>5, <2>6, <2>7, <2>8, <2>9, <2>10, <2>11, <2>12,
               <2>13, <2>14, <2>15, <2>16, <2>17 DEF Save
  <1>8. PICK t : Becomes(j, t) /\ Fine(t)
    <2> HIDE DEF Fine
    <2> QED BY <1>2, <1>3, <1>4, <1>5, <1>6, <1>7 DEF Goto
  <1>9. job' = [job EXCEPT ![j] = t] /\ t \in Thread
    BY <1>8 DEF Becomes
  <1>10. job' \in [Jobs -> Thread] /\ job'[j] = t /\ \A k \in Jobs \ {j} : job'[k] = job[k]
    BY <1>1, <1>9
  <1> QED BY <1>8, <1>10

(* What it writes: its own record, from the state it knows. *)
LEMMA SaveWrites ==
    ASSUME TypeInv, NEW j \in Jobs, Save(j)
    PROVE  LET o == job[j].op
           IN \/ /\ UNCHANGED evidence
                 /\ job'[j].pc \in SavePCs => job'[j].known = job[j].known
              \/ \E to \in JournalStates :
                    /\ Write(o, job[j].known, to)
                    /\ job'[j].pc \in SavePCs => job'[j].known = to /\ to \in OpenStates
                    /\ to = "rolled_back" => job[j].pc = "abort"
  <1> DEFINE o == job[j].op
  <1>1. /\ job \in [Jobs -> Thread] /\ job[j] \in Thread
        /\ job[j].pc = "copied" => job[j].known = "planned"
        /\ job[j].pc \in {"ready", "linked", "safe", "synced"} => job[j].known = "prepared"
    BY SaveIsEngaged, EngagedRecord DEF TypeInv, VarsTyped, ThreadRight, FirstPCs
  <1>2. \A t : Becomes(j, t) => job'[j] = t
    BY <1>1 DEF Becomes
  <1>3. \A pc : [job[j] EXCEPT !.pc = pc].known = job[j].known
    BY <1>1 DEF Thread
  <1>4. \A pc, known, todo : At(pc, o, known).known = known /\ DropAt(o, known, todo).known = known
    BY DEF At, DropAt, Idle
  <1>5. Idle.pc \notin SavePCs /\ Scan("scan", o).pc \notin SavePCs
    BY DEF Idle, Scan, At, SavePCs, CommitPCs, CleanPCs
  <1>6. \A pc : Goto(j, pc) => job'[j].known = job[j].known
    BY <1>2, <1>3 DEF Goto
  <1>7. Done(j) \/ Return(j) => job'[j].pc \notin SavePCs
    BY <1>2, <1>5 DEF Done, Return
  <1>8. {"prepared", "published"} \subseteq OpenStates
    BY DEF OpenStates
  <1> USE DEF WriteFails, JournalStates
  <1>9. CASE Prepare(j) \/ SyncSource(j) \/ Reread(j) \/ CommitDependents(j) \/ CheckAgain(j) \/ Dropped(j)
             \/ RollBack(j) \/ Unpark(j) \/ RemoveFailed(j) \/ SyncRollBack(j)
    BY <1>6, <1>9 DEF Prepare, SyncSource, Reread, CommitDependents, CheckAgain, Dropped, RollBack, Unpark,
                 RemoveFailed, SyncRollBack
  <1>10. CASE RecordPrepared(j)
    BY <1>1, <1>2, <1>4, <1>8, <1>10 DEF RecordPrepared
  <1>11. CASE LinkBackup(j) \/ ConfirmBackup(j) \/ PublishCopy(j)
    BY <1>1, <1>2, <1>4, <1>6, <1>11 DEF LinkBackup, ConfirmBackup, PublishCopy
  <1>12. CASE RecordPublished(j)
    BY <1>1, <1>2, <1>4, <1>6, <1>8, <1>12 DEF RecordPublished
  <1>13. CASE Complete(j)
    BY <1>2, <1>4, <1>7, <1>8, <1>13 DEF Complete
  <1>14. CASE Drop(j)
    <2>1. [job[j] EXCEPT !.todo = Tail(job[j].todo)].known = job[j].known
      BY <1>1 DEF Thread
    <2>2. [[job[j] EXCEPT !.todo = Tail(job[j].todo)] EXCEPT !.ok = FALSE].known = job[j].known
      BY <1>1 DEF Thread
    <2> QED BY <1>2, <1>14, <2>1, <2>2 DEF Drop
  <1>15. CASE Fail(j)
    BY <1>7, <1>15 DEF Fail
  <1> QED BY <1>9, <1>10, <1>11, <1>12, <1>13, <1>14, <1>15 DEF Save

(* A step of the directory: d is what it becomes, and what was possible    *)
(* before may still be, unless the directory has been synced.              *)
BecomesDir(d) == dir' = d /\ possible' \subseteq possible \cup {d} /\ d \in possible'

(* What a step does to the directory, and where. *)
SaveDisk(j) ==
    LET o == job[j].op
        pc == job[j].pc
    IN \/ BecomesDir(dir)
       \/ pc = "created" /\ BecomesDir([dir EXCEPT ![Prepared(o)] = o])
       \/ /\ pc = "ready" /\ dir[Source] = Expected(o)
          /\ BecomesDir([dir EXCEPT ![Backup(o)] = Expected(o)])
       \/ pc = "safe" /\ BecomesDir([dir EXCEPT ![Source] = o, ![Prepared(o)] = Nothing])
       \/ /\ pc = "rollback" /\ Published(o) /\ SingleLinks(o)
          /\ \/ AtomicExchange /\ BecomesDir([dir EXCEPT ![Source] = Expected(o), ![Backup(o)] = o])
             \/ /\ ~AtomicExchange
                /\ BecomesDir([dir EXCEPT ![Source] = Nothing, ![Prepared(o)] = o])
       \/ /\ pc = "parked"
          /\ \/ BecomesDir([dir EXCEPT ![Source] = Expected(o), ![Backup(o)] = Nothing])
             \/ BecomesDir([dir EXCEPT ![Source] = o, ![Prepared(o)] = Nothing])
       \/ /\ pc \in {"exchanged", "unparked", "drop"}
          /\ \E e \in {Prepared(o), Backup(o)} : BecomesDir([dir EXCEPT ![e] = Nothing])

LEMMA SyncForms ==
    /\ \A d : Unsynced(d) \/ Synced(d) => BecomesDir(d)
    /\ VarsTyped /\ UNCHANGED disk => BecomesDir(dir)
    /\ VarsTyped /\ UNCHANGED dir /\ possible' = {dir} => BecomesDir(dir)
    /\ VarsTyped /\ UNCHANGED dir /\ UNCHANGED possible => BecomesDir(dir)
  BY DEF Unsynced, Synced, disk, VarsTyped, BecomesDir

LEMMA SaveRenames == ASSUME TypeInv, NEW j \in Jobs, Save(j) PROVE SaveDisk(j)
  <1> DEFINE o == job[j].op
  <1>1. VarsTyped
    BY DEF TypeInv
  <1>2. CASE Prepare(j)
    BY <1>1, <1>2, SyncForms DEF Prepare, SaveDisk
  <1>3. CASE LinkBackup(j)
    BY <1>1, <1>3, SyncForms DEF LinkBackup, SaveDisk
  <1>4. CASE ConfirmBackup(j) \/ SyncSource(j) \/ SyncRollBack(j)
    BY <1>1, <1>4, SyncForms DEF ConfirmBackup, SyncSource, SyncRollBack, SaveDisk
  <1>5. CASE PublishCopy(j)
    BY <1>1, <1>5, SyncForms DEF PublishCopy, SaveDisk
  <1>6. CASE RollBack(j)
    BY <1>1, <1>6, SyncForms DEF RollBack, SaveDisk
  <1>7. CASE Unpark(j)
    BY <1>1, <1>7, SyncForms DEF Unpark, SaveDisk
  <1>8. CASE RemoveFailed(j)
    BY <1>1, <1>8, SyncForms DEF RemoveFailed, SaveDisk
  <1>9. CASE Drop(j)
    <2>1. job[j].todo \in DropLists(o) /\ job[j].todo # <<>>
      BY <1>9 DEF Drop, TypeInv, ThreadRight
    <2>2. Head(job[j].todo) \in {Prepared(o), Backup(o)}
      BY <2>1, TailFacts DEF DropLists
    <2> QED BY <1>1, <1>9, <2>2, SyncForms DEF Drop, SaveDisk
  <1>10. CASE RecordPrepared(j) \/ RecordPublished(j) \/ Reread(j) \/ CommitDependents(j) \/ CheckAgain(j)
              \/ Complete(j) \/ Dropped(j) \/ Fail(j)
    BY <1>1, <1>10, SyncForms DEF RecordPrepared, RecordPublished, Reread, CommitDependents, CheckAgain,
         Complete, Dropped, Fail, SaveDisk
  <1> QED BY <1>2, <1>3, <1>4, <1>5, <1>6, <1>7, <1>8, <1>9, <1>10 DEF Save

(* Only the committer refreshes the lists; a lapse is of the save at hand. *)
LEMMA SaveLists ==
    ASSUME NEW j, Save(j)
    PROVE  /\ lapses' \in {lapses, lapses \cup {job[j].op}}
           /\ \/ UNCHANGED <<listed, refreshed>>
              \/ /\ job[j].pc = "reread"
                 /\ Refresh(SaveOf(job[j].op), job[j].op) /\ Goto(j, "listed")
                 /\ UNCHANGED <<disk, evidence>>
  BY DEF Save, Prepare, RecordPrepared, LinkBackup, ConfirmBackup, PublishCopy, SyncSource,
         RecordPublished, Reread, CommitDependents, CheckAgain, Complete, Drop, Dropped, RollBack, Unpark,
         RemoveFailed, SyncRollBack, Fail, GiveUp, Refresh, lists

LEMMA SaveRest ==
    ASSUME TypeInv, NEW j \in Jobs, Save(j)
    PROVE  UNCHANGED <<up, loaded, crashes>> /\ faults' \in 0..MaxFaults
  <1>1. UNCHANGED <<up, loaded, crashes>> /\ (Fault \/ Smooth)
    BY DEF Save, Prepare, RecordPrepared, LinkBackup, ConfirmBackup, PublishCopy, SyncSource,
         RecordPublished, Reread, CommitDependents, CheckAgain, Complete, Drop, Dropped, RollBack, Unpark,
         RemoveFailed, SyncRollBack, Fail, Write, WriteFails, budget, Smooth
  <1> QED BY <1>1, MetadataAssumption DEF TypeInv, VarsTyped, Fault, Smooth

LEMMA WriteEffect ==
    ASSUME VarsTyped, NEW o \in Ops, Exists(o), NEW from \in OpenStates, NEW to \in JournalStates,
           Write(o, from, to)
    PROVE  /\ journal[o].state = from
           /\ journal' \in [Ops -> Record \cup {Unused}] /\ journal'[o] \in Record
           /\ journal'[o].expected = journal[o].expected /\ journal'[o].state = to
           /\ \A q \in Ops \ {o} : journal'[q] = journal[q] /\ backups'[q] = backups[q]
           /\ backups' \in [Ops -> BackupStates]
           /\ backups'[o] = IF to = "complete" THEN "retained" ELSE backups[o]
           /\ UNCHANGED faults
  <1>1. journal[o] \in Record
    BY ExistingRecord
  <1>2. [journal[o] EXCEPT !.state = to] \in Record
    BY <1>1 DEF Record
  <1>3. [journal[o] EXCEPT !.state = to].state = to
        /\ [journal[o] EXCEPT !.state = to].expected = journal[o].expected
    BY <1>1 DEF Record
  <1>4. /\ journal' = [journal EXCEPT ![o] = [journal[o] EXCEPT !.state = to]]
        /\ journal[o].state = from /\ UNCHANGED faults
        /\ backups' = IF to = "complete" THEN [backups EXCEPT ![o] = "retained"] ELSE backups
    BY DEF Write, Accepts, Smooth
  <1>5. "retained" \in BackupStates
    BY DEF BackupStates
  <1> QED BY <1>2, <1>3, <1>4, <1>5 DEF VarsTyped

(* Records go on, with what they expected; backup rows stay. *)
Onward ==
    /\ journal' \in [Ops -> Record \cup {Unused}] /\ backups' \in [Ops -> BackupStates]
    /\ \A o \in Ops : Exists(o) => /\ Exists(o)' /\ Expected(o)' = Expected(o)
                                   /\ backups[o] # "none" => backups'[o] # "none"

LEMMA SaveEvidence ==
    ASSUME TypeInv, NEW j \in Jobs, Save(j)
    PROVE  LET o == job[j].op
           IN /\ Onward
              /\ \A q \in Ops : Exists(q)' <=> Exists(q)
              /\ \A q \in Ops \ {o} : journal'[q] = journal[q] /\ backups'[q] = backups[q]
              /\ \/ /\ journal'[o] = journal[o] /\ backups'[o] = backups[o]
                    /\ job'[j].pc \in SavePCs => job'[j].known = job[j].known
                 \/ /\ journal[o].state = job[j].known
                    /\ job'[j].pc \in SavePCs => /\ job'[j].known = journal'[o].state
                                                 /\ job'[j].known \in OpenStates
                    /\ journal'[o].state = "rolled_back" => job[j].pc = "abort"
                    /\ \/ journal'[o].state = "complete" /\ backups'[o] = "retained"
                       \/ journal'[o].state # "complete" /\ backups'[o] = backups[o]
  <1> DEFINE o == job[j].op
  <1>1. o \in Ops /\ Exists(o) /\ job[j].known \in OpenStates /\ VarsTyped
    BY SaveIsEngaged, EngagedRecord DEF TypeInv
  <1>2. CASE UNCHANGED evidence /\ (job'[j].pc \in SavePCs => job'[j].known = job[j].known)
    BY <1>1, <1>2 DEF evidence, Onward, Exists, Expected, VarsTyped
  <1>3. CASE \E to \in JournalStates :
                    /\ Write(o, job[j].known, to)
                    /\ job'[j].pc \in SavePCs => job'[j].known = to /\ to \in OpenStates
                    /\ to = "rolled_back" => job[j].pc = "abort"
    <2>1. PICK to \in JournalStates :
                    /\ Write(o, job[j].known, to)
                    /\ job'[j].pc \in SavePCs => job'[j].known = to /\ to \in OpenStates
                    /\ to = "rolled_back" => job[j].pc = "abort"
      BY <1>3
    <2>2. /\ journal[o].state = job[j].known
          /\ journal' \in [Ops -> Record \cup {Unused}] /\ journal'[o] \in Record
          /\ journal'[o].expected = journal[o].expected /\ journal'[o].state = to
          /\ \A q \in Ops \ {o} : journal'[q] = journal[q] /\ backups'[q] = backups[q]
          /\ backups' \in [Ops -> BackupStates]
          /\ backups'[o] = IF to = "complete" THEN "retained" ELSE backups[o]
      BY <1>1, <2>1, WriteEffect
    <2>3. journal'[o] # Unused
      BY <2>2, RecordIsUsed
    <2> QED BY <1>1, <2>1, <2>2, <2>3 DEF Onward, Exists, Expected
  <1> QED BY <1>2, <1>3, SaveWrites

LEMMA BecomesTyped ==
    ASSUME VarsTyped, NEW d \in Directories, BecomesDir(d)
    PROVE  dir' \in Directories /\ possible' \subseteq Directories /\ dir' \in possible'
  BY DEF VarsTyped, BecomesDir

LEMMA SaveKeepsDirectory ==
    ASSUME TypeInv, NEW j \in Jobs, Save(j)
    PROVE  dir' \in Directories /\ possible' \subseteq Directories /\ dir' \in possible'
  <1> DEFINE o == job[j].op
  <1>1. /\ VarsTyped /\ dir \in Directories
        /\ o \in Versions /\ Expected(o) \in Versions
    BY SaveIsEngaged, EngagedRecord DEF TypeInv, VarsTyped
  <1>2. \A a, b : \A v, w \in Versions \cup {Nothing} :
           [dir EXCEPT ![a] = v] \in Directories /\ [dir EXCEPT ![a] = v, ![b] = w] \in Directories
    BY <1>1 DEF Directories
  <1>3. \E d \in Directories : BecomesDir(d)
    BY <1>1, <1>2, SaveRenames DEF SaveDisk
  <1> QED BY <1>1, <1>3, BecomesTyped

(* How far a thread that has begun a save knows its record to be. *)
LEMMA SaveFirst ==
    ASSUME TypeInv, NEW j \in Jobs, Save(j)
    PROVE  /\ job'[j].pc \in {"created", "copied"} => job'[j].known = "planned"
           /\ job'[j].pc \in FirstPCs \ {"created", "copied"} => job'[j].known = "prepared"
  <1> DEFINE o == job[j].op
             K(t) == /\ t.pc \in {"created", "copied"} => t.known = "planned"
                     /\ t.pc \in FirstPCs \ {"created", "copied"} => t.known = "prepared"
  <1>1. job \in [Jobs -> Thread] /\ job[j] \in Thread /\ K(job[j])
    BY DEF TypeInv, VarsTyped, ThreadRight
  <1>2. \A t : Becomes(j, t) => job'[j] = t
    BY <1>1 DEF Becomes
  <1>3. \A pc : Goto(j, pc) => job'[j].pc = pc /\ job'[j].known = job[j].known
    BY <1>1, <1>2 DEF Goto, Thread
  <1>4. \A pc, known, todo :
          /\ At(pc, o, known).known = known /\ At(pc, o, known).pc = pc
          /\ DropAt(o, known, todo).pc = "drop" /\ Scan(pc, o).pc = pc /\ Idle.pc = "idle"
    BY DEF At, DropAt, Scan, Idle
  <1>5. CASE Prepare(j) \/ LinkBackup(j) \/ ConfirmBackup(j) \/ PublishCopy(j) \/ SyncSource(j)
    BY <1>1, <1>2, <1>3, <1>4, <1>5
       DEF Prepare, LinkBackup, ConfirmBackup, PublishCopy, SyncSource, FirstPCs
  <1>6. CASE RecordPrepared(j) \/ RecordPublished(j) \/ Reread(j) \/ CommitDependents(j) \/ CheckAgain(j)
    BY <1>2, <1>3, <1>4, <1>6
       DEF RecordPrepared, RecordPublished, Reread, CommitDependents, CheckAgain, FirstPCs
  <1>7. CASE Complete(j) \/ Dropped(j) \/ RollBack(j) \/ Unpark(j) \/ RemoveFailed(j)
             \/ SyncRollBack(j) \/ Fail(j)
    BY <1>2, <1>3, <1>4, <1>7
       DEF Complete, Dropped, RollBack, Unpark, RemoveFailed, SyncRollBack, Fail, Done, Return, FirstPCs
  <1>8. CASE Drop(j)
    <2>1. [job[j] EXCEPT !.todo = Tail(job[j].todo)].pc = job[j].pc
      BY <1>1 DEF Thread
    <2>2. [[job[j] EXCEPT !.todo = Tail(job[j].todo)] EXCEPT !.ok = FALSE].pc = job[j].pc
      BY <1>1 DEF Thread
    <2> QED BY <1>2, <1>8, <2>1, <2>2 DEF Drop, FirstPCs
  <1> QED BY <1>5, <1>6, <1>7, <1>8 DEF Save

LEMMA SaveKeepsType == ASSUME TypeInv, NEW j \in Jobs, Save(j) PROVE TypeInv'
  <1> SUFFICES ASSUME NEW o, o = job[j].op PROVE TypeInv'
    OBVIOUS
  <1>1. VarsTyped /\ RowsRight /\ Stopped /\ NoUndo /\ OneThread /\ \A k \in Jobs : ThreadRight(k)
    BY DEF TypeInv
  <1>2. /\ o \in Ops /\ o \in Versions /\ Exists(o) /\ job[j].known \in OpenStates
        /\ job[j].pc \in SavePCs /\ journal[o].state \in JournalStates
    BY <1>1, SaveIsEngaged, EngagedRecord, ExistingRecord
  <1>3. /\ job' \in [Jobs -> Thread]
        /\ \A k \in Jobs \ {j} : job'[k] = job[k]
        /\ job'[j].pc \in SavePCs => job'[j].op = o
        /\ job'[j].pc \notin SavePCs =>
              \/ job'[j] = Idle
              \/ j = Recovery /\ job'[j] = Scan("scan", o)
        /\ job'[j].pc = "drop" => job'[j].todo \in DropLists(o)
        /\ job'[j].pc \in FirstPCs => job[j].pc \in FirstPCs
    BY SaveMoves
  <1>4. /\ Onward
        /\ \A q \in Ops : Exists(q)' <=> Exists(q)
        /\ \A q \in Ops \ {o} : journal'[q] = journal[q] /\ backups'[q] = backups[q]
        /\ \/ /\ journal'[o] = journal[o] /\ backups'[o] = backups[o]
              /\ job'[j].pc \in SavePCs => job'[j].known = job[j].known
           \/ /\ journal[o].state = job[j].known
              /\ job'[j].pc \in SavePCs => /\ job'[j].known = journal'[o].state
                                           /\ job'[j].known \in OpenStates
              /\ journal'[o].state = "rolled_back" => job[j].pc = "abort"
              /\ \/ journal'[o].state = "complete" /\ backups'[o] = "retained"
                 \/ journal'[o].state # "complete" /\ backups'[o] = backups[o]
    BY SaveEvidence
  <1>5. UNCHANGED <<up, loaded, crashes>> /\ faults' \in 0..MaxFaults
    BY SaveRest
  <1>6. job'[j].pc \notin UndoPCs \cup ExpiryPCs \cup {"undos"}
        /\ job'[j].pc \in SavePCs \cup {"idle", "scan"}
        /\ (j \in Workers => job'[j].pc \in SavePCs \cup {"idle"})
    <2>1. Idle.pc = "idle" /\ Scan("scan", o).pc = "scan"
      BY DEF Idle, Scan, At
    <2> QED BY <1>3, <2>1, PlaceFacts, JobFacts DEF ExpiryPCs, SavePCs, CommitPCs, CleanPCs, UndoPCs
  <1>7. VarsTyped'
    <2>1. listed' \in Versions \cup {Nothing} /\ lapses' \subseteq Ops
          /\ refreshed' \subseteq {SaveOf(q) : q \in Ops} \cup {UndoOf(q) : q \in Ops}
      BY <1>1, <1>2, SaveLists DEF VarsTyped, lists, Refresh
    <2> QED BY <1>1, <1>3, <1>4, <1>5, <2>1, SaveKeepsDirectory DEF VarsTyped, Onward
  <1>8. RowsRight'
    <2>1. \A q \in Ops : backups'[q] # "none" => Exists(q)' /\ journal'[q].state = "complete"
      <3>1. job[j].known # "complete" /\ "retained" # "none"
        BY <1>2 DEF OpenStates
      <3> QED BY <1>1, <1>2, <1>4, <3>1 DEF RowsRight, Exists
    <2>2. job'[Recovery].pc \in BackupPhase => job'[Recovery] = job[Recovery]
      BY <1>3, <1>6, JobFacts, PlaceFacts
    <2>3. job'[Recovery].pc \in {"scan"} \cup SavePCs => job[Recovery].pc \in {"scan"} \cup SavePCs
      BY <1>2, <1>3, JobFacts
    <2>4. job'[Recovery].pc \in BackupPhase =>
             \A q \in Ops : loaded'[q] # "none" => backups'[q] # "none"
      BY <1>1, <1>4, <1>5, <2>2 DEF RowsRight, Onward
    <2>5. job'[Recovery].pc \in {"scan"} \cup SavePCs => \A q \in Ops : Unfinished(q)' => Exists(q)'
      BY <1>1, <1>4, <1>5, <2>3 DEF RowsRight, Unfinished
    <2> QED BY <2>1, <2>4, <2>5 DEF RowsRight
  <1>9. Stopped'
    BY <1>1, <1>2, <1>3, <1>5, PlaceFacts, JobFacts DEF Stopped
  <1>10. NoUndo'
    <2>1. \A q \in Ops : backups'[q] = "undoing" => backups[q] = "undoing"
      BY <1>2, <1>4
    <2>2. \A k \in Jobs : job'[k].pc \in UndoPCs => job[k].pc \in UndoPCs
      BY <1>3, <1>6
    <2>3. job'[Recovery].pc = "undos" => job[Recovery].pc = "undos"
      BY <1>3, <1>6, JobFacts
    <2> QED BY <1>1, <1>5, <2>1, <2>2, <2>3 DEF NoUndo
  <1>11. ASSUME NEW k \in Jobs PROVE ThreadRight(k)'
    <2>1. CASE k = j
      <3>1. j \in Workers /\ job'[j].pc \in SavePCs => journal'[o].state = job'[j].known
        BY <1>1, <1>2, <1>4, <2>1 DEF ThreadRight
      <3>2. job'[j].pc \in SavePCs => o \in Ops /\ Exists(o)' /\ job'[j].known \in OpenStates
        BY <1>2, <1>4
      <3>3. /\ job'[j].pc \in {"created", "copied"} => job'[j].known = "planned"
            /\ job'[j].pc \in FirstPCs \ {"created", "copied"} => job'[j].known = "prepared"
        BY SaveFirst
      <3>4. j = Recovery => job'[j].pc \notin FirstPCs
        BY <1>1, <1>3 DEF ThreadRight
      <3>5. job'[j].op # o => job'[j].pc \notin SavePCs
        BY <1>3
      <3> QED BY <1>3, <1>6, <2>1, <3>1, <3>2, <3>3, <3>4, <3>5, PlaceFacts
           DEF ThreadRight, DropLists, Prepared, Backup
    <2>2. CASE k # j
      <3>1. job'[k] = job[k] /\ ThreadRight(k)
        BY <1>1, <1>3, <2>2
      <3>2. job[k].pc \in SavePCs => job[k].op # o
        BY <1>1, <1>2, <2>2 DEF OneThread
      <3>3. k \in Workers /\ job[k].pc \in UndoPCs => job'[Recovery].pc = "idle"
        BY <1>2, <1>3, <3>1, JobFacts, PlaceFacts DEF ThreadRight
      <3> SUFFICES ASSUME NEW q, q = job[k].op PROVE ThreadRight(k)'
        OBVIOUS
      <3>4. /\ job[k].pc \in SavePCs => Exists(q)' /\ journal'[q] = journal[q]
            /\ job[k].pc \in UndoPCs => backups'[q] # "none"
        BY <1>1, <1>4, <3>1, <3>2 DEF ThreadRight, Onward, RowsRight
      <3> QED BY <3>1, <3>3, <3>4 DEF ThreadRight, DropLists, Prepared, Backup
    <2> QED BY <2>1, <2>2
  <1>12. OneThread'
    BY <1>1, <1>2, <1>3 DEF OneThread
  <1> QED BY <1>7, <1>8, <1>9, <1>10, <1>11, <1>12 DEF TypeInv

-------------------------------------------------------------------------------
(* What a step of an undo does. *)

LEMMA UndoIsPlaced == ASSUME NEW j, Undo(j) PROVE job[j].pc \in UndoPCs
  BY DEF Undo, CancelUndo, Exchange, RereadOriginal, Relist, TakeBack, RemoveReplaced, SettleUndo, UndoPCs

LEMMA UndoRecord ==
    ASSUME TypeInv, NEW j \in Jobs, job[j].pc \in UndoPCs
    PROVE  LET o == job[j].op
           IN /\ o \in Ops /\ o \in 0..MaxOps + 1 /\ o \in Versions /\ o # Nothing
              /\ Exists(o) /\ backups[o] # "none" /\ journal[o].state = "complete"
              /\ Expected(o) \in Versions /\ Expected(o) # Nothing
              /\ job[j] \in Thread /\ Undoes
  <1> DEFINE o == job[j].op
  <1>1. VarsTyped /\ o \in Ops /\ backups[o] # "none"
    BY DEF TypeInv, ThreadRight
  <1>2. Exists(o) /\ journal[o].state = "complete" /\ Undoes
    BY <1>1 DEF TypeInv, RowsRight, NoUndo
  <1>3. job[j] \in Thread /\ o \in 0..MaxOps + 1
    BY <1>1, MetadataAssumption DEF VarsTyped, Ops
  <1> QED BY <1>1, <1>2, <1>3, OpsAreVersions, ExistingRecord

LEMMA UndoMoves ==
    ASSUME TypeInv, NEW j \in Jobs, Undo(j)
    PROVE  LET o == job[j].op
           IN /\ job' \in [Jobs -> Thread]
              /\ \A k \in Jobs \ {j} : job'[k] = job[k]
              /\ \/ job'[j].pc \in UndoPCs /\ job'[j].op = o
                 \/ job'[j] = Idle
                 \/ j = Recovery /\ job'[j] = Scan("undos", o)
  <1> DEFINE o == job[j].op
  <1>1. job \in [Jobs -> Thread] /\ job[j] \in Thread /\ o \in 0..MaxOps + 1
    BY UndoIsPlaced, UndoRecord DEF TypeInv, VarsTyped
  <1>2. \/ \E pc \in UndoPCs : Goto(j, pc)
        \/ DoneUndo(j)
    BY DEF Undo, CancelUndo, Exchange, RereadOriginal, Relist, TakeBack, RemoveReplaced, SettleUndo, UndoPCs
  <1>3. Idle \in Thread /\ Scan("undos", o) \in Thread
    BY <1>1, ThreadValues, PlaceFacts DEF AllPCs
  <1>4. CASE \E pc \in UndoPCs : Goto(j, pc)
    <2>1. PICK pc \in UndoPCs : Goto(j, pc)
      BY <1>4
    <2>2. [job[j] EXCEPT !.pc = pc] \in Thread
      BY <1>1 DEF Thread, AllPCs
    <2>3. [job[j] EXCEPT !.pc = pc].pc = pc /\ [job[j] EXCEPT !.pc = pc].op = o
      BY <1>1 DEF Thread
    <2> QED BY <1>1, <2>1, <2>2, <2>3 DEF Goto, Becomes
  <1>5. CASE DoneUndo(j)
    BY <1>1, <1>3, <1>5 DEF DoneUndo, Becomes
  <1> QED BY <1>2, <1>4, <1>5

LEMMA UndoEvidence ==
    ASSUME TypeInv, NEW j \in Jobs, Undo(j)
    PROVE  LET o == job[j].op
           IN /\ UNCHANGED journal
              /\ \/ UNCHANGED backups
                 \/ /\ backups[o] = "undoing" /\ job'[j].pc \notin UndoPCs
                    /\ \E to \in {"undone", "retained", "needs_reconciliation"} :
                          backups' = [backups EXCEPT ![o] = to]
  <1> DEFINE o == job[j].op
  <1>1. job[j] \in Thread /\ job \in [Jobs -> Thread]
    BY UndoIsPlaced, UndoRecord DEF TypeInv, VarsTyped
  <1>2. CASE CancelUndo(j) \/ Exchange(j) \/ RereadOriginal(j) \/ Relist(j) \/ TakeBack(j)
             \/ RemoveReplaced(j)
    BY <1>2 DEF CancelUndo, Exchange, RereadOriginal, Relist, TakeBack, RemoveReplaced, evidence
  <1>3. CASE SettleUndo(j)
    <2>1. DoneUndo(j)
      BY <1>3 DEF SettleUndo
    <2>2. job'[j].pc \notin UndoPCs
      BY <1>1, <2>1 DEF DoneUndo, Becomes, Idle, Scan, At, UndoPCs
    <2> QED BY <1>3, <2>2 DEF SettleUndo, WriteBackup, WriteBackupFails, evidence
  <1> QED BY <1>2, <1>3 DEF Undo

LEMMA UndoRest ==
    ASSUME TypeInv, NEW j \in Jobs, Undo(j)
    PROVE  UNCHANGED <<up, loaded, crashes>> /\ faults' \in 0..MaxFaults
  <1>1. UNCHANGED <<up, loaded, crashes>> /\ (Fault \/ Smooth)
    BY DEF Undo, CancelUndo, Exchange, RereadOriginal, Relist, TakeBack, RemoveReplaced, SettleUndo,
           WriteBackup, WriteBackupFails
  <1> QED BY <1>1, MetadataAssumption DEF TypeInv, VarsTyped, Fault, Smooth

LEMMA UndoLists ==
    ASSUME NEW j, Undo(j)
    PROVE  LET o == job[j].op
           IN /\ lapses' \in {lapses, lapses \cup {o}}
              /\ \/ UNCHANGED <<listed, refreshed>>
                 \/ /\ job[j].pc = "original"
                    /\ Refresh(UndoOf(o), Expected(o)) /\ UNCHANGED <<disk, evidence>>
  BY DEF Undo, CancelUndo, Exchange, RereadOriginal, Relist, TakeBack, RemoveReplaced, SettleUndo,
         GiveUp, Refresh, lists

UndoDisk(j) ==
    LET o == job[j].op
        pc == job[j].pc
    IN \/ BecomesDir(dir)
       \/ /\ pc = "undoing" /\ Published(o) /\ SingleLinks(o) /\ AtomicExchange
          /\ BecomesDir([dir EXCEPT ![Source] = Expected(o), ![Backup(o)] = o])
       \/ /\ pc = "takeback" /\ AtomicExchange /\ dir[Source] # Nothing /\ dir[Backup(o)] # Nothing
          /\ BecomesDir([dir EXCEPT ![Source] = dir[Backup(o)], ![Backup(o)] = dir[Source]])
       \/ /\ pc = "relisted" /\ dir[Source] = Expected(o) /\ dir[Backup(o)] = o
          /\ BecomesDir([dir EXCEPT ![Backup(o)] = Nothing])

LEMMA UndoRenames == ASSUME TypeInv, NEW j \in Jobs, Undo(j) PROVE UndoDisk(j)
  <1>1. VarsTyped
    BY DEF TypeInv
  <1>2. CASE CancelUndo(j) \/ RereadOriginal(j) \/ Relist(j) \/ SettleUndo(j)
    BY <1>1, <1>2, SyncForms DEF CancelUndo, RereadOriginal, Relist, SettleUndo, UndoDisk
  <1>3. CASE Exchange(j)
    BY <1>1, <1>3, SyncForms DEF Exchange, UndoDisk
  <1>4. CASE TakeBack(j)
    BY <1>1, <1>4, SyncForms DEF TakeBack, UndoDisk
  <1>5. CASE RemoveReplaced(j)
    BY <1>1, <1>5, SyncForms DEF RemoveReplaced, UndoDisk
  <1> QED BY <1>2, <1>3, <1>4, <1>5 DEF Undo

LEMMA UndoKeepsDirectory ==
    ASSUME TypeInv, NEW j \in Jobs, Undo(j)
    PROVE  dir' \in Directories /\ possible' \subseteq Directories /\ dir' \in possible'
  <1> DEFINE o == job[j].op
  <1>1. /\ VarsTyped /\ dir \in Directories /\ Source \in Entries /\ Backup(o) \in Entries
        /\ o \in Versions /\ Expected(o) \in Versions
    BY UndoIsPlaced, UndoRecord, EntryFacts DEF TypeInv, VarsTyped
  <1>2. \A a, b : \A v, w \in Versions \cup {Nothing} :
           [dir EXCEPT ![a] = v] \in Directories /\ [dir EXCEPT ![a] = v, ![b] = w] \in Directories
    BY <1>1 DEF Directories
  <1>3. dir[Source] \in Versions \cup {Nothing} /\ dir[Backup(o)] \in Versions \cup {Nothing}
    BY <1>1 DEF Directories
  <1>4. \E d \in Directories : BecomesDir(d)
    BY <1>1, <1>2, <1>3, UndoRenames DEF UndoDisk
  <1> QED BY <1>1, <1>4, BecomesTyped

LEMMA UndoKeepsType == ASSUME TypeInv, NEW j \in Jobs, Undo(j) PROVE TypeInv'
  <1> SUFFICES ASSUME NEW o, o = job[j].op PROVE TypeInv'
    OBVIOUS
  <1>1. VarsTyped /\ RowsRight /\ Stopped /\ NoUndo /\ OneThread /\ \A k \in Jobs : ThreadRight(k)
    BY DEF TypeInv
  <1>2. /\ o \in Ops /\ Exists(o) /\ job[j].pc \in UndoPCs /\ Undoes /\ backups[o] # "none"
        /\ Expected(o) \in Versions
    BY UndoIsPlaced, UndoRecord
  <1>3. /\ job' \in [Jobs -> Thread]
        /\ \A k \in Jobs \ {j} : job'[k] = job[k]
        /\ \/ job'[j].pc \in UndoPCs /\ job'[j].op = o
           \/ job'[j] = Idle
           \/ j = Recovery /\ job'[j] = Scan("undos", o)
    BY UndoMoves
  <1>4. /\ journal' = journal
        /\ \/ backups' = backups
           \/ /\ backups[o] = "undoing"
              /\ \E to \in {"undone", "retained", "needs_reconciliation"} :
                    backups' = [backups EXCEPT ![o] = to]
    BY UndoEvidence
  <1>5. UNCHANGED <<up, loaded, crashes>> /\ faults' \in 0..MaxFaults
    BY UndoRest
  <1>6. /\ job'[j].pc \in UndoPCs \cup {"idle", "undos"}
        /\ j \in Workers => job'[j].pc \in UndoPCs \cup {"idle"}
        /\ job'[j].pc \notin SavePCs
    <2>1. Idle.pc = "idle" /\ Scan("undos", o).pc = "undos"
      BY DEF Idle, Scan, At
    <2> QED BY <1>3, <2>1, PlaceFacts, JobFacts
  <1>7. /\ \A q \in Ops : backups[q] # "none" <=> backups'[q] # "none"
        /\ backups' \in [Ops -> BackupStates]
        /\ \A q \in Ops : backups'[q] = "undoing" => backups[q] = "undoing"
    BY <1>1, <1>4 DEF VarsTyped, BackupStates
  <1>8. \A q \in Ops : (Exists(q)' <=> Exists(q)) /\ (Unfinished(q)' <=> Unfinished(q))
    BY <1>4, <1>5 DEF Exists, Unfinished
  <1>9. VarsTyped'
    <2>1. listed' \in Versions \cup {Nothing} /\ lapses' \subseteq Ops
          /\ refreshed' \subseteq {SaveOf(q) : q \in Ops} \cup {UndoOf(q) : q \in Ops}
      BY <1>1, <1>2, UndoLists DEF VarsTyped, lists, Refresh
    <2> QED BY <1>1, <1>3, <1>4, <1>5, <1>7, <2>1, UndoKeepsDirectory DEF VarsTyped
  <1>10. RowsRight'
    <2>1. job'[Recovery].pc \in BackupPhase => job[Recovery].pc \in BackupPhase
      BY <1>2, <1>3, JobFacts DEF BackupPhase
    <2>2. job'[Recovery].pc \in {"scan"} \cup SavePCs => job'[Recovery] = job[Recovery]
      BY <1>3, <1>6, JobFacts DEF UndoPCs
    <2> QED BY <1>1, <1>4, <1>5, <1>7, <1>8, <2>1, <2>2 DEF RowsRight
  <1>11. Stopped' /\ NoUndo'
    BY <1>1, <1>2, <1>3, <1>5, PlaceFacts, JobFacts DEF Stopped, NoUndo
  <1>12. ASSUME NEW k \in Jobs PROVE ThreadRight(k)'
    <2>1. CASE k = j
      <3>0. Idle.pc = "idle" /\ Scan("undos", o).pc = "undos" /\ UndoPCs \cap {"idle", "undos"} = {}
        BY DEF Idle, Scan, At, UndoPCs
      <3>1. job'[j].pc \in UndoPCs => o \in Ops /\ backups'[o] # "none" /\ job'[j].op = o
        BY <1>2, <1>3, <1>7, <3>0
      <3>2. j \in Workers /\ job'[j].pc \in UndoPCs => job'[Recovery].pc = "idle"
        BY <1>1, <1>2, <1>3, JobFacts DEF ThreadRight
      <3>3. job'[j].pc \notin ExpiryPCs \cup FirstPCs \cup {"drop", "created", "copied"}
        BY <1>6 DEF ExpiryPCs, FirstPCs, UndoPCs
      <3> QED BY <1>6, <2>1, <3>1, <3>2, <3>3 DEF ThreadRight
    <2>2. CASE k # j
      <3>1. job'[k] = job[k] /\ ThreadRight(k)
        BY <1>1, <1>3, <2>2
      <3>2. k \in Workers /\ job[k].pc \in UndoPCs => job'[Recovery].pc = "idle"
        BY <1>2, <1>3, <3>1, JobFacts, PlaceFacts DEF ThreadRight
      <3> QED BY <1>4, <1>7, <1>8, <3>1, <3>2 DEF ThreadRight, DropLists, Prepared, Backup
    <2> QED BY <2>1, <2>2
  <1>13. OneThread'
    BY <1>1, <1>3, <1>6 DEF OneThread
  <1> QED BY <1>9, <1>10, <1>11, <1>12, <1>13 DEF TypeInv

-------------------------------------------------------------------------------
(* What a step of the startup job does between two operations. *)

RecoverForm(t) ==
    LET pc == job[Recovery].pc
    IN \/ /\ pc = "load" /\ t.pc = "scan" /\ UNCHANGED <<disk, evidence>>
          /\ loaded' = [o \in Ops |-> IF Exists(o) THEN journal[o].state ELSE "none"]
       \/ /\ pc = "scan" /\ UNCHANGED <<disk, evidence, loaded>>
          /\ t.op \in Ops /\ Unfinished(t.op) /\ t.known = loaded[t.op]
          /\ ~LockedByOther(Recovery, Expected(t.op)) /\ ~LockedByOther(Recovery, dir[Source])
          /\ \/ /\ t.pc = "drop" /\ t.todo = <<Prepared(t.op), Backup(t.op)>> /\ t.ok
                /\ dir[Source] = Expected(t.op)
             \/ t.pc = "published" /\ Published(t.op)
             \/ t.pc = "stuck"
       \/ pc = "scan" /\ t.pc = "idle" /\ UNCHANGED <<disk, evidence, loaded>>
       \/ /\ pc = "scan" /\ t.pc = "undos" /\ loaded' = backups /\ UNCHANGED <<disk, evidence>>
       \/ /\ pc = "undos" /\ t.pc = "expire" /\ loaded' = backups /\ UNCHANGED <<disk, evidence>>
       \/ /\ pc = "undos" /\ t.pc = "undoing" /\ UNCHANGED <<disk, evidence, loaded>>
          /\ t.op \in Ops /\ loaded[t.op] = "undoing"
       \/ /\ pc \in {"expire"} \cup ExpiryPCs /\ UNCHANGED <<journal, loaded>>
          /\ t.pc \in {"expire", "idle"} \cup ExpiryPCs
          /\ t.pc \in ExpiryPCs => t.op \in Ops
          /\ \/ UNCHANGED disk
             \/ /\ job[Recovery].op \in Ops /\ backups[job[Recovery].op] = "retained"
                /\ dir[Backup(job[Recovery].op)] = Expected(job[Recovery].op)
                /\ Links(Expected(job[Recovery].op)) = 1
                /\ ~LockedByOther(Recovery, Expected(job[Recovery].op))
                /\ BecomesDir([dir EXCEPT ![Backup(job[Recovery].op)] = Nothing])
          /\ \/ UNCHANGED backups
             \/ /\ job[Recovery].op \in Ops /\ backups[job[Recovery].op] = "retained"
                /\ \E to \in {"released", "needs_reconciliation"} :
                      backups' = [backups EXCEPT ![job[Recovery].op] = to]

LEMMA OpRange == /\ \A o \in Ops : o \in 0..MaxOps + 1
                 /\ 0 \in 0..MaxOps + 1 /\ MaxOps + 1 \in 0..MaxOps + 1
  BY MetadataAssumption DEF Ops

LEMMA RecoverMoves ==
    ASSUME TypeInv, Recover
    PROVE  \E t \in Thread : job' = [job EXCEPT ![Recovery] = t] /\ RecoverForm(t)
  <1>1. /\ VarsTyped /\ job[Recovery] \in Thread
        /\ dir[Source] \in Versions \cup {Nothing}
        /\ \A o \in Ops : loaded[o] \in JournalStates \cup BackupStates
        /\ job[Recovery].pc \in ExpiryPCs => job[Recovery].op \in Ops
    BY JobFacts, EntryFacts DEF TypeInv, VarsTyped, Directories, ThreadRight
  <1>2. /\ "none" \in JournalStates \cup BackupStates
        /\ "idle" \in AllPCs /\ "load" \in AllPCs /\ "scan" \in AllPCs
        /\ "undos" \in AllPCs /\ "expire" \in AllPCs /\ ExpiryPCs \subseteq AllPCs
        /\ "published" \in AllPCs /\ "stuck" \in AllPCs /\ "undoing" \in AllPCs
        /\ "undoing" \in JournalStates \cup BackupStates
    BY DEF BackupStates, AllPCs, SavePCs, CleanPCs, CommitPCs, UndoPCs, JobPCs, ExpiryPCs
  <1>3. ASSUME NEW pc \in {"expire"} \cup ExpiryPCs
        PROVE  [job[Recovery] EXCEPT !.pc = pc] \in Thread
               /\ [job[Recovery] EXCEPT !.pc = pc].pc = pc
               /\ [job[Recovery] EXCEPT !.pc = pc].op = job[Recovery].op
    BY <1>1, <1>2 DEF Thread
  <1>4. CASE Load
    <2>1. Scan("scan", 0) \in Thread /\ Scan("scan", 0).pc = "scan"
      BY <1>2, OpRange, ThreadValues
    <2> QED BY <1>4, <2>1 DEF Load, Becomes, RecoverForm
  <1>5. CASE Inspect
    <2>1. PICK o \in Ops :
             /\ NextUnfinished(o)
             /\ ~LockedByOther(Recovery, Expected(o)) /\ ~LockedByOther(Recovery, dir[Source])
             /\ \/ Becomes(Recovery, Resume(o))
                \/ Becomes(Recovery, At("stuck", o, loaded[o]))
      BY <1>5 DEF Inspect
    <2>2. /\ DropAt(o, loaded[o], <<Prepared(o), Backup(o)>>) \in Thread
          /\ DropAt(o, loaded[o], <<Prepared(o), Backup(o)>>).pc = "drop"
          /\ DropAt(o, loaded[o], <<Prepared(o), Backup(o)>>).op = o
          /\ DropAt(o, loaded[o], <<Prepared(o), Backup(o)>>).known = loaded[o]
          /\ DropAt(o, loaded[o], <<Prepared(o), Backup(o)>>).ok
          /\ DropAt(o, loaded[o], <<Prepared(o), Backup(o)>>).todo = <<Prepared(o), Backup(o)>>
      <3>1. <<Prepared(o), Backup(o)>> \in Seq(Entries)
        BY EntryFacts
      <3>2. o \in 0..MaxOps + 1 /\ loaded[o] \in JournalStates \cup BackupStates
        BY <1>1, OpRange
      <3>3. \A todo \in Seq(Entries) :
               LET t == DropAt(o, loaded[o], todo)
               IN t \in Thread /\ t.pc = "drop" /\ t.op = o /\ t.known = loaded[o] /\ t.ok /\ t.todo = todo
        BY <3>2, ThreadValues
      <3> QED BY <3>1, <3>3
    <2>3. \A pc \in {"published", "stuck"} :
             /\ At(pc, o, loaded[o]) \in Thread /\ At(pc, o, loaded[o]).pc = pc
             /\ At(pc, o, loaded[o]).op = o /\ At(pc, o, loaded[o]).known = loaded[o]
      BY <1>1, <1>2, OpRange, ThreadValues
    <2>4. PICK t : /\ Becomes(Recovery, t)
                   /\ \/ /\ t = DropAt(o, loaded[o], <<Prepared(o), Backup(o)>>)
                         /\ dir[Source] = Expected(o)
                      \/ t = At("published", o, loaded[o]) /\ Published(o)
                      \/ t = At("stuck", o, loaded[o])
      BY <2>1 DEF Resume
    <2>5. t \in Thread /\ RecoverForm(t)
      BY <1>5, <2>1, <2>2, <2>3, <2>4 DEF Inspect, NextUnfinished, RecoverForm
    <2> QED BY <2>4, <2>5 DEF Becomes
  <1>6. CASE EndScan
    <2>1. Scan("undos", MaxOps + 1) \in Thread /\ Scan("undos", MaxOps + 1).pc = "undos"
      BY <1>2, OpRange, ThreadValues
    <2> QED BY <1>6, <2>1 DEF EndScan, Becomes, RecoverForm
  <1>7. CASE ResumeUndo
    <2>1. PICK o \in Ops : loaded[o] = "undoing" /\ Becomes(Recovery, At("undoing", o, "undoing"))
      BY <1>7 DEF ResumeUndo, NextRowDown
    <2>2. /\ At("undoing", o, "undoing") \in Thread /\ At("undoing", o, "undoing").pc = "undoing"
          /\ At("undoing", o, "undoing").op = o
      BY <1>2, OpRange, ThreadValues
    <2> QED BY <1>7, <2>1, <2>2 DEF ResumeUndo, Becomes, RecoverForm
  <1>8. CASE EndUndos
    <2> DEFINE t == [Scan("expire", MaxOps + 1) EXCEPT !.ok = FALSE]
    <2>1. Scan("expire", MaxOps + 1) \in Thread /\ Scan("expire", MaxOps + 1).pc = "expire"
      BY <1>2, OpRange, ThreadValues
    <2>2. t \in Thread /\ t.pc = "expire"
      BY <2>1 DEF Thread
    <2> QED BY <1>8, <2>2 DEF EndUndos, Becomes, RecoverForm
  <1>9. CASE NextBackup
    <2>1. PICK o \in Ops :
             \/ Becomes(Recovery, [At("opened", o, "none") EXCEPT !.saw = dir[Source]])
             \/ Becomes(Recovery, [job[Recovery] EXCEPT !.pc = "release", !.op = o])
      BY <1>9 DEF NextBackup
    <2>2. At("opened", o, "none") \in Thread /\ At("opened", o, "none").pc = "opened"
          /\ At("opened", o, "none").op = o
      BY <1>2, OpRange, ThreadValues DEF ExpiryPCs
    <2>3. /\ [At("opened", o, "none") EXCEPT !.saw = dir[Source]] \in Thread
          /\ [At("opened", o, "none") EXCEPT !.saw = dir[Source]].pc = "opened"
          /\ [At("opened", o, "none") EXCEPT !.saw = dir[Source]].op = o
      BY <1>1, <2>2 DEF Thread
    <2>4. /\ [job[Recovery] EXCEPT !.pc = "release", !.op = o] \in Thread
          /\ [job[Recovery] EXCEPT !.pc = "release", !.op = o].pc = "release"
          /\ [job[Recovery] EXCEPT !.pc = "release", !.op = o].op = o
      BY <1>1, <1>2, OpRange DEF Thread, ExpiryPCs
    <2>5. PICK t \in Thread : Becomes(Recovery, t) /\ t.pc \in ExpiryPCs /\ t.op = o
      BY <2>1, <2>3, <2>4 DEF ExpiryPCs
    <2> QED BY <1>9, <2>5 DEF NextBackup, Becomes, RecoverForm, evidence
  <1>10. CASE JudgeSource
    <2> DEFINE o == job[Recovery].op
    <2>1. At("release", o, "none") \in Thread /\ At("release", o, "none").pc = "release"
          /\ At("release", o, "none").op = o
      BY <1>1, <1>2, <1>10, OpRange, ThreadValues DEF ExpiryPCs, JudgeSource
    <2>2. \E ok \in BOOLEAN : Becomes(Recovery, [At("release", o, "none") EXCEPT !.ok = ok])
      BY <1>10 DEF JudgeSource
    <2>3. PICK ok \in BOOLEAN : Becomes(Recovery, [At("release", o, "none") EXCEPT !.ok = ok])
      BY <2>2
    <2>4. /\ [At("release", o, "none") EXCEPT !.ok = ok] \in Thread
          /\ [At("release", o, "none") EXCEPT !.ok = ok].pc = "release"
          /\ [At("release", o, "none") EXCEPT !.ok = ok].op = o
      BY <2>1 DEF Thread
    <2> QED BY <1>1, <1>10, <2>3, <2>4 DEF JudgeSource, Becomes, RecoverForm, evidence, ExpiryPCs
  <1>11. CASE Release
    <2>1. job[Recovery].pc = "release" /\ UNCHANGED <<evidence, loaded>>
      BY <1>11 DEF Release
    <2>2. PICK pc \in {"expire", "released", "doubt"} : Goto(Recovery, pc)
      BY <1>11 DEF Release
    <2>3. \/ UNCHANGED disk
          \/ /\ backups[job[Recovery].op] = "retained"
             /\ dir[Backup(job[Recovery].op)] = Expected(job[Recovery].op)
             /\ Links(Expected(job[Recovery].op)) = 1
             /\ ~LockedByOther(Recovery, Expected(job[Recovery].op))
             /\ BecomesDir([dir EXCEPT ![Backup(job[Recovery].op)] = Nothing])
      BY <1>11, SyncForms DEF Release
    <2>4. RecoverForm([job[Recovery] EXCEPT !.pc = pc])
      BY <1>1, <1>3, <2>1, <2>3 DEF RecoverForm, ExpiryPCs, evidence
    <2> QED BY <1>3, <2>2, <2>4 DEF Goto, Becomes, ExpiryPCs
  <1>12. CASE SettleRelease
    <2>1. /\ job[Recovery].pc \in {"released", "doubt"} /\ Goto(Recovery, "expire")
          /\ UNCHANGED <<disk, loaded, journal>>
          /\ \/ UNCHANGED backups
             \/ /\ backups[job[Recovery].op] = "retained"
                /\ \E to \in {"released", "needs_reconciliation"} :
                      backups' = [backups EXCEPT ![job[Recovery].op] = to]
      BY <1>12 DEF SettleRelease, WriteBackup, WriteBackupFails, evidence
    <2>2. RecoverForm([job[Recovery] EXCEPT !.pc = "expire"])
      BY <1>1, <1>3, <2>1 DEF RecoverForm, ExpiryPCs
    <2> QED BY <1>3, <2>1, <2>2 DEF Goto, Becomes
  <1>13. CASE EndExpiry
    <2>1. RecoverForm(Idle)
      BY <1>13, ThreadValues DEF EndExpiry, RecoverForm, evidence, ExpiryPCs, Idle
    <2> QED BY <1>13, <2>1, ThreadValues DEF EndExpiry, Return, Becomes
  <1>14. CASE Stop
    <2>1. Idle \in Thread /\ Idle.pc = "idle" /\ "idle" \notin ExpiryPCs
      BY ThreadValues DEF Idle, ExpiryPCs
    <2>2. RecoverForm(Idle)
      BY <1>14, <2>1 DEF Stop, RecoverForm, evidence, ExpiryPCs
    <2> QED BY <1>14, <2>1, <2>2 DEF Stop, Return, Becomes
  <1> QED BY <1>4, <1>5, <1>6, <1>7, <1>8, <1>9, <1>10, <1>11, <1>12, <1>13, <1>14 DEF Recover

LEMMA RecoverRest ==
    ASSUME TypeInv, Recover
    PROVE  /\ UNCHANGED <<up, lists, crashes>> /\ faults' \in 0..MaxFaults
           /\ job[Recovery].pc \in {"load", "scan", "undos", "expire"} \cup ExpiryPCs
  <1>1. UNCHANGED <<up, lists, crashes>> /\ (Fault \/ Smooth)
    BY DEF Recover, Stop, Load, Inspect, EndScan, ResumeUndo, EndUndos, NextBackup, JudgeSource, Release,
           SettleRelease, EndExpiry, WriteBackup, WriteBackupFails, Smooth, budget
  <1>2. job[Recovery].pc \in {"load", "scan", "undos", "expire"} \cup ExpiryPCs
    BY DEF Recover, Stop, Load, Inspect, EndScan, ResumeUndo, EndUndos, NextBackup, JudgeSource, Release,
           SettleRelease, EndExpiry, ExpiryPCs
  <1> QED BY <1>1, <1>2, MetadataAssumption DEF TypeInv, VarsTyped, Fault, Smooth

LEMMA RecoverKeepsDirectory ==
    ASSUME TypeInv, Recover
    PROVE  dir' \in Directories /\ possible' \subseteq Directories /\ dir' \in possible'
  <1>1. VarsTyped /\ dir \in Directories
    BY DEF TypeInv, VarsTyped
  <1>2. \A a : [dir EXCEPT ![a] = Nothing] \in Directories
    BY <1>1 DEF Directories
  <1>3. UNCHANGED disk \/ \E a : BecomesDir([dir EXCEPT ![a] = Nothing])
    BY RecoverMoves DEF RecoverForm
  <1>4. \E d \in Directories : BecomesDir(d)
    BY <1>1, <1>2, <1>3, SyncForms
  <1> QED BY <1>1, <1>4, BecomesTyped

LEMMA RecoverKeepsType == ASSUME TypeInv, Recover PROVE TypeInv'
  <1> DEFINE r == job[Recovery]
  <1>1. VarsTyped /\ RowsRight /\ Stopped /\ NoUndo /\ OneThread /\ \A k \in Jobs : ThreadRight(k)
    BY DEF TypeInv
  <1>2. PICK t \in Thread : job' = [job EXCEPT ![Recovery] = t] /\ RecoverForm(t)
    BY RecoverMoves
  <1>3. /\ job' \in [Jobs -> Thread] /\ job'[Recovery] = t
        /\ \A k \in Jobs \ {Recovery} : job'[k] = job[k]
    BY <1>1, <1>2, JobFacts DEF VarsTyped
  <1>4. /\ UNCHANGED <<up, lists, crashes>> /\ faults' \in 0..MaxFaults
        /\ r.pc \in {"load", "scan", "undos", "expire"} \cup ExpiryPCs
    BY RecoverRest
  <1>5. journal' = journal
    BY <1>2 DEF RecoverForm, evidence
  <1>6. /\ backups' \in [Ops -> BackupStates]
        /\ \A q \in Ops : (backups'[q] # "none" <=> backups[q] # "none")
                          /\ (backups'[q] = "undoing" => backups[q] = "undoing")
    <2>1. \/ backups' = backups
          \/ /\ r.op \in Ops /\ backups[r.op] = "retained"
             /\ \E to \in {"released", "needs_reconciliation"} : backups' = [backups EXCEPT ![r.op] = to]
      BY <1>2 DEF RecoverForm, evidence
    <2> QED BY <1>1, <2>1 DEF VarsTyped, BackupStates
  <1>7. loaded' \in [Ops -> JournalStates \cup BackupStates]
    <2>1. \A q \in Ops : Exists(q) => journal[q].state \in JournalStates
      BY <1>1, ExistingRecord
    <2>2. loaded' = loaded \/ loaded' = backups
          \/ loaded' = [q \in Ops |-> IF Exists(q) THEN journal[q].state ELSE "none"]
      BY <1>2 DEF RecoverForm
    <2>3. "none" \in BackupStates
      BY DEF BackupStates
    <2> QED BY <1>1, <2>1, <2>2, <2>3 DEF VarsTyped
  <1>8. \A q \in Ops : Exists(q)' <=> Exists(q)
    BY <1>5 DEF Exists
  <1>9. VarsTyped'
    BY <1>1, <1>3, <1>4, <1>5, <1>6, <1>7, RecoverKeepsDirectory DEF VarsTyped, lists
  <1>10. RowsRight'
    <2>1. \A q \in Ops : backups'[q] # "none" => Exists(q)' /\ journal'[q].state = "complete"
      BY <1>1, <1>5, <1>6, <1>8 DEF RowsRight
    <2>2. t.pc \in BackupPhase => \A q \in Ops : loaded'[q] # "none" => backups'[q] # "none"
      <3>1. t.pc \in BackupPhase => \/ loaded' = backups /\ UNCHANGED evidence
                                    \/ loaded' = loaded /\ r.pc \in BackupPhase
        <4>1. {"scan", "drop", "published", "stuck", "idle"} \cap BackupPhase = {}
              /\ "undos" \in BackupPhase /\ "expire" \in BackupPhase /\ ExpiryPCs \subseteq BackupPhase
          BY DEF BackupPhase, ExpiryPCs, UndoPCs
        <4> QED BY <1>2, <4>1 DEF RecoverForm
      <3> QED BY <1>1, <1>6, <3>1 DEF RowsRight, evidence
    <2>3. t.pc \in {"scan"} \cup SavePCs => \A q \in Ops : Unfinished(q)' => Exists(q)'
      <3>1. t.pc \in {"scan"} \cup SavePCs =>
               \/ r.pc = "scan" /\ loaded' = loaded
               \/ loaded' = [q \in Ops |-> IF Exists(q) THEN journal[q].state ELSE "none"]
        <4>1. {"undos", "expire", "idle", "undoing"} \cap ({"scan"} \cup SavePCs) = {}
              /\ ExpiryPCs \cap ({"scan"} \cup SavePCs) = {}
          BY DEF SavePCs, CommitPCs, CleanPCs, ExpiryPCs
        <4> QED BY <1>2, <4>1 DEF RecoverForm
      <3>2. ASSUME loaded' = [x \in Ops |-> IF Exists(x) THEN journal[x].state ELSE "none"], NEW q \in Ops
            PROVE  Unfinished(q)' => Exists(q)
        BY <3>2 DEF Unfinished
      <3> QED BY <1>1, <1>8, <3>1, <3>2 DEF RowsRight, Unfinished
    <2> QED BY <1>3, <2>1, <2>2, <2>3 DEF RowsRight
  <1>11. r.pc # "idle"
    BY <1>4 DEF ExpiryPCs
  <1>12. Stopped'
    BY <1>1, <1>3, <1>4, JobFacts DEF Stopped
  <1>13. NoUndo'
    <2>1. ~Undoes => t.pc \notin UndoPCs
      BY <1>1, <1>2 DEF RecoverForm, NoUndo, UndoPCs, ExpiryPCs
    <2>2. t.pc = "undos" => loaded' = backups
      BY <1>2 DEF RecoverForm, ExpiryPCs
    <2> QED BY <1>1, <1>3, <1>6, <2>1, <2>2 DEF NoUndo
  <1>14. ASSUME NEW k \in Jobs PROVE ThreadRight(k)'
    <2>1. CASE k = Recovery
      <3> SUFFICES ASSUME NEW o, o = t.op PROVE ThreadRight(k)'
        OBVIOUS
      <3>1. t.pc \in SavePCs => /\ o \in Ops /\ Exists(o)' /\ t.known \in OpenStates
                                /\ t.pc = "drop" => t.todo \in DropLists(o)
                                /\ t.pc \notin FirstPCs
        <4>1. {"undos", "expire", "idle", "undoing", "scan"} \cap SavePCs = {} /\ ExpiryPCs \cap SavePCs = {}
          BY DEF SavePCs, CommitPCs, CleanPCs, ExpiryPCs
        <4>2. t.pc \in SavePCs => /\ r.pc = "scan" /\ o \in Ops /\ Unfinished(o) /\ t.known = loaded[o]
                                  /\ t.pc \in {"drop", "published", "stuck"}
                                  /\ t.pc = "drop" => t.todo = <<Prepared(o), Backup(o)>>
          BY <1>2, <4>1 DEF RecoverForm
        <4> QED BY <1>1, <1>8, <4>2 DEF RowsRight, Unfinished, OpenStates, DropLists, FirstPCs
      <3>2. t.pc \in UndoPCs => o \in Ops /\ backups'[o] # "none"
        <4>1. t.pc \in UndoPCs => r.pc = "undos" /\ o \in Ops /\ loaded[o] = "undoing"
          BY <1>2 DEF RecoverForm, UndoPCs, ExpiryPCs
        <4> QED BY <1>1, <1>6, <4>1 DEF RowsRight, BackupPhase
      <3>3. t.pc \in ExpiryPCs => o \in Ops
        BY <1>2 DEF RecoverForm, ExpiryPCs
      <3>4. t.pc \in FirstPCs => t.pc \in SavePCs
        BY PlaceFacts
      <3>5. "drop" \in SavePCs /\ {"created", "copied"} \subseteq FirstPCs
        BY DEF SavePCs, CleanPCs, FirstPCs
      <3> QED BY <1>3, <2>1, <3>1, <3>2, <3>3, <3>4, <3>5, JobFacts
           DEF ThreadRight, DropLists, Prepared, Backup
    <2>2. CASE k # Recovery
      <3>1. job'[k] = job[k] /\ ThreadRight(k) /\ k \in Workers
        BY <1>1, <1>3, <2>2, JobFacts
      <3>2. job[k].pc \notin UndoPCs
        BY <1>11, <3>1 DEF ThreadRight
      <3> QED BY <1>5, <1>6, <1>8, <2>2, <3>1, <3>2 DEF ThreadRight, DropLists, Prepared, Backup
    <2> QED BY <2>1, <2>2
  <1>15. OneThread'
    <2>1. ASSUME NEW k \in Jobs \ {Recovery}, t.pc \in SavePCs, job[k].pc \in SavePCs
          PROVE  t.op # job[k].op
      <3>1. {"undos", "expire", "idle", "undoing", "scan"} \cap SavePCs = {} /\ ExpiryPCs \cap SavePCs = {}
        BY DEF SavePCs, CommitPCs, CleanPCs, ExpiryPCs
      <3>2. ~LockedByOther(Recovery, Expected(t.op))
        BY <1>2, <2>1, <3>1 DEF RecoverForm
      <3>3. Engaged(k) /\ Expected(job[k].op) \in Holds(k)
        BY <2>1 DEF Engaged, SavePCs, Holds
      <3> QED BY <3>2, <3>3 DEF LockedByOther
    <2> QED BY <1>1, <1>3, <2>1 DEF OneThread
  <1> QED BY <1>9, <1>10, <1>12, <1>13, <1>14, <1>15 DEF TypeInv

-------------------------------------------------------------------------------
(* The other steps, and types. *)

(* After a start or a crash no thread is at work. *)
LEMMA AtRestTyped ==
    ASSUME TypeInv, VarsTyped', Stopped', UNCHANGED <<evidence, loaded>>,
           \A j \in Jobs : job'[j].pc = "idle" \/ (j = Recovery /\ job'[j].pc = "load")
    PROVE  TypeInv'
  <1>1. \A j \in Jobs : job'[j].pc \notin SavePCs \cup UndoPCs \cup ExpiryPCs \cup BackupPhase
                        /\ job'[j].pc \notin FirstPCs \cup {"drop", "created", "copied", "scan", "undos"}
    BY DEF SavePCs, CommitPCs, CleanPCs, UndoPCs, ExpiryPCs, BackupPhase, FirstPCs
  <1>2. /\ \A o \in Ops : backups'[o] = backups[o] /\ journal'[o] = journal[o]
        /\ \A o \in Ops : Exists(o)' <=> Exists(o)
    BY DEF evidence, Exists
  <1>3. RowsRight'
    BY <1>1, <1>2, JobFacts DEF TypeInv, RowsRight
  <1>4. NoUndo' /\ OneThread'
    BY <1>1, <1>2, JobFacts DEF TypeInv, NoUndo, OneThread
  <1>5. ASSUME NEW j \in Jobs PROVE ThreadRight(j)'
    BY <1>1, <1>5, JobFacts DEF ThreadRight
  <1> QED BY <1>3, <1>4, <1>5 DEF TypeInv

(* Another program or a move of the finished file changes the directory,   *)
(* at most the listed version, and no thread.                              *)
LEMMA AsideTyped ==
    ASSUME TypeInv, UNCHANGED <<up, evidence, refreshed, lapses, loaded, job, faults, crashes>>,
           listed' \in Versions \cup {Nothing},
           NEW d \in Directories, BecomesDir(d)
    PROVE  TypeInv'
  <1>1. VarsTyped'
    BY BecomesTyped DEF TypeInv, VarsTyped, evidence
  <1>2. RowsRight' /\ Stopped' /\ NoUndo' /\ OneThread'
    BY DEF TypeInv, RowsRight, Stopped, NoUndo, OneThread, Exists, Unfinished, evidence
  <1>3. ASSUME NEW j \in Jobs PROVE ThreadRight(j)'
    BY DEF TypeInv, ThreadRight, Exists, evidence, DropLists, Prepared, Backup
  <1> QED BY <1>1, <1>2, <1>3 DEF TypeInv

(* What another program leaves. *)
EditedDir(d) ==
    \E v \in Foreign :
        /\ Unseen(v) /\ dir[Source] # Nothing
        /\ \/ d = [dir EXCEPT ![Source] = v]
           \/ d = [e \in Entries |-> IF dir[e] = dir[Source] THEN v ELSE dir[e]]

LEMMA EditForm ==
    ASSUME TypeInv, Edit
    PROVE  /\ \E d \in Directories : EditedDir(d) /\ BecomesDir(d)
           /\ \A j \in Jobs : job[j].pc # "safe"
           /\ UNCHANGED <<up, evidence, lists, loaded, job, budget>>
  <1>1. dir \in Directories
    BY DEF TypeInv, VarsTyped
  <1>2. PICK v \in Foreign :
             /\ Unseen(v) /\ dir[Source] # Nothing
             /\ \/ Unsynced([dir EXCEPT ![Source] = v])
                \/ Unsynced([e \in Entries |-> IF dir[e] = dir[Source] THEN v ELSE dir[e]])
    BY DEF Edit
  <1>3. /\ [dir EXCEPT ![Source] = v] \in Directories
        /\ [e \in Entries |-> IF dir[e] = dir[Source] THEN v ELSE dir[e]] \in Directories
    BY <1>1, OpsAreVersions DEF Directories
  <1>4. \E d \in Directories : EditedDir(d) /\ BecomesDir(d)
    BY <1>2, <1>3, SyncForms DEF EditedDir
  <1> QED BY <1>4 DEF Edit

LEMMA CrashForm ==
    ASSUME TypeInv, Crash
    PROVE  /\ dir' \in possible /\ possible' \subseteq possible /\ dir' \in possible'
           /\ "power" \in CrashKinds \/ UNCHANGED disk
           /\ up' = FALSE /\ job' = [j \in Jobs |-> Idle]
           /\ UNCHANGED <<evidence, lists, loaded, faults>> /\ crashes' \in 0..MaxCrashes
  <1>1. dir \in possible /\ crashes \in 0..MaxCrashes
    BY DEF TypeInv, VarsTyped
  <1>2. crashes' \in 0..MaxCrashes
    BY <1>1, MetadataAssumption DEF Crash
  <1> QED BY <1>1, <1>2 DEF Crash, disk

LEMMA CrashTyped == ASSUME TypeInv, Crash PROVE TypeInv'
  <1>1. job' \in [Jobs -> Thread] /\ \A j \in Jobs : job'[j].pc = "idle"
    BY CrashForm, ThreadValues
  <1>2. VarsTyped'
    BY <1>1, CrashForm DEF TypeInv, VarsTyped, evidence, lists
  <1>3. Stopped'
    BY <1>1, JobFacts DEF Stopped
  <1>4. UNCHANGED <<evidence, loaded>>
    BY CrashForm
  <1>5. \A j \in Jobs : job'[j].pc = "idle" \/ (j = Recovery /\ job'[j].pc = "load")
    BY <1>1
  <1> QED BY <1>2, <1>3, <1>4, <1>5, AtRestTyped

LEMMA StartTyped == ASSUME TypeInv, Start PROVE TypeInv'
  <1>1. Scan("load", 0) \in Thread /\ Scan("load", 0).pc = "load"
    <2>1. "load" \in AllPCs
      BY DEF AllPCs, JobPCs
    <2> QED BY <2>1, OpRange, ThreadValues
  <1>2. /\ job' \in [Jobs -> Thread]
        /\ \A j \in Jobs : job'[j].pc = "idle" \/ (j = Recovery /\ job'[j].pc = "load")
    <2>1. job \in [Jobs -> Thread] /\ \A j \in Jobs : job[j].pc = "idle"
      BY DEF Start, Closing, TypeInv, VarsTyped, Stopped, Jobs
    <2>2. job' = [job EXCEPT ![Recovery] = Scan("load", 0)]
      BY DEF Start, Becomes
    <2>3. \A j \in Jobs : job'[j] = IF j = Recovery THEN Scan("load", 0) ELSE job[j]
      BY <2>1, <2>2
    <2>4. job' \in [Jobs -> Thread]
      BY <1>1, <2>1, <2>2
    <2> QED BY <1>1, <2>1, <2>3, <2>4
  <1>3. VarsTyped'
    BY <1>2 DEF TypeInv, VarsTyped, Start, evidence, lists, disk, budget
  <1> QED BY <1>2, <1>3, AtRestTyped DEF Start, Stopped

LEMMA CloseTyped == ASSUME TypeInv, Close PROVE TypeInv'
  <1>1. /\ UNCHANGED <<disk, evidence, lists, loaded, job, budget>>
        /\ up' \in BOOLEAN /\ \A j \in Workers : job[j].pc = "idle"
    BY DEF Close
  <1>2. VarsTyped'
    BY <1>1 DEF TypeInv, VarsTyped, evidence, lists, disk, budget
  <1>3. RowsRight' /\ Stopped' /\ NoUndo' /\ OneThread'
    BY <1>1 DEF TypeInv, RowsRight, Stopped, NoUndo, OneThread, Exists, Unfinished, evidence
  <1>4. ASSUME NEW j \in Jobs PROVE ThreadRight(j)'
    BY <1>1 DEF TypeInv, ThreadRight, Exists, evidence, DropLists, Prepared, Backup
  <1> QED BY <1>2, <1>3, <1>4 DEF TypeInv

LEMMA MoveForm ==
    ASSUME TypeInv, Move
    PROVE  /\ [dir EXCEPT ![Source] = Nothing] \in Directories
           /\ BecomesDir([dir EXCEPT ![Source] = Nothing])
  <1>1. dir \in Directories
    BY DEF TypeInv, VarsTyped
  <1>2. [dir EXCEPT ![Source] = Nothing] \in Directories
    BY <1>1 DEF Directories
  <1> QED BY <1>2, SyncForms DEF Move

LEMMA AsideSteps == ASSUME TypeInv, Edit \/ Move PROVE TypeInv'
  <1>1. CASE Edit
    <2>1. PICK d \in Directories : BecomesDir(d)
      BY <1>1, EditForm
    <2>2. UNCHANGED <<up, evidence, refreshed, lapses, loaded, job, faults, crashes>>
          /\ listed' \in Versions \cup {Nothing}
      BY <1>1, EditForm DEF lists, budget, TypeInv, VarsTyped
    <2> QED BY <2>1, <2>2, AsideTyped
  <1>2. CASE Move
    <2>1. UNCHANGED <<up, evidence, refreshed, lapses, loaded, job, faults, crashes>>
          /\ listed' \in Versions \cup {Nothing}
      BY <1>2 DEF Move, budget
    <2> DEFINE d == [dir EXCEPT ![Source] = Nothing]
    <2>2. d \in Directories /\ BecomesDir(d)
      BY <1>2, MoveForm
    <2> HIDE DEF d
    <2> QED BY <2>1, <2>2, AsideTyped
  <1> QED BY <1>1, <1>2

LEMMA BeginForm ==
    ASSUME TypeInv, NEW j \in Workers, Begin(j)
    PROVE  \E o \in Ops, kind \in Kinds :
              /\ NextRow(o) /\ dir[Source] # Nothing /\ Links(dir[Source]) = 1
              /\ ~LockedByOther(j, dir[Source]) /\ up /\ job[j].pc = "idle"
              /\ At("created", o, "planned") \in Thread
              /\ job' = [job EXCEPT ![j] = At("created", o, "planned")]
              /\ [state |-> "planned", expected |-> dir[Source], kind |-> kind] \in Record
              /\ journal' = [journal EXCEPT ![o] =
                    [state |-> "planned", expected |-> dir[Source], kind |-> kind]]
              /\ UNCHANGED <<up, disk, backups, lists, loaded, budget>>
  <1>1. PICK o \in Ops, kind \in Kinds :
              /\ up /\ job[j].pc = "idle" /\ NextRow(o)
              /\ dir[Source] # Nothing /\ Links(dir[Source]) = 1 /\ ~LockedByOther(j, dir[Source])
              /\ journal' = [journal EXCEPT ![o] =
                    [state |-> "planned", expected |-> dir[Source], kind |-> kind]]
              /\ Becomes(j, At("created", o, "planned"))
              /\ UNCHANGED <<up, disk, backups, lists, loaded, budget>>
    BY DEF Begin
  <1>2. dir[Source] \in Versions
    BY <1>1, EntryFacts DEF TypeInv, VarsTyped, Directories
  <1>3. [state |-> "planned", expected |-> dir[Source], kind |-> kind] \in Record
    BY <1>2 DEF Record, JournalStates
  <1>4. "created" \in AllPCs /\ "planned" \in JournalStates \cup BackupStates
    BY DEF AllPCs, SavePCs, CommitPCs, JournalStates
  <1>5. At("created", o, "planned") \in Thread
    BY <1>4, OpRange, ThreadValues
  <1> QED BY <1>1, <1>3, <1>5 DEF Becomes

LEMMA BeginTyped == ASSUME TypeInv, NEW j \in Workers, Begin(j) PROVE TypeInv'
  <1>1. VarsTyped /\ RowsRight /\ Stopped /\ NoUndo /\ OneThread /\ \A k \in Jobs : ThreadRight(k)
    BY DEF TypeInv
  <1>2. PICK o \in Ops, kind \in Kinds :
              /\ NextRow(o) /\ dir[Source] # Nothing /\ Links(dir[Source]) = 1
              /\ ~LockedByOther(j, dir[Source]) /\ up /\ job[j].pc = "idle"
              /\ At("created", o, "planned") \in Thread
              /\ job' = [job EXCEPT ![j] = At("created", o, "planned")]
              /\ [state |-> "planned", expected |-> dir[Source], kind |-> kind] \in Record
              /\ journal' = [journal EXCEPT ![o] =
                    [state |-> "planned", expected |-> dir[Source], kind |-> kind]]
              /\ UNCHANGED <<up, disk, backups, lists, loaded, budget>>
    BY BeginForm
  <1>3. PICK r \in Record : /\ journal' = [journal EXCEPT ![o] = r] /\ r.state = "planned"
    BY <1>2
  <1>4. /\ journal' \in [Ops -> Record \cup {Unused}] /\ Exists(o)' /\ ~Exists(o)
        /\ journal'[o].state = "planned"
        /\ \A q \in Ops \ {o} : journal'[q] = journal[q] /\ (Exists(q)' <=> Exists(q))
    BY <1>1, <1>2, <1>3, RecordIsUsed DEF VarsTyped, NextRow, Exists
  <1>5. PICK s \in Thread : /\ job' = [job EXCEPT ![j] = s] /\ s.pc = "created" /\ s.op = o
                            /\ s.known = "planned"
    BY <1>2 DEF At, Idle
  <1>6. /\ job' \in [Jobs -> Thread] /\ job'[j] = s /\ j # Recovery /\ j \in Jobs
        /\ \A k \in Jobs \ {j} : job'[k] = job[k]
    BY <1>1, <1>5, JobFacts DEF VarsTyped
  <1>7. backups[o] = "none"
    BY <1>1, <1>4 DEF RowsRight
  <1>8. VarsTyped'
    BY <1>1, <1>2, <1>4, <1>6 DEF VarsTyped, disk, lists, budget
  <1>9. RowsRight'
    <2>1. \A q \in Ops : backups[q] # "none" => Exists(q)' /\ journal'[q].state = "complete"
      BY <1>1, <1>4, <1>7 DEF RowsRight
    <2>2. \A q \in Ops : Exists(q) => Exists(q)'
      BY <1>4
    <2> QED BY <1>1, <1>2, <1>6, <2>1, <2>2, JobFacts DEF RowsRight, Unfinished
  <1>10. Stopped'
    BY <1>2 DEF Stopped
  <1>11. s.pc \in SavePCs /\ s.pc \notin UndoPCs \cup ExpiryPCs /\ s.pc \in FirstPCs
    BY <1>5 DEF SavePCs, CommitPCs, UndoPCs, ExpiryPCs, FirstPCs
  <1>12. NoUndo'
    BY <1>1, <1>2, <1>6, <1>11, JobFacts DEF NoUndo
  <1>13. \A k \in Jobs : job[k].pc \in SavePCs => job[k].op \in Ops \ {o}
    BY <1>1, <1>4 DEF ThreadRight
  <1>14. OneThread'
    BY <1>1, <1>5, <1>6, <1>13 DEF OneThread
  <1>15. ASSUME NEW k \in Jobs PROVE ThreadRight(k)'
    <2>1. CASE k = j
      BY <1>4, <1>5, <1>6, <1>11, <2>1 DEF ThreadRight, OpenStates, FirstPCs
    <2>2. CASE k # j
      <3> SUFFICES ASSUME NEW q, q = job[k].op PROVE ThreadRight(k)'
        OBVIOUS
      <3>1. job'[k] = job[k] /\ ThreadRight(k) /\ (job[k].pc \in SavePCs => q \in Ops \ {o})
        BY <1>1, <1>6, <1>13, <2>2
      <3>2. k \in Workers /\ job[k].pc \in UndoPCs => job'[Recovery].pc = "idle"
        BY <1>6, <3>1, JobFacts DEF ThreadRight
      <3> QED BY <1>2, <1>4, <3>1, <3>2 DEF ThreadRight, DropLists, Prepared, Backup
    <2> QED BY <2>1, <2>2
  <1> QED BY <1>8, <1>9, <1>10, <1>12, <1>14, <1>15 DEF TypeInv

LEMMA BeginUndoForm ==
    ASSUME TypeInv, NEW j \in Workers, BeginUndo(j)
    PROVE  /\ UNCHANGED <<up, disk, journal, listed, lapses, loaded, budget>>
           /\ Undoes /\ up /\ job[j].pc = "idle" /\ job[Recovery].pc = "idle"
           /\ \E o \in Ops : /\ backups[o] = "retained"
                             /\ \/ /\ backups' = [backups EXCEPT ![o] = "undoing"]
                                   /\ refreshed' = refreshed \ {UndoOf(o)}
                                   /\ At("undoing", o, "undoing") \in Thread
                                   /\ job' = [job EXCEPT ![j] = At("undoing", o, "undoing")]
                                \/ /\ backups' = [backups EXCEPT ![o] = "needs_reconciliation"]
                                   /\ UNCHANGED <<refreshed, job>>
  <1>1. "undoing" \in AllPCs /\ "undoing" \in JournalStates \cup BackupStates
    BY DEF AllPCs, UndoPCs, BackupStates
  <1>2. \A o \in Ops : At("undoing", o, "undoing") \in Thread
    BY <1>1, OpRange, ThreadValues
  <1> QED BY <1>2 DEF BeginUndo, MayUndo, WriteBackup, Becomes, Smooth, budget

LEMMA BeginUndoTyped == ASSUME TypeInv, NEW j \in Workers, BeginUndo(j) PROVE TypeInv'
  <1>1. VarsTyped /\ RowsRight /\ Stopped /\ NoUndo /\ OneThread /\ \A k \in Jobs : ThreadRight(k)
    BY DEF TypeInv
  <1>2. /\ UNCHANGED <<up, disk, journal, listed, lapses, loaded, budget>>
        /\ Undoes /\ up /\ job[j].pc = "idle" /\ job[Recovery].pc = "idle"
    BY BeginUndoForm
  <1>3. PICK o \in Ops : /\ backups[o] = "retained"
                         /\ \/ /\ backups' = [backups EXCEPT ![o] = "undoing"]
                               /\ refreshed' = refreshed \ {UndoOf(o)}
                               /\ At("undoing", o, "undoing") \in Thread
                               /\ job' = [job EXCEPT ![j] = At("undoing", o, "undoing")]
                            \/ /\ backups' = [backups EXCEPT ![o] = "needs_reconciliation"]
                               /\ UNCHANGED <<refreshed, job>>
    BY BeginUndoForm
  <1>4. /\ backups' \in [Ops -> BackupStates]
        /\ \A q \in Ops : backups'[q] # "none" <=> backups[q] # "none"
    BY <1>1, <1>3 DEF VarsTyped, BackupStates
  <1>5. /\ job' \in [Jobs -> Thread] /\ j # Recovery /\ j \in Jobs
        /\ \A k \in Jobs \ {j} : job'[k] = job[k]
        /\ \/ job'[j] = job[j]
           \/ job'[j].pc = "undoing" /\ job'[j].op = o
    BY ZenonT(60), <1>1, <1>3, JobFacts DEF VarsTyped, At, Idle
  <1>6. \A q \in Ops : (Exists(q)' <=> Exists(q)) /\ (Unfinished(q)' <=> Unfinished(q))
    BY <1>2 DEF Exists, Unfinished
  <1>7. VarsTyped'
    BY <1>1, <1>2, <1>3, <1>4, <1>5 DEF VarsTyped, disk, budget
  <1>8. RowsRight'
    BY <1>1, <1>2, <1>4, <1>5, <1>6, JobFacts DEF RowsRight
  <1>9. Stopped' /\ NoUndo'
    BY <1>2 DEF Stopped, NoUndo
  <1>10. OneThread'
    <2>1. "undoing" \notin SavePCs
      BY DEF SavePCs, CommitPCs, CleanPCs
    <2> QED BY <1>1, <1>5, <2>1 DEF OneThread
  <1>11. ASSUME NEW k \in Jobs PROVE ThreadRight(k)'
    <2>1. CASE job'[k] = job[k]
      <3>1. job'[Recovery] = job[Recovery]
        BY <1>5, JobFacts
      <3> QED BY <1>1, <1>2, <1>4, <1>6, <2>1, <3>1
           DEF ThreadRight, DropLists, Prepared, Backup
    <2>2. CASE job'[k] # job[k]
      <3>1. k = j /\ job'[j].pc = "undoing" /\ job'[j].op = o /\ backups'[o] # "none"
        BY <1>3, <1>4, <1>5, <2>2
      <3>2. "undoing" \in UndoPCs /\ "undoing" \notin SavePCs \cup ExpiryPCs \cup FirstPCs
        BY DEF UndoPCs, SavePCs, CommitPCs, CleanPCs, ExpiryPCs, FirstPCs
      <3>3. job'[Recovery].pc = "idle"
        BY <1>2, <1>5, JobFacts
      <3> QED BY <1>5, <3>1, <3>2, <3>3 DEF ThreadRight, FirstPCs
    <2> QED BY <2>1, <2>2
  <1> QED BY <1>7, <1>8, <1>9, <1>10, <1>11 DEF TypeInv

LEMMA InitTyped == Init => TypeInv
  <1> SUFFICES ASSUME Init PROVE TypeInv
    OBVIOUS
  <1>1. /\ \A j \in Jobs : job[j].pc = "idle"
        /\ job \in [Jobs -> Thread]
    BY ThreadValues DEF Init
  <1>2. 0 \in Versions /\ "none" \in BackupStates
    BY DEF Versions, BackupStates
  <1>3. VarsTyped
    <2>1. dir \in Directories /\ possible \subseteq Directories /\ dir \in possible
      BY <1>2 DEF Init, Directories
    <2>2. /\ journal \in [Ops -> Record \cup {Unused}] /\ backups \in [Ops -> BackupStates]
          /\ loaded \in [Ops -> JournalStates \cup BackupStates]
      BY <1>2 DEF Init
    <2>3. faults \in 0..MaxFaults /\ crashes \in 0..MaxCrashes
      BY MetadataAssumption DEF Init
    <2> QED BY <1>1, <1>2, <2>1, <2>2, <2>3 DEF Init, VarsTyped
  <1>4. \A j \in Jobs : job[j].pc \notin SavePCs \cup UndoPCs \cup ExpiryPCs \cup BackupPhase
                        /\ job[j].pc \notin FirstPCs \cup {"drop", "created", "copied", "scan", "undos"}
    BY <1>1 DEF SavePCs, CommitPCs, CleanPCs, UndoPCs, ExpiryPCs, BackupPhase, FirstPCs
  <1>5. RowsRight /\ Stopped /\ NoUndo /\ OneThread
    BY <1>1, <1>4, JobFacts DEF Init, RowsRight, Stopped, NoUndo, OneThread
  <1>6. \A j \in Jobs : ThreadRight(j)
    BY <1>1, <1>4, JobFacts DEF ThreadRight
  <1> QED BY <1>3, <1>5, <1>6 DEF TypeInv

LEMMA NextTyped == TypeInv /\ [Next]_vars => TypeInv'
  <1> SUFFICES ASSUME TypeInv, [Next]_vars PROVE TypeInv'
    OBVIOUS
  <1>1. CASE Start \/ Close \/ Crash \/ Edit \/ Move
    BY <1>1, StartTyped, CloseTyped, CrashTyped, AsideSteps
  <1>2. ASSUME NEW j \in Workers, Begin(j) \/ BeginUndo(j) PROVE TypeInv'
    BY <1>2, BeginTyped, BeginUndoTyped
  <1>3. ASSUME NEW j \in Jobs, Save(j) \/ Undo(j) PROVE TypeInv'
    BY <1>3, SaveKeepsType, UndoKeepsType
  <1>4. CASE Recover
    BY <1>4, RecoverKeepsType
  <1>5. CASE UNCHANGED vars
    BY <1>5 DEF vars, TypeInv, VarsTyped, RowsRight, Stopped, NoUndo, OneThread, ThreadRight,
               Exists, Unfinished, DropLists, Prepared, Backup
  <1> QED BY <1>1, <1>2, <1>3, <1>4, <1>5 DEF Next

LEMMA TypedIsTypeOK == TypeInv => TypeOK
  <1> SUFFICES ASSUME TypeInv PROVE TypeOK
    OBVIOUS
  <1>1. ASSUME NEW j \in Jobs
        PROVE  /\ job[j].pc \in CommitPCs \cup CleanPCs \cup UndoPCs \cup JobPCs
               /\ job[j].op \in 0..MaxOps + 1
               /\ job[j].known \in JournalStates \cup BackupStates
               /\ job[j].todo \in Seq(Entries)
               /\ job[j].ok \in BOOLEAN
               /\ job[j].saw \in Versions \cup {Nothing}
    BY DEF TypeInv, VarsTyped, Thread, AllPCs, SavePCs
  <1> QED BY <1>1 DEF TypeInv, VarsTyped, Directories, TypeOK

(* Every thread of metadata_commit.cpp stays at one of its places, every   *)
(* record in one of its states, and a backup row exists only beside a      *)
(* completed record.                                                       *)
THEOREM MetadataTypeCorrect == Spec => []TypeOK
  <1>1. Spec => []TypeInv
    BY InitTyped, NextTyped, PTL DEF Spec
  <1> QED BY <1>1, TypedIsTypeOK, PTL

-------------------------------------------------------------------------------
(* What the directory can name. *)

(* The copy of an operation is hidden under its own name, and only there,  *)
(* until one rename publishes it.                                          *)
Alone(o, d) == /\ d[Prepared(o)] \in {Nothing, o}
               /\ d[Prepared(o)] = o => \A e \in Entries : d[e] = o => e = Prepared(o)

(* Nothing in the directory is of an operation before it begins. *)
Unborn(o, d) == /\ d[Prepared(o)] = Nothing /\ d[Backup(o)] = Nothing
                /\ \A e \in Entries : d[e] # o

SoundDir(d) == \A o \in Ops : Alone(o, d) /\ (~Exists(o) => Unborn(o, d))

(* A step of operation o leaves the hidden siblings of the others alone    *)
(* and names no version that was not there, other than its own.            *)
Apart(o, d) ==
    /\ \A q \in Ops \ {o} : /\ d[Prepared(q)] = dir[Prepared(q)]
                            /\ d[Backup(q)] = Nothing <=> dir[Backup(q)] = Nothing
    /\ \A e \in Entries : \/ d[e] \in {o, Nothing} \cup Foreign
                          \/ \E x \in Entries : d[e] = dir[x]

Visible == {Source} \cup {Backup(o) : o \in Ops}

LEMMA VisibleFacts ==
    /\ Visible \subseteq Entries /\ Source \in Visible
    /\ \A o \in Ops : Backup(o) \in Visible /\ Prepared(o) \notin Visible
    /\ \A e \in Visible, o \in Ops : e # Prepared(o)
  BY EntryFacts DEF Visible

LEMMA SoundPlaces ==
    ASSUME NEW d, SoundDir(d), NEW e \in Visible, NEW q \in Ops, d[e] = q
    PROVE  Exists(q) /\ d[Prepared(q)] # q
  <1>1. e \in Entries /\ e # Prepared(q)
    BY VisibleFacts
  <1> QED BY <1>1 DEF SoundDir, Alone, Unborn

LEMMA PutAway ==
    ASSUME NEW d \in Directories, SoundDir(d), NEW e \in Entries
    PROVE  [d EXCEPT ![e] = Nothing] \in Directories /\ SoundDir([d EXCEPT ![e] = Nothing])
  <1> DEFINE c == [d EXCEPT ![e] = Nothing]
  <1>1. c \in Directories /\ \A x \in Entries : c[x] = IF x = e THEN Nothing ELSE d[x]
    BY DEF Directories
  <1>2. ASSUME NEW o \in Ops PROVE Alone(o, c) /\ (~Exists(o) => Unborn(o, c))
    <2>1. Prepared(o) \in Entries /\ Backup(o) \in Entries /\ o # Nothing
      BY EntryFacts, OpsAreVersions
    <2> HIDE DEF c
    <2> QED BY <1>1, <2>1 DEF SoundDir, Alone, Unborn
  <1> QED BY <1>1, <1>2 DEF SoundDir

LEMMA PutAt ==
    ASSUME NEW d \in Directories, SoundDir(d), NEW e \in Visible, NEW v \in Versions \cup {Nothing},
           v \in Ops => Exists(v) /\ d[Prepared(v)] # v,
           \A o \in Ops : ~Exists(o) => e # Backup(o)
    PROVE  /\ [d EXCEPT ![e] = v] \in Directories /\ SoundDir([d EXCEPT ![e] = v])
           /\ \A o \in Ops : [d EXCEPT ![e] = v][Prepared(o)] = d[Prepared(o)]
  <1> DEFINE c == [d EXCEPT ![e] = v]
  <1>1. c \in Directories /\ \A x \in Entries : c[x] = IF x = e THEN v ELSE d[x]
    BY DEF Directories
  <1>2. ASSUME NEW o \in Ops PROVE Alone(o, c) /\ (~Exists(o) => Unborn(o, c))
                                   /\ c[Prepared(o)] = d[Prepared(o)]
    <2>1. Prepared(o) \in Entries /\ Backup(o) \in Entries /\ o # Nothing /\ e # Prepared(o)
      BY EntryFacts, OpsAreVersions, VisibleFacts
    <2>2. v = o => Exists(o) /\ d[Prepared(o)] # o
      OBVIOUS
    <2> HIDE DEF c
    <2>3. Alone(o, c)
      BY <1>1, <2>1, <2>2 DEF SoundDir, Alone
    <2>4. ~Exists(o) => Unborn(o, c)
      BY <1>1, <2>1, <2>2 DEF SoundDir, Unborn
    <2> QED BY <1>1, <2>1, <2>3, <2>4
  <1> QED BY <1>1, <1>2 DEF SoundDir

LEMMA PutCopy ==
    ASSUME NEW d \in Directories, SoundDir(d), NEW o \in Ops, Exists(o),
           \A e \in Entries : d[e] # o
    PROVE  /\ [d EXCEPT ![Prepared(o)] = o] \in Directories
           /\ SoundDir([d EXCEPT ![Prepared(o)] = o])
  <1> DEFINE c == [d EXCEPT ![Prepared(o)] = o]
  <1>1. c \in Directories /\ \A x \in Entries : c[x] = IF x = Prepared(o) THEN o ELSE d[x]
    BY OpsAreVersions DEF Directories
  <1>2. ASSUME NEW q \in Ops PROVE Alone(q, c) /\ (~Exists(q) => Unborn(q, c))
    <2>1. /\ Prepared(q) \in Entries /\ Backup(q) \in Entries /\ Backup(q) # Prepared(o)
          /\ Prepared(q) = Prepared(o) => q = o
      BY EntryFacts
    <2> HIDE DEF c
    <2> QED BY <1>1, <2>1 DEF SoundDir, Alone, Unborn
  <1> QED BY <1>1, <1>2 DEF SoundDir

LEMMA ApartPut ==
    ASSUME dir \in Directories, NEW o \in Ops,
           NEW a \in {Source, Prepared(o), Backup(o)}, NEW b \in {Source, Prepared(o), Backup(o)},
           NEW v, NEW w,
           v \in {o, Nothing} \/ \E x \in Entries : v = dir[x],
           w \in {o, Nothing} \/ \E x \in Entries : w = dir[x]
    PROVE  Apart(o, dir) /\ Apart(o, [dir EXCEPT ![a] = v]) /\ Apart(o, [dir EXCEPT ![a] = v, ![b] = w])
  <1> DEFINE c == [dir EXCEPT ![a] = v]
             d == [dir EXCEPT ![a] = v, ![b] = w]
  <1>1. /\ \A x \in Entries : c[x] = IF x = a THEN v ELSE dir[x]
        /\ \A x \in Entries : d[x] = IF x = b THEN w ELSE IF x = a THEN v ELSE dir[x]
    BY DEF Directories
  <1>2. \A q \in Ops \ {o} : /\ Prepared(q) \in Entries /\ Backup(q) \in Entries
                             /\ Prepared(q) \notin {a, b} /\ Backup(q) \notin {a, b}
    BY EntryFacts
  <1> HIDE DEF c, d
  <1>3. Apart(o, dir)
    BY DEF Apart
  <1>4. Apart(o, c)
    BY <1>1, <1>2 DEF Apart
  <1>5. Apart(o, d)
    BY <1>1, <1>2 DEF Apart
  <1> QED BY <1>3, <1>4, <1>5 DEF c, d

-------------------------------------------------------------------------------
(* What a thread has left in the directory at each of its places. *)

DeepPCs == SavePCs \ {"drop", "abort", "stuck"}

(* The directories that count: a process crash leaves the one in use. *)
Disks == IF "power" \in CrashKinds THEN possible ELSE {dir}

Gone(e) == \A d \in Disks : d[e] = Nothing

(* No undo exchanges the file while saves are at work. *)
Calm == ~AtomicExchange \/ ~Undoes

Place(j) ==
    LET o == job[j].op
        pc == job[j].pc
        P == Prepared(o)
        B == Backup(o)
    IN /\ pc = "created" => \A d \in possible : Unborn(o, d)
       /\ pc \in {"copied", "ready"} => dir[P] = o /\ Gone(B)
       /\ pc \in {"linked", "safe"} => dir[P] = o /\ dir[B] # Nothing
       /\ pc \in {"renamed", "synced", "published", "reread", "listed", "verified", "rollback", "exchanged"}
             => dir[P] = Nothing
       /\ pc = "unparked" => dir[B] = Nothing
       /\ pc = "cleared" => dir[P] = Nothing /\ dir[B] = Nothing

(* Between its last look and its rename a save still finds what it replaces. *)
Held(j) ==
    LET o == job[j].op
    IN /\ Calm /\ job[j].pc = "safe" => dir[Source] = Expected(o)
       /\ job[j].pc = "parked" => /\ ~AtomicExchange /\ dir[Source] = Nothing
                                  /\ dir[Prepared(o)] = o /\ dir[Backup(o)] = Expected(o)

LocksDisjoint ==
    \A j, k \in Jobs :
        j # k /\ job[j].pc \in DeepPCs /\ job[k].pc \in DeepPCs =>
            /\ {job[j].op, Expected(job[j].op)} \cap {job[k].op, Expected(job[k].op)} = {}
            /\ ~(job[j].pc = "parked" /\ job[k].pc = "parked")

ExpectedBorn == \A o \in Ops : Exists(o) /\ Expected(o) \in Ops => Exists(Expected(o))

DirsSound == \A d \in possible : SoundDir(d)

DiskInv ==
    DirsSound /\ ExpectedBorn /\ LocksDisjoint /\ \A j \in Jobs : Place(j) /\ Held(j)

-------------------------------------------------------------------------------
(* What a step does to the directory keeps it sound. *)

DirStep(o) ==
    \E d \in Directories : BecomesDir(d) /\ Apart(o, d) /\ SoundDir(d)

LEMMA NoDirStep ==
    ASSUME VarsTyped, DirsSound, NEW o, BecomesDir(dir)
    PROVE  DirStep(o)
  BY DEF VarsTyped, DirsSound, DirStep, Apart

LEMMA SaveDir ==
    ASSUME TypeInv, DiskInv, NEW j \in Jobs, Save(j)
    PROVE  DirStep(job[j].op)
  <1> SUFFICES ASSUME NEW o, o = job[j].op PROVE DirStep(o)
    OBVIOUS
  <1> DEFINE P == Prepared(o)
             B == Backup(o)
             x == Expected(o)
  <1>1. /\ VarsTyped /\ dir \in Directories /\ o \in Ops /\ o \in Versions /\ o # Nothing
        /\ Exists(o) /\ x \in Versions /\ x # Nothing /\ P \in Entries /\ B \in Entries
        /\ SoundDir(dir) /\ Place(j) /\ Held(j)
    BY SaveIsEngaged, EngagedRecord DEF TypeInv, VarsTyped, DiskInv, DirsSound
  <1>2. /\ Source \in Visible /\ B \in Visible /\ Source # P /\ B # P
        /\ \A q \in Ops : ~Exists(q) => Source # Backup(q) /\ B # Backup(q)
    BY <1>1, VisibleFacts, EntryFacts
  <1>3. \A e \in Visible : dir[e] \in Ops => Exists(dir[e]) /\ dir[Prepared(dir[e])] # dir[e]
    BY <1>1, SoundPlaces
  <1>4. ASSUME NEW d \in Directories, BecomesDir(d), Apart(o, d), SoundDir(d)
        PROVE  DirStep(o)
    BY <1>4 DEF DirStep
  <1>5. CASE BecomesDir(dir)
    BY <1>1, <1>5, NoDirStep DEF DiskInv
  <1>6. CASE job[j].pc = "created" /\ BecomesDir([dir EXCEPT ![P] = o])
    <2>1. \A e \in Entries : dir[e] # o
      BY <1>1, <1>6 DEF VarsTyped, Place, Unborn
    <2>2. [dir EXCEPT ![P] = o] \in Directories /\ SoundDir([dir EXCEPT ![P] = o])
      BY <1>1, <2>1, PutCopy
    <2>3. Apart(o, [dir EXCEPT ![P] = o])
      BY <1>1, ApartPut
    <2> QED BY <1>4, <1>6, <2>2, <2>3
  <1>7. CASE /\ job[j].pc = "ready" /\ dir[Source] = x
             /\ BecomesDir([dir EXCEPT ![B] = x])
    <2>1. x \in Ops => Exists(x) /\ dir[Prepared(x)] # x
      BY <1>2, <1>3, <1>7
    <2>2. [dir EXCEPT ![B] = x] \in Directories /\ SoundDir([dir EXCEPT ![B] = x])
      BY <1>1, <1>2, <2>1, PutAt
    <2>3. Apart(o, [dir EXCEPT ![B] = x])
      BY <1>1, <1>7, EntryFacts, ApartPut
    <2> QED BY <1>4, <1>7, <2>2, <2>3
  <1>8. ASSUME BecomesDir([dir EXCEPT ![Source] = o, ![P] = Nothing]) PROVE DirStep(o)
    <2> DEFINE c == [dir EXCEPT ![P] = Nothing]
    <2>1. c \in Directories /\ SoundDir(c)
      BY <1>1, PutAway
    <2>2. o \in Ops => Exists(o) /\ c[P] # o
      BY <1>1 DEF Directories
    <2>3. [c EXCEPT ![Source] = o] \in Directories /\ SoundDir([c EXCEPT ![Source] = o])
      <3> HIDE DEF c
      <3> QED BY <1>1, <1>2, <2>1, <2>2, PutAt
    <2>4. [c EXCEPT ![Source] = o] = [dir EXCEPT ![Source] = o, ![P] = Nothing]
      BY <1>1, <1>2 DEF Directories
    <2>5. Apart(o, [dir EXCEPT ![Source] = o, ![P] = Nothing])
      BY <1>1, ApartPut
    <2> QED BY <1>4, <1>8, <2>3, <2>4, <2>5
  <1>9. CASE /\ dir[Source] = o /\ dir[B] = x /\ BecomesDir([dir EXCEPT ![Source] = x, ![B] = o])
    <2> DEFINE c == [dir EXCEPT ![Source] = x]
    <2>1. x \in Ops => Exists(x) /\ dir[Prepared(x)] # x
      BY <1>2, <1>3, <1>9
    <2>2. c \in Directories /\ SoundDir(c) /\ \A q \in Ops : c[Prepared(q)] = dir[Prepared(q)]
      BY <1>1, <1>2, <2>1, PutAt
    <2>3. o \in Ops => Exists(o) /\ c[P] # o
      BY <1>1, <1>2, <1>3, <1>9, <2>2
    <2>4. [c EXCEPT ![B] = o] \in Directories /\ SoundDir([c EXCEPT ![B] = o])
      <3> HIDE DEF c
      <3> QED BY <1>1, <1>2, <2>2, <2>3, PutAt
    <2>5. Apart(o, [dir EXCEPT ![Source] = x, ![B] = o])
      BY <1>1, <1>9, EntryFacts, ApartPut
    <2> QED BY <1>4, <1>9, <2>4, <2>5
  <1>10. CASE /\ dir[Source] = o /\ SingleLinks(o)
              /\ BecomesDir([dir EXCEPT ![Source] = Nothing, ![P] = o])
    <2> DEFINE c == [dir EXCEPT ![Source] = Nothing]
    <2>1. c \in Directories /\ SoundDir(c)
      BY <1>1, PutAway, EntryFacts
    <2>2. \A e \in Entries : c[e] # o
      <3>1. \A e \in Entries : dir[e] = o => e = Source
        BY <1>10, EntryFacts, OneName DEF SingleLinks
      <3> QED BY <1>1, <3>1 DEF Directories
    <2>3. [c EXCEPT ![P] = o] \in Directories /\ SoundDir([c EXCEPT ![P] = o])
      <3> HIDE DEF c
      <3> QED BY <1>1, <2>1, <2>2, PutCopy
    <2>4. Apart(o, [dir EXCEPT ![Source] = Nothing, ![P] = o])
      BY <1>1, ApartPut
    <2> QED BY <1>4, <1>10, <2>3, <2>4
  <1>11. CASE /\ dir[B] = x /\ BecomesDir([dir EXCEPT ![Source] = x, ![B] = Nothing])
    <2> DEFINE c == [dir EXCEPT ![Source] = x]
    <2>1. x \in Ops => Exists(x) /\ dir[Prepared(x)] # x
      BY <1>2, <1>3, <1>11
    <2>2. c \in Directories /\ SoundDir(c)
      BY <1>1, <1>2, <2>1, PutAt
    <2>3. [c EXCEPT ![B] = Nothing] \in Directories /\ SoundDir([c EXCEPT ![B] = Nothing])
      <3> HIDE DEF c
      <3> QED BY <1>1, <2>2, PutAway
    <2>4. Apart(o, [dir EXCEPT ![Source] = x, ![B] = Nothing])
      BY <1>1, <1>11, EntryFacts, ApartPut
    <2> QED BY <1>4, <1>11, <2>3, <2>4
  <1>12. CASE \E e \in {P, B} : BecomesDir([dir EXCEPT ![e] = Nothing])
    <2>1. PICK e \in {P, B} : BecomesDir([dir EXCEPT ![e] = Nothing])
      BY <1>12
    <2>2. [dir EXCEPT ![e] = Nothing] \in Directories /\ SoundDir([dir EXCEPT ![e] = Nothing])
      BY <1>1, PutAway
    <2>3. Apart(o, [dir EXCEPT ![e] = Nothing])
      BY <1>1, ApartPut
    <2> QED BY <1>4, <2>1, <2>2, <2>3
  <1>13. job[j].pc = "parked" => dir[B] = x
    BY <1>1 DEF Held
  <1> QED BY <1>5, <1>6, <1>7, <1>8, <1>9, <1>10, <1>11, <1>12, <1>13, SaveRenames
       DEF SaveDisk, Published

LEMMA UndoDir ==
    ASSUME TypeInv, DiskInv, NEW j \in Jobs, Undo(j)
    PROVE  DirStep(job[j].op)
  <1> SUFFICES ASSUME NEW o, o = job[j].op PROVE DirStep(o)
    OBVIOUS
  <1> DEFINE B == Backup(o)
             x == Expected(o)
  <1>1. /\ VarsTyped /\ dir \in Directories /\ o \in Ops /\ o \in Versions /\ o # Nothing
        /\ Exists(o) /\ x \in Versions /\ B \in Entries
        /\ SoundDir(dir)
    BY UndoIsPlaced, UndoRecord, EntryFacts DEF TypeInv, VarsTyped, DiskInv, DirsSound
  <1>2. /\ Source \in Visible /\ B \in Visible /\ Source # B
        /\ \A q \in Ops : ~Exists(q) => Source # Backup(q) /\ B # Backup(q)
    BY <1>1, VisibleFacts, EntryFacts
  <1>3. \A e \in Visible : dir[e] \in Ops => Exists(dir[e]) /\ dir[Prepared(dir[e])] # dir[e]
    BY <1>1, SoundPlaces
  <1>4. ASSUME NEW d \in Directories, BecomesDir(d), Apart(o, d), SoundDir(d)
        PROVE  DirStep(o)
    BY <1>4 DEF DirStep
  <1>5. CASE BecomesDir(dir)
    BY <1>1, <1>5, NoDirStep DEF DiskInv
  <1>6. ASSUME NEW v, NEW w, v = dir[B], w = dir[Source],
               BecomesDir([dir EXCEPT ![Source] = v, ![B] = w])
        PROVE  DirStep(o)
    <2> DEFINE c == [dir EXCEPT ![Source] = v]
    <2>1. /\ v \in Versions \cup {Nothing} /\ w \in Versions \cup {Nothing}
          /\ v \in Ops => Exists(v) /\ dir[Prepared(v)] # v
          /\ w \in Ops => Exists(w) /\ dir[Prepared(w)] # w
      BY <1>1, <1>2, <1>3, <1>6, VisibleFacts DEF Directories
    <2>2. c \in Directories /\ SoundDir(c) /\ \A q \in Ops : c[Prepared(q)] = dir[Prepared(q)]
      BY <1>1, <1>2, <2>1, PutAt
    <2>3. w \in Ops => Exists(w) /\ c[Prepared(w)] # w
      BY <2>1, <2>2
    <2>4. [c EXCEPT ![B] = w] \in Directories /\ SoundDir([c EXCEPT ![B] = w])
      <3> HIDE DEF c
      <3> QED BY <1>1, <1>2, <2>1, <2>2, <2>3, PutAt
    <2>5. Apart(o, [dir EXCEPT ![Source] = v, ![B] = w])
      BY <1>1, <1>6, EntryFacts, ApartPut
    <2> QED BY <1>4, <1>6, <2>4, <2>5
  <1>7. CASE Published(o) /\ BecomesDir([dir EXCEPT ![Source] = x, ![B] = o])
    BY <1>6, <1>7 DEF Published
  <1>8. CASE BecomesDir([dir EXCEPT ![Source] = dir[B], ![B] = dir[Source]])
    BY <1>6, <1>8
  <1>9. CASE BecomesDir([dir EXCEPT ![B] = Nothing])
    <2>1. [dir EXCEPT ![B] = Nothing] \in Directories /\ SoundDir([dir EXCEPT ![B] = Nothing])
      BY <1>1, PutAway
    <2>2. Apart(o, [dir EXCEPT ![B] = Nothing])
      BY <1>1, ApartPut
    <2> QED BY <1>4, <1>9, <2>1, <2>2
  <1> QED BY <1>5, <1>7, <1>8, <1>9, UndoRenames DEF UndoDisk

LEMMA RecoverDir ==
    ASSUME TypeInv, DiskInv, Recover
    PROVE  \/ BecomesDir(dir)
           \/ /\ job[Recovery].op \in Ops /\ backups[job[Recovery].op] = "retained"
              /\ job[Recovery].pc \in ExpiryPCs \cup {"expire"}
              /\ \E d \in Directories : /\ BecomesDir(d) /\ Apart(job[Recovery].op, d) /\ SoundDir(d)
                                        /\ d[Source] = dir[Source]
  <1> SUFFICES ASSUME NEW o, o = job[Recovery].op
               PROVE  \/ BecomesDir(dir)
                      \/ /\ o \in Ops /\ backups[o] = "retained"
                         /\ job[Recovery].pc \in ExpiryPCs \cup {"expire"}
                         /\ \E d \in Directories : /\ BecomesDir(d) /\ Apart(o, d) /\ SoundDir(d)
                                                   /\ d[Source] = dir[Source]
    OBVIOUS
  <1>1. VarsTyped /\ dir \in Directories /\ SoundDir(dir)
    BY DEF TypeInv, VarsTyped, DiskInv, DirsSound
  <1>2. \/ UNCHANGED disk
        \/ /\ o \in Ops /\ backups[o] = "retained"
           /\ job[Recovery].pc \in ExpiryPCs \cup {"expire"}
           /\ BecomesDir([dir EXCEPT ![Backup(o)] = Nothing])
    BY RecoverMoves DEF RecoverForm
  <1>3. CASE UNCHANGED disk
    BY <1>1, <1>3, SyncForms
  <1>4. CASE /\ o \in Ops /\ backups[o] = "retained"
             /\ job[Recovery].pc \in ExpiryPCs \cup {"expire"}
             /\ BecomesDir([dir EXCEPT ![Backup(o)] = Nothing])
    <2> DEFINE d == [dir EXCEPT ![Backup(o)] = Nothing]
    <2>1. d \in Directories /\ SoundDir(d)
      BY <1>1, <1>4, PutAway, EntryFacts
    <2>2. Apart(o, d)
      BY <1>1, <1>4, ApartPut
    <2>3. d[Source] = dir[Source]
      BY <1>1, <1>4, EntryFacts DEF Directories
    <2> HIDE DEF d
    <2> QED BY <1>4, <2>1, <2>2, <2>3 DEF d
  <1> QED BY <1>2, <1>3, <1>4

(* A foreign version is new: it is no operation's, and the renamed and the *)
(* rewritten file leave every hidden sibling where it is.                  *)
LEMMA EditDir ==
    ASSUME TypeInv, DiskInv, Edit
    PROVE  DirStep(0)
  <1>1. PICK d \in Directories : EditedDir(d) /\ BecomesDir(d)
    BY EditForm
  <1>2. VarsTyped /\ dir \in Directories /\ SoundDir(dir)
    BY DEF TypeInv, VarsTyped, DiskInv, DirsSound
  <1>3. PICK v \in Foreign : /\ dir[Source] # Nothing
                             /\ \/ d = [dir EXCEPT ![Source] = v]
                                \/ d = [e \in Entries |-> IF dir[e] = dir[Source] THEN v ELSE dir[e]]
    BY <1>1 DEF EditedDir
  <1>4. v \notin Ops /\ v # Nothing /\ v \in Versions /\ 0 \notin Ops
    BY OpsAreVersions
  <1>5. \A e \in Entries : /\ d[e] = dir[e] \/ (d[e] = v /\ dir[e] = dir[Source])
                           /\ e = Source => d[e] = v
    BY <1>2, <1>3, EntryFacts DEF Directories
  <1>6. ASSUME NEW o \in Ops
        PROVE  /\ dir[Prepared(o)] # dir[Source] /\ d[Prepared(o)] = dir[Prepared(o)]
               /\ d[Backup(o)] = Nothing <=> dir[Backup(o)] = Nothing
    <2>1. /\ Prepared(o) \in Entries /\ Backup(o) \in Entries /\ Source \in Entries
          /\ Source # Prepared(o)
      BY EntryFacts
    <2>2. dir[Prepared(o)] # dir[Source]
      BY <1>2, <1>3, <2>1 DEF SoundDir, Alone
    <2> QED BY <1>3, <1>4, <1>5, <2>1, <2>2
  <1>7. SoundDir(d)
    <2>1. ASSUME NEW o \in Ops PROVE Alone(o, d) /\ (~Exists(o) => Unborn(o, d))
      <3>1. Prepared(o) \in Entries /\ Backup(o) \in Entries
        BY EntryFacts
      <3>2. \A e \in Entries : d[e] = o => dir[e] = o
        BY <1>4, <1>5
      <3> QED BY <1>2, <1>6, <3>1, <3>2 DEF SoundDir, Alone, Unborn
    <2> QED BY <2>1 DEF SoundDir
  <1>8. Apart(0, d)
    BY <1>5, <1>6 DEF Apart
  <1> QED BY <1>1, <1>7, <1>8 DEF DirStep

LEMMA MoveDir ==
    ASSUME TypeInv, DiskInv, Move
    PROVE  DirStep(0)
  <1> DEFINE d == [dir EXCEPT ![Source] = Nothing]
  <1>1. VarsTyped /\ dir \in Directories /\ SoundDir(dir)
    BY DEF TypeInv, VarsTyped, DiskInv, DirsSound
  <1>2. d \in Directories /\ SoundDir(d)
    BY <1>1, PutAway, EntryFacts
  <1>3. \A e \in Entries : d[e] = IF e = Source THEN Nothing ELSE dir[e]
    BY <1>1 DEF Directories
  <1>4. BecomesDir(d)
    BY MoveForm
  <1> HIDE DEF d
  <1>5. Apart(0, d)
    BY <1>3, EntryFacts DEF Apart
  <1> QED BY <1>2, <1>4, <1>5 DEF DirStep

-------------------------------------------------------------------------------
(* What a step leaves of a place: first of the places of other threads.    *)

LEMMA DisksGrow ==
    ASSUME VarsTyped, NEW d \in Directories, BecomesDir(d)
    PROVE  dir' = d /\ Disks' \subseteq Disks \cup {d} /\ dir' \in Disks' /\ dir \in Disks
  BY DEF VarsTyped, BecomesDir, Disks

LEMMA DirsStay ==
    ASSUME DirsSound, NEW o, DirStep(o), \A q \in Ops : Exists(q) => Exists(q)'
    PROVE  DirsSound'
  <1>1. PICK d \in Directories : BecomesDir(d) /\ SoundDir(d)
    BY DEF DirStep
  <1>2. ASSUME NEW c \in possible' PROVE SoundDir(c)'
    <2>1. SoundDir(c)
      BY <1>1, <1>2 DEF DirsSound, BecomesDir
    <2> QED BY <2>1 DEF SoundDir, Alone, Unborn, Prepared, Backup, Entries, Source
  <1> QED BY <1>2 DEF DirsSound

LEMMA OthersStay ==
    ASSUME TypeInv, DiskInv, NEW k \in Jobs, job'[k] = job[k],
           NEW o, o # job[k].op \/ job[k].pc \notin SavePCs, DirStep(o)
    PROVE  Place(k)'
  <1> SUFFICES ASSUME NEW q, q = job[k].op PROVE Place(k)'
    OBVIOUS
  <1>1. PICK d \in Directories : BecomesDir(d) /\ Apart(o, d)
    BY DEF DirStep
  <1>2. CASE job[k].pc \notin SavePCs
    BY <1>2 DEF Place, SavePCs, CommitPCs, CleanPCs
  <1>3. CASE job[k].pc \in SavePCs
    <2>1. /\ VarsTyped /\ q \in Ops /\ Prepared(q) \in Entries /\ Backup(q) \in Entries
          /\ Place(k) /\ q # Nothing /\ q \notin Foreign /\ q # o
      BY <1>3, EngagedRecord, OpsAreVersions DEF TypeInv, DiskInv
    <2>2. dir' = d /\ Disks' \subseteq Disks \cup {d} /\ dir \in Disks /\ dir \in possible
          /\ possible' \subseteq possible \cup {d}
      BY <1>1, <2>1, DisksGrow DEF BecomesDir, VarsTyped
    <2>3. /\ d[Prepared(q)] = dir[Prepared(q)]
          /\ d[Backup(q)] = Nothing <=> dir[Backup(q)] = Nothing
      BY <1>1, <2>1 DEF Apart
    <2>4. Gone(Backup(q)) => \A c \in Disks' : c[Backup(q)] = Nothing
      BY <2>2, <2>3 DEF Gone
    <2>5. (\A c \in possible : Unborn(q, c)) => \A c \in possible' : Unborn(q, c)
      <3>1. ASSUME Unborn(q, dir) PROVE Unborn(q, d)
        <4>1. ASSUME NEW e \in Entries PROVE d[e] # q
          <5>1. \/ d[e] \in {o, Nothing} \cup Foreign
                \/ \E x \in Entries : d[e] = dir[x]
            BY <1>1 DEF Apart
          <5> QED BY <2>1, <3>1, <5>1 DEF Unborn
        <4> QED BY <2>3, <3>1, <4>1 DEF Unborn
      <3> QED BY <2>2, <3>1
    <2>6. (\A c \in possible' : Unborn(q, c)) => \A c \in possible' : Unborn(q, c)'
      BY DEF Unborn, Prepared, Backup, Entries, Source
    <2>7. (\A c \in Disks' : c[Backup(q)] = Nothing) => Gone(Backup(q))'
      BY DEF Gone, Backup
    <2>8. job'[k].op = q /\ job'[k].pc = job[k].pc
      OBVIOUS
    <2>9. Prepared(job[k].op)' = Prepared(q) /\ Backup(job[k].op)' = Backup(q)
      BY <2>8 DEF Prepared, Backup
    <2>10. Gone(Backup(job[k].op))' = Gone(Backup(q))'
      BY <2>8 DEF Gone, Backup
    <2> QED BY <2>1, <2>2, <2>3, <2>4, <2>5, <2>6, <2>7, <2>8, <2>9 DEF Place
  <1> QED BY <1>2, <1>3

(* The thread's own place.  P, B and S are what the directory names after  *)
(* the step at the copy, at the backup and at the source.                  *)
OwnPlace(j) ==
    LET o == job[j].op
        pc == job'[j].pc
        P == dir'[Prepared(o)]
        B == dir'[Backup(o)]
        S == dir'[Source]
    IN /\ pc # "created"
       /\ pc \in {"copied", "ready"} => P = o /\ \A d \in Disks' : d[Backup(o)] = Nothing
       /\ pc \in {"linked", "safe"} => P = o /\ B # Nothing
       /\ pc \in {"renamed", "synced", "published", "reread", "listed", "verified", "rollback", "exchanged"}
             => P = Nothing
       /\ pc = "unparked" => B = Nothing
       /\ pc = "cleared" => P = Nothing /\ B = Nothing
       /\ pc = "safe" => S = Expected(o)
       /\ pc = "parked" => /\ ~AtomicExchange /\ S = Nothing /\ P = o /\ B = Expected(o)
                           /\ dir[Source] = o
       /\ pc \in DeepPCs => job[j].pc \in DeepPCs

LEMMA SaveOwn == ASSUME TypeInv, DiskInv, NEW j \in Jobs, Save(j) PROVE OwnPlace(j)
  <1> SUFFICES ASSUME NEW o, o = job[j].op PROVE OwnPlace(j)
    OBVIOUS
  <1> DEFINE P == Prepared(o)
             B == Backup(o)
             x == Expected(o)
  <1>1. /\ VarsTyped /\ o \in Ops /\ o # Nothing /\ x # Nothing /\ P \in Entries /\ B \in Entries
        /\ dir \in Directories /\ job \in [Jobs -> Thread] /\ job[j] \in Thread
        /\ Place(j) /\ Held(j)
    BY SaveIsEngaged, EngagedRecord DEF TypeInv, VarsTyped, DiskInv
  <1>2. Source \in Entries /\ P # B /\ Source # P /\ Source # B
    BY <1>1, EntryFacts
  <1>4. \A t : Becomes(j, t) => job'[j] = t
    BY <1>1 DEF Becomes
  <1>5. \A pc : Goto(j, pc) => job'[j].pc = pc
    BY <1>1, <1>4 DEF Goto, Thread
  <1>6. \A pc, known, todo : /\ At(pc, o, known).pc = pc /\ DropAt(o, known, todo).pc = "drop"
                             /\ Scan(pc, o).pc = pc /\ Idle.pc = "idle"
    BY DEF At, DropAt, Scan, Idle
  <1>7. \A pc : pc \in DeepPCs <=> pc \in {"created", "copied", "ready", "linked", "safe", "renamed",
                  "synced", "published", "reread", "listed", "verified", "rollback", "exchanged", "parked",
                  "unparked", "cleared"}
    BY DEF DeepPCs, SavePCs, CommitPCs, CleanPCs
  <1>8. /\ job[j].pc \in {"copied", "ready"} => dir[P] = o /\ \A d \in Disks : d[B] = Nothing
        /\ job[j].pc \in {"linked", "safe"} => dir[P] = o /\ dir[B] # Nothing
        /\ job[j].pc \in {"renamed", "synced", "published", "reread", "listed", "verified", "rollback", "exchanged"}
              => dir[P] = Nothing
        /\ job[j].pc = "unparked" => dir[B] = Nothing
        /\ job[j].pc = "created" => \A d \in possible : Unborn(o, d)
    BY <1>1 DEF Place, Gone
  <1> DEFINE To(pc) == job'[j].pc = pc
  <1>9. (\E pc \in {"drop", "stuck", "abort", "idle", "scan"} : To(pc)) => OwnPlace(j)
    BY <1>7 DEF OwnPlace
  <1>10. UNCHANGED dir => /\ dir'[P] = dir[P] /\ dir'[B] = dir[B] /\ dir'[Source] = dir[Source]
    OBVIOUS
  <1>11. CASE Prepare(j)
    <2>1. CASE To("abort")
      BY <1>9, <2>1
    <2>2. CASE To("copied") /\ Unsynced([dir EXCEPT ![P] = o])
      <3>1. dir'[P] = o
        BY <1>1, <1>2, <2>2 DEF Unsynced, Directories
      <3>2. \A d \in possible' : d[B] = Nothing
        <4>1. \A d \in possible : d[B] = Nothing
          BY <1>8, <1>11 DEF Prepare, Unborn
        <4>2. [dir EXCEPT ![P] = o][B] = Nothing
          BY <1>1, <1>2, <4>1 DEF VarsTyped, Directories
        <4> QED BY <2>2, <4>1, <4>2 DEF Unsynced
      <3>3. \A d \in Disks' : d[B] = Nothing
        BY <2>2, <3>2 DEF Disks, Unsynced
      <3> QED BY <1>7, <1>11, <2>2, <3>1, <3>3 DEF OwnPlace, Prepare
    <2> QED BY <1>5, <1>11, <2>1, <2>2 DEF Prepare
  <1>12. CASE RecordPrepared(j)
    <2>1. UNCHANGED disk /\ job[j].pc = "copied" /\ (To("ready") \/ To("drop"))
      BY <1>4, <1>6, <1>12 DEF RecordPrepared
    <2>2. Disks' = Disks
      BY <2>1 DEF Disks, disk
    <2> QED BY <1>7, <1>8, <1>9, <1>10, <2>1, <2>2 DEF OwnPlace, disk
  <1>13. CASE LinkBackup(j)
    <2>1. CASE To("drop")
      BY <1>9, <2>1
    <2>2. CASE To("linked") /\ Unsynced([dir EXCEPT ![B] = x])
      <3>1. dir'[P] = dir[P] /\ dir'[B] = x
        BY <1>1, <1>2, <2>2 DEF Unsynced, Directories
      <3> QED BY <1>1, <1>7, <1>8, <1>13, <2>2, <3>1 DEF OwnPlace, LinkBackup
    <2> QED BY <1>4, <1>5, <1>6, <1>13, <2>1, <2>2 DEF LinkBackup
  <1>14. CASE ConfirmBackup(j)
    <2>1. CASE To("drop")
      BY <1>9, <2>1
    <2>2. CASE To("safe") /\ dir[Source] = x /\ UNCHANGED dir
      BY <1>7, <1>8, <1>10, <1>14, <2>2 DEF OwnPlace, ConfirmBackup
    <2> QED BY <1>4, <1>5, <1>6, <1>14, <2>1, <2>2 DEF ConfirmBackup
  <1>15. CASE PublishCopy(j)
    <2>1. CASE To("drop")
      BY <1>9, <2>1
    <2>2. CASE To("renamed") /\ Unsynced([dir EXCEPT ![Source] = o, ![P] = Nothing])
      <3>1. dir'[P] = Nothing
        BY <1>1, <1>2, <2>2 DEF Unsynced, Directories
      <3> QED BY <1>7, <1>15, <2>2, <3>1 DEF OwnPlace, PublishCopy
    <2> QED BY <1>4, <1>5, <1>6, <1>15, <2>1, <2>2 DEF PublishCopy
  <1>16. CASE SyncSource(j) \/ RecordPublished(j) \/ Reread(j) \/ CommitDependents(j)
              \/ CheckAgain(j) \/ Complete(j)
    <2>1. /\ UNCHANGED dir /\ job[j].pc \in {"renamed", "synced", "published", "reread", "listed", "verified"}
          /\ \E pc \in {"rollback", "synced", "published", "reread", "listed", "verified", "stuck",
                          "idle", "scan"} : To(pc)
      <3>1. CASE SyncSource(j) \/ Reread(j) \/ CommitDependents(j) \/ CheckAgain(j)
        BY <1>5, <3>1 DEF SyncSource, Reread, CommitDependents, CheckAgain, disk
      <3>2. CASE RecordPublished(j)
        BY <1>4, <1>5, <1>6, <3>2 DEF RecordPublished, disk
      <3>3. CASE Complete(j)
        BY <1>4, <1>5, <1>6, <3>3 DEF Complete, Done, Return, disk
      <3> QED BY <1>16, <3>1, <3>2, <3>3
    <2> QED BY <1>7, <1>8, <1>9, <1>10, <2>1 DEF OwnPlace
  <1>17. CASE Drop(j) \/ Dropped(j) \/ SyncRollBack(j) \/ Fail(j)
    <2>1. CASE Drop(j)
      <3>1. [job[j] EXCEPT !.todo = Tail(job[j].todo)].pc = job[j].pc
            /\ [[job[j] EXCEPT !.todo = Tail(job[j].todo)] EXCEPT !.ok = FALSE].pc = job[j].pc
        BY <1>1 DEF Thread
      <3> QED BY <1>4, <1>9, <2>1, <3>1 DEF Drop
    <2>2. CASE Dropped(j) \/ SyncRollBack(j)
      BY <1>5, <1>9, <2>2 DEF Dropped, SyncRollBack
    <2>3. CASE Fail(j)
      BY <1>4, <1>6, <1>9, <2>3 DEF Fail, Done, Return
    <2> QED BY <1>17, <2>1, <2>2, <2>3
  <1>18. CASE RollBack(j)
    <2>1. CASE To("stuck")
      BY <1>9, <2>1
    <2>2. CASE To("exchanged") /\ Unsynced([dir EXCEPT ![Source] = x, ![B] = o])
      <3>1. dir'[P] = dir[P]
        BY <1>1, <1>2, <2>2 DEF Unsynced, Directories
      <3> QED BY <1>7, <1>8, <1>18, <2>2, <3>1 DEF OwnPlace, RollBack
    <2>3. CASE /\ To("parked") /\ Published(o) /\ ~AtomicExchange
               /\ Unsynced([dir EXCEPT ![Source] = Nothing, ![P] = o])
      <3>1. dir'[P] = o /\ dir'[B] = dir[B] /\ dir'[Source] = Nothing
        BY <1>1, <1>2, <2>3 DEF Unsynced, Directories
      <3> QED BY <1>7, <1>18, <2>3, <3>1 DEF OwnPlace, RollBack, Published
    <2> QED BY <1>4, <1>5, <1>6, <1>18, <2>1, <2>2, <2>3 DEF RollBack
  <1>19. CASE Unpark(j)
    <2>1. CASE To("stuck")
      BY <1>9, <2>1
    <2>2. CASE To("unparked") /\ Unsynced([dir EXCEPT ![Source] = x, ![B] = Nothing])
      <3>1. dir'[B] = Nothing
        BY <1>1, <1>2, <2>2 DEF Unsynced, Directories
      <3> QED BY <1>7, <1>19, <2>2, <3>1 DEF OwnPlace, Unpark
    <2> QED BY <1>4, <1>5, <1>6, <1>19, <2>1, <2>2 DEF Unpark
  <1>20. CASE RemoveFailed(j)
    <2>1. CASE To("stuck")
      BY <1>9, <2>1
    <2>2. CASE /\ To("cleared") /\ job[j].pc \in {"exchanged", "unparked"}
               /\ Unsynced([dir EXCEPT ![IF job[j].pc = "exchanged" THEN B ELSE P] = Nothing])
      <3>1. CASE job[j].pc = "exchanged"
        <4>1. dir'[B] = Nothing /\ dir'[P] = dir[P]
          BY <1>1, <1>2, <2>2, <3>1 DEF Unsynced, Directories
        <4> QED BY <1>7, <1>8, <2>2, <3>1, <4>1 DEF OwnPlace
      <3>2. CASE job[j].pc = "unparked"
        <4>1. dir'[P] = Nothing /\ dir'[B] = dir[B]
          BY <1>1, <1>2, <2>2, <3>2 DEF Unsynced, Directories
        <4> QED BY <1>7, <1>8, <2>2, <3>2, <4>1 DEF OwnPlace
      <3> QED BY <2>2, <3>1, <3>2
    <2> QED BY <1>4, <1>5, <1>6, <1>20, <2>1, <2>2 DEF RemoveFailed
  <1> QED BY <1>11, <1>12, <1>13, <1>14, <1>15, <1>16, <1>17, <1>18, <1>19, <1>20 DEF Save

(* While one save is between its last look and its rename no other save    *)
(* renames the file.                                                       *)
LEMMA SourceKept ==
    ASSUME TypeInv, DiskInv, NEW j \in Jobs, NEW k \in Jobs, j # k, Save(j),
           job[k].pc = "parked" \/ (Calm /\ job[k].pc = "safe")
    PROVE  LET q == job[k].op
           IN /\ dir'[Source] = dir[Source] /\ dir'[Prepared(q)] = dir[Prepared(q)]
              /\ dir'[Backup(q)] = dir[Backup(q)]
  <1> SUFFICES ASSUME NEW o, o = job[j].op, NEW q, q = job[k].op
               PROVE  /\ dir'[Source] = dir[Source] /\ dir'[Prepared(q)] = dir[Prepared(q)]
                      /\ dir'[Backup(q)] = dir[Backup(q)]
    OBVIOUS
  <1>1. /\ VarsTyped /\ dir \in Directories /\ o \in Ops /\ o # Nothing
        /\ Expected(o) # Nothing /\ Held(j) /\ job[j].pc \in SavePCs
    BY SaveIsEngaged, EngagedRecord DEF TypeInv, VarsTyped, DiskInv
  <1>2. job[k].pc \in SavePCs /\ job[k].pc \in DeepPCs
    BY DEF DeepPCs, SavePCs, CommitPCs, CleanPCs
  <1>3. q \in Ops /\ q # Nothing /\ Expected(q) # Nothing /\ Held(k) /\ o # q
    BY <1>1, <1>2, EngagedRecord DEF DiskInv, TypeInv, OneThread
  <1>4. /\ Source \in Entries /\ Prepared(o) \in Entries /\ Backup(o) \in Entries
        /\ Prepared(q) \in Entries /\ Backup(q) \in Entries
        /\ Source \notin {Prepared(o), Backup(o), Prepared(q), Backup(q)}
        /\ {Prepared(o), Backup(o)} \cap {Prepared(q), Backup(q)} = {}
    BY <1>1, <1>3, EntryFacts
  <1>5. Calm
    BY <1>3 DEF Held, Calm
  <1>6. job[j].pc \in DeepPCs => /\ {o, Expected(o)} \cap {q, Expected(q)} = {}
                                 /\ ~(job[j].pc = "parked" /\ job[k].pc = "parked")
    BY <1>2 DEF DiskInv, LocksDisjoint
  <1>7. dir[Source] = Nothing \/ dir[Source] = Expected(q)
    BY <1>3 DEF Held
  <1>8. /\ job[j].pc = "safe" => dir[Source] = Expected(o)
        /\ job[j].pc = "parked" => dir[Source] = Nothing
    BY <1>1, <1>5 DEF Held
  <1>9. {"safe", "rollback", "parked"} \subseteq DeepPCs
    BY DEF DeepPCs, SavePCs, CommitPCs, CleanPCs
  <1>10. job[j].pc # "safe"
    BY <1>1, <1>3, <1>6, <1>7, <1>8, <1>9
  <1>11. ~(job[j].pc = "rollback" /\ Published(o))
    BY <1>1, <1>3, <1>6, <1>7, <1>9 DEF Published
  <1>12. job[j].pc # "parked"
    <2>1. job[k].pc = "safe" => dir[Source] = Expected(q)
      BY <1>3, <1>5 DEF Held
    <2> QED BY <1>3, <1>6, <1>8, <1>9, <2>1
  <1>13. \/ BecomesDir(dir)
         \/ \E e \in {Prepared(o), Backup(o)}, v \in {o, Expected(o), Nothing} :
               BecomesDir([dir EXCEPT ![e] = v])
    BY <1>10, <1>11, <1>12, SaveRenames DEF SaveDisk
  <1> QED BY ZenonT(60), <1>1, <1>4, <1>13 DEF BecomesDir, Directories

LEMMA SaveKeepsDisk == ASSUME TypeInv, DiskInv, NEW j \in Jobs, Save(j) PROVE DiskInv'
  <1> SUFFICES ASSUME NEW o, o = job[j].op PROVE DiskInv'
    OBVIOUS
  <1>1. /\ VarsTyped /\ o \in Ops /\ job[j].pc \in SavePCs /\ Exists(o) /\ o # Nothing
        /\ DirsSound /\ ExpectedBorn /\ LocksDisjoint
        /\ \A k \in Jobs : Place(k) /\ Held(k)
    BY SaveIsEngaged, EngagedRecord DEF TypeInv, DiskInv
  <1>2. /\ \A k \in Jobs \ {j} : job'[k] = job[k]
        /\ job'[j].pc \in SavePCs => job'[j].op = o
    BY SaveMoves
  <1>3. /\ \A q \in Ops : Exists(q)' <=> Exists(q)
        /\ \A q \in Ops : Exists(q) => Expected(q)' = Expected(q)
    BY SaveEvidence DEF Onward
  <1>4. OwnPlace(j)
    BY SaveOwn
  <1>5. DirsSound'
    <2>1. DirStep(o)
      BY SaveDir
    <2> QED BY <1>1, <1>3, <2>1, DirsStay
  <1>6. ExpectedBorn'
    BY <1>1, <1>3 DEF ExpectedBorn
  <1>7. \A k \in Jobs : job[k].pc \in SavePCs => job[k].op \in Ops /\ Exists(job[k].op)
    BY EngagedRecord
  <1>8. DeepPCs \subseteq SavePCs
    BY DEF DeepPCs
  <1>9. LocksDisjoint'
    <2> SUFFICES ASSUME NEW k \in Jobs, NEW l \in Jobs, k # l,
                        job'[k].pc \in DeepPCs, job'[l].pc \in DeepPCs
                 PROVE  /\ {job'[k].op, Expected(job[k].op)'} \cap {job'[l].op, Expected(job[l].op)'} = {}
                        /\ ~(job'[k].pc = "parked" /\ job'[l].pc = "parked")
      BY DEF LocksDisjoint
    <2>1. \A i \in Jobs : job'[i].pc \in DeepPCs =>
             /\ job[i].pc \in DeepPCs /\ job'[i].op = job[i].op
             /\ Expected(job[i].op)' = Expected(job[i].op)
      <3> SUFFICES ASSUME NEW i \in Jobs, job'[i].pc \in DeepPCs, NEW q, q = job[i].op
                   PROVE  /\ job[i].pc \in DeepPCs /\ job'[i].op = q
                          /\ Expected(job[i].op)' = Expected(q)
        OBVIOUS
      <3>1. job[i].pc \in DeepPCs /\ job'[i].op = q
        BY <1>2, <1>4, <1>8 DEF OwnPlace
      <3>2. q \in Ops /\ Expected(q)' = Expected(q)
        BY <1>3, <1>7, <1>8, <3>1
      <3> QED BY <3>1, <3>2 DEF Expected
    <2>2. {job'[k].op, Expected(job[k].op)'} \cap {job'[l].op, Expected(job[l].op)'} = {}
      BY <1>1, <2>1 DEF LocksDisjoint
    <2>3. ASSUME NEW i \in Jobs \ {j}, job'[i].pc = "parked", job'[j].pc = "parked" PROVE FALSE
      <3>1. job[i].pc = "parked" /\ dir[Source] = Nothing
        BY <1>1, <1>2, <2>3 DEF Held
      <3> QED BY <1>1, <1>4, <2>3, <3>1 DEF OwnPlace
    <2>4. k # j /\ l # j => ~(job'[k].pc = "parked" /\ job'[l].pc = "parked")
      BY <1>1, <1>2, <2>1 DEF LocksDisjoint
    <2> QED BY <2>2, <2>3, <2>4
  <1>10. Place(j)' /\ Held(j)'
    <2>1. CASE job'[j].pc \notin SavePCs
      BY <2>1 DEF Place, Held, SavePCs, CommitPCs, CleanPCs
    <2>2. CASE job'[j].pc \in SavePCs
      <3>1. /\ job'[j].op = o /\ Expected(o)' = Expected(o)
        BY <1>1, <1>2, <1>3, <2>2
      <3>2. /\ Prepared(job[j].op)' = Prepared(o) /\ Backup(job[j].op)' = Backup(o)
            /\ Expected(job[j].op)' = Expected(o)
        BY <3>1 DEF Prepared, Backup, Expected
      <3>3. Gone(Backup(job[j].op))' <=> \A d \in Disks' : d[Backup(o)] = Nothing
        BY <3>2 DEF Gone
      <3>4. Place(j)'
        BY <1>4, <3>1, <3>2, <3>3 DEF Place, OwnPlace
      <3>5. Held(j)'
        BY <1>4, <3>1, <3>2 DEF Held, OwnPlace
      <3> QED BY <3>4, <3>5
    <2> QED BY <2>1, <2>2
  <1>11. ASSUME NEW k \in Jobs \ {j} PROVE Place(k)' /\ Held(k)'
    <2> SUFFICES ASSUME NEW q, q = job[k].op PROVE Place(k)' /\ Held(k)'
      OBVIOUS
    <2>1. job'[k] = job[k] /\ (job[k].pc \in SavePCs => q # o /\ q \in Ops /\ Expected(q)' = Expected(q))
      BY <1>1, <1>2, <1>3, <1>7 DEF TypeInv, OneThread
    <2>2. DirStep(o)
      BY SaveDir
    <2>3. Place(k)'
      BY <2>1, <2>2, OthersStay
    <2>4. Held(k)'
      <3>1. CASE job[k].pc = "parked" \/ (Calm /\ job[k].pc = "safe")
        <4>1. /\ dir'[Source] = dir[Source] /\ dir'[Prepared(q)] = dir[Prepared(q)]
              /\ dir'[Backup(q)] = dir[Backup(q)]
          BY <3>1, SourceKept
        <4>2. /\ Prepared(job[k].op)' = Prepared(q) /\ Backup(job[k].op)' = Backup(q)
              /\ Expected(job[k].op)' = Expected(q)
          <5>1. job[k].pc \in SavePCs
            BY <3>1 DEF SavePCs, CommitPCs, CleanPCs
          <5> QED BY <2>1, <5>1 DEF Prepared, Backup, Expected
        <4> QED BY <1>1, <2>1, <4>1, <4>2 DEF Held
      <3>2. CASE ~(job[k].pc = "parked" \/ (Calm /\ job[k].pc = "safe"))
        BY <2>1, <3>2 DEF Held, Calm
      <3> QED BY <3>1, <3>2
    <2> QED BY <2>3, <2>4
  <1> QED BY <1>5, <1>6, <1>9, <1>10, <1>11 DEF DiskInv

-------------------------------------------------------------------------------
(* The same for a step that is not of a save. *)

LEMMA AsideKeepsDisk ==
    ASSUME TypeInv, DiskInv, UNCHANGED journal, NEW o, DirStep(o),
           \A k \in Jobs : \/ job'[k] = job[k] /\ (job[k].pc \in SavePCs => job[k].op # o)
                           \/ job'[k].pc \notin SavePCs
                           \/ job'[k].pc \in {"drop", "stuck"},
           \A k \in Jobs :
              job[k].pc = "parked" \/ (Calm /\ job[k].pc = "safe") =>
                 /\ dir'[Source] = dir[Source]
                 /\ dir'[Prepared(job[k].op)] = dir[Prepared(job[k].op)]
                 /\ dir'[Backup(job[k].op)] = dir[Backup(job[k].op)]
    PROVE  DiskInv'
  <1>1. /\ VarsTyped /\ DirsSound /\ ExpectedBorn /\ LocksDisjoint
        /\ \A k \in Jobs : Place(k) /\ Held(k)
    BY DEF TypeInv, DiskInv
  <1>2. /\ \A q : Exists(q)' <=> Exists(q)
        /\ \A q : Expected(q)' = Expected(q)
    BY DEF Exists, Expected
  <1>3. DirsSound'
    BY <1>1, <1>2, DirsStay
  <1>4. ExpectedBorn'
    BY <1>1, <1>2 DEF ExpectedBorn
  <1>5. ASSUME NEW k \in Jobs, job'[k].pc \notin SavePCs \/ job'[k].pc \in {"drop", "stuck"}
        PROVE  Place(k)' /\ Held(k)' /\ job'[k].pc \notin DeepPCs
    BY <1>5 DEF Place, Held, DeepPCs, SavePCs, CommitPCs, CleanPCs
  <1>6. LocksDisjoint'
    <2> SUFFICES ASSUME NEW k \in Jobs, NEW l \in Jobs, k # l,
                        job'[k].pc \in DeepPCs, job'[l].pc \in DeepPCs
                 PROVE  /\ {job'[k].op, Expected(job[k].op)'} \cap {job'[l].op, Expected(job[l].op)'} = {}
                        /\ ~(job'[k].pc = "parked" /\ job'[l].pc = "parked")
      BY DEF LocksDisjoint
    <2>1. job'[k] = job[k] /\ job'[l] = job[l]
      BY <1>5
    <2>2. Expected(job[k].op)' = Expected(job[k].op) /\ Expected(job[l].op)' = Expected(job[l].op)
      BY <2>1 DEF Expected
    <2> QED BY <1>1, <2>1, <2>2 DEF LocksDisjoint
  <1>7. ASSUME NEW k \in Jobs, job'[k] = job[k], job[k].pc \in SavePCs => job[k].op # o
        PROVE  Place(k)' /\ Held(k)'
    <2> SUFFICES ASSUME NEW q, q = job[k].op PROVE Place(k)' /\ Held(k)'
      OBVIOUS
    <2>1. Place(k)'
      BY <1>7, OthersStay
    <2>2. Held(k)'
      <3>1. CASE job[k].pc = "parked" \/ (Calm /\ job[k].pc = "safe")
        <4>1. /\ dir'[Source] = dir[Source] /\ dir'[Prepared(q)] = dir[Prepared(q)]
              /\ dir'[Backup(q)] = dir[Backup(q)]
          BY <3>1
        <4>2. /\ Prepared(job[k].op)' = Prepared(q) /\ Backup(job[k].op)' = Backup(q)
              /\ Expected(job[k].op)' = Expected(q)
          BY <1>7 DEF Prepared, Backup, Expected
        <4> QED BY <1>1, <1>7, <4>1, <4>2 DEF Held
      <3>2. CASE ~(job[k].pc = "parked" \/ (Calm /\ job[k].pc = "safe"))
        BY <1>7, <3>2 DEF Held, Calm
      <3> QED BY <3>1, <3>2
    <2> QED BY <2>1, <2>2
  <1> QED BY <1>3, <1>4, <1>5, <1>6, <1>7 DEF DiskInv

(* An undo and a save never work on the same record. *)
LEMMA UndoApart ==
    ASSUME TypeInv, NEW o \in Ops, backups[o] # "none", NEW k \in Jobs, job[k].pc \in SavePCs,
           k = Recovery => \E j \in Workers : job[j].pc \in UndoPCs
    PROVE  job[k].op # o
  <1>1. journal[o].state = "complete"
    BY DEF TypeInv, RowsRight
  <1>2. CASE k \in Workers
    <2>1. journal[job[k].op].state \in OpenStates
      BY <1>2 DEF TypeInv, ThreadRight
    <2> QED BY <1>1, <2>1 DEF OpenStates
  <1>3. CASE k = Recovery
    <2>1. PICK i \in Workers : job[i].pc \in UndoPCs
      BY <1>3
    <2>2. job[Recovery].pc = "idle"
      BY <2>1, JobFacts DEF TypeInv, ThreadRight
    <2> QED BY <1>3, <2>2, PlaceFacts
  <1> QED BY <1>2, <1>3, JobFacts

LEMMA UndoKeepsDisk == ASSUME TypeInv, DiskInv, NEW j \in Jobs, Undo(j) PROVE DiskInv'
  <1> SUFFICES ASSUME NEW o, o = job[j].op PROVE DiskInv'
    OBVIOUS
  <1>1. /\ VarsTyped /\ dir \in Directories /\ o \in Ops /\ backups[o] # "none" /\ Undoes
        /\ job[j].pc \in UndoPCs
    BY UndoIsPlaced, UndoRecord DEF TypeInv, VarsTyped
  <1>2. UNCHANGED journal /\ DirStep(o)
    BY UndoEvidence, UndoDir
  <1>3. /\ \A k \in Jobs \ {j} : job'[k] = job[k]
        /\ job'[j].pc \notin SavePCs
    <2>1. Idle.pc = "idle" /\ Scan("undos", o).pc = "undos"
      BY DEF Idle, Scan, At
    <2> QED BY <2>1, UndoMoves, PlaceFacts
  <1>4. \A k \in Jobs \ {j} : job[k].pc \in SavePCs => job[k].op # o
    BY <1>1, UndoApart, JobFacts
  <1>5. ASSUME NEW k \in Jobs, job[k].pc = "parked" \/ (Calm /\ job[k].pc = "safe")
        PROVE  /\ dir'[Source] = dir[Source]
               /\ dir'[Prepared(job[k].op)] = dir[Prepared(job[k].op)]
               /\ dir'[Backup(job[k].op)] = dir[Backup(job[k].op)]
    <2>1. job[k].pc \in SavePCs
      BY <1>5 DEF SavePCs, CommitPCs, CleanPCs
    <2> SUFFICES ASSUME NEW q, q = job[k].op
                 PROVE  /\ dir'[Source] = dir[Source] /\ dir'[Prepared(q)] = dir[Prepared(q)]
                        /\ dir'[Backup(q)] = dir[Backup(q)]
      OBVIOUS
    <2>2. k # j /\ q # o /\ q \in Ops
      BY <1>1, <1>4, <2>1, PlaceFacts, EngagedRecord
    <2>3. ~AtomicExchange
      BY <1>1, <1>5 DEF DiskInv, Held, Calm
    <2>4. BecomesDir(dir) \/ BecomesDir([dir EXCEPT ![Backup(o)] = Nothing])
      BY <2>3, UndoRenames DEF UndoDisk
    <2>5. /\ Source \in Entries /\ Prepared(q) \in Entries /\ Backup(q) \in Entries
          /\ Backup(o) \notin {Source, Prepared(q), Backup(q)}
      BY <1>1, <2>2, EntryFacts
    <2> QED BY <1>1, <2>4, <2>5 DEF BecomesDir, Directories
  <1> QED BY <1>2, <1>3, <1>4, <1>5, AsideKeepsDisk

LEMMA RecoverKeepsDisk == ASSUME TypeInv, DiskInv, Recover PROVE DiskInv'
  <1> SUFFICES ASSUME NEW r, r = job[Recovery].op PROVE DiskInv'
    OBVIOUS
  <1>1. /\ VarsTyped /\ dir \in Directories /\ DirsSound /\ LocksDisjoint /\ ExpectedBorn
        /\ \A k \in Jobs : Place(k) /\ Held(k)
    BY DEF TypeInv, VarsTyped, DiskInv
  <1>2. PICK t \in Thread : job' = [job EXCEPT ![Recovery] = t] /\ RecoverForm(t)
    BY RecoverMoves
  <1>3. /\ job'[Recovery] = t /\ \A k \in Jobs \ {Recovery} : job'[k] = job[k]
        /\ job[Recovery].pc \in {"load", "scan", "undos", "expire"} \cup ExpiryPCs
    BY <1>1, <1>2, JobFacts, RecoverRest DEF VarsTyped
  <1>4. UNCHANGED journal
    BY <1>2 DEF RecoverForm, evidence
  <1>5. \E o : /\ DirStep(o) /\ dir'[Source] = dir[Source]
               /\ \A k \in Jobs \ {Recovery} : job[k].pc \in SavePCs =>
                     /\ job[k].op # o
                     /\ dir'[Prepared(job[k].op)] = dir[Prepared(job[k].op)]
                     /\ job[k].pc = "parked" \/ (Calm /\ job[k].pc = "safe") =>
                           dir'[Backup(job[k].op)] = dir[Backup(job[k].op)]
    <2>1. CASE BecomesDir(dir)
      <3>1. DirStep(0) /\ dir' = dir
        BY <1>1, <2>1, NoDirStep DEF BecomesDir
      <3>2. \A k \in Jobs : job[k].pc \in SavePCs => job[k].op # 0
        BY EngagedRecord DEF Ops
      <3> QED BY <3>1, <3>2
    <2>2. CASE /\ r \in Ops /\ backups[r] = "retained" /\ ~UNCHANGED disk
               /\ job[Recovery].pc \in ExpiryPCs \cup {"expire"}
               /\ DirStep(r) /\ dir'[Source] = dir[Source]
               /\ BecomesDir([dir EXCEPT ![Backup(r)] = Nothing])
      <3>1. ASSUME NEW k \in Jobs \ {Recovery}, job[k].pc \in SavePCs, NEW q, q = job[k].op
            PROVE  q # r /\ dir'[Prepared(q)] = dir[Prepared(q)] /\ dir'[Backup(q)] = dir[Backup(q)]
        <4>1. q # r /\ q \in Ops
          BY <2>2, <3>1, UndoApart, EngagedRecord
        <4>2. /\ Prepared(q) \in Entries /\ Backup(q) \in Entries
              /\ Backup(r) \notin {Prepared(q), Backup(q)}
          BY <2>2, <4>1, EntryFacts
        <4> QED BY <1>1, <2>2, <4>1, <4>2 DEF BecomesDir, Directories
      <3> QED BY <2>2, <3>1
    <2>3. \/ BecomesDir(dir)
          \/ /\ r \in Ops /\ backups[r] = "retained" /\ ~UNCHANGED disk
             /\ job[Recovery].pc \in ExpiryPCs \cup {"expire"}
             /\ DirStep(r) /\ dir'[Source] = dir[Source]
             /\ BecomesDir([dir EXCEPT ![Backup(r)] = Nothing])
      <3>1. CASE UNCHANGED disk
        BY <1>1, <3>1, SyncForms
      <3>2. CASE ~UNCHANGED disk
        <4>1. /\ r \in Ops /\ backups[r] = "retained"
              /\ job[Recovery].pc \in ExpiryPCs \cup {"expire"}
              /\ BecomesDir([dir EXCEPT ![Backup(r)] = Nothing])
          BY <1>2, <3>2 DEF RecoverForm
        <4>2. BecomesDir(dir) \/ (DirStep(r) /\ dir'[Source] = dir[Source])
          BY RecoverDir DEF DirStep, BecomesDir
        <4> QED BY <3>2, <4>1, <4>2
      <3> QED BY <3>1, <3>2
    <2> QED BY <2>1, <2>2, <2>3
  <1>6. PICK o : /\ DirStep(o) /\ dir'[Source] = dir[Source]
                 /\ \A k \in Jobs \ {Recovery} : job[k].pc \in SavePCs =>
                     /\ job[k].op # o
                     /\ dir'[Prepared(job[k].op)] = dir[Prepared(job[k].op)]
                     /\ job[k].pc = "parked" \/ (Calm /\ job[k].pc = "safe") =>
                           dir'[Backup(job[k].op)] = dir[Backup(job[k].op)]
    BY <1>5
  <1>7. \A k \in Jobs :
              job[k].pc = "parked" \/ (Calm /\ job[k].pc = "safe") =>
                 /\ dir'[Source] = dir[Source]
                 /\ dir'[Prepared(job[k].op)] = dir[Prepared(job[k].op)]
                 /\ dir'[Backup(job[k].op)] = dir[Backup(job[k].op)]
    <2>1. {"parked", "safe"} \subseteq SavePCs
      BY DEF SavePCs, CommitPCs, CleanPCs
    <2>2. job[Recovery].pc \notin {"parked", "safe"}
      BY <1>3 DEF ExpiryPCs
    <2> QED BY <1>6, <2>1, <2>2
  <1>8. CASE t.pc # "published"
    <2>1. t.pc \notin SavePCs \/ t.pc \in {"drop", "stuck"}
      <3>1. {"undos", "expire", "idle", "undoing", "scan"} \cap SavePCs = {} /\ ExpiryPCs \cap SavePCs = {}
        BY DEF SavePCs, CommitPCs, CleanPCs, ExpiryPCs
      <3> QED BY <1>2, <1>8, <3>1 DEF RecoverForm
    <2>2. \A k \in Jobs : \/ job'[k] = job[k] /\ (job[k].pc \in SavePCs => job[k].op # o)
                          \/ job'[k].pc \notin SavePCs
                          \/ job'[k].pc \in {"drop", "stuck"}
      BY <1>3, <1>6, <2>1
    <2> QED BY <1>4, <1>6, <1>7, <2>2, AsideKeepsDisk
  <1>9. CASE t.pc = "published"
    <2> SUFFICES ASSUME NEW q, q = t.op PROVE DiskInv'
      OBVIOUS
    <2>1. /\ q \in Ops /\ Unfinished(q) /\ Published(q) /\ UNCHANGED disk
          /\ ~LockedByOther(Recovery, Expected(q)) /\ ~LockedByOther(Recovery, dir[Source])
          /\ job[Recovery].pc = "scan"
      BY <1>2, <1>9 DEF RecoverForm, ExpiryPCs
    <2>2. /\ \A p : Exists(p)' <=> Exists(p)
          /\ \A p : Expected(p)' = Expected(p)
      BY <1>4 DEF Exists, Expected
    <2>3. DirsSound' /\ ExpectedBorn'
      <3>1. \A d : SoundDir(d)' <=> SoundDir(d)
        BY <2>2 DEF SoundDir, Alone, Unborn, Prepared, Backup, Entries, Source
      <3> QED BY <1>1, <2>1, <2>2, <3>1 DEF DirsSound, ExpectedBorn, disk
    <2>4. ASSUME NEW k \in Jobs \ {Recovery} PROVE Place(k)' /\ Held(k)'
      BY <1>1, <1>3, <1>4, <2>1, <2>4
         DEF Place, Held, Gone, Disks, Unborn, Prepared, Backup, Entries, Source, Expected, Calm, disk
    <2>5. Place(Recovery)' /\ Held(Recovery)'
      <3>1. dir[Prepared(q)] = Nothing
        <4>1. SoundDir(dir) /\ Source \in Entries /\ Source # Prepared(q)
          BY <1>1, <2>1, EntryFacts DEF DirsSound, VarsTyped
        <4> QED BY <2>1, <4>1 DEF SoundDir, Alone, Published
      <3>2. dir' = dir /\ job'[Recovery].op = q /\ job'[Recovery].pc = "published"
        BY <1>3, <1>9, <2>1 DEF disk
      <3>3. Prepared(job[Recovery].op)' = Prepared(q)
        BY <3>2 DEF Prepared
      <3> QED BY <3>1, <3>2, <3>3 DEF Place, Held
    <2>6. LocksDisjoint'
      <3>1. ASSUME NEW k \in Jobs \ {Recovery}, job[k].pc \in DeepPCs
            PROVE  {q, Expected(q)} \cap {job[k].op, Expected(job[k].op)} = {}
        <4>1. Engaged(k)
          BY <3>1 DEF Engaged, DeepPCs, SavePCs
        <4>2. Holds(k) = {job[k].op, Expected(job[k].op)}
          BY <4>1 DEF Holds
        <4>3. q = dir[Source]
          BY <2>1 DEF Published
        <4> QED BY <2>1, <3>1, <4>2, <4>3 DEF LockedByOther
      <3>2. \A k \in Jobs : Expected(job[k].op)' = journal[job'[k].op].expected
        BY <1>4 DEF Expected
      <3>3. \A k \in Jobs \ {Recovery} : job'[k] = job[k]
        BY <1>3
      <3>4. job'[Recovery].op = q /\ job'[Recovery].pc = "published"
        BY <1>3, <1>9
      <3> QED BY <1>1, <3>1, <3>2, <3>3, <3>4 DEF LocksDisjoint, Expected
    <2> QED BY <2>3, <2>4, <2>5, <2>6 DEF DiskInv
  <1> QED BY <1>8, <1>9

LEMMA NoSaveAtZero == ASSUME TypeInv PROVE \A k \in Jobs : job[k].pc \in SavePCs => job[k].op # 0
  BY EngagedRecord DEF Ops

(* A new save expects the version it has seen, under locks nobody holds. *)
LEMMA BeginKeepsDisk == ASSUME TypeInv, DiskInv, NEW j \in Workers, Begin(j) PROVE DiskInv'
  <1>1. /\ VarsTyped /\ dir \in Directories /\ DirsSound /\ LocksDisjoint /\ ExpectedBorn
        /\ \A k \in Jobs : Place(k) /\ Held(k)
    BY DEF TypeInv, VarsTyped, DiskInv
  <1>2. PICK o \in Ops, kind \in Kinds :
              /\ NextRow(o) /\ dir[Source] # Nothing /\ Links(dir[Source]) = 1
              /\ ~LockedByOther(j, dir[Source]) /\ up /\ job[j].pc = "idle"
              /\ At("created", o, "planned") \in Thread
              /\ job' = [job EXCEPT ![j] = At("created", o, "planned")]
              /\ [state |-> "planned", expected |-> dir[Source], kind |-> kind] \in Record
              /\ journal' = [journal EXCEPT ![o] =
                    [state |-> "planned", expected |-> dir[Source], kind |-> kind]]
              /\ UNCHANGED <<up, disk, backups, lists, loaded, budget>>
    BY BeginForm
  <1>3. PICK r \in Record : /\ journal' = [journal EXCEPT ![o] = r] /\ r.expected = dir[Source]
    BY <1>2
  <1>4. /\ ~Exists(o) /\ Exists(o)' /\ Expected(o)' = dir[Source]
        /\ \A q \in Ops : Exists(q) => /\ q # o /\ Exists(q)' /\ Expected(q)' = Expected(q)
        /\ \A q \in Ops \ {o} : Exists(q)' => Exists(q)
    BY <1>1, <1>2, <1>3, RecordIsUsed DEF VarsTyped, NextRow, Exists, Expected
  <1>5. PICK s \in Thread : /\ job' = [job EXCEPT ![j] = s] /\ s.pc = "created" /\ s.op = o
    BY <1>2 DEF At, Idle
  <1>6. /\ job'[j] = s /\ j \in Jobs /\ \A k \in Jobs \ {j} : job'[k] = job[k]
    BY <1>1, <1>5, JobFacts DEF VarsTyped
  <1>7. dir' = dir /\ possible' = possible /\ DirStep(0)
    BY <1>1, <1>2, NoDirStep, SyncForms DEF disk
  <1>8. DirsSound'
    BY <1>1, <1>4, <1>7, DirsStay
  <1>9. SoundDir(dir) /\ dir \in possible
    BY <1>1 DEF VarsTyped, DirsSound
  <1>10. ExpectedBorn'
    <2>1. dir[Source] \in Ops => Exists(dir[Source])
      BY <1>9, SoundPlaces, VisibleFacts
    <2> QED BY <1>1, <1>4, <2>1 DEF ExpectedBorn
  <1>11. \A k \in Jobs : job[k].pc \in SavePCs =>
            /\ job[k].op \in Ops /\ Exists(job[k].op) /\ job[k].op # o
            /\ Expected(job[k].op)' = Expected(job[k].op) /\ Expected(job[k].op) # o
    <2> SUFFICES ASSUME NEW k \in Jobs, job[k].pc \in SavePCs, NEW q, q = job[k].op
                 PROVE  /\ q \in Ops /\ Exists(q) /\ q # o
                        /\ Expected(job[k].op)' = Expected(q) /\ Expected(q) # o
      OBVIOUS
    <2>1. q \in Ops /\ Exists(q) /\ q # o /\ Expected(q)' = Expected(q)
      BY <1>4, EngagedRecord
    <2>2. Expected(q) # o
      BY <1>1, <1>4, <2>1 DEF ExpectedBorn
    <2>3. job'[k] = job[k]
      <3>1. k # j
        BY <1>2, PlaceFacts
      <3> QED BY <1>6, <3>1
    <2> QED BY <2>1, <2>2, <2>3 DEF Expected
  <1>12. ASSUME NEW k \in Jobs \ {j} PROVE Place(k)' /\ Held(k)'
    <2> SUFFICES ASSUME NEW q, q = job[k].op PROVE Place(k)' /\ Held(k)'
      OBVIOUS
    <2>1. job'[k] = job[k] /\ (job[k].pc \in SavePCs => Expected(q)' = Expected(q) /\ q # 0)
      BY <1>4, <1>6, <1>11, EngagedRecord, NoSaveAtZero
    <2>2. Place(k)'
      BY <1>7, <2>1, OthersStay
    <2>3. Held(k)'
      <3>1. CASE job[k].pc \in {"parked", "safe"}
        <4>1. job[k].pc \in SavePCs
          BY <3>1 DEF SavePCs, CommitPCs, CleanPCs
        <4> QED BY <1>1, <1>7, <2>1, <4>1
             DEF Held, Expected, Calm, Prepared, Backup, Source
      <3>2. CASE job[k].pc \notin {"parked", "safe"}
        BY <2>1, <3>2 DEF Held
      <3> QED BY <3>1, <3>2
    <2> QED BY <2>2, <2>3
  <1>13. Place(j)' /\ Held(j)'
    <2>1. \A d \in possible : Unborn(o, d)
      BY <1>1, <1>4 DEF DirsSound, SoundDir
    <2>2. \A d \in possible' : Unborn(job[j].op, d)'
      BY <1>5, <1>6, <1>7, <2>1 DEF Unborn, Prepared, Backup, Entries, Source
    <2> QED BY <1>5, <1>6, <2>2 DEF Place, Held
  <1>14. LocksDisjoint'
    <2>1. ASSUME NEW k \in Jobs \ {j}, job[k].pc \in DeepPCs
          PROVE  /\ {o, dir[Source]} \cap {job[k].op, Expected(job[k].op)} = {}
                 /\ Expected(job[k].op)' = Expected(job[k].op)
      <3>1. Engaged(k) /\ job[k].pc \in SavePCs
        BY <2>1 DEF Engaged, DeepPCs, SavePCs
      <3>2. Holds(k) = {job[k].op, Expected(job[k].op)}
        BY <3>1 DEF Holds
      <3>3. dir[Source] \notin Holds(k)
        BY <1>2, <2>1 DEF LockedByOther
      <3> QED BY <1>11, <3>1, <3>2, <3>3
    <2>2. Expected(job[j].op)' = dir[Source]
      BY <1>4, <1>5, <1>6 DEF Expected
    <2> SUFFICES ASSUME NEW k \in Jobs, NEW l \in Jobs, k # l,
                        job'[k].pc \in DeepPCs, job'[l].pc \in DeepPCs
                 PROVE  /\ {job'[k].op, Expected(job[k].op)'} \cap {job'[l].op, Expected(job[l].op)'} = {}
                        /\ ~(job'[k].pc = "parked" /\ job'[l].pc = "parked")
      BY DEF LocksDisjoint
    <2>3. CASE k = j
      BY <1>5, <1>6, <2>1, <2>2, <2>3
    <2>4. CASE l = j
      BY <1>5, <1>6, <2>1, <2>2, <2>4
    <2>5. CASE k # j /\ l # j
      <3>1. job'[k] = job[k] /\ job'[l] = job[l]
        BY <1>6, <2>5
      <3>2. /\ Expected(job[k].op)' = Expected(job[k].op)
            /\ Expected(job[l].op)' = Expected(job[l].op)
        BY <2>1, <2>5, <3>1
      <3> QED BY <1>1, <3>1, <3>2 DEF LocksDisjoint
    <2> QED BY <2>3, <2>4, <2>5
  <1> QED BY <1>8, <1>10, <1>12, <1>13, <1>14 DEF DiskInv

LEMMA StillKeepsDisk ==
    ASSUME TypeInv, DiskInv, UNCHANGED <<journal, disk>>,
           \A k \in Jobs : job'[k] = job[k] \/ job'[k].pc \notin SavePCs
    PROVE  DiskInv'
  <1>1. dir' = dir /\ DirStep(0)
    BY NoDirStep, SyncForms DEF TypeInv, DiskInv, disk
  <1>2. \A k \in Jobs : job[k].pc \in SavePCs => job[k].op # 0
    BY NoSaveAtZero
  <1>3. \A k \in Jobs : \/ job'[k] = job[k] /\ (job[k].pc \in SavePCs => job[k].op # 0)
                        \/ job'[k].pc \notin SavePCs
                        \/ job'[k].pc \in {"drop", "stuck"}
    BY <1>2
  <1>4. \A k \in Jobs : job[k].pc = "parked" \/ (Calm /\ job[k].pc = "safe") =>
                 /\ dir'[Source] = dir[Source]
                 /\ dir'[Prepared(job[k].op)] = dir[Prepared(job[k].op)]
                 /\ dir'[Backup(job[k].op)] = dir[Backup(job[k].op)]
    BY <1>1
  <1> QED BY <1>1, <1>3, <1>4, AsideKeepsDisk

LEMMA EditKeepsDisk == ASSUME TypeInv, DiskInv, Edit \/ Move PROVE DiskInv'
  <1>1. DirStep(0) /\ UNCHANGED <<journal, job>> /\ dir[Source] # Nothing
    BY EditDir, MoveDir DEF Edit, Move, evidence
  <1>2. \A k \in Jobs : job[k].pc # "safe"
    BY DEF Edit, Move
  <1>3. \A k \in Jobs : job[k].pc # "parked"
    BY <1>1 DEF DiskInv, Held
  <1>4. \A k \in Jobs : job[k].pc \in SavePCs => job[k].op # 0
    BY NoSaveAtZero
  <1>5. \A k \in Jobs : \/ job'[k] = job[k] /\ (job[k].pc \in SavePCs => job[k].op # 0)
                        \/ job'[k].pc \notin SavePCs
                        \/ job'[k].pc \in {"drop", "stuck"}
    BY <1>1, <1>4
  <1>6. \A k \in Jobs : job[k].pc = "parked" \/ (Calm /\ job[k].pc = "safe") =>
                 /\ dir'[Source] = dir[Source]
                 /\ dir'[Prepared(job[k].op)] = dir[Prepared(job[k].op)]
                 /\ dir'[Backup(job[k].op)] = dir[Backup(job[k].op)]
    BY <1>2, <1>3
  <1> QED BY <1>1, <1>5, <1>6, AsideKeepsDisk

(* After a crash no thread is at work; the directory is one that was possible. *)
LEMMA CrashKeepsDisk == ASSUME TypeInv, DiskInv, Crash PROVE DiskInv'
  <1>1. \A j \in Jobs : job'[j].pc = "idle"
    BY CrashForm, ThreadValues
  <1>2. "idle" \notin SavePCs /\ DeepPCs \subseteq SavePCs
    BY PlaceFacts DEF DeepPCs
  <1>3. UNCHANGED journal /\ possible' \subseteq possible
    BY CrashForm DEF evidence
  <1>4. DirsSound' /\ ExpectedBorn'
    <2>1. \A d : SoundDir(d)' <=> SoundDir(d)
      BY <1>3 DEF SoundDir, Alone, Unborn, Prepared, Backup, Entries, Source, Exists
    <2>2. ExpectedBorn' <=> ExpectedBorn
      BY <1>3 DEF ExpectedBorn, Exists, Expected
    <2> QED BY <1>3, <2>1, <2>2 DEF DiskInv, DirsSound
  <1>5. LocksDisjoint'
    BY <1>1, <1>2 DEF LocksDisjoint
  <1>6. \A j \in Jobs : Place(j)' /\ Held(j)'
    BY <1>1 DEF Place, Held
  <1> QED BY <1>4, <1>5, <1>6 DEF DiskInv

LEMMA InitDisk == Init => DiskInv
  <1> SUFFICES ASSUME Init PROVE DiskInv
    OBVIOUS
  <1>1. \A j \in Jobs : job[j].pc = "idle"
    BY ThreadValues DEF Init
  <1>2. "idle" \notin SavePCs /\ DeepPCs \subseteq SavePCs
    BY PlaceFacts DEF DeepPCs
  <1>3. \A o \in Ops : ~Exists(o)
    BY DEF Init, Exists
  <1>4. DirsSound
    <2>1. /\ possible = {dir} /\ dir = [e \in Entries |-> IF e = Source THEN 0 ELSE Nothing]
      BY DEF Init
    <2>2. ASSUME NEW o \in Ops PROVE Alone(o, dir) /\ Unborn(o, dir)
      <3>1. Prepared(o) \in Entries /\ Backup(o) \in Entries /\ Source # Prepared(o) /\ Source # Backup(o)
            /\ o # 0 /\ o # Nothing
        BY EntryFacts, OpsAreVersions
      <3> QED BY <2>1, <3>1 DEF Alone, Unborn
    <2> QED BY <2>1, <2>2 DEF DirsSound, SoundDir
  <1>5. LocksDisjoint /\ ExpectedBorn
    BY <1>1, <1>2, <1>3 DEF LocksDisjoint, ExpectedBorn
  <1>6. \A j \in Jobs : Place(j) /\ Held(j)
    BY <1>1 DEF Place, Held
  <1> QED BY <1>4, <1>5, <1>6 DEF DiskInv

LEMMA NextDisk == TypeInv /\ DiskInv /\ [Next]_vars => DiskInv'
  <1> SUFFICES ASSUME TypeInv, DiskInv, [Next]_vars PROVE DiskInv'
    OBVIOUS
  <1>1. CASE Start \/ Close
    <2>1. UNCHANGED <<journal, disk>>
      BY <1>1 DEF Start, Close, evidence
    <2>2. \A k \in Jobs : job'[k] = job[k] \/ job'[k].pc \notin SavePCs
      <3>1. Idle.pc = "idle" /\ Scan("load", 0).pc = "load"
        BY DEF Idle, Scan, At
      <3>2. \A k \in Jobs : job'[k] = job[k] \/ job'[k] = Idle \/ job'[k] = Scan("load", 0)
        BY <1>1 DEF Start, Close, Becomes, Return, TypeInv, VarsTyped
      <3> QED BY <3>1, <3>2, PlaceFacts
    <2> QED BY <2>1, <2>2, StillKeepsDisk
  <1>2. CASE Crash \/ Edit \/ Move
    BY <1>2, CrashKeepsDisk, EditKeepsDisk
  <1>3. ASSUME NEW j \in Workers, BeginUndo(j) PROVE DiskInv'
    <2>1. UNCHANGED <<journal, disk>>
      BY <1>3, BeginUndoForm
    <2>2. \A k \in Jobs : job'[k] = job[k] \/ job'[k].pc \notin SavePCs
      <3>1. \A o : At("undoing", o, "undoing").pc = "undoing"
        BY DEF Idle, At
      <3>2. job' = job \/ \E o \in Ops : job' = [job EXCEPT ![j] = At("undoing", o, "undoing")]
        BY <1>3, BeginUndoForm
      <3>3. "undoing" \notin SavePCs
        BY DEF SavePCs, CommitPCs, CleanPCs
      <3> QED BY <3>1, <3>2, <3>3 DEF TypeInv, VarsTyped
    <2> QED BY <2>1, <2>2, StillKeepsDisk
  <1>4. ASSUME NEW j \in Workers, Begin(j) PROVE DiskInv'
    BY <1>4, BeginKeepsDisk
  <1>5. ASSUME NEW j \in Jobs, Save(j) \/ Undo(j) PROVE DiskInv'
    BY <1>5, SaveKeepsDisk, UndoKeepsDisk
  <1>6. CASE Recover
    BY <1>6, RecoverKeepsDisk
  <1>7. CASE UNCHANGED vars
    BY <1>7, StillKeepsDisk DEF vars, disk
  <1> QED BY <1>1, <1>2, <1>3, <1>4, <1>5, <1>6, <1>7 DEF Next

-------------------------------------------------------------------------------
(* Another program's version is replaced only by a save that expects it.   *)

LEMMA StepKeepsEdit ==
    ASSUME TypeInv, DiskInv, Calm, [Next]_vars,
           dir[Source] \in Foreign, dir'[Source] # dir[Source]
    PROVE  Edit \/ Move \/ Crash \/ \E o \in Ops : Exists(o) /\ Expected(o) = dir[Source]
  <1>1. /\ VarsTyped /\ dir \in Directories /\ Source \in Entries /\ \A k \in Jobs : Held(k)
        /\ dir[Source] \notin Ops /\ dir[Source] # Nothing
    BY EntryFacts, OpsAreVersions DEF TypeInv, VarsTyped, DiskInv
  <1>2. CASE UNCHANGED disk
    BY <1>2 DEF disk
  <1>3. ASSUME NEW j \in Jobs, Save(j)
        PROVE  \E o \in Ops : Exists(o) /\ Expected(o) = dir[Source]
    <2> SUFFICES ASSUME NEW o, o = job[j].op PROVE Exists(o) /\ Expected(o) = dir[Source] /\ o \in Ops
      OBVIOUS
    <2>1. /\ o \in Ops /\ Exists(o) /\ Held(j) /\ Source \notin {Prepared(o), Backup(o)}
      BY <1>1, <1>3, SaveIsEngaged, EngagedRecord, EntryFacts
    <2>2. job[j].pc = "safe" => dir[Source] = Expected(o)
      BY <2>1 DEF Held
    <2>3. job[j].pc # "parked"
      BY <1>1, <2>1 DEF Held
    <2>4. ~Published(o)
      BY <1>1, <2>1 DEF Published
    <2>5. job[j].pc # "safe" =>
            \/ BecomesDir(dir)
            \/ \E e \in {Prepared(o), Backup(o)}, v \in {o, Expected(o), Nothing} :
                  BecomesDir([dir EXCEPT ![e] = v])
      BY <1>3, <2>3, <2>4, SaveRenames DEF SaveDisk
    <2>6. job[j].pc = "safe"
      BY <1>1, <2>1, <2>5 DEF BecomesDir, Directories
    <2> QED BY <2>1, <2>2, <2>6
  <1>4. ASSUME NEW j \in Jobs, Undo(j) PROVE FALSE
    <2> SUFFICES ASSUME NEW o, o = job[j].op PROVE FALSE
      OBVIOUS
    <2>1. o \in Ops /\ ~AtomicExchange /\ Source # Backup(o)
      BY <1>4, UndoIsPlaced, UndoRecord, EntryFacts DEF Calm
    <2>2. BecomesDir(dir) \/ BecomesDir([dir EXCEPT ![Backup(o)] = Nothing])
      BY <1>4, <2>1, UndoRenames DEF UndoDisk
    <2> QED BY <1>1, <2>1, <2>2 DEF BecomesDir, Directories
  <1>5. CASE Recover
    <2>1. dir'[Source] = dir[Source]
      BY <1>5, RecoverDir DEF BecomesDir
    <2> QED BY <2>1
  <1>6. CASE Start \/ Close \/ \E j \in Workers : Begin(j) \/ BeginUndo(j)
    BY <1>2, <1>6 DEF Start, Close, Begin, BeginUndo
  <1>7. CASE UNCHANGED vars
    BY <1>2, <1>7 DEF vars, disk
  <1> QED BY <1>3, <1>4, <1>5, <1>6, <1>7 DEF Next

(* What another program writes into the file stays under its name until    *)
(* the user saves over that very version: no thread of metadata_commit.cpp *)
(* renames over a source it has not compared, whatever fails, crashes or   *)
(* runs beside it.  An undo that takes its exchange back compares nothing: *)
(* the theorem is for the program as it is, which offers none, and for     *)
(* filesystems that cannot exchange.                                       *)
THEOREM ForeignEditsSurvive ==
    ASSUME ~Undoes \/ ~AtomicExchange
    PROVE  Spec => EditsSurvive
  <1>1. Calm
    BY DEF Calm
  <1>2. TypeInv /\ DiskInv /\ [Next]_vars =>
           [dir[Source] \in Foreign /\ dir'[Source] # dir[Source]
            => Edit \/ Move \/ Crash \/ \E o \in Ops : Exists(o) /\ Expected(o) = dir[Source]]_vars
    BY <1>1, StepKeepsEdit
  <1> QED BY <1>2, InitTyped, InitDisk, NextTyped, NextDisk, PTL DEF Spec, EditsSurvive

-------------------------------------------------------------------------------
(* A save that was rolled back has left no hidden sibling.                 *)

Awaits(todo, e) == \E i \in 1..Len(todo) : todo[i] = e

(* An entry that a failed save still has to remove is in its list; what    *)
(* is not in the list is gone.  A record that is rolled back is not worked *)
(* on any more, other than to look for its siblings again.                 *)
Clean(j) ==
    LET o == job[j].op
        pc == job[j].pc
    IN /\ pc = "abort" => Gone(Prepared(o)) /\ Gone(Backup(o))
       /\ pc = "drop" /\ job[j].ok =>
             \A e \in {Prepared(o), Backup(o)} :
                Gone(e) \/ (dir[e] # Nothing /\ Awaits(job[j].todo, e))
       /\ pc \in DeepPCs => journal[o].state # "rolled_back"

RolledBackGone ==
    \A o \in Ops : Exists(o) /\ journal[o].state = "rolled_back" =>
        Gone(Prepared(o)) /\ Gone(Backup(o))

GoneInv == RolledBackGone /\ \A j \in Jobs : Clean(j)

(* What the startup job finds absent has been absent since the last sync.  *)
SeesDisk ==
    job[Recovery].pc = "scan" =>
        \A o \in Ops : Unfinished(o) =>
            \A e \in {Prepared(o), Backup(o)} : dir[e] = Nothing => Gone(e)

LEMMA AwaitsFacts ==
    /\ \A e : ~Awaits(<<>>, e)
    /\ \A a : Awaits(<<a>>, a)
    /\ \A a, b : Awaits(<<a, b>>, a) /\ Awaits(<<a, b>>, b)
    /\ \A a, e : Awaits(<<a>>, e) => e = a
    /\ \A a, b, e : Awaits(<<a, b>>, e) => e = a \/ e = b
  <1>1. /\ \A e : ~Awaits(<<>>, e)
        /\ \A a : Len(<<a>>) = 1 /\ <<a>>[1] = a
        /\ \A a, b : Len(<<a, b>>) = 2 /\ <<a, b>>[1] = a /\ <<a, b>>[2] = b
    BY DEF Awaits
  <1>2. \A a : Awaits(<<a>>, a)
    BY <1>1 DEF Awaits
  <1>3. \A a, b : Awaits(<<a, b>>, a) /\ Awaits(<<a, b>>, b)
    BY <1>1 DEF Awaits
  <1>4. \A a, e : Awaits(<<a>>, e) => e = a
    BY <1>1 DEF Awaits
  <1>5. \A a, b, e : Awaits(<<a, b>>, e) => e = a \/ e = b
    BY <1>1 DEF Awaits
  <1> QED BY <1>1, <1>2, <1>3, <1>4, <1>5

(* The head of the list goes; the others stay in it. *)
LEMMA AwaitsTail ==
    ASSUME NEW o \in Ops, NEW todo \in DropLists(o), todo # <<>>, NEW e, Awaits(todo, e)
    PROVE  e = Head(todo) \/ Awaits(Tail(todo), e)
  <1>1. ASSUME NEW a, todo = <<a>> PROVE e = Head(todo)
    BY <1>1, TailFacts, AwaitsFacts
  <1>2. ASSUME NEW a, NEW b, todo = <<a, b>> PROVE e = Head(todo) \/ Awaits(Tail(todo), e)
    <2>1. Head(todo) = a /\ Tail(todo) = <<b>>
      BY <1>2, TailFacts
    <2>2. e = a \/ e = b
      BY <1>2, AwaitsFacts
    <2>3. Awaits(<<b>>, b)
      BY AwaitsFacts
    <2> QED BY <2>1, <2>2, <2>3
  <1> QED BY <1>1, <1>2 DEF DropLists

LEMMA GoneStays ==
    ASSUME VarsTyped, NEW d \in Directories, BecomesDir(d), NEW e, Gone(e), d[e] = Nothing
    PROVE  Gone(e)'
  BY DisksGrow DEF Gone

(* An entry that was synced away. *)
LEMMA GoneNow ==
    ASSUME NEW e, dir'[e] = Nothing, possible' = {dir'}
    PROVE  Gone(e)'
  BY DEF Gone, Disks

LEMMA GoneIsGone == ASSUME VarsTyped, NEW e, Gone(e) PROVE dir[e] = Nothing
  BY DEF Gone, Disks, VarsTyped

(* Threads and records of other operations. *)
LEMMA OthersGone ==
    ASSUME VarsTyped, NEW o, DirStep(o), NEW q \in Ops \ {o}
    PROVE  /\ Gone(Prepared(q)) => Gone(Prepared(q))'
           /\ Gone(Backup(q)) => Gone(Backup(q))'
           /\ dir'[Prepared(q)] = Nothing <=> dir[Prepared(q)] = Nothing
           /\ dir'[Backup(q)] = Nothing <=> dir[Backup(q)] = Nothing
  <1>1. PICK d \in Directories : BecomesDir(d) /\ Apart(o, d)
    BY DEF DirStep
  <1>2. /\ d[Prepared(q)] = dir[Prepared(q)]
        /\ d[Backup(q)] = Nothing <=> dir[Backup(q)] = Nothing
        /\ dir' = d
    BY <1>1 DEF Apart, BecomesDir
  <1>3. Gone(Prepared(q)) => Gone(Prepared(q))'
    <2>1. Gone(Prepared(q)) => d[Prepared(q)] = Nothing
      BY <1>2, GoneIsGone
    <2> QED BY <1>1, <2>1, GoneStays
  <1>4. Gone(Backup(q)) => Gone(Backup(q))'
    <2>1. Gone(Backup(q)) => d[Backup(q)] = Nothing
      BY <1>2, GoneIsGone
    <2> QED BY <1>1, <2>1, GoneStays
  <1> QED BY <1>2, <1>3, <1>4

LEMMA OthersClean ==
    ASSUME TypeInv, GoneInv, NEW k \in Jobs, job'[k] = job[k],
           NEW o, o # job[k].op \/ job[k].pc \notin SavePCs, DirStep(o),
           job[k].pc \in SavePCs => journal'[job[k].op] = journal[job[k].op]
    PROVE  Clean(k)'
  <1> SUFFICES ASSUME NEW q, q = job[k].op PROVE Clean(k)'
    OBVIOUS
  <1>1. CASE job[k].pc \notin SavePCs
    BY <1>1 DEF Clean, DeepPCs, SavePCs, CleanPCs
  <1>2. CASE job[k].pc \in SavePCs
    <2>1. q \in Ops \ {o} /\ VarsTyped /\ Clean(k) /\ journal'[q] = journal[q]
      BY <1>2, EngagedRecord DEF TypeInv, GoneInv
    <2>2. /\ Gone(Prepared(q)) => Gone(Prepared(q))'
          /\ Gone(Backup(q)) => Gone(Backup(q))'
          /\ dir'[Prepared(q)] = Nothing <=> dir[Prepared(q)] = Nothing
          /\ dir'[Backup(q)] = Nothing <=> dir[Backup(q)] = Nothing
      BY <2>1, OthersGone
    <2>3. /\ job'[k].op = q /\ job'[k].pc = job[k].pc /\ job'[k].ok = job[k].ok
          /\ job'[k].todo = job[k].todo
      OBVIOUS
    <2>4. /\ Gone(Prepared(job[k].op))' = Gone(Prepared(q))'
          /\ Gone(Backup(job[k].op))' = Gone(Backup(q))'
      BY <2>3 DEF Gone, Prepared, Backup
    <2>5. Prepared(job[k].op)' = Prepared(q) /\ Backup(job[k].op)' = Backup(q)
      BY <2>3 DEF Prepared, Backup
    <2>6. \A e \in {Prepared(q), Backup(q)} :
             Gone(e) \/ (dir[e] # Nothing /\ Awaits(job[k].todo, e)) =>
                Gone(e)' \/ (dir'[e] # Nothing /\ Awaits(job[k].todo, e))
      BY <2>2
    <2>7. job[k].pc = "drop" /\ job[k].ok =>
             \A e \in {Prepared(q), Backup(q)} :
                Gone(e)' \/ (dir'[e] # Nothing /\ Awaits(job[k].todo, e))
      BY <2>1, <2>6 DEF Clean
    <2>8. (job[k].pc = "drop" /\ job[k].ok =>
             \A e \in {Prepared(job[k].op), Backup(job[k].op)} :
                Gone(e) \/ (dir[e] # Nothing /\ Awaits(job[k].todo, e)))'
      BY <2>3, <2>5, <2>7 DEF Awaits
    <2>9. (job[k].pc = "abort" => Gone(Prepared(job[k].op)) /\ Gone(Backup(job[k].op)))'
      BY <2>1, <2>2, <2>3, <2>4 DEF Clean
    <2>10. (job[k].pc \in DeepPCs => journal[job[k].op].state # "rolled_back")'
      BY <2>1, <2>3 DEF Clean
    <2> QED BY <2>8, <2>9, <2>10 DEF Clean
  <1> QED BY <1>1, <1>2

LEMMA GoneHolds == UNCHANGED disk => \A e : Gone(e)' <=> Gone(e)
  BY DEF disk, Gone, Disks

LEMMA GoneBounds ==
    ASSUME VarsTyped
    PROVE  \A e : (\A d \in possible : d[e] = Nothing) => Gone(e)
  BY DEF VarsTyped, Gone, Disks

(* What a thread's own step leaves behind: P and B are its siblings. *)
OwnClean(j) ==
    LET o == job[j].op
        pc == job'[j].pc
    IN /\ pc = "abort" => \A e \in {Prepared(o), Backup(o)} : Gone(e)'
       /\ pc = "drop" /\ job'[j].ok =>
             \A e \in {Prepared(o), Backup(o)} :
                Gone(e)' \/ (dir'[e] # Nothing /\ Awaits(job'[j].todo, e))

LEMMA SaveOwnClean ==
    ASSUME TypeInv, DiskInv, GoneInv, NEW j \in Jobs, Save(j)
    PROVE  OwnClean(j)
  <1> SUFFICES ASSUME NEW o, o = job[j].op PROVE OwnClean(j)
    OBVIOUS
  <1> DEFINE P == Prepared(o)
             B == Backup(o)
  <1>1. /\ VarsTyped /\ o \in Ops /\ o # Nothing /\ P \in Entries /\ B \in Entries
        /\ dir \in Directories /\ job \in [Jobs -> Thread] /\ job[j] \in Thread
        /\ Place(j) /\ Clean(j)
    BY SaveIsEngaged, EngagedRecord DEF TypeInv, VarsTyped, DiskInv, GoneInv
  <1>2. P # B
    BY <1>1, EntryFacts
  <1>3. \A t : Becomes(j, t) => job'[j] = t
    BY <1>1 DEF Becomes
  <1>4. \A pc : Goto(j, pc) => job'[j].pc = pc
    BY <1>1, <1>3 DEF Goto, Thread
  <1>5. \A pc, known, todo : /\ At(pc, o, known).pc = pc /\ DropAt(o, known, todo).pc = "drop"
                             /\ DropAt(o, known, todo).todo = todo
                             /\ Scan(pc, o).pc = pc /\ Idle.pc = "idle"
    BY DEF At, DropAt, Scan, Idle
  <1>6. job'[j].pc \notin {"drop", "abort"} => OwnClean(j)
    BY DEF OwnClean
  <1>7. /\ job[j].pc \in {"copied", "ready"} => dir[P] = o /\ Gone(B)
        /\ job[j].pc \in {"linked", "safe"} => dir[P] = o /\ dir[B] # Nothing
        /\ job[j].pc = "cleared" => dir[P] = Nothing /\ dir[B] = Nothing
        /\ job[j].pc = "created" => \A d \in possible : d[P] = Nothing /\ d[B] = Nothing
    BY <1>1 DEF Place, Unborn
  <1>8. /\ job[j].pc = "drop" /\ job[j].ok =>
             \A e \in {P, B} : Gone(e) \/ (dir[e] # Nothing /\ Awaits(job[j].todo, e))
    BY <1>1 DEF Clean
  <1>9. CASE Prepare(j)
    <2>1. CASE UNCHANGED disk
      BY <1>1, <1>7, <1>9, <2>1, GoneHolds, GoneBounds, <1>4 DEF Prepare, OwnClean
    <2>2. CASE Goto(j, "copied")
      BY <1>4, <1>6, <2>2
    <2> QED BY <1>9, <2>1, <2>2 DEF Prepare
  <1>10. CASE RecordPrepared(j)
    <2>1. CASE Becomes(j, At("ready", o, "prepared"))
      BY <1>3, <1>5, <1>6, <2>1
    <2>2. CASE Becomes(j, DropAt(o, "planned", <<P>>))
      <3>1. job'[j].pc = "drop" /\ job'[j].todo = <<P>>
        BY <1>3, <1>5, <2>2
      <3>2. UNCHANGED disk /\ dir' = dir /\ dir[P] # Nothing /\ Gone(B)
        BY <1>1, <1>7, <1>10 DEF RecordPrepared, disk
      <3> QED BY <3>1, <3>2, GoneHolds, AwaitsFacts DEF OwnClean
    <2> QED BY <1>10, <2>1, <2>2 DEF RecordPrepared
  <1>11. CASE LinkBackup(j)
    <2>1. CASE Goto(j, "linked")
      BY <1>4, <1>6, <2>1
    <2>2. CASE UNCHANGED disk /\ Becomes(j, DropAt(o, "prepared", <<P>>))
      <3>1. job'[j].pc = "drop" /\ job'[j].todo = <<P>>
        BY <1>3, <1>5, <2>2
      <3>2. UNCHANGED disk /\ dir' = dir /\ dir[P] # Nothing /\ Gone(B)
        BY <1>1, <1>7, <1>11, <2>2 DEF LinkBackup, disk
      <3> QED BY <3>1, <3>2, GoneHolds, AwaitsFacts DEF OwnClean
    <2> QED BY <1>11, <2>1, <2>2 DEF LinkBackup
  <1>12. CASE ConfirmBackup(j) \/ PublishCopy(j)
    <2>1. CASE Goto(j, "safe") \/ Goto(j, "renamed")
      BY <1>4, <1>6, <2>1
    <2>2. CASE UNCHANGED dir /\ Becomes(j, DropAt(o, "prepared", <<B, P>>))
      <3>1. job'[j].pc = "drop" /\ job'[j].todo = <<B, P>>
        BY <1>3, <1>5, <2>2
      <3>2. dir' = dir /\ dir[P] # Nothing /\ dir[B] # Nothing
        BY <1>1, <1>7, <1>12, <2>2 DEF ConfirmBackup, PublishCopy
      <3> QED BY <3>1, <3>2, AwaitsFacts DEF OwnClean
    <2> QED BY <1>12, <2>1, <2>2 DEF ConfirmBackup, PublishCopy, disk
  <1>13. CASE SyncSource(j) \/ Reread(j) \/ CommitDependents(j) \/ CheckAgain(j) \/ RollBack(j)
              \/ Unpark(j) \/ RemoveFailed(j)
    BY <1>4, <1>6, <1>13 DEF SyncSource, Reread, CommitDependents, CheckAgain, RollBack, Unpark,
       RemoveFailed
  <1>14. CASE RecordPublished(j)
    BY <1>3, <1>4, <1>5, <1>6, <1>14 DEF RecordPublished
  <1>15. CASE Complete(j) \/ Fail(j)
    BY <1>3, <1>5, <1>6, <1>15 DEF Complete, Fail, Done, Return
  <1>16. CASE Dropped(j)
    <2>1. job'[j].pc \in {"abort", "stuck"} /\ (job'[j].pc = "abort" => job[j].ok)
      BY <1>4, <1>16 DEF Dropped
    <2>2. job[j].ok => \A e \in {P, B} : Gone(e)
      BY <1>8, <1>16, AwaitsFacts DEF Dropped
    <2>3. \A e \in {P, B} : Gone(e) => Gone(e)'
      BY <1>16, GoneHolds DEF Dropped
    <2> QED BY <2>1, <2>2, <2>3 DEF OwnClean
  <1>17. CASE SyncRollBack(j)
    <2>1. CASE Goto(j, "stuck")
      BY <1>4, <1>6, <2>1
    <2>2. CASE possible' = {dir}
      <3>1. dir' = dir /\ dir'[P] = Nothing /\ dir'[B] = Nothing /\ possible' = {dir'}
        BY <1>7, <1>17, <2>2 DEF SyncRollBack
      <3>2. Gone(P)' /\ Gone(B)'
        BY <3>1, GoneNow
      <3>3. job'[j].pc \in {"abort", "stuck"}
        BY <1>4, <1>17 DEF SyncRollBack
      <3> QED BY <3>2, <3>3 DEF OwnClean
    <2> QED BY <1>17, <2>1, <2>2 DEF SyncRollBack
  <1>18. CASE Drop(j)
    <2> DEFINE h == Head(job[j].todo)
               rest == [job[j] EXCEPT !.todo = Tail(job[j].todo)]
               removed == [dir EXCEPT ![h] = Nothing]
    <2>1. /\ job[j].todo \in DropLists(o) /\ job[j].todo # <<>> /\ job[j].pc = "drop"
      BY <1>18 DEF Drop, TypeInv, ThreadRight
    <2>2. h \in {P, B}
      BY <2>1, TailFacts DEF DropLists
    <2>3. /\ rest.todo = Tail(job[j].todo) /\ rest.ok = job[j].ok /\ rest.pc = "drop"
          /\ [rest EXCEPT !.ok = FALSE].ok = FALSE /\ [rest EXCEPT !.ok = FALSE].pc = "drop"
      BY <1>1, <2>1 DEF Thread
    <2>4. \A e \in {P, B} : Awaits(job[j].todo, e) => e = h \/ Awaits(Tail(job[j].todo), e)
      BY <1>1, <2>1, AwaitsTail
    <2> HIDE DEF h, rest
    <2>5. CASE dir[h] = Nothing /\ UNCHANGED disk /\ Becomes(j, rest)
      <3>1. job'[j] = rest /\ dir' = dir
        BY <1>3, <2>5 DEF disk
      <3>2. ASSUME job[j].ok, NEW e \in {P, B}
            PROVE  Gone(e)' \/ (dir'[e] # Nothing /\ Awaits(rest.todo, e))
        <4>1. Gone(e) => Gone(e)'
          BY <2>5, GoneHolds
        <4> QED BY <1>8, <2>1, <2>3, <2>4, <2>5, <3>1, <3>2, <4>1
      <3> QED BY <2>3, <3>1, <3>2 DEF OwnClean
    <2>6. CASE Synced(removed) /\ Becomes(j, rest)
      <3>1. /\ job'[j] = rest /\ dir' = removed /\ possible' = {dir'} /\ BecomesDir(removed)
            /\ removed \in Directories
        BY <1>1, <1>3, <2>6, SyncForms DEF Synced, Directories
      <3>2. ASSUME job[j].ok, NEW e \in {P, B}
            PROVE  Gone(e)' \/ (dir'[e] # Nothing /\ Awaits(rest.todo, e))
        <4>1. CASE e = h
          <5>1. dir'[e] = Nothing
            BY <1>1, <3>1, <4>1 DEF Directories
          <5> QED BY <3>1, <5>1, GoneNow
        <4>2. CASE e # h
          <5>1. removed[e] = dir[e]
            BY <1>1, <4>2 DEF Directories
          <5>2. Gone(e) => Gone(e)'
            <6>1. Gone(e) => removed[e] = Nothing
              BY <1>1, <5>1, GoneIsGone
            <6> HIDE DEF removed
            <6> QED BY <1>1, <3>1, <6>1, GoneStays
          <5> QED BY <1>8, <2>1, <2>3, <2>4, <3>1, <3>2, <4>2, <5>1, <5>2
        <4> QED BY <4>1, <4>2
      <3> QED BY <2>3, <3>1, <3>2 DEF OwnClean
    <2>7. CASE Becomes(j, [rest EXCEPT !.ok = FALSE])
      <3>1. job'[j] = [rest EXCEPT !.ok = FALSE]
        BY <1>3, <2>7
      <3> QED BY <2>3, <3>1 DEF OwnClean
    <2> QED BY <1>18, <2>5, <2>6, <2>7 DEF Drop, h, rest
  <1> QED BY <1>9, <1>10, <1>11, <1>12, <1>13, <1>14, <1>15, <1>16, <1>17, <1>18 DEF Save

LEMMA SaveKeepsGone ==
    ASSUME TypeInv, DiskInv, GoneInv, NEW j \in Jobs, Save(j)
    PROVE  GoneInv'
  <1> SUFFICES ASSUME NEW o, o = job[j].op PROVE GoneInv'
    OBVIOUS
  <1>1. /\ VarsTyped /\ o \in Ops /\ job[j].pc \in SavePCs /\ Exists(o)
        /\ Prepared(o) \in Entries /\ Backup(o) \in Entries /\ dir \in Directories
        /\ RolledBackGone /\ Clean(j)
    BY SaveIsEngaged, EngagedRecord DEF TypeInv, VarsTyped, GoneInv
  <1>2. /\ \A k \in Jobs \ {j} : job'[k] = job[k]
        /\ job'[j].pc \in SavePCs => job'[j].op = o
    BY SaveMoves
  <1>3. /\ \A q \in Ops : Exists(q)' <=> Exists(q)
        /\ \A q \in Ops \ {o} : journal'[q] = journal[q]
        /\ journal'[o].state = "rolled_back" =>
              journal[o].state = "rolled_back" \/ job[j].pc = "abort"
    BY SaveEvidence
  <1>4. DirStep(o)
    BY SaveDir
  <1>5. \A k \in Jobs \ {j} : job[k].pc \in SavePCs => job[k].op # o /\ job[k].op \in Ops
    BY <1>1, EngagedRecord DEF TypeInv, OneThread
  <1>6. RolledBackGone'
    <2> SUFFICES ASSUME NEW q \in Ops, Exists(q)', journal'[q].state = "rolled_back"
                 PROVE  Gone(Prepared(q))' /\ Gone(Backup(q))'
      BY DEF RolledBackGone
    <2>1. CASE q # o
      <3>1. Gone(Prepared(q)) /\ Gone(Backup(q))
        BY <1>1, <1>3, <2>1 DEF RolledBackGone
      <3> QED BY <1>1, <1>4, <2>1, <3>1, OthersGone
    <2>2. CASE q = o
      <3>1. job[j].pc \in {"drop", "abort", "stuck"} /\ Gone(Prepared(o)) /\ Gone(Backup(o))
        BY <1>1, <1>3, <2>2 DEF RolledBackGone, Clean, DeepPCs
      <3>2. dir[Prepared(o)] = Nothing /\ dir[Backup(o)] = Nothing
        BY <1>1, <3>1, GoneIsGone
      <3>3. \E d \in Directories : /\ BecomesDir(d)
                                   /\ d[Prepared(o)] = Nothing /\ d[Backup(o)] = Nothing
        <4>1. \/ BecomesDir(dir)
              \/ \E e \in {Prepared(o), Backup(o)} : BecomesDir([dir EXCEPT ![e] = Nothing])
          BY <3>1, SaveRenames DEF SaveDisk
        <4>2. ASSUME NEW e
              PROVE  LET d == [dir EXCEPT ![e] = Nothing]
                     IN /\ d \in Directories
                        /\ d[Prepared(o)] = Nothing /\ d[Backup(o)] = Nothing
          BY <1>1, <3>2 DEF Directories
        <4> QED BY <1>1, <3>2, <4>1, <4>2
      <3> QED BY <1>1, <2>2, <3>1, <3>3, GoneStays
    <2> QED BY <2>1, <2>2
  <1>7. Clean(j)'
    <2>1. CASE job'[j].pc \notin SavePCs
      BY <2>1 DEF Clean, DeepPCs, SavePCs, CleanPCs
    <2>2. CASE job'[j].pc \in SavePCs
      <3>1. /\ job'[j].op = o /\ Prepared(job[j].op)' = Prepared(o) /\ Backup(job[j].op)' = Backup(o)
        BY <1>2, <2>2 DEF Prepared, Backup
      <3>2. OwnClean(j)
        BY SaveOwnClean
      <3>3. (job[j].pc = "abort" => Gone(Prepared(job[j].op)) /\ Gone(Backup(job[j].op)))'
        BY <3>1, <3>2 DEF OwnClean, Gone
      <3>4. (job[j].pc = "drop" /\ job[j].ok =>
               \A e \in {Prepared(job[j].op), Backup(job[j].op)} :
                  Gone(e) \/ (dir[e] # Nothing /\ Awaits(job[j].todo, e)))'
        BY <3>1, <3>2 DEF OwnClean, Awaits
      <3>5. (job[j].pc \in DeepPCs => journal[job[j].op].state # "rolled_back")'
        <4>1. job'[j].pc \in DeepPCs => job[j].pc \in DeepPCs
          BY SaveOwn DEF OwnPlace
        <4>2. "abort" \notin DeepPCs
          BY DEF DeepPCs
        <4> QED BY <1>1, <1>3, <3>1, <4>1, <4>2 DEF Clean
      <3> QED BY <3>3, <3>4, <3>5 DEF Clean
    <2> QED BY <2>1, <2>2
  <1>8. ASSUME NEW k \in Jobs \ {j} PROVE Clean(k)'
    <2> SUFFICES ASSUME NEW q, q = job[k].op PROVE Clean(k)'
      OBVIOUS
    <2>1. job'[k] = job[k] /\ (o # job[k].op \/ job[k].pc \notin SavePCs)
      BY <1>2, <1>5
    <2>2. job[k].pc \in SavePCs => journal'[job[k].op] = journal[job[k].op]
      BY <1>3, <1>5
    <2> QED BY <1>4, <2>1, <2>2, OthersClean
  <1> QED BY <1>6, <1>7, <1>8 DEF GoneInv

(* The same for a step that is not of a save. *)
LEMMA AsideKeepsGone ==
    ASSUME TypeInv, GoneInv, UNCHANGED journal, NEW o, DirStep(o),
           o \in Ops => journal[o].state # "rolled_back",
           \A k \in Jobs : \/ job'[k] = job[k] /\ (job[k].pc \in SavePCs => job[k].op # o)
                           \/ job'[k].pc \notin SavePCs
                           \/ Clean(k)'
    PROVE  GoneInv'
  <1>1. VarsTyped /\ RolledBackGone
    BY DEF TypeInv, GoneInv
  <1>2. RolledBackGone'
    <2> SUFFICES ASSUME NEW q \in Ops, Exists(q)', journal'[q].state = "rolled_back"
                 PROVE  Gone(Prepared(q))' /\ Gone(Backup(q))'
      BY DEF RolledBackGone
    <2>1. Exists(q) /\ q \in Ops \ {o}
      BY DEF Exists
    <2>2. Gone(Prepared(q)) /\ Gone(Backup(q))
      BY <1>1, <2>1 DEF RolledBackGone
    <2> QED BY <1>1, <2>1, <2>2, OthersGone
  <1>3. ASSUME NEW k \in Jobs PROVE Clean(k)'
    <2>1. CASE job'[k] = job[k] /\ (job[k].pc \in SavePCs => job[k].op # o)
      BY <2>1, OthersClean
    <2>2. CASE job'[k].pc \notin SavePCs
      BY <2>2 DEF Clean, DeepPCs, SavePCs, CleanPCs
    <2> QED BY <2>1, <2>2
  <1> QED BY <1>2, <1>3 DEF GoneInv

LEMMA StillKeepsGone ==
    ASSUME TypeInv, DiskInv, GoneInv, UNCHANGED <<journal, disk>>,
           \A k \in Jobs : job'[k] = job[k] \/ job'[k].pc \notin SavePCs \/ Clean(k)'
    PROVE  GoneInv'
  <1>1. DirStep(0) /\ 0 \notin Ops
    BY NoDirStep, SyncForms, OpsAreVersions DEF TypeInv, DiskInv, disk
  <1>2. \A k \in Jobs : job[k].pc \in SavePCs => job[k].op # 0
    BY NoSaveAtZero
  <1>3. \A k \in Jobs : \/ job'[k] = job[k] /\ (job[k].pc \in SavePCs => job[k].op # 0)
                        \/ job'[k].pc \notin SavePCs
                        \/ Clean(k)'
    BY <1>2
  <1> QED BY <1>1, <1>3, AsideKeepsGone

LEMMA UndoKeepsGone ==
    ASSUME TypeInv, DiskInv, GoneInv, NEW j \in Jobs, Undo(j)
    PROVE  GoneInv'
  <1> SUFFICES ASSUME NEW o, o = job[j].op PROVE GoneInv'
    OBVIOUS
  <1>1. /\ o \in Ops /\ backups[o] # "none" /\ journal[o].state # "rolled_back"
        /\ job[j].pc \in UndoPCs
    BY UndoIsPlaced, UndoRecord
  <1>2. UNCHANGED journal /\ DirStep(o)
    BY UndoEvidence, UndoDir
  <1>3. (\A k \in Jobs \ {j} : job'[k] = job[k]) /\ job'[j].pc \notin SavePCs
    <2>1. Idle.pc = "idle" /\ Scan("undos", o).pc = "undos"
      BY DEF Idle, Scan, At
    <2> QED BY <2>1, UndoMoves, PlaceFacts
  <1>4. \A k \in Jobs \ {j} : job[k].pc \in SavePCs => job[k].op # o
    BY <1>1, UndoApart, JobFacts
  <1>5. \A k \in Jobs : \/ job'[k] = job[k] /\ (job[k].pc \in SavePCs => job[k].op # o)
                        \/ job'[k].pc \notin SavePCs
                        \/ Clean(k)'
    BY <1>3, <1>4
  <1> QED BY <1>1, <1>2, <1>5, AsideKeepsGone

(* What the startup job finds decides where it resumes. *)
LEMMA InspectClean ==
    ASSUME TypeInv, GoneInv, SeesDisk, Recover, job[Recovery].pc = "scan",
           job'[Recovery].pc \in SavePCs
    PROVE  Clean(Recovery)'
  <1>1. PICK t \in Thread : job' = [job EXCEPT ![Recovery] = t] /\ RecoverForm(t)
    BY RecoverMoves
  <1>2. job'[Recovery] = t /\ VarsTyped /\ RolledBackGone
    BY <1>1, JobFacts DEF TypeInv, VarsTyped, GoneInv
  <1>3. /\ UNCHANGED <<disk, evidence>> /\ t.op \in Ops /\ Unfinished(t.op)
        /\ \/ t.pc = "drop" /\ t.todo = <<Prepared(t.op), Backup(t.op)>> /\ t.ok
           \/ t.pc = "published" /\ Published(t.op)
           \/ t.pc = "stuck"
    <2>1. t.pc \notin {"undos", "idle"}
      BY <1>2, PlaceFacts
    <2> QED BY <1>1, <2>1 DEF RecoverForm, ExpiryPCs
  <1> SUFFICES ASSUME NEW q, q = t.op PROVE Clean(Recovery)'
    OBVIOUS
  <1>4. Exists(q) /\ Expected(q) # Nothing
    <2>1. Exists(q)
      BY <1>3 DEF TypeInv, RowsRight
    <2> QED BY <1>2, <1>3, <2>1, ExistingRecord
  <1>5. Prepared(job[Recovery].op)' = Prepared(q) /\ Backup(job[Recovery].op)' = Backup(q)
    BY <1>2 DEF Prepared, Backup
  <1>6. dir' = dir /\ journal' = journal /\ \A e : Gone(e)' <=> Gone(e)
    BY <1>3, GoneHolds DEF disk, evidence
  <1>7. CASE t.pc = "drop" /\ t.todo = <<Prepared(q), Backup(q)>>
    <2>1. \A e \in {Prepared(q), Backup(q)} : Gone(e) \/ (dir[e] # Nothing /\ Awaits(t.todo, e))
      BY <1>3, <1>7, AwaitsFacts DEF SeesDisk
    <2>2. (job[Recovery].pc = "drop" /\ job[Recovery].ok =>
             \A e \in {Prepared(job[Recovery].op), Backup(job[Recovery].op)} :
                Gone(e) \/ (dir[e] # Nothing /\ Awaits(job[Recovery].todo, e)))'
      BY <1>2, <1>5, <1>6, <2>1 DEF Awaits
    <2>3. job'[Recovery].pc = "drop" /\ "drop" \notin DeepPCs
      BY <1>2, <1>7 DEF DeepPCs
    <2> QED BY <2>2, <2>3 DEF Clean
  <1>8. CASE t.pc = "published" /\ Published(q)
    <2>1. journal[q].state # "rolled_back"
      <3>1. dir[Backup(q)] # Nothing
        BY <1>4, <1>8 DEF Published
      <3> QED BY <1>2, <1>3, <1>4, <3>1, GoneIsGone DEF RolledBackGone
    <2> QED BY <1>2, <1>6, <1>8, <2>1 DEF Clean
  <1>9. CASE t.pc = "stuck"
    BY <1>2, <1>9 DEF Clean, DeepPCs
  <1> QED BY <1>3, <1>7, <1>8, <1>9

LEMMA RecoverKeepsGone ==
    ASSUME TypeInv, DiskInv, GoneInv, SeesDisk, Recover
    PROVE  GoneInv'
  <1> SUFFICES ASSUME NEW r, r = job[Recovery].op PROVE GoneInv'
    OBVIOUS
  <1>1. PICK t \in Thread : job' = [job EXCEPT ![Recovery] = t] /\ RecoverForm(t)
    BY RecoverMoves
  <1>2. /\ job'[Recovery] = t /\ \A k \in Jobs \ {Recovery} : job'[k] = job[k]
        /\ job[Recovery].pc \in {"load", "scan", "undos", "expire"} \cup ExpiryPCs
    BY <1>1, JobFacts, RecoverRest DEF TypeInv, VarsTyped
  <1>3. UNCHANGED journal
    BY <1>1 DEF RecoverForm, evidence
  <1>4. \A k \in Jobs \ {Recovery} : job'[k] = job[k]
    BY <1>2
  <1>5. job'[Recovery].pc \notin SavePCs \/ Clean(Recovery)'
    <2>1. CASE job[Recovery].pc = "scan"
      BY <2>1, InspectClean
    <2>2. CASE job[Recovery].pc # "scan"
      <3>1. t.pc \in {"scan", "expire", "undoing", "idle"} \cup ExpiryPCs
        BY <1>1, <2>2 DEF RecoverForm
      <3> QED BY <1>2, <3>1 DEF ExpiryPCs, SavePCs, CommitPCs, CleanPCs
    <2> QED BY <2>1, <2>2
  <1>6. CASE BecomesDir(dir)
    <2>1. DirStep(0) /\ 0 \notin Ops
      BY <1>6, NoDirStep, OpsAreVersions DEF TypeInv, DiskInv
    <2>2. \A k \in Jobs : \/ job'[k] = job[k] /\ (job[k].pc \in SavePCs => job[k].op # 0)
                          \/ job'[k].pc \notin SavePCs
                          \/ Clean(k)'
      BY <1>4, <1>5, NoSaveAtZero
    <2> QED BY <1>3, <2>1, <2>2, AsideKeepsGone
  <1>7. CASE /\ r \in Ops /\ backups[r] = "retained" /\ DirStep(r)
             /\ job[Recovery].pc \in ExpiryPCs \cup {"expire"}
    <2>1. journal[r].state # "rolled_back"
      BY <1>7 DEF TypeInv, RowsRight
    <2>2. \A k \in Jobs \ {Recovery} : job[k].pc \in SavePCs => job[k].op # r
      BY <1>7, UndoApart
    <2>3. \A k \in Jobs : \/ job'[k] = job[k] /\ (job[k].pc \in SavePCs => job[k].op # r)
                          \/ job'[k].pc \notin SavePCs
                          \/ Clean(k)'
      BY <1>4, <1>5, <2>2
    <2> QED BY <1>3, <1>7, <2>1, <2>3, AsideKeepsGone
  <1> QED BY <1>6, <1>7, RecoverDir DEF DirStep

LEMMA BeginKeepsGone ==
    ASSUME TypeInv, DiskInv, GoneInv, NEW j \in Workers, Begin(j)
    PROVE  GoneInv'
  <1>1. PICK o \in Ops, kind \in Kinds :
              /\ NextRow(o) /\ job[j].pc = "idle"
              /\ At("created", o, "planned") \in Thread
              /\ job' = [job EXCEPT ![j] = At("created", o, "planned")]
              /\ journal' = [journal EXCEPT ![o] =
                    [state |-> "planned", expected |-> dir[Source], kind |-> kind]]
              /\ UNCHANGED disk
    BY BeginForm
  <1>2. PICK r : journal' = [journal EXCEPT ![o] = r] /\ r.state = "planned"
    <2> DEFINE r == [state |-> "planned", expected |-> dir[Source], kind |-> kind]
    <2>1. r.state = "planned"
      OBVIOUS
    <2>2. journal' = [journal EXCEPT ![o] = r]
      BY <1>1
    <2> HIDE DEF r
    <2> QED BY <2>1, <2>2
  <1>3. PICK s \in Thread : job' = [job EXCEPT ![j] = s] /\ s.pc = "created" /\ s.op = o
    BY <1>1 DEF At, Idle
  <1>4. /\ VarsTyped /\ RolledBackGone /\ ~Exists(o)
        /\ journal'[o].state = "planned" /\ \A q \in Ops \ {o} : journal'[q] = journal[q]
        /\ job'[j] = s /\ \A k \in Jobs \ {j} : job'[k] = job[k]
    BY <1>1, <1>2, <1>3, JobFacts DEF TypeInv, VarsTyped, GoneInv, NextRow
  <1>5. \A e : Gone(e)' <=> Gone(e)
    BY <1>1, GoneHolds
  <1>6. RolledBackGone'
    <2> SUFFICES ASSUME NEW q \in Ops, Exists(q)', journal'[q].state = "rolled_back"
                 PROVE  Gone(Prepared(q))' /\ Gone(Backup(q))'
      BY DEF RolledBackGone
    <2>1. q # o /\ Exists(q) /\ journal[q].state = "rolled_back"
      BY <1>4 DEF Exists
    <2>2. Gone(Prepared(q)) /\ Gone(Backup(q))
      BY <1>4, <2>1 DEF RolledBackGone
    <2> QED BY <1>5, <2>2
  <1>7. Clean(j)'
    <2>1. job'[j].op = o /\ job'[j].pc = "created"
      BY <1>3, <1>4
    <2> QED BY <1>4, <2>1 DEF Clean
  <1>8. ASSUME NEW k \in Jobs \ {j} PROVE Clean(k)'
    <2>1. DirStep(0)
      BY <1>1, <1>4, NoDirStep, SyncForms DEF DiskInv
    <2>2. job[k].pc \in SavePCs => job[k].op \in Ops \ {o} /\ job[k].op # 0
      BY <1>4, EngagedRecord, NoSaveAtZero
    <2>3. job'[k] = job[k] /\ (job[k].pc \in SavePCs => journal'[job[k].op] = journal[job[k].op])
      BY <1>4, <2>2
    <2> QED BY <2>1, <2>2, <2>3, OthersClean
  <1> QED BY <1>6, <1>7, <1>8 DEF GoneInv

LEMMA CrashKeepsGone ==
    ASSUME TypeInv, GoneInv, Crash
    PROVE  GoneInv'
  <1>1. VarsTyped /\ RolledBackGone /\ UNCHANGED journal
    BY CrashForm DEF TypeInv, GoneInv, evidence
  <1>2. \A e : Gone(e) => Gone(e)'
    <2>1. CASE UNCHANGED disk
      BY <2>1, GoneHolds
    <2>2. CASE "power" \in CrashKinds
      BY <2>2, CrashForm DEF Gone, Disks
    <2> QED BY <2>1, <2>2, CrashForm
  <1>3. RolledBackGone'
    <2> SUFFICES ASSUME NEW q \in Ops, Exists(q)', journal'[q].state = "rolled_back"
                 PROVE  Gone(Prepared(q))' /\ Gone(Backup(q))'
      BY DEF RolledBackGone
    <2>1. Exists(q) /\ journal[q].state = "rolled_back"
      BY <1>1 DEF Exists
    <2> QED BY <1>1, <1>2, <2>1 DEF RolledBackGone
  <1>4. \A j \in Jobs : Clean(j)'
    <2>1. \A j \in Jobs : job'[j].pc = "idle"
      BY CrashForm, ThreadValues
    <2>2. "idle" \notin DeepPCs
      BY PlaceFacts DEF DeepPCs
    <2> QED BY <2>1, <2>2 DEF Clean
  <1> QED BY <1>3, <1>4 DEF GoneInv

LEMMA InitGone == Init => GoneInv
  <1> SUFFICES ASSUME Init PROVE GoneInv
    OBVIOUS
  <1>1. \A j \in Jobs : job[j].pc = "idle"
    BY ThreadValues DEF Init
  <1>2. "idle" \notin DeepPCs
    BY PlaceFacts DEF DeepPCs
  <1>3. \A o \in Ops : ~Exists(o)
    BY DEF Init, Exists
  <1> QED BY <1>1, <1>2, <1>3 DEF GoneInv, RolledBackGone, Clean

LEMMA NextGone == TypeInv /\ DiskInv /\ GoneInv /\ SeesDisk /\ [Next]_vars => GoneInv'
  <1> SUFFICES ASSUME TypeInv, DiskInv, GoneInv, SeesDisk, [Next]_vars PROVE GoneInv'
    OBVIOUS
  <1>1. CASE Start \/ Close
    <2>1. UNCHANGED <<journal, disk>>
      BY <1>1 DEF Start, Close, evidence
    <2>2. \A k \in Jobs : job'[k] = job[k] \/ job'[k].pc \notin SavePCs
      <3>1. Idle.pc = "idle" /\ Scan("load", 0).pc = "load"
        BY DEF Idle, Scan, At
      <3>2. \A k \in Jobs : job'[k] = job[k] \/ job'[k] = Idle \/ job'[k] = Scan("load", 0)
        BY <1>1 DEF Start, Close, Becomes, Return, TypeInv, VarsTyped
      <3> QED BY <3>1, <3>2, PlaceFacts
    <2> QED BY <2>1, <2>2, StillKeepsGone
  <1>2. CASE Edit \/ Move
    <2>1. DirStep(0) /\ UNCHANGED <<journal, job>> /\ 0 \notin Ops
      BY <1>2, EditDir, MoveDir, OpsAreVersions DEF Edit, Move, evidence
    <2>2. \A k \in Jobs : \/ job'[k] = job[k] /\ (job[k].pc \in SavePCs => job[k].op # 0)
                          \/ job'[k].pc \notin SavePCs
                          \/ Clean(k)'
      BY <2>1, NoSaveAtZero
    <2> QED BY <2>1, <2>2, AsideKeepsGone
  <1>3. CASE Crash
    BY <1>3, CrashKeepsGone
  <1>4. ASSUME NEW j \in Workers, BeginUndo(j) PROVE GoneInv'
    <2>1. UNCHANGED <<journal, disk>>
      BY <1>4, BeginUndoForm
    <2>2. \A k \in Jobs : job'[k] = job[k] \/ job'[k].pc \notin SavePCs
      <3>1. \A o : At("undoing", o, "undoing").pc = "undoing"
        BY DEF Idle, At
      <3>2. job' = job \/ \E o \in Ops : job' = [job EXCEPT ![j] = At("undoing", o, "undoing")]
        BY <1>4, BeginUndoForm
      <3>3. "undoing" \notin SavePCs
        BY DEF SavePCs, CommitPCs, CleanPCs
      <3> QED BY <3>1, <3>2, <3>3 DEF TypeInv, VarsTyped
    <2> QED BY <2>1, <2>2, StillKeepsGone
  <1>5. ASSUME NEW j \in Workers, Begin(j) PROVE GoneInv'
    BY <1>5, BeginKeepsGone
  <1>6. ASSUME NEW j \in Jobs, Save(j) \/ Undo(j) PROVE GoneInv'
    BY <1>6, SaveKeepsGone, UndoKeepsGone
  <1>7. CASE Recover
    BY <1>7, RecoverKeepsGone
  <1>8. CASE UNCHANGED vars
    BY <1>8, StillKeepsGone DEF vars, disk
  <1> QED BY <1>1, <1>2, <1>3, <1>4, <1>5, <1>6, <1>7, <1>8 DEF Next

(* A save that was rolled back has left no hidden sibling, neither now nor *)
(* in any directory a power loss can still bring back.  The startup job    *)
(* takes an absent entry for a removed one, so the theorem asks that what  *)
(* it finds absent has been absent since the last sync of the directory.   *)
THEOREM RolledBackLeavesNothing ==
    ASSUME "power" \in CrashKinds
    PROVE  Spec /\ []SeesDisk => []NothingLeftBehind
  <1>1. RolledBackGone => NothingLeftBehind
    BY DEF RolledBackGone, NothingLeftBehind, Gone, Disks
  <1>2. GoneInv => RolledBackGone
    BY DEF GoneInv
  <1> QED BY <1>1, <1>2, InitTyped, InitDisk, InitGone, NextTyped, NextDisk, NextGone, PTL DEF Spec

(* Where only processes crash nothing is asked: the directory has neither  *)
(* sibling of a save that was rolled back.                                 *)
THEOREM RolledBackIsGone ==
    ASSUME "power" \notin CrashKinds
    PROVE  Spec => [](\A o \in Ops : Exists(o) /\ journal[o].state = "rolled_back" =>
                         dir[Prepared(o)] = Nothing /\ dir[Backup(o)] = Nothing)
  <1> DEFINE NoSibling ==
        \A o \in Ops : Exists(o) /\ journal[o].state = "rolled_back" =>
           dir[Prepared(o)] = Nothing /\ dir[Backup(o)] = Nothing
  <1>1. SeesDisk
    BY DEF SeesDisk, Gone, Disks
  <1>2. GoneInv => NoSibling
    BY DEF GoneInv, RolledBackGone, Gone, Disks
  <1>3. TypeInv /\ DiskInv /\ GoneInv /\ [Next]_vars => GoneInv'
    BY <1>1, NextGone
  <1> QED BY <1>2, <1>3, InitTyped, InitDisk, InitGone, NextTyped, NextDisk, PTL DEF Spec

-------------------------------------------------------------------------------
(* The version a save replaces stays readable until the save is settled.   *)

Open(o) == Exists(o) /\ journal[o].state \in OpenStates
Unresolved(o) == Exists(o) /\ journal[o].state \notin Settled

(* What the admission of tag saves brings about.                           *)
OneAtATime == \A o, q \in Ops : Unresolved(o) /\ Unresolved(q) => o = q

(* No save replaces what another program has written.                      *)
Own == \A o \in Ops : Exists(o) => Expected(o) \notin Foreign

Native(d) == d[Source] \notin Foreign
Fine == Own /\ Native(dir)

(* A settled save may have left a version in a directory that was not      *)
(* synced since: its copy or the file it replaced.                         *)
Left(v, d) ==
    \E q \in Ops : \/ journal[q].state = "complete" /\ d[Prepared(q)] = v
                   \/ journal[q].state = "rolled_back" /\ d[Backup(q)] = v

Keeps(o, d) ==
    d[Source] = Expected(o) \/ d[Backup(o)] = Expected(o) \/ Left(Expected(o), d)

SourceThere == \A d \in possible : d[Source] # Nothing
ExpectedOther == \A o \in Ops : Exists(o) => Expected(o) # o

(* The lists have followed a save that is found verified or complete.      *)
Followed ==
    /\ \A o \in Ops : journal[o].state = "complete" => SaveOf(o) \in refreshed
    /\ \A j \in Jobs : job[j].pc \in {"listed", "verified"} => SaveOf(job[j].op) \in refreshed

NativeDirs == Fine => \A d \in possible : Native(d)

OriginalsKept ==
    Own => \A o \in Ops : Open(o) => \A d \in possible : Native(d) => Keeps(o, d)

CopiesKept ==
    Own => \A o \in Ops : Open(o) /\ dir[Source] = o =>
              \A d \in possible : Native(d) => d[Source] = o \/ d[Prepared(o)] = o

LatestKept ==
    Fine /\ (\A o \in Ops : ~Unresolved(o)) =>
        \A d \in possible : d[Source] = dir[Source] \/ Left(dir[Source], d)

FileInv == NativeDirs /\ OriginalsKept /\ CopiesKept /\ LatestKept

BeforePCs == {"created", "copied", "ready", "linked", "safe", "exchanged", "unparked",
              "cleared", "drop", "abort"}
AfterPCs == {"renamed", "synced", "published", "reread", "listed", "verified", "rollback"}

(* Where a thread with an open record stands tells what the path names.    *)
Laid(j) ==
    LET o == job[j].op
        pc == job[j].pc
    IN /\ pc \in BeforePCs => dir[Source] = Expected(o)
       /\ pc \in AfterPCs => dir[Source] = o
       /\ pc \in AfterPCs \cup {"safe"} => dir[Backup(o)] = Expected(o)
       /\ pc = "safe" => \A d \in possible : d[Prepared(o)] = o

(* The startup job may work on a record that was settled since it was      *)
(* read: it gets no further than the comparison before its exchange.       *)
Spent(j) ==
    LET o == job[j].op
        pc == job[j].pc
    IN /\ pc \in {"drop", "abort", "stuck", "published", "reread", "listed", "verified", "rollback"}
       /\ pc = "rollback" => dir[Source] # o
       /\ journal[o].state = "rolled_back" => pc \in {"drop", "abort", "stuck"}

ThreadsLaid ==
    \A j \in Jobs : job[j].pc \in SavePCs =>
       /\ Open(job[j].op) => Laid(j)
       /\ journal[job[j].op].state \in Settled => Spent(j)

Reading == job[Recovery].pc \in {"scan"} \cup SavePCs

RolledBackAway ==
    Reading => \A q \in Ops : Unfinished(q) /\ journal[q].state = "rolled_back" =>
       dir[Source] # q /\ \A o \in Ops : Unresolved(o) => Expected(o) # q

(* Only a crash makes the path forget both versions of an open save, and   *)
(* then nothing but the doubt about it is recorded.                        *)
Strayed(o) == Open(o) /\ dir[Source] # Expected(o) /\ dir[Backup(o)] # Expected(o)

OnlyDoubt ==
    \A o \in Ops : Strayed(o) =>
       /\ \A j \in Jobs : job[j].pc \in SavePCs => job[j].pc = "stuck" /\ job[j].op = o
       /\ Reading => \A q \in Ops : Unfinished(q) => q = o

FineInv == Fine => ThreadsLaid /\ RolledBackAway /\ OnlyDoubt

NeverInv == SourceThere /\ ExpectedOther /\ Followed /\ FileInv /\ FineInv

(* The part of a step that concerns the path of the file.                  *)
LEMMA KeptStep ==
    ASSUME FileInv, journal' = journal, NEW d, BecomesDir(d),
           Own /\ Native(d) => Native(dir),
           \A o \in Ops : Own /\ Native(d) /\ Open(o) => Keeps(o, d),
           \A o \in Ops : Own /\ Native(d) /\ Open(o) /\ d[Source] = o =>
              \/ dir[Source] = o
              \/ \A c \in possible : Native(c) => c[Prepared(o)] = o,
           Fine /\ Native(d) /\ (\A o \in Ops : ~Unresolved(o)) => d[Source] = dir[Source]
    PROVE  FileInv'
  <1>1. dir' = d /\ possible' \subseteq possible \cup {d}
    BY DEF BecomesDir
  <1>2. /\ Own' <=> Own
        /\ \A o \in Ops : (Open(o)' <=> Open(o)) /\ (Unresolved(o)' <=> Unresolved(o))
                          /\ Expected(o)' = Expected(o)
    BY DEF Own, Open, Unresolved, Exists, Expected
  <1>3. /\ \A c : Native(c)' <=> Native(c)
        /\ \A c, v : Left(v, c)' <=> Left(v, c)
        /\ Left(dir[Source], d)' <=> Left(d[Source], d)
    BY <1>1 DEF Native, Source, Left, Prepared, Backup
  <1>4. \A c : \A o \in Ops : Keeps(o, c)' <=> Keeps(o, c)
    BY <1>2, <1>3 DEF Keeps, Source, Backup, Left, Prepared, Expected
  <1>5. Fine' <=> Own /\ Native(d)
    BY <1>1, <1>2 DEF Fine, Native, Source
  <1>6. NativeDirs'
    BY <1>1, <1>3, <1>5 DEF NativeDirs, FileInv, Fine
  <1>7. OriginalsKept'
    BY <1>1, <1>2, <1>3, <1>4 DEF OriginalsKept, FileInv
  <1>8. CopiesKept'
    <2> SUFFICES ASSUME Own, NEW o \in Ops, Open(o), d[Source] = o, NEW c \in possible', Native(c)
                 PROVE  c[Source] = o \/ c[Prepared(o)] = o
      BY <1>1, <1>2, <1>3 DEF CopiesKept, Source, Prepared
    <2>1. CASE c = d
      BY <2>1
    <2>2. CASE c \in possible
      <3>1. Native(d) => dir[Source] = o \/ c[Prepared(o)] = o
        BY <2>2
      <3>2. Native(d)
        <4>1. Foreign \cap Ops = {}
          BY OpsAreVersions
        <4> QED BY <4>1 DEF Native
      <3> QED BY <2>2, <3>1, <3>2 DEF FileInv, CopiesKept
    <2> QED BY <1>1, <2>1, <2>2
  <1>9. LatestKept'
    <2> SUFFICES ASSUME Own, Native(d), \A o \in Ops : ~Unresolved(o), NEW c \in possible'
                 PROVE  c[Source] = d[Source] \/ Left(d[Source], c)
      BY SMTT(60), <1>1, <1>2, <1>3, <1>5 DEF LatestKept, Source, Left, Prepared, Backup
    <2>1. Fine /\ d[Source] = dir[Source]
      BY DEF Fine
    <2> QED BY <1>1, <2>1 DEF FileInv, LatestKept
  <1> QED BY <1>6, <1>7, <1>8, <1>9 DEF FileInv

(* A save writes its record or touches the directory, never both.          *)
LEMMA SaveNews ==
    ASSUME TypeInv, NEW j \in Jobs, Save(j)
    PROVE  LET o == job[j].op
           IN /\ UNCHANGED disk \/ UNCHANGED evidence
              /\ journal'[o].state = "complete" =>
                    journal[o].state = "complete" \/ job[j].pc = "verified"
              /\ job'[j].pc \in {"listed", "verified"} =>
                    \/ job[j].pc \in {"listed", "verified"} \/ SaveOf(o) \in refreshed'
                    \/ lapses' # {}
  <1> DEFINE o == job[j].op
  <1>1. /\ job \in [Jobs -> Thread] /\ job[j] \in Thread /\ o \in Ops /\ Exists(o)
        /\ job[j].known \in OpenStates /\ VarsTyped
    BY SaveIsEngaged, EngagedRecord DEF TypeInv, VarsTyped
  <1>2. \A t : Becomes(j, t) => job'[j] = t
    BY <1>1 DEF Becomes
  <1>3. \A pc : Goto(j, pc) => job'[j].pc = pc
    BY <1>1, <1>2 DEF Goto, Thread
  <1>4. \A pc, known, todo : /\ At(pc, o, known).pc = pc /\ DropAt(o, known, todo).pc = "drop"
                             /\ Scan(pc, o).pc = pc /\ Idle.pc = "idle"
    BY DEF At, DropAt, Scan, Idle
  <1>5. \A from \in OpenStates, to \in JournalStates : Write(o, from, to) => journal'[o].state = to
    BY <1>1, WriteEffect
  <1>6. {"planned", "prepared", "published"} \subseteq OpenStates
        /\ {"prepared", "published", "complete", "rolled_back", "needs_reconciliation"} \subseteq JournalStates
    BY DEF OpenStates, JournalStates
  <1>7. CASE Prepare(j) \/ LinkBackup(j) \/ ConfirmBackup(j) \/ PublishCopy(j) \/ SyncSource(j)
             \/ Drop(j) \/ Dropped(j) \/ RollBack(j) \/ Unpark(j) \/ RemoveFailed(j) \/ SyncRollBack(j)
    <2>1. UNCHANGED evidence
      BY <1>7 DEF Prepare, LinkBackup, ConfirmBackup, PublishCopy, SyncSource, Drop, Dropped, RollBack,
           Unpark, RemoveFailed, SyncRollBack
    <2>2. job'[j].pc \notin {"listed", "verified"}
      <3>1. CASE Drop(j)
        <4>1. [job[j] EXCEPT !.todo = Tail(job[j].todo)].pc = job[j].pc
              /\ [[job[j] EXCEPT !.todo = Tail(job[j].todo)] EXCEPT !.ok = FALSE].pc = job[j].pc
          BY <1>1 DEF Thread
        <4> QED BY <1>2, <3>1, <4>1 DEF Drop
      <3>2. CASE ~Drop(j)
        BY <1>2, <1>3, <1>4, <1>7, <3>2 DEF Prepare, LinkBackup, ConfirmBackup, PublishCopy, SyncSource,
           Dropped, RollBack, Unpark, RemoveFailed, SyncRollBack
      <3> QED BY <3>1, <3>2
    <2> QED BY <2>1, <2>2 DEF evidence
  <1>8. CASE RecordPrepared(j) \/ RecordPublished(j)
    <2>1. UNCHANGED disk /\ job'[j].pc \notin {"listed", "verified"}
      BY <1>2, <1>3, <1>4, <1>8 DEF RecordPrepared, RecordPublished
    <2>2. UNCHANGED evidence \/ journal'[o].state \in {"prepared", "published"}
      BY <1>5, <1>6, <1>8 DEF RecordPrepared, RecordPublished, WriteFails
    <2> QED BY <2>1, <2>2 DEF evidence
  <1>9. CASE Reread(j) \/ CommitDependents(j)
    <2>1. UNCHANGED <<disk, evidence>>
      BY <1>9 DEF Reread, CommitDependents
    <2>2. SaveOf(o) \in refreshed' \/ job'[j].pc \notin {"listed", "verified"} \/ lapses' # {}
      BY <1>3, <1>9 DEF Reread, CommitDependents, Refresh
    <2> QED BY <2>1, <2>2 DEF evidence
  <1>10. CASE CheckAgain(j) \/ Complete(j)
    BY <1>10 DEF CheckAgain, Complete, evidence
  <1>11. CASE Fail(j)
    <2>1. UNCHANGED disk /\ job'[j].pc \notin {"listed", "verified"}
      BY <1>2, <1>4, <1>11 DEF Fail, Done, Return
    <2>2. UNCHANGED evidence \/ journal'[o].state \in {"rolled_back", "needs_reconciliation"}
      BY <1>1, <1>5, <1>6, <1>11 DEF Fail, WriteFails
    <2> QED BY <2>1, <2>2 DEF evidence
  <1> QED BY <1>7, <1>8, <1>9, <1>10, <1>11 DEF Save

LEMMA SaveFollowed ==
    ASSUME TypeInv, Followed, NEW j \in Jobs, Save(j), lapses' = {}
    PROVE  Followed'
  <1> SUFFICES ASSUME NEW o, o = job[j].op PROVE Followed'
    OBVIOUS
  <1>1. /\ refreshed \subseteq refreshed'
        /\ \A k \in Jobs \ {j} : job'[k] = job[k]
        /\ job'[j].pc \in SavePCs => job'[j].op = o
        /\ \A q \in Ops \ {o} : journal'[q] = journal[q]
    <2>1. refreshed \subseteq refreshed'
      BY SaveLists DEF lists, Refresh
    <2> QED BY <2>1, SaveMoves, SaveEvidence
  <1>2. /\ journal'[o].state = "complete" => journal[o].state = "complete" \/ job[j].pc = "verified"
        /\ job'[j].pc \in {"listed", "verified"} =>
              job[j].pc \in {"listed", "verified"} \/ SaveOf(o) \in refreshed'
    BY SaveNews
  <1>3. ASSUME NEW q \in Ops, journal'[q].state = "complete" PROVE SaveOf(q) \in refreshed'
    <2>1. CASE q = o
      BY <1>1, <1>2, <1>3, <2>1 DEF Followed
    <2>2. CASE q # o
      BY <1>1, <1>3, <2>2 DEF Followed
    <2> QED BY <2>1, <2>2
  <1>4. ASSUME NEW k \in Jobs, job'[k].pc \in {"listed", "verified"} PROVE SaveOf(job'[k].op) \in refreshed'
    <2>1. CASE k = j
      <3>1. job'[j].op = o
        BY <1>1, <1>4, <2>1 DEF SavePCs, CommitPCs
      <3> QED BY <1>1, <1>2, <1>4, <2>1, <3>1 DEF Followed
    <2>2. CASE k # j
      BY <1>1, <1>4, <2>2 DEF Followed
    <2> QED BY <2>1, <2>2
  <1>5. \A q : SaveOf(q)' = SaveOf(q)
    BY DEF SaveOf
  <1>6. \A k \in Jobs : SaveOf(job[k].op)' = SaveOf(job'[k].op)
    BY DEF SaveOf
  <1> QED BY <1>3, <1>4, <1>5, <1>6 DEF Followed

-------------------------------------------------------------------------------
(* A save and the path of the file, where the filesystem can exchange.     *)

LEMMA SaveSource ==
    ASSUME TypeInv, DiskInv, ~Undoes, AtomicExchange, NEW j \in Jobs, Save(j)
    PROVE  LET o == job[j].op
               pc == job[j].pc
           IN \E d \in Directories :
                 /\ BecomesDir(d)
                 /\ \A q \in Ops \ {o} :
                       d[Prepared(q)] = dir[Prepared(q)] /\ d[Backup(q)] = dir[Backup(q)]
                 /\ \/ /\ d[Source] = dir[Source]
                       /\ \/ d[Backup(o)] = dir[Backup(o)]
                          \/ pc = "ready" /\ d[Backup(o)] = Expected(o)
                          \/ pc \in {"exchanged", "unparked", "drop"}
                       /\ pc \notin {"created", "exchanged", "unparked", "drop"} =>
                             d[Prepared(o)] = dir[Prepared(o)]
                    \/ /\ pc = "safe" /\ dir[Source] = Expected(o) /\ d[Source] = o
                       /\ d[Backup(o)] = dir[Backup(o)]
                    \/ pc = "rollback" /\ Published(o) /\ d[Source] = Expected(o)
  <1> SUFFICES ASSUME NEW o, o = job[j].op
               PROVE  \E d \in Directories :
                 /\ BecomesDir(d)
                 /\ \A q \in Ops \ {o} :
                       d[Prepared(q)] = dir[Prepared(q)] /\ d[Backup(q)] = dir[Backup(q)]
                 /\ \/ /\ d[Source] = dir[Source]
                       /\ \/ d[Backup(o)] = dir[Backup(o)]
                          \/ job[j].pc = "ready" /\ d[Backup(o)] = Expected(o)
                          \/ job[j].pc \in {"exchanged", "unparked", "drop"}
                       /\ job[j].pc \notin {"created", "exchanged", "unparked", "drop"} =>
                             d[Prepared(o)] = dir[Prepared(o)]
                    \/ /\ job[j].pc = "safe" /\ dir[Source] = Expected(o) /\ d[Source] = o
                       /\ d[Backup(o)] = dir[Backup(o)]
                    \/ job[j].pc = "rollback" /\ Published(o) /\ d[Source] = Expected(o)
    OBVIOUS
  <1> DEFINE P == Prepared(o)
             B == Backup(o)
             x == Expected(o)
  <1>1. /\ dir \in Directories /\ o \in Versions /\ x \in Versions /\ o \in Ops
        /\ P \in Entries /\ B \in Entries /\ Held(j)
    BY SaveIsEngaged, EngagedRecord DEF TypeInv, VarsTyped, DiskInv
  <1>2. /\ Source \in Entries /\ P # B /\ Source # P /\ Source # B
        /\ \A q \in Ops \ {o} : /\ Prepared(q) \in Entries /\ Backup(q) \in Entries
                                /\ {Prepared(q), Backup(q)} \cap {Source, P, B} = {}
    BY <1>1, EntryFacts
  <1>3. job[j].pc # "parked" /\ (job[j].pc = "safe" => dir[Source] = x)
    BY <1>1 DEF Held, Calm
  <1>4. CASE BecomesDir(dir)
    BY <1>1, <1>4
  <1>5. CASE job[j].pc = "created" /\ BecomesDir([dir EXCEPT ![P] = o])
    <2> DEFINE d == [dir EXCEPT ![P] = o]
    <2>1. d \in Directories /\ \A e \in Entries : d[e] = IF e = P THEN o ELSE dir[e]
      BY <1>1 DEF Directories
    <2> HIDE DEF d
    <2> QED BY <1>1, <1>2, <1>5, <2>1 DEF d
  <1>6. CASE job[j].pc = "ready" /\ BecomesDir([dir EXCEPT ![B] = x])
    <2> DEFINE d == [dir EXCEPT ![B] = x]
    <2>1. d \in Directories /\ \A e \in Entries : d[e] = IF e = B THEN x ELSE dir[e]
      BY <1>1 DEF Directories
    <2> HIDE DEF d
    <2>2. BecomesDir(d)
      BY <1>6 DEF d
    <2>3. d \in Directories
      BY <2>1
    <2> WITNESS d \in Directories
    <2> QED BY <1>1, <1>2, <1>6, <2>1, <2>2
  <1>7. CASE job[j].pc = "safe" /\ BecomesDir([dir EXCEPT ![Source] = o, ![P] = Nothing])
    <2> DEFINE d == [dir EXCEPT ![Source] = o, ![P] = Nothing]
    <2>1. /\ d \in Directories
          /\ \A e \in Entries : d[e] = IF e = P THEN Nothing ELSE IF e = Source THEN o ELSE dir[e]
      BY <1>1 DEF Directories
    <2> HIDE DEF d
    <2> QED BY ZenonT(60), <1>1, <1>2, <1>3, <1>7, <2>1 DEF d
  <1>8. CASE job[j].pc = "rollback" /\ Published(o) /\ BecomesDir([dir EXCEPT ![Source] = x, ![B] = o])
    <2> DEFINE d == [dir EXCEPT ![Source] = x, ![B] = o]
    <2>1. /\ d \in Directories
          /\ \A e \in Entries : d[e] = IF e = B THEN o ELSE IF e = Source THEN x ELSE dir[e]
      BY <1>1 DEF Directories
    <2> HIDE DEF d
    <2>2. BecomesDir(d)
      BY <1>8 DEF d
    <2>3. d \in Directories
      BY <2>1
    <2> WITNESS d \in Directories
    <2> QED BY <1>1, <1>2, <1>8, <2>1, <2>2
  <1>9. CASE /\ job[j].pc \in {"exchanged", "unparked", "drop"}
             /\ \E e \in {P, B} : BecomesDir([dir EXCEPT ![e] = Nothing])
    <2>1. PICK e \in {P, B} : BecomesDir([dir EXCEPT ![e] = Nothing])
      BY <1>9
    <2> DEFINE d == [dir EXCEPT ![e] = Nothing]
    <2>2. d \in Directories /\ \A y \in Entries : d[y] = IF y = e THEN Nothing ELSE dir[y]
      BY <1>1 DEF Directories
    <2> HIDE DEF d
    <2> QED BY ZenonT(60), <1>1, <1>2, <1>9, <2>1, <2>2 DEF d
  <1> QED BY <1>3, <1>4, <1>5, <1>6, <1>7, <1>8, <1>9, SaveRenames DEF SaveDisk

(* A thread whose record was settled by another.                           *)
LEMMA SpentSave ==
    ASSUME TypeInv, DiskInv, NeverInv, Fine, ~Undoes, AtomicExchange, lapses' = {},
           NEW j \in Jobs, Save(j), journal[job[j].op].state \in Settled
    PROVE  LET o == job[j].op
               pc == job'[j].pc
           IN /\ journal' = journal
              /\ \E d \in Directories :
                    /\ BecomesDir(d) /\ d[Source] = dir[Source]
                    /\ \A q \in Ops \ {o} :
                          d[Prepared(q)] = dir[Prepared(q)] /\ d[Backup(q)] = dir[Backup(q)]
                    /\ d # dir => job[j].pc = "drop"
              /\ pc \in SavePCs =>
                    /\ pc \in {"drop", "abort", "stuck", "published", "reread", "listed", "verified", "rollback"}
                    /\ pc = "rollback" => dir'[Source] # o
                    /\ journal[o].state = "rolled_back" => pc \in {"drop", "abort", "stuck"}
  <1> DEFINE o == job[j].op
  <1>1. /\ job \in [Jobs -> Thread] /\ job[j] \in Thread /\ o \in Ops /\ Exists(o)
        /\ job[j].known \in OpenStates /\ VarsTyped /\ job[j].pc \in SavePCs
        /\ journal[o].state # job[j].known /\ dir \in Directories
    BY SaveIsEngaged, EngagedRecord DEF TypeInv, VarsTyped, OpenStates, Settled
  <1>2. Spent(j) /\ (journal[o].state = "complete" => SaveOf(o) \in refreshed)
    BY <1>1 DEF NeverInv, FineInv, ThreadsLaid, Followed
  <1>3. /\ job[j].pc \in {"drop", "abort", "stuck", "published", "reread", "listed", "verified", "rollback"}
        /\ job[j].pc = "rollback" => dir[Source] # o
        /\ journal[o].state = "rolled_back" => job[j].pc \in {"drop", "abort", "stuck"}
    BY <1>2 DEF Spent
  <1>4. \A t : Becomes(j, t) => job'[j] = t
    BY <1>1 DEF Becomes
  <1>5. \A pc : Goto(j, pc) => job'[j].pc = pc
    BY <1>1, <1>4 DEF Goto, Thread
  <1>6. Scan("scan", o).pc = "scan" /\ Idle.pc = "idle" /\ {"scan", "idle"} \cap SavePCs = {}
    BY PlaceFacts DEF Scan, At, Idle
  <1>7. \A to : ~Write(o, job[j].known, to)
    BY <1>1 DEF Write, Accepts
  <1>8. journal' = journal
    <2>1. \A q \in Ops : journal'[q] = journal[q]
      BY <1>1, SaveEvidence
    <2>2. journal' \in [Ops -> Record \cup {Unused}] /\ journal \in [Ops -> Record \cup {Unused}]
      BY <1>1, SaveEvidence DEF Onward, VarsTyped
    <2> QED BY <2>1, <2>2
  <1>9. \E d \in Directories :
                    /\ BecomesDir(d) /\ d[Source] = dir[Source]
                    /\ \A q \in Ops \ {o} :
                          d[Prepared(q)] = dir[Prepared(q)] /\ d[Backup(q)] = dir[Backup(q)]
                    /\ d # dir => job[j].pc = "drop"
    <2>1. CASE job[j].pc = "drop"
      BY <2>1, SaveSource
    <2>2. CASE job[j].pc # "drop"
      <3>1. ~(job[j].pc = "rollback" /\ Published(o))
        BY <1>3 DEF Published
      <3>2. BecomesDir(dir)
        BY <1>3, <2>2, <3>1, SaveRenames DEF SaveDisk
      <3> QED BY <1>1, <3>2
    <2> QED BY <2>1, <2>2
  <1>10. CASE job[j].pc \in {"published", "reread"}
    <2>1. Reread(j) \/ CommitDependents(j)
      BY <1>10 DEF Save, Prepare, RecordPrepared, LinkBackup, ConfirmBackup, PublishCopy, SyncSource,
         RecordPublished, CheckAgain, Complete, Drop, Dropped, RollBack, Unpark,
         RemoveFailed, SyncRollBack, Fail
    <2>2. journal[o].state = "complete"
      BY <1>3, <1>10 DEF Settled
    <2>3. \/ job'[j].pc \in {"reread", "listed"}
          \/ job'[j].pc = "rollback" /\ dir[Source] # o /\ dir' = dir
      <3>1. ~GiveUp(o, SaveOf(o))
        BY <1>2, <2>2 DEF GiveUp
      <3> QED BY <1>5, <2>1, <3>1 DEF Reread, CommitDependents, disk
    <2> QED BY <1>8, <1>9, <2>2, <2>3
  <1>11. CASE job[j].pc = "listed"
    <2>1. CheckAgain(j)
      BY <1>11 DEF Save, Prepare, RecordPrepared, LinkBackup, ConfirmBackup, PublishCopy, SyncSource,
         RecordPublished, Reread, CommitDependents, Complete, Drop, Dropped, RollBack, Unpark,
         RemoveFailed, SyncRollBack, Fail
    <2>2. job'[j].pc \in {"verified", "stuck"} /\ journal[o].state # "rolled_back"
      BY <1>3, <1>5, <1>11, <2>1 DEF CheckAgain
    <2> QED BY <1>8, <1>9, <2>2
  <1>12. CASE job[j].pc = "verified"
    <2>1. Complete(j)
      BY <1>12 DEF Save, Prepare, RecordPrepared, LinkBackup, ConfirmBackup, PublishCopy, SyncSource,
         RecordPublished, Reread, CommitDependents, CheckAgain, Drop, Dropped, RollBack, Unpark,
         RemoveFailed, SyncRollBack, Fail
    <2>2. job'[j].pc = "idle"
      BY <1>4, <1>6, <1>7, <2>1 DEF Complete, Return
    <2> QED BY <1>6, <1>8, <1>9, <2>2
  <1>13. CASE job[j].pc \in {"abort", "stuck"}
    <2>1. Fail(j)
      BY <1>13 DEF Save, Prepare, RecordPrepared, LinkBackup, ConfirmBackup, PublishCopy, SyncSource,
         RecordPublished, Reread, CommitDependents, CheckAgain, Complete, Drop, Dropped, RollBack, Unpark,
         RemoveFailed, SyncRollBack
    <2>2. job'[j].pc = "idle"
      BY <1>4, <1>6, <1>7, <2>1 DEF Fail, Return
    <2> QED BY <1>6, <1>8, <1>9, <2>2
  <1>14. CASE job[j].pc = "rollback"
    <2>1. RollBack(j)
      BY <1>14 DEF Save, Prepare, RecordPrepared, LinkBackup, ConfirmBackup, PublishCopy, SyncSource,
         RecordPublished, Reread, CommitDependents, CheckAgain, Complete, Drop, Dropped, Unpark,
         RemoveFailed, SyncRollBack, Fail
    <2>2. job'[j].pc = "stuck"
      BY <1>3, <1>5, <1>14, <2>1 DEF RollBack, Published
    <2> QED BY <1>8, <1>9, <2>2
  <1>15. CASE job[j].pc = "drop"
    <2>1. Drop(j) \/ Dropped(j)
      BY <1>15 DEF Save, Prepare, RecordPrepared, LinkBackup, ConfirmBackup, PublishCopy, SyncSource,
         RecordPublished, Reread, CommitDependents, CheckAgain, Complete, RollBack, Unpark,
         RemoveFailed, SyncRollBack, Fail
    <2>2. [job[j] EXCEPT !.todo = Tail(job[j].todo)].pc = job[j].pc
            /\ [[job[j] EXCEPT !.todo = Tail(job[j].todo)] EXCEPT !.ok = FALSE].pc = job[j].pc
      BY <1>1 DEF Thread
    <2>3. job'[j].pc \in {"drop", "abort", "stuck"}
      <3>1. CASE Drop(j)
        BY <1>4, <1>15, <2>2, <3>1 DEF Drop
      <3>2. CASE Dropped(j)
        BY <1>5, <3>2 DEF Dropped
      <3> QED BY <2>1, <3>1, <3>2
    <2> QED BY <1>8, <1>9, <2>3
  <1> QED BY <1>3, <1>10, <1>11, <1>12, <1>13, <1>14, <1>15

OwnLaid(j) ==
    LET o == job[j].op
        pc == job'[j].pc
    IN /\ pc \in BeforePCs => dir'[Source] = Expected(o)
       /\ pc \in AfterPCs => dir'[Source] = o
       /\ pc \in AfterPCs \cup {"safe"} => dir'[Backup(o)] = Expected(o)
       /\ pc = "safe" => \A d \in possible' : d[Prepared(o)] = o
       /\ job[j].pc = "stuck" => pc \notin SavePCs

(* A thread whose record is still open, one step on.                       *)
LEMMA OpenSave ==
    ASSUME TypeInv, DiskInv, NeverInv, Fine, AtomicExchange,
           NEW j \in Jobs, Save(j), Open(job[j].op)
    PROVE  OwnLaid(j)
  <1> SUFFICES ASSUME NEW o, o = job[j].op PROVE OwnLaid(j)
    OBVIOUS
  <1> DEFINE P == Prepared(o)
             B == Backup(o)
             x == Expected(o)
  <1>1. /\ VarsTyped /\ o \in Ops /\ x # Nothing /\ P \in Entries /\ B \in Entries
        /\ dir \in Directories /\ job \in [Jobs -> Thread] /\ job[j] \in Thread
        /\ Place(j) /\ Held(j) /\ Laid(j)
    <2>1. job[j].pc \in SavePCs
      BY SaveIsEngaged
    <2>2. Laid(j)
      BY <2>1 DEF NeverInv, FineInv, ThreadsLaid
    <2> QED BY <2>1, <2>2, EngagedRecord DEF TypeInv, VarsTyped, DiskInv
  <1>2. Source \in Entries /\ P # B /\ Source # P /\ Source # B
    BY <1>1, EntryFacts
  <1>3. \A t : Becomes(j, t) => job'[j] = t
    BY <1>1 DEF Becomes
  <1>4. \A pc : Goto(j, pc) => job'[j].pc = pc
    BY <1>1, <1>3 DEF Goto, Thread
  <1>5. \A pc, known, todo : /\ At(pc, o, known).pc = pc /\ DropAt(o, known, todo).pc = "drop"
                             /\ Scan(pc, o).pc = pc /\ Idle.pc = "idle"
    BY DEF At, DropAt, Scan, Idle
  <1>6. /\ job[j].pc \in BeforePCs => dir[Source] = x
        /\ job[j].pc \in AfterPCs => dir[Source] = o
        /\ job[j].pc \in AfterPCs \cup {"safe"} => dir[B] = x
        /\ job[j].pc = "safe" => \A d \in possible : d[P] = o
        /\ job[j].pc = "linked" => dir[P] = o
        /\ job[j].pc # "parked"
    BY <1>1 DEF Laid, Place, Held
  <1> DEFINE To(pc) == job'[j].pc = pc
  <1>7. /\ {"idle", "scan", "stuck"} \cap (BeforePCs \cup AfterPCs) = {}
        /\ {"idle", "scan"} \cap SavePCs = {}
    BY DEF BeforePCs, AfterPCs, SavePCs, CommitPCs, CleanPCs
  <1>8. job[j].pc # "stuck" /\ (\E pc \in {"idle", "scan", "stuck"} : To(pc)) => OwnLaid(j)
    BY <1>7 DEF OwnLaid
  <1>9. job[j].pc # "stuck" /\ dir'[Source] = x
          /\ (\E pc \in BeforePCs \ {"safe"} : To(pc)) => OwnLaid(j)
    BY DEF OwnLaid, BeforePCs, AfterPCs
  <1>10. job[j].pc # "stuck" /\ dir'[Source] = o /\ dir'[B] = x
          /\ (\E pc \in AfterPCs : To(pc)) => OwnLaid(j)
    BY DEF OwnLaid, BeforePCs, AfterPCs
  <1>11. ASSUME NEW e \in {P, B}, NEW v, dir' = [dir EXCEPT ![e] = v] PROVE dir'[Source] = dir[Source]
    BY <1>1, <1>2, <1>11 DEF Directories
  <1>12. UNCHANGED dir => dir'[Source] = dir[Source] /\ dir'[B] = dir[B]
    OBVIOUS
  <1>13. UNCHANGED disk => UNCHANGED dir
    BY DEF disk
  <1>14. CASE Prepare(j)
    <2>1. dir[Source] = x /\ job[j].pc # "stuck"
      BY <1>6, <1>14 DEF Prepare, BeforePCs
    <2>2. dir'[Source] = x
      BY <1>11, <1>12, <1>13, <1>14, <2>1 DEF Prepare, Unsynced
    <2>3. \E pc \in BeforePCs \ {"safe"} : To(pc)
      BY <1>4, <1>14 DEF Prepare, BeforePCs
    <2> QED BY <1>9, <2>1, <2>2, <2>3
  <1>15. CASE RecordPrepared(j) \/ LinkBackup(j)
    <2>1. dir[Source] = x /\ job[j].pc # "stuck"
      BY <1>6, <1>15 DEF RecordPrepared, LinkBackup, BeforePCs
    <2>2. dir'[Source] = x
      BY <1>11, <1>12, <1>13, <1>15, <2>1 DEF RecordPrepared, LinkBackup, Unsynced
    <2>3. \E pc \in BeforePCs \ {"safe"} : To(pc)
      BY <1>3, <1>4, <1>5, <1>15 DEF RecordPrepared, LinkBackup, BeforePCs
    <2> QED BY <1>9, <2>1, <2>2, <2>3
  <1>16. CASE ConfirmBackup(j)
    <2>1. dir[Source] = x /\ job[j].pc = "linked" /\ UNCHANGED dir
      BY <1>6, <1>16 DEF ConfirmBackup, BeforePCs
    <2>2. CASE To("safe") /\ dir[B] = x /\ possible' = {dir}
      BY <1>6, <2>1, <2>2 DEF OwnLaid, BeforePCs, AfterPCs
    <2>3. CASE To("drop")
      BY <1>9, <1>12, <2>1, <2>3 DEF BeforePCs
    <2> QED BY <1>3, <1>4, <1>5, <1>16, <2>2, <2>3 DEF ConfirmBackup
  <1>17. CASE PublishCopy(j)
    <2>1. dir[Source] = x /\ job[j].pc = "safe" /\ dir[B] = x
      BY <1>6, <1>17 DEF PublishCopy, BeforePCs
    <2>2. CASE To("renamed") /\ dir' = [dir EXCEPT ![Source] = o, ![P] = Nothing]
      <3>1. dir'[Source] = o /\ dir'[B] = x
        BY <1>1, <1>2, <2>1, <2>2 DEF Directories
      <3> QED BY <1>10, <2>1, <2>2, <3>1 DEF AfterPCs
    <2>3. CASE To("drop") /\ UNCHANGED dir
      BY <1>9, <1>12, <2>1, <2>3 DEF BeforePCs
    <2> QED BY <1>3, <1>4, <1>5, <1>13, <1>17, <2>2, <2>3 DEF PublishCopy, Unsynced
  <1>18. CASE SyncSource(j)
    <2>1. job[j].pc = "renamed" /\ UNCHANGED dir /\ dir[Source] = o /\ dir[B] = x
      BY <1>6, <1>18 DEF SyncSource, AfterPCs
    <2>2. \E pc \in AfterPCs : To(pc)
      BY <1>4, <1>18 DEF SyncSource, AfterPCs
    <2> QED BY <1>10, <1>12, <2>1, <2>2
  <1>19. CASE RecordPublished(j) \/ Reread(j) \/ CommitDependents(j)
    <2>1. /\ job[j].pc \in {"synced", "published", "reread"} /\ UNCHANGED dir
          /\ dir[Source] = o /\ dir[B] = x
      BY <1>6, <1>13, <1>19 DEF RecordPublished, Reread, CommitDependents, AfterPCs
    <2>2. \E pc \in AfterPCs : To(pc)
      BY <1>3, <1>4, <1>5, <1>19 DEF RecordPublished, Reread, CommitDependents, AfterPCs
    <2> QED BY <1>10, <1>12, <2>1, <2>2
  <1>20. CASE CheckAgain(j) \/ Complete(j)
    <2>1. /\ job[j].pc \in {"listed", "verified"} /\ UNCHANGED dir
          /\ dir[Source] = o /\ dir[B] = x
      BY <1>6, <1>13, <1>20 DEF CheckAgain, Complete, AfterPCs
    <2>2. To("verified") \/ \E pc \in {"idle", "scan", "stuck"} : To(pc)
      BY <1>3, <1>4, <1>5, <1>20 DEF CheckAgain, Complete, Done, Return
    <2> QED BY <1>8, <1>10, <1>12, <2>1, <2>2 DEF AfterPCs
  <1>21. CASE Drop(j)
    <2>1. job[j].pc = "drop" /\ dir[Source] = x /\ job[j].todo # <<>> /\ job[j].todo \in DropLists(o)
      BY <1>6, <1>21 DEF Drop, BeforePCs, TypeInv, ThreadRight
    <2>2. Head(job[j].todo) \in {P, B}
      BY <2>1, TailFacts DEF DropLists
    <2>3. dir'[Source] = x
      BY <1>11, <1>12, <1>13, <1>21, <2>1, <2>2 DEF Drop, Unsynced, Synced
    <2>4. To("drop")
      <3>1. /\ [job[j] EXCEPT !.todo = Tail(job[j].todo)].pc = job[j].pc
            /\ [[job[j] EXCEPT !.todo = Tail(job[j].todo)] EXCEPT !.ok = FALSE].pc = job[j].pc
        BY <1>1 DEF Thread
      <3> QED BY <1>3, <1>21, <2>1, <3>1 DEF Drop
    <2> QED BY <1>9, <2>1, <2>3, <2>4 DEF BeforePCs
  <1>22. CASE Dropped(j)
    <2>1. job[j].pc = "drop" /\ dir[Source] = x /\ UNCHANGED dir
      BY <1>6, <1>13, <1>22 DEF Dropped, BeforePCs
    <2>2. To("abort") \/ To("stuck")
      BY <1>4, <1>22 DEF Dropped
    <2> QED BY <1>8, <1>9, <1>12, <2>1, <2>2 DEF BeforePCs
  <1>23. CASE RollBack(j)
    <2>1. CASE To("exchanged") /\ dir' = [dir EXCEPT ![Source] = x, ![B] = o]
      <3>1. dir'[Source] = x
        BY <1>1, <1>2, <2>1 DEF Directories
      <3>2. job[j].pc = "rollback"
        BY <1>23 DEF RollBack
      <3> QED BY <1>9, <2>1, <3>1, <3>2 DEF BeforePCs
    <2>2. CASE To("stuck")
      BY <1>8, <1>23, <2>2 DEF RollBack
    <2> QED BY <1>4, <1>23, <2>1, <2>2 DEF RollBack, Unsynced
  <1>24. CASE RemoveFailed(j)
    <2>1. job[j].pc \in {"exchanged", "unparked"} /\ dir[Source] = x
      BY <1>6, <1>24 DEF RemoveFailed, BeforePCs
    <2>2. dir'[Source] = x
      BY <1>11, <1>12, <1>13, <1>24, <2>1 DEF RemoveFailed, Unsynced
    <2>3. To("cleared") \/ To("stuck")
      BY <1>4, <1>24 DEF RemoveFailed
    <2> QED BY <1>8, <1>9, <2>1, <2>2, <2>3 DEF BeforePCs
  <1>25. CASE SyncRollBack(j)
    <2>1. job[j].pc = "cleared" /\ dir[Source] = x /\ UNCHANGED dir
      BY <1>6, <1>25 DEF SyncRollBack, BeforePCs
    <2>2. To("abort") \/ To("stuck")
      BY <1>4, <1>25 DEF SyncRollBack
    <2> QED BY <1>8, <1>9, <1>12, <2>1, <2>2 DEF BeforePCs
  <1>26. CASE Fail(j)
    <2>1. \E pc \in {"idle", "scan"} : To(pc)
      BY <1>3, <1>5, <1>26 DEF Fail, Done, Return
    <2> QED BY <1>7, <2>1 DEF OwnLaid, AfterPCs
  <1>27. CASE Unpark(j)
    BY <1>6, <1>27 DEF Unpark
  <1> QED BY <1>14, <1>15, <1>16, <1>17, <1>18, <1>19, <1>20, <1>21, <1>22, <1>23, <1>24, <1>25,
             <1>26, <1>27 DEF Save

(* Settling a save leaves the versions where they are.                     *)
LEMMA RecordStep ==
    ASSUME FileInv, UNCHANGED disk,
           \A o \in Ops : (Exists(o)' <=> Exists(o)) /\ (Exists(o) => Expected(o)' = Expected(o)),
           \A o \in Ops : Open(o)' => Open(o),
           \A o \in Ops : journal[o].state \in Settled => journal'[o].state = journal[o].state,
           \/ \A o \in Ops : Unresolved(o)' <=> Unresolved(o)
           \/ \E o \in Ops :
                 /\ Open(o)
                 /\ \/ journal'[o].state = "complete" /\ dir[Source] = o
                    \/ journal'[o].state = "rolled_back" /\ dir[Source] = Expected(o)
    PROVE  FileInv'
  <1>1. dir' = dir /\ possible' = possible /\ (Own' <=> Own) /\ (Fine' <=> Fine)
    BY DEF disk, Own, Fine, Native, Source
  <1>2. \A c, v : Left(v, c) => Left(v, c)'
    BY DEF Left, Settled, Prepared, Backup
  <1>3. \A c : Native(c)' <=> Native(c)
    BY DEF Native, Source
  <1>4. ASSUME NEW o \in Ops, Exists(o), NEW c, Keeps(o, c) PROVE Keeps(o, c)'
    <2>1. Expected(o)' = Expected(o)
      BY <1>4
    <2>2. ASSUME NEW v, v = Expected(o), Left(v, c) PROVE Left(Expected(o), c)'
      <3>1. Left(v, c)' /\ Expected(o)' = v
        BY <1>2, <2>1, <2>2
      <3> QED BY <3>1 DEF Left
    <2> QED BY <1>4, <2>1, <2>2 DEF Keeps, Source, Backup
  <1>5. NativeDirs'
    BY <1>1, <1>3 DEF NativeDirs, FileInv
  <1>6. OriginalsKept'
    <2>1. \A o \in Ops : Open(o)' => Open(o) /\ Exists(o)
      BY DEF Open
    <2> QED BY <1>1, <1>3, <1>4, <2>1 DEF OriginalsKept, FileInv
  <1>7. CopiesKept'
    BY <1>1, <1>3 DEF CopiesKept, FileInv, Source, Prepared
  <1>8. LatestKept'
    <2> SUFFICES ASSUME Fine, \A o \in Ops : ~Unresolved(o)', NEW d \in possible
                 PROVE  d[Source] = dir[Source] \/ Left(dir[Source], d)'
      BY <1>1 DEF LatestKept, Source, Left, Prepared, Backup
    <2>1. CASE \A o \in Ops : ~Unresolved(o)
      <3>1. d[Source] = dir[Source] \/ Left(dir[Source], d)
        BY <2>1 DEF FileInv, LatestKept
      <3>2. Left(dir[Source], d) => Left(dir[Source], d)'
        BY <1>1, <1>2 DEF Left, Settled, Prepared, Backup, Source
      <3> QED BY <3>1, <3>2
    <2>2. ASSUME NEW o \in Ops, Open(o), journal'[o].state = "complete", dir[Source] = o
          PROVE  d[Source] = dir[Source] \/ Left(dir[Source], d)'
      <3>1. d[Source] = o \/ d[Prepared(o)] = o
        BY <2>2 DEF FileInv, NativeDirs, CopiesKept, Fine
      <3> QED BY <1>1, <2>2, <3>1 DEF Left, Prepared, Source
    <2>3. ASSUME NEW o \in Ops, Open(o), journal'[o].state = "rolled_back", dir[Source] = Expected(o)
          PROVE  d[Source] = dir[Source] \/ Left(dir[Source], d)'
      <3>1. Keeps(o, d)
        BY <2>3 DEF FileInv, NativeDirs, OriginalsKept, Fine
      <3>2. Left(dir[Source], d) => Left(dir[Source], d)'
        BY <1>1, <1>2 DEF Left, Settled, Prepared, Backup, Source
      <3>3. d[Backup(o)] = Expected(o) => Left(dir[Source], d)'
        BY <1>1, <2>3 DEF Left, Backup, Source
      <3> QED BY <2>3, <3>1, <3>2, <3>3 DEF Keeps
    <2> QED BY <2>1, <2>2, <2>3
  <1> QED BY <1>5, <1>6, <1>7, <1>8 DEF FileInv

(* What a save's step leaves of the versions of the open saves.            *)
LEMMA SaveStays ==
    ASSUME TypeInv, DiskInv, NeverInv, OneAtATime, ~Undoes, AtomicExchange, lapses' = {},
           NEW j \in Jobs, Save(j)
    PROVE  \E d \in Directories :
              /\ BecomesDir(d) /\ d[Source] # Nothing
              /\ Own /\ Native(d) => Native(dir)
              /\ Fine /\ journal[job[j].op].state \in Settled =>
                    /\ d[Source] = dir[Source]
                    /\ \A q \in Ops \ {job[j].op} :
                          d[Prepared(q)] = dir[Prepared(q)] /\ d[Backup(q)] = dir[Backup(q)]
              /\ Fine => \A q \in Ops : Open(q) /\ ~Strayed(q) =>
                            d[Source] = Expected(q) \/ d[Backup(q)] = Expected(q)
              /\ Fine => \A q \in Ops : Open(q) /\ d[Source] = q =>
                            dir[Source] = q \/ \A c \in possible : c[Prepared(q)] = q
  <1> SUFFICES ASSUME NEW o, o = job[j].op
               PROVE  \E d \in Directories :
              /\ BecomesDir(d) /\ d[Source] # Nothing
              /\ Own /\ Native(d) => Native(dir)
              /\ Fine /\ journal[o].state \in Settled =>
                    /\ d[Source] = dir[Source]
                    /\ \A q \in Ops \ {o} :
                          d[Prepared(q)] = dir[Prepared(q)] /\ d[Backup(q)] = dir[Backup(q)]
              /\ Fine => \A q \in Ops : Open(q) /\ ~Strayed(q) =>
                            d[Source] = Expected(q) \/ d[Backup(q)] = Expected(q)
              /\ Fine => \A q \in Ops : Open(q) /\ d[Source] = q =>
                            dir[Source] = q \/ \A c \in possible : c[Prepared(q)] = q
    OBVIOUS
  <1>1. /\ VarsTyped /\ o \in Ops /\ o # Nothing /\ Exists(o) /\ job[j].pc \in SavePCs
        /\ Expected(o) # Nothing /\ journal[o].state \in JournalStates /\ dir \in possible
    BY SaveIsEngaged, EngagedRecord, ExistingRecord DEF TypeInv, VarsTyped
  <1>2. PICK d \in Directories :
                 /\ BecomesDir(d)
                 /\ \A q \in Ops \ {o} :
                       d[Prepared(q)] = dir[Prepared(q)] /\ d[Backup(q)] = dir[Backup(q)]
                 /\ \/ /\ d[Source] = dir[Source]
                       /\ \/ d[Backup(o)] = dir[Backup(o)]
                          \/ job[j].pc = "ready" /\ d[Backup(o)] = Expected(o)
                          \/ job[j].pc \in {"exchanged", "unparked", "drop"}
                       /\ job[j].pc \notin {"created", "exchanged", "unparked", "drop"} =>
                             d[Prepared(o)] = dir[Prepared(o)]
                    \/ /\ job[j].pc = "safe" /\ dir[Source] = Expected(o) /\ d[Source] = o
                       /\ d[Backup(o)] = dir[Backup(o)]
                    \/ job[j].pc = "rollback" /\ Published(o) /\ d[Source] = Expected(o)
    BY SaveSource
  <1>3. d[Source] # Nothing
    BY <1>1, <1>2 DEF NeverInv, SourceThere
  <1>4. Own /\ Native(d) => Native(dir)
    <2>1. Own => Expected(o) \notin Foreign
      BY <1>1 DEF Own
    <2>2. Published(o) => dir[Source] \notin Foreign
      BY <1>1, OpsAreVersions DEF Published
    <2> QED BY <1>2, <2>1, <2>2 DEF Native
  <1>5. ASSUME Fine, journal[o].state \in Settled PROVE d[Source] = dir[Source]
    <2>1. PICK c \in Directories : BecomesDir(c) /\ c[Source] = dir[Source]
      BY <1>5, SpentSave
    <2> QED BY <1>2, <2>1 DEF BecomesDir
  <1>6. \A q \in Ops : Open(q) => q = o \/ journal[o].state \in Settled
    <2>1. \A q \in Ops : Open(q) => Unresolved(q)
      BY DEF Open, Unresolved, OpenStates, Settled
    <2>2. journal[o].state \in Settled \/ Unresolved(o)
      BY <1>1 DEF Unresolved
    <2> QED BY <1>1, <2>1, <2>2 DEF OneAtATime
  <1>7. Fine /\ Open(o) => Laid(j)
    BY <1>1 DEF NeverInv, FineInv, ThreadsLaid
  <1>8. ASSUME Fine, NEW q \in Ops, Open(q), ~Strayed(q)
        PROVE  d[Source] = Expected(q) \/ d[Backup(q)] = Expected(q)
    <2>1. dir[Source] = Expected(q) \/ dir[Backup(q)] = Expected(q)
      BY <1>8 DEF Strayed
    <2>2. CASE q = o
      <3>1. /\ job[j].pc \in {"exchanged", "unparked", "drop"} => dir[Source] = Expected(o)
            /\ job[j].pc = "safe" => dir[Backup(o)] = Expected(o)
        BY <1>7, <1>8, <2>2 DEF Laid, BeforePCs
      <3> QED BY <1>2, <2>1, <2>2, <3>1
    <2>3. CASE q # o
      BY <1>2, <1>5, <1>6, <1>8, <2>1, <2>3
    <2> QED BY <2>2, <2>3
  <1>9. ASSUME Fine, NEW q \in Ops, Open(q), d[Source] = q
        PROVE  dir[Source] = q \/ \A c \in possible : c[Prepared(q)] = q
    <2>1. CASE q = o
      <3>1. job[j].pc = "safe" => \A c \in possible : c[Prepared(o)] = o
        BY <1>7, <1>9, <2>1 DEF Laid
      <3>2. Expected(o) # o
        BY <1>1 DEF NeverInv, ExpectedOther
      <3> QED BY <1>2, <1>9, <2>1, <3>1, <3>2
    <2>2. CASE q # o
      BY <1>5, <1>6, <1>9, <2>2
    <2> QED BY <2>1, <2>2
  <1> QED BY <1>2, <1>3, <1>4, <1>5, <1>8, <1>9

(* Nothing but its own record changes, and that is settled once at most.   *)
LEMMA SaveSettles ==
    ASSUME TypeInv, NEW j \in Jobs, Save(j)
    PROVE  LET o == job[j].op
           IN /\ \A q \in Ops : (Exists(q)' <=> Exists(q)) /\ (Exists(q) => Expected(q)' = Expected(q))
              /\ \A q \in Ops : Open(q)' => Open(q)
              /\ \A q \in Ops : Unresolved(q)' => Unresolved(q)
              /\ \A q \in Ops : journal[q].state \in Settled => journal'[q].state = journal[q].state
              /\ Own' <=> Own
              /\ \A q \in Ops \ {o} : journal'[q] = journal[q]
              /\ \/ journal' = journal
                 \/ UNCHANGED disk /\ Open(o)
  <1> SUFFICES ASSUME NEW o, o = job[j].op
               PROVE  /\ \A q \in Ops : (Exists(q)' <=> Exists(q)) /\ (Exists(q) => Expected(q)' = Expected(q))
                      /\ \A q \in Ops : Open(q)' => Open(q)
                      /\ \A q \in Ops : Unresolved(q)' => Unresolved(q)
                      /\ \A q \in Ops : journal[q].state \in Settled => journal'[q].state = journal[q].state
                      /\ Own' <=> Own
                      /\ \A q \in Ops \ {o} : journal'[q] = journal[q]
                      /\ \/ journal' = journal
                         \/ UNCHANGED disk /\ Open(o)
    OBVIOUS
  <1>1. o \in Ops /\ Exists(o) /\ job[j].known \in OpenStates /\ VarsTyped
    BY SaveIsEngaged, EngagedRecord DEF TypeInv
  <1>2. /\ \A q \in Ops : Exists(q)' <=> Exists(q)
        /\ \A q \in Ops : Exists(q) => Expected(q)' = Expected(q)
        /\ \A q \in Ops \ {o} : journal'[q] = journal[q]
        /\ journal'[o] = journal[o] \/ journal[o].state = job[j].known
        /\ journal' \in [Ops -> Record \cup {Unused}]
    BY <1>1, SaveEvidence DEF Onward
  <1>3. journal' = journal \/ journal[o].state \in OpenStates
    <2>1. journal \in [Ops -> Record \cup {Unused}]
      BY <1>1 DEF VarsTyped
    <2>2. journal'[o] = journal[o] => \A q \in Ops : journal'[q] = journal[q]
      BY <1>2
    <2> QED BY <1>1, <1>2, <2>1, <2>2
  <1>4. UNCHANGED disk \/ journal' = journal
    BY SaveNews DEF evidence
  <1>5. Open(o) \/ journal' = journal
    BY <1>1, <1>3 DEF Open
  <1>6. OpenStates \cap Settled = {}
    BY DEF OpenStates, Settled
  <1>7. \A q \in Ops : Open(q)' => Open(q)
    <2> SUFFICES ASSUME NEW q \in Ops, Open(q)' PROVE Open(q)
      OBVIOUS
    <2>1. CASE q = o
      BY <1>5, <2>1 DEF Open, Exists
    <2>2. CASE q # o
      BY <1>2, <2>2 DEF Open
    <2> QED BY <2>1, <2>2
  <1>8. \A q \in Ops : Unresolved(q)' => Unresolved(q)
    <2> SUFFICES ASSUME NEW q \in Ops, Unresolved(q)' PROVE Unresolved(q)
      OBVIOUS
    <2>1. CASE q = o
      BY <1>1, <1>3, <1>6, <2>1 DEF Unresolved, Exists
    <2>2. CASE q # o
      BY <1>2, <2>2 DEF Unresolved
    <2> QED BY <2>1, <2>2
  <1>9. \A q \in Ops : journal[q].state \in Settled => journal'[q].state = journal[q].state
    <2> SUFFICES ASSUME NEW q \in Ops, journal[q].state \in Settled
                 PROVE journal'[q].state = journal[q].state
      OBVIOUS
    <2> QED BY <1>2, <1>3, <1>6
  <1>10. Own' <=> Own
    BY <1>2 DEF Own
  <1> QED BY <1>2, <1>4, <1>5, <1>7, <1>8, <1>9, <1>10

LEMMA SaveKeepsFile ==
    ASSUME TypeInv, DiskInv, NeverInv, OneAtATime, ~Undoes, AtomicExchange, lapses' = {},
           NEW j \in Jobs, Save(j)
    PROVE  FileInv'
  <1> SUFFICES ASSUME NEW o, o = job[j].op PROVE FileInv'
    OBVIOUS
  <1>1. /\ \A q \in Ops : (Exists(q)' <=> Exists(q)) /\ (Exists(q) => Expected(q)' = Expected(q))
        /\ \A q \in Ops : Open(q)' => Open(q)
        /\ \A q \in Ops : Unresolved(q)' => Unresolved(q)
        /\ \A q \in Ops : journal[q].state \in Settled => journal'[q].state = journal[q].state
        /\ \A q \in Ops \ {o} : journal'[q] = journal[q]
        /\ \/ journal' = journal
           \/ UNCHANGED disk /\ Open(o)
    BY SaveSettles
  <1>2. /\ o \in Ops /\ Exists(o) /\ job[j].pc \in SavePCs /\ VarsTyped /\ FileInv /\ dir \in possible
        /\ journal[o].state \in JournalStates
    BY SaveIsEngaged, EngagedRecord, ExistingRecord DEF TypeInv, VarsTyped, NeverInv
  <1>3. CASE journal' # journal
    <2>1. UNCHANGED disk /\ Open(o)
      BY <1>1, <1>3
    <2>2. ASSUME ~(\A q \in Ops : Unresolved(q)' <=> Unresolved(q)), Fine
          PROVE  /\ Open(o)
                 /\ \/ journal'[o].state = "complete" /\ dir[Source] = o
                    \/ journal'[o].state = "rolled_back" /\ dir[Source] = Expected(o)
      <3>1. ~(Unresolved(o)' <=> Unresolved(o))
        BY <1>1, <2>2 DEF Unresolved, Exists
      <3>2. journal'[o].state \in Settled /\ journal[o].state \notin Settled
        BY <1>1, <1>2, <3>1 DEF Unresolved
      <3>3. /\ journal'[o].state = "complete" => job[j].pc = "verified"
            /\ journal'[o].state = "rolled_back" => job[j].pc = "abort"
        BY <3>2, SaveNews, SaveEvidence DEF Settled
      <3>4. Laid(j)
        BY <1>2, <2>1, <2>2 DEF NeverInv, FineInv, ThreadsLaid
      <3> QED BY <2>1, <3>2, <3>3, <3>4 DEF Laid, Settled, BeforePCs, AfterPCs
    <2>3. CASE Fine
      BY <1>1, <1>2, <2>1, <2>2, <2>3, RecordStep
    <2>4. CASE ~Fine
      <3>1. dir' = dir /\ possible' = possible /\ (Own' <=> Own) /\ ~Fine'
        BY <1>1, <2>1, <2>4 DEF disk, Own, Fine, Native, Source
      <3>2. \A c, v : Left(v, c) => Left(v, c)'
        BY <1>1 DEF Left, Settled, Prepared, Backup
      <3>3. \A c : Native(c)' <=> Native(c)
        BY DEF Native, Source
      <3>4. ASSUME NEW q \in Ops, Exists(q), NEW c, Keeps(q, c) PROVE Keeps(q, c)'
        <4>1. Expected(q)' = Expected(q)
          BY <1>1, <3>4
        <4>2. ASSUME NEW v, v = Expected(q), Left(v, c) PROVE Left(Expected(q), c)'
          <5>1. Left(v, c)' /\ Expected(q)' = v
            BY <3>2, <4>1, <4>2
          <5> QED BY <5>1 DEF Left
        <4> QED BY <3>4, <4>1, <4>2 DEF Keeps, Source, Backup
      <3>5. NativeDirs' /\ LatestKept'
        BY <3>1 DEF NativeDirs, LatestKept
      <3>6. OriginalsKept'
        <4>1. \A q \in Ops : Open(q)' => Open(q) /\ Exists(q)
          BY <1>1 DEF Open
        <4> QED BY <1>2, <3>1, <3>3, <3>4, <4>1 DEF OriginalsKept, FileInv
      <3>7. CopiesKept'
        BY <1>1, <1>2, <3>1, <3>3 DEF CopiesKept, FileInv, Source, Prepared
      <3> QED BY <3>5, <3>6, <3>7 DEF FileInv
    <2> QED BY <2>3, <2>4
  <1>4. CASE journal' = journal
    <2>1. PICK d \in Directories :
              /\ BecomesDir(d) /\ d[Source] # Nothing
              /\ Own /\ Native(d) => Native(dir)
              /\ Fine /\ journal[o].state \in Settled =>
                    /\ d[Source] = dir[Source]
                    /\ \A q \in Ops \ {o} :
                          d[Prepared(q)] = dir[Prepared(q)] /\ d[Backup(q)] = dir[Backup(q)]
              /\ Fine => \A q \in Ops : Open(q) /\ ~Strayed(q) =>
                            d[Source] = Expected(q) \/ d[Backup(q)] = Expected(q)
              /\ Fine => \A q \in Ops : Open(q) /\ d[Source] = q =>
                            dir[Source] = q \/ \A c \in possible : c[Prepared(q)] = q
      BY SaveStays
    <2>2. ASSUME NEW q \in Ops, Own, Native(d), Open(q) PROVE Keeps(q, d)
      <3>1. Fine
        BY <2>1, <2>2 DEF Fine
      <3>2. CASE ~Strayed(q)
        BY <2>1, <2>2, <3>1, <3>2 DEF Keeps
      <3>3. CASE Strayed(q)
        <4>1. job[j].pc = "stuck"
          BY <1>2, <3>1, <3>3 DEF NeverInv, FineInv, OnlyDoubt
        <4>2. dir' = dir
          BY <4>1, SaveRenames DEF SaveDisk, BecomesDir
        <4>3. d = dir
          BY <2>1, <4>2 DEF BecomesDir
        <4> QED BY <1>2, <2>2, <3>1, <4>3 DEF FileInv, OriginalsKept, Fine
      <3> QED BY <3>2, <3>3
    <2>3. ASSUME NEW q \in Ops, Own, Native(d), Open(q), d[Source] = q
          PROVE  dir[Source] = q \/ \A c \in possible : Native(c) => c[Prepared(q)] = q
      BY <2>1, <2>3 DEF Fine
    <2>4. ASSUME Fine, \A q \in Ops : ~Unresolved(q) PROVE d[Source] = dir[Source]
      BY <1>2, <2>1, <2>4 DEF Unresolved
    <2> QED BY <1>2, <1>4, <2>1, <2>2, <2>3, <2>4, KeptStep
  <1> QED BY <1>3, <1>4

LEMMA SaveKeepsFine ==
    ASSUME TypeInv, DiskInv, NeverInv, OneAtATime, ~Undoes, AtomicExchange, lapses' = {},
           NEW j \in Jobs, Save(j)
    PROVE  FineInv'
  <1> SUFFICES ASSUME NEW o, o = job[j].op, Fine' PROVE (ThreadsLaid /\ RolledBackAway /\ OnlyDoubt)'
    BY DEF FineInv
  <1>1. /\ \A q \in Ops : (Exists(q)' <=> Exists(q)) /\ (Exists(q) => Expected(q)' = Expected(q))
        /\ \A q \in Ops : Open(q)' => Open(q)
        /\ \A q \in Ops : Unresolved(q)' => Unresolved(q)
        /\ \A q \in Ops : journal[q].state \in Settled => journal'[q].state = journal[q].state
        /\ Own' <=> Own
        /\ \A q \in Ops \ {o} : journal'[q] = journal[q]
        /\ \/ journal' = journal
           \/ UNCHANGED disk /\ Open(o)
    BY SaveSettles
  <1>2. /\ o \in Ops /\ Exists(o) /\ job[j].pc \in SavePCs /\ VarsTyped /\ FileInv /\ dir \in possible
        /\ journal[o].state \in JournalStates
    BY SaveIsEngaged, EngagedRecord, ExistingRecord DEF TypeInv, VarsTyped, NeverInv
  <1>3. PICK d \in Directories :
              /\ BecomesDir(d) /\ d[Source] # Nothing
              /\ Own /\ Native(d) => Native(dir)
              /\ Fine /\ journal[o].state \in Settled =>
                    /\ d[Source] = dir[Source]
                    /\ \A q \in Ops \ {o} :
                          d[Prepared(q)] = dir[Prepared(q)] /\ d[Backup(q)] = dir[Backup(q)]
              /\ Fine => \A q \in Ops : Open(q) /\ ~Strayed(q) =>
                            d[Source] = Expected(q) \/ d[Backup(q)] = Expected(q)
              /\ Fine => \A q \in Ops : Open(q) /\ d[Source] = q =>
                            dir[Source] = q \/ \A c \in possible : c[Prepared(q)] = q
    BY SaveStays
  <1>4. dir' = d /\ possible' \subseteq possible \cup {d}
    BY <1>3 DEF BecomesDir
  <1>5. Fine /\ ThreadsLaid /\ RolledBackAway /\ OnlyDoubt /\ ExpectedOther
    <2>1. Own /\ Native(d)
      BY <1>1, <1>4 DEF Fine, Native, Source
    <2>2. Fine
      BY <1>3, <2>1 DEF Fine
    <2> QED BY <2>2 DEF NeverInv, FineInv
  <1>6. /\ UNCHANGED loaded /\ \A q : Unfinished(q)' <=> Unfinished(q)
    BY SaveRest DEF Unfinished
  <1>7. /\ \A k \in Jobs \ {j} : job'[k] = job[k]
        /\ job'[j].pc \in SavePCs => job'[j].op = o
        /\ job'[j].pc \notin SavePCs => job'[j] = Idle \/ (j = Recovery /\ job'[j] = Scan("scan", o))
    BY SaveMoves
  <1>8. Reading' => Reading
    <2>1. "idle" \notin {"scan"} \cup SavePCs /\ Idle.pc = "idle"
      BY PlaceFacts DEF Idle
    <2>2. CASE j = Recovery
      BY <1>2, <2>2 DEF Reading
    <2>3. CASE j # Recovery
      <3>1. job'[Recovery] = job[Recovery]
        BY <1>7, <2>3, JobFacts
      <3> QED BY <3>1 DEF Reading
    <2> QED BY <2>2, <2>3
  <1>9. Open(o) \/ journal[o].state \in Settled \/ \A q \in Ops : ~Open(q)
    <2>1. \A q \in Ops : Open(q) => Unresolved(q)
      BY DEF Open, Unresolved, OpenStates, Settled
    <2>2. journal[o].state \in Settled \/ Unresolved(o)
      BY <1>2 DEF Unresolved
    <2> QED BY <1>2, <2>1, <2>2 DEF OneAtATime
  <1>10. \A q \in Ops : Unresolved(q) /\ Unresolved(o) => q = o
    BY <1>2 DEF OneAtATime
  <1>11. \A q \in Ops : Open(q) => Unresolved(q)
    BY DEF Open, Unresolved, OpenStates, Settled
  <1>12. Open(o) => OwnLaid(j)
    BY <1>5, OpenSave
  <1>13. journal[o].state \in Settled =>
              LET pc == job'[j].pc
              IN pc \in SavePCs =>
                    /\ pc \in {"drop", "abort", "stuck", "published", "reread", "listed", "verified", "rollback"}
                    /\ pc = "rollback" => dir'[Source] # o
                    /\ journal[o].state = "rolled_back" => pc \in {"drop", "abort", "stuck"}
    BY <1>5, SpentSave
  <1>14. ThreadsLaid'
    <2> SUFFICES ASSUME NEW k \in Jobs, job'[k].pc \in SavePCs
                 PROVE  /\ Open(job[k].op)' => Laid(k)'
                        /\ journal'[job'[k].op].state \in Settled => Spent(k)'
      BY DEF ThreadsLaid
    <2> SUFFICES ASSUME NEW p, p = job'[k].op
                 PROVE  /\ Open(p)' => Laid(k)'
                        /\ journal'[p].state \in Settled => Spent(k)'
      BY DEF Open, Exists
    <2>1. CASE k = j
      <3>1. p = o
        BY <1>7, <2>1
      <3>2. ASSUME Open(p)' PROVE Laid(k)'
        <4>1. OwnLaid(j) /\ Expected(o)' = Expected(o)
          BY <1>1, <1>2, <1>12, <3>1, <3>2
        <4> QED BY <2>1, <3>1, <4>1 DEF OwnLaid, Laid, Source, Prepared, Backup, Expected
      <3>3. ASSUME journal'[p].state \in Settled PROVE Spent(k)'
        <4>1. journal'[o] = journal[o]
          <5>1. \/ journal'[o] = journal[o]
                \/ job'[j].known = journal'[o].state /\ job'[j].known \in OpenStates
            BY <2>1, SaveEvidence
          <5>2. OpenStates \cap Settled = {}
            BY DEF OpenStates, Settled
          <5> QED BY <3>1, <3>3, <5>1, <5>2
        <4> QED BY <1>13, <2>1, <3>1, <3>3, <4>1 DEF Spent, Source
      <3> QED BY <3>2, <3>3
    <2>2. CASE k # j
      <3>1. /\ job'[k] = job[k] /\ p = job[k].op /\ p # o /\ p \in Ops /\ Exists(p)
            /\ job[k].pc \in SavePCs /\ journal'[p] = journal[p]
        <4>1. job'[k] = job[k] /\ p = job[k].op
          BY <1>7, <2>2
        <4>2. p # o /\ p \in Ops /\ Exists(p)
          BY <1>2, <2>2, <4>1, EngagedRecord DEF TypeInv, OneThread
        <4> QED BY <1>1, <4>1, <4>2
      <3>2. ASSUME Open(p)' PROVE Laid(k)'
        <4>1. Open(p) /\ Laid(k) /\ Expected(p)' = Expected(p)
          BY <1>1, <1>5, <3>1, <3>2 DEF ThreadsLaid
        <4>2. journal[o].state \in Settled
          BY <1>2, <1>9, <1>10, <1>11, <3>1, <4>1
        <4>3. /\ d[Source] = dir[Source]
              /\ d[Prepared(p)] = dir[Prepared(p)] /\ d[Backup(p)] = dir[Backup(p)]
          BY <1>3, <1>5, <3>1, <4>2
        <4>4. Source' = Source /\ Prepared(job[k].op)' = Prepared(p) /\ Backup(job[k].op)' = Backup(p)
              /\ Expected(job[k].op)' = Expected(p) /\ job'[k].op = p
          BY <3>1, <4>1 DEF Source, Prepared, Backup, Expected
        <4>5. job[k].pc = "safe" => \A c \in possible' : c[Prepared(p)] = p
          BY <1>2, <1>4, <3>1, <4>1, <4>3 DEF Laid
        <4> QED BY <1>4, <3>1, <4>1, <4>3, <4>4, <4>5 DEF Laid
      <3>3. ASSUME journal'[p].state \in Settled PROVE Spent(k)'
        <4>1. Spent(k)
          BY <1>5, <3>1, <3>3 DEF ThreadsLaid
        <4>2. job[k].pc = "rollback" => d[Source] # p
          <5>1. \/ d[Source] = dir[Source]
                \/ d[Source] = o
                \/ job[j].pc = "rollback" /\ d[Source] = Expected(o)
            <6>1. PICK c \in Directories :
                    /\ BecomesDir(c)
                    /\ \/ c[Source] = dir[Source]
                       \/ c[Source] = o
                       \/ job[j].pc = "rollback" /\ c[Source] = Expected(o)
              BY SaveSource
            <6> QED BY <1>4, <6>1 DEF BecomesDir
          <5>2. job[k].pc = "rollback" /\ job[j].pc = "rollback" => Expected(o) # p
            <6>1. "rollback" \in DeepPCs
              BY DEF DeepPCs, SavePCs, CleanPCs
            <6> QED BY <2>2, <3>1, <6>1 DEF DiskInv, LocksDisjoint
          <5> QED BY <3>1, <4>1, <5>1, <5>2 DEF Spent
        <4> QED BY <1>4, <3>1, <4>1, <4>2 DEF Spent, Source
      <3> QED BY <3>2, <3>3
    <2> QED BY <2>1, <2>2
  <1>15. RolledBackAway'
    <2> SUFFICES ASSUME Reading, NEW q \in Ops, Unfinished(q), journal'[q].state = "rolled_back"
                 PROVE  d[Source] # q /\ \A p \in Ops : Unresolved(p)' => Expected(p)' # q
      BY <1>4, <1>6, <1>8 DEF RolledBackAway, Source
    <2>1. \A p \in Ops : Unresolved(p)' => Unresolved(p) /\ Expected(p)' = Expected(p)
      BY <1>1 DEF Unresolved
    <2>2. CASE journal[q].state = "rolled_back"
      <3>1. dir[Source] # q /\ \A p \in Ops : Unresolved(p) => Expected(p) # q
        BY <1>5, <2>2 DEF RolledBackAway
      <3>2. d[Source] # q
        <4>1. CASE journal[o].state \in Settled
          BY <1>3, <1>5, <3>1, <4>1
        <4>2. CASE journal[o].state \notin Settled
          <5>1. Unresolved(o) /\ q # o
            BY <1>2, <2>2, <4>2 DEF Unresolved, Settled
          <5>2. PICK c \in Directories :
                    /\ BecomesDir(c)
                    /\ c[Source] = dir[Source] \/ c[Source] = o \/ c[Source] = Expected(o)
            BY SaveSource
          <5> QED BY <1>2, <1>4, <3>1, <5>1, <5>2 DEF BecomesDir
        <4> QED BY <4>1, <4>2
      <3> QED BY <2>1, <3>1, <3>2
    <2>3. CASE journal[q].state # "rolled_back"
      <3>1. q = o /\ job[j].pc = "abort" /\ UNCHANGED disk /\ Open(o)
        BY <1>1, <2>3, SaveEvidence
      <3>2. Laid(j)
        BY <1>2, <1>5, <3>1 DEF ThreadsLaid
      <3>3. dir[Source] = Expected(o)
        BY <3>1, <3>2 DEF Laid, BeforePCs
      <3>4. Expected(o) # o
        BY <1>2, <1>5 DEF ExpectedOther
      <3>5. d = dir
        BY <1>4, <3>1 DEF disk
      <3>6. \A p \in Ops : ~Unresolved(p)'
        <4>1. ~Unresolved(o)'
          BY <2>3, <3>1 DEF Unresolved, Settled
        <4> QED BY <1>10, <1>11, <2>1, <3>1, <4>1, <1>2
      <3> QED BY <3>1, <3>3, <3>4, <3>5, <3>6
    <2> QED BY <2>2, <2>3
  <1>16. OnlyDoubt'
    <2> SUFFICES ASSUME NEW q \in Ops, Open(q)', dir'[Source] # Expected(q)', dir'[Backup(q)] # Expected(q)'
                 PROVE  /\ \A k \in Jobs : job'[k].pc \in SavePCs => job'[k].pc = "stuck" /\ job'[k].op = q
                        /\ Reading' => \A p \in Ops : Unfinished(p)' => p = q
      BY DEF OnlyDoubt, Strayed, Source, Backup
    <2>1. Open(q) /\ Expected(q)' = Expected(q)
      BY <1>1 DEF Open
    <2>2. Strayed(q)
      BY <1>3, <1>4, <1>5, <2>1
    <2>3. /\ \A k \in Jobs : job[k].pc \in SavePCs => job[k].pc = "stuck" /\ job[k].op = q
          /\ Reading => \A p \in Ops : Unfinished(p) => p = q
      BY <1>5, <2>2 DEF OnlyDoubt
    <2>4. job'[j].pc \notin SavePCs
      BY <1>2, <1>12, <2>1, <2>3 DEF OwnLaid
    <2> QED BY <1>6, <1>7, <1>8, <2>3, <2>4
  <1> QED BY <1>14, <1>15, <1>16

LEMMA SaveKeepsNever ==
    ASSUME TypeInv, DiskInv, NeverInv, OneAtATime, ~Undoes, AtomicExchange, lapses' = {},
           NEW j \in Jobs, Save(j)
    PROVE  NeverInv'
  <1>1. PICK d \in Directories : BecomesDir(d) /\ d[Source] # Nothing
    BY SaveStays
  <1>2. SourceThere'
    BY <1>1 DEF BecomesDir, NeverInv, SourceThere, Source
  <1>3. ExpectedOther'
    BY SaveSettles DEF NeverInv, ExpectedOther
  <1>4. Followed'
    BY SaveFollowed DEF NeverInv
  <1> QED BY <1>2, <1>3, <1>4, SaveKeepsFile, SaveKeepsFine DEF NeverInv

-------------------------------------------------------------------------------
(* The other steps.                                                        *)

(* Steps beside the path of the file: at most the backup of a completed    *)
(* save goes.                                                              *)
LEMMA AsideKeepsNever ==
    ASSUME TypeInv, NeverInv, UNCHANGED <<journal, refreshed>>,
           NEW r, r \in Ops => journal[r].state = "complete",
           NEW d, BecomesDir(d), \A e \in Entries : e = Backup(r) \/ d[e] = dir[e],
           \A k \in Jobs : job'[k] = job[k] \/ job'[k].pc \notin SavePCs,
           Reading' => Reading /\ UNCHANGED loaded
    PROVE  NeverInv'
  <1>1. /\ dir' = d /\ possible' \subseteq possible \cup {d} /\ dir \in possible
        /\ d[Source] = dir[Source]
        /\ \A q \in Ops : d[Prepared(q)] = dir[Prepared(q)]
        /\ \A q \in Ops : q # r => d[Backup(q)] = dir[Backup(q)]
    <2>1. Source \in Entries /\ Source # Backup(r)
      BY EntryFacts DEF Source, Backup
    <2>2. \A q \in Ops : Prepared(q) \in Entries /\ Prepared(q) # Backup(r)
      BY EntryFacts DEF Prepared, Backup
    <2>3. \A q \in Ops : Backup(q) \in Entries /\ (q # r => Backup(q) # Backup(r))
      BY EntryFacts DEF Backup
    <2> QED BY <2>1, <2>2, <2>3 DEF BecomesDir, TypeInv, VarsTyped
  <1>2. \A q \in Ops : /\ Open(q) => q # r
                       /\ journal[q].state = "rolled_back" => q # r
    BY DEF Open, OpenStates
  <1>3. /\ SourceThere /\ ExpectedOther /\ Followed /\ FileInv
        /\ Fine => ThreadsLaid /\ RolledBackAway /\ OnlyDoubt
    BY DEF NeverInv, FineInv
  <1>4. /\ Own' <=> Own
        /\ Fine' <=> Fine
        /\ \A q \in Ops : /\ Exists(q)' <=> Exists(q)
                          /\ Open(q)' <=> Open(q)
                          /\ Unresolved(q)' <=> Unresolved(q)
                          /\ Expected(q)' = Expected(q)
    BY <1>1 DEF Own, Fine, Native, Open, Unresolved, Exists, Expected, Source
  <1>5. SourceThere'
    BY <1>1, <1>3 DEF SourceThere, Source
  <1>6. ExpectedOther'
    BY <1>3, <1>4 DEF ExpectedOther
  <1>7. Followed'
    <2>1. {"listed", "verified"} \subseteq SavePCs
      BY DEF SavePCs, CommitPCs
    <2>2. \A q : SaveOf(q)' = SaveOf(q)
      BY DEF SaveOf
    <2>3. \A k \in Jobs : SaveOf(job[k].op)' = SaveOf(job'[k].op)
      BY DEF SaveOf
    <2> QED BY <1>3, <2>1, <2>2, <2>3 DEF Followed
  <1>8. FileInv'
    <2>1. Own /\ Native(d) => Native(dir)
      BY <1>1 DEF Native
    <2>2. ASSUME NEW o \in Ops, Own, Native(d), Open(o) PROVE Keeps(o, d)
      <3>1. Keeps(o, dir)
        BY <1>1, <1>3, <2>1, <2>2 DEF FileInv, OriginalsKept
      <3>2. Left(Expected(o), dir) => Left(Expected(o), d)
        BY <1>1, <1>2 DEF Left
      <3> QED BY <1>1, <1>2, <2>2, <3>1, <3>2 DEF Keeps
    <2> QED BY <1>1, <1>3, <2>1, <2>2, KeptStep
  <1>9. ASSUME Fine PROVE (ThreadsLaid /\ RolledBackAway /\ OnlyDoubt)'
    <2>1. ThreadsLaid /\ RolledBackAway /\ OnlyDoubt
      BY <1>3, <1>9
    <2>2. ThreadsLaid'
      <3> SUFFICES ASSUME NEW k \in Jobs, job'[k].pc \in SavePCs
                   PROVE  /\ Open(job[k].op)' => Laid(k)'
                          /\ journal'[job'[k].op].state \in Settled => Spent(k)'
        BY DEF ThreadsLaid
      <3> SUFFICES ASSUME NEW p, p = job[k].op
                   PROVE  /\ Open(p)' => Laid(k)'
                          /\ journal'[p].state \in Settled => Spent(k)'
        BY DEF Open, Exists
      <3>1. job'[k] = job[k] /\ job[k].pc \in SavePCs /\ p \in Ops
        BY EngagedRecord
      <3>2. Source' = Source /\ Prepared(job[k].op)' = Prepared(p) /\ Backup(job[k].op)' = Backup(p)
            /\ Expected(job[k].op)' = Expected(p) /\ job'[k].op = p
        BY <3>1 DEF Source, Prepared, Backup, Expected
      <3>3. ASSUME Open(p)' PROVE Laid(k)'
        <4>1. Open(p) /\ Laid(k) /\ p # r
          BY <1>2, <1>4, <2>1, <3>1, <3>3 DEF ThreadsLaid
        <4>2. job[k].pc = "safe" => \A c \in possible' : c[Prepared(p)] = p
          BY <1>1, <3>1, <4>1 DEF Laid
        <4>3. d[Source] = dir[Source] /\ d[Backup(p)] = dir[Backup(p)]
          BY <1>1, <3>1, <4>1
        <4> QED BY <1>1, <3>1, <3>2, <4>1, <4>2, <4>3 DEF Laid
      <3>4. ASSUME journal'[p].state \in Settled PROVE Spent(k)'
        <4>1. Spent(k)
          BY <2>1, <3>1, <3>4 DEF ThreadsLaid
        <4> QED BY <1>1, <3>1, <3>2, <4>1 DEF Spent
      <3> QED BY <3>3, <3>4
    <2>3. RolledBackAway'
      BY <1>1, <1>4, <2>1 DEF RolledBackAway, Unfinished, Source
    <2>4. OnlyDoubt'
      <3>1. \A q \in Ops : Strayed(q)' => Strayed(q)
        BY <1>1, <1>2, <1>4 DEF Strayed, Source, Backup
      <3> QED BY <2>1, <3>1 DEF OnlyDoubt, Unfinished
    <2> QED BY <2>2, <2>3, <2>4
  <1>10. FineInv'
    BY <1>4, <1>9 DEF FineInv
  <1> QED BY <1>5, <1>6, <1>7, <1>8, <1>10 DEF NeverInv

(* What another program writes the program did not write.                  *)
LEMMA EditKeepsNever ==
    ASSUME TypeInv, NeverInv, Edit
    PROVE  NeverInv'
  <1>1. PICK d \in Directories : EditedDir(d) /\ BecomesDir(d)
    BY EditForm
  <1>2. UNCHANGED <<journal, refreshed, job, loaded>>
    BY EditForm DEF evidence, lists
  <1>3. d[Source] \in Foreign
    <2>1. PICK v \in Foreign : \/ d = [dir EXCEPT ![Source] = v]
                               \/ d = [e \in Entries |-> IF dir[e] = dir[Source] THEN v ELSE dir[e]]
      BY <1>1 DEF EditedDir
    <2>2. Source \in Entries /\ dir \in Directories
      BY EntryFacts DEF TypeInv, VarsTyped
    <2> QED BY <2>1, <2>2 DEF Directories
  <1>4. ~Native(d) /\ ~Fine' /\ d[Source] # Nothing
    <2>1. dir' = d
      BY <1>1 DEF BecomesDir
    <2>2. Nothing \notin Foreign
      BY OpsAreVersions
    <2> QED BY <1>3, <2>1, <2>2 DEF Native, Fine, Source
  <1>5. FileInv'
    BY <1>1, <1>2, <1>4, KeptStep DEF NeverInv
  <1>6. SourceThere' /\ ExpectedOther' /\ Followed' /\ FineInv'
    BY <1>1, <1>2, <1>4 DEF NeverInv, SourceThere, ExpectedOther, Followed, FineInv, BecomesDir,
       Source, Exists, Expected, SaveOf
  <1> QED BY <1>5, <1>6 DEF NeverInv

(* A power loss leaves one of the possible directories, and no doubt which.*)
LEMMA CrashKeepsNever ==
    ASSUME TypeInv, NeverInv, Crash
    PROVE  NeverInv'
  <1>1. /\ dir' \in possible /\ possible' \subseteq possible /\ dir \in possible
        /\ UNCHANGED <<journal, refreshed>> /\ \A k \in Jobs : job'[k].pc = "idle"
    <2>1. \A k \in Jobs : job'[k].pc = "idle"
      BY CrashForm, ThreadValues
    <2>2. dir \in possible
      BY DEF TypeInv, VarsTyped
    <2> QED BY <2>1, <2>2, CrashForm DEF evidence, lists
  <1>2. (dir' = dir /\ possible' = possible) \/ possible' = {dir'}
    BY DEF Crash, disk
  <1>3. /\ Own' <=> Own
        /\ \A q \in Ops : /\ Exists(q)' <=> Exists(q)
                          /\ Open(q)' <=> Open(q)
                          /\ Unresolved(q)' <=> Unresolved(q)
                          /\ Expected(q)' = Expected(q)
        /\ \A c : Native(c)' <=> Native(c)
        /\ \A c, v : Left(v, c)' <=> Left(v, c)
    BY <1>1 DEF Own, Native, Open, Unresolved, Exists, Expected, Source, Left, Prepared, Backup
  <1>4. \A q \in Ops : \A c : Keeps(q, c)' <=> Keeps(q, c)
    BY <1>1 DEF Keeps, Source, Backup, Left, Prepared, Expected
  <1>5. SourceThere' /\ ExpectedOther' /\ Followed'
    BY <1>1, <1>3 DEF NeverInv, SourceThere, ExpectedOther, Followed, Source, SaveOf
  <1>6. NativeDirs'
    BY <1>2, <1>3 DEF NeverInv, FileInv, NativeDirs, Fine, Native, Source
  <1>7. OriginalsKept'
    BY <1>1, <1>3, <1>4 DEF NeverInv, FileInv, OriginalsKept
  <1>8. CopiesKept'
    BY <1>1, <1>2, <1>3 DEF NeverInv, FileInv, CopiesKept, Source, Prepared
  <1>9. LatestKept'
    <2>1. CASE dir' = dir /\ possible' = possible
      BY <1>1, <2>1 DEF NeverInv, FileInv, LatestKept, Fine, Own, Native, Unresolved, Exists, Expected, Source,
         Left, Prepared, Backup
    <2>2. CASE possible' = {dir'}
      BY <2>2 DEF LatestKept, Source
    <2> QED BY <1>2, <2>1, <2>2
  <1>10. FineInv'
    <2>1. "idle" \notin {"scan"} \cup SavePCs
      BY PlaceFacts
    <2>2. ~Reading' /\ \A k \in Jobs : job'[k].pc \notin SavePCs
      BY <1>1, <2>1, JobFacts DEF Reading
    <2> QED BY <2>2 DEF FineInv, ThreadsLaid, RolledBackAway, OnlyDoubt
  <1> QED BY <1>5, <1>6, <1>7, <1>8, <1>9, <1>10 DEF NeverInv, FileInv

(* What the startup job reads, and where it resumes what it has read.      *)
LEMMA RecoverKeepsNever ==
    ASSUME TypeInv, DiskInv, NeverInv, OneAtATime, Recover
    PROVE  NeverInv'
  <1>1. PICK t \in Thread : job' = [job EXCEPT ![Recovery] = t] /\ RecoverForm(t)
    BY RecoverMoves
  <1>2. /\ job'[Recovery] = t /\ \A k \in Jobs \ {Recovery} : job'[k] = job[k]
        /\ VarsTyped /\ UNCHANGED refreshed /\ UNCHANGED journal
        /\ dir \in Directories /\ Recovery \in Jobs
    BY <1>1, JobFacts, RecoverRest DEF TypeInv, VarsTyped, lists, RecoverForm, evidence
  <1>3. {"undos", "expire", "undoing", "idle"} \cap ({"scan"} \cup SavePCs) = {}
        /\ ExpiryPCs \cap ({"scan"} \cup SavePCs) = {} /\ "scan" \notin SavePCs
    BY DEF ExpiryPCs, SavePCs, CommitPCs, CleanPCs
  <1>4. ASSUME UNCHANGED disk, t.pc \in {"undos", "expire", "undoing", "idle"} \cup ExpiryPCs
        PROVE  NeverInv'
    <2>1. 0 \in Ops => journal[0].state = "complete"
      BY OpsAreVersions
    <2>2. BecomesDir(dir)
      BY <1>2, <1>4, SyncForms
    <2>3. \A k \in Jobs : job'[k] = job[k] \/ job'[k].pc \notin SavePCs
      BY <1>2, <1>3, <1>4
    <2>4. ~Reading'
      BY <1>2, <1>3, <1>4 DEF Reading
    <2> QED BY <1>2, <2>1, <2>2, <2>3, <2>4, AsideKeepsNever
  <1>5. CASE /\ job[Recovery].pc \in {"expire"} \cup ExpiryPCs
             /\ t.pc \in {"expire", "idle"} \cup ExpiryPCs
             /\ job[Recovery].op \in Ops /\ backups[job[Recovery].op] = "retained"
             /\ BecomesDir([dir EXCEPT ![Backup(job[Recovery].op)] = Nothing])
    <2> SUFFICES ASSUME NEW r, r = job[Recovery].op PROVE NeverInv'
      OBVIOUS
    <2> DEFINE d == [dir EXCEPT ![Backup(r)] = Nothing]
    <2>1. r \in Ops => journal[r].state = "complete"
      BY <1>5 DEF TypeInv, RowsRight
    <2>2. BecomesDir(d) /\ \A e \in Entries : e = Backup(r) \/ d[e] = dir[e]
      BY <1>2, <1>5 DEF Directories
    <2> HIDE DEF d
    <2>3. \A k \in Jobs : job'[k] = job[k] \/ job'[k].pc \notin SavePCs
      BY <1>2, <1>3, <1>5
    <2>4. ~Reading'
      BY <1>2, <1>3, <1>5 DEF Reading
    <2> QED BY <1>2, <2>1, <2>2, <2>3, <2>4, AsideKeepsNever
  <1>6. ASSUME UNCHANGED disk
        PROVE  /\ \A q \in Ops : /\ Exists(q)' <=> Exists(q)
                                 /\ Open(q)' <=> Open(q)
                                 /\ Unresolved(q)' <=> Unresolved(q)
                                 /\ Expected(q)' = Expected(q)
                                 /\ Strayed(q)' <=> Strayed(q)
               /\ Fine' <=> Fine
               /\ SourceThere' /\ ExpectedOther' /\ FileInv'
    <2>1. dir' = dir /\ possible' = possible /\ journal' = journal
      BY <1>2, <1>6 DEF disk
    <2>2. FileInv'
      BY <2>1 DEF NeverInv, FileInv, NativeDirs, OriginalsKept, CopiesKept, LatestKept, Fine, Own,
         Native, Open, Unresolved, Exists, Expected, Keeps, Left, Source, Prepared, Backup
    <2> QED BY <2>1, <2>2 DEF NeverInv, SourceThere, ExpectedOther, Strayed, Fine, Own, Native, Open,
       Unresolved, Exists, Expected, Source, Backup
  <1>7. \A q \in Ops : Open(q) => Unresolved(q)
    BY DEF Open, Unresolved, OpenStates, Settled
  <1>8. ASSUME NEW k \in Jobs \ {Recovery}, Fine, UNCHANGED disk, job'[k].pc \in SavePCs
        PROVE  /\ Open(job[k].op)' => Laid(k)'
               /\ journal'[job'[k].op].state \in Settled => Spent(k)'
    <2>1. job'[k] = job[k] /\ dir' = dir /\ possible' = possible /\ journal' = journal
          /\ job[k].pc \in SavePCs
      BY <1>2, <1>8 DEF disk
    <2>2. Open(job[k].op) => Laid(k)
      BY <1>8, <2>1 DEF NeverInv, FineInv, ThreadsLaid
    <2>3. journal[job[k].op].state \in Settled => Spent(k)
      BY <1>8, <2>1 DEF NeverInv, FineInv, ThreadsLaid
    <2>4. Open(job[k].op)' => Open(job[k].op)
      BY <2>1 DEF Open, Exists
    <2>5. Laid(k) => Laid(k)'
      BY <2>1 DEF Laid, Source, Prepared, Backup, Expected
    <2>6. Spent(k) => Spent(k)'
      BY <2>1 DEF Spent, Source
    <2> QED BY <2>1, <2>2, <2>3, <2>4, <2>5, <2>6
  <1>9. CASE /\ job[Recovery].pc = "load" /\ t.pc = "scan" /\ UNCHANGED <<disk, evidence>>
             /\ loaded' = [o \in Ops |-> IF Exists(o) THEN journal[o].state ELSE "none"]
    <2>1. UNCHANGED disk
      BY <1>9
    <2>2. \A q \in Ops : Unfinished(q)' => Open(q)
      BY <1>9 DEF Unfinished, Open, OpenStates
    <2>3. Followed'
      <3>1. t.pc \notin {"listed", "verified"}
        BY <1>9
      <3>2. \A k \in Jobs : job'[k].pc \in {"listed", "verified"} => job'[k] = job[k]
        BY <1>2, <3>1
      <3> QED BY <1>2, <3>2 DEF NeverInv, Followed, SaveOf
    <2>4. ASSUME Fine PROVE (ThreadsLaid /\ RolledBackAway /\ OnlyDoubt)'
      <3>1. ThreadsLaid'
        BY <1>2, <1>3, <1>8, <1>9, <2>1, <2>4 DEF ThreadsLaid
      <3>2. RolledBackAway'
        <4>1. \A q \in Ops : Unfinished(q)' => journal'[q].state # "rolled_back"
          BY <1>2, <2>2 DEF Open, OpenStates
        <4> QED BY <4>1 DEF RolledBackAway
      <3>3. OnlyDoubt'
        <4>1. \A p, q \in Ops : Strayed(p)' /\ Unfinished(q)' => q = p
          BY <1>6, <1>7, <2>1, <2>2 DEF OneAtATime, Strayed
        <4>2. \A p \in Ops : Strayed(p)' => Strayed(p)
          BY <1>6, <2>1
        <4>3. \A k \in Jobs : job'[k].pc \in SavePCs => job'[k] = job[k]
          BY <1>2, <1>3, <1>9
        <4> QED BY <2>4, <4>1, <4>2, <4>3 DEF OnlyDoubt, NeverInv, FineInv
      <3> QED BY <3>1, <3>2, <3>3
    <2> QED BY <1>6, <2>1, <2>3, <2>4 DEF NeverInv, FineInv
  <1>10. CASE /\ job[Recovery].pc = "scan" /\ UNCHANGED <<disk, evidence, loaded>>
              /\ t.op \in Ops /\ Unfinished(t.op)
              /\ \/ t.pc = "drop" /\ dir[Source] = Expected(t.op)
                 \/ t.pc = "published" /\ Published(t.op)
                 \/ t.pc = "stuck"
    <2> SUFFICES ASSUME NEW q, q = t.op PROVE NeverInv'
      OBVIOUS
    <2>1. UNCHANGED disk /\ dir' = dir /\ possible' = possible /\ q \in Ops /\ Unfinished(q) /\ Exists(q)
          /\ \A p \in Ops : Unfinished(p)' <=> Unfinished(p)
      BY <1>10 DEF disk, Unfinished, TypeInv, RowsRight
    <2>2. Reading
      BY <1>10 DEF Reading
    <2>3. Followed'
      <3>1. \A k \in Jobs : job'[k].pc \in {"listed", "verified"} => job'[k] = job[k]
        BY <1>2, <1>10
      <3> QED BY <1>2, <3>1 DEF NeverInv, Followed, SaveOf
    <2>4. ASSUME Fine PROVE (ThreadsLaid /\ RolledBackAway /\ OnlyDoubt)'
      <3>1. RolledBackAway /\ OnlyDoubt /\ ThreadsLaid
        BY <2>4 DEF NeverInv, FineInv
      <3>2. job'[Recovery].op = q /\ job'[Recovery].pc = t.pc /\ Expected(q)' = Expected(q)
            /\ Source' = Source /\ Backup(job[Recovery].op)' = Backup(q)
            /\ Prepared(job[Recovery].op)' = Prepared(q) /\ Expected(job[Recovery].op)' = Expected(q)
            /\ journal' = journal
        BY <1>2 DEF Expected, Source, Backup, Prepared
      <3>3. Laid(Recovery)'
        BY <1>10, <2>1, <3>2 DEF Laid, BeforePCs, AfterPCs, Published
      <3>4. journal'[q].state \in Settled => Spent(Recovery)'
        <4>1. journal[q].state = "rolled_back" => t.pc # "published"
          BY <1>10, <2>1, <2>2, <3>1 DEF RolledBackAway, Published
        <4> QED BY <1>10, <3>2, <4>1 DEF Spent
      <3>5. ThreadsLaid'
        BY <1>8, <2>1, <2>4, <3>2, <3>3, <3>4 DEF ThreadsLaid
      <3>6. RolledBackAway'
        <4>1. \A p \in Ops : (Unresolved(p)' <=> Unresolved(p)) /\ Expected(p)' = Expected(p)
          BY <1>6, <2>1
        <4> QED BY <2>1, <2>2, <3>1, <3>2, <4>1 DEF RolledBackAway
      <3>7. OnlyDoubt'
        <4> SUFFICES ASSUME NEW p \in Ops, Strayed(p)
                     PROVE  /\ \A k \in Jobs : job'[k].pc \in SavePCs => job'[k].pc = "stuck" /\ job'[k].op = p
                            /\ \A o \in Ops : Unfinished(o) => o = p
          BY <1>6, <2>1 DEF OnlyDoubt
        <4>1. /\ \A k \in Jobs : job[k].pc \in SavePCs => job[k].pc = "stuck" /\ job[k].op = p
              /\ \A o \in Ops : Unfinished(o) => o = p
          BY <2>2, <3>1 DEF OnlyDoubt
        <4>2. q = p
          BY <2>1, <4>1
        <4>3. t.pc = "stuck"
          BY <1>10, <4>2 DEF Strayed, Published
        <4> QED BY <1>2, <3>2, <4>1, <4>2, <4>3
      <3> QED BY <3>5, <3>6, <3>7
    <2> QED BY <1>6, <2>1, <2>3, <2>4 DEF NeverInv, FineInv
  <1> QED BY <1>1, <1>4, <1>5, <1>9, <1>10 DEF RecoverForm

(* A save that begins is the only one that is not settled, so the file it  *)
(* finds is the one the last settled save left.                            *)
LEMMA BeginKeepsNever ==
    ASSUME TypeInv, DiskInv, NeverInv, OneAtATime', NEW j \in Workers, Begin(j)
    PROVE  NeverInv'
  <1>1. PICK o \in Ops, kind \in Kinds :
              /\ NextRow(o) /\ dir[Source] # Nothing /\ job[j].pc = "idle"
              /\ job' = [job EXCEPT ![j] = At("created", o, "planned")]
              /\ [state |-> "planned", expected |-> dir[Source], kind |-> kind] \in Record
              /\ journal' = [journal EXCEPT ![o] =
                    [state |-> "planned", expected |-> dir[Source], kind |-> kind]]
              /\ UNCHANGED <<disk, refreshed, loaded>>
    BY BeginForm DEF lists
  <1>2. PICK r : /\ journal' = [journal EXCEPT ![o] = r]
                 /\ r.state = "planned" /\ r.expected = dir[Source] /\ r # Unused
    <2> DEFINE r == [state |-> "planned", expected |-> dir[Source], kind |-> kind]
    <2>1. r.state = "planned" /\ r.expected = dir[Source] /\ r # Unused
      BY <1>1, RecordIsUsed
    <2>2. journal' = [journal EXCEPT ![o] = r]
      BY <1>1
    <2> HIDE DEF r
    <2> QED BY <2>1, <2>2
  <1>3. PICK s : job' = [job EXCEPT ![j] = s] /\ s.pc = "created" /\ s.op = o
    <2> DEFINE s == At("created", o, "planned")
    <2>1. s.pc = "created" /\ s.op = o
      BY DEF At, Idle
    <2>2. job' = [job EXCEPT ![j] = s]
      BY <1>1
    <2> HIDE DEF s
    <2> QED BY <2>1, <2>2
  <1>4. /\ VarsTyped /\ ~Exists(o) /\ j # Recovery /\ dir \in possible
        /\ journal'[o] = r /\ \A q \in Ops \ {o} : journal'[q] = journal[q]
        /\ job'[j] = s /\ \A k \in Jobs \ {j} : job'[k] = job[k]
        /\ dir' = dir /\ possible' = possible
        /\ \A q : Unfinished(q)' <=> Unfinished(q)
    BY <1>1, <1>2, <1>3, JobFacts DEF TypeInv, VarsTyped, NextRow, disk, Unfinished
  <1>5. /\ Exists(o)' /\ Open(o)' /\ Unresolved(o)' /\ Expected(o)' = dir[Source]
    BY <1>2, <1>4 DEF Exists, Open, Unresolved, Expected, OpenStates, Settled
  <1>6. \A q \in Ops \ {o} : /\ Exists(q)' <=> Exists(q)
                             /\ Expected(q)' = Expected(q)
                             /\ Unresolved(q)' <=> Unresolved(q)
    BY <1>4 DEF Exists, Expected, Unresolved
  <1>7. (\A q \in Ops : ~Unresolved(q)) /\ \A q \in Ops \ {o} : ~Unresolved(q)'
    <2>1. \A q \in Ops \ {o} : ~Unresolved(q)'
      BY <1>5 DEF OneAtATime
    <2> QED BY <1>4, <1>6, <2>1 DEF Unresolved
  <1>8. \A q \in Ops : Open(q)' => q = o
    BY <1>7 DEF Open, Unresolved, OpenStates, Settled
  <1>9. dir[Source] # o /\ dir[Source] # Nothing
    <2>1. Unborn(o, dir)
      BY <1>4 DEF DiskInv, DirsSound, SoundDir
    <2> QED BY <1>1, <2>1, EntryFacts DEF Unborn
  <1>10. Own' => Fine
    <2>1. Own' => Own /\ dir[Source] \notin Foreign
      BY <1>4, <1>5, <1>6 DEF Own
    <2> QED BY <2>1 DEF Fine, Native
  <1>11. journal[o].state \notin Settled
    <2>1. journal[o] = Unused
      BY <1>4 DEF Exists
    <2> QED BY <2>1 DEF Unused, Settled
  <1>12. \A c, v : Left(v, c) => Left(v, c)'
    BY <1>4, <1>11 DEF Left, Settled, Prepared, Backup
  <1>13. SourceThere' /\ ExpectedOther'
    BY <1>4, <1>5, <1>6, <1>9 DEF NeverInv, SourceThere, ExpectedOther, Source
  <1>14. Followed'
    <2>1. \A k \in Jobs : job'[k].pc \in {"listed", "verified"} => job'[k] = job[k]
      BY <1>3, <1>4
    <2>2. \A q \in Ops : journal'[q].state = "complete" => journal[q].state = "complete"
      BY <1>2, <1>4
    <2> QED BY <1>1, <2>1, <2>2 DEF NeverInv, Followed, SaveOf
  <1>15. FileInv'
    <2>1. NativeDirs'
      <3>1. Fine' => Fine
        BY <1>10 DEF Fine
      <3> QED BY <1>4, <3>1 DEF NeverInv, FileInv, NativeDirs, Native, Source
    <2>2. OriginalsKept'
      <3> SUFFICES ASSUME Own', NEW d \in possible
                   PROVE  Keeps(o, d)'
        BY <1>4, <1>8 DEF OriginalsKept
      <3>1. d[Source] = dir[Source] \/ Left(dir[Source], d)
        BY <1>7, <1>10 DEF NeverInv, FileInv, LatestKept
      <3>2. ASSUME NEW v, v = dir[Source], Left(v, d) PROVE Left(Expected(o), d)'
        <4>1. Left(v, d)' /\ Expected(o)' = v
          BY <1>5, <1>12, <3>2
        <4> QED BY <4>1 DEF Left
      <3> QED BY <1>5, <3>1, <3>2 DEF Keeps, Source
    <2>3. CopiesKept'
      BY <1>4, <1>8, <1>9 DEF CopiesKept, Source
    <2>4. LatestKept'
      BY <1>5 DEF LatestKept
    <2> QED BY <2>1, <2>2, <2>3, <2>4 DEF FileInv
  <1>16. ASSUME Fine' PROVE (ThreadsLaid /\ RolledBackAway /\ OnlyDoubt)'
    <2>1. ThreadsLaid /\ RolledBackAway
      BY <1>10, <1>16 DEF Fine, NeverInv, FineInv
    <2>2. ThreadsLaid'
      <3> SUFFICES ASSUME NEW k \in Jobs, job'[k].pc \in SavePCs
                   PROVE  /\ Open(job[k].op)' => Laid(k)'
                          /\ journal'[job'[k].op].state \in Settled => Spent(k)'
        BY DEF ThreadsLaid
      <3>1. CASE k = j
        <4>1. job'[k].op = o /\ job'[k].pc = "created"
          BY <1>3, <1>4, <3>1
        <4>2. Laid(k)'
          <5>1. Expected(job[k].op)' = dir[Source]
            BY <1>2, <1>4, <4>1 DEF Expected
          <5> QED BY <1>4, <4>1, <5>1 DEF Laid, AfterPCs, Source
        <4>3. journal'[o].state \notin Settled
          BY <1>2, <1>4 DEF Settled
        <4> QED BY <4>1, <4>2, <4>3
      <3>2. CASE k # j
        <4> SUFFICES ASSUME NEW p, p = job[k].op
                     PROVE  /\ Open(p)' => Laid(k)'
                            /\ journal'[p].state \in Settled => Spent(k)'
          BY <1>4, <3>2 DEF Open, Exists
        <4>1. /\ job'[k] = job[k] /\ job[k].pc \in SavePCs /\ p \in Ops /\ p # o
              /\ journal'[p] = journal[p]
          <5>1. job'[k] = job[k] /\ job[k].pc \in SavePCs
            BY <1>4, <3>2
          <5>2. p \in Ops /\ Exists(p)
            BY <5>1, EngagedRecord
          <5> QED BY <1>4, <5>1, <5>2
        <4>2. ~Open(p)'
          BY <1>8, <4>1
        <4>3. journal[p].state \in Settled => Spent(k)
          BY <2>1, <4>1 DEF ThreadsLaid
        <4>4. Spent(k) => Spent(k)'
          BY <1>4, <4>1 DEF Spent, Source
        <4> QED BY <4>1, <4>2, <4>3, <4>4
      <3> QED BY <3>1, <3>2
    <2>3. RolledBackAway'
      <3> SUFFICES ASSUME Reading, NEW q \in Ops, Unfinished(q), journal'[q].state = "rolled_back"
                   PROVE  dir[Source] # q /\ \A p \in Ops : Unresolved(p)' => Expected(p)' # q
        <4>1. Reading' => Reading
          BY <1>4, JobFacts DEF Reading
        <4> QED BY <1>4, <4>1 DEF RolledBackAway, Source
      <3>1. q # o
        BY <1>2, <1>4
      <3>2. dir[Source] # q
        BY <1>4, <2>1, <3>1 DEF RolledBackAway
      <3> QED BY <1>5, <1>7, <3>2
    <2>4. OnlyDoubt'
      <3>1. \A q \in Ops : ~Strayed(q)'
        BY <1>4, <1>5, <1>8 DEF Strayed, Source
      <3> QED BY <3>1 DEF OnlyDoubt
    <2> QED BY <2>2, <2>3, <2>4
  <1> QED BY <1>13, <1>14, <1>15, <1>16 DEF NeverInv, FineInv

LEMMA InitNever == Init => NeverInv
  <1> SUFFICES ASSUME Init PROVE NeverInv
    OBVIOUS
  <1>1. /\ \A o \in Ops : ~Exists(o) /\ journal[o].state = "none"
        /\ \A j \in Jobs : job[j].pc = "idle"
        /\ possible = {dir} /\ dir[Source] = 0
    BY ThreadValues, EntryFacts DEF Init, Exists, Unused
  <1>2. "idle" \notin {"scan"} \cup SavePCs
    BY PlaceFacts
  <1>3. 0 # Nothing
    BY MetadataAssumption DEF Versions
  <1>4. SourceThere /\ ExpectedOther /\ Followed
    BY <1>1, <1>3 DEF SourceThere, ExpectedOther, Followed
  <1>5. FileInv
    BY <1>1 DEF FileInv, NativeDirs, OriginalsKept, CopiesKept, LatestKept, Fine, Open
  <1>6. FineInv
    BY <1>1, <1>2, JobFacts DEF FineInv, ThreadsLaid, RolledBackAway, OnlyDoubt, Reading, Strayed, Open
  <1> QED BY <1>4, <1>5, <1>6 DEF NeverInv

LEMMA NextNever ==
    ASSUME ~Undoes, AtomicExchange, ~Moves,
           TypeInv, DiskInv, NeverInv, OneAtATime, OneAtATime', lapses' = {}, [Next]_vars
    PROVE  NeverInv'
  <1>1. CASE Start \/ Close \/ UNCHANGED vars
    <2>1. UNCHANGED <<journal, refreshed, disk>>
      BY <1>1 DEF Start, Close, evidence, lists, vars, disk
    <2>2. BecomesDir(dir) /\ (0 \in Ops => journal[0].state = "complete")
      BY <2>1, SyncForms, OpsAreVersions DEF TypeInv
    <2>3. /\ \A k \in Jobs : job'[k] = job[k] \/ job'[k].pc \notin SavePCs
          /\ Reading' => Reading /\ UNCHANGED loaded
      <3>1. Idle.pc = "idle" /\ Scan("load", 0).pc = "load"
        BY DEF Idle, Scan, At
      <3>2. {"idle", "load"} \cap ({"scan"} \cup SavePCs) = {}
        BY DEF SavePCs, CommitPCs, CleanPCs
      <3>3. CASE Start
        <4>1. /\ \A k \in Jobs : job'[k] = job[k] \/ job'[k] = Scan("load", 0)
              /\ job'[Recovery] = Scan("load", 0)
          BY <3>3, JobFacts DEF Start, Becomes, TypeInv, VarsTyped
        <4> QED BY <3>1, <3>2, <4>1 DEF Reading
      <3>4. CASE Close \/ UNCHANGED vars
        BY <3>4 DEF Close, vars, Reading
      <3> QED BY <1>1, <3>3, <3>4
    <2> QED BY <2>1, <2>2, <2>3, AsideKeepsNever
  <1>2. CASE Edit \/ Crash
    BY <1>2, EditKeepsNever, CrashKeepsNever
  <1>3. ASSUME NEW j \in Workers, Begin(j) PROVE NeverInv'
    BY <1>3, BeginKeepsNever
  <1>4. ASSUME NEW j \in Jobs, Save(j) PROVE NeverInv'
    BY <1>4, SaveKeepsNever
  <1>5. CASE Recover
    BY <1>5, RecoverKeepsNever
  <1>6. ~Move
    BY DEF Move
  <1>7. \A j \in Jobs : ~Undo(j)
    BY UndoIsPlaced, UndoRecord
  <1>8. \A j \in Workers : ~BeginUndo(j)
    BY BeginUndoForm
  <1> QED BY <1>1, <1>2, <1>3, <1>4, <1>5, <1>6, <1>7, <1>8 DEF Next

(* A lapse stays on record.                                                *)
LEMMA LapsesStay == ASSUME [Next]_vars PROVE lapses \subseteq lapses'
  <1>1. \A j \in Jobs : Save(j) => lapses \subseteq lapses'
    BY SaveLists
  <1>2. \A j \in Jobs : Undo(j) => lapses \subseteq lapses'
    BY UndoLists
  <1>3. Recover => UNCHANGED lapses
    BY DEF Recover, Stop, Load, Inspect, EndScan, ResumeUndo, EndUndos, NextBackup, JudgeSource,
           Release, SettleRelease, EndExpiry, lists
  <1>4. CASE Start \/ Close \/ Crash \/ Edit \/ Move \/ (\E j \in Workers : Begin(j) \/ BeginUndo(j))
    BY <1>4 DEF Start, Close, Crash, Edit, Move, Begin, BeginUndo, lists
  <1> QED BY <1>1, <1>2, <1>3, <1>4 DEF Next, vars

(* The path names a version whatever the lists are told.                   *)
LEMMA NextThere ==
    ASSUME ~Undoes, AtomicExchange, ~Moves, TypeInv, DiskInv, SourceThere, [Next]_vars
    PROVE  SourceThere'
  <1>1. VarsTyped /\ dir[Source] # Nothing /\ Source' = Source
    BY DEF TypeInv, VarsTyped, SourceThere, Source
  <1>2. ASSUME NEW d, BecomesDir(d), d[Source] # Nothing PROVE SourceThere'
    BY <1>1, <1>2 DEF BecomesDir, SourceThere
  <1>3. ASSUME NEW j \in Jobs, Save(j) PROVE SourceThere'
    <2> SUFFICES ASSUME NEW o, o = job[j].op PROVE SourceThere'
      OBVIOUS
    <2>1. o # Nothing /\ Expected(o) # Nothing
      BY <1>3, SaveIsEngaged, EngagedRecord
    <2>2. PICK d : BecomesDir(d) /\ d[Source] \in {dir[Source], o, Expected(o)}
      BY <1>3, SaveSource
    <2> QED BY <1>1, <1>2, <2>1, <2>2
  <1>4. CASE Recover
    <2>1. PICK d : BecomesDir(d) /\ d[Source] = dir[Source]
      BY <1>4, RecoverDir
    <2> QED BY <1>1, <1>2, <2>1
  <1>5. CASE Edit
    <2>1. PICK d \in Directories : EditedDir(d) /\ BecomesDir(d)
      BY <1>5, EditForm
    <2>2. d[Source] # Nothing
      BY <1>1, <2>1, EntryFacts, OpsAreVersions DEF EditedDir, VarsTyped, Directories
    <2> QED BY <1>2, <2>1, <2>2
  <1>6. CASE Crash
    BY <1>1, <1>6, CrashForm DEF SourceThere
  <1>7. CASE UNCHANGED disk
    BY <1>1, <1>7 DEF SourceThere, disk
  <1>8. ~Move /\ (\A j \in Jobs : ~Undo(j)) /\ \A j \in Workers : ~BeginUndo(j)
    BY UndoIsPlaced, UndoRecord, BeginUndoForm DEF Move
  <1>9. Start \/ Close \/ UNCHANGED vars \/ (\E j \in Workers : Begin(j)) => UNCHANGED disk
    BY DEF Start, Close, vars, disk, Begin
  <1> QED BY <1>3, <1>4, <1>5, <1>6, <1>7, <1>8, <1>9 DEF Next

(* Where the versions are, as long as the lists were told of every save    *)
(* that stands and of none that was taken back.                            *)
ToldNever == SourceThere /\ (lapses = {} => NeverInv)

LEMMA InitToldNever == Init => ToldNever
  BY InitNever DEF ToldNever, NeverInv

LEMMA NextToldNever ==
    ASSUME ~Undoes, AtomicExchange, ~Moves
    PROVE  TypeInv /\ DiskInv /\ ToldNever /\ OneAtATime /\ OneAtATime' /\ [Next]_vars => ToldNever'
  <1> SUFFICES ASSUME TypeInv, DiskInv, ToldNever, OneAtATime, OneAtATime', [Next]_vars PROVE ToldNever'
    OBVIOUS
  <1>1. SourceThere'
    BY NextThere DEF ToldNever
  <1>2. ASSUME lapses' = {} PROVE NeverInv'
    <2>1. NeverInv
      BY <1>2, LapsesStay DEF ToldNever
    <2> QED BY <1>2, <2>1, NextNever
  <1> QED BY <1>1, <1>2 DEF ToldNever

LEMMA NeverIsEnough == TypeInv /\ ToldNever => NeverWithoutTheFile
  <1> SUFFICES ASSUME TypeInv, ToldNever, NEW d \in possible
               PROVE  /\ d[Source] # Nothing
                      /\ \A o \in Ops :
                            Unsettled(o) /\ ~Edited /\ lapses = {} => \E e \in Entries : d[e] = Expected(o)
    BY DEF NeverWithoutTheFile
  <1>1. d[Source] # Nothing
    BY DEF ToldNever, SourceThere
  <1>2. ASSUME NEW o \in Ops, Unsettled(o), ~Edited, lapses = {} PROVE \E e \in Entries : d[e] = Expected(o)
    <2>1. Open(o)
      BY <1>2 DEF Unsettled, Open, OpenStates
    <2>2. Fine
      BY <1>2, EntryFacts DEF Edited, Fine, Own, Native
    <2>3. Keeps(o, d)
      BY <1>2, <2>1, <2>2 DEF ToldNever, NeverInv, FileInv, NativeDirs, OriginalsKept, Fine
    <2> QED BY <2>3, EntryFacts DEF Keeps, Left
  <1> QED BY <1>1, <1>2

(* Tag saves are admitted one after the other.                             *)
LEMMA InitAlone == Init => OneAtATime
  BY DEF Init, OneAtATime, Unresolved, Exists

LEMMA NextAlone ==
    ASSUME "cover" \notin Kinds, TypeInv, OneAtATime, [Next]_vars
    PROVE  OneAtATime'
  <1>1. UNCHANGED journal => OneAtATime'
    BY DEF OneAtATime, Unresolved, Exists
  <1>2. ASSUME NEW j \in Jobs, Save(j) PROVE OneAtATime'
    BY <1>2, SaveSettles DEF OneAtATime
  <1>3. ASSUME NEW j \in Workers, Begin(j) PROVE OneAtATime'
    <2>1. PICK o \in Ops, kind \in Kinds :
             /\ Admits(kind)
             /\ journal' = [journal EXCEPT ![o] =
                    [state |-> "planned", expected |-> dir[Source], kind |-> kind]]
      BY <1>3 DEF Begin
    <2>2. \A q \in Ops : ~Unresolved(q)
      BY <2>1 DEF Admits, Unresolved
    <2>3. \A q \in Ops \ {o} : journal'[q] = journal[q]
      BY <2>1 DEF TypeInv, VarsTyped
    <2> QED BY <2>2, <2>3 DEF OneAtATime, Unresolved, Exists
  <1>4. ASSUME NEW j \in Workers, BeginUndo(j) PROVE OneAtATime'
    BY <1>1, <1>4, BeginUndoForm
  <1>5. ASSUME NEW j \in Jobs, Undo(j) PROVE OneAtATime'
    BY <1>1, <1>5, UndoEvidence
  <1>6. CASE Recover
    BY <1>1, <1>6, RecoverMoves DEF RecoverForm, evidence
  <1>7. CASE Start \/ Close \/ Crash \/ Edit \/ Move \/ UNCHANGED vars
    BY <1>1, <1>7 DEF Start, Close, Crash, Edit, Move, vars, evidence
  <1> QED BY <1>2, <1>3, <1>4, <1>5, <1>6, <1>7 DEF Next

(* Whatever fails, crashes or loses power, the path of the file names a    *)
(* whole version, and the version a save replaces stays readable under the *)
(* path, as the backup, or as the copy of the save that wrote it, until    *)
(* the save is settled or a startup job takes back a save the lists show.  *)
(* The theorem is about what the program does today: it offers no undo,    *)
(* and the finished file is not moved by it.  It asks for a filesystem     *)
(* that can exchange two names, and that at most one save of the file is   *)
(* unresolved, which a cover save does not ask for.                        *)
THEOREM ReplacedVersionStays ==
    ASSUME ~Undoes, AtomicExchange, ~Moves
    PROVE  Spec /\ []OneAtATime => []NeverWithoutTheFile
  <1> QED BY InitTyped, InitDisk, InitToldNever, NextTyped, NextDisk, NextToldNever, NeverIsEnough, PTL
       DEF Spec

(* Tag saves wait for the recovery of the one before, so nothing is asked  *)
(* of them.                                                                *)
THEOREM TagSavesKeepTheFile ==
    ASSUME ~Undoes, AtomicExchange, ~Moves, "cover" \notin Kinds
    PROVE  Spec => []NeverWithoutTheFile
  <1>1. TypeInv /\ OneAtATime /\ [Next]_vars => OneAtATime'
    BY NextAlone
  <1> QED BY <1>1, InitTyped, InitDisk, InitToldNever, InitAlone, NextTyped, NextDisk, NextToldNever,
             NeverIsEnough, PTL DEF Spec

-------------------------------------------------------------------------------
(* The lists follow the file.                                              *)

AllName(v) == \A d \in Disks : Native(d) => d[Source] = v

ListsShow ==
    (\A o \in Ops : ~Unresolved(o)) => AllName(listed)

ListsOfOpen ==
    \A o \in Ops : Open(o) =>
       IF SaveOf(o) \in refreshed THEN listed = o /\ AllName(o) ELSE listed = Expected(o)

ListsFresh == \A o \in Ops : ~Exists(o) => SaveOf(o) \notin refreshed

UntouchedPCs == {"created", "copied", "ready", "linked", "safe", "drop", "abort"}
DurablePCs == {"synced", "published", "reread", "listed", "verified"}

Shown(j) ==
    LET o == job[j].op
        pc == job[j].pc
    IN /\ pc \in UntouchedPCs => AllName(Expected(o))
       /\ pc \in DurablePCs => AllName(o)
       /\ SaveOf(o) \in refreshed => \/ pc \in {"published", "reread", "listed", "verified", "stuck"}
                                     \/ pc = "rollback" /\ ~Native(dir)

ThreadsShown == \A j \in Jobs : job[j].pc \in SavePCs /\ Open(job[j].op) => Shown(j)

ListInv == Own => ListsShow /\ ListsOfOpen /\ ListsFresh /\ ThreadsShown

(* What the startup job finds under the path of the file has been there    *)
(* since the last sync.                                                    *)
SeesSource ==
    job[Recovery].pc = "scan" =>
        \A o \in Ops : Unfinished(o) /\ ~LockedByOther(Recovery, Expected(o)) => AllName(dir[Source])

(* The versions under the path of the file, in all directories that count. *)
LEMMA NamesStay ==
    ASSUME VarsTyped, NEW d \in Directories, BecomesDir(d), Native(d) => d[Source] = dir[Source],
           NEW v, AllName(v)
    PROVE  AllName(v)'
  <1>1. Disks' \subseteq Disks \cup {d} /\ dir \in Disks
    BY DisksGrow
  <1>2. Native(d) => Native(dir) /\ d[Source] = dir[Source]
    BY DEF Native
  <1> QED BY <1>1, <1>2 DEF AllName, Native, Source

LEMMA NamesOne ==
    ASSUME NEW v, dir'[Source] = v, possible' = {dir'}
    PROVE  AllName(v)'
  BY DEF AllName, Disks, Native, Source

LEMMA NamesNow == ASSUME VarsTyped, Native(dir), NEW v, AllName(v) PROVE dir[Source] = v
  BY DEF AllName, Disks, VarsTyped

OwnShown(j) ==
    LET o == job[j].op
        pc == job'[j].pc
    IN /\ pc \in UntouchedPCs => \A v : v = Expected(o) => AllName(v)'
       /\ pc \in DurablePCs => \A v : v = o => AllName(v)'
       /\ SaveOf(o) \in refreshed' =>
             \/ pc \notin SavePCs \/ pc \in {"published", "reread", "listed", "verified", "stuck"}
             \/ pc = "rollback" /\ ~Native(dir')

LEMMA SaveOwnShown ==
    ASSUME TypeInv, DiskInv, ListInv, Own, AtomicExchange, lapses' = {},
           NEW j \in Jobs, Save(j), Open(job[j].op)
    PROVE  OwnShown(j)
  <1> SUFFICES ASSUME NEW o, o = job[j].op PROVE OwnShown(j)
    OBVIOUS
  <1> DEFINE P == Prepared(o)
             B == Backup(o)
             x == Expected(o)
  <1>1. /\ VarsTyped /\ o \in Ops /\ x # Nothing /\ P \in Entries /\ B \in Entries
        /\ dir \in Directories /\ job \in [Jobs -> Thread] /\ job[j] \in Thread
        /\ Held(j) /\ Shown(j) /\ x \notin Foreign /\ o \notin Foreign
    <2>1. job[j].pc \in SavePCs /\ Exists(o)
      BY SaveIsEngaged DEF Open
    <2>2. Shown(j)
      BY <2>1 DEF ListInv, ThreadsShown
    <2>3. x \notin Foreign /\ o \notin Foreign
      BY <2>1, EngagedRecord, OpsAreVersions DEF Own
    <2> QED BY <2>1, <2>2, <2>3, EngagedRecord DEF TypeInv, VarsTyped, DiskInv
  <1>2. Source \in Entries /\ P # B /\ Source # P /\ Source # B
    BY <1>1, EntryFacts
  <1>3. \A t : Becomes(j, t) => job'[j] = t
    BY <1>1 DEF Becomes
  <1>4. \A pc : Goto(j, pc) => job'[j].pc = pc
    BY <1>1, <1>3 DEF Goto, Thread
  <1>5. \A pc, known, todo : /\ At(pc, o, known).pc = pc /\ DropAt(o, known, todo).pc = "drop"
                             /\ Scan(pc, o).pc = pc /\ Idle.pc = "idle"
    BY DEF At, DropAt, Scan, Idle
  <1>6. /\ job[j].pc \in UntouchedPCs => AllName(x)
        /\ job[j].pc \in DurablePCs => AllName(o)
        /\ SaveOf(o) \in refreshed => \/ job[j].pc \in {"published", "reread", "listed", "verified", "stuck"}
                                      \/ job[j].pc = "rollback" /\ ~Native(dir)
        /\ job[j].pc # "parked"
    BY <1>1 DEF Shown, Held
  <1> DEFINE To(pc) == job'[j].pc = pc
             Same == \E d \in Directories : BecomesDir(d) /\ d[Source] = dir[Source]
             Unshown == SaveOf(o) \notin refreshed'
  <1>7. /\ Same /\ job[j].pc \in UntouchedPCs => \A v : v = x => AllName(v)'
        /\ Same /\ job[j].pc \in DurablePCs => \A v : v = o => AllName(v)'
    BY <1>1, <1>6, NamesStay
  <1>8. UNCHANGED disk => Same
    BY <1>1, SyncForms
  <1>9. ASSUME NEW e \in {P, B}, NEW v \in Versions \cup {Nothing}, BecomesDir([dir EXCEPT ![e] = v])
        PROVE  Same
    <2> DEFINE d == [dir EXCEPT ![e] = v]
    <2>1. d \in Directories /\ d[Source] = dir[Source]
      BY <1>1, <1>2 DEF Directories
    <2>2. BecomesDir(d)
      BY <1>9
    <2> HIDE DEF d
    <2> QED BY <2>1, <2>2
  <1>10. {"idle", "scan"} \cap SavePCs = {}
    BY PlaceFacts
  <1>11. Unshown /\ job[j].pc \in UntouchedPCs /\ Same /\ (\E pc \in UntouchedPCs : To(pc)) => OwnShown(j)
    BY <1>7 DEF OwnShown, UntouchedPCs, DurablePCs
  <1>12. Unshown /\ (\E pc \in {"renamed", "exchanged", "cleared", "rollback", "stuck", "idle", "scan"} : To(pc))
           => OwnShown(j)
    BY <1>10 DEF OwnShown, UntouchedPCs, DurablePCs
  <1>13. (\E pc \in {"idle", "scan", "stuck"} : To(pc)) => OwnShown(j)
    BY <1>10 DEF OwnShown, UntouchedPCs, DurablePCs
  <1>14. job[j].pc \in DurablePCs /\ Same
         /\ (\E pc \in {"published", "reread", "listed", "verified"} : To(pc)) => OwnShown(j)
    BY <1>7 DEF OwnShown, UntouchedPCs, DurablePCs
  <1>15. UNCHANGED lists => (Unshown <=> SaveOf(o) \notin refreshed)
    BY DEF lists
  <1>16. CASE Prepare(j)
    <2>1. Unshown /\ job[j].pc \in UntouchedPCs
      BY <1>6, <1>15, <1>16 DEF Prepare, UntouchedPCs
    <2>2. Same
      <3>1. o \in Versions \cup {Nothing}
        BY <1>1, OpsAreVersions
      <3> QED BY <1>8, <1>9, <1>16, <3>1, SyncForms DEF Prepare
    <2>3. \E pc \in UntouchedPCs : To(pc)
      BY <1>4, <1>16 DEF Prepare, UntouchedPCs
    <2> QED BY <1>11, <2>1, <2>2, <2>3
  <1>17. CASE RecordPrepared(j) \/ LinkBackup(j)
    <2>1. Unshown /\ job[j].pc \in UntouchedPCs
      BY <1>6, <1>15, <1>17 DEF RecordPrepared, LinkBackup, UntouchedPCs
    <2>2. Same
      <3>1. x \in Versions \cup {Nothing}
        BY <1>1, ExistingRecord DEF Open
      <3> QED BY <1>8, <1>9, <1>17, <3>1, SyncForms DEF RecordPrepared, LinkBackup
    <2>3. \E pc \in UntouchedPCs : To(pc)
      BY <1>3, <1>4, <1>5, <1>17 DEF RecordPrepared, LinkBackup, UntouchedPCs
    <2> QED BY <1>11, <2>1, <2>2, <2>3
  <1>18. CASE ConfirmBackup(j)
    <2>1. Unshown /\ job[j].pc \in UntouchedPCs
      BY <1>6, <1>15, <1>18 DEF ConfirmBackup, UntouchedPCs
    <2>2. Same
      <3>1. BecomesDir(dir)
        BY <1>1, <1>18, SyncForms DEF ConfirmBackup
      <3> QED BY <1>1, <3>1
    <2>3. \E pc \in UntouchedPCs : To(pc)
      BY <1>3, <1>4, <1>5, <1>18 DEF ConfirmBackup, UntouchedPCs
    <2> QED BY <1>11, <2>1, <2>2, <2>3
  <1>19. CASE PublishCopy(j)
    <2>1. Unshown /\ job[j].pc \in UntouchedPCs
      BY <1>6, <1>15, <1>19 DEF PublishCopy, UntouchedPCs
    <2>2. To("renamed") \/ (To("drop") /\ Same)
      BY <1>3, <1>4, <1>5, <1>8, <1>19 DEF PublishCopy
    <2> QED BY <1>11, <1>12, <2>1, <2>2 DEF UntouchedPCs
  <1>20. CASE SyncSource(j)
    <2>1. Unshown
      BY <1>6, <1>15, <1>20 DEF SyncSource
    <2>2. CASE To("synced") /\ dir'[Source] = o /\ possible' = {dir'}
      <3>1. \A v : v = o => AllName(v)'
        BY <2>2, NamesOne
      <3> QED BY <2>1, <2>2, <3>1 DEF OwnShown, UntouchedPCs, DurablePCs
    <2>3. CASE To("rollback")
      BY <1>12, <2>1, <2>3
    <2>4. (To("synced") /\ dir'[Source] = o /\ possible' = {dir'}) \/ To("rollback")
      BY <1>4, <1>20 DEF SyncSource
    <2> QED BY <2>2, <2>3, <2>4
  <1>21. CASE RecordPublished(j)
    <2>1. Unshown /\ job[j].pc \in DurablePCs /\ Same
      BY <1>6, <1>8, <1>15, <1>21 DEF RecordPublished, DurablePCs
    <2>2. To("published") \/ To("rollback")
      BY <1>3, <1>4, <1>5, <1>21 DEF RecordPublished
    <2> QED BY <1>12, <1>14, <2>1, <2>2
  <1>22. CASE Reread(j) \/ CommitDependents(j)
    <2>1. job[j].pc \in DurablePCs /\ Same
      BY <1>8, <1>22 DEF Reread, CommitDependents, DurablePCs
    <2>2. CASE To("rollback") /\ UNCHANGED <<lists, disk>> /\ dir[Source] # o
      <3>1. ~Native(dir')
        <4>1. Native(dir) => dir[Source] = o
          BY <1>1, <1>6, <2>1, NamesNow
        <4> QED BY <2>2, <4>1 DEF disk
      <3> QED BY <2>2, <3>1 DEF OwnShown, UntouchedPCs, DurablePCs
    <2>3. CASE To("rollback") /\ GiveUp(o, SaveOf(o))
      <3>1. Unshown
        BY <2>3 DEF GiveUp
      <3> QED BY <1>12, <2>3, <3>1
    <2>4. \/ To("reread") \/ To("listed")
          \/ To("rollback") /\ UNCHANGED <<lists, disk>> /\ dir[Source] # o
          \/ To("rollback") /\ GiveUp(o, SaveOf(o))
      BY <1>4, <1>22 DEF Reread, CommitDependents, lists
    <2> QED BY <1>14, <2>1, <2>2, <2>3, <2>4
  <1>23. CASE CheckAgain(j) \/ Complete(j)
    <2>1. job[j].pc \in DurablePCs /\ Same
      BY <1>8, <1>23 DEF CheckAgain, Complete, DurablePCs
    <2>2. To("verified") \/ \E pc \in {"idle", "scan", "stuck"} : To(pc)
      BY <1>3, <1>4, <1>5, <1>23 DEF CheckAgain, Complete, Done, Return
    <2> QED BY <1>13, <1>14, <2>1, <2>2
  <1>24. CASE Drop(j)
    <2>1. Unshown /\ job[j].pc = "drop" /\ job[j].todo # <<>> /\ job[j].todo \in DropLists(o)
      BY <1>6, <1>15, <1>24 DEF Drop, TypeInv, ThreadRight
    <2>2. Head(job[j].todo) \in {P, B}
      BY <2>1, TailFacts DEF DropLists
    <2>3. Same
      BY <1>8, <1>9, <1>24, <2>2, SyncForms DEF Drop
    <2>4. To("drop")
      <3>1. /\ [job[j] EXCEPT !.todo = Tail(job[j].todo)].pc = job[j].pc
            /\ [[job[j] EXCEPT !.todo = Tail(job[j].todo)] EXCEPT !.ok = FALSE].pc = job[j].pc
        BY <1>1 DEF Thread
      <3> QED BY <1>3, <1>24, <2>1, <3>1 DEF Drop
    <2> QED BY <1>11, <2>1, <2>3, <2>4 DEF UntouchedPCs
  <1>25. CASE Dropped(j)
    <2>1. Unshown /\ job[j].pc \in UntouchedPCs /\ Same
      BY <1>6, <1>8, <1>15, <1>25 DEF Dropped, UntouchedPCs
    <2>2. To("abort") \/ To("stuck")
      BY <1>4, <1>25 DEF Dropped
    <2> QED BY <1>11, <1>13, <2>1, <2>2 DEF UntouchedPCs
  <1>26. CASE RollBack(j)
    <2>1. CASE To("exchanged") /\ Published(o)
      <3>1. Native(dir)
        BY <1>1, <2>1 DEF Native, Published
      <3>2. Unshown
        BY <1>6, <1>15, <1>26, <3>1 DEF RollBack
      <3> QED BY <1>12, <2>1, <3>2
    <2>2. CASE To("stuck")
      BY <1>13, <2>2
    <2> QED BY <1>4, <1>26, <2>1, <2>2 DEF RollBack
  <1>27. CASE RemoveFailed(j)
    <2>1. Unshown
      BY <1>6, <1>15, <1>27 DEF RemoveFailed
    <2>2. To("cleared") \/ To("stuck")
      BY <1>4, <1>27 DEF RemoveFailed
    <2> QED BY <1>12, <2>1, <2>2
  <1>28. CASE SyncRollBack(j)
    <2>1. Unshown
      BY <1>6, <1>15, <1>28 DEF SyncRollBack
    <2>2. CASE To("abort") /\ dir'[Source] = x /\ possible' = {dir'}
      <3>1. \A v : v = x => AllName(v)'
        BY <2>2, NamesOne
      <3> QED BY <2>1, <2>2, <3>1 DEF OwnShown, UntouchedPCs, DurablePCs
    <2>3. (To("abort") /\ dir'[Source] = x /\ possible' = {dir'}) \/ To("stuck")
      BY <1>4, <1>28 DEF SyncRollBack
    <2> QED BY <1>13, <2>2, <2>3
  <1>29. CASE Fail(j)
    <2>1. \E pc \in {"idle", "scan"} : To(pc)
      BY <1>3, <1>5, <1>29 DEF Fail, Done, Return
    <2> QED BY <1>13, <2>1
  <1>30. CASE Unpark(j)
    BY <1>6, <1>30 DEF Unpark
  <1> QED BY <1>16, <1>17, <1>18, <1>19, <1>20, <1>21, <1>22, <1>23, <1>24, <1>25, <1>26, <1>27,
             <1>28, <1>29, <1>30 DEF Save

(* A record that was rolled back is not published again, whatever other    *)
(* programs do to the file meanwhile.                                      *)
StillOpen ==
    Own => \A j \in Jobs : job[j].pc \in {"published", "reread"} =>
       journal[job[j].op].state # "rolled_back"

LEMMA SaveStaysOpen ==
    ASSUME TypeInv, NEW j \in Jobs, Save(j), job'[j].pc \in {"published", "reread"}
    PROVE  \/ journal'[job[j].op].state = "published"
           \/ job[j].pc = "published" /\ UNCHANGED journal
  <1> DEFINE o == job[j].op
  <1>1. /\ job \in [Jobs -> Thread] /\ job[j] \in Thread /\ o \in Ops /\ Exists(o)
        /\ job[j].known \in OpenStates /\ VarsTyped
    BY SaveIsEngaged, EngagedRecord DEF TypeInv, VarsTyped
  <1>2. \A t : Becomes(j, t) => job'[j] = t
    BY <1>1 DEF Becomes
  <1>3. \A pc : Goto(j, pc) => job'[j].pc = pc
    BY <1>1, <1>2 DEF Goto, Thread
  <1>4. \A pc, known, todo : /\ At(pc, o, known).pc = pc /\ DropAt(o, known, todo).pc = "drop"
                             /\ Scan(pc, o).pc = pc /\ Idle.pc = "idle"
    BY DEF At, DropAt, Scan, Idle
  <1>5. ~Drop(j)
    <2>1. [job[j] EXCEPT !.todo = Tail(job[j].todo)].pc = job[j].pc
          /\ [[job[j] EXCEPT !.todo = Tail(job[j].todo)] EXCEPT !.ok = FALSE].pc = job[j].pc
      BY <1>1 DEF Thread
    <2> QED BY <1>2, <2>1 DEF Drop
  <1>6. ~(Prepare(j) \/ LinkBackup(j) \/ ConfirmBackup(j) \/ PublishCopy(j) \/ SyncSource(j)
          \/ Dropped(j) \/ RollBack(j) \/ Unpark(j) \/ RemoveFailed(j) \/ SyncRollBack(j))
    BY <1>2, <1>3, <1>4 DEF Prepare, LinkBackup, ConfirmBackup, PublishCopy, SyncSource,
       Dropped, RollBack, Unpark, RemoveFailed, SyncRollBack
  <1>7. ~(RecordPrepared(j) \/ CommitDependents(j) \/ CheckAgain(j) \/ Complete(j) \/ Fail(j))
    BY <1>2, <1>3, <1>4 DEF RecordPrepared, CommitDependents, CheckAgain, Complete, Fail, Done, Return
  <1>8. CASE RecordPublished(j)
    <2>1. Write(o, "prepared", "published")
      BY <1>2, <1>3, <1>4, <1>8 DEF RecordPublished
    <2>2. "prepared" \in OpenStates /\ "published" \in JournalStates
      BY DEF OpenStates, JournalStates
    <2> QED BY <1>1, <2>1, <2>2, WriteEffect
  <1>9. CASE Reread(j)
    BY <1>9 DEF Reread, evidence
  <1> QED BY <1>5, <1>6, <1>7, <1>8, <1>9 DEF Save

LEMMA NextStillOpen ==
    ASSUME ~Undoes, TypeInv, NeverInv, StillOpen, [Next]_vars
    PROVE  StillOpen'
  <1> SUFFICES ASSUME Own', NEW k \in Jobs, job'[k].pc \in {"published", "reread"}, NEW q, q = job'[k].op
               PROVE  journal'[q].state # "rolled_back"
    BY DEF StillOpen
  <1> DEFINE Stays == job'[k] = job[k] /\ journal'[q] = journal[q] /\ Own
  <1>1. Stays => journal'[q].state # "rolled_back"
    BY DEF StillOpen
  <1>2. UNCHANGED journal => Own
    BY DEF Own, Exists, Expected
  <1>3. {"published", "reread"} \subseteq SavePCs /\ Idle.pc = "idle" /\ Scan("load", 0).pc = "load"
    BY DEF SavePCs, CommitPCs, CleanPCs, Idle, Scan, At
  <1>4. VarsTyped /\ job \in [Jobs -> Thread] /\ Recovery \in Jobs
    BY JobFacts DEF TypeInv, VarsTyped
  <1>5. CASE Start
    <2>1. job' = [job EXCEPT ![Recovery] = Scan("load", 0)] /\ UNCHANGED journal
      BY <1>5 DEF Start, Becomes, evidence
    <2> QED BY <1>1, <1>2, <1>3, <1>4, <2>1
  <1>6. CASE Close \/ Edit \/ UNCHANGED vars
    <2>1. UNCHANGED <<job, journal>>
      BY <1>6 DEF Close, Edit, vars, evidence
    <2> QED BY <1>1, <1>2, <2>1
  <1>7. ~Crash
    BY <1>3 DEF Crash
  <1>8. ASSUME NEW j \in Workers, Begin(j) PROVE journal'[q].state # "rolled_back"
    <2>1. PICK o \in Ops, kind \in Kinds :
                /\ NextRow(o) /\ job[j].pc = "idle"
                /\ job' = [job EXCEPT ![j] = At("created", o, "planned")]
                /\ [state |-> "planned", expected |-> dir[Source], kind |-> kind] \in Record
                /\ journal' = [journal EXCEPT ![o] =
                      [state |-> "planned", expected |-> dir[Source], kind |-> kind]]
                /\ UNCHANGED <<disk, lists>>
      BY <1>8, BeginForm
    <2>2. k # j /\ job'[k] = job[k]
      <3>1. At("created", o, "planned").pc = "created"
        BY DEF At, Idle
      <3> QED BY <1>4, <2>1, <3>1
    <2>3. q \in Ops /\ Exists(q)
      BY <1>3, <2>2, EngagedRecord
    <2>4. q # o /\ journal'[q] = journal[q]
      BY <1>4, <2>1, <2>3 DEF NextRow, VarsTyped
    <2>5. Own
      <3>1. \A p \in Ops : Exists(p) => p # o /\ Exists(p)' /\ Expected(p)' = Expected(p)
        BY <1>4, <2>1 DEF NextRow, VarsTyped, Exists, Expected
      <3> QED BY <3>1 DEF Own
    <2> QED BY <1>1, <2>2, <2>4, <2>5
  <1>9. ASSUME NEW j \in Jobs, Save(j) PROVE journal'[q].state # "rolled_back"
    <2>1. /\ Own /\ \A p \in Ops \ {job[j].op} : journal'[p] = journal[p]
          /\ \A p \in Jobs \ {j} : job'[p] = job[p]
          /\ job'[j].pc \in SavePCs => job'[j].op = job[j].op
      BY <1>9, SaveSettles, SaveMoves
    <2>2. CASE k = j
      BY <1>1, <1>3, <1>9, <2>1, <2>2, SaveStaysOpen DEF StillOpen
    <2>3. CASE k # j
      <3>1. q \in Ops /\ job[j].pc \in SavePCs /\ job[k].pc \in SavePCs
        BY <1>3, <1>9, <2>1, <2>3, SaveIsEngaged, EngagedRecord
      <3>2. q # job[j].op
        BY <2>1, <2>3, <3>1 DEF TypeInv, OneThread
      <3> QED BY <1>1, <2>1, <2>3, <3>1, <3>2
    <2> QED BY <2>2, <2>3
  <1>10. CASE Recover
    <2>1. PICK s \in Thread : job' = [job EXCEPT ![Recovery] = s] /\ RecoverForm(s)
      BY <1>10, RecoverMoves
    <2>2. UNCHANGED journal /\ Own
      BY <1>2, <1>10, RecoverRest, <2>1 DEF RecoverForm, evidence
    <2>3. CASE k # Recovery \/ s = job[Recovery]
      BY <1>1, <1>4, <2>1, <2>2, <2>3
    <2>4. CASE k = Recovery /\ s # job[Recovery]
      <3>1. job[Recovery].pc = "scan" /\ s.op \in Ops /\ Unfinished(s.op) /\ Published(s.op) /\ q = s.op
        BY <1>3, <1>4, <2>1, <2>4 DEF RecoverForm, ExpiryPCs
      <3>2. Fine
        BY <2>2, <3>1, OpsAreVersions DEF Fine, Native, Published
      <3>3. journal[q].state # "rolled_back"
        BY <3>1, <3>2 DEF NeverInv, FineInv, RolledBackAway, Reading, Published
      <3> QED BY <2>2, <3>3
    <2> QED BY <2>3, <2>4
  <1>11. (\A j \in Jobs : ~Undo(j)) /\ (\A j \in Workers : ~BeginUndo(j))
    BY UndoIsPlaced, UndoRecord, BeginUndoForm
  <1>12. CASE Move
    BY <1>1, <1>2, <1>12 DEF Move, evidence
  <1> QED BY <1>5, <1>6, <1>7, <1>8, <1>9, <1>10, <1>11, <1>12 DEF Next

LEMMA SaveKeepsLists ==
    ASSUME TypeInv, DiskInv, NeverInv, ListInv, StillOpen, OneAtATime, ~Undoes, AtomicExchange,
           lapses' = {}, NEW j \in Jobs, Save(j)
    PROVE  ListInv'
  <1> SUFFICES ASSUME NEW o, o = job[j].op, Own'
               PROVE  (ListsShow /\ ListsOfOpen /\ ListsFresh /\ ThreadsShown)'
    BY DEF ListInv
  <1>1. /\ \A q \in Ops : (Exists(q)' <=> Exists(q)) /\ (Exists(q) => Expected(q)' = Expected(q))
        /\ \A q \in Ops : Open(q)' => Open(q)
        /\ \A q \in Ops : Unresolved(q)' => Unresolved(q)
        /\ \A q \in Ops : journal[q].state \in Settled => journal'[q].state = journal[q].state
        /\ Own' <=> Own
        /\ \A q \in Ops \ {o} : journal'[q] = journal[q]
        /\ \/ journal' = journal
           \/ UNCHANGED disk /\ Open(o)
    BY SaveSettles
  <1>2. /\ o \in Ops /\ Exists(o) /\ job[j].pc \in SavePCs /\ VarsTyped /\ dir \in possible
        /\ journal[o].state \in JournalStates /\ Own /\ OneThread /\ ExpectedOther /\ Followed
        /\ ListsShow /\ ListsOfOpen /\ ListsFresh /\ ThreadsShown
    BY <1>1, SaveIsEngaged, EngagedRecord, ExistingRecord DEF TypeInv, VarsTyped, NeverInv, ListInv
  <1>3. \A q \in Ops : Open(q) => Unresolved(q) /\ Exists(q)
    BY DEF Open, Unresolved, OpenStates, Settled
  <1>4. \A q \in Ops : Open(q) => q = o \/ journal[o].state \in Settled
    <2>1. journal[o].state \in Settled \/ Unresolved(o)
      BY <1>2 DEF Unresolved
    <2> QED BY <1>2, <1>3, <2>1 DEF OneAtATime
  <1>5. Open(o) => Shown(j) /\ OwnShown(j)
    BY <1>2, SaveOwnShown DEF ThreadsShown
  <1>6. PICK d \in Directories :
              /\ BecomesDir(d)
              /\ Own /\ Native(d) => Native(dir)
              /\ Fine /\ journal[o].state \in Settled => d[Source] = dir[Source]
    BY SaveStays
  <1>7. Native(d) => Fine
    BY <1>2, <1>6 DEF Fine
  <1>8. ASSUME NEW v, AllName(v), journal[o].state \in Settled PROVE AllName(v)'
    BY <1>2, <1>6, <1>7, <1>8, NamesStay
  <1>9. dir' = d
    BY <1>6 DEF BecomesDir
  <1>10. UNCHANGED <<listed, refreshed>>
         \/ (job[j].pc = "reread" /\ Refresh(SaveOf(o), o)
             /\ job'[j].pc = "listed" /\ UNCHANGED <<disk, evidence>>)
    <2>1. Goto(j, "listed") => job'[j].pc = "listed"
      BY <1>2, EngagedRecord DEF Goto, Becomes, VarsTyped, Thread
    <2> QED BY <2>1, SaveLists
  <1>11. ThreadsShown'
    <2> SUFFICES ASSUME NEW k \in Jobs, job'[k].pc \in SavePCs, Open(job[k].op)'
                 PROVE  Shown(k)'
      BY DEF ThreadsShown
    <2> SUFFICES ASSUME NEW p, p = job'[k].op, Open(p)' PROVE Shown(k)'
      BY DEF Open, Exists
    <2>1. CASE k = j
      <3>1. p = o /\ Open(o)
        <4>1. p = o
          BY <2>1, SaveMoves
        <4> QED BY <1>1, <1>2, <4>1
      <3>2. OwnShown(j) /\ Expected(o)' = Expected(o)
        BY <1>1, <1>2, <1>5, <3>1
      <3>3. job'[k].pc \in UntouchedPCs => AllName(Expected(job[k].op))'
        <4>1. Expected(job[k].op)' = Expected(o)
          BY <2>1, <3>1, <3>2 DEF Expected
        <4> QED BY <2>1, <3>2, <4>1 DEF OwnShown, AllName
      <3>4. job'[k].pc \in DurablePCs => AllName(job[k].op)'
        BY <2>1, <3>1, <3>2 DEF OwnShown, AllName
      <3>5. SaveOf(job[k].op)' = SaveOf(o)
        BY <3>1 DEF SaveOf
      <3>6. Native(dir)' <=> Native(dir')
        BY DEF Native, Source
      <3> QED BY <2>1, <3>2, <3>3, <3>4, <3>5, <3>6 DEF OwnShown, Shown
    <2>2. CASE k # j
      <3>1. /\ job'[k] = job[k] /\ job[k].pc \in SavePCs /\ p \in Ops /\ p # o
            /\ journal'[p] = journal[p] /\ p = job[k].op
        <4>1. job'[k] = job[k]
          BY <2>2, SaveMoves
        <4>2. p \in Ops /\ p # o
          BY <1>2, <2>2, <4>1, EngagedRecord DEF OneThread
        <4> QED BY <1>1, <4>1, <4>2
      <3>2. Open(p) /\ journal[o].state \in Settled
        BY <1>1, <1>4, <3>1
      <3>3. Shown(k)
        BY <1>2, <3>1, <3>2 DEF ThreadsShown
      <3>4. job'[k].pc \in UntouchedPCs => AllName(Expected(job[k].op))'
        <4>1. Expected(job[k].op)' = Expected(p)
          BY <3>1 DEF Expected
        <4>2. ASSUME NEW v, v = Expected(p), job'[k].pc \in UntouchedPCs PROVE AllName(v)'
          BY <1>8, <3>1, <3>2, <3>3, <4>2 DEF Shown
        <4> QED BY <4>1, <4>2 DEF AllName
      <3>5. job'[k].pc \in DurablePCs => AllName(job[k].op)'
        <4>1. ASSUME job'[k].pc \in DurablePCs PROVE AllName(p)'
          BY <1>8, <3>1, <3>2, <3>3, <4>1 DEF Shown
        <4> QED BY <3>1, <4>1 DEF AllName
      <3>6. SaveOf(p) \in refreshed' => SaveOf(p) \in refreshed
        <4>1. SaveOf(p) # SaveOf(o)
          BY <3>1 DEF SaveOf
        <4> QED BY <1>10, <4>1 DEF lists, Refresh
      <3>7. Native(dir') => Native(dir)
        BY <1>6, <1>2, <1>9
      <3>8. (SaveOf(job[k].op)' = SaveOf(p)) /\ (Native(dir)' <=> Native(dir'))
        BY <3>1 DEF SaveOf, Native, Source
      <3> QED BY <3>1, <3>3, <3>4, <3>5, <3>6, <3>7, <3>8 DEF Shown
    <2> QED BY <2>1, <2>2
  <1>12. CASE UNCHANGED <<listed, refreshed>>
    <2>1. listed' = listed /\ refreshed' = refreshed
      BY <1>12
    <2>2. ListsShow'
      <3> SUFFICES ASSUME \A q \in Ops : ~Unresolved(q)', NEW v, v = listed PROVE AllName(v)'
        BY <2>1 DEF ListsShow, AllName
      <3>1. CASE \A q \in Ops : ~Unresolved(q)
        <4>1. journal[o].state \in Settled /\ AllName(v)
          BY <1>2, <3>1 DEF Unresolved, ListsShow
        <4> QED BY <1>8, <4>1
      <3>2. CASE ~ \A q \in Ops : ~Unresolved(q)
        <4>1. Unresolved(o) /\ ~Unresolved(o)'
          BY <1>1, <1>2, <3>2 DEF Unresolved, Exists
        <4>2. journal' # journal
          BY <4>1 DEF Unresolved, Exists
        <4>3. UNCHANGED disk /\ Open(o) /\ journal'[o].state \in Settled /\ journal[o].state \notin Settled
          BY <1>1, <1>2, <4>1, <4>2 DEF Unresolved
        <4>4. /\ journal'[o].state = "complete" => job[j].pc = "verified"
              /\ journal'[o].state = "rolled_back" => job[j].pc = "abort"
          BY <4>3, SaveNews, SaveEvidence DEF Settled
        <4>5. Shown(j)
          BY <1>5, <4>3
        <4>6. AllName(v)
          <5>1. CASE job[j].pc = "verified"
            <6>1. SaveOf(o) \in refreshed
              BY <1>2, <5>1 DEF Followed
            <6> QED BY <1>2, <4>3, <6>1 DEF ListsOfOpen
          <5>2. CASE job[j].pc = "abort"
            <6>1. SaveOf(o) \notin refreshed /\ AllName(Expected(o))
              BY <4>5, <5>2 DEF Shown, UntouchedPCs
            <6> QED BY <1>2, <4>3, <6>1 DEF ListsOfOpen
          <5> QED BY <4>3, <4>4, <5>1, <5>2 DEF Settled
        <4>7. AllName(v) => AllName(v)'
          BY <4>3 DEF disk, AllName, Disks, Native, Source
        <4> QED BY <4>6, <4>7
      <3> QED BY <3>1, <3>2
    <2>3. ListsOfOpen'
      <3> SUFFICES ASSUME NEW q \in Ops, Open(q)
                   PROVE  IF SaveOf(q) \in refreshed THEN listed = q /\ AllName(q)'
                                                     ELSE listed = Expected(q)'
        BY <1>1, <2>1 DEF ListsOfOpen, SaveOf, AllName
      <3>1. Expected(q)' = Expected(q)
        BY <1>1, <1>3
      <3>2. ASSUME SaveOf(q) \in refreshed PROVE listed = q /\ AllName(q)'
        <4>1. listed = q /\ AllName(q)
          BY <1>2, <3>2 DEF ListsOfOpen
        <4>2. CASE journal[o].state \in Settled
          BY <1>8, <4>1, <4>2
        <4>3. CASE q = o
          <5>1. Shown(j)
            BY <1>5, <4>3
          <5>2. job[j].pc \in {"published", "reread", "listed", "verified", "stuck"}
                \/ (job[j].pc = "rollback" /\ ~Native(dir))
            BY <3>2, <4>3, <5>1 DEF Shown
          <5>3. PICK c \in Directories :
                    /\ BecomesDir(c)
                    /\ c[Source] = dir[Source] \/ (job[j].pc = "rollback" /\ Published(o))
            BY <5>2, SaveSource
          <5>4. Published(o) => Native(dir)
            BY <1>2, OpsAreVersions DEF Published, Native
          <5>5. c[Source] = dir[Source]
            BY <5>2, <5>3, <5>4
          <5> QED BY <1>2, <4>1, <5>3, <5>5, NamesStay
        <4> QED BY <1>4, <4>2, <4>3
      <3>3. ASSUME SaveOf(q) \notin refreshed PROVE listed = Expected(q)'
        BY <1>2, <3>1, <3>3 DEF ListsOfOpen
      <3> QED BY <3>2, <3>3
    <2>4. ListsFresh'
      BY <1>1, <1>2, <2>1 DEF ListsFresh, SaveOf
    <2> QED BY <1>11, <2>2, <2>3, <2>4
  <1>13. CASE /\ job[j].pc = "reread" /\ Refresh(SaveOf(o), o)
              /\ UNCHANGED <<disk, evidence>> /\ ~UNCHANGED <<listed, refreshed>>
    <2>1. SaveOf(o) \notin refreshed /\ listed' = o /\ refreshed' = refreshed \cup {SaveOf(o)}
      BY <1>13 DEF Refresh
    <2>3. journal[o].state \notin Settled
      <3>1. journal[o].state # "complete"
        BY <1>2, <2>1 DEF Followed
      <3>2. journal[o].state # "rolled_back"
        BY <1>2, <1>13 DEF StillOpen
      <3> QED BY <3>1, <3>2 DEF Settled
    <2>4. journal' = journal /\ dir' = dir /\ possible' = possible
      BY <1>13 DEF evidence, disk
    <2>5. ListsShow'
      BY <1>2, <2>3, <2>4 DEF ListsShow, Unresolved, Exists
    <2>6. ListsOfOpen'
      <3> SUFFICES ASSUME NEW q \in Ops, Open(q)
                   PROVE  q = o /\ AllName(o)'
        BY <1>1, <2>1 DEF ListsOfOpen, SaveOf, AllName
      <3>1. q = o
        BY <1>4, <2>3
      <3>2. AllName(o)
        BY <1>5, <1>13, <3>1 DEF Shown, DurablePCs
      <3> QED BY <2>4, <3>1, <3>2 DEF AllName, Disks, Native, Source
    <2>7. ListsFresh'
      <3>1. \A q \in Ops : ~Exists(q) => q # o /\ SaveOf(q) # SaveOf(o)
        BY <1>2 DEF SaveOf
      <3> QED BY <1>1, <1>2, <2>1, <3>1 DEF ListsFresh, SaveOf
    <2> QED BY <1>11, <2>5, <2>6, <2>7
  <1> QED BY <1>10, <1>12, <1>13

(* A step that leaves the record, the lists and the name of the file.      *)
LEMMA AsideKeepsLists ==
    ASSUME TypeInv, ListInv, UNCHANGED <<journal, lists>>,
           NEW d \in Directories, BecomesDir(d), Native(d) => d[Source] = dir[Source],
           \A k \in Jobs : job'[k] = job[k] \/ job'[k].pc \notin SavePCs
    PROVE  ListInv'
  <1> SUFFICES ASSUME Own' PROVE (ListsShow /\ ListsOfOpen /\ ListsFresh /\ ThreadsShown)'
    BY DEF ListInv
  <1>1. /\ listed' = listed /\ refreshed' = refreshed /\ journal' = journal /\ VarsTyped
        /\ dir' = d
    BY DEF lists, TypeInv, BecomesDir
  <1>2. /\ Own' <=> Own
        /\ \A q \in Ops : /\ Exists(q)' <=> Exists(q)
                          /\ Open(q)' <=> Open(q)
                          /\ Unresolved(q)' <=> Unresolved(q)
                          /\ Expected(q)' = Expected(q)
                          /\ SaveOf(q)' = SaveOf(q)
    BY <1>1 DEF Own, Open, Unresolved, Exists, Expected, SaveOf
  <1>3. ListsShow /\ ListsOfOpen /\ ListsFresh /\ ThreadsShown
    BY <1>2 DEF ListInv
  <1>4. ASSUME NEW v, AllName(v) PROVE AllName(v)'
    BY <1>1, <1>4, NamesStay
  <1>5. Native(d) => Native(dir)
    BY DEF Native
  <1>6. ListsShow'
    <2> SUFFICES ASSUME NEW v, v = listed, AllName(v) PROVE AllName(v)'
      BY <1>1, <1>2, <1>3 DEF ListsShow, AllName
    <2> QED BY <1>4
  <1>7. ListsOfOpen'
    <2> SUFFICES ASSUME NEW q \in Ops, AllName(q) PROVE AllName(q)'
      BY <1>1, <1>2, <1>3 DEF ListsOfOpen
    <2> QED BY <1>4
  <1>8. ListsFresh'
    BY <1>1, <1>2, <1>3 DEF ListsFresh
  <1>9. ThreadsShown'
    <2> SUFFICES ASSUME NEW k \in Jobs, job'[k].pc \in SavePCs, NEW p, p = job'[k].op, Open(p)'
                 PROVE  Shown(k)'
      BY DEF ThreadsShown, Open, Exists
    <2>1. job'[k] = job[k] /\ p \in Ops /\ p = job[k].op
      BY EngagedRecord
    <2>2. Shown(k)
      BY <1>2, <1>3, <2>1 DEF ThreadsShown
    <2>3. job'[k].pc \in UntouchedPCs => AllName(Expected(job[k].op))'
      <3>1. Expected(job[k].op)' = Expected(p)
        BY <1>1, <2>1 DEF Expected
      <3>2. ASSUME NEW v, v = Expected(p), job'[k].pc \in UntouchedPCs PROVE AllName(v)'
        BY <1>4, <2>1, <2>2, <3>2 DEF Shown
      <3> QED BY <3>1, <3>2 DEF AllName
    <2>4. job'[k].pc \in DurablePCs => AllName(job[k].op)'
      <3>1. ASSUME job'[k].pc \in DurablePCs PROVE AllName(p)'
        BY <1>4, <2>1, <2>2, <3>1 DEF Shown
      <3> QED BY <2>1, <3>1 DEF AllName
    <2>5. (SaveOf(job[k].op)' = SaveOf(p)) /\ (Native(dir)' <=> Native(d))
      BY <1>1, <2>1 DEF SaveOf, Native, Source
    <2> QED BY <1>1, <1>5, <2>1, <2>2, <2>3, <2>4, <2>5 DEF Shown
  <1> QED BY <1>6, <1>7, <1>8, <1>9

(* The startup job resumes from the name it finds.                         *)
LEMMA RecoverKeepsLists ==
    ASSUME TypeInv, NeverInv, ListInv, SeesSource, Recover
    PROVE  ListInv'
  <1>1. PICK t \in Thread : job' = [job EXCEPT ![Recovery] = t] /\ RecoverForm(t)
    BY RecoverMoves
  <1>2. /\ job'[Recovery] = t /\ \A k \in Jobs \ {Recovery} : job'[k] = job[k]
        /\ VarsTyped /\ UNCHANGED <<journal, lists>>
        /\ dir \in Directories /\ Recovery \in Jobs
    BY <1>1, JobFacts, RecoverRest DEF TypeInv, VarsTyped, RecoverForm, evidence
  <1>3. /\ {"scan", "undos", "expire", "undoing", "idle"} \cap SavePCs = {}
        /\ ExpiryPCs \cap SavePCs = {}
    BY DEF ExpiryPCs, SavePCs, CommitPCs, CleanPCs
  <1>4. ASSUME UNCHANGED disk, t.pc \in {"scan", "undos", "expire", "undoing", "idle"} \cup ExpiryPCs
        PROVE  ListInv'
    <2>1. BecomesDir(dir)
      BY <1>2, <1>4, SyncForms
    <2>2. \A k \in Jobs : job'[k] = job[k] \/ job'[k].pc \notin SavePCs
      BY <1>2, <1>3, <1>4
    <2> QED BY <1>2, <2>1, <2>2, AsideKeepsLists
  <1>5. CASE /\ job[Recovery].pc \in {"expire"} \cup ExpiryPCs
             /\ t.pc \in {"expire", "idle"} \cup ExpiryPCs
             /\ job[Recovery].op \in Ops
             /\ BecomesDir([dir EXCEPT ![Backup(job[Recovery].op)] = Nothing])
    <2> SUFFICES ASSUME NEW r \in Ops, r = job[Recovery].op PROVE ListInv'
      BY <1>5
    <2> DEFINE d == [dir EXCEPT ![Backup(r)] = Nothing]
    <2>1. BecomesDir(d) /\ d \in Directories /\ d[Source] = dir[Source]
      BY <1>2, <1>5, EntryFacts DEF Directories
    <2> HIDE DEF d
    <2>2. \A k \in Jobs : job'[k] = job[k] \/ job'[k].pc \notin SavePCs
      BY <1>2, <1>3, <1>5
    <2> QED BY <1>2, <2>1, <2>2, AsideKeepsLists
  <1>6. CASE /\ job[Recovery].pc = "scan" /\ UNCHANGED <<disk, evidence, loaded>>
             /\ t.op \in Ops /\ Unfinished(t.op)
             /\ ~LockedByOther(Recovery, Expected(t.op))
             /\ \/ t.pc = "drop" /\ dir[Source] = Expected(t.op)
                \/ t.pc = "published" /\ Published(t.op)
                \/ t.pc = "stuck"
    <2> SUFFICES ASSUME NEW q, q = t.op, Own'
                 PROVE  (ListsShow /\ ListsOfOpen /\ ListsFresh /\ ThreadsShown)'
      BY DEF ListInv
    <2>1. /\ dir' = dir /\ possible' = possible /\ journal' = journal /\ q \in Ops
          /\ listed' = listed /\ refreshed' = refreshed /\ AllName(dir[Source]) /\ dir \in Disks
      BY <1>2, <1>6 DEF disk, lists, SeesSource, VarsTyped, Disks
    <2>2. /\ Own
          /\ \A p \in Ops : /\ Exists(p)' <=> Exists(p)
                            /\ Open(p)' <=> Open(p)
                            /\ Unresolved(p)' <=> Unresolved(p)
                            /\ Expected(p)' = Expected(p)
                            /\ SaveOf(p)' = SaveOf(p)
          /\ \A v : AllName(v)' <=> AllName(v)
          /\ \A c : Native(c)' <=> Native(c)
      BY <2>1 DEF Own, Open, Unresolved, Exists, Expected, SaveOf, AllName, Disks, Native, Source
    <2>3. ListsShow /\ ListsOfOpen /\ ListsFresh /\ ThreadsShown
      BY <2>2 DEF ListInv
    <2>4. (ListsShow /\ ListsOfOpen /\ ListsFresh)'
      <3>1. AllName(listed)' <=> AllName(listed)
        BY <2>1 DEF AllName, Disks, Native, Source
      <3>2. \A p \in Ops : AllName(p)' <=> AllName(p)
        BY <2>2
      <3> QED BY <2>1, <2>2, <2>3, <3>1, <3>2 DEF ListsShow, ListsOfOpen, ListsFresh
    <2>5. ASSUME Open(q) PROVE Shown(Recovery)'
      <3>1. /\ job'[Recovery].op = q /\ job'[Recovery].pc = t.pc
            /\ (Expected(job[Recovery].op)' = Expected(q)) /\ (SaveOf(job[Recovery].op)' = SaveOf(q))
        BY <1>2, <2>1 DEF Expected, SaveOf
      <3>2. t.pc \in {"drop", "published", "stuck"}
        BY <1>6
      <3>3. t.pc = "drop" => AllName(Expected(q))
        BY <1>6, <2>1
      <3>4. t.pc = "published" => AllName(q)
        BY <1>6, <2>1 DEF Published
      <3>5. t.pc = "drop" => SaveOf(q) \notin refreshed
        <4> SUFFICES ASSUME dir[Source] = Expected(q), AllName(q) PROVE FALSE
          BY <1>6, <2>1, <2>3, <2>5 DEF ListsOfOpen
        <4>1. Exists(q) /\ Expected(q) # q /\ Native(dir)
          BY <2>1, <2>2, <2>5 DEF Open, NeverInv, ExpectedOther, Own, Native
        <4> QED BY <1>2, <4>1, NamesNow
      <3>6. AllName(Expected(job[Recovery].op))' <=> AllName(Expected(q))
        BY <2>1, <3>1 DEF AllName, Disks, Native, Source
      <3>7. AllName(job[Recovery].op)' <=> AllName(q)
        BY <2>1, <3>1 DEF AllName, Disks, Native, Source
      <3> QED BY <2>1, <3>1, <3>2, <3>3, <3>4, <3>5, <3>6, <3>7 DEF Shown, UntouchedPCs, DurablePCs
    <2>6. ThreadsShown'
      <3> SUFFICES ASSUME NEW k \in Jobs, job'[k].pc \in SavePCs, NEW p, p = job'[k].op, Open(p)'
                   PROVE  Shown(k)'
        BY DEF ThreadsShown, Open, Exists
      <3>1. CASE k = Recovery
        BY <1>2, <2>1, <2>2, <2>5, <3>1
      <3>2. CASE k # Recovery
        <4>1. job'[k] = job[k] /\ p \in Ops /\ p = job[k].op
          BY <1>2, <3>2, EngagedRecord
        <4>2. Shown(k)
          BY <2>2, <2>3, <4>1 DEF ThreadsShown
        <4>3. /\ AllName(Expected(job[k].op))' <=> AllName(Expected(p))
              /\ AllName(job[k].op)' <=> AllName(p)
              /\ SaveOf(job[k].op)' = SaveOf(p)
              /\ Native(dir)' <=> Native(dir)
          BY <2>1, <4>1 DEF AllName, Disks, Native, Source, Expected, SaveOf
        <4> QED BY <2>1, <4>1, <4>2, <4>3 DEF Shown
      <3> QED BY <3>1, <3>2
    <2> QED BY <2>4, <2>6
  <1> QED BY <1>1, <1>4, <1>5, <1>6 DEF RecoverForm

(* A save begins when nothing is open: the lists show what it replaces.    *)
LEMMA BeginKeepsLists ==
    ASSUME TypeInv, ListInv, OneAtATime', NEW j \in Workers, Begin(j)
    PROVE  ListInv'
  <1>1. PICK o \in Ops, kind \in Kinds :
              /\ NextRow(o) /\ job[j].pc = "idle"
              /\ job' = [job EXCEPT ![j] = At("created", o, "planned")]
              /\ [state |-> "planned", expected |-> dir[Source], kind |-> kind] \in Record
              /\ journal' = [journal EXCEPT ![o] =
                    [state |-> "planned", expected |-> dir[Source], kind |-> kind]]
              /\ UNCHANGED <<disk, lists>>
    BY BeginForm
  <1>2. PICK r : /\ journal' = [journal EXCEPT ![o] = r]
                 /\ r.state = "planned" /\ r.expected = dir[Source] /\ r # Unused
    <2> DEFINE r == [state |-> "planned", expected |-> dir[Source], kind |-> kind]
    <2>1. r.state = "planned" /\ r.expected = dir[Source] /\ r # Unused
      BY <1>1, RecordIsUsed
    <2>2. journal' = [journal EXCEPT ![o] = r]
      BY <1>1
    <2> HIDE DEF r
    <2> QED BY <2>1, <2>2
  <1>3. PICK s : job' = [job EXCEPT ![j] = s] /\ s.pc = "created" /\ s.op = o
    <2> DEFINE s == At("created", o, "planned")
    <2>1. s.pc = "created" /\ s.op = o
      BY DEF At, Idle
    <2>2. job' = [job EXCEPT ![j] = s]
      BY <1>1
    <2> HIDE DEF s
    <2> QED BY <2>1, <2>2
  <1>4. /\ VarsTyped /\ ~Exists(o)
        /\ journal'[o] = r /\ \A q \in Ops \ {o} : journal'[q] = journal[q]
        /\ job'[j] = s /\ \A k \in Jobs \ {j} : job'[k] = job[k]
        /\ dir' = dir /\ possible' = possible /\ listed' = listed /\ refreshed' = refreshed
    BY <1>1, <1>2, <1>3, JobFacts DEF TypeInv, VarsTyped, NextRow, disk, lists
  <1>5. /\ Exists(o)' /\ Unresolved(o)' /\ Expected(o)' = dir[Source]
    BY <1>2, <1>4 DEF Exists, Unresolved, Expected, Settled
  <1>6. \A q \in Ops \ {o} : /\ Exists(q)' <=> Exists(q)
                             /\ Expected(q)' = Expected(q)
                             /\ Unresolved(q)' <=> Unresolved(q)
    BY <1>4 DEF Exists, Expected, Unresolved
  <1>7. (\A q \in Ops : ~Unresolved(q)) /\ \A q \in Ops \ {o} : ~Unresolved(q)'
    <2>1. \A q \in Ops \ {o} : ~Unresolved(q)'
      BY <1>5 DEF OneAtATime
    <2> QED BY <1>4, <1>6, <2>1 DEF Unresolved
  <1>8. \A q \in Ops : Open(q)' => q = o
    BY <1>7 DEF Open, Unresolved, OpenStates, Settled
  <1> SUFFICES ASSUME Own' PROVE (ListsShow /\ ListsOfOpen /\ ListsFresh /\ ThreadsShown)'
    BY DEF ListInv
  <1>9. Own /\ Native(dir)
    BY <1>4, <1>5, <1>6 DEF Own, Native
  <1>10. AllName(listed) /\ ListsFresh /\ dir[Source] = listed
    <2>1. AllName(listed)
      BY <1>7, <1>9 DEF ListInv, ListsShow
    <2> QED BY <1>4, <1>9, <2>1, NamesNow DEF ListInv
  <1>11. SaveOf(o) \notin refreshed
    BY <1>4, <1>10 DEF ListsFresh
  <1>12. ListsShow'
    BY <1>5 DEF ListsShow
  <1>13. ListsOfOpen'
    <2>1. \A q \in Ops : SaveOf(q)' = SaveOf(q)
      BY DEF SaveOf
    <2> QED BY <1>4, <1>5, <1>8, <1>10, <1>11, <2>1 DEF ListsOfOpen
  <1>14. ListsFresh'
    <2>1. \A q \in Ops : SaveOf(q)' = SaveOf(q)
      BY DEF SaveOf
    <2> QED BY <1>4, <1>5, <1>6, <1>10, <2>1 DEF ListsFresh
  <1>15. ThreadsShown'
    <2> SUFFICES ASSUME NEW k \in Jobs, job'[k].pc \in SavePCs, NEW p, p = job'[k].op, Open(p)'
                 PROVE  Shown(k)'
      BY DEF ThreadsShown, Open, Exists
    <2>1. k = j
      <3> SUFFICES ASSUME k # j PROVE FALSE
        OBVIOUS
      <3>1. job'[k] = job[k] /\ p \in Ops /\ Exists(p)
        BY <1>4, EngagedRecord
      <3> QED BY <1>4, <1>8, <3>1
    <2>2. job'[k].op = o /\ job'[k].pc = "created"
      BY <1>3, <1>4, <2>1
    <2>3. AllName(Expected(job[k].op))'
      <3>1. Expected(job[k].op)' = listed
        BY <1>2, <1>4, <1>10, <2>2 DEF Expected
      <3> QED BY <1>4, <1>10, <3>1 DEF AllName, Disks, Native, Source
    <2>4. SaveOf(job[k].op)' \notin refreshed'
      BY <1>4, <1>11, <2>2 DEF SaveOf
    <2> QED BY <2>2, <2>3, <2>4 DEF Shown, DurablePCs
  <1> QED BY <1>12, <1>13, <1>14, <1>15

(* A power loss leaves one of the directories that count.                  *)
LEMMA CrashKeepsLists ==
    ASSUME TypeInv, ListInv, Crash
    PROVE  ListInv'
  <1>1. /\ UNCHANGED <<journal, lists>> /\ \A k \in Jobs : job'[k].pc = "idle"
        /\ Disks' \subseteq Disks
    <2>1. \A k \in Jobs : job'[k].pc = "idle"
      BY CrashForm, ThreadValues
    <2>2. Disks' \subseteq Disks
      BY CrashForm DEF Disks, disk
    <2> QED BY <2>1, <2>2, CrashForm DEF evidence
  <1>2. /\ listed' = listed /\ refreshed' = refreshed /\ journal' = journal
    BY <1>1 DEF lists
  <1>3. /\ Own' <=> Own
        /\ \A q \in Ops : /\ Exists(q)' <=> Exists(q)
                          /\ Open(q)' <=> Open(q)
                          /\ Unresolved(q)' <=> Unresolved(q)
                          /\ Expected(q)' = Expected(q)
                          /\ SaveOf(q)' = SaveOf(q)
    BY <1>2 DEF Own, Open, Unresolved, Exists, Expected, SaveOf
  <1>4. \A v : AllName(v) => AllName(v)'
    BY <1>1 DEF AllName, Native, Source
  <1> SUFFICES ASSUME Own' PROVE (ListsShow /\ ListsOfOpen /\ ListsFresh /\ ThreadsShown)'
    BY DEF ListInv
  <1>5. ListsShow /\ ListsOfOpen /\ ListsFresh
    BY <1>3 DEF ListInv
  <1>6. ListsShow'
    <2>1. AllName(listed) => AllName(listed)'
      BY <1>1, <1>2 DEF AllName, Native, Source
    <2> QED BY <1>3, <1>5, <2>1 DEF ListsShow
  <1>7. ListsOfOpen'
    BY <1>2, <1>3, <1>4, <1>5 DEF ListsOfOpen
  <1>8. ListsFresh'
    BY <1>2, <1>3, <1>5 DEF ListsFresh
  <1>9. ThreadsShown'
    <2>1. "idle" \notin SavePCs
      BY PlaceFacts
    <2> QED BY <1>1, <2>1 DEF ThreadsShown
  <1> QED BY <1>6, <1>7, <1>8, <1>9

LEMMA InitLists == Init => ListInv
  <1> SUFFICES ASSUME Init PROVE ListsShow /\ ListsOfOpen /\ ListsFresh /\ ThreadsShown
    BY DEF ListInv
  <1>1. /\ \A o \in Ops : ~Exists(o) /\ ~Open(o)
        /\ \A j \in Jobs : job[j].pc = "idle"
        /\ possible = {dir} /\ dir[Source] = 0 /\ listed = 0 /\ refreshed = {}
    BY ThreadValues, EntryFacts DEF Init, Exists, Open
  <1>2. "idle" \notin SavePCs
    BY PlaceFacts
  <1> QED BY <1>1, <1>2 DEF ListsShow, ListsOfOpen, ListsFresh, ThreadsShown, AllName, Disks

LEMMA NextLists ==
    ASSUME ~Undoes, AtomicExchange, ~Moves, TypeInv, DiskInv, NeverInv, ListInv, StillOpen,
           OneAtATime, OneAtATime', SeesSource, lapses' = {}, [Next]_vars
    PROVE  ListInv'
  <1>1. CASE Start \/ Close \/ UNCHANGED vars
    <2>1. UNCHANGED <<journal, lists, disk>>
      BY <1>1 DEF Start, Close, evidence, lists, vars, disk
    <2>2. BecomesDir(dir) /\ dir \in Directories
      BY <2>1, SyncForms DEF TypeInv, VarsTyped
    <2>3. \A k \in Jobs : job'[k] = job[k] \/ job'[k].pc \notin SavePCs
      <3>1. Scan("load", 0).pc = "load" /\ "load" \notin SavePCs
        BY DEF Idle, Scan, At, SavePCs, CommitPCs, CleanPCs
      <3>2. Start => \A k \in Jobs : job'[k] = job[k] \/ job'[k] = Scan("load", 0)
        BY JobFacts DEF Start, Becomes, TypeInv, VarsTyped
      <3> QED BY <1>1, <3>1, <3>2 DEF Close, vars
    <2> QED BY <2>1, <2>2, <2>3, AsideKeepsLists
  <1>2. CASE Edit
    <2>1. PICK d \in Directories : EditedDir(d) /\ BecomesDir(d)
      BY <1>2, EditForm
    <2>2. UNCHANGED <<journal, lists, job>>
      BY <1>2, EditForm DEF evidence
    <2>3. ~Native(d)
      <3>1. PICK v \in Foreign : \/ d = [dir EXCEPT ![Source] = v]
                                 \/ d = [e \in Entries |-> IF dir[e] = dir[Source] THEN v ELSE dir[e]]
        BY <2>1 DEF EditedDir
      <3>2. Source \in Entries /\ dir \in Directories
        BY EntryFacts DEF TypeInv, VarsTyped
      <3> QED BY <3>1, <3>2 DEF Directories, Native
    <2> QED BY <2>1, <2>2, <2>3, AsideKeepsLists
  <1>3. CASE Crash
    BY <1>3, CrashKeepsLists
  <1>4. ASSUME NEW j \in Workers, Begin(j) PROVE ListInv'
    BY <1>4, BeginKeepsLists
  <1>5. ASSUME NEW j \in Jobs, Save(j) PROVE ListInv'
    <2>1. CASE Own
      BY <1>5, <2>1, SaveKeepsLists
    <2>2. CASE ~Own
      BY <1>5, <2>2, SaveSettles DEF ListInv
    <2> QED BY <2>1, <2>2
  <1>6. CASE Recover
    BY <1>6, RecoverKeepsLists
  <1>7. ~Move
    BY DEF Move
  <1>8. \A j \in Jobs : ~Undo(j)
    BY UndoIsPlaced, UndoRecord
  <1>9. \A j \in Workers : ~BeginUndo(j)
    BY BeginUndoForm
  <1> QED BY <1>1, <1>2, <1>3, <1>4, <1>5, <1>6, <1>7, <1>8, <1>9 DEF Next

(* The lists as long as they were told.                                    *)
ToldLists == lapses = {} => ListInv /\ StillOpen

LEMMA InitToldLists == Init => ToldLists
  <1>1. Init => StillOpen
    BY ThreadValues DEF Init, StillOpen
  <1> QED BY <1>1, InitLists DEF ToldLists

LEMMA NextToldLists ==
    ASSUME ~Undoes, AtomicExchange, ~Moves
    PROVE  TypeInv /\ DiskInv /\ ToldNever /\ ToldLists /\ OneAtATime /\ OneAtATime' /\ SeesSource
             /\ [Next]_vars => ToldLists'
  <1> SUFFICES ASSUME TypeInv, DiskInv, ToldNever, ToldLists, OneAtATime, OneAtATime', SeesSource,
                      [Next]_vars, lapses' = {}
               PROVE  (ListInv /\ StillOpen)'
    BY DEF ToldLists
  <1>1. NeverInv /\ ListInv /\ StillOpen
    BY LapsesStay DEF ToldNever, ToldLists
  <1> QED BY <1>1, NextLists, NextStillOpen

LEMMA ListsEnough ==
    ASSUME TypeInv, NeverInv, ListInv, Quiet, ~Edited
    PROVE  \A d \in Disks : d[Source] = listed
  <1>1. Fine
    BY EntryFacts DEF Edited, Fine, Own, Native
  <1>2. \A o \in Ops : ~Unresolved(o)
    BY DEF Quiet, Unresolved
  <1>3. AllName(listed)
    BY <1>1, <1>2 DEF ListInv, ListsShow, Fine
  <1>4. \A d \in Disks : Native(d)
    BY <1>1 DEF NeverInv, FileInv, NativeDirs, TypeInv, VarsTyped, Disks
  <1> QED BY <1>3, <1>4 DEF AllName

(* Once every save is complete or rolled back, the lists describe the      *)
(* version the path names, in the directory and in every one a power loss  *)
(* can still bring back: until a startup job takes back a save the lists   *)
(* show, or a committer passes over a picture.  The startup job judges a   *)
(* save by the name it finds, so the theorem asks that this name has been  *)
(* there since the last sync of the directory.                             *)
THEOREM ListsFollowFile ==
    ASSUME ~Undoes, AtomicExchange, ~Moves, "power" \in CrashKinds
    PROVE  Spec /\ []OneAtATime /\ []SeesSource => []ListsMatchFile
  <1>1. TypeInv /\ ToldNever /\ ToldLists => ListsMatchFile
    BY ListsEnough DEF ListsMatchFile, Disks, ToldNever, ToldLists
  <1> QED BY <1>1, InitTyped, InitDisk, InitToldNever, InitToldLists, NextTyped, NextDisk, NextToldNever,
             NextToldLists, PTL DEF Spec

(* Tag saves, where only processes crash: nothing else is asked.           *)
THEOREM TagSavesFollowFile ==
    ASSUME ~Undoes, AtomicExchange, ~Moves, "cover" \notin Kinds, "power" \notin CrashKinds
    PROVE  Spec => [](Quiet /\ ~Edited /\ lapses = {} => dir[Source] = listed)
  <1> DEFINE Agree == Quiet /\ ~Edited /\ lapses = {} => dir[Source] = listed
  <1>1. TypeInv /\ ToldNever /\ ToldLists => Agree
    BY ListsEnough DEF Disks, ToldNever, ToldLists
  <1>2. SeesSource
    BY DEF SeesSource, AllName, Disks
  <1>3. TypeInv /\ OneAtATime /\ [Next]_vars => OneAtATime'
    BY NextAlone
  <1>4. TypeInv /\ DiskInv /\ ToldNever /\ ToldLists /\ OneAtATime /\ OneAtATime' /\ [Next]_vars
           => ToldLists'
    BY <1>2, NextToldLists
  <1> QED BY <1>1, <1>3, <1>4, InitTyped, InitDisk, InitToldNever, InitToldLists, InitAlone, NextTyped,
             NextDisk, NextToldNever, PTL DEF Spec

-------------------------------------------------------------------------------
(* Seen from the lists a save happens in one step or not at all.           *)

NoReversal == \A o \in Ops : UndoOf(o) \notin refreshed

(* The startup job does not finish, from a list it has read before, a save *)
(* that was handed to the user since.                                      *)
NotOverruled ==
    \A j \in Jobs :
        job[j].pc \in {"published", "reread"} => journal[job[j].op].state # "needs_reconciliation"

(* A step that leaves records and lists alone does not show. *)
LEMMA HiddenStep ==
    ASSUME UNCHANGED <<journal, listed, refreshed>>
    PROVE  UNCHANGED <<Seen, Plans, listed>>
  BY DEF Seen, Plans, Verdict, Exists, Expected, SaveOf, UndoOf

LEMMA SaveAndUndoDiffer == \A o, q : SaveOf(o) # UndoOf(q)
  BY DEF SaveOf, UndoOf

LEMMA SameVerdict ==
    ASSUME NEW q, journal'[q] = journal[q], SaveOf(q) \in refreshed' <=> SaveOf(q) \in refreshed,
           UndoOf(q) \in refreshed' <=> UndoOf(q) \in refreshed
    PROVE  Verdict(q)' = Verdict(q)
  BY DEF Verdict, Exists, SaveOf, UndoOf

(* The undo of a save is the only step that reverses it.                   *)
LEMMA SaveKeepsNoReversal ==
    ASSUME NoReversal, NEW j \in Jobs, Save(j)
    PROVE  NoReversal'
  <1> SUFFICES ASSUME NEW q \in Ops PROVE UndoOf(q) \notin refreshed'
    BY DEF NoReversal, UndoOf
  <1>1. UndoOf(q) \notin refreshed
    BY DEF NoReversal
  <1>2. UNCHANGED refreshed \/ refreshed' = refreshed \cup {SaveOf(job[j].op)}
    BY SaveLists DEF lists, Refresh
  <1> QED BY <1>1, <1>2, SaveAndUndoDiffer

LEMMA BeginAnnounces ==
    ASSUME TypeInv, ListInv, Own, NoReversal, NEW j \in Workers, Begin(j)
    PROVE  Atomic!Next
  <1>1. PICK o \in Ops, kind \in Kinds :
              /\ NextRow(o)
              /\ [state |-> "planned", expected |-> dir[Source], kind |-> kind] \in Record
              /\ journal' = [journal EXCEPT ![o] =
                    [state |-> "planned", expected |-> dir[Source], kind |-> kind]]
              /\ UNCHANGED lists
    BY BeginForm
  <1>2. PICK r : journal' = [journal EXCEPT ![o] = r] /\ r.state = "planned" /\ r # Unused
    <2> DEFINE r == [state |-> "planned", expected |-> dir[Source], kind |-> kind]
    <2>1. r.state = "planned" /\ r # Unused
      BY <1>1, RecordIsUsed
    <2>2. journal' = [journal EXCEPT ![o] = r]
      BY <1>1
    <2> HIDE DEF r
    <2> QED BY <2>1, <2>2
  <1>3. /\ journal'[o] = r /\ \A q \in Ops \ {o} : journal'[q] = journal[q]
        /\ listed' = listed /\ refreshed' = refreshed /\ ~Exists(o)
        /\ SaveOf(o) \notin refreshed /\ UndoOf(o) \notin refreshed
    BY <1>1, <1>2 DEF TypeInv, VarsTyped, NextRow, lists, ListInv, ListsFresh, NoReversal
  <1>4. Seen[o] = "none"
    BY <1>3 DEF Seen, Verdict
  <1>5. Seen' = [Seen EXCEPT ![o] = "open"]
    <2>1. Verdict(o)' = "open"
      BY <1>2, <1>3 DEF Verdict, Exists, SaveOf, UndoOf
    <2>2. \A q \in Ops \ {o} : Verdict(q)' = Verdict(q)
      BY <1>3, SameVerdict
    <2> QED BY <2>1, <2>2 DEF Seen
  <1>6. \A q \in Ops \ {o} : Plans'[q] = Plans[q]
    BY <1>3 DEF Plans, Exists, Expected
  <1>7. Atomic!Announce(o)
    BY <1>3, <1>4, <1>5, <1>6 DEF Atomic!Announce, Seen, Plans
  <1> QED BY <1>7 DEF Atomic!Next

(* The refresh of the lists is the step in which a save takes effect; a    *)
(* record is closed as rolled back only when it has not.                   *)
LEMMA SaveShows ==
    ASSUME TypeInv, NeverInv, ListInv, StillOpen, Own, NoReversal, NotOverruled, NEW j \in Jobs, Save(j)
    PROVE  Atomic!Next \/ UNCHANGED <<Seen, Plans, listed>>
  <1> SUFFICES ASSUME NEW o, o = job[j].op
               PROVE  Atomic!Next \/ UNCHANGED <<Seen, Plans, listed>>
    OBVIOUS
  <1>1. /\ o \in Ops /\ Exists(o) /\ job[j].pc \in SavePCs /\ VarsTyped
        /\ journal[o].state \in JournalStates /\ UndoOf(o) \notin refreshed
        /\ UndoOf(o)' = UndoOf(o) /\ SaveOf(o)' = SaveOf(o) /\ job[j].known \in OpenStates
    BY SaveIsEngaged, EngagedRecord, ExistingRecord DEF TypeInv, NoReversal, UndoOf, SaveOf
  <1>2. /\ \A q \in Ops : (Exists(q)' <=> Exists(q)) /\ (Exists(q) => Expected(q)' = Expected(q))
        /\ \A q \in Ops \ {o} : journal'[q] = journal[q]
    BY SaveSettles
  <1>3. Plans' = Plans
    BY <1>2 DEF Plans
  <1>4. CASE UNCHANGED <<listed, refreshed>>
    <2>1. listed' = listed /\ refreshed' = refreshed
      BY <1>4
    <2>2. \A q \in Ops \ {o} : Verdict(q)' = Verdict(q)
      BY <1>2, <2>1, SameVerdict
    <2>3. CASE journal'[o] = journal[o]
      <3>1. Verdict(o)' = Verdict(o)
        BY <2>1, <2>3, SameVerdict
      <3> QED BY <1>3, <2>1, <2>2, <3>1 DEF Seen
    <2>4. CASE /\ journal[o].state = job[j].known
               /\ journal'[o].state = "rolled_back" => job[j].pc = "abort"
      <3>1. Open(o) /\ Verdict(o) \in {"open", "done"}
        BY <1>1, <2>4 DEF Open, OpenStates, Verdict
      <3>2. CASE journal'[o].state = "rolled_back"
        <4>1. SaveOf(o) \notin refreshed
          BY <1>1, <2>4, <3>1, <3>2 DEF ListInv, ThreadsShown, Shown
        <4>2. Seen[o] = "open"
          BY <1>1, <2>4, <4>1 DEF Seen, Verdict, OpenStates
        <4>3. Verdict(o)' = "given up"
          BY <1>1, <1>2, <3>2 DEF Verdict, Exists
        <4>4. Seen' = [Seen EXCEPT ![o] = "given up"]
          BY <2>2, <4>3 DEF Seen
        <4>5. Atomic!GiveUp(o)
          BY <1>3, <2>1, <4>2, <4>4 DEF Atomic!GiveUp, Seen, Plans
        <4> QED BY <1>1, <4>5 DEF Atomic!Next
      <3>3. CASE journal'[o].state = "needs_reconciliation"
        <4>1. Verdict(o)' = "unresolved"
          BY <1>1, <1>2, <3>3 DEF Verdict, Exists
        <4>2. Seen' = [Seen EXCEPT ![o] = "unresolved"] /\ Seen[o] \in {"open", "done"}
          BY <1>1, <2>2, <3>1, <4>1 DEF Seen
        <4>3. Atomic!Present(o)
          BY <1>3, <2>1, <4>2 DEF Atomic!Present, Seen, Plans
        <4> QED BY <1>1, <4>3 DEF Atomic!Next
      <3>4. CASE journal'[o].state \notin {"rolled_back", "needs_reconciliation"}
        <4>1. Verdict(o)' = Verdict(o)
          BY <1>1, <1>2, <2>1, <2>4, <3>4 DEF Verdict, OpenStates
        <4> QED BY <1>3, <2>1, <2>2, <4>1 DEF Seen
      <3> QED BY <3>2, <3>3, <3>4
    <2> QED BY <2>3, <2>4, SaveEvidence
  <1>5. CASE /\ job[j].pc = "reread" /\ Refresh(SaveOf(o), o) /\ UNCHANGED evidence
             /\ ~UNCHANGED <<listed, refreshed>>
    <2>1. /\ SaveOf(o) \notin refreshed /\ listed' = o /\ refreshed' = refreshed \cup {SaveOf(o)}
          /\ journal' = journal
      BY <1>5 DEF Refresh, evidence
    <2>3. journal[o].state \notin {"complete", "rolled_back", "needs_reconciliation"}
      <3>1. journal[o].state # "complete"
        BY <1>1, <2>1 DEF NeverInv, Followed
      <3>2. journal[o].state # "rolled_back"
        BY <1>1, <1>5 DEF StillOpen
      <3> QED BY <1>5, <3>1, <3>2 DEF NotOverruled
    <2>4. Seen[o] = "open" /\ Verdict(o)' = "done"
      BY <1>1, <1>2, <2>1, <2>3, SaveAndUndoDiffer DEF Seen, Verdict
    <2>5. \A q \in Ops \ {o} : Verdict(q)' = Verdict(q)
      <3>1. \A q \in Ops \ {o} : SaveOf(q) # SaveOf(o) /\ UndoOf(q) # SaveOf(o)
        BY SaveAndUndoDiffer DEF SaveOf
      <3>2. \A q \in Ops \ {o} : /\ SaveOf(q) \in refreshed' <=> SaveOf(q) \in refreshed
                                 /\ UndoOf(q) \in refreshed' <=> UndoOf(q) \in refreshed
        BY <2>1, <3>1
      <3> QED BY <1>2, <3>2, SameVerdict
    <2>6. Seen' = [Seen EXCEPT ![o] = "done"]
      BY <2>4, <2>5 DEF Seen
    <2>7. Atomic!Apply(o)
      BY <1>3, <2>1, <2>4, <2>6 DEF Atomic!Apply, Seen, Plans, ShowSaved
    <2> QED BY <1>1, <2>7 DEF Atomic!Next
  <1> QED BY <1>4, <1>5, SaveLists DEF evidence

LEMMA NextNoReversal ==
    ASSUME ~Undoes, ~Moves, TypeInv, NoReversal, [Next]_vars
    PROVE  NoReversal'
  <1>1. \A j \in Workers : Begin(j) => UNCHANGED refreshed
    BY BeginForm DEF lists
  <1>2. \A j \in Jobs : Save(j) => NoReversal'
    BY SaveKeepsNoReversal
  <1>3. Start \/ Close \/ Crash \/ Edit \/ UNCHANGED vars => UNCHANGED refreshed
    BY DEF Start, Close, Crash, Edit, vars, lists
  <1>4. Recover => UNCHANGED refreshed
    BY RecoverMoves, RecoverRest DEF RecoverForm, lists
  <1>5. ~Move /\ (\A j \in Jobs : ~Undo(j)) /\ \A j \in Workers : ~BeginUndo(j)
    BY UndoIsPlaced, UndoRecord, BeginUndoForm DEF Move
  <1>6. UNCHANGED refreshed => NoReversal'
    BY DEF NoReversal, UndoOf
  <1> QED BY <1>1, <1>2, <1>3, <1>4, <1>5, <1>6 DEF Next

LEMMA NextShows ==
    ASSUME ~Undoes, ~Moves, TypeInv, NeverInv, ListInv, StillOpen, Own, NoReversal, NotOverruled,
           [Next]_vars
    PROVE  Atomic!Next \/ UNCHANGED <<Seen, Plans, listed>>
  <1>1. \A j \in Workers : Begin(j) => Atomic!Next
    BY BeginAnnounces
  <1>2. ASSUME NEW j \in Jobs, Save(j) PROVE Atomic!Next \/ UNCHANGED <<Seen, Plans, listed>>
    BY <1>2, SaveShows
  <1>3. UNCHANGED <<journal, lists>> => UNCHANGED <<Seen, Plans, listed>>
    BY HiddenStep DEF lists
  <1>4. Start \/ Close \/ Crash \/ Edit \/ UNCHANGED vars => UNCHANGED <<journal, lists>>
    BY DEF Start, Close, Crash, Edit, vars, evidence, lists
  <1>5. Recover => UNCHANGED <<journal, lists>>
    BY RecoverMoves, RecoverRest DEF RecoverForm, evidence
  <1>6. ~Move /\ (\A j \in Jobs : ~Undo(j)) /\ \A j \in Workers : ~BeginUndo(j)
    BY UndoIsPlaced, UndoRecord, BeginUndoForm DEF Move
  <1> QED BY <1>1, <1>2, <1>3, <1>4, <1>5, <1>6 DEF Next

(* The lists see every save as one atomic operation, whatever crashes,     *)
(* power losses, failures and recoveries it went through: it takes effect  *)
(* once and is then kept or handed to the user, or it is given up and      *)
(* never takes effect.  This lasts until a startup job takes back a save   *)
(* the lists show, or a committer passes over a picture.  Besides the      *)
(* hypotheses of the last section, no save replaces what another program   *)
(* has written, and the startup job finishes no save that was handed to    *)
(* the user after its list was read.                                       *)
THEOREM SavesRefineAtomicOperation ==
    ASSUME ~Undoes, AtomicExchange, ~Moves
    PROVE  Spec /\ []OneAtATime /\ []SeesSource /\ []Own /\ []NotOverruled => SavesAreAtomic
  <1>1. Init => Atomic!Init /\ NoReversal
    BY DEF Init, Atomic!Init, Seen, Verdict, Exists, NoReversal, Versions
  <1>2. TypeInv /\ ToldNever /\ ToldLists /\ Own /\ NoReversal /\ NotOverruled /\ [Next]_vars
          => [lapses' = {} => Atomic!Next]_<<Seen, Plans, listed>>
    <2> SUFFICES ASSUME TypeInv, ToldNever, ToldLists, Own, NoReversal, NotOverruled, [Next]_vars,
                        lapses' = {}
                 PROVE  Atomic!Next \/ UNCHANGED <<Seen, Plans, listed>>
      OBVIOUS
    <2>1. NeverInv /\ ListInv /\ StillOpen
      BY LapsesStay DEF ToldNever, ToldLists
    <2> QED BY <2>1, NextShows
  <1>3. TypeInv /\ NoReversal /\ [Next]_vars => NoReversal'
    BY NextNoReversal
  <1> QED BY <1>1, <1>2, <1>3, InitTyped, InitDisk, InitToldNever, InitToldLists, NextTyped, NextDisk,
             NextToldNever, NextToldLists, PTL DEF Spec, SavesAreAtomic

(* Tag saves where only processes crash need the last two alone.           *)
THEOREM TagSavesAreAtomic ==
    ASSUME ~Undoes, AtomicExchange, ~Moves, "cover" \notin Kinds, "power" \notin CrashKinds
    PROVE  Spec /\ []Own /\ []NotOverruled => SavesAreAtomic
  <1>1. SeesSource
    BY DEF SeesSource, AllName, Disks
  <1>2. Init => OneAtATime
    BY InitAlone
  <1>3. TypeInv /\ OneAtATime /\ [Next]_vars => OneAtATime'
    BY NextAlone
  <1>4. Spec => []OneAtATime
    BY <1>2, <1>3, InitTyped, NextTyped, PTL DEF Spec
  <1> QED BY <1>1, <1>4, SavesRefineAtomicOperation, PTL
===============================================================================
