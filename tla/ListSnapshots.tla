---------------------------- MODULE ListSnapshots -----------------------------
(***************************************************************************)
(* The lists in memory, the list database, and the files they describe.    *)
(* The window saves whole snapshots of its lists from a timer; workers that *)
(* rewrite or move files save a snapshot first and commit what they did     *)
(* later; one persistence thread runs all of it in the order it was asked.  *)
(* A snapshot taken before a commit may be stored after it, and the window  *)
(* may die before it hears of the commit: the durable metadata cache and    *)
(* the history of moves must repair both.                                   *)
(*                                                                         *)
(* One list with one undo history; a row is one occurrence of one file.     *)
(* A revision is what stat shows of a file, tags are named by the revision  *)
(* that wrote them.  What a worker does to the file itself, and its record  *)
(* in the operation journal, are one step here: RenamePublication,          *)
(* CopyPublication and MetadataCommit take them apart.                      *)
(***************************************************************************)
EXTENDS Naturals, FiniteSets, SequencesExt

CONSTANTS
    Files, Paths,
    Rows,        \* places of the list
    Workers,     \* Apply jobs of the dialogs, one operation each
    Recovery,    \* the startup job
    Kinds,       \* operations in use, of "tags", "move", "copy", "publish"
    Absent,      \* no row, no cache entry, no snapshot
    MaxOps,      \* bound on operations
    MaxEdits,    \* bound on edits of the list by the user
    MaxForeign,  \* bound on rewrites of a file by other programs
    MaxFaults,   \* bound on database errors
    MaxCrashes,  \* bound on crashes
    MaxEvents,   \* bound on all four together
    Failing,     \* requests that may fail, of "save", "commit"
    MaxQueue,    \* snapshots waiting for the persistence thread
    Overlap      \* may an operation begin while another one, or the startup
                 \* job, has not reported to the window

Ops == 1..MaxOps
Jobs == Workers \cup {Recovery}
Revisions == 1..(Cardinality(Files) + MaxOps + MaxForeign)

ASSUME ListAssumption ==
    /\ \A n \in {MaxOps, MaxEdits, MaxForeign, MaxFaults, MaxCrashes, MaxEvents, MaxQueue} : n \in Nat
    /\ IsFiniteSet(Files) /\ Cardinality(Files) <= Cardinality(Paths)
    /\ Recovery \notin Workers
    /\ Kinds \subseteq {"tags", "move", "copy", "publish"}
    /\ Failing \subseteq {"save", "commit"}
    /\ Overlap \in BOOLEAN

VARIABLES
    life,     \* "down", "running" or "closing"
    file,     \* file -> its path, revision and tags
    clock,    \* the last revision a file was given
    touched,  \* files another program has rewritten (only observed)
    ops,      \* operation -> its record in the operation journals
    db,       \* the list database
    shown,    \* the rows of the list
    retained, \* the rows its undo history keeps
    timer,    \* is the persistence timer running
    queue,    \* what the persistence thread has been asked
    job,      \* thread -> what it is doing
    edits, foreigns, faults, crashes

vars == <<life, file, clock, touched, ops, db, shown, retained, timer, queue, job,
          edits, foreigns, faults, crashes>>
disk == <<file, clock, touched>>
view == <<shown, retained>>
budget == <<edits, foreigns, faults, crashes>>

Patience == edits + foreigns + faults + crashes < MaxEvents

(* A row remembers which file the user put there; no action reads it. *)
Row == [of : Files, path : Paths, rev : Revisions, tags : Revisions]
List == [Rows -> Row \cup {Absent}]
Empty == [r \in Rows |-> Absent]
CacheEntry == [prev : Revisions, pub : Revisions, tags : Revisions]

Unused == [state |-> "none"]
Operation == [state : {"published", "complete", "rolled_back", "needs_reconciliation"},
              kind : Kinds, file : Files, source : Paths, target : Paths,
              prev : Revisions, pub : Revisions, before : Revisions, tags : Revisions]

Idle == [pc |-> "idle", op |-> 0, docs |-> Absent, maymove |-> FALSE, results |-> <<>>]

Occurrences(rows, p) == {r \in Rows : rows[r] # Absent /\ rows[r].path = p}
RowOf(f) == [of |-> f, path |-> file[f].path, rev |-> file[f].rev, tags |-> file[f].tags]
Free(p) == \A f \in Files : file[f].path # p

-------------------------------------------------------------------------------
(* Transactions of the list repository, as functions of the database.      *)

(* One recorded move, seen by a row that still describes its source. *)
Follow(row, move) ==
    IF row.path = move.source /\ row.rev = move.prev
        THEN [row EXCEPT !.path = move.target, !.rev = move.pub]
        ELSE row

Resolved(d, rows) ==
    [r \in Rows |-> IF rows[r] = Absent THEN Absent ELSE FoldLeft(Follow, rows[r], d.moves)]

Replaced(d, rows) == [d EXCEPT !.items = Resolved(d, rows)]

(* A row of the path carries a revision the cache has never heard of. *)
ExternallyRefreshed(d, rows, p) ==
    \E r \in Occurrences(rows, p) : rows[r].rev \notin {d.cache[p].prev, d.cache[p].pub}

(* Mutation: the cache is not laid over the rows. *)
LoadWithoutCache(d) == Resolved(d, d.items)

LoadAll(d) ==
    LET found == Resolved(d, d.items)
        Overlaid(row) ==
            IF d.cache[row.path] = Absent \/ ExternallyRefreshed(d, found, row.path)
                THEN row
                ELSE [row EXCEPT !.rev = d.cache[row.path].pub, !.tags = d.cache[row.path].tags]
    IN [r \in Rows |-> IF found[r] = Absent THEN Absent ELSE Overlaid(found[r])]

(* A metadata refresh takes every occurrence of the path, whatever its     *)
(* revision.                                                               *)
CanRefresh(d, o) == Occurrences(d.items, ops[o].source) # {}

RefreshedItems(d, o) ==
    [r \in Rows |-> IF r \in Occurrences(d.items, ops[o].source)
                      THEN [d.items[r] EXCEPT !.rev = ops[o].pub, !.tags = ops[o].tags]
                      ELSE d.items[r]]

RefreshedCache(d, o) ==
    [d.cache EXCEPT ![ops[o].source] =
        [prev |-> ops[o].prev, pub |-> ops[o].pub, tags |-> ops[o].tags]]

Refreshed(d, o) ==
    [d EXCEPT !.items = RefreshedItems(d, o), !.cache = RefreshedCache(d, o),
              !.done = @ \cup {o}]

(* A move takes the occurrences of its source, or those a snapshot already *)
(* resolved to its target, all at the revision it started from.            *)
AlreadyAtTarget(d, o) ==
    /\ Occurrences(d.items, ops[o].source) = {}
    /\ Occurrences(d.items, ops[o].target) # {}

Movable(d, o) ==
    Occurrences(d.items, IF AlreadyAtTarget(d, o) THEN ops[o].target ELSE ops[o].source)

CanRelocate(d, o) ==
    /\ Movable(d, o) # {}
    /\ \A r \in Movable(d, o) : d.items[r].rev = ops[o].prev
    /\ AlreadyAtTarget(d, o) \/ Occurrences(d.items, ops[o].target) = {}

RelocatedItems(d, o) ==
    LET op == ops[o]
    IN [r \in Rows |->
          IF r \in Movable(d, o)
            THEN [d.items[r] EXCEPT !.path = op.target, !.rev = op.pub,
                                    !.tags = IF op.kind = "publish" THEN op.tags ELSE @]
            ELSE d.items[r]]

RelocatedCache(d, o) ==
    LET op == ops[o]
        carried == d.cache[op.source]
        Entry(tags) == [prev |-> op.prev, pub |-> op.pub, tags |-> tags]
    IN [d.cache EXCEPT
          ![op.source] = Absent,
          ![op.target] = IF op.kind = "publish" THEN Entry(op.tags)
                         ELSE IF carried # Absent THEN Entry(carried.tags)
                         ELSE IF AlreadyAtTarget(d, o) THEN @
                         ELSE Absent]

(* Mutation: the move itself is not remembered. *)
RelocatedOnce(d, o) ==
    [d EXCEPT !.items = RelocatedItems(d, o), !.cache = RelocatedCache(d, o),
              !.done = @ \cup {o}]

Relocated(d, o) ==
    LET op == ops[o]
    IN [d EXCEPT !.items = RelocatedItems(d, o),
                 !.cache = RelocatedCache(d, o),
                 !.moves = Append(@, [source |-> op.source, target |-> op.target,
                                      prev |-> op.prev, pub |-> op.pub]),
                 !.done = @ \cup {o}]

(* Either transaction is applied once for each operation. *)
CanApply(d, o) ==
    \/ o \in d.done
    \/ IF ops[o].kind = "tags" THEN CanRefresh(d, o) ELSE CanRelocate(d, o)

Applied(d, o) ==
    IF o \in d.done THEN d
    ELSE IF ops[o].kind = "tags" THEN Refreshed(d, o)
    ELSE Relocated(d, o)

-------------------------------------------------------------------------------
(* What the window does with a committed operation.                        *)

TakeTags(rows, p, op) ==
    [r \in Rows |-> IF rows[r] # Absent /\ rows[r].path = p
                      THEN [rows[r] EXCEPT !.rev = op.pub, !.tags = op.tags]
                      ELSE rows[r]]

(* Mutation: the undo history is forgotten when rows take new tags. *)
TagsOfShownRows(v, p, op) == [v EXCEPT !.shown = TakeTags(v.shown, p, op)]

TagsOfAllRows(v, p, op) ==
    [shown |-> TakeTags(v.shown, p, op), retained |-> TakeTags(v.retained, p, op)]

TakePath(rows, op) ==
    [r \in Rows |-> IF rows[r] # Absent /\ rows[r].path = op.source
                      THEN [rows[r] EXCEPT !.path = op.target, !.rev = op.pub]
                      ELSE rows[r]]

Disagrees(rows, op) == \E r \in Occurrences(rows, op.source) : rows[r].rev # op.prev

(* A history that disagrees is discarded; a list that disagrees is left as *)
(* it is and the user is told.                                             *)
PathOfAllRows(v, op) ==
    LET kept == IF Disagrees(v.retained, op) THEN Empty ELSE v.retained
    IN IF \/ Occurrences(v.shown, op.target) # {} /\ Occurrences(v.shown, op.source)
                                                     \cup Occurrences(kept, op.source) # {}
          \/ Disagrees(v.shown, op)
         THEN [v EXCEPT !.retained = kept]
         ELSE [shown |-> TakePath(v.shown, op), retained |-> TakePath(kept, op)]

Shows(v, o) ==
    LET op == ops[o]
    IN IF op.kind = "tags" THEN TagsOfAllRows(v, op.source, op)
       ELSE IF op.kind = "publish" THEN TagsOfAllRows(PathOfAllRows(v, op), op.target, op)
       ELSE PathOfAllRows(v, op)

-------------------------------------------------------------------------------
Goto(j, pc) == job' = [job EXCEPT ![j].pc = pc]
Return(j) == job' = [job EXCEPT ![j] = Idle]

Save(rows, by) == [kind |-> "save", rows |-> rows, op |-> 0, by |-> by]
Commit(o, by) == [kind |-> "commit", rows |-> Absent, op |-> o, by |-> by]
Ask(request) == queue' = Append(queue, request)

(* Which file has which name and which revision first makes no difference, *)
(* nor which file stands in a certain row.                                 *)
SomePlace == CHOOSE place \in [Files -> Paths] : IsInjective(place)
SomeRow == CHOOSE r \in Rows : TRUE
SomeFile == CHOOSE f \in Files : TRUE
SomeNumber == CHOOSE number \in [Files -> 1..Cardinality(Files)] : IsInjective(number)

Init ==
    /\ life = "down"
    /\ file = [f \in Files |-> [path |-> SomePlace[f], rev |-> SomeNumber[f], tags |-> SomeNumber[f]]]
    /\ clock = Cardinality(Files)
    /\ touched = {}
    /\ ops = [o \in Ops |-> Unused]
    /\ \E place \in [Rows -> Files] :
          /\ place[SomeRow] = SomeFile
          /\ db = [items |-> [r \in Rows |-> RowOf(place[r])],
                   cache |-> [p \in Paths |-> Absent], moves |-> <<>>, done |-> {}]
    /\ shown = Empty /\ retained = Empty
    /\ timer = FALSE /\ queue = <<>>
    /\ job = [j \in Jobs |-> Idle]
    /\ edits = 0 /\ foreigns = 0 /\ faults = 0 /\ crashes = 0

(* The lists are loaded, shown, and the startup job begins. *)
Start ==
    /\ life = "down" /\ life' = "running"
    /\ shown' = LoadAll(db)
    /\ Goto(Recovery, "scan")
    /\ UNCHANGED <<disk, ops, db, retained, timer, queue, budget>>

Stop ==
    /\ life' = "down"
    /\ shown' = Empty /\ retained' = Empty
    /\ timer' = FALSE /\ queue' = <<>>
    /\ job' = [j \in Jobs |-> Idle]
    /\ UNCHANGED <<disk, ops, db>>

Crash ==
    /\ life # "down" /\ Patience /\ crashes < MaxCrashes /\ crashes' = crashes + 1
    /\ Stop
    /\ UNCHANGED <<edits, foreigns, faults>>

(* A dialog that still works refuses to close; the startup job is stopped  *)
(* between two records and what it did is not shown any more.              *)
Close ==
    /\ life = "running" /\ life' = "closing"
    /\ \A j \in Workers : job[j].pc = "idle"
    /\ job[Recovery].pc \in {"idle", "scan", "report"}
    /\ Return(Recovery)
    /\ timer' = FALSE
    /\ Ask(Save(shown, "window"))
    /\ UNCHANGED <<disk, ops, db, view, budget>>

Exit ==
    /\ life = "closing" /\ queue = <<>>
    /\ Stop
    /\ UNCHANGED budget

-------------------------------------------------------------------------------
(* The window.                                                             *)

(* Mutation: an edit starts the timer only if nothing is being applied. *)
EditWhileApplying ==
    /\ life = "running" /\ Patience /\ edits < MaxEdits /\ edits' = edits + 1
    /\ timer' = (timer \/ \A j \in Jobs : job[j].pc = "idle")
    /\ UNCHANGED <<life, disk, ops, db, queue, job, foreigns, faults, crashes>>

Edit ==
    /\ life = "running" /\ Patience /\ edits < MaxEdits /\ edits' = edits + 1
    /\ timer' = TRUE
    /\ UNCHANGED <<life, disk, ops, db, queue, job, foreigns, faults, crashes>>

RemoveRow(r) ==
    /\ shown[r] # Absent
    /\ shown' = [shown EXCEPT ![r] = Absent]
    /\ retained' = [retained EXCEPT ![r] = shown[r]]
    /\ Edit

Undo(r) ==
    /\ retained[r] # Absent
    /\ shown' = [shown EXCEPT ![r] = retained[r]]
    /\ retained' = [retained EXCEPT ![r] = Absent]
    /\ Edit

(* The timer has run out. *)
Autosave ==
    /\ life = "running" /\ timer /\ Len(queue) < MaxQueue
    /\ timer' = FALSE
    /\ Ask(Save(shown, "window"))
    /\ UNCHANGED <<life, disk, ops, db, view, job, budget>>

(* A job has ended: the window hears of everything it committed. *)
Deliver(j) ==
    /\ life = "running" /\ job[j].pc = "report"
    /\ LET v == FoldLeft(Shows, [shown |-> shown, retained |-> retained], job[j].results)
       IN shown' = v.shown /\ retained' = v.retained
    /\ timer' = (timer \/ job[j].results # <<>>)
    /\ Return(j)
    /\ UNCHANGED <<life, disk, ops, db, queue, budget>>

(* Apply is pressed for a file the list shows: the lists are captured, and *)
(* stored when the job's thread runs.  A job that began beside the startup *)
(* job may not move files.                                                 *)
Begin(j) ==
    /\ life = "running" /\ job[j].pc = "idle"
    /\ Overlap \/ \A k \in Jobs : job[k].pc = "idle"
    /\ \E f \in Files : Occurrences(shown, file[f].path) # {}
    /\ job' = [job EXCEPT ![j] = [Idle EXCEPT !.pc = "captured", !.docs = shown,
                                             !.maymove = job[Recovery].pc = "idle"]]
    /\ UNCHANGED <<life, disk, ops, db, view, timer, queue, budget>>

-------------------------------------------------------------------------------
(* The jobs.                                                               *)

SaveFirst(j) ==
    /\ job[j].pc = "captured"
    /\ job' = [job EXCEPT ![j].pc = "saving", ![j].docs = Absent]
    /\ Ask(Save(job[j].docs, j))
    /\ UNCHANGED <<life, disk, ops, db, view, timer, budget>>

(* The inode is locked while an operation works on the file. *)
Locked(f) == \E j \in Jobs : job[j].op # 0 /\ ops[job[j].op].file = f

(* The file is rewritten or moved, its record says so, and the lists are   *)
(* asked to follow.  A rename keeps the revision, a copy does not.         *)
ChangeFile(j, f, kind, target) ==
    LET o == CHOOSE q \in Ops : ops[q] = Unused /\ \A p \in Ops : p < q => ops[p] # Unused
        pub == IF kind = "move" THEN file[f].rev ELSE clock + 1
        tags == IF kind \in {"tags", "publish"} THEN pub ELSE file[f].tags
    IN /\ job[j].pc = "saved" /\ ~Locked(f)
       /\ \E q \in Ops : ops[q] = Unused
       /\ Occurrences(shown, file[f].path) # {}
       /\ IF kind = "tags" THEN target = file[f].path
          ELSE Free(target) /\ job[j].maymove
       /\ ops' = [ops EXCEPT ![o] =
              [state |-> "published", kind |-> kind, file |-> f,
               source |-> file[f].path, target |-> target, prev |-> file[f].rev,
               pub |-> pub, before |-> file[f].tags, tags |-> tags]]
       /\ file' = [file EXCEPT ![f] = [path |-> target, rev |-> pub, tags |-> tags]]
       /\ clock' = IF kind = "move" THEN clock ELSE clock + 1
       /\ job' = [job EXCEPT ![j].pc = "waiting", ![j].op = o]
       /\ Ask(Commit(o, j))
       /\ UNCHANGED <<life, touched, db, view, timer, budget>>

(* Nothing could be done: the plan was stale, a check failed, cancelled. *)
Abandon(j) ==
    /\ job[j].pc = "saved"
    /\ Goto(j, "report")
    /\ UNCHANGED <<life, disk, ops, db, view, timer, queue, budget>>

HasWritten(f, o) ==
    file[f] = [path |-> ops[o].target, rev |-> ops[o].pub, tags |-> ops[o].tags]

After(j) == IF j = Recovery THEN "scan" ELSE "report"

(* The lists have followed: the record is completed. *)
Complete(j) ==
    /\ job[j].pc = "applied"
    /\ ops' = [ops EXCEPT ![job[j].op].state = "complete"]
    /\ job' = [job EXCEPT ![j].pc = After(j), ![j].op = 0,
                          ![j].results = Append(@, job[j].op)]
    /\ UNCHANGED <<life, disk, db, view, timer, queue, budget>>

(* They have not: the file is put back where that is still possible. *)
RollBack(j) ==
    LET o == job[j].op
        f == ops[o].file
    IN /\ job[j].pc = "refused"
       /\ IF HasWritten(f, o) /\ (ops[o].kind # "tags" => Free(ops[o].source))
            THEN /\ file' = [file EXCEPT ![f] = [path |-> ops[o].source, rev |-> ops[o].prev,
                                                 tags |-> ops[o].before]]
                 /\ ops' = [ops EXCEPT ![o].state = "rolled_back"]
            ELSE /\ ops' = [ops EXCEPT ![o].state = "needs_reconciliation"]
                 /\ UNCHANGED file
       /\ job' = [job EXCEPT ![j].pc = After(j), ![j].op = 0]
       /\ UNCHANGED <<life, clock, touched, db, view, timer, queue, budget>>

Unsettled == {o \in Ops : ops[o].state = "published"}

(* Tag saves are recovered before moves, each kind in order. *)
Sooner(o, q) ==
    \/ ops[o].kind = "tags" /\ ops[q].kind # "tags"
    \/ (ops[o].kind = "tags") = (ops[q].kind = "tags") /\ o <= q

Recover(o) ==
    /\ job[Recovery].pc = "scan" /\ o \in Unsettled
    /\ \A q \in Unsettled : Sooner(o, q)
    /\ ~Locked(ops[o].file)
    /\ IF HasWritten(ops[o].file, o)
         THEN /\ job' = [job EXCEPT ![Recovery].pc = "waiting", ![Recovery].op = o]
              /\ Ask(Commit(o, Recovery))
              /\ UNCHANGED ops
         ELSE /\ ops' = [ops EXCEPT ![o].state = "needs_reconciliation"]
              /\ UNCHANGED <<job, queue>>
    /\ UNCHANGED <<life, disk, db, view, timer, budget>>

Recovered ==
    /\ job[Recovery].pc = "scan" /\ Unsettled = {}
    /\ Goto(Recovery, "report")
    /\ UNCHANGED <<life, disk, ops, db, view, timer, queue, budget>>

-------------------------------------------------------------------------------
(* The persistence thread takes one request after the other.               *)

Answer(by, pc) == IF by \in Jobs THEN Goto(by, pc) ELSE UNCHANGED job

ServeSave ==
    /\ queue # <<>> /\ Head(queue).kind = "save"
    /\ db' = Replaced(db, Head(queue).rows)
    /\ Answer(Head(queue).by, "saved")
    /\ queue' = Tail(queue)
    /\ UNCHANGED <<life, disk, ops, view, timer, budget>>

ServeCommit ==
    LET request == Head(queue)
    IN /\ queue # <<>> /\ request.kind = "commit"
       /\ IF CanApply(db, request.op)
            THEN db' = Applied(db, request.op) /\ Answer(request.by, "applied")
            ELSE UNCHANGED db /\ Answer(request.by, "refused")
       /\ queue' = Tail(queue)
       /\ UNCHANGED <<life, disk, ops, view, timer, budget>>

(* The database is busy, full, or the call fails in another way; nobody    *)
(* tries again to store a snapshot that failed.  The failing replay of an  *)
(* applied operation is RenamePublication's ReplayMayFail, not repeated.   *)
ServeFails ==
    /\ queue # <<>> /\ Head(queue).kind \in Failing /\ Head(queue).op \notin db.done
    /\ Patience /\ faults < MaxFaults /\ faults' = faults + 1
    /\ Answer(Head(queue).by, IF Head(queue).kind = "save" THEN "report" ELSE "refused")
    /\ queue' = Tail(queue)
    /\ UNCHANGED <<life, disk, ops, db, view, timer, edits, foreigns, crashes>>

(* Another program rewrites a file in place. *)
Rewrite(f) ==
    /\ Patience /\ foreigns < MaxForeign /\ foreigns' = foreigns + 1
    /\ clock' = clock + 1
    /\ file' = [file EXCEPT ![f].rev = clock + 1, ![f].tags = clock + 1]
    /\ touched' = touched \cup {f}
    /\ UNCHANGED <<life, ops, db, view, timer, queue, job, edits, faults, crashes>>

JobStep(j) ==
    \/ SaveFirst(j) \/ Abandon(j) \/ Complete(j) \/ RollBack(j)
    \/ \E f \in Files, kind \in Kinds, target \in Paths : ChangeFile(j, f, kind, target)

RecoveryStep == Recovered \/ \E o \in Ops : Recover(o)
Serve == ServeSave \/ ServeCommit \/ ServeFails

Next ==
    \/ Start \/ Close \/ Exit \/ Crash \/ Autosave
    \/ \E r \in Rows : RemoveRow(r) \/ Undo(r)
    \/ \E j \in Workers : Begin(j)
    \/ \E j \in Jobs : Deliver(j) \/ JobStep(j)
    \/ RecoveryStep \/ Serve
    \/ \E f \in Files : Rewrite(f)

(* Threads run, the timer fires and the window's event loop turns. *)
Fairness ==
    /\ WF_vars(Serve) /\ WF_vars(Autosave) /\ WF_vars(RecoveryStep)
    /\ \A j \in Jobs : WF_vars(JobStep(j)) /\ WF_vars(Deliver(j))

Spec == Init /\ [][Next]_vars /\ Fairness

-------------------------------------------------------------------------------
TypeOK ==
    /\ life \in {"down", "running", "closing"}
    /\ file \in [Files -> [path : Paths, rev : Revisions, tags : Revisions]]
    /\ \A f, g \in Files : f # g => file[f].path # file[g].path
    /\ clock \in Revisions /\ touched \subseteq Files
    /\ ops \in [Ops -> {Unused} \cup Operation]
    /\ db.items \in List /\ db.cache \in [Paths -> CacheEntry \cup {Absent}]
    /\ db.done \subseteq Ops
    /\ shown \in List /\ retained \in List /\ timer \in BOOLEAN
    /\ \A i \in DOMAIN queue : queue[i].kind = "save" => queue[i].rows \in List
    /\ \A j \in Jobs : job[j].pc = "idle" => job[j] = Idle

Describes(row) == row # Absent =>
    [path |-> row.path, rev |-> row.rev, tags |-> row.tags] = file[row.of]

(* The file was changed by nobody else, and the database knows of every    *)
(* change the program made to it.                                          *)
Known(f) == f \notin touched /\ \A o \in Unsettled : ops[o].file = f => o \in db.done

(* If the program died now, the lists it would show after the next start   *)
(* describe the files: no snapshot, however late it is stored, undoes a    *)
(* committed move or tag save.                                             *)
CommittedViewSurvives ==
    \A r \in Rows : LoadAll(db)[r] # Absent /\ Known(LoadAll(db)[r].of)
                        => Describes(LoadAll(db)[r])

(* Nothing about the file is under way or still to be reported. *)
Quiet(f) ==
    /\ f \notin touched
    /\ \A o \in Unsettled : ops[o].file # f
    /\ \A j \in Jobs, i \in 1..MaxOps : i \in DOMAIN job[j].results => ops[job[j].results[i]].file # f

(* While the window is open, the rows it shows and the rows its undo       *)
(* history would bring back describe the files, wherever no result is      *)
(* still on its way.                                                       *)
RowsFollowFiles ==
    life = "running" =>
        \A r \in Rows, rows \in {shown, retained} :
            rows[r] # Absent /\ Quiet(rows[r].of) => Describes(rows[r])

(* The database never refuses an operation of the program itself because   *)
(* a snapshot put a row of the file somewhere else in the meantime: it     *)
(* does so only when the lists have lost the file, or other programs have  *)
(* changed what the rows at its paths stand for.                           *)
NoFalseRefusal ==
    queue # <<>> /\ Head(queue).kind = "commit" /\ ~CanApply(db, Head(queue).op) =>
        LET op == ops[Head(queue).op]
        IN \/ \A r \in Rows : db.items[r] # Absent => db.items[r].of # op.file
           \/ op.file \in touched
           \/ \E r \in Occurrences(db.items, op.source) \cup Occurrences(db.items, op.target) :
                 db.items[r].of \in touched

(* The list was edited between a job's capture and its first step. *)
StaleCapture == \E j \in Workers : job[j].pc = "captured" /\ job[j].docs # shown

(* Once the user stops, the next start would show what is shown now: the   *)
(* last snapshot stored is the newest, and every commit is part of it.     *)
(* Not so when a job has stored an older capture over a newer snapshot.    *)
ListsAreStored == []~StaleCapture => <>[](life = "running" => LoadAll(db) = shown)
=============================================================================
