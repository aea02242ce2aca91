----------------------------- MODULE LocalLibrary -----------------------------
(***************************************************************************)
(* The index of the local library while it is being refreshed.  A scan      *)
(* walks the chosen folders, hands changed files to a pool of workers that  *)
(* read their tags, and commits every answer in a transaction of its own;   *)
(* at the end of a folder it declares missing what it has not seen, and     *)
(* forgets what has certainly been deleted.  Meanwhile files are tagged,    *)
(* moved and copied by the program, which follows them in the index, and    *)
(* changed by others; folders are added and removed, volumes go offline,    *)
(* the user presses Stop.                                                   *)
(*                                                                         *)
(* A revision is what stat shows of a file; tags are named by the revision  *)
(* that brought them.  A path is a folder and a place in the order of the   *)
(* walk.  Queries, ratings and the wording of a row are left out.           *)
(***************************************************************************)
EXTENDS Naturals, FiniteSets

CONSTANTS
    Roots,       \* library folders
    Elsewhere,   \* everything outside of them
    Scanners,    \* windows of the program; each runs at most one scan
    Absent,      \* no file, no row, no folder
    Kinds,       \* operations of the program, of "tags", "move", "copy"
    RollBacks,   \* those of them that may be rolled back
    Mounts,      \* what a volume may become, of "on", "gone", "empty"
    Folders,     \* may folders be added and removed
    Stops,       \* may the user press Stop
    MaxPlaces,   \* bound on the files a folder has room for
    MaxFiles,    \* bound on the files there are at first
    MaxScans,    \* bound on scans, the first one being over
    MaxOps,      \* bound on operations of the program
    MaxForeign,  \* bound on what others do to files, volumes and folders
    MaxFaults,   \* bound on errors of reading and of the database
    Capacity     \* files waiting for a worker, or read, before the walk waits

Paths == (Roots \X (1..MaxPlaces)) \cup {<<Elsewhere, 1>>}
Root(p) == p[1]
Versions == 1..(Cardinality(Paths) + MaxOps + MaxForeign)
Contents == [rev : Versions, tags : Versions]
Generations == 1..MaxScans
RowType == [rev : Versions \cup {0}, tags : Versions, available : BOOLEAN,
            seen : Generations \cup {0}, complete : BOOLEAN]
RootType == [token : Generations \cup {0}, state : {"new", "offline", "partial", "scanned"}]

Number == CHOOSE n \in [Paths -> 1..Cardinality(Paths)] :
              \A p, q \in Paths : p # q => n[p] # n[q]

ASSUME LibraryAssumption ==
    /\ \A n \in {MaxPlaces, MaxFiles, MaxOps, MaxForeign, MaxFaults} : n \in Nat
    /\ {Capacity, MaxScans} \subseteq Nat \ {0}
    /\ IsFiniteSet(Roots) /\ Elsewhere \notin Roots
    /\ RollBacks \subseteq Kinds /\ Kinds \subseteq {"tags", "move", "copy"}
    /\ Mounts \subseteq {"on", "gone", "empty"}
    /\ {Folders, Stops} \subseteq BOOLEAN
    /\ Absent \notin Versions \cup Contents \cup RowType \cup RootType

VARIABLES
    disk,    \* path -> the file there, be its volume mounted or not
    mount,   \* folder -> "on", "gone" (no such directory) or "empty" (only
             \* the directory its volume is mounted on)
    clock,   \* the last version a file was given
    rows,    \* local_library_tracks; revision 0 is the empty one
    roots,   \* local_library_roots: scan token (0: never scanned) and state
    scan,    \* scanner -> the local variables of LocalLibrary::scan
    op,      \* the operation under way
    scans, count, foreign, faults, \* what the bounds count
    spoilt,  \* paths a scan can no longer answer for (only observed)
    astray   \* paths found missing while the program held their file (only
             \* observed)

vars == <<disk, mount, clock, rows, roots, scan, op, scans, count, foreign,
          faults, spoilt, astray>>
world == <<disk, mount, clock>>
index == <<rows, roots>>
others == <<op, count, foreign>>

Idle == [pc |-> "idle", gen |-> 0, todo |-> {}, root |-> Elsewhere, next |-> 1,
         requests |-> {}, results |-> {}, held |-> Absent, complete |-> TRUE,
         lost |-> FALSE, incomplete |-> FALSE, cancel |-> FALSE]
NoOp == [pc |-> "idle", kind |-> "tags", from |-> <<Elsewhere, 1>>,
         to |-> <<Elsewhere, 1>>, old |-> Absent]
Busy == IF op.pc = "idle" THEN {} ELSE {op.from, op.to}
Row(file, gen) == [rev |-> file.rev, tags |-> file.tags, available |-> TRUE,
                   seen |-> gen, complete |-> TRUE]

Fault == faults < MaxFaults /\ faults' = faults + 1
Smooth == faults' = faults
Registered(r) == r \in Roots /\ roots[r] # Absent

(* What lstat shows of a path. *)
Reachable(p) == IF Root(p) = Elsewhere THEN TRUE ELSE mount[Root(p)] = "on"
Seen(p) == IF Reachable(p) THEN disk[p] ELSE Absent

(* An earlier scan has indexed everything, nothing has been scanned, or the  *)
(* library has no folders yet.                                               *)
Init ==
    /\ \E present \in SUBSET Paths, old, chosen \in BOOLEAN :
         /\ Cardinality(present) <= MaxFiles 
         /\ old => chosen
         /\ chosen \/ Folders
         /\ disk = [p \in Paths |-> IF p \in present
                        THEN [rev |-> Number[p], tags |-> Number[p]] ELSE Absent]
         /\ rows = [p \in Paths |-> IF old /\ p \in present /\ Root(p) \in Roots
                        THEN Row(disk[p], 1) ELSE Absent]
         /\ roots = [r \in Roots |-> IF ~chosen THEN Absent
                                     ELSE IF old THEN [token |-> 1, state |-> "scanned"]
                                     ELSE [token |-> 0, state |-> "new"]]
    /\ mount = [r \in Roots |-> "on"]
    /\ clock = Cardinality(Paths)
    /\ scan = [s \in Scanners |-> Idle]
    /\ op = NoOp
    /\ scans = 1 /\ count = 0 /\ foreign = 0 /\ faults = 0
    /\ spoilt = [s \in Scanners |-> {}]
    /\ astray = {}

(***************************************************************************)
(* The scan.                                                               *)
(***************************************************************************)
Go(s, locals) == scan' = [scan EXCEPT ![s] = locals]
Unspoilt == UNCHANGED <<spoilt, astray>>
Owns(s) == Registered(scan[s].root) /\ roots[scan[s].root].token = scan[s].gen
RowsOf(r) == {p \in Paths : Root(p) = r /\ rows[p] # Absent}
Place(s) == <<scan[s].root, scan[s].next>>

StartScan(s) ==
    /\ scan[s].pc = "idle" /\ scans < MaxScans
    /\ Go(s, [Idle EXCEPT !.pc = "roots", !.gen = scans + 1,
                         !.todo = {r \in Roots : Registered(r)}])
    /\ scans' = scans + 1
    /\ spoilt' = [spoilt EXCEPT ![s] = Busy]
    /\ Smooth /\ UNCHANGED <<world, index, others, astray>>

Stop(s) ==
    /\ Stops /\ scan[s].pc # "idle" /\ ~scan[s].cancel
    /\ Go(s, [scan[s] EXCEPT !.cancel = TRUE])
    /\ Smooth /\ UNCHANGED <<world, index, others, scans>> /\ Unspoilt

(* Another scan of the folder has lost it: it reports on what it has seen.  *)
TakenOver(s, r) ==
    spoilt' = [t \in Scanners |-> IF t = s THEN spoilt[t]
                                  ELSE spoilt[t] \cup {p \in Paths : Root(p) = r}]

(* A folder that cannot be opened: its files are unavailable. *)
FolderOffline(s) ==
    /\ scan[s].pc = "roots" /\ ~scan[s].cancel
    /\ \E r \in scan[s].todo :
         /\ mount[r] = "gone"
         /\ roots' = IF Registered(r)
                     THEN [roots EXCEPT ![r] = [token |-> scan[s].gen, state |-> "offline"]]
                     ELSE roots
         /\ rows' = [p \in Paths |-> IF p \in RowsOf(r)
                        THEN [rows[p] EXCEPT !.available = FALSE] ELSE rows[p]]
         /\ Go(s, [scan[s] EXCEPT !.todo = @ \ {r}])
         /\ TakenOver(s, r)
    /\ Smooth /\ UNCHANGED <<world, others, scans, astray>>

OpenFolder(s) ==
    /\ scan[s].pc = "roots" /\ ~scan[s].cancel
    /\ \E r \in scan[s].todo :
         /\ mount[r] # "gone"
         /\ roots' = IF Registered(r)
                     THEN [roots EXCEPT ![r].token = scan[s].gen] ELSE roots
         /\ Go(s, [scan[s] EXCEPT !.pc = "walk", !.root = r, !.todo = @ \ {r}, !.next = 1,
                                  !.complete = TRUE, !.lost = FALSE])
         /\ TakenOver(s, r)
    /\ Smooth /\ UNCHANGED <<world, rows, others, scans, astray>>

(* The walk goes on behind this place, or is given up.  (c: the local        *)
(* variables of a scan.)                                                     *)
Behind(c) == [c EXCEPT !.pc = "walk", !.held = Absent, !.next = @ + 1]
Partial(c) == [c EXCEPT !.complete = FALSE]
GiveUp(c) == [c EXCEPT !.pc = "drain", !.held = Absent, !.complete = FALSE]

(* An unchanged file is only touched, a changed one is read by a worker. *)
Unchanged(p, file) ==
    rows[p] # Absent /\ rows[p].rev = file.rev /\ rows[p].complete

Visit(s) ==
    /\ scan[s].pc = "walk" /\ scan[s].next <= MaxPlaces
    /\ LET p == Place(s) IN
       \/ scan[s].cancel /\ Go(s, GiveUp(scan[s])) /\ Smooth
       \/ ~scan[s].cancel /\ Seen(p) = Absent /\ Go(s, Behind(scan[s])) /\ Smooth
       \/ ~scan[s].cancel /\ Seen(p) # Absent /\ Smooth
          /\ Go(s, [scan[s] EXCEPT !.pc = IF Unchanged(p, Seen(p)) THEN "touch" ELSE "submit",
                                   !.held = Seen(p)])
       \/ ~scan[s].cancel /\ Seen(p) # Absent /\ Fault
          /\ Go(s, Partial(Behind(scan[s])))
    /\ UNCHANGED <<world, index, others, scans>> /\ Unspoilt

(* The directory cannot be read any further. *)
WalkFails(s) ==
    /\ scan[s].pc = "walk" /\ Fault
    /\ Go(s, GiveUp(scan[s]))
    /\ UNCHANGED <<world, index, others, scans>> /\ Unspoilt

Touch(s) ==
    /\ scan[s].pc = "touch"
    /\ LET p == Place(s) IN
       \/ /\ Seen(p) # scan[s].held
          /\ Go(s, Partial(Behind(scan[s])))
          /\ UNCHANGED rows
       \/ /\ Seen(p) = scan[s].held /\ ~Owns(s)
          /\ Go(s, GiveUp(scan[s]))
          /\ UNCHANGED rows
       \/ /\ Seen(p) = scan[s].held /\ Owns(s)
          /\ Go(s, Behind(scan[s]))
          /\ rows' = IF rows[p] # Absent /\ rows[p].rev = scan[s].held.rev
                     THEN [rows EXCEPT ![p] = [@ EXCEPT !.available = TRUE, !.seen = scan[s].gen]]
                     ELSE rows
    /\ Smooth /\ UNCHANGED <<world, roots, others, scans>> /\ Unspoilt

Asked(s) == [scan[s] EXCEPT !.requests = @ \cup {[path |-> Place(s), before |-> scan[s].held]}]

(* Mutation: waits until both queues have room. *)
SubmitWaits(s) ==
    /\ scan[s].pc = "submit"
    /\ Cardinality(scan[s].requests) < Capacity /\ Cardinality(scan[s].results) < Capacity
    /\ Go(s, Behind(Asked(s)))
    /\ Smooth /\ UNCHANGED <<world, index, others, scans>> /\ Unspoilt

Submit(s) ==
    /\ scan[s].pc = "submit"
    /\ \/ scan[s].cancel /\ Go(s, GiveUp(scan[s]))
       \/ /\ ~scan[s].cancel
          /\ Cardinality(scan[s].requests) < Capacity \/ Cardinality(scan[s].results) < Capacity
          /\ Go(s, Behind(Asked(s)))
    /\ Smooth /\ UNCHANGED <<world, index, others, scans>> /\ Unspoilt

(* A worker reads the tags.  It fails when the file is gone, cannot be read, *)
(* or when the scan is stopped meanwhile.                                   *)
Prepare(s) ==
    /\ \E q \in scan[s].requests, tags \in Versions \cup {Absent} :
         /\ \/ tags # Absent /\ Seen(q.path) # Absent /\ tags = Seen(q.path).tags /\ Smooth
            \/ tags = Absent /\ (Seen(q.path) = Absent \/ scan[s].cancel) /\ Smooth
            \/ tags = Absent /\ Seen(q.path) # Absent /\ ~scan[s].cancel /\ Fault
         /\ Go(s, [scan[s] EXCEPT !.requests = @ \ {q},
                !.results = @ \cup {[path |-> q.path, before |-> q.before, tags |-> tags]}])
    /\ UNCHANGED <<world, index, others, scans>> /\ Unspoilt

(* Under the write lock: the file is the one whose tags have been read.     *)
(* Mutation: that there is a file at all will do. *)
CurrentEnough(f) == Seen(f.path) # Absent
Current(f) == Seen(f.path) = f.before

(* One answer of the pool is committed, in the walk or after it. *)
CommitPrepared(s) ==
    /\ scan[s].pc \in {"walk", "drain"}
    /\ \E f \in scan[s].results :
         LET Taken == [scan[s] EXCEPT !.results = @ \ {f}] IN
         \/ /\ scan[s].lost
            /\ Go(s, Taken) /\ UNCHANGED rows
         \/ /\ ~scan[s].lost /\ f.tags = Absent
            /\ Go(s, Partial(Taken))
            /\ rows' = IF rows[f.path] = Absent THEN rows
                       ELSE [rows EXCEPT ![f.path].complete = FALSE]
         \/ /\ ~scan[s].lost /\ f.tags # Absent /\ ~Current(f)
            /\ Go(s, Partial(Taken))
            /\ UNCHANGED rows
         \/ /\ ~scan[s].lost /\ f.tags # Absent /\ Current(f) /\ ~Owns(s)
            /\ Go(s, GiveUp([Taken EXCEPT !.lost = TRUE]))
            /\ UNCHANGED rows
         \/ /\ ~scan[s].lost /\ f.tags # Absent /\ Current(f) /\ Owns(s)
            /\ Go(s, Taken)
            /\ rows' = [rows EXCEPT ![f.path] =
                           Row([rev |-> f.before.rev, tags |-> f.tags], scan[s].gen)]
    /\ Smooth /\ UNCHANGED <<world, roots, others, scans>> /\ Unspoilt

EndWalk(s) ==
    /\ scan[s].pc = "walk" /\ scan[s].next > MaxPlaces
    /\ Go(s, [scan[s] EXCEPT !.pc = "drain"])
    /\ Smooth /\ UNCHANGED <<world, index, others, scans>> /\ Unspoilt

(* The pool is empty, or abandoned: what has not been seen is missing, if   *)
(* everything has been seen.                                                *)
EndFolder(s) ==
    /\ scan[s].pc = "drain" /\ scan[s].results = {}
    /\ scan[s].requests = {} \/ scan[s].cancel
    /\ LET complete == scan[s].complete /\ ~scan[s].cancel IN
       /\ roots' = IF ~Owns(s) THEN roots
                   ELSE [roots EXCEPT ![scan[s].root].state =
                            IF complete THEN "scanned" ELSE "partial"]
       /\ rows' = [p \in Paths |->
                     IF complete /\ Owns(s) /\ p \in RowsOf(scan[s].root)
                        /\ rows[p].seen # scan[s].gen
                     THEN [rows[p] EXCEPT !.available = FALSE] ELSE rows[p]]
       /\ Go(s, [scan[s] EXCEPT !.pc = IF complete THEN "prune" ELSE "roots", !.next = 1,
                                !.requests = {}, !.incomplete = @ \/ ~complete])
    /\ Smooth /\ UNCHANGED <<world, others, scans>> /\ Unspoilt

(* Its path is free, and a directory above it is still on the volume the    *)
(* file was last seen on.                                                   *)
(* Mutation: does not look at the volume. *)
ConfirmedAbsent(p) == rows[p].rev # 0 /\ Seen(p) = Absent
ConfirmedMissing(p) ==
    rows[p].rev # 0 /\ mount[Root(p)] = "on" /\ Seen(p) = Absent

(* The next candidate.  (Pages hold one candidate here, 200 in the code.) *)
LookForMissing(s) ==
    /\ scan[s].pc = "prune"
    /\ LET later == {p \in RowsOf(scan[s].root) :
                        p[2] >= scan[s].next /\ rows[p].seen # scan[s].gen} IN
       \/ (scan[s].cancel \/ later = {}) /\ Go(s, [scan[s] EXCEPT !.pc = "roots"])
          /\ UNCHANGED astray
       \/ /\ ~scan[s].cancel
          /\ \E p \in later :
               /\ \A q \in later : p[2] <= q[2]
               /\ IF ConfirmedMissing(p)
                  THEN Go(s, [scan[s] EXCEPT !.pc = "forget", !.next = p[2], !.held = rows[p]])
                  ELSE Go(s, [scan[s] EXCEPT !.next = p[2] + 1])
               /\ astray' = astray \cup ({p} \cap Busy)
    /\ Smooth /\ UNCHANGED <<world, index, others, scans, spoilt>>

Forgettable(s, p) ==
    /\ rows[p] # Absent /\ rows[p].rev = scan[s].held.rev
    /\ rows[p].seen # scan[s].gen /\ Owns(s)

Forget(s) ==
    /\ scan[s].pc = "forget"
    /\ LET p == Place(s) IN
       \/ scan[s].cancel /\ Go(s, [scan[s] EXCEPT !.pc = "roots", !.held = Absent])
          /\ UNCHANGED rows
       \/ /\ ~scan[s].cancel /\ Go(s, [Behind(scan[s]) EXCEPT !.pc = "prune"])
          /\ rows' = IF Forgettable(s, p) THEN [rows EXCEPT ![p] = Absent] ELSE rows
    /\ Smooth /\ UNCHANGED <<world, roots, others, scans>> /\ Unspoilt

(* What the panel reports. *)
Finished(s) == scan[s].pc = "roots" /\ (scan[s].todo = {} \/ scan[s].cancel)
UpToDate(s) == Finished(s) /\ ~scan[s].cancel /\ ~scan[s].incomplete

Finish(s) ==
    /\ Finished(s)
    /\ Go(s, Idle)
    /\ Smooth /\ UNCHANGED <<world, index, others, scans>> /\ Unspoilt

(* The database refuses a statement, or the program dies. *)
Abort(s) ==
    /\ scan[s].pc # "idle" /\ Fault
    /\ Go(s, Idle)
    /\ UNCHANGED <<world, index, others, scans>> /\ Unspoilt

Walk(s) ==
    \/ FolderOffline(s) \/ OpenFolder(s) \/ Visit(s) \/ Touch(s) \/ Submit(s)
    \/ CommitPrepared(s) \/ EndWalk(s) \/ EndFolder(s)
    \/ LookForMissing(s) \/ Forget(s) \/ Finish(s)
Scan(s) == StartScan(s) \/ Stop(s) \/ Walk(s) \/ WalkFails(s) \/ Prepare(s) \/ Abort(s)

(***************************************************************************)
(* What the program does to files, and what the list database makes of it. *)
(***************************************************************************)
Spoil(paths) == spoilt' = [s \in Scanners |-> spoilt[s] \cup paths]

(* The row of a tagged or moved file follows it, with no revision: only a   *)
(* scan knows one.  A file that has no row gets none.                       *)
(* Mutation: the row takes the revision of the moved file. *)
FollowedKnown(from, to, file, retagged) ==
    IF rows[from] = Absent THEN rows
    ELSE IF ~Registered(Root(to)) THEN [rows EXCEPT ![from] = Absent]
    ELSE [rows EXCEPT ![from] = Absent, ![to] = [rows[from] EXCEPT
             !.rev = file.rev, !.tags = IF retagged THEN file.tags ELSE @]]
Followed(from, to, file, retagged) ==
    IF rows[from] = Absent THEN rows
    ELSE IF ~Registered(Root(to)) THEN [rows EXCEPT ![from] = Absent]
    ELSE LET moved == [rows[from] EXCEPT
                          !.rev = 0, !.available = TRUE, !.seen = roots[Root(to)].token,
                          !.tags = IF retagged THEN file.tags ELSE @,
                          !.complete = retagged \/ @]
         IN [rows EXCEPT ![from] = Absent, ![to] = moved]

(* The file is rewritten, renamed or copied before the database hears of it. *)
Publish ==
    /\ op.pc = "idle" /\ count < MaxOps
    /\ \E kind \in Kinds, p, q \in Paths :
         /\ Reachable(p) /\ disk[p] # Absent
         /\ IF kind = "tags" THEN p = q ELSE Reachable(q) /\ disk[q] = Absent
         /\ clock' = IF kind = "move" THEN clock ELSE clock + 1
         /\ disk' = CASE kind = "tags" -> [disk EXCEPT ![p] = [rev |-> clock', tags |-> clock']]
                      [] kind = "move" -> [disk EXCEPT ![p] = Absent, ![q] = disk[p]]
                      [] kind = "copy" -> [disk EXCEPT ![q] = [disk[p] EXCEPT !.rev = clock']]
         /\ op' = [pc |-> "published", kind |-> kind, from |-> p, to |-> q, old |-> disk[p]]
    /\ count' = count + 1
    /\ Smooth /\ UNCHANGED <<mount, index, scan, scans, foreign>> /\ Unspoilt

(* The transaction that updates the lists takes the index along.  A row that *)
(* is missing or out of date before a move is so behind it.                  *)
CommitDependents ==
    /\ op.pc = "published"
    /\ rows' = Followed(op.from, op.to, disk[op.to], op.kind = "tags")
    /\ op' = IF op.kind = "copy" THEN [op EXCEPT !.pc = "source"] ELSE NoOp
    /\ Spoil(IF op.kind # "tags" /\ (rows[op.from] = Absent \/ rows[op.from].tags # op.old.tags)
             THEN {op.to} ELSE {})
    /\ Smooth /\ UNCHANGED <<world, roots, scan, scans, count, foreign, astray>>

RollBack ==
    /\ op.pc = "published" /\ op.kind \in RollBacks /\ Fault
    /\ disk' = [[disk EXCEPT ![op.to] = Absent] EXCEPT ![op.from] = op.old]
    /\ op' = NoOp
    /\ Spoil({op.from, op.to})
    /\ UNCHANGED <<mount, clock, index, scan, scans, count, foreign, astray>>

(* The source of a copy goes last: a scan may have met it again. *)
RemoveSource ==
    /\ op.pc = "source"
    /\ disk' = [disk EXCEPT ![op.from] = Absent]
    /\ op' = NoOp
    /\ Spoil(IF rows[op.from] = Absent THEN {} ELSE {op.from})
    /\ Smooth /\ UNCHANGED <<mount, clock, index, scan, scans, count, foreign, astray>>

Program == Publish \/ CommitDependents \/ RollBack \/ RemoveSource

(***************************************************************************)
(* The user's folders, and what others do to files and volumes.  Nobody     *)
(* touches a file, its folder or its volume while the program works on it.  *)
(***************************************************************************)
Foreign == foreign < MaxForeign /\ foreign' = foreign + 1

Rewrite(p) ==
    /\ Foreign /\ Root(p) \in Roots /\ Reachable(p) /\ p \notin Busy
    /\ clock' = clock + 1
    /\ disk' = [disk EXCEPT ![p] = [rev |-> clock', tags |-> clock']]
    /\ Spoil({p})
    /\ Smooth /\ UNCHANGED <<mount, index, scan, op, scans, count, astray>>

Delete(p) ==
    /\ Foreign /\ Root(p) \in Roots /\ Reachable(p) /\ disk[p] # Absent /\ p \notin Busy
    /\ disk' = [disk EXCEPT ![p] = Absent]
    /\ Spoil({p})
    /\ Smooth /\ UNCHANGED <<mount, clock, index, scan, op, scans, count, astray>>

Remount(r, m) ==
    /\ Foreign /\ m # mount[r] /\ \A p \in Busy : Root(p) # r
    /\ mount' = [mount EXCEPT ![r] = m]
    /\ Spoil({p \in Paths : Root(p) = r})
    /\ Smooth /\ UNCHANGED <<disk, clock, index, scan, op, scans, count, astray>>

AddFolder(r) ==
    /\ Folders /\ Foreign /\ ~Registered(r) /\ mount[r] = "on"
    /\ roots' = [roots EXCEPT ![r] = [token |-> 0, state |-> "new"]]
    /\ Spoil({p \in Paths : Root(p) = r})
    /\ Smooth /\ UNCHANGED <<world, rows, scan, op, scans, count, astray>>

RemoveFolder(r) ==
    /\ Folders /\ Foreign /\ Registered(r)
    /\ roots' = [roots EXCEPT ![r] = Absent]
    /\ rows' = [p \in Paths |-> IF Root(p) = r THEN Absent ELSE rows[p]]
    /\ Spoil({p \in Paths : Root(p) = r})
    /\ Smooth /\ UNCHANGED <<world, scan, op, scans, count, astray>>

World ==
    \/ \E p \in Paths : Rewrite(p) \/ Delete(p)
    \/ \E r \in Roots : AddFolder(r) \/ RemoveFolder(r) \/ \E m \in Mounts : Remount(r, m)

Next == (\E s \in Scanners : Scan(s)) \/ Program \/ World
Spec == Init /\ [][Next]_vars

(* The scan thread and its workers run whenever they can; operations end.   *)
FairSpec ==
    /\ Spec
    /\ \A s \in Scanners : WF_vars(Walk(s)) /\ WF_vars(Prepare(s))

(***************************************************************************)
(* Properties.                                                             *)
(***************************************************************************)
Request == [path : Paths, before : Contents]
Answer == [path : Paths, before : Contents, tags : Versions \cup {Absent}]
ScanType ==
    [pc : {"idle", "roots", "walk", "touch", "submit", "drain", "prune", "forget"},
     gen : Generations \cup {0}, todo : SUBSET Roots, root : Roots \cup {Elsewhere},
     next : 1 .. MaxPlaces + 1, requests : SUBSET Request, results : SUBSET Answer,
     held : Contents \cup RowType \cup {Absent}, complete : BOOLEAN, lost : BOOLEAN,
     incomplete : BOOLEAN, cancel : BOOLEAN]
TypeOK ==
    /\ disk \in [Paths -> Contents \cup {Absent}]
    /\ mount \in [Roots -> {"on", "gone", "empty"}]
    /\ clock \in Versions
    /\ rows \in [Paths -> RowType \cup {Absent}]
    /\ roots \in [Roots -> RootType \cup {Absent}]
    /\ \A p \in Paths : rows[p] # Absent => Registered(Root(p))
    /\ scan \in [Scanners -> ScanType]
    /\ op \in [pc : {"idle", "published", "source"}, kind : {"tags", "move", "copy"},
               from : Paths, to : Paths, old : Contents \cup {Absent}]
    /\ {scans, count, foreign, faults} \subseteq Nat
    /\ spoilt \in [Scanners -> SUBSET Paths] /\ astray \subseteq Paths

(* A scan that reports "Library up to date" has left an index that shows     *)
(* exactly the files there are, with the tags they have, whatever the        *)
(* program saved or moved while it ran.                                      *)
UpToDateIsTrue ==
    \A s \in Scanners : UpToDate(s) =>
        \A p \in Paths : Registered(Root(p)) /\ p \notin spoilt[s] \cup Busy =>
            /\ Seen(p) # Absent <=> rows[p] # Absent /\ rows[p].available
            /\ Seen(p) # Absent => rows[p].tags = Seen(p).tags

(* A file that a scan would pass over as unchanged is shown with its tags:   *)
(* an answer that came too late would stay for ever.                         *)
UnchangedIsRight ==
    \A p \in Paths : disk[p] # Absent /\ Unchanged(p, disk[p]) => rows[p].tags = disk[p].tags

(* A scan never forgets a file that is still on its volume, be that volume   *)
(* mounted or not.  (Unless it looked for it while the program held it.)     *)
ForgetsOnlyTheDeleted ==
    [][\A p \in Paths :
         /\ rows[p] # Absent /\ disk[p] # Absent /\ rows[p].rev \in {0, disk[p].rev}
         /\ Registered(Root(p)) /\ roots'[Root(p)] # Absent /\ rows'[p] = Absent
         => CommitDependents \/ p \in astray]_vars

(* Every scan comes to an end. *)
ScansEnd == \A s \in Scanners : scan[s].pc # "idle" ~> scan[s].pc = "idle"
=============================================================================
