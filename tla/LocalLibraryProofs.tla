-------------------------- MODULE LocalLibraryProofs --------------------------
(***************************************************************************)
(* Theorems about the scan of the library, for any number of folders,       *)
(* files, scans, operations, changes by others and errors.                  *)
(*                                                                         *)
(* What a scan reports rests on two things.  The revision of a file names   *)
(* its tags: whatever has been seen of a file anywhere with one revision    *)
(* carries the same tags (OneVersion).  And a path the scan has passed is   *)
(* right in the index, is still among the requests and answers, or the scan *)
(* already knows that it is incomplete (WalkRight, DoneRight).               *)
(***************************************************************************)
EXTENDS LocalLibrary, FiniteSetTheorems, FunctionTheorems, TLAPS

(***************************************************************************)
(* Paths, revisions and the absent.                                         *)
(***************************************************************************)
LEMMA AbsentFacts ==
  /\ Absent \notin Versions /\ Absent \notin Contents
  /\ Absent \notin RowType /\ Absent \notin RootType
  BY LibraryAssumption

LEMMA BoundFacts ==
  /\ MaxPlaces \in Nat /\ MaxFiles \in Nat /\ MaxOps \in Nat /\ MaxForeign \in Nat
  /\ MaxFaults \in Nat /\ MaxScans \in Nat /\ MaxScans # 0 /\ Capacity \in Nat
  BY LibraryAssumption

LEMMA PathsFinite == IsFiniteSet(Paths) /\ Cardinality(Paths) \in Nat /\ Cardinality(Paths) # 0
  <1>1. IsFiniteSet(1 .. MaxPlaces)
    BY FS_Interval, BoundFacts
  <1>2. IsFiniteSet(Roots \X (1 .. MaxPlaces))
    BY <1>1, FS_Product, LibraryAssumption
  <1>3. IsFiniteSet({<<Elsewhere, 1>>})
    BY FS_Singleton
  <1>4. IsFiniteSet(Paths)
    BY <1>2, <1>3, FS_Union DEF Paths
  <1>5. Paths # {}
    BY DEF Paths
  <1> QED BY <1>4, <1>5, FS_CardinalityType, FS_EmptySet

LEMMA PathFacts ==
  /\ \A r \in Roots, i \in 1 .. MaxPlaces : <<r, i>> \in Paths /\ Root(<<r, i>>) = r
  /\ \A p \in Paths : /\ Root(p) \in Roots \cup {Elsewhere}
                      /\ p[2] \in Nat
                      /\ Root(p) \in Roots =>
                           p[2] \in 1 .. MaxPlaces /\ p = <<Root(p), p[2]>>
  /\ Elsewhere \notin Roots
  BY LibraryAssumption DEF Paths, Root

LEMMA VersionFacts ==
  /\ Versions \subseteq Nat \ {0}
  /\ \A n \in Nat \ {0} : n <= Cardinality(Paths) + MaxOps + MaxForeign => n \in Versions
  BY PathsFinite, BoundFacts DEF Versions

\* Init numbers the paths, one number each.
LEMMA NumberFacts ==
  /\ Number \in [Paths -> 1 .. Cardinality(Paths)]
  /\ \A p, q \in Paths : p # q => Number[p] # Number[q]
  <1>1. ExistsBijection(1 .. Cardinality(Paths), Paths)
    BY PathsFinite, FS_CardinalityType
  <1>2. ExistsBijection(Paths, 1 .. Cardinality(Paths))
    BY <1>1, Fun_ExistsBijSymmetric
  <1>3. PICK n \in Bijection(Paths, 1 .. Cardinality(Paths)) : TRUE
    BY <1>2 DEF ExistsBijection
  <1>4. /\ n \in [Paths -> 1 .. Cardinality(Paths)]
        /\ \A p, q \in Paths : p # q => n[p] # n[q]
    BY <1>3 DEF Bijection, Injection, IsInjective
  <1>5. \E m \in [Paths -> 1 .. Cardinality(Paths)] : \A p, q \in Paths : p # q => m[p] # m[q]
    BY <1>4
  <1> QED BY <1>5 DEF Number

(***************************************************************************)
(* Types.  TypeOK is not inductive: a scan that is at a file must be at a    *)
(* place of its folder and know what it has seen there, the program that     *)
(* works on a file must have it, and no version is given out twice.          *)
(***************************************************************************)
Placed(c) ==
  /\ c.pc \in {"touch", "submit"} => c.held \in Contents
  /\ c.pc = "forget" => c.held \in RowType /\ c.held.rev # 0
  /\ c.pc \in {"touch", "submit", "forget"} => c.next <= MaxPlaces
  /\ c.pc \notin {"idle", "roots"} => c.root \in Roots /\ c.root \notin c.todo
  /\ c.pc # "idle" => c.gen \in Generations
  /\ \A q \in c.requests \cup c.results : Root(q.path) = c.root
  /\ c.pc \notin {"walk", "touch", "submit", "drain"} => c.requests = {} /\ c.results = {}
  /\ c.lost => ~c.complete
ScansOK == scan \in [Scanners -> ScanType] /\ \A s \in Scanners : Placed(scan[s])

DiskOK ==
  /\ disk \in [Paths -> Contents \cup {Absent}]
  /\ mount \in [Roots -> {"on", "gone", "empty"}]
  /\ clock \in Versions
  /\ clock <= Cardinality(Paths) + count + foreign
IndexOK ==
  /\ rows \in [Paths -> RowType \cup {Absent}]
  /\ roots \in [Roots -> RootType \cup {Absent}]
  /\ \A p \in Paths : rows[p] # Absent => Registered(Root(p))
OpOK ==
  /\ op \in [pc : {"idle", "published", "source"}, kind : {"tags", "move", "copy"},
             from : Paths, to : Paths, old : Contents \cup {Absent}]
  /\ op.pc # "idle" => op.old \in Contents /\ disk[op.to] \in Contents
CountsOK ==
  /\ {scans, count, foreign, faults} \subseteq Nat
  /\ scans <= MaxScans /\ count <= MaxOps /\ foreign <= MaxForeign
  /\ spoilt \in [Scanners -> SUBSET Paths] /\ astray \subseteq Paths
TypeInv == ScansOK /\ DiskOK /\ IndexOK /\ OpOK /\ CountsOK

LEMMA TypesHold == TypeInv => TypeOK
  BY DEF TypeInv, ScansOK, DiskOK, IndexOK, OpOK, CountsOK, TypeOK

LEMMA GoFacts ==
  ASSUME NEW s \in Scanners, NEW c, scan \in [Scanners -> ScanType], Go(s, c)
  PROVE  /\ scan'[s] = c
         /\ \A t \in Scanners : t # s => scan'[t] = scan[t]
         /\ c \in ScanType => scan' \in [Scanners -> ScanType]
  BY DEF Go

LEMMA ScansStep ==
  ASSUME NEW s \in Scanners, NEW c, ScansOK, Go(s, c), c \in ScanType, Placed(c)
  PROVE  ScansOK'
  <1>1. /\ scan' \in [Scanners -> ScanType] /\ scan'[s] = c
        /\ \A t \in Scanners : t # s => scan'[t] = scan[t]
    BY GoFacts DEF ScansOK
  <1>2. ASSUME NEW t \in Scanners
        PROVE  Placed(scan'[t])
    BY <1>1 DEF ScansOK
  <1> QED BY <1>1, <1>2 DEF ScansOK

LEMMA IdleFacts ==
  /\ Idle \in ScanType /\ Idle.pc = "idle"
  /\ Idle.requests = {} /\ Idle.results = {}
  /\ Placed(Idle)
  BY BoundFacts DEF Idle, ScanType, Placed

LEMMA BehindFacts ==
  ASSUME NEW c \in ScanType
  PROVE  /\ Behind(c).pc = "walk" /\ Behind(c).held = Absent /\ Behind(c).next = c.next + 1
         /\ Behind(c).gen = c.gen /\ Behind(c).todo = c.todo /\ Behind(c).root = c.root
         /\ Behind(c).requests = c.requests /\ Behind(c).results = c.results
         /\ Behind(c).complete = c.complete /\ Behind(c).lost = c.lost
         /\ Behind(c).incomplete = c.incomplete /\ Behind(c).cancel = c.cancel
         /\ c.next <= MaxPlaces => Behind(c) \in ScanType
  <1> DEFINE n == c.next + 1
  <1>1. c.next \in 1 .. MaxPlaces + 1
    BY DEF ScanType
  <1>2. c.next <= MaxPlaces => n \in 1 .. MaxPlaces + 1
    BY <1>1, BoundFacts
  <1> HIDE DEF n
  <1>3. Behind(c) = [c EXCEPT !.pc = "walk", !.held = Absent, !.next = n]
    BY DEF Behind, n
  <1>4. c.next <= MaxPlaces => Behind(c) \in ScanType
    BY ZenonT(60), <1>2, <1>3 DEF ScanType
  <1>5. Behind(c).next = n
    BY <1>3 DEF ScanType
  <1>6. /\ Behind(c).pc = "walk" /\ Behind(c).held = Absent
        /\ Behind(c).gen = c.gen /\ Behind(c).todo = c.todo /\ Behind(c).root = c.root
        /\ Behind(c).requests = c.requests /\ Behind(c).results = c.results
        /\ Behind(c).complete = c.complete /\ Behind(c).lost = c.lost
        /\ Behind(c).incomplete = c.incomplete /\ Behind(c).cancel = c.cancel
    BY <1>3 DEF ScanType
  <1> QED BY <1>4, <1>5, <1>6 DEF n

LEMMA GiveUpFacts ==
  ASSUME NEW c \in ScanType
  PROVE  /\ GiveUp(c).pc = "drain" /\ GiveUp(c).held = Absent /\ GiveUp(c).next = c.next
         /\ GiveUp(c).gen = c.gen /\ GiveUp(c).todo = c.todo /\ GiveUp(c).root = c.root
         /\ GiveUp(c).requests = c.requests /\ GiveUp(c).results = c.results
         /\ GiveUp(c).complete = FALSE /\ GiveUp(c).lost = c.lost
         /\ GiveUp(c).incomplete = c.incomplete /\ GiveUp(c).cancel = c.cancel
         /\ GiveUp(c) \in ScanType
  BY DEF GiveUp, ScanType

LEMMA PartialFacts ==
  ASSUME NEW c \in ScanType
  PROVE  /\ Partial(c).pc = c.pc /\ Partial(c).held = c.held /\ Partial(c).next = c.next
         /\ Partial(c).gen = c.gen /\ Partial(c).todo = c.todo /\ Partial(c).root = c.root
         /\ Partial(c).requests = c.requests /\ Partial(c).results = c.results
         /\ Partial(c).complete = FALSE /\ Partial(c).lost = c.lost
         /\ Partial(c).incomplete = c.incomplete /\ Partial(c).cancel = c.cancel
         /\ Partial(c) \in ScanType
  BY DEF Partial, ScanType

LEMMA ScanTypes ==
  ASSUME NEW c \in ScanType
  PROVE  /\ c.gen \in Nat /\ c.todo \subseteq Roots /\ c.next \in Nat
         /\ c.next <= MaxPlaces + 1 /\ c.next >= 1
         /\ c.requests \subseteq Request /\ c.results \subseteq Answer
         /\ c.complete \in BOOLEAN /\ c.lost \in BOOLEAN
         /\ c.incomplete \in BOOLEAN /\ c.cancel \in BOOLEAN
  BY BoundFacts DEF ScanType, Generations

LEMMA FaultsCount ==
  ASSUME CountsOK, Fault \/ Smooth
  PROVE  faults' \in Nat
  BY BoundFacts DEF CountsOK, Fault, Smooth

\* A step of a scan that looks and remembers.
LEMMA QuietTypes ==
  ASSUME NEW s \in Scanners, NEW c, TypeInv, Go(s, c), c \in ScanType, Placed(c),
         UNCHANGED <<world, index, others>>, Fault \/ Smooth,
         scans' \in Nat, scans' <= MaxScans,
         spoilt' \in [Scanners -> SUBSET Paths], astray' \subseteq Paths
  PROVE  TypeInv'
  <1>1. ScansOK'
    BY ScansStep DEF TypeInv
  <1>2. faults' \in Nat
    BY FaultsCount DEF TypeInv
  <1>3. CountsOK'
    BY <1>2 DEF TypeInv, CountsOK, others
  <1>4. DiskOK' /\ IndexOK' /\ OpOK'
    BY DEF TypeInv, DiskOK, IndexOK, OpOK, world, index, others, Registered
  <1> QED BY <1>1, <1>3, <1>4 DEF TypeInv

\* A step of a scan that writes rows, of paths that have rows or a folder.
LEMMA WritingTypes ==
  ASSUME NEW s \in Scanners, NEW c, TypeInv, Go(s, c), c \in ScanType, Placed(c),
         UNCHANGED <<world, others, scans>>, Fault \/ Smooth,
         rows' \in [Paths -> RowType \cup {Absent}], roots' \in [Roots -> RootType \cup {Absent}],
         \A p \in Paths : rows'[p] # Absent => rows[p] # Absent \/ Registered(Root(p)),
         \A r \in Roots : roots[r] # Absent => roots'[r] # Absent,
         spoilt' \in [Scanners -> SUBSET Paths], astray' \subseteq Paths
  PROVE  TypeInv'
  <1>1. ScansOK'
    BY ScansStep DEF TypeInv
  <1>2. faults' \in Nat
    BY FaultsCount DEF TypeInv
  <1>3. CountsOK'
    BY <1>2 DEF TypeInv, CountsOK, others
  <1>4. DiskOK' /\ OpOK'
    BY DEF TypeInv, DiskOK, OpOK, world, others
  <1>5. IndexOK'
    BY DEF TypeInv, IndexOK, Registered
  <1> QED BY <1>1, <1>3, <1>4, <1>5 DEF TypeInv

\* Neither the disk nor the index is touched by what a scan only observes.
LEMMA ObservedTypes ==
  ASSUME TypeInv, Unspoilt
  PROVE  spoilt' \in [Scanners -> SUBSET Paths] /\ astray' \subseteq Paths
  BY DEF TypeInv, CountsOK, Unspoilt

LEMMA SeenFacts ==
  ASSUME TypeInv, NEW p \in Paths
  PROVE  /\ Seen(p) \in Contents \cup {Absent}
         /\ Seen(p) # Absent => Seen(p) = disk[p] /\ Seen(p) \in Contents
         /\ Seen(p) = IF Reachable(p) THEN disk[p] ELSE Absent
  BY DEF TypeInv, DiskOK, Seen

LEMMA LocalFacts ==
  ASSUME TypeInv, NEW s \in Scanners
  PROVE  scan[s] \in ScanType /\ Placed(scan[s])
  BY DEF TypeInv, ScansOK

LEMMA PlaceFacts ==
  ASSUME TypeInv, NEW s \in Scanners, scan[s].root \in Roots, scan[s].next <= MaxPlaces
  PROVE  /\ Place(s) \in Paths /\ Root(Place(s)) = scan[s].root
         /\ Place(s)[2] = scan[s].next
  <1>1. scan[s].next \in 1 .. MaxPlaces
    BY LocalFacts, ScanTypes, BoundFacts
  <1> QED BY <1>1, PathFacts DEF Place

LEMMA BehindPlaced ==
  ASSUME NEW c \in ScanType, Placed(c), c.next <= MaxPlaces, c.pc \in {"walk", "touch", "submit"}
  PROVE  Behind(c) \in ScanType /\ Placed(Behind(c))
  <1> DEFINE b == Behind(c)
  <1>1. /\ b \in ScanType /\ b.pc = "walk" /\ b.root = c.root /\ b.todo = c.todo
        /\ b.gen = c.gen /\ b.requests = c.requests /\ b.results = c.results
        /\ b.lost = c.lost /\ b.complete = c.complete
    BY BehindFacts
  <1> HIDE DEF b
  <1>2. Placed(b)
    BY <1>1 DEF Placed
  <1> QED BY <1>1, <1>2 DEF b

LEMMA GiveUpPlaced ==
  ASSUME NEW c \in ScanType, Placed(c), c.pc \in {"walk", "touch", "submit", "drain"}
  PROVE  GiveUp(c) \in ScanType /\ Placed(GiveUp(c))
  <1> DEFINE b == GiveUp(c)
  <1>1. /\ b \in ScanType /\ b.pc = "drain" /\ b.root = c.root /\ b.todo = c.todo
        /\ b.gen = c.gen /\ b.requests = c.requests /\ b.results = c.results
        /\ b.complete = FALSE
    BY GiveUpFacts
  <1> HIDE DEF b
  <1>2. Placed(b)
    BY <1>1 DEF Placed
  <1> QED BY <1>1, <1>2 DEF b

LEMMA PartialPlaced ==
  ASSUME NEW c \in ScanType, Placed(c)
  PROVE  Partial(c) \in ScanType /\ Placed(Partial(c))
  <1> DEFINE b == Partial(c)
  <1>1. /\ b \in ScanType /\ b.pc = c.pc /\ b.root = c.root /\ b.todo = c.todo
        /\ b.gen = c.gen /\ b.requests = c.requests /\ b.results = c.results
        /\ b.complete = FALSE /\ b.held = c.held /\ b.next = c.next
    BY PartialFacts
  <1> HIDE DEF b
  <1>2. Placed(b)
    BY <1>1 DEF Placed
  <1> QED BY <1>1, <1>2 DEF b

(***************************************************************************)
(* What the actions of a scan do to its local variables: each leads to a     *)
(* record of the right type.                                                *)
(***************************************************************************)
LEMMA StartTypes ==
  ASSUME TypeInv, NEW s \in Scanners, StartScan(s)
  PROVE  TypeInv'
  <1> DEFINE c == [Idle EXCEPT !.pc = "roots", !.gen = scans + 1,
                               !.todo = {r \in Roots : Registered(r)}]
  <1>1. scans + 1 \in Generations
    BY BoundFacts DEF TypeInv, CountsOK, StartScan, Generations
  <1>2. c \in ScanType /\ Placed(c)
    BY <1>1, IdleFacts DEF Idle, ScanType, Placed
  <1>3. Go(s, c)
    BY DEF StartScan
  <1> HIDE DEF c
  <1>4. Busy \subseteq Paths
    BY DEF TypeInv, OpOK, Busy
  <1>5. spoilt' \in [Scanners -> SUBSET Paths] /\ astray' \subseteq Paths
    BY <1>4 DEF TypeInv, CountsOK, StartScan
  <1>6. scans' \in Nat /\ scans' <= MaxScans
    BY BoundFacts DEF TypeInv, CountsOK, StartScan
  <1> QED BY <1>2, <1>3, <1>5, <1>6, QuietTypes DEF StartScan

LEMMA ScansStay ==
  ASSUME TypeInv, scans' = scans
  PROVE  scans' \in Nat /\ scans' <= MaxScans
  BY DEF TypeInv, CountsOK

LEMMA StopTypes ==
  ASSUME TypeInv, NEW s \in Scanners, Stop(s)
  PROVE  TypeInv'
  <1>1. [scan[s] EXCEPT !.cancel = TRUE] \in ScanType /\ Placed([scan[s] EXCEPT !.cancel = TRUE])
    BY ZenonT(60), LocalFacts DEF ScanType, Placed
  <1> QED BY <1>1, QuietTypes, ObservedTypes, ScansStay DEF Stop

LEMMA TakenTypes ==
  ASSUME TypeInv, NEW s \in Scanners, NEW r, TakenOver(s, r)
  PROVE  spoilt' \in [Scanners -> SUBSET Paths]
  BY DEF TypeInv, CountsOK, TakenOver

LEMMA RootTypes ==
  ASSUME NEW x \in RootType, NEW g \in Generations
  PROVE  [x EXCEPT !.token = g] \in RootType
  BY DEF RootType

LEMMA RowTypes ==
  ASSUME NEW x \in RowType
  PROVE  /\ [x EXCEPT !.available = FALSE] \in RowType
         /\ [x EXCEPT !.complete = FALSE] \in RowType
         /\ \A g \in Generations : [x EXCEPT !.available = TRUE, !.seen = g] \in RowType
  BY DEF RowType

LEMMA NewRowTypes ==
  ASSUME NEW file \in Contents, NEW g \in Generations
  PROVE  Row(file, g) \in RowType
  BY DEF RowType, Row, Contents

LEMMA OfflineTypes ==
  ASSUME TypeInv, NEW s \in Scanners, FolderOffline(s)
  PROVE  TypeInv'
  <1> PICK r \in scan[s].todo :
         /\ mount[r] = "gone"
         /\ roots' = IF Registered(r)
                     THEN [roots EXCEPT ![r] = [token |-> scan[s].gen, state |-> "offline"]]
                     ELSE roots
         /\ rows' = [p \in Paths |-> IF p \in RowsOf(r)
                        THEN [rows[p] EXCEPT !.available = FALSE] ELSE rows[p]]
         /\ Go(s, [scan[s] EXCEPT !.todo = @ \ {r}])
         /\ TakenOver(s, r)
    BY DEF FolderOffline
  <1>1. r \in Roots
    BY LocalFacts, ScanTypes
  <1>2. [scan[s] EXCEPT !.todo = @ \ {r}] \in ScanType /\ Placed([scan[s] EXCEPT !.todo = @ \ {r}])
    BY LocalFacts DEF ScanType, Placed
  <1>3. rows' \in [Paths -> RowType \cup {Absent}]
    BY RowTypes DEF TypeInv, IndexOK, RowsOf
  <1>4. \A p \in Paths : rows'[p] # Absent => rows[p] # Absent
    BY DEF RowsOf
  <1>5. [token |-> scan[s].gen, state |-> "offline"] \in RootType
    BY LocalFacts DEF RootType, FolderOffline, Placed
  <1>6. roots' \in [Roots -> RootType \cup {Absent}]
    BY <1>1, <1>5 DEF TypeInv, IndexOK
  <1>7. \A q \in Roots : roots[q] # Absent => roots'[q] # Absent
    BY <1>1, <1>5, AbsentFacts DEF TypeInv, IndexOK
  <1>8. spoilt' \in [Scanners -> SUBSET Paths] /\ astray' \subseteq Paths
    BY TakenTypes DEF FolderOffline, TypeInv, CountsOK
  <1> QED BY <1>2, <1>3, <1>4, <1>6, <1>7, <1>8, WritingTypes DEF FolderOffline

LEMMA OpenTypes ==
  ASSUME TypeInv, NEW s \in Scanners, OpenFolder(s)
  PROVE  TypeInv'
  <1> PICK r \in scan[s].todo :
         /\ roots' = IF Registered(r)
                     THEN [roots EXCEPT ![r].token = scan[s].gen] ELSE roots
         /\ Go(s, [scan[s] EXCEPT !.pc = "walk", !.root = r, !.todo = @ \ {r}, !.next = 1,
                                  !.complete = TRUE, !.lost = FALSE])
         /\ TakenOver(s, r)
    BY DEF OpenFolder
  <1> DEFINE c == [scan[s] EXCEPT !.pc = "walk", !.root = r, !.todo = @ \ {r}, !.next = 1,
                                  !.complete = TRUE, !.lost = FALSE]
  <1>1. r \in Roots
    BY LocalFacts, ScanTypes
  <1>g. scan[s].gen \in Generations /\ scan[s].pc = "roots"
    BY LocalFacts DEF OpenFolder, Placed
  <1>2. c \in ScanType /\ Placed(c)
    <2>1. 1 \in 1 .. MaxPlaces + 1
      BY BoundFacts
    <2>2. scan[s] \in ScanType /\ Placed(scan[s])
      BY LocalFacts
    <2>3. c \in ScanType
      BY <1>1, <2>1, <2>2 DEF ScanType
    <2>4. /\ c.pc = "walk" /\ c.root = r /\ c.gen = scan[s].gen /\ c.todo = scan[s].todo \ {r}
          /\ c.requests = scan[s].requests /\ c.results = scan[s].results /\ c.lost = FALSE
      BY <2>2 DEF ScanType
    <2>5. scan[s].requests = {} /\ scan[s].results = {}
      BY <1>g, <2>2 DEF Placed
    <2> HIDE DEF c
    <2> QED BY <1>1, <1>g, <2>3, <2>4, <2>5 DEF Placed
  <1>3. Go(s, c)
    OBVIOUS
  <1> HIDE DEF c
  <1>5. roots' \in [Roots -> RootType \cup {Absent}]
        /\ \A q \in Roots : roots[q] # Absent => roots'[q] # Absent
    <2> DEFINE x == [roots[r] EXCEPT !.token = scan[s].gen]
    <2>1. CASE ~Registered(r)
      BY <2>1 DEF TypeInv, IndexOK
    <2>2. CASE Registered(r)
      <3>1. x \in RootType
        BY <1>1, <1>g, <2>2, RootTypes DEF TypeInv, IndexOK, Registered
      <3>2. roots' = [roots EXCEPT ![r] = x]
        BY <2>2
      <3> HIDE DEF x
      <3> QED BY <1>1, <3>1, <3>2, AbsentFacts DEF TypeInv, IndexOK
    <2> QED BY <2>1, <2>2
  <1>6. spoilt' \in [Scanners -> SUBSET Paths] /\ astray' \subseteq Paths
    BY TakenTypes DEF OpenFolder, TypeInv, CountsOK
  <1>7. rows' = rows /\ rows \in [Paths -> RowType \cup {Absent}]
    BY DEF OpenFolder, TypeInv, IndexOK
  <1> QED BY <1>2, <1>3, <1>5, <1>6, <1>7, WritingTypes DEF OpenFolder

LEMMA AtPlace ==
  ASSUME TypeInv, NEW s \in Scanners, scan[s].pc \in {"walk", "touch", "submit", "forget"},
         scan[s].next <= MaxPlaces
  PROVE  /\ Place(s) \in Paths /\ Root(Place(s)) = scan[s].root
         /\ Place(s)[2] = scan[s].next /\ scan[s].root \in Roots
  BY LocalFacts, PlaceFacts DEF Placed

LEMMA VisitTypes ==
  ASSUME TypeInv, NEW s \in Scanners, Visit(s)
  PROVE  TypeInv'
  <1> DEFINE p == Place(s)
             a == [scan[s] EXCEPT !.pc = IF Unchanged(p, Seen(p)) THEN "touch" ELSE "submit",
                                  !.held = Seen(p)]
  <1>1. /\ scan[s] \in ScanType /\ Placed(scan[s]) /\ scan[s].next <= MaxPlaces
        /\ scan[s].pc = "walk" /\ scan[s].root \in Roots /\ scan[s].gen \in Generations
    BY LocalFacts DEF Visit, Placed
  <1>2. p \in Paths
    BY <1>1, AtPlace
  <1>3. Seen(p) # Absent => Seen(p) \in Contents
    BY <1>2, SeenFacts
  <1>4. Seen(p) # Absent => a \in ScanType /\ Placed(a)
    <2> HIDE DEF p
    <2>1. a.held = Seen(p) /\ a.pc \in {"touch", "submit"} /\ a.next = scan[s].next
          /\ a.root = scan[s].root /\ a.gen = scan[s].gen
      BY <1>1 DEF ScanType
    <2> QED BY <1>1, <1>3, <2>1 DEF ScanType, Placed
  <1>5. /\ GiveUp(scan[s]) \in ScanType /\ Placed(GiveUp(scan[s]))
        /\ Behind(scan[s]) \in ScanType /\ Placed(Behind(scan[s]))
    BY <1>1, GiveUpPlaced, BehindPlaced
  <1>6. Partial(Behind(scan[s])) \in ScanType /\ Placed(Partial(Behind(scan[s])))
    BY <1>5, PartialPlaced
  <1>7. \E c : Go(s, c) /\ c \in ScanType /\ Placed(c)
    <2> HIDE DEF a
    <2> QED BY <1>4, <1>5, <1>6 DEF Visit, a
  <1>8. Fault \/ Smooth
    BY DEF Visit
  <1> QED BY <1>7, <1>8, QuietTypes, ObservedTypes, ScansStay DEF Visit

LEMMA WalkFailsTypes ==
  ASSUME TypeInv, NEW s \in Scanners, WalkFails(s)
  PROVE  TypeInv'
  <1>1. GiveUp(scan[s]) \in ScanType /\ Placed(GiveUp(scan[s]))
    BY LocalFacts, GiveUpPlaced DEF WalkFails
  <1> QED BY <1>1, QuietTypes, ObservedTypes, ScansStay DEF WalkFails

LEMMA TouchTypes ==
  ASSUME TypeInv, NEW s \in Scanners, Touch(s)
  PROVE  TypeInv'
  <1> DEFINE p == Place(s)
  <1>1. /\ scan[s] \in ScanType /\ Placed(scan[s]) /\ scan[s].next <= MaxPlaces
        /\ scan[s].pc = "touch" /\ scan[s].root \in Roots /\ scan[s].gen \in Generations
    BY LocalFacts DEF Touch, Placed
  <1>2. p \in Paths
    BY <1>1, AtPlace
  <1>5. /\ GiveUp(scan[s]) \in ScanType /\ Placed(GiveUp(scan[s]))
        /\ Behind(scan[s]) \in ScanType /\ Placed(Behind(scan[s]))
    BY <1>1, GiveUpPlaced, BehindPlaced
  <1>6. Partial(Behind(scan[s])) \in ScanType /\ Placed(Partial(Behind(scan[s])))
    BY <1>5, PartialPlaced
  <1>7. \E c : Go(s, c) /\ c \in ScanType /\ Placed(c)
    BY <1>5, <1>6 DEF Touch
  <1>8. /\ rows' \in [Paths -> RowType \cup {Absent}]
        /\ \A q \in Paths : rows'[q] # Absent => rows[q] # Absent
    <2> DEFINE x == [rows[p] EXCEPT !.available = TRUE, !.seen = scan[s].gen]
    <2>1. rows' = rows \/ (rows[p] # Absent /\ rows' = [rows EXCEPT ![p] = x])
      <3>1. CASE rows' = rows
        BY <3>1
      <3>2. CASE rows' # rows
        BY <3>2 DEF Touch
      <3> QED BY <3>1, <3>2
    <2>2. rows[p] # Absent => x \in RowType
      BY <1>1, <1>2, RowTypes DEF TypeInv, IndexOK
    <2> HIDE DEF x, p
    <2> QED BY <1>2, <2>1, <2>2 DEF TypeInv, IndexOK
  <1>9. roots' = roots /\ roots \in [Roots -> RootType \cup {Absent}]
    BY DEF Touch, TypeInv, IndexOK
  <1> QED BY <1>7, <1>8, <1>9, WritingTypes, ObservedTypes DEF Touch

LEMMA AskedFacts ==
  ASSUME TypeInv, NEW s \in Scanners, scan[s].pc = "submit"
  PROVE  /\ Asked(s) \in ScanType /\ Asked(s).next <= MaxPlaces
         /\ Asked(s).pc = "submit" /\ Asked(s).held = scan[s].held /\ Asked(s).next = scan[s].next
         /\ Asked(s).gen = scan[s].gen /\ Asked(s).todo = scan[s].todo /\ Asked(s).root = scan[s].root
         /\ Asked(s).requests = scan[s].requests
              \cup {[path |-> Place(s), before |-> scan[s].held]}
         /\ Asked(s).results = scan[s].results
         /\ Asked(s).complete = scan[s].complete /\ Asked(s).lost = scan[s].lost
         /\ Asked(s).incomplete = scan[s].incomplete /\ Asked(s).cancel = scan[s].cancel
  <1>1. /\ scan[s] \in ScanType /\ Placed(scan[s]) /\ scan[s].next <= MaxPlaces
        /\ scan[s].held \in Contents
    BY LocalFacts DEF Placed
  <1>2. Place(s) \in Paths
    BY <1>1, AtPlace
  <1> DEFINE q == [path |-> Place(s), before |-> scan[s].held]
  <1>3. q \in Request
    BY <1>1, <1>2 DEF Request
  <1> HIDE DEF q
  <1>4. Asked(s) = [scan[s] EXCEPT !.requests = @ \cup {q}]
    BY DEF Asked, q
  <1> QED BY <1>1, <1>3, <1>4 DEF ScanType, q

LEMMA SubmitTypes ==
  ASSUME TypeInv, NEW s \in Scanners, Submit(s)
  PROVE  TypeInv'
  <1>1. /\ scan[s] \in ScanType /\ Placed(scan[s]) /\ scan[s].next <= MaxPlaces
        /\ scan[s].pc = "submit" /\ scan[s].root \in Roots /\ scan[s].gen \in Generations
    BY LocalFacts DEF Submit, Placed
  <1>2. GiveUp(scan[s]) \in ScanType /\ Placed(GiveUp(scan[s]))
    BY <1>1, GiveUpPlaced
  <1>3. Behind(Asked(s)) \in ScanType /\ Placed(Behind(Asked(s)))
    <2> DEFINE a == Asked(s)
    <2>1. /\ a \in ScanType /\ a.next <= MaxPlaces /\ a.pc = "submit" /\ a.held = scan[s].held
          /\ a.gen = scan[s].gen /\ a.todo = scan[s].todo /\ a.root = scan[s].root
          /\ a.requests = scan[s].requests \cup {[path |-> Place(s), before |-> scan[s].held]}
          /\ a.results = scan[s].results /\ a.complete = scan[s].complete /\ a.lost = scan[s].lost
      BY <1>1, AskedFacts
    <2>2. Root(Place(s)) = scan[s].root
      BY <1>1, AtPlace
    <2> HIDE DEF a
    <2>3. \A q \in a.requests \cup a.results : Root(q.path) = a.root
      BY <1>1, <2>1, <2>2 DEF Placed
    <2>4. Placed(a)
      BY <1>1, <2>1, <2>3 DEF Placed
    <2>5. Behind(a) \in ScanType /\ Placed(Behind(a))
      BY <2>1, <2>4, BehindPlaced
    <2> QED BY <2>5 DEF a
  <1>4. \E c : Go(s, c) /\ c \in ScanType /\ Placed(c)
    BY <1>2, <1>3 DEF Submit
  <1> QED BY <1>4, QuietTypes, ObservedTypes, ScansStay DEF Submit

LEMMA PrepareTypes ==
  ASSUME TypeInv, NEW s \in Scanners, Prepare(s)
  PROVE  TypeInv'
  <1> PICK q \in scan[s].requests, tags \in Versions \cup {Absent} :
         /\ \/ tags # Absent /\ Seen(q.path) # Absent /\ tags = Seen(q.path).tags /\ Smooth
            \/ tags = Absent /\ (Seen(q.path) = Absent \/ scan[s].cancel) /\ Smooth
            \/ tags = Absent /\ Seen(q.path) # Absent /\ ~scan[s].cancel /\ Fault
         /\ Go(s, [scan[s] EXCEPT !.requests = @ \ {q},
                !.results = @ \cup {[path |-> q.path, before |-> q.before, tags |-> tags]}])
    BY DEF Prepare
  <1> DEFINE f == [path |-> q.path, before |-> q.before, tags |-> tags]
             c == [scan[s] EXCEPT !.requests = @ \ {q}, !.results = @ \cup {f}]
  <1>1. scan[s] \in ScanType /\ Placed(scan[s]) /\ q \in Request
    BY LocalFacts, ScanTypes
  <1>2. f \in Answer
    BY <1>1 DEF Request, Answer
  <1>3. c \in ScanType /\ Placed(c)
    <2>1. f.path = q.path
      OBVIOUS
    <2> HIDE DEF f
    <2>2. /\ c \in ScanType /\ c.pc = scan[s].pc /\ c.held = scan[s].held /\ c.next = scan[s].next
          /\ c.gen = scan[s].gen /\ c.todo = scan[s].todo /\ c.root = scan[s].root
          /\ c.complete = scan[s].complete /\ c.lost = scan[s].lost
          /\ c.requests = scan[s].requests \ {q} /\ c.results = scan[s].results \cup {f}
      BY <1>1, <1>2 DEF ScanType
    <2> HIDE DEF c
    <2>3. Placed(c)
      BY <1>1, <2>1, <2>2 DEF Placed
    <2> QED BY <2>2, <2>3
  <1>4. Go(s, c)
    OBVIOUS
  <1> HIDE DEF c
  <1> QED BY <1>3, <1>4, QuietTypes, ObservedTypes, ScansStay DEF Prepare

LEMMA TakenFacts ==
  ASSUME NEW c \in ScanType, NEW f
  PROVE  LET d == [c EXCEPT !.results = @ \ {f}] IN
         /\ d \in ScanType
         /\ d.pc = c.pc /\ d.held = c.held /\ d.next = c.next
         /\ d.gen = c.gen /\ d.todo = c.todo /\ d.root = c.root
         /\ d.requests = c.requests /\ d.results = c.results \ {f}
         /\ d.complete = c.complete /\ d.lost = c.lost
         /\ d.incomplete = c.incomplete /\ d.cancel = c.cancel
         /\ [d EXCEPT !.lost = TRUE] \in ScanType
         /\ GiveUp([d EXCEPT !.lost = TRUE]) = [GiveUp(d) EXCEPT !.lost = TRUE]
  BY DEF ScanType, GiveUp

LEMMA CommitTypes ==
  ASSUME TypeInv, NEW s \in Scanners, CommitPrepared(s)
  PROVE  TypeInv'
  <1> PICK f \in scan[s].results :
         LET Taken == [scan[s] EXCEPT !.results = @ \ {f}] IN
         \/ /\ scan[s].lost
            /\ Go(s, Taken) /\ UNCHANGED rows
         \/ /\ ~scan[s].lost /\ f.tags = Absent
            /\ Go(s, Partial(Taken))
            /\ rows' = IF rows[f.path] = Absent THEN rows
                       ELSE [rows EXCEPT ![f.path].complete = FALSE]
         \/ /\ ~scan[s].lost /\ f.tags # Absent /\ ~Current(f)
            /\ Go(s, Partial(Taken))
            /\ UNCHANGED rows
         \/ /\ ~scan[s].lost /\ f.tags # Absent /\ Current(f) /\ ~Owns(s)
            /\ Go(s, GiveUp([Taken EXCEPT !.lost = TRUE]))
            /\ UNCHANGED rows
         \/ /\ ~scan[s].lost /\ f.tags # Absent /\ Current(f) /\ Owns(s)
            /\ Go(s, Taken)
            /\ rows' = [rows EXCEPT ![f.path] =
                           Row([rev |-> f.before.rev, tags |-> f.tags], scan[s].gen)]
    BY DEF CommitPrepared
  <1> DEFINE d == [scan[s] EXCEPT !.results = @ \ {f}]
             w == Row([rev |-> f.before.rev, tags |-> f.tags], scan[s].gen)
             x == [rows[f.path] EXCEPT !.complete = FALSE]
  <1>1. /\ scan[s] \in ScanType /\ Placed(scan[s]) /\ scan[s].pc \in {"walk", "drain"}
        /\ scan[s].root \in Roots /\ scan[s].gen \in Generations
    BY LocalFacts DEF CommitPrepared, Placed
  <1>2. f.path \in Paths /\ f.before \in Contents /\ f.tags \in Versions \cup {Absent}
    BY <1>1, ScanTypes DEF Answer
  <1>3. /\ d \in ScanType /\ d.pc = scan[s].pc /\ d.root = scan[s].root /\ d.gen = scan[s].gen
        /\ d.next = scan[s].next /\ d.held = scan[s].held
        /\ [d EXCEPT !.lost = TRUE] \in ScanType
    BY <1>1, TakenFacts
  <1>4. Placed(d)
    <2>1. /\ d.todo = scan[s].todo /\ d.requests = scan[s].requests
          /\ d.results = scan[s].results \ {f} /\ d.lost = scan[s].lost
          /\ d.complete = scan[s].complete
      BY <1>1, TakenFacts
    <2> HIDE DEF d
    <2> QED BY <1>1, <1>3, <2>1 DEF Placed
  <1>5. Partial(d) \in ScanType /\ Placed(Partial(d))
    BY <1>3, <1>4, PartialPlaced
  <1>7. /\ GiveUp([d EXCEPT !.lost = TRUE]) \in ScanType
        /\ Placed(GiveUp([d EXCEPT !.lost = TRUE]))
    <2> HIDE DEF d
    <2> DEFINE e == [d EXCEPT !.lost = TRUE]
               g == GiveUp(d)
    <2>1. GiveUp(e) = [g EXCEPT !.lost = TRUE]
      BY <1>3 DEF ScanType, GiveUp
    <2>2. g \in ScanType /\ Placed(g) /\ ~g.complete
      BY <1>1, <1>3, <1>4, GiveUpPlaced, GiveUpFacts
    <2> HIDE DEF g
    <2>3. [g EXCEPT !.lost = TRUE] \in ScanType /\ Placed([g EXCEPT !.lost = TRUE])
      BY <2>2 DEF ScanType, Placed
    <2> QED BY <2>1, <2>3
  <1>8. \E c : Go(s, c) /\ c \in ScanType /\ Placed(c)
    BY <1>3, <1>4, <1>5, <1>7
  <1>9. f.tags # Absent => w \in RowType
    <2> DEFINE file == [rev |-> f.before.rev, tags |-> f.tags]
    <2>1. f.tags # Absent => file \in Contents
      BY <1>2 DEF Contents
    <2> HIDE DEF file
    <2>2. f.tags # Absent => Row(file, scan[s].gen) \in RowType
      BY <1>1, <2>1, NewRowTypes
    <2> QED BY <2>2 DEF file
  <1>10. rows[f.path] # Absent => x \in RowType
    BY <1>2, RowTypes DEF TypeInv, IndexOK
  <1>11. \/ rows' = rows
         \/ rows[f.path] # Absent /\ rows' = [rows EXCEPT ![f.path] = x]
         \/ f.tags # Absent /\ Owns(s) /\ rows' = [rows EXCEPT ![f.path] = w]
    <2> HIDE DEF d, w
    <2> QED BY DEF w
  <1>14. \A q \in Paths : rows'[q] # Absent => rows[q] # Absent \/ Registered(Root(q))
    <2> HIDE DEF x, w
    <2>1. Root(f.path) = scan[s].root
      BY <1>1 DEF Placed
    <2>2. Owns(s) => Registered(Root(f.path))
      BY <2>1 DEF Owns
    <2> QED BY <1>2, <1>11, <2>2 DEF TypeInv, IndexOK
  <1>12. rows' \in [Paths -> RowType \cup {Absent}]
    <2> HIDE DEF x, w
    <2> QED BY <1>2, <1>9, <1>10, <1>11 DEF TypeInv, IndexOK
  <1>13. roots' = roots /\ roots \in [Roots -> RootType \cup {Absent}]
    BY DEF CommitPrepared, TypeInv, IndexOK
  <1> QED BY <1>8, <1>12, <1>13, <1>14, WritingTypes, ObservedTypes DEF CommitPrepared

LEMMA EndWalkTypes ==
  ASSUME TypeInv, NEW s \in Scanners, EndWalk(s)
  PROVE  TypeInv'
  <1>1. scan[s] \in ScanType /\ Placed(scan[s]) /\ scan[s].pc = "walk"
    BY LocalFacts DEF EndWalk
  <1>2. /\ [scan[s] EXCEPT !.pc = "drain"] \in ScanType
        /\ Placed([scan[s] EXCEPT !.pc = "drain"])
    BY <1>1 DEF ScanType, Placed
  <1> QED BY <1>2, QuietTypes, ObservedTypes, ScansStay DEF EndWalk

LEMMA EndFolderTypes ==
  ASSUME TypeInv, NEW s \in Scanners, EndFolder(s)
  PROVE  TypeInv'
  <1> DEFINE complete == scan[s].complete /\ ~scan[s].cancel
             c == [scan[s] EXCEPT !.pc = IF complete THEN "prune" ELSE "roots", !.next = 1,
                                  !.requests = {}, !.incomplete = @ \/ ~complete]
  <1>1. /\ scan[s] \in ScanType /\ Placed(scan[s]) /\ scan[s].pc = "drain"
        /\ scan[s].results = {}
    BY LocalFacts DEF EndFolder
  <1>2. /\ Go(s, c)
        /\ roots' = IF ~Owns(s) THEN roots
                    ELSE [roots EXCEPT ![scan[s].root].state =
                             IF complete THEN "scanned" ELSE "partial"]
        /\ rows' = [p \in Paths |->
                      IF complete /\ Owns(s) /\ p \in RowsOf(scan[s].root)
                         /\ rows[p].seen # scan[s].gen
                      THEN [rows[p] EXCEPT !.available = FALSE] ELSE rows[p]]
    BY DEF EndFolder
  <1>3. complete \in BOOLEAN /\ (scan[s].incomplete \/ ~complete) \in BOOLEAN
    BY <1>1, ScanTypes
  <1>4. c \in ScanType /\ Placed(c)
    <2> DEFINE i == scan[s].incomplete \/ ~complete
    <2>1. 1 \in 1 .. MaxPlaces + 1
      BY BoundFacts
    <2>2. c = [scan[s] EXCEPT !.pc = IF complete THEN "prune" ELSE "roots", !.next = 1,
                              !.requests = {}, !.incomplete = i]
      OBVIOUS
    <2>3. i \in BOOLEAN
      BY <1>3
    <2> HIDE DEF i, complete, c
    <2>4. c \in ScanType
      BY <1>1, <2>1, <2>2, <2>3 DEF ScanType
    <2>5. /\ c.pc \in {"prune", "roots"} /\ c.root = scan[s].root /\ c.todo = scan[s].todo
          /\ c.gen = scan[s].gen /\ c.requests = {} /\ c.results = scan[s].results
          /\ c.lost = scan[s].lost /\ c.complete = scan[s].complete
      BY <1>1, <2>2 DEF ScanType
    <2>6. Placed(c)
      BY <1>1, <2>5 DEF Placed
    <2> QED BY <2>4, <2>6
  <1> HIDE DEF c
  <1>5. /\ rows' \in [Paths -> RowType \cup {Absent}]
        /\ \A p \in Paths : rows'[p] # Absent => rows[p] # Absent
    <2> HIDE DEF complete
    <2>1. ASSUME NEW p \in Paths
          PROVE  /\ rows'[p] \in RowType \cup {Absent}
                 /\ rows'[p] # Absent => rows[p] # Absent
      <3>1. \/ rows'[p] = rows[p]
            \/ rows[p] # Absent /\ rows'[p] = [rows[p] EXCEPT !.available = FALSE]
        BY <1>2 DEF RowsOf
      <3> QED BY <3>1, RowTypes DEF TypeInv, IndexOK
    <2>2. rows' = [p \in Paths |-> rows'[p]]
      BY <1>2
    <2> QED BY <2>1, <2>2
  <1>6. /\ roots' \in [Roots -> RootType \cup {Absent}]
        /\ \A q \in Roots : roots[q] # Absent => roots'[q] # Absent
    <2> DEFINE x == [roots[scan[s].root] EXCEPT !.state = IF complete THEN "scanned" ELSE "partial"]
    <2>1. CASE ~Owns(s)
      BY <1>2, <2>1 DEF TypeInv, IndexOK
    <2>2. CASE Owns(s)
      <3>1. scan[s].root \in Roots /\ roots[scan[s].root] \in RootType
        BY <2>2 DEF Owns, Registered, TypeInv, IndexOK
      <3>2. x \in RootType
        BY <3>1 DEF RootType
      <3>3. roots' = [roots EXCEPT ![scan[s].root] = x]
        BY <1>2, <2>2
      <3> HIDE DEF x
      <3> QED BY <3>1, <3>2, <3>3, AbsentFacts DEF TypeInv, IndexOK
    <2> QED BY <2>1, <2>2
  <1> QED BY <1>2, <1>4, <1>5, <1>6, WritingTypes, ObservedTypes DEF EndFolder

LEMMA LookTypes ==
  ASSUME TypeInv, NEW s \in Scanners, LookForMissing(s)
  PROVE  TypeInv'
  <1> DEFINE later == {p \in RowsOf(scan[s].root) :
                         p[2] >= scan[s].next /\ rows[p].seen # scan[s].gen}
             a == [scan[s] EXCEPT !.pc = "roots"]
             b(p) == [scan[s] EXCEPT !.pc = "forget", !.next = p[2], !.held = rows[p]]
             d(p) == [scan[s] EXCEPT !.next = p[2] + 1]
  <1>1. /\ scan[s] \in ScanType /\ Placed(scan[s]) /\ scan[s].pc = "prune"
        /\ scan[s].root \in Roots
    BY LocalFacts DEF LookForMissing, Placed
  <1>2. a \in ScanType /\ Placed(a)
    BY <1>1 DEF ScanType, Placed
  <1>3. ASSUME NEW p \in later
        PROVE  /\ p \in Paths /\ p[2] \in 1 .. MaxPlaces /\ p[2] \in 1 .. MaxPlaces + 1
               /\ p[2] + 1 \in 1 .. MaxPlaces + 1 /\ rows[p] \in RowType
    <2>1. p \in Paths /\ Root(p) \in Roots /\ rows[p] # Absent
      BY <1>1 DEF RowsOf
    <2>2. p[2] \in 1 .. MaxPlaces
      BY <2>1, PathFacts
    <2> HIDE DEF later
    <2>3. p[2] \in 1 .. MaxPlaces + 1 /\ p[2] + 1 \in 1 .. MaxPlaces + 1
      BY <2>2, BoundFacts
    <2> QED BY <2>1, <2>2, <2>3 DEF TypeInv, IndexOK
  <1>4. ASSUME NEW p \in later, ConfirmedMissing(p)
        PROVE  b(p) \in ScanType /\ Placed(b(p))
    <2> DEFINE i == p[2]
               x == rows[p]
    <2>1. i \in 1 .. MaxPlaces /\ i \in 1 .. MaxPlaces + 1 /\ x \in RowType /\ x.rev # 0
      BY <1>3, <1>4 DEF ConfirmedMissing
    <2>2. i <= MaxPlaces
      BY <2>1, BoundFacts
    <2>3. b(p) = [scan[s] EXCEPT !.pc = "forget", !.next = i, !.held = x]
      OBVIOUS
    <2> HIDE DEF i, x, b
    <2>4. b(p) \in ScanType
      BY <1>1, <2>1, <2>3 DEF ScanType
    <2>5. /\ b(p).pc = "forget" /\ b(p).next = i /\ b(p).held = x /\ b(p).root = scan[s].root
          /\ b(p).todo = scan[s].todo /\ b(p).gen = scan[s].gen /\ b(p).lost = scan[s].lost
          /\ b(p).requests = scan[s].requests /\ b(p).results = scan[s].results
          /\ b(p).complete = scan[s].complete
      BY <1>1, <2>3 DEF ScanType
    <2> QED BY <1>1, <2>1, <2>2, <2>4, <2>5 DEF Placed
  <1>5. ASSUME NEW p \in later
        PROVE  d(p) \in ScanType /\ Placed(d(p))
    <2> DEFINE i == p[2] + 1
    <2>1. i \in 1 .. MaxPlaces + 1
      BY <1>3
    <2>3. d(p) = [scan[s] EXCEPT !.next = i]
      OBVIOUS
    <2> HIDE DEF i, d
    <2>4. d(p) \in ScanType
      BY <1>1, <2>1, <2>3 DEF ScanType
    <2>5. /\ d(p).pc = "prune" /\ d(p).root = scan[s].root
          /\ d(p).todo = scan[s].todo /\ d(p).gen = scan[s].gen /\ d(p).lost = scan[s].lost
          /\ d(p).requests = scan[s].requests /\ d(p).results = scan[s].results
          /\ d(p).complete = scan[s].complete
      BY <1>1, <2>3 DEF ScanType
    <2> QED BY <1>1, <2>4, <2>5 DEF Placed
  <1>6. \/ Go(s, a) /\ UNCHANGED astray
        \/ \E p \in later : /\ IF ConfirmedMissing(p) THEN Go(s, b(p)) ELSE Go(s, d(p))
                            /\ astray' = astray \cup ({p} \cap Busy)
    BY DEF LookForMissing
  <1>7. \E c : Go(s, c) /\ c \in ScanType /\ Placed(c)
    <2> HIDE DEF a, b, d, later
    <2> QED BY <1>2, <1>4, <1>5, <1>6
  <1>8. astray' \subseteq Paths
    <2> HIDE DEF a, b, d, later
    <2>1. astray \subseteq Paths /\ Busy \subseteq Paths
      BY DEF TypeInv, CountsOK, OpOK, Busy
    <2> QED BY <1>6, <2>1
  <1>9. spoilt' \in [Scanners -> SUBSET Paths]
    BY DEF LookForMissing, TypeInv, CountsOK
  <1>10. UNCHANGED <<world, index, others, scans>> /\ Smooth
    BY DEF LookForMissing
  <1> QED BY <1>7, <1>8, <1>9, <1>10, QuietTypes, ScansStay

LEMMA ForgetTypes ==
  ASSUME TypeInv, NEW s \in Scanners, Forget(s)
  PROVE  TypeInv'
  <1> DEFINE p == Place(s)
             a == [scan[s] EXCEPT !.pc = "roots", !.held = Absent]
             b == [Behind(scan[s]) EXCEPT !.pc = "prune"]
  <1>1. /\ scan[s] \in ScanType /\ Placed(scan[s]) /\ scan[s].pc = "forget"
        /\ scan[s].root \in Roots /\ scan[s].next <= MaxPlaces
    BY LocalFacts DEF Forget, Placed
  <1>2. a \in ScanType /\ Placed(a)
    BY <1>1 DEF ScanType, Placed
  <1>3. b \in ScanType /\ Placed(b)
    <2> DEFINE e == Behind(scan[s])
    <2>1. /\ e \in ScanType /\ e.root = scan[s].root /\ e.todo = scan[s].todo
          /\ e.gen = scan[s].gen /\ e.requests = scan[s].requests /\ e.results = scan[s].results
          /\ e.lost = scan[s].lost /\ e.complete = scan[s].complete
      BY <1>1, BehindFacts
    <2> HIDE DEF e
    <2>2. [e EXCEPT !.pc = "prune"] \in ScanType /\ Placed([e EXCEPT !.pc = "prune"])
      BY <1>1, <2>1 DEF ScanType, Placed
    <2> QED BY <2>2 DEF e
  <1>4. \E c : Go(s, c) /\ c \in ScanType /\ Placed(c)
    <2> HIDE DEF a, b
    <2> QED BY <1>2, <1>3 DEF Forget, a, b
  <1>5. /\ rows' \in [Paths -> RowType \cup {Absent}]
        /\ \A q \in Paths : rows'[q] # Absent => rows[q] # Absent
    <2>1. rows' = rows \/ rows' = [rows EXCEPT ![p] = Absent]
      BY DEF Forget
    <2> QED BY <2>1 DEF TypeInv, IndexOK
  <1>6. /\ roots' = roots /\ roots \in [Roots -> RootType \cup {Absent}]
        /\ UNCHANGED <<world, others, scans>> /\ Smooth /\ Unspoilt
    BY DEF Forget, TypeInv, IndexOK
  <1> QED BY <1>4, <1>5, <1>6, WritingTypes, ObservedTypes

LEMMA EndTypes ==
  ASSUME TypeInv, NEW s \in Scanners, Finish(s) \/ Abort(s)
  PROVE  TypeInv'
  BY IdleFacts, QuietTypes, ObservedTypes, ScansStay DEF Finish, Abort

LEMMA ScanTypesHold ==
  ASSUME TypeInv, NEW s \in Scanners, Scan(s)
  PROVE  TypeInv'
  BY StartTypes, StopTypes, OfflineTypes, OpenTypes, VisitTypes, WalkFailsTypes, TouchTypes,
     SubmitTypes, PrepareTypes, CommitTypes, EndWalkTypes, EndFolderTypes, LookTypes,
     ForgetTypes, EndTypes DEF Scan, Walk

(***************************************************************************)
(* Types: the program and the world.                                        *)
(***************************************************************************)
LEMMA NextVersion ==
  ASSUME TypeInv, clock' = clock + 1, count' + foreign' = count + foreign + 1,
         count' \in Nat, foreign' \in Nat, count' <= MaxOps, foreign' <= MaxForeign
  PROVE  /\ clock' \in Versions /\ clock' <= Cardinality(Paths) + count' + foreign'
         /\ [rev |-> clock', tags |-> clock'] \in Contents
  <1>1. clock \in Nat /\ count \in Nat /\ foreign \in Nat /\ clock <= Cardinality(Paths) + count + foreign
    BY VersionFacts DEF TypeInv, DiskOK, CountsOK
  <1>2. clock' \in Nat \ {0} /\ clock' <= Cardinality(Paths) + count' + foreign'
    <2>1. \A k, a, b, c, d, e \in Nat :
            a <= k + b + c /\ d + e = b + c + 1 => a + 1 <= k + d + e
      OBVIOUS
    <2>2. clock + 1 <= Cardinality(Paths) + count' + foreign'
      BY <1>1, <2>1, PathsFinite
    <2> QED BY <1>1, <2>2
  <1>3. clock' <= Cardinality(Paths) + MaxOps + MaxForeign
    BY <1>2, PathsFinite, BoundFacts
  <1>4. clock' \in Versions
    BY <1>2, <1>3, VersionFacts
  <1> QED BY <1>2, <1>4 DEF Contents

\* What the program is doing, as far as types go.
LEMMA OpFacts ==
  ASSUME TypeInv
  PROVE  /\ op.from \in Paths /\ op.to \in Paths /\ op.kind \in {"tags", "move", "copy"}
         /\ op.pc \in {"idle", "published", "source"}
         /\ op.pc # "idle" => op.old \in Contents /\ disk[op.to] \in Contents
  BY DEF TypeInv, OpOK

LEMMA NoOpFacts ==
  /\ NoOp \in [pc : {"idle", "published", "source"}, kind : {"tags", "move", "copy"},
               from : Paths, to : Paths, old : Contents \cup {Absent}]
  /\ NoOp.pc = "idle"
  <1>1. <<Elsewhere, 1>> \in Paths
    BY DEF Paths
  <1> QED BY <1>1 DEF NoOp

LEMMA SpoilTypes ==
  ASSUME TypeInv, NEW S \in SUBSET Paths, Spoil(S)
  PROVE  spoilt' \in [Scanners -> SUBSET Paths]
  BY DEF TypeInv, CountsOK, Spoil

LEMMA PublishTypes ==
  ASSUME TypeInv, Publish
  PROVE  TypeInv'
  <1> PICK kind \in Kinds, p \in Paths, q \in Paths :
         /\ Reachable(p) /\ disk[p] # Absent
         /\ IF kind = "tags" THEN p = q ELSE Reachable(q) /\ disk[q] = Absent
         /\ clock' = IF kind = "move" THEN clock ELSE clock + 1
         /\ disk' = CASE kind = "tags" -> [disk EXCEPT ![p] = [rev |-> clock', tags |-> clock']]
                      [] kind = "move" -> [disk EXCEPT ![p] = Absent, ![q] = disk[p]]
                      [] kind = "copy" -> [disk EXCEPT ![q] = [disk[p] EXCEPT !.rev = clock']]
         /\ op' = [pc |-> "published", kind |-> kind, from |-> p, to |-> q, old |-> disk[p]]
    BY DEF Publish
  <1>1. kind \in {"tags", "move", "copy"} /\ disk[p] \in Contents
    BY LibraryAssumption DEF TypeInv, DiskOK
  <1>2. /\ count' \in Nat /\ count' <= MaxOps /\ foreign' = foreign /\ foreign \in Nat
        /\ foreign <= MaxForeign /\ count' = count + 1 /\ clock \in Nat /\ count \in Nat
        /\ clock <= Cardinality(Paths) + count + foreign /\ count' + foreign' = count + foreign + 1
    BY BoundFacts, VersionFacts DEF TypeInv, CountsOK, DiskOK, Publish
  <1>3. clock' \in Versions /\ clock' <= Cardinality(Paths) + count' + foreign'
    <2>1. CASE kind = "move"
      BY <1>2, <2>1, PathsFinite DEF TypeInv, DiskOK
    <2>2. CASE kind # "move"
      BY <1>2, <2>2, NextVersion
    <2> QED BY <2>1, <2>2
  <1>4. disk' \in [Paths -> Contents \cup {Absent}] /\ disk'[q] \in Contents
    <2>1. CASE kind = "tags"
      <3>1. [rev |-> clock', tags |-> clock'] \in Contents
        BY <1>3 DEF Contents
      <3>2. disk' = [disk EXCEPT ![p] = [rev |-> clock', tags |-> clock']] /\ p = q
        BY <2>1
      <3> QED BY <3>1, <3>2 DEF TypeInv, DiskOK
    <2>2. CASE kind = "move"
      <3>1. disk' = [disk EXCEPT ![p] = Absent, ![q] = disk[p]]
        BY <2>2
      <3>2. p # q
        BY <2>2
      <3> QED BY <1>1, <3>1, <3>2 DEF TypeInv, DiskOK
    <2>3. CASE kind = "copy"
      <3>1. [disk[p] EXCEPT !.rev = clock'] \in Contents
        BY <1>1, <1>3 DEF Contents
      <3>2. disk' = [disk EXCEPT ![q] = [disk[p] EXCEPT !.rev = clock']]
        BY <2>3
      <3> QED BY <3>1, <3>2 DEF TypeInv, DiskOK
    <2> QED BY <1>1, <2>1, <2>2, <2>3
  <1>5. op'.old \in Contents /\ op'.to = q
        /\ op' \in [pc : {"idle", "published", "source"}, kind : {"tags", "move", "copy"},
                    from : Paths, to : Paths, old : Contents \cup {Absent}]
    BY <1>1
  <1>6. DiskOK'
    BY <1>3, <1>4 DEF Publish, TypeInv, DiskOK
  <1>7. OpOK'
    BY <1>4, <1>5 DEF OpOK
  <1>8. CountsOK'
    BY <1>2, ObservedTypes DEF Publish, TypeInv, CountsOK, Smooth
  <1>9. ScansOK' /\ IndexOK'
    BY DEF Publish, TypeInv, ScansOK, IndexOK, index, Registered
  <1> QED BY <1>6, <1>7, <1>8, <1>9 DEF TypeInv

\* The row that follows a file.
LEMMA FollowedTypes ==
  ASSUME TypeInv, NEW from \in Paths, NEW to \in Paths, NEW file \in Contents,
         NEW retagged \in BOOLEAN
  PROVE  /\ Followed(from, to, file, retagged) \in [Paths -> RowType \cup {Absent}]
         /\ \A p \in Paths : Followed(from, to, file, retagged)[p] # Absent =>
                                rows[p] # Absent \/ Registered(Root(p))
  <1> DEFINE m == [rows[from] EXCEPT
                     !.rev = 0, !.available = TRUE, !.seen = roots[Root(to)].token,
                     !.tags = IF retagged THEN file.tags ELSE @,
                     !.complete = retagged \/ @]
             F == Followed(from, to, file, retagged)
  <1>1. CASE rows[from] = Absent
    BY <1>1 DEF Followed, TypeInv, IndexOK
  <1>2. CASE rows[from] # Absent /\ ~Registered(Root(to))
    BY <1>2 DEF Followed, TypeInv, IndexOK
  <1>3. CASE rows[from] # Absent /\ Registered(Root(to))
    <2>1. F = [rows EXCEPT ![from] = Absent, ![to] = m]
      BY <1>3 DEF Followed
    <2>2. roots[Root(to)] \in RootType /\ rows[from] \in RowType
      BY <1>3 DEF TypeInv, IndexOK, Registered
    <2>3. m \in RowType
      BY <2>2 DEF RowType, RootType, Contents
    <2> HIDE DEF m, F
    <2>4. F \in [Paths -> RowType \cup {Absent}]
      BY <2>1, <2>3 DEF TypeInv, IndexOK
    <2>5. \A p \in Paths : F[p] # Absent => rows[p] # Absent \/ Registered(Root(p))
      BY <1>3, <2>1 DEF TypeInv, IndexOK
    <2> QED BY <2>4, <2>5 DEF F
  <1> QED BY <1>1, <1>2, <1>3

LEMMA CommitDependentsTypes ==
  ASSUME TypeInv, CommitDependents
  PROVE  TypeInv'
  <1>1. /\ op.pc = "published" /\ op.from \in Paths /\ op.to \in Paths
        /\ disk[op.to] \in Contents /\ op.old \in Contents
    BY OpFacts DEF CommitDependents
  <1>2. rows' = Followed(op.from, op.to, disk[op.to], op.kind = "tags")
    BY DEF CommitDependents
  <1>3. /\ rows' \in [Paths -> RowType \cup {Absent}]
        /\ \A p \in Paths : rows'[p] # Absent => rows[p] # Absent \/ Registered(Root(p))
    BY ZenonT(60), <1>1, <1>2, FollowedTypes
  <1>4. IndexOK'
    BY <1>3 DEF CommitDependents, TypeInv, IndexOK, Registered
  <1>5. OpOK'
    <2>1. op' = [op EXCEPT !.pc = "source"] \/ op' = NoOp
      BY DEF CommitDependents
    <2>2. [op EXCEPT !.pc = "source"].old = op.old /\ [op EXCEPT !.pc = "source"].to = op.to
      BY DEF TypeInv, OpOK
    <2>3. disk' = disk
      BY DEF CommitDependents, world
    <2> QED BY <1>1, <2>1, <2>2, <2>3, NoOpFacts DEF TypeInv, OpOK
  <1>6. CountsOK'
    <2>1. \E S \in SUBSET Paths : Spoil(S)
      BY <1>1 DEF CommitDependents
    <2>2. spoilt' \in [Scanners -> SUBSET Paths]
      BY <2>1, SpoilTypes
    <2> QED BY <2>2 DEF CommitDependents, TypeInv, CountsOK, Smooth
  <1>7. ScansOK' /\ DiskOK'
    BY DEF CommitDependents, TypeInv, ScansOK, DiskOK, world
  <1> QED BY <1>4, <1>5, <1>6, <1>7 DEF TypeInv

LEMMA RollBackTypes ==
  ASSUME TypeInv, RollBack
  PROVE  TypeInv'
  <1>1. op.from \in Paths /\ op.to \in Paths /\ op.old \in Contents
    BY OpFacts DEF RollBack
  <1>2. disk' \in [Paths -> Contents \cup {Absent}]
    BY <1>1 DEF RollBack, TypeInv, DiskOK
  <1>3. OpOK'
    BY NoOpFacts DEF RollBack, OpOK
  <1>4. spoilt' \in [Scanners -> SUBSET Paths]
    BY <1>1, SpoilTypes DEF RollBack
  <1>5. faults' \in Nat
    BY FaultsCount DEF RollBack, TypeInv
  <1> QED BY <1>2, <1>3, <1>4, <1>5 DEF RollBack, TypeInv, ScansOK, DiskOK, IndexOK, CountsOK, index, Registered

LEMMA RemoveSourceTypes ==
  ASSUME TypeInv, RemoveSource
  PROVE  TypeInv'
  <1>1. op.from \in Paths
    BY OpFacts DEF RemoveSource
  <1>2. disk' \in [Paths -> Contents \cup {Absent}]
    BY <1>1 DEF RemoveSource, TypeInv, DiskOK
  <1>3. OpOK'
    BY NoOpFacts DEF RemoveSource, OpOK
  <1>4. spoilt' \in [Scanners -> SUBSET Paths]
    <2>1. \E S \in SUBSET Paths : Spoil(S)
      BY <1>1 DEF RemoveSource
    <2> QED BY <2>1, SpoilTypes
  <1>5. faults' \in Nat
    BY FaultsCount DEF RemoveSource, TypeInv
  <1> QED BY <1>2, <1>3, <1>4, <1>5 DEF RemoveSource, TypeInv, ScansOK, DiskOK, IndexOK, CountsOK, index, Registered

LEMMA ForeignFacts ==
  ASSUME TypeInv, Foreign
  PROVE  foreign' \in Nat /\ foreign' <= MaxForeign /\ foreign' = foreign + 1
         /\ count \in Nat /\ count <= MaxOps /\ foreign \in Nat /\ clock \in Nat
  BY BoundFacts, VersionFacts DEF TypeInv, CountsOK, DiskOK, Foreign

LEMMA RewriteTypes ==
  ASSUME TypeInv, NEW p \in Paths, Rewrite(p)
  PROVE  TypeInv'
  <1>1. /\ clock' = clock + 1 /\ disk' = [disk EXCEPT ![p] = [rev |-> clock', tags |-> clock']]
        /\ count' = count /\ Foreign /\ p \notin Busy
    BY DEF Rewrite, others
  <1>2. count' + foreign' = count + foreign + 1
    BY <1>1, ForeignFacts
  <1>3. /\ clock' \in Versions /\ clock' <= Cardinality(Paths) + count' + foreign'
        /\ [rev |-> clock', tags |-> clock'] \in Contents
    BY <1>1, <1>2, ForeignFacts, NextVersion
  <1>4. DiskOK'
    BY <1>1, <1>3 DEF Rewrite, TypeInv, DiskOK
  <1>5. OpOK'
    BY <1>1, <1>3 DEF Rewrite, TypeInv, OpOK, DiskOK, Busy
  <1>6. spoilt' \in [Scanners -> SUBSET Paths]
    BY SpoilTypes DEF Rewrite
  <1>7. CountsOK'
    BY <1>1, <1>6, ForeignFacts DEF Rewrite, TypeInv, CountsOK, Smooth
  <1>8. ScansOK' /\ IndexOK'
    BY DEF Rewrite, TypeInv, ScansOK, IndexOK, index, Registered
  <1> QED BY <1>4, <1>5, <1>7, <1>8 DEF TypeInv

LEMMA LessThanBefore ==
  ASSUME TypeInv, Foreign, clock' = clock, count' = count
  PROVE  clock' <= Cardinality(Paths) + count' + foreign'
  BY ForeignFacts, PathsFinite DEF TypeInv, DiskOK

LEMMA DeleteTypes ==
  ASSUME TypeInv, NEW p \in Paths, Delete(p)
  PROVE  TypeInv'
  <1>1. disk' = [disk EXCEPT ![p] = Absent] /\ Foreign /\ clock' = clock /\ count' = count
    BY DEF Delete
  <1>2. DiskOK'
    BY <1>1, LessThanBefore DEF Delete, TypeInv, DiskOK
  <1>3. OpOK'
    BY <1>1 DEF Delete, TypeInv, OpOK, DiskOK, Busy
  <1>4. spoilt' \in [Scanners -> SUBSET Paths]
    BY SpoilTypes DEF Delete
  <1>5. CountsOK'
    BY <1>1, <1>4, ForeignFacts DEF Delete, TypeInv, CountsOK, Smooth
  <1>6. ScansOK' /\ IndexOK'
    BY DEF Delete, TypeInv, ScansOK, IndexOK, index, Registered
  <1> QED BY <1>2, <1>3, <1>5, <1>6 DEF TypeInv

LEMMA RemountTypes ==
  ASSUME TypeInv, NEW r \in Roots, NEW m \in Mounts, Remount(r, m)
  PROVE  TypeInv'
  <1>1. /\ mount' = [mount EXCEPT ![r] = m] /\ disk' = disk
        /\ Foreign /\ clock' = clock /\ count' = count
    BY DEF Remount
  <1>2. m \in {"on", "gone", "empty"}
    BY LibraryAssumption
  <1>3. DiskOK'
    BY <1>1, <1>2, LessThanBefore DEF TypeInv, DiskOK
  <1>4. OpOK'
    BY <1>1 DEF Remount, TypeInv, OpOK
  <1>5. spoilt' \in [Scanners -> SUBSET Paths]
    BY SpoilTypes DEF Remount
  <1>6. CountsOK'
    BY <1>1, <1>5, ForeignFacts DEF Remount, TypeInv, CountsOK, Smooth
  <1>7. ScansOK' /\ IndexOK'
    BY DEF Remount, TypeInv, ScansOK, IndexOK, index, Registered
  <1> QED BY <1>3, <1>4, <1>6, <1>7 DEF TypeInv

LEMMA FolderTypes ==
  ASSUME TypeInv, NEW r \in Roots, AddFolder(r) \/ RemoveFolder(r)
  PROVE  TypeInv'
  <1>1. /\ Foreign /\ UNCHANGED <<world, scan, op, scans, count, astray>> /\ Smooth
        /\ Spoil({p \in Paths : Root(p) = r})
    BY DEF AddFolder, RemoveFolder
  <1>2. spoilt' \in [Scanners -> SUBSET Paths]
    BY <1>1, SpoilTypes
  <1>3. DiskOK'
    BY <1>1, LessThanBefore DEF TypeInv, DiskOK, world
  <1>4. CountsOK'
    BY <1>1, <1>2, ForeignFacts DEF TypeInv, CountsOK, Smooth
  <1>5. ScansOK' /\ OpOK'
    BY <1>1 DEF TypeInv, ScansOK, OpOK, world
  <1>6. IndexOK'
    <2>1. CASE AddFolder(r)
      <3>1. [token |-> 0, state |-> "new"] \in RootType
        BY DEF RootType
      <3>2. roots' = [roots EXCEPT ![r] = [token |-> 0, state |-> "new"]] /\ rows' = rows
        BY <2>1 DEF AddFolder
      <3> QED BY <3>1, <3>2, AbsentFacts DEF TypeInv, IndexOK, Registered
    <2>2. CASE RemoveFolder(r)
      <3>1. /\ roots' = [roots EXCEPT ![r] = Absent]
            /\ rows' = [p \in Paths |-> IF Root(p) = r THEN Absent ELSE rows[p]]
        BY <2>2 DEF RemoveFolder
      <3> QED BY <3>1 DEF TypeInv, IndexOK, Registered
    <2> QED BY <2>1, <2>2
  <1> QED BY <1>3, <1>4, <1>5, <1>6 DEF TypeInv

LEMMA InitTypes ==
  ASSUME Init
  PROVE  TypeInv
  <1> PICK present \in SUBSET Paths, old \in BOOLEAN, chosen \in BOOLEAN :
         /\ disk = [p \in Paths |-> IF p \in present
                        THEN [rev |-> Number[p], tags |-> Number[p]] ELSE Absent]
         /\ old => chosen
         /\ rows = [p \in Paths |-> IF old /\ p \in present /\ Root(p) \in Roots
                        THEN Row(disk[p], 1) ELSE Absent]
         /\ roots = [r \in Roots |-> IF ~chosen THEN Absent
                                     ELSE IF old THEN [token |-> 1, state |-> "scanned"]
                                     ELSE [token |-> 0, state |-> "new"]]
    BY SMTT(60) DEF Init
  <1>1. \A p \in Paths : Number[p] \in Versions
    BY NumberFacts, VersionFacts, PathsFinite, BoundFacts
  <1>2. \A p \in Paths : p \in present => disk[p] \in Contents
    BY <1>1 DEF Contents
  <1>3. disk \in [Paths -> Contents \cup {Absent}]
    BY <1>1 DEF Contents
  <1>4. 1 \in Generations
    BY BoundFacts DEF Generations
  <1>5. \A p \in Paths : p \in present => Row(disk[p], 1) \in RowType
    BY <1>2, <1>4, NewRowTypes
  <1>6. rows \in [Paths -> RowType \cup {Absent}]
    BY <1>5
  <1>7. \A r \in Roots : roots[r] \in RootType \cup {Absent} /\ (chosen => roots[r] # Absent)
    BY <1>4, AbsentFacts DEF RootType
  <1>8. IndexOK
    BY <1>6, <1>7 DEF IndexOK, Registered
  <1>9. Cardinality(Paths) \in Versions
    BY PathsFinite, VersionFacts, BoundFacts
  <1>10. DiskOK
    BY <1>3, <1>9, PathsFinite DEF Init, DiskOK
  <1>11. ScansOK
    BY IdleFacts DEF Init, ScansOK
  <1>12. OpOK
    BY NoOpFacts DEF Init, OpOK
  <1>13. CountsOK
    BY BoundFacts DEF Init, CountsOK
  <1> QED BY <1>8, <1>10, <1>11, <1>12, <1>13 DEF TypeInv

LEMMA NextTypes ==
  ASSUME TypeInv, [Next]_vars
  PROVE  TypeInv'
  <1>1. CASE \E s \in Scanners : Scan(s)
    BY <1>1, ScanTypesHold
  <1>2. CASE Program
    BY <1>2, PublishTypes, CommitDependentsTypes, RollBackTypes, RemoveSourceTypes DEF Program
  <1>3. CASE World
    BY <1>3, RewriteTypes, DeleteTypes, RemountTypes, FolderTypes DEF World
  <1>4. CASE UNCHANGED vars
    BY <1>4 DEF vars, TypeInv, ScansOK, DiskOK, IndexOK, OpOK, CountsOK, Registered
  <1> QED BY <1>1, <1>2, <1>3, <1>4 DEF Next

\* Every reachable state of the library is well typed: rows belong to folders
\* that are in the library, a scan is at a place of its folder, no version of
\* a file is given out twice, for every instance.
THEOREM LibraryTypeCorrect == Spec => []TypeOK
  <1>1. Init => TypeInv
    BY InitTypes
  <1>2. TypeInv /\ [Next]_vars => TypeInv'
    BY NextTypes
  <1>3. TypeInv => TypeOK
    BY TypesHold
  <1> QED BY <1>1, <1>2, <1>3, PTL DEF Spec

(***************************************************************************)
(* What each action of a scan does to its local variables, field by field.  *)
(***************************************************************************)
SameTurn(c, d) ==
  /\ d.gen = c.gen /\ d.todo = c.todo /\ d.root = c.root
  /\ d.incomplete = c.incomplete /\ d.cancel = c.cancel
SameWork(c, d) == d.requests = c.requests /\ d.results = c.results
OthersStay(s) == \A t \in Scanners : t # s => scan'[t] = scan[t]

\* Behind, GiveUp and Partial, seen from the fields.
GoesOn(c, d) ==
  /\ SameTurn(c, d) /\ d.pc = "walk" /\ d.next = c.next + 1
  /\ d.lost = c.lost /\ (d.complete = c.complete \/ d.complete = FALSE)
GivesUp(c, d) ==
  /\ SameTurn(c, d) /\ d.pc = "drain" /\ d.complete = FALSE

LEMMA GoEffect ==
  ASSUME TypeInv, NEW s \in Scanners, NEW c, Go(s, c)
  PROVE  scan'[s] = c /\ OthersStay(s)
  BY GoFacts DEF TypeInv, ScansOK, OthersStay

LEMMA BehindEffect ==
  ASSUME NEW c \in ScanType, c.next <= MaxPlaces
  PROVE  /\ GoesOn(c, Behind(c)) /\ SameWork(c, Behind(c)) /\ Behind(c).complete = c.complete
         /\ GoesOn(c, Partial(Behind(c))) /\ SameWork(c, Partial(Behind(c)))
         /\ Partial(Behind(c)).complete = FALSE
  <1> DEFINE b == Behind(c)
  <1>1. /\ b \in ScanType /\ b.pc = "walk" /\ b.next = c.next + 1
        /\ b.gen = c.gen /\ b.todo = c.todo /\ b.root = c.root
        /\ b.requests = c.requests /\ b.results = c.results
        /\ b.complete = c.complete /\ b.lost = c.lost
        /\ b.incomplete = c.incomplete /\ b.cancel = c.cancel
    BY BehindFacts
  <1> HIDE DEF b
  <1> DEFINE d == Partial(b)
  <1>2. /\ d.pc = b.pc /\ d.next = b.next
        /\ d.gen = b.gen /\ d.todo = b.todo /\ d.root = b.root
        /\ d.requests = b.requests /\ d.results = b.results
        /\ d.complete = FALSE /\ d.lost = b.lost
        /\ d.incomplete = b.incomplete /\ d.cancel = b.cancel
    BY <1>1, PartialFacts
  <1> HIDE DEF d
  <1>3. GoesOn(c, b) /\ SameWork(c, b) /\ b.complete = c.complete
    BY <1>1 DEF GoesOn, SameTurn, SameWork
  <1>4. GoesOn(c, d) /\ SameWork(c, d) /\ d.complete = FALSE
    BY <1>1, <1>2 DEF GoesOn, SameTurn, SameWork
  <1> QED BY <1>3, <1>4 DEF b, d

LEMMA GiveUpEffect ==
  ASSUME NEW c \in ScanType
  PROVE  GivesUp(c, GiveUp(c)) /\ SameWork(c, GiveUp(c))
  <1> DEFINE b == GiveUp(c)
  <1>1. /\ b.pc = "drain" /\ b.complete = FALSE
        /\ b.gen = c.gen /\ b.todo = c.todo /\ b.root = c.root
        /\ b.requests = c.requests /\ b.results = c.results
        /\ b.incomplete = c.incomplete /\ b.cancel = c.cancel
    BY GiveUpFacts
  <1> HIDE DEF b
  <1>2. GivesUp(c, b) /\ SameWork(c, b)
    BY <1>1 DEF GivesUp, SameTurn, SameWork
  <1> QED BY <1>2 DEF b

LEMMA VisitEffect ==
  ASSUME TypeInv, NEW s \in Scanners, Visit(s)
  PROVE  /\ OthersStay(s) /\ SameWork(scan[s], scan'[s]) /\ scan[s].pc = "walk"
         /\ Place(s) \in Paths /\ Root(Place(s)) = scan[s].root /\ Place(s)[2] = scan[s].next
         /\ \/ GivesUp(scan[s], scan'[s])
            \/ GoesOn(scan[s], scan'[s]) /\ Seen(Place(s)) = Absent
            \/ GoesOn(scan[s], scan'[s]) /\ scan'[s].complete = FALSE
            \/ /\ SameTurn(scan[s], scan'[s]) /\ scan'[s].next = scan[s].next
               /\ scan'[s].lost = scan[s].lost /\ scan'[s].complete = scan[s].complete
               /\ scan'[s].held = Seen(Place(s)) /\ Seen(Place(s)) # Absent
               /\ \/ scan'[s].pc = "touch" /\ Unchanged(Place(s), Seen(Place(s)))
                  \/ scan'[s].pc = "submit"
  <1> DEFINE p == Place(s)
             a == [scan[s] EXCEPT !.pc = IF Unchanged(p, Seen(p)) THEN "touch" ELSE "submit",
                                  !.held = Seen(p)]
  <1>1. scan[s] \in ScanType /\ scan[s].next <= MaxPlaces /\ scan[s].pc = "walk"
    BY LocalFacts DEF Visit
  <1>2. p \in Paths /\ Root(p) = scan[s].root /\ p[2] = scan[s].next
    BY <1>1, AtPlace
  <1> HIDE DEF p
  <1>3. CASE Go(s, GiveUp(scan[s]))
    BY <1>1, <1>2, <1>3, GoEffect, GiveUpEffect DEF p
  <1>4. CASE Go(s, Behind(scan[s])) /\ Seen(p) = Absent
    BY <1>1, <1>2, <1>4, GoEffect, BehindEffect DEF p
  <1>5. CASE Go(s, Partial(Behind(scan[s])))
    <2>1. OthersStay(s) /\ scan'[s] = Partial(Behind(scan[s]))
      BY <1>5, GoEffect
    <2>2. /\ GoesOn(scan[s], scan'[s]) /\ SameWork(scan[s], scan'[s])
          /\ scan'[s].complete = FALSE
      BY <1>1, <2>1, BehindEffect
    <2> QED BY <1>1, <1>2, <2>1, <2>2 DEF p
  <1>6. CASE Go(s, a) /\ Seen(p) # Absent
    <2>1. scan'[s] = a /\ OthersStay(s)
      BY <1>6, GoEffect
    <2>2. /\ SameWork(scan[s], a) /\ SameTurn(scan[s], a) /\ a.next = scan[s].next
          /\ a.lost = scan[s].lost /\ a.complete = scan[s].complete /\ a.held = Seen(p)
          /\ a.pc = IF Unchanged(p, Seen(p)) THEN "touch" ELSE "submit"
      BY <1>1 DEF ScanType, SameWork, SameTurn
    <2> HIDE DEF a
    <2> QED BY <1>1, <1>2, <1>6, <2>1, <2>2 DEF p
  <1>7. \/ Go(s, GiveUp(scan[s]))
        \/ Go(s, Behind(scan[s])) /\ Seen(p) = Absent
        \/ Go(s, Partial(Behind(scan[s])))
        \/ Go(s, a) /\ Seen(p) # Absent
    BY DEF Visit, p
  <1> QED BY <1>3, <1>4, <1>5, <1>6, <1>7

LEMMA TouchEffect ==
  ASSUME TypeInv, NEW s \in Scanners, Touch(s)
  PROVE  /\ OthersStay(s) /\ SameWork(scan[s], scan'[s]) /\ scan[s].pc = "touch"
         /\ Place(s) \in Paths /\ Root(Place(s)) = scan[s].root /\ Place(s)[2] = scan[s].next
         /\ \/ /\ GoesOn(scan[s], scan'[s]) /\ scan'[s].complete = FALSE /\ rows' = rows
            \/ GivesUp(scan[s], scan'[s]) /\ rows' = rows
            \/ /\ GoesOn(scan[s], scan'[s]) /\ Seen(Place(s)) = scan[s].held /\ Owns(s)
               /\ rows[Place(s)] # Absent /\ rows[Place(s)].rev = scan[s].held.rev
               /\ rows' = [rows EXCEPT ![Place(s)] = [rows[Place(s)] EXCEPT
                                          !.available = TRUE, !.seen = scan[s].gen]]
            \/ /\ GoesOn(scan[s], scan'[s]) /\ Seen(Place(s)) = scan[s].held
               /\ ~(rows[Place(s)] # Absent /\ rows[Place(s)].rev = scan[s].held.rev)
               /\ rows' = rows
  <1> DEFINE p == Place(s)
  <1>1. scan[s] \in ScanType /\ scan[s].next <= MaxPlaces /\ scan[s].pc = "touch"
    BY LocalFacts DEF Touch, Placed
  <1>2. p \in Paths /\ Root(p) = scan[s].root /\ p[2] = scan[s].next
    BY <1>1, AtPlace
  <1>3. \/ Go(s, Partial(Behind(scan[s]))) /\ rows' = rows
        \/ Go(s, GiveUp(scan[s])) /\ rows' = rows
        \/ /\ Go(s, Behind(scan[s])) /\ Seen(p) = scan[s].held /\ Owns(s)
           /\ rows' = IF rows[p] # Absent /\ rows[p].rev = scan[s].held.rev
                      THEN [rows EXCEPT ![p] = [rows[p] EXCEPT !.available = TRUE, !.seen = scan[s].gen]]
                      ELSE rows
    BY DEF Touch
  <1> HIDE DEF p
  <1>4. CASE Go(s, Partial(Behind(scan[s]))) /\ rows' = rows
    BY ZenonT(60), <1>1, <1>2, <1>4, GoEffect, BehindEffect DEF p
  <1>5. CASE Go(s, GiveUp(scan[s])) /\ rows' = rows
    BY <1>1, <1>2, <1>5, GoEffect, GiveUpEffect DEF p
  <1>6. CASE /\ Go(s, Behind(scan[s])) /\ Seen(p) = scan[s].held /\ Owns(s)
             /\ rows' = IF rows[p] # Absent /\ rows[p].rev = scan[s].held.rev
                        THEN [rows EXCEPT ![p] = [rows[p] EXCEPT !.available = TRUE, !.seen = scan[s].gen]]
                        ELSE rows
    <2>1. /\ OthersStay(s) /\ SameWork(scan[s], scan'[s]) /\ GoesOn(scan[s], scan'[s])
      BY <1>1, <1>6, GoEffect, BehindEffect
    <2> QED BY <1>1, <1>2, <1>6, <2>1 DEF p
  <1> QED BY <1>3, <1>4, <1>5, <1>6

LEMMA SubmitEffect ==
  ASSUME TypeInv, NEW s \in Scanners, Submit(s)
  PROVE  /\ OthersStay(s) /\ scan[s].pc = "submit"
         /\ Place(s) \in Paths /\ Root(Place(s)) = scan[s].root /\ Place(s)[2] = scan[s].next
         /\ scan[s].held \in Contents /\ scan'[s].results = scan[s].results
         /\ \/ GivesUp(scan[s], scan'[s]) /\ scan'[s].requests = scan[s].requests
            \/ /\ GoesOn(scan[s], scan'[s]) /\ scan'[s].complete = scan[s].complete
               /\ scan'[s].requests = scan[s].requests
                    \cup {[path |-> Place(s), before |-> scan[s].held]}
  <1>1. /\ scan[s] \in ScanType /\ scan[s].next <= MaxPlaces /\ scan[s].pc = "submit"
        /\ scan[s].held \in Contents
    BY LocalFacts DEF Submit, Placed
  <1>2. Place(s) \in Paths /\ Root(Place(s)) = scan[s].root /\ Place(s)[2] = scan[s].next
    BY <1>1, AtPlace
  <1>3. CASE Go(s, GiveUp(scan[s]))
    BY <1>1, <1>2, <1>3, GoEffect, GiveUpEffect DEF SameWork
  <1>4. CASE Go(s, Behind(Asked(s)))
    <2> DEFINE a == Asked(s)
    <2>1. /\ a \in ScanType /\ a.next <= MaxPlaces /\ a.pc = "submit" /\ a.next = scan[s].next
          /\ a.gen = scan[s].gen /\ a.todo = scan[s].todo /\ a.root = scan[s].root
          /\ a.requests = scan[s].requests \cup {[path |-> Place(s), before |-> scan[s].held]}
          /\ a.results = scan[s].results /\ a.complete = scan[s].complete /\ a.lost = scan[s].lost
          /\ a.incomplete = scan[s].incomplete /\ a.cancel = scan[s].cancel
      BY <1>1, AskedFacts
    <2> HIDE DEF a
    <2>2. GoesOn(a, Behind(a)) /\ SameWork(a, Behind(a)) /\ Behind(a).complete = a.complete
      BY <2>1, BehindEffect
    <2>3. scan'[s] = Behind(a) /\ OthersStay(s)
      BY <1>4, GoEffect DEF a
    <2>4. GoesOn(scan[s], scan'[s])
      BY <2>1, <2>2, <2>3 DEF GoesOn, SameTurn
    <2> QED BY <1>1, <1>2, <2>1, <2>2, <2>3, <2>4 DEF SameWork
  <1> QED BY <1>3, <1>4 DEF Submit

LEMMA PrepareEffect ==
  ASSUME TypeInv, NEW s \in Scanners, Prepare(s)
  PROVE  /\ OthersStay(s) /\ SameTurn(scan[s], scan'[s])
         /\ scan'[s].pc = scan[s].pc /\ scan'[s].held = scan[s].held
         /\ scan'[s].next = scan[s].next
         /\ scan'[s].complete = scan[s].complete /\ scan'[s].lost = scan[s].lost
         /\ \E q \in scan[s].requests, f \in Answer :
              /\ f.path = q.path /\ f.before = q.before
              /\ f.tags # Absent => Seen(f.path) # Absent /\ f.tags = Seen(f.path).tags
              /\ scan'[s].requests = scan[s].requests \ {q}
              /\ scan'[s].results = scan[s].results \cup {f}
  <1> PICK q \in scan[s].requests, tags \in Versions \cup {Absent} :
         /\ \/ tags # Absent /\ Seen(q.path) # Absent /\ tags = Seen(q.path).tags /\ Smooth
            \/ tags = Absent /\ (Seen(q.path) = Absent \/ scan[s].cancel) /\ Smooth
            \/ tags = Absent /\ Seen(q.path) # Absent /\ ~scan[s].cancel /\ Fault
         /\ Go(s, [scan[s] EXCEPT !.requests = @ \ {q},
                !.results = @ \cup {[path |-> q.path, before |-> q.before, tags |-> tags]}])
    BY DEF Prepare
  <1> DEFINE f == [path |-> q.path, before |-> q.before, tags |-> tags]
             c == [scan[s] EXCEPT !.requests = @ \ {q}, !.results = @ \cup {f}]
  <1>1. scan[s] \in ScanType /\ q \in Request
    BY LocalFacts, ScanTypes
  <1>2. f \in Answer
    BY <1>1 DEF Request, Answer
  <1>3. /\ f.path = q.path /\ f.before = q.before
        /\ f.tags # Absent => Seen(f.path) # Absent /\ f.tags = Seen(f.path).tags
    OBVIOUS
  <1> HIDE DEF f
  <1>4. scan'[s] = c /\ OthersStay(s)
    BY GoEffect DEF f
  <1>5. /\ SameTurn(scan[s], c) /\ c.pc = scan[s].pc /\ c.held = scan[s].held
        /\ c.next = scan[s].next /\ c.complete = scan[s].complete /\ c.lost = scan[s].lost
        /\ c.requests = scan[s].requests \ {q} /\ c.results = scan[s].results \cup {f}
    BY <1>1 DEF ScanType, SameTurn
  <1> HIDE DEF c
  <1> QED BY <1>2, <1>3, <1>4, <1>5

LEMMA CommitEffect ==
  ASSUME TypeInv, NEW s \in Scanners, CommitPrepared(s)
  PROVE  /\ OthersStay(s) /\ SameTurn(scan[s], scan'[s]) /\ scan[s].pc \in {"walk", "drain"}
         /\ scan'[s].requests = scan[s].requests /\ scan'[s].lost \in BOOLEAN
         /\ \E f \in scan[s].results :
              /\ scan'[s].results = scan[s].results \ {f}
              /\ f \in Answer /\ Root(f.path) = scan[s].root
              /\ \/ /\ scan[s].lost /\ rows' = rows /\ scan'[s].pc = scan[s].pc
                    /\ scan'[s].next = scan[s].next /\ scan'[s].complete = FALSE
                 \/ /\ f.tags = Absent /\ scan'[s].complete = FALSE
                    /\ scan'[s].pc = scan[s].pc /\ scan'[s].next = scan[s].next
                    /\ rows' = IF rows[f.path] = Absent THEN rows
                               ELSE [rows EXCEPT ![f.path] = [rows[f.path] EXCEPT !.complete = FALSE]]
                 \/ /\ f.tags # Absent /\ scan'[s].complete = FALSE /\ rows' = rows
                    /\ \/ scan'[s].pc = scan[s].pc /\ scan'[s].next = scan[s].next
                       \/ GivesUp(scan[s], scan'[s])
                 \/ /\ f.tags # Absent /\ Current(f) /\ Owns(s)
                    /\ scan'[s].pc = scan[s].pc /\ scan'[s].next = scan[s].next
                    /\ scan'[s].complete = scan[s].complete
                    /\ rows' = [rows EXCEPT ![f.path] =
                                  Row([rev |-> f.before.rev, tags |-> f.tags], scan[s].gen)]
  <1> PICK f \in scan[s].results :
         LET Taken == [scan[s] EXCEPT !.results = @ \ {f}] IN
         \/ /\ scan[s].lost
            /\ Go(s, Taken) /\ UNCHANGED rows
         \/ /\ ~scan[s].lost /\ f.tags = Absent
            /\ Go(s, Partial(Taken))
            /\ rows' = IF rows[f.path] = Absent THEN rows
                       ELSE [rows EXCEPT ![f.path].complete = FALSE]
         \/ /\ ~scan[s].lost /\ f.tags # Absent /\ ~Current(f)
            /\ Go(s, Partial(Taken))
            /\ UNCHANGED rows
         \/ /\ ~scan[s].lost /\ f.tags # Absent /\ Current(f) /\ ~Owns(s)
            /\ Go(s, GiveUp([Taken EXCEPT !.lost = TRUE]))
            /\ UNCHANGED rows
         \/ /\ ~scan[s].lost /\ f.tags # Absent /\ Current(f) /\ Owns(s)
            /\ Go(s, Taken)
            /\ rows' = [rows EXCEPT ![f.path] =
                           Row([rev |-> f.before.rev, tags |-> f.tags], scan[s].gen)]
    BY DEF CommitPrepared
  <1> DEFINE d == [scan[s] EXCEPT !.results = @ \ {f}]
             e == [d EXCEPT !.lost = TRUE]
             w == Row([rev |-> f.before.rev, tags |-> f.tags], scan[s].gen)
  <1>1. /\ scan[s] \in ScanType /\ Placed(scan[s]) /\ scan[s].pc \in {"walk", "drain"}
        /\ scan[s].lost \in BOOLEAN /\ (scan[s].lost => ~scan[s].complete)
        /\ scan[s].complete \in BOOLEAN
    BY LocalFacts, ScanTypes DEF CommitPrepared, Placed
  <1>2. f \in Answer /\ Root(f.path) = scan[s].root
    BY <1>1, ScanTypes DEF Placed
  <1>3. /\ d \in ScanType /\ SameTurn(scan[s], d) /\ d.pc = scan[s].pc /\ d.next = scan[s].next
        /\ d.requests = scan[s].requests /\ d.results = scan[s].results \ {f}
        /\ d.complete = scan[s].complete /\ d.lost = scan[s].lost
    BY <1>1, TakenFacts DEF SameTurn
  <1> HIDE DEF d
  <1>4. /\ e \in ScanType /\ SameTurn(d, e)
        /\ e.requests = d.requests /\ e.results = d.results
    BY <1>3 DEF ScanType, SameTurn
  <1> HIDE DEF e, w
  <1> DEFINE P == Partial(d)
             G == GiveUp(e)
  <1>5. /\ P \in ScanType /\ SameTurn(d, P) /\ P.pc = d.pc /\ P.next = d.next
        /\ P.requests = d.requests /\ P.results = d.results
        /\ P.complete = FALSE /\ P.lost = d.lost
    BY <1>3, PartialFacts DEF SameTurn
  <1>6. G \in ScanType /\ GivesUp(e, G) /\ SameWork(e, G) /\ G.complete = FALSE
    BY <1>4, GiveUpFacts, GiveUpEffect
  <1>7. G.lost \in BOOLEAN
    BY <1>6, ScanTypes
  <1>8. \/ /\ scan[s].lost /\ Go(s, d) /\ rows' = rows
        \/ /\ f.tags = Absent /\ Go(s, P)
           /\ rows' = IF rows[f.path] = Absent THEN rows
                      ELSE [rows EXCEPT ![f.path].complete = FALSE]
        \/ /\ f.tags # Absent /\ Go(s, P) /\ rows' = rows
        \/ /\ f.tags # Absent /\ Go(s, G) /\ rows' = rows
        \/ /\ f.tags # Absent /\ Current(f) /\ Owns(s) /\ Go(s, d)
           /\ rows' = [rows EXCEPT ![f.path] = w]
    BY DEF d, e, w
  <1> HIDE DEF P, G
  <1> SUFFICES
         /\ OthersStay(s) /\ SameTurn(scan[s], scan'[s]) /\ scan'[s].lost \in BOOLEAN
         /\ scan'[s].requests = scan[s].requests /\ scan'[s].results = scan[s].results \ {f}
         /\ \/ /\ scan[s].lost /\ rows' = rows /\ scan'[s].pc = scan[s].pc
               /\ scan'[s].next = scan[s].next /\ scan'[s].complete = FALSE
            \/ /\ f.tags = Absent /\ scan'[s].complete = FALSE
               /\ scan'[s].pc = scan[s].pc /\ scan'[s].next = scan[s].next
               /\ rows' = IF rows[f.path] = Absent THEN rows
                          ELSE [rows EXCEPT ![f.path] = [rows[f.path] EXCEPT !.complete = FALSE]]
            \/ /\ f.tags # Absent /\ scan'[s].complete = FALSE /\ rows' = rows
               /\ \/ scan'[s].pc = scan[s].pc /\ scan'[s].next = scan[s].next
                  \/ GivesUp(scan[s], scan'[s])
            \/ /\ f.tags # Absent /\ Current(f) /\ Owns(s)
               /\ scan'[s].pc = scan[s].pc /\ scan'[s].next = scan[s].next
               /\ scan'[s].complete = scan[s].complete
               /\ rows' = [rows EXCEPT ![f.path] = w]
    BY <1>1, <1>2 DEF w
  <1>9. CASE scan[s].lost /\ Go(s, d) /\ rows' = rows
    <2>1. scan'[s] = d /\ OthersStay(s)
      BY <1>9, GoEffect
    <2> QED BY <1>1, <1>3, <1>9, <2>1
  <1>10. CASE /\ f.tags = Absent /\ Go(s, P)
              /\ rows' = IF rows[f.path] = Absent THEN rows
                         ELSE [rows EXCEPT ![f.path].complete = FALSE]
    <2>1. scan'[s] = P /\ OthersStay(s)
      BY <1>10, GoEffect
    <2>2. SameTurn(scan[s], P)
      BY <1>3, <1>5 DEF SameTurn
    <2>3. rows' = IF rows[f.path] = Absent THEN rows
                  ELSE [rows EXCEPT ![f.path] = [rows[f.path] EXCEPT !.complete = FALSE]]
      BY <1>10
    <2> QED BY <1>1, <1>3, <1>5, <1>10, <2>1, <2>2, <2>3
  <1>11. CASE f.tags # Absent /\ Go(s, P) /\ rows' = rows
    <2>1. scan'[s] = P /\ OthersStay(s)
      BY <1>11, GoEffect
    <2>2. SameTurn(scan[s], P)
      BY <1>3, <1>5 DEF SameTurn
    <2> QED BY <1>1, <1>3, <1>5, <1>11, <2>1, <2>2
  <1>12. CASE f.tags # Absent /\ Go(s, G) /\ rows' = rows
    <2>1. scan'[s] = G /\ OthersStay(s)
      BY <1>12, GoEffect
    <2>2. GivesUp(scan[s], G) /\ SameTurn(scan[s], G)
      BY <1>3, <1>4, <1>6 DEF SameTurn, GivesUp
    <2>3. G.requests = scan[s].requests /\ G.results = scan[s].results \ {f}
      BY <1>3, <1>4, <1>6 DEF SameWork
    <2> QED BY <1>6, <1>7, <1>12, <2>1, <2>2, <2>3
  <1>13. CASE /\ f.tags # Absent /\ Current(f) /\ Owns(s) /\ Go(s, d)
              /\ rows' = [rows EXCEPT ![f.path] = w]
    <2>1. scan'[s] = d /\ OthersStay(s)
      BY <1>13, GoEffect
    <2> QED BY <1>1, <1>3, <1>13, <2>1
  <1> QED BY <1>8, <1>9, <1>10, <1>11, <1>12, <1>13

LEMMA StartEffect ==
  ASSUME TypeInv, NEW s \in Scanners, StartScan(s)
  PROVE  /\ OthersStay(s) /\ scan'[s].pc = "roots" /\ scan'[s].gen = scans + 1
         /\ scan'[s].todo = {r \in Roots : Registered(r)}
         /\ scan'[s].requests = {} /\ scan'[s].results = {}
         /\ scan'[s].incomplete = FALSE /\ scan[s].pc = "idle"
  <1> DEFINE c == [Idle EXCEPT !.pc = "roots", !.gen = scans + 1,
                               !.todo = {r \in Roots : Registered(r)}]
  <1>1. scan'[s] = c /\ OthersStay(s) /\ scan[s].pc = "idle"
    BY GoEffect DEF StartScan
  <1>2. /\ c.pc = "roots" /\ c.gen = scans + 1 /\ c.todo = {r \in Roots : Registered(r)}
        /\ c.requests = {} /\ c.results = {} /\ c.incomplete = FALSE
    BY DEF Idle
  <1> HIDE DEF c
  <1> QED BY <1>1, <1>2

LEMMA StopEffect ==
  ASSUME TypeInv, NEW s \in Scanners, Stop(s)
  PROVE  /\ OthersStay(s) /\ SameWork(scan[s], scan'[s]) /\ scan'[s].gen = scan[s].gen
         /\ scan'[s].todo = scan[s].todo /\ scan'[s].root = scan[s].root
         /\ scan'[s].incomplete = scan[s].incomplete /\ scan'[s].pc = scan[s].pc
         /\ scan'[s].next = scan[s].next /\ scan'[s].held = scan[s].held
         /\ scan'[s].complete = scan[s].complete /\ scan'[s].lost = scan[s].lost
         /\ scan[s].pc # "idle"
  BY GoEffect, LocalFacts DEF Stop, ScanType, SameWork

LEMMA OfflineEffect ==
  ASSUME TypeInv, NEW s \in Scanners, FolderOffline(s)
  PROVE  /\ OthersStay(s) /\ SameWork(scan[s], scan'[s]) /\ scan'[s].gen = scan[s].gen
         /\ scan[s].pc = "roots" /\ scan'[s].pc = "roots" /\ scan'[s].root = scan[s].root
         /\ scan'[s].incomplete = scan[s].incomplete /\ scan'[s].held = scan[s].held
         /\ \E r \in scan[s].todo :
              /\ r \in Roots /\ mount[r] = "gone" /\ TakenOver(s, r)
              /\ scan'[s].todo = scan[s].todo \ {r}
              /\ roots' = IF Registered(r)
                     THEN [roots EXCEPT ![r] = [token |-> scan[s].gen, state |-> "offline"]]
                     ELSE roots
              /\ rows' = [p \in Paths |-> IF p \in RowsOf(r)
                        THEN [rows[p] EXCEPT !.available = FALSE] ELSE rows[p]]
  <1> PICK r \in scan[s].todo :
         /\ mount[r] = "gone"
         /\ roots' = IF Registered(r)
                     THEN [roots EXCEPT ![r] = [token |-> scan[s].gen, state |-> "offline"]]
                     ELSE roots
         /\ rows' = [p \in Paths |-> IF p \in RowsOf(r)
                        THEN [rows[p] EXCEPT !.available = FALSE] ELSE rows[p]]
         /\ Go(s, [scan[s] EXCEPT !.todo = @ \ {r}])
         /\ TakenOver(s, r)
    BY DEF FolderOffline
  <1> DEFINE c == [scan[s] EXCEPT !.todo = @ \ {r}]
  <1>1. scan[s] \in ScanType /\ r \in Roots /\ scan[s].pc = "roots"
    BY LocalFacts, ScanTypes DEF FolderOffline
  <1>2. scan'[s] = c /\ OthersStay(s)
    BY GoEffect
  <1>3. /\ SameWork(scan[s], c) /\ c.gen = scan[s].gen /\ c.pc = scan[s].pc
        /\ c.root = scan[s].root /\ c.incomplete = scan[s].incomplete
        /\ c.todo = scan[s].todo \ {r} /\ c.held = scan[s].held
    BY <1>1 DEF ScanType, SameWork
  <1> HIDE DEF c
  <1> QED BY <1>1, <1>2, <1>3

LEMMA OpenEffect ==
  ASSUME TypeInv, NEW s \in Scanners, OpenFolder(s)
  PROVE  /\ OthersStay(s) /\ SameWork(scan[s], scan'[s]) /\ scan'[s].gen = scan[s].gen
         /\ scan[s].pc = "roots" /\ scan'[s].pc = "walk" /\ scan'[s].next = 1
         /\ scan'[s].incomplete = scan[s].incomplete /\ scan'[s].complete = TRUE
         /\ \E r \in scan[s].todo :
              /\ r \in Roots /\ TakenOver(s, r) /\ scan'[s].root = r
              /\ scan'[s].todo = scan[s].todo \ {r}
              /\ \A q \in Roots : roots'[q] = IF q = r /\ Registered(r)
                     THEN [roots[r] EXCEPT !.token = scan[s].gen] ELSE roots[q]
  <1> PICK r \in scan[s].todo :
         /\ roots' = IF Registered(r)
                     THEN [roots EXCEPT ![r].token = scan[s].gen] ELSE roots
         /\ Go(s, [scan[s] EXCEPT !.pc = "walk", !.root = r, !.todo = @ \ {r}, !.next = 1,
                                  !.complete = TRUE, !.lost = FALSE])
         /\ TakenOver(s, r)
    BY DEF OpenFolder
  <1> DEFINE c == [scan[s] EXCEPT !.pc = "walk", !.root = r, !.todo = @ \ {r}, !.next = 1,
                                  !.complete = TRUE, !.lost = FALSE]
  <1>1. scan[s] \in ScanType /\ r \in Roots /\ scan[s].pc = "roots"
    BY LocalFacts, ScanTypes DEF OpenFolder
  <1>2. scan'[s] = c /\ OthersStay(s)
    BY GoEffect
  <1>3. /\ SameWork(scan[s], c) /\ c.gen = scan[s].gen /\ c.pc = "walk" /\ c.next = 1
        /\ c.root = r /\ c.incomplete = scan[s].incomplete /\ c.complete = TRUE
        /\ c.todo = scan[s].todo \ {r}
    BY <1>1 DEF ScanType, SameWork
  <1> HIDE DEF c
  <1>4. \A q \in Roots : roots'[q] = IF q = r /\ Registered(r)
                     THEN [roots[r] EXCEPT !.token = scan[s].gen] ELSE roots[q]
    BY <1>1 DEF TypeInv, IndexOK
  <1> QED BY <1>1, <1>2, <1>3, <1>4

LEMMA WalkFailsEffect ==
  ASSUME TypeInv, NEW s \in Scanners, WalkFails(s)
  PROVE  /\ OthersStay(s) /\ SameWork(scan[s], scan'[s]) /\ scan[s].pc = "walk"
         /\ GivesUp(scan[s], scan'[s])
  BY LocalFacts, GoEffect, GiveUpEffect DEF WalkFails

LEMMA EndWalkEffect ==
  ASSUME TypeInv, NEW s \in Scanners, EndWalk(s)
  PROVE  /\ OthersStay(s) /\ SameWork(scan[s], scan'[s]) /\ SameTurn(scan[s], scan'[s])
         /\ scan[s].pc = "walk" /\ scan[s].next > MaxPlaces /\ scan'[s].pc = "drain"
         /\ scan'[s].complete = scan[s].complete /\ scan'[s].lost = scan[s].lost
  <1>1. scan[s] \in ScanType /\ scan'[s] = [scan[s] EXCEPT !.pc = "drain"] /\ OthersStay(s)
    BY LocalFacts, GoEffect DEF EndWalk
  <1> QED BY <1>1 DEF EndWalk, ScanType, SameTurn, SameWork

LEMMA EndFolderEffect ==
  ASSUME TypeInv, NEW s \in Scanners, EndFolder(s)
  PROVE  /\ OthersStay(s) /\ scan[s].pc = "drain" /\ scan[s].results = {}
         /\ scan'[s].pc \in {"prune", "roots"} /\ scan'[s].gen = scan[s].gen
         /\ scan'[s].root = scan[s].root /\ scan'[s].todo = scan[s].todo
         /\ scan'[s].requests = {} /\ scan'[s].results = {}
         /\ scan[s].incomplete => scan'[s].incomplete
         /\ ~scan'[s].incomplete => scan[s].complete /\ ~scan[s].cancel /\ scan[s].requests = {}
         /\ rows' = [p \in Paths |->
                       IF scan[s].complete /\ ~scan[s].cancel /\ Owns(s)
                          /\ p \in RowsOf(scan[s].root) /\ rows[p].seen # scan[s].gen
                       THEN [rows[p] EXCEPT !.available = FALSE] ELSE rows[p]]
         /\ \A r \in Roots : /\ roots'[r] = Absent <=> roots[r] = Absent
                             /\ roots[r] # Absent => roots'[r].token = roots[r].token
  <1> DEFINE complete == scan[s].complete /\ ~scan[s].cancel
             i == scan[s].incomplete \/ ~complete
             c == [scan[s] EXCEPT !.pc = IF complete THEN "prune" ELSE "roots", !.next = 1,
                                  !.requests = {}, !.incomplete = i]
  <1>1. /\ scan[s] \in ScanType /\ scan[s].pc = "drain" /\ scan[s].results = {}
        /\ scan[s].requests = {} \/ scan[s].cancel
    BY LocalFacts DEF EndFolder
  <1>2. scan'[s] = c /\ OthersStay(s)
    BY GoEffect DEF EndFolder
  <1>3. /\ roots' = IF ~Owns(s) THEN roots
                    ELSE [roots EXCEPT ![scan[s].root].state =
                             IF complete THEN "scanned" ELSE "partial"]
        /\ rows' = [p \in Paths |->
                      IF complete /\ Owns(s) /\ p \in RowsOf(scan[s].root)
                         /\ rows[p].seen # scan[s].gen
                      THEN [rows[p] EXCEPT !.available = FALSE] ELSE rows[p]]
    BY DEF EndFolder
  <1>4. \A r \in Roots : /\ roots'[r] = Absent <=> roots[r] = Absent
                         /\ roots[r] # Absent => roots'[r].token = roots[r].token
    <2> DEFINE x == [roots[scan[s].root] EXCEPT !.state = IF complete THEN "scanned" ELSE "partial"]
    <2>1. CASE ~Owns(s)
      BY <1>3, <2>1
    <2>2. CASE Owns(s)
      <3>1. scan[s].root \in Roots /\ roots[scan[s].root] \in RootType
        BY <2>2 DEF Owns, Registered, TypeInv, IndexOK
      <3>2. x \in RootType /\ x.token = roots[scan[s].root].token
        BY <3>1 DEF RootType
      <3>3. roots' = [roots EXCEPT ![scan[s].root] = x]
        BY <1>3, <2>2
      <3> HIDE DEF x
      <3> QED BY <3>1, <3>2, <3>3, AbsentFacts DEF TypeInv, IndexOK
    <2> QED BY <2>1, <2>2
  <1>5. /\ c.gen = scan[s].gen /\ c.root = scan[s].root /\ c.todo = scan[s].todo
        /\ c.requests = {} /\ c.results = scan[s].results /\ c.incomplete = i
        /\ c.pc \in {"prune", "roots"}
    <2> HIDE DEF i, complete
    <2> QED BY <1>1 DEF ScanType
  <1> HIDE DEF c
  <1>6. (scan[s].incomplete => i) /\ (~i => complete)
    BY DEF i
  <1>7. rows' = [p \in Paths |->
                       IF scan[s].complete /\ ~scan[s].cancel /\ Owns(s)
                          /\ p \in RowsOf(scan[s].root) /\ rows[p].seen # scan[s].gen
                       THEN [rows[p] EXCEPT !.available = FALSE] ELSE rows[p]]
    BY <1>3
  <1>8. complete => scan[s].complete /\ ~scan[s].cancel /\ scan[s].requests = {}
    BY <1>1
  <1> HIDE DEF i, complete
  <1> QED BY <1>1, <1>2, <1>4, <1>5, <1>6, <1>7, <1>8

LEMMA LookEffect ==
  ASSUME TypeInv, NEW s \in Scanners, LookForMissing(s)
  PROVE  /\ OthersStay(s) /\ SameWork(scan[s], scan'[s]) /\ SameTurn(scan[s], scan'[s])
         /\ scan[s].pc = "prune" /\ astray \subseteq astray'
         /\ \/ scan'[s].pc \in {"roots", "prune"}
            \/ \E p \in Paths :
                 /\ Root(p) = scan[s].root /\ rows[p] # Absent /\ ConfirmedMissing(p)
                 /\ scan'[s].pc = "forget" /\ scan'[s].next = p[2] /\ scan'[s].held = rows[p]
                 /\ p \in Busy => p \in astray'
  <1> DEFINE later == {p \in RowsOf(scan[s].root) :
                         p[2] >= scan[s].next /\ rows[p].seen # scan[s].gen}
             a == [scan[s] EXCEPT !.pc = "roots"]
             b(p) == [scan[s] EXCEPT !.pc = "forget", !.next = p[2], !.held = rows[p]]
             d(p) == [scan[s] EXCEPT !.next = p[2] + 1]
  <1>1. /\ scan[s] \in ScanType /\ scan[s].pc = "prune"
    BY LocalFacts DEF LookForMissing
  <1>2. SameWork(scan[s], a) /\ SameTurn(scan[s], a) /\ a.pc = "roots"
    BY <1>1 DEF ScanType, SameWork, SameTurn
  <1>3. ASSUME NEW p \in later
        PROVE  /\ SameWork(scan[s], b(p)) /\ SameTurn(scan[s], b(p)) /\ b(p).pc = "forget"
               /\ b(p).next = p[2] /\ b(p).held = rows[p]
               /\ SameWork(scan[s], d(p)) /\ SameTurn(scan[s], d(p)) /\ d(p).pc = "prune"
               /\ p \in Paths /\ Root(p) = scan[s].root /\ rows[p] # Absent
    BY <1>1 DEF ScanType, SameWork, SameTurn, RowsOf
  <1>4. \/ Go(s, a) /\ astray' = astray
        \/ \E p \in later : /\ IF ConfirmedMissing(p) THEN Go(s, b(p)) ELSE Go(s, d(p))
                            /\ astray' = astray \cup ({p} \cap Busy)
    BY DEF LookForMissing
  <1> HIDE DEF a, b, d, later
  <1>5. CASE Go(s, a) /\ astray' = astray
    BY <1>1, <1>2, <1>5, GoEffect
  <1>6. CASE \E p \in later : /\ IF ConfirmedMissing(p) THEN Go(s, b(p)) ELSE Go(s, d(p))
                              /\ astray' = astray \cup ({p} \cap Busy)
    <2> PICK p \in later : /\ IF ConfirmedMissing(p) THEN Go(s, b(p)) ELSE Go(s, d(p))
                           /\ astray' = astray \cup ({p} \cap Busy)
      BY <1>6
    <2>1. CASE ConfirmedMissing(p)
      <3>1. scan'[s] = b(p) /\ OthersStay(s)
        BY <2>1, GoEffect
      <3> QED BY <1>1, <1>3, <2>1, <3>1
    <2>2. CASE ~ConfirmedMissing(p)
      <3>1. scan'[s] = d(p) /\ OthersStay(s)
        BY <2>2, GoEffect
      <3> QED BY <1>1, <1>3, <2>2, <3>1
    <2> QED BY <2>1, <2>2
  <1> QED BY <1>4, <1>5, <1>6

LEMMA ForgetEffect ==
  ASSUME TypeInv, NEW s \in Scanners, Forget(s)
  PROVE  /\ OthersStay(s) /\ SameWork(scan[s], scan'[s]) /\ SameTurn(scan[s], scan'[s])
         /\ scan[s].pc = "forget" /\ scan'[s].pc \in {"roots", "prune"}
         /\ Place(s) \in Paths /\ Root(Place(s)) = scan[s].root
         /\ scan[s].held \in RowType /\ scan[s].held.rev # 0
         /\ \/ rows' = rows
            \/ Forgettable(s, Place(s)) /\ rows' = [rows EXCEPT ![Place(s)] = Absent]
  <1> DEFINE a == [scan[s] EXCEPT !.pc = "roots", !.held = Absent]
             e == Behind(scan[s])
             b == [e EXCEPT !.pc = "prune"]
  <1>1. /\ scan[s] \in ScanType /\ scan[s].pc = "forget" /\ scan[s].next <= MaxPlaces
        /\ scan[s].held \in RowType /\ scan[s].held.rev # 0
    BY LocalFacts DEF Forget, Placed
  <1>2. Place(s) \in Paths /\ Root(Place(s)) = scan[s].root
    BY <1>1, AtPlace
  <1>3. SameWork(scan[s], a) /\ SameTurn(scan[s], a) /\ a.pc = "roots"
    BY <1>1 DEF ScanType, SameWork, SameTurn
  <1>4. e \in ScanType /\ SameTurn(scan[s], e) /\ SameWork(scan[s], e)
    BY <1>1, BehindFacts, BehindEffect DEF GoesOn
  <1> HIDE DEF e
  <1>5. SameWork(scan[s], b) /\ SameTurn(scan[s], b) /\ b.pc = "prune"
    BY <1>4 DEF ScanType, SameWork, SameTurn
  <1>6. \/ Go(s, a) /\ rows' = rows
        \/ Go(s, b) /\ rows' = IF Forgettable(s, Place(s))
                               THEN [rows EXCEPT ![Place(s)] = Absent] ELSE rows
    BY DEF Forget, e
  <1> HIDE DEF a, b
  <1> QED BY <1>1, <1>2, <1>3, <1>5, <1>6, GoEffect

LEMMA EndEffect ==
  ASSUME TypeInv, NEW s \in Scanners, Finish(s) \/ Abort(s)
  PROVE  OthersStay(s) /\ scan'[s] = Idle
  BY GoEffect DEF Finish, Abort

(***************************************************************************)
(* One content for one revision.  Known(c): the file c is somewhere on a     *)
(* disk, in a row, in what a scan has seen and not yet written, or among     *)
(* what the program would restore.                                          *)
(***************************************************************************)
InRow(p, c) == rows[p] # Absent /\ rows[p].rev = c.rev /\ rows[p].tags = c.tags
InScan(s, c) ==
  \/ scan[s].pc \in {"touch", "submit"} /\ scan[s].held = c
  \/ \E q \in scan[s].requests : q.before = c
  \/ \E f \in scan[s].results : f.before = c
Known(c) ==
  \/ \E p \in Paths : disk[p] = c \/ InRow(p, c)
  \/ \E s \in Scanners : InScan(s, c)
  \/ op.pc # "idle" /\ op.old = c

OneVersion == \A c, d \in Contents : Known(c) /\ Known(d) /\ c.rev = d.rev => c = d
Past == \A c \in Contents : Known(c) => c.rev <= clock

\* A worker that has read other tags than those of the file the walk saw has
\* read another file, which is still there or gone.
Read ==
  \A s \in Scanners : \A f \in scan[s].results :
    f.tags \in {Absent, f.before.tags} \/ disk[f.path] # f.before
KnownInv == OneVersion /\ Past /\ Read

\* The file a worker took for another does not come back with the revision it
\* had while the answer is on its way.
NoReturn ==
  \A s \in Scanners : \A f \in scan[s].results :
    ~(f.tags \notin {Absent, f.before.tags} /\ disk[f.path] # f.before
      /\ disk'[f.path] = f.before)

LEMMA ContentFacts ==
  ASSUME NEW c \in Contents
  PROVE  /\ c.rev \in Nat /\ c.rev # 0 /\ c.rev \in Versions /\ c.tags \in Versions
         /\ c # Absent /\ c = [rev |-> c.rev, tags |-> c.tags]
  BY VersionFacts, AbsentFacts DEF Contents

LEMMA KeepsKnown ==
  ASSUME TypeInv, OneVersion, Past, clock' = clock, \A c \in Contents : Known(c)' => Known(c)
  PROVE  OneVersion' /\ Past'
  BY DEF OneVersion, Past

LEMMA AddsKnown ==
  ASSUME TypeInv, OneVersion, Past, clock' = clock + 1, NEW e \in Contents, e.rev = clock',
         \A c \in Contents : Known(c)' => Known(c) \/ c = e
  PROVE  OneVersion' /\ Past'
  <1>1. clock \in Nat /\ \A c \in Contents : c.rev \in Nat
    BY ContentFacts, VersionFacts DEF TypeInv, DiskOK
  <1>2. \A c \in Contents : Known(c) => c.rev <= clock /\ c.rev # e.rev
    BY <1>1 DEF Past
  <1>3. Past'
    BY <1>1, <1>2 DEF Past
  <1>4. ASSUME NEW c \in Contents, NEW d \in Contents, Known(c)', Known(d)', c.rev = d.rev
        PROVE  c = d
    <2>1. (Known(c) \/ c = e) /\ (Known(d) \/ d = e)
      BY <1>4
    <2> QED BY <1>2, <1>4, <2>1 DEF OneVersion
  <1>5. OneVersion'
    BY <1>4 DEF OneVersion
  <1> QED BY <1>3, <1>5

\* A step of a scan shows nothing that was not known.
LEMMA ScanKnown ==
  ASSUME TypeInv, KnownInv, NEW s \in Scanners, OthersStay(s), UNCHANGED <<world, op>>,
         \A c \in Contents : InScan(s, c)' => Known(c),
         \A c \in Contents : \A p \in Paths : InRow(p, c)' => Known(c)
  PROVE  OneVersion' /\ Past'
  <1>1. disk' = disk /\ clock' = clock
    BY DEF world
  <1>2. ASSUME NEW c \in Contents, Known(c)'
        PROVE  Known(c)
    <2>1. CASE \E p \in Paths : disk'[p] = c
      BY <1>1, <2>1 DEF Known
    <2>2. CASE \E p \in Paths : InRow(p, c)'
      BY <2>2
    <2>3. CASE \E t \in Scanners : InScan(t, c)'
      <3> PICK t \in Scanners : InScan(t, c)'
        BY <2>3
      <3>1. CASE t = s
        BY <3>1
      <3>2. CASE t # s
        <4>1. scan'[t] = scan[t]
          BY <3>2 DEF OthersStay
        <4>2. InScan(t, c)
          BY <4>1 DEF InScan
        <4> QED BY <4>2 DEF Known
      <3> QED BY <3>1, <3>2
    <2>4. CASE op'.pc # "idle" /\ op'.old = c
      BY <2>4 DEF Known
    <2> QED BY <1>2, <2>1, <2>2, <2>3, <2>4 DEF Known
  <1> QED BY <1>1, <1>2, KeepsKnown DEF KnownInv

LEMMA RowsKnown ==
  ASSUME rows' = rows
  PROVE  \A c \in Contents : \A p \in Paths : InRow(p, c)' => Known(c)
  BY DEF InRow, Known

LEMMA WorkKnown ==
  ASSUME NEW s \in Scanners, scan'[s].requests \subseteq scan[s].requests,
         scan'[s].results \subseteq scan[s].results,
         scan'[s].pc \in {"touch", "submit"} =>
            scan[s].pc \in {"touch", "submit"} /\ scan'[s].held = scan[s].held
  PROVE  \A c \in Contents : InScan(s, c)' => Known(c)
  BY DEF InScan, Known

\* A row that is kept keeps its revision and tags.
SameRows == \A p \in Paths : rows'[p] # Absent =>
              /\ rows[p] # Absent /\ rows'[p].rev = rows[p].rev /\ rows'[p].tags = rows[p].tags

LEMMA SameRowsKnown ==
  ASSUME SameRows
  PROVE  \A c \in Contents : \A p \in Paths : InRow(p, c)' => Known(c)
  BY DEF SameRows, InRow, Known

LEMMA RowFields ==
  ASSUME NEW x \in RowType
  PROVE  /\ x.rev \in Nat /\ x.tags \in Versions /\ x.seen \in Nat /\ x.seen \in Generations \cup {0}
         /\ x.available \in BOOLEAN /\ x.complete \in BOOLEAN /\ x # Absent
         /\ x.rev # 0 => [rev |-> x.rev, tags |-> x.tags] \in Contents
  <1>1. /\ x.rev \in Versions \cup {0} /\ x.tags \in Versions /\ x.seen \in Generations \cup {0}
        /\ x.available \in BOOLEAN /\ x.complete \in BOOLEAN /\ x # Absent
    BY AbsentFacts DEF RowType
  <1>0. \A v \in Versions \cup {0} : v \in Nat
    BY VersionFacts
  <1>2. x.rev \in Nat
    BY <1>0, <1>1
  <1>4. x.seen \in Nat
    BY <1>1, BoundFacts DEF Generations
  <1>3. x.rev # 0 => [rev |-> x.rev, tags |-> x.tags] \in Contents
    BY <1>1 DEF Contents
  <1> QED BY <1>1, <1>2, <1>3, <1>4

LEMMA HiddenRow ==
  ASSUME NEW x \in RowType
  PROVE  LET y == [x EXCEPT !.available = FALSE] IN
         /\ y # Absent /\ y.rev = x.rev /\ y.tags = x.tags /\ y.seen = x.seen
         /\ y.available = FALSE /\ y.complete = x.complete
  BY AbsentFacts DEF RowType

LEMMA OldRow ==
  ASSUME NEW x \in RowType
  PROVE  LET y == [x EXCEPT !.complete = FALSE] IN
         /\ y # Absent /\ y.rev = x.rev /\ y.tags = x.tags /\ y.seen = x.seen
         /\ y.available = x.available /\ y.complete = FALSE
  BY AbsentFacts DEF RowType

LEMMA TouchedRow ==
  ASSUME NEW x \in RowType, NEW g \in Generations
  PROVE  LET y == [x EXCEPT !.available = TRUE, !.seen = g] IN
         /\ y # Absent /\ y.rev = x.rev /\ y.tags = x.tags /\ y.seen = g
         /\ y.available = TRUE /\ y.complete = x.complete
  BY AbsentFacts DEF RowType

LEMMA RowAt ==
  ASSUME TypeInv, NEW p \in Paths
  PROVE  rows[p] # Absent => rows[p] \in RowType /\ Registered(Root(p))
  BY DEF TypeInv, IndexOK

LEMMA ReadScan ==
  ASSUME Read, NEW s \in Scanners, OthersStay(s), disk' = disk,
         \A f \in scan'[s].results :
           f \in scan[s].results \/ f.tags \in {Absent, f.before.tags} \/ disk[f.path] # f.before
  PROVE  Read'
  <1>1. ASSUME NEW t \in Scanners, NEW f \in scan'[t].results
        PROVE  f.tags \in {Absent, f.before.tags} \/ disk[f.path] # f.before
    BY DEF Read, OthersStay
  <1> QED BY <1>1 DEF Read

LEMMA ReadDisk ==
  ASSUME Read, scan' = scan, NoReturn
  PROVE  Read'
  BY DEF Read, NoReturn

\* A scan that looks, asks, drops what it has, or writes rows but no tags.
LEMMA QuietKnown ==
  ASSUME TypeInv, KnownInv, NEW s \in Scanners, OthersStay(s), UNCHANGED <<world, op>>,
         \A c \in Contents : InScan(s, c)' => Known(c),
         scan'[s].results \subseteq scan[s].results,
         rows' = rows \/ SameRows
  PROVE  KnownInv'
  <1>1. OneVersion' /\ Past'
    BY ScanKnown, RowsKnown, SameRowsKnown
  <1>2. Read'
    BY ReadScan DEF KnownInv, world
  <1> QED BY <1>1, <1>2 DEF KnownInv

LEMMA VisitKnown ==
  ASSUME TypeInv, KnownInv, NEW s \in Scanners, Visit(s)
  PROVE  KnownInv'
  <1>1. /\ OthersStay(s) /\ SameWork(scan[s], scan'[s]) /\ Place(s) \in Paths
        /\ scan'[s].pc \in {"touch", "submit"} =>
             scan'[s].held = Seen(Place(s)) /\ Seen(Place(s)) # Absent
    BY VisitEffect DEF GivesUp, GoesOn
  <1>2. ASSUME NEW c \in Contents, InScan(s, c)'
        PROVE  Known(c)
    <2>1. CASE scan'[s].pc \in {"touch", "submit"} /\ scan'[s].held = c
      BY <1>1, <2>1, SeenFacts DEF Known
    <2>2. CASE InScan(s, c)
      BY <2>2 DEF Known
    <2> QED BY <1>1, <1>2, <2>1, <2>2 DEF InScan, SameWork
  <1>3. UNCHANGED <<world, op, rows>>
    BY DEF Visit, others, index
  <1> QED BY <1>1, <1>2, <1>3, QuietKnown DEF SameWork

LEMMA TouchKnown ==
  ASSUME TypeInv, KnownInv, NEW s \in Scanners, Touch(s)
  PROVE  KnownInv'
  <1>1. /\ OthersStay(s) /\ SameWork(scan[s], scan'[s]) /\ Place(s) \in Paths
        /\ scan'[s].pc \in {"walk", "drain"}
        /\ \/ rows' = rows
           \/ /\ rows[Place(s)] # Absent
              /\ rows' = [rows EXCEPT ![Place(s)] = [rows[Place(s)] EXCEPT
                                        !.available = TRUE, !.seen = scan[s].gen]]
    BY TouchEffect DEF GivesUp, GoesOn
  <1>2. scan[s].gen \in Generations
    BY LocalFacts DEF Touch, Placed
  <1>3. rows' = rows \/ SameRows
    <2> DEFINE y == [rows[Place(s)] EXCEPT !.available = TRUE, !.seen = scan[s].gen]
    <2>1. CASE rows[Place(s)] # Absent /\ rows' = [rows EXCEPT ![Place(s)] = y]
      <3>1. y.rev = rows[Place(s)].rev /\ y.tags = rows[Place(s)].tags
        BY <1>1, <1>2, <2>1, RowAt, TouchedRow
      <3> HIDE DEF y
      <3> QED BY <1>1, <2>1, <3>1 DEF SameRows, TypeInv, IndexOK
    <2> QED BY <1>1, <2>1
  <1>4. UNCHANGED <<world, op>>
    BY DEF Touch, others
  <1>5. \A c \in Contents : InScan(s, c)' => Known(c)
    BY <1>1, WorkKnown DEF SameWork
  <1> QED BY <1>1, <1>3, <1>4, <1>5, QuietKnown DEF SameWork

LEMMA SubmitKnown ==
  ASSUME TypeInv, KnownInv, NEW s \in Scanners, Submit(s)
  PROVE  KnownInv'
  <1> DEFINE r == [path |-> Place(s), before |-> scan[s].held]
  <1>1. /\ OthersStay(s) /\ scan[s].pc = "submit" /\ scan'[s].pc \in {"walk", "drain"}
        /\ scan'[s].results = scan[s].results
        /\ scan'[s].requests \in {scan[s].requests, scan[s].requests \cup {r}}
    BY SubmitEffect DEF GivesUp, GoesOn
  <1>2. r.before = scan[s].held
    OBVIOUS
  <1> HIDE DEF r
  <1>3. ASSUME NEW c \in Contents, InScan(s, c)'
        PROVE  Known(c)
    <2>1. InScan(s, c)
      BY <1>1, <1>2, <1>3 DEF InScan
    <2> QED BY <2>1 DEF Known
  <1>4. UNCHANGED <<world, op, rows>>
    BY DEF Submit, others, index
  <1> QED BY <1>1, <1>3, <1>4, QuietKnown

LEMMA PrepareKnown ==
  ASSUME TypeInv, KnownInv, NEW s \in Scanners, Prepare(s)
  PROVE  KnownInv'
  <1>1. UNCHANGED <<world, op, rows>>
    BY DEF Prepare, others, index
  <1>2. /\ OthersStay(s) /\ scan'[s].pc = scan[s].pc /\ scan'[s].held = scan[s].held
        /\ \E q \in scan[s].requests, f \in Answer :
              /\ f.path = q.path /\ f.before = q.before
              /\ f.tags # Absent => Seen(f.path) # Absent /\ f.tags = Seen(f.path).tags
              /\ scan'[s].requests = scan[s].requests \ {q}
              /\ scan'[s].results = scan[s].results \cup {f}
    BY PrepareEffect
  <1> PICK q \in scan[s].requests, f \in Answer :
              /\ f.path = q.path /\ f.before = q.before
              /\ f.tags # Absent => Seen(f.path) # Absent /\ f.tags = Seen(f.path).tags
              /\ scan'[s].requests = scan[s].requests \ {q}
              /\ scan'[s].results = scan[s].results \cup {f}
    BY <1>2
  <1>3. ASSUME NEW c \in Contents, InScan(s, c)'
        PROVE  Known(c)
    <2>1. InScan(s, c)
      BY <1>2, <1>3 DEF InScan
    <2> QED BY <2>1 DEF Known
  <1>4. OneVersion' /\ Past'
    BY <1>1, <1>2, <1>3, ScanKnown, RowsKnown
  <1>5. f.tags \in {Absent, f.before.tags} \/ disk[f.path] # f.before
    <2>1. f.path \in Paths
      BY DEF Answer
    <2> QED BY <2>1, SeenFacts
  <1>6. Read'
    BY <1>1, <1>2, <1>5, ReadScan DEF world, KnownInv
  <1> QED BY <1>4, <1>6 DEF KnownInv

LEMMA CommitKnown ==
  ASSUME TypeInv, KnownInv, NEW s \in Scanners, CommitPrepared(s)
  PROVE  KnownInv'
  <1>1. UNCHANGED <<world, op>>
    BY DEF CommitPrepared, others
  <1>2. /\ OthersStay(s) /\ scan'[s].requests = scan[s].requests
        /\ scan'[s].pc \in {"walk", "drain"}
        /\ \E f \in scan[s].results :
              /\ scan'[s].results = scan[s].results \ {f}
              /\ f \in Answer
              /\ \/ rows' = rows
                 \/ /\ rows[f.path] # Absent
                    /\ rows' = [rows EXCEPT ![f.path] = [rows[f.path] EXCEPT !.complete = FALSE]]
                 \/ /\ f.tags # Absent /\ Current(f)
                    /\ rows' = [rows EXCEPT ![f.path] =
                                  Row([rev |-> f.before.rev, tags |-> f.tags], scan[s].gen)]
    BY CommitEffect DEF GivesUp
  <1> PICK f \in scan[s].results :
              /\ scan'[s].results = scan[s].results \ {f}
              /\ f \in Answer
              /\ \/ rows' = rows
                 \/ /\ rows[f.path] # Absent
                    /\ rows' = [rows EXCEPT ![f.path] = [rows[f.path] EXCEPT !.complete = FALSE]]
                 \/ /\ f.tags # Absent /\ Current(f)
                    /\ rows' = [rows EXCEPT ![f.path] =
                                  Row([rev |-> f.before.rev, tags |-> f.tags], scan[s].gen)]
    BY <1>2
  <1>3. f.path \in Paths /\ f.before \in Contents
    BY DEF Answer
  <1>4. \A c \in Contents : InScan(s, c)' => Known(c)
    BY <1>2, WorkKnown
  <1>5. CASE rows' = rows
    BY <1>1, <1>2, <1>4, <1>5, QuietKnown
  <1>6. CASE /\ rows[f.path] # Absent
             /\ rows' = [rows EXCEPT ![f.path] = [rows[f.path] EXCEPT !.complete = FALSE]]
    <2> DEFINE y == [rows[f.path] EXCEPT !.complete = FALSE]
    <2>1. y.rev = rows[f.path].rev /\ y.tags = rows[f.path].tags
      BY <1>3, <1>6, RowAt, OldRow
    <2>2. rows' = [rows EXCEPT ![f.path] = y]
      BY <1>6
    <2> HIDE DEF y
    <2>3. SameRows
      BY <1>3, <1>6, <2>1, <2>2 DEF SameRows, TypeInv, IndexOK
    <2> QED BY <1>1, <1>2, <1>4, <2>3, QuietKnown
  <1>7. CASE /\ f.tags # Absent /\ Current(f)
             /\ rows' = [rows EXCEPT ![f.path] =
                           Row([rev |-> f.before.rev, tags |-> f.tags], scan[s].gen)]
    <2> DEFINE y == Row([rev |-> f.before.rev, tags |-> f.tags], scan[s].gen)
    <2>1. disk[f.path] = f.before /\ f.tags = f.before.tags
      BY <1>3, <1>7, SeenFacts, ContentFacts DEF Current, KnownInv, Read
    <2>2. y.rev = f.before.rev /\ y.tags = f.before.tags
      BY <2>1 DEF Row
    <2>3. rows' = [rows EXCEPT ![f.path] = y]
      BY <1>7
    <2> HIDE DEF y
    <2>4. ASSUME NEW c \in Contents, NEW p \in Paths, InRow(p, c)'
          PROVE  Known(c)
      <3>1. CASE p = f.path
        <4>1. rows'[p] = y
          BY <1>3, <2>3, <3>1 DEF TypeInv, IndexOK
        <4>2. c = f.before
          BY <1>3, <2>2, <2>4, <4>1, ContentFacts DEF InRow
        <4> QED BY <1>3, <2>1, <4>2 DEF Known
      <3>2. CASE p # f.path
        <4>1. rows'[p] = rows[p]
          BY <1>3, <2>3, <3>2 DEF TypeInv, IndexOK
        <4> QED BY <2>4, <4>1 DEF InRow, Known
      <3> QED BY <3>1, <3>2
    <2>5. OneVersion' /\ Past'
      BY <1>1, <1>2, <1>4, <2>4, ScanKnown
    <2>6. Read'
      BY <1>1, <1>2, ReadScan DEF world, KnownInv
    <2> QED BY <2>5, <2>6 DEF KnownInv
  <1> QED BY <1>5, <1>6, <1>7

LEMMA HidingRows ==
  ASSUME TypeInv, NEW S, rows' = [p \in Paths |-> IF p \in S /\ rows[p] # Absent
                                   THEN [rows[p] EXCEPT !.available = FALSE] ELSE rows[p]]
  PROVE  SameRows
  <1>1. ASSUME NEW p \in Paths, rows'[p] # Absent
        PROVE  rows[p] # Absent /\ rows'[p].rev = rows[p].rev /\ rows'[p].tags = rows[p].tags
    BY <1>1, RowAt, HiddenRow
  <1> QED BY <1>1 DEF SameRows

LEMMA OfflineKnown ==
  ASSUME TypeInv, KnownInv, NEW s \in Scanners, FolderOffline(s)
  PROVE  KnownInv'
  <1>1. /\ OthersStay(s) /\ SameWork(scan[s], scan'[s]) /\ scan'[s].pc = "roots"
        /\ \E r \in scan[s].todo :
              rows' = [p \in Paths |-> IF p \in RowsOf(r)
                        THEN [rows[p] EXCEPT !.available = FALSE] ELSE rows[p]]
    BY OfflineEffect
  <1> PICK r \in scan[s].todo :
              rows' = [p \in Paths |-> IF p \in RowsOf(r)
                        THEN [rows[p] EXCEPT !.available = FALSE] ELSE rows[p]]
    BY <1>1
  <1>2. SameRows
    <2>1. \A p \in Paths : p \in RowsOf(r) => rows[p] # Absent
      BY DEF RowsOf
    <2> QED BY <2>1, HidingRows
  <1>3. UNCHANGED <<world, op>>
    BY DEF FolderOffline, others
  <1>4. \A c \in Contents : InScan(s, c)' => Known(c)
    BY <1>1, WorkKnown DEF SameWork
  <1> QED BY <1>1, <1>2, <1>3, <1>4, QuietKnown DEF SameWork

LEMMA EndFolderKnown ==
  ASSUME TypeInv, KnownInv, NEW s \in Scanners, EndFolder(s)
  PROVE  KnownInv'
  <1>1. /\ OthersStay(s) /\ scan'[s].requests = {} /\ scan'[s].results = {}
        /\ scan'[s].pc \in {"prune", "roots"}
        /\ rows' = [p \in Paths |->
                       IF scan[s].complete /\ ~scan[s].cancel /\ Owns(s)
                          /\ p \in RowsOf(scan[s].root) /\ rows[p].seen # scan[s].gen
                       THEN [rows[p] EXCEPT !.available = FALSE] ELSE rows[p]]
    BY EndFolderEffect
  <1>2. SameRows
    <2> DEFINE S == {p \in Paths : scan[s].complete /\ ~scan[s].cancel /\ Owns(s)
                          /\ p \in RowsOf(scan[s].root) /\ rows[p].seen # scan[s].gen}
    <2>1. \A p \in S : rows[p] # Absent
      BY DEF RowsOf
    <2>2. rows' = [p \in Paths |-> IF p \in S
                       THEN [rows[p] EXCEPT !.available = FALSE] ELSE rows[p]]
      BY <1>1
    <2> HIDE DEF S
    <2> QED BY <2>1, <2>2, HidingRows
  <1>3. UNCHANGED <<world, op>>
    BY DEF EndFolder, others
  <1>4. \A c \in Contents : InScan(s, c)' => Known(c)
    BY <1>1, WorkKnown
  <1> QED BY <1>1, <1>2, <1>3, <1>4, QuietKnown

LEMMA ForgetKnown ==
  ASSUME TypeInv, KnownInv, NEW s \in Scanners, Forget(s)
  PROVE  KnownInv'
  <1>1. /\ OthersStay(s) /\ SameWork(scan[s], scan'[s]) /\ scan'[s].pc \in {"roots", "prune"}
        /\ rows' = rows \/ rows' = [rows EXCEPT ![Place(s)] = Absent]
    BY ForgetEffect
  <1>2. rows' = rows \/ SameRows
    BY <1>1 DEF SameRows, TypeInv, IndexOK
  <1>3. UNCHANGED <<world, op>>
    BY DEF Forget, others
  <1>4. \A c \in Contents : InScan(s, c)' => Known(c)
    BY <1>1, WorkKnown DEF SameWork
  <1> QED BY <1>1, <1>2, <1>3, <1>4, QuietKnown DEF SameWork

LEMMA OtherScanKnown ==
  ASSUME TypeInv, KnownInv, NEW s \in Scanners,
         \/ StartScan(s) \/ Stop(s) \/ OpenFolder(s) \/ WalkFails(s) \/ EndWalk(s)
         \/ LookForMissing(s) \/ Finish(s) \/ Abort(s)
  PROVE  KnownInv'
  <1>1. UNCHANGED <<world, op, rows>>
    BY DEF StartScan, Stop, OpenFolder, WalkFails, EndWalk, LookForMissing, Finish, Abort,
           others, index
  <1>2. /\ OthersStay(s) /\ scan'[s].requests \subseteq scan[s].requests
        /\ scan'[s].results \subseteq scan[s].results
        /\ scan'[s].pc \in {"touch", "submit"} =>
             scan[s].pc \in {"touch", "submit"} /\ scan'[s].held = scan[s].held
    <2>1. CASE StartScan(s)
      BY <2>1, StartEffect
    <2>2. CASE Stop(s)
      BY <2>2, StopEffect DEF SameWork
    <2>3. CASE OpenFolder(s)
      BY <2>3, OpenEffect DEF SameWork
    <2>4. CASE WalkFails(s)
      BY <2>4, WalkFailsEffect DEF SameWork, GivesUp
    <2>5. CASE EndWalk(s)
      BY <2>5, EndWalkEffect DEF SameWork
    <2>6. CASE LookForMissing(s)
      BY <2>6, LookEffect DEF SameWork
    <2>7. CASE Finish(s) \/ Abort(s)
      BY <2>7, EndEffect, IdleFacts
    <2> QED BY <2>1, <2>2, <2>3, <2>4, <2>5, <2>6, <2>7
  <1>3. \A c \in Contents : InScan(s, c)' => Known(c)
    BY <1>2, WorkKnown
  <1> QED BY <1>1, <1>2, <1>3, QuietKnown

LEMMA ScanKeepsKnown ==
  ASSUME TypeInv, KnownInv, NEW s \in Scanners, Scan(s)
  PROVE  KnownInv'
  BY VisitKnown, TouchKnown, SubmitKnown, PrepareKnown, CommitKnown, OfflineKnown,
     EndFolderKnown, ForgetKnown, OtherScanKnown DEF Scan, Walk

(***************************************************************************)
(* What the program and others do: a new file has a new version.            *)
(***************************************************************************)
\* The effect of Publish, by kind.
LEMMA PublishEffect ==
  ASSUME TypeInv, Publish
  PROVE  /\ op.pc = "idle" /\ op'.pc = "published" /\ op'.old = disk[op'.from]
         /\ op'.from \in Paths /\ op'.to \in Paths /\ op'.old \in Contents
         /\ Reachable(op'.from) /\ Reachable(op'.to)
         /\ UNCHANGED <<mount, rows, roots, scan, scans, spoilt, astray>>
         /\ \/ /\ op'.kind = "tags" /\ op'.to = op'.from /\ clock' = clock + 1
               /\ [rev |-> clock', tags |-> clock'] \in Contents
               /\ disk' = [disk EXCEPT ![op'.from] = [rev |-> clock', tags |-> clock']]
            \/ /\ op'.kind = "move" /\ op'.to # op'.from /\ clock' = clock
               /\ disk[op'.to] = Absent
               /\ disk' = [disk EXCEPT ![op'.from] = Absent, ![op'.to] = op'.old]
            \/ /\ op'.kind = "copy" /\ op'.to # op'.from /\ clock' = clock + 1
               /\ disk[op'.to] = Absent
               /\ [rev |-> clock', tags |-> op'.old.tags] \in Contents
               /\ disk' = [disk EXCEPT ![op'.to] = [rev |-> clock', tags |-> op'.old.tags]]
  <1> PICK kind \in Kinds, p \in Paths, q \in Paths :
         /\ Reachable(p) /\ disk[p] # Absent
         /\ IF kind = "tags" THEN p = q ELSE Reachable(q) /\ disk[q] = Absent
         /\ clock' = IF kind = "move" THEN clock ELSE clock + 1
         /\ disk' = CASE kind = "tags" -> [disk EXCEPT ![p] = [rev |-> clock', tags |-> clock']]
                      [] kind = "move" -> [disk EXCEPT ![p] = Absent, ![q] = disk[p]]
                      [] kind = "copy" -> [disk EXCEPT ![q] = [disk[p] EXCEPT !.rev = clock']]
         /\ op' = [pc |-> "published", kind |-> kind, from |-> p, to |-> q, old |-> disk[p]]
    BY DEF Publish
  <1>1. /\ op'.pc = "published" /\ op'.kind = kind /\ op'.from = p /\ op'.to = q
        /\ op'.old = disk[p]
    OBVIOUS
  <1>2. disk[p] \in Contents
    BY DEF TypeInv, DiskOK
  <1>3. kind \in {"tags", "move", "copy"}
    BY LibraryAssumption
  <1>4. kind # "move" => clock' \in Versions
    <2>1. clock' \in Versions \/ kind = "move"
      <3>1. CASE kind # "move"
        <4>1. clock' = clock + 1 /\ count' = count + 1 /\ foreign' = foreign /\ count < MaxOps
          BY <3>1 DEF Publish
        <4>2. /\ count \in Nat /\ foreign \in Nat /\ foreign <= MaxForeign
          BY DEF TypeInv, CountsOK
        <4>3. count' + foreign' = count + foreign + 1 /\ count' \in Nat /\ count' <= MaxOps
          BY <4>1, <4>2, BoundFacts
        <4> QED BY <4>1, <4>2, <4>3, NextVersion
      <3> QED BY <3>1
    <2> QED BY <2>1
  <1>5. /\ op.pc = "idle"
        /\ UNCHANGED <<mount, rows, roots, scan, scans, spoilt, astray>>
    BY DEF Publish, index, Unspoilt
  <1>6. CASE kind = "tags"
    BY <1>1, <1>2, <1>4, <1>5, <1>6 DEF Contents
  <1>7. CASE kind = "move"
    <2>1. disk' = [disk EXCEPT ![p] = Absent, ![q] = disk[p]] /\ clock' = clock
      BY <1>7
    <2> QED BY <1>1, <1>2, <1>5, <1>7, <2>1, AbsentFacts
  <1>8. CASE kind = "copy"
    <2> DEFINE y == [disk[p] EXCEPT !.rev = clock']
    <2>1. disk' = [disk EXCEPT ![q] = y] /\ clock' = clock + 1
      BY <1>8
    <2>2. y = [rev |-> clock', tags |-> disk[p].tags] /\ y \in Contents
      BY <1>2, <1>4, <1>8 DEF Contents
    <2> HIDE DEF y
    <2> QED BY <1>1, <1>2, <1>5, <1>8, <2>1, <2>2, AbsentFacts
  <1> QED BY <1>3, <1>6, <1>7, <1>8

\* The row that follows a file has no revision.
LEMMA FollowedEffect ==
  ASSUME TypeInv, CommitDependents
  PROVE  \/ rows[op.from] = Absent /\ rows' = rows
         \/ /\ rows[op.from] # Absent
            /\ \E m \in RowType :
                 /\ m.rev = 0 /\ m.available = TRUE
                 /\ m.tags = IF op.kind = "tags" THEN disk[op.to].tags ELSE rows[op.from].tags
                 /\ Registered(Root(op.to)) => m.seen = roots[Root(op.to)].token
                 /\ \A p \in Paths : rows'[p] =
                      IF p = op.to /\ Registered(Root(op.to)) THEN m
                      ELSE IF p = op.from THEN Absent ELSE rows[p]
  <1> DEFINE from == op.from
             to == op.to
             file == disk[op.to]
             m == [rows[from] EXCEPT
                     !.rev = 0, !.available = TRUE, !.seen = roots[Root(to)].token,
                     !.tags = IF op.kind = "tags" THEN file.tags ELSE @,
                     !.complete = op.kind = "tags" \/ @]
             n == [rows[from] EXCEPT !.rev = 0, !.available = TRUE,
                                     !.tags = IF op.kind = "tags" THEN file.tags ELSE @]
  <1>0. op.pc = "published" /\ rows' = Followed(from, to, file, op.kind = "tags")
    BY DEF CommitDependents
  <1>1. from \in Paths /\ to \in Paths /\ file \in Contents /\ file.tags \in Versions
    BY <1>0, OpFacts, ContentFacts
  <1>2. CASE rows[from] = Absent
    BY <1>0, <1>2 DEF Followed
  <1>3. CASE rows[from] # Absent /\ Registered(Root(to))
    <2>1. rows[from] \in RowType
      BY <1>1, <1>3, RowAt
    <2>2. roots[Root(to)].token \in Generations \cup {0}
      BY <1>3 DEF TypeInv, IndexOK, Registered, RootType
    <2> HIDE DEF from, to, file
    <2>3. /\ m \in RowType /\ m.rev = 0 /\ m.available = TRUE
          /\ m.tags = IF op.kind = "tags" THEN file.tags ELSE rows[from].tags
          /\ m.seen = roots[Root(to)].token
      BY <1>1, <2>1, <2>2 DEF RowType
    <2>4. rows' = [rows EXCEPT ![from] = Absent, ![to] = m]
      BY <1>0, <1>3 DEF Followed
    <2> HIDE DEF m
    <2>5. \A p \in Paths : rows'[p] = IF p = to THEN m ELSE IF p = from THEN Absent ELSE rows[p]
      BY <2>4 DEF TypeInv, IndexOK
    <2> QED BY <1>3, <2>3, <2>5 DEF from, to, file
  <1>4. CASE rows[from] # Absent /\ ~Registered(Root(to))
    <2>1. rows[from] \in RowType
      BY <1>1, <1>4, RowAt
    <2> HIDE DEF from, to, file
    <2>2. /\ n \in RowType /\ n.rev = 0 /\ n.available = TRUE
          /\ n.tags = IF op.kind = "tags" THEN file.tags ELSE rows[from].tags
      BY <1>1, <2>1 DEF RowType
    <2>3. rows' = [rows EXCEPT ![from] = Absent]
      BY <1>0, <1>4 DEF Followed
    <2> HIDE DEF n
    <2>5. \A p \in Paths : rows'[p] = IF p = from THEN Absent ELSE rows[p]
      BY <2>3 DEF TypeInv, IndexOK
    <2> QED BY <1>4, <2>2, <2>5 DEF from, to, file
  <1> QED BY <1>2, <1>3, <1>4

\* Steps that leave the scans alone and bring no new version.
LEMMA OutsideKnown ==
  ASSUME TypeInv, KnownInv, scan' = scan, clock' = clock, NoReturn,
         \A c \in Contents : \A p \in Paths : disk'[p] = c => Known(c),
         \A c \in Contents : \A p \in Paths : InRow(p, c)' => Known(c),
         \A c \in Contents : op'.pc # "idle" /\ op'.old = c => Known(c)
  PROVE  KnownInv'
  <1>1. \A c \in Contents : Known(c)' => Known(c)
    BY DEF Known, InScan
  <1>2. OneVersion' /\ Past'
    BY <1>1, KeepsKnown DEF KnownInv
  <1> QED BY <1>2, ReadDisk DEF KnownInv

\* Steps that leave the scans and the index alone and bring one new version.
LEMMA NewKnown ==
  ASSUME TypeInv, KnownInv, UNCHANGED <<scan, rows>>, clock' = clock + 1, NoReturn,
         NEW e \in Contents, e.rev = clock', NEW p \in Paths, disk' = [disk EXCEPT ![p] = e],
         \A c \in Contents : op'.pc # "idle" /\ op'.old = c => Known(c)
  PROVE  KnownInv'
  <1>1. \A q \in Paths : disk'[q] = e \/ disk'[q] = disk[q]
    BY DEF TypeInv, DiskOK
  <1>2. \A c \in Contents : Known(c)' => Known(c) \/ c = e
    BY <1>1 DEF Known, InScan, InRow
  <1>3. OneVersion' /\ Past'
    BY <1>2, AddsKnown DEF KnownInv
  <1> QED BY <1>3, ReadDisk DEF KnownInv

LEMMA PublishKnown ==
  ASSUME TypeInv, KnownInv, Publish, NoReturn
  PROVE  KnownInv'
  <1>1. /\ op'.from \in Paths /\ op'.to \in Paths /\ op'.old = disk[op'.from]
        /\ op'.old \in Contents /\ UNCHANGED <<scan, rows>>
    BY PublishEffect
  <1>2. \A c \in Contents : op'.pc # "idle" /\ op'.old = c => Known(c)
    BY <1>1 DEF Known
  <1>3. CASE /\ clock' = clock + 1 /\ [rev |-> clock', tags |-> clock'] \in Contents
             /\ disk' = [disk EXCEPT ![op'.from] = [rev |-> clock', tags |-> clock']]
    BY <1>1, <1>2, <1>3, NewKnown
  <1>4. CASE /\ clock' = clock
             /\ disk' = [disk EXCEPT ![op'.from] = Absent, ![op'.to] = op'.old]
    <2>1. \A q \in Paths : disk'[q] \in {disk[q], Absent, op'.old}
      BY <1>4 DEF TypeInv, DiskOK
    <2>2. \A c \in Contents : \A q \in Paths : disk'[q] = c => Known(c)
      BY <1>1, <2>1, ContentFacts DEF Known
    <2>3. \A c \in Contents : \A q \in Paths : InRow(q, c)' => Known(c)
      BY <1>1, RowsKnown
    <2> QED BY <1>1, <1>2, <1>4, <2>2, <2>3, OutsideKnown
  <1>5. CASE /\ clock' = clock + 1 /\ [rev |-> clock', tags |-> op'.old.tags] \in Contents
             /\ disk' = [disk EXCEPT ![op'.to] = [rev |-> clock', tags |-> op'.old.tags]]
    BY <1>1, <1>2, <1>5, NewKnown
  <1> QED BY <1>3, <1>4, <1>5, PublishEffect

LEMMA DependentsKnown ==
  ASSUME TypeInv, KnownInv, CommitDependents, NoReturn
  PROVE  KnownInv'
  <1>1. /\ UNCHANGED <<world, scan>> /\ op.pc = "published"
        /\ rows' = Followed(op.from, op.to, disk[op.to], op.kind = "tags")
        /\ op' = IF op.kind = "copy" THEN [op EXCEPT !.pc = "source"] ELSE NoOp
    BY DEF CommitDependents
  <1>2. op.from \in Paths /\ op.to \in Paths /\ disk[op.to] \in Contents /\ op.old \in Contents
    BY <1>1, OpFacts
  <1>3. op'.pc # "idle" => op'.old = op.old
    BY <1>1, NoOpFacts DEF TypeInv, OpOK
  <1>4. ASSUME NEW c \in Contents, NEW p \in Paths, InRow(p, c)'
        PROVE  Known(c)
    <2>1. rows'[p] = rows[p] \/ rows'[p].rev = 0 \/ rows'[p] = Absent
      BY FollowedEffect
    <2> QED BY <1>4, <2>1, ContentFacts DEF InRow, Known
  <1>5. \A c \in Contents : op'.pc # "idle" /\ op'.old = c => Known(c)
    BY <1>1, <1>3 DEF Known
  <1>6. \A c \in Contents : \A p \in Paths : disk'[p] = c => Known(c)
    BY <1>1 DEF world, Known
  <1> QED BY <1>1, <1>4, <1>5, <1>6, OutsideKnown DEF world

LEMMA UndoneKnown ==
  ASSUME TypeInv, KnownInv, RollBack \/ RemoveSource, NoReturn
  PROVE  KnownInv'
  <1>1. /\ UNCHANGED <<clock, scan, rows>> /\ op.pc # "idle" /\ op' = NoOp
        /\ \/ disk' = [[disk EXCEPT ![op.to] = Absent] EXCEPT ![op.from] = op.old]
           \/ disk' = [disk EXCEPT ![op.from] = Absent]
    BY DEF RollBack, RemoveSource, index, world
  <1>2. op.from \in Paths /\ op.to \in Paths
    BY OpFacts
  <1>3. \A q \in Paths : disk'[q] \in {disk[q], Absent, op.old}
    BY <1>1, <1>2 DEF TypeInv, DiskOK
  <1>4. \A c \in Contents : \A q \in Paths : disk'[q] = c => Known(c)
    BY <1>1, <1>3, ContentFacts DEF Known
  <1>5. \A c \in Contents : \A q \in Paths : InRow(q, c)' => Known(c)
    BY <1>1, RowsKnown
  <1> QED BY <1>1, <1>4, <1>5, NoOpFacts, OutsideKnown

LEMMA WorldKnown ==
  ASSUME TypeInv, KnownInv, World, NoReturn
  PROVE  KnownInv'
  <1>1. CASE \E p \in Paths : Rewrite(p)
    <2> PICK p \in Paths : Rewrite(p)
      BY <1>1
    <2>1. /\ clock' = clock + 1 /\ disk' = [disk EXCEPT ![p] = [rev |-> clock', tags |-> clock']]
          /\ UNCHANGED <<scan, rows, op>>
      BY DEF Rewrite, index
    <2>2. [rev |-> clock', tags |-> clock'] \in Contents
      <3>1. count' + foreign' = count + foreign + 1 /\ Foreign /\ count' = count
        BY ForeignFacts DEF Rewrite
      <3> QED BY <2>1, <3>1, ForeignFacts, NextVersion
    <2>3. \A c \in Contents : op'.pc # "idle" /\ op'.old = c => Known(c)
      BY <2>1 DEF Known
    <2> QED BY <2>1, <2>2, <2>3, NewKnown
  <1>2. CASE ~\E p \in Paths : Rewrite(p)
    <2>1. /\ UNCHANGED <<scan, clock, op>>
          /\ \A p \in Paths : disk'[p] \in {disk[p], Absent}
          /\ \A p \in Paths : rows'[p] \in {rows[p], Absent}
      <3>1. CASE \E p \in Paths : Delete(p)
        BY <3>1 DEF Delete, index, TypeInv, DiskOK
      <3>2. CASE \E r \in Roots : AddFolder(r) \/ RemoveFolder(r) \/ \E m \in Mounts : Remount(r, m)
        BY <3>2 DEF AddFolder, RemoveFolder, Remount, index, world, others
      <3> QED BY <1>2, <3>1, <3>2 DEF World
    <2>2. \A c \in Contents : \A p \in Paths : disk'[p] = c => Known(c)
      BY <2>1, ContentFacts DEF Known
    <2>3. \A c \in Contents : \A p \in Paths : InRow(p, c)' => Known(c)
      BY <2>1 DEF InRow, Known
    <2>4. \A c \in Contents : op'.pc # "idle" /\ op'.old = c => Known(c)
      BY <2>1 DEF Known
    <2> QED BY <2>1, <2>2, <2>3, <2>4, OutsideKnown
  <1> QED BY <1>1, <1>2

LEMMA InitKnown ==
  ASSUME Init
  PROVE  KnownInv
  <1>1. /\ \A p \in Paths : disk[p] = Absent \/ disk[p] = [rev |-> Number[p], tags |-> Number[p]]
        /\ \A p \in Paths : rows[p] = Absent \/ rows[p] = Row([rev |-> Number[p], tags |-> Number[p]], 1)
    <2> PICK present \in SUBSET Paths, old \in BOOLEAN, chosen \in BOOLEAN :
         /\ disk = [p \in Paths |-> IF p \in present
                        THEN [rev |-> Number[p], tags |-> Number[p]] ELSE Absent]
         /\ rows = [p \in Paths |-> IF old /\ p \in present /\ Root(p) \in Roots
                        THEN Row(disk[p], 1) ELSE Absent]
      BY DEF Init
    <2> QED OBVIOUS
  <1>2. clock = Cardinality(Paths) /\ op = NoOp /\ \A s \in Scanners : scan[s] = Idle
    BY DEF Init
  <1>3. ASSUME NEW c \in Contents, Known(c)
        PROVE  c.tags = c.rev /\ c.rev <= clock
    <2>1. \A s \in Scanners : ~InScan(s, c)
      BY <1>2, IdleFacts DEF InScan
    <2>2. PICK p \in Paths : disk[p] = c \/ InRow(p, c)
      BY <1>2, <1>3, <2>1, NoOpFacts DEF Known
    <2>3. Number[p] \in 1 .. Cardinality(Paths)
      BY NumberFacts
    <2>4. c.rev = Number[p] /\ c.tags = Number[p]
      <3>1. CASE disk[p] = c
        BY <1>1, <3>1, ContentFacts
      <3>2. CASE InRow(p, c)
        <4> DEFINE r == Row([rev |-> Number[p], tags |-> Number[p]], 1)
        <4>1. r.rev = Number[p] /\ r.tags = Number[p]
          BY DEF Row
        <4> HIDE DEF r
        <4>2. rows[p] = r
          BY <1>1, <3>2 DEF InRow, r
        <4> QED BY <3>2, <4>1, <4>2 DEF InRow
      <3> QED BY <2>2, <3>1, <3>2
    <2> QED BY <1>2, <2>3, <2>4, PathsFinite
  <1>4. OneVersion /\ Past
    <2>1. \A c, d \in Contents : c.rev = d.rev /\ c.tags = d.tags => c = d
      BY DEF Contents
    <2> QED BY <1>3, <2>1 DEF OneVersion, Past
  <1>5. Read
    BY <1>2, IdleFacts DEF Read
  <1> QED BY <1>4, <1>5 DEF KnownInv

LEMMA NextKnown ==
  ASSUME TypeInv, KnownInv, [Next]_vars, NoReturn
  PROVE  KnownInv'
  <1>1. CASE \E s \in Scanners : Scan(s)
    BY <1>1, ScanKeepsKnown
  <1>2. CASE Program
    BY <1>2, PublishKnown, DependentsKnown, UndoneKnown DEF Program
  <1>3. CASE World
    BY <1>3, WorldKnown
  <1>4. CASE UNCHANGED vars
    BY <1>4 DEF vars, KnownInv, OneVersion, Past, Read, Known, InScan, InRow
  <1> QED BY <1>1, <1>2, <1>3, <1>4 DEF Next

LEMMA KnownIsRight ==
  ASSUME TypeInv, OneVersion
  PROVE  UnchangedIsRight
  <1>1. ASSUME NEW p \in Paths, disk[p] # Absent, Unchanged(p, disk[p])
        PROVE  rows[p].tags = disk[p].tags
    <2> DEFINE d == [rev |-> rows[p].rev, tags |-> rows[p].tags]
    <2>1. disk[p] \in Contents /\ rows[p] \in RowType /\ rows[p].rev = disk[p].rev
      BY <1>1, RowAt DEF TypeInv, DiskOK, Unchanged
    <2>2. d \in Contents
      BY <2>1, RowFields, ContentFacts
    <2>3. Known(disk[p])
      BY DEF Known
    <2>4. Known(d)
      BY <2>1, RowFields DEF Known, InRow
    <2>5. d = disk[p]
      BY <2>1, <2>2, <2>3, <2>4 DEF OneVersion
    <2> QED BY <2>5
  <1> QED BY <1>1 DEF UnchangedIsRight

\* A file that a scan would pass over as unchanged is shown with its tags,
\* whatever the program and others do to files while scans run: two copies
\* of a revision never differ, in the index, on the disk or in the memory of a
\* scan.  The one thing others must not do is to bring a file back, with
\* the revision it had, while a worker's answer about another file in its
\* place is waiting: commit_prepared compares the revision, not what was read.
THEOREM UnchangedTagsAreRight == Spec /\ [][NoReturn]_vars => []UnchangedIsRight
  <1>1. Init => TypeInv /\ KnownInv
    BY InitTypes, InitKnown
  <1>2. TypeInv /\ KnownInv /\ [Next]_vars /\ [NoReturn]_vars => TypeInv' /\ KnownInv'
    <2> SUFFICES ASSUME TypeInv, KnownInv, [Next]_vars, [NoReturn]_vars
                 PROVE  TypeInv' /\ KnownInv'
      OBVIOUS
    <2>1. TypeInv'
      BY NextTypes
    <2>2. CASE NoReturn
      BY <2>1, <2>2, NextKnown
    <2>3. CASE UNCHANGED vars
      BY <2>1, <2>3 DEF vars, KnownInv, OneVersion, Past, Read, Known, InScan, InRow
    <2> QED BY <2>1, <2>2, <2>3
  <1>3. TypeInv /\ KnownInv => UnchangedIsRight
    BY KnownIsRight DEF KnownInv
  <1> QED BY <1>1, <1>2, <1>3, PTL DEF Spec

(***************************************************************************)
(* The operation under way: nobody else has touched its files.              *)
(***************************************************************************)
OpInv ==
  op.pc # "idle" =>
    /\ Reachable(op.from) /\ Reachable(op.to)
    /\ op.kind = "tags" <=> op.from = op.to
    /\ op.kind # "tags" => disk[op.to].tags = op.old.tags
    /\ op.kind = "copy" => disk[op.from] = op.old
    /\ op.kind = "move" => disk[op.from] = Absent /\ disk[op.to] = op.old
    /\ op.pc = "source" => op.kind = "copy"

LEMMA OpStays ==
  ASSUME TypeInv, OpInv, op' = op, \A p \in Busy : disk'[p] = disk[p],
         \A p \in Busy : Reachable(p) => Reachable(p)'
  PROVE  OpInv'
  BY DEF OpInv, Busy

LEMMA ReachStays ==
  ASSUME NEW p, mount' = mount
  PROVE  Reachable(p)' <=> Reachable(p)
  BY DEF Reachable

LEMMA ScanWorld ==
  ASSUME NEW s \in Scanners, Scan(s)
  PROVE  UNCHANGED <<disk, mount, clock, op>>
  BY DEF Scan, Walk, StartScan, Stop, FolderOffline, OpenFolder, Visit, WalkFails, Touch, Submit,
         Prepare, CommitPrepared, EndWalk, EndFolder, LookForMissing, Forget, Finish, Abort,
         world, others

LEMMA PublishOp ==
  ASSUME TypeInv, Publish
  PROVE  OpInv'
  <1>1. /\ op'.pc = "published" /\ op'.old = disk[op'.from] /\ op'.from \in Paths
        /\ op'.to \in Paths /\ op'.old \in Contents
        /\ Reachable(op'.from) /\ Reachable(op'.to) /\ mount' = mount
    BY PublishEffect
  <1>2. Reachable(op.from)' /\ Reachable(op.to)'
    BY <1>1 DEF Reachable
  <1>3. CASE op'.kind = "tags" /\ op'.to = op'.from
    BY <1>1, <1>2, <1>3 DEF OpInv
  <1>4. CASE /\ op'.kind = "move" /\ op'.to # op'.from
             /\ disk' = [disk EXCEPT ![op'.from] = Absent, ![op'.to] = op'.old]
    <2>1. disk'[op'.from] = Absent /\ disk'[op'.to] = op'.old
      BY <1>1, <1>4 DEF TypeInv, DiskOK
    <2> QED BY <1>1, <1>2, <1>4, <2>1 DEF OpInv
  <1>5. CASE /\ op'.kind = "copy" /\ op'.to # op'.from
             /\ disk' = [disk EXCEPT ![op'.to] = [rev |-> clock', tags |-> op'.old.tags]]
    <2>1. disk'[op'.from] = op'.old /\ disk'[op'.to].tags = op'.old.tags
      BY <1>1, <1>5 DEF TypeInv, DiskOK
    <2> QED BY <1>1, <1>2, <1>5, <2>1 DEF OpInv
  <1> QED BY <1>3, <1>4, <1>5, PublishEffect

LEMMA NextOp ==
  ASSUME TypeInv, OpInv, [Next]_vars
  PROVE  OpInv'
  <1>1. CASE \E s \in Scanners : Scan(s)
    BY <1>1, ScanWorld, OpStays, ReachStays
  <1>2. CASE Publish
    BY <1>2, PublishOp
  <1>3. CASE CommitDependents
    <2>1. /\ UNCHANGED <<disk, mount>> /\ op.pc = "published"
          /\ op' = IF op.kind = "copy" THEN [op EXCEPT !.pc = "source"] ELSE NoOp
      BY <1>3 DEF CommitDependents, world
    <2>2. CASE op.kind = "copy"
      <3>1. /\ op'.pc = "source" /\ op'.kind = op.kind /\ op'.from = op.from
            /\ op'.to = op.to /\ op'.old = op.old
        BY <2>1, <2>2 DEF TypeInv, OpOK
      <3>2. Reachable(op.from)' /\ Reachable(op.to)'
        BY <2>1, <3>1 DEF OpInv, Reachable
      <3> QED BY <2>1, <2>2, <3>1, <3>2 DEF OpInv
    <2>3. CASE op.kind # "copy"
      BY <2>1, <2>3, NoOpFacts DEF OpInv
    <2> QED BY <2>2, <2>3
  <1>4. CASE RollBack \/ RemoveSource
    BY <1>4, NoOpFacts DEF RollBack, RemoveSource, OpInv
  <1>5. CASE World
    <2>1. /\ op' = op /\ \A p \in Busy : disk'[p] = disk[p]
          /\ \A p \in Busy : Reachable(p) => Reachable(p)'
      <3>0. Busy \subseteq Paths
        BY OpFacts DEF Busy
      <3>1. CASE \E p \in Paths : Rewrite(p) \/ Delete(p)
        BY <3>0, <3>1, ReachStays DEF Rewrite, Delete, TypeInv, DiskOK
      <3>2. CASE \E r \in Roots : AddFolder(r) \/ RemoveFolder(r)
        BY <3>2, ReachStays DEF AddFolder, RemoveFolder, world
      <3>3. CASE \E r \in Roots, m \in Mounts : Remount(r, m)
        BY <3>0, <3>3, PathFacts DEF Remount, Reachable, TypeInv, DiskOK
      <3> QED BY <1>5, <3>1, <3>2, <3>3 DEF World
    <2> QED BY <2>1, OpStays
  <1>6. CASE UNCHANGED vars
    BY <1>6, OpStays, ReachStays DEF vars
  <1> QED BY <1>1, <1>2, <1>3, <1>4, <1>5, <1>6 DEF Next, Program

(***************************************************************************)
(* Without moves, and without tags put back, nothing comes back.             *)
(***************************************************************************)
NotMoving == op.pc # "idle" => op.kind # "move"

LEMMA NoComeback ==
  ASSUME "move" \notin Kinds, RollBacks \subseteq {"copy"},
         TypeInv, KnownInv, OpInv, NotMoving, [Next]_vars
  PROVE  NoReturn /\ NotMoving'
  <1>1. NotMoving'
    <2>1. CASE Publish
      BY <2>1, LibraryAssumption DEF Publish, NotMoving
    <2>2. CASE CommitDependents
      BY <2>2, NoOpFacts DEF CommitDependents, NotMoving, TypeInv, OpOK
    <2>3. CASE RollBack \/ RemoveSource
      BY <2>3, NoOpFacts DEF RollBack, RemoveSource, NotMoving
    <2>4. CASE (\E s \in Scanners : Scan(s)) \/ World \/ UNCHANGED vars
      <3>1. op' = op
        BY <2>4, ScanWorld DEF World, Rewrite, Delete, AddFolder, RemoveFolder, Remount, vars
      <3> QED BY <3>1 DEF NotMoving
    <2> QED BY <2>1, <2>2, <2>3, <2>4 DEF Next, Program
  <1>2. ASSUME NEW p \in Paths
        PROVE  disk'[p] \in {disk[p], Absent} \/ disk'[p].rev = clock + 1
    <2>1. CASE Publish
      BY <2>1, <1>1, PublishEffect DEF NotMoving, TypeInv, DiskOK
    <2>2. CASE RollBack
      <3>1. op.pc = "published" /\ op.kind = "copy" /\ op.from \in Paths /\ op.to \in Paths
        BY <2>2, OpFacts DEF RollBack
      <3>2. disk' = [[disk EXCEPT ![op.to] = Absent] EXCEPT ![op.from] = op.old]
        BY <2>2 DEF RollBack
      <3>3. op.old = disk[op.from]
        BY <3>1 DEF OpInv
      <3> QED BY <3>1, <3>2, <3>3 DEF TypeInv, DiskOK
    <2>3. CASE RemoveSource
      BY <2>3, OpFacts DEF RemoveSource, TypeInv, DiskOK
    <2>4. CASE World
      <3>1. CASE \E q \in Paths : Rewrite(q)
        <4> PICK q \in Paths : Rewrite(q)
          BY <3>1
        <4> DEFINE e == [rev |-> clock', tags |-> clock']
        <4>1. e.rev = clock + 1 /\ disk' = [disk EXCEPT ![q] = e]
          BY DEF Rewrite
        <4> HIDE DEF e
        <4> QED BY <4>1 DEF TypeInv, DiskOK
      <3>2. CASE \E q \in Paths : Delete(q)
        BY <3>2 DEF Delete, TypeInv, DiskOK
      <3>3. CASE \E r \in Roots : AddFolder(r) \/ RemoveFolder(r) \/ \E m \in Mounts : Remount(r, m)
        BY <3>3 DEF AddFolder, RemoveFolder, Remount, world
      <3> QED BY <2>4, <3>1, <3>2, <3>3 DEF World
    <2>5. CASE (\E s \in Scanners : Scan(s)) \/ CommitDependents \/ UNCHANGED vars
      BY <2>5, ScanWorld DEF CommitDependents, vars, world
    <2> QED BY <2>1, <2>2, <2>3, <2>4, <2>5 DEF Next, Program
  <1>3. ASSUME NEW s \in Scanners, NEW f \in scan[s].results, disk[f.path] # f.before,
               disk'[f.path] = f.before
        PROVE  FALSE
    <2>1. f \in Answer
      BY LocalFacts, ScanTypes
    <2>2. f.path \in Paths /\ f.before \in Contents
      BY <2>1 DEF Answer
    <2>3. f.before.rev <= clock
      BY <2>2 DEF KnownInv, Past, Known, InScan
    <2>4. f.before.rev \in Nat /\ clock \in Nat /\ f.before # Absent
      BY <2>2, ContentFacts, VersionFacts DEF TypeInv, DiskOK
    <2>5. f.before.rev = clock + 1
      BY <1>2, <1>3, <2>2, <2>4
    <2> QED BY <2>3, <2>4, <2>5
  <1>4. NoReturn
    BY <1>3 DEF NoReturn
  <1> QED BY <1>1, <1>4

LEMMA InitOp == Init => OpInv /\ NotMoving
  BY NoOpFacts DEF Init, OpInv, NotMoving

\* Nothing is asked of others where the program only tags and copies, and no
\* tag save is undone: every change then makes a new revision.
THEOREM TagsAreRightWithoutMoves ==
  ASSUME "move" \notin Kinds, RollBacks \subseteq {"copy"}
  PROVE  Spec => []UnchangedIsRight
  <1> DEFINE I == TypeInv /\ KnownInv /\ OpInv /\ NotMoving
  <1>1. Init => I
    BY InitTypes, InitKnown, InitOp
  <1>2. I /\ [Next]_vars => I'
    <2> SUFFICES ASSUME I, [Next]_vars
                 PROVE  I'
      OBVIOUS
    <2>1. TypeInv'
      BY NextTypes
    <2>2. OpInv'
      BY NextOp
    <2>3. NoReturn /\ NotMoving'
      BY NoComeback
    <2>4. KnownInv'
      BY <2>3, NextKnown
    <2> QED BY <2>1, <2>2, <2>3, <2>4
  <1>3. I => UnchangedIsRight
    BY KnownIsRight DEF KnownInv
  <1> HIDE DEF I
  <1> QED BY <1>1, <1>2, <1>3, PTL DEF Spec

(***************************************************************************)
(* Generations and turns.  Every scan has its own number, and what bears     *)
(* that number, a row or a folder, the scan has already had its turn at.     *)
(***************************************************************************)
Active(s) == scan[s].pc # "idle"
Numbered ==
  /\ \A s \in Scanners : Active(s) => scan[s].gen <= scans
  /\ \A s, t \in Scanners : s # t /\ Active(s) /\ Active(t) => scan[s].gen # scan[t].gen
  /\ \A p \in Paths : rows[p] # Absent => rows[p].seen <= scans
  /\ \A r \in Roots : roots[r] # Absent => roots[r].token <= scans
Turn ==
  \A s \in Scanners : Active(s) =>
    /\ \A r \in Roots : roots[r] # Absent /\ roots[r].token = scan[s].gen => r \notin scan[s].todo
    /\ \A p \in Paths : rows[p] # Absent /\ rows[p].seen = scan[s].gen => Root(p) \notin scan[s].todo
Ages == Numbered /\ Turn

LEMMA AgesOfScan ==
  ASSUME TypeInv, Ages, NEW s \in Scanners, OthersStay(s), scans' = scans, Active(s),
         Active(s)' => scan'[s].gen = scan[s].gen /\ scan'[s].todo \subseteq scan[s].todo,
         \A p \in Paths : rows'[p] # Absent =>
            \/ rows[p] # Absent /\ rows'[p].seen = rows[p].seen
            \/ rows'[p].seen = scan[s].gen /\ Root(p) \notin scan'[s].todo,
         \A r \in Roots : roots'[r] # Absent =>
            \/ roots[r] # Absent /\ roots'[r].token = roots[r].token
            \/ roots'[r].token = scan[s].gen /\ r \notin scan'[s].todo
  PROVE  Ages'
  <1>1. \A t \in Scanners : Active(t)' =>
          /\ Active(t) /\ scan'[t].gen = scan[t].gen /\ scan'[t].todo \subseteq scan[t].todo
    BY DEF OthersStay, Active
  <1>2. scan[s].gen <= scans
    BY DEF Ages, Numbered
  <1>3. Numbered'
    BY <1>1, <1>2 DEF Ages, Numbered
  <1>4. ASSUME NEW t \in Scanners, Active(t)'
        PROVE  /\ \A r \in Roots : roots'[r] # Absent /\ roots'[r].token = scan'[t].gen =>
                      r \notin scan'[t].todo
               /\ \A p \in Paths : rows'[p] # Absent /\ rows'[p].seen = scan'[t].gen =>
                      Root(p) \notin scan'[t].todo
    <2>1. t # s => scan[t].gen # scan[s].gen
      BY <1>1, <1>4 DEF Ages, Numbered
    <2> QED BY <1>1, <1>4, <2>1 DEF Ages, Turn
  <1>5. Turn'
    BY <1>4 DEF Turn
  <1> QED BY <1>3, <1>5 DEF Ages

LEMMA AgesOutside ==
  ASSUME TypeInv, Ages, scan' = scan, scans' = scans,
         \A p \in Paths : rows'[p] # Absent =>
            \/ rows[p] # Absent /\ rows'[p].seen = rows[p].seen
            \/ Registered(Root(p)) /\ rows'[p].seen = roots[Root(p)].token,
         \A r \in Roots : roots'[r] # Absent =>
            \/ roots[r] # Absent /\ roots'[r].token = roots[r].token
            \/ roots'[r].token = 0
  PROVE  Ages'
  <1>1. scans \in Nat /\ \A s \in Scanners : Active(s) => scan[s].gen # 0
    BY LocalFacts, BoundFacts DEF TypeInv, CountsOK, Placed, Active, Generations
  <1>2. Numbered'
    BY <1>1 DEF Ages, Numbered, Registered, Active
  <1>3. Turn'
    BY <1>1 DEF Ages, Turn, Registered, Active
  <1> QED BY <1>2, <1>3 DEF Ages

LEMMA AgesStart ==
  ASSUME TypeInv, Ages, NEW s \in Scanners, StartScan(s)
  PROVE  Ages'
  <1>1. /\ OthersStay(s) /\ scan'[s].gen = scans + 1 /\ scans' = scans + 1 /\ scans \in Nat
        /\ rows' = rows /\ roots' = roots
    BY StartEffect DEF StartScan, index, TypeInv, CountsOK
  <1>2. \A t \in Scanners : Active(t) => scan[t].gen \in Nat /\ scan[t].gen <= scans
    BY LocalFacts, ScanTypes DEF Ages, Numbered
  <1>3. /\ \A p \in Paths : rows[p] # Absent => rows[p].seen \in Nat /\ rows[p].seen <= scans
        /\ \A r \in Roots : roots[r] # Absent => roots[r].token \in Nat /\ roots[r].token <= scans
    <2>1. \A p \in Paths : rows[p] # Absent => rows[p].seen \in Nat
      BY RowAt, RowFields
    <2>2. \A r \in Roots : roots[r] # Absent => roots[r].token \in Nat
      BY BoundFacts DEF TypeInv, IndexOK, RootType, Generations
    <2> QED BY <2>1, <2>2 DEF Ages, Numbered
  <1>4. \A t \in Scanners : t # s => scan'[t] = scan[t]
    BY <1>1 DEF OthersStay
  <1>5. Numbered'
    <2>1. \A t \in Scanners : Active(t)' => scan'[t].gen <= scans'
      BY <1>1, <1>2, <1>4 DEF Active
    <2>2. \A t, u \in Scanners : t # u /\ Active(t)' /\ Active(u)' => scan'[t].gen # scan'[u].gen
      BY <1>1, <1>2, <1>4 DEF Active, Ages, Numbered
    <2>3. \A p \in Paths : rows'[p] # Absent => rows'[p].seen <= scans'
      BY <1>1, <1>3
    <2>4. \A r \in Roots : roots'[r] # Absent => roots'[r].token <= scans'
      BY <1>1, <1>3
    <2> QED BY <2>1, <2>2, <2>3, <2>4 DEF Numbered
  <1>6. Turn'
    <2>1. ASSUME NEW t \in Scanners, Active(t)'
          PROVE  /\ \A r \in Roots : roots'[r] # Absent /\ roots'[r].token = scan'[t].gen =>
                        r \notin scan'[t].todo
                 /\ \A p \in Paths : rows'[p] # Absent /\ rows'[p].seen = scan'[t].gen =>
                        Root(p) \notin scan'[t].todo
      <3>1. CASE t = s
        BY <1>1, <1>3, <3>1
      <3>2. CASE t # s
        BY <1>1, <1>4, <2>1, <3>2 DEF Ages, Turn, Active
      <3> QED BY <3>1, <3>2
    <2> QED BY <2>1 DEF Turn
  <1> QED BY <1>5, <1>6 DEF Ages

\* What a scan writes bears its number only in folders it owns, and what it
\* owns is not on its list any more.
LEMMA OwnsTurn ==
  ASSUME TypeInv, Ages, NEW s \in Scanners, Active(s), Owns(s)
  PROVE  scan[s].root \notin scan[s].todo
  BY DEF Ages, Turn, Owns, Registered

LEMMA ScanAges ==
  ASSUME TypeInv, Ages, NEW s \in Scanners, Scan(s)
  PROVE  Ages'
  <1>1. CASE StartScan(s)
    BY <1>1, AgesStart
  <1>2. CASE Touch(s)
    <2>1. /\ OthersStay(s) /\ SameTurn(scan[s], scan'[s]) /\ Active(s)
          /\ Place(s) \in Paths /\ Root(Place(s)) = scan[s].root
          /\ scans' = scans /\ roots' = roots
          /\ \/ rows' = rows
             \/ /\ rows[Place(s)] # Absent /\ Owns(s)
                /\ rows' = [rows EXCEPT ![Place(s)] = [rows[Place(s)] EXCEPT
                                          !.available = TRUE, !.seen = scan[s].gen]]
      BY <1>2, TouchEffect DEF Touch, Active, GoesOn, GivesUp
    <2>2. CASE rows' = rows
      BY <2>1, <2>2, AgesOfScan DEF SameTurn
    <2>3. CASE /\ rows[Place(s)] # Absent /\ Owns(s)
               /\ rows' = [rows EXCEPT ![Place(s)] = [rows[Place(s)] EXCEPT
                                          !.available = TRUE, !.seen = scan[s].gen]]
      <3> DEFINE y == [rows[Place(s)] EXCEPT !.available = TRUE, !.seen = scan[s].gen]
      <3>1. scan[s].gen \in Generations
        BY <2>1, LocalFacts DEF Placed, Active
      <3>2. y.seen = scan[s].gen
        BY <2>1, <2>3, <3>1, RowAt, TouchedRow
      <3>3. rows' = [rows EXCEPT ![Place(s)] = y]
        BY <2>3
      <3> HIDE DEF y
      <3>4. \A p \in Paths : p # Place(s) => rows'[p] = rows[p]
        BY <3>3 DEF TypeInv, IndexOK
      <3>5. rows'[Place(s)] = y
        BY <2>1, <3>3 DEF TypeInv, IndexOK
      <3>6. scan[s].root \notin scan'[s].todo
        BY <2>1, <2>3, OwnsTurn DEF SameTurn
      <3> QED BY <2>1, <3>2, <3>4, <3>5, <3>6, AgesOfScan DEF SameTurn
    <2> QED BY <2>1, <2>2, <2>3
  <1>3. CASE CommitPrepared(s)
    <2>1. /\ OthersStay(s) /\ SameTurn(scan[s], scan'[s]) /\ Active(s)
          /\ scans' = scans /\ roots' = roots
          /\ \E f \in scan[s].results :
              /\ f \in Answer /\ Root(f.path) = scan[s].root
              /\ \/ rows' = rows
                 \/ /\ rows[f.path] # Absent
                    /\ rows' = [rows EXCEPT ![f.path] = [rows[f.path] EXCEPT !.complete = FALSE]]
                 \/ /\ Owns(s)
                    /\ rows' = [rows EXCEPT ![f.path] =
                                  Row([rev |-> f.before.rev, tags |-> f.tags], scan[s].gen)]
      BY <1>3, CommitEffect DEF CommitPrepared, Active
    <2> PICK f \in scan[s].results :
              /\ f \in Answer /\ Root(f.path) = scan[s].root
              /\ \/ rows' = rows
                 \/ /\ rows[f.path] # Absent
                    /\ rows' = [rows EXCEPT ![f.path] = [rows[f.path] EXCEPT !.complete = FALSE]]
                 \/ /\ Owns(s)
                    /\ rows' = [rows EXCEPT ![f.path] =
                                  Row([rev |-> f.before.rev, tags |-> f.tags], scan[s].gen)]
      BY <2>1
    <2>2. f.path \in Paths
      BY DEF Answer
    <2>3. CASE rows' = rows
      BY <2>1, <2>3, AgesOfScan DEF SameTurn
    <2>4. CASE /\ rows[f.path] # Absent
               /\ rows' = [rows EXCEPT ![f.path] = [rows[f.path] EXCEPT !.complete = FALSE]]
      <3> DEFINE y == [rows[f.path] EXCEPT !.complete = FALSE]
      <3>1. y.seen = rows[f.path].seen
        BY <2>2, <2>4, RowAt, OldRow
      <3>2. rows' = [rows EXCEPT ![f.path] = y]
        BY <2>4
      <3> HIDE DEF y
      <3>3. \A p \in Paths : rows'[p] # Absent =>
               rows[p] # Absent /\ rows'[p].seen = rows[p].seen
        BY <2>2, <2>4, <3>1, <3>2 DEF TypeInv, IndexOK
      <3> QED BY <2>1, <3>3, AgesOfScan DEF SameTurn
    <2>5. CASE /\ Owns(s)
               /\ rows' = [rows EXCEPT ![f.path] =
                                  Row([rev |-> f.before.rev, tags |-> f.tags], scan[s].gen)]
      <3> DEFINE y == Row([rev |-> f.before.rev, tags |-> f.tags], scan[s].gen)
      <3>1. y.seen = scan[s].gen
        BY DEF Row
      <3>2. rows' = [rows EXCEPT ![f.path] = y]
        BY <2>5
      <3> HIDE DEF y
      <3>3. \A p \in Paths : p # f.path => rows'[p] = rows[p]
        BY <3>2 DEF TypeInv, IndexOK
      <3>4. rows'[f.path] = y
        BY <2>2, <3>2 DEF TypeInv, IndexOK
      <3>5. Root(f.path) \notin scan'[s].todo
        BY <2>1, <2>5, OwnsTurn DEF SameTurn
      <3> QED BY <2>1, <3>1, <3>3, <3>4, <3>5, AgesOfScan DEF SameTurn
    <2> QED BY <2>3, <2>4, <2>5
  <1>4. CASE FolderOffline(s)
    <2>1. /\ OthersStay(s) /\ Active(s) /\ scans' = scans /\ scan'[s].gen = scan[s].gen
          /\ \E r \in scan[s].todo :
              /\ r \in Roots /\ scan'[s].todo = scan[s].todo \ {r}
              /\ roots' = IF Registered(r)
                     THEN [roots EXCEPT ![r] = [token |-> scan[s].gen, state |-> "offline"]]
                     ELSE roots
              /\ rows' = [p \in Paths |-> IF p \in RowsOf(r)
                        THEN [rows[p] EXCEPT !.available = FALSE] ELSE rows[p]]
      BY <1>4, OfflineEffect DEF FolderOffline, Active
    <2> PICK r \in scan[s].todo :
              /\ r \in Roots /\ scan'[s].todo = scan[s].todo \ {r}
              /\ roots' = IF Registered(r)
                     THEN [roots EXCEPT ![r] = [token |-> scan[s].gen, state |-> "offline"]]
                     ELSE roots
              /\ rows' = [p \in Paths |-> IF p \in RowsOf(r)
                        THEN [rows[p] EXCEPT !.available = FALSE] ELSE rows[p]]
      BY <2>1
    <2>2. \A p \in Paths : rows'[p] # Absent => rows[p] # Absent /\ rows'[p].seen = rows[p].seen
      BY RowAt, HiddenRow DEF RowsOf
    <2>3. \A q \in Roots : q # r => roots'[q] = roots[q]
      BY DEF TypeInv, IndexOK
    <2>4. roots'[r] # Absent => roots'[r].token = scan[s].gen
      <3> DEFINE x == [token |-> scan[s].gen, state |-> "offline"]
      <3>1. x.token = scan[s].gen
        OBVIOUS
      <3>2. roots' = IF Registered(r) THEN [roots EXCEPT ![r] = x] ELSE roots
        OBVIOUS
      <3> HIDE DEF x
      <3> QED BY <3>1, <3>2 DEF Registered, TypeInv, IndexOK
    <2> QED BY <2>1, <2>2, <2>3, <2>4, AgesOfScan
  <1>5. CASE OpenFolder(s)
    <2>1. /\ OthersStay(s) /\ Active(s) /\ scans' = scans /\ scan'[s].gen = scan[s].gen
          /\ rows' = rows
          /\ \E r \in scan[s].todo :
              /\ r \in Roots /\ scan'[s].todo = scan[s].todo \ {r}
              /\ \A q \in Roots : roots'[q] = IF q = r /\ Registered(r)
                     THEN [roots[r] EXCEPT !.token = scan[s].gen] ELSE roots[q]
      BY <1>5, OpenEffect DEF OpenFolder, Active
    <2> PICK r \in scan[s].todo :
              /\ r \in Roots /\ scan'[s].todo = scan[s].todo \ {r}
              /\ \A q \in Roots : roots'[q] = IF q = r /\ Registered(r)
                     THEN [roots[r] EXCEPT !.token = scan[s].gen] ELSE roots[q]
      BY <2>1
    <2>2. roots'[r] # Absent => roots'[r].token = scan[s].gen
      <3>1. CASE Registered(r)
        <4>1. roots[r] \in RootType /\ roots'[r] = [roots[r] EXCEPT !.token = scan[s].gen]
          BY <3>1 DEF Registered, TypeInv, IndexOK
        <4> QED BY <4>1 DEF RootType
      <3> QED BY <3>1 DEF Registered
    <2> QED BY <2>1, <2>2, AgesOfScan
  <1>6. CASE EndFolder(s)
    <2>1. \A p \in Paths : /\ rows'[p] \in {rows[p], [rows[p] EXCEPT !.available = FALSE]}
                           /\ rows[p] = Absent => rows'[p] = Absent
      BY <1>6, EndFolderEffect DEF RowsOf
    <2>2. ASSUME NEW p \in Paths, rows'[p] # Absent
          PROVE  rows[p] # Absent /\ rows'[p].seen = rows[p].seen
      <3>1. rows[p] \in RowType
        BY <2>1, <2>2, RowAt
      <3>2. [rows[p] EXCEPT !.available = FALSE].seen = rows[p].seen
        BY <3>1, HiddenRow
      <3> QED BY <2>1, <2>2, <3>2
    <2>3. \A r \in Roots : (roots'[r] = Absent <=> roots[r] = Absent)
                          /\ (roots[r] # Absent => roots'[r].token = roots[r].token)
      BY <1>6, EndFolderEffect
    <2>4. /\ OthersStay(s) /\ Active(s) /\ scans' = scans
          /\ scan'[s].gen = scan[s].gen /\ scan'[s].todo \subseteq scan[s].todo
      BY <1>6, EndFolderEffect DEF EndFolder, Active
    <2>5. \A r \in Roots : roots'[r] # Absent => roots[r] # Absent /\ roots'[r].token = roots[r].token
      BY <2>3
    <2> QED BY <2>2, <2>4, <2>5, AgesOfScan
  <1>7. CASE Forget(s)
    <2>1. /\ OthersStay(s) /\ Active(s) /\ scans' = scans /\ SameTurn(scan[s], scan'[s])
          /\ roots' = roots
          /\ \A p \in Paths : rows'[p] \in {rows[p], Absent}
      BY <1>7, ForgetEffect DEF Forget, Active, TypeInv, IndexOK
    <2> QED BY <2>1, AgesOfScan DEF SameTurn
  <1>8. CASE \/ Stop(s) \/ Visit(s) \/ WalkFails(s) \/ Submit(s) \/ Prepare(s) \/ EndWalk(s)
             \/ LookForMissing(s) \/ Finish(s) \/ Abort(s)
    <2>1. rows' = rows /\ roots' = roots /\ scans' = scans
      BY <1>8 DEF Stop, Visit, WalkFails, Submit, Prepare, EndWalk, LookForMissing, Finish, Abort,
                  index
    <2>2. /\ OthersStay(s) /\ Active(s)
          /\ Active(s)' => scan'[s].gen = scan[s].gen /\ scan'[s].todo = scan[s].todo
      <3>1. CASE Stop(s)
        BY <3>1, StopEffect DEF Active
      <3>2. CASE Visit(s)
        BY <3>2, VisitEffect DEF Active, GivesUp, GoesOn, SameTurn
      <3>3. CASE WalkFails(s) \/ Submit(s)
        BY <3>3, WalkFailsEffect, SubmitEffect DEF Active, GivesUp, GoesOn, SameTurn
      <3>4. CASE Prepare(s)
        <4>1. scan[s].requests # {}
          BY <3>4 DEF Prepare
        <4>2. Active(s)
          BY <4>1, LocalFacts DEF Placed, Active
        <4> QED BY <3>4, <4>2, PrepareEffect DEF SameTurn
      <3>5. CASE EndWalk(s) \/ LookForMissing(s)
        BY <3>5, EndWalkEffect, LookEffect DEF Active, SameTurn
      <3>6. CASE Finish(s) \/ Abort(s)
        BY <3>6, EndEffect, IdleFacts DEF Active, Finish, Finished, Abort
      <3> QED BY <1>8, <3>1, <3>2, <3>3, <3>4, <3>5, <3>6
    <2> QED BY <2>1, <2>2, AgesOfScan
  <1> QED BY <1>1, <1>2, <1>3, <1>4, <1>5, <1>6, <1>7, <1>8 DEF Scan, Walk

LEMMA NextAges ==
  ASSUME TypeInv, Ages, [Next]_vars
  PROVE  Ages'
  <1>1. CASE \E s \in Scanners : Scan(s)
    BY <1>1, ScanAges
  <1>2. CASE CommitDependents
    <2>1. scan' = scan /\ scans' = scans /\ roots' = roots
      BY <1>2 DEF CommitDependents
    <2>2. ASSUME NEW p \in Paths, rows'[p] # Absent
          PROVE  \/ rows[p] # Absent /\ rows'[p].seen = rows[p].seen
                 \/ Registered(Root(p)) /\ rows'[p].seen = roots[Root(p)].token
      BY <1>2, <2>2, FollowedEffect
    <2> QED BY <2>1, <2>2, AgesOutside
  <1>3. CASE \/ Publish \/ RollBack \/ RemoveSource \/ (\E p \in Paths : Rewrite(p) \/ Delete(p))
             \/ (\E r \in Roots, m \in Mounts : Remount(r, m)) \/ UNCHANGED vars
    <2>1. UNCHANGED <<scan, scans, rows, roots>>
      BY <1>3 DEF Publish, RollBack, RemoveSource, Rewrite, Delete, Remount, index, vars
    <2> QED BY <2>1, AgesOutside
  <1>4. CASE \E r \in Roots : AddFolder(r) \/ RemoveFolder(r)
    <2> PICK r \in Roots : AddFolder(r) \/ RemoveFolder(r)
      BY <1>4
    <2>1. /\ scan' = scan /\ scans' = scans
          /\ \A p \in Paths : rows'[p] \in {rows[p], Absent}
          /\ \A q \in Roots : roots'[q] \in {roots[q], Absent, [token |-> 0, state |-> "new"]}
      BY DEF AddFolder, RemoveFolder, TypeInv, IndexOK
    <2>2. [token |-> 0, state |-> "new"].token = 0
      OBVIOUS
    <2> DEFINE x == [token |-> 0, state |-> "new"]
    <2> HIDE DEF x
    <2>3. x.token = 0 /\ \A q \in Roots : roots'[q] \in {roots[q], Absent, x}
      BY <2>1, <2>2 DEF x
    <2> QED BY <2>1, <2>3, AgesOutside
  <1> QED BY <1>1, <1>2, <1>3, <1>4 DEF Next, Program, World

LEMMA InitAges == Init => Ages
  <1> SUFFICES ASSUME Init
               PROVE  Ages
    OBVIOUS
  <1>1. \A s \in Scanners : ~Active(s)
    BY IdleFacts DEF Init, Active
  <1>2. \A p \in Paths : rows[p] # Absent => rows[p].seen = 1
    BY DEF Init, Row
  <1>3. \A r \in Roots : roots[r] # Absent => roots[r].token \in {0, 1}
    BY DEF Init
  <1>4. scans = 1
    BY DEF Init
  <1> QED BY <1>1, <1>2, <1>3, <1>4 DEF Ages, Numbered, Turn

(***************************************************************************)
(* What a scan has done for a path.  It answers for the paths of a folder    *)
(* once the folder is off its list, unless something has happened to them   *)
(* that it could not see, and while no copy or move has them half done.     *)
(***************************************************************************)
Working(s) == scan[s].pc \in {"walk", "touch", "submit", "drain"}
Answers(s, p) ==
  p \notin spoilt[s] /\ Active(s) /\ Registered(Root(p)) /\ Root(p) \notin scan[s].todo
Exempt ==
  IF op.pc = "published" /\ op.kind # "tags" THEN {op.from, op.to}
  ELSE IF op.pc = "source" THEN {op.from} ELSE {}
Retagged(p) == op.pc = "published" /\ op.kind = "tags" /\ op.from = p

\* The row shows the file.  (The tags of a save that the database has not
\* heard of are those of the row.)
Good(s, p) ==
  /\ rows[p] # Absent /\ rows[p].available /\ rows[p].seen = scan[s].gen
  /\ ~Retagged(p) => rows[p].tags = Seen(p).tags
InHand(s, p) ==
  (\E q \in scan[s].requests : q.path = p) \/ (\E f \in scan[s].results : f.path = p)
Here(s, p) == Working(s) /\ Root(p) = scan[s].root
Passed(s, p) == scan[s].pc = "drain" \/ p[2] < scan[s].next

There(s, p) == rows[p] # Absent /\ rows[p].seen = scan[s].gen => Seen(p) # Absent
WalkRight(s, p) ==
  Here(s, p) /\ Passed(s, p) =>
    ~scan[s].complete \/ InHand(s, p) \/ Seen(p) = Absent \/ Good(s, p)
DoneRight(s, p) ==
  ~Here(s, p) =>
    \/ scan[s].incomplete
    \/ Seen(p) = Absent /\ (rows[p] = Absent \/ ~rows[p].available)
    \/ Seen(p) # Absent /\ Good(s, p)
TouchRight(s, p) ==
  scan[s].pc = "touch" /\ p = Place(s) =>
    \/ Seen(p) # scan[s].held
    \/ Good(s, p)
    \/ rows[p] # Absent /\ rows[p].rev = scan[s].held.rev
Right(s, p) ==
  Answers(s, p) /\ p \notin Exempt =>
    There(s, p) /\ WalkRight(s, p) /\ DoneRight(s, p) /\ TouchRight(s, p)
Owned(s, p) == Answers(s, p) => roots[Root(p)].token = scan[s].gen
RightInv == \A s \in Scanners, p \in Paths : Owned(s, p) /\ Right(s, p)

\* A path, and what a scan knows of it, as they were.
SameView(c, d) ==
  /\ d.gen = c.gen /\ d.todo = c.todo /\ d.root = c.root /\ d.incomplete = c.incomplete
  /\ d.requests = c.requests /\ d.results = c.results
  /\ d.pc = c.pc /\ d.next = c.next /\ d.held = c.held /\ d.complete = c.complete
SameRow(p) ==
  /\ rows'[p] = Absent <=> rows[p] = Absent
  /\ rows[p] # Absent => /\ rows'[p].rev = rows[p].rev /\ rows'[p].tags = rows[p].tags
                         /\ rows'[p].available = rows[p].available
                         /\ rows'[p].seen = rows[p].seen
SamePath(p) == SameRow(p) /\ Seen(p)' = Seen(p) /\ (Retagged(p) <=> Retagged(p)')

LEMMA GoodStays ==
  ASSUME NEW s \in Scanners, NEW p \in Paths, SamePath(p), scan'[s].gen = scan[s].gen
  PROVE  (Good(s, p) <=> Good(s, p)') /\ (There(s, p) <=> There(s, p)')
  BY DEF SamePath, SameRow, Good, There

LEMMA RightStays ==
  ASSUME NEW s \in Scanners, NEW p \in Paths, Right(s, p), SamePath(p),
         SameView(scan[s], scan'[s]), Answers(s, p)' => Answers(s, p),
         p \notin Exempt' => p \notin Exempt
  PROVE  Right(s, p)'
  <1>1. (Good(s, p) <=> Good(s, p)') /\ (There(s, p) <=> There(s, p)')
    BY GoodStays DEF SameView
  <1>2. WalkRight(s, p) => WalkRight(s, p)'
    BY <1>1 DEF WalkRight, SameView, SamePath, Here, Working, Passed, InHand
  <1>3. DoneRight(s, p) => DoneRight(s, p)'
    BY <1>1 DEF DoneRight, SameView, SamePath, SameRow, Here, Working
  <1>4. TouchRight(s, p) => TouchRight(s, p)'
    BY <1>1 DEF TouchRight, SameView, SamePath, SameRow, Place
  <1> QED BY <1>1, <1>2, <1>3, <1>4 DEF Right

\* A file that is gone, with its row, has nothing to be answered for, and a
\* row that shows its file is right wherever the scan is.
LEMMA GoneAfter ==
  ASSUME TypeInv', NEW s \in Scanners, NEW p \in Paths, rows'[p] = Absent, Seen(p)' = Absent
  PROVE  Right(s, p)'
  <1>1. scan'[s].pc = "touch" => scan'[s].held # Absent
    BY ContentFacts DEF TypeInv, ScansOK, Placed
  <1> QED BY <1>1 DEF Right, There, WalkRight, DoneRight, TouchRight

LEMMA GoodAfter ==
  ASSUME NEW s \in Scanners, NEW p \in Paths, Good(s, p)', Seen(p)' # Absent
  PROVE  Right(s, p)'
  BY DEF Right, There, WalkRight, DoneRight, TouchRight

LEMMA WorldSame ==
  ASSUME UNCHANGED <<world, op>>, NEW p \in Paths
  PROVE  /\ Seen(p)' = Seen(p) /\ (Retagged(p) <=> Retagged(p)')
         /\ (p \in Exempt <=> p \in Exempt')
  BY DEF world, Seen, Reachable, Retagged, Exempt

\* One scan does not disturb what another answers for: it writes to rows and
\* folders that it owns, and it takes a folder over before it owns it.
LEMMA OtherRight ==
  ASSUME TypeInv, RightInv, NEW s \in Scanners, NEW t \in Scanners, t # s, OthersStay(s),
         UNCHANGED <<world, op>>, NEW p \in Paths,
         Answers(t, p)' => Answers(t, p) /\ SameRow(p) /\ roots'[Root(p)].token = roots[Root(p)].token
  PROVE  Owned(t, p)' /\ Right(t, p)'
  <1>1. scan'[t] = scan[t]
    BY DEF OthersStay
  <1>2. Owned(t, p)'
    BY <1>1 DEF RightInv, Owned
  <1>3. CASE Answers(t, p)'
    <2>1. SamePath(p) /\ (p \in Exempt <=> p \in Exempt')
      BY <1>3, WorldSame DEF SamePath
    <2> QED BY <1>1, <1>2, <1>3, <2>1, RightStays DEF RightInv, SameView
  <1>4. CASE ~Answers(t, p)'
    BY <1>2, <1>4 DEF Right
  <1> QED BY <1>3, <1>4

LEMMA NotTheirs ==
  ASSUME Ages, RightInv, NEW s \in Scanners, NEW t \in Scanners, t # s, Active(s), Owns(s),
         NEW p \in Paths, Root(p) = scan[s].root
  PROVE  ~Answers(t, p)
  BY DEF Ages, Numbered, RightInv, Owned, Owns, Answers

LEMMA AnswersStay ==
  ASSUME NEW t \in Scanners, NEW p \in Paths, scan'[t] = scan[t], spoilt[t] \subseteq spoilt'[t],
         Registered(Root(p))' => Registered(Root(p)), Answers(t, p)'
  PROVE  Answers(t, p)
  BY DEF Answers, Active

LEMMA QuietSpares ==
  ASSUME TypeInv, RightInv, NEW s \in Scanners, NEW t \in Scanners, t # s, NEW p \in Paths,
         \/ StartScan(s) \/ Stop(s) \/ Visit(s) \/ WalkFails(s) \/ Submit(s) \/ Prepare(s)
         \/ EndWalk(s) \/ LookForMissing(s) \/ Finish(s) \/ Abort(s)
  PROVE  Owned(t, p)' /\ Right(t, p)'
  <1>1. /\ UNCHANGED <<world, op, rows, roots>> /\ spoilt[t] \subseteq spoilt'[t]
    BY DEF StartScan, Stop, Visit, WalkFails, Submit, Prepare, EndWalk, LookForMissing, Finish,
           Abort, others, index, Unspoilt, TypeInv, CountsOK
  <1>2. OthersStay(s)
    BY StartEffect, StopEffect, VisitEffect, WalkFailsEffect, SubmitEffect, PrepareEffect,
       EndWalkEffect, LookEffect, EndEffect
  <1>3. Answers(t, p)' => Answers(t, p)
    BY <1>1, <1>2, AnswersStay DEF OthersStay, Registered
  <1>4. SameRow(p)
    BY <1>1 DEF SameRow
  <1> QED BY <1>1, <1>2, <1>3, <1>4, OtherRight

LEMMA FolderSpares ==
  ASSUME TypeInv, RightInv, NEW s \in Scanners, NEW t \in Scanners, t # s, NEW p \in Paths,
         FolderOffline(s) \/ OpenFolder(s)
  PROVE  Owned(t, p)' /\ Right(t, p)'
  <1>1. OthersStay(s) /\ UNCHANGED <<world, op>>
    BY OfflineEffect, OpenEffect DEF FolderOffline, OpenFolder, others
  <1>2. \E r \in Roots :
          /\ TakenOver(s, r)
          /\ Root(p) # r => rows'[p] = rows[p] /\ (Root(p) \in Roots => roots'[Root(p)] = roots[Root(p)])
    <2>1. CASE FolderOffline(s)
      <3> PICK r \in scan[s].todo :
              /\ r \in Roots /\ TakenOver(s, r)
              /\ roots' = IF Registered(r)
                     THEN [roots EXCEPT ![r] = [token |-> scan[s].gen, state |-> "offline"]]
                     ELSE roots
              /\ rows' = [q \in Paths |-> IF q \in RowsOf(r)
                        THEN [rows[q] EXCEPT !.available = FALSE] ELSE rows[q]]
        BY <2>1, OfflineEffect
      <3>1. Root(p) # r => rows'[p] = rows[p]
        BY DEF RowsOf
      <3>2. \A q \in Roots : q # r => roots'[q] = roots[q]
        BY DEF TypeInv, IndexOK
      <3> QED BY <3>1, <3>2
    <2>2. CASE OpenFolder(s)
      <3>1. rows' = rows
        BY <2>2 DEF OpenFolder
      <3> PICK r \in scan[s].todo :
              /\ r \in Roots /\ TakenOver(s, r)
              /\ \A q \in Roots : roots'[q] = IF q = r /\ Registered(r)
                     THEN [roots[r] EXCEPT !.token = scan[s].gen] ELSE roots[q]
        BY <2>2, OpenEffect
      <3> QED BY <3>1
    <2> QED BY <2>1, <2>2
  <1> PICK r \in Roots :
          /\ TakenOver(s, r)
          /\ Root(p) # r => rows'[p] = rows[p] /\ (Root(p) \in Roots => roots'[Root(p)] = roots[Root(p)])
    BY <1>2
  <1>3. spoilt'[t] = spoilt[t] \cup {q \in Paths : Root(q) = r}
    BY DEF TakenOver
  <1>4. CASE Root(p) = r
    <2>1. ~Answers(t, p)'
      BY <1>3, <1>4 DEF Answers
    <2> QED BY <2>1 DEF Owned, Right
  <1>5. CASE Root(p) # r
    <2>1. Answers(t, p)' => Answers(t, p)
      BY <1>1, <1>3, <1>5, AnswersStay DEF OthersStay, Registered
    <2>2. Answers(t, p) => Root(p) \in Roots
      BY DEF Answers, Registered
    <2>3. SameRow(p)
      BY <1>5 DEF SameRow
    <2> QED BY <1>1, <1>5, <2>1, <2>2, <2>3, OtherRight
  <1> QED BY <1>4, <1>5

LEMMA WritingSpares ==
  ASSUME TypeInv, Ages, RightInv, NEW s \in Scanners, NEW t \in Scanners, t # s, NEW p \in Paths,
         Touch(s) \/ CommitPrepared(s) \/ EndFolder(s) \/ Forget(s)
  PROVE  Owned(t, p)' /\ Right(t, p)'
  <1>1. OthersStay(s) /\ UNCHANGED <<world, op, spoilt>> /\ Active(s)
    BY TouchEffect, CommitEffect, EndFolderEffect, ForgetEffect
       DEF Touch, CommitPrepared, EndFolder, Forget, others, Unspoilt, Active
  <1>2. \A r \in Roots : (roots'[r] = Absent <=> roots[r] = Absent)
                         /\ (roots[r] # Absent => roots'[r].token = roots[r].token)
    <2>1. CASE EndFolder(s)
      BY <2>1, EndFolderEffect
    <2>2. CASE ~EndFolder(s)
      BY <2>2 DEF Touch, CommitPrepared, Forget
    <2> QED BY <2>1, <2>2
  <1>3. Answers(t, p)' => Answers(t, p)
    BY <1>1, <1>2, AnswersStay DEF OthersStay, Registered
  <1>4. Answers(t, p) => Registered(Root(p))
    BY DEF Answers
  <1>5. SameRow(p) \/ (Owns(s) /\ Root(p) = scan[s].root)
    <2>1. CASE Touch(s)
      <3>1. /\ Place(s) \in Paths /\ Root(Place(s)) = scan[s].root
            /\ \/ rows' = rows
               \/ /\ Owns(s)
                  /\ rows' = [rows EXCEPT ![Place(s)] = [rows[Place(s)] EXCEPT
                                          !.available = TRUE, !.seen = scan[s].gen]]
        BY <2>1, TouchEffect
      <3>2. p # Place(s) \/ rows' = rows => rows'[p] = rows[p]
        BY <3>1 DEF TypeInv, IndexOK
      <3> QED BY <3>1, <3>2 DEF SameRow
    <2>2. CASE CommitPrepared(s)
      <3> PICK f \in scan[s].results :
              /\ f \in Answer /\ Root(f.path) = scan[s].root
              /\ \/ rows' = rows
                 \/ /\ rows[f.path] # Absent
                    /\ rows' = [rows EXCEPT ![f.path] = [rows[f.path] EXCEPT !.complete = FALSE]]
                 \/ /\ Owns(s)
                    /\ rows' = [rows EXCEPT ![f.path] =
                                  Row([rev |-> f.before.rev, tags |-> f.tags], scan[s].gen)]
        BY <2>2, CommitEffect
      <3>1. f.path \in Paths
        BY DEF Answer
      <3>2. CASE rows' = rows
        BY <3>2 DEF SameRow
      <3>3. CASE /\ rows[f.path] # Absent
                 /\ rows' = [rows EXCEPT ![f.path] = [rows[f.path] EXCEPT !.complete = FALSE]]
        <4> DEFINE y == [rows[f.path] EXCEPT !.complete = FALSE]
        <4>1. /\ y # Absent /\ y.rev = rows[f.path].rev /\ y.tags = rows[f.path].tags
              /\ y.seen = rows[f.path].seen /\ y.available = rows[f.path].available
          BY <3>1, <3>3, RowAt, OldRow
        <4>2. rows' = [rows EXCEPT ![f.path] = y]
          BY <3>3
        <4> HIDE DEF y
        <4> QED BY <3>1, <3>3, <4>1, <4>2 DEF SameRow, TypeInv, IndexOK
      <3>4. CASE /\ Owns(s)
                 /\ rows' = [rows EXCEPT ![f.path] =
                                  Row([rev |-> f.before.rev, tags |-> f.tags], scan[s].gen)]
        <4>1. p # f.path => rows'[p] = rows[p]
          BY <3>1, <3>4 DEF TypeInv, IndexOK
        <4> QED BY <3>4, <4>1 DEF SameRow
      <3> QED BY <3>2, <3>3, <3>4
    <2>3. CASE EndFolder(s)
      <3>1. rows'[p] = rows[p] \/ (Owns(s) /\ p \in RowsOf(scan[s].root))
        BY <2>3, EndFolderEffect
      <3> QED BY <3>1 DEF SameRow, RowsOf
    <2>4. CASE Forget(s)
      <3>1. /\ Place(s) \in Paths /\ Root(Place(s)) = scan[s].root
            /\ \/ rows' = rows
               \/ Forgettable(s, Place(s)) /\ rows' = [rows EXCEPT ![Place(s)] = Absent]
        BY <2>4, ForgetEffect
      <3>2. p # Place(s) \/ rows' = rows => rows'[p] = rows[p]
        BY <3>1 DEF TypeInv, IndexOK
      <3> QED BY <3>1, <3>2 DEF SameRow, Forgettable
    <2> QED BY <2>1, <2>2, <2>3, <2>4
  <1>6. Owns(s) /\ Root(p) = scan[s].root => ~Answers(t, p)
    BY <1>1, NotTheirs
  <1>7. Answers(t, p)' => /\ Answers(t, p) /\ SameRow(p)
                          /\ roots'[Root(p)].token = roots[Root(p)].token
    BY <1>2, <1>3, <1>4, <1>5, <1>6 DEF Registered
  <1> QED BY <1>1, <1>7, OtherRight

LEMMA ScanSparesOthers ==
  ASSUME TypeInv, Ages, RightInv, NEW s \in Scanners, Scan(s), NEW t \in Scanners, t # s,
         NEW p \in Paths
  PROVE  Owned(t, p)' /\ Right(t, p)'
  BY QuietSpares, FolderSpares, WritingSpares DEF Scan, Walk

(***************************************************************************)
(* The scan at work on its own paths.                                       *)
(***************************************************************************)
LEMMA OwnAnswers ==
  ASSUME RightInv, NEW s \in Scanners, NEW p \in Paths, Active(s),
         UNCHANGED <<roots, spoilt>>, SameTurn(scan[s], scan'[s])
  PROVE  (Answers(s, p)' => Answers(s, p)) /\ Owned(s, p)'
  BY DEF RightInv, Answers, Owned, SameTurn, Active, Registered

LEMMA AwayStays ==
  ASSUME NEW s \in Scanners, NEW p \in Paths, Right(s, p), SamePath(p),
         Answers(s, p)' => Answers(s, p), p \notin Exempt' => p \notin Exempt,
         ~Here(s, p), ~Here(s, p)', scan'[s].gen = scan[s].gen,
         scan[s].incomplete => scan'[s].incomplete, TouchRight(s, p)'
  PROVE  Right(s, p)'
  <1>1. (Good(s, p) <=> Good(s, p)') /\ (There(s, p) <=> There(s, p)')
    BY GoodStays
  <1>2. DoneRight(s, p) => DoneRight(s, p)'
    BY <1>1 DEF DoneRight, SamePath, SameRow
  <1>3. WalkRight(s, p)'
    BY DEF WalkRight
  <1> QED BY <1>1, <1>2, <1>3 DEF Right

LEMMA OnTheWalk ==
  ASSUME TypeInv, RightInv, NEW s \in Scanners, NEW p \in Paths,
         UNCHANGED <<world, op, roots, spoilt>>, SameTurn(scan[s], scan'[s]),
         Working(s), Working(s)', SamePath(p),
         Answers(s, p) /\ p \notin Exempt => TouchRight(s, p)',
         Answers(s, p) /\ p \notin Exempt /\ Here(s, p) => WalkRight(s, p)'
  PROVE  Owned(s, p)' /\ Right(s, p)'
  <1>1. (Answers(s, p)' => Answers(s, p)) /\ Owned(s, p)'
    BY OwnAnswers DEF Working, Active
  <1>2. p \in Exempt <=> p \in Exempt'
    BY WorldSame
  <1>3. Here(s, p) <=> Here(s, p)'
    BY DEF Here, SameTurn
  <1>4. CASE Answers(s, p) /\ p \notin Exempt /\ Here(s, p)
    <2>1. There(s, p)'
      BY <1>4, GoodStays DEF RightInv, Right, SameTurn
    <2>2. DoneRight(s, p)'
      BY <1>3, <1>4 DEF DoneRight
    <2> QED BY <1>1, <1>4, <2>1, <2>2 DEF Right
  <1>5. CASE Answers(s, p) /\ p \notin Exempt /\ ~Here(s, p)
    BY <1>1, <1>2, <1>3, <1>5, AwayStays DEF RightInv, SameTurn
  <1>6. CASE ~(Answers(s, p) /\ p \notin Exempt)
    BY <1>1, <1>2, <1>6 DEF Right
  <1> QED BY <1>4, <1>5, <1>6

\* Going on behind a place leaves every other path as it was.
LEMMA StepOver ==
  ASSUME TypeInv, NEW s \in Scanners, NEW p \in Paths, GoesOn(scan[s], scan'[s]),
         scan[s].pc \in {"walk", "touch", "submit"}, SamePath(p),
         InHand(s, p) => InHand(s, p)', WalkRight(s, p), Here(s, p), p # Place(s)
  PROVE  WalkRight(s, p)'
  <1>1. Good(s, p) <=> Good(s, p)'
    BY GoodStays DEF GoesOn, SameTurn
  <1>2. scan[s].root \in Roots /\ scan[s].next \in Nat /\ p[2] \in Nat
    BY LocalFacts, ScanTypes, PathFacts DEF Placed
  <1>3. p[2] # scan[s].next
    BY <1>2, PathFacts DEF Place, Here
  <1>4. Passed(s, p)' => Passed(s, p)
    BY <1>2, <1>3 DEF Passed, GoesOn
  <1> QED BY <1>1, <1>4 DEF WalkRight, SamePath, GoesOn

LEMMA GivenUp ==
  ASSUME NEW s \in Scanners, NEW p \in Paths, GivesUp(scan[s], scan'[s])
  PROVE  WalkRight(s, p)' /\ TouchRight(s, p)' /\ Working(s)' /\ SameTurn(scan[s], scan'[s])
  BY DEF WalkRight, TouchRight, GivesUp, Working

LEMMA QuietPath ==
  ASSUME UNCHANGED <<world, op, rows>>, NEW p \in Paths
  PROVE  SamePath(p)
  BY WorldSame DEF SamePath, SameRow

LEMMA VisitRight ==
  ASSUME TypeInv, RightInv, NEW s \in Scanners, Visit(s), NEW p \in Paths
  PROVE  Owned(s, p)' /\ Right(s, p)'
  <1>1. UNCHANGED <<world, op, rows, roots, spoilt>>
    BY DEF Visit, others, index, Unspoilt
  <1>2. SamePath(p)
    BY <1>1, QuietPath
  <1>3. /\ SameWork(scan[s], scan'[s]) /\ scan[s].pc = "walk" /\ Working(s)
    BY VisitEffect DEF Working
  <1>4. InHand(s, p) <=> InHand(s, p)'
    BY <1>3 DEF InHand, SameWork
  <1>5. CASE GivesUp(scan[s], scan'[s])
    BY <1>1, <1>2, <1>3, <1>5, GivenUp, OnTheWalk
  <1>6. CASE GoesOn(scan[s], scan'[s]) /\ (Seen(Place(s)) = Absent \/ scan'[s].complete = FALSE)
    <2>1. Working(s)' /\ SameTurn(scan[s], scan'[s]) /\ TouchRight(s, p)'
      BY <1>6 DEF GoesOn, Working, TouchRight
    <2>2. ASSUME Answers(s, p), p \notin Exempt, Here(s, p)
          PROVE  WalkRight(s, p)'
      <3>1. CASE p = Place(s)
        BY <1>2, <1>6, <3>1 DEF WalkRight, SamePath
      <3>2. CASE p # Place(s)
        BY <1>2, <1>3, <1>4, <1>6, <2>2, <3>2, StepOver DEF RightInv, Right
      <3> QED BY <3>1, <3>2
    <2> QED BY <1>1, <1>2, <1>3, <2>1, <2>2, OnTheWalk
  <1>7. CASE /\ SameTurn(scan[s], scan'[s]) /\ scan'[s].next = scan[s].next
             /\ scan'[s].complete = scan[s].complete
             /\ scan'[s].held = Seen(Place(s))
             /\ \/ scan'[s].pc = "touch" /\ Unchanged(Place(s), Seen(Place(s)))
                \/ scan'[s].pc = "submit"
    <2>1. Working(s)' /\ Place(s)' = Place(s)
      BY <1>7 DEF Working, Place, SameTurn
    <2>2. TouchRight(s, p)'
      BY <1>1, <1>7, <2>1 DEF TouchRight, Unchanged
    <2>3. Good(s, p) <=> Good(s, p)'
      BY <1>2, <1>7, GoodStays DEF SameTurn
    <2>4. Answers(s, p) /\ p \notin Exempt /\ Here(s, p) => WalkRight(s, p)'
      <3>1. Answers(s, p) /\ p \notin Exempt => WalkRight(s, p)
        BY DEF RightInv, Right
      <3>2. Here(s, p) /\ WalkRight(s, p) => WalkRight(s, p)'
        BY <1>2, <1>3, <1>4, <1>7, <2>3 DEF WalkRight, Passed, SamePath
      <3> QED BY <3>1, <3>2
    <2> QED BY <1>1, <1>2, <1>3, <1>7, <2>1, <2>2, <2>4, OnTheWalk
  <1> QED BY <1>5, <1>6, <1>7, VisitEffect

LEMMA WalkFailsRight ==
  ASSUME TypeInv, RightInv, NEW s \in Scanners, WalkFails(s), NEW p \in Paths
  PROVE  Owned(s, p)' /\ Right(s, p)'
  <1>1. UNCHANGED <<world, op, rows, roots, spoilt>>
    BY DEF WalkFails, others, index, Unspoilt
  <1>2. GivesUp(scan[s], scan'[s]) /\ Working(s)
    BY WalkFailsEffect DEF Working
  <1> QED BY <1>1, <1>2, QuietPath, GivenUp, OnTheWalk

LEMMA EndWalkRight ==
  ASSUME TypeInv, RightInv, NEW s \in Scanners, EndWalk(s), NEW p \in Paths
  PROVE  Owned(s, p)' /\ Right(s, p)'
  <1>1. UNCHANGED <<world, op, rows, roots, spoilt>>
    BY DEF EndWalk, others, index, Unspoilt
  <1>2. SamePath(p)
    BY <1>1, QuietPath
  <1>3. /\ SameWork(scan[s], scan'[s]) /\ SameTurn(scan[s], scan'[s]) /\ scan[s].pc = "walk"
        /\ scan[s].next > MaxPlaces /\ scan'[s].pc = "drain" /\ scan'[s].complete = scan[s].complete
    BY EndWalkEffect
  <1>4. Working(s) /\ Working(s)' /\ TouchRight(s, p)'
    BY <1>3 DEF Working, TouchRight
  <1>5. InHand(s, p) <=> InHand(s, p)'
    BY <1>3 DEF InHand, SameWork
  <1>6. Here(s, p) => Passed(s, p)
    <2>1. scan[s].root \in Roots /\ scan[s].next \in Nat
      BY <1>3, LocalFacts, ScanTypes DEF Placed
    <2>2. Root(p) = scan[s].root => p[2] <= MaxPlaces /\ p[2] \in Nat
      BY <2>1, PathFacts, BoundFacts
    <2> QED BY <1>3, <2>1, <2>2, BoundFacts DEF Here, Passed
  <1>7. Good(s, p) <=> Good(s, p)'
    BY <1>2, <1>3, GoodStays DEF SameTurn
  <1>8. Answers(s, p) /\ p \notin Exempt /\ Here(s, p) => WalkRight(s, p)'
    <2>1. Answers(s, p) /\ p \notin Exempt => WalkRight(s, p)
      BY DEF RightInv, Right
    <2>2. Here(s, p) /\ WalkRight(s, p) => WalkRight(s, p)'
      BY <1>2, <1>3, <1>5, <1>6, <1>7 DEF WalkRight, SamePath
    <2> QED BY <2>1, <2>2
  <1> QED BY <1>1, <1>2, <1>3, <1>4, <1>8, OnTheWalk

LEMMA SubmitRight ==
  ASSUME TypeInv, RightInv, NEW s \in Scanners, Submit(s), NEW p \in Paths
  PROVE  Owned(s, p)' /\ Right(s, p)'
  <1>1. UNCHANGED <<world, op, rows, roots, spoilt>>
    BY DEF Submit, others, index, Unspoilt
  <1>2. SamePath(p)
    BY <1>1, QuietPath
  <1>3. scan[s].pc = "submit" /\ Working(s) /\ scan'[s].results = scan[s].results
    BY SubmitEffect DEF Working
  <1>5. CASE GivesUp(scan[s], scan'[s])
    BY <1>1, <1>2, <1>3, <1>5, GivenUp, OnTheWalk
  <1>6. CASE /\ GoesOn(scan[s], scan'[s])
             /\ scan'[s].requests = scan[s].requests
                    \cup {[path |-> Place(s), before |-> scan[s].held]}
    <2>1. Working(s)' /\ SameTurn(scan[s], scan'[s]) /\ TouchRight(s, p)'
      BY <1>6 DEF GoesOn, Working, TouchRight
    <2> DEFINE r == [path |-> Place(s), before |-> scan[s].held]
    <2>2. r.path = Place(s) /\ scan'[s].requests = scan[s].requests \cup {r}
      BY <1>6
    <2> HIDE DEF r
    <2>3. (InHand(s, p) \/ p = Place(s)) => InHand(s, p)'
      BY <1>3, <2>2 DEF InHand
    <2>4. ASSUME Answers(s, p), p \notin Exempt, Here(s, p)
          PROVE  WalkRight(s, p)'
      <3>1. CASE p = Place(s)
        BY <2>3, <3>1 DEF WalkRight
      <3>2. CASE p # Place(s)
        BY <1>2, <1>3, <1>6, <2>3, <2>4, <3>2, StepOver DEF RightInv, Right
      <3> QED BY <3>1, <3>2
    <2> QED BY <1>1, <1>2, <1>3, <2>1, <2>4, OnTheWalk
  <1> QED BY <1>5, <1>6, SubmitEffect

LEMMA PrepareRight ==
  ASSUME TypeInv, RightInv, NEW s \in Scanners, Prepare(s), NEW p \in Paths
  PROVE  Owned(s, p)' /\ Right(s, p)'
  <1>1. UNCHANGED <<world, op, rows, roots, spoilt>>
    BY DEF Prepare, others, index, Unspoilt
  <1>2. SamePath(p)
    BY <1>1, QuietPath
  <1> PICK q \in scan[s].requests, f \in Answer :
              /\ f.path = q.path
              /\ scan'[s].requests = scan[s].requests \ {q}
              /\ scan'[s].results = scan[s].results \cup {f}
    BY PrepareEffect
  <1>3. /\ SameTurn(scan[s], scan'[s]) /\ scan'[s].pc = scan[s].pc
        /\ scan'[s].held = scan[s].held /\ scan'[s].next = scan[s].next
        /\ scan'[s].complete = scan[s].complete
    BY PrepareEffect
  <1>4. Working(s) /\ Working(s)' /\ Place(s)' = Place(s)
    BY <1>3, LocalFacts DEF Placed, Working, Place, SameTurn
  <1>5. InHand(s, p) <=> InHand(s, p)'
    BY DEF InHand
  <1>6. Good(s, p) <=> Good(s, p)'
    BY <1>2, <1>3, GoodStays DEF SameTurn
  <1>7. Answers(s, p) /\ p \notin Exempt => WalkRight(s, p) /\ TouchRight(s, p)
    BY DEF RightInv, Right
  <1>8. Here(s, p) /\ WalkRight(s, p) => WalkRight(s, p)'
    BY <1>2, <1>3, <1>5, <1>6 DEF WalkRight, Passed, SamePath
  <1>9. TouchRight(s, p) => TouchRight(s, p)'
    BY <1>1, <1>2, <1>3, <1>4, <1>6 DEF TouchRight, SamePath
  <1> QED BY <1>1, <1>2, <1>3, <1>4, <1>7, <1>8, <1>9, OnTheWalk

LEMMA TouchKeepsRight ==
  ASSUME TypeInv, KnownInv, RightInv, NEW s \in Scanners, Touch(s), NEW p \in Paths
  PROVE  Owned(s, p)' /\ Right(s, p)'
  <1>1. UNCHANGED <<world, op, roots, spoilt>>
    BY DEF Touch, others, Unspoilt
  <1>2. /\ SameWork(scan[s], scan'[s]) /\ scan[s].pc = "touch" /\ Working(s)
        /\ Place(s) \in Paths /\ Root(Place(s)) = scan[s].root
    BY TouchEffect DEF Working
  <1>3. /\ InHand(s, p) <=> InHand(s, p)'
        /\ Seen(p)' = Seen(p) /\ (Retagged(p) <=> Retagged(p)')
        /\ p \in Exempt <=> p \in Exempt'
    BY <1>1, <1>2, WorldSame DEF InHand, SameWork
  <1>4. CASE GivesUp(scan[s], scan'[s]) /\ rows' = rows
    BY <1>1, <1>2, <1>4, QuietPath, GivenUp, OnTheWalk
  <1>5. ASSUME GoesOn(scan[s], scan'[s]), SamePath(p),
               Answers(s, p) /\ p \notin Exempt /\ p = Place(s) => WalkRight(s, p)'
        PROVE  Owned(s, p)' /\ Right(s, p)'
    <2>1. Working(s)' /\ SameTurn(scan[s], scan'[s]) /\ TouchRight(s, p)'
      BY <1>5 DEF GoesOn, Working, TouchRight
    <2>2. Answers(s, p) /\ p \notin Exempt /\ Here(s, p) /\ p # Place(s) => WalkRight(s, p)'
      BY <1>2, <1>3, <1>5, StepOver DEF RightInv, Right
    <2> QED BY <1>1, <1>2, <1>5, <2>1, <2>2, OnTheWalk
  <1>6. CASE GoesOn(scan[s], scan'[s]) /\ scan'[s].complete = FALSE /\ rows' = rows
    <2>1. SamePath(p) /\ WalkRight(s, p)'
      BY <1>1, <1>6, QuietPath DEF WalkRight
    <2> QED BY <1>5, <1>6, <2>1
  <1>7. CASE /\ GoesOn(scan[s], scan'[s]) /\ Seen(Place(s)) = scan[s].held /\ rows' = rows
             /\ ~(rows[Place(s)] # Absent /\ rows[Place(s)].rev = scan[s].held.rev)
    <2>1. SamePath(p)
      BY <1>1, <1>7, QuietPath
    <2>2. ASSUME Answers(s, p), p \notin Exempt, p = Place(s)
          PROVE  WalkRight(s, p)'
      <3>1. Good(s, p)
        BY <1>2, <1>7, <2>2 DEF RightInv, Right, TouchRight
      <3>2. Good(s, p)'
        BY <1>7, <2>1, <3>1, GoodStays DEF GoesOn, SameTurn
      <3> QED BY <3>2 DEF WalkRight
    <2> QED BY <1>5, <1>7, <2>1, <2>2
  <1>8. CASE /\ GoesOn(scan[s], scan'[s]) /\ Seen(Place(s)) = scan[s].held
             /\ rows[Place(s)] # Absent /\ rows[Place(s)].rev = scan[s].held.rev
             /\ rows' = [rows EXCEPT ![Place(s)] = [rows[Place(s)] EXCEPT
                                          !.available = TRUE, !.seen = scan[s].gen]]
    <2>1. CASE p # Place(s)
      <3>1. rows'[p] = rows[p]
        BY <1>8, <2>1 DEF TypeInv, IndexOK
      <3>2. SamePath(p)
        BY <1>3, <3>1 DEF SamePath, SameRow
      <3> QED BY <1>5, <1>8, <2>1, <3>2
    <2>2. CASE p = Place(s)
      <3> DEFINE y == [rows[p] EXCEPT !.available = TRUE, !.seen = scan[s].gen]
      <3>1. scan[s].gen \in Generations
        BY <1>2, LocalFacts DEF Placed
      <3>2. rows[p] \in RowType
        BY <1>8, <2>2, RowAt
      <3>3. /\ y # Absent /\ y.seen = scan[s].gen /\ y.available = TRUE
            /\ y.tags = rows[p].tags
        BY <3>1, <3>2, TouchedRow
      <3>4. rows' = [rows EXCEPT ![p] = y]
        BY <1>8, <2>2
      <3> HIDE DEF y
      <3>5. rows'[p] = y
        BY <3>4 DEF TypeInv, IndexOK
      <3>6. disk[p] = scan[s].held /\ Seen(p) = disk[p] /\ disk[p] \in Contents
        BY <1>2, <1>8, <2>2, SeenFacts, LocalFacts, ContentFacts DEF Placed
      <3>7. rows[p].tags = disk[p].tags
        <4> DEFINE d == [rev |-> rows[p].rev, tags |-> rows[p].tags]
        <4>1. rows[p].rev = disk[p].rev
          BY <1>8, <2>2, <3>6
        <4>2. d \in Contents
          BY <3>2, <3>6, <4>1, RowFields, ContentFacts
        <4>3. Known(d) /\ Known(disk[p])
          BY <1>8, <2>2 DEF Known, InRow
        <4>4. d = disk[p]
          BY <3>6, <4>1, <4>2, <4>3 DEF KnownInv, OneVersion
        <4> QED BY <4>4
      <3>8. Good(s, p)' /\ Seen(p)' # Absent
        BY <1>3, <1>8, <3>3, <3>5, <3>6, <3>7, ContentFacts DEF Good, GoesOn, SameTurn
      <3>9. Owned(s, p)'
        BY <1>1, <1>2, <1>8, OwnAnswers DEF Active, GoesOn
      <3> QED BY <3>8, <3>9, GoodAfter
    <2> QED BY <2>1, <2>2
  <1> QED BY <1>4, <1>6, <1>7, <1>8, TouchEffect

LEMMA CommitKeepsRight ==
  ASSUME TypeInv, KnownInv, RightInv, NEW s \in Scanners, CommitPrepared(s), NEW p \in Paths
  PROVE  Owned(s, p)' /\ Right(s, p)'
  <1>1. UNCHANGED <<world, op, roots, spoilt>>
    BY DEF CommitPrepared, others, Unspoilt
  <1>2. /\ SameTurn(scan[s], scan'[s]) /\ scan[s].pc \in {"walk", "drain"} /\ Working(s)
        /\ scan'[s].requests = scan[s].requests /\ scan'[s].pc \in {"walk", "drain"}
    BY CommitEffect DEF Working, GivesUp
  <1>3. Seen(p)' = Seen(p) /\ (Retagged(p) <=> Retagged(p)')
    BY <1>1, WorldSame
  <1>4. Working(s)' /\ TouchRight(s, p)'
    BY <1>2 DEF Working, TouchRight
  <1> PICK f \in scan[s].results :
              /\ scan'[s].results = scan[s].results \ {f}
              /\ f \in Answer /\ Root(f.path) = scan[s].root
              /\ \/ /\ scan'[s].complete = FALSE /\ rows' = rows
                 \/ /\ f.tags = Absent /\ scan'[s].complete = FALSE
                    /\ rows' = IF rows[f.path] = Absent THEN rows
                               ELSE [rows EXCEPT ![f.path] = [rows[f.path] EXCEPT !.complete = FALSE]]
                 \/ /\ f.tags # Absent /\ Current(f) /\ Owns(s)
                    /\ scan'[s].pc = scan[s].pc /\ scan'[s].next = scan[s].next
                    /\ scan'[s].complete = scan[s].complete
                    /\ rows' = [rows EXCEPT ![f.path] =
                                  Row([rev |-> f.before.rev, tags |-> f.tags], scan[s].gen)]
    BY CommitEffect DEF GivesUp
  <1>5. f.path \in Paths /\ f.before \in Contents
    BY DEF Answer
  <1>6. CASE scan'[s].complete = FALSE /\ SamePath(p)
    <2>1. WalkRight(s, p)'
      BY <1>6 DEF WalkRight
    <2> QED BY <1>1, <1>2, <1>4, <1>6, <2>1, OnTheWalk
  <1>7. CASE scan'[s].complete = FALSE /\ rows' = rows
    BY <1>1, <1>6, <1>7, QuietPath
  <1>8. CASE /\ scan'[s].complete = FALSE
             /\ rows' = IF rows[f.path] = Absent THEN rows
                        ELSE [rows EXCEPT ![f.path] = [rows[f.path] EXCEPT !.complete = FALSE]]
    <2>1. CASE rows[f.path] = Absent
      BY <1>7, <1>8, <2>1
    <2>2. CASE rows[f.path] # Absent
      <3> DEFINE y == [rows[f.path] EXCEPT !.complete = FALSE]
      <3>1. /\ y # Absent /\ y.rev = rows[f.path].rev /\ y.tags = rows[f.path].tags
            /\ y.seen = rows[f.path].seen /\ y.available = rows[f.path].available
        BY <1>5, <2>2, RowAt, OldRow
      <3>2. rows' = [rows EXCEPT ![f.path] = y]
        BY <1>8, <2>2
      <3> HIDE DEF y
      <3>3. SamePath(p)
        BY <1>3, <1>5, <2>2, <3>1, <3>2 DEF SamePath, SameRow, TypeInv, IndexOK
      <3> QED BY <1>6, <1>8, <3>3
    <2> QED BY <2>1, <2>2
  <1>9. CASE /\ f.tags # Absent /\ Current(f)
             /\ scan'[s].pc = scan[s].pc /\ scan'[s].next = scan[s].next
             /\ scan'[s].complete = scan[s].complete
             /\ rows' = [rows EXCEPT ![f.path] =
                           Row([rev |-> f.before.rev, tags |-> f.tags], scan[s].gen)]
    <2>1. CASE p # f.path
      <3>1. rows'[p] = rows[p]
        BY <1>5, <1>9, <2>1 DEF TypeInv, IndexOK
      <3>2. SamePath(p)
        BY <1>3, <3>1 DEF SamePath, SameRow
      <3>3. InHand(s, p) <=> InHand(s, p)'
        BY <1>2, <2>1 DEF InHand
      <3>4. Good(s, p) <=> Good(s, p)'
        BY <1>2, <3>2, GoodStays DEF SameTurn
      <3>5. Answers(s, p) /\ p \notin Exempt => WalkRight(s, p)
        BY DEF RightInv, Right
      <3>6. Here(s, p) /\ WalkRight(s, p) => WalkRight(s, p)'
        BY <1>2, <1>9, <3>2, <3>3, <3>4 DEF WalkRight, Passed, SamePath
      <3> QED BY <1>1, <1>2, <1>4, <3>2, <3>5, <3>6, OnTheWalk
    <2>2. CASE p = f.path
      <3> DEFINE y == Row([rev |-> f.before.rev, tags |-> f.tags], scan[s].gen)
      <3>1. y.seen = scan[s].gen /\ y.available = TRUE /\ y.tags = f.tags
        BY DEF Row
      <3>2. rows' = [rows EXCEPT ![p] = y]
        BY <1>9, <2>2
      <3>3. y \in RowType
        <4>1. [rev |-> f.before.rev, tags |-> f.tags] \in Contents
          BY <1>5, <1>9, ContentFacts DEF Answer, Contents
        <4>2. scan[s].gen \in Generations
          BY <1>2, LocalFacts DEF Placed
        <4> QED BY <4>1, <4>2, NewRowTypes
      <3> HIDE DEF y
      <3>4. rows'[p] = y /\ y # Absent
        BY <3>2, <3>3, AbsentFacts DEF TypeInv, IndexOK
      <3>5. Seen(p) = f.before /\ disk[p] = f.before /\ f.before # Absent
        BY <1>5, <1>9, <2>2, SeenFacts, ContentFacts DEF Current
      <3>6. f.tags = f.before.tags
        BY <1>9, <2>2, <3>5 DEF KnownInv, Read
      <3>7. Good(s, p)' /\ Seen(p)' # Absent
        BY <1>2, <1>3, <3>1, <3>4, <3>5, <3>6 DEF Good, SameTurn
      <3>8. Owned(s, p)'
        BY <1>1, <1>2, OwnAnswers DEF Active
      <3> QED BY <3>7, <3>8, GoodAfter
    <2> QED BY <2>1, <2>2
  <1> QED BY <1>7, <1>8, <1>9

LEMMA EndFolderRight ==
  ASSUME TypeInv, RightInv, NEW s \in Scanners, EndFolder(s), NEW p \in Paths
  PROVE  Owned(s, p)' /\ Right(s, p)'
  <1>1. UNCHANGED <<world, op, spoilt>>
    BY DEF EndFolder, others, Unspoilt
  <1>2. /\ scan[s].pc = "drain" /\ scan[s].results = {}
        /\ scan'[s].pc \in {"prune", "roots"} /\ scan'[s].gen = scan[s].gen
        /\ scan'[s].root = scan[s].root /\ scan'[s].todo = scan[s].todo
        /\ scan[s].incomplete => scan'[s].incomplete
        /\ ~scan'[s].incomplete => scan[s].complete /\ ~scan[s].cancel /\ scan[s].requests = {}
        /\ rows' = [q \in Paths |->
                       IF scan[s].complete /\ ~scan[s].cancel /\ Owns(s)
                          /\ q \in RowsOf(scan[s].root) /\ rows[q].seen # scan[s].gen
                       THEN [rows[q] EXCEPT !.available = FALSE] ELSE rows[q]]
    BY EndFolderEffect
  <1>3. \A r \in Roots : (roots'[r] = Absent <=> roots[r] = Absent)
                         /\ (roots[r] # Absent => roots'[r].token = roots[r].token)
    BY EndFolderEffect
  <1>4. (Answers(s, p)' => Answers(s, p)) /\ Owned(s, p)'
    BY <1>1, <1>2, <1>3 DEF RightInv, Answers, Owned, Active, Registered
  <1>5. /\ Seen(p)' = Seen(p) /\ (Retagged(p) <=> Retagged(p)')
        /\ p \in Exempt <=> p \in Exempt'
    BY <1>1, WorldSame
  <1>6. ~Here(s, p)' /\ TouchRight(s, p)' /\ ~scan'[s].pc = "touch"
    BY <1>2 DEF Here, Working, TouchRight
  <1>7. CASE ~Answers(s, p) \/ p \in Exempt
    BY <1>4, <1>5, <1>7 DEF Right
  <1>8. CASE Answers(s, p) /\ p \notin Exempt /\ Root(p) # scan[s].root
    <2>1. rows'[p] = rows[p]
      BY <1>2, <1>8 DEF RowsOf
    <2>2. SamePath(p) /\ ~Here(s, p)
      BY <1>5, <1>8, <2>1 DEF SamePath, SameRow, Here
    <2> QED BY <1>2, <1>4, <1>5, <1>6, <2>2, AwayStays DEF RightInv
  <1>9. CASE Answers(s, p) /\ p \notin Exempt /\ Root(p) = scan[s].root
    <2>1. Here(s, p) /\ Passed(s, p) /\ There(s, p) /\ WalkRight(s, p)
      BY <1>2, <1>9 DEF Here, Working, Passed, RightInv, Right
    <2>2. Owns(s)
      BY <1>9 DEF RightInv, Owned, Owns, Answers
    <2>3. \/ rows'[p] = rows[p]
          \/ /\ rows[p] \in RowType /\ rows[p].seen # scan[s].gen
             /\ rows'[p] = [rows[p] EXCEPT !.available = FALSE]
      BY <1>2, RowAt DEF RowsOf
    <2>4. \/ rows'[p] = rows[p]
          \/ /\ rows[p].seen # scan[s].gen /\ rows'[p].seen = rows[p].seen
             /\ rows'[p].available = FALSE
      BY <2>3, HiddenRow
    <2>5. There(s, p)'
      BY <1>2, <1>5, <2>1, <2>4 DEF There
    <2>6. DoneRight(s, p)'
      <3>1. CASE scan'[s].incomplete
        BY <3>1 DEF DoneRight
      <3>2. CASE ~scan'[s].incomplete
        <4>1. scan[s].complete /\ ~scan[s].cancel /\ scan[s].requests = {} /\ scan[s].results = {}
          BY <1>2, <3>2
        <4>2. ~InHand(s, p)
          BY <4>1 DEF InHand
        <4>3. CASE Seen(p) = Absent
          <5>1. rows[p] = Absent \/ rows[p].seen # scan[s].gen
            BY <2>1, <4>3 DEF There
          <5>2. rows'[p] = Absent \/ rows'[p].available = FALSE
            <6>1. CASE rows[p] = Absent
              BY <1>2, <6>1 DEF RowsOf
            <6>2. CASE rows[p] # Absent /\ rows[p].seen # scan[s].gen
              <7>1. rows'[p] = [rows[p] EXCEPT !.available = FALSE]
                BY <1>2, <1>9, <2>2, <4>1, <6>2 DEF RowsOf
              <7> QED BY <6>2, <7>1, RowAt, HiddenRow
            <6> QED BY <5>1, <6>1, <6>2
          <5> QED BY <1>5, <4>3, <5>2 DEF DoneRight
        <4>4. CASE Seen(p) # Absent
          <5>1. Good(s, p)
            BY <2>1, <4>1, <4>2, <4>4 DEF WalkRight
          <5>2. rows'[p] = rows[p]
            BY <1>2, <5>1 DEF Good
          <5>3. Good(s, p)'
            BY <1>2, <1>5, <5>1, <5>2 DEF Good
          <5> QED BY <1>5, <4>4, <5>3 DEF DoneRight
        <4> QED BY <4>3, <4>4
      <3> QED BY <3>1, <3>2
    <2>7. WalkRight(s, p)'
      BY <1>6 DEF WalkRight
    <2> QED BY <1>4, <1>6, <2>5, <2>6, <2>7 DEF Right
  <1> QED BY <1>7, <1>8, <1>9

\* A folder that comes off the list: nothing in it bears the scan's number yet.
LEMMA FreshFolder ==
  ASSUME Ages, NEW s \in Scanners, Active(s), NEW p \in Paths, Root(p) \in scan[s].todo
  PROVE  rows[p] = Absent \/ rows[p].seen # scan[s].gen
  BY DEF Ages, Turn

LEMMA OfflineRight ==
  ASSUME TypeInv, Ages, RightInv, NEW s \in Scanners, FolderOffline(s), NEW p \in Paths
  PROVE  Owned(s, p)' /\ Right(s, p)'
  <1>1. UNCHANGED <<world, op>>
    BY DEF FolderOffline, others
  <1>2. /\ scan'[s].gen = scan[s].gen /\ scan[s].pc = "roots" /\ scan'[s].pc = "roots"
        /\ scan'[s].incomplete = scan[s].incomplete
    BY OfflineEffect
  <1> PICK r \in scan[s].todo :
              /\ r \in Roots /\ mount[r] = "gone" /\ TakenOver(s, r)
              /\ scan'[s].todo = scan[s].todo \ {r}
              /\ roots' = IF Registered(r)
                     THEN [roots EXCEPT ![r] = [token |-> scan[s].gen, state |-> "offline"]]
                     ELSE roots
              /\ rows' = [q \in Paths |-> IF q \in RowsOf(r)
                        THEN [rows[q] EXCEPT !.available = FALSE] ELSE rows[q]]
    BY OfflineEffect
  <1>3. spoilt'[s] = spoilt[s]
    BY DEF TakenOver
  <1>4. /\ Seen(p)' = Seen(p) /\ (Retagged(p) <=> Retagged(p)')
        /\ p \in Exempt <=> p \in Exempt'
    BY <1>1, WorldSame
  <1>5. ~Here(s, p) /\ ~Here(s, p)' /\ TouchRight(s, p)' /\ Active(s)
    BY <1>2 DEF Here, Working, TouchRight, Active
  <1>6. CASE Root(p) # r
    <2>1. rows'[p] = rows[p]
      BY <1>6 DEF RowsOf
    <2>2. SamePath(p)
      BY <1>4, <2>1 DEF SamePath, SameRow
    <2>3. \A q \in Roots : q # r => roots'[q] = roots[q]
      BY DEF TypeInv, IndexOK
    <2>4. (Answers(s, p)' => Answers(s, p)) /\ Owned(s, p)'
      BY <1>2, <1>3, <1>6, <2>3 DEF RightInv, Answers, Owned, Active, Registered
    <2> QED BY <1>2, <1>4, <1>5, <2>2, <2>4, AwayStays DEF RightInv
  <1>7. CASE Root(p) = r
    <2> DEFINE x == [token |-> scan[s].gen, state |-> "offline"]
    <2>1. x.token = scan[s].gen /\ roots' = IF Registered(r) THEN [roots EXCEPT ![r] = x] ELSE roots
      OBVIOUS
    <2> HIDE DEF x
    <2>2. Registered(r)' => Registered(r) /\ roots'[r] = x
      BY <2>1 DEF Registered, TypeInv, IndexOK
    <2>3. Owned(s, p)'
      BY <1>2, <1>7, <2>1, <2>2 DEF Owned, Answers
    <2>4. Seen(p) = Absent
      BY <1>7, PathFacts DEF Seen, Reachable
    <2>5. (rows[p] = Absent /\ rows'[p] = Absent)
          \/ (rows[p] \in RowType /\ rows'[p] = [rows[p] EXCEPT !.available = FALSE])
      <3>1. CASE rows[p] = Absent
        BY <3>1 DEF RowsOf
      <3>2. CASE rows[p] # Absent
        BY <1>7, <3>2, RowAt DEF RowsOf
      <3> QED BY <3>1, <3>2
    <2>6. (rows[p] = Absent /\ rows'[p] = Absent)
          \/ (rows[p] # Absent /\ rows'[p].available = FALSE /\ rows'[p].seen = rows[p].seen)
      BY <2>5, HiddenRow, AbsentFacts
    <2>7. There(s, p)'
      BY <1>2, <1>5, <1>7, <2>6, FreshFolder DEF There
    <2>8. DoneRight(s, p)' /\ WalkRight(s, p)'
      BY <1>4, <1>5, <2>4, <2>6 DEF DoneRight, WalkRight
    <2> QED BY <1>5, <2>3, <2>7, <2>8 DEF Right
  <1> QED BY <1>6, <1>7

LEMMA OpenRight ==
  ASSUME TypeInv, Ages, RightInv, NEW s \in Scanners, OpenFolder(s), NEW p \in Paths
  PROVE  Owned(s, p)' /\ Right(s, p)'
  <1>1. UNCHANGED <<world, op, rows>>
    BY DEF OpenFolder, others
  <1>2. /\ scan'[s].gen = scan[s].gen /\ scan[s].pc = "roots" /\ scan'[s].pc = "walk"
        /\ scan'[s].incomplete = scan[s].incomplete /\ scan'[s].next = 1
    BY OpenEffect
  <1> PICK r \in scan[s].todo :
              /\ r \in Roots /\ TakenOver(s, r) /\ scan'[s].root = r
              /\ scan'[s].todo = scan[s].todo \ {r}
              /\ \A q \in Roots : roots'[q] = IF q = r /\ Registered(r)
                     THEN [roots[r] EXCEPT !.token = scan[s].gen] ELSE roots[q]
    BY OpenEffect
  <1>3. spoilt'[s] = spoilt[s]
    BY DEF TakenOver
  <1>4. /\ Seen(p)' = Seen(p) /\ (p \in Exempt <=> p \in Exempt') /\ SamePath(p)
    BY <1>1, WorldSame, QuietPath
  <1>5. ~Here(s, p) /\ TouchRight(s, p)' /\ Active(s)
    BY <1>2 DEF Here, Working, TouchRight, Active
  <1>6. CASE Root(p) # r
    <2>1. (Answers(s, p)' => Answers(s, p)) /\ Owned(s, p)'
      BY <1>2, <1>3, <1>6 DEF RightInv, Answers, Owned, Active, Registered
    <2>2. ~Here(s, p)'
      BY <1>6 DEF Here
    <2> QED BY <1>2, <1>4, <1>5, <2>1, <2>2, AwayStays DEF RightInv
  <1>7. CASE Root(p) = r
    <2>1. Registered(r)' => roots'[r].token = scan[s].gen
      <3>1. CASE Registered(r)
        <4>1. roots[r] \in RootType /\ roots'[r] = [roots[r] EXCEPT !.token = scan[s].gen]
          BY <3>1 DEF Registered, TypeInv, IndexOK
        <4> QED BY <4>1 DEF RootType
      <3> QED BY <3>1 DEF Registered
    <2>2. Owned(s, p)'
      BY <1>2, <1>7, <2>1 DEF Owned, Answers
    <2>3. There(s, p)'
      BY <1>1, <1>2, <1>5, <1>7, FreshFolder DEF There
    <2>4. Here(s, p)'
      BY <1>2, <1>7 DEF Here, Working
    <2>5. ~Passed(s, p)'
      BY <1>2, <1>7, PathFacts, BoundFacts DEF Passed
    <2> QED BY <1>5, <2>2, <2>3, <2>4, <2>5 DEF Right, WalkRight, DoneRight
  <1> QED BY <1>6, <1>7

LEMMA PruneRight ==
  ASSUME TypeInv, RightInv, NEW s \in Scanners, LookForMissing(s) \/ Forget(s), NEW p \in Paths
  PROVE  Owned(s, p)' /\ Right(s, p)'
  <1>1. UNCHANGED <<world, op, roots, spoilt>>
    BY DEF LookForMissing, Forget, others, index, Unspoilt
  <1>2. /\ SameTurn(scan[s], scan'[s]) /\ scan[s].pc \in {"prune", "forget"}
        /\ scan'[s].pc \in {"roots", "prune", "forget"}
        /\ \/ rows' = rows
           \/ Forgettable(s, Place(s)) /\ rows' = [rows EXCEPT ![Place(s)] = Absent]
    BY LookEffect, ForgetEffect DEF LookForMissing, index
  <1>3. /\ Seen(p)' = Seen(p) /\ (Retagged(p) <=> Retagged(p)')
        /\ p \in Exempt <=> p \in Exempt'
    BY <1>1, WorldSame
  <1>4. ~Here(s, p) /\ ~Here(s, p)' /\ TouchRight(s, p)' /\ Active(s)
    BY <1>2 DEF Here, Working, TouchRight, Active
  <1>5. (Answers(s, p)' => Answers(s, p)) /\ Owned(s, p)'
    BY <1>1, <1>2, <1>4, OwnAnswers
  <1>6. CASE rows'[p] = rows[p]
    <2>1. SamePath(p)
      BY <1>3, <1>6 DEF SamePath, SameRow
    <2> QED BY <1>2, <1>3, <1>4, <1>5, <2>1, AwayStays DEF RightInv, SameTurn
  <1>7. CASE rows'[p] # rows[p]
    <2>1. rows[p].seen # scan[s].gen /\ rows'[p] = Absent
      BY <1>2, <1>7 DEF Forgettable, TypeInv, IndexOK
    <2>2. ASSUME Answers(s, p), p \notin Exempt
          PROVE  There(s, p)' /\ DoneRight(s, p)' /\ WalkRight(s, p)'
      <3>1. DoneRight(s, p)
        BY <2>2 DEF RightInv, Right
      <3>2. scan'[s].incomplete \/ Seen(p) = Absent
        BY <1>2, <1>4, <2>1, <3>1 DEF DoneRight, Good, SameTurn
      <3>3. There(s, p)' /\ WalkRight(s, p)'
        BY <1>4, <2>1 DEF There, WalkRight
      <3> QED BY <1>3, <2>1, <3>2, <3>3 DEF DoneRight
    <2> QED BY <1>3, <1>4, <1>5, <2>2 DEF Right
  <1> QED BY <1>6, <1>7

LEMMA EdgeRight ==
  ASSUME TypeInv, RightInv, NEW s \in Scanners, StartScan(s) \/ Stop(s) \/ Finish(s) \/ Abort(s),
         NEW p \in Paths
  PROVE  Owned(s, p)' /\ Right(s, p)'
  <1>1. CASE StartScan(s)
    <2>1. scan'[s].todo = {r \in Roots : Registered(r)} /\ roots' = roots
      BY <1>1, StartEffect DEF StartScan, index
    <2>2. ~Answers(s, p)'
      BY <2>1 DEF Answers, Registered
    <2> QED BY <2>2 DEF Owned, Right
  <1>2. CASE Finish(s) \/ Abort(s)
    <2>1. ~Answers(s, p)'
      BY <1>2, EndEffect, IdleFacts DEF Answers, Active
    <2> QED BY <2>1 DEF Owned, Right
  <1>3. CASE Stop(s)
    <2>1. UNCHANGED <<world, op, rows, roots, spoilt>>
      BY <1>3 DEF Stop, others, index, Unspoilt
    <2>2. SameView(scan[s], scan'[s]) /\ Active(s)
      BY <1>3, StopEffect DEF SameView, SameWork, Active
    <2>3. (Answers(s, p)' => Answers(s, p)) /\ Owned(s, p)'
      BY <2>1, <2>2 DEF RightInv, Answers, Owned, SameView, Active, Registered
    <2>4. SamePath(p) /\ (p \in Exempt <=> p \in Exempt')
      BY <2>1, QuietPath, WorldSame
    <2> QED BY <2>2, <2>3, <2>4, RightStays DEF RightInv
  <1> QED BY <1>1, <1>2, <1>3

LEMMA ScanKeepsRight ==
  ASSUME TypeInv, KnownInv, Ages, RightInv, NEW s \in Scanners, Scan(s)
  PROVE  RightInv'
  <1>1. ASSUME NEW t \in Scanners, NEW p \in Paths
        PROVE  Owned(t, p)' /\ Right(t, p)'
    <2>1. CASE t # s
      BY <2>1, ScanSparesOthers
    <2>2. Owned(s, p)' /\ Right(s, p)'
      BY VisitRight, WalkFailsRight, EndWalkRight, SubmitRight, PrepareRight, TouchKeepsRight,
         CommitKeepsRight, EndFolderRight, OfflineRight, OpenRight, PruneRight, EdgeRight
         DEF Scan, Walk
    <2> QED BY <2>1, <2>2
  <1> QED BY <1>1 DEF RightInv

(***************************************************************************)
(* The program and the world: what they change, a scan does not answer for.  *)
(***************************************************************************)
SameFolder(p) ==
  Registered(Root(p))' => Registered(Root(p)) /\ roots'[Root(p)].token = roots[Root(p)].token

LEMMA SpoiltRight ==
  ASSUME NEW s \in Scanners, NEW p \in Paths, p \in spoilt'[s]
  PROVE  Owned(s, p)' /\ Right(s, p)'
  BY DEF Owned, Right, Answers

LEMMA StillAnswers ==
  ASSUME RightInv, scan' = scan, NEW s \in Scanners, NEW p \in Paths,
         spoilt[s] \subseteq spoilt'[s], SameFolder(p)
  PROVE  (Answers(s, p)' => Answers(s, p)) /\ Owned(s, p)'
  BY DEF RightInv, Answers, Active, Owned, SameFolder

LEMMA OutsideRight ==
  ASSUME RightInv, scan' = scan, NEW s \in Scanners, NEW p \in Paths,
         spoilt[s] \subseteq spoilt'[s], SameFolder(p), SamePath(p), p \notin Exempt' => p \notin Exempt
  PROVE  Owned(s, p)' /\ Right(s, p)'
  <1>1. (Answers(s, p)' => Answers(s, p)) /\ Owned(s, p)'
    BY StillAnswers
  <1> QED BY <1>1, RightStays DEF RightInv, SameView

\* A file without a row.
LEMMA RowlessRight ==
  ASSUME RightInv, scan' = scan, NEW s \in Scanners, NEW p \in Paths,
         spoilt[s] \subseteq spoilt'[s], SameFolder(p), p \notin Exempt,
         rows[p] = Absent, rows'[p] = Absent, Seen(p)' = Seen(p)
  PROVE  Owned(s, p)' /\ Right(s, p)'
  <1>1. (Answers(s, p)' => Answers(s, p)) /\ Owned(s, p)'
    BY StillAnswers
  <1>2. ASSUME Answers(s, p)
        PROVE  There(s, p)' /\ WalkRight(s, p)' /\ DoneRight(s, p)' /\ TouchRight(s, p)'
    <2>1. Right(s, p) /\ ~Good(s, p)
      BY DEF RightInv, Good
    <2>2. WalkRight(s, p) /\ DoneRight(s, p) /\ TouchRight(s, p)
      BY <1>2, <2>1 DEF Right
    <2>3. There(s, p)'
      BY DEF There
    <2>4. WalkRight(s, p)'
      BY <2>1, <2>2 DEF WalkRight, Here, Working, Passed, InHand
    <2>5. DoneRight(s, p)'
      BY <2>1, <2>2 DEF DoneRight, Here, Working
    <2>6. TouchRight(s, p)'
      BY <2>1, <2>2 DEF TouchRight, Place
    <2> QED BY <2>3, <2>4, <2>5, <2>6
  <1> QED BY <1>1, <1>2 DEF Right

\* What a scan has seen of a file is older than a save that comes later.
LEMMA HeldIsOlder ==
  ASSUME TypeInv, KnownInv, NEW s \in Scanners, scan[s].pc = "touch", NEW e \in Contents,
         e.rev = clock + 1
  PROVE  scan[s].held # e
  <1>1. scan[s].held \in Contents
    BY LocalFacts DEF Placed
  <1>2. Known(scan[s].held)
    BY DEF Known, InScan
  <1>3. scan[s].held.rev <= clock /\ scan[s].held.rev \in Nat /\ clock \in Nat
    BY <1>1, <1>2, ContentFacts, VersionFacts DEF KnownInv, Past, TypeInv, DiskOK
  <1>4. scan[s].held.rev # clock + 1
    BY <1>3
  <1> QED BY <1>4

LEMMA PublishRight ==
  ASSUME TypeInv, KnownInv, RightInv, Publish, NEW s \in Scanners, NEW p \in Paths
  PROVE  Owned(s, p)' /\ Right(s, p)'
  <1>1. /\ op.pc = "idle" /\ op'.pc = "published" /\ op'.from \in Paths /\ op'.to \in Paths
        /\ UNCHANGED <<mount, rows, roots, scan, spoilt>>
        /\ op'.old = disk[op'.from] /\ op'.old \in Contents
        /\ Reachable(op'.from) /\ Reachable(op'.to)
    BY PublishEffect
  <1>2. (Answers(s, p)' => Answers(s, p)) /\ Owned(s, p)' /\ SameFolder(p)
    BY <1>1, StillAnswers DEF SameFolder, Registered
  <1>3. p \notin Exempt /\ ~Retagged(p)
    BY <1>1 DEF Exempt, Retagged
  <1>4. CASE p # op'.from /\ p # op'.to
    <2>1. disk'[p] = disk[p]
      BY <1>1, <1>4, PublishEffect DEF TypeInv, DiskOK
    <2>2. Seen(p)' = Seen(p) /\ ~Retagged(p)'
      BY <1>1, <1>4, <2>1 DEF Seen, Reachable, Retagged
    <2>3. SamePath(p)
      BY <1>1, <1>3, <2>2 DEF SamePath, SameRow
    <2> QED BY <1>1, <1>2, <1>3, <2>3, OutsideRight
  <1>5. CASE op'.kind # "tags" /\ (p = op'.from \/ p = op'.to)
    <2>1. p \in Exempt'
      BY <1>1, <1>5 DEF Exempt
    <2> QED BY <1>2, <2>1 DEF Right
  <1>6. CASE op'.kind = "tags" /\ p = op'.from
    <2> DEFINE e == [rev |-> clock', tags |-> clock']
    <2>1. e.rev = clock + 1 /\ e \in Contents /\ disk' = [disk EXCEPT ![p] = e]
      BY <1>6, PublishEffect
    <2> HIDE DEF e
    <2>2. Seen(p) \in Contents /\ Seen(p)' = e /\ Retagged(p)'
      BY <1>1, <1>6, <2>1 DEF Seen, Reachable, Retagged, TypeInv, DiskOK
    <2>3. Seen(p) # Absent /\ Seen(p)' # Absent
      BY <2>1, <2>2, ContentFacts
    <2>4. Good(s, p) => Good(s, p)'
      BY <1>1, <2>2 DEF Good
    <2>5. ASSUME Answers(s, p)
          PROVE  There(s, p)' /\ WalkRight(s, p)' /\ DoneRight(s, p)' /\ TouchRight(s, p)'
      <3>1. WalkRight(s, p) /\ DoneRight(s, p)
        BY <1>3, <2>5 DEF RightInv, Right
      <3>2. There(s, p)'
        BY <2>3 DEF There
      <3>3. WalkRight(s, p)'
        BY <1>1, <2>3, <2>4, <3>1 DEF WalkRight, Here, Working, Passed, InHand
      <3>4. DoneRight(s, p)'
        BY <1>1, <2>3, <2>4, <3>1 DEF DoneRight, Here, Working
      <3>5. TouchRight(s, p)'
        BY <1>1, <2>1, <2>2, HeldIsOlder DEF TouchRight
      <3> QED BY <3>2, <3>3, <3>4, <3>5
    <2> QED BY <1>2, <2>5 DEF Right
  <1>7. op'.kind = "tags" => op'.to = op'.from
    BY PublishEffect
  <1> QED BY <1>4, <1>5, <1>6, <1>7

\* The row that follows a tagged or moved file shows it.
LEMMA FollowedRight ==
  ASSUME TypeInv, OpInv, RightInv, CommitDependents, NEW s \in Scanners, NEW p \in Paths,
         p = op.to, rows[op.from] # Absent, op.kind # "tags" => rows[op.from].tags = op.old.tags
  PROVE  Owned(s, p)' /\ Right(s, p)'
  <1>1. /\ op.pc = "published" /\ UNCHANGED <<world, roots, scan>> /\ spoilt[s] \subseteq spoilt'[s]
        /\ op' = IF op.kind = "copy" THEN [op EXCEPT !.pc = "source"] ELSE NoOp
    BY DEF CommitDependents, Spoil, TypeInv, CountsOK
  <1>2. disk[p] \in Contents
    BY <1>1, OpFacts
  <1>3. (Answers(s, p)' => Answers(s, p)) /\ Owned(s, p)'
    <2>1. SameFolder(p)
      BY <1>1 DEF SameFolder, Registered
    <2> QED BY <1>1, <2>1, StillAnswers
  <1>4. CASE Answers(s, p)
    <2> PICK m \in RowType :
                 /\ m.rev = 0 /\ m.available = TRUE
                 /\ m.tags = IF op.kind = "tags" THEN disk[p].tags ELSE rows[op.from].tags
                 /\ Registered(Root(p)) => m.seen = roots[Root(p)].token
                 /\ \A q \in Paths : rows'[q] =
                      IF q = p /\ Registered(Root(p)) THEN m
                      ELSE IF q = op.from THEN Absent ELSE rows[q]
      BY FollowedEffect
    <2>1. Registered(Root(p)) /\ roots[Root(p)].token = scan[s].gen
      BY <1>4 DEF Answers, RightInv, Owned
    <2>2. rows'[p] = m /\ m # Absent /\ m.seen = scan[s].gen
      BY <2>1, AbsentFacts
    <2>3. Reachable(p) /\ Seen(p)' = disk[p]
      BY <1>1 DEF OpInv, Seen, Reachable, world
    <2>4. m.tags = disk[p].tags
      BY <1>1 DEF OpInv
    <2>5. Good(s, p)'
      BY <1>1, <2>2, <2>3, <2>4 DEF Good
    <2>6. Seen(p)' # Absent
      BY <1>2, <2>3, ContentFacts
    <2> QED BY <1>3, <2>5, <2>6, GoodAfter
  <1>5. CASE ~Answers(s, p)
    BY <1>3, <1>5 DEF Right
  <1> QED BY <1>4, <1>5

LEMMA DependentsRight ==
  ASSUME TypeInv, TypeInv', OpInv, RightInv, CommitDependents, NEW s \in Scanners, NEW p \in Paths
  PROVE  Owned(s, p)' /\ Right(s, p)'
  <1>1. /\ op.pc = "published" /\ UNCHANGED <<world, roots, scan>> /\ spoilt[s] \subseteq spoilt'[s]
        /\ op' = IF op.kind = "copy" THEN [op EXCEPT !.pc = "source"] ELSE NoOp
        /\ op.kind # "tags" /\ (rows[op.from] = Absent \/ rows[op.from].tags # op.old.tags) =>
             op.to \in spoilt'[s]
    BY OpFacts DEF CommitDependents, Spoil, TypeInv, CountsOK
  <1>2. op.from \in Paths /\ op.to \in Paths /\ (op.kind = "tags" <=> op.from = op.to)
    BY <1>1, OpFacts DEF OpInv
  <1>3. \A q \in Paths : q # op.from /\ q # op.to => rows'[q] = rows[q]
    BY FollowedEffect
  <1>4. SameFolder(p) /\ Seen(p)' = Seen(p)
    BY <1>1 DEF SameFolder, Registered, Seen, Reachable, world
  <1>5. Exempt' \subseteq Exempt /\ (op.kind = "copy" => Exempt' = {op.from})
    <2>1. CASE op.kind = "copy"
      <3>1. op'.pc = "source" /\ op'.from = op.from
        BY <1>1, <2>1 DEF TypeInv, OpOK
      <3> QED BY <1>1, <2>1, <3>1 DEF Exempt
    <2>2. CASE op.kind # "copy"
      BY <1>1, <2>2, NoOpFacts DEF Exempt
    <2> QED BY <2>1, <2>2
  <1>6. ~Retagged(p)'
    <2>1. op'.pc # "published"
      BY <1>1, NoOpFacts DEF TypeInv, OpOK
    <2> QED BY <2>1 DEF Retagged
  <1>7. CASE p # op.from /\ p # op.to
    <2>1. SamePath(p)
      BY <1>3, <1>4, <1>6, <1>7 DEF SamePath, SameRow, Retagged
    <2>2. p \notin Exempt
      BY <1>7 DEF Exempt
    <2> QED BY <1>1, <1>4, <2>1, <2>2, OutsideRight
  <1>8. CASE p = op.to /\ rows[op.from] # Absent
    BY <1>1, <1>2, <1>8, FollowedRight, SpoiltRight
  <1>9. CASE p = op.to /\ rows[op.from] = Absent
    <2>1. CASE op.kind = "tags"
      <3>1. rows[p] = Absent /\ rows'[p] = Absent /\ p \notin Exempt
        BY <1>1, <1>2, <1>9, <2>1, FollowedEffect DEF Exempt
      <3> QED BY <1>1, <1>4, <3>1, RowlessRight
    <2>2. CASE op.kind # "tags"
      BY <1>1, <1>9, <2>2, SpoiltRight
    <2> QED BY <2>1, <2>2
  <1>10. CASE p = op.from /\ p # op.to
    <2>1. op.kind # "tags" /\ (Answers(s, p)' => Answers(s, p)) /\ Owned(s, p)'
      BY <1>1, <1>2, <1>4, <1>10, StillAnswers
    <2>2. CASE op.kind = "copy"
      BY <1>5, <1>10, <2>1, <2>2 DEF Right
    <2>3. CASE op.kind = "move"
      <3>1. rows'[p] = Absent
        BY <1>10, FollowedEffect
      <3>2. Seen(p)' = Absent
        BY <1>1, <1>4, <1>10, <2>3 DEF OpInv, Seen
      <3> QED BY <2>1, <3>1, <3>2, GoneAfter
    <2> QED BY <2>1, <2>2, <2>3, OpFacts
  <1> QED BY <1>7, <1>8, <1>9, <1>10

LEMMA UndoneRight ==
  ASSUME TypeInv, TypeInv', OpInv, RightInv, RollBack \/ RemoveSource, NEW s \in Scanners,
         NEW p \in Paths
  PROVE  Owned(s, p)' /\ Right(s, p)'
  <1>1. /\ UNCHANGED <<mount, rows, roots, scan>> /\ op' = NoOp /\ spoilt[s] \subseteq spoilt'[s]
    BY DEF RollBack, RemoveSource, index, Spoil, TypeInv, CountsOK
  <1>2. op.from \in Paths /\ op.to \in Paths
    BY OpFacts
  <1>3. Exempt' = {} /\ ~Retagged(p)' /\ SameFolder(p)
    BY <1>1, NoOpFacts DEF Exempt, Retagged, SameFolder, Registered
  <1>4. ASSUME disk'[p] = disk[p], p # op.from, p \notin Exempt
        PROVE  Owned(s, p)' /\ Right(s, p)'
    <2>1. SamePath(p)
      BY <1>1, <1>3, <1>4 DEF SamePath, SameRow, Retagged, Seen, Reachable
    <2> QED BY <1>1, <1>3, <1>4, <2>1, OutsideRight
  <1>5. CASE RollBack
    <2>1. disk' = [[disk EXCEPT ![op.to] = Absent] EXCEPT ![op.from] = op.old]
          /\ {op.from, op.to} \subseteq spoilt'[s]
      BY <1>2, <1>5 DEF RollBack, Spoil
    <2>2. CASE p \in {op.from, op.to}
      BY <2>1, <2>2, SpoiltRight
    <2>3. CASE p \notin {op.from, op.to}
      <3>1. disk'[p] = disk[p] /\ p \notin Exempt
        BY <1>2, <2>1, <2>3 DEF Exempt, TypeInv, DiskOK
      <3> QED BY <1>4, <2>3, <3>1
    <2> QED BY <2>2, <2>3
  <1>6. CASE RemoveSource
    <2>1. /\ disk' = [disk EXCEPT ![op.from] = Absent] /\ op.pc = "source"
          /\ rows[op.from] # Absent => op.from \in spoilt'[s]
      BY <1>2, <1>6 DEF RemoveSource, Spoil
    <2>2. CASE p = op.from /\ rows[p] # Absent
      BY <2>1, <2>2, SpoiltRight
    <2>3. CASE p = op.from /\ rows[p] = Absent
      <3>1. rows'[p] = Absent /\ Seen(p)' = Absent
        BY <1>1, <1>2, <2>1, <2>3 DEF Seen, TypeInv, DiskOK
      <3>2. Owned(s, p)'
        BY <1>1, <1>3, StillAnswers
      <3> QED BY <3>1, <3>2, GoneAfter
    <2>4. CASE p # op.from
      <3>1. disk'[p] = disk[p] /\ p \notin Exempt
        BY <1>2, <2>1, <2>4 DEF Exempt, TypeInv, DiskOK
      <3> QED BY <1>4, <2>4, <3>1
    <2> QED BY <2>2, <2>3, <2>4
  <1> QED BY <1>5, <1>6

LEMMA WorldRight ==
  ASSUME TypeInv, RightInv, World, NEW s \in Scanners, NEW p \in Paths
  PROVE  Owned(s, p)' /\ Right(s, p)'
  <1>1. scan' = scan /\ op' = op /\ spoilt[s] \subseteq spoilt'[s]
    BY DEF World, Rewrite, Delete, AddFolder, RemoveFolder, Remount, Spoil, TypeInv, CountsOK
  <1>2. (p \in Exempt <=> p \in Exempt') /\ (Retagged(p) <=> Retagged(p)')
    BY <1>1 DEF Exempt, Retagged
  <1>3. ASSUME rows'[p] = rows[p], Seen(p)' = Seen(p), SameFolder(p)
        PROVE  Owned(s, p)' /\ Right(s, p)'
    <2>1. SamePath(p)
      BY <1>2, <1>3 DEF SamePath, SameRow
    <2> QED BY <1>1, <1>2, <1>3, <2>1, OutsideRight
  <1>4. CASE \E q \in Paths : Rewrite(q) \/ Delete(q)
    <2> PICK q \in Paths : Rewrite(q) \/ Delete(q)
      BY <1>4
    <2>1. q \in spoilt'[s] /\ UNCHANGED <<mount, rows, roots>> /\ (p # q => disk'[p] = disk[p])
      BY DEF Rewrite, Delete, Spoil, index, TypeInv, DiskOK
    <2>2. p # q => Seen(p)' = Seen(p) /\ SameFolder(p)
      BY <2>1 DEF Seen, Reachable, SameFolder, Registered
    <2> QED BY <1>3, <2>1, <2>2, SpoiltRight
  <1>5. CASE \E r \in Roots : AddFolder(r) \/ RemoveFolder(r)
    <2> PICK r \in Roots : AddFolder(r) \/ RemoveFolder(r)
      BY <1>5
    <2>1. /\ UNCHANGED <<disk, mount>> /\ (Root(p) = r => p \in spoilt'[s])
          /\ Root(p) # r => rows'[p] = rows[p]
          /\ Root(p) # r /\ Root(p) \in Roots => roots'[Root(p)] = roots[Root(p)]
      BY DEF AddFolder, RemoveFolder, Spoil, world, TypeInv, IndexOK
    <2>2. Root(p) # r => Seen(p)' = Seen(p) /\ SameFolder(p)
      BY <2>1 DEF Seen, Reachable, SameFolder, Registered
    <2> QED BY <1>3, <2>1, <2>2, SpoiltRight
  <1>6. CASE \E r \in Roots, m \in Mounts : Remount(r, m)
    <2> PICK r \in Roots, m \in Mounts : Remount(r, m)
      BY <1>6
    <2>1. /\ UNCHANGED <<disk, rows, roots>> /\ (Root(p) = r => p \in spoilt'[s])
          /\ Root(p) # r => (Reachable(p)' <=> Reachable(p))
      BY PathFacts DEF Remount, Spoil, index, TypeInv, DiskOK, Reachable
    <2>2. Root(p) # r => Seen(p)' = Seen(p) /\ SameFolder(p)
      BY <2>1 DEF Seen, SameFolder, Registered
    <2> QED BY <1>3, <2>1, <2>2, SpoiltRight
  <1> QED BY <1>4, <1>5, <1>6 DEF World

LEMMA NextRight ==
  ASSUME TypeInv, TypeInv', KnownInv, OpInv, Ages, RightInv, [Next]_vars
  PROVE  RightInv'
  <1>1. CASE \E s \in Scanners : Scan(s)
    BY <1>1, ScanKeepsRight
  <1>2. CASE Program \/ World
    <2>1. ASSUME NEW s \in Scanners, NEW p \in Paths
          PROVE  Owned(s, p)' /\ Right(s, p)'
      BY <1>2, PublishRight, DependentsRight, UndoneRight, WorldRight DEF Program
    <2> QED BY <2>1 DEF RightInv
  <1>3. CASE UNCHANGED vars
    <2>1. ASSUME NEW s \in Scanners, NEW p \in Paths
          PROVE  Owned(s, p)' /\ Right(s, p)'
      <3>1. UNCHANGED <<world, op, rows, roots, scan, spoilt>>
        BY <1>3 DEF vars, world
      <3>2. SameFolder(p) /\ SamePath(p) /\ (p \in Exempt <=> p \in Exempt')
        BY <3>1, QuietPath, WorldSame DEF SameFolder, Registered
      <3> QED BY <3>1, <3>2, OutsideRight
    <2> QED BY <2>1 DEF RightInv
  <1> QED BY <1>1, <1>2, <1>3 DEF Next

LEMMA InitRight == Init => RightInv
  BY IdleFacts DEF Init, RightInv, Owned, Right, Answers, Active

\* A scan that has done everything, and has missed nothing, has left what is
\* there.
LEMMA RightIsTrue ==
  ASSUME RightInv
  PROVE  UpToDateIsTrue
  <1>1. ASSUME NEW s \in Scanners, UpToDate(s), NEW p \in Paths, Registered(Root(p)),
               p \notin spoilt[s] \cup Busy
        PROVE  /\ Seen(p) # Absent <=> rows[p] # Absent /\ rows[p].available
               /\ Seen(p) # Absent => rows[p].tags = Seen(p).tags
    <2>1. scan[s].pc = "roots" /\ scan[s].todo = {} /\ ~scan[s].incomplete
      BY <1>1 DEF UpToDate, Finished
    <2>2. Answers(s, p) /\ ~Here(s, p)
      BY <1>1, <2>1 DEF Answers, Active, Here, Working
    <2>3. p \notin Exempt /\ ~Retagged(p)
      BY <1>1 DEF Exempt, Retagged, Busy
    <2>4. DoneRight(s, p)
      BY <2>2, <2>3 DEF RightInv, Right
    <2> QED BY <2>1, <2>2, <2>3, <2>4 DEF DoneRight, Good
  <1> QED BY <1>1 DEF UpToDateIsTrue

LibraryInv == TypeInv /\ KnownInv /\ OpInv /\ Ages /\ RightInv

LEMMA InitLibrary == Init => LibraryInv
  BY InitTypes, InitKnown, InitOp, InitAges, InitRight DEF LibraryInv

LEMMA NextLibrary ==
  ASSUME LibraryInv, [Next]_vars, NoReturn
  PROVE  LibraryInv'
  <1>1. TypeInv'
    BY NextTypes DEF LibraryInv
  <1> QED BY <1>1, NextKnown, NextOp, NextAges, NextRight DEF LibraryInv

\* A scan that reports "Library up to date" is right about every file that
\* nothing happened to that it could not see, however the saves, moves and
\* copies of the program, a second scan and the workers are interleaved with
\* it: it answers for a path from the moment it has opened its folder.
\* (NoReturn as above: a worker's answer about a file that was replaced twice.)
THEOREM UpToDateIsRight == Spec /\ [][NoReturn]_vars => []UpToDateIsTrue
  <1>1. LibraryInv /\ [Next]_vars /\ [NoReturn]_vars => LibraryInv'
    <2> SUFFICES ASSUME LibraryInv, [Next]_vars, [NoReturn]_vars
                 PROVE  LibraryInv'
      OBVIOUS
    <2>1. CASE NoReturn
      BY <2>1, NextLibrary
    <2>2. CASE UNCHANGED vars
      <3>1. TypeInv' /\ OpInv' /\ Ages'
        BY NextTypes, NextOp, NextAges DEF LibraryInv
      <3>2. KnownInv'
        BY <2>2 DEF vars, LibraryInv, KnownInv, OneVersion, Past, Read, Known, InScan, InRow
      <3>3. RightInv'
        BY <3>1, NextRight DEF LibraryInv
      <3> QED BY <3>1, <3>2, <3>3 DEF LibraryInv
    <2> QED BY <2>1, <2>2
  <1>2. LibraryInv => UpToDateIsTrue
    BY RightIsTrue DEF LibraryInv
  <1> QED BY <1>1, <1>2, InitLibrary, PTL DEF Spec

\* The same, of a program that does not move files.
THEOREM UpToDateWithoutMoves ==
  ASSUME "move" \notin Kinds, RollBacks \subseteq {"copy"}
  PROVE  Spec => []UpToDateIsTrue
  <1> DEFINE I == LibraryInv /\ NotMoving
  <1>1. Init => I
    BY InitLibrary, InitOp
  <1>2. I /\ [Next]_vars => I'
    <2> SUFFICES ASSUME I, [Next]_vars
                 PROVE  I'
      OBVIOUS
    <2>1. NoReturn /\ NotMoving'
      BY NoComeback DEF LibraryInv
    <2> QED BY <2>1, NextLibrary
  <1>3. I => UpToDateIsTrue
    BY RightIsTrue DEF LibraryInv
  <1> HIDE DEF I
  <1> QED BY <1>1, <1>2, <1>3, PTL DEF Spec

(***************************************************************************)
(* What a scan forgets.  A revision has one holder: the path whose file has  *)
(* it, or would have it again if a save were undone.  A row with a revision  *)
(* is at the holder's path, except while a move has taken the file away, and *)
(* what a scan is about to forget has no holder.                            *)
(***************************************************************************)
Holder(q, v) ==
  \/ disk[q] # Absent /\ disk[q].rev = v
  \/ op.pc = "published" /\ op.kind = "tags" /\ q = op.from /\ op.old.rev = v
Moving(p, q) == op.pc = "published" /\ op.kind = "move" /\ p = op.from /\ q = op.to

OldHolders ==
  /\ \A q \in Paths, v \in Versions : Holder(q, v) => v <= clock
  /\ \A p \in Paths : rows[p] # Absent => rows[p].rev <= clock
Apart == \A p, q \in Paths, v \in Versions : Holder(p, v) /\ Holder(q, v) => p = q
NoTwin ==
  \A p, q \in Paths : p # q /\ rows[p] # Absent /\ rows[p].rev # 0 /\ Holder(q, rows[p].rev) =>
    Moving(p, q)
HeldInv == OldHolders /\ Apart /\ NoTwin
Vanished ==
  \A s \in Scanners : scan[s].pc = "forget" /\ Place(s) \notin astray =>
    scan[s].held.rev <= clock /\ \A q \in Paths : ~Holder(q, scan[s].held.rev)

LEMMA RowRevision ==
  ASSUME TypeInv, NEW p \in Paths, rows[p] # Absent
  PROVE  rows[p].rev \in Nat /\ (rows[p].rev # 0 => rows[p].rev \in Versions)
  <1>1. rows[p].rev \in Versions \cup {0}
    BY RowAt DEF RowType
  <1>2. \A v \in Versions \cup {0} : v \in Nat
    BY VersionFacts
  <1> QED BY <1>1, <1>2

\* Nothing new: revisions stay where they are or disappear.
LEMMA FewerHolders ==
  ASSUME TypeInv, TypeInv', HeldInv, clock' = clock,
         \A q \in Paths, v \in Versions : Holder(q, v)' => Holder(q, v),
         \A p \in Paths : rows'[p] # Absent =>
            \/ rows[p] # Absent /\ rows'[p].rev = rows[p].rev
            \/ rows'[p].rev = 0
            \/ disk[p] # Absent /\ rows'[p].rev = disk[p].rev,
         \A p, q \in Paths : Moving(p, q) => Moving(p, q)' \/ rows'[p] = Absent
  PROVE  HeldInv'
  <1>0. clock \in Nat
    BY VersionFacts DEF TypeInv, DiskOK
  <1>1. ASSUME NEW p \in Paths, rows'[p] # Absent
        PROVE  /\ rows'[p].rev # 0 => rows'[p].rev \in Versions
               /\ \/ rows[p] # Absent /\ rows'[p].rev = rows[p].rev
                  \/ rows'[p].rev = 0
                  \/ rows'[p].rev \in Versions /\ Holder(p, rows'[p].rev)
    <2>1. rows'[p].rev \in Versions \cup {0}
      <3>1. rows'[p] \in RowType
        BY <1>1 DEF TypeInv, IndexOK
      <3> QED BY <3>1 DEF RowType
    <2> QED BY <1>1, <2>1 DEF Holder
  <1>2. OldHolders'
    <2>1. \A q \in Paths, v \in Versions : Holder(q, v)' => v <= clock'
      BY DEF HeldInv, OldHolders
    <2>2. \A p \in Paths : rows'[p] # Absent => rows'[p].rev <= clock'
      BY <1>0, <1>1 DEF HeldInv, OldHolders
    <2> QED BY <2>1, <2>2 DEF OldHolders
  <1>3. Apart'
    BY DEF HeldInv, Apart
  <1>4. ASSUME NEW p \in Paths, NEW q \in Paths, p # q, rows'[p] # Absent, rows'[p].rev # 0,
               Holder(q, rows[p].rev)'
        PROVE  Moving(p, q)'
    <2> PICK v \in Versions : v = rows'[p].rev
      BY <1>1, <1>4
    <2>3. Holder(q, v)
      <3>1. Holder(q, v)'
        BY <1>4 DEF Holder
      <3> QED BY <3>1
    <2>4. ~Holder(p, v)
      BY <1>4, <2>3 DEF HeldInv, Apart
    <2>5. rows[p] # Absent /\ v = rows[p].rev
      BY <1>1, <1>4, <2>4
    <2>6. Moving(p, q)
      BY <1>4, <2>3, <2>5 DEF HeldInv, NoTwin
    <2> QED BY <1>4, <2>6
  <1>5. NoTwin'
    BY <1>4 DEF NoTwin
  <1> QED BY <1>2, <1>3, <1>5 DEF HeldInv

\* One new revision.
LEMMA NewHolder ==
  ASSUME TypeInv, HeldInv, clock' = clock + 1, rows' = rows, NEW e \in Paths,
         \A q \in Paths, v \in Versions : Holder(q, v)' => Holder(q, v) \/ (v = clock' /\ q = e),
         \A p, q \in Paths : Moving(p, q) => Moving(p, q)'
  PROVE  HeldInv'
  <1>1. clock \in Nat /\ \A v \in Versions : v \in Nat
    BY VersionFacts DEF TypeInv, DiskOK
  <1>2. \A q \in Paths, v \in Versions : Holder(q, v) => v <= clock /\ v # clock'
    BY <1>1 DEF HeldInv, OldHolders
  <1>3. OldHolders'
    <2>1. \A q \in Paths, v \in Versions : Holder(q, v)' => v <= clock'
      BY <1>1, <1>2
    <2>2. \A p \in Paths : rows'[p] # Absent => rows'[p].rev <= clock'
      BY <1>1, RowRevision DEF HeldInv, OldHolders
    <2> QED BY <2>1, <2>2 DEF OldHolders
  <1>4. Apart'
    BY <1>2 DEF HeldInv, Apart
  <1>5. ASSUME NEW p \in Paths, NEW q \in Paths, p # q, rows[p] # Absent, rows[p].rev # 0,
               Holder(q, rows[p].rev)'
        PROVE  Moving(p, q)'
    <2> PICK v \in Versions : v = rows[p].rev
      BY <1>5, RowRevision
    <2>1. v <= clock /\ v \in Nat
      BY <1>1, <1>5 DEF HeldInv, OldHolders
    <2>2. Holder(q, v)'
      BY <1>5 DEF Holder
    <2>3. v # clock'
      BY <1>1, <2>1
    <2>4. Holder(q, v)
      BY <2>2, <2>3
    <2> QED BY <1>5, <2>4 DEF HeldInv, NoTwin
  <1>6. NoTwin'
    BY <1>5 DEF NoTwin
  <1> QED BY <1>3, <1>4, <1>6 DEF HeldInv

\* A file that is moved takes its revision along.
LEMMA MovedHolder ==
  ASSUME TypeInv, HeldInv, clock' = clock, rows' = rows, op.pc = "idle",
         NEW a \in Paths, NEW b \in Paths, a # b, Moving(a, b)',
         \A v \in Versions : ~Holder(a, v)' /\ (Holder(b, v)' => Holder(a, v)),
         \A q \in Paths \ {a, b}, v \in Versions : Holder(q, v)' => Holder(q, v)
  PROVE  HeldInv'
  <1>1. \A q \in Paths, v \in Versions :
          Holder(q, v)' => /\ Holder(IF q = b THEN a ELSE q, v)
                           /\ q # a
    OBVIOUS
  <1>2. OldHolders'
    BY <1>1 DEF HeldInv, OldHolders
  <1>3. Apart'
    <2>1. ASSUME NEW p \in Paths, NEW q \in Paths, NEW v \in Versions, Holder(p, v)', Holder(q, v)'
          PROVE  p = q
      BY <1>1, <2>1 DEF HeldInv, Apart
    <2> QED BY <2>1 DEF Apart
  <1>4. ASSUME NEW p \in Paths, NEW q \in Paths, p # q, rows[p] # Absent, rows[p].rev # 0,
               Holder(q, rows[p].rev)'
        PROVE  Moving(p, q)'
    <2> PICK v \in Versions : v = rows[p].rev
      BY <1>4, RowRevision
    <2>2. Holder(q, v)'
      BY <1>4 DEF Holder
    <2>3. Holder(IF q = b THEN a ELSE q, v) /\ q # a
      BY <1>1, <2>2
    <2>4. \A r \in Paths : ~Moving(p, r)
      BY DEF Moving
    <2>5. p = IF q = b THEN a ELSE q
      BY <1>4, <2>3, <2>4 DEF HeldInv, NoTwin
    <2> QED BY <1>4, <2>5
  <1>5. NoTwin'
    BY <1>4 DEF NoTwin
  <1> QED BY <1>2, <1>3, <1>5 DEF HeldInv

\* A row that a scan writes has the revision it had, or that of the file.
ScanRows ==
  \A p \in Paths : rows'[p] # Absent =>
    \/ rows[p] # Absent /\ rows'[p].rev = rows[p].rev
    \/ rows'[p].rev = 0
    \/ disk[p] # Absent /\ rows'[p].rev = disk[p].rev

LEMMA HidingScanRows ==
  ASSUME TypeInv, NEW s \in Scanners, FolderOffline(s) \/ EndFolder(s)
  PROVE  ScanRows
  <1>1. \E S \in SUBSET Paths :
          /\ \A p \in S : rows[p] # Absent
          /\ rows' = [p \in Paths |-> IF p \in S THEN [rows[p] EXCEPT !.available = FALSE]
                                      ELSE rows[p]]
    <2>1. CASE FolderOffline(s)
      <3> PICK r \in scan[s].todo :
              rows' = [p \in Paths |-> IF p \in RowsOf(r)
                        THEN [rows[p] EXCEPT !.available = FALSE] ELSE rows[p]]
        BY <2>1, OfflineEffect
      <3>1. RowsOf(r) \subseteq Paths /\ \A p \in RowsOf(r) : rows[p] # Absent
        BY DEF RowsOf
      <3> QED BY <3>1
    <2>2. CASE EndFolder(s)
      <3> DEFINE S == {p \in Paths : scan[s].complete /\ ~scan[s].cancel /\ Owns(s)
                          /\ p \in RowsOf(scan[s].root) /\ rows[p].seen # scan[s].gen}
      <3>1. S \subseteq Paths /\ \A p \in S : rows[p] # Absent
        BY DEF RowsOf
      <3>2. rows' = [p \in Paths |-> IF p \in S
                       THEN [rows[p] EXCEPT !.available = FALSE] ELSE rows[p]]
        BY <2>2, EndFolderEffect
      <3> HIDE DEF S
      <3> QED BY <3>1, <3>2
    <2> QED BY <2>1, <2>2
  <1> PICK S \in SUBSET Paths :
          /\ \A p \in S : rows[p] # Absent
          /\ rows' = [p \in Paths |-> IF p \in S THEN [rows[p] EXCEPT !.available = FALSE]
                                      ELSE rows[p]]
    BY <1>1
  <1>2. SameRows
    BY HidingRows
  <1> QED BY <1>2 DEF SameRows, ScanRows

LEMMA TouchScanRows ==
  ASSUME TypeInv, NEW s \in Scanners, Touch(s)
  PROVE  ScanRows
  <1>1. /\ Place(s) \in Paths
        /\ \/ rows' = rows
           \/ /\ rows[Place(s)] # Absent
              /\ rows' = [rows EXCEPT ![Place(s)] = [rows[Place(s)] EXCEPT
                                        !.available = TRUE, !.seen = scan[s].gen]]
    BY TouchEffect
  <1>2. scan[s].gen \in Generations
    BY LocalFacts DEF Touch, Placed
  <1> DEFINE y == [rows[Place(s)] EXCEPT !.available = TRUE, !.seen = scan[s].gen]
  <1>3. CASE rows[Place(s)] # Absent /\ rows' = [rows EXCEPT ![Place(s)] = y]
    <2>1. y.rev = rows[Place(s)].rev
      BY <1>1, <1>2, <1>3, RowAt, TouchedRow
    <2> HIDE DEF y
    <2> QED BY <1>1, <1>3, <2>1 DEF ScanRows, TypeInv, IndexOK
  <1>4. CASE rows' = rows
    BY <1>4 DEF ScanRows
  <1> QED BY <1>1, <1>3, <1>4

LEMMA CommitScanRows ==
  ASSUME TypeInv, NEW s \in Scanners, CommitPrepared(s)
  PROVE  ScanRows
  <1> PICK f \in scan[s].results :
              /\ f \in Answer
              /\ \/ rows' = rows
                 \/ /\ rows[f.path] # Absent
                    /\ rows' = [rows EXCEPT ![f.path] = [rows[f.path] EXCEPT !.complete = FALSE]]
                 \/ /\ Current(f)
                    /\ rows' = [rows EXCEPT ![f.path] =
                                  Row([rev |-> f.before.rev, tags |-> f.tags], scan[s].gen)]
    BY CommitEffect
  <1>1. f.path \in Paths /\ f.before \in Contents
    BY DEF Answer
  <1>2. CASE rows' = rows
    BY <1>2 DEF ScanRows
  <1>3. CASE /\ rows[f.path] # Absent
             /\ rows' = [rows EXCEPT ![f.path] = [rows[f.path] EXCEPT !.complete = FALSE]]
    <2> DEFINE y == [rows[f.path] EXCEPT !.complete = FALSE]
    <2>1. y.rev = rows[f.path].rev
      BY <1>1, <1>3, RowAt, OldRow
    <2>2. rows' = [rows EXCEPT ![f.path] = y]
      BY <1>3
    <2> HIDE DEF y
    <2> QED BY <1>1, <1>3, <2>1, <2>2 DEF ScanRows, TypeInv, IndexOK
  <1>4. CASE /\ Current(f)
             /\ rows' = [rows EXCEPT ![f.path] =
                           Row([rev |-> f.before.rev, tags |-> f.tags], scan[s].gen)]
    <2> DEFINE y == Row([rev |-> f.before.rev, tags |-> f.tags], scan[s].gen)
    <2>1. disk[f.path] = f.before /\ disk[f.path] # Absent
      BY <1>1, <1>4, SeenFacts, ContentFacts DEF Current
    <2>2. y.rev = disk[f.path].rev
      BY <2>1 DEF Row
    <2>3. rows' = [rows EXCEPT ![f.path] = y]
      BY <1>4
    <2> HIDE DEF y
    <2> QED BY <1>1, <2>1, <2>2, <2>3 DEF ScanRows, TypeInv, IndexOK
  <1> QED BY <1>2, <1>3, <1>4

LEMMA ScanHeld ==
  ASSUME TypeInv, TypeInv', HeldInv, NEW s \in Scanners, Scan(s)
  PROVE  HeldInv'
  <1>1. ScanRows
    <2>1. CASE FolderOffline(s) \/ EndFolder(s) \/ Touch(s) \/ CommitPrepared(s)
      BY <2>1, HidingScanRows, TouchScanRows, CommitScanRows
    <2>2. CASE Forget(s)
      <3>1. \A p \in Paths : rows'[p] \in {rows[p], Absent}
        BY <2>2, ForgetEffect DEF TypeInv, IndexOK
      <3> QED BY <3>1 DEF ScanRows
    <2>3. CASE \/ StartScan(s) \/ Stop(s) \/ OpenFolder(s) \/ Visit(s) \/ WalkFails(s) \/ Submit(s)
               \/ Prepare(s) \/ EndWalk(s) \/ LookForMissing(s) \/ Finish(s) \/ Abort(s)
      <3>1. rows' = rows
        BY <2>3 DEF StartScan, Stop, OpenFolder, Visit, WalkFails, Submit, Prepare, EndWalk,
                    LookForMissing, Finish, Abort, index
      <3> QED BY <3>1 DEF ScanRows
    <2> QED BY <2>1, <2>2, <2>3 DEF Scan, Walk
  <1>2. UNCHANGED <<disk, clock, op>>
    BY ScanWorld
  <1>3. /\ \A q \in Paths, v \in Versions : Holder(q, v)' => Holder(q, v)
        /\ \A p, q \in Paths : Moving(p, q) => Moving(p, q)'
    BY <1>2 DEF Holder, Moving
  <1> QED BY <1>1, <1>2, <1>3, FewerHolders DEF ScanRows

LEMMA PublishHolders ==
  ASSUME TypeInv, Publish
  PROVE  \A q \in Paths, v \in Versions : Holder(q, v)' =>
           \/ Holder(q, v)
           \/ clock' = clock + 1 /\ v = clock' /\ q = op'.to
           \/ op'.kind = "move" /\ q = op'.to /\ Holder(op'.from, v)
  <1>1. /\ op'.from \in Paths /\ op'.to \in Paths /\ op'.old = disk[op'.from] /\ op'.old \in Contents
    BY PublishEffect
  <1>2. CASE /\ op'.kind = "tags" /\ op'.to = op'.from /\ clock' = clock + 1
             /\ disk' = [disk EXCEPT ![op'.from] = [rev |-> clock', tags |-> clock']]
    <2> DEFINE e == [rev |-> clock', tags |-> clock']
    <2>1. e.rev = clock' /\ disk' = [disk EXCEPT ![op'.from] = e]
      BY <1>2
    <2> HIDE DEF e
    <2>2. \A q \in Paths : disk'[q] = IF q = op'.to THEN e ELSE disk[q]
      BY <1>1, <1>2, <2>1 DEF TypeInv, DiskOK
    <2> QED BY <1>1, <1>2, <2>1, <2>2, ContentFacts DEF Holder
  <1>3. CASE /\ op'.kind = "move"
             /\ disk' = [disk EXCEPT ![op'.from] = Absent, ![op'.to] = op'.old]
    <2>2. \A q \in Paths : disk'[q] = IF q = op'.to THEN op'.old ELSE IF q = op'.from THEN Absent ELSE disk[q]
      BY <1>1, <1>3 DEF TypeInv, DiskOK
    <2> QED BY <1>1, <1>3, <2>2, ContentFacts DEF Holder
  <1>4. CASE /\ op'.kind = "copy" /\ clock' = clock + 1
             /\ disk' = [disk EXCEPT ![op'.to] = [rev |-> clock', tags |-> op'.old.tags]]
    <2> DEFINE e == [rev |-> clock', tags |-> op'.old.tags]
    <2>1. e.rev = clock' /\ disk' = [disk EXCEPT ![op'.to] = e]
      BY <1>4
    <2> HIDE DEF e
    <2>2. \A q \in Paths : disk'[q] = IF q = op'.to THEN e ELSE disk[q]
      BY <1>1, <2>1 DEF TypeInv, DiskOK
    <2> QED BY <1>4, <2>1, <2>2 DEF Holder
  <1> QED BY <1>2, <1>3, <1>4, PublishEffect

LEMMA PublishHeld ==
  ASSUME TypeInv, HeldInv, Publish
  PROVE  HeldInv'
  <1>1. /\ op.pc = "idle" /\ rows' = rows /\ op'.from \in Paths /\ op'.to \in Paths
        /\ op'.pc = "published" /\ (op'.kind = "tags" \/ op'.kind = "move" \/ op'.kind = "copy")
        /\ op'.kind = "move" => clock' = clock /\ op'.to # op'.from
        /\ op'.kind # "move" => clock' = clock + 1
    BY PublishEffect
  <1>2. \A p, q \in Paths : ~Moving(p, q)
    BY <1>1 DEF Moving
  <1>3. CASE op'.kind # "move"
    <2> PICK e \in Paths : e = op'.to
      BY <1>1
    <2>1. \A q \in Paths, v \in Versions : Holder(q, v)' => Holder(q, v) \/ (v = clock' /\ q = e)
      BY <1>3, PublishHolders
    <2> QED BY <1>1, <1>2, <1>3, <2>1, NewHolder
  <1>4. CASE op'.kind = "move"
    <2> PICK a \in Paths, b \in Paths : a = op'.from /\ b = op'.to
      BY <1>1
    <2>1. clock' = clock /\ a # b /\ Moving(a, b)'
      BY <1>1, <1>4 DEF Moving
    <2>2. /\ disk' = [disk EXCEPT ![op'.from] = Absent, ![op'.to] = op'.old]
          /\ disk[op'.to] = Absent
      BY <1>4, PublishEffect
    <2>3. disk'[a] = Absent /\ disk[b] = Absent
      BY <1>1, <2>1, <2>2 DEF TypeInv, DiskOK
    <2>4. ASSUME NEW q \in Paths, NEW v \in Versions, Holder(q, v)'
          PROVE  Holder(q, v) \/ (q = b /\ Holder(a, v))
      <3>1. clock \in Nat
        BY VersionFacts DEF TypeInv, DiskOK
      <3> QED BY <2>1, <2>4, <3>1, PublishHolders
    <2>5. \A v \in Versions : ~Holder(a, v)' /\ (Holder(b, v)' => Holder(a, v))
      <3>1. \A v \in Versions : ~Holder(b, v) /\ ~Holder(a, v)'
        BY <1>1, <1>4, <2>3 DEF Holder
      <3> QED BY <2>4, <3>1
    <2>6. \A q \in Paths \ {a, b}, v \in Versions : Holder(q, v)' => Holder(q, v)
      BY <2>4
    <2> QED BY <1>1, <2>1, <2>5, <2>6, MovedHolder
  <1> QED BY <1>3, <1>4

LEMMA DependentsHeld ==
  ASSUME TypeInv, TypeInv', OpInv, HeldInv, CommitDependents
  PROVE  HeldInv'
  <1>1. /\ op.pc = "published" /\ UNCHANGED <<disk, clock>>
        /\ op' = IF op.kind = "copy" THEN [op EXCEPT !.pc = "source"] ELSE NoOp
    BY DEF CommitDependents, world
  <1>2. op'.pc # "published"
    BY <1>1, NoOpFacts DEF TypeInv, OpOK
  <1>3. \A q \in Paths, v \in Versions : Holder(q, v)' => Holder(q, v)
    BY <1>1, <1>2 DEF Holder
  <1>4. ASSUME NEW p \in Paths, rows'[p] # Absent
        PROVE  (rows[p] # Absent /\ rows'[p].rev = rows[p].rev) \/ rows'[p].rev = 0
    BY <1>4, FollowedEffect
  <1>5. ASSUME NEW p \in Paths, NEW q \in Paths, Moving(p, q)
        PROVE  rows'[p] = Absent
    <2>1. p = op.from /\ p # op.to
      BY <1>5 DEF Moving, OpInv
    <2> QED BY <2>1, FollowedEffect
  <1> QED BY <1>1, <1>3, <1>4, <1>5, FewerHolders

LEMMA UndoneHeld ==
  ASSUME TypeInv, TypeInv', OpInv, HeldInv, "move" \notin RollBacks, RollBack \/ RemoveSource
  PROVE  HeldInv'
  <1>1. UNCHANGED <<clock, rows>> /\ op' = NoOp /\ op.pc # "idle" /\ op.kind # "move"
    BY DEF RollBack, RemoveSource, index, OpInv
  <1>2. op.from \in Paths /\ op.to \in Paths /\ op.old \in Contents
    BY <1>1, OpFacts
  <1>3. ASSUME NEW q \in Paths, disk'[q] # Absent
        PROVE  Holder(q, disk'[q].rev)
    <2>1. CASE RollBack
      <3>1. op.pc = "published" /\ disk' = [[disk EXCEPT ![op.to] = Absent] EXCEPT ![op.from] = op.old]
        BY <2>1 DEF RollBack
      <3>2. disk'[q] = disk[q] \/ (q = op.from /\ disk'[q] = op.old)
        BY <1>2, <1>3, <3>1 DEF TypeInv, DiskOK
      <3>3. op.kind = "tags" \/ (op.kind = "copy" /\ disk[op.from] = op.old)
        BY <1>1, <3>1, OpFacts DEF OpInv
      <3> QED BY <1>3, <3>1, <3>2, <3>3 DEF Holder
    <2>2. CASE RemoveSource
      <3>1. disk'[q] = disk[q]
        BY <1>2, <1>3, <2>2 DEF RemoveSource, TypeInv, DiskOK
      <3> QED BY <1>3, <3>1 DEF Holder
    <2> QED BY <2>1, <2>2
  <1>4. op'.pc # "published"
    BY <1>1, NoOpFacts
  <1>5. \A q \in Paths, v \in Versions : Holder(q, v)' => Holder(q, v)
    BY <1>3, <1>4 DEF Holder
  <1>6. \A p, q \in Paths : ~Moving(p, q)
    BY <1>1 DEF Moving
  <1> QED BY <1>1, <1>5, <1>6, FewerHolders

LEMMA WorldHeld ==
  ASSUME TypeInv, TypeInv', HeldInv, World
  PROVE  HeldInv'
  <1>1. CASE \E p \in Paths : Rewrite(p)
    <2> PICK p \in Paths : Rewrite(p)
      BY <1>1
    <2> DEFINE e == [rev |-> clock', tags |-> clock']
    <2>1. /\ e.rev = clock' /\ disk' = [disk EXCEPT ![p] = e] /\ clock' = clock + 1
          /\ rows' = rows /\ op' = op
      BY DEF Rewrite, index
    <2> HIDE DEF e
    <2>2. \A q \in Paths : disk'[q] = IF q = p THEN e ELSE disk[q]
      BY <2>1 DEF TypeInv, DiskOK
    <2>3. \A q \in Paths, v \in Versions : Holder(q, v)' => Holder(q, v) \/ (v = clock' /\ q = p)
      BY <2>1, <2>2 DEF Holder
    <2>4. \A a, b \in Paths : Moving(a, b) => Moving(a, b)'
      BY <2>1 DEF Moving
    <2> QED BY <2>1, <2>3, <2>4, NewHolder
  <1>2. CASE ~\E p \in Paths : Rewrite(p)
    <2>1. /\ UNCHANGED <<clock, op>>
          /\ \A p \in Paths : disk'[p] \in {disk[p], Absent}
          /\ \A p \in Paths : rows'[p] \in {rows[p], Absent}
      BY <1>2 DEF World, Delete, AddFolder, RemoveFolder, Remount, index, world, TypeInv, DiskOK, IndexOK
    <2>2. \A q \in Paths, v \in Versions : Holder(q, v)' => Holder(q, v)
      BY <2>1 DEF Holder
    <2>3. \A a, b \in Paths : Moving(a, b) => Moving(a, b)'
      BY <2>1 DEF Moving
    <2>4. \A p \in Paths : rows'[p] # Absent => rows[p] # Absent /\ rows'[p].rev = rows[p].rev
      BY <2>1
    <2> QED BY <2>1, <2>2, <2>3, <2>4, FewerHolders
  <1> QED BY <1>1, <1>2

LEMMA NextHeld ==
  ASSUME TypeInv, TypeInv', OpInv, HeldInv, "move" \notin RollBacks, [Next]_vars
  PROVE  HeldInv'
  <1>1. CASE UNCHANGED vars
    <2>1. UNCHANGED <<disk, clock, rows, op>>
      BY <1>1 DEF vars
    <2>2. /\ \A q \in Paths, v \in Versions : Holder(q, v)' => Holder(q, v)
          /\ \A a, b \in Paths : Moving(a, b) => Moving(a, b)'
      BY <2>1 DEF Holder, Moving
    <2> QED BY <2>1, <2>2, FewerHolders
  <1> QED BY <1>1, ScanHeld, PublishHeld, DependentsHeld, UndoneHeld, WorldHeld DEF Next, Program

LEMMA InitHeld == Init => HeldInv
  <1> SUFFICES ASSUME Init
               PROVE  HeldInv
    OBVIOUS
  <1>1. /\ \A p \in Paths : disk[p] = Absent \/ disk[p] = [rev |-> Number[p], tags |-> Number[p]]
        /\ \A p \in Paths : rows[p] = Absent \/
              (disk[p] # Absent /\ rows[p] = Row(disk[p], 1))
    <2> PICK present \in SUBSET Paths, old \in BOOLEAN, chosen \in BOOLEAN :
         /\ disk = [p \in Paths |-> IF p \in present
                        THEN [rev |-> Number[p], tags |-> Number[p]] ELSE Absent]
         /\ rows = [p \in Paths |-> IF old /\ p \in present /\ Root(p) \in Roots
                        THEN Row(disk[p], 1) ELSE Absent]
      BY DEF Init
    <2>1. TypeInv
      BY InitTypes
    <2>2. \A p \in present : disk[p] # Absent
      <3> DEFINE e(p) == [rev |-> Number[p], tags |-> Number[p]]
      <3>1. \A p \in Paths : e(p) \in Contents
        <4>1. \A n \in 1 .. Cardinality(Paths) : n \in Versions
          BY PathsFinite, VersionFacts, BoundFacts
        <4> QED BY <4>1, NumberFacts DEF Contents
      <3>2. \A p \in present : disk[p] = e(p)
        OBVIOUS
      <3> HIDE DEF e
      <3> QED BY <3>1, <3>2, AbsentFacts
    <2> QED BY <2>2
  <1>2. clock = Cardinality(Paths) /\ op.pc = "idle"
    BY NoOpFacts DEF Init
  <1>3. ASSUME NEW q \in Paths, disk[q] # Absent
        PROVE  disk[q].rev = Number[q]
    <2> DEFINE e == [rev |-> Number[q], tags |-> Number[q]]
    <2>1. e.rev = Number[q]
      OBVIOUS
    <2>2. disk[q] = e
      BY <1>1, <1>3
    <2> QED BY <2>1, <2>2
  <1>4. \A q \in Paths, v \in Versions : Holder(q, v) => v = Number[q]
    BY <1>2, <1>3 DEF Holder
  <1>5. ASSUME NEW p \in Paths, rows[p] # Absent
        PROVE  rows[p].rev = Number[p]
    <2> DEFINE x == Row(disk[p], 1)
    <2>1. x.rev = disk[p].rev
      BY DEF Row
    <2> HIDE DEF x
    <2> QED BY <1>1, <1>3, <1>5, <2>1 DEF x
  <1>6. \A p \in Paths : Number[p] \in Versions /\ Number[p] <= clock
    <2>1. \A p \in Paths : Number[p] \in 1 .. Cardinality(Paths)
      BY NumberFacts
    <2>2. \A n \in 1 .. Cardinality(Paths) : n \in Versions /\ n <= Cardinality(Paths)
      BY PathsFinite, VersionFacts, BoundFacts
    <2> QED BY <1>2, <2>1, <2>2
  <1>7. OldHolders
    BY <1>4, <1>5, <1>6 DEF OldHolders
  <1>8. Apart
    BY <1>4, NumberFacts DEF Apart
  <1>9. NoTwin
    <2>1. ASSUME NEW p \in Paths, NEW q \in Paths, p # q, rows[p] # Absent, Holder(q, rows[p].rev)
          PROVE  FALSE
      BY <1>4, <1>5, <1>6, <2>1, NumberFacts
    <2> QED BY <2>1 DEF NoTwin
  <1> QED BY <1>7, <1>8, <1>9 DEF HeldInv

\* Forgetting: what is looked for and gone stays gone until it is forgotten.
LEMMA HoldersGoOn ==
  ASSUME TypeInv, OpInv, "move" \notin RollBacks, [Next]_vars
  PROVE  /\ clock' \in {clock, clock + 1}
         /\ \A q \in Paths, v \in Versions : Holder(q, v)' =>
              v = clock + 1 \/ \E r \in Paths : Holder(r, v)
  <1>1. CASE Publish
    <2>1. op'.from \in Paths /\ clock' \in {clock, clock + 1}
      BY <1>1, PublishEffect
    <2> QED BY <1>1, <2>1, PublishHolders
  <1>2. CASE RollBack \/ RemoveSource
    <2>1. clock' = clock /\ op' = NoOp /\ op.pc # "idle" /\ op.kind # "move"
      BY <1>2 DEF RollBack, RemoveSource, OpInv
    <2>2. op.from \in Paths /\ op.to \in Paths /\ op'.pc # "published"
      BY <2>1, OpFacts, NoOpFacts
    <2>3. \A q \in Paths : disk'[q] \in {disk[q], Absent} \/ (RollBack /\ q = op.from /\ disk'[q] = op.old)
      BY <1>2, <2>2 DEF RollBack, RemoveSource, TypeInv, DiskOK
    <2>4. RollBack => op.pc = "published" /\ (op.kind = "tags" \/ (op.kind = "copy" /\ disk[op.from] = op.old))
      BY <2>1, OpFacts DEF RollBack, OpInv
    <2> QED BY <2>1, <2>2, <2>3, <2>4 DEF Holder
  <1>3. CASE (\E s \in Scanners : Scan(s)) \/ CommitDependents \/ UNCHANGED vars
    <2>1. UNCHANGED <<disk, clock>>
      BY <1>3, ScanWorld DEF CommitDependents, vars, world
    <2>2. op' = op \/ op'.pc # "published"
      <3>1. CASE CommitDependents
        <4>1. op' = IF op.kind = "copy" THEN [op EXCEPT !.pc = "source"] ELSE NoOp
          BY <3>1 DEF CommitDependents
        <4> QED BY <4>1, NoOpFacts DEF TypeInv, OpOK
      <3> QED BY <1>3, <3>1, ScanWorld DEF vars
    <2> QED BY <2>1, <2>2 DEF Holder
  <1>4. CASE World
    <2>1. CASE \E p \in Paths : Rewrite(p)
      <3> PICK p \in Paths : Rewrite(p)
        BY <2>1
      <3> DEFINE e == [rev |-> clock', tags |-> clock']
      <3>1. e.rev = clock + 1 /\ disk' = [disk EXCEPT ![p] = e] /\ clock' = clock + 1 /\ op' = op
        BY DEF Rewrite
      <3> HIDE DEF e
      <3>2. \A q \in Paths : disk'[q] \in {disk[q], e}
        BY <3>1 DEF TypeInv, DiskOK
      <3> QED BY <3>1, <3>2 DEF Holder
    <2>2. CASE ~\E p \in Paths : Rewrite(p)
      <3>1. UNCHANGED <<clock, op>> /\ \A p \in Paths : disk'[p] \in {disk[p], Absent}
        BY <1>4, <2>2 DEF World, Delete, AddFolder, RemoveFolder, Remount, world, TypeInv, DiskOK
      <3> QED BY <3>1 DEF Holder
    <2> QED BY <2>1, <2>2
  <1> QED BY <1>1, <1>2, <1>3, <1>4 DEF Next, Program

LEMMA SameForget ==
  ASSUME TypeInv, [Next]_vars, NEW s \in Scanners, scan'[s].pc = "forget"
  PROVE  /\ astray \subseteq astray'
         /\ \/ /\ scan[s].pc = "forget" /\ scan'[s].held = scan[s].held
               /\ scan'[s].root = scan[s].root /\ scan'[s].next = scan[s].next
            \/ LookForMissing(s)
  <1>1. astray \subseteq astray'
    BY ZenonT(60) DEF Next, Scan, Walk, StartScan, Stop, FolderOffline, OpenFolder, Visit, WalkFails, Touch,
           Submit, Prepare, CommitPrepared, EndWalk, EndFolder, LookForMissing, Forget, Finish, Abort,
           Program, Publish, CommitDependents, RollBack, RemoveSource, World, Rewrite, Delete,
           AddFolder, RemoveFolder, Remount, Unspoilt, vars
  <1>2. CASE \E t \in Scanners : Scan(t)
    <2> PICK t \in Scanners : Scan(t)
      BY <1>2
    <2>1. OthersStay(t)
      <3>1. CASE StartScan(t) \/ Stop(t) \/ FolderOffline(t) \/ OpenFolder(t) \/ Visit(t)
        BY <3>1, StartEffect, StopEffect, OfflineEffect, OpenEffect, VisitEffect
      <3>2. CASE WalkFails(t) \/ Touch(t) \/ Submit(t) \/ Prepare(t) \/ CommitPrepared(t)
        BY <3>2, WalkFailsEffect, TouchEffect, SubmitEffect, PrepareEffect, CommitEffect
      <3>3. CASE EndWalk(t) \/ EndFolder(t) \/ LookForMissing(t) \/ Forget(t) \/ Finish(t) \/ Abort(t)
        BY <3>3, EndWalkEffect, EndFolderEffect, LookEffect, ForgetEffect, EndEffect
      <3> QED BY <3>1, <3>2, <3>3 DEF Scan, Walk
    <2>2. CASE t # s
      BY <1>1, <2>1, <2>2 DEF OthersStay
    <2>3. CASE t = s /\ (Stop(s) \/ Prepare(s))
      BY <1>1, <2>3, StopEffect, PrepareEffect DEF SameTurn
    <2>4. CASE t = s /\ LookForMissing(s)
      BY <1>1, <2>4
    <2>5. CASE t = s /\ \/ StartScan(s) \/ FolderOffline(s) \/ OpenFolder(s) \/ Visit(s)
                        \/ WalkFails(s) \/ Touch(s) \/ Submit(s) \/ CommitPrepared(s) \/ EndWalk(s)
                        \/ EndFolder(s) \/ Forget(s) \/ Finish(s) \/ Abort(s)
      <3>1. CASE StartScan(s) \/ FolderOffline(s) \/ OpenFolder(s) \/ Visit(s) \/ WalkFails(s)
        BY <1>1, <3>1, StartEffect, OfflineEffect, OpenEffect, VisitEffect, WalkFailsEffect
           DEF GoesOn, GivesUp
      <3>2. CASE Touch(s) \/ Submit(s)
        BY <3>2, TouchEffect, SubmitEffect DEF GoesOn, GivesUp
      <3>3. CASE CommitPrepared(s)
        BY <3>3, CommitEffect DEF GivesUp
      <3>4. CASE EndWalk(s) \/ EndFolder(s) \/ Forget(s) \/ Finish(s) \/ Abort(s)
        BY <3>4, EndWalkEffect, EndFolderEffect, ForgetEffect, EndEffect, IdleFacts
      <3> QED BY <2>5, <3>1, <3>2, <3>3, <3>4
    <2> QED BY <2>2, <2>3, <2>4, <2>5 DEF Scan, Walk
  <1>3. CASE Program \/ World \/ UNCHANGED vars
    <2>1. scan' = scan
      BY <1>3 DEF Program, Publish, CommitDependents, RollBack, RemoveSource, World, Rewrite, Delete,
                  AddFolder, RemoveFolder, Remount, vars
    <2> QED BY <1>1, <2>1
  <1> QED BY <1>2, <1>3 DEF Next

\* A candidate that is gone has no holder, unless the program has it in hand.
LEMMA LookVanished ==
  ASSUME TypeInv, OpInv, HeldInv, NEW s \in Scanners, LookForMissing(s), scan'[s].pc = "forget",
         Place(s)' \notin astray'
  PROVE  scan'[s].held.rev \in Versions /\ scan'[s].held.rev <= clock
         /\ \A q \in Paths : ~Holder(q, scan'[s].held.rev)
  <1> PICK p \in Paths :
                 /\ Root(p) = scan[s].root /\ rows[p] # Absent /\ ConfirmedMissing(p)
                 /\ scan'[s].next = p[2] /\ scan'[s].held = rows[p]
                 /\ p \in Busy => p \in astray'
    BY LookEffect
  <1>1. scan'[s].root = scan[s].root /\ scan[s].root \in Roots
    BY LookEffect, LocalFacts DEF SameTurn, Placed
  <1>2. Place(s)' = p
    BY <1>1, PathFacts DEF Place
  <1>3. p \notin Busy
    BY <1>2
  <1>4. rows[p].rev \in Versions /\ rows[p].rev <= clock
    BY RowRevision DEF ConfirmedMissing, HeldInv, OldHolders
  <1>5. disk[p] = Absent
    BY <1>1 DEF ConfirmedMissing, Seen, Reachable
  <1>6. \A v : ~Holder(p, v)
    BY <1>3, <1>5 DEF Holder, Busy
  <1>7. \A q \in Paths : ~Moving(p, q)
    BY <1>3 DEF Moving, Busy
  <1>8. \A q \in Paths : ~Holder(q, rows[p].rev)
    BY <1>4, <1>6, <1>7 DEF HeldInv, NoTwin, ConfirmedMissing
  <1> QED BY <1>4, <1>8

LEMMA NextVanished ==
  ASSUME TypeInv, OpInv, HeldInv, Vanished, "move" \notin RollBacks, [Next]_vars
  PROVE  Vanished'
  <1>1. ASSUME NEW s \in Scanners, scan'[s].pc = "forget", Place(s)' \notin astray'
        PROVE  /\ scan'[s].held.rev <= clock'
               /\ \A q \in Paths : ~Holder(q, scan[s].held.rev)'
    <2>1. /\ scan'[s].held.rev \in Versions /\ scan'[s].held.rev <= clock
          /\ \A q \in Paths : ~Holder(q, scan'[s].held.rev)
      <3>1. CASE LookForMissing(s)
        BY <1>1, <3>1, LookVanished
      <3>2. CASE ~LookForMissing(s)
        <4>1. /\ scan[s].pc = "forget" /\ scan'[s].held = scan[s].held /\ Place(s)' = Place(s)
              /\ Place(s) \notin astray
          BY <1>1, <3>2, SameForget DEF Place
        <4>2. scan[s].held.rev \in Versions
          <5>1. scan[s].held \in RowType /\ scan[s].held.rev # 0
            BY <4>1, LocalFacts DEF Placed
          <5> QED BY <5>1 DEF RowType
        <4> QED BY <4>1, <4>2 DEF Vanished
      <3> QED BY <3>1, <3>2
    <2> PICK v \in Versions : v = scan'[s].held.rev
      BY <2>1
    <2>2. v \in Nat /\ clock \in Nat /\ v # clock + 1
      BY <2>1, VersionFacts DEF TypeInv, DiskOK
    <2>3. \A q \in Paths : ~Holder(q, v)'
      BY <2>1, <2>2, HoldersGoOn
    <2>4. v <= clock'
      BY <2>1, <2>2, HoldersGoOn
    <2> QED BY <2>3, <2>4 DEF Holder
  <1> QED BY <1>1 DEF Vanished

\* What is forgotten.
LEMMA ForgottenIsDeleted ==
  ASSUME TypeInv, Vanished, [Next]_vars, NEW p \in Paths,
         rows[p] # Absent, disk[p] # Absent, rows[p].rev \in {0, disk[p].rev},
         Registered(Root(p)), roots'[Root(p)] # Absent, rows'[p] = Absent
  PROVE  CommitDependents \/ p \in astray
  <1>1. CASE \E s \in Scanners : Scan(s)
    <2> PICK s \in Scanners : Scan(s)
      BY <1>1
    <2>1. CASE Forget(s)
      <3>1. /\ scan[s].pc = "forget" /\ Place(s) \in Paths
            /\ scan[s].held \in RowType /\ scan[s].held.rev # 0
            /\ Forgettable(s, Place(s)) /\ p = Place(s)
        BY <2>1, ForgetEffect DEF TypeInv, IndexOK
      <3>2. Holder(p, scan[s].held.rev)
        BY <3>1 DEF Forgettable, Holder
      <3> QED BY <3>1, <3>2 DEF Vanished
    <2>2. CASE FolderOffline(s) \/ EndFolder(s)
      <3>1. rows'[p] = rows[p] \/ rows'[p] = [rows[p] EXCEPT !.available = FALSE]
        BY <2>2, OfflineEffect, EndFolderEffect
      <3> QED BY <3>1, RowAt, HiddenRow
    <2>3. CASE Touch(s)
      <3>1. scan[s].gen \in Generations
        BY <2>3, LocalFacts DEF Touch, Placed
      <3> DEFINE y == [rows[Place(s)] EXCEPT !.available = TRUE, !.seen = scan[s].gen]
      <3>2. /\ Place(s) \in Paths
            /\ rows' = rows \/ (rows[Place(s)] # Absent /\ rows' = [rows EXCEPT ![Place(s)] = y])
        BY <2>3, TouchEffect
      <3>3. ASSUME rows[Place(s)] # Absent
            PROVE  y # Absent
        <4>1. rows[Place(s)] \in RowType
          BY <3>2, <3>3, RowAt
        <4> QED BY <3>1, <4>1, TouchedRow
      <3> HIDE DEF y
      <3> QED BY <3>2, <3>3 DEF TypeInv, IndexOK
    <2>4. CASE CommitPrepared(s)
      <3> PICK f \in scan[s].results :
              /\ f \in Answer
              /\ \/ rows' = rows
                 \/ /\ rows[f.path] # Absent
                    /\ rows' = [rows EXCEPT ![f.path] = [rows[f.path] EXCEPT !.complete = FALSE]]
                 \/ /\ f.tags # Absent
                    /\ rows' = [rows EXCEPT ![f.path] =
                                  Row([rev |-> f.before.rev, tags |-> f.tags], scan[s].gen)]
        BY <2>4, CommitEffect
      <3>1. f.path \in Paths /\ f.before \in Contents /\ (f.tags # Absent => f.tags \in Versions)
        BY DEF Answer
      <3>2. CASE rows' = rows
        BY <3>2
      <3>3. CASE rows' = [rows EXCEPT ![f.path] = [rows[f.path] EXCEPT !.complete = FALSE]]
        <4>1. rows'[p] = rows[p] \/ rows'[p] = [rows[p] EXCEPT !.complete = FALSE]
          BY <3>1, <3>3 DEF TypeInv, IndexOK
        <4> QED BY <4>1, RowAt, OldRow
      <3>4. CASE /\ f.tags # Absent
                 /\ rows' = [rows EXCEPT ![f.path] =
                                  Row([rev |-> f.before.rev, tags |-> f.tags], scan[s].gen)]
        <4> DEFINE y == Row([rev |-> f.before.rev, tags |-> f.tags], scan[s].gen)
        <4>1. y \in RowType
          <5>1. [rev |-> f.before.rev, tags |-> f.tags] \in Contents /\ scan[s].gen \in Generations
            BY <2>4, <3>1, <3>4, ContentFacts, LocalFacts DEF Contents, CommitPrepared, Placed
          <5> QED BY <5>1, NewRowTypes
        <4>2. rows' = [rows EXCEPT ![f.path] = y]
          BY <3>4
        <4> HIDE DEF y
        <4> QED BY <3>1, <4>1, <4>2, AbsentFacts DEF TypeInv, IndexOK
      <3> QED BY <3>2, <3>3, <3>4
    <2>5. CASE \/ StartScan(s) \/ Stop(s) \/ OpenFolder(s) \/ Visit(s) \/ WalkFails(s) \/ Submit(s)
               \/ Prepare(s) \/ EndWalk(s) \/ LookForMissing(s) \/ Finish(s) \/ Abort(s)
      <3>1. rows' = rows
        BY <2>5 DEF StartScan, Stop, OpenFolder, Visit, WalkFails, Submit, Prepare, EndWalk,
                    LookForMissing, Finish, Abort, index
      <3> QED BY <3>1
    <2> QED BY <2>1, <2>2, <2>3, <2>4, <2>5 DEF Scan, Walk
  <1>2. CASE World
    <2>1. CASE \E r \in Roots : RemoveFolder(r)
      <3> PICK r \in Roots : RemoveFolder(r)
        BY <2>1
      <3>1. roots'[r] = Absent /\ (Root(p) # r => rows'[p] = rows[p])
        BY DEF RemoveFolder, TypeInv, IndexOK
      <3> QED BY <3>1
    <2>2. CASE ~\E r \in Roots : RemoveFolder(r)
      <3>1. rows' = rows
        BY <1>2, <2>2 DEF World, Rewrite, Delete, AddFolder, Remount, index
      <3> QED BY <3>1
    <2> QED BY <2>1, <2>2
  <1>3. CASE Program \/ UNCHANGED vars
    <2>1. CommitDependents \/ rows' = rows
      BY <1>3 DEF Program, Publish, RollBack, RemoveSource, vars, index
    <2> QED BY <2>1
  <1> QED BY <1>1, <1>2, <1>3 DEF Next

\* A scan never forgets a file that is still on its volume, mounted or not,
\* whatever the program saves, moves and copies between the look at the file
\* and the deletion of its row, for a program that does not put a moved file
\* back.
THEOREM OnlyTheDeletedIsForgotten ==
  ASSUME "move" \notin RollBacks
  PROVE  Spec => ForgetsOnlyTheDeleted
  <1> DEFINE I == TypeInv /\ OpInv /\ HeldInv /\ Vanished
  <1>1. Init => I
    <2>1. Init => Vanished
      BY IdleFacts DEF Init, Vanished
    <2> QED BY <2>1, InitTypes, InitOp, InitHeld
  <1>2. I /\ [Next]_vars => I'
    BY NextTypes, NextOp, NextHeld, NextVanished
  <1>3. I /\ [Next]_vars =>
         [\A p \in Paths :
           /\ rows[p] # Absent /\ disk[p] # Absent /\ rows[p].rev \in {0, disk[p].rev}
           /\ Registered(Root(p)) /\ roots'[Root(p)] # Absent /\ rows'[p] = Absent
           => CommitDependents \/ p \in astray]_vars
    BY ForgottenIsDeleted
  <1> HIDE DEF I
  <1> QED BY <1>1, <1>2, <1>3, PTL DEF Spec, ForgetsOnlyTheDeleted
=============================================================================
