------------------------- MODULE MpdQueueMirrorProofs -------------------------
(***************************************************************************)
(* What holds of MpdQueueMirror for queues of any length, any number of    *)
(* edits and any number of lost connections.                               *)
(*                                                                         *)
(* Why a diff is right although the reads of one refresh see different     *)
(* versions: a position the server has not changed since the version the   *)
(* mirror was brought to holds the same occurrence in the mirror (Fresh),  *)
(* and plchanges names all others.  That version only moves together with  *)
(* the mirror, or skewed is set.                                           *)
(***************************************************************************)
EXTENDS MpdQueueMirror, SequenceTheorems, FiniteSetTheorems, TLAPS

-------------------------------------------------------------------------------
(* The inductive invariant.                                                *)

(* The server: no position is changed after the present, no id is in the   *)
(* queue twice or was given out too often.                                 *)
ServerInv ==
  /\ nextId <= MaxLength + version
  /\ \A p \in 1 .. Len(queue) : stamp[p] \in 1 .. version /\ queue[p] < nextId
  /\ \A p, q \in 1 .. Len(queue) : queue[p] = queue[q] => p = q

(* The version the mirror was brought to. *)
Base == IF pc \in {"queue", "changes", "whole"} THEN previous ELSE known

(* What has not changed since version v stands in the mirror. *)
Fresh(v) ==
  \A p \in 1 .. Len(queue) : stamp[p] <= v => p <= Len(mirror) /\ mirror[p] = queue[p]

(* The length of the status belongs to its version. *)
LengthInv ==
  /\ known = version => length = Len(queue)
  /\ \A p \in 1 .. Len(queue) : stamp[p] <= known => p <= length
  /\ pc = "status" => previous = known

MirrorFresh ==
  /\ ~skewed => Fresh(Base)
  /\ ~skewed /\ Base = version => Len(mirror) = Len(queue)

(* An edit that was announced has been taken over, or is still to be.      *)
Covered ==
  /\ reported # {} => subscribed
  /\ \/ pc = "status"
     \/ announced <= known
     \/ {"queue", "all"} \cap (mask \cup reported) # {}

MirrorInv == TypeOK /\ ServerInv /\ LengthInv /\ MirrorFresh /\ Covered

-------------------------------------------------------------------------------
(* What an edit of the server's queue leaves alone.                        *)

StampOK ==
  /\ queue \in Seq(Ids) /\ Len(queue) <= MaxLength
  /\ stamp \in Seq(1 .. MaxEdits + 1) /\ Len(stamp) = Len(queue)
  /\ version \in 1 .. MaxEdits + 1 /\ nextId \in 1 .. MaxEdits + MaxLength + 1

(* A position that an edit does not stamp keeps its occurrence. *)
Untouched ==
  \A p \in 1 .. Len(queue') : stamp'[p] <= version =>
    p \in 1 .. Len(queue) /\ stamp'[p] = stamp[p] /\ queue'[p] = queue[p]

LEMMA ServerBasics ==
  ASSUME StampOK
  PROVE  /\ Len(queue) \in Nat /\ MaxEdits \in Nat /\ MaxLength \in Nat
         /\ version \in Nat /\ nextId \in Nat
         /\ \A p \in 1 .. Len(queue) : queue[p] \in Ids /\ stamp[p] \in 1 .. MaxEdits + 1
         /\ \A p \in 1 .. Len(queue) : queue[p] \in Nat /\ stamp[p] \in Nat
  <1>1. Len(queue) \in Nat /\ MaxEdits \in Nat /\ MaxLength \in Nat
    BY MirrorAssumption, LenProperties DEF StampOK
  <1>2. version \in Nat /\ nextId \in Nat
    BY <1>1 DEF StampOK
  <1>3. \A p \in 1 .. Len(queue) : queue[p] \in Ids /\ stamp[p] \in 1 .. MaxEdits + 1
    BY LenProperties DEF StampOK
  <1>4. \A p \in 1 .. Len(queue) : queue[p] \in Nat /\ stamp[p] \in Nat
    BY <1>1, <1>3 DEF Ids
  <1> QED BY <1>1, <1>2, <1>3, <1>4

LEMMA AppendIsAnEdit ==
  ASSUME StampOK, ServerInv, version <= MaxEdits, version' = version + 1, Append1
  PROVE  StampOK' /\ ServerInv' /\ Untouched
  <1>0. /\ Len(queue) \in Nat /\ MaxEdits \in Nat /\ MaxLength \in Nat
        /\ version \in Nat /\ nextId \in Nat
        /\ nextId <= MaxLength + version
        /\ \A p \in 1 .. Len(queue) :
             queue[p] \in Nat /\ stamp[p] \in Nat /\ stamp[p] \in 1 .. version /\ queue[p] < nextId
        /\ \A p, q \in 1 .. Len(queue) : queue[p] = queue[q] => p = q
    BY ServerBasics DEF ServerInv
  <1>1. nextId \in Ids /\ version + 1 \in 1 .. MaxEdits + 1 /\ nextId \in 1 .. MaxEdits + MaxLength
    BY <1>0 DEF StampOK, Ids
  <1>2. /\ queue' \in Seq(Ids) /\ Len(queue') = Len(queue) + 1
        /\ \A p \in 1 .. Len(queue) + 1 :
             queue'[p] = IF p = Len(queue) + 1 THEN nextId ELSE queue[p]
    <2>1. queue' = Append(queue, nextId) /\ queue \in Seq(Ids)
      BY DEF Append1, StampOK
    <2> QED BY <1>0, <1>1, <2>1, AppendProperties
  <1>3. /\ stamp' \in Seq(1 .. MaxEdits + 1) /\ Len(stamp') = Len(queue) + 1
        /\ \A p \in 1 .. Len(queue) + 1 :
             stamp'[p] = IF p = Len(queue) + 1 THEN version + 1 ELSE stamp[p]
    <2>1. /\ stamp' = Append(stamp, version + 1) /\ stamp \in Seq(1 .. MaxEdits + 1)
          /\ Len(stamp) = Len(queue)
      BY DEF Append1, StampOK
    <2> QED BY <1>0, <1>1, <2>1, AppendProperties
  <1>4. nextId' = nextId + 1 /\ Len(queue) < MaxLength
    BY DEF Append1
  <1>5. StampOK'
    BY <1>0, <1>1, <1>2, <1>3, <1>4 DEF StampOK
  <1>6. Untouched
    BY <1>0, <1>2, <1>3 DEF Untouched
  <1>7. ServerInv'
    <2>1. nextId' <= MaxLength + version'
      BY <1>0, <1>4
    <2>2. ASSUME NEW p \in 1 .. Len(queue')
          PROVE  stamp'[p] \in 1 .. version' /\ queue'[p] < nextId'
      <3>1. p \in 1 .. Len(queue) + 1 /\ (p # Len(queue) + 1 => p \in 1 .. Len(queue))
        BY <1>0, <1>2
      <3>2. CASE p = Len(queue) + 1
        <4>1. stamp'[p] = version + 1 /\ queue'[p] = nextId
          BY <1>2, <1>3, <3>1, <3>2
        <4> QED BY <1>0, <1>4, <4>1
      <3>3. CASE p \in 1 .. Len(queue)
        <4>1. stamp[p] \in 1 .. version /\ queue[p] < nextId /\ queue[p] \in Nat /\ p # Len(queue) + 1
          BY <1>0, <3>3
        <4>2. stamp'[p] = stamp[p] /\ queue'[p] = queue[p]
          BY <1>2, <1>3, <3>1, <4>1
        <4> QED BY <1>0, <1>4, <4>1, <4>2
      <3> QED BY <3>1, <3>2, <3>3
    <2>3. ASSUME NEW p \in 1 .. Len(queue'), NEW q \in 1 .. Len(queue'), queue'[p] = queue'[q]
          PROVE  p = q
      <3>1. /\ p \in 1 .. Len(queue) \/ p = Len(queue) + 1
            /\ q \in 1 .. Len(queue) \/ q = Len(queue) + 1
        BY <1>0, <1>2
      <3> QED BY <1>0, <1>2, <2>3, <3>1
    <2> QED BY <2>1, <2>2, <2>3 DEF ServerInv
  <1> QED BY <1>5, <1>6, <1>7

(* Without one occurrence the others keep their order. *)
LEMMA WithoutPosition ==
  ASSUME NEW old \in Seq(Ids), NEW at \in 1 .. Len(old), NEW rest
  PROVE  rest = SubSeq(old, 1, at - 1) \o SubSeq(old, at + 1, Len(old))
           => /\ rest \in Seq(Ids) /\ Len(rest) = Len(old) - 1
              /\ \A i \in 1 .. Len(old) - 1 :
                   rest[i] = IF i < at THEN old[i] ELSE old[i + 1]
  <1>0. Len(old) \in Nat /\ \A i \in 1 .. Len(old) : old[i] \in Ids
    BY LenProperties
  <1> DEFINE front == SubSeq(old, 1, at - 1)
             back == SubSeq(old, at + 1, Len(old))
  <1>1. /\ front \in Seq(Ids) /\ Len(front) = at - 1
        /\ \A i \in 1 .. at - 1 : front[i] = old[i]
    BY <1>0, SubSeqProperties
  <1>2. /\ back \in Seq(Ids) /\ Len(back) = Len(old) - at
        /\ \A i \in 1 .. Len(old) - at : back[i] = old[at + i]
    BY <1>0, SubSeqProperties
  <1>3. rest = SubSeq(old, 1, at - 1) \o SubSeq(old, at + 1, Len(old)) <=> rest = front \o back
    BY DEF front, back
  <1> HIDE DEF front, back
  <1>4. /\ front \o back \in Seq(Ids) /\ Len(front \o back) = Len(old) - 1
        /\ \A i \in 1 .. Len(old) - 1 :
             (front \o back)[i] = IF i < at THEN front[i] ELSE back[i - (at - 1)]
    <2>1. /\ front \o back \in Seq(Ids) /\ Len(front \o back) = Len(front) + Len(back)
          /\ \A i \in 1 .. Len(front) + Len(back) :
               (front \o back)[i] = IF i <= Len(front) THEN front[i] ELSE back[i - Len(front)]
      BY <1>1, <1>2, ConcatProperties, Zenon
    <2> QED BY <1>0, <1>1, <1>2, <2>1
  <1>5. ASSUME NEW i \in 1 .. Len(old) - 1
        PROVE  (front \o back)[i] = IF i < at THEN old[i] ELSE old[i + 1]
    <2>1. CASE i < at
      <3>1. i \in 1 .. at - 1
        BY <1>0, <2>1
      <3>2. front[i] = old[i]
        BY <1>1, <3>1
      <3> QED BY <1>4, <2>1, <3>2
    <2>2. CASE ~(i < at)
      <3>1. i - (at - 1) \in 1 .. Len(old) - at /\ at + (i - (at - 1)) = i + 1
        BY <1>0, <2>2
      <3>2. back[i - (at - 1)] = old[i + 1]
        BY <1>2, <3>1
      <3> QED BY <1>4, <2>2, <3>2
    <2> QED BY <2>1, <2>2
  <1> QED BY <1>3, <1>4, <1>5

LEMMA DeleteIsAnEdit ==
  ASSUME StampOK, ServerInv, version <= MaxEdits, version' = version + 1,
         NEW at \in 1 .. Len(queue), Delete(at)
  PROVE  StampOK' /\ ServerInv' /\ Untouched
  <1>0. /\ Len(queue) \in Nat /\ MaxEdits \in Nat /\ MaxLength \in Nat
        /\ version \in Nat /\ nextId \in Nat
        /\ nextId <= MaxLength + version
        /\ \A p \in 1 .. Len(queue) :
             queue[p] \in Nat /\ stamp[p] \in Nat /\ stamp[p] \in 1 .. version /\ queue[p] < nextId
        /\ \A p, q \in 1 .. Len(queue) : queue[p] = queue[q] => p = q
    BY ServerBasics DEF ServerInv
  <1>1. /\ queue' \in Seq(Ids) /\ Len(queue') = Len(queue) - 1
        /\ \A p \in 1 .. Len(queue) - 1 :
             queue'[p] = IF p < at THEN queue[p] ELSE queue[p + 1]
    <2>1. /\ queue' = SubSeq(queue, 1, at - 1) \o SubSeq(queue, at + 1, Len(queue))
          /\ queue \in Seq(Ids)
      BY DEF Delete, StampOK
    <2> QED BY <2>1, WithoutPosition, Zenon
  <1>2. stamp' = [p \in 1 .. Len(queue) - 1 |-> IF p < at THEN stamp[p] ELSE version + 1]
    BY DEF Delete
  <1>3. /\ stamp' \in Seq(1 .. MaxEdits + 1) /\ Len(stamp') = Len(queue) - 1
        /\ \A p \in 1 .. Len(queue) - 1 :
             stamp'[p] = IF p < at THEN stamp[p] ELSE version + 1
    <2>1. \A p \in 1 .. Len(queue) - 1 :
            (IF p < at THEN stamp[p] ELSE version + 1) \in 1 .. MaxEdits + 1
      BY <1>0
    <2>2. Len(queue) - 1 \in Nat
      BY <1>0
    <2> QED BY <1>2, <2>1, <2>2, IsASeq
  <1>4. nextId' = nextId
    BY DEF Delete
  <1>5. StampOK'
    BY <1>0, <1>1, <1>3, <1>4 DEF StampOK
  <1>6. Untouched
    BY SMTT(30), <1>0, <1>1, <1>3 DEF Untouched
  <1>7. ServerInv'
    <2>1. nextId' <= MaxLength + version'
      BY <1>0, <1>4
    <2> DEFINE from(p) == IF p < at THEN p ELSE p + 1
    <2>2. ASSUME NEW p \in 1 .. Len(queue')
          PROVE  /\ from(p) \in 1 .. Len(queue) /\ queue'[p] = queue[from(p)]
                 /\ stamp'[p] \in 1 .. version' /\ queue'[p] < nextId'
      <3>1. p \in 1 .. Len(queue) - 1 /\ from(p) \in 1 .. Len(queue)
        BY <1>0, <1>1, <2>2
      <3>2. queue'[p] = queue[from(p)]
        BY <1>1, <3>1
      <3>3. stamp'[p] \in 1 .. version'
        <4>1. p < at => stamp[p] \in 1 .. version
          BY <1>0, <3>1
        <4> QED BY <1>0, <1>3, <3>1, <4>1
      <3>4. queue'[p] < nextId'
        BY <1>0, <1>4, <3>1, <3>2
      <3> QED BY <3>1, <3>2, <3>3, <3>4
    <2>3. ASSUME NEW p \in 1 .. Len(queue'), NEW q \in 1 .. Len(queue'), queue'[p] = queue'[q]
          PROVE  p = q
      <3>1. from(p) = from(q)
        BY <1>0, <2>2, <2>3
      <3>2. p \in Int /\ q \in Int
        OBVIOUS
      <3> QED BY <1>0, <3>1, <3>2
    <2> QED BY <2>1, <2>2, <2>3 DEF ServerInv
  <1> QED BY <1>5, <1>6, <1>7

LEMMA SwapIsAnEdit ==
  ASSUME StampOK, ServerInv, version <= MaxEdits, version' = version + 1,
         NEW i \in 1 .. Len(queue), NEW j \in 1 .. Len(queue), Swap(i, j)
  PROVE  StampOK' /\ ServerInv' /\ Untouched
  <1>0. /\ Len(queue) \in Nat /\ MaxEdits \in Nat /\ MaxLength \in Nat
        /\ version \in Nat /\ nextId \in Nat
        /\ nextId <= MaxLength + version
        /\ \A p \in 1 .. Len(queue) :
             queue[p] \in Nat /\ stamp[p] \in Nat /\ stamp[p] \in 1 .. version /\ queue[p] < nextId
        /\ \A p, q \in 1 .. Len(queue) : queue[p] = queue[q] => p = q
        /\ \A p \in 1 .. Len(queue) : queue[p] \in Ids /\ stamp[p] \in 1 .. MaxEdits + 1
    BY ServerBasics DEF ServerInv
  <1>1. /\ queue' = [queue EXCEPT ![i] = queue[j], ![j] = queue[i]]
        /\ stamp' = [stamp EXCEPT ![i] = version + 1, ![j] = version + 1]
        /\ nextId' = nextId /\ i < j
    BY DEF Swap
  <1>2. /\ queue' \in Seq(Ids) /\ Len(queue') = Len(queue)
        /\ \A p \in 1 .. Len(queue) :
             queue'[p] = IF p = i THEN queue[j] ELSE IF p = j THEN queue[i] ELSE queue[p]
    <2> DEFINE half == [queue EXCEPT ![i] = queue[j]]
    <2>0. queue \in Seq(Ids) /\ queue[j] \in Ids
      BY <1>0 DEF StampOK
    <2>1. /\ half \in Seq(Ids) /\ Len(half) = Len(queue)
          /\ \A p \in 1 .. Len(queue) : half[p] = IF p = i THEN queue[j] ELSE queue[p]
      BY <2>0, ExceptSeq
    <2>2. queue' = [half EXCEPT ![j] = queue[i]]
      BY <1>1
    <2> HIDE DEF half
    <2>3. /\ queue' \in Seq(Ids) /\ Len(queue') = Len(half)
          /\ \A p \in 1 .. Len(half) : queue'[p] = IF p = j THEN queue[i] ELSE half[p]
      BY <1>0, <2>1, <2>2, ExceptSeq
    <2> QED BY <1>0, <1>1, <2>1, <2>3
  <1>3. /\ stamp' \in Seq(1 .. MaxEdits + 1) /\ Len(stamp') = Len(queue)
        /\ \A p \in 1 .. Len(queue) :
             stamp'[p] = IF p \in {i, j} THEN version + 1 ELSE stamp[p]
    <2> DEFINE half == [stamp EXCEPT ![i] = version + 1]
    <2>1. /\ stamp \in Seq(1 .. MaxEdits + 1) /\ Len(stamp) = Len(queue)
          /\ version + 1 \in 1 .. MaxEdits + 1
      BY <1>0 DEF StampOK
    <2>2. /\ half \in Seq(1 .. MaxEdits + 1) /\ Len(half) = Len(queue)
          /\ \A p \in 1 .. Len(queue) : half[p] = IF p = i THEN version + 1 ELSE stamp[p]
      BY <2>1, ExceptSeq
    <2>3. stamp' = [half EXCEPT ![j] = version + 1]
      BY <1>1
    <2> HIDE DEF half
    <2>4. /\ stamp' \in Seq(1 .. MaxEdits + 1) /\ Len(stamp') = Len(half)
          /\ \A p \in 1 .. Len(half) : stamp'[p] = IF p = j THEN version + 1 ELSE half[p]
      BY <2>1, <2>2, <2>3, ExceptSeq
    <2> QED BY <1>0, <1>1, <2>2, <2>4
  <1>5. StampOK'
    BY <1>0, <1>1, <1>2, <1>3 DEF StampOK
  <1>6. Untouched
    <2> SUFFICES ASSUME NEW p \in 1 .. Len(queue), stamp'[p] <= version
                 PROVE  stamp'[p] = stamp[p] /\ queue'[p] = queue[p]
      BY <1>2 DEF Untouched
    <2>1. p \notin {i, j}
      BY SMTT(30), <1>0, <1>3
    <2> QED BY <1>2, <1>3, <2>1
  <1>7. ServerInv'
    <2>1. nextId' <= MaxLength + version'
      BY <1>0, <1>1
    <2> DEFINE from(p) == IF p = i THEN j ELSE IF p = j THEN i ELSE p
    <2>2. ASSUME NEW p \in 1 .. Len(queue')
          PROVE  /\ from(p) \in 1 .. Len(queue) /\ queue'[p] = queue[from(p)]
                 /\ stamp'[p] \in 1 .. version' /\ queue'[p] < nextId'
      <3>1. p \in 1 .. Len(queue) /\ from(p) \in 1 .. Len(queue)
        BY <1>2, <2>2
      <3>2. queue'[p] = queue[from(p)]
        BY <1>2, <3>1
      <3>3. stamp[p] \in 1 .. version /\ queue[from(p)] < nextId
        BY <1>0, <3>1
      <3>4. stamp'[p] = version + 1 \/ stamp'[p] = stamp[p]
        BY <1>3, <3>1
      <3>5. stamp'[p] \in 1 .. version'
        BY SMTT(30), <1>0, <3>3, <3>4
      <3> QED BY <1>1, <3>1, <3>2, <3>3, <3>5
    <2>3. ASSUME NEW p \in 1 .. Len(queue'), NEW q \in 1 .. Len(queue'), queue'[p] = queue'[q]
          PROVE  p = q
      <3>1. from(p) = from(q)
        BY <1>0, <2>2, <2>3
      <3> QED BY <1>1, <3>1
    <2> QED BY <2>1, <2>2, <2>3 DEF ServerInv
  <1> QED BY <1>5, <1>6, <1>7

LEMMA EditKeepsTheRest ==
  ASSUME StampOK, ServerInv, Edit
  PROVE  StampOK' /\ ServerInv' /\ Untouched /\ version' = version + 1
  <1>1. version <= MaxEdits /\ version' = version + 1
    BY DEF Edit
  <1>2. CASE Append1
    BY <1>1, <1>2, AppendIsAnEdit
  <1>3. ASSUME NEW i \in 1 .. Len(queue), Delete(i)
        PROVE  StampOK' /\ ServerInv' /\ Untouched
    BY <1>1, <1>3, DeleteIsAnEdit
  <1>4. ASSUME NEW i \in 1 .. Len(queue), NEW j \in 1 .. Len(queue), Swap(i, j)
        PROVE  StampOK' /\ ServerInv' /\ Untouched
    BY <1>1, <1>4, SwapIsAnEdit
  <1> QED BY <1>1, <1>2, <1>3, <1>4, Zenon DEF Edit

-------------------------------------------------------------------------------
(* Type correctness.                                                       *)

SessionOK ==
  /\ subscribed \in BOOLEAN /\ skewed \in BOOLEAN
  /\ reported \in SUBSET {"queue", "player"}
  /\ mask \in SUBSET Bits /\ requested \in SUBSET Bits
  /\ pc \in {"ready", "status", "queue", "changes", "whole"}
  /\ {previous, known, announced} \subseteq 0 .. version
  /\ length \in 0 .. MaxLength
  /\ faults \in 0 .. MaxFaults

LEMMA TypeParts == TypeOK <=> StampOK /\ SessionOK /\ mirror \in Seq(Ids)
  BY DEF TypeOK, StampOK, SessionOK

(* Only the server's own steps and the commands edit. *)
LEMMA EditOrNot ==
  ASSUME StampOK, ServerInv, Next
  PROVE  /\ StampOK' /\ ServerInv'
         /\ \/ Untouched /\ version' = version + 1 /\ (OtherClientEdits \/ RunCommand)
            \/ UNCHANGED server
  <1>1. CASE Edit /\ (OtherClientEdits \/ RunCommand)
    BY <1>1, EditKeepsTheRest
  <1>2. CASE UNCHANGED server
    BY <1>2 DEF StampOK, ServerInv, server
  <1>3. (Edit /\ (OtherClientEdits \/ RunCommand)) \/ UNCHANGED server
    BY Zenon DEF Next, OtherClientEdits, PlayerChanges, Subscribe, DeliverEvents, LoseIdle,
                 Reconnect, RunCommand, BeginRefresh, ReadStatus, ChooseQueueRead,
                 ReadChanges, ReadQueue, server
  <1> QED BY <1>1, <1>2, <1>3

(* A patched mirror has the length of the status; a position the server    *)
(* has not changed since keeps what the mirror had there.                  *)
LEMMA PatchedQueue ==
  ASSUME StampOK, ServerInv, NEW v \in Nat, NEW n \in Nat, NEW old \in Seq(Ids),
         ApplyQueueChanges(old, ChangesSince(v), n) # Malformed
  PROVE  /\ ApplyQueueChanges(old, ChangesSince(v), n) \in Seq(Ids)
         /\ Len(ApplyQueueChanges(old, ChangesSince(v), n)) = n
         /\ \A p \in 1 .. Len(queue) :
              /\ p <= n
              /\ stamp[p] <= v => p <= Len(old) /\ old[p] = queue[p]
              => ApplyQueueChanges(old, ChangesSince(v), n)[p] = queue[p]
  <1> DEFINE changed == ChangesSince(v)
             ids == {queue[p] : p \in changed}
             slot(p) == IF p \in changed THEN queue[p]
                        ELSE IF p <= Len(old) /\ old[p] \notin ids THEN old[p]
                        ELSE None
             result == [p \in 1 .. n |-> slot(p)]
  <1>0. /\ Len(queue) \in Nat /\ Len(old) \in Nat /\ version \in Nat
        /\ \A p \in 1 .. Len(queue) : queue[p] \in Ids /\ stamp[p] \in Nat
        /\ \A p \in 1 .. Len(old) : old[p] \in Ids
        /\ \A p, q \in 1 .. Len(queue) : queue[p] = queue[q] => p = q
    BY ServerBasics, LenProperties DEF ServerInv
  <1>1. changed = {p \in 1 .. Len(queue) : stamp[p] > v}
    BY DEF ChangesSince
  <1>2. /\ ApplyQueueChanges(old, changed, n) = result
        /\ \A p \in 1 .. n : result[p] # None
    BY Zenon DEF ApplyQueueChanges
  <1> HIDE DEF changed
  <1>3. \A p \in 1 .. n : slot(p) \in Ids
    <2> SUFFICES ASSUME NEW p \in 1 .. n PROVE slot(p) \in Ids
      OBVIOUS
    <2>1. slot(p) # None
      BY <1>2
    <2>2. p \in changed => queue[p] \in Ids
      BY <1>0, <1>1
    <2>3. p <= Len(old) => old[p] \in Ids
      BY <1>0
    <2> QED BY <2>1, <2>2, <2>3
  <1>4. result \in Seq(Ids) /\ Len(result) = n
    <2> HIDE DEF slot
    <2> QED BY <1>3, IsASeq
  <1>5. ASSUME NEW p \in 1 .. Len(queue), p <= n,
               stamp[p] <= v => p <= Len(old) /\ old[p] = queue[p]
        PROVE  result[p] = queue[p]
    <2>1. p \in 1 .. n
      BY <1>0, <1>5
    <2>2. CASE p \in changed
      BY <2>1, <2>2
    <2>3. CASE p \notin changed
      <3>1. p <= Len(old) /\ old[p] = queue[p]
        BY <1>0, <1>1, <1>5, <2>3
      <3>2. queue[p] \notin ids
        BY <1>0, <1>1, <2>3
      <3> QED BY <2>1, <2>3, <3>1, <3>2
    <2> QED BY <2>2, <2>3
  <1> HIDE DEF result
  <1> QED BY <1>2, <1>4, <1>5 DEF changed

LEMMA TypeInductive ==
  ASSUME TypeOK, ServerInv, Next
  PROVE  TypeOK'
  <1>0. StampOK' /\ (version' = version + 1 \/ version' = version)
    BY TypeParts, EditOrNot DEF server
  <1>1. /\ version \in Nat /\ version' \in Nat /\ version <= version'
        /\ StampOK /\ SessionOK /\ mirror \in Seq(Ids)
    BY <1>0, TypeParts, ServerBasics
  <1>2. SessionOK'
    <2>0. Len(queue) \in 0 .. MaxLength
      BY <1>1, ServerBasics DEF StampOK
    <2>1. \A x \in 0 .. version : x \in 0 .. version'
      BY <1>1
    <2>2. version \in 0 .. version /\ version' \in 0 .. version' /\ None \in 0 .. version'
            /\ None \in 0 .. MaxLength
      BY <1>1, <2>0, MirrorAssumption DEF None
    <2>3. faults < MaxFaults => faults + 1 \in 0 .. MaxFaults
      BY <1>1, MirrorAssumption DEF SessionOK
    <2> USE <1>1, <2>0, <2>1, <2>2, <2>3 DEF SessionOK
    <2>4. CASE OtherClientEdits \/ PlayerChanges
      BY <2>4 DEF OtherClientEdits, PlayerChanges, Report, snapshot
    <2>5. CASE Subscribe \/ DeliverEvents \/ LoseIdle
      BY <2>5 DEF Subscribe, DeliverEvents, LoseIdle, server, snapshot, Bits
    <2>6. CASE Reconnect
      BY <2>6 DEF Reconnect, server, Bits
    <2>7. CASE RunCommand
      BY <2>7 DEF RunCommand, Report, snapshot, Bits
    <2>8. CASE BeginRefresh
      BY <2>8 DEF BeginRefresh, server, snapshot, Bits
    <2>9. CASE ReadStatus
      BY <2>9 DEF ReadStatus, server
    <2>10. CASE ChooseQueueRead
      BY <2>10 DEF ChooseQueueRead, server, snapshot
    <2>11. CASE ReadChanges
      BY <2>11 DEF ReadChanges, server
    <2>12. CASE ReadQueue
      BY <2>12 DEF ReadQueue, server
    <2> QED BY <2>4, <2>5, <2>6, <2>7, <2>8, <2>9, <2>10, <2>11, <2>12 DEF Next
  <1>3. mirror' \in Seq(Ids)
    <2>1. CASE ReadChanges
      <3>1. previous \in Nat /\ length \in Nat
        BY <1>1, MirrorAssumption DEF SessionOK
      <3>2. mirror' = mirror \/ (mirror' = ApplyQueueChanges(mirror, ChangesSince(previous), length)
                                 /\ mirror' # Malformed)
        BY <2>1 DEF ReadChanges
      <3> QED BY <1>1, <3>1, <3>2, PatchedQueue
    <2>2. CASE ReadQueue
      BY <1>1, <2>2 DEF ReadQueue, StampOK
    <2>3. CASE Reconnect
      BY <2>3 DEF Reconnect
    <2>4. CASE UNCHANGED mirror
      BY <1>1, <2>4
    <2> QED BY <2>1, <2>2, <2>3, <2>4, Zenon
            DEF Next, OtherClientEdits, PlayerChanges, Subscribe, DeliverEvents, LoseIdle,
                RunCommand, BeginRefresh, ReadStatus, ChooseQueueRead, snapshot
  <1> QED BY <1>0, <1>2, <1>3 DEF TypeOK, StampOK, SessionOK

-------------------------------------------------------------------------------
(* The mirror and the version it was brought to.                           *)

(* The versions are numbers, and so are the stamps and lengths compared    *)
(* with them.                                                              *)
LEMMA Numbers ==
  ASSUME TypeOK, ServerInv
  PROVE  /\ {version, known, previous, announced, length} \subseteq Nat
         /\ known <= version /\ previous <= version /\ announced <= version
         /\ version >= 1 /\ Base \in {known, previous}
         /\ Len(queue) \in Nat /\ Len(mirror) \in Nat
         /\ \A p \in 1 .. Len(queue) : stamp[p] \in Nat /\ 1 <= stamp[p] /\ stamp[p] <= version
  <1>0. StampOK /\ SessionOK /\ mirror \in Seq(Ids)
    BY TypeParts
  <1>1. version \in Nat /\ version >= 1 /\ Len(queue) \in Nat /\ Len(mirror) \in Nat
    BY <1>0, ServerBasics, LenProperties DEF StampOK
  <1>2. known \in 0 .. version /\ previous \in 0 .. version /\ announced \in 0 .. version
    BY <1>0 DEF SessionOK
  <1>3. length \in Nat
    BY <1>0, MirrorAssumption DEF SessionOK
  <1>4. Base \in {known, previous}
    BY DEF Base
  <1>5. \A p \in 1 .. Len(queue) : stamp[p] \in Nat /\ 1 <= stamp[p] /\ stamp[p] <= version
    BY <1>1 DEF ServerInv
  <1> QED BY <1>1, <1>2, <1>3, <1>4, <1>5

LEMMA LengthInductive ==
  ASSUME TypeOK, ServerInv, LengthInv, Next
  PROVE  LengthInv'
  <1>0. /\ {version, known, previous, announced, length} \subseteq Nat
        /\ known <= version /\ version >= 1 /\ Len(queue) \in Nat
        /\ \A p \in 1 .. Len(queue) : stamp[p] \in Nat /\ 1 <= stamp[p] /\ stamp[p] <= version
    BY Numbers
  <1>1. CASE Untouched /\ version' = version + 1 /\ (OtherClientEdits \/ RunCommand)
    <2>1. known' = known /\ length' = length /\ pc' = pc /\ previous' = previous
      BY <1>1, Zenon DEF OtherClientEdits, RunCommand, snapshot
    <2>2. known' # version'
      BY <1>0, <1>1, <2>1
    <2>3. ASSUME NEW p \in 1 .. Len(queue'), stamp'[p] <= known'
          PROVE  p <= length'
      <3>1. stamp'[p] <= version
        <4>1. stamp'[p] \in 1 .. version'
          BY EditOrNot, TypeParts DEF ServerInv
        <4> QED BY <1>0, <1>1, <2>1, <2>3, <4>1
      <3>2. p \in 1 .. Len(queue) /\ stamp[p] <= known
        BY <1>1, <2>1, <2>3, <3>1 DEF Untouched
      <3> QED BY <2>1, <3>2 DEF LengthInv
    <2> QED BY <2>1, <2>2, <2>3 DEF LengthInv
  <1>2. CASE UNCHANGED server
    <2>0. queue' = queue /\ stamp' = stamp /\ version' = version
      BY <1>2 DEF server
    <2>1. CASE UNCHANGED <<known, length>> /\ (pc' = "status" => previous' = known')
      BY <2>0, <2>1 DEF LengthInv
    <2>2. CASE Reconnect
      <3>1. known' = 0 /\ pc' = "ready"
        BY <2>2 DEF Reconnect, None
      <3> QED BY <1>0, <2>0, <3>1 DEF LengthInv
    <2>3. CASE ReadStatus
      <3>1. known' = version /\ length' = Len(queue) /\ pc' # "status"
        BY <2>3 DEF ReadStatus
      <3> QED BY <1>0, <2>0, <3>1 DEF LengthInv
    <2>4. \/ UNCHANGED <<known, length>> /\ (pc' = "status" => previous' = known')
          \/ Reconnect
          \/ ReadStatus
      BY DEF Next, OtherClientEdits, PlayerChanges, Subscribe, DeliverEvents, LoseIdle,
             RunCommand, BeginRefresh, ChooseQueueRead, ReadChanges, ReadQueue, snapshot,
             LengthInv
    <2> QED BY <2>1, <2>2, <2>3, <2>4
  <1> QED BY <1>1, <1>2, EditOrNot, TypeParts

LEMMA FreshInductive ==
  ASSUME TypeOK, ServerInv, LengthInv, MirrorFresh, Next
  PROVE  MirrorFresh'
  <1>0. /\ {version, known, previous, announced, length} \subseteq Nat
        /\ known <= version /\ previous <= version /\ version >= 1
        /\ Base \in {known, previous} /\ Len(queue) \in Nat
        /\ \A p \in 1 .. Len(queue) : stamp[p] \in Nat /\ 1 <= stamp[p] /\ stamp[p] <= version
    BY Numbers
  <1>1. CASE Untouched /\ version' = version + 1 /\ (OtherClientEdits \/ RunCommand)
    <2>1. /\ known' = known /\ mirror' = mirror /\ pc' = pc /\ previous' = previous
          /\ skewed' = skewed
      BY <1>1, Zenon DEF OtherClientEdits, RunCommand, snapshot
    <2>2. Base' = Base
      BY <2>1 DEF Base
    <2>3. Base' # version' /\ Base <= version /\ Base \in Nat
      BY <1>0, <1>1, <2>2
    <2>4. ASSUME ~skewed', NEW p \in 1 .. Len(queue'), stamp'[p] <= Base'
          PROVE  p <= Len(mirror') /\ mirror'[p] = queue'[p]
      <3>1. stamp'[p] <= version
        <4>1. stamp'[p] \in 1 .. version'
          BY EditOrNot, TypeParts DEF ServerInv
        <4> QED BY <1>0, <1>1, <2>2, <2>3, <2>4, <4>1
      <3>2. p \in 1 .. Len(queue) /\ stamp[p] <= Base /\ queue'[p] = queue[p]
        BY <1>1, <2>2, <2>4, <3>1 DEF Untouched
      <3> QED BY <2>1, <2>4, <3>2 DEF MirrorFresh, Fresh
    <2> QED BY <2>3, <2>4 DEF MirrorFresh, Fresh
  <1>2. CASE UNCHANGED server
    <2>0. queue' = queue /\ stamp' = stamp /\ version' = version
      BY <1>2 DEF server
    <2>1. CASE mirror' = mirror /\ (skewed' \/ (skewed' = skewed /\ Base' = Base))
      BY <2>0, <2>1 DEF MirrorFresh, Fresh
    <2>2. CASE Reconnect
      <3>1. Base' = 0
        BY <2>2 DEF Reconnect, Base, None
      <3> QED BY <1>0, <2>0, <3>1 DEF MirrorFresh, Fresh
    <2>3. CASE ReadStatus
      <3>1. previous = known /\ Base = known /\ mirror' = mirror /\ previous' = previous
        BY <2>3 DEF ReadStatus, Base, LengthInv
      <3>2. skewed' \/ (skewed' = skewed /\ Base' = Base)
        <4>1. /\ skewed' = (skewed \/ (~WantsQueue /\ known # version)) /\ known' = version
              /\ pc' = IF WantsQueue THEN "queue" ELSE "ready"
          BY <2>3 DEF ReadStatus
        <4>2. skewed \in BOOLEAN
          BY TypeParts DEF SessionOK
        <4>3. CASE WantsQueue
          <5>1. Base' = Base
            BY <3>1, <4>1, <4>3 DEF Base
          <5> QED BY <4>1, <4>2, <4>3, <5>1
        <4>4. CASE ~WantsQueue
          <5>1. Base' = version
            BY <4>1, <4>4 DEF Base
          <5> QED BY <3>1, <4>1, <4>2, <4>4, <5>1
        <4> QED BY <4>3, <4>4
      <3> QED BY <2>1, <3>1, <3>2
    <2>4. CASE ReadQueue
      <3>1. mirror' = queue
        BY <2>4 DEF ReadQueue
      <3> QED BY <2>0, <3>1 DEF MirrorFresh, Fresh
    <2>5. CASE ReadChanges
      <3> DEFINE patched == ApplyQueueChanges(mirror, ChangesSince(previous), length)
      <3>1. CASE patched = Malformed
        <4>1. mirror' = mirror /\ skewed' = skewed /\ Base' = Base
          BY <2>5, <3>1 DEF ReadChanges, Base
        <4> QED BY <2>1, <4>1
      <3>2. CASE patched # Malformed
        <4>1. /\ mirror' = patched /\ skewed' = skewed /\ Base = previous /\ Base' = known
          BY <2>5, <3>2 DEF ReadChanges, Base
        <4>2. StampOK /\ mirror \in Seq(Ids) /\ previous \in Nat /\ length \in Nat
          BY <1>0, TypeParts
        <4>3. /\ Len(patched) = length
              /\ \A p \in 1 .. Len(queue) :
                   /\ p <= length
                   /\ stamp[p] <= previous => p <= Len(mirror) /\ mirror[p] = queue[p]
                   => patched[p] = queue[p]
          BY <3>2, <4>2, PatchedQueue
        <4> HIDE DEF patched
        <4>4. ASSUME ~skewed, NEW p \in 1 .. Len(queue), stamp[p] <= known
              PROVE  p <= length /\ patched[p] = queue[p]
          BY <4>1, <4>3, <4>4 DEF MirrorFresh, Fresh, LengthInv
        <4>5. known = version => length = Len(queue)
          BY DEF LengthInv
        <4> QED BY <2>0, <4>1, <4>3, <4>4, <4>5 DEF MirrorFresh, Fresh
      <3> QED BY <3>1, <3>2
    <2>6. CASE BeginRefresh
      <3>1. mirror' = mirror /\ skewed' = skewed /\ Base' = Base
        BY <2>6 DEF BeginRefresh, Base, snapshot
      <3> QED BY <2>1, <3>1
    <2>7. CASE ChooseQueueRead
      <3>1. mirror' = mirror /\ skewed' = skewed /\ Base' = Base
        BY <2>7 DEF ChooseQueueRead, SameVersion, Base, snapshot
      <3> QED BY <2>1, <3>1
    <2>8. CASE UNCHANGED <<pc, previous, snapshot>>
      <3>1. mirror' = mirror /\ skewed' = skewed /\ Base' = Base
        BY <2>8 DEF Base, snapshot
      <3> QED BY <2>1, <3>1
    <2>9. Reconnect \/ ReadStatus \/ ReadQueue \/ ReadChanges \/ BeginRefresh
            \/ ChooseQueueRead \/ UNCHANGED <<pc, previous, snapshot>>
      BY Zenon DEF Next, OtherClientEdits, PlayerChanges, Subscribe, DeliverEvents, LoseIdle,
                   RunCommand
    <2> QED BY <2>2, <2>3, <2>4, <2>5, <2>6, <2>7, <2>8, <2>9
  <1> QED BY <1>1, <1>2, EditOrNot, TypeParts

LEMMA CoveredInductive ==
  ASSUME TypeOK, ServerInv, Covered, Next
  PROVE  Covered'
  <1>0. {version, known, announced} \subseteq Nat /\ announced <= version /\ known <= version
    BY Numbers
  <1>1. ASSUME Report({"queue"}), UNCHANGED <<known, pc, subscribed>>, mask \subseteq mask'
        PROVE  Covered'
    BY <1>1 DEF Covered, Report
  <1>2. ASSUME UNCHANGED <<known, pc, reported, subscribed, announced>>, mask \subseteq mask'
        PROVE  Covered'
    BY <1>2 DEF Covered
  <1>3. CASE OtherClientEdits
    BY <1>1, <1>3 DEF OtherClientEdits, snapshot
  <1>4. CASE PlayerChanges
    BY <1>4 DEF PlayerChanges, Report, Covered, snapshot
  <1>5. CASE Subscribe \/ DeliverEvents \/ LoseIdle
    BY <1>5 DEF Subscribe, DeliverEvents, LoseIdle, Covered, snapshot
  <1>6. CASE Reconnect
    BY <1>6 DEF Reconnect, Covered
  <1>7. CASE RunCommand
    BY <1>1, <1>2, <1>7 DEF RunCommand, snapshot
  <1>8. CASE BeginRefresh
    BY <1>8 DEF BeginRefresh, Covered, snapshot
  <1>9. CASE ReadStatus
    BY <1>0, <1>9 DEF ReadStatus, Covered
  <1>10. CASE ChooseQueueRead \/ ReadChanges \/ ReadQueue
    BY <1>10 DEF ChooseQueueRead, ReadChanges, ReadQueue, Covered, snapshot
  <1> QED BY <1>3, <1>4, <1>5, <1>6, <1>7, <1>8, <1>9, <1>10 DEF Next

-------------------------------------------------------------------------------
(* The results.                                                            *)

LEMMA MirrorInitially == Init => MirrorInv
  <1> SUFFICES ASSUME Init PROVE MirrorInv
    OBVIOUS
  <1>0. PICK n \in 0 .. MaxLength :
          /\ queue = [i \in 1 .. n |-> i]
          /\ stamp = [i \in 1 .. n |-> 1]
          /\ nextId = n + 1
    BY DEF Init
  <1>1. n \in Nat /\ MaxLength \in Nat /\ MaxEdits \in Nat /\ version = 1
    BY MirrorAssumption DEF Init
  <1>2. /\ queue \in Seq(Ids) /\ Len(queue) = n
        /\ stamp \in Seq(1 .. MaxEdits + 1) /\ Len(stamp) = n
    <2>1. \A i \in 1 .. n : i \in Ids /\ 1 \in 1 .. MaxEdits + 1
      BY <1>1 DEF Ids
    <2> QED BY <1>0, <1>1, <2>1, IsASeq
  <1>3. StampOK
    BY <1>0, <1>1, <1>2 DEF StampOK
  <1>4. SessionOK /\ mirror \in Seq(Ids)
    <2>1. /\ known = 0 /\ previous = 0 /\ announced = 1 /\ length = 0 /\ faults = 0
          /\ reported = {} /\ mask = {"all"} /\ requested = {} /\ mirror = <<>>
          /\ pc = "ready" /\ skewed = FALSE /\ subscribed = FALSE
      BY DEF Init, None
    <2>2. {previous, known, announced} \subseteq 0 .. version
      BY <1>1, <2>1
    <2>3. length \in 0 .. MaxLength /\ faults \in 0 .. MaxFaults
      BY <1>1, <2>1, MirrorAssumption
    <2>4. mirror \in Seq(Ids)
      BY <2>1, EmptySeq
    <2>5. {"all"} \in SUBSET {"all", "queue", "player", "rating"}
      OBVIOUS
    <2>6. mask \in SUBSET Bits /\ requested \in SUBSET Bits
      BY <2>1, <2>5, Zenon DEF Bits
    <2> QED BY <2>1, <2>2, <2>3, <2>4, <2>6 DEF SessionOK
  <1>5. ServerInv
    BY <1>0, <1>1, <1>2 DEF ServerInv
  <1>6. LengthInv /\ MirrorFresh /\ Covered
    BY <1>0, <1>1, <1>2 DEF Init, LengthInv, MirrorFresh, Fresh, Base, Covered, None
  <1> QED BY <1>3, <1>4, <1>5, <1>6, TypeParts DEF MirrorInv

LEMMA MirrorInductive == MirrorInv /\ [Next]_vars => MirrorInv'
  <1>1. CASE MirrorInv /\ Next
    BY <1>1, TypeInductive, EditOrNot, TypeParts, LengthInductive, FreshInductive,
       CoveredInductive DEF MirrorInv
  <1>2. CASE MirrorInv /\ UNCHANGED vars
    BY <1>2 DEF MirrorInv, TypeOK, ServerInv, LengthInv, MirrorFresh, Fresh, Base, Covered,
                vars, server, snapshot
  <1> QED BY <1>1, <1>2

(* What the session holds, in every state: the mirror agrees with the      *)
(* server's queue at every position the server has not changed since the   *)
(* version the mirror was brought to, and every announced edit has been    *)
(* taken over or is still to be.                                           *)
THEOREM MirrorSafe == Spec => []MirrorInv
  BY MirrorInitially, MirrorInductive, PTL DEF Spec

(* refresh and apply_queue_changes bring the mirror up to the server's     *)
(* queue: for queues of any length, whatever edits fall between the reads  *)
(* of one refresh and whichever connections are lost, once the session has *)
(* nothing left to do the queue shown is the server's, unless a refresh    *)
(* has taken a new version without the queue.                              *)
THEOREM MirrorCatchesUp == Spec => []MirrorAgrees
  <1>1. ASSUME MirrorInv, Quiescent, announced = version, ~skewed
        PROVE  mirror = queue
    <2>1. /\ {version, known, announced} \subseteq Nat /\ known <= version
          /\ Len(queue) \in Nat
          /\ \A p \in 1 .. Len(queue) : stamp[p] \in Nat /\ stamp[p] <= version
      BY <1>1, Numbers DEF MirrorInv
    <2>2. known = version /\ Base = version
      BY <1>1, <2>1 DEF MirrorInv, Covered, Quiescent, Base
    <2>3. Len(mirror) = Len(queue) /\ \A p \in 1 .. Len(queue) : mirror[p] = queue[p]
      BY <1>1, <2>1, <2>2 DEF MirrorInv, MirrorFresh, Fresh
    <2>4. mirror \in Seq(Ids) /\ queue \in Seq(Ids)
      BY <1>1 DEF MirrorInv, TypeOK
    <2> QED BY <2>3, <2>4, SeqEqual
  <1>2. MirrorInv => MirrorAgrees
    BY <1>1, Zenon DEF MirrorAgrees
  <1> QED BY <1>2, MirrorSafe, PTL

===============================================================================
