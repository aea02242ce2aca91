--------------------------- MODULE MpdQueueMirror ---------------------------
(***************************************************************************)
(* The play queue as the session mirrors it (refresh in                    *)
(* src/src/mpd/src/session.cpp, apply_queue_changes in projection.cpp).    *)
(*                                                                         *)
(* The server's queue has a version that every edit increments.  A refresh *)
(* reads the status (version and length) and then, when the queue is asked *)
(* for, either keeps the mirrored queue, or patches it with the changes    *)
(* since the version it knew (plchanges), or reads it whole.  These reads  *)
(* are separate requests: other clients edit the queue in between, and the *)
(* server reports the edits over the idle connection, late or, while that  *)
(* connection is down, not at all.                                         *)
(*                                                                         *)
(* A queue occurrence is its id; MPD never gives an id twice.  The threads *)
(* and the commands of the session are the subject of MpdSession.          *)
(***************************************************************************)
EXTENDS Naturals, Sequences, FiniteSets

CONSTANTS
  MaxEdits,   \* bound: edits of the server's queue
  MaxLength,  \* bound: length of the server's queue
  MaxFaults   \* bound: lost connections

ASSUME MirrorAssumption ==
  MaxEdits \in Nat /\ MaxLength \in Nat \ {0} /\ MaxFaults \in Nat

Ids == 1 .. MaxEdits + MaxLength
None == 0
Malformed == <<None>>

\* The bits of a refresh mask that decide what a refresh reads.
Bits == {"all", "queue", "player", "rating"}

VARIABLES
  queue,       \* the server's queue, a sequence of ids
  stamp,       \* for each position, the version that last changed it
  version,     \* the server's queue version
  nextId,
  subscribed,  \* does the idle connection stand?
  reported,    \* events the server holds for it
  mask,        \* pending_refresh
  pc,          \* where the refresh is
  requested,   \* the mask this refresh has taken
  previous,    \* previous_queue_version
  known,       \* snapshot.status.queue_version
  length,      \* snapshot.status.queue_length
  mirror,      \* snapshot.queue
  skewed,      \* history: `known' has moved without `mirror' since it was read whole
  announced,   \* history: the last version an event or a loss has announced
  faults

server == <<queue, stamp, version, nextId>>
snapshot == <<known, length, mirror, skewed>>
vars == <<server, subscribed, reported, mask, pc, requested, previous,
          snapshot, announced, faults>>

Init ==
  /\ \E n \in 0 .. MaxLength :
       /\ queue = [i \in 1 .. n |-> i]
       /\ stamp = [i \in 1 .. n |-> 1]
       /\ nextId = n + 1
  /\ version = 1
  /\ subscribed = FALSE /\ reported = {}
  /\ mask = {"all"} /\ pc = "ready" /\ requested = {} /\ previous = None
  /\ known = None /\ length = None /\ mirror = <<>>
  /\ skewed = FALSE /\ announced = 1 /\ faults = 0

-----------------------------------------------------------------------------
(* The server                                                               *)

\* The server keeps events for a connection that stands.
Report(bits) ==
  /\ reported' = IF subscribed THEN reported \cup bits ELSE {}
  /\ announced' = IF subscribed /\ "queue" \in bits THEN version' ELSE announced

Append1 ==
  /\ Len(queue) < MaxLength
  /\ queue' = Append(queue, nextId)
  /\ stamp' = Append(stamp, version + 1)
  /\ nextId' = nextId + 1

\* Everything behind a deleted occurrence moves up and counts as changed.
Delete(i) ==
  /\ queue' = SubSeq(queue, 1, i - 1) \o SubSeq(queue, i + 1, Len(queue))
  /\ stamp' = [p \in 1 .. Len(queue) - 1 |-> IF p < i THEN stamp[p] ELSE version + 1]
  /\ UNCHANGED nextId

\* Move one occurrence to another place: what lies between shifts.
Swap(i, j) ==
  /\ i < j
  /\ queue' = [queue EXCEPT ![i] = queue[j], ![j] = queue[i]]
  /\ stamp' = [stamp EXCEPT ![i] = version + 1, ![j] = version + 1]
  /\ UNCHANGED nextId

Edit ==
  /\ version <= MaxEdits
  /\ version' = version + 1
  /\ \/ Append1
     \/ \E i \in 1 .. Len(queue) : Delete(i)
     \/ \E i, j \in 1 .. Len(queue) : Swap(i, j)

\* What plchanges answers: the positions changed after a version.
ChangesSince(v) == {p \in 1 .. Len(queue) : stamp[p] > v}

OtherClientEdits ==
  /\ Edit
  /\ Report({"queue"})
  /\ UNCHANGED <<subscribed, mask, pc, requested, previous, snapshot, faults>>

PlayerChanges ==
  /\ Report({"player"})
  /\ UNCHANGED <<server, subscribed, mask, pc, requested, previous, snapshot, faults>>

-----------------------------------------------------------------------------
(* The idle connection                                                      *)

Subscribe ==
  /\ ~subscribed
  /\ subscribed' = TRUE
  /\ UNCHANGED <<server, reported, mask, pc, requested, previous, snapshot,
                 announced, faults>>

DeliverEvents ==
  /\ subscribed /\ reported # {}
  /\ mask' = mask \cup reported
  /\ reported' = {}
  /\ UNCHANGED <<server, subscribed, pc, requested, previous, snapshot,
                 announced, faults>>

\* The idle worker lost its connection and asks for everything.
LoseIdle ==
  /\ subscribed /\ faults < MaxFaults
  /\ faults' = faults + 1
  /\ subscribed' = FALSE
  /\ reported' = {}
  /\ mask' = mask \cup {"all"}
  /\ announced' = version
  /\ UNCHANGED <<server, pc, requested, previous, snapshot>>

-----------------------------------------------------------------------------
(* The command worker                                                       *)

\* The connection was lost at any point: a new generation starts empty.
Reconnect ==
  /\ faults < MaxFaults
  /\ faults' = faults + 1
  /\ pc' = "ready" /\ requested' = {} /\ previous' = None
  /\ known' = None /\ length' = None /\ mirror' = <<>>
  /\ skewed' = FALSE
  /\ mask' = mask \cup {"all"}
  /\ announced' = version
  /\ UNCHANGED <<server, subscribed, reported>>

\* A command of this client and the refresh it asks for: an edit of the queue,
\* one the server refuses, a transport command, a rating.
RunCommand ==
  /\ pc = "ready" /\ known # None
  /\ \/ /\ Edit
        /\ Report({"queue"})
        /\ mask' = mask \cup {"queue", "player"}
     \/ /\ \E bits \in {{"queue", "player"}, {"player"}, {"rating"}} :
             mask' = mask \cup bits
        /\ UNCHANGED <<server, reported, announced>>
  /\ UNCHANGED <<subscribed, pc, requested, previous, snapshot, faults>>

\* The mask is taken and cleared; the version known so far is remembered.
BeginRefresh ==
  /\ pc = "ready" /\ mask # {}
  /\ requested' = mask
  /\ mask' = {}
  /\ previous' = known
  /\ pc' = IF mask \cap {"all", "queue", "player"} # {} THEN "status" ELSE "queue"
  /\ UNCHANGED <<server, subscribed, reported, snapshot, announced, faults>>

WantsQueue == requested \cap {"all", "queue", "rating"} # {}
WholeQueue == requested \cap {"all", "rating"} # {}

\* Mutation: the version known so far is read after the status replaced it.
ReadStatusFirst ==
  /\ pc = "status"
  /\ known' = version /\ length' = Len(queue) /\ previous' = version
  /\ skewed' = (skewed \/ (~WantsQueue /\ known # version))
  /\ pc' = IF WantsQueue THEN "queue" ELSE "ready"
  /\ UNCHANGED <<server, subscribed, reported, mask, requested,
                 mirror, announced, faults>>

\* status: version and length as the server has them now.
ReadStatus ==
  /\ pc = "status"
  /\ known' = version
  /\ length' = Len(queue)
  /\ skewed' = (skewed \/ (~WantsQueue /\ known # version))
  /\ pc' = IF WantsQueue THEN "queue" ELSE "ready"
  /\ UNCHANGED <<server, subscribed, reported, mask, requested, previous,
                 mirror, announced, faults>>

\* can_diff.
CanDiff == ~WholeQueue /\ previous # None /\ known > previous

\* same_compatible_version.
SameVersion == ~WholeQueue /\ previous # None /\ known = previous /\ Len(mirror) = length

ChooseQueueRead ==
  /\ pc = "queue"
  /\ pc' = IF CanDiff THEN "changes" ELSE IF SameVersion THEN "ready" ELSE "whole"
  /\ UNCHANGED <<server, subscribed, reported, mask, requested, previous,
                 snapshot, announced, faults>>

\* apply_queue_changes: the changed positions replace what the mirror had, the
\* rest keeps its place; a result with a hole or with one id twice is refused.
ApplyQueueChanges(current, changed, newLength) ==
  LET ids == {queue[p] : p \in changed}
      slot(p) == IF p \in changed THEN queue[p]
                 ELSE IF p <= Len(current) /\ current[p] \notin ids THEN current[p]
                 ELSE None
      result == [p \in 1 .. newLength |-> slot(p)]
  IN IF \/ newLength > Len(current) + Cardinality(changed)
        \/ \E p \in changed : p > newLength
        \/ \E p \in 1 .. newLength : result[p] = None
        \/ \E p, q \in 1 .. newLength : p # q /\ result[p] = result[q]
     THEN Malformed
     ELSE result

\* plchanges: patch the mirror, or fall back to the whole queue.
ReadChanges ==
  LET patched == ApplyQueueChanges(mirror, ChangesSince(previous), length) IN
  /\ pc = "changes"
  /\ IF patched = Malformed
     THEN pc' = "whole" /\ UNCHANGED mirror
     ELSE pc' = "ready" /\ mirror' = patched
  /\ UNCHANGED <<server, subscribed, reported, mask, requested, previous,
                 known, length, skewed, announced, faults>>

\* playlistinfo.
ReadQueue ==
  /\ pc = "whole"
  /\ mirror' = queue
  /\ skewed' = FALSE
  /\ pc' = "ready"
  /\ UNCHANGED <<server, subscribed, reported, mask, requested, previous,
                 known, length, announced, faults>>

Next ==
  \/ OtherClientEdits \/ PlayerChanges
  \/ Subscribe \/ DeliverEvents \/ LoseIdle
  \/ Reconnect \/ RunCommand
  \/ BeginRefresh \/ ReadStatus \/ ChooseQueueRead \/ ReadChanges \/ ReadQueue

Spec == Init /\ [][Next]_vars

-----------------------------------------------------------------------------
(* Properties                                                               *)

\* Every variable has its type; the server's queue and its stamps agree.
TypeOK ==
  /\ queue \in Seq(Ids) /\ Len(queue) <= MaxLength
  /\ stamp \in Seq(1 .. MaxEdits + 1) /\ Len(stamp) = Len(queue)
  /\ version \in 1 .. MaxEdits + 1 /\ nextId \in 1 .. MaxEdits + MaxLength + 1
  /\ subscribed \in BOOLEAN /\ skewed \in BOOLEAN
  /\ reported \in SUBSET {"queue", "player"}
  /\ mask \in SUBSET Bits /\ requested \in SUBSET Bits
  /\ pc \in {"ready", "status", "queue", "changes", "whole"}
  /\ {previous, known, announced} \subseteq 0 .. version
  /\ length \in 0 .. MaxLength
  /\ mirror \in Seq(Ids)
  /\ faults \in 0 .. MaxFaults

\* Nothing is on its way to the session and it has nothing left to do.
Quiescent ==
  pc = "ready" /\ mask = {} /\ reported = {}

\* The mirror has caught up: once every edit has been announced and worked off,
\* the queue shown is the server's, however edits interleaved with the reads of
\* status, changes and queue, and whatever was lost in between -- except after
\* a refresh that took a new version without the queue (ReadStatus sets skewed).
MirrorAgrees ==
  Quiescent /\ announced = version /\ ~skewed => mirror = queue

=============================================================================
