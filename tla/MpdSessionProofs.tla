--------------------------- MODULE MpdSessionProofs ---------------------------
(***************************************************************************)
(* What holds of MpdSession for any number of commands, any limit of the   *)
(* queue and any number of broken connections.                             *)
(*                                                                         *)
(* A command is held by the queue, by the worker's hand, by the batch that *)
(* reject_pending has taken out, or by the owner that withdraws it.  The   *)
(* invariant follows a command from one holder to the next: it has exactly *)
(* one until it is answered (HeldOnce), it has not been sent before it is  *)
(* in the worker's hand (WireInv), and the queue is empty whenever the     *)
(* generation may change (Gate).                                           *)
(***************************************************************************)
EXTENDS MpdSession, SequenceTheorems, FiniteSetTheorems, WellFoundedInduction, TLAPS

-------------------------------------------------------------------------------
(* The inductive invariant.                                                *)

(* What the worker and the owner hold, by where they are. *)
Whereabouts ==
  /\ hand # Nothing <=> worker \in {"executing", "answering"}
  /\ outcome # "none" <=> worker = "answering"
  /\ rejected # <<>> => worker \in {"rejecting", "parting"}
  /\ withdrawn # Nothing <=> owner = "withdrawing"

(* Nothing is accepted, and nothing waits, from the end of a generation to *)
(* the refresh of the next one, whose snapshot comes before anything sent. *)
Gate ==
  /\ SnapshotBeforeWire
  /\ mirrored <= generation
  /\ worker = "connecting" => mirrored < generation
  /\ worker = "publishing" => accepting
  /\ worker \in {"top", "connecting", "backoff", "rejecting", "parting", "stopped"}
       => ~accepting

Outstanding == {c \in Commands : c <= issued /\ answers[c] = 0}
Elements(queue) == {queue[i] : i \in 1 .. Len(queue)}
Once(queue) == \A i, j \in 1 .. Len(queue) : queue[i] = queue[j] => i = j

(* The queue, the batch that is rejected, the hand and the withdrawn       *)
(* command divide the outstanding commands among them.                     *)
HeldOnce ==
  /\ Once(pending) /\ Once(rejected)
  /\ Outstanding = Elements(pending) \cup Elements(rejected)
                     \cup ({hand, withdrawn} \ {Nothing})
  /\ Elements(pending) \cap Elements(rejected) = {}
  /\ {hand, withdrawn} \cap (Elements(pending) \cup Elements(rejected)) = {}
  /\ hand # Nothing => hand # withdrawn
  /\ \A c \in Commands : answers[c] \in {0, 1} /\ (c > issued => answers[c] = 0)

(* What has been sent, and what was said about it. *)
WireInv ==
  /\ \A c \in Commands : verdict[c] = "none" <=> answers[c] = 0
  /\ \A c \in Commands :
       answers[c] = 0 /\ ~(worker = "answering" /\ c = hand) => sent[c] = <<>>
  /\ worker = "answering" => sent[hand] = <<home[hand]>>
  /\ worker = "executing" => home[hand] = generation
  /\ \A c \in Elements(pending) : home[c] = generation
  /\ NeverReplayed
  /\ TruthfulVerdict

SessionInv == TypeOK /\ Whereabouts /\ Gate /\ HeldOnce /\ WireInv

-------------------------------------------------------------------------------
(* The queue as a sequence.                                                *)

(* A set of positions that is not empty has a first one. *)
LEMMA FirstPosition ==
  ASSUME NEW T \in SUBSET Nat, T # {}
  PROVE  \E m \in T : \A n \in T : ~ (n < m)
  <1>1. \E m \in T : \A n \in T : ~ (<<n, m>> \in OpToRel(<, Nat))
    BY NatLessThanWellFounded, WFMin
  <1>2. \A m, n \in T : n < m => <<n, m>> \in OpToRel(<, Nat)
    BY DEF OpToRel
  <1> QED BY <1>1, <1>2

(* A mutation has a place in front of the first query, or at the end. *)
LEMMA FirstQueryIsPlace ==
  ASSUME NEW queue \in Seq(Commands)
  PROVE  FirstQuery(queue) \in 1 .. Len(queue) + 1
  <1> DEFINE T == {i \in 1 .. Len(queue) + 1 : i <= Len(queue) => IsQuery(queue[i])}
  <1>0. Len(queue) \in Nat
    BY LenProperties
  <1>1. T \in SUBSET Nat /\ Len(queue) + 1 \in T
    BY <1>0
  <1>2. PICK m \in T : \A n \in T : ~ (n < m)
    BY <1>1, FirstPosition, Zenon
  <1>3. \A j \in 1 .. m - 1 : ~IsQuery(queue[j])
    BY <1>0, <1>2
  <1>4. \E i \in 1 .. Len(queue) + 1 :
          /\ i <= Len(queue) => IsQuery(queue[i])
          /\ \A j \in 1 .. i - 1 : ~IsQuery(queue[j])
    BY <1>2, <1>3
  <1> QED BY <1>4, Zenon DEF FirstQuery

(* A new command stands somewhere in the queue, the others keep their order. *)
LEMMA InsertedElements ==
  ASSUME NEW queue \in Seq(Commands), NEW c \in Commands, NEW k \in Kinds
  PROVE  /\ Inserted(queue, c, k) \in Seq(Commands)
         /\ Len(Inserted(queue, c, k)) = Len(queue) + 1
         /\ \E at \in 1 .. Len(queue) + 1 : \A i \in 1 .. Len(queue) + 1 :
              Inserted(queue, c, k)[i] =
                IF i < at THEN queue[i] ELSE IF i = at THEN c ELSE queue[i - 1]
  <1>0. Len(queue) \in Nat /\ \A i \in 1 .. Len(queue) : queue[i] \in Commands
    BY LenProperties
  <1>1. PICK at \in 1 .. Len(queue) + 1 :
          Inserted(queue, c, k) =
            SubSeq(queue, 1, at - 1) \o <<c>> \o SubSeq(queue, at, Len(queue))
    <2>1. (IF k = "query" THEN Len(queue) + 1 ELSE FirstQuery(queue)) \in 1 .. Len(queue) + 1
      BY <1>0, FirstQueryIsPlace
    <2> QED BY <2>1, Zenon DEF Inserted
  <1> DEFINE front == SubSeq(queue, 1, at - 1)
             back == SubSeq(queue, at, Len(queue))
             head == front \o <<c>>
  <1>2. /\ front \in Seq(Commands) /\ Len(front) = at - 1
        /\ \A i \in 1 .. at - 1 : front[i] = queue[i]
    BY <1>0, SubSeqProperties
  <1>3. /\ back \in Seq(Commands) /\ Len(back) = Len(queue) + 1 - at
        /\ \A i \in 1 .. Len(queue) + 1 - at : back[i] = queue[at + i - 1]
    BY <1>0, SubSeqProperties
  <1>4. /\ head \in Seq(Commands) /\ Len(head) = at
        /\ \A i \in 1 .. at : head[i] = IF i < at THEN queue[i] ELSE c
    <2>1. <<c>> \in Seq(Commands) /\ Len(<<c>>) = 1 /\ <<c>>[1] = c
      OBVIOUS
    <2> HIDE DEF front
    <2> QED BY <1>0, <1>2, <2>1, ConcatProperties
  <1> HIDE DEF head, back
  <1>5. /\ head \o back \in Seq(Commands) /\ Len(head \o back) = Len(queue) + 1
        /\ \A i \in 1 .. Len(queue) + 1 :
             (head \o back)[i] = IF i <= at THEN head[i] ELSE back[i - at]
    <2>1. /\ head \o back \in Seq(Commands) /\ Len(head \o back) = Len(head) + Len(back)
          /\ \A i \in 1 .. Len(head) + Len(back) :
               (head \o back)[i] = IF i <= Len(head) THEN head[i] ELSE back[i - Len(head)]
      BY <1>3, <1>4, ConcatProperties, Zenon
    <2> QED BY <1>0, <1>3, <1>4, <2>1
  <1>6. \A i \in 1 .. Len(queue) + 1 :
          (head \o back)[i] =
            IF i < at THEN queue[i] ELSE IF i = at THEN c ELSE queue[i - 1]
    BY <1>0, <1>3, <1>4, <1>5
  <1>7. Inserted(queue, c, k) = head \o back
    BY <1>1 DEF head, back
  <1> QED BY <1>5, <1>6, <1>7

(* Without one command the others stay as they were. *)
LEMMA RemovedElements ==
  ASSUME NEW queue \in Seq(Commands), NEW at \in 1 .. Len(queue),
         NEW rest, rest = SubSeq(queue, 1, at - 1) \o SubSeq(queue, at + 1, Len(queue))
  PROVE  /\ rest \in Seq(Commands) /\ Len(rest) = Len(queue) - 1
         /\ \A i \in 1 .. Len(queue) - 1 :
              rest[i] = IF i < at THEN queue[i] ELSE queue[i + 1]
  <1>0. Len(queue) \in Nat /\ \A i \in 1 .. Len(queue) : queue[i] \in Commands
    BY LenProperties
  <1> DEFINE front == SubSeq(queue, 1, at - 1)
             back == SubSeq(queue, at + 1, Len(queue))
  <1>1. /\ front \in Seq(Commands) /\ Len(front) = at - 1
        /\ \A i \in 1 .. at - 1 : front[i] = queue[i]
    BY <1>0, SubSeqProperties
  <1>2. /\ back \in Seq(Commands) /\ Len(back) = Len(queue) - at
        /\ \A i \in 1 .. Len(queue) - at : back[i] = queue[at + i]
    BY <1>0, SubSeqProperties
  <1> HIDE DEF front, back
  <1>3. /\ front \o back \in Seq(Commands) /\ Len(front \o back) = Len(queue) - 1
        /\ \A i \in 1 .. Len(queue) - 1 :
             (front \o back)[i] = IF i < at THEN front[i] ELSE back[i - (at - 1)]
    <2>1. /\ front \o back \in Seq(Commands) /\ Len(front \o back) = Len(front) + Len(back)
          /\ \A i \in 1 .. Len(front) + Len(back) :
               (front \o back)[i] = IF i <= Len(front) THEN front[i] ELSE back[i - Len(front)]
      BY <1>1, <1>2, ConcatProperties, Zenon
    <2> QED BY <1>0, <1>1, <1>2, <2>1
  <1>4. rest = front \o back
    BY DEF front, back
  <1>5. ASSUME NEW i \in 1 .. Len(queue) - 1
        PROVE  rest[i] = IF i < at THEN queue[i] ELSE queue[i + 1]
    <2>1. CASE i < at
      <3>1. i \in 1 .. at - 1
        BY <1>0, <2>1
      <3>2. front[i] = queue[i]
        BY <1>1, <3>1
      <3> QED BY <1>3, <1>4, <2>1, <3>2
    <2>2. CASE ~(i < at)
      <3>1. i - (at - 1) \in 1 .. Len(queue) - at /\ at + (i - (at - 1)) = i + 1
        BY <1>0, <2>2
      <3>2. back[i - (at - 1)] = queue[i + 1]
        BY <1>2, <3>1
      <3> QED BY <1>3, <1>4, <2>2, <3>2
    <2> QED BY <2>1, <2>2
  <1> QED BY <1>3, <1>4, <1>5

(* The same three changes of a queue, as changes of the commands in it. *)
LEMMA HeadLeaves ==
  ASSUME NEW queue \in Seq(Commands), queue # <<>>, Once(queue)
  PROVE  /\ Head(queue) \in Elements(queue) /\ Once(Tail(queue))
         /\ Elements(Tail(queue)) = Elements(queue) \ {Head(queue)}
  <1>1. /\ Len(queue) \in Nat \ {0} /\ Len(Tail(queue)) = Len(queue) - 1
        /\ \A i \in 1 .. Len(queue) - 1 : Tail(queue)[i] = queue[i + 1]
        /\ Head(queue) = queue[1]
    BY HeadTailProperties, EmptySeq
  <1>2. Head(queue) \in Elements(queue)
    BY <1>1 DEF Elements
  <1>3. Once(Tail(queue))
    BY <1>1 DEF Once
  <1>4. \A i \in 1 .. Len(queue) - 1 : Tail(queue)[i] \in Elements(queue) \ {Head(queue)}
    BY <1>1 DEF Once, Elements
  <1>5. ASSUME NEW i \in 1 .. Len(queue), queue[i] # Head(queue)
        PROVE  queue[i] \in Elements(Tail(queue))
    <2>1. i - 1 \in 1 .. Len(Tail(queue)) /\ Tail(queue)[i - 1] = queue[i]
      BY <1>1, <1>5
    <2> QED BY <2>1, Zenon DEF Elements
  <1>6. Elements(Tail(queue)) \subseteq Elements(queue) \ {Head(queue)}
    BY <1>1, <1>4 DEF Elements
  <1>7. Elements(queue) \ {Head(queue)} \subseteq Elements(Tail(queue))
    BY <1>5 DEF Elements
  <1> QED BY <1>2, <1>3, <1>6, <1>7

LEMMA OneEnters ==
  ASSUME NEW queue \in Seq(Commands), NEW c \in Commands, NEW k \in Kinds,
         Once(queue), c \notin Elements(queue)
  PROVE  /\ Once(Inserted(queue, c, k))
         /\ Elements(Inserted(queue, c, k)) = Elements(queue) \cup {c}
  <1> DEFINE longer == Inserted(queue, c, k)
  <1>1. /\ Len(longer) = Len(queue) + 1 /\ Len(queue) \in Nat
        /\ \A i \in 1 .. Len(queue) : queue[i] # c
    BY InsertedElements, LenProperties DEF Elements
  <1>2. PICK at \in 1 .. Len(queue) + 1 : \A i \in 1 .. Len(queue) + 1 :
          longer[i] = IF i < at THEN queue[i] ELSE IF i = at THEN c ELSE queue[i - 1]
    BY InsertedElements
  <1> HIDE DEF longer
  <1>3. ASSUME NEW i \in 1 .. Len(queue) PROVE queue[i] \in Elements(longer)
    <2>1. CASE i < at
      <3>1. i \in 1 .. Len(longer) /\ longer[i] = queue[i]
        BY <1>1, <1>2, <2>1
      <3> QED BY <3>1, Zenon DEF Elements
    <2>2. CASE ~(i < at)
      <3>1. i + 1 \in 1 .. Len(queue) + 1 /\ ~(i + 1 < at) /\ i + 1 # at /\ (i + 1) - 1 = i
        BY <1>1, <2>2
      <3>2. longer[i + 1] = queue[i]
        BY <1>2, <3>1
      <3> QED BY <1>1, <3>1, <3>2, Zenon DEF Elements
    <2> QED BY <2>1, <2>2
  <1>4. c \in Elements(longer)
    <2>1. at \in 1 .. Len(longer) /\ longer[at] = c
      BY <1>1, <1>2
    <2> QED BY <2>1, Zenon DEF Elements
  <1>5. ASSUME NEW i \in 1 .. Len(longer) PROVE longer[i] \in Elements(queue) \cup {c}
    <2>1. i <= Len(queue) + 1 /\ (i < at => i \in 1 .. Len(queue))
            /\ (i > at => i - 1 \in 1 .. Len(queue))
      BY <1>1
    <2>2. \/ i < at /\ longer[i] = queue[i]
          \/ i = at /\ longer[i] = c
          \/ i > at /\ longer[i] = queue[i - 1]
      BY <1>1, <1>2
    <2> QED BY <2>1, <2>2 DEF Elements
  <1>6. Elements(longer) = Elements(queue) \cup {c}
    <2>1. Elements(longer) \subseteq Elements(queue) \cup {c}
      BY <1>5, Zenon DEF Elements
    <2>2. Elements(queue) \subseteq Elements(longer)
      BY <1>3, Zenon DEF Elements
    <2> QED BY <1>4, <2>1, <2>2
  <1>7. Once(longer)
    <2> SUFFICES ASSUME NEW i \in 1 .. Len(longer), NEW j \in 1 .. Len(longer),
                        longer[i] = longer[j]
                 PROVE  i = j
      BY DEF Once
    <2> DEFINE from(m) == IF m < at THEN m ELSE m - 1
    <2>1. ASSUME NEW m \in 1 .. Len(longer), m # at
          PROVE  from(m) \in 1 .. Len(queue) /\ longer[m] = queue[from(m)]
      BY <1>1, <1>2, <2>1
    <2>2. longer[at] = c
      BY <1>2
    <2>3. i = at <=> j = at
      BY <1>1, <2>1, <2>2
    <2>4. CASE i # at /\ j # at
      <3>1. from(i) = from(j)
        BY <2>1, <2>4 DEF Once
      <3> QED BY <1>1, <2>4, <3>1
    <2> QED BY <2>3, <2>4
  <1> QED BY <1>6, <1>7 DEF longer

LEMMA OnePositionLess ==
  ASSUME NEW queue \in Seq(Commands), NEW at \in 1 .. Len(queue), Once(queue),
         NEW rest \in Seq(Commands), Len(rest) = Len(queue) - 1,
         \A i \in 1 .. Len(queue) - 1 :
           rest[i] = IF i < at THEN queue[i] ELSE queue[i + 1]
  PROVE  Once(rest) /\ Elements(rest) = Elements(queue) \ {queue[at]}
  <1>1. /\ Len(queue) \in Nat /\ Len(rest) = Len(queue) - 1 /\ at \in 1 .. Len(queue)
        /\ \A i \in 1 .. Len(queue) - 1 :
             rest[i] = IF i < at THEN queue[i] ELSE queue[i + 1]
    BY LenProperties
  <1> DEFINE from(m) == IF m < at THEN m ELSE m + 1
  <1>2. ASSUME NEW m \in 1 .. Len(rest)
        PROVE  from(m) \in 1 .. Len(queue) /\ from(m) # at /\ rest[m] = queue[from(m)]
    <2>1. m \in 1 .. Len(queue) - 1
      BY <1>1, <1>2
    <2>2. CASE m < at
      BY <1>1, <2>1, <2>2
    <2>3. CASE ~(m < at)
      BY <1>1, <2>1, <2>3
    <2> QED BY <2>2, <2>3
  <1>3. Once(rest)
    <2> SUFFICES ASSUME NEW i \in 1 .. Len(rest), NEW j \in 1 .. Len(rest), rest[i] = rest[j]
                 PROVE  i = j
      BY DEF Once
    <2>1. /\ from(i) \in 1 .. Len(queue) /\ from(j) \in 1 .. Len(queue)
          /\ queue[from(i)] = queue[from(j)]
      BY <1>2
    <2>2. from(i) = from(j)
      BY <2>1, Zenon DEF Once
    <2> QED BY <1>1, <2>2
  <1>4. Elements(rest) \subseteq Elements(queue) \ {queue[at]}
    <2> SUFFICES ASSUME NEW m \in 1 .. Len(rest)
                 PROVE  rest[m] \in Elements(queue) \ {queue[at]}
      BY Zenon DEF Elements
    <2> QED BY <1>2 DEF Elements, Once
  <1>5. Elements(queue) \ {queue[at]} \subseteq Elements(rest)
    <2> SUFFICES ASSUME NEW i \in 1 .. Len(queue), i # at
                 PROVE  queue[i] \in Elements(rest)
      BY Zenon DEF Elements
    <2>1. CASE i < at
      <3>1. i \in 1 .. Len(queue) - 1
        BY <1>1, <2>1
      <3>2. i \in 1 .. Len(rest) /\ rest[i] = queue[i]
        BY <1>1, <2>1, <3>1
      <3> QED BY <3>2, Zenon DEF Elements
    <2>2. CASE ~(i < at)
      <3>0. i > at
        BY <1>1, <2>2
      <3>1. i - 1 \in 1 .. Len(rest) /\ ~(i - 1 < at) /\ (i - 1) + 1 = i
        BY <1>1, <3>0
      <3>2. rest[i - 1] = queue[i]
        BY <1>1, <3>1
      <3> QED BY <3>1, <3>2, Zenon DEF Elements
    <2> QED BY <2>1, <2>2
  <1> QED BY <1>3, <1>4, <1>5

LEMMA OneLeaves ==
  ASSUME NEW queue \in Seq(Commands), NEW at \in 1 .. Len(queue), Once(queue), NEW rest
  PROVE  rest = SubSeq(queue, 1, at - 1) \o SubSeq(queue, at + 1, Len(queue))
           => Once(rest) /\ Elements(rest) = Elements(queue) \ {queue[at]}
  <1> DEFINE Shifted == /\ rest \in Seq(Commands) /\ Len(rest) = Len(queue) - 1
                        /\ \A i \in 1 .. Len(queue) - 1 :
                             rest[i] = IF i < at THEN queue[i] ELSE queue[i + 1]
  <1>1. rest = SubSeq(queue, 1, at - 1) \o SubSeq(queue, at + 1, Len(queue)) => Shifted
    BY RemovedElements, Zenon
  <1>2. Shifted => Once(rest) /\ Elements(rest) = Elements(queue) \ {queue[at]}
    BY OnePositionLess
  <1> QED BY <1>1, <1>2, Zenon

-------------------------------------------------------------------------------
(* Type correctness.                                                       *)

ThreadsOK ==
  /\ worker \in {"top", "connecting", "backoff", "serving", "refreshing",
                 "publishing", "taking", "executing", "answering", "losing", "draining",
                 "rejecting", "parting", "checking", "dozing", "asleep", "stopped"}
  /\ idle \in {"top", "waiting", "posted", "lost", "backoff", "stopped"}
  /\ owner \in {"free", "notifying", "withdrawing", "destroying", "joining", "gone"}
  /\ generation \in Nat /\ mirrored \in Nat /\ faults \in 0 .. MaxFaults
  /\ outcome \in {"none", "replied", "unknown"}
  /\ {link, accepting, refresh, stopping, idleLink} \subseteq BOOLEAN

QueuesOK ==
  /\ pending \in Seq(Commands) /\ Len(pending) <= MaxPending
  /\ rejected \in Seq(Commands)
  /\ hand \in Commands \cup {Nothing} /\ withdrawn \in Commands \cup {Nothing}

HistoryOK ==
  /\ issued \in 0 .. MaxCommands
  /\ kind \in [Commands -> Kinds]
  /\ home \in [Commands -> Nat]
  /\ sent \in [Commands -> Seq(Nat)]
  /\ answers \in [Commands -> Nat]
  /\ verdict \in [Commands -> {"none", "replied", "unknown", "unsent"}]

LEMMA TypeParts == TypeOK <=> ThreadsOK /\ QueuesOK /\ HistoryOK
  BY DEF TypeOK, ThreadsOK, QueuesOK, HistoryOK

LEMMA ThreadsInductive == ASSUME TypeOK, Next PROVE ThreadsOK'
  <1> USE SessionAssumption, TypeParts DEF ThreadsOK, history, idleVars, ownerVars, queueVars
  <1>1. CASE NextAttempt
    BY <1>1 DEF NextAttempt
  <1>2. CASE Connected
    BY <1>2 DEF Connected
  <1>3. CASE ConnectFails
    BY <1>3 DEF ConnectFails
  <1>4. CASE BackoffEnds
    BY <1>4 DEF BackoffEnds
  <1>5. CASE Serve
    BY <1>5 DEF Serve
  <1>6. CASE OpenQueue \/ Publish
    BY <1>6 DEF OpenQueue, Publish
  <1>7. CASE RefreshFails
    BY <1>7 DEF RefreshFails
  <1>8. CASE TakeCommand
    BY <1>8 DEF TakeCommand
  <1>9. CASE Execute
    BY <1>9 DEF Execute
  <1>10. CASE Answer
    BY <1>10 DEF Answer, Finish
  <1>11. CASE LoseConnection
    BY <1>11 DEF LoseConnection, SwapOut
  <1>12. CASE Drain
    BY <1>12 DEF Drain, SwapOut
  <1>13. CASE RejectNext
    BY <1>13 DEF RejectNext, Finish
  <1>14. CASE RejectedAll
    BY <1>14 DEF RejectedAll
  <1>15. CASE CheckForWork
    BY <1>15 DEF CheckForWork, HasWork
  <1>16. CASE FallAsleep
    BY <1>16 DEF FallAsleep
  <1>17. CASE SpuriousWakeup
    BY <1>17 DEF SpuriousWakeup
  <1>18. CASE IdleStops
    BY <1>18 DEF IdleStops
  <1>19. CASE IdleConnected
    BY <1>19 DEF IdleConnected
  <1>20. CASE IdleConnectFails
    BY <1>20 DEF IdleConnectFails
  <1>21. CASE IdleLost
    BY <1>21 DEF IdleLost
  <1>22. CASE IdleNotify
    BY <1>22 DEF IdleNotify, NotifyAll
  <1>23. CASE IdleBackoffEnds
    BY <1>23 DEF IdleBackoffEnds
  <1>24. CASE IdleEvent
    BY <1>24 DEF IdleEvent
  <1>25. CASE RequestRefresh
    BY <1>25 DEF RequestRefresh
  <1>26. CASE OwnerNotify
    BY <1>26 DEF OwnerNotify, NotifyAll
  <1>27. CASE AnswerWithdrawn
    BY <1>27 DEF AnswerWithdrawn, Finish
  <1>28. CASE Destroy
    BY <1>28 DEF Destroy
  <1>29. CASE Joined
    BY <1>29 DEF Joined
  <1>30. CASE Break
    <2>1. faults' = faults + 1 /\ faults < MaxFaults /\ faults \in 0 .. MaxFaults
      BY <1>30 DEF Break
    <2>2. {link', idleLink'} \subseteq BOOLEAN
      BY <1>30 DEF Break
    <2> QED BY <1>30, <2>1, <2>2 DEF Break
  <1>31. CASE \E k \in Kinds : Enqueue(k)
    BY <1>31 DEF Enqueue
  <1>32. CASE \E c \in Commands : CancelPending(c)
    BY <1>32 DEF CancelPending
  <1>33. CASE Ended
    BY <1>33 DEF Ended, vars
  <1> QED
    BY <1>1, <1>2, <1>3, <1>4, <1>5, <1>6, <1>7, <1>8, <1>9, <1>10, <1>11, <1>12, <1>13, <1>14,
       <1>15, <1>16, <1>17, <1>18, <1>19, <1>20, <1>21, <1>22, <1>23, <1>24, <1>25, <1>26,
       <1>27, <1>28, <1>29, <1>30, <1>31, <1>32, <1>33
       DEF Next, CommandWorker, IdleWorker, Owner

(* Steps that move no command from one holder to another. *)
Unmoved == UNCHANGED <<pending, rejected, hand, withdrawn>>

(* Steps that issue, send and answer nothing. *)
Silent == UNCHANGED <<issued, kind, home, sent, answers, verdict>>

(* The worker is not about to send or to answer, before and after the step, *)
(* and only the outer loop starts a generation.                            *)
Elsewhere ==
  /\ \/ UNCHANGED worker
     \/ {worker, worker'} \cap {"executing", "answering"} = {}
  /\ generation' = generation \/ worker = "top"

(* Every step is one of these: the ones that touch commands, by name. *)
Moving ==
  \/ TakeCommand \/ Execute \/ Answer \/ LoseConnection \/ Drain \/ RejectNext
  \/ AnswerWithdrawn
  \/ \E k \in Kinds : Enqueue(k)
  \/ \E c \in Commands : CancelPending(c)

LEMMA OthersLeaveCommands ==
  ASSUME Next PROVE Moving \/ (Unmoved /\ Silent /\ Elsewhere)
  <1> USE DEF Moving, Unmoved, Silent, Elsewhere, history, ownerVars, queueVars
  <1>1. CASE NextAttempt
    BY <1>1 DEF NextAttempt
  <1>2. CASE Connected
    BY <1>2 DEF Connected
  <1>3. CASE ConnectFails
    BY <1>3 DEF ConnectFails
  <1>4. CASE BackoffEnds
    BY <1>4 DEF BackoffEnds
  <1>5. CASE Serve
    BY <1>5 DEF Serve
  <1>6. CASE OpenQueue \/ Publish
    BY <1>6 DEF OpenQueue, Publish
  <1>7. CASE RefreshFails
    BY <1>7 DEF RefreshFails
  <1>8. CASE RejectedAll
    BY <1>8 DEF RejectedAll
  <1>9. CASE CheckForWork
    BY <1>9 DEF CheckForWork
  <1>10. CASE FallAsleep
    BY <1>10 DEF FallAsleep
  <1>11. CASE SpuriousWakeup
    BY <1>11 DEF SpuriousWakeup
  <1>12. CASE IdleStops
    BY <1>12 DEF IdleStops
  <1>13. CASE IdleConnected
    BY <1>13 DEF IdleConnected
  <1>14. CASE IdleConnectFails
    BY <1>14 DEF IdleConnectFails
  <1>15. CASE IdleLost
    BY <1>15 DEF IdleLost
  <1>16. CASE IdleNotify
    BY <1>16 DEF IdleNotify
  <1>17. CASE IdleBackoffEnds
    BY <1>17 DEF IdleBackoffEnds
  <1>18. CASE IdleEvent
    BY <1>18 DEF IdleEvent
  <1>19. CASE RequestRefresh
    BY <1>19 DEF RequestRefresh
  <1>20. CASE OwnerNotify
    BY <1>20 DEF OwnerNotify
  <1>21. CASE Destroy
    BY <1>21 DEF Destroy
  <1>22. CASE Joined
    BY <1>22 DEF Joined
  <1>23. CASE Break
    BY <1>23 DEF Break
  <1>24. CASE Ended
    BY <1>24 DEF Ended, vars
  <1> QED
    BY <1>1, <1>2, <1>3, <1>4, <1>5, <1>6, <1>7, <1>8, <1>9, <1>10, <1>11, <1>12, <1>13, <1>14,
       <1>15, <1>16, <1>17, <1>18, <1>19, <1>20, <1>21, <1>22, <1>23, <1>24
       DEF Next, CommandWorker, IdleWorker, Owner

LEMMA QueuesInductive == ASSUME TypeOK, Next PROVE QueuesOK'
  <1> USE SessionAssumption, TypeParts DEF QueuesOK, queueVars, ownerVars
  <1>1. CASE TakeCommand
    BY <1>1, HeadTailProperties DEF TakeCommand
  <1>2. CASE LoseConnection \/ Drain
    <2>1. pending' = <<>> /\ rejected' = pending /\ UNCHANGED <<hand, withdrawn>>
      BY <1>2 DEF LoseConnection, Drain, SwapOut
    <2> QED BY <2>1, EmptySeq
  <1>3. CASE RejectNext
    BY <1>3, HeadTailProperties DEF RejectNext
  <1>4. CASE Execute \/ Answer \/ AnswerWithdrawn
    BY <1>4 DEF Execute, Answer, AnswerWithdrawn
  <1>5. ASSUME NEW k \in Kinds, Enqueue(k) PROVE QueuesOK'
    <2>1. CASE Refuses
      BY <1>5, <2>1 DEF Enqueue
    <2>2. CASE ~Refuses
      <3>1. issued + 1 \in Commands /\ Len(pending) < MaxPending
        BY <1>5, <2>2, LenProperties DEF Enqueue, Refuses, Commands, HistoryOK
      <3>2. /\ pending' = Inserted(pending, issued + 1, k)
            /\ UNCHANGED <<rejected, hand, withdrawn>>
        BY <1>5, <2>2 DEF Enqueue
      <3> QED BY <3>1, <3>2, InsertedElements, LenProperties
    <2> QED BY <2>1, <2>2
  <1>6. ASSUME NEW c \in Commands, CancelPending(c) PROVE QueuesOK'
    <2>1. PICK i \in 1 .. Len(pending) :
            pending' = SubSeq(pending, 1, i - 1) \o SubSeq(pending, i + 1, Len(pending))
      BY <1>6 DEF CancelPending
    <2>2. withdrawn' = c /\ UNCHANGED <<rejected, hand>>
      BY <1>6 DEF CancelPending
    <2>3. pending' \in Seq(Commands) /\ Len(pending') = Len(pending) - 1
      BY <2>1, RemovedElements
    <2> QED BY <2>2, <2>3, LenProperties
  <1>7. CASE Unmoved
    BY <1>7 DEF Unmoved
  <1> QED BY <1>1, <1>2, <1>3, <1>4, <1>5, <1>6, <1>7, OthersLeaveCommands DEF Moving

LEMMA HistoryInductive == ASSUME TypeOK, Whereabouts, Next PROVE HistoryOK'
  <1> USE SessionAssumption, TypeParts DEF HistoryOK, history
  <1>1. CASE TakeCommand \/ LoseConnection \/ Drain
    BY <1>1 DEF TakeCommand, LoseConnection, Drain
  <1>2. CASE Execute
    <2>1. Append(sent[hand], generation) \in Seq(Nat) \/ hand \notin Commands
      BY AppendProperties DEF ThreadsOK
    <2> QED BY <1>2, <2>1 DEF Execute
  <1>3. ASSUME NEW c \in Commands, NEW says \in {"replied", "unknown", "unsent"}, Finish(c, says)
        PROVE  /\ answers' \in [Commands -> Nat]
               /\ verdict' \in [Commands -> {"none", "replied", "unknown", "unsent"}]
    BY <1>3 DEF Finish
  <1>4. CASE Answer
    <2>1. outcome \in {"replied", "unknown"} /\ hand \in Commands /\ Finish(hand, outcome)
      BY <1>4 DEF Answer, Whereabouts, ThreadsOK, QueuesOK
    <2> QED BY <1>3, <1>4, <2>1 DEF Answer
  <1>5. CASE RejectNext
    BY <1>3, <1>5, HeadTailProperties DEF RejectNext, QueuesOK
  <1>6. CASE AnswerWithdrawn
    BY <1>3, <1>6 DEF AnswerWithdrawn, Whereabouts, QueuesOK
  <1>7. ASSUME NEW k \in Kinds, Enqueue(k) PROVE HistoryOK'
    <2>0. issued + 1 \in Commands /\ issued' = issued + 1
      BY <1>7 DEF Enqueue, Commands
    <2>1. issued' \in 0 .. MaxCommands /\ kind' \in [Commands -> Kinds] /\ UNCHANGED sent
      BY <1>7, <2>0 DEF Enqueue, Commands
    <2>2. CASE Refuses
      BY <1>3, <1>7, <2>0, <2>1, <2>2 DEF Enqueue
    <2>3. CASE ~Refuses
      BY <1>7, <2>1, <2>3 DEF Enqueue, ThreadsOK
    <2> QED BY <2>2, <2>3
  <1>8. CASE \E c \in Commands : CancelPending(c)
    BY <1>8 DEF CancelPending
  <1>9. CASE Silent
    BY <1>9 DEF Silent
  <1> QED
    BY <1>1, <1>2, <1>4, <1>5, <1>6, <1>7, <1>8, <1>9, OthersLeaveCommands DEF Moving

-------------------------------------------------------------------------------
(* Where the threads are tells what they hold.                             *)

LEMMA WhereaboutsInductive ==
  ASSUME TypeOK, Whereabouts, Next PROVE Whereabouts'
  <1> USE TypeParts DEF Whereabouts, ThreadsOK, QueuesOK, idleVars, ownerVars, queueVars, Nothing, Commands
  <1>1. CASE NextAttempt
    BY <1>1 DEF NextAttempt
  <1>2. CASE Connected
    BY <1>2 DEF Connected
  <1>3. CASE ConnectFails
    BY <1>3 DEF ConnectFails
  <1>4. CASE BackoffEnds
    BY <1>4 DEF BackoffEnds
  <1>5. CASE Serve
    BY <1>5 DEF Serve
  <1>6. CASE OpenQueue \/ Publish
    BY <1>6 DEF OpenQueue, Publish
  <1>7. CASE RefreshFails
    BY <1>7 DEF RefreshFails
  <1>8. CASE TakeCommand
    <2>1. CASE pending = <<>>
      BY <1>8, <2>1 DEF TakeCommand
    <2>2. CASE pending # <<>>
      <3>1. Head(pending) \in Commands
        BY <2>2, HeadTailProperties
      <3>2. hand' \in Commands /\ worker' = "executing" /\ outcome = "none" /\ rejected = <<>>
        BY <1>8, <2>2, <3>1 DEF TakeCommand
      <3>3. hand' # Nothing
        BY <3>2
      <3> QED BY <1>8, <3>2, <3>3 DEF TakeCommand
    <2> QED BY <2>1, <2>2
  <1>9. CASE Execute
    BY <1>9 DEF Execute
  <1>10. CASE Answer
    BY <1>10 DEF Answer, Finish
  <1>11. CASE LoseConnection
    BY <1>11 DEF LoseConnection, SwapOut
  <1>12. CASE Drain
    BY <1>12 DEF Drain, SwapOut
  <1>13. CASE RejectNext
    BY <1>13 DEF RejectNext, Finish
  <1>14. CASE RejectedAll
    BY <1>14 DEF RejectedAll
  <1>15. CASE CheckForWork
    BY <1>15 DEF CheckForWork, HasWork
  <1>16. CASE FallAsleep
    BY <1>16 DEF FallAsleep
  <1>17. CASE SpuriousWakeup
    BY <1>17 DEF SpuriousWakeup
  <1>18. CASE IdleStops
    BY <1>18 DEF IdleStops
  <1>19. CASE IdleConnected
    BY <1>19 DEF IdleConnected
  <1>20. CASE IdleConnectFails
    BY <1>20 DEF IdleConnectFails
  <1>21. CASE IdleLost
    BY <1>21 DEF IdleLost
  <1>22. CASE IdleNotify
    BY <1>22 DEF IdleNotify, NotifyAll
  <1>23. CASE IdleBackoffEnds
    BY <1>23 DEF IdleBackoffEnds
  <1>24. CASE IdleEvent
    BY <1>24 DEF IdleEvent
  <1>25. CASE RequestRefresh
    BY <1>25 DEF RequestRefresh
  <1>26. CASE OwnerNotify
    BY <1>26 DEF OwnerNotify, NotifyAll
  <1>27. CASE AnswerWithdrawn
    BY <1>27 DEF AnswerWithdrawn, Finish
  <1>28. CASE Destroy
    BY <1>28 DEF Destroy
  <1>29. CASE Joined
    BY <1>29 DEF Joined
  <1>30. CASE Break
    BY <1>30 DEF Break
  <1>31. CASE \E k \in Kinds : Enqueue(k)
    BY <1>31 DEF Enqueue
  <1>32. CASE \E c \in Commands : CancelPending(c)
    BY <1>32 DEF CancelPending
  <1>33. CASE Ended
    BY <1>33 DEF Ended, vars
  <1> QED
    BY <1>1, <1>2, <1>3, <1>4, <1>5, <1>6, <1>7, <1>8, <1>9, <1>10, <1>11, <1>12, <1>13, <1>14,
       <1>15, <1>16, <1>17, <1>18, <1>19, <1>20, <1>21, <1>22, <1>23, <1>24, <1>25, <1>26,
       <1>27, <1>28, <1>29, <1>30, <1>31, <1>32, <1>33
       DEF Next, CommandWorker, IdleWorker, Owner

LEMMA GateInductive ==
  ASSUME TypeOK, Whereabouts, Gate, Next PROVE Gate'
  <1> USE TypeParts DEF Gate, SnapshotBeforeWire, Serving, Whereabouts, ThreadsOK, QueuesOK, HistoryOK, idleVars, ownerVars, queueVars, history
  <1>1. CASE NextAttempt
    BY <1>1 DEF NextAttempt
  <1>2. CASE Connected
    BY <1>2 DEF Connected
  <1>3. CASE ConnectFails
    BY <1>3 DEF ConnectFails
  <1>4. CASE BackoffEnds
    BY <1>4 DEF BackoffEnds
  <1>5. CASE Serve
    BY <1>5 DEF Serve
  <1>6. CASE OpenQueue \/ Publish
    <2>1. CASE OpenQueue
      BY <2>1 DEF OpenQueue
    <2>2. CASE Publish
      <3>1. worker = "publishing" /\ mirrored' = generation /\ worker' = "taking"
        BY <2>2 DEF Publish
      <3>2. UNCHANGED <<generation, accepting, pending, hand>> /\ generation \in Nat
        BY <2>2 DEF Publish
      <3>3. accepting' /\ mirrored' <= generation'
        BY <3>1, <3>2
      <3> QED BY <3>1, <3>2, <3>3
    <2> QED BY <1>6, <2>1, <2>2
  <1>7. CASE RefreshFails
    BY <1>7 DEF RefreshFails
  <1>8. CASE TakeCommand
    BY <1>8 DEF TakeCommand
  <1>9. CASE Execute
    BY <1>9 DEF Execute
  <1>10. CASE Answer
    BY <1>10 DEF Answer, Finish
  <1>11. CASE LoseConnection
    BY <1>11 DEF LoseConnection, SwapOut
  <1>12. CASE Drain
    BY <1>12 DEF Drain, SwapOut
  <1>13. CASE RejectNext
    BY <1>13 DEF RejectNext, Finish
  <1>14. CASE RejectedAll
    BY <1>14 DEF RejectedAll
  <1>15. CASE CheckForWork
    BY <1>15 DEF CheckForWork, HasWork
  <1>16. CASE FallAsleep
    BY <1>16 DEF FallAsleep
  <1>17. CASE SpuriousWakeup
    BY <1>17 DEF SpuriousWakeup
  <1>18. CASE IdleStops
    BY <1>18 DEF IdleStops
  <1>19. CASE IdleConnected
    BY <1>19 DEF IdleConnected
  <1>20. CASE IdleConnectFails
    BY <1>20 DEF IdleConnectFails
  <1>21. CASE IdleLost
    BY <1>21 DEF IdleLost
  <1>22. CASE IdleNotify
    BY <1>22 DEF IdleNotify, NotifyAll
  <1>23. CASE IdleBackoffEnds
    BY <1>23 DEF IdleBackoffEnds
  <1>24. CASE IdleEvent
    BY <1>24 DEF IdleEvent
  <1>25. CASE RequestRefresh
    BY <1>25 DEF RequestRefresh
  <1>26. CASE OwnerNotify
    BY <1>26 DEF OwnerNotify, NotifyAll
  <1>27. CASE AnswerWithdrawn
    BY <1>27 DEF AnswerWithdrawn, Finish
  <1>28. CASE Destroy
    BY <1>28 DEF Destroy
  <1>29. CASE Joined
    BY <1>29 DEF Joined
  <1>30. CASE Break
    BY <1>30 DEF Break
  <1>31. CASE \E k \in Kinds : Enqueue(k)
    BY <1>31 DEF Enqueue, Refuses
  <1>32. CASE \E c \in Commands : CancelPending(c)
    BY <1>32 DEF CancelPending
  <1>33. CASE Ended
    BY <1>33 DEF Ended, vars
  <1> QED
    BY <1>1, <1>2, <1>3, <1>4, <1>5, <1>6, <1>7, <1>8, <1>9, <1>10, <1>11, <1>12, <1>13, <1>14,
       <1>15, <1>16, <1>17, <1>18, <1>19, <1>20, <1>21, <1>22, <1>23, <1>24, <1>25, <1>26,
       <1>27, <1>28, <1>29, <1>30, <1>31, <1>32, <1>33
       DEF Next, CommandWorker, IdleWorker, Owner

-------------------------------------------------------------------------------
(* A command has one holder until it is answered.                          *)

(* Queues hold commands only. *)
LEMMA ElementsAreCommands ==
  ASSUME NEW queue \in Seq(Commands)
  PROVE  Elements(queue) \subseteq Commands /\ Nothing \notin Elements(queue)
  <1>1. \A i \in 1 .. Len(queue) : queue[i] \in Commands
    BY LenProperties
  <1>2. Nothing \notin Commands
    BY DEF Commands, Nothing
  <1> QED BY <1>1, <1>2 DEF Elements

LEMMA EmptyHasNone == Elements(<<>>) = {} /\ Once(<<>>)
  BY DEF Elements, Once

(* An answer ends a command, whoever held it. *)
LEMMA AnsweredOnce ==
  ASSUME HeldOnce, HistoryOK, NEW c \in Outstanding, NEW says, Finish(c, says), UNCHANGED issued
  PROVE  /\ Outstanding' = Outstanding \ {c}
         /\ \A d \in Commands : answers'[d] \in {0, 1} /\ (d > issued' => answers'[d] = 0)
  <1>1. c \in Commands /\ c <= issued /\ answers[c] = 0
    BY DEF Outstanding
  <1>2. answers'[c] = 1 /\ \A d \in Commands \ {c} : answers'[d] = answers[d]
    BY <1>1 DEF Finish, HistoryOK
  <1> QED BY <1>1, <1>2 DEF HeldOnce, Outstanding, Commands, HistoryOK

LEMMA CancelLeaves ==
  ASSUME TypeOK, HeldOnce, NEW c, CancelPending(c)
  PROVE  /\ c \in Elements(pending) /\ Once(pending')
         /\ Elements(pending') = Elements(pending) \ {c}
  <1>1. PICK at \in 1 .. Len(pending) :
          /\ pending[at] = c
          /\ pending' = SubSeq(pending, 1, at - 1) \o SubSeq(pending, at + 1, Len(pending))
    BY DEF CancelPending
  <1>2. pending \in Seq(Commands) /\ Once(pending)
    BY TypeParts DEF QueuesOK, HeldOnce
  <1>3. Once(pending') /\ Elements(pending') = Elements(pending) \ {c}
    BY <1>1, <1>2, OneLeaves
  <1> QED BY <1>1, <1>3 DEF Elements

LEMMA HeldOnceInductive ==
  ASSUME TypeOK, Whereabouts, HeldOnce, Next
  PROVE  HeldOnce'
  <1> USE TypeParts DEF HeldOnce, QueuesOK
  <1>0. /\ Elements(pending) \subseteq Commands /\ Nothing \notin Elements(pending)
        /\ Elements(rejected) \subseteq Commands /\ Nothing \notin Elements(rejected)
    BY ElementsAreCommands
  <1>1. CASE TakeCommand
    <2>1. UNCHANGED <<rejected, withdrawn, issued, answers>> /\ hand = Nothing
      BY <1>1 DEF TakeCommand, Whereabouts, ownerVars, history
    <2>2. Outstanding' = Outstanding
      BY <2>1 DEF Outstanding
    <2>3. CASE pending = <<>>
      BY <1>1, <2>1, <2>2, <2>3 DEF TakeCommand
    <2>4. CASE pending # <<>>
      <3>1. hand' = Head(pending) /\ pending' = Tail(pending)
        BY <1>1, <2>4 DEF TakeCommand
      <3>2. /\ hand' \in Elements(pending) /\ Once(pending')
            /\ Elements(pending') = Elements(pending) \ {hand'}
        BY <2>4, <3>1, HeadLeaves
      <3> QED BY <1>0, <2>1, <2>2, <3>2
    <2> QED BY <2>3, <2>4
  <1>2. CASE LoseConnection \/ Drain
    <2>1. /\ pending' = <<>> /\ rejected' = pending /\ rejected = <<>>
          /\ UNCHANGED <<hand, withdrawn, issued, answers>>
      BY <1>2 DEF LoseConnection, Drain, SwapOut, Whereabouts, ownerVars, history
    <2>2. Outstanding' = Outstanding
      BY <2>1 DEF Outstanding
    <2> QED BY <2>1, <2>2, EmptyHasNone
  <1>3. CASE Execute
    BY <1>3 DEF Execute, Outstanding, ownerVars
  <1>4. CASE RejectNext
    <2>1. /\ rejected # <<>> /\ rejected' = Tail(rejected) /\ Finish(Head(rejected), "unsent")
          /\ UNCHANGED <<pending, hand, withdrawn, issued>>
      BY <1>4 DEF RejectNext, ownerVars
    <2>2. /\ Head(rejected) \in Elements(rejected) /\ Once(rejected')
          /\ Elements(rejected') = Elements(rejected) \ {Head(rejected)}
      BY <2>1, HeadLeaves
    <2>3. Head(rejected) \in Outstanding
      BY <2>2
    <2>4. /\ Outstanding' = Outstanding \ {Head(rejected)}
          /\ \A d \in Commands : answers'[d] \in {0, 1} /\ (d > issued' => answers'[d] = 0)
      BY <2>1, <2>3, AnsweredOnce
    <2> QED BY <2>1, <2>2, <2>4
  <1>5. CASE Answer
    <2>1. /\ hand \in Outstanding /\ hand # withdrawn /\ hand' = Nothing /\ Finish(hand, outcome)
          /\ UNCHANGED <<pending, rejected, withdrawn, issued>>
      BY <1>5 DEF Answer, Whereabouts, ownerVars
    <2>2. /\ Outstanding' = Outstanding \ {hand}
          /\ \A d \in Commands : answers'[d] \in {0, 1} /\ (d > issued' => answers'[d] = 0)
      BY <2>1, AnsweredOnce
    <2> QED BY <1>0, <2>1, <2>2
  <1>6. CASE AnswerWithdrawn
    <2>1. /\ withdrawn \in Outstanding /\ hand # withdrawn /\ withdrawn' = Nothing
          /\ Finish(withdrawn, "unsent") /\ UNCHANGED <<pending, rejected, hand, issued>>
      BY <1>6 DEF AnswerWithdrawn, Whereabouts, queueVars
    <2>2. /\ Outstanding' = Outstanding \ {withdrawn}
          /\ \A d \in Commands : answers'[d] \in {0, 1} /\ (d > issued' => answers'[d] = 0)
      BY <2>1, AnsweredOnce
    <2> QED BY <1>0, <2>1, <2>2
  <1>7. ASSUME NEW k \in Kinds, Enqueue(k) PROVE HeldOnce'
    <2> DEFINE c == issued + 1
    <2>1. /\ c \in Commands /\ issued' = c /\ c \notin Outstanding /\ answers[c] = 0
          /\ UNCHANGED <<rejected, hand, withdrawn>>
      <3>1. issued \in Nat /\ issued < MaxCommands /\ issued' = c
        BY <1>7, SessionAssumption DEF Enqueue, HistoryOK
      <3>2. c \in Commands /\ c > issued /\ c \in Nat
        BY <3>1, SessionAssumption DEF Commands
      <3> HIDE DEF c
      <3>3. c \notin Outstanding /\ answers[c] = 0
        BY <3>1, <3>2 DEF Outstanding
      <3> QED BY <1>7, <3>1, <3>2, <3>3 DEF Enqueue
    <2>2. \A d \in Commands : d <= c <=> d <= issued \/ d = c
      BY DEF HistoryOK, Commands
    <2>3. CASE Refuses
      <3>1. Finish(c, "unsent") /\ UNCHANGED pending
        BY <1>7, <2>3 DEF Enqueue
      <3>2. answers'[c] = 1 /\ \A d \in Commands \ {c} : answers'[d] = answers[d]
        BY <2>1, <3>1 DEF Finish, HistoryOK
      <3>3. Outstanding' = Outstanding
        BY <2>1, <2>2, <3>2 DEF Outstanding
      <3>4. \A d \in Commands : answers'[d] \in {0, 1} /\ (d > issued' => answers'[d] = 0)
        BY SMTT(30), <2>1, <3>2 DEF Commands, HistoryOK
      <3> HIDE DEF c
      <3> QED BY <2>1, <3>1, <3>3, <3>4
    <2>4. CASE ~Refuses
      <3>1. pending' = Inserted(pending, c, k) /\ UNCHANGED answers
        BY <1>7, <2>4 DEF Enqueue
      <3>2. Once(pending') /\ Elements(pending') = Elements(pending) \cup {c}
        BY <2>1, <3>1, OneEnters
      <3>3. Outstanding' = Outstanding \cup {c}
        BY <2>1, <2>2, <3>1 DEF Outstanding
      <3>4. \A d \in Commands : answers'[d] \in {0, 1} /\ (d > issued' => answers'[d] = 0)
        BY <2>1, <3>1 DEF Commands, HistoryOK
      <3>5. c # hand /\ c # withdrawn /\ c \notin Elements(pending) /\ c \notin Elements(rejected)
        BY <2>1 DEF Commands, Nothing
      <3> HIDE DEF c
      <3> QED BY <2>1, <3>2, <3>3, <3>4, <3>5
    <2> QED BY <2>3, <2>4
  <1>8. ASSUME NEW c \in Commands, CancelPending(c) PROVE HeldOnce'
    <2>2. withdrawn' = c /\ withdrawn = Nothing /\ UNCHANGED <<rejected, hand, issued, answers>>
      BY <1>8 DEF CancelPending, Whereabouts, history
    <2>3. /\ Once(pending') /\ Elements(pending') = Elements(pending) \ {c}
          /\ c \in Elements(pending)
      BY <1>8, CancelLeaves
    <2>5. Outstanding' = Outstanding
      BY <2>2 DEF Outstanding
    <2> QED BY <1>0, <2>2, <2>3, <2>5
  <1>9. CASE Unmoved /\ Silent
    BY <1>9 DEF Unmoved, Silent, Outstanding
  <1> QED
    BY <1>1, <1>2, <1>3, <1>4, <1>5, <1>6, <1>7, <1>8, <1>9, OthersLeaveCommands DEF Moving

(* Counting positions tells whether a command is in a queue. *)
LEMMA PlacesCount ==
  ASSUME NEW queue \in Seq(Commands), Once(queue), NEW c
  PROVE  Places(queue, c) = IF c \in Elements(queue) THEN 1 ELSE 0
  <1> DEFINE P == {i \in 1 .. Len(queue) : queue[i] = c}
  <1>1. CASE c \in Elements(queue)
    <2>1. PICK i \in 1 .. Len(queue) : queue[i] = c
      BY <1>1 DEF Elements
    <2>2. P = {i}
      BY <2>1 DEF Once
    <2> QED BY <1>1, <2>2, FS_Singleton DEF Places
  <1>2. CASE c \notin Elements(queue)
    <2>1. P = {}
      BY <1>2 DEF Elements
    <2> QED BY <1>2, <2>1, FS_EmptySet DEF Places
  <1> QED BY <1>1, <1>2

LEMMA HeldOnceIsOneAnswer == ASSUME TypeOK, HeldOnce PROVE OneAnswer
  <1> SUFFICES ASSUME NEW c \in 1 .. issued
               PROVE  answers[c] + Custody(c) = 1
    BY DEF OneAnswer
  <1>1. c \in Commands /\ c # Nothing /\ c <= issued
    <2>1. issued \in 0 .. MaxCommands
      BY TypeParts DEF HistoryOK
    <2> QED BY <2>1, SessionAssumption DEF Commands, Nothing
  <1>2. /\ Places(pending, c) = IF c \in Elements(pending) THEN 1 ELSE 0
        /\ Places(rejected, c) = IF c \in Elements(rejected) THEN 1 ELSE 0
    BY TypeParts, PlacesCount DEF QueuesOK, HeldOnce
  <1>3. CASE answers[c] = 0
    <2>1. c \in Outstanding
      BY <1>1, <1>3 DEF Outstanding
    <2> QED BY <1>1, <1>2, <1>3, <2>1 DEF HeldOnce, Custody
  <1>4. CASE answers[c] # 0
    <2>1. c \notin Outstanding /\ answers[c] = 1
      BY <1>1, <1>4 DEF Outstanding, HeldOnce
    <2> QED BY <1>1, <1>2, <2>1 DEF HeldOnce, Custody
  <1> QED BY <1>3, <1>4

-------------------------------------------------------------------------------
(* What reaches the wire.                                                  *)

(* No command that is answered now is answered again, and what is said of  *)
(* it is what the wire has seen.                                           *)
LEMMA AnswerIsTrue ==
  ASSUME TypeOK, WireInv, NEW c \in Outstanding, NEW says \in {"replied", "unknown", "unsent"},
         Finish(c, says), says = "unsent" <=> sent[c] = <<>>,
         UNCHANGED <<sent, home, generation>>, Elements(pending') \subseteq Elements(pending),
         worker' \notin {"executing", "answering"}, worker = "answering" => c = hand
  PROVE  WireInv'
  <1> USE TypeParts
  <1>1. c \in Commands /\ answers[c] = 0
    BY DEF Outstanding
  <1>2. /\ answers'[c] = 1 /\ verdict'[c] = says
        /\ \A d \in Commands \ {c} : answers'[d] = answers[d] /\ verdict'[d] = verdict[d]
    BY <1>1 DEF Finish, HistoryOK
  <1> QED BY <1>1, <1>2 DEF WireInv, NeverReplayed, TruthfulVerdict

LEMMA WireInductive ==
  ASSUME TypeOK, Whereabouts, Gate, HeldOnce, WireInv, Next
  PROVE  WireInv'
  <1> USE TypeParts DEF WireInv, NeverReplayed, TruthfulVerdict
  <1>1. CASE TakeCommand
    <2>1. UNCHANGED <<generation, home, sent, answers, verdict>> /\ worker = "taking"
      BY <1>1 DEF TakeCommand, history
    <2>2. CASE pending = <<>>
      BY <1>1, <2>1, <2>2 DEF TakeCommand
    <2>3. CASE pending # <<>>
      <3>1. /\ hand' \in Elements(pending) /\ Elements(pending') \subseteq Elements(pending)
            /\ worker' = "executing"
        BY <1>1, <2>3, HeadLeaves DEF TakeCommand, HeldOnce, QueuesOK
      <3> QED BY <2>1, <3>1
    <2> QED BY <2>2, <2>3
  <1>2. CASE LoseConnection \/ Drain
    <2>1. /\ pending' = <<>> /\ worker' \notin {"executing", "answering"}
          /\ worker \notin {"executing", "answering"}
          /\ UNCHANGED <<generation, home, sent, answers, verdict>>
      BY <1>2 DEF LoseConnection, Drain, SwapOut, history
    <2> QED BY <2>1, EmptyHasNone
  <1>3. CASE Execute
    <2>1. /\ worker = "executing" /\ worker' = "answering" /\ hand \in Outstanding
          /\ sent' = [sent EXCEPT ![hand] = Append(@, generation)]
          /\ UNCHANGED <<generation, pending, hand, home, answers, verdict>>
      BY <1>3 DEF Execute, Whereabouts, HeldOnce
    <2>2. hand \in Commands /\ answers[hand] = 0 /\ verdict[hand] = "none"
          /\ sent[hand] = <<>> /\ home[hand] = generation
      BY <2>1 DEF Outstanding
    <2>3. Append(<<>>, generation) = <<generation>>
      OBVIOUS
    <2>4. /\ sent'[hand] = <<generation>>
          /\ \A d \in Commands \ {hand} : sent'[d] = sent[d]
      BY <2>1, <2>2, <2>3 DEF HistoryOK
    <2> QED BY <2>1, <2>2, <2>4
  <1>4. CASE Answer
    <2>1. /\ hand \in Outstanding /\ outcome \in {"replied", "unknown"} /\ Finish(hand, outcome)
          /\ worker' \notin {"executing", "answering"} /\ worker = "answering"
          /\ UNCHANGED <<generation, pending, home, sent>>
      BY <1>4 DEF Answer, Whereabouts, HeldOnce, ThreadsOK
    <2>2. sent[hand] # <<>>
      BY <2>1
    <2> QED BY <2>1, <2>2, AnswerIsTrue
  <1>5. CASE RejectNext
    <2>1. /\ Head(rejected) \in Elements(rejected) /\ Finish(Head(rejected), "unsent")
          /\ worker \in {"rejecting", "parting"} /\ worker' = worker
          /\ UNCHANGED <<generation, pending, home, sent>>
      BY <1>5, HeadLeaves DEF RejectNext, HeldOnce, QueuesOK
    <2>2. Head(rejected) \in Outstanding
      BY <2>1 DEF HeldOnce
    <2>3. sent[Head(rejected)] = <<>>
      BY <2>1, <2>2 DEF Outstanding
    <2> QED BY <2>1, <2>2, <2>3, AnswerIsTrue
  <1>6. ASSUME AnswerWithdrawn PROVE WireInv'
    <2>1. /\ withdrawn \in Outstanding /\ hand # withdrawn /\ Finish(withdrawn, "unsent")
          /\ UNCHANGED <<worker, hand, generation, pending, home, sent>>
      BY <1>6 DEF AnswerWithdrawn, Whereabouts, HeldOnce, queueVars
    <2>2. withdrawn \in Commands /\ answers[withdrawn] = 0 /\ sent[withdrawn] = <<>>
      BY <2>1 DEF Outstanding
    <2>3. /\ answers'[withdrawn] = 1 /\ verdict'[withdrawn] = "unsent"
          /\ \A d \in Commands \ {withdrawn} :
               answers'[d] = answers[d] /\ verdict'[d] = verdict[d]
      BY <2>1, <2>2 DEF Finish, HistoryOK
    <2> QED BY <2>1, <2>2, <2>3
  <1>7. ASSUME NEW k \in Kinds, Enqueue(k) PROVE WireInv'
    <2> DEFINE c == issued + 1
    <2>1. issued \in Nat /\ issued < MaxCommands
      BY <1>7, SessionAssumption DEF Enqueue, HistoryOK
    <2>2. c \in Commands /\ c > issued /\ c \in Nat
      BY <2>1, SessionAssumption DEF Commands
    <2>3. UNCHANGED <<worker, hand, generation, sent>>
      BY <1>7 DEF Enqueue
    <2>4. /\ Refuses => Finish(c, "unsent") /\ UNCHANGED <<pending, home>>
          /\ ~Refuses => /\ pending' = Inserted(pending, c, k)
                         /\ home' = [home EXCEPT ![c] = generation]
                         /\ UNCHANGED <<answers, verdict>>
      BY <1>7 DEF Enqueue
    <2> HIDE DEF c
    <2>5. answers[c] = 0 /\ c \notin Outstanding
      BY <2>1, <2>2 DEF HeldOnce, Outstanding
    <2>6. c \notin Elements(pending) /\ (worker \in {"executing", "answering"} => c # hand)
      BY <2>5 DEF HeldOnce, Whereabouts
    <2>7. sent[c] = <<>>
      BY <2>2, <2>5, <2>6
    <2>8. CASE Refuses
      <3>1. /\ answers'[c] = 1 /\ verdict'[c] = "unsent"
            /\ \A d \in Commands \ {c} : answers'[d] = answers[d] /\ verdict'[d] = verdict[d]
        BY <2>2, <2>4, <2>5, <2>8 DEF Finish, HistoryOK
      <3> QED BY <2>3, <2>4, <2>6, <2>7, <2>8, <3>1
    <2>9. CASE ~Refuses
      <3>1. Elements(pending') = Elements(pending) \cup {c}
        BY <2>2, <2>4, <2>6, <2>9, OneEnters DEF HeldOnce, QueuesOK
      <3>2. home'[c] = generation /\ \A d \in Commands \ {c} : home'[d] = home[d]
        BY <2>2, <2>4, <2>9 DEF HistoryOK
      <3>3. Elements(pending) \subseteq Commands
        BY ElementsAreCommands DEF QueuesOK
      <3>4. worker \in {"executing", "answering"} => hand \in Commands
        BY DEF HeldOnce, Whereabouts, Outstanding
      <3> QED BY <2>3, <2>4, <2>6, <2>7, <2>9, <3>1, <3>2, <3>3, <3>4
    <2> QED BY <2>8, <2>9
  <1>8. ASSUME NEW c \in Commands, CancelPending(c) PROVE WireInv'
    <2>1. UNCHANGED <<worker, hand, generation, home, sent, answers, verdict>>
      BY <1>8 DEF CancelPending, history
    <2>2. Elements(pending') \subseteq Elements(pending)
      BY <1>8, CancelLeaves
    <2> QED BY <2>1, <2>2
  <1>9. CASE Unmoved /\ Silent /\ Elsewhere
    <2>1. generation' # generation => pending = <<>> /\ worker = "top"
      BY <1>9 DEF Elsewhere, Gate, SnapshotBeforeWire
    <2>2. CASE generation' = generation
      BY <1>9, <2>2 DEF Unmoved, Silent, Elsewhere
    <2>3. CASE generation' # generation
      BY <1>9, <2>1, <2>3, EmptyHasNone DEF Unmoved, Silent, Elsewhere
    <2> QED BY <2>2, <2>3
  <1> QED
    BY <1>1, <1>2, <1>3, <1>4, <1>5, <1>6, <1>7, <1>8, <1>9, OthersLeaveCommands DEF Moving

-------------------------------------------------------------------------------
(* The invariant holds, and with it what the session promises.             *)

LEMMA SessionInitially == ASSUME Init PROVE SessionInv
  <1> USE SessionAssumption DEF Init
  <1>0. /\ <<>> \in Seq(Commands) /\ <<>> \in Seq(Nat) /\ Len(<<>>) = 0 /\ MaxPending >= 0
        /\ \A c \in Commands : c > issued
    BY EmptySeq DEF Commands
  <1>1. TypeOK
    <2>1. ThreadsOK
      <3>1. faults \in 0 .. MaxFaults
        OBVIOUS
      <3>2. {link, accepting, refresh, stopping, idleLink} \subseteq BOOLEAN
        OBVIOUS
      <3> QED BY <3>1, <3>2 DEF ThreadsOK, Nothing
    <2>2. QueuesOK
      BY <1>0 DEF QueuesOK
    <2>3. HistoryOK
      BY <1>0 DEF HistoryOK, Kinds, Nothing
    <2> QED BY <2>1, <2>2, <2>3, TypeParts
  <1>2. Whereabouts /\ Gate
    BY DEF Whereabouts, Gate, SnapshotBeforeWire, Serving, Nothing
  <1>3. HeldOnce
    <2>1. Outstanding = {}
      BY <1>0 DEF Outstanding, Commands
    <2> QED BY <2>1, EmptyHasNone DEF HeldOnce
  <1>4. WireInv
    BY EmptyHasNone DEF WireInv, NeverReplayed, TruthfulVerdict
  <1> QED BY <1>1, <1>2, <1>3, <1>4 DEF SessionInv

LEMMA SessionInductive == ASSUME SessionInv, [Next]_vars PROVE SessionInv'
  <1>1. CASE Next
    <2>1. TypeOK /\ Whereabouts /\ Gate /\ HeldOnce /\ WireInv
      BY DEF SessionInv
    <2>2. TypeOK'
      BY <1>1, <2>1, ThreadsInductive, QueuesInductive, HistoryInductive, TypeParts
         DEF TypeOK, ThreadsOK, QueuesOK, HistoryOK
    <2>3. Whereabouts' /\ Gate' /\ HeldOnce' /\ WireInv'
      BY <1>1, <2>1, WhereaboutsInductive, GateInductive, HeldOnceInductive, WireInductive
    <2> QED BY <2>2, <2>3 DEF SessionInv
  <1>2. CASE UNCHANGED vars
    <2>1. TypeOK'
      <3>1. UNCHANGED <<worker, generation, link, accepting, pending, hand, outcome, rejected,
                       refresh, stopping, idle, idleLink, owner, withdrawn, faults,
                       issued, kind, home, sent, answers, verdict, mirrored>>
        BY <1>2 DEF vars
      <3>2. ThreadsOK' /\ QueuesOK' /\ HistoryOK'
        BY <3>1, TypeParts DEF SessionInv, ThreadsOK, QueuesOK, HistoryOK
      <3> QED BY <3>2 DEF TypeOK, ThreadsOK, QueuesOK, HistoryOK
    <2>2. Whereabouts' /\ Gate'
      BY <1>2 DEF vars, SessionInv, Whereabouts, Gate, SnapshotBeforeWire, Serving
    <2>3. HeldOnce'
      BY <1>2 DEF vars, SessionInv, HeldOnce, Outstanding
    <2>4. WireInv'
      BY <1>2 DEF vars, SessionInv, WireInv, NeverReplayed, TruthfulVerdict
    <2> QED BY <2>1, <2>2, <2>3, <2>4 DEF SessionInv
  <1> QED BY <1>1, <1>2

(* The worker of the session, its callers and the connection preserve the  *)
(* inductive invariant (session.cpp, run_commands and the queue it takes   *)
(* commands from), in every interleaving and after every lost connection.  *)
THEOREM SessionSafe == Spec => []SessionInv
  <1>1. Init => SessionInv
    BY SessionInitially
  <1>2. SessionInv /\ [Next]_vars => SessionInv'
    BY SessionInductive
  <1> QED BY <1>1, <1>2, PTL DEF Spec

(* Every command the owner has issued is answered exactly once or is still *)
(* held in exactly one place, for any number of commands, any limit of the *)
(* queue and any pattern of broken connections (finish_command and         *)
(* reject_pending).                                                        *)
THEOREM EveryCommandHasOneAnswer == Spec => []OneAnswer
  <1>1. SessionInv => OneAnswer
    BY HeldOnceIsOneAnswer DEF SessionInv
  <1> QED BY <1>1, SessionSafe, PTL

(* No command is sent twice, or on another connection than the one that    *)
(* accepted it: a mutation whose outcome is unknown is never replayed.     *)
THEOREM NothingIsReplayed == Spec => []NeverReplayed
  <1>1. SessionInv => NeverReplayed
    BY DEF SessionInv, WireInv
  <1> QED BY <1>1, SessionSafe, PTL

(* "Not sent" and "superseded before it started" are said of commands that *)
(* have not reached the wire, and of no others.                            *)
THEOREM VerdictsAreTrue == Spec => []TruthfulVerdict
  <1>1. SessionInv => TruthfulVerdict
    BY DEF SessionInv, WireInv
  <1> QED BY <1>1, SessionSafe, PTL

(* Acceptance begins with the refresh of a connection, before its snapshot *)
(* is published, and ends with the connection; what is accepted earlier    *)
(* than the snapshot is sent later than it (run_commands, enqueue).        *)
THEOREM SnapshotComesFirst == Spec => []SnapshotBeforeWire
  <1>1. SessionInv => SnapshotBeforeWire
    BY DEF SessionInv, Gate
  <1> QED BY <1>1, SessionSafe, PTL
===============================================================================
