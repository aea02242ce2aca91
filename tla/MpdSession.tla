----------------------------- MODULE MpdSession -----------------------------
(***************************************************************************)
(* The client session with an MPD server (src/src/mpd/src/session.cpp):    *)
(* two worker threads and the thread that owns the session.                *)
(*                                                                         *)
(*   command worker   connects, refreshes the mirrored snapshot, executes  *)
(*                    queued commands one at a time, sleeps on `wake'      *)
(*   idle worker      a second connection that waits for server events and *)
(*                    posts refresh requests to the command worker         *)
(*   owner            enqueues, cancels, asks for refreshes, destroys      *)
(*                                                                         *)
(* Every connection attempt of the command worker starts a generation.     *)
(* `wake_mutex' guards `accepting' and `pending' only: the refresh mask    *)
(* and the stop flag are atomics that are set without it.  A worker that   *)
(* found nothing to do under the mutex is "dozing" until it is blocked on  *)
(* the condition variable ("asleep"); a notification in between is lost.   *)
(*                                                                         *)
(* Abstracted: what a command does and what a refresh reads (MpdQueueMirror*)
(* models the queue), the refresh mask (one flag), the backoff delays.     *)
(***************************************************************************)
EXTENDS Naturals, Sequences, FiniteSets

CONSTANTS
  MaxCommands,  \* bound: commands the owner issues
  MaxPending,   \* maximum_pending_commands
  MaxFaults     \* bound: broken connections and failed connection attempts

ASSUME SessionAssumption ==
  MaxCommands \in Nat /\ MaxPending \in Nat \ {0} /\ MaxFaults \in Nat

Commands == 1 .. MaxCommands
Kinds == {"mutation", "query"}
Nothing == 0

VARIABLES
  worker,      \* where the command worker is
  generation,  \* active_generation
  link,        \* is the command worker's connection usable?
  accepting,   \* accepting_commands
  pending,     \* pending_commands
  hand,        \* the command taken from the queue, or Nothing
  outcome,     \* how its execution ended
  rejected,    \* the queue reject_pending has swapped out
  refresh,     \* pending_refresh # 0
  stopping,    \* stopping, both stop tokens and the cancellation token
  idle,        \* where the idle worker is
  idleLink,    \* is its connection usable?
  owner,       \* where the owner's thread is
  withdrawn,   \* the command cancel_pending took out of the queue, or Nothing
  faults,
  \* What the session has told its callbacks and the server:
  issued,      \* next_command_id - 1
  kind,        \* kind of each issued command
  home,        \* the generation that accepted it; Nothing if none did
  sent,        \* the generations it was sent in
  answers,     \* how often command_finished was called for it
  verdict,     \* what the last answer said
  mirrored     \* the generation of the last published snapshot

vars == <<worker, generation, link, accepting, pending, hand, outcome, rejected,
          refresh, stopping, idle, idleLink, owner, withdrawn, faults,
          issued, kind, home, sent, answers, verdict, mirrored>>

history == <<issued, kind, home, sent, answers, verdict, mirrored>>
idleVars == <<idle, idleLink>>
ownerVars == <<owner, withdrawn>>
queueVars == <<accepting, pending>>

Init ==
  /\ worker = "top" /\ generation = 0 /\ link = FALSE
  /\ accepting = FALSE /\ pending = <<>> /\ hand = Nothing
  /\ outcome = "none" /\ rejected = <<>>
  /\ refresh = TRUE /\ stopping = FALSE
  /\ idle = "top" /\ idleLink = FALSE
  /\ owner = "free" /\ withdrawn = Nothing /\ faults = 0
  /\ issued = 0
  /\ kind = [c \in Commands |-> "query"]
  /\ home = [c \in Commands |-> Nothing]
  /\ sent = [c \in Commands |-> <<>>]
  /\ answers = [c \in Commands |-> 0]
  /\ verdict = [c \in Commands |-> "none"]
  /\ mirrored = Nothing

-----------------------------------------------------------------------------
(* The mutex, the condition variable and the command queue                  *)

\* The mutex is free: the worker that has found its predicate false keeps it
\* until it blocks.  Every other critical section is a single step.
Unlocked == worker # "dozing"

\* Mutation: the notification goes to another waiter.
NotifyOther == UNCHANGED worker

\* wake.notify_all as the command worker sees it: only a blocked one hears it.
NotifyAll == worker' = IF worker = "asleep" THEN "checking" ELSE worker

\* The condition the command worker sleeps on.
HasWork(queue) == stopping \/ refresh \/ queue # <<>>

IsQuery(c) == kind[c] = "query"

\* Where a mutation goes: before the first query that waits.
FirstQuery(queue) ==
  CHOOSE i \in 1 .. Len(queue) + 1 :
    /\ i <= Len(queue) => IsQuery(queue[i])
    /\ \A j \in 1 .. i - 1 : ~IsQuery(queue[j])

\* The queue after enqueue has put command c of kind k into it.
Inserted(queue, c, k) ==
  LET at == IF k = "query" THEN Len(queue) + 1 ELSE FirstQuery(queue)
  IN  SubSeq(queue, 1, at - 1) \o <<c>> \o SubSeq(queue, at, Len(queue))

\* command_finished for c.
Finish(c, says) ==
  /\ answers' = [answers EXCEPT ![c] = @ + 1]
  /\ verdict' = [verdict EXCEPT ![c] = says]

\* Mutation: what waited is kept for the next connection.
KeepPending ==
  /\ accepting' = FALSE
  /\ rejected' = <<>>
  /\ UNCHANGED pending

\* reject_pending, its critical section: nothing is accepted any more, and
\* what waited is taken out to be answered outside the lock.
SwapOut ==
  /\ accepting' = FALSE
  /\ rejected' = pending
  /\ pending' = <<>>

-----------------------------------------------------------------------------
(* The command worker                                                       *)

\* Outer loop: stop, or start the next generation.
NextAttempt ==
  /\ worker = "top"
  /\ IF stopping
     THEN worker' = "draining" /\ UNCHANGED generation
     ELSE worker' = "connecting" /\ generation' = generation + 1
  /\ UNCHANGED <<link, accepting, pending, hand, outcome, rejected, refresh,
                 stopping, idleVars, ownerVars, faults, history>>

\* Mutation: commands are accepted as soon as the connection stands.
ConnectedAndOpen ==
  /\ worker = "connecting"
  /\ link' = TRUE /\ refresh' = TRUE /\ accepting' = TRUE
  /\ worker' = "serving"
  /\ UNCHANGED <<generation, pending, hand, outcome, rejected,
                 stopping, idleVars, ownerVars, faults, history>>

Connected ==
  /\ worker = "connecting"
  /\ link' = TRUE
  /\ refresh' = TRUE
  /\ worker' = "serving"
  /\ UNCHANGED <<generation, accepting, pending, hand, outcome, rejected,
                 stopping, idleVars, ownerVars, faults, history>>

ConnectFails ==
  /\ worker = "connecting" /\ faults < MaxFaults
  /\ faults' = faults + 1
  /\ worker' = "backoff"
  /\ UNCHANGED <<generation, link, accepting, pending, hand, outcome, rejected,
                 refresh, stopping, idleVars, ownerVars, history>>

\* wait_before_reconnect: ends at its deadline or when the session stops.
BackoffEnds ==
  /\ worker = "backoff"
  /\ worker' = IF stopping THEN "draining" ELSE "top"
  /\ UNCHANGED <<generation, link, accepting, pending, hand, outcome, rejected,
                 refresh, stopping, idleVars, ownerVars, faults, history>>

\* Head of the inner loop: stop, or take the refresh mask.
Serve ==
  /\ worker = "serving"
  /\ IF stopping
     THEN worker' = "draining" /\ UNCHANGED refresh
     ELSE /\ worker' = IF refresh THEN "refreshing" ELSE "taking"
          /\ refresh' = FALSE
  /\ UNCHANGED <<generation, link, accepting, pending, hand, outcome, rejected,
                 stopping, idleVars, ownerVars, faults, history>>

\* The refresh has succeeded: commands are accepted under the mutex, and only
\* then is the snapshot handed to the callback, without it.
OpenQueue ==
  /\ worker = "refreshing" /\ link
  /\ accepting' = TRUE
  /\ worker' = "publishing"
  /\ UNCHANGED <<generation, link, pending, hand, outcome, rejected, refresh,
                 stopping, idleVars, ownerVars, faults, history>>

Publish ==
  /\ worker = "publishing"
  /\ mirrored' = generation
  /\ worker' = "taking"
  /\ UNCHANGED <<generation, link, queueVars, hand, outcome, rejected, refresh,
                 stopping, idleVars, ownerVars, faults, issued, kind, home,
                 sent, answers, verdict>>

RefreshFails ==
  /\ worker = "refreshing" /\ ~link
  /\ worker' = "losing"
  /\ UNCHANGED <<generation, link, accepting, pending, hand, outcome, rejected,
                 refresh, stopping, idleVars, ownerVars, faults, history>>

\* Mutation: the command stays in the queue while it runs.
PeekCommand ==
  /\ worker = "taking"
  /\ IF pending = <<>>
     THEN worker' = "checking" /\ UNCHANGED hand
     ELSE hand' = Head(pending) /\ worker' = "executing"
  /\ UNCHANGED <<generation, link, queueVars, outcome, rejected, refresh,
                 stopping, idleVars, ownerVars, faults, history>>

TakeCommand ==
  /\ worker = "taking"
  /\ IF pending = <<>>
     THEN worker' = "checking" /\ UNCHANGED <<pending, hand>>
     ELSE /\ hand' = Head(pending)
          /\ pending' = Tail(pending)
          /\ worker' = "executing"
  /\ UNCHANGED <<generation, link, accepting, outcome, rejected, refresh,
                 stopping, idleVars, ownerVars, faults, history>>

\* execute: the command is on the wire.  The server carries it out or refuses
\* it; on a broken connection nobody knows whether it was carried out.
Execute ==
  /\ worker = "executing"
  /\ sent' = [sent EXCEPT ![hand] = Append(@, generation)]
  /\ outcome' = IF link THEN "replied" ELSE "unknown"
  /\ worker' = "answering"
  /\ UNCHANGED <<generation, link, accepting, pending, hand, rejected, refresh,
                 stopping, idleVars, ownerVars, faults, issued, kind, home,
                 answers, verdict, mirrored>>

\* The answer, and the refresh the command or its refusal asks for.  An
\* outcome that leaves the connection's state unknown ends the generation.
Answer ==
  /\ worker = "answering"
  /\ Finish(hand, outcome)
  /\ hand' = Nothing
  /\ outcome' = "none"
  /\ IF outcome = "unknown"
     THEN worker' = "losing" /\ UNCHANGED refresh
     ELSE worker' = "serving" /\ refresh' \in {refresh, TRUE}
  /\ UNCHANGED <<generation, link, accepting, pending, rejected, stopping,
                 idleVars, ownerVars, faults, issued, kind, home, sent,
                 mirrored>>

\* The generation is over: what still waits was not sent.
LoseConnection ==
  /\ worker = "losing"
  /\ SwapOut
  /\ link' = FALSE
  /\ worker' = "rejecting"
  /\ UNCHANGED <<generation, hand, outcome, refresh, stopping, idleVars,
                 ownerVars, faults, history>>

\* The final reject_pending, once the session stops.
Drain ==
  /\ worker = "draining"
  /\ SwapOut
  /\ link' = FALSE
  /\ worker' = "parting"
  /\ UNCHANGED <<generation, hand, outcome, refresh, stopping, idleVars,
                 ownerVars, faults, history>>

\* reject_pending answers the commands one by one, outside the lock.
RejectNext ==
  /\ worker \in {"rejecting", "parting"}
  /\ rejected # <<>>
  /\ Finish(Head(rejected), "unsent")
  /\ rejected' = Tail(rejected)
  /\ UNCHANGED <<worker, generation, link, accepting, pending, hand, outcome,
                 refresh, stopping, idleVars, ownerVars, faults, issued, kind,
                 home, sent, mirrored>>

RejectedAll ==
  /\ worker \in {"rejecting", "parting"}
  /\ rejected = <<>>
  /\ worker' = IF worker = "rejecting" THEN "backoff" ELSE "stopped"
  /\ UNCHANGED <<generation, link, accepting, pending, hand, outcome, rejected,
                 refresh, stopping, idleVars, ownerVars, faults, history>>

\* wake.wait: the predicate is evaluated with the mutex held.
CheckForWork ==
  /\ worker = "checking"
  /\ worker' = IF HasWork(pending) THEN "serving" ELSE "dozing"
  /\ UNCHANGED <<generation, link, accepting, pending, hand, outcome, rejected,
                 refresh, stopping, idleVars, ownerVars, faults, history>>

FallAsleep ==
  /\ worker = "dozing"
  /\ worker' = "asleep"
  /\ UNCHANGED <<generation, link, accepting, pending, hand, outcome, rejected,
                 refresh, stopping, idleVars, ownerVars, faults, history>>

\* Nothing promises a spurious wakeup, and nothing forbids it.
SpuriousWakeup ==
  /\ worker = "asleep"
  /\ worker' = "checking"
  /\ UNCHANGED <<generation, link, accepting, pending, hand, outcome, rejected,
                 refresh, stopping, idleVars, ownerVars, faults, history>>

CommandWorker ==
  \/ NextAttempt \/ Connected \/ ConnectFails \/ BackoffEnds
  \/ Serve \/ OpenQueue \/ Publish \/ RefreshFails
  \/ TakeCommand \/ Execute \/ Answer
  \/ LoseConnection \/ Drain \/ RejectNext \/ RejectedAll
  \/ CheckForWork \/ FallAsleep

-----------------------------------------------------------------------------
(* The idle worker                                                          *)

IdleStops ==
  /\ idle = "top" /\ stopping
  /\ idle' = "stopped"
  /\ UNCHANGED <<worker, generation, link, queueVars, hand, outcome, rejected,
                 refresh, stopping, idleLink, ownerVars, faults, history>>

IdleConnected ==
  /\ idle = "top" /\ ~stopping
  /\ idleLink' = TRUE
  /\ idle' = "waiting"
  /\ UNCHANGED <<worker, generation, link, queueVars, hand, outcome, rejected,
                 refresh, stopping, ownerVars, faults, history>>

IdleConnectFails ==
  /\ idle = "top" /\ ~stopping /\ faults < MaxFaults
  /\ faults' = faults + 1
  /\ idle' = "backoff"
  /\ UNCHANGED <<worker, generation, link, queueVars, hand, outcome, rejected,
                 refresh, stopping, idleLink, ownerVars, history>>

\* The server reports events: request() sets the mask, and will notify.
IdleEvent ==
  /\ idle = "waiting" /\ idleLink
  /\ refresh' = TRUE
  /\ idle' = "posted"
  /\ UNCHANGED <<worker, generation, link, queueVars, hand, outcome, rejected,
                 stopping, idleLink, ownerVars, faults, history>>

\* The connection broke or the wait was cancelled: ask for a full refresh.
IdleLost ==
  /\ idle = "waiting" /\ (~idleLink \/ stopping)
  /\ refresh' = TRUE
  /\ idleLink' = FALSE
  /\ idle' = "lost"
  /\ UNCHANGED <<worker, generation, link, queueVars, hand, outcome, rejected,
                 stopping, ownerVars, faults, history>>

\* The second half of request().
IdleNotify ==
  /\ idle \in {"posted", "lost"}
  /\ NotifyAll
  /\ idle' = IF stopping THEN "stopped"
             ELSE IF idle = "posted" THEN "waiting" ELSE "backoff"
  /\ UNCHANGED <<generation, link, queueVars, hand, outcome, rejected, refresh,
                 stopping, idleLink, ownerVars, faults, history>>

IdleBackoffEnds ==
  /\ idle = "backoff"
  /\ idle' = IF stopping THEN "stopped" ELSE "top"
  /\ UNCHANGED <<worker, generation, link, queueVars, hand, outcome, rejected,
                 refresh, stopping, idleLink, ownerVars, faults, history>>

IdleWorker ==
  \/ IdleStops \/ IdleConnected \/ IdleConnectFails
  \/ IdleLost \/ IdleNotify \/ IdleBackoffEnds

-----------------------------------------------------------------------------
(* The owner: the thread that calls the session's methods                   *)

\* No connection to act on, or a full queue.
Refuses == ~accepting \/ Len(pending) >= MaxPending

\* enqueue: refused at once, or put into the queue with a notification to come.
Enqueue(k) ==
  LET c == issued + 1 IN
  /\ owner = "free" /\ issued < MaxCommands /\ Unlocked
  /\ issued' = c
  /\ kind' = [kind EXCEPT ![c] = k]
  /\ IF Refuses
     THEN /\ Finish(c, "unsent")
          /\ UNCHANGED <<pending, home, owner>>
     ELSE /\ pending' = Inserted(pending, c, k)
          /\ home' = [home EXCEPT ![c] = generation]
          /\ owner' = "notifying"
          /\ UNCHANGED <<answers, verdict>>
  /\ UNCHANGED <<worker, generation, link, accepting, hand, outcome, rejected,
                 refresh, stopping, idleVars, withdrawn, faults, sent, mirrored>>

\* request_full_refresh: the mask is set without the mutex.
RequestRefresh ==
  /\ owner = "free"
  /\ refresh' = TRUE
  /\ owner' = "notifying"
  /\ UNCHANGED <<worker, generation, link, queueVars, hand, outcome, rejected,
                 stopping, idleVars, withdrawn, faults, history>>

OwnerNotify ==
  /\ owner \in {"notifying", "destroying"}
  /\ NotifyAll
  /\ owner' = IF owner = "notifying" THEN "free" ELSE "joining"
  /\ UNCHANGED <<generation, link, queueVars, hand, outcome, rejected, refresh,
                 stopping, idleVars, withdrawn, faults, history>>

\* Mutation: the withdrawn command stays in the queue.
CancelCopy(c) ==
  /\ owner = "free" /\ Unlocked
  /\ \E i \in 1 .. Len(pending) : pending[i] = c
  /\ withdrawn' = c
  /\ owner' = "withdrawing"
  /\ UNCHANGED <<worker, generation, link, queueVars, hand, outcome, rejected,
                 refresh, stopping, idleVars, faults, history>>

\* cancel_pending: only a command that still waits can be withdrawn.
CancelPending(c) ==
  /\ owner = "free" /\ Unlocked
  /\ \E i \in 1 .. Len(pending) :
       /\ pending[i] = c
       /\ pending' = SubSeq(pending, 1, i - 1) \o SubSeq(pending, i + 1, Len(pending))
  /\ withdrawn' = c
  /\ owner' = "withdrawing"
  /\ UNCHANGED <<worker, generation, link, accepting, hand, outcome, rejected,
                 refresh, stopping, idleVars, faults, history>>

AnswerWithdrawn ==
  /\ owner = "withdrawing"
  /\ Finish(withdrawn, "unsent")
  /\ withdrawn' = Nothing
  /\ owner' = "free"
  /\ UNCHANGED <<worker, generation, link, queueVars, hand, outcome, rejected,
                 refresh, stopping, idleVars, faults, issued, kind, home, sent,
                 mirrored>>

\* ~Impl: both stop flags and the cancellation, again without the mutex.
Destroy ==
  /\ owner = "free"
  /\ stopping' = TRUE
  /\ owner' = "destroying"
  /\ UNCHANGED <<worker, generation, link, queueVars, hand, outcome, rejected,
                 refresh, idleVars, withdrawn, faults, history>>

\* The jthread members join both workers.
Joined ==
  /\ owner = "joining" /\ idle = "stopped" /\ worker = "stopped"
  /\ owner' = "gone"
  /\ UNCHANGED <<worker, generation, link, queueVars, hand, outcome, rejected,
                 refresh, stopping, idleVars, withdrawn, faults, history>>

Owner ==
  \/ \E k \in Kinds : Enqueue(k)
  \/ \E c \in Commands : CancelPending(c)
  \/ RequestRefresh \/ OwnerNotify \/ AnswerWithdrawn \/ Destroy \/ Joined

-----------------------------------------------------------------------------
(* The server and the network                                               *)

\* One connection breaks, or a restarted daemon closes both.
Break ==
  /\ faults < MaxFaults /\ (link \/ idleLink)
  /\ faults' = faults + 1
  /\ \/ link' = FALSE /\ UNCHANGED idleLink
     \/ idleLink' = FALSE /\ UNCHANGED link
     \/ link' = FALSE /\ idleLink' = FALSE
  /\ UNCHANGED <<worker, generation, queueVars, hand, outcome, rejected,
                 refresh, stopping, idle, ownerVars, history>>

\* The destroyed session.
Ended ==
  /\ owner = "gone"
  /\ UNCHANGED vars

Next ==
  \/ CommandWorker \/ SpuriousWakeup
  \/ IdleWorker \/ IdleEvent
  \/ Owner \/ Break \/ Ended

Spec == Init /\ [][Next]_vars

\* Threads run until they block; nobody must call a method, the server need
\* not change, and nothing promises a spurious wakeup.
Fairness ==
  /\ WF_vars(CommandWorker)
  /\ WF_vars(IdleWorker)
  /\ WF_vars(OwnerNotify \/ AnswerWithdrawn \/ Joined)

FairSpec == Spec /\ Fairness

-----------------------------------------------------------------------------
(* Properties                                                               *)

\* Every variable has the type the code gives it, and the queue its limit.
TypeOK ==
  /\ worker \in {"top", "connecting", "backoff", "serving", "refreshing",
                 "publishing", "taking", "executing", "answering", "losing", "draining",
                 "rejecting", "parting", "checking", "dozing", "asleep", "stopped"}
  /\ generation \in Nat /\ mirrored \in Nat
  /\ link \in BOOLEAN /\ accepting \in BOOLEAN
  /\ pending \in Seq(Commands) /\ Len(pending) <= MaxPending
  /\ rejected \in Seq(Commands)
  /\ hand \in Commands \cup {Nothing} /\ withdrawn \in Commands \cup {Nothing}
  /\ outcome \in {"none", "replied", "unknown"}
  /\ refresh \in BOOLEAN /\ stopping \in BOOLEAN
  /\ idle \in {"top", "waiting", "posted", "lost", "backoff", "stopped"}
  /\ idleLink \in BOOLEAN
  /\ owner \in {"free", "notifying", "withdrawing", "destroying", "joining", "gone"}
  /\ faults \in 0 .. MaxFaults
  /\ issued \in 0 .. MaxCommands
  /\ kind \in [Commands -> Kinds]
  /\ home \in [Commands -> Nat]
  /\ sent \in [Commands -> Seq(Nat)]
  /\ answers \in [Commands -> Nat]
  /\ verdict \in [Commands -> {"none", "replied", "unknown", "unsent"}]

\* How many places of the session hold c.
Places(queue, c) == Cardinality({i \in 1 .. Len(queue) : queue[i] = c})
Custody(c) ==
  Places(pending, c) + Places(rejected, c)
    + (IF hand = c THEN 1 ELSE 0) + (IF withdrawn = c THEN 1 ELSE 0)

\* Every command the owner issued is answered exactly once or is still held in
\* exactly one place, whatever mix of execution, refusal, cancellation,
\* disconnection and shutdown it meets (finish_command and reject_pending).
OneAnswer ==
  \A c \in 1 .. issued : answers[c] + Custody(c) = 1

\* A command is sent at most once, and only on the connection of the generation
\* that accepted it: nothing queued survives into a new generation, so a
\* mutation whose outcome is unknown is never replayed.
NeverReplayed ==
  \A c \in Commands : sent[c] = <<>> \/ sent[c] = <<home[c]>>

\* "Queued commands were not sent" and "superseded before it started" are true:
\* what is rejected or withdrawn has not reached the wire, and what has reached
\* it is answered with the server's reply or with the failure of its connection.
TruthfulVerdict ==
  \A c \in Commands :
    verdict[c] # "none" => (verdict[c] = "unsent" <=> sent[c] = <<>>)

\* The worker serves a connection it does not know to be lost.
Serving ==
  worker \in {"serving", "refreshing", "publishing", "taking", "executing",
             "answering", "checking", "dozing", "asleep"}

\* Acceptance stands right before the snapshot of its connection and the wire
\* behind it: an observer that reacts to a snapshot is not refused for want of
\* a connection, as long as the worker does not know it to be lost; nothing is
\* accepted before the refresh of its connection has succeeded or waits across
\* connections; and no command is sent before the snapshot is published, even
\* if it was accepted in between, by somebody who still saw an earlier one.
SnapshotBeforeWire ==
  /\ Serving /\ mirrored = generation => accepting
  /\ accepting => mirrored = generation \/ worker = "publishing"
  /\ pending # <<>> => accepting
  /\ hand # Nothing => mirrored = generation

\* Every command the owner issues is answered in the end: no wakeup the queue
\* depends on is lost, and no disconnection or shutdown strands a command.
\* (The owner issues finitely many here, and an answer cannot be taken back.)
EveryCommandAnswered ==
  []<>(\A c \in 1 .. issued : answers[c] > 0)
=============================================================================
