----------------------------- MODULE LocalAudition -----------------------------
(***************************************************************************)
(* The player of local files.  One worker thread executes commands, fills  *)
(* the ring between them and publishes a snapshot; the real-time callback  *)
(* of the output takes frames from the ring while the stream is active;    *)
(* devices come and go.  The user issues at most MaxCommands commands, and *)
(* at most MaxFaults calls to the decoder or the output fail.              *)
(*                                                                         *)
(* A command that needs the callback out of the way quiesces the output    *)
(* first (pc "quiesce"), waits for the running callback (pc "quiet") and   *)
(* then does its work.  PipeWire is external: a quiesce that fails is      *)
(* taken to have stopped the callback all the same.                        *)
(***************************************************************************)
EXTENDS LocalPlayback

CONSTANTS
    Quantum,     \* frames one callback asks for at most
    MaxCommands, \* bound on commands and device changes
    MaxFaults,   \* bound on failing calls
    Prompt       \* no callback is suspended while a whole file is opened

ASSUME AuditionAssumption ==
    /\ Quantum \in Nat \ {0}
    /\ MaxCommands \in Nat /\ MaxFaults \in Nat /\ Prompt \in BOOLEAN

VARIABLES
    playback,  \* the loaded source
    worker,    \* what the worker thread is doing
    callback,  \* what the real-time callback is doing
    current,   \* token of the current identity: path, revision, segment
    pending,   \* token of the identity of the continuation
    base,      \* track_base: produced position where the current track began
    output,    \* is an output adapter connected
    active,    \* is its stream active
    available, \* does the chosen device exist
    suspended, \* was the output given up because the device went away
    sticky,    \* has a failure been kept until the next load
    rebuffer,  \* does the configured buffer differ from that of the source
    shown,     \* state of the published snapshot
    heard,     \* the last frame the callback took since the last flush
    orphaned,  \* a committed identity has been dropped (see OrphanIf)
    stalled,   \* a seek has left the stream inactive (see SeekQuiet)
    tokens, commands, faults \* counters behind the bounds

stream == <<output, active, available, suspended>>
identity == <<current, pending, base, orphaned>>
status == <<sticky, rebuffer, stalled>>
counters == <<tokens, commands, faults>>
vars == <<playback, worker, callback, identity, stream, status, shown, heard, counters>>

Idle == [pc |-> "idle", op |-> "none", arg |-> 0, resume |-> FALSE,
         budget |-> 0, saw |-> "none", goal |-> "none"]
Rendering(pc, saw, got, short) == [pc |-> pc, saw |-> saw, got |-> got, short |-> short]
Resting == Rendering("idle", "none", 0, FALSE)

Loaded == playback # NoSource
Longest == CHOOSE n \in Lengths : \A m \in Lengths : m <= n

Fault == faults < MaxFaults /\ faults' = faults + 1 /\ UNCHANGED <<tokens, commands>>
Smooth == UNCHANGED counters

(* How the worker goes on. *)
Goto(pc) == worker' = [worker EXCEPT !.pc = pc]
Does(pc, op) == worker' = [Idle EXCEPT !.pc = pc, !.op = op]
Publishes == Does("publish", "none")
Fails == Does("quiesce", "fail")
Fills == worker' = [worker EXCEPT !.pc = "fill", !.budget = Capacity]

Init ==
    /\ playback = NoSource /\ worker = Idle /\ callback = Resting
    /\ current = 0 /\ pending = 0 /\ base = 0 /\ orphaned = FALSE
    /\ output = FALSE /\ active = FALSE /\ available = TRUE /\ suspended = FALSE
    /\ sticky = FALSE /\ rebuffer = FALSE /\ stalled = FALSE
    /\ shown = "empty" /\ heard = NoFrame
    /\ tokens = 0 /\ commands = 0 /\ faults = 0

-------------------------------------------------------------------------------
(* The identity of what is heard. *)

Crosses == Loaded /\ playback.crossed /\ playback.boundary # NoBoundary
Acknowledged ==
    IF Loaded /\ playback.crossed THEN TakeChainCrossing(playback) ELSE playback

(* The consumer crossed into the continuation: rebase the bookkeeping. *)
NextPending == IF Crosses THEN 0 ELSE pending
RebaseTo(next) ==
    /\ base' = IF Crosses THEN playback.boundary ELSE base
    /\ current' = IF Crosses /\ pending # 0 THEN pending ELSE current
    /\ pending' = next
    /\ orphaned' = (orphaned /\ ~(Crosses /\ pending # 0))

Rebase == RebaseTo(NextPending)

(* A flush or a cleared continuation forgets whose frames follow a         *)
(* boundary that is already committed; so does a refused seek, which       *)
(* forgets the identity of a continuation it leaves queued.                *)
OrphanIf(forgets) == orphaned' = (orphaned \/ forgets)
Committed == Loaded /\ playback.boundary # NoBoundary

Publish ==
    /\ worker.pc = "publish"
    /\ playback' = Acknowledged /\ Rebase
    /\ shown' = IF Loaded THEN playback.state ELSE IF sticky THEN "failed" ELSE "empty"
    /\ worker' = Idle
    /\ UNCHANGED <<callback, stream, status, heard, counters>>

-------------------------------------------------------------------------------
(* The real-time callback. *)

BeginCallback ==
    /\ active /\ callback.pc = "idle" /\ playback.state \in {"playing", "draining"}
    /\ callback' = Rendering("read", playback.state, 0, FALSE)
    /\ UNCHANGED <<playback, worker, identity, stream, status, shown, heard, counters>>

Read ==
    /\ callback.pc = "read"
    /\ \E asked \in 1..Quantum :
          LET got == Smaller(asked, Len(playback.ring))
          IN /\ callback' = Rendering("advance", callback.saw, got, got < asked)
             /\ playback' = [playback EXCEPT !.ring = SubSeq(@, got + 1, Len(@))]
             /\ heard' = IF got > 0 THEN playback.ring[got] ELSE heard
    /\ UNCHANGED <<worker, identity, stream, status, shown, counters>>

(* Mutation: the silence given to a starving device is counted, too. *)
AdvanceBySilence ==
    LET reached == playback.position + (IF callback.short THEN Quantum ELSE callback.got)
        latches == playback.boundary # NoBoundary /\ reached >= playback.boundary
    IN /\ callback.pc = "advance"
       /\ playback' = [playback EXCEPT !.position = reached]
       /\ callback' = [callback EXCEPT !.pc = IF latches THEN "latch" ELSE "finish", !.got = 0]
       /\ UNCHANGED <<worker, identity, stream, status, shown, heard, counters>>

Advance ==
    LET reached == playback.position + callback.got
        latches == playback.boundary # NoBoundary /\ reached >= playback.boundary
    IN /\ callback.pc = "advance"
       /\ playback' = [playback EXCEPT !.position = reached]
       /\ callback' = [callback EXCEPT !.pc = IF latches THEN "latch" ELSE "finish", !.got = 0]
       /\ UNCHANGED <<worker, identity, stream, status, shown, heard, counters>>

Latch ==
    /\ callback.pc = "latch"
    /\ playback' = [playback EXCEPT !.crossed = TRUE]
    /\ callback' = [callback EXCEPT !.pc = "finish"]
    /\ UNCHANGED <<worker, identity, stream, status, shown, heard, counters>>

(* The state the callback leaves, by compare-and-exchange from the one it  *)
(* has seen.                                                               *)
AfterRender ==
    IF callback.saw # playback.state THEN playback.state
    ELSE IF callback.saw = "playing"
           THEN IF callback.short THEN "buffering" ELSE "playing"
           ELSE IF Drained(playback) THEN "ended" ELSE "draining"

FinishCallback ==
    /\ callback.pc = "finish"
    /\ playback' = [playback EXCEPT !.state = AfterRender]
    /\ callback' = Resting
    /\ UNCHANGED <<worker, identity, stream, status, shown, heard, counters>>

Callback == BeginCallback \/ Read \/ Advance \/ Latch \/ FinishCallback

-------------------------------------------------------------------------------
(* Commands, taken from the queue by the idle worker. *)

Command ==
    /\ worker.pc = "idle" /\ commands < MaxCommands
    /\ commands' = commands + 1 /\ UNCHANGED faults

Requested == Command /\ UNCHANGED tokens
RequestedSource == Command /\ tokens < MaxSources /\ tokens' = tokens + 1

Resumes == playback.state \in Active

LoadAndPlay ==
    /\ RequestedSource
    /\ \E length \in Lengths :
          worker' = [Idle EXCEPT !.pc = "quiesce", !.op = "load", !.arg = length]
    /\ shown' = "loading"
    /\ UNCHANGED <<playback, callback, identity, stream, status, heard>>

(* Without an output it is connected first; an ended source starts over. *)
PlayStream ==
    LET op == IF playback.state = "ended" THEN "restart" ELSE "start"
    IN /\ Requested /\ Loaded /\ available
       /\ Does(IF ~output THEN "connect" ELSE IF op = "restart" THEN "quiesce" ELSE "start", op)
       /\ UNCHANGED <<playback, callback, identity, stream, status, shown, heard>>

PauseStream ==
    /\ Requested /\ Loaded
    /\ playback' = Pause(playback)
    /\ Does("quiesce", "pause")
    /\ UNCHANGED <<callback, identity, stream, status, shown, heard>>

StopStream ==
    /\ Requested /\ Loaded
    /\ playback' = Acknowledged /\ Rebase
    /\ Does("quiesce", "stop")
    /\ UNCHANGED <<callback, stream, status, shown, heard>>

(* The target is relative to the track that is current then. *)
SeekStream ==
    /\ Requested /\ Loaded
    /\ playback' = Acknowledged /\ Rebase
    /\ \E target \in 0..Longest :
          worker' = [Idle EXCEPT !.pc = "quiesce", !.op = "seek",
                                 !.arg = base' + target, !.resume = Resumes]
    /\ UNCHANGED <<callback, stream, status, shown, heard>>

ClearSource ==
    /\ Requested /\ Loaded
    /\ Does("quiesce", "clear")
    /\ UNCHANGED <<playback, callback, identity, stream, status, shown, heard>>

(* A committed continuation stays; an unreadable or refused one leaves     *)
(* none, and the caller loads it when the current source has ended.        *)
QueueNextSource ==
    LET p == ClearNext(Acknowledged)
    IN /\ RequestedSource /\ Loaded /\ (Prompt => callback.pc # "latch")
       /\ \/ p.boundary # NoBoundary /\ playback' = Acknowledged /\ Rebase
          \/ /\ p.boundary = NoBoundary /\ available /\ ~rebuffer /\ CanQueueNext(p)
             /\ \E length \in Lengths : playback' = QueueNext(p, tokens', length)
             /\ RebaseTo(tokens')
          \/ p.boundary = NoBoundary /\ playback' = p /\ RebaseTo(0)
       /\ Publishes
       /\ UNCHANGED <<callback, stream, status, shown, heard>>

(* Mutation: the identity is cleared although the frames are committed. *)
ClearNextAlways ==
    /\ Requested /\ Loaded
    /\ playback' = ClearNext(Acknowledged)
    /\ RebaseTo(0)
    /\ Publishes
    /\ UNCHANGED <<callback, stream, status, shown, heard>>

ClearNextSource ==
    LET p == ClearNext(Acknowledged)
    IN /\ Requested /\ Loaded
       /\ playback' = p
       /\ RebaseTo(IF p.boundary # NoBoundary THEN pending ELSE 0)
       /\ Publishes
       /\ UNCHANGED <<callback, stream, status, shown, heard>>

(* A new duration needs a new ring, which the next load allocates. *)
SetBuffer ==
    /\ Requested /\ Loaded
    /\ rebuffer' = ~rebuffer
    /\ \/ /\ rebuffer' /\ playback' = ClearNext(playback)
          /\ pending' = 0 /\ OrphanIf(Committed) /\ UNCHANGED <<current, base>>
       \/ ~rebuffer' /\ UNCHANGED <<playback, identity>>
    /\ Publishes
    /\ UNCHANGED <<callback, stream, sticky, stalled, shown, heard>>

DeviceLost ==
    /\ Requested /\ available /\ available' = FALSE
    /\ \/ /\ Loaded /\ playback' = ClearNext(Pause(playback)) /\ suspended' = TRUE
          /\ pending' = 0 /\ OrphanIf(Committed) /\ UNCHANGED <<current, base>>
       \/ ~Loaded /\ UNCHANGED <<playback, identity, suspended>>
    /\ IF output THEN Does("quiesce", "lost") ELSE Publishes
    /\ UNCHANGED <<callback, output, active, status, shown, heard>>

Recovers == suspended /\ Loaded /\ ~output

DeviceBack ==
    /\ Requested /\ ~available /\ available' = TRUE
    /\ IF Recovers THEN Does("connect", "recover") ELSE Publishes
    /\ UNCHANGED <<playback, callback, identity, output, active, suspended, status, shown, heard>>

(* Another device is chosen. *)
SetTarget ==
    /\ Requested /\ Loaded /\ available' = TRUE
    /\ worker' = [Idle EXCEPT !.pc = "quiesce", !.op = "switch", !.resume = Resumes]
    /\ UNCHANGED <<playback, callback, identity, output, active, suspended, status, shown, heard>>

User ==
    \/ LoadAndPlay \/ PlayStream \/ PauseStream \/ StopStream \/ SeekStream
    \/ ClearSource \/ QueueNextSource \/ ClearNextSource \/ SetBuffer
    \/ DeviceLost \/ DeviceBack \/ SetTarget

-------------------------------------------------------------------------------
(* What the worker does of its own: a command after its quiesce, and the   *)
(* production of frames.                                                   *)

Quiesce ==
    /\ worker.pc = "quiesce"
    /\ active' = FALSE
    /\ \/ Smooth /\ Goto("quiet")
       \/ Fault /\ output /\ worker.op \notin {"fail", "lost"}
             /\ worker' = [Idle EXCEPT !.pc = "quiet", !.op = "fail"]
    /\ UNCHANGED <<playback, callback, identity, output, available, suspended, status, shown, heard>>

Quiet(op) == worker.pc = "quiet" /\ worker.op = op /\ callback.pc = "idle"

(* A source that cannot be opened, or has changed while it was, leaves     *)
(* none loaded.                                                            *)
Load ==
    /\ Quiet("load")
    /\ current' = tokens /\ pending' = 0 /\ base' = 0 /\ orphaned' = FALSE
    /\ output' = FALSE /\ sticky' = FALSE /\ rebuffer' = FALSE /\ stalled' = FALSE
    /\ heard' = NoFrame
    /\ \/ /\ Smooth /\ playback' = Open(tokens, worker.arg) /\ suspended' = ~available
          /\ IF available THEN Does("connect", "start") ELSE Publishes
       \/ Fault /\ playback' = NoSource /\ suspended' = FALSE /\ Fails
    /\ UNCHANGED <<callback, active, available, shown>>

(* Rewinding the decoder may fail. *)
StopQuiet ==
    /\ Quiet("stop")
    /\ \/ Smooth /\ playback' = Stop(playback) /\ Publishes
       \/ Fault /\ playback' = StopFails(playback) /\ Fails
    /\ pending' = 0 /\ base' = 0 /\ OrphanIf(Committed) /\ heard' = NoFrame
    /\ UNCHANGED <<callback, current, stream, status, shown>>

(* The output is activated again only after an accepted seek of a stream   *)
(* that was active before it.                                              *)
SeekQuiet ==
    LET accepted == CanSeek(playback, worker.arg)
        starts == accepted /\ worker.resume /\ output
    IN /\ Quiet("seek")
       /\ \/ /\ accepted /\ Smooth /\ playback' = Seek(playback, worker.arg) /\ heard' = NoFrame
             /\ IF starts THEN Goto("start") ELSE Publishes
          \/ /\ accepted /\ Fault /\ playback' = SeekFails(playback)
             /\ heard' = NoFrame /\ Publishes
          \/ ~accepted /\ Smooth /\ Publishes /\ UNCHANGED <<playback, heard>>
       /\ pending' = 0
       /\ OrphanIf(Committed \/ (~accepted /\ playback.next # NoDecoder))
       /\ stalled' = (~starts /\ playback'.state \in Active)
       /\ UNCHANGED <<callback, current, base, stream, sticky, rebuffer, shown>>

Clear ==
    /\ Quiet("clear") /\ Smooth
    /\ playback' = NoSource /\ output' = FALSE /\ suspended' = FALSE
    /\ current' = 0 /\ pending' = 0 /\ base' = 0 /\ orphaned' = FALSE
    /\ sticky' = FALSE /\ rebuffer' = FALSE /\ stalled' = FALSE /\ heard' = NoFrame
    /\ Publishes
    /\ UNCHANGED <<callback, active, available, shown>>

(* Paused, the device gone, another device chosen, a start over, or the    *)
(* end of the stream published and drained.                                *)
OutputQuiet ==
    /\ worker.op \in {"pause", "lost", "switch", "restart", "ended"} /\ Quiet(worker.op) /\ Smooth
    /\ output' = (output /\ worker.op \notin {"lost", "switch"})
    /\ CASE worker.op = "switch"  -> Goto("connect")
         [] worker.op = "restart" -> Goto("start")
         [] OTHER                 -> Publishes
    /\ UNCHANGED <<playback, callback, identity, active, available, suspended, status, shown, heard>>

Fail ==
    /\ Quiet("fail") /\ Smooth
    /\ playback' = Acknowledged /\ Rebase
    /\ sticky' = TRUE /\ shown' = "failed" /\ worker' = Idle
    /\ UNCHANGED <<callback, stream, rebuffer, stalled, heard>>

Connect ==
    /\ worker.pc = "connect"
    /\ \/ /\ Smooth /\ output' = TRUE /\ suspended' = FALSE
          /\ CASE worker.op = "restart" -> Goto("quiesce")
               [] worker.op = "recover" \/ (worker.op = "switch" /\ ~worker.resume) -> Publishes
               [] OTHER -> Goto("start")
       \/ /\ Fault /\ UNCHANGED <<output, suspended>>
          /\ IF worker.op = "recover" \/ (worker.op = "switch" /\ suspended)
               THEN Publishes ELSE Fails
    /\ UNCHANGED <<playback, callback, identity, active, available, status, shown, heard>>

(* play(), which starts an ended source over by itself and refuses a       *)
(* failed one.                                                             *)
Start ==
    LET over == playback.state = "ended"
    IN /\ worker.pc = "start"
       /\ \/ /\ playback.state # "failed" /\ Smooth /\ playback' = Play(playback) /\ Fills
             /\ base' = IF over /\ worker.op = "restart" THEN 0 ELSE base
          \/ over /\ Fault /\ playback' = StopFails(playback) /\ Fails /\ UNCHANGED base
          \/ playback.state = "failed" /\ Smooth /\ Fails /\ UNCHANGED <<playback, base>>
       /\ heard' = IF over THEN NoFrame ELSE heard
       /\ OrphanIf(over /\ Committed)
       /\ UNCHANGED <<callback, current, pending, stream, status, shown>>

(* Mutation: a stream the callback has ended between two ticks is not      *)
(* looked at again.                                                        *)
ProduceActive ==
    /\ worker.pc = "idle" /\ Loaded /\ output /\ playback.state \in Active
    /\ worker' = [Idle EXCEPT !.pc = "fill", !.op = "tick", !.budget = Capacity]
    /\ Smooth
    /\ UNCHANGED <<playback, callback, identity, stream, status, shown, heard>>

(* Between commands: fill the ring, or drain a stream that has ended. *)
Produce ==
    /\ worker.pc = "idle" /\ Loaded /\ output
    /\ \/ playback.state = "ended" /\ active /\ Does("quiesce", "ended")
       \/ playback.state \in Active
             /\ worker' = [Idle EXCEPT !.pc = "fill", !.op = "tick", !.budget = Capacity]
    /\ Smooth
    /\ UNCHANGED <<playback, callback, identity, stream, status, shown, heard>>

RecoverOutput ==
    /\ worker.pc = "idle" /\ available /\ Recovers /\ Smooth
    /\ Does("connect", "recover")
    /\ UNCHANGED <<playback, callback, identity, stream, status, shown, heard>>

FillLoop ==
    LET frames == Writable(playback, worker.budget)
        stays == frames < Len(playback.chunk) \/ playback.ended
    IN /\ worker.pc = "fill" /\ Smooth
       /\ \/ /\ worker.budget > 0 /\ Len(playback.ring) < Capacity
             /\ playback' = WritePending(playback, frames)
             /\ worker' = [worker EXCEPT !.budget = @ - frames,
                                         !.pc = IF stays THEN "measure" ELSE "decode"]
          \/ /\ worker.budget = 0 \/ Len(playback.ring) = Capacity
             /\ UNCHANGED playback /\ Goto("measure")
       /\ UNCHANGED <<callback, identity, stream, status, shown, heard>>

Decode ==
    LET rest == playback.decoder.length - playback.decoder.at
    IN /\ worker.pc = "decode"
       /\ \/ /\ Smooth /\ \E n \in 1..Smaller(MaxChunk, rest) : playback' = DecodeChunk(playback, n)
             /\ Goto("fill")
          \/ rest = 0 /\ Smooth /\ playback.next # NoDecoder
                /\ playback' = TakeOver(playback) /\ Goto("fill")
          \/ rest = 0 /\ Smooth /\ playback.next = NoDecoder
                /\ playback' = EndSource(playback) /\ Goto("measure")
          \/ Fault /\ playback' = [playback EXCEPT !.state = "failed"] /\ Fails
       /\ UNCHANGED <<callback, identity, stream, status, shown, heard>>

(* The state after a fill: the end of the source is exchanged for the      *)
(* state seen, so that a stream the callback has ended meanwhile stays so. *)
Measure ==
    /\ worker.pc = "measure" /\ Smooth
    /\ \/ /\ playback.ended /\ playback.state \in Active
          /\ worker' = [worker EXCEPT !.pc = "settle", !.saw = playback.state,
                           !.goal = IF Drained(playback) THEN "ended" ELSE "draining"]
          /\ UNCHANGED playback
       \/ /\ ~(playback.ended /\ playback.state \in Active)
          /\ playback' = [playback EXCEPT !.state =
                 IF @ = "buffering" /\ Len(playback.ring) >= Threshold THEN "playing" ELSE @]
          /\ Goto("filled")
    /\ UNCHANGED <<callback, identity, stream, status, shown, heard>>

Settle ==
    /\ worker.pc = "settle" /\ Smooth
    /\ \/ /\ playback.state = worker.saw
          /\ playback' = [playback EXCEPT !.state = worker.goal] /\ Goto("filled")
       \/ playback.state # worker.saw /\ UNCHANGED playback /\ Goto("measure")
    /\ UNCHANGED <<callback, identity, stream, status, shown, heard>>

(* A tick publishes now and then, and always the end. *)
Filled ==
    /\ worker.pc = "filled" /\ worker.op = "tick" /\ Smooth
    /\ IF playback.state = "ended" /\ active THEN Does("quiesce", "ended")
                                            ELSE Publishes \/ worker' = Idle
    /\ UNCHANGED <<playback, callback, identity, stream, status, shown, heard>>

Activate ==
    /\ worker.pc = "filled" /\ worker.op # "tick"
    /\ \/ Smooth /\ active' = TRUE /\ stalled' = FALSE /\ Publishes
       \/ Fault /\ Fails /\ UNCHANGED <<active, stalled>>
    /\ UNCHANGED <<playback, callback, identity, output, available, suspended,
                   sticky, rebuffer, shown, heard>>

Worker ==
    \/ Publish \/ Quiesce \/ Load \/ StopQuiet \/ SeekQuiet \/ Clear \/ OutputQuiet \/ Fail
    \/ Connect \/ Start \/ Produce \/ RecoverOutput \/ FillLoop \/ Decode \/ Measure
    \/ Settle \/ Filled \/ Activate

Next == User \/ Worker \/ Callback

Spec == Init /\ [][Next]_vars

(* The worker thread and, while the stream is active, the device run on. *)
FairSpec == Spec /\ WF_vars(Worker) /\ WF_vars(Callback)

-------------------------------------------------------------------------------
(* Properties. *)

FrameType == [token : Tokens \cup {0}, at : Nat, last : BOOLEAN]
SourceType ==
    [state : PlaybackStates, ring : Seq(FrameType), chunk : Seq(FrameType),
     decoder : [token : Tokens, length : Lengths, at : 0..Longest],
     next : [token : Tokens \cup {0}, length : Lengths \cup {0}, at : {0}],
     offset : Nat, produced : Nat, position : Nat, boundary : Nat,
     crossed : BOOLEAN, ended : BOOLEAN]

TypeOK ==
    /\ playback \in SourceType \cup {NoSource}
    /\ Loaded => Len(playback.ring) <= Capacity /\ Len(playback.chunk) <= MaxChunk
    /\ callback.pc \in {"idle", "read", "advance", "latch", "finish"} /\ callback.got \in 0..Quantum
    /\ {current, pending} \subseteq Tokens \cup {0} /\ base \in Nat
    /\ {output, active, available, suspended, sticky, rebuffer, stalled, orphaned} \subseteq BOOLEAN
    /\ active => output
    /\ tokens \in 0..MaxSources /\ commands \in 0..MaxCommands /\ faults \in 0..MaxFaults

AtRest == Loaded /\ worker.pc = "idle" /\ callback.pc = "idle"

(* The source of the next frame to be heard. *)
Audible ==
    IF playback.ring # <<>> THEN playback.ring[1].token
    ELSE IF playback.chunk # <<>> THEN playback.chunk[1].token ELSE playback.decoder.token

(* The published track is the one being heard: a continuation becomes      *)
(* current when the consumer reaches its first frame, not when its decoder *)
(* takes over, and until then its identity waits beside the current one.   *)
IdentityFollowsSound ==
    AtRest /\ ~orphaned =>
        IF Committed /\ playback.position >= playback.boundary
          THEN pending = Audible
          ELSE /\ current = Audible
               /\ Committed => pending = playback.decoder.token

(* No frame is lost, invented or counted twice: what has been decoded has  *)
(* been heard or waits in the ring or the chunk, so that silence given to  *)
(* a starving device does not advance the position.  A decoder that could  *)
(* not be rewound leaves the position of the flushed frames behind.        *)
PositionCountsFrames ==
    Loaded /\ playback.state # "failed" =>
        playback.position + callback.got + Len(playback.ring) + Len(playback.chunk)
            = playback.produced

(* Gapless: between two flushes the callback takes every frame of a source *)
(* in order, and after its last one the first of the continuation.         *)
Follows(frame, before) ==
    IF before.last THEN frame.at = 0 /\ frame.token # before.token
                   ELSE frame.token = before.token /\ frame.at = before.at + 1
Gapless ==
    [][heard' # heard /\ heard # NoFrame /\ heard' # NoFrame
         => Follows(playback.ring[1], heard)]_vars

(* A stream that plays is published as paused, ended, failed, or replaced  *)
(* in the end: no snapshot stays at playing or draining for ever.          *)
EveryStreamEnds ==
    shown \in Active ~> shown \notin Active \/ sticky \/ stalled
===============================================================================
