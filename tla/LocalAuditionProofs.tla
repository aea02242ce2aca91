------------------------- MODULE LocalAuditionProofs --------------------------
(***************************************************************************)
(* Proofs about the player of local files: that every decoded frame is     *)
(* heard once and in order, that the position counts what was heard, and   *)
(* that the published identity is that of the sound.                       *)
(*                                                                         *)
(* AuditionInv says what the worker and the callback may be doing to the   *)
(* source between them, and that the frames of the ring and the chunk are  *)
(* a contiguous piece of what has been decoded, right after the last frame *)
(* heard.  IdentityInv adds whose frames they are.                         *)
(***************************************************************************)
EXTENDS LocalAudition, SequenceTheorems, TLAPS

(* The frames that wait, as one queue: item 0 is the last frame heard.     *)
Waits(p) == Len(p.ring) + Len(p.chunk)
Item(ring, chunk, h, i) ==
    IF i = 0 THEN h ELSE IF i <= Len(ring) THEN ring[i] ELSE chunk[i - Len(ring)]
At(p, h, i) == Item(p.ring, p.chunk, h, i)

(* Types of the source, and how its counters hang together: frames are     *)
(* produced from the offset of the active decoder on, a continuation is    *)
(* another occurrence, and it is not queued behind a committed boundary.   *)
GoodSource(p, t) ==
    /\ p \in SourceType /\ Len(p.ring) <= Capacity /\ Len(p.chunk) <= MaxChunk
    /\ p.decoder.at <= p.decoder.length /\ p.decoder.token <= t
    /\ p.next # NoDecoder =>
          /\ p.next.token \in Tokens /\ p.next.length \in Lengths
          /\ p.next.token <= t /\ p.next.token # p.decoder.token /\ p.boundary = NoBoundary
    /\ p.state # "failed" => p.produced = p.offset + p.decoder.at
    /\ p.boundary <= p.produced

(* Nothing decoded is lost: heard, being heard, or waiting. *)
Counted(p, got) ==
    (p.state # "failed" \/ p.boundary # NoBoundary) =>
        p.position + got + Waits(p) = p.produced

(* The decoder is about to give the frame that follows this one. *)
Reaches(d, frame) ==
    IF d.at = 0 THEN frame.last /\ frame.token # d.token
    ELSE frame.token = d.token /\ frame.at + 1 = d.at /\ frame.last = (d.at = d.length)

(* Every waiting frame follows the one before it, and the decoder the last. *)
Chained(p, h) ==
    /\ \A i \in 1..Waits(p) : At(p, h, i).token \in Tokens
    /\ \A i \in 0..Waits(p) : At(p, h, i) # NoFrame =>
          IF i < Waits(p) THEN Follows(At(p, h, i + 1), At(p, h, i))
          ELSE Reaches(p.decoder, At(p, h, i))

WPCs == {"idle", "publish", "quiesce", "quiet", "connect", "start", "fill", "decode",
         "measure", "settle", "filled"}
WOps == {"none", "fail", "load", "start", "restart", "pause", "stop", "seek", "clear",
         "lost", "recover", "switch", "ended", "tick"}
WorkerType == [pc : WPCs, op : WOps, arg : Nat, resume : BOOLEAN, budget : 0..Capacity,
               saw : PlaybackStates \cup {"none"}, goal : {"none", "ended", "draining"}]
CallbackType == [pc : {"idle", "read", "advance", "latch", "finish"},
                 saw : {"none", "playing", "draining"}, got : 0..Quantum, short : BOOLEAN]

(* What the worker relies on from one step of a command to the next. *)
WorkerRight ==
    /\ worker.pc \in {"connect", "start", "fill", "decode", "measure", "settle", "filled"} => Loaded
    /\ worker.pc \in {"quiesce", "quiet"} /\ worker.op \in {"stop", "seek", "switch", "restart"} => Loaded
    /\ worker.pc \in {"quiesce", "quiet"} /\ worker.op = "load" => tokens \in Tokens /\ worker.arg \in Lengths
    /\ worker.pc \in {"quiesce", "quiet"} /\ worker.op = "restart" => output
    /\ worker.pc \in {"start", "fill", "decode", "measure", "settle", "filled"} => output
    /\ worker.pc = "quiet" => ~active
    /\ worker.pc = "connect" => ~active
    /\ worker.pc \in {"fill", "decode"} => playback.state # "failed"
    /\ worker.pc = "decode" => playback.chunk = <<>>
    /\ worker.pc = "settle" => worker.saw \in Active /\ worker.goal # "none"
    /\ worker.pc = "start" /\ playback.state = "ended" => callback.pc = "idle"

(* A callback runs on a loaded source, and while the stream is active or   *)
(* the worker waits for it to return.                                      *)
CallbackRight ==
    /\ callback.pc # "idle" => Loaded /\ (active \/ worker.pc = "quiet")
    /\ callback.pc # "idle" => callback.saw # "none"
    /\ callback.got # 0 => callback.pc = "advance"

SourceRight ==
    Loaded => GoodSource(playback, tokens) /\ Counted(playback, callback.got) /\ Chained(playback, heard)

IdentityTyped ==
    /\ current \in Tokens \cup {0} /\ pending \in Tokens \cup {0} /\ base \in Nat
    /\ orphaned \in BOOLEAN
StreamTyped ==
    /\ output \in BOOLEAN /\ active \in BOOLEAN /\ available \in BOOLEAN /\ suspended \in BOOLEAN
    /\ active => output
StatusTyped == sticky \in BOOLEAN /\ rebuffer \in BOOLEAN /\ stalled \in BOOLEAN
CountersTyped ==
    tokens \in 0..MaxSources /\ commands \in 0..MaxCommands /\ faults \in 0..MaxFaults

RestTyped == IdentityTyped /\ StreamTyped /\ StatusTyped /\ CountersTyped

Typed ==
    /\ playback \in SourceType \cup {NoSource} /\ heard \in FrameType
    /\ worker \in WorkerType /\ callback \in CallbackType
    /\ RestTyped

AuditionInv == Typed /\ WorkerRight /\ CallbackRight /\ SourceRight

(* Whose frames wait: beyond a committed boundary those of the active      *)
(* decoder, up to it those of the current identity; the pending identity   *)
(* is that of the continuation, queued or taken over.                      *)
Tagged(p, got, cur, pend, orph) ==
    /\ \A i \in 1..Waits(p) :
         p.boundary = NoBoundary \/ p.position + got + i > p.boundary =>
             At(p, NoFrame, i).token = p.decoder.token
    /\ pend # 0 /\ p.next # NoDecoder => pend = p.next.token
    /\ pend # 0 /\ p.boundary # NoBoundary => pend = p.decoder.token
    /\ ~orph /\ p.boundary = NoBoundary =>
          cur = p.decoder.token /\ (p.next # NoDecoder => pend = p.next.token)
    /\ ~orph /\ p.boundary # NoBoundary =>
          /\ pend = p.decoder.token
          /\ \A i \in 1..Waits(p) :
               p.position + got + i <= p.boundary => At(p, NoFrame, i).token = cur

(* A crossing is latched, or about to be, only when the boundary has been  *)
(* reached, and no continuation is queued before it has been taken.        *)
Crossed(p, pc) ==
    /\ p.boundary # NoBoundary /\ (p.crossed \/ pc = "latch") => p.position >= p.boundary
    /\ p.next # NoDecoder => pc # "latch" /\ ~p.crossed

Named(p, pc, got, cur, pend, orph) == Crossed(p, pc) /\ Tagged(p, got, cur, pend, orph)

IdentityInv == Loaded => Named(playback, callback.pc, callback.got, current, pending, orphaned)

-------------------------------------------------------------------------------
LEMMA LongestIsOne ==
    /\ Longest \in Lengths
    /\ \A m \in Lengths : m <= Longest
    /\ Lengths \subseteq Nat \ {0}
BY PlaybackAssumption DEF Longest

LEMMA SourceShape ==
    ASSUME NEW p \in SourceType
    PROVE  /\ p.state \in PlaybackStates /\ p.ring \in Seq(FrameType) /\ p.chunk \in Seq(FrameType)
           /\ p.decoder \in [token : Tokens, length : Lengths, at : 0..Longest]
           /\ p.next \in [token : Tokens \cup {0}, length : Lengths \cup {0}, at : {0}]
           /\ p.offset \in Nat /\ p.produced \in Nat /\ p.position \in Nat /\ p.boundary \in Nat
           /\ p.crossed \in BOOLEAN /\ p.ended \in BOOLEAN
           /\ p.decoder.token \in Tokens /\ p.decoder.length \in Lengths
           /\ p.decoder.at \in 0..Longest
           /\ p.decoder.token \in Nat \ {0} /\ p.decoder.length \in Nat \ {0} /\ p.decoder.at \in Nat
           /\ p.next.token \in Nat
           /\ Len(p.ring) \in Nat /\ Len(p.chunk) \in Nat /\ Waits(p) \in Nat
           /\ p # NoSource
<1>1. /\ p.state \in PlaybackStates /\ p.ring \in Seq(FrameType) /\ p.chunk \in Seq(FrameType)
      /\ p.decoder \in [token : Tokens, length : Lengths, at : 0..Longest]
      /\ p.next \in [token : Tokens \cup {0}, length : Lengths \cup {0}, at : {0}]
      /\ p.offset \in Nat /\ p.produced \in Nat /\ p.position \in Nat /\ p.boundary \in Nat
      /\ p.crossed \in BOOLEAN /\ p.ended \in BOOLEAN
  BY DEF SourceType
<1>2. /\ p.decoder.token \in Tokens /\ p.decoder.length \in Lengths
      /\ p.decoder.at \in 0..Longest /\ p.next.token \in Tokens \cup {0}
  BY <1>1
<1>3. Longest \in Nat /\ Lengths \subseteq Nat \ {0}
  BY LongestIsOne
<1>4. /\ p.decoder.token \in Nat \ {0} /\ p.decoder.length \in Nat \ {0} /\ p.decoder.at \in Nat
      /\ p.next.token \in Nat
  <2>1. Tokens \subseteq Nat \ {0}
    BY PlaybackAssumption DEF Tokens
  <2>3. p.next.token \in Nat
    <3>1. 0 \in Nat
      OBVIOUS
    <3> QED
      BY <1>2, <2>1, <3>1, Zenon
  <2>2. \A n \in Nat : 0..n \subseteq Nat
    OBVIOUS
  <2> QED
    BY <1>2, <1>3, <2>1, <2>2, <2>3, Zenon
<1>5. Len(p.ring) \in Nat /\ Len(p.chunk) \in Nat /\ Waits(p) \in Nat
  <2>1. Len(p.ring) \in Nat /\ Len(p.chunk) \in Nat
    BY <1>1, LenProperties, Zenon
  <2>2. \A a, b \in Nat : a + b \in Nat
    OBVIOUS
  <2> QED
    BY <2>1, <2>2, Zenon DEF Waits
<1>6. p # NoSource
  BY <1>1 DEF PlaybackStates, NoSource
<1> QED
  BY <1>1, <1>2, <1>4, <1>5, <1>6

(* A step that leaves the queue and the positions of the source alone.     *)
Light(p, q) ==
    /\ q \in SourceType
    /\ q.ring = p.ring /\ q.chunk = p.chunk /\ q.decoder = p.decoder
    /\ q.offset = p.offset /\ q.produced = p.produced /\ q.position = p.position
    /\ q.next \in {p.next, NoDecoder} /\ q.boundary \in {p.boundary, NoBoundary}
    /\ p.state = "failed" => q.state = "failed"

(* A step that empties the queue and forgets the continuation. *)
Flushed(q, t) ==
    /\ q \in SourceType /\ q.ring = <<>> /\ q.chunk = <<>>
    /\ q.decoder.at <= q.decoder.length /\ q.decoder.token <= t
    /\ q.next = NoDecoder /\ q.boundary = NoBoundary /\ ~q.crossed
    /\ q.state # "failed" => q.position = q.produced /\ q.produced = q.offset + q.decoder.at

Right(p, t, got, h) == GoodSource(p, t) /\ Counted(p, got) /\ Chained(p, h)

LEMMA LightIsRight ==
    ASSUME NEW p, NEW q, NEW t \in Nat, NEW u \in Nat, t <= u, NEW got, NEW h,
           Right(p, t, got, h), Light(p, q)
    PROVE  Right(q, u, got, h)
<1>1. p \in SourceType /\ q \in SourceType
  BY DEF Right, GoodSource, Light
<1>2. Waits(q) = Waits(p) /\ q.decoder = p.decoder
  BY DEF Waits, Light
<1>3. \A i : At(q, h, i) = At(p, h, i)
  BY DEF At, Light
<1>4. GoodSource(q, u)
  <2>1. Len(q.ring) <= Capacity /\ Len(q.chunk) <= MaxChunk /\ q.decoder.at <= q.decoder.length
    BY DEF Right, GoodSource, Light
  <2>2. q.decoder.token <= u
    BY <1>1, SourceShape DEF Right, GoodSource, Light
  <2>3. ASSUME q.next # NoDecoder
        PROVE  /\ q.next.token \in Tokens /\ q.next.length \in Lengths
               /\ q.next.token <= u /\ q.next.token # q.decoder.token /\ q.boundary = NoBoundary
    BY SMTT(30), <1>1, <2>3, SourceShape DEF Right, GoodSource, Light
  <2>4. q.state # "failed" => q.produced = q.offset + q.decoder.at
    BY DEF Right, GoodSource, Light
  <2>5. q.boundary <= q.produced
    BY <1>1, SourceShape DEF Right, GoodSource, Light, NoBoundary
  <2> QED
    BY <1>1, <2>1, <2>2, <2>3, <2>4, <2>5 DEF GoodSource
<1>5. Counted(q, got)
  BY <1>1, <1>2, SourceShape DEF Counted, Right, Light, NoBoundary
<1>6. Chained(q, h)
  <2> HIDE DEF At, Waits
  <2>1. Chained(p, h)
    BY DEF Right
  <2> QED
    BY <1>2, <1>3, <2>1 DEF Chained
<1> QED
  BY <1>4, <1>5, <1>6 DEF Right

LEMMA FlushedIsRight ==
    ASSUME NEW q, NEW t \in Nat, Flushed(q, t)
    PROVE  Right(q, t, 0, NoFrame)
<1>1. q \in SourceType /\ Len(q.ring) = 0 /\ Len(q.chunk) = 0 /\ Waits(q) = 0
  BY DEF Flushed, Waits
<1>2. GoodSource(q, t)
  BY <1>1, SourceShape, PlaybackAssumption DEF GoodSource, Flushed, NoBoundary
<1>3. Counted(q, 0)
  BY <1>1, SourceShape DEF Counted, Flushed
<1>4. Chained(q, NoFrame)
  <2>1. At(q, NoFrame, 0) = NoFrame
    BY DEF At, Item
  <2> QED
    BY <1>1, <2>1 DEF Chained
<1> QED
  BY <1>2, <1>3, <1>4 DEF Right

-------------------------------------------------------------------------------
(* The queue of a source, as the ring grows and shrinks. *)

LEMMA RoomLeft ==
    \A a, b, n \in Nat : a <= MaxChunk => /\ a - n <= MaxChunk
                                          /\ n <= Capacity - b => b + n <= Capacity
BY PlaybackAssumption

LEMMA SumLessPart ==
    ASSUME NEW a \in Nat, NEW b \in Nat, NEW g \in Nat, g <= a
    PROVE  /\ (a - g) + b = (a + b) - g
           /\ a + b \in Nat /\ g <= a + b /\ (a + b) - g \in Nat
OBVIOUS

LEMMA PartMoves ==
    ASSUME NEW a \in Nat, NEW b \in Nat, NEW n \in Nat, n <= b
    PROVE  /\ (a + n) + (b - n) = a + b
           /\ a + b \in Nat
           /\ \A i \in 0..(a + b) : i > a + n =>
                 /\ i # 0 /\ ~(i <= a) /\ ~(i <= a + n)
                 /\ i - (a + n) \in 1..(b - n) /\ (i - (a + n)) + n = i - a
OBVIOUS

LEMMA AfterFirst ==
    ASSUME NEW S, NEW s \in Seq(S), NEW g \in 0..Len(s)
    PROVE  /\ SubSeq(s, g + 1, Len(s)) \in Seq(S)
           /\ Len(SubSeq(s, g + 1, Len(s))) = Len(s) - g
           /\ \A i \in 1..(Len(s) - g) : SubSeq(s, g + 1, Len(s))[i] = s[i + g]
<1>1. Len(s) \in Nat /\ g \in Nat /\ g + 1 \in 1..(Len(s) + 1)
  OBVIOUS
<1> QED
  BY <1>1

LEMMA FirstOf ==
    ASSUME NEW S, NEW s \in Seq(S), NEW g \in 0..Len(s)
    PROVE  /\ SubSeq(s, 1, g) \in Seq(S)
           /\ Len(SubSeq(s, 1, g)) = g
           /\ \A i \in 1..g : SubSeq(s, 1, g)[i] = s[i]
<1>1. Len(s) \in Nat /\ g \in Nat
  OBVIOUS
<1> QED
  BY <1>1

SameSource(p, q) ==
    /\ q.decoder = p.decoder /\ q.next = p.next /\ q.offset = p.offset
    /\ q.produced = p.produced /\ q.position = p.position /\ q.boundary = p.boundary
    /\ q.state = p.state

LEMMA SameIsGood ==
    ASSUME NEW p, NEW q \in SourceType, NEW t, GoodSource(p, t), SameSource(p, q),
           Len(q.ring) <= Capacity, Len(q.chunk) <= MaxChunk
    PROVE  GoodSource(q, t)
BY DEF GoodSource, SameSource

Shifted(ring, chunk, g, shorter) ==
    /\ Len(shorter) = Len(ring) - g
    /\ Len(shorter) + Len(chunk) = (Len(ring) + Len(chunk)) - g
    /\ Len(ring) + Len(chunk) \in Nat /\ g <= Len(ring) + Len(chunk)
    /\ (Len(ring) + Len(chunk)) - g \in Nat
    /\ \A f : \A i \in 0..((Len(ring) + Len(chunk)) - g) :
         Item(shorter, chunk, IF g > 0 THEN ring[g] ELSE f, i) = Item(ring, chunk, f, i + g)

LEMMA ReadMoves ==
    ASSUME NEW S, NEW ring \in Seq(S), NEW chunk, Len(chunk) \in Nat, NEW g \in 0..Len(ring),
           NEW shorter, shorter = SubSeq(ring, g + 1, Len(ring))
    PROVE  Shifted(ring, chunk, g, shorter)
<1>1. Len(ring) \in Nat /\ g \in Nat /\ g <= Len(ring)
  BY LenProperties
<1>2. /\ Len(shorter) = Len(ring) - g
      /\ \A i \in 1..(Len(ring) - g) : shorter[i] = ring[i + g]
  BY AfterFirst
<1>3. /\ (Len(ring) - g) + Len(chunk) = (Len(ring) + Len(chunk)) - g
      /\ Len(ring) + Len(chunk) \in Nat /\ g <= Len(ring) + Len(chunk)
      /\ (Len(ring) + Len(chunk)) - g \in Nat
  BY <1>1, SumLessPart, Zenon
<1>4. ASSUME NEW i \in 0..((Len(ring) + Len(chunk)) - g), NEW f
      PROVE  Item(shorter, chunk, IF g > 0 THEN ring[g] ELSE f, i) = Item(ring, chunk, f, i + g)
  <2>1. i \in Nat
    BY <1>3
  <2>2. CASE i = 0
    BY <2>2, <1>1 DEF Item
  <2>3. CASE i # 0 /\ i <= Len(ring) - g
    <3>1. i \in 1..(Len(ring) - g) /\ i + g # 0 /\ i + g <= Len(ring)
      BY <2>1, <2>3, <1>1
    <3> QED
      BY <3>1, <2>3, <1>2 DEF Item
  <2>4. CASE ~(i <= Len(ring) - g)
    <3>1. i # 0 /\ i + g # 0 /\ ~(i + g <= Len(ring)) /\ i - (Len(ring) - g) = (i + g) - Len(ring)
      BY <2>1, <2>4, <1>1
    <3> QED
      BY <3>1, <2>4, <1>2 DEF Item
  <2> QED
    BY <2>2, <2>3, <2>4
<1> QED
  BY <1>2, <1>3, <1>4 DEF Shifted

LEMMA ReadIsRight ==
    ASSUME NEW p, NEW q, NEW t, NEW h, Right(p, t, 0, h), NEW got \in 0..Len(p.ring),
           q \in SourceType, SameSource(p, q), q.chunk = p.chunk,
           q.ring = SubSeq(p.ring, got + 1, Len(p.ring))
    PROVE  /\ Right(q, t, got, IF got > 0 THEN p.ring[got] ELSE h)
           /\ Waits(q) = Waits(p) - got
           /\ \A i \in 1..Waits(q) : At(q, NoFrame, i) = At(p, NoFrame, i + got)
           /\ got > 0 => p.ring[got] \in FrameType
           /\ got > 0 /\ h # NoFrame => Follows(p.ring[1], h)
<1> DEFINE k == IF got > 0 THEN p.ring[got] ELSE h
<1>1. p \in SourceType /\ q \in SourceType
  BY DEF Right, GoodSource
<1>2. /\ p.ring \in Seq(FrameType) /\ Len(p.ring) \in Nat /\ Len(p.chunk) \in Nat /\ got \in Nat
      /\ p.position \in Nat /\ p.produced \in Nat
  BY <1>1, SourceShape
<1>3. Shifted(p.ring, p.chunk, got, q.ring)
  BY <1>2, ReadMoves, Zenon
<1>4. Waits(q) = Waits(p) - got /\ Waits(q) \in Nat /\ Waits(p) \in Nat /\ got <= Waits(p)
  BY <1>3, Zenon DEF Waits, Shifted
<1>5. ASSUME NEW i \in 0..Waits(q), NEW f
      PROVE  At(q, IF got > 0 THEN p.ring[got] ELSE f, i) = At(p, f, i + got)
  BY <1>3, <1>4, Zenon DEF At, Waits, Shifted
<1>6. \A i \in 1..Waits(q) : At(q, NoFrame, i) = At(p, NoFrame, i + got)
  <2> SUFFICES ASSUME NEW i \in 1..Waits(q) PROVE At(q, NoFrame, i) = At(p, NoFrame, i + got)
    OBVIOUS
  <2>1. i \in 0..Waits(q) /\ i # 0
    BY <1>4
  <2>2. At(q, NoFrame, i) = At(q, IF got > 0 THEN p.ring[got] ELSE NoFrame, i)
    BY <2>1 DEF At, Item
  <2> QED
    BY <2>1, <2>2, <1>5
<1>7. GoodSource(q, t)
  <2>1. GoodSource(p, t)
    BY DEF Right
  <2>2. Len(q.ring) <= Capacity /\ Len(q.chunk) <= MaxChunk
    BY <2>1, <1>2, <1>3, PlaybackAssumption DEF GoodSource, Shifted
  <2> QED
    BY <2>1, <2>2, <1>1, SameIsGood
<1>8. Counted(q, got)
  BY <1>2, <1>4 DEF Right, Counted, SameSource
<1>9. Chained(q, k)
  <2>1. \A i \in 0..Waits(q) : At(q, k, i) = At(p, h, i + got)
    BY <1>5
  <2>2. \A i \in 0..Waits(q) : i + got \in 0..Waits(p) /\ (i + got < Waits(p) <=> i < Waits(q))
                               /\ (i + 1) + got = (i + got) + 1
    BY <1>4, <1>2
  <2>3. \A i \in 1..Waits(q) : i + got \in 1..Waits(p) /\ i \in 0..Waits(q)
    BY <1>4, <1>2
  <2>4. \A i \in 0..Waits(q) : i < Waits(q) => i + 1 \in 0..Waits(q)
    BY <1>4
  <2>5. q.decoder = p.decoder
    BY DEF SameSource
  <2>6. Chained(p, h)
    BY DEF Right
  <2> HIDE DEF k
  <2>7. \A i \in 1..Waits(q) : At(q, k, i).token \in Tokens
    BY <2>1, <2>3, <2>6, Zenon DEF Chained
  <2>8. ASSUME NEW i \in 0..Waits(q), At(q, k, i) # NoFrame
        PROVE  IF i < Waits(q) THEN Follows(At(q, k, i + 1), At(q, k, i))
               ELSE Reaches(q.decoder, At(q, k, i))
    <3>1. CASE i < Waits(q)
      <4>1. At(q, k, i + 1) = At(p, h, (i + got) + 1)
        BY <3>1, <2>1, <2>2, <2>4
      <4>2. Follows(At(p, h, (i + got) + 1), At(p, h, i + got))
        BY <3>1, <2>8, <2>1, <2>2, <2>6 DEF Chained
      <4> QED
        BY <3>1, <4>1, <4>2, <2>1
    <3>2. CASE ~(i < Waits(q))
      BY <3>2, <2>8, <2>1, <2>2, <2>5, <2>6 DEF Chained
    <3> QED
      BY <3>1, <3>2
  <2> QED
    BY <2>7, <2>8 DEF Chained
<1>10. got > 0 => p.ring[got] \in FrameType
  BY <1>2, ElementOfSeq
<1>11. ASSUME got > 0, h # NoFrame PROVE Follows(p.ring[1], h)
  <2>1. At(p, h, 0) = h /\ At(p, h, 1) = p.ring[1] /\ 0 \in 0..Waits(p) /\ 0 < Waits(p) /\ 0 + 1 = 1
    BY <1>11, <1>2, <1>4 DEF At, Item
  <2>2. Chained(p, h)
    BY DEF Right
  <2> QED
    BY <2>1, <2>2, <1>11 DEF Chained
<1> QED
  BY <1>4, <1>6, <1>7, <1>8, <1>9, <1>10, <1>11 DEF Right

Written(ring, chunk, n, longer, shorter) ==
    /\ Len(longer) = Len(ring) + n
    /\ Len(shorter) = Len(chunk) - n
    /\ Len(longer) + Len(shorter) = Len(ring) + Len(chunk)
    /\ \A f : \A i \in 0..(Len(ring) + Len(chunk)) :
         Item(longer, shorter, f, i) = Item(ring, chunk, f, i)

LEMMA WriteMoves ==
    ASSUME NEW S, NEW ring \in Seq(S), NEW chunk \in Seq(S), NEW n \in 0..Len(chunk),
           NEW longer, longer = ring \o SubSeq(chunk, 1, n),
           NEW shorter, shorter = SubSeq(chunk, n + 1, Len(chunk))
    PROVE  Written(ring, chunk, n, longer, shorter)
<1>2. Len(ring) \in Nat /\ Len(chunk) \in Nat /\ n \in Nat /\ n <= Len(chunk)
  BY LenProperties
<1>3. /\ SubSeq(chunk, 1, n) \in Seq(S) /\ Len(SubSeq(chunk, 1, n)) = n
      /\ \A i \in 1..n : SubSeq(chunk, 1, n)[i] = chunk[i]
  BY FirstOf
<1>4. /\ Len(shorter) = Len(chunk) - n
      /\ \A i \in 1..(Len(chunk) - n) : shorter[i] = chunk[i + n]
  BY AfterFirst
<1>5. /\ Len(longer) = Len(ring) + n
      /\ \A i \in 1..(Len(ring) + n) : longer[i] =
            IF i <= Len(ring) THEN ring[i] ELSE SubSeq(chunk, 1, n)[i - Len(ring)]
  <2>1. /\ Len(ring \o SubSeq(chunk, 1, n)) = Len(ring) + Len(SubSeq(chunk, 1, n))
        /\ \A i \in 1..(Len(ring) + Len(SubSeq(chunk, 1, n))) : (ring \o SubSeq(chunk, 1, n))[i] =
              IF i <= Len(ring) THEN ring[i] ELSE SubSeq(chunk, 1, n)[i - Len(ring)]
    BY <1>3, ConcatProperties, Zenon
  <2> QED
    BY <2>1, <1>3, Zenon
<1>6. ASSUME NEW i \in 0..(Len(ring) + Len(chunk)), NEW f
      PROVE  Item(longer, shorter, f, i) = Item(ring, chunk, f, i)
  <2>1. CASE i = 0
    BY <2>1 DEF Item
  <2>2. CASE i # 0 /\ i <= Len(ring)
    BY <2>2, <1>2, <1>5 DEF Item
  <2>3. CASE i > Len(ring) /\ i <= Len(ring) + n
    <3>1. /\ i # 0 /\ ~(i <= Len(ring)) /\ i \in 1..(Len(ring) + n) /\ i - Len(ring) \in 1..n
      BY <2>3, <1>2
    <3>2. longer[i] = SubSeq(chunk, 1, n)[i - Len(ring)]
      BY <3>1, <1>5, Zenon
    <3>3. longer[i] = chunk[i - Len(ring)]
      BY <3>1, <3>2, <1>3
    <3> QED
      BY <3>1, <3>3, <2>3, <1>5 DEF Item
  <2>4. CASE i > Len(ring) + n
    <3>1. /\ i # 0 /\ ~(i <= Len(ring)) /\ ~(i <= Len(longer))
          /\ i - Len(longer) \in 1..(Len(chunk) - n)
          /\ (i - Len(longer)) + n = i - Len(ring)
      <4>1. \A j \in 0..(Len(ring) + Len(chunk)) : j > Len(ring) + n =>
                 /\ j # 0 /\ ~(j <= Len(ring)) /\ ~(j <= Len(ring) + n)
                 /\ j - (Len(ring) + n) \in 1..(Len(chunk) - n)
                 /\ (j - (Len(ring) + n)) + n = j - Len(ring)
        BY <1>2, PartMoves
      <4> QED
        BY <4>1, <2>4, <1>5, Zenon
    <3>2. shorter[i - Len(longer)] = chunk[(i - Len(longer)) + n]
      BY <3>1, <1>4, Zenon
    <3> QED
      BY <3>1, <3>2 DEF Item
  <2> QED
    BY <2>1, <2>2, <2>3, <2>4, <1>2
<1>7. Len(longer) + Len(shorter) = Len(ring) + Len(chunk)
  <2>1. (Len(ring) + n) + (Len(chunk) - n) = Len(ring) + Len(chunk)
    BY <1>2, PartMoves
  <2> QED
    BY <2>1, <1>4, <1>5, Zenon
<1> QED
  BY <1>4, <1>5, <1>6, <1>7 DEF Written

LEMMA WriteIsRight ==
    ASSUME NEW p, NEW q, NEW t, NEW h, NEW g, Right(p, t, g, h), NEW n \in 0..Len(p.chunk),
           n <= Capacity - Len(p.ring),
           q \in SourceType, SameSource(p, q),
           q.ring = p.ring \o SubSeq(p.chunk, 1, n),
           q.chunk = SubSeq(p.chunk, n + 1, Len(p.chunk))
    PROVE  /\ Right(q, t, g, h)
           /\ Waits(q) = Waits(p)
           /\ \A i \in 1..Waits(q) : At(q, NoFrame, i) = At(p, NoFrame, i)
<1>1. p \in SourceType /\ q \in SourceType
  BY DEF Right, GoodSource
<1>2. /\ p.ring \in Seq(FrameType) /\ p.chunk \in Seq(FrameType)
      /\ Len(p.ring) \in Nat /\ Len(p.chunk) \in Nat /\ n \in Nat /\ n <= Len(p.chunk)
  BY <1>1, SourceShape
<1>3. Written(p.ring, p.chunk, n, q.ring, q.chunk)
  BY <1>2, WriteMoves, Zenon
<1>8. Waits(q) = Waits(p) /\ Waits(p) \in Nat
  BY <1>1, <1>3, SourceShape, Zenon DEF Waits, Written
<1>9. ASSUME NEW i \in 0..Waits(p), NEW f
      PROVE  At(q, f, i) = At(p, f, i)
  BY <1>3, Zenon DEF At, Waits, Written
<1>10. GoodSource(q, t)
  <2>1. GoodSource(p, t)
    BY DEF Right
  <2>2. Len(q.ring) <= Capacity /\ Len(q.chunk) <= MaxChunk
    BY <2>1, <1>2, <1>3, RoomLeft DEF GoodSource, Written
  <2> QED
    BY <2>1, <2>2, <1>1, SameIsGood
<1>11. Counted(q, g)
  BY <1>8 DEF Right, Counted, SameSource
<1>12. Chained(q, h)
  <2>1. \A i \in 0..Waits(p) : At(q, h, i) = At(p, h, i)
    BY <1>9
  <2>2. \A i \in 0..Waits(p) : i < Waits(p) => i + 1 \in 0..Waits(p)
    BY <1>8
  <2>3. \A i \in 1..Waits(p) : i \in 0..Waits(p)
    BY <1>8
  <2>4. q.decoder = p.decoder /\ Chained(p, h)
    BY DEF SameSource, Right
  <2>5. \A i \in 1..Waits(q) : At(q, h, i).token \in Tokens
    BY <2>1, <2>3, <2>4, <1>8, Zenon DEF Chained
  <2>6. ASSUME NEW i \in 0..Waits(q), At(q, h, i) # NoFrame
        PROVE  IF i < Waits(q) THEN Follows(At(q, h, i + 1), At(q, h, i))
               ELSE Reaches(q.decoder, At(q, h, i))
    <3>1. CASE i < Waits(q)
      BY <3>1, <2>6, <2>1, <2>2, <2>4, <1>8 DEF Chained
    <3>2. CASE ~(i < Waits(q))
      BY <3>2, <2>6, <2>1, <2>2, <2>4, <1>8 DEF Chained
    <3> QED
      BY <3>1, <3>2
  <2> QED
    BY <2>5, <2>6 DEF Chained
<1>13. \A i \in 1..Waits(q) : At(q, NoFrame, i) = At(p, NoFrame, i)
  BY <1>8, <1>9
<1> QED
  BY <1>8, <1>10, <1>11, <1>12, <1>13 DEF Right

LEMMA FramesShape ==
    ASSUME NEW d \in [token : Tokens, length : Lengths, at : 0..Longest], NEW n \in Nat \ {0},
           d.at + n <= d.length
    PROVE  /\ Frames(d, n) \in Seq(FrameType) /\ Len(Frames(d, n)) = n
           /\ \A i \in 1..n : Frames(d, n)[i] = Frame(d, i)
           /\ \A i \in 1..n : /\ Frame(d, i).token = d.token
                              /\ Frame(d, i).at + 1 = d.at + i
                              /\ Frame(d, i).last = (d.at + i = d.length)
<1>1. d.at \in Nat /\ d.length \in Nat /\ d.token \in Tokens /\ n \in Nat
  <2>1. Longest \in Nat /\ Lengths \subseteq Nat
    BY LongestIsOne
  <2>2. d.at \in 0..Longest /\ d.length \in Lengths /\ d.token \in Tokens
    OBVIOUS
  <2>3. d.at \in Nat
    BY <2>1, <2>2
  <2>4. d.length \in Nat
    BY <2>1, <2>2
  <2> QED
    BY <2>2, <2>3, <2>4
<1>2. \A i \in 1..n : /\ Frame(d, i) \in FrameType
                      /\ Frame(d, i).token = d.token
                      /\ Frame(d, i).at + 1 = d.at + i
                      /\ Frame(d, i).last = (d.at + i = d.length)
  BY <1>1 DEF Frame, FrameType
<1>3. Frames(d, n) \in Seq(FrameType) /\ Len(Frames(d, n)) = n
      /\ \A i \in 1..n : Frames(d, n)[i] = Frame(d, i)
  <2>1. Frames(d, n) = [i \in 1..n |-> Frame(d, i)]
    BY DEF Frames
  <2> HIDE DEF Frame
  <2>2. Frames(d, n) \in [1..n -> FrameType]
    BY <1>2, <2>1
  <2>3. Frames(d, n) \in Seq(FrameType)
    BY <1>1, <2>2, SeqDef
  <2>4. DOMAIN Frames(d, n) = 1..Len(Frames(d, n)) /\ DOMAIN Frames(d, n) = 1..n
    BY <2>1, <2>3, LenProperties
  <2>5. Len(Frames(d, n)) = n
    <3>1. Len(Frames(d, n)) \in Nat
      BY <2>3, LenProperties
    <3>2. \A j, k \in Nat : 1..j = 1..k => j = k
      OBVIOUS
    <3> QED
      BY <1>1, <2>4, <3>1, <3>2, Zenon
  <2> QED
    BY <2>1, <2>3, <2>5
<1> QED
  BY <1>2, <1>3

LEMMA DecodeIsRight ==
    ASSUME NEW p, NEW q, NEW t \in Nat, NEW h, NEW g, Right(p, t, g, h), g \in Nat,
           p.chunk = <<>>, p.state # "failed",
           NEW n \in Nat \ {0}, n <= MaxChunk, p.decoder.at + n <= p.decoder.length,
           q \in SourceType, q.ring = p.ring, q.chunk = Frames(p.decoder, n),
           q.decoder.token = p.decoder.token, q.decoder.length = p.decoder.length,
           q.decoder.at = p.decoder.at + n, q.produced = p.produced + n,
           q.next = p.next, q.offset = p.offset, q.position = p.position,
           q.boundary = p.boundary, q.state = p.state
    PROVE  /\ Right(q, t, g, h)
           /\ Waits(q) = Waits(p) + n
           /\ \A i \in 1..Waits(p) : At(q, NoFrame, i) = At(p, NoFrame, i)
           /\ \A i \in (Waits(p) + 1)..Waits(q) : At(q, NoFrame, i).token = p.decoder.token
<1> DEFINE d == p.decoder
           r == Len(p.ring)
<1>1. p \in SourceType /\ q \in SourceType
  BY DEF Right, GoodSource
<1>2. /\ d \in [token : Tokens, length : Lengths, at : 0..Longest]
      /\ d.at \in Nat /\ d.length \in Nat \ {0} /\ r \in Nat /\ d.token \in Tokens
      /\ p.produced \in Nat /\ p.offset \in Nat /\ p.position \in Nat /\ p.boundary \in Nat
  BY <1>1, SourceShape
<1>3. /\ Len(q.chunk) = n /\ \A i \in 1..n : q.chunk[i] = Frame(d, i)
      /\ \A i \in 1..n : /\ Frame(d, i).token = d.token
                         /\ Frame(d, i).at + 1 = d.at + i
                         /\ Frame(d, i).last = (d.at + i = d.length)
  <2>1. d \in [token : Tokens, length : Lengths, at : 0..Longest] /\ d.at + n <= d.length
    BY <1>2
  <2> HIDE DEF d
  <2>2. /\ Len(Frames(d, n)) = n
        /\ \A i \in 1..n : Frames(d, n)[i] = Frame(d, i)
        /\ \A i \in 1..n : /\ Frame(d, i).token = d.token
                           /\ Frame(d, i).at + 1 = d.at + i
                           /\ Frame(d, i).last = (d.at + i = d.length)
    BY <2>1, FramesShape, Zenon
  <2>3. q.chunk = Frames(d, n)
    BY DEF d
  <2> QED
    BY <2>2, <2>3, Zenon
<1>4. Waits(p) = r /\ Waits(q) = r + n
  <2>1. Len(p.chunk) = 0
    BY DEF Right
  <2> QED
    BY <2>1, <1>2, <1>3 DEF Waits
<1>5. \A i \in 0..r, f \in {h, NoFrame} : At(q, f, i) = At(p, f, i)
  BY <1>2 DEF At, Item
<1>6. \A i \in (r + 1)..(r + n), f \in {h, NoFrame} :
          At(q, f, i) = Frame(d, i - r) /\ i - r \in 1..n
  <2> SUFFICES ASSUME NEW i \in (r + 1)..(r + n), NEW f
               PROVE  At(q, f, i) = Frame(d, i - r) /\ i - r \in 1..n
    OBVIOUS
  <2>1. i # 0 /\ ~(i <= r) /\ i - r \in 1..n
    BY <1>2
  <2>2. At(q, f, i) = q.chunk[i - r]
    BY <2>1 DEF At, Item
  <2> QED
    BY <2>1, <2>2, <1>3, Zenon
<1>7. GoodSource(q, t)
  <2>1. GoodSource(p, t)
    BY DEF Right
  <2>2. Len(q.ring) <= Capacity /\ Len(q.chunk) <= MaxChunk
    BY <2>1, <1>3 DEF GoodSource
  <2>3. q.produced = q.offset + q.decoder.at /\ q.boundary <= q.produced
    BY SMTT(30), <2>1, <1>2 DEF GoodSource
  <2> QED
    BY <2>1, <2>2, <2>3, <1>1 DEF GoodSource
<1>8. Counted(q, g)
  <2>1. p.position + g + r = p.produced
    BY <1>4 DEF Right, Counted
  <2> QED
    BY <2>1, <1>2, <1>4 DEF Counted
<1>9. Chained(q, h)
  <2>1. Chained(p, h)
    BY DEF Right
  <2> HIDE DEF d, r
  <2>2. \A i \in 1..(r + n) : At(q, h, i).token \in Tokens
    <3> SUFFICES ASSUME NEW i \in 1..(r + n) PROVE At(q, h, i).token \in Tokens
      OBVIOUS
    <3>1. CASE i \in 1..r
      BY <3>1, <2>1, <1>4, <1>5, <1>2 DEF Chained
    <3>2. CASE i \in (r + 1)..(r + n)
      BY <3>2, <1>2, <1>3, <1>6
    <3> QED
      BY <3>1, <3>2, <1>2
  <2>3. ASSUME NEW i \in 0..(r + n), At(q, h, i) # NoFrame
        PROVE  IF i < r + n THEN Follows(At(q, h, i + 1), At(q, h, i))
               ELSE Reaches(q.decoder, At(q, h, i))
    <3>1. CASE i < r
      <4>1. i \in 0..r /\ i + 1 \in 0..r /\ i < r + n
        BY SMTT(30), <3>1, <1>2
      <4> QED
        BY <4>1, <3>1, <2>1, <2>3, <1>4, <1>5 DEF Chained
    <3>2. CASE i = r
      <4>1. /\ i \in 0..r /\ i + 1 \in (r + 1)..(r + n) /\ (i + 1) - r = 1
            /\ 1 \in 1..n /\ ~(i < r) /\ i < r + n
        <5>1. r \in Nat
          BY <1>2
        <5> HIDE DEF r
        <5> QED
          BY ONLY <5>1, <3>2, n \in Nat \ {0}
      <4>2. At(q, h, i) = At(p, h, i) /\ At(q, h, i + 1) = Frame(d, 1)
        BY <4>1, <1>5, <1>6
      <4>3. Reaches(d, At(p, h, i))
        BY <4>1, <4>2, <2>1, <2>3, <1>4 DEF Chained, d
      <4>4. Frame(d, 1).token = d.token /\ Frame(d, 1).at = d.at /\ d.at # d.length
        <5>1. Frame(d, 1).at = d.at
          BY <1>2 DEF Frame
        <5> QED
          BY <5>1, <4>1, <1>3, <1>2 DEF d
      <4>5. Follows(Frame(d, 1), At(p, h, i))
        BY <4>3, <4>4 DEF Follows, Reaches
      <4> QED
        BY <4>1, <4>2, <4>5
    <3>3. CASE i > r
      <4>1. i \in (r + 1)..(r + n) /\ i - r \in 1..n
        BY SMTT(30), <3>3, <1>2
      <4>2. At(q, h, i) = Frame(d, i - r)
        BY <4>1, <1>6
      <4>3. CASE i < r + n
        <5>1. i + 1 \in (r + 1)..(r + n) /\ (i + 1) - r = (i - r) + 1 /\ (i - r) + 1 \in 1..n
          BY <4>1, <4>3, <1>2
        <5>2. At(q, h, i + 1) = Frame(d, (i - r) + 1)
          BY <5>1, <1>6
        <5>3. \A j \in 1..n : j + 1 \in 1..n => Follows(Frame(d, j + 1), Frame(d, j))
          <6> SUFFICES ASSUME NEW j \in 1..n, j + 1 \in 1..n PROVE Follows(Frame(d, j + 1), Frame(d, j))
            OBVIOUS
          <6>1. ~(d.at + j = d.length)
            BY <1>2 DEF d
          <6>2. Frame(d, j + 1).at = Frame(d, j).at + 1
            BY <1>2 DEF Frame
          <6> QED
            BY <6>1, <6>2, <1>3 DEF Follows
        <5> QED
          BY <5>1, <5>2, <5>3, <4>1, <4>2, <4>3
      <4>4. CASE ~(i < r + n)
        <5>1. i - r = n /\ n \in 1..n /\ d.at + n # 0
          BY <4>1, <4>4, <1>2
        <5>2. Frame(d, n).token = q.decoder.token /\ Frame(d, n).at + 1 = q.decoder.at
              /\ Frame(d, n).last = (q.decoder.at = q.decoder.length) /\ q.decoder.at # 0
          BY <5>1, <1>3 DEF d
        <5> QED
          BY <5>1, <5>2, <4>2, <4>4 DEF Reaches
      <4> QED
        BY <4>3, <4>4
    <3> QED
      BY <3>1, <3>2, <3>3, <1>2
  <2> QED
    BY <2>2, <2>3, <1>4 DEF Chained
<1>10. \A i \in 1..Waits(p) : At(q, NoFrame, i) = At(p, NoFrame, i)
  <2>1. \A i \in 1..r : i \in 0..r
    BY <1>2
  <2> QED
    BY <2>1, <1>4, <1>5
<1>11. \A i \in (Waits(p) + 1)..Waits(q) : At(q, NoFrame, i).token = p.decoder.token
  BY <1>3, <1>4, <1>6
<1> QED
  BY <1>4, <1>7, <1>8, <1>9, <1>10, <1>11 DEF Right

LEMMA TakeOverIsRight ==
    ASSUME NEW p, NEW q, NEW t \in Nat, NEW h, NEW g, Right(p, t, g, h),
           p.state # "failed", p.decoder.at = p.decoder.length, p.next # NoDecoder,
           q \in SourceType, q.ring = p.ring, q.chunk = p.chunk, q.decoder = p.next,
           q.next = NoDecoder, q.offset = p.produced, q.boundary = p.produced,
           q.produced = p.produced, q.position = p.position, q.state = p.state
    PROVE  /\ Right(q, t, g, h)
           /\ Waits(q) = Waits(p)
           /\ \A i \in 1..Waits(p) : At(q, NoFrame, i) = At(p, NoFrame, i)
           /\ p.produced # NoBoundary
<1>1. p \in SourceType /\ q \in SourceType /\ GoodSource(p, t) /\ Counted(p, g) /\ Chained(p, h)
  BY DEF Right, GoodSource
<1>2. Waits(q) = Waits(p) /\ \A f, i : At(q, f, i) = At(p, f, i)
  BY DEF Waits, At
<1>3. /\ p.decoder.at \in Nat \ {0} /\ p.offset \in Nat /\ p.produced \in Nat
      /\ p.next.at = 0
  BY <1>1, SourceShape
<1>4. /\ p.next.token \in Tokens /\ p.next.length \in Lengths
      /\ p.next.token <= t /\ p.next.token # p.decoder.token
  BY <1>1 DEF GoodSource
<1>5. p.produced # NoBoundary /\ p.produced <= p.produced /\ p.produced + 0 = p.produced
  BY <1>1, <1>3 DEF GoodSource, NoBoundary
<1>6. q.decoder.at <= q.decoder.length
  BY <1>3, <1>4, LongestIsOne
<1>7. Len(q.ring) <= Capacity /\ Len(q.chunk) <= MaxChunk
  BY <1>1 DEF GoodSource
<1>8. q.produced = q.offset + q.decoder.at /\ q.boundary <= q.produced
  BY <1>3, <1>5
<1>9. GoodSource(q, t)
  BY <1>1, <1>4, <1>6, <1>7, <1>8 DEF GoodSource
<1>10. Counted(q, g)
  BY <1>1, <1>2 DEF Counted
<1>11. Chained(q, h)
  <2>1. \A frame : Reaches(p.decoder, frame) => Reaches(q.decoder, frame)
    BY <1>3, <1>4 DEF Reaches
  <2> QED
    BY <2>1, <1>1, <1>2 DEF Chained
<1> QED
  BY <1>2, <1>5, <1>9, <1>10, <1>11 DEF Right

-------------------------------------------------------------------------------
(* The methods of the source, as light steps and as flushes. *)

LEMMA LightMoves ==
    ASSUME NEW p \in SourceType
    PROVE  /\ Light(p, p) /\ Light(p, TakeChainCrossing(p)) /\ Light(p, ClearNext(p))
           /\ Light(p, Pause(p)) /\ Light(p, EndSource(p)) /\ Light(p, [p EXCEPT !.crossed = TRUE])
           /\ \A s \in PlaybackStates :
                 (p.state = "failed" => s = "failed") => Light(p, [p EXCEPT !.state = s])
<1>1. Light(p, p)
  BY DEF Light
<1>2. Light(p, TakeChainCrossing(p))
  BY PlaybackAssumption DEF Light, SourceType, TakeChainCrossing, NoBoundary
<1>3. NoDecoder \in [token : Tokens \cup {0}, length : Lengths \cup {0}, at : {0}]
  BY DEF NoDecoder
<1>4. Light(p, ClearNext(p))
  BY <1>3 DEF Light, SourceType, ClearNext
<1>5. ASSUME NEW s \in PlaybackStates, p.state = "failed" => s = "failed"
      PROVE  Light(p, [p EXCEPT !.state = s])
  BY <1>5 DEF Light, SourceType
<1>6. Light(p, Pause(p))
  <2>1. CASE p.state \in Active
    <3>1. "paused" \in PlaybackStates /\ p.state # "failed"
      BY <2>1 DEF PlaybackStates, Active
    <3> QED
      BY <2>1, <3>1, <1>5 DEF Pause
  <2>2. CASE p.state \notin Active
    BY <2>2, <1>1 DEF Pause
  <2> QED
    BY <2>1, <2>2
<1>7. Light(p, EndSource(p))
  BY DEF Light, SourceType, EndSource
<1>8. Light(p, [p EXCEPT !.crossed = TRUE])
  BY DEF Light, SourceType
<1> QED
  BY <1>1, <1>2, <1>4, <1>5, <1>6, <1>7, <1>8

LEMMA LightAgain ==
    ASSUME NEW p, NEW q, NEW r, Light(p, q), Light(q, r)
    PROVE  Light(p, r)
BY DEF Light

LEMMA StartedIsLight ==
    ASSUME NEW p \in SourceType, p.state # "failed"
    PROVE  Light(p, Started(p)) /\ Started(p).state # "failed"
<1> DEFINE s == IF p.ended THEN IF Drained(p) THEN "ended" ELSE "draining"
                ELSE IF Len(p.ring) >= Threshold THEN "playing" ELSE "buffering"
<1>1. s \in PlaybackStates \ {"failed"}
  BY DEF PlaybackStates
<1>2. Started(p) = [p EXCEPT !.state = s]
  BY DEF Started
<1> HIDE DEF s
<1>3. Light(p, [p EXCEPT !.state = s])
  BY <1>1, LightMoves
<1>4. [p EXCEPT !.state = s].state = s
  BY DEF SourceType
<1> QED
  BY <1>1, <1>2, <1>3, <1>4

LEMMA FlushMoves ==
    ASSUME NEW p, NEW t, GoodSource(p, t)
    PROVE  /\ Flushed(Stop(p), t) /\ Flushed(StopFails(p), t) /\ Flushed(SeekFails(p), t)
           /\ Flushed(Started(Stop(p)), t)
           /\ Stop(p).state = "stopped" /\ StopFails(p).state = "failed"
           /\ Started(Stop(p)).state # "failed"
           /\ \A target \in Nat : CanSeek(p, target) => Flushed(Seek(p, target), t)
           /\ \A q \in {Stop(p), StopFails(p), SeekFails(p), Started(Stop(p))} :
                 q.decoder.token = p.decoder.token
           /\ \A target \in Nat :
                 CanSeek(p, target) => Seek(p, target).decoder.token = p.decoder.token
<1>1. p \in SourceType /\ p.decoder.at <= p.decoder.length /\ p.decoder.token <= t
  BY DEF GoodSource
<1>2. /\ p.decoder \in [token : Tokens, length : Lengths, at : 0..Longest]
      /\ p.decoder.length \in Nat \ {0} /\ p.decoder.length \in Lengths /\ p.offset \in Nat
      /\ p.state \in PlaybackStates /\ p.decoder.at \in Nat
  BY <1>1, SourceShape
<1>3. NoDecoder \in [token : Tokens \cup {0}, length : Lengths \cup {0}, at : {0}]
      /\ NoBoundary \in Nat /\ <<>> \in Seq(FrameType) /\ 0 \in 0..Longest
  BY LongestIsOne DEF NoDecoder, NoBoundary
<1>4. ClearBuffer(p) \in SourceType /\ Flush(p) \in SourceType /\ Collapse(p) \in SourceType
  <2>1. ClearBuffer(p) \in SourceType
    BY <1>1, <1>3 DEF ClearBuffer, SourceType
  <2>2. Flush(p) \in SourceType
    BY ZenonT(60), <2>1, <1>2, <1>3 DEF Flush, SourceType, PlaybackStates
  <2>3. Collapse(p) \in SourceType
    BY <2>1, <1>2, <1>3 DEF Collapse, SourceType, PlaybackStates
  <2> QED
    BY <2>1, <2>2, <2>3
<1>5. /\ Collapse(p).ring = <<>> /\ Collapse(p).chunk = <<>> /\ Collapse(p).next = NoDecoder
      /\ Collapse(p).boundary = NoBoundary /\ ~Collapse(p).crossed /\ Collapse(p).decoder = p.decoder
      /\ Collapse(p).state = "stopped" /\ Collapse(p).offset = 0 /\ ~Collapse(p).ended
  BY <1>1 DEF Collapse, ClearBuffer, SourceType
<1>6. /\ Flush(p).ring = <<>> /\ Flush(p).chunk = <<>> /\ Flush(p).next = NoDecoder
      /\ Flush(p).boundary = NoBoundary /\ ~Flush(p).crossed /\ Flush(p).decoder = p.decoder
      /\ Flush(p).offset = p.offset
  BY <1>1 DEF Flush, ClearBuffer, SourceType
<1>7. Flushed(Stop(p), t) /\ Stop(p).state = "stopped" /\ Stop(p).decoder.token = p.decoder.token
  <2>1. Stop(p) = [Collapse(p) EXCEPT !.decoder = [Collapse(p).decoder EXCEPT !.at = 0],
                                      !.produced = 0, !.position = 0]
    BY <1>4 DEF Stop, SourceType
  <2>2. [Collapse(p).decoder EXCEPT !.at = 0] \in [token : Tokens, length : Lengths, at : 0..Longest]
        /\ [Collapse(p).decoder EXCEPT !.at = 0].at = 0
        /\ [Collapse(p).decoder EXCEPT !.at = 0].length = p.decoder.length
        /\ [Collapse(p).decoder EXCEPT !.at = 0].token = p.decoder.token
    BY <1>2, <1>3, <1>5
  <2>3. Stop(p) \in SourceType
    <3>1. \A c \in SourceType, d \in [token : Tokens, length : Lengths, at : 0..Longest] :
             [c EXCEPT !.decoder = d, !.produced = 0, !.position = 0] \in SourceType
      BY DEF SourceType
    <3>2. ASSUME NEW c \in SourceType,
                 NEW d \in [token : Tokens, length : Lengths, at : 0..Longest]
          PROVE  [c EXCEPT !.decoder = d, !.produced = 0, !.position = 0] \in SourceType
      BY <3>1
    <3> DEFINE e == [Collapse(p).decoder EXCEPT !.at = 0]
               c == Collapse(p)
    <3>3. Stop(p) = [c EXCEPT !.decoder = e, !.produced = 0, !.position = 0]
      BY <2>1
    <3>4. c \in SourceType /\ e \in [token : Tokens, length : Lengths, at : 0..Longest]
      BY <1>4, <2>2
    <3> HIDE DEF c, e
    <3> QED
      BY ZenonT(60), <3>2, <3>3, <3>4
  <2>4. /\ Stop(p).decoder = [Collapse(p).decoder EXCEPT !.at = 0]
        /\ Stop(p).ring = <<>> /\ Stop(p).chunk = <<>> /\ Stop(p).next = NoDecoder
        /\ Stop(p).boundary = NoBoundary /\ ~Stop(p).crossed /\ Stop(p).state = "stopped"
        /\ Stop(p).offset = 0 /\ Stop(p).produced = 0 /\ Stop(p).position = 0
    BY <2>1, <1>4, <1>5 DEF SourceType
  <2> QED
    BY <2>2, <2>3, <2>4, <1>1, <1>2 DEF Flushed
<1>8. Flushed(StopFails(p), t) /\ StopFails(p).state = "failed" /\ StopFails(p).decoder = p.decoder
  BY ZenonT(60), <1>1, <1>4, <1>5 DEF StopFails, Flushed, SourceType, PlaybackStates
<1>9. Flushed(SeekFails(p), t) /\ SeekFails(p).decoder = p.decoder
  BY <1>1, <1>4, <1>6 DEF SeekFails, Flushed, SourceType, PlaybackStates
<1>10. /\ Flushed(Started(Stop(p)), t) /\ Started(Stop(p)).state # "failed"
       /\ Started(Stop(p)).decoder = Stop(p).decoder
  <2>1. Stop(p) \in SourceType /\ Stop(p).state # "failed"
    BY <1>7 DEF Flushed
  <2>2. Light(Stop(p), Started(Stop(p))) /\ Started(Stop(p)).state # "failed"
    BY <2>1, StartedIsLight, Zenon
  <2>3. Started(Stop(p)).crossed = Stop(p).crossed
    BY <2>1 DEF Started, SourceType
  <2> QED
    BY <2>1, <2>2, <2>3, <1>7 DEF Flushed, Light
<1>11. ASSUME NEW target \in Nat, CanSeek(p, target)
       PROVE  Flushed(Seek(p, target), t) /\ Seek(p, target).decoder.token = p.decoder.token
  <2>1. Seek(p, target) = [Flush(p) EXCEPT !.decoder = [Flush(p).decoder EXCEPT !.at = target - p.offset],
                                           !.produced = target, !.position = target]
    BY <1>4 DEF Seek, SourceType
  <2>2. target - p.offset \in 0..p.decoder.length /\ target = p.offset + (target - p.offset)
    BY <1>11, <1>2 DEF CanSeek
  <2>3. target - p.offset \in 0..Longest
    BY <2>2, <1>2, LongestIsOne
  <2>4. [Flush(p).decoder EXCEPT !.at = target - p.offset]
            \in [token : Tokens, length : Lengths, at : 0..Longest]
        /\ [Flush(p).decoder EXCEPT !.at = target - p.offset].at = target - p.offset
        /\ [Flush(p).decoder EXCEPT !.at = target - p.offset].length = p.decoder.length
        /\ [Flush(p).decoder EXCEPT !.at = target - p.offset].token = p.decoder.token
    BY <1>2, <2>3, <1>6
  <2>5. Seek(p, target) \in SourceType
    BY ZenonT(60), <2>1, <2>4, <1>4 DEF SourceType
  <2>6. /\ Seek(p, target).decoder = [Flush(p).decoder EXCEPT !.at = target - p.offset]
        /\ Seek(p, target).ring = <<>> /\ Seek(p, target).chunk = <<>>
        /\ Seek(p, target).next = NoDecoder
        /\ Seek(p, target).boundary = NoBoundary /\ ~Seek(p, target).crossed
        /\ Seek(p, target).offset = p.offset /\ Seek(p, target).produced = target
        /\ Seek(p, target).position = target
    BY <2>1, <1>4, <1>6 DEF SourceType
  <2> QED
    BY <2>2, <2>4, <2>5, <2>6, <1>1, <1>2 DEF Flushed
<1> QED
  BY <1>7, <1>8, <1>9, <1>10, <1>11

LEMMA OpenIsFlushed ==
    ASSUME NEW t \in Tokens, NEW length \in Lengths
    PROVE  Flushed(Open(t, length), t)
<1>1. Decoder(t, length) \in [token : Tokens, length : Lengths, at : 0..Longest]
      /\ length \in Nat \ {0} /\ t \in Nat
  BY LongestIsOne, PlaybackAssumption DEF Decoder, Tokens
<1>2. Open(t, length) \in SourceType
  BY <1>1 DEF Open, SourceType, PlaybackStates, NoDecoder, NoBoundary
<1> QED
  BY <1>1, <1>2 DEF Flushed, Open, Decoder, NoBoundary

-------------------------------------------------------------------------------
(* Types, step by step. *)

LEMMA TokensShape ==
    /\ Tokens \subseteq Nat \ {0} /\ MaxSources \in Nat /\ MaxCommands \in Nat /\ MaxFaults \in Nat
    /\ \A t \in Nat : t # 0 /\ t <= MaxSources => t \in Tokens
BY PlaybackAssumption, AuditionAssumption DEF Tokens

LEMMA BoundaryIsCounted == Typed => (Crosses => playback.boundary \in Nat)
BY SourceShape DEF Typed, Crosses, Loaded

LEMMA IdentityTypedStep ==
    ASSUME Typed, Next
    PROVE  IdentityTyped'
<1>1. /\ IdentityTyped /\ tokens \in Tokens \cup {0}
      /\ Crosses => playback.boundary \in Nat
  BY BoundaryIsCounted, TokensShape DEF Typed, RestTyped, CountersTyped
<1>2. CASE \/ LoadAndPlay \/ PlayStream \/ PauseStream \/ ClearSource \/ DeviceBack \/ SetTarget
           \/ Quiesce \/ OutputQuiet \/ Connect \/ Produce \/ RecoverOutput \/ FillLoop \/ Decode
           \/ Measure \/ Settle \/ Filled \/ Activate \/ Callback
  <2>1. UNCHANGED identity
    BY <1>2 DEF LoadAndPlay, PlayStream, PauseStream, ClearSource, DeviceBack, SetTarget, Quiesce,
       OutputQuiet, Connect, Produce, RecoverOutput, FillLoop, Decode, Measure, Settle, Filled,
       Activate, Callback, BeginCallback, Read, Advance, Latch, FinishCallback
  <2> QED
    BY <1>1, <2>1 DEF identity, IdentityTyped
<1>3. ASSUME NEW next \in Tokens \cup {0}, RebaseTo(next)
      PROVE  IdentityTyped'
  BY <1>1, <1>3 DEF RebaseTo, IdentityTyped
<1>4. CASE Publish \/ StopStream \/ SeekStream \/ Fail \/ ClearNextSource \/ QueueNextSource
  <2>1. 0 \in Tokens \cup {0} /\ pending \in Tokens \cup {0} /\ NextPending \in Tokens \cup {0}
    BY <1>1 DEF IdentityTyped, NextPending
  <2>2. QueueNextSource => tokens' \in Tokens \cup {0}
    BY <1>1, TokensShape DEF QueueNextSource, RequestedSource
  <2>3. \/ RebaseTo(NextPending) \/ RebaseTo(0) \/ RebaseTo(pending)
        \/ QueueNextSource /\ RebaseTo(tokens')
    BY <1>4 DEF Publish, StopStream, SeekStream, Fail, ClearNextSource, QueueNextSource, Rebase
  <2> QED
    BY <1>3, <2>1, <2>2, <2>3
<1>5. CASE SetBuffer \/ DeviceLost \/ StopQuiet \/ SeekQuiet \/ Start
  <2>1. /\ current' = current /\ pending' \in {0, pending} /\ base' \in {0, base}
        /\ orphaned' \in BOOLEAN
    BY <1>1, <1>5 DEF SetBuffer, DeviceLost, StopQuiet, SeekQuiet, Start, OrphanIf, identity,
       IdentityTyped
  <2> QED
    BY <1>1, <2>1 DEF IdentityTyped
<1>6. CASE Load \/ Clear
  <2>1. /\ current' \in {0, tokens} /\ pending' = 0 /\ base' = 0 /\ orphaned' = FALSE
    BY <1>6 DEF Load, Clear
  <2> QED
    BY <1>1, <2>1 DEF IdentityTyped
<1> QED
  BY <1>2, <1>4, <1>5, <1>6 DEF Next, User, Worker

LEMMA StreamTypedStep ==
    ASSUME Typed, WorkerRight, Next
    PROVE  StreamTyped'
<1>1. StreamTyped
  BY DEF Typed, RestTyped
<1>2. CASE \/ LoadAndPlay \/ PlayStream \/ PauseStream \/ StopStream \/ SeekStream \/ ClearSource
           \/ QueueNextSource \/ ClearNextSource \/ SetBuffer \/ Publish \/ StopQuiet \/ SeekQuiet
           \/ Fail \/ Start \/ Produce \/ RecoverOutput \/ FillLoop \/ Decode \/ Measure \/ Settle
           \/ Filled \/ Callback
  <2>1. UNCHANGED stream
    BY <1>2 DEF LoadAndPlay, PlayStream, PauseStream, StopStream, SeekStream, ClearSource,
       QueueNextSource, ClearNextSource, SetBuffer, Publish, StopQuiet, SeekQuiet, Fail, Start,
       Produce, RecoverOutput, FillLoop, Decode, Measure, Settle, Filled,
       Callback, BeginCallback, Read, Advance, Latch, FinishCallback
  <2> QED
    BY <1>1, <2>1 DEF stream, StreamTyped
<1>3. CASE DeviceLost \/ DeviceBack \/ SetTarget
  <2>1. /\ output' = output /\ active' = active /\ available' \in {TRUE, FALSE}
        /\ suspended' \in {TRUE, suspended}
    BY <1>3 DEF DeviceLost, DeviceBack, SetTarget
  <2> QED
    BY <1>1, <2>1 DEF StreamTyped
<1>4. CASE Quiesce
  BY <1>1, <1>4 DEF Quiesce, StreamTyped
<1>5. CASE Load \/ Clear \/ OutputQuiet
  <2>1. ~active /\ active' = active /\ available' = available
    BY <1>1, <1>5 DEF Load, Clear, OutputQuiet, Quiet, WorkerRight, StreamTyped
  <2>2. output' \in BOOLEAN /\ suspended' \in BOOLEAN
    BY <1>1, <1>5, Zenon DEF Load, Clear, OutputQuiet, StreamTyped
  <2> QED
    BY <1>1, <2>1, <2>2 DEF StreamTyped
<1>6. CASE Connect
  <2>1. /\ ~active /\ active' = active /\ available' = available
        /\ output' \in {TRUE, output} /\ suspended' \in {FALSE, suspended}
    BY <1>1, <1>6 DEF Connect, WorkerRight, StreamTyped
  <2> QED
    BY <1>1, <2>1 DEF StreamTyped
<1>7. CASE Activate
  BY <1>1, <1>7 DEF Activate, WorkerRight, StreamTyped
<1> QED
  BY <1>2, <1>3, <1>4, <1>5, <1>6, <1>7 DEF Next, User, Worker

LEMMA StatusTypedStep ==
    ASSUME Typed, Next
    PROVE  StatusTyped'
<1>1. StatusTyped
  BY DEF Typed, RestTyped
<1>2. CASE SetBuffer \/ Load \/ SeekQuiet \/ Clear \/ Fail \/ Activate
  BY <1>1, <1>2 DEF SetBuffer, Load, SeekQuiet, Clear, Fail, Activate, StatusTyped
<1>3. CASE ~(SetBuffer \/ Load \/ SeekQuiet \/ Clear \/ Fail \/ Activate)
  <2>1. UNCHANGED status
    BY <1>3 DEF Next, User, LoadAndPlay, PlayStream, PauseStream, StopStream, SeekStream,
       ClearSource, QueueNextSource, ClearNextSource, DeviceLost, DeviceBack, SetTarget,
       Worker, Publish, Quiesce, StopQuiet, OutputQuiet, Connect, Start, Produce, RecoverOutput,
       FillLoop, Decode, Measure, Settle, Filled,
       Callback, BeginCallback, Read, Advance, Latch, FinishCallback
  <2> QED
    BY <1>1, <2>1 DEF status, StatusTyped
<1> QED
  BY <1>2, <1>3

LEMMA CountersTypedStep ==
    ASSUME Typed, Next
    PROVE  CountersTyped'
<1>1. CountersTyped /\ MaxSources \in Nat /\ MaxCommands \in Nat /\ MaxFaults \in Nat
  BY TokensShape DEF Typed, RestTyped
<1>2. Requested \/ RequestedSource \/ Smooth \/ Fault
  BY DEF Next, User, LoadAndPlay, PlayStream, PauseStream, StopStream, SeekStream, ClearSource,
     QueueNextSource, ClearNextSource, SetBuffer, DeviceLost, DeviceBack, SetTarget,
     Worker, Publish, Quiesce, Load, StopQuiet, SeekQuiet, Clear, OutputQuiet, Fail, Connect,
     Start, Produce, RecoverOutput, FillLoop, Decode, Measure, Settle, Filled, Activate,
     Callback, BeginCallback, Read, Advance, Latch, FinishCallback, Smooth
<1> QED
  BY <1>1, <1>2 DEF Requested, RequestedSource, Command, Smooth, Fault, counters, CountersTyped

LEMMA RestStep ==
    ASSUME Typed, WorkerRight, Next
    PROVE  RestTyped'
BY IdentityTypedStep, StreamTypedStep, StatusTypedStep, CountersTypedStep DEF RestTyped

-------------------------------------------------------------------------------
(* The source, step by step. *)

LEMMA TokensGrow ==
    ASSUME Typed, Next
    PROVE  tokens \in Nat /\ tokens' \in Nat /\ tokens <= tokens'
<1>1. tokens \in Nat /\ tokens + 1 \in Nat
  BY TokensShape DEF Typed, RestTyped, CountersTyped
<1>2. User => tokens' = tokens \/ tokens' = tokens + 1
  BY DEF User, LoadAndPlay, PlayStream, PauseStream, StopStream, SeekStream, ClearSource,
         QueueNextSource, ClearNextSource, SetBuffer, DeviceLost, DeviceBack, SetTarget,
         Requested, RequestedSource
<1>3. Callback => tokens' = tokens
  BY DEF Callback, BeginCallback, Read, Advance, Latch, FinishCallback, counters
<1>4. Worker => tokens' = tokens
  BY DEF Worker, Publish, Quiesce, Load, StopQuiet, SeekQuiet, Clear, OutputQuiet, Fail,
         Connect, Start, Produce, RecoverOutput, FillLoop, Decode, Measure, Settle, Filled,
         Activate, counters, Fault, Smooth
<1> QED
  BY <1>1, <1>2, <1>3, <1>4 DEF Next

LEMMA LightStep ==
    ASSUME Typed, SourceRight, Next, heard' = heard, callback'.got = callback.got,
           playback' = playback \/ (Loaded /\ Light(playback, playback'))
    PROVE  SourceRight' /\ (playback \in SourceType => playback' \in SourceType)
<1>1. CASE ~Loaded
  BY <1>1 DEF SourceRight, Loaded
<1>2. CASE Loaded
  <2>1. playback \in SourceType
    BY <1>2 DEF Typed, Loaded
  <2>2. Light(playback, playback')
    BY <1>2, <2>1, LightMoves
  <2>3. Right(playback, tokens, callback.got, heard)
    BY <1>2 DEF SourceRight, Right
  <2>4. Right(playback', tokens', callback.got, heard)
    BY <2>2, <2>3, TokensGrow, LightIsRight
  <2> QED
    BY <2>2, <2>4 DEF SourceRight, Right, Light
<1> QED
  BY <1>1, <1>2

LEMMA RightStep ==
    ASSUME Right(playback', tokens', callback'.got, heard')
    PROVE  SourceRight' /\ playback' \in SourceType /\ Loaded'
<1>1. GoodSource(playback', tokens') /\ Counted(playback', callback'.got) /\ Chained(playback', heard')
  BY DEF Right
<1>2. playback' \in SourceType
  BY <1>1 DEF GoodSource
<1>3. Loaded'
  BY <1>2, SourceShape DEF Loaded
<1> QED
  BY <1>1, <1>2, <1>3 DEF SourceRight

LEMMA FlushStep ==
    ASSUME Typed, CallbackRight, Next, callback.pc = "idle", callback' = callback,
           heard' = NoFrame, Flushed(playback', tokens')
    PROVE  SourceRight' /\ playback' \in SourceType /\ Loaded'
<1>1. callback'.got = 0
  BY DEF CallbackRight
<1>2. Right(playback', tokens', callback'.got, heard')
  BY <1>1, TokensGrow, FlushedIsRight
<1> QED
  BY <1>2, RightStep

LEMMA QueuedIsRight ==
    ASSUME NEW p, NEW t \in Nat, NEW got, NEW h, NEW u, NEW length \in Lengths,
           Right(p, t, got, h), p.boundary = NoBoundary, u = t + 1, u \in Tokens
    PROVE  Right(QueueNext(p, u, length), u, got, h)
<1> DEFINE q == QueueNext(p, u, length)
<1>1. p \in SourceType /\ GoodSource(p, t) /\ Counted(p, got) /\ Chained(p, h)
  BY DEF Right, GoodSource
<1>2. Decoder(u, length) \in [token : Tokens \cup {0}, length : Lengths \cup {0}, at : {0}]
      /\ Decoder(u, length).token = u /\ Decoder(u, length).length = length
  BY DEF Decoder
<1>3. /\ q \in SourceType /\ q.next = Decoder(u, length) /\ SameSource([p EXCEPT !.next = q.next], q)
      /\ q.ring = p.ring /\ q.chunk = p.chunk /\ q.decoder = p.decoder /\ q.boundary = p.boundary
      /\ q.state = p.state /\ q.position = p.position /\ q.produced = p.produced /\ q.offset = p.offset
  BY <1>1, <1>2 DEF QueueNext, SourceType, SameSource
<1> HIDE DEF q
<1>4. GoodSource(q, u)
  <2>1. p.decoder.token \in Nat /\ t < u /\ p.decoder.token <= t
    BY <1>1, SourceShape DEF GoodSource
  <2>2. p.decoder.token <= u /\ u # p.decoder.token /\ u <= u
    BY <2>1
  <2> QED
    BY <2>2, <1>1, <1>2, <1>3 DEF GoodSource
<1>5. Waits(q) = Waits(p) /\ \A f, i : At(q, f, i) = At(p, f, i)
  BY <1>3 DEF Waits, At
<1>6. Counted(q, got) /\ Chained(q, h)
  BY <1>1, <1>3, <1>5 DEF Counted, Chained
<1> QED
  BY <1>4, <1>6 DEF Right, q

(* The acknowledgement, and the states the callback and the worker leave. *)
LEMMA AcknowledgedIsLight ==
    ASSUME Typed, Loaded
    PROVE  /\ Light(playback, Acknowledged) /\ Acknowledged.state = playback.state
           /\ Light(playback, ClearNext(Acknowledged)) /\ ClearNext(Acknowledged).next = NoDecoder
           /\ ClearNext(Acknowledged).boundary = Acknowledged.boundary
           /\ Acknowledged.next = playback.next
           /\ Acknowledged.boundary = IF playback.crossed THEN NoBoundary ELSE playback.boundary
           /\ ~Acknowledged.crossed
<1>1. playback \in SourceType
  BY DEF Typed, Loaded
<1>2. Light(playback, Acknowledged)
  BY <1>1, LightMoves DEF Acknowledged
<1>3. Acknowledged \in SourceType
  BY <1>2 DEF Light
<1>4. Light(Acknowledged, ClearNext(Acknowledged))
  BY <1>3, LightMoves
<1>5. ClearNext(Acknowledged).next = NoDecoder /\ ClearNext(Acknowledged).boundary = Acknowledged.boundary
  BY <1>3 DEF ClearNext, SourceType
<1>6. /\ Acknowledged.state = playback.state /\ Acknowledged.next = playback.next
      /\ Acknowledged.boundary = IF playback.crossed THEN NoBoundary ELSE playback.boundary
      /\ ~Acknowledged.crossed
  BY <1>1 DEF Acknowledged, TakeChainCrossing, SourceType
<1> QED
  BY <1>2, <1>4, <1>5, <1>6, LightAgain

LEMMA AfterRenderIsLight ==
    ASSUME Typed, CallbackRight, Loaded, callback.pc = "finish"
    PROVE  AfterRender \in PlaybackStates /\ (playback.state = "failed" <=> AfterRender = "failed")
BY SourceShape DEF Typed, Loaded, AfterRender, CallbackType, CallbackRight, PlaybackStates

Untouched ==
    \/ LoadAndPlay \/ PlayStream \/ ClearSource \/ DeviceBack \/ SetTarget \/ Quiesce
    \/ OutputQuiet \/ Connect \/ Produce \/ RecoverOutput \/ Filled \/ Activate \/ BeginCallback
Touched ==
    \/ PauseStream \/ StopStream \/ SeekStream \/ ClearNextSource \/ SetBuffer \/ DeviceLost
    \/ Publish \/ Fail \/ Measure \/ Settle \/ Latch \/ FinishCallback

LEMMA UntouchedFrame ==
    ASSUME CallbackRight, Untouched
    PROVE  playback' = playback /\ heard' = heard /\ callback'.got = callback.got
<1>1. CASE BeginCallback
  BY <1>1 DEF BeginCallback, Rendering, CallbackRight
<1>2. CASE ~BeginCallback
  BY <1>2 DEF Untouched, LoadAndPlay, PlayStream, ClearSource, DeviceBack, SetTarget, Quiesce,
              OutputQuiet, Connect, Produce, RecoverOutput, Filled, Activate
<1> QED
  BY <1>1, <1>2

LEMMA TouchedFrame ==
    ASSUME Typed, CallbackRight, WorkerRight, Touched
    PROVE  /\ heard' = heard /\ callback'.got = callback.got
           /\ playback' = playback \/ (Loaded /\ Light(playback, playback'))
<1>1. CASE PauseStream
  <2>1. Loaded /\ playback' = Pause(playback) /\ callback' = callback /\ heard' = heard
    BY <1>1 DEF PauseStream
  <2> QED
    BY <2>1, LightMoves DEF Typed, Loaded
<1>2. CASE StopStream
  BY <1>2, AcknowledgedIsLight DEF StopStream
<1>3. CASE SeekStream
  BY <1>3, AcknowledgedIsLight DEF SeekStream
<1>4. CASE ClearNextSource
  BY <1>4, AcknowledgedIsLight DEF ClearNextSource
<1>5. CASE SetBuffer
  <2>1. Loaded /\ playback' \in {playback, ClearNext(playback)} /\ callback' = callback /\ heard' = heard
    BY <1>5 DEF SetBuffer, Requested
  <2> QED
    BY <2>1, LightMoves DEF Typed, Loaded
<1>6. CASE DeviceLost
  <2>1. /\ playback' = playback \/ (Loaded /\ playback' = ClearNext(Pause(playback)))
        /\ callback' = callback /\ heard' = heard
    BY <1>6 DEF DeviceLost
  <2>2. ASSUME Loaded PROVE Light(playback, ClearNext(Pause(playback)))
    <3>1. playback \in SourceType
      BY <2>2 DEF Typed, Loaded
    <3>2. Light(playback, Pause(playback)) /\ Pause(playback) \in SourceType
      BY <3>1, LightMoves DEF Light
    <3>3. Light(Pause(playback), ClearNext(Pause(playback)))
      BY <3>2, LightMoves
    <3> QED
      BY <3>2, <3>3, LightAgain
  <2> QED
    BY <2>1, <2>2
<1>7. CASE Publish
  <2>1. playback' = Acknowledged /\ callback' = callback /\ heard' = heard
    BY <1>7 DEF Publish
  <2>2. ~Loaded => Acknowledged = playback
    BY DEF Acknowledged
  <2> QED
    BY <2>1, <2>2, AcknowledgedIsLight
<1>8. CASE Fail
  <2>1. playback' = Acknowledged /\ callback' = callback /\ heard' = heard
    BY <1>8 DEF Fail
  <2>2. ~Loaded => Acknowledged = playback
    BY DEF Acknowledged
  <2> QED
    BY <2>1, <2>2, AcknowledgedIsLight
<1>9. CASE Measure
  <2>1. Loaded /\ playback \in SourceType /\ callback' = callback /\ heard' = heard
    BY <1>9 DEF Measure, WorkerRight, Typed, Loaded
  <2> DEFINE s == IF playback.state = "buffering" /\ Len(playback.ring) >= Threshold
                    THEN "playing" ELSE playback.state
  <2>2. s \in PlaybackStates /\ (playback.state = "failed" => s = "failed")
    BY <2>1, SourceShape DEF PlaybackStates
  <2>3. playback' = playback \/ playback' = [playback EXCEPT !.state = s]
    BY <2>1, <1>9 DEF Measure, SourceType
  <2> HIDE DEF s
  <2> QED
    BY <2>1, <2>2, <2>3, LightMoves
<1>10. CASE Settle
  <2>1. /\ Loaded /\ playback \in SourceType /\ callback' = callback /\ heard' = heard
        /\ worker.saw \in Active /\ worker.goal \in PlaybackStates
    BY <1>10 DEF Settle, WorkerRight, Typed, Loaded, WorkerType, PlaybackStates
  <2>2. \/ playback' = playback
        \/ playback' = [playback EXCEPT !.state = worker.goal] /\ playback.state = worker.saw
    BY <1>10 DEF Settle
  <2>3. playback.state = worker.saw => playback.state # "failed"
    BY <2>1 DEF Active
  <2> QED
    BY <2>1, <2>2, <2>3, LightMoves
<1>11. CASE Latch
  <2>1. Loaded /\ playback \in SourceType
    BY <1>11 DEF Latch, CallbackRight, Typed, Loaded
  <2>2. callback'.got = callback.got /\ heard' = heard /\ playback' = [playback EXCEPT !.crossed = TRUE]
    BY <1>11 DEF Latch, Typed, CallbackType
  <2> QED
    BY <2>1, <2>2, LightMoves
<1>12. CASE FinishCallback
  <2>1. Loaded /\ playback \in SourceType /\ callback.pc = "finish"
    BY <1>12 DEF FinishCallback, CallbackRight, Typed, Loaded
  <2>2. callback'.got = callback.got /\ heard' = heard
        /\ playback' = [playback EXCEPT !.state = AfterRender]
    BY <1>12 DEF FinishCallback, CallbackRight, Resting, Rendering
  <2>3. AfterRender \in PlaybackStates /\ (playback.state = "failed" => AfterRender = "failed")
    BY <2>1, AfterRenderIsLight
  <2> QED
    BY <2>1, <2>2, <2>3, LightMoves
<1> QED
  BY <1>1, <1>2, <1>3, <1>4, <1>5, <1>6, <1>7, <1>8, <1>9, <1>10, <1>11, <1>12 DEF Touched

InOrder == heard' # heard /\ heard # NoFrame /\ heard' # NoFrame => Follows(playback.ring[1], heard)

PlayStep ==
    /\ SourceRight' /\ playback' \in SourceType \cup {NoSource} /\ heard' \in FrameType
    /\ InOrder

LEMMA NoFrameIsTyped == NoFrame \in FrameType
BY DEF NoFrame, FrameType

LEMMA QuietStep ==
    ASSUME Typed, SourceRight, Next, heard' = heard, callback'.got = callback.got,
           playback' = playback \/ (Loaded /\ Light(playback, playback'))
    PROVE  PlayStep
<1>1. SourceRight'
  BY LightStep
<1>2. playback' \in SourceType \cup {NoSource}
  BY DEF Typed, Light
<1> QED
  BY <1>1, <1>2 DEF PlayStep, InOrder, Typed

LEMMA FlushPlays ==
    ASSUME Typed, CallbackRight, Next, callback.pc = "idle", callback' = callback,
           heard' = NoFrame, Flushed(playback', tokens') \/ playback' = NoSource
    PROVE  PlayStep
<1>1. CASE Flushed(playback', tokens')
  BY <1>1, FlushStep, NoFrameIsTyped DEF PlayStep, InOrder
<1>2. CASE playback' = NoSource
  BY <1>2, NoFrameIsTyped DEF PlayStep, InOrder, SourceRight, Loaded
<1> QED
  BY <1>1, <1>2

LEMMA ReadPlays ==
    ASSUME Typed, CallbackRight, SourceRight, Next, Read
    PROVE  PlayStep
<1>1. PICK asked \in 1..Quantum :
         LET got == Smaller(asked, Len(playback.ring))
          IN /\ callback' = Rendering("advance", callback.saw, got, got < asked)
             /\ playback' = [playback EXCEPT !.ring = SubSeq(@, got + 1, Len(@))]
             /\ heard' = IF got > 0 THEN playback.ring[got] ELSE heard
  BY DEF Read
<1> DEFINE got == Smaller(asked, Len(playback.ring))
<1>2. /\ callback.pc = "read" /\ callback.got = 0 /\ Loaded /\ playback \in SourceType
      /\ tokens' = tokens
  BY DEF Read, CallbackRight, Loaded, Typed, counters
<1>3. got \in 0..Len(playback.ring)
  <2>1. Len(playback.ring) \in Nat /\ Quantum \in Nat
    BY <1>2, SourceShape, AuditionAssumption
  <2> QED
    BY <2>1 DEF Smaller
<1>4. /\ callback'.got = got
      /\ playback' = [playback EXCEPT !.ring = SubSeq(playback.ring, got + 1, Len(playback.ring))]
      /\ heard' = IF got > 0 THEN playback.ring[got] ELSE heard
  BY <1>1, <1>2 DEF Rendering
<1> HIDE DEF got
<1>5. playback.ring \in Seq(FrameType)
  BY <1>2, SourceShape
<1>6. SubSeq(playback.ring, got + 1, Len(playback.ring)) \in Seq(FrameType)
  BY <1>3, <1>5, AfterFirst
<1>7. /\ playback' \in SourceType /\ SameSource(playback, playback')
      /\ playback'.chunk = playback.chunk
      /\ playback'.ring = SubSeq(playback.ring, got + 1, Len(playback.ring))
  BY <1>2, <1>4, <1>6 DEF SourceType, SameSource
<1>8. Right(playback, tokens, 0, heard)
  BY <1>2 DEF SourceRight, Right
<1>9. /\ Right(playback', tokens, got, heard')
      /\ got > 0 => playback.ring[got] \in FrameType
      /\ got > 0 /\ heard # NoFrame => Follows(playback.ring[1], heard)
  <2>1. /\ Right(playback', tokens, got, IF got > 0 THEN playback.ring[got] ELSE heard)
        /\ got > 0 => playback.ring[got] \in FrameType
        /\ got > 0 /\ heard # NoFrame => Follows(playback.ring[1], heard)
    <3>1. ASSUME NEW p, NEW q, NEW t, NEW h, Right(p, t, 0, h), got \in 0..Len(p.ring),
                 q \in SourceType, SameSource(p, q), q.chunk = p.chunk,
                 q.ring = SubSeq(p.ring, got + 1, Len(p.ring))
          PROVE  /\ Right(q, t, got, IF got > 0 THEN p.ring[got] ELSE h)
                 /\ got > 0 => p.ring[got] \in FrameType
                 /\ got > 0 /\ h # NoFrame => Follows(p.ring[1], h)
      BY <3>1, ReadIsRight
    <3> QED
      <4>1. /\ playback' \in SourceType /\ SameSource(playback, playback')
            /\ playback'.chunk = playback.chunk
            /\ playback'.ring = SubSeq(playback.ring, got + 1, Len(playback.ring))
        BY <1>7
      <4>2. Right(playback, tokens, 0, heard) /\ got \in 0..Len(playback.ring)
        BY <1>3, <1>8
      <4> QED
        BY <3>1, <4>1, <4>2
  <2> QED
    BY <2>1, <1>4
<1>10. SourceRight'
  BY <1>2, <1>4, <1>9, RightStep
<1>11. heard' \in FrameType /\ InOrder
  BY <1>4, <1>9 DEF InOrder, Typed
<1> QED
  BY <1>7, <1>10, <1>11 DEF PlayStep

LEMMA AdvancePlays ==
    ASSUME Typed, CallbackRight, SourceRight, Next, Advance
    PROVE  /\ PlayStep
           /\ playback' = [playback EXCEPT !.position = playback.position + callback.got]
           /\ playback \in SourceType /\ callback'.got = 0
<1>1. /\ Loaded /\ playback \in SourceType /\ callback.got \in Nat /\ callback'.got = 0
      /\ playback' = [playback EXCEPT !.position = playback.position + callback.got]
      /\ heard' = heard /\ tokens' = tokens
  BY AuditionAssumption DEF Advance, CallbackRight, Loaded, Typed, CallbackType, counters
<1>2. playback.position \in Nat /\ playback.position + callback.got \in Nat
  BY <1>1, SourceShape
<1>3. /\ playback' \in SourceType /\ playback'.position = playback.position + callback.got
      /\ playback'.ring = playback.ring /\ playback'.chunk = playback.chunk
      /\ playback'.decoder = playback.decoder /\ playback'.next = playback.next
      /\ playback'.offset = playback.offset /\ playback'.produced = playback.produced
      /\ playback'.boundary = playback.boundary /\ playback'.state = playback.state
  BY <1>1, <1>2 DEF SourceType
<1>4. Right(playback, tokens, callback.got, heard)
  BY <1>1 DEF SourceRight, Right
<1>5. Waits(playback') = Waits(playback) /\ \A f, i : At(playback', f, i) = At(playback, f, i)
  BY <1>3 DEF Waits, At
<1>6. GoodSource(playback', tokens)
  <2>1. SameSource([playback EXCEPT !.position = playback'.position], playback')
    BY <1>1, <1>3 DEF SameSource, SourceType
  <2> QED
    BY <1>3, <1>4 DEF Right, GoodSource
<1>7. Counted(playback', 0)
  <2>1. Waits(playback) \in Nat
    BY <1>1, SourceShape
  <2> QED
    BY <2>1, <1>1, <1>2, <1>3, <1>4, <1>5 DEF Right, Counted
<1>8. Chained(playback', heard)
  BY <1>3, <1>4, <1>5 DEF Right, Chained
<1>9. SourceRight'
  BY <1>1, <1>6, <1>7, <1>8, RightStep DEF Right
<1> QED
  BY <1>1, <1>3, <1>9 DEF PlayStep, InOrder, Typed

LEMMA WritableShape ==
    ASSUME NEW p, NEW t, GoodSource(p, t), NEW budget \in 0..Capacity
    PROVE  /\ Writable(p, budget) \in 0..Len(p.chunk) /\ Writable(p, budget) <= Capacity - Len(p.ring)
           /\ Writable(p, budget) <= budget /\ Writable(p, budget) \in Nat
           /\ budget - Writable(p, budget) \in 0..Capacity
<1>1. Len(p.ring) \in Nat /\ Len(p.chunk) \in Nat /\ Len(p.ring) <= Capacity
      /\ Capacity \in Nat /\ budget \in Nat
  BY SourceShape, PlaybackAssumption DEF GoodSource
<1> DEFINE a == Len(p.ring)
           c == Len(p.chunk)
<1>2. a \in Nat /\ c \in Nat /\ a <= Capacity /\ Capacity \in Nat /\ budget \in Nat /\ budget <= Capacity
  BY <1>1
<1>3. Writable(p, budget) = Smaller(Smaller(budget, c), Capacity - a)
  BY DEF Writable
<1> HIDE DEF a, c
<1>4. /\ Smaller(Smaller(budget, c), Capacity - a) \in 0..c
      /\ Smaller(Smaller(budget, c), Capacity - a) <= Capacity - a
      /\ Smaller(Smaller(budget, c), Capacity - a) <= budget
      /\ Smaller(Smaller(budget, c), Capacity - a) \in Nat
      /\ budget - Smaller(Smaller(budget, c), Capacity - a) \in 0..Capacity
  BY <1>2 DEF Smaller
<1> QED
  BY <1>3, <1>4 DEF a, c

LEMMA WrittenSource ==
    ASSUME NEW p, NEW t, GoodSource(p, t), NEW n \in 0..Len(p.chunk)
    PROVE  /\ WritePending(p, n) \in SourceType /\ SameSource(p, WritePending(p, n))
           /\ WritePending(p, n).ring = p.ring \o SubSeq(p.chunk, 1, n)
           /\ WritePending(p, n).chunk = SubSeq(p.chunk, n + 1, Len(p.chunk))
           /\ WritePending(p, n).crossed = p.crossed
<1>1. p \in SourceType /\ p.ring \in Seq(FrameType) /\ p.chunk \in Seq(FrameType)
  BY SourceShape DEF GoodSource
<1>2. SubSeq(p.chunk, 1, n) \in Seq(FrameType)
      /\ SubSeq(p.chunk, n + 1, Len(p.chunk)) \in Seq(FrameType)
  BY <1>1, FirstOf, AfterFirst
<1>3. p.ring \o SubSeq(p.chunk, 1, n) \in Seq(FrameType)
  BY <1>1, <1>2, ConcatProperties, Zenon
<1> DEFINE r == p.ring \o SubSeq(p.chunk, 1, n)
           c == SubSeq(p.chunk, n + 1, Len(p.chunk))
<1>4. WritePending(p, n) = [p EXCEPT !.ring = r, !.chunk = c]
  BY <1>1 DEF WritePending, SourceType
<1>5. r \in Seq(FrameType) /\ c \in Seq(FrameType)
  BY <1>2, <1>3
<1> HIDE DEF r, c
<1>6. /\ WritePending(p, n) \in SourceType /\ SameSource(p, WritePending(p, n))
      /\ WritePending(p, n).ring = r /\ WritePending(p, n).chunk = c
      /\ WritePending(p, n).crossed = p.crossed
  BY <1>1, <1>4, <1>5 DEF SourceType, SameSource
<1> QED
  BY <1>6 DEF r, c

LEMMA WritePlays ==
    ASSUME Typed, WorkerRight, SourceRight, Next, FillLoop
    PROVE  /\ PlayStep /\ worker'.budget \in 0..Capacity
           /\ worker'.pc = "decode" => playback'.chunk = <<>>
           /\ Loaded /\ playback'.state = playback.state
<1>1. Loaded /\ callback' = callback /\ heard' = heard /\ tokens' = tokens
      /\ worker \in WorkerType
  BY DEF FillLoop, WorkerRight, counters, Smooth, Typed
<1>2. Right(playback, tokens, callback.got, heard) /\ GoodSource(playback, tokens)
  BY <1>1 DEF SourceRight, Right
<1>3. worker.budget \in 0..Capacity
  BY <1>1 DEF WorkerType
<1> DEFINE n == Writable(playback, worker.budget)
<1>4. /\ n \in 0..Len(playback.chunk) /\ n <= Capacity - Len(playback.ring)
      /\ worker.budget - n \in 0..Capacity
  BY <1>2, <1>3, WritableShape
<1>5. CASE playback' = WritePending(playback, n)
           /\ worker' = [worker EXCEPT !.budget = @ - n,
                             !.pc = IF n < Len(playback.chunk) \/ playback.ended
                                      THEN "measure" ELSE "decode"]
  <2> HIDE DEF n
  <2>1. /\ playback' \in SourceType /\ SameSource(playback, playback')
        /\ playback'.ring = playback.ring \o SubSeq(playback.chunk, 1, n)
        /\ playback'.chunk = SubSeq(playback.chunk, n + 1, Len(playback.chunk))
    BY <1>2, <1>4, <1>5, WrittenSource
  <2>2. Right(playback', tokens, callback.got, heard)
    BY <1>2, <1>4, <2>1, WriteIsRight
  <2>3. SourceRight'
    BY <1>1, <2>2, RightStep
  <2>4. ASSUME worker'.pc = "decode" PROVE playback'.chunk = <<>>
    <3>1. ~(n < Len(playback.chunk))
      BY <2>4, <1>1, <1>5 DEF WorkerType
    <3>2. Len(playback.chunk) \in Nat /\ playback \in SourceType
      BY <1>2, SourceShape DEF GoodSource
    <3>3. n = Len(playback.chunk)
      BY <3>1, <3>2, <1>4
    <3>4. SubSeq(playback.chunk, n + 1, Len(playback.chunk)) = <<>>
      BY <3>2, <3>3, SubSeqEmpty
    <3> QED
      BY <3>4, <2>1
  <2>5. worker'.budget \in 0..Capacity
    BY <1>1, <1>4, <1>5 DEF WorkerType
  <2> QED
    BY <1>1, <2>1, <2>3, <2>4, <2>5 DEF PlayStep, InOrder, Typed, SameSource
<1>6. CASE UNCHANGED playback /\ Goto("measure")
  <2>1. worker'.pc = "measure" /\ worker'.budget = worker.budget
    BY <1>1, <1>6 DEF Goto, WorkerType
  <2>2. PlayStep
    BY <1>1, <1>6, QuietStep
  <2> QED
    BY <1>1, <1>3, <1>6, <2>1, <2>2
<1> QED
  BY <1>5, <1>6 DEF FillLoop

LEMMA DecodePlays ==
    ASSUME Typed, WorkerRight, SourceRight, Next, Decode
    PROVE  /\ PlayStep /\ Loaded
           /\ worker'.pc \in {"fill", "measure"} => playback'.state = playback.state
<1>1. /\ Loaded /\ callback' = callback /\ heard' = heard /\ tokens' = tokens
      /\ worker \in WorkerType /\ playback.state # "failed" /\ playback.chunk = <<>>
      /\ playback \in SourceType
  BY DEF Decode, WorkerRight, counters, Smooth, Fault, Typed, Loaded
<1>2. Right(playback, tokens, callback.got, heard) /\ GoodSource(playback, tokens)
  BY <1>1 DEF SourceRight, Right
<1>3. /\ callback.got \in Nat /\ tokens \in Nat
      /\ playback.decoder.length \in Nat \ {0} /\ playback.decoder.at \in Nat
      /\ playback.decoder.at <= playback.decoder.length /\ playback.decoder.length \in Lengths
      /\ playback.produced \in Nat
  BY <1>1, <1>2, SourceShape, TokensGrow, AuditionAssumption DEF GoodSource, Typed, CallbackType
<1> DEFINE rest == playback.decoder.length - playback.decoder.at
<1>4. CASE \E n \in 1..Smaller(MaxChunk, rest) : playback' = DecodeChunk(playback, n)
  <2>1. PICK n \in 1..Smaller(MaxChunk, rest) : playback' = DecodeChunk(playback, n)
    BY <1>4
  <2>2. n \in Nat \ {0} /\ n <= MaxChunk /\ playback.decoder.at + n <= playback.decoder.length
    BY <1>3, PlaybackAssumption DEF Smaller
  <2>3. playback.decoder.at + n \in 0..Longest /\ playback.produced + n \in Nat
    BY <1>3, <2>2, LongestIsOne
  <2> DEFINE c == Frames(playback.decoder, n)
             d == [playback.decoder EXCEPT !.at = playback.decoder.at + n]
             m == playback.produced + n
  <2>4. c \in Seq(FrameType)
    BY <1>1, <2>2, FramesShape, SourceShape
  <2>5. /\ d \in [token : Tokens, length : Lengths, at : 0..Longest]
        /\ d.token = playback.decoder.token /\ d.length = playback.decoder.length
        /\ d.at = playback.decoder.at + n
    BY <1>1, <2>3, SourceShape
  <2>6. playback' = [playback EXCEPT !.chunk = c, !.decoder = d, !.produced = m] /\ m \in Nat
    BY <1>1, <2>1, <2>3 DEF DecodeChunk, SourceType
  <2> HIDE DEF c, d, m
  <2>7. /\ playback' \in SourceType /\ playback'.ring = playback.ring /\ playback'.chunk = c
        /\ playback'.decoder = d /\ playback'.produced = m
        /\ playback'.next = playback.next /\ playback'.offset = playback.offset
        /\ playback'.position = playback.position /\ playback'.boundary = playback.boundary
        /\ playback'.state = playback.state
    BY <1>1, <2>4, <2>5, <2>6 DEF SourceType
  <2>8. Right(playback', tokens, callback.got, heard)
    <3>1. c = Frames(playback.decoder, n) /\ m = playback.produced + n
      BY DEF c, m
    <3> QED
      BY <1>1, <1>2, <1>3, <2>2, <2>5, <2>7, <3>1, DecodeIsRight
  <2>9. SourceRight'
    BY <1>1, <2>8, RightStep
  <2> QED
    BY <1>1, <2>7, <2>9 DEF PlayStep, InOrder, Typed
<1>5. CASE rest = 0 /\ playback.next # NoDecoder /\ playback' = TakeOver(playback)
  <2>1. playback.decoder.at = playback.decoder.length
    BY <1>3, <1>5
  <2>2. playback.next.token \in Tokens /\ playback.next.length \in Lengths
        /\ playback.next \in [token : Tokens \cup {0}, length : Lengths \cup {0}, at : {0}]
    BY <1>1, <1>2, <1>5, SourceShape DEF GoodSource
  <2>3. playback.next \in [token : Tokens, length : Lengths, at : 0..Longest]
    BY <2>2, LongestIsOne
  <2>4. NoDecoder \in [token : Tokens \cup {0}, length : Lengths \cup {0}, at : {0}]
    BY DEF NoDecoder
  <2>5. /\ playback' \in SourceType /\ playback'.ring = playback.ring /\ playback'.chunk = playback.chunk
        /\ playback'.decoder = playback.next /\ playback'.next = NoDecoder
        /\ playback'.offset = playback.produced /\ playback'.boundary = playback.produced
        /\ playback'.produced = playback.produced
        /\ playback'.position = playback.position /\ playback'.state = playback.state
    BY <1>1, <1>3, <1>5, <2>3, <2>4 DEF TakeOver, SourceType
  <2>6. Right(playback', tokens, callback.got, heard)
    BY <1>1, <1>2, <1>3, <1>5, <2>1, <2>5, TakeOverIsRight
  <2>7. SourceRight'
    BY <1>1, <2>6, RightStep
  <2> QED
    BY <1>1, <2>5, <2>7 DEF PlayStep, InOrder, Typed
<1>6. CASE playback' = EndSource(playback) /\ Goto("measure")
  <2>1. Light(playback, playback') /\ playback'.state = playback.state
    BY <1>1, <1>6, LightMoves DEF EndSource, SourceType
  <2>2. PlayStep
    BY <1>1, <2>1, QuietStep
  <2> QED
    BY <1>1, <2>1, <2>2
<1>7. CASE playback' = [playback EXCEPT !.state = "failed"] /\ Fails
  <2>1. Light(playback, playback')
    BY <1>1, <1>7, LightMoves DEF PlaybackStates
  <2>2. worker'.pc = "quiesce"
    BY <1>7 DEF Fails, Does, Idle
  <2>3. PlayStep
    BY <1>1, <2>1, QuietStep
  <2> QED
    BY <1>1, <2>2, <2>3
<1> QED
  BY <1>4, <1>5, <1>6, <1>7 DEF Decode

LEMMA StartPlays ==
    ASSUME Typed, WorkerRight, CallbackRight, SourceRight, Next, Start
    PROVE  PlayStep /\ Loaded /\ (worker'.pc = "fill" => playback'.state # "failed")
<1>1. /\ Loaded /\ callback' = callback /\ worker \in WorkerType /\ playback \in SourceType
      /\ worker.pc = "start" /\ tokens' = tokens
      /\ heard' = IF playback.state = "ended" THEN NoFrame ELSE heard
  BY DEF Start, WorkerRight, Typed, Loaded, Smooth, Fault, counters
<1>2. GoodSource(playback, tokens)
  BY <1>1 DEF SourceRight
<1>3. /\ Flushed(Started(Stop(playback)), tokens) /\ Started(Stop(playback)).state # "failed"
      /\ Flushed(StopFails(playback), tokens)
  BY <1>2, FlushMoves
<1>4. CASE playback.state # "failed" /\ playback' = Play(playback)
  <2>1. CASE playback.state = "ended"
    <3>1. playback' = Started(Stop(playback))
      BY <1>4, <2>1 DEF Play, Active
    <3>2. callback.pc = "idle"
      BY <1>1, <2>1 DEF WorkerRight
    <3>3. PlayStep
      BY <1>1, <1>3, <2>1, <3>1, <3>2, FlushPlays
    <3> QED
      BY <1>1, <1>3, <3>1, <3>3
  <2>2. CASE playback.state # "ended"
    <3>1. playback' \in {playback, Started(playback)}
      BY <1>4, <2>2 DEF Play
    <3>2. Light(playback, playback') /\ playback'.state # "failed"
      BY <1>1, <1>4, <3>1, LightMoves, StartedIsLight
    <3>3. PlayStep
      BY <1>1, <2>2, <3>2, QuietStep
    <3> QED
      BY <1>1, <3>2, <3>3
  <2> QED
    BY <2>1, <2>2
<1>5. CASE playback.state = "ended" /\ playback' = StopFails(playback) /\ Fails
  <2>1. callback.pc = "idle"
    BY <1>1, <1>5 DEF WorkerRight
  <2>2. PlayStep
    BY <1>1, <1>3, <1>5, <2>1, FlushPlays
  <2>3. worker'.pc = "quiesce"
    BY <1>5 DEF Fails, Does, Idle
  <2> QED
    BY <1>1, <2>2, <2>3
<1>6. CASE playback.state = "failed" /\ Fails /\ UNCHANGED playback
  <2>1. PlayStep
    BY <1>1, <1>6, QuietStep
  <2>2. worker'.pc = "quiesce"
    BY <1>6 DEF Fails, Does, Idle
  <2> QED
    BY <1>1, <2>1, <2>2
<1> QED
  BY <1>4, <1>5, <1>6 DEF Start

LEMMA LoadPlays ==
    ASSUME Typed, WorkerRight, CallbackRight, SourceRight, Next, Load
    PROVE  PlayStep /\ (worker'.pc = "connect" => Loaded')
<1>1. /\ callback' = callback /\ callback.pc = "idle" /\ heard' = NoFrame /\ tokens' = tokens
      /\ tokens \in Tokens /\ worker.arg \in Lengths
  BY DEF Load, Quiet, WorkerRight, Smooth, Fault, counters
<1>2. Flushed(Open(tokens, worker.arg), tokens)
  BY <1>1, OpenIsFlushed
<1>3. playback' = Open(tokens, worker.arg) \/ (playback' = NoSource /\ Fails)
  BY DEF Load
<1>4. PlayStep
  BY <1>1, <1>2, <1>3, FlushPlays
<1>5. playback' = Open(tokens, worker.arg) => Loaded'
  <2>1. Open(tokens, worker.arg) # NoSource
    BY <1>2, SourceShape DEF Flushed
  <2> QED
    BY <2>1 DEF Loaded
<1>6. Fails => worker'.pc = "quiesce"
  BY DEF Fails, Does, Idle
<1> QED
  BY <1>3, <1>4, <1>5, <1>6

LEMMA StopPlays ==
    ASSUME Typed, WorkerRight, CallbackRight, SourceRight, Next, StopQuiet
    PROVE  PlayStep /\ Loaded /\ Flushed(playback', tokens')
<1>1. /\ callback' = callback /\ callback.pc = "idle" /\ heard' = NoFrame /\ tokens' = tokens
      /\ Loaded
  BY DEF StopQuiet, Quiet, WorkerRight, Smooth, Fault, counters
<1>2. GoodSource(playback, tokens)
  BY <1>1 DEF SourceRight
<1>3. Flushed(Stop(playback), tokens) /\ Flushed(StopFails(playback), tokens)
  BY <1>2, FlushMoves
<1>4. Flushed(playback', tokens')
  BY <1>1, <1>3 DEF StopQuiet
<1> QED
  BY <1>1, <1>4, FlushPlays

LEMMA SeekPlays ==
    ASSUME Typed, WorkerRight, CallbackRight, SourceRight, Next, SeekQuiet
    PROVE  /\ PlayStep /\ Loaded
           /\ \/ Flushed(playback', tokens')
              \/ playback' = playback /\ ~CanSeek(playback, worker.arg) /\ heard' = heard
           /\ worker'.pc = "start" => playback'.state \notin {"failed", "ended"} /\ output
<1>1. /\ callback' = callback /\ callback.pc = "idle" /\ tokens' = tokens
      /\ Loaded /\ worker \in WorkerType /\ worker.arg \in Nat
  BY DEF SeekQuiet, Quiet, WorkerRight, Smooth, Fault, counters, Typed, WorkerType
<1>2. GoodSource(playback, tokens) /\ playback \in SourceType
  BY <1>1 DEF SourceRight, GoodSource
<1>3. /\ CanSeek(playback, worker.arg) => Flushed(Seek(playback, worker.arg), tokens)
      /\ Flushed(SeekFails(playback), tokens)
  BY <1>1, <1>2, FlushMoves
<1>4. Publishes => worker'.pc = "publish"
  BY DEF Publishes, Does, Idle
<1>5. CASE /\ CanSeek(playback, worker.arg) /\ playback' = Seek(playback, worker.arg) /\ heard' = NoFrame
           /\ IF CanSeek(playback, worker.arg) /\ worker.resume /\ output THEN Goto("start") ELSE Publishes
  <2>1. PlayStep
    BY <1>1, <1>3, <1>5, FlushPlays
  <2>2. playback'.state = IF playback.state \in {"paused", "stopped"} THEN playback.state ELSE "buffering"
    BY <1>2, <1>5 DEF Seek, Flush, ClearBuffer, SourceType
  <2> QED
    BY <1>1, <1>3, <1>4, <1>5, <2>1, <2>2
<1>6. CASE playback' = SeekFails(playback) /\ heard' = NoFrame /\ Publishes
  BY <1>1, <1>3, <1>4, <1>6, FlushPlays
<1>7. CASE ~CanSeek(playback, worker.arg) /\ Publishes /\ UNCHANGED <<playback, heard>>
  BY <1>1, <1>4, <1>7, QuietStep
<1> QED
  BY <1>5, <1>6, <1>7 DEF SeekQuiet

LEMMA ClearPlays ==
    ASSUME Typed, CallbackRight, Next, Clear
    PROVE  PlayStep
BY FlushPlays DEF Clear, Quiet

LEMMA QueuePlays ==
    ASSUME Typed, WorkerRight, CallbackRight, SourceRight, Next, QueueNextSource
    PROVE  PlayStep
<1> DEFINE p == ClearNext(Acknowledged)
<1>1. /\ Loaded /\ callback' = callback /\ heard' = heard /\ tokens' = tokens + 1
      /\ tokens < MaxSources /\ worker.pc = "idle"
  BY DEF QueueNextSource, RequestedSource, Command
<1>2. Light(playback, Acknowledged) /\ Light(playback, p)
  BY <1>1, AcknowledgedIsLight
<1>3. Right(playback, tokens, callback.got, heard) /\ tokens \in Nat /\ tokens' \in Tokens
  BY <1>1, TokensShape, TokensGrow DEF SourceRight, Right
<1>4. CASE playback' \in {Acknowledged, p}
  BY <1>1, <1>2, <1>4, QuietStep
<1>5. CASE p.boundary = NoBoundary /\ \E length \in Lengths : playback' = QueueNext(p, tokens', length)
  <2>1. Right(p, tokens, callback.got, heard)
    BY <1>2, <1>3, LightIsRight
  <2>2. PICK length \in Lengths : playback' = QueueNext(p, tokens', length)
    BY <1>5
  <2> HIDE DEF p
  <2>3. Right(QueueNext(p, tokens', length), tokens', callback.got, heard)
    BY <1>1, <1>3, <1>5, <2>1, QueuedIsRight
  <2>4. SourceRight' /\ playback' \in SourceType
    BY <1>1, <2>2, <2>3, RightStep
  <2> QED
    BY <1>1, <2>4 DEF PlayStep, InOrder, Typed
<1> QED
  BY <1>4, <1>5 DEF QueueNextSource

LEMMA PlayGoesOn ==
    ASSUME Typed, WorkerRight, CallbackRight, SourceRight, Next
    PROVE  PlayStep
<1>1. CASE Untouched
  <2>1. playback' = playback /\ heard' = heard /\ callback'.got = callback.got
    BY <1>1, UntouchedFrame
  <2> QED
    BY <2>1, QuietStep
<1>2. CASE Touched
  BY <1>2, TouchedFrame, QuietStep
<1>3. CASE Read \/ Advance \/ FillLoop \/ Decode
  BY <1>3, ReadPlays, AdvancePlays, WritePlays, DecodePlays
<1>4. CASE Start \/ Load \/ StopQuiet \/ SeekQuiet \/ Clear \/ QueueNextSource
  BY <1>4, StartPlays, LoadPlays, StopPlays, SeekPlays, ClearPlays, QueuePlays
<1> QED
  BY <1>1, <1>2, <1>3, <1>4 DEF Next, User, Worker, Callback, Untouched, Touched

-------------------------------------------------------------------------------
(* The worker and the callback, step by step. *)

LEMMA WorkerNames ==
    /\ {"idle", "publish", "quiesce", "quiet", "connect", "start", "fill", "decode",
        "measure", "settle", "filled"} \subseteq WPCs
    /\ {"none", "fail", "load", "start", "restart", "pause", "stop", "seek", "clear",
        "lost", "recover", "switch", "ended", "tick"} \subseteq WOps
BY DEF WPCs, WOps

LEMMA IdleIsAWorker ==
    /\ Idle \in WorkerType /\ Idle.pc = "idle" /\ Idle.op = "none" /\ Idle.arg = 0
    /\ Capacity \in Nat /\ Capacity \in 0..Capacity
<1>1. 0 \in Nat /\ 0 \in 0..Capacity /\ Capacity \in Nat
  BY PlaybackAssumption
<1>2. "idle" \in WPCs /\ "none" \in WOps
  BY WorkerNames
<1>3. Idle = [pc |-> "idle", op |-> "none", arg |-> 0, resume |-> FALSE,
              budget |-> 0, saw |-> "none", goal |-> "none"]
  BY DEF Idle
<1>4. Idle \in WorkerType
  BY <1>1, <1>2, <1>3 DEF WorkerType
<1> QED
  BY <1>1, <1>3, <1>4

LEMMA WorkerUpdates ==
    ASSUME NEW w \in WorkerType, NEW pc \in WPCs, NEW op \in WOps, NEW n \in Nat,
           NEW b \in BOOLEAN, NEW k \in 0..Capacity, NEW seen \in PlaybackStates \cup {"none"},
           NEW g \in {"none", "ended", "draining"}
    PROVE  /\ [w EXCEPT !.pc = pc] \in WorkerType
           /\ [w EXCEPT !.pc = pc, !.op = op] \in WorkerType
           /\ [w EXCEPT !.pc = pc, !.op = op, !.arg = n] \in WorkerType
           /\ [w EXCEPT !.pc = pc, !.op = op, !.arg = n, !.resume = b] \in WorkerType
           /\ [w EXCEPT !.pc = pc, !.op = op, !.resume = b] \in WorkerType
           /\ [w EXCEPT !.pc = pc, !.op = op, !.budget = k] \in WorkerType
           /\ [w EXCEPT !.pc = pc, !.budget = k] \in WorkerType
           /\ [w EXCEPT !.budget = k, !.pc = pc] \in WorkerType
           /\ [w EXCEPT !.pc = pc, !.saw = seen, !.goal = g] \in WorkerType
<1>1. [w EXCEPT !.pc = pc] \in WorkerType /\ [w EXCEPT !.pc = pc, !.op = op] \in WorkerType
  BY DEF WorkerType
<1>2. /\ [w EXCEPT !.pc = pc, !.op = op, !.arg = n] \in WorkerType
      /\ [w EXCEPT !.pc = pc, !.op = op, !.arg = n, !.resume = b] \in WorkerType
  BY DEF WorkerType
<1>3. /\ [w EXCEPT !.pc = pc, !.op = op, !.resume = b] \in WorkerType
      /\ [w EXCEPT !.pc = pc, !.op = op, !.budget = k] \in WorkerType
  BY DEF WorkerType
<1>4. /\ [w EXCEPT !.pc = pc, !.budget = k] \in WorkerType
      /\ [w EXCEPT !.budget = k, !.pc = pc] \in WorkerType
      /\ [w EXCEPT !.pc = pc, !.saw = seen, !.goal = g] \in WorkerType
  BY DEF WorkerType
<1> QED
  BY <1>1, <1>2, <1>3, <1>4

LEMMA DoesTyped ==
    ASSUME NEW pc \in WPCs, NEW op \in WOps, Does(pc, op)
    PROVE  worker' \in WorkerType /\ worker'.pc = pc /\ worker'.op = op
<1>1. worker' = [Idle EXCEPT !.pc = pc, !.op = op]
  BY DEF Does
<1>2. worker' \in WorkerType
  BY <1>1, IdleIsAWorker DEF WorkerType
<1> QED
  BY <1>1, <1>2, IdleIsAWorker DEF WorkerType

LEMMA GotoTyped ==
    ASSUME NEW pc \in WPCs, worker \in WorkerType, Goto(pc)
    PROVE  /\ worker' \in WorkerType /\ worker'.pc = pc /\ worker'.op = worker.op
           /\ worker'.arg = worker.arg /\ worker'.saw = worker.saw /\ worker'.goal = worker.goal
           /\ worker'.resume = worker.resume /\ worker'.budget = worker.budget
<1>1. worker' = [worker EXCEPT !.pc = pc]
  BY DEF Goto
<1> QED
  BY <1>1 DEF WorkerType

LEMMA WorkerGoes ==
    /\ Publishes => worker' \in WorkerType /\ worker'.pc = "publish" /\ worker'.op = "none"
    /\ Fails => worker' \in WorkerType /\ worker'.pc = "quiesce" /\ worker'.op = "fail"
    /\ Fills /\ worker \in WorkerType => /\ worker' \in WorkerType /\ worker'.pc = "fill"
                                         /\ worker'.op = worker.op
<1>1. Publishes => worker' \in WorkerType /\ worker'.pc = "publish" /\ worker'.op = "none"
  BY DoesTyped, WorkerNames DEF Publishes
<1>2. Fails => worker' \in WorkerType /\ worker'.pc = "quiesce" /\ worker'.op = "fail"
  BY DoesTyped, WorkerNames DEF Fails
<1>3. ASSUME Fills, worker \in WorkerType
      PROVE  worker' \in WorkerType /\ worker'.pc = "fill" /\ worker'.op = worker.op
  <2>1. worker' = [worker EXCEPT !.pc = "fill", !.budget = Capacity] /\ "fill" \in WPCs
    BY <1>3, WorkerNames DEF Fills
  <2> QED
    BY <2>1, <1>3, IdleIsAWorker DEF WorkerType
<1> QED
  BY <1>1, <1>2, <1>3

LEMMA CallbackTyped ==
    ASSUME Typed, CallbackRight, Next
    PROVE  callback' \in CallbackType
<1>0. callback \in CallbackType /\ Quantum \in Nat /\ 0 \in 0..Quantum
  BY AuditionAssumption DEF Typed
<1>1. CASE BeginCallback
  BY <1>0, <1>1 DEF BeginCallback, Rendering, CallbackType
<1>2. CASE Read
  <2>1. PICK asked \in 1..Quantum :
           callback' = Rendering("advance", callback.saw, Smaller(asked, Len(playback.ring)),
                                 Smaller(asked, Len(playback.ring)) < asked)
    BY <1>2 DEF Read
  <2>2. playback \in SourceType
    BY <1>2 DEF Read, CallbackRight, Loaded, Typed
  <2>3. Len(playback.ring) \in Nat
    BY <2>2, SourceShape
  <2>4. Smaller(asked, Len(playback.ring)) \in 0..Quantum
    BY <2>3, <1>0 DEF Smaller
  <2>5. (Smaller(asked, Len(playback.ring)) < asked) \in BOOLEAN
    OBVIOUS
  <2> QED
    BY <2>1, <2>4, <2>5, <1>0 DEF Rendering, CallbackType
<1>3. CASE Advance
  <2>1. PICK pc \in {"latch", "finish"} : callback' = [callback EXCEPT !.pc = pc, !.got = 0]
    BY <1>3 DEF Advance
  <2> QED
    BY <2>1, <1>0 DEF CallbackType
<1>4. CASE Latch
  BY <1>0, <1>4 DEF Latch, CallbackType
<1>5. CASE FinishCallback
  BY <1>0, <1>5 DEF FinishCallback, Resting, Rendering, CallbackType
<1>6. CASE User
  BY <1>0, <1>6 DEF User, LoadAndPlay, PlayStream, PauseStream, StopStream, SeekStream, ClearSource,
         QueueNextSource, ClearNextSource, SetBuffer, DeviceLost, DeviceBack, SetTarget
<1>7. CASE Worker
  BY <1>0, <1>7 DEF Worker, Publish, Quiesce, Load, StopQuiet, SeekQuiet, Clear, OutputQuiet, Fail,
         Connect, Start, Produce, RecoverOutput, FillLoop, Decode, Measure, Settle, Filled, Activate
<1> QED
  BY <1>1, <1>2, <1>3, <1>4, <1>5, <1>6, <1>7 DEF Next, Callback

(* What the light steps keep. *)
LEMMA LoadedStays ==
    ASSUME Typed, WorkerRight, CallbackRight, SourceRight, Next, Loaded,
           Untouched \/ Touched \/ QueueNextSource \/ Read \/ Advance
    PROVE  Loaded'
<1>1. playback \in SourceType
  BY DEF Typed, Loaded
<1>2. CASE Untouched
  BY <1>2, UntouchedFrame DEF Loaded
<1>3. CASE Touched
  <2>1. playback' \in SourceType
    BY <1>1, <1>3, TouchedFrame DEF Light
  <2> QED
    BY <2>1, SourceShape DEF Loaded
<1>4. CASE QueueNextSource
  <2>1. \/ playback' \in {Acknowledged, ClearNext(Acknowledged)}
        \/ \E length \in Lengths : playback' = QueueNext(ClearNext(Acknowledged), tokens', length)
    BY <1>4 DEF QueueNextSource
  <2>2. Light(playback, Acknowledged) /\ Light(playback, ClearNext(Acknowledged))
    BY AcknowledgedIsLight
  <2>3. Acknowledged # NoSource /\ ClearNext(Acknowledged) # NoSource
    BY <2>2, SourceShape DEF Light
  <2>4. ASSUME NEW p \in SourceType, NEW d PROVE [p EXCEPT !.next = d] # NoSource
    <3>1. [p EXCEPT !.next = d].state = p.state
      BY DEF SourceType
    <3> QED
      BY <3>1, SourceShape DEF NoSource, PlaybackStates
  <2>5. \A length \in Lengths : QueueNext(ClearNext(Acknowledged), tokens', length) # NoSource
    BY <2>2, <2>4 DEF QueueNext, Light
  <2> QED
    BY <2>1, <2>3, <2>5 DEF Loaded
<1>5. CASE Read
  <2>1. SourceRight' /\ playback' \in SourceType \cup {NoSource}
    BY <1>5, ReadPlays DEF PlayStep
  <2>2. \E r : playback' = [playback EXCEPT !.ring = r]
    BY <1>5 DEF Read
  <2>3. playback'.state = playback.state
    BY <1>1, <2>2 DEF SourceType
  <2> QED
    BY <1>1, <2>3, SourceShape DEF Loaded, NoSource, PlaybackStates
<1>6. CASE Advance
  <2>1. playback'.state = playback.state
    BY <1>1, <1>6, AdvancePlays DEF SourceType
  <2> QED
    BY <1>1, <2>1, SourceShape DEF Loaded, NoSource, PlaybackStates
<1> QED
  BY <1>2, <1>3, <1>4, <1>5, <1>6

LEMMA CallbackKeeps ==
    ASSUME Typed, WorkerRight, CallbackRight, SourceRight, Next, Callback
    PROVE  /\ worker' = worker /\ output' = output /\ active' = active /\ tokens' = tokens
           /\ Loaded /\ Loaded' /\ playback'.chunk = playback.chunk
           /\ playback.state # "failed" => playback'.state # "failed"
           /\ playback'.state = "ended" => playback.state = "ended" \/ callback'.pc = "idle"
           /\ playback.state = "ended" => callback.pc # "idle"
<1>1. worker' = worker /\ output' = output /\ active' = active /\ tokens' = tokens
  BY DEF Callback, BeginCallback, Read, Advance, Latch, FinishCallback, counters, stream
<1>2. CASE BeginCallback
  <2>1. playback' = playback /\ playback.state \in {"playing", "draining"}
    BY <1>2 DEF BeginCallback
  <2>2. Loaded
    BY <2>1 DEF Loaded, NoSource
  <2> QED
    BY <1>1, <2>1, <2>2 DEF Loaded
<1>3. CASE ~BeginCallback
  <2>1. Loaded /\ callback.pc # "idle" /\ playback \in SourceType
    BY <1>3 DEF Callback, Read, Advance, Latch, FinishCallback, CallbackRight, Loaded, Typed
  <2>2. Loaded'
    BY <1>3, <2>1, LoadedStays DEF Callback, Touched
  <2>3. CASE Read
    <3>1. \E r : playback' = [playback EXCEPT !.ring = r]
      BY <2>3 DEF Read
    <3> QED
      BY <1>1, <2>1, <2>2, <3>1 DEF SourceType
  <2>4. CASE Advance
    BY <1>1, <2>1, <2>2, <2>4, AdvancePlays DEF SourceType
  <2>5. CASE Latch
    BY <1>1, <2>1, <2>2, <2>5 DEF Latch, SourceType
  <2>6. CASE FinishCallback
    <3>1. AfterRender \in PlaybackStates /\ (playback.state = "failed" <=> AfterRender = "failed")
      BY <2>1, <2>6, AfterRenderIsLight DEF FinishCallback
    <3>2. playback' = [playback EXCEPT !.state = AfterRender] /\ callback'.pc = "idle"
      BY <2>6 DEF FinishCallback, Resting, Rendering
    <3>3. playback'.state = AfterRender /\ playback'.chunk = playback.chunk
      BY <2>1, <3>1, <3>2 DEF SourceType
    <3> QED
      BY <1>1, <2>1, <2>2, <3>1, <3>2, <3>3
  <2> QED
    BY <1>3, <2>3, <2>4, <2>5, <2>6 DEF Callback
<1> QED
  BY <1>2, <1>3

LEMMA WorkerByCallback ==
    ASSUME Typed, WorkerRight, CallbackRight, SourceRight, Next, Callback
    PROVE  worker' \in WorkerType /\ WorkerRight'
<1>1. worker' \in WorkerType
  BY CallbackKeeps DEF Typed
<1> QED
  BY <1>1, CallbackKeeps DEF WorkerRight

(* Where a user's command may send the worker. *)
LEMMA WorkerByUser ==
    ASSUME Typed, WorkerRight, CallbackRight, SourceRight, Next, User
    PROVE  worker' \in WorkerType /\ WorkerRight'
<1>1. Loaded => Loaded'
  <2>1. Untouched \/ Touched \/ QueueNextSource
    BY DEF User, Untouched, Touched
  <2> QED
    BY <2>1, LoadedStays
<1>2. ~output => ~active
  BY DEF Typed, RestTyped, StreamTyped
<1>3. worker.pc = "idle" /\ active' = active
  BY DEF User, LoadAndPlay, PlayStream, PauseStream, StopStream, SeekStream, ClearSource,
         QueueNextSource, ClearNextSource, SetBuffer, DeviceLost, DeviceBack, SetTarget,
         Requested, RequestedSource, Command, stream
<1>4. CASE LoadAndPlay
  <2>1. PICK length \in Lengths :
           worker' = [Idle EXCEPT !.pc = "quiesce", !.op = "load", !.arg = length]
    BY <1>4 DEF LoadAndPlay
  <2>2. length \in Nat /\ tokens' \in Tokens
    BY <1>4, TokensShape, TokensGrow, LongestIsOne
       DEF LoadAndPlay, RequestedSource, Command, Typed, RestTyped, CountersTyped
  <2>3. worker' \in WorkerType
    BY <2>1, <2>2, IdleIsAWorker, WorkerNames, WorkerUpdates
  <2>4. worker'.pc = "quiesce" /\ worker'.op = "load" /\ worker'.arg = length
    BY <2>1, IdleIsAWorker DEF WorkerType
  <2> QED
    BY <2>2, <2>3, <2>4 DEF WorkerRight
<1>5. CASE PlayStream
  <2>1. Loaded /\ output' = output /\ playback' = playback
    BY <1>5 DEF PlayStream, stream
  <2>2. \/ ~output /\ (Does("connect", "restart") \/ Does("connect", "start"))
        \/ output /\ Does("quiesce", "restart")
        \/ output /\ playback.state # "ended" /\ Does("start", "start")
    BY <1>5 DEF PlayStream
  <2>3. worker' \in WorkerType
    BY <2>2, DoesTyped, WorkerNames
  <2>4. \/ ~output /\ worker'.pc = "connect"
        \/ output /\ worker'.pc = "quiesce" /\ worker'.op = "restart"
        \/ output /\ playback.state # "ended" /\ worker'.pc = "start"
    BY <2>2, DoesTyped, WorkerNames
  <2> QED
    BY <1>1, <1>2, <1>3, <2>1, <2>3, <2>4 DEF WorkerRight
<1>6. CASE PauseStream \/ StopStream \/ ClearSource
  <2>1. Loaded /\ (Does("quiesce", "pause") \/ Does("quiesce", "stop") \/ Does("quiesce", "clear"))
    BY <1>6 DEF PauseStream, StopStream, ClearSource
  <2>2. worker' \in WorkerType /\ worker'.pc = "quiesce" /\ worker'.op \in {"pause", "stop", "clear"}
    BY <2>1, DoesTyped, WorkerNames
  <2> QED
    BY <1>1, <2>1, <2>2 DEF WorkerRight
<1>7. CASE SeekStream
  <2>1. PICK target \in 0..Longest :
           worker' = [Idle EXCEPT !.pc = "quiesce", !.op = "seek", !.arg = base' + target,
                                  !.resume = Resumes]
    BY <1>7 DEF SeekStream
  <2>2. base' \in Nat /\ Loaded
    BY <1>7, RestStep DEF SeekStream, RestTyped, IdentityTyped
  <2>3. base' + target \in Nat /\ Resumes \in BOOLEAN
    <3>1. target \in Nat
      BY LongestIsOne
    <3>2. \A a, b \in Nat : a + b \in Nat
      OBVIOUS
    <3>3. Resumes \in BOOLEAN
      BY DEF Resumes
    <3> QED
      BY <2>2, <3>1, <3>2, <3>3, Zenon
  <2>4. worker' \in WorkerType
    BY ZenonT(60), <2>1, <2>3, IdleIsAWorker, WorkerNames, WorkerUpdates
  <2>5. worker'.pc = "quiesce" /\ worker'.op = "seek"
    BY <2>1, IdleIsAWorker DEF WorkerType
  <2> QED
    BY <1>1, <2>2, <2>4, <2>5 DEF WorkerRight
<1>8. CASE QueueNextSource \/ ClearNextSource \/ SetBuffer
  <2>1. Publishes
    BY <1>8 DEF QueueNextSource, ClearNextSource, SetBuffer
  <2> QED
    BY <2>1, WorkerGoes DEF WorkerRight
<1>9. CASE DeviceLost
  <2>1. Does("quiesce", "lost") \/ Publishes
    BY <1>9 DEF DeviceLost
  <2>2. worker' \in WorkerType
        /\ (worker'.pc = "publish" \/ (worker'.pc = "quiesce" /\ worker'.op = "lost"))
    BY <2>1, DoesTyped, WorkerNames, WorkerGoes
  <2> QED
    BY <2>2 DEF WorkerRight
<1>10. CASE DeviceBack
  <2>1. (Loaded /\ ~output /\ Does("connect", "recover")) \/ Publishes
    BY <1>10 DEF DeviceBack, Recovers
  <2>2. worker' \in WorkerType
        /\ (worker'.pc = "publish" \/ (worker'.pc = "connect" /\ Loaded /\ ~output))
    BY <2>1, DoesTyped, WorkerNames, WorkerGoes
  <2> QED
    BY <1>1, <1>2, <1>3, <2>2 DEF WorkerRight
<1>11. CASE SetTarget
  <2>1. worker' = [Idle EXCEPT !.pc = "quiesce", !.op = "switch", !.resume = Resumes] /\ Loaded
    BY <1>11 DEF SetTarget
  <2>2. Resumes \in BOOLEAN
    BY DEF Resumes
  <2>3. worker' \in WorkerType
    BY ZenonT(60), <2>1, <2>2, IdleIsAWorker, WorkerNames, WorkerUpdates
  <2>4. worker'.pc = "quiesce" /\ worker'.op = "switch"
    BY <2>1, IdleIsAWorker DEF WorkerType
  <2> QED
    BY <1>1, <2>1, <2>3, <2>4 DEF WorkerRight
<1> QED
  BY <1>4, <1>5, <1>6, <1>7, <1>8, <1>9, <1>10, <1>11 DEF User

(* Where the worker sends itself. *)
LEMMA WorkerByItself ==
    ASSUME Typed, WorkerRight, CallbackRight, SourceRight, Next, Worker
    PROVE  worker' \in WorkerType /\ WorkerRight'
<1>1. worker \in WorkerType /\ (~output => ~active)
  BY DEF Typed, RestTyped, StreamTyped
<1>2. CASE Publish \/ Fail
  <2>1. worker' = Idle
    BY <1>2 DEF Publish, Fail
  <2> QED
    BY <2>1, IdleIsAWorker DEF WorkerRight
<1>3. CASE Quiesce
  <2>1. /\ active' = FALSE /\ playback' = playback /\ output' = output /\ tokens' = tokens
        /\ worker.pc = "quiesce"
    BY <1>3 DEF Quiesce, Smooth, Fault, counters
  <2>2. CASE Goto("quiet")
    <3>1. /\ worker' \in WorkerType /\ worker'.pc = "quiet" /\ worker'.op = worker.op
          /\ worker'.arg = worker.arg
      BY <1>1, <2>2, GotoTyped, WorkerNames
    <3> QED
      BY <2>1, <3>1 DEF WorkerRight, Loaded
  <2>3. CASE worker' = [Idle EXCEPT !.pc = "quiet", !.op = "fail"]
    <3>1. worker' \in WorkerType /\ worker'.pc = "quiet" /\ worker'.op = "fail"
      BY <2>3, DoesTyped, WorkerNames DEF Does
    <3> QED
      BY <2>1, <3>1 DEF WorkerRight
  <2> QED
    BY <1>3, <2>2, <2>3 DEF Quiesce
<1>4. CASE Load
  <2>1. ~active /\ active' = active /\ (worker'.pc = "connect" => Loaded')
    BY <1>4, LoadPlays DEF Load, Quiet, WorkerRight
  <2>2. Does("connect", "start") \/ Publishes \/ Fails
    BY <1>4 DEF Load
  <2>3. /\ worker' \in WorkerType
        /\ \/ worker'.pc = "connect"
           \/ worker'.pc = "publish"
           \/ worker'.pc = "quiesce" /\ worker'.op = "fail"
    BY <2>2, DoesTyped, WorkerNames, WorkerGoes
  <2> QED
    BY <2>1, <2>3 DEF WorkerRight
<1>5. CASE StopQuiet \/ Clear
  <2>1. Publishes \/ Fails
    BY <1>5 DEF StopQuiet, Clear
  <2> QED
    BY <2>1, WorkerGoes DEF WorkerRight
<1>6. CASE SeekQuiet
  <2>1. PlayStep /\ Loaded /\ output' = output
        /\ (worker'.pc = "start" => playback'.state \notin {"failed", "ended"} /\ output)
    BY <1>6, SeekPlays DEF SeekQuiet, stream
  <2>2. Goto("start") \/ Publishes
    BY <1>6 DEF SeekQuiet
  <2>3. worker' \in WorkerType /\ worker'.pc \in {"start", "publish"}
    BY <1>1, <2>2, GotoTyped, WorkerGoes, WorkerNames
  <2>4. Loaded'
    <3>1. Flushed(playback', tokens') \/ playback' = playback
      BY <1>6, SeekPlays
    <3> QED
      BY <2>1, <3>1, SourceShape DEF Flushed, Loaded
  <2> QED
    BY <2>1, <2>3, <2>4 DEF WorkerRight
<1>7. CASE OutputQuiet
  <2>1. /\ playback' = playback /\ ~active /\ active' = active /\ callback.pc = "idle"
        /\ callback' = callback /\ output' = (output /\ worker.op \notin {"lost", "switch"})
        /\ worker.pc = "quiet"
    BY <1>7 DEF OutputQuiet, Quiet, WorkerRight
  <2>2. \/ worker.op = "switch" /\ Goto("connect")
        \/ worker.op = "restart" /\ Goto("start")
        \/ Publishes
    BY <1>7 DEF OutputQuiet
  <2>3. /\ worker' \in WorkerType
        /\ \/ worker'.pc = "connect" /\ worker.op = "switch"
           \/ worker'.pc = "start" /\ worker.op = "restart"
           \/ worker'.pc = "publish"
    BY <1>1, <2>2, GotoTyped, WorkerGoes, WorkerNames
  <2> QED
    BY <2>1, <2>3 DEF WorkerRight, Loaded
<1>8. CASE Connect
  <2>1. /\ playback' = playback /\ ~active /\ active' = active /\ callback' = callback
        /\ worker.pc = "connect" /\ Loaded
    BY <1>8 DEF Connect, WorkerRight
  <2>2. callback.pc = "idle"
    BY <2>1 DEF CallbackRight
  <2>3. \/ output' = TRUE /\ worker.op = "restart" /\ Goto("quiesce")
        \/ output' = TRUE /\ Goto("start")
        \/ Publishes \/ Fails
    BY <1>8 DEF Connect
  <2>4. /\ worker' \in WorkerType
        /\ \/ output' = TRUE /\ worker'.pc = "quiesce" /\ worker'.op = "restart"
           \/ output' = TRUE /\ worker'.pc = "start"
           \/ worker'.pc = "publish"
           \/ worker'.pc = "quiesce" /\ worker'.op = "fail"
    BY <1>1, <2>3, GotoTyped, WorkerGoes, WorkerNames
  <2> QED
    BY <2>1, <2>2, <2>4 DEF WorkerRight, Loaded
<1>9. CASE Start
  <2>1. PlayStep /\ Loaded /\ (worker'.pc = "fill" => playback'.state # "failed")
    BY <1>9, StartPlays
  <2>2. Fills \/ Fails
    BY <1>9 DEF Start
  <2>3. /\ worker' \in WorkerType
        /\ (worker'.pc = "fill" \/ (worker'.pc = "quiesce" /\ worker'.op = "fail"))
    BY <1>1, <2>2, WorkerGoes
  <2>4. output' = output /\ output
    BY <1>9 DEF Start, stream, WorkerRight
  <2>5. playback' # NoSource
    <3>1. /\ Flushed(Started(Stop(playback)), tokens) /\ Flushed(StopFails(playback), tokens)
      BY <2>1, FlushMoves DEF SourceRight
    <3>2. playback \in SourceType
      BY <2>1 DEF Typed, Loaded
    <3>3. playback.state # "failed" => Started(playback) # NoSource
      BY <3>2, StartedIsLight, SourceShape DEF Light
    <3>4. /\ Started(Stop(playback)) # NoSource /\ StopFails(playback) # NoSource
      BY <3>1, SourceShape DEF Flushed
    <3>5. \/ playback' = StopFails(playback) \/ playback' = playback
          \/ playback' = Play(playback) /\ playback.state # "failed"
      BY <1>9 DEF Start
    <3> QED
      BY <2>1, <3>3, <3>4, <3>5 DEF Play, Loaded
  <2> QED
    BY <2>1, <2>3, <2>4, <2>5 DEF WorkerRight, Loaded
<1>10. CASE Produce
  <2>1. playback' = playback /\ output' = output /\ Loaded /\ output
    BY <1>10 DEF Produce, stream
  <2>2. CASE Does("quiesce", "ended")
    BY <2>2, DoesTyped, WorkerNames DEF WorkerRight
  <2>3. CASE /\ playback.state \in Active
             /\ worker' = [Idle EXCEPT !.pc = "fill", !.op = "tick", !.budget = Capacity]
    <3>1. worker' \in WorkerType
      BY <2>3, IdleIsAWorker, WorkerNames, WorkerUpdates
    <3>2. worker'.pc = "fill" /\ playback.state # "failed"
      BY <2>3, IdleIsAWorker DEF WorkerType, Active
    <3> QED
      BY <2>1, <3>1, <3>2 DEF WorkerRight, Loaded
  <2> QED
    BY <1>10, <2>2, <2>3 DEF Produce
<1>11. CASE RecoverOutput
  <2>1. playback' = playback /\ active' = active /\ Loaded /\ ~output /\ Does("connect", "recover")
    BY <1>11 DEF RecoverOutput, Recovers, stream
  <2>2. worker' \in WorkerType /\ worker'.pc = "connect"
    BY <2>1, DoesTyped, WorkerNames
  <2> QED
    BY <1>1, <2>1, <2>2 DEF WorkerRight, Loaded
<1>12. CASE FillLoop
  <2>1. /\ worker'.budget \in 0..Capacity /\ Loaded /\ playback'.state = playback.state
        /\ worker'.pc = "decode" => playback'.chunk = <<>>
    BY <1>12, WritePlays
  <2>2. output' = output /\ output /\ worker.pc = "fill" /\ playback.state # "failed"
    BY <1>12 DEF FillLoop, stream, WorkerRight
  <2>3. \/ Goto("measure")
        \/ \E b, pc : pc \in {"measure", "decode"} /\ worker' = [worker EXCEPT !.budget = b, !.pc = pc]
    BY <1>12 DEF FillLoop
  <2>4. worker' \in WorkerType /\ worker'.pc \in {"measure", "decode"}
    <3>1. CASE Goto("measure")
      BY <1>1, <3>1, GotoTyped, WorkerNames
    <3>2. CASE \E b, pc : pc \in {"measure", "decode"}
                          /\ worker' = [worker EXCEPT !.budget = b, !.pc = pc]
      <4>1. PICK b, pc : pc \in {"measure", "decode"} /\ worker' = [worker EXCEPT !.budget = b, !.pc = pc]
        BY <3>2
      <4>2. worker'.budget = b /\ worker'.pc = pc
        BY <1>1, <4>1 DEF WorkerType
      <4>3. b \in 0..Capacity /\ pc \in WPCs
        BY <2>1, <4>1, <4>2, WorkerNames
      <4> QED
        BY <1>1, <4>1, <4>2, <4>3 DEF WorkerType
    <3> QED
      BY <2>3, <3>1, <3>2
  <2>5. Loaded'
    <3>1. playback'.state # "none"
      BY <2>1, SourceShape DEF Typed, Loaded, PlaybackStates
    <3> QED
      BY <3>1 DEF Loaded, NoSource
  <2> QED
    BY <2>1, <2>2, <2>4, <2>5 DEF WorkerRight
<1>13. CASE Decode
  <2>1. /\ Loaded /\ (worker'.pc \in {"fill", "measure"} => playback'.state = playback.state)
    BY <1>13, DecodePlays
  <2>2. output' = output /\ output /\ worker.pc = "decode" /\ playback.state # "failed"
    BY <1>13 DEF Decode, stream, WorkerRight
  <2>3. Goto("fill") \/ Goto("measure") \/ Fails
    BY <1>13 DEF Decode
  <2>4. /\ worker' \in WorkerType
        /\ (worker'.pc \in {"fill", "measure"} \/ (worker'.pc = "quiesce" /\ worker'.op = "fail"))
    BY <1>1, <2>3, GotoTyped, WorkerNames, WorkerGoes
  <2>5. worker'.pc \in {"fill", "measure"} => Loaded'
    <3>1. playback.state # "none"
      BY <2>1, SourceShape DEF Typed, Loaded, PlaybackStates
    <3> QED
      BY <2>1, <3>1 DEF Loaded, NoSource
  <2> QED
    BY <2>1, <2>2, <2>4, <2>5 DEF WorkerRight
<1>14. CASE Measure
  <2>1. output' = output /\ output /\ Loaded /\ Loaded' /\ playback \in SourceType
    BY <1>14, LoadedStays DEF Measure, stream, WorkerRight, Touched, Typed, Loaded
  <2>2. CASE /\ playback.state \in Active
             /\ worker' = [worker EXCEPT !.pc = "settle", !.saw = playback.state,
                             !.goal = IF Drained(playback) THEN "ended" ELSE "draining"]
    <3>1. playback.state \in PlaybackStates /\ "settle" \in WPCs
      BY <2>1, SourceShape, WorkerNames
    <3>2. worker' \in WorkerType /\ worker'.pc = "settle" /\ worker'.saw \in Active /\ worker'.goal # "none"
      BY <1>1, <2>2, <3>1 DEF WorkerType
    <3> QED
      BY <2>1, <3>2 DEF WorkerRight
  <2>3. CASE Goto("filled")
    <3>1. worker' \in WorkerType /\ worker'.pc = "filled"
      BY <1>1, <2>3, GotoTyped, WorkerNames
    <3> QED
      BY <2>1, <3>1 DEF WorkerRight
  <2> QED
    BY <1>14, <2>2, <2>3 DEF Measure
<1>15. CASE Settle
  <2>1. output' = output /\ output /\ Loaded /\ Loaded'
    BY <1>15, LoadedStays DEF Settle, stream, WorkerRight, Touched
  <2>2. Goto("filled") \/ Goto("measure")
    BY <1>15 DEF Settle
  <2>3. worker' \in WorkerType /\ worker'.pc \in {"filled", "measure"}
    BY <1>1, <2>2, GotoTyped, WorkerNames
  <2> QED
    BY <2>1, <2>3 DEF WorkerRight
<1>16. CASE Filled
  <2>1. Does("quiesce", "ended") \/ Publishes \/ worker' = Idle
    BY <1>16 DEF Filled
  <2>2. /\ worker' \in WorkerType
        /\ (worker'.pc \in {"publish", "idle"} \/ (worker'.pc = "quiesce" /\ worker'.op = "ended"))
    BY <2>1, DoesTyped, WorkerNames, WorkerGoes, IdleIsAWorker
  <2> QED
    BY <2>2 DEF WorkerRight
<1>17. CASE Activate
  <2>1. Publishes \/ Fails
    BY <1>17 DEF Activate
  <2> QED
    BY <2>1, WorkerGoes DEF WorkerRight
<1> QED
  BY <1>2, <1>3, <1>4, <1>5, <1>6, <1>7, <1>8, <1>9, <1>10, <1>11, <1>12, <1>13, <1>14,
     <1>15, <1>16, <1>17 DEF Worker

LEMMA CallbackStays ==
    ASSUME Typed, WorkerRight, CallbackRight, SourceRight, Next
    PROVE  CallbackRight'
<1>1. callback \in CallbackType
  BY DEF Typed
<1>2. CASE BeginCallback
  <2>1. /\ playback' = playback /\ worker' = worker /\ active' = active /\ active
        /\ callback'.pc = "read" /\ callback'.got = 0 /\ callback'.saw # "none"
    BY <1>2 DEF BeginCallback, Rendering, stream
  <2>2. Loaded'
    BY <1>2, CallbackKeeps DEF Callback
  <2> QED
    BY <2>1, <2>2 DEF CallbackRight
<1>3. CASE Read \/ Advance \/ Latch \/ FinishCallback
  <2>1. worker' = worker /\ active' = active /\ Loaded' /\ callback.pc # "idle"
    BY <1>3, CallbackKeeps DEF Callback, Read, Advance, Latch, FinishCallback
  <2>2. callback.saw # "none" /\ (active \/ worker.pc = "quiet")
    BY <2>1 DEF CallbackRight
  <2>3. CASE Read
    <3>1. callback'.pc = "advance" /\ callback'.saw = callback.saw
      BY <2>3 DEF Read, Rendering
    <3> QED
      BY <2>1, <2>2, <3>1 DEF CallbackRight
  <2>4. CASE Advance
    <3>1. callback'.saw = callback.saw /\ callback'.got = 0
      BY <1>1, <2>4 DEF Advance, CallbackType
    <3> QED
      BY <2>1, <2>2, <3>1 DEF CallbackRight
  <2>5. CASE Latch
    <3>1. callback'.saw = callback.saw /\ callback'.got = callback.got /\ callback.got = 0
      BY <1>1, <2>5 DEF Latch, CallbackType, CallbackRight
    <3> QED
      BY <2>1, <2>2, <3>1 DEF CallbackRight
  <2>6. CASE FinishCallback
    <3>1. callback'.pc = "idle" /\ callback'.got = 0
      BY <2>6 DEF FinishCallback, Resting, Rendering
    <3> QED
      BY <3>1 DEF CallbackRight
  <2> QED
    BY <1>3, <2>3, <2>4, <2>5, <2>6
<1>4. CASE User
  <2>1. callback' = callback /\ active' = active /\ worker.pc = "idle"
    BY <1>4 DEF User, LoadAndPlay, PlayStream, PauseStream, StopStream, SeekStream, ClearSource,
           QueueNextSource, ClearNextSource, SetBuffer, DeviceLost, DeviceBack, SetTarget,
           Requested, RequestedSource, Command, stream
  <2>2. Loaded => Loaded'
    <3>1. Untouched \/ Touched \/ QueueNextSource
      BY <1>4 DEF User, Untouched, Touched
    <3> QED
      BY <3>1, LoadedStays
  <2> QED
    BY <2>1, <2>2 DEF CallbackRight
<1>5. CASE Worker
  <2>1. callback' = callback
    BY <1>5 DEF Worker, Publish, Quiesce, Load, StopQuiet, SeekQuiet, Clear, OutputQuiet, Fail,
           Connect, Start, Produce, RecoverOutput, FillLoop, Decode, Measure, Settle, Filled, Activate
  <2>2. CASE callback.pc = "idle"
    BY <2>1, <2>2 DEF CallbackRight
  <2>3. CASE callback.pc # "idle"
    <3>1. worker.pc # "quiet" => active
      BY <2>3 DEF CallbackRight
    <3>2. CASE Load \/ StopQuiet \/ SeekQuiet \/ Clear \/ OutputQuiet \/ Fail
      BY <2>3, <3>2 DEF Load, StopQuiet, SeekQuiet, Clear, OutputQuiet, Fail, Quiet
    <3>3. CASE Quiesce
      <4>1. worker'.pc = "quiet" /\ playback' = playback
        <5>1. Goto("quiet") \/ worker' = [Idle EXCEPT !.pc = "quiet", !.op = "fail"]
          BY <3>3 DEF Quiesce
        <5>2. worker \in WorkerType /\ playback' = playback
          BY <3>3 DEF Typed, Quiesce
        <5> QED
          BY <5>1, <5>2, GotoTyped, DoesTyped, WorkerNames DEF Does
      <4> QED
        BY <2>1, <4>1 DEF CallbackRight, Loaded
    <3>4. CASE Publish \/ Connect \/ Produce \/ RecoverOutput \/ Filled \/ Activate \/ Measure \/ Settle
      <4>1. active /\ Loaded'
        <5>1. Loaded /\ worker.pc # "quiet"
          BY <2>3, <3>4 DEF CallbackRight, Publish, Connect, Produce, RecoverOutput, Filled,
             Activate,
                            Measure, Settle
        <5> QED
          BY <3>1, <3>4, <5>1, LoadedStays DEF Untouched, Touched
      <4>2. active' = active \/ active' = TRUE
        BY <3>4 DEF Publish, Connect, Produce, RecoverOutput, Filled, Activate, Measure, Settle,
           stream
      <4> QED
        BY <2>1, <4>1, <4>2 DEF CallbackRight
    <3>5. CASE Start \/ FillLoop \/ Decode
      <4>1. active /\ active' = active
        BY <3>1, <3>5 DEF Start, FillLoop, Decode, stream
      <4>2. Loaded'
        <5>1. worker'.pc \in {"fill", "decode", "measure"} => Loaded'
          BY <1>5, WorkerByItself DEF WorkerRight
        <5>2. CASE Start
          <6>1. playback.state # "ended" /\ Loaded
            BY <2>3, <5>2 DEF Start, WorkerRight
          <6>2. playback \in SourceType
            BY <6>1 DEF Typed, Loaded
          <6>3. \/ playback' = playback
                \/ playback' = Play(playback) /\ playback.state # "failed"
            BY <5>2, <6>1 DEF Start
          <6>4. playback.state # "failed" => Started(playback) # NoSource
            BY <6>2, StartedIsLight, SourceShape DEF Light
          <6> QED
            BY <6>1, <6>3, <6>4 DEF Play, Loaded
        <5>3. CASE FillLoop
          <6>1. Loaded /\ playback'.state = playback.state
            BY <5>3, WritePlays
          <6>2. playback.state # "none"
            BY <6>1, SourceShape DEF Typed, Loaded, PlaybackStates
          <6> QED
            BY <6>1, <6>2 DEF Loaded, NoSource
        <5>4. CASE Decode
          <6>1. Loaded /\ playback \in SourceType
            BY <5>4, DecodePlays DEF Typed, Loaded
          <6>2. CASE Fails
            <7>1. Goto("fill") \/ Goto("measure") \/ playback' = [playback EXCEPT !.state = "failed"]
              BY <5>4 DEF Decode
            <7>2. CASE playback' = [playback EXCEPT !.state = "failed"]
              <8>1. playback'.state = "failed"
                BY <6>1, <7>2 DEF SourceType
              <8> QED
                BY <8>1 DEF Loaded, NoSource
            <7>3. CASE Goto("fill") \/ Goto("measure")
              <8>1. worker'.pc \in {"fill", "measure"}
                BY <7>3, GotoTyped, WorkerNames DEF Typed
              <8> QED
                BY <5>1, <8>1
            <7> QED
              BY <7>1, <7>2, <7>3
          <6>3. CASE ~Fails
            <7>1. Goto("fill") \/ Goto("measure")
              BY <5>4, <6>3 DEF Decode
            <7>2. worker'.pc \in {"fill", "measure"}
              BY <7>1, GotoTyped, WorkerNames DEF Typed
            <7> QED
              BY <5>1, <7>2
          <6> QED
            BY <6>2, <6>3
        <5> QED
          BY <3>5, <5>2, <5>3, <5>4
      <4> QED
        BY <2>1, <4>1, <4>2 DEF CallbackRight
    <3> QED
      BY <1>5, <3>2, <3>3, <3>4, <3>5 DEF Worker
  <2> QED
    BY <2>2, <2>3
<1> QED
  BY <1>2, <1>3, <1>4, <1>5 DEF Next, Callback

-------------------------------------------------------------------------------
LEMMA AuditionStarts == Init => AuditionInv
<1> SUFFICES ASSUME Init PROVE AuditionInv
  OBVIOUS
<1>1. worker \in WorkerType /\ worker.pc = "idle"
  BY IdleIsAWorker DEF Init
<1>2. callback \in CallbackType /\ callback.pc = "idle" /\ callback.got = 0
  BY AuditionAssumption DEF Init, Resting, Rendering, CallbackType
<1>3. RestTyped
  <2>1. 0 \in Nat /\ 0 \in 0..MaxSources /\ 0 \in 0..MaxCommands /\ 0 \in 0..MaxFaults
    BY TokensShape
  <2>2. IdentityTyped
    BY <2>1 DEF Init, IdentityTyped
  <2>3. StreamTyped /\ StatusTyped
    BY DEF Init, StreamTyped, StatusTyped
  <2>4. CountersTyped
    BY <2>1 DEF Init, CountersTyped
  <2> QED
    BY <2>2, <2>3, <2>4 DEF RestTyped
<1>4. Typed
  BY <1>1, <1>2, <1>3, NoFrameIsTyped DEF Init, Typed
<1>5. WorkerRight /\ CallbackRight /\ SourceRight
  BY <1>1, <1>2 DEF Init, WorkerRight, CallbackRight, SourceRight, Loaded
<1> QED
  BY <1>4, <1>5 DEF AuditionInv

LEMMA AuditionSteps == AuditionInv /\ [Next]_vars => AuditionInv'
<1> SUFFICES ASSUME AuditionInv, [Next]_vars PROVE AuditionInv'
  OBVIOUS
<1>1. Typed /\ WorkerRight /\ CallbackRight /\ SourceRight
  BY DEF AuditionInv
<1>2. CASE Next
  <2>1. worker' \in WorkerType /\ WorkerRight'
    BY <1>1, <1>2, WorkerByCallback, WorkerByUser, WorkerByItself DEF Next
  <2>2. callback' \in CallbackType /\ CallbackRight'
    BY <1>1, <1>2, CallbackTyped, CallbackStays
  <2>3. SourceRight' /\ playback' \in SourceType \cup {NoSource} /\ heard' \in FrameType
    BY <1>1, <1>2, PlayGoesOn DEF PlayStep
  <2>4. RestTyped'
    BY <1>1, <1>2, RestStep
  <2>5. Typed'
    BY <2>1, <2>2, <2>3, <2>4 DEF Typed
  <2> QED
    BY <2>1, <2>2, <2>3, <2>5 DEF AuditionInv
<1>3. CASE UNCHANGED vars
  BY <1>1, <1>3 DEF vars, identity, stream, status, counters, AuditionInv, Typed, RestTyped,
     IdentityTyped, StreamTyped, StatusTyped, CountersTyped, WorkerRight, CallbackRight, SourceRight,
     Loaded
<1> QED
  BY <1>2, <1>3

(* The worker, the callback and the methods of the source preserve the     *)
(* inductive invariant, however they interleave (local_audition.cpp,       *)
(* execute and produce; pipewire_output.cpp, on_process).                  *)
THEOREM AuditionSafe == Spec => []AuditionInv
BY AuditionStarts, AuditionSteps, PTL DEF Spec

(* The position published is the number of frames the device took          *)
(* (local_playback.cpp, render): silence given while the ring is empty and *)
(* a callback racing the worker do not advance it.                         *)
THEOREM PositionIsRight == Spec => []PositionCountsFrames
<1>1. AuditionInv => PositionCountsFrames
  <2> SUFFICES ASSUME AuditionInv, Loaded, playback.state # "failed"
               PROVE  playback.position + callback.got + Len(playback.ring) + Len(playback.chunk)
                        = playback.produced
    BY DEF PositionCountsFrames
  <2>1. playback \in SourceType /\ Counted(playback, callback.got) /\ callback.got \in Nat
    BY AuditionAssumption DEF AuditionInv, SourceRight, Right, GoodSource, Typed, CallbackType
  <2>2. playback.position + callback.got + (Len(playback.ring) + Len(playback.chunk)) = playback.produced
    BY <2>1 DEF Counted, Waits
  <2>3. /\ Len(playback.ring) \in Nat /\ Len(playback.chunk) \in Nat /\ playback.position \in Nat
    BY <2>1, SourceShape
  <2> QED
    <3>1. PICK a \in Nat, b \in Nat, c \in Nat, d \in Nat :
             /\ a = playback.position /\ b = callback.got
             /\ c = Len(playback.ring) /\ d = Len(playback.chunk)
      BY <2>1, <2>3
    <3>2. a + b + (c + d) = playback.produced
      BY <2>2, <3>1, Zenon
    <3>3. a + b + c + d = playback.produced
      BY <3>2
    <3> QED
      BY <3>1, <3>3, Zenon
<1> QED
  BY <1>1, AuditionSafe, PTL

(* Gapless playback (local_playback.cpp, fill_buffer, render): between two *)
(* flushes the device gets every frame of a source in order, and the first *)
(* frame of the continuation right after the last one.                     *)
THEOREM FramesFollow == Spec => Gapless
<1>1. AuditionInv /\ [Next]_vars =>
        [heard' # heard /\ heard # NoFrame /\ heard' # NoFrame
           => Follows(playback.ring[1], heard)]_vars
  <2> SUFFICES ASSUME AuditionInv, Next
               PROVE  heard' # heard /\ heard # NoFrame /\ heard' # NoFrame
                        => Follows(playback.ring[1], heard)
    OBVIOUS
  <2> QED
    BY PlayGoesOn DEF AuditionInv, PlayStep, InOrder
<1> QED
  BY <1>1, AuditionSafe, PTL DEF Spec, Gapless

(* Types, the bounds of the ring and of the chunk (PcmRingBuffer::write    *)
(* never exceeds its capacity), and no active stream without an output.    *)
THEOREM AuditionTypeCorrect == Spec => []TypeOK
<1>1. AuditionInv => TypeOK
  <2> SUFFICES ASSUME AuditionInv PROVE TypeOK
    OBVIOUS
  <2>1. playback \in SourceType \cup {NoSource} /\ callback \in CallbackType
    BY DEF AuditionInv, Typed
  <2>2. Loaded => Len(playback.ring) <= Capacity /\ Len(playback.chunk) <= MaxChunk
    BY DEF AuditionInv, SourceRight, GoodSource
  <2>3. /\ callback.pc \in {"idle", "read", "advance", "latch", "finish"} /\ callback.got \in 0..Quantum
    BY <2>1 DEF CallbackType
  <2>4. /\ {current, pending} \subseteq Tokens \cup {0} /\ base \in Nat
        /\ {output, active, available, suspended, sticky, rebuffer, stalled, orphaned} \subseteq BOOLEAN
        /\ active => output
        /\ tokens \in 0..MaxSources /\ commands \in 0..MaxCommands /\ faults \in 0..MaxFaults
    BY DEF AuditionInv, Typed, RestTyped, IdentityTyped, StreamTyped, StatusTyped, CountersTyped
  <2> QED
    BY <2>1, <2>2, <2>3, <2>4 DEF TypeOK
<1> QED
  BY <1>1, AuditionSafe, PTL

-------------------------------------------------------------------------------
(* The identity of what is heard. *)

LEMMA NamedFlushed ==
    ASSUME NEW q, NEW t, Flushed(q, t), NEW pc, NEW got, NEW cur, NEW pend, NEW orph,
           ~orph => cur = q.decoder.token
    PROVE  Named(q, pc, got, cur, pend, orph)
<1>1. Waits(q) = 0 /\ q.boundary = NoBoundary /\ q.next = NoDecoder
  BY DEF Flushed, Waits
<1>2. \A i \in 1..Waits(q) : FALSE
  BY <1>1
<1>3. Tagged(q, got, cur, pend, orph)
  BY <1>1, <1>2, Zenon DEF Tagged
<1>4. Crossed(q, pc)
  BY <1>1 DEF Crossed
<1> QED
  BY <1>3, <1>4 DEF Named

(* A light step that keeps the boundary and the identities. *)
LEMMA NamedLight ==
    ASSUME NEW p, NEW q, NEW pc, NEW cc, NEW got, NEW cur, NEW pend, NEW orph,
           Named(p, pc, got, cur, pend, orph), Light(p, q), q.boundary = p.boundary,
           q.crossed => p.crossed \/ pc = "latch", cc = "latch" => pc = "latch"
    PROVE  Named(q, cc, got, cur, pend, orph)
<1>1. Waits(q) = Waits(p) /\ \A i : At(q, NoFrame, i) = At(p, NoFrame, i)
  BY DEF Light, Waits, At
<1>2. /\ q.decoder = p.decoder /\ q.position = p.position /\ q.boundary = p.boundary
      /\ q.next # NoDecoder => q.next = p.next
  BY DEF Light
<1>3. Tagged(p, got, cur, pend, orph) /\ Crossed(p, pc)
  BY DEF Named
<1>4. Tagged(q, got, cur, pend, orph)
  BY <1>1, <1>2, <1>3 DEF Tagged
<1>5. Crossed(q, cc)
  BY <1>2, <1>3 DEF Crossed
<1> QED
  BY <1>4, <1>5 DEF Named

(* A continuation is forgotten, and so is the identity of a committed one. *)
LEMMA NamedForgotten ==
    ASSUME NEW p, NEW q, NEW pc, NEW got, NEW cur, NEW pend, NEW orph, NEW lost,
           Named(p, pc, got, cur, pend, orph), Light(p, q), q.boundary = p.boundary,
           q.crossed => p.crossed, ~lost => ~orph /\ p.boundary = NoBoundary /\ q.next = NoDecoder
    PROVE  Named(q, pc, got, cur, 0, lost)
<1>1. Waits(q) = Waits(p) /\ \A i : At(q, NoFrame, i) = At(p, NoFrame, i)
  BY DEF Light, Waits, At
<1>2. /\ q.decoder = p.decoder /\ q.position = p.position /\ q.boundary = p.boundary
      /\ q.next # NoDecoder => q.next = p.next
  BY DEF Light
<1>3. Tagged(p, got, cur, pend, orph) /\ Crossed(p, pc)
  BY DEF Named
<1>4. Tagged(q, got, cur, 0, lost)
  BY <1>1, <1>2, <1>3 DEF Tagged
<1>5. Crossed(q, pc)
  BY <1>2, <1>3 DEF Crossed
<1> QED
  BY <1>4, <1>5 DEF Named

(* The bookkeeping follows a crossing. *)
LEMMA NamedRebased ==
    ASSUME NEW p, NEW q, NEW pc, NEW t, NEW h, NEW got \in Nat, NEW cur, NEW pend, NEW orph, NEW next,
           NEW now, NEW lost,
           Right(p, t, got, h), Named(p, pc, got, cur, pend, orph), Light(p, q), ~q.crossed,
           q.boundary = IF p.crossed THEN NoBoundary ELSE p.boundary,
           now = IF p.crossed /\ p.boundary # NoBoundary /\ pend # 0 THEN pend ELSE cur,
           lost = (orph /\ ~(p.crossed /\ p.boundary # NoBoundary /\ pend # 0)),
           ~(p.crossed /\ p.boundary # NoBoundary) =>
               next = pend \/ (next = 0 /\ q.next = NoDecoder /\ p.boundary = NoBoundary)
    PROVE  Named(q, pc, got, now, next, lost)
<1>1. Waits(q) = Waits(p) /\ \A i : At(q, NoFrame, i) = At(p, NoFrame, i)
  BY DEF Light, Waits, At
<1>2. /\ q.decoder = p.decoder /\ q.position = p.position
      /\ q.next # NoDecoder => q.next = p.next
  BY DEF Light
<1>3. Tagged(p, got, cur, pend, orph) /\ Crossed(p, pc)
  BY DEF Named
<1>4. p \in SourceType
  BY DEF Right, GoodSource
<1>5. p.position \in Nat /\ p.boundary \in Nat /\ p.decoder.token # 0 /\ p.crossed \in BOOLEAN
  BY <1>4, SourceShape
<1>6. CASE p.crossed /\ p.boundary # NoBoundary
  <2>1. q.boundary = NoBoundary /\ p.next = NoDecoder /\ q.next = NoDecoder /\ p.position >= p.boundary
    BY <1>2, <1>3, <1>6 DEF Crossed
  <2>2. \A i \in 1..Waits(p) : p.position + got + i > p.boundary
    BY <1>5, <2>1
  <2>3. \A i \in 1..Waits(q) : At(q, NoFrame, i).token = q.decoder.token
    BY <1>1, <1>2, <1>3, <2>2 DEF Tagged
  <2>4. ~lost => now = q.decoder.token
    BY <1>2, <1>3, <1>5, <1>6 DEF Tagged
  <2>5. Tagged(q, got, now, next, lost)
    BY <2>1, <2>3, <2>4, Zenon DEF Tagged
  <2> QED
    BY <2>1, <2>5 DEF Named, Crossed
<1>7. CASE ~(p.crossed /\ p.boundary # NoBoundary)
  <2>1. q.boundary = p.boundary /\ now = cur /\ (lost <=> orph)
    BY <1>7
  <2>2. Tagged(q, got, cur, next, lost)
    BY <1>1, <1>2, <1>3, <1>7, <2>1 DEF Tagged
  <2>3. Crossed(q, pc)
    BY <1>2, <1>3, <2>1 DEF Crossed
  <2> QED
    BY <2>1, <2>2, <2>3 DEF Named
<1> QED
  BY <1>6, <1>7

(* A new continuation waits with its identity. *)
LEMMA NamedQueued ==
    ASSUME NEW p \in SourceType, NEW pc, NEW got, NEW cur, NEW pend, NEW orph, NEW u, NEW length,
           Named(p, pc, got, cur, pend, orph), p.boundary = NoBoundary, ~p.crossed, pc # "latch"
    PROVE  Named(QueueNext(p, u, length), pc, got, cur, u, orph)
<1> DEFINE q == QueueNext(p, u, length)
<1>1. /\ q.next = Decoder(u, length) /\ q.ring = p.ring /\ q.chunk = p.chunk
      /\ q.decoder = p.decoder /\ q.boundary = p.boundary /\ q.position = p.position
      /\ q.crossed = p.crossed
  BY DEF QueueNext, SourceType
<1>2. q.next.token = u
  BY <1>1 DEF Decoder
<1> HIDE DEF q
<1>3. Waits(q) = Waits(p) /\ \A i : At(q, NoFrame, i) = At(p, NoFrame, i)
  BY <1>1 DEF Waits, At
<1>4. Tagged(q, got, cur, u, orph)
  BY <1>1, <1>2, <1>3 DEF Named, Tagged
<1>5. Crossed(q, pc)
  BY <1>1 DEF Crossed
<1> QED
  BY <1>4, <1>5 DEF Named, q

LEMMA NamedRead ==
    ASSUME NEW p \in SourceType, NEW q, NEW cc, NEW got, NEW cur, NEW pend, NEW orph,
           Named(p, "read", 0, cur, pend, orph), got \in Nat, SameSource(p, q), q.crossed = p.crossed,
           Waits(q) = Waits(p) - got, Waits(q) \in Nat, Waits(p) \in Nat,
           \A i \in 1..Waits(q) : At(q, NoFrame, i) = At(p, NoFrame, i + got),
           cc # "latch"
    PROVE  Named(q, cc, got, cur, pend, orph)
<1>1. /\ q.decoder = p.decoder /\ q.position = p.position /\ q.boundary = p.boundary
      /\ q.next = p.next
  BY DEF SameSource
<1>2. p.position \in Nat /\ p.boundary \in Nat
  BY SourceShape
<1>3. Tagged(p, 0, cur, pend, orph) /\ Crossed(p, "read")
  BY DEF Named
<1>4. ASSUME NEW i \in 1..Waits(q)
      PROVE  /\ i + got \in 1..Waits(p)
             /\ p.position + got + i = p.position + 0 + (i + got)
             /\ At(q, NoFrame, i) = At(p, NoFrame, i + got)
  <2>1. i + got \in 1..Waits(p) /\ i \in Nat
    OBVIOUS
  <2>2. p.position + got + i = p.position + 0 + (i + got)
    BY <1>2, <2>1
  <2> QED
    BY <2>1, <2>2
<1>5. \A i \in 1..Waits(q) :
         p.boundary = NoBoundary \/ p.position + got + i > p.boundary =>
             At(q, NoFrame, i).token = p.decoder.token
  BY <1>3, <1>4, Zenon DEF Tagged
<1>6. ~orph /\ p.boundary # NoBoundary => \A i \in 1..Waits(q) :
         p.position + got + i <= p.boundary => At(q, NoFrame, i).token = cur
  BY <1>3, <1>4, Zenon DEF Tagged
<1>7. Tagged(q, got, cur, pend, orph)
  BY <1>1, <1>3, <1>5, <1>6 DEF Tagged
<1>8. Crossed(q, cc)
  BY <1>1, <1>3 DEF Crossed
<1> QED
  BY <1>7, <1>8 DEF Named

LEMMA NamedAdvance ==
    ASSUME NEW p \in SourceType, NEW q, NEW cc, NEW t, NEW h, NEW got \in Nat, NEW cur, NEW pend, NEW orph,
           Right(p, t, got, h), Named(p, "advance", got, cur, pend, orph),
           q = [p EXCEPT !.position = p.position + got],
           cc = "latch" => p.boundary # NoBoundary /\ p.position + got >= p.boundary
    PROVE  Named(q, cc, 0, cur, pend, orph)
<1>1. p.position \in Nat /\ p.boundary \in Nat /\ p.position + got \in Nat
  BY SourceShape
<1>2. /\ q.decoder = p.decoder /\ q.position = p.position + got /\ q.boundary = p.boundary
      /\ q.next = p.next /\ q.crossed = p.crossed /\ q.ring = p.ring /\ q.chunk = p.chunk
  BY <1>1 DEF SourceType
<1>3. Tagged(p, got, cur, pend, orph) /\ Crossed(p, "advance")
  BY DEF Named
<1>4. Waits(q) = Waits(p) /\ \A i : At(q, NoFrame, i) = At(p, NoFrame, i)
  BY <1>2 DEF Waits, At
<1>5. \A i \in 1..Waits(p) : q.position + 0 + i = p.position + got + i
  BY <1>1, <1>2
<1>6. Tagged(q, 0, cur, pend, orph)
  BY <1>2, <1>3, <1>4, <1>5 DEF Tagged
<1>7. q.next # NoDecoder => q.boundary = NoBoundary
  BY <1>2 DEF Right, GoodSource
<1>8. Crossed(q, cc)
  BY <1>1, <1>2, <1>3, <1>7 DEF Crossed
<1> QED
  BY <1>6, <1>8 DEF Named

LEMMA NamedWrite ==
    ASSUME NEW p, NEW q, NEW pc, NEW got, NEW cur, NEW pend, NEW orph,
           Named(p, pc, got, cur, pend, orph), SameSource(p, q), q.crossed = p.crossed,
           Waits(q) = Waits(p),
           \A i \in 1..Waits(q) : At(q, NoFrame, i) = At(p, NoFrame, i)
    PROVE  Named(q, pc, got, cur, pend, orph)
<1>1. /\ q.decoder = p.decoder /\ q.position = p.position /\ q.boundary = p.boundary
      /\ q.next = p.next
  BY DEF SameSource
<1>2. Tagged(p, got, cur, pend, orph) /\ Crossed(p, pc)
  BY DEF Named
<1>3. Tagged(q, got, cur, pend, orph)
  BY <1>1, <1>2 DEF Tagged
<1>4. Crossed(q, pc)
  BY <1>1, <1>2 DEF Crossed
<1> QED
  BY <1>3, <1>4 DEF Named

LEMMA NamedDecode ==
    ASSUME NEW p \in SourceType, NEW q, NEW pc, NEW t, NEW h, NEW got \in Nat, NEW n \in Nat,
           NEW cur, NEW pend, NEW orph,
           Right(p, t, got, h), Named(p, pc, got, cur, pend, orph), p.state # "failed",
           q.decoder.token = p.decoder.token, q.next = p.next, q.position = p.position,
           q.boundary = p.boundary, q.crossed = p.crossed,
           Waits(q) = Waits(p) + n,
           \A i \in 1..Waits(p) : At(q, NoFrame, i) = At(p, NoFrame, i),
           \A i \in (Waits(p) + 1)..Waits(q) : At(q, NoFrame, i).token = p.decoder.token
    PROVE  Named(q, pc, got, cur, pend, orph)
<1>1. Tagged(p, got, cur, pend, orph) /\ Crossed(p, pc)
  BY DEF Named
<1>2. p.position \in Nat /\ p.boundary \in Nat /\ Waits(p) \in Nat /\ p.produced \in Nat
  BY SourceShape
<1>3. p.position + got + Waits(p) = p.produced /\ p.boundary <= p.produced
  BY DEF Right, Counted, GoodSource
<1>4. ASSUME NEW i \in 1..Waits(q)
      PROVE  \/ i \in 1..Waits(p)
             \/ i \in (Waits(p) + 1)..Waits(q) /\ ~(p.position + got + i <= p.boundary)
  BY <1>2, <1>3
<1>5. \A i \in 1..Waits(q) :
         q.boundary = NoBoundary \/ q.position + got + i > q.boundary =>
             At(q, NoFrame, i).token = q.decoder.token
  BY <1>1, <1>4, Zenon DEF Tagged
<1>6. ~orph /\ p.boundary # NoBoundary => \A i \in 1..Waits(q) :
         p.position + got + i <= p.boundary => At(q, NoFrame, i).token = cur
  BY <1>1, <1>4, Zenon DEF Tagged
<1>7. Tagged(q, got, cur, pend, orph)
  BY <1>1, <1>5, <1>6 DEF Tagged
<1>8. Crossed(q, pc)
  BY <1>1 DEF Crossed
<1> QED
  BY <1>7, <1>8 DEF Named

LEMMA NamedTakeOver ==
    ASSUME NEW p \in SourceType, NEW q, NEW pc, NEW t, NEW h, NEW got \in Nat,
           NEW cur, NEW pend, NEW orph,
           Right(p, t, got, h), Named(p, pc, got, cur, pend, orph), p.state # "failed",
           p.next # NoDecoder, p.produced # NoBoundary,
           q.decoder = p.next, q.next = NoDecoder, q.position = p.position,
           q.boundary = p.produced, q.crossed = p.crossed,
           Waits(q) = Waits(p),
           \A i \in 1..Waits(p) : At(q, NoFrame, i) = At(p, NoFrame, i)
    PROVE  Named(q, pc, got, cur, pend, orph)
<1>1. Tagged(p, got, cur, pend, orph) /\ Crossed(p, pc)
  BY DEF Named
<1>2. p.position \in Nat /\ Waits(p) \in Nat /\ p.produced \in Nat
  BY SourceShape
<1>3. p.position + got + Waits(p) = p.produced /\ p.boundary = NoBoundary
  BY DEF Right, Counted, GoodSource
<1>4. \A i \in 1..Waits(p) : ~(p.position + got + i > p.produced)
  BY <1>2, <1>3
<1>5. \A i \in 1..Waits(q) :
         q.boundary = NoBoundary \/ q.position + got + i > q.boundary =>
             At(q, NoFrame, i).token = q.decoder.token
  BY <1>4
<1>6. ~orph => /\ cur = p.decoder.token /\ pend = p.next.token
               /\ \A i \in 1..Waits(q) : At(q, NoFrame, i).token = cur
  BY <1>1, <1>3 DEF Tagged
<1>7. pend # 0 => pend = p.next.token
  BY <1>1 DEF Tagged
<1>8. Tagged(q, got, cur, pend, orph)
  BY <1>5, <1>6, <1>7 DEF Tagged
<1>9. Crossed(q, pc)
  BY <1>1 DEF Crossed
<1> QED
  BY <1>8, <1>9 DEF Named

NamedNow == Named(playback, callback.pc, callback.got, current, pending, orphaned)
NamedThen == Named(playback', callback'.pc, callback'.got, current', pending', orphaned')
KeepsIdentity == current' = current /\ pending' = pending /\ orphaned' = orphaned
KeepsCallback == callback'.pc = callback.pc /\ callback'.got = callback.got

LEMMA IdentityKept ==
    ASSUME Typed, NamedNow, Loaded, KeepsIdentity, callback'.got = callback.got,
           callback'.pc = "latch" => callback.pc = "latch",
           Light(playback, playback'), playback'.boundary = playback.boundary,
           playback'.crossed => playback.crossed \/ callback.pc = "latch"
    PROVE  NamedThen
BY NamedLight DEF NamedNow, NamedThen, KeepsIdentity

LEMMA MethodsKeepChain ==
    ASSUME NEW p \in SourceType
    PROVE  /\ Pause(p).boundary = p.boundary /\ Pause(p).crossed = p.crossed
           /\ ClearNext(p).boundary = p.boundary /\ ClearNext(p).crossed = p.crossed
           /\ ClearNext(p).next = NoDecoder
           /\ Started(p).boundary = p.boundary /\ Started(p).crossed = p.crossed
           /\ EndSource(p).boundary = p.boundary /\ EndSource(p).crossed = p.crossed
           /\ \A s : /\ [p EXCEPT !.state = s].boundary = p.boundary
                     /\ [p EXCEPT !.state = s].crossed = p.crossed
           /\ [p EXCEPT !.crossed = TRUE].boundary = p.boundary
BY DEF Pause, ClearNext, Started, EndSource, SourceType

(* The bookkeeping after an acknowledgement. *)
LEMMA IdentityRebased ==
    ASSUME Typed, SourceRight, NamedNow, Loaded, callback' = callback, NEW next, RebaseTo(next),
           playback' \in {Acknowledged, ClearNext(Acknowledged)},
           ~Crosses => \/ next = pending
                       \/ next = 0 /\ playback'.next = NoDecoder /\ playback.boundary = NoBoundary
    PROVE  NamedThen
<1>1. playback \in SourceType /\ Right(playback, tokens, callback.got, heard) /\ callback.got \in Nat
  BY AuditionAssumption DEF Typed, Loaded, SourceRight, Right, CallbackType
<1>2. Light(playback, playback') /\ ~playback'.crossed
      /\ playback'.boundary = IF playback.crossed THEN NoBoundary ELSE playback.boundary
  <2>1. Acknowledged \in SourceType
    BY AcknowledgedIsLight DEF Light
  <2>2. ClearNext(Acknowledged).crossed = Acknowledged.crossed
    BY <2>1, MethodsKeepChain
  <2> QED
    BY <2>2, AcknowledgedIsLight
<1>3. Crosses <=> playback.crossed /\ playback.boundary # NoBoundary
  BY DEF Crosses
<1>4. /\ current' = IF playback.crossed /\ playback.boundary # NoBoundary /\ pending # 0
                      THEN pending ELSE current
      /\ pending' = next
      /\ orphaned' = (orphaned /\ ~(playback.crossed /\ playback.boundary # NoBoundary /\ pending # 0))
  BY <1>3 DEF RebaseTo
<1>5. Named(playback', callback.pc, callback.got, current', next, orphaned')
  BY <1>1, <1>2, <1>3, <1>4, NamedRebased DEF NamedNow
<1> QED
  BY <1>4, <1>5 DEF NamedThen

LEMMA IdentityByRebase ==
    ASSUME Typed, SourceRight, NamedNow, Loaded,
           Publish \/ Fail \/ StopStream \/ SeekStream \/ ClearNextSource
    PROVE  NamedThen
<1>1. CASE Publish \/ Fail \/ StopStream \/ SeekStream
  <2>1. callback' = callback /\ playback' = Acknowledged /\ RebaseTo(NextPending)
    BY <1>1 DEF Publish, Fail, StopStream, SeekStream, Rebase
  <2>2. ~Crosses => NextPending = pending
    BY DEF NextPending
  <2> QED
    BY <2>1, <2>2, IdentityRebased
<1>2. CASE ClearNextSource
  <2> DEFINE p == ClearNext(Acknowledged)
             next == IF p.boundary # NoBoundary THEN pending ELSE 0
  <2>1. callback' = callback /\ playback' = p /\ RebaseTo(next)
    BY <1>2 DEF ClearNextSource
  <2>2. p.next = NoDecoder /\ p.boundary = IF playback.crossed THEN NoBoundary ELSE playback.boundary
    BY AcknowledgedIsLight
  <2>3. ~Crosses => p.boundary = playback.boundary
    BY <2>2 DEF Crosses
  <2>4. ~Crosses => \/ next = pending
                    \/ next = 0 /\ playback'.next = NoDecoder /\ playback.boundary = NoBoundary
    BY <2>1, <2>2, <2>3
  <2> QED
    BY <2>1, <2>4, IdentityRebased
<1> QED
  BY <1>1, <1>2

LEMMA IdentityByQueue ==
    ASSUME Prompt, Typed, SourceRight, NamedNow, Loaded, QueueNextSource
    PROVE  NamedThen
<1> DEFINE p == ClearNext(Acknowledged)
<1>1. callback' = callback /\ callback.pc # "latch"
  BY DEF QueueNextSource
<1>2. /\ p.next = NoDecoder /\ p.boundary = IF playback.crossed THEN NoBoundary ELSE playback.boundary
      /\ Light(playback, p) /\ Light(playback, Acknowledged)
      /\ ~Acknowledged.crossed
  BY AcknowledgedIsLight
<1>3. ~Crosses => p.boundary = playback.boundary
  BY <1>2 DEF Crosses
<1>4. CASE playback' = Acknowledged /\ Rebase
  <2>1. ~Crosses => NextPending = pending
    BY DEF NextPending
  <2> QED
    BY <1>1, <1>4, <2>1, IdentityRebased DEF Rebase
<1>5. CASE p.boundary = NoBoundary /\ playback' = p /\ RebaseTo(0)
  BY <1>1, <1>2, <1>3, <1>5, IdentityRebased
<1>6. CASE /\ p.boundary = NoBoundary /\ RebaseTo(tokens')
           /\ \E length \in Lengths : playback' = QueueNext(p, tokens', length)
  <2>1. /\ current' = IF playback.crossed /\ playback.boundary # NoBoundary /\ pending # 0
                        THEN pending ELSE current
        /\ pending' = tokens'
        /\ orphaned' = (orphaned /\ ~(playback.crossed /\ playback.boundary # NoBoundary /\ pending # 0))
    BY <1>6 DEF RebaseTo, Crosses
  <2>2. Right(playback, tokens, callback.got, heard) /\ callback.got \in Nat
    BY AuditionAssumption DEF Typed, Loaded, SourceRight, Right, CallbackType
  <2>3. p \in SourceType /\ ~p.crossed
    <3>1. Acknowledged \in SourceType
      BY <1>2 DEF Light
    <3> QED
      BY <1>2, <3>1, MethodsKeepChain DEF Light
  <2>4. ~(playback.crossed /\ playback.boundary # NoBoundary) => playback.boundary = NoBoundary
    BY <1>2, <1>6
  <2> HIDE DEF p
  <2>5. Named(p, callback.pc, callback.got, current', 0, orphaned')
    BY <1>2, <2>1, <2>2, <2>3, <2>4, NamedRebased DEF NamedNow
  <2>6. PICK length \in Lengths : playback' = QueueNext(p, tokens', length)
    BY <1>6 DEF p
  <2>7. p.boundary = NoBoundary
    BY <1>6 DEF p
  <2>8. Named(QueueNext(p, tokens', length), callback.pc, callback.got, current', tokens', orphaned')
    BY <1>1, <2>3, <2>5, <2>7, NamedQueued
  <2> QED
    BY <1>1, <2>1, <2>6, <2>8 DEF NamedThen
<1> QED
  BY <1>4, <1>5, <1>6 DEF QueueNextSource

LEMMA IdentityByLight ==
    ASSUME Typed, WorkerRight, CallbackRight, NamedNow, Loaded,
           PauseStream \/ Measure \/ Settle \/ Latch \/ FinishCallback
    PROVE  NamedThen
<1>1. playback \in SourceType
  BY DEF Typed, Loaded
<1>2. /\ callback'.got = callback.got /\ KeepsIdentity
      /\ playback' = playback \/ Light(playback, playback')
  BY TouchedFrame DEF Touched, PauseStream, Measure, Settle, Latch, FinishCallback, identity,
     KeepsIdentity
<1>3. Light(playback, playback')
  BY <1>1, <1>2, LightMoves
<1>4. CASE PauseStream
  BY <1>1, <1>2, <1>3, <1>4, IdentityKept, MethodsKeepChain DEF PauseStream
<1>5. CASE Measure \/ Settle
  <2>1. callback' = callback /\ \/ playback' = playback
                                \/ \E s : playback' = [playback EXCEPT !.state = s]
    BY <1>5 DEF Measure, Settle
  <2>2. playback'.boundary = playback.boundary /\ playback'.crossed = playback.crossed
    <3>1. CASE \E s : playback' = [playback EXCEPT !.state = s]
      <4>1. PICK s : playback' = [playback EXCEPT !.state = s]
        BY <3>1
      <4> QED
        BY <1>1, <4>1 DEF SourceType
    <3> QED
      BY <2>1, <3>1
  <2> QED
    BY <1>2, <1>3, <2>1, <2>2, IdentityKept
<1>6. CASE Latch
  BY <1>1, <1>2, <1>3, <1>6, IdentityKept, MethodsKeepChain DEF Latch
<1>7. CASE FinishCallback
  <2>1. callback'.pc = "idle" /\ playback' = [playback EXCEPT !.state = AfterRender]
    BY <1>7 DEF FinishCallback, Resting, Rendering
  <2> QED
    BY <1>1, <1>2, <1>3, <2>1, IdentityKept, MethodsKeepChain
<1> QED
  BY <1>4, <1>5, <1>6, <1>7

LEMMA IdentityByLoss ==
    ASSUME Typed, NamedNow, Loaded, SetBuffer \/ DeviceLost
    PROVE  NamedThen
<1>1. playback \in SourceType /\ callback' = callback
  BY DEF Typed, Loaded, SetBuffer, DeviceLost
<1>2. Pause(playback) \in SourceType /\ Light(playback, Pause(playback))
      /\ Light(playback, ClearNext(playback))
  BY <1>1, LightMoves DEF Light
<1>3. Light(Pause(playback), ClearNext(Pause(playback)))
  BY <1>2, LightMoves
<1>4. CASE KeepsIdentity /\ playback' = playback
  BY <1>1, <1>4, LightMoves, IdentityKept
<1>5. CASE /\ playback' \in {ClearNext(playback), ClearNext(Pause(playback))}
           /\ pending' = 0 /\ OrphanIf(Committed) /\ UNCHANGED current
  <2>1. /\ Light(playback, playback') /\ playback'.boundary = playback.boundary
        /\ playback'.crossed = playback.crossed /\ playback'.next = NoDecoder
    <3>1. playback' = ClearNext(playback) => Light(playback, playback')
      BY <1>2
    <3>2. playback' = ClearNext(Pause(playback)) => Light(playback, playback')
      BY <1>2, <1>3, LightAgain
    <3>3. ASSUME playback' = ClearNext(playback)
          PROVE  /\ playback'.boundary = playback.boundary
                 /\ playback'.crossed = playback.crossed /\ playback'.next = NoDecoder
      BY <1>1, <3>3, MethodsKeepChain
    <3>4. ASSUME playback' = ClearNext(Pause(playback))
          PROVE  /\ playback'.boundary = playback.boundary
                 /\ playback'.crossed = playback.crossed /\ playback'.next = NoDecoder
      <4>1. Pause(playback).boundary = playback.boundary /\ Pause(playback).crossed = playback.crossed
        BY <1>1, MethodsKeepChain
      <4> QED
        BY <1>2, <3>4, <4>1, MethodsKeepChain
    <3> QED
      BY <1>5, <3>1, <3>2, <3>3, <3>4
  <2>2. ~orphaned' => ~orphaned /\ playback.boundary = NoBoundary
    BY <1>5 DEF OrphanIf, Committed
  <2>3. Named(playback', callback.pc, callback.got, current, 0, orphaned')
    BY <2>1, <2>2, NamedForgotten DEF NamedNow
  <2> QED
    BY <1>1, <1>5, <2>3 DEF NamedThen
<1> QED
  BY <1>4, <1>5 DEF SetBuffer, DeviceLost, identity, KeepsIdentity

LEMMA IdentityByFlush ==
    ASSUME Typed, WorkerRight, CallbackRight, SourceRight, Loaded => NamedNow, Next,
           Load \/ StopQuiet \/ SeekQuiet \/ Start
    PROVE  Loaded' => NamedThen
<1>1. callback' = callback
  BY DEF Load, StopQuiet, SeekQuiet, Start
<1>2. ASSUME NEW t, Flushed(playback', t), ~orphaned' => current' = playback'.decoder.token
      PROVE  NamedThen
  BY <1>2, NamedFlushed DEF NamedThen
<1>3. ASSUME Loaded, ~orphaned, playback.boundary = NoBoundary
      PROVE  current = playback.decoder.token
  BY <1>3 DEF NamedNow, Named, Tagged
<1>4. CASE Load
  <2>1. CASE playback' = Open(tokens, worker.arg)
    <3>1. tokens \in Tokens /\ worker.arg \in Lengths
      BY <1>4 DEF Load, Quiet, WorkerRight
    <3>2. playback'.decoder.token = tokens /\ current' = tokens
      BY <1>4, <2>1 DEF Load, Open, Decoder
    <3> QED
      BY <1>2, <2>1, <3>1, <3>2, OpenIsFlushed
  <2>2. CASE playback' = NoSource
    BY <2>2 DEF Loaded
  <2> QED
    BY <1>4, <2>1, <2>2 DEF Load
<1>5. CASE StopQuiet
  <2>1. Loaded /\ Flushed(playback', tokens')
    BY <1>5, StopPlays
  <2>2. playback' \in {Stop(playback), StopFails(playback)} /\ current' = current
        /\ (~orphaned' => ~orphaned /\ playback.boundary = NoBoundary)
    BY <1>5, <2>1 DEF StopQuiet, OrphanIf, Committed
  <2>3. playback'.decoder.token = playback.decoder.token
    BY <2>1, <2>2, FlushMoves DEF SourceRight
  <2> QED
    BY <1>2, <1>3, <2>1, <2>2, <2>3
<1>6. CASE SeekQuiet
  <2>1. /\ Loaded
        /\ \/ Flushed(playback', tokens')
           \/ playback' = playback /\ ~CanSeek(playback, worker.arg)
    BY <1>6, SeekPlays
  <2>2. /\ current' = current /\ pending' = 0
        /\ orphaned' = (orphaned \/ (Committed \/ (~CanSeek(playback, worker.arg)
                                                     /\ playback.next # NoDecoder)))
    BY <1>6 DEF SeekQuiet, OrphanIf
  <2>3. CASE Flushed(playback', tokens')
    <3>1. \/ CanSeek(playback, worker.arg) /\ playback' = Seek(playback, worker.arg)
          \/ playback' = SeekFails(playback) \/ playback' = playback
      BY <1>6 DEF SeekQuiet
    <3>2. playback'.decoder.token = playback.decoder.token
      <4>1. GoodSource(playback, tokens) /\ worker.arg \in Nat
        BY <2>1 DEF SourceRight, Typed, WorkerType
      <4> QED
        BY <3>1, <4>1, FlushMoves
    <3>3. ~orphaned' => ~orphaned /\ playback.boundary = NoBoundary
      BY <2>1, <2>2 DEF Committed
    <3> QED
      BY <1>2, <1>3, <2>1, <2>2, <2>3, <3>2, <3>3
  <2>4. CASE playback' = playback /\ ~CanSeek(playback, worker.arg)
    <3>1. ~orphaned' => ~orphaned /\ playback.boundary = NoBoundary /\ playback.next = NoDecoder
      BY <2>1, <2>2, <2>4 DEF Committed
    <3>2. Light(playback, playback)
      BY <2>1, LightMoves DEF Typed, Loaded
    <3>3. Named(playback, callback.pc, callback.got, current, 0, orphaned')
      BY <2>1, <3>1, <3>2, NamedForgotten DEF NamedNow
    <3> QED
      BY <1>1, <2>2, <2>4, <3>3 DEF NamedThen
  <2> QED
    BY <2>1, <2>3, <2>4
<1>7. CASE Start
  <2>1. /\ Loaded /\ playback \in SourceType /\ current' = current /\ pending' = pending
        /\ orphaned' = (orphaned \/ (playback.state = "ended" /\ Committed))
    BY <1>7 DEF Start, WorkerRight, Typed, Loaded, OrphanIf
  <2>2. GoodSource(playback, tokens)
    BY <2>1 DEF SourceRight
  <2>3. /\ Flushed(Started(Stop(playback)), tokens) /\ Flushed(StopFails(playback), tokens)
    BY <2>2, FlushMoves
  <2>4. CASE playback.state = "ended"
    <3>1. playback' \in {Started(Stop(playback)), StopFails(playback)}
      BY <1>7, <2>4 DEF Start, Play, Active
    <3>2. playback'.decoder.token = playback.decoder.token
      BY <2>2, <3>1, FlushMoves
    <3>3. ~orphaned' => ~orphaned /\ playback.boundary = NoBoundary
      BY <2>1, <2>4 DEF Committed
    <3>4. Flushed(playback', tokens)
      BY <2>3, <3>1
    <3> QED
      BY <1>2, <1>3, <2>1, <3>2, <3>3, <3>4
  <2>5. CASE playback.state # "ended"
    <3>1. (orphaned' <=> orphaned) /\ (orphaned' = TRUE \/ orphaned' = FALSE)
          /\ orphaned \in BOOLEAN
      BY <2>1, <2>5 DEF Typed, RestTyped, IdentityTyped
    <3>2. KeepsIdentity
      BY <2>1, <3>1 DEF KeepsIdentity
    <3>3. \/ playback' = playback
          \/ playback' = Started(playback) /\ playback.state # "failed"
      BY <1>7, <2>5 DEF Start, Play
    <3>4. Light(playback, playback') /\ playback'.boundary = playback.boundary
          /\ playback'.crossed = playback.crossed
      BY <2>1, <3>3, LightMoves, StartedIsLight, MethodsKeepChain
    <3> QED
      BY <1>1, <2>1, <3>2, <3>4, IdentityKept
  <2> QED
    BY <2>4, <2>5
<1> QED
  BY <1>4, <1>5, <1>6, <1>7

LEMMA IdentityByDecode ==
    ASSUME Typed, WorkerRight, CallbackRight, SourceRight, NamedNow, Next, Loaded, Decode
    PROVE  NamedThen
<1>1. /\ playback \in SourceType /\ callback.got \in Nat /\ KeepsIdentity
      /\ Right(playback, tokens, callback.got, heard) /\ GoodSource(playback, tokens)
      /\ callback' = callback /\ playback.state # "failed" /\ playback.chunk = <<>> /\ tokens \in Nat
  BY AuditionAssumption, TokensGrow
     DEF Typed, Loaded, CallbackType, Decode, KeepsIdentity, identity, SourceRight, Right, WorkerRight
<1>2. /\ playback.decoder.length \in Nat \ {0} /\ playback.decoder.at \in Nat
      /\ playback.decoder.at <= playback.decoder.length /\ playback.decoder.length \in Lengths
      /\ playback.produced \in Nat
  BY <1>1, SourceShape DEF GoodSource
<1> DEFINE rest == playback.decoder.length - playback.decoder.at
<1>3. CASE \E n \in 1..Smaller(MaxChunk, rest) : playback' = DecodeChunk(playback, n)
  <2>1. PICK n \in 1..Smaller(MaxChunk, rest) : playback' = DecodeChunk(playback, n)
    BY <1>3
  <2>2. n \in Nat \ {0} /\ n <= MaxChunk /\ playback.decoder.at + n <= playback.decoder.length
    BY <1>2, PlaybackAssumption DEF Smaller
  <2>3. playback.decoder.at + n \in 0..Longest /\ playback.produced + n \in Nat
    BY <1>2, <2>2, LongestIsOne
  <2> DEFINE c == Frames(playback.decoder, n)
             d == [playback.decoder EXCEPT !.at = playback.decoder.at + n]
             m == playback.produced + n
  <2>4. c \in Seq(FrameType)
    BY <1>1, <2>2, FramesShape, SourceShape
  <2>5. /\ d \in [token : Tokens, length : Lengths, at : 0..Longest]
        /\ d.token = playback.decoder.token /\ d.length = playback.decoder.length
        /\ d.at = playback.decoder.at + n
    BY <1>1, <2>3, SourceShape
  <2>6. playback' = [playback EXCEPT !.chunk = c, !.decoder = d, !.produced = m] /\ m \in Nat
    BY <1>1, <2>1, <2>3 DEF DecodeChunk, SourceType
  <2> HIDE DEF c, d, m
  <2>7. /\ playback' \in SourceType /\ playback'.ring = playback.ring /\ playback'.chunk = c
        /\ playback'.decoder = d /\ playback'.produced = m
        /\ playback'.next = playback.next /\ playback'.offset = playback.offset
        /\ playback'.position = playback.position /\ playback'.boundary = playback.boundary
        /\ playback'.state = playback.state /\ playback'.crossed = playback.crossed
    BY <1>1, <2>4, <2>5, <2>6 DEF SourceType
  <2>8. /\ Waits(playback') = Waits(playback) + n
        /\ \A i \in 1..Waits(playback) : At(playback', NoFrame, i) = At(playback, NoFrame, i)
        /\ \A i \in (Waits(playback) + 1)..Waits(playback') :
              At(playback', NoFrame, i).token = playback.decoder.token
    <3>1. c = Frames(playback.decoder, n) /\ m = playback.produced + n
      BY DEF c, m
    <3>2. ASSUME NEW p, NEW q, NEW t \in Nat, NEW h, NEW g \in Nat, Right(p, t, g, h),
                 p.chunk = <<>>, p.state # "failed",
                 n <= MaxChunk, p.decoder.at + n <= p.decoder.length,
                 q \in SourceType, q.ring = p.ring, q.chunk = Frames(p.decoder, n),
                 q.decoder.token = p.decoder.token, q.decoder.length = p.decoder.length,
                 q.decoder.at = p.decoder.at + n, q.produced = p.produced + n,
                 q.next = p.next, q.offset = p.offset, q.position = p.position,
                 q.boundary = p.boundary, q.state = p.state
          PROVE  /\ Waits(q) = Waits(p) + n
                 /\ \A i \in 1..Waits(p) : At(q, NoFrame, i) = At(p, NoFrame, i)
                 /\ \A i \in (Waits(p) + 1)..Waits(q) : At(q, NoFrame, i).token = p.decoder.token
      BY ZenonT(60), <2>2, <3>2, DecodeIsRight
    <3> QED
      BY ZenonT(60), <1>1, <2>2, <2>5, <2>7, <3>1, <3>2
  <2>9. Named(playback', callback.pc, callback.got, current, pending, orphaned)
    BY <1>1, <2>2, <2>5, <2>7, <2>8, NamedDecode DEF NamedNow
  <2> QED
    BY <1>1, <2>9 DEF NamedThen, KeepsIdentity
<1>4. CASE rest = 0 /\ playback.next # NoDecoder /\ playback' = TakeOver(playback)
  <2>1. playback.decoder.at = playback.decoder.length
    BY <1>2, <1>4
  <2>2. playback.next.token \in Tokens /\ playback.next.length \in Lengths
        /\ playback.next \in [token : Tokens \cup {0}, length : Lengths \cup {0}, at : {0}]
    BY <1>1, <1>4, SourceShape DEF GoodSource
  <2>3. playback.next \in [token : Tokens, length : Lengths, at : 0..Longest]
    BY <2>2, LongestIsOne
  <2>4. NoDecoder \in [token : Tokens \cup {0}, length : Lengths \cup {0}, at : {0}]
    BY DEF NoDecoder
  <2>5. /\ playback' \in SourceType /\ playback'.ring = playback.ring /\ playback'.chunk = playback.chunk
        /\ playback'.decoder = playback.next /\ playback'.next = NoDecoder
        /\ playback'.offset = playback.produced /\ playback'.boundary = playback.produced
        /\ playback'.produced = playback.produced /\ playback'.crossed = playback.crossed
        /\ playback'.position = playback.position /\ playback'.state = playback.state
    BY <1>1, <1>2, <1>4, <2>3, <2>4 DEF TakeOver, SourceType
  <2>6. /\ Waits(playback') = Waits(playback) /\ playback.produced # NoBoundary
        /\ \A i \in 1..Waits(playback) : At(playback', NoFrame, i) = At(playback, NoFrame, i)
    BY <1>1, <1>4, <2>1, <2>5, TakeOverIsRight
  <2>7. Named(playback', callback.pc, callback.got, current, pending, orphaned)
    BY <1>1, <1>4, <2>5, <2>6, NamedTakeOver DEF NamedNow
  <2> QED
    BY <1>1, <2>7 DEF NamedThen, KeepsIdentity
<1>5. CASE playback' = EndSource(playback)
  <2>1. Light(playback, playback') /\ playback'.boundary = playback.boundary
        /\ playback'.crossed = playback.crossed
    BY <1>1, <1>5, LightMoves, MethodsKeepChain
  <2> QED
    BY <1>1, <2>1, IdentityKept
<1>6. CASE playback' = [playback EXCEPT !.state = "failed"]
  <2>1. Light(playback, playback') /\ playback'.boundary = playback.boundary
        /\ playback'.crossed = playback.crossed
    BY <1>1, <1>6, LightMoves, MethodsKeepChain DEF PlaybackStates
  <2> QED
    BY <1>1, <2>1, IdentityKept
<1> QED
  BY <1>3, <1>4, <1>5, <1>6 DEF Decode

LEMMA IdentityByFrames ==
    ASSUME Typed, WorkerRight, CallbackRight, SourceRight, NamedNow, Next, Loaded,
           Read \/ Advance \/ FillLoop \/ Decode
    PROVE  NamedThen
<1>1. /\ playback \in SourceType /\ callback.got \in Nat /\ KeepsIdentity
      /\ Right(playback, tokens, callback.got, heard)
  BY AuditionAssumption DEF Typed, Loaded, CallbackType, Read, Advance, FillLoop, Decode,
     KeepsIdentity, identity, SourceRight, Right
<1>2. Waits(playback) \in Nat
  BY <1>1, SourceShape
<1>3. CASE Read
  <2>1. PICK asked \in 1..Quantum :
           LET got == Smaller(asked, Len(playback.ring))
            IN /\ callback' = Rendering("advance", callback.saw, got, got < asked)
               /\ playback' = [playback EXCEPT !.ring = SubSeq(@, got + 1, Len(@))]
    BY <1>3 DEF Read
  <2> DEFINE got == Smaller(asked, Len(playback.ring))
  <2>2. callback.pc = "read" /\ callback.got = 0
    BY <1>3 DEF Read, CallbackRight
  <2>3. got \in 0..Len(playback.ring)
    <3>1. Len(playback.ring) \in Nat /\ Quantum \in Nat
      BY <1>1, SourceShape, AuditionAssumption
    <3> QED
      BY <3>1 DEF Smaller
  <2>4. /\ callback'.got = got /\ callback'.pc = "advance"
        /\ playback' = [playback EXCEPT !.ring = SubSeq(playback.ring, got + 1, Len(playback.ring))]
    BY <1>1, <2>1 DEF Rendering
  <2> HIDE DEF got
  <2>5. playback.ring \in Seq(FrameType)
    BY <1>1, SourceShape
  <2>6. SubSeq(playback.ring, got + 1, Len(playback.ring)) \in Seq(FrameType)
    BY <2>3, <2>5, AfterFirst
  <2>7. /\ playback' \in SourceType /\ SameSource(playback, playback')
        /\ playback'.chunk = playback.chunk /\ playback'.crossed = playback.crossed
        /\ playback'.ring = SubSeq(playback.ring, got + 1, Len(playback.ring))
    BY <1>1, <2>4, <2>6 DEF SourceType, SameSource
  <2>8. Right(playback, tokens, 0, heard)
    BY <1>1, <2>2
  <2>9. /\ Waits(playback') = Waits(playback) - got
        /\ \A i \in 1..Waits(playback') : At(playback', NoFrame, i) = At(playback, NoFrame, i + got)
    <3>1. ASSUME NEW p, NEW q, NEW t, NEW h, Right(p, t, 0, h), got \in 0..Len(p.ring),
                 q \in SourceType, SameSource(p, q), q.chunk = p.chunk,
                 q.ring = SubSeq(p.ring, got + 1, Len(p.ring))
          PROVE  /\ Waits(q) = Waits(p) - got
                 /\ \A i \in 1..Waits(q) : At(q, NoFrame, i) = At(p, NoFrame, i + got)
      BY <3>1, ReadIsRight
    <3> QED
      BY <2>3, <2>7, <2>8, <3>1
  <2>10. Waits(playback') \in Nat /\ got \in Nat
    BY <2>3, <2>7, SourceShape
  <2>11. Named(playback, "read", 0, current, pending, orphaned)
    BY <2>2 DEF NamedNow
  <2>12. Named(playback', "advance", got, current, pending, orphaned)
    BY <1>1, <1>2, <2>7, <2>9, <2>10, <2>11, NamedRead
  <2> QED
    BY <1>1, <2>4, <2>12 DEF NamedThen, KeepsIdentity
<1>4. CASE Advance
  <2>1. /\ playback' = [playback EXCEPT !.position = playback.position + callback.got]
        /\ callback'.got = 0 /\ callback.pc = "advance"
    BY <1>4, AdvancePlays DEF Advance
  <2>2. callback'.pc = "latch" => playback.boundary # NoBoundary
                                  /\ playback.position + callback.got >= playback.boundary
    BY <1>4 DEF Advance, Typed, CallbackType
  <2>3. Named(playback', callback'.pc, 0, current, pending, orphaned)
    BY <1>1, <2>1, <2>2, NamedAdvance DEF NamedNow
  <2> QED
    BY <1>1, <2>1, <2>3 DEF NamedThen, KeepsIdentity
<1>5. CASE FillLoop
  <2>1. callback' = callback
    BY <1>5 DEF FillLoop
  <2>2. CASE playback' = WritePending(playback, Writable(playback, worker.budget))
    <3>1. GoodSource(playback, tokens) /\ worker.budget \in 0..Capacity
      BY <1>1 DEF Right, Typed, WorkerType
    <3> DEFINE n == Writable(playback, worker.budget)
    <3>2. /\ n \in 0..Len(playback.chunk) /\ n <= Capacity - Len(playback.ring)
      BY <3>1, WritableShape
    <3>3. playback' = WritePending(playback, n)
      BY <2>2
    <3> HIDE DEF n
    <3>4. /\ playback' \in SourceType /\ SameSource(playback, playback')
          /\ playback'.ring = playback.ring \o SubSeq(playback.chunk, 1, n)
          /\ playback'.chunk = SubSeq(playback.chunk, n + 1, Len(playback.chunk))
          /\ playback'.crossed = playback.crossed
      BY <3>1, <3>2, <3>3, WrittenSource
    <3>5. /\ Waits(playback') = Waits(playback)
          /\ \A i \in 1..Waits(playback') : At(playback', NoFrame, i) = At(playback, NoFrame, i)
      BY <1>1, <3>2, <3>4, WriteIsRight
    <3>6. Named(playback', callback.pc, callback.got, current, pending, orphaned)
      BY <3>4, <3>5, NamedWrite DEF NamedNow
    <3> QED
      BY <1>1, <2>1, <3>6 DEF NamedThen, KeepsIdentity
  <2>3. CASE playback' = playback
    BY <1>1, <2>1, <2>3 DEF NamedNow, NamedThen, KeepsIdentity
  <2> QED
    BY <1>5, <2>2, <2>3 DEF FillLoop
<1> QED
  BY <1>3, <1>4, <1>5, IdentityByDecode

LEMMA NamedAtInit == Init => IdentityInv
BY DEF Init, IdentityInv, Loaded

(* The steps that leave the source, what is heard and the identity alone.  *)
LEMMA IdentityByUntouched ==
    ASSUME Typed, CallbackRight, NamedNow, Untouched
    PROVE  NamedThen
<1>1. playback' = playback /\ callback'.got = callback.got
  BY UntouchedFrame
<1>2. KeepsIdentity /\ (callback'.pc = "latch" => callback.pc = "latch")
  <2>1. CASE BeginCallback
    BY <2>1 DEF BeginCallback, Rendering, identity, KeepsIdentity
  <2>2. CASE ~BeginCallback
    BY <2>2 DEF Untouched, LoadAndPlay, PlayStream, ClearSource, DeviceBack, SetTarget, Quiesce,
                OutputQuiet, Connect, Produce, RecoverOutput, Filled, Activate, identity, KeepsIdentity
  <2> QED
    BY <2>1, <2>2
<1>3. Crossed(playback, callback.pc) => Crossed(playback, callback'.pc)
  BY <1>2 DEF Crossed
<1> QED
  BY <1>1, <1>2, <1>3 DEF NamedNow, NamedThen, Named, KeepsIdentity

(* A step without a source loaded does not load one, Load excepted. *)
LEMMA UnloadedStays ==
    ASSUME Typed, WorkerRight, CallbackRight, SourceRight, Next, ~Loaded,
           ~(Load \/ StopQuiet \/ SeekQuiet \/ Start)
    PROVE  ~Loaded'
<1>1. CASE Untouched
  BY <1>1, UntouchedFrame DEF Loaded
<1>2. CASE Touched
  BY <1>2, TouchedFrame DEF Loaded
<1>3. CASE Read \/ Advance
  BY <1>3 DEF Read, Advance, CallbackRight
<1>4. CASE FillLoop \/ Decode
  BY <1>4 DEF FillLoop, Decode, WorkerRight
<1>5. CASE QueueNextSource
  BY <1>5 DEF QueueNextSource
<1>6. CASE Clear
  BY <1>6 DEF Clear, Loaded
<1> QED
  BY <1>1, <1>2, <1>3, <1>4, <1>5, <1>6 DEF Next, User, Worker, Callback, Untouched, Touched

LEMMA IdentitySteps ==
    ASSUME Prompt
    PROVE  AuditionInv /\ IdentityInv /\ [Next]_vars => IdentityInv'
<1> SUFFICES ASSUME AuditionInv, IdentityInv, [Next]_vars PROVE Loaded' => NamedThen
  BY DEF IdentityInv, NamedThen
<1>1. Typed /\ WorkerRight /\ CallbackRight /\ SourceRight /\ (Loaded => NamedNow)
  BY DEF AuditionInv, IdentityInv, NamedNow
<1>2. CASE UNCHANGED vars
  <2>1. /\ playback' = playback /\ callback' = callback /\ current' = current
        /\ pending' = pending /\ orphaned' = orphaned
    BY <1>2 DEF vars, identity
  <2> QED
    BY <1>1, <2>1 DEF NamedNow, NamedThen, Loaded
<1>3. CASE Next /\ (Load \/ StopQuiet \/ SeekQuiet \/ Start)
  BY <1>1, <1>3, IdentityByFlush
<1>4. CASE Next /\ ~(Load \/ StopQuiet \/ SeekQuiet \/ Start) /\ ~Loaded
  BY <1>1, <1>4, UnloadedStays
<1>5. CASE Next /\ ~(Load \/ StopQuiet \/ SeekQuiet \/ Start) /\ Loaded
  <2>1. CASE Untouched
    BY <1>1, <1>5, <2>1, IdentityByUntouched
  <2>2. CASE Publish \/ Fail \/ StopStream \/ SeekStream \/ ClearNextSource
    BY <1>1, <1>5, <2>2, IdentityByRebase
  <2>3. CASE PauseStream \/ Measure \/ Settle \/ Latch \/ FinishCallback
    BY <1>1, <1>5, <2>3, IdentityByLight
  <2>4. CASE SetBuffer \/ DeviceLost
    BY <1>1, <1>5, <2>4, IdentityByLoss
  <2>5. CASE QueueNextSource
    BY <1>1, <1>5, <2>5, IdentityByQueue
  <2>6. CASE Read \/ Advance \/ FillLoop \/ Decode
    BY <1>1, <1>5, <2>6, IdentityByFrames
  <2>7. CASE Clear
    BY <2>7 DEF Clear, Loaded
  <2> QED
    BY <1>5, <2>1, <2>2, <2>3, <2>4, <2>5, <2>6, <2>7
       DEF Next, User, Worker, Callback, Untouched
<1> QED
  BY <1>2, <1>3, <1>4, <1>5

(* What is heard next is the first frame of the queue, or the next one of  *)
(* the decoder when nothing waits.                                         *)
LEMMA AudibleIsFirst ==
    ASSUME playback \in SourceType
    PROVE  Audible = IF Waits(playback) = 0 THEN playback.decoder.token
                     ELSE At(playback, NoFrame, 1).token
<1>1. /\ playback.ring \in Seq(FrameType) /\ playback.chunk \in Seq(FrameType)
      /\ Len(playback.ring) \in Nat /\ Len(playback.chunk) \in Nat
  BY SourceShape
<1>2. /\ playback.ring = <<>> <=> Len(playback.ring) = 0
      /\ playback.chunk = <<>> <=> Len(playback.chunk) = 0
  BY <1>1
<1>3. /\ Len(playback.ring) + Len(playback.chunk) = 0
            <=> Len(playback.ring) = 0 /\ Len(playback.chunk) = 0
      /\ Len(playback.ring) # 0 => 1 <= Len(playback.ring)
      /\ Len(playback.ring) = 0 => ~(1 <= Len(playback.ring)) /\ 1 - Len(playback.ring) = 1
      /\ 1 # 0
  <2>1. PICK a \in Nat, b \in Nat : a = Len(playback.ring) /\ b = Len(playback.chunk)
    BY <1>1
  <2>2. /\ a + b = 0 <=> a = 0 /\ b = 0
        /\ a # 0 => 1 <= a
        /\ a = 0 => ~(1 <= a) /\ 1 - a = 1
        /\ 1 # 0
    OBVIOUS
  <2> QED
    BY <2>1, <2>2, Zenon
<1> QED
  BY <1>2, <1>3, Zenon DEF Audible, Waits, At, Item

(* The published track is the one being heard (local_audition.cpp,         *)
(* acknowledge_transitions, after the crossing LocalPlayback::render       *)
(* latches): whatever commands, faults and devices did, the identity       *)
(* follows the frames that reach the output, unless a callback sleeps      *)
(* between reaching a boundary and latching it while a whole file is       *)
(* opened.                                                                 *)
THEOREM IdentityIsHeard ==
    ASSUME Prompt
    PROVE  Spec => []IdentityFollowsSound
<1>1. AuditionInv /\ IdentityInv => IdentityFollowsSound
  <2> SUFFICES ASSUME AuditionInv, IdentityInv, AtRest, ~orphaned
               PROVE  IF Committed /\ playback.position >= playback.boundary
                        THEN pending = Audible
                        ELSE /\ current = Audible
                             /\ Committed => pending = playback.decoder.token
    BY DEF IdentityFollowsSound
  <2>1. /\ Loaded /\ callback.got = 0 /\ playback \in SourceType
        /\ Tagged(playback, 0, current, pending, orphaned)
        /\ GoodSource(playback, tokens) /\ Counted(playback, 0)
    BY DEF AuditionInv, IdentityInv, Named, AtRest, CallbackRight, SourceRight, GoodSource
  <2>2. /\ playback.position \in Nat /\ playback.boundary \in Nat
        /\ playback.produced \in Nat /\ Waits(playback) \in Nat
    BY <2>1, SourceShape
  <2>3. Audible = IF Waits(playback) = 0 THEN playback.decoder.token
                  ELSE At(playback, NoFrame, 1).token
    BY <2>1, AudibleIsFirst
  <2>4. /\ Waits(playback) # 0 => 1 \in 1..Waits(playback)
        /\ playback.position + 0 + 1 > playback.boundary <=> playback.position >= playback.boundary
        /\ playback.position + 0 + 1 <= playback.boundary <=> ~(playback.position >= playback.boundary)
    BY <2>2
  <2>5. \A i \in 1..Waits(playback) :
           playback.boundary = NoBoundary \/ playback.position + 0 + i > playback.boundary =>
               At(playback, NoFrame, i).token = playback.decoder.token
    BY <2>1 DEF Tagged
  <2>6. CASE playback.boundary = NoBoundary
    <3>1. current = playback.decoder.token /\ ~Committed
      BY <2>1, <2>6 DEF Tagged, Committed
    <3>2. Audible = playback.decoder.token
      BY <2>3, <2>4, <2>5, <2>6, Zenon
    <3> QED
      BY <3>1, <3>2
  <2>7. CASE playback.boundary # NoBoundary
    <3>1. /\ Committed /\ pending = playback.decoder.token
          /\ \A i \in 1..Waits(playback) :
               playback.position + 0 + i <= playback.boundary => At(playback, NoFrame, i).token = current
      BY <2>1, <2>7 DEF Tagged, Committed
    <3>2. CASE playback.position >= playback.boundary
      <4>1. Audible = playback.decoder.token
        BY <2>3, <2>4, <2>5, <3>2, Zenon
      <4> QED
        BY <3>1, <3>2, <4>1
    <3>3. CASE ~(playback.position >= playback.boundary)
      <4>1. Waits(playback) # 0
        <5>1. playback.position + 0 + Waits(playback) = playback.produced
              /\ playback.boundary <= playback.produced
          BY <2>1, <2>7 DEF Counted, GoodSource
        <5> QED
          BY <2>2, <3>3, <5>1
      <4>2. Audible = current
        BY <2>3, <2>4, <3>1, <3>3, <4>1, Zenon
      <4> QED
        BY <3>1, <3>3, <4>2
    <3> QED
      BY <3>2, <3>3
  <2> QED
    BY <2>6, <2>7
<1>2. AuditionInv /\ IdentityInv /\ [Next]_vars => IdentityInv'
  BY IdentitySteps
<1> QED
  BY <1>1, <1>2, NamedAtInit, AuditionSafe, PTL DEF Spec
===============================================================================
