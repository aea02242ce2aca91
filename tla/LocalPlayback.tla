----------------------------- MODULE LocalPlayback -----------------------------
(***************************************************************************)
(* One local source being decoded into a ring of PCM frames, and the       *)
(* gapless continuation that takes over in the same ring when the decoder  *)
(* reaches its end.  LocalPlayback is an object without a thread of its    *)
(* own: these operators are its methods, from the value of its fields to   *)
(* their next value.  The audition worker calls them; the real-time        *)
(* callback takes frames from the ring.                                    *)
(*                                                                         *)
(* Positions count frames of the produced domain, which keeps growing      *)
(* across takeovers; every source starts at frame 0 of its own domain.     *)
(***************************************************************************)
EXTENDS Naturals, Sequences

CONSTANTS
    Capacity,  \* frames the ring holds
    Threshold, \* frames that end buffering
    MaxChunk,  \* frames one decoder chunk holds at most
    Lengths,   \* frames a source may have
    MaxSources \* sources a behaviour opens

ASSUME PlaybackAssumption ==
    /\ Capacity \in Nat \ {0} /\ Threshold \in 1..Capacity
    /\ MaxChunk \in Nat \ {0} /\ MaxSources \in Nat
    /\ Lengths \subseteq Nat \ {0}
    /\ \E longest \in Lengths : \A length \in Lengths : length <= longest

PlaybackStates == {"stopped", "buffering", "playing", "paused", "draining", "ended", "failed"}
Active == {"buffering", "playing", "draining"}

(* A source is told apart by the occurrence token it was requested with. *)
Tokens == 1..MaxSources
Decoder(token, length) == [token |-> token, length |-> length, at |-> 0]
NoDecoder == [token |-> 0, length |-> 0, at |-> 0]
NoBoundary == 0
NoSource == [state |-> "none"]

Smaller(a, b) == IF a < b THEN a ELSE b

Open(token, length) ==
    [state |-> "stopped", ring |-> <<>>, chunk |-> <<>>, decoder |-> Decoder(token, length),
     next |-> NoDecoder, offset |-> 0, produced |-> 0, position |-> 0,
     boundary |-> NoBoundary, crossed |-> FALSE, ended |-> FALSE]

Drained(p) == p.ring = <<>>

-------------------------------------------------------------------------------
(* Methods that need the consumer quiesced. *)

(* Mutation: the chunk that waits for the ring survives the flush. *)
ClearRing(p) == [p EXCEPT !.ring = <<>>, !.ended = FALSE]

ClearBuffer(p) == [p EXCEPT !.ring = <<>>, !.chunk = <<>>, !.ended = FALSE]

(* Back to the start of the active decoder, as a source without a chain;   *)
(* the positions follow once its decoder has been rewound.                 *)
Collapse(p) ==
    [ClearBuffer(p) EXCEPT
        !.state = "stopped", !.next = NoDecoder, !.offset = 0,
        !.boundary = NoBoundary, !.crossed = FALSE]

Stop(p) == [Collapse(p) EXCEPT !.decoder.at = 0, !.produced = 0, !.position = 0]
StopFails(p) == [Collapse(p) EXCEPT !.state = "failed"]

CanSeek(p, target) ==
    /\ p.state # "failed"
    /\ p.offset <= target /\ target <= p.offset + p.decoder.length

Flush(p) ==
    [ClearBuffer(p) EXCEPT
        !.state = IF @ \in {"paused", "stopped"} THEN @ ELSE "buffering",
        !.next = NoDecoder, !.boundary = NoBoundary, !.crossed = FALSE]

Seek(p, target) ==
    [Flush(p) EXCEPT
        !.decoder.at = target - p.offset, !.produced = target, !.position = target]
SeekFails(p) == [Flush(p) EXCEPT !.state = "failed"]

Started(p) ==
    [p EXCEPT !.state =
        IF p.ended THEN IF Drained(p) THEN "ended" ELSE "draining"
        ELSE IF Len(p.ring) >= Threshold THEN "playing" ELSE "buffering"]

(* Nothing to do while active; after the end it starts over. *)
Play(p) ==
    IF p.state \in Active THEN p
    ELSE Started(IF p.state = "ended" THEN Stop(p) ELSE p)

-------------------------------------------------------------------------------
(* Methods that run beside the consumer. *)

Pause(p) == IF p.state \in Active THEN [p EXCEPT !.state = "paused"] ELSE p

CanQueueNext(p) ==
    /\ p.state # "failed" /\ p.next = NoDecoder
    /\ p.boundary = NoBoundary /\ ~p.ended

QueueNext(p, token, length) == [p EXCEPT !.next = Decoder(token, length)]
ClearNext(p) == [p EXCEPT !.next = NoDecoder]
TakeChainCrossing(p) == [p EXCEPT !.crossed = FALSE, !.boundary = NoBoundary]

(* The frames a bounded fill can still move from its chunk to the ring. *)
Writable(p, budget) == Smaller(Smaller(budget, Len(p.chunk)), Capacity - Len(p.ring))

WritePending(p, frames) ==
    [p EXCEPT !.ring = @ \o SubSeq(p.chunk, 1, frames),
              !.chunk = SubSeq(@, frames + 1, Len(@))]

(* The next frames of the active decoder. *)
Frame(d, i) == [token |-> d.token, at |-> d.at + i - 1, last |-> d.at + i = d.length]
Frames(d, n) == [i \in 1..n |-> Frame(d, i)]
NoFrame == [token |-> 0, at |-> 0, last |-> FALSE]

DecodeChunk(p, n) ==
    [p EXCEPT !.chunk = Frames(p.decoder, n), !.decoder.at = @ + n, !.produced = @ + n]

(* The queued decoder continues in the same ring. *)
TakeOver(p) ==
    [p EXCEPT !.decoder = p.next, !.next = NoDecoder,
              !.offset = p.produced, !.boundary = p.produced]

EndSource(p) == [p EXCEPT !.ended = TRUE]
===============================================================================
