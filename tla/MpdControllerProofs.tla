------------------------- MODULE MpdControllerProofs -------------------------
(***************************************************************************)
(* What holds of MpdController for every number of connections, questions, *)
(* texts, edits and faults.  A command of the session is in one place: in  *)
(* the queue, or in a report of this connection that is not delivered.     *)
(* The invariants say what the controller expects of the commands that are *)
(* under way, and why whatever it presumes is about to be confirmed or     *)
(* taken back.                                                             *)
(***************************************************************************)
EXTENDS MpdQueueEdits, SequenceTheorems, FiniteSetTheorems, WellFoundedInduction, TLAPS

IsSeq(w) == w \in Seq({w[i] : i \in DOMAIN w})

(* The fields that EXCEPT may speak of, and what the rest relies on. *)
TypeInv ==
  /\ DOMAIN ui = DOMAIN Cleared /\ DOMAIN ses = DOMAIN Fresh
  /\ DOMAIN panel = {"field", "timer", "rows", "more", "state", "parked"}
  /\ DOMAIN tab = {"open", "shows"}
  /\ DOMAIN server = {"repeat", "play", "list", "queue"}
  /\ token \in Nat /\ ses.next \in Nat \ {0} /\ ses.generation \in Nat
  /\ IsSeq(ses.wire) /\ IsSeq(posted) /\ IsSeq(heard) /\ IsSeq(ui.rows)
  /\ IsFiniteSet(ui.asking)

-----------------------------------------------------------------------------
(* One place for every command                                              *)

Results(p, of) == {i \in DOMAIN p : p[i].token = of /\ p[i].what = "result"}

(* The commands under way. *)
Held(w, p, of) == {w[i] : i \in DOMAIN w} \cup {p[i].cmd : i \in Results(p, of)}

(* No number is used twice, and none from n on has been used. *)
Numbered(w, p, of, n) ==
  /\ \A i \in DOMAIN w : w[i].id \in Nat \ {0} /\ w[i].id < n
  /\ \A i \in Results(p, of) : p[i].cmd.id \in Nat \ {0} /\ p[i].cmd.id < n
  /\ \A i, j \in DOMAIN w : w[i].id = w[j].id => i = j
  /\ \A i, j \in Results(p, of) : p[i].cmd.id = p[j].cmd.id => i = j
  /\ \A i \in DOMAIN w, j \in Results(p, of) : w[i].id # p[j].cmd.id

(* What a successful answer carries, and whose reports there are. *)
Honest(p, of) ==
  \A i \in DOMAIN p :
    /\ p[i].token \in 0 .. of
    /\ p[i].what = "result" /\ p[i].ok /\ p[i].cmd.kind \in {"ask", "search"}
         => p[i].answer = p[i].cmd.arg

PlaceInv ==
  /\ Numbered(ses.wire, posted, token, ses.next)
  /\ Honest(posted, token)

-----------------------------------------------------------------------------
(* Questions                                                                *)

Open(q) == \E a \in ui.asking : a.question = q

(* A question that waits is under way under its number; one that does not  *)
(* has been answered.                                                      *)
AskInv ==
  /\ \A a \in ui.asking :
       /\ a.question \in DOMAIN heard
       /\ \E c \in Held(ses.wire, posted, token) : c.id = a.id
       /\ \A c \in Held(ses.wire, posted, token) :
            c.id = a.id => c.kind = "ask" /\ c.arg = a.question
  /\ \A a, b \in ui.asking : a.id = b.id \/ a.question = b.question => a = b
  /\ \A q \in DOMAIN heard : IF Open(q) THEN heard[q] = <<>> ELSE heard[q] \in {<<0>>, <<q>>}

-----------------------------------------------------------------------------
(* Searches                                                                 *)

(* The search that is awaited asks for the page that comes next.  A text   *)
(* that is in the field and not about to be searched is the text searched  *)
(* for last, unless its search is known to have failed.                    *)
SearchInv ==
  /\ ui.search \in Nat /\ ui.search < ses.next
  /\ ui.search # 0 =>
       /\ ui.text = ui.last
       /\ \A c \in Held(ses.wire, posted, token) : c.id = ui.search =>
            /\ c.kind = "search"
            /\ c.arg = [text |-> ui.text, page |-> IF ui.append THEN Len(ui.rows) ELSE 0]
       /\ ui.append => PagesOf(ui.last, ui.rows)
  /\ ui.more => PagesOf(ui.last, ui.rows)
  /\ panel.field # "" /\ ~panel.timer /\ panel.state # "failed" =>
       IF ui.search # 0 THEN panel.field = ui.last
       ELSE ui.rows = <<>> \/ (panel.field = ui.last /\ PagesOf(panel.field, ui.rows))
  /\ OneSearchShown

-----------------------------------------------------------------------------
(* What the controls and the tab show                                       *)

Views(p, of) == {i \in DOMAIN p : p[i].token = of /\ p[i].what \in {"state", "snapshot"}}
LastOf(S, i) == i \in S /\ \A j \in S : j <= i

(* The session: what is queued needs a connection with a snapshot, and the *)
(* mutations come first.                                                   *)
Ordered(w) == \A i, j \in DOMAIN w : i < j /\ IsQuery(w[i].kind) => IsQuery(w[j].kind)

SessionInv ==
  /\ ses.linked => ses.alive
  /\ ses.accepting => ses.linked
  /\ ~ses.accepting => ses.wire = <<>>
  /\ Ordered(ses.wire)
  /\ token = 0 => ~ses.alive

(* The invariants below are stated of reports p, a queue w and members u,  *)
(* for the steps that change these one after the other.                    *)
Agrees(u, s) == u.repeat = s.repeat /\ u.play = s.play /\ u.queue = s.queue

(* The last that was said of a refreshed connection is its snapshot.       *)
ViewOK(p, u) ==
  /\ u.generation \in Nat /\ u.generation <= ses.generation
  /\ \A i \in Views(p, token) : p[i].generation \in Nat /\ p[i].generation <= ses.generation
  /\ u.optimisticPlay # None => u.timer
  /\ ses.linked /\ ~ses.refresh =>
       /\ \A i \in DOMAIN p : LastOf(Views(p, token), i) =>
            /\ p[i].what = "snapshot" /\ p[i].generation = ses.generation
            /\ notice = {} => Agrees(p[i].seen, server)
       /\ Views(p, token) = {} =>
            /\ u.connected
            /\ notice = {} => Agrees(u, server)

ViewInv == ViewOK(posted, ui)

(* Why a presumed repeat mode is about to be settled: its command waits;   *)
(* it was refused; or it was carried out, and the snapshot that shows it is *)
(* to come.                                                                *)
LastRepeat(w, mode) ==
  \E i \in DOMAIN w : /\ w[i].kind = "repeat" /\ w[i].arg = mode
                      /\ \A j \in DOMAIN w : w[j].kind = "repeat" => j <= i
NoRepeat(w) == \A i \in DOMAIN w : w[i].kind # "repeat"
RepeatRefused(p) == \E i \in Results(p, token) : p[i].cmd.kind = "repeat" /\ ~p[i].ok
RepeatDone(p, mode) ==
  /\ server.repeat = mode
  /\ ses.linked /\ ~ses.refresh =>
       \E i \in DOMAIN p : /\ LastOf(Views(p, token), i)
                           /\ p[i].what = "snapshot" /\ p[i].seen.repeat = mode

RepeatOK(w, p, u) ==
  u.optimisticRepeat # None /\ "repeat" \notin touched =>
    \/ LastRepeat(w, u.optimisticRepeat)
    \/ NoRepeat(w) /\ (RepeatRefused(p) \/ RepeatDone(p, u.optimisticRepeat))

RepeatInv == RepeatOK(ses.wire, posted, ui)

(* The first connection, as long as nothing fails. *)
Calm == faults = 0 /\ token = 1

StateAt(p, i) == p[i].token = token /\ p[i].what = "state"
SnapshotAt(p, i) == p[i].token = token /\ p[i].what = "snapshot"

CalmOK(p, u, t) ==
  /\ token = 0 => ~u.connected /\ ~t.open /\ Views(p, token) = {}
  /\ Calm =>
       /\ ~ses.linked => ~u.connected /\ Views(p, token) = {}
       /\ u.connected \/ (\E i \in DOMAIN p : SnapshotAt(p, i)) => ses.linked /\ ses.accepting
       /\ u.connected => \A i \in DOMAIN p : ~StateAt(p, i)
       /\ \A i, j \in DOMAIN p : StateAt(p, i) /\ SnapshotAt(p, j) => i < j
       /\ t.open => u.connected

CalmInv == faults \in Nat /\ CalmOK(posted, ui, tab)

(* Why a playlist tab that is behind the server is about to be read again. *)
Rereads(p, u) == {i \in Results(p, token) : p[i].cmd.kind = "read" /\ p[i].cmd.id \in u.reading}

CatchesUp(w, p, u, t, due) ==
  \/ "list" \in notice
  \/ \E i \in DOMAIN p : p[i].token = token /\ p[i].what = "notice"
  \/ due
  \/ \E i \in DOMAIN w : w[i].kind = "read" /\ w[i].id \in u.reading
  \/ /\ \A i \in DOMAIN p : LastOf(Rereads(p, u), i) => p[i].ok /\ p[i].answer = server.list
     /\ Rereads(p, u) = {} => t.shows = server.list

ReadInv ==
  /\ server.list \in Nat
  /\ \A id \in ui.reading : id \in Nat /\ id < ses.next

TabOK(w, p, u, t, due) == Calm /\ t.open => CatchesUp(w, p, u, t, due)

TabInv == TabOK(ses.wire, posted, ui, tab, soon)

-----------------------------------------------------------------------------
(* Sequences whose elements are not of one type                             *)

(* A sequence over some set is one over its own elements. *)
LEMMA SeqOfElements ==
  ASSUME NEW S, NEW w \in Seq(S)
  PROVE  IsSeq(w)
  <1>1. Len(w) \in Nat /\ w \in [1 .. Len(w) -> S] /\ DOMAIN w = 1 .. Len(w)
    BY LenProperties
  <1>2. w \in [1 .. Len(w) -> {w[i] : i \in DOMAIN w}]
    BY <1>1
  <1> HIDE <1>1
  <1> QED BY <1>1, <1>2, SeqDef DEF IsSeq

LEMMA SeqFacts ==
  ASSUME NEW w, IsSeq(w)
  PROVE  Len(w) \in Nat /\ DOMAIN w = 1 .. Len(w) /\ (w = <<>> <=> Len(w) = 0)
  BY LenProperties, EmptySeq DEF IsSeq

LEMMA EmptyFacts ==
  IsSeq(<<>>) /\ Len(<<>>) = 0 /\ DOMAIN <<>> = {}
  <1>1. <<>> \in Seq({}) /\ Len(<<>>) = 0
    BY EmptySeq
  <1>2. IsSeq(<<>>)
    BY <1>1, SeqOfElements
  <1>3. DOMAIN <<>> = 1 .. 0
    BY <1>1, <1>2, SeqFacts
  <1> QED BY <1>1, <1>2, <1>3

LEMMA SingleFacts ==
  ASSUME NEW e
  PROVE  IsSeq(<<e>>) /\ Len(<<e>>) = 1 /\ DOMAIN <<e>> = 1 .. 1 /\ <<e>>[1] = e
  <1>1. <<e>> \in Seq({e}) /\ Len(<<e>>) = 1 /\ <<e>>[1] = e
    OBVIOUS
  <1> QED BY <1>1, SeqOfElements, SeqFacts

LEMMA ConcatFacts ==
  ASSUME NEW v, IsSeq(v), NEW w, IsSeq(w)
  PROVE  /\ IsSeq(v \o w) /\ Len(v \o w) = Len(v) + Len(w)
         /\ \A i \in 1 .. Len(v) : (v \o w)[i] = v[i]
         /\ \A i \in 1 .. Len(w) : (v \o w)[i + Len(v)] = w[i]
  <1> DEFINE S == {v[i] : i \in DOMAIN v} \cup {w[i] : i \in DOMAIN w}
  <1>1. v \in Seq(S) /\ w \in Seq(S)
    <2>1. v \in Seq({v[i] : i \in DOMAIN v}) /\ w \in Seq({w[i] : i \in DOMAIN w})
      BY DEF IsSeq
    <2> QED BY <2>1, SeqMonotonic
  <1> HIDE DEF S
  <1>2. Len(v) \in Nat /\ Len(w) \in Nat
    BY SeqFacts
  <1>3. /\ v \o w \in Seq(S) /\ Len(v \o w) = Len(v) + Len(w)
        /\ \A i \in 1 .. Len(v) + Len(w) :
             (v \o w)[i] = IF i <= Len(v) THEN v[i] ELSE w[i - Len(v)]
    BY <1>1, ConcatProperties
  <1>4. \A i \in 1 .. Len(v) : (v \o w)[i] = v[i]
    BY <1>2, <1>3
  <1>5. \A i \in 1 .. Len(w) : (v \o w)[i + Len(v)] = w[i]
    BY <1>2, <1>3
  <1>6. IsSeq(v \o w)
    BY <1>3, SeqOfElements
  <1> QED BY <1>3, <1>4, <1>5, <1>6, SeqFacts

LEMMA AppendFacts ==
  ASSUME NEW w, IsSeq(w), NEW e
  PROVE  /\ IsSeq(Append(w, e)) /\ Len(Append(w, e)) = Len(w) + 1
         /\ DOMAIN Append(w, e) = 1 .. Len(w) + 1
         /\ Append(w, e)[Len(w) + 1] = e
         /\ \A i \in 1 .. Len(w) : Append(w, e)[i] = w[i]
  <1> DEFINE S == {w[i] : i \in DOMAIN w} \cup {e}
  <1>1. w \in Seq(S) /\ e \in S
    <2>1. w \in Seq({w[i] : i \in DOMAIN w})
      BY DEF IsSeq
    <2> QED BY <2>1, SeqMonotonic
  <1> HIDE DEF S
  <1>2. Len(w) \in Nat
    BY SeqFacts
  <1>3. /\ Append(w, e) \in Seq(S) /\ Len(Append(w, e)) = Len(w) + 1
        /\ Append(w, e)[Len(w) + 1] = e
        /\ \A i \in 1 .. Len(w) : Append(w, e)[i] = w[i]
    BY <1>1, AppendProperties
  <1>4. IsSeq(Append(w, e))
    BY <1>3, SeqOfElements
  <1> QED BY <1>3, <1>4, SeqFacts

LEMMA TailFacts ==
  ASSUME NEW w, IsSeq(w), w # <<>>
  PROVE  /\ IsSeq(Tail(w)) /\ Len(Tail(w)) = Len(w) - 1 /\ Len(w) > 0
         /\ DOMAIN Tail(w) = 1 .. Len(w) - 1
         /\ Head(w) = w[1]
         /\ \A i \in 1 .. Len(w) - 1 : Tail(w)[i] = w[i + 1]
  <1> DEFINE S == {w[i] : i \in DOMAIN w}
  <1>1. w \in Seq(S)
    BY DEF IsSeq
  <1> HIDE DEF S
  <1>2. Len(w) \in Nat /\ Len(w) # 0
    BY SeqFacts
  <1>3. /\ Tail(w) \in Seq(S) /\ Len(Tail(w)) = Len(w) - 1 /\ Head(w) = w[1]
        /\ \A i \in 1 .. Len(Tail(w)) : Tail(w)[i] = w[i + 1]
    BY <1>1, HeadTailProperties, LenProperties
  <1>4. IsSeq(Tail(w))
    BY <1>3, SeqOfElements
  <1> QED BY <1>2, <1>3, <1>4, SeqFacts

LEMMA SubSeqFacts ==
  ASSUME NEW w, IsSeq(w), NEW m \in 1 .. Len(w) + 1, NEW n \in m - 1 .. Len(w)
  PROVE  /\ IsSeq(SubSeq(w, m, n)) /\ Len(SubSeq(w, m, n)) = n - m + 1
         /\ \A i \in 1 .. n - m + 1 : SubSeq(w, m, n)[i] = w[m + i - 1]
  <1> DEFINE S == {w[i] : i \in DOMAIN w}
  <1>1. w \in Seq(S)
    BY DEF IsSeq
  <1> HIDE DEF S
  <1>2. SubSeq(w, m, n) \in Seq(S) /\ Len(SubSeq(w, m, n)) = n - m + 1
        /\ \A i \in 1 .. n - m + 1 : SubSeq(w, m, n)[i] = w[m + i - 1]
    BY <1>1, SubSeqProperties, SeqFacts
  <1> QED BY <1>2, SeqOfElements

LEMMA InsertFacts ==
  ASSUME NEW w, IsSeq(w), NEW at \in 1 .. Len(w) + 1, NEW e
  PROVE  /\ IsSeq(InsertAt(w, at, e)) /\ Len(InsertAt(w, at, e)) = Len(w) + 1
         /\ DOMAIN InsertAt(w, at, e) = 1 .. Len(w) + 1
         /\ \A i \in 1 .. Len(w) + 1 : InsertAt(w, at, e)[i] =
              IF i < at THEN w[i] ELSE IF i = at THEN e ELSE w[i - 1]
  <1> DEFINE u == SubSeq(w, 1, at - 1)
             v == SubSeq(w, at, Len(w))
  <1>0. Len(w) \in Nat
    BY SeqFacts
  <1>1. IsSeq(u) /\ Len(u) = at - 1 /\ \A i \in 1 .. at - 1 : u[i] = w[i]
    BY <1>0, SubSeqFacts
  <1>2. IsSeq(v) /\ Len(v) = Len(w) - at + 1 /\ \A i \in 1 .. Len(w) - at + 1 : v[i] = w[at + i - 1]
    BY <1>0, SubSeqFacts
  <1> DEFINE s == <<e>>
             x == u \o s
  <1>3. InsertAt(w, at, e) = x \o v
    BY DEF InsertAt
  <1> HIDE DEF u, v
  <1>4. IsSeq(x) /\ Len(x) = at /\ (\A i \in 1 .. at - 1 : x[i] = w[i]) /\ x[at] = e
    <2>1. IsSeq(s) /\ Len(s) = 1 /\ s[1] = e
      BY SingleFacts
    <2>2. x = u \o s
      OBVIOUS
    <2> HIDE DEF s, x
    <2>3. /\ IsSeq(x) /\ Len(x) = Len(u) + Len(s)
          /\ \A i \in 1 .. Len(u) : x[i] = u[i]
          /\ \A i \in 1 .. Len(s) : x[i + Len(u)] = s[i]
      <3>1. IsSeq(u) /\ IsSeq(s)
        BY <1>1, <2>1
      <3> QED BY <2>2, <3>1, ConcatFacts
    <2>4. x[1 + Len(u)] = e /\ 1 + Len(u) = at /\ Len(x) = at
      BY <1>0, <1>1, <2>1, <2>3
    <2>5. x[at] = e
      BY <2>4
    <2>6. \A i \in 1 .. at - 1 : x[i] = w[i]
      BY <1>1, <2>3
    <2> QED BY <2>3, <2>4, <2>5, <2>6
  <1> HIDE DEF s, x
  <1>5. /\ IsSeq(x \o v) /\ Len(x \o v) = Len(w) + 1
        /\ \A i \in 1 .. at : (x \o v)[i] = x[i]
        /\ \A i \in 1 .. Len(w) - at + 1 : (x \o v)[i + at] = v[i]
    <2>1. /\ IsSeq(x \o v) /\ Len(x \o v) = Len(x) + Len(v)
          /\ \A i \in 1 .. Len(x) : (x \o v)[i] = x[i]
          /\ \A i \in 1 .. Len(v) : (x \o v)[i + Len(x)] = v[i]
      <3>1. IsSeq(x) /\ IsSeq(v)
        BY <1>2, <1>4
      <3> QED BY <3>1, ConcatFacts
    <2>2. Len(x) + Len(v) = Len(w) + 1
      BY <1>0, <1>2, <1>4
    <2> QED BY <1>2, <1>4, <2>1, <2>2
  <1>6. ASSUME NEW i \in 1 .. Len(w) + 1, i > at
        PROVE  (x \o v)[i] = w[i - 1]
    <2>1. i - at \in 1 .. Len(w) - at + 1 /\ i = (i - at) + at
      BY <1>0, <1>6
    <2> HIDE <1>6
    <2>2. v[i - at] = w[at + (i - at) - 1]
      BY <2>1, <1>2
    <2>3. at + (i - at) - 1 = i - 1
      BY <2>1, <1>0
    <2> QED BY <2>1, <2>2, <2>3, <1>5
  <1>7. ASSUME NEW i \in 1 .. Len(w) + 1
        PROVE  (x \o v)[i] = IF i < at THEN w[i] ELSE IF i = at THEN e ELSE w[i - 1]
    <2>1. i < at => (x \o v)[i] = w[i]
      BY <1>0, <1>4, <1>5
    <2>2. (x \o v)[at] = e
      BY <1>0, <1>4, <1>5
    <2>3. i > at => (x \o v)[i] = w[i - 1]
      BY <1>6
    <2>4. i < at \/ i = at \/ i > at
      BY <1>0
    <2>5. i < at => i # at
      BY <1>0
    <2>6. i > at => i # at /\ ~(i < at)
      BY <1>0
    <2> QED BY <2>1, <2>2, <2>3, <2>4, <2>5, <2>6, Zenon
  <1>8. DOMAIN (x \o v) = 1 .. Len(w) + 1
    BY <1>5, SeqFacts
  <1> QED BY <1>3, <1>5, <1>7, <1>8

LEMMA RemoveFacts ==
  ASSUME NEW w, IsSeq(w), NEW k \in 1 .. Len(w)
  PROVE  /\ IsSeq(RemoveAt(w, k)) /\ Len(RemoveAt(w, k)) = Len(w) - 1
         /\ DOMAIN RemoveAt(w, k) = 1 .. Len(w) - 1
         /\ \A i \in 1 .. Len(w) - 1 : RemoveAt(w, k)[i] = IF i < k THEN w[i] ELSE w[i + 1]
  <1> DEFINE u == SubSeq(w, 1, k - 1)
             v == SubSeq(w, k + 1, Len(w))
  <1>0. Len(w) \in Nat
    BY SeqFacts
  <1>1. IsSeq(u) /\ Len(u) = k - 1 /\ \A i \in 1 .. k - 1 : u[i] = w[i]
    BY <1>0, SubSeqFacts
  <1>2. IsSeq(v) /\ Len(v) = Len(w) - k /\ \A i \in 1 .. Len(w) - k : v[i] = w[k + i]
    <2>1. k + 1 \in 1 .. Len(w) + 1 /\ Len(w) \in (k + 1) - 1 .. Len(w) /\ Len(w) - (k + 1) + 1 = Len(w) - k
      BY <1>0
    <2>2. \A i \in 1 .. Len(w) - k : (k + 1) + i - 1 = k + i
      BY <1>0
    <2>3. /\ IsSeq(v) /\ Len(v) = Len(w) - (k + 1) + 1
          /\ \A i \in 1 .. Len(w) - (k + 1) + 1 : v[i] = w[(k + 1) + i - 1]
      BY <2>1, SubSeqFacts
    <2> HIDE DEF v
    <2>4. Len(v) = Len(w) - k /\ \A i \in 1 .. Len(w) - k : v[i] = w[(k + 1) + i - 1]
      BY <2>1, <2>3
    <2>5. \A i \in 1 .. Len(w) - k : v[i] = w[k + i]
      BY <2>2, <2>4
    <2> QED BY <2>3, <2>4, <2>5
  <1>3. RemoveAt(w, k) = u \o v
    BY DEF RemoveAt
  <1> HIDE DEF u, v
  <1>4. /\ IsSeq(u \o v) /\ Len(u \o v) = Len(w) - 1
        /\ \A i \in 1 .. k - 1 : (u \o v)[i] = w[i]
        /\ \A i \in 1 .. Len(w) - k : (u \o v)[i + (k - 1)] = v[i]
    <2>1. /\ IsSeq(u \o v) /\ Len(u \o v) = Len(u) + Len(v)
          /\ \A i \in 1 .. Len(u) : (u \o v)[i] = u[i]
          /\ \A i \in 1 .. Len(v) : (u \o v)[i + Len(u)] = v[i]
      <3>1. IsSeq(u) /\ IsSeq(v)
        BY <1>1, <1>2
      <3> QED BY <3>1, ConcatFacts
    <2> QED BY <1>0, <1>1, <1>2, <2>1
  <1>5. ASSUME NEW i \in 1 .. Len(w) - 1, i >= k
        PROVE  (u \o v)[i] = w[i + 1]
    <2>1. i - (k - 1) \in 1 .. Len(w) - k /\ i = (i - (k - 1)) + (k - 1) /\ k + (i - (k - 1)) = i + 1
      BY <1>0, <1>5
    <2>2. v[i - (k - 1)] = w[k + (i - (k - 1))]
      BY <2>1, <1>2
    <2> QED BY <2>1, <2>2, <1>4
  <1> QED BY <1>0, <1>3, <1>4, <1>5, SeqFacts

(* A set of positions that is not empty has a first one. *)
LEMMA FirstPosition ==
  ASSUME NEW T \in SUBSET Nat, T # {}
  PROVE  \E m \in T : \A n \in T : ~ (n < m)
  <1>1. \E m \in T : \A n \in T : ~ (<<n, m>> \in OpToRel(<, Nat))
    BY NatLessThanWellFounded, WFMin
  <1>2. \A m, n \in T : n < m => <<n, m>> \in OpToRel(<, Nat)
    BY DEF OpToRel
  <1> QED BY <1>1, <1>2

(* The first query, or the end of the queue. *)
LEMMA FirstQueryIsPlace ==
  ASSUME NEW w, IsSeq(w)
  PROVE  /\ FirstQuery(w) \in 1 .. Len(w) + 1
         /\ FirstQuery(w) <= Len(w) => IsQuery(w[FirstQuery(w)].kind)
         /\ \A j \in 1 .. FirstQuery(w) - 1 : ~IsQuery(w[j].kind)
  <1> DEFINE T == {i \in 1 .. Len(w) + 1 : i <= Len(w) => IsQuery(w[i].kind)}
  <1>0. Len(w) \in Nat
    BY SeqFacts
  <1>1. T \in SUBSET Nat /\ Len(w) + 1 \in T
    BY <1>0
  <1>2. PICK m \in T : \A n \in T : ~ (n < m)
    BY <1>1, FirstPosition, Zenon
  <1>3. \A j \in 1 .. m - 1 : ~IsQuery(w[j].kind)
    BY <1>0, <1>2
  <1>4. \E i \in 1 .. Len(w) + 1 :
          /\ i <= Len(w) => IsQuery(w[i].kind)
          /\ \A j \in 1 .. i - 1 : ~IsQuery(w[j].kind)
    BY <1>2, <1>3
  <1> QED BY <1>4 DEF FirstQuery

-----------------------------------------------------------------------------
(* What the steps of the session and of the event loop do to the places     *)

(* Sequence v is w without its element k. *)
Removed(w, v, k) ==
  /\ IsSeq(v) /\ Len(v) = Len(w) - 1
  /\ \A i \in 1 .. Len(w) - 1 : v[i] = IF i < k THEN w[i] ELSE w[i + 1]

LEMMA RemovedAt ==
  ASSUME NEW w, IsSeq(w), NEW k \in DOMAIN w
  PROVE  Removed(w, RemoveAt(w, k), k)
  BY SeqFacts, RemoveFacts DEF Removed

LEMMA RemovedHead ==
  ASSUME NEW w, IsSeq(w), w # <<>>
  PROVE  1 \in DOMAIN w /\ Head(w) = w[1] /\ Removed(w, Tail(w), 1)
  <1>1. Len(w) \in Nat /\ DOMAIN w = 1 .. Len(w)
    BY SeqFacts
  <1>2. /\ IsSeq(Tail(w)) /\ Len(Tail(w)) = Len(w) - 1 /\ Len(w) > 0 /\ Head(w) = w[1]
        /\ \A i \in 1 .. Len(w) - 1 : Tail(w)[i] = w[i + 1]
    BY TailFacts
  <1> QED BY <1>1, <1>2 DEF Removed

(* The elements of v are those of w but k, in places of their own. *)
LEMMA RemovedElements ==
  ASSUME NEW w, IsSeq(w), NEW k \in DOMAIN w, NEW v, Removed(w, v, k)
  PROVE  /\ IsSeq(v) /\ DOMAIN v = 1 .. Len(w) - 1
         /\ \A i \in DOMAIN v : LET m == IF i < k THEN i ELSE i + 1
                                IN  m \in DOMAIN w \ {k} /\ v[i] = w[m]
         /\ \A m \in DOMAIN w \ {k} : \E i \in DOMAIN v : m = (IF i < k THEN i ELSE i + 1)
  <1>1. Len(w) \in Nat /\ DOMAIN w = 1 .. Len(w) /\ DOMAIN v = 1 .. Len(w) - 1
    BY SeqFacts DEF Removed
  <1>2. ASSUME NEW m \in DOMAIN w \ {k}
        PROVE  \E i \in DOMAIN v : m = (IF i < k THEN i ELSE i + 1)
    <2>1. CASE m < k
      <3>1. m \in DOMAIN v /\ m = (IF m < k THEN m ELSE m + 1)
        BY <1>1, <2>1
      <3> QED BY <3>1
    <2>2. CASE m > k
      <3>1. m - 1 \in DOMAIN v /\ m = (IF m - 1 < k THEN m - 1 ELSE (m - 1) + 1)
        BY <1>1, <2>2
      <3> QED BY <3>1
    <2> QED BY <1>1, <2>1, <2>2
  <1>3. ASSUME NEW i \in DOMAIN v
        PROVE  LET m == IF i < k THEN i ELSE i + 1
               IN  m \in DOMAIN w \ {k} /\ v[i] = w[m]
    BY <1>1 DEF Removed
  <1> QED BY <1>1, <1>2, <1>3 DEF Removed

(* A report is posted. *)
LEMMA AppendedResults ==
  ASSUME NEW p, IsSeq(p), NEW r, NEW of
  PROVE  /\ Results(Append(p, r), of) =
              IF r.token = of /\ r.what = "result" THEN Results(p, of) \cup {Len(p) + 1} ELSE Results(p, of)
         /\ \A i \in Results(p, of) : i \in DOMAIN p /\ Append(p, r)[i] = p[i]
         /\ Append(p, r)[Len(p) + 1] = r
         /\ Len(p) + 1 \notin Results(p, of)
  <1>1. Len(p) \in Nat /\ DOMAIN p = 1 .. Len(p)
    BY SeqFacts
  <1>2. /\ DOMAIN Append(p, r) = 1 .. Len(p) + 1
        /\ Append(p, r)[Len(p) + 1] = r
        /\ \A i \in 1 .. Len(p) : Append(p, r)[i] = p[i]
    BY AppendFacts
  <1> DEFINE q == Append(p, r)
  <1> HIDE DEF q
  <1>3. /\ DOMAIN q = 1 .. Len(p) + 1 /\ q[Len(p) + 1] = r /\ \A i \in 1 .. Len(p) : q[i] = p[i]
    BY <1>2 DEF q
  <1>4. Results(q, of) = IF r.token = of /\ r.what = "result" THEN Results(p, of) \cup {Len(p) + 1} ELSE Results(p, of)
    BY <1>1, <1>3 DEF Results
  <1> QED BY <1>1, <1>2, <1>4 DEF q, Results

LEMMA PostedOther ==
  ASSUME NEW w, NEW p, NEW of, NEW n, IsSeq(p), NEW r, r.token # of \/ r.what # "result",
         Numbered(w, p, of, n)
  PROVE  Numbered(w, Append(p, r), of, n) /\ Held(w, Append(p, r), of) = Held(w, p, of)
  BY AppendedResults DEF Numbered, Held

(* A command that was not accepted is answered at once. *)
LEMMA PostedNew ==
  ASSUME NEW w, NEW p, NEW of, NEW n \in Nat \ {0}, IsSeq(p), NEW r, r.token = of, r.what = "result",
         r.cmd.id = n, Numbered(w, p, of, n)
  PROVE  /\ Numbered(w, Append(p, r), of, n + 1)
         /\ Held(w, Append(p, r), of) = Held(w, p, of) \cup {r.cmd}
  <1> DEFINE q == Append(p, r)
  <1>1. /\ Results(q, of) = Results(p, of) \cup {Len(p) + 1} /\ q[Len(p) + 1] = r
        /\ \A i \in Results(p, of) : q[i] = p[i]
    BY AppendedResults
  <1> HIDE DEF q
  <1>2. Numbered(w, q, of, n + 1)
    BY <1>1 DEF Numbered
  <1>3. Held(w, q, of) = Held(w, p, of) \cup {r.cmd}
    BY <1>1 DEF Held
  <1> QED BY <1>2, <1>3 DEF q

(* A command that was accepted waits. *)
LEMMA Inserted ==
  ASSUME NEW w, NEW p, NEW of, NEW n \in Nat \ {0}, IsSeq(w), NEW at \in 1 .. Len(w) + 1,
         NEW c, c.id = n, Numbered(w, p, of, n)
  PROVE  /\ Numbered(InsertAt(w, at, c), p, of, n + 1)
         /\ Held(InsertAt(w, at, c), p, of) = Held(w, p, of) \cup {c}
  <1> DEFINE v == InsertAt(w, at, c)
  <1>0. Len(w) \in Nat /\ DOMAIN w = 1 .. Len(w)
    BY SeqFacts
  <1>1. /\ DOMAIN v = 1 .. Len(w) + 1
        /\ \A i \in 1 .. Len(w) + 1 : v[i] = IF i < at THEN w[i] ELSE IF i = at THEN c ELSE w[i - 1]
    BY InsertFacts
  <1> HIDE DEF v
  <1>2. \A i \in DOMAIN v \ {at} : LET m == IF i < at THEN i ELSE i - 1 IN m \in DOMAIN w /\ v[i] = w[m]
    BY <1>0, <1>1
  <1>3. at \in DOMAIN v /\ v[at] = c
    BY <1>0, <1>1
  <1>4. \A i \in DOMAIN w : \E k \in DOMAIN v : v[k] = w[i]
    <2> TAKE i \in DOMAIN w
    <2>1. CASE i < at
      BY <1>0, <1>1, <2>1
    <2>2. CASE ~(i < at)
      <3>1. i + 1 \in DOMAIN v /\ v[i + 1] = w[(i + 1) - 1] /\ (i + 1) - 1 = i
        BY <1>0, <1>1, <2>2
      <3> QED BY <3>1
    <2> QED BY <2>1, <2>2
  <1>5. {v[i] : i \in DOMAIN v} = {w[i] : i \in DOMAIN w} \cup {c}
    BY <1>2, <1>3, <1>4
  <1>6. Held(v, p, of) = Held(w, p, of) \cup {c}
    BY <1>5, Zenon DEF Held
  <1>7. \A i \in DOMAIN v : v[i].id \in Nat \ {0} /\ v[i].id < n + 1
    <2> TAKE i \in DOMAIN v
    <2>1. CASE i = at
      BY <1>3, <2>1
    <2>2. CASE i # at
      <3>1. PICK m \in DOMAIN w : v[i] = w[m]
        BY <1>2, <2>2
      <3> QED BY <3>1 DEF Numbered
    <2> QED BY <2>1, <2>2
  <1>8. ASSUME NEW i \in DOMAIN v, NEW j \in DOMAIN v, v[i].id = v[j].id
        PROVE  i = j
    <2> DEFINE m(k) == IF k < at THEN k ELSE k - 1
    <2>1. \A k \in DOMAIN v \ {at} : m(k) \in DOMAIN w /\ v[k] = w[m(k)] /\ v[k].id < n
      BY <1>2 DEF Numbered
    <2>2. CASE i = at \/ j = at
      BY <1>3, <1>8, <2>1, <2>2
    <2>3. CASE i # at /\ j # at
      <3>1. m(i) = m(j)
        BY <1>8, <2>1, <2>3 DEF Numbered
      <3> QED BY <1>0, <1>1, <3>1, <2>3
    <2> QED BY <2>2, <2>3
  <1>9. \A i \in DOMAIN v, j \in Results(p, of) : v[i].id # p[j].cmd.id
    <2> TAKE i \in DOMAIN v, j \in Results(p, of)
    <2>1. CASE i = at
      BY <1>3, <2>1 DEF Numbered
    <2>2. CASE i # at
      <3>1. PICK m \in DOMAIN w : v[i] = w[m]
        BY <1>2, <2>2
      <3> QED BY <3>1 DEF Numbered
    <2> QED BY <2>1, <2>2
  <1>10. \A i \in Results(p, of) : p[i].cmd.id \in Nat \ {0} /\ p[i].cmd.id < n + 1
    BY DEF Numbered
  <1>11. Numbered(v, p, of, n + 1)
    BY <1>7, <1>8, <1>9, <1>10 DEF Numbered
  <1> QED BY <1>6, <1>11 DEF v

(* A command that waits is answered. *)
LEMMA Answered ==
  ASSUME NEW w, NEW p, NEW of, NEW n, IsSeq(w), IsSeq(p), NEW k \in DOMAIN w,
         NEW v, Removed(w, v, k), NEW r, r.token = of, r.what = "result", r.cmd = w[k],
         Numbered(w, p, of, n)
  PROVE  /\ Numbered(v, Append(p, r), of, n)
         /\ Held(v, Append(p, r), of) = Held(w, p, of)
  <1> DEFINE q == Append(p, r)
             m(i) == IF i < k THEN i ELSE i + 1
  <1>1. /\ Results(q, of) = Results(p, of) \cup {Len(p) + 1} /\ q[Len(p) + 1] = r
        /\ \A i \in Results(p, of) : q[i] = p[i]
    BY AppendedResults
  <1>2. /\ \A i \in DOMAIN v : m(i) \in DOMAIN w \ {k} /\ v[i] = w[m(i)]
        /\ \A j \in DOMAIN w \ {k} : \E i \in DOMAIN v : j = m(i)
    BY RemovedElements
  <1>3. \A i, j \in DOMAIN v : m(i) = m(j) => i = j
    <2>1. DOMAIN v \subseteq Nat /\ k \in Nat
      BY SeqFacts, RemovedElements
    <2> QED BY <2>1
  <1> HIDE DEF q, m
  <1>4. {v[i] : i \in DOMAIN v} \cup {r.cmd} = {w[i] : i \in DOMAIN w}
    BY <1>2
  <1>5. Held(v, q, of) = Held(w, p, of)
    <2>1. {q[i].cmd : i \in Results(q, of)} = {p[i].cmd : i \in Results(p, of)} \cup {r.cmd}
      BY <1>1
    <2> QED BY <1>4, <2>1 DEF Held
  <1>6. \A i, j \in DOMAIN v : v[i].id = v[j].id => i = j
    BY <1>2, <1>3 DEF Numbered
  <1>7. \A i \in DOMAIN v, j \in Results(q, of) : v[i].id # q[j].cmd.id
    BY <1>1, <1>2 DEF Numbered
  <1>8. \A i, j \in Results(q, of) : q[i].cmd.id = q[j].cmd.id => i = j
    BY <1>1 DEF Numbered
  <1>9. /\ \A i \in DOMAIN v : v[i].id \in Nat \ {0} /\ v[i].id < n
        /\ \A i \in Results(q, of) : q[i].cmd.id \in Nat \ {0} /\ q[i].cmd.id < n
    BY <1>1, <1>2 DEF Numbered
  <1>10. Numbered(v, q, of, n)
    BY <1>6, <1>7, <1>8, <1>9 DEF Numbered
  <1> QED BY <1>5, <1>10 DEF q

LEMMA RejectionFacts ==
  ASSUME NEW w, IsSeq(w), NEW of
  PROVE  /\ IsSeq(Rejections(of, w)) /\ Len(Rejections(of, w)) = Len(w)
         /\ \A i \in 1 .. Len(w) : /\ Rejections(of, w)[i].token = of /\ Rejections(of, w)[i].what = "result"
                                   /\ Rejections(of, w)[i].cmd = w[i] /\ ~Rejections(of, w)[i].ok
  <1> DEFINE R == {Result(of, w[i], FALSE, None) : i \in 1 .. Len(w)}
             v == Rejections(of, w)
  <1>1. Len(w) \in Nat
    BY SeqFacts
  <1>2. v \in [1 .. Len(w) -> R] /\ \A i \in 1 .. Len(w) : v[i] = Result(of, w[i], FALSE, None)
    BY DEF Rejections
  <1>3. v \in Seq(R)
    BY <1>1, <1>2, SeqDef
  <1>4. DOMAIN v = 1 .. Len(w)
    BY <1>2
  <1> HIDE DEF v, R
  <1>5. Len(v) \in Nat /\ DOMAIN v = 1 .. Len(v)
    BY <1>3, LenProperties
  <1>6. Len(v) = Len(w)
    BY <1>1, <1>4, <1>5
  <1>7. \A i \in 1 .. Len(w) : v[i].token = of /\ v[i].what = "result" /\ v[i].cmd = w[i] /\ ~v[i].ok
    BY <1>2 DEF Result
  <1>8. IsSeq(v)
    BY <1>3, SeqOfElements
  <1> QED BY <1>6, <1>7, <1>8 DEF v

LEMMA AppendedIsConcat ==
  ASSUME NEW p, IsSeq(p), NEW e
  PROVE  p \o <<e>> = Append(p, e)
  <1> DEFINE S == {p[i] : i \in DOMAIN p} \cup {e}
  <1>1. p \in Seq(S) /\ e \in S
    <2>1. p \in Seq({p[i] : i \in DOMAIN p})
      BY DEF IsSeq
    <2> QED BY <2>1, SeqMonotonic
  <1> HIDE DEF S
  <1> QED BY <1>1, AppendIsConcat

(* A queue is its first s elements and the others. *)
LEMMA PartsOfQueue ==
  ASSUME NEW w, IsSeq(w), NEW s \in 0 .. Len(w)
  PROVE  /\ IsSeq(SubSeq(w, 1, s)) /\ Len(SubSeq(w, 1, s)) = s
         /\ \A i \in 1 .. s : SubSeq(w, 1, s)[i] = w[i]
         /\ IsSeq(SubSeq(w, s + 1, Len(w))) /\ DOMAIN SubSeq(w, s + 1, Len(w)) = 1 .. Len(w) - s
         /\ \A i \in 1 .. Len(w) - s : SubSeq(w, s + 1, Len(w))[i] = w[i + s]
  <1>1. Len(w) \in Nat
    BY SeqFacts
  <1>2. /\ IsSeq(SubSeq(w, 1, s)) /\ Len(SubSeq(w, 1, s)) = s
        /\ \A i \in 1 .. s : SubSeq(w, 1, s)[i] = w[i]
    BY <1>1, SubSeqFacts
  <1> DEFINE v == SubSeq(w, s + 1, Len(w))
  <1>3. s + 1 \in 1 .. Len(w) + 1 /\ Len(w) \in (s + 1) - 1 .. Len(w) /\ Len(w) - (s + 1) + 1 = Len(w) - s
    BY <1>1
  <1>4. IsSeq(v) /\ Len(v) = Len(w) - (s + 1) + 1
        /\ \A i \in 1 .. Len(w) - (s + 1) + 1 : v[i] = w[(s + 1) + i - 1]
    BY <1>3, SubSeqFacts
  <1> HIDE DEF v
  <1>5. \A i \in 1 .. Len(w) - s : (s + 1) + i - 1 = i + s
    BY <1>1
  <1>6. IsSeq(v) /\ DOMAIN v = 1 .. Len(w) - s /\ \A i \in 1 .. Len(w) - s : v[i] = w[i + s]
    BY <1>3, <1>4, <1>5, SeqFacts
  <1> QED BY <1>2, <1>6 DEF v

(* The first s commands of the queue are rejected. *)
LEMMA Rejected ==
  ASSUME NEW w, NEW p, NEW of, NEW n, IsSeq(w), IsSeq(p), Numbered(w, p, of, n), NEW s \in 0 .. Len(w)
  PROVE  LET q == p \o Rejections(of, SubSeq(w, 1, s))
             v == SubSeq(w, s + 1, Len(w))
         IN  IsSeq(q) /\ IsSeq(v) /\ Numbered(v, q, of, n) /\ Held(v, q, of) = Held(w, p, of)
  <1> DEFINE u == SubSeq(w, 1, s)
             v == SubSeq(w, s + 1, Len(w))
             x == Rejections(of, u)
             q == p \o x
             L == Len(p)
  <1>0. Len(w) \in Nat /\ DOMAIN w = 1 .. Len(w) /\ L \in Nat /\ DOMAIN p = 1 .. L
    BY SeqFacts
  <1>a. /\ IsSeq(u) /\ Len(u) = s /\ \A i \in 1 .. s : u[i] = w[i]
        /\ IsSeq(v) /\ DOMAIN v = 1 .. Len(w) - s /\ \A i \in 1 .. Len(w) - s : v[i] = w[i + s]
    BY PartsOfQueue
  <1> HIDE DEF u, v
  <1>1. /\ IsSeq(x) /\ Len(x) = s
        /\ \A i \in 1 .. s : x[i].token = of /\ x[i].what = "result" /\ x[i].cmd = w[i]
    <2>1. IsSeq(u)
      BY <1>a
    <2>2. /\ IsSeq(x) /\ Len(x) = Len(u)
          /\ \A i \in 1 .. Len(u) : x[i].token = of /\ x[i].what = "result" /\ x[i].cmd = u[i]
      BY <2>1, RejectionFacts
    <2> QED BY <1>a, <2>2
  <1> HIDE DEF x
  <1>2. /\ IsSeq(q) /\ Len(q) = Len(p) + Len(x)
        /\ \A i \in 1 .. Len(p) : q[i] = p[i]
        /\ \A i \in 1 .. Len(x) : q[i + Len(p)] = x[i]
    <2>1. IsSeq(x)
      BY <1>1
    <2> QED BY <2>1, ConcatFacts
  <1> HIDE DEF q
  <1>3. DOMAIN q = 1 .. L + s
    BY <1>1, <1>2, SeqFacts
  <1> HIDE DEF L
  <1>4. \A i \in 1 .. L : q[i] = p[i]
    BY <1>2 DEF L
  <1>5. \A i \in 1 .. s : q[i + L].token = of /\ q[i + L].what = "result" /\ q[i + L].cmd = w[i]
    BY <1>1, <1>2 DEF L
  <1>6. \A i \in DOMAIN q : i \in 1 .. L \/ (i - L \in 1 .. s /\ (i - L) + L = i)
    BY <1>0, <1>3
  <1>b. 1 .. s \subseteq DOMAIN w
    BY <1>0
  <1>7. \A i \in Results(q, of) :
          (i \in Results(p, of) /\ q[i] = p[i]) \/ (i - L \in 1 .. s /\ q[i].cmd = w[i - L])
    <2> TAKE i \in Results(q, of)
    <2>1. i \in DOMAIN q
      BY DEF Results
    <2>2. CASE i \in 1 .. L
      BY <2>2, <1>0, <1>4 DEF Results
    <2>3. CASE i - L \in 1 .. s /\ (i - L) + L = i
      <3>1. q[(i - L) + L].cmd = w[i - L]
        BY <2>3, <1>5
      <3> QED BY <2>3, <3>1
    <2> QED BY <2>1, <2>2, <2>3, <1>6
  <1>8. \A i \in Results(p, of) : i \in Results(q, of) /\ q[i] = p[i]
    BY <1>0, <1>3, <1>4 DEF Results
  <1>9. \A i \in 1 .. s : i + L \in Results(q, of) /\ q[i + L].cmd = w[i]
    <2> TAKE i \in 1 .. s
    <2>1. i + L \in DOMAIN q
      BY <1>0, <1>3
    <2> QED BY <2>1, <1>0, <1>5 DEF Results
  <1>10. \A i \in DOMAIN v : i + s \in DOMAIN w /\ i + s \notin 1 .. s /\ v[i] = w[i + s]
    BY <1>0, <1>a
  <1>11. \A k \in DOMAIN w : k \in 1 .. s \/ \E i \in DOMAIN v : v[i] = w[k]
    <2> TAKE k \in DOMAIN w
    <2>1. CASE k > s
      <3>1. k - s \in DOMAIN v /\ v[k - s] = w[(k - s) + s] /\ (k - s) + s = k
        BY <1>0, <1>a, <2>1
      <3> QED BY <3>1
    <2> QED BY <1>0, <2>1
  <1>12. Held(v, q, of) = Held(w, p, of)
    <2>1. {q[i].cmd : i \in Results(q, of)} = {w[i] : i \in 1 .. s} \cup {p[i].cmd : i \in Results(p, of)}
      BY <1>7, <1>8, <1>9
    <2>2. {w[i] : i \in DOMAIN w} = {w[i] : i \in 1 .. s} \cup {v[i] : i \in DOMAIN v}
      BY <1>b, <1>10, <1>11
    <2> QED BY <2>1, <2>2, Zenon DEF Held
  <1>13. ASSUME NEW i \in Results(q, of), NEW j \in Results(q, of), q[i].cmd.id = q[j].cmd.id
         PROVE  i = j
    <2>1. CASE i \in Results(p, of) /\ q[i] = p[i]
      BY <1>b, <1>7, <1>13, <2>1 DEF Numbered
    <2>2. CASE i - L \in 1 .. s /\ q[i].cmd = w[i - L]
      <3>1. j - L \in 1 .. s /\ q[j].cmd = w[j - L]
        BY <1>b, <1>7, <1>13, <2>2 DEF Numbered
      <3>2. i - L = j - L
        BY <1>b, <3>1, <2>2, <1>13 DEF Numbered
      <3>3. i \in Nat /\ j \in Nat
        BY <1>0, <1>3 DEF Results
      <3> QED BY <3>2, <3>3, <1>0
    <2> QED BY <1>7, <2>1, <2>2
  <1>14. \A i \in Results(q, of) : q[i].cmd.id \in Nat \ {0} /\ q[i].cmd.id < n
    BY <1>b, <1>7 DEF Numbered
  <1>15. \A i \in DOMAIN v : v[i].id \in Nat \ {0} /\ v[i].id < n
    BY <1>10 DEF Numbered
  <1>16. ASSUME NEW i \in DOMAIN v, NEW j \in DOMAIN v, v[i].id = v[j].id
         PROVE  i = j
    <2>1. i + s = j + s
      BY <1>10, <1>16 DEF Numbered
    <2> QED BY <2>1, <1>a, <1>0
  <1>17. \A i \in DOMAIN v, j \in Results(q, of) : v[i].id # q[j].cmd.id
    <2> TAKE i \in DOMAIN v, j \in Results(q, of)
    <2>1. CASE j \in Results(p, of) /\ q[j] = p[j]
      BY <1>10, <2>1 DEF Numbered
    <2>2. CASE j - L \in 1 .. s /\ q[j].cmd = w[j - L]
      <3>1. i + s # j - L /\ i + s \in DOMAIN w /\ j - L \in DOMAIN w
        BY <1>b, <1>10, <2>2
      <3> QED BY <1>10, <2>2, <3>1 DEF Numbered
    <2> QED BY <1>7, <2>1, <2>2
  <1>18. Numbered(v, q, of, n)
    BY <1>13, <1>14, <1>15, <1>16, <1>17 DEF Numbered
  <1>19. IsSeq(v) /\ IsSeq(q)
    BY <1>a, <1>2
  <1> QED BY <1>12, <1>18, <1>19 DEF q, x, u, v

LEMMA RejectedAll ==
  ASSUME NEW w, NEW p, NEW of, NEW n, IsSeq(w), IsSeq(p), Numbered(w, p, of, n)
  PROVE  /\ IsSeq(p \o Rejections(of, w))
         /\ Numbered(<<>>, p \o Rejections(of, w), of, n)
         /\ Held(<<>>, p \o Rejections(of, w), of) = Held(w, p, of)
  <1>1. Len(w) \in Nat /\ w \in Seq({w[i] : i \in DOMAIN w})
    BY SeqFacts DEF IsSeq
  <1>2. SubSeq(w, 1, Len(w)) = w /\ SubSeq(w, Len(w) + 1, Len(w)) = <<>>
    BY <1>1, SubSeqFull, SubSeqEmpty
  <1>3. LET q == p \o Rejections(of, SubSeq(w, 1, Len(w)))
            v == SubSeq(w, Len(w) + 1, Len(w))
        IN  IsSeq(q) /\ IsSeq(v) /\ Numbered(v, q, of, n) /\ Held(v, q, of) = Held(w, p, of)
    BY <1>1, Rejected
  <1> QED BY <1>2, <1>3

(* The oldest report is delivered. *)
LEMMA TailResults ==
  ASSUME NEW p, IsSeq(p), p # <<>>, NEW of
  PROVE  /\ \A i \in Results(Tail(p), of) : i + 1 \in Results(p, of) \ {1} /\ Tail(p)[i] = p[i + 1]
         /\ \A i \in Results(p, of) \ {1} : i - 1 \in Results(Tail(p), of) /\ Tail(p)[i - 1] = p[i]
         /\ Head(p) = p[1]
         /\ 1 \in Results(p, of) <=> Head(p).token = of /\ Head(p).what = "result"
  <1> DEFINE q == Tail(p)
  <1>0. Len(p) \in Nat /\ DOMAIN p = 1 .. Len(p)
    BY SeqFacts
  <1>1. /\ Len(p) > 0 /\ DOMAIN q = 1 .. Len(p) - 1 /\ Head(p) = p[1]
        /\ \A i \in 1 .. Len(p) - 1 : q[i] = p[i + 1]
    BY TailFacts
  <1> HIDE DEF q
  <1>2. \A i \in DOMAIN q : i + 1 \in DOMAIN p \ {1} /\ q[i] = p[i + 1]
    BY <1>0, <1>1
  <1>3. \A i \in DOMAIN p \ {1} : i - 1 \in DOMAIN q /\ q[i - 1] = p[i]
    BY <1>0, <1>1
  <1>4. 1 \in DOMAIN p
    BY <1>0, <1>1
  <1>5. \A i \in Results(q, of) : i + 1 \in Results(p, of) \ {1} /\ q[i] = p[i + 1]
    BY <1>2 DEF Results
  <1>6. \A i \in Results(p, of) \ {1} : i - 1 \in Results(q, of) /\ q[i - 1] = p[i]
    BY <1>3 DEF Results
  <1>7. 1 \in Results(p, of) <=> Head(p).token = of /\ Head(p).what = "result"
    BY <1>1, <1>4 DEF Results
  <1> QED BY <1>1, <1>5, <1>6, <1>7 DEF q

LEMMA Taken ==
  ASSUME NEW w, NEW p, NEW of, NEW n, IsSeq(p), p # <<>>, Numbered(w, p, of, n)
  PROVE  /\ Numbered(w, Tail(p), of, n)
         /\ Head(p).token # of \/ Head(p).what # "result" => Held(w, Tail(p), of) = Held(w, p, of)
         /\ Head(p).token = of /\ Head(p).what = "result" =>
              /\ Head(p).cmd \in Held(w, p, of)
              /\ Held(w, p, of) = Held(w, Tail(p), of) \cup {Head(p).cmd}
              /\ \A c \in Held(w, Tail(p), of) : c.id # Head(p).cmd.id
  <1> DEFINE q == Tail(p)
             h == Head(p)
             C == {p[i].cmd : i \in Results(p, of)}
             D == {q[i].cmd : i \in Results(q, of)}
  <1>1. /\ \A i \in Results(q, of) : i + 1 \in Results(p, of) \ {1} /\ q[i] = p[i + 1]
        /\ \A i \in Results(p, of) \ {1} : i - 1 \in Results(q, of) /\ q[i - 1] = p[i]
        /\ h = p[1]
        /\ 1 \in Results(p, of) <=> h.token = of /\ h.what = "result"
    BY TailResults
  <1>2. Results(q, of) \subseteq Nat
    <2>1. DOMAIN q = 1 .. Len(p) - 1 /\ Len(p) \in Nat
      BY TailFacts, SeqFacts
    <2> QED BY <2>1 DEF Results
  <1> HIDE DEF q, h
  <1>3. Numbered(w, q, of, n)
    <2>1. \A i, j \in Results(q, of) : q[i].cmd.id = q[j].cmd.id => i = j
      <3> SUFFICES ASSUME NEW i \in Results(q, of), NEW j \in Results(q, of), q[i].cmd.id = q[j].cmd.id
                   PROVE  i = j
        OBVIOUS
      <3>1. i + 1 = j + 1
        BY <1>1 DEF Numbered
      <3> QED BY <1>2, <3>1
    <2>2. \A i \in Results(q, of) : q[i].cmd.id \in Nat \ {0} /\ q[i].cmd.id < n
      BY <1>1 DEF Numbered
    <2>3. \A i \in DOMAIN w, j \in Results(q, of) : w[i].id # q[j].cmd.id
      BY <1>1 DEF Numbered
    <2> QED BY <2>1, <2>2, <2>3 DEF Numbered
  <1>4. ASSUME h.token # of \/ h.what # "result"
        PROVE  C = D
    BY <1>1, <1>4
  <1>5. ASSUME h.token = of, h.what = "result"
        PROVE  C = D \cup {h.cmd}
    BY <1>1, <1>5
  <1>6. ASSUME h.token = of, h.what = "result"
        PROVE  /\ \A i \in DOMAIN w : w[i].id # h.cmd.id
               /\ \A c \in D : c.id # h.cmd.id
    BY <1>1, <1>6 DEF Numbered
  <1> HIDE DEF C, D
  <1>7. Held(w, p, of) = {w[i] : i \in DOMAIN w} \cup C /\ Held(w, q, of) = {w[i] : i \in DOMAIN w} \cup D
    BY DEF Held, C, D
  <1> QED BY <1>3, <1>4, <1>5, <1>6, <1>7 DEF q, h

(* Nothing is under way for a session that has just begun. *)
LEMMA NothingYet ==
  ASSUME NEW p, NEW of \in Nat, NEW n, \A i \in DOMAIN p : p[i].token \in 0 .. of
  PROVE  /\ Results(p, of + 1) = {}
         /\ Numbered(<<>>, p, of + 1, n)
         /\ Held(<<>>, p, of + 1) = {}
  <1>1. DOMAIN <<>> = {}
    BY EmptyFacts
  <1>2. Results(p, of + 1) = {}
    BY DEF Results
  <1>3. {(<<>>)[i] : i \in DOMAIN <<>>} = {}
    BY <1>1
  <1> QED BY <1>1, <1>2, <1>3 DEF Numbered, Held

LEMMA HonestAppended ==
  ASSUME NEW p, IsSeq(p), NEW of, Honest(p, of), NEW r, r.token \in 0 .. of,
         r.what = "result" /\ r.ok /\ r.cmd.kind \in {"ask", "search"} => r.answer = r.cmd.arg
  PROVE  Honest(Append(p, r), of)
  <1>1. Len(p) \in Nat /\ DOMAIN p = 1 .. Len(p)
    BY SeqFacts
  <1>2. /\ DOMAIN Append(p, r) = 1 .. Len(p) + 1
        /\ Append(p, r)[Len(p) + 1] = r
        /\ \A i \in 1 .. Len(p) : Append(p, r)[i] = p[i]
    BY AppendFacts
  <1>3. \A i \in DOMAIN Append(p, r) : Append(p, r)[i] = r \/ (i \in DOMAIN p /\ Append(p, r)[i] = p[i])
    BY <1>1, <1>2
  <1> QED BY <1>3 DEF Honest

LEMMA HonestTail ==
  ASSUME NEW p, IsSeq(p), p # <<>>, NEW of, Honest(p, of)
  PROVE  Honest(Tail(p), of) /\ 1 \in DOMAIN p /\ Head(p) = p[1]
  <1>1. Len(p) \in Nat /\ DOMAIN p = 1 .. Len(p)
    BY SeqFacts
  <1>2. /\ Len(p) > 0 /\ DOMAIN Tail(p) = 1 .. Len(p) - 1 /\ Head(p) = p[1]
        /\ \A i \in 1 .. Len(p) - 1 : Tail(p)[i] = p[i + 1]
    BY TailFacts
  <1>3. \A i \in DOMAIN Tail(p) : i + 1 \in DOMAIN p /\ Tail(p)[i] = p[i + 1]
    BY <1>1, <1>2
  <1> QED BY <1>1, <1>2, <1>3 DEF Honest

LEMMA HonestRejected ==
  ASSUME NEW p, IsSeq(p), NEW of \in Nat, Honest(p, of), NEW w, IsSeq(w)
  PROVE  Honest(p \o Rejections(of, w), of)
  <1> DEFINE x == Rejections(of, w)
             q == p \o x
  <1>1. /\ IsSeq(x) /\ Len(x) = Len(w) /\ \A i \in 1 .. Len(w) : x[i].token = of /\ ~x[i].ok
    BY RejectionFacts
  <1> HIDE DEF x
  <1>2. /\ IsSeq(q) /\ Len(q) = Len(p) + Len(x)
        /\ \A i \in 1 .. Len(p) : q[i] = p[i]
        /\ \A i \in 1 .. Len(x) : q[i + Len(p)] = x[i]
    <2>1. IsSeq(x)
      BY <1>1
    <2> QED BY <2>1, ConcatFacts
  <1> HIDE DEF q
  <1>3. Len(p) \in Nat /\ DOMAIN p = 1 .. Len(p) /\ Len(x) \in Nat /\ DOMAIN q = 1 .. Len(q)
    BY <1>1, <1>2, SeqFacts
  <1>4. \A i \in DOMAIN q : \/ i \in DOMAIN p /\ q[i] = p[i]
                            \/ \E k \in 1 .. Len(x) : q[i] = x[k]
    <2> TAKE i \in DOMAIN q
    <2>1. CASE i <= Len(p)
      BY <1>2, <1>3, <2>1
    <2>2. CASE ~(i <= Len(p))
      <3>1. i - Len(p) \in 1 .. Len(x) /\ (i - Len(p)) + Len(p) = i
        BY <1>2, <1>3, <2>2
      <3>2. q[(i - Len(p)) + Len(p)] = x[i - Len(p)]
        BY <1>2, <3>1
      <3> QED BY <3>1, <3>2
    <2> QED BY <2>1, <2>2
  <1>5. Honest(q, of)
    BY <1>1, <1>4 DEF Honest
  <1> QED BY <1>5 DEF q, x

-----------------------------------------------------------------------------
(* What every step does to the commands under way                           *)

UnderWay == Held(ses.wire, posted, token)

Keeps == token' = token /\ ses'.next = ses.next /\ UnderWay' = UnderWay
Sends(kind, arg) ==
  /\ token' = token /\ ses'.next = ses.next + 1
  /\ UnderWay' = UnderWay \cup {[id |-> ses.next, kind |-> kind, arg |-> arg]}
Takes ==
  /\ token' = token /\ ses'.next = ses.next
  /\ UnderWay = UnderWay' \cup {Head(posted).cmd}
  /\ \A c \in UnderWay' : c.id # Head(posted).cmd.id
Renews == token' = token + 1 /\ ses'.next = 1 /\ UnderWay' = {} /\ Results(posted', token') = {}

(* The session but for its queue and its counter. *)
SameLink(s) ==
  /\ DOMAIN s = DOMAIN Fresh
  /\ s.alive = ses.alive /\ s.linked = ses.linked /\ s.accepting = ses.accepting
  /\ s.refresh = ses.refresh /\ s.generation = ses.generation

(* A command is sent. *)
LEMMA Sent ==
  ASSUME TypeInv, NEW w, IsSeq(w), NEW p, IsSeq(p), Numbered(w, p, token, ses.next), Honest(p, token),
         NEW kind, NEW arg
  PROVE  LET e == Enqueued(w, p, kind, arg)
             c == [id |-> ses.next, kind |-> kind, arg |-> arg]
         IN  /\ SameLink(e.ses) /\ e.ses.next = ses.next + 1
             /\ IsSeq(e.ses.wire) /\ IsSeq(e.posted)
             /\ Numbered(e.ses.wire, e.posted, token, ses.next + 1) /\ Honest(e.posted, token)
             /\ Held(e.ses.wire, e.posted, token) = Held(w, p, token) \cup {c}
  <1> DEFINE c == [id |-> ses.next, kind |-> kind, arg |-> arg]
             at == IF IsQuery(kind) THEN Len(w) + 1 ELSE FirstQuery(w)
             e == Enqueued(w, p, kind, arg)
  <1>1. ses.next \in Nat \ {0} /\ token \in Nat /\ c.id = ses.next
    BY DEF TypeInv
  <1>2. at \in 1 .. Len(w) + 1
    BY FirstQueryIsPlace, SeqFacts
  <1>3. CASE ses.accepting
    <2>1. e = [ses |-> [ses EXCEPT !.next = @ + 1, !.wire = InsertAt(w, at, c)], posted |-> p]
      BY <1>3 DEF Enqueued
    <2> HIDE DEF c, at, e
    <2>2. e.posted = p /\ e.ses.next = ses.next + 1 /\ e.ses.wire = InsertAt(w, at, c) /\ SameLink(e.ses)
      BY <2>1 DEF TypeInv, SameLink, Fresh
    <2>3. /\ Numbered(InsertAt(w, at, c), p, token, ses.next + 1)
          /\ Held(InsertAt(w, at, c), p, token) = Held(w, p, token) \cup {c}
      BY <1>1, <1>2, Inserted
    <2>4. IsSeq(InsertAt(w, at, c))
      BY <1>2, InsertFacts
    <2> QED BY <2>2, <2>3, <2>4 DEF e, c
  <1>4. CASE ~ses.accepting
    <2> DEFINE r == Result(token, c, FALSE, None)
    <2>1. e = [ses |-> [ses EXCEPT !.next = @ + 1, !.wire = w], posted |-> Append(p, r)]
      BY <1>4 DEF Enqueued
    <2>2. r.token = token /\ r.what = "result" /\ r.cmd = c /\ ~r.ok
      BY DEF Result
    <2> HIDE DEF c, at, e, r
    <2>3. e.posted = Append(p, r) /\ e.ses.next = ses.next + 1 /\ e.ses.wire = w /\ SameLink(e.ses)
      BY <2>1 DEF TypeInv, SameLink, Fresh
    <2>4. /\ Numbered(w, Append(p, r), token, ses.next + 1)
          /\ Held(w, Append(p, r), token) = Held(w, p, token) \cup {r.cmd}
      <3>1. r.cmd.id = ses.next
        BY <1>1, <2>2
      <3> QED BY <1>1, <2>2, <3>1, PostedNew
    <2>5. Honest(Append(p, r), token)
      BY <1>1, <2>2, HonestAppended
    <2>6. IsSeq(Append(p, r))
      BY AppendFacts
    <2> QED BY <2>2, <2>3, <2>4, <2>5, <2>6 DEF e, c
  <1> QED BY <1>3, <1>4

LEMMA Submitted ==
  ASSUME TypeInv, PlaceInv, NEW kind, NEW arg, Submit(kind, arg), token' = token
  PROVE  /\ SameLink(ses') /\ ses'.next \in Nat \ {0} /\ IsSeq(ses'.wire) /\ IsSeq(posted')
         /\ PlaceInv' /\ Sends(kind, arg)
  <1> DEFINE e == Enqueued(ses.wire, posted, kind, arg)
  <1>1. IsSeq(ses.wire) /\ IsSeq(posted) /\ ses.next \in Nat \ {0}
        /\ Numbered(ses.wire, posted, token, ses.next) /\ Honest(posted, token)
    BY DEF TypeInv, PlaceInv
  <1>2. ses' = e.ses /\ posted' = e.posted
    BY DEF Submit
  <1>3. /\ SameLink(e.ses) /\ e.ses.next = ses.next + 1
        /\ IsSeq(e.ses.wire) /\ IsSeq(e.posted)
        /\ Numbered(e.ses.wire, e.posted, token, ses.next + 1) /\ Honest(e.posted, token)
        /\ Held(e.ses.wire, e.posted, token)
             = Held(ses.wire, posted, token) \cup {[id |-> ses.next, kind |-> kind, arg |-> arg]}
    BY <1>1, Sent
  <1> HIDE DEF e
  <1>4. ses'.next = ses.next + 1
    BY <1>2, <1>3
  <1>5. PlaceInv'
    BY <1>2, <1>3, <1>4 DEF PlaceInv
  <1>6. Sends(kind, arg)
    BY <1>2, <1>3, <1>4 DEF Sends, UnderWay
  <1> QED BY <1>1, <1>2, <1>3, <1>4, <1>5, <1>6

(* A command is taken out of the queue by its number. *)
LEMMA Withdrawn ==
  ASSUME TypeInv, PlaceInv, NEW id
  PROVE  /\ IsSeq(Without(id)) /\ IsSeq(Cancelled(id))
         /\ Numbered(Without(id), Cancelled(id), token, ses.next) /\ Honest(Cancelled(id), token)
         /\ Held(Without(id), Cancelled(id), token) = UnderWay
  <1>1. IsSeq(ses.wire) /\ IsSeq(posted) /\ Numbered(ses.wire, posted, token, ses.next) /\ Honest(posted, token)
        /\ token \in Nat
    BY DEF TypeInv, PlaceInv
  <1>2. CASE Waits(id)
    <2> DEFINE k == Place(id)
               r == Result(token, ses.wire[k], FALSE, None)
    <2>1. k \in DOMAIN ses.wire
      BY <1>2 DEF Waits, Place
    <2>2. Without(id) = RemoveAt(ses.wire, k) /\ Cancelled(id) = Append(posted, r)
      BY <1>2 DEF Without, Cancelled
    <2>3. r.token = token /\ r.what = "result" /\ r.cmd = ses.wire[k] /\ ~r.ok
      BY DEF Result
    <2> HIDE DEF k, r
    <2>4. Removed(ses.wire, RemoveAt(ses.wire, k), k)
      BY <1>1, <2>1, RemovedAt
    <2>5. IsSeq(RemoveAt(ses.wire, k)) /\ IsSeq(Append(posted, r))
      BY <1>1, <2>4, AppendFacts DEF Removed
    <2>6. /\ Numbered(RemoveAt(ses.wire, k), Append(posted, r), token, ses.next)
          /\ Held(RemoveAt(ses.wire, k), Append(posted, r), token) = Held(ses.wire, posted, token)
      BY <1>1, <2>1, <2>3, <2>4, Answered
    <2>7. Honest(Append(posted, r), token)
      BY <1>1, <2>3, HonestAppended
    <2> QED BY <2>2, <2>5, <2>6, <2>7 DEF UnderWay
  <1>3. CASE ~Waits(id)
    BY <1>1, <1>3 DEF Without, Cancelled, UnderWay
  <1> QED BY <1>2, <1>3

(* A report other than an answer is posted. *)
LEMMA Reported ==
  ASSUME TypeInv, PlaceInv, NEW r, r.token = token, r.what # "result",
         posted' = Append(posted, r), token' = token, ses'.wire = ses.wire, ses'.next = ses.next
  PROVE  PlaceInv' /\ Keeps /\ IsSeq(posted')
  <1>1. IsSeq(ses.wire) /\ IsSeq(posted) /\ Numbered(ses.wire, posted, token, ses.next) /\ Honest(posted, token)
        /\ token \in Nat
    BY DEF TypeInv, PlaceInv
  <1>2. /\ Numbered(ses.wire, Append(posted, r), token, ses.next)
        /\ Held(ses.wire, Append(posted, r), token) = Held(ses.wire, posted, token)
    BY <1>1, PostedOther
  <1>3. Honest(Append(posted, r), token)
    BY <1>1, HonestAppended
  <1>4. IsSeq(Append(posted, r))
    BY <1>1, AppendFacts
  <1> QED BY <1>2, <1>3, <1>4 DEF PlaceInv, Keeps, UnderWay

(* A report is delivered. *)
LEMMA Received ==
  ASSUME TypeInv, PlaceInv, posted # <<>>, posted' = Tail(posted), token' = token,
         ses'.wire = ses.wire, ses'.next = ses.next
  PROVE  /\ PlaceInv' /\ IsSeq(posted')
         /\ ~OfThisSession(Head(posted)) \/ Head(posted).what # "result" => Keeps
         /\ Due("result") => Takes
  <1>1. IsSeq(ses.wire) /\ IsSeq(posted) /\ Numbered(ses.wire, posted, token, ses.next) /\ Honest(posted, token)
        /\ token \in Nat
    BY DEF TypeInv, PlaceInv
  <1> DEFINE h == Head(posted)
             q == Tail(posted)
  <1>2. /\ Numbered(ses.wire, q, token, ses.next)
        /\ h.token # token \/ h.what # "result" => Held(ses.wire, q, token) = Held(ses.wire, posted, token)
        /\ h.token = token /\ h.what = "result" =>
             /\ Held(ses.wire, posted, token) = Held(ses.wire, q, token) \cup {h.cmd}
             /\ \A c \in Held(ses.wire, q, token) : c.id # h.cmd.id
    BY <1>1, Taken
  <1>3. Honest(q, token)
    BY <1>1, HonestTail
  <1>4. IsSeq(q)
    BY <1>1, TailFacts
  <1> HIDE DEF h, q
  <1>5. posted' = q
    BY DEF q
  <1>6. PlaceInv' /\ IsSeq(posted')
    BY <1>2, <1>3, <1>4, <1>5 DEF PlaceInv
  <1>7. h.token # token \/ h.what # "result" => Keeps
    BY <1>2, <1>5 DEF Keeps, UnderWay
  <1>8. h.token = token /\ h.what = "result" => Takes
    BY <1>2, <1>5 DEF Takes, UnderWay, h
  <1> QED BY <1>6, <1>7, <1>8 DEF h, OfThisSession, Due

-----------------------------------------------------------------------------
(* Types and places, action by action                                       *)

PanelFields == {"field", "timer", "rows", "more", "state", "parked"}
ServerFields == {"repeat", "play", "list", "queue"}

(* The parts of TypeInv, for the steps that leave the others alone. *)
SessionTyped == DOMAIN ses = DOMAIN Fresh /\ ses.next \in Nat \ {0} /\ ses.generation \in Nat
                /\ IsSeq(ses.wire) /\ IsSeq(posted) /\ token \in Nat
WindowTyped == DOMAIN ui = DOMAIN Cleared /\ IsSeq(ui.rows) /\ IsFiniteSet(ui.asking) /\ IsSeq(heard)
               /\ DOMAIN panel = PanelFields /\ DOMAIN tab = {"open", "shows"}
ServerTyped == DOMAIN server = ServerFields

LEMMA TypeParts ==
  /\ TypeInv <=> SessionTyped /\ WindowTyped /\ ServerTyped
  /\ TypeInv' <=> SessionTyped' /\ WindowTyped' /\ ServerTyped'
  BY DEF TypeInv, SessionTyped, WindowTyped, ServerTyped, PanelFields, ServerFields

LEMMA FollowedRest ==
  ASSUME NEW p, DOMAIN p = PanelFields, NEW u
  PROVE  /\ DOMAIN Followed(p, u) = PanelFields
         /\ Followed(p, u).field = p.field /\ Followed(p, u).rows = p.rows
         /\ Followed(p, u).state = p.state /\ Followed(p, u).parked = p.parked
         /\ p.timer => Followed(p, u).timer
         /\ u.connected /\ p.field # "" /\ p.field # u.last => Followed(p, u).timer
  BY DEF Followed, PanelFields

LEMMA FinishedRest ==
  ASSUME NEW p, DOMAIN p = PanelFields, NEW u, NEW query, NEW success \in BOOLEAN
  PROVE  /\ DOMAIN Finished(p, u, query, success) = PanelFields
         /\ Finished(p, u, query, success).field = p.field
         /\ Finished(p, u, query, success).timer = p.timer
         /\ query # p.field \/ query = "" => Finished(p, u, query, success) = p
         /\ query = p.field /\ query # "" =>
              /\ Finished(p, u, query, success).rows = IF success THEN u.rows ELSE <<>>
              /\ Finished(p, u, query, success).state = IF success THEN "done" ELSE "failed"
  BY DEF Finished, PanelFields

LEMMA OutcomeTyped ==
  ASSUME ServerTyped, NEW cmd
  PROVE  DOMAIN Outcome(cmd).server = ServerFields
  BY DEF ServerTyped, Outcome, ServerFields

LEMMA ConnectsPlaces ==
  ASSUME TypeInv, PlaceInv, SessionConnects
  PROVE  TypeInv' /\ PlaceInv' /\ Keeps
  <1> DEFINE r == [token |-> token, what |-> "state", generation |-> ses.generation]
  <1>1. r.token = token /\ r.what # "result" /\ posted' = Append(posted, r)
    BY DEF SessionConnects
  <1> HIDE DEF r
  <1>2. ses' = [ses EXCEPT !.linked = TRUE, !.refresh = TRUE] /\ token' = token
    BY DEF SessionConnects
  <1>3. /\ DOMAIN ses' = DOMAIN Fresh /\ ses'.wire = ses.wire /\ ses'.next = ses.next
        /\ ses'.generation = ses.generation
    BY <1>2 DEF TypeInv, Fresh
  <1>4. PlaceInv' /\ Keeps /\ IsSeq(posted')
    BY <1>1, <1>2, <1>3, Reported
  <1>5. SessionTyped'
    BY <1>2, <1>3, <1>4 DEF SessionTyped, TypeInv
  <1>6. WindowTyped' /\ ServerTyped'
    BY TypeParts DEF SessionConnects, WindowTyped, ServerTyped
  <1> QED BY <1>4, <1>5, <1>6, TypeParts

LEMMA RefreshesPlaces ==
  ASSUME TypeInv, PlaceInv, SessionRefreshes
  PROVE  TypeInv' /\ PlaceInv' /\ Keeps
  <1> DEFINE r == [token |-> token, what |-> "snapshot", generation |-> ses.generation, seen |-> server]
  <1>1. r.token = token /\ r.what # "result" /\ posted' = Append(posted, r)
    BY DEF SessionRefreshes
  <1> HIDE DEF r
  <1>2. ses' = [ses EXCEPT !.refresh = FALSE, !.accepting = TRUE] /\ token' = token
    BY DEF SessionRefreshes
  <1>3. /\ DOMAIN ses' = DOMAIN Fresh /\ ses'.wire = ses.wire /\ ses'.next = ses.next
        /\ ses'.generation = ses.generation
    BY <1>2 DEF TypeInv, Fresh
  <1>4. PlaceInv' /\ Keeps /\ IsSeq(posted')
    BY <1>1, <1>2, <1>3, Reported
  <1>5. SessionTyped'
    BY <1>2, <1>3, <1>4 DEF SessionTyped, TypeInv
  <1>6. WindowTyped' /\ ServerTyped'
    BY TypeParts DEF SessionRefreshes, WindowTyped, ServerTyped
  <1> QED BY <1>4, <1>5, <1>6, TypeParts

LEMMA NoticePlaces ==
  ASSUME TypeInv, PlaceInv, NoticeArrives
  PROVE  TypeInv' /\ PlaceInv' /\ Keeps
  <1> DEFINE r == [token |-> token, what |-> "notice"]
  <1>1. r.token = token /\ r.what # "result" /\ (posted' = Append(posted, r) \/ posted' = posted)
    BY DEF NoticeArrives
  <1> HIDE DEF r
  <1>2. ses' = [ses EXCEPT !.refresh = @ \/ ses.linked] /\ token' = token
    BY DEF NoticeArrives
  <1>3. /\ DOMAIN ses' = DOMAIN Fresh /\ ses'.wire = ses.wire /\ ses'.next = ses.next
        /\ ses'.generation = ses.generation
    BY <1>2 DEF TypeInv, Fresh
  <1>4. posted' = posted => PlaceInv' /\ Keeps /\ IsSeq(posted')
    BY <1>2, <1>3 DEF PlaceInv, Keeps, UnderWay, TypeInv
  <1>5. PlaceInv' /\ Keeps /\ IsSeq(posted')
    BY <1>1, <1>2, <1>3, <1>4, Reported
  <1>6. SessionTyped'
    BY <1>2, <1>3, <1>5 DEF SessionTyped, TypeInv
  <1>7. WindowTyped' /\ ServerTyped'
    BY TypeParts DEF NoticeArrives, WindowTyped, ServerTyped
  <1> QED BY <1>5, <1>6, <1>7, TypeParts

(* The oldest command is answered with r. *)
LEMMA ExecutedPlaces ==
  ASSUME TypeInv, PlaceInv, ses.wire # <<>>,
         NEW ok, NEW answer, posted' = Append(posted, Result(token, Head(ses.wire), ok, answer)),
         ok /\ Head(ses.wire).kind \in {"ask", "search"} => answer = Head(ses.wire).arg,
         token' = token, DOMAIN ses' = DOMAIN Fresh, ses'.wire = Tail(ses.wire), ses'.next = ses.next,
         ses'.generation = ses.generation
  PROVE  SessionTyped' /\ PlaceInv' /\ Keeps
  <1> DEFINE r == Result(token, Head(ses.wire), ok, answer)
  <1>1. IsSeq(ses.wire) /\ IsSeq(posted) /\ Numbered(ses.wire, posted, token, ses.next) /\ Honest(posted, token)
        /\ token \in Nat
    BY DEF TypeInv, PlaceInv
  <1>2. 1 \in DOMAIN ses.wire /\ Head(ses.wire) = ses.wire[1] /\ Removed(ses.wire, Tail(ses.wire), 1)
    BY <1>1, RemovedHead
  <1>3. /\ r.token = token /\ r.what = "result" /\ r.cmd = ses.wire[1]
        /\ r.what = "result" /\ r.ok /\ r.cmd.kind \in {"ask", "search"} => r.answer = r.cmd.arg
    BY <1>2 DEF Result
  <1> HIDE DEF r
  <1>4. /\ Numbered(Tail(ses.wire), Append(posted, r), token, ses.next)
        /\ Held(Tail(ses.wire), Append(posted, r), token) = Held(ses.wire, posted, token)
    BY <1>1, <1>2, <1>3, Answered
  <1>5. Honest(Append(posted, r), token)
    BY <1>1, <1>3, HonestAppended
  <1>6. IsSeq(Append(posted, r)) /\ IsSeq(Tail(ses.wire))
    BY <1>1, <1>2, AppendFacts DEF Removed
  <1>7. posted' = Append(posted, r)
    BY DEF r
  <1> QED BY <1>4, <1>5, <1>6, <1>7 DEF PlaceInv, Keeps, UnderWay, SessionTyped, TypeInv

LEMMA ExecutesPlaces ==
  ASSUME TypeInv, PlaceInv, SessionExecutes
  PROVE  TypeInv' /\ PlaceInv' /\ Keeps
  <1> DEFINE cmd == Head(ses.wire)
             outcome == Outcome(cmd)
  <1>1. ses.wire # <<>> /\ token' = token /\ WindowTyped'
    BY TypeParts DEF SessionExecutes, WindowTyped
  <1>2. CASE /\ posted' = Append(posted, Result(token, cmd, outcome.problem = None, Answer(cmd)))
             /\ server' = outcome.server
             /\ \E again : ses' = [ses EXCEPT !.wire = Tail(@), !.refresh = again]
    <2>1. DOMAIN ses' = DOMAIN Fresh /\ ses'.wire = Tail(ses.wire) /\ ses'.next = ses.next
          /\ ses'.generation = ses.generation
      BY <1>2 DEF TypeInv, Fresh
    <2>2. cmd.kind \in {"ask", "search"} => Answer(cmd) = cmd.arg
      BY DEF Answer
    <2>3. ServerTyped'
      BY <1>2, OutcomeTyped, TypeParts DEF ServerTyped
    <2> HIDE DEF cmd, outcome
    <2>4. SessionTyped' /\ PlaceInv' /\ Keeps
      BY <1>1, <1>2, <2>1, <2>2, ExecutedPlaces DEF cmd
    <2> QED BY <1>1, <2>3, <2>4, TypeParts
  <1>3. CASE /\ posted' = Append(posted, Result(token, cmd, FALSE, None))
             /\ ses' = [ses EXCEPT !.wire = Tail(@)]
             /\ UNCHANGED server
    <2>1. DOMAIN ses' = DOMAIN Fresh /\ ses'.wire = Tail(ses.wire) /\ ses'.next = ses.next
          /\ ses'.generation = ses.generation
      BY <1>3 DEF TypeInv, Fresh
    <2>3. ServerTyped'
      BY <1>3, TypeParts DEF ServerTyped
    <2>4. SessionTyped' /\ PlaceInv' /\ Keeps
      BY <1>1, <1>3, <2>1, ExecutedPlaces
    <2> QED BY <1>1, <2>3, <2>4, TypeParts
  <1> QED BY <1>2, <1>3 DEF SessionExecutes

LEMMA BreaksPlaces ==
  ASSUME TypeInv, PlaceInv, NEW sent \in {0, 1}, SessionBreaks(sent)
  PROVE  TypeInv' /\ PlaceInv' /\ Keeps
  <1> DEFINE st(g) == [token |-> token, what |-> "state", generation |-> g]
             w == ses.wire
             rest == SubSeq(w, sent + 1, Len(w))
             p1 == posted \o Rejections(token, SubSeq(w, 1, sent))
             p2 == Append(p1, st(ses.generation))
             p3 == p2 \o Rejections(token, rest)
             p4 == Append(p3, st(ses.generation + 1))
  <1>1. IsSeq(ses.wire) /\ IsSeq(posted) /\ Numbered(ses.wire, posted, token, ses.next) /\ Honest(posted, token)
        /\ token \in Nat /\ ses.generation \in Nat
    BY DEF TypeInv, PlaceInv
  <1>2. sent <= Len(w) /\ Len(w) \in Nat
    BY <1>1, SeqFacts DEF SessionBreaks
  <1>3. IsSeq(SubSeq(w, 1, sent)) /\ IsSeq(rest) /\ sent \in 0 .. Len(w)
    BY <1>1, <1>2, PartsOfQueue
  <1>4. IsSeq(Rejections(token, SubSeq(w, 1, sent))) /\ IsSeq(Rejections(token, rest))
    BY <1>3, RejectionFacts
  <1>5. /\ IsSeq(p1) /\ Honest(p1, token) /\ Numbered(rest, p1, token, ses.next)
        /\ Held(rest, p1, token) = UnderWay
    <2>1. Honest(p1, token)
      BY <1>1, <1>3, HonestRejected
    <2>2. IsSeq(p1) /\ Numbered(rest, p1, token, ses.next) /\ Held(rest, p1, token) = UnderWay
      BY <1>1, <1>3, Rejected DEF UnderWay
    <2> QED BY <2>1, <2>2
  <1>6. posted' = (((p1 \o <<st(ses.generation)>>) \o Rejections(token, rest)) \o <<st(ses.generation + 1)>>)
    BY DEF SessionBreaks
  <1>7. \A g : st(g).token = token /\ st(g).what # "result"
    OBVIOUS
  <1> HIDE DEF p1, st
  <1>8. p1 \o <<st(ses.generation)>> = p2
    BY <1>5, AppendedIsConcat
  <1>9. /\ IsSeq(p2) /\ Honest(p2, token) /\ Numbered(rest, p2, token, ses.next)
        /\ Held(rest, p2, token) = UnderWay
    <2>1. IsSeq(p2)
      BY <1>5, AppendFacts
    <2>2. Honest(p2, token)
      BY <1>1, <1>5, <1>7, HonestAppended
    <2>3. Numbered(rest, p2, token, ses.next) /\ Held(rest, p2, token) = UnderWay
      BY <1>5, <1>7, PostedOther
    <2> QED BY <2>1, <2>2, <2>3
  <1> HIDE DEF p2, rest
  <1>10. /\ IsSeq(p3) /\ Honest(p3, token) /\ Numbered(<<>>, p3, token, ses.next)
         /\ Held(<<>>, p3, token) = UnderWay
    <2>1. Honest(p3, token)
      BY <1>1, <1>3, <1>9, HonestRejected
    <2>2. IsSeq(p3) /\ Numbered(<<>>, p3, token, ses.next) /\ Held(<<>>, p3, token) = UnderWay
      BY <1>3, <1>9, RejectedAll
    <2> QED BY <2>1, <2>2
  <1> HIDE DEF p3
  <1>11. p3 \o <<st(ses.generation + 1)>> = p4
    BY <1>10, AppendedIsConcat
  <1>12. posted' = p4
    BY <1>6, <1>8, <1>11 DEF p3
  <1>13. /\ IsSeq(p4) /\ Honest(p4, token) /\ Numbered(<<>>, p4, token, ses.next)
         /\ Held(<<>>, p4, token) = UnderWay
    <2>1. IsSeq(p4)
      BY <1>10, AppendFacts
    <2>2. Honest(p4, token)
      BY <1>1, <1>7, <1>10, HonestAppended
    <2>3. Numbered(<<>>, p4, token, ses.next) /\ Held(<<>>, p4, token) = UnderWay
      BY <1>7, <1>10, PostedOther
    <2> QED BY <2>1, <2>2, <2>3
  <1> HIDE DEF p4, w
  <1>14. /\ DOMAIN ses' = DOMAIN Fresh /\ ses'.wire = <<>> /\ ses'.next = ses.next
         /\ ses'.generation = ses.generation + 1 /\ token' = token
    BY DEF SessionBreaks, TypeInv, Fresh
  <1>15. PlaceInv' /\ Keeps
    BY <1>12, <1>13, <1>14 DEF PlaceInv, Keeps, UnderWay
  <1>16. SessionTyped'
    BY <1>12, <1>13, <1>14, EmptyFacts DEF SessionTyped, TypeInv
  <1>17. WindowTyped' /\ ServerTyped'
    <2>1. WindowTyped'
      BY TypeParts DEF SessionBreaks, WindowTyped
    <2>2. server' = server \/ \E cmd : server' = Outcome(cmd).server
      BY DEF SessionBreaks
    <2> QED BY <2>1, <2>2, OutcomeTyped, TypeParts DEF ServerTyped
  <1> QED BY <1>15, <1>16, <1>17, TypeParts

LEMMA ForeignPlaces ==
  ASSUME TypeInv, PlaceInv, NEW what, NEW queue, Foreign(what, queue), what \in {"repeat", "play", "list", "queue"}
  PROVE  TypeInv' /\ PlaceInv' /\ Keeps
  <1>1. SessionTyped' /\ WindowTyped'
    BY TypeParts DEF Foreign, WindowTyped, SessionTyped
  <1>2. ServerTyped'
    BY TypeParts DEF Foreign, ServerTyped, ServerFields
  <1>3. PlaceInv' /\ Keeps
    BY DEF Foreign, PlaceInv, Keeps, UnderWay
  <1> QED BY <1>1, <1>2, <1>3, TypeParts

LEMMA SubmittedTyped ==
  ASSUME TypeInv, PlaceInv, NEW kind, NEW arg, Submit(kind, arg), token' = token
  PROVE  SessionTyped' /\ PlaceInv' /\ Sends(kind, arg)
  BY Submitted DEF TypeInv, SessionTyped, SameLink

LEMMA AskPlaces ==
  ASSUME TypeInv, PlaceInv, Ask
  PROVE  /\ TypeInv' /\ PlaceInv'
         /\ IF ui.connected THEN Sends("ask", Len(heard) + 1) ELSE Keeps
  <1>1. token' = token /\ panel' = panel /\ tab' = tab /\ ServerTyped'
    BY TypeParts DEF Ask, Aside, ServerTyped
  <1>2. CASE ui.connected
    <2>1. SessionTyped' /\ PlaceInv' /\ Sends("ask", Len(heard) + 1)
      BY <1>1, <1>2, SubmittedTyped DEF Ask
    <2>2. WindowTyped'
      <3>1. heard' = Append(heard, <<>>) /\ ui' = [ui EXCEPT !.asking = @ \cup {[id |-> NewId, question |-> Len(heard) + 1]}]
        BY <1>2 DEF Ask
      <3>2. IsSeq(heard')
        BY <3>1, AppendFacts, TypeParts DEF WindowTyped
      <3>3. IsFiniteSet(ui'.asking) /\ ui'.rows = ui.rows /\ DOMAIN ui' = DOMAIN Cleared
        <4>1. ui'.asking = ui.asking \cup {[id |-> NewId, question |-> Len(heard) + 1]} /\ ui'.rows = ui.rows
              /\ DOMAIN ui' = DOMAIN ui
          BY <3>1 DEF TypeInv, Cleared
        <4>2. IsFiniteSet(ui.asking)
          BY DEF TypeInv
        <4>3. IsFiniteSet(ui'.asking)
          <5> DEFINE a == [id |-> NewId, question |-> Len(heard) + 1]
          <5>1. ui'.asking = ui.asking \cup {a}
            BY <4>1
          <5> HIDE DEF a
          <5>2. IsFiniteSet(ui.asking \cup {a})
            BY <4>2, FS_AddElement
          <5> QED BY <5>1, <5>2
        <4> QED BY <4>1, <4>3 DEF TypeInv
      <3> QED BY <1>1, <3>2, <3>3, TypeParts DEF WindowTyped
    <2> QED BY <1>1, <1>2, <2>1, <2>2, TypeParts
  <1>3. CASE ~ui.connected
    <2>1. heard' = Append(heard, <<0>>) /\ UNCHANGED <<ses, posted, ui>>
      BY <1>3 DEF Ask
    <2>2. IsSeq(heard')
      BY <2>1, AppendFacts, TypeParts DEF WindowTyped
    <2>3. WindowTyped' /\ SessionTyped'
      BY <1>1, <2>1, <2>2, TypeParts DEF WindowTyped, SessionTyped
    <2>4. PlaceInv' /\ Keeps
      BY <1>1, <2>1 DEF PlaceInv, Keeps, UnderWay
    <2> QED BY <1>1, <1>3, <2>3, <2>4, TypeParts
  <1> QED BY <1>2, <1>3

LEMMA RepeatPlaces ==
  ASSUME TypeInv, PlaceInv, NEW mode, SetRepeat(mode)
  PROVE  TypeInv' /\ PlaceInv' /\ Sends("repeat", mode)
  <1>1. SessionTyped' /\ PlaceInv' /\ Sends("repeat", mode)
    BY SubmittedTyped DEF SetRepeat, Aside
  <1>2. WindowTyped' /\ ServerTyped'
    BY TypeParts DEF SetRepeat, Aside, WindowTyped, ServerTyped, Cleared
  <1> QED BY <1>1, <1>2, TypeParts

LEMMA TransportPlaces ==
  ASSUME TypeInv, PlaceInv, NEW state, Transport(state)
  PROVE  TypeInv' /\ PlaceInv' /\ Sends("transport", state)
  <1>1. SessionTyped' /\ PlaceInv' /\ Sends("transport", state)
    BY SubmittedTyped DEF Transport, Aside
  <1>2. WindowTyped' /\ ServerTyped'
    BY TypeParts DEF Transport, Aside, WindowTyped, ServerTyped, Cleared
  <1> QED BY <1>1, <1>2, TypeParts

LEMMA OpenTabPlaces ==
  ASSUME TypeInv, PlaceInv, OpenTab
  PROVE  TypeInv' /\ PlaceInv' /\ Sends("read", None)
  <1>1. SessionTyped' /\ PlaceInv' /\ Sends("read", None)
    BY SubmittedTyped DEF OpenTab
  <1>2. WindowTyped' /\ ServerTyped'
    BY TypeParts DEF OpenTab, WindowTyped, ServerTyped, Cleared
  <1> QED BY <1>1, <1>2, TypeParts

LEMMA EditPlaces ==
  ASSUME TypeInv, PlaceInv, EditPlaylist
  PROVE  TypeInv' /\ PlaceInv' /\ Sends("edit", None)
  <1>1. SessionTyped' /\ PlaceInv' /\ Sends("edit", None)
    BY SubmittedTyped DEF EditPlaylist, Aside
  <1>2. WindowTyped' /\ ServerTyped'
    BY TypeParts DEF EditPlaylist, Aside, WindowTyped, ServerTyped, Cleared
  <1> QED BY <1>1, <1>2, TypeParts

LEMMA RereadPlaces ==
  ASSUME TypeInv, PlaceInv, RereadTimer
  PROVE  /\ TypeInv' /\ PlaceInv'
         /\ IF ui.connected /\ tab.open THEN Sends("read", None) ELSE Keeps
  <1>1. token' = token /\ WindowTyped' /\ ServerTyped'
    BY TypeParts DEF RereadTimer, WindowTyped, ServerTyped, Cleared
  <1>2. CASE ui.connected /\ tab.open
    <2>1. Submit("read", None)
      BY <1>2 DEF RereadTimer
    <2>2. SessionTyped' /\ PlaceInv' /\ Sends("read", None)
      BY <1>1, <2>1, SubmittedTyped
    <2> QED BY <1>1, <1>2, <2>2, TypeParts
  <1>3. CASE ~(ui.connected /\ tab.open)
    <2>1. UNCHANGED <<ui, ses, posted>>
      BY <1>3 DEF RereadTimer
    <2>2. SessionTyped' /\ PlaceInv' /\ Keeps
      BY <1>1, <2>1, TypeParts DEF PlaceInv, Keeps, UnderWay, SessionTyped
    <2> QED BY <1>1, <1>3, <2>2, TypeParts
  <1> QED BY <1>2, <1>3

(* An edit of the queue is one of these commands, and nothing else changes. *)
LEMMA QueueEditSends ==
  ASSUME QueueEdit
  PROVE  \E kind, arg : kind \in {"delete", "clear", "drag"} /\ EditQueue(kind, arg)
  <1>1. PICK rows \in SUBSET DOMAIN ui.queue :
          RemoveRows(rows) \/ CropToRows(rows) \/ \E at \in 0 .. Len(ui.queue) : DragRows(rows, at)
    BY DEF QueueEdit
  <1>2. RemoveRows(rows) => \E arg : EditQueue("clear", arg) \/ EditQueue("delete", arg)
    BY DEF RemoveRows
  <1>3. CropToRows(rows) => \E arg : EditQueue("delete", arg)
    BY DEF CropToRows
  <1>4. ASSUME NEW at, DragRows(rows, at)
        PROVE  \E arg : EditQueue("drag", arg)
    BY <1>4 DEF DragRows
  <1> QED BY <1>1, <1>2, <1>3, <1>4

LEMMA QueueEditPlaces ==
  ASSUME TypeInv, PlaceInv, NEW kind, NEW arg, EditQueue(kind, arg)
  PROVE  TypeInv' /\ PlaceInv' /\ Sends(kind, arg)
  <1>1. SessionTyped' /\ PlaceInv' /\ Sends(kind, arg)
    BY SubmittedTyped DEF EditQueue, Aside
  <1>2. WindowTyped' /\ ServerTyped'
    BY TypeParts DEF EditQueue, Aside, WindowTyped, ServerTyped
  <1> QED BY <1>1, <1>2, TypeParts

LEMMA ConfirmationPlaces ==
  ASSUME TypeInv, PlaceInv, ConfirmationTimer
  PROVE  TypeInv' /\ PlaceInv' /\ Keeps
  <1>1. SessionTyped' /\ WindowTyped' /\ ServerTyped'
    BY TypeParts DEF ConfirmationTimer, WindowTyped, SessionTyped, ServerTyped, Cleared
  <1>2. PlaceInv' /\ Keeps
    BY DEF ConfirmationTimer, PlaceInv, Keeps, UnderWay
  <1> QED BY <1>1, <1>2, TypeParts

LEMMA TypePlaces ==
  ASSUME TypeInv, PlaceInv, NEW text, Type(text)
  PROVE  TypeInv' /\ PlaceInv' /\ Keeps
  <1>1. SessionTyped' /\ WindowTyped' /\ ServerTyped'
    BY TypeParts DEF Type, WindowTyped, SessionTyped, ServerTyped, PanelFields
  <1>2. PlaceInv' /\ Keeps
    BY DEF Type, PlaceInv, Keeps, UnderWay
  <1> QED BY <1>1, <1>2, TypeParts

(* What searchLibrary does to the window. *)
Sought(u, id, text) ==
  /\ DOMAIN u = DOMAIN Cleared
  /\ u.search = id /\ u.text = text /\ u.last = text /\ u.append = FALSE /\ u.more = FALSE
  /\ u.connected = ui.connected /\ u.asking = ui.asking

LEMMA SearchForPlaces ==
  ASSUME TypeInv, PlaceInv, NEW p, DOMAIN p = PanelFields, SearchFor(p), token' = token
  PROVE  /\ SessionTyped' /\ PlaceInv' /\ DOMAIN panel' = PanelFields
         /\ p.field = "" => /\ Keeps /\ Sought(ui', 0, "") /\ ui'.rows = <<>>
                            /\ panel' = Followed([p EXCEPT !.state = "idle"], ui')
         /\ p.field # "" /\ ~ui.connected =>
              Keeps /\ UNCHANGED <<ui, ses, posted>> /\ panel' = Followed(Finished(p, ui, p.field, FALSE), ui)
         /\ p.field # "" /\ ui.connected =>
              /\ Sends("search", [text |-> p.field, page |-> 0]) /\ Sought(ui', NewId, p.field) /\ ui'.rows = ui.rows
              /\ panel' = Followed([p EXCEPT !.state = "searching"], ui')
  <1> DEFINE id == ui.search
             wire == IF id = 0 THEN ses.wire ELSE Without(id)
             reports == IF id = 0 THEN posted ELSE Cancelled(id)
             arg == [text |-> p.field, page |-> 0]
             e == Enqueued(wire, reports, "search", arg)
             u == [ui EXCEPT !.search = NewId, !.text = p.field, !.last = p.field,
                             !.append = FALSE, !.more = FALSE]
             none == [ui EXCEPT !.search = 0, !.text = "", !.last = "", !.append = FALSE,
                                !.more = FALSE, !.rows = <<>>]
  <1>1. /\ IsSeq(wire) /\ IsSeq(reports) /\ Numbered(wire, reports, token, ses.next) /\ Honest(reports, token)
        /\ Held(wire, reports, token) = UnderWay
    BY Withdrawn DEF TypeInv, PlaceInv, UnderWay
  <1>2. token \in Nat /\ ses.next \in Nat \ {0} /\ ses.generation \in Nat /\ DOMAIN ses = DOMAIN Fresh
        /\ DOMAIN ui = DOMAIN Cleared
    BY DEF TypeInv
  <1>3. /\ Sought(none, 0, "") /\ none.rows = <<>>
        /\ Sought(u, NewId, p.field) /\ u.rows = ui.rows
    BY <1>2 DEF Sought, Cleared
  <1>4. /\ p.field = "" =>
             /\ ui' = none
             /\ ses' = [ses EXCEPT !.wire = wire] /\ posted' = reports
             /\ panel' = Followed([p EXCEPT !.state = "idle"], none)
        /\ p.field # "" /\ ~ui.connected =>
             /\ panel' = Followed(Finished(p, ui, p.field, FALSE), ui)
             /\ UNCHANGED <<ui, ses, posted>>
        /\ p.field # "" /\ ui.connected =>
             /\ ui' = u /\ ses' = e.ses /\ posted' = e.posted
             /\ panel' = Followed([p EXCEPT !.state = "searching"], u)
    BY DEF SearchFor
  <1>5. /\ SameLink(e.ses) /\ e.ses.next = ses.next + 1
        /\ IsSeq(e.ses.wire) /\ IsSeq(e.posted)
        /\ Numbered(e.ses.wire, e.posted, token, ses.next + 1) /\ Honest(e.posted, token)
        /\ Held(e.ses.wire, e.posted, token)
             = Held(wire, reports, token) \cup {[id |-> ses.next, kind |-> "search", arg |-> arg]}
    BY <1>1, Sent
  <1>6. DOMAIN [p EXCEPT !.state = "idle"] = PanelFields /\ DOMAIN [p EXCEPT !.state = "searching"] = PanelFields
        /\ DOMAIN Finished(p, ui, p.field, FALSE) = PanelFields
    BY FinishedRest
  <1> HIDE DEF wire, reports, e, u, none, arg, id
  <1>7. DOMAIN panel' = PanelFields
    <2> DEFINE idle == [p EXCEPT !.state = "idle"]
               searching == [p EXCEPT !.state = "searching"]
               failed == Finished(p, ui, p.field, FALSE)
    <2>1. DOMAIN idle = PanelFields /\ DOMAIN searching = PanelFields /\ DOMAIN failed = PanelFields
      BY <1>6
    <2>2. panel' = Followed(idle, none) \/ panel' = Followed(failed, ui) \/ panel' = Followed(searching, u)
      BY <1>4
    <2> HIDE DEF idle, searching, failed
    <2>3. DOMAIN Followed(idle, none) = PanelFields
      BY <2>1, FollowedRest
    <2>4. DOMAIN Followed(failed, ui) = PanelFields
      BY <2>1, FollowedRest
    <2>5. DOMAIN Followed(searching, u) = PanelFields
      BY <2>1, FollowedRest
    <2> QED BY <2>2, <2>3, <2>4, <2>5
  <1>8. CASE p.field = ""
    <2>1. ses'.next = ses.next /\ ses'.wire = wire /\ DOMAIN ses' = DOMAIN Fresh /\ ses'.generation = ses.generation
      BY <1>2, <1>4, <1>8 DEF Fresh
    <2>2. PlaceInv' /\ Keeps
      BY <1>1, <1>4, <1>8, <2>1 DEF PlaceInv, Keeps, UnderWay
    <2>3. SessionTyped'
      BY <1>1, <1>2, <1>4, <1>8, <2>1 DEF SessionTyped
    <2> QED BY <1>3, <1>4, <1>7, <1>8, <2>2, <2>3
  <1>9. CASE p.field # "" /\ ~ui.connected
    <2>1. PlaceInv' /\ Keeps /\ SessionTyped'
      BY <1>4, <1>9, TypeParts DEF PlaceInv, Keeps, UnderWay, SessionTyped
    <2> QED BY <1>4, <1>7, <1>9, <2>1
  <1>10. CASE p.field # "" /\ ui.connected
    <2>1. ses'.next = ses.next + 1 /\ ses'.generation = ses.generation /\ DOMAIN ses' = DOMAIN Fresh
          /\ ses' = e.ses /\ posted' = e.posted
      BY <1>4, <1>5, <1>10 DEF SameLink
    <2>2. PlaceInv'
      BY <1>5, <2>1 DEF PlaceInv
    <2>3. Sends("search", [text |-> p.field, page |-> 0])
      BY <1>1, <1>5, <2>1 DEF Sends, UnderWay, arg
    <2>4. SessionTyped'
      BY <1>2, <1>5, <2>1 DEF SessionTyped
    <2> QED BY <1>3, <1>4, <1>7, <1>10, <2>2, <2>3, <2>4
  <1> QED BY <1>8, <1>9, <1>10

LEMMA SearchForWindow ==
  ASSUME TypeInv, PlaceInv, NEW p, DOMAIN p = PanelFields, SearchFor(p), token' = token, heard' = heard, tab' = tab
  PROVE  WindowTyped'
  <1>1. IsSeq(ui'.rows) /\ IsFiniteSet(ui'.asking) /\ DOMAIN ui' = DOMAIN Cleared
    <2>1. IsSeq(ui.rows) /\ IsFiniteSet(ui.asking) /\ DOMAIN ui = DOMAIN Cleared
      BY DEF TypeInv
    <2> QED BY <2>1, SearchForPlaces, EmptyFacts DEF Sought
  <1> QED BY <1>1, SearchForPlaces, TypeParts DEF WindowTyped

LEMMA SearchTimerPlaces ==
  ASSUME TypeInv, PlaceInv, SearchTimer
  PROVE  TypeInv' /\ PlaceInv'
  <1>1. DOMAIN [panel EXCEPT !.timer = FALSE] = PanelFields
    BY DEF TypeInv, PanelFields
  <1>2. SearchFor([panel EXCEPT !.timer = FALSE]) /\ UNCHANGED <<token, heard, tab, server>>
    BY DEF SearchTimer
  <1>3. SessionTyped' /\ PlaceInv' /\ WindowTyped'
    BY <1>1, <1>2, SearchForPlaces, SearchForWindow
  <1>4. ServerTyped'
    BY <1>2, TypeParts DEF ServerTyped
  <1> QED BY <1>3, <1>4, TypeParts

EnterSearches == panel.timer \/ ui.search # 0 \/ (ui.connected /\ panel.field # ui.last)

LEMMA EnterPlaces ==
  ASSUME TypeInv, PlaceInv, Enter
  PROVE  TypeInv' /\ PlaceInv' /\ (~EnterSearches => Keeps)
  <1> DEFINE p == [panel EXCEPT !.timer = FALSE, !.parked = panel.field]
  <1>1. DOMAIN p = PanelFields
    BY DEF TypeInv, PanelFields
  <1>2. UNCHANGED <<token, heard, tab, server>> /\ ServerTyped'
    BY TypeParts DEF Enter, ServerTyped
  <1>3. CASE EnterSearches
    <2>1. SearchFor(p)
      BY <1>3 DEF Enter, EnterSearches
    <2>2. SessionTyped' /\ PlaceInv' /\ WindowTyped'
      BY <1>1, <1>2, <2>1, SearchForPlaces, SearchForWindow
    <2> QED BY <1>2, <1>3, <2>2, TypeParts
  <1>4. CASE ~EnterSearches
    <2>1. UNCHANGED <<ui, ses, posted, panel>>
      BY <1>4 DEF Enter, EnterSearches
    <2>2. SessionTyped' /\ PlaceInv' /\ WindowTyped' /\ Keeps
      BY <1>2, <2>1, TypeParts DEF PlaceInv, Keeps, UnderWay, SessionTyped, WindowTyped
    <2> QED BY <1>2, <2>2, TypeParts
  <1> QED BY <1>3, <1>4

LEMMA MorePlaces ==
  ASSUME TypeInv, PlaceInv, More
  PROVE  TypeInv' /\ PlaceInv' /\ Sends("search", [text |-> ui.last, page |-> Len(ui.rows)])
  <1>1. SessionTyped' /\ PlaceInv' /\ Sends("search", [text |-> ui.last, page |-> Len(ui.rows)])
    BY SubmittedTyped DEF More
  <1> DEFINE u == [ui EXCEPT !.search = NewId, !.text = ui.last, !.append = TRUE]
  <1>2. ui' = u /\ panel' = Followed(panel, u)
    BY DEF More
  <1>3. DOMAIN panel' = PanelFields
    BY <1>2, TypeParts, FollowedRest DEF WindowTyped
  <1>4. DOMAIN ui' = DOMAIN Cleared /\ ui'.rows = ui.rows /\ ui'.asking = ui.asking
    BY <1>2 DEF TypeInv, Cleared
  <1>5. WindowTyped' /\ ServerTyped'
    BY <1>3, <1>4, TypeParts DEF More, WindowTyped, ServerTyped
  <1> QED BY <1>1, <1>5, TypeParts

LEMMA ReconnectPlaces ==
  ASSUME TypeInv, PlaceInv, NEW again \in BOOLEAN, Reconnect(again)
  PROVE  TypeInv' /\ PlaceInv' /\ Renews
  <1>1. IsSeq(ses.wire) /\ IsSeq(posted) /\ Honest(posted, token) /\ token \in Nat /\ IsSeq(heard)
    BY DEF TypeInv, PlaceInv
  <1> DEFINE q == posted \o Rejections(token, ses.wire)
  <1>2. IsSeq(q) /\ Honest(q, token)
    <2>1. IsSeq(Rejections(token, ses.wire))
      BY <1>1, RejectionFacts
    <2> QED BY <1>1, <2>1, ConcatFacts, HonestRejected
  <1> HIDE DEF q
  <1>3. posted' = q /\ token' = token + 1 /\ ses' = [Fresh EXCEPT !.alive = again] /\ ui' = Cleared
        /\ heard' = Orphaned /\ panel' = Followed(panel, Cleared) /\ tab' = tab /\ server' = server
    BY DEF Reconnect, q
  <1>4. /\ Results(q, token + 1) = {} /\ Numbered(<<>>, q, token + 1, 1) /\ Held(<<>>, q, token + 1) = {}
    BY <1>1, <1>2, NothingYet DEF Honest
  <1>5. Honest(q, token + 1)
    BY <1>1, <1>2 DEF Honest
  <1>6. ses'.wire = <<>> /\ ses'.next = 1 /\ DOMAIN ses' = DOMAIN Fresh /\ ses'.generation = 1
    BY <1>3 DEF Fresh
  <1>7. PlaceInv' /\ Renews
    BY <1>3, <1>4, <1>5, <1>6 DEF PlaceInv, Renews, UnderWay
  <1>8. SessionTyped'
    BY <1>1, <1>2, <1>3, <1>6, EmptyFacts DEF SessionTyped
  <1>9. IsSeq(heard')
    <2> DEFINE S == {Orphaned[q1] : q1 \in DOMAIN heard}
    <2>1. Orphaned \in [1 .. Len(heard) -> S] /\ Len(heard) \in Nat
      BY <1>1, SeqFacts DEF Orphaned
    <2> HIDE DEF S
    <2>2. Orphaned \in Seq(S)
      BY <2>1, SeqDef
    <2> QED BY <1>3, <2>2, SeqOfElements
  <1>10. DOMAIN panel' = PanelFields
    BY <1>3, TypeParts, FollowedRest DEF WindowTyped
  <1>11. IsSeq(ui'.rows) /\ IsFiniteSet(ui'.asking) /\ DOMAIN ui' = DOMAIN Cleared
    <2>1. ui'.rows = <<>> /\ ui'.asking = {} /\ DOMAIN ui' = DOMAIN Cleared
      BY <1>3 DEF Cleared
    <2> QED BY <2>1, EmptyFacts, FS_EmptySet
  <1>12. WindowTyped' /\ ServerTyped'
    BY <1>3, <1>9, <1>10, <1>11, TypeParts DEF WindowTyped, ServerTyped
  <1> QED BY <1>7, <1>8, <1>12, TypeParts

(* The commands under way but for a new one; those of `kinds' may be gone. *)
Loses(kinds) ==
  /\ token' = token /\ ses'.next \in Nat /\ ses.next <= ses'.next
  /\ \A c \in UnderWay' : c \in UnderWay \/ c.id = ses.next
  /\ \A c \in UnderWay : c \in UnderWay' \/ c.kind \in kinds

LEMMA LosesNothing ==
  ASSUME TypeInv, NEW kinds
  PROVE  /\ Keeps => Loses(kinds)
         /\ \A kind, arg : Sends(kind, arg) => Loses(kinds)
         /\ Takes /\ Head(posted).cmd.kind \in kinds => Loses(kinds)
  <1>1. ses.next \in Nat
    BY DEF TypeInv
  <1>2. Keeps => Loses(kinds)
    BY <1>1 DEF Keeps, Loses
  <1>3. ASSUME NEW kind, NEW arg, Sends(kind, arg)
        PROVE  Loses(kinds)
    BY <1>1, <1>3 DEF Sends, Loses
  <1>4. Takes /\ Head(posted).cmd.kind \in kinds => Loses(kinds)
    BY <1>1 DEF Takes, Loses
  <1> QED BY <1>2, <1>3, <1>4

LEMMA DeliveredPlaces ==
  ASSUME TypeInv, PlaceInv, posted # <<>>, posted' = Tail(posted), token' = token, ses' = ses
  PROVE  /\ SessionTyped' /\ PlaceInv'
         /\ ~OfThisSession(Head(posted)) \/ Head(posted).what # "result" => Keeps
         /\ Due("result") => Takes
  <1>1. ses'.wire = ses.wire /\ ses'.next = ses.next
    OBVIOUS
  <1>2. /\ PlaceInv' /\ IsSeq(posted')
        /\ ~OfThisSession(Head(posted)) \/ Head(posted).what # "result" => Keeps
        /\ Due("result") => Takes
    BY <1>1, Received
  <1> QED BY <1>2, TypeParts DEF SessionTyped

LEMMA StalePlaces ==
  ASSUME TypeInv, PlaceInv, DropStale
  PROVE  TypeInv' /\ PlaceInv' /\ Keeps
  <1>1. SessionTyped' /\ PlaceInv' /\ Keeps
    BY DeliveredPlaces DEF DropStale, Delivered
  <1>2. WindowTyped' /\ ServerTyped'
    BY TypeParts DEF DropStale, WindowTyped, ServerTyped
  <1> QED BY <1>1, <1>2, TypeParts

LEMMA StatePlaces ==
  ASSUME TypeInv, PlaceInv, DeliverState
  PROVE  TypeInv' /\ PlaceInv' /\ Keeps
  <1>1. SessionTyped' /\ PlaceInv' /\ Keeps
    BY DeliveredPlaces DEF DeliverState, Delivered, Due
  <1>2. PICK u : /\ ui' = u /\ panel' = Followed(panel, u)
                 /\ DOMAIN u = DOMAIN Cleared /\ u.rows = ui.rows /\ u.asking = ui.asking
    <2> DEFINE u == IF Head(posted).generation < ui.generation THEN ui
                    ELSE [ui EXCEPT !.generation = Head(posted).generation, !.connected = FALSE]
    <2>1. ui' = u /\ panel' = Followed(panel, u)
      BY DEF DeliverState
    <2>2. DOMAIN u = DOMAIN Cleared /\ u.rows = ui.rows /\ u.asking = ui.asking
      BY DEF TypeInv, Cleared
    <2> QED BY <2>1, <2>2
  <1>3. DOMAIN panel' = PanelFields
    BY <1>2, TypeParts, FollowedRest DEF WindowTyped
  <1>4. WindowTyped' /\ ServerTyped'
    BY <1>2, <1>3, TypeParts DEF DeliverState, WindowTyped, ServerTyped
  <1> QED BY <1>1, <1>4, TypeParts

LEMMA SnapshotPlaces ==
  ASSUME TypeInv, PlaceInv, DeliverSnapshot
  PROVE  TypeInv' /\ PlaceInv' /\ Keeps
  <1>1. SessionTyped' /\ PlaceInv' /\ Keeps
    BY DeliveredPlaces DEF DeliverSnapshot, Delivered, Due
  <1>2. PICK u : /\ ui' = u /\ panel' = Followed(panel, u)
                 /\ DOMAIN u = DOMAIN Cleared /\ u.rows = ui.rows /\ u.asking = ui.asking
    <2> DEFINE v == [ui EXCEPT !.generation = Head(posted).generation, !.connected = TRUE]
               u == IF Head(posted).generation < ui.generation THEN ui
                    ELSE Reconciled(v, Head(posted).seen)
    <2>1. ui' = u /\ panel' = Followed(panel, u)
      BY DEF DeliverSnapshot
    <2>2. DOMAIN v = DOMAIN Cleared /\ v.rows = ui.rows /\ v.asking = ui.asking
      BY DEF TypeInv, Cleared
    <2>3. LET r == Reconciled(v, Head(posted).seen)
          IN  DOMAIN r = DOMAIN v /\ r.rows = v.rows /\ r.asking = v.asking
      <3> HIDE DEF v
      <3> QED BY <2>2 DEF Reconciled, Cleared
    <2>4. DOMAIN u = DOMAIN Cleared /\ u.rows = ui.rows /\ u.asking = ui.asking
      BY <2>2, <2>3 DEF TypeInv
    <2> QED BY <2>1, <2>4
  <1>3. DOMAIN panel' = PanelFields
    BY <1>2, TypeParts, FollowedRest DEF WindowTyped
  <1>4. WindowTyped' /\ ServerTyped'
    BY <1>2, <1>3, TypeParts DEF DeliverSnapshot, WindowTyped, ServerTyped
  <1> QED BY <1>1, <1>4, TypeParts

LEMMA ChangedPlaces ==
  ASSUME TypeInv, PlaceInv, DeliverNotice
  PROVE  TypeInv' /\ PlaceInv' /\ Keeps
  <1>1. SessionTyped' /\ PlaceInv' /\ Keeps
    BY DeliveredPlaces DEF DeliverNotice, Delivered, Due
  <1>2. WindowTyped' /\ ServerTyped'
    BY TypeParts DEF DeliverNotice, WindowTyped, ServerTyped
  <1> QED BY <1>1, <1>2, TypeParts

LEMMA AnswerPlaces ==
  ASSUME TypeInv, PlaceInv, DeliverAnswer
  PROVE  TypeInv' /\ PlaceInv' /\ Takes
  <1>1. SessionTyped' /\ PlaceInv' /\ Takes
    BY DeliveredPlaces DEF DeliverAnswer, Delivered, DueResult, Due
  <1>2. PICK mine \in SUBSET ui.asking : ui' = [ui EXCEPT !.asking = @ \ mine]
    BY DEF DeliverAnswer
  <1>3. IsFiniteSet(ui.asking) /\ IsSeq(ui.rows) /\ DOMAIN ui = DOMAIN Cleared /\ IsSeq(heard)
    BY DEF TypeInv
  <1>4. ui'.asking = ui.asking \ mine /\ ui'.rows = ui.rows /\ DOMAIN ui' = DOMAIN Cleared
    BY <1>2, <1>3 DEF Cleared
  <1>5. IsFiniteSet(ui'.asking)
    BY <1>3, <1>4, FS_Subset
  <1>6. PICK f : heard' = [q \in DOMAIN heard |-> f[q]]
    <2> DEFINE g == [q \in DOMAIN heard |-> heard'[q]]
    <2>1. heard' = [q \in DOMAIN heard |-> g[q]]
      BY DEF DeliverAnswer
    <2> QED BY <2>1
  <1>7. IsSeq(heard')
    <2> DEFINE S == {f[q] : q \in DOMAIN heard}
    <2>1. heard' \in [1 .. Len(heard) -> S] /\ Len(heard) \in Nat
      BY <1>3, <1>6, SeqFacts
    <2> HIDE DEF S
    <2>2. heard' \in Seq(S)
      BY <2>1, SeqDef
    <2> QED BY <2>2, SeqOfElements
  <1>8. DOMAIN panel' = PanelFields
    BY TypeParts, FollowedRest DEF WindowTyped, DeliverAnswer
  <1>9. WindowTyped' /\ ServerTyped'
    BY <1>3, <1>4, <1>5, <1>7, <1>8, TypeParts DEF DeliverAnswer, WindowTyped, ServerTyped
  <1> QED BY <1>1, <1>9, TypeParts

(* The two outcomes of a search that is delivered. *)
Slot == [ui EXCEPT !.search = 0, !.text = "", !.append = FALSE]
Before == IF ui.append THEN ui.rows ELSE <<>>
Hits == IF Head(posted).ok
        THEN [Slot EXCEPT !.rows = Append(Before, Head(posted).answer),
                          !.more = Head(posted).answer.page + 1 < Pages]
        ELSE Slot

LEMMA HitsFacts ==
  ASSUME TypeInv
  PROVE  /\ DOMAIN Hits = DOMAIN Cleared /\ IsSeq(Hits.rows) /\ IsSeq(Before)
         /\ Hits.search = 0 /\ Hits.last = ui.last /\ Hits.asking = ui.asking
         /\ Hits.rows = IF Head(posted).ok THEN Append(Before, Head(posted).answer) ELSE ui.rows
         /\ Hits.more = IF Head(posted).ok THEN Head(posted).answer.page + 1 < Pages ELSE ui.more
  <1>1. IsSeq(ui.rows) /\ DOMAIN ui = DOMAIN Cleared /\ IsSeq(Before)
    BY EmptyFacts DEF TypeInv, Before
  <1>2. IsSeq(Append(Before, Head(posted).answer))
    BY <1>1, AppendFacts
  <1>3. /\ DOMAIN Slot = DOMAIN Cleared /\ Slot.search = 0 /\ Slot.last = ui.last /\ Slot.asking = ui.asking
        /\ Slot.rows = ui.rows /\ Slot.more = ui.more
    BY <1>1 DEF Slot, Cleared
  <1>4. CASE Head(posted).ok
    <2> DEFINE r == Append(Before, Head(posted).answer)
    <2>1. Hits = [Slot EXCEPT !.rows = r, !.more = Head(posted).answer.page + 1 < Pages]
      BY <1>4 DEF Hits
    <2> HIDE DEF r
    <2>2. /\ DOMAIN Hits = DOMAIN Cleared /\ Hits.search = 0 /\ Hits.last = ui.last /\ Hits.asking = ui.asking
          /\ Hits.rows = r /\ Hits.more = (Head(posted).answer.page + 1 < Pages)
      BY <1>3, <2>1 DEF Cleared
    <2> QED BY <1>1, <1>2, <1>4, <2>2 DEF r
  <1>5. CASE ~Head(posted).ok
    BY <1>1, <1>3, <1>5 DEF Hits
  <1> QED BY <1>4, <1>5

LEMMA HitsPlaces ==
  ASSUME TypeInv, PlaceInv, DeliverHits
  PROVE  /\ TypeInv' /\ PlaceInv' /\ Takes /\ Head(posted).cmd.kind = "search"
         /\ Awaited(Head(posted).cmd.id) =>
              /\ ui' = Hits
              /\ panel' = Followed(Finished(panel, Hits, ui.text, Head(posted).ok), Hits)
              /\ kept' = Unparked(panel, Hits, ui.text, Head(posted).ok)
         /\ ~Awaited(Head(posted).cmd.id) => panel' = Followed(panel, ui) /\ UNCHANGED <<ui, kept>>
  <1>1. SessionTyped' /\ PlaceInv' /\ Takes /\ Head(posted).cmd.kind = "search"
    BY DeliveredPlaces DEF DeliverHits, Delivered, DueResult, Due
  <1>2. /\ Awaited(Head(posted).cmd.id) =>
              /\ ui' = Hits
              /\ panel' = Followed(Finished(panel, Hits, ui.text, Head(posted).ok), Hits)
              /\ kept' = Unparked(panel, Hits, ui.text, Head(posted).ok)
        /\ ~Awaited(Head(posted).cmd.id) => panel' = Followed(panel, ui) /\ UNCHANGED <<ui, kept>>
    BY DEF DeliverHits, Hits, Slot, Before
  <1>3. DOMAIN panel' = PanelFields
    <2>1. DOMAIN panel = PanelFields
      BY TypeParts DEF WindowTyped
    <2> DEFINE f == Finished(panel, Hits, ui.text, Head(posted).ok)
    <2>2. DOMAIN f = PanelFields
      BY <2>1 DEF Finished, PanelFields
    <2>3. panel' = Followed(f, Hits) \/ panel' = Followed(panel, ui)
      BY <1>2
    <2> HIDE DEF f
    <2>4. DOMAIN Followed(f, Hits) = PanelFields
      BY <2>2, FollowedRest
    <2>5. DOMAIN Followed(panel, ui) = PanelFields
      BY <2>1, FollowedRest
    <2> QED BY <2>3, <2>4, <2>5
  <1>4. DOMAIN ui' = DOMAIN Cleared /\ IsSeq(ui'.rows) /\ ui'.asking = ui.asking
    BY <1>2, HitsFacts DEF TypeInv
  <1>5. WindowTyped' /\ ServerTyped'
    BY <1>3, <1>4, TypeParts DEF DeliverHits, WindowTyped, ServerTyped
  <1> QED BY <1>1, <1>2, <1>5, TypeParts

LEMMA PlaylistPlaces ==
  ASSUME TypeInv, PlaceInv, DeliverPlaylist
  PROVE  TypeInv' /\ PlaceInv' /\ Takes /\ Head(posted).cmd.kind = "read"
  <1>1. SessionTyped' /\ PlaceInv' /\ Takes /\ Head(posted).cmd.kind = "read"
    BY DeliveredPlaces DEF DeliverPlaylist, Delivered, DueResult, Due
  <1>2. ui' = [ui EXCEPT !.reading = @ \ {Head(posted).cmd.id}] /\ (tab' = tab \/ tab' = [tab EXCEPT !.shows = Head(posted).answer])
    BY DEF DeliverPlaylist
  <1>3. WindowTyped' /\ ServerTyped'
    BY <1>2, TypeParts DEF DeliverPlaylist, WindowTyped, ServerTyped, Cleared
  <1> QED BY <1>1, <1>3, TypeParts

LEMMA ControlPlaces ==
  ASSUME TypeInv, PlaceInv, DeliverControl
  PROVE  TypeInv' /\ PlaceInv' /\ Takes /\ Head(posted).cmd.kind \in {"repeat", "transport", "delete", "clear", "drag"}
  <1>1. SessionTyped' /\ PlaceInv' /\ Takes /\ Head(posted).cmd.kind \in {"repeat", "transport", "delete", "clear", "drag"}
    BY DeliveredPlaces DEF DeliverControl, Delivered, DueResult, Due
  <1>2. DOMAIN ui' = DOMAIN Cleared /\ ui'.rows = ui.rows /\ ui'.asking = ui.asking
    BY DEF DeliverControl, TypeInv, Cleared
  <1>3. WindowTyped' /\ ServerTyped'
    BY <1>2, TypeParts DEF DeliverControl, WindowTyped, ServerTyped
  <1> QED BY <1>1, <1>3, TypeParts

(* An edit that succeeded is followed by a new reading. *)
EditedAgain == Head(posted).cmd.id \in ui.edits /\ Head(posted).ok /\ ui.connected

LEMMA EditedPlaces ==
  ASSUME TypeInv, PlaceInv, DeliverEdited
  PROVE  /\ TypeInv' /\ PlaceInv' /\ Loses({"edit"}) /\ token' = token
         /\ SameLink(ses') /\ Head(posted).cmd.kind = "edit"
         /\ IsSeq(Tail(posted))
  <1>1. /\ IsSeq(ses.wire) /\ IsSeq(posted) /\ posted # <<>> /\ Numbered(ses.wire, posted, token, ses.next)
        /\ Honest(posted, token) /\ token \in Nat /\ ses.next \in Nat \ {0} /\ ses.generation \in Nat
        /\ DOMAIN ses = DOMAIN Fresh
    BY DEF TypeInv, PlaceInv, DeliverEdited, DueResult, Due
  <1> DEFINE h == Head(posted)
             q == Tail(posted)
             e == Enqueued(ses.wire, q, "read", None)
             c == [id |-> ses.next, kind |-> "read", arg |-> None]
  <1>2. /\ h.token = token /\ h.what = "result" /\ h.cmd.kind = "edit" /\ token' = token
        /\ WindowTyped' /\ ServerTyped'
    BY TypeParts DEF DeliverEdited, DueResult, Due, OfThisSession, WindowTyped, ServerTyped, Cleared
  <1>3. /\ Numbered(ses.wire, q, token, ses.next)
        /\ Held(ses.wire, posted, token) = Held(ses.wire, q, token) \cup {h.cmd}
    BY <1>1, <1>2, Taken
  <1>4. Honest(q, token) /\ IsSeq(q)
    BY <1>1, HonestTail, TailFacts
  <1>5. /\ SameLink(e.ses) /\ e.ses.next = ses.next + 1
        /\ IsSeq(e.ses.wire) /\ IsSeq(e.posted)
        /\ Numbered(e.ses.wire, e.posted, token, ses.next + 1) /\ Honest(e.posted, token)
        /\ Held(e.ses.wire, e.posted, token) = Held(ses.wire, q, token) \cup {c}
    BY <1>1, <1>3, <1>4, Sent
  <1>6. (ses' = e.ses /\ posted' = e.posted) \/ (ses' = ses /\ posted' = q)
    BY DEF DeliverEdited, Delivered
  <1>7. c.id = ses.next
    OBVIOUS
  <1> HIDE DEF e, q, c
  <1>8. CASE ses' = e.ses /\ posted' = e.posted
    <2>1. SessionTyped'
      BY <1>1, <1>2, <1>5, <1>8 DEF SessionTyped, SameLink
    <2>2. PlaceInv'
      BY <1>2, <1>5, <1>8 DEF PlaceInv
    <2>3. Loses({"edit"})
      BY <1>1, <1>2, <1>3, <1>5, <1>7, <1>8 DEF Loses, UnderWay
    <2> QED BY <1>2, <1>4, <1>5, <1>8, <2>1, <2>2, <2>3, TypeParts DEF q
  <1>9. CASE ses' = ses /\ posted' = q
    <2>1. SessionTyped'
      BY <1>1, <1>2, <1>4, <1>9 DEF SessionTyped
    <2>2. PlaceInv'
      BY <1>2, <1>3, <1>4, <1>9 DEF PlaceInv
    <2>3. Loses({"edit"})
      BY <1>1, <1>2, <1>3, <1>9 DEF Loses, UnderWay
    <2>4. SameLink(ses')
      BY <1>1, <1>9 DEF SameLink
    <2> QED BY <1>2, <1>4, <2>1, <2>2, <2>3, <2>4, TypeParts DEF q
  <1> QED BY <1>6, <1>8, <1>9

-----------------------------------------------------------------------------
(* Types and places over every step                                         *)

LEMMA StartsTyped ==
  ASSUME Init
  PROVE  TypeInv /\ PlaceInv /\ AskInv /\ SearchInv
  <1>1. /\ token = 0 /\ posted = <<>> /\ heard = <<>> /\ ui = Cleared /\ kept = {}
        /\ DOMAIN ses = DOMAIN Fresh /\ ses.next = 1 /\ ses.generation = 1 /\ ses.wire = <<>>
        /\ panel = [field |-> "", timer |-> FALSE, rows |-> <<>>, more |-> FALSE, state |-> "idle", parked |-> ""]
        /\ tab = [open |-> FALSE, shows |-> 0]
        /\ server = [repeat |-> "off", play |-> "stopped", list |-> 1, queue |-> Tracks]
    BY DEF Init, Fresh
  <1>2. IsSeq(<<>>) /\ DOMAIN <<>> = {}
    BY EmptyFacts
  <1>3. ui.rows = <<>> /\ ui.asking = {} /\ ui.search = 0 /\ ui.more = FALSE /\ IsFiniteSet({})
    BY <1>1, FS_EmptySet DEF Cleared
  <1>4. TypeInv
    <2>1. SessionTyped
      <3>1. ses.wire = <<>> /\ posted = <<>> /\ token = 0 /\ DOMAIN ses = DOMAIN Fresh /\ ses.next = 1 /\ ses.generation = 1
        BY <1>1
      <3>2. IsSeq(ses.wire) /\ IsSeq(posted)
        BY <1>2, <3>1
      <3> QED BY <3>1, <3>2 DEF SessionTyped
    <2>2. WindowTyped
      BY <1>1, <1>2, <1>3 DEF WindowTyped, PanelFields
    <2>3. ServerTyped
      BY <1>1 DEF ServerTyped, ServerFields
    <2> QED BY <2>1, <2>2, <2>3, TypeParts
  <1>5. Results(posted, token) = {} /\ UnderWay = {}
    BY <1>1, <1>2 DEF Results, UnderWay, Held
  <1>6. PlaceInv
    BY <1>1, <1>2, <1>5 DEF PlaceInv, Numbered, Honest
  <1>7. AskInv
    BY <1>1, <1>2, <1>3 DEF AskInv
  <1>8. SearchInv
    <2>1. panel.rows = <<>> /\ panel.field = ""
      BY <1>1
    <2>2. OneSearchShown
      BY <1>1, <1>2, <2>1 DEF OneSearchShown, PagesOf
    <2>3. ui.search < ses.next /\ ui.search \in Nat
      <3>1. ses.next = 1 /\ ui.search = 0
        BY <1>1, <1>3
      <3> QED BY <3>1
    <2> QED BY <1>3, <2>1, <2>2, <2>3 DEF SearchInv
  <1> QED BY <1>4, <1>6, <1>7, <1>8

LEMMA StepTyped ==
  ASSUME TypeInv, PlaceInv, Next
  PROVE  TypeInv' /\ PlaceInv'
  <1>1. CASE Ask
    BY <1>1, AskPlaces
  <1>2. CASE Enter
    BY <1>2, EnterPlaces
  <1>3. CASE More
    BY <1>3, MorePlaces
  <1>4. CASE OpenTab
    BY <1>4, OpenTabPlaces
  <1>5. CASE EditPlaylist
    BY <1>5, EditPlaces
  <1>6. ASSUME NEW text, Type(text)
        PROVE  TypeInv' /\ PlaceInv'
    BY <1>6, TypePlaces
  <1>7. ASSUME NEW mode, SetRepeat(mode)
        PROVE  TypeInv' /\ PlaceInv'
    BY <1>7, RepeatPlaces
  <1>8. ASSUME NEW state, Transport(state)
        PROVE  TypeInv' /\ PlaceInv'
    BY <1>8, TransportPlaces
  <1>9. CASE QueueEdit
    BY <1>9, QueueEditSends, QueueEditPlaces
  <1>11. ASSUME NEW again \in BOOLEAN, Reconnect(again)
         PROVE  TypeInv' /\ PlaceInv'
    BY <1>11, ReconnectPlaces
  <1>12. CASE Others
    BY <1>12, ForeignPlaces DEF Others
  <1>13. CASE Timers
    BY <1>13, SearchTimerPlaces, ConfirmationPlaces, RereadPlaces DEF Timers
  <1>14. CASE Deliver
    BY <1>14, StalePlaces, StatePlaces, SnapshotPlaces, ChangedPlaces, AnswerPlaces, HitsPlaces, PlaylistPlaces,
       EditedPlaces, ControlPlaces DEF Deliver
  <1>15. CASE Session
    BY <1>15, ConnectsPlaces, RefreshesPlaces, ExecutesPlaces, NoticePlaces DEF Session
  <1>16. ASSUME NEW sent \in {0, 1}, SessionBreaks(sent)
         PROVE  TypeInv' /\ PlaceInv'
    BY <1>16, BreaksPlaces
  <1>17. CASE User
    BY <1>1, <1>2, <1>3, <1>4, <1>5, <1>6, <1>7, <1>8, <1>11, <1>17 DEF User
  <1> QED BY <1>9, <1>12, <1>13, <1>14, <1>15, <1>16, <1>17 DEF Next, Otherwise

LEMMA IdleTyped ==
  ASSUME TypeInv, PlaceInv, UNCHANGED vars
  PROVE  TypeInv' /\ PlaceInv' /\ Keeps
  <1>1. UNCHANGED <<token, ses, posted, ui, panel, tab, server, heard>>
    BY DEF vars
  <1>2. PlaceInv' /\ Keeps
    BY <1>1 DEF PlaceInv, Keeps, UnderWay
  <1>3. SessionTyped' /\ WindowTyped' /\ ServerTyped'
    BY <1>1, TypeParts DEF SessionTyped, WindowTyped, ServerTyped
  <1> QED BY <1>2, <1>3, TypeParts

-----------------------------------------------------------------------------
(* Every question is answered once                                          *)

(* A command under way has a number that has been used, and it has its own. *)
LEMMA NumbersUsed ==
  ASSUME TypeInv, PlaceInv
  PROVE  /\ \A c \in UnderWay : c.id \in Nat \ {0} /\ c.id < ses.next
         /\ \A c, d \in UnderWay : c.id = d.id => c = d
  BY DEF TypeInv, PlaceInv, Numbered, UnderWay, Held

(* A step that takes no question from its way, asks none and answers none. *)
LEMMA AskStable ==
  ASSUME TypeInv, PlaceInv, AskInv, NEW kinds, "ask" \notin kinds, Loses(kinds),
         ui'.asking = ui.asking, heard' = heard
  PROVE  AskInv'
  <1>1. \A q : Open(q)' <=> Open(q)
    BY DEF Open
  <1>2. ASSUME NEW a \in ui.asking
        PROVE  /\ a.question \in DOMAIN heard
               /\ \E c \in UnderWay' : c.id = a.id
               /\ \A c \in UnderWay' : c.id = a.id => c.kind = "ask" /\ c.arg = a.question
    <2>1. PICK c \in UnderWay : c.id = a.id
      BY DEF AskInv, UnderWay
    <2>2. c.kind = "ask" /\ a.question \in DOMAIN heard
      BY <2>1 DEF AskInv, UnderWay
    <2>3. c \in UnderWay'
      BY <2>2 DEF Loses
    <2>4. a.id < ses.next /\ a.id \in Nat /\ ses.next \in Nat
      BY <2>1, NumbersUsed DEF TypeInv
    <2>5. \A d \in UnderWay' : d.id = a.id => d \in UnderWay
      BY <2>4 DEF Loses
    <2> QED BY <2>1, <2>2, <2>3, <2>5 DEF AskInv, UnderWay
  <1>3. \A a, b \in ui'.asking : a.id = b.id \/ a.question = b.question => a = b
    BY DEF AskInv
  <1>4. \A q \in DOMAIN heard' : IF Open(q)' THEN heard'[q] = <<>> ELSE heard'[q] \in {<<0>>, <<q>>}
    BY <1>1 DEF AskInv
  <1> QED BY <1>2, <1>3, <1>4 DEF AskInv, UnderWay

LEMMA AskAsked ==
  ASSUME TypeInv, PlaceInv, AskInv, Ask
  PROVE  AskInv'
  <1> DEFINE q0 == Len(heard) + 1
             e == IF ui.connected THEN <<>> ELSE <<0>>
  <1>1. IsSeq(heard) /\ Len(heard) \in Nat /\ DOMAIN heard = 1 .. Len(heard)
    BY SeqFacts DEF TypeInv
  <1>2. heard' = Append(heard, e)
    BY DEF Ask
  <1> HIDE DEF e
  <1>3. /\ DOMAIN heard' = DOMAIN heard \cup {q0} /\ heard'[q0] = e /\ q0 \notin DOMAIN heard
        /\ \A q \in DOMAIN heard : heard'[q] = heard[q]
    <2>1. /\ DOMAIN heard' = 1 .. Len(heard) + 1 /\ heard'[Len(heard) + 1] = e
          /\ \A q \in 1 .. Len(heard) : heard'[q] = heard[q]
      BY <1>1, <1>2, AppendFacts
    <2> QED BY <1>1, <2>1
  <1>4. \A a \in ui.asking : a.question \in DOMAIN heard /\ a.question # q0
    BY <1>3 DEF AskInv
  <1> HIDE DEF q0
  <1>5. CASE ui.connected
    <2> DEFINE n == [id |-> ses.next, question |-> q0]
               c0 == [id |-> ses.next, kind |-> "ask", arg |-> q0]
    <2>1. ui'.asking = ui.asking \cup {n}
      BY <1>5 DEF Ask, NewId, TypeInv, Cleared, q0
    <2>2. UnderWay' = UnderWay \cup {c0}
      BY <1>5, AskPlaces DEF Sends, q0
    <2>3. \A c \in UnderWay : c.id \in Nat /\ c.id < ses.next
      BY NumbersUsed
    <2>4. c0.id = ses.next /\ c0.kind = "ask" /\ c0.arg = q0 /\ n.id = ses.next /\ n.question = q0
      OBVIOUS
    <2>5. ses.next \in Nat /\ e = <<>>
      BY <1>5 DEF TypeInv, e
    <2> HIDE DEF n, c0
    <2>6. \A a \in ui.asking : a.id \in Nat /\ a.id < ses.next
      BY <2>3 DEF AskInv, UnderWay
    <2>7. \A a \in ui'.asking :
            /\ a.question \in DOMAIN heard'
            /\ \E c \in UnderWay' : c.id = a.id
            /\ \A c \in UnderWay' : c.id = a.id => c.kind = "ask" /\ c.arg = a.question
      <3> TAKE a \in ui'.asking
      <3>1. CASE a = n
        <4>1. \A c \in UnderWay' : c.id = a.id => c = c0
          BY <2>2, <2>3, <2>4, <2>5, <3>1
        <4> QED BY <1>3, <2>2, <2>4, <3>1, <4>1
      <3>2. CASE a \in ui.asking
        <4>1. \A c \in UnderWay' : c.id = a.id => c \in UnderWay
          BY <2>2, <2>4, <2>5, <2>6, <3>2
        <4> QED BY <1>3, <2>2, <3>2, <4>1 DEF AskInv, UnderWay
      <3> QED BY <2>1, <3>1, <3>2
    <2>8. \A a, b \in ui'.asking : a.id = b.id \/ a.question = b.question => a = b
      BY <1>4, <2>1, <2>4, <2>5, <2>6 DEF AskInv
    <2>9. \A q \in DOMAIN heard' : IF Open(q)' THEN heard'[q] = <<>> ELSE heard'[q] \in {<<0>>, <<q>>}
      <3> TAKE q \in DOMAIN heard'
      <3>1. CASE q = q0
        BY <1>3, <2>1, <2>4, <2>5, <3>1 DEF Open
      <3>2. CASE q # q0
        <4>1. q \in DOMAIN heard /\ heard'[q] = heard[q] /\ (Open(q)' <=> Open(q))
          BY <1>3, <2>1, <2>4, <3>2 DEF Open
        <4> QED BY <4>1 DEF AskInv
      <3> QED BY <3>1, <3>2
    <2> QED BY <2>7, <2>8, <2>9 DEF AskInv, UnderWay
  <1>6. CASE ~ui.connected
    <2>1. ui' = ui /\ e = <<0>>
      BY <1>6 DEF Ask, e
    <2>2. UnderWay' = UnderWay
      BY <1>6, AskPlaces DEF Keeps
    <2>3. \A q : Open(q)' <=> Open(q)
      BY <2>1 DEF Open
    <2>4. \A q \in DOMAIN heard' : IF Open(q)' THEN heard'[q] = <<>> ELSE heard'[q] \in {<<0>>, <<q>>}
      <3> TAKE q \in DOMAIN heard'
      <3>1. CASE q = q0
        BY <1>3, <1>4, <2>1, <2>3, <3>1 DEF Open
      <3>2. CASE q # q0
        BY <1>3, <2>3, <3>2 DEF AskInv
      <3> QED BY <3>1, <3>2
    <2> QED BY <1>3, <2>1, <2>2, <2>4 DEF AskInv, UnderWay
  <1> QED BY <1>5, <1>6

LEMMA AskAnswered ==
  ASSUME TypeInv, PlaceInv, AskInv, DeliverAnswer
  PROVE  AskInv'
  <1> DEFINE h == Head(posted)
             mine == {a \in ui.asking : a.id = h.cmd.id}
  <1>1. Takes
    BY AnswerPlaces
  <1>2. /\ heard' = [q \in DOMAIN heard |->
              IF \E a \in mine : a.question = q
              THEN Append(heard[q], IF h.ok THEN h.answer ELSE 0) ELSE heard[q]]
        /\ ui'.asking = ui.asking \ mine
    BY DEF DeliverAnswer, TypeInv, Cleared
  <1>3. h.token = token /\ h.what = "result" /\ h.cmd.kind = "ask" /\ h \in {posted[i] : i \in DOMAIN posted}
    <2>1. IsSeq(posted) /\ posted # <<>>
      BY DEF DeliverAnswer, DueResult, Due, TypeInv
    <2>2. 1 \in DOMAIN posted /\ h = posted[1]
      BY <2>1, RemovedHead
    <2> QED BY <2>2 DEF DeliverAnswer, DueResult, Due, OfThisSession
  <1>4. h.ok => h.answer = h.cmd.arg
    BY <1>3 DEF PlaceInv, Honest
  <1>5. UnderWay = UnderWay' \cup {h.cmd} /\ \A c \in UnderWay' : c.id # h.cmd.id
    BY <1>1 DEF Takes
  <1> HIDE DEF h
  <1>6. \A a \in mine : h.cmd.arg = a.question
    BY <1>5 DEF AskInv, UnderWay
  <1>7. \A a, b \in ui.asking : a.question = b.question => a = b
    BY DEF AskInv
  <1>8. \A q : Open(q)' <=> Open(q) /\ ~ \E a \in mine : a.question = q
    BY <1>2, <1>7 DEF Open
  <1>9. \A q \in DOMAIN heard' : IF Open(q)' THEN heard'[q] = <<>> ELSE heard'[q] \in {<<0>>, <<q>>}
    <2> TAKE q \in DOMAIN heard'
    <2>0. q \in DOMAIN heard /\ DOMAIN heard' = DOMAIN heard
      BY <1>2
    <2>1. CASE \E a \in mine : a.question = q
      <3>1. heard[q] = <<>>
        BY <2>0, <2>1 DEF AskInv, Open
      <3>2. h.cmd.arg = q
        BY <1>6, <2>1
      <3>3. Append(<<>>, 0) = <<0>> /\ Append(<<>>, q) = <<q>>
        OBVIOUS
      <3>4. heard'[q] = Append(<<>>, IF h.ok THEN h.answer ELSE 0)
        BY <1>2, <2>0, <2>1, <3>1
      <3>5. heard'[q] = <<0>> \/ heard'[q] = <<q>>
        BY <1>4, <3>2, <3>3, <3>4, Zenon
      <3> QED BY <1>8, <2>1, <3>5
    <2>2. CASE ~ \E a \in mine : a.question = q
      <3>1. heard'[q] = heard[q]
        BY <1>2, <2>0, <2>2
      <3> QED BY <1>8, <2>0, <2>2, <3>1 DEF AskInv
    <2> QED BY <2>1, <2>2
  <1>10. \A a \in ui'.asking :
            /\ a.question \in DOMAIN heard'
            /\ \E c \in UnderWay' : c.id = a.id
            /\ \A c \in UnderWay' : c.id = a.id => c.kind = "ask" /\ c.arg = a.question
    <2> TAKE a \in ui'.asking
    <2>1. a \in ui.asking /\ a.id # h.cmd.id /\ DOMAIN heard' = DOMAIN heard
      BY <1>2
    <2>2. PICK c \in UnderWay : c.id = a.id
      BY <2>1 DEF AskInv, UnderWay
    <2>3. c \in UnderWay'
      BY <1>5, <2>1, <2>2
    <2> QED BY <1>5, <2>1, <2>2, <2>3 DEF AskInv, UnderWay
  <1>11. \A a, b \in ui'.asking : a.id = b.id \/ a.question = b.question => a = b
    BY <1>2 DEF AskInv
  <1> QED BY <1>9, <1>10, <1>11 DEF AskInv, UnderWay

LEMMA AskRenewed ==
  ASSUME TypeInv, PlaceInv, AskInv, NEW again \in BOOLEAN, Reconnect(again)
  PROVE  AskInv'
  <1>1. ui'.asking = {} /\ heard' = Orphaned
    BY DEF Reconnect, Cleared
  <1>2. \A q \in DOMAIN heard' : heard'[q] \in {<<0>>, <<q>>} /\ ~Open(q)'
    <2> TAKE q \in DOMAIN heard'
    <2>1. q \in DOMAIN heard /\ heard'[q] = IF Open(q) THEN Append(heard[q], 0) ELSE heard[q]
      BY <1>1 DEF Orphaned, Open
    <2>2. Append(<<>>, 0) = <<0>>
      OBVIOUS
    <2>3. Open(q) => heard[q] = <<>>
      BY <2>1 DEF AskInv
    <2>4. ~Open(q) => heard[q] \in {<<0>>, <<q>>}
      BY <2>1 DEF AskInv
    <2>5. ~Open(q)'
      BY <1>1 DEF Open
    <2> QED BY <2>1, <2>2, <2>3, <2>4, <2>5
  <1> QED BY <1>1, <1>2 DEF AskInv

LEMMA AskNext ==
  ASSUME TypeInv, PlaceInv, AskInv, [Next]_vars
  PROVE  AskInv'
  <1> DEFINE lost == {"search", "read", "repeat", "transport", "delete", "clear", "drag", "edit"}
             Others0 == Loses(lost) /\ ui'.asking = ui.asking /\ heard' = heard
  <1>0. "ask" \notin lost
    OBVIOUS
  <1>1. Others0 => AskInv'
    <2> HIDE DEF lost
    <2> QED BY <1>0, AskStable
  <1>2. /\ Keeps => Loses(lost)
        /\ \A kind, arg : Sends(kind, arg) => Loses(lost)
        /\ Takes /\ Head(posted).cmd.kind \in lost => Loses(lost)
    <2> HIDE DEF lost
    <2> QED BY LosesNothing
  <1>3. DOMAIN ui = DOMAIN Cleared
    BY DEF TypeInv
  <1>4. CASE Enter
    <2>1. ui'.asking = ui.asking /\ heard' = heard
      BY <1>3, <1>4 DEF Enter, SearchFor, Cleared
    <2>2. Loses(lost)
      <3> DEFINE p == [panel EXCEPT !.timer = FALSE, !.parked = panel.field]
      <3>1. DOMAIN p = PanelFields
        BY DEF TypeInv, PanelFields
      <3>2. EnterSearches => SearchFor(p) /\ token' = token
        BY <1>4 DEF Enter, EnterSearches
      <3> HIDE DEF p, lost
      <3>3. EnterSearches => Keeps \/ Sends("search", [text |-> p.field, page |-> 0])
        BY <3>1, <3>2, SearchForPlaces
      <3> QED BY <1>2, <1>4, <3>3, EnterPlaces
    <2> QED BY <1>1, <2>1, <2>2
  <1>5. CASE SearchTimer
    <2>1. ui'.asking = ui.asking /\ heard' = heard
      BY <1>3, <1>5 DEF SearchTimer, SearchFor, Cleared
    <2>2. Loses(lost)
      <3> DEFINE p == [panel EXCEPT !.timer = FALSE]
      <3>1. DOMAIN p = PanelFields /\ SearchFor(p) /\ token' = token
        BY <1>5 DEF TypeInv, PanelFields, SearchTimer
      <3> HIDE DEF p, lost
      <3>3. Keeps \/ Sends("search", [text |-> p.field, page |-> 0])
        BY <3>1, SearchForPlaces
      <3> QED BY <1>2, <3>3
    <2> QED BY <1>1, <2>1, <2>2
  <1>6. CASE More
    <2>1. ui'.asking = ui.asking /\ heard' = heard
      BY <1>3, <1>6 DEF More, Cleared
    <2> HIDE DEF lost
    <2>2. Loses(lost)
      BY <1>2, <1>6, MorePlaces
    <2> QED BY <1>1, <2>1, <2>2
  <1>7. CASE OpenTab
    <2>1. ui'.asking = ui.asking /\ heard' = heard
      BY <1>3, <1>7 DEF OpenTab, Cleared
    <2> HIDE DEF lost
    <2>2. Loses(lost)
      BY <1>2, <1>7, OpenTabPlaces
    <2> QED BY <1>1, <2>1, <2>2
  <1>8. CASE EditPlaylist
    <2>1. ui'.asking = ui.asking /\ heard' = heard
      BY <1>3, <1>8 DEF EditPlaylist, Cleared
    <2> HIDE DEF lost
    <2>2. Loses(lost)
      BY <1>2, <1>8, EditPlaces
    <2> QED BY <1>1, <2>1, <2>2
  <1>9. ASSUME NEW text, Type(text)
        PROVE  AskInv'
    <2>1. ui'.asking = ui.asking /\ heard' = heard
      BY <1>9 DEF Type
    <2> HIDE DEF lost
    <2>2. Loses(lost)
      BY <1>2, <1>9, TypePlaces
    <2> QED BY <1>1, <2>1, <2>2
  <1>10. ASSUME NEW mode, SetRepeat(mode)
         PROVE  AskInv'
    <2>1. ui'.asking = ui.asking /\ heard' = heard
      BY <1>3, <1>10 DEF SetRepeat, Cleared
    <2> HIDE DEF lost
    <2>2. Loses(lost)
      BY <1>2, <1>10, RepeatPlaces
    <2> QED BY <1>1, <2>1, <2>2
  <1>11. ASSUME NEW state, Transport(state)
         PROVE  AskInv'
    <2>1. ui'.asking = ui.asking /\ heard' = heard
      BY <1>3, <1>11 DEF Transport, Cleared
    <2> HIDE DEF lost
    <2>2. Loses(lost)
      BY <1>2, <1>11, TransportPlaces
    <2> QED BY <1>1, <2>1, <2>2
  <1>12. CASE QueueEdit
    <2>1. PICK kind, arg : kind \in {"delete", "clear", "drag"} /\ EditQueue(kind, arg)
      BY <1>12, QueueEditSends
    <2>2. ui'.asking = ui.asking /\ heard' = heard
      BY <2>1 DEF EditQueue
    <2> HIDE DEF lost
    <2>3. Loses(lost)
      BY <1>2, <2>1, QueueEditPlaces
    <2> QED BY <1>1, <2>2, <2>3
  <1>14. CASE User
    BY <1>4, <1>6, <1>7, <1>8, <1>9, <1>10, <1>11, <1>14, AskAsked, AskRenewed DEF User
  <1>15. CASE Others
    <2>1. PICK what, queue : what \in {"repeat", "play", "list", "queue"} /\ Foreign(what, queue)
      BY <1>15 DEF Others
    <2>2. ui'.asking = ui.asking /\ heard' = heard
      BY <2>1 DEF Foreign
    <2> HIDE DEF lost
    <2>3. Loses(lost)
      BY <1>2, <2>1, ForeignPlaces
    <2> QED BY <1>1, <2>2, <2>3
  <1>16. CASE Timers
    <2>1. CASE ConfirmationTimer
      <3>1. ui'.asking = ui.asking /\ heard' = heard
        BY <1>3, <2>1 DEF ConfirmationTimer, Cleared
      <3> HIDE DEF lost
      <3>2. Loses(lost)
        BY <1>2, <2>1, ConfirmationPlaces
      <3> QED BY <1>1, <3>1, <3>2
    <2>2. CASE RereadTimer
      <3>1. ui'.asking = ui.asking /\ heard' = heard
        BY <1>3, <2>2 DEF RereadTimer, Cleared
      <3> HIDE DEF lost
      <3>2. Loses(lost)
        BY <1>2, <2>2, RereadPlaces
      <3> QED BY <1>1, <3>1, <3>2
    <2> QED BY <1>5, <1>16, <2>1, <2>2 DEF Timers
  <1>17. CASE DropStale \/ DeliverState \/ DeliverSnapshot \/ DeliverNotice
    <2>1. ui'.asking = ui.asking /\ heard' = heard
      BY <1>3, <1>17 DEF DropStale, DeliverState, DeliverSnapshot, Reconciled, DeliverNotice, Cleared
    <2> HIDE DEF lost
    <2>2. Loses(lost)
      BY <1>2, <1>17, StalePlaces, StatePlaces, SnapshotPlaces, ChangedPlaces
    <2> QED BY <1>1, <2>1, <2>2
  <1>18. CASE DeliverHits
    <2>1. ui'.asking = ui.asking /\ heard' = heard
      BY <1>18, HitsPlaces, HitsFacts DEF DeliverHits
    <2>2. Loses(lost)
      BY <1>2, <1>18, HitsPlaces
    <2> QED BY <1>1, <2>1, <2>2
  <1>19. CASE DeliverPlaylist
    <2>1. ui'.asking = ui.asking /\ heard' = heard
      BY <1>3, <1>19 DEF DeliverPlaylist, Cleared
    <2>2. Loses(lost)
      BY <1>2, <1>19, PlaylistPlaces
    <2> QED BY <1>1, <2>1, <2>2
  <1>20. CASE DeliverEdited
    <2>1. ui'.asking = ui.asking /\ heard' = heard
      BY <1>3, <1>20 DEF DeliverEdited, Cleared
    <2>2. Loses({"edit"})
      BY <1>20, EditedPlaces
    <2>3. Loses(lost)
      BY <2>2 DEF Loses
    <2> QED BY <1>1, <2>1, <2>3
  <1>21. CASE DeliverControl
    <2>1. ui'.asking = ui.asking /\ heard' = heard
      BY <1>3, <1>21 DEF DeliverControl, Cleared
    <2>2. Loses(lost)
      BY <1>2, <1>21, ControlPlaces
    <2> QED BY <1>1, <2>1, <2>2
  <1>22. CASE Deliver
    BY <1>17, <1>18, <1>19, <1>20, <1>21, <1>22, AskAnswered DEF Deliver
  <1>23. CASE Session
    <2>1. ui'.asking = ui.asking /\ heard' = heard
      BY <1>23 DEF Session, SessionConnects, SessionRefreshes, SessionExecutes, NoticeArrives
    <2> HIDE DEF lost
    <2>2. Loses(lost)
      BY <1>2, <1>23, ConnectsPlaces, RefreshesPlaces, ExecutesPlaces, NoticePlaces DEF Session
    <2> QED BY <1>1, <2>1, <2>2
  <1>24. ASSUME NEW sent \in {0, 1}, SessionBreaks(sent)
         PROVE  AskInv'
    <2>1. ui'.asking = ui.asking /\ heard' = heard
      BY <1>24 DEF SessionBreaks
    <2> HIDE DEF lost
    <2>2. Loses(lost)
      BY <1>2, <1>24, BreaksPlaces
    <2> QED BY <1>1, <2>1, <2>2
  <1>25. CASE UNCHANGED vars
    <2>1. ui'.asking = ui.asking /\ heard' = heard
      BY <1>25 DEF vars
    <2> HIDE DEF lost
    <2>2. Loses(lost)
      BY <1>2, <1>25, IdleTyped
    <2> QED BY <1>1, <2>1, <2>2
  <1> QED BY <1>12, <1>14, <1>15, <1>16, <1>22, <1>23, <1>24, <1>25 DEF Next, Otherwise

LEMMA AskedOnce ==
  ASSUME TypeInv, PlaceInv, AskInv
  PROVE  OneCompletion
  <1>1. ASSUME NEW q \in DOMAIN heard
        PROVE  /\ Len(heard[q]) + Cardinality({a \in ui.asking : a.question = q}) = 1
               /\ \A i \in DOMAIN heard[q] : heard[q][i] \in {0, q}
    <2> DEFINE A == {a \in ui.asking : a.question = q}
    <2>1. CASE Open(q)
      <3>1. PICK a \in ui.asking : a.question = q
        BY <2>1 DEF Open
      <3>2. A = {a}
        BY <3>1 DEF AskInv
      <3> HIDE DEF A
      <3>3. Cardinality(A) = 1
        BY <3>2, FS_Singleton
      <3>4. heard[q] = <<>> /\ Len(<<>>) = 0 /\ DOMAIN <<>> = {}
        BY <2>1, EmptyFacts DEF AskInv
      <3> QED BY <3>3, <3>4 DEF A
    <2>2. CASE ~Open(q)
      <3>1. A = {}
        BY <2>2 DEF Open
      <3> HIDE DEF A
      <3>2. Cardinality(A) = 0
        BY <3>1, FS_EmptySet
      <3>3. PICK e \in {0, q} : heard[q] = <<e>>
        BY <2>2 DEF AskInv
      <3>4. Len(heard[q]) = 1 /\ DOMAIN heard[q] = 1 .. 1 /\ heard[q][1] = e
        BY <3>3, SingleFacts
      <3> QED BY <3>2, <3>4 DEF A
    <2> QED BY <2>1, <2>2
  <1>2. ASSUME NEW a \in ui.asking
        PROVE  Cardinality({i \in DOMAIN ses.wire : ses.wire[i].id = a.id})
                 + Cardinality({i \in DOMAIN posted :
                                  OfThisSession(posted[i]) /\ posted[i].what = "result"
                                  /\ posted[i].cmd.id = a.id}) = 1
    <2> DEFINE W == {i \in DOMAIN ses.wire : ses.wire[i].id = a.id}
               R == {i \in DOMAIN posted : OfThisSession(posted[i]) /\ posted[i].what = "result"
                                           /\ posted[i].cmd.id = a.id}
    <2>1. R = {i \in Results(posted, token) : posted[i].cmd.id = a.id}
      BY DEF Results, OfThisSession
    <2>2. PICK c \in Held(ses.wire, posted, token) : c.id = a.id
      BY DEF AskInv
    <2>3. Numbered(ses.wire, posted, token, ses.next)
      BY DEF PlaceInv
    <2>4. CASE \E i \in DOMAIN ses.wire : ses.wire[i] = c
      <3>1. PICK i \in DOMAIN ses.wire : ses.wire[i] = c
        BY <2>4
      <3>2. W = {i} /\ R = {}
        BY <2>1, <2>2, <2>3, <3>1 DEF Numbered
      <3> HIDE DEF W, R
      <3>3. Cardinality(W) = 1 /\ Cardinality(R) = 0
        BY <3>2, FS_Singleton, FS_EmptySet
      <3> QED BY <3>3 DEF W, R
    <2>5. CASE \E i \in Results(posted, token) : posted[i].cmd = c
      <3>1. PICK i \in Results(posted, token) : posted[i].cmd = c
        BY <2>5
      <3>2. W = {} /\ R = {i}
        BY <2>1, <2>2, <2>3, <3>1 DEF Numbered
      <3> HIDE DEF W, R
      <3>3. Cardinality(W) = 0 /\ Cardinality(R) = 1
        BY <3>2, FS_Singleton, FS_EmptySet
      <3> QED BY <3>3 DEF W, R
    <2> QED BY <2>2, <2>4, <2>5 DEF Held
  <1> QED BY <1>1, <1>2 DEF OneCompletion

-----------------------------------------------------------------------------
(* The hits that are shown are those of the text in the field               *)

SameSearch ==
  /\ ui'.search = ui.search /\ ui'.text = ui.text /\ ui'.append = ui.append /\ ui'.rows = ui.rows
  /\ ui'.last = ui.last /\ ui'.more = ui.more
SamePanel ==
  /\ panel'.field = panel.field /\ panel'.rows = panel.rows /\ panel'.state = panel.state
  /\ panel.timer => panel'.timer

LEMMA SearchStable ==
  ASSUME TypeInv, PlaceInv, SearchInv, NEW kinds, Loses(kinds), SameSearch, SamePanel, kept' = kept
  PROVE  SearchInv'
  <1>1. ui.search \in Nat /\ ses.next \in Nat /\ ui.search < ses.next /\ ses'.next \in Nat /\ ses.next <= ses'.next
    BY DEF TypeInv, SearchInv, Loses
  <1>2. ui'.search \in Nat /\ ui'.search < ses'.next
    BY <1>1 DEF SameSearch
  <1>3. \A c \in UnderWay' : c.id = ui.search => c \in UnderWay
    BY <1>1 DEF Loses
  <1>4. ui'.search # 0 =>
       /\ ui'.text = ui'.last
       /\ \A c \in UnderWay' : c.id = ui'.search =>
            /\ c.kind = "search"
            /\ c.arg = [text |-> ui'.text, page |-> IF ui'.append THEN Len(ui'.rows) ELSE 0]
       /\ ui'.append => PagesOf(ui'.last, ui'.rows)
    BY <1>3 DEF SameSearch, SearchInv, UnderWay
  <1>5. OneSearchShown'
    BY DEF OneSearchShown, SamePanel, SearchInv
  <1> QED BY <1>2, <1>4, <1>5 DEF SearchInv, SameSearch, SamePanel, UnderWay

(* searchLibrary, for the text in the field. *)
LEMMA SearchBegun ==
  ASSUME TypeInv, PlaceInv, SearchInv, NEW p, DOMAIN p = PanelFields,
         p.field = panel.field, p.rows = panel.rows, SearchFor(p), token' = token, kept' = kept
  PROVE  SearchInv'
  <1>1. CASE p.field = ""
    <2>1. Keeps /\ Sought(ui', 0, "") /\ panel' = Followed([p EXCEPT !.state = "idle"], ui')
      BY <1>1, SearchForPlaces
    <2> DEFINE idle == [p EXCEPT !.state = "idle"]
    <2>2. DOMAIN idle = PanelFields /\ idle.field = "" /\ idle.rows = panel.rows
      BY <1>1 DEF PanelFields
    <2>3. panel' = Followed(idle, ui')
      BY <2>1
    <2> HIDE DEF idle
    <2>4. panel'.field = "" /\ panel'.rows = panel.rows
      BY <2>2, <2>3, FollowedRest
    <2>5. OneSearchShown'
      BY <1>1, <2>4 DEF OneSearchShown, SearchInv
    <2>6. ses'.next \in Nat \ {0}
      BY <2>1 DEF Keeps, TypeInv
    <2>7. ui'.search = 0 /\ ui'.more = FALSE
      BY <2>1 DEF Sought
    <2>8. ui'.search \in Nat /\ ui'.search < ses'.next
      BY <2>6, <2>7
    <2> QED BY <2>4, <2>5, <2>7, <2>8 DEF SearchInv
  <1>2. CASE p.field # "" /\ ~ui.connected
    <2>1. Keeps /\ UNCHANGED <<ui, ses, posted>> /\ panel' = Followed(Finished(p, ui, p.field, FALSE), ui)
      BY <1>2, SearchForPlaces
    <2> DEFINE f == Finished(p, ui, p.field, FALSE)
    <2>2. DOMAIN f = PanelFields /\ f.field = panel.field /\ f.rows = <<>> /\ f.state = "failed"
      BY <1>2 DEF Finished, PanelFields
    <2>3. panel' = Followed(f, ui)
      BY <2>1
    <2> HIDE DEF f
    <2>4. panel'.field = panel.field /\ panel'.rows = <<>> /\ panel'.state = "failed"
      BY <2>2, <2>3, FollowedRest
    <2>5. OneSearchShown'
      BY <2>4, EmptyFacts DEF OneSearchShown, PagesOf, SearchInv
    <2>6. UnderWay' = UnderWay /\ ui' = ui /\ ses'.next = ses.next
      BY <2>1 DEF Keeps
    <2> QED BY <2>4, <2>5, <2>6 DEF SearchInv, UnderWay
  <1>3. CASE p.field # "" /\ ui.connected
    <2> DEFINE arg == [text |-> p.field, page |-> 0]
               c0 == [id |-> ses.next, kind |-> "search", arg |-> arg]
               searching == [p EXCEPT !.state = "searching"]
    <2>1. Sends("search", arg) /\ Sought(ui', NewId, p.field) /\ ui'.rows = ui.rows
          /\ panel' = Followed(searching, ui')
      BY <1>3, SearchForPlaces
    <2>2. DOMAIN searching = PanelFields /\ searching.field = panel.field /\ searching.rows = panel.rows
      BY DEF PanelFields
    <2> HIDE DEF searching
    <2>3. panel'.field = panel.field /\ panel'.rows = panel.rows
      BY <2>1, <2>2, FollowedRest
    <2>4. OneSearchShown'
      BY <2>3 DEF OneSearchShown, SearchInv
    <2>5. ses.next \in Nat \ {0} /\ ses'.next = ses.next + 1 /\ UnderWay' = UnderWay \cup {c0}
      BY <2>1 DEF Sends, TypeInv
    <2>6. c0.id = ses.next /\ c0.kind = "search" /\ c0.arg = arg /\ arg = [text |-> p.field, page |-> 0]
      OBVIOUS
    <2>7. ui'.search = ses.next /\ ui'.text = p.field /\ ui'.last = p.field /\ ui'.append = FALSE /\ ui'.more = FALSE
      BY <2>1 DEF Sought, NewId
    <2> HIDE DEF c0, arg
    <2>8. \A c \in UnderWay' : c.id = ui'.search => c = c0
      BY <2>5, <2>6, <2>7, NumbersUsed
    <2>9. \A c \in UnderWay' : c.id = ui'.search =>
            c.kind = "search" /\ c.arg = [text |-> ui'.text, page |-> IF ui'.append THEN Len(ui'.rows) ELSE 0]
      BY <2>6, <2>7, <2>8
    <2>10. ui'.search \in Nat /\ ui'.search < ses'.next /\ ui'.search # 0
      BY <2>5, <2>7
    <2> QED BY <2>3, <2>4, <2>7, <2>9, <2>10 DEF SearchInv, UnderWay
  <1> QED BY <1>1, <1>2, <1>3

(* The hits that were asked for join the ones that are there. *)
LEMMA HitsJoin ==
  ASSUME TypeInv, PlaceInv, SearchInv, DeliverHits, Awaited(Head(posted).cmd.id)
  PROVE  /\ Head(posted).ok => PagesOf(ui.last, Hits.rows)
         /\ ui.search # 0 /\ ui.text = ui.last
  <1> DEFINE h == Head(posted)
             r == h.answer
  <1>1. h.token = token /\ h.what = "result" /\ h.cmd.kind = "search" /\ 1 \in DOMAIN posted /\ h = posted[1]
    <2>1. IsSeq(posted) /\ posted # <<>>
      BY DEF DeliverHits, DueResult, Due, TypeInv
    <2>2. 1 \in DOMAIN posted /\ h = posted[1]
      BY <2>1, RemovedHead
    <2> QED BY <2>2 DEF DeliverHits, DueResult, Due, OfThisSession
  <1>2. h.ok => r = h.cmd.arg
    BY <1>1 DEF PlaceInv, Honest
  <1>3. h.cmd \in UnderWay
    BY <1>1 DEF UnderWay, Held, Results
  <1>4. ui.search = h.cmd.id /\ ui.search # 0
    BY <1>3, NumbersUsed DEF Awaited
  <1>5. /\ ui.text = ui.last
        /\ h.cmd.arg = [text |-> ui.text, page |-> IF ui.append THEN Len(ui.rows) ELSE 0]
        /\ ui.append => PagesOf(ui.last, ui.rows)
    BY <1>3, <1>4 DEF SearchInv, UnderWay
  <1>6. ASSUME h.ok
        PROVE  PagesOf(ui.last, Hits.rows)
    <2>1. IsSeq(Before) /\ Hits.rows = Append(Before, r)
      BY <1>6, HitsFacts
    <2>2. Len(Before) \in Nat /\ r = [text |-> ui.last, page |-> Len(Before)] /\ PagesOf(ui.last, Before)
      <3>1. CASE ui.append
        <4>1. Before = ui.rows
          BY <3>1 DEF Before
        <4>2. Len(ui.rows) \in Nat
          BY SeqFacts DEF TypeInv
        <4> QED BY <1>2, <1>5, <1>6, <3>1, <4>1, <4>2
      <3>2. CASE ~ui.append
        <4>1. Before = <<>>
          BY <3>2 DEF Before
        <4> QED BY <1>2, <1>5, <1>6, <3>2, <4>1, EmptyFacts DEF PagesOf
      <3> QED BY <3>1, <3>2
    <2>3. DOMAIN Before = 1 .. Len(Before)
      BY <2>1, SeqFacts
    <2> HIDE DEF r, h
    <2>4. /\ DOMAIN Hits.rows = 1 .. Len(Before) + 1
          /\ Hits.rows[Len(Before) + 1] = r
          /\ \A i \in 1 .. Len(Before) : Hits.rows[i] = Before[i]
      BY <2>1, AppendFacts
    <2>5. \A i \in 1 .. Len(Before) : Hits.rows[i] = [text |-> ui.last, page |-> i - 1]
      BY <2>2, <2>3, <2>4 DEF PagesOf
    <2>6. Hits.rows[Len(Before) + 1] = [text |-> ui.last, page |-> (Len(Before) + 1) - 1]
      <3>1. (Len(Before) + 1) - 1 = Len(Before)
        BY <2>2
      <3> QED BY <2>2, <2>4, <3>1
    <2>7. \A i \in DOMAIN Hits.rows : i \in 1 .. Len(Before) \/ i = Len(Before) + 1
      BY <2>2, <2>4
    <2> QED BY <2>5, <2>6, <2>7 DEF PagesOf
  <1> QED BY <1>4, <1>5, <1>6

LEMMA SearchHits ==
  ASSUME TypeInv, PlaceInv, SearchInv, DeliverHits
  PROVE  SearchInv'
  <1> DEFINE ok == Head(posted).ok
             f == Finished(panel, Hits, ui.text, ok)
  <1>1. DOMAIN panel = PanelFields
    BY TypeParts DEF WindowTyped
  <1>2. Takes /\ Head(posted).cmd.kind = "search" /\ ses' = ses
    BY HitsPlaces DEF DeliverHits
  <1>3. CASE ~Awaited(Head(posted).cmd.id)
    <2>1. panel' = Followed(panel, ui) /\ UNCHANGED <<ui, kept>>
      BY <1>3, HitsPlaces
    <2>2. Loses({"search"})
      BY <1>2, LosesNothing
    <2>3. SamePanel /\ SameSearch
      BY <1>1, <2>1, FollowedRest DEF SamePanel, SameSearch
    <2> QED BY <2>1, <2>2, <2>3, SearchStable
  <1>4. CASE Awaited(Head(posted).cmd.id)
    <2>1. /\ ui' = Hits /\ panel' = Followed(f, Hits) /\ kept' = Unparked(panel, Hits, ui.text, ok)
      BY <1>4, HitsPlaces
    <2>2. /\ Hits.search = 0 /\ Hits.last = ui.last
          /\ ~ok => Hits.rows = ui.rows /\ Hits.more = ui.more
      BY HitsFacts
    <2>3. ok => PagesOf(ui.last, Hits.rows)
      BY <1>4, HitsJoin
    <2>4. ui.search # 0 /\ ui.text = ui.last
      BY <1>4, HitsJoin
    <2>5. /\ DOMAIN f = PanelFields /\ f.field = panel.field /\ f.timer = panel.timer
          /\ ui.text # panel.field \/ ui.text = "" => f = panel
          /\ ui.text = panel.field /\ ui.text # "" =>
              /\ f.rows = IF ok THEN Hits.rows ELSE <<>>
              /\ f.state = IF ok THEN "done" ELSE "failed"
      BY <1>1 DEF Finished, PanelFields
    <2> HIDE DEF f, ok
    <2>6. panel'.field = f.field /\ panel'.rows = f.rows /\ panel'.state = f.state /\ (f.timer => panel'.timer)
      BY <2>1, <2>5, FollowedRest
    <2>7. ui'.more => PagesOf(ui'.last, ui'.rows)
      BY <2>1, <2>2, <2>3 DEF SearchInv
    <2>8. panel'.field # "" /\ ~panel'.timer /\ panel'.state # "failed" =>
            ui'.rows = <<>> \/ (panel'.field = ui'.last /\ PagesOf(panel'.field, ui'.rows))
      <3> SUFFICES ASSUME panel'.field # "", ~panel'.timer, panel'.state # "failed"
                   PROVE  panel.field = ui.last /\ PagesOf(panel.field, Hits.rows)
        BY <2>1, <2>2, <2>5, <2>6
      <3>1. ui.text = panel.field
        BY <2>4, <2>5, <2>6 DEF SearchInv
      <3>2. ok
        BY <2>5, <2>6, <3>1
      <3> QED BY <2>3, <2>4, <3>1, <3>2
    <2>9. PagesOf(panel'.field, panel'.rows)
      <3>1. CASE ui.text # panel.field \/ ui.text = ""
        BY <2>5, <2>6, <3>1 DEF SearchInv, OneSearchShown
      <3>2. CASE ui.text = panel.field /\ ui.text # "" /\ ok
        BY <2>3, <2>4, <2>5, <2>6, <3>2
      <3>3. CASE ui.text = panel.field /\ ui.text # "" /\ ~ok
        BY <2>5, <2>6, <3>3, EmptyFacts DEF PagesOf
      <3> QED BY <3>1, <3>2, <3>3
    <2>10. \A k \in kept' : k.failed \/ PagesOf(k.query, k.rows)
      <3> DEFINE n == [query |-> ui.text, rows |-> Hits.rows, failed |-> FALSE]
      <3>1. \A k \in kept' : k \in kept \/ (ok /\ k = n)
        BY <2>1 DEF Unparked, Keep
      <3>2. n.query = ui.last /\ n.rows = Hits.rows
        BY <2>4
      <3>3. \A k \in kept : k.failed \/ PagesOf(k.query, k.rows)
        BY DEF SearchInv, OneSearchShown
      <3> HIDE DEF n
      <3>4. ok => PagesOf(n.query, n.rows)
        BY <2>3, <3>2
      <3> QED BY <3>1, <3>3, <3>4
    <2>11. ui'.search = 0 /\ ui'.search \in Nat /\ ui'.search < ses'.next
      <3>1. ses.next \in Nat \ {0} /\ ui'.search = 0
        BY <2>1, <2>2 DEF TypeInv
      <3> QED BY <1>2, <3>1
    <2> QED BY <2>7, <2>8, <2>9, <2>10, <2>11 DEF SearchInv, OneSearchShown
  <1> QED BY <1>3, <1>4

LEMMA SearchKept ==
  ASSUME TypeInv, PlaceInv, SearchInv, Enter
  PROVE  SearchInv'
  <1> DEFINE p == [panel EXCEPT !.timer = FALSE, !.parked = panel.field]
  <1>1. DOMAIN p = PanelFields /\ p.field = panel.field /\ p.rows = panel.rows
    BY DEF TypeInv, PanelFields
  <1>2. CASE EnterSearches
    <2>1. SearchFor(p) /\ token' = token /\ kept' = kept
      BY <1>2 DEF Enter, EnterSearches
    <2> HIDE DEF p
    <2> QED BY <1>1, <2>1, SearchBegun
  <1>3. CASE ~EnterSearches
    <2>1. UNCHANGED <<ui, ses, posted, panel, token>> /\ kept' = Keep(panel.field, ui, panel.state = "failed")
          /\ panel.field # ""
      BY <1>3 DEF Enter, EnterSearches
    <2>2. ~panel.timer /\ ui.search = 0
      BY <1>3 DEF EnterSearches
    <2>3. panel.state = "failed" \/ ui.rows = <<>> \/ PagesOf(panel.field, ui.rows)
      BY <2>1, <2>2 DEF SearchInv
    <2>4. \A k \in kept' : k.failed \/ PagesOf(k.query, k.rows)
      <3> DEFINE bad == panel.state = "failed"
                 n == [query |-> panel.field, rows |-> ui.rows, failed |-> bad]
      <3>1. \A k \in kept' : k \in kept \/ (ui.rows # <<>> /\ k = n)
        BY <2>1 DEF Keep
      <3>2. n.query = panel.field /\ n.rows = ui.rows /\ n.failed = bad
        OBVIOUS
      <3>3. \A k \in kept : k.failed \/ PagesOf(k.query, k.rows)
        BY DEF SearchInv, OneSearchShown
      <3>4. ui.rows # <<>> => bad \/ PagesOf(panel.field, ui.rows)
        BY <2>3
      <3> HIDE DEF n, bad
      <3>5. ui.rows # <<>> => n.failed \/ PagesOf(n.query, n.rows)
        BY <3>2, <3>4
      <3> QED BY <3>1, <3>3, <3>5
    <2> QED BY <2>1, <2>4 DEF SearchInv, OneSearchShown
  <1> QED BY <1>2, <1>3

LEMMA SearchContinued ==
  ASSUME TypeInv, PlaceInv, SearchInv, More
  PROVE  SearchInv'
  <1> DEFINE arg == [text |-> ui.last, page |-> Len(ui.rows)]
             c0 == [id |-> ses.next, kind |-> "search", arg |-> arg]
             u == [ui EXCEPT !.search = NewId, !.text = ui.last, !.append = TRUE]
  <1>1. Sends("search", arg)
    BY MorePlaces
  <1>2. ui' = u /\ panel' = Followed(panel, u) /\ ui.connected /\ ui.search = 0 /\ ui.more /\ kept' = kept
    BY DEF More
  <1>3. /\ u.search = ses.next /\ u.text = ui.last /\ u.append = TRUE /\ u.last = ui.last /\ u.rows = ui.rows
        /\ u.more = ui.more /\ u.connected = ui.connected
    BY DEF TypeInv, Cleared, NewId
  <1>4. DOMAIN panel = PanelFields
    BY TypeParts DEF WindowTyped
  <1>5. ses.next \in Nat \ {0} /\ ses'.next = ses.next + 1 /\ UnderWay' = UnderWay \cup {c0}
    BY <1>1 DEF Sends, TypeInv
  <1>6. c0.id = ses.next /\ c0.kind = "search" /\ c0.arg = arg
    OBVIOUS
  <1> HIDE DEF u, c0, arg
  <1>7. SamePanel /\ (panel.field # "" /\ panel.field # ui.last => panel'.timer)
    BY <1>2, <1>3, <1>4, FollowedRest DEF SamePanel
  <1>8. \A c \in UnderWay' : c.id = ui'.search => c = c0
    BY <1>2, <1>3, <1>5, <1>6, NumbersUsed
  <1>9. \A c \in UnderWay' : c.id = ui'.search =>
          c.kind = "search" /\ c.arg = [text |-> ui'.text, page |-> IF ui'.append THEN Len(ui'.rows) ELSE 0]
    BY <1>2, <1>3, <1>6, <1>8 DEF arg
  <1>10. PagesOf(ui.last, ui.rows)
    BY <1>2 DEF SearchInv
  <1>11. ui'.search \in Nat /\ ui'.search < ses'.next /\ ui'.search # 0
    BY <1>2, <1>3, <1>5
  <1>12. OneSearchShown'
    BY <1>2, <1>7 DEF SamePanel, OneSearchShown, SearchInv
  <1>13. panel'.field # "" /\ ~panel'.timer /\ panel'.state # "failed" => panel'.field = ui'.last
    BY <1>2, <1>3, <1>7 DEF SamePanel
  <1> QED BY <1>2, <1>3, <1>9, <1>10, <1>11, <1>12, <1>13 DEF SearchInv, UnderWay

LEMMA SearchNext ==
  ASSUME TypeInv, PlaceInv, SearchInv, [Next]_vars
  PROVE  SearchInv'
  <1> DEFINE kinds == {"ask", "read", "repeat", "transport", "delete", "clear", "drag", "edit"}
             Stable == Loses(kinds) /\ SameSearch /\ SamePanel /\ kept' = kept
  <1>1. Stable => SearchInv'
    <2> HIDE DEF kinds
    <2> QED BY SearchStable
  <1>2. /\ Keeps => Loses(kinds)
        /\ \A kind, arg : Sends(kind, arg) => Loses(kinds)
        /\ Takes /\ Head(posted).cmd.kind \in kinds => Loses(kinds)
    <2> HIDE DEF kinds
    <2> QED BY LosesNothing
  <1>3. DOMAIN ui = DOMAIN Cleared /\ DOMAIN panel = PanelFields
    BY TypeParts DEF WindowTyped
  <1>4. panel' = panel => SamePanel
    BY DEF SamePanel
  <1>5. ui' = ui => SameSearch
    BY DEF SameSearch
  <1>6. \A u : panel' = Followed(panel, u) => SamePanel
    BY <1>3, FollowedRest, ZenonT(60) DEF SamePanel
  <1>7. CASE SearchTimer
    <2> DEFINE p == [panel EXCEPT !.timer = FALSE]
    <2>1. DOMAIN p = PanelFields /\ p.field = panel.field /\ p.rows = panel.rows
          /\ SearchFor(p) /\ token' = token /\ kept' = kept
      BY <1>3, <1>7 DEF PanelFields, SearchTimer
    <2> HIDE DEF p
    <2> QED BY <2>1, SearchBegun
  <1>8. ASSUME NEW text, Type(text)
        PROVE  SearchInv'
    <2>1. Keeps /\ ui' = ui /\ kept' = kept
      BY <1>8, TypePlaces DEF Type
    <2>2. panel'.timer = TRUE /\ panel'.rows = <<>>
      BY <1>3, <1>8 DEF Type, PanelFields
    <2>3. OneSearchShown'
      BY <2>1, <2>2, EmptyFacts DEF OneSearchShown, PagesOf, SearchInv
    <2> QED BY <2>1, <2>2, <2>3 DEF SearchInv, Keeps, UnderWay
  <1>9. ASSUME NEW again \in BOOLEAN, Reconnect(again)
        PROVE  SearchInv'
    <2>1. /\ ui'.search = 0 /\ ui'.rows = <<>> /\ ui'.more = FALSE /\ kept' = kept
          /\ panel' = Followed(panel, Cleared)
      BY <1>9 DEF Reconnect, Cleared
    <2>2. ses'.next = 1
      BY <1>9, ReconnectPlaces DEF Renews
    <2>3. SamePanel
      BY <1>6, <2>1
    <2>4. OneSearchShown'
      BY <2>1, <2>3 DEF OneSearchShown, SamePanel, SearchInv
    <2>5. ui'.search \in Nat /\ ui'.search < ses'.next
      BY <2>1, <2>2
    <2> QED BY <2>1, <2>4, <2>5 DEF SearchInv
  <1>10. CASE Ask \/ OpenTab \/ EditPlaylist
    <2>1. SameSearch /\ panel' = panel /\ kept' = kept
      BY <1>3, <1>10 DEF Ask, OpenTab, EditPlaylist, Aside, SameSearch, Cleared
    <2> HIDE DEF kinds
    <2>2. Loses(kinds)
      BY <1>2, <1>10, AskPlaces, OpenTabPlaces, EditPlaces
    <2> QED BY <1>1, <1>4, <2>1, <2>2
  <1>11. ASSUME NEW mode, SetRepeat(mode)
         PROVE  SearchInv'
    <2>1. SameSearch /\ panel' = panel /\ kept' = kept
      BY <1>3, <1>11 DEF SetRepeat, Aside, SameSearch, Cleared
    <2> HIDE DEF kinds
    <2>2. Loses(kinds)
      BY <1>2, <1>11, RepeatPlaces
    <2> QED BY <1>1, <1>4, <2>1, <2>2
  <1>12. ASSUME NEW state, Transport(state)
         PROVE  SearchInv'
    <2>1. SameSearch /\ panel' = panel /\ kept' = kept
      BY <1>3, <1>12 DEF Transport, Aside, SameSearch, Cleared
    <2> HIDE DEF kinds
    <2>2. Loses(kinds)
      BY <1>2, <1>12, TransportPlaces
    <2> QED BY <1>1, <1>4, <2>1, <2>2
  <1>13. CASE QueueEdit
    <2>1. PICK kind, arg : kind \in {"delete", "clear", "drag"} /\ EditQueue(kind, arg)
      BY <1>13, QueueEditSends
    <2>2. ui' = ui /\ panel' = panel /\ kept' = kept
      BY <2>1 DEF EditQueue, Aside
    <2> HIDE DEF kinds
    <2>3. Loses(kinds)
      BY <1>2, <2>1, QueueEditPlaces
    <2> QED BY <1>1, <1>4, <1>5, <2>2, <2>3
  <1>15. CASE User
    BY <1>8, <1>9, <1>10, <1>11, <1>12, <1>15, SearchKept, SearchContinued DEF User
  <1>16. CASE Others
    <2>1. PICK what, queue : what \in {"repeat", "play", "list", "queue"} /\ Foreign(what, queue)
      BY <1>16 DEF Others
    <2>2. ui' = ui /\ panel' = panel /\ kept' = kept
      BY <2>1 DEF Foreign
    <2> HIDE DEF kinds
    <2>3. Loses(kinds)
      BY <1>2, <2>1, ForeignPlaces
    <2> QED BY <1>1, <1>4, <1>5, <2>2, <2>3
  <1>17. CASE ConfirmationTimer \/ RereadTimer
    <2>1. SameSearch /\ panel' = panel /\ kept' = kept
      BY <1>3, <1>17 DEF ConfirmationTimer, RereadTimer, SameSearch, Cleared
    <2> HIDE DEF kinds
    <2>2. Loses(kinds)
      BY <1>2, <1>17, ConfirmationPlaces, RereadPlaces
    <2> QED BY <1>1, <1>4, <2>1, <2>2
  <1>18. CASE Timers
    BY <1>7, <1>17, <1>18 DEF Timers
  <1>19. CASE DropStale \/ DeliverNotice
    <2>1. ui' = ui /\ panel' = panel /\ kept' = kept
      BY <1>19 DEF DropStale, DeliverNotice
    <2> HIDE DEF kinds
    <2>2. Loses(kinds)
      BY <1>2, <1>19, StalePlaces, ChangedPlaces
    <2> QED BY <1>1, <1>4, <1>5, <2>1, <2>2
  <1>20. CASE DeliverState
    <2>1. SameSearch /\ kept' = kept
      BY <1>3, <1>20 DEF DeliverState, SameSearch, Cleared
    <2>2. SamePanel
      BY <1>6, <1>20 DEF DeliverState
    <2> HIDE DEF kinds
    <2>3. Loses(kinds)
      BY <1>2, <1>20, StatePlaces
    <2> QED BY <1>1, <2>1, <2>2, <2>3
  <1>21. CASE DeliverSnapshot
    <2>1. SameSearch /\ kept' = kept
      <3> DEFINE v == [ui EXCEPT !.generation = Head(posted).generation, !.connected = TRUE]
                 r == Reconciled(v, Head(posted).seen)
      <3>1. v.search = ui.search /\ v.text = ui.text /\ v.append = ui.append /\ v.rows = ui.rows
            /\ v.last = ui.last /\ v.more = ui.more /\ DOMAIN v = DOMAIN Cleared
        BY <1>3 DEF Cleared
      <3> HIDE DEF v
      <3>2. r.search = ui.search /\ r.text = ui.text /\ r.append = ui.append /\ r.rows = ui.rows
            /\ r.last = ui.last /\ r.more = ui.more
        BY <3>1 DEF Reconciled, Cleared
      <3>3. (ui' = ui \/ ui' = r) /\ kept' = kept
        BY <1>21 DEF DeliverSnapshot, v
      <3> HIDE DEF r
      <3> QED BY <3>2, <3>3 DEF SameSearch
    <2>2. SamePanel
      BY <1>6, <1>21 DEF DeliverSnapshot
    <2> HIDE DEF kinds
    <2>3. Loses(kinds)
      BY <1>2, <1>21, SnapshotPlaces
    <2> QED BY <1>1, <2>1, <2>2, <2>3
  <1>22. CASE DeliverAnswer
    <2>1. SameSearch /\ kept' = kept
      BY <1>3, <1>22 DEF DeliverAnswer, SameSearch, Cleared
    <2>2. SamePanel
      BY <1>6, <1>22 DEF DeliverAnswer
    <2>3. Loses(kinds)
      BY <1>2, <1>22, AnswerPlaces DEF DeliverAnswer, DueResult
    <2> QED BY <1>1, <2>1, <2>2, <2>3
  <1>23. CASE DeliverPlaylist
    <2>1. SameSearch /\ panel' = panel /\ kept' = kept
      BY <1>3, <1>23 DEF DeliverPlaylist, SameSearch, Cleared
    <2>2. Loses(kinds)
      BY <1>2, <1>23, PlaylistPlaces
    <2> QED BY <1>1, <1>4, <2>1, <2>2
  <1>24. CASE DeliverEdited
    <2>1. SameSearch /\ panel' = panel /\ kept' = kept
      BY <1>3, <1>24 DEF DeliverEdited, SameSearch, Cleared
    <2>2. Loses({"edit"})
      BY <1>24, EditedPlaces
    <2>3. Loses(kinds)
      BY <2>2 DEF Loses
    <2> QED BY <1>1, <1>4, <2>1, <2>3
  <1>25. CASE DeliverControl
    <2>1. SameSearch /\ panel' = panel /\ kept' = kept
      BY <1>3, <1>25 DEF DeliverControl, SameSearch, Cleared
    <2>2. Loses(kinds)
      BY <1>2, <1>25, ControlPlaces
    <2> QED BY <1>1, <1>4, <2>1, <2>2
  <1>26. CASE Deliver
    BY <1>19, <1>20, <1>21, <1>22, <1>23, <1>24, <1>25, <1>26, SearchHits DEF Deliver
  <1>27. CASE Session
    <2>1. ui' = ui /\ panel' = panel /\ kept' = kept
      BY <1>27 DEF Session, SessionConnects, SessionRefreshes, SessionExecutes, NoticeArrives
    <2> HIDE DEF kinds
    <2>2. Loses(kinds)
      BY <1>2, <1>27, ConnectsPlaces, RefreshesPlaces, ExecutesPlaces, NoticePlaces DEF Session
    <2> QED BY <1>1, <1>4, <1>5, <2>1, <2>2
  <1>28. ASSUME NEW sent \in {0, 1}, SessionBreaks(sent)
         PROVE  SearchInv'
    <2>1. ui' = ui /\ panel' = panel /\ kept' = kept
      BY <1>28 DEF SessionBreaks
    <2> HIDE DEF kinds
    <2>2. Loses(kinds)
      BY <1>2, <1>28, BreaksPlaces
    <2> QED BY <1>1, <1>4, <1>5, <2>1, <2>2
  <1>29. CASE UNCHANGED vars
    <2>1. ui' = ui /\ panel' = panel /\ kept' = kept
      BY <1>29 DEF vars
    <2> HIDE DEF kinds
    <2>2. Loses(kinds)
      BY <1>2, <1>29, IdleTyped
    <2> QED BY <1>1, <1>4, <1>5, <2>1, <2>2
  <1> QED BY <1>13, <1>15, <1>16, <1>18, <1>26, <1>27, <1>28, <1>29 DEF Next, Otherwise

-----------------------------------------------------------------------------
(* The order of the queue and of the reports                                *)

(* Reports q are those of p and some new ones behind them. *)
New(p, q) == Len(p) + 1 .. Len(q)
Grown(p, q) == IsSeq(p) /\ IsSeq(q) /\ Len(p) <= Len(q) /\ \A i \in DOMAIN p : q[i] = p[i]

LEMMA GrownFacts ==
  ASSUME NEW p, NEW q, Grown(p, q)
  PROVE  /\ DOMAIN q = DOMAIN p \cup New(p, q) /\ DOMAIN p \subseteq Nat \ {0}
         /\ \A i \in DOMAIN p, j \in New(p, q) : i < j /\ i \in Nat /\ j \in Nat
         /\ \A i \in DOMAIN p : q[i] = p[i]
  <1>1. Len(p) \in Nat /\ Len(q) \in Nat /\ DOMAIN p = 1 .. Len(p) /\ DOMAIN q = 1 .. Len(q)
    BY SeqFacts DEF Grown
  <1>2. Len(p) <= Len(q) /\ \A i \in DOMAIN p : q[i] = p[i]
    BY DEF Grown
  <1> QED BY <1>1, <1>2 DEF New

LEMMA GrownByOne ==
  ASSUME NEW p, IsSeq(p), NEW r
  PROVE  /\ Grown(p, Append(p, r)) /\ New(p, Append(p, r)) = {Len(p) + 1}
         /\ Append(p, r)[Len(p) + 1] = r
  <1>1. Len(p) \in Nat /\ DOMAIN p = 1 .. Len(p)
    BY SeqFacts
  <1>2. /\ IsSeq(Append(p, r)) /\ Len(Append(p, r)) = Len(p) + 1
        /\ Append(p, r)[Len(p) + 1] = r
        /\ \A i \in 1 .. Len(p) : Append(p, r)[i] = p[i]
    BY AppendFacts
  <1> QED BY <1>1, <1>2 DEF Grown, New

LEMMA GrownTwice ==
  ASSUME NEW p, NEW q, NEW s, Grown(p, q), Grown(q, s)
  PROVE  /\ Grown(p, s) /\ New(p, s) = New(p, q) \cup New(q, s)
         /\ \A i \in New(p, q) : s[i] = q[i]
  <1>1. /\ Len(p) \in Nat /\ Len(q) \in Nat /\ Len(s) \in Nat
        /\ DOMAIN p = 1 .. Len(p) /\ DOMAIN q = 1 .. Len(q) /\ DOMAIN s = 1 .. Len(s)
    BY SeqFacts DEF Grown
  <1>2. Len(p) <= Len(q) /\ Len(q) <= Len(s) /\ IsSeq(p) /\ IsSeq(s)
        /\ (\A i \in DOMAIN p : q[i] = p[i]) /\ (\A i \in DOMAIN q : s[i] = q[i])
    BY DEF Grown
  <1>3. \A i \in DOMAIN p : s[i] = p[i]
    BY <1>1, <1>2
  <1>4. \A i \in New(p, q) : s[i] = q[i]
    BY <1>1, <1>2 DEF New
  <1>5. New(p, s) = New(p, q) \cup New(q, s)
    BY <1>1, <1>2 DEF New
  <1> QED BY <1>1, <1>2, <1>3, <1>4, <1>5 DEF Grown

(* Only results are new: while commands are accepted, those of a search    *)
(* that was cancelled.                                                     *)
AddsResults(p, q) ==
  /\ Grown(p, q)
  /\ \A i \in New(p, q) : /\ q[i].token = token /\ q[i].what = "result"
                          /\ ses.accepting => q[i].cmd.kind = "search"

LEMMA AddsNothing ==
  ASSUME NEW p, IsSeq(p)
  PROVE  AddsResults(p, p)
  <1>1. Len(p) \in Nat
    BY SeqFacts
  <1> QED BY <1>1 DEF AddsResults, Grown, New

LEMMA AddsTwice ==
  ASSUME NEW p, NEW q, NEW s, AddsResults(p, q), AddsResults(q, s)
  PROVE  AddsResults(p, s)
  <1>1. Grown(p, q) /\ Grown(q, s)
    BY DEF AddsResults
  <1>2. Grown(p, s) /\ New(p, s) = New(p, q) \cup New(q, s) /\ \A i \in New(p, q) : s[i] = q[i]
    BY <1>1, GrownTwice
  <1> QED BY <1>2 DEF AddsResults

LEMMA AddsOne ==
  ASSUME NEW p, IsSeq(p), NEW r, r.token = token, r.what = "result", ses.accepting => r.cmd.kind = "search"
  PROVE  AddsResults(p, Append(p, r))
  BY GrownByOne DEF AddsResults

(* A report more. *)
LEMMA ViewsGrown ==
  ASSUME NEW p, NEW q, Grown(p, q), NEW of
  PROVE  /\ Views(q, of) = Views(p, of) \cup {i \in New(p, q) : q[i].token = of /\ q[i].what \in {"state", "snapshot"}}
         /\ Views(p, of) \subseteq DOMAIN p /\ \A i \in DOMAIN p : q[i] = p[i]
  <1>1. DOMAIN q = DOMAIN p \cup New(p, q) /\ \A i \in DOMAIN p : q[i] = p[i]
    BY GrownFacts
  <1> QED BY <1>1 DEF Views

LEMMA ResultsGrown ==
  ASSUME NEW p, NEW q, Grown(p, q), NEW of
  PROVE  /\ Results(q, of) = Results(p, of) \cup {i \in New(p, q) : q[i].token = of /\ q[i].what = "result"}
         /\ Results(p, of) \subseteq DOMAIN p /\ \A i \in DOMAIN p : q[i] = p[i]
  <1>1. DOMAIN q = DOMAIN p \cup New(p, q) /\ \A i \in DOMAIN p : q[i] = p[i]
    BY GrownFacts
  <1> QED BY <1>1 DEF Results

LEMMA ViewsStay ==
  ASSUME NEW p, NEW q, AddsResults(p, q)
  PROVE  Views(q, token) = Views(p, token) /\ Views(p, token) \subseteq DOMAIN p
         /\ \A i \in DOMAIN p : q[i] = p[i] /\ i \in DOMAIN q
  <1>1. Grown(p, q) /\ \A i \in New(p, q) : q[i].what = "result"
    BY DEF AddsResults
  <1>2. DOMAIN q = DOMAIN p \cup New(p, q) /\ \A i \in DOMAIN p : q[i] = p[i]
    BY <1>1, GrownFacts
  <1> QED BY <1>1, <1>2 DEF Views

(* The oldest report is gone. *)
LEMMA TailShifts ==
  ASSUME NEW p, IsSeq(p), p # <<>>
  PROVE  /\ DOMAIN p \subseteq Nat \ {0} /\ DOMAIN Tail(p) \subseteq Nat \ {0} /\ 1 \in DOMAIN p
         /\ Head(p) = p[1]
         /\ \A i \in DOMAIN Tail(p) : i + 1 \in DOMAIN p /\ Tail(p)[i] = p[i + 1]
         /\ \A i \in DOMAIN p \ {1} : i - 1 \in DOMAIN Tail(p) /\ Tail(p)[i - 1] = p[i]
  <1>1. Len(p) \in Nat /\ DOMAIN p = 1 .. Len(p)
    BY SeqFacts
  <1>2. /\ Len(p) > 0 /\ DOMAIN Tail(p) = 1 .. Len(p) - 1 /\ Head(p) = p[1]
        /\ \A i \in 1 .. Len(p) - 1 : Tail(p)[i] = p[i + 1]
    BY TailFacts
  <1>3. \A i \in DOMAIN p \ {1} : i - 1 \in 1 .. Len(p) - 1 /\ (i - 1) + 1 = i
    BY <1>1
  <1> QED BY <1>1, <1>2, <1>3

(* T is S one place further to the front. *)
Shifted(S, T) ==
  /\ S \subseteq Nat \ {0} /\ T \subseteq Nat \ {0}
  /\ \A i \in T : i + 1 \in S
  /\ \A i \in S \ {1} : i - 1 \in T

LEMMA ShiftedLast ==
  ASSUME NEW S, NEW T, Shifted(S, T)
  PROVE  /\ \A i \in Nat : LastOf(T, i) <=> LastOf(S, i + 1) /\ i # 0
         /\ T = {} => S \subseteq {1}
         /\ LastOf(S, 1) \/ S = {} => T = {}
         /\ S = {1} => LastOf(S, 1)
  <1>1. ASSUME NEW i \in Nat, LastOf(T, i)
        PROVE  LastOf(S, i + 1) /\ i # 0
    <2>1. \A j \in S : j <= i + 1
      <3> TAKE j \in S
      <3>1. CASE j = 1
        BY <1>1, <3>1 DEF LastOf, Shifted
      <3>2. CASE j # 1
        <4>1. j - 1 \in T /\ j - 1 <= i /\ j \in Nat
          BY <1>1, <3>2 DEF LastOf, Shifted
        <4> QED BY <4>1
      <3> QED BY <3>1, <3>2
    <2> QED BY <1>1, <2>1 DEF LastOf, Shifted
  <1>2. ASSUME NEW i \in Nat, LastOf(S, i + 1), i # 0
        PROVE  LastOf(T, i)
    <2>1. i + 1 # 1 /\ (i + 1) - 1 = i
      BY <1>2
    <2>2. i \in T
      BY <1>2, <2>1 DEF LastOf, Shifted
    <2>3. \A j \in T : j <= i
      <3> TAKE j \in T
      <3>1. j \in Nat /\ j + 1 <= i + 1
        BY <1>2 DEF LastOf, Shifted
      <3> QED BY <3>1
    <2> QED BY <2>2, <2>3 DEF LastOf
  <1>3. T = {} => S \subseteq {1}
    BY DEF Shifted
  <1>4. LastOf(S, 1) \/ S = {} => T = {}
    <2> SUFFICES ASSUME LastOf(S, 1) \/ S = {}, NEW i \in T
                 PROVE  FALSE
      OBVIOUS
    <2>1. i + 1 \in S /\ i \in Nat \ {0}
      BY DEF Shifted
    <2> QED BY <2>1 DEF LastOf
  <1>5. S = {1} => LastOf(S, 1)
    BY DEF LastOf
  <1> QED BY <1>1, <1>2, <1>3, <1>4, <1>5

LEMMA ViewsShifted ==
  ASSUME NEW p, IsSeq(p), p # <<>>, NEW of
  PROVE  /\ Shifted(Views(p, of), Views(Tail(p), of))
         /\ 1 \in Views(p, of) <=> Head(p).token = of /\ Head(p).what \in {"state", "snapshot"}
         /\ \A i \in Views(Tail(p), of) : Tail(p)[i] = p[i + 1]
         /\ Head(p) = p[1]
  <1> DEFINE q == Tail(p)
  <1>1. /\ DOMAIN p \subseteq Nat \ {0} /\ DOMAIN q \subseteq Nat \ {0} /\ 1 \in DOMAIN p
        /\ Head(p) = p[1]
        /\ \A i \in DOMAIN q : i + 1 \in DOMAIN p /\ q[i] = p[i + 1]
        /\ \A i \in DOMAIN p \ {1} : i - 1 \in DOMAIN q /\ q[i - 1] = p[i]
    BY TailShifts
  <1> HIDE DEF q
  <1>2. Shifted(Views(p, of), Views(q, of))
    BY <1>1 DEF Shifted, Views
  <1>3. \A i \in Views(q, of) : q[i] = p[i + 1]
    BY <1>1 DEF Views
  <1>4. 1 \in Views(p, of) <=> Head(p).token = of /\ Head(p).what \in {"state", "snapshot"}
    BY <1>1 DEF Views
  <1> QED BY <1>1, <1>2, <1>3, <1>4 DEF q

-----------------------------------------------------------------------------
(* The queue                                                                *)

LEMMA InsertedPlaces ==
  ASSUME NEW w, IsSeq(w), NEW at \in 1 .. Len(w) + 1, NEW c, NEW v, v = InsertAt(w, at, c)
  PROVE  /\ at \in DOMAIN v /\ v[at] = c /\ DOMAIN v \subseteq Nat /\ DOMAIN w \subseteq Nat /\ at \in Nat
         /\ \A i \in DOMAIN v : i < at => i \in DOMAIN w /\ v[i] = w[i]
         /\ \A i \in DOMAIN v : i > at => i - 1 \in DOMAIN w /\ v[i] = w[i - 1]
         /\ \A i \in DOMAIN w : i < at => i \in DOMAIN v /\ v[i] = w[i]
         /\ \A i \in DOMAIN w : i >= at => i + 1 \in DOMAIN v /\ v[i + 1] = w[i]
  <1>1. Len(w) \in Nat /\ DOMAIN w = 1 .. Len(w)
    BY SeqFacts
  <1>2. /\ DOMAIN v = 1 .. Len(w) + 1
        /\ \A i \in 1 .. Len(w) + 1 : v[i] = IF i < at THEN w[i] ELSE IF i = at THEN c ELSE w[i - 1]
    BY InsertFacts
  <1>3. ASSUME NEW i \in DOMAIN w, i >= at
        PROVE  i + 1 \in DOMAIN v /\ v[i + 1] = w[i]
    <2>1. i + 1 \in 1 .. Len(w) + 1 /\ (i + 1) - 1 = i /\ ~(i + 1 < at) /\ i + 1 # at
      BY <1>1, <1>3
    <2> QED BY <1>2, <2>1
  <1>4. ASSUME NEW i \in DOMAIN w, i < at
        PROVE  i \in DOMAIN v /\ v[i] = w[i]
    BY <1>1, <1>2, <1>4
  <1>5. ASSUME NEW i \in DOMAIN v, i < at
        PROVE  i \in DOMAIN w /\ v[i] = w[i]
    BY <1>1, <1>2, <1>5
  <1>6. ASSUME NEW i \in DOMAIN v, i > at
        PROVE  i - 1 \in DOMAIN w /\ v[i] = w[i - 1]
    <2>1. i \in 1 .. Len(w) + 1 /\ ~(i < at) /\ i # at /\ i - 1 \in 1 .. Len(w)
      BY <1>1, <1>2, <1>6
    <2> QED BY <1>1, <1>2, <2>1
  <1>7. at \in DOMAIN v /\ v[at] = c /\ DOMAIN v \subseteq Nat /\ DOMAIN w \subseteq Nat /\ at \in Nat
    BY <1>1, <1>2
  <1> QED BY <1>3, <1>4, <1>5, <1>6, <1>7

LEMMA OrderedInserted ==
  ASSUME NEW w, IsSeq(w), Ordered(w), NEW c, NEW at,
         at = IF IsQuery(c.kind) THEN Len(w) + 1 ELSE FirstQuery(w)
  PROVE  /\ Ordered(InsertAt(w, at, c))
         /\ c.kind = "repeat" => LastRepeat(InsertAt(w, at, c), c.arg)
  <1> DEFINE v == InsertAt(w, at, c)
  <1>0. Len(w) \in Nat /\ DOMAIN w = 1 .. Len(w)
    BY SeqFacts
  <1>1. at \in 1 .. Len(w) + 1
    BY <1>0, FirstQueryIsPlace
  <1>2. /\ at \in DOMAIN v /\ v[at] = c /\ DOMAIN v \subseteq Nat
        /\ \A i \in DOMAIN v : i < at => i \in DOMAIN w /\ v[i] = w[i]
        /\ \A i \in DOMAIN v : i > at => i - 1 \in DOMAIN w /\ v[i] = w[i - 1]
    BY <1>1, InsertedPlaces
  <1> HIDE DEF v
  <1>3. CASE IsQuery(c.kind)
    <2>1. \A i \in DOMAIN v : ~(i > at)
      BY <1>0, <1>2, <1>3
    <2>2. ASSUME NEW i \in DOMAIN v, NEW j \in DOMAIN v, i < j, IsQuery(v[i].kind)
          PROVE  IsQuery(v[j].kind)
      <3>1. CASE j = at
        BY <1>2, <1>3, <3>1
      <3>2. CASE j # at
        <4>1. i < at /\ j < at
          BY <1>1, <1>2, <2>1, <2>2, <3>2
        <4> QED BY <1>2, <2>2, <4>1 DEF Ordered
      <3> QED BY <3>1, <3>2
    <2>3. c.kind # "repeat"
      BY <1>3 DEF IsQuery
    <2> QED BY <2>2, <2>3 DEF Ordered, v
  <1>4. CASE ~IsQuery(c.kind)
    <2>1. /\ at = FirstQuery(w) /\ (at <= Len(w) => IsQuery(w[at].kind))
          /\ \A j \in 1 .. at - 1 : ~IsQuery(w[j].kind)
      BY <1>4, FirstQueryIsPlace
    <2>2. ASSUME NEW i \in DOMAIN v, i > at
          PROVE  IsQuery(v[i].kind)
      <3>1. i - 1 \in DOMAIN w /\ v[i] = w[i - 1] /\ at \in DOMAIN w /\ at <= i - 1
        BY <1>0, <1>1, <1>2, <2>2
      <3>2. IsQuery(w[at].kind)
        BY <1>0, <2>1, <3>1
      <3>3. at = i - 1 \/ at < i - 1
        BY <1>0, <3>1
      <3> QED BY <3>1, <3>2, <3>3 DEF Ordered
    <2>3. ASSUME NEW i \in DOMAIN v, i < at
          PROVE  ~IsQuery(v[i].kind)
      <3>1. i \in 1 .. at - 1 /\ v[i] = w[i]
        BY <1>0, <1>1, <1>2, <2>3
      <3> QED BY <2>1, <3>1
    <2>4. \A i \in DOMAIN v : i < at \/ i = at \/ i > at
      BY <1>1, <1>2
    <2>5. Ordered(v)
      <3> SUFFICES ASSUME NEW i \in DOMAIN v, NEW j \in DOMAIN v, i < j, IsQuery(v[i].kind)
                   PROVE  IsQuery(v[j].kind)
        BY DEF Ordered
      <3>1. i > at
        BY <1>2, <1>4, <2>3, <2>4
      <3>2. j > at
        BY <1>1, <1>2, <3>1
      <3> QED BY <2>2, <3>2
    <2>6. ASSUME c.kind = "repeat"
          PROVE  LastRepeat(v, c.arg)
      <3>1. \A j \in DOMAIN v : v[j].kind = "repeat" => ~(j > at)
        BY <2>2 DEF IsQuery
      <3>2. \A j \in DOMAIN v : v[j].kind = "repeat" => j <= at
        BY <1>1, <1>2, <3>1
      <3> QED BY <1>2, <2>6, <3>2 DEF LastRepeat
    <2> QED BY <2>5, <2>6 DEF v
  <1> QED BY <1>3, <1>4

Repeats(w, v) == (\A mode : LastRepeat(w, mode) => LastRepeat(v, mode)) /\ (NoRepeat(w) => NoRepeat(v))
ReadsStay(w, v) == \A i \in DOMAIN w : w[i].kind = "read" => \E k \in DOMAIN v : v[k] = w[i]

LEMMA RepeatsInserted ==
  ASSUME NEW w, IsSeq(w), NEW at \in 1 .. Len(w) + 1, NEW c
  PROVE  /\ c.kind # "repeat" => Repeats(w, InsertAt(w, at, c))
         /\ ReadsStay(w, InsertAt(w, at, c))
         /\ \E k \in DOMAIN InsertAt(w, at, c) : InsertAt(w, at, c)[k] = c
  <1> DEFINE v == InsertAt(w, at, c)
  <1>1. /\ at \in DOMAIN v /\ v[at] = c /\ DOMAIN v \subseteq Nat /\ DOMAIN w \subseteq Nat /\ at \in Nat
        /\ \A i \in DOMAIN v : i < at => i \in DOMAIN w /\ v[i] = w[i]
        /\ \A i \in DOMAIN v : i > at => i - 1 \in DOMAIN w /\ v[i] = w[i - 1]
        /\ \A i \in DOMAIN w : i < at => i \in DOMAIN v /\ v[i] = w[i]
        /\ \A i \in DOMAIN w : i >= at => i + 1 \in DOMAIN v /\ v[i + 1] = w[i]
    BY InsertedPlaces
  <1> HIDE DEF v
  <1>2. \A i \in DOMAIN v : i < at \/ i = at \/ i > at
    BY <1>1
  <1>3. ReadsStay(w, v)
    <2>1. \A i \in DOMAIN w : i < at \/ i >= at
      BY <1>1
    <2> QED BY <1>1, <2>1 DEF ReadsStay
  <1>4. ASSUME c.kind # "repeat", NEW mode, LastRepeat(w, mode)
        PROVE  LastRepeat(v, mode)
    <2>1. PICK i \in DOMAIN w : /\ w[i].kind = "repeat" /\ w[i].arg = mode
                                /\ \A j \in DOMAIN w : w[j].kind = "repeat" => j <= i
      BY <1>4 DEF LastRepeat
    <2> DEFINE m == IF i < at THEN i ELSE i + 1
    <2>2. m \in DOMAIN v /\ v[m] = w[i] /\ m \in Nat /\ i \in Nat
      BY <1>1
    <2>3. ASSUME NEW j \in DOMAIN v, v[j].kind = "repeat"
          PROVE  j <= m
      <3>1. CASE j < at
        <4>1. j \in DOMAIN w /\ j <= i
          BY <1>1, <2>1, <2>3, <3>1
        <4> QED BY <1>1, <2>2, <4>1
      <3>2. CASE j > at
        <4>1. j - 1 \in DOMAIN w /\ j - 1 <= i
          BY <1>1, <2>1, <2>3, <3>2
        <4> QED BY <1>1, <2>2, <3>2, <4>1
      <3>3. j # at
        BY <1>1, <1>4, <2>3
      <3> QED BY <1>2, <3>1, <3>2, <3>3
    <2> HIDE DEF m
    <2> QED BY <2>1, <2>2, <2>3 DEF LastRepeat
  <1>5. c.kind # "repeat" /\ NoRepeat(w) => NoRepeat(v)
    BY <1>1, <1>2 DEF NoRepeat
  <1> QED BY <1>1, <1>3, <1>4, <1>5 DEF Repeats, v

LEMMA QueueRemoved ==
  ASSUME NEW w, IsSeq(w), NEW k \in DOMAIN w, NEW v, Removed(w, v, k)
  PROVE  /\ Ordered(w) => Ordered(v)
         /\ w[k].kind # "repeat" => Repeats(w, v)
         /\ \A i \in DOMAIN w \ {k} : \E j \in DOMAIN v : v[j] = w[i]
         /\ \A j \in DOMAIN v : \E i \in DOMAIN w \ {k} : v[j] = w[i]
         /\ \A mode : LastRepeat(w, mode) => LastRepeat(v, mode) \/ (w[k].kind = "repeat" /\ w[k].arg = mode)
         /\ k = 1 /\ w[k].kind = "repeat" =>
              \A mode : LastRepeat(w, mode) => LastRepeat(v, mode) \/ (NoRepeat(v) /\ w[k].arg = mode)
  <1> DEFINE m(i) == IF i < k THEN i ELSE i + 1
  <1>1. /\ DOMAIN v \subseteq Nat /\ DOMAIN w \subseteq Nat \ {0} /\ k \in Nat
        /\ \A i \in DOMAIN v : m(i) \in DOMAIN w \ {k} /\ v[i] = w[m(i)]
        /\ \A j \in DOMAIN w \ {k} : \E i \in DOMAIN v : j = m(i)
    BY SeqFacts, RemovedElements
  <1>2. \A i, j \in DOMAIN v : i < j => m(i) < m(j)
    BY <1>1
  <1>3. \A i, j \in DOMAIN v : m(i) <= m(j) => i <= j
    BY <1>1
  <1> HIDE DEF m
  <1>4. Ordered(w) => Ordered(v)
    BY <1>1, <1>2 DEF Ordered
  <1>5. NoRepeat(w) => NoRepeat(v)
    BY <1>1 DEF NoRepeat
  <1>6. ASSUME NEW mode, NEW i \in DOMAIN w, w[i].kind = "repeat", w[i].arg = mode,
               \A j \in DOMAIN w : w[j].kind = "repeat" => j <= i, i # k
        PROVE  LastRepeat(v, mode)
    <2>1. PICK j \in DOMAIN v : i = m(j)
      BY <1>1, <1>6
    <2>2. v[j] = w[i]
      BY <1>1, <2>1
    <2>3. \A l \in DOMAIN v : v[l].kind = "repeat" => l <= j
      BY <1>1, <1>3, <1>6, <2>1
    <2> QED BY <1>6, <2>2, <2>3 DEF LastRepeat
  <1>7. \A mode : LastRepeat(w, mode) => LastRepeat(v, mode) \/ (w[k].kind = "repeat" /\ w[k].arg = mode)
    BY <1>6 DEF LastRepeat
  <1>8. ASSUME k = 1, w[k].kind = "repeat", NEW mode, LastRepeat(w, mode), ~LastRepeat(v, mode)
        PROVE  NoRepeat(v) /\ w[k].arg = mode
    <2>1. PICK i \in DOMAIN w : /\ w[i].kind = "repeat" /\ w[i].arg = mode
                                /\ \A j \in DOMAIN w : w[j].kind = "repeat" => j <= i
      BY <1>8 DEF LastRepeat
    <2>2. i = k
      BY <1>6, <1>8, <2>1
    <2>3. \A j \in DOMAIN w \ {k} : w[j].kind # "repeat"
      BY <1>1, <1>8, <2>1, <2>2
    <2> QED BY <1>1, <2>1, <2>2, <2>3 DEF NoRepeat
  <1>9. w[k].kind # "repeat" => Repeats(w, v)
    BY <1>5, <1>7 DEF Repeats
  <1> QED BY <1>1, <1>4, <1>7, <1>8, <1>9

-----------------------------------------------------------------------------
(* What is shown while commands are sent                                    *)

(* The reports b are left -- all of them, or all but the one that is being *)
(* delivered --, and commands are sent and cancelled.                      *)
Works(b) ==
  /\ token' = token /\ SameLink(ses') /\ server' = server /\ notice' = notice
  /\ touched' = touched /\ faults' = faults
  /\ ses'.next \in Nat /\ ses.next <= ses'.next
  /\ AddsResults(b, posted')
  /\ Ordered(ses.wire) => Ordered(ses'.wire)
  /\ ~ses.accepting => ses'.wire = ses.wire
  /\ ReadsStay(ses.wire, ses'.wire)

LEMMA ReadsStayTwice ==
  ASSUME NEW u, NEW v, NEW w, ReadsStay(u, v), ReadsStay(v, w)
  PROVE  ReadsStay(u, w)
  BY DEF ReadsStay

LEMMA EnqueuedWorks ==
  ASSUME TypeInv, NEW w, IsSeq(w), NEW b, IsSeq(b), NEW kind, NEW arg, NEW e, e = Enqueued(w, b, kind, arg)
  PROVE  /\ SameLink(e.ses) /\ e.ses.next = ses.next + 1
         /\ AddsResults(b, e.posted)
         /\ Ordered(w) => Ordered(e.ses.wire)
         /\ ~ses.accepting => e.ses.wire = w
         /\ ReadsStay(w, e.ses.wire)
         /\ kind # "repeat" => Repeats(w, e.ses.wire)
         /\ ses.accepting => e.posted = b /\ \E k \in DOMAIN e.ses.wire :
                                  e.ses.wire[k].id = ses.next /\ e.ses.wire[k].kind = kind
         /\ kind = "repeat" /\ ses.accepting /\ Ordered(w) => LastRepeat(e.ses.wire, arg)
         /\ kind = "repeat" /\ ~ses.accepting => RepeatRefused(e.posted)
  <1> DEFINE c == [id |-> ses.next, kind |-> kind, arg |-> arg]
             at == IF IsQuery(kind) THEN Len(w) + 1 ELSE FirstQuery(w)
             v == InsertAt(w, at, c)
  <1>1. c.id = ses.next /\ c.kind = kind /\ c.arg = arg
    OBVIOUS
  <1>2. at \in 1 .. Len(w) + 1
    BY FirstQueryIsPlace, SeqFacts
  <1>3. CASE ses.accepting
    <2>1. e = [ses |-> [ses EXCEPT !.next = @ + 1, !.wire = v], posted |-> b]
      BY <1>3 DEF Enqueued
    <2>2. at = IF IsQuery(c.kind) THEN Len(w) + 1 ELSE FirstQuery(w)
      BY <1>1
    <2> HIDE DEF c, at
    <2>3. (c.kind # "repeat" => Repeats(w, v)) /\ ReadsStay(w, v) /\ \E k \in DOMAIN v : v[k] = c
      BY <1>2, RepeatsInserted, ZenonT(60)
    <2>4. Ordered(w) => Ordered(v) /\ (c.kind = "repeat" => LastRepeat(v, c.arg))
      BY <2>2, OrderedInserted
    <2> HIDE DEF v
    <2>5. e.posted = b /\ e.ses.next = ses.next + 1 /\ e.ses.wire = v /\ SameLink(e.ses)
      <3> DEFINE s == [ses EXCEPT !.next = @ + 1, !.wire = v]
      <3>1. s.next = ses.next + 1 /\ s.wire = v /\ SameLink(s)
        BY DEF TypeInv, SameLink, Fresh
      <3> HIDE DEF s
      <3>2. e = [ses |-> s, posted |-> b]
        BY <2>1 DEF s
      <3> QED BY <3>1, <3>2
    <2>6. AddsResults(b, e.posted)
      BY <2>5, AddsNothing
    <2> QED BY <1>1, <1>3, <2>3, <2>4, <2>5, <2>6
  <1>4. CASE ~ses.accepting
    <2> DEFINE r == Result(token, c, FALSE, None)
    <2>1. e = [ses |-> [ses EXCEPT !.next = @ + 1, !.wire = w], posted |-> Append(b, r)]
      BY <1>4 DEF Enqueued
    <2>2. r.token = token /\ r.what = "result" /\ r.cmd = c /\ ~r.ok
      BY DEF Result
    <2> HIDE DEF c, at, r
    <2>3. e.posted = Append(b, r) /\ e.ses.next = ses.next + 1 /\ e.ses.wire = w /\ SameLink(e.ses)
      <3> DEFINE s == [ses EXCEPT !.next = @ + 1, !.wire = w]
      <3>1. s.next = ses.next + 1 /\ s.wire = w /\ SameLink(s)
        BY DEF TypeInv, SameLink, Fresh
      <3> HIDE DEF s
      <3>2. e = [ses |-> s, posted |-> Append(b, r)]
        BY <2>1 DEF s
      <3> QED BY <3>1, <3>2
    <2>4. AddsResults(b, e.posted)
      BY <1>4, <2>2, <2>3, AddsOne
    <2>5. ReadsStay(w, w) /\ Repeats(w, w)
      BY DEF ReadsStay, Repeats
    <2>6. kind = "repeat" => RepeatRefused(e.posted)
      <3>1. e.posted[Len(b) + 1] = r /\ Len(b) + 1 \in DOMAIN e.posted
        BY <2>3, AppendFacts, SeqFacts
      <3> QED BY <1>1, <2>2, <3>1 DEF RepeatRefused, Results
    <2> QED BY <1>4, <2>3, <2>4, <2>5, <2>6
  <1> QED BY <1>3, <1>4

LEMMA SubmitWorks ==
  ASSUME TypeInv, NEW kind, NEW arg, Submit(kind, arg), UNCHANGED <<token, server, notice, touched, faults>>
  PROVE  /\ Works(posted) /\ ses'.next = ses.next + 1
         /\ kind # "repeat" => Repeats(ses.wire, ses'.wire)
         /\ ses.accepting => \E k \in DOMAIN ses'.wire : ses'.wire[k].id = ses.next /\ ses'.wire[k].kind = kind
         /\ kind = "repeat" /\ ses.accepting /\ Ordered(ses.wire) => LastRepeat(ses'.wire, arg)
         /\ kind = "repeat" /\ ~ses.accepting => RepeatRefused(posted')
  <1> DEFINE e == Enqueued(ses.wire, posted, kind, arg)
  <1>1. ses' = e.ses /\ posted' = e.posted
    BY DEF Submit
  <1>2. IsSeq(ses.wire) /\ IsSeq(posted) /\ ses.next \in Nat
    BY DEF TypeInv
  <1> HIDE DEF e
  <1>3. /\ SameLink(e.ses) /\ e.ses.next = ses.next + 1
        /\ AddsResults(posted, e.posted)
        /\ Ordered(ses.wire) => Ordered(e.ses.wire)
        /\ ~ses.accepting => e.ses.wire = ses.wire
        /\ ReadsStay(ses.wire, e.ses.wire)
        /\ kind # "repeat" => Repeats(ses.wire, e.ses.wire)
        /\ ses.accepting => e.posted = posted /\ \E k \in DOMAIN e.ses.wire :
                                 e.ses.wire[k].id = ses.next /\ e.ses.wire[k].kind = kind
        /\ kind = "repeat" /\ ses.accepting /\ Ordered(ses.wire) => LastRepeat(e.ses.wire, arg)
        /\ kind = "repeat" /\ ~ses.accepting => RepeatRefused(e.posted)
    BY <1>2, EnqueuedWorks DEF e
  <1>4. Works(posted)
    BY <1>1, <1>2, <1>3 DEF Works
  <1>5. kind = "repeat" /\ ~ses.accepting => RepeatRefused(posted')
    BY <1>1, <1>3
  <1> QED BY <1>1, <1>3, <1>4, <1>5

LEMMA SearchForWorks ==
  ASSUME TypeInv, PlaceInv, SearchInv, SessionInv, NEW p, SearchFor(p), UNCHANGED <<token, server, notice, touched, faults>>
  PROVE  Works(posted) /\ Repeats(ses.wire, ses'.wire)
  <1> DEFINE id == ui.search
             wire == IF id = 0 THEN ses.wire ELSE Without(id)
             reports == IF id = 0 THEN posted ELSE Cancelled(id)
             arg == [text |-> p.field, page |-> 0]
             e == Enqueued(wire, reports, "search", arg)
  <1>1. IsSeq(ses.wire) /\ IsSeq(posted) /\ ses.next \in Nat /\ DOMAIN ses = DOMAIN Fresh
    BY DEF TypeInv
  <1>2. /\ IsSeq(wire) /\ AddsResults(posted, reports)
        /\ Ordered(ses.wire) => Ordered(wire)
        /\ Repeats(ses.wire, wire) /\ ReadsStay(ses.wire, wire)
        /\ ses.wire = <<>> => wire = ses.wire
    <2>1. CASE id # 0 /\ Waits(id)
      <3> DEFINE k == Place(id)
                 r == Result(token, ses.wire[k], FALSE, None)
      <3>1. k \in DOMAIN ses.wire /\ ses.wire[k].id = id
        BY <2>1 DEF Waits, Place
      <3>2. wire = RemoveAt(ses.wire, k) /\ reports = Append(posted, r)
        BY <2>1 DEF Without, Cancelled
      <3>3. r.token = token /\ r.what = "result" /\ r.cmd = ses.wire[k]
        BY DEF Result
      <3> HIDE DEF k, r
      <3>4. ses.wire[k].kind = "search"
        BY <2>1, <3>1 DEF SearchInv, Held
      <3>5. Removed(ses.wire, wire, k)
        BY <1>1, <3>1, <3>2, RemovedAt
      <3> HIDE DEF wire, reports
      <3>6. /\ Ordered(ses.wire) => Ordered(wire)
            /\ Repeats(ses.wire, wire)
            /\ \A i \in DOMAIN ses.wire \ {k} : \E j \in DOMAIN wire : wire[j] = ses.wire[i]
        BY <1>1, <3>1, <3>4, <3>5, QueueRemoved
      <3>7. ReadsStay(ses.wire, wire)
        BY <3>4, <3>6 DEF ReadsStay
      <3>8. AddsResults(posted, reports)
        BY <1>1, <3>2, <3>3, <3>4, AddsOne
      <3>9. ses.wire # <<>>
        BY <3>1, EmptyFacts
      <3> QED BY <3>5, <3>6, <3>7, <3>8, <3>9 DEF Removed
    <2>2. CASE ~(id # 0 /\ Waits(id))
      <3>1. wire = ses.wire /\ reports = posted
        BY <2>2 DEF Without, Cancelled
      <3> HIDE DEF wire, reports
      <3> QED BY <1>1, <3>1, AddsNothing DEF ReadsStay, Repeats
    <2> QED BY <2>1, <2>2
  <1>3. \/ ses' = [ses EXCEPT !.wire = wire] /\ posted' = reports
        \/ ses' = ses /\ posted' = posted
        \/ ses' = e.ses /\ posted' = e.posted
    BY DEF SearchFor
  <1> HIDE DEF wire, reports, arg
  <1>4. IsSeq(reports)
    BY <1>2 DEF AddsResults, Grown
  <1>5. /\ SameLink(e.ses) /\ e.ses.next = ses.next + 1
        /\ AddsResults(reports, e.posted)
        /\ Ordered(wire) => Ordered(e.ses.wire)
        /\ ~ses.accepting => e.ses.wire = wire
        /\ ReadsStay(wire, e.ses.wire)
        /\ Repeats(wire, e.ses.wire)
    <2> HIDE DEF id
    <2>1. "search" # "repeat"
      OBVIOUS
    <2> QED BY <1>2, <1>4, <2>1, EnqueuedWorks
  <1> HIDE DEF e
  <1>6. CASE ses' = [ses EXCEPT !.wire = wire] /\ posted' = reports
    <2>1. SameLink(ses') /\ ses'.wire = wire /\ ses'.next = ses.next
      BY <1>1, <1>6 DEF SameLink, Fresh
    <2>2. ~ses.accepting => ses'.wire = ses.wire
      BY <1>2, <2>1 DEF SessionInv
    <2> QED BY <1>1, <1>2, <1>6, <2>1, <2>2 DEF Works
  <1>7. CASE ses' = ses /\ posted' = posted
    <2>1. SameLink(ses')
      BY <1>1, <1>7 DEF SameLink
    <2>2. AddsResults(posted, posted')
      BY <1>1, <1>7, AddsNothing
    <2> QED BY <1>1, <1>7, <2>1, <2>2 DEF Works, ReadsStay, Repeats
  <1>8. CASE ses' = e.ses /\ posted' = e.posted
    <2>1. AddsResults(posted, posted')
      BY <1>2, <1>5, <1>8, AddsTwice
    <2>2. ReadsStay(ses.wire, ses'.wire)
      BY <1>2, <1>5, <1>8, ReadsStayTwice
    <2>3. Repeats(ses.wire, ses'.wire)
      BY <1>2, <1>5, <1>8 DEF Repeats
    <2>4. ~ses.accepting => ses'.wire = ses.wire
      BY <1>2, <1>5, <1>8 DEF SessionInv
    <2>5. SameLink(ses') /\ ses'.next \in Nat /\ ses.next <= ses'.next
          /\ (Ordered(ses.wire) => Ordered(ses'.wire))
      BY <1>1, <1>2, <1>5, <1>8
    <2> QED BY <2>1, <2>2, <2>3, <2>4, <2>5 DEF Works
  <1> QED BY <1>3, <1>6, <1>7, <1>8

LEMMA WorksSession ==
  ASSUME SessionInv, NEW b, Works(b)
  PROVE  SessionInv'
  BY DEF SessionInv, Works, SameLink

LEMMA WorksView ==
  ASSUME NEW b, NEW u, ViewOK(b, u), Works(b), ui' = u
  PROVE  ViewInv'
  <1>1. AddsResults(b, posted') /\ token' = token /\ server' = server /\ notice' = notice
        /\ ses'.linked = ses.linked /\ ses'.refresh = ses.refresh /\ ses'.generation = ses.generation
    BY DEF Works, SameLink
  <1>2. /\ Views(posted', token') = Views(b, token) /\ Views(b, token) \subseteq DOMAIN b
        /\ \A i \in DOMAIN b : posted'[i] = b[i] /\ i \in DOMAIN posted'
    BY <1>1, ViewsStay
  <1> DEFINE V == Views(b, token)
  <1>3. \A i : LastOf(V, i) => i \in V
    BY DEF LastOf
  <1> HIDE DEF V
  <1>4. /\ u.generation \in Nat /\ u.generation <= ses.generation
        /\ \A i \in V : b[i].generation \in Nat /\ b[i].generation <= ses.generation
        /\ u.optimisticPlay # None => u.timer
    BY DEF ViewOK, V
  <1>5. ses.linked /\ ~ses.refresh =>
          /\ \A i \in DOMAIN b : LastOf(V, i) =>
               /\ b[i].what = "snapshot" /\ b[i].generation = ses.generation
               /\ notice = {} => Agrees(b[i].seen, server)
          /\ V = {} => u.connected /\ (notice = {} => Agrees(u, server))
    BY DEF ViewOK, V
  <1>6. V \subseteq DOMAIN b /\ Views(posted', token') = V
    BY <1>2 DEF V
  <1>7. \A i \in DOMAIN posted' : LastOf(V, i) => i \in DOMAIN b /\ posted'[i] = b[i]
    BY <1>2, <1>3, <1>6
  <1>8. \A i \in V : posted'[i] = b[i]
    BY <1>2, <1>6
  <1> QED BY <1>1, <1>4, <1>5, <1>6, <1>7, <1>8 DEF ViewInv, ViewOK, Agrees

LEMMA WorksRepeat ==
  ASSUME NEW b, NEW u, RepeatOK(ses.wire, b, u), Works(b), ui' = u, Repeats(ses.wire, ses'.wire)
  PROVE  RepeatInv'
  <1>1. AddsResults(b, posted') /\ token' = token /\ server' = server /\ touched' = touched
        /\ ses'.linked = ses.linked /\ ses'.refresh = ses.refresh
    BY DEF Works, SameLink
  <1>2. /\ Views(posted', token') = Views(b, token) /\ Views(b, token) \subseteq DOMAIN b
        /\ \A i \in DOMAIN b : posted'[i] = b[i] /\ i \in DOMAIN posted'
    BY <1>1, ViewsStay
  <1>3. RepeatRefused(b) => RepeatRefused(posted)'
    <2>1. Grown(b, posted') /\ Results(b, token) \subseteq DOMAIN b
      BY <1>1 DEF AddsResults, Results
    <2>2. Results(b, token) \subseteq Results(posted', token)
      BY <2>1, ResultsGrown
    <2> QED BY <1>1, <1>2, <2>1, <2>2 DEF RepeatRefused
  <1>4. \A mode : RepeatDone(b, mode) => RepeatDone(posted, mode)'
    BY <1>1, <1>2 DEF RepeatDone
  <1> QED BY <1>1, <1>3, <1>4 DEF RepeatInv, RepeatOK, Repeats

LEMMA WorksCalm ==
  ASSUME faults \in Nat, NEW b, NEW u, NEW t, CalmOK(b, u, t), Works(b), ui' = u, tab' = t
  PROVE  CalmInv'
  <1>1. AddsResults(b, posted') /\ token' = token /\ faults' = faults
        /\ ses'.linked = ses.linked /\ ses'.accepting = ses.accepting
    BY DEF Works, SameLink
  <1>2. Views(posted', token') = Views(b, token)
        /\ \A i \in DOMAIN b : posted'[i] = b[i] /\ i \in DOMAIN posted'
    BY <1>1, ViewsStay
  <1>3. \A i \in DOMAIN posted' : i \in DOMAIN b \/ posted'[i].what = "result"
    <2>1. DOMAIN posted' = DOMAIN b \cup New(b, posted')
      BY <1>1, GrownFacts DEF AddsResults
    <2> QED BY <1>1, <2>1 DEF AddsResults
  <1>4. \A i \in DOMAIN posted' : StateAt(posted, i)' => i \in DOMAIN b /\ StateAt(b, i)
    BY <1>1, <1>2, <1>3 DEF StateAt
  <1>5. \A i \in DOMAIN posted' : SnapshotAt(posted, i)' => i \in DOMAIN b /\ SnapshotAt(b, i)
    BY <1>1, <1>2, <1>3 DEF SnapshotAt
  <1>6. Calm' <=> Calm
    BY <1>1 DEF Calm
  <1>7. CalmOK(posted, ui, tab)'
    BY <1>1, <1>2, <1>4, <1>5, <1>6 DEF CalmOK
  <1> QED BY <1>1, <1>7 DEF CalmInv

LEMMA WorksTab ==
  ASSUME NEW b, NEW u, NEW t, CalmOK(b, u, t), TabOK(ses.wire, b, u, t, soon'), Works(b), ui' = u, tab' = t
  PROVE  TabInv'
  <1>1. AddsResults(b, posted') /\ token' = token /\ faults' = faults /\ server' = server /\ notice' = notice
        /\ ReadsStay(ses.wire, ses'.wire)
    BY DEF Works
  <1>2. SUFFICES ASSUME Calm, t.open
                 PROVE  CatchesUp(ses.wire, posted, ui, tab, soon)'
    BY <1>1 DEF TabInv, TabOK, Calm
  <1>3. ses.accepting
    BY <1>2 DEF CalmOK
  <1>4. CatchesUp(ses.wire, b, u, t, soon')
    BY <1>2 DEF TabOK
  <1>5. DOMAIN posted' = DOMAIN b \cup New(b, posted') /\ (\A i \in DOMAIN b : posted'[i] = b[i])
        /\ \A i \in New(b, posted') : posted'[i].what = "result" /\ posted'[i].cmd.kind = "search"
    BY <1>1, <1>3, GrownFacts DEF AddsResults
  <1>6. Rereads(posted, ui)' = Rereads(b, u)
    BY <1>1, <1>5 DEF Rereads, Results
  <1>7. \A i : LastOf(Rereads(b, u), i) => i \in DOMAIN b
    BY DEF LastOf, Rereads, Results
  <1>8. (\E i \in DOMAIN ses.wire : ses.wire[i].kind = "read" /\ ses.wire[i].id \in u.reading)
          => (\E i \in DOMAIN ses.wire : ses.wire[i].kind = "read" /\ ses.wire[i].id \in ui.reading)'
    BY <1>1 DEF ReadsStay
  <1>9. (\E i \in DOMAIN b : b[i].token = token /\ b[i].what = "notice")
          => (\E i \in DOMAIN posted : posted[i].token = token /\ posted[i].what = "notice")'
    BY <1>1, <1>5
  <1>10. /\ \A i \in DOMAIN b : LastOf(Rereads(b, u), i) => b[i].ok /\ b[i].answer = server.list
         /\ Rereads(b, u) = {} => t.shows = server.list
         => (/\ \A i \in DOMAIN posted : LastOf(Rereads(posted, ui), i) => posted[i].ok /\ posted[i].answer = server.list
             /\ Rereads(posted, ui) = {} => tab.shows = server.list)'
    BY <1>1, <1>5, <1>6, <1>7
  <1> QED BY <1>1, <1>4, <1>8, <1>9, <1>10 DEF CatchesUp

-----------------------------------------------------------------------------
(* What the user does                                                       *)

Shown == SessionInv /\ ViewInv /\ RepeatInv /\ CalmInv /\ ReadInv /\ TabInv

(* What the members show of the server and of the link, and the playlists  *)
(* they ask for.                                                           *)
SameServer(u, v) ==
  /\ v.generation = u.generation /\ v.connected = u.connected
  /\ v.repeat = u.repeat /\ v.play = u.play /\ v.queue = u.queue
SameShown(u, v) == SameServer(u, v) /\ v.reading = u.reading

LEMMA IdleWorks ==
  ASSUME TypeInv, UNCHANGED <<ses, posted, token, server, notice, touched, faults>>
  PROVE  Works(posted) /\ Repeats(ses.wire, ses'.wire)
  <1>1. IsSeq(posted) /\ ses.next \in Nat /\ DOMAIN ses = DOMAIN Fresh
    BY DEF TypeInv
  <1>2. AddsResults(posted, posted')
    BY <1>1, AddsNothing
  <1>3. SameLink(ses')
    BY <1>1 DEF SameLink
  <1> QED BY <1>1, <1>2, <1>3 DEF Works, ReadsStay, Repeats

LEMMA ReadStays ==
  ASSUME ReadInv, server'.list = server.list, ses'.next \in Nat, ses.next \in Nat, ses.next <= ses'.next,
         ui'.reading \subseteq ui.reading \cup {ses.next}, ui'.reading \subseteq ui.reading \/ ses'.next = ses.next + 1
  PROVE  ReadInv'
  <1>1. server'.list \in Nat
    BY DEF ReadInv
  <1>2. ASSUME NEW id \in ui'.reading
        PROVE  id \in Nat /\ id < ses'.next
    <2>1. CASE id \in ui.reading
      <3>1. id \in Nat /\ id < ses.next
        BY <2>1 DEF ReadInv
      <3> QED BY <3>1
    <2>2. CASE id \notin ui.reading
      <3>1. id = ses.next /\ ses'.next = ses.next + 1
        BY <1>2, <2>2
      <3> QED BY <3>1
    <2> QED BY <2>1, <2>2
  <1> QED BY <1>1, <1>2 DEF ReadInv

(* Members that show the same of the server are as good, as long as a      *)
(* presumed playback state has its timer.                                  *)
LEMMA SameView ==
  ASSUME NEW p, NEW u, NEW v, ViewOK(p, u), SameShown(u, v), v.optimisticPlay # None => v.timer
  PROVE  ViewOK(p, v)
  <1>1. v.generation = u.generation /\ v.connected = u.connected
        /\ \A s : Agrees(u, s) <=> Agrees(v, s)
    BY DEF SameShown, SameServer, Agrees
  <1> QED BY <1>1 DEF ViewOK

LEMMA SameCalm ==
  ASSUME NEW p, NEW u, NEW v, NEW t, CalmOK(p, u, t), v.connected = u.connected
  PROVE  CalmOK(p, v, t)
  BY DEF CalmOK

LEMMA SameTab ==
  ASSUME NEW w, NEW p, NEW u, NEW v, NEW t, NEW due, TabOK(w, p, u, t, due), v.reading = u.reading
  PROVE  TabOK(w, p, v, t, due)
  BY DEF TabOK, CatchesUp, Rereads

(* Commands are sent or cancelled, and what is shown stays. *)
LEMMA ShownWhileWorking ==
  ASSUME TypeInv, Shown, Works(posted), Repeats(ses.wire, ses'.wire), SameShown(ui, ui'),
         ui'.optimisticRepeat \in {ui.optimisticRepeat, None},
         ui'.optimisticPlay # None => ui'.timer, UNCHANGED <<tab, soon>>
  PROVE  Shown'
  <1>1. SessionInv /\ ViewOK(posted, ui) /\ RepeatOK(ses.wire, posted, ui) /\ faults \in Nat
        /\ CalmOK(posted, ui, tab) /\ TabOK(ses.wire, posted, ui, tab, soon') /\ ReadInv
    BY DEF Shown, ViewInv, RepeatInv, CalmInv, TabInv
  <1>2. ui'.connected = ui.connected /\ ui'.reading = ui.reading
    BY DEF SameShown, SameServer
  <1>3. SessionInv'
    BY <1>1, WorksSession
  <1>4. ViewInv'
    <2>1. ViewOK(posted, ui')
      BY <1>1, SameView
    <2> QED BY <2>1, WorksView
  <1>5. RepeatInv'
    <2>1. RepeatOK(ses.wire, posted, ui')
      BY <1>1 DEF RepeatOK
    <2> QED BY <2>1, WorksRepeat
  <1>6. CalmOK(posted, ui', tab)
    BY <1>1, <1>2, SameCalm
  <1>7. CalmInv'
    BY <1>1, <1>6, WorksCalm
  <1>8. TabInv'
    <2>1. TabOK(ses.wire, posted, ui', tab, soon')
      BY <1>1, <1>2, SameTab
    <2> QED BY <1>6, <2>1, WorksTab
  <1>9. ReadInv'
    <2>1. server' = server /\ ses'.next \in Nat /\ ses.next <= ses'.next /\ ses.next \in Nat
      BY DEF Works, TypeInv
    <2> QED BY <1>1, <1>2, <2>1, ReadStays
  <1> QED BY <1>3, <1>4, <1>5, <1>7, <1>8, <1>9 DEF Shown

(* The members but for those of the searches and questions. *)
LEMMA ShownWhileAsking ==
  ASSUME TypeInv, Shown, Works(posted), Repeats(ses.wire, ses'.wire), SameShown(ui, ui'),
         ui'.optimisticRepeat = ui.optimisticRepeat, ui'.optimisticPlay = ui.optimisticPlay,
         ui'.timer = ui.timer, UNCHANGED <<tab, soon>>
  PROVE  Shown'
  <1>1. ui.optimisticPlay # None => ui.timer
    BY DEF Shown, ViewInv, ViewOK
  <1> QED BY <1>1, ShownWhileWorking

LEMMA AskShown ==
  ASSUME TypeInv, Shown, Ask
  PROVE  Shown'
  <1>1. UNCHANGED <<token, server, notice, touched, faults, tab, soon>>
    BY DEF Ask, Aside
  <1>2. CASE ui.connected
    <2>1. SameShown(ui, ui') /\ ui'.optimisticRepeat = ui.optimisticRepeat
          /\ ui'.optimisticPlay = ui.optimisticPlay /\ ui'.timer = ui.timer
      BY <1>2 DEF Ask, TypeInv, Cleared, SameShown, SameServer
    <2>2. Submit("ask", Len(heard) + 1)
      BY <1>2 DEF Ask
    <2>3. Works(posted) /\ Repeats(ses.wire, ses'.wire)
      BY <1>1, <2>2, SubmitWorks
    <2> QED BY <1>1, <2>1, <2>3, ShownWhileAsking
  <1>3. CASE ~ui.connected
    <2>1. UNCHANGED <<ses, posted, ui>>
      BY <1>3 DEF Ask
    <2>2. Works(posted) /\ Repeats(ses.wire, ses'.wire)
      BY <1>1, <2>1, IdleWorks
    <2> QED BY <1>1, <2>1, <2>2, ShownWhileAsking DEF SameShown, SameServer
  <1> QED BY <1>2, <1>3

LEMMA SearchForShown ==
  ASSUME TypeInv, PlaceInv, SearchInv, Shown, NEW p, SearchFor(p),
         UNCHANGED <<token, server, notice, touched, faults, tab, soon>>
  PROVE  Shown'
  <1>1. SameShown(ui, ui') /\ ui'.optimisticRepeat = ui.optimisticRepeat
        /\ ui'.optimisticPlay = ui.optimisticPlay /\ ui'.timer = ui.timer
    <2>1. SameServer(ui, ui') /\ ui'.reading = ui.reading
      BY ZenonT(60) DEF SearchFor, TypeInv, Cleared, SameServer
    <2>2. ui'.optimisticRepeat = ui.optimisticRepeat /\ ui'.optimisticPlay = ui.optimisticPlay
          /\ ui'.timer = ui.timer
      BY ZenonT(60) DEF SearchFor, TypeInv, Cleared
    <2> QED BY <2>1, <2>2 DEF SameShown
  <1>2. Works(posted) /\ Repeats(ses.wire, ses'.wire)
    BY SearchForWorks DEF Shown
  <1> QED BY <1>1, <1>2, ShownWhileAsking

LEMMA EnterShown ==
  ASSUME TypeInv, PlaceInv, SearchInv, Shown, Enter
  PROVE  Shown'
  <1>1. UNCHANGED <<token, server, notice, touched, faults, tab, soon>>
    BY DEF Enter
  <1>2. (\E p : SearchFor(p)) \/ UNCHANGED <<ui, ses, posted>>
    BY DEF Enter
  <1>3. CASE \E p : SearchFor(p)
    BY <1>1, <1>3, SearchForShown
  <1>4. CASE UNCHANGED <<ui, ses, posted>>
    <2>1. Works(posted) /\ Repeats(ses.wire, ses'.wire)
      BY <1>1, <1>4, IdleWorks
    <2> QED BY <1>1, <1>4, <2>1, ShownWhileAsking DEF SameShown, SameServer
  <1> QED BY <1>2, <1>3, <1>4

LEMMA SearchTimerShown ==
  ASSUME TypeInv, PlaceInv, SearchInv, Shown, SearchTimer
  PROVE  Shown'
  BY SearchForShown DEF SearchTimer, tally

LEMMA MoreShown ==
  ASSUME TypeInv, Shown, More
  PROVE  Shown'
  <1>1. UNCHANGED <<token, server, notice, touched, faults, tab, soon>>
    BY DEF More
  <1>2. SameShown(ui, ui') /\ ui'.optimisticRepeat = ui.optimisticRepeat
        /\ ui'.optimisticPlay = ui.optimisticPlay /\ ui'.timer = ui.timer
    BY DEF More, TypeInv, Cleared, SameShown, SameServer
  <1>3. Works(posted) /\ Repeats(ses.wire, ses'.wire)
    <2>1. Submit("search", [text |-> ui.last, page |-> Len(ui.rows)])
      BY DEF More
    <2> DEFINE arg == [text |-> ui.last, page |-> Len(ui.rows)]
    <2> HIDE DEF arg
    <2>2. Submit("search", arg)
      BY <2>1 DEF arg
    <2> QED BY <1>1, <2>2, SubmitWorks
  <1> QED BY <1>1, <1>2, <1>3, ShownWhileAsking

LEMMA EditPlaylistShown ==
  ASSUME TypeInv, Shown, EditPlaylist
  PROVE  Shown'
  <1>1. UNCHANGED <<token, server, notice, touched, faults, tab, soon>> /\ Submit("edit", None)
    BY DEF EditPlaylist, Aside
  <1>2. SameShown(ui, ui') /\ ui'.optimisticRepeat = ui.optimisticRepeat
        /\ ui'.optimisticPlay = ui.optimisticPlay /\ ui'.timer = ui.timer
    BY DEF EditPlaylist, TypeInv, Cleared, SameShown, SameServer
  <1>3. Works(posted) /\ Repeats(ses.wire, ses'.wire)
    BY <1>1, SubmitWorks
  <1> QED BY <1>1, <1>2, <1>3, ShownWhileAsking

LEMMA TransportShown ==
  ASSUME TypeInv, Shown, NEW state, Transport(state)
  PROVE  Shown'
  <1>1. UNCHANGED <<token, server, notice, touched, faults, tab, soon>> /\ Submit("transport", state)
    BY DEF Transport, Aside
  <1>2. SameShown(ui, ui') /\ ui'.optimisticRepeat = ui.optimisticRepeat /\ ui'.timer
    BY DEF Transport, TypeInv, Cleared, SameShown, SameServer
  <1>3. Works(posted) /\ Repeats(ses.wire, ses'.wire)
    BY <1>1, SubmitWorks
  <1> QED BY <1>1, <1>2, <1>3, ShownWhileWorking

LEMMA QueueEditShown ==
  ASSUME TypeInv, Shown, NEW kind \in {"delete", "clear", "drag"}, NEW arg, Submit(kind, arg),
         UNCHANGED <<token, server, notice, touched, faults, tab, soon, ui>>
  PROVE  Shown'
  <1>1. Works(posted) /\ Repeats(ses.wire, ses'.wire)
    BY SubmitWorks
  <1> QED BY <1>1, ShownWhileAsking DEF SameShown, SameServer

LEMMA QuietShown ==
  ASSUME TypeInv, Shown, UNCHANGED <<ses, posted, token, server, notice, touched, faults, tab, soon>>,
         SameShown(ui, ui'), ui'.optimisticRepeat = ui.optimisticRepeat,
         ui'.optimisticPlay # None => ui'.timer
  PROVE  Shown'
  <1>1. Works(posted) /\ Repeats(ses.wire, ses'.wire)
    BY IdleWorks
  <1> QED BY <1>1, ShownWhileWorking

LEMMA ConfirmationTimerShown ==
  ASSUME TypeInv, Shown, ConfirmationTimer
  PROVE  Shown'
  <1>1. SameShown(ui, ui') /\ ui'.optimisticRepeat = ui.optimisticRepeat /\ ui'.optimisticPlay = None
    BY DEF ConfirmationTimer, TypeInv, Cleared, SameShown, SameServer
  <1>2. UNCHANGED <<ses, posted, token, server, notice, touched, faults, tab, soon>>
    BY DEF ConfirmationTimer, tally
  <1> QED BY <1>1, <1>2, QuietShown

(* A repeat mode is presumed: its command goes behind every other one, or  *)
(* it is refused and none is left.                                         *)
LEMMA SetRepeatShown ==
  ASSUME TypeInv, Shown, NEW mode, SetRepeat(mode)
  PROVE  Shown'
  <1>1. UNCHANGED <<token, server, notice, touched, faults, tab, soon>> /\ Submit("repeat", mode)
    BY DEF SetRepeat, Aside
  <1>2. SameShown(ui, ui') /\ ui'.optimisticPlay = ui.optimisticPlay /\ ui'.timer = ui.timer
        /\ ui'.optimisticRepeat = mode
    BY DEF SetRepeat, TypeInv, Cleared, SameShown, SameServer
  <1>3. SessionInv /\ ViewOK(posted, ui) /\ faults \in Nat
        /\ CalmOK(posted, ui, tab) /\ TabOK(ses.wire, posted, ui, tab, soon') /\ ReadInv
    BY <1>1 DEF Shown, ViewInv, CalmInv, TabInv
  <1>4. /\ Works(posted)
        /\ ses.accepting /\ Ordered(ses.wire) => LastRepeat(ses'.wire, mode)
        /\ ~ses.accepting => RepeatRefused(posted')
    BY <1>1, SubmitWorks
  <1>5. SessionInv'
    BY <1>3, <1>4, WorksSession
  <1>6. ViewInv'
    <2>1. ui'.optimisticPlay # None => ui'.timer
      BY <1>2, <1>3 DEF ViewOK
    <2>2. ViewOK(posted, ui')
      BY <1>2, <1>3, <2>1, SameView
    <2> QED BY <1>4, <2>2, WorksView
  <1>7. RepeatInv'
    <2>1. CASE ses.accepting
      BY <1>2, <1>3, <1>4, <2>1 DEF SessionInv, RepeatInv, RepeatOK
    <2>2. CASE ~ses.accepting
      <3>1. ses'.wire = <<>> /\ RepeatRefused(posted')
        BY <1>3, <1>4, <2>2 DEF SessionInv, Works
      <3>2. NoRepeat(ses'.wire)
        BY <3>1, EmptyFacts DEF NoRepeat
      <3>3. RepeatRefused(posted)'
        BY <1>1, <3>1 DEF RepeatRefused, Results
      <3> QED BY <3>2, <3>3 DEF RepeatInv, RepeatOK
    <2> QED BY <2>1, <2>2
  <1>8. ui'.connected = ui.connected /\ ui'.reading = ui.reading
    BY <1>2 DEF SameShown, SameServer
  <1>9. CalmOK(posted, ui', tab)
    BY <1>3, <1>8, SameCalm
  <1>10. CalmInv'
    BY <1>1, <1>3, <1>4, <1>9, WorksCalm
  <1>11. TabInv'
    <2>1. TabOK(ses.wire, posted, ui', tab, soon')
      BY <1>3, <1>8, SameTab
    <2> QED BY <1>1, <1>4, <1>9, <2>1, WorksTab
  <1>12. ReadInv'
    <2>1. server' = server /\ ses'.next \in Nat /\ ses.next <= ses'.next /\ ses.next \in Nat
      BY <1>4 DEF Works, TypeInv
    <2> QED BY <1>3, <1>8, <2>1, ReadStays
  <1> QED BY <1>5, <1>6, <1>7, <1>10, <1>11, <1>12 DEF Shown

(* The tab is read again: as long as nothing fails the connection accepts  *)
(* the command.                                                            *)
LEMMA ReadAgainShown ==
  ASSUME TypeInv, Shown, Submit("read", None), ui' = [ui EXCEPT !.reading = @ \cup {NewId}],
         UNCHANGED <<token, server, notice, touched, faults>>, ui.connected
  PROVE  Shown'
  <1>1. SessionInv /\ ViewOK(posted, ui) /\ RepeatOK(ses.wire, posted, ui) /\ faults \in Nat
        /\ CalmOK(posted, ui, tab) /\ ReadInv
    BY DEF Shown, ViewInv, CalmInv, RepeatInv
  <1>2. /\ ui'.generation = ui.generation /\ ui'.connected = ui.connected
        /\ ui'.repeat = ui.repeat /\ ui'.play = ui.play /\ ui'.queue = ui.queue
        /\ ui'.optimisticRepeat = ui.optimisticRepeat
        /\ ui'.optimisticPlay = ui.optimisticPlay /\ ui'.timer = ui.timer
        /\ ui'.reading = ui.reading \cup {ses.next}
    BY DEF TypeInv, Cleared, NewId
  <1>3. /\ Works(posted) /\ Repeats(ses.wire, ses'.wire) /\ ses'.next = ses.next + 1
        /\ ses.accepting => \E k \in DOMAIN ses'.wire : ses'.wire[k].id = ses.next /\ ses'.wire[k].kind = "read"
    BY SubmitWorks
  <1>4. SessionInv'
    BY <1>1, <1>3, WorksSession
  <1>5. ViewInv'
    <2>1. ViewOK(posted, ui')
      <3>1. \A s : Agrees(ui, s) <=> Agrees(ui', s)
        BY <1>2 DEF Agrees
      <3> QED BY <1>1, <1>2, <3>1 DEF ViewOK
    <2> QED BY <1>3, <2>1, WorksView
  <1>6. RepeatInv'
    <2>1. RepeatOK(ses.wire, posted, ui')
      BY <1>1, <1>2 DEF RepeatOK
    <2> QED BY <1>3, <2>1, WorksRepeat
  <1>7. CalmOK(posted, ui', tab')
    BY <1>1, <1>2 DEF CalmOK
  <1>8. CalmInv'
    BY <1>1, <1>3, <1>7, WorksCalm
  <1>9. TabInv'
    <2>1. SUFFICES ASSUME Calm
                   PROVE  CatchesUp(ses.wire, posted, ui, tab, soon)'
      BY DEF TabInv, TabOK, Calm
    <2>2. ses.accepting
      BY <1>1, <2>1 DEF CalmOK
    <2> QED BY <1>2, <1>3, <2>2 DEF CatchesUp
  <1>10. ReadInv'
    <2>1. server' = server /\ ses.next \in Nat /\ ses'.next \in Nat
      BY <1>3 DEF TypeInv
    <2>2. ses.next <= ses'.next
      BY <1>3, <2>1
    <2>3. ui'.reading \subseteq ui.reading \cup {ses.next}
      BY <1>2
    <2> QED BY <1>1, <1>3, <2>1, <2>2, <2>3, ReadStays
  <1> QED BY <1>4, <1>5, <1>6, <1>8, <1>9, <1>10 DEF Shown

LEMMA OpenTabShown ==
  ASSUME TypeInv, Shown, OpenTab
  PROVE  Shown'
  BY ReadAgainShown DEF OpenTab

LEMMA RereadTimerShown ==
  ASSUME TypeInv, Shown, RereadTimer
  PROVE  Shown'
  <1>1. UNCHANGED <<token, server, notice, touched, faults, tab>>
    BY DEF RereadTimer, tally
  <1>2. CASE ui.connected /\ tab.open
    <2>1. Submit("read", None) /\ ui' = [ui EXCEPT !.reading = @ \cup {NewId}]
      BY <1>2 DEF RereadTimer
    <2> QED BY <1>1, <1>2, <2>1, ReadAgainShown
  <1>3. CASE ~(ui.connected /\ tab.open)
    <2>1. UNCHANGED <<ui, ses, posted>>
      BY <1>3 DEF RereadTimer
    <2>2. CalmOK(posted, ui, tab)
      BY DEF Shown, CalmInv
    <2>3. TabInv'
      BY <1>1, <1>3, <2>1, <2>2 DEF TabInv, TabOK, CalmOK, Calm
    <2>4. SessionInv' /\ ViewInv' /\ RepeatInv' /\ CalmInv' /\ ReadInv'
      <3>1. SessionInv /\ ViewInv /\ RepeatInv /\ CalmInv /\ ReadInv
        BY DEF Shown
      <3>2. Works(posted) /\ Repeats(ses.wire, ses'.wire)
        BY <1>1, <2>1, IdleWorks
      <3>3. ViewOK(posted, ui) /\ RepeatOK(ses.wire, posted, ui) /\ faults \in Nat
        BY <3>1 DEF ViewInv, RepeatInv, CalmInv
      <3>4. SessionInv' /\ ViewInv' /\ RepeatInv' /\ CalmInv'
        BY <1>1, <2>1, <2>2, <3>1, <3>2, <3>3, WorksSession, WorksView, WorksRepeat, WorksCalm
      <3>5. ReadInv'
        BY <1>1, <2>1, <3>1 DEF ReadInv
      <3> QED BY <3>4, <3>5
    <2> QED BY <2>3, <2>4 DEF Shown
  <1> QED BY <1>2, <1>3

-----------------------------------------------------------------------------
(* The oldest report is delivered                                           *)

(* The reports that are left, under a name the provers do not expand. *)
Rest(p) == Tail(p)

LEMMA DeliveredWorks ==
  ASSUME TypeInv, posted # <<>>, Delivered, UNCHANGED <<ses, token, server, notice, touched, faults>>
  PROVE  Works(Rest(posted)) /\ Repeats(ses.wire, ses'.wire)
  <1>1. IsSeq(posted) /\ ses.next \in Nat /\ DOMAIN ses = DOMAIN Fresh
    BY DEF TypeInv
  <1>2. IsSeq(Rest(posted)) /\ posted' = Rest(posted)
    BY <1>1, TailFacts DEF Delivered, Rest
  <1>3. AddsResults(Rest(posted), posted')
    BY <1>2, AddsNothing
  <1>4. SameLink(ses')
    BY <1>1 DEF SameLink
  <1> QED BY <1>1, <1>3, <1>4 DEF Works, ReadsStay, Repeats

LEMMA TailedShifts ==
  ASSUME NEW p, IsSeq(p), p # <<>>
  PROVE  /\ DOMAIN p \subseteq Nat \ {0} /\ DOMAIN Rest(p) \subseteq Nat \ {0} /\ 1 \in DOMAIN p
         /\ Head(p) = p[1] /\ IsSeq(Rest(p))
         /\ \A i \in DOMAIN Rest(p) : i + 1 \in DOMAIN p /\ Rest(p)[i] = p[i + 1]
         /\ \A i \in DOMAIN p \ {1} : i - 1 \in DOMAIN Rest(p) /\ Rest(p)[i - 1] = p[i]
  <1> DEFINE T == Tail(p)
  <1>1. /\ DOMAIN p \subseteq Nat \ {0} /\ DOMAIN T \subseteq Nat \ {0} /\ 1 \in DOMAIN p
        /\ Head(p) = p[1]
        /\ \A i \in DOMAIN T : i + 1 \in DOMAIN p /\ T[i] = p[i + 1]
        /\ \A i \in DOMAIN p \ {1} : i - 1 \in DOMAIN T /\ T[i - 1] = p[i]
    BY TailShifts
  <1>2. IsSeq(T)
    BY TailFacts
  <1> HIDE DEF T
  <1>3. Rest(p) = T
    BY DEF T, Rest
  <1> QED BY <1>1, <1>2, <1>3

LEMMA TailedResults ==
  ASSUME NEW p, IsSeq(p), p # <<>>, NEW of
  PROVE  /\ \A i \in Results(Rest(p), of) : i + 1 \in Results(p, of) \ {1} /\ Rest(p)[i] = p[i + 1]
         /\ \A i \in Results(p, of) \ {1} : i - 1 \in Results(Rest(p), of) /\ Rest(p)[i - 1] = p[i]
         /\ Head(p) = p[1]
         /\ 1 \in Results(p, of) <=> Head(p).token = of /\ Head(p).what = "result"
  <1> DEFINE q == Rest(p)
  <1>1. /\ DOMAIN p \subseteq Nat \ {0} /\ DOMAIN q \subseteq Nat \ {0} /\ 1 \in DOMAIN p
        /\ Head(p) = p[1]
        /\ \A i \in DOMAIN q : i + 1 \in DOMAIN p /\ q[i] = p[i + 1]
        /\ \A i \in DOMAIN p \ {1} : i - 1 \in DOMAIN q /\ q[i - 1] = p[i]
    BY TailedShifts
  <1>2. ASSUME NEW i \in DOMAIN q
        PROVE  i + 1 # 1
    BY <1>1
  <1> QED BY <1>1, <1>2 DEF Results

LEMMA TailViews ==
  ASSUME NEW p, IsSeq(p), p # <<>>, NEW of
  PROVE  /\ \A i \in DOMAIN Rest(p) : LastOf(Views(Rest(p), of), i) =>
              i + 1 \in DOMAIN p /\ LastOf(Views(p, of), i + 1) /\ Rest(p)[i] = p[i + 1]
         /\ \A i \in Views(Rest(p), of) : i + 1 \in Views(p, of) /\ Rest(p)[i] = p[i + 1]
         /\ \A i \in DOMAIN p : LastOf(Views(p, of), i) =>
              \/ i = 1 /\ Views(Rest(p), of) = {}
              \/ /\ i - 1 \in DOMAIN Rest(p) /\ Rest(p)[i - 1] = p[i]
                 /\ LastOf(Views(Rest(p), of), i - 1)
         /\ Views(Rest(p), of) = {} => Views(p, of) = {} \/ LastOf(Views(p, of), 1)
         /\ 1 \in Views(p, of) <=> Head(p).token = of /\ Head(p).what \in {"state", "snapshot"}
         /\ 1 \in DOMAIN p /\ Head(p) = p[1]
  <1> DEFINE q == Rest(p)
  <1> DEFINE S == Views(p, of)
             T == Views(q, of)
  <1>1. /\ DOMAIN p \subseteq Nat \ {0} /\ DOMAIN q \subseteq Nat \ {0} /\ 1 \in DOMAIN p
        /\ Head(p) = p[1]
        /\ \A i \in DOMAIN q : i + 1 \in DOMAIN p /\ q[i] = p[i + 1]
        /\ \A i \in DOMAIN p \ {1} : i - 1 \in DOMAIN q /\ q[i - 1] = p[i]
    BY TailedShifts
  <1>2. /\ Shifted(S, T)
        /\ 1 \in S <=> Head(p).token = of /\ Head(p).what \in {"state", "snapshot"}
        /\ \A i \in T : q[i] = p[i + 1]
    <2>1. Shifted(S, T)
      BY <1>1 DEF Shifted, Views
    <2>2. \A i \in T : q[i] = p[i + 1]
      BY <1>1 DEF Views
    <2>3. 1 \in S <=> Head(p).token = of /\ Head(p).what \in {"state", "snapshot"}
      BY <1>1 DEF Views
    <2> QED BY <2>1, <2>2, <2>3
  <1> HIDE DEF S, T
  <1>3. /\ \A i \in Nat : LastOf(T, i) <=> LastOf(S, i + 1) /\ i # 0
        /\ T = {} => S \subseteq {1}
        /\ LastOf(S, 1) \/ S = {} => T = {}
        /\ S = {1} => LastOf(S, 1)
    BY <1>2, ShiftedLast
  <1>4. ASSUME NEW i \in DOMAIN p, LastOf(S, i)
        PROVE  (i = 1 /\ T = {}) \/ (i - 1 \in DOMAIN q /\ q[i - 1] = p[i] /\ LastOf(T, i - 1))
    <2>1. CASE i = 1
      BY <1>3, <1>4, <2>1
    <2>2. CASE i # 1
      <3>1. i - 1 \in DOMAIN q /\ q[i - 1] = p[i] /\ i - 1 \in Nat /\ i - 1 # 0 /\ (i - 1) + 1 = i
        BY <1>1, <2>2
      <3> QED BY <1>3, <1>4, <3>1
    <2> QED BY <2>1, <2>2
  <1>5. \A i \in DOMAIN q : LastOf(T, i) => i + 1 \in DOMAIN p /\ LastOf(S, i + 1) /\ q[i] = p[i + 1]
    BY <1>1, <1>3
  <1>6. \A i \in T : i + 1 \in S /\ q[i] = p[i + 1]
    BY <1>2 DEF Shifted
  <1>7. T = {} => S = {} \/ LastOf(S, 1)
    BY <1>3
  <1> QED BY <1>1, <1>2, <1>4, <1>5, <1>6, <1>7 DEF S, T

(* What is shown after it, if nothing more is to come that says otherwise. *)
LEMMA ViewTail ==
  ASSUME NEW p, IsSeq(p), p # <<>>, ViewOK(p, ui), NEW u,
         u.generation \in Nat, u.generation <= ses.generation, u.optimisticPlay # None => u.timer,
         ses.linked /\ ~ses.refresh /\ Views(Rest(p), token) = {}
           => u.connected /\ (notice = {} => Agrees(u, server))
  PROVE  ViewOK(Rest(p), u)
  <1> DEFINE q == Rest(p)
             S == Views(p, token)
             T == Views(q, token)
  <1>1. /\ \A i \in DOMAIN q : LastOf(T, i) => i + 1 \in DOMAIN p /\ LastOf(S, i + 1) /\ q[i] = p[i + 1]
        /\ \A i \in T : i + 1 \in S /\ q[i] = p[i + 1]
    <2> HIDE DEF S, T
    <2>1. \A i \in DOMAIN q : LastOf(T, i) => i + 1 \in DOMAIN p /\ LastOf(S, i + 1) /\ q[i] = p[i + 1]
      BY TailViews DEF S, T
    <2>2. \A i \in T : i + 1 \in S /\ q[i] = p[i + 1]
      BY TailViews DEF S, T
    <2> QED BY <2>1, <2>2
  <1>2. /\ \A i \in S : p[i].generation \in Nat /\ p[i].generation <= ses.generation
        /\ ses.linked /\ ~ses.refresh =>
             \A i \in DOMAIN p : LastOf(S, i) =>
               /\ p[i].what = "snapshot" /\ p[i].generation = ses.generation
               /\ notice = {} => Agrees(p[i].seen, server)
    BY DEF ViewOK
  <1>3. ses.linked /\ ~ses.refresh /\ T = {} => u.connected /\ (notice = {} => Agrees(u, server))
    OBVIOUS
  <1> HIDE DEF S, T
  <1>4. \A i \in T : q[i].generation \in Nat /\ q[i].generation <= ses.generation
    BY <1>1, <1>2
  <1>5. ses.linked /\ ~ses.refresh =>
          \A i \in DOMAIN q : LastOf(T, i) =>
            /\ q[i].what = "snapshot" /\ q[i].generation = ses.generation
            /\ notice = {} => Agrees(q[i].seen, server)
    BY <1>1, <1>2
  <1>6. ViewOK(q, u)
    BY <1>3, <1>4, <1>5 DEF ViewOK, T
  <1> QED BY <1>6 DEF q

LEMMA ViewTailOther ==
  ASSUME NEW p, IsSeq(p), p # <<>>, ViewOK(p, ui), NEW u,
         Head(p).token # token \/ Head(p).what \notin {"state", "snapshot"},
         SameServer(ui, u), u.optimisticPlay # None => u.timer
  PROVE  ViewOK(Rest(p), u)
  <1>1. /\ Views(Rest(p), token) = {} => Views(p, token) = {} \/ LastOf(Views(p, token), 1)
        /\ 1 \in Views(p, token) <=> Head(p).token = token /\ Head(p).what \in {"state", "snapshot"}
    BY TailViews
  <1>2. 1 \notin Views(p, token)
    BY <1>1
  <1>3. Views(Rest(p), token) = {} => Views(p, token) = {}
    BY <1>1, <1>2 DEF LastOf
  <1>4. u.generation = ui.generation /\ u.connected = ui.connected /\ \A s : Agrees(ui, s) <=> Agrees(u, s)
    BY DEF SameServer, Agrees
  <1>5. ses.linked /\ ~ses.refresh /\ Views(Rest(p), token) = {}
          => u.connected /\ (notice = {} => Agrees(u, server))
    BY <1>3, <1>4 DEF ViewOK
  <1>6. u.generation \in Nat /\ u.generation <= ses.generation
    BY <1>4 DEF ViewOK
  <1> QED BY <1>5, <1>6, ViewTail

(* A presumed repeat mode. *)
LEMMA RepeatTail ==
  ASSUME NEW p, IsSeq(p), p # <<>>, RepeatOK(ses.wire, p, ui), NEW u,
         u.optimisticRepeat # None => u.optimisticRepeat = ui.optimisticRepeat,
         u.optimisticRepeat # None =>
           ~(Head(p).token = token /\ Head(p).what = "result" /\ Head(p).cmd.kind = "repeat" /\ ~Head(p).ok),
         u.optimisticRepeat # None /\ ses.linked /\ ~ses.refresh /\ LastOf(Views(p, token), 1) =>
           ~(Head(p).what = "snapshot" /\ Head(p).seen.repeat = u.optimisticRepeat)
  PROVE  RepeatOK(ses.wire, Rest(p), u)
  <1> DEFINE q == Rest(p)
             S == Views(p, token)
             T == Views(q, token)
             h == Head(p)
  <1>1. /\ \A i \in DOMAIN p : LastOf(S, i) =>
             \/ i = 1 /\ T = {}
             \/ i - 1 \in DOMAIN q /\ q[i - 1] = p[i] /\ LastOf(T, i - 1)
        /\ h = p[1]
    BY TailViews
  <1>2. /\ \A i \in Results(p, token) \ {1} : i - 1 \in Results(q, token) /\ q[i - 1] = p[i]
        /\ 1 \in Results(p, token) <=> h.token = token /\ h.what = "result"
    <2>1. \A i \in Results(p, token) \ {1} : i - 1 \in Results(q, token) /\ q[i - 1] = p[i]
      BY TailedResults
    <2>2. 1 \in Results(p, token) <=> h.token = token /\ h.what = "result"
      BY TailedResults
    <2> QED BY <2>1, <2>2
  <1>3. u.optimisticRepeat # None /\ ses.linked /\ ~ses.refresh /\ LastOf(S, 1) =>
           ~(h.what = "snapshot" /\ h.seen.repeat = u.optimisticRepeat)
    OBVIOUS
  <1>4. u.optimisticRepeat # None =>
           ~(h.token = token /\ h.what = "result" /\ h.cmd.kind = "repeat" /\ ~h.ok)
    OBVIOUS
  <1> HIDE DEF S, T, h
  <1>5. SUFFICES ASSUME u.optimisticRepeat # None, "repeat" \notin touched
                 PROVE  \/ LastRepeat(ses.wire, u.optimisticRepeat)
                        \/ NoRepeat(ses.wire) /\ (RepeatRefused(q) \/ RepeatDone(q, u.optimisticRepeat))
    BY DEF RepeatOK, q
  <1> DEFINE mode == u.optimisticRepeat
  <1>6. \/ LastRepeat(ses.wire, mode)
        \/ NoRepeat(ses.wire) /\ (RepeatRefused(p) \/ RepeatDone(p, mode))
    BY <1>5 DEF RepeatOK
  <1> HIDE DEF mode
  <1>7. ASSUME RepeatRefused(p)
        PROVE  RepeatRefused(q)
    <2>1. PICK i \in Results(p, token) : p[i].cmd.kind = "repeat" /\ ~p[i].ok
      BY <1>7 DEF RepeatRefused
    <2>2. i # 1
      BY <1>1, <1>2, <1>4, <1>5, <2>1
    <2> QED BY <1>2, <2>1, <2>2 DEF RepeatRefused
  <1>8. ASSUME RepeatDone(p, mode)
        PROVE  RepeatDone(q, mode)
    <2>1. server.repeat = mode
      BY <1>8 DEF RepeatDone
    <2>2. ASSUME ses.linked, ~ses.refresh
          PROVE  \E i \in DOMAIN q : LastOf(T, i) /\ q[i].what = "snapshot" /\ q[i].seen.repeat = mode
      <3>1. PICK i \in DOMAIN p : LastOf(S, i) /\ p[i].what = "snapshot" /\ p[i].seen.repeat = mode
        BY <1>8, <2>2 DEF RepeatDone, S
      <3>2. i # 1
        BY <1>1, <1>3, <1>5, <2>2, <3>1 DEF mode
      <3> QED BY <1>1, <3>1, <3>2
    <2> QED BY <2>1, <2>2 DEF RepeatDone, T
  <1> QED BY <1>6, <1>7, <1>8 DEF mode

LEMMA CalmTail ==
  ASSUME NEW p, IsSeq(p), p # <<>>, NEW u, NEW t, CalmOK(p, u, t)
  PROVE  CalmOK(Rest(p), u, t)
  <1> DEFINE q == Rest(p)
  <1>1. \A i \in DOMAIN q : i + 1 \in DOMAIN p /\ q[i] = p[i + 1]
    BY TailedShifts
  <1>2. DOMAIN q \subseteq Nat
    BY TailedShifts
  <1>3. Views(p, token) = {} => Views(q, token) = {}
    BY <1>1 DEF Views
  <1>4. \A i \in DOMAIN q : StateAt(q, i) => StateAt(p, i + 1)
    BY <1>1 DEF StateAt
  <1>5. \A i \in DOMAIN q : SnapshotAt(q, i) => SnapshotAt(p, i + 1)
    BY <1>1 DEF SnapshotAt
  <1>6. Calm => /\ ~ses.linked => ~u.connected /\ Views(p, token) = {}
                /\ u.connected \/ (\E i \in DOMAIN p : SnapshotAt(p, i)) => ses.linked /\ ses.accepting
                /\ u.connected => \A i \in DOMAIN p : ~StateAt(p, i)
                /\ \A i, j \in DOMAIN p : StateAt(p, i) /\ SnapshotAt(p, j) => i < j
                /\ t.open => u.connected
    BY DEF CalmOK
  <1>7. Calm => \A i, j \in DOMAIN q : StateAt(q, i) /\ SnapshotAt(q, j) => i < j
    <2> SUFFICES ASSUME Calm, NEW i \in DOMAIN q, NEW j \in DOMAIN q, StateAt(q, i), SnapshotAt(q, j)
                 PROVE  i < j
      OBVIOUS
    <2>1. StateAt(p, i + 1) /\ SnapshotAt(p, j + 1) /\ i + 1 \in DOMAIN p /\ j + 1 \in DOMAIN p
      BY <1>1, <1>4, <1>5
    <2>2. i + 1 < j + 1
      BY <1>6, <2>1
    <2> QED BY <1>2, <2>2
  <1>8. Calm => (u.connected => \A i \in DOMAIN q : ~StateAt(q, i))
    BY <1>1, <1>4, <1>6
  <1>9. Calm => (u.connected \/ (\E i \in DOMAIN q : SnapshotAt(q, i)) => ses.linked /\ ses.accepting)
    BY <1>1, <1>5, <1>6
  <1>10. token = 0 => ~u.connected /\ ~t.open /\ Views(p, token) = {}
    BY DEF CalmOK
  <1>11. CalmOK(q, u, t)
    BY <1>3, <1>6, <1>7, <1>8, <1>9, <1>10 DEF CalmOK
  <1> QED BY <1>11 DEF q

(* The tab: what asks for a re-read stays, but for the report itself. *)
LEMMA TabTail ==
  ASSUME NEW p, IsSeq(p), p # <<>>, TabOK(ses.wire, p, ui, tab, soon), NEW u, NEW t, NEW due,
         t.open = tab.open, soon => due, (Head(p).token = token /\ Head(p).what = "notice") => due,
         \A i \in DOMAIN ses.wire : ses.wire[i].id \in ui.reading => ses.wire[i].id \in u.reading,
         \A i \in Results(Rest(p), token) :
           Rest(p)[i].cmd.id \in u.reading <=> Rest(p)[i].cmd.id \in ui.reading,
         LastOf(Rereads(p, ui), 1) /\ Head(p).ok /\ Head(p).answer = server.list => t.shows = server.list,
         1 \notin Rereads(p, ui) => t.shows = tab.shows
  PROVE  TabOK(ses.wire, Rest(p), u, t, due)
  <1> DEFINE q == Rest(p)
             S == Rereads(p, ui)
             T == Rereads(q, u)
             h == Head(p)
  <1>1. /\ \A i \in Results(q, token) : i + 1 \in Results(p, token) \ {1} /\ q[i] = p[i + 1]
        /\ \A i \in Results(p, token) \ {1} : i - 1 \in Results(q, token) /\ q[i - 1] = p[i]
        /\ h = p[1]
    <2>1. \A i \in Results(q, token) : i + 1 \in Results(p, token) \ {1} /\ q[i] = p[i + 1]
      BY TailedResults
    <2>2. \A i \in Results(p, token) \ {1} : i - 1 \in Results(q, token) /\ q[i - 1] = p[i]
      BY TailedResults
    <2>3. h = p[1]
      BY TailedResults
    <2> QED BY <2>1, <2>2, <2>3
  <1>2. /\ DOMAIN p \subseteq Nat \ {0} /\ DOMAIN q \subseteq Nat \ {0} /\ 1 \in DOMAIN p
        /\ \A i \in DOMAIN q : i + 1 \in DOMAIN p /\ q[i] = p[i + 1]
        /\ \A i \in DOMAIN p \ {1} : i - 1 \in DOMAIN q /\ q[i - 1] = p[i]
    BY TailedShifts
  <1>3. /\ \A i \in Results(q, token) : q[i].cmd.id \in u.reading <=> q[i].cmd.id \in ui.reading
        /\ LastOf(S, 1) /\ h.ok /\ h.answer = server.list => t.shows = server.list
        /\ 1 \notin S => t.shows = tab.shows
    OBVIOUS
  <1>4. h.token = token /\ h.what = "notice" => due
    OBVIOUS
  <1>5. S \subseteq DOMAIN p /\ T \subseteq DOMAIN q /\ S \subseteq Results(p, token) /\ T \subseteq Results(q, token)
    BY DEF Rereads, Results
  <1>6. Shifted(S, T)
    <2> HIDE DEF h
    <2>1. \A i \in T : i + 1 \in S
      BY <1>1, <1>3 DEF Rereads
    <2>2. \A i \in S \ {1} : i - 1 \in T
      BY <1>1, <1>3 DEF Rereads
    <2> QED BY <1>2, <1>5, <2>1, <2>2 DEF Shifted
  <1> HIDE DEF S, T
  <1>7. /\ \A i \in Nat : LastOf(T, i) <=> LastOf(S, i + 1) /\ i # 0
        /\ T = {} => S \subseteq {1}
        /\ S = {1} => LastOf(S, 1)
    BY <1>6, ShiftedLast
  <1>8. SUFFICES ASSUME Calm, t.open
                 PROVE  CatchesUp(ses.wire, q, u, t, due)
    BY DEF TabOK
  <1>9. CatchesUp(ses.wire, p, ui, tab, soon)
    BY <1>8 DEF TabOK
  <1> HIDE DEF h
  <1>10. ASSUME NEW i \in DOMAIN p, p[i].token = token, p[i].what = "notice"
         PROVE  due \/ \E j \in DOMAIN q : q[j].token = token /\ q[j].what = "notice"
    <2>1. CASE i = 1
      BY <1>1, <1>4, <1>10, <2>1
    <2>2. CASE i # 1
      BY <1>2, <1>10, <2>2
    <2> QED BY <2>1, <2>2
  <1>11. ASSUME \A i \in DOMAIN p : LastOf(S, i) => p[i].ok /\ p[i].answer = server.list,
                S = {} => tab.shows = server.list
         PROVE  /\ \A i \in DOMAIN q : LastOf(T, i) => q[i].ok /\ q[i].answer = server.list
                /\ T = {} => t.shows = server.list
    <2>1. ASSUME NEW i \in DOMAIN q, LastOf(T, i)
          PROVE  q[i].ok /\ q[i].answer = server.list
      <3>1. LastOf(S, i + 1) /\ q[i] = p[i + 1] /\ i + 1 \in DOMAIN p
        BY <1>2, <1>7, <2>1
      <3> QED BY <1>11, <3>1
    <2>2. ASSUME T = {}
          PROVE  t.shows = server.list
      <3>1. CASE S = {}
        BY <1>3, <1>11, <3>1
      <3>2. CASE S # {}
        <4>1. LastOf(S, 1)
          BY <1>7, <2>2, <3>2
        <4> QED BY <1>1, <1>2, <1>3, <1>11, <4>1
      <3> QED BY <3>1, <3>2
    <2> QED BY <2>1, <2>2
  <1>12. (\A i \in DOMAIN p : LastOf(S, i) => p[i].ok /\ p[i].answer = server.list)
           /\ (S = {} => tab.shows = server.list)
           => (\A i \in DOMAIN q : LastOf(T, i) => q[i].ok /\ q[i].answer = server.list)
              /\ (T = {} => t.shows = server.list)
    BY <1>11
  <1>13. (\E i \in DOMAIN p : p[i].token = token /\ p[i].what = "notice")
           => due \/ \E j \in DOMAIN q : q[j].token = token /\ q[j].what = "notice"
    BY <1>10
  <1> QED BY <1>9, <1>12, <1>13 DEF CatchesUp, S, T

LEMMA DeliveredShown ==
  ASSUME TypeInv, Shown, posted # <<>>, Delivered, UNCHANGED <<ses, token, server, notice, touched, faults>>,
         ViewOK(Rest(posted), ui'), RepeatOK(ses.wire, Rest(posted), ui'), CalmOK(Rest(posted), ui', tab'),
         TabOK(ses.wire, Rest(posted), ui', tab', soon'), ui'.reading \subseteq ui.reading
  PROVE  Shown'
  <1>1. SessionInv /\ faults \in Nat /\ ReadInv
    BY DEF Shown, CalmInv
  <1>2. Works(Rest(posted)) /\ Repeats(ses.wire, ses'.wire)
    BY DeliveredWorks
  <1>3. SessionInv' /\ ViewInv' /\ RepeatInv'
    BY <1>1, <1>2, WorksSession, WorksView, WorksRepeat
  <1>4. CalmInv' /\ TabInv'
    BY <1>1, <1>2, WorksCalm, WorksTab
  <1>5. ReadInv'
    BY <1>1 DEF ReadInv
  <1> QED BY <1>3, <1>4, <1>5 DEF Shown

LEMMA OtherDelivered ==
  ASSUME TypeInv, Shown, posted # <<>>, Delivered, UNCHANGED <<ses, token, server, notice, touched, faults, tab>>,
         Head(posted).token # token \/ Head(posted).what \notin {"state", "snapshot"},
         Head(posted).token # token \/ Head(posted).what # "result" \/ Head(posted).cmd.kind # "read",
         SameShown(ui, ui'),
         ui'.optimisticRepeat # None =>
           /\ ui'.optimisticRepeat = ui.optimisticRepeat
           /\ ~(Head(posted).token = token /\ Head(posted).what = "result"
                /\ Head(posted).cmd.kind = "repeat" /\ ~Head(posted).ok),
         ui'.optimisticPlay # None => ui'.timer,
         soon => soon', Head(posted).token = token /\ Head(posted).what = "notice" => soon'
  PROVE  Shown'
  <1>1. ViewOK(posted, ui) /\ RepeatOK(ses.wire, posted, ui) /\ CalmOK(posted, ui, tab)
        /\ TabOK(ses.wire, posted, ui, tab, soon)
    BY DEF Shown, ViewInv, RepeatInv, CalmInv, TabInv
  <1>2. IsSeq(posted)
    BY DEF TypeInv
  <1>3. SameServer(ui, ui') /\ ui'.reading = ui.reading /\ ui'.connected = ui.connected
    BY DEF SameShown, SameServer
  <1>4. ~LastOf(Views(posted, token), 1)
    <2>1. 1 \in Views(posted, token) <=> Head(posted).token = token /\ Head(posted).what \in {"state", "snapshot"}
      BY <1>2, TailViews
    <2> QED BY <2>1 DEF LastOf
  <1>5. 1 \notin Rereads(posted, ui)
    <2>1. Head(posted) = posted[1]
      BY <1>2, TailedResults
    <2> QED BY <2>1 DEF Rereads, Results
  <1>6. ViewOK(Rest(posted), ui')
    BY <1>1, <1>2, <1>3, ViewTailOther
  <1>7. RepeatOK(ses.wire, Rest(posted), ui')
    BY <1>1, <1>2, <1>4, RepeatTail
  <1>8. CalmOK(Rest(posted), ui', tab')
    <2>1. CalmOK(posted, ui', tab')
      BY <1>1, <1>3, SameCalm
    <2> QED BY <1>2, <2>1, CalmTail
  <1>9. TabOK(ses.wire, Rest(posted), ui', tab', soon')
    <2>1. ~LastOf(Rereads(posted, ui), 1)
      BY <1>5 DEF LastOf
    <2> QED BY <1>1, <1>2, <1>3, <1>5, <2>1, TabTail
  <1> QED BY <1>3, <1>6, <1>7, <1>8, <1>9, DeliveredShown

LEMMA DropStaleShown ==
  ASSUME TypeInv, Shown, DropStale
  PROVE  Shown'
  <1>1. posted # <<>> /\ Delivered /\ Head(posted).token # token
        /\ UNCHANGED <<ses, token, server, notice, touched, faults, tab, ui, soon>>
    BY DEF DropStale, OfThisSession, tally
  <1>2. ui.optimisticPlay # None => ui.timer
    BY DEF Shown, ViewInv, ViewOK
  <1> QED BY <1>1, <1>2, OtherDelivered DEF SameShown, SameServer

LEMMA DeliverNoticeShown ==
  ASSUME TypeInv, Shown, DeliverNotice
  PROVE  Shown'
  <1>1. posted # <<>> /\ Delivered /\ Head(posted).what = "notice" /\ soon' = TRUE
        /\ UNCHANGED <<ses, token, server, notice, touched, faults, tab, ui>>
    BY DEF DeliverNotice, Due, tally
  <1>2. ui.optimisticPlay # None => ui.timer
    BY DEF Shown, ViewInv, ViewOK
  <1> QED BY <1>1, <1>2, OtherDelivered DEF SameShown, SameServer

LEMMA DeliverAnswerShown ==
  ASSUME TypeInv, Shown, DeliverAnswer
  PROVE  Shown'
  <1>1. posted # <<>> /\ Delivered /\ Head(posted).what = "result" /\ Head(posted).cmd.kind = "ask"
        /\ UNCHANGED <<ses, token, server, notice, touched, faults, tab, soon>>
    BY DEF DeliverAnswer, DueResult, Due, tally
  <1>2. ui.optimisticPlay # None => ui.timer
    BY DEF Shown, ViewInv, ViewOK
  <1>3. SameShown(ui, ui') /\ ui'.optimisticRepeat = ui.optimisticRepeat
        /\ ui'.optimisticPlay = ui.optimisticPlay /\ ui'.timer = ui.timer
    BY DEF DeliverAnswer, TypeInv, Cleared, SameShown, SameServer
  <1> QED BY <1>1, <1>2, <1>3, OtherDelivered

LEMMA DeliverHitsShown ==
  ASSUME TypeInv, Shown, DeliverHits
  PROVE  Shown'
  <1>1. posted # <<>> /\ Delivered /\ Head(posted).what = "result" /\ Head(posted).cmd.kind = "search"
        /\ UNCHANGED <<ses, token, server, notice, touched, faults, tab, soon>>
    BY DEF DeliverHits, DueResult, Due, tally
  <1>2. ui.optimisticPlay # None => ui.timer
    BY DEF Shown, ViewInv, ViewOK
  <1>3. SameServer(ui, ui') /\ ui'.reading = ui.reading
    BY ZenonT(60) DEF DeliverHits, TypeInv, Cleared, SameServer
  <1>4. ui'.optimisticRepeat = ui.optimisticRepeat
        /\ ui'.optimisticPlay = ui.optimisticPlay /\ ui'.timer = ui.timer
    BY DEF DeliverHits, TypeInv, Cleared
  <1> QED BY <1>1, <1>2, <1>3, <1>4, OtherDelivered DEF SameShown

(* A refused repeat command ends the presumption; a refused playback       *)
(* command its timer as well.                                              *)
LEMMA DeliverControlShown ==
  ASSUME TypeInv, Shown, DeliverControl
  PROVE  Shown'
  <1>1. posted # <<>> /\ Delivered /\ Head(posted).what = "result" /\ Head(posted).cmd.kind # "read"
        /\ UNCHANGED <<ses, token, server, notice, touched, faults, tab, soon>>
    BY DEF DeliverControl, DueResult, Due, tally
  <1>2. ui.optimisticPlay # None => ui.timer
    BY DEF Shown, ViewInv, ViewOK
  <1>3. SameServer(ui, ui') /\ ui'.reading = ui.reading
    BY DEF DeliverControl, TypeInv, Cleared, SameServer
  <1>4. ui'.optimisticPlay # None => ui'.timer
    BY <1>2 DEF DeliverControl, TypeInv, Cleared
  <1>5. /\ ui'.optimisticRepeat # None => ui'.optimisticRepeat = ui.optimisticRepeat
        /\ Head(posted).cmd.kind = "repeat" /\ ~Head(posted).ok => ui'.optimisticRepeat = None
    BY DEF DeliverControl, TypeInv, Cleared
  <1> QED BY <1>1, <1>3, <1>4, <1>5, OtherDelivered DEF SameShown

(* A state is never the last that was said of a refreshed connection, and  *)
(* the first one comes before the first connection.                        *)
LEMMA DeliverStateShown ==
  ASSUME TypeInv, Shown, DeliverState
  PROVE  Shown'
  <1> DEFINE h == Head(posted)
  <1>1. posted # <<>> /\ Delivered /\ h.token = token /\ h.what = "state"
        /\ UNCHANGED <<ses, token, server, notice, touched, faults, tab, soon>>
    BY DEF DeliverState, Due, OfThisSession, tally
  <1>2. ViewOK(posted, ui) /\ RepeatOK(ses.wire, posted, ui) /\ CalmOK(posted, ui, tab)
        /\ TabOK(ses.wire, posted, ui, tab, soon)
    BY DEF Shown, ViewInv, RepeatInv, CalmInv, TabInv
  <1>3. IsSeq(posted)
    BY DEF TypeInv
  <1>4. /\ \/ ui' = ui
           \/ ui'.generation = h.generation /\ ~ui'.connected
        /\ ui'.optimisticRepeat = ui.optimisticRepeat /\ ui'.reading = ui.reading
        /\ ui'.optimisticPlay = ui.optimisticPlay /\ ui'.timer = ui.timer
    BY DEF DeliverState, TypeInv, Cleared
  <1> HIDE DEF h
  <1>5. /\ 1 \in Views(posted, token) /\ h = posted[1] /\ 1 \in DOMAIN posted
        /\ Views(Rest(posted), token) = {} => Views(posted, token) = {} \/ LastOf(Views(posted, token), 1)
    BY <1>1, <1>3, TailViews DEF h
  <1>6. h.generation \in Nat /\ h.generation <= ses.generation
        /\ ui.generation \in Nat /\ ui.generation <= ses.generation
        /\ (ui.optimisticPlay # None => ui.timer)
    BY <1>2, <1>5 DEF ViewOK
  <1>7. ses.linked /\ ~ses.refresh => ~LastOf(Views(posted, token), 1)
    BY <1>1, <1>2, <1>5 DEF ViewOK
  <1>8. ViewOK(Rest(posted), ui')
    <2>1. ~(ses.linked /\ ~ses.refresh /\ Views(Rest(posted), token) = {})
      BY <1>5, <1>7
    <2> QED BY <1>1, <1>2, <1>3, <1>4, <1>6, <2>1, ViewTail
  <1>9. RepeatOK(ses.wire, Rest(posted), ui')
    BY <1>1, <1>2, <1>3, <1>4, <1>7, RepeatTail DEF h
  <1>10. CalmOK(posted, ui', tab)
    <2>1. StateAt(posted, 1)
      BY <1>1, <1>5 DEF StateAt
    <2>2. Views(posted, token) # {}
      BY <1>5
    <2>3. ui'.connected => ui.connected
      BY <1>4
    <2>4. token # 0
      BY <1>2, <2>2 DEF CalmOK
    <2>5. Calm => ~ui.connected
      BY <1>2, <1>5, <2>1 DEF CalmOK
    <2> QED BY <1>2, <2>2, <2>3, <2>4, <2>5 DEF CalmOK
  <1>11. CalmOK(Rest(posted), ui', tab')
    BY <1>1, <1>3, <1>10, CalmTail
  <1>12. TabOK(ses.wire, Rest(posted), ui', tab', soon')
    <2>1. 1 \notin Rereads(posted, ui)
      BY <1>1, <1>5 DEF Rereads, Results
    <2>2. ~LastOf(Rereads(posted, ui), 1)
      BY <2>1 DEF LastOf
    <2>3. h.what # "notice"
      BY <1>1
    <2> QED BY <1>1, <1>2, <1>3, <1>4, <2>1, <2>2, <2>3, TabTail DEF h
  <1> QED BY <1>1, <1>4, <1>8, <1>9, <1>11, <1>12, DeliveredShown

(* The last snapshot of a refreshed connection is of its generation: it is *)
(* taken over, and shows what the server has.                              *)
LEMMA DeliverSnapshotShown ==
  ASSUME TypeInv, Shown, DeliverSnapshot
  PROVE  Shown'
  <1> DEFINE h == Head(posted)
  <1>1. posted # <<>> /\ Delivered /\ h.token = token /\ h.what = "snapshot"
        /\ UNCHANGED <<ses, token, server, notice, touched, faults, tab, soon>>
    BY DEF DeliverSnapshot, Due, OfThisSession, tally
  <1>2. ViewOK(posted, ui) /\ RepeatOK(ses.wire, posted, ui) /\ CalmOK(posted, ui, tab)
        /\ TabOK(ses.wire, posted, ui, tab, soon)
    BY DEF Shown, ViewInv, RepeatInv, CalmInv, TabInv
  <1>3. IsSeq(posted)
    BY DEF TypeInv
  <1>4. CASE h.generation < ui.generation
    <2>1. ui' = ui
      BY <1>4 DEF DeliverSnapshot
    <2>2. /\ 1 \in Views(posted, token) /\ h = posted[1] /\ 1 \in DOMAIN posted
          /\ Views(Rest(posted), token) = {} => Views(posted, token) = {} \/ LastOf(Views(posted, token), 1)
      BY <1>1, <1>3, TailViews
    <2> HIDE DEF h
    <2>3. h.generation \in Nat /\ ui.generation \in Nat /\ ui.generation <= ses.generation
          /\ ses.generation \in Nat /\ (ui.optimisticPlay # None => ui.timer)
      BY <1>2, <2>2 DEF ViewOK, TypeInv
    <2>4. h.generation # ses.generation
      BY <1>4, <2>3
    <2>5. ses.linked /\ ~ses.refresh => ~LastOf(Views(posted, token), 1)
      BY <1>2, <2>2, <2>4 DEF ViewOK
    <2>6. ViewOK(Rest(posted), ui')
      <3>1. ~(ses.linked /\ ~ses.refresh /\ Views(Rest(posted), token) = {})
        BY <2>2, <2>5
      <3> QED BY <1>1, <1>2, <1>3, <2>1, <2>3, <3>1, ViewTail
    <2>7. RepeatOK(ses.wire, Rest(posted), ui')
      BY <1>1, <1>2, <1>3, <2>1, <2>5, RepeatTail DEF h
    <2>8. CalmOK(Rest(posted), ui', tab')
      BY <1>1, <1>2, <1>3, <2>1, CalmTail
    <2>9. TabOK(ses.wire, Rest(posted), ui', tab', soon')
      <3>1. 1 \notin Rereads(posted, ui)
        BY <1>1, <2>2 DEF Rereads, Results
      <3>2. ~LastOf(Rereads(posted, ui), 1)
        BY <3>1 DEF LastOf
      <3>3. h.what # "notice"
        BY <1>1
      <3> QED BY <1>1, <1>2, <1>3, <2>1, <3>1, <3>2, <3>3, TabTail DEF h
    <2> QED BY <1>1, <2>1, <2>6, <2>7, <2>8, <2>9, DeliveredShown
  <1>5. CASE ~(h.generation < ui.generation)
    <2>1. ui' = Reconciled([ui EXCEPT !.generation = h.generation, !.connected = TRUE], h.seen)
      BY <1>5 DEF DeliverSnapshot
    <2> DEFINE seen == h.seen
    <2>2. /\ 1 \in Views(posted, token) /\ h = posted[1] /\ 1 \in DOMAIN posted
          /\ Views(Rest(posted), token) = {} => Views(posted, token) = {} \/ LastOf(Views(posted, token), 1)
      BY <1>1, <1>3, TailViews
    <2> HIDE DEF h
    <2>3. h.generation \in Nat /\ h.generation <= ses.generation /\ (ui.optimisticPlay # None => ui.timer)
      BY <1>2, <2>2 DEF ViewOK
    <2> HIDE DEF seen
    <2>4. /\ ui'.generation = h.generation /\ ui'.connected /\ ui'.reading = ui.reading
          /\ ui'.repeat = seen.repeat /\ ui'.play = seen.play /\ ui'.queue = seen.queue
          /\ ui'.optimisticPlay # None => ui'.optimisticPlay = ui.optimisticPlay /\ ui.optimisticPlay # seen.play
          /\ ui'.optimisticRepeat # None => ui'.optimisticRepeat = ui.optimisticRepeat
                                            /\ ui.optimisticRepeat # seen.repeat
          /\ ui'.timer <=> ui.timer /\ ui.optimisticPlay # seen.play
      <3> DEFINE v == [ui EXCEPT !.generation = h.generation, !.connected = TRUE]
      <3>1. DOMAIN v = DOMAIN Cleared
        BY DEF TypeInv
      <3>2. /\ v.generation = h.generation /\ v.connected = TRUE /\ v.reading = ui.reading
            /\ v.optimisticPlay = ui.optimisticPlay /\ v.optimisticRepeat = ui.optimisticRepeat /\ v.timer = ui.timer
        BY DEF TypeInv, Cleared
      <3> HIDE DEF v
      <3>3. ui' = Reconciled(v, seen)
        BY <2>1 DEF v, seen
      <3>4. /\ ui'.generation = v.generation /\ ui'.connected = v.connected /\ ui'.reading = v.reading
            /\ ui'.repeat = seen.repeat /\ ui'.play = seen.play /\ ui'.queue = seen.queue
        BY <3>1, <3>3 DEF Reconciled, Cleared
      <3>5. ui'.optimisticPlay = (IF v.optimisticPlay = seen.play THEN None ELSE v.optimisticPlay)
        BY <3>1, <3>3 DEF Reconciled, Cleared
      <3>6. ui'.optimisticRepeat = (IF v.optimisticRepeat = seen.repeat THEN None ELSE v.optimisticRepeat)
        BY <3>1, <3>3 DEF Reconciled, Cleared
      <3>7. ui'.timer = (v.timer /\ v.optimisticPlay # seen.play)
        BY <3>1, <3>3 DEF Reconciled, Cleared
      <3> QED BY <3>2, <3>4, <3>5, <3>6, <3>7
    <2>5. ui'.optimisticPlay # None => ui'.timer
      BY <2>3, <2>4
    <2>6. ViewOK(Rest(posted), ui')
      <3>1. ASSUME ses.linked, ~ses.refresh, Views(Rest(posted), token) = {}
            PROVE  ui'.connected /\ (notice = {} => Agrees(ui', server))
        <4>1. LastOf(Views(posted, token), 1)
          BY <2>2, <3>1
        <4>2. notice = {} => Agrees(seen, server)
          BY <1>2, <2>2, <3>1, <4>1 DEF ViewOK, seen
        <4> QED BY <2>4, <4>2 DEF Agrees
      <3>2. ui'.generation \in Nat /\ ui'.generation <= ses.generation
        BY <2>3, <2>4
      <3> QED BY <1>1, <1>2, <1>3, <2>5, <3>1, <3>2, ViewTail
    <2>7. RepeatOK(ses.wire, Rest(posted), ui')
      <3>1. ui'.optimisticRepeat # None => ~(h.seen.repeat = ui'.optimisticRepeat)
        BY <2>4 DEF seen
      <3> QED BY <1>1, <1>2, <1>3, <2>4, <3>1, RepeatTail DEF h
    <2>8. CalmOK(posted, ui', tab)
      <3>1. SnapshotAt(posted, 1)
        BY <1>1, <2>2 DEF SnapshotAt
      <3>2. token # 0
        BY <1>2, <2>2 DEF CalmOK
      <3> SUFFICES ASSUME Calm
                   PROVE  /\ ses.linked /\ ses.accepting
                          /\ \A i \in DOMAIN posted : ~StateAt(posted, i)
                          /\ \A i, j \in DOMAIN posted : StateAt(posted, i) /\ SnapshotAt(posted, j) => i < j
        BY <2>4, <3>2 DEF CalmOK
      <3>3. ses.linked /\ ses.accepting
            /\ \A i, j \in DOMAIN posted : StateAt(posted, i) /\ SnapshotAt(posted, j) => i < j
        BY <1>2, <2>2, <3>1 DEF CalmOK
      <3>4. DOMAIN posted \subseteq Nat \ {0}
        BY <1>1, <1>3, TailedShifts
      <3>5. \A i \in DOMAIN posted : ~StateAt(posted, i)
        <4> SUFFICES ASSUME NEW i \in DOMAIN posted, StateAt(posted, i)
                     PROVE  FALSE
          OBVIOUS
        <4>1. i < 1 /\ i \in Nat \ {0}
          BY <2>2, <3>1, <3>3, <3>4
        <4> QED BY <4>1
      <3> QED BY <3>3, <3>5
    <2>9. CalmOK(Rest(posted), ui', tab')
      BY <1>1, <1>3, <2>8, CalmTail
    <2>10. TabOK(ses.wire, Rest(posted), ui', tab', soon')
      <3>1. 1 \notin Rereads(posted, ui)
        BY <1>1, <2>2 DEF Rereads, Results
      <3>2. ~LastOf(Rereads(posted, ui), 1)
        BY <3>1 DEF LastOf
      <3>3. h.what # "notice"
        BY <1>1
      <3> QED BY <1>1, <1>2, <1>3, <2>4, <3>1, <3>2, <3>3, TabTail DEF h
    <2> QED BY <1>1, <2>4, <2>6, <2>7, <2>9, <2>10, DeliveredShown
  <1> QED BY <1>4, <1>5

(* The playlist that was read last is the one the server has, if nothing   *)
(* else asks for it.                                                       *)
LEMMA DeliverPlaylistShown ==
  ASSUME TypeInv, PlaceInv, Shown, DeliverPlaylist
  PROVE  Shown'
  <1> DEFINE h == Head(posted)
             S == Rereads(posted, ui)
  <1>1. posted # <<>> /\ Delivered /\ h.token = token /\ h.what = "result" /\ h.cmd.kind = "read"
        /\ UNCHANGED <<ses, token, server, notice, touched, faults, soon>>
    BY DEF DeliverPlaylist, DueResult, Due, OfThisSession, tally
  <1>2. ViewOK(posted, ui) /\ RepeatOK(ses.wire, posted, ui) /\ CalmOK(posted, ui, tab)
        /\ TabOK(ses.wire, posted, ui, tab, soon)
    BY DEF Shown, ViewInv, RepeatInv, CalmInv, TabInv
  <1>3. IsSeq(posted)
    BY DEF TypeInv
  <1>4. /\ SameServer(ui, ui') /\ ui'.reading = ui.reading \ {h.cmd.id}
        /\ ui'.optimisticRepeat = ui.optimisticRepeat
        /\ ui'.optimisticPlay = ui.optimisticPlay /\ ui'.timer = ui.timer
    BY DEF DeliverPlaylist, TypeInv, Cleared, SameServer
  <1>5. /\ tab'.open = tab.open
        /\ h.cmd.id \in ui.reading /\ h.ok => tab'.shows = h.answer
        /\ h.cmd.id \notin ui.reading => tab' = tab
    BY DEF DeliverPlaylist, TypeInv
  <1> HIDE DEF h
  <1>6. /\ \A i \in Results(Rest(posted), token) :
             i + 1 \in Results(posted, token) \ {1} /\ Rest(posted)[i] = posted[i + 1]
        /\ h = posted[1] /\ 1 \in Results(posted, token)
    BY <1>1, <1>3, TailedResults DEF h
  <1>7. /\ \A i \in DOMAIN ses.wire : ses.wire[i].id # h.cmd.id
        /\ \A i \in Results(posted, token) : posted[i].cmd.id = h.cmd.id => i = 1
    BY <1>6 DEF PlaceInv, Numbered
  <1>8. \A i \in Results(Rest(posted), token) : Rest(posted)[i].cmd.id # h.cmd.id
    BY <1>6, <1>7
  <1>9. 1 \in S <=> h.cmd.id \in ui.reading
    BY <1>1, <1>6 DEF Rereads
  <1>10. ui'.optimisticPlay # None => ui'.timer
    BY <1>2, <1>4 DEF ViewOK
  <1>11. ViewOK(Rest(posted), ui')
    BY <1>1, <1>2, <1>3, <1>4, <1>10, ViewTailOther DEF h
  <1>12. RepeatOK(ses.wire, Rest(posted), ui')
    <2>1. ~(h.cmd.kind = "repeat") /\ ~(h.what = "snapshot")
      BY <1>1
    <2> QED BY <1>1, <1>2, <1>3, <1>4, <2>1, RepeatTail DEF h
  <1>13. CalmOK(Rest(posted), ui', tab')
    <2>1. ui'.connected = ui.connected
      BY <1>4 DEF SameServer
    <2>2. CalmOK(posted, ui', tab')
      BY <1>2, <1>5, <2>1 DEF CalmOK
    <2> QED BY <1>1, <1>3, <2>2, CalmTail
  <1>14. TabOK(ses.wire, Rest(posted), ui', tab', soon')
    <2>1. \A i \in DOMAIN ses.wire : ses.wire[i].id \in ui.reading => ses.wire[i].id \in ui'.reading
      BY <1>4, <1>7
    <2>2. \A i \in Results(Rest(posted), token) :
            Rest(posted)[i].cmd.id \in ui'.reading <=> Rest(posted)[i].cmd.id \in ui.reading
      BY <1>4, <1>8
    <2>3. LastOf(S, 1) /\ h.ok /\ h.answer = server.list => tab'.shows = server.list
      BY <1>5, <1>9 DEF LastOf
    <2>4. 1 \notin S => tab'.shows = tab.shows
      BY <1>5, <1>9
    <2>5. h.what # "notice"
      BY <1>1
    <2> QED BY <1>1, <1>2, <1>3, <1>5, <2>1, <2>2, <2>3, <2>4, <2>5, TabTail DEF h
  <1> QED BY <1>1, <1>4, <1>11, <1>12, <1>13, <1>14, DeliveredShown

(* An edit that succeeded sends a read, as long as nothing fails to a      *)
(* connection that accepts it.                                             *)
LEMMA DeliverEditedShown ==
  ASSUME TypeInv, Shown, DeliverEdited
  PROVE  Shown'
  <1> DEFINE h == Head(posted)
             again == h.cmd.id \in ui.edits /\ h.ok /\ ui.connected
             e == Enqueued(ses.wire, Tail(posted), "read", None)
  <1>1. posted # <<>> /\ h.token = token /\ h.what = "result" /\ h.cmd.kind = "edit"
        /\ UNCHANGED <<token, server, notice, touched, faults, tab, soon>>
    BY DEF DeliverEdited, DueResult, Due, OfThisSession, tally
  <1>2. SessionInv /\ ViewOK(posted, ui) /\ RepeatOK(ses.wire, posted, ui) /\ CalmOK(posted, ui, tab)
        /\ TabOK(ses.wire, posted, ui, tab, soon) /\ faults \in Nat /\ ReadInv
    BY DEF Shown, ViewInv, RepeatInv, CalmInv, TabInv
  <1>3. IsSeq(posted) /\ IsSeq(ses.wire) /\ ses.next \in Nat
    BY DEF TypeInv
  <1>4. CASE ~again
    <2>1. Delivered /\ UNCHANGED ses
      BY <1>4 DEF DeliverEdited
    <2>2. SameServer(ui, ui') /\ ui'.reading = ui.reading
          /\ ui'.optimisticRepeat = ui.optimisticRepeat
          /\ ui'.optimisticPlay = ui.optimisticPlay /\ ui'.timer = ui.timer
      BY <1>4 DEF DeliverEdited, TypeInv, Cleared, SameServer
    <2>3. ui'.optimisticPlay # None => ui'.timer
      BY <1>2, <2>2 DEF ViewOK
    <2> HIDE DEF h, again
    <2> QED BY <1>1, <2>1, <2>2, <2>3, OtherDelivered DEF SameShown, h
  <1>5. CASE again
    <2>1. ses' = e.ses /\ posted' = e.posted /\ ui.connected
      BY <1>5 DEF DeliverEdited
    <2>2. SameServer(ui, ui') /\ ui'.reading = ui.reading \cup {ses.next}
          /\ ui'.optimisticRepeat = ui.optimisticRepeat
          /\ ui'.optimisticPlay = ui.optimisticPlay /\ ui'.timer = ui.timer
      BY <1>5, ZenonT(60) DEF DeliverEdited, TypeInv, Cleared, SameServer, NewId
    <2>3. ui'.optimisticPlay # None => ui'.timer
      BY <1>2, <2>2 DEF ViewOK
    <2>4. ui'.connected = ui.connected
      BY <2>2 DEF SameServer
    <2>5. IsSeq(Rest(posted)) /\ Rest(posted) = Tail(posted)
      BY <1>1, <1>3, TailFacts DEF Rest
    <2>6. e = Enqueued(ses.wire, Rest(posted), "read", None)
      BY <2>5
    <2> HIDE DEF h, again, e
    <2>7. /\ SameLink(e.ses) /\ e.ses.next = ses.next + 1
          /\ AddsResults(Rest(posted), e.posted)
          /\ Ordered(ses.wire) => Ordered(e.ses.wire)
          /\ ~ses.accepting => e.ses.wire = ses.wire
          /\ ReadsStay(ses.wire, e.ses.wire)
          /\ Repeats(ses.wire, e.ses.wire)
          /\ ses.accepting => \E k \in DOMAIN e.ses.wire :
                                 e.ses.wire[k].id = ses.next /\ e.ses.wire[k].kind = "read"
      <3>1. "read" # "repeat"
        OBVIOUS
      <3> QED BY <1>3, <2>5, <2>6, <3>1, EnqueuedWorks
    <2>8. Works(Rest(posted)) /\ Repeats(ses.wire, ses'.wire) /\ ses'.next = ses.next + 1
      BY <1>1, <1>3, <2>1, <2>7 DEF Works
    <2>9. SessionInv'
      BY <1>2, <2>8, WorksSession
    <2>10. ViewInv'
      <3>1. ViewOK(Rest(posted), ui')
        BY <1>1, <1>2, <1>3, <2>2, <2>3, ViewTailOther DEF h
      <3> QED BY <2>8, <3>1, WorksView
    <2>11. RepeatInv'
      <3>1. ~(h.cmd.kind = "repeat") /\ ~(h.what = "snapshot")
        BY <1>1
      <3>2. RepeatOK(ses.wire, Rest(posted), ui')
        BY <1>1, <1>2, <1>3, <2>2, <3>1, RepeatTail DEF h
      <3> QED BY <2>8, <3>2, WorksRepeat
    <2>12. CalmInv'
      <3>1. CalmOK(posted, ui', tab')
        BY <1>1, <1>2, <2>4, SameCalm
      <3>2. CalmOK(Rest(posted), ui', tab')
        BY <1>1, <1>3, <3>1, CalmTail
      <3> QED BY <1>2, <2>8, <3>2, WorksCalm
    <2>13. TabInv'
      <3>1. SUFFICES ASSUME Calm
                     PROVE  CatchesUp(ses.wire, posted, ui, tab, soon)'
        BY <1>1 DEF TabInv, TabOK, Calm
      <3>2. ses.accepting
        BY <1>2, <2>1, <3>1 DEF CalmOK
      <3> QED BY <2>1, <2>2, <2>7, <3>2 DEF CatchesUp
    <2>14. ReadInv'
      <3>1. ses'.next \in Nat /\ ses.next <= ses'.next
        BY <1>3, <2>8
      <3>2. ui'.reading \subseteq ui.reading \cup {ses.next}
        BY <2>2
      <3>3. server'.list = server.list
        BY <1>1
      <3> QED BY <1>2, <1>3, <2>8, <3>1, <3>2, <3>3, ReadStays
    <2> QED BY <2>9, <2>10, <2>11, <2>12, <2>13, <2>14 DEF Shown
  <1> QED BY <1>4, <1>5

LEMMA DeliverShown ==
  ASSUME TypeInv, PlaceInv, Shown, Deliver
  PROVE  Shown'
  BY DropStaleShown, DeliverStateShown, DeliverSnapshotShown, DeliverNoticeShown, DeliverAnswerShown,
     DeliverHitsShown, DeliverPlaylistShown, DeliverEditedShown, DeliverControlShown DEF Deliver

-----------------------------------------------------------------------------
(* The session reports                                                      *)

LEMMA RefusedKept ==
  ASSUME NEW p, NEW q, Grown(p, q), RepeatRefused(p)
  PROVE  RepeatRefused(q)
  <1>1. Results(q, token) = Results(p, token) \cup {i \in New(p, q) : q[i].token = token /\ q[i].what = "result"}
        /\ Results(p, token) \subseteq DOMAIN p /\ \A i \in DOMAIN p : q[i] = p[i]
    BY ResultsGrown
  <1> QED BY <1>1 DEF RepeatRefused

LEMMA RepeatKept ==
  ASSUME RepeatInv, Grown(posted, posted'), UNCHANGED <<token, ui, server, touched>>, ses'.wire = ses.wire,
         ses'.linked /\ ~ses'.refresh =>
           \E i \in DOMAIN posted' : /\ LastOf(Views(posted', token), i) /\ posted'[i].what = "snapshot"
                                     /\ posted'[i].seen.repeat = server.repeat
  PROVE  RepeatInv'
  <1>1. RepeatRefused(posted) => RepeatRefused(posted)'
    <2>1. RepeatRefused(posted) => RepeatRefused(posted')
      BY RefusedKept
    <2> QED BY <2>1 DEF RepeatRefused, Results
  <1>2. \A mode : RepeatDone(posted, mode) => RepeatDone(posted, mode)'
    BY DEF RepeatDone
  <1> QED BY <1>1, <1>2 DEF RepeatInv, RepeatOK

LEMMA TabKept ==
  ASSUME TabInv, Grown(posted, posted'), UNCHANGED <<token, ui, tab, soon, server, faults>>, ses'.wire = ses.wire,
         \A i \in New(posted, posted') : posted'[i].what # "result",
         "list" \in notice => "list" \in notice' \/ \E i \in DOMAIN posted' :
                                posted'[i].token = token /\ posted'[i].what = "notice"
  PROVE  TabInv'
  <1>1. SUFFICES ASSUME Calm, tab.open
                 PROVE  CatchesUp(ses.wire, posted, ui, tab, soon)'
    BY DEF TabInv, TabOK, Calm
  <1>2. CatchesUp(ses.wire, posted, ui, tab, soon)
    BY <1>1 DEF TabInv, TabOK
  <1>3. Results(posted', token) = Results(posted, token)
        /\ Results(posted, token) \subseteq DOMAIN posted /\ \A i \in DOMAIN posted : posted'[i] = posted[i]
    BY ResultsGrown
  <1>4. \A i \in DOMAIN posted : i \in DOMAIN posted'
    <2>1. DOMAIN posted' = DOMAIN posted \cup New(posted, posted')
      BY GrownFacts
    <2> QED BY <2>1
  <1>5. Rereads(posted, ui)' = Rereads(posted, ui) /\ Rereads(posted, ui) \subseteq DOMAIN posted
    BY <1>3 DEF Rereads
  <1>6. (\A i \in DOMAIN posted : LastOf(Rereads(posted, ui), i) => posted[i].ok /\ posted[i].answer = server.list)
         /\ (Rereads(posted, ui) = {} => tab.shows = server.list)
         => (/\ \A i \in DOMAIN posted : LastOf(Rereads(posted, ui), i) => posted[i].ok /\ posted[i].answer = server.list
             /\ Rereads(posted, ui) = {} => tab.shows = server.list)'
    <2>1. \A i : LastOf(Rereads(posted, ui), i) => i \in DOMAIN posted
      BY <1>5 DEF LastOf
    <2> QED BY <1>3, <1>5, <2>1
  <1>7. (\E i \in DOMAIN posted : posted[i].token = token /\ posted[i].what = "notice")
          => (\E i \in DOMAIN posted : posted[i].token = token /\ posted[i].what = "notice")'
    BY <1>3, <1>4
  <1> QED BY <1>2, <1>6, <1>7 DEF CatchesUp

LEMMA ConnectsShown ==
  ASSUME TypeInv, Shown, SessionConnects
  PROVE  Shown'
  <1> DEFINE r == [token |-> token, what |-> "state", generation |-> ses.generation]
  <1>1. posted' = Append(posted, r) /\ r.token = token /\ r.what = "state" /\ r.generation = ses.generation
    BY DEF SessionConnects
  <1> HIDE DEF r
  <1>2. SessionInv /\ ViewOK(posted, ui) /\ RepeatInv /\ faults \in Nat
        /\ CalmOK(posted, ui, tab) /\ ReadInv /\ TabInv
    BY DEF Shown, ViewInv, CalmInv
  <1>3. UNCHANGED <<token, ui, tab, soon, server, notice, touched, faults>> /\ ses.alive /\ ~ses.linked
    BY DEF SessionConnects, tally
  <1>4. /\ ses'.alive = ses.alive /\ ses'.linked = TRUE /\ ses'.refresh = TRUE /\ ses'.accepting = ses.accepting
        /\ ses'.wire = ses.wire /\ ses'.next = ses.next /\ ses'.generation = ses.generation
    BY DEF SessionConnects, TypeInv, Fresh
  <1>5. IsSeq(posted) /\ ses.generation \in Nat
    BY DEF TypeInv
  <1>6. /\ Grown(posted, posted') /\ New(posted, posted') = {Len(posted) + 1}
        /\ posted'[Len(posted) + 1] = r
    BY <1>1, <1>5, GrownByOne
  <1>7. /\ DOMAIN posted' = DOMAIN posted \cup {Len(posted) + 1}
        /\ \A i \in DOMAIN posted : i < Len(posted) + 1 /\ posted'[i] = posted[i]
    BY <1>6, GrownFacts
  <1>8. Views(posted', token) = Views(posted, token) \cup {Len(posted) + 1}
    BY <1>1, <1>7 DEF Views
  <1>9. SessionInv'
    BY <1>2, <1>3, <1>4 DEF SessionInv
  <1>10. ViewInv'
    <2>1. \A i \in Views(posted', token) : posted'[i].generation \in Nat /\ posted'[i].generation <= ses.generation
      BY <1>1, <1>2, <1>5, <1>6, <1>7, <1>8 DEF ViewOK, Views
    <2>2. ViewOK(posted, ui)'
      BY <1>2, <1>3, <1>4, <2>1 DEF ViewOK
    <2> QED BY <2>2 DEF ViewInv
  <1>11. RepeatInv'
    BY <1>2, <1>3, <1>4, <1>6, RepeatKept
  <1>12. token # 0
    BY <1>2, <1>3 DEF SessionInv
  <1>13. CalmInv'
    <2>1. SUFFICES ASSUME Calm
                   PROVE  (/\ ~ses.linked => ~ui.connected /\ Views(posted, token) = {}
                           /\ ui.connected \/ (\E i \in DOMAIN posted : SnapshotAt(posted, i)) => ses.linked /\ ses.accepting
                           /\ ui.connected => \A i \in DOMAIN posted : ~StateAt(posted, i)
                           /\ \A i, j \in DOMAIN posted : StateAt(posted, i) /\ SnapshotAt(posted, j) => i < j
                           /\ tab.open => ui.connected)'
      BY <1>2, <1>3, <1>12 DEF CalmInv, CalmOK, Calm
    <2>2. ~ui.connected /\ Views(posted, token) = {} /\ (tab.open => ui.connected)
      BY <1>2, <1>3, <2>1 DEF CalmOK
    <2>3. \A i \in DOMAIN posted' : ~SnapshotAt(posted, i)'
      <3> SUFFICES ASSUME NEW i \in DOMAIN posted', SnapshotAt(posted, i)'
                   PROVE  FALSE
        OBVIOUS
      <3>1. posted'[i].what = "snapshot" /\ posted'[i].token = token
        BY <1>3 DEF SnapshotAt
      <3>2. i \in DOMAIN posted
        BY <1>1, <1>6, <1>7, <3>1
      <3> QED BY <1>7, <2>2, <3>1, <3>2 DEF Views
    <2> QED BY <1>3, <1>4, <2>2, <2>3
  <1>14. TabInv'
    BY <1>1, <1>2, <1>3, <1>4, <1>6, TabKept
  <1>15. ReadInv'
    BY <1>2, <1>3, <1>4 DEF ReadInv
  <1> QED BY <1>9, <1>10, <1>11, <1>13, <1>14, <1>15 DEF Shown

(* The snapshot is the last that is said, and what the server has. *)
LEMMA RefreshesShown ==
  ASSUME TypeInv, Shown, SessionRefreshes
  PROVE  Shown'
  <1> DEFINE r == [token |-> token, what |-> "snapshot", generation |-> ses.generation, seen |-> server]
             n == Len(posted) + 1
  <1>1. posted' = Append(posted, r) /\ r.token = token /\ r.what = "snapshot" /\ r.generation = ses.generation
        /\ r.seen = server
    BY DEF SessionRefreshes
  <1> HIDE DEF r
  <1>2. SessionInv /\ ViewOK(posted, ui) /\ RepeatInv /\ faults \in Nat
        /\ CalmOK(posted, ui, tab) /\ ReadInv /\ TabInv
    BY DEF Shown, ViewInv, CalmInv
  <1>3. UNCHANGED <<token, ui, tab, soon, server, notice, touched, faults>> /\ ses.linked
    BY DEF SessionRefreshes, tally
  <1>4. /\ ses'.alive = ses.alive /\ ses'.linked = ses.linked /\ ses'.refresh = FALSE /\ ses'.accepting = TRUE
        /\ ses'.wire = ses.wire /\ ses'.next = ses.next /\ ses'.generation = ses.generation
    BY DEF SessionRefreshes, TypeInv, Fresh
  <1>5. IsSeq(posted) /\ ses.generation \in Nat /\ Len(posted) \in Nat
    BY SeqFacts DEF TypeInv
  <1>6. /\ Grown(posted, posted') /\ New(posted, posted') = {n}
        /\ posted'[n] = r
    BY <1>1, <1>5, GrownByOne
  <1>7. /\ DOMAIN posted' = DOMAIN posted \cup {n}
        /\ \A i \in DOMAIN posted : i < n /\ posted'[i] = posted[i] /\ i \in Nat
    BY <1>6, GrownFacts
  <1>8. Views(posted', token) = Views(posted, token) \cup {n} /\ Views(posted, token) \subseteq DOMAIN posted
    BY <1>1, <1>6, <1>7 DEF Views
  <1>9. LastOf(Views(posted', token), n) /\ \A i : LastOf(Views(posted', token), i) => i = n
    <2>1. n \in Nat
      BY <1>5
    <2> HIDE DEF n
    <2>2. \A i \in Views(posted', token) : i <= n /\ i \in Nat
      BY <1>7, <1>8, <2>1
    <2> QED BY <1>8, <2>1, <2>2 DEF LastOf
  <1> HIDE DEF n
  <1>10. SessionInv'
    BY <1>2, <1>3, <1>4 DEF SessionInv
  <1>11. ViewInv'
    <2>1. \A i \in Views(posted', token) : posted'[i].generation \in Nat /\ posted'[i].generation <= ses.generation
      BY <1>1, <1>2, <1>5, <1>6, <1>7, <1>8 DEF ViewOK
    <2>2. Agrees(r.seen, server)
      BY <1>1 DEF Agrees
    <2>3. \A i \in DOMAIN posted' : LastOf(Views(posted', token), i) =>
            posted'[i].what = "snapshot" /\ posted'[i].generation = ses.generation /\ Agrees(posted'[i].seen, server)
      BY <1>1, <1>6, <1>9, <2>2
    <2>4. Views(posted', token) # {}
      BY <1>8
    <2>5. ViewOK(posted, ui)'
      BY <1>2, <1>3, <1>4, <2>1, <2>3, <2>4 DEF ViewOK, Agrees
    <2> QED BY <2>5 DEF ViewInv
  <1>12. RepeatInv'
    <2>1. n \in DOMAIN posted' /\ LastOf(Views(posted', token), n) /\ posted'[n].what = "snapshot"
          /\ posted'[n].seen.repeat = server.repeat
      BY <1>1, <1>6, <1>7, <1>9
    <2> QED BY <1>2, <1>3, <1>4, <1>6, <2>1, RepeatKept
  <1>13. token # 0
    BY <1>2, <1>3 DEF SessionInv
  <1>14. CalmInv'
    <2>1. SUFFICES ASSUME Calm
                   PROVE  (/\ ~ses.linked => ~ui.connected /\ Views(posted, token) = {}
                           /\ ui.connected \/ (\E i \in DOMAIN posted : SnapshotAt(posted, i)) => ses.linked /\ ses.accepting
                           /\ ui.connected => \A i \in DOMAIN posted : ~StateAt(posted, i)
                           /\ \A i, j \in DOMAIN posted : StateAt(posted, i) /\ SnapshotAt(posted, j) => i < j
                           /\ tab.open => ui.connected)'
      BY <1>2, <1>3, <1>13 DEF CalmInv, CalmOK, Calm
    <2>2. /\ ui.connected => \A i \in DOMAIN posted : ~StateAt(posted, i)
          /\ \A i, j \in DOMAIN posted : StateAt(posted, i) /\ SnapshotAt(posted, j) => i < j
          /\ tab.open => ui.connected
      BY <1>2, <2>1 DEF CalmOK
    <2>3. \A i \in DOMAIN posted' : StateAt(posted, i)' => i \in DOMAIN posted /\ StateAt(posted, i)
      BY <1>1, <1>3, <1>6, <1>7 DEF StateAt
    <2>4. \A i \in DOMAIN posted' : SnapshotAt(posted, i)' => i = n \/ (i \in DOMAIN posted /\ SnapshotAt(posted, i))
      BY <1>3, <1>7 DEF SnapshotAt
    <2>5. \A i, j \in DOMAIN posted' : StateAt(posted, i)' /\ SnapshotAt(posted, j)' => i < j
      BY <1>7, <2>2, <2>3, <2>4
    <2> QED BY <1>3, <1>4, <2>2, <2>3, <2>5
  <1>15. TabInv'
    BY <1>1, <1>2, <1>3, <1>4, <1>6, TabKept
  <1>16. ReadInv'
    BY <1>2, <1>3, <1>4 DEF ReadInv
  <1> QED BY <1>10, <1>11, <1>12, <1>14, <1>15, <1>16 DEF Shown

LEMMA NoticeShown ==
  ASSUME TypeInv, Shown, NoticeArrives
  PROVE  Shown'
  <1> DEFINE r == [token |-> token, what |-> "notice"]
             n == Len(posted) + 1
  <1>1. /\ r.token = token /\ r.what = "notice"
        /\ posted' = IF "list" \in notice THEN Append(posted, r) ELSE posted
    BY DEF NoticeArrives
  <1> HIDE DEF r
  <1>2. SessionInv /\ ViewOK(posted, ui) /\ RepeatInv /\ faults \in Nat
        /\ CalmOK(posted, ui, tab) /\ ReadInv /\ TabInv
    BY DEF Shown, ViewInv, CalmInv
  <1>3. UNCHANGED <<token, ui, tab, soon, server, touched, faults>>
    BY DEF NoticeArrives, tally
  <1>4. /\ ses'.alive = ses.alive /\ ses'.linked = ses.linked /\ ses'.accepting = ses.accepting
        /\ ses.linked => ses'.refresh
        /\ ses'.wire = ses.wire /\ ses'.next = ses.next /\ ses'.generation = ses.generation
    BY DEF NoticeArrives, TypeInv, Fresh
  <1>5. IsSeq(posted) /\ ses.generation \in Nat
    BY DEF TypeInv
  <1>6. /\ Grown(posted, posted')
        /\ \A i \in New(posted, posted') : posted'[i].what = "notice" /\ posted'[i].token = token
        /\ "list" \in notice => \E i \in DOMAIN posted' : posted'[i].token = token /\ posted'[i].what = "notice"
    <2>1. CASE "list" \in notice
      <3>1. posted' = Append(posted, r)
        BY <1>1, <2>1
      <3>2. Grown(posted, posted') /\ New(posted, posted') = {n} /\ posted'[n] = r
        BY <1>5, <3>1, GrownByOne
      <3> HIDE DEF n
      <3>3. DOMAIN posted' = DOMAIN posted \cup New(posted, posted')
        BY <3>2, GrownFacts
      <3> QED BY <1>1, <3>2, <3>3
    <2>2. CASE "list" \notin notice
      <3>1. posted' = posted
        BY <1>1, <2>2
      <3>2. Grown(posted, posted') /\ New(posted, posted') = {}
        BY <1>5, <3>1, SeqFacts DEF Grown, New
      <3> QED BY <2>2, <3>2
    <2> QED BY <2>1, <2>2
  <1> HIDE DEF n
  <1>7. /\ DOMAIN posted' = DOMAIN posted \cup New(posted, posted')
        /\ \A i \in DOMAIN posted : posted'[i] = posted[i]
    BY <1>6, GrownFacts
  <1>8. Views(posted', token) = Views(posted, token) /\ Views(posted, token) \subseteq DOMAIN posted
    BY <1>6, <1>7 DEF Views
  <1>9. SessionInv'
    BY <1>2, <1>3, <1>4 DEF SessionInv
  <1>10. ViewInv'
    <2>1. \A i \in Views(posted', token) : posted'[i].generation \in Nat /\ posted'[i].generation <= ses.generation
      BY <1>2, <1>7, <1>8 DEF ViewOK
    <2>2. ViewOK(posted, ui)'
      BY <1>2, <1>3, <1>4, <2>1 DEF ViewOK
    <2> QED BY <2>2 DEF ViewInv
  <1>11. RepeatInv'
    BY <1>2, <1>3, <1>4, <1>6, RepeatKept
  <1>12. CalmInv'
    <2>1. \A i \in DOMAIN posted' : StateAt(posted, i)' => i \in DOMAIN posted /\ StateAt(posted, i)
      BY <1>3, <1>6, <1>7 DEF StateAt
    <2>2. \A i \in DOMAIN posted' : SnapshotAt(posted, i)' => i \in DOMAIN posted /\ SnapshotAt(posted, i)
      BY <1>3, <1>6, <1>7 DEF SnapshotAt
    <2>3. Calm' <=> Calm
      BY <1>3 DEF Calm
    <2>4. CalmOK(posted, ui, tab)'
      BY <1>2, <1>3, <1>4, <1>8, <2>1, <2>2, <2>3 DEF CalmOK
    <2> QED BY <1>2, <1>3, <2>4 DEF CalmInv
  <1>13. TabInv'
    BY <1>2, <1>3, <1>4, <1>6, TabKept
  <1>14. ReadInv'
    BY <1>2, <1>3, <1>4 DEF ReadInv
  <1> QED BY <1>9, <1>10, <1>11, <1>12, <1>13, <1>14 DEF Shown

(* Another client changes the server: a notice is due. *)
LEMMA ForeignShown ==
  ASSUME TypeInv, Shown, NEW what, NEW queue, Foreign(what, queue), what \in {"repeat", "play", "list", "queue"}
  PROVE  Shown'
  <1>1. SessionInv /\ ViewOK(posted, ui) /\ RepeatInv /\ faults \in Nat
        /\ CalmOK(posted, ui, tab) /\ ReadInv /\ TabInv
    BY DEF Shown, ViewInv, CalmInv
  <1>2. UNCHANGED <<token, ses, posted, ui, tab, soon, faults>> /\ touched' = touched \cup {what}
        /\ notice' = notice \cup {IF what = "list" THEN "list" ELSE "state"}
    BY DEF Foreign
  <1>3. /\ what # "repeat" => server'.repeat = server.repeat
        /\ what = "list" => server'.list = server.list + 1
        /\ what # "list" => server'.list = server.list
    BY DEF Foreign, TypeInv
  <1>4. SessionInv' /\ CalmInv'
    BY <1>1, <1>2 DEF SessionInv, CalmInv, CalmOK, Calm, StateAt, SnapshotAt, Views
  <1>5. ViewInv'
    <2>1. notice' # {}
      BY <1>2
    <2> QED BY <1>1, <1>2, <2>1 DEF ViewInv, ViewOK, Views
  <1>6. RepeatInv'
    <2>1. "repeat" \notin touched' => server'.repeat = server.repeat /\ "repeat" \notin touched
      BY <1>2, <1>3
    <2>2. RepeatRefused(posted) => RepeatRefused(posted)'
      BY <1>2 DEF RepeatRefused, Results
    <2>3. server'.repeat = server.repeat => \A mode : RepeatDone(posted, mode) => RepeatDone(posted, mode)'
      BY <1>2 DEF RepeatDone, Views
    <2> QED BY <1>1, <1>2, <2>1, <2>2, <2>3 DEF RepeatInv, RepeatOK
  <1>7. TabInv'
    <2>1. CASE what = "list"
      <3>1. "list" \in notice'
        BY <1>2, <2>1
      <3> QED BY <3>1 DEF TabInv, TabOK, CatchesUp
    <2>2. CASE what # "list"
      BY <1>1, <1>2, <1>3, <2>2 DEF TabInv, TabOK, CatchesUp, Calm, Rereads, Results
    <2> QED BY <2>1, <2>2
  <1>8. ReadInv'
    <2>1. server'.list \in Nat
      BY <1>1, <1>3 DEF ReadInv
    <2> QED BY <1>1, <1>2, <2>1 DEF ReadInv
  <1> QED BY <1>4, <1>5, <1>6, <1>7, <1>8 DEF Shown

(* What a command does to the repeat mode and to the stored playlist. *)
LEMMA OutcomeFacts ==
  ASSUME TypeInv, ReadInv, NEW cmd
  PROVE  /\ cmd.kind = "repeat" => Outcome(cmd).server.repeat = cmd.arg /\ Outcome(cmd).problem = None
         /\ cmd.kind # "repeat" => Outcome(cmd).server.repeat = server.repeat
         /\ cmd.kind = "edit" => Outcome(cmd).server.list = server.list + 1 /\ Outcome(cmd).server # server
         /\ cmd.kind # "edit" => Outcome(cmd).server.list = server.list
         /\ cmd.kind = "read" => Outcome(cmd).problem = None /\ Answer(cmd) = server.list
         /\ Outcome(cmd).server.list \in Nat
  <1>1. server.list \in Nat /\ DOMAIN server = {"repeat", "play", "list", "queue"}
    BY DEF TypeInv, ReadInv
  <1>2. cmd.kind = "repeat" => Outcome(cmd).server.repeat = cmd.arg /\ Outcome(cmd).problem = None
    BY <1>1 DEF Outcome
  <1>3. cmd.kind # "repeat" => Outcome(cmd).server.repeat = server.repeat
    BY <1>1 DEF Outcome
  <1>4. cmd.kind = "edit" => Outcome(cmd).server.list = server.list + 1
    BY <1>1 DEF Outcome
  <1>5. cmd.kind # "edit" => Outcome(cmd).server.list = server.list
    BY <1>1 DEF Outcome
  <1>6. cmd.kind = "read" => Outcome(cmd).problem = None /\ Answer(cmd) = server.list
    BY DEF Outcome, Answer
  <1>7. cmd.kind = "edit" => Outcome(cmd).server # server
    BY <1>1, <1>4
  <1>8. Outcome(cmd).server.list \in Nat
    BY <1>1, <1>4, <1>5
  <1> QED BY <1>2, <1>3, <1>4, <1>5, <1>6, <1>7, <1>8

(* The oldest command leaves the queue and is answered. *)
LEMMA ExecutedShown ==
  ASSUME TypeInv, Shown, ses.linked, ~ses.refresh, ses.wire # <<>>, NEW ok, NEW answer,
         posted' = Append(posted, Result(token, Head(ses.wire), ok, answer)),
         UNCHANGED <<token, ui, tab, soon, touched>>,
         ses'.alive = ses.alive, ses'.linked = ses.linked, ses'.accepting = ses.accepting,
         ses'.wire = Tail(ses.wire), ses'.next = ses.next, ses'.generation = ses.generation,
         server'.list \in Nat, notice \subseteq notice', server' # server => notice' # {},
         Head(ses.wire).kind # "repeat" => server'.repeat = server.repeat,
         Head(ses.wire).kind = "repeat" =>
           ~ok \/ (server'.repeat = Head(ses.wire).arg /\ ses'.refresh),
         faults' = faults \/ faults' = faults + 1,
         faults' = faults => server'.list = server.list \/ "list" \in notice',
         faults' = faults /\ Head(ses.wire).kind = "read" =>
           ok /\ answer = server.list /\ server'.list = server.list
  PROVE  Shown'
  <1> DEFINE c == Head(ses.wire)
             r == Result(token, c, ok, answer)
             n == Len(posted) + 1
             v == Tail(ses.wire)
  <1>1. SessionInv /\ ViewOK(posted, ui) /\ RepeatOK(ses.wire, posted, ui) /\ faults \in Nat
        /\ CalmOK(posted, ui, tab) /\ ReadInv /\ TabOK(ses.wire, posted, ui, tab, soon)
    BY DEF Shown, ViewInv, CalmInv, RepeatInv, TabInv
  <1>2. r.token = token /\ r.what = "result" /\ r.cmd = c /\ r.ok = ok /\ r.answer = answer /\ posted' = Append(posted, r)
    BY DEF Result
  <1>3. IsSeq(posted) /\ IsSeq(ses.wire)
    BY DEF TypeInv
  <1>4. 1 \in DOMAIN ses.wire /\ c = ses.wire[1] /\ Removed(ses.wire, v, 1) /\ ses'.wire = v
    BY <1>3, RemovedHead
  <1> HIDE DEF r, c, v
  <1>5. /\ Grown(posted, posted') /\ New(posted, posted') = {n} /\ posted'[n] = r
    BY <1>2, <1>3, GrownByOne
  <1>6. n \in Nat
    BY <1>3, SeqFacts
  <1> HIDE DEF n
  <1>7. /\ DOMAIN posted' = DOMAIN posted \cup {n}
        /\ \A i \in DOMAIN posted : i < n /\ posted'[i] = posted[i] /\ i \in Nat
    <2>1. Grown(posted, posted')
      BY <1>5
    <2>2. DOMAIN posted' = DOMAIN posted \cup New(posted, posted')
      BY ZenonT(60), <2>1, GrownFacts
    <2>3. \A i \in DOMAIN posted, j \in New(posted, posted') : i < j /\ i \in Nat /\ j \in Nat
      BY <2>1, GrownFacts
    <2>4. \A i \in DOMAIN posted : posted'[i] = posted[i]
      BY <2>1, GrownFacts
    <2> QED BY <1>5, <2>2, <2>3, <2>4
  <1>8. Views(posted', token) = Views(posted, token) /\ Views(posted, token) \subseteq DOMAIN posted
    BY <1>2, <1>5, <1>7 DEF Views
  <1>9. /\ Ordered(ses.wire) => Ordered(ses'.wire)
        /\ c.kind # "repeat" => Repeats(ses.wire, ses'.wire)
        /\ \A i \in DOMAIN ses.wire \ {1} : \E j \in DOMAIN ses'.wire : ses'.wire[j] = ses.wire[i]
        /\ c.kind = "repeat" => \A mode : LastRepeat(ses.wire, mode) =>
              LastRepeat(ses'.wire, mode) \/ (NoRepeat(ses'.wire) /\ c.arg = mode)
    <2>1. /\ Ordered(ses.wire) => Ordered(v)
          /\ ses.wire[1].kind # "repeat" => Repeats(ses.wire, v)
          /\ \A i \in DOMAIN ses.wire \ {1} : \E j \in DOMAIN v : v[j] = ses.wire[i]
          /\ ses.wire[1].kind = "repeat" =>
               \A mode : LastRepeat(ses.wire, mode) => LastRepeat(v, mode) \/ (NoRepeat(v) /\ ses.wire[1].arg = mode)
      BY <1>3, <1>4, QueueRemoved
    <2> QED BY <1>4, <2>1
  <1>10. ses.accepting
    BY <1>1 DEF SessionInv
  <1>11. SessionInv'
    BY <1>1, <1>9, <1>10 DEF SessionInv
  <1>12. token # 0
    BY <1>1 DEF SessionInv
  <1>13. ViewInv'
    <2>1. \A i \in Views(posted', token) : posted'[i].generation \in Nat /\ posted'[i].generation <= ses.generation
      BY <1>1, <1>7, <1>8 DEF ViewOK
    <2>2. notice' = {} => notice = {} /\ server' = server
      OBVIOUS
    <2>3. /\ \A i \in DOMAIN posted : LastOf(Views(posted, token), i) =>
               /\ posted[i].what = "snapshot" /\ posted[i].generation = ses.generation
               /\ notice = {} => Agrees(posted[i].seen, server)
          /\ Views(posted, token) = {} =>
               /\ ui.connected
               /\ notice = {} => Agrees(ui, server)
          /\ ui.generation \in Nat /\ ui.generation <= ses.generation
          /\ ui.optimisticPlay # None => ui.timer
      BY <1>1 DEF ViewOK
    <2>4. \A i \in DOMAIN posted' : LastOf(Views(posted', token), i) =>
               /\ posted'[i].what = "snapshot" /\ posted'[i].generation = ses.generation
               /\ notice' = {} => Agrees(posted'[i].seen, server')
      <3> TAKE i \in DOMAIN posted'
      <3> HAVE LastOf(Views(posted', token), i)
      <3>1. i \in DOMAIN posted /\ LastOf(Views(posted, token), i) /\ posted'[i] = posted[i]
        BY <1>7, <1>8 DEF LastOf
      <3> QED BY <2>2, <2>3, <3>1
    <2>5. Views(posted', token) = {} => ui.connected /\ (notice' = {} => Agrees(ui, server'))
      BY <1>8, <2>2, <2>3
    <2>6. ViewOK(posted, ui)'
      BY <2>1, <2>3, <2>4, <2>5 DEF ViewOK, Agrees
    <2> QED BY <2>6 DEF ViewInv
  <1>14. RepeatInv'
    <2>1. SUFFICES ASSUME NEW m, m = ui.optimisticRepeat, m # None, "repeat" \notin touched
                   PROVE  \/ LastRepeat(ses'.wire, m)
                          \/ NoRepeat(ses'.wire) /\ (RepeatRefused(posted)' \/ RepeatDone(posted, m)')
      BY DEF RepeatInv, RepeatOK
    <2>2. \/ LastRepeat(ses.wire, m)
          \/ NoRepeat(ses.wire) /\ (RepeatRefused(posted) \/ RepeatDone(posted, m))
      BY <1>1, <2>1 DEF RepeatOK
    <2>3. CASE c.kind = "repeat"
      <3>1. ~NoRepeat(ses.wire)
        BY <1>4, <2>3 DEF NoRepeat
      <3>2. LastRepeat(ses'.wire, m) \/ (NoRepeat(ses'.wire) /\ c.arg = m)
        BY <1>9, <2>2, <2>3, <3>1
      <3>3. CASE ~ok
        <4>1. n \in Results(posted', token) /\ posted'[n] = r
          BY <1>2, <1>5, <1>7 DEF Results
        <4>2. RepeatRefused(posted)'
          BY <1>2, <2>3, <3>3, <4>1 DEF RepeatRefused, Results
        <4> QED BY <3>2, <4>2
      <3>4. CASE server'.repeat = c.arg /\ ses'.refresh
        <4>1. c.arg = m => RepeatDone(posted, m)'
          BY <3>4 DEF RepeatDone
        <4> QED BY <3>2, <4>1
      <3> QED BY <2>3, <3>3, <3>4 DEF c
    <2>4. CASE c.kind # "repeat"
      <3>1. Repeats(ses.wire, ses'.wire) /\ server'.repeat = server.repeat
        BY <1>9, <2>4 DEF c
      <3>2. RepeatRefused(posted) => RepeatRefused(posted)'
        <4>1. RepeatRefused(posted) => RepeatRefused(posted')
          BY <1>5, RefusedKept
        <4> QED BY <4>1 DEF RepeatRefused, Results
      <3>3. ASSUME RepeatDone(posted, m)
            PROVE  RepeatDone(posted, m)'
        <4>1. server.repeat = m
          BY <3>3 DEF RepeatDone
        <4>2. PICK i \in DOMAIN posted : /\ LastOf(Views(posted, token), i)
                                         /\ posted[i].what = "snapshot" /\ posted[i].seen.repeat = m
          BY <3>3 DEF RepeatDone
        <4>3. i \in DOMAIN posted' /\ posted'[i] = posted[i] /\ LastOf(Views(posted', token'), i)
          BY <1>7, <1>8, <4>2
        <4> QED BY <3>1, <4>1, <4>2, <4>3 DEF RepeatDone
      <3> QED BY <2>2, <3>1, <3>2, <3>3 DEF Repeats
    <2> QED BY <2>3, <2>4
  <1>15. CalmInv'
    <2>1. faults' \in Nat /\ (faults' = 0 => faults = 0)
      BY <1>1
    <2>2. \A i \in DOMAIN posted' : StateAt(posted, i)' => i \in DOMAIN posted /\ StateAt(posted, i)
      BY <1>2, <1>5, <1>7 DEF StateAt
    <2>3. \A i \in DOMAIN posted' : SnapshotAt(posted, i)' => i \in DOMAIN posted /\ SnapshotAt(posted, i)
      BY <1>2, <1>5, <1>7 DEF SnapshotAt
    <2>4. Calm' => Calm
      BY <2>1 DEF Calm
    <2>5. CalmOK(posted, ui, tab)'
      BY <1>1, <1>8, <1>12, <2>2, <2>3, <2>4 DEF CalmOK
    <2> QED BY <2>1, <2>5 DEF CalmInv
  <1>16. TabInv'
    <2>1. SUFFICES ASSUME Calm', tab.open
                   PROVE  CatchesUp(ses.wire, posted, ui, tab, soon)'
      BY DEF TabInv, TabOK
    <2>2. faults' = faults /\ Calm
      BY <1>1, <2>1 DEF Calm
    <2>3. CatchesUp(ses.wire, posted, ui, tab, soon)
      BY <1>1, <2>1, <2>2 DEF TabOK
    <2> DEFINE S == Rereads(posted, ui)
    <2>4. Rereads(posted, ui)' = S \cup (IF c.kind = "read" /\ c.id \in ui.reading THEN {n} ELSE {})
          /\ S \subseteq DOMAIN posted
      BY <1>2, <1>5, <1>7 DEF Rereads, Results
    <2> HIDE DEF S
    <2>5. CASE "list" \in notice'
      BY <2>5 DEF CatchesUp
    <2>6. CASE "list" \notin notice'
      <3>1. server'.list = server.list /\ "list" \notin notice
        BY <2>2, <2>6
      <3>2. CASE c.kind = "read" /\ c.id \in ui.reading
        <4>1. \A i : LastOf(Rereads(posted, ui)', i) => i = n
          <5>1. Rereads(posted, ui)' = S \cup {n}
            BY <2>4, <3>2
          <5>2. \A i \in Rereads(posted, ui)' : i <= n /\ i \in Nat
            BY <1>6, <1>7, <2>4, <5>1
          <5>3. SUFFICES ASSUME NEW i \in Rereads(posted, ui)', n <= i
                         PROVE  i = n
            BY <5>1 DEF LastOf
          <5>4. i <= n /\ i \in Nat
            BY <5>2
          <5> QED BY <1>6, <5>3, <5>4
        <4>2. Rereads(posted, ui)' # {}
          BY <2>4, <3>2
        <4>3. r.ok /\ r.answer = server'.list
          BY <1>2, <2>2, <3>1, <3>2 DEF c
        <4> QED BY <1>5, <4>1, <4>2, <4>3 DEF CatchesUp
      <3>3. CASE ~(c.kind = "read" /\ c.id \in ui.reading)
        <4>1. Rereads(posted, ui)' = S
          BY <2>4, <3>3
        <4>2. \A i : LastOf(S, i) => i \in DOMAIN posted /\ posted'[i] = posted[i]
          BY <1>7, <2>4 DEF LastOf
        <4>3. (\A i \in DOMAIN posted : LastOf(S, i) => posted[i].ok /\ posted[i].answer = server.list)
               /\ (S = {} => tab.shows = server.list)
               => (\A i \in DOMAIN posted' : LastOf(S, i) => posted'[i].ok /\ posted'[i].answer = server'.list)
                  /\ (S = {} => tab.shows = server'.list)
          BY <3>1, <4>2
        <4>4. (\E i \in DOMAIN posted : posted[i].token = token /\ posted[i].what = "notice")
                => \E i \in DOMAIN posted' : posted'[i].token = token /\ posted'[i].what = "notice"
          BY <1>7
        <4>5. (\E i \in DOMAIN ses.wire : ses.wire[i].kind = "read" /\ ses.wire[i].id \in ui.reading)
                => \E i \in DOMAIN ses'.wire : ses'.wire[i].kind = "read" /\ ses'.wire[i].id \in ui.reading
          <5> SUFFICES ASSUME NEW i \in DOMAIN ses.wire, ses.wire[i].kind = "read", ses.wire[i].id \in ui.reading
                       PROVE  \E j \in DOMAIN ses'.wire : ses'.wire[j].kind = "read" /\ ses'.wire[j].id \in ui.reading
            OBVIOUS
          <5>1. i # 1
            BY <1>4, <3>3
          <5>2. PICK j \in DOMAIN ses'.wire : ses'.wire[j] = ses.wire[i]
            BY <1>9, <5>1
          <5> QED BY <5>2
        <4> QED BY <2>3, <3>1, <4>1, <4>3, <4>4, <4>5 DEF CatchesUp, S
      <3> QED BY <3>2, <3>3
    <2> QED BY <2>5, <2>6
  <1>17. ReadInv'
    BY <1>1 DEF ReadInv
  <1> QED BY <1>11, <1>13, <1>14, <1>15, <1>16, <1>17 DEF Shown

LEMMA ExecutesShown ==
  ASSUME TypeInv, Shown, SessionExecutes
  PROVE  Shown'
  <1> DEFINE c == Head(ses.wire)
             outcome == Outcome(c)
  <1>1. ses.linked /\ ~ses.refresh /\ ses.wire # <<>> /\ UNCHANGED <<token, ui, tab, soon, touched>>
    BY DEF SessionExecutes
  <1>2. ReadInv /\ faults \in Nat
    BY DEF Shown, CalmInv
  <1>3. /\ c.kind = "repeat" => outcome.server.repeat = c.arg /\ outcome.problem = None
        /\ c.kind # "repeat" => outcome.server.repeat = server.repeat
        /\ c.kind = "edit" => outcome.server.list = server.list + 1 /\ outcome.server # server
        /\ c.kind # "edit" => outcome.server.list = server.list
        /\ c.kind = "read" => outcome.problem = None /\ Answer(c) = server.list
        /\ outcome.server.list \in Nat
    BY <1>2, OutcomeFacts
  <1>4. CASE /\ posted' = Append(posted, Result(token, c, outcome.problem = None, Answer(c)))
             /\ server' = outcome.server
             /\ ses' = [ses EXCEPT !.wire = Tail(@),
                                   !.refresh = c.kind \in {"delete", "clear", "drag", "repeat", "transport"}
                                               /\ outcome.problem # "index"]
             /\ notice' = IF outcome.server = server THEN notice ELSE notice \cup {Subsystem(c.kind)}
             /\ UNCHANGED faults
    <2>1. /\ ses'.alive = ses.alive /\ ses'.linked = ses.linked /\ ses'.accepting = ses.accepting
          /\ ses'.wire = Tail(ses.wire) /\ ses'.next = ses.next /\ ses'.generation = ses.generation
          /\ ses'.refresh = (c.kind \in {"delete", "clear", "drag", "repeat", "transport"} /\ outcome.problem # "index")
      BY <1>4 DEF TypeInv, Fresh
    <2> HIDE DEF outcome
    <2>2. notice \subseteq notice' /\ (server' # server => notice' # {})
      BY <1>4
    <2>3. c.kind = "edit" => "list" \in notice'
      BY <1>3, <1>4 DEF Subsystem
    <2>4. server'.list = server.list \/ "list" \in notice'
      BY <1>3, <1>4, <2>3
    <2>5. c.kind = "repeat" => server'.repeat = c.arg /\ ses'.refresh
      BY <1>3, <1>4, <2>1 DEF None
    <2>6. c.kind # "repeat" => server'.repeat = server.repeat
      BY <1>3, <1>4
    <2>7. c.kind = "read" => outcome.problem = None /\ Answer(c) = server.list /\ server'.list = server.list
      BY <1>3, <1>4
    <2>8. server'.list \in Nat
      BY <1>3, <1>4
    <2> DEFINE ok == outcome.problem = None
               answer == Answer(c)
    <2>9. posted' = Append(posted, Result(token, Head(ses.wire), ok, answer))
      BY <1>4
    <2>10. c.kind = "read" => ok /\ answer = server.list /\ server'.list = server.list
      BY <2>7
    <2>11. faults' = faults
      BY <1>4
    <2>12. /\ Head(ses.wire).kind # "repeat" => server'.repeat = server.repeat
           /\ Head(ses.wire).kind = "repeat" =>
                ~ok \/ (server'.repeat = Head(ses.wire).arg /\ ses'.refresh)
           /\ faults' = faults => server'.list = server.list \/ "list" \in notice'
           /\ faults' = faults /\ Head(ses.wire).kind = "read" =>
                ok /\ answer = server.list /\ server'.list = server.list
      BY <2>4, <2>5, <2>6, <2>10
    <2> HIDE DEF ok, answer, c
    <2> QED BY <1>1, <2>1, <2>2, <2>8, <2>9, <2>11, <2>12, ExecutedShown
  <1>5. CASE /\ faults' = faults + 1
             /\ posted' = Append(posted, Result(token, c, FALSE, None))
             /\ ses' = [ses EXCEPT !.wire = Tail(@)]
             /\ UNCHANGED <<server, notice>>
    <2>1. /\ ses'.alive = ses.alive /\ ses'.linked = ses.linked /\ ses'.accepting = ses.accepting
          /\ ses'.wire = Tail(ses.wire) /\ ses'.next = ses.next /\ ses'.generation = ses.generation
      BY <1>5 DEF TypeInv, Fresh
    <2>2. faults' # faults /\ server'.list \in Nat
      BY <1>2, <1>5 DEF ReadInv
    <2> HIDE DEF outcome
    <2> QED BY <1>1, <1>5, <2>1, <2>2, ExecutedShown
  <1> QED BY <1>4, <1>5 DEF SessionExecutes

(* What a session that loses its connection reports: refusals, and its     *)
(* state before and after.                                                 *)
LosesOnly(p, q) ==
  /\ Grown(p, q)
  /\ \A i \in New(p, q) :
       /\ q[i].token = token
       /\ \/ q[i].what = "result" /\ ~q[i].ok
          \/ q[i].what = "state" /\ q[i].generation \in {ses.generation, ses.generation + 1}

LEMMA LosesTwice ==
  ASSUME NEW p, NEW q, NEW s, LosesOnly(p, q), LosesOnly(q, s)
  PROVE  LosesOnly(p, s)
  <1>1. Grown(p, q) /\ Grown(q, s)
    BY DEF LosesOnly
  <1>2. Grown(p, s) /\ New(p, s) = New(p, q) \cup New(q, s) /\ \A i \in New(p, q) : s[i] = q[i]
    BY <1>1, GrownTwice
  <1> QED BY <1>2 DEF LosesOnly

LEMMA LosesState ==
  ASSUME NEW p, IsSeq(p), NEW r, r.token = token, r.what = "state",
         r.generation \in {ses.generation, ses.generation + 1}
  PROVE  LosesOnly(p, Append(p, r))
  BY GrownByOne DEF LosesOnly

LEMMA LosesQueue ==
  ASSUME NEW p, IsSeq(p), NEW w, IsSeq(w)
  PROVE  LosesOnly(p, p \o Rejections(token, w)) /\ IsSeq(p \o Rejections(token, w))
  <1> DEFINE x == Rejections(token, w)
             q == p \o x
  <1>1. /\ IsSeq(x) /\ Len(x) = Len(w)
        /\ \A i \in 1 .. Len(w) : x[i].token = token /\ x[i].what = "result" /\ ~x[i].ok
    BY RejectionFacts
  <1> HIDE DEF x
  <1>2. IsSeq(x)
    BY <1>1
  <1>3. /\ IsSeq(q) /\ Len(q) = Len(p) + Len(x)
        /\ \A i \in 1 .. Len(p) : q[i] = p[i]
        /\ \A i \in 1 .. Len(x) : q[i + Len(p)] = x[i]
    BY <1>2, ConcatFacts
  <1> HIDE DEF q
  <1>4. Len(p) \in Nat /\ Len(x) \in Nat /\ DOMAIN p = 1 .. Len(p)
    BY <1>2, SeqFacts
  <1>5. Grown(p, q)
    BY <1>3, <1>4 DEF Grown
  <1>6. \A i \in New(p, q) : q[i].token = token /\ q[i].what = "result" /\ ~q[i].ok
    <2> SUFFICES ASSUME NEW i \in New(p, q)
                 PROVE  q[i].token = token /\ q[i].what = "result" /\ ~q[i].ok
      OBVIOUS
    <2>1. i - Len(p) \in 1 .. Len(x) /\ (i - Len(p)) + Len(p) = i
      BY <1>3, <1>4 DEF New
    <2>2. q[i] = x[i - Len(p)]
      BY <1>3, <2>1
    <2> QED BY <1>1, <2>1, <2>2
  <1>7. LosesOnly(p, q)
    BY <1>5, <1>6 DEF LosesOnly
  <1> QED BY <1>3, <1>7 DEF q, x

LEMMA BreaksReports ==
  ASSUME TypeInv, NEW sent \in {0, 1}, SessionBreaks(sent)
  PROVE  LosesOnly(posted, posted')
  <1> DEFINE st(g) == [token |-> token, what |-> "state", generation |-> g]
             w == ses.wire
             rest == SubSeq(w, sent + 1, Len(w))
             p1 == posted \o Rejections(token, SubSeq(w, 1, sent))
             p2 == Append(p1, st(ses.generation))
             p3 == p2 \o Rejections(token, rest)
             p4 == Append(p3, st(ses.generation + 1))
  <1>1. IsSeq(ses.wire) /\ IsSeq(posted)
    BY DEF TypeInv
  <1>2. sent <= Len(w) /\ Len(w) \in Nat
    BY <1>1, SeqFacts DEF SessionBreaks
  <1>3. IsSeq(SubSeq(w, 1, sent)) /\ IsSeq(rest)
    BY <1>1, <1>2, PartsOfQueue
  <1>4. LosesOnly(posted, p1) /\ IsSeq(p1)
    BY <1>1, <1>3, LosesQueue
  <1>5. posted' = (((p1 \o <<st(ses.generation)>>) \o Rejections(token, rest)) \o <<st(ses.generation + 1)>>)
    BY DEF SessionBreaks
  <1>6. \A g : st(g).token = token /\ st(g).what = "state" /\ st(g).generation = g
    OBVIOUS
  <1> HIDE DEF p1, st
  <1>7. p1 \o <<st(ses.generation)>> = p2 /\ IsSeq(p2)
    BY <1>4, AppendedIsConcat, AppendFacts
  <1>8. LosesOnly(p1, p2)
    BY <1>4, <1>6, LosesState
  <1> HIDE DEF p2, rest
  <1>9. LosesOnly(p2, p3) /\ IsSeq(p3)
    BY <1>3, <1>7, LosesQueue
  <1> HIDE DEF p3
  <1>10. p3 \o <<st(ses.generation + 1)>> = p4
    BY <1>9, AppendedIsConcat
  <1>11. LosesOnly(p3, p4)
    BY <1>6, <1>9, LosesState
  <1>12. posted' = p4
    BY <1>5, <1>7, <1>10 DEF p3
  <1> HIDE DEF p4
  <1>13. LosesOnly(posted, p2)
    BY <1>4, <1>8, LosesTwice
  <1>14. LosesOnly(posted, p3)
    BY <1>9, <1>13, LosesTwice
  <1>15. LosesOnly(posted, p4)
    BY <1>11, <1>14, LosesTwice
  <1> QED BY <1>12, <1>15

LEMMA BreaksShown ==
  ASSUME TypeInv, PlaceInv, Shown, NEW sent \in {0, 1}, SessionBreaks(sent)
  PROVE  Shown'
  <1>1. SessionInv /\ ViewOK(posted, ui) /\ RepeatOK(ses.wire, posted, ui) /\ faults \in Nat /\ ReadInv
    BY DEF Shown, ViewInv, CalmInv, RepeatInv
  <1>2. /\ UNCHANGED <<token, ui, tab, soon, touched>> /\ faults' = faults + 1 /\ ses.linked
        /\ sent <= Len(ses.wire)
    BY DEF SessionBreaks
  <1>3. /\ ses'.alive = ses.alive /\ ses'.linked = FALSE /\ ses'.accepting = FALSE /\ ses'.wire = <<>>
        /\ ses'.next = ses.next /\ ses'.generation = ses.generation + 1
    BY DEF SessionBreaks, TypeInv, Fresh
  <1>4. token # 0 /\ ses.generation \in Nat /\ IsSeq(ses.wire)
    BY <1>1, <1>2 DEF SessionInv, TypeInv
  <1>5. Grown(posted, posted')
    BY BreaksReports DEF LosesOnly
  <1>6. /\ DOMAIN posted' = DOMAIN posted \cup New(posted, posted')
        /\ \A i \in DOMAIN posted : posted'[i] = posted[i]
    BY <1>5, GrownFacts
  <1>7. \A i \in New(posted, posted') :
          \/ posted'[i].what = "result" /\ ~posted'[i].ok
          \/ posted'[i].what = "state" /\ posted'[i].generation \in {ses.generation, ses.generation + 1}
    BY BreaksReports DEF LosesOnly
  <1>8. DOMAIN ses'.wire = {}
    BY <1>3, EmptyFacts
  <1>9. server' = server \/ (sent = 1 /\ server' = Outcome(Head(ses.wire)).server)
    BY DEF SessionBreaks
  <1>10. SessionInv'
    BY <1>1, <1>2, <1>3, <1>4, <1>8 DEF SessionInv, Ordered
  <1>11. ViewInv'
    <2>1. ui.generation \in Nat /\ ui.generation <= ses'.generation
      BY <1>1, <1>3, <1>4 DEF ViewOK
    <2>2. \A i \in Views(posted', token) :
            posted'[i].generation \in Nat /\ posted'[i].generation <= ses.generation + 1
      <3> SUFFICES ASSUME NEW i \in Views(posted', token)
                   PROVE  posted'[i].generation \in Nat /\ posted'[i].generation <= ses.generation + 1
        OBVIOUS
      <3>1. CASE i \in DOMAIN posted
        <4>1. i \in Views(posted, token) /\ posted'[i] = posted[i]
          BY <1>6, <3>1 DEF Views
        <4>2. posted[i].generation \in Nat /\ posted[i].generation <= ses.generation
          BY <1>1, <4>1 DEF ViewOK
        <4> QED BY <1>4, <4>1, <4>2
      <3>2. CASE i \in New(posted, posted')
        <4>1. posted'[i].generation \in {ses.generation, ses.generation + 1}
          BY <1>7, <3>2 DEF Views
        <4> QED BY <1>4, <4>1
      <3> QED BY <1>6, <3>1, <3>2 DEF Views
    <2>3. ui.optimisticPlay # None => ui.timer
      BY <1>1 DEF ViewOK
    <2> QED BY <1>2, <1>3, <2>1, <2>2, <2>3 DEF ViewInv, ViewOK
  <1>12. RepeatInv'
    <2>1. SUFFICES ASSUME NEW m, m = ui.optimisticRepeat, m # None, "repeat" \notin touched
                   PROVE  RepeatRefused(posted)' \/ RepeatDone(posted, m)'
      <3>1. NoRepeat(ses'.wire)
        BY <1>8 DEF NoRepeat
      <3> QED BY <1>2, <2>1, <3>1 DEF RepeatInv, RepeatOK, NoRepeat
    <2>2. \/ LastRepeat(ses.wire, m)
          \/ NoRepeat(ses.wire) /\ (RepeatRefused(posted) \/ RepeatDone(posted, m))
      BY <1>1, <2>1 DEF RepeatOK
    <2>3. CASE LastRepeat(ses.wire, m)
      <3>1. PICK k \in DOMAIN ses.wire : ses.wire[k].kind = "repeat"
        BY <2>3 DEF LastRepeat
      <3>2. UnderWay' = UnderWay
        BY BreaksPlaces DEF Keeps
      <3>3. ses.wire[k] \in UnderWay'
        BY <3>1, <3>2 DEF UnderWay, Held
      <3>4. PICK i \in Results(posted', token') : posted'[i].cmd = ses.wire[k]
        BY <1>8, <3>3 DEF UnderWay, Held
      <3>5. i \notin DOMAIN posted
        <4>1. i \in DOMAIN posted => i \in Results(posted, token) /\ posted'[i] = posted[i]
          BY <1>2, <1>6, <3>4 DEF Results
        <4>2. \A j \in Results(posted, token) : ses.wire[k].id # posted[j].cmd.id
          BY <3>1 DEF PlaceInv, Numbered
        <4> QED BY <3>4, <4>1, <4>2
      <3>6. ~posted'[i].ok
        BY <1>6, <1>7, <3>4, <3>5 DEF Results
      <3> QED BY <3>1, <3>4, <3>6 DEF RepeatRefused
    <2>4. CASE NoRepeat(ses.wire) /\ RepeatRefused(posted)
      <3>1. RepeatRefused(posted')
        BY <1>5, <2>4, RefusedKept
      <3> QED BY <1>2, <3>1 DEF RepeatRefused, Results
    <2>5. CASE NoRepeat(ses.wire) /\ RepeatDone(posted, m)
      <3>1. server.repeat = m
        BY <2>5 DEF RepeatDone
      <3>2. sent = 1 => Head(ses.wire).kind # "repeat"
        <4>1. sent = 1 => ses.wire # <<>>
          BY <1>2, <1>4, SeqFacts
        <4>2. sent = 1 => 1 \in DOMAIN ses.wire /\ Head(ses.wire) = ses.wire[1]
          BY <1>4, <4>1, RemovedHead
        <4> QED BY <2>5, <4>2 DEF NoRepeat
      <3>3. Head(ses.wire).kind # "repeat" => Outcome(Head(ses.wire)).server.repeat = server.repeat
        BY <1>1, OutcomeFacts
      <3>4. server'.repeat = m
        BY <1>9, <3>1, <3>2, <3>3
      <3> QED BY <1>3, <3>4 DEF RepeatDone
    <2> QED BY <2>2, <2>3, <2>4, <2>5
  <1>13. CalmInv'
    BY <1>1, <1>2, <1>4 DEF CalmInv, CalmOK, Calm
  <1>14. TabInv'
    BY <1>1, <1>2 DEF TabInv, TabOK, Calm
  <1>15. ReadInv'
    <2>1. Outcome(Head(ses.wire)).server.list \in Nat
      BY <1>1, OutcomeFacts
    <2> QED BY <1>1, <1>2, <1>3, <1>9, <2>1 DEF ReadInv
  <1> QED BY <1>10, <1>11, <1>12, <1>13, <1>14, <1>15 DEF Shown

(* A new session: nothing of the old one counts any more. *)
LEMMA ReconnectShown ==
  ASSUME TypeInv, PlaceInv, Shown, NEW again, Reconnect(again)
  PROVE  Shown'
  <1>1. CalmOK(posted, ui, tab) /\ ReadInv /\ faults \in Nat
    BY DEF Shown, CalmInv
  <1>2. /\ token' = token + 1 /\ ui' = Cleared /\ UNCHANGED <<tab, soon, server, touched, faults>>
        /\ posted' = posted \o Rejections(token, ses.wire) /\ token \in Nat
    BY DEF Reconnect, tally, TypeInv
  <1>3. /\ ses'.linked = FALSE /\ ses'.accepting = FALSE /\ ses'.wire = <<>> /\ ses'.generation = 1
    BY DEF Reconnect, Fresh
  <1>4. /\ ui'.connected = FALSE /\ ui'.generation = 0 /\ ui'.optimisticRepeat = None /\ ui'.optimisticPlay = None
        /\ ui'.reading = {}
    BY <1>2 DEF Cleared
  <1>5. \A i \in DOMAIN posted' : posted'[i].token # token'
    <2>1. IsSeq(posted) /\ IsSeq(ses.wire) /\ Honest(posted, token)
      BY DEF TypeInv, PlaceInv
    <2>2. Honest(posted', token)
      BY <1>2, <2>1, HonestRejected
    <2>3. \A i \in DOMAIN posted' : posted'[i].token \in 0 .. token
      BY <2>2 DEF Honest
    <2> QED BY <1>2, <2>3
  <1>6. Views(posted', token') = {}
    BY <1>5 DEF Views
  <1>7. DOMAIN ses'.wire = {} /\ token' # 0
    BY <1>2, <1>3, EmptyFacts
  <1>8. token' = 1 => ~tab'.open
    BY <1>1, <1>2 DEF CalmOK
  <1>9. SessionInv'
    BY <1>3, <1>7 DEF SessionInv, Ordered
  <1>10. ViewInv'
    BY <1>3, <1>4, <1>6 DEF ViewInv, ViewOK
  <1>11. RepeatInv'
    BY <1>4 DEF RepeatInv, RepeatOK
  <1>12. CalmInv'
    BY <1>1, <1>2, <1>3, <1>4, <1>5, <1>6, <1>7, <1>8 DEF CalmInv, CalmOK, Calm, StateAt, SnapshotAt
  <1>13. TabInv'
    BY <1>8 DEF TabInv, TabOK, Calm
  <1>14. ReadInv'
    BY <1>1, <1>2, <1>4 DEF ReadInv
  <1> QED BY <1>9, <1>10, <1>11, <1>12, <1>13, <1>14 DEF Shown

-----------------------------------------------------------------------------
(* The theorems                                                             *)

LEMMA StartsShown ==
  ASSUME Init
  PROVE  Shown
  <1>1. /\ token = 0 /\ posted = <<>> /\ ui = Cleared /\ soon = FALSE /\ faults = 0
        /\ tab = [open |-> FALSE, shows |-> 0]
        /\ server = [repeat |-> "off", play |-> "stopped", list |-> 1, queue |-> Tracks]
        /\ ses.alive = FALSE /\ ses.linked = FALSE /\ ses.accepting = FALSE /\ ses.wire = <<>>
        /\ ses.generation = 1
    BY DEF Init, Fresh
  <1>2. /\ ui.connected = FALSE /\ ui.generation = 0 /\ ui.optimisticRepeat = None /\ ui.optimisticPlay = None
        /\ ui.reading = {} /\ tab.open = FALSE /\ server.list = 1
    BY <1>1 DEF Cleared
  <1>3. DOMAIN posted = {} /\ DOMAIN ses.wire = {}
    BY <1>1, EmptyFacts
  <1>4. Views(posted, token) = {}
    BY <1>3 DEF Views
  <1>5. SessionInv
    BY <1>1, <1>3 DEF SessionInv, Ordered
  <1>6. ViewInv
    BY <1>1, <1>2, <1>4 DEF ViewInv, ViewOK
  <1>7. RepeatInv
    BY <1>2 DEF RepeatInv, RepeatOK
  <1>8. CalmInv
    BY <1>1, <1>2, <1>3, <1>4 DEF CalmInv, CalmOK, Calm
  <1>9. TabInv
    BY <1>2 DEF TabInv, TabOK
  <1>10. ReadInv
    BY <1>2 DEF ReadInv
  <1> QED BY <1>5, <1>6, <1>7, <1>8, <1>9, <1>10 DEF Shown

LEMMA ShownNext ==
  ASSUME TypeInv, PlaceInv, SearchInv, Shown, [Next]_vars
  PROVE  Shown'
  <1>1. \A u : SameShown(u, u)
    BY DEF SameShown, SameServer
  <1>2. ui.optimisticPlay # None => ui.timer
    BY DEF Shown, ViewInv, ViewOK
  <1>3. ASSUME NEW text, Type(text)
        PROVE  Shown'
    <2>1. UNCHANGED <<ses, posted, token, server, notice, touched, faults, tab, soon, ui>>
      BY <1>3 DEF Type
    <2> QED BY <1>1, <1>2, <2>1, QuietShown
  <1>4. CASE QueueEdit
    BY <1>4, QueueEditSends, QueueEditShown DEF EditQueue, Aside
  <1>6. CASE User
    BY <1>3, <1>6, AskShown, EnterShown, MoreShown, OpenTabShown, EditPlaylistShown,
       SetRepeatShown, TransportShown, ReconnectShown DEF User
  <1>7. CASE Others
    BY <1>7, ForeignShown DEF Others
  <1>8. CASE Timers
    BY <1>8, SearchTimerShown, ConfirmationTimerShown, RereadTimerShown DEF Timers
  <1>9. CASE Deliver
    BY <1>9, DeliverShown
  <1>10. CASE Session
    BY <1>10, ConnectsShown, RefreshesShown, ExecutesShown, NoticeShown DEF Session
  <1>11. ASSUME NEW sent \in {0, 1}, SessionBreaks(sent)
         PROVE  Shown'
    BY <1>11, BreaksShown
  <1>12. CASE UNCHANGED vars
    <2>1. UNCHANGED <<ses, posted, token, server, notice, touched, faults, tab, soon, ui>>
      BY <1>12 DEF vars
    <2> QED BY <1>1, <1>2, <2>1, QuietShown
  <1> QED BY <1>4, <1>6, <1>7, <1>8, <1>9, <1>10, <1>11, <1>12 DEF Next, Otherwise

(* Where nothing is under way, nothing is presumed and nothing is behind. *)
LEMMA NothingPresumed ==
  ASSUME TypeInv, Shown
  PROVE  SettledShowsServer
  <1> SUFFICES ASSUME Quiet
               PROVE  /\ ui.connected
                      /\ Presented(ui.optimisticPlay, ui.play) = server.play
                      /\ "repeat" \in touched \/ Presented(ui.optimisticRepeat, ui.repeat) = server.repeat
                      /\ ui.queue = server.queue
                      /\ tab.open => faults > 0 \/ token > 1 \/ tab.shows = server.list
    BY DEF SettledShowsServer
  <1>1. DOMAIN posted = {} /\ DOMAIN ses.wire = {}
    BY EmptyFacts DEF Quiet
  <1>2. Views(posted, token) = {} /\ Results(posted, token) = {}
    BY <1>1 DEF Views, Results
  <1>3. ui.connected /\ Agrees(ui, server) /\ ui.optimisticPlay = None
    BY <1>2 DEF Quiet, Shown, ViewInv, ViewOK
  <1>4. "repeat" \in touched \/ ui.optimisticRepeat = None
    BY <1>1, <1>2 DEF Quiet, Shown, RepeatInv, RepeatOK, LastRepeat, RepeatRefused, RepeatDone
  <1>5. tab.open => faults > 0 \/ token > 1 \/ tab.shows = server.list
    <2>1. SUFFICES ASSUME tab.open, ~(faults > 0), ~(token > 1)
                   PROVE  tab.shows = server.list
      OBVIOUS
    <2>2. Calm
      <3>1. faults \in Nat /\ token \in Nat /\ token # 0
        BY DEF Quiet, Shown, CalmInv, SessionInv, TypeInv
      <3> QED BY <2>1, <3>1 DEF Calm
    <2>3. CatchesUp(ses.wire, posted, ui, tab, soon)
      BY <2>1, <2>2 DEF Shown, TabInv, TabOK
    <2>4. Rereads(posted, ui) = {}
      BY <1>2 DEF Rereads
    <2> QED BY <1>1, <2>3, <2>4 DEF CatchesUp, Quiet
  <1> QED BY <1>3, <1>4, <1>5 DEF Agrees, Presented

(* The inductive invariant of the controller. *)
ControllerInv == TypeInv /\ PlaceInv /\ AskInv /\ SearchInv /\ Shown

LEMMA ControllerHolds == Spec => []ControllerInv
  <1>1. Init => ControllerInv
    BY StartsTyped, StartsShown DEF ControllerInv
  <1>2. ControllerInv /\ [Next]_vars => ControllerInv'
    <2> SUFFICES ASSUME TypeInv, PlaceInv, AskInv, SearchInv, Shown, [Next]_vars
                 PROVE  TypeInv' /\ PlaceInv' /\ AskInv' /\ SearchInv' /\ Shown'
      BY DEF ControllerInv
    <2>1. TypeInv' /\ PlaceInv'
      BY StepTyped, IdleTyped
    <2>2. AskInv'
      BY AskNext
    <2>3. SearchInv'
      BY SearchNext
    <2>4. Shown'
      BY ShownNext
    <2> QED BY <2>1, <2>2, <2>3, <2>4
  <1> QED BY <1>1, <1>2, PTL DEF Spec

(* A user who selects rows before he edits them is a user of the           *)
(* controller, so that what follows holds of MpdQueueEdits as well.        *)
LEMMA SelectionsAreEdits == EditSpec => Spec
  <1>1. EditInit => Init
    BY DEF EditInit
  <1>2. [EditNext]_evars => [Next]_vars
    <2> SUFFICES ASSUME [EditNext]_evars
                 PROVE  Next \/ UNCHANGED vars
      OBVIOUS
    <2>1. CASE \E rows \in SUBSET DOMAIN ui.queue : Select(rows)
      BY <2>1 DEF Select
    <2>2. ASSUME NEW what, NEW at \in 0 .. Len(ui.queue), Edit(what, at), what \in {"remove", "crop", "drag"}
          PROVE  Next
      <3>1. RemoveRows(selected) \/ CropToRows(selected) \/ DragRows(selected, at)
        BY <2>2 DEF Edit
      <3>2. selected \subseteq DOMAIN ui.queue
        BY <3>1 DEF RemoveRows, CropToRows, DragRows, Edits
      <3> QED BY <3>1, <3>2 DEF Next, QueueEdit
    <2>3. ASSUME NEW what \in {"remove", "crop"}, Edit(what, 0)
          PROVE  Next
      <3>1. RemoveRows(selected) \/ CropToRows(selected)
        BY <2>3 DEF Edit
      <3>2. selected \subseteq DOMAIN ui.queue
        BY <3>1 DEF RemoveRows, CropToRows, Edits
      <3> QED BY <3>1, <3>2 DEF Next, QueueEdit
    <2>4. CASE Otherwise /\ Follow
      BY <2>4 DEF Next
    <2>5. CASE UNCHANGED evars
      BY <2>5 DEF evars
    <2> QED BY <2>1, <2>2, <2>3, <2>4, <2>5 DEF EditNext
  <1> QED BY <1>1, <1>2, PTL DEF EditSpec, Spec

(* Every structured question is answered exactly once, by its own answer   *)
(* or by an error: while it waits, its command is in one place, the queue  *)
(* of the session or a report on its way, and a number that a later        *)
(* session uses again finds no completion of an earlier one                *)
(* (searchServerExpression, applyCommandResult, clearSessionState).  Other *)
(* requests promise no such thing: clearSessionState forgets a pending     *)
(* search of the panel and the reads of a playlist without a word.         *)
THEOREM EveryQuestionAnsweredOnce == Spec => []OneCompletion
  <1>1. ControllerInv => OneCompletion
    BY AskedOnce DEF ControllerInv
  <1> QED BY <1>1, ControllerHolds, PTL

(* What the panel shows, and what Enter keeps, are hits for the text that  *)
(* stands above them, page after page, whatever is typed, continued,       *)
(* cancelled or reconnected while searches are answered (searchLibrary,    *)
(* finishMpdSearch, commitMpdSearchTab).                                   *)
THEOREM HitsAreForTheText == Spec => []OneSearchShown
  <1>1. ControllerInv => OneSearchShown
    BY DEF ControllerInv, SearchInv
  <1> QED BY <1>1, ControllerHolds, PTL

(* Once nothing is on its way, the playback control and the queue show     *)
(* what the server has, after any losses and changes of server; repeat     *)
(* does if no other client has changed it, and the playlist tab as long as *)
(* no connection was lost or replaced and nothing was refused              *)
(* (applySnapshot, applyCommandResult, reloadStoredPlaylist).              *)
THEOREM PresumptionsAreSettled == Spec => []SettledShowsServer
  <1>1. ControllerInv => SettledShowsServer
    BY NothingPresumed DEF ControllerInv
  <1> QED BY <1>1, ControllerHolds, PTL
=============================================================================
