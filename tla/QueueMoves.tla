------------------------------ MODULE QueueMoves ------------------------------
(***************************************************************************)
(* How a drag in the queue becomes moves of song ids                       *)
(* (MpdProbeController::moveQueueItems) and what the server makes of them. *)
(*                                                                         *)
(* A queue is a sequence of song ids, each there once; rows count from 1,  *)
(* positions of the protocol and drop rows from 0.                         *)
(***************************************************************************)
EXTENDS Naturals, Sequences, FiniteSets, SequencesExt

None == "none"

\* Moving song id to position `at' of queue q (0 is the front).
Moved(q, id, at) ==
  LET rest == SelectSeq(q, LAMBDA i : i # id)
  IN  SubSeq(rest, 1, at) \o <<id>> \o SubSeq(rest, at + 1, Len(rest))

\* A command list stops at the first id the queue does not have.
OneDelete(run, id) ==
  CASE run.problem # None -> run
    [] run.problem = None /\ id \notin ToSet(run.queue) -> [run EXCEPT !.problem = "missing"]
    [] run.problem = None /\ id \in ToSet(run.queue) ->
         [run EXCEPT !.queue = SelectSeq(@, LAMBDA i : i # id)]

\* A command list stops at the first move the server cannot make.
OneMove(run, m) ==
  CASE run.problem # None -> run
    [] run.problem = None /\ m.id \notin ToSet(run.queue) -> [run EXCEPT !.problem = "missing"]
    [] run.problem = None /\ m.id \in ToSet(run.queue) ->
         IF m.at < Len(run.queue) THEN [run EXCEPT !.queue = Moved(@, m.id, m.at)]
         ELSE [run EXCEPT !.problem = "index"]

\* Mutation: the drop position is not corrected for the rows that leave above it.
OrderUncorrected(view, rows, at) ==
  LET picked == SelectSeq(view, LAMBDA i : \E r \in rows : view[r] = i)
      others == SelectSeq(view, LAMBDA i : \A r \in rows : view[r] # i)
      cut == IF at > Len(others) THEN Len(others) ELSE at
  IN  SubSeq(others, 1, cut) \o picked \o SubSeq(others, cut + 1, Len(others))

\* The order the user asks for: the dropped rows stay together.
Order(view, rows, at) ==
  LET picked == SelectSeq(view, LAMBDA i : \E r \in rows : view[r] = i)
      others == SelectSeq(view, LAMBDA i : \A r \in rows : view[r] # i)
      above == Cardinality({r \in DOMAIN view \ rows : r <= at})
  IN  SubSeq(others, 1, above) \o picked \o SubSeq(others, above + 1, Len(others))

\* One round of the planning loop: bring the track that belongs at `target'.
PlanStep(plan, want, target) ==
  IF plan.working[target] = want[target] THEN plan
  ELSE [working |-> Moved(plan.working, want[target], target - 1),
        moves |-> Append(plan.moves, [id |-> want[target], at |-> target - 1])]

\* The moves that bring the queue into the wanted order.
Moves(view, want) ==
  FoldLeft(LAMBDA plan, target : PlanStep(plan, want, target),
           [working |-> view, moves |-> <<>>], [i \in 1 .. Len(want) |-> i]).moves
=============================================================================
