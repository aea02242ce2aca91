---------------------------- MODULE MpdQueueEdits ----------------------------
(***************************************************************************)
(* Rows of the play queue the user selects, and then removes, crops to or  *)
(* drags, while the queue changes under the selection                      *)
(* (removeSelectedRows, QueueTableView::dropEvent and                      *)
(* MpdQueueModel::replaceTracks over MpdController).                       *)
(*                                                                         *)
(* Between the click that selects a row and the edit the server makes of   *)
(* it, snapshots arrive, other clients edit the queue, the edit waits in   *)
(* the session and the connection may break.  The view holds row numbers;  *)
(* they become song ids when the user presses the key or drops the rows,   *)
(* from the snapshot on the screen; the server applies them to the queue   *)
(* it has by then.                                                         *)
(*                                                                         *)
(*   selected  rows of the view's selection                                *)
(*   pointed   history: the tracks in those rows when the user chose them  *)
(*   meant     history: what the user meant by the edits that wait         *)
(*                                                                         *)
(* The queue is not stashed behind another playback context.               *)
(***************************************************************************)
EXTENDS MpdController

VARIABLES selected, pointed, meant

evars == <<vars, selected, pointed, meant>>

EditInit == Init /\ selected = {} /\ pointed = {} /\ meant = <<>>

\* After the last edit nothing is selected (a bound).
MayEdit == scene = "queue" /\ ops < Patience("queue")

Select(rows) ==
  /\ MayEdit
  /\ rows # {}
  /\ selected' = rows
  /\ pointed' = Ids(rows)
  /\ UNCHANGED <<vars, meant>>

-----------------------------------------------------------------------------
(* The edit                                                                 *)

\* What is meant by commands that are no longer in the queue is forgotten.
Waiting(edits) ==
  SelectSeq(edits, LAMBDA m : \E i \in DOMAIN ses'.wire : ses'.wire[i].id = m.id)

Edit(what, at) ==
  /\ selected # {}
  /\ \/ what = "remove" /\ RemoveRows(selected)
     \/ what = "crop" /\ CropToRows(selected)
     \/ what = "drag" /\ DragRows(selected, at)
  /\ meant' = Waiting(Append(meant,
                [id |-> NewId, what |-> what, pointed |-> pointed,
                 above |-> ToSet(SubSeq(ui.queue, 1, at)), shown |-> ui.queue]))
  /\ IF ops' < Patience("queue") THEN UNCHANGED <<selected, pointed>>
     ELSE selected' = {} /\ pointed' = {}

-----------------------------------------------------------------------------
(* The view                                                                 *)

\* The one row whose insertion, removal or move (from, to) makes the tracks of
\* the model those of the snapshot.
InsertedRows(before, after) == {i \in DOMAIN after : RemoveAt(after, i) = before}
RemovedRows(before, after) == {i \in DOMAIN before : RemoveAt(before, i) = after}
MovedRows(before, after) ==
  {move \in (DOMAIN before) \X (DOMAIN before) :
     before # after /\ Moved(before, before[move[1]], move[2] - 1) = after}

\* Where Qt takes a selected row to when a row leaves, or comes.
Left(r, i) == IF r > i THEN r - 1 ELSE r
Came(r, i) == IF r >= i THEN r + 1 ELSE r

\* Mutation: a track that is gone is announced as changed data.
KeptInPlace(rows, before, after) ==
  IF RemovedRows(before, after) # {} THEN rows \cap DOMAIN after
  ELSE {k \in DOMAIN after : \E r \in rows : before[r] = after[k]}

\* MpdQueueModel::replaceTracks: the rows that stay selected.  One row that
\* comes, goes or moves takes the others along; any other change resets the
\* model, and nothing is selected.
Kept(rows, before, after) ==
  CASE before = after -> rows
    [] InsertedRows(before, after) # {} ->
         LET i == CHOOSE i \in InsertedRows(before, after) : TRUE IN {Came(r, i) : r \in rows}
    [] RemovedRows(before, after) # {} ->
         LET i == CHOOSE i \in RemovedRows(before, after) : TRUE IN {Left(r, i) : r \in rows \ {i}}
    [] MovedRows(before, after) # {} ->
         LET m == CHOOSE m \in MovedRows(before, after) : TRUE
         IN  {IF r = m[1] THEN m[2] ELSE Came(Left(r, m[1]), m[2]) : r \in rows}
    [] OTHER -> {}

\* Everything else that happens: a snapshot, a loss and a change of the server
\* replace the tracks of the model.
Follow ==
  /\ selected' = Kept(selected, ui.queue, ui'.queue)
  /\ pointed' = IF selected' = {} THEN {} ELSE pointed
  /\ meant' = Waiting(meant)

EditNext ==
  \/ \E rows \in SUBSET DOMAIN ui.queue : Select(rows)
  \/ \E what \in {"remove", "crop"} : Edit(what, 0)
  \/ \E at \in 0 .. Len(ui.queue) : Edit("drag", at)
  \/ Otherwise /\ Follow

EditSpec == EditInit /\ [][EditNext]_evars /\ Fairness

-----------------------------------------------------------------------------
(* Properties                                                               *)

\* The server carries out a command of the user in this step, and answers it
\* well; `cmd' is what the user meant by it.
Runs(what) ==
  /\ meant # <<>> /\ ses'.wire = Tail(ses.wire)
  /\ Head(ses.wire).id = Head(meant).id /\ Head(meant).what = what

Succeeds == posted' # posted /\ Last(posted').what = "result" /\ Last(posted').ok

Gone == ToSet(server.queue) \ ToSet(server'.queue)

\* A removal takes from the server's queue the tracks the user selected and no
\* other, a crop none of them and no track the user did not see; and when the
\* server answers that it is done, all of them are gone.  (Clearing takes
\* everything, and is no removal of the selected.)
RemovesTheSelected ==
  LET m == Head(meant)
      cmd == Head(ses.wire)
  IN  /\ Runs("remove") /\ cmd.kind = "delete" =>
           /\ Gone \subseteq m.pointed
           /\ Succeeds => m.pointed \cap ToSet(server'.queue) = {}
      /\ Runs("crop") =>
           /\ Gone \subseteq ToSet(m.shown) \ m.pointed
           /\ Succeeds => ToSet(m.shown) \cap ToSet(server'.queue) \subseteq m.pointed

Precedes(q, a, b) == \E i, j \in DOMAIN q : i < j /\ q[i] = a /\ q[j] = b

\* The tracks no dragged one has to pass on its way to the drop.
NotPassed(m, dragged) ==
  {o \in ToSet(m.shown) \ dragged :
     \A d \in dragged : Precedes(m.shown, o, d) <=> o \in m.above}

\* A drag never loses or adds a track.  If the server still has the queue the
\* user saw, the rows above the drop end above the dropped ones and those below
\* it below them, the dropped and the others each in their old order.  If the
\* queue has changed since, the tracks no dragged one has to pass and those the
\* user has not seen keep their order.
DropsAsAimed ==
  Runs("drag") =>
    LET m == Head(meant)
        before == server.queue
        after == server'.queue
        dragged == m.pointed \cap ToSet(m.shown)
        others == ToSet(m.shown) \ dragged
        still == NotPassed(m, dragged) \cup (ToSet(before) \ ToSet(m.shown))
    IN  /\ ToSet(after) = ToSet(before) /\ Len(after) = Len(before)
        /\ before = m.shown /\ Succeeds =>
             /\ \A d \in dragged, o \in others : Precedes(after, o, d) <=> o \in m.above
             /\ \A part \in {dragged, others} : \A a, b \in part :
                  Precedes(before, a, b) => Precedes(after, a, b)
        /\ \A a, b \in still : Precedes(before, a, b) => Precedes(after, a, b)

\* An edit of the queue does to the tracks the user pointed at what the user
\* meant, and to no other, however the queue has changed since the rows were
\* selected: under the selection, while the edit waited, or not at all
\* (replaceTracks, removeQueueItems, cropQueueToItems, moveQueueItems).
QueueEditsLandAsAimed == [][RemovesTheSelected /\ DropsAsAimed]_evars

\* Claimed (docs/mpd-client.md:212) of a drag: no other client's edit is
\* overwritten, so tracks the user did not drag keep their order.
OthersKeepTheirOrder ==
  [][ Runs("drag") =>
        \A a, b \in ToSet(server.queue) \ Head(meant).pointed :
          Precedes(server.queue, a, b) => Precedes(server'.queue, a, b) ]_evars

\* Claimed (docs/mpd-client.md:185) of a removal: it addresses occurrences, so
\* a track the user has not selected stays.
OnlySelectedLeave ==
  [][ Runs("remove") => Gone \subseteq Head(meant).pointed ]_evars
=============================================================================
