---------------------------- MODULE MpdController ----------------------------
(***************************************************************************)
(* The MPD controller of the desktop                                       *)
(* (src/src/quick/mpd_probe_controller.cpp) with the search panel and the  *)
(* playlist tab it feeds (src/src/bench/bench_mpd.cpp,                     *)
(* bench_mpd_playlists.cpp).                                               *)
(*                                                                         *)
(* Everything here runs on the user interface thread.  The session         *)
(* (MpdSession) reports from its own threads; each report is posted to the *)
(* event loop with the connection token it was made under, so it is        *)
(* delivered later, in order, when the user may have asked for something   *)
(* else, or have changed the server.  Command numbers start again at 1 with*)
(* every session.                                                          *)
(*                                                                         *)
(*   scene      what the user touches: a bound on the mix of operations    *)
(*   ses        the session: its connection and its queue of commands      *)
(*   posted     reports on their way to the event loop                     *)
(*   ui         the controller's members                                   *)
(*   panel      the search panel                                           *)
(*   tab, soon  the open playlist tab and its 400 ms re-read timer         *)
(*   server     what the server holds                                      *)
(*                                                                         *)
(* Abstracted: artwork, browsing, ratings and outputs, which use the same  *)
(* slots; a page of search results is one row; the playlist is a version.  *)
(***************************************************************************)
EXTENDS QueueMoves

CONSTANTS
  Scenes,          \* what a user may be busy with
  Texts,           \* search texts
  MaxConnections,  \* bound: sessions begun or ended
  MaxOps,          \* bound: what the user does
  MaxForeign,      \* bound: changes made by other clients
  MaxBacklog,      \* bound: reports that wait for the event loop
  MaxFaults        \* bound: connections lost and commands refused

ASSUME ControllerAssumption ==
  /\ Scenes \subseteq {"questions", "search", "controls", "playlist", "queue"}
  /\ "" \notin Texts
  /\ MaxConnections \in Nat /\ MaxOps \in Nat /\ MaxForeign \in Nat /\ MaxFaults \in Nat /\ MaxBacklog \in Nat \ {0}

Pages == 2                  \* a text has one full page of hits and a last one
Tracks == <<1, 2, 3>>       \* song ids of the server's queue

VARIABLES scene, token, ses, posted, ui, panel, kept, tab, soon, server, notice,
          heard, touched, ops, faults

vars == <<scene, token, ses, posted, ui, panel, kept, tab, soon, server, notice,
          heard, touched, ops, faults>>

\* What the user and other clients have done so far.
tally == <<scene, touched, ops, faults>>

\* clearSessionState, the value of the members it resets.
Cleared ==
  [connected |-> FALSE, generation |-> 0,
   repeat |-> "off", optimisticRepeat |-> None,
   play |-> "unknown", optimisticPlay |-> None, playCommand |-> 0, timer |-> FALSE,
   asking |-> {},
   search |-> 0, text |-> "", last |-> "", append |-> FALSE, more |-> FALSE, rows |-> <<>>,
   reading |-> {}, edits |-> {},
   queue |-> <<>>]

\* A session that has been constructed and not connected yet.
Fresh == [alive |-> TRUE, linked |-> FALSE, accepting |-> FALSE, refresh |-> FALSE,
          generation |-> 1, next |-> 1, wire |-> <<>>]

Init ==
  /\ scene \in Scenes
  /\ token = 0
  /\ ses = [Fresh EXCEPT !.alive = FALSE]
  /\ posted = <<>> /\ ui = Cleared
  /\ panel = [field |-> "", timer |-> FALSE, rows |-> <<>>, more |-> FALSE,
              state |-> "idle", parked |-> ""]
  /\ kept = {}
  /\ tab = [open |-> FALSE, shows |-> 0] /\ soon = FALSE
  /\ server = [repeat |-> "off", play |-> "stopped", list |-> 1, queue |-> Tracks]
  /\ notice = {}
  /\ heard = <<>>
  /\ touched = {} /\ ops = 0 /\ faults = 0

-----------------------------------------------------------------------------
(* The session as the controller sees it                                    *)

Result(of, cmd, ok, answer) ==
  [token |-> of, what |-> "result", cmd |-> cmd, ok |-> ok, answer |-> answer]

\* What a session that stops or loses its connection says of its queue.
Rejections(of, wire) ==
  [i \in 1 .. Len(wire) |-> Result(of, wire[i], FALSE, None)]

IsQuery(kind) == kind \in {"ask", "search", "read"}

\* Mutation: a command the session does not accept is dropped without a word.
EnqueuedSilently(wire, reports, kind, arg) ==
  [ses |-> [ses EXCEPT !.next = @ + 1,
                       !.wire = IF ses.accepting
                                THEN Append(wire, [id |-> ses.next, kind |-> kind, arg |-> arg])
                                ELSE wire],
   posted |-> reports]

\* Where a mutation goes: before the first query that waits.
FirstQuery(wire) ==
  CHOOSE i \in 1 .. Len(wire) + 1 :
    /\ i <= Len(wire) => IsQuery(wire[i].kind)
    /\ \A j \in 1 .. i - 1 : ~IsQuery(wire[j].kind)

\* Session::Impl::enqueue on top of the queue and the reports that are there:
\* the session and the reports after it.
Enqueued(wire, reports, kind, arg) ==
  LET c == [id |-> ses.next, kind |-> kind, arg |-> arg]
      at == IF IsQuery(kind) THEN Len(wire) + 1 ELSE FirstQuery(wire)
  IN  IF ses.accepting
      THEN [ses |-> [ses EXCEPT !.next = @ + 1, !.wire = InsertAt(wire, at, c)],
            posted |-> reports]
      ELSE [ses |-> [ses EXCEPT !.next = @ + 1, !.wire = wire],
            posted |-> Append(reports, Result(token, c, FALSE, None))]

\* The number it returns, and its effect.
NewId == ses.next
Submit(kind, arg) ==
  LET e == Enqueued(ses.wire, posted, kind, arg)
  IN  ses' = e.ses /\ posted' = e.posted

\* The queue and the reports once cancel_pending(id) has been called.
Place(id) == CHOOSE i \in DOMAIN ses.wire : ses.wire[i].id = id
Waits(id) == \E i \in DOMAIN ses.wire : ses.wire[i].id = id
Without(id) == IF Waits(id) THEN RemoveAt(ses.wire, Place(id)) ELSE ses.wire
Cancelled(id) ==
  IF Waits(id) THEN Append(posted, Result(token, ses.wire[Place(id)], FALSE, None)) ELSE posted

\* The event loop keeps up with the session to this extent.
Room == Len(posted) < MaxBacklog

SessionConnects ==
  /\ ses.alive /\ ~ses.linked /\ Room
  /\ ses' = [ses EXCEPT !.linked = TRUE, !.refresh = TRUE]
  /\ posted' = Append(posted, [token |-> token, what |-> "state",
                               generation |-> ses.generation])
  /\ UNCHANGED <<token, ui, panel, kept, tab, soon, server, notice, heard, tally>>

\* The snapshot is read, commands are accepted, then it is published.
SessionRefreshes ==
  /\ ses.linked /\ ses.refresh /\ Room
  /\ ses' = [ses EXCEPT !.refresh = FALSE, !.accepting = TRUE]
  /\ posted' = Append(posted, [token |-> token, what |-> "snapshot",
                               generation |-> ses.generation, seen |-> server])
  /\ UNCHANGED <<token, ui, panel, kept, tab, soon, server, notice, heard, tally>>

\* What the server makes of a command: its new state and what was wrong.
Outcome(cmd) ==
  LET with(queue) == [server EXCEPT !.queue = queue]
      none == [queue |-> server.queue, problem |-> None]
      run == CASE cmd.kind = "delete" -> FoldLeft(OneDelete, none, cmd.arg)
               [] cmd.kind = "drag" -> FoldLeft(OneMove, none, cmd.arg)
               [] cmd.kind = "clear" -> [none EXCEPT !.queue = <<>>]
               [] OTHER -> none
  IN  [problem |-> run.problem,
       server |-> CASE cmd.kind = "repeat" -> [server EXCEPT !.repeat = cmd.arg]
                    [] cmd.kind = "transport" -> [server EXCEPT !.play = cmd.arg]
                    [] cmd.kind = "edit" -> [server EXCEPT !.list = @ + 1]
                    [] OTHER -> [server EXCEPT !.queue = run.queue]]

Subsystem(kind) == IF kind = "edit" THEN "list" ELSE "state"

\* The payload of the answer to a query.
Answer(cmd) ==
  CASE cmd.kind = "ask" -> cmd.arg
    [] cmd.kind = "search" -> cmd.arg
    [] cmd.kind = "read" -> server.list
    [] OTHER -> None

\* The server carries out the oldest command, or refuses it.  A control and an
\* edit of the queue are followed by a refresh, a song that is gone too.
SessionExecutes ==
  /\ ses.linked /\ ~ses.refresh /\ ses.wire # <<>> /\ Room
  /\ LET cmd == Head(ses.wire)
         outcome == Outcome(cmd)
         own == cmd.kind \in {"delete", "clear", "drag", "repeat", "transport"}
     IN  \/ /\ posted' = Append(posted, Result(token, cmd, outcome.problem = None, Answer(cmd)))
            /\ server' = outcome.server
            /\ ses' = [ses EXCEPT !.wire = Tail(@),
                                  !.refresh = own /\ outcome.problem # "index"]
            /\ notice' = IF outcome.server = server THEN notice
                         ELSE notice \cup {Subsystem(cmd.kind)}
            /\ UNCHANGED faults
         \/ /\ faults < MaxFaults
            /\ faults' = faults + 1
            /\ posted' = Append(posted, Result(token, cmd, FALSE, None))
            /\ ses' = [ses EXCEPT !.wire = Tail(@)]
            /\ UNCHANGED <<server, notice>>
  /\ UNCHANGED <<scene, touched, ops, token, ui, panel, kept, tab, soon, heard>>

\* The connection breaks under the first `sent' commands, none or the oldest,
\* which may have reached the server; the next generation begins.
SessionBreaks(sent) ==
  LET lost(first, last) == Rejections(token, SubSeq(ses.wire, first, last))
      state(generation) == <<[token |-> token, what |-> "state", generation |-> generation]>>
  IN  /\ ses.linked /\ faults < MaxFaults
      /\ sent <= Len(ses.wire) /\ (sent = 1 => ~ses.refresh)
      /\ faults' = faults + 1
      /\ posted' = posted \o lost(1, sent) \o state(ses.generation)
                     \o lost(sent + 1, Len(ses.wire)) \o state(ses.generation + 1)
      /\ ses' = [ses EXCEPT !.linked = FALSE, !.accepting = FALSE, !.wire = <<>>,
                            !.generation = @ + 1]
      /\ \/ UNCHANGED <<server, notice>>
         \/ /\ sent = 1
            /\ server' = Outcome(Head(ses.wire)).server
            /\ server' # server
            /\ notice' = notice \cup {Subsystem(Head(ses.wire).kind)}
      /\ UNCHANGED <<scene, touched, ops, token, ui, panel, kept, tab, soon, heard>>

\* The idle connection reports what changed: playlist changes go to the
\* controller, everything asks for a refresh.
NoticeArrives ==
  /\ notice # {} /\ ses.alive /\ Room
  /\ notice' = {}
  /\ ses' = [ses EXCEPT !.refresh = @ \/ ses.linked]
  /\ posted' = IF "list" \in notice
               THEN Append(posted, [token |-> token, what |-> "notice"]) ELSE posted
  /\ UNCHANGED <<token, ui, panel, kept, tab, soon, server, heard, tally>>

\* The queue after another client has added a track, removed or moved one.
Changed ==
  LET q == server.queue
  IN  {InsertAt(q, at, Len(Tracks) + 1) : at \in 1 .. Len(q) + 1}
        \cup {RemoveAt(q, at) : at \in DOMAIN q}
        \cup ({Moved(q, id, at) : id \in ToSet(q), at \in 0 .. Len(q) - 1} \ {q})

\* Another client changes something.
Foreign(what, queue) ==
  /\ Cardinality(touched) < MaxForeign /\ what \notin touched
  /\ ses.alive
  /\ touched' = touched \cup {what}
  /\ server' = CASE what = "repeat" -> [server EXCEPT !.repeat = IF @ = "on" THEN "off" ELSE "on"]
                 [] what = "play" -> [server EXCEPT !.play = "playing"]
                 [] what = "list" -> [server EXCEPT !.list = @ + 1]
                 [] what = "queue" -> [server EXCEPT !.queue = queue]
  /\ notice' = notice \cup {IF what = "list" THEN "list" ELSE "state"}
  /\ UNCHANGED <<scene, ops, faults, token, ses, posted, ui, panel, kept, tab, soon,
                 heard>>

-----------------------------------------------------------------------------
(* The search panel                                                         *)

\* refreshMpdStatusControls, which every stateChanged ends in: a text that was
\* never searched for is searched once there is a connection.
Followed(p, u) ==
  LET due == u.connected /\ p.field # "" /\ p.field # u.last
  IN  [p EXCEPT !.timer = @ \/ due,
                !.more = u.connected /\ u.more /\ p.field = u.last /\ ~p.timer /\ ~due]

\* commitMpdSearchTab at the point where the hits are taken.
Keep(query, u, failed) ==
  IF u.rows = <<>> THEN kept ELSE kept \cup {[query |-> query, rows |-> u.rows, failed |-> failed]}

\* finishMpdSearch: only the text still in the field is shown.
Finished(p, u, query, success) ==
  IF query # p.field \/ query = "" THEN p
  ELSE [p EXCEPT !.rows = IF success THEN u.rows ELSE <<>>,
                 !.state = IF success THEN "done" ELSE "failed",
                 !.parked = IF @ = query THEN "" ELSE @]

\* A commit that waited for this search.
Unparked(p, u, query, success) ==
  IF success /\ query = p.field /\ query # "" /\ p.parked = query
  THEN Keep(query, u, FALSE) ELSE kept

\* searchLibrary with the text of the field, on panel p.
SearchFor(p) ==
  LET id == ui.search
      wire == IF id = 0 THEN ses.wire ELSE Without(id)
      reports == IF id = 0 THEN posted ELSE Cancelled(id)
      e == Enqueued(wire, reports, "search", [text |-> p.field, page |-> 0])
      u == [ui EXCEPT !.search = NewId, !.text = p.field, !.last = p.field,
                      !.append = FALSE, !.more = FALSE]
      none == [ui EXCEPT !.search = 0, !.text = "", !.last = "", !.append = FALSE,
                         !.more = FALSE, !.rows = <<>>]
  IN  CASE p.field = "" ->
             /\ ui' = none
             /\ ses' = [ses EXCEPT !.wire = wire] /\ posted' = reports
             /\ panel' = Followed([p EXCEPT !.state = "idle"], none)
        [] p.field # "" /\ ~ui.connected ->
             /\ panel' = Followed(Finished(p, ui, p.field, FALSE), ui)
             /\ UNCHANGED <<ui, ses, posted>>
        [] OTHER ->
             /\ ui' = u /\ ses' = e.ses /\ posted' = e.posted
             /\ panel' = Followed([p EXCEPT !.state = "searching"], u)

\* Questions and searches are cheap, and need one more step to be of interest;
\* an edit of the queue has many forms.
Patience(what) ==
  CASE what \in {"questions", "search"} -> MaxOps + 1
    [] what = "queue" -> MaxOps - 1
    [] OTHER -> MaxOps

Does(what) == scene = what /\ ops < Patience(what) /\ ops' = ops + 1

\* The field changes: what is shown goes, and the 200 ms timer starts.
Type(text) ==
  /\ Does("search") /\ text # panel.field
  /\ panel' = [panel EXCEPT !.field = text, !.timer = TRUE, !.rows = <<>>,
                            !.parked = "", !.state = "searching"]
  /\ UNCHANGED <<scene, touched, faults, token, ses, posted, ui, kept, tab, soon,
                 server, notice, heard>>

\* previewMpdSearch.
SearchTimer ==
  /\ panel.timer
  /\ SearchFor([panel EXCEPT !.timer = FALSE])
  /\ UNCHANGED <<token, kept, tab, soon, server, notice, heard, tally>>

\* commitMpdSearchTab: Enter keeps the finished hits, or waits for them.
Enter ==
  /\ Does("search") /\ panel.field # ""
  /\ IF panel.timer \/ ui.search # 0 \/ (ui.connected /\ panel.field # ui.last)
     THEN /\ SearchFor([panel EXCEPT !.timer = FALSE, !.parked = panel.field])
          /\ UNCHANGED kept
     ELSE /\ kept' = Keep(panel.field, ui, panel.state = "failed")
          /\ UNCHANGED <<ui, ses, posted, panel>>
  /\ UNCHANGED <<scene, touched, faults, token, tab, soon, server, notice, heard>>

\* continueSearch.
More ==
  /\ Does("search") /\ panel.more
  /\ ui.connected /\ ui.search = 0 /\ ui.more /\ ui.last # ""
  /\ LET u == [ui EXCEPT !.search = NewId, !.text = ui.last, !.append = TRUE]
     IN  ui' = u /\ panel' = Followed(panel, u)
  /\ Submit("search", [text |-> ui.last, page |-> Len(ui.rows)])
  /\ UNCHANGED <<scene, touched, faults, token, kept, tab, soon, server, notice, heard>>

-----------------------------------------------------------------------------
(* What else the user does                                                  *)

\* The part of the state no command of the user touches.
Aside == <<scene, touched, faults, token, kept, tab, soon, server, notice>>

\* searchServerExpression: the answer goes to a completion of its own.
Ask ==
  LET q == Len(heard) + 1 IN
  /\ Does("questions")
  /\ IF ui.connected
     THEN /\ Submit("ask", q)
          /\ ui' = [ui EXCEPT !.asking = @ \cup {[id |-> NewId, question |-> q]}]
          /\ heard' = Append(heard, <<>>)
     ELSE heard' = Append(heard, <<0>>) /\ UNCHANGED <<ses, posted, ui>>
  /\ UNCHANGED <<Aside, panel>>

\* setRepeatEnabled.
SetRepeat(mode) ==
  /\ Does("controls") /\ ui.connected
  /\ ui' = [ui EXCEPT !.optimisticRepeat = mode]
  /\ Submit("repeat", mode)
  /\ UNCHANGED <<Aside, panel, heard>>

\* submitTransport with beginOptimisticPlayback.
Transport(state) ==
  /\ Does("controls") /\ ui.connected
  /\ ui' = [ui EXCEPT !.playCommand = NewId, !.optimisticPlay = state, !.timer = TRUE]
  /\ Submit("transport", state)
  /\ UNCHANGED <<Aside, panel, heard>>

\* playback_confirmation_timer_.
ConfirmationTimer ==
  /\ ui.timer
  /\ ui' = [ui EXCEPT !.timer = FALSE, !.optimisticPlay = None]
  /\ UNCHANGED <<token, ses, posted, panel, kept, tab, soon, server, notice, heard, tally>>

\* openMpdPlaylistTab with reloadStoredPlaylist.
OpenTab ==
  /\ Does("playlist") /\ ui.connected
  /\ tab' = [tab EXCEPT !.open = TRUE]
  /\ ui' = [ui EXCEPT !.reading = @ \cup {NewId}]
  /\ Submit("read", None)
  /\ UNCHANGED <<scene, touched, faults, token, kept, soon, server, notice, panel, heard>>

\* An edit of the stored playlist in the tab.
EditPlaylist ==
  /\ Does("playlist") /\ ui.connected /\ tab.open
  /\ ui' = [ui EXCEPT !.edits = @ \cup {NewId}]
  /\ Submit("edit", None)
  /\ UNCHANGED <<Aside, panel, heard>>

\* The tab is re-read some time after the server said playlists changed.
RereadTimer ==
  /\ soon
  /\ soon' = FALSE
  /\ IF ui.connected /\ tab.open
     THEN /\ ui' = [ui EXCEPT !.reading = @ \cup {NewId}]
          /\ Submit("read", None)
     ELSE UNCHANGED <<ui, ses, posted>>
  /\ UNCHANGED <<token, panel, kept, tab, server, notice, heard, tally>>

\* The song ids in these rows (queueIdAt).
Ids(rows) == {ui.queue[r] : r \in rows}

\* An edit of these rows of the queue on the screen.
Edits(rows) ==
  /\ Does("queue") /\ ui.connected
  /\ rows # {} /\ rows \subseteq DOMAIN ui.queue

EditQueue(kind, arg) ==
  /\ Submit(kind, arg)
  /\ UNCHANGED <<Aside, ui, panel, heard>>

\* removeQueueItems: the ids, in whatever order the selection lists its rows;
\* all rows of the view are removed by clearing the queue.
RemoveRows(rows) ==
  /\ Edits(rows)
  /\ IF rows = DOMAIN ui.queue THEN EditQueue("clear", None)
     ELSE \E ids \in SetToSeqs(Ids(rows)) : EditQueue("delete", ids)

\* cropQueueToItems.
CropToRows(rows) ==
  /\ Edits(rows) /\ rows # DOMAIN ui.queue
  /\ EditQueue("delete", SelectSeq(ui.queue, LAMBDA id : id \notin Ids(rows)))

\* moveQueueItems: the rows are dropped before row `at' (counted from 0).
DragRows(rows, at) ==
  LET want == Order(ui.queue, rows, at) IN
  /\ Edits(rows) /\ at \in 0 .. Len(ui.queue)
  /\ want # ui.queue
  /\ EditQueue("drag", Moves(ui.queue, want))

\* Mutation: the questions of the old session are forgotten.
OrphanedSilently == heard

\* clearSessionState: a question nobody will answer any more is answered.
Orphaned ==
  [q \in DOMAIN heard |->
     IF \E a \in ui.asking : a.question = q THEN Append(heard[q], 0) ELSE heard[q]]

\* probeProfile and disconnectFromServer: the old session is destroyed, which
\* rejects what waits; its reports are still on their way.
Reconnect(again) ==
  /\ token < MaxConnections /\ (again \/ ses.alive)
  /\ token' = token + 1
  /\ ses' = [Fresh EXCEPT !.alive = again]
  /\ posted' = posted \o Rejections(token, ses.wire)
  /\ notice' = {}
  /\ heard' = Orphaned
  /\ ui' = Cleared
  /\ panel' = Followed(panel, Cleared)
  /\ UNCHANGED <<kept, tab, soon, server, tally>>

-----------------------------------------------------------------------------
(* The event loop delivers the oldest report                                *)

OfThisSession(report) == report.token = token

\* The next report is a current one of this sort.
Due(what) == posted # <<>> /\ OfThisSession(Head(posted)) /\ Head(posted).what = what
DueResult(kinds) == Due("result") /\ Head(posted).cmd.kind \in kinds
Delivered == posted' = Tail(posted)

DropStale ==
  /\ posted # <<>> /\ ~OfThisSession(Head(posted))
  /\ Delivered
  /\ UNCHANGED <<token, ses, ui, panel, kept, tab, soon, server, notice, heard, tally>>

\* applyState.
DeliverState ==
  /\ Due("state")
  /\ Delivered
  /\ LET u == IF Head(posted).generation < ui.generation THEN ui
              ELSE [ui EXCEPT !.generation = Head(posted).generation, !.connected = FALSE]
     IN  ui' = u /\ panel' = Followed(panel, u)
  /\ UNCHANGED <<token, ses, kept, tab, soon, server, notice, heard, tally>>

\* Mutation: any snapshot ends the wait for the playback command.
ReconciledAtOnce(u, seen) ==
  [u EXCEPT !.repeat = seen.repeat, !.play = seen.play, !.queue = seen.queue,
            !.timer = FALSE,
            !.optimisticPlay = IF @ = seen.play THEN None ELSE @,
            !.optimisticRepeat = IF @ = seen.repeat THEN None ELSE @]

\* applySnapshot: a control the server confirms is no longer presumed.
Reconciled(u, seen) ==
  [u EXCEPT !.repeat = seen.repeat, !.play = seen.play, !.queue = seen.queue,
            !.timer = @ /\ u.optimisticPlay # seen.play,
            !.optimisticPlay = IF @ = seen.play THEN None ELSE @,
            !.optimisticRepeat = IF @ = seen.repeat THEN None ELSE @]

DeliverSnapshot ==
  /\ Due("snapshot")
  /\ Delivered
  /\ LET report == Head(posted)
         u == IF report.generation < ui.generation THEN ui
              ELSE Reconciled([ui EXCEPT !.generation = report.generation,
                                         !.connected = TRUE], report.seen)
     IN  ui' = u /\ panel' = Followed(panel, u)
  /\ UNCHANGED <<token, ses, kept, tab, soon, server, notice, heard, tally>>

\* storedPlaylistsChanged starts the re-read timer.
DeliverNotice ==
  /\ Due("notice")
  /\ Delivered
  /\ soon' = TRUE
  /\ UNCHANGED <<token, ses, ui, panel, kept, tab, server, notice, heard, tally>>

\* The completion that was stored under this number is called.
DeliverAnswer ==
  /\ DueResult({"ask"})
  /\ Delivered
  /\ LET report == Head(posted)
         mine == {a \in ui.asking : a.id = report.cmd.id}
     IN  /\ heard' = [q \in DOMAIN heard |->
              IF \E a \in mine : a.question = q
              THEN Append(heard[q], IF report.ok THEN report.answer ELSE 0) ELSE heard[q]]
         /\ ui' = [ui EXCEPT !.asking = @ \ mine]
         /\ panel' = Followed(panel, ui)
  /\ UNCHANGED <<token, ses, kept, tab, soon, server, notice, tally>>

\* Mutation: whatever search answers is taken for the pending one.
AnySearch(id) == ui.search # 0

Awaited(id) == ui.search = id

DeliverHits ==
  /\ DueResult({"search"})
  /\ Delivered
  /\ LET report == Head(posted)
         before == IF ui.append THEN ui.rows ELSE <<>>
         slot == [ui EXCEPT !.search = 0, !.text = "", !.append = FALSE]
         u == IF report.ok
              THEN [slot EXCEPT !.rows = Append(before, report.answer),
                                !.more = report.answer.page + 1 < Pages]
              ELSE slot
     IN  IF Awaited(report.cmd.id)
         THEN /\ ui' = u
              /\ panel' = Followed(Finished(panel, u, ui.text, report.ok), u)
              /\ kept' = Unparked(panel, u, ui.text, report.ok)
         ELSE panel' = Followed(panel, ui) /\ UNCHANGED <<ui, kept>>
  /\ UNCHANGED <<token, ses, tab, soon, server, notice, heard, tally>>

\* The playlist as it was when the server read it.
DeliverPlaylist ==
  /\ DueResult({"read"})
  /\ Delivered
  /\ LET report == Head(posted) IN
     /\ tab' = IF report.cmd.id \in ui.reading /\ report.ok
               THEN [tab EXCEPT !.shows = report.answer] ELSE tab
     /\ ui' = [ui EXCEPT !.reading = @ \ {report.cmd.id}]
  /\ UNCHANGED <<token, ses, panel, kept, soon, server, notice, heard, tally>>

\* An edit that succeeded asks for the playlist again.
DeliverEdited ==
  /\ DueResult({"edit"})
  /\ LET report == Head(posted)
         again == report.cmd.id \in ui.edits /\ report.ok /\ ui.connected
         rest == [ui EXCEPT !.edits = @ \ {report.cmd.id}]
         e == Enqueued(ses.wire, Tail(posted), "read", None)
     IN  IF again
         THEN ui' = [rest EXCEPT !.reading = @ \cup {NewId}]
              /\ ses' = e.ses /\ posted' = e.posted
         ELSE ui' = rest /\ Delivered /\ UNCHANGED ses
  /\ UNCHANGED <<token, panel, kept, tab, soon, server, notice, heard, tally>>

\* A control that was refused is shown as the server has it.
DeliverControl ==
  /\ DueResult({"repeat", "transport", "delete", "clear", "drag"})
  /\ Delivered
  /\ LET report == Head(posted)
         played == IF ui.playCommand # report.cmd.id THEN ui
                   ELSE IF report.ok THEN [ui EXCEPT !.playCommand = 0]
                   ELSE [ui EXCEPT !.playCommand = 0, !.optimisticPlay = None, !.timer = FALSE]
     IN  ui' = IF ~report.ok /\ report.cmd.kind = "repeat"
               THEN [played EXCEPT !.optimisticRepeat = None] ELSE played
  /\ UNCHANGED <<token, ses, panel, kept, tab, soon, server, notice, heard, tally>>

Deliver ==
  \/ DropStale \/ DeliverState \/ DeliverSnapshot \/ DeliverNotice \/ DeliverAnswer
  \/ DeliverHits \/ DeliverPlaylist \/ DeliverEdited \/ DeliverControl

User ==
  \/ Ask \/ Enter \/ More \/ OpenTab \/ EditPlaylist
  \/ \E text \in Texts \cup {""} : Type(text)
  \/ \E mode \in {"on", "off"} : SetRepeat(mode)
  \/ \E state \in {"playing", "stopped"} : Transport(state)
  \/ \E again \in BOOLEAN : Reconnect(again)

QueueEdit ==
  \E rows \in SUBSET DOMAIN ui.queue :
    RemoveRows(rows) \/ CropToRows(rows) \/ \E at \in 0 .. Len(ui.queue) : DragRows(rows, at)

Others ==
  \/ scene = "controls" /\ \E what \in {"repeat", "play"} : Foreign(what, <<>>)
  \/ scene = "playlist" /\ Foreign("list", <<>>)
  \/ scene = "queue" /\ \E queue \in Changed : Foreign("queue", queue)

Timers == SearchTimer \/ ConfirmationTimer \/ RereadTimer

Session == SessionConnects \/ SessionRefreshes \/ SessionExecutes \/ NoticeArrives

\* Whatever may happen besides an edit of the queue by the user.
Otherwise == User \/ Others \/ Timers \/ Deliver \/ Session
             \/ \E sent \in {0, 1} : SessionBreaks(sent)

Next == Otherwise \/ QueueEdit

Spec == Init /\ [][Next]_vars

\* The event loop runs, its timers fire, and the session's threads do their
\* work; nobody has to do anything, and no connection has to break.  Only what
\* is asked has to end, so no more is assumed of the other scenes.
Asks == scene \in {"questions", "search"}
Fairness ==
  /\ WF_vars(Asks /\ Deliver) /\ WF_vars(Asks /\ Session) /\ WF_vars(Asks /\ SearchTimer)

FairSpec == Spec /\ Fairness

-----------------------------------------------------------------------------
(* Properties                                                               *)

\* Every structured question is answered exactly once: it has been given its
\* answer or an error -- never the answer to a question of the same number
\* asked of an earlier session -- or it waits, and then its command is either
\* queued or reported and not delivered, in one of these places and once
\* (searchServerExpression, applyCommandResult, clearSessionState).
OneCompletion ==
  /\ \A q \in DOMAIN heard :
       /\ Len(heard[q]) + Cardinality({a \in ui.asking : a.question = q}) = 1
       /\ \A i \in DOMAIN heard[q] : heard[q][i] \in {0, q}
  /\ \A a \in ui.asking :
       Cardinality({i \in DOMAIN ses.wire : ses.wire[i].id = a.id})
         + Cardinality({i \in DOMAIN posted :
                          OfThisSession(posted[i]) /\ posted[i].what = "result"
                          /\ posted[i].cmd.id = a.id}) = 1

\* The hits are the pages of one text, in order, none missing and none twice.
PagesOf(text, rows) == \A i \in DOMAIN rows : rows[i] = [text |-> text, page |-> i - 1]

\* What the panel shows are the hits for the text in the field, and what Enter
\* keeps under a text are the hits for that text, however the user types,
\* continues and reconnects meanwhile.  (After a search that failed, Enter
\* keeps the hits of the one before: such an Enter is left out.)
OneSearchShown ==
  /\ PagesOf(panel.field, panel.rows)
  /\ \A k \in kept : k.failed \/ PagesOf(k.query, k.rows)

\* Nothing is on its way to the user or to the server.
Quiet ==
  /\ posted = <<>> /\ ses.linked /\ ses.wire = <<>> /\ ~ses.refresh /\ notice = {}
  /\ ~ui.timer /\ ~soon

Presented(optimistic, confirmed) == IF optimistic = None THEN confirmed ELSE optimistic

\* Once everything has been delivered, the playback control and the queue show
\* what the server has, whatever was lost, refused or reconnected: no presumption
\* outlives its command.  Repeat does unless another client has changed it (its
\* presumption has no time limit), and the playlist tab as long as no connection
\* was lost or replaced and nothing was refused (nobody asks for it again).
SettledShowsServer ==
  Quiet =>
    /\ ui.connected
    /\ Presented(ui.optimisticPlay, ui.play) = server.play
    /\ "repeat" \in touched \/ Presented(ui.optimisticRepeat, ui.repeat) = server.repeat
    /\ ui.queue = server.queue
    /\ tab.open => faults > 0 \/ token > 1 \/ tab.shows = server.list

\* Every question is answered and every search the panel waits for ends,
\* whatever is cancelled, refused or lost on the way.
QuestionsEnd == []<>(ui.asking = {} /\ ui.search = 0)
=============================================================================
