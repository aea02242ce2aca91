# Trackknife: a verification development

Trackknife is a Qt 6 music player and tag editor for Linux. It plays local files
through PipeWire, controls an MPD server, keeps lists and a library in SQLite, and
(as *Trackbench*) rewrites tags and renames, moves or copies the files of a library.
This directory holds TLA+ models of the parts of it that are hard to test, the TLC
configurations that check them, and theorems about them with proofs for TLAPS.

Line numbers refer to the commit this directory accompanies. `PROJECT.json` maps every
definition of a model to the lines it stands for.

## 1. Inventory of the system

| Component | State it keeps | Operations | What is hard |
|---|---|---|---|
| Same-filesystem publication (`operations/file_publication.cpp`) | names on disk, journal record, flock per file | commit, undo, startup recovery | a crash, a failing call or another program between any two of a dozen durable steps |
| Cross-filesystem and artifact publication (same file) | prepared sibling, copy, source removal | publish, recover, cancel | two copies of one item; which one may be removed, and when |
| File publication journal (`persistence/file_publication_journal.cpp`) | record per operation with a state, reverse links | create, advance with compare-and-set, list incomplete | legal transitions; two reversals of one record |
| List repository (`persistence/list_repository.cpp`) | list occurrences with path and revision, metadata cache, history of moves | load all, replace all, refresh of metadata, idempotent relocate keyed by operation | repeated after a crash; a snapshot older than what has been committed |
| List persistence service (`uicommon/list_persistence_service.cpp`) | a queue of requests, one thread | save a snapshot, refresh or relocate and wait, final save of the close | the order of snapshots and commits; errors of a save |
| Lists of the window (`bench/local_list_model.cpp`, `bench/bench_list_tabs.cpp`) | rows shown, rows kept for undo, autosave timer | edit, undo, apply the results of a job | results that arrive late, or in another order than the commits |
| MPD session (`mpd/session.cpp`) | command queue, refresh mask, generation, snapshot, two threads | enqueue, cancel, refresh, destroy; connect, execute, reject | lost wakeups, stale generations, commands whose outcome is unknown |
| MPD queue mirror (`mpd/session.cpp`, `mpd/projection.cpp`) | mirrored queue, version, length | refresh, apply diff | another client edits between two reads of one refresh |
| Local playback buffer (`audio/local_playback.cpp`) | decoder, ring, positions, queued continuation, atomics | open, fill, render, seek, stop, takeover | lock-free between worker and real-time callback |
| Local audition (`audio/local_audition.cpp`) | source, output, identities, command queue | transport commands, device changes, publish, relocate | what is heard against what is named; quiescing; a device that goes away |
| Metadata commit and its journal (`operations/metadata_commit.cpp`, `persistence/operation_journal.cpp`) | rewritten file, backup, record | apply, undo by exchange, recover, expire backups | crash between exchange and evidence |
| Publication batches (`operations/file_publication_apply.cpp`) | plan, workers, result per item | parallel apply, cancel | ordering by topology groups, cancellation half-way |
| Startup recovery and closing (`bench/bench_metadata_operations.cpp`) | once-per-process job | recover metadata, backups, renames, copies in this order | closing while it runs; new operations meanwhile |
| Output path planning (`operations/output_path_plan.cpp`) | none | collisions of targets | pure |
| Local library (`persistence/local_library.cpp`) | rows of files, folders with scan tokens, a pool of workers | scan, prune, follow the program's own changes, add and remove folders | the tree, the volumes and the rows change during the scan |
| MPD controller (`quick/mpd_probe_controller.cpp`) with the search panel and playlist tabs (`bench/bench_mpd.cpp`, `bench/bench_mpd_playlists.cpp`) | connection token, pending requests by number, optimistic controls, hits, rows of a playlist | ask, search, page, keep, control, edit; apply states, snapshots and results | reports of an earlier connection or an earlier request; presumptions nobody confirms |
| Last.fm (`bench/lastfm_service.cpp`) | persistent outbox | scrobble, retry | duplicates after a lost reply |
| Decoders, tag writers, title formatting, query parser, list formats, loudness, MusicBrainz, conversion, Qt models, tools | data or presentation | | conversions of data, external processes, widgets: no protocol worth a state machine |

How they meet:

* A publication renames or copies a file, then calls its *dependent committer*: a barrier
  through the player (`relocate_source_and_wait`), then the relocation of the list
  occurrences in one database transaction. Only then does the journal record move on.
* The startup recovery calls the same committers. New publications are refused while it runs;
  tag and artwork saves are not (`bench_metadata_operations.cpp:434`), so that they may meet it.
* A tag save rewrites a file beside itself, exchanges the two and calls the refresh of the list
  database. The jobs of the dialogs hand their results to the window last, as posted events.
* The transaction that refreshes or relocates list rows takes the rows of the library along.
* The worker of the audition owns `LocalPlayback`; the PipeWire callback renders from it.
  The UI issues commands and reads published snapshots.
* The MPD session calls its owner back from its worker; the controller turns those
  callbacks into view state on the UI thread.

Correctness, in a sentence per component: a file is under exactly the name its references
say once its operation has settled, and nothing is ever overwritten or lost; a journal
state is evidence, not hope; an MPD command is answered exactly once and truthfully, and
never replayed; the mirrored queue is the server's once everything announced has been worked off;
frames are heard in order, once, and under the right name; what plays is audible and ends; a tag save
happens once or not at all and never leaves the file without a readable version; no snapshot
of the lists, however late, takes back what was committed; a scan that says "up to date" has an index
that is right; what the MPD views show is the answer to what they asked.

## 2. Modules

| Module | Models | Uses |
|---|---|---|
| `AtomicOperation` | what a journaled operation promises to the lists: announced, then applied in one step or given up, possibly reverted once | |
| `PublicationJournal` | record states and legal transitions of the journal | |
| `RenamePublication` | commit, undo and recovery of journaled renames | `PublicationJournal`, `AtomicOperation` |
| `CopyPublication` | copies and rendered artifacts through a prepared sibling | `PublicationJournal` |
| `MetadataCommit` | tag and artwork saves of one file, their undo, recovery and the expiry of backups | `AtomicOperation` |
| `ListSnapshots` | rows of the window, queued snapshots and commits, the list database, crash and restart | |
| `LocalLibrary` | the scan of the library against a program, others and volumes that change it | |
| `MpdSession` | both threads and the owner of the session | |
| `MpdQueueMirror` | refresh of the queue against a server others edit | |
| `MpdController` | the controller, search panel and playlist tab on the user interface thread | `QueueMoves` |
| `QueueMoves` | how a drag becomes moves of song ids, and what the server makes of lists of moves and removals (pure) | |
| `MpdQueueEdits` | the controller with a queue view whose rows are selected, and then removed, cropped to or dragged | `MpdController` |
| `LocalPlayback` | the methods of the playback object as operators on its state | |
| `LocalAudition` | worker, real-time callback, user and devices around it | `LocalPlayback` |
| `MCRenamePublication`, `MCCopyPublication` | symmetry sets for TLC | |
| `RenamePublicationProofs` | theorems about renames, and that they are atomic | `RenamePublication`, `TLAPS` |
| `CopyPublicationProofs` | theorems about copies | `CopyPublication`, `TLAPS` |
| `MpdSessionProofs`, `MpdQueueMirrorProofs` | theorems about the session and its mirror | `MpdSession`, `MpdQueueMirror`, `TLAPS` |
| `LocalAuditionProofs` | theorems about the player | `LocalAudition`, `TLAPS` |
| `MetadataCommitProofs` | theorems about tag and artwork saves | `MetadataCommit`, `TLAPS` |
| `MpdControllerProofs` | theorems about the controller, the search panel and the playlist tab | `MpdQueueEdits`, `TLAPS` |
| `LocalLibraryProofs` | theorems about the scan of the library | `LocalLibrary`, `TLAPS` |

The four file modules are one system seen at different grains. `RenamePublication`,
`CopyPublication` and `MetadataCommit` take one operation on a file apart into its durable
steps. `AtomicOperation` is what they promise: the first and the third are shown to implement it
(`PublicationsAreAtomic`, `SavesAreAtomic`), by a mapping that reads the verdict of an
operation off its journal record and the list database. `ListSnapshots` starts from that promise:
there an operation on a file is one step, and its subject is what happens to the rows afterwards.
`MpdController` likewise takes the session as a queue that answers, which `MpdSession` is about.

### RenamePublication

`name[f]` is the name a file (one captured inode and revision) is visible under,
`limbo[f]` the names a power loss may still bring back because a directory has not been
synced. `journal` is the SQLite table in rowid order, `refs` and `relocated` the list
database: both are durable, as SQLite's transactions are taken to be. `job[j]` is where the thread
is, `known` the state it passes as *expected* to the next guarded journal write. One
action is one durable step of `commit_same_filesystem`, its undo or its recovery:

    Create -> Check -> Rename -> SyncTarget -> Publish -> CommitDependents
           -> VerifyTarget -> RecordDependents -> Complete
    failures: RollBack -> SyncSource -> Fail;   recovery: Start, Inspect, Resume, ..., EndRecovery

A journal write can fail, a system call can fail, and a rollback can fail, each counted in
`faults`. `Crash` kills every thread; with kind `"power"` it also picks, for each file, one
of the names in limbo. `Intrude` lets another program create a file under a free name at any
moment. `Running` threads hold the flock of their file; a file is locked before its record is
created or resumed.

### CopyPublication

In addition `content[f]` says which item a file holds *whole*; the prepared sibling of
operation `o` is a file named by the operation, because the code puts the journal id in its
name. Source removal, its directory sync and its journal state are separate steps. The
recovery adopts a prepared sibling only if it is byte-exact and the target does not exist.

### MetadataCommit

A version of the file is an inode with a revision; `dir` says which version the source and the hidden
siblings of each save name, `possible` which directories a power loss may leave (a
prefix of the unsynced changes). The steps follow `publish_prepared_metadata_copy`:

    Begin -> Prepare -> RecordPrepared -> LinkBackup -> ConfirmBackup -> PublishCopy -> SyncSource
          -> RecordPublished -> Reread -> CommitDependents -> CheckAgain -> Complete
    failures: Drop* or RollBack -> (Unpark) -> RemoveFailed -> SyncRollBack -> Fail

The startup job runs the recovery (`Resume` decides from what the directory shows), then the undos
that were interrupted, then the expiry of backups, beside the saves of the user. A thread holds
the locks of both inodes. With `AtomicExchange = FALSE` the file system has no
`RENAME_EXCHANGE`, and the rollback parks the copy first.

A save is `"text"` (tags alone), `"combined"` (tags and a picture) or `"cover"` (a picture). Tag saves wait for the
recovery of an earlier record of the file, cover saves do not (`Admits`). `PassesOver` says which committers do nothing: that of the tag
dialog for a combined save, and that of the startup job for both kinds with a picture.

Every step that takes a cancellation token can be cancelled: a save by the user, counted as a fault, the startup job by the close of the
window. `Close` waits for the saves; while the startup job still runs the program is `Closing`, and `Cancelled` offers
the way out at each step of the job, within a record as well as between two (`Stop`), the rereads of the published
and of the restored file included (`Reread`, `RereadOriginal`).

The history variable `lapses` has the saves of which the lists and the file part: taken back although the lists show them,
because a reread failed in the recovery, or completed by a committer that passed over them. The program does both (section 4); the
properties about the lists, and the one about the version a save replaces, hold up to the first lapse.

`Edit` is another program that
writes the file, but never between the program's last look and its rename: no lock
keeps it from doing so, and the code cannot see it.

### ListSnapshots

`shown` and `retained` are the rows of the window and of its undo history, `queue` what the persistence
thread has been asked, `db` the list database (items, metadata cache, history of moves, operations
done). A job queues a snapshot, does its work (`file` changes in one step), asks for its commit and
hands its results to the window. `LoadAll` is what the next start would show: it follows the history of moves and
lays the cache over the rows. A crash loses window and queue, a close drains the queue.

### LocalLibrary

`scan[s]` holds the local variables of `LocalLibrary::scan`: the walk (`Visit`, `Touch`, `Submit`), the
requests and answers of the preparation pool (`Prepare`, `CommitPrepared`, with the check that the
row is still the one that was asked for), the end of a folder and the pruning (`LookForMissing`,
`Forgettable`, `Forget`). The program's own saves, moves and copies publish the file first and the row in
the transaction of the lists (`Followed`). Two history variables mark what no scan can know:
`spoilt` (paths changed by others, or by a step the code does not report to the index, since
the scan began) and `astray` (paths that were looked for while the program held the file).

### MpdController

`posted` is the event loop: reports of the session in order, each with the token of its connection.
A report is delivered as one step that does everything the slot does, including the
`stateChanged` every slot ends in (`Followed`, which is `refreshMpdStatusControls`). `scene` restricts a behaviour to one
kind of operation, because they share nothing but the session: questions, search, controls, playlist or queue.
`repeat` stands for the five modes with the same code. The session is the queue with its
priorities, `enqueue`, `cancel_pending`, refusals, refresh and loss; its threads are in `MpdSession`, and its refresh is one step here (a command accepted
before the snapshot is posted itself posts nothing until later).
The idle connection is taken to stand and to lose nothing while the session lives.

### MpdQueueEdits and QueueMoves

`MpdQueueEdits` puts the view of the queue on top of `MpdController`. The user selects rows (`Select`); `selected` has their numbers, and the history
variable `pointed` the tracks they were. Every other step of the controller may replace the tracks of the model, by a snapshot, a new connection or its end
(`Otherwise /\ Follow`): `Kept` is `MpdQueueModel::replaceTracks`, which announces one row inserted, removed or moved, so that Qt takes
the selection along, and otherwise resets the model. `Edit` is the key or the drop: `RemoveRows`, `CropToRows` and `DragRows` of the controller turn the
rows selected *now* into song ids and positions from the snapshot on the screen. While the command waits in the session, `meant` says
what the user meant by it: the tracks pointed at, those above the drop, and the queue shown. Meanwhile other clients edit the queue and the
connection may break. The server stops a list of commands at the first one it cannot carry out (`OneDelete`, `OneMove`). `QueueMoves` also has the arithmetic of a drag:
the order the user asks for, and the plan of moves that brings the queue of the view into it.

A step of `MpdQueueEdits` is a step of `MpdController` or changes the selection only (`SelectionsAreEdits`, proved), so one run
checks the properties of both.

### MpdSession

The worker's wait is split into its predicate (`CheckForWork`, under `wake_mutex`) and the
block (`FallAsleep`); between them it is `"dozing"` and misses notifications sent without
the mutex. `enqueue` pushes under the mutex, so its notification cannot be lost; `request`
and the destructor set atomics without it. Connections break at any time (`Break`), also
between the send and the reply of a command, whose outcome is then unknown. A refresh ends in two steps, as in the code:
`OpenQueue` sets `accepting_commands` under the mutex, and `Publish` hands the snapshot to the owner after it; a command may be accepted in between.

### MpdQueueMirror

The server edits its queue between the status, `plchanges` and `playlistinfo` requests
of one refresh. Events wait in the server until they are delivered; while the idle
connection is down they are reported to nobody. Three history variables say what the mirror may know:
`base` (it has every change up to there), `skewed` (a status took a new version without the
queue), `announced` (the last version an event or a loss has announced).

### LocalPlayback and LocalAudition

Frames are records `[token, at, last]`, so that order, gaps and the source of every frame
can be told apart; `token` is the occurrence token that stands for the whole identity (path,
revision, selection, segment). `LocalPlayback` has no variables: its operators take the fields of
the object to their next value, one per method. `LocalAudition` adds the threads:

* the **worker** executes one command at a time; those that need the callback out of
  the way quiesce the stream (`Quiesce`), wait for the running callback (`Quiet`) and then do
  their work; between commands it fills the ring (`FillLoop`, `Decode`, `Measure`,
  `Settle`, `Filled`) and publishes;
* the **callback** is five steps, one per atomic access of `render` that the worker can come
  between: state, ring and read index, position and boundary, crossing latch, final
  compare-and-exchange;
* the **user** and the **devices** issue at most `MaxCommands` commands; at most `MaxFaults`
  calls to the decoder or the output fail.

Three history variables mark what the code really leaves behind: `orphaned` (the identity of a
committed boundary has been dropped), `stalled` (a seek left the stream inactive), and
`heard` (the last frame taken since the last flush). A failed quiesce is taken to have
stopped the callback: PipeWire is outside the repository.

## 3. Runs

TLC explores every run completely.

| Run | Question | Bounds |
|---|---|---|
| `rename_crash` | do renames and undos survive machine crashes, failures and another program, and look atomic? | 3 records, 3 names, 1 library file, 1 stranger, 2 occurrences, 2 faults, 2 power losses |
| `rename_concurrent` | do two workers and the recovery keep out of each other's way, and do they end? | 2 records, 2 files, 2 workers, 2 faults, 1 process crash |
| `copy_crash` | do copies and artifacts survive process crashes? | 2 records, 1 file, 1 stranger, 1 fault, 2 process crashes |
| `copy_unsynced_recovery` | *finding* | 2 records, no other fault, 2 crashes of either kind |
| `metadata_crash` | do tag saves, undos and the expiry survive power losses, and look atomic, until the first lapse? | 2 text saves, 1 worker, 1 version of another program, undo, 1 fault, 1 power loss, closes |
| `metadata_concurrent` | do two savers and the startup job spare what others write, and do they end? | 2 saves, 2 workers, text and cover, no `RENAME_EXCHANGE`, moves, 1 fault, closes |
| `lists_snapshots` | do lists in memory, in the database and files agree, whatever is stored late or lost? | 2 files, 3 names, 2 rows, 2 operations of any kind, 2 disturbances (of 2 edits, 1 rewrite by others, 1 refused commit, 1 crash), 2 snapshots queued |
| `library_scan` | is a finished scan right, and is nothing forgotten that exists? | 1 folder of 2 places and one place outside, 2 files, 1 operation, 1 change by others, 1 fault, queues of 1, Stop at any moment |
| `session_commands` | is every command answered once, truthfully, never replayed, and in the end? | 3 commands, queue of 2, 1 fault |
| `mirror_edits` | does the mirror catch up? | 3 edits, queue of at most 2, 1 lost connection |
| `mpd_controller` | do questions, hits, controls, playlist and queue match what was asked and what the server has, and do edits of the queue hit the tracks the user pointed at? | 2 connects or disconnects, 2 operations (3 questions or search steps, 1 edit of the queue after any selections), 1 change by another client, 1 fault, 3 reports waiting, queue of 3 |
| `playback_gapless` | are frames heard in order, once, under the right name, and does every stream end? | ring of 2, chunks of 2, sources of 1 and 3 frames, 3 sources, 4 commands, 1 fault |

Why these bounds are enough for the cases that matter: three records allow publish, undo and a second
attempt, or a refused one in between; three names leave a name to go to, one to come
from and one for a stranger; two crashes let a recovery itself be interrupted; two occurrences
of one file, and one of each of two files, tell a partial relocation from a whole
one. In the session, three commands with a queue of two fill the queue and overflow it.
In the player, one track is shorter and one longer than the ring, so that a takeover happens
both with and without frames of the previous source in the ring, and three sources allow two
takeovers. Four commands allow every pair of a preparation (load, queue) and a disturbance.
Two saves let one meet the record, the backup or the undo of the other. Two operations and two rows let one operation
put a file where another one's row points. In the library a queue of one makes the walk wait,
and a change in each of the phases of a scan needs only one change. In the controller three search steps are
a text, a second page or another text, and Enter; two connections are a reconnection, or a connection and its end.
Three tracks give a drag of one or two rows in each direction a track to pass and one to leave alone; the change by another client is any single
insertion, removal or move, at any time: before the selection, under it, or while the edit waits.

Larger instances that were explored once and hold: `library_scan` with two folders; the controller's
scenes but the queue, one at a time with three operations, the playlist without `QuestionsEnd`; the invariants of `lists_snapshots` with
three disturbances.

Deadlock is not checked (`CHECK_DEADLOCK FALSE`) where the system may stop for good: the user of
`playback_gapless` may issue no more commands; the saves of the metadata runs, the operations of
`lists_snapshots` and `library_scan` and those of `mpd_controller` are bounded and then nothing is left to
do. It is checked in the publication, session and mirror runs.

Each module has a type invariant. Only that of `RenamePublication` is part of a run; the others hold in the same state
spaces. Those of the modules with theorems are proved, alone or as part of the inductive invariant.

Bounds that restrict what is shown, and why:

* `RetryUnsettled = FALSE` everywhere: the user publishes a file again only when its
  earlier record is settled or still running. With `TRUE`, a second publication of a file whose record is
  still `planned` lets the recovery judge the first by what the second did
  (`file_publication.cpp:1587`), and `SettledAgreement` fails.
* `ReplayMayFail = FALSE` in the passing runs: with `TRUE`, the rename recovery rolls a file back behind
  references it has already committed (section 4) and, for copies, `ReferencesNeverDangle` fails at
  `file_publication.cpp:2660` for the same reason, as does `ExactlyOneRemains`, where a target is retracted that a later
  operation, rolled back since, had as its source.
* `rename_crash` crashes the machine, `rename_concurrent` the process, and no run both: after a
  process crash the recovery settles a record by names that are not synced yet
  (`file_publication.cpp:2250`), so that a following power loss refutes `SettledAgreement`.
  `PublishedIsDurable` accordingly speaks of publications, not of the recovery.
  The recovery of tag saves (`metadata_commit.cpp:2702`) has the same gap, and `metadata_crash` no process crashes.
* `metadata_crash` allows one fault. With two, the recovery can have loaded a record that a save beside it
  then marks `needs_reconciliation`, and still replay its refresh: `SavesAreAtomic` fails. Its saves are text saves: two cover saves, which do
  not wait for each other's recovery, may overlap in the file and in the lists, and `ListsMatchFile` fails.
* `Overlap = FALSE` in `lists_snapshots`: no job begins while another one has not reported. Otherwise
  results are applied in the wrong order (section 4) and a late snapshot may put an older row back so that a
  move is refused. A job stores the lists as they were when Apply was pressed, and overwrites what the window saved in
  between: `ListsAreStored` leaves out the behaviours with such a capture (`StaleCapture`); the
  invariants include them. `Failing = {"commit"}`: a refused *snapshot* is not stored again before the next edit or the close
  (`bench_list_tabs.cpp:386`), so that `ListsAreStored` would fail at once.
* `RollBacks = {"move", "copy"}` in `library_scan`: a tag save that is indexed and then rolled back leaves the
  restored file with the identity the index has seen before (`local_library.cpp:1704`), and `UnchangedIsRight` fails.
  `MaxOps = 1`: two moves may bring a file back under a waiting answer, and a move that was rolled back may be made again
  (section 5). The theorems have no such bound, and name the hypothesis that takes its place.
  The properties leave out the paths in `spoilt` and `astray` (section 2): a file that was not yet
  indexed and is moved behind the walk gets no row; the source of a copy that the scan meets again before it is removed keeps
  one; a prune between a move's rename and its transaction forgets the row.
* `mpd_controller`: repeat is left out of `SettledShowsServer` once another client has changed it; the playlist
  tab is compared only while no connection was lost, none was replaced and nothing was refused; an Enter after a failed
  search is left out of `OneSearchShown` (it keeps the hits of the search before, under the new text).
* `Prompt = TRUE` in the playback run: no callback is suspended between loading the
  boundary and storing the crossing latch for as long as the worker takes to open a file. Without it TLC finds
  a latch that announces the crossing of the next boundary before it is reached.

### Fairness

* `rename_concurrent`: weak fairness of each thread's own steps and of the recovery; none
  for `Start`, the user, crashes or other programs. A thread waiting for the flock of a file polls for it (`file_publication.cpp:311`) and
  begins when it is free.
* `session_commands`: weak fairness of the two worker threads and
  of what the owner has begun (its notify, its answers, its join). None for the server's events,
  the owner's calls or spurious wakeups. A backoff ends because it is timed.
* `playback_gapless`: weak fairness of the worker thread and of the callback, which the
  device calls as long as the stream is active. None for commands and devices.
* `metadata_concurrent`: weak fairness of each thread's own steps; none for beginning a save, other
  programs or the close.
* `lists_snapshots`: weak fairness of the jobs, the persistence thread, the posted results and the timer of the window; none for the
  user, crashes or the start of an operation.
* `library_scan`: weak fairness of each scan's walk and of its workers; none for the user, Stop or the world.
* `mpd_controller`: weak fairness of the event loop, of the search timer and of the session's threads, in the scenes in which something is asked; none for
  the user, other clients or losses.

## 4. Findings

`copy_unsynced_recovery`: the copy recovery publishes a target it finds in place without syncing
its directory and then removes the source; a power loss takes the only copy (`file_publication.cpp:2598`,
against `docs/adr/0056:78`). The rename recovery has the same gap at `:2250`
(against `docs/adr/0057:44`); a rename has one inode, so nothing is lost there but the evidence.

Disagreements with the repository's documents that the models also reproduce, when the restriction of
section 3 is lifted or the property named is added to a run, and that have no run of their own:

* On the recovery of a published tag save the file is reread before the refresh of the lists is repeated. The reread does
  I/O and takes the token the close of the window cancels; when it fails after the lists had been refreshed before the crash, the file is rolled back
  and the lists go on showing the save (`metadata_commit.cpp:2750`, against `docs/adr/0044:75`). `RolledBackIsUnseen` is violated with one text save, one process
  crash and no other fault.
* The recovery reads the open records once and not again under the lock of the file. A tag save that completes in between is taken for
  open, and a reread that is cancelled takes it back although its record says complete (`metadata_commit.cpp:2640`, against
  `metadata_commit.hpp:83`). `CompletedSavesStand` is violated with one text save, and no crash or fault.
* A cover save that was interrupted after its publication is completed by the recovery without a refresh of the
  lists, because the committer of the startup job returns at once for every kind but text (`bench_metadata_operations.cpp:150`, against
  `docs/adr/0079:53`; `docs/adr/0145:66` exempts the carriers it introduces, sheets and sidecars, and the check exempts embedded pictures with
  them). `CoversAreTold` is violated with one cover save and one process crash.
* A drag is sent as moves that bring every track of the queue the user saw to its row there. If another client has
  reordered the queue since, tracks nobody dragged are moved back without a word (`mpd_probe_controller.cpp:637`, against
  `docs/mpd-client.md:211`). `OthersKeepTheirOrder` is violated within the bounds of `mpd_controller`.
* Removing all rows of the view is sent as `clear`, which also deletes what another client has added since the
  snapshot (`mpd_probe_controller.cpp:420`, against `docs/mpd-client.md:185`). `OnlySelectedLeave` is violated within the same bounds.
* The rename recovery renames a file back behind references it has already committed when the repeated
  committer fails (`file_publication.cpp:2294`, against `docs/adr/0057:18`).
* Two Properties tabs save one file; the one that committed first reports last, and every row falls back to its tags and revision
  (`local_list_model.cpp:606`, against `docs/adr/0045:14`). The next move of the file is then refused.
* Two undo requests at once both pass the check at `file_publication.cpp:1714` and create two live reversals
  (against `docs/adr/0060:38`).
* `request` notifies without the mutex of the predicate; a refresh posted at
  the wrong moment waits for the next command (`session.cpp:230`, against `session.cpp:878`).
* The base of a queue diff is the version of the last status, also when
  that status was read without the queue (`session.cpp:613`, against `docs/mpd-client.md:207`).
* Changing the buffer length, or losing the device, in the committed
  tail drops the name of the track about to be heard (`local_audition.cpp:1027`, `:431`, against
  `docs/adr/0119:63`).
* `submit` waits only while *both* queues of the preparation pool are full, so that the
  requests grow without bound while answers are taken (`local_library.cpp:1426`, against `docs/adr/0151:49`).
* After a failed search Enter keeps the hits of the previous text under the new one
  (`bench_mpd_playlists.cpp:378`, against the comment at `:368`).
* Edits of a stored playlist or of a stash address rows of what may be a stale view, and several rows dragged at once
  are moved by wrong row numbers (`mpd_probe_controller.cpp:571`, `bench_mpd_playlists.cpp:238`, against `docs/adr/0190:51`). Not modelled.

Also seen while modelling. *Publications:* a rename settled by the recovery on names that a power loss takes
back. *Tag saves:* the expiry judges a backup by the file's old path, so that the backup of a moved file is kept for good
(`metadata_commit.cpp:3067`); a record that needs reconciliation refuses all later text saves of its file; a crash between the exchange and the
unlink of a rollback leaves a record for a person; the recovery takes a removal that was not synced for done, so that a power loss brings
the sibling of a save recorded as rolled back again; an undo that is cancelled when it is resumed after its exchange is recorded
as retained; an undo taken back exchanges away what another program wrote meanwhile; a combined tag and artwork save completes without refreshing the lists
(`bench_metadata_operations.cpp:150`, `:480`).
*Lists:* an edit of the file by another program, a tag save and a late autosave make `load_all` take the
oldest row for an external refresh; a row added while a job runs can keep its old path until the next start. *Library:* an answer is committed when the path has the revision
the walk saw, whatever the worker read in between (`local_library.cpp:1615`); a row with
an empty revision whose file is gone is never pruned; Stop marks rows incomplete whose probe it cancelled.
*MPD:* an edit while no idle connection stands is announced by nobody; open playlist tabs are not read again after a
reconnection or a refused re-read; a mode control another client has changed back stays presumed (`docs/open-decisions.md:21`);
a pending scratch-list number survives the session it belongs to. *Player:* a stop in the committed tail rewinds the decoder of
the *next* track under the name of the current one; a refused seek, or a seek of an ended stream, leaves an inactive
stream that says it plays; the stale crossing latch; a restart that races with the end and keeps the base of the
previous track; a relocation waits for a worker that may stop first.

## 5. What is proved

Every theorem holds for every value of the constants: any number of operations, files, names, threads,
commands, edits, frames and sources, any bound on faults and crashes. Each uses the assumption named in its
model (the sets are disjoint where the program keeps them apart, the bounds are numbers) and, unless a
hypothesis is stated, nothing else. An invariant that a run checks is never inductive as it stands; below, for each
component, the invariant the proof needs and why.

### RenamePublication

| Theorem | Says |
|---|---|
| `TypeCorrect` | `Spec => []TypeOK` |
| `LockProtects` | while a thread works on a file, the file is under the name the thread last gave it (`JobTracksFile`) |
| `NeverReplacesAFile` | two files are never under one name (`OneFilePerName`) |
| `ReferencesFollowEvidence` | references move only for a published target, while the file is there (`EvidenceBeforeReferences`) |
| `RecoveryLeavesNothing` | a recovery that ends leaves no record half-way (`RecoverySettles`) |
| `RefinesAtomicOperation` | if a replay does not fail, the journaled rename implements `AtomicOperation` under the mapping of `RenamePublication` (`PublicationsAreAtomic`) |
| `PublicationsAreDurable` | outside the recovery, `target_published` is recorded only of a name no power loss can take back (`PublishedIsDurable`) |
| `AgreementFollowsFromTwoPromises` | if a replay does not fail, `SettledAgreement` holds in every behaviour that keeps two promises, stated below |
| `SettledFilesAgree` | if a replay does not fail, one thread at a time publishes, no file is published again while a record of it is open, and only processes crash, then `[]SettledAgreement` |

The argument. `TypeOK` is not inductive: a thread that writes its record must know that the
record exists (`TypeInv`). The core is `LockInv`, four facts that hold together only
together: each engaged thread's program counter agrees with the state of its record and with the
name of its file (`ThreadsSound`); no two engaged threads work on one file (`FilesExclusive`);
the recovery runs alone and nothing runs in a stopped program (`RecoveryAlone`). A thread's own step keeps
`ThreadsSound` for itself; `FilesExclusive` says that it cannot disturb any other thread's, because
names and records of other files stay as they are (`ExecuteFrame`); a power loss that changes
names finds no engaged thread afterwards (`RecoveryAlone`). On top of it `RelocatedForward` says
that a thread working on a relocated operation is past every place from which it could roll
back, which needs `ReplayMayFail = FALSE` in exactly one step (section 4), and `ScanBehind`
that the recovery has settled every row it has passed; `TargetSynced` says that nothing
touches the directories of a file between a publication's fsync and its journal write.

That references and files agree once all is settled is not true of the program without reserve, and
the proof says what it needs. `OneOpenPerFile`: no file has two open records. The program loses it when
an interrupted file is published again, or when two undos are admitted on what was read before the lock.
`SettledIsDurable`: a file whose records are settled has no other name a power loss may bring back. The
program loses it when the recovery settles a record by a name that was not synced, or when an fsync fails and
the write of the rollback fails too. While a file has an open record, its occurrences follow that record: they show the
target once it is relocated and the source before; otherwise they show the file's name (`Agreed`, `Recorded`). With more than
one thread, `OneOpenPerFile` already fails in the model; `SettledFilesAgree` therefore assumes a single one, and
`AgreementFollowsFromTwoPromises` covers the rest. `rename_crash` holds with power losses because it
allows two faults; three and a power loss refute `SettledAgreement`.

In `RenamePublicationProofs` the type invariant and the frame lemmas, one lemma per action, come first; then the
invariants from the lock on; last the refinement, which maps every step: a record's creation announces the operation,
its relocation applies it, its terminal state gives it up, and all else, crashes included, stutters. The invariants above
exclude the steps the abstract operation does not have: nothing is given up after it was applied (`RelocatedForward`), and a
relocation applied for the first time is that of an open record (`LockInv`).

### CopyPublication

| Theorem | Says |
|---|---|
| `CopyTypeCorrect` | `Spec => []TypeOK`, for both kinds of crash |
| `OneFileRemains` | if only processes crash and a replay does not fail: a completed copy has no source and the target holds the item whole, one that was rolled back has its source where it was and neither prepared sibling nor target, unless a later operation has carried on the file that remained; and no item is ever without a file that holds it whole (`ExactlyOneRemains`) |
| `ReferencesStayReadable` | if only processes crash and a replay does not fail, every occurrence names a path at which its item is whole (`ReferencesNeverDangle`) |

`CopyInv` has the shape of `LockInv`, with the prepared sibling and the contents added: a busy thread's
program counter determines its record's state, the names of source and target and what they hold (`ThreadsSound`), and
so does the record of an operation nobody works on (`RecordsSound`), because after a crash it is all the recovery has.
`FollowInv` adds where the references are: an operation in `relocated` was published, its occurrences no
longer show its source, and no thread that could still retract works on it. `Remains` says of one operation what it leaves, with the
exception `Carried`: the file that remained is the source of a later operation that published its item whole. A file the property
counts on loses its name only to such an operation (`NamesGoCarried`), and what was carried on stays so (`CarriedStays`), because a copy that has
taken over is not retracted any more. Neither hypothesis can be dropped: TLC
finds `ExactlyOneRemains` violated with power losses (the removal of the preparation is not synced
before the rollback is recorded), `ReferencesNeverDangle` by a power loss (section 4), and both by a replay that fails.

### MpdSession

| Theorem | Says |
|---|---|
| `EveryCommandHasOneAnswer` | every command issued is answered once, or is held in exactly one place and not answered yet (`OneAnswer`) |
| `NothingIsReplayed` | no command is sent twice, or on another connection than the one that accepted it (`NeverReplayed`) |
| `VerdictsAreTrue` | "not sent" and "superseded" are said exactly of what has not reached the wire (`TruthfulVerdict`) |
| `SnapshotComesFirst` | commands wait only on a connection that has been refreshed, none is sent before its snapshot is published, and whoever reacts to the snapshot finds the queue open (`SnapshotBeforeWire`) |

All four follow from `SessionInv`. `Whereabouts` ties the worker's program counter to the command in its hand;
`HeldOnce` says that queue, hand, withdrawals and rejections are disjoint and that exactly what is in none of them has been
answered; `Gate` that the queue opens with the refresh, right before its snapshot is published, that nothing is sent in between, and that it closes with the connection; `WireInv` what has been sent on which connection.
The lemmas at the head of the module say what removing commands from the queue leaves of it: the model
filters by an order-preserving enumeration of positions, which keeps recursion out of a module with proofs.

### MpdQueueMirror

| Theorem | Says |
|---|---|
| `MirrorCatchesUp` | whatever is edited between the reads of a refresh, and whichever connections are lost, once everything announced has been worked off the mirror is the server's queue (`MirrorAgrees`) |

That the mirror agrees in the end says nothing about the middle of a refresh, when status, diff and queue were read at
different moments. What holds throughout is `Fresh(Base)`: a position the server has not
changed since the version the mirror was last brought to holds the same occurrence in both. A diff carries
exactly the other positions. `LengthInv` says the same of the length, which comes with the status, and `Covered` that an announced edit has been taken
over or is still in the mask or among the events. `MirrorAgrees` leaves out the behaviours in which a status
was read without its queue (`skewed`, section 4).

### LocalAudition

| Theorem | Says |
|---|---|
| `AuditionTypeCorrect` | types, ring and chunk within their capacity, no active stream without an output |
| `PositionIsRight` | what has been decoded has been heard, or is in the callback's hand, the ring or the chunk (`PositionCountsFrames`) |
| `FramesFollow` | between two flushes the device gets every frame of a source in order, then the first of its continuation (`Gapless`, an action property) |
| `IdentityIsHeard` | under `Prompt`, the published identity is that of the frames heard (`IdentityFollowsSound`) |

`AuditionInv` describes the source as a line of frames, those in the callback's hand, the ring, the chunk and the decoder, in which each
is followed by the next of its source or by the first of the continuation (`Chained`), with as many as the counters say (`Counted`).
The callback may hold frames while the worker runs: `CallbackRight` says
at which of its positions the worker can be quiescing it. `IdentityInv` adds whose frames wait on which side of the
boundary. `Prompt` is the hypothesis of `playback_gapless`: no callback is suspended between loading the boundary and storing
the latch while a file is opened. Without it TLC finds the next boundary announced early.

### MetadataCommit

| Theorem | Says |
|---|---|
| `MetadataTypeCorrect` | `Spec => []TypeOK`, for all kinds of save and of crash, with and without undo |
| `ForeignEditsSurvive` | as long as no undo exchanges the file (`~Undoes \/ ~AtomicExchange`), another program's version is replaced only by a save that expects it (`EditsSurvive`, an action property) |
| `RolledBackLeavesNothing` | with power losses, if what the startup job finds absent has been absent since the last sync (`[]SeesDisk`), a save that was rolled back has no hidden sibling in any directory that may come back (`NothingLeftBehind`) |
| `RolledBackIsGone` | where only processes crash the same holds of the directory in use, without that hypothesis |
| `ReplacedVersionStays` | without undo and moves, on a filesystem that exchanges names, while at most one save is unresolved (`[]OneAtATime`): the path names a whole version and, until the first lapse, the version an open save replaces stays readable, in every directory that may come back (`NeverWithoutTheFile`) |
| `TagSavesKeepTheFile` | the same of text and combined saves (`"cover" \notin Kinds`), where `OneAtATime` follows from their admission and is not assumed |
| `ListsFollowFile` | under these hypotheses and with power losses, if also the name by which the startup job judges has been there since the last sync (`[]SeesSource`): until the first lapse, once all saves are settled the lists describe the version the path names, in every directory that may come back (`ListsMatchFile`) |
| `TagSavesFollowFile` | text and combined saves where only processes crash: the same of the directory in use, for every behaviour of `Spec` |
| `SavesRefineAtomicOperation` | under the hypotheses of `ListsFollowFile`, and if no save replaces what another program wrote (`[]Own`) and the startup job finishes none that was handed to the user since it read its list (`[]NotOverruled`): seen from the lists a save takes effect once or not at all, in every step before the first lapse (`SavesAreAtomic`) |
| `TagSavesAreAtomic` | text and combined saves where only processes crash: the same from the last two hypotheses alone |

`TypeInv` knows of each thread that it works on a record of its own (`OneThread`), in the state it knows, and what the startup job
may find of the rows it has read. `DiskInv` says what each place of a save has left in the directory (`Place`), in
every directory a power loss may bring back that the copy of a save is under its hidden name or elsewhere and never both
(`DirsSound`), that the locks of two inodes keep the versions of two threads apart (`LocksDisjoint`), and that between its last look and
its rename a save still finds the version it replaces (`Held`). A step of one operation touches its own siblings and the source only (`DirStep`); who
may touch the source is what the locks decide (`SourceKept`). `EditsSurvive` is a consequence: the only
rename over the source that compares nothing is the one in `safe`, for which `Held` has compared. An undo that
is taken back exchanges whatever is there, which is why it is excluded.
`GoneInv` follows what a failed save still has to remove: an entry is gone from every directory, or it is there and on the list (`Clean`).

`NeverInv` is what keeps the file. The program counter of a thread with an open record tells which version the path names and
whether the backup has the other (`Laid`); in every directory that may come back, the expected version of an open record is under the path, the
backup, or, where the last steps of a settled save were not synced, a sibling of that save (`Keeps`, `Left`). The hard part is the startup job, which works from a list it has read once. It may
take up a record that a worker has settled since; then it gets no further than the comparison before its
exchange (`Spent`), because the copy of a save that was rolled back is nowhere it could take for a publication (`RolledBackAway`). And a crash
can bring back a directory in which an open record finds neither of its versions where it should; then nothing but the doubt is recorded
(`OnlyDoubt`). All of it is about files no other program writes into (`Own`, `Native`), as the properties are.

`ListInv` adds the lists: while a record is open they show what it replaces until its refresh is applied and its copy
afterwards (`ListsOfOpen`), when none is unresolved they show what every directory that counts has under the path (`ListsShow`), and
a thread works towards a rollback only with its refresh not applied (`Shown`). A thread that rereads, or waits for its committer, works on
a record that is not recorded as rolled back (`StillOpen`), although its list may be stale.

Without `lapses` none of this would be inductive, because it would be false: a reread that fails under a refreshed save starts a rollback. The
conditional invariants `ToldNever` and `ToldLists` say that `NeverInv`, and `ListInv` with `StillOpen`, hold as long as no lapse has happened; that the path names
a version (`SourceThere`) they leave unconditional. The step lemmas need not look past a lapse, because `lapses` only grows (`LapsesStay`).

The refinement needs nothing more: the refresh is the step in which a save takes effect, `Shown` says that a record is rolled back
only without it, `Spent` and `NotOverruled` that a thread that applies it works on an open record. `NotOverruled` fails with two faults
(section 3), `Own` with a foreign version that a second crash brings back under a save already shown.

The hypotheses are those under which the properties hold. Nothing in the program offers an undo today, and a move takes the
name away on purpose. Where names cannot be exchanged, a rollback parks the copy first and the path has no name for a moment. A
cover save does not ask for unresolved records, so `OneAtATime` is assumed for it: TLC refutes
`NeverWithoutTheFile` with cover saves and two faults, and with undos and three. `SeesSource` fails where the recovery settles a save by a rename that was not synced (section 4), after a process crash or
after three faults, and `ListsMatchFile` with it.

### MpdController

| Theorem | Says |
|---|---|
| `EveryQuestionAnsweredOnce` | a structured question (`searchServerExpression`) is answered once, by its own answer or by an error, and never after it has been withdrawn or by the answer to another one that had its number in an earlier session (`OneCompletion`); other requests promise no such thing, `clearSessionState` forgets a pending search of the panel and the reads of a playlist |
| `HitsAreForTheText` | the hits shown, their further pages and what Enter keeps belong to the text above them (`OneSearchShown`) |
| `PresumptionsAreSettled` | once nothing is on its way, the playback control and the queue show what the server has; so does repeat if no other client has changed it, and the playlist tab if no connection was lost or replaced and nothing was refused (`SettledShowsServer`) |

The three follow from `ControllerInv`. Its core is about numbers: a session numbers its commands from 1 again, and
the reports of an earlier one may still be posted. `PlaceInv` says that every command of the present session
is in one place, in the session's queue or among the posted results, that its number is below the next one, and that what waits for a number
was put under that number. `AskInv` follows a question from there to its answer, and `SearchInv` the one search whose
result may still be shown: the slot has one number, so that an answer which does not have it is an answer to a text that has been replaced.

A presumption is settled because something that is on its way will settle it. `ViewInv`: if the view differs from
the server, then a state or a snapshot is posted behind what was shown, or the session still owes one. `RepeatInv` says the same of
a mode pressed by the user: the server has it, or the last command for it is in the queue, or its refusal is posted, or a snapshot that shows the
server's mode. That the *last* one decides needs the order of the queue, mutations before questions (`SessionInv`, `Ordered`). `TabInv` and `ReadInv` do
so for the playlist tab: rows that differ are to be read again, by an edit, a read or a timer that is pending. This chain breaks with a
lost or replaced connection or a refusal (section 3), so that these parts speak of behaviours without either (`Calm`).

### LocalLibrary

| Theorem | Says |
|---|---|
| `LibraryTypeCorrect` | `Spec => []TypeOK` |
| `UnchangedTagsAreRight` | under `[][NoReturn]_vars`, a file that a scan would pass over as unchanged is shown with its tags (`UnchangedIsRight`) |
| `TagsAreRightWithoutMoves` | the same of every behaviour, of a program that does not move files and undoes no tag save |
| `UpToDateIsRight` | under `[][NoReturn]_vars`, a scan that reports the library up to date has left an index that shows exactly the files there are, with their tags (`UpToDateIsTrue`) |
| `UpToDateWithoutMoves` | the same of every behaviour, of a program that does not move files and undoes no tag save |
| `OnlyTheDeletedIsForgotten` | if no move is rolled back, a scan never forgets a file that is still on its volume (`ForgetsOnlyTheDeleted`, an action property) |

`KnownInv` is about revisions, which are all a scan compares. Whatever is known of a file with one revision, on the disk, in
a row, in a request or answer or in the hand of a walk, has the same tags (`OneVersion`), and none is newer than the clock (`Past`). The exception is an
answer whose worker found another file at the path than the walk did: then that other file is still there or gone (`Read`). To keep this, the
file the walk saw must not come back with its revision while the answer waits: `NoReturn`. `commit_prepared` (`local_library.cpp:1615`) compares
the revision the walk saw with the one the path has now, and not with the one the worker read. A file that is moved away
and back, with another file at its path in between, passes this comparison; that takes, for instance, two moves by the program and two changes by others while one answer waits.
Without moves, every change makes a new revision and `NoReturn` holds by itself (`OpInv`, `NotMoving`).

`RightInv` is about a path and a scan that answers for it: it has opened the folder, whose token is still its own (`Owned`; the tokens of two
scans differ, `Ages`), and the path is not spoilt. If the walk has passed the path (`WalkRight`), the row is right, or the path is among the requests and
answers of the pool, or the scan knows already that it is incomplete. When the folder is done (`DoneRight`) the middle cases are
gone. `There` says that a row bearing the token of the scan has its file. A save, a move and a copy step through these cases between the
publication of the file and the transaction of the lists, with the path in `Busy`; the row they leave bears the folder's token, so
that the scan does not take it for missing.

`HeldInv` is about the one step that deletes. A revision has one holder (`Apart`): the path whose file has it, or that would have
it again if a tag save were undone. No row bears a revision held at another path, unless a move is between its rename and its transaction (`NoTwin`). So what was
looked for, and not found, on a volume that is mounted has no holder at all and gets none (`Vanished`), because revisions are not given out twice. A
move that is rolled back after a scan has indexed its target leaves a row with the revision of the restored file; if the same move is made again, a scan that has
confirmed the target missing in between forgets the row of a file that is there.

### Only model-checked

* `MetadataCommit`: its safety properties with undos, of which the program offers none.
* `ListSnapshots`: what the next start shows is a fold over the history of moves, and what a fold yields for every
  history needs induction over data.
* `LocalLibrary`: `UnchangedIsRight` and `UpToDateIsTrue` in behaviours in which a file returns under a waiting answer, and
  `ForgetsOnlyTheDeleted` where moves are rolled back: true within the bounds of `library_scan`, and false beyond them (above).
* `MpdQueueEdits`: `QueueEditsLandAsAimed`, because what the server makes of a list of ids or moves is a fold over it.
* All liveness (`JobsEnd`, `EveryCommandAnswered`, `EveryStreamEnds`, `ScansEnd`, `QuestionsEnd`, `ListsAreStored`): the prover handles neither
  fairness nor `ENABLED`.
* `OnlyCopySurvives`, `RolledBackIsUnseen`, `CompletedSavesStand`, `CoversAreTold`, `OthersKeepTheirOrder` and `OnlySelectedLeave` are refuted (section 4); only the first is a run.
* `MetadataCommit` beyond the first lapse: what the lists show is then what section 4 says.

## 6. Not modelled, and why

Formatting, parsing, tags, SQL and network encodings are conversions of data. Qt widgets are
presentation. FFmpeg, PipeWire, SQLite and MPD are external; what the code relies on of
them is modelled where it is used. File contents are one value per item, directory creation is left
out, other programs create files only under free names and never remove ours. In the player,
volume, ReplayGain, underrun counts, network streams, segments that start after frame 0 and
the throttle of publications (nondeterministic here) are left out.

Of the metadata commit, the writers and the plan over many files are left out, and all saves are of one
source path. Of the lists, there is one list and one level of undo; a row added before its file was
probed, several lists and a file that another program moves are left out. Of the library, queries, ratings, and the reading of
a file (an answer carries what the file held when it was read). Of the controller, browsing, artwork, ratings, outputs, the stash and
the list tree, which use the same slots or address rows of their own; the full queue of the session
(`MpdSession` has it); of the queue edits, tracks without a song id, a removal while an earlier one waits, and a queue that is stashed
behind another playback context.

## 7. Plan

1. *Built and proved*: `RenamePublication`, `AtomicOperation` with the refinement, `MpdSession`, `MpdQueueMirror`,
   `CopyPublication`, `LocalPlayback` with `LocalAudition`, and of `MetadataCommit`, `MpdController` and `LocalLibrary` what
   section 5 lists.
2. *Built and checked*: `ListSnapshots`, `MpdQueueEdits`.
3. *Left to the models*: the batches that publish many files at once (`file_publication_apply.cpp`), the outbox of
   Last.fm, and the order of playback.
