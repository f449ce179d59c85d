# Verification of the video journal backend

The backend (FastAPI, SQLAlchemy on SQLite, ffmpeg in worker threads) keeps a
library of video clips and renders them, with a soundtrack, into compilations.
This directory holds TLA+ models of its stateful parts, the TLC configurations
that check them and TLAPS proofs. Paths below are relative to `src/src/app/`
unless they say otherwise; the manifest `PROJECT.json` maps every definition to
its lines.

## The system

| Part | State it keeps | Operations | What is hard about it |
|---|---|---|---|
| Progress registry (`domains/compilations/progress.py`) | `_channels`: loop and queue per running compilation; `_terminal`: last update of each ended one | `register`, `subscribe`, `get_terminal`, `push_from_thread`, `unsubscribe`, `finalize` | called by a worker thread and by coroutines; several readers of one queue; gone with the process while the rows stay |
| Progress stream (`domains/compilations/router.py`) | one generator per SSE client | `GET /compilations/{id}/events` | disconnects seen by a poll or by cancellation, state read before an await |
| Compilations (`domains/compilations/service.py`) | rows, snapshot rows, `outputs/<id>.mp4` | `create`, `delete`, `run_compilation` (background) | check in one transaction, act in another; files and rows change separately; restarts |
| Clips (`domains/clips/service.py`) | rows, original, normalized and filmstrip files | upload, `process_clip` (background), `delete`, `PATCH` | one SQLite writer and a long transaction; partial failure at every step; foreign keys of snapshots |
| Order and windows of clips (`domains/clips/service.py`) | `sort_index`, `trim_in_s`, `trim_out_s` | `_assign_sort_index` on upload, `PATCH` | computed or checked from earlier reads; floats; times whose offset is dropped |
| Media streaming (`common/media_response.py`) | none | Range parsing, chunked streaming | the file changes between stat and open |
| Soundtracks (`domains/soundtracks/service.py`) | rows, files | upload, `delete`; compilations refer to them | unlink before delete, foreign key, check long before use |
| Runner of ffmpeg and ffprobe (`media/ffmpeg.py`, `media/ffprobe.py`) | a subprocess, two pipes, two threads | run, run with progress, probe | a program that hangs, floods a pipe, closes one; a callback or a decoder that raises |
| Commands and metadata (`media/compile.py`, `media/filmstrip.py`, `media/ffprobe.py`) | none | filter graph, fade, frames, rotation, times | what is rendered must be the timeline of the POST |
| Sessions (`db/session.py`) | transactions, pool | commit, rollback | write lock, busy timeout, sessions poisoned by a failed flush, streams that keep a connection |
| Migrations (`alembic/`, `db/migrations.py`) | the schema and its version | upgrade at every start-up | DDL that commits by itself, a process killed between two statements |
| Shell (`core/`, `api/`, `main.py`), items, health, storage usage | none beyond rows of their own | | |

How they interact. `POST` commits a row and schedules a background task, which
has a session of its own. The compilation task registers a channel, commits
`running`, starts ffmpeg in a thread whose progress lines are scheduled on the
event loop (`call_soon_threadsafe`), and ends by a commit and `finalize`. SSE
generators read registry and queue. `DELETE` of either kind unlinks files, then
deletes rows in the request's transaction. Compilations hold foreign keys on the
clips they snapshot. Everything runs in one process with one event loop; a step
of a model is what runs between two awaits.

What makes each part correct:

- progress: the stream of each client is the render's own history, ends with the
  render's outcome, and agrees with the row; nobody waits for ever or is told less
  than is known, but for causes that can be named;
- compilations: a complete row can be played; a row moves forward only; one
  render at a time; files without a row are accounted for; a row in `running` has
  a task;
- clips: what a row names exists; a refused upload leaves nothing; snapshots
  refer to ready clips; no clip stays in `processing`;
- ordering: `sort_index` is chronological, trim windows are within their clip;
- streaming: the headers announce the bytes asked for, the body sends them;
- soundtracks: a compilation keeps the one it names; what is listed can be played;
- programs: a call reports what the program did, and ends;
- rendering: the command makes the timeline as it was at the POST; the bar is true;
- sessions: streams that hold connections delay a render and never lose its result;
- migrations: a start-up brings any database to the head.

## Modules

| Module | Role |
|---|---|
| `RenderProgress` | registry, SSE generators, worker thread, event loop, one compilation, restart |
| `ProgressFeed` | what the stream promises; `RenderProgress` implements it (`FeedSpec`) |
| `CompilationLifecycle` | many compilations: rows, outputs, POST, task, DELETE, restart |
| `RenderJob` | the life of a compilation as clients may rely on it; `CompilationLifecycle` implements it (`JobSpec`) |
| `ClipLifecycle` | clips: rows, three files each, upload, processing, DELETE, the POST that snapshots them, write lock, restart |
| `ClipTimeline` | clips: their order and trim windows under uploads, PATCHes and DELETEs |
| `MediaStream` | requests with a Range header for one file, and its DELETE |
| `SoundtrackLifecycle` | soundtracks: rows and files, upload, DELETE, and the compilations that refer to them |
| `FfmpegRunner` | one external program at a time, its pipes, the threads that wait for it |
| `MediaTools` | what `media/` computes around the programs, as operators; the effect of a filter graph |
| `RenderPipeline` | extends both: a clip from its probe to the compilation it is rendered into, edits meanwhile |
| `SessionPool` | the connections that streams and a render hold |
| `Migrations` | the chain of revisions, start by start |
| `RenderProgressProofs`, `CompilationProofs`, `ClipProofs`, `ClipTimelineProofs`, `MediaStreamProofs`, `SoundtrackProofs`, `RenderPipelineProofs`, `SessionPoolProofs` | TLAPS proofs about the modules above |
| `MC...` | small instances for TLC |

Definitions whose comment starts with "Fault:" are not part of the model: each is
a mapped operation with a plausible bug in it, kept beside the operation so that
one can see that a property notices it.

### RenderProgress

`chan` is the key's entry in `_channels` (with a note of who popped it),
`terminal` the entry in `_terminal`, `queue` the `asyncio.Queue`, `loopQ` the
loop's FIFO of callbacks, which carries both `put_nowait` calls and the result of
the thread. `render` is the place of `run_compilation`, `worker` that of the
thread (`holding`: it has looked the channel up and not yet scheduled the
update), `client` that of each generator. `RenderFails` finalizes and
`RecordFailure` records, as the two except clauses do, which differ in wording
only. `StartFails` covers lines 148-155, which are outside the try block. A client
cancelled by the server leaves the channel alone (`disconnected` is still false);
one that notices by its poll pops it. `pct` is the number of the progress line, so
it orders updates; several lines with one percentage are distinct in the model.
The compilation's key is never reused, so one compilation is enough.

`Restart` is the process that dies and is started again: `_channels`, `_terminal`, the
loop, the thread and every stream are gone (`chan` and `render` become `lost`), the row
is what was committed, and `lifespan` fills nothing again. A client that connects then
is told `pending` (`SendPending`), for a complete, failed or running row as well. That
departs from the docstring of the endpoint (`router.py:104-106`: "Late-connecting clients
receive the terminal state immediately if the render already finished"), so it is one
of the causes `PendingExplained` lists, and the abstract feed has a step for it
(`Forget`, the outcome `Lost`): after a restart nobody new learns the outcome, and nobody
learns a wrong one.

Simplified: `queue.get()` under `wait_for` is one atomic `Take`, any waiting
client may be next; the queue object of a popped channel stays readable by those
who hold it, as in the code.

### CompilationLifecycle

`row`, `key` and `file` are committed state and storage; `request`, `task`,
`deleter` and `order` are where handlers are and what they have read. A commit is
one step; a flushed but uncommitted write is not visible to anyone and is folded
into the commit. `busy` is the write lock not had within `busy_timeout`; any write
may meet it. A task in `lost` has stopped and left its row `pending` or `running`: a
restart, a commit of `running` or of the failure that raised, or a temporary file
that could not be made (lines 148-155 are outside the try block). Nothing in the
code picks such a row up again. `storage.save` has two steps, since it opens the
file first. `scrubbed`, `stale` and `spoiled` are history, read by properties only.
Validation that changes nothing (soundtrack, ready clips) is folded into
`CreateCheck` succeeding.

### ClipLifecycle

Here the write lock is modelled: a flush takes it (`lock`), the commit returns it.
`process_clip` holds it from the flush of `ready` across the filmstrip to the
commit in `_run_normalization`; a write that meets that (`LongHeld`) may raise,
and a write that meets a short hold waits. After a flush that raised, the session
accepts nothing before a rollback, so the except clause raises as well
(`FlushReadyFails`): the task is `lost`, the row stays in `processing`.
`NormalizeFails` includes the original having been unlinked by a DELETE. `UploadBreaks`
is every exception without a handler.

Three failures come from temporary files and commits. `process_clip` makes its
temporary file before its `try` block (`LoadFails`): no handler runs, the row stays in
`processing` and the task is `lost`. The filmstrip's temporary file is made before the
helper's own `try` block (`FilmstripRaises`): that exception reaches the handler of
`process_clip`, which sets the row it has just made `ready` to `failed` (`CommitUpset`),
with the normalized file named. And every commit may raise (`MarkFailedFails`,
`CommitReadyFails`, `DeleteRowFails`, `CommitSnapshotsFails`).

`POST /compilations`, as far as clips are concerned, is three steps, between which
DELETEs run: `ReadReady` reads the ready clips, `InsertSnapshots` flushes the
compilation, which takes the write lock, and the snapshots, each of which needs the row
of its clip (`InsertFails` otherwise), `CommitSnapshots` is the router's commit. One such
request is in flight at a time. `Unreference` is the DELETE of compilations.

### ClipTimeline

The same handlers as in `ClipLifecycle`, seen from two columns that the other module
leaves out. `_assign_sort_index` runs three SELECTs (`ReadMax`, `ReadPrev`,
`ReadNext`), each of which sees what is committed by then, and the row comes later
(`Insert`). Ties in `recorded_at` are broken as SQLite does it: `ORDER BY recorded_at
LIMIT 1` walks the index on `recorded_at`, whose entries are in the order of the
rowid, and a new row gets the largest rowid plus one. The index is an integer. A
float has finitely many values between two others as well, so both run out of
midpoints; only how many uploads that takes differs.

A time of recording that `_parse_recorded_at` returns keeps the offset of its clock. The
column is a plain `DateTime` (`clips/models.py:33`), which writes the fields of a time into
SQLite and leaves the offset out, when a row is inserted and when a query compares with
it. So `at` is what the clock showed, and `zone` is history. The library is sorted by
clocks (`Orderly`). That is "chronological order", as the docstring of
`_assign_sort_index` (`service.py:281`) has it, among clips of one offset
(`Chronological`), and not otherwise: a clip recorded at 10:00+02:00 is put after one
of 09:00+00:00, which was recorded an hour later. The docstring of the parser (`ffprobe.py:100`,
"returning a UTC-aware datetime") is not kept either: an offset other than zero is
returned as it was parsed.

A PATCH is a read with a check (`PatchRead`) and an UPDATE of the columns that differ
from what was read (`PatchCommit`), since SQLAlchemy writes no others. That is how
two PATCHes that are each valid can write an empty window: each changes one end and
has checked it against the old value of the other. Three history variables say when
a result is excused: `misled` (an upload that read a table out of order, or whose
neighbours have no number between them, or that another insert or a move has
overtaken), `overtaken` and `skewed` (such crossing PATCHes and the clips they wrote).

### MediaStream

One file and the requests that play it: row, `stat`, headers, open, chunks. DELETE
unlinks the file and then deletes the row. A reader that has the file open keeps it
(POSIX); a file named by a row is never rewritten, so its size is constant. The
parser is translated to arithmetic on a header that is already split at `-`; a header
that is not of the form is `malformed`. `Asked` defines independently which bytes a
header asks for. A suffix of no bytes or of a negative number (`bytes=-0`,
`bytes=--1`; `int()` accepts the sign) escapes the parser's check and is answered by a
206 whose `Content-Length` is zero or negative, although `_parse_range_header` says it
raises for unsatisfiable ranges. The properties exclude it by name
(`DegenerateSuffix`).

### SoundtrackLifecycle

The clips' order of steps without processing: save, probe, flush, and a commit that
comes when the request's session is closed, after the 201. Three handlers remove the
file; everything else that raises (`UploadBreaks`) leaves it, among it an `OSError` in
place of the `FfprobeError` when ffprobe cannot be started. DELETE unlinks and then
meets the foreign key (`DeleteRowFails`): the row stays listed without its file, which
`ListedSounds` states as its exception. A compilation checks the soundtrack
(`PostCheck`), inserts its row later (`PostCommit`), and looks at the row and at the
file in two more steps (`Resolve`, `Mix`). The other states of a compilation are in
`CompilationLifecycle`.

### FfmpegRunner, MediaTools, RenderPipeline

`FfmpegRunner` has the program (`proc`, `code`, `outOpen`), two pipes of limited
capacity counted in lines (`written`, `read`), the thread of the call and the thread
that drains stderr. A call with progress reads stdout to its end and only then waits
with the timeout. `subprocess.run` applies the timeout to all of the call and reads
both pipes in one loop, which is the reader and the drainer here. One program runs at a
time because the calls on the way of one clip are sequential; calls for other clips
have pipes and threads of their own.

`MediaTools` holds the pure part as operators: the metadata chosen from ffprobe's
parsed document, the frames of a filmstrip, the filter graph of a render, the
percentage. Seconds are whole and `None` is the empty set. What ffmpeg makes of a
filter graph (`VideoOf`, `SoundOf`) and when it refuses one (`Refused`) is outside the
repository and modelled from how the commands use it.

`RenderPipeline` puts the calls in their order: probe of the upload, normalization,
render, probe of the output. All the while the library is edited: a PATCH reads a row
and checks it (`PatchRead`), and writes and commits later (`PatchCommit`), in any stage,
also while ffmpeg renders, and two may cross. (Two that are equal and pending at once
count as one: the second writes what the first has written.) `rows` is the library, `posted` remembers it as it was at the POST, `snapshot` is what
`compilation_clips` holds. An old row may have no window (the column is nullable and
was so in the first revision). A body of a PATCH gives any of the two ends and the
index; it is written into the row and `_validate_trim` checks the row that results,
but only when both ends are then set. So an old row can get one end without a check, and two
PATCHes that cross can give any row a window nobody has checked (`crossed`, as `skewed`
in `ClipTimeline`).

The command has `-shortest` and mixes with `duration=first`, the faded soundtrack being
the first input. `OutputLength` is therefore the shorter of timeline and soundtrack: with
a soundtrack that ends before the timeline the video is cut there. Then the fade, which
starts two seconds before the end of the timeline, is cut or not reached, although the docstring
(`compile.py:30`) says "the soundtrack gets a 2-second fade-out", and the bar, a fraction
of the timeline, ends below 100. Files, transactions and failures between the calls are
in the two lifecycle modules.

### SessionPool

Who holds a connection: a session takes one with its first statement and returns it at
commit, rollback or close. The session of a request is closed after the response, so a
progress stream and a video keep theirs to the last byte; the render keeps one from its
query for the clips to its end, since nothing ends that transaction before. A statement
that finds the pool empty waits for the pool's timeout and fails. The pool is
SQLAlchemy's with its defaults, since `get_engine` sets no size.

### Migrations

The tables, columns and indexes each revision creates, in the order of its statements.
SQLite commits every CREATE and ALTER by itself; the version number is committed at
the end of a revision, together with what follows the copy where a batch copies its
table (`Temporary`). `Stop` is the container being stopped or killed, `StartUp` its
restart. Downgrades are not modelled: the program never runs them.

## Runs

| Run | Instance | Result |
|---|---|---|
| `progress_two_clients` | 2 clients, 2 lines, all events, any number of restarts, fair | passes: 8 properties, `FeedSpec` and `ClientAnswered` among them |
| `progress_second_tab` | 2 clients, no fault at all | violated: one client takes the terminal update, the other waits for ever |
| `compilations_faults` | 2 compilations, 2 deletes, all faults, 1 restart, fair | passes: 6 properties, `JobSpec` and `JobsSettle` among them |
| `compilations_two_running` | 2 compilations, no fault | violated: two renders at once |
| `clips_faults` | 2 clips, 1 delete at a time, 1 POST of a compilation at a time, all faults, 1 restart, fair | passes: 7 properties, `ClipsSettle` among them |
| `clips_failed_delete` | 1 clip, 1 delete | violated: row kept, original gone |
| `clip_timeline` | 3 clips, 2 PATCHes, 3 kinds of file: two clocks of one offset, and a clock of another zone that shows less and is later; known and unknown durations | passes: order kept, windows hold |
| `media_stream` | 1 request, files of 0, 1, 2 and 5 bytes, chunks of 2, every header up to one byte beyond | passes: ranges and bodies |
| `soundtracks` | 2 soundtracks, 2 compilations, 2 deletes, all faults, 1 restart | passes: 4 properties |
| `render_pipeline` | 1 upload of two kinds (a silent video of unknown duration, a file without video), 1 old clip of 3 s without a window, 2 PATCHes with one of two bodies, a soundtrack of 2 s, pipes of 1 line, 2 lines to each, all troubles, fair | passes: 6 properties |
| `session_pool` | 2 tabs, 2 players, 1 render, 2 connections, fair | passes: 3 properties |
| `migrations_fresh` | the chain of the repository on a new file, with kills | violated: the sixth revision creates tables the first has made, at every start |

What the passing runs say about faults, read the other way round, is where the
program leaves something behind:

- a client is told `pending` while its render runs if another client's disconnect
  has removed the channel, and whatever became of its render after a restart
  (`PendingExplained`);
- a compilation stays `pending` or `running`, a clip stays in `processing`, for good
  after a restart, a failed write that had to record something, or a temporary file
  that could not be made (`UnsettledIsLost`); for clips it takes no more than a second clip whose task
  writes while the filmstrip of the first is made;
- a file outlives its row after a DELETE that read the row before the render or
  the processing wrote it, or after a write that failed (`OrphansExplained`);
- a trim window is wrong after two crossing PATCHes (`WindowsHold`), the order
  after two crossing uploads, and never was chronological among clips of different
  time zones (`PlacedInOrder`);
- a connected client waits in vain if the render stopped before its try block, another
  client's disconnect removed the channel, or another client took the terminal update
  (`StrandedExplained`);
- a soundtrack is listed without its file after a DELETE that was refused because a
  compilation uses it (`ListedSounds`), and that compilation's next render fails
  (`SoundsHeld`);
- a video ends with its soundtrack, before the timeline does if that is longer
  (`CommandMatchesTimeline`), and the bar then stays below 100 (`ProgressFaithful`);
- a render never ends if ffmpeg hangs with its stdout open, if the progress callback
  raises while ffmpeg goes on, or if a line of stderr cannot be decoded and the pipe
  fills up (`CallEnds`, `Stalled`);
- ffmpeg refuses every render with a clip of unknown duration that was never trimmed,
  one with a clip of which a PATCH set the start only, at or behind its end, one with a
  clip whose window two crossing PATCHes left empty, and every mix with a clip that has
  no sound (`RefusalExplained`): such a clip makes all
  compilations of the library fail until it is trimmed or deleted;
- when streams hold every connection, a row stays `pending` because its task could not
  read it, or `running` because the failure could not be recorded; a video that ffmpeg
  has made is not lost, as the render still holds its connection (`LossExplained`).

Each of these exceptions is named in its property. That the property holds says that
the model has no other way to get there; what the models leave out is listed at the
end and under "Simplified" above.

Bounds. Two clients are needed and enough for one to take what another waits for,
or to pop its channel; a third is in the same position as the second. Two
progress lines can be reordered, three let one client read a longer run. Two
compilations race for the one slot, two deletes for one row. One restart suffices
since the state it leaves (committed rows, files) is one every later restart
preserves; in `progress_two_clients` there may be any number. Each environment event may
happen any number of times. Three clips are
the fewest with a clip before and a clip after a new one; two clocks give ties and
neighbours on either side, and a third file makes the order of the clocks differ from
that of the moments; with `Step = 2` midpoints run out at once, as
they do for floats in the end. One request suffices for `MediaStream`, since
requests share nothing but what DELETE changes. Two soundtracks, two
compilations and two deletes let a check, an insert and a delete of the same soundtrack
overlap while another one stands aside. A pipe of one line is full after one line, and
two lines to each pipe block the program on either with the other one empty or full; of
the two clips one is uploaded and one is old, so that the order, the window and the
sound of the snapshot can differ from those of the library. Of the two bodies of a PATCH
one sets the start, one the end and the place: on the old row, which has no window, each
is accepted without a check and the two leave an empty one, whether they cross or not.
The uploaded video has no sound and no known duration, so in this instance a mix with it
is refused, and the timeline of the old clip alone, whole (3 s), trimmed (1 s) or empty,
lies on either side of the soundtrack's 2 s; the proofs have no such limits. One POST of a
compilation at a time suffices in `clips_faults`: it holds the write lock once it has
inserted, and a second one that has only read is in the position of the first. Two connections and four
clients that want one exhaust the pool in every phase of the render. `Migrations` has
no bound: its chain is the repository's. Symmetry is used for clips and PATCHes of
`clip_timeline` and for the ids of `soundtracks`, whose properties are safety
properties and do not distinguish them. Deadlock is not checked where all
requests and tasks may be over and the model legitimately stops.

Fairness. The event loop runs every ready task and callback, so render steps,
scheduled callbacks and generators are weakly fair. In `RenderProgress` and the
lifecycle modules the thread's steps are fair on the assumption that ffmpeg ends;
`FfmpegRunner` makes no such assumption and says when the call ends nevertheless: there
the program goes on unless it hangs, the threads are scheduled, and the timeouts are
real. In `SessionPool` the render, the requests and the pool's timeout are fair, while
no client need ever leave. Nothing is assumed of clients,
deletes, uploads or failures; a transaction that has flushed is committed or rolled back.
The two writes of `process_clip` that wait for the write lock (`FlushReady`, `MarkFailed`)
are strongly fair: SQLite polls for the lock all through `busy_timeout` (5000 ms), many
times longer than a request holds it between flush and commit, so a write does not miss
every moment at which the lock is free. The one long hold, the filmstrip, is not covered by
that: a write that meets it may fail (`LongHeld`), fairness or not.

## Proofs

TLAPS proves the following for all values of the constants: any number of clients,
compilations, clips, deletes, PATCHes, requests, restarts and progress lines, any
subset of the faults, any recording time, duration, header, file, chunk size, pipe and
pool. The assumptions are the `ASSUME`s of the modules, which only give constants their
types. Three theorems have a hypothesis of their own, since the program promises no
more without it: `SingleTabServed` (one client; no failing start and no DELETE), `OrderKept` (`Quiet`)
and `RefusalsExplained` (`LibrariesChecked`); each is explained below. Every safety
property of a passing run is a theorem.

| Module | Theorems |
|---|---|
| `RenderProgressProofs` | `TypeCorrect`, `TerminalIsLast`, `OutcomeAgreesWithRow`, `TerminalInOnePlace`, `WaitingIsExplained`, `PendingIsExplained`, `SingleTabServed`, `FeedRefinement`: `Spec => FeedSpec` |
| `CompilationProofs` | `CompilationTypes`, `CompletePlayable`, `OrphansHaveACause`, `UnsettledOnlyWhenLost`, `JobRefinement`: `Spec => JobSpec` |
| `ClipProofs` | `ClipTypes`, `NamedFiles`, `Cleanup`, `OrphansHaveACause`, `SnapshotsAreReady`, `UnsettledOnlyWhenLost` |
| `ClipTimelineProofs` | `TimelineTypes`, `Placement`, `OrderKept`, `Windows` |
| `MediaStreamProofs` | `StreamTypes`, `RangesAnswered`, `BodyIsKept` |
| `SoundtrackProofs` | `SoundTypes`, `ListedCanBePlayed`, `OrphansHaveACause`, `CompilationsKeepTheirSound` |
| `RenderPipelineProofs` | `TypeCorrect`, `CallsReportFaithfully`, `CallsNeverStick`, `CallsGetShorter`, `TimelineIsRendered`, `RefusalsExplained`, `RefusedCommand`, `ProgressIsFaithful`, `PercentBounded`, `PercentMonotone`, `PercentFull`, `FramesApart`, `OddQuarterTurns` |
| `SessionPoolProofs` | `PoolTypes`, `StreamsBounded`, `LossIsExplained` |

None of the properties is inductive. What each proof adds:

- `RenderProgressProofs`. The row invariant and `PhaseInv` tie the contents of `loopQ`
  to where the render and the thread are: while ffmpeg runs the loop holds progress
  updates only, when the thread is done its result is the last entry, so when the
  render resumes the loop is empty, and nothing but the terminal update is scheduled
  after that. `OutcomeAgreesWithRow` needs in addition that an outcome, once in
  `terminal`, is the one the settled row has or is about to get (`SettledInv`); of a
  process that is gone, `LostInv` says that nothing is on its way any more and that the
  frames clients have received agree with the row it left. `PlaceInv` says that a
  channel is finalized exactly when the loop, the queue or one client holds the terminal
  update, and never two of them: `finalize` finds the loop empty, a delivery moves the
  update to a queue that has none, and `get()` moves it to a client that, by `ChanInv`,
  had none (a client with one is past listening). `WaitingIsExplained` and
  `PendingIsExplained` are a case analysis on the channel under the same invariant.
  `FeedRefinement`: the updates on their way to a client (queue, then loop, then the
  thread's hand) grow, and what a client has seen is below all of them; so whichever
  client takes an update, its own frames grow. `SingleTabServed` is the positive side of
  run `progress_second_tab`: of the three causes of `WaitingIsExplained`, one needs
  another client, one a channel popped by a client that is then the one that left, and
  one a start that failed or a row deleted before its render; with one client and
  without those two events `NeverStranded` holds.
- `CompilationProofs`. `PhaseInv` (row, request and task agree), `OrderInv` (what a
  DELETE has read and what the row can have become since), `FileInv` (the output of a
  row in each phase). The refinement maps each commit to a step of `RenderJob` and all
  else to a stutter.
- `ClipProofs`. `LockInv`: between its flush and its commit a handler has the write
  lock, so no DELETE commits there and the row a task is about to commit exists.
  `FileInv` and `TidyInv` say which files are whole and which are there at all;
  `OrderInv` that the keys a DELETE has read are the row's keys, unless it read them
  while the clip was in process. `SnapshotsAreReady` needs `PickInv`: a clip that a POST
  has read as ready is ready still, or gone, as no handler takes a ready clip back; those
  that are gone are refused at the insert by the foreign key, and from the insert to the
  commit the write lock keeps the others.
- `ClipTimelineProofs`. Lemmas about the three queries come first: neighbours are
  unique because rowids differ (`RowInv`), and a query returns nothing only if there
  is nothing, since a bounded set of integers has a largest element. `PlaceInv`: what
  an upload that was not misled has read still bounds the indexes of the rows that are
  left; deletes cannot falsify it. `PatchInv`: a PATCH that was not overtaken leads to
  a valid window. `Placement` speaks of one insert; `OrderKept` of the life of a library:
  as long as uploads come one at a time, PATCHes only trim, and the neighbours of an
  upload leave a number between them (`Quiet`), no upload is ever misled, so the library
  is sorted in every state. Both speak of clocks first; that clips of one offset are then
  in the order of their moments is a lemma (`ClocksTell`).
- `MediaStreamProofs`. `ParseFacts`: the parser returns exactly the interval `Asked`
  describes. `BodyInv` bounds what was sent by what was announced and that by the file.
- `SoundtrackProofs`. The file of a row whose upload is under way is in the state its
  step says; a row that a live compilation names cannot be deleted, since the commit of
  the POST and that of the DELETE each see what the other has committed; a render past
  its look at the row can miss the file only if a DELETE has read that row.
- `RenderPipelineProofs`. For the runner (`RunnerIInv`), where each thread and the
  program can be together and how many lines are left then; no line is read twice and
  none is skipped. `CallsNeverStick` and `CallsGetShorter` are the safety half of
  `CallEnds`: a call under way has a step to take unless `Stalled` names why not, and
  each of its steps reduces a number that starts at 6 `MaxLines` + 6 at most. What is
  left to liveness is that whoever can take a step does.
  For the command (`PipeIInv`), that the snapshot stays the copy of one timeline of
  `posted`, that an edit never changes a duration, on which an unset window falls back,
  and that the filter graph reads pads in the order of its inputs.
  The length of a timeline is a sum over a finite set, which the library defines by a
  recursive function. That it exists and is a number is shown by well-founded
  induction on the cardinality of the set (`SumExists`, `TotalType`), in the form of a
  least counterexample (`WFMin`). On it rest `TypeCorrect` and `ProgressIsFaithful`, with
  `StageIInv`: the percentage shown is that of the last time, and a render that ended
  well had a command that ffmpeg accepts, hence only windows of positive length, hence a
  length that is no negative number.
  `RefusedCommand` reduces a refusal to the windows and sounds of the inputs;
  `RefusalsExplained` then needs `CheckedIInv`: a row with both ends set was checked, or
  has no known length and the empty window of its upload, or was written by PATCHes that
  crossed. It is kept because a PATCH that is not committed was checked against the window
  it has read (`EditChecked`): if the row still has that window when the UPDATE comes, the
  result is valid, and if not, the row becomes `crossed`. Of the rows at the start the same
  is assumed (`LibrariesChecked`).
  How long the output is comes from two sums, of the windows and of the soundtrack's one
  (`LengthOfOutput`).
- `SessionPoolProofs`. `HolderInv`: in which places a session has a connection for
  certain. A stream has one to its end and the render has one from its query for the
  clips on; so the streams are one fewer than the pool while ffmpeg runs
  (`StreamsBounded`), and the commit of a finished video never waits. `LossInv` adds how
  far the row is in each place and which statement has failed when it stays behind.

Model-checked only: liveness (`ClientAnswered`, `JobsSettle`, `ClipsSettle`, `CallEnds`,
`RenderEnds`), which is out of the prover's reach under fairness, as is ENABLED: the
conditions in `CallsNeverStick` are the guards of the steps, written out. `NeverStranded`
is refuted for two clients by run `progress_second_tab`. Of the functions that
read a document of ffprobe (`ParseVideo`, `ParseAudio`, `RecordedAt`) only the rotation is
proved about (`OddQuarterTurns`); TLC runs them as part of `RenderPipeline`.

## Plan

1. Done: the models above, their runs, and the proofs listed.
2. A composition of `CompilationLifecycle` and `RenderProgress`: several compilations
   with their channels, so that what a client is told is compared with the row after
   restarts and deletes.
3. A model of the limits the queries have (500 ready clips); a proof that a composition
   of `ClipTimeline` and `RenderPipeline` discharges `LibrariesChecked`, with `skewed` clips
   as the `crossed` rows.

## Not modelled

- Items (single-row operations in one transaction each), health (a constant answer),
  configuration, logging and error mapping: no state that interacts.
- Storage usage: a read-only walk of the directories. It fails if a file goes between
  `is_file` and `stat` of one entry, and changes nothing.
- Conversions of time zones: no code does any. Offsets are modelled as what the column
  drops (`ClipTimeline`); the fallbacks for a file without a creation time (its
  modification time, then the current time) are clocks of UTC like any other.
- Codec options other than `-shortest`, paths and the wording of command lines; decoding of JSON and text;
  titles and extensions of files: unit tests reach these.
- Downgrades of the schema, which the program never runs.
- The cap of 500 ready clips in `get_ready_clips`, which shortens a larger library
  without a word.
