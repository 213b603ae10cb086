# A TLA+ model of finance-context-builder

finance-context-builder turns an uploaded workbook ("book") into a context
document. An HTTP API accepts the book and puts a job on an RQ queue; a worker
forks a *horse*, the horse spawns the *pipeline child*, and the child parses,
compiles, lays out, graphs and renders the book. These processes share no
memory. They meet in a directory on disk (`meta.json` and three lock files), in
one RQ hash in Redis, and in a Redis stream of progress events. Almost
everything that is hard to get right, and hard to test, is in how those three
are read and written while other processes go on, die or are retried. That is
what this project models first (JobLifecycle, ProgressStream, SharedCache,
EmbeddedWorker, Documents). The other half is a chain of pure stages that read
a workbook in pieces, cut corners for speed and join data by position; there
the question is whether the short way gives what the plain one would
(RangeGraph, Layout, Context).

Source paths below are relative to `src/finance_context/` of the repository.

## Inventory

| Component | State it keeps | Operations | Hard part | What makes it correct |
| --- | --- | --- | --- | --- |
| Job API, `api/routes/jobs.py` | none of its own; reads and writes `meta.json`, `.lock`, the RQ hash | POST (dedup, stop, enqueue), GET (mark `queue_lost`) | decisions on a series of reads that are stale one by one | never two live runs of a book; a run is declared lost only when it is over |
| Queue facade, `jobqueue/queue.py` | RQ hash, queue list | `enqueue(unique)`, `status`, `request_stop`, `delete`, `session_inflight` | RQ's own saves race with `delete` | the hash describes the run that exists |
| Horse, `jobqueue/jobs.py` | `.horse.lock`, `.horse.json`, `retries_left` | admission retry, spawn, finish, shared-cache retry, `on_horse_killed` | SIGKILL, retry of the same generation | lost runs are retried or reported, not both |
| Locks and child start, `jobqueue/spawn.py`, `parents.py` | `.run.lock` | `run_child`, probes, parent watch | orphan children | a replaced run does not touch the book |
| Pipeline, `app/pipeline.py` | `meta.json`, documents | stages, final write, `mark_job_failed` | kills between two writes, late failure reports | a finished book stays finished |
| Shared cache, `app/shared_cache.py`, `app/artifacts.py`, `app/publisher.py` | `shared/books/{id}` files, `stages.json`, session `meta.json` | `invalidate_for_run`, `write_shared_stamp`, both `clear_*` | two sessions, deploys and crashes between files and their description | a snapshot was made by the code its stamp names |
| Progress, `jobqueue/progress.py` | one queue and thread per process, a Redis stream | `emit`, the sender loop | fork, lost Redis, another thread than the writer of `meta.json` | events agree with `meta.json` |
| Events, `api/routes/events.py` | the gate's counter, `last_id` per response | connect, snapshot, XREAD loop, close | disconnects at every await, reads between events | no gap, no duplicate, every place given back, the response closes |
| Embedded worker, `jobqueue/embedded.py`, `pool.py`, `parents.py` | child process, stop flag | start, supervise, stop, parent watch | restart racing stop; serve killed without stop | one pool at a time; none after stop; a dead pool is replaced; nothing outlives serve |
| Object export and documents, `store/duckdb_io.py`, `api/routes/documents.py`, `render/markdown.py` | objects under a hash, the marker `_complete.json`, `.minio-publish.lock`, the renderer stamp | `export_succeeded_book`, `republish_file`, `_ensure_published_book`, GET | partial uploads, several sessions of one hash, kills between two calls | the marker lists whole objects only; an old export is not served as the new build |
| File primitives, `store/fs.py` | files | `atomic_replace`, `file_lock`, `update_json` | crash during a write | readers see whole files |
| Formula graph, `formulas/csr.py`, `graph/` | cell edges, cycles, the trace's indexes | range nodes, expansion, cycles (list and packed), lags, trace | a range is one node above a size and many edges below it; interval and segment trees | what is found through nodes is what the plain expansion gives |
| Layout, `layout/` | per sheet: bands, axes, blocks, row stacks; per workbook: shared axes, timelines | `detect_layout`, `_share_repeated_axes`, `link_workbook_timelines`, `formula_relations` | fast paths beside full scans; state carried from column to column and from row to row | the fast path agrees with the plain one; no column or row is lost, merged or taken twice |
| Context, `context/`, `render/markdown.py` | temporary files, the markdown sidecar, `context.json`, `context.md` | `build_context`, `_write_streamed_context`, `_publish_streamed_markdown`, `build_observations` | parts of files read back, values joined by position, exceptions and kills while streaming | the document says what the workbook says, and is always whole |
| Excel and formula text | none between runs | readers | boundaries | agreement with a reference definition |

`meta.json` is published with `os.replace`, so a read or an update of it is one
step. All locks are `flock`s: the kernel frees them when their holder dies.

## Modules

### JobLifecycle

One book in one session, from POST to its final status. The variables are the
files (`meta`, `docs`, the lock holders, `horseRec` for `.horse.json`), the RQ
hash and list (`rq`, `listed`, `stopReq`), a program counter for each API
thread, horse and child, and what each API thread has read (`lst`, `lmeta`).

Grain: every Redis call of an API thread is a step, a `Job.fetch` together with
the call that uses what it fetched; file reads and lock probes between two Redis
calls are one step; every file write is a step. `request_stop` is its status read
(`PostStop`) and what it does with the answer (`PostCancel`); `queue.delete` takes
the id off the list, drops the hash and sweeps once more (`PostDelete`); RQ pops an
id (`HorsePop`) before the horse marks the hash started (`HorseStart`).
`_wait_until_clear`'s status read and lock probe are one step (`PostWaited`), and so
are the two messages of `send_stop_job_command`. A probe of a
free lock may answer "busy" while another thread's probe holds it
(`OthersProbe`, `RunBusy`). The horse and the child take a step per lock
operation and per write.

| Actions | Code |
| --- | --- |
| `PostStart` .. `PostWaited`, `PostDeadline` | `_accept_upload`, `_inflight_response`: dedup, wait; `PostStop`, `PostCancel`: `request_stop` |
| `PostLock` .. `PostEnqueue` | `_enqueue_or_reuse` under `dest/.lock` |
| `GetStart` .. `GetMark` | `_read_job`, `_queue_lost`, `_lost_now` |
| `HorseLock` .. `HorseReturn`, `OnHorseKilled` | `execute_job` of `jobqueue/jobs.py`, `watch_child`, `on_horse_killed` |
| `ChildLock` .. `ChildExit`, `ChildRaise`, `ChildMark` | `run_child`, `Pipeline.run`, `_run_pipeline_child` |
| `HorsePop`, `HorseStart`, `HorseSave`, `RqSchedule`, `RqMaintain`, `RqExpire`, `StopHorse` | RQ, external |
| `HorseKilled`, `WorkerCrash`, `ApiCrash`, `RedisDown`, `Deploy` | faults and deploys |

Four windows the protocol leaves open are recorded in the history variable
`races`: `stale_record` (RQ takes a generation again while `.horse.json` still
holds the dead horse's record of it), `late_save` (RQ saves an outcome to a hash
that POST has deleted or replaced, or the worker's `on_horse_killed` runs only
then and reads the metadata of the newer start), `reused_gen` (a run died after
`invalidate_for_run` had unlinked `meta.json`, so that POST counts generations
from 1 again while an older process, such as a worker that has not yet run
`on_horse_killed`, still has to report under a higher one) and `late_cancel` (a
worker takes the job between `request_stop`'s status read and its cancel: RQ writes
`canceled` on the hash of a live horse). `NoStaleRun`, `LaunchWhenIdle`,
`MarkLostOnlyIfDead` and `ShowsStatus` are stated outside these
windows; `JobLifecycle_retry_window.cfg` shows what the first one costs and
`JobLifecycle_after_stop.cfg` what the last one does. `SucceededStays` and `Settles`
have no such exception.

### ProgressStream

The publishers of the four processes (API, worker, horse, child), the Redis
stream with trimming and expiry, and the SSE readers. A fork copies a
publisher's `Thread` object but not the thread (`Forked`). A reader is in one of
six places between connecting and closing; it may be disconnected at each await.
The run is reduced to the steps that emit or move `meta.json`.

### SharedCache

Several sessions of one book. A file is modelled by its provenance, the set of
`<<stage, hash of that stage's code>>` that took part in making it, so that "was
this built by the code its stamp names" is a statement about sets. `POST`
records `rebuild_from`; the child takes the book lock, invalidates, runs the
stages, writes the final `meta.json` and then `stages.json`. Each child knows
the code it imported (`mod`) and the stamp it took later (`stamp`). The history
variable `windows` names the four ways in which a stamp can come to lie:
`late_stamp`, `no_sidecar`, `recorded`, `half_rebuilt` (described in the
module); `SnapshotHonest` says that there is no fifth one.

A deploy is taken to keep `ir/compile.json`'s schema id (a change of it only
makes the compile stage run again). The stages of another session's run
interleave freely with everything but the book lock. An unreadable `stages.json`
and a book without `source.xlsx` are left out.

A property of the code worth knowing, which is not a defect: the first POST of a
second session has no stage map, records `layout`, and therefore deletes and
rebuilds the shared layout even when `stages.json` matches.

### EmbeddedWorker

The RQ pool that `serve` runs as a child process. Two threads of serve share
`_stop` and `_proc`: the main thread (`Start`, `StopSet`, `StopTake`,
`StopJoin`) and the supervisor (`SupLoop` .. `SupPlace`, one step between two
looks at shared state). Both may run `_shutdown_proc` (`ShutdownSnap`,
`ShutdownSignal`, `ShutdownKill`). A pool boots, arms its watch of the parent
(`PoolArm`), has workers in its process group and a horse outside it; killing
the group leaves the horse, which notices that its worker is gone
(`HorseWatch`). The warm stop of RQ's pool and workers is external. Serve may
end at any point (`ServeExit`), which stands for a second signal too.
`PR_SET_PDEATHSIG` also fires when the supervisor thread that made the pool
ends; that happens only once `stop()` is under way and is left out.

### RangeGraph

The formula graph of one sheet. A workbook is read cell by cell (`ReadValue`,
`ReadFormula`, in the order of the XML), compiled to cell edges (`Compile`) and
graphed, from a list of edges (`GraphList`) or streamed (`GraphPacked`). A large
rectangle, a column or a row stays one *range node*, whose cells are written
nowhere; three pieces of code find them again:

| Definitions | Code |
| --- | --- |
| `range_node_for`, `expand_range`, `merge_spans`, `present_pairs`, `edge_rows` | `formulas/csr.py`: node or expansion, the index of present cells |
| `cover`, `tree`, `HopEdges`, `HopMembers`, `hop_flags` | `RangeHops` of `graph/ranges.py`: from a node to its formulas through segments of a balanced tree |
| `classify_cycles`, `cycles_packed` | `graph/cycles.py` and `graph/stage.py`: components and their class, twice |
| `EdgeLag`, `add_range_lags`, `FormulaLags` | `graph/stage.py`: period lags of an edge to a node |
| `EndTree`, `Covering`, `CoverIndex` | `_Intervals` and `CoverIndex`: which nodes contain a cell |
| `precedents`, `dependents`, `Walk` | `trace_graph` of `graph/trace.py` |

The reference is the plain expansion of every range into its cells
(`ReadCells`), on which cycles, reachability and lags are one-line definitions.
Strong components come from scipy and are external (`Reach`). The trees are
recursive functions, so the module stays open to proofs. `RangeAssumption` says
that a range below the node threshold is below the expansion cap too, as in the
default settings; otherwise an expansion is cut short and marked `truncated`.
Several sheets, unresolved references, the `stopped` reason of a trace,
circularity hints and `formula_class` itself are left out.

### JobStatus, and what JobLifecycle implements

`JobStatus` is the abstract specification of what `meta.json` promises a client
that polls. A POST accepts the book as the next generation, which is queued, runs,
possibly more than once, and ends. Every later write is for the generation
accepted last (`Belongs`), also after its child has withdrawn the file; a run and its
success need a child at work on that generation; success is final until the next
POST, or until that child withdraws what other code has left or what a rebuild is to
replace (`Withdraw`). Failure is not final: the child of a killed horse may go on for
a while, and RQ may run the generation again. `JobLifecycle!ShowsStatus` is its
specification under the mapping `status <- meta.st, gen <- meta.gen, accepted <-
accepted, working <- AtWork, outdated <- session_stale(meta), window <- races # {}`:
every one of the seven writers of `meta.json` takes an abstract step or none, until
one of the windows of `races` is met; nothing is promised after that. `accepted` is a
history variable of JobLifecycle, set by POST's first write. `overlap` checks the
refinement and `JobStatus_proofs` proves it.

### Documents

The documents of one workbook hash. Every session that posted the workbook has
its own directory, but the bucket's keys, the marker `_complete.json` and the
publish lock belong to the hash. A process is a pipeline child (`StartBuild` ..
`BuildEnd`) or a request (`Get` .. `EnsureDone`); each call to the bucket is a
step, may fail, and may leave the old object, the new one or a torn one. A
content is the session, the build and the renderer it came from.

| Actions | Code |
| --- | --- |
| `ExportLock` .. `ExportFail` | `export_succeeded_book`, `_export_body`, `_put_and_check` |
| `RepublishLock` .. `RepublishEnd` | `republish_file`, `_mark_published_key` |
| `StartBuild` .. `BuildEnd`, `StartReuse` | the end of `Pipeline._run_loaded`: documents, meta, export, warning, stamp |
| `Get` .. `ReadLocal` | `get_context_md` and its lazy refresh, `read_published_file` |
| `EnsureStart` .. `EnsureDone` | `_ensure_published_book` |
| `Kill`, `Deploy` | a killed process; a release with another `MARKDOWN_RENDERER` |

### Periods, Rows, Axes, Layout

How one sheet becomes blocks. `Periods` reads a header as a period
(`layout/periods.py`): a header is a sequence of tokens, each of which says what
the regular expressions of the code can tell of the word. `Rows` classifies rows,
`Axes` finds header bands, runs of columns, year banners, total columns and
grains (`layout/axes.py`, `layout/totals.py`). `Layout` is the machine: it picks
a sheet, finds the bands, composes the columns from left to right with the year
carried along (`ComposeColumn`), chooses the axes, and then fills the blocks row
by row with the two stacks of `_data_rows` (`DataRow`), applies the outline
parents and carves out parameter tables (`CloseBlock`). Which sheet is the only
choice; every later step is determined.

Left out: stub words, total columns named on the row itself, time-factor noise,
unlabelled ordinal runs and the restart of an ordinal run at a fraction (numbers are
integers here), `apply_axis_markers`, the text rules of derived axes,
the limit of 24 characters of a residual, number formats and `date1904`.

### Timelines, ContextParts, Observations, Context

From parsed cells to `context.json`, `context.md` and GET observations.
`Timelines` has the sharing of repeated headers and the linking of axes over the
workbook, one loop iteration per operator; `ContextParts` what `build_context`
computes for a row, an axis or a warning; `Observations` parameter blocks, cells
with a role, and `build_observations`. `Context` is the machine, over one job
directory that is built again and again:

| Actions | Code |
| --- | --- |
| `Parse` | the parser's order check (`_CellOrder.see`) |
| `WriteBatch`, `EndScan` | `_SheetSpill`, `_group_layout_cells` |
| `ShareAxis`, `ShareBlocks`, `EndShare` | `_share_repeated_axes` |
| `LinkAxis`, `WriteTimelines` | `link_workbook_timelines` |
| `RelationCell`, `EndRelations` | `formula_relations`, one cell at a time |
| `ReadCells`, `BuildAxes` | what `build_context` reads before the rows |
| `Open`, `StartBlock`, `WriteRow`, `EndBlock`, `Finish`, `Swap` | `_write_streamed_context`, `_stream_one_block` |
| `PublishMarkdown`, `DropSidecars` | `_publish_streamed_markdown` |
| `GetObservations` | `api/routes/slices.py`, `build_observations` |
| `Raise`, `Kill`, `Rebuild` | exceptions (the `except` clauses run), SIGKILL (nothing runs), the next build |

The blocks and axes of a timeline sheet are inputs here; Layout is about how they
are found. Parameter blocks are computed from the cells and the column roles.

Left out: the in-memory path of `build_context`, `per` of measures, the columns of
local periods in markdown headers, the text of rendered lines, formula links and
precedents of an observation, the filters `q` and `period`, column-role
inference with the total role and the rule of short units, hidden columns of role
cells, orphan switches, catalog and summary.

## Runs

| Run | Expect | Checks | Bounds |
| --- | --- | --- | --- |
| `overlap` | pass | `TypeOK`, `NoStaleRun`, `LaunchWhenIdle`, `MarkLostOnlyIfDead`, `SucceededStays`, `ShowsStatus` (refinement) | 1 poster, 1 getter, 2 workers, 2 generations, 2 code versions, 2 faults (not all at once, see below) |
| `settles` | pass | `Settles` (fair) | 1 poster, 1 getter, 1 worker, 1 generation, 1 fault |
| `resume` | pass | `NoGap`, `ResumedCloses` (fair) | 1 client, 2 connections, stream of 3 |
| `gate` | pass | `TypeOK`, `GateExact`, `SuccessIsRecorded` | 2 clients, 1 place, 1 crash, 1 Redis error (clients and faults not together) |
| `honest` | pass | `TypeOK`, `SnapshotHonest` | 2 sessions, 3 POSTs, 2 deploys of 4 stages, 2 crashes |
| `restarts` | pass | `TypeOK`, `OnePool`, `StoppedClean`, `Restarts`, `NothingLeft` (fair) | 3 crashes of a pool, any number of failing Popens |
| `expanded` | pass | `TypeOK`, `SameCycles`, `TraceExact`, `LagsAgree` | 5 cells in 2 columns, 5 sets of references, node threshold 2, depth 2: every such book |
| `documents` | pass | `TypeOK`, `MarkerHonest`, `FreshAnswer` | 2 sessions, 2 processes, 2 builds, 1 failing call, 1 kill, 2 renderers |
| `layout` | pass | `TypeOK`, `HeadersAgree`, `AxesSound`, `RowsPlaced`, `KeysStayApart` | 11 families of sheets of 2 to 5 rows and 3 to 6 columns |
| `context` | pass | `TypeOK`, `AlikeAxesAgree`, `ReadBackSuffices`, `KeysDistinct`, `ReportTrue`, `ReadersFind`, `UnitScope`, `MarkdownSame`, `WholeDocument` | 8 families of books of up to 2 sheets and 16 cells, batches of 2 cells, 4 warnings, 2 builds with a fault |
| `observed` | violation | `ObservedAtSource` | 27 parameter tables with blank cells |
| `merged` | violation | `SectionsAgree` | three repeats of a header, with or without markers and flags: 216 books |

Three properties of `layout` and five of `context` are conjunctions of named parts,
each with a comment of its own in the module: `HeadersAgree` (full and pruned
scan, word count, one cell and two rows), `AxesSound`, `RowsPlaced`,
`AlikeAxesAgree` (headers of a sheet, axes of a timeline), `ReadBackSuffices` (spill,
neighbours, header rows, and of the selectors that none is missed), `KeysDistinct`, `ReportTrue` (order warnings, totals, hidden rows) and
`ReadersFind` (columns and observations).

Six more configurations are kept for use by hand; TLC finds a violation with
each of them, described under "Observed": `JobLifecycle_two_posts.cfg`,
`JobLifecycle_retry_window.cfg`, `JobLifecycle_after_stop.cfg`,
`ProgressStream_missed.cfg`, `SharedCache_queued.cfg`, `Context_switches.cfg`
(with the MC module of the same component).

The bounds are the smallest in which the case a property is about happens: two
workers so that an orphan child and its successor coexist; two generations so
that a late report meets a newer run; `RetryOnLost = 1` and two faults so that a
retry is lost again; a second version of the code, so that POST
stops a running book; a gate of one place with two clients; a stream
shorter than the events of a run, so that trimming overtakes a reader; two
deploys of the stages, so that code is rolled back and a job is queued across a
deploy; two crashes, so that a half-rebuilt book loses `stages.json` too; four formula
rows in a column, so that a segment tree has inner halves, and rectangles of two
and of three cells around a threshold of two; two sessions of one hash, so that
an export meets a republish; batches of two cells, so that a sheet comes back in
a later batch; four warnings, so that the cut bites; two builds of a directory,
so that the second one meets what the first left. The families of sheets and
books each vary one part and fix the rest, so that their states add up instead of
multiplying; all sequences of header words up to the lengths the code treats
differently (three leftover words are allowed, four are not) are among them. Every
mutant listed in `PROJECT.json` breaks its property within these bounds.

Deadlock is not checked: when every bound is used up and every client has its
answer, the modelled system has nothing left to do. `overlap`, `gate`,
`honest` and `documents` use symmetry of workers, clients, sessions and processes; no liveness run does.
`overlap` and `honest` do not go on from states in which a window is
open: windows are never closed again, and the properties say nothing of what
follows. The two for which that is not so, `TypeOK` and `SucceededStays`, are proved
for all behaviours. `overlap` explores two faults on the first job, a fault with a deploy or with a
second job, and all three while nobody polls (`FewEvents` of `MCJobLifecycle`).
Larger instances were run by hand: two faults or a fault and a deploy with two
generations and the GET throughout (2 million states), and three generations with two
faults and a deploy, two workers and no getter (4 million). `gate` explores clients without
faults and faults without clients (`FaultsAlone` of `MCProgressStream`): what its
properties say of the gate does not read what a crash changes, and what they say
of the writers does not read the clients.

What `observed` and `merged` show is written out in `findings` of `PROJECT.json`,
with the sentence of the repository it contradicts.

### Observed, without a run of its own

The models also reach the following; they are limits of the code to keep in mind
when reading the properties.

Jobs and progress:

- Two concurrent POSTs (`JobLifecycle_two_posts.cfg`, `LaunchWhenIdle`): under
  `dest/.lock`, `_enqueue_or_reuse` (`api/routes/jobs.py:600`) counts a `started`
  job with a free run lock and a queued `meta.json` as free without asking for
  `.horse.lock`, so that the second POST deletes the job of a horse that is
  starting and enqueues another; the repository's `README.md:63` says "A repeated
  POST while that job is queued or started does not enqueue another".
- `JobLifecycle_retry_window.cfg`, `NoFalseLoss`: when RQ runs a lost job again,
  the new horse is `started` before it takes `.horse.lock`, and `.horse.json` still
  holds the dead horse's record; GET then writes `queue_lost` over a run that goes
  on (`api/routes/jobs.py:507`; its docstring: "True when the horse that owns this
  generation has exited.").
- `JobLifecycle_after_stop.cfg`, `LaunchAfterStop` (`LaunchWhenIdle` without the
  exception for `late_cancel`): `request_stop` reads the status
  (`jobqueue/queue.py:223`) and acts on it two calls later (`:241`). A job that a
  worker takes in between is canceled although its horse lives, RQ refusing to
  cancel only what is gone or canceled; `_wait_until_clear` sees no status in flight
  and a run lock the child has not taken yet, and POST deletes the id and enqueues
  the next generation over the live horse, where `api/routes/jobs.py:697` says "The
  caller must not delete that id or enqueue another generation over it." GET's
  `queue_lost` over a live horse follows in the same way.
- `ProgressStream_missed.cfg`, `TerminalCloses`: without Last-Event-ID every XREAD
  starts again from `$` (`api/routes/events.py:143`); a terminal event added
  between two reads is never delivered and the response stays open, where the
  repository's `README.md:85` says "The stream closes after a terminal event."
- `SharedCache_queued.cfg`, `HonestAfterQueue`: `rebuild_from` is computed by POST
  and wins in the child (`app/shared_cache.py:210`), also when another deploy made
  an earlier stage stale in between.
- A worker may run `on_horse_killed` only after POST has replaced the dead horse's
  job: `_refreshed_meta` (`jobqueue/jobs.py:310`) then reads the metadata of the new
  start, so that the report of the old death fails the new generation, and an OOM
  saves the old job over the new hash (`late_save`). Within the
  bounds of `overlap`, it is only inside the windows that the generation guard of
  `mark_job_failed` has anything to stop.
- The orphan child of a killed horse may overwrite a `failed` of `on_horse_killed`
  with `running` or `succeeded`; `JobStatus` allows it.
- A run that is killed or raises between `context.md` and the final `meta.json`
  (`app/pipeline.py:423`) ends as `failed` with complete documents;
  `docs/en/overview.md:56` says of `failed` "No usable context".
- `Settles` is about a single fault and no deploy. With two faults a worker can
  die with its horse after the lost-job retry is used up and while `meta.json` is
  unlinked (`app/artifacts.py:58`), and after a deploy POST can stop a horse
  there; nobody writes the file again and GET answers 404 until the next POST,
  which starts again at generation 1.
- The last `stage_done` is emitted with status `succeeded`
  (`app/pipeline.py:459`), so `events.py:151` closes the response on it and the
  `succeeded` event itself is not sent.
- `mark_job_failed` emits `failed` also when it left a finished `meta.json` alone
  (`app/pipeline.py:694`).
- A horse forked by a worker that has published before (`on_horse_killed`) gets
  a copy of the publisher's `Thread` object without the thread
  (`jobqueue/progress.py:72`, `Forked` of ProgressStream), and what it emits is
  never sent; `docs/en/architecture.md:63` says "The horse and the job child also
  XADD a Redis stream".
- A pool that arms itself after serve has died (`jobqueue/parents.py:59`) takes
  its new parent for the one to watch and stays; `NothingLeft` is about armed
  pools. A second signal that arrives while `stop()` holds `_lock`
  (`jobqueue/embedded.py:68`) waits for itself.
- Three of the four `windows` of SharedCache have no run: files without
  `stages.json` kept by a session without a stage map (`no_sidecar`), files
  replaced by a run that died before it wrote `stages.json`, and vouched for again
  after a roll-back by the old `stages.json` or, without one, by the `meta.json` of
  another session that began on them (`half_rebuilt`), and a stamp read from disk after the code was
  imported (`late_stamp`; compare the docstring at `app/publisher.py:181`).

Documents:

- The marker is read before the object; a reader that has read it may still be
  served an object that is torn in between (`store/duckdb_io.py:354`).
- A marker torn by a republish is not repaired until the next build.
- A child killed between the final `meta.json` and the export leaves the objects
  of the previous build listed; `FreshAnswer` exempts it (`killed`).
- A GET that a new POST of its own session overtakes between two reads may be
  answered from the export before the last one; `FreshAnswer` is about GETs that are
  not overtaken.
- Sessions of different releases share the bucket's prefix.
- The summary's ETag does not cover `meta.json`, which it shows (`api/etag.py:1`,
  `docs/en/slices.md:75`).

Layout and context:

- `Context_switches.cfg`, `SwitchesSame`: `_switch_rows` (`context/build.py:1065`)
  reads back the selecting formulas and the constants they name, not the labels
  beside the constants, so that of two candidates the labelled row is not preferred:
  the document calls both rows selectors and takes only their value columns, the
  layout, which sees the whole sheet, one. `docs/en/layout.md:81` says "When two such
  cells exist, a label such as `Scenario Chosen` keeps its row."; the test
  `tests/context/test_switch_rows.py:68` compares the two on a book without labels.
- `_apply_outline_parents` never lets a summary row below replace an indent parent,
  where `docs/en/layout.md:56` speaks of both directions; `SummaryAbove` is stated
  for summaries above.
- `_flag_bit` lower-cases `TRUE`, `_flag_on` of the context does not; the model has
  one `flag_bit` for both.
- Relations over rows of another sheet name rows of the own sheet.
- `_pick_link` falls back to the first match; unknown columns of a parameter block
  share the key `unknown`.

### Fairness

`JobLifecycle!FairSpec`: live processes keep running (weak fairness of the steps
of horses, children, requests under way and RQ's timers); a client keeps polling.
Strong fairness is assumed in two places where the code retries against the
outside: memory becomes free for the admission check, and the other session
leaves the shared book. Nothing is assumed of kills, crashes, raising stages,
outages, POSTs or deploys. `Settles` needs the polling client: a job that RQ lost
is recognised by GET only.

`ProgressStream!FairSpec`: sender threads and open connections with something to
do get to do it, and the run itself goes on. Connecting, disconnecting, faults and
expiry need not happen.

`EmbeddedWorker!FairSpec`: both threads and the processes run, a job ends
(`JOB_TIMEOUT_SEC`) and Popen does not fail for ever. Stopping, crashes, new
jobs and the end of serve need not happen.

## Proofs

TLAPS checks eight modules, for every value of the constants that their assumptions
allow. `PROJECT.json` lists the theorems; each is proved from an inductive invariant
that TLC had checked on the runs' instances first. Every invariant has a lemma
for the initial states and one for each action or group of actions.

| Module | Proves | Assumes of the constants |
| --- | --- | --- |
| `JobLifecycle_proofs` | `TypeOK`, `SucceededStays` | `LifecycleAssumption`: the bounds are naturals, the sets of processes are disjoint and `None` is none of them |
| `JobLaunch_proofs` | `NoStaleRun`, `LaunchWhenIdle`, `MarkLostOnlyIfDead` | the same, and `OnePoster` |
| `JobStatus_proofs` | `ShowsStatus` (refinement) | the same, and `OnePoster` |
| `Documents_proofs` | `TypeOK`, `MarkerHonest`, `FreshAnswer` | `DocumentsAssumption`: the two documents, bounds, and names that differ |
| `ProgressStream_proofs` | `TypeOK`, `GateExact`, `SuccessIsRecorded`, `NoGap` | `StreamAssumption`: bounds, a finite set of readers |
| `SharedCache_proofs` | `TypeOK`, `SnapshotHonest` | `CacheAssumption`: bounds, `None` is no session |
| `EmbeddedWorker_proofs` | `TypeOK`, `OnePool`, `StoppedClean` | `EmbeddedAssumption`: the bound is a natural |
| `Context_proofs` | `TypeOK`, `WholeDocument`, `MarkdownSame`, `AlikeAxesAgree`, `ReadBackSuffices` | `ContextAssumption`: bounds; `BooksAssumption`: what the parser and the layout hand over, see below |

### JobLifecycle

- `SucceededStays`: a finished book of the current code is not changed by a late
  failure report, an orphan child, a GET or a retry. The invariant is
  `IInv == TypeOK /\ LockInv /\ BuildInv`. `LockInv` says that an API thread
  inside its locked section, and a child inside `Pipeline.run`, hold `dest/.lock`,
  so two of them never meet. `BuildInv` says what a running child implies about
  the documents and `meta.json`; without it a child that has rendered could be
  thought to write over a finished book of its own generation. Every action that
  changes `meta.json` of a finished book is excluded by the lock, by the
  generation guard or by `mark_job_failed`'s check of documents and status.
- `NoStaleRun`, `LaunchWhenIdle` and `MarkLostOnlyIfDead` are proved for one POST of
  the book at a time (`OnePoster`) and any number of pollers and workers. The
  hypothesis is needed: `JobLifecycle_two_posts.cfg` violates `LaunchWhenIdle` with
  two. The invariant is `JobInv == IInv /\ SpawnOK /\ OInv`, where `OInv` holds
  outside the windows of `races`. Nobody asks a horse whether it lives; POST and
  GET infer it from `.horse.json`, `.horse.lock` and the RQ status, read one after
  the other. So a horse at work owns the started hash (`HorseOK`), generations in
  files, hash and slots are ordered (`HashOK`), the holder of `.run.lock` is of
  the newest generation (`RunOK`), and what a thread has concluded from its reads
  is still true when it acts (`PostOK`, `GetOK`), `request_stop`'s cancel after its
  status read included, unless that is a window: no step of RQ, a worker or a
  child brings a dead book back to life. Most steps are *calm*: they leave what
  those parts read alone or move it one way only, and share one lemma.
- `ShowsStatus` adds `StatusInv`: a success without documents, the leftover of a
  POST that died, has nobody running it (`Finished`); no slot or hash in flight is
  ahead of `meta.json` (`Newest`), and `meta.json`, the hash and every working
  child are of the generation accepted last (`Counted`); a building child has written
  `meta.json` and only failures came after (`Built`); and POST and GET act on a
  `meta.json` that does not become finished under them (`Accepting`, `Marking`). The
  step of each writer of `meta.json` is then an abstract `Accept`, `Run`, `Succeed`,
  `Fail` or `Withdraw`, or a stutter. The first attempt at this proof failed in `OnHorseKilled`, where the
  model had the handler report under its own generation after POST had replaced the
  job; it now reads what `_refreshed_meta` reads.

### Documents

`IInv` is `TypeOK`, `Started`, `LockInv`, `CopyInv`, `MarkerHonest`, `BuildInv`,
`ExportInv` and `ReaderInv`. `MarkerHonest` rests on the second to fourth: who takes
a key off the marker holds the publish lock until the object is checked, also when
`_ensure_published_book` enters the lock a second time. `FreshAnswer` rests on the
last three: a session whose build has recorded the outcome of its export has no
older object of its own listed, and what a GET was owed when it began stays true
of the files it may find, unless a new POST of the session overtakes it.

### ProgressStream

`IInv` is `TypeOK`, `RunInv`, `EventInv`, `StreamInv`, `ReaderInv` and `GateExact`. The
stream is a block of consecutive ids that ends with the last one given out
(`StreamInv`), so that what an XREAD returns continues after the id a reader has, or
after what trimming has taken; `SuccessIsRecorded` is inductive only when it is said of the events
still in a publisher's queue as well (`EventInv`).

### SharedCache

`IInv` is `TypeOK`, `LockInv`, `ModInv` and, outside the windows, `Truth`: files nest
as the stages do, `stages.json` is true while nobody works on the book, and without
it every session with a stamp has the same one and the files are of that code. The
attempt to prove the last part found the second form of `half_rebuilt`, which
needs two crashes; the run's bounds were raised to meet it.

### EmbeddedWorker

One invariant gives all three theorems: `PoolInv` (all pools but the last one made
are dead), `SupInv` (what the supervisor's place in its loop says about the last
pool: on the way to Popen it is dead with its workers, and before `stop()` it is
`_proc`), `CrashInv` (before `stop()` a pool ends by a crash only) and `OwnerInv`
(a pool that is not dead is in `_proc`, or is being shut down by `stop()`, or is
still in the hands of `_spawn`). `OwnerInv` is what the second look at `_stop` in
`_spawn` is for.

### Context

`BooksAssumption` is what the earlier stages hand over: the cells are a list in
which no address stands for two different cells; axes have an id of their own
in the workbook (`layout/axes.py` makes it of the sheet's name, the row and, where
a row has several, the column); blocks name axes of their own sheet. A malformed
file may repeat an address with another content, which the parser keeps and warns of
(`_CellOrder`); such files are outside the theorems and the runs. Nothing is
assumed about the order of the cells, the number of sheets, or what any cell, header
or formula says. The external vocabularies (`MeasureOf`, `NumberOf`, `SlugOf`, ...)
are arbitrary.

- `WholeDocument` and `MarkdownSame` follow from `DocInv`. What is published comes from
  pieces written in several steps, so the invariant says what is on the way: while
  block `at` is built, the blocks before it have all their rows (`Written`), the
  Markdown body beside it is the concatenation of `block_section` over them and the
  row count is their sum (`Streamed`), published documents are whole
  (`PublishedWhole`), and a temporary file or an axis side file belongs to the
  running build or to a killed one (`TempFiles`). A body left by an earlier build
  cannot be taken for the current one because opening a build resets it. The parts
  `Records`, `LayoutLists` and `OutLists` are the shapes all others need.
- `AlikeAxesAgree` speaks of headers of a sheet that all have markers or all have none:
  of others it is false, which is what `merged` shows. It needs two facts that neither algorithm states. For axes of one
  sheet, `Sharing` (with `SharedTo`): every axis seen so far is held by the kept axis
  it is mapped to (`Held`), its flags those of the table it was found through, and the ids of kept axes and of aliases are
  apart. For the workbook, `Bucketed`: all members of a bucket have its signature, and
  each has the bucket's dates and flags or none. Compatibility is not transitive (an
  axis without dates fits any other); it holds between any two members because a bucket
  takes the dates and flags of the first member that has some and never
  changes them afterwards.
- `ReadBackSuffices` is equality with the whole file for the cells of a sheet, the
  neighbours and the headers, and inclusion for the selector rows, of which equality
  is false (`Context_switches.cfg`). It needs `SpillKept` (with `SpillTo`): after each batch, names and parts
  are those of the cells read so far, in file order, wherever batches cut the sheets;
  `LayoutSound`: after sharing, blocks still name axes that were kept and come from
  their sheet; and `ReadBack`: what was read before the row loop are the cells of the
  rows asked for. The rest are lemmas about the operators: a filter that keeps
  every row a lookup asks for does not change its answer (`row_adjacency`,
  `switch_table`, `header_unit`).
- `TypeOK` needs all of these and `Numbered` and `Placed`, which tie the build numbers
  and the positions to the program counter.

The loops of this code are folds and recursive functions over lists. The theorems of
the library about induction take an operator as a parameter and cannot be used, but
induction over numbers can be had without them: `NatMin` (a set of naturals has
a least element) follows from well-foundedness, and `UpTo` is induction over a set
of numbers. Each loop gets a lemma that its *run*, the list of its intermediate
results, exists (`...Run`), and a fact about its result is proved along the run.

The attempt also changed the model in small ways: helpers that were nested
LAMBDAs have names, the types say that positions stay within their loops, and
the assumptions on workbooks, until then only true of the instances, are stated.

### Only model-checked

- `Settles`, `ResumedCloses`, `Restarts` and `NothingLeft`, which need fairness:
  fairness and `ENABLED` are out of the prover's reach.
- Of Context: `KeysDistinct`, whose suffixes come from `ToString`, of which the
  provers know nothing; `ReportTrue`, `ReadersFind` and `UnitScope`, which say what
  several loops that feed each other return. The method above would reach them, at
  the price of a lemma for every operator between the cells and the document.
- Everything of Layout and RangeGraph. What their recursive functions return over
  trees of ranges and tokens of headers needs induction over those structures.

## Plan

1. Done: `JobLifecycle` with `JobStatus`, `ProgressStream`, `SharedCache`,
   `EmbeddedWorker`, `RangeGraph`, `Documents`, the Layout and the Context family.
2. `BusyRetry`: the shared-cache retry counter in `meta.json` across POSTs, the
   admission retry and RQ's own counter; does a new submission start afresh, and
   does a book that waits always end.
3. `SessionLimit`: several books of a session; `session_inflight` is counted and
   then used.
4. `ChildWatch`: `watch_child`'s time-out, memory limit and exit codes;
   `AtomicFile`: crash during `atomic_replace` and the row-group writer.
5. A1 addresses and date serials, formula classes, catalog and summary.
6. Proofs: `ReportTrue` and `ReadersFind` of Context along the lemmas that exist; the
   types of Layout and RangeGraph, and `TraceExact` for the interval tree.

## Not modelled

Reading and writing OOXML, XLS and parquet; text of formulas, labels and rendered
documents; settings, logging and operating-system probes (their answers are
choices of the models); the in-memory job bus, which no code of the service uses.
The parts the plan names are listed in `PROJECT.json` as not modelled until their
module exists.
