# TokenMonitor in TLA+

TokenMonitor reads the session files of AI coding tools, stores one row per
model call in a SQLite database, and shows totals in a window, a floating ball
and a terminal report. This directory holds TLA+ models of the parts where it
could go wrong unseen, TLC runs on small instances, and TLAPS proofs.

Line numbers are those of the sources under `src/`; `PROJECT.json` maps every
definition to the lines it models.

## 1. Inventory

### Components, their state and operations

| component | state | operations |
|---|---|---|
| `collector/scanner.rs` | settings `scan.fingerprint.<p>`, `scan.files.<p>`; `usage_records`; `projects`; a batch and a project set per scan | `scan_one`, `scan_all` |
| `providers/source.rs` | none kept; walks the tool's tree | `roots_fingerprint`, `scan_roots_incremental`, `for_each_line` |
| `providers/*` (15 adapters) | cached roots | parse files or the tool's own database, give each record a dedup key |
| `collector/mod.rs` | the connection behind a mutex, an unbounded event channel | `open` (three migrations), `scan_async`, `run_scan`, settings |
| `collector/scheduler.rs` | the interval, a wake channel | wait, scan, send the summaries |
| `collector/watcher.rs` | (not started by any code) | – |
| `storage/*` | tables with a globally unique row fingerprint; WAL, 5 s busy timeout | insert-or-ignore batches, upserts, settings, aggregates, legacy copy |
| `core/pricing`, `core/model`, `core/aggregation`, `core/quota`, `report/*` | none | pure functions over records and dates |
| `core/update.rs`, `app/update_check.rs`, `tui/update.rs` | `UpdateState`, the skipped version, the downloaded file | check, download, skip, apply a result |
| `app/app.rs`, `app/state.rs` | selections, aggregates, `scan_status`, `view_seq`/`applied_seq`, two channels of one, the auto-start switch | handlers of user input, collector events and snapshots; the aggregate worker |
| `tui/app.rs`, `tui/mod.rs` | report, cursor, range, update state | keys, collector and update events |
| `app/mod.rs`, `platform/windows/single_instance.rs`, `tray.rs` | instance mutex and activation event; icon, queue of commands | start, hand over to the running copy, hide, show, quit |
| `ui/floating.rs`, `platform/windows/mod.rs` | the ball's position, shape, edge, number and label | press, drag, drop, dock, morph, grow with usage |
| `app/window_state.rs` | last size seen, size waiting to be written | observe, settle, write |
| `platform/windows/autostart.rs` | a registry value | query, add, remove |

### Interactions

```
 tool's files --> adapter/walk --> scan_one --> SQLite <-- aggregate worker
                                     |  ^                     |      ^
       scheduler, scan threads ------+  | (another process)   |      | requests (1)
                                     v                        v      |
                            collector events ---------> UI thread ---+
                                                         |  ^ snapshots (1)
                  update tasks, auto-start jobs <--------+  +--> floating ball
                  size writer, scheduler's wake <--------+  +<-- tray commands
```

Scans of one process are serialised by the mutex around the connection; those
of the desktop and the terminal only by SQLite, statement by statement. The UI
thread sends requests and events into channels that may be full; it waits only
where it saves a setting, which needs the mutex a scan holds.

### What is hard, and what would be correct

| component | hard behaviour | correct means |
|---|---|---|
| scan | a crash, an error or another process between any two statements; files that grow while they are walked and read | what the stored states and fingerprint let later scans skip is in the database; everything comes to be stored |
| line reader | a line seen half written | keys stay line numbers; all known lines have their key |
| adapters | entries that repeat, move, migrate, come half written or in two places; running totals; counters that overlap | a call is one row, in disjoint counters, under its own model, session and project; what is passed over is counted |
| scan events | overlapping scans, failures, aborted runs, another process's scan | stored usage gets on screen; the spinner ends |
| view | two channels of one that refuse when full, torn reads, a closed ball | a quiet screen shows the newest data of the selection |
| start-up migrations | two programs, a crash between delete and mark, two price tables | no row is lost, every row has its current price, only whole databases are opened |
| scheduler's interval | a choice during a wait, a scan or a wake | the new interval is waited for and saved |
| updates | late results, two tasks, cut connections, restarts | no hidden task, only whole files are installed, a version whose skip was saved stays skipped |
| start, tray, hand-over | two launches, two clicks, windows the system destroys | one copy, one ball, always a way to reach it |
| ball | drops handled late, in the middle of a morph or of the next drag | the last drop decides edge, shape and place |
| auto-start | writes in any order, a first reading among them | the switch shows what the registry holds |
| window size | sizes, moves and failing writes while the writer waits | the last usable size is stored |
| terminal report | five queries at five times, midnight in between | the panels agree with the database and with each other |

## 2. Modules

| module | models | proofs |
|---|---|---|
| `UsageLedger` | the promise of a scan, with no files or fingerprints: usage is entered, never lost, and scans rest only when all is entered | – |
| `ScanStore` | `scan_one` with both walks, the database and the environment | `ScanStoreProofs` |
| `LineReader` | one growing file under `for_each_line` | `LineReaderProofs` |
| `UsageRows` | what the adapters share: roots, files, records, the table | `AdaptersProofs` |
| `LineAdapters` | Claude, Codex, CodeBuddy, WorkBuddy, Pi, OpenClaw, DeepSeek | `AdaptersProofs` |
| `StoreAdapters` | OpenCode, Qoder, CodeArts, TeleAgent, Antigravity | `AdaptersProofs` |
| `DocumentAdapters` | Gemini, Trae, AtomCode, CodeBuddy's desktop half | `AdaptersProofs` |
| `Adapters` | any of these, its tool and its scans | `AdaptersProofs` |
| `ScanEvents` | scan threads, scheduler, mutex, channel, `scan_status` | `ScanEventsProofs` |
| `ViewRefresh` | requests, worker, snapshots, selections, the ball's number | `ViewRefreshProofs` |
| `UpdateFlow` | both frontends' update panel and its tasks | `UpdateFlowProofs` |
| `Shell` | guard, start, tray, main window, the ball's window | `ShellProofs` |
| `BallDock` | the ball under mouse, queue and frames | `ProgramProofs` |
| `WindowSize`, `Autostart`, `SchedulerWake` | the memory of the size, the switch, the interval | `ProgramProofs` |
| `Pricing`, `Rebuild` | what a request costs; what opening the database does first | `ProgramProofs` |
| `TuiReport` | the terminal's report | `ProgramProofs` |
| `Program` | the six parts above that share only a process | `ProgramProofs` |
| `MCScanStore`, `MCViewRefresh`, `MCAdapters`, `MCProgram` | model values, symmetry and tables for TLC | – |

Definitions commented *Mutation* are plausible bugs of the definition whose name
they begin with. No specification uses them; they show that a property is able to fail.

### ScanStore

State: `tree` and `clock` are the tool's files (a stat per path), `rows`,
`projects`, `storedFp` and `storedStates` the database, the rest what each
process holds in `scan_one`. A step is one statement: `Begin`, `StatFile` (the
fingerprint walk, file by file), `SkipUnchanged` or `FingerprintChanged`,
`LoadStates`, `WalkFile` (the second stat, and passing over known files),
`OpenFile`, `Emit` (with the flush of a full batch), `EndOfFile` or
`ReadFails`, `EndWalk`, `InsertRest`, `UpsertProject`, `SaveStates`,
`SaveFingerprint`. `Abort` is a database error or the end of the process at any
of them. `Write` and `Remove` are the tool, between any two steps; time passes
with a write.

Abstracted: a file is its size in units of half a line, so that a torn last
line exists; its records are numbered by line; a read sees the file as it was
when the reader reached its end (`LineReader` tells what that rests on); a path
stands for root and relative path; `Incremental = FALSE` is an adapter that
returns no file states; a batch insert is one transaction, as in the code.

### LineReader

A file is its number of complete lines and the bytes of the next. `ReadUntil`
is one `read_until` call; `known` is the size recorded in the state map, `seen`
the size the stored fingerprint was made of (`Elsewhere`, a change of another
file, makes it worthless). A scan whose read fails leaves the file out of the
map but stores its fingerprint, so the next scans end at `Begin` and the lines
stay out until something of the tree changes (`Overlooked`, which
`EventuallyFilled` excepts; the run `unread` is the same at the level of whole
trees). It
justifies `ScanStore`'s reading: `KnownLinesAreFilled` is what `ScanStore`
assumes of `EndOfFile`, and `UnsplitRowsAreTheirLine` what it assumes of `Emit`.
The latter has an exception the code has: `providers/source.rs` calls line
indexes stable, but a line that is read in two pieces, because the tool was
still writing it, takes two indexes, and the records after it are stored under
the keys of their neighbours (`split`, a history variable).

### Adapters

A tool makes calls and records each in its files as that tool does: as lines
of a growing file, rows of a store with a write-ahead log, documents that are
torn while they are rewritten, entries that are repeated, mirrored, migrated or
cannot be read, below one home or two. A scan is one step (its inside is
`ScanStore`): it looks at what the adapter's change detector looks at, parses
what is new, and enters the records whose keys are new. Every record carries
the calls it stands for and what is true of them; no adapter reads these, the
properties compare them with what the adapter made of the entry. Counters are
small numbers, texts are opaque.

`CountedOnce`, `UnchangedIsCounted`, `BucketsMatchTheBill` and
`RowsAreAttributed` hold for all fifteen tools with exceptions they name:
CodeBuddy, WorkBuddy and AtomCode keep a call in two files under two keys and
then have two rows of it, for AtomCode also where `atomcode/mod.rs:344-348` drops
the older file so that its turns are not counted twice: it was read before its
index appeared. CodeArts leaves reasoning tokens out, and its change
detector leaves out the write-ahead log; some stores do not say the model, and
the adapter guesses. WorkBuddy's double counting contradicts a comment of its
own and is the finding of the run `twice`.

`UnchangedIsCounted` is about every file below a root that exists, whether or not
the change detector looks at it. It leaves out what is not to be read
(`PassedOver`: CodeArts' log, and an AtomCode file with an index beside it in the
same root) and names the calls whose key another row has (`Outdone`), where the
code loses usage:

- WorkBuddy's ledger has one figure for a session, and a session without a
  transcript is known only by it (`MakeUntoldCall`). Its row is keyed
  `workbuddy.db:<id>` (`workbuddy/mod.rs:312-340`), and rows are inserted `OR
  IGNORE`. When the figure grows, the change detector reports it, the scan reads
  it, and the table keeps the figure it had: usage after the first scan is never
  counted, although `collector/scanner.rs:51-53` says that what an unchanged
  fingerprint skips is already stored.
- An AtomCode turn without an id is taken for turn 0 (`atomcode/mod.rs:506`), so
  of the turns of a file that have none, one is kept.

### ScanEvents

`dirty` sources have usage no scan has stored, `stale` ones have stored usage
that is not on screen. A scan thread sends `ScanStarted`, takes the mutex,
scans and sends the result for each source; the scheduler holds the mutex for
all sources and sends afterwards. A `ScanCompleted` that is not unchanged puts
everything stored on screen: what can come between is `ViewRefresh`'s subject.
`muddled` and `unheard` are history variables. A setting is saved on the UI
thread itself (`SaveSetting`, `SettingSaved`), which waits for the mutex and
handles no event until it has it: `SettingIsSaved` says that it gets it, which
rests on the events being sent after the mutex is released, into a channel that
never is full. While a scheduled scan holds the mutex for all sources the window
does not react; no setting waits longer than that.

`unheard` names the stored usage this process is never told of, in two ways the
code has: `scan_all` drops the summaries of the sources before the one that
fails and the scheduler only prints the error (`collector/scanner.rs:38`),
although `collector/scheduler.rs:15-16` says that each run's summaries are
emitted; and what the other frontend stored first is an unchanged scan for this
one, which skips the query (`app/app.rs:545-549`). Such usage is shown when
something else changes.

`muddled` says why `UndisturbedScanEnds` is about an undisturbed scan: all scans
share one counter of completed sources. When two overlap, the completions of one
bring the count to its end while the other still runs, what remains starts it
again, and the status rests at Scanning with nothing running; a failure in the
middle of a scan by hand, which resets the count, does the same.

### ViewRefresh

`db` counts the scans that changed the database, so a number on screen is the
tab it was summed over and the count it was read at. `QuerySummary` and
`QueryRest` are separate reads, as without a transaction. `lost`, `asked`,
`due` and `owed` are history variables: no guard reads them. A ball opened after
the last snapshot starts at zero (`OpenBall`) and stays so until the view is
refreshed, beside a dashboard with usage; `BallIsPaired` therefore excepts it.

`UndroppedRefreshIsShown` excepts refreshes that were dropped (`lost`): comments
say that only the latest pending request survives (`app/app.rs:579-582`,
`646-648`), but `try_send` into a full channel refuses the newer one. After two
quick changes of tab the window may rest on the first one's numbers under the
second one's label.

### UpdateFlow

Checks and downloads are sets of tasks with a result that is applied later.
`frontend` is chosen at the start and stays. A downloaded file is the set of
chunks it holds: two writers of one file interleave, and its length is that of
the last chunk, which is what the terminal's size check looks at. The window
offers its buttons only in the states where they do something (`ui/settings`);
the terminal takes every key at any time, so Skip during a check or a download
makes the panel idle, another download can be started, and two tasks write one
file: the second truncates what the first has written, and a file with a hole
passes the size check. `WindowIsBusy` and `WindowFileIsWhole` are therefore
about the window. An asset whose size GitHub does not report is not checked by
the code and not modelled.

Two more things the code does, which the properties except. The window drops the
error of saving a skip (`app/update_check.rs:265`), so a version skipped then is
offered again after a restart; the history `unsaved` collects these
(`SkippedIsNotOffered`). In the terminal, which ends on such an error, two checks
may be under way, and after two skips the answer of the older one offers the
version skipped first. And the window's HTTP client has no timeout
(`app/mod.rs:102-107`): a request that is never answered, or a body that stops
coming, leaves the panel Checking or Downloading, with no way to stop it, until
the program is restarted (`Stalled` in `BusyEnds`); the terminal's has thirty
seconds (`tui/update.rs:29-34`).

### Shell

`Procs` are launches; `mutex` and `event` live in the system and go away with
their holder. A launch takes the mutex (`AcquireSingleInstance`) or finds the event and sets it,
trying `Retries` times; the holder makes its event, starts its listener, its
window's hook and icon, and its tray loop, in the order of `app/mod.rs`. Window
messages (`posted`) and tray commands (`trayCmds`, at most `MaxPending`) wait
until they are handled. `balls` and `opening` are windows that exist or are being created
(two clicks while one is), `hwnd` the handle the code goes by. The system may
destroy the ball, restart Explorer, or end a copy. A copy whose guard cannot be
created runs beside the others and is left out. The shell may refuse the icon
whenever it is to be added (`AddTrayIcon`); `tray.rs:256` drops that result, at
the start as after Explorer's restart, and a click on X hides the window all the
same (`tray.rs:297-301`). So a copy can be left hidden with neither icon nor
ball; `refused` keeps that case apart in `NoUnreachableCopy`. What then brings
the window back is another launch, by `SignalIsAnswered`, if the copy could
create its event, or another restart of Explorer; else nothing but ending the
process does.

### Program and its parts

`Program` puts six parts of a process side by side. They share no state, so a
behaviour exercises one of them, chosen at the start: their product would only
interleave steps that do not touch.

**BallDock.** The window procedure drags the window and posts a drop; the view
takes it from the queue, docks or undocks, and morphs between circle and square
over `Steps` frames. `x` is the card's centre and the window's place. A frame
(`Frame`) writes position and published size; `pending` is the snap a growing
ball still owes. Three things the code's comments say otherwise, and the
properties except: a docked ball that is held still while dragged is pulled back
by the 800 ms heartbeat frame, as `render` does not look at the drag, and its
drop then docks it again (`ui/floating.rs:103-106`); the published size
includes the hover pop, though `platform/windows/mod.rs:707-709` speaks of the
resting one; and the `return` in the heartbeat's watch leaves only its closure,
so that loop never ends.

**WindowSize.** Sizes are whole; one dimension stands for both. The writer
thread waits until sizes settle. A size changed less than 400 ms before the end
of the program is lost, though `app/window_state.rs:3` says it is remembered
(`LastSizeArrives` is about a running program), and the first move after a start
on a smaller display stores the fitted size, which nobody chose.

**Autostart.** Each toggle is a background job of its own, with a query and a
write, and the first reading is one more; results carry a number and only the
newest sets the switch. `unsure` collects the ways they can part, all of which
the code has: writes of two toggles may end in either order (`crossed`), a query
that cannot run counts as absent (`misread`), and a write that fails before the
first reading was handled reverts the switch to a value never read (`blind`).
This is Windows; on the other systems it is one call.

**Rebuild**, with **Pricing.** `Collector::open` copies the legacy database,
costs rows again when the price table is a newer one, and empties CodeBuddy's
rows when their keys have changed; every statement commits on its own, before
and beside another program's start and scans. Its properties except what two
programs at once can do, each named by a history variable:

- `overlapped`: two copies of the legacy file. On Unix the second unlinks the
  first's temporary file and the first then renames the second's half-written
  one; on Windows both renames may fail, and a fresh database takes the place of
  the history, for good. `storage/mod.rs:49-52` says that a failed migration
  never leaves a half-written database, which is true of one program.
- `raced`: a second CodeBuddy rebuild, begun before the first was marked,
  deletes what the first program's scan has inserted, whose states and
  fingerprint are stored after that; the rows come back only when files change.
- `mixed`: an older copy that is still running adds rows at its own prices after
  a newer one has marked its version. Downgrades are left out (`lastBuild`).

Prices are whole numbers, a model's name is a record of what the search asks of
it, and the price table is a constant.

**SchedulerWake.** The UI thread stores an interval, saves it and wakes the
scheduler. Saving needs the mutex a scan holds, so the UI thread may block and
the scheduler come by between storing and waking.

**TuiReport.** Grid, cursor, hours, summary and breakdown are read by five
queries at their own times, with a clock and scans in between. Months and years
are given by the sets of their first days. Its properties speak of a report at
rest with no failed query and no news since; what lies outside them: a failed
reload ends the terminal program; usage that another program's scan inserts, or
an own scan that then fails, never reloads; after midnight and before a reload
a new range's breakdown is of the new day while the summary still filters by
the old one; on the last day of a leap year the 365-day filter drops January 1
from the year's summary while the breakdown counts it; the cursor keeps its cell
when the grid moves a week and so names another date; after a start whose last
query fails, the hours of the grid's first cell stand beside a cursor on today.

## 3. Runs

Every run is `tlc -config <cfg> <module>`. Passing runs:

| run | instance | shows |
|---|---|---|
| `grow` | 2 files to 1½ lines, batches of 2, 1 process, 1 fault, fair | typing, the inductive `ScanInv`, `ScanStore` implements `UsageLedger`, everything comes to be stored |
| `shared` | 1 file of 2 lines, 2 processes, a clock that moves | interleaved scans of two processes |
| `deletes` | 2 files, one removed, one unreadable, size limit 2 | the two walks see different trees |
| `grows` | 3 lines of 3 bytes, 2 faults, fair | the line reader, with whole and torn lines |
| `adapters` | 15 tools one at a time, 2 calls, 2 turns, 2 homes | every adapter against what its tool wrote |
| `events` | a scan thread and the scheduler, 2 sources, another process, 1 use, 1 fault, any number of settings, fair | the scan events, and the mutex between scans and the UI thread |
| `view` | 2 tabs, 2 presets and picked dates, 3 refreshes, 1 commit, 1 error, a worker that may not open the database, fair | the view |
| `updates` | 3 frontends, 3 versions of 3 chunks, 4 tasks, 2 faults, fair | the update panel |
| `shell` | 2 launches, 2 retries, 2 pending messages, fair | start, hand-over, tray and the ball's window |
| `program` | six parts: a 60-wide screen, 3 steps of shape, 2 commands; 4 sizes, 3 displays; 3 toggles; 2 programs of one or two versions; 3 intervals, 2 wakes; a 15-day report | the parts of `Program` |

Why the bounds suffice. A hazard of the scan needs one file that is stored and
one that is not, or a line before and one after a stat; a batch of 1 or 2 is
filled within one file or by two; one fault is a crash or a failed flush, and
the scan after it recovers. Clock values matter only where sizes stay equal, so
two of the scan runs have a clock that stands still (the coarsest case for the
fingerprint). Adapters can confuse two calls, count one twice or miss one: two
calls do for each, with two changes of the files besides (an entry repeated, a
session migrated), and a figure of a ledger outgrows itself with two calls. They
are billed in powers of two, so that no two sums of counters agree. The event
counter needs two overlapping scans, one of which is the scheduler's; every
source is there, a missing one (`Absent`) is left to the proofs. A dropped request needs one that is queued and one that is refused, and a third
shows what follows. A skip needs an older and a newer release, overlapping
writers two tasks. A hand-over needs a copy and a launch, and an end of the
first. The ball's drop points are one near each edge and one that is not; its
morph has a start, a middle and an end. The report's calendar has short months
and a leap year that ends on its day 13, a Saturday, a day longer than the grid,
and the clock moves from that day to the next, so that the grid moves too. An
adapter without file states (`Incremental = FALSE`) is covered by the proofs;
the runs have the incremental walk.

`CHECK_DEADLOCK FALSE` stands where the environment may stop: a bounded number
of uses, tasks, faults, toggles or launches has been spent and nothing is left
to do.

Runs that end in a violation state what a comment of the code says and find a
behaviour of the code that contradicts it; `PROJECT.json` quotes the lines.

| run | claim | what happens |
|---|---|---|
| `unread` | an unchanged tree is in the database | a failed read is hidden by the fingerprint stored after it |
| `twice` | a WorkBuddy session is never counted twice | its ledger changes after its transcript was read in an earlier scan, and adds the whole session again |

The other disagreements met on the way are told where their module is described
above; the properties name them as exceptions.

### Fairness

`ScanStore`: a process goes on with a scan it has begun and begins another one
(scheduler, minimum interval 5 s); nothing forces faults or writes.
`LineReader`: the same for one file; a scan begins only while the stored
fingerprint is not the tree's. `ScanEvents`: threads that hold or await
the mutex go on and the scheduler's timeout comes; the UI thread's event loop
and its wait for the mutex are strongly fair: it comes back to its events
between two settings, and the mutex is free for at least five seconds between
two scheduled scans (`collector/scheduler.rs:11`). `ViewRefresh`: the worker and the UI thread's event loop go on.
`UpdateFlow`: the terminal's requests end, by their timeout if need be; those of
the window need not, its client has none; results are applied. `Shell`: the
threads, the message loop and the command loop of a copy go on and the calls a
start makes return; nobody has to launch, click or quit.
The rest is weak fairness of whole threads, never of one outcome. The parts of
`Program` and the adapters have safety properties only.

## 4. Proofs

TLAPS checks these for every value of the constants:

| theorem | states |
|---|---|
| `ScanStoreProofs!TypeCorrect`, `KnownFilesCorrect`, `ScanInvCorrect`, `QuietTreeCorrect` | typing; known files are held; the whole invariant; a quiet tree is held |
| `ScanStoreProofs!ScanImplementsLedger` | `ScanStore` implements `UsageLedger` |
| `LineReaderProofs!ReadInvCorrect`, `KnownLinesCorrect`, `RowsCorrect` | the reader's invariant and its two uses |
| `AdaptersProofs!AdapterTypes`, `RowsMatchTheBill` | typing of the rows and of what is kept between scans, with keys unique; the rows of all fifteen adapters hold what their calls were billed for |
| `ScanEventsProofs!TypeCorrect`, `QuietScreenCorrect`, `UndisturbedScanCorrect` | typing; a quiet screen is current; an undisturbed scan ends its spinner |
| `ViewRefreshProofs!TypeCorrect`, `WorkerSawLastRefreshCorrect`, `BallIsPairedCorrect`, `UndroppedRefreshCorrect` | typing; the worker has read since the last refresh; label and number agree; what was not dropped is shown |
| `UpdateFlowProofs!TypeCorrect`, `BusyCorrect`, `FileCorrect`, `SkippedCorrect` | typing; in the window, busy, whole files, and no offer of a version whose skip was saved |
| `ShellProofs!ShellCorrect` | one holder, one ball, no unreachable copy unless the shell refused its icon |
| `ProgramProofs!BallIsDocked`, `BallRestsWhole` | the ball follows the last drop; at rest it is whole |
| `ProgramProofs!RebuildIsSafe` | copies are whole, prices current, no row is vouched for that is gone |
| `ProgramProofs!SizeIsRemembered`, `SwitchIsRight`, `IntervalTakesEffect` | the last size arrives; the switch is the registry; the chosen interval is waited for |
| `ProgramProofs!ReportAgrees` | the terminal's panels agree with the database and each other; streaks are runs of days |

**Scan.** `KnownFilesAreHeld` is not inductive: a process that is about to
store states must have its files' records in the database already, and one in
the middle of a file must have them there or in its batch. `KnownInv` says so
for each point of `scan_one` (`ReaderInv`, `ProcessInv`); records it has not
reached yet are the `RecordsIn` that `line` has not passed. `QuietInv` adds what
the fingerprint needs: the tree observed by the first walk (`seen`) is no larger
than what the second walk covers (`CoverInv`), and what `storedFp` was computed
from is held (`StoredInv`). That the fingerprint tells trees apart at all is
`GrowthShows`: among trees that only grow, with no file above the size limit, the
same file count and byte total mean the same files and sizes. It is a fact about
finite sums, proved by induction over finite sets of files, one file at a time;
the induction is a least counterexample, as operators cannot be parameters here.

**Adapters.** `BucketsMatchTheBill` says of every row that its counters are what
its calls were billed for. It is not inductive, as rows come from files: `BillInv`
adds that every entry of every file *reads well*, that is, that the counters its
adapter would pick from it, by that adapter's own rules for spellings, overlaps
and defaults, are those of the calls the entry stands for, or that the adapter
would pick none (`ReadsWell`, `GoodContent`). The argument has four layers.

1. What a tool writes for a call reads well, for each of the fifteen
   (`ClaudeWrites` to `AntigravityWrites`): the cached tokens of Codex, Gemini and
   CodeBuddy are taken out of their inputs, and AtomCode's running total is read
   only in the format that has nothing else.
2. Every step of the tool keeps the files so, also one that repeats, mirrors,
   migrates, checkpoints or tears them: a torn document reads as none, a call in
   flight as nothing, and each becomes whole or settled (`Halved`, `Pending`).
3. Of such files each parser makes sound records (`ClaudeParse` to
   `SessionParse`), also where it stops at the first bad row or must choose
   between two kinds of figures.
4. A scan adds only such records, and under keys that are new.

`CountedOnce` is about keys, and takes the same way again. A call gets a *mark* when
it is made: what its adapter's key of it is made of, a line number, an id or the
place among the records of its file (`IsMark`). `OnceInv` says that there are marks,
one for each call, such that every entry of a call, in every file its adapter
reads, also in what a torn file will be again, has the mark of its call, and every
row the key that its file and that mark make (`KeyFrom`). The marks are under an
existential quantifier, as no variable holds them: a step shows that the same ones
still do (`FinishKeyed` to `SyncLedgerKeyed`), a call adds one
(`MakeCallKeyed`, `MakeUntoldCallKeyed`). That is where a tool could go wrong: copies, repetitions and
migrations may not change the number a call had, and the entries before it stay
(`MarkStays`). Each adapter makes the keys of its records of those marks
(`ClaudeOwned` to `SessionOwned`), and so does a scan. Two rows of a call then
have the same key, which is unique, unless the key depends on the file, as it does
for three tools.

Rows of several calls (a session's figure in WorkBuddy's ledger) are sums over sets
of calls, with an induction over finite sets of their own (`OneByOne`,
`SumExists`). `AdapterTypes` comes from the same invariant.

**Events.** `QuietScreenIsCurrent` needs to know, of every stale source, where
its news is: in a worker's outbox (`OutboxInv`) or in the channel, or lost
(`HeardInv`). `UndisturbedScanEnds` is about a counter, so `CountInv` relates it
to what the one scan has sent and the window has handled (`ThreadCount`,
`SchedulerCount`); the lemmas before it count events in a sequence when one is
sent at its end or taken from its front.

**View.** `LastInv` follows the last refresh that was not dropped: it is in the
channel, with the worker, answered, or on screen, and in each place it carries
the selection and the data it was made for.

**Updates.** In the window the state names the one task there is (`OneTask`),
which makes the download its file's only writer (`OneWriter`); `WindowInv` joins
these with `WindowFileIsWhole`. The terminal has neither. `DeclinedInv` is the
strengthening `SkippedIsNotOffered` needs.

**Shell.** `ShellIInv` adds to the properties what each phase of a start has made
already: the copy past the guard is the one that holds it, and the event lives no
longer than its owner (`HolderInv`); before its window is open a copy has no ball
and no quit under way (`EarlyInv`); a launch that hands over has attempts left
(`TriesInv`); and an icon or a window that is gone without a quit is on its way
back, or was refused by the shell (`ReachInv`).

**Program.** `SwitchInv` says which job will set the switch and to what the
registry holds then. `DockInv` is `BallInv` with what a morph aims at
(`ShapeIsAimed`) and what a frame leaves (`PaintedIsDrawn`). `SizeInv` and
`SchedulerInv` are inductive as they stand. `ProgramStep` carries an invariant
of a part over to `Program`. `OpenInv` follows a start through `Collector::open`:
without an overlap there is one copy, into a file of its own (`CopyInv`); old
keys are gone before the rebuild goes on, and no costing brings them back,
because it only writes rows that are present (`KeysInv`); fingerprint and states
are removed before the mark and return after the rows (`VouchInv`); and what a
costing has passed has the price of the newest version launched, which is every
running program's unless two versions run at once (`PriceInv`).

`PanelInv` follows a reload of the terminal's report: the queries still to be made
are the end of a plan, a start's or a reload's (`PlanInv`); each panel whose query
is not among them holds what the database holds for it, in the window of its own
day, as long as there is no news on its way and none the program never hears of
(`ReadInv`); no usage is of the future and the report's day is none either, from
which it follows that a breakdown's window lies within the days that were read
(`DayInv`, `WindowsAreRecent`); and the grid is that of the report's day, with the
cursor in it (`GridInv`, `HoursInv`). The statistics' streaks are recursions over
days: that the longest and the current one are runs of days with usage, the first
the longest there is, is proved by induction over days (`LongestIsFound`,
`CurrentIsFound`).

**Assumptions.** Each module's constants are typed (`ConstantsAreTyped`,
`SizeAssumption`, `BallAssumption`, `AutostartAssumption`,
`SchedulerAssumption`, `RebuildAssumption`, with prices and tokens that are whole
numbers, `ShellAssumption`, `ReportAssumption`). `CallsAreBilled`: a call's
counters are natural numbers, as the adapters' are unsigned, and each call in the
sequence is another one. `ToolsAreKnown`: there
are fifteen. `CalendarAssumption`: months and years begin often enough to cover the
days on which something happens, and an older database is of their past.
`QuietTreeCorrect` and `ScanImplementsLedger` assume `AppendOnly` (no removals,
nothing oversized) and, where they say so, that no file is unreadable: `unread`
shows why.

Model-checked only: all liveness (`EventuallyHeld`, `EventuallyFilled`,
`RefreshIsAnswered`, `EventuallyShown`, `BusyEnds`, `ShellAnswers`), which is out
of the prover's reach; and two properties of the adapters. `UnchangedIsCounted` is
the other half of `CountedOnce`: two calls of different entries never have one
key, but for `Outdone`. Keys hold numbers as text (line 1 and line 11 of a file are
told apart by their digits), and of `ToString` the provers know nothing.
`RowsAreAttributed` needs every entry of
every file related to the lines before it, and for three tools to other files,
adapter by adapter.

## 5. Not modelled

- Quotas and the file watcher: no code of the program uses them.
- Aggregation and the SQL of the aggregates: sums of rows. Where a sum is shown,
  the models keep the set of rows it is made of.
- Pages and widgets, painting, window regions, wording, layout and formatting,
  the command line: no state of their own. The dashboard labels its section
  with the live tab while the numbers are still those of the tab before
  (`ui/dashboard/page.rs:109`), which is where this would be of interest.
- Calls of the operating system (how homes in WSL are listed, auto-start on Linux
  and macOS) and bytes: protobuf is modelled from its fields up, the WebView
  cache from its documents up.
- Time: custom ranges, conversion between time zones, intensity levels, month
  labels and the busiest day. Modification times enter the fingerprint as a
  clock; a rewrite in place that keeps count, total size and the newest second
  is something the change detector cannot see, and the code promises nothing.
- Floating point: prices and sums are whole numbers.
- Version comparison, the choice of an asset and changelog text: pure functions
  over strings.
- A panic inside a scan poisons the mutex of `collector/mod.rs:130`, and every
  later `expect` on it panics too, on the UI thread: the program's scans and
  settings end there. No model has a step after that.
