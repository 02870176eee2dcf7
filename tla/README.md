# tillr in TLA+

tillr is a small project tracker whose features are worked on by AI personas. A
daemon (`tillr orchestrator start`) claims features from a SQLite database,
spawns one `claude -p` process per feature, and writes what the process reports
back into the database. People and tools write the same database from the
command line and from a web interface.

This directory holds TLA+ modules that model that code, TLC configurations that
check them on small instances, and TLAPS proofs of what matters most for every
instance. Paths below are relative to `src/`.

## 1. Inventory

| Component | Source | State it keeps | Operations |
|---|---|---|---|
| orchestrator daemon | `internal/orchestrator/orchestrator.go` | `Daemon.running` (map under a mutex), the context, the buffered channel `sideEffects`, `drainerDone` | `Run`, `tickOnce`, `startWorker`, `Execute`, `applySideEffects`, `sideEffectLoop`, the closure of `buildSideEffects` |
| one claude invocation | `internal/orchestrator/spawn.go`, `schema.go` | none: a child process, its output and its exit code | `ClaudeSpawn`, `parseClaudeEnvelope`, the classification of `buildSideEffects` |
| database | `internal/db/db.go` | tables `projects`, `features`, `comments`, `orchestrator_runs`, `config` | one or two SQL statements per function, no transactions |
| feature commands | `internal/cli/feature.go` | none | `add`, `status`, `done` write `features`; `list`, `show` read |
| orchestrator commands | `internal/cli/orchestrator.go` | the pid file | `start` (guard, signals, `Run`), `stop` (signal by pid), `status` |
| personas | `internal/persona/persona.go`, `internal/cli/persona.go` | one `context.md` per persona and its backups, retro files | `Append`, `Compact`, `ConductorAppend`, `claim` |
| HTTP server | `internal/server/server.go` | the hub of web sockets | handlers that read and write the database |
| rate limiter | `internal/server/ratelimit.go` | one token bucket per client | `Allow`, `cleanup`, the header reads; no server installs the middleware, only its tests |
| multi-project daemon | `internal/daemon/` | a registry of open databases | `LoadConfig`, `NewRegistry`, `Close`, routing by slug; no command calls `StartDaemon` |
| configuration and init | `internal/config/`, `internal/cli/init.go`, `config.go` | `.tillr.json`, the `config` table | `init`, `FindProjectRoot`, `Load`, `Save`, `config set` |
| terminal UI | `internal/tui/tui.go` | lists, cursor, tab, the loaded detail | asynchronous loads and key presses |
| web client | `web/src/` | cached queries, one reconnecting socket | `useWebSocket`, pages |
| comments, retros, shell | `internal/cli/comment.go`, `retro.go`, `root.go`, ... | none | single reads and writes, argument parsing |

### How the parts interact

- The **poll loop** and the **workers** share `Daemon.running`: the loop adds to
  it and counts it, a worker's deferred function removes itself.
- A **worker** hands the **drainer** a closure through `sideEffects` (capacity
  64) and blocks on the closure's own `done` channel until it has been applied.
- The **poll loop**, the **drainer**, the **command line** and the **HTTP server**
  meet only in the database. There are no transactions: what one function does
  with two statements, another may observe, or overwrite, in between.
- A **signal** cancels one context. The poll loop selects on it, and it is also
  the parent of every child's context, so it kills the children.
- The **drainer** appends to a persona's `context.md` while people append to it
  and compact it from the command line.
- Every command starts with **FindProjectRoot**, **Load** and **db.Open**, which
  applies the whole schema: a server, a daemon and an `init` in one directory go
  through the same file and the same `CREATE IF NOT EXISTS` at once.
- **POST /api/config** and `config set` write the keys that `orchestrator start`
  reads once, together with its flags, when it starts.
- A request that passes the **rate limiter** takes its mutex three times: for the
  token and for two headers.

### What is hard about it

- *Interleavings*: three kinds of goroutine, and other processes on the same
  tables, with single statements as the only atomic steps.
- *Failure*: each statement may fail (`SQLITE_BUSY` is expected under load: the
  test `TestDaemon_NoSQLiteContentionUnderLoad` exists for it); errors are
  logged and the next statement runs. The process may die between any two.
- *Ordering*: the five writes of a closure, the shutdown sequence (wait for the
  workers, close the channel, wait for the drainer), stale-run marking at start.
- *Waiting*: a full channel, `done` channels, `waitWorkers` and the drainer's
  range loop could wait for each other.
- *Timeouts and stops*: deadline, signal and the child's own exit race, and
  whatever the child managed to print is parsed anyway.

### What makes each part correct

- **Daemon**: never more workers than `MaxParallelism`; a feature is dispatched
  once unless somebody reopens it; no send on the closed channel; a worker is
  released only after its whole block of writes has landed, in order; nothing
  stays `claimed` or `running` with nobody left to settle it; a run's result
  and its feature's status agree; a result is never overwritten; claimable work
  is dispatched, claims end, a stop request ends the process.
- **Invocation**: a child that failed never closes its feature; free text never
  shadows a structured report; `blocked` and `needs_review` are honoured.
- **Personas**: no context block is lost between `context.md` and its backups.
- **Rate limiter**: a client gets at most a burst plus the refill; forgetting a
  bucket must not give more; what the headers promise is still true when the
  client reads them.
- **Orchestrator commands**: at most one daemon per project, `stop` reaches it.
- **Multi-project daemon**: it listens with every project of its list, each under
  its own slug, or not at all; an entry that fails ends the start, and what the
  entries before it had opened is closed.
- **Terminal UI**: the cursor points into the list, the detail pane shows what is
  selected.
- **Init, configuration**: an `init` that reports success leaves a whole project,
  and no later failure breaks it. (An interrupted one leaves `.tillr.json`, and
  cannot be run again before that is deleted.) A config key holds what it was last
  told. A start has positive settings, taken from the flags, the `config` table and
  the defaults in the order of the code.

## 2. Modules and code

| Module | Models | Checked by |
|---|---|---|
| `RunOutcome` | pure: `ClaudeSpawn`, `parseClaudeEnvelope`, the classification of `buildSideEffects` | through the next two |
| `RunVerdict` | one invocation, from the child's end to the two statuses written | `RunVerdict.cfg` with `MCRunVerdict` |
| `RunVerdictProofs` | theorems | TLAPS |
| `Orchestrator` | the daemon, its tables, its process, people and tools outside | the `Orchestrator*.cfg` with `MCOrchestrator` |
| `RunLedger` | abstract: what the daemon promises of `orchestrator_runs` | `LedgerSpec` of `Orchestrator` |
| `OrchestratorInvariants` | the inductive invariant, `Invariant` | `OrchestratorSafety.cfg` |
| `OrchestratorProofs` | theorems: the loop, the rows, the ledger | TLAPS |
| `OrchestratorDrainProofs` | theorems: the blocks of writes, the channel, waiting and progress | TLAPS |
| `DaemonProcesses` | processes around the pid file and the shared tables: starts, stops, claims by hand | `DaemonProcesses*.cfg` with `MCDaemonProcesses` |
| `DaemonProcessesProofs` | theorems | TLAPS |
| `PersonaContext` | one `context.md`, its backups, and the processes that append and compact | `PersonaContext.cfg` |
| `PersonaContextProofs` | theorems | TLAPS |
| `Tui` | the model and the message loop of the terminal UI | `Tui.cfg` with `MCTui` |
| `TuiProofs` | theorems | TLAPS |
| `RateLimiter` | the middleware, the buckets and the cleanup goroutine | `RateLimiter.cfg` with `MCRateLimiter` |
| `TokenBucket` | abstract: buckets that fill with the clock, and at once only when long idle | `LimiterSpec` of `RateLimiter` |
| `RateLimiterProofs` | theorems | TLAPS |
| `Settings` | pure: what a start makes of flags, config table and defaults | through the next |
| `ProjectSetup` | a project's files and database, and the processes that make, open and configure them | `ProjectSetup*.cfg` with `MCProjectSetup` |
| `ProjectSetupProofs` | theorems | TLAPS |

### RunOutcome and RunVerdict

The data are cut down to what the classification can tell apart. A child ends by
itself with code 0 or not 0, is killed (code -1), or never starts. Its output is
empty, not JSON, or an envelope; under each of the keys `structured_output`,
`result` and `response` an envelope holds nothing, a text, or an object with one
of five result words (the schema's three, none, or some `other`).
`ParseEnvelope` tries the keys in the code's order and then decodes the whole
envelope, whose `result` key may then be a text. `Classify` and `FinalStatus` are
the two switches at the head of `buildSideEffects`.

### Orchestrator

| State | Code |
|---|---|
| `status`, `target` | the columns of `features` the daemon reads or writes; a row that does not exist is `"absent"` |
| `runFeature`, `runResult` | the columns of `orchestrator_runs`; `"running"` is the NULL result of an open row |
| `pc`, `avail`, `turn`, `sel` | where the poll loop stands and the locals of `tickOnce` and `ClaimNextFeature` |
| `cancelled` | the context |
| `running`, `stage`, `outcome` | `Daemon.running`, where each worker's goroutine stands, what its spawn returned |
| `queue`, `closed`, `job`, `step`, `todo` | `sideEffects`, whether it is closed, and the drainer with the closure it applies |
| `landed`, `edited`, `spent` | history: what a live closure has written, what outsiders wrote, which bounds are used |

One SQL statement is one action, and so is one step of a goroutine that others can
observe. Steps nobody else can observe are part of the action they belong to:
`startWorker` inserts the row, registers the worker and starts the goroutine in
one action because only the poll loop reads the map between the two.

- *Poll loop*: `Tick` counts the map and computes `avail` once; for each persona
  `SelectFeature`/`SelectNothing` and `ClaimFeature` are the two statements of
  `ClaimNextFeature`; `StartWorker`, or `StartRunFails` and `RollBack`.
  `TickerFires` and `StopSelected` are the two cases of `Run`'s select, then
  `CloseQueue` (after `waitWorkers`) and `RunReturns`.
- *Worker*: `StartChild` or, if the context is cancelled already,
  `StartChildCancelled`; `ChildExits`, `ChildTimesOut`, `ChildKilledByStop`;
  `Send` (blocked while the channel is full); `WorkerEnds`.
- *Drainer*: `Receive`, then the closure: `AppendContext`, `AddComment`,
  `LoadProject`, `FileFollowUp` once for each follow-up, `SetFinalStatus`,
  `FinishRun`; `Release` closes the `done` channel; `DrainerExits`.
- *Process*: `Start` (with `MarkStaleRunsErrored`), `Interrupt`, `Exit`, `Crash`.
  A crash forgets everything but the tables.
- *Outside*: `PersonAddsFeature` (`feature add`, `POST /api/features`) and
  `PersonSetsStatus` (`feature status`, `feature done`, the second statement of
  `feature add --status`, the UPDATE of `persona claim`), which accept any status
  at any time because that code does.

Every statement has a branch in which it fails, with the effect the code gives
the failure: logged and skipped in the closure, the tick given up, the claim
undone, or, when `SetFeatureStatus` updates the row and cannot read it back, a
claim that landed and that the caller takes for failed.

`created_at` has a resolution of one second and `ClaimNextFeature` orders by it
alone; rows of one second are taken to come in id order.

### RunLedger

A row opens as `running` when there is room for one more worker, gets a result
once from the worker behind it, and a worker leaves only a settled row, unless a
statement has failed. When no worker is left a start may settle rows, and only
those that are still running. `Orchestrator` implements it with `row` as
`runResult`, `active` as `running` and `lossy` as "a statement has failed".

### DaemonProcesses

`Orchestrator` is one daemon. This module is what lets there be one: several
processes, each with a pid and a program (a start, a claim by hand, or any other
program of the system), one pid file, one database.

| State | Code |
|---|---|
| `stage`, `told` | where the process with each pid stands in `orchestratorStartCmd` or in `personaClaimCmd`, and whether its context is cancelled |
| `seen` | the pid a start has read in the file (`ReadFile` of `pidExists`) and not yet probed (`Signal(0)`) |
| `pidFile`, `holds` | `swarf/orchestrator.pid`: absent, empty (between truncation and write) or a pid, and who has that very file open |
| `inHand` | the pid a `stop` has read and not yet signalled |
| `status`, `runFeature`, `runResult` | the tables |
| `sel`, `worker`, `settled` | what each claimer has selected, whose worker a run has, whether it has written the status |
| `overlapped`, `raced`, `recycled` | history: a start passed the guard on a file read too early; two claimers had one feature selected; a pid in the file, or read there, went to a new process |
| `granted`, `released`, `spent` | history: claims that succeeded, how often a feature became a draft again, bounds used |

Each system call on the pid file or on a pid is an action: the guard's two
(`GuardReads`; `GuardPasses`, `GuardRefuses`), the truncation and the write of
`WriteFile`, the deferred `Remove` and, after it, the end of the process, which
answers a probe until its database is closed (`CloseDatabase`); `StopReads` and
`StopSignals` are the two halves of `stop`. A `stop` that finds a daemon which does not
listen yet (`Hears`) ends it there and then. A configuration that does not load
goes straight to the deferred calls. Of a pid file the content is one write of a
few bytes, taken to happen whole or, with `WritePidFileFails`, not at all.

A claim is its SELECT and its UPDATE, each of which may fail, the UPDATE also after it
has landed (`ClaimFails`); then the INSERT of a run, or the rollback, which may
fail as well (`StartRunFails`, `RollBack`). `PersonSetsStatus` writes any status at any
time. `LaunchStranger` and `Crash` give a dead daemon's pid to somebody else. The inside
of a run is left to `Orchestrator`.

### PersonaContext

A file is the sequence of its `## ` blocks, numbered in the order of their
`Append`; `os.WriteFile` is two steps, a truncating open and a write at the head of
what is there by then. `ReadContext`, `OpenBackup`, `WriteBackup`,
`TruncateContext` and `RewriteContext` are the steps of `Compact`; `Abandon` is its
end by an error or a crash with nothing done of the next step, `BackupFallsShort` and
`RewriteFallsShort` its end in the middle of a write (a full disk, a kill), which
leaves the first of the blocks. Blocks are taken to be equally long,
which matters only for what a second writer overwrites. Four flags and a set
record what the properties must except: overlapping compactions (`raced`), an end
between truncating the file and the end of its write (`torn`), one in the middle of
that write (`short`), a second backup within the second that its name is made of
(`reused`), and the blocks appended during a compaction (`late`).

### Tui

`tab`, `lists`, `cursor`, `detail`, `showing` and `err` are the fields of `Model`;
`at`, `read` and `failed` are the goroutines of `loadAll`, one list at a time;
`inFlight` and `subject` those of `loadDetail`, whose closure holds the model of the
key press by value. `unread` are the details whose `ReadRetro` failed: the error is
dropped and the body is empty (a feature and a persona still name themselves when
their comments or context cannot be read). One message or one key is one action, the case of `Update` that
handles it; a message may arrive at any time and in any order. `newest`,
`overtaken` and `dirty` are history: what was applied last, whether something was
applied after a later one, and what the world has changed since the latest load
was asked for.

### RateLimiter and TokenBucket

`buckets`, `tokens` and `lastRefill` are the map under the mutex; `due` and
`cleanup` the cleanup goroutine, whose ticker's channel holds one tick; `pc` and
`key` a request on its way through the middleware. A method of the limiter holds
the mutex and is one action; `Allow`, then `RetryAfter` or `Remaining`, then
`ResetTime` are actions of their own, with the clock, other requests and `Sweep`
between any two. Requests that the middleware does not limit pass by in one
step. Tokens are counted in fractions of a token (`Unit` to a token, `Rate` more
with every tick), so that lazy refills are exact; the rounding of float64 is left
out. `X-RateLimit-Reset` is a moment truncated to a second, as the code's is.

`observer`, `since`, `admitted` and `promise` belong to an observer of one key:
from some moment on it counts what is admitted, or it holds on to a header and
keeps book of what its key's own later requests take.

In `TokenBucket` nothing is lazy: every bucket is there, full in the beginning, and
every tick fills all of them; `idle` counts the ticks since a bucket was asked last,
up to a `Lifetime` (`StaleAfter` and one), and `Forget` may fill those that have been
idle for one. The refinement maps a bucket's level to what a refill at this moment
would make of it, and to a full one where there is none.

The constructor takes any rate and burst, so a bucket may be forgotten before it is
full: at less than a burst in ten minutes (say 0.05 requests a second with a burst
of 100) an idle client gets more from being forgotten than from waiting. `Gain` is
the most that a lifetime can bring a key, by refills or by a new bucket, and the
bound of `WindowBound`; where a lifetime fills a bucket (`FullWhenStale`) it is what
the rate brings. The rate and the burst are positive; the code does not check that
either, and with a rate of 0 its headers divide by zero.

### Settings and ProjectSetup

| State | Code |
|---|---|
| `file` | `.tillr.json`: absent, empty (between `os.WriteFile`'s truncation and write) or whole |
| `has`, `rows`, `conf` | what there is of the schema, the `projects` table, the `orchestrator.` keys of the `config` table |
| `pc`, `job`, `at` | processes: where each stands, its command line, the directory it has found |
| `order`, `handles`, `open` | `Registry.order`, `Registry.projects`, and the `*sql.DB` a process has not closed |
| `settings` | `orchestrator.Config` of a daemon |
| `host`, `left` | requests to `handleConfig`: who serves each, and the pairs its loop has yet to store |
| `made`, `raced`, `kept`, `told`, `doubt`, `spent` | history: what inits have reported, inits past the check together, a database older than its `.tillr.json`, what each key was last told and whether that is certain, bounds used |

- *init*: `Stat`, `Truncate`, `Write`, then `CreateTables` and `CreateRest`
  (db.Open), `CreateProject`, `Report`.
- *Every other command*: `FindProjectRoot`, `Load`, db.Open; then a server takes
  requests (`Accept`, `Put`, `PutFails`), a start takes its settings (`Configure`),
  `config set` stores its pair (`ConfigSet`). The walk of `FindProjectRoot` (one Stat
  for each directory on the way up) is one action: `.tillr.json` files made or deleted
  during the walk would only change which project the command goes on with, and
  no property depends on its being the nearest one.
- *The multi-project daemon*: `ListIsRead`, and for each entry `EntryIsFound`,
  `Load`, db.Open, `EntryIsRegistered`; an entry that fails closes what the
  registry has (`RegistryFails`) and the process returns its error (`Leave`).
- *Anything* may fail with nothing done, or die (`Fails`); people delete a
  `.tillr.json` or a `tillr.db` while nothing runs.

The schema is cut down to what later steps tell apart: the first two tables, the
column that `migrate` is there for, and the rest. A stored text is a member of
a small set of which some are numbers; a duration is a 64-bit product and wraps
around (`Times`). The pid file between db.Open and `Configure` is
`DaemonProcesses`.

## 3. Runs

| Run | Question | Result |
|---|---|---|
| `run_verdict` | every ending with every output: are failures, holds and reports honoured? | holds, 31 125 states |
| `orchestrator_safety` | safety under crashes, a failing statement and an outside edit | holds, 1.5 million states |
| `orchestrator_live` | progress and shutdown under fairness | holds, 62 thousand states |
| `orchestrator_single_writer` | does one goroutine do all of the writing? | violated |
| `orchestrator_stop` | does a stop leave work in flight to finish? | violated |
| `daemon_processes` | one daemon, one claimer per feature, no live run reaped, no start refused for nothing | holds, 1.9 million states |
| `daemon_processes_claims` | is a feature claimed by one process only? | violated |
| `tui` | is the cursor on an item, the pane about the item opened last, the page what the latest load found? | holds, 1.2 million states |
| `persona_context` | what may a compaction lose, and what does a persona read afterwards? | holds, 1.8 million states |
| `rate_limiter` | is every window bounded, do the headers hold, does a sweep fill only what was long idle? | holds, 810 thousand states |
| `project_setup` | what is whole after inits, failures, deaths and deleted files, and what does a start begin with? | holds, 988 thousand states |
| `settings_flags_first` | does a flag of `orchestrator start` win over the table? | violated |

**The properties of `orchestrator_safety`** are the invariants `ParallelismCap`,
`DispatchedOnce`, `NoSendOnClosed`, `BlockLandsInOrder`, `NothingStranded`,
`OutcomeAgrees`, `NobodyWaitsInVain` and the inductive `Invariant` (of which the
types are one part), the action properties `ResultsAreFinal` and `OnlyForward`, and
the refinement `LedgerSpec`. Their comments in `Orchestrator.tla` say what each
means.

`NobodyWaitsInVain` and `OnlyForward` are the safety halves of the liveness
properties, and hold with the crashes and failing statements that `orchestrator_live`
has to leave out. The first says that there is no circle of waits: a worker blocked
on the full channel or on its `done` channel, `waitWorkers` and `<-d.drainerDone`
always wait for somebody whose next step depends on nobody. The second says that
waiting comes to an end: `Ahead` counts the steps a run has still to take, with
those of the drainer for it, and no step of a worker or of the drainer leaves it
where it was, except that a closure files one follow-up after another; only
`startWorker` brings in more.

Four of the properties are conditional, because the code promises no more:

- `BlockLandsInOrder` says of every block that it lands in order, but that it lands
  whole only as long as no statement fails: a statement that fails is skipped.

- `DispatchedOnce` allows a second run of a feature that somebody outside has set
  back to `draft` or `queued`, also while the first run is in flight.
- `NothingStranded` holds without crashes and failing statements. A crash between
  the claim and the INSERT, or a claim that landed and was reported as failed,
  leaves a feature `claimed` for ever: `MarkStaleRunsErrored` looks at runs only.
- `OutcomeAgrees` says nothing of a run that ended as `error`, which a later start
  may have written for a feature still claimed.

**The properties of `daemon_processes`** (`OneDaemon`, `FileNamesDaemon`,
`NoLiveRunReaped`, `ClaimedOnce`, `RefusedForADaemon`) except what the code leaves
open and no more; the model has all of it, and the properties say that nothing
else defeats the guard or the claim:

- `overlapped`: a start passes the guard while another one is between its own guard and
  its written pid, or after another one has written since this one read the file. The
  second way takes three processes: a start reads the pid of a daemon that is on its way
  out, the daemon removes the file and ends, a second start becomes the daemon,
  and the first start probes the old pid and goes on.
- `recycled`: a pid in the file, or read there and not yet probed, is given to a new
  process. Without it a refused start has met a daemon, or one that has removed its
  file and still closes its database.
- `raced`: two claimers between the SELECT and the UPDATE of the same feature. Without
  it a feature is claimed once more only after a rollback or a person has made it
  a draft again (`released`).

**The properties of `persona_context`**: `NothingLost` (every block that was not
appended during a compaction is in the file, in a backup, or about to be written
back), `LatestAreRead` (the file is in order, whatever happens, and has no gap but for
late blocks), `KeepsWhatWasAsked`, and the inductive `Consistent`. The one way to a gap
is a rewrite that ends in the middle of its write (`short`): the oldest of the kept
blocks are there, and what is appended later comes right behind them. A block appended by the daemon
while `tillr persona compact` runs is lost if the read came before it and the
truncation after it; `late` is exactly that set.

**The properties of `tui`**: `CursorOnItem` at every moment; `PaneShowsOpened`,
with an empty pane only for a retro that could not be read, and
`ListsAreCurrent` when nothing is under way and nothing was applied after a later
one. Two details or two refreshes that end in the other order do leave the older
one on the screen: the messages carry nothing to tell them apart.

**The properties of `rate_limiter`**: `WindowBound` for any window an observer may
open; `HeadersHonest` for any header it may keep; `LimiterSpec`, the refinement of
`TokenBucket`; and the inductive `Consistent`, whose `Accounted` and `Growing` say
that the observer's books balance against the bucket at every moment.

**The properties of `project_setup`** except what the code leaves open and no more:

- `InitHonest` excepts two inits past the check at once (`raced`), which truncate
  each other's `.tillr.json` and may leave two project rows although
  `internal/db/db.go:161` calls the row single; and a database that was there before
  (`kept`), which keeps its old row.
- `RegistryWhole` allows a daemon that failed to start one open connection, that
  of the failing entry: db.Open returns its errors without closing what
  `sql.Open` gave it.
- `PostsAreWhole` speaks of keys of which it is certain what they should hold: a
  request that stopped half way, or died, or had a rival writing the same key,
  leaves exactly those keys in doubt, until they are told anew.
- `StartsAsTold` promises of a number whose duration does not fit 64 bits only that
  the interval is positive, and of the poll interval only that the flag or the table
  asks for it: `FlagsComeFirst` is the stronger claim, and fails.

**The violations** are places where a comment or a help text says more than the code
does:

- `SingleWriter`: `Daemon.sideEffects` is documented as the reason SQLite "never
  sees concurrent writers from this process". The poll loop's claims, inserts and
  rollbacks do not go through it.
- `StopIsGraceful`: the help of `orchestrator start` calls Ctrl+C "graceful - waits
  for in-flight workers". It waits for them, but the same context kills their
  children, so the work in flight ends as `error`.

- `ClaimsAreExclusive`: `ClaimNextFeature` is documented as "Idempotent under
  concurrent claims". Two processes that run its SELECT before either runs its
  UPDATE both claim the feature and both work on it.
- `FlagsComeFirst`: the comment at `internal/cli/orchestrator.go:94` says
  "CLI > DB > defaults", and the help offers `--poll-interval-sec`. That flag is below
  the table: it is not among those applied again after it (`FlagsAgain`).

**Other divergences** that the modules show and no run of its own demonstrates:

- `migrate` is documented as bringing older databases up to date
  (`internal/db/db.go:5`, `:111`), but the schema before it creates an index on the
  column it would add (`:42`), so that db.Open fails on exactly those databases:
  `CreateRest` has no step from `OldSchema`, and every command there gives up.
- `docs/reset.md:253` tells people to delete `tillr.db` and run `tillr init` again;
  `init` refuses while `.tillr.json` is there (`Initialized`).
- `Spawned.SpawnError` is documented as covering failed schema validation
  (`internal/orchestrator/orchestrator.go:343`). Nothing validates: a child that
  exits 0 with no output, or with JSON without a result word, is `completed` and
  its feature `done` (`Classify` of `NoReply`).

### Bounds, and why they are enough

`MaxParallelism` 2 gives two workers, the least with a cap to exceed and two
closures to interleave. The channel has one place instead of 64, so that two
workers can fill it and block. `orchestrator_safety` starts with one feature,
whose child files a follow-up for the second persona: parent and follow-up are then
in flight together. One outside edit (to `draft` or `done`) reopens or overtakes a
feature at any moment; one failing statement can be any of the closure's or
the tick's; two crashes allow a restart and a crash of the restarted process. Each
bound is a component of `Budget` or a `Max...` constant, and only the guards that
consume it read it. `MaxRuns` and `MaxFeatures` bound the tables: `RoomAssumption`
makes sure that the budgets never make an INSERT impossible.

`orchestrator_live` starts with a feature for each persona; a third may be added at
any time, one child may time out, and a stop may come at any time. Its children
report nothing, so each closure has its two mandatory writes. There are neither
crashes nor faults: with them a claim really may never end.

`daemon_processes` has three interchangeable pids, so that a daemon may leave and
another one come between the two looks of a third start; three starts, one stop, and
two other events out of deaths, failing calls, edits, claims by hand and strangers
with a pid. One feature is enough for two claimers to meet; two runs are enough
for one to be stale and one live.

`persona_context` has two compactions at a time and three in all, three seconds,
five blocks and `--keep` 1 or 2: enough for a compaction to archive what an earlier
one kept, for two to share a second or not, and for a late block to be behind or
under what is written back.

`tui` has two loads and two details, the least that can overtake each other, one
change of the world, a features list of none, one or two items in either order, an
empty personas list and one retro, so that every tab's list differs in length and
a retro may be read or not.

`rate_limiter` has two handlers, the least for one to come between another's calls;
two keys, one of which comes from two kinds of request; a burst of 2 tokens of
5 drops and 3 drops a tick, so that a refill is never a whole token; a bucket may be
forgotten after 3 ticks, which bring 9 drops, one less than it holds, so that it is
forgotten before it is full, and the clock reaches 3, so that a bucket made at the
start can be swept and `WindowBound` is reached. The clock's end (`MaxNow`) is the only bound.

`project_setup` has a directory and one below it, so that a command may find either;
two processes and two requests at a time; three launches, two requests, one failure
or death and one deleted file; three names of which two share a slug; lists of
none and two entries, with and without slugs; numbers that are negative, fit,
and wrap around to negative and to positive. The directories may hold at first
nothing, a project, or an older version's database. Once everything is spent
nothing needs to happen, so neither run checks for deadlock.

### Fairness

`Fairness` is weak for the poll loop, each worker and the drainer: goroutines are
scheduled, the ticker fires again, and a child ends or meets its worker timeout.
It includes one assumption about the environment: a killed child lets go of its
output pipes, since `cmd.Run` waits for them and the code sets no `WaitDelay`.
`StopSelected` has strong fairness because it is enabled only while the loop waits
in its select, and Go's select picks uniformly among ready channels. Nothing
obliges anybody to start, stop or crash the daemon or to edit a table.

`Dispatched` holds for the finitely many features of an instance. With an endless
supply of work for an earlier persona the later ones do starve, since each tick
walks the personas in the same order and spends its capacity on the first.

## 4. Proofs

`OrchestratorProofs` proves, for every persona list, cap, channel size, table size,
outcome set and budget:

| Theorem | States |
|---|---|
| `Inductive` | `TypeOK /\ Consistent` is an invariant, and inductive (the part of `Invariant` about the loop and the rows) |
| `TypeCorrect` | `[]TypeOK` |
| `CapHolds` | `[]ParallelismCap` |
| `NoPanicOnSend` | `[]NoSendOnClosed` |
| `FeaturesAreDispatchedOnce` | `[]DispatchedOnce` |
| `NobodyIsStranded` | `[]NothingStranded` |
| `TablesAgree` | `[]OutcomeAgrees` |
| `ResultsStay` | `ResultsAreFinal` |
| `ImplementsLedger` | `LedgerSpec` |

They rest on `SizeAssumption` (the sizes are naturals, the cap and the channel are
not empty, the first features are for known personas), `RoomAssumption` and
`EnvironmentAssumption` (outcomes are results of the spawner's type, outside
statuses are statuses).

**The argument.** None of the properties is inductive alone.

- *The cap* needs `Capacity`: while `tickOnce` walks the personas, the workers plus
  the `avail` it has left stay within the cap. Only `tickOnce` adds to the map, and
  workers that leave only make room.
- *No send on a closed channel* needs `ClosedAfterWorkers` and `MapMatchesWorkers`:
  the map holds exactly the goroutines that exist, and after it was seen empty on
  the way out no worker starts.
- *One dispatch* needs `ClaimsAreExclusive`: a feature with a run is not claimable
  unless reopened, and the one being claimed has no run yet. The gap between the
  SELECT and the UPDATE matters: an edit in between counts as a reopening only if it
  wrote a claimable status.
- *Nothing stranded* and *results are final* need `QueueMatchesWorkers` (a closure is
  in the channel or with the drainer, once, while its worker waits) and
  `RowsFollowWorkers` (a live run's row stays open until its own closure settles it).
  A start meets `MemoryOfOff`, so no row it marks belongs to a live worker.
- *Agreement of the tables* needs `StatusBeforeResult`: between the closure's last
  two statements the feature already has the status of the result to come, so that
  a crash there leaves an open row and never a wrong pair.

Frame lemmas say which actions touch which part of the state; then each conjunct
has a lemma with a step for each action that can disturb it. The refinement maps
each action to a step of `RunLedger` or to a stutter.

`OrchestratorDrainProofs` builds on `Inductive` and proves, for follow-up lists of any
length, any number of workers and any capacity of the channel:

| Theorem | States |
|---|---|
| `InvariantHolds` | `[]Invariant`: all of the above, the account and the order of every block, and what the channel delivers |
| `BlocksLandWhole` | `[]BlockLandsInOrder` |
| `NoCircularWait` | `[]NobodyWaitsInVain` |
| `RunsOnlyGoForward` | `OnlyForward` |

- *Blocks land whole* needs `BlockInHand`, which keeps account of a block: as long as
  no statement fails, what has landed followed by what the drainer has still to write
  (`Rest`) is the closure's whole script; before the drainer takes the closure nothing
  has landed, and once the worker is released everything has. Each statement moves
  one write from the second part to the first (`Takes`, `Applies`); the rest is that
  concatenation is associative.
- *Blocks land in order* whatever fails needs `BlockInOrder`: nothing that has landed
  belongs behind the statement the drainer is at (`WritesBefore`), so what lands next
  comes after all of it (`StatementLands`, `LandsInOrder`).
- *Nobody waits in vain* needs `ChannelDelivers`: a worker that waits has its closure
  in the channel or with the drainer, and the drainer leaves only after the close. With
  `ClosedAfterWorkers` this excludes the one way to hang, a drainer that is gone while
  a worker sends or waits.
- *Runs only go forward* is a matter of each action's effect on `Ahead`, given that a
  closure is in one place (`QueueMatchesWorkers`): what the drainer takes is not what
  it has, and what a worker sends is not yet with the drainer.

`DaemonProcessesProofs` proves, for any pids, features and event budgets,
`Inductive`, `NoSecondDaemon`, `StopFindsDaemon`, `LiveRunsAreSafe`, `OneClaim` and
`RefusalsAreRight` (`[]OneDaemon`, `[]FileNamesDaemon`, `[]NoLiveRunReaped`,
`[]ClaimedOnce`, `RefusedForADaemon`). The strengthening says where a start may
stand while a daemon exists: unless starts overlapped, whoever is past the guard is
alone until it has written the file (`AloneInWindow`), since a daemon that runs has its
pid in the file and that pid answers; and the pid stays until its own deferred
`Remove`. `FileNamesNoStranger` says of the file, and of every start that has read it, that
the pid is a daemon's, a leaving daemon's or nobody's. `SelectedOnce` balances the claims
granted against the rollbacks and edits, feature by feature.

`PersonaContextProofs` proves `Inductive`, `NoBlockLost`, `PersonaReadsLatest` and
`CompactionKeeps` (`[]Consistent`, `[]NothingLost`, `[]LatestAreRead`,
`KeepsWhatWasAsked`) for any number of blocks, compactions, processes and seconds,
from `ContextAssumption` (`--keep` is positive, as `Compact` makes it, and the clock
starts within `Second`). `NothingLost` needs two more parts: `ReadIsCurrent` (until
the truncation the file is what was read, followed by late blocks only) and
`BackupFirst` (at the truncation the backup has what the file gives up).
`LatestAreRead` needs `ReadIsGood`, the same property of what a compaction holds in
memory. `Halves` states of `SubSeq` that the two parts of a file are all of it;
`OverlayType` what a write over a file leaves; `HeadThenLate` that the head of what
was read stays in order with what came behind it, which is all that is left of
the argument when a write falls short.

`TuiProofs` proves `Inductive`, `SelectionIsThere`, `PaneIsRight` and
`ListsAreRight` (`[]Consistent`, `[]CursorOnItem`, `[]PaneShowsOpened`,
`[]ListsAreCurrent`) for any lists and bounds, whichever retros cannot be read. The last two follow from
`DetailIsNewest` and `ListsAreNewest`, which say of every moment what they say of
quiet ones: all that has arrived is no later than what is shown.

`RunVerdictProofs` proves, for any set of reports, `Inductive` and from it
`StatusesAreKnown`, `FailuresStayFailures`, `ReportsAreFound` and `HoldsAreKept`
(its `[]TypeOK`, `[]FailureIsNeverDone`, `[]ReportBeatsText`, `[]HoldsAreHonoured`). The
invariant (`Faithful`) only ties the worker's two results to the two functions; the
work is in `FirstIsTaken`, which says what the parser's loop over the keys returns
(so that only an earlier report can override a hold), and `Failures`, which says when the classification sees one.

`RateLimiterProofs` proves `Inductive`, `RateIsKept`, `HeadersCanBeReliedOn` and
`BucketsAreKept` (`[]Consistent`, `[]WindowBound`, `[]HeadersHonest`, `LimiterSpec`)
for any positive rate and burst, any times, units, requests and number of handlers,
from `LimiterAssumption`. Neither bound is inductive: the bucket must be in the sum.
`Accounted` says that what was admitted and what is left is covered by what there
was and what may be gained since, and that what was admitted was earned by the time
of the last request, so that the lifetime after it pays for the new bucket
(`SweepAccounts`); `Growing` says that a promised token is there or on its way. Under
`FullWhenStale`, and only there, `NothingIsForgotten` proves that a sweep changes no
level.

`ProjectSetupProofs` proves `Inductive`, `InitIsHonest`, `RegistryIsWhole`,
`NoPostIsTorn` and `StartHeedsWhatItIsTold` (`[]Consistent`, `[]InitHonest`,
`[]RegistryWhole`, `[]PostsAreWhole`, `StartsAsTold`) for any directories, names,
texts, lists, flags, processes and requests, from `SettingsAssumption` and
`SetupAssumption`. What is inductive is `Consistent`, `InitHonest` and
`PostsAreWhole` together:

- *init* needs `OneInit`: unless inits raced, the one in a directory is alone, its
  file is whole from the write on and the only row is its own, so that what it
  reports is there; and `UsersHaveSchema`: the steps of db.Open only add.
- *The registry* follows from `RegistryGrows`, which says of every entry reached so
  far what the property says of the whole list.
- *Posts* need `PendingIsTold`: what a request has yet to store is what the key
  was last told, unless that is in doubt.
- *The settings* are a matter of arithmetic (`EffectiveHonours`): of the 64-bit
  product (`TimesType`, `TimesFits`) and of which layer is on top for which key.

**Only model-checked**: `Dispatched`, `ClaimResolved` and `StopTerminates`. Liveness
under fairness rests on ENABLED, which this prover does not handle. For the last two
the argument's other ingredients are theorems: somebody can always move
(`NoCircularWait`), and every move leaves less to do (`RunsOnlyGoForward`). What
TLC adds on its instance is that fairness makes those moves happen. The four
properties that the code violates are not theorems; TLC's counterexamples stand.

## 5. Not modelled

- What comments, titles and context entries say; costs, tokens, durations and
  session ids; log lines.
- `NoopSpawn`, the dry-run spawner: always a completed report, one of the outcomes.
- `ActiveRuns` and the status command: snapshots that only read.
- Children that outlive a crashed daemon: nothing reads their output. What they do
  to the worktree is outside the sources.
- Two daemons over one database within `Orchestrator`: its theorems are about one
  daemon process. `DaemonProcesses` shows when there is only one.
- What stands in a context file before the first block (`splitBlocks` drops it) and
  headings inside an agent's own text (it counts them as blocks).
- An automatic compaction: the help of `persona compact` speaks of one after a run,
  but only the command calls `Compact`.
- Command-line parsing, colours, page rendering, comments and retros: no state.
- The rounding of float64 in the rate limiter, and X-Forwarded-For as a text: a
  request has its first entry.
- The requests to the multi-project daemon: they read a registry that no longer
  changes, and the databases. `InitConfig` writes one file and nothing calls it.
- The server's handlers that only read, its comment handler (one INSERT), the
  check of the API key, and the web socket hub: connections are put into a map
  and taken out of it, and nothing is ever sent to them.
- The web client: its pages render what the API returns. `useWebSocket` sets a
  timer when its socket closes, also when it closes because the page is left; it is
  listed as a hazard and shares no state with the rest.
- The backup of a context file whose name is taken within the same second, and
  `stop` signalling a process that was given the daemon's pid: both are steps of the
  models (`reused`, `StopSignals`), and no property says they do not happen.

## 6. Plan

The order follows what the program would lose if a part were wrong.

1. **`Orchestrator` and what it rests on**: built, checked and proved, as above.
2. **`DaemonProcesses`**: the pid file guard, `stop` by pid, the two statements of
   `ClaimNextFeature` run by several processes: built, checked and proved.
3. **`PersonaContext`**: `Append` and `Compact` with crashes and several writers:
   built, checked and proved.
4. **`RateLimiter`**: buckets, refill, the sweep and the headers, as an implementation
   of `TokenBucket`: built, checked and proved.
5. **`Tui`**: asynchronous loads, cursor, tabs and detail: built, checked and proved.
6. **`ProjectSetup`** and **`Settings`**: `init` and its partial failures, the registry of
   the multi-project daemon, the config table between `POST /api/config` and
   `orchestrator start`: built, checked and proved.
7. **`RunVerdict`**: its properties for any set of reports: proved.
8. **`OrchestratorDrainProofs`**: the block of writes along the closure's steps, whatever
   fails; the waits between the workers, the channel and the drainer; the measure
   behind a stop: checked and proved.
9. **Left**: the comments table, if anything but the closure comes to depend on it;
   several daemons with the inside of a run, as a composition of `DaemonProcesses`
   and `Orchestrator`.
