# Verification of utena

TLA+ models of the utena daemon (`src/internal`, Go), checked with TLC, with theorems proved by TLAPS.
utena keeps *sessions*: named groups of git worktrees, each with a terminal session of the multiplexer tuios,
browser windows and coding agents. The daemon owns their records in a sqlite database and reconciles them
with programs it does not control: tuios, git, browsers, remote machines.

`PROJECT.json` names the source lines of every definition, the runs with their properties, the mutants that show
that each property can fail, the findings, the hazards of the code and the theorems.

## 1. The system

| component | state it keeps | operations | modules |
|---|---|---|---|
| session setup (`session/setupexecutor.go`, `setupstepdefinition.go`, `sessionsetupstep.go`) | the step rows of a session; in memory one execution per request | build a plan, prepare the rows, run rounds, background steps | `SetupPlan`, `SetupExecution` (3) |
| session lifecycle (`session/sessionservice.go`, `sessionstore.go`) | session rows: status, `status_error`, attached, root, mux record | create, repair, add workspace, activate, archive, delete, hooks, reconcile | `SessionLifecycle` (5) |
| multiplexer service, tuios driver (`mux/service.go`, `mux/store.go`, `tuios/driver.go`) | one record per terminal name; waiters of the attach loop | register, spawn, create, kill, track; follow events, resync | `MuxService` (4) |
| attach loop (`cmd/tui/attach.go`, `mux/controller.go`) | the attached terminal | long poll for an activation, switch, post hooks | `AttachSwitch` (7) |
| browser windows (`browser/*.go`) | rows of windows with their pages, links that wait; in memory what is being placed, ended, restored | open, adopt, eject, move, match after a restart, end with the session | `BrowserWindows`, `RestoreMatch`, `RestoreOffers` (6) |
| Chrome script driver (`chromescript/driver.go`) | the last snapshot of Chrome | poll, compare, tell; call | `ScriptDriver` (6) |
| browser extension connection (`webext/driver.go`, `extension/background.js`) | one websocket, pending requests, queued events | send, answer, time out, reconnect, merge events | `WebextDriver` over `RemoteCalls` (7) |
| coder connections (`coder/conn.go`, `follower.go`) | one ssh process and one host per remote workspace | ensure, restart, release, close | `CoderConn` (7) |
| coder sessions (`session/remotebackend.go`, `coder/service.go`) | the row of a remote session | create, activate, archive, delete, poll, resume | `CoderSession` (7) |
| bundles, claude settings (`bundles/*.go`, `claudesettings/*.go`) | the names in a row, two files in the session's root | set, apply, merge | `BundleFiles` (7) |
| git service (`git/*.go`, `session/sessionbranchsync.go`) | rows of worktrees, branches, past branches, pull requests | worktrees, sync of branches and pull requests, activity | `GitRecords`, `PRActivity` (8) |
| workspaces (`workspace/*.go`, `api/baremigration.go`) | rows of workspaces; directories; lines of progress | add, discover, clone, migrate, touch, delete | `Workspaces` (8) |
| terminal interface (`tui/...`) | list, panel, overlays, form, progress | keys, commands, answers, ticks | `SessionPicker`, `DetailPanel` (6), `ListPolling`, `SessionForm` (8) |
| event bus, jobs, database | subscriptions; tickers; tables | publish calls every handler in the caller's goroutine; one goroutine per job; whole-row `Save` | inside the actions of the modules above |
| leader connection, claude sessions, HTTP API and daemon, window managers and pickers, disk usage, monitor, shell integration | | | not modelled (9) |

How they interact: HTTP handlers call services; services call each other, git, tuios, a browser driver or a remote workspace, and
publish events whose handlers run in the publisher's goroutine. The session row is the centre: setup, lifecycle, remote backend,
hooks and jobs all load it, work and write all of it. Everything the daemon reflects (terminals, windows, branches, pull requests,
remote sessions, checkouts) lives outside it and changes without asking.

What is hard here:

* **Concurrency.** HTTP handlers, the setup goroutines, background steps, the follower of the terminal events, jobs every
  minute and hooks posted by terminals all write the same rows. sqlite has one connection, so a statement is atomic; a
  handler is not. Rows are read, changed in memory and written *whole*.
* **Failure.** Every external call can fail, or succeed and lose its answer; the daemon can stop anywhere and finds
  its rows as it left them.
* **Ordering.** Events arrive late, are dropped (a `gap`), merged, or lost with the connection; answers of the daemon
  overtake each other on the way to the terminal interface.
* **Liveness.** Background steps wait for their setup, callers wait for the lock of a name, the follower waits for
  callers, remote sessions wait for a workspace, lists wait for the next tick.

## 2. Modules, runs and the order of the work

1. **SetupPlan, SetupExecution**: the executor and everything that starts, ends or recovers a setup (3).
2. **MuxService**: the records of terminals and the follower of their events (4).
3. **SessionLifecycle**: session rows between their readers and writers (5).
4. **BrowserWindows** with **RestoreMatch**; beside it **ScriptDriver** and the views **SessionPicker**, **DetailPanel** (6).
5. **WebextDriver**, which implements **RemoteCalls**; **AttachSwitch**; **CoderConn**; **CoderSession**; **BundleFiles**;
   **RestoreOffers** (7).
6. **PRActivity**, **GitRecords**, **Workspaces**, **ListPolling**, **SessionForm** (8).

The proofs, each module about the components it extends:

| module | about | theorems of properties the runs check |
|---|---|---|
| `SetupExecution_proofs` | SetupExecution | MuxComesLast, CreatingEnds, SuccessIsComplete, FailuresAreReported |
| `MuxService_proofs` | MuxService | RecordsCorrect |
| `SessionLifecycle_proofs` | SessionLifecycle | CreatingGoesOn |
| `Browser_proofs` | RestoreMatch with RestoreOffers, BrowserWindows | BestPairsFindEachOther; WindowsHaveOneOwner, DeletionsHold, NoWindowIsOrphaned, PagesAreKept |
| `Picker_proofs` | SessionPicker, SessionForm, DetailPanel | CommandsAreConfirmed; FormSendsWhatIsSeen; PanelFollows |
| `Connections_proofs` | AttachSwitch, WebextDriver, ScriptDriver | ChannelsNeverBlock, TurnsToNews, SwitchesAreFollowed; DriverKeepsPromise, NoSignalIsLost, ChangesReachService; QuittingIsNotTold, SettledChangesAreTold |
| `Coder_proofs` | CoderConn, CoderSession | ConnectionStaysWatched; InProgressStaysOwned, FollowerHasOneSession, WorkspaceIsNotLost |
| `Records_proofs` | Workspaces, PRActivity, BundleFiles, GitRecords | BusyRowsAreOwned, UserWorkIsKept; NewsAreToldOnce; FilesStayInLine; LeftBranchesAreKnown |

Every invariant that is not a type correctness was first checked by TLC on the instance of its run. The proofs assume of the
constants what the modules ASSUME and no more; where a part is proved by itself its specification (`FilesSpec`, `ScriptSpec`,
`PickerSpec`, `FormSpec` ...) is the initial predicate and all the actions of that part, without the budget of the run.

| run | module | parts | result |
|---|---|---|---|
| `overlap` | `MCSetupExecution` | two executions of one setup | holds |
| `progress` | `MCProgress` | setup, git, polling, mux | holds |
| `rows` | `MCRecords` | sessions, pr, space, form | holds |
| `windows` | `MCBrowserWindows` | windows, script, picker, panel | holds |
| `connections` | `MCConnections` | driver, attach, conn, session, files, offers | holds |
| `install`, `terminal`, `own_kill`, `env`, `root`, `clone`, `ties` | | one property each | violated: findings |

All passing runs but `overlap` unite *parts* that share no state. Their MC module chooses a part in the initial state and lets only
that part move, so a behaviour is one of a single part and the state space is the sum, not the product, of the parts'. The
parts that do not move start in one fixed state each, which keeps the number of initial states small. What comes from
outside a part (users, requests, other programs, breaks, restarts, in some parts failing calls) spends a unit of the part's
budget; what the code does by itself is never bounded by it. Fairness is stated for the part that a liveness property is about
only. The parts of a run are united for the time a run takes, not because their code interacts; `progress` has those whose question is
whether something ends, `rows` those about what a row says. Modules that are composed because their code is: `BrowserWindows` EXTENDS
`RestoreMatch` (the matching runs inside `HandleConnected`), and `WebextDriver` has an INSTANCE of `RemoteCalls`.

Liveness is written as `[]<>` ("again and again at rest"): for a state that does not count as rest this says that it is left, as
`~>` would.

What is left of the plan: `BrowserWindows` composed with `WebextDriver`, whose
promise (a call may fail and be carried out all the same, events in order, a told connection) it takes as its environment.

## 3. Session setup: `SetupPlan`, `SetupExecution`, `MCSetupExecution`, `SetupExecution_proofs`

A *plan* is the list of step definitions of `buildSetupSteps`: the session directory, then for each workspace its
worktree, its copies and its installs in a chain, then apply_claude, then setup_mux. `SetupPlan` is that function,
without labels; `MCSetupExecution` evaluates its operators on all configurations of up to three workspaces with two
actions each, and checks that they satisfy `WellFormedPlan`, the only thing `SetupExecution` (and its proofs) assume.

`SetupExecution` is one session and `MaxExecutions` requests for it: the creation, then repairs or additions of
workspaces that may overlap, because `RepairSession` checks the status it has read (`RepairCheck`) before it writes
"creating" (`RepairCommit`). An execution lists and replaces or resets the step rows (`ListSteps` ... `PersistSteps`;
separate statements, so two executions interleave there), runs rounds (`StartRound`, `StartStep`, `FinishStep`,
`EndRound`) and writes its result (`Complete`). The in-memory steps (`status`) are what decides, the rows are what is
shown, as in the code: a background step is handed a *copy* of its row struct, so it writes the row and never `status`.
`Save` is gorm's upsert: a late writer brings a deleted row back. Making the rows and writing their ids into the steps
(`setupexecutor.go:54-73`) is one step, and a repair that fails after it has written "creating" (`sessionservice.go:1342`) is in
`SessionLifecycle` (5), which has the records it fails for.

Abstractions: what a step does on disk is one of the `Outcomes` its code has; the messages of `status_error` are
pairs of execution and step; `Reconcile`, `AddWorkspace` and the hooks read and write in one action; the deadline of
`setupTimeout` is observed between rounds (inside one it is a step that fails). `by`, `owner` and `fell` are history.

| run | question | bounds |
|---|---|---|
| `progress`, part setup | one setup with all outcomes: order, termination | two workspaces, a copy and a background install (7 steps), one execution, restarts and reconciles without bound |
| `overlap` | does an overlapping repair or addition break the promises? | two executions, one workspace with an install, one added |
| `install` | (violated) every step runs | one execution, two install_deps |
| `terminal` | (violated) active means the terminal exists | two executions |

Two executions suffice for the overlaps: rows and the session row are the only shared state, every write of them
replaces what is there, and no rule compares more than the writer with the last writer. In this run the first execution is the
creation, so two repairs at the same time are reached by the theorems only, which hold for any number of executions. The deadline of the
first execution does not expire here; in `progress` it does.

Properties: **MuxAfterWorktrees** (the terminal is last: the barrier between rounds, `ready`'s rule for apply_claude
and the return after a broken round must all hold), **SuccessMeansSetUp** (a loop that ends "as
nothing is ready" has really finished), **CreatingIsInProgress** (nobody leaves "creating" behind, and a session in that
status can neither be repaired nor archived), **FailureIsReported** (while the row shows the outcome of an execution, every step of it that failed, in the foreground or in the
background, has its message there or waits to append it, with other executions completing and appending in between; its mutant
appends without waiting for `finished`),
**SetupEnds**, **BackgroundEnds**.

Fairness: weak fairness of the goroutines of an execution and of its background steps (Go schedules runnable
goroutines and every step runs under a deadline). None for requests, reconciles, restarts or the deadline itself.

Findings: *install*: a second install_deps of a workspace waits for the in-memory status of the first, which stays
"running" for ever, so it never runs and the setup reports success. *terminal*: adding a workspace to a session that is
broken or still being created makes it "active" without a terminal.

Proved for every number of executions and all well-formed plans. By the invariant `Inv`, that is `TypeOK` and, for each execution,
`ExecutionInv` (started steps have their dependencies terminal, nothing of a broken execution starts, the worktrees of a
started apply_claude are done): **TypeCorrect**, **MuxComesLast**, **BrokenSetupStops** (nothing is scheduled after a step failed
for good) and **CreatingEnds**. TypeCorrect and BrokenSetupStops are proved only, no run repeats them.
`MuxAfterWorktrees` alone is not inductive: it says nothing of apply_claude, which setup_mux depends on.

**SuccessIsComplete** needs an argument about plans of any length. `OutcomeInv` says that a run that has come to its end has no step
ready and left nothing running. If a foreground step had not ended there would be a first one; what it depends on comes before
it in the plan, so it has ended, so the step would be ready. That there is a first one (`LeastMember`) is not an induction the
provers can do by the library's rule: it follows from strict inclusion of finite sets being well founded. **FailuresAreReported**
needs `ReportInv`: a failed step is still to be appended, or its execution has not finished and will report it as a warning or by
being broken, or the row has its message as long as it shows this execution (`Accounted`); and the row shows an execution only once that
has finished (`ReportsWhenFinished`). `OutcomeOfSession` says who writes the row: only an execution's own `Complete`, before which none of
its messages is appended, makes the row its own, so what the others do in between does not matter.

## 4. Multiplexer service: `MuxService`, `MCProgress`, `MCMuxService`, `MuxService_proofs`

`terminals` are the terminals tuios has, `stream` the events sent and not handled, `record` the rows of `mux_sessions`
(a "none" row stands for no row), `call` the goroutines that are inside a call, `follower` the goroutine of
`followEvents`. A caller holds the lock of its name from the driver call (`OpenTerminal`, `KillTerminal`) to the write of
the row (`WriteRow`); `SpawnForRecord` and `KillSession` copy the row *before* that, as the code does, and
`GetOrTrackSession` and `resync` take no lock. `resync` lists the terminals, then the rows, then writes row by row.
Users open and close terminals, the connection breaks (with or without the tuios daemon ending), tuios drops events and
sends a gap, NewSession fails after the terminal was made, kills fail, and utena restarts.

Abstractions: taking the lock and the driver call are one step (nobody can see the difference: the row is read before);
the local database does not fail; window lists and resource samples are left out; `own` marks events caused by utena's own kill
and `unsure` the names for which the code itself gives no guarantee: a kill failed, a resync could not list or found a
call half done, a terminal was tracked after it closed. Both are history variables.

| run | question | bounds |
|---|---|---|
| `progress`, part mux | do the records tell the truth once everything has settled; do calls and events end? | two callers, one name, four steps of users, daemon, requests and restarts |
| `own_kill` | (violated) utena's own kill is not published as an external close | one caller, four outside steps |

The budget bounds what arrives from outside, never what the service does. One name is enough for liveness: names
share nothing but the stream and the follower; the safety part has also been run with two names and five steps (2.8 million states),
and the theorem covers any number. Four outside steps reach a connection, an open or a kill, a lost event and a second caller.

**RecordsAgree** is eventual consistency stated as safety: in every state where the connection is up, the stream is empty and
no call is running, an active record has a terminal and an inactive one has none, whatever happened before, except for `unsure`
names. **CallsReturn** and **EventsAreHandled** assume weak fairness of goroutines, and strong fairness where a lock is
taken: a `sync.Mutex` hands itself to the goroutine that waits longest, so a waiter is not overtaken for ever. Reconnecting
has no fairness: nothing makes the terminal daemon come back.

Finding *own_kill*: the status of the record is not a reliable sign of a kill of one's own when the follower lags.

Proved: **TypeCorrect** and **RecordsCorrect** (`Spec => []RecordsAgree`) for any callers and names and a stream of any length.
The invariant says why the scheme works: at every moment, for each name, something still to come will put the record right.
`StreamTrue`: the last event of a name on the stream tells the truth about its terminal (or a resync follows, or the
connection is down). `Accounted(n)`: the record agrees, or an event or a resync is on its way, or a caller that
holds the lock will write what is true, or the name is `unsure`. `OneHolder` (the lock excludes), `CallsWrite` (what
a call is going to write) and `TodoWhileUpdating` complete it. Without the lock in `setStatus` the proof fails and TLC finds
a counterexample (the mutant of RecordsAgree).

## 5. Session lifecycle: `SessionLifecycle`, `MCSessionLifecycle`, `MCRecords`, `SessionLifecycle_proofs`

`row` is the table of local sessions: status, the kind of `status_error` (none, "git" for the text that only
`reconcileLoadedSession` writes and recovers from, or any other), `is_attached`, and whether `mux_session_id` is set. `NameOf`
gives each session the name it is created with; sessions of one name claim one record. `record` and `terminals` are the part
of the multiplexer that matters here: status and `UTENA_SESSION_ID` of a record, and what tuios runs; `events` is the stream to
the follower. `roots` are the session roots on disk, `unhealthy` the sessions whose repository or branch git does not find.

`op` is what each goroutine is doing: `Callers` (requests, client hooks, and the setup goroutine that takes the place of
the request that started it), the `Follower` of terminal events and the `Job` session.reconcile. No lock guards a row. A
writer loads it (`op[p].row`), works, and writes *all* of it (`Save`), so an action is the code between two database accesses:

| code | actions |
|---|---|
| CreateSession | CreateCheck (no live session of the name in one of the workspaces; root), CreateAdd, CreateRegister or CreateFails, CreateLink |
| runSetup, completeSetup | SetupLoad, SetupMux, SetupEnd or SetupFails |
| RepairSession | RepairLoad, RepairWrite |
| ActivateSession | ActivateLoad, ActivateMux or ActivateFails, ActivateClear, ActivateWrite |
| ArchiveSession | ArchiveLoad, ArchiveKill, ArchiveWrite |
| DeleteSession | DeleteLoad, DeleteKill, DeleteRoot, HardDelete |
| client hooks | ClientHook, HookWrite; ClientChanged, ChangedClear (row by row), ChangedFind, HookWrite |
| terminal events | HandleEvent (the record), EventFind, then HookWrite or a reconciliation; Resync |
| reconcileSyncTask, reconcileLoadedSession | JobVisit, Look, ReconcileWrite |
| OnAppStart | Restart: recoverStuckCreatingSessions and reconcileMuxState for every row, all goroutines gone |

Abstractions. A call of the multiplexer service is one step (its own steps are MuxService's) and a setup up to its terminal is
one step (SetupExecution's). `Update` is one step although the code asks for the row and then saves it with an upsert (a deletion in
between can bring a row back). The
fallback of ActivateSession to a terminal of another origin, the statuses pending and completed, coder sessions,
UpdateSession, AddWorkspace and branch synchronisation are left out. Users open and close terminals, events are lost, git
breaks and mends, and the daemon is killed, at any point.

| run | question | bounds |
|---|---|---|
| `rows`, part sessions | do rows stay creating or keep a wrong status? | two sessions of one name in workspaces of their own, two callers, three steps of the environment |
| `env` | (violated) the panes of a session are attributed to it | one caller, three requests |
| `root` | (violated) deleting an archived session keeps what a live one uses | one caller, four requests |

`MaxRequests` bounds requests, users, git and restarts together (`Request`), never what a goroutine does once it has begun.
Two sessions of one name are the interesting case: rows of different names share only `is_attached`, which no property of
this module constrains. In `rows` each is created in a workspace of its own (`WorkspacesOf`), as duplicates are refused per workspace: then
the second is created while the first lives, too; in `env` and `root` both are in one workspace. `InOrder` says which of the two
interchangeable sessions is made first. Two callers, the follower and the job give four writers of one row; three outside steps
reach a creation, an overlapping request or hook, and a restart or lost events after it. The invariants hold for every
number by the theorems below.

**CreatingIsInProgress**: a row in status creating has a goroutine that creates it or sets it up, so it does not stay so (it can
be neither repaired, archived nor activated). Three ways to break this are in the code and are named by the history
variable `stranded`: CreateLink loses its record to another row of the name (two creations at the same time, or RegisterPending
returning a linked record); RepairSession writes creating before it finds that the row has no record; and a hook that loaded
the row while it was creating writes it back after the setup has ended. A restart recovers all of them.
**StatusSettles**: once
requests, users and git rest, every row of a session that is not creating or archived agrees with its terminal and its
repository, and stays so, whatever was written over it before: what reconciliation is for.

Fairness: weak for the goroutines of requests as a group, for the follower and for the job's current work; strong for
`JobVisit(s)`, because every run of the job walks through a list of all sessions. None for users, git, losses or restarts.

Findings. *env*: archiving unlinks the record of a session and keeps it; the next session of the name is given that record,
and with it the `UTENA_SESSION_ID` of the archived session. *root*: deleting an archived session removes the root and the
worktrees that a later session of the same name uses.

Proved, for any sessions, names, workspaces, callers and number of requests: **TypeCorrect** and
**CreatingGoesOn** (`Spec => []CreatingIsInProgress`). CreatingIsInProgress is far from inductive: what a process writes depends
on a copy it made long ago. `IInv` adds that no two rows claim one record (`OneRowPerRecord`, which is the database's unique index:
`CanSave`) and, in `LifeInv`, what is true of copies:

* `Unborn`, `Newborn`: until it is linked a new row is known to its creator only (and to a forced deletion), so no
  copy of it exists that could come back;
* `UnlinkedIsOwned`: a row that is creating and not linked is still its creator's, so
* `CopyOK`, `Listed`: a copy that says creating was made of a linked row, or of one already stranded; writers of other
  statuses hold copies with those statuses;
* `RowShape`: a row that is not there is neither linked nor attached.

With it, a setup whose final save is refused can only have lost to another row of the record (OneRowPerRecord), and then the
row it was working on is its creator's again. The proof splits steps in two: the four that make rows (CreateCheck, CreateAdd,
CreateRegister, Restart) are proved each for itself; every other action is shown to be a `Step(p)`, a short list of what one
process may change, and `OrdinaryStep` proves once that a `Step` keeps the invariant.

## 6. Windows, Chrome, the list and the panel: run `windows`

### Browser windows: `BrowserWindows`, `RestoreMatch`

The state is the browser (`running`, `shown`, `focus`), the connection (`link`, `fresh`, `channel`), the table `rows` and what the
service keeps in memory (`svc`: the window to be placed, ends to be dealt with, removals that wait for a disconnect, snapshots due).
The service has one mutex which it holds while it talks to the browser, so a handler, an event, a timer or a round of a loop is one
step; what a request reads before it takes the mutex is a step of its own (`Asks`, then `Opens`, `Reaches`, `MoveInto` ...), and the
session may be archived, deleted or unlinked in between. Within a step every call can fail, or time out and be carried out all
the same (`Outcomes`, `Creations`, `Closed`): the rows are then what the code writes in that case.

| code (`internal/browser`) | actions |
|---|---|
| the user, the browser, the connection, the daemon | UserOpens, UserCloses, UserFocuses, UserBrowses; BrowserQuits, BrowserStarts; LinkBreaks, LinkComes; DaemonRestarts |
| events of sessions and clients | SwitchTo, SessionArchived, SessionDeleted |
| connection handling (service.go, reattach.go) | HandleDisconnected, HandleConnected (Flushed, SavedClosing, Reattached by `RestoreMatch`, Resynced), HandleConnectedFails |
| events of windows | HandleCreated, HandleRemoved, RemovalExpires, HandleTabs, SnapshotFires, HandleFocus |
| the loops | Place..., ArchiveLive, ArchiveOffline, DeleteLive, DeleteOffline |
| requests | OpenFinds ... OpenCreates, Finish, HoldOpens ..., FocusFinds, MoveInto, MoveDetaches, Eject |

`matchRestored` is `RestoreMatch` as the code computes it: all pairs of a row and a window that reach the threshold, settled in order
of their Jaccard score (a fraction, compared exactly); a candidate with equal rivals settles them all and matches none. The sorted
slice is `Nth` (the candidate that n others come before), the loop over it the recursive function `Settlement`.

Named assumptions: a window is the set of its pages; database errors are left out; which of several rows was focused last is left
open; no code of the program sets `restoreWindow`, so what waits for it is left out; the browser is started again only after the
driver noticed that it had gone; a client that is attached in the initial state has a window. Opening of links for
clients and the listing are left out.

Properties: **OneOwner**, **OnlyUserForgets** (saved pages go only when the user closes or ejects their window or deletes the
session), **DeletedAreForgotten**, **NoOrphan**. What the code itself gives up on (a close that failed, an operation given up, a row
overwritten) is recorded in `history` and named in each property's comment.

Bounds: two sessions, one page, two windows, three rows, a budget of three steps from outside and at most one failing call,
which costs a unit too. Sessions and pages are interchangeable (the symmetry; there is no liveness in this run). Three
steps reach a window, a quit or a break, and a deletion or request that overlaps with what follows. Also run without
violation: three window ids (970 thousand states), and simulations with six outside steps (48 million states).

Proved (`Browser_proofs`), for any sessions, rows, windows, pages and failing calls: **DeletionsHold** (`BrowserSpec =>
[]DeletedAreForgotten`). The property speaks of rows only, but a row can be made for whatever session the service finds elsewhere: the
attached one (placement), the one of a request past its checks, the client's switch, the owner of the window a new window was
opened from. `DeletedInv` says of each of these places that a deleted session found there is noted: its end is in the queue, under
way or was given up, or a request overtook it. The table needs only one lemma for each operation: none brings in a session
that was not in a row (`From`), but for the row that is added. Without `releaseSessionLocked` the invariant breaks at the attached
session (the mutant).

Proved there too, for any finite sets of them: **WindowsHaveOneOwner** (`BrowserSpec => []OneOwner`). `OwnerInv` has four parts: the rows are
a table (`Tabled`), no two open rows have one window (`Distinct`), what the browser shows are pages in windows (`IsShown`), and what a
request carries is a page. Most operations only narrow the table (`Narrows`: no row opens, none changes its window). Windows come in at three places:
a creation gives a row the window the browser made, which had no row (`CreationIds`); a row made for a window the user opened takes an id
no row has (`UnusedIds`); and `Reattached` opens rows for the windows that `matchRestored` gave them. This needs that the matches are
one to one (`MatchesOneToOne`) and, as ids of new rows are numbers below a finite number of rows, that a finite set of numbers has a
least one. The matching is proved as a lemma about all candidates: `SettlementSteps` says what each step of `Settlement` adds,
`BeforeIsAnOrder` that the order has no ties (scores are fractions; `ScoreOrder` is their arithmetic), `EveryPlaceTaken` that
each place 0 .. n-1 of the order is that of one candidate, and `Climbing` is the induction over the places, stated for a set of numbers
instead of an operator, so that the provers need not instantiate one.

On these two rest **NoWindowIsOrphaned** (`BrowserSpec => []NoOrphan`) and **PagesAreKept** (`BrowserSpec => OnlyUserForgets`). NoOrphan says
nothing while the connection is down or not yet handled, and OnlyUserForgets is about one step; what both need of all states is
`WindowInv`: an open row with pages is of a window that is there, unless others than the service closed it; a window waiting for its removal
to be sure, or for the event of it, is gone; a window still to be closed has no row and no "created" event before it; and every window that
was a session's has a row, waits to be closed, or is one of the named cases. So a removal that expires can only forget the pages of a
window the user closed. Until a new run of the browser is connected the first and the last of these say nothing, and `HandleConnected` has to
establish them with what it marks missing and reattaches; that is a proof of its own, as are those of the ends without a
connection, of starts and restarts. Most other actions are one kind of step (`WindowKept`): the windows that appear have ids nobody remembers (`Appearing`),
rows open only for those and for windows the channel told of (`Turning`), and a window that loses its row is recorded or still to be
closed (`Recorded`, `Keeping`). The case of a deletion also needs that the
end under way is of a session that is deleted (`EndsInv`).

### The Chrome script driver: `ScriptDriver`

Chrome tells nothing: the driver reads all windows every 1.5 s and tells what differs. Chrome (`chrome`, `place`, `active`,
`frontmost`) moves freely between the polls; `watch` is the goroutine of Subscribe with its last snapshots (`prev`, `cur`) and the windows that were missing (`removed`); `known` is what the browser service has been told. **QuitIsNotClosing**: a quit, even with a new start before
the next poll, is never told as closed windows, provided that Subscribe has learned the process number and the service could list
the windows. **SettledIsTold**: after two polls with nothing new the service knows exactly what there is, but for what
changed between the first poll and the listing of the service and back (`apart`). Assumed of Chrome: a window number is not used
twice by one process, and a quitting Chrome is not seen by two polls. Chrome may run before the daemon starts. Bounds: two windows,
two tabs, two acts of Chrome after any start (four acts from a Chrome that is down: 1.36 million states, no violation).

Both are proved for any windows, tabs, polls that fail and runs of Chrome: **QuittingIsNotTold**, **SettledChangesAreTold**. While the
driver is subscribed (`Listening`), what it is about to tell as closed was closed by the user as long as this run of Chrome has not
begun to quit (`GoneInv`); `known` is the last snapshot and what that missed (`ToldInv`); and the count of quiet polls says which
snapshots equal Chrome as it is (`QuietInv`). The invariant was checked with four acts of Chrome first (6.6 million states).

### The list and the panel: `SessionPicker`, `DetailPanel`

Messages are handled one at a time; a refresh is any answer of the daemon (hidden sessions last, as `sortSessions` puts them).
**OnlyConfirmed**: archive, delete and repair are sent only for the session and place the user was asked about by the first press,
with no other key and no loss of the selection between. **PanelFollowsUser** (an action property): messages leave the cursor on its item, and
the answer of an overlay applies to the session it was opened for; excepted is an answer that a change of session overtook while it was
in the queue. The list has no budget (its state is finite); the panel has six messages or keys, two sessions, two blockers, a
tab and a pull request each. The panel's sections of pull requests are one; whole-session commands are in SessionPicker.

Proved (`Picker_proofs`), for any sessions, refreshes and keys: **CommandsAreConfirmed**. While a command is armed its prompt is in sight for
just that session and place (`PromptInv`); the panel is armed only when it has the keys, and it shows the session under the
cursor (`PanelInv`): a refresh that moves the cursor would otherwise leave a command armed for a session nobody sees.

**PanelFollows** (`PanelSpec => PanelFollowsUser`), for any sessions, items and answers under way. An overlay, the tab it keeps and every
answer that no change of the session overtook are of the session that is shown (`FollowInv`): a change of the session shuts the overlay,
and a tab that is to be moved was under the cursor. The cursor comes back to its item, or to one of its kind at a place that exists
(`SelectionRestored`): a finite set of numbers has a member at each place (`NumbersHavePlaces`), so the items of a kind are in order.

A difference of words, not of a checked property: the key `r` of the panel opens the progress view without sending
a repair (`sessiondetail/model.go:601`), while README.md:95 describes it as a repair.

## 7. Parts that wait for somebody: run `connections`

### The extension driver: `WebextDriver` implements `RemoteCalls`

`link` is every websocket and how far its `serve` has come, `current` and `generation` are the driver's, `call` the callers with the
channel of each (`box`), `requests`, `answers` and `performed` the wire and the extension. `swap`, `drop` and `failPending` are
separate steps with the signals between them, as the mutex is released there. The extension (`socket`) answers on the websocket it has when
the answer is ready, whichever the request came by (`Perform`): after a replacement the answer to a request of the old one arrives on
the new one, where only the number of the request tells whose it is. `signal`, `events` and `marked` are the two channels and
the set of queued tabs; `sub` is the goroutine of Subscribe.

`RemoteCalls` is the abstract promise to the browser service: a call is asked once, its request performed at most once, an answered
call had *its own* request performed, a failed one may be performed even later. **KeepsPromise** is `Calls!Spec` under the mapping
`asked <- lastId`, `request <-` the number each caller waits for. **NoLostSignal**: the service has been told the truth or will be, although
the channel holds one signal and drops the rest. **ChangeReachesService**: merging `tabs.changed` events loses none.

Bounds: two callers, two websockets, two windows, a channel of one event, three steps from outside (breaks, events, calls). A
replacement, and an answer that comes by another websocket than its request, needs two websockets, a misrouted answer two callers, a
full channel two windows.

Proved (`Connections_proofs`), for any callers, websockets, windows and capacity: **DriverKeepsPromise** (`DriverSpec =>
KeepsPromise`), **NoSignalIsLost**, **ChangesReachService**. The refinement rests on `CallInv`: numbers identify callers
(`Numbered`), and a request is with its caller, on the wire of one connection, or performed (`OnWire`). Every step of the driver then
is a step of RemoteCalls or a stutter (`RefinesStep`). Events rest on `EventInv`: a mark stands for an event in the channel or just
taken out, no generation is ahead of the driver's, and an event of the connection in use is handed over under that generation.

### The attach loop: `AttachSwitch`

Terminals that run `utena attach`, their long polls, the waiters of the multiplexer service with channels of capacity one, and the
attached flags that activations and hooks write. **NeverBlocks** (the publisher holds a lock while it sends), **TurnsOnlyToNews** (a late
answer to a poll of an earlier round moves nobody), **FollowsSwitches** (when all is quiet a terminal shows what was last sent to a
poll of its own; what is published between two polls, or meets a timeout, it never hears of, and that is the code's own
limit). Bounds: one terminal, two sessions, two polls, five steps of people; waiters are independent. Proved for any number of
each (`Connections_proofs`): **ChannelsNeverBlock** from `ChannelInv`, **TurnsToNews** and **SwitchesAreFollowed** from `RoundInv`: a
terminal has one poll at most and none outside a round (`PollsOfRound`, `OutsideIsEmpty`), what is in a channel is news for it
(`News`), and what was sent last is in the channel, received or shown (`Underway`).

### Remote workspaces: `CoderConn`, `CoderSession`

`CoderConn` is one workspace's entry of the connection manager: the lock holder (`work`), the ssh processes with a supervisor each, the
clients. A supervisor tests outside the lock whether its connection is current. **ConnectionIsWatched** is safety: an up connection has
a supervisor waiting, a down one somebody on the way to restart it. **DownIsTriedAgain** is liveness under weak fairness of the
manager's goroutines (a lock holder and a ready supervisor run; ssh and the network have no fairness). Two clients, three processes,
two attempts, four outside events.

`CoderSession` is one session's row with its compare-and-set updates (`UpdateStatusWhere`), the goroutines that create, activate,
archive and delete it under the workspace's lock, the hooks that write a stale row, the poll, and the start of the daemon, which resumes.
**InProgressIsOwned** (but for a status a hook wrote back from an old row, `stale`), **OneFollowerSession** (a creation asked again gives no second remote session), **NoWorkspaceIsLost**
(but for a deletion by force that came before the creation, `overtaken`), and **CreatingSettles** under weak fairness of the workers (goroutines run, and a command or call comes back, if only with an error; a build that hung for ever would be outside of it). Any remote call may fail. Two workers,
two remote ids, four requests. The keepalive token itself, progress and `busy` lines are left out; the poll and the refresh do not overlap (one job).

Proved (`Coder_proofs`), for any number of clients, processes, workers and remote ids: **ConnectionStaysWatched** from `WorkInv` (the
supervisor that holds the lock asks for nothing else meanwhile, and a process that is being started has no supervisor yet, so listing
it ends the one state and begins the other); **InProgressStaysOwned**, **FollowerHasOneSession** and **WorkspaceIsNotLost** from `CoderInv`.
The second needs that no two ids of the follower are known to the row and the workers together (`RemoteInv`): a creation that has not
asked yet knows of none, so what the follower returns is the only live one. The third needs that a worker about to remove the row has no
creation beside it (`LostInv`). Each action is shown to be a `WorkerStep` that satisfies `OwnedStep`, `RemoteStep` and `LostStep`.

### Files and offers: `BundleFiles`, `RestoreOffers`

`BundleFiles` is the row's bundle names beside `.mcp.json` and `settings.local.json`, written by requests, activations, setups and added
workspaces without a lock, and edited by the user. **FilesFollowRow**: when the last writer met nobody and no error the three agree,
and the entries of others are untouched. Two writers, one bundle with a plugin and a server, one entry of somebody else, two outside
steps (two bundles and three steps: 6.9 million states, no violation). Proved for any catalogue and number of writers
(`Records_proofs`): **FilesStayInLine**. The property is about the moment a writer that met nobody ends; the invariant follows such a
writer through its steps (`Undisturbed`): the row is as it wrote it, the files it has passed agree, and the contents it has noted for
the next file are what that file should become. Left out: database errors, the trust in `~/.claude.json`, the multi-session guide, `LinkWorktree` (no caller).

`RestoreOffers` runs the matching on every offer of rows and windows. **MutualBestIsMatched**: a pair that is the strict best of both is
matched. Two rows and two windows over three addresses. Proved for any finite offer (`Browser_proofs`): **BestPairsFindEachOther**. Until its
place comes nothing that touches such a pair is settled, because what touches it scores less and is settled later (`BestIsMatched`); equal scores
of others do not matter, as rivals are those that share the row or the window. Finding *ties* uses two rows, three windows, four addresses: a tie that an earlier tie has settled no
longer counts, so a row with two equal windows is matched although the plan of the feature says it stays unmatched.

## 8. Records and views: the other parts of `rows` and `progress`

**`PRActivity`**: one pull request and two jobs that write columns of its row at the same time, with copies read before the calls to
GitHub. `hub` changes freely; items have growing ids but may become visible late. **EachIsToldOnce**: no item twice, nothing below the
watermarks skipped (but for the cases its comment names), no rollup repeated. Restarts between the write of the row and the publication
are steps. Two outside steps (three: 378 thousand states). Proved for any items, heads and check runs (`Records_proofs`): **NewsAreToldOnce**.
Three places have to agree, the marks of the row, those of the job's copy and what it has noted in between (`CopyInv`, `NewsInv`,
`ToldInv`). An attempt to prove it showed that "a rollup is told again only after it changed" needs the history to count a rollup that was
written to the row and lost by a stop: passed is told, failed is lost, passed is told again, and rightly so. `rollup` records it.

**`GitRecords`**: rows of worktrees and branches beside the repository. `visit` are the four that look at sessions (the job, the hook of
git, an activation, a deletion), each with the rows it loaded earlier; `sync` is the job git.branches. **BranchesAreRemembered** (an action property): a
worktree's row leaves a branch only when that branch is among the session's past branches. Two sessions, three branches, three rows, three outside
steps. Status columns of a branch, `CreateBranch`, `AdoptCheckout` are left out; the cleanup of a deleted session is one step.
Proved for any branches, sessions and rows (`Records_proofs`): **LeftBranchesAreKnown**. The difficulty is again in old copies: a visitor that
writes a whole row back puts the branch of its copy in the place of whatever is there now. `Recalls` says that the branch of every copy is the
one the row still has, or that the later one was noted among the past branches; `Steady` that no step forgets a past branch; and a
number of a row is not used again, so a copy never meets the row of another worktree. `SyncBranch` also adds a row when a branch
without one has a worktree at git's default path (`gitservice.go:482-486`); no session's worktree is there, so that row is left out.
Sessions that share a row are left out of the property (`mixed`): the hook and the jobs record a checkout for one of them only.

**`Workspaces`**: rows, directories and operations in slots (clone, migration to a bare clone) that load and write the row when they end, beside a
handler that writes an older copy; the user fills directories at any time (`UserFills`). **BusyIsAtWork**: a busy row or a line of progress
has its operation, but for rows an old copy made busy (`deserted`). **WorkIsKept**: a tree with the user's work stays, or lies in the backup.
Two directories, two slots, three rows, four requests. Excepted is a tree that came while a clone into its directory was
under way (`late`): finding *clone* is that it is removed. StartClone has looked for the target before the goroutine begins; the clone
is then refused because of the files, which a test requires to leave them, and StartClone removes the target with them.
Proved for any (finite) set of directories, any slots and rows (`Records_proofs`): **BusyRowsAreOwned** with `LinesOwned` (a line belongs to an operation
that removes it) and **UserWorkIsKept** with `OnlyClonesRemove` and `Spared` (no clone runs in a directory that holds such a tree, but for
late ones).

**`ListPolling`**: chains of ticks and answers that overtake each other, and the view of a creation or repair with polls of its own.
**SettledIsShown** is liveness: a list that shows something being made does not stay so when the daemon is done, and the view does not wait on
for a session that is active or broken. A repair may be opened from an old list, requests fail, and the session changes without the
interface (`Turns`). The view ends on active and broken only, as in the code: when the session has become inactive or was archived it polls for ever
and refuses its keys until the picker is parked (`sessionprogress/model.go:126-145`). The property does not claim otherwise, and
neither does a document, comment or test of the repository, so this is a limit of the code and not a finding. Weak fairness of ticks, fetches and handled messages (the runtime of the interface
delivers them); none of the daemon's own work. Two loads and polls under way, two acts of users.

**`SessionForm`**: the form's rows and overlays, and answers of earlier picks, entries and forms in any order. **FormFollowsUser**: what would be
sent is what the user sees and chose last. Two workspaces, two branch names, seven keys (without a bound on keys the same instance is
complete at 6.8 million states, no violation). Proved for any workspaces and branches (`Picker_proofs`): **FormSendsWhatIsSeen**; a branch
the user settled on is marked as picked in its field, which answers leave alone (`SettledStays`), and default bundles were asked for the
workspaces that are picked now (`DefaultsFit`).

## 9. What is only model-checked, and what is not modelled

Liveness (SetupEnds, BackgroundEnds, CallsReturn, EventsAreHandled, StatusSettles, DownIsTriedAgain, CreatingSettles, SettledIsShown) is
TLC's: TLAPS has no rules for fairness here. Every other property that a passing run checks is a theorem.

Not modelled:

* claude sessions: every hook event is one insert or one update of one row, and attention is computed when it is read;
* the leader connection (one address under a mutex), HTTP routing and wiring, window managers and pickers (thin wrappers of external
  programs), disk usage, monitor and shell integration (read-only);
* of the terminal interface: views, styles, and the forms of blockers, clones and new workspaces;
* config.json, which some handlers read, change and write without a lock: one user edits it by one interface at a time;
* the parser of diffs, the follower's HTTP encoding, the keepalive's tokens: conversions no property here is about.
