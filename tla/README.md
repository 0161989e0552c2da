# UDS Labs in TLA+

UDS Labs gives every learner a virtual machine to do a lab in. A learner opens the
catalog, starts a scenario, works through its steps in a page that shows the
instructions beside a terminal, an IDE and the desktop of the VM, has each step
checked by a script in the VM, may pause and resume the lab, and loses it at its
deadline. This directory holds TLA+ models of the parts of the platform that decide
this life cycle, TLC configurations that check them on small instances, and
theorems that TLAPS proves for every instance.

Paths below are relative to the root of the repository.

## 1. Inventory

### Components

| Component | Source | State | Operations |
|---|---|---|---|
| Lab operator | `internal/controller/labsession_controller.go`, `cmd/laboperator/main.go` | none of its own: the LabSession's finalizer and status; informer caches and work queue in memory | `Reconcile` (deletion, finalizer, expiry, pause, resume, convergence), `patchStatus`, readiness probe, watches, delayed requeues |
| KubeVirt provider | `internal/provider/kubevirt/provider.go` | the VMI, DataVolume, Secret, Service, NetworkPolicy, capacity bootstrap Pod, the annotation on the LabSession | `Reconcile` (the ensure functions), `TeardownCompute`, `Teardown` |
| LabSession API | `api/v1alpha1/labsession_types.go` | spec (scenario, client, size, `expiresAt`, `paused`), status (phase, service DNS, completed steps) | none |
| Session manager | `internal/session/manager.go`, `session.go` | a mutex; everything else is in the API server | `Create`, `Get`, `GetActive`, `Delete`, `Expire`, `Pause`, `Resume`, `MarkStepComplete` |
| Lab server | `cmd/labserver/main.go` | none | HTTP handlers for sessions, verification, pause and resume, dashboards, catalog; proxies to the VM |
| Terminal proxy | `internal/proxy/proxy.go` | one pair of WebSocket connections per terminal | `Handler`, `proxyWS` with two copying goroutines |
| In-VM agent | `vm/lab-inject.py` | the backlog of a single-threaded HTTP server | `/verify`, `/cmd`, `/navigate`, `/services`, `/files` |
| Lab page | `web/static/lab.html` | current step, verified steps, buttons, polling and countdown timers, terminal tabs, overview | `pollSession`, `checkStep`, `showStep`, `nextStep`, `pauseLab`, `resumeLab`, `endLab`, `openSetupTerminal`, `addTab`, ... |
| Catalog page | `web/static/index.html` | the active session, the lab being started | `startLab`, `checkActiveSession` |
| Web IDE | `web/ide-src/src/main.js` | the file tree, the open file, its unsaved mark, the bar | `navigateTo`, `loadTree`, fold and unfold, `openFile`, edit, `saveFile` |
| Dashboards | `web/static/csm.html`, `admin.html`, `adminCSM` | none | grouping sessions by user, step durations |
| Scenario preview | `cmd/scenario-preview/main.go`, `internal/preview/preview.go` | a workspace, a tmux session and its paste buffer | commands, verification, editing |
| Scenarios, catalog, sizing, cloud-init | `internal/scenario`, `internal/sizing`, `internal/cloudinit`, `internal/operator/config.go` | none | load, validate, render |
| Identity | `cmd/labserver/main.go` | a cookie or token | pure functions of a request; `clientID` draws a cookie |
| Packaging, scenario contents | `chart/`, `zarf.yaml`, `tasks.yaml`, `scenarios/` | none | none |

### How they interact

- The lab server and the operator never talk to each other. The server writes a
  LabSession's spec (and, in `MarkStepComplete`, one list in its status) with merge
  patches; the operator reads it through an informer cache that lags behind, and
  writes finalizers with `Update` and status and annotation with merge patches.
- The operator creates and deletes Kubernetes objects; KubeVirt, CDI and the
  scheduler act on them at their own pace; the operator learns about VMIs from a
  watch and about Pods, nodes and ttyd only when it looks again.
- The lab page polls the lab server every four seconds, whether or not the last poll
  has been answered, and sends checks that the server forwards to the agent in the VM.
- The agent handles one request at a time; the server gives up on it after 35 seconds,
  the agent kills a script after 30, and a script still runs when nobody waits for it.

### What is hard

- *Stale copies.* A reconciliation may start from a LabSession that the server, or the
  operator's own last patch, has already changed. A merge patch writes the fields that
  changed against that copy and leaves the others alone.
- *Partial failure and restart.* A teardown or a convergence may stop after any of its
  calls, and the process may restart between any two, with its queue and timers lost.
- *Interleaved intents.* Pause, resume, expiry, deletion and the deadline come while
  the operator is in the middle of something else.
- *Progress.* Only some changes are watched. Whatever is not must be covered by a
  delayed requeue.
- *Check-then-act.* `Create` lists before it creates, `MarkStepComplete` reads a list
  before it replaces it; several processes, pages and requests do so at once.
- *Timeouts that do not cancel.* A check that was given up is still run.
- *Answers out of order.* The callbacks of the page's requests run in any order, and
  look at variables of the page that have changed since the request was sent.

### What makes each component correct

- Operator: what it reports is true (Ready is backed by objects and a VM, Paused has let its
  compute go, Expired is torn down); the disk goes last and only at the end; ended,
  deleted and paused sessions get there; sessions that are to run become Ready.
- Session manager: never more active sessions than the capacity, one per client.
- Verification: records are evidence, unique, in order, and none is lost.
- Lab page: it opens one terminal by itself, does not stop following its session without a
  reason, and leaves at the deadline; one tab or the IDE is shown, and a tab's buttons act on it.
- Dashboard: a row shows the session that got furthest, and who is called graduated has
  passed every step.
- Web IDE: no file gets the text of another; the unsaved mark and the Save button tell the truth;
  the tree lists what is in a directory, once, and marks the open file; the bar names it.
- Terminal proxy: messages stay in order, and when one side ends everything ends.
- Preview: no command is typed twice, a success is one, and so is a verdict.
- Catalog page: a tab is led only to the learner's own lab, or to one that is gone, as long as
  their browser has been one client only.

## 2. Modules

| Module | Models | Run by | Proofs |
|---|---|---|---|
| `SessionLifecycle` | what the operator promises of a session (abstract) | `OperatorLifecycle` as the property | |
| `LabOperator` | operator and provider, with API server, caches, queue, KubeVirt | `Operator*` | `LabOperator_proofs`, `LabOperatorReports_proofs` |
| `SessionManager` | admission in `Create`, with the ends of sessions | `SessionManager` (through `MCCatalog`) | `SessionManager_proofs` |
| `Catalog` | the catalog page in the tabs of a browser, `createSession`, `getMySession`, `GetActive`; extends `SessionManager` | `SessionManager` (through `MCCatalog`) | `SessionManager_proofs` |
| `StepChecks` | check button, `verifyStep`, the agent, `MarkStepComplete` | `StepChecks*` (through `MCStepChecks`) | `StepChecks_proofs` |
| `Dashboard` | `adminCSM` and the summary of `csm.html`, on the records of `StepChecks` | `StepChecks` (through `MCStepChecks`) | `StepChecks_proofs` |
| `LabPage` | polling, setup terminal, countdown, pause, resume, end | `LabPage` (through `LabTabs`), `LabPageResume` | `LabPage_proofs` |
| `LabTabs` | terminal tabs, the IDE beside them, clicks on commands; extends `LabPage` | `LabPage` | `LabPage_proofs` |
| `Editor` | opening and saving in the Web IDE, with `ideFileProxy` and the agent's `/files` | `WebIDE` (through `MCWebIDE`) | `Editor_proofs` |
| `FileTree` | `navigateTo`, `loadTree`, folding, the mark of the open file | `WebIDE` (through `MCWebIDE`) | `Editor_proofs` |
| `WebIDE` | the page as their composition, and the bar; extends both | `WebIDE` (through `MCWebIDE`) | `Editor_proofs` |
| `FileNames` | `fileIcon` and `getLang`, two tables on a file's name | `WebIDE` (an assumption of `MCWebIDE`) | |
| `TerminalProxy` | `proxyWS` with the handlers that lead there | `TerminalProxy` | `TerminalProxy_proofs` |
| `Preview` | `runCommand`, `Verify`, `putFile` and the page of the scenario preview | `Preview` (through `MCPreview`) | `Preview_proofs` |

The `MC` modules add what only TLC needs: symmetry sets over model values, the sessions of others
that the dashboard lists, the checks of the previewed scenario, the entries of the directories, and the
names on which the two tables of `FileNames` are compared.

Modules that extend another one keep its actions and conjoin their own state to them: a step of
`Catalog`, `LabTabs` or `WebIDE` is a step or a stutter of the module below. That is proved
(`CatalogIsManager`, `TabsAreThePage`, `PageIsEditor`), so what is proved of the module below holds of
the composition.

### LabOperator and SessionLifecycle

State. `labsession` is the object in the API server, `cache` the informer's copy and
`events` the versions in between: the cache moves through every version in order, so
it is never ahead and may be behind by `MaxLag`. `vmi`/`vmiSeen` and `pod`/`podSeen` are
the VMI and the bootstrap Pod with the informer's copies; `objects` are the others, which
have no life of their own, and `objectsSeen` which of them the informers show, as far as their
copies may lag (`Lagging`; the copies of the rest are up to date at once). `queued` and `timer` are the work queue: a key in the queue,
and the earliest delayed requeue (`"short"` for the ones of seconds, `"expiry"` for the
one at the deadline); controller-runtime's delaying queue keeps the earlier of two.
`step`, `goal`, `ls`, `current`, `result` are the program counter and the local variables
of the one reconciliation that can be under way for a key.

Actions. `Begin*` is the part of `Reconcile` from the cache read to the first API call,
one action per branch; then each API call whose effect depends on what others do
meanwhile is a step (`AddFinalizer`, `TeardownCompute`, `ClearCapacity`,
`ConfirmStopped`, `TeardownDisk`, `RemoveFinalizer`, `PatchExpired`, `PatchResumed`,
`Bootstrap`, `MarkCapacity`, `Ensure`, `Observe`, `PatchStatus`). A run of blind
deletions, or of creations, is one step that may also stop after any of them
(`TeardownComputeFails`, `EnsureFails`); any other call may fail without effect
(`CallFails`). The ensure functions are `CreateOrUpdate`, whose read goes to the informers' copies: what a copy
shows is not created, though it may be gone; what it hides is created, which fails if it is
there; and an update of what is gone fails too (`Conflicts`, `EnsureConflicts`). Only the Secret and the Service
are updated whenever they are found, since they never read back as they were written (`Rewritten`).
What a stale copy has passed over is created once its watch reports (`ObserveObject`: the
controller owns these kinds). Deletions read no copy. A merge patch is computed as in the code: the fields in which the new copy
differs from the old one. `Update` of finalizers fails unless the copy is current.
`Restart` loses queue and timers and fills the caches anew; the configuration (scenario
content, golden PVCs, templates) may be complete or not afterwards, and incomplete
configuration is reported as Failed.

Left out: `status.message`, which follows from the rest and decides nothing but whether
a patch is sent; the contents of objects; the ports of NetworkPolicies; names.

`SessionLifecycle` has two variables, the verdict on a session and what it holds
(compute, exposure, disk). `LabOperator` implements it under the mapping given in
`Lifecycle`: a VMI that is being deleted no longer counts as held (`LetGo`), although KubeVirt may still be
stopping its guest.

### SessionManager

`Create` holds a mutex from its LIST to its CREATE, so within a process the two are
atomic towards other calls of `Create`, but not towards anything else, and not towards
another process: during a rollout two run. `Admit` is the listing with both decisions,
`CreateSession` the creation. Sessions end (`Ends`: by the clock or by `Expire`), are
reported as Failed and recover, are reported as Expired and are deleted in between.
`"Provisioning"` stands for every phase up to Ready, since nothing in `Create` tells them
apart. `hadFailed` is a history variable.

### Catalog

`page` is what each tab shows: the catalog, with the `activeSession` it was told of, or the lab page of
`lab`. `request` holds the fetches: sent, creating (admitted by a server, before the session exists),
answered. A request carries the cookie it was sent with, and `clientID` draws a client for one that has
none: `draws` is the cookie its answer sets, which happens before the page's callback runs. A page that
is left forgets its fetches, but the server completes them (`Leaving`). `cookie` is the browser's,
or the learner's e-mail when there is an authservice; `drawn` is a history variable, the clients this
browser has been. Other learners use `Create` at the same time (`ServeOther`). The IDs are random
UUIDs: one that the browser knows is not drawn again.

### StepChecks

A page shows `current`, holds the set of `verified` steps, and has two buttons. `Check` is
`checkStep` up to the request to the agent, for the step the page shows by then. `jobs`
is the agent's backlog, in order, with the call that waits for each (None once the server
has given up). `RunScript` runs the head: it passes only if the step is `done` then. Then
`MarkGet` and `MarkPatch` are the read and the write of `MarkStepComplete`, between which
anything may happen; `MarkFails` is an error, which is logged while the learner is told of
a pass. `Passes` and `Refuses` are the callback in the page, which credits the step the
page shows *by then*. A page that is left or reloaded (`Leave`) forgets what it knew and
cancels its requests. `told` and `exited0` are history variables.

### LabPage

Every poll is unused, asked, or carries an answer; `HandleAnswer` is the callback, run in
any order. `polling` and `ticking` are the two intervals. The session moves by itself
(`SessionComesUp`, `SessionPaused`, ...), the learner ends, pauses and resumes the lab.
An error of the API server is answered with 404; a fetch that fails raises in the
callback and leaves the interval running (`LosePoll`). `Leave` is what `endLab` and `pauseLab` do before
their request is sent: they clear the intervals. Until it is answered or fails (`GoBack`) the
callbacks of polls in flight still run, and the first answer of all starts the countdown even then
(`expiresAt`, `ticking`).

### LabTabs

`tabs` is the list of terminal tabs with what each shows and which number its button was given
when it was made or last renumbered; the code counts from 0, the model from 1. `activeTab`, `ideOpen` are
the page's variables and `tools` says whether the buttons were enabled. `Click` is everything the
learner may click on; `TerminalReached` and `Handle` are the two places where `LabPage` touches the
tabs, and everything else of `LabPage` leaves them alone.

### Dashboard

Operators on a list of sessions, one of which is the session whose steps `StepChecks` checks; the
others come from `Listings`, in every order that the configuration names. `BestAfter` is the loop of
`adminCSM` over the sessions, a recursive function of how far it has come: `Challenge` is one turn of it, `Better` its
comparison. `Cell` is the loop over the steps, `Summary` the label of `csm.html`. A record there is no more
than its position; that is why its meaning rests on `RecordedOnce` and `RecordedPassed`.

### Editor

A fetch of the page is free, sent, or answered; `Opened`, `Saved`, `OpenFailed` and `SaveFailed` are
what comes after the `await`, in whatever order the answers come. `GetFile`, `PutFile` and
`PutFileFails` are the agent's handlers, `RequestFails` and `AnswerLost` what may happen on the way.
A text carries the file it was read from and the number of its edits. `hasty` is a history variable:
the learner did something the unsaved mark does not survive in the code (see the list of
disagreements).

### FileTree, WebIDE and FileNames

An item of the tree is in a container: the tree itself (`Top`) or the container of the directory item
above it. `loadTree` appends to the container it was called with, so a load whose container has been
cleared away fills something that is no longer in the page (`Detached`). `Entries` and `TopEntries` are what the
agent lists and what is shown of it at the top, where `ROOT_NOISE` is left out; that the second is the
first without the noise is an assumption. A load that would bring more than `MaxItems` items is not modelled; that
guard of `Listed` is the bound on the tree. `doubled` is a history variable: a
container got a second load before its first had come back. `WebIDE` joins tree and editor: a click
on a file opens it, `openFile` ends with the mark in the tree and the bar. `bar` is what the last `updateBar`
has shown. `FileNames` holds the tables of badges and languages; `BadgeFixesLanguage` says that files with
the same coloured badge open in the same language.

### TerminalProxy

`handler` is the place of `proxyWS`; `cp` and `held` are the two goroutines with the message each
is about to write; `errc` counts the errors in the channel, whose capacity is `Reports`. `conn` is the
relay's end of each connection, `peer` the other end, `inbox` and `outbox` the messages in between, of which
a connection holds `Window`. `Dial` comes with the status rule of `proxyToVM`. The defers of
`proxyWS` are `CloseAll`. A peer may close at any time, and what is on its way may be lost with it.

### Preview

One variable per tmux resource: `buffer` is the paste buffer that all commands share, `line` what was
typed and still waits for an Enter; `run` holds for each command how far its handler is and which
command its paste typed. Each tmux command takes effect at once in the tmux server; a run may fail
before or after it (`RunFails`), because its five seconds end or tmux reports an error. `Verify`
reads one file per step of the model; `Truncate` and `WriteFile` are the two halves of
`os.WriteFile`; `Shell` is the terminal, which writes and removes files. Neither button waits for
the request before, so `Saves` and `Verifies` are the saves and checks that may be under way at the same time. `calm` is
a history variable, of each check and of the one whose verdict is shown: nothing was written and no other
step shown since it was asked for.

## 3. Runs

Passing runs:

| Run | Instance | Shows |
|---|---|---|
| `OperatorConverging` | 2 pauses/resumes, lag 1, a NetworkPolicy whose copy lags | types; `ReadyIsBacked`; `ResumeConverges` |
| `OperatorLifecycle` | 1 request (pause, expire, delete) and the deadline, 1 failed call, 1 restart, lag 1 | `PausedIsLetGo`; `ExpiredIsTornDown`; the operator implements `SessionLifecycle` |
| `OperatorEnding` | the same inputs, no failure | `PauseConverges`, `ExpiryEnforced`, `DeletionCompletes` |
| `SessionManager` | 2 clients, one of them somebody else, 4 IDs, 2 processes, capacity 2, 1 tab, 1 request | types; `CapacityBound`; `PerClientBound`; `LedHome` |
| `StepChecks` | 2 steps, 1 page, 2 calls, 2 jobs, clock 0..1, 1 failure, 1 stop of the VM; 2 listings of other sessions | types; `RecordedOnce`, `RecordedInTime`, `RecordedPassed`; `RowShowsFurthest`, `GraduatesPassedAll` |
| `LabPage` | 2 polls, 1 pause, 1 failure, 3 tabs | types; `OneSetupTerminal`, `GivesUpInformed`, `PollingInforms`, `LeavesAtDeadline`; `OneShown`, `ButtonsFollow` |
| `WebIDE` | 3 directories with an entry each that is shown, and one at the top that is not, 2 files, 2 requests and 2 loads of which 2 at a time, 1 edit, 2 items | types; `FilesKeepTheirText`, `ButtonComesBack`, `UnmarkedIsSaved`; `ListedOnce`, `OwnEntries`; `ActiveIsOpen`, `MarkIsShown`; the names assumption |
| `TerminalProxy` | 3 messages each way, 2 in a connection | `RelayedInOrder`, `ReportsNeverWait`, `EndsTogether` |
| `Preview` | 2 commands, 2 files, 2 steps with 3 checks, verified twice at a time, 1 save at a time | `TypedOnce`, `SuccessIsEntered`, `VerdictStands` |

The types of `TerminalProxy` and `Preview` are theorems; the runs leave them out.

Why the bounds are enough. One failure or restart can fall between any two calls, after
any prefix of a series, and the operator keeps nothing across reconciliations but the
cluster and the LabSession, so a second one starts from a state the first could have left.
Three requests are the fewest in which a pause follows a resume that follows a pause,
which is what `OperatorPausedRunning` needs; `OperatorConverging` asks about a session that is
to run, and a pause that a resume takes back is all it takes to tear down under a convergence. A lag of
one version lets every decision be made on a copy that is outdated. One object whose copy lags is enough for
what a stale copy passes over: it is the NetworkPolicy, which is ensured last and not updated when it reads back as
wanted, so that nothing fails and the session may be reported as Ready without it; in `OperatorPausedRunning` the Service's
copy lags as well, whose update fails. The other two runs are about ends and pauses, whose deletions read
none of these copies (`Lagging = {}`); the theorems are for any set. Four session IDs are one more than two
processes can have active at capacity 2. Two calls and two records are enough for any pair of checks
to overlap, which is the only way records meet; two polls for any pair of answers to
overtake one another. Three tabs, of the `MAX_TABS` of 4 in the code, are
enough to close one between two others and to be at the limit; `ButtonsFollowTabs` and `OneTabShown` are for any number. One tab and one request suffice for
`Catalog` to be led somewhere by each kind of answer; several of them are covered by the theorem
`TabsAreLedHome`. Two fetches of the Web IDE are enough for any two answers to come in the wrong
order, be they of the tree or the editor, and one edit of each file for texts
on the disk and in the editor that differ (`TextsStayHome`, `ButtonReturns`, `UnmarkedIsOnDisk` and `BarIsTrue`
hold for any number). Two items hold a directory and the file in it; more would let the same directory
be listed beside itself only when it is loaded twice at a time, which `ListedOnce` leaves aside, and
`DirectoriesListedOnce` is for any number of items and any listings. Three messages and a window of two fill a
connection with one message held and one unread. Two commands are enough to replace a buffer, two files
for a verdict that mixes two moments, and two checks for answers that overtake one another. The theorems of section 5 hold without bounds.

`PausedIsLetGo` and `PauseConverges` are checked without resumes, and fail with them:
that is the finding `OperatorPausedRunning`. `EachPassRecorded` fails for two checks at a time:
`StepChecksLost`. For each of the three findings a theorem says how far it reaches: `PausedReportedDown`
(the report itself follows a teardown, resumes or not), `EachPassIsRecorded` (with one check at a time nothing is lost) and
`NothingReconnects` (every page that has given up stays as it is).

`CHECK_DEADLOCK FALSE` is set for `LabPage`, where a page that has been left stops for
good. In `LabOperator` the end of a deleted session is the explicit action `Finished`,
so any other stop would be reported.

Runs that show a disagreement between the code and what is said about it:

| Run | Said | Found |
|---|---|---|
| `OperatorPausedRunning` | `internal/provider/provider.go:38`: Paused is not reported "while compute is running" | pause, resume, pause: a Paused patch overtakes the resume, a stale copy brings the VM up again, and the second pause finds the phase already Paused and does nothing |
| `StepChecksLost` | `api/v1alpha1/labsession_types.go:66`: "CompletedSteps records each step that has passed verification" | of two checks that overlap, the later patch replaces the list the earlier one wrote |
| `LabPageResume` | `web/static/lab.html:774`: "Poll will re-enable terminal when VM is ready" | the poll that showed the session as paused has ended the polling, and nothing starts it again |

Further disagreements seen while modelling, for which no run is kept:

- `internal/controller/labsession_controller.go:139`: `CONTEXT.md:100` says that a paused session
  "continues toward Session Expiry". An earlier requeue swallows the one at the deadline, and `Reconcile`
  returns for a Paused session without another; a restart after which the session is skipped has the same effect.
- `internal/provider/kubevirt/provider.go:215`: `:201`, `internal/controller/labsession_controller.go:109` and
  `internal/provider/provider.go:38` say that a session is reported as Paused only after its VMI no longer
  exists. The lookup goes to the informer's copy. A VMI that was created and has not been observed when a
  pause tears it down is taken for absent: Paused is reported while it is still terminating.
  `PausedIsLetGo` and `PausedReportedDown` say what does hold.
- `internal/provider/kubevirt/provider.go:241`: `internal/provider/provider.go:33` says that "Teardown
  removes everything Reconcile created"; the user-data Secret stays.
- `internal/provider/kubevirt/provider.go:349`, `:444`: the annotation that marks a
  bootstrapped node is tested on the reconciliation's copy. A stale copy lets it survive a
  pause, so that the resume skips the bootstrap, or has a second bootstrap Pod created,
  which stays beside a Ready VM. `LabOperator` reaches both.
- `internal/session/manager.go:73`: a Failed session does not block its client and may
  recover; the client then has two. `PerClientBound` leaves such sessions aside.
- `internal/session/manager.go:69`: a session stops counting at its deadline, before its VM
  is gone, so for a while more VMs run than `MAX_ACTIVE_SESSIONS`, of which
  `README.md:232` says that it is the "Number of lab sessions/vms that can be run at a time".
- `internal/session/manager.go:173`, `:185`: `GetActive` goes by the phase and offers a session whose
  deadline has passed until the operator reports it, although it is said to return a "non-expired"
  one. Nor does it offer a Failed one, which may recover.
- `cmd/labserver/main.go:896`: `clientID` is called stable, but two requests that a browser
  without a cookie has under way get two clients (`:908`); the last answer's cookie wins, and a
  session of the other can be reached by its link only. `LedHome` leaves this aside (`drawn`).
- `cmd/labserver/main.go:568`: `MarkStepComplete` runs under the request's context: a page that is
  left after the script has passed and before the record is written loses the record.
- `CONTEXT.md:103`, `:110` say that the catalog offers no way back to a session; the banner does.
- `web/static/lab.html:697`: `checkStep` credits the pass to the step shown when the answer
  comes (`Passes` in `StepChecks`); `:731`: the dots lead past steps that have not passed.
- `cmd/labserver/main.go:296`: the dashboard takes the i-th record for step i, although
  steps may be passed in any order, so that a cell's title and duration may be another step's. `:335`:
  its number of users counts sessions. `web/static/csm.html:378`: a row whose sessions are all over and
  that has passed some steps is labelled "Not started".
- `web/ide-src/src/main.js:185`: an edit made while a save is under way is marked as saved; `:156`,
  `:185`: so is the file opened during a save. `:163`: opening the file that is open raises, since
  its model exists, after the unsaved mark was cleared and before the bar is told.
- `cmd/scenario-preview/main.go:294`: of two commands at a time, one may be typed by the request of the
  other, which then reports success, while its own reports a failure; the replaced one is never typed.
- `cmd/scenario-preview/static/index.html:93`: the file chosen is the current one before its text is loaded; a
  save in between, or after a load that failed (the file was removed in the terminal), writes the
  text of the file before into it. `:95`: a verdict is shown with whichever step is on display by then; and
  the button stays enabled, so that the answer of an earlier check may come last and replace a later verdict.
- `web/static/lab.html:488`: the lab is unlocked before the first terminal tab exists; a
  click on a command then raises an error. `:486`, `:487`: the command is to be typed where "the user sees the
  injection", but the IDE stays in front when the first tab is already the active one, and after
  Terminal 1 is closed the first tab is another shell.
- `web/static/lab.html:421`: the first answer starts the countdown even while the page is being left, after
  `endLab` or `pauseLab` has cleared the intervals; a deadline that falls into this moment ends a lab that is
  being paused.
- `web/static/lab.html:450`: two answers that find the session ready start two services polls.
- `web/ide-src/src/main.js:56`: a second `navigateTo` before the first listing has come clears an empty tree,
  and both listings end up in it; `:96`: a directory that is folded and shown again while it is loaded gets
  its entries twice (`doubled` in `FileTree`).
- `internal/proxy/proxy.go:89`: no deadline for writing (see Fairness).
- `cmd/laboperator/main.go:83`: no leader election, so that a rollout has two operators for a while.

## 4. Fairness

`LabOperator`: weak fairness of the worker (controller-runtime runs a worker for as long as
a key is queued), of the watches (informers deliver, those of each owned kind too), of the delayed requeues (timers fire; the
one at the deadline only once the deadline has passed), and of what KubeVirt and the
scheduler do with an object they were given (start a VMI, finish a deletion, schedule the
bootstrap Pod, boot the guest). Nothing is assumed of the informer's periodic resync,
which comes after hours, of failures, of requests or of the deadline: liveness must not
rest on them. `VMIFails` is not excluded, so `ResumeConverges` allows for a failed VM.

`LabPage` and `LabTabs`: the browser runs its timers and callbacks, requests are answered or fail, and a session that
is neither paused nor over comes up. The learner has to do nothing.

`TerminalProxy`: the Go scheduler runs the goroutines, and an end that is still there reads what it is
sent. The code has no deadline for writing, so this is an assumption about the ends: a browser that
stops reading and does not go away holds up a goroutine. Nobody has to send or to close anything.

`SessionManager`, `Catalog`, `StepChecks`, `Editor`, `FileTree`, `WebIDE` and `Preview` state safety only.

## 5. Theorems

All theorems are for arbitrary values of the constants, under the named assumptions of the
modules (`BoundsAssumption`, `ManagerAssumption`, `StepsAssumption`, `PageAssumption`,
`EditorAssumption`, `ProxyAssumption`, `PreviewAssumption`, `CatalogAssumption`, `TabsAssumption`,
`TreeAssumption`, `IDEAssumption`, `DashboardAssumption`), which say that bounds are natural numbers, that sets of processes, IDs
and polls are finite, that the checks of a previewed scenario are of its steps, that files are no
directories, that listings are lists of what they are said to list, and that the model value None is none of the
others. Two theorems say more, in their statement: `PausedLetGo` (no resume among the inputs) and
`EachPassIsRecorded` (one check at a time, no failure of the API server).

| Module | Theorem | Argument |
|---|---|---|
| `LabOperator_proofs` | `TypeCorrect` | one step per action |
| | `EndingIsInvariant`, `ExpiredTornDown` | below |
| | `LetGoIsInvariant`, `LifecycleImplemented` | below |
| | `OverHoldsNothing`, `SessionsEndInOrder` | what `SessionLifecycle` promises, carried over by the refinement |
| `LabOperatorReports_proofs` | `CopyIsInvariant`, `ReadyIsInvariant`, `ReadyBackedWhenSettled` | below |
| | `PauseIsInvariant`, `PausedLetGo`, `PausedReportedDown` | below |
| `SessionManager_proofs` | `TypeCorrect`, `CountsAreInvariant`, `CapacityIsBounded`, `ClientIsBounded` | below |
| | `CatalogIsManager`, `CatalogStaysInBounds` | every step of `Catalog` is one of `SessionManager` or a stutter |
| | `HomeIsInvariant`, `TabsAreLedHome` | below |
| | `CatalogTypeCorrect` | one step per action |
| `StepChecks_proofs` | `TypeCorrect`, `ListsAreInvariant`, `RecordsAreOnce`, `RecordsAreInTime`, `RecordsAreEvidence` | below |
| | `EachPassIsRecorded` | with one call the copy that is patched is the list there is, until it is replaced |
| | `RowsShowFurthest`, `GraduatesHavePassed` | below |
| `LabPage_proofs` | `TypeCorrect` | one step per action |
| | `OneTerminal` | `terminalOpened` is set before the first loop starts and never cleared |
| | `GivesUpOnlyInformed` | an action property: only a handled answer or leaving ends the polling |
| | `NothingReconnects` | an action property: no action sets the interval again |
| | `TabsAreThePage` | every step of `LabTabs` is one of `LabPage` or a stutter |
| | `OneTabShown`, `ButtonsFollowTabs`, `TabsTypeCorrect` | below |
| `Editor_proofs` | `TypeCorrect`, `TextsStayHome`, `ButtonReturns`, `UnmarkedIsOnDisk` | below |
| | `PageIsEditor` | every step of `WebIDE` is one of `Editor` or a stutter |
| | `BarIsTrue` | every change of the path, and every file that becomes unsaved, is followed by `updateBar` in the same step; the converse needs a patient learner (`PatientInv`) |
| | `DirectoriesListedOnce`, `EntriesAreTheirOwn`, `IDETypeCorrect`, `MarkedIsOpen` | below |
| `TerminalProxy_proofs` | `TypeCorrect` | one step per action |
| | `NoReportWaits` | each goroutine reports once: the errors in the channel and the goroutines that still run are two at most |
| | `Ordered` | below |
| | `NobodyIsForgotten` | an ended goroutine has left its error in the channel, which only the returning handler empties, and that closes both connections |
| `Preview_proofs` | `TypeCorrect` | one step per action |
| | `NothingTypedTwice`, `SentIsEntered`, `VerdictsStand` | below |

*A session reported as Expired is torn down.* Not inductive by itself: the patch that
reports it comes last in a teardown of several calls, during which others write the
LabSession. `EndingInv` adds: every copy (API server, events, cache, the reconciliation's)
that says the session has ended is right, and an end never goes back (`EndIsKnown`,
`DueStays`); a reconciliation that converges started from a copy that had not ended, and no
Expired version precedes it (`ConvergesUnexpired`); and at each step of a teardown for the end, what
the steps before it remove is gone (`TeardownProgress`). So nothing brings objects back between the
teardown and the report, nor afterwards, whatever fails, restarts or overlaps.

*The operator implements `SessionLifecycle`.* The steps that create map to `Acquire`, those that tear
down to `Release` and `DropDisk`, the report of an end to `Report`, by `EndingInv`. What remains is the end
of a deleted session: `LetGoInv` says that nothing is held without a finalizer, that no version in the cache or on its way calls for anything to be
created once the finalizer is gone, and that a reconciliation about to remove it saw the last version
there is if its copy is current. The last point is what the optimistic `Update` buys: it fails unless the copy
is current, so no pause, resume or expiry can come between the teardown and the removal.

*Ready is backed.* The property speaks of a moment at which nothing is left to do or to observe, so what has to be
kept is that until then somebody will still look: `ReadyBacked` says that a session reported as Ready is backed,
as far as the informer has seen, or attended to (its key is queued, a short timer runs or a version of it is on its
way). The hard part is a reconciliation that ends without writing anything, because what it would report is in
its copy already: then nothing wakes the operator again, and the report had better be of the
session as it is. That is `CopyInv`: the copy of a reconciliation is the LabSession, unless a newer
version is on its way to the informer or has put the key back into the queue. `ReadySeen` and `EnsuredHeld`
carry what a reconciliation has seen of the VM and has ensured of the objects to the moment of its report. What it has
ensured is there or is shown by a stale copy (`Held`), and a copy does not change without the key being queued: once
all copies are right, so is what was ensured by them.

*Paused is let go, if nobody resumes.* `PauseInv`: the wish to pause is in every version after the first that has it
(`PauseStays`), the informer has seen it before anything acts on it (`PauseIsKnown`), and whoever creates something
works on a session that has not been reported as Paused (`ConvergesUnpaused`). A resume breaks the first part, and with it the
property; what remains for any inputs is the action property `PausedReportedDown`, which needs no more than the
lookup and that the teardown before the report has been done (`EndingInv`), since nobody but the worker creates anything.

*Capacity.* `Cardinality(Active)` alone is not inductive: between LIST and CREATE a session is
decided on but not there. `CountsInv` counts each process that has decided as the session it
may create; with at most one per process, the sum stays within the capacity plus
the other processes. The count per client has the same shape.

*Led home.* `LedHome` looks at pages; what keeps it is `HomeInv`: every client that a request comes from or is
given is one the browser has been (`drawn`), which is never another learner; every request that
is creating a session holds a mutex of its own, so what it is answered is what it has created; and a session
that any page or request knows of is the browser's own, or gone. `drawn` only grows; as long as it is no more
than the cookie, the session is the cookie's.

*Records.* `ListsInv`: `records`, and every copy of it that a `MarkStepComplete` under way holds, is
a list without repetition and ordered in time; a copy does not contain the step about to be
appended and was read no later than the time to be recorded. Whichever patch wins, the list it writes
is well formed. `EvidenceInv`: a call past the agent's answer, and every record in any copy, is for a
step whose script has passed.

*The dashboard.* The loop of `adminCSM` is a recursive function over the list. What the provers cannot do is instantiate
an induction theorem with an operator; but as a statement about sets induction is a consequence of the
well-foundedness of the natural numbers (`LeastNatural`, `Induction`), and with it `LoopFindsBest` is proved for lists of any
length: after m sessions the loop has the best of the group among them. `RowsShowFurthest` follows, whatever the
order of the list, because `Better` compares by steps first and by activity second. `GraduatesHavePassed` joins it with the
records: N records of different steps are records of all steps, since an injection of 1..N into itself is
onto (`NRecordsAreAllSteps`), and each is evidence.

*Texts.* `FilesKeepTheirText` speaks of the disk and of saves under way. What keeps it is `PairedInv`: the
editor's text is the current file's, because path and text change in one callback, and an answer
carries the text of the file it was asked for; `TextInv` adds that there is a text where one is used.

`ButtonReturns`: a button is disabled only while a save is in flight. `UnmarkedIsOnDisk` holds for a learner
who waits for the answer (`hasty` is FALSE). `PatientInv`: then at most one request is in flight, a
save carries the text of the editor and is for the open file, which counts as unsaved until the answer, and an
open is for another file.

*Tabs.* `TabsInv` adds to the two properties that `activeTab` is one of the tabs there are; `Switching` shows once
that `switchTab` keeps it whatever the tabs have become, which is used for adding, closing and clicking.

*The tree.* `ListedOnce` and `OwnEntries` look at the items; `TreeInv` adds the loads under way. A load that is to fill
a container of the page is for the directory this container belongs to, even after the tree was cleared,
because clearing detaches the loads below the top; an item is only ever in a container of the page; and as long as none
is loaded twice at a time (`doubled`), a container with a load under way is empty and no other load is for it. So what a load
appends is either for nobody or the first listing of its container. `MarkedIsOpen`: the marks are of items
that are there, with the path of the open file, and items keep their path as long as they are there.

*Order.* `RelayedInOrder` speaks of what has arrived. `OrderInv` speaks of the whole way: received, in the outgoing
connection, held, in the incoming one, and sent, each part following the one before. A part that is lost is
never followed by anything, because what lost it has ended a peer or the goroutine.

*Commands.* `BufferInv`: a command that is in the buffer or has been typed belongs to a run that has
loaded it, and no command is in both places; since loading replaces the buffer and pasting empties
it, a command leaves it once at most. `EnterInv` needs that: what a run has typed leaves the line with its own
Enter, and comes back into it only if somebody types it again.

*Verdicts.* `VerdictInv` speaks of each check under way: as long as nothing has moved since it was asked for, it is
of the step on display, and what it has read so far agrees with the files; when it has read the last one, that is the
verdict, whichever other check is answered before or after.

Every safety invariant and every action property that a run checks is also a theorem. Checked by TLC only: the
liveness properties (`PauseConverges`, `ResumeConverges`, `ExpiryEnforced`, `DeletionCompletes`, `PollingInforms`,
`LeavesAtDeadline`, `EndsTogether`), since fairness and `ENABLED` are out of the prover's reach; of
`EndsTogether`, `NobodyIsForgotten` proves what no fairness could make up for. So is `BadgeFixesLanguage`, a finite table.

## 6. Not modelled

Message texts, object contents, names, sizes, ports and templates; identity and ownership, except the cookie
that `clientID` draws; loading and validation of scenarios, whose success or failure is the state `configured`;
the VNC panel, the services list and the overview carousel of the lab page; how the server types a clicked command
into tmux, by two calls that two clicks may interleave (`Preview` models the same scheme in another
program); the pages of other learners in `Catalog`; the cookies of answers whose page is gone; the textarea of the
preview; the text of the save status; the rendering of dashboards and catalog; packaging. One session,
one worker and one operator process: sessions share no state in the operator but the queue.

`web/static/ide-assets` is what the bundler makes of `web/ide-src/src/main.js` and the Monaco editor; the
model is of its source. Most of `main.js` is modelled; what is not sets up Monaco or builds markup.

## 7. Plan

The order follows how much of a learner's lab depends on the component. Done:

1. `LabOperator` with `SessionLifecycle`: the life cycle of a session.
2. `SessionManager`: admission.
3. `StepChecks`: verification and its records.
4. `LabPage`: following a session; `LabTabs`: its terminals and the IDE.
5. `Catalog`: `startLab` and `checkActiveSession` with `GetActive`, on top of `SessionManager`.
6. `Editor`, `FileTree`, `WebIDE`, `FileNames`: the Web IDE.
7. `TerminalProxy`: the two copying goroutines of `proxyWS`, errors on either side, and their end.
8. `Preview`: commands that share a tmux paste buffer; preparing the workspace.
9. `Dashboard`: `adminCSM` as an operator on records, against a declarative definition of its rows.

Left:

10. A second operator process in `LabOperator` (the manager runs without leader election).
11. The capacity of VMs across `SessionManager` and the teardown.
12. Loading the catalog and the scenarios, as operators on small inputs.

Abstract specifications worth stating: the life cycle of a session (done); a register of
passed steps for `StepChecks`; an atomic admission for `SessionManager`, of which the present one is
the relaxation by the number of processes.

Theorems next: the capacity with the admission of one process as an abstract specification, of which any number is
the relaxation; the register of passed steps, implemented by `StepChecks` with one call at a time.

Each run is kept under five minutes with two workers, on instances of at most some million
states; what comes next extends the runs there are, as the dashboard does, rather than add new ones.
