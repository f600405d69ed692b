# UWF Manager: a TLA+ model

UWF Manager is a Qt desktop program, with a companion Windows service, that
manages the Unified Write Filter: it edits the filter's configuration, shows what
is in the overlay, and keeps a list of *staged files* whose overlay contents are
committed to the disk before the machine goes down. This directory models the part
of it where ordering, failure and concurrency decide whether a user's files and
settings survive: file staging and the list it works on, safe power, the gates of
the main window, the application of a configuration plan, the hand-over of commands
between instances, the pipe between UI and service, the service itself, and its
installation and removal.

Paths below are relative to `src/src/`.

## 1. Inventory

| Part | State it keeps | Operations | Talks to |
|---|---|---|---|
| `app/staging/FileStagingCoordinator` | owner of execution, queue of completions, waiting reservation, suspension | `requestCommit`, `reserveExternalBatch`, `setSuspended`, `finish`, lease `complete`/release | command batches, power coordinator, shell (`activeChanged`) |
| `app/staging/FileStagingTask` | NotStarted/Preparing/Ready/Committing/Completed, recorded failure | `pollPreparation`, `advance`, two background workers | committer, power dialog, progress view model, service |
| `app/power/PowerCoordinator` | `m_actionActive`, locals of a flow, lease | `safeShutdown`, `safeRestart`, `directRestart` | coordinator, dialog, agent (token), UWF provider |
| `presentation/power/PowerDialog*`, `ui/power/PowerConfirmDialog` | lifecycle state, timers, nested question, prepared outcome | poll, confirm, direct, cancel, advance | callbacks into the power coordinator |
| `presentation/shell/MainWindowViewModel`, `app/state/ApplicationStateSession` | committed state, reconciliation, refresh, external activity | refresh, plan, power gates | plan view model, coordinator |
| `presentation/configuration/ApplyPlanViewModel` | copy of the gate, `m_canApply`, `m_applying` | `apply`, `publishResult` | executor (worker), shell, coordinator (suspension) |
| `windows/ipc/EnhancedModeAgent` | published pipe, generation, request ids, last acknowledgement | `sendControl`, `run`, `stop` | service over the pipe |
| `service/EnhancedModeServiceRuntime` | four events, connection, SCM status, skip token | `serviceMain`, `handleControl`, `acceptAgents`, `superviseAgent`, `runPreshutdownCommit` | SCM, agents, staging task |
| `app/staging/DurableFileStagingStore` and draft | list in overlay, on disk, exclusion of next session | `replace`, `clearCurrent`, `reconcileDurability` | UWF provider, registry |
| `app/staging/FileStagingCommitter` | targets, counters, failures | scan, prepare, advance | UWF provider, file system |
| `app/configuration/ConfigurationExecutor`, drafts, editors | plan, write steps, drafts | apply, edit, import | UWF provider |
| `app/enhanced/EnhancedModeManager`, `-Session` | installed / running / connected | enable, disable, repair | SCM, agent |
| `app/commit/*` | manual commit batches | prepare, execute, stop | UWF provider |
| `app/startup/ApplicationCommand`, `windows/process/SecureSingleInstance` | primary instance, forwarded commands | elect, forward, answer | coordinator |
| `core/*` | none | overlay write order, exclusion policy | executor |
| provider, WMI, diagnostics, settings, widgets, translations | caches, display | reads and thin calls | Windows |

Threads: everything of the UI runs on the Qt thread except the background workers;
but a modal dialog runs a nested event loop, so timers, worker results, posted
calls and commands of a second instance interleave with every open dialog. The
service has a main thread, the SCM's control thread, a listener, a supervisor and
a commit worker.

What is hard to test, line by line, is the list `hazards` of `PROJECT.json`. In
short: hand-over of the execution right with no gap; scope guards on many exits;
timers between a click and the return of `exec()`; a cached gate that must be
fresh; acknowledgements that are late, lost or of another request; two threads that
discard connections; a shutdown that races a failure; joins that could hang; a
registry whose writes a restart forgets; writes whose outcome nobody knows; a plan
that is applied twice; a request whose answer is lost and that is sent again; a
service that is deleted in the session and not on the disk.

## 2. Modules

| Module | Models | Uses |
|---|---|---|
| `FileStagingCoordinator` | the coordinator; one action is one call with the completions it publishes | |
| `PowerDialog` | lifecycle table, view model and window rules as operators on a record | |
| `SafePower` | `PowerCoordinator` with dialog, staging task and workers | extends both |
| `ShellInteraction` | gates of main window, plan and refresh, closed system | extends `SafePower` |
| `PreshutdownToken` | abstract: what the UI may conclude about the skip token | |
| `PreshutdownChannel` | agent, pipe, listener, `invokePowerAction`, token with its clock | refines `PreshutdownToken` |
| `EnhancedModeService` | all threads of the service | |
| `DurableList` | abstract: what "the list was saved" promises | |
| `ConfigurationPlan` | `planConfiguration` and the exclusion draft, as operators | |
| `FileStagingDurability` | draft, plan, apply, store and start-up maintenance of the staging list | extends `ConfigurationPlan`, refines `DurableList` |
| `OverlayWritePlan` | legal overlay settings, the editor's normalisation, `planOverlayWrites` | |
| `ConfigurationExecutor` | editors, plan dialog and `executePlan` with its journal | extends `OverlayWritePlan` |
| `SecureSingleInstance` | several instances, forwarding and answering of commands | |
| `EnhancedModeManager` | installing, repairing, starting and removing the service | |
| `...Proofs` of `FileStagingCoordinator`, `PreshutdownChannel`, `EnhancedModeService`, `FileStagingDurability`, `ConfigurationExecutor`, `SecureSingleInstance`, `EnhancedModeManager` | inductive invariants and theorems about each (section 4) | each extends its module |
| `ShellInteractionProofs` | the same for `ShellInteraction` and `SafePower` | extends it and `FileStagingCoordinatorProofs` |

Each state-machine module defines a type invariant (`...TypeOK`). It is a conjunct of
the module's inductive invariant and proved with it; the runs spend their time on the
properties that say more.

The `map` of `PROJECT.json` gives the lines of each definition. Definitions whose
comment starts with *Variant* are deliberate bugs: no specification uses them, each
shows that some property notices that change of the code.

### FileStagingCoordinator
Variables are the members of the class; `lease` says that an `ExternalBatch` with
an owner exists; `clients` is what each requester has been told. Calls that throw
change nothing and are not steps here, but `SafePower` has a step for the refused
reservation (`ExecuteRefused`). `startCommandBatch` has three outcomes: nothing to
do, a running batch, or a start that throws and answers everybody within the call.

### PowerDialog, SafePower, ShellInteraction
The dialog is a record; `Post` is the transition table, and an unlisted event
leaves the state `LogicError` where the code throws. `closed` is set when
`accept()`/`reject()` was called while `exec()` has not returned: timers may still
fire then. `power` is the position of the flow, `flow` the function that runs it.
The end of a flow is one step (`DialogCanceled`, `PowerInvoked`) or two with the
modal warning between them (`PowerFailed`, `WarningClosed`); `Disposition` says what
the scope guards do with the lease. `truth`, `invoked` and `fault` are history
variables. Poll and advance callbacks choose among all their outcomes, failures
included. In `ShellInteraction` Qt's direct connections are part of the step that
emits (`FollowOwnership`); the machine is elevated and has UWF, otherwise every gate
is closed for good. Both power actions behave alike and are one.

### PreshutdownChannel
Two queues are the pipe. A connection can be cut by either end; closing by the
client lets the server read what is already there, `DisconnectNamedPipe` drops
everything. `caller` is the position in `sendControl`, `flow` in
`invokePowerAction`. A new UI process starts with generation 0 and request id 1.
`known` is what the UI may conclude: `Unknown` while a control is outstanding or
unacknowledged, then the control that was echoed. The abstract `PreshutdownToken`
says the service never skips its commit while the UI knows that it is `Required`.
Left out: frames that do not decode (both ends produce them with the same codec),
enhanced mode switched off (`NotApplicable`, nothing is sent), wrap-around of the
64-bit request id, and a restart of the service, which begins again without token.

### EnhancedModeService
One action per step between two synchronisations. Waits return the lowest signalled
index, as `WaitForMultipleObjects` does; `retainHealthyAgent` is two steps because
the lock is dropped after the copy of the connection. `report` changes `m_status`
before it can fail. A main wait that fails leaves through the same exception path
as a failed RUNNING report and is represented by it. The token is a free choice
(its rules are in `PreshutdownChannel`). `SetEvent` on the valid event handles is
taken to succeed.

### ConfigurationPlan, FileStagingDurability, DurableList
The registry tree of the list exists twice: `view`, what the session sees, and
`disk`, what a restart finds. A write reaches the disk when the filter is off or an
exclusion of the current session covers the key (`WriteThrough`); otherwise only a
commit through UWF moves it. A list is a model value, because all the code asks of
two lists is `sameEntries`; a key either covers the root key or is of no interest.
The process is one position `pc`, because the modal plan dialog and the gates of the
main window (checked in `ShellInteraction`) keep the UI from editing during an
apply. Every call out of the program is a step with a failing alternative, also
after it has had its effect, and `ProcessEnds` and `MachineRestarts` may come between
any two. `planConfiguration` is one operator, used by the dialog and by
`reconcileDurability` as in the code. The parts of `executePlan` that lie between the
filter and the registry exclusions touch neither and are left to
`ConfigurationExecutor`. `maintained` is history: it says that the list on display
has been made durable by start-up maintenance or by a save, and it is lost when
maintenance fails or the user discards a pending write, the two cases in which the
code itself only logs. UWF is installed and the process elevated; otherwise no page
offers the list. `DurableList` is three actions: a write begins, the durable list
changes while nothing is promised, a report promises what is durable then.

### OverlayWritePlan, ConfigurationExecutor
Sizes are small numbers in the proportions of the code: the provider's range is
larger than the editor's (`uint32` against `int`), the disk minimum lies inside. A
provider write has the four outcomes of `invokeAndConfirm`: confirmed; effective or
not, but unconfirmed (both ask for reconciliation); refused. `run` is the position in
`executePlan`; both overlay sections read the provider, plan from what they have
read, and skip a write whose prerequisite was not confirmed. On-off settings are a
set of facts, so a plan is the set of facts it toggles. `plan.stale` and
`snapshot.stale` are history: this program has changed the system since they were
made. `OtherTool` registers and removes volumes while the volumes section runs; what
another tool does is not held against the program, the rows it leaves are. Whether
the filter is on in the current session is fixed in a behaviour: it changes with a
restart only. The volume settings an editor offers depend on the volume's support;
all are offered here.

### SecureSingleInstance
A process walks from `probe` over `wait` or `listen` to its window or its exit. An
*attempt* is a process with the number of its try; attempt 0 is its own command, run
by itself. Of the pipe only the state of each attempt's connection is kept. The
client's read has no timeout, so it ends by an answer or by the end of the
connection. Either side may refuse to trust the other, the name may be taken by a
stranger, and an answer may be lost when the primary closes the pipe. `waiting` is
the primary's `FileStagingCoordinator` from outside: everybody who waits is answered
when a batch ends, which `OneResultForAll` of the `coordinator` run establishes. A
process started for a commit exits after its own batch. A connection may be accepted
before the window exists; in the code that happens when something pumps messages
during start-up, and `enableCommandNotifications` does it at the latest.

### EnhancedModeManager
The service's registry key is a set of items, in the session and on the disk; the
service control manager has its own record (`exists`, `marked`), removes a marked
service once it has stopped and the last handle is closed, and reads its database
again at a restart. One action is one call of the worker. The first half of a
deletion looks which targets still exist, the second commits them, children first,
while the barrier holds the last known handle. The filter may be
switched at every restart, also over a mark that waits on the disk: the SCM then
drops the service from the session only. `image` is history: whether the service
process is from before the operation (`before`), or was started since, by the
operation or by another tool, from the path that was configured at that moment
(`current`; with an older path `old` or, started by another tool, `foreign`). `report` is what the operation said. An installation over a disk that
holds an earlier removal's mark is told apart as `appliedOverMark`, and a removal that
found nothing to plan for, or whose tree an earlier removal had marked, as
`deletedEarlier`: both depend on that earlier removal, and the dialog shows them like
the others. Assumed: an operation of the dialog and one of `--install` or
`--uninstall` do not overlap; UWF is installed. How the session and the
agent react to the result is not in this module.

## 3. Runs

| Run | Bounds | States | Shows |
|---|---|---|---|
| `coordinator` | 3 requests | 1 137 | single flight, queue = waiters, nobody stranded, one result, every request answered |
| `shell` | 2 requests | 108 295 | lease = flow, exclusive commit, power is earned, no logic error, no stalled dialog, apply alone, fresh gate, reconciliation first, true answers, flow moves on |
| `preshutdown_channel` | lifetime 1, clock to 3, request ids to 4, generations to 3, 2 UI lives | 50 244 | knowledge is true, skip is recent, refinement of the token, power call returns |
| `service` | 2 sessions, 2 connections, 1 switch, checkpoints to 3 | 420 049 | commit is isolated, PRESHUTDOWN honoured or failure reported, event and connection agree, only condemned connections dropped, checkpoints advance, the service stops, stale agents dropped |
| `durability` | 3 lists (one empty), root key and a parent key | 880 776 | saved means durable (refinement of `DurableList`), the baseline is true, unsaved lists are remembered, the exclusion outlives the list, a reported list is covered |
| `exclusion_tooltip` | 2 lists, the same keys | violation | see below |
| `overlay_writes` | sizes 0 to 4, editor to 3, disk minimum 2, RAM 2 | 1 624 460 | no illegal overlay, however the writes end |
| `executor` | 2 switches, 1 volume with protection, binding and an exclusion | 1 252 120 | a plan is not repeated over its own writes, editors stand on a current snapshot |
| `single_instance` | 2 processes | 7 662 | forwarded results are true, no command runs twice at a time, every commit command ends, activations are delivered |
| `enhanced_manager` | none needed | 595 510 | a success without warning survives restarts, installed (over no earlier mark) or removed; every operation ends |
| `removal_message` | none needed | violation | see below |
| `installation_message` | none needed | violation | see below |

Why the bounds suffice. *coordinator*: requests are only told apart by who is
waiting; three allow one in a batch, one behind it and one behind a lease, and the
invariants are proved for any number. *shell*: two requests meet the same flow at
different moments; nothing else is bounded (a flow can be repeated for ever).
*channel*: a token can be armed, expire and be armed again; an arming that timed
out, its revocation and the next arming fit into the ids; two lives reuse ids; three
generations are a connection, its loss and the next connection. *service*: a second
connection can replace the first while a thread still looks at the first, one switch
makes it stale, three checkpoints contain the handler's report and a heartbeat.
*durability*: the code compares a stored list with the plan's `before` and `after`
only; three lists allow a third that is neither, and two covering keys the change of
the exclusion that protects the list. Writes, crashes and restarts are not bounded.
*overlay_writes*: the order of writes depends on comparisons of at most three numbers
and zero; five values hold three distinct non-zero ones inside the editor's range and one outside, and every
legal start is an initial state. *executor*: the sections are independent but for the
journal, so two switches and one volume with every kind of operation show each
section before and after a failing one. *single instance*: two processes are a
primary and a client, which may find it not listening yet, gone or back again, try
twice as in the code, and take its place; the two safety properties are proved for any
number of processes. *enhanced manager*: the state is finite as it is.

Deadlock is checked except where the system may really stop: the channel's bounded
clock and ids, a stopped service, and instances that have all ended.

Fairness, and why the code gives it:
- coordinator: a batch ends (a task is polled until final), a lease is a scoped
  object, an apply lifts its suspension. Nothing about requests or reservations.
- shell: the event loop serves the step timer and posted calls, workers end, code
  after `exec()` runs, an apply worker ends. Nothing is assumed of the user, so a
  dialog may stay open for ever; that is why only deferred requests and running
  commits must move on.
- channel: only the UI thread. Its write cannot block (the 64 KiB buffer holds the
  frame), its wait has a timeout, the power call returns. Neither the service nor
  the agent thread has to do anything.
- service: threads run, a pending control is worked off, the commit worker ends, and
  the SCM delivers a session change even if other controls keep coming (strong
  fairness). Clients and users owe nothing.
- single instance: a process that has started runs on, its event loop turns and
  accepts what is queued, batches end (the coordinator's fairness). Nobody has to
  start, and processes may die at any time.
- enhanced manager: the worker runs; its waits have deadlines. The service, the SCM's
  other clients and the user owe nothing.

Three runs expect a violation, each of a sentence the program shows its user:
- `exclusion_tooltip`: the tooltip of the file staging page (`ui/configuration/VolumeTab.cpp:204`)
  says that the list's key is excluded while the list contains data. The plan adds
  that exclusion only when it changes the list (`ConfigurationPlan.cpp:42`). A list
  saved under the exclusion of a parent key, and a later plan that only removes that
  parent, leave it uncovered in the next session. The next start of the program
  repairs this if it comes before the list is changed in a protected session.
- `removal_message`: "The enhanced mode service and its remaining configuration were
  deleted" (`EnhancedModeViewModel.cpp:221`). On a protected system, after a removal
  whose registry deletion was not committed, a second one finds nothing left in the
  session to commit and reports success; the next restart brings the service back
  from the disk. `RemovalIsTrue` shows that the message is right for every removal
  that found the tree itself and no earlier mark.
- `installation_message`: "The enhanced mode configuration was applied"
  (`EnhancedModeViewModel.cpp:224`), as opposed to "but UWF persistence reported".
  (1) With the filter off, a removal marks the service while another tool holds a
  handle, so the disk keeps it with its delete flag. (2) The machine restarts with the
  filter on; the SCM drops the service, in the overlay. (3) An installation creates it
  anew and commits the values the session has (`RegistryCommitPlan.cpp:12`); the flag
  is not among them and stays on the disk. No warning. (4) The next restart drops the
  service. `AppliedIsTrue` shows that the message is right whenever the disk holds no
  such mark.

Three more reachable behaviours are recorded as hazards. Two of the service have no
document to be compared with: a STOP_PENDING report that follows the STOPPED one, and a
STOP_PENDING status left behind by a failed report. The third is of a repair, which by
the comment at `WindowsEnhancedModeServiceControl.cpp:269` must not take an old image
that is still running for the current program. Another tool that starts the service
after `stopService` (line 271) and before the new path is configured (line 272) starts
the old program (`image = "foreign"`); `ERROR_SERVICE_ALREADY_RUNNING` (line 295) then
counts as a start, and the repair is reported as applied. `AppliedIsTrue` states what a
repair does give: the process from before it is gone, and it has itself started none
from an older path.

## 4. Proofs

Every safety invariant and every action property that a passing run checks is also a
theorem, and so are both refinements. The theorems hold for all values of the
constants that satisfy the assumptions stated with them, and where a module bounds a
counter, for every value of the bound. They are about the initial states and the
next-state relation: no proof uses fairness. Each module of proofs has one theorem for
its inductive invariant (`...Invariant`), a lemma per part or per action that shows
how a step keeps it, and short theorems for the properties. TLC has checked every
inductive invariant on the instance of the module's run before it was proved.

| Module | Theorem | Shows |
|---|---|---|
| `FileStagingCoordinatorProofs` | `SingleFlight`, `QueueIsTheWaiters`, `NothingStranded`, `OneResult` | `OwnershipAgrees`, `QueueHoldsTheWaiters`, `NoStrandedRequest`, `OneResultForAll` |
| `ShellInteractionProofs` | `LeaseStaysWithFlow`, `CommitStaysExclusive`, `PowerStaysEarned`, `LogicErrorsNeverThrown`, `DialogStaysAlive` | `LeaseFollowsFlow`, `CommitIsExclusive`, `PowerIsEarned`, `NoLogicError`, `DialogNeverStalls` |
| | `ApplyStaysAlone`, `PlanGateStaysFresh`, `ApplyIsReconciled`, `AnswersStayTrue` | `ApplyIsAlone`, `PlanGateIsFresh`, `ReconciledBeforeApply`, `AnswersAreTrue` |
| `PreshutdownChannelProofs` | `KnowledgeStaysTrue`, `SkipStaysRecent`, `ChannelImplementsToken` | `KnowledgeIsTrue`, `SkipIsRecent`, `ImplementsToken` |
| `EnhancedModeServiceProofs` | `CommitStaysIsolated`, `PreshutdownStaysHonoured`, `ConnectedEventStaysTrue`, `OnlyTheCondemnedIsDropped`, `CheckpointsNeverGoBack` | `CommitIsIsolated`, `PreshutdownIsHonoured`, `ConnectedEventAgrees`, `OnlyCondemnedDropped`, `CheckpointsAdvance` |
| `FileStagingDurabilityProofs` | `SavedListIsDurable`, `BaselineStaysTrue`, `UnsavedStaysRemembered`, `ExclusionIsLast`, `ReportedListStaysCovered` | `ImplementsDurableList`, `BaselineIsTrue`, `UnsavedIsRemembered`, `ExclusionOutlivesList`, `ReportedListIsCovered` |
| `ConfigurationExecutorProofs` | `OverlayIsAlwaysLegal`, `RetryStaysSafe`, `EditorsStayCurrent` | `OverlayStaysLegal`, `RetryIsSafe`, `EditorsAreCurrent` |
| `SecureSingleInstanceProofs` | `ForwardedStaysDone`, `OneExecutorOnly` | `ForwardedIsDone`, `OneExecutor` |
| `EnhancedModeManagerProofs` | `AppliedStaysTrue`, `RemovalStaysTrue` | `AppliedIsTrue`, `RemovalIsTrue` |

Assumptions, each evaluated by the module's runs: the empty list is a list and the
root key is a covering key (`ListsAssumption`, `KeysAssumption`); "no list" is not a
list (`NothingAssumption`); sizes are numbers, the disk
minimum is not zero and lies in the editor's range, which is smaller than the
provider's (`SizesAssumption`); the settings that vary are among those there are
(`SwitchesAssumption`); there is a session
(`SessionsAssumption`); a process is not "none" (`ProcessesAssumption`); lifetime and
bounds are natural numbers. The coordinator, the shell and the manager need none.

### The arguments

*Coordinator.* `CoordinatorInv` is the type invariant with the three safety
invariants, which need each other: `ReleaseExternalBatch` and `RequestCommit` start a
batch because the owner is Idle, and that no other batch executes then is
`OwnershipAgrees`; that an answered batch leaves nobody behind is
`QueueHoldsTheWaiters`, which `OneResult` needs as well.

*Shell.* `ShellInv` contains `CoordinatorInv`, and the shell's proofs use the
coordinator's step lemma for what a power step does to it. `LeaseFollowsFlow` is nearly
inductive; the others are not. `PowerIsEarned` needs a chain from the worker to the
button: what a worker's end says about the staging (`TruthOf`), what the task has
made of it in each state of the dialog (`PreparationMeans`, `CommitIsOpen`,
`TaskIsShown`), what a dialog without its own task was opened with (`ResultIsShown`),
that a result of the flow is final (`ResultIsFinal`) and that an answer kept over the
warning is that result (`AnswerIsKept`). `DialogIsSound` and `TimersAreArmed` are the
dialog's own part: they say which flags, timers and ways of closing go with each
state, and from them `NoLogicError` and `DialogNeverStalls` follow. The lemmas
`PostMoves`, `PollMoves`, `StepMoves` and `ConfirmMoves` say what the lifecycle
operators can return, so the transition table is opened only there. The gates of the
shell need that its copy of the coordinator's activity is exact
(`ActivityIsFollowed`).

*Channel.* Every frame has the id of its request. `FramesAreOrdered` says that frames
not read yet are newer than those the listener has applied, `NewestIsInForce` that the
newest request, once applied, is what the token shows, `KnownIsSettled` that nothing
is on its way while the UI knows something. `ConnectionAgrees` is needed because a
new process starts its ids again: no frame of an older connection survives on a new
one.

*Service.* `ThreadsAreJoined` and `PathIsFollowed` say how far each thread can be at
each position of `serviceMain`. `PreshutdownIsHonoured` needs a cause for every raised
stop event (`StopHasReason`): a failure, the PRESHUTDOWN path itself, or a service that
was already closed to controls; `HandlerIsSerial` excludes that a later control
undermines this. `ConnectionsAreNumbered` is why the supervisor, which compares
snapshots after the lock was dropped, cannot discard a newer connection.

*Durability.* For each position of an apply, a clear or start-up maintenance
`StepsAreOrdered` says what the worker may rely on and `ObservationIsTrue` what it has
found out; `RegistryAgrees` relates the two registries (an overlay never hides a list:
it is emptied on both sides or on none); `DraftIsTrue`, `EditsAreTrue` and
`PlanIsTrue` carry that through draft, editors and plan to the next apply. The
refinement maps the promise to itself and the durable list to `disk.list`; its step
is one case per action of the apply.

*Executor.* `SafeWrites` is the semantic content of `planOverlayWrites`: whatever
becomes of each remaining write, the overlay stays legal. That the planner produces it
is a lemma about the operator, for all sizes; that a confirmed, unconfirmed, refused
or skipped write keeps it is the step. It needs `UntouchedIsKept` (what the plan does
not change has the target's value), which needs that a plan runs only over the
configuration it was made from, hence the journal: `StaleIsMarked`, `JournalIsTrue`.

*Instances.* `RequestsAreHeld`: a primary holds only requests whose connection leads to
it and is open or orphaned. `LinksAreCurrent`: a process with an open connection waits
on it, so it neither tries again nor runs the command itself. Both together give
`OneExecutor`; `AnswersAreResults` gives `ForwardedIsDone`.

*Manager.* `RecordsAgree` relates the session's registry, the disk's and the SCM's
record; `InstallationIsDone`, `RemovalIsMarked`, `BarrierIsHeld` and `RemovalIsDone` say
what has been achieved at each step. A report states what holds at the last step; that
it stays true needs `RecordsAgree`, because the SCM and a restart rewrite the records, and
for an installation also that the disk holds no mark of an earlier removal
(`ReportIsLast`): with one, a restart after the filter was switched on loses it
(`installation_message`).

Two things the attempts taught about the models: some `CASE` expressions had
overlapping arms (`Message` of the manager, `Check` and `Judge` of the service), for
which TLA+ leaves the choice open while the code takes the first; their guards are
now exclusive. And several modules had no statement of their types; they have now.

### Only model-checked

Liveness needs fairness and is out of the prover's reach: `EveryRequestAnswered`,
`PowerFlowMovesOn`, `PowerCallReturns`, `ServiceStops`, `StaleAgentDropped`,
`CommandsTakeEffect`, `OperationEnds`. The three
runs that expect a violation show a counterexample and have nothing to prove.

## 5. Not modelled

The contents of files and reports; the walk over staged directories and the
accounting of the commit (`FileStagingCommitter`); the manual commit of files; which
paths may be excluded; text formats; the WMI provider beyond
"succeeds or fails"; privileges, tokens and identity checks of processes; back-off
durations; the SCM's own timeouts; rendering. Components without a module, each with
its reason, are listed in `PROJECT.json`.

## 6. Plan

In this order:

1. Proofs: that what `SecureSingleInstance` assumes of the primary's batches (everybody
   who waits is answered when a batch ends) follows from the coordinator's theorems,
   as a refinement; what a removal can promise after an earlier one left its mark (the
   case `RemovalIsTrue` excludes); shorter proofs where several leaves share a lemma.
2. `FileStagingCommitter`: scan, deduplication, commit; every discovered target is
   accounted for once; refinement of the two-worker abstraction of `SafePower`.
3. `EnhancedModeSession` composed with `EnhancedModeManager` and the agent: what the UI
   believes of the service while an operation runs and after it has failed.
4. `CommitWorkflow` and the asynchronous loading of view models (`AsyncTask`,
   `LoadingGate`): late results of replaced loads.
