# Formal models of DexDeck

TLA+ specifications of DexDeck, a terminal control deck for Android projects,
with TLC runs and TLAPS proofs.  Paths below are relative to the repository's
root, which the project's tables call `src/`.

## Reading order

| Module | Models | Role |
|---|---|---|
| `RootMutex` | nothing: a promise | a fair lock per Gradle root |
| `JobScheduler` | `crates/dexdeck-core/src/job.rs` | scheduler of jobs, implements `RootMutex` |
| `JobSchedulerProofs` | | theorems about `JobScheduler` |
| `ModelRefresh` | `crates/dexdeck-gradle/src/refresh.rs` | generation machine, abstract |
| `ProjectModelService` | `crates/dexdeck-gradle/src/service.rs`, with `dexdeck-config`'s `model_cache.rs` and `model_watch.rs` | the shared model service, implements `ModelRefresh` |
| `ProjectModelServiceProofs` | | theorems about `ProjectModelService` |
| `AppRuntime` | `crates/dexdeck-core/src/runtime.rs`, `app.rs`, `crates/dexdeck/src/app_services.rs` | actions, effects, worker and shutdown |
| `AppRuntimeProofs` | | theorems about `AppRuntime` |
| `ProcessSupervisor` | `crates/dexdeck-core/src/process.rs` | a supervised command on Unix |
| `ProcessSupervisorProofs` | | theorems about `ProcessSupervisor` |
| `LogBuffer`, `LogFilter` | `log_buffer.rs`, `log_filter.rs` of `dexdeck-core` | operators: the byte-bounded buffer, the filter |
| `LogcatSession` | `crates/dexdeck-android/src/logcat.rs` | capture and tracker tasks |
| `LogRecorder` | `crates/dexdeck-core/src/log_actions.rs` | recording thread and its queue |
| `LogsCommand` | `run_logs` of `crates/dexdeck/src/lib.rs` | composes session, recorder, buffer and filter |
| `LogsCommandProofs` | | theorems about `LogsCommand` |
| `AtomicStorage` | `crates/dexdeck-config/src/atomic.rs` | atomic writes, quarantine, power loss |
| `BridgeStream` | `dexdeck-protocol`'s `bridge.rs`, `dexdeck-gradle`'s `assembler.rs` | operators: which streams make a model |
| `ConfigLayers` | `loader.rs`, `resolve.rs` of `dexdeck-config` | operators: which layers load, which wins |
| `RunProfile` | `run_profile.rs`, device selection of `device.rs` | operators: module, variant, device |
| `Discovery` | `crates/dexdeck-gradle/src/discovery.rs` | operators: the Gradle root of a directory |
| `CommandStages` | the `execute` functions of `crates/dexdeck/src/lib.rs` | each subcommand as a sequence of stages |
| `Invocations` | `lib.rs` and the services it calls | several commands at once; composes the six above |
| `InvocationsProofs` | | theorems about `Invocations` |
| `LogView` | `crates/dexdeck-tui/src/logcat_workspace.rs` | operators: the Logcat workspace |
| `Shell` | `crates/dexdeck-tui/src/shell.rs`, the two workers of `lib.rs` | the terminal interface and its threads |
| `ShellProofs` | | theorems about `Shell` |
| `Subsequences` | | one operator: the elements of a sequence that are in a set |
| `ProofFacts` | | lemmas about numbers, finite sets, sequences and folds that the proofs share |
| `MCLogsCommand`, `MCInvocations`, `MCShell` | | values of the constants for TLC |

A definition whose comment says *Variant of X* is not part of the model.  It is
X as a plausible mistake would have written it; putting it in the place of X
must violate the property it is kept for, which shows that the property depends
on that line of the code.  `PROJECT.json` lists which variant belongs to which
property, and maps every other definition to the lines it stands for.

## The system

DexDeck is a Rust workspace.  `dexdeck` is the executable (command line and
terminal interface); `dexdeck-core` schedules and supervises work;
`dexdeck-gradle` runs Gradle and keeps the project model; `dexdeck-android`
talks to adb and emulators; `dexdeck-config` stores configuration, caches and
histories; `dexdeck-tui` renders; `dexdeck-protocol` holds data types; `bridge/`
is the plugin that runs inside Gradle and reports its model.

| Component | State | Operations | Interacts with | What is hard | What makes it correct |
|---|---|---|---|---|---|
| Job scheduler (`job.rs`) | map of jobs, queue, table of active roots, history of 50 | submit, mark running, cancel, finish, restore and persist the history | its caller starts what it answers | one queue for all roots, two indexes beside the map, jobs cancelled while they end | one mutator per root, exact indexes, nobody waits for a free root, first come first served, every exit recorded |
| Project model service (`service.rs`) | open project, published state, generation, commit lock | open, refresh, invalidate, poll the watcher | bridge, cache, watcher | calls overlap; a refresh lasts minutes; five ways to fail half-way | late answers never win, an edit that was noticed is not forgotten, current means current |
| Model cache and watcher (`model_cache.rs`, `model_watch.rs`) | bundle and fingerprint on disk; events, overflow flag, debounce | load, save, fingerprint; drain, poll | the service, the file system | files change while they are hashed; events arrive while the watcher is replaced | an edit is in the fingerprint or in the events; damaged bundles are never used and prevent nothing |
| Runtime (`runtime.rs`, `app.rs`, `app_services.rs`) | application state, action and effect channels, cancellation map | dispatch, step, run an effect, cancel, shut down | reducer, services, clients | two bounded channels in a circle; shutdown of tasks that wait for each other | no circular wait, tokens live as long as effects, a shutdown ends in Stopped |
| Process supervisor (`process.rs`) | child, its process group, pipes, two tokens | run, spawn, wait, interrupt, kill | operating system | cancellation races the exit; pipes outlive the child | the result says how the process ended; nothing survives a forced end |
| Logcat session (`logcat.rs`) | adb child, last timestamp, window of known lines, selection, process names | start, reconnect, batch, select, stop | adb, tracker of process ids | replay after a reconnect, backoff, a channel that is full | no line twice, no line lost beyond what the status counts |
| Log buffer, view, recorder (`log_buffer.rs`, `logcat_workspace.rs`, `log_actions.rs`) | ring of lines by bytes, page and pause point, writer thread and its queue | push, clear, pause, search, select, record, stop, export | `dexdeck logs`, the Logcat workspace | eviction under the reader, overflow of the recorder, late errors | bounded bytes, exact counters, a paused page stays, the file is what was recorded or an error |
| Atomic storage (`atomic.rs`) and its files | files, temporary files, quarantined files | write, load, recover | every store | crash between two steps, quarantine racing a write | an acknowledged write survives |
| Commands (`lib.rs`) | the command line, what the command has read so far | the subcommands | everything below | several processes on one project, cache, device and trust file | success is true, nothing destructive unasked, what is trusted is what was asked about |
| Configuration, profiles, discovery | layers, selections, directories | load, resolve, discover | commands | precedence, ambiguity | what the user named, and one thing only |
| Bridge runner, stream, assembler (`runner.rs`, `bridge.rs`, `assembler.rs`, `embedded.rs`) | records of a stream, the model they make; the extracted bridge file | extract, run, validate, assemble | Gradle | partial streams, duplicates, two processes writing one file | a model only from a complete stream |
| Task and test runners (`task_runner.rs`, `test_runner.rs`, `test_results.rs`) | lock per root, reports on disk | run, resolve, parse | supervisor, Gradle | reports of earlier runs | no success after a failed run |
| Custom commands (`custom_command.rs`) | stored trust | preview, ask, execute | storage, Git remote | the remote changes between question and run | what runs was asked about or trusted |
| Devices, emulators, applications (`device.rs`, `emulator.rs`, `application.rs`) | device list, boot deadline | list, install, launch, stop, start | adb | lists grow stale while a boot is awaited | one device, a booted emulator is reported |
| Shell (`shell.rs`, workers of `lib.rs`) | screen, two worker threads, three bounded queues | keys, drains, stops | service, session | sends that are dropped, joins at the end | the last state is shown, the scope follows, quitting ends |
| Workflow executor, device tracker, job history, session files, application services | | | | library interfaces that tests and benchmarks drive; no command creates them (`AppServices` is modelled) | |
| Redaction, editors, diagnostics, rendering, Gradle plugin | | | | sequential transformations, input and output | tested directly |

`PROJECT.json` lists the hazards with their lines, also those no module covers,
and says why.

## JobScheduler

`JobScheduler` keeps the four collections of the struct: the map is the three
functions `state`, `root` and `requests` (an absent job is `"Absent"`, and an
id may be used again), `queued` and `history` are sequences, `activeRoots` a
set.  Every public method that schedules is one action, because it takes
`&mut self`.  `Finish` is one action with two alternatives, with and without a
successor.  Error returns change nothing and are the negated guards.

Left out: the output buffer and the diagnostics of a job (no decision
reads them), the restored and the persisted history.

*Run `job_scheduler`* - four jobs, two roots, a history of one record, one
counted cancellation beyond which the counter saturates.  Four jobs are the
least with both roots taken and a job of each waiting, so that the front of the
shared queue may want the wrong root; ids are used again after they leave.  A
history of one record wraps at once; that longer ones keep their order is
proved for every limit (`ExitsAreRecorded`).  The run shows `OneMutatorPerRoot`;
`IndexesAgreeWithJobs` (the table submit decides by, and the queue, say what the
job map says); `NoJobWaitsForAFreeRoot`; `EveryExitIsRecorded`;
`QueuedJobLeavesTheQueue`, whatever is submitted to this root or another; and
that seen root by root the shared queue is the lock `RootMutex`
(`ImplementsRootMutex`: `holder` is the started job of a root, `waiting` the
part of the queue that wants the root).  Deadlock is checked.

*Fairness*: `WF(FinishStarted(j))`.  The caller reports the end of every job it
was told to start, because the processes end or are killed.  Nothing makes a
caller submit, cancel or mark.

`Finish` is taken of started jobs only, as every caller in the repository does.
The interface itself accepts a queued job: `finish` would then take its root out
of the table while another job is running on it, and the next submit would start
beside that job (job.rs:249, among the hazards).

*Theorems* (`JobSchedulerProofs`, for all job ids, roots and limits):
`SchedulerTypes`, `MutualExclusion`, `IndexesAgree`, `NoMissedPromotion`,
`FifoPromotion`, `ExitsAreRecorded`, `QueueIsALockPerRoot`.  `OneMutatorPerRoot` alone is not inductive: submit looks at
the table and not at the jobs, and finish hands a root over by a position of
the queue.  The invariant is therefore the conjunction `SchedulerInv` of all
four: the table is exact, so that a free root has no mutator when submit starts
a job; the queue holds each queued id once, so that dropping one position is
what `retain` does; and nobody waits for a free root, so that a finish that
finds no successor may free the root.  The lemmas about `RemoveAt` say what the
queue is after one position is dropped.  Each action has a lemma of its own and
`StepInv` puts them together.  The proofs are about `Spec`, whose callers
finish started jobs only.

`QueueIsALockPerRoot` is the refinement: under `SchedulerInv` a submission is
`Ask`, the cancellation of a queued job `GiveUp` and the end of a started job
`Release` of its root, and every other step is invisible.  Its hard part is the
queue seen from one root (`Lane`), which is what `Picked` takes from the queue.
`StandsAt` (in `ProofFacts`) describes what is picked by its places, all those of
elements to be picked, in order; such a list is unique (`PickedIs`).  What an
action does to a lane then needs only a new list of places: an append adds the
last one (`PickedGrows`), dropping a place shifts those behind it
(`PickedShrinks`), and the job `next_queued_for_root` finds is the first of its lane.

## ModelRefresh and ProjectModelService

`ModelRefresh` is the generation machine that `refresh.rs` states without any
concurrency, with `Load` (a stored model is put in place when a project is
opened) and `Abandon` (an answer that never comes) added for its owner.

`ProjectModelService` is the shared service.  Build inputs are abstracted to a
version per root, which each edit advances; a model is the version Gradle
evaluated.  An edit changes a file that is known (`Edit`) or adds one
(`AddInput`).  A fingerprint is the set of edits its hashes show: those made to
the files that were listed, up to when they were hashed, so that a file added
between listing and hashing is not in it (`Fingerprint`).  A stored bundle holds
a model and a fingerprint.  The methods split where the code can be interleaved:

- `open` runs under the commit lock, but the file system does not: `OpenBegins`
  (discovery and the list of the inputs), `OpenWatches` (the watcher moves there),
  then `OpenPublishes`, which hashes what was listed, or `OpenFails`.  The lock is
  `opening # NoRoot`.
- `refresh` is `SnapshotOpen` (no lock), `BeginRefresh` (commit lock),
  `Evaluate` / `BridgeFails` / `Dropped` (the await), `List` / `ScanFails` and
  `Hash` / `ReadFails` (no lock), `CommitRefresh` with its four outcomes (commit lock)
  and `MarkDegraded` (commit lock again).
- `poll_watcher` drains without the lock, then invalidates with it.
- `Edit` and `AddInput` are the world: they raise the watcher's event if that
  root is watched.  `UnseenEdits` names three gaps in which nothing notices an
  edit: `"refresh"`, after Gradle read the files and before the refresh has
  ended; `"open"`, a file added after open listed the inputs and before it watches
  them; `"apart"`, a file added to a directory that is not watched, because it held
  no input when the watcher was started.

A history, `missed`, records what the service cannot know: `"edit"`, an edit was
lost on it, by falling into one of the gaps (also when a later event covers it up),
with a drain of the watcher that failed, or with an open that failed after it moved
the watcher; `"refresh"`, a refresh ended without marking the state.

*Run `service`* - one project, two overlapping refreshes, two opens, one edit at
any moment after those of an earlier session, all three gaps, every failure of
`FaultNames`, five generations.

- `NoticedEditIsNotForgotten`: after an invalidation no model evaluated before it
  is published as current again.  There is one exception, which the property names:
  a bundle that was hashed after an edit Gradle did not read has a fingerprint that
  fits, and opening the project again shows its old model as current.
- `ModelNeverGoesBack`: neither the published model nor the bundle of a root is
  ever replaced by an older one.
- `CurrentModelIsFresh`: a model shown as current was evaluated from the inputs as
  they are, unless the change is about to be noticed, as long as no edit was lost on
  the service; this covers what the cache of an earlier session makes of files
  edited since.  `StaleIsNeverCurrent` is the same without the last condition: it
  is what the documentation says, and does not hold.
- `RefreshingEnds`: the state does not say Refreshing for ever.  A scan of the
  inputs that fails and a dropped future mark nothing, and are excused by `missed`.
- `ImplementsModelRefresh`: the published state is the state of a `ModelRefresh`,
  whatever overlaps.

Five generations are an open, two refreshes, and an invalidation and a second open
between them; two calls are the least that overlap.  One project, because no caller
opens a second one on the same service; one edit, which meets every step of two
refreshes and two opens.  The theorems are for any number of each.

*Run `service_edit_during_refresh`* - one project, one refresh, one open, one edit
after Gradle read the files (`UnseenEdits = {"refresh"}`), no failures:
`StaleIsNeverCurrent` is violated.  `refresh` hashes the files only when Gradle is
done and replaces the watcher, with its pending event, at the commit; the old model
is published and stored as current.  With another value of `UnseenEdits` the same
configuration shows the other two gaps:

- `{"open"}`: a file is added after `open` listed the inputs (`service.rs:259`) and
  before it watches them (`service.rs:260`).  The list is hashed as it was taken and
  fits the cached bundle, and no event says otherwise.
- `{"apart"}`: a file is added below a directory that is not watched, as a source in
  a new directory deep in `buildSrc`.  The scan would list it, but the watcher is told
  the parents of the known inputs and not what is below them (`model_watch.rs:114-126`).

Also met: the open that finds a damaged bundle sets it aside and ends with that
error (`service.rs:103`, `:263-266`; `OpenFails`), so that only the next one
succeeds, while `SPECS.md:1201` has cache corruption never prevent opening.

*Fairness*: an open that holds the lock ends, and so does a refresh that began:
the bridge process ends or is cancelled (`WF(OpenStep)`, `WF(CallStep(c))`).
No edit, open, poll or refresh is fair: nobody has to ask for one.

*Theorems* (`ProjectModelServiceProofs`, for any roots, calls, faults and
bounds): `ServiceTypes`, `NoticedEdits`, `NeverGoesBack`, `ServiceRefines` and
`CurrentIsFresh`.  None of the properties is inductive: each depends on what the
answers under way may still do.  `ServiceInv` says it.  Calls in flight have
generations of their own that the counter has reached (`GenerationsDiffer`), so
at most one of them can commit; an answer that can still commit is not older
than the last invalidation, the bundle or the model of its root
(`AnswersAreRecent`); the published model is not newer than the bundle beside it
(`StoredIsRecent`).  `ServiceRefines` maps each step to one of `ModelRefresh` or a
stutter, by cases over the two kinds of calls: those whose generation is the
counter's, and those that were superseded.

`CurrentIsFresh` assumes nothing of the environment: it is proved that `FreshInv`
holds until an edit is lost (`NoneMissed`), and what was lost stays lost.
`FreshInv` adds that answers and bundles were
listed and hashed as they were evaluated, that what an open listed is all there is or
an event is pending, that the watcher is where the model
is, and that an answer that still counts is one the state waits for.

*Deadlock* is not checked: generations, edits and opens are bounded, and a
service nobody calls rests.

## AppRuntime

Four actors and two bounded channels.  The runtime task receives an action
(`Step`: cancel, forget, reduce) and sends the effects of the reduction one by
one (`SendEffect`, or `SendFails` when the worker is gone).  The token enters the
map before the send waits for room; the map is the runtime task's own, which looks
at it again only after the send, so both are one step.  The worker is
`Receive`, `ServiceEnds` or `Interrupt` (the `select!` between the service and
the request's token), `ReportFailure`, `ReportEnd`, and `WorkerStops`.  Clients
dispatch starts, cancellations and shutdown requests through their clone of the
sender; `AppServices::shutdown` is `ShutdownBegins`, `ShutdownAsks`,
`ShutdownCompletes`, `ShutdownReturns`.  Of the application state only the
lifecycle is kept.  A router with and one without a service are both initial
states.  What a service answers is taken from the outcomes its effect is for,
and is external to the model.

*Run `app_runtime`* - channels of one place (256 and 64 in the code), two
actions of clients.  One place is the hardest case for circular waits, and a
start asks for three effects, two of them in one reduction, so both channels do
fill up.  `ShutdownEnds`: a shutdown returns, unless a service never answers
(and nobody cancels its effect) or a client keeps its sender for ever.
`CancelEndsExecution`: a cancellation that was reduced ends the running effect
even if its service never answers.  `TokensMatchEffectsInFlight`:
`active_effect_count` is exact while the worker lives and the effects are
routed; without a service an effect's token stays for ever.  `ReturnsStopped`:
the shutdown awaits the worker before it dispatches the completion, so no
outcome can bring the application back after Stopped.

*Fairness*: tokio polls tasks that can move (`WF` of the runtime task and of
the worker); its channels serve waiting senders in turn, so the owner's
dispatch, enabled again and again, is served (`SF(Owner)`).  No fairness makes a
service answer, a client leave or a shutdown begin.

*Theorems* (`AppRuntimeProofs`, for channels of any size and any number of client
actions): `AppTypes`, `ReturnedMeansStopped` and `TokensExact`.  `ReturnsStopped` alone is not
inductive, because clients may dispatch while the completion is in the channel
and a late end of an effect would make the application ready again.  `Closing`
says that the completion was reduced or is under way, and that no end of an
effect stands behind it: the owner dispatches it after it has awaited the worker.
`TokensMatchEffectsInFlight` needs `AtOnePlace`: an effect is in the channel, with
the worker or on its way back, at one of these only, under an id given out
before, so its end takes away the one token that is its own.  `TypeOK`
bounds the ids, which takes an argument too (`Budget`): the application is idle
only once, so a project is discovered only once, and only the end of that
discovery, whose one id is at one place, asks for two more effects.

Deadlock is not checked,
because everything is meant to come to rest after a shutdown.

## ProcessSupervisor

One command: the child that leads a process group, the processes it starts
(`Fork` with three choices: in the group or in a session of its own, and with
the inherited pipes or without), and the supervisor, which is in one of four
awaits or over.  `"waiting"` and `"grace"` are the two `select!`s, `"killing"`
the wait after `force`, `"draining"` the end of the output.  `run` and
`StreamingChild::wait` share their `select!`s; `streaming` tells them apart:
`wait` returns, and so drops the process tree, as soon as the child is reaped,
whereas `run` drains the pipes first.  An await may be dropped at any moment
(`Dropped`).  An interrupt only reaches the processes; what they make of it is
their own `Exit`.  The forced signal is final.  `select!` polls its branches in
random order, so any enabled branch may be taken.

The processes and the owner of the tokens are external.  Left out: Windows,
errors of spawning, and the output itself.

*Run `process_supervisor`* - a child and three descendants, one of which starts
a session of its own; three let a process that left the group fork another
while the group is killed.  `NoOrphans`; `ForcedEndIsComplete`;
`CancelledChildIsReaped`; `CancelledCommandEnds`: a cancelled command ends,
unless another process keeps the pipes open for ever.

*Run `process_supervisor_force`* - the same machine refutes the second
cancellation's promise to terminate the complete tree: once the child is
reaped, `run` is reading the pipes and looks at no token any more.

*Fairness*: `WF(Supervise)`.  tokio polls the task, the grace period runs out,
and a process that was killed is reaped.  No process ends by itself.

*Theorems* (`ProcessSupervisorProofs`, for any processes): `NothingIsOrphaned`,
`ForcedMeansGone`, `SupervisorTypes`.  The inductive invariant adds to
`TypeOK` that a killed group is empty from the kill on (`GroupKilled`): a new
process joins the group only through a living member, so it stays empty; and
that the child's name is taken.

*Deadlock* is not checked: the run of a command is meant to be over.

## LogcatSession, LogRecorder and LogsCommand

`LogcatSession` is the capture task (`Connect`, `ReadRecord`, `FlushTick`,
`StreamEnds`, `ChildEnds`, `PauseEnds` around the `select!` of `capture`) and the
tracker task (`Poll`).  The device's log is the constant sequence `Lines`; `adb
logcat -T` starts at the first line that is not older than the last timestamp,
so a reconnect replays lines, and `recent` is the window of keys that drops
them.  `LogRecorder` is the recording thread.  `LogBuffer` and `LogFilter` are
operators; the byte sizes and matches they compute are part of the state the
commands hold.  `LogsCommand` is `run_logs`: every return of it, also the error
returns that drop the session and the recorder (`Abandon`).  When standard output
is gone, the batch at hand has been offered to the recorder and is in the buffer
(`PrintFails`).

*Run `logs`* - five lines, two of one time, one repeated, one that fills the
buffer and one that is larger than it; a channel of one batch, batches of two, a window of two keys, one
reconnect, a recorder queue of one batch, with and without `--record`.  The
limits (16 batches, 256 records, 4096 keys, 16 batches) are reached by five
lines only when they are this small.  `NothingTwice` and `NothingSkipped`: the
window drops replayed lines and no other, as long as no more lines share a
microsecond than it holds (`SessionAssumption`).  `RecordingIsFaithful`: the
file is a prefix of what was received, and all of it when the command ends
without an error.  `BufferIsExact`: the newest lines, numbered in a row, and
every other one counted as dropped.  `InterruptEnds`: after Ctrl-C the command
ends, whatever the channel, the tracker and the writer are doing.

*Theorems* (`LogsCommandProofs`, for any device log, limits, selector and filter):
`RecordingFaithful`, `NoRecordTwice`, `NoRecordSkipped`, `BufferExact`, `LogsTypes`.

`RecordingIsFaithful` is about the file alone, which is not inductive; `InOrder`
says that what was received is the file, then the rest of the batch the thread
has in hand, then the queued batches, end to end, and `FlagsAgree` what the flags
say of both sides, in particular that a thread that has ended without an error
has nothing in hand and, unless the recorder was dropped, nothing queued.

The other two properties are about lines that come again, and rest on
`CaptureInv` (`CaptureInvariant`).  `Remembered`: the window holds the keys of the
lines accepted last, as many as it can.  `InTime`: lines are accepted in the order
of their times, none is later than the last timestamp, and adb does not resume
behind it.  So a line that was accepted before and is read again has the time of
the last timestamp, and every line accepted after it has that time too; those are
no more than the window holds (`SameTime` is a finite set, in which the accepted
positions are mapped one to one), so its key is in the window still
(`ReplayIsRemembered`).  `NoGap`: every line before adb's position, and every line
older than the last timestamp, was accepted or equals one that was; the second
half is what a reconnect needs.  Both need the two parts of `SessionAssumption`
that say what the log of a device is: times do not go back, and no more lines
share a microsecond than the window holds (4096 in the code).

`BufferIsExact` is inductive together with what travels: the batch, the channel and
what was received hold lines of the device (`BufferInv`).  What it takes is inside
one step: the size of a buffer is a sum over its entries, and a batch is any number
of pushes.  Both are folds of the community modules, choices of a function that
solves a recursive equation; `FoldExists` shows that there is one, `FoldInTurn`
that its value comes about one element after the other.  From there `SumsAgree`
splits a sum in two (`Halves`), so that `pop_front` until there is room leaves a
buffer whose size is right and in bounds (`EvictedFits`, `PushIs`); `PushExact`
follows the numbers and the places of the entries among the lines that fit, and
`BatchExact` repeats it along the batch.  `LogsAssumption` says that sizes and limit
are natural numbers.

*Fairness*: tokio runs the command and both tasks, the operating system the
writing thread, and adb ends once it is killed.  Nothing makes the device write,
adb end by itself or the tracker be answered.  Deadlock is not checked: the
command ends.

What it shows beside its properties: lines with the same key in one microsecond
are merged and not counted; batches still in the channel at Ctrl-C were counted
as sent and are never received; a read error loses the batch in hand uncounted
and leaves the status connected; an overflowing recorder loses its queue;
application lines before the first answer of the tracker are not selected.

## CommandStages and Invocations

A command is a sequence of *stages* (`CommandStages`), each with the exit code
of its failure, in the order of the calls in `lib.rs`.  `Invocations` lets two
processes work through theirs, one stage at a time, on what they share: the
project's sources, build inputs, artifact and test reports (`tree`), Gradle's
own lock (`builder`), the devices (`installed`, `avd`), the extracted bridge
(`bridge`, with the inode a process writes to), the stored files
(`AtomicStorage`), the Git remote and the stored trust.  Stages that read files
others write are steps of their own, so that a quarantine, a rename, a question
and a second reading fall between each other.

`AtomicStorage` keeps the set of directories a power loss may leave; syncing the
directory leaves one.  A write counts as acknowledged when the command goes on
after it.  `BridgeStream` says which sequences of records the validator and the
assembler accept.  `ConfigLayers`, `RunProfile` and `Discovery` are pure.

Gradle, adb, the emulator, the user and Git are external: each may answer in
every way the code distinguishes.  An adb command may take effect and still be
reported as failed, because adb is given five seconds.

*Run `invocations`* - 347 starts in nine groups (`MCInvocations`): builds and
installs while sources are edited; tests of every kind with reports of earlier
runs; every combination of profile, module, variant, device and configuration;
destructive and release commands with and without `--yes` and a terminal;
refreshes of a missing, stale or damaged cache, with a power loss; presets saved
at once; custom commands while the remote changes; emulators; starts in other
directories.  Each start has a `budget`: at most two edits, one damaged file, one
change of the remote, one kill, one power loss.  `RemoteAnyTime = FALSE` keeps the
change of the remote out of the time between a command's preview and its decision;
it may come before, after, and while other commands run.  Two processes are the least that
race, and a third would repeat what the second does.  The preset limit is 2 (100
in the code), the boot gives up after 2 polls.

`SuccessIsTrue`: a `run` that succeeds has launched a build of the sources as
they were when it began, or later ones, whoever else builds; a test command
that succeeds had no failing run.  `NothingIsTouchedUnasked`: data on a device
and release builds are touched only after `--yes`, an answer, or a named
profile.  `NothingAcknowledgedIsLost`: through crashes and the setting aside of
files, an acknowledged write, or one after it, is at its path or set aside.
`TrustedOrAsked`: a custom command that runs was asked about and agreed to
(`asked`), or the user had agreed to trust the project with the Git remote this
command read last (`ranFor \in consents`); what counts as agreed to is the remote
of the question (`previewed`), not the one that is stored.  So trust ends with a
change of the remote.  `OnlyWholeModelsAreUsed` and `SelectionIsExact` are what
their names say.

*Run `invocations_trust`* - custom commands with one change of the remote at any
time (`RemoteAnyTime = TRUE`); `TrustedOrAsked` is violated.  A project trusted at
the preview gets the decision to run once without a question, and `execute`, which
finds the trust gone with the remote, lets that decision pass.  Likewise trust is
stored for the remote as it is after the question.

*Run `invocations_boot`* - `emulator start` alone.  The poll asks `devices`, which
never fills in the AVD's name, so a booted emulator is reported as one that did
not boot in time.

Also met: a custom command its user cancels runs if another process stores trust in
the project while the question is shown, since `execute` reads the trust before it
looks at the answer (`custom_command.rs:90-99`).

*Deadlock* is not checked: commands end.  No fairness is needed.

*Theorems* (`InvocationsProofs`, for any number of processes, any sessions,
models, configurations, devices and streams of records, with any number of edits,
kills, power losses and damaged files): `SuccessesAreTrue`, `TouchesAreAsked`,
`AcknowledgedIsKept`, `CommandsAreTrusted`, `ModelsAreWhole`, `SelectionsAreExact`
and `InvocationsTypes`.  All say what a command does at a stage because of what
it did at earlier ones, so none is inductive: the state does not say which stages
are behind a process.  What makes them provable is `PlanInv` (`PlansAreKept`): the
stages a process has left are always a *plan*.  `Precedes(r, a, b)` says which
stage `b` may follow which stage `a` in a command with the request `r`,
`Possible` which stages such a command has at all, `Closes` which may be the last; a
plan is a sequence of possible stages of which each precedes the next and the
last closes.  `StagesArePlans` shows that the stages of every subcommand are one;
`Moves`, `FailsWith` and `Inserts` keep that.  Then an invariant may speak of the
first stage alone, and is kept because a process only arrives at a stage from
those that may precede it (the lemmas `...Arrivals`):

- `ContentInv`: files hold what belongs there, also in every directory a power
  loss may bring back, and a process about to write holds what belongs in the
  file.  A damaged file is not loaded.  This gives `ModelsAreWhole`, with
  `BridgeAssumption`: the hash that closes a stream is the hash of the model
  Gradle evaluated, so that a stream that lost records does not match it.
- `KeptInv`: every directory a power loss may bring back has what was
  acknowledged, set aside or replaced at most by a later write; what is written
  and not acknowledged yet is in the present directory; and while anybody works,
  the file at the path is the last that was written, so that setting it aside
  keeps the newest.
- `PreviewInv` (`PreviewsAreKept`) and `TrustInv`: from its preview to its decision
  a process knows the remote the project has, so that the trust it stores is for
  the remote of the question; whoever is at a stage that runs the command was asked,
  or the remote that was read is one the user had agreed to.  `CommandsAreTrusted`
  and `TrustInv` assume `~RemoteAnyTime`, as the run does; `invocations_trust` shows
  that the assumption is needed.
- `TouchInv`: whoever is at a stage that touches a device or a release has been
  through `confirm`, after which neither the request nor the choice changes.
- `SelectInv`: what was chosen is the one resolution of the request, the
  configuration and the devices the process read.  `ResolvedAsNamed` then is a
  fact about the operators of `RunProfile` alone.
- `DoneInv`: the artifact is not newer than the sources and, from a build on, not
  older than they were when the process began, for whichever process built it;
  what is installed is such an artifact until it is launched.
- `WorldInv`: the rest of the types, in particular that there is an inode for
  each name of the bridge file.

`NextSteps` says once what a step is to one process, whoever takes it: the process
rests, dies, does its first stage (`Acts`), or has its build finished (`Built`).
Every invariant is proved from these four.  `InvocationsAssumption` says what the
command line admits (a subcommand, `CliCommand` in lib.rs) and what the sessions
start with.

What else was met, without a run of its own: `dexdeck test --task` always ends as
a usage error, because the selection always names the module and a custom task
refuses every selection (lib.rs:1200, test_runner.rs:91), although SPECS.md:2012
lists project-defined test tasks (`ResolveInvocation`).  `--yes` is rejected for
`launch`, `rerun`, `stop` and `build`, whose release variants ask for it.
`--profile` skips the release confirmation whatever variant the command line
names.  The five seconds of adb also apply to an install, and
`clean-reinstall` uninstalls before it looks for the new package.  Two commands
that save a preset at once may lose one, and after a damaged file a save starts
from an empty list.  The verdict of a test reads the reports of every variant.
Trust covers every custom command of a project, whatever its arguments:
docs/security/threat-model.md:23 has it bound to argv and environment names too,
which the stored fingerprint does not hold (custom_command.rs:150-157).  Two
processes that extract the
bridge share one temporary file name.  A kill leaves temporary files behind.

## LogView and Shell

`Shell` is the loop of the interface (`Drain`, one input or `Wait`), the project
worker (`Detect`, `Open`, `StartRuntime`, `RefreshSucceeds`, `RefreshFails`, `PollWatcher`,
`Debounced`, `WorkerStops`), the Logcat worker (`Prepare`, `TakeCommand`,
`TakeBatch`, `SessionEnds`) and the way out (`StopProject`, `StopLogcat`,
`Restore`).  Every channel is bounded and every send is a `try_send`, so `lost`,
`refused` and `stopRefused` record, as history, that the last one was refused.
The model service is reduced to what `ModelRefresh` says its single caller sees,
the session to the batches it hands out.

*Run `shell`* - five sessions: the project worker with three edits; scope
changes and quitting; two over the log view and its search; the screens.  Queues
hold 2, and a turn drains 1 (16/4 events, 32/8 and 8 commands in the code): a
queue is full after two sends.  Up to six inputs; a buffer of three lines, two
rows.  `LastStateIsShown`: what the interface shows when it has read its events
is the service's state and no failure (`failed`, the status text that a failure
leaves beside a usable model), after any order of edits, refreshes and failures,
unless the very last event found the channel full.  `ScopeFollows`: the shown scope and
the captured one agree again after a refusal.  `PausedPageStays`: a paused page
only loses rows to the byte limit.  `QuitEnds`: quitting returns the terminal,
unless the Logcat worker stays in its preparation or its Stop was refused.

*Run `shell_quit`* - three scope changes before the worker reads its queue, then
quit: the queue has no room for Stop, the interface joins the worker for ever and
the terminal is not restored.  Resolving the project for Logcat may refresh the
model, which takes minutes, so this is a matter of pressing `s` nine times.

*Fairness*: the threads run, and a cancelled worker ends (`ProcessSupervisor`
shows that a cancelled command does).  `AnsweredSpec` adds that the tools that
prepare Logcat answer.  No key, edit or Gradle answer is fair.  Deadlock is not
checked: the interface ends.

*Theorems* (`ShellProofs`, for queues of any size, any turns, keys, edits and
failures): `ProjectIsShown` and `ScopeIsShown`.  Both follow the last element of a
queue: what counts in the end is the last thing that was sent, and a full queue
refuses the new one.  `LastIsKnown` says that while the worker watches, and its
last event was not refused, the last event in the channel is the state of the
service, and that an empty channel means this state was applied; `ScopeIsAsked`
says that the last command in the queue asks for the scope in the title, unless
it stops the capture, and that an empty queue means the capture has it.  The
interface takes several events in one step, with a fold over them.  What a fold
does is shown by taking the elements in turn (`InTurn`, and `ProofFacts` for the
induction over finite sets behind it); a fold over events ends with what the last
event made of the state, and the log's events leave the scope alone.
`PausedPageStays` is not proved: it is about what the buffer, a filter and a
search, three folds, make of a page.

Also met: clearing a paused page, or pausing an empty one, lets new lines in;
scrolling does not hold the lines in place while others arrive; the search for
errors counts over lines the filter hides; the scope in the title changes before
the backend accepts it; log events are dropped, with the message about it, while
another workspace is shown; the palette's text stays in the search it opens; a
Logcat worker that ended is never started again.

## Checked and proved

| Property | Run | Theorem |
|---|---|---|
| `JobScheduler!TypeOK` | `job_scheduler` | `SchedulerTypes` |
| `OneMutatorPerRoot` | `job_scheduler` | `MutualExclusion` |
| `IndexesAgreeWithJobs` | `job_scheduler` | `IndexesAgree` |
| `NoJobWaitsForAFreeRoot` | `job_scheduler` | `NoMissedPromotion` |
| `PromotionIsFifo` | through `ImplementsRootMutex` | `FifoPromotion` |
| `EveryExitIsRecorded` | `job_scheduler` | `ExitsAreRecorded` |
| `ImplementsRootMutex` | `job_scheduler` | `QueueIsALockPerRoot` |
| `QueuedJobLeavesTheQueue` | `job_scheduler` | liveness: TLC only |
| `ProjectModelService!TypeOK` | `service` | `ServiceTypes` |
| `NoticedEditIsNotForgotten` | `service` | `NoticedEdits` |
| `ModelNeverGoesBack` | `service` | `NeverGoesBack` |
| `CurrentModelIsFresh` | `service` | `CurrentIsFresh` |
| `ImplementsModelRefresh` | `service` | `ServiceRefines` |
| `RefreshingEnds` | `service` | liveness: TLC only |
| `AppRuntime!TypeOK` | `app_runtime` | `AppTypes` |
| `TokensMatchEffectsInFlight` | `app_runtime` | `TokensExact` |
| `ReturnsStopped` | `app_runtime` | `ReturnedMeansStopped` |
| `CancelEndsExecution`, `ShutdownEnds` | `app_runtime` | liveness: TLC only |
| `ProcessSupervisor!TypeOK` | `process_supervisor` | `SupervisorTypes` |
| `NoOrphans` | `process_supervisor` | `NothingIsOrphaned` |
| `ForcedEndIsComplete` | `process_supervisor` | `ForcedMeansGone` |
| `CancelledChildIsReaped`, `CancelledCommandEnds` | `process_supervisor` | liveness: TLC only |
| `RecordingIsFaithful` | `logs` | `RecordingFaithful` |
| `NothingTwice` | `logs` | `NoRecordTwice` |
| `NothingSkipped` | `logs` | `NoRecordSkipped` |
| `LogsCommand!TypeOK` | `logs` | `LogsTypes` |
| `BufferIsExact` | `logs` | `BufferExact` |
| `InterruptEnds` | `logs` | liveness: TLC only |
| `Invocations!TypeOK` | `invocations` | `InvocationsTypes` |
| `SuccessIsTrue` | `invocations` | `SuccessesAreTrue` |
| `NothingIsTouchedUnasked` | `invocations` | `TouchesAreAsked` |
| `NothingAcknowledgedIsLost` | `invocations` | `AcknowledgedIsKept` |
| `TrustedOrAsked` | `invocations` | `CommandsAreTrusted`, from `~RemoteAnyTime` |
| `OnlyWholeModelsAreUsed` | `invocations` | `ModelsAreWhole` |
| `SelectionIsExact` | `invocations` | `SelectionsAreExact` |
| `LastStateIsShown` | `shell` | `ProjectIsShown` |
| `ScopeFollows` | `shell` | `ScopeIsShown` |
| `PausedPageStays` | `shell` | TLC only |
| `QuitEnds` | `shell` | liveness: TLC only |
| `ForceTerminatesTree` | violated in `process_supervisor_force` | |
| `StaleIsNeverCurrent` | violated in `service_edit_during_refresh` | |
| `TrustedOrAsked` | violated in `invocations_trust` | |
| `BootedEmulatorIsReported` | violated in `invocations_boot` | |
| `TerminalIsRestored` | violated in `shell_quit` | |

What is left to TLC throughout: liveness under fairness and `ENABLED`.  The
library's induction theorems take an operator as a parameter, which the provers
cannot instantiate; where induction over a set, a sequence or a number is needed,
`ProofFacts` and the proofs that use it go by the least counterexample instead
(`LeastNumber`, `SetInduction`).  This settles folds over the functions and sets
the proofs name (`FoldExists`, `FoldInTurn`, the lemmas about `Picked`), one fold at
a time; a page of the log view is made by three of them and has not been proved about
(`PausedPageStays`).  No module declares a `RECURSIVE` operator.

Assumptions: `SchedulerAssumption`, `ServiceAssumption`, `RuntimeAssumption`,
`SupervisorAssumption`, `RecorderAssumption`, `LogsAssumption` and `ShellAssumption`
type the constants; every capacity of a channel or queue is at least one.  `SessionAssumption`,
`InvocationsAssumption` and `BridgeAssumption` also say what the world outside the
program is like, see above.  TLC evaluates all of them in the runs.

## Not modelled

- The workflow executor, the device tracker, job history and session files, the
  output buffer of a job: no command creates them.
- Windows: job objects, the helper process, Ctrl-Break.
- The same-size same-time shortcut of the fingerprint and the legacy pair of
  cache files: both depend on metadata the models leave out.
- The watcher's event channel: its overflow flag makes any number of lost events
  one change, which is all the models keep of events.
- Text: the grammars of configuration, adb, JUnit and log lines, redaction,
  output formats, rendering and the mouse.
- The degraded scan of build files, which is sequential and only reported.
- The keys of the shell its backends always refuse: recording, export, process
  selection and copy (the interface flips its flags and shows the refusal); the
  exit prompt, since the real backend always reports no foreground job.
- The Gradle plugin, which runs inside Gradle.

## Plan

What would come next: the fingerprint with file metadata and the legacy pair, as
an extension of `AtomicStorage`; the task runner's lock per root as a second
implementation of `RootMutex`, once a caller shares one runner; `PausedPageStays`
as a theorem.

## Running

In this directory, `tlc -config JobScheduler.cfg JobScheduler.tla` checks a run
(`PROJECT.json` names the module and configuration of each) and
`tlapm JobSchedulerProofs.tla` checks the proofs.  Every run ends within two to
three minutes on two cores.
