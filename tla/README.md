# rey_lib: models, checks and proofs

TLA+ modules for the parts of `rey_lib` where the order of steps matters:

- the publication of a set of files,
- the handle a launcher holds on an application,
- the requests applications send each other,
- FTP synchronisation,
- the direction of a workflow, with its records, its batch and its end,
- live rollbacks of governed files beside the runs that work on them,
- loads into a database table on four providers.

TLC checks them on small instances. TLAPS proves every safety property that a
passing run checks, the three refinements included, for any number of calls,
files, applications, requests, steps, messages and failures; three of them, of
rollback and loading, under hypotheses that exclude what the code is known not
to keep. What is left to TLC alone is liveness.

Contents: [the system](#the-system) ·
[modules and runs](#modules-and-runs) ·
[fairness](#fairness) ·
[proofs](#proofs) ·
[disagreements](#disagreements-between-the-code-and-its-documentation) ·
[not modelled](#what-is-left-out) ·
[next](#what-could-come-next)

To parse, check and prove (in this directory):

    tlasany FileSetTransaction.tla
    tlc -config FileSetTransaction_one.cfg MCFileSetTransaction
    tlapm FileSetTransactionProofs.tla

`PROJECT.json` lists the runs, the source lines behind each definition, the
hazards and the theorems. Operators commented "Slip" (in `FtpSync`, "As it
would be ...") are not part of a specification: each is a plausible mistake in
the definition after it, kept to show which property notices it.

## The system

`rey_lib` is the library under a family of command-line and desktop
applications. Most of it is sequential: configuration in, files and database
rows out. What is hard lies in a few places.

| component | state | operations | interacts with | what is hard | what makes it correct |
|---|---|---|---|---|---|
| File-set publication, `files/file_transaction.py` | destinations, `.staged` and `.backup` files, `_StagedMember` | `publish_file_set` | layouts, profile layouts, sanitising, through the file system only | any file operation may fail, also while undoing; the process may die; other calls | all or nothing at set scope; a replaced file is never lost; nothing partial is ever seen |
| Launched application, `run/app_channel.py` `LaunchedApp`, `run/async_runtime.py` | process, channel, listener, `state`, `exit_code`, three queues, a loop on a thread of its own | `connected`, `events`, `output`, `send`, `stop`, `close` | the application process; `AppTransports` holds one per application | exit, attachment and close race; three tasks and four threads; bounded graces | callers are told the truth, everyone is told, `close` ends the application |
| Requests, `AttachedApp` (`run/app_channel.py`), `run/app_transports.py` | `_pending` of the asker, transports held, `_pending` of each transport, workers | `request`, `commands`, `launch`, `close`, `_push`, `_forward`, `_answer` | both, through the channels of the handles | late answers, crossing requests, either end ends, timeouts on both sides | replies are true and come once; nobody waits without being told |
| FTP synchronisation, `ftp/` | state file, failed file, local mirror, retry queue | `run_sync`: pass 1 retries, pass 2 lists and downloads | an FTP server that changes meanwhile | faults, runs cut short, a queue that two passes edit, a cap | nothing is recorded that did not arrive; no failure is forgotten; everything arrives |
| Workflow direction, `workflow/`, `run/run.py` | `_running`, direction steps, first failure, Runs | `direct`, `WorkflowStep.run`, `AppExecute.execute/finish` | the run log, Control, ambient binding | failure, refusal, dry run and `always_run`; an error or SIGTERM in the middle | the right steps are released, in order; the outcome is that of the steps; scopes undone on every path |
| Run log and ambient binding, `logs/` | nest level, anchors, frames by thread | `set_nest_level`, `enter`, `exit`, `append`, `bind_run`, `clear_run` | every component records through it | lost records, nesting left deep | a record hangs from the step it belongs to |
| Batch control, `control/control.py` | batch, root step, open step | `start_batch`, `start_step`, `end_step`, `finish_batch` | the control database, which may fail | closing what is open, once, when one call fails | no batch ends before its root; children closed first |
| Governed rollback, `files/rollback.py`, `files/manifest.py` | phase, preview, mutations in the database | `choose_scope`, `preview`, `execute`, `FileManifest.rollback` | runs that go on writing mutations | the preview is stale when executed; reversal and its record are two steps | history tells where each file is; only what was shown is reversed |
| Governed files, `files/file_routing.py`, `files/log_run_rollback.py` | where each file lies, its records | inventory, classification, routing, creation | rollback, workflow steps | the disk changes first and is recorded after | as above |
| Database loading, `db/data_loader.py`, `db/database_objects.py` | destination, staging table, the open transaction | `load`, `replace_rows`, `replace_table` | `load/` calls it, per file | what a refused statement undoes, promotion per provider | the destination is as it was, or holds exactly the new rows |
| Configured loads, `load/` | the files of an inbox and where they go | `ConfiguredLoad.load`, `load_files`, `_load_one_file` | database loading, file routing | one file of several fails; one connection for all of them | what is reported loaded is committed; one file's failure leaves the others' loads alone |
| Hosted objects, `run/hosted_objects.py` | objects held by id | `open`, `hold`, `release`, `serve` | commands of `AttachedApp` | release while others fail | every object is released once |
| AI tasks, `ai/` | task life cycle, running executions | `execute_task`, `cancel_task` | model services | a cancel racing the end of a run | a withdrawal ends only the execution it names |
| HTTP operations, `web_utils/` | none | `_sent` | web services | retries | bounded attempts, no wait below zero |
| Configuration, `config/` | the context | loading, merging, validating | all | none: sequential | |
| Messaging, `messaging/` | approvals | sending through a policy | external channels | none: sequential | |
| Everything else (classification, conversion, trees, repository map, artifacts, redaction, formatting ...) | none, or the data it is given | pure transformations and reports | | none | |

The first eleven rows are modelled, by seven groups of modules. Every hazard is
in `PROJECT.json`, at its line, with the properties about it.

How they meet: a launcher starts an application and keeps a `LaunchedApp` on
it; an execution context keeps one `AppTransport` on each handle and routes
requests between applications through them; an application answers what it is
asked through its hosted objects, or runs a workflow whose steps load, publish
or synchronise files; what they do is recorded through the ambient run log and
the batch of the process, and what they do to governed files can be rolled
back, also while another run works on them.

How the modules meet:

    AtomicPublication <- FileSetTransaction <- FileSetTransactionProofs
                                            <- FileSetRemainsProofs
    LaunchedApp       <- LaunchedAppProofs
    AppRouting        <- AppRoutingProofs
    FtpSync           <- FtpSyncProofs
    OrderedRelease    <- WorkflowDirection  <- WorkflowDirectionProofs
                         (with RunNesting, AmbientBinding, BatchControl)
    GovernedFiles     <- GovernedRollback   <- GovernedRollbackProofs
    WholeLoads        <- DataLoading        <- DataLoadingProofs

`AtomicPublication`, `OrderedRelease` and `WholeLoads` are abstract
specifications that the module beside them is shown to implement;
`WorkflowDirection` composes the three modules named after it, and
`GovernedRollback` the runs of `GovernedFiles` with the rollbacks. `MC...`
modules hold the instances.

## Modules and runs

### AtomicPublication, FileSetTransaction

`AtomicPublication` is what `publish_file_set` promises one caller: the set
goes from what it was to the complete new set or is left as it was. While the
call works each destination may be seen old, missing or new; the outcome is
what is atomic.

`FileSetTransaction` is the code. A step is one externally visible file-system
operation of one call, and each may raise `OSError` or be the last before the
process dies.

| code | model |
|---|---|
| `_validate`, `_with_redacted_companions` | `Validate`, `DeclaredTwice`, `Members` |
| `_check_collisions` | `Check`, one destination at a time, then `Decide` |
| `_stage_all`, `_stage` | `Stage`, `StageFails` (OSError; the member's own staged file may stay), `StageIncomplete` (a short file), `Staged` |
| `_discard_staging` | `Discard`, `Discarded` |
| `_commit_all`, `_backup` | `Backup`, `BackupFails`, `Install`, `InstallFails` |
| `_rollback` | `PutBack`, `Undo`, `Rollback`, `RollbackFails` |
| removal of the backups | `Cleanup`, `Return` |

`_StagedMember` is spread over the sets `existed`, `backed`, `committed`, by
call; `dest`, `staging` and `backup` are the file system. Paths are numbers, as
publication orders members by path. A file holds the content it had
(`Original`), the new content of a call (the call's name), or nothing (`Empty`,
what `mkstemp` makes).

| run | instance | shows |
|---|---|---|
| `publication_one` | one call, three paths, any members, policies and starting contents, two faults or a death | `AllOrNothing`, `OriginalRecoverable`, `StagedBeforeTouched`, `NothingLeftBehind`, and that the call implements `AtomicPublication` |
| `publication_shared` | two calls, two paths they may share, one fault | `NeverPartiallyWritten`: whatever calls do to each other, no path shows a partial file |
| `publication_overwritten` | two calls under "fail", two paths they may share, no fault | violated: `NeverOverwritten` |

Bounds: three paths give one member installed, one failing and one not
reached; a second fault hits the rollback or the cleanup of the first. Two
calls are enough for a race on one path, and the second path lets one of them
be half-way through its set.

### LaunchedApp

One handle from `__init__` on. The application process connects, greets with
the right or a wrong token, or a line that cannot be read, emits, writes, hangs up or dies when it likes. The
loop's tasks are `Accept` (`_accept`, one action between awaits; an exception
ends it, `GreetBreaks` or `Relay`), `Watch`
(`_wait`) and `ReadChunk` (`read_chunks`). Callers are `Connected`,
`ReadEvent` and `ReadOutput`, on the queues `_connected`, `_events`, `_output`.
The owner is a small machine for `stop()` and `close()`: `Ask`, `Grace`,
`Check`, `Terminate`, `Bounded`, `Kill`, `Reap`, `Release`, `Tell`. The test of
`exit_code` in `stop()` and what follows it are two steps, as the loop runs on
another thread.

| run | instance | shows |
|---|---|---|
| `handle` | two events, the second oversized, one chunk | `AttachedTruth`, `AnswerPutNeverBlocks`, `EventsComplete`, `ClosedMeansEnded`, `EndedIsLeftAlone`; under `FairSpec` also `EveryoneIsTold` and `CloseReturns` |

Bounds: two events make order and loss visible, one of them over
`MAX_MESSAGE_BYTES` ends the relay with the other already passed on; each task
runs once per handle, so nothing else repeats.

Two properties have exceptions that the code makes necessary. `EndedIsLeftAlone`:
an owner that had decided on a signal before the end was observed (`Decided`)
still gives that one signal; none comes after it, and the end stays known.
`EveryoneIsTold`: where an exception ended the accept task, readers of `events()`,
and waiters of `connected()` if it was the hello that raised, are told by the
close only.

### AppRouting

The applications of one context, attached, and their transports. `ask`, by
request, is where `AttachedApp.request` stands (`Register`, `Emit`, `Take`,
`GiveUp`); `Hear` and `HearEnd` are `commands()`; `Pump` and `Put` are `_push`
with its lookup under the guard and its put outside it; `forward`, by request,
is the worker of `_forward` (`Find`, `Await`, `Send`, `Sent`, `SendRaises`,
`Return`, `Reply`); `Drop` and `Finish` are `close` and `close_all`. When an
application hangs up (`HangUp`), `Exit` and `ContextDies` are the environment's. A timeout is always possible: the
code's clocks are not modelled.

| run | instance | shows |
|---|---|---|
| `routing` | two requests that cross; the application that is the target of one and the asker of the other may hang up, die or be closed, and the context may die | `RepliesAreTrue`, `AnsweredOnce`, `NeverTooFast`; under `FairSpec` `ToldOfClosing` and `AnsweredUnlessBroken` |

Bounds: requests are independent of each other but for the channels and
transports they share, and two that cross share all of them. The one fragile
application takes both roles. A destination that is not held is met through
transports that have been dropped.

`AttachedApp.close` is two steps, `HangUp` (`_release_waiting`) and
`CloseChannel`, as other threads go on in between. `ToldOfClosing` speaks of the
requests that were registered before the first; one registered between the two
may be told nothing until its own timeout. What is sent to a context that is
down is lost (`SendUp`).

### FtpSync

Repeated runs of `run_sync` on one connection. A run loads the state file
(`Start`), retries the queue (`Retry`, `Recover`, `RetryFails`, `Abandon`,
`RecordFailed`), lists each directory and downloads what is new (`List`,
`Skip`, `Pull`, `Fetch`, `FetchFails`), and writes the state (`OpenState`
truncates, `WriteState` writes). The state dict is a record of the recorded
versions, the mark and the queue; `Recorded`, `Requeued`, `Removed` and
`Incremented` are the operations of `state_manager.py`. A version is a
modification time. `Upload` changes the server at any moment; `Abort` is a
death, or an exception `run_sync` does not catch.

| run | instance | shows |
|---|---|---|
| `ftp_safety` | two directories, the second a glob, cap of one file, resync and stamp modes, three faults, two runs cut short anywhere | `RecordedWasDownloaded`, `OwedIsQueued`, `QueuedOnce`, `CapKept`, `Reported` |
| `ftp_liveness` | resync runs, no sizes, two faults and one run cut short, four sessions | `EverythingArrives` |
| `ftp_loss` | one file, one update, no fault | violated: `HeldOrFetched` |

Bounds: two versions of each file are one update in place; two files against a
cap of one leave one over; three faults are as many as `MaxRetries`, so that a
file can be abandoned. In `ftp_liveness` the faults and the aborted run
together are fewer than `MaxRetries`, which is the condition the property
states, and there are no sizes, as a size mismatch of a stale entry is the loss
that `ftp_loss` shows. Runs start again without end; a torn state file stops
them all, so `ftp_safety` does not look for deadlocks.

### OrderedRelease, WorkflowDirection (RunNesting, AmbientBinding, BatchControl)

One application process that directs a Workflow, one thread, and what may
break in between: a record that cannot be written, a required call of the
control database that raises, SIGTERM.

| code | model |
|---|---|
| `Workflow.direct`, `_resolve_span`, `_select` | `Direct`, `Span`, `Unselectable`, `Select` |
| `_direct` up to the loop, `_refused` | `Start`, `Complete` |
| the loop: held back or released | `HoldBack`, `Release`, `Held` |
| `WorkflowStep.run`, `AppExecute.execute` and `finish` | `Open` (STEP_START and `open_step`), `Operate`, `Close` (STEP_END and `close_step`), `Finish`, `StepRaises` |
| `_pre_execution_failure` | `Refusal` |
| `RunLog` levels and anchors | `RunNesting`: `SetLevel`, `Enter`, `Sibling`, `Exit`, `Recorded` |
| `bind_run`, `clear_run`, `reset_run_binding` | `AmbientBinding`: `Bind`, `Clear`, `Reset` |
| `start_step`, `end_step`, `finish_batch` | `BatchControl`: `StartStep`, `CloseStep`, `FinishBatch` (one required call at a time), `FinishBatchFails` |
| `_app_runtime`, `Terminated`, `collect_runtime` | `Terminate`, `End`, `FinishRun`, `Collect` |

`OrderedRelease` is the promise: the selected steps are settled one after
another in their order, as NOT RUN exactly when an earlier one failed and they
are not `always_run`, or when they are `apply_only` and the direction is dry;
and the state says FAILED exactly when one failed, or the direction was broken
off. The mapping takes the statuses of the step's Runs.

| run | instance | shows |
|---|---|---|
| `workflow` | three steps, of process A, B and A; each sensible request, step 2 `apply_only`, step 3 or both 2 and 3 `always_run`, two directions one after the other, two faults, SIGTERM anywhere; 6.2 million states | `ScopesUndone`, `OutcomeIsTrue`, `NothingOutsideTheRequest`, `RecordsUnderTheirStep`, `ShownIsThisDirections`, `NothingLeftOpen`, and that it implements `OrderedRelease` |

Bounds: three steps are one that fails, one `always_run` that fails after it
and one that is held back; interleaved processes tell a membership selection
from a positional one. The second direction meets what the first left in
`stepState`, `observed`, the nesting and the binding; it is for one step, or
after a direction of all of them for all again. One fault reaches each
handler, a second one befalls the handler itself: a refusal whose completion is
lost too, a batch that cannot be finished after a direction that raised.

Records are those that open, close and complete, what an operation writes
(EVIDENCE), and NOTICE: what may be logged at the level of a step before its
STEP_START, the event of its being held back, a warning, the SQL of a call of
the control database. The first record at a level is its anchor, so what a
step writes after that hangs from a NOTICE where there was one (`Noted`).
`RecordsUnderTheirStep` says that it is a record of the same step; that it is
not always the STEP_START is disagreement 20. A record that is lost may have
left a NOTICE of the failure, too (`Lost`).

### GovernedFiles, GovernedRollback

`GovernedFiles` is the life of governed files and their records: `Inventory`,
`Classify`, `Select`, `Move`, `Publish`, and `Log`, the record that follows
what was done to the disk or is lost (`LoseEvidence`). What the control
database answers (`Located`, `RestoreTo`, `Within`) is external, modelled as
the code relies on it.

`GovernedRollback` adds `Rollback` objects, one operation at a time each
(`_Operation`), beside those runs. `execute` is several steps: `Execute`
compares what a request answers now with the preview, by ids; `Request` is the
second request, the one `FileManifest.rollback` makes; then, newest first,
`Reverse` undoes one record on the disk and `Forget` deletes it; `Stop` leaves
the rest at the first that cannot be undone. Then, of each file something was
reversed of, `Look` asks whether it has records left and `Ungovern` deletes its
manifest if it had none: two calls of the control database, between which a run
may record (`overtaken`). `Break` is a failure anywhere, expected or not, or the
death of the process.

| run | instance | shows |
|---|---|---|
| `rollback` | two files, one run, four records, one Rollback by mutation 2; 1.3 million states | `HistoryTells`, `GovernedUnlessOvertaken`, `BoundaryKept`, `ReversedWasShownUnlessChanged` |

Bounds: four records are two of each file, or a history of one file that is
cut in the middle, and mutation 2 is a boundary inside both: in the middle of one
file's history, or the first of the second file. Rollbacks by run and by file,
which take a subset of what a boundary over the installation takes, are covered
by the theorems only. There is one run and one Rollback, because `HistoryTells`
is not true of more: a run-scope rollback of an older run takes records from
the middle of a history, and a crash between a reversal and the deletion of
its record then leaves the file where neither the newest record nor what came
before it says; two Rollbacks at once do the same to each other. The code has
no guard against either (see disagreements). The other three properties are
proved for any number of both.

### WholeLoads, DataLoading

`WholeLoads` is what the docstrings of the loader and of `replace_rows` and
`replace_table` promise: a file's records come into the destination all at
once and once each, in place of what was there or beside it, or nothing
changes.

`DataLoading` is a batch of files loaded by one or two processes on each of
the four providers. A provider commits every statement by itself (PostgreSQL,
DuckDB) or works in a transaction (MySQL, SQL Server), whose DDL may commit
what is open (MySQL); `Writes`, `Defines`, `Committed` and `RollsBack` say
that, and are external.

| code | model |
|---|---|
| `ConfiguredLoad.load`, `load_files`, `_load_one_file` | `Start`, `Take`, `Missing`, `Reject`, `Read`, `LoadFromPath`, `Finish` |
| `DataLoader.load`, `_load_through_staging`, `_insert_widening` | `Clear`, `Create`, `Insert`, `Commit`, `Remove` |
| `replace_rows`, `replace_table` per provider | `PromoteAtOnce` (PostgreSQL, DuckDB), `PromoteBySwap` and `Retire` (MySQL), `PromoteTogether` (`_committed_together`) |
| row counts, movements, error handlers | `Report`, `RouteLoaded`, `StatementFails`, `Fail`, `Leave` |
| SIGTERM, death | `Terminate`, `Die` |

| run | instance | shows |
|---|---|---|
| `loading` | two files of two inserts each, every load but a native replacement, two processes that overlap only where they add, SIGTERM anywhere but inside `_committed_together`; 0.4 million states | `RowsAreReported`, `NothingHeldAtRest`, and that it implements `WholeLoads` |
| `loading_native` | a declared file and an existing table on DuckDB, replaced | violated: `ReplacedOrUnchanged` |

The second half of `_insert_widening`, which widens a column and inserts again,
is not there: no provider raises what would start it (disagreement 31), so an
overflow is an insert that is refused (`StatementFails`).

Bounds: two inserts are one that is committed and one that fails after it. Two
files on one connection show what one leaves open for the other. The exclusions
are each a loss that the code has (see disagreements), and the rest of the state
space is complete: jobs are enumerated, not chosen.

## Fairness

Safety runs use none. `LaunchedApp!FairSpec`: the loop runs its tasks, as an
event loop does; callers that have called go on; a `close()` begun goes on; and
a process that was sent SIGKILL ends. Nobody has to stop or close, and the
application has to do nothing. `AppRouting!FairSpec`: pumps, workers and the
asker's own threads run, and a `close()` begun goes on; no application has to
answer or to end, and the asker's timeout is not relied on. It is one condition
for all threads (`Running`): all requests together take finitely many steps, so
that some thread goes on whenever one can means that in the end none can. `FtpSync!FairSpec`: runs are started again and
go on, as a scheduler does; the server, the network and deaths are free. All of
it is weak fairness. Actions are grouped where one thread does them, so
fairness says that the thread goes on and not what it chooses.

`WorkflowDirection`, `GovernedRollback` and `DataLoading` state no fairness:
each is a thread that returns, fails or is ended, and what matters is what is
true then. Deadlock is not looked for where the system may rightly stop: a call
that has returned, a handle that is closed, requests that are over, a process
that is gone.

## Proofs

Every module of proofs extends the module it is about. Nothing is assumed but
the named `ASSUME`s on the constants, which TLC evaluates in every run.

### FileSetTransactionProofs

For any set of calls, paths and companions and any number of failing
operations:

| theorem | statement |
|---|---|
| `TypeCorrect` | `Spec => []TypeOK` |
| `OutcomeIsAtomic` | `ExclusiveSpec => []AllOrNothing` |
| `OriginalsSurvive` | `ExclusiveSpec => []OriginalRecoverable` |
| `ImplementsAtomicPublication` | `ExclusiveSpec => Atomic!Spec`, with `Outcome` and the destinations of the call as the refinement mapping |

Assumptions: `PathAssumption` (paths are ordered and each has its companion
among them), `ContentAssumption` (the kinds of content differ),
`FaultAssumption`, `SubjectAssumption` (the theorem is about any one of the
calls). `ExclusiveSpec` adds that no two calls share a destination when they
are made. The code takes no lock, so without it none of the last three holds:
two calls under "fail" both find a path free and both publish to it.

Why an inductive invariant: `AllOrNothing` speaks of the end of a call and says
nothing of the middle. `IInv` says where each member stands at each stage.
Before the commit nothing was touched (`PreludeInv`), nothing existing is a
directory (`CheckInv`), and `existed` is exactly the visited members that were
there (`StageInv`). During the commit each member has one of four shapes
(`Shape`): untouched, moved aside, replaced, created; it is installed exactly
when the loop has visited it (`CommitInv`). During the rollback each member
already visited is as it was, each other one still has a shape from which it
can be restored (`RollbackInv`), and not all were installed: that is what makes
the end of the rollback different from the end of the commit. Two stretches
(`SealedInv`, `BrokenInv`) say what is true for ever after.

The argument: `OwnCall` (a step of a call keeps its own invariant, one case per
action), `OtherCalls` with exclusive destinations (a step keeps everyone
else's), `Inductive`, `Invariance`. The theorems follow from the invariant;
the refinement uses besides that a step changes at most one destination
(`OneDestination`) and how the outcome may change (`OutcomeSteps`).

### FileSetRemainsProofs

What a call keeps beside its destinations:

| theorem | statement |
|---|---|
| `FilesAreWhole` | `Spec => []NeverPartiallyWritten` |
| `StagedFirst` | `ExclusiveSpec => []StagedBeforeTouched` |
| `NothingIsLeft` | `ExclusiveSpec => []NothingLeftBehind` |

`FilesAreWhole` needs no exclusiveness: whatever calls do to each other, they
move whole files. Its invariant `WholeInv` adds that a file moved aside is
whole, which is why a backup whose move failed must not be counted as one. The
other two rest on `RemainsInv`: which staged files there are at each stage
(`StagingInv`; where staging failed, that of the member it failed for may stay
to the end), and where the backups are (`BackupInv`: a file moved aside and
not yet replaced for good is in its backup or back at its path, never both).

### LaunchedAppProofs

For any number of events and chunks and any set of oversized events:

| theorem | statement |
|---|---|
| `TypeCorrect` | `Spec => []TypeOK`, with what is on the wire (`WireInv`) |
| `AttachedIsTrue` | `Spec => []AttachedTruth` |
| `PutNeverBlocks` | `Spec => []AnswerPutNeverBlocks` |
| `ClosedIsEnded` | `Spec => []ClosedMeansEnded` |
| `EndedLeftAlone` | `Spec => EndedIsLeftAlone`, a property of steps |
| `EventsAreComplete` | `Spec => []EventsComplete` |

`AnswerInv` relates the task that answers `connected()`, its queue of one place
and the exit: the task that may still put an answer finds the queue empty.
`CloseInv` says what the owner knows at each place of `stop()` and `close()`,
`SeenEnded` that whoever has seen the exit code is past every signal.
`EndedLeftAlone` is a property of two moments: once the end is observed and the
owner has not decided on a signal, the signal given last stays the last and the
end stays observed.

`StreamInv` follows each event from the wire through the queue to the reader.
What was heard and what is queued before the first end are the events from the
first on, without a gap (`OrderInv`); what was emitted and is not relayed yet is
on the wire, in order (`TransitInv`); and the end of an attached application's
events is the last thing in its queue, put there when its connection was closed
(`EndInv`). `EndInv` stops at the close of the loop: `close()` ends the events a
second time.

### AppRoutingProofs

For any number of applications and requests, any asker and target of each
(`RouteAssumption`), any of them fragile:

| theorem | statement |
|---|---|
| `TypeCorrect` | `Spec => []TypeOK` |
| `AnswersAreAwaited` | `Spec => []NeverTooFast` |
| `ToldTheTruth` | `Spec => []RepliesAreTrue` |
| `RepliedOnce` | `Spec => []AnsweredOnce` |

They are four layers, each on those before it. `TypeInv` adds to the types that
what is commanded names an application. `RouteInv`: a request's envelope is on
its way once, and while it is no worker has it; so the worker of a request
takes each step once and only goes on (`Onward`). `CommandInv`: whatever is
served, answered or on its way back was sent, and its worker waits or has given
up. `TruthInv`: a reply is true wherever it is, with its worker, in a channel
or with the asker; it stays so, as what was served stays served, what was
dropped is not held again, and who died stays dead. `OnceInv`: a reply is in
one place, and its worker is done.

### FtpSyncProofs

For any directories, files, versions, sizes, cap, limit of retries, and any
number of faults and runs cut short:

| theorem | statement |
|---|---|
| `TypeCorrect` | `Spec => []TypeOK` |
| `CapIsKept` | `Spec => []CapKept` |
| `RecordedCame` | `Spec => []RecordedWasDownloaded` |
| `OnceInQueue` | `Spec => []QueuedOnce` |
| `OwedStaysQueued` | `Spec => []OwedIsQueued` |
| `EveryFileReported` | `Spec => []Reported` |

Assumptions: `PathsAssumption` (the directories are a list, share no file, and
hold finitely many), `NumbersAssumption`, `ChoicesAssumption`.

`CapInv` counts what is listed and under way with what is done. `VersionInv`:
what is listed, queued or recorded is no newer than what the server holds, so a
download brings at least what is recorded of it. `QueueInv` allows one entry
past its sessions, that of the file being given up. `PassInv` says that what
pass 1 has still to retry is in both queues, the state file's and the run's,
and `OwedInv` that both hold what is owed. `ReportInv` ties them together: the
property speaks of the state file between runs, but a run may be cut short
after it opened a file for writing and so lost the copy held. Pass 1 does that
only to what the state file has queued. Pass 2 does it to what is newer than
what *the run* has recorded, and that the state file sees it as newer, too, or
has it queued, is the part of the invariant that is easy to overlook
(`Behind`): a stale retry may record an older version than the state file's.

The queue of the model is filtered by position (`Dequeued`) and not with
`SelectSeq`, whose recursion the prover cannot follow; `PlacesFill` and
`DequeuedIs` prove that nothing else is lost or doubled.

### GovernedRollbackProofs

For any number of files, records and, but for the last theorem, runs and
Rollbacks (the instance has one of each):

| theorem | statement |
|---|---|
| `RecordsAreGoverned` | `Spec => []GovernedUnlessOvertaken` |
| `ReversedWasShown` | `Spec => []ReversedWasShownUnlessChanged` |
| `BoundariesAreKept` | `Spec => []BoundaryKept` |
| `HistoryIsTold` | `Spec => []HistoryTells`, of one run and one Rollback, where routes lead on |

The first needs to know what a Rollback has found: of a file it saw without
records there are by now only records written since (`DropsInv`), so that
deleting its manifest strands no other (`FilesRecorded`); and runs record only
what is governed (`RunsRecord`). The second rests on why comparing ids is enough. No id is
given twice, and a record is told by its id among all that are there or that
any preview shows, those deleted meanwhile included (`IdsTell`); so equal ids
mean equal records (`SameIdsSameRecords`). `ShownInv` follows one execution
from the comparison through its reversals.

`BoundaryInv` says of every preview that is offered what `BoundaryKept` promises
of it. It holds of the answer the preview was made from, because that is cut at
the latest record of a type, and there is a latest one: ids are numbers, and
none is given twice.

`HistoryIsTold` has two hypotheses. `OneAtATime`: one run and one Rollback; with
more, disagreement 23 is a counterexample. `RoutesLeadOn`: files go from the
inbox on towards the archive, as the routes of the instance do. Nothing in
`file_routing.py` requires it of its callers; where a route leads back, TLC
shows that a file which moves away and back between a rollback's request and its
reversal is taken from where its newer record, unseen by that rollback, has it.

`TellsInv` has three parts. `PlacesInv`: what records and runs in hand name are
places of their file. `FileInv`, of each file whose evidence is whole: it lies
in one place; its places go on from record to record; it is at its newest
place, or where that record came from, or a run has just moved it; what was
made from it is accounted for. `UnderWay`, of a Rollback between its request and
its end: the records it has left are their file's history without a gap
(`RowsInv`), and the newest of them is the file's last, or a run went on in the
meantime and the file is where its newer record says (`Overtaken`); a change
that is undone leaves its file back until the record is deleted (`UndoneInv`).
`HistoryTells` alone is not inductive, as it says nothing of what a rollback
will take next.

### WorkflowDirectionProofs

For any workflow, any configured rules, any requests and any number of
directions and faults:

| theorem | statement |
|---|---|
| `TypeCorrect` | `Spec => []TypeOK` |
| `ScopesAreUndone` | `Spec => []ScopesUndone` |
| `OutcomesAreTrue` | `Spec => []OutcomeIsTrue` |
| `ShownIsOfThisDirection` | `Spec => []ShownIsThisDirections` |
| `NothingIsOutsideTheRequest` | `Spec => []NothingOutsideTheRequest` |
| `NothingIsLeftOpen` | `Spec => []NothingLeftOpen` |
| `RecordsHang` | `Spec => []RecordsUnderTheirStep` |
| `DirectionReleasesInOrder` | `Spec => ImplementsOrderedRelease` |

Assumptions: `StepAssumption`. A workflow is a list, hence finitely many steps;
every identifier means some of them; `Anything`, the argument that is not
given, is no name; the root step of the batch is no step of a direction; and
the application's log is a run.

Most of them follow from `DirectionInv`. Its parts say what is open while a
direction goes on (`FlowInv`, `BindingInv`), that one Run at most is open, that
of the step in hand or the one an error left so (`RunsInv`), that steps are
taken up in their order (`TurnInv`), that the first failure is known as long as
a step of the direction failed (`FailureInv`), that a step is held back exactly
when it is to be (`HeldInv`), and that what is reported and shown is what the
Runs came to (`OutcomeInv`, `ObservedInv`).

`BatchInv` is about the batch: until the process ends, it and its root are open
and what is bound beneath is the step at work; without a fault every step opened
is closed or bound. `NestInv` says at which levels the application, the
direction and the step have their anchors, if those were not lost; `RecordInv`
follows from it, since the parent of a record is the anchor of the greatest
level above its own (`AnchorIs`), at the level of a step one of that step's own
records (`AtStep`), and what an operation leaves deeper than its
step is gone when the next one begins.

For the refinement, a step of the code is one of `OrderedRelease` or none. What
settles a step is the end of its Run: in its turn, because the step in hand is
the first of those without an outcome (`TurnInv`), and as NOT RUN exactly when
a failure was noted or the rules bar it (`FailureInv`, `HeldInv`). At first
`OrderedRelease` allows any `barred` steps, since a workflow's rules are there
before anything is requested.

### DataLoadingProofs

For any files, batches, loads, providers and loaders, with statements that
fail, SIGTERM and deaths:

| theorem | statement | hypotheses |
|---|---|---|
| `TypeCorrect` | `Spec => []TypeOK` | |
| `RowsAreThere` | `Spec => []RowsAreReported` | |
| `NothingIsHeld` | `Spec => []NothingHeldAtRest` | `InTurn` |
| `LoadsAreWhole` | `Spec => ImplementsWholeLoads` | `InTurn`, `ReadsNoneItself`, `Undisturbed` |
| `AddedFilesAreWhole` | `Spec => ImplementsWholeLoads` | every load adds |

Assumptions: `LoadingAssumption` (there is at least one batch,
loaders are finitely many, no file is the row that was there before,
and configured loads append, as `configured_load.py` has it) and
`NoTxnAssumption` (no transaction is no database).

Each hypothesis sets aside a case in which the code does not keep the promise.
`InTurn`: loads that replace do not run side by side (29). That no transaction
stays open between files holds without it (`NothingStaysOpen`).
`ReadsNoneItself`: no existing table is replaced by a load that DuckDB reads by
itself (2, shown by `loading_native`). `Undisturbed`: SIGTERM does not reach
between the delete and the end of the insert of a replacement (26). The
instance of `loading` satisfies all three. Where
every load adds, none is needed (`AddedFilesAreWhole`). Loads that commit piece
by piece (27) are, as in the run, not those the refinement speaks of;
`RowsAreThere` is about them, too.

`Base` is the types, where a loader may stand with a transaction open (`Stands`,
`Holds`), and that one transaction at most is open (`Single`: a transaction that
wrote to the tables keeps others from writing). `AddsInv`, of loads that add,
counts: of each batch of a file the destination holds as many copies as were
reported and as loaders have in hand, committed and not yet reported (`Counts`),
and a transaction holds what is committed and what its loader inserted
(`Collects`). A file in the archive has its records in the table because it is
routed after it was reported (`Archived`). `TidyInv` says which companion tables
there are at each place of a load that replaces. `ReplacesInv` says what its
staging table (`Aside`), or the table it creates (`Straight`), holds there: the
batches up to the one at hand, each once, while the destination is what it was.

### Only checked on instances

Liveness (`EveryoneIsTold`, `CloseReturns`, `ToldOfClosing`,
`AnsweredUnlessBroken`, `EverythingArrives`): fairness and ENABLED are outside
what the prover handles.

Each safety property of a passing run is stated by a theorem, three of them
under hypotheses: `HistoryTells`, `NothingHeldAtRest` and
`ImplementsWholeLoads`.

No module that is proved about declares a RECURSIVE operator.

## Disagreements between the code and its documentation

Shown by a run:

1. `ftp_loss`: a file downloaded by pass 2 stays in the retry queue
   (`sync_engine.py:300`); its stale entry later deletes the good copy and is
   abandoned while the state says it was downloaded, against "never lost"
   (README.md l. 140).
2. `loading_native`: a provider that reads a file by itself is not told the
   policy of the load (`load_operation.py:1313`), so a replacement adds rows,
   against "whether the destination's existing contents are removed" (l. 559).
3. `publication_overwritten`: collisions are looked for once, before staging
   (`file_transaction.py:271`); a file that appears later is replaced under
   "fail" too, against "Existing destinations are never silently overwritten"
   (l. 127). `Decide` and `Install`.

Met while modelling. The models behave this way too where a definition is
named; no run is kept for them.

Publication, `file_transaction.py`:

4. Two errors of staging leave files, against "discard all staging on failure"
   (l. 242) and "Never leave a partial staged artifact behind" (l. 303). Line
   308: a short staged file raises an error that `_stage_all` does not catch,
   and the members staged before stay (`StageIncomplete`). Lines 304 to 307: a
   `stat` or an `unlink` that fails leaves the member's own staged file, which
   is not in the list that is discarded (`StageFails`).

Applications, `app_channel.py`, `app_transports.py`, `async_runtime.py`:

5. `app_channel.py:193`: a hello handled after the exit or a stop sets the
   state back to CONNECTED, against l. 86. `Greet` after `Watch`.
6. `app_channel.py:227`: the end of the output is queued when the exit is
   observed, not when the pipe ends, against "until it closes" (l. 259).
7. `app_channel.py:297`: `close()` of an application that runs on after hanging
   up raises from its `send` and leaves it running, against "End the
   application, then release the loop" (l. 288).
8. `async_runtime.py:104` and `108`: a line that is over-long or no JSON ends
   the accept task by an exception. As the hello (`app_channel.py:184`) it ends
   it without `_refused()`, and neither `connected()` nor `events()` is told
   that the application ended before `close()`; as an event (l. 196) it keeps
   `events()` from ending until then, against l. 248. `GreetBreaks`, `Relay`;
   `EveryoneIsTold` excepts exactly this.
9. `app_transports.py:383`: a target whose channel is closed when the command
   is sent ends the worker, and the asker is not answered, against the promise
   of l. 366. `SendRaises`; `AnsweredUnlessBroken` excepts it.
10. `app_transports.py:202`: an answer that comes after the worker's timeout is
    pushed to the subscribers, against l. 135. `pushed`.
11. `app_channel.py:393`: a reply that comes after the asker gave up is yielded
    as a command, against l. 383. `strays`.
12. `app_channel.py:389`: an application that addresses itself is handed its
    own command as the answer, against l. 408. No instance has such a request;
    the proofs of routing include it.
13. `app_channel.py:476`: `close()` tells those that wait before it closes the
    channel (l. 477); a request registered and emitted in between waits for its
    own timeout, against "When the channel closes, every request still waiting
    is told so" (l. 385). `HangUp`, `CloseChannel`; `ToldOfClosing` speaks
    of the requests registered before.

FTP, `sync_engine.py`, `state_manager.py`:

14. `sync_engine.py:185`: an abandoned file can be queued again by pass 2 of
    the same run, against "abandon permanently".
15. `state_manager.py:162`: the state file is truncated and then written; a run
    cut short in between leaves one that no run can read, against l. 16. The
    constant `Tears`; the properties of the queue speak of a state file that
    can be read.

Workflow, `run.py`, `workflow.py`, `control.py`, `record_enrichment.py`:

16. `run/run.py:399`: an exception of the logging, or SIGTERM, leaves
    `execute()` before `finish()`: the Run stays RUNNING and has no end.
    `ScopesUndone` says that it is this one Run only, and never after a
    direction that returned.
17. `workflow.py:761`: the record of a step that is held back is written
    outside the handler; when it fails the direction ends without its
    RUN_COMPLETE. `HoldBack`.
18. `control.py:702`: a failed `end_step` leaves `finish_batch` before the
    batch is ended, and a step whose end failed stays open under a batch ended
    later, against "Close what is open, innermost first, then end the batch"
    (l. 671). `FinishBatchFails`; `NothingLeftOpen` promises that all is closed
    only where no required call failed.
19. `record_enrichment.py:307`: two threads that bind distinct runs and clear
    them in another order restore a run that has ended. `AmbientBinding` allows
    it; one direction at a time does not meet it.
20. `workflow.py:760`, `workflow_step.py:208`, `procedure_map.py:512`: the event
    of a step that is held back, a warning, and the SQL of a call of the control
    database are recorded at the step's level before its STEP_START and become
    its anchor. The step's evidence then hangs beside STEP_START from that
    record, against "Handler, lifecycle, file and result evidence sits beneath
    STEP_START" (`run/run.py:336`). `Noted`.

Rollback, `rollback.py`, `manifest.py`:

21. `rollback.py:230` and `235`: the comparison and the rollback are two
    requests; a record written in between is reversed unseen, against "applies
    exactly what that preview showed" (l. 12). `ReversedWasShownUnlessChanged`
    excepts it.
22. `rollback.py:240`: an exception that is neither a `ValueError` nor an
    `AppError` leaves the phase EXECUTING, from which nothing is offered.
    `Break`.
23. A rollback of one run while a later run's records stand on top of it, or
    two Rollbacks at once, with a crash before the record of a reversal is
    deleted: a file is then where nothing says. So it is where a route leads
    back and a file passes the same place twice while a rollback is under way.
    Nothing prevents these; the instance of `rollback` has none of them.
24. Routing, and a reversal, onto a path where a file of that name lies replace
    it. Left out of the model: files have names of their own.
25. `manifest.py:611`: whether a file has records left is one call and the
    deletion of its manifest another; a record a run writes in between belongs
    to a file that is no longer governed, against "Only once every mutation of
    it has been reversed and deleted" (`control.py:2132`). `Look`, `Ungovern`;
    `GovernedUnlessOvertaken` excepts exactly these records.

Loading, `data_loader.py`, `database_objects.py`, `load_operation.py`:

26. `database_objects.py:2558`, `data_loader.py:233`: SIGTERM between the
    delete and the end of the insert of a replacement is no `DatabaseError`;
    nothing rolls back, and the removal of the staging table commits the
    delete. The rows are lost, against "costs nothing" (`data_loader.py:175`).
    The constant `TerminatedAt` keeps SIGTERM out of those two steps in
    `loading`.
27. An append to the destination itself that fails on PostgreSQL or DuckDB
    leaves the batches before it. These loads (`Piecewise`) are left out of
    the refinement of `WholeLoads`; `RowsAreReported` covers them.
28. `database_objects.py:1589`: a retired table whose removal failed stays, and
    the next swap fails on its name, against "a companion a failed run left
    behind is found again by the next one" (l. 2570). `PromoteBySwap`.
29. `data_loader.py:206`: the staging table has a fixed name beside the
    destination, so two replacements of one destination take each other's rows.
    The constant `Overlapping` lets only loads that add run side by side.
30. `load_operation.py:1432`: a file whose load is committed and whose movement
    fails, or whose process dies first, is found and loaded again.
31. `data_loader.py:264`: the retry after widening a column never happens. Each
    `bulk_insert` raises a plain `DatabaseError` (`postgres_utils.py:656`,
    `mysql_utils.py:142`, `sqlserver_utils.py:329`), which no
    `is_truncation_error` recognises, against "including the overflow
    `is_truncation_error` recognises" (`database_objects.py:1344`) and "the
    truncation retry included" (`data_loader.py:175`). The model has no retry.
32. `load_operation.py:148`: `load_files` passes `ConfiguredLoad.load`
    (`configured_load.py:183`) a connection it does not take, so the batch over
    an inbox raises `TypeError` before it selects a file. The model starts the
    batch as `ConfiguredLoad.load` has it, and as its tests call it.
33. `database_objects.py:1192`: "a table made for a load that then fails goes
    away with it" does not hold on PostgreSQL and DuckDB, whose connections
    commit every statement: the empty table stays. `Create`.

## What is left out

- File publication: the test and the move of one step of `_rollback` are one
  step; redacted companions of the last path are the path itself, which makes
  that request a refused one; what the payload is.
- The handle: the timeouts of `connected()`, `events()` and `output()`, which
  only end that call; a `send()` other than that of `close()` (it is in
  `AppRouting`); a second `close()` after one that raised; `terminate()` on a
  process asyncio has already collected.
- Routing: `launch` and `establish` (every transport starts held); subscribers;
  payloads that are no command; clocks.
- FTP: the protocol and its reconnects, name filters, chunks, files that leave
  the server, a listing's order (any). A server without sizes is a constant
  `Size`.
- Workflow: what the operations of a step do; which of the records that may
  precede a STEP_START there are (any, or none); the outputs of the log one by one, and its masking;
  other threads of the process.
- Rollback: occupied paths; kick-outs of files nobody governs; the scopes of
  batches and file types, which a scope of one run stands for; queries that
  only read.
- Loading: files as targets and queries as sources; transforms, which change
  what a record holds and not what is committed; SQL after a load. The drivers
  are external: what a statement commits is what `db/` relies on.

Not modelled at all, and why:

- Hosted objects: one registry on the thread that serves it; a `release()` that
  raises while serving ends leaves the objects after it held, which the code
  shows at a glance.
- AI tasks: one execution per task and a token under a lock; the rest is a
  service's answer.
- HTTP, configuration, messaging: sequential code without state of its own.
- Run state and identity, log records and projections: they read what was
  written.
- Database access: calls into drivers, whose transactions are theirs.
- The rest (classification, conversion, the repository map, trees, artifacts,
  installation, profiling, redaction, formatting, viewers, tools, encryption):
  transformations of what they are given. They are most of the source, and a
  model of them would repeat them.

## What could come next

- Proofs: what can still be said of where a file is when several runs and
  Rollbacks work on it, a weaker `HistoryTells`.
- Models: `launch` and `establish` in front of `AppRouting`; the hosted objects
  behind `Hear`; the second output of the log.
