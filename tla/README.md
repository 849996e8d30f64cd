# Mutation Forge Lab: TLA+ models of the native experiment and the sustained search

This directory holds TLA+ models of the program kept in this repository, the
TLC configurations that check them on small instances, and theorems about them
proved with TLAPS. The models follow two programs: the code under
`src/mutation_forge/experiment/`, the durable `mforge experiment` command
(`run`, `stop --final`, crash, resume, and the coordinated search in between),
and the sustained search under `src/mutation_forge/native_v3_python/`.
Paths below are relative to `src/mutation_forge/` unless they name a document.

| module | role |
| --- | --- |
| `ExperimentLifecycle.tla` | processes, ownership, sessions, checkpoints and the experiment row of one workspace |
| `ExclusiveWorkspace.tla` | abstract: contents change only in the hands of one holder |
| `GenerationCoordinator.tla` | one search over its sessions: queueing, workers, collection, repair, selection, budgets, resume |
| `TurnStore.tla` | what is kept of a model turn and what it is charged: attempts, manifests, archives, rows, charge events, the hour |
| `TurnRequirements.tla` | abstract: a settled answer is the answer of its turn for good |
| `LedgerConnection.tla` | the one SQLite connection of a session, statement by statement, and the event hub on it |
| `CandidateEvaluation.tla` | the streamed evaluations of a generation: pool, callbacks, restored rows, selection, endings |
| `Certification.tla` | abstract: what the inspection of a graph of score zero promises |
| `CounterexamplePipeline.tla` | that inspection file by file, by processes that race and die |
| `ScientificSearch.tla` | the sustained search: generations, reservations, provider lanes, retries, repairs, commit order, resume |
| `EvaluatorPool.tla` | its case scheduler: panels, workers, permits, checkpoints, futures |
| `ProviderLanes.tla` | its provider: processes, durable threads, forks, contracts and retained answers |
| `*Proofs.tla` | TLAPS proofs about the module they are named after; `TurnStoreProofs` has those about `LedgerConnection` too |
| `MC*.tla` | the values of the constants for TLC, one module for each system above |

To check: `tlc -config LifecycleExclusive.cfg MCExperimentLifecycle.tla`, and so
on as `PROJECT.json` pairs them; `tlapm ExperimentLifecycleProofs.tla` and the other
`*Proofs.tla` for the proofs (the long ones take some minutes each).

## 1. Inventory

### The experiment command (the core)

**Experiment lifecycle** (`experiment/service.py`, `state.py`, `sessions.py`,
`checkpoints.py`, `layout.py`). State: the directory tree of a workspace, made
visible by one rename; the SQLite tables `experiment` (one row: state, reason,
current session, checkpoint pointer, cumulative counts), `sessions`,
`ownership` (at most one row: process id and session number), `checkpoints`,
`events`, `provider_turns`, `candidates`, `evaluations`; checkpoint files that
name the digest of their predecessor; one directory per session. Operations:
`ExperimentService.run` and `final_stop_experiment`, each by a process of its
own; `status` only reads. Hard: the database and the files are two stores
without a common transaction, a process may die between any two writes, two
processes may start at once, and an exception may come after the outcome is
durable. Correct when: one process works at a time; the database never names a
file that is not there; a workspace at rest can be resumed; terminal states
stay; each session is finished once; every process gives ownership back.

**Generation coordinator** (`experiment/generation.py`). State: the generation
checkpoint (slots, reserved turns, next generation, selections called back),
the thread pool, the local results, the stop reason. Operations: recover or
queue each slot, call the provider, collect in completion order, retry, repair
in slot order, select, advance. Interacts with the adapter by callbacks
(`on_generation`, `resume_slot_validator`, the budget predicates). Hard: answers
in any order, reservations taken before and released after a call, stop, expired
budget and Ctrl-C between any two of them, and a resume from stores written at
different moments. Correct when: the turn count is exact over sessions, final
slot results stay, a repair is marked before it is paid, the search advances
only from complete generations, the slots of a generation share one parent
vector, and every session ends.

**Native adapter** (`experiment/native.py`, `control.py`). State: retained turn
directories, candidate registry, parent assignments, the streaming evaluation
set. Connects coordinator, provider, artifacts, ledger and evaluation pool, and
turns the summary of a search into the state of the experiment.

**Turn and token ledger** (`state.py:553-1012`). State: rows of
`provider_turns`, charge events, cumulative turns and tokens. Operations:
`record_provider_turn` in one transaction, the backfill of charge events, the
rolling hour. Hard: the same turn reported more than once with other totals,
and rows written by older versions. Correct when: a turn is counted once, tokens
as much as was last observed, and the hour is never undercounted.

**Turn artifacts and manifest** (`artifacts.py`, `lock.py`, `layout.py`). State:
a directory per turn with its own manifest, retry archives, and the manifest
of the workspace. Hard: many files and one manifest, reconciled after a crash.
Correct when: a retained turn is complete or not there at all, and the manifest
can always be brought back in line with the files.

**Candidate evaluation** (`experiment/native.py`, `experiment/evaluation.py`,
`evaluation/`). State: a process pool and its futures, the set of published
candidates, the best candidate so far, retained episode, development and replay
files, rows of `evaluations`. Operations: submit a candidate as soon as its slot
is accepted, publish it from a callback thread of the pool, restore it from its
files, await all of them and select. Hard: three threads and several processes
touch one candidate, its result is stored in two places, and a counterexample is
only a value in a future that other endings never look at. Correct when: each
candidate is published once, a restart loses nothing that was published, a
selection has seen every candidate and passed over no counterexample, and
`completed` has its certificate.

**Event hub** (`observer.py`, `events.py`). An event goes to sinks, then to the
database and to `events.jsonl`. Correct when: an idempotency key appears once
and a failing sink never stops the search.

**Counterexample certification** (`counterexamples.py`,
`independent_verifier.py`). State: below a directory for each graph, the sealed
candidate, the records of two verifiers, the certificates, and one published
name for each of these. Operations: `inspect`, called in an evaluation process at
every score zero. Hard: each process has its own pipeline over the same
directories, a name belongs to whoever links it first, and a process dies
between any two of its writes. Correct when: only two complete and
agreeing records make a certificate, and a published one is never taken back.

**Provider transport** (`experiment/provider.py`, `stage3/app_server.py`,
`stage4/app_server.py`). A JSON-RPC child process with reader threads,
deadlines and classified failures.

### The sustained search

**Search loop** (`native_v3_python/scientific_search.py`,
`run_sustained_search` and `_RuntimeTelemetry`; resumed by `run_python_preview`
of `preview.py`). State: the runtime state with the reserved and the started
turns and the budget guard of a resume, a manifest for each generation, the
results of turns and repairs, the validated programs and the committed
candidates. Operations: scan what an earlier process left, keep one call per lane
in flight, validate in slot order, repair once, submit to the pool, commit in
slot order. Hard: lanes answer and panels resolve in any order, a process dies
anywhere, an interrupted turn is retried under a new key that the same
reservations must admit. Correct when: the commit order never depends on the
completion order, nothing paid is asked for again, a program is evaluated once,
and every process ends.

**Evaluator pool** (the same file, `_ConcurrentEvaluatorPool`). State: a deque of
panels, their work records, futures and permits; evaluation files, checkpoints
and result files. Hard: the last running case of a panel, whichever thread has
it, must find that it is the last; persisting and counting lie between two
critical sections. Correct when: a future is set once, when nothing of its panel
runs any more, and what it reports is on disk.

**Provider lanes** (`native_v3_python/search_provider.py` over
`stage3/app_server.py`). State: the threads of the server, the threads each
process has loaded, the turns the adapter knows, and what the client has
written: contracts, forks, answers, owners and the turns of each root thread.
Hard: three records of a thread that move at different moments, processes that
take a thread over from each other, turns lost to the client and kept by the
server. Correct when: a thread is in one process, the answers on a root thread
know each other, and a child knows its parent's turns and no later one.

### Around it

The sandbox (`sandbox/`), configuration, status, command line and dashboard
(`output/`); the earlier search `native_v3/` and the one-shot search of
`native_v3_python/search.py`; the retained research stages `stage2b` to `stage7`; proposal operators
(`proposals/k_switch.py`) and the backend `backends/heg.py`. `PROJECT.json` lists
each with its status. They are pure computation, presentation, or batch
programs run once by one process.

### How the parts interact

`service.run` takes ownership, starts a session and calls the adapter; the
adapter builds the coordinator around a provider and passes its callbacks; the
coordinator's workers call the adapter's provider, which looks for a retained
turn, calls the transport, writes the turn directory and then the ledger; the
coordinator thread saves slots and calls back for evaluation and selection; the
outcome returns to the service, which writes the last checkpoint, the state and
the session, and releases ownership. The lifecycle model holds the adapter as
one step with any outcome; the coordinator model is what happens inside that
step, with the outcome it leaves in `outcome`. `TurnStore` is what happens inside a
recorded turn of the coordinator, `LedgerConnection` inside its posting and
inside every event. `CandidateEvaluation` is what runs beside the coordinator's
collection and inside its selection; it asks `Certification` about each graph of
score zero, and `CounterexamplePipeline` implements those answers.

The sustained search has one search thread, one thread per lane and the
evaluator threads. The search hands a slot to its lane and waits for the answer,
hands a program to the pool and waits for the panel, and releases the lane when
the slot is settled. `ScientificSearch` holds a lane as a call that is admitted,
answered and ended, and a panel as one that resolves: `EvaluatorPool` shows that
it does (`EveryPanelResolves`), `ProviderLanes` what the call does to the threads.

The behaviours that are hard to test are listed one by one, at their lines,
under `hazards` in `PROJECT.json`.

## 2. What is modelled

### `ExperimentLifecycle`

An element of `Runners` is one process that executes `ExperimentService.run`,
an element of `Stoppers` one that executes `final_stop_experiment`; a further
attempt by the operator, or the next round of `--until-complete`, is another
element. `pc[p]` names the next durable step of the process, `local[p]` the
local variables that survive between steps: the session number read *before*
ownership (`number`), the session of the context (`session`), the checkpoint
about to be written with the predecessor it read (`sequence`, `previous`), the
outcome and the error.

| state | code |
| --- | --- |
| `root` | the workspace directory after `initialize_atomic` |
| `experiment`, `sessions`, `owner`, `rows` | the tables `experiment`, `sessions`, `ownership`, `checkpoints` |
| `dirs`, `chain` | session directories, checkpoint files |
| `sessions[n].finishes` | history: how often `finish_session` ran, since each adds the wall time |

A database transaction is one step (`BEGIN IMMEDIATE`); a file is replaced in one
step (`json_io.py`, `os.replace`); what lies between two of them can be
interleaved, interrupted or lost. `CheckpointStore.save` is two steps, the
reading of the chain and the replacement, since nothing locks the directory in
between. The digest of a checkpoint is its writer: the only thing the chain
checks is whether a file still is the one its successor was written after.
Liveness of a process id is exact (`Alive`).

`Raise` is an exception or the first Ctrl-C in the owned part, `ExceptFinish`
and `ExceptSetState` are the handler, `SecondInterrupt` the Ctrl-C that gets
past it, `Crash` the death of a process. `CrashAt` and `RaiseAt` say where, so that
a run can ask what holds with and without the dangerous windows. `Overlap = FALSE`
is an operator who waits for one process to end before the next is started.

### `ExclusiveWorkspace`

Three actions, `Take`, `Write` and `Leave`. The lifecycle implements it with the
holder being the owner on record if that process is alive, and the contents
being the tables, the session directories and the checkpoint files.

### `GenerationCoordinator`

`run` is the coordinator thread, its control point and its variables; `calls[s]`
is the provider call of slot `s` with its place in the pool (`queued`, `calling`,
`answered`: charged and not yet stored, `recorded`: turn directory stored, `ready`:
ledger written and future done). The durable stores are `cp` (the generation
checkpoint), `evidence` (turn directories by request and phase), `ledger`
(`cumulative_model_turns`), `selections` (the `selection_completed` events)
and `outcome`.

| actions | code |
| --- | --- |
| `StartSession` | `_load`, the larger of the two turn counts, the retry scan, `_resume_parent_assignments` |
| `StartGeneration`, `LeaveLoop` | the head of the generation loop |
| `QueueRaises`, `QueueRecover`, `QueueRefuse`, `QueueCall` | the submission loop |
| `Begin*`, `Answer`, `Replay`, `RecordArtifacts`, `RecordTurn` | the worker: `_invoke_before_stop`, the provider of the adapter and what it remembers, `_record` |
| `RecordFails`, `RecordNoted` | the record of a paid answer fails (`native.py:1167-1178`, `1199-1212`) |
| `Collect*` | `as_completed`, retries, boundaries, assessment |
| `Repair*` | the repair loop |
| `SelectionEnds`, `Select`, `SaveSelection`, `SkipSelection`, `Advance`, `Finish` | selection, its two checkpoint writes, the summary and what the adapter makes of it |
| `Interrupt`, `AbortEnd`, `Crash`, `RequestStop`, `Expire` | the ways a session is cut short |

An answer is one of four kinds (`good`, `malformed`, `charged` failure, uncharged
`infra` failure), which is all that control depends on; a charged failure
reports tokens, so it counts in the ledger. The release of a reservation and
the result of its slot are saved one right after the other by the same thread
and are one step here. A parent vector is its
origin, the roots or a selection; the idempotency key of a request depends on
its parents, hence `Keys`. The hourly token limit is asked in the same places
as the wall budget, and `expired` stands for both. `spent` and `leaked` are
history: the answers the provider charged for, and the reservations open at a
crash or an abort.

A record can fail where the artifacts are written or sealed, where the row does
not get its lock, and behind the row. The adapter then records the turn as failed
without tokens and raises the exception again; the coordinator takes it for an
uncharged infrastructure failure, gives the reservation back, and may retry. The
provider still remembers the answer of an initial turn (`memory`) and hands it out
without another charge. `escaped` is the history of these: a paid answer that was
handed out and given back as if nobody had paid. A charged failure whose artifacts are incomplete keeps its charge
(`RecordNoted`), since the incompleteness is a note on its exception.

### `TurnStore` and `TurnRequirements`

`base[t]` and `archived[t]` are the directory of a turn and its archives; a
directory holds the attempts whose files are in it, in order, the answer its
source was written from, and the manifest of the attempt that was sealed. `rows`,
`charges` and `total` are the tables, `worker[t]` the thread that asks.

| actions | code |
| --- | --- |
| `StartSession` | the backfill of charge events, fresh memory of the provider |
| `Replay`, `Remembered`, `Ask` | `_retained` over the directory and its archives, the cache of the provider, the hourly limit and the request |
| `Completes`, `Fails` | the files the provider streams into the directory |
| `Archive`, `Write`, `Index`, `Verify`, `Seal`, `Raise` | `_archive_conflicting_turn`, `write_turn`, `record_existing_turn`, `verify_turn` and the except clause that records again |
| `Charge`, `Locked` | `record_provider_turn`, refused or not |
| `Age`, `Crash` | a charge leaves the hour; the process dies |

An answer is its place in the history of the provider. The posting is one step.
The file prefix of an attempt is its place in `attempts`: the first one has the plain
name, the others `retry-NN`. `TurnRequirements` has `Settle`, `Tell` and `Forget`;
the store implements it with the answer of the complete manifest as settled
and the answer last returned as told.

### `LedgerConnection`

`kept` is the committed database, `work` what the connection sees, `inTransaction` says
whether a transaction is open on it, whoever began it: a commit or a rollback of
one thread ends that of another. Each statement of `record_provider_turn` is a
step (`Begin` to `CommitTurn`), under `ledgerLock`; `Emit` puts events into the
hub, `Lookup`, `Insert`, `CommitEvent` and `AppendLog` store one under `hubLock`;
`Attach` and `Close` belong to the service, `NextSession` and `Die` to the process.
Events emitted before the session is attached wait in `pending`. The module is about
the same posting as `TurnStore` (`Charge` there is `RecordTurn` here), and its
specification has names of its own (`LedgerSpec`, `LedgerNext`, `LedgerTypeOK`), so
that one module can extend both.

### `CandidateEvaluation`

`session` is the control point of the session's thread with what it holds, `job`
the evaluation of a slot by one session (`queued` in the executor, `running`,
`passed` and `written` its passes, then its result), `streamed` the futures that
`on_generation` has not taken yet, `announced` and `best` are
`published_evaluations` and `best_candidate_id`. `accepted`, `episodes`,
`development`, `replay`, `rows`, `selected` and `outcome` are durable.

| actions | code |
| --- | --- |
| `StartSession`, `CloseSession` | the head of `run`, with the best of the stored rows; the shutdown of the pool, which waits |
| `Stream` | `stream_candidate`: stored, restored from its files, or submitted |
| `Adopt` | the assignment that `publish_restored_evaluation` and a stored row make after the comparison, without the lock |
| `LeaveGeneration` | the coordinator leaves a generation that is not complete |
| `EnterCallback`, `Prepare`, `ExpireInCallback`, `Await`, `Select` | `on_generation` |
| `Callback` | `evaluation_finished`, which publishes under `evaluation_completion_lock` |
| `Start`, `Inspect`, `Episode`, `Write`, `Finish` | `evaluate_candidate` in a process of the pool |
| `RequestStop`, `Interrupt`, `Crash` | a graceful stop; Ctrl-C, which terminates the pool; a death, which its processes may outlive |

An evaluation has one episode, which may meet one graph of score zero; what an
inspection says is one step of `Certification`. `Auc` says which candidate is the better.
A process left behind by a dead session still writes its files, and what it
returns goes nowhere. The row and the announcement of `publish_completed_evaluation`
are one step, since the lock is held over both.

### `Certification` and `CounterexamplePipeline`

`says[j]` is the graph that evaluation process `j` inspects and what it was told;
`Decide` is the whole of `inspect`. The pipeline takes it apart: `inspection[j].at` is the
next access to a shared directory, `records`, `published`, `certificates` and
`certificate` are the files of a graph.

| actions | code |
| --- | --- |
| `Begin`, `Leave` | `inspect` is called; it returns, raises, or its process is killed |
| `Look`, `Seal` | `_save_candidate` |
| `Load` | `_load_verification`: every record of a role is read, a terminal one preferred, then the latest |
| `Verify`, `Publish`, `Link` | a verifier answers, its directory is renamed, the first record gets the published name |
| `Certify`, `Certificate`, `CertLink` | `_certificate` and its published name |

A record is its place in the order of `attempted_at`, with the status and the
`complete` flag the verifier gave it. A directory that is being
written or was left so has `whole = FALSE`. A verifier of a graph finds `VERIFIED`,
`REJECTED` or `INVALID` (what `_validated_verification` makes of an answer that breaks
the contract), or answers inconclusively: `UNKNOWN`, or `VERIFIED` by a search that was
not complete. An inconclusive record is held with `pause` and verified again by the
next inspection. `Certification` promises accordingly: `continue` only when the primary
verifier rejects the graph; `fail` when the primary finds it invalid, or verifies it
and the independent one rejects it or finds it invalid; `verified` when both verify it; `pause` and an
exception may always come. The refinement maps the accesses to
`open` and the graphs with a published certificate to `certified`.

### `EvaluatorPool`

`thread[t]` says where a thread is and which case it holds; the critical sections
of `_condition` are one action each, with the evaluation (`Evaluate`), the
persisted file and the fold with its checkpoint (`Fold`) in between. `Count` and
`Fail` find out whether the panel ends, `FinishWork` writes its result and
`Resolve` sets the future and returns the permit. `Submit` starts a panel from
its checkpoint and the files behind it (`Bootstrapped`). `Restart` is the death
of the process and the next one. `FailAndDie`, `CountAndDie` and `FinishAndDie`
are the three places where a failing write of the telemetry ends the thread
itself. `FinishRaises` is an exception behind the last checkpoint of any panel whose files
are all there, its profile having been computed or not.

### `ScientificSearch`

`pc` is the search thread, `scan` and `cursor` its two walks over the slots,
`entry[s]` what a slot holds in this process, `call[s]`, `repairCall[s]` and
`panel[s]` its futures. Durable are the reservations (`primary`, `started`,
`repairs`, `repairStarted`, `guard`), the manifests, the answers, `prepared`,
`candidate` and `baselines`, and the lanes' `completed` and `released`.

| actions | code |
| --- | --- |
| `OpenWorkspace` | `run_python_preview`, `automatic_resume_budget`, the runtime state of a resume |
| `BeginGeneration`, `NoParents`, `ReservationExhausted` | the head of a generation: parents, reservation, manifest |
| `Prepare`, `PrepareFails`, `ScanRetained`, `ScanRefused`, `ScanOpen` | the lanes, and the scan of the slots with the retries; a retained failure whose files are not a prefix is refused |
| `StartLanes`, `Take*`, `AskRepair` | the tasks in slot order |
| `LaneAsks`, `LaneAnswers`, `LaneEnds`, `RepairAsks`, `RepairEnds` | `_primary_provider_call`, `_provider_call`, `_run_primary_turn` |
| `PanelResolves`, `Commit`, `CommitFailed`, `Continue` | the pool, `commit_ready` and `_commit_pending` |
| `CommitBaselines`, `EndGeneration` | the baselines and parent references, the end of a generation |
| `Shutdown`, `Crash`, `TurnTimesOut`, `StopBetween` | the ways a process ends |

Abstractions: the anchor turn, prompts and profiles are left out; a program stands for
its source and behaviour signature; parent references and baselines are committed
in one step; an answer that comes after the timeout does not exist, since the
adapter kills the process of the turn; an exception of `submit` behind the
prepared file leaves the state a crash there leaves. Which case files a failed panel leaves is not kept,
so that a retained failure may be accepted or refused at each scan.

The telemetry of a turn is written behind its answer, and its failure becomes that of the
call (`Told`); a retained answer is handed out without it (`replayed`). The
deadline of a turn counts from its submission and is tested before its future is looked at,
so `TurnTimesOut` may fall behind the answer too. A generation may find no parents although
candidates were evaluated, since only those that failed no case are eligible. When a process leaves the
search its panels are reset, as nobody reads them any more.

### `ProviderLanes`

A turn is named by the request it answers, a thread by its lane or by the request
that forked it. `history` is the server's: a turn lost to the client may be in
it and nowhere else. `known` is `_completed_turn_ids` of the adapter that has the thread,
`contract`, `fork`, `result`, `rootContext`, `owner` and `saved` are files.

| actions | code |
| --- | --- |
| `OpenPool`, `ForkRoot`, `FreezeTopology`, `CloseCoordinator`, `StartLane` | the constructors with `_resume_state`, and `prepare_generation` |
| `AskRoot`, `ForkChild`, `AskChild` | `generate_root_on_worker`, `generate_child` with `ensure_context`, `_fork`, `activate_forked_thread`, and `_turn` up to its request |
| `EndTurn`, `Record` | `_run_turn`, the retained result, `_record_owner` |
| `Repair`, `EndRepair`, `RecordRepair` | `repair` of both classes |
| `TakeAnswer`, `TakeRepair`, `BeginGeneration`, `EndGeneration` | the search around them, simplified |
| `Stop` | the end or the death of the process, with any of its running turns on the server or not |

The specification thread has its one turn when the model starts. A fork that was
made and not retained is another thread, which nothing reads, and is left out; a
process that cannot resume a thread is replaced by one that holds the same
threads. The last process is not stopped (`MaxOpens`).

`ForkChild` ends with the file of the fork (`search_provider.py:583`), `AskChild` begins
with `_save_context` and the activation, which refuses a thread that the process has
not loaded (`app_server.py:966`). A death in between leaves a fork in no provider-state. It is not
met again: its key is started and has no answer, and the retry has an artifact directory,
hence a fork, of its own.

## 3. Runs

| run | instance | shows |
| --- | --- | --- |
| `lifecycle_exclusive` | 3 overlapping runs, crashes and exceptions in each phase | one owner at a time under the number it read; a running search reads `running`; the refinement of `ExclusiveWorkspace` |
| `lifecycle_stop` | 2 overlapping runs and a final stop beside them, crashes | the stop owns nothing and may break the chain under a run (`ReadBrokenChain`), yet the tables follow the files, and every process ends and gives ownership back |
| `lifecycle_resume` | 3 runs and a final stop one after another, every crash and exception outside the unindexed windows | a workspace at rest can be resumed, its open session closed by the next owner; terminal states stay |
| `generation_turns` | 2 slots, 2 workers, 2 sessions, malformed, charged and uncharged answers, stops, crashes and failing records | the turn count is exact, up to the answers whose own record failed |
| `generation_sessions` | 2 slots, 2 generations, 2 sessions, crashes, expiry and Ctrl-C, fair threads | the search advances only from settled generations; one parent vector each; every session ends |
| `turn_store_kept` | 2 turns, 2 prompts, 3 answers, 2 sessions, locked database, deaths outside the sealing | one settled answer per turn and every session told that one; no terminal evidence lost; every token posted once or known to be lost; the hour overshoots by one answer per worker at most |
| `ledger_shared` | 2 workers, a heartbeat, the service, 2 sessions | the accounts are whole whenever no turn is being recorded; `events.jsonl` follows the order the sinks saw; every session closes |
| `evaluator_pool` | 2 workers, 2 panels of 2 cases, a failing case, a failing write, a restart | a set future has nothing running behind it and its outcome on disk; every panel resolves |
| `candidate_evaluation` | 2 slots, 2 workers, 2 sessions, stops, one death or Ctrl-C, every answer of the verifiers | a selection has every candidate and passes over no counterexample; `completed` has its certificate |
| `counterexample_pipeline` | 2 processes that inspect one graph again and again, deaths anywhere | a certificate names two complete agreeing records; the refinement of `Certification` |
| `scientific_search` | 2 slots, 2 lanes, 2 generations, 3 processes | commits in canonical order; one evaluated candidate per program; nothing paid is repeated; every process ends |
| `provider_lanes` | 2 slots, 2 lanes, 2 generations, 1 repair, 3 processes | one process per thread; answers on a root thread nest; a child begins with its parent's turns |

### Bounds

*Lifecycle.* Two processes meet in every race over the ownership row or a
checkpoint file; the third finds what the two left behind: a dead owner taken
over, then taken over again. A process is started once, so at most three sessions
and seven checkpoints exist. `SomeCrashes` and `SomeRaises` take one control
point of each phase (before the session is known, in the adapter, after the
outcome is durable, in the handler) so that three overlapping processes stay
within reach; `lifecycle_resume` takes all the others without overlap.

*Coordinator.* Two slots and two workers give every order of two calls and one
slot that is cut short while the other is settled; one worker makes a slot wait.
Two sessions give one resume. One repair and one retry of each slot
exercise both the continuing and the used-up branch. Three turns are fewer than two
slots with a repair each, so the limit bites. `generation_turns` leaves the
valid answer out: for the turns it ends a slot like an answer still malformed
after its repair, and `generation_sessions` has it. Two generations of two slots need four, so five in
`generation_sessions` lets a selection happen and still runs out. Infrastructure failures are not counted against a session, and
`RetryLimit` bounds them as it does in the code. `MaxSessions` is the one bound
without a counterpart in the code. The faults are divided: expiry and Ctrl-C end a session like
a stop or a crash as far as the count is concerned, and run with the liveness property, where
a record that fails ends a call like any uncharged failure. The theorems have all of them together.

*Turn store.* Two turns race for the hour and for the ledger, two prompts of one
request give a changed key, three answers give a failure, a retry and a later
session's answer. Both keys have one identity: with two, `Compatible` never
fires. Every answer costs one token; totals that differ between the attempts of a turn are
left to the theorem, which is about any costs. Deaths in `answered` and `sealing` are left to the finding below. The kinds
of answer that only a provider other than the shipped one gives (`partial`) are
not in the instance.

*Ledger connection.* One worker between `Begin` and `CommitTurn` and one other
thread are the race; the second worker waits for the lock, the heartbeat brings
a third order. Two keys and two events let an event be stored twice.

*Candidate evaluation.* Two slots put one candidate into the pool while the other
is restored or awaited; with two workers both run at once, with the second
session both may be stored, half stored or still running in a process of the
first. One death or Ctrl-C separates the two sessions, besides any number of
graceful stops. The candidate awaited first is the better one, so that what comes
later may overwrite it. Both may meet the one graph.

*Certification.* Two processes on one graph are the race for every name, and a
process that leaves may come back as the next evaluation, so the records of
dead ones are read by later ones. One inconclusive answer of a role
(`MaxInconclusive`) lets a retry find both an inconclusive and a terminal record.
Graphs share no file, so one is enough; the processes are symmetric.

*Evaluator pool.* Two workers on two cases of one panel are the race for its end; the
second panel takes the permit and the queue; an interval of two makes a checkpoint
that is behind the files. One fault, one telemetry fault and one restart, in any order.

*Sustained search.* Two slots on two lanes give every order of two answers; a
child of the second generation shares a lane with its neighbour. Three processes
are an interrupted one, one that retries and dies, and one that ends. One program
for all answers makes every second candidate a duplicate. `RetryAttempts` is 1 for 8. The telemetry
may fail behind the answers of one slot (`Untold`).

*Provider lanes.* As above; the first slot of the second generation may descend from
either answer of the first, hence on the lane of its neighbour or not.

Deadlock is checked for the lifecycle, the coordinator and the candidate
evaluation: `Rest` is the workspace after the last process, or the search after
its last session, and nothing else may stand still. It is checked for the
pipeline too, where an inspection that cannot go on could still be left. The other systems may stop: a store nobody asks,
a pool without work, a search that has ended for good. Their liveness
properties say where they may not.

### Fairness

`Fairness` of the lifecycle is weak fairness of `RunStep(p)` and `StopStep(p)`: a
process that has been started and whose next statement can execute executes it.
Starting a process, crashing and raising are not owed. Of the coordinator:
weak fairness of the coordinator thread and of each worker's call. A provider
call ends, since the transport has a deadline for each turn. A stop, an
expired budget, Ctrl-C, a crash and a further session are not owed, and
`SessionEnds` holds without them.

Of the ledger: weak fairness of each thread that posts or stores, and strong
fairness of taking the lock of the ledger, since other workers take it in
between (`threading.Lock` admits waiters again and again, and a session has
finitely many turns). Of the pool: weak fairness of each worker and of the
serving steps of the search thread; an evaluation ends since the evaluator bounds each
case; submitting is not owed. Of the search: weak fairness of the search
thread, of each lane thread and of each panel; a turn ends by its deadline, a
panel resolves by `EveryPanelResolves`. `ProviderLanes`, `CandidateEvaluation` and
the pipeline state safety only.

## 4. What is proved

Eight modules hold proofs, `<component>Proofs` for each component; those of the turn
store and of the ledger connection, which is what its posting does, are in
`TurnStoreProofs`. Each EXTENDS its component, states an inductive invariant (checked by
TLC before it was proved), proves one lemma for each action or kind of step, and
derives the theorems. Nothing is assumed but the named ASSUMEs of the component,
which TLC evaluates in every run, and the hypotheses a theorem states itself.

| assumption | says | where the code says so |
| --- | --- | --- |
| `ProcessAssumption`, `OutcomeAssumption`, `OverlapAssumption` | runners, stoppers and `NoProcess` differ; an adapter returns one of six states | `service.py`, `_normalize_outcome` |
| `BoundsAssumption`, `AnswersAssumption`, `FaultsAssumption`, `CrashesAssumption` | limits are numbers, answers and faults are of the kinds modelled | the configuration, `native.py` |
| `EvaluationAssumption`, `GraphsAssumption` | positive scores and counts; a graph is not `NoGraph` | `native.py`, `evaluation.py` |
| `ThreadsAssumption`, `LimitsAssumption` | workers, heartbeats and the service are different threads, and none is `Nobody` | `provider.py`, `observer.py` |
| `PoolAssumption` | finitely many workers, panels and numbered cases, at least one permit | `scheduler.py` |
| `LanesAssumption`, `SearchAssumption` | at most 8 slots and 4 lanes, numbered from 1 | `search.py:47`, `scientific_search.py:102` |

The sets of slots, workers, processes, sessions, generations, graphs and answers
are otherwise arbitrary. Only the models of the sustained search need these small numbers,
and they are the limits of the code, not of the runs.

### The lifecycle (`ExperimentLifecycleProofs`)

For any runners and stoppers, any outcomes, and any choice of where processes
may die and statements may raise:

| theorem | says | inductive invariant |
| --- | --- | --- |
| `TypeCorrect` | `[]TypeOK` | `TypeInv` |
| `OneOwner` | `[]SingleOwner` | `TypeInv /\ SingleOwner` |
| `IndexHasFiles` | `[]IndexFollowsFiles` | `TypeInv /\ IndexFollowsFiles` |
| `SessionsAreOnDisk` | `[]SessionsHaveDirs` | `TypeInv /\ SingleOwner /\ DirReady /\ SessionsHaveDirs` |
| `RunsAreExclusive` | `ImplementsExclusive`, if `Stoppers = {}` | `HoldInv` |
| `SearchRunsOpen` | `[]AdapterRunsAsRunning`, if `Stoppers = {}` | `HoldInv` and `SearchInv` |
| `FinalStateStays` | `TerminalIsFinal`, if `~Overlap` and nothing raises in `Ending` | `TypeInv`, `OneAlive`, `TerminalHeld` |
| `NextRunIsAccepted` | `[]RestIsResumable`, if `KilledBetween` | `RestInv` |

*Types.* `TypeOK` alone is not inductive. `Replace` writes the chain at the
position read by an earlier step, and this is a sequence again only if the
position is at most one past its end. `SequenceFits` says so for every process
between the reading and the indexing of a checkpoint, which holds because the
chain never gets shorter. `TypeInv == TypeOK /\ SequenceFits`.

*Ownership.* `SingleOwner` is inductive with the types. Two facts carry it: a
process takes the row only when the owner on record is not alive, and an owned
process is alive; and a process removes the row only under the number on
record, which for an owned process is its own. That the number was read before
the transaction does no harm because the handle is compared with the row, not
with the table of sessions.

*Files before rows.* A row is added only at a sequence the process has replaced
before, and the chain keeps every position.

*Directories.* `CreateSession` relies on the directory made by an earlier step
of the same run (`DirReady`). That no session is inserted in between is
where ownership is used.

*Refinement.* A step of a run before `acquire` leaves the contents alone, and
after it the run is the owner. A final stop writes without owning, so the
theorem is about `Stoppers = {}` and `HoldInv` adds that nobody is stopping and
that an owner is in its owned part or dead.

*A running search.* `SearchInv` follows the session row and the experiment row
from `CreateSession` to the adapter; no other process writes either in between.

*Final states.* Without overlap one process is alive (`OneAlive`). A terminal
state is met by a process that has not looked at it yet, or was written by the
one on its way out, whose own outcome it is (`TerminalHeld`). `Ending` are the
three statements after the outcome is durable; point 2 of section 5 is an
exception in one of them, and the read of the state before ownership
(`service.py:193`) is why overlap is excluded.

*Resume.* `KilledBetween` excludes the windows between a directory or file
and its row (point 1 of section 5), exceptions between the session row and the
context the handler finishes it by, and exceptions in the handler itself, but no
other death or exception. `RestInv`, beside the types and ownership: the index
agrees with the chain but between a replacement and its row (`ChainHeld`),
a directory is ahead of the session rows only between `mkdir` and its row
(`DirsHeld`), an open session is that of the owner on record (`SessionsHeld`), and
rows follow files.

### The coordinator (`GenerationCoordinatorProofs`)

For any slots, workers, generations, budgets, answers and faults, crashes
included:

| theorem | says |
| --- | --- |
| `TypeCorrect` | `[]TypeOK` |
| `BudgetExact` | `[]TurnsAccounted`: the durable count is what was charged, what died with a session and what is open, less the answers whose own record failed |
| `LeavesOnlySettled` | `[]NextFollowsSettled` |
| `ParentsAgree` | `[]OneParentVector` |
| `NoStepBack` | `[][ResumesInPlace]_vars`: the retry scan never finds a generation before the one on record, and the count taken on resume exceeds the one on disk by at most `escaped` |

One invariant `Inv` carries all of them. `Accounts` ties the count to the ledger:
what the ledger holds, and the answers charged but not yet recorded, are at most
`spent`, so that the larger of the two counts taken on resume is the right one: it may
bring back answers that had escaped, and counts none twice.
`CallOK` says where a call may be open, by the control point of the coordinator;
`ResultOK` that the local results are those of the checkpoint, except for slots
cut short by a stop or a budget, whose results are never saved; `RunOK` and
`StoreOK` follow the control point through the generation; `ParentsOK` says that
the parents in hand are those of the stored slots.

### The turn store (`TurnStoreProofs`)

| theorem | says | hypotheses |
| --- | --- | --- |
| `TypeCorrect` | `[]TypeOK` | none |
| `EvidenceIsKept` | `EvidenceKept` | none |
| `SettledOnce` | `[]OneFinalAnswer` | `OneRequest` |
| `RequirementsMet` | `ImplementsRequirements` | `OneRequest`, `SafeCrashes` |
| `HourOvershoots` | `[]OvershootBounded` | `ChargesDeclared` |
| `TokensPosted` | `[]TokensConserved` | `ChargesDeclared` |

`OneRequest`: the renderings of a turn are one request. A directory belongs to a
generation, slot and phase, and the fields `native.py:773` compares do not
change within it; what changes is the prompt, hence the key. `SafeCrashes`: no death
between a response and its manifest, since points 7 and 8 of section 5 show what
such a death does; deaths everywhere else are allowed.

`TypeInv` has `TypeOK`, `WithinBound` (answers and calls together stay
within `MaxServed`) and `Shape`, what each control point of a worker says of its
directory. `AnswerInv` adds that all complete manifests of a turn hold one
answer and that while a worker is on its way to an answer nothing on disk answers its request.
`ToldInv` adds what the provider remembers and the session was told: the
attempts of a directory hold no complete answer but the one being recorded, unless
the directory can never be sealed as complete.

The accounts do not depend on either hypothesis: deaths may fall anywhere and the
renderings of a turn may be any requests. `ChargesDeclared` says that no answer is
`partial`: a failure that reports tokens says that it was charged, as every failure
of the shipped provider does (`provider.py:293`). A partial answer would leave a manifest that is not
terminal, and the turn would be asked for again under a row that holds its tokens.

*Sums.* `Sum(f, n)` is a recursive function. Its facts (the next term, equal sums of equal terms,
order, one term changed, a row of terms appended) are each proved from the smallest index
at which the claim could fail, which the well-foundedness of the naturals provides;
no theorem with an operator parameter is needed.

*The argument.* `OwnInv`: what a worker and the provider have in hand is an answer of their own
turn, and every answer has a price of its kind. `PaidInv`: a row with tokens belongs to a
request whose terminal evidence is on disk (`RowsBacked`), so that no worker on its
way to an answer has tokens in its row and a posted row is never posted again with
another total; the events are the rows (`ChargesFollowRows`), so the backfill of a
new session adds nothing. `RoomInv`: the hour exceeds its limit by at most one greatest price
for each worker that is idle. A worker starts to ask only below the limit, where
the bound holds without it, and it is idle again once it has posted its answer. `TokenInv`: an
answer whose posting was lost may be recalled from the memory of the provider and recorded again,
but is never posted (`Owed`), because what stopped its record the first time is
still there (`Doomed`): terminal evidence of the request, a file beyond its bound, or the
source of another answer.

### The ledger connection (`TurnStoreProofs`)

For any workers, heartbeats, keys, and any number of events and sessions:

| theorem | says | inductive invariant |
| --- | --- | --- |
| `LedgerTypeInvariant` | `[]LedgerTypeOK`, who holds a lock included | `StoryInv` |
| `EventsLoggedInOrder` | `[]LogInOrder` | `StoryInv` |
| `AccountsWhole` | `[]WholeBetweenRecords` | `StoryInv /\ AccountsInv` |

`LogInOrder` alone is not inductive, since it does not say what an event that is logged next
may be. `StoryInv` makes one sequence of the log and of what waits under the lock of the
hub (or for the session, in `pending`), and says that all of it is a selection, in order, of what the
sinks were shown. Each step of the hub then is one of four: the sinks and the
sequence grow by the same event, the first that waits is told or skipped, or all
that wait are lost with the process.

`AccountsInv` follows the worker that holds the lock of the ledger. Any commit of
another thread makes the committed database equal to what the connection sees,
half a record included, so nothing can be said of the committed accounts while
a record is written. What can be said is what the connection sees at each
statement (`PostingStands`): which of row, charge and sums lag behind the others, by
exactly this turn. A rollback happens only before the first of these statements, and the
commit at the end writes all of them; so the accounts are whole when the lock is free.
That a death is excluded (`~crashed`) is point 9 of section 5.

### Evaluation and certification

`CandidateEvaluationProofs`: `TypeCorrect`, and `EndingsTrue`
(`[]EndingsAreTrue`). An episode on disk or in a row met no graph, or one that the
primary verifier rejects (`DiskIsClean`); a job carries that fact from its
inspection to its files (`JobIsClean`); the thread of the session and its
callbacks only hold what has a row (`ThreadIsSound`).

`CounterexamplePipelineProofs`: `CertificatesBacked` (`[]CertificatesAreBacked`)
and `PromiseKept`, the refinement `ImplementsCertification`. The argument is that the
evidence only `Grows`, records being appended and made whole and a taken
name staying with its record, so that what an inspection has in hand
(`HandIsBacked`) stays true whatever the other processes do. A record on disk is inconclusive or says what its
verifier finds, so that what follows from it is what `Certification` allows for the graph.
`CandidateEvaluation` is built on `Certification`, so the two theorems compose.

### The sustained search

`EvaluatorPoolProofs`: `TypeCorrect`, `Quiet` (`[]QuietOnceResolved`) and
`Durable` (`[]OutcomeIsDurable`). The count of a panel is the number of
threads that hold a case of it, one thread at most finishes it, and permits and
pending panels add up to the capacity.

`ProviderLanesProofs`:

| theorem | says | inductive invariant |
| --- | --- | --- |
| `TypeCorrect` | `[]TypeOK` | `TypeInv` |
| `NothingRewritten` | `[][WrittenOnce]_vars` | follows from `TypeInv` |
| `OneProcess` | `[]ThreadHasOneProcess` | `HomeInv`: who owns a thread, which lane has it on disk or loaded |
| `ChildrenFollowParents` | `[]ChildrenSeeTheirParents` | `ForkInv`: a fork begins with the turns of the parent |
| `AnswersNest` | `[]AnswersOfALaneNest` | `QueueInv`, the order of the places of a lane, then `RecordInv`, what the client knows of the root thread |

`ScientificSearchProofs`: `TypeCorrect`, `CommitsInOrder` (`[]CommitsAreCanonical`),
`OneEvaluation` (`[]OneEvaluatedPerProgram`) and `PaidOnce` (`NoPaidRepeat`), over
any number of processes. `GenerationsFollow` says that all generations with a
manifest but the last are whole; `PrefixCommitted` that the committed slots
of a generation are a prefix; `RetriesFollow` that the retries of a slot are numbered
from 1 and that all its turns but the last were started and have no answer;
`EntryIsBacked` that the table in memory says no more than the artifacts.

### Only model-checked

- Liveness (`EveryProcessEnds`, `SessionEnds`, `EveryPanelResolves`, `EveryRunEnds`), which TLAPS cannot treat.

Every safety property of the runs is stated by a theorem, under the hypotheses named above.
`SessionsHaveDirs`, `ResumesInPlace` and `WrittenOnce` are the other way round: they
are proved, and no run repeats them.

## 5. Where the code and its descriptions part

Each point is described, with the lines it quotes, under `findings` in
`PROJECT.json`. They were met while modelling and are held by the actions named
there; some are stated in the modules as properties that the code does not have
("Not an invariant"), for whoever wants to see the behaviour in TLC. In short:

1. A death between a checkpoint file or a session directory and its row leaves a
   workspace no run accepts, though the document says an interrupted experiment
   is resumed by running it again.
2. An exception after `completed` is durable rewrites the state.
3. A session that ends between two generations forgets the selected parents.
4. A turn limit filled by reservations that are given back ends the experiment
   as exhausted.
5. A repair deferred at an uncharged failure is resumed past the turn limit.
6. A run on a completed experiment creates no session.
7. A death between the response of an attempt and its manifest lets a later
   session read that response for another answer.
8. A source left by a dead attempt blocks every later answer of its slot.
9. A row of a turn can be on disk without its tokens (`AccountingUnit` of `LedgerConnection`).
10. A telemetry write that fails in one of three places kills an evaluator
    thread and with it the search.
11. A retry of the last generation finds no reservation: the search ends in the
    middle of the generation.
12. A guard left by a death behind the last baseline refuses every later resume.
13. A repair that was started and lost stops every later resume.
14. A retained root answer is refused after a restart, since the turns of its lane
    have moved on (`RetainedAnswersAreAccepted` of `ProviderLanes`).
15. A repair of a child, or a child of a child, fails in the process that forked
    the thread.
16. A turn that was lost to the client and kept by the server refuses every later
    child of that root.
17. A turn limit that ends a generation hides a certified counterexample of a slot
    that is not yet awaited (`CertifiedIsReported` of `CandidateEvaluation`).
18. A restored row overwrites a better candidate that a callback has just
    published (`SelectionSeesBest`).
19. A record directory that is being written, or was left by a terminated
    process, makes every inspection of its graph fail.
20. Of two processes that seal the same graph at once, one fails: a rename onto a
    directory that is not empty is not the exception that is caught.
21. With two terminal records a later inspection takes another one than was
    published, and its certificate differs from the published one for good.
22. The `exact` of a replay compares documents that hold running times.
23. A turn whose completion overtakes the response to its start is waited for until
    its deadline and thrown away as timed out.
24. A paid answer whose record fails leaves the budget as an uncharged failure
    (`escaped` of `GenerationCoordinator`).
25. A panel that failed behind a later case that was done refuses every resume.

`TerminalIsFinal` is checked in `lifecycle_resume` under `SafeRaises`, where
nothing raises after the final checkpoint has been replaced, `RestIsResumable`
under `SafeCrashes`, and `turn_store_kept` under `SafePoints`. The points 1, 2, 7
and 8 are about what those restrictions leave out. The theorems `FinalStateStays`,
`NextRunIsAccepted` and `RequirementsMet` hold under hypotheses of the same kind that
leave out no more: whatever the runs allow to die or raise, the theorems allow too.

## 6. What is not modelled

- *Contents*: prompts, policies, scores, evidence files, wording of events.
- *Process ids that are used again*: `Alive` is exact.
- *Torn files*: the code writes each file by a rename after a sync.
- *Parts planned below*: the artifact manifest of a workspace, the messages of the
  transport.
- *Of the evaluations*: the algorithms of the two verifiers and of the episodes,
  observations, the offline benchmark, the liveness of a session that waits for its
  pool (a state space too large for it).
- *The `retryable` branch of `_retained`*: no manifest the code writes reaches it.
- *Of the sustained search*: the anchor turn, the checks of prompts and boundaries,
  orphaned forks, `Prepare` of a changed `provider_concurrency`, the search of
  `search.py`.
- *The share of the repository*: most of its lines are presentation
  (`output/`), batch programs of completed stages, numeric evaluation and
  validation of documents. They keep no state that outlives a call and have no
  order of steps to check, so the models stay with the two searches.
- *Numeric scoring, batch stages, presentation*: no protocol to check; see
  `components` in `PROJECT.json`.

## 7. Plan

In this order, most important first.

1. `ArtifactManifest` of the workspace and its reconciliation.
2. `AppServerClient`: requests, reader threads, deadlines, late answers.
3. A final stop beside a run: what is left of `ImplementsExclusive` and of
   `AdapterRunsAsRunning` when `Stoppers` is not empty.
