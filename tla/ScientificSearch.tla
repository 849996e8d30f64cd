-------------------------- MODULE ScientificSearch --------------------------
(* The sustained search: run_sustained_search and _RuntimeTelemetry of
   native_v3_python/scientific_search.py over the provider lanes of
   CodexM10SearchProvider (native_v3_python/search_provider.py), with the
   automatic resume of run_python_preview (native_v3_python/preview.py).

   One search thread walks the generations.  In a generation it scans the slots
   for what an earlier process left, keeps one provider call in flight per lane,
   validates the answers in slot order, asks for at most one repair of an
   invalid one, hands valid programs to the evaluator pool and commits the
   candidates in slot order.  A lane thread admits its turn against the durable
   reservations, runs it and persists the answer.

   The evaluator pool is EvaluatorPool: here it only resolves a panel, whole or
   failed.  The process may stop at any step; what is durable is named so.    *)
EXTENDS Integers, FiniteSets, FiniteSetsExt

CONSTANTS
    Slots,          \* 1..POPULATION_SIZE, in canonical order
    Lanes,          \* 1..provider_concurrency
    Children,       \* the slots that are children after the first generation
    Generations,    \* generation_limit
    RepairLimit,    \* repair_turn_limit
    RetryAttempts,  \* retries of an interrupted turn, POPULATION_SIZE in the code
    Programs,       \* what a valid answer can hold
    MaxOpens,       \* bound: processes that open the workspace
    Untold          \* bound: slots after whose answers the telemetry may fail

ASSUME SearchAssumption ==
    /\ \E n \in 1..8 : Slots = 1..n
    /\ \E n \in 1..4 : Lanes = 1..n
    /\ Children \subseteq Slots /\ Untold \subseteq Slots
    /\ {Generations, RepairLimit, RetryAttempts, MaxOpens} \subseteq Nat
    /\ {"none", "invalid"} \cap Programs = {}

Gens == 1..Generations
Attempts == 0..RetryAttempts     \* 0: the initial turn; n: retry n
Turns == Gens \X Slots \X Attempts
Places == Gens \X Slots

NoGuard == [pending |-> 0, started |-> {}, repairs |-> {}, set |-> FALSE]
NoBudget == [gen |-> 0, pending |-> 0, repairs |-> 0]

VARIABLES
    (* durable *)
    status,        \* state of the workspace and its terminal reason
    manifest,      \* generation -> slot -> parent slot, 0 for a root; <<>> before it
    primary,       \* primary_slot_keys: turns a reservation admits
    started,       \* provider_started_keys, the primary ones
    repairs,       \* repair_turn_keys
    repairStarted, \* provider_started_keys, the repairs
    guard,         \* resume_budget_guard
    answer,        \* turn -> its durable provider result
    repairAnswer,  \* slot of a generation -> the durable result of its repair
    completed, released,   \* completed_ and released_primary_slots of the lanes
    prepared,      \* slot of a generation -> its validated program
    candidate,     \* slot of a generation -> its committed status
    baselines,     \* generations whose baselines are committed
    (* of the process *)
    pc, gen, budget,
    scan,          \* next slot to look at
    cursor,        \* commit_cursor
    entry,         \* slot -> what its _PendingCommit holds
    key,           \* slot -> the attempt its task uses
    call,          \* slot -> its provider future
    repairCall,    \* the repair future of the slot being handled
    panel,         \* slot -> its evaluation future
    opens          \* bounded counter

ledger == <<primary, started, repairs, repairStarted, guard>>
artifacts == <<answer, repairAnswer, prepared, candidate, baselines, manifest>>
lanes == <<completed, released>>
memory == <<pc, gen, budget, scan, cursor, entry, key, call, repairCall, panel>>
vars == <<status, ledger, artifacts, lanes, memory, opens>>

Here(s) == <<gen, s>>
Turn(s) == <<gen, s, key[s]>>
All(x) == [s \in Slots |-> x]

(* primary_lane: a root by its slot, a child where its parent's thread lives. *)
Lane[p \in Places] ==
    LET parent == manifest[p[1]][p[2]] IN
    IF parent = 0 THEN ((p[2] - 1) % Cardinality(Lanes)) + 1 ELSE Lane[<<p[1] - 1, parent>>]

Before(s) == {r \in Slots : r < s /\ Lane[Here(r)] = Lane[Here(s)]}

Open(s) == entry[s] = "open"

----------------------------------------------------------------------------
(* What a workspace says about a generation: _generation_recovery_state. *)

Pending(g) == {s \in Slots : candidate[<<g, s>>] = "none" /\ prepared[<<g, s>>] = "none"}

Settled(g) == g \in baselines /\ \A s \in Slots : candidate[<<g, s>>] # "none"

Manifests == {g \in Gens : manifest[g] # <<>>}
Incomplete == {g \in Manifests : ~Settled(g)}

NextGeneration ==
    IF Incomplete # {} THEN Min(Incomplete) ELSE Cardinality(Manifests) + 1

(* NoGuard or the guard of an earlier process decide the budget of a resume. *)
ResumeGuard ==
    IF guard.set \/ Incomplete = {} \/ Pending(NextGeneration) = {}
    THEN guard
    ELSE [pending |-> Cardinality(Pending(NextGeneration)),
          started |-> started, repairs |-> repairs, set |-> TRUE]

ResumeBudget ==
    IF Incomplete = {} \/ ~ResumeGuard.set
    THEN NoBudget
    ELSE [gen |-> NextGeneration, pending |-> ResumeGuard.pending,
          repairs |-> Min({Cardinality(Slots), RepairLimit})]

ResumeRefused ==
    guard.set /\ Incomplete # {} /\ Cardinality(Pending(NextGeneration)) > guard.pending

----------------------------------------------------------------------------
FreshEntries ==
    /\ scan' = 1 /\ cursor' = 1
    /\ entry' = All("unprocessed") /\ key' = All(0) /\ call' = All("none")
    /\ repairCall' = "none" /\ panel' = All("none")

Init ==
    /\ status = "new"
    /\ manifest = [g \in Gens |-> <<>>]
    /\ primary = {} /\ started = {} /\ repairs = {} /\ repairStarted = {}
    /\ guard = NoGuard
    /\ answer = [t \in Turns |-> "none"] /\ repairAnswer = [p \in Places |-> "none"]
    /\ completed = {} /\ released = {}
    /\ prepared = [p \in Places |-> "none"] /\ candidate = [p \in Places |-> "none"]
    /\ baselines = {}
    /\ pc = "down" /\ gen = 0 /\ budget = NoBudget
    /\ scan = 1 /\ cursor = 1
    /\ entry = All("unprocessed") /\ key = All(0) /\ call = All("none")
    /\ repairCall = "none" /\ panel = All("none")
    /\ opens = 0

(* The search thread leaves its loop, by its end or by an error: the provider
   executor is shut down before the reason is written, and it waits for every
   call that was submitted.  Nobody reads the panels any more.                *)
Leaves(reason) ==
    /\ pc' = reason /\ panel' = All("none")
    /\ UNCHANGED <<status, ledger, artifacts, lanes, gen, budget, scan, cursor, entry, key,
                   call, repairCall, opens>>

InfrastructureStop == Leaves("infrastructure_failure")

InFlight == {"submitted", "turn", "answered", "replayed", "refused"}

Stops == {"infrastructure_failure", "between", "generation_budget",
          "insufficient_valid_parents", "provider_turn_budget",
          "exact_verified_counterexample"}

Down(reason) ==
    /\ status' = reason
    /\ pc' = "down" /\ gen' = 0 /\ budget' = NoBudget
    /\ FreshEntries
    /\ UNCHANGED <<ledger, artifacts, lanes, opens>>

Shutdown ==
    /\ pc \in Stops
    /\ repairCall \notin InFlight /\ \A s \in Slots : call[s] \notin InFlight
    /\ Down(pc)

(* The states run_python_preview leaves resumable. *)
Resumable ==
    status \in {"new", "running", "infrastructure_failure", "between", "generation_budget"}

(* run_python_preview up to the first generation.  A refused resume raises
   before anything is written.                                                *)
OpenWorkspace ==
    /\ pc = "down" /\ Resumable /\ opens < MaxOpens
    /\ ~ResumeRefused
    /\ opens' = opens + 1
    /\ status' = "running"
    /\ guard' = ResumeGuard /\ budget' = ResumeBudget
    /\ pc' = "top" /\ gen' = NextGeneration
    /\ FreshEntries
    /\ UNCHANGED <<primary, started, repairs, repairStarted, artifacts, lanes>>

(* Killed, or stopped at once by the operator; a turn that runs is lost. *)
Crash ==
    /\ pc # "down"
    /\ Down("running")

----------------------------------------------------------------------------
(* The top of the generation loop. *)

(* An operator stop, the hourly limit or the wall, looked at nowhere else. *)
StopBetween ==
    /\ pc = "top"
    /\ Leaves("between")

EndOfGenerations ==
    /\ pc = "top" /\ gen > Generations
    /\ Leaves("generation_budget")

(* select_parent_candidates takes from the evaluated of the generation before,
   and of them only those whose program failed no case.                       *)
Parents == {s \in Slots : candidate[<<gen - 1, s>>] = "evaluated"}

(* None is eligible; a generation with a manifest had some. *)
NoParents ==
    /\ pc = "top" /\ gen \in 2..Generations /\ manifest[gen] = <<>>
    /\ Leaves("insufficient_valid_parents")

PrimaryLimit == Generations * Cardinality(Slots)

Reserved == primary \cup {<<gen, s, 0>> : s \in Slots}

ReservationExhausted ==
    /\ pc = "top" /\ gen \in Gens /\ (gen > 1 => Parents # {})
    /\ Cardinality(Reserved) > PrimaryLimit
    /\ Leaves("provider_turn_budget")

(* The reservation of every slot and the manifest, which a resume finds again. *)
BeginGeneration ==
    /\ pc = "top" /\ gen \in Gens /\ (gen > 1 => Parents # {})
    /\ Cardinality(Reserved) <= PrimaryLimit
    /\ primary' = Reserved
    /\ \E parentOf \in [Slots -> {0} \cup Slots] :
        /\ IF manifest[gen] # <<>> THEN parentOf = manifest[gen]
           ELSE \A s \in Slots : IF gen > 1 /\ s \in Children THEN parentOf[s] \in Parents
                                 ELSE parentOf[s] = 0
        /\ manifest' = [manifest EXCEPT ![gen] = parentOf]
    /\ pc' = "prepare"
    /\ UNCHANGED <<status, started, repairs, repairStarted, guard, answer, repairAnswer,
                   prepared, candidate, baselines, lanes, gen, budget, scan, cursor,
                   entry, key, call, repairCall, panel, opens>>

NeedsLanes == Pending(gen) # {}

(* prepare_generation: forks and resumes the lanes, unless nothing is asked. *)
Prepare ==
    /\ pc = "prepare"
    /\ pc' = "scan"
    /\ UNCHANGED <<status, ledger, artifacts, lanes, gen, budget, scan, cursor, entry,
                   key, call, repairCall, panel, opens>>

PrepareFails ==
    /\ pc = "prepare" /\ NeedsLanes
    /\ InfrastructureStop

----------------------------------------------------------------------------
(* The scan of the slots. *)

(* Mutant: a slot is released whether or not its turn ended on the lane. *)
ReleasesUnasked(s) == TRUE

MayRelease(s) == Here(s) \in completed

(* A candidate or a validated program that an earlier process left. *)
ScanRetained ==
    /\ pc = "scan" /\ scan \in Slots /\ scan \notin Pending(gen)
    /\ NeedsLanes => MayRelease(scan)
    /\ IF candidate[Here(scan)] # "none"
       THEN entry' = [entry EXCEPT ![scan] = "retained"] /\ UNCHANGED panel
       ELSE /\ entry' = [entry EXCEPT ![scan] = "queued"]
            /\ panel' = [panel EXCEPT ![scan] = "running"]
    /\ released' = IF NeedsLanes THEN released \cup {Here(scan)} ELSE released
    /\ pc' = "commit" /\ scan' = scan + 1
    /\ UNCHANGED <<status, ledger, artifacts, completed, gen, budget, cursor, key, call,
                   repairCall, opens>>

(* A retained failure is refused when its case files are not a prefix of the
   panel, as the workers may have left them.                                  *)
ScanRefused ==
    /\ pc = "scan" /\ scan \in Slots /\ candidate[Here(scan)] = "evaluation_failed"
    /\ InfrastructureStop

(* Mutant: a started turn is taken for interrupted whether it was answered or not. *)
StartedBefore(s) == budget.gen = gen /\ <<gen, s, 0>> \in started

(* The initial turn was started by a process that kept no answer. *)
Interrupted(s) ==
    /\ budget.gen = gen
    /\ <<gen, s, 0>> \in started /\ answer[<<gen, s, 0>>] = "none"

Retries(s) == {a \in Attempts \ {0} : <<gen, s, a>> \in primary}

(* A retry already admitted that may still be used. *)
Usable(s) == {a \in Retries(s) :
                <<gen, s, a>> \notin started \/ answer[<<gen, s, a>>] # "none"}

FreshRetry(s) == Cardinality(Retries(s)) + 1

ScanOpen ==
    /\ pc = "scan" /\ scan \in Slots /\ scan \in Pending(gen)
    /\ \/ /\ ~Interrupted(scan)
          /\ UNCHANGED <<primary, key>>
       \/ /\ Interrupted(scan) /\ Usable(scan) # {}
          /\ key' = [key EXCEPT ![scan] = Min(Usable(scan))]
          /\ UNCHANGED primary
       \/ /\ Interrupted(scan) /\ Usable(scan) = {} /\ FreshRetry(scan) \in Attempts
          /\ Cardinality(primary) < PrimaryLimit
          /\ key' = [key EXCEPT ![scan] = FreshRetry(scan)]
          /\ primary' = primary \cup {<<gen, scan, FreshRetry(scan)>>}
    /\ entry' = [entry EXCEPT ![scan] = "open"]
    /\ scan' = scan + 1
    /\ UNCHANGED <<status, started, repairs, repairStarted, guard, artifacts, lanes, pc,
                   gen, budget, cursor, call, repairCall, panel, opens>>

NoRetryLeft(s) == Interrupted(s) /\ Usable(s) = {} /\ scan \in Pending(gen)

RetriesExhausted ==
    /\ pc = "scan" /\ scan \in Slots /\ NoRetryLeft(scan)
    /\ FreshRetry(scan) \notin Attempts
    /\ InfrastructureStop

(* The retry would exceed the frozen provider budget. *)
RetryBudgetExhausted ==
    /\ pc = "scan" /\ scan \in Slots /\ NoRetryLeft(scan)
    /\ FreshRetry(scan) \in Attempts /\ Cardinality(primary) >= PrimaryLimit
    /\ Leaves("provider_turn_budget")

(* Mutant: every open slot is submitted at once. *)
AllTasks == {s \in Slots : Open(s)}

(* submit_next_provider_task: the first task of every lane that has no call in
   flight, which after the start is the lane whose task was just consumed.     *)
NextTasks ==
    {s \in Slots :
        /\ Open(s)
        /\ \A r \in Slots : Open(r) /\ Lane[Here(r)] = Lane[Here(s)] => s <= r}

SubmitNext ==
    call' = [s \in Slots |-> IF s \in NextTasks /\ call[s] = "none" THEN "submitted"
                            ELSE call[s]]

StartLanes ==
    /\ pc = "scan" /\ scan \notin Slots
    /\ SubmitNext
    /\ pc' = "tasks"
    /\ UNCHANGED <<status, ledger, artifacts, lanes, gen, budget, scan, cursor, entry,
                   key, repairCall, panel, opens>>

----------------------------------------------------------------------------
(* A lane thread: _primary_provider_call, _provider_call, _run_primary_turn. *)

BudgetSpent ==
    /\ budget # NoBudget
    /\ Cardinality((started \ guard.started) \cap primary) >= budget.pending

Admitted(s) ==
    /\ call[s] = "submitted"
    /\ \A r \in Before(s) : Here(r) \in released

(* A started turn without an answer is never asked again under its own key: the
   scan gave the slot a retry.  One with an answer is given it again, unless the
   lane refuses it: the root thread may have gone on since (ProviderLanes).   *)
LaneAsks(s) ==
    /\ Admitted(s)
    /\ \/ /\ Turn(s) \notin started /\ ~BudgetSpent
          /\ started' = started \cup {Turn(s)}
          /\ call' = [call EXCEPT ![s] = "turn"]
       \/ /\ Turn(s) \in started /\ answer[Turn(s)] # "none"
          /\ \/ call' = [call EXCEPT ![s] = "replayed"]
             \/ manifest[gen][s] = 0 /\ call' = [call EXCEPT ![s] = "refused"]
          /\ UNCHANGED started
       \/ /\ Turn(s) \notin started /\ BudgetSpent
          /\ call' = [call EXCEPT ![s] = "raised"]
          /\ UNCHANGED started
    /\ UNCHANGED <<status, primary, repairs, repairStarted, guard, artifacts, lanes, pc,
                   gen, budget, scan, cursor, entry, key, repairCall, panel, opens>>

(* The answer is persisted before anyone is told. *)
LaneAnswers(s) ==
    /\ call[s] = "turn"
    /\ \E a \in Programs \cup {"invalid"} : answer' = [answer EXCEPT ![Turn(s)] = a]
    /\ call' = [call EXCEPT ![s] = "answered"]
    /\ UNCHANGED <<status, ledger, manifest, repairAnswer, prepared, candidate, baselines,
                   lanes, pc, gen, budget, scan, cursor, entry, key, repairCall, panel, opens>>

(* provider_finished: the telemetry of a turn is written after its answer, and
   an error there becomes that of the call.                                   *)
Told(s) == IF s \in Untold THEN {"done", "raised"} ELSE {"done"}

(* However the turn ends, the slot is completed on its lane. *)
LaneEnds(s) ==
    /\ \/ call[s] = "answered"
          /\ \E how \in Told(s) : call' = [call EXCEPT ![s] = how]
       \/ call[s] = "replayed" /\ call' = [call EXCEPT ![s] = "done"]
       \/ call[s] = "turn"
          /\ \E how \in {"raised", "infrastructure"} : call' = [call EXCEPT ![s] = how]
       \/ call[s] = "refused" /\ call' = [call EXCEPT ![s] = "infrastructure"]
    /\ completed' = completed \cup {Here(s)}
    /\ UNCHANGED <<status, ledger, artifacts, released, pc, gen, budget, scan, cursor,
                   entry, key, repairCall, panel, opens>>

----------------------------------------------------------------------------
(* The search thread takes the results in slot order. *)

Current == Min({s \in Slots : Open(s)})
AtTask == pc = "tasks" /\ \E s \in Slots : Open(s)

(* The slot leaves its lane to the next task of the lane; then commit_ready. *)
Advance(s, into) ==
    /\ entry' = [entry EXCEPT ![s] = into]
    /\ released' = released \cup {Here(s)}
    /\ pc' = "commit" /\ repairCall' = "none"
    /\ UNCHANGED <<status, primary, started, repairStarted, guard, manifest, answer,
                   repairAnswer, candidate, baselines, completed, gen, budget, scan,
                   cursor, key, call, opens>>

(* _queue_valid_candidate: the program is durable before it is evaluated. *)
QueueValid(s, program) ==
    /\ program \in Programs /\ MayRelease(s)
    /\ prepared' = [prepared EXCEPT ![Here(s)] = program]
    /\ panel' = [panel EXCEPT ![s] = "running"]
    /\ UNCHANGED repairs
    /\ Advance(s, "queued")

Fails(s, how) ==
    /\ MayRelease(s)
    /\ UNCHANGED <<prepared, panel, repairs>>
    /\ Advance(s, how)

TakeValid ==
    AtTask /\ call[Current] = "done" /\ QueueValid(Current, answer[Turn(Current)])

TakeFailure == AtTask /\ call[Current] = "raised" /\ Fails(Current, "provider_failed")

Invalid(s) == call[s] = "done" /\ answer[Turn(s)] = "invalid"

RepairDenied(s) ==
    /\ Here(s) \notin repairs
    /\ \/ budget # NoBudget /\ Cardinality(repairs \ guard.repairs) >= budget.repairs
       \/ Cardinality(repairs) >= RepairLimit

TakeUnrepaired ==
    /\ AtTask /\ repairCall = "none" /\ Invalid(Current) /\ RepairDenied(Current)
    /\ Fails(Current, "contract_invalid")

(* reserve_repair, and the repair on the slot's own lane. *)
AskRepair ==
    /\ AtTask /\ repairCall = "none" /\ Invalid(Current) /\ ~RepairDenied(Current)
    /\ repairs' = repairs \cup {Here(Current)}
    /\ repairCall' = "submitted"
    /\ UNCHANGED <<status, primary, started, repairStarted, guard, artifacts, lanes, pc,
                   gen, budget, scan, cursor, entry, key, call, panel, opens>>

RepairAsks ==
    /\ repairCall = "submitted"
    /\ LET p == Here(Current) IN
       \/ /\ p \notin repairStarted
          /\ repairStarted' = repairStarted \cup {p} /\ repairCall' = "turn"
       \/ /\ p \in repairStarted /\ UNCHANGED repairStarted
          /\ repairCall' = IF repairAnswer[p] = "none" THEN "infrastructure" ELSE "done"
    /\ UNCHANGED <<status, primary, started, repairs, guard, artifacts, lanes, pc, gen,
                   budget, scan, cursor, entry, key, call, panel, opens>>

RepairEnds ==
    /\ repairCall = "turn"
    /\ \/ /\ \E a \in Programs \cup {"invalid"} :
                repairAnswer' = [repairAnswer EXCEPT ![Here(Current)] = a]
          /\ repairCall' \in Told(Current)
       \/ /\ \E how \in {"raised", "infrastructure"} : repairCall' = how
          /\ UNCHANGED repairAnswer
    /\ UNCHANGED <<status, ledger, manifest, answer, prepared, candidate, baselines, lanes,
                   pc, gen, budget, scan, cursor, entry, key, call, panel, opens>>

TakeRepair ==
    /\ AtTask
    /\ \/ /\ repairCall = "done"
          /\ \/ QueueValid(Current, repairAnswer[Here(Current)])
             \/ /\ repairAnswer[Here(Current)] = "invalid"
                /\ Fails(Current, "contract_invalid")
       \/ repairCall = "raised" /\ Fails(Current, "provider_failed")

(* An infrastructure error of a lane or a repair, a slot that may not be released
   after its result.                                                          *)
TakeInfrastructure ==
    /\ AtTask
    /\ \/ call[Current] = "infrastructure" \/ repairCall = "infrastructure"
       \/ call[Current] \in {"done", "raised"} /\ ~MayRelease(Current)
    /\ InfrastructureStop

(* The deadline counts from the submission and is looked at before the answer,
   so that one which was given in time may be taken too late.  The provider is
   killed, and nobody waits for the calls any more.                           *)
TurnTimesOut ==
    /\ AtTask
    /\ call[Current] # "none"
    /\ pc' = "infrastructure_failure"
    /\ call' = All("none") /\ repairCall' = "none" /\ panel' = All("none")
    /\ UNCHANGED <<status, ledger, artifacts, lanes, gen, budget, scan, cursor, entry, key,
                   opens>>

----------------------------------------------------------------------------
(* commit_ready: in slot order, as far as the panels are resolved; with block
   at the end of the tasks.                                                   *)

PanelResolves(s) ==
    /\ panel[s] = "running"
    /\ \E how \in {"complete", "failed"} : panel' = [panel EXCEPT ![s] = how]
    /\ UNCHANGED <<status, ledger, artifacts, lanes, pc, gen, budget, scan, cursor, entry,
                   key, call, repairCall, opens>>

Committing == pc \in {"commit", "drain"} /\ cursor \in Slots

CanCommit == \/ entry[cursor] \in {"retained", "provider_failed", "contract_invalid"}
             \/ entry[cursor] = "queued" /\ panel[cursor] = "complete"

(* Mutant: only the candidates of this generation are looked at. *)
SeenHere(program) == \E s \in Slots :
    /\ prepared[Here(s)] = program
    /\ candidate[Here(s)] \in {"evaluated", "duplicate", "evaluation_failed"}

(* _seen_duplicates looks at every candidate on the disk that names a program. *)
Seen(program) == \E p \in Places :
    prepared[p] = program /\ candidate[p] \in {"evaluated", "duplicate", "evaluation_failed"}

CommittedAs(s) ==
    CASE entry[s] = "retained" -> candidate[Here(s)]
      [] entry[s] = "queued" -> IF Seen(prepared[Here(s)]) THEN "duplicate" ELSE "evaluated"
      [] OTHER -> entry[s]

(* Mutant: candidates are committed in the order of their panels. *)
CommitResolved ==
    /\ Committing
    /\ \E s \in Slots :
        /\ candidate[Here(s)] = "none" /\ entry[s] = "queued" /\ panel[s] = "complete"
        /\ candidate' = [candidate EXCEPT ![Here(s)] = CommittedAs(s)]
    /\ cursor' = cursor + 1
    /\ UNCHANGED <<status, ledger, manifest, answer, repairAnswer, prepared, baselines,
                   lanes, pc, gen, budget, scan, entry, key, call, repairCall, panel, opens>>

Commit ==
    /\ Committing /\ CanCommit
    /\ candidate' = [candidate EXCEPT ![Here(cursor)] = CommittedAs(cursor)]
    /\ cursor' = cursor + 1
    /\ UNCHANGED <<status, ledger, manifest, answer, repairAnswer, prepared, baselines,
                   lanes, pc, gen, budget, scan, entry, key, call, repairCall, panel, opens>>

(* A failed panel is committed as such, and ends the search. *)
CommitFailed ==
    /\ Committing /\ entry[cursor] = "queued" /\ panel[cursor] = "failed"
    /\ candidate' = [candidate EXCEPT ![Here(cursor)] = "evaluation_failed"]
    /\ pc' = "infrastructure_failure" /\ panel' = All("none")
    /\ UNCHANGED <<status, ledger, manifest, answer, repairAnswer, prepared, baselines,
                   lanes, gen, budget, scan, cursor, entry, key, call, repairCall, opens>>

NotReady ==
    IF cursor \in Slots THEN ~CanCommit /\ panel[cursor] # "failed" ELSE TRUE

(* Nothing more can be committed now: the scan goes on, or the next task. *)
Continue ==
    /\ \/ /\ pc = "commit" /\ NotReady /\ scan \in Slots
          /\ pc' = "scan" /\ UNCHANGED call
       \/ /\ pc = "commit" /\ NotReady /\ scan \notin Slots
          /\ pc' = "tasks" /\ SubmitNext
       \/ /\ pc = "tasks" /\ \A s \in Slots : ~Open(s)
          /\ pc' = "drain" /\ UNCHANGED call
       \/ /\ pc = "drain" /\ cursor \notin Slots
          /\ pc' = "baselines" /\ UNCHANGED call
    /\ UNCHANGED <<status, ledger, artifacts, lanes, gen, budget, scan, cursor, entry, key,
                   repairCall, panel, opens>>

(* An exact counterexample ends the search with its generation. *)
Verified ==
    /\ pc = "committed"
    /\ Leaves("exact_verified_counterexample")

(* The references and baselines, committed after the candidates. *)
CommitBaselines ==
    /\ pc = "baselines"
    /\ baselines' = baselines \cup {gen} /\ pc' = "committed"
    /\ UNCHANGED <<status, ledger, manifest, answer, repairAnswer, prepared, candidate,
                   lanes, gen, budget, scan, cursor, entry, key, call, repairCall, panel, opens>>

BaselinesFail == pc = "baselines" /\ InfrastructureStop

(* complete_resume_generation, and the next generation. *)
EndGeneration ==
    /\ pc = "committed"
    /\ guard' = IF budget.gen = gen THEN NoGuard ELSE guard
    /\ budget' = IF budget.gen = gen THEN NoBudget ELSE budget
    /\ pc' = "top" /\ gen' = gen + 1
    /\ FreshEntries
    /\ UNCHANGED <<status, primary, started, repairs, repairStarted, artifacts, lanes, opens>>

----------------------------------------------------------------------------
SearchThread ==
    \/ EndOfGenerations \/ NoParents \/ ReservationExhausted \/ BeginGeneration
    \/ Prepare \/ PrepareFails
    \/ ScanRetained \/ ScanRefused \/ ScanOpen \/ RetriesExhausted
    \/ RetryBudgetExhausted \/ StartLanes
    \/ TakeValid \/ TakeFailure \/ TakeUnrepaired \/ AskRepair \/ TakeRepair
    \/ TakeInfrastructure \/ TurnTimesOut
    \/ Commit \/ CommitFailed \/ Continue
    \/ CommitBaselines \/ BaselinesFail \/ EndGeneration \/ Verified \/ Shutdown

LaneThread(s) == LaneAsks(s) \/ LaneAnswers(s) \/ LaneEnds(s)

Next ==
    \/ OpenWorkspace \/ Crash \/ StopBetween
    \/ SearchThread
    \/ \E s \in Slots : LaneThread(s) \/ PanelResolves(s)
    \/ RepairAsks \/ RepairEnds

(* The threads run, the transport ends every turn by its deadline, and the pool
   resolves every panel (EveryPanelResolves of EvaluatorPool).                *)
Fairness ==
    /\ WF_vars(SearchThread) /\ WF_vars(RepairAsks) /\ WF_vars(RepairEnds)
    /\ \A s \in Slots : WF_vars(LaneThread(s)) /\ WF_vars(PanelResolves(s))

Spec == Init /\ [][Next]_vars /\ Fairness

----------------------------------------------------------------------------
(* Properties. *)

(* The state has its shape, and what is durable agrees: a turn or a repair is
   started only when it was admitted, an answer belongs to a started turn, and a
   slot that a resume releases from the scan was completed on its lane.       *)
TypeOK ==
    /\ status \in {"new", "running"} \cup Stops
    /\ primary \subseteq Turns /\ started \subseteq primary
    /\ repairs \subseteq Places /\ repairStarted \subseteq repairs
    /\ \A t \in Turns : answer[t] # "none" => t \in started
    /\ \A p \in Places : repairAnswer[p] # "none" => p \in repairStarted
    /\ released \subseteq completed /\ completed \subseteq Places
    /\ \A p \in Places : prepared[p] # "none" \/ candidate[p] # "none" => p \in completed
    /\ pc \in {"down", "top", "prepare", "scan", "commit", "tasks", "drain",
               "baselines", "committed"} \cup Stops
    /\ scan \in 1..Cardinality(Slots) + 1 /\ cursor \in 1..Cardinality(Slots) + 1

Committed(p) == candidate[p] # "none"

(* Completion order never changes the commit order: whatever the lanes and the
   pool finish first, and wherever an earlier process stopped, the committed
   candidates are a prefix of the canonical order, and a generation starts only
   when the one before it is whole.                                           *)
CommitsAreCanonical ==
    \A g \in Gens, s \in Slots : Committed(<<g, s>>) =>
        /\ \A r \in Slots : r < s => Committed(<<g, r>>)
        /\ \A h \in Gens : h < g => Settled(h)

(* One candidate per program is evaluated, the first to be committed: neither a
   duplicate committed beside it nor a resume turns two of them into parents. *)
OneEvaluatedPerProgram ==
    \A p, q \in Places :
        /\ p # q /\ candidate[p] = "evaluated"
        /\ prepared[p] = prepared[q] /\ Committed(q)
        => candidate[q] \in {"duplicate", "evaluation_failed"}

(* A slot is paid for once: no turn starts for a slot that has an answer, a
   validated program or a candidate, in this process or an earlier one, and no
   repair starts for one that has its repaired answer.                        *)
NoPaidRepeat ==
    [][/\ \A t \in started' \ started :
            LET p == <<t[1], t[2]>> IN
            /\ prepared[p] = "none" /\ candidate[p] = "none"
            /\ \A a \in Attempts : answer[<<t[1], t[2], a>>] = "none"
       /\ \A p \in repairStarted' \ repairStarted :
            repairAnswer[p] = "none" /\ candidate[p] = "none"]_vars

(* A process that has opened the workspace ends: no wait of the search thread
   for a lane, a repair or a panel lasts forever.                             *)
EveryRunEnds == pc # "down" ~> pc = "down"

=============================================================================
