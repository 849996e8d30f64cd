------------------------ MODULE GenerationCoordinator ------------------------
(***************************************************************************)
(* One native search over its sessions: GenerationCoordinator.run          *)
(* (experiment/generation.py) under the native adapter                     *)
(* (experiment/native.py).  The coordinator thread queues one provider     *)
(* call per slot, a pool of workers makes the calls, and the answers are   *)
(* collected in any order, repaired in slot order, selected from, and      *)
(* counted against a budget of model turns that outlives the session.      *)
(*                                                                         *)
(* A session ends by itself, at a budget, by Ctrl-C or by a crash; the     *)
(* next one resumes from three stores: the generation checkpoint (cp), the *)
(* turn artifacts (evidence) and the database (ledger, selections).        *)
(*                                                                         *)
(* Abstractions: an answer is one of four kinds; a parent vector is its    *)
(* origin, the roots or a selection; the wall budget stands for the hourly *)
(* token limit too, which is asked in the same places.                     *)
(***************************************************************************)
EXTENDS Naturals, FiniteSets

CONSTANTS
    NumSlots,    \* search.population_size
    NumGens,     \* search.max_generations
    MaxRepairs,  \* model.max_repairs
    RetryLimit,  \* infrastructure_retry_limit
    MaxTurns,    \* run.max_model_turns
    Workers,     \* model.concurrency
    MaxSessions, \* bound of the model: sessions the operator starts
    Answers,     \* kinds of answer the provider may give
    Faults       \* what may disturb a session

ASSUME BoundsAssumption ==
    /\ {NumSlots, NumGens, Workers, MaxTurns} \subseteq Nat \ {0}
    /\ {MaxRepairs, RetryLimit, MaxSessions} \subseteq Nat

\* Complete and valid; complete and malformed; failed but charged; uncharged
\* infrastructure failure.
ASSUME AnswersAssumption == Answers \subseteq {"good", "malformed", "charged", "infra"}
ASSUME FaultsAssumption == Faults \subseteq {"stop", "expire", "interrupt", "crash", "record"}

Slots == 1 .. NumSlots
Gens == 0 .. NumGens - 1
Origins == {"roots", "selected"}
Keys == Gens \X Slots \X Origins      \* idempotency keys of initial requests
Phases == 0 .. MaxRepairs             \* the initial turn and the repair turns
Paid == {"good", "malformed", "charged"}
Raws == Paid \cup {"infra", "none"}
Statuses == {"absent", "accepted", "invalid", "failed", "stopped",
             "budget_exhausted", "repair_pending", "repair_running"}
Repairing == {"repair_pending", "repair_running"}
BudgetReasons == {"max_model_turns", "operator_stop", "wall_seconds"}
Outcomes == {"idle", "running", "interrupted", "paused", "failed", "exhausted", "completed"}
TerminalOutcomes == {"exhausted", "completed"}

SlotRecord == [status: Statuses, repairs: Phases, raw: Raws]
Absent == [status |-> "absent", repairs |-> 0, raw |-> "none"]

CallStates == {"none", "queued", "calling", "answered", "recorded",
               "ready", "declined", "expired"}
Busy == {"calling", "answered", "recorded"}
Call == [state: CallStates, phase: Phases, tries: 0 .. RetryLimit,
         raw: Raws, retained: BOOLEAN,
         memory: {"good", "malformed", "none"}]  \* answer the provider still has
NoCall == [state |-> "none", phase |-> 0, tries |-> 0, raw |-> "none",
           retained |-> FALSE, memory |-> "none"]

ControlPoints == {"off", "boundary", "queue", "collect", "repair", "repairLoop",
                  "repairCall", "repairWait", "assemble", "selected", "advance",
                  "finish", "abort"}

VARIABLES
    cp,         \* native-generation-checkpoint.json: slots, turns, next, callbacks
    evidence,   \* turn artifacts: the terminal answer kept for a key and phase
    ledger,     \* cumulative model turns of the database
    selections, \* generations with a selection_completed event
    outcome,    \* experiment state the last session left
    run,        \* the coordinator thread and its local variables
    calls,      \* the provider call of each slot
    stop,       \* has a graceful stop been requested in this session?
    expired,    \* has the wall budget of this session been used up?
    spent,      \* history: answers the provider charged for
    leaked,     \* history: reservations that died with their session
    escaped,    \* history: charged answers given back as if nobody had paid
    sessions    \* sessions started

durable == <<cp, evidence, ledger, selections, outcome>>
history == <<spent, leaked, escaped, sessions>>
vars == <<durable, run, calls, stop, expired, history>>

Local == [
    pc: ControlPoints,
    gen: 0 .. NumGens,
    slot: Slots,
    origin: Origins,                       \* of the parents of gen
    assigned: [gen: 0 .. NumGens, origin: Origins],  \* parent_assignments
    results: [Slots -> SlotRecord],
    reason: BudgetReasons \cup {"none"},   \* stopped_reason; "none" is not stopped
    infra: BOOLEAN,                        \* infrastructure_failed
    ending: Outcomes]                      \* outcome of an aborted session

Idle == [pc |-> "off", gen |-> 0, slot |-> 1, origin |-> "roots",
         assigned |-> [gen |-> NumGens, origin |-> "roots"],
         results |-> [s \in Slots |-> Absent],
         reason |-> "none", infra |-> FALSE, ending |-> "idle"]

TypeOK ==
    /\ cp \in [slots: [Keys -> SlotRecord], turns: Nat, next: 0 .. NumGens,
               callbacks: SUBSET Gens]
    /\ evidence \in [Keys \X Phases -> Paid \cup {"none"}]
    /\ ledger \in Nat
    /\ selections \subseteq Gens
    /\ outcome \in Outcomes
    /\ run \in Local
    /\ calls \in [Slots -> Call]
    /\ stop \in BOOLEAN /\ expired \in BOOLEAN
    /\ spent \in Nat /\ leaked \in Nat /\ escaped \in Nat /\ sessions \in 0 .. MaxSessions

\* _slot_failure_is_retryable: a failure nobody was charged for.
Retryable(rec) == rec.status = "failed" /\ rec.raw # "charged"

-----------------------------------------------------------------------------
(* Mutants: plausible mistakes in the operators below.                     *)

\* A deferred repair does not hold its generation back.
IncompleteOnlyFailed(rec) == Retryable(rec)

\* The reason is taken for the status of the slot.
CutByReason(reason, raw) == [status |-> reason, repairs |-> 0, raw |-> raw]

\* A retained answer keeps its reservation.
AfterReleaseInfraOnly(s) == IF calls[s].raw = "infra" THEN cp.turns - 1 ELSE cp.turns

-----------------------------------------------------------------------------
(* Slot results. *)

Settled(rec) ==
    rec.status \in {"accepted", "invalid"} \/ (rec.status = "failed" /\ ~Retryable(rec))

\* What keeps a generation from being complete when nothing stopped it.
Incomplete(rec) == Retryable(rec) \/ rec.status \in Repairing

Stored(rec) == rec.status # "absent"

\* _assess and _slot_status.
Assessed(raw, repairs) ==
    [status |-> CASE raw = "good" -> "accepted"
                  [] raw = "malformed" /\ repairs < MaxRepairs -> "repair_pending"
                  [] raw = "malformed" /\ repairs >= MaxRepairs -> "invalid"
                  [] OTHER -> "failed",
     repairs |-> repairs, raw |-> raw]

\* A slot cut short by a boundary, with the answer it may already have.
Cut(reason, raw) ==
    [status |-> IF reason = "operator_stop" THEN "stopped" ELSE "budget_exhausted",
     repairs |-> 0, raw |-> raw]

Key(s) == <<run.gen, s, run.origin>>
Cached(s) == cp.slots[Key(s)]

(* The model-turn budget: reserve_model_turn, release_reserved_turn,       *)
(* budget_reason.                                                          *)

BudgetReason(turns) ==
    IF turns >= MaxTurns THEN "max_model_turns"
    ELSE IF stop THEN "operator_stop"
    ELSE IF expired THEN "wall_seconds"
    ELSE "none"

\* Turns after the call of slot s is collected: retained answers and uncharged
\* failures give their reservation back.
AfterRelease(s) ==
    IF calls[s].retained \/ calls[s].raw = "infra" THEN cp.turns - 1 ELSE cp.turns

\* Reservations not (yet) covered by a newly charged answer.
Unspent ==
    {s \in Slots :
        \/ calls[s].state \in {"queued", "calling", "declined", "expired"}
        \/ calls[s].state \in {"answered", "recorded"} /\ calls[s].retained
        \/ calls[s].state = "ready" /\ (calls[s].retained \/ calls[s].raw = "infra")}

\* An infrastructure failure that is retried in the same session.
RetriesLeft(s) == calls[s].raw = "infra" /\ calls[s].tries < RetryLimit

At(there) == run.pc = there
Environment == <<stop, expired>>
EndSession(state) ==
    /\ outcome' = state
    /\ run' = [run EXCEPT !.pc = "off"]

Abort(state) == run' = [run EXCEPT !.pc = "abort", !.ending = state]

-----------------------------------------------------------------------------
(* Mutants: plausible mistakes in the actions below.                       *)

\* Parents are not recovered for an interrupted generation.
ResumeWithoutParents == [gen |-> NumGens, origin |-> "roots"]

\* The retries of a slot are not counted.
CollectRetryUncounted(s) ==
    /\ At("collect")
    /\ calls[s].state = "ready"
    /\ RetriesLeft(s)
    /\ BudgetReason(cp.turns - 1) = "none"
    /\ calls' = [calls EXCEPT ![s] = [NoCall EXCEPT !.state = "queued", !.tries = @,
                                                    !.memory = calls[s].memory]]
    /\ UNCHANGED <<durable, run, Environment, history>>

-----------------------------------------------------------------------------
(* The start of a session. *)

\* Slots whose best record still asks for work, whatever their parents were.
RetryGens ==
    {g \in Gens : \E s \in Slots :
        /\ \E o \in Origins :
              LET rec == cp.slots[<<g, s, o>>]
              IN  Incomplete(rec) \/ rec.status = "stopped"
        /\ \A o \in Origins : ~Settled(cp.slots[<<g, s, o>>])}

RetainedGens == {k[1] : k \in {k \in Keys : Stored(cp.slots[k])}}

\* _resume_parent_assignments: the parents of the newest generation with a
\* stored slot, completed from the selection event they match.
ResumeParents ==
    IF RetainedGens = {}
    THEN [gen |-> NumGens, origin |-> "roots"]
    ELSE LET last == CHOOSE g \in RetainedGens : \A h \in RetainedGens : h <= g
         IN  [gen |-> last,
              origin |-> IF \E s \in Slots : Stored(cp.slots[<<last, s, "selected">>])
                            /\ last - 1 \in selections
                         THEN "selected" ELSE "roots"]

\* run() loads the checkpoint, takes the larger of the two turn counts, which
\* may recover escaped answers, and steps back to the first generation that asks
\* for a retry.
StartSession ==
    /\ At("off")
    /\ sessions < MaxSessions
    /\ outcome \notin TerminalOutcomes
    /\ \E first \in Gens \cup {NumGens} :
          /\ \A g \in RetryGens \cup {cp.next} : first <= g
          /\ first \in RetryGens \cup {cp.next}
          /\ cp' = [cp EXCEPT !.turns = IF ledger > @ THEN ledger ELSE @,
                              !.next = first,
                              !.callbacks = {g \in @ : g < first \/ first = cp.next}]
          /\ run' = [Idle EXCEPT !.pc = "boundary", !.gen = first,
                                 !.assigned = ResumeParents]
    /\ escaped' = escaped - (cp'.turns - cp.turns)
    /\ outcome' = "running"
    /\ stop' = FALSE
    /\ expired' = FALSE
    /\ sessions' = sessions + 1
    /\ UNCHANGED <<evidence, ledger, selections, calls, spent, leaked>>

(* The generation loop. *)

HasRetained(g) == g \in RetainedGens

\* _parents: an assignment made for another generation gives the roots.
ParentOrigin(g) == IF run.assigned.gen = g THEN run.assigned.origin ELSE "roots"

StartGeneration ==
    /\ At("boundary")
    /\ run.gen < NumGens
    /\ BudgetReason(cp.turns) = "none" \/ HasRetained(run.gen)
    /\ run' = [run EXCEPT !.pc = "queue", !.slot = 1, !.origin = ParentOrigin(run.gen),
                          !.results = [s \in Slots |-> Absent]]
    /\ UNCHANGED <<durable, calls, Environment, history>>

LeaveLoop ==
    /\ At("boundary")
    /\ \/ /\ run.gen = NumGens
          /\ run' = [run EXCEPT !.pc = "finish"]
       \/ /\ run.gen < NumGens
          /\ BudgetReason(cp.turns) # "none"
          /\ ~HasRetained(run.gen)
          /\ run' = [run EXCEPT !.pc = "finish", !.reason = BudgetReason(cp.turns)]
    /\ UNCHANGED <<durable, calls, Environment, history>>

(***************************************************************************)
(* Queueing: each slot is recovered from the checkpoint, refused at a      *)
(* budget, or given to the pool.                                           *)
(***************************************************************************)

\* A retained answer that is assessed again before anything else.
Reassessable(rec) == rec.status \in {"repair_pending", "stopped"} /\ rec.raw # "none"

Reassessed(rec) ==
    IF Reassessable(rec) /\ rec.raw = "good" THEN Assessed("good", 0) ELSE rec

\* resume_slot_validator: a running repair needs the evidence of its first turn.
Recoverable(s, rec) ==
    \/ Settled(rec)
    \/ rec.status = "repair_pending"
    \/ rec.status = "repair_running" /\ evidence[<<Key(s), 0>>] # "none"

NextSlot(fields) ==
    run' = IF run.slot < NumSlots
           THEN [fields EXCEPT !.slot = @ + 1]
           ELSE [fields EXCEPT !.pc = "collect"]

\* _GracefulStopBoundary escapes from the reassessment: the session fails.
QueueRaises(s) ==
    /\ At("queue")
    /\ run.slot = s
    /\ Reassessable(Cached(s))
    /\ stop
    /\ Abort("failed")
    /\ UNCHANGED <<durable, calls, Environment, history>>

QueueRecover(s) ==
    LET rec == Reassessed(Cached(s))
    IN  /\ At("queue")
        /\ run.slot = s
        /\ ~(Reassessable(Cached(s)) /\ stop)
        /\ Recoverable(s, rec)
        /\ cp' = [cp EXCEPT !.slots[Key(s)] = rec]
        /\ NextSlot([run EXCEPT !.results[s] = rec])
        /\ UNCHANGED <<evidence, ledger, selections, outcome, calls, Environment, history>>

\* The refusal itself is not saved.
QueueRefuse(s) ==
    /\ At("queue")
    /\ run.slot = s
    /\ ~(Reassessable(Cached(s)) /\ stop)
    /\ ~Recoverable(s, Reassessed(Cached(s)))
    /\ BudgetReason(cp.turns) # "none"
    /\ NextSlot([run EXCEPT !.reason = BudgetReason(cp.turns),
                            !.results[s] = Cut(BudgetReason(cp.turns), "none")])
    /\ UNCHANGED <<durable, calls, Environment, history>>

QueueCall(s) ==
    /\ At("queue")
    /\ run.slot = s
    /\ ~Recoverable(s, Reassessed(Cached(s)))
    /\ BudgetReason(cp.turns) = "none"
    /\ cp' = [cp EXCEPT !.turns = @ + 1]
    /\ calls' = [calls EXCEPT ![s] = [NoCall EXCEPT !.state = "queued"]]
    /\ NextSlot(run)
    /\ UNCHANGED <<evidence, ledger, selections, outcome, Environment, history>>

(***************************************************************************)
(* The provider calls (_invoke_before_stop, _NativeProvider.generate and   *)
(* repair, _record), by the workers or, for a repair, in line.             *)
(***************************************************************************)

CanBegin(s) ==
    /\ ~At("abort")
    /\ calls[s].state = "queued"
    /\ Cardinality({t \in Slots : calls[t].state \in Busy}) < Workers

Kept(s) == evidence[<<Key(s), calls[s].phase>>]
Becomes(s, state) == calls' = [calls EXCEPT ![s].state = state]

BeginDeclined(s) ==
    /\ CanBegin(s)
    /\ calls[s].phase = 0 /\ stop
    /\ Becomes(s, "declined")
    /\ UNCHANGED <<durable, run, Environment, history>>

BeginRetained(s) ==
    /\ CanBegin(s)
    /\ ~(calls[s].phase = 0 /\ stop)
    /\ Kept(s) # "none"
    /\ calls' = [calls EXCEPT ![s].state = "ready", ![s].raw = Kept(s), ![s].retained = TRUE]
    /\ UNCHANGED <<durable, run, Environment, history>>

BeginExpired(s) ==
    /\ CanBegin(s)
    /\ ~(calls[s].phase = 0 /\ stop)
    /\ Kept(s) = "none"
    /\ expired
    /\ Becomes(s, "expired")
    /\ UNCHANGED <<durable, run, Environment, history>>

BeginCall(s) ==
    /\ CanBegin(s)
    /\ ~(calls[s].phase = 0 /\ stop)
    /\ Kept(s) = "none"
    /\ ~expired
    /\ Becomes(s, "calling")
    /\ UNCHANGED <<durable, run, Environment, history>>

Answer(s) ==
    /\ calls[s].state = "calling"
    /\ calls[s].memory = "none"
    /\ \/ \E raw \in Answers \cap Paid :
             /\ calls' = [calls EXCEPT ![s].state = "answered", ![s].raw = raw]
             /\ spent' = spent + 1
       \/ /\ "infra" \in Answers
          /\ calls' = [calls EXCEPT ![s].state = "ready", ![s].raw = "infra"]
          /\ UNCHANGED spent
    /\ UNCHANGED <<durable, run, Environment, leaked, escaped, sessions>>

\* A retry asks a provider that has answered: it hands the same answer out as
\* retained, and is not paid twice.
Replay(s) ==
    /\ calls[s].state = "calling"
    /\ calls[s].memory # "none"
    /\ calls' = [calls EXCEPT ![s].state = "answered", ![s].raw = calls[s].memory,
                              ![s].retained = TRUE, ![s].memory = "none"]
    /\ UNCHANGED <<durable, run, Environment, history>>

\* The turn directory is written and synced, then the database row.
RecordArtifacts(s) ==
    /\ calls[s].state = "answered"
    /\ evidence' = [evidence EXCEPT ![<<Key(s), calls[s].phase>>] = calls[s].raw]
    /\ Becomes(s, "recorded")
    /\ UNCHANGED <<cp, ledger, selections, outcome, run, Environment, history>>

RecordTurn(s) ==
    /\ calls[s].state = "recorded"
    /\ ledger' = ledger + 1
    /\ Becomes(s, "ready")
    /\ UNCHANGED <<cp, evidence, selections, outcome, run, Environment, history>>

(***************************************************************************)
(* The record of a paid answer is refused: the artifacts are over a bound  *)
(* or not written, the row does not get its lock, or what follows the row  *)
(* raises.  The exception reaches _invoke, which makes an uncharged        *)
(* infrastructure failure of it, and the reservation is given back.        *)
(***************************************************************************)
RecordFails(s) ==
    /\ "record" \in Faults
    /\ calls[s].state \in {"answered", "recorded"}
    /\ \E posted \in IF calls[s].state = "recorded" THEN {0, 1} ELSE {0} :
          ledger' = ledger + posted
    /\ calls' = [calls EXCEPT
          ![s].state = "ready", ![s].raw = "infra", ![s].retained = FALSE,
          ![s].memory = IF calls[s].state = "answered" /\ calls[s].raw # "charged"
                        THEN calls[s].raw ELSE "none"]
    /\ escaped' = IF calls[s].retained THEN escaped ELSE escaped + 1
    /\ UNCHANGED <<cp, evidence, selections, outcome, run, Environment,
                   spent, leaked, sessions>>

\* A charged failure raises by itself: artifacts that are incomplete are a note
\* on its exception, which keeps its charge.
RecordNoted(s) ==
    /\ "record" \in Faults
    /\ calls[s].state = "answered"
    /\ calls[s].raw = "charged"
    /\ Becomes(s, "ready")
    /\ UNCHANGED <<durable, run, Environment, history>>

(***************************************************************************)
(* Collecting answers, in any order.                                       *)
(***************************************************************************)

\* The result of slot s is saved, its call is over.
SaveSlot(s, rec, turns) ==
    /\ cp' = [cp EXCEPT !.slots[Key(s)] = rec, !.turns = turns]
    /\ calls' = [calls EXCEPT ![s] = NoCall]
    /\ UNCHANGED <<evidence, ledger, selections, outcome, history>>

\* The wall budget raised inside the worker: the session ends.
CollectExpired(s) ==
    /\ At("collect")
    /\ calls[s].state = "expired"
    /\ Abort("idle")
    /\ UNCHANGED <<durable, calls, Environment, history>>

CollectDeclined(s) ==
    /\ At("collect")
    /\ calls[s].state = "declined"
    /\ SaveSlot(s, Cut("operator_stop", "none"), cp.turns - 1)
    /\ run' = [run EXCEPT !.results[s] = Cut("operator_stop", "none"),
                          !.reason = "operator_stop"]
    /\ UNCHANGED Environment

\* The reservation is released and taken again.
CollectRetry(s) ==
    /\ At("collect")
    /\ calls[s].state = "ready"
    /\ RetriesLeft(s)
    /\ BudgetReason(cp.turns - 1) = "none"
    /\ calls' = [calls EXCEPT ![s] = [NoCall EXCEPT !.state = "queued",
                                                    !.tries = calls[s].tries + 1,
                                                    !.memory = calls[s].memory]]
    /\ UNCHANGED <<durable, run, Environment, history>>

CollectBoundary(s) ==
    LET reason == BudgetReason(cp.turns - 1)
    IN  /\ At("collect")
        /\ calls[s].state = "ready"
        /\ RetriesLeft(s)
        /\ reason # "none"
        /\ SaveSlot(s, Cut(reason, "infra"), cp.turns - 1)
        /\ run' = [run EXCEPT !.results[s] = Cut(reason, "infra"), !.reason = reason]
        /\ UNCHANGED Environment

CollectStopped(s) ==
    LET rec == Cut("operator_stop", calls[s].raw)
    IN  /\ At("collect")
        /\ calls[s].state = "ready"
        /\ ~RetriesLeft(s)
        /\ stop
        /\ SaveSlot(s, rec, AfterRelease(s))
        /\ run' = [run EXCEPT !.results[s] = rec, !.reason = "operator_stop"]
        /\ UNCHANGED Environment

\* A stop that arrives during the assessment is seen after the result is saved.
LateStop == IF "stop" \in Faults THEN BOOLEAN ELSE {FALSE}

CollectAssess(s) ==
    LET rec == Assessed(calls[s].raw, 0)
    IN  /\ At("collect")
        /\ calls[s].state = "ready"
        /\ ~RetriesLeft(s)
        /\ ~stop
        /\ SaveSlot(s, rec, AfterRelease(s))
        /\ stop' \in LateStop
        /\ run' = [run EXCEPT !.results[s] = rec,
                              !.reason = IF stop' THEN "operator_stop" ELSE @]
        /\ UNCHANGED expired

CollectDone ==
    /\ At("collect")
    /\ \A s \in Slots : calls[s].state = "none"
    /\ run' = [run EXCEPT !.pc = "repair", !.slot = 1]
    /\ UNCHANGED <<durable, calls, Environment, history>>

(***************************************************************************)
(* Repairs, one slot after another, called in line.                        *)
(***************************************************************************)

Item == run.results[run.slot]

NextRepair(fields) ==
    run' = IF run.slot < NumSlots
           THEN [fields EXCEPT !.pc = "repair", !.slot = @ + 1]
           ELSE [fields EXCEPT !.pc = "assemble"]

\* A boundary found before the loop is the stop reason ...
RepairBoundary ==
    /\ At("repair")
    /\ Item.status = "repair_pending"
    /\ BudgetReason(cp.turns) # "none"
    /\ NextRepair([run EXCEPT !.reason = BudgetReason(cp.turns)])
    /\ UNCHANGED <<durable, calls, Environment, history>>

RepairEnter ==
    /\ At("repair")
    /\ Item.status = "repair_pending" => BudgetReason(cp.turns) = "none"
    /\ run' = [run EXCEPT !.pc = "repairLoop"]
    /\ UNCHANGED <<durable, calls, Environment, history>>

\* ... one found by the condition of the loop is not recorded.
RepairLeave ==
    /\ At("repairLoop")
    /\ \/ Item.status \notin Repairing
       \/ Item.status = "repair_pending" /\ BudgetReason(cp.turns) # "none"
       \/ Item.status = "repair_running" /\ (stop \/ expired)
    /\ NextRepair(run)
    /\ UNCHANGED <<durable, calls, Environment, history>>

RepairStart(s) ==
    LET item == [run.results[s] EXCEPT !.status = "repair_running", !.repairs = @ + 1]
    IN  /\ At("repairLoop")
        /\ run.slot = s
        /\ run.results[s].status = "repair_pending"
        /\ BudgetReason(cp.turns) = "none"
        /\ cp' = [cp EXCEPT !.slots[Key(s)] = item]
        /\ run' = [run EXCEPT !.pc = "repairCall", !.results[s] = item]
        /\ UNCHANGED <<evidence, ledger, selections, outcome, calls, Environment, history>>

\* A running repair is resumed without a look at the turns.
RepairResume ==
    /\ At("repairLoop")
    /\ Item.status = "repair_running"
    /\ ~stop /\ ~expired
    /\ run' = [run EXCEPT !.pc = "repairCall"]
    /\ UNCHANGED <<durable, calls, Environment, history>>

RepairReserve ==
    /\ At("repairCall")
    /\ cp' = [cp EXCEPT !.turns = @ + 1]
    /\ calls' = [calls EXCEPT ![run.slot] = [NoCall EXCEPT !.state = "queued",
                                                           !.phase = Item.repairs]]
    /\ run' = [run EXCEPT !.pc = "repairWait"]
    /\ UNCHANGED <<evidence, ledger, selections, outcome, Environment, history>>

RepairExpired ==
    /\ At("repairWait")
    /\ calls[run.slot].state = "expired"
    /\ Abort("idle")
    /\ UNCHANGED <<durable, calls, Environment, history>>

\* Why a repair is deferred: a stop seen after its first call or during the
\* assessment; a boundary between two attempts; or no reason of its own, when
\* the attempts are used up.
DeferReasons(s) ==
    LET infra == calls[s].raw = "infra"
    IN  {r \in {"operator_stop"} : stop /\ (calls[s].tries = 0 \/ ~infra)}
        \cup {r \in {BudgetReason(cp.turns - 1)} : RetriesLeft(s) /\ r # "none"}
        \cup {r \in {run.reason} : infra /\ ~RetriesLeft(s)}

\* The repair stays running, to be resumed by a later session.
RepairDefer(s) ==
    LET rec == [run.results[s] EXCEPT !.raw = calls[s].raw]
    IN  /\ At("repairWait")
        /\ run.slot = s
        /\ calls[s].state = "ready"
        /\ SaveSlot(s, rec, AfterRelease(s))
        /\ \E reason \in DeferReasons(s) :
              NextRepair([run EXCEPT !.results[s] = rec, !.reason = reason])
        /\ UNCHANGED Environment

RepairRetry(s) ==
    /\ At("repairWait")
    /\ run.slot = s
    /\ calls[s].state = "ready"
    /\ RetriesLeft(s)
    /\ BudgetReason(cp.turns - 1) = "none"
    /\ calls' = [calls EXCEPT ![s].state = "queued", ![s].tries = @ + 1, ![s].raw = "none"]
    /\ UNCHANGED <<durable, run, Environment, history>>

RepairAssess(s) ==
    LET rec == Assessed(calls[s].raw, run.results[s].repairs)
    IN  /\ At("repairWait")
        /\ run.slot = s
        /\ calls[s].state = "ready"
        /\ calls[s].raw # "infra"
        /\ ~stop
        /\ SaveSlot(s, rec, AfterRelease(s))
        /\ stop' \in LateStop
        /\ run' = [run EXCEPT !.pc = "repairLoop", !.results[s] = rec,
                              !.reason = IF stop' THEN "operator_stop" ELSE @]
        /\ UNCHANGED expired

(***************************************************************************)
(* The end of a generation: selection, its checkpoint, the next one.       *)
(***************************************************************************)

Unfinished == \E s \in Slots : Incomplete(run.results[s])

Selects == run.reason = "none" /\ ~Unfinished /\ run.gen \notin cp.callbacks

\* on_generation: the evaluations may find a counterexample, the wall budget
\* and the operator may end the session before a selection is made.
SelectionEnds ==
    /\ At("assemble")
    /\ Selects
    /\ \/ expired /\ EndSession("idle")
       \/ stop /\ EndSession("interrupted")
       \/ \E state \in {"completed", "failed", "paused"} : EndSession(state)
    /\ UNCHANGED <<cp, evidence, ledger, selections, calls, Environment, history>>

\* The assignment is in memory, the event in the database.
Select ==
    /\ At("assemble")
    /\ Selects
    /\ ~stop /\ ~expired
    /\ selections' = selections \cup {run.gen}
    /\ run' = [run EXCEPT !.pc = "selected",
                          !.assigned = IF run.gen + 1 < NumGens
                                       THEN [gen |-> run.gen + 1, origin |-> "selected"]
                                       ELSE @]
    /\ UNCHANGED <<cp, evidence, ledger, outcome, calls, Environment, history>>

SaveSelection ==
    /\ At("selected")
    /\ cp' = [cp EXCEPT !.callbacks = @ \cup {run.gen}]
    /\ run' = [run EXCEPT !.pc = "advance"]
    /\ UNCHANGED <<evidence, ledger, selections, outcome, calls, Environment, history>>

SkipSelection ==
    /\ At("assemble")
    /\ ~Selects
    /\ run' = [run EXCEPT !.pc = "advance"]
    /\ UNCHANGED <<durable, calls, Environment, history>>

Advance ==
    LET infra == Unfinished /\ run.reason = "none"
    IN  /\ At("advance")
        /\ cp' = [cp EXCEPT !.next = IF run.reason = "none" /\ ~Unfinished
                                     THEN run.gen + 1 ELSE @]
        /\ run' = IF run.reason # "none" \/ infra
                  THEN [run EXCEPT !.pc = "finish", !.infra = infra]
                  ELSE [run EXCEPT !.pc = "boundary", !.gen = @ + 1]
        /\ UNCHANGED <<evidence, ledger, selections, outcome, calls, Environment, history>>

\* The summary of the coordinator, and what the adapter makes of it.
SearchOutcome ==
    CASE run.infra -> "paused"
      [] ~run.infra /\ run.reason = "operator_stop" -> "interrupted"
      [] ~run.infra /\ run.reason = "wall_seconds" -> "idle"
      [] OTHER -> "exhausted"

Finish ==
    /\ At("finish")
    /\ EndSession(SearchOutcome)
    /\ UNCHANGED <<cp, evidence, ledger, selections, calls, Environment, history>>

(***************************************************************************)
(* Sessions cut short.                                                     *)
(***************************************************************************)

DropCalls ==
    /\ leaked' = leaked + Cardinality(Unspent)
    /\ calls' = [s \in Slots |-> NoCall]

\* The executor cancels what is queued, closes the provider and joins the
\* workers; no reservation is given back.
AbortEnd ==
    /\ At("abort")
    /\ \A s \in Slots : calls[s].state \notin Busy
    /\ EndSession(run.ending)
    /\ DropCalls
    /\ UNCHANGED <<cp, evidence, ledger, selections, Environment, spent, escaped, sessions>>

\* Ctrl-C.  An open pool is shut down first; a repair in line is given up.
Interrupt ==
    /\ "interrupt" \in Faults
    /\ \/ /\ run.pc \in {"queue", "collect"}
          /\ Abort("interrupted")
          /\ UNCHANGED <<outcome, calls, leaked>>
       \/ /\ run.pc \notin {"off", "queue", "collect", "abort"}
          /\ EndSession("interrupted")
          /\ DropCalls
    /\ UNCHANGED <<cp, evidence, ledger, selections, Environment, spent, escaped, sessions>>

Crash ==
    /\ "crash" \in Faults
    /\ ~At("off")
    /\ run' = [run EXCEPT !.pc = "off"]
    /\ DropCalls
    /\ UNCHANGED <<durable, Environment, spent, escaped, sessions>>

RequestStop ==
    /\ "stop" \in Faults
    /\ ~At("off") /\ ~stop
    /\ stop' = TRUE
    /\ UNCHANGED <<durable, run, calls, expired, history>>

Expire ==
    /\ "expire" \in Faults
    /\ ~At("off") /\ ~expired
    /\ expired' = TRUE
    /\ UNCHANGED <<durable, run, calls, stop, history>>

-----------------------------------------------------------------------------
Init ==
    /\ cp = [slots |-> [k \in Keys |-> Absent], turns |-> 0, next |-> 0, callbacks |-> {}]
    /\ evidence = [kp \in Keys \X Phases |-> "none"]
    /\ ledger = 0
    /\ selections = {}
    /\ outcome = "idle"
    /\ run = Idle
    /\ calls = [s \in Slots |-> NoCall]
    /\ stop = FALSE /\ expired = FALSE
    /\ spent = 0 /\ leaked = 0 /\ escaped = 0 /\ sessions = 0

CoordinatorStep ==
    \/ StartGeneration \/ LeaveLoop
    \/ \E s \in Slots :
          \/ QueueRaises(s) \/ QueueRecover(s) \/ QueueRefuse(s) \/ QueueCall(s)
          \/ CollectExpired(s) \/ CollectDeclined(s) \/ CollectRetry(s)
          \/ CollectBoundary(s) \/ CollectStopped(s) \/ CollectAssess(s)
          \/ RepairStart(s) \/ RepairDefer(s) \/ RepairRetry(s) \/ RepairAssess(s)
    \/ CollectDone
    \/ RepairBoundary \/ RepairEnter \/ RepairLeave \/ RepairResume \/ RepairReserve \/ RepairExpired
    \/ SelectionEnds \/ Select \/ SaveSelection \/ SkipSelection
    \/ Advance \/ Finish \/ AbortEnd

WorkerStep(s) ==
    \/ BeginDeclined(s) \/ BeginRetained(s) \/ BeginExpired(s) \/ BeginCall(s)
    \/ Answer(s) \/ Replay(s)
    \/ RecordArtifacts(s) \/ RecordTurn(s) \/ RecordFails(s) \/ RecordNoted(s)

\* The operator starts no further session.
Rest ==
    /\ At("off")
    /\ sessions = MaxSessions \/ outcome \in TerminalOutcomes
    /\ UNCHANGED vars

Next ==
    \/ StartSession
    \/ CoordinatorStep
    \/ \E s \in Slots : WorkerStep(s)
    \/ Interrupt \/ Crash \/ RequestStop \/ Expire
    \/ Rest

Spec == Init /\ [][Next]_vars

\* Threads keep running and the provider answers or times out; no session is
\* owed by the operator.
Fairness == WF_vars(CoordinatorStep) /\ \A s \in Slots : WF_vars(WorkerStep(s))

FairSpec == Spec /\ Fairness

-----------------------------------------------------------------------------
(* Properties. *)

\* The durable turn count is exact over all sessions: the answers the provider
\* charged for, the reservations that died with a session, and those still
\* open, less the answers that escaped.  An answer escapes only when its own
\* record fails, once however often it is handed out again, and comes back only
\* with the larger count of the ledger; nothing else is released, and nothing
\* twice (generation.py reserve_model_turn, release_reserved_turn, 1953-1962;
\* native.py:1159-1178).
TurnsAccounted == cp.turns + escaped = spent + leaked + Cardinality(Unspent)

\* The search moves on only from generations whose every slot has a final
\* result, so no later session steps back (generation.py:1760-1779, 2516).
NextFollowsSettled ==
    \A g \in Gens : g < cp.next =>
        \A s \in Slots : \E o \in Origins : Settled(cp.slots[<<g, s, o>>])

\* The slots of one generation have parents of one origin, however many
\* sessions they took (native.py _resume_parent_assignments).
OneParentVector ==
    \A g \in Gens : \A s, t \in Slots :
        ~(Stored(cp.slots[<<g, s, "roots">>]) /\ Stored(cp.slots[<<g, t, "selected">>]))

\* Every session ends, whatever the provider answers and whenever the budget,
\* the operator or Ctrl-C cuts in.
SessionEnds == ~At("off") ~> At("off")

=============================================================================
