--------------------------- MODULE EvaluatorPool ---------------------------
(* The case scheduler of the scientific search: _ConcurrentEvaluatorPool of
   native_v3_python/scientific_search.py.  The search thread (Main) submits
   panels, one per candidate, baseline or parent reference; worker threads take
   one case at a time, round robin over the panels that still have cases, and
   the thread that ends the last running case of a panel resolves its future.

   Locks.  The fields of a panel and the queue change only under _condition, so
   each critical section is one action; between two critical sections a worker
   evaluates, persists and folds its case, which are actions of their own.

   Durable state outlives the process: the evaluation files of a panel, its
   aggregation checkpoint and its result file.  Everything else is rebuilt by
   the next process (Restart), which is also what a crash leaves.             *)
EXTENDS Naturals, Sequences, FiniteSets, SequencesExt

CONSTANTS
    Workers,              \* worker threads
    Main,                 \* the search thread, the only one that submits
    Panels, NoPanel,      \* panels the search asks for; no panel
    Finalized,            \* those with a result file: baselines, parent references
    Cases,                \* cases of a panel, 1..n in panel order
    Capacity,             \* permits of _panel_capacity (queue_capacity)
    Interval,             \* _AGGREGATION_CHECKPOINT_CASE_INTERVAL
    MaxRestarts,          \* bound: processes after the first
    MaxFaults,            \* bound: failing evaluations, folds and writes
    MaxTelemetryFaults    \* bound: writes of the runtime telemetry that fail

ASSUME PoolAssumption ==
    /\ Main \notin Workers /\ NoPanel \notin Panels
    /\ Finalized \subseteq Panels
    /\ IsFiniteSet(Workers) /\ IsFiniteSet(Panels)
    /\ IsFiniteSet(Cases) /\ Cases # {} /\ Cases = 1..Cardinality(Cases)
    /\ \A n \in {Capacity, Interval} : n \in Nat /\ n > 0
    /\ {MaxRestarts, MaxFaults, MaxTelemetryFaults} \subseteq Nat

Threads == Workers \cup {Main}

VARIABLES
    files,       \* panel -> cases whose evaluation file exists (durable)
    checkpoint,  \* panel -> cases counted by its aggregation checkpoint (durable)
    result,      \* panels whose result file exists (durable)
    runnable,    \* _runnable: the deque of panels with cases to hand out
    work,        \* panel -> its _PanelWork
    future,      \* panel -> its Future, "none" before it is submitted
    permits,     \* free permits of _panel_capacity
    closing,     \* _closing / _force_closing: "no", "drain" or "force"
    thread,      \* thread -> where it is and the case it holds
    restarts, faults, lost    \* bounded counters; lost: telemetry writes failed

durable == <<files, checkpoint, result>>
memory == <<runnable, work, future, permits, closing, thread>>
vars == <<durable, memory, restarts, faults, lost>>

IdleThread == [at |-> "idle", panel |-> NoPanel, case |-> 0, folded |-> FALSE]

NoWork == [remaining |-> {}, running |-> 0, completed |-> 0,
           folded |-> {}, dirty |-> 0, failed |-> FALSE]

(* The scan of _submit_panel finds the missing cases in panel order, and they
   are handed out from the front: the least of those that remain is next.     *)
IsNext(c, remaining) == c \in remaining /\ \A d \in remaining : c <= d

Fault == faults < MaxFaults /\ faults' = faults + 1
NoFault == UNCHANGED faults

Goto(t, place) == thread' = [thread EXCEPT ![t].at = place]

IdleWork == [p \in Panels |-> NoWork]
IdleThreads == [t \in Threads |-> IdleThread]
NoFuture == [p \in Panels |-> "none"]

Init ==
    /\ files = [p \in Panels |-> {}]
    /\ checkpoint = [p \in Panels |-> {}]
    /\ result = {}
    /\ runnable = <<>> /\ work = IdleWork /\ future = NoFuture
    /\ permits = Capacity /\ closing = "no" /\ thread = IdleThreads
    /\ restarts = 0 /\ faults = 0 /\ lost = 0

----------------------------------------------------------------------------
(* The search thread. *)

(* The cases a submitted panel starts from: the checkpoint when every case it
   counts still has its file, and the files it does not count, folded again.  *)
Restored(p) == IF checkpoint[p] \subseteq files[p] THEN checkpoint[p] ELSE {}

(* Mutant of Bootstrapped. *)
SkipsTail(p) == Restored(p)

Bootstrapped(p) == Restored(p) \cup (files[p] \ Restored(p))

Missing(p) == Cases \ files[p]

(* A panel whose files are all there is finished by the submitting thread.    *)
Submit(p) ==
    /\ thread[Main].at = "idle" /\ closing = "no"
    /\ future[p] = "none" /\ permits > 0
    /\ permits' = permits - 1
    /\ checkpoint' = [checkpoint EXCEPT
                        ![p] = IF files[p] # {} THEN Bootstrapped(p) ELSE @]
    /\ work' = [work EXCEPT ![p] = [NoWork EXCEPT
                    !.remaining = Missing(p),
                    !.completed = Cardinality(files[p]),
                    !.folded = Bootstrapped(p)]]
    /\ IF Missing(p) # {}
       THEN runnable' = Append(runnable, p) /\ UNCHANGED thread
       ELSE thread' = [thread EXCEPT ![Main] =
                         [IdleThread EXCEPT !.at = "finish", !.panel = p]]
            /\ UNCHANGED runnable
    /\ future' = [future EXCEPT ![p] = "pending"]
    /\ UNCHANGED <<files, result, closing, restarts, faults, lost>>

(* A file that cannot be folded ends the search: the permit is returned and the
   pool closes, waiting for what was handed to it.                             *)
SubmitRaises(p) ==
    /\ thread[Main].at = "idle" /\ closing = "no"
    /\ future[p] = "none" /\ permits > 0 /\ files[p] # {}
    /\ Fault
    /\ closing' = "drain"
    /\ UNCHANGED <<durable, runnable, work, future, permits, thread, restarts, lost>>

(* The end of run_sustained_search: an immediate stop drops the queue, any other
   end lets the workers empty it.                                             *)
Close(how) ==
    /\ thread[Main].at = "idle" /\ closing = "no"
    /\ closing' = how
    /\ runnable' = IF how = "force" THEN <<>> ELSE runnable
    /\ UNCHANGED <<durable, work, future, permits, thread, restarts, faults, lost>>

----------------------------------------------------------------------------
(* A worker. *)

Leave(w) ==
    /\ thread[w].at = "idle"
    /\ closing = "force" \/ (closing = "drain" /\ runnable = <<>>)
    /\ thread' = [thread EXCEPT ![w].at = "gone"]
    /\ UNCHANGED <<durable, runnable, work, future, permits, closing, restarts, faults, lost>>

MayTake(w) ==
    /\ thread[w].at = "idle"
    /\ closing # "force" /\ runnable # <<>>

(* The panel at the head, out of the queue; a panel that has failed or has no
   case left is dropped.  Otherwise the worker takes one case of it, and the
   panel goes to the back of the queue while it has more.                     *)
Take(w) ==
    /\ MayTake(w)
    /\ LET p == Head(runnable)
           queue == Tail(runnable) IN
        \/ /\ work[p].failed \/ work[p].remaining = {}
           /\ runnable' = queue /\ UNCHANGED <<work, thread>>
        \/ /\ ~work[p].failed
           /\ \E c \in Cases :
                /\ IsNext(c, work[p].remaining)
                /\ work' = [work EXCEPT ![p].remaining = @ \ {c}, ![p].running = @ + 1]
                /\ runnable' = IF work[p].remaining # {c} THEN Append(queue, p) ELSE queue
                /\ thread' = [thread EXCEPT ![w] =
                       [at |-> "evaluate", panel |-> p, case |-> c, folded |-> FALSE]]
    /\ UNCHANGED <<durable, future, permits, closing, restarts, faults, lost>>

(* The evaluation and the write of its file. *)
Evaluate(w) ==
    /\ thread[w].at = "evaluate"
    /\ files' = [files EXCEPT ![thread[w].panel] = @ \cup {thread[w].case}]
    /\ Goto(w, "fold")
    /\ UNCHANGED <<checkpoint, result, runnable, work, future, permits, closing,
                   restarts, faults, lost>>

(* It raises: a worker process died, an artifact differs, or the pool is being
   torn down under it.                                                        *)
EvaluateRaises(w) ==
    /\ thread[w].at = "evaluate"
    /\ IF closing = "force" THEN NoFault ELSE Fault
    /\ Goto(w, "fail")
    /\ UNCHANGED <<durable, runnable, work, future, permits, closing, restarts, lost>>

CheckpointDue(p) == work[p].dirty + 1 >= Interval

(* Under the aggregation lock: the case joins the accumulator, and every
   Interval cases the checkpoint is written.                                  *)
Fold(w) ==
    /\ thread[w].at = "fold"
    /\ LET p == thread[w].panel
           folded == work[p].folded \cup {thread[w].case} IN
        /\ thread[w].case \notin work[p].folded
        /\ work' = [work EXCEPT ![p].folded = folded,
                                ![p].dirty = IF CheckpointDue(p) THEN 0 ELSE @ + 1]
        /\ checkpoint' = [checkpoint EXCEPT ![p] = IF CheckpointDue(p) THEN folded ELSE @]
    /\ thread' = [thread EXCEPT ![w].at = "count", ![w].folded = TRUE]
    /\ UNCHANGED <<files, result, runnable, future, permits, closing, restarts, faults, lost>>

(* The accumulator refuses the case: it was folded before, or its payload is
   malformed.                                                                 *)
FoldRefused(w) ==
    /\ thread[w].at = "fold"
    /\ IF thread[w].case \in work[thread[w].panel].folded THEN NoFault ELSE Fault
    /\ Goto(w, "fail")
    /\ UNCHANGED <<durable, runnable, work, future, permits, closing, restarts, lost>>

(* The case is folded, and the checkpoint cannot be written. *)
CheckpointRaises(w) ==
    /\ thread[w].at = "fold"
    /\ LET p == thread[w].panel IN
        /\ CheckpointDue(p) /\ thread[w].case \notin work[p].folded
        /\ work' = [work EXCEPT ![p].folded = @ \cup {thread[w].case},
                                ![p].dirty = @ + 1]
    /\ Fault
    /\ thread' = [thread EXCEPT ![w].at = "fail", ![w].folded = TRUE]
    /\ UNCHANGED <<durable, runnable, future, permits, closing, restarts, lost>>

(* The case is folded and checkpointed, and evaluator_finished raises. *)
FinishedRaises(w) ==
    /\ thread[w].at = "count" /\ thread[w].folded
    /\ ~work[thread[w].panel].failed
    /\ Fault
    /\ Goto(w, "fail")
    /\ UNCHANGED <<durable, runnable, work, future, permits, closing, restarts, lost>>

(* The first failure of a panel takes back the cases not handed out; the queue
   offers a panel once at most.                                               *)
FailPanel(p) ==
    \/ work[p].failed /\ UNCHANGED <<work, runnable>>
    \/ /\ ~work[p].failed
       /\ work' = [work EXCEPT ![p].failed = TRUE, ![p].remaining = {}]
       /\ \/ p \notin ToSet(runnable) /\ UNCHANGED runnable
          \/ \E i \in DOMAIN runnable : runnable[i] = p /\ runnable' = RemoveAt(runnable, i)

Fail(w) ==
    /\ thread[w].at = "fail"
    /\ FailPanel(thread[w].panel)
    /\ Goto(w, "count")
    /\ UNCHANGED <<durable, future, permits, closing, restarts, faults, lost>>

Counted(w) == work[thread[w].panel].completed + (IF thread[w].folded THEN 1 ELSE 0)

(* Mutants of Ends. *)
EndsBesideOthers(p) == work[p].failed \/ work[p].remaining = {}
EndsWhenUnfailed(p) ==
    work[p].running = 1 /\ work[p].remaining = {} /\ ~work[p].failed

Ends(p) == work[p].running = 1 /\ (work[p].failed \/ work[p].remaining = {})

(* The end of a case: whoever ends the last running case of a panel that has
   nothing left to hand out goes on to finish the panel.                      *)
Count(w) ==
    /\ thread[w].at = "count"
    /\ LET p == thread[w].panel IN
        /\ work' = [work EXCEPT ![p].completed = Counted(w), ![p].running = @ - 1]
        /\ thread' = [thread EXCEPT ![w] =
                        IF Ends(p) THEN [IdleThread EXCEPT !.at = "finish", !.panel = p]
                                   ELSE IdleThread]
    /\ UNCHANGED <<durable, runnable, future, permits, closing, restarts, faults, lost>>

----------------------------------------------------------------------------
(* _finish_work, by a worker or by the search thread. *)

Whole(p) == ~work[p].failed /\ work[p].completed = Cardinality(Cases)

(* The result file of a whole panel that has one. *)
Finalize(p) == IF Whole(p) /\ p \in Finalized THEN result \cup {p} ELSE result

(* The last checkpoint, and the result file. *)
FinishWork(t) ==
    /\ thread[t].at = "finish"
    /\ LET p == thread[t].panel IN
        /\ work' = [work EXCEPT ![p].failed = ~Whole(p),
                                ![p].dirty = 0]
        /\ checkpoint' = [checkpoint EXCEPT
                ![p] = IF Whole(p) \/ work[p].dirty > 0 THEN work[p].folded ELSE @]
        /\ result' = Finalize(p)
    /\ Goto(t, "resolve")
    /\ UNCHANGED <<files, runnable, future, permits, closing, restarts, faults, lost>>

(* The checkpoint refuses to be written, or what comes after it raises: the
   profile of the behaviours, or the caller's own finalisation.             *)
FinishRaises(t) ==
    /\ thread[t].at = "finish"
    /\ LET p == thread[t].panel IN
        /\ Whole(p) \/ work[p].dirty > 0
        /\ work' = [work EXCEPT ![p].failed = TRUE]
        /\ \/ UNCHANGED checkpoint
           \/ Whole(p)
              /\ checkpoint' = [checkpoint EXCEPT ![p] = work[p].folded]
    /\ Fault
    /\ Goto(t, "resolve")
    /\ UNCHANGED <<files, result, runnable, future, permits, closing, restarts, lost>>

Outcome(p) == IF work[p].failed THEN "failed" ELSE "complete"

(* Mutant of Resolve. *)
ResolveKeepsPermit(t) ==
    /\ thread[t].at = "resolve"
    /\ LET p == thread[t].panel IN future' = [future EXCEPT ![p] = Outcome(p)]
    /\ thread' = [thread EXCEPT ![t] = IdleThread]
    /\ UNCHANGED <<durable, runnable, work, permits, closing, restarts, faults, lost>>

Resolve(t) ==
    /\ thread[t].at = "resolve"
    /\ LET p == thread[t].panel IN future' = [future EXCEPT ![p] = Outcome(p)]
    /\ permits' = permits + 1
    /\ thread' = [thread EXCEPT ![t] = IdleThread]
    /\ UNCHANGED <<durable, runnable, work, closing, restarts, faults, lost>>

----------------------------------------------------------------------------
(* The runtime telemetry is written inside these steps and outside every handler:
   a write that fails ends the worker where it stands.                        *)
TelemetryRaises == lost < MaxTelemetryFaults /\ lost' = lost + 1

(* evaluator_cancelled, after the cases were taken back. *)
FailAndDie(w) ==
    /\ thread[w].at = "fail" /\ ~work[thread[w].panel].failed
    /\ TelemetryRaises
    /\ FailPanel(thread[w].panel)
    /\ Goto(w, "gone")
    /\ UNCHANGED <<durable, future, permits, closing, restarts, faults>>

(* evaluation_case_completed, before the running case is taken off. *)
CountAndDie(w) ==
    /\ thread[w].at = "count" /\ thread[w].folded
    /\ TelemetryRaises
    /\ work' = [work EXCEPT ![thread[w].panel].completed = Counted(w)]
    /\ Goto(w, "gone")
    /\ UNCHANGED <<durable, runnable, future, permits, closing, restarts, faults>>

(* evaluation_finished, before the future is set.  In the search thread the
   error returns the permit and ends the search.                              *)
FinishAndDie(t) ==
    /\ thread[t].at = "resolve"
    /\ TelemetryRaises
    /\ IF t = Main
       THEN /\ permits' = permits + 1 /\ closing' = "drain"
            /\ future' = [future EXCEPT ![thread[t].panel] = "none"]
            /\ thread' = [thread EXCEPT ![t] = IdleThread]
       ELSE /\ Goto(t, "gone")
            /\ UNCHANGED <<permits, closing, future>>
    /\ UNCHANGED <<durable, runnable, work, restarts, faults>>

----------------------------------------------------------------------------
(* The process dies or has ended, and the workspace is opened again. *)
Restart ==
    /\ restarts < MaxRestarts
    /\ restarts' = restarts + 1
    /\ runnable' = <<>> /\ work' = IdleWork /\ future' = NoFuture
    /\ permits' = Capacity /\ closing' = "no" /\ thread' = IdleThreads
    /\ UNCHANGED <<durable, faults, lost>>

Serve(t) == FinishWork(t) \/ FinishRaises(t) \/ Resolve(t) \/ FinishAndDie(t)

Worker(w) ==
    \/ Leave(w) \/ Take(w)
    \/ Evaluate(w) \/ EvaluateRaises(w)
    \/ Fold(w) \/ FoldRefused(w) \/ CheckpointRaises(w) \/ FinishedRaises(w)
    \/ Fail(w) \/ FailAndDie(w)
    \/ Count(w) \/ CountAndDie(w)
    \/ Serve(w)

Next ==
    \/ \E p \in Panels : Submit(p) \/ SubmitRaises(p)
    \/ \E how \in {"drain", "force"} : Close(how)
    \/ \E w \in Workers : Worker(w)
    \/ Serve(Main)
    \/ Restart

(* Threads run, and an evaluation ends: the evaluator bounds each case.  What
   the search asks for, when it closes the pool and when the process dies are
   its own affair.                                                            *)
Fairness ==
    /\ \A w \in Workers : WF_vars(Worker(w))
    /\ WF_vars(Serve(Main))

Spec == Init /\ [][Next]_vars /\ Fairness

----------------------------------------------------------------------------
(* Properties. *)

Places == {"idle", "evaluate", "fold", "fail", "count", "finish", "resolve", "gone"}

(* The state has its shape, the queue holds a panel once, and the permits not
   free are those of the submitted panels whose future is not set.            *)
TypeOK ==
    /\ files \in [Panels -> SUBSET Cases]
    /\ checkpoint \in [Panels -> SUBSET Cases]
    /\ result \subseteq Finalized
    /\ ToSet(runnable) \subseteq Panels /\ IsInjective(runnable)
    /\ \A p \in Panels :
        /\ work[p].remaining \subseteq Cases
        /\ work[p].running \in 0..Cardinality(Workers)
        /\ work[p].completed \in 0..Cardinality(Cases)
        /\ work[p].folded \subseteq Cases
    /\ future \in [Panels -> {"none", "pending", "complete", "failed"}]
    /\ permits = Capacity - Cardinality({p \in Panels : future[p] = "pending"})
    /\ closing \in {"no", "drain", "force"}
    /\ \A t \in Threads : thread[t].at \in Places

HoldsCaseOf(t, p) ==
    thread[t].panel = p /\ thread[t].at \in {"evaluate", "fold", "fail", "count"}

(* A future is set when nothing of its panel is left to run: no thread holds a
   case of it, none is about to finish it, and the queue does not offer it.  A
   candidate is committed as soon as its future is set, and a late case would
   change what was committed, or resolve the panel again.                     *)
QuietOnceResolved ==
    \A p \in Panels : future[p] \in {"complete", "failed"} =>
        /\ \A t \in Threads : ~HoldsCaseOf(t, p)
        /\ \A t \in Threads : thread[t].panel = p => thread[t].at = "gone"
        /\ p \notin ToSet(runnable)

(* What a resolved panel reports is on the disk: the count it carries is the
   number of cases folded into its profile, each with its evaluation file, and a
   complete panel has every case in its files and in its checkpoint, and its
   result file where it has one.  Counting and folding happen under different
   locks, and a restart folds what an earlier process left.                   *)
OutcomeIsDurable ==
    \A p \in Panels : future[p] \in {"complete", "failed"} =>
        /\ work[p].completed = Cardinality(work[p].folded)
        /\ work[p].folded \subseteq files[p]
        /\ future[p] = "complete" =>
            /\ Cases \subseteq files[p] /\ Cases \subseteq checkpoint[p]
            /\ p \in Finalized => p \in result

(* Every panel handed to the pool is resolved, unless the pool is torn down, the
   process ends or a write of the telemetry killed a worker.                  *)
EveryPanelResolves ==
    \A p \in Panels :
        future[p] = "pending" ~> (future[p] # "pending" \/ closing = "force" \/ lost > 0)

=============================================================================
