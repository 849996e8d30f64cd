------------------------- MODULE CandidateEvaluation -------------------------
(***************************************************************************)
(* The evaluations of one generation of an experiment (experiment/         *)
(* native.py, experiment/evaluation.py).  A candidate is submitted to a    *)
(* process pool as soon as its slot is accepted; a callback thread of the  *)
(* pool publishes what ends well; on_generation waits for every candidate, *)
(* reports a counterexample and otherwise selects.  A session may stop     *)
(* before that, be interrupted, or die, and its evaluation processes may   *)
(* outlive it.  Files and rows are what the next session finds.            *)
(*                                                                         *)
(* Abstractions: a candidate is its slot; an evaluation has one episode,   *)
(* which may meet one graph of score zero; candidates that are never       *)
(* accepted take no part.                                                  *)
(***************************************************************************)
EXTENDS Integers, Certification

CONSTANTS
    NumSlots,      \* slots of the generation
    MaxSessions,   \* bound of the model: sessions
    MaxDeaths,     \* bound of the model: sessions killed or interrupted
    Workers,       \* processes of the pool
    Replay,        \* config.evaluation.replay
    Auc            \* slot -> the mean_auc its evaluation finds

ASSUME EvaluationAssumption ==
    /\ {NumSlots, MaxSessions, Workers} \subseteq Nat \ {0} /\ Replay \in BOOLEAN /\ MaxDeaths \in Nat
    /\ Jobs = (1 .. MaxSessions) \X (1 .. NumSlots)
    /\ Auc \in [1 .. NumSlots -> Nat \ {0}]

Slots == 1 .. NumSlots
Outcomes == {"new", "running", "idle", "interrupted", "paused", "failed", "exhausted", "completed"}
TerminalOutcomes == {"exhausted", "completed"}
JobStates == {"none", "queued", "running", "passed", "written", "result", "cancelled"}
           \cup {"verified", "pause", "fail", "error"}
Ended == JobStates \ {"none", "queued", "running", "passed", "written"}

VARIABLES
    zero,       \* slot -> the graph of score zero its evaluation meets, if any
    accepted,   \* slots accepted in the generation checkpoint (durable)
    episodes, development, replay,   \* slots whose files exist (durable)
    rows,       \* slots with a completed row in evaluations (durable)
    selected,   \* the best the selection of the generation was given, -1: none (durable)
    outcome,    \* state of the experiment (durable)
    deaths,     \* sessions killed or interrupted so far
    session,    \* the session: number, control point, and what its thread holds
    streamed,   \* streamed_futures, and the futures on_generation has taken
    announced,  \* published_evaluations
    best,       \* best_candidate_id, 0: none
    job         \* job -> state of its evaluation

durable == <<accepted, episodes, development, replay, rows, selected, outcome, deaths>>
memory == <<session, streamed, announced, best>>
vars == <<zero, durable, memory, job, certificationVars>>

Points == {"off", "collect", "prepare", "await", "adopt", "close"}
Down(n) == [n |-> n, at |-> "off", seen |-> {}, slot |-> 1, stored |-> {}, stop |-> FALSE,
           wins |-> FALSE, back |-> "collect", ending |-> "idle"]

SessionType ==
    [n: 0 .. MaxSessions, at: Points, seen: SUBSET Slots, slot: 1 .. NumSlots + 1,
     stored: SUBSET Slots, stop: BOOLEAN, wins: BOOLEAN, back: Points, ending: Outcomes]

TypeOK ==
    /\ CertificationTypeOK
    /\ zero \in [Slots -> Graphs \cup {NoGraph}]
    /\ \A S \in {accepted, episodes, development, replay, rows, streamed, announced} : S \subseteq Slots
    /\ selected \in -1 .. NumSlots /\ best \in 0 .. NumSlots
    /\ deaths \in 0 .. MaxDeaths /\ outcome \in Outcomes
    /\ session \in SessionType
    /\ job \in [Jobs -> JobStates]

Init ==
    /\ CertificationInit
    /\ zero \in [Slots -> Graphs \cup {NoGraph}]
    /\ accepted = {} /\ episodes = {} /\ development = {} /\ replay = {} /\ rows = {}
    /\ selected = -1 /\ outcome = "new" /\ deaths = 0
    /\ session = Down(0) /\ streamed = {} /\ announced = {} /\ best = 0
    /\ job = [j \in Jobs |-> "none"]

-----------------------------------------------------------------------------
InAt(point) == session.at = point
This(s) == <<session.n, s>>
Files == <<accepted, episodes, development, replay, rows, selected, deaths>>

\* recover_completed_evaluation: both passes are on disk.
Recoverable(s) == s \in development /\ (Replay => s \in replay)

Beats(s, t) == t = 0 \/ Auc[s] > Auc[t]
\* Of equal ones the first to be completed: the rows are a set, so any of them.
IsBest(b, S) == IF S = {} THEN b = 0 ELSE b \in S /\ \A t \in S : Auc[t] <= Auc[b]

(* run_native starts: the best of the completed rows, nothing streamed.     *)
StartSession ==
    /\ InAt("off") /\ outcome \notin TerminalOutcomes /\ session.n < MaxSessions
    /\ session' = [Down(session.n + 1) EXCEPT !.at = "collect"]
    /\ outcome' = "running"
    /\ \E b \in 0 .. NumSlots : IsBest(b, rows) /\ best' = b
    /\ streamed' = {} /\ announced' = {}
    /\ UNCHANGED <<zero, Files, job, certificationVars>>

Submit(s) == job' = [job EXCEPT ![This(s)] = "queued"]

(* A row restored from the files, or found stored: it is compared with the  *)
(* best and assigned in two steps, without the lock that the callback       *)
(* thread takes.                                                            *)
Compare(s, current, back) ==
    session' = [current EXCEPT !.at = "adopt", !.slot = s, !.wins = Beats(s, best), !.back = back]

(* stream_candidate, called for a slot when it is accepted or recovered.    *)
Stream(s) ==
    LET seen == [session EXCEPT !.seen = @ \cup {s}]
    IN  /\ InAt("collect") /\ s \notin session.seen
        /\ accepted' = accepted \cup {s}
        /\ \/ /\ s \in rows \/ session.stop
              /\ session' = seen /\ UNCHANGED <<rows, job, streamed>>
           \/ /\ s \notin rows /\ ~session.stop /\ Recoverable(s)
              /\ rows' = rows \cup {s} /\ Compare(s, seen, "collect")
              /\ UNCHANGED <<job, streamed>>
           \/ /\ s \notin rows /\ ~session.stop /\ ~Recoverable(s)
              /\ session' = seen /\ Submit(s) /\ streamed' = streamed \cup {s}
              /\ UNCHANGED rows
        /\ UNCHANGED <<zero, episodes, development, replay, selected, outcome, deaths, announced,
                       best, certificationVars>>

Advance(current, next) == [current EXCEPT !.at = next, !.slot = @ + 1]

\* The assignment; publish_restored_evaluation also announces the candidate.
Adopt ==
    /\ InAt("adopt")
    /\ best' = IF session.wins THEN session.slot ELSE best
    /\ announced' = IF session.back = "await" THEN announced ELSE announced \cup {session.slot}
    /\ session' = LET after == [session EXCEPT !.wins = FALSE]
                  IN  CASE session.back = "collect" -> [after EXCEPT !.at = "collect", !.slot = 1]
                        [] session.back = "prepare" ->
                             Advance([after EXCEPT !.stored = @ \cup {session.slot}], "prepare")
                        [] OTHER -> Advance(after, "await")
    /\ UNCHANGED <<zero, durable, streamed, job, certificationVars>>

-----------------------------------------------------------------------------
(* The end of a session: shutdown(wait=True, cancel_futures=True).          *)
Mine(j) == j[1] = session.n
CancelQueued == job' = [j \in Jobs |-> IF Mine(j) /\ job[j] = "queued" THEN "cancelled" ELSE job[j]]
Ending(state) ==
    /\ session' = [session EXCEPT !.at = "close", !.ending = state]
    /\ CancelQueued
    /\ UNCHANGED <<zero, durable, streamed, announced, best, certificationVars>>

\* The coordinator leaves a generation that is not complete: a stop, the wall
\* clock or the hourly limit, the turn limit, a failing provider.
LeaveGeneration ==
    /\ InAt("collect")
    /\ \/ session.stop /\ Ending("interrupted")
       \/ Ending("idle")
       \/ /\ accepted \subseteq session.seen /\ accepted # Slots
          /\ Ending("exhausted") \/ Ending("paused")

Unpublished(j) == Mine(j) /\ job[j] = "result" /\ j[2] \notin announced
CloseSession ==
    /\ InAt("close")
    /\ \A j \in Jobs : Mine(j) => job[j] \in Ended \cup {"none"} /\ ~Unpublished(j)
    /\ outcome' = session.ending /\ session' = Down(session.n)
    /\ streamed' = {} /\ announced' = {} /\ best' = 0
    /\ job' = [j \in Jobs |-> IF Mine(j) THEN "none" ELSE job[j]]
    /\ UNCHANGED <<zero, Files, certificationVars>>

(* on_generation: every candidate is prepared in slot order ...             *)
EnterCallback ==
    /\ InAt("collect") /\ session.seen = Slots /\ ~session.stop
    /\ session' = [session EXCEPT !.at = "prepare", !.slot = 1]
    /\ UNCHANGED <<zero, durable, streamed, announced, best, job, certificationVars>>

Prepare ==
    LET s == session.slot
    IN  /\ InAt("prepare")
        /\ \/ s > NumSlots /\ session' = [session EXCEPT !.at = "await", !.slot = 1]
              /\ UNCHANGED <<rows, streamed, job>>
           \/ /\ s \in rows
              /\ session' = Advance([session EXCEPT !.stored = @ \cup {s}], "prepare")
              /\ UNCHANGED <<rows, streamed, job>>
           \/ /\ s \in Slots \ rows /\ Recoverable(s)
              /\ rows' = rows \cup {s} /\ Compare(s, session, "prepare")
              /\ UNCHANGED <<streamed, job>>
           \/ /\ s \in Slots \ rows /\ ~Recoverable(s)
              /\ streamed' = streamed \ {s}
              /\ IF s \in streamed THEN UNCHANGED job ELSE Submit(s)
              /\ session' = Advance(session, "prepare") /\ UNCHANGED rows
        /\ UNCHANGED <<zero, accepted, episodes, development, replay, selected, outcome, deaths,
                       announced, best, certificationVars>>

\* _NativeSessionBudgetExpired before a candidate is prepared.
ExpireInCallback == InAt("prepare") /\ session.slot \in Slots /\ Ending("idle")

(* publish_completed_evaluation, under evaluation_completion_lock: on the   *)
(* callback thread, or on the thread of the session.                        *)
PublishCompleted(s) ==
    IF s \in announced THEN UNCHANGED <<rows, announced, best>>
    ELSE /\ rows' = rows \cup {s} /\ announced' = announced \cup {s}
         /\ best' = IF Beats(s, best) THEN s ELSE best

Callback(j) ==
    /\ ~InAt("off") /\ Unpublished(j) /\ PublishCompleted(j[2])
    /\ UNCHANGED <<zero, accepted, episodes, development, replay, selected, outcome, deaths,
                   session, streamed, job, certificationVars>>

\* Mutant: the kind of the outcome is the state of the experiment.
EndingByKind(result) == IF result = "verified" THEN "completed" ELSE result

(* ... and then awaited in slot order; a counterexample or an error of one  *)
(* ends the session with what that one says.                                *)
EndingOf(result) ==
    CASE result = "verified" -> "completed"
      [] result = "pause" -> "paused"
      [] OTHER -> "failed"

Await ==
    LET s == session.slot
    IN  /\ InAt("await") /\ s \in Slots
        /\ \/ /\ s \in session.stored /\ Compare(s, session, "await")
              /\ UNCHANGED <<zero, durable, streamed, announced, best, job, certificationVars>>
           \/ /\ s \notin session.stored /\ job[This(s)] = "result"
              /\ PublishCompleted(s) /\ session' = Advance(session, "await")
              /\ UNCHANGED <<zero, accepted, episodes, development, replay, selected, outcome, deaths,
                             streamed, job, certificationVars>>
           \/ /\ s \notin session.stored /\ job[This(s)] \in Ended \ {"result"}
              /\ Ending(EndingOf(job[This(s)]))

\* The last generation is selected, and the range of generations is consumed.
Select ==
    /\ InAt("await") /\ session.slot = NumSlots + 1
    /\ \/ session.stop /\ Ending("interrupted")
       \/ /\ ~session.stop
          /\ selected' = best
          /\ session' = [session EXCEPT !.at = "close", !.ending = "exhausted"] /\ CancelQueued
          /\ UNCHANGED <<zero, accepted, episodes, development, replay, rows, outcome, deaths,
                         streamed, announced, best, certificationVars>>

-----------------------------------------------------------------------------
(* An evaluation process: evaluate_candidate. *)
Pool(j) == {k \in Jobs : k[1] = j[1] /\ job[k] \in {"running", "passed", "written"}}
\* What the process of a dead session returns goes nowhere.
Becomes(j, state) == job' = [job EXCEPT ![j] = IF Mine(j) \/ state \notin Ended THEN state ELSE "none"]
NotPool == <<zero, accepted, rows, selected, outcome, deaths, memory>>

\* A complete development pass is taken from its file, an episode from its
\* checkpoint; otherwise the episode runs, and may meet a graph of score zero.
Start(j) ==
    LET s == j[2]
    IN  /\ job[j] = "queued" /\ Cardinality(Pool(j)) < Workers
        /\ Becomes(j, IF s \in development THEN "written" ELSE "running")
        /\ IF s \in development \cup episodes \/ zero[s] = NoGraph
           THEN UNCHANGED certificationVars ELSE Meet(j, zero[s])
        /\ UNCHANGED <<NotPool, episodes, development, replay>>

Inspect(j) ==
    /\ job[j] = "running" /\ Decide(j)
    /\ UNCHANGED <<NotPool, episodes, development, replay, job>>

\* Mutant: the episode is checkpointed whatever its inspection says.
EpisodeCheckpointed(j) ==
    /\ job[j] = "running" /\ says[j].at # "open"
    /\ episodes' = episodes \cup {j[2]}
    /\ Becomes(j, IF says[j].at \in {"off", "continue"} THEN "passed" ELSE says[j].at)
    /\ says' = [says EXCEPT ![j] = Off]
    /\ UNCHANGED <<NotPool, development, replay, verdict, certified>>

\* The episode is over and checkpointed, or its inspection raised out of it.
Episode(j) ==
    /\ job[j] = "running" /\ says[j].at # "open"
    /\ IF says[j].at \in {"off", "continue"}
       THEN episodes' = episodes \cup {j[2]} /\ Becomes(j, "passed")
       ELSE Becomes(j, says[j].at) /\ UNCHANGED episodes
    /\ says' = [says EXCEPT ![j] = Off]
    /\ UNCHANGED <<NotPool, development, replay, verdict, certified>>

Write(j) ==
    /\ job[j] = "passed" /\ Becomes(j, "written")
    /\ development' = development \cup {j[2]}
    /\ UNCHANGED <<NotPool, episodes, replay, certificationVars>>

\* The replay runs without a pipeline; both results are returned.
Finish(j) ==
    /\ job[j] = "written" /\ Becomes(j, "result")
    /\ replay' = IF Replay THEN replay \cup {j[2]} ELSE replay
    /\ UNCHANGED <<NotPool, episodes, development, certificationVars>>

Evaluate(j) == Start(j) \/ Inspect(j) \/ Episode(j) \/ Write(j) \/ Finish(j)

-----------------------------------------------------------------------------
(* Faults.  A process that is killed leaves what it was writing half done.  *)
Live == {j \in Jobs : Mine(j) /\ job[j] \notin Ended \cup {"none"}}
Kill(S) ==
    /\ job' = [j \in Jobs |-> IF j \in S \/ job[j] \in Ended THEN "none" ELSE job[j]]
    /\ says' = [j \in Jobs |-> IF j \in S THEN Off ELSE says[j]]

RequestStop ==
    /\ ~InAt("off") /\ ~InAt("close") /\ ~session.stop
    /\ session' = [session EXCEPT !.stop = TRUE]
    /\ UNCHANGED <<zero, durable, streamed, announced, best, job, certificationVars>>

Gone ==
    /\ deaths < MaxDeaths /\ deaths' = deaths + 1
    /\ outcome' = "interrupted" /\ session' = Down(session.n)
    /\ streamed' = {} /\ announced' = {} /\ best' = 0
    /\ UNCHANGED <<zero, accepted, episodes, development, replay, rows, selected, verdict, certified>>

\* Ctrl-C: _abort_evaluation_pool terminates the processes of the pool.
Interrupt == ~InAt("off") /\ ~InAt("close") /\ Kill(Live) /\ Gone

\* The session dies; each of its evaluation processes dies too or runs on.
Crash == ~InAt("off") /\ (\E S \in SUBSET Live : Kill(S)) /\ Gone

Session == StartSession \/ (\E s \in Slots : Stream(s)) \/ Adopt \/ LeaveGeneration \/ EnterCallback
           \/ Prepare \/ ExpireInCallback \/ Await \/ Select \/ CloseSession

Rest ==
    /\ InAt("off") /\ (outcome \in TerminalOutcomes \/ session.n = MaxSessions)
    /\ \A j \in Jobs : job[j] \in Ended \cup {"none"}
    /\ UNCHANGED vars

Next ==
    \/ Session \/ RequestStop \/ Interrupt \/ Crash \/ Rest
    \/ \E j \in Jobs : Evaluate(j) \/ Callback(j)

Spec == Init /\ [][Next]_vars

-----------------------------------------------------------------------------
(* A generation is selected only when every candidate has its row, and the  *)
(* evaluation of none met a graph that the primary verifier does not        *)
(* reject: a counterexample, an inconclusive or a conflicting one is not    *)
(* passed over, although its process only says so to a future that other    *)
(* endings never look at, and rows come from callbacks, files and processes *)
(* of dead sessions (native.py 2368-2390, 2480-2500).                       *)
NoCounterexamplePassed ==
    selected # -1 =>
        /\ rows = Slots
        /\ \A s \in Slots : zero[s] # NoGraph => verdict[zero[s]]["primary"] = "REJECTED"

(* What the state "completed" claims: a certificate is published.           *)
CompletedIsCertified == outcome = "completed" => certified # {}

(* How a session ends tells the truth about the counterexamples it met.     *)
EndingsAreTrue == NoCounterexamplePassed /\ CompletedIsCertified

(* Not an invariant, and documented to be one: the terminal state of a      *)
(* certificate is counterexample_verified (EXPERIMENT_WORKFLOW.md:69-71).   *)
(* A turn limit reached while a certified slot is not yet awaited ends the  *)
(* experiment as exhausted.                                                 *)
CertifiedIsReported == outcome = "exhausted" => certified = {}

(* Not an invariant: the selection is given the best of the rows.  A row    *)
(* restored by the thread of the session is compared with the best, and     *)
(* assigned, without the lock under which a callback does the same.         *)
SelectionSeesBest == selected # -1 => IsBest(selected, rows)

=============================================================================
