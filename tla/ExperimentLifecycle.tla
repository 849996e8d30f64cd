------------------------- MODULE ExperimentLifecycle -------------------------
(***************************************************************************)
(* The durable life of one native experiment workspace                     *)
(* (src/mutation_forge/experiment/): several operating system processes    *)
(* run `mforge experiment run` (Runners) or `mforge experiment stop        *)
(* --final` (Stoppers) against one directory.  They share the SQLite       *)
(* tables experiment, sessions, ownership and checkpoints, the checkpoint  *)
(* files and the session directories.  Every process may die between two   *)
(* durable writes, and every owned step may raise an exception.            *)
(*                                                                         *)
(* One element of Runners or Stoppers is one process, started once: a      *)
(* retry by the operator, or the next round of --until-complete, is        *)
(* another element.  The steps of a process follow its durable reads and   *)
(* writes; files are never half written (json_io.py, os.replace).          *)
(***************************************************************************)
EXTENDS Naturals, Sequences

CONSTANTS
    Runners,    \* processes that execute ExperimentService.run
    Stoppers,   \* processes that execute final_stop_experiment
    NoProcess,  \* the writer of no checkpoint and the owner of nothing
    Outcomes,   \* experiment states an adapter may return
    Overlap,    \* may a process start while another one is alive?
    CrashAt,    \* control points at which a process may die
    RaiseAt     \* control points at which a statement may raise

ASSUME ProcessAssumption ==
    /\ Runners \cap Stoppers = {}
    /\ NoProcess \notin Runners \cup Stoppers

\* What the native adapter makes of a search; it never returns "running".
AdapterStates == {"idle", "paused", "interrupted", "failed", "exhausted", "completed"}
ValidStates == AdapterStates \cup {"running"}
TerminalStates == {"exhausted", "completed"}

ASSUME OutcomeAssumption == Outcomes \subseteq AdapterStates
ASSUME OverlapAssumption == Overlap \in BOOLEAN

Processes == Runners \cup Stoppers
ErrorKinds == {"interrupted", "failed"}
CompletedReasons == {"counterexample_verified", "operator_final_stop"}
StopReasons == CompletedReasons \cup ErrorKinds \cup {"none", "boundary"}
SessionStatus == ValidStates
Results == {"none", "terminal", "busy", "disagree", "collide"}

(***************************************************************************)
(* Control points.  Each names the next durable step of the process.       *)
(***************************************************************************)
BeforeOwning == {"create", "verify", "survey", "number", "acquire"}
InTry == {"mkdir", "row", "files", "first", "firstReplace", "firstRecord",
          "adapter", "save", "replace", "set", "record", "finish", "close"}
InExcept == {"except", "exceptSet"}
Owned == InTry \cup InExcept \cup {"release"}
Stopping == {"check", "stopList", "stopReplace", "stopSet", "stopRecord"}
Live == BeforeOwning \cup Owned \cup Stopping
ControlPoints == {"off", "done", "dead"} \cup Live

VARIABLES
    root,       \* has <workspace>/<exp_id> been renamed into place?
    experiment, \* the single row of table experiment
    sessions,   \* table sessions, a row per session number
    owner,      \* table ownership: its row, or NoOwner
    rows,       \* table checkpoints: sequence and digest (its writer)
    dirs,       \* numbers of the session-NNNNNN directories
    chain,      \* checkpoint files, in sequence
    pc,         \* control point of each process
    local       \* local variables of each process

vars == <<root, experiment, sessions, owner, rows, dirs, chain, pc, local>>

NoOwner == [pid |-> NoProcess, session |-> 0]
Alive(p) == p \in Processes /\ pc[p] \in Live

Local == [
    number: Nat,       \* session number read before ownership: the owner's session id
    session: Nat,      \* the SessionContext of the run, 0 while there is none
    sequence: Nat,     \* checkpoint about to be written
    previous: Processes \cup {NoProcess},
    outcome: ValidStates,
    reason: StopReasons,
    error: ErrorKinds,
    result: Results]

Checkpoint == [by: Processes, state: ValidStates, previous: Processes \cup {NoProcess}]

TypeOK ==
    /\ root \in BOOLEAN
    /\ experiment \in [state: ValidStates, reason: StopReasons, session: Nat, checkpoint: Nat]
    /\ sessions \in Seq([status: SessionStatus, finishes: Nat])
    /\ owner \in [pid: Processes \cup {NoProcess}, session: Nat]
    /\ rows \subseteq [sequence: Nat, by: Processes]
    /\ dirs \subseteq Nat
    /\ chain \in Seq(Checkpoint)
    /\ pc \in [Processes -> ControlPoints]
    /\ local \in [Processes -> Local]

-----------------------------------------------------------------------------
(* Helpers over the durable state. *)

NextSessionNumber == Len(sessions) + 1

LastWriter == IF chain = <<>> THEN NoProcess ELSE chain[Len(chain)].by

\* CheckpointStore._verify: every file names the digest of its predecessor.
ChainIntact ==
    \A i \in DOMAIN chain :
        chain[i].previous = IF i = 1 THEN NoProcess ELSE chain[i - 1].by

\* ExperimentStateStore.checkpoint: the row with the greatest sequence.
IsLatestRow(r) == r \in rows /\ \A s \in rows : s.sequence <= r.sequence

\* ExperimentService._verify_state_checkpoint.
IndexesAgree ==
    \/ chain = <<>> /\ rows = {}
    \/ /\ chain # <<>>
       /\ \E r \in rows : IsLatestRow(r) /\ r.sequence = Len(chain) /\ r.by = LastWriter

Goto(p, there) == pc' = [pc EXCEPT ![p] = there]

GotoWith(p, there, fields) ==
    /\ Goto(p, there)
    /\ local' = [local EXCEPT ![p] = fields]

\* What a process that has ended leaves behind: its result alone.
Blank == [number |-> 0, session |-> 0, sequence |-> 0, previous |-> NoProcess,
          outcome |-> "idle", reason |-> "none", error |-> "failed", result |-> "none"]

End(p, result) == GotoWith(p, "done", [Blank EXCEPT !.result = result])

Database == <<experiment, sessions, owner, rows>>
Files == <<root, dirs, chain>>

(***************************************************************************)
(* Checkpoints: CheckpointStore.save is a reading of the chain, then an    *)
(* exists() test and an os.replace; record_checkpoint indexes it later.    *)
(***************************************************************************)

\* The last reading of the directory before the file is replaced.
Prepare(p, there) ==
    /\ ChainIntact
    /\ GotoWith(p, there, [local[p] EXCEPT !.sequence = Len(chain) + 1,
                                           !.previous = LastWriter])
    /\ UNCHANGED <<Database, Files>>

\* os.replace overwrites: nothing locks the directory since the test.
Replace(p, state, there) ==
    /\ chain' = [i \in 1 .. (IF local[p].sequence > Len(chain)
                             THEN local[p].sequence ELSE Len(chain)) |->
                    IF i = local[p].sequence
                    THEN [by |-> p, state |-> state, previous |-> local[p].previous]
                    ELSE chain[i]]
    /\ Goto(p, there)
    /\ UNCHANGED <<Database, root, dirs, local>>

\* INSERT OR REPLACE, and the experiment row points at the checkpoint.
RecordCheckpoint(p, there) ==
    /\ rows' = {r \in rows : r.sequence # local[p].sequence}
                 \cup {[sequence |-> local[p].sequence, by |-> p]}
    /\ experiment' = [experiment EXCEPT !.checkpoint = local[p].sequence]
    /\ GotoWith(p, there, IF there = "done" THEN Blank ELSE local[p])
    /\ UNCHANGED <<sessions, owner, Files>>

\* set_state refuses COMPLETED without one of the two accepted reasons.
SetState(p, state, reason, checkpoint, there) ==
    /\ state = "completed" => reason \in CompletedReasons
    /\ experiment' = [experiment EXCEPT !.state = state, !.reason = reason,
                                        !.checkpoint = checkpoint]
    /\ Goto(p, there)
    /\ UNCHANGED <<sessions, owner, rows, Files, local>>

\* finish_session: the row, and the experiment row if it is still current.
FinishSession(number, state, reason) ==
    /\ sessions' = [sessions EXCEPT ![number] = [status |-> state, finishes |-> @.finishes + 1]]
    /\ \/ /\ experiment.session = number
          /\ experiment' = [experiment EXCEPT !.state = state, !.reason = reason]
       \/ experiment.session # number /\ UNCHANGED experiment

\* What acquire_owner does to the session row of a dead owner.
CloseDeadSession ==
    sessions' = [n \in DOMAIN sessions |->
                    IF owner # NoOwner /\ n = owner.session /\ sessions[n].status = "running"
                    THEN [sessions[n] EXCEPT !.status = "interrupted"]
                    ELSE sessions[n]]

-----------------------------------------------------------------------------
(* Mutants: plausible mistakes in the actions below, one for each property.  *)

\* The lock is taken without looking whether its owner lives.
AcquireUnchecked(p) ==
    /\ pc[p] = "acquire"
    /\ CloseDeadSession
    /\ owner' = [pid |-> p, session |-> local[p].number]
    /\ Goto(p, "mkdir")
    /\ UNCHANGED <<experiment, rows, Files, local>>

\* Only "exhausted" ends an experiment.
SurveyOnlyExhausted(p) ==
    /\ pc[p] = "survey"
    /\ IF experiment.state = "exhausted"
       THEN End(p, "terminal")
       ELSE Goto(p, "number") /\ UNCHANGED local
    /\ UNCHANGED <<Database, Files>>

\* create_session leaves the experiment row as the last session ended it.
CreateSessionOnly(p) ==
    /\ pc[p] = "row"
    /\ sessions' = Append(sessions, [status |-> "running", finishes |-> 0])
    /\ experiment' = [experiment EXCEPT !.session = NextSessionNumber]
    /\ Goto(p, "files")
    /\ UNCHANGED <<owner, rows, Files, local>>

\* The first checkpoint is indexed before its file is in place.
FirstCheckpointIndexed(p) ==
    /\ pc[p] = "first"
    /\ chain = <<>>
    /\ Prepare(p, "firstRecord")

\* The stop reason of a session that is not complete is its state.
AdapterReturnsState(p) ==
    /\ pc[p] = "adapter"
    /\ \E state \in Outcomes :
          GotoWith(p, "save", [local[p] EXCEPT !.outcome = state, !.reason = state])
    /\ UNCHANGED <<Database, Files>>

\* The final checkpoint is never indexed.
SetOutcomeUnindexed(p) ==
    /\ pc[p] = "set"
    /\ SetState(p, local[p].outcome, local[p].reason, local[p].sequence, "finish")

\* The lock is released under the number of the session context.
ReleaseBySession(p) ==
    /\ pc[p] = "release"
    /\ owner' = IF owner.session = local[p].session THEN NoOwner ELSE owner
    /\ End(p, local[p].result)
    /\ UNCHANGED <<experiment, sessions, rows, Files>>

\* The handler gives the lock back before it writes the failure.
ExceptFinishReleasing(p) ==
    /\ pc[p] = "except"
    /\ UNCHANGED <<sessions, experiment>>
    /\ owner' = NoOwner
    /\ Goto(p, "exceptSet")
    /\ UNCHANGED <<rows, Files, local>>

-----------------------------------------------------------------------------
(* Starting a process.  Without Overlap the operator waits for the last    *)
(* process to end before starting another.                                 *)

Start(p, there) ==
    /\ pc[p] = "off"
    /\ Overlap \/ \A q \in Processes : ~Alive(q)
    /\ Goto(p, there)
    /\ UNCHANGED <<Database, Files, local>>

StartRun(p) == p \in Runners /\ Start(p, IF root THEN "verify" ELSE "create")

\* final_stop_experiment requires an existing root (verify_root).
StartStop(p) == p \in Stoppers /\ root /\ Start(p, "check")

(***************************************************************************)
(* ExperimentService.run up to the ownership transaction.                  *)
(***************************************************************************)

\* layout.initialize_atomic: the private tree becomes visible by one rename,
\* which fails when another process has created the root meanwhile.
Create(p) ==
    /\ pc[p] = "create"
    /\ IF root
       THEN End(p, "busy") /\ UNCHANGED root
       ELSE root' = TRUE /\ Goto(p, "verify") /\ UNCHANGED local
    /\ UNCHANGED <<Database, dirs, chain>>

\* Every checkpoint file is read and hashed, then the newest row is compared.
Verify(p) ==
    /\ pc[p] = "verify"
    /\ IF ChainIntact /\ IndexesAgree
       THEN Goto(p, "survey") /\ UNCHANGED local
       ELSE End(p, "disagree")
    /\ UNCHANGED <<Database, Files>>

\* The state is read before ownership is taken, and so is the session number.
Survey(p) ==
    /\ pc[p] = "survey"
    /\ IF experiment.state \in TerminalStates
       THEN End(p, "terminal")
       ELSE Goto(p, "number") /\ UNCHANGED local
    /\ UNCHANGED <<Database, Files>>

ReadNumber(p) ==
    /\ pc[p] = "number"
    /\ GotoWith(p, "acquire", [local[p] EXCEPT !.number = NextSessionNumber])
    /\ UNCHANGED <<Database, Files>>

\* acquire_owner, one BEGIN IMMEDIATE transaction: refuse a live owner, close
\* the session of a dead one, take its place.
AcquireOwner(p) ==
    /\ pc[p] = "acquire"
    /\ ~Alive(owner.pid)
    /\ CloseDeadSession
    /\ owner' = [pid |-> p, session |-> local[p].number]
    /\ Goto(p, "mkdir")
    /\ UNCHANGED <<experiment, rows, Files, local>>

RefuseOwner(p) ==
    /\ pc[p] = "acquire"
    /\ Alive(owner.pid)
    /\ End(p, "busy")
    /\ UNCHANGED <<Database, Files>>

(***************************************************************************)
(* SessionManager.start.                                                   *)
(***************************************************************************)

\* directory.mkdir(exist_ok=False): an existing directory raises.
MakeSessionDir(p) ==
    /\ pc[p] = "mkdir"
    /\ IF NextSessionNumber \in dirs
       THEN /\ GotoWith(p, "except", [local[p] EXCEPT !.error = "failed", !.result = "collide"])
            /\ UNCHANGED dirs
       ELSE /\ dirs' = dirs \cup {NextSessionNumber}
            /\ Goto(p, "row")
            /\ UNCHANGED local
    /\ UNCHANGED <<Database, root, chain>>

CreateSession(p) ==
    /\ pc[p] = "row"
    /\ sessions' = Append(sessions, [status |-> "running", finishes |-> 0])
    /\ experiment' = [experiment EXCEPT !.state = "running", !.reason = "none",
                                        !.session = NextSessionNumber]
    /\ Goto(p, "files")
    /\ UNCHANGED <<owner, rows, Files, local>>

\* The evidence files are written and the SessionContext is returned: only
\* from here on can the exception handler finish the session.
StartReturns(p) ==
    /\ pc[p] = "files"
    /\ GotoWith(p, "first", [local[p] EXCEPT !.session = experiment.session])
    /\ UNCHANGED <<Database, Files>>

-----------------------------------------------------------------------------
(* The owned part of ExperimentService.run. *)

FirstCheckpoint(p) ==
    /\ pc[p] = "first"
    /\ chain = <<>>
    /\ Prepare(p, "firstReplace")

SkipFirstCheckpoint(p) ==
    /\ pc[p] = "first"
    /\ chain # <<>>
    /\ ChainIntact
    /\ Goto(p, "adapter")
    /\ UNCHANGED <<Database, Files, local>>

FirstReplace(p) == pc[p] = "firstReplace" /\ Replace(p, "running", "firstRecord")
FirstRecord(p) == pc[p] = "firstRecord" /\ RecordCheckpoint(p, "adapter")

\* The adapter returns and _normalize_outcome accepts: COMPLETED carries the
\* reason counterexample_verified, every other state a boundary reason.
AdapterReturns(p) ==
    /\ pc[p] = "adapter"
    /\ \E state \in Outcomes :
          GotoWith(p, "save",
                   [local[p] EXCEPT !.outcome = state,
                                    !.reason = IF state = "completed"
                                               THEN "counterexample_verified"
                                               ELSE "boundary"])
    /\ UNCHANGED <<Database, Files>>

SaveFinal(p) == pc[p] = "save" /\ Prepare(p, "replace")
ReplaceFinal(p) == pc[p] = "replace" /\ Replace(p, local[p].outcome, "set")

SetOutcome(p) ==
    /\ pc[p] = "set"
    /\ SetState(p, local[p].outcome, local[p].reason, local[p].sequence, "record")

RecordFinal(p) == pc[p] = "record" /\ RecordCheckpoint(p, "finish")

Finish(p) ==
    /\ pc[p] = "finish"
    /\ FinishSession(local[p].session, local[p].outcome, local[p].reason)
    /\ Goto(p, "close")
    /\ UNCHANGED <<owner, rows, Files, local>>

\* The last events, the manifest and hub.close leave this state alone.
Close(p) ==
    /\ pc[p] = "close"
    /\ Goto(p, "release")
    /\ UNCHANGED <<Database, Files, local>>

ReleaseOwner(p) ==
    /\ pc[p] = "release"
    /\ owner' = IF owner.session = local[p].number THEN NoOwner ELSE owner
    /\ End(p, local[p].result)
    /\ UNCHANGED <<experiment, sessions, rows, Files>>

(***************************************************************************)
(* The exception handler of the owned part.                                *)
(***************************************************************************)

Raise(p) ==
    /\ pc[p] \in InTry \cap RaiseAt
    /\ \E kind \in ErrorKinds :
          GotoWith(p, "except", [local[p] EXCEPT !.error = kind])
    /\ UNCHANGED <<Database, Files>>

\* Reading a broken chain raises CheckpointIntegrityError.
ReadBrokenChain(p) ==
    /\ pc[p] \in {"first", "save"}
    /\ ~ChainIntact
    /\ GotoWith(p, "except", [local[p] EXCEPT !.error = "failed"])
    /\ UNCHANGED <<Database, Files>>

\* manager.finish under suppress(Exception), when there is a session at all.
ExceptFinish(p) ==
    /\ pc[p] = "except"
    /\ \/ /\ local[p].session # 0
          /\ FinishSession(local[p].session, local[p].error, local[p].error)
       \/ /\ local[p].session = 0 \/ "except" \in RaiseAt
          /\ UNCHANGED <<sessions, experiment>>
    /\ Goto(p, "exceptSet")
    /\ UNCHANGED <<owner, rows, Files, local>>

ExceptSetState(p) ==
    /\ pc[p] = "exceptSet"
    /\ SetState(p, local[p].error,
                IF local[p].session = 0 THEN "none" ELSE local[p].error,
                experiment.checkpoint, "release")

\* A second Ctrl-C is not suppressed: only the finally clause still runs.
SecondInterrupt(p) ==
    /\ pc[p] \in InExcept \cap RaiseAt
    /\ Goto(p, "release")
    /\ UNCHANGED <<Database, Files, local>>

(***************************************************************************)
(* final_stop_experiment: it tests the owner but never becomes one.        *)
(***************************************************************************)

StopCheck(p) ==
    /\ pc[p] = "check"
    /\ IF Alive(owner.pid)
       THEN End(p, "busy")
       ELSE IF experiment.state \in TerminalStates \cup {"failed"}
            THEN End(p, "terminal")
            ELSE Goto(p, "stopList") /\ UNCHANGED local
    /\ UNCHANGED <<Database, Files>>

StopList(p) ==
    /\ pc[p] = "stopList"
    /\ \/ Prepare(p, "stopReplace")
       \/ /\ ~ChainIntact
          /\ End(p, "disagree")
          /\ UNCHANGED <<Database, Files>>

StopReplace(p) == pc[p] = "stopReplace" /\ Replace(p, "completed", "stopSet")

StopSetState(p) ==
    /\ pc[p] = "stopSet"
    /\ SetState(p, "completed", "operator_final_stop", local[p].sequence, "stopRecord")

StopRecord(p) == pc[p] = "stopRecord" /\ RecordCheckpoint(p, "done")

-----------------------------------------------------------------------------
(* A process dies (SIGKILL, power loss): only its control is lost. *)
Crash(p) ==
    /\ pc[p] \in Live \cap CrashAt
    /\ GotoWith(p, "dead", [Blank EXCEPT !.result = local[p].result])
    /\ UNCHANGED <<Database, Files>>

Init ==
    /\ root = FALSE
    /\ experiment = [state |-> "idle", reason |-> "none", session |-> 0, checkpoint |-> 0]
    /\ sessions = <<>>
    /\ owner = NoOwner
    /\ rows = {}
    /\ dirs = {}
    /\ chain = <<>>
    /\ pc = [p \in Processes |-> "off"]
    /\ local = [p \in Processes |-> Blank]

RunStep(p) ==
    \/ Create(p) \/ Verify(p) \/ Survey(p) \/ ReadNumber(p) \/ AcquireOwner(p) \/ RefuseOwner(p)
    \/ MakeSessionDir(p) \/ CreateSession(p) \/ StartReturns(p)
    \/ FirstCheckpoint(p) \/ SkipFirstCheckpoint(p) \/ FirstReplace(p) \/ FirstRecord(p)
    \/ AdapterReturns(p) \/ SaveFinal(p) \/ ReplaceFinal(p) \/ SetOutcome(p)
    \/ RecordFinal(p) \/ Finish(p) \/ Close(p) \/ ReleaseOwner(p)
    \/ ReadBrokenChain(p) \/ ExceptFinish(p) \/ ExceptSetState(p)

StopStep(p) ==
    StopCheck(p) \/ StopList(p) \/ StopReplace(p) \/ StopSetState(p) \/ StopRecord(p)

\* Every process has ended: the workspace rests until the operator returns.
Rest ==
    /\ \A p \in Runners : pc[p] \in {"done", "dead"}
    /\ \A p \in Stoppers : pc[p] \in {"off", "done", "dead"}
    /\ UNCHANGED vars

Next ==
    \/ \E p \in Processes :
          \/ StartRun(p) \/ StartStop(p)
          \/ RunStep(p) \/ StopStep(p)
          \/ Raise(p) \/ SecondInterrupt(p)
          \/ Crash(p)
    \/ Rest

Spec == Init /\ [][Next]_vars

\* Code that has been started keeps executing; crashes and Ctrl-C are not owed.
Fairness ==
    \A p \in Processes : WF_vars(RunStep(p)) /\ WF_vars(StopStep(p))

FairSpec == Spec /\ Fairness

-----------------------------------------------------------------------------
(* Properties. *)

\* A run between its ownership transaction and release_owner is the owner the
\* database names, under the session number it read: so two runs never work
\* on a workspace at once, however they overlap, raise or die
\* (state.py acquire_owner, service.py:216-469).
SingleOwner ==
    \A p \in Processes :
        pc[p] \in Owned => owner = [pid |-> p, session |-> local[p].number]

\* The database never names a checkpoint that is not on disk: files are
\* written before they are indexed, and the experiment row points into the
\* chain (service.py:322-347).
IndexFollowsFiles ==
    /\ \A r \in rows : r.sequence \in DOMAIN chain
    /\ experiment.checkpoint \in 0 .. Len(chain)

\* Every session of the table has its evidence directory (sessions.py start:
\* the directory is made first).
SessionsHaveDirs == DOMAIN sessions \subseteq dirs

\* While a run is in its adapter the experiment reads "running" and its
\* current session is that run's: nobody resets the row under a live search.
AdapterRunsAsRunning ==
    \A p \in Runners :
        pc[p] = "adapter" =>
            /\ experiment.state = "running"
            /\ experiment.session = local[p].session
            /\ sessions[local[p].session].status = "running"

\* ExclusiveWorkspace: the table of contents changes only in the hands of one
\* holder at a time; a dead owner holds nothing.
Holder == IF Alive(owner.pid) THEN owner.pid ELSE NoProcess

Exclusive == INSTANCE ExclusiveWorkspace
    WITH Clients <- Processes, Nobody <- NoProcess,
         holder <- Holder, contents <- <<experiment, sessions, rows, dirs, chain>>

\* Runs implement the exclusive workspace (stated where no final stop runs:
\* final_stop_experiment writes without ownership).
ImplementsExclusive == Exclusive!Spec

\* Whenever no process is alive, the next run is accepted: the chain verifies,
\* its index agrees, the next session directory is free (service.py:184-186,
\* sessions.py:138), and an open session row belongs to the owner on record, so
\* the takeover of a dead owner closes it (state.py acquire_owner:480-494).
RestIsResumable ==
    (\A p \in Processes : ~Alive(p)) =>
        /\ ChainIntact
        /\ IndexesAgree
        /\ NextSessionNumber \notin dirs
        /\ \A n \in DOMAIN sessions : sessions[n].status = "running" => owner.session = n

\* A completed or exhausted experiment keeps its state and its reason whatever
\* runs, stops, crashes and retries follow.
TerminalIsFinal ==
    [][experiment.state \in TerminalStates =>
          /\ experiment'.state = experiment.state
          /\ experiment'.reason = experiment.reason]_experiment

\* Every started run and stop ends, and gives ownership back unless it died.
EveryProcessEnds ==
    \A p \in Processes :
        pc[p] \in Live ~> (pc[p] = "dead" \/ (pc[p] = "done" /\ owner.pid # p))

=============================================================================
