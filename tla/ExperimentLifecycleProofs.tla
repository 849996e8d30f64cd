---------------------- MODULE ExperimentLifecycleProofs ----------------------
(* Theorems about ExperimentLifecycle, for any processes and any crashes.    *)
EXTENDS ExperimentLifecycle, SequenceTheorems, TLAPS

(***************************************************************************)
(* Typing.  A checkpoint number is computed from the directory long before *)
(* it is used; meanwhile other processes may have added files, never       *)
(* removed one.  Without this bound Replace could leave a gap and chain    *)
(* would be no sequence.                                                   *)
(***************************************************************************)
Replacing == {"firstReplace", "replace", "stopReplace"}
Replaced == {"firstRecord", "set", "record", "stopSet", "stopRecord"}

SequenceFits ==
    \A p \in Processes :
        /\ pc[p] \in Replacing => local[p].sequence \in 1 .. Len(chain) + 1
        /\ pc[p] \in Replaced => local[p].sequence \in 1 .. Len(chain)

TypeInv == TypeOK /\ SequenceFits

\* Every step of Next is one of a process p, or a stutter at rest.
Step(p) ==
    \/ StartRun(p) \/ StartStop(p) \/ RunStep(p) \/ StopStep(p)
    \/ Raise(p) \/ SecondInterrupt(p) \/ Crash(p)

USE DEF Processes, ControlPoints, Live, BeforeOwning, Owned, InTry, InExcept, Stopping

LEMMA BlankIsLocal == ASSUME NEW r \in Results PROVE [Blank EXCEPT !.result = r] \in Local
BY DEF Blank, Local, Results, ValidStates, AdapterStates, StopReasons, CompletedReasons, ErrorKinds

LEMMA TypeInit == Init => TypeInv
<1> SUFFICES ASSUME Init PROVE TypeInv
    OBVIOUS
<1>1. Blank \in Local
    BY DEF Blank, Local, Results, ValidStates, AdapterStates, StopReasons, CompletedReasons, ErrorKinds
<1>2. sessions \in Seq([status: SessionStatus, finishes: Nat]) /\ chain \in Seq(Checkpoint)
    BY EmptySeq DEF Init
<1>3. experiment \in [state: ValidStates, reason: StopReasons, session: Nat, checkpoint: Nat]
    BY DEF Init, ValidStates, AdapterStates, StopReasons
<1>4. pc \in [Processes -> ControlPoints] /\ local \in [Processes -> Local]
    BY <1>1 DEF Init
<1>5. TypeOK
    BY <1>2, <1>3, <1>4 DEF Init, TypeOK, NoOwner
<1>6. SequenceFits
    BY DEF Init, SequenceFits, Replacing, Replaced
<1> QED
    BY <1>5, <1>6 DEF TypeInv

\* The three ways of moving on keep the control and the locals typed.
LEMMA MovesAreTyped ==
    ASSUME TypeOK, NEW p \in Processes, NEW there \in ControlPoints,
           NEW fields \in Local, GotoWith(p, there, fields)
    PROVE  /\ pc' \in [Processes -> ControlPoints]
           /\ local' \in [Processes -> Local]
BY DEF TypeOK, GotoWith, Goto

LEMMA FunctionIsSeq ==
    ASSUME NEW S, NEW n \in Nat, NEW f \in [1 .. n -> S]
    PROVE  f \in Seq(S) /\ Len(f) = n
OBVIOUS

LEMMA LastWriterTyped ==
    TypeOK => LastWriter \in Processes \cup {NoProcess}
<1> SUFFICES ASSUME TypeOK, chain # <<>> PROVE LastWriter \in Processes
    BY DEF LastWriter
<1>1. Len(chain) \in 1 .. Len(chain)
    BY EmptySeq DEF TypeOK
<1>2. chain[Len(chain)] \in Checkpoint
    BY <1>1, ElementOfSeq DEF TypeOK
<1> QED
    BY <1>2 DEF LastWriter, Checkpoint

LEMMA PrepareTyped ==
    ASSUME TypeInv, NEW p \in Processes, NEW there \in Replacing, Prepare(p, there)
    PROVE  TypeInv'
<1>0. local[p] \in Local /\ Len(chain) + 1 \in Nat /\ LastWriter \in Processes \cup {NoProcess}
    BY LastWriterTyped, LenProperties DEF TypeInv, TypeOK
<1>1. PICK l \in Local : l = [local[p] EXCEPT !.sequence = Len(chain) + 1,
                                              !.previous = LastWriter]
    BY <1>0 DEF Local
<1>2. GotoWith(p, there, l) /\ UNCHANGED <<Database, Files>>
    BY <1>1 DEF Prepare
<1>3. TypeOK'
    BY <1>2, MovesAreTyped DEF TypeInv, TypeOK, Replacing, Database, Files
<1>4. SequenceFits'
    BY <1>1, <1>2 DEF TypeInv, TypeOK, SequenceFits, Replacing, Replaced, GotoWith, Goto, Files, Local
<1> QED
    BY <1>3, <1>4 DEF TypeInv

LEMMA ReplaceTyped ==
    ASSUME TypeInv, NEW p \in Processes, pc[p] \in Replacing,
           NEW there \in Replaced, NEW state \in ValidStates, Replace(p, state, there)
    PROVE  /\ TypeInv'
           /\ Len(chain) <= Len(chain')
<1> DEFINE n == IF local[p].sequence > Len(chain) THEN local[p].sequence ELSE Len(chain)
           file == [by |-> p, state |-> state, previous |-> local[p].previous]
<1>1. local[p] \in Local /\ local[p].sequence \in 1 .. Len(chain) + 1
    BY DEF TypeInv, TypeOK, SequenceFits
<1>2. file \in Checkpoint
    BY <1>1 DEF Checkpoint, Local
<1>3. n \in Nat /\ local[p].sequence <= n /\ Len(chain) <= n /\ n <= Len(chain) + 1
    BY <1>1 DEF TypeInv, TypeOK
<1>4. chain' = [i \in 1 .. n |-> IF i = local[p].sequence THEN file ELSE chain[i]]
    BY DEF Replace
<1>5. \A i \in 1 .. n : i # local[p].sequence => i \in 1 .. Len(chain)
    BY <1>1, <1>3 DEF TypeInv, TypeOK
<1>6. chain' \in Seq(Checkpoint) /\ Len(chain') = n
    <2>1. \A i \in 1 .. n : i # local[p].sequence => chain[i] \in Checkpoint
        BY <1>5, ElementOfSeq DEF TypeInv, TypeOK
    <2>2. chain' \in [1 .. n -> Checkpoint]
        BY <1>2, <1>4, <2>1
    <2> QED
        BY <1>3, <2>2, FunctionIsSeq
<1>7. TypeOK'
    BY <1>6 DEF TypeInv, TypeOK, Replace, Goto, Database, Replaced
<1>8. SequenceFits'
    BY <1>1, <1>3, <1>6 DEF TypeInv, TypeOK, SequenceFits, Replace, Goto, Replacing, Replaced
<1> QED
    BY <1>3, <1>6, <1>7, <1>8 DEF TypeInv


\* A step that adds no checkpoint file.
TypedDatabase ==
    /\ root \in BOOLEAN
    /\ experiment \in [state: ValidStates, reason: StopReasons, session: Nat, checkpoint: Nat]
    /\ sessions \in Seq([status: SessionStatus, finishes: Nat])
    /\ owner \in [pid: Processes \cup {NoProcess}, session: Nat]
    /\ rows \subseteq [sequence: Nat, by: Processes]
    /\ dirs \subseteq Nat

LEMMA QuietStepTyped ==
    ASSUME TypeInv, NEW p \in Processes, NEW there \in ControlPoints \ Replacing,
           NEW fields \in Local, GotoWith(p, there, fields),
           there \in Replaced => fields.sequence \in 1 .. Len(chain),
           UNCHANGED chain, TypedDatabase'
    PROVE  TypeInv'
<1>1. TypeOK'
    BY MovesAreTyped DEF TypeInv, TypeOK, TypedDatabase
<1>2. SequenceFits'
    BY DEF TypeInv, TypeOK, SequenceFits, GotoWith, Goto, Replacing
<1> QED
    BY <1>1, <1>2 DEF TypeInv

LEMMA StayingTyped ==
    ASSUME TypeInv, NEW p \in Processes, NEW there \in ControlPoints \ Replacing,
           Goto(p, there), UNCHANGED <<local, chain>>,
           there \in Replaced => pc[p] \in Replaced,
           TypedDatabase'
    PROVE  TypeInv'
<1>1. local[p] \in Local /\ GotoWith(p, there, local[p])
    BY DEF TypeInv, TypeOK, GotoWith
<1>2. there \in Replaced => local[p].sequence \in 1 .. Len(chain)
    BY DEF TypeInv, SequenceFits
<1> QED
    BY <1>1, <1>2, QuietStepTyped

\* The writes of the database.
LEMMA DatabaseKept ==
    TypeInv /\ UNCHANGED <<Database, root, dirs>> => TypedDatabase'
BY DEF TypeInv, TypeOK, TypedDatabase, Database

LEMMA SetStateTyped ==
    ASSUME TypeInv, NEW p \in Processes, NEW state \in ValidStates, NEW reason \in StopReasons,
           NEW checkpoint \in Nat, NEW there \in ControlPoints \ Replacing,
           there \in Replaced => pc[p] \in Replaced,
           SetState(p, state, reason, checkpoint, there)
    PROVE  TypeInv'
<1>1. experiment' \in [state: ValidStates, reason: StopReasons, session: Nat, checkpoint: Nat]
    BY DEF TypeInv, TypeOK, SetState
<1>2. TypedDatabase'
    BY <1>1 DEF TypeInv, TypeOK, TypedDatabase, SetState, Files
<1> QED
    BY <1>2, StayingTyped DEF SetState, Files

LEMMA RecordTyped ==
    ASSUME TypeInv, NEW p \in Processes, pc[p] \in Replaced,
           NEW there \in ControlPoints \ (Replacing \cup Replaced), RecordCheckpoint(p, there)
    PROVE  TypeInv'
<1>1. local[p] \in Local /\ local[p].sequence \in Nat
    BY DEF TypeInv, TypeOK, Local
<1>2. Blank \in Local
    BY DEF Blank, Local, Results, ValidStates, AdapterStates, StopReasons, CompletedReasons, ErrorKinds
<1>3. PICK l \in Local : GotoWith(p, there, l)
    BY <1>1, <1>2 DEF RecordCheckpoint
<1>4. experiment' \in [state: ValidStates, reason: StopReasons, session: Nat, checkpoint: Nat]
    BY <1>1 DEF TypeInv, TypeOK, RecordCheckpoint
<1>5. rows' \subseteq [sequence: Nat, by: Processes]
    BY <1>1 DEF TypeInv, TypeOK, RecordCheckpoint
<1>6. TypedDatabase'
    BY <1>4, <1>5 DEF TypeInv, TypeOK, TypedDatabase, RecordCheckpoint, Files
<1> QED
    BY <1>3, <1>6, QuietStepTyped DEF RecordCheckpoint, Files

LEMMA FinishTyped ==
    ASSUME TypeInv, NEW number \in Nat, NEW state \in ValidStates, NEW reason \in StopReasons,
           FinishSession(number, state, reason)
    PROVE  /\ sessions' \in Seq([status: SessionStatus, finishes: Nat])
           /\ experiment' \in [state: ValidStates, reason: StopReasons,
                               session: Nat, checkpoint: Nat]
           /\ Len(sessions') = Len(sessions)
<1> DEFINE Row == [status: SessionStatus, finishes: Nat]
<1>1. Len(sessions) \in Nat /\ sessions \in [1 .. Len(sessions) -> Row]
    BY LenProperties DEF TypeInv, TypeOK
<1>2. sessions' \in [1 .. Len(sessions) -> Row]
    <2>1. number \in 1 .. Len(sessions) => sessions[number].finishes + 1 \in Nat
        BY <1>1
    <2> DEFINE row == [status |-> state, finishes |-> sessions[number].finishes + 1]
    <2>2. number \in 1 .. Len(sessions) => row \in Row
        BY <2>1 DEF SessionStatus
    <2>3. sessions' = [sessions EXCEPT ![number] = row]
        BY DEF FinishSession
    <2> HIDE DEF row, Row
    <2> QED
        BY <1>1, <2>2, <2>3
<1>3. sessions' \in Seq(Row) /\ Len(sessions') = Len(sessions)
    BY <1>1, <1>2, FunctionIsSeq
<1>4. experiment' \in [state: ValidStates, reason: StopReasons, session: Nat, checkpoint: Nat]
    BY DEF TypeInv, TypeOK, FinishSession
<1> QED
    BY <1>3, <1>4

LEMMA CloseDeadTyped ==
    ASSUME TypeInv, CloseDeadSession
    PROVE  /\ sessions' \in Seq([status: SessionStatus, finishes: Nat])
           /\ Len(sessions') = Len(sessions)
<1> DEFINE Row == [status: SessionStatus, finishes: Nat]
<1>1. Len(sessions) \in Nat /\ sessions \in [1 .. Len(sessions) -> Row]
      /\ DOMAIN sessions = 1 .. Len(sessions)
    BY LenProperties DEF TypeInv, TypeOK
<1>2. sessions' \in [1 .. Len(sessions) -> Row]
    BY <1>1 DEF CloseDeadSession, SessionStatus, ValidStates, AdapterStates
<1> QED
    BY <1>1, <1>2, FunctionIsSeq

LEMMA EndTyped ==
    ASSUME TypeInv, NEW p \in Processes, NEW r \in Results, End(p, r),
           UNCHANGED chain, TypedDatabase'
    PROVE  TypeInv'
BY BlankIsLocal, QuietStepTyped DEF End, Replacing, Replaced

LEMMA LocalsTyped ==
    ASSUME TypeInv, NEW p \in Processes
    PROVE  /\ local[p] \in Local
           /\ local[p].number \in Nat /\ local[p].session \in Nat /\ local[p].sequence \in Nat
           /\ local[p].outcome \in ValidStates /\ local[p].reason \in StopReasons
           /\ local[p].error \in ErrorKinds /\ local[p].result \in Results
BY DEF TypeInv, TypeOK, Local

LEMMA TypeStep ==
    ASSUME TypeInv, NEW p \in Processes, Step(p)
    PROVE  TypeInv'
<1> USE DEF Replacing, Replaced
<1>0. /\ local[p] \in Local
      /\ Len(sessions) \in Nat
      /\ ErrorKinds \subseteq StopReasons /\ ErrorKinds \subseteq ValidStates
    BY LocalsTyped, LenProperties
       DEF TypeInv, TypeOK, ErrorKinds, StopReasons, ValidStates, AdapterStates
<1>1. CASE StartRun(p) \/ StartStop(p)
    BY <1>1, DatabaseKept, StayingTyped DEF StartRun, StartStop, Start, Files
<1>2. CASE Create(p)
    <2>1. TypedDatabase'
        BY <1>2 DEF TypeInv, TypeOK, TypedDatabase, Create, Database
    <2> QED
        BY <1>2, <2>1, EndTyped, StayingTyped DEF Create, Results
<1>3. CASE Verify(p) \/ Survey(p) \/ RefuseOwner(p)
    BY <1>3, DatabaseKept, EndTyped, StayingTyped
       DEF Verify, Survey, RefuseOwner, Files, Results
<1>4. CASE ReadNumber(p)
    <2>1. [local[p] EXCEPT !.number = NextSessionNumber] \in Local
        BY <1>0 DEF Local, NextSessionNumber
    <2> QED
        BY <1>4, <2>1, DatabaseKept, QuietStepTyped DEF ReadNumber, Files
<1>5. CASE AcquireOwner(p)
    <2>1. TypedDatabase'
        BY <1>0, <1>5, CloseDeadTyped, LocalsTyped
           DEF TypeInv, TypeOK, TypedDatabase, AcquireOwner, Files
    <2> QED
        BY <1>5, <2>1, StayingTyped DEF AcquireOwner, Files
<1>6. CASE MakeSessionDir(p)
    <2>1. TypedDatabase'
        BY <1>0, <1>6 DEF TypeInv, TypeOK, TypedDatabase, MakeSessionDir, Database, NextSessionNumber
    <2>2. [local[p] EXCEPT !.error = "failed", !.result = "collide"] \in Local
        BY <1>0 DEF Local, ErrorKinds, Results
    <2> QED
        BY <1>6, <2>1, <2>2, QuietStepTyped, StayingTyped DEF MakeSessionDir
<1>7. CASE CreateSession(p)
    <2> DEFINE row == [status |-> "running", finishes |-> 0]
    <2>1. row \in [status: SessionStatus, finishes: Nat]
        BY DEF SessionStatus, ValidStates
    <2>2. sessions' \in Seq([status: SessionStatus, finishes: Nat])
        BY <1>7, <2>1, AppendProperties DEF TypeInv, TypeOK, CreateSession
    <2>3. experiment' \in [state: ValidStates, reason: StopReasons,
                           session: Nat, checkpoint: Nat]
        <3>1. "running" \in ValidStates /\ "none" \in StopReasons /\ NextSessionNumber \in Nat
            BY <1>0 DEF ValidStates, StopReasons, NextSessionNumber
        <3> QED
            BY <1>7, <3>1 DEF TypeInv, TypeOK, CreateSession
    <2>4. TypedDatabase'
        BY <1>7, <2>2, <2>3 DEF TypeInv, TypeOK, TypedDatabase, CreateSession, Files
    <2> QED
        BY <1>7, <2>4, StayingTyped DEF CreateSession, Files
<1>8. CASE StartReturns(p)
    <2>1. [local[p] EXCEPT !.session = experiment.session] \in Local
        BY <1>0 DEF TypeInv, TypeOK, Local
    <2> QED
        BY <1>8, <2>1, DatabaseKept, QuietStepTyped DEF StartReturns, Files
<1>9. CASE FirstCheckpoint(p) \/ SaveFinal(p)
    BY <1>9, PrepareTyped DEF FirstCheckpoint, SaveFinal
<1>10. CASE SkipFirstCheckpoint(p) \/ Close(p)
    BY <1>10, DatabaseKept, StayingTyped DEF SkipFirstCheckpoint, Close, Files
<1>11. CASE FirstReplace(p) \/ ReplaceFinal(p)
    BY <1>11, ReplaceTyped, LocalsTyped DEF FirstReplace, ReplaceFinal, ValidStates
<1>12. CASE FirstRecord(p) \/ RecordFinal(p) \/ StopRecord(p)
    BY <1>12, RecordTyped DEF FirstRecord, RecordFinal, StopRecord
<1>13. CASE AdapterReturns(p)
    <2>1. PICK state \in Outcomes, reason \in StopReasons :
              GotoWith(p, "save", [local[p] EXCEPT !.outcome = state, !.reason = reason])
        BY <1>13 DEF AdapterReturns, StopReasons, CompletedReasons
    <2>2. state \in ValidStates
        BY OutcomeAssumption DEF ValidStates
    <2>3. [local[p] EXCEPT !.outcome = state, !.reason = reason] \in Local
        BY <1>0, <2>2 DEF Local
    <2> QED
        BY <1>13, <2>1, <2>3, DatabaseKept, QuietStepTyped DEF AdapterReturns, Files
<1>14. CASE SetOutcome(p) \/ StopSetState(p)
    BY <1>14, SetStateTyped, LocalsTyped
       DEF SetOutcome, StopSetState, ValidStates, AdapterStates, StopReasons, CompletedReasons
<1>15. CASE Finish(p) \/ ExceptFinish(p)
    <2>1. TypedDatabase'
        BY <1>0, <1>15, FinishTyped, LocalsTyped
           DEF TypeInv, TypeOK, TypedDatabase, Finish, ExceptFinish, Files
    <2> QED
        BY <1>15, <2>1, StayingTyped DEF Finish, ExceptFinish, Files
<1>16. CASE ReleaseOwner(p)
    <2>1. TypedDatabase'
        BY <1>16 DEF TypeInv, TypeOK, TypedDatabase, ReleaseOwner, Files, NoOwner
    <2> QED
        BY <1>16, <2>1, EndTyped, LocalsTyped DEF ReleaseOwner, Files
<1>17. CASE Raise(p) \/ ReadBrokenChain(p)
    <2>1. PICK kind \in ErrorKinds : GotoWith(p, "except", [local[p] EXCEPT !.error = kind])
        BY <1>17 DEF Raise, ReadBrokenChain, ErrorKinds
    <2>2. [local[p] EXCEPT !.error = kind] \in Local
        BY <1>0 DEF Local
    <2> QED
        BY <1>17, <2>1, <2>2, DatabaseKept, QuietStepTyped DEF Raise, ReadBrokenChain, Files
<1>18. CASE ExceptSetState(p)
    <2>1. experiment.checkpoint \in Nat
        BY DEF TypeInv, TypeOK
    <2>2. PICK reason \in StopReasons :
              SetState(p, local[p].error, reason, experiment.checkpoint, "release")
        BY <1>0, <1>18, LocalsTyped DEF ExceptSetState, StopReasons
    <2> QED
        BY <1>0, <2>1, <2>2, SetStateTyped, LocalsTyped
<1>19. CASE SecondInterrupt(p)
    BY <1>19, DatabaseKept, StayingTyped DEF SecondInterrupt, Files
<1>20. CASE StopCheck(p) \/ StopList(p)
    BY <1>20, DatabaseKept, EndTyped, StayingTyped, PrepareTyped
       DEF StopCheck, StopList, Files, Results
<1>21. CASE StopReplace(p)
    BY <1>21, ReplaceTyped DEF StopReplace, ValidStates, AdapterStates
<1>22. CASE Crash(p)
    <2>1. [Blank EXCEPT !.result = local[p].result] \in Local
        BY BlankIsLocal, LocalsTyped
    <2> QED
        BY <1>22, <2>1, DatabaseKept, QuietStepTyped DEF Crash, Files
<1> QED
    BY <1>1, <1>2, <1>3, <1>4, <1>5, <1>6, <1>7, <1>8, <1>9, <1>10, <1>11, <1>12, <1>13,
       <1>14, <1>15, <1>16, <1>17, <1>18, <1>19, <1>20, <1>21, <1>22
       DEF Step, RunStep, StopStep

LEMMA NextIsStep ==
    [Next]_vars => (\E p \in Processes : Step(p)) \/ UNCHANGED vars
BY DEF Next, Rest, Step

LEMMA TypeStutter == TypeInv /\ UNCHANGED vars => TypeInv'
BY DEF TypeInv, TypeOK, SequenceFits, vars

LEMMA TypeInvariant == Spec => []TypeInv
<1>1. TypeInv /\ [Next]_vars => TypeInv'
    BY NextIsStep, TypeStep, TypeStutter
<1> QED
    BY TypeInit, <1>1, PTL DEF Spec

\* Every variable keeps its type, however many processes run, stop, raise and
\* die: in particular the directory of checkpoints never has a gap
\* (checkpoints.py save, state.py).
THEOREM TypeCorrect == Spec => []TypeOK
BY TypeInvariant, PTL DEF TypeInv

-----------------------------------------------------------------------------
(***************************************************************************)
(* Ownership.  SingleOwner is inductive with the types: a process takes    *)
(* the row only from an owner that is not alive, and every process in its  *)
(* owned part is alive and is the owner, so it takes it from nobody who    *)
(* still works.  That the row is released by session number, not by        *)
(* process, is safe because the two are recorded together.                 *)
(***************************************************************************)
LEMMA OthersKept ==
    ASSUME TypeOK, NEW p \in Processes, Step(p), NEW q \in Processes, q # p
    PROVE  pc'[q] = pc[q] /\ local'[q] = local[q]
<1>1. PICK there, fields : pc' = [pc EXCEPT ![p] = there] /\ local' = [local EXCEPT ![p] = fields]
    <2>1. local = [local EXCEPT ![p] = local[p]]
        BY DEF TypeOK
    <2>2. CASE StartRun(p) \/ StartStop(p) \/ Raise(p) \/ SecondInterrupt(p) \/ Crash(p)
        BY <2>1, <2>2 DEF StartRun, StartStop, Start, Raise, SecondInterrupt, Crash, GotoWith, Goto
    <2>3. CASE StopStep(p)
        BY <2>1, <2>3 DEF StopStep, StopCheck, StopList, StopReplace, StopSetState, StopRecord,
               End, Prepare, Replace, SetState, RecordCheckpoint, GotoWith, Goto
    <2>4. CASE Create(p) \/ Verify(p) \/ Survey(p) \/ ReadNumber(p) \/ AcquireOwner(p)
               \/ RefuseOwner(p) \/ MakeSessionDir(p) \/ CreateSession(p) \/ StartReturns(p)
               \/ ReleaseOwner(p)
        BY <2>1, <2>4 DEF Create, Verify, Survey, ReadNumber, AcquireOwner, RefuseOwner,
               MakeSessionDir, CreateSession, StartReturns, ReleaseOwner, End, GotoWith, Goto
    <2>5. CASE FirstCheckpoint(p) \/ SkipFirstCheckpoint(p) \/ FirstReplace(p) \/ FirstRecord(p)
               \/ AdapterReturns(p) \/ SaveFinal(p) \/ ReplaceFinal(p) \/ SetOutcome(p)
               \/ RecordFinal(p) \/ Finish(p) \/ Close(p)
               \/ ReadBrokenChain(p) \/ ExceptFinish(p) \/ ExceptSetState(p)
        BY <2>1, <2>5 DEF FirstCheckpoint, SkipFirstCheckpoint, FirstReplace, FirstRecord,
               AdapterReturns, SaveFinal, ReplaceFinal, SetOutcome, RecordFinal, Finish, Close,
               ReadBrokenChain, ExceptFinish, ExceptSetState,
               Prepare, Replace, SetState, RecordCheckpoint, GotoWith, Goto
    <2> QED
        BY <2>2, <2>3, <2>4, <2>5 DEF Step, RunStep
<1> QED
    BY <1>1 DEF TypeOK

\* What a step does to the ownership row and to the control of its process.
OwnerKept(p) ==
    /\ UNCHANGED owner
    /\ pc'[p] \in Owned => pc[p] \in Owned /\ local'[p].number = local[p].number

LEMMA NumberKept ==
    ASSUME NEW l \in Local, NEW a, NEW b
    PROVE  /\ [l EXCEPT !.sequence = a, !.previous = b].number = l.number
           /\ [l EXCEPT !.outcome = a, !.reason = b].number = l.number
           /\ [l EXCEPT !.error = a, !.result = b].number = l.number
           /\ [l EXCEPT !.session = a].number = l.number
           /\ [l EXCEPT !.error = a].number = l.number
BY DEF Local

LEMMA OwnerSteps ==
    ASSUME TypeOK, NEW p \in Processes, Step(p)
    PROVE  OwnerKept(p) \/ AcquireOwner(p) \/ ReleaseOwner(p)
<1>0. local[p] \in Local
    BY DEF TypeOK
<1> USE DEF OwnerKept, Database
<1>1. CASE StartRun(p) \/ StartStop(p) \/ Crash(p) \/ SecondInterrupt(p)
    BY <1>1 DEF TypeOK, StartRun, StartStop, Start, Crash, SecondInterrupt, GotoWith, Goto
<1>2. CASE Create(p) \/ Verify(p) \/ Survey(p) \/ ReadNumber(p) \/ RefuseOwner(p)
    BY <1>2 DEF TypeOK, Create, Verify, Survey, ReadNumber, RefuseOwner, End, GotoWith, Goto
<1>3. CASE CreateSession(p) \/ SkipFirstCheckpoint(p) \/ SetOutcome(p) \/ Finish(p) \/ Close(p)
           \/ ExceptFinish(p) \/ ExceptSetState(p) \/ FirstReplace(p) \/ ReplaceFinal(p)
    BY <1>3 DEF TypeOK, CreateSession, SkipFirstCheckpoint, SetOutcome, Finish, Close, ExceptFinish,
           ExceptSetState, FirstReplace, ReplaceFinal, SetState, Replace, Goto
<1>4. CASE FirstCheckpoint(p) \/ SaveFinal(p)
    <2>1. PICK a, b, there :
              GotoWith(p, there, [local[p] EXCEPT !.sequence = a, !.previous = b])
        BY <1>4 DEF FirstCheckpoint, SaveFinal, Prepare
    <2> QED
        BY <1>0, <1>4, <2>1, NumberKept
           DEF TypeOK, FirstCheckpoint, SaveFinal, Prepare, GotoWith, Goto
<1>5. CASE FirstRecord(p) \/ RecordFinal(p)
    BY <1>0, <1>5 DEF TypeOK, FirstRecord, RecordFinal, RecordCheckpoint, GotoWith, Goto
<1>6. CASE MakeSessionDir(p) \/ StartReturns(p) \/ AdapterReturns(p) \/ Raise(p)
           \/ ReadBrokenChain(p)
    <2>1. UNCHANGED owner /\ pc[p] \in Owned
        BY <1>6 DEF MakeSessionDir, StartReturns, AdapterReturns, Raise, ReadBrokenChain
    <2>2. local'[p].number = local[p].number
        <3>1. CASE MakeSessionDir(p)
            <4> DEFINE raised == [local[p] EXCEPT !.error = "failed", !.result = "collide"]
            <4>1. GotoWith(p, "except", raised) \/ UNCHANGED local
                BY <3>1 DEF MakeSessionDir
            <4>2. raised.number = local[p].number
                BY <1>0, NumberKept
            <4> HIDE DEF raised
            <4> QED
                BY <4>1, <4>2 DEF TypeOK, GotoWith
        <3>2. CASE StartReturns(p)
            BY <1>0, <3>2, NumberKept DEF TypeOK, StartReturns, GotoWith, Goto
        <3>3. CASE AdapterReturns(p)
            <4>1. PICK a, b : GotoWith(p, "save", [local[p] EXCEPT !.outcome = a, !.reason = b])
                BY <3>3 DEF AdapterReturns
            <4> QED
                BY <1>0, <4>1, NumberKept DEF TypeOK, GotoWith
        <3>4. CASE Raise(p) \/ ReadBrokenChain(p)
            <4>1. PICK a : GotoWith(p, "except", [local[p] EXCEPT !.error = a])
                BY <3>4 DEF Raise, ReadBrokenChain
            <4> QED
                BY <1>0, <4>1, NumberKept DEF TypeOK, GotoWith
        <3> QED
            BY <1>6, <3>1, <3>2, <3>3, <3>4
    <2> QED
        BY <2>1, <2>2
<1>7. CASE StopStep(p)
    BY <1>0, <1>7 DEF TypeOK, StopStep, StopCheck, StopList, StopReplace, StopSetState, StopRecord,
           End, Prepare, Replace, SetState, RecordCheckpoint, GotoWith, Goto
<1> QED
    BY <1>1, <1>2, <1>3, <1>4, <1>5, <1>6, <1>7 DEF Step, RunStep

LEMMA SingleOwnerStep ==
    ASSUME TypeOK, SingleOwner, NEW p \in Processes, Step(p)
    PROVE  SingleOwner'
<1>1. SUFFICES ASSUME NEW q \in Processes, pc'[q] \in Owned
               PROVE  owner' = [pid |-> q, session |-> local'[q].number]
    BY DEF SingleOwner
<1>2. CASE OwnerKept(p)
    BY <1>1, <1>2, OthersKept DEF OwnerKept, SingleOwner
<1>3. CASE AcquireOwner(p)
    <2>1. CASE q = p
        BY <1>3, <2>1 DEF AcquireOwner
    <2>2. CASE q # p
        <3>1. pc[q] \in Owned /\ owner.pid = q
            BY <1>1, <2>2, OthersKept DEF SingleOwner
        <3>2. Alive(owner.pid)
            BY <3>1 DEF Alive
        <3> QED
            BY <1>3, <3>2 DEF AcquireOwner
    <2> QED
        BY <2>1, <2>2
<1>4. CASE ReleaseOwner(p)
    <2>1. pc[p] \in Owned /\ pc'[p] = "done"
        BY <1>4 DEF TypeOK, ReleaseOwner, End, GotoWith, Goto
    <2>2. q # p /\ pc[q] \in Owned
        BY <1>1, <2>1, OthersKept
    <2>3. owner.pid = q /\ owner.pid = p
        BY <2>1, <2>2 DEF SingleOwner
    <2> QED
        BY <2>2, <2>3
<1> QED
    BY <1>2, <1>3, <1>4, OwnerSteps

LEMMA SingleOwnerInvariant == Spec => [](TypeInv /\ SingleOwner)
<1>1. Init => SingleOwner
    BY DEF Init, SingleOwner
<1>2. TypeInv /\ SingleOwner /\ [Next]_vars => SingleOwner'
    <2>1. TypeInv /\ SingleOwner /\ UNCHANGED vars => SingleOwner'
        BY DEF SingleOwner, vars
    <2> QED
        BY <2>1, NextIsStep, SingleOwnerStep DEF TypeInv
<1> QED
    BY <1>1, <1>2, TypeInvariant, PTL DEF Spec

\* Two runs never work on one workspace at once, and the row of ownership
\* always names the one that does (state.py acquire_owner, service.py run).
THEOREM OneOwner == Spec => []SingleOwner
BY SingleOwnerInvariant, PTL

-----------------------------------------------------------------------------
(***************************************************************************)
(* Files and indexes.  A file is replaced before its number is written to  *)
(* the database, and a directory is made before its session row, by the    *)
(* same process; nobody removes either.                                    *)
(***************************************************************************)
LEMMA ChainGrows ==
    ASSUME TypeInv, NEW p \in Processes, Step(p)
    PROVE  DOMAIN chain \subseteq DOMAIN chain'
<1>1. CASE FirstReplace(p) \/ ReplaceFinal(p) \/ StopReplace(p)
    <2>1. Len(chain) <= Len(chain')
        BY <1>1, ReplaceTyped, LocalsTyped
           DEF FirstReplace, ReplaceFinal, StopReplace, Replacing, Replaced, ValidStates, AdapterStates
    <2>2. TypeOK'
        BY TypeStep DEF TypeInv
    <2> QED
        BY <2>1, <2>2, LenProperties DEF TypeInv, TypeOK
<1>2. CASE ~(FirstReplace(p) \/ ReplaceFinal(p) \/ StopReplace(p))
    <2>1. UNCHANGED chain
        BY <1>2 DEF Step, RunStep, StopStep, StartRun, StartStop, Start, Raise, SecondInterrupt, Crash,
           Create, Verify, Survey, ReadNumber, AcquireOwner, RefuseOwner, MakeSessionDir,
           CreateSession, StartReturns, ReleaseOwner, FirstCheckpoint, SkipFirstCheckpoint,
           FirstRecord, AdapterReturns, SaveFinal, SetOutcome, RecordFinal, Finish, Close,
           ReadBrokenChain, ExceptFinish, ExceptSetState, StopCheck, StopList, StopSetState,
           StopRecord, Prepare, SetState, RecordCheckpoint, Files
    <2> QED
        BY <2>1
<1> QED
    BY <1>1, <1>2

LEMMA CheckpointField ==
    ASSUME TypeInv, NEW a, NEW b, NEW c
    PROVE  /\ [experiment EXCEPT !.state = a, !.reason = b].checkpoint = experiment.checkpoint
           /\ [experiment EXCEPT !.state = a, !.reason = b, !.session = c].checkpoint
                = experiment.checkpoint
           /\ [experiment EXCEPT !.state = a, !.reason = b, !.checkpoint = c].checkpoint = c
<1> experiment \in [state: ValidStates, reason: StopReasons, session: Nat, checkpoint: Nat]
    BY DEF TypeInv, TypeOK
<1> QED
    OBVIOUS

\* What a step may write into the index of the files.
LEMMA IndexWrites ==
    ASSUME TypeInv, NEW p \in Processes, Step(p)
    PROVE  \/ rows' = rows /\ experiment'.checkpoint = experiment.checkpoint
           \/ /\ local[p].sequence \in DOMAIN chain
              /\ \A r \in rows' : r \in rows \/ r.sequence = local[p].sequence
              /\ experiment'.checkpoint = local[p].sequence
<1> DEFINE Kept == rows' = rows /\ experiment'.checkpoint = experiment.checkpoint
<1>1. CASE FirstRecord(p) \/ RecordFinal(p) \/ StopRecord(p) \/ SetOutcome(p) \/ StopSetState(p)
    <2>1. local[p].sequence \in DOMAIN chain
        BY <1>1, LenProperties DEF TypeInv, TypeOK, SequenceFits, Replaced,
           FirstRecord, RecordFinal, StopRecord, SetOutcome, StopSetState
    <2> QED
        <3>1. CASE FirstRecord(p) \/ RecordFinal(p) \/ StopRecord(p)
            <4>1. experiment'.checkpoint = local[p].sequence
                BY <3>1 DEF TypeInv, TypeOK, FirstRecord, RecordFinal, StopRecord, RecordCheckpoint
            <4>2. \A r \in rows' : r \in rows \/ r.sequence = local[p].sequence
                BY <3>1 DEF FirstRecord, RecordFinal, StopRecord, RecordCheckpoint
            <4> QED
                BY <2>1, <4>1, <4>2
        <3>2. CASE SetOutcome(p) \/ StopSetState(p)
            <4>1. UNCHANGED rows
                BY <3>2 DEF SetOutcome, StopSetState, SetState
            <4>2. PICK a, b : experiment' = [experiment EXCEPT !.state = a, !.reason = b,
                                                           !.checkpoint = local[p].sequence]
                BY <3>2 DEF SetOutcome, StopSetState, SetState
            <4> QED
                BY <2>1, <4>1, <4>2, CheckpointField
        <3> QED
            BY <1>1, <3>1, <3>2
<1>2. CASE Finish(p) \/ ExceptFinish(p) \/ ExceptSetState(p) \/ CreateSession(p)
    <2>1. UNCHANGED rows
        BY <1>2 DEF Finish, ExceptFinish, ExceptSetState, CreateSession, SetState
    <2>2. CASE Finish(p) \/ ExceptFinish(p)
        <3>1. ASSUME NEW n, NEW a, NEW b, FinishSession(n, a, b)
              PROVE  experiment'.checkpoint = experiment.checkpoint
            <4>1. CASE experiment' = [experiment EXCEPT !.state = a, !.reason = b]
                BY <4>1, CheckpointField
            <4> QED
                BY <3>1, <4>1 DEF FinishSession
        <3> QED
            BY <2>1, <2>2, <3>1 DEF Finish, ExceptFinish
    <2>3. CASE ExceptSetState(p)
        <3>1. PICK a, b : experiment' = [experiment EXCEPT !.state = a, !.reason = b,
                                                       !.checkpoint = experiment.checkpoint]
            BY <2>3 DEF ExceptSetState, SetState
        <3> QED
            BY <2>1, <3>1, CheckpointField
    <2>4. CASE CreateSession(p)
        BY <2>1, <2>4, CheckpointField DEF CreateSession
    <2> QED
        BY <1>2, <2>2, <2>3, <2>4
<1>3. CASE FirstReplace(p) \/ ReplaceFinal(p) \/ StopReplace(p)
    BY <1>3 DEF FirstReplace, ReplaceFinal, StopReplace, Replace, Database
<1>4. CASE StartRun(p) \/ StartStop(p) \/ Raise(p) \/ SecondInterrupt(p) \/ Crash(p)
           \/ Create(p) \/ Verify(p) \/ Survey(p) \/ ReadNumber(p) \/ AcquireOwner(p)
           \/ RefuseOwner(p) \/ MakeSessionDir(p) \/ StartReturns(p) \/ ReleaseOwner(p)
           \/ FirstCheckpoint(p) \/ SkipFirstCheckpoint(p) \/ AdapterReturns(p) \/ SaveFinal(p)
           \/ Close(p) \/ ReadBrokenChain(p) \/ StopCheck(p) \/ StopList(p)
    <2>1. Kept
        BY <1>4 DEF StartRun, StartStop, Start, Raise, SecondInterrupt, Crash,
           Create, Verify, Survey, ReadNumber, AcquireOwner, RefuseOwner, MakeSessionDir,
           StartReturns, ReleaseOwner, FirstCheckpoint, SkipFirstCheckpoint, AdapterReturns,
           SaveFinal, Close, ReadBrokenChain, StopCheck, StopList, Prepare, Database
    <2> QED
        BY <2>1
<1> QED
    BY <1>1, <1>2, <1>3, <1>4 DEF Step, RunStep, StopStep

LEMMA IndexStep ==
    ASSUME TypeInv, IndexFollowsFiles, NEW p \in Processes, Step(p)
    PROVE  IndexFollowsFiles'
<1>1. DOMAIN chain = 1 .. Len(chain) /\ DOMAIN chain' = 1 .. Len(chain')
      /\ Len(chain) \in Nat /\ Len(chain') \in Nat
    BY TypeStep, LenProperties DEF TypeInv, TypeOK
<1>2. \A r \in rows' : r.sequence \in DOMAIN chain'
    BY IndexWrites, ChainGrows DEF IndexFollowsFiles
<1>3. experiment'.checkpoint \in 0 .. Len(chain')
    BY <1>1, IndexWrites, ChainGrows DEF IndexFollowsFiles
<1> QED
    BY <1>2, <1>3 DEF IndexFollowsFiles

\* No crash, exception or second process makes the database name a checkpoint
\* that is not on disk (service.py:322-347, final_stop_experiment).
THEOREM IndexHasFiles == Spec => []IndexFollowsFiles
<1>1. Init => IndexFollowsFiles
    BY EmptySeq DEF Init, IndexFollowsFiles
<1>2. TypeInv /\ IndexFollowsFiles /\ [Next]_vars => IndexFollowsFiles'
    <2>1. IndexFollowsFiles /\ UNCHANGED vars => IndexFollowsFiles'
        BY DEF IndexFollowsFiles, vars
    <2> QED
        BY <2>1, NextIsStep, IndexStep
<1> QED
    BY <1>1, <1>2, TypeInvariant, PTL DEF Spec

\* The directory of the session about to be inserted exists.
DirReady == \A p \in Processes : pc[p] = "row" => NextSessionNumber \in dirs

LEMMA SessionWrites ==
    ASSUME TypeInv, NEW p \in Processes, Step(p)
    PROVE  /\ dirs \subseteq dirs'
           /\ CreateSession(p) \/ Len(sessions') = Len(sessions)
           /\ pc'[p] = "row" => NextSessionNumber \in dirs' /\ ~CreateSession(p)
<1>1. CASE MakeSessionDir(p) \/ CreateSession(p)
    BY <1>1 DEF TypeInv, TypeOK, MakeSessionDir, CreateSession, Database, Files, GotoWith, Goto
<1>2. CASE ~(MakeSessionDir(p) \/ CreateSession(p))
    <2>1. pc'[p] # "row"
        BY <1>2 DEF TypeInv, TypeOK, Step, RunStep, StopStep, StartRun, StartStop, Start, Raise,
           SecondInterrupt, Crash,
           Create, Verify, Survey, ReadNumber, AcquireOwner, RefuseOwner, StartReturns,
           ReleaseOwner, FirstCheckpoint, SkipFirstCheckpoint, FirstReplace, FirstRecord,
           AdapterReturns, SaveFinal, ReplaceFinal, SetOutcome, RecordFinal, Finish, Close,
           ReadBrokenChain, ExceptFinish, ExceptSetState, StopCheck, StopList, StopReplace,
           StopSetState, StopRecord, Prepare, Replace, SetState, RecordCheckpoint,
           End, GotoWith, Goto
    <2>2. UNCHANGED dirs
        BY <1>2 DEF Step, RunStep, StopStep, StartRun, StartStop, Start, Raise, SecondInterrupt,
           Crash, Create, Verify, Survey, ReadNumber, AcquireOwner, RefuseOwner, StartReturns,
           ReleaseOwner, FirstCheckpoint, SkipFirstCheckpoint, FirstReplace, FirstRecord,
           AdapterReturns, SaveFinal, ReplaceFinal, SetOutcome, RecordFinal, Finish, Close,
           ReadBrokenChain, ExceptFinish, ExceptSetState, StopCheck, StopList, StopReplace,
           StopSetState, StopRecord, Prepare, Replace, SetState, RecordCheckpoint, Files
    <2>3. CASE Finish(p) \/ ExceptFinish(p) \/ AcquireOwner(p)
        <3>1. ErrorKinds \subseteq StopReasons /\ ErrorKinds \subseteq ValidStates
            BY DEF ErrorKinds, StopReasons, ValidStates, AdapterStates
        <3>2. Len(sessions') = Len(sessions)
            BY <2>3, <3>1, FinishTyped, CloseDeadTyped, LocalsTyped
               DEF Finish, ExceptFinish, AcquireOwner
        <3> QED
            BY <2>1, <2>2, <3>2
    <2>4. CASE ~(Finish(p) \/ ExceptFinish(p) \/ AcquireOwner(p))
        <3>1. UNCHANGED sessions
            BY <1>2, <2>4 DEF Step, RunStep, StopStep, StartRun, StartStop, Start, Raise,
               SecondInterrupt, Crash, Create, Verify, Survey, ReadNumber, RefuseOwner,
               StartReturns, ReleaseOwner, FirstCheckpoint, SkipFirstCheckpoint, FirstReplace,
               FirstRecord, AdapterReturns, SaveFinal, ReplaceFinal, SetOutcome, RecordFinal,
               Close, ReadBrokenChain, ExceptSetState, StopCheck, StopList, StopReplace,
               StopSetState, StopRecord, Prepare, Replace, SetState, RecordCheckpoint, Database
        <3> QED
            BY <2>1, <2>2, <3>1
    <2> QED
        BY <2>3, <2>4
<1> QED
    BY <1>1, <1>2

LEMMA DirsStep ==
    ASSUME TypeInv, SingleOwner, SessionsHaveDirs, DirReady, NEW p \in Processes, Step(p)
    PROVE  SessionsHaveDirs' /\ DirReady'
<1>1. /\ Len(sessions) \in Nat /\ DOMAIN sessions = 1 .. Len(sessions)
      /\ Len(sessions') \in Nat /\ DOMAIN sessions' = 1 .. Len(sessions')
    BY TypeStep, LenProperties DEF TypeInv, TypeOK
<1>2. CreateSession(p) => Len(sessions') = Len(sessions) + 1 /\ pc[p] = "row"
    BY AppendProperties DEF TypeInv, TypeOK, CreateSession, SessionStatus, ValidStates
<1>3. SessionsHaveDirs'
    <2>1. CASE CreateSession(p)
        <3>1. Len(sessions) + 1 \in dirs
            BY <1>2, <2>1 DEF DirReady, NextSessionNumber
        <3>2. DOMAIN sessions' = DOMAIN sessions \cup {Len(sessions) + 1}
            BY <1>1, <1>2, <2>1
        <3> QED
            BY <3>1, <3>2, SessionWrites DEF SessionsHaveDirs
    <2>2. CASE ~CreateSession(p)
        <3>1. DOMAIN sessions' = DOMAIN sessions
            BY <1>1, <2>2, SessionWrites
        <3> QED
            BY <3>1, SessionWrites DEF SessionsHaveDirs
    <2> QED
        BY <2>1, <2>2
<1>4. ASSUME NEW q \in Processes, pc'[q] = "row"
      PROVE  NextSessionNumber' \in dirs'
    <2>1. CASE q = p
        BY <1>4, <2>1, SessionWrites DEF NextSessionNumber
    <2>2. CASE q # p
        <3>1. pc[q] = "row" /\ owner.pid = q
            BY <1>4, <2>2, OthersKept DEF TypeInv, SingleOwner
        <3>2. ~CreateSession(p)
            BY <2>2, <3>1 DEF CreateSession, SingleOwner
        <3> QED
            BY <3>1, <3>2, SessionWrites DEF DirReady, NextSessionNumber
    <2> QED
        BY <2>1, <2>2
<1> QED
    BY <1>3, <1>4 DEF DirReady

\* Every session row has its evidence directory, whoever took over from whom
\* (sessions.py SessionManager.start).
THEOREM SessionsAreOnDisk == Spec => []SessionsHaveDirs
<1>1. Init => SessionsHaveDirs /\ DirReady
    <2>1. << >> \in Seq({}) /\ Len(<< >>) = 0
        BY EmptySeq
    <2>2. DOMAIN << >> = 1 .. 0
        BY <2>1, LenProperties
    <2> QED
        BY <2>2 DEF Init, SessionsHaveDirs, DirReady
<1>2. TypeInv /\ SingleOwner /\ SessionsHaveDirs /\ DirReady /\ [Next]_vars
          => SessionsHaveDirs' /\ DirReady'
    <2>1. SessionsHaveDirs /\ DirReady /\ UNCHANGED vars => SessionsHaveDirs' /\ DirReady'
        BY DEF SessionsHaveDirs, DirReady, NextSessionNumber, vars
    <2> QED
        BY <2>1, NextIsStep, DirsStep
<1> QED
    BY <1>1, <1>2, SingleOwnerInvariant, PTL DEF Spec

-----------------------------------------------------------------------------
(***************************************************************************)
(* Runs alone implement ExclusiveWorkspace.  final_stop_experiment writes  *)
(* without ownership, so this is stated for an empty set of Stoppers.      *)
(***************************************************************************)
Contents == <<experiment, sessions, rows, dirs, chain>>

Outside(p) ==
    /\ pc[p] \notin Owned \cup {"dead"}
    /\ pc'[p] \notin Owned
    /\ UNCHANGED <<owner, Contents>>

Inside(p) == pc[p] \in Owned /\ pc'[p] \in Owned /\ UNCHANGED owner

Dies(p) == pc[p] \in Owned /\ pc'[p] = "dead" /\ UNCHANGED <<owner, Contents>>

NobodyStops == \A p \in Processes : pc[p] \notin Stopping

\* The owner on record works, or died working: it never left the row behind.
OwnerWorks == \A p \in Processes : owner.pid = p => pc[p] \in Owned \cup {"dead"}

LEMMA StepKinds ==
    ASSUME TypeOK, NobodyStops, Stoppers = {}, NEW p \in Processes, Step(p)
    PROVE  /\ Outside(p) \/ AcquireOwner(p) \/ Inside(p) \/ ReleaseOwner(p) \/ Dies(p)
           /\ pc'[p] \notin Stopping
<1> USE DEF Outside, Inside, Dies, Contents, Database, Files
<1>1. CASE StartRun(p) \/ StartStop(p) \/ Create(p) \/ Verify(p) \/ Survey(p) \/ ReadNumber(p)
           \/ RefuseOwner(p)
    <2>1. CASE StartRun(p) \/ StartStop(p)
        BY <2>1 DEF TypeOK, StartRun, StartStop, Start, Goto
    <2>2. CASE Create(p) \/ Verify(p) \/ Survey(p)
        BY <2>2 DEF TypeOK, Create, Verify, Survey, End, GotoWith, Goto
    <2>3. CASE ReadNumber(p) \/ RefuseOwner(p)
        BY <2>3 DEF TypeOK, ReadNumber, RefuseOwner, End, GotoWith, Goto
    <2> QED
        BY <1>1, <2>1, <2>2, <2>3
<1>2. CASE AcquireOwner(p) \/ ReleaseOwner(p)
    BY <1>2 DEF TypeOK, AcquireOwner, ReleaseOwner, End, GotoWith, Goto
<1>3. CASE MakeSessionDir(p) \/ CreateSession(p) \/ StartReturns(p) \/ FirstCheckpoint(p)
           \/ SkipFirstCheckpoint(p) \/ FirstReplace(p) \/ FirstRecord(p) \/ AdapterReturns(p)
    BY <1>3, ZenonT(30) DEF TypeOK, MakeSessionDir, CreateSession, StartReturns, FirstCheckpoint,
       SkipFirstCheckpoint, FirstReplace, FirstRecord, AdapterReturns, Prepare, Replace,
       RecordCheckpoint, GotoWith, Goto
<1>4. CASE SaveFinal(p) \/ ReplaceFinal(p) \/ SetOutcome(p) \/ RecordFinal(p) \/ Finish(p)
           \/ Close(p) \/ ReadBrokenChain(p) \/ ExceptFinish(p) \/ ExceptSetState(p)
    BY <1>4, ZenonT(30) DEF TypeOK, SaveFinal, ReplaceFinal, SetOutcome, RecordFinal, Finish, Close,
       ReadBrokenChain, ExceptFinish, ExceptSetState, Prepare, Replace, SetState,
       RecordCheckpoint, GotoWith, Goto
<1>5. CASE Raise(p) \/ SecondInterrupt(p) \/ Crash(p)
    BY <1>5 DEF TypeOK, NobodyStops, Raise, SecondInterrupt, Crash, GotoWith, Goto
<1>6. CASE StopStep(p)
    BY <1>6 DEF NobodyStops, StopStep, StopCheck, StopList, StopReplace, StopSetState, StopRecord
<1> QED
    BY <1>1, <1>2, <1>3, <1>4, <1>5, <1>6 DEF Step, RunStep

\* A step of another process leaves the contents of an owner alone.
LEMMA OthersStayOutside ==
    ASSUME TypeInv, SingleOwner, NobodyStops, Stoppers = {},
           NEW p \in Processes, Step(p), NEW q \in Processes, q # p, pc[q] \in Owned
    PROVE  Outside(p)
<1>1. owner.pid = q /\ Alive(q)
    BY DEF SingleOwner, Alive
<1>2. pc[p] \notin Owned /\ ~AcquireOwner(p)
    BY <1>1 DEF SingleOwner, AcquireOwner
<1> QED
    BY <1>2, StepKinds DEF TypeInv, Inside, Dies, ReleaseOwner

HoldInv == TypeInv /\ SingleOwner /\ NobodyStops /\ OwnerWorks

LEMMA HoldStep ==
    ASSUME HoldInv, Stoppers = {}, NEW p \in Processes, Step(p)
    PROVE  HoldInv'
<1> USE DEF HoldInv
<1>1. TypeInv' /\ SingleOwner'
    BY TypeStep, SingleOwnerStep DEF TypeInv
<1>2. NobodyStops'
    BY OthersKept, StepKinds DEF TypeInv, NobodyStops
<1>3. ASSUME NEW q \in Processes, owner'.pid = q
      PROVE  pc'[q] \in Owned \cup {"dead"}
    <2>1. CASE Outside(p)
        BY <1>3, <2>1, OthersKept DEF TypeInv, OwnerWorks, Outside
    <2>2. CASE AcquireOwner(p)
        BY <1>3, <2>2 DEF TypeInv, TypeOK, AcquireOwner, Goto
    <2>3. CASE Inside(p) \/ Dies(p)
        <3>1. owner.pid = p
            BY <2>3 DEF Inside, Dies, SingleOwner
        <3> QED
            BY <1>3, <2>3, <3>1 DEF Inside, Dies
    <2>4. CASE ReleaseOwner(p)
        <3>1. owner' = NoOwner
            BY <2>4 DEF ReleaseOwner, SingleOwner
        <3> QED
            BY <1>3, <3>1, ProcessAssumption DEF NoOwner
    <2> QED
        BY <2>1, <2>2, <2>3, <2>4, StepKinds DEF TypeInv
<1> QED
    BY <1>1, <1>2, <1>3 DEF OwnerWorks

LEMMA HoldInvariant == Stoppers = {} => (Spec => []HoldInv)
<1> SUFFICES ASSUME Stoppers = {} PROVE Spec => []HoldInv
    OBVIOUS
<1>1. Init => HoldInv
    BY TypeInit, ProcessAssumption DEF Init, HoldInv, SingleOwner, NobodyStops, OwnerWorks, NoOwner
<1>2. HoldInv /\ [Next]_vars => HoldInv'
    <2>1. HoldInv /\ UNCHANGED vars => HoldInv'
        BY TypeStutter DEF HoldInv, SingleOwner, NobodyStops, OwnerWorks, vars
    <2> QED
        BY <2>1, NextIsStep, HoldStep
<1> QED
    BY <1>1, <1>2, PTL DEF Spec

LEMMA HolderStep ==
    ASSUME HoldInv, Stoppers = {}, NEW p \in Processes, Step(p)
    PROVE  \/ Exclusive!Next
           \/ UNCHANGED <<Holder, Contents>>
<1> USE DEF HoldInv
<1>0. NoProcess \notin Processes /\ pc' \in [Processes -> ControlPoints]
    BY ProcessAssumption, HoldStep DEF TypeInv, TypeOK
<1>1. CASE Outside(p)
    <2>1. owner.pid # p
        BY <1>1 DEF OwnerWorks, Outside
    <2>2. owner.pid \in Processes => pc'[owner.pid] = pc[owner.pid]
        BY <2>1, OthersKept DEF TypeInv
    <2>3. UNCHANGED Holder
        BY <1>1, <2>2 DEF Outside, Holder, Alive
    <2> QED
        BY <1>1, <2>3 DEF Outside
<1>2. CASE AcquireOwner(p)
    <2>1. Holder = NoProcess
        BY <1>2 DEF AcquireOwner, Holder
    <2>2. Holder' = p
        BY <1>2 DEF TypeInv, TypeOK, AcquireOwner, Goto, Holder, Alive
    <2> QED
        BY <2>1, <2>2 DEF Exclusive!Next, Exclusive!Take
<1>3. CASE Inside(p)
    <2>1. Holder = p /\ Holder' = p
        BY <1>3 DEF Inside, SingleOwner, Holder, Alive
    <2> QED
        BY <2>1 DEF Exclusive!Next, Exclusive!Write
<1>4. CASE ReleaseOwner(p)
    <2>1. Holder = p /\ owner' = NoOwner
        BY <1>4 DEF ReleaseOwner, SingleOwner, Holder, Alive
    <2>2. Holder' = NoProcess
        BY <1>0, <2>1 DEF NoOwner, Holder, Alive
    <2>3. UNCHANGED Contents
        BY <1>4 DEF ReleaseOwner, Contents, Files
    <2> QED
        BY <2>1, <2>2, <2>3 DEF Exclusive!Next, Exclusive!Leave, Contents
<1>5. CASE Dies(p)
    <2>1. Holder = p /\ Holder' = NoProcess
        BY <1>5 DEF Dies, SingleOwner, Holder, Alive
    <2> QED
        BY <1>5, <2>1 DEF Dies, Exclusive!Next, Exclusive!Leave, Contents
<1> QED
    BY <1>1, <1>2, <1>3, <1>4, <1>5, StepKinds DEF TypeInv

\* Runs implement the exclusive workspace: between taking it and leaving or
\* dying, one run alone changes the experiment, its sessions, its index and its
\* files, and nobody changes them in between.
THEOREM RunsAreExclusive == Stoppers = {} => (Spec => ImplementsExclusive)
<1> SUFFICES ASSUME Stoppers = {} PROVE Spec => ImplementsExclusive
    OBVIOUS
<1>1. Init => Exclusive!Init
    BY ProcessAssumption DEF Init, Exclusive!Init, Holder, Alive, NoOwner
<1>2. HoldInv /\ [Next]_vars => [Exclusive!Next]_<<Holder, Contents>>
    <2>1. UNCHANGED vars => UNCHANGED <<Holder, Contents>>
        BY DEF vars, Holder, Alive, Contents
    <2> QED
        BY <2>1, NextIsStep, HolderStep
<1> QED
    BY <1>1, <1>2, HoldInvariant, PTL DEF Spec, ImplementsExclusive, Exclusive!Spec, Contents

-----------------------------------------------------------------------------
(***************************************************************************)
(* The row under a live search.                                            *)
(***************************************************************************)
Searching == {"first", "firstReplace", "firstRecord", "adapter"}

CurrentIsRunning ==
    /\ experiment.state = "running"
    /\ experiment.session \in DOMAIN sessions
    /\ sessions[experiment.session].status = "running"

SearchInv ==
    \A p \in Processes :
        /\ pc[p] \in {"files"} \cup Searching => CurrentIsRunning
        /\ pc[p] \in Searching => local[p].session = experiment.session

LEMMA CurrentKept ==
    ASSUME CurrentIsRunning, UNCHANGED sessions, NEW c, TypeInv,
           UNCHANGED experiment \/ experiment' = [experiment EXCEPT !.checkpoint = c]
    PROVE  CurrentIsRunning' /\ experiment'.session = experiment.session
<1> experiment \in [state: ValidStates, reason: StopReasons, session: Nat, checkpoint: Nat]
    BY DEF TypeInv, TypeOK
<1> QED
    BY DEF CurrentIsRunning

LEMMA SearchEntered ==
    ASSUME TypeInv, NEW p \in Processes, Step(p), pc'[p] \in {"files"} \cup Searching
    PROVE  \/ CreateSession(p) \/ StartReturns(p) \/ FirstCheckpoint(p)
           \/ SkipFirstCheckpoint(p) \/ FirstReplace(p) \/ FirstRecord(p)
<1> USE DEF Searching
<1>1. pc' \in [Processes -> ControlPoints] /\ pc \in [Processes -> ControlPoints]
    BY TypeStep DEF TypeInv, TypeOK
<1>2. ~(StartRun(p) \/ StartStop(p) \/ Create(p) \/ Verify(p) \/ Survey(p) \/ ReadNumber(p)
        \/ AcquireOwner(p) \/ RefuseOwner(p) \/ MakeSessionDir(p) \/ ReleaseOwner(p))
    BY <1>1 DEF StartRun, StartStop, Start, Create, Verify, Survey, ReadNumber, AcquireOwner,
       RefuseOwner, MakeSessionDir, ReleaseOwner, End, GotoWith, Goto
<1>3. ~(AdapterReturns(p) \/ SaveFinal(p) \/ ReplaceFinal(p) \/ SetOutcome(p) \/ RecordFinal(p)
        \/ Finish(p) \/ Close(p) \/ ReadBrokenChain(p) \/ ExceptFinish(p) \/ ExceptSetState(p))
    BY <1>1 DEF AdapterReturns, SaveFinal, ReplaceFinal, SetOutcome, RecordFinal, Finish, Close,
       ReadBrokenChain, ExceptFinish, ExceptSetState, Prepare, Replace, SetState,
       RecordCheckpoint, GotoWith, Goto
<1>4. ~(Raise(p) \/ SecondInterrupt(p) \/ Crash(p) \/ StopStep(p))
    BY <1>1 DEF Raise, SecondInterrupt, Crash, StopStep, StopCheck, StopList, StopReplace,
       StopSetState, StopRecord, End, Prepare, Replace, SetState, RecordCheckpoint, GotoWith, Goto
<1> QED
    BY <1>2, <1>3, <1>4 DEF Step, RunStep

LEMMA SearchOwnStep ==
    ASSUME TypeInv, SearchInv, NEW p \in Processes, Step(p), pc'[p] \in {"files"} \cup Searching
    PROVE  /\ CurrentIsRunning'
           /\ pc'[p] \in Searching => local'[p].session = experiment'.session
<1> USE DEF Searching
<1>0. local[p] \in Local /\ Len(sessions) \in Nat
    BY LenProperties DEF TypeInv, TypeOK
<1>1. CASE CreateSession(p)
    <2> DEFINE row == [status |-> "running", finishes |-> 0]
    <2>1. row \in [status: SessionStatus, finishes: Nat]
        BY DEF SessionStatus, ValidStates
    <2>2. /\ sessions' = Append(sessions, row)
          /\ Len(sessions') = Len(sessions) + 1 /\ sessions'[Len(sessions) + 1] = row
          /\ sessions' \in Seq([status: SessionStatus, finishes: Nat])
        BY <1>1, <2>1, AppendProperties DEF TypeInv, TypeOK, CreateSession
    <2>3. DOMAIN sessions' = 1 .. Len(sessions')
        BY <2>2, LenProperties
    <2>4. experiment'.state = "running" /\ experiment'.session = Len(sessions) + 1
        BY <1>1 DEF TypeInv, TypeOK, CreateSession, NextSessionNumber
    <2>5. pc'[p] = "files"
        BY <1>1 DEF TypeInv, TypeOK, CreateSession, Goto
    <2> QED
        BY <1>0, <2>2, <2>3, <2>4, <2>5 DEF CurrentIsRunning
<1>2. CASE StartReturns(p)
    <2>1. CurrentIsRunning' /\ experiment' = experiment
        BY <1>2 DEF StartReturns, SearchInv, CurrentIsRunning, Database
    <2>2. local'[p].session = experiment.session
        BY <1>0, <1>2 DEF TypeInv, TypeOK, Local, StartReturns, GotoWith
    <2> QED
        BY <2>1, <2>2
<1>3. CASE FirstCheckpoint(p)
    <2>1. CurrentIsRunning' /\ experiment' = experiment
        BY <1>3 DEF FirstCheckpoint, Prepare, SearchInv, CurrentIsRunning, Database
    <2>2. PICK a, b : local' = [local EXCEPT ![p] = [local[p] EXCEPT !.sequence = a, !.previous = b]]
        BY <1>3 DEF FirstCheckpoint, Prepare, GotoWith
    <2>3. [local[p] EXCEPT !.sequence = a, !.previous = b].session = local[p].session
        BY <1>0 DEF Local
    <2>4. local'[p].session = local[p].session
        BY <2>2, <2>3 DEF TypeInv, TypeOK
    <2> QED
        BY <1>3, <2>1, <2>4 DEF FirstCheckpoint, SearchInv
<1>4. CASE SkipFirstCheckpoint(p) \/ FirstReplace(p)
    BY <1>4 DEF SkipFirstCheckpoint, FirstReplace, Replace, SearchInv, CurrentIsRunning, Database
<1>5. CASE FirstRecord(p)
    <2>1. CurrentIsRunning /\ UNCHANGED sessions
          /\ experiment' = [experiment EXCEPT !.checkpoint = local[p].sequence]
        BY <1>5 DEF FirstRecord, RecordCheckpoint, SearchInv
    <2>2. local'[p] = local[p]
        BY <1>5 DEF TypeInv, TypeOK, FirstRecord, RecordCheckpoint, GotoWith
    <2> QED
        BY <1>5, <2>1, <2>2, CurrentKept DEF FirstRecord, SearchInv
<1> QED
    BY <1>1, <1>2, <1>3, <1>4, <1>5, SearchEntered

LEMMA SearchStep ==
    ASSUME HoldInv, SearchInv, Stoppers = {}, NEW p \in Processes, Step(p)
    PROVE  SearchInv'
<1>1. SUFFICES ASSUME NEW q \in Processes, pc'[q] \in {"files"} \cup Searching
               PROVE  /\ CurrentIsRunning'
                      /\ pc'[q] \in Searching => local'[q].session = experiment'.session
    BY DEF SearchInv, Searching
<1>2. CASE q = p
    BY <1>1, <1>2, SearchOwnStep DEF HoldInv
<1>3. CASE q # p
    <2>1. pc'[q] = pc[q] /\ local'[q] = local[q]
        BY <1>3, OthersKept DEF HoldInv, TypeInv
    <2>2. Outside(p)
        BY <1>1, <1>3, <2>1, OthersStayOutside DEF HoldInv, Searching
    <2> QED
        BY <1>1, <2>1, <2>2 DEF SearchInv, CurrentIsRunning, Outside, Contents
<1> QED
    BY <1>2, <1>3

\* While a run searches, its own session is the current one and is open:
\* where no final stop runs, nobody resets the row under it
\* (service.py:222-321, sessions.py start).
THEOREM SearchRunsOpen == Stoppers = {} => (Spec => []AdapterRunsAsRunning)
<1> SUFFICES ASSUME Stoppers = {} PROVE Spec => []AdapterRunsAsRunning
    OBVIOUS
<1>1. Init => SearchInv
    BY DEF Init, SearchInv, Searching
<1>2. HoldInv /\ SearchInv /\ [Next]_vars => SearchInv'
    <2>1. SearchInv /\ UNCHANGED vars => SearchInv'
        BY DEF SearchInv, CurrentIsRunning, vars
    <2> QED
        BY <2>1, NextIsStep, SearchStep
<1>3. SearchInv => AdapterRunsAsRunning
    BY DEF SearchInv, Searching, CurrentIsRunning, AdapterRunsAsRunning
<1> QED
    BY <1>1, <1>2, <1>3, HoldInvariant, PTL DEF Spec

-----------------------------------------------------------------------------
(***************************************************************************)
(* One process after another.  While the operator starts a process only    *)
(* when the last one has ended, a step is that of the only live process,   *)
(* so what it read is what it writes over.                                 *)
(***************************************************************************)
OneAlive == \A p, q \in Processes : Alive(p) /\ Alive(q) => p = q

LEMMA StepsOfTheLive ==
    ASSUME TypeOK, NEW p \in Processes, Step(p)
    PROVE  Alive(p) \/ \E there \in {"verify", "create", "check"} : Start(p, there)
<1> USE DEF Alive
<1>1. CASE StartRun(p) \/ StartStop(p)
    BY <1>1 DEF StartRun, StartStop
<1>2. CASE Raise(p) \/ SecondInterrupt(p) \/ Crash(p) \/ StopStep(p)
    BY <1>2 DEF Raise, SecondInterrupt, Crash, StopStep, StopCheck, StopList, StopReplace,
       StopSetState, StopRecord
<1>3. CASE RunStep(p)
    BY <1>3 DEF RunStep, Create, Verify, Survey, ReadNumber, AcquireOwner, RefuseOwner,
       MakeSessionDir, CreateSession, StartReturns, FirstCheckpoint, SkipFirstCheckpoint,
       FirstReplace, FirstRecord, AdapterReturns, SaveFinal, ReplaceFinal, SetOutcome,
       RecordFinal, Finish, Close, ReleaseOwner, ReadBrokenChain, ExceptFinish, ExceptSetState
<1> QED
    BY <1>1, <1>2, <1>3 DEF Step

LEMMA OthersAreNotAlive ==
    ASSUME TypeInv, OneAlive, ~Overlap, NEW p \in Processes, Step(p), NEW q \in Processes, q # p
    PROVE  ~Alive(q) /\ ~Alive(q)'
<1>1. ~Alive(q)
    BY StepsOfTheLive DEF TypeInv, OneAlive, Start
<1> QED
    BY <1>1, OthersKept DEF TypeInv, Alive

LEMMA OneAliveStep ==
    ASSUME TypeInv, OneAlive, ~Overlap, NEW p \in Processes, Step(p)
    PROVE  OneAlive'
BY OthersAreNotAlive DEF OneAlive

(***************************************************************************)
(* Final states.  A terminal state is met by a process that has not looked *)
(* at it yet, or was written by the one that is on its way out.  What that *)
(* one still does cannot fail: an exception there would let the handler    *)
(* write its own state over the outcome.                                   *)
(***************************************************************************)
NotLooked == {"create", "verify", "survey", "check"}
Ending == {"record", "finish", "close"}

LetsStand(p) ==
    \/ pc[p] \in NotLooked \cup {"release", "stopRecord"}
    \/ /\ pc[p] \in Ending
       /\ local[p].outcome = experiment.state /\ local[p].reason = experiment.reason

TerminalHeld ==
    experiment.state \in TerminalStates => \A p \in Processes : Alive(p) => LetsStand(p)

LEMMA StateField ==
    ASSUME TypeInv, NEW a, NEW b, NEW c
    PROVE  /\ [experiment EXCEPT !.state = a, !.reason = b].state = a
           /\ [experiment EXCEPT !.state = a, !.reason = b].reason = b
           /\ [experiment EXCEPT !.state = a, !.reason = b, !.session = c].state = a
           /\ [experiment EXCEPT !.state = a, !.reason = b, !.checkpoint = c].state = a
           /\ [experiment EXCEPT !.state = a, !.reason = b, !.checkpoint = c].reason = b
           /\ [experiment EXCEPT !.checkpoint = c].state = experiment.state
           /\ [experiment EXCEPT !.checkpoint = c].reason = experiment.reason
<1> experiment \in [state: ValidStates, reason: StopReasons, session: Nat, checkpoint: Nat]
    BY DEF TypeInv, TypeOK
<1> QED
    OBVIOUS

LEMMA FinishState ==
    ASSUME TypeInv, NEW n, NEW a, NEW b, FinishSession(n, a, b)
    PROVE  \/ experiment' = experiment
           \/ experiment'.state = a /\ experiment'.reason = b
<1>1. experiment' = experiment \/ experiment' = [experiment EXCEPT !.state = a, !.reason = b]
    BY DEF FinishSession
<1>2. CASE experiment' = [experiment EXCEPT !.state = a, !.reason = b]
    BY <1>2, StateField
<1> QED
    BY <1>1, <1>2

TerminalKept ==
    experiment.state \in TerminalStates =>
        experiment'.state = experiment.state /\ experiment'.reason = experiment.reason

LEMMA TerminalOwnStep ==
    ASSUME TypeInv, TerminalHeld, RaiseAt \cap Ending = {}, NEW p \in Processes, Step(p)
    PROVE  /\ TerminalKept
           /\ experiment'.state \in TerminalStates /\ Alive(p)' => LetsStand(p)'
<1> USE DEF LetsStand, NotLooked, Ending, TerminalKept, Alive, Database
<1>0. /\ pc \in [Processes -> ControlPoints] /\ local \in [Processes -> Local]
      /\ pc' \in [Processes -> ControlPoints]
      /\ TerminalStates = {"exhausted", "completed"}
      /\ experiment.state \in TerminalStates /\ pc[p] \in Live => LetsStand(p)
    BY TypeStep DEF TypeInv, TypeOK, TerminalHeld, TerminalStates
<1> HIDE DEF LetsStand
<1>1. CASE StartRun(p) \/ StartStop(p)
    BY <1>0, <1>1 DEF StartRun, StartStop, Start, Goto, LetsStand
<1>2. CASE Create(p) \/ Verify(p) \/ Survey(p) \/ StopCheck(p)
    BY <1>0, <1>2 DEF Create, Verify, Survey, StopCheck, End, GotoWith, Goto, LetsStand
<1>3. CASE ReadNumber(p) \/ AcquireOwner(p) \/ RefuseOwner(p) \/ MakeSessionDir(p)
           \/ StartReturns(p) \/ FirstCheckpoint(p) \/ SkipFirstCheckpoint(p) \/ FirstReplace(p)
           \/ AdapterReturns(p) \/ SaveFinal(p) \/ ReplaceFinal(p)
           \/ ReadBrokenChain(p) \/ StopList(p) \/ StopReplace(p) \/ SecondInterrupt(p)
    <2>1. UNCHANGED experiment /\ pc[p] \notin NotLooked \cup Ending \cup {"release", "stopRecord"}
        BY <1>3 DEF ReadNumber, AcquireOwner, RefuseOwner, MakeSessionDir, StartReturns,
           FirstCheckpoint, SkipFirstCheckpoint, FirstReplace, AdapterReturns, SaveFinal,
           ReplaceFinal, ReadBrokenChain, StopList, StopReplace, SecondInterrupt, Prepare, Replace
    <2>2. pc[p] \in Live
        BY <1>3 DEF ReadNumber, AcquireOwner, RefuseOwner, MakeSessionDir, StartReturns,
           FirstCheckpoint, SkipFirstCheckpoint, FirstReplace, AdapterReturns, SaveFinal,
           ReplaceFinal, ReadBrokenChain, StopList, StopReplace, SecondInterrupt
    <2> QED
        BY <1>0, <2>1, <2>2 DEF LetsStand
<1>4. CASE FirstRecord(p) \/ RecordFinal(p) \/ StopRecord(p)
    <2>1. PICK there \in {"adapter", "finish", "done"} :
              /\ RecordCheckpoint(p, there)
              /\ \/ pc[p] = "firstRecord" /\ there = "adapter"
                 \/ pc[p] = "record" /\ there = "finish"
                 \/ pc[p] = "stopRecord" /\ there = "done"
        BY <1>4 DEF FirstRecord, RecordFinal, StopRecord
    <2>2. experiment'.state = experiment.state /\ experiment'.reason = experiment.reason
        BY <2>1, StateField DEF RecordCheckpoint
    <2>3. pc'[p] = there /\ (there # "done" => local'[p] = local[p])
        BY <1>0, <2>1 DEF RecordCheckpoint, GotoWith, Goto
    <2> QED
        BY <1>0, <2>1, <2>2, <2>3 DEF LetsStand
<1>5. CASE SetOutcome(p)
    <2>1. /\ experiment'.state = local[p].outcome /\ experiment'.reason = local[p].reason
          /\ UNCHANGED local /\ pc'[p] = "record"
        BY <1>0, <1>5, StateField DEF SetOutcome, SetState, Goto
    <2> QED
        BY <1>0, <1>5, <2>1 DEF SetOutcome, LetsStand
<1>6. CASE StopSetState(p) \/ ExceptSetState(p)
    <2>1. pc[p] \in {"stopSet", "exceptSet"} /\ pc'[p] \in {"stopRecord", "release"}
        BY <1>0, <1>6 DEF StopSetState, ExceptSetState, SetState, Goto
    <2> QED
        BY <1>0, <2>1 DEF LetsStand
<1>7. CASE CreateSession(p)
    <2>1. experiment'.state = "running" /\ pc[p] = "row"
        BY <1>7, StateField DEF CreateSession
    <2> QED
        BY <1>0, <2>1 DEF LetsStand
<1>8. CASE Finish(p)
    <2>1. \/ experiment' = experiment
          \/ experiment'.state = local[p].outcome /\ experiment'.reason = local[p].reason
        BY <1>8, FinishState DEF Finish
    <2>2. UNCHANGED local /\ pc[p] = "finish" /\ pc'[p] = "close"
        BY <1>0, <1>8 DEF Finish, Goto
    <2> QED
        BY <1>0, <2>1, <2>2 DEF LetsStand
<1>9. CASE ExceptFinish(p)
    <2>1. local[p].error \notin TerminalStates
        BY <1>0 DEF Local, ErrorKinds
    <2>2. experiment' = experiment \/ experiment'.state = local[p].error
        BY <1>9, FinishState DEF ExceptFinish
    <2> QED
        BY <1>0, <1>9, <2>1, <2>2 DEF ExceptFinish, LetsStand
<1>10. CASE Close(p) \/ ReleaseOwner(p) \/ Crash(p)
    BY <1>0, <1>10 DEF Close, ReleaseOwner, Crash, End, GotoWith, Goto, LetsStand
<1>11. CASE Raise(p)
    BY <1>0, <1>11 DEF Raise, LetsStand
<1> QED
    BY <1>1, <1>2, <1>3, <1>4, <1>5, <1>6, <1>7, <1>8, <1>9, <1>10, <1>11
       DEF Step, RunStep, StopStep

LEMMA TerminalStep ==
    ASSUME TypeInv, OneAlive, TerminalHeld, ~Overlap, RaiseAt \cap Ending = {},
           NEW p \in Processes, Step(p)
    PROVE  TerminalHeld' /\ TerminalKept
<1>1. ASSUME experiment'.state \in TerminalStates, NEW q \in Processes, Alive(q)'
      PROVE  LetsStand(q)'
    BY <1>1, OthersAreNotAlive, TerminalOwnStep
<1> QED
    BY <1>1, TerminalOwnStep DEF TerminalHeld

\* A completed or exhausted experiment keeps its state and its reason: for one
\* process at a time, and as long as nothing raises between the outcome in the
\* database and the end of the try block (service.py:345-386).
THEOREM FinalStateStays ==
    ~Overlap /\ RaiseAt \cap Ending = {} => (Spec => TerminalIsFinal)
<1> SUFFICES ASSUME ~Overlap, RaiseAt \cap Ending = {} PROVE Spec => TerminalIsFinal
    OBVIOUS
<1> DEFINE TInv == OneAlive /\ TerminalHeld
<1>1. Init => TInv
    BY DEF Init, OneAlive, TerminalHeld, TerminalStates, Alive
<1>2. TypeInv /\ TInv /\ [Next]_vars => TInv'
    <2>1. TInv /\ UNCHANGED vars => TInv'
        BY DEF OneAlive, TerminalHeld, LetsStand, Alive, vars
    <2> QED
        BY <2>1, NextIsStep, OneAliveStep, TerminalStep
<1>3. TypeInv /\ TInv /\ [Next]_vars =>
          [experiment.state \in TerminalStates =>
              /\ experiment'.state = experiment.state
              /\ experiment'.reason = experiment.reason]_experiment
    BY NextIsStep, TerminalStep DEF TerminalKept, vars
<1> QED
    BY <1>1, <1>2, <1>3, TypeInvariant, PTL DEF Spec, TerminalIsFinal

-----------------------------------------------------------------------------
(***************************************************************************)
(* A workspace at rest.  A death or an exception between a directory or a  *)
(* file and the row that names it leaves what the next run refuses; these  *)
(* are the points of Unindexed.  An exception in "files" or in the handler *)
(* itself leaves the session row open behind a released owner.             *)
(***************************************************************************)
Unindexed == {"row"} \cup Replaced

KilledBetween ==
    /\ ~Overlap
    /\ CrashAt \cap Unindexed = {}
    /\ RaiseAt \cap (Unindexed \cup {"files", "except"}) = {}

\* The index is behind the files only between a replacement and its row, and
\* what a process read of the chain is still the chain.
ChainHeld ==
    /\ ChainIntact
    /\ \A p \in Processes :
        /\ pc[p] \in Replacing => local[p].sequence = Len(chain) + 1 /\ local[p].previous = LastWriter
        /\ pc[p] \in Replaced => local[p].sequence = Len(chain) /\ LastWriter = p
    /\ (\A p \in Processes : pc[p] \notin Replaced) => IndexesAgree

\* A directory is ahead of the session rows only between mkdir and its row.
DirsHeld ==
    \A n \in dirs :
        \/ n <= Len(sessions)
        \/ n = Len(sessions) + 1 /\ \E p \in Processes : pc[p] = "row"

NoneOpen == \A n \in DOMAIN sessions : sessions[n].status # "running"
Known(n) == n \in DOMAIN sessions
HasSession == {"first", "firstReplace", "firstRecord", "adapter", "save", "replace", "set",
               "record", "finish", "close"}

\* A process knows its session by the number it read.
SessionOf(p) ==
    /\ local[p].outcome # "running"
    /\ pc[p] \in {"off", "mkdir", "row", "files"} \cup BeforeOwning => local[p].session = 0
    /\ pc[p] \in {"acquire", "mkdir", "row"} => local[p].number = Len(sessions) + 1
    /\ pc[p] \in {"mkdir", "row", "close", "exceptSet", "release"} => NoneOpen
    /\ pc[p] = "files" => experiment.session = local[p].number /\ Known(local[p].number)
    /\ pc[p] \in HasSession => local[p].session = local[p].number /\ Known(local[p].number)
    /\ pc[p] = "except" =>
        IF local[p].session = 0
        THEN NoneOpen
        ELSE local[p].session = local[p].number /\ Known(local[p].number)

\* An open session is that of the owner on record.
SessionsHeld ==
    /\ \A n \in DOMAIN sessions : sessions[n].status = "running" => owner.session = n
    /\ \A p \in Processes : SessionOf(p)

\* The chain: what a process writes extends it.
LEMMA ReplaceAppends ==
    ASSUME TypeInv, NEW p \in Processes, NEW there, NEW state, Replace(p, state, there),
           local[p].sequence = Len(chain) + 1
    PROVE  /\ chain' = [i \in 1 .. Len(chain) + 1 |->
                          IF i = Len(chain) + 1
                          THEN [by |-> p, state |-> state, previous |-> local[p].previous]
                          ELSE chain[i]]
           /\ UNCHANGED rows /\ UNCHANGED local
<1>1. Len(chain) \in Nat
    BY LenProperties DEF TypeInv, TypeOK
<1> QED
    BY <1>1 DEF Replace, Database

LEMMA ReplaceKeepsChain ==
    ASSUME TypeInv, ChainIntact, NEW p \in Processes, NEW there, NEW state,
           Replace(p, state, there), TypeInv',
           local[p].sequence = Len(chain) + 1, local[p].previous = LastWriter
    PROVE  ChainIntact' /\ LastWriter' = p /\ Len(chain') = Len(chain) + 1
<1> DEFINE file == [by |-> p, state |-> state, previous |-> local[p].previous]
<1>1. PICK n \in Nat : n = Len(chain) /\ DOMAIN chain = 1 .. n
    BY LenProperties DEF TypeInv, TypeOK
<1>2. chain' = [i \in 1 .. n + 1 |-> IF i = n + 1 THEN file ELSE chain[i]]
    BY <1>1, ReplaceAppends
<1>3. Len(chain') = n + 1 /\ DOMAIN chain' = 1 .. n + 1
    <2>1. Len(chain') \in Nat /\ DOMAIN chain' = 1 .. Len(chain')
        BY LenProperties DEF TypeInv, TypeOK
    <2>2. DOMAIN chain' = 1 .. n + 1
        BY <1>2
    <2>3. PICK m \in Nat : m = Len(chain') /\ 1 .. m = 1 .. n + 1
        BY <2>1, <2>2
    <2>4. m = n + 1
        <3>1. n + 1 \in 1 .. m /\ (m # 0 => m \in 1 .. n + 1)
            BY <1>1, <2>3
        <3> QED
            BY <1>1, <3>1
    <2> QED
        BY <2>2, <2>3, <2>4
<1>4. file.by = p /\ file.previous = LastWriter
    OBVIOUS
<1> HIDE DEF file
<1>5. LastWriter' = p
    <2>1. chain' # <<>>
        BY <1>1, <1>3
    <2>2. chain'[n + 1] = file
        BY <1>1, <1>2
    <2> QED
        BY <1>3, <1>4, <2>1, <2>2 DEF LastWriter
<1>6. ASSUME NEW i \in 1 .. n + 1
      PROVE  chain'[i].previous = IF i = 1 THEN NoProcess ELSE chain'[i - 1].by
    <2>1. CASE i = n + 1
        <3>1. chain'[i].previous = LastWriter
            BY <1>1, <1>2, <1>4, <2>1
        <3>2. CASE n = 0
            <4>1. chain = <<>>
                BY <1>1, <3>2, EmptySeq DEF TypeInv, TypeOK
            <4> QED
                BY <2>1, <3>1, <3>2, <4>1 DEF LastWriter
        <3>3. CASE n # 0
            <4>1. chain # <<>> /\ LastWriter = chain[n].by
                BY <1>1, <3>3, EmptySeq DEF LastWriter
            <4>2. chain'[n] = chain[n]
                BY <1>1, <1>2, <3>3
            <4> QED
                BY <1>1, <2>1, <3>1, <3>3, <4>1, <4>2
        <3> QED
            BY <3>2, <3>3
    <2>2. CASE i # n + 1
        <3>1. i \in 1 .. n /\ chain'[i] = chain[i]
            BY <1>1, <1>2, <2>2
        <3>2. i # 1 => chain'[i - 1] = chain[i - 1]
            BY <1>1, <1>2, <2>2
        <3> QED
            BY <1>1, <3>1, <3>2 DEF ChainIntact
    <2> QED
        BY <2>1, <2>2
<1> QED
    BY <1>1, <1>3, <1>5, <1>6 DEF ChainIntact

\* A step that writes neither a checkpoint nor its row, and starts no writing.
LEMMA ChainQuiet ==
    ASSUME TypeInv, ChainHeld, NEW p \in Processes, Step(p), UNCHANGED <<chain, rows>>,
           pc'[p] \notin Replacing \cup Replaced, pc[p] \notin Replaced
    PROVE  ChainHeld'
<1>1. ChainIntact'
    BY DEF ChainHeld, ChainIntact
<1>2. LastWriter' = LastWriter /\ Len(chain') = Len(chain)
    BY DEF LastWriter
<1>3. ASSUME NEW q \in Processes
      PROVE  /\ pc'[q] \in Replacing =>
                    local'[q].sequence = Len(chain') + 1 /\ local'[q].previous = LastWriter'
             /\ pc'[q] \in Replaced => local'[q].sequence = Len(chain') /\ LastWriter' = q
    <2>1. CASE q = p
        BY <2>1
    <2>2. CASE q # p
        BY <1>2, <2>2, OthersKept DEF TypeInv, ChainHeld
    <2> QED
        BY <2>1, <2>2
<1>4. ASSUME \A q \in Processes : pc'[q] \notin Replaced PROVE IndexesAgree'
    <2>1. \A q \in Processes : pc[q] \notin Replaced
        BY <1>4, OthersKept DEF TypeInv
    <2>2. IndexesAgree
        BY <2>1 DEF ChainHeld
    <2> QED
        BY <1>2, <2>2 DEF IndexesAgree, IsLatestRow
<1> QED
    BY <1>1, <1>3, <1>4 DEF ChainHeld

\* A step in the chain writing part: the others have no part in it.
LEMMA ChainOwn ==
    ASSUME TypeInv, OneAlive, ~Overlap, NEW p \in Processes, Step(p), ChainIntact',
           /\ pc'[p] \in Replacing =>
                  local'[p].sequence = Len(chain') + 1 /\ local'[p].previous = LastWriter'
           /\ pc'[p] \in Replaced => local'[p].sequence = Len(chain') /\ LastWriter' = p
           /\ pc'[p] \notin Replaced => IndexesAgree'
    PROVE  ChainHeld'
<1>1. \A q \in Processes : q # p => pc'[q] \notin Replacing \cup Replaced
    BY OthersAreNotAlive DEF Alive, Replacing, Replaced
<1> QED
    BY <1>1 DEF ChainHeld

LEMMA SequenceFields ==
    ASSUME NEW l \in Local, NEW a, NEW b
    PROVE  LET k == [l EXCEPT !.sequence = a, !.previous = b]
           IN  /\ k.sequence = a /\ k.previous = b
               /\ k.number = l.number /\ k.session = l.session /\ k.outcome = l.outcome
BY DEF Local

LEMMA Arrived ==
    ASSUME TypeInv, NEW p \in Processes, NEW there, NEW l, GotoWith(p, there, l)
    PROVE  pc'[p] = there /\ local'[p] = l
BY DEF TypeInv, TypeOK, GotoWith, Goto

LEMMA Prepared ==
    ASSUME TypeInv, NEW p \in Processes, NEW there, Prepare(p, there)
    PROVE  /\ local'[p].sequence = Len(chain) + 1 /\ local'[p].previous = LastWriter
           /\ local'[p].number = local[p].number /\ local'[p].session = local[p].session
           /\ local'[p].outcome = local[p].outcome
           /\ pc'[p] = there
<1>1. PICK l : /\ l = [local[p] EXCEPT !.sequence = Len(chain) + 1, !.previous = LastWriter]
               /\ GotoWith(p, there, l)
    BY DEF Prepare
<1>2. local'[p] = l /\ pc'[p] = there
    BY <1>1, Arrived
<1>3. local[p] \in Local
    BY LocalsTyped
<1> QED
    BY <1>1, <1>2, <1>3, SequenceFields

LEMMA PrepareChain ==
    ASSUME TypeInv, OneAlive, ~Overlap, ChainHeld, NEW p \in Processes, Step(p),
           NEW there \in Replacing, Prepare(p, there), pc[p] \notin Replaced
    PROVE  ChainHeld'
<1>1. /\ local'[p].sequence = Len(chain) + 1 /\ local'[p].previous = LastWriter
      /\ pc'[p] = there
    BY Prepared
<1>2. UNCHANGED chain /\ UNCHANGED rows
    BY DEF Prepare, Database, Files
<1>3. ChainIntact' /\ LastWriter' = LastWriter
    BY <1>2 DEF ChainHeld, ChainIntact, LastWriter
<1>4. IndexesAgree'
    <2>1. \A q \in Processes : pc[q] \notin Replaced
        BY OthersAreNotAlive DEF Alive, Replaced
    <2>2. IndexesAgree
        BY <2>1 DEF ChainHeld
    <2> QED
        BY <1>2, <1>3, <2>2 DEF IndexesAgree, IsLatestRow
<1>5. there \notin Replaced
    BY DEF Replacing, Replaced
<1> QED
    BY <1>1, <1>2, <1>3, <1>4, <1>5, ChainOwn

LEMMA ReplaceChain ==
    ASSUME TypeInv, OneAlive, ~Overlap, ChainHeld, NEW p \in Processes, Step(p),
           NEW there \in Replaced, NEW state, Replace(p, state, there), pc[p] \in Replacing
    PROVE  ChainHeld'
<1>1. local[p].sequence = Len(chain) + 1 /\ local[p].previous = LastWriter
    BY DEF ChainHeld
<1>2. ChainIntact' /\ LastWriter' = p /\ Len(chain') = Len(chain) + 1
  <2>1. TypeInv' /\ ChainIntact
      BY TypeStep DEF ChainHeld
  <2> QED
      BY <1>1, <2>1, ReplaceKeepsChain, Zenon
<1>3. pc'[p] = there /\ UNCHANGED local
    BY DEF TypeInv, TypeOK, Replace, Goto
<1>4. there \notin Replacing
    BY DEF Replacing, Replaced
<1> QED
    BY <1>1, <1>2, <1>3, <1>4, ChainOwn

LEMMA RecordChain ==
    ASSUME TypeInv, OneAlive, ~Overlap, ChainHeld, IndexFollowsFiles, NEW p \in Processes, Step(p),
           NEW there \in ControlPoints \ (Replacing \cup Replaced),
           RecordCheckpoint(p, there), pc[p] \in Replaced
    PROVE  ChainHeld'
<1>1. /\ local[p].sequence = Len(chain) /\ LastWriter = p /\ Len(chain) \in Nat \ {0}
      /\ DOMAIN chain = 1 .. Len(chain)
    BY LenProperties DEF ChainHeld, TypeInv, TypeOK, SequenceFits
<1>2. UNCHANGED chain /\ pc'[p] = there
    BY DEF TypeInv, TypeOK, RecordCheckpoint, Files, GotoWith, Goto
<1>3. ChainIntact' /\ LastWriter' = p
    BY <1>1, <1>2 DEF ChainHeld, ChainIntact, LastWriter
<1>4. IndexesAgree'
    <2> DEFINE row == [sequence |-> Len(chain), by |-> p]
    <2>1. rows' = {r \in rows : r.sequence # Len(chain)} \cup {row}
        BY <1>1 DEF RecordCheckpoint
    <2>2. row.sequence = Len(chain) /\ row.by = p
        OBVIOUS
    <2> HIDE DEF row
    <2>3. \A r \in rows' : r.sequence <= Len(chain)
        BY <1>1, <2>1, <2>2 DEF IndexFollowsFiles
    <2>4. row \in rows'
        BY <2>1
    <2>5. chain' # <<>>
        <3>1. chain # <<>>
            BY <1>1, EmptySeq
        <3> QED
            BY <1>2, <3>1
    <2> QED
        BY <1>2, <1>3, <2>2, <2>3, <2>4, <2>5 DEF IndexesAgree, IsLatestRow
<1> QED
    BY <1>2, <1>3, <1>4, ChainOwn

LEMMA ChainStep ==
    ASSUME TypeInv, OneAlive, ChainHeld, IndexFollowsFiles, KilledBetween,
           NEW p \in Processes, Step(p)
    PROVE  ChainHeld'
<1>0. ~Overlap /\ pc' \in [Processes -> ControlPoints] /\ pc \in [Processes -> ControlPoints]
    BY TypeStep DEF KilledBetween, TypeInv, TypeOK
<1>1. CASE FirstCheckpoint(p) \/ SaveFinal(p)
    BY <1>0, <1>1, PrepareChain DEF FirstCheckpoint, SaveFinal, Replacing, Replaced
<1>2. CASE StopList(p)
    <2>1. CASE Prepare(p, "stopReplace")
        BY <1>0, <1>2, <2>1, PrepareChain DEF StopList, Replacing, Replaced
    <2>2. CASE ~Prepare(p, "stopReplace")
        <3>1. UNCHANGED <<chain, rows>> /\ pc[p] = "stopList" /\ pc'[p] = "done"
            BY <1>0, <1>2, <2>2 DEF StopList, Database, Files, End, GotoWith, Goto
        <3> QED
            BY <3>1, ChainQuiet DEF Replacing, Replaced
    <2> QED
        BY <2>1, <2>2
<1>3. CASE FirstReplace(p) \/ ReplaceFinal(p) \/ StopReplace(p)
    BY <1>0, <1>3, ReplaceChain DEF FirstReplace, ReplaceFinal, StopReplace, Replacing, Replaced
<1>4. CASE FirstRecord(p) \/ RecordFinal(p) \/ StopRecord(p)
    BY <1>0, <1>4, RecordChain DEF FirstRecord, RecordFinal, StopRecord, Replacing, Replaced
<1>5. CASE SetOutcome(p) \/ StopSetState(p)
    <2>1. /\ UNCHANGED <<chain, rows, local>>
          /\ \/ pc[p] = "set" /\ pc'[p] = "record"
             \/ pc[p] = "stopSet" /\ pc'[p] = "stopRecord"
        BY <1>0, <1>5 DEF SetOutcome, StopSetState, SetState, Goto, Files
    <2>2. ChainIntact' /\ LastWriter' = LastWriter
        BY <2>1 DEF ChainHeld, ChainIntact, LastWriter
    <2>3. pc[p] \in Replaced /\ pc'[p] \in Replaced /\ pc'[p] \notin Replacing
        BY <2>1 DEF Replacing, Replaced
    <2> QED
        BY <1>0, <2>1, <2>2, <2>3, ChainOwn DEF ChainHeld
<1>6. CASE Raise(p) \/ SecondInterrupt(p) \/ Crash(p)
    <2>1. UNCHANGED <<chain, rows>> /\ pc'[p] \in {"except", "release", "dead"}
        BY <1>0, <1>6 DEF Raise, SecondInterrupt, Crash, Database, Files, GotoWith, Goto
    <2>2. pc[p] \notin Replaced
        BY <1>6 DEF KilledBetween, Unindexed, Raise, SecondInterrupt, Crash, Replaced
    <2> QED
        BY <2>1, <2>2, ChainQuiet DEF Replacing, Replaced
<1>7. CASE StartRun(p) \/ StartStop(p) \/ Create(p) \/ Verify(p) \/ Survey(p) \/ ReadNumber(p)
           \/ AcquireOwner(p) \/ RefuseOwner(p) \/ MakeSessionDir(p) \/ CreateSession(p)
    <2>1. /\ UNCHANGED <<chain, rows>>
          /\ pc[p] \notin Replaced /\ pc'[p] \notin Replacing \cup Replaced
        BY <1>0, <1>7 DEF StartRun, StartStop, Start, Create, Verify, Survey, ReadNumber,
           AcquireOwner, RefuseOwner, MakeSessionDir, CreateSession, Database, Files, End,
           GotoWith, Goto, Replacing, Replaced
    <2> QED
        BY <2>1, ChainQuiet
<1>8. CASE StartReturns(p) \/ SkipFirstCheckpoint(p) \/ AdapterReturns(p) \/ Finish(p) \/ Close(p)
           \/ ReleaseOwner(p) \/ ReadBrokenChain(p) \/ ExceptFinish(p) \/ ExceptSetState(p)
           \/ StopCheck(p)
    <2>1. /\ UNCHANGED <<chain, rows>>
          /\ pc[p] \notin Replaced /\ pc'[p] \notin Replacing \cup Replaced
        BY <1>0, <1>8 DEF StartReturns, SkipFirstCheckpoint, AdapterReturns, Finish, Close,
           ReleaseOwner, ReadBrokenChain, ExceptFinish, ExceptSetState, StopCheck, SetState,
           Database, Files, End, GotoWith, Goto, Replacing, Replaced
    <2> QED
        BY <2>1, ChainQuiet
<1> QED
    BY <1>1, <1>2, <1>3, <1>4, <1>5, <1>6, <1>7, <1>8 DEF Step, RunStep, StopStep

\* Directories.  Only MakeSessionDir adds one, only CreateSession a row.
LEMMA DirsHeldStep ==
    ASSUME TypeInv, OneAlive, DirsHeld, KilledBetween, NEW p \in Processes, Step(p)
    PROVE  DirsHeld'
<1>0. /\ Len(sessions) \in Nat /\ dirs \subseteq Nat /\ ~Overlap
      /\ pc' \in [Processes -> ControlPoints]
    BY TypeStep, LenProperties DEF TypeInv, TypeOK, KilledBetween
<1>1. CASE CreateSession(p)
    <2>1. UNCHANGED dirs /\ Len(sessions') = Len(sessions) + 1
        BY <1>1, AppendProperties DEF TypeInv, TypeOK, CreateSession, SessionStatus, ValidStates, Files
    <2> QED
        BY <1>0, <2>1 DEF DirsHeld
<1>2. CASE MakeSessionDir(p)
    <2>1. /\ UNCHANGED sessions /\ pc[p] = "mkdir"
          /\ \/ UNCHANGED dirs
             \/ dirs' = dirs \cup {Len(sessions) + 1} /\ pc'[p] = "row"
        BY <1>2 DEF TypeInv, TypeOK, MakeSessionDir, Database, Goto, NextSessionNumber
    <2>2. \A q \in Processes : pc[q] # "row"
        BY <1>0, <2>1, OthersAreNotAlive DEF Alive
    <2> QED
        BY <1>0, <2>1, <2>2 DEF DirsHeld
<1>3. CASE ~CreateSession(p) /\ ~MakeSessionDir(p)
    <2>1. Len(sessions') = Len(sessions)
        BY <1>3, SessionWrites
    <2>2. UNCHANGED dirs
        BY <1>3 DEF Step, RunStep, StopStep, StartRun, StartStop, Start, Raise, SecondInterrupt,
           Crash, Create, Verify, Survey, ReadNumber, AcquireOwner, RefuseOwner, StartReturns,
           ReleaseOwner, FirstCheckpoint, SkipFirstCheckpoint, FirstReplace, FirstRecord,
           AdapterReturns, SaveFinal, ReplaceFinal, SetOutcome, RecordFinal, Finish, Close,
           ReadBrokenChain, ExceptFinish, ExceptSetState, StopCheck, StopList, StopReplace,
           StopSetState, StopRecord, Prepare, Replace, SetState, RecordCheckpoint, Files
    <2>3. pc[p] # "row"
        BY <1>3 DEF Step, RunStep, StopStep, StartRun, StartStop, Start, Raise, SecondInterrupt,
           Crash, Create, Verify, Survey, ReadNumber, AcquireOwner, RefuseOwner, StartReturns,
           ReleaseOwner, FirstCheckpoint, SkipFirstCheckpoint, FirstReplace, FirstRecord,
           AdapterReturns, SaveFinal, ReplaceFinal, SetOutcome, RecordFinal, Finish, Close,
           ReadBrokenChain, ExceptFinish, ExceptSetState, StopCheck, StopList, StopReplace,
           StopSetState, StopRecord, KilledBetween, Unindexed
    <2>4. \A q \in Processes : pc[q] # "row"
        BY <1>0, <2>3, OthersAreNotAlive DEF Alive
    <2> QED
        BY <2>1, <2>2, <2>4 DEF DirsHeld
<1> QED
    BY <1>1, <1>2, <1>3

\* Sessions.  The moves that take what SessionOf says of one point to the next.
Follows(from, to) ==
    \/ from \in {"off"} \cup BeforeOwning /\ to \in {"create", "verify", "survey", "number"}
    \/ from = "mkdir" /\ to = "row"
    \/ from \in HasSession /\ to \in HasSession \ {"close"}
    \/ from \in {"mkdir"} \cup HasSession /\ to = "except"
    \/ from \in {"close", "exceptSet"} /\ to = "release"
    \/ to \in Stopping

FieldsKept(p) ==
    /\ local'[p].number = local[p].number
    /\ local'[p].session = local[p].session
    /\ local'[p].outcome = local[p].outcome

LEMMA SessionsOfOthers ==
    ASSUME TypeInv, OneAlive, ~Overlap, SessionsHeld, NEW p \in Processes, Step(p),
           NEW q \in Processes, q # p
    PROVE  SessionOf(q)'
<1>1. pc'[q] = pc[q] /\ local'[q] = local[q] /\ pc[q] \in {"off", "done", "dead"}
    BY OthersKept, OthersAreNotAlive DEF TypeInv, TypeOK, Alive
<1>2. SessionOf(q)
    BY DEF SessionsHeld
<1> QED
    BY <1>1, <1>2 DEF SessionOf, HasSession

LEMMA SessionsQuiet ==
    ASSUME TypeInv, OneAlive, ~Overlap, SessionsHeld, NEW p \in Processes, Step(p),
           UNCHANGED <<sessions, owner>>, FieldsKept(p), Follows(pc[p], pc'[p])
    PROVE  SessionsHeld'
<1>1. NoneOpen' <=> NoneOpen
    BY DEF NoneOpen
<1>2. DOMAIN sessions = 1 .. Len(sessions)
    BY LenProperties DEF TypeInv, TypeOK
<1>3. SessionOf(p)
    BY DEF SessionsHeld
<1>4. SessionOf(p)'
    BY <1>1, <1>2, <1>3 DEF SessionOf, FieldsKept, Follows, HasSession, Known
<1> QED
    BY <1>4, SessionsOfOthers DEF SessionsHeld

LEMMA SessionsEnd ==
    ASSUME TypeInv, OneAlive, ~Overlap, SessionsHeld, NEW p \in Processes, Step(p),
           UNCHANGED sessions, UNCHANGED owner \/ NoneOpen,
           NEW result \in Results, local'[p] = [Blank EXCEPT !.result = result],
           pc'[p] \in {"done", "dead"}
    PROVE  SessionsHeld'
<1>1. local'[p].outcome # "running"
    BY DEF Blank
<1>2. SessionOf(p)'
    BY <1>1 DEF SessionOf, HasSession
<1> QED
    BY <1>2, SessionsOfOthers DEF SessionsHeld, NoneOpen

LEMMA ClosedSession ==
    ASSUME TypeInv, SingleOwner, SessionsHeld, NEW p \in Processes, pc[p] \in Owned,
           local[p].session = local[p].number, Known(local[p].number),
           NEW state, NEW reason, state # "running",
           FinishSession(local[p].session, state, reason)
    PROVE  NoneOpen' /\ DOMAIN sessions' = DOMAIN sessions
<1>1. owner.session = local[p].session
    BY DEF SingleOwner
<1>2. \A n \in DOMAIN sessions : n # local[p].session => sessions[n].status # "running"
    BY <1>1 DEF SessionsHeld
<1>3. PICK row : row = [status |-> state, finishes |-> sessions[local[p].session].finishes + 1]
                 /\ sessions' = [sessions EXCEPT ![local[p].session] = row]
    BY DEF FinishSession
<1>4. row.status = state
    BY <1>3
<1>5. DOMAIN sessions' = DOMAIN sessions
    BY <1>3
<1>6. ASSUME NEW n \in DOMAIN sessions PROVE sessions'[n].status # "running"
    <2>1. CASE n = local[p].session
        <3>1. sessions'[n] = row
            BY <1>3, <2>1
        <3> QED
            BY <1>4, <3>1
    <2>2. CASE n # local[p].session
        <3>1. sessions'[n] = sessions[n]
            BY <1>3, <2>2
        <3> QED
            BY <1>2, <2>2, <3>1
    <2> QED
        BY <2>1, <2>2
<1> QED
    BY <1>5, <1>6 DEF NoneOpen

LEMMA OneField ==
    ASSUME NEW l \in Local, NEW a
    PROVE  LET n == [l EXCEPT !.number = a]
               s == [l EXCEPT !.session = a]
               e == [l EXCEPT !.error = a]
           IN  /\ n.number = a /\ n.session = l.session /\ n.outcome = l.outcome
               /\ s.session = a /\ s.number = l.number /\ s.outcome = l.outcome
               /\ e.number = l.number /\ e.session = l.session /\ e.outcome = l.outcome
BY DEF Local

LEMMA TwoFields ==
    ASSUME NEW l \in Local, NEW a, NEW b
    PROVE  LET o == [l EXCEPT !.outcome = a, !.reason = b]
               r == [l EXCEPT !.error = a, !.result = b]
           IN  /\ o.outcome = a /\ o.number = l.number /\ o.session = l.session
               /\ r.number = l.number /\ r.session = l.session /\ r.outcome = l.outcome
BY DEF Local

\* The steps that move a session on without touching its row.
LEMMA QuietSteps ==
    ASSUME TypeInv, KilledBetween, NEW p \in Processes, Step(p),
           ~(RefuseOwner(p) \/ ReadNumber(p) \/ AcquireOwner(p) \/ CreateSession(p)
             \/ StartReturns(p) \/ AdapterReturns(p) \/ Finish(p) \/ ExceptFinish(p)
             \/ ReleaseOwner(p) \/ Crash(p)),
           pc'[p] # "done"
    PROVE  UNCHANGED <<sessions, owner>> /\ FieldsKept(p) /\ Follows(pc[p], pc'[p])
<1>0. /\ local[p] \in Local /\ pc \in [Processes -> ControlPoints]
      /\ local \in [Processes -> Local]
    BY DEF TypeInv, TypeOK
<1> USE DEF FieldsKept, Follows, HasSession, Database
<1>1. CASE StartRun(p) \/ StartStop(p) \/ Create(p) \/ Verify(p) \/ Survey(p) \/ StopCheck(p)
    BY <1>0, <1>1 DEF StartRun, StartStop, Start, Create, Verify, Survey, StopCheck, End,
       GotoWith, Goto
<1>2. CASE FirstCheckpoint(p) \/ SaveFinal(p) \/ StopList(p)
    <2>1. PICK there \in Replacing :
              /\ Prepare(p, there)
              /\ \/ pc[p] = "first" /\ there = "firstReplace"
                 \/ pc[p] = "save" /\ there = "replace"
                 \/ there = "stopReplace"
        BY <1>0, <1>2 DEF FirstCheckpoint, SaveFinal, StopList, Replacing, End, GotoWith, Goto
    <2>2. UNCHANGED <<sessions, owner>>
        BY <2>1 DEF Prepare
    <2> QED
        BY <2>1, <2>2, Prepared
<1>3. CASE SkipFirstCheckpoint(p) \/ FirstReplace(p) \/ ReplaceFinal(p) \/ StopReplace(p)
           \/ SetOutcome(p) \/ StopSetState(p) \/ ExceptSetState(p) \/ Close(p)
           \/ SecondInterrupt(p)
    BY <1>0, <1>3 DEF SkipFirstCheckpoint, FirstReplace, ReplaceFinal, StopReplace, SetOutcome,
       StopSetState, ExceptSetState, Close, SecondInterrupt, Replace, SetState, Goto,
       KilledBetween
<1>4. CASE FirstRecord(p) \/ RecordFinal(p) \/ StopRecord(p)
    BY <1>0, <1>4 DEF FirstRecord, RecordFinal, StopRecord, RecordCheckpoint, GotoWith, Goto
<1>5. CASE MakeSessionDir(p)
    <2>1. \/ UNCHANGED local /\ pc'[p] = "row"
          \/ \E l : /\ l = [local[p] EXCEPT !.error = "failed", !.result = "collide"]
                    /\ GotoWith(p, "except", l)
        BY <1>0, <1>5 DEF MakeSessionDir, Goto
    <2>2. UNCHANGED <<sessions, owner>> /\ pc[p] = "mkdir"
        BY <1>5 DEF MakeSessionDir
    <2>3. CASE UNCHANGED local /\ pc'[p] = "row"
        BY <2>2, <2>3
    <2>4. CASE \E l : /\ l = [local[p] EXCEPT !.error = "failed", !.result = "collide"]
                      /\ GotoWith(p, "except", l)
        <3>1. PICK l : /\ l = [local[p] EXCEPT !.error = "failed", !.result = "collide"]
                       /\ GotoWith(p, "except", l)
            BY <2>4
        <3>2. pc'[p] = "except" /\ local'[p] = l
            BY <3>1, Arrived
        <3>3. /\ l.number = local[p].number /\ l.session = local[p].session
              /\ l.outcome = local[p].outcome
            BY <1>0, <3>1, TwoFields
        <3> QED
            BY <2>2, <3>2, <3>3
    <2> QED
        BY <2>1, <2>3, <2>4
<1>6. CASE Raise(p) \/ ReadBrokenChain(p)
    <2>1. PICK kind, l : l = [local[p] EXCEPT !.error = kind] /\ GotoWith(p, "except", l)
        BY <1>6 DEF Raise, ReadBrokenChain
    <2>2. UNCHANGED <<sessions, owner>> /\ pc[p] \in {"mkdir"} \cup HasSession
        BY <1>6 DEF Raise, ReadBrokenChain, KilledBetween, Unindexed
    <2>3. pc'[p] = "except" /\ local'[p] = l
        BY <2>1, Arrived
    <2>4. /\ l.number = local[p].number /\ l.session = local[p].session
          /\ l.outcome = local[p].outcome
        BY <1>0, <2>1, OneField
    <2> QED
        BY <2>2, <2>3, <2>4
<1> QED
    BY <1>1, <1>2, <1>3, <1>4, <1>5, <1>6 DEF Step, RunStep, StopStep

LEMMA EndingSteps ==
    ASSUME TypeInv, SessionsHeld, NEW p \in Processes, Step(p), pc'[p] \in {"done", "dead"}
    PROVE  /\ UNCHANGED sessions /\ (UNCHANGED owner \/ NoneOpen)
           /\ \E result \in Results : local'[p] = [Blank EXCEPT !.result = result]
<1>0. /\ local[p] \in Local /\ pc \in [Processes -> ControlPoints]
      /\ local \in [Processes -> Local] /\ local[p].result \in Results
    BY LocalsTyped DEF TypeInv, TypeOK
<1>1. PICK blank : blank = [Blank EXCEPT !.result = "none"] /\ blank = Blank
    BY DEF Blank
<1>2. CASE Create(p) \/ Verify(p) \/ Survey(p) \/ RefuseOwner(p) \/ StopCheck(p) \/ StopList(p)
    BY <1>0, <1>2 DEF Create, Verify, Survey, RefuseOwner, StopCheck, StopList, Prepare, End,
       GotoWith, Goto, Database, Results, Replacing
<1>3. CASE StopRecord(p)
    BY <1>0, <1>1, <1>3 DEF StopRecord, RecordCheckpoint, GotoWith, Goto, Results
<1>4. CASE ReleaseOwner(p)
    <2>1. NoneOpen
        BY <1>4 DEF ReleaseOwner, SessionsHeld, SessionOf
    <2> QED
        BY <1>0, <1>4, <2>1 DEF ReleaseOwner, End, GotoWith
<1>5. CASE Crash(p)
    BY <1>0, <1>5 DEF Crash, GotoWith, Database
<1>6. ~(StartRun(p) \/ StartStop(p) \/ ReadNumber(p) \/ AcquireOwner(p) \/ MakeSessionDir(p)
        \/ CreateSession(p) \/ StartReturns(p) \/ Raise(p) \/ SecondInterrupt(p))
    BY <1>0 DEF StartRun, StartStop, Start, ReadNumber, AcquireOwner, MakeSessionDir,
       CreateSession, StartReturns, Raise, SecondInterrupt, GotoWith, Goto
<1>7. ~(FirstCheckpoint(p) \/ SkipFirstCheckpoint(p) \/ FirstReplace(p) \/ FirstRecord(p)
        \/ AdapterReturns(p) \/ SaveFinal(p) \/ ReplaceFinal(p) \/ SetOutcome(p)
        \/ RecordFinal(p) \/ Finish(p) \/ Close(p) \/ ReadBrokenChain(p) \/ ExceptFinish(p)
        \/ ExceptSetState(p) \/ StopReplace(p) \/ StopSetState(p))
    BY <1>0 DEF FirstCheckpoint, SkipFirstCheckpoint, FirstReplace, FirstRecord, AdapterReturns,
       SaveFinal, ReplaceFinal, SetOutcome, RecordFinal, Finish, Close, ReadBrokenChain,
       ExceptFinish, ExceptSetState, StopReplace, StopSetState, Prepare, Replace, SetState,
       RecordCheckpoint, GotoWith, Goto
<1> QED
    BY <1>2, <1>3, <1>4, <1>5, <1>6, <1>7 DEF Step, RunStep, StopStep

\* The other steps, one by one.
LEMMA AcquireHolds ==
    ASSUME TypeInv, OneAlive, ~Overlap, SessionsHeld, NEW p \in Processes, Step(p),
           AcquireOwner(p)
    PROVE  SessionsHeld'
<1>1. /\ pc[p] = "acquire" /\ pc'[p] = "mkdir" /\ UNCHANGED local
      /\ CloseDeadSession
    BY DEF TypeInv, TypeOK, AcquireOwner, Goto
<1>2. Len(sessions') = Len(sessions) /\ DOMAIN sessions = 1 .. Len(sessions)
    BY <1>1, CloseDeadTyped, LenProperties DEF TypeInv, TypeOK
<1>3. NoneOpen'
    <2> SUFFICES ASSUME NEW n \in DOMAIN sessions, sessions'[n].status = "running" PROVE FALSE
        BY <1>1 DEF NoneOpen, CloseDeadSession
    <2>1. sessions[n].status = "running"
        BY <1>1 DEF CloseDeadSession
    <2>2. owner.session = n /\ n # 0
        BY <1>2, <2>1 DEF SessionsHeld
    <2>3. owner # NoOwner
        BY <2>2 DEF NoOwner
    <2>4. PICK row : row = [sessions[n] EXCEPT !.status = "interrupted"] /\ sessions'[n] = row
        BY <1>1, <2>1, <2>2, <2>3 DEF CloseDeadSession
    <2>5. sessions[n] \in [status: SessionStatus, finishes: Nat]
        BY <1>2, ElementOfSeq DEF TypeInv, TypeOK
    <2>6. row.status = "interrupted"
        BY <2>4, <2>5
    <2> QED
        BY <2>4, <2>6
<1>4. SessionOf(p)
    BY DEF SessionsHeld
<1>5. SessionOf(p)'
    BY <1>1, <1>2, <1>3, <1>4 DEF SessionOf, HasSession
<1> QED
    BY <1>3, <1>5, SessionsOfOthers DEF SessionsHeld, NoneOpen

LEMMA CreateHolds ==
    ASSUME TypeInv, SingleOwner, OneAlive, ~Overlap, SessionsHeld, NEW p \in Processes, Step(p),
           CreateSession(p)
    PROVE  SessionsHeld'
<1>1. /\ pc[p] = "row" /\ pc'[p] = "files" /\ UNCHANGED local /\ UNCHANGED owner
      /\ experiment'.session = Len(sessions) + 1
    BY DEF TypeInv, TypeOK, CreateSession, Goto, NextSessionNumber
<1>2. SessionOf(p)
    BY DEF SessionsHeld
<1>3. /\ local[p].number = Len(sessions) + 1 /\ NoneOpen /\ local[p].session = 0
      /\ local[p].outcome # "running"
    BY <1>1, <1>2 DEF SessionOf
<1>4. owner.session = Len(sessions) + 1
    BY <1>1, <1>3 DEF SingleOwner
<1>5. /\ Len(sessions) \in Nat /\ DOMAIN sessions = 1 .. Len(sessions)
      /\ DOMAIN sessions' = 1 .. Len(sessions) + 1
      /\ \A n \in 1 .. Len(sessions) : sessions'[n] = sessions[n]
  <2> DEFINE row == [status |-> "running", finishes |-> 0]
  <2>1. row \in [status: SessionStatus, finishes: Nat]
      BY DEF SessionStatus, ValidStates
  <2>2. sessions' = Append(sessions, row)
      BY DEF CreateSession
  <2> HIDE DEF row
  <2> QED
      BY <2>1, <2>2, AppendProperties, LenProperties DEF TypeInv, TypeOK
<1>6. SessionOf(p)'
    BY <1>1, <1>3, <1>5 DEF SessionOf, HasSession, Known
<1>7. \A n \in DOMAIN sessions' : sessions'[n].status = "running" => owner'.session = n
    BY <1>1, <1>3, <1>4, <1>5 DEF NoneOpen
<1> QED
    BY <1>6, <1>7, SessionsOfOthers DEF SessionsHeld

LEMMA LocalOnlyHolds ==
    ASSUME TypeInv, OneAlive, ~Overlap, SessionsHeld, NEW p \in Processes, Step(p),
           ReadNumber(p) \/ StartReturns(p) \/ AdapterReturns(p)
    PROVE  SessionsHeld'
<1>0. local[p] \in Local /\ SessionOf(p) /\ DOMAIN sessions = 1 .. Len(sessions)
    BY LocalsTyped, LenProperties DEF SessionsHeld, TypeInv, TypeOK
<1>1. UNCHANGED <<sessions, owner>>
    BY DEF ReadNumber, StartReturns, AdapterReturns, Database
<1>2. CASE ReadNumber(p)
    <2>1. PICK l : /\ l = [local[p] EXCEPT !.number = NextSessionNumber]
                   /\ GotoWith(p, "acquire", l)
        BY <1>2 DEF ReadNumber
    <2>2. pc'[p] = "acquire" /\ local'[p] = l /\ pc[p] = "number"
        BY <1>2, <2>1, Arrived DEF ReadNumber
    <2>3. /\ l.number = Len(sessions) + 1 /\ l.session = local[p].session
          /\ l.outcome = local[p].outcome
        BY <1>0, <2>1, OneField DEF NextSessionNumber
    <2>4. SessionOf(p)'
        BY <1>0, <1>1, <2>2, <2>3 DEF SessionOf, HasSession
    <2> QED
        BY <1>1, <2>4, SessionsOfOthers DEF SessionsHeld
<1>3. CASE StartReturns(p)
    <2>1. PICK l : /\ l = [local[p] EXCEPT !.session = experiment.session]
                   /\ GotoWith(p, "first", l)
        BY <1>3 DEF StartReturns
    <2>2. pc'[p] = "first" /\ local'[p] = l /\ pc[p] = "files"
        BY <1>3, <2>1, Arrived DEF StartReturns
    <2>3. /\ l.session = experiment.session /\ l.number = local[p].number
          /\ l.outcome = local[p].outcome
        BY <1>0, <2>1, OneField
    <2>4. SessionOf(p)'
        BY <1>0, <1>1, <2>2, <2>3 DEF SessionOf, HasSession, Known
    <2> QED
        BY <1>1, <2>4, SessionsOfOthers DEF SessionsHeld
<1>4. CASE AdapterReturns(p)
    <2>1. PICK state, reason, l :
              /\ state \in Outcomes
              /\ l = [local[p] EXCEPT !.outcome = state, !.reason = reason]
              /\ GotoWith(p, "save", l)
        BY <1>4 DEF AdapterReturns
    <2>2. pc'[p] = "save" /\ local'[p] = l /\ pc[p] = "adapter"
        BY <1>4, <2>1, Arrived DEF AdapterReturns
    <2>3. l.outcome = state /\ l.number = local[p].number /\ l.session = local[p].session
        BY <1>0, <2>1, TwoFields
    <2>4. state # "running"
        BY <2>1, OutcomeAssumption DEF AdapterStates
    <2>5. SessionOf(p)'
        BY <1>0, <1>1, <2>2, <2>3, <2>4 DEF SessionOf, HasSession, Known
    <2> QED
        BY <1>1, <2>5, SessionsOfOthers DEF SessionsHeld
<1> QED
    BY <1>2, <1>3, <1>4

LEMMA FinishHolds ==
    ASSUME TypeInv, SingleOwner, OneAlive, KilledBetween, SessionsHeld,
           NEW p \in Processes, Step(p), Finish(p) \/ ExceptFinish(p)
    PROVE  SessionsHeld'
<1>0. SessionOf(p) /\ ~Overlap /\ pc[p] \in {"finish", "except"} /\ UNCHANGED local
    BY DEF SessionsHeld, KilledBetween, Finish, ExceptFinish
<1>1. \/ pc[p] = "finish" /\ pc'[p] = "close"
      \/ pc[p] = "except" /\ pc'[p] = "exceptSet"
    BY DEF TypeInv, TypeOK, Finish, ExceptFinish, Goto
<1>2. NoneOpen' /\ DOMAIN sessions' = DOMAIN sessions
    <2>1. CASE pc[p] = "finish"
        <3>1. FinishSession(local[p].session, local[p].outcome, local[p].reason)
            BY <2>1 DEF Finish, ExceptFinish
        <3>2. /\ local[p].session = local[p].number /\ Known(local[p].number)
              /\ local[p].outcome # "running"
            BY <1>0, <2>1 DEF SessionOf, HasSession
        <3> QED
            BY <2>1, <3>1, <3>2, ClosedSession
    <2>2. CASE pc[p] = "except" /\ local[p].session = 0
        <3>1. NoneOpen
            BY <1>0, <2>2 DEF SessionOf
        <3>2. UNCHANGED sessions
            BY <2>2 DEF Finish, ExceptFinish
        <3> QED
            BY <3>1, <3>2 DEF NoneOpen
    <2>3. CASE pc[p] = "except" /\ local[p].session # 0
        <3>1. FinishSession(local[p].session, local[p].error, local[p].error)
            BY <2>3 DEF KilledBetween, Finish, ExceptFinish
        <3>2. /\ local[p].session = local[p].number /\ Known(local[p].number)
              /\ local[p].error # "running"
            BY <1>0, <2>3, LocalsTyped DEF SessionOf, ErrorKinds
        <3> QED
            BY <2>3, <3>1, <3>2, ClosedSession
    <2> QED
        BY <1>0, <2>1, <2>2, <2>3
<1>3. SessionOf(p)'
    BY <1>0, <1>1, <1>2 DEF SessionOf, HasSession, Known
<1> QED
    BY <1>0, <1>2, <1>3, SessionsOfOthers DEF SessionsHeld, NoneOpen

LEMMA SessionsHeldStep ==
    ASSUME TypeInv, SingleOwner, OneAlive, KilledBetween, SessionsHeld,
           NEW p \in Processes, Step(p)
    PROVE  SessionsHeld'
<1>0. ~Overlap
    BY DEF KilledBetween
<1>1. CASE pc'[p] \in {"done", "dead"}
    BY <1>0, <1>1, EndingSteps, SessionsEnd
<1>2. CASE AcquireOwner(p) \/ CreateSession(p) \/ Finish(p) \/ ExceptFinish(p)
           \/ ReadNumber(p) \/ StartReturns(p) \/ AdapterReturns(p)
    BY <1>0, <1>2, AcquireHolds, CreateHolds, FinishHolds, LocalOnlyHolds
<1>3. CASE RefuseOwner(p) \/ ReleaseOwner(p) \/ Crash(p)
    <2>1. pc'[p] \in {"done", "dead"}
        BY <1>3 DEF TypeInv, TypeOK, RefuseOwner, ReleaseOwner, Crash, End, GotoWith, Goto
    <2> QED
        BY <1>1, <2>1
<1>4. CASE /\ ~(RefuseOwner(p) \/ ReadNumber(p) \/ AcquireOwner(p) \/ CreateSession(p)
               \/ StartReturns(p) \/ AdapterReturns(p) \/ Finish(p) \/ ExceptFinish(p)
               \/ ReleaseOwner(p) \/ Crash(p))
           /\ pc'[p] # "done"
    BY <1>0, <1>4, QuietSteps, SessionsQuiet
<1> QED
    BY <1>1, <1>2, <1>3, <1>4

\* What every step keeps when the operator waits for the last process and the
\* deaths and exceptions fall between a write and the next one, not between a
\* file and its row.
RestInv == OneAlive /\ ChainHeld /\ DirsHeld /\ SessionsHeld /\ IndexFollowsFiles

\* Whatever died or raised there, the next run is accepted: the chain verifies,
\* the index agrees, the directory of the next session is free and the takeover
\* closes the session of a dead owner (service.py:184-216, state.py
\* acquire_owner).
THEOREM NextRunIsAccepted == KilledBetween => (Spec => []RestIsResumable)
<1> SUFFICES ASSUME KilledBetween PROVE Spec => []RestIsResumable
    OBVIOUS
<1>1. Init => RestInv
    <2> SUFFICES ASSUME Init PROVE RestInv
        OBVIOUS
    <2>1. /\ Len(<<>>) = 0 /\ DOMAIN <<>> = {} /\ sessions = <<>> /\ chain = <<>> /\ rows = {}
          /\ dirs = {} /\ \A p \in Processes : pc[p] = "off" /\ local[p] = Blank
        BY EmptySeq DEF Init
    <2>2. OneAlive /\ DirsHeld /\ ChainHeld
        BY <2>1 DEF OneAlive, Alive, DirsHeld, ChainHeld, ChainIntact, IndexesAgree, Replacing,
           Replaced
    <2>3. Blank.outcome # "running" /\ Blank.session = 0
        BY DEF Blank
    <2>4. SessionsHeld
        BY <2>1, <2>3 DEF SessionsHeld, SessionOf, HasSession
    <2>5. IndexFollowsFiles
        BY <2>1 DEF Init, IndexFollowsFiles
    <2> QED
        BY <2>2, <2>4, <2>5 DEF RestInv
<1>2. TypeInv /\ SingleOwner /\ RestInv /\ [Next]_vars => RestInv'
    <2>1. RestInv /\ UNCHANGED vars => RestInv'
        BY DEF RestInv, OneAlive, Alive, ChainHeld, ChainIntact, LastWriter, IndexesAgree,
           IsLatestRow, DirsHeld, SessionsHeld, SessionOf, NoneOpen, Known, IndexFollowsFiles, vars
    <2>2. ASSUME TypeInv, SingleOwner, RestInv, NEW p \in Processes, Step(p) PROVE RestInv'
        BY <2>2, OneAliveStep, ChainStep, DirsHeldStep, SessionsHeldStep, IndexStep
           DEF RestInv, KilledBetween
    <2> QED
        BY <2>1, <2>2, NextIsStep
<1>3. TypeInv /\ RestInv => RestIsResumable
    <2> SUFFICES ASSUME TypeInv, RestInv, \A p \in Processes : ~Alive(p)
                 PROVE  /\ ChainIntact /\ IndexesAgree /\ NextSessionNumber \notin dirs
                        /\ \A n \in DOMAIN sessions :
                               sessions[n].status = "running" => owner.session = n
        BY DEF RestIsResumable
    <2>1. \A p \in Processes : pc[p] \notin Replaced /\ pc[p] # "row"
        BY DEF Alive, Replaced
    <2>2. NextSessionNumber \notin dirs
        <3>1. Len(sessions) \in Nat
            BY LenProperties DEF TypeInv, TypeOK
        <3> QED
            BY <2>1, <3>1 DEF RestInv, DirsHeld, NextSessionNumber
    <2> QED
        BY <2>1, <2>2 DEF RestInv, ChainHeld, SessionsHeld
<1> QED
    BY <1>1, <1>2, <1>3, SingleOwnerInvariant, PTL DEF Spec

=============================================================================
