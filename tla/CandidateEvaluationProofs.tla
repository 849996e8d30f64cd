----------------------- MODULE CandidateEvaluationProofs -----------------------
(* Theorems about CandidateEvaluation, for any slots, sessions and graphs.   *)
EXTENDS CandidateEvaluation, TLAPS

(***************************************************************************)
(* The evaluation of a slot met no graph, or one the primary verifier      *)
(* rejects: what a row, a file and a finished job stand for.               *)
(***************************************************************************)
Clean(s) == zero[s] # NoGraph => verdict[zero[s]]["primary"] = "REJECTED"

DiskIsClean == \A s \in episodes \cup development \cup rows : Clean(s)

\* A job that has ended its episode is clean; one that is in it is, or its
\* inspection of the graph the episode met does not let it go on.
JobIsClean(j) ==
    /\ job[j] \in {"passed", "written", "result"} => Clean(j[2])
    /\ job[j] = "running" =>
          \/ Clean(j[2])
          \/ says[j].graph = zero[j[2]] /\ says[j].at \notin {"off", "continue"}
    /\ (job[j] = "verified" \/ says[j].at = "verified") => certified # {}
    /\ says[j].at # "off" => says[j].graph \in Graphs

\* What the thread of the session and its callbacks hold has its row, and the
\* slots that were awaited have theirs.
ThreadIsSound ==
    /\ ~InAt("off") => session.n # 0
    /\ InAt("adopt") => session.slot \in rows
    /\ session.stored \subseteq rows /\ announced \subseteq rows
    /\ (InAt("await") \/ (InAt("adopt") /\ session.back \notin {"collect", "prepare"})) =>
          \A s \in Slots : s < session.slot => s \in rows
    /\ session.ending = "completed" => certified # {}

Inv == /\ TypeOK /\ ThreadIsSound /\ DiskIsClean
       /\ \A j \in Jobs : JobIsClean(j)
       /\ EndingsAreTrue

-----------------------------------------------------------------------------
(***************************************************************************)
(* Steps of the thread of the session and of its callbacks: the jobs may   *)
(* be queued, cancelled or forgotten, the inspections go on.               *)
(***************************************************************************)
Forgets == \A j \in Jobs : job'[j] \in {job[j], "none", "queued", "cancelled"}

LEMMA ForgettingIsClean ==
    ASSUME \A j \in Jobs : JobIsClean(j), Forgets, UNCHANGED <<zero, certificationVars>>
    PROVE  \A j \in Jobs : JobIsClean(j)'
BY DEF JobIsClean, Forgets, Clean, certificationVars

LEMMA SlotsAreNumbers == ASSUME NEW s \in Slots PROVE /\ s \in Nat \ {0} /\ s + 1 \in 1 .. NumSlots + 1
                                                   /\ s \in 1 .. NumSlots + 1
BY EvaluationAssumption DEF Slots

LEMMA JobsAreTyped ==
    ASSUME NEW j \in Jobs PROVE j[2] \in Slots
BY EvaluationAssumption DEF Slots

LEMMA ThisIsAJob ==
    ASSUME TypeOK, ThreadIsSound, ~InAt("off"), NEW s \in Slots
    PROVE  This(s) \in Jobs /\ This(s)[2] = s
BY EvaluationAssumption DEF TypeOK, SessionType, ThreadIsSound, This, Slots

LEMMA Numbers == /\ NumSlots \in Nat \ {0} /\ MaxSessions \in Nat \ {0} /\ MaxDeaths \in Nat
                 /\ 1 \in 1 .. NumSlots + 1
BY EvaluationAssumption

LEMMA DownIsTyped == ASSUME NEW n \in 0 .. MaxSessions PROVE Down(n) \in SessionType
BY Numbers DEF Down, SessionType, Points, Outcomes

\* What is left to show of a step of a session: its thread, and that the rows
\* it adds are clean.
LEMMA SessionStep ==
    ASSUME Inv, session' \in SessionType, ThreadIsSound', Forgets, job' \in [Jobs -> JobStates],
           UNCHANGED <<zero, certificationVars, episodes, development, replay, deaths>>,
           accepted' \subseteq Slots, streamed' \subseteq Slots, announced' \subseteq Slots,
           best' \in 0 .. NumSlots, outcome' \in Outcomes, selected' \in -1 .. NumSlots,
           outcome' = "completed" => certified # {},
           rows \subseteq rows', rows' \subseteq Slots, \A s \in rows' : s \in rows \/ Clean(s),
           selected' # -1 => selected' = selected \/ rows' = Slots
    PROVE  Inv'
<1>1. TypeOK'
    BY DEF Inv, TypeOK, CertificationTypeOK, certificationVars
<1>2. DiskIsClean'
    BY DEF Inv, DiskIsClean, Clean, certificationVars
<1>3. EndingsAreTrue'
    <2>1. CompletedIsCertified'
        BY DEF CompletedIsCertified, certificationVars
    <2>2. NoCounterexamplePassed'
        <3>1. ASSUME selected' # -1 PROVE rows' = Slots
            BY <3>1, <1>1 DEF Inv, EndingsAreTrue, NoCounterexamplePassed
        <3>2. ASSUME selected' # -1 PROVE \A s \in Slots : Clean(s)'
            BY <1>2, <3>1, <3>2 DEF DiskIsClean
        <3> QED
            BY <3>1, <3>2 DEF NoCounterexamplePassed, Clean
    <2> QED
        BY <2>1, <2>2 DEF EndingsAreTrue
<1> QED
    BY <1>1, <1>2, <1>3, ForgettingIsClean DEF Inv

LEMMA StartSessionKeepsInv == ASSUME Inv, StartSession PROVE Inv'
<1> USE DEF StartSession, InAt, Files
<1>1. session.n + 1 \in 0 .. MaxSessions /\ session.n + 1 # 0
    BY Numbers DEF Inv, TypeOK, SessionType
<1>2. Down(session.n + 1) \in SessionType
    BY <1>1, DownIsTyped
<1>3. session' \in SessionType /\ session'.at = "collect" /\ session'.n # 0
      /\ session'.stored = {} /\ session'.ending = "idle"
    BY <1>1, <1>2 DEF SessionType, Down, Points
<1>4. ThreadIsSound'
    BY <1>3 DEF ThreadIsSound
<1> QED
    BY <1>3, <1>4, SessionStep DEF Inv, TypeOK, Forgets, Outcomes

\* The parts of a session a step changes one at a time.
LEMMA StreamKeepsInv == ASSUME Inv, NEW s \in Slots, Stream(s) PROVE Inv'
<1> DEFINE seen == [session EXCEPT !.seen = @ \cup {s}]
<1>1. session \in SessionType /\ InAt("collect") /\ s \in 1 .. NumSlots + 1
    BY SlotsAreNumbers DEF Stream, Inv, TypeOK
<1>2. seen \in SessionType /\ seen.at = "collect" /\ seen.n = session.n
      /\ seen.stored = session.stored /\ seen.ending = session.ending
    BY <1>1 DEF SessionType, InAt
<1>3. CASE session' = seen /\ rows' = rows
    <2>1. ThreadIsSound'
        BY <1>1, <1>2, <1>3 DEF Stream, Inv, ThreadIsSound, InAt, certificationVars
    <2>2. Forgets /\ job' \in [Jobs -> JobStates] /\ streamed' \subseteq Slots
        BY DEF Stream, Submit, Forgets, Inv, TypeOK, JobStates
    <2> QED
        BY <1>2, <1>3, <2>1, <2>2, SessionStep
           DEF Stream, Inv, TypeOK, EndingsAreTrue, CompletedIsCertified
<1>4. CASE /\ Recoverable(s) /\ rows' = rows \cup {s} /\ Compare(s, seen, "collect")
           /\ UNCHANGED <<job, streamed>>
    <2>1. session' \in SessionType /\ session'.at = "adopt" /\ session'.n = session.n
          /\ session'.slot = s /\ session'.back = "collect"
          /\ session'.stored = session.stored /\ session'.ending = session.ending
        BY <1>1, <1>2, <1>4 DEF Compare, SessionType, Beats, Points
    <2>2. ThreadIsSound'
        BY <1>1, <1>4, <2>1 DEF Stream, Inv, ThreadIsSound, InAt, certificationVars
    <2>3. Clean(s)
        BY <1>4 DEF Recoverable, Inv, DiskIsClean
    <2> QED
        BY <1>4, <2>1, <2>2, <2>3, SessionStep
           DEF Stream, Inv, TypeOK, Forgets, EndingsAreTrue, CompletedIsCertified
<1> QED
    BY <1>3, <1>4 DEF Stream

LEMMA AdoptKeepsInv == ASSUME Inv, Adopt PROVE Inv'
<1>1. session \in SessionType /\ session.slot \in Slots /\ session.slot \in rows /\ session.n # 0
    BY DEF Adopt, Inv, TypeOK, ThreadIsSound, InAt
<1>2. session.slot \in Nat /\ session.slot + 1 \in 1 .. NumSlots + 1
    BY <1>1, SlotsAreNumbers
<1>3. /\ session' \in SessionType /\ session'.n = session.n /\ session'.ending = session.ending
      /\ session'.stored \subseteq session.stored \cup {session.slot}
      /\ session'.at \in {"collect", "prepare", "await"}
      /\ session'.at = "await" =>
            session.back \notin {"collect", "prepare"} /\ session'.slot = session.slot + 1
    <2>1. CASE session.back = "collect"
        <3>1. session' = [session EXCEPT !.wins = FALSE, !.at = "collect", !.slot = 1]
            BY <1>1, <2>1 DEF Adopt, SessionType
        <3> QED
            BY <1>1, <2>1, <3>1, Numbers DEF SessionType, Points
    <2>2. CASE session.back = "prepare"
        <3>1. session' = [session EXCEPT !.wins = FALSE, !.stored = @ \cup {session.slot},
                                         !.at = "prepare", !.slot = @ + 1]
            BY <1>1, <2>2 DEF Adopt, SessionType, Advance
        <3> QED
            BY <1>1, <1>2, <2>2, <3>1 DEF SessionType, Points
    <2>3. CASE session.back \notin {"collect", "prepare"}
        <3>1. session' = [session EXCEPT !.wins = FALSE, !.at = "await", !.slot = @ + 1]
            BY <1>1, <2>3 DEF Adopt, SessionType, Advance
        <3> QED
            BY <1>1, <1>2, <2>3, <3>1 DEF SessionType, Points
    <2> QED
        BY <2>1, <2>2, <2>3
<1>4. ThreadIsSound'
    <2>1. \A s \in Slots : s < session.slot + 1 => s < session.slot \/ s = session.slot
        BY <1>2, SlotsAreNumbers
    <2> QED
        BY <1>1, <1>3, <2>1 DEF Adopt, Inv, ThreadIsSound, InAt, durable, certificationVars
<1> QED
    BY <1>1, <1>3, <1>4, SessionStep, SMTT(30)
       DEF Adopt, Inv, TypeOK, Forgets, durable, EndingsAreTrue, CompletedIsCertified, Slots

LEMMA CancellingForgets ==
    ASSUME TypeOK, CancelQueued PROVE Forgets /\ job' \in [Jobs -> JobStates]
BY DEF CancelQueued, Forgets, TypeOK, JobStates

LEMMA EndingKeepsInv ==
    ASSUME Inv, ~InAt("off"), NEW state \in Outcomes, Ending(state), state = "completed" => certified # {}
    PROVE  Inv'
<1>1. session' \in SessionType /\ session'.n = session.n /\ session'.at = "close"
      /\ session'.ending = state /\ session'.stored = session.stored
    BY DEF Inv, TypeOK, SessionType, Ending, Points
<1>2. ThreadIsSound'
    BY <1>1 DEF Ending, Inv, ThreadIsSound, InAt, durable, certificationVars
<1> QED
    BY <1>1, <1>2, CancellingForgets, SessionStep
       DEF Ending, Inv, TypeOK, durable, EndingsAreTrue, CompletedIsCertified

LEMMA LeaveGenerationKeepsInv == ASSUME Inv, LeaveGeneration PROVE Inv'
BY EndingKeepsInv DEF LeaveGeneration, InAt, Outcomes

LEMMA ExpireInCallbackKeepsInv == ASSUME Inv, ExpireInCallback PROVE Inv'
BY EndingKeepsInv DEF ExpireInCallback, InAt, Outcomes

LEMMA CloseSessionKeepsInv == ASSUME Inv, CloseSession PROVE Inv'
<1>1. session.n \in 0 .. MaxSessions /\ session.ending \in Outcomes
    BY DEF Inv, TypeOK, SessionType
<1>2. session' \in SessionType /\ session'.at = "off" /\ session'.stored = {}
      /\ session'.ending = "idle"
    BY <1>1, DownIsTyped DEF CloseSession, Down
<1>3. ThreadIsSound'
    BY <1>2 DEF CloseSession, ThreadIsSound, InAt
<1>4. Forgets /\ job' \in [Jobs -> JobStates]
    BY DEF CloseSession, Forgets, Inv, TypeOK, JobStates
<1> QED
    BY <1>1, <1>2, <1>3, <1>4, Numbers, SessionStep DEF CloseSession, Files, Inv, TypeOK, ThreadIsSound

LEMMA EnterCallbackKeepsInv == ASSUME Inv, EnterCallback PROVE Inv'
<1>1. session' \in SessionType /\ session'.n = session.n /\ session'.at = "prepare"
      /\ session'.ending = session.ending /\ session'.stored = session.stored
    BY Numbers DEF Inv, TypeOK, SessionType, EnterCallback, Points
<1>2. ThreadIsSound'
    BY <1>1 DEF EnterCallback, Inv, ThreadIsSound, InAt, durable, certificationVars
<1> QED
    BY <1>1, <1>2, SessionStep
       DEF EnterCallback, Inv, TypeOK, Forgets, durable, EndingsAreTrue, CompletedIsCertified

LEMMA PrepareKeepsInv == ASSUME Inv, Prepare PROVE Inv'
<1> DEFINE s == session.slot
<1>1. session \in SessionType /\ InAt("prepare") /\ session.n # 0
    BY DEF Prepare, Inv, TypeOK, ThreadIsSound, InAt
<1>2. CASE /\ s > NumSlots /\ session' = [session EXCEPT !.at = "await", !.slot = 1]
           /\ UNCHANGED <<rows, streamed, job>>
    <2>1. session' \in SessionType /\ session'.n = session.n /\ session'.at = "await"
          /\ session'.ending = session.ending /\ session'.stored = session.stored
          /\ session'.slot = 1
        BY <1>1, <1>2, Numbers DEF SessionType, Points
    <2>2. \A t \in Slots : ~(t < 1)
        BY SlotsAreNumbers
    <2>3. ThreadIsSound'
        BY <1>1, <1>2, <2>1, <2>2 DEF Prepare, Inv, ThreadIsSound, InAt, certificationVars
    <2> QED
        BY <1>2, <2>1, <2>3, SessionStep
           DEF Prepare, Inv, TypeOK, Forgets, EndingsAreTrue, CompletedIsCertified
<1>3. ASSUME s \in Slots, NEW stored, stored \subseteq session.stored \cup {s},
             stored \subseteq rows,
             session' = [session EXCEPT !.stored = stored, !.at = "prepare", !.slot = @ + 1],
             rows' = rows, streamed' \subseteq streamed, Forgets, job' \in [Jobs -> JobStates]
      PROVE  Inv'
    <2>1. s \in 1 .. NumSlots + 1 /\ s + 1 \in 1 .. NumSlots + 1
        BY <1>3, SlotsAreNumbers
    <2>2. session' \in SessionType /\ session'.n = session.n /\ session'.at = "prepare"
          /\ session'.ending = session.ending /\ session'.stored = stored
        BY <1>1, <1>3, <2>1 DEF SessionType, Points
    <2>3. ThreadIsSound'
        BY <1>1, <1>3, <2>2 DEF Prepare, Inv, ThreadIsSound, InAt, certificationVars
    <2> QED
        BY <1>3, <2>2, <2>3, SessionStep
           DEF Prepare, Inv, TypeOK, EndingsAreTrue, CompletedIsCertified
<1>4. CASE /\ s \in rows /\ UNCHANGED <<rows, streamed, job>>
           /\ session' = Advance([session EXCEPT !.stored = @ \cup {s}], "prepare")
    <2>1. session' = [session EXCEPT !.stored = session.stored \cup {s}, !.at = "prepare",
                                     !.slot = @ + 1]
        BY <1>1, <1>4 DEF Advance, SessionType
    <2>2. s \in Slots /\ session.stored \cup {s} \subseteq rows
        BY <1>4 DEF Inv, TypeOK, ThreadIsSound
    <2> QED
        BY <1>3, <1>4, <2>1, <2>2 DEF Forgets, Inv, TypeOK
<1>5. CASE /\ s \in Slots \ rows /\ Recoverable(s)
           /\ rows' = rows \cup {s} /\ Compare(s, session, "prepare")
           /\ UNCHANGED <<streamed, job>>
    <2>1. session' \in SessionType /\ session'.at = "adopt" /\ session'.n = session.n
          /\ session'.slot = s /\ session'.back = "prepare"
          /\ session'.stored = session.stored /\ session'.ending = session.ending
        BY <1>1, <1>5 DEF Compare, SessionType, Beats, Points
    <2>2. ThreadIsSound'
        BY <1>1, <1>5, <2>1 DEF Prepare, Inv, ThreadIsSound, InAt, certificationVars
    <2>3. Clean(s)
        BY <1>5 DEF Recoverable, Inv, DiskIsClean
    <2> QED
        BY <1>5, <2>1, <2>2, <2>3, SessionStep
           DEF Prepare, Inv, TypeOK, Forgets, EndingsAreTrue, CompletedIsCertified
<1>6. CASE /\ s \in Slots \ rows /\ streamed' = streamed \ {s}
           /\ IF s \in streamed THEN UNCHANGED job ELSE Submit(s)
           /\ session' = Advance(session, "prepare") /\ UNCHANGED rows
    <2>1. session' = [session EXCEPT !.stored = session.stored, !.at = "prepare", !.slot = @ + 1]
        BY <1>1, <1>6 DEF Advance, SessionType
    <2>2. Forgets /\ job' \in [Jobs -> JobStates]
        BY <1>6 DEF Submit, Forgets, Inv, TypeOK, JobStates
    <2>3. session.stored \subseteq rows
        BY DEF Inv, ThreadIsSound
    <2> QED
        BY <1>3, <1>6, <2>1, <2>2, <2>3
<1> QED
    BY <1>2, <1>4, <1>5, <1>6 DEF Prepare

\* A row that is published is that of a job that ended well.
LEMMA PublishingIsClean ==
    ASSUME Inv, NEW s \in Slots, PublishCompleted(s), Clean(s)
    PROVE  /\ rows \subseteq rows' /\ rows' \subseteq Slots /\ s \in rows'
           /\ \A t \in rows' : t \in rows \/ Clean(t)
           /\ announced' \subseteq rows' /\ best' \in 0 .. NumSlots
<1>1. s \in 0 .. NumSlots
    BY Numbers DEF Slots
<1> QED
    BY <1>1 DEF PublishCompleted, Inv, TypeOK, ThreadIsSound

LEMMA CallbackKeepsInv == ASSUME Inv, NEW j \in Jobs, Callback(j) PROVE Inv'
<1>1. j[2] \in Slots /\ Clean(j[2])
    BY JobsAreTyped DEF Callback, Unpublished, Inv, JobIsClean
<1>2. /\ rows \subseteq rows' /\ rows' \subseteq Slots
      /\ \A t \in rows' : t \in rows \/ Clean(t)
      /\ announced' \subseteq rows' /\ best' \in 0 .. NumSlots
    BY <1>1, PublishingIsClean DEF Callback
<1>3. ThreadIsSound'
    BY <1>2 DEF Callback, Inv, ThreadIsSound, InAt, certificationVars
<1> QED
    BY <1>2, <1>3, SessionStep
       DEF Callback, Inv, TypeOK, Forgets, EndingsAreTrue, CompletedIsCertified

LEMMA AwaitKeepsInv == ASSUME Inv, Await PROVE Inv'
<1> DEFINE s == session.slot
<1>1. session \in SessionType /\ InAt("await") /\ session.n # 0 /\ s \in Slots
    BY DEF Await, Inv, TypeOK, ThreadIsSound, InAt
<1>2. s \in Nat /\ s \in 1 .. NumSlots + 1 /\ s + 1 \in 1 .. NumSlots + 1
    BY <1>1, SlotsAreNumbers
<1>3. This(s) \in Jobs /\ This(s)[2] = s
    BY <1>1, ThisIsAJob DEF Inv, InAt
<1>4. CASE /\ s \in session.stored /\ Compare(s, session, "await")
           /\ UNCHANGED <<zero, durable, streamed, announced, best, job, certificationVars>>
    <2>1. session' \in SessionType /\ session'.at = "adopt" /\ session'.n = session.n
          /\ session'.slot = s /\ session'.back = "await"
          /\ session'.stored = session.stored /\ session'.ending = session.ending
        BY <1>1, <1>4 DEF Compare, SessionType, Beats, Points
    <2>2. ThreadIsSound'
        BY <1>1, <1>4, <2>1 DEF Inv, ThreadIsSound, InAt, durable, certificationVars
    <2> QED
        BY <1>4, <2>1, <2>2, SessionStep
           DEF durable, Inv, TypeOK, Forgets, EndingsAreTrue, CompletedIsCertified
<1>5. CASE /\ s \notin session.stored /\ job[This(s)] = "result"
           /\ PublishCompleted(s) /\ session' = Advance(session, "await")
           /\ UNCHANGED <<zero, accepted, episodes, development, replay, selected, outcome, deaths,
                          streamed, job, certificationVars>>
    <2>1. Clean(s)
        BY <1>3, <1>5 DEF Inv, JobIsClean
    <2>2. /\ rows \subseteq rows' /\ rows' \subseteq Slots /\ s \in rows'
          /\ \A t \in rows' : t \in rows \/ Clean(t)
          /\ announced' \subseteq rows' /\ best' \in 0 .. NumSlots
        BY <1>1, <1>5, <2>1, PublishingIsClean
    <2>3. session' \in SessionType /\ session'.at = "await" /\ session'.n = session.n
          /\ session'.slot = s + 1
          /\ session'.stored = session.stored /\ session'.ending = session.ending
        BY <1>1, <1>2, <1>5 DEF Advance, SessionType, Points
    <2>4. \A t \in Slots : t < s + 1 => t < s \/ t = s
        BY <1>2, SlotsAreNumbers
    <2>5. ThreadIsSound'
        BY <1>1, <1>5, <2>2, <2>3, <2>4 DEF Inv, ThreadIsSound, InAt, certificationVars
    <2> QED
        BY <1>5, <2>2, <2>3, <2>5, SessionStep
           DEF Inv, TypeOK, Forgets, EndingsAreTrue, CompletedIsCertified
<1>6. CASE Ending(EndingOf(job[This(s)]))
    <2>1. EndingOf(job[This(s)]) \in Outcomes
        BY DEF EndingOf, Outcomes
    <2>2. EndingOf(job[This(s)]) = "completed" => certified # {}
        BY <1>3 DEF EndingOf, Inv, JobIsClean
    <2> QED
        BY <1>1, <1>6, <2>1, <2>2, EndingKeepsInv DEF InAt
<1> QED
    BY <1>4, <1>5, <1>6 DEF Await

LEMMA SelectKeepsInv == ASSUME Inv, Select PROVE Inv'
<1>1. session \in SessionType /\ InAt("await") /\ session.n # 0 /\ session.slot = NumSlots + 1
    BY DEF Select, Inv, TypeOK, ThreadIsSound, InAt
<1>2. CASE Ending("interrupted")
    BY <1>1, <1>2, EndingKeepsInv DEF InAt, Outcomes
<1>3. CASE /\ selected' = best /\ CancelQueued
           /\ session' = [session EXCEPT !.at = "close", !.ending = "exhausted"]
           /\ UNCHANGED <<zero, accepted, episodes, development, replay, rows, outcome, deaths,
                          streamed, announced, best, certificationVars>>
    <2>1. rows = Slots
        <3>1. \A s \in Slots : s < NumSlots + 1
            BY Numbers DEF Slots
        <3> QED
            BY <1>1, <3>1 DEF Inv, TypeOK, ThreadIsSound
    <2>2. session' \in SessionType /\ session'.at = "close" /\ session'.n = session.n
          /\ session'.stored = session.stored /\ session'.ending = "exhausted"
        BY <1>1, <1>3 DEF SessionType, Points, Outcomes
    <2>3. ThreadIsSound'
        BY <1>1, <1>3, <2>2 DEF Inv, ThreadIsSound, InAt, certificationVars
    <2>4. selected' \in -1 .. NumSlots
        BY <1>3, Numbers DEF Inv, TypeOK
    <2> QED
        BY <1>3, <2>1, <2>2, <2>3, <2>4, CancellingForgets, SessionStep
           DEF Inv, TypeOK, EndingsAreTrue, CompletedIsCertified
<1> QED
    BY <1>2, <1>3 DEF Select

LEMMA RequestStopKeepsInv == ASSUME Inv, RequestStop PROVE Inv'
<1>1. session' \in SessionType /\ session'.at = session.at /\ session'.n = session.n
      /\ session'.ending = session.ending /\ session'.stored = session.stored
      /\ session'.slot = session.slot /\ session'.back = session.back
    BY DEF Inv, TypeOK, SessionType, RequestStop
<1>2. ThreadIsSound'
    BY <1>1 DEF RequestStop, Inv, ThreadIsSound, InAt, durable, certificationVars
<1> QED
    BY <1>1, <1>2, SessionStep
       DEF RequestStop, Inv, TypeOK, Forgets, durable, EndingsAreTrue, CompletedIsCertified

-----------------------------------------------------------------------------
(***************************************************************************)
(* Steps of one evaluation process.  What is left to show of one: its own  *)
(* job, and that the files it writes are of a clean slot.                  *)
(***************************************************************************)
LEMMA JobStep ==
    ASSUME Inv, NEW j \in Jobs, UNCHANGED <<NotPool, verdict>>,
           certified \subseteq certified', certified' \subseteq Graphs,
           says' \in [Jobs -> [graph: Graphs \cup {NoGraph}, at: Decisions \cup {"off", "open"}]],
           job' \in [Jobs -> JobStates],
           \A k \in Jobs \ {j} : job'[k] = job[k] /\ says'[k] = says[k],
           JobIsClean(j)', replay' \subseteq replay \cup {j[2]},
           episodes \subseteq episodes', episodes' \subseteq episodes \cup {j[2]},
           development \subseteq development', development' \subseteq development \cup {j[2]},
           (episodes' # episodes \/ development' # development) => Clean(j[2])
    PROVE  Inv'
<1> USE DEF NotPool, memory
<1>1. TypeOK'
    BY JobsAreTyped DEF Inv, TypeOK, CertificationTypeOK
<1>2. ThreadIsSound'
    BY DEF Inv, ThreadIsSound, InAt
<1>3. DiskIsClean'
    BY DEF Inv, DiskIsClean, Clean
<1>4. EndingsAreTrue'
    BY DEF Inv, EndingsAreTrue, NoCounterexamplePassed, CompletedIsCertified
<1>5. ASSUME NEW k \in Jobs \ {j} PROVE JobIsClean(k)'
    BY DEF Inv, JobIsClean, Clean
<1> QED
    BY <1>1, <1>2, <1>3, <1>4, <1>5 DEF Inv

LEMMA Becoming ==
    ASSUME TypeOK, NEW j \in Jobs, NEW state \in JobStates, Becomes(j, state)
    PROVE  /\ job' \in [Jobs -> JobStates] /\ job'[j] \in {state, "none"}
           /\ \A k \in Jobs \ {j} : job'[k] = job[k]
BY DEF TypeOK, Becomes, JobStates

LEMMA StartKeepsInv == ASSUME Inv, NEW j \in Jobs, Start(j) PROVE Inv'
<1>1. j[2] \in Slots /\ zero[j[2]] \in Graphs \cup {NoGraph}
    BY JobsAreTyped DEF Inv, TypeOK
<1>2. PICK state \in {"written", "running"} :
          Becomes(j, state) /\ (state = "written" => j[2] \in development)
    BY DEF Start
<1>3. /\ job' \in [Jobs -> JobStates] /\ job'[j] \in {state, "none"}
      /\ \A k \in Jobs \ {j} : job'[k] = job[k]
    BY <1>2, Becoming DEF Inv, JobStates
<1>4. CASE (j[2] \in development \cup episodes \/ zero[j[2]] = NoGraph) /\ UNCHANGED certificationVars
    <2>1. Clean(j[2])
        BY <1>4 DEF Inv, DiskIsClean, Clean
    <2>2. JobIsClean(j)'
        BY <1>2, <1>3, <1>4, <2>1 DEF Start, NotPool, Inv, JobIsClean, Clean, certificationVars
    <2> QED
        BY <1>3, <1>4, <2>2, JobStep DEF Start, Inv, TypeOK, CertificationTypeOK, certificationVars
<1>5. CASE j[2] \notin development /\ zero[j[2]] # NoGraph /\ Meet(j, zero[j[2]])
    <2>1. says'[j] = [graph |-> zero[j[2]], at |-> "open"]
        BY <1>5 DEF Meet, Inv, TypeOK, CertificationTypeOK
    <2>2. /\ says' \in [Jobs -> [graph: Graphs \cup {NoGraph}, at: Decisions \cup {"off", "open"}]]
          /\ \A k \in Jobs \ {j} : says'[k] = says[k]
        BY <1>1, <1>5 DEF Meet, Inv, TypeOK, CertificationTypeOK
    <2>3. JobIsClean(j)'
        BY <1>1, <1>2, <1>3, <1>5, <2>1 DEF Start, NotPool, JobIsClean
    <2> QED
        BY <1>3, <1>5, <2>2, <2>3, JobStep DEF Start, Meet, Inv, TypeOK, CertificationTypeOK
<1> QED
    BY <1>4, <1>5 DEF Start

LEMMA InspectKeepsInv == ASSUME Inv, NEW j \in Jobs, Inspect(j) PROVE Inv'
<1>1. PICK d \in Answers(says[j].graph) :
          /\ says' = [says EXCEPT ![j].at = d]
          /\ certified' = IF d = "verified" THEN certified \cup {says[j].graph} ELSE certified
    BY DEF Inspect, Decide
<1>2. says[j].at = "open" /\ job[j] = "running" /\ d \in Decisions
    BY DEF Inspect, Decide, Answers, Decisions
<1>3. /\ says' \in [Jobs -> [graph: Graphs \cup {NoGraph}, at: Decisions \cup {"off", "open"}]]
      /\ \A k \in Jobs \ {j} : says'[k] = says[k]
      /\ says'[j].at = d /\ says'[j].graph = says[j].graph
    BY <1>1, <1>2 DEF Inv, TypeOK, CertificationTypeOK
<1>4. certified \subseteq certified' /\ certified' \subseteq Graphs
      /\ (d = "verified" => certified' # {})
    BY <1>1, <1>2 DEF Inv, TypeOK, CertificationTypeOK, JobIsClean
<1>5. d = "continue" => verdict[says[j].graph]["primary"] = "REJECTED"
    BY DEF Answers
<1>6. verdict' = verdict /\ zero' = zero /\ job' = job
    BY DEF Inspect, Decide, NotPool
<1>7. JobIsClean(j)'
    BY <1>2, <1>3, <1>4, <1>5, <1>6 DEF Inv, JobIsClean, Clean, Decisions
<1> QED
    BY <1>3, <1>4, <1>6, <1>7, JobStep DEF Inspect, Inv, TypeOK

LEMMA EpisodeKeepsInv == ASSUME Inv, NEW j \in Jobs, Episode(j) PROVE Inv'
<1>1. /\ says' \in [Jobs -> [graph: Graphs \cup {NoGraph}, at: Decisions \cup {"off", "open"}]]
      /\ \A k \in Jobs \ {j} : says'[k] = says[k]
      /\ says'[j] = Off
    BY DEF Episode, Inv, TypeOK, CertificationTypeOK, Off
<1>2. Off.at = "off"
    BY DEF Off
<1>3. CASE /\ says[j].at \in {"off", "continue"}
           /\ episodes' = episodes \cup {j[2]} /\ Becomes(j, "passed")
    <2>1. Clean(j[2])
        BY <1>3 DEF Episode, Inv, JobIsClean
    <2>2. /\ job' \in [Jobs -> JobStates] /\ job'[j] \in {"passed", "none"}
          /\ \A k \in Jobs \ {j} : job'[k] = job[k]
        BY <1>3, Becoming DEF Inv, JobStates
    <2>3. JobIsClean(j)'
        BY <1>1, <1>2, <2>1, <2>2 DEF Episode, NotPool, Inv, JobIsClean, Clean
    <2> QED
        BY <1>1, <1>3, <2>1, <2>2, <2>3, JobStep DEF Episode, Inv, TypeOK, CertificationTypeOK
<1>4. CASE /\ says[j].at \notin {"off", "continue"}
           /\ Becomes(j, says[j].at) /\ UNCHANGED episodes
    <2>1. says[j].at \in {"verified", "pause", "fail", "error"}
        BY <1>4 DEF Episode, Inv, TypeOK, CertificationTypeOK, Decisions
    <2>2. /\ job' \in [Jobs -> JobStates] /\ job'[j] \in {says[j].at, "none"}
          /\ \A k \in Jobs \ {j} : job'[k] = job[k]
        BY <1>4, <2>1, Becoming DEF Inv, JobStates
    <2>3. JobIsClean(j)'
        BY <1>1, <1>2, <2>1, <2>2 DEF Episode, NotPool, Inv, JobIsClean, Clean
    <2> QED
        BY <1>1, <1>4, <2>2, <2>3, JobStep DEF Episode, Inv, TypeOK, CertificationTypeOK
<1> QED
    BY <1>3, <1>4 DEF Episode

LEMMA WriteKeepsInv == ASSUME Inv, NEW j \in Jobs, Write(j) PROVE Inv'
<1>1. Clean(j[2])
    BY DEF Write, Inv, JobIsClean
<1>2. /\ job' \in [Jobs -> JobStates] /\ job'[j] \in {"written", "none"}
      /\ \A k \in Jobs \ {j} : job'[k] = job[k]
    BY Becoming DEF Write, Inv, JobStates
<1>3. JobIsClean(j)'
    BY <1>1, <1>2 DEF Write, NotPool, Inv, JobIsClean, Clean, certificationVars
<1> QED
    BY <1>1, <1>2, <1>3, JobStep DEF Write, Inv, TypeOK, CertificationTypeOK, certificationVars

LEMMA FinishKeepsInv == ASSUME Inv, NEW j \in Jobs, Finish(j) PROVE Inv'
<1>1. Clean(j[2])
    BY DEF Finish, Inv, JobIsClean
<1>2. /\ job' \in [Jobs -> JobStates] /\ job'[j] \in {"result", "none"}
      /\ \A k \in Jobs \ {j} : job'[k] = job[k]
    BY Becoming DEF Finish, Inv, JobStates
<1>3. JobIsClean(j)'
    BY <1>1, <1>2 DEF Finish, NotPool, Inv, JobIsClean, Clean, certificationVars
<1> QED
    BY <1>1, <1>2, <1>3, JobStep DEF Finish, Inv, TypeOK, CertificationTypeOK, certificationVars

-----------------------------------------------------------------------------
(***************************************************************************)
(* Faults: jobs and inspections are forgotten, and the session with them.  *)
(***************************************************************************)
LEMMA DeathKeepsInv ==
    ASSUME Inv, NEW S, S \subseteq Jobs, Kill(S), Gone
    PROVE  Inv'
<1>1. session' \in SessionType /\ session'.at = "off" /\ session'.stored = {}
      /\ session'.ending = "idle"
    BY DownIsTyped DEF Inv, TypeOK, SessionType, Gone, Down
<1>2. ThreadIsSound'
    BY <1>1 DEF Gone, ThreadIsSound, InAt
<1>3. /\ job' \in [Jobs -> JobStates]
      /\ says' \in [Jobs -> [graph: Graphs \cup {NoGraph}, at: Decisions \cup {"off", "open"}]]
    BY DEF Kill, Inv, TypeOK, CertificationTypeOK, JobStates, Off
<1>4. TypeOK'
    BY <1>1, <1>3, Numbers DEF Gone, Inv, TypeOK, CertificationTypeOK, Outcomes
<1>5. DiskIsClean' /\ EndingsAreTrue'
    BY DEF Gone, Inv, DiskIsClean, Clean, EndingsAreTrue, NoCounterexamplePassed,
           CompletedIsCertified
<1>6. ASSUME NEW j \in Jobs PROVE JobIsClean(j)'
    <2>1. Off.at = "off"
        BY DEF Off
    <2>2. CASE j \in S
        BY <2>1, <2>2 DEF Kill, JobIsClean
    <2>3. CASE j \notin S
        BY <2>3 DEF Kill, Gone, Inv, JobIsClean, Clean
    <2> QED
        BY <2>2, <2>3
<1> QED
    BY <1>2, <1>4, <1>5, <1>6 DEF Inv

LEMMA InitInv == Init => Inv
<1> SUFFICES ASSUME Init PROVE Inv
    OBVIOUS
<1>1. session \in SessionType /\ session.at = "off" /\ session.stored = {} /\ session.ending = "idle"
    BY DownIsTyped, Numbers DEF Init, Down
<1>2. TypeOK
    BY <1>1, Numbers DEF Init, CertificationInit, TypeOK, CertificationTypeOK, Outcomes, JobStates, Off
<1>3. ThreadIsSound /\ DiskIsClean /\ EndingsAreTrue
    BY <1>1 DEF Init, ThreadIsSound, InAt, DiskIsClean, EndingsAreTrue, NoCounterexamplePassed,
                CompletedIsCertified
<1>4. \A j \in Jobs : JobIsClean(j)
    BY DEF Init, CertificationInit, JobIsClean, Off
<1> QED
    BY <1>2, <1>3, <1>4 DEF Inv

LEMMA StutterKeepsInv == ASSUME Inv, UNCHANGED vars PROVE Inv'
BY DEF vars, durable, memory, certificationVars, Inv, TypeOK, CertificationTypeOK, ThreadIsSound, InAt,
       DiskIsClean, JobIsClean, Clean, EndingsAreTrue, NoCounterexamplePassed, CompletedIsCertified

LEMMA NextKeepsInv == ASSUME Inv, [Next]_vars PROVE Inv'
<1>1. ASSUME Session PROVE Inv'
    BY <1>1, StartSessionKeepsInv, StreamKeepsInv, AdoptKeepsInv, LeaveGenerationKeepsInv,
       EnterCallbackKeepsInv, PrepareKeepsInv, ExpireInCallbackKeepsInv, AwaitKeepsInv,
       SelectKeepsInv, CloseSessionKeepsInv DEF Session
<1>2. ASSUME NEW j \in Jobs, Evaluate(j) \/ Callback(j) PROVE Inv'
    BY <1>2, StartKeepsInv, InspectKeepsInv, EpisodeKeepsInv, WriteKeepsInv, FinishKeepsInv,
       CallbackKeepsInv DEF Evaluate
<1>3. ASSUME Interrupt \/ Crash PROVE Inv'
    <2>1. PICK S \in SUBSET Live : Kill(S) /\ Gone
        BY <1>3 DEF Interrupt, Crash
    <2> QED
        BY <2>1, DeathKeepsInv DEF Live
<1>4. CASE UNCHANGED vars
    BY <1>4, StutterKeepsInv
<1> QED
    BY <1>1, <1>2, <1>3, <1>4, RequestStopKeepsInv DEF Next, Rest

\* Types, the thread of the session, the files and the jobs, held together.
THEOREM Invariant == Spec => []Inv
<1>1. Init => Inv
    BY InitInv
<1>2. Inv /\ [Next]_vars => Inv'
    BY NextKeepsInv
<1> QED
    BY <1>1, <1>2, PTL DEF Spec

\* Every variable of the evaluations and of the promise they rely on keeps its type.
THEOREM TypeCorrect == Spec => []TypeOK
<1>1. Inv => TypeOK
    BY DEF Inv
<1> QED
    BY <1>1, Invariant, PTL

\* A generation is selected only when every slot has its row and none met a
\* graph the primary verifier does not reject, and an experiment is completed
\* only with a certificate (on_generation, run): for any number of slots,
\* sessions, deaths and processes.
THEOREM EndingsTrue == Spec => []EndingsAreTrue
<1>1. Inv => EndingsAreTrue
    BY DEF Inv
<1> QED
    BY <1>1, Invariant, PTL

==============================================================================
