------------------------- MODULE ScientificSearchProofs -------------------------
(* Theorems about ScientificSearch, for any slots, lanes, limits and programs. *)
EXTENDS ScientificSearch, FiniteSetTheorems, TLAPS

(***************************************************************************)
(* Shapes, as far as the arguments below look at them.                     *)
(***************************************************************************)
Statuses == {"evaluated", "duplicate", "evaluation_failed", "provider_failed",
             "contract_invalid"}
Programmed == {"evaluated", "duplicate", "evaluation_failed"}
Calls == InFlight \cup {"done", "raised", "infrastructure"}
Last == Cardinality(Slots)

Shape ==
    /\ manifest \in [Gens -> {<<>>} \cup [Slots -> {0} \cup Slots]]
    /\ answer \in [Turns -> {"none", "invalid"} \cup Programs]
    /\ repairAnswer \in [Places -> {"none", "invalid"} \cup Programs]
    /\ prepared \in [Places -> {"none"} \cup Programs]
    /\ candidate \in [Places -> {"none"} \cup Statuses]
    /\ baselines \subseteq Gens
    /\ gen \in Nat
    /\ entry \in [Slots -> {"unprocessed", "open", "queued", "retained", "provider_failed",
                            "contract_invalid"}]
    /\ key \in [Slots -> Attempts]
    /\ call \in [Slots -> {"none"} \cup Calls]
    /\ repairCall \in {"none"} \cup Calls

(***************************************************************************)
(* The generations.  m have a manifest, and all but the last of them are   *)
(* whole; a process is at the last, or at the one that follows it.         *)
(***************************************************************************)
HasManifest(g) == manifest[g] # <<>>

Unborn(g) ==
    /\ \A s \in Slots : candidate[<<g, s>>] = "none" /\ prepared[<<g, s>>] = "none"
    /\ \A s \in Slots, a \in Attempts : <<g, s, a>> \notin primary

AtWork == pc \notin {"down", "top"} \cup Stops

Reached(m) ==
    /\ \A g \in Gens : HasManifest(g) <=> g <= m
    /\ \A g \in Gens : g < m => Settled(g)
    /\ pc # "down" =>
        \/ gen = m /\ gen # 0
        \/ gen = m + 1 /\ ~AtWork /\ \A g \in Gens : g <= m => Settled(g)

GenerationsFollow ==
    /\ \E m \in 0..Generations : Reached(m)
    /\ \A g \in Gens : ~HasManifest(g) => Unborn(g)

(* Within a generation: candidates are a prefix, up to the cursor at least. *)
PrefixCommitted ==
    /\ \A g \in Gens, r, s \in Slots :
        r < s /\ Committed(<<g, s>>) => Committed(<<g, r>>)
    /\ pc # "down" /\ gen \in Gens =>
        \A r \in Slots : r < cursor => Committed(Here(r))
    /\ pc \in {"baselines", "committed"} => cursor = Last + 1
    /\ pc = "committed" => gen \in baselines

(* A status tells whether the slot had a program. *)
StatusFitsProgram ==
    \A p \in Places :
        /\ candidate[p] \in Programmed => prepared[p] # "none"
        /\ candidate[p] \in {"provider_failed", "contract_invalid"} => prepared[p] = "none"

(***************************************************************************)
(* The turns of a slot: its retries are numbered from 1, each of them, and *)
(* the initial turn, started without an answer before the next one came.   *)
(***************************************************************************)
RetriesOf(g, s) == {a \in Attempts \ {0} : <<g, s, a>> \in primary}

RetriesFollow ==
    /\ \A g \in Gens, s \in Slots : \E m \in 0..RetryAttempts : RetriesOf(g, s) = 1..m
    /\ \A g \in Gens, s \in Slots, a, b \in Attempts :
        <<g, s, a>> \in primary /\ b < a =>
            <<g, s, b>> \in started /\ answer[<<g, s, b>>] = "none"
    /\ pc # "down" /\ gen \in Gens /\ budget.gen # gen =>
        \A s \in Pending(gen) : RetriesOf(gen, s) = {}
    /\ AtWork => \A s \in Slots : <<gen, s, 0>> \in primary

(***************************************************************************)
(* What the process holds of a slot, and what of it is durable.            *)
(***************************************************************************)
EntryIsBacked(s) ==
    /\ entry[s] # "unprocessed" =>
        /\ gen \in Gens /\ HasManifest(gen) /\ pc \notin {"down", "top", "prepare"}
        /\ s < scan
    /\ entry[s] = "unprocessed" => key[s] = 0 /\ call[s] = "none"
    /\ entry[s] = "open" =>
        /\ s \in Pending(gen) /\ Turn(s) \in primary
        /\ \A a \in Attempts : <<gen, s, a>> \in primary => a <= key[s]
    /\ entry[s] = "retained" => candidate[Here(s)] # "none"
    /\ entry[s] = "queued" => prepared[Here(s)] # "none"
    /\ entry[s] \in {"provider_failed", "contract_invalid"} =>
        Here(s) \in completed /\ prepared[Here(s)] = "none"
    /\ entry[s] \in {"queued", "provider_failed", "contract_invalid"} =>
        (pc \notin Stops /\ cursor <= s => candidate[Here(s)] = "none")
    /\ call[s] \in InFlight => entry[s] = "open"
    /\ call[s] = "turn" => Turn(s) \in started

(* The repair in flight is that of the slot being handled. *)
RepairIsOf(s) ==
    /\ Current = s /\ Open(s) /\ call[s] = "done" /\ Here(s) \in repairs
    /\ pc \in {"tasks"} \cup Stops
    /\ repairCall = "turn" => Here(s) \in repairStarted

RepairIsBacked == repairCall # "none" => \E s \in Slots : RepairIsOf(s)

Inv ==
    /\ TypeOK /\ Shape /\ GenerationsFollow /\ PrefixCommitted /\ StatusFitsProgram
    /\ RetriesFollow /\ RepairIsBacked /\ OneEvaluatedPerProgram
    /\ \A s \in Slots : EntryIsBacked(s)

-----------------------------------------------------------------------------
(***************************************************************************)
(* Numbers, least elements and what a step changes.                        *)
(***************************************************************************)
LEMMA UpTo == ASSUME NEW n \in Nat PROVE Cardinality(1..n) = n
<1>1. 1 \in Int /\ n \in Int OBVIOUS
<1>2. Cardinality(1..n) = IF 1 > n THEN 0 ELSE n - 1 + 1 BY <1>1, FS_Interval, Zenon
<1> DEFINE c == Cardinality(1..n)
<1>3. c = IF 1 > n THEN 0 ELSE n - 1 + 1 BY <1>2
<1> HIDE DEF c
<1>4. c = n BY <1>3
<1> QED BY <1>4 DEF c

LEMMA SlotsAreNumbers ==
    /\ Last \in Nat \ {0} /\ Slots = 1..Last /\ Last <= 8
<1>1. PICK n \in 1..8 : Slots = 1..n BY SearchAssumption, ZenonT(30)
<1>2. Cardinality(Slots) = n BY <1>1, UpTo
<1> QED BY <1>1, <1>2 DEF Last

LEMMA LimitsAreNumbers ==
    /\ Generations \in Nat /\ RetryAttempts \in Nat /\ 0 \in Attempts
    /\ "none" \notin Programs /\ "invalid" \notin Programs
    /\ \A g \in Gens : g \in Nat \ {0}
    /\ \A a \in Attempts : a \in Nat
BY SearchAssumption DEF Gens, Attempts

\* There are at most eight slots: looking at them one after the other finds
\* the least of those in a set.
HasLeast(S, k) == (\E x \in S : x <= k) => \E m \in S : \A r \in S : m <= r

\* Some slot is the least of those that are open, and it is the one handled.
LEMMA CurrentIsOpen ==
    ASSUME \E s \in Slots : Open(s)
    PROVE  Current \in Slots /\ Open(Current)
<1> DEFINE S == {s \in Slots : Open(s)}
<1>1. S \subseteq Nat \ {0} /\ S # {} /\ \A x \in S : x <= 8 BY SlotsAreNumbers
<1>2. \E m \in S : \A r \in S : m <= r
  <2> HIDE DEF S
  <2>0. HasLeast(S, 0) BY <1>1 DEF HasLeast
  <2>1. HasLeast(S, 1) BY <1>1, <2>0 DEF HasLeast
  <2>2. HasLeast(S, 2) BY <1>1, <2>1 DEF HasLeast
  <2>3. HasLeast(S, 3) BY <1>1, <2>2 DEF HasLeast
  <2>4. HasLeast(S, 4) BY <1>1, <2>3 DEF HasLeast
  <2>5. HasLeast(S, 5) BY <1>1, <2>4 DEF HasLeast
  <2>6. HasLeast(S, 6) BY <1>1, <2>5 DEF HasLeast
  <2>7. HasLeast(S, 7) BY <1>1, <2>6 DEF HasLeast
  <2>8. HasLeast(S, 8) BY <1>1, <2>7 DEF HasLeast
  <2> QED BY <1>1, <2>8 DEF HasLeast
<1>3. Min(S) \in S
  <2> HIDE DEF S
  <2> QED BY <1>2 DEF Min
<1> QED BY <1>3 DEF Current

LEMMA MinOfOne == ASSUME NEW x \in Nat PROVE Min({x}) = x
BY DEF Min

-----------------------------------------------------------------------------
(***************************************************************************)
(* Steps that only move the search thread.                                 *)
(***************************************************************************)
\* All but pc, the panels and the calls, and what may happen to these.
Standing ==
    <<status, ledger, artifacts, lanes, gen, budget, scan, cursor, entry, key, repairCall>>

Moves ==
    \/ pc' = pc
    \/ pc # "down" /\ pc' \in Stops
    \/ AtWork /\ pc' \in {"scan", "tasks", "drain"}
    \/ AtWork /\ pc' = "baselines" /\ cursor = Last + 1

OnlySubmits ==
    /\ call' \in [Slots -> {"none"} \cup Calls]
    /\ \A s \in Slots : call'[s] # call[s] =>
        call[s] = "none" /\ call'[s] = "submitted" /\ Open(s)

LEMMA SubmitNextOnlySubmits == ASSUME Shape, SubmitNext PROVE OnlySubmits
BY DEF Shape, SubmitNext, NextTasks, Calls, InFlight, OnlySubmits

LEMMA MovesKeep ==
    ASSUME Inv, UNCHANGED Standing, Moves, OnlySubmits,
           repairCall # "none" => pc' \in Stops \cup {pc}
    PROVE  Inv'
<1>1. TypeOK' /\ Shape'
    BY DEF Moves, OnlySubmits, AtWork, Inv, TypeOK, Shape, Standing, ledger, artifacts, lanes,
           Stops
<1>2. GenerationsFollow'
  <2>1. PICK m \in 0..Generations : Reached(m) BY DEF Moves, Inv, GenerationsFollow
  <2>2. Reached(m)'
      BY <2>1 DEF Moves, Reached, HasManifest, Settled, AtWork, Standing, ledger, artifacts,
                  lanes, Stops
  <2>3. \A g \in Gens : (~HasManifest(g) => Unborn(g))'
      BY DEF Moves, Inv, GenerationsFollow, HasManifest, Unborn, Standing, ledger, artifacts
  <2> QED BY <2>2, <2>3 DEF GenerationsFollow
<1>3. PrefixCommitted'
    BY DEF Moves, AtWork, Inv, PrefixCommitted, Committed, Here, Standing, ledger, artifacts,
           lanes, Stops, Last
<1>4. StatusFitsProgram' /\ OneEvaluatedPerProgram'
    BY DEF Moves, Inv, StatusFitsProgram, OneEvaluatedPerProgram, Committed, Standing,
           artifacts
<1>5. RetriesFollow'
    BY DEF Moves, Inv, RetriesFollow, RetriesOf, Pending, Here, AtWork, Standing, ledger,
           artifacts, Stops
<1>6. RepairIsBacked'
    BY DEF Moves, Inv, RepairIsBacked, RepairIsOf, OnlySubmits, Current, Open, Here, Standing,
           ledger, Stops
<1>7. ASSUME NEW s \in Slots PROVE EntryIsBacked(s)'
    BY DEF Moves, Inv, OnlySubmits, InFlight, Open, EntryIsBacked, HasManifest, Pending, Turn,
           Here, AtWork, Standing, ledger,
           artifacts, lanes, Stops
<1> QED BY <1>1, <1>2, <1>3, <1>4, <1>5, <1>6, <1>7 DEF Inv

-----------------------------------------------------------------------------
(***************************************************************************)
(* A process ends, one begins, and a generation follows another: nothing   *)
(* is held of any slot.                                                    *)
(***************************************************************************)
Durable == <<primary, started, repairs, repairStarted, artifacts, lanes>>

BudgetAgrees ==
    pc # "down" /\ gen \in Gens /\ budget.gen # gen =>
        \A s \in Pending(gen) : RetriesOf(gen, s) = {}

LEMMA FreshKeeps ==
    ASSUME Inv, FreshEntries, UNCHANGED Durable, pc' \in {"down", "top"}, gen' \in Nat,
           status' \in {"new", "running"} \cup Stops,
           \E m \in 0..Generations : Reached(m)', BudgetAgrees'
    PROVE  Inv'
<1> USE DEF FreshEntries, Durable, artifacts, lanes, All
<1>0. 1 \in 1..Last + 1 /\ \A s \in Slots : ~(s < 1) BY SlotsAreNumbers
<1>1. TypeOK' /\ Shape'
    BY <1>0, LimitsAreNumbers DEF Inv, TypeOK, Shape, Last
<1>2. GenerationsFollow'
  <2>1. \A g \in Gens : (~HasManifest(g) => Unborn(g))'
      BY DEF Inv, GenerationsFollow, HasManifest, Unborn
  <2> QED BY <2>1 DEF GenerationsFollow
<1>3. PrefixCommitted'
    BY <1>0 DEF Inv, PrefixCommitted, Committed
<1>4. StatusFitsProgram' /\ OneEvaluatedPerProgram'
    BY DEF Inv, StatusFitsProgram, OneEvaluatedPerProgram, Committed
<1>5. RetriesFollow'
    BY DEF Inv, RetriesFollow, BudgetAgrees, RetriesOf, Pending, Here, AtWork
<1>6. RepairIsBacked'
    BY DEF RepairIsBacked
<1>7. ASSUME NEW s \in Slots PROVE EntryIsBacked(s)'
    BY DEF EntryIsBacked, InFlight
<1> QED BY <1>1, <1>2, <1>3, <1>4, <1>5, <1>6, <1>7 DEF Inv

LEMMA DownKeeps ==
    ASSUME Inv, NEW reason \in Stops \cup {"running"}, Down(reason)
    PROVE  Inv'
<1>1. /\ FreshEntries /\ UNCHANGED Durable /\ pc' = "down" /\ gen' = 0 /\ status' = reason
    BY DEF Down, Durable, ledger
<1>2. PICK m \in 0..Generations : Reached(m) BY DEF Inv, GenerationsFollow
<1>3. Reached(m)' BY <1>1, <1>2 DEF Reached, HasManifest, Settled, Durable, artifacts
<1>4. BudgetAgrees' BY <1>1 DEF BudgetAgrees
<1> QED BY <1>1, <1>3, <1>4, FreshKeeps

\* The generation a process begins at: the last one, unless that is whole.
LEMMA NextGenerationFollows ==
    ASSUME Inv, NEW m \in 0..Generations, Reached(m)
    PROVE  /\ Manifests = 1..m
           /\ \/ m # 0 /\ Incomplete = {m} /\ NextGeneration = m
              \/ Incomplete = {} /\ NextGeneration = m + 1 /\ \A g \in Gens : g <= m => Settled(g)
<1>1. Manifests = 1..m BY LimitsAreNumbers DEF Reached, Manifests, HasManifest, Gens
<1>2. \A g \in Incomplete : g = m
    BY <1>1, LimitsAreNumbers DEF Reached, Incomplete, Manifests, Gens
<1>3. CASE Incomplete = {}
  <2>1. NextGeneration = m + 1 BY <1>1, <1>3, UpTo DEF NextGeneration
  <2>2. \A g \in Gens : g <= m => Settled(g)
      BY <1>1, <1>3, LimitsAreNumbers DEF Incomplete, Gens
  <2> QED BY <1>1, <1>3, <2>1, <2>2
<1>4. CASE Incomplete # {}
  <2>1. Incomplete = {m} /\ m # 0 BY <1>1, <1>2, <1>4 DEF Incomplete
  <2>2. NextGeneration = m BY <2>1, MinOfOne DEF NextGeneration
  <2> QED BY <1>1, <2>1, <2>2
<1> QED BY <1>3, <1>4

LEMMA OpenWorkspaceKeeps == ASSUME Inv, OpenWorkspace PROVE Inv'
<1>1. PICK m \in 0..Generations : Reached(m) BY DEF Inv, GenerationsFollow
<1>2. /\ FreshEntries /\ UNCHANGED Durable /\ pc' = "top" /\ gen' = NextGeneration
      /\ status' = "running" /\ budget' = ResumeBudget
    BY DEF OpenWorkspace, Durable
<1>3. \/ m # 0 /\ Incomplete = {m} /\ NextGeneration = m
      \/ Incomplete = {} /\ NextGeneration = m + 1 /\ \A g \in Gens : g <= m => Settled(g)
    BY <1>1, NextGenerationFollows
<1>4. gen' \in Nat BY <1>2, <1>3
<1>5. Reached(m)'
    BY <1>1, <1>2, <1>3 DEF Reached, HasManifest, Settled, AtWork, Durable, artifacts
<1>6. BudgetAgrees'
  <2>1. PICK g \in Nat : g = NextGeneration BY <1>2, <1>4
  <2> SUFFICES ASSUME g \in Gens, ResumeBudget.gen # g, NEW s \in Slots, s \in Pending(g)
               PROVE  RetriesOf(g, s) = {}
      BY <1>2, <2>1 DEF BudgetAgrees, Pending, RetriesOf, Durable, artifacts
  <2>2. CASE Incomplete = {}
    <3>1. Unborn(g) BY <1>1, <1>3, <2>1, <2>2 DEF Reached, Inv, GenerationsFollow
    <3> QED BY <3>1 DEF Unborn, RetriesOf
  <2>3. CASE Incomplete # {}
    <3>1. ~ResumeGuard.set BY <2>1, <2>3 DEF ResumeBudget
    <3>2. Pending(g) = {} BY <2>1, <2>3, <3>1 DEF ResumeGuard
    <3> QED BY <3>2
  <2> QED BY <2>2, <2>3
<1>7. \E k \in 0..Generations : Reached(k)' BY <1>5
<1> QED BY <1>2, <1>4, <1>6, <1>7, FreshKeeps

LEMMA EndGenerationKeeps == ASSUME Inv, EndGeneration PROVE Inv'
<1>1. PICK m \in 0..Generations : Reached(m) BY DEF Inv, GenerationsFollow
<1>2. /\ FreshEntries /\ UNCHANGED Durable /\ pc = "committed" /\ pc' = "top"
      /\ gen' = gen + 1 /\ status' = status
    BY DEF EndGeneration, Durable
<1>3. gen = m /\ m # 0 /\ gen \in Gens
  <2>1. pc # "down" /\ AtWork BY <1>2 DEF AtWork, Stops
  <2>2. gen = m /\ gen # 0 BY <1>1, <2>1, Zenon DEF Reached
  <2> QED BY <2>2, LimitsAreNumbers DEF Gens
<1>4. Settled(gen)
    BY <1>2, <1>3, SlotsAreNumbers DEF Inv, PrefixCommitted, Settled, Committed, Here
<1>5. Reached(m)'
  <2>1. \A g \in Gens : (HasManifest(g)' <=> HasManifest(g)) /\ (Settled(g)' <=> Settled(g))
      BY <1>2 DEF HasManifest, Settled, Durable, artifacts
  <2>2. \A g \in Gens : g <= m => Settled(g)
      BY <1>1, <1>3, <1>4, LimitsAreNumbers DEF Reached
  <2>3. ~AtWork' /\ gen' = m + 1
      BY <1>2, <1>3 DEF AtWork
  <2> QED
      BY <1>1, <2>1, <2>2, <2>3 DEF Reached
<1>6. BudgetAgrees'
  <2>1. gen' \in Gens => Unborn(gen')
      BY <1>1, <1>2, <1>3 DEF Reached, Inv, GenerationsFollow
  <2> QED BY <1>2, <2>1 DEF BudgetAgrees, Unborn, RetriesOf, Pending, Durable, artifacts
<1>7. gen' \in Nat /\ status' \in {"new", "running"} \cup Stops
    BY <1>2 DEF Inv, Shape, TypeOK
<1>8. \E k \in 0..Generations : Reached(k)' BY <1>5
<1> QED BY <1>2, <1>6, <1>7, <1>8, FreshKeeps

LEMMA ParentsAreAManifest ==
    ASSUME NEW parentOf \in [Slots -> {0} \cup Slots] PROVE parentOf # <<>>
<1>1. 1 \in DOMAIN parentOf BY SlotsAreNumbers
<1>2. DOMAIN <<>> = {} OBVIOUS
<1> QED BY <1>1, <1>2

LEMMA BeginGenerationKeeps == ASSUME Inv, BeginGeneration PROVE Inv'
<1>1. PICK m \in 0..Generations : Reached(m) BY DEF Inv, GenerationsFollow
<1>2. PICK parentOf \in [Slots -> {0} \cup Slots] :
        /\ HasManifest(gen) => parentOf = manifest[gen]
        /\ manifest' = [manifest EXCEPT ![gen] = parentOf]
    BY DEF BeginGeneration, HasManifest
<1>3. /\ pc = "top" /\ pc' = "prepare" /\ gen \in Gens /\ primary' = Reserved
      /\ UNCHANGED <<status, started, repairs, repairStarted, guard, answer, repairAnswer,
                     prepared, candidate, baselines, lanes, gen, budget, scan, cursor,
                     entry, key, call, repairCall, panel>>
    BY DEF BeginGeneration
<1>4. \A g \in Gens : HasManifest(g)' <=> HasManifest(g) \/ g = gen
    BY <1>2, <1>3, ParentsAreAManifest DEF HasManifest, Inv, Shape
<1>5. \A g \in Gens, s \in Slots, a \in Attempts :
        <<g, s, a>> \in primary' <=> <<g, s, a>> \in primary \/ (g = gen /\ a = 0)
    BY <1>3 DEF Reserved
<1>6. \A s \in Slots : entry[s] = "unprocessed" /\ key[s] = 0 /\ call[s] = "none"
  <2> TAKE s \in Slots
  <2>1. EntryIsBacked(s) BY DEF Inv
  <2> QED BY <1>3, <2>1 DEF EntryIsBacked
<1>7. TypeOK' /\ Shape'
  <2>1. primary' \subseteq Turns BY <1>3, LimitsAreNumbers DEF Inv, TypeOK, Turns, Reserved
  <2>2. primary \subseteq primary' BY <1>3 DEF Reserved
  <2>3. manifest' \in [Gens -> {<<>>} \cup [Slots -> {0} \cup Slots]] BY <1>2 DEF Inv, Shape
  <2> QED BY <1>3, <2>1, <2>2, <2>3 DEF Inv, TypeOK, Shape, lanes
<1>8. GenerationsFollow'
  <2>1. PICK k \in Nat : k = gen BY <1>3, LimitsAreNumbers
  <2>2. Reached(k)'
    <3>1. \A g \in Gens : g < k => Settled(g) BY <1>1, <1>3, <2>1 DEF Reached
    <3>2. \A g \in Gens : HasManifest(g)' <=> g <= k
        BY <1>1, <1>3, <1>4, <2>1, LimitsAreNumbers DEF Reached
    <3> QED BY <1>3, <2>1, <3>1, <3>2, LimitsAreNumbers DEF Reached, Settled
  <2>3. \A g \in Gens : (~HasManifest(g) => Unborn(g))'
      BY <1>3, <1>4, <1>5 DEF Inv, GenerationsFollow, Unborn
  <2>4. k \in 0..Generations BY <1>3, <2>1, LimitsAreNumbers DEF Gens
  <2> QED BY <2>2, <2>3, <2>4 DEF GenerationsFollow
<1>9. PrefixCommitted'
    BY <1>3 DEF Inv, PrefixCommitted, Committed, Here
<1>10. StatusFitsProgram' /\ OneEvaluatedPerProgram'
    BY <1>3 DEF Inv, StatusFitsProgram, OneEvaluatedPerProgram, Committed
<1>11. RetriesFollow'
  <2>1. \A g \in Gens, s \in Slots : RetriesOf(g, s)' = RetriesOf(g, s)
      BY <1>5 DEF RetriesOf
  <2>2. \A g \in Gens, s \in Slots, a, b \in Attempts :
            <<g, s, a>> \in primary' /\ b < a => <<g, s, a>> \in primary
      BY <1>5, LimitsAreNumbers
  <2>3. \A s \in Slots : <<gen, s, 0>> \in primary' BY <1>3 DEF Reserved
  <2> QED BY <1>3, <2>1, <2>2, <2>3 DEF Inv, RetriesFollow, Pending, Here
<1>12. RepairIsBacked'
    BY <1>3 DEF Inv, RepairIsBacked, RepairIsOf, Stops
<1>13. ASSUME NEW s \in Slots PROVE EntryIsBacked(s)'
    BY <1>3, <1>6 DEF EntryIsBacked, InFlight
<1> QED BY <1>7, <1>8, <1>9, <1>10, <1>11, <1>12, <1>13 DEF Inv

-----------------------------------------------------------------------------
(***************************************************************************)
(* The scan.                                                               *)
(***************************************************************************)
\* While the search thread is at work its generation has its manifest.
LEMMA AtWorkInGeneration ==
    ASSUME Inv, AtWork PROVE gen \in Gens /\ HasManifest(gen)
<1>1. PICK m \in 0..Generations : Reached(m) BY DEF Inv, GenerationsFollow
<1> QED BY <1>1, LimitsAreNumbers DEF Reached, AtWork, Gens

\* Steps within a generation that begin, commit and settle nothing, and add
\* no turn to the reservation of another.
LEMMA GenerationsStay ==
    ASSUME Inv, UNCHANGED <<manifest, gen>>,
           pc' # "down" => pc # "down", AtWork' => AtWork,
           \/ gen \in Gens /\ HasManifest(gen)
           \/ UNCHANGED <<candidate, prepared, primary, baselines>>,
           baselines \subseteq baselines',
           \A p \in Places : Committed(p) => Committed(p)',
           \A g \in Gens, s \in Slots : g # gen =>
                /\ candidate'[<<g, s>>] = candidate[<<g, s>>]
                /\ prepared'[<<g, s>>] = prepared[<<g, s>>],
           \A g \in Gens, s \in Slots, a \in Attempts : g # gen =>
                (<<g, s, a>> \in primary' <=> <<g, s, a>> \in primary)
    PROVE  GenerationsFollow'
<1>1. PICK m \in 0..Generations : Reached(m) BY DEF Inv, GenerationsFollow
<1>2. \A g \in Gens : Settled(g) => Settled(g)' BY DEF Settled, Committed, Places
<1>3. Reached(m)' BY <1>1, <1>2 DEF Reached, HasManifest
<1>4. \A g \in Gens : (~HasManifest(g) => Unborn(g))'
    BY DEF Inv, GenerationsFollow, HasManifest, Unborn
<1> QED BY <1>3, <1>4 DEF GenerationsFollow

LEMMA ScanRetainedKeeps == ASSUME Inv, ScanRetained PROVE Inv'
<1>1. /\ pc = "scan" /\ pc' = "commit" /\ scan \in Slots /\ scan' = scan + 1
      /\ UNCHANGED <<status, ledger, artifacts, completed, gen, budget, cursor, key, call,
                     repairCall>>
    BY DEF ScanRetained
<1>2. gen \in Gens /\ HasManifest(gen) BY <1>1, AtWorkInGeneration DEF AtWork, Stops
<1>3. repairCall = "none" BY <1>1 DEF Inv, RepairIsBacked, RepairIsOf, Stops
<1>4. scan \in Nat /\ scan' \in 1..Last + 1 BY <1>1, SlotsAreNumbers
<1>5. PICK what \in {"retained", "queued"} :
        /\ entry' = [entry EXCEPT ![scan] = what]
        /\ what = "retained" => candidate[Here(scan)] # "none"
        /\ what = "queued" => candidate[Here(scan)] = "none" /\ prepared[Here(scan)] # "none"
    BY <1>1 DEF ScanRetained, Pending, Here
<1>6. released' \subseteq completed BY DEF ScanRetained, MayRelease, Inv, TypeOK
<1>7. TypeOK' /\ Shape'
    BY <1>1, <1>4, <1>5, <1>6 DEF Inv, TypeOK, Shape, ledger, artifacts, Last
<1>8. GenerationsFollow'
    BY <1>1, <1>2, GenerationsStay DEF artifacts, ledger, AtWork, Stops, Committed
<1>9. PrefixCommitted'
    BY <1>1 DEF Inv, PrefixCommitted, Committed, Here, artifacts
<1>10. StatusFitsProgram' /\ OneEvaluatedPerProgram'
    BY <1>1 DEF Inv, StatusFitsProgram, OneEvaluatedPerProgram, Committed, artifacts
<1>11. RetriesFollow'
    BY <1>1 DEF Inv, RetriesFollow, RetriesOf, Pending, Here, AtWork, Stops, ledger, artifacts
<1>12. RepairIsBacked' BY <1>1, <1>3 DEF RepairIsBacked
<1>13. ASSUME NEW s \in Slots PROVE EntryIsBacked(s)'
  <2>1. s \in Nat /\ EntryIsBacked(s) /\ EntryIsBacked(scan) BY <1>1, SlotsAreNumbers DEF Inv
  <2>2. call[scan] = "none" BY <1>4, <2>1, <1>1 DEF EntryIsBacked
  <2>3. CASE s = scan
      BY <1>1, <1>2, <1>4, <1>5, <2>2, <2>3
         DEF EntryIsBacked, HasManifest, Here, InFlight, Inv, Shape, ledger, artifacts
  <2>4. CASE s # scan
      BY <1>1, <1>2, <1>4, <1>5, <2>1, <2>4
         DEF EntryIsBacked, HasManifest, Here, Turn, Pending, Inv, Shape, Stops, ledger,
             artifacts
  <2> QED BY <2>3, <2>4
<1> QED BY <1>7, <1>8, <1>9, <1>10, <1>11, <1>12, <1>13 DEF Inv

\* The attempt the scan chooses is the last of the slot, admitted or new: the
\* ones before it were started and never answered.
Chosen(a) ==
    /\ a \in Attempts
    /\ primary' = primary \cup {<<gen, scan, a>>}
    /\ key' = [key EXCEPT ![scan] = a]
    /\ <<gen, scan, a>> \notin primary => budget.gen = gen /\ RetriesOf(gen, scan) = 1..a - 1
    /\ \A b \in Attempts : <<gen, scan, b>> \in primary => b <= a
    /\ \A b \in Attempts : b < a =>
        <<gen, scan, b>> \in started /\ answer[<<gen, scan, b>>] = "none"

LEMMA ScanChoosesLast ==
    ASSUME Inv, ScanOpen
    PROVE  \E a \in Attempts : Chosen(a)
<1>1. /\ pc = "scan" /\ scan \in Slots /\ scan \in Pending(gen)
    BY DEF ScanOpen
<1>2. gen \in Gens BY <1>1, AtWorkInGeneration DEF AtWork, Stops
<1>3. <<gen, scan, 0>> \in primary BY <1>1 DEF Inv, RetriesFollow, AtWork, Stops
<1>4. \A a, b \in Attempts : <<gen, scan, a>> \in primary /\ b < a =>
          <<gen, scan, b>> \in started /\ answer[<<gen, scan, b>>] = "none"
    BY <1>1, <1>2 DEF Inv, RetriesFollow
<1>5. EntryIsBacked(scan) /\ scan \in Nat BY <1>1, SlotsAreNumbers DEF Inv
<1>6. key[scan] = 0 /\ key \in [Slots -> Attempts] BY <1>1, <1>5 DEF EntryIsBacked, Inv, Shape
<1>7. CASE ~Interrupted(scan)
  <2>1. primary' = primary /\ key' = key BY <1>1, <1>7 DEF ScanOpen
  <2>2. ASSUME NEW b \in Attempts, <<gen, scan, b>> \in primary PROVE b <= 0
    <3> SUFFICES ASSUME b # 0 PROVE FALSE BY LimitsAreNumbers
    <3>1. <<gen, scan, 0>> \in started /\ answer[<<gen, scan, 0>>] = "none"
        BY <1>4, <2>2, LimitsAreNumbers
    <3>2. budget.gen # gen BY <1>7, <3>1 DEF Interrupted
    <3>3. RetriesOf(gen, scan) = {} BY <1>1, <1>2, <3>2 DEF Inv, RetriesFollow
    <3> QED BY <2>2, <3>3 DEF RetriesOf
  <2>3. Chosen(0) BY <1>3, <1>6, <2>1, <2>2, LimitsAreNumbers DEF Chosen
  <2> QED BY <2>3, LimitsAreNumbers
<1>8. CASE Interrupted(scan) /\ Usable(scan) # {}
  <2>1. primary' = primary /\ key' = [key EXCEPT ![scan] = Min(Usable(scan))]
      BY <1>8 DEF ScanOpen
  <2>2. PICK a \in Usable(scan) : TRUE BY <1>8
  <2>3. a \in Attempts /\ <<gen, scan, a>> \in primary
      /\ (<<gen, scan, a>> \notin started \/ answer[<<gen, scan, a>>] # "none")
      BY <2>2 DEF Usable, Retries
  <2>4. \A b \in Attempts : <<gen, scan, b>> \in primary => b <= a
      BY <1>4, <2>3, LimitsAreNumbers
  <2>5. \A b \in Usable(scan) : b = a
    <3> TAKE b \in Usable(scan)
    <3>1. b \in Attempts /\ <<gen, scan, b>> \in primary
        /\ (<<gen, scan, b>> \notin started \/ answer[<<gen, scan, b>>] # "none")
        BY DEF Usable, Retries
    <3> QED BY <1>4, <2>3, <2>4, <3>1, LimitsAreNumbers
  <2>6. Usable(scan) = {a} BY <2>2, <2>5
  <2>7. Min(Usable(scan)) = a BY <2>3, <2>6, MinOfOne, LimitsAreNumbers
  <2>8. Chosen(a) BY <1>4, <2>1, <2>3, <2>4, <2>7 DEF Chosen
  <2> QED BY <2>3, <2>8
<1>9. CASE Interrupted(scan) /\ Usable(scan) = {}
  <2>1. PICK m \in 0..RetryAttempts : RetriesOf(gen, scan) = 1..m
      BY <1>1, <1>2 DEF Inv, RetriesFollow
  <2>2. FreshRetry(scan) = m + 1
    <3>1. Retries(scan) = 1..m BY <2>1 DEF Retries, RetriesOf
    <3>2. Cardinality(1..m) = m BY <2>1, UpTo
    <3> QED BY <3>1, <3>2 DEF FreshRetry
  <2>3. /\ m + 1 \in Attempts /\ primary' = primary \cup {<<gen, scan, m + 1>>}
        /\ key' = [key EXCEPT ![scan] = m + 1]
      BY <1>9, <2>2 DEF ScanOpen
  <2>4. \A b \in Attempts : <<gen, scan, b>> \in primary => b <= m
      BY <2>1, LimitsAreNumbers DEF RetriesOf
  <2>5. \A b \in Attempts : b < m + 1 =>
            <<gen, scan, b>> \in started /\ answer[<<gen, scan, b>>] = "none"
    <3> TAKE b \in Attempts
    <3>1. CASE b = 0 BY <1>9, <3>1 DEF Interrupted
    <3>2. CASE b # 0 /\ b < m + 1
      <4>1. b \in RetriesOf(gen, scan) BY <2>1, <3>2, LimitsAreNumbers
      <4> QED BY <1>9, <4>1 DEF RetriesOf, Retries, Usable
    <3> QED BY <3>1, <3>2
  <2>6. RetriesOf(gen, scan) = 1..(m + 1) - 1 BY <2>1
  <2>7. \A b \in Attempts : <<gen, scan, b>> \in primary => b <= m + 1
      BY <2>4, LimitsAreNumbers
  <2>8. Chosen(m + 1) BY <1>9, <2>3, <2>5, <2>6, <2>7 DEF Chosen, Interrupted
  <2> QED BY <2>3, <2>8
<1> QED BY <1>7, <1>8, <1>9

LEMMA ScanOpenKeeps == ASSUME Inv, ScanOpen PROVE Inv'
<1>1. /\ pc = "scan" /\ scan \in Slots /\ scan' = scan + 1 /\ scan \in Pending(gen)
      /\ entry' = [entry EXCEPT ![scan] = "open"]
      /\ UNCHANGED <<status, started, repairs, repairStarted, guard, artifacts, lanes, pc,
                     gen, budget, cursor, call, repairCall>>
    BY DEF ScanOpen
<1>2. PICK a \in Attempts : Chosen(a) BY ScanChoosesLast
<1>3. gen \in Gens /\ HasManifest(gen) BY <1>1, AtWorkInGeneration DEF AtWork, Stops
<1>4. repairCall = "none" BY <1>1 DEF Inv, RepairIsBacked, RepairIsOf, Stops
<1>5. scan \in Nat /\ scan' \in 1..Last + 1 BY <1>1, SlotsAreNumbers
<1>6. \A g \in Gens, s \in Slots, b \in Attempts :
        <<g, s, b>> \in primary' <=>
            <<g, s, b>> \in primary \/ (g = gen /\ s = scan /\ b = a)
    BY <1>2 DEF Chosen
<1>7. TypeOK' /\ Shape'
  <2>1. primary' \subseteq Turns /\ primary \subseteq primary' /\ key' \in [Slots -> Attempts]
      BY <1>1, <1>2, <1>3 DEF Chosen, Inv, TypeOK, Shape, Turns
  <2>2. entry' \in [Slots -> {"unprocessed", "open", "queued", "retained", "provider_failed",
                              "contract_invalid"}]
      BY <1>1 DEF Inv, Shape
  <2> QED BY <1>1, <1>5, <2>1, <2>2 DEF Inv, TypeOK, Shape, artifacts, lanes, Last
<1>8. GenerationsFollow'
    BY <1>1, <1>3, <1>6, GenerationsStay DEF artifacts, AtWork, Stops, Committed
<1>9. PrefixCommitted'
    BY <1>1 DEF Inv, PrefixCommitted, Committed, Here, artifacts
<1>10. StatusFitsProgram' /\ OneEvaluatedPerProgram'
    BY <1>1 DEF Inv, StatusFitsProgram, OneEvaluatedPerProgram, Committed, artifacts
<1>11. RetriesFollow'
  <2>1. ASSUME NEW g \in Gens, NEW s \in Slots
        PROVE  \E m \in 0..RetryAttempts : RetriesOf(g, s)' = 1..m
    <3>0. PICK m \in 0..RetryAttempts : RetriesOf(g, s) = 1..m BY DEF Inv, RetriesFollow
    <3>1. CASE g = gen /\ s = scan /\ <<gen, scan, a>> \notin primary
      <4>1. RetriesOf(gen, scan) = 1..a - 1 BY <1>2, <3>1 DEF Chosen
      <4>2. a # 0 BY <1>1, <3>1 DEF Inv, RetriesFollow, AtWork, Stops
      <4>3. RetriesOf(g, s)' = RetriesOf(g, s) \cup {a} BY <1>6, <3>1, <4>2 DEF RetriesOf
      <4>4. RetriesOf(g, s)' = 1..a BY <3>1, <4>1, <4>2, <4>3, LimitsAreNumbers
      <4> QED BY <4>4 DEF Attempts
    <3>2. CASE ~(g = gen /\ s = scan /\ <<gen, scan, a>> \notin primary)
      <4>1. RetriesOf(g, s)' = RetriesOf(g, s) BY <1>6, <3>2 DEF RetriesOf
      <4> QED BY <3>0, <4>1
    <3> QED BY <3>1, <3>2
  <2>2. ASSUME NEW g \in Gens, NEW s \in Slots, NEW c \in Attempts, NEW b \in Attempts,
               <<g, s, c>> \in primary', b < c
        PROVE  <<g, s, b>> \in started /\ answer[<<g, s, b>>] = "none"
    <3>1. CASE <<g, s, c>> \in primary BY <2>2, <3>1 DEF Inv, RetriesFollow
    <3>2. CASE g = gen /\ s = scan /\ c = a BY <1>2, <2>2, <3>2 DEF Chosen
    <3> QED BY <1>6, <2>2, <3>1, <3>2
  <2>3. budget.gen # gen => primary' = primary
      BY <1>2 DEF Chosen
  <2>4. AtWork' => \A s \in Slots : <<gen, s, 0>> \in primary'
      BY <1>1, <1>2 DEF Chosen, Inv, RetriesFollow, AtWork
  <2> QED BY <1>1, <2>1, <2>2, <2>3, <2>4
          DEF Inv, RetriesFollow, RetriesOf, Pending, Here, artifacts
<1>12. RepairIsBacked' BY <1>1, <1>4 DEF RepairIsBacked
<1>13. ASSUME NEW s \in Slots PROVE EntryIsBacked(s)'
  <2>1. s \in Nat /\ EntryIsBacked(s) /\ EntryIsBacked(scan) BY <1>1, SlotsAreNumbers DEF Inv
  <2>2. call[scan] = "none" BY <1>1, <1>5, <2>1 DEF EntryIsBacked
  <2>3. key' = [key EXCEPT ![scan] = a] /\ key \in [Slots -> Attempts]
      BY <1>2 DEF Chosen, Inv, Shape
  <2>4. CASE s = scan
    <3>1. Turn(s)' = <<gen, scan, a>> /\ <<gen, scan, a>> \in primary' /\ key'[s] = a
        BY <1>1, <1>2, <2>3, <2>4 DEF Chosen, Turn
    <3>2. \A b \in Attempts : <<gen, s, b>> \in primary' => b <= a
        BY <1>1, <1>2, <1>3, <1>6, <2>4, LimitsAreNumbers DEF Chosen
    <3>3. s \in Pending(gen)' BY <1>1, <2>4 DEF Pending, artifacts
    <3>4. entry'[s] = "open" /\ s < scan' /\ pc' = "scan" /\ gen' = gen
        BY <1>1, <1>5, <2>4 DEF Inv, Shape
    <3>5. HasManifest(gen)' BY <1>1, <1>3 DEF HasManifest, artifacts
    <3> QED BY <1>1, <1>3, <2>2, <2>4, <3>1, <3>2, <3>3, <3>4, <3>5
            DEF EntryIsBacked, InFlight, Stops, Pending, Here, HasManifest, artifacts
  <2>5. CASE s # scan
    <3>1. entry'[s] = entry[s] /\ key'[s] = key[s] BY <1>1, <2>3, <2>5 DEF Inv, Shape
    <3>2. \A b \in Attempts : gen \in Gens =>
            (<<gen, s, b>> \in primary' <=> <<gen, s, b>> \in primary)
        BY <1>1, <1>6, <2>5
    <3> QED BY <1>1, <1>3, <1>5, <2>1, <2>5, <3>1, <3>2
            DEF EntryIsBacked, HasManifest, Here, Turn, Pending, Inv, Shape, Stops, artifacts,
                lanes
  <2> QED BY <2>4, <2>5
<1> QED BY <1>7, <1>8, <1>9, <1>10, <1>11, <1>12, <1>13 DEF Inv

-----------------------------------------------------------------------------
(***************************************************************************)
(* The lane threads: the slot of a call in flight is open, so its turn is  *)
(* the last of the slot.                                                   *)
(***************************************************************************)
LEMMA InFlightIsOpen ==
    ASSUME Inv, NEW s \in Slots, call[s] \in InFlight
    PROVE  /\ gen \in Gens /\ HasManifest(gen) /\ Open(s) /\ s \in Pending(gen)
           /\ key[s] \in Attempts /\ Turn(s) \in primary /\ Turn(s) \in Turns
           /\ \A a \in Attempts : <<gen, s, a>> \in primary => a <= key[s]
BY DEF Inv, EntryIsBacked, Open, Shape, Turn, Turns

\* What a lane changes leaves to the rest: the generation, the candidates and
\* the entries are those of the search thread.
LaneLeaves ==
    UNCHANGED <<status, primary, repairs, repairStarted, guard, manifest, repairAnswer,
                prepared, candidate, baselines, released, pc, gen, budget, scan, cursor,
                entry, key, repairCall>>

LEMMA LanesKeep ==
    ASSUME Inv, LaneLeaves, NEW s \in Slots, call[s] \in InFlight,
           NEW how \in Calls, call' = [call EXCEPT ![s] = how],
           how = "turn" => Turn(s) \in started',
           started \subseteq started', started' \subseteq started \cup {Turn(s)},
           completed \subseteq completed', completed' \subseteq completed \cup {Here(s)},
           answer' \in [Turns -> {"none", "invalid"} \cup Programs],
           \A t \in Turns : answer'[t] # answer[t] => t = Turn(s) /\ t \in started
    PROVE  Inv'
<1> USE DEF LaneLeaves
<1>1. /\ gen \in Gens /\ HasManifest(gen) /\ Open(s) /\ s \in Pending(gen)
      /\ key[s] \in Attempts /\ Turn(s) \in primary /\ Turn(s) \in Turns
      /\ \A a \in Attempts : <<gen, s, a>> \in primary => a <= key[s]
    BY InFlightIsOpen
<1>2. TypeOK' /\ Shape'
  <2>1. started' \subseteq primary /\ completed' \subseteq Places
      BY <1>1 DEF Inv, TypeOK, Here, Places
  <2>2. \A t \in Turns : answer'[t] # "none" => t \in started'
      BY DEF Inv, TypeOK
  <2>3. call' \in [Slots -> {"none"} \cup Calls] BY DEF Inv, Shape
  <2> QED BY <2>1, <2>2, <2>3 DEF Inv, TypeOK, Shape
<1>3. GenerationsFollow'
    BY <1>1, GenerationsStay DEF AtWork, Committed
<1>4. PrefixCommitted'
    BY DEF Inv, PrefixCommitted, Committed, Here
<1>5. StatusFitsProgram' /\ OneEvaluatedPerProgram'
    BY DEF Inv, StatusFitsProgram, OneEvaluatedPerProgram, Committed
<1>6. RetriesFollow'
  <2>1. ASSUME NEW g \in Gens, NEW r \in Slots, NEW a \in Attempts, NEW b \in Attempts,
               <<g, r, a>> \in primary, b < a
        PROVE  <<g, r, b>> \in started' /\ answer'[<<g, r, b>>] = "none"
    <3>1. <<g, r, b>> \in started /\ answer[<<g, r, b>>] = "none"
        BY <2>1 DEF Inv, RetriesFollow
    <3>2. <<g, r, b>> # Turn(s) BY <1>1, <2>1, LimitsAreNumbers DEF Turn
    <3>3. <<g, r, b>> \in Turns BY DEF Turns
    <3> QED BY <3>1, <3>2, <3>3
  <2> QED BY <2>1 DEF Inv, RetriesFollow, RetriesOf, Pending, Here, AtWork
<1>7. RepairIsBacked'
  <2>1. ASSUME NEW r \in Slots, RepairIsOf(r) PROVE RepairIsOf(r)'
    <3>1. r # s BY <2>1 DEF RepairIsOf, InFlight
    <3> QED BY <2>1, <3>1 DEF RepairIsOf, Current, Open, Here, Inv, Shape
  <2> QED BY <2>1 DEF Inv, RepairIsBacked
<1>8. ASSUME NEW r \in Slots PROVE EntryIsBacked(r)'
  <2>1. EntryIsBacked(r) BY DEF Inv
  <2>2. CASE r = s
    <3>1. call'[r] = how BY <2>2 DEF Inv, Shape
    <3> QED BY <1>1, <2>1, <2>2, <3>1
            DEF EntryIsBacked, HasManifest, Here, Turn, Pending, Open
  <2>3. CASE r # s
    <3>1. call'[r] = call[r] BY <2>3 DEF Inv, Shape
    <3> QED BY <2>1, <3>1 DEF EntryIsBacked, HasManifest, Here, Turn, Pending
  <2> QED BY <2>2, <2>3
<1> QED BY <1>2, <1>3, <1>4, <1>5, <1>6, <1>7, <1>8 DEF Inv

LEMMA LaneAsksKeeps == ASSUME Inv, NEW s \in Slots, LaneAsks(s) PROVE Inv'
<1>1. LaneLeaves /\ UNCHANGED <<answer, completed>> /\ call[s] = "submitted"
    BY DEF LaneAsks, Admitted, LaneLeaves, artifacts, lanes
<1>2. call[s] \in InFlight BY <1>1 DEF InFlight
<1>3. PICK how \in {"turn", "replayed", "refused", "raised"} :
        /\ call' = [call EXCEPT ![s] = how]
        /\ started' = IF how = "turn" THEN started \cup {Turn(s)} ELSE started
    BY DEF LaneAsks
<1>4. answer' \in [Turns -> {"none", "invalid"} \cup Programs] BY <1>1 DEF Inv, Shape
<1> QED BY <1>1, <1>2, <1>3, <1>4, LanesKeep DEF InFlight, Calls

LEMMA LaneAnswersKeeps == ASSUME Inv, NEW s \in Slots, LaneAnswers(s) PROVE Inv'
<1>1. /\ LaneLeaves /\ UNCHANGED <<started, completed>> /\ call[s] = "turn"
      /\ call' = [call EXCEPT ![s] = "answered"]
    BY DEF LaneAnswers, LaneLeaves, ledger, lanes
<1>2. call[s] \in InFlight /\ "answered" \in InFlight \cap Calls BY <1>1 DEF InFlight, Calls
<1>3. PICK a \in Programs \cup {"invalid"} : answer' = [answer EXCEPT ![Turn(s)] = a]
    BY DEF LaneAnswers
<1>4. answer' \in [Turns -> {"none", "invalid"} \cup Programs] BY <1>3 DEF Inv, Shape
<1>5. Turn(s) \in started BY <1>1 DEF Inv, EntryIsBacked
<1>6. \A t \in Turns : answer'[t] # answer[t] => t = Turn(s) /\ t \in started
    BY <1>3, <1>5 DEF Inv, Shape
<1> QED BY <1>1, <1>2, <1>4, <1>6, LanesKeep

LEMMA LaneEndsKeeps == ASSUME Inv, NEW s \in Slots, LaneEnds(s) PROVE Inv'
<1>1. LaneLeaves /\ UNCHANGED <<started, answer>> /\ completed' = completed \cup {Here(s)}
    BY DEF LaneEnds, LaneLeaves, ledger, artifacts
<1>2. call[s] \in InFlight BY DEF LaneEnds, InFlight
<1>3. PICK how \in {"done", "raised", "infrastructure"} : call' = [call EXCEPT ![s] = how]
    BY DEF LaneEnds, Told
<1>4. answer' \in [Turns -> {"none", "invalid"} \cup Programs] BY <1>1 DEF Inv, Shape
<1> QED BY <1>1, <1>2, <1>3, <1>4, LanesKeep DEF Calls

-----------------------------------------------------------------------------
(***************************************************************************)
(* The search thread takes a result: the slot handled becomes a queued     *)
(* program or a failure, with its repair if it asked for one.              *)
(***************************************************************************)
LEMMA AtTaskCurrent ==
    ASSUME Inv, AtTask
    PROVE  /\ Current \in Slots /\ Open(Current) /\ gen \in Gens /\ HasManifest(gen)
           /\ Current \in Pending(gen) /\ pc = "tasks" /\ Here(Current) \in Places
<1>1. Current \in Slots /\ Open(Current) BY CurrentIsOpen DEF AtTask
<1>2. EntryIsBacked(Current) BY <1>1 DEF Inv
<1> QED BY <1>1, <1>2 DEF AtTask, EntryIsBacked, Open, Here, Places

\* The calls of the slot are over, and its program, if any, is the only thing
\* that changes of what is durable of it.
LEMMA AdvanceKeeps ==
    ASSUME Inv, AtTask, NEW into \in {"queued", "provider_failed", "contract_invalid"},
           NEW s \in Slots, s = Current, Advance(s, into), call[s] \notin InFlight,
           Here(s) \in completed, UNCHANGED repairs,
           NEW program \in {"none"} \cup Programs,
           prepared' = [prepared EXCEPT ![Here(s)] = program],
           into = "queued" <=> program # "none"
    PROVE  Inv'
<1> USE DEF Advance
<1>1. /\ gen \in Gens /\ HasManifest(gen) /\ s \in Pending(gen) /\ pc = "tasks"
      /\ Here(s) \in Places /\ Open(s)
    BY AtTaskCurrent
<1>2. candidate[Here(s)] = "none" /\ prepared[Here(s)] = "none" BY <1>1 DEF Pending, Here
<1>3. /\ prepared' \in [Places -> {"none"} \cup Programs] /\ prepared'[Here(s)] = program
      /\ \A p \in Places : p # Here(s) => prepared'[p] = prepared[p]
    BY <1>1 DEF Inv, Shape
<1>4. /\ entry' = [entry EXCEPT ![s] = into] /\ entry'[s] = into
      /\ \A r \in Slots : r # s => entry'[r] = entry[r]
    BY DEF Inv, Shape
<1>5. TypeOK' /\ Shape'
  <2>1. entry' \in [Slots -> {"unprocessed", "open", "queued", "retained", "provider_failed",
                              "contract_invalid"}]
      BY <1>4 DEF Inv, Shape
  <2>2. released' \subseteq completed BY DEF Inv, TypeOK
  <2>3. \A p \in Places : prepared'[p] # "none" \/ candidate[p] # "none" => p \in completed
      BY <1>3 DEF Inv, TypeOK
  <2> QED BY <1>3, <2>1, <2>2, <2>3 DEF Inv, TypeOK, Shape, Stops
<1>6. GenerationsFollow'
  <2>1. \A g \in Gens, r \in Slots : g # gen => prepared'[<<g, r>>] = prepared[<<g, r>>]
      BY <1>3 DEF Here, Places
  <2> QED BY <1>1, <2>1, GenerationsStay DEF AtWork, Committed, Stops
<1>7. PrefixCommitted'
    BY <1>1 DEF Inv, PrefixCommitted, Committed, Here
<1>8. StatusFitsProgram' /\ OneEvaluatedPerProgram'
    BY <1>2, <1>3 DEF Inv, StatusFitsProgram, OneEvaluatedPerProgram, Committed, Programmed
<1>9. RetriesFollow'
  <2>1. Pending(gen)' \subseteq Pending(gen)
    <3>1. \A r \in Slots : prepared'[<<gen, r>>] = "none" => prepared[<<gen, r>>] = "none"
        BY <1>1, <1>2, <1>3 DEF Here, Places
    <3> QED BY <3>1 DEF Pending
  <2> QED BY <1>1, <2>1 DEF Inv, RetriesFollow, RetriesOf, Here, AtWork, Stops
<1>10. RepairIsBacked' BY DEF RepairIsBacked
<1>11. ASSUME NEW r \in Slots PROVE EntryIsBacked(r)'
  <2>1. EntryIsBacked(r) BY DEF Inv
  <2>2. CASE r = s
      BY <1>1, <1>2, <1>3, <1>4, <2>1, <2>2
         DEF EntryIsBacked, HasManifest, Here, Turn, Open, Stops
  <2>3. CASE r # s
    <3>1. prepared'[Here(r)] = prepared[Here(r)] BY <1>1, <1>3, <2>3 DEF Here, Places
    <3> QED BY <1>1, <1>4, <2>1, <2>3, <3>1
            DEF EntryIsBacked, HasManifest, Here, Turn, Pending, Stops
  <2> QED BY <2>2, <2>3
<1> QED BY <1>5, <1>6, <1>7, <1>8, <1>9, <1>10, <1>11 DEF Inv

LEMMA QueueValidKeeps ==
    ASSUME Inv, AtTask, call[Current] \notin InFlight, NEW program, QueueValid(Current, program)
    PROVE  Inv'
<1>1. Current \in Slots BY AtTaskCurrent
<1>2. /\ program \in {"none"} \cup Programs /\ program # "none" /\ Here(Current) \in completed
      /\ prepared' = [prepared EXCEPT ![Here(Current)] = program]
      /\ UNCHANGED repairs /\ Advance(Current, "queued")
    BY LimitsAreNumbers DEF QueueValid, MayRelease
<1> QED BY <1>1, <1>2, AdvanceKeeps

LEMMA FailsKeeps ==
    ASSUME Inv, AtTask, call[Current] \notin InFlight,
           NEW how \in {"provider_failed", "contract_invalid"}, Fails(Current, how)
    PROVE  Inv'
<1>1. /\ Current \in Slots /\ Current \in Pending(gen) /\ Here(Current) \in Places
    BY AtTaskCurrent
<1>2. prepared[Here(Current)] = "none" BY <1>1 DEF Pending, Here
<1>3. /\ prepared' = [prepared EXCEPT ![Here(Current)] = "none"]
      /\ Here(Current) \in completed /\ UNCHANGED repairs /\ Advance(Current, how)
    BY <1>1, <1>2 DEF Fails, MayRelease, Inv, Shape
<1> QED BY <1>1, <1>3, AdvanceKeeps

LEMMA TakesKeep ==
    ASSUME Inv, TakeValid \/ TakeFailure \/ TakeUnrepaired \/ TakeRepair
    PROVE  Inv'
<1>1. CASE TakeValid
    BY <1>1, QueueValidKeeps DEF TakeValid, InFlight
<1>2. CASE TakeFailure
    BY <1>2, FailsKeeps DEF TakeFailure, InFlight
<1>3. CASE TakeUnrepaired
    BY <1>3, FailsKeeps DEF TakeUnrepaired, Invalid, InFlight
<1>4. CASE TakeRepair
  <2>1. AtTask /\ repairCall # "none" BY <1>4 DEF TakeRepair
  <2>2. call[Current] \notin InFlight BY <2>1 DEF Inv, RepairIsBacked, RepairIsOf, InFlight
  <2>3. \/ QueueValid(Current, repairAnswer[Here(Current)])
        \/ \E how \in {"provider_failed", "contract_invalid"} : Fails(Current, how)
      BY <1>4 DEF TakeRepair
  <2> QED BY <2>1, <2>2, <2>3, QueueValidKeeps, FailsKeeps
<1> QED BY <1>1, <1>2, <1>3, <1>4

-----------------------------------------------------------------------------
(***************************************************************************)
(* The repair of the slot handled, and the deadline of its turn.           *)
(***************************************************************************)
RepairLeaves ==
    UNCHANGED <<status, primary, started, guard, manifest, answer, prepared, candidate,
                baselines, lanes, pc, gen, budget, scan, cursor, entry, key, call>>

LEMMA RepairsKeep ==
    ASSUME Inv, RepairLeaves, repairCall' \in Calls,
           NEW s \in Slots, RepairIsOf(s)', Here(s) \in Places,
           repairs' \in {repairs, repairs \cup {Here(s)}},
           repairStarted' \in {repairStarted, repairStarted \cup {Here(s)}},
           repairStarted' \subseteq repairs',
           repairAnswer' \in [Places -> {"none", "invalid"} \cup Programs],
           \A p \in Places : repairAnswer'[p] # "none" => p \in repairStarted'
    PROVE  Inv'
<1> USE DEF RepairLeaves, lanes
<1>1. TypeOK' /\ Shape' BY DEF Inv, TypeOK, Shape
<1>2. GenerationsFollow' BY GenerationsStay DEF AtWork, Committed
<1>3. PrefixCommitted' BY DEF Inv, PrefixCommitted, Committed, Here
<1>4. StatusFitsProgram' /\ OneEvaluatedPerProgram'
    BY DEF Inv, StatusFitsProgram, OneEvaluatedPerProgram, Committed
<1>5. RetriesFollow' BY DEF Inv, RetriesFollow, RetriesOf, Pending, Here, AtWork
<1>6. RepairIsBacked' BY DEF RepairIsBacked
<1>7. ASSUME NEW r \in Slots PROVE EntryIsBacked(r)'
    BY DEF Inv, EntryIsBacked, HasManifest, Here, Turn, Pending
<1> QED BY <1>1, <1>2, <1>3, <1>4, <1>5, <1>6, <1>7 DEF Inv

LEMMA AskRepairKeeps == ASSUME Inv, AskRepair PROVE Inv'
<1>1. PICK s \in Slots : s = Current BY AtTaskCurrent DEF AskRepair
<1>2. /\ AtTask /\ Invalid(s) /\ repairs' = repairs \cup {Here(s)} /\ repairCall' = "submitted"
      /\ RepairLeaves /\ UNCHANGED <<repairStarted, repairAnswer>>
    BY <1>1 DEF AskRepair, RepairLeaves, artifacts
<1>3. Open(s) /\ pc = "tasks" /\ Here(s) \in Places BY <1>1, <1>2, AtTaskCurrent
<1>4. RepairIsOf(s)'
    BY <1>1, <1>2, <1>3 DEF RepairIsOf, Current, Open, Invalid, Here, RepairLeaves
<1> QED BY <1>2, <1>3, <1>4, RepairsKeep DEF Inv, TypeOK, Shape, Calls, InFlight

LEMMA RepairAsksKeeps == ASSUME Inv, RepairAsks PROVE Inv'
<1>1. PICK s \in Slots : RepairIsOf(s) BY DEF RepairAsks, Inv, RepairIsBacked
<1>2. s = Current /\ Here(s) \in repairs /\ Here(s) \in Places
    BY <1>1 DEF RepairIsOf, Inv, TypeOK
<1>3. /\ RepairLeaves /\ UNCHANGED <<repairs, repairAnswer>>
      /\ repairCall' \in {"turn", "infrastructure", "done"}
      /\ repairStarted' \in {repairStarted, repairStarted \cup {Here(s)}}
      /\ repairCall' = "turn" => Here(s) \in repairStarted'
    BY <1>2 DEF RepairAsks, RepairLeaves, artifacts
<1>4. RepairIsOf(s)'
    BY <1>1, <1>3 DEF RepairIsOf, Current, Open, Here, RepairLeaves
<1>5. repairStarted' \subseteq repairs' BY <1>2, <1>3 DEF Inv, TypeOK
<1> QED BY <1>2, <1>3, <1>4, <1>5, RepairsKeep DEF Inv, TypeOK, Shape, Calls, InFlight

LEMMA RepairEndsKeeps == ASSUME Inv, RepairEnds PROVE Inv'
<1>1. PICK s \in Slots : RepairIsOf(s) BY DEF RepairEnds, Inv, RepairIsBacked
<1>2. s = Current /\ Here(s) \in repairs /\ Here(s) \in Places /\ Here(s) \in repairStarted
    BY <1>1 DEF RepairIsOf, Inv, TypeOK, RepairEnds
<1>3. /\ RepairLeaves /\ UNCHANGED <<repairs, repairStarted>>
      /\ repairCall' \in {"raised", "infrastructure", "done"}
    BY DEF RepairEnds, Told, RepairLeaves, ledger
<1>4. \/ \E a \in Programs \cup {"invalid"} : repairAnswer' = [repairAnswer EXCEPT ![Here(s)] = a]
      \/ UNCHANGED repairAnswer
    BY <1>2 DEF RepairEnds
<1>5. /\ repairAnswer' \in [Places -> {"none", "invalid"} \cup Programs]
      /\ \A p \in Places : repairAnswer'[p] # "none" => p \in repairStarted'
    BY <1>2, <1>3, <1>4 DEF Inv, TypeOK, Shape
<1>6. RepairIsOf(s)'
    BY <1>1, <1>3 DEF RepairIsOf, Current, Open, Here, RepairLeaves
<1> QED BY <1>2, <1>3, <1>5, <1>6, RepairsKeep DEF Inv, TypeOK, Calls, InFlight

LEMMA TurnTimesOutKeeps == ASSUME Inv, TurnTimesOut PROVE Inv'
<1>1. /\ pc = "tasks" /\ pc' = "infrastructure_failure" /\ repairCall' = "none"
      /\ \A s \in Slots : call'[s] = "none"
      /\ call' \in [Slots -> {"none"} \cup Calls]
      /\ UNCHANGED <<status, ledger, artifacts, lanes, gen, budget, scan, cursor, entry, key>>
    BY DEF TurnTimesOut, AtTask, All
<1> USE DEF ledger, artifacts, lanes
<1>2. TypeOK' /\ Shape' BY <1>1 DEF Inv, TypeOK, Shape, Stops
<1>3. GenerationsFollow' BY <1>1, GenerationsStay DEF AtWork, Committed, Stops
<1>4. PrefixCommitted' BY <1>1 DEF Inv, PrefixCommitted, Committed, Here
<1>5. StatusFitsProgram' /\ OneEvaluatedPerProgram'
    BY <1>1 DEF Inv, StatusFitsProgram, OneEvaluatedPerProgram, Committed
<1>6. RetriesFollow'
    BY <1>1 DEF Inv, RetriesFollow, RetriesOf, Pending, Here, AtWork, Stops
<1>7. RepairIsBacked' BY <1>1 DEF RepairIsBacked
<1>8. ASSUME NEW s \in Slots PROVE EntryIsBacked(s)'
    BY <1>1 DEF Inv, EntryIsBacked, HasManifest, Here, Turn, Pending, InFlight, Stops
<1> QED BY <1>2, <1>3, <1>4, <1>5, <1>6, <1>7, <1>8 DEF Inv

-----------------------------------------------------------------------------
(***************************************************************************)
(* The commit of the slot at the cursor, and of the baselines.             *)
(***************************************************************************)
\* What the slot is committed as: the first candidate of its program is
\* evaluated, and a retained one stays what it was.
CommitFits(s, how) ==
    /\ how \in Statuses
    /\ how \in Programmed => prepared[Here(s)] # "none"
    /\ how \in {"provider_failed", "contract_invalid"} => prepared[Here(s)] = "none"
    /\ candidate[Here(s)] \in {"none", how}
    /\ how = "evaluated" /\ candidate[Here(s)] = "none" => ~Seen(prepared[Here(s)])

LEMMA CommitsKeep ==
    ASSUME Inv, Committing, NEW how, CommitFits(cursor, how),
           candidate' = [candidate EXCEPT ![Here(cursor)] = how],
           \/ cursor' = cursor + 1 /\ pc' = pc
           \/ cursor' = cursor /\ pc' = "infrastructure_failure",
           entry[cursor] \notin {"unprocessed", "open"},
           UNCHANGED <<status, ledger, manifest, answer, repairAnswer, prepared, baselines,
                       lanes, gen, budget, scan, entry, key, call, repairCall>>
    PROVE  Inv'
<1> USE DEF ledger, lanes
<1>1. /\ pc \in {"commit", "drain"} /\ cursor \in Slots /\ cursor \in Nat
      /\ cursor' \in 1..Last + 1 /\ repairCall = "none"
    BY SlotsAreNumbers DEF Committing, Inv, RepairIsBacked, RepairIsOf, Stops
<1>2. gen \in Gens /\ HasManifest(gen) /\ Here(cursor) \in Places
    BY <1>1, AtWorkInGeneration DEF AtWork, Stops, Here, Places
<1>3. /\ candidate' \in [Places -> {"none"} \cup Statuses] /\ candidate'[Here(cursor)] = how
      /\ \A p \in Places : p # Here(cursor) => candidate'[p] = candidate[p]
    BY <1>2 DEF Inv, Shape, CommitFits
<1>4. how # "none" BY DEF CommitFits, Statuses
<1>5. Here(cursor) \in completed
  <2>1. EntryIsBacked(cursor) BY <1>1 DEF Inv
  <2>2. entry[cursor] \in {"queued", "retained", "provider_failed", "contract_invalid"}
      BY <1>1 DEF Inv, Shape
  <2> QED BY <1>2, <2>1, <2>2 DEF EntryIsBacked, Inv, TypeOK
<1>6. TypeOK' /\ Shape'
  <2>1. \A p \in Places : prepared[p] # "none" \/ candidate'[p] # "none" => p \in completed
      BY <1>3, <1>5 DEF Inv, TypeOK
  <2>2. cursor' \in 1..Cardinality(Slots) + 1 BY <1>1 DEF Last
  <2> QED BY <1>1, <1>3, <2>1, <2>2 DEF Inv, TypeOK, Shape, Stops
<1>7. GenerationsFollow'
  <2>1. \A g \in Gens, s \in Slots : g # gen => candidate'[<<g, s>>] = candidate[<<g, s>>]
      BY <1>3 DEF Here, Places
  <2>2. \A p \in Places : Committed(p) => Committed(p)' BY <1>3, <1>4 DEF Committed
  <2>3. (pc' # "down" => pc # "down") /\ (AtWork' => AtWork) BY <1>1 DEF AtWork, Stops
  <2> QED BY <1>2, <2>1, <2>2, <2>3, GenerationsStay
<1>8. PrefixCommitted'
  <2>1. \A p \in Places : Committed(p)' <=> Committed(p) \/ p = Here(cursor)
      BY <1>3, <1>4 DEF Committed
  <2>2. \A r \in Slots : r < cursor => Committed(Here(r))
      BY <1>1, <1>2 DEF Inv, PrefixCommitted
  <2>3. ASSUME NEW g \in Gens, NEW r \in Slots, NEW s \in Slots, r < s, Committed(<<g, s>>)'
        PROVE  Committed(<<g, r>>)'
    <3>1. <<g, r>> \in Places /\ <<g, s>> \in Places BY DEF Places
    <3>2. CASE Committed(<<g, s>>)
        BY <2>1, <2>3, <3>1, <3>2 DEF Inv, PrefixCommitted
    <3>3. CASE <<g, s>> = Here(cursor)
        BY <2>1, <2>2, <2>3, <3>1, <3>3 DEF Here
    <3> QED BY <2>1, <2>3, <3>1, <3>2, <3>3
  <2>4. \A r \in Slots : r < cursor' => Committed(Here(r))'
    <3> SUFFICES ASSUME NEW r \in Slots, r < cursor' PROVE Committed(<<gen, r>>)' BY DEF Here
    <3>1. <<gen, r>> \in Places BY <1>2 DEF Places
    <3>2. r < cursor \/ r = cursor BY <1>1, SlotsAreNumbers
    <3> QED BY <2>1, <2>2, <3>1, <3>2 DEF Here
  <2>5. pc' \notin {"baselines", "committed"} BY <1>1
  <2> QED BY <2>3, <2>4, <2>5 DEF PrefixCommitted
<1>9. StatusFitsProgram'
    BY <1>3 DEF Inv, StatusFitsProgram, CommitFits, Statuses, Programmed
<1>10. OneEvaluatedPerProgram'
  <2> SUFFICES ASSUME NEW p \in Places, NEW q \in Places, p # q, candidate'[p] = "evaluated",
                      prepared[p] = prepared[q], candidate'[q] # "none"
               PROVE  candidate'[q] \in {"duplicate", "evaluation_failed"}
      BY DEF OneEvaluatedPerProgram, Committed
  <2>1. ASSUME candidate[p] = "evaluated", candidate[q] # "none"
        PROVE  candidate[q] \in {"duplicate", "evaluation_failed"}
      BY <2>1 DEF Inv, OneEvaluatedPerProgram, Committed
  <2>2. /\ candidate[q] \in {"none", "provider_failed", "contract_invalid"} \cup Programmed
        /\ candidate[q] \in {"provider_failed", "contract_invalid"} => prepared[q] = "none"
        /\ candidate[p] = "evaluated" => prepared[p] # "none"
      BY DEF Inv, Shape, StatusFitsProgram, Statuses, Programmed
  <2>3. CASE candidate[Here(cursor)] # "none"
      BY <1>3, <2>1, <2>3 DEF CommitFits
  <2>4. CASE candidate[Here(cursor)] = "none" /\ p = Here(cursor)
    <3>1. how = "evaluated" /\ ~Seen(prepared[p]) /\ prepared[p] # "none"
        BY <1>3, <2>4 DEF CommitFits, Programmed
    <3>2. candidate[q] \notin Programmed BY <3>1 DEF Seen, Programmed
    <3> QED BY <1>3, <2>2, <2>4, <3>1, <3>2
  <2>5. CASE candidate[Here(cursor)] = "none" /\ q = Here(cursor)
    <3>1. candidate[p] = "evaluated" BY <1>3, <2>5
    <3>2. Seen(prepared[q]) BY <3>1 DEF Seen
    <3> QED BY <1>3, <2>2, <2>5, <3>1, <3>2 DEF CommitFits, Statuses
  <2>6. CASE p # Here(cursor) /\ q # Here(cursor) BY <1>3, <2>1, <2>6
  <2> QED BY <2>3, <2>4, <2>5, <2>6
<1>11. RetriesFollow'
  <2>1. Pending(gen)' \subseteq Pending(gen)
    <3>1. \A r \in Slots : candidate'[<<gen, r>>] = "none" => candidate[<<gen, r>>] = "none"
        BY <1>2, <1>3, <1>4 DEF Here, Places
    <3> QED BY <3>1 DEF Pending
  <2> QED BY <1>1, <2>1 DEF Inv, RetriesFollow, RetriesOf, Here, AtWork, Stops
<1>12. RepairIsBacked' BY <1>1 DEF RepairIsBacked
<1>13. ASSUME NEW s \in Slots PROVE EntryIsBacked(s)'
  <2>1. EntryIsBacked(s) /\ EntryIsBacked(cursor) /\ s \in Nat
      BY <1>1, SlotsAreNumbers DEF Inv
  <2>2. CASE s = cursor
      BY <1>1, <1>2, <1>3, <1>4, <2>1, <2>2
         DEF EntryIsBacked, HasManifest, Here, Turn, Stops
  <2>3. CASE s # cursor
    <3>1. candidate'[Here(s)] = candidate[Here(s)] BY <1>2, <1>3, <2>3 DEF Here, Places
    <3> QED BY <1>1, <2>1, <2>3, <3>1
            DEF EntryIsBacked, HasManifest, Here, Turn, Pending, Stops
  <2> QED BY <2>2, <2>3
<1> QED BY <1>6, <1>7, <1>8, <1>9, <1>10, <1>11, <1>12, <1>13 DEF Inv

LEMMA CommitKeeps == ASSUME Inv, Commit PROVE Inv'
<1>1. /\ Committing /\ cursor \in Slots /\ pc \in {"commit", "drain"} /\ cursor' = cursor + 1
      /\ pc' = pc /\ candidate' = [candidate EXCEPT ![Here(cursor)] = CommittedAs(cursor)]
      /\ UNCHANGED <<status, ledger, manifest, answer, repairAnswer, prepared, baselines,
                     lanes, gen, budget, scan, entry, key, call, repairCall>>
    BY DEF Commit, Committing
<1>2. Here(cursor) \in Places
    BY <1>1, AtWorkInGeneration DEF AtWork, Stops, Here, Places
<1>3. EntryIsBacked(cursor) /\ cursor <= cursor BY <1>1, SlotsAreNumbers DEF Inv
<1>4. entry[cursor] \in {"retained", "queued", "provider_failed", "contract_invalid"}
    BY DEF Commit, CanCommit
<1>5. CommitFits(cursor, CommittedAs(cursor))
  <2>1. CASE entry[cursor] = "retained"
    <3>1. CommittedAs(cursor) = candidate[Here(cursor)] BY <2>1 DEF CommittedAs
    <3>2. candidate[Here(cursor)] # "none" BY <1>3, <2>1 DEF EntryIsBacked
    <3> QED BY <1>2, <3>1, <3>2 DEF CommitFits, Inv, Shape, StatusFitsProgram
  <2>2. CASE entry[cursor] = "queued"
    <3>1. /\ prepared[Here(cursor)] # "none" /\ candidate[Here(cursor)] = "none"
        BY <1>1, <1>3, <2>2 DEF EntryIsBacked, Stops
    <3>2. CommittedAs(cursor) = IF Seen(prepared[Here(cursor)]) THEN "duplicate" ELSE "evaluated"
        BY <2>2 DEF CommittedAs
    <3> QED BY <3>1, <3>2 DEF CommitFits, Statuses
  <2>3. CASE entry[cursor] \in {"provider_failed", "contract_invalid"}
    <3>1. CommittedAs(cursor) = entry[cursor] BY <2>3 DEF CommittedAs
    <3>2. prepared[Here(cursor)] = "none" BY <1>3, <2>3 DEF EntryIsBacked
    <3>3. candidate[Here(cursor)] \in {"none", entry[cursor]}
        BY <1>1, <1>3, <2>3 DEF EntryIsBacked, Stops
    <3> QED BY <2>3, <3>1, <3>2, <3>3 DEF CommitFits, Statuses, Programmed
  <2> QED BY <1>4, <2>1, <2>2, <2>3
<1>6. entry[cursor] \notin {"unprocessed", "open"} BY <1>4
<1> QED BY <1>1, <1>5, <1>6, CommitsKeep

LEMMA CommitFailedKeeps == ASSUME Inv, CommitFailed PROVE Inv'
<1>1. /\ Committing /\ cursor \in Slots /\ pc \in {"commit", "drain"} /\ entry[cursor] = "queued"
      /\ cursor' = cursor /\ pc' = "infrastructure_failure"
      /\ candidate' = [candidate EXCEPT ![Here(cursor)] = "evaluation_failed"]
      /\ UNCHANGED <<status, ledger, manifest, answer, repairAnswer, prepared, baselines,
                     lanes, gen, budget, scan, entry, key, call, repairCall>>
    BY DEF CommitFailed, Committing
<1>2. EntryIsBacked(cursor) /\ cursor <= cursor BY <1>1, SlotsAreNumbers DEF Inv
<1>3. CommitFits(cursor, "evaluation_failed")
    BY <1>1, <1>2 DEF CommitFits, EntryIsBacked, Stops, Statuses
<1> QED BY <1>1, <1>3, CommitsKeep

LEMMA CommitBaselinesKeeps == ASSUME Inv, CommitBaselines PROVE Inv'
<1>1. /\ pc = "baselines" /\ pc' = "committed" /\ baselines' = baselines \cup {gen}
      /\ UNCHANGED <<status, ledger, manifest, answer, repairAnswer, prepared, candidate,
                     lanes, gen, budget, scan, cursor, entry, key, call, repairCall>>
    BY DEF CommitBaselines
<1>2. gen \in Gens /\ HasManifest(gen) /\ repairCall = "none"
    BY <1>1, AtWorkInGeneration DEF AtWork, Stops, Inv, RepairIsBacked, RepairIsOf
<1> USE DEF ledger, lanes
<1>3. TypeOK' /\ Shape' BY <1>1, <1>2 DEF Inv, TypeOK, Shape, Stops
<1>4. GenerationsFollow'
    BY <1>1, <1>2, GenerationsStay DEF AtWork, Committed, Stops
<1>5. PrefixCommitted' BY <1>1 DEF Inv, PrefixCommitted, Committed, Here
<1>6. StatusFitsProgram' /\ OneEvaluatedPerProgram'
    BY <1>1 DEF Inv, StatusFitsProgram, OneEvaluatedPerProgram, Committed
<1>7. RetriesFollow'
    BY <1>1 DEF Inv, RetriesFollow, RetriesOf, Pending, Here, AtWork, Stops
<1>8. RepairIsBacked' BY <1>1, <1>2 DEF RepairIsBacked
<1>9. ASSUME NEW s \in Slots PROVE EntryIsBacked(s)'
    BY <1>1 DEF Inv, EntryIsBacked, HasManifest, Here, Turn, Pending, Stops
<1> QED BY <1>3, <1>4, <1>5, <1>6, <1>7, <1>8, <1>9 DEF Inv

-----------------------------------------------------------------------------
(***************************************************************************)
(* Every step, and the theorems.                                           *)
(***************************************************************************)
LEMMA NothingSubmitted == ASSUME Inv, UNCHANGED call PROVE OnlySubmits
BY DEF Inv, Shape, OnlySubmits

LEMMA LeavesKeeps == ASSUME Inv, NEW reason \in Stops, Leaves(reason), pc # "down" PROVE Inv'
<1>1. UNCHANGED Standing /\ pc' = reason /\ UNCHANGED call BY DEF Leaves, Standing
<1> QED BY <1>1, MovesKeep, NothingSubmitted DEF Moves

LEMMA StopsKeep ==
    ASSUME Inv,
           \/ StopBetween \/ EndOfGenerations \/ NoParents \/ ReservationExhausted
           \/ PrepareFails \/ ScanRefused \/ RetriesExhausted \/ RetryBudgetExhausted
           \/ TakeInfrastructure \/ BaselinesFail \/ Verified
    PROVE  Inv'
<1>1. pc # "down"
    BY DEF StopBetween, EndOfGenerations, NoParents, ReservationExhausted, PrepareFails,
           ScanRefused, RetriesExhausted, RetryBudgetExhausted, TakeInfrastructure, AtTask,
           BaselinesFail, Verified
<1>2. \E reason \in Stops : Leaves(reason)
    BY DEF StopBetween, EndOfGenerations, NoParents, ReservationExhausted, PrepareFails,
           ScanRefused, RetriesExhausted, RetryBudgetExhausted, TakeInfrastructure, BaselinesFail,
           Verified, InfrastructureStop, Stops
<1> QED BY <1>1, <1>2, LeavesKeeps

LEMMA GoesOnKeeps == ASSUME Inv, Prepare \/ StartLanes \/ Continue PROVE Inv'
<1>1. UNCHANGED Standing BY DEF Prepare, StartLanes, Continue, Standing
<1>2. OnlySubmits
  <2>1. UNCHANGED call \/ SubmitNext BY DEF Prepare, StartLanes, Continue
  <2> QED BY <2>1, NothingSubmitted, SubmitNextOnlySubmits DEF Inv
<1>3. Moves
  <2>1. cursor \notin Slots => cursor = Last + 1 BY SlotsAreNumbers DEF Inv, TypeOK, Last
  <2> QED BY <2>1 DEF Prepare, StartLanes, Continue, Moves, AtWork, Stops
<1>4. repairCall # "none" => pc' \in Stops \cup {pc}
  <2>1. CASE pc = "tasks" /\ Continue
    <3>1. \A s \in Slots : ~Open(s) BY <2>1 DEF Continue
    <3> QED BY <3>1 DEF Inv, RepairIsBacked, RepairIsOf
  <2>2. CASE pc # "tasks" /\ repairCall # "none"
    <3>1. pc \in Stops BY <2>2 DEF Inv, RepairIsBacked, RepairIsOf
    <3> QED BY <3>1 DEF Prepare, StartLanes, Continue, Stops
  <2> QED BY <2>1, <2>2 DEF Prepare, StartLanes
<1> QED BY <1>1, <1>2, <1>3, <1>4, MovesKeep

LEMMA PanelResolvesKeeps == ASSUME Inv, NEW s \in Slots, PanelResolves(s) PROVE Inv'
<1>1. UNCHANGED Standing /\ UNCHANGED <<call, pc>> BY DEF PanelResolves, Standing
<1> QED BY <1>1, MovesKeep, NothingSubmitted DEF Moves

LEMMA EndsKeep == ASSUME Inv, Crash \/ Shutdown PROVE Inv'
BY DownKeeps DEF Crash, Shutdown

LEMMA StuttersKeep == ASSUME Inv, UNCHANGED vars PROVE Inv'
<1>1. UNCHANGED Standing /\ UNCHANGED <<call, pc>> BY DEF vars, memory, Standing
<1> QED BY <1>1, MovesKeep, NothingSubmitted DEF Moves

LEMMA InitHolds == ASSUME Init PROVE Inv
<1> USE DEF Init, All
<1>1. 1 \in 1..Last + 1 BY SlotsAreNumbers
<1>2. TypeOK /\ Shape BY <1>1, LimitsAreNumbers DEF TypeOK, Shape, Last
<1>3. GenerationsFollow
  <2>1. Reached(0) BY LimitsAreNumbers DEF Reached, HasManifest
  <2>2. \A g \in Gens : Unborn(g) BY DEF Unborn, Places
  <2> QED BY <2>1, <2>2, LimitsAreNumbers DEF GenerationsFollow
<1>4. PrefixCommitted BY DEF PrefixCommitted, Committed, Places
<1>5. StatusFitsProgram /\ OneEvaluatedPerProgram
    BY DEF StatusFitsProgram, OneEvaluatedPerProgram, Committed, Programmed
<1>6. RetriesFollow
  <2>1. \A g \in Gens, s \in Slots : RetriesOf(g, s) = 1..0 BY DEF RetriesOf
  <2>2. 0 \in 0..RetryAttempts BY LimitsAreNumbers
  <2> QED BY <2>1, <2>2 DEF RetriesFollow, AtWork
<1>7. RepairIsBacked BY DEF RepairIsBacked
<1>8. ASSUME NEW s \in Slots PROVE EntryIsBacked(s) BY DEF EntryIsBacked, InFlight
<1> QED BY <1>2, <1>3, <1>4, <1>5, <1>6, <1>7, <1>8 DEF Inv

LEMMA NextKeeps == ASSUME Inv, [Next]_vars PROVE Inv'
<1>1. CASE OpenWorkspace BY <1>1, OpenWorkspaceKeeps
<1>2. CASE BeginGeneration \/ EndGeneration BY <1>2, BeginGenerationKeeps, EndGenerationKeeps
<1>3. CASE ScanRetained \/ ScanOpen BY <1>3, ScanRetainedKeeps, ScanOpenKeeps
<1>4. CASE \E s \in Slots : LaneThread(s)
    BY <1>4, LaneAsksKeeps, LaneAnswersKeeps, LaneEndsKeeps DEF LaneThread
<1>5. CASE TakeValid \/ TakeFailure \/ TakeUnrepaired \/ TakeRepair BY <1>5, TakesKeep
<1>6. CASE AskRepair \/ RepairAsks \/ RepairEnds \/ TurnTimesOut
    BY <1>6, AskRepairKeeps, RepairAsksKeeps, RepairEndsKeeps, TurnTimesOutKeeps
<1>7. CASE Commit \/ CommitFailed \/ CommitBaselines
    BY <1>7, CommitKeeps, CommitFailedKeeps, CommitBaselinesKeeps
<1>8. CASE \/ StopBetween \/ EndOfGenerations \/ NoParents \/ ReservationExhausted
           \/ PrepareFails \/ ScanRefused \/ RetriesExhausted \/ RetryBudgetExhausted
           \/ TakeInfrastructure \/ BaselinesFail \/ Verified
    BY <1>8, StopsKeep
<1>9. CASE Prepare \/ StartLanes \/ Continue BY <1>9, GoesOnKeeps
<1>10. CASE \E s \in Slots : PanelResolves(s) BY <1>10, PanelResolvesKeeps
<1>11. CASE Crash \/ Shutdown BY <1>11, EndsKeep
<1>12. CASE UNCHANGED vars BY <1>12, StuttersKeep
<1> QED
    BY <1>1, <1>2, <1>3, <1>4, <1>5, <1>6, <1>7, <1>8, <1>9, <1>10, <1>11, <1>12
       DEF Next, SearchThread

LEMMA Invariance == Spec => []Inv
<1>1. Init => Inv BY InitHolds
<1>2. Inv /\ [Next]_vars => Inv' BY NextKeeps
<1> QED BY <1>1, <1>2, PTL DEF Spec

-----------------------------------------------------------------------------
(* What is durable agrees with itself whatever was interrupted: a turn or a
   repair is started only once it is admitted, an answer belongs to a started
   turn, and a slot with a program, a candidate or a release was completed on
   its lane.                                                                  *)
THEOREM TypeCorrect == Spec => []TypeOK
<1>1. Inv => TypeOK BY DEF Inv
<1> QED BY <1>1, Invariance, PTL

(* In whatever order the lanes answer and the pool resolves its panels, the
   candidates on the disk are a prefix of the canonical order, and those of a
   generation come after the whole of the generations before it.             *)
THEOREM CommitsInOrder == Spec => []CommitsAreCanonical
<1>1. ASSUME Inv PROVE CommitsAreCanonical
  <2> SUFFICES ASSUME NEW g \in Gens, NEW s \in Slots, Committed(<<g, s>>)
               PROVE  /\ \A r \in Slots : r < s => Committed(<<g, r>>)
                      /\ \A h \in Gens : h < g => Settled(h)
      BY DEF CommitsAreCanonical
  <2>1. \A r \in Slots : r < s => Committed(<<g, r>>) BY <1>1 DEF Inv, PrefixCommitted
  <2>2. HasManifest(g) BY <1>1 DEF Inv, GenerationsFollow, Unborn, Committed
  <2>3. PICK m \in 0..Generations : Reached(m) BY <1>1 DEF Inv, GenerationsFollow
  <2>4. \A h \in Gens : h < g => Settled(h) BY <2>2, <2>3, LimitsAreNumbers DEF Reached
  <2> QED BY <2>1, <2>4
<1> QED BY <1>1, Invariance, PTL

(* Two candidates with the same program are never both evaluated, though one of
   them may have been validated by a process that died.                      *)
THEOREM OneEvaluation == Spec => []OneEvaluatedPerProgram
<1>1. Inv => OneEvaluatedPerProgram BY DEF Inv
<1> QED BY <1>1, Invariance, PTL

\* A turn that starts is the last of its slot: the earlier ones have no
\* answer, the later ones are not admitted.
LEMMA StartedOnce ==
    ASSUME Inv, NEW s \in Slots, LaneAsks(s), NEW t \in started' \ started
    PROVE  LET p == <<t[1], t[2]>> IN
           /\ prepared[p] = "none" /\ candidate[p] = "none"
           /\ \A a \in Attempts : answer[<<t[1], t[2], a>>] = "none"
<1>1. t = <<gen, s, key[s]>> /\ t \notin started BY DEF LaneAsks, Turn
<1>2. /\ gen \in Gens /\ s \in Pending(gen) /\ key[s] \in Attempts /\ Turn(s) \in primary
      /\ \A a \in Attempts : <<gen, s, a>> \in primary => a <= key[s]
    BY InFlightIsOpen DEF LaneAsks, Admitted, InFlight
<1>3. ASSUME NEW a \in Attempts PROVE answer[<<gen, s, a>>] = "none"
  <2>1. <<gen, s, a>> \in Turns BY <1>2 DEF Turns
  <2>2. CASE a < key[s] BY <1>2, <2>2 DEF Inv, RetriesFollow, Turn
  <2>3. CASE a = key[s] BY <1>1, <2>1, <2>3 DEF Inv, TypeOK
  <2>4. CASE key[s] < a
    <3>1. <<gen, s, a>> \notin primary BY <1>2, <2>4, LimitsAreNumbers
    <3> QED BY <2>1, <3>1 DEF Inv, TypeOK
  <2> QED BY <1>2, <2>2, <2>3, <2>4, LimitsAreNumbers
<1> QED BY <1>1, <1>2, <1>3 DEF Pending

(* A slot is paid for once over all the processes that work on it: a turn starts
   only for a slot with no answer to any of its attempts, no program and no
   candidate, a repair only for one without its repaired answer.             *)
THEOREM PaidOnce == Spec => NoPaidRepeat
<1> DEFINE Once ==
      /\ \A t \in started' \ started :
            LET p == <<t[1], t[2]>> IN
            /\ prepared[p] = "none" /\ candidate[p] = "none"
            /\ \A a \in Attempts : answer[<<t[1], t[2], a>>] = "none"
      /\ \A p \in repairStarted' \ repairStarted :
            repairAnswer[p] = "none" /\ candidate[p] = "none"
<1>1. ASSUME Inv, [Next]_vars PROVE Once
  <2>1. CASE \E s \in Slots : LaneAsks(s)
    <3>1. PICK s \in Slots : LaneAsks(s) BY <2>1
    <3>2. repairStarted' = repairStarted BY <3>1 DEF LaneAsks
    <3> QED BY <1>1, <3>1, <3>2, StartedOnce
  <2>2. CASE RepairAsks
    <3>1. PICK s \in Slots : RepairIsOf(s) BY <1>1, <2>2 DEF RepairAsks, Inv, RepairIsBacked
    <3>2. /\ started' = started /\ Here(s) \in Places
          /\ \A p \in repairStarted' \ repairStarted : p = Here(s)
        BY <1>1, <2>2, <3>1 DEF RepairAsks, RepairIsOf, Inv, TypeOK
    <3>3. candidate[Here(s)] = "none"
        BY <1>1, <3>1 DEF RepairIsOf, Inv, EntryIsBacked, Open, Pending, Here
    <3> QED BY <1>1, <3>2, <3>3 DEF Inv, TypeOK
  <2>3. CASE ~(\E s \in Slots : LaneAsks(s)) /\ ~RepairAsks
    <3>1. UNCHANGED <<started, repairStarted>>
      <4>1. CASE \/ OpenWorkspace \/ BeginGeneration \/ EndGeneration \/ ScanRetained
                 \/ ScanOpen \/ \E s \in Slots : PanelResolves(s) \/ LaneAnswers(s) \/ LaneEnds(s)
          BY <4>1 DEF OpenWorkspace, BeginGeneration, EndGeneration, ScanRetained, ScanOpen,
                      PanelResolves, LaneAnswers, LaneEnds, ledger
      <4>2. CASE TakeValid \/ TakeFailure \/ TakeUnrepaired \/ TakeRepair
          BY <4>2 DEF TakeValid, TakeFailure, TakeUnrepaired, TakeRepair, QueueValid, Fails,
                      Advance
      <4>3. CASE AskRepair \/ RepairEnds \/ TurnTimesOut \/ Commit \/ CommitFailed
                 \/ CommitBaselines
          BY <4>3 DEF AskRepair, RepairEnds, TurnTimesOut, Commit, CommitFailed,
                      CommitBaselines, ledger
      <4>4. CASE \/ StopBetween \/ EndOfGenerations \/ NoParents \/ ReservationExhausted
                 \/ PrepareFails \/ ScanRefused \/ RetriesExhausted \/ RetryBudgetExhausted
                 \/ TakeInfrastructure \/ BaselinesFail \/ Verified
          BY <4>4 DEF StopBetween, EndOfGenerations, NoParents, ReservationExhausted,
                      PrepareFails, ScanRefused, RetriesExhausted, RetryBudgetExhausted,
                      TakeInfrastructure, BaselinesFail, Verified, InfrastructureStop,
                      Leaves, ledger
      <4>5. CASE Prepare \/ StartLanes \/ Continue \/ Crash \/ Shutdown \/ UNCHANGED vars
          BY <4>5 DEF Prepare, StartLanes, Continue, Crash, Shutdown, Down, vars, ledger
      <4> QED
          BY <1>1, <2>3, <4>1, <4>2, <4>3, <4>4, <4>5
             DEF Next, SearchThread, LaneThread
    <3> QED BY <3>1
  <2> QED BY <2>1, <2>2, <2>3
<1>2. Spec => [][Once]_vars BY <1>1, Invariance, PTL DEF Spec
<1> QED BY <1>2 DEF NoPaidRepeat
=============================================================================
