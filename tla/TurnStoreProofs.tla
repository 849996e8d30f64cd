--------------------------- MODULE TurnStoreProofs ---------------------------
(* Theorems about TurnStore, for any turns, keys, costs, retries and bounds, and *)
(* about LedgerConnection, which takes its posting apart, for any threads.       *)
EXTENDS TurnStore, LedgerConnection, SequenceTheorems, FiniteSetTheorems, WellFoundedInduction, TLAPS

Succeeded == {"done", "oversize"}
Calling == {t \in Turns : At(t, "calling")}

\* The type invariant by the parts an action changes.
DiskTyped == /\ base \in [Turns -> Directory]
             /\ DOMAIN archived = Turns /\ \A t \in Turns : archived[t] \subseteq Directory
LedgerTyped ==
    /\ rows \in [Turns \X Keys -> [state: Status \cup {"none"}, tokens: Nat]]
    /\ charges \in Seq([key: Turns \X Keys \X Nat, delta: Nat \ {0}])
    /\ aged \in 0 .. Len(charges) /\ total \in Nat
ThreadsTyped == worker \in [Turns -> Worker]
MemoryTyped == /\ prompt \in [Turns -> Keys]
               /\ memory \in [Turns \X Keys -> 0 .. MaxServed]
               /\ result \in [Turns -> 0 .. MaxServed]
               /\ session \in 0 .. MaxSessions /\ open \in BOOLEAN
HistoryTyped == /\ served \in Seq([turn: Turns, kind: Answers, cost: Nat])
                /\ Len(served) <= MaxServed
                /\ unposted \subseteq Ids

LEMMA TypeParts ==
    TypeOK <=> DiskTyped /\ LedgerTyped /\ ThreadsTyped /\ MemoryTyped /\ HistoryTyped
BY DEF TypeOK, DiskTyped, LedgerTyped, ThreadsTyped, MemoryTyped, HistoryTyped

LEMMA TypePartsNext ==
    DiskTyped' /\ LedgerTyped' /\ ThreadsTyped' /\ MemoryTyped' /\ HistoryTyped' => TypeOK'
BY DEF TypeOK, DiskTyped, LedgerTyped, ThreadsTyped, MemoryTyped, HistoryTyped

WithinBound == Len(served) + Cardinality(Calling) <= MaxServed

\* What each control point of the worker says of the directory it works in,
\* and what is known of the answers in its hands and in the provider's memory.
Shape(t) ==
    /\ \A d \in archived[t] : d.attempts # <<>> /\ Sealed(d)
    /\ Exists(t) => base[t].attempts # <<>>
    /\ At(t, "calling") => Exists(t)
    /\ At(t, "sealing") => Exists(t) /\ ~Sealed(base[t])
    /\ At(t, "posting") \/ (At(t, "raised") /\ worker[t].kind = "lost")
          => base[t].manifest # NoManifest /\ base[t].manifest.key = prompt[t]
    /\ At(t, "idle") \/ At(t, "calling") => worker[t].kind = "infra"
    /\ At(t, "answered") => worker[t].kind \in Succeeded
    /\ At(t, "raised") => worker[t].kind \notin Succeeded
    /\ InHand(t) # NoAnswer => InHand(t) \in DOMAIN served
    /\ worker[t].kind \in Succeeded =>
          InHand(t) \in DOMAIN served /\ served[InHand(t)].kind = worker[t].kind
    /\ \A k \in Keys : memory[<<t, k>>] # NoAnswer =>
          memory[<<t, k>>] \in DOMAIN served /\ served[memory[<<t, k>>]].kind \in Succeeded

TypeInv == TypeOK /\ WithinBound /\ \A t \in Turns : Shape(t)

-----------------------------------------------------------------------------
(* The response of a directory is one of its answers. *)

LEMMA LargestExists ==
    ASSUME NEW n \in Nat, NEW S, S \subseteq 0 .. n, S # {}
    PROVE  \E g \in S : \A h \in S : h <= g
<1> DEFINE T == {k \in Nat : \E g \in S : k = n - g}
<1>1. ASSUME NEW g \in S  PROVE g \in Nat /\ g <= n /\ n - g \in T
  OBVIOUS
<1>2. T \subseteq Nat /\ T # {}
  BY <1>1
<1>3. PICK x \in T : \A y \in T : ~ <<y, x>> \in OpToRel(<, Nat)
  BY <1>2, NatLessThanWellFounded, WFMin
<1>4. \A y \in T : ~ (y < x)
  BY <1>2, <1>3 DEF OpToRel
<1>5. PICK g \in S : x = n - g
  BY <1>3
<1>6. ASSUME NEW h \in S  PROVE h <= g
  <2>1. ~ (n - h < n - g)
    BY <1>1, <1>4, <1>5, <1>6
  <2> QED
    BY <1>1, <1>5, <1>6, <2>1
<1> QED
  BY <1>6

LEMMA LastAnsweredExists ==
    ASSUME NEW d \in Directory, NEW i \in DOMAIN d.attempts, d.attempts[i].answer # NoAnswer
    PROVE  \E j \in DOMAIN d.attempts : IsLastAnswered(j, d)
<1> DEFINE S == {j \in DOMAIN d.attempts : d.attempts[j].answer # NoAnswer}
<1>1. Len(d.attempts) \in Nat /\ S \subseteq 0 .. Len(d.attempts) /\ S # {}
  BY DEF Directory
<1>2. PICK j \in S : \A h \in S : h <= j
  BY <1>1, LargestExists
<1>3. ASSUME NEW h \in DOMAIN d.attempts, h > j  PROVE d.attempts[h].answer = NoAnswer
  BY <1>1, <1>2, <1>3 DEF Directory
<1> QED
  BY <1>2, <1>3 DEF IsLastAnswered

LEMMA ResponseIsAnAnswer ==
    ASSUME NEW d \in Directory, d.attempts # <<>>
    PROVE  /\ Response(d) \in 0 .. MaxServed
           /\ (\A i \in DOMAIN d.attempts : d.attempts[i].answer = NoAnswer) => Response(d) = NoAnswer
           /\ (\E i \in DOMAIN d.attempts : d.attempts[i].answer # NoAnswer) =>
                \E i \in DOMAIN d.attempts : /\ d.attempts[i].answer # NoAnswer
                                             /\ Response(d) = d.attempts[i].answer
<1>1. CASE \A i \in DOMAIN d.attempts : d.attempts[i].answer = NoAnswer
  BY <1>1, BoundsAssumption DEF Response, NoAnswer
<1>2. CASE \E i \in DOMAIN d.attempts : d.attempts[i].answer # NoAnswer
  <2>1. 1 \in DOMAIN d.attempts /\ Head(d.attempts) = d.attempts[1]
        /\ \A i \in DOMAIN d.attempts : d.attempts[i].answer \in 0 .. MaxServed
    <3>1. PICK s \in Seq(Attempt) : s = d.attempts
      BY DEF Directory
    <3>2. 1 \in DOMAIN s /\ Head(s) = s[1]
      BY <3>1
    <3>3. \A i \in DOMAIN s : s[i] \in Attempt
      OBVIOUS
    <3> QED
      BY <3>1, <3>2, <3>3 DEF Attempt
  <2>2. CASE Head(d.attempts).answer # NoAnswer
    <3>1. Response(d) = d.attempts[1].answer
      BY <1>2, <2>1, <2>2 DEF Response
    <3> QED
      BY <1>2, <2>1, <2>2, <3>1
  <2>3. CASE Head(d.attempts).answer = NoAnswer
    <3>1. PICK j \in DOMAIN d.attempts :
             /\ IsLastAnswered(j, d)
             /\ j = CHOOSE i \in DOMAIN d.attempts : IsLastAnswered(i, d)
      BY <1>2, LastAnsweredExists
    <3>2. Response(d) = d.attempts[j].answer
      BY <1>2, <2>3, <3>1 DEF Response
    <3> QED
      BY <1>2, <2>1, <3>1, <3>2 DEF IsLastAnswered
  <2> QED
    BY <2>2, <2>3
<1> QED
  BY <1>1, <1>2

-----------------------------------------------------------------------------
(* A worker touches its own turn only. *)

Entry == [turn: Turns, kind: Answers, cost: Nat]
Grows == served' = served \/ \E e \in Entry : served' = Append(served, e)

LEMMA HistoryGrows ==
    ASSUME served \in Seq(Entry), Grows
    PROVE  /\ served' \in Seq(Entry)
           /\ \A i \in DOMAIN served : i \in DOMAIN served' /\ served'[i] = served[i]
<1>1. CASE served' = served
  BY <1>1
<1>2. ASSUME NEW e \in Entry, served' = Append(served, e)
      PROVE  /\ served' \in Seq(Entry)
             /\ \A i \in DOMAIN served : i \in DOMAIN served' /\ served'[i] = served[i]
  BY <1>2
<1> QED
  BY <1>1, <1>2 DEF Grows

Local(t) ==
    /\ prompt' = prompt /\ Grows
    /\ \A u \in Turns \ {t} :
          /\ base'[u] = base[u] /\ archived'[u] = archived[u] /\ worker'[u] = worker[u]
          /\ \A k \in Keys : memory'[<<u, k>>] = memory[<<u, k>>]

LEMMA OwnTurn ==
    ASSUME TypeOK, NEW t \in Turns, Request(t) \/ Answer(t) \/ Record(t)
    PROVE  Local(t)
<1> USE DEF Local, Grows, TypeOK, process, ledger, disk
<1>1. CASE Replay(t)
  BY <1>1 DEF Replay, Finish
<1>2. CASE Remembered(t)
  BY <1>2 DEF Remembered
<1>3. CASE Ask(t)
  BY <1>3 DEF Ask
<1>4. CASE Answer(t)
  <2>1. PICK kind \in Answers : Completes(t, kind) \/ Fails(t, kind)
    BY <1>4 DEF Answer
  <2>2. archived' = archived /\ prompt' = prompt
    BY <1>4 DEF Answer
  <2>3. Grows
    <3>1. PICK cost \in Nat : served' = Append(served, [turn |-> t, kind |-> kind, cost |-> cost])
      BY <2>1, BoundsAssumption DEF Completes, Fails
    <3>2. [turn |-> t, kind |-> kind, cost |-> cost] \in Entry
      BY DEF Entry
    <3> QED
      BY <3>1, <3>2
  <2>4. /\ \A u \in Turns \ {t} : base'[u] = base[u] /\ worker'[u] = worker[u]
        /\ \A u \in Turns \ {t}, k \in Keys : memory'[<<u, k>>] = memory[<<u, k>>]
    BY <2>1 DEF Completes, Fails
  <2> QED
    BY <2>2, <2>3, <2>4
<1>5. CASE Archive(t)
  BY <1>5 DEF Archive
<1>6. CASE Write(t)
  BY <1>6 DEF Write
<1>7. CASE Index(t)
  BY <1>7 DEF Index
<1>8. CASE Verify(t)
  BY <1>8 DEF Verify
<1>9. CASE Seal(t)
  BY <1>9 DEF Seal, Raise
<1>10. CASE Charge(t)
  BY <1>10 DEF Charge, Finish
<1>11. CASE Locked(t)
  BY <1>11 DEF Locked, Raise
<1> QED
  BY <1>1, <1>2, <1>3, <1>4, <1>5, <1>6, <1>7, <1>8, <1>9, <1>10, <1>11 DEF Request, Record

LEMMA ShapeOfOthers ==
    ASSUME TypeOK, NEW t \in Turns, Local(t), NEW u \in Turns, u # t, Shape(u)
    PROVE  Shape(u)'
<1>1. /\ base'[u] = base[u] /\ archived'[u] = archived[u] /\ worker'[u] = worker[u]
      /\ prompt'[u] = prompt[u] /\ \A k \in Keys : memory'[<<u, k>>] = memory[<<u, k>>]
  BY DEF Local
<1>2. \A i \in DOMAIN served : i \in DOMAIN served' /\ served'[i] = served[i]
  BY HistoryGrows DEF Local, TypeOK, Entry
<1>3. /\ \A d \in archived'[u] : d.attempts # <<>> /\ Sealed(d)
      /\ Exists(u)' => base'[u].attempts # <<>>
      /\ At(u, "calling")' => Exists(u)'
      /\ At(u, "sealing")' => Exists(u)' /\ ~Sealed(base'[u])
  BY <1>1 DEF Shape, At, Exists
<1>4. /\ (At(u, "posting") \/ (At(u, "raised") /\ worker[u].kind = "lost"))'
          => base'[u].manifest # NoManifest /\ base'[u].manifest.key = prompt'[u]
      /\ (At(u, "idle") \/ At(u, "calling"))' => worker'[u].kind = "infra"
      /\ At(u, "answered")' => worker'[u].kind \in Succeeded
      /\ At(u, "raised")' => worker'[u].kind \notin Succeeded
  BY <1>1 DEF Shape, At
<1>5. /\ InHand(u)' # NoAnswer => InHand(u)' \in DOMAIN served'
      /\ worker'[u].kind \in Succeeded =>
          InHand(u)' \in DOMAIN served' /\ served'[InHand(u)'].kind = worker'[u].kind
  BY <1>1, <1>2 DEF Shape, InHand
<1>6. ASSUME NEW k \in Keys, memory'[<<u, k>>] # NoAnswer
      PROVE  /\ memory'[<<u, k>>] \in DOMAIN served'
             /\ served'[memory'[<<u, k>>]].kind \in Succeeded
  BY <1>1, <1>2, <1>6 DEF Shape
<1> QED
  BY <1>3, <1>4, <1>5, <1>6 DEF Shape, Sealed

-----------------------------------------------------------------------------
(* What the ways a worker changes leave of its record. *)

LEMMA Steps ==
    ASSUME ThreadsTyped, NEW t \in Turns, NEW p \in ControlPoints,
           worker' = [worker EXCEPT ![t].pc = p]
    PROVE  /\ ThreadsTyped' /\ worker'[t].pc = p
           /\ worker'[t].kind = worker[t].kind /\ worker'[t].answer = worker[t].answer
<1>1. PICK w \in Worker : w = [worker[t] EXCEPT !.pc = p]
  BY DEF ThreadsTyped, Worker
<1>2. worker' = [worker EXCEPT ![t] = w]
  BY <1>1 DEF ThreadsTyped
<1>3. w.pc = p /\ w.kind = worker[t].kind /\ w.answer = worker[t].answer
  BY <1>1 DEF ThreadsTyped, Worker
<1> QED
  BY <1>2, <1>3 DEF ThreadsTyped

LEMMA IdleType ==
    ASSUME NEW left \in 0 .. Retries + 1
    PROVE  /\ Idle(left) \in [pc: ControlPoints, kind: {"infra"}, answer: 0 .. MaxServed,
                              handler: BOOLEAN, left: 0 .. Retries + 1]
           /\ Idle(left).pc = "idle" /\ Idle(left).kind = "infra" /\ Idle(left).left = left
           /\ Idle(left).answer = NoAnswer
BY BoundsAssumption DEF Idle, ControlPoints, NoAnswer

LEMMA Rests ==
    ASSUME ThreadsTyped, NEW t \in Turns, NEW left \in 0 .. Retries + 1,
           worker' = [worker EXCEPT ![t] = Idle(left)]
    PROVE  /\ ThreadsTyped' /\ worker'[t].pc = "idle" /\ worker'[t].kind = "infra"
           /\ worker'[t].answer = NoAnswer
<1>1. Idle(left) \in Worker
  BY IdleType DEF Worker
<1> QED
  BY <1>1, IdleType DEF ThreadsTyped

LEMMA Raises ==
    ASSUME ThreadsTyped, HistoryTyped, NEW t \in Turns, Raise(t)
    PROVE  /\ ThreadsTyped'
           /\ \/ worker'[t].pc = "idle" /\ worker'[t].kind = "infra"
              \/ worker'[t].pc = "raised" /\ worker'[t].kind = "lost"
           /\ unposted' \subseteq Ids /\ worker'[t].answer \in {NoAnswer, worker[t].answer}
<1>0. worker[t] \in Worker /\ worker[t].left \in 0 .. Retries + 1
      /\ InHand(t) \in 0 .. MaxServed /\ (Cost(InHand(t)) > 0 => InHand(t) \in Ids)
  BY BoundsAssumption DEF ThreadsTyped, Worker, InHand, Cost, Ids, NoAnswer
<1>1. CASE worker[t].handler
  <2>1. worker' = [worker EXCEPT ![t] = Idle(worker[t].left)]
        /\ unposted' = IF Cost(InHand(t)) > 0 THEN unposted \cup {InHand(t)} ELSE unposted
    BY <1>1 DEF Raise
  <2> QED
    BY <1>0, <2>1, Rests DEF HistoryTyped
<1>2. CASE ~worker[t].handler
  <2>1. worker' = [worker EXCEPT ![t].pc = "raised", ![t].kind = "lost", ![t].handler = TRUE]
        /\ unposted' = unposted
    BY <1>2 DEF Raise
  <2>2. PICK w \in Worker : w = [worker[t] EXCEPT !.pc = "raised", !.kind = "lost", !.handler = TRUE]
    BY <1>0 DEF Worker, ControlPoints
  <2>3. worker' = [worker EXCEPT ![t] = w]
    BY <2>1, <2>2 DEF ThreadsTyped
  <2>4. w.pc = "raised" /\ w.kind = "lost" /\ w.answer = worker[t].answer
    BY <1>0, <2>2 DEF Worker
  <2> QED
    BY <2>1, <2>3, <2>4 DEF ThreadsTyped, HistoryTyped
<1> QED
  BY <1>1, <1>2

LEMMA Returns ==
    ASSUME ThreadsTyped, MemoryTyped, NEW t \in Turns, NEW a \in 0 .. MaxServed,
           NEW left \in 0 .. Retries + 1, Finish(t, a, left)
    PROVE  /\ ThreadsTyped' /\ worker'[t].pc = "idle" /\ worker'[t].kind = "infra"
           /\ worker'[t].answer = NoAnswer
           /\ result' \in [Turns -> 0 .. MaxServed]
BY Rests DEF Finish, MemoryTyped

LEMMA MoreCalls ==
    ASSUME WithinBound, ThreadsTyped, HistoryTyped, NEW t \in Turns,
           \A u \in Turns \ {t} : worker'[u] = worker[u],
           ThreadsTyped'
    PROVE  /\ worker'[t].pc # "calling" => Calling' = Calling \ {t}
           /\ worker'[t].pc = "calling" => Calling' = Calling \cup {t}
           /\ IsFiniteSet(Calling) /\ Cardinality(Calling) \in Nat
<1>1. IsFiniteSet(Calling)
  BY BoundsAssumption, FS_Subset DEF Calling
<1> QED
  BY <1>1, FS_CardinalityType DEF Calling, At, ThreadsTyped

LEMMA NoMoreCalls ==
    ASSUME WithinBound, ThreadsTyped, HistoryTyped, NEW t \in Turns,
           \A u \in Turns \ {t} : worker'[u] = worker[u],
           ThreadsTyped', worker'[t].pc # "calling", served' = served
    PROVE  WithinBound'
<1>1. Calling' = Calling \ {t} /\ IsFiniteSet(Calling) /\ Cardinality(Calling) \in Nat
  BY MoreCalls
<1>2. Cardinality(Calling') <= Cardinality(Calling) /\ Cardinality(Calling') \in Nat
  BY <1>1, FS_Subset, FS_CardinalityType
<1> QED
  BY <1>1, <1>2, BoundsAssumption DEF WithinBound, HistoryTyped

-----------------------------------------------------------------------------
(* Types and shapes: one lemma for each way a worker moves. *)

Kept(t) == /\ DiskTyped /\ LedgerTyped /\ ThreadsTyped /\ MemoryTyped /\ HistoryTyped
           /\ WithinBound /\ Shape(t)

LEMMA KeptFirst == ASSUME TypeInv, NEW t \in Turns  PROVE Kept(t)
BY TypeParts DEF TypeInv, Kept

\* What an action that leaves the memory and the history alone has to show.
LEMMA KeptNext ==
    ASSUME TypeInv, NEW t \in Turns, Local(t), DiskTyped', LedgerTyped', ThreadsTyped',
           UNCHANGED <<memory, session, open, served>>,
           result' \in [Turns -> 0 .. MaxServed], unposted' \subseteq Ids,
           worker'[t].pc # "calling", worker'[t].pc = "idle" => worker'[t].kind = "infra",
           worker'[t].answer \in {NoAnswer, worker[t].answer} \cup DOMAIN served,
           worker'[t].kind \in Succeeded =>
              \/ worker'[t].kind = worker[t].kind /\ worker'[t].answer = worker[t].answer
              \/ /\ worker'[t].answer \in DOMAIN served
                 /\ served[worker'[t].answer].kind = worker'[t].kind,
           \A d \in archived'[t] : d.attempts # <<>> /\ Sealed(d),
           base'[t] # Absent => base'[t].attempts # <<>>,
           worker'[t].pc = "sealing" => base'[t] # Absent /\ base'[t].manifest = NoManifest,
           worker'[t].pc = "posting" \/ (worker'[t].pc = "raised" /\ worker'[t].kind = "lost")
              => base'[t].manifest # NoManifest /\ base'[t].manifest.key = prompt[t],
           worker'[t].pc = "answered" => worker'[t].kind \in Succeeded,
           worker'[t].pc = "raised" => worker'[t].kind \notin Succeeded
    PROVE  Kept(t)'
<1>1. Kept(t)
  BY KeptFirst
<1>2. MemoryTyped' /\ HistoryTyped'
  BY <1>1 DEF Kept, MemoryTyped, HistoryTyped, Local
<1>3. WithinBound'
  BY <1>1, NoMoreCalls DEF Kept, Local
<1>4. prompt' = prompt
  BY DEF Local
<1>5. /\ \A d \in archived'[t] : d.attempts # <<>> /\ Sealed(d)
      /\ Exists(t)' => base'[t].attempts # <<>>
      /\ ~At(t, "calling")'
      /\ At(t, "sealing")' => Exists(t)' /\ ~Sealed(base'[t])
  BY DEF Exists, At, Sealed
<1>6. At(t, "posting")' \/ (At(t, "raised")' /\ worker'[t].kind = "lost")
         => base'[t].manifest # NoManifest /\ base'[t].manifest.key = prompt'[t]
  BY <1>4 DEF At
<1>7. /\ (At(t, "idle") \/ At(t, "calling"))' => worker'[t].kind = "infra"
      /\ At(t, "answered")' => worker'[t].kind \in Succeeded
      /\ At(t, "raised")' => worker'[t].kind \notin Succeeded
  BY DEF At
<1>8. /\ InHand(t)' # NoAnswer => InHand(t)' \in DOMAIN served'
      /\ worker'[t].kind \in Succeeded =>
          InHand(t)' \in DOMAIN served' /\ served'[InHand(t)'].kind = worker'[t].kind
  <2>1. CASE worker'[t].kind \in Succeeded
    <3>1. \/ worker'[t].kind = worker[t].kind /\ worker'[t].answer = worker[t].answer
          \/ /\ worker'[t].answer \in DOMAIN served
             /\ served[worker'[t].answer].kind = worker'[t].kind
      BY <2>1
    <3> QED
      BY <1>1, <2>1, <3>1 DEF Kept, Shape, InHand
  <2>2. InHand(t)' # NoAnswer => InHand(t)' \in DOMAIN served'
    BY <1>1 DEF Kept, Shape, InHand
  <2> QED
    BY <2>1, <2>2
<1>9. \A k \in Keys : memory'[<<t, k>>] # NoAnswer =>
          memory'[<<t, k>>] \in DOMAIN served' /\ served'[memory'[<<t, k>>]].kind \in Succeeded
  BY <1>1 DEF Kept, Shape
<1>10. Shape(t)'
  BY <1>5, <1>6, <1>7, <1>8, <1>9 DEF Shape, Sealed
<1> QED
  BY <1>2, <1>3, <1>10 DEF Kept

LEMMA RetainedIsEvidence ==
    ASSUME NEW t \in Turns, NEW k
    PROVE  /\ \A d \in Retained(t, k) : d \in Directories(t) /\ (Exact(d, k) \/ Compatible(d, k))
           /\ Retained(t, k) = {} => \A d \in Directories(t) : ~Exact(d, k) /\ ~Compatible(d, k)
<1> DEFINE exact == {d \in Directories(t) : Exact(d, k)}
           compatible == {d \in Directories(t) : Compatible(d, k)}
<1>1. CASE exact # {}
  <2>1. Retained(t, k) = IF Exact(base[t], k) THEN {base[t]} ELSE exact
    BY <1>1 DEF Retained
  <2>2. CASE Exact(base[t], k)
    <3>1. Exists(t)
      BY <2>2 DEF Exact, Exists, Absent, Sealed
    <3> QED
      BY <2>1, <2>2, <3>1 DEF Directories
  <2>3. CASE ~Exact(base[t], k)
    BY <1>1, <2>1, <2>3
  <2> QED
    BY <2>2, <2>3
<1>2. CASE exact = {}
  <2>1. Retained(t, k) = IF compatible \cap archived[t] # {}
                         THEN compatible \cap archived[t] ELSE compatible
    BY <1>2 DEF Retained
  <2> QED
    BY <1>2, <2>1
<1> QED
  BY <1>1, <1>2

LEMMA KeptByReplay ==
    ASSUME TypeInv, NEW t \in Turns, Replay(t)
    PROVE  Kept(t)'
<1>1. Kept(t) /\ Local(t)
  BY KeptFirst, OwnTurn DEF Request, TypeInv
<1>2. /\ UNCHANGED <<base, archived, rows, charges, total, aged, prompt, memory, session, open,
                     served, unposted>>
  BY DEF Replay, disk, ledger
<1>3. PICK d \in Retained(t, prompt[t]) :
         Finish(t, IF d.manifest.status = "completed" THEN Response(d) ELSE NoAnswer, 0)
  BY DEF Replay
<1>4. d \in Directory /\ d.attempts # <<>>
  BY <1>1, RetainedIsEvidence DEF Kept, Shape, DiskTyped, Directories
<1>5. PICK a \in 0 .. MaxServed :
         a = IF d.manifest.status = "completed" THEN Response(d) ELSE NoAnswer
  BY <1>4, ResponseIsAnAnswer, BoundsAssumption DEF NoAnswer
<1>6. 0 \in 0 .. Retries + 1
  BY BoundsAssumption
<1>7. /\ ThreadsTyped' /\ worker'[t].pc = "idle" /\ worker'[t].kind = "infra"
      /\ result' \in [Turns -> 0 .. MaxServed] /\ worker'[t].answer = NoAnswer
  BY <1>1, <1>3, <1>5, <1>6, Returns DEF Kept
<1>8. DiskTyped' /\ LedgerTyped' /\ unposted' \subseteq Ids
  BY <1>1, <1>2 DEF Kept, DiskTyped, LedgerTyped, HistoryTyped
<1>9. /\ \A d1 \in archived'[t] : d1.attempts # <<>> /\ Sealed(d1)
      /\ base'[t] # Absent => base'[t].attempts # <<>>
  BY <1>1, <1>2 DEF Kept, Shape, Exists
<1> QED
  BY <1>1, <1>2, <1>7, <1>8, <1>9, KeptNext DEF Succeeded

LEMMA AttemptAdded ==
    ASSUME NEW b \in Directory, NEW e \in Attempt
    PROVE  \E d \in Directory : /\ d = [b EXCEPT !.attempts = Append(b.attempts, e)]
                                /\ d.attempts # <<>>
                                /\ \A i \in DOMAIN d.attempts :
                                      \/ d.attempts[i] = e
                                      \/ i \in DOMAIN b.attempts /\ d.attempts[i] = b.attempts[i]
<1>1. PICK s \in Seq(Attempt) :
         /\ s = Append(b.attempts, e) /\ s # <<>>
         /\ \A i \in DOMAIN s : s[i] = e \/ (i \in DOMAIN b.attempts /\ s[i] = b.attempts[i])
  <2>1. PICK r \in Seq(Attempt) : r = b.attempts
    BY DEF Directory
  <2>2. Append(r, e) \in Seq(Attempt) /\ Len(Append(r, e)) = Len(r) + 1 /\ Len(r) \in Nat
    OBVIOUS
  <2>3. Append(r, e) # <<>>
    BY <2>2
  <2>4. \A i \in DOMAIN Append(r, e) : Append(r, e)[i] = e \/ (i \in DOMAIN r /\ Append(r, e)[i] = r[i])
    BY <2>2
  <2> QED
    BY <2>1, <2>2, <2>3, <2>4
<1>2. [b EXCEPT !.attempts = s] \in Directory /\ [b EXCEPT !.attempts = s].attempts = s
  BY DEF Directory
<1> QED
  BY <1>1, <1>2

\* A request is made: the files of a new attempt, without an answer yet.
LEMMA AskStep ==
    ASSUME TypeInv, NEW t \in Turns, Ask(t)
    PROVE  /\ UNCHANGED <<archived, rows, charges, total, aged, prompt, memory, result, session, open,
                           served, unposted>>
           /\ worker[t].pc = "idle" /\ ThreadsTyped' /\ worker'[t].pc = "calling"
           /\ worker'[t].kind = "infra" /\ worker'[t].answer = worker[t].answer
           /\ DiskTyped' /\ base'[t] # Absent /\ base'[t].attempts # <<>>
           /\ base'[t].manifest = base[t].manifest /\ base'[t].source = base[t].source
           /\ base'[t].oversize = base[t].oversize
           /\ \A i \in DOMAIN base'[t].attempts :
                 \/ base'[t].attempts[i].answer = NoAnswer
                 \/ /\ i \in DOMAIN base[t].attempts
                    /\ base'[t].attempts[i].answer = base[t].attempts[i].answer
<1>1. Kept(t) /\ Local(t)
  BY KeptFirst, OwnTurn DEF Request, TypeInv
<1>2. UNCHANGED <<archived, rows, charges, total, aged, prompt, memory, result, session, open,
                  served, unposted>>
  BY DEF Ask, ledger
<1>3. worker[t] \in Worker /\ worker[t].left - 1 \in 0 .. Retries + 1
      /\ worker[t].left > 0 /\ worker[t].pc = "idle"
  BY <1>1, BoundsAssumption DEF Ask, May, At, Kept, ThreadsTyped, Worker
<1>4. PICK n \in 0 .. Retries + 1 : n = worker[t].left - 1
  BY <1>3
<1>5. PICK w \in Worker : w = [worker[t] EXCEPT !.pc = "calling", !.left = n]
  BY <1>3 DEF Worker, ControlPoints
<1>6. worker' = [worker EXCEPT ![t] = w]
  BY <1>1, <1>4, <1>5 DEF Ask, Kept, ThreadsTyped
<1>7. /\ ThreadsTyped' /\ worker'[t].pc = "calling" /\ worker'[t].kind = "infra"
      /\ worker'[t].answer = worker[t].answer
  BY <1>1, <1>3, <1>5, <1>6 DEF Kept, Shape, At, ThreadsTyped, Worker
<1>8. PICK e \in Attempt : e = [key |-> prompt[t], answer |-> NoAnswer]
  <2>1. prompt[t] \in Keys /\ NoAnswer \in 0 .. MaxServed
    BY <1>1, BoundsAssumption DEF Kept, MemoryTyped, NoAnswer
  <2> QED
    BY <2>1 DEF Attempt
<1>9. PICK d \in Directory : /\ d = [base[t] EXCEPT !.attempts = Append(base[t].attempts, e)]
                             /\ d.attempts # <<>>
                             /\ \A i \in DOMAIN d.attempts :
                                   \/ d.attempts[i] = e
                                   \/ i \in DOMAIN base[t].attempts /\ d.attempts[i] = base[t].attempts[i]
  BY <1>1, AttemptAdded DEF Kept, DiskTyped
<1>10. base' = [base EXCEPT ![t] = d]
  BY <1>1, <1>8, <1>9 DEF Ask, Kept, DiskTyped
<1>11. DiskTyped' /\ base'[t] = d /\ d # Absent
  BY <1>1, <1>2, <1>9, <1>10 DEF Kept, DiskTyped, Absent
<1>12. d.manifest = base[t].manifest /\ d.source = base[t].source /\ d.oversize = base[t].oversize
  BY <1>1, <1>9 DEF Kept, DiskTyped, Directory
<1>13. e.answer = NoAnswer
  BY <1>8
<1> QED
  BY <1>2, <1>3, <1>7, <1>9, <1>11, <1>12, <1>13

LEMMA KeptByAsk ==
    ASSUME TypeInv, NEW t \in Turns, Ask(t)
    PROVE  Kept(t)'
<1>1. Kept(t) /\ Local(t)
  BY KeptFirst, OwnTurn DEF Request, TypeInv
<1>2. UNCHANGED <<archived, rows, charges, total, aged, prompt, memory, result, session, open,
                  served, unposted>>
  BY AskStep
<1>7. /\ ThreadsTyped' /\ worker'[t].pc = "calling" /\ worker'[t].kind = "infra"
      /\ worker'[t].answer = worker[t].answer
  BY AskStep
<1>11. DiskTyped' /\ base'[t].attempts # <<>> /\ base'[t] # Absent
  BY AskStep
<1>12. LedgerTyped' /\ MemoryTyped' /\ HistoryTyped'
  BY <1>1, <1>2 DEF Kept, LedgerTyped, MemoryTyped, HistoryTyped
<1>13. WithinBound'
  <2>1. /\ Calling' = Calling \cup {t} /\ IsFiniteSet(Calling) /\ Cardinality(Calling) \in Nat
    BY <1>1, <1>7, MoreCalls DEF Kept, Local
  <2>2. Cardinality(Calling') \in Nat /\ Cardinality(Calling') <= Cardinality(Calling) + 1
    <3>1. Cardinality(Calling \cup {t}) = IF t \in Calling THEN Cardinality(Calling)
                                         ELSE Cardinality(Calling) + 1
      BY <2>1, FS_AddElement
    <3>2. PICK n \in Nat : n = Cardinality(Calling)
      BY <2>1
    <3>3. Cardinality(Calling') = n \/ Cardinality(Calling') = n + 1
      BY <2>1, <3>1, <3>2
    <3> QED
      BY <3>2, <3>3
  <2>3. Len(served) + Cardinality(Calling) < MaxServed
    BY DEF Ask, Calling
  <2> QED
    BY <1>1, <1>2, <2>1, <2>2, <2>3, BoundsAssumption DEF WithinBound, Kept, HistoryTyped
<1>14. Shape(t)'
  <2>1. /\ \A c \in archived'[t] : c.attempts # <<>> /\ Sealed(c)
        /\ base'[t].attempts # <<>> /\ base'[t] # Absent
    BY <1>1, <1>2, <1>11 DEF Kept, Shape
  <2>2. \A k \in Keys : memory'[<<t, k>>] # NoAnswer =>
          memory'[<<t, k>>] \in DOMAIN served' /\ served'[memory'[<<t, k>>]].kind \in Succeeded
    BY <1>1, <1>2 DEF Kept, Shape
  <2>3. InHand(t)' # NoAnswer => InHand(t)' \in DOMAIN served'
    BY <1>1, <1>2, <1>7 DEF Kept, Shape, InHand
  <2> QED
    BY <1>7, <2>1, <2>2, <2>3 DEF Shape, At, Exists, Sealed, Succeeded
<1> QED
  BY <1>7, <1>11, <1>12, <1>13, <1>14 DEF Kept

LEMMA ServedFacts ==
    ASSUME HistoryTyped, NEW i \in DOMAIN served
    PROVE  served[i] \in Entry /\ served[i].kind \in Answers /\ served[i].cost \in Nat /\ i \in Ids
<1>1. served \in Seq(Entry) /\ Len(served) <= MaxServed
  BY DEF HistoryTyped, Entry
<1>2. i \in 1 .. Len(served) /\ Len(served) \in Nat /\ served[i] \in Entry
  BY <1>1
<1> QED
  BY <1>1, <1>2, BoundsAssumption DEF Entry, Ids

LEMMA KeptByMemory ==
    ASSUME TypeInv, NEW t \in Turns, Remembered(t)
    PROVE  Kept(t)'
<1>1. Kept(t) /\ Local(t)
  BY KeptFirst, OwnTurn DEF Request, TypeInv
<1>2. UNCHANGED <<base, archived, rows, charges, total, aged, prompt, memory, result, session, open,
                  served, unposted>>
  BY DEF Remembered, ledger, disk
<1>3. worker[t] \in Worker /\ worker[t].left - 1 \in 0 .. Retries + 1
      /\ worker[t].left > 0 /\ worker[t].pc = "idle"
  BY <1>1, BoundsAssumption DEF Remembered, May, At, Kept, ThreadsTyped, Worker
<1>4. PICK n \in 0 .. Retries + 1 : n = worker[t].left - 1
  BY <1>3
<1>5. PICK a \in 0 .. MaxServed : /\ a = memory[<<t, prompt[t]>>]
                                  /\ a \in DOMAIN served /\ served[a].kind \in Succeeded
  BY <1>1 DEF Remembered, Kept, Shape, MemoryTyped
<1>6. PICK kind \in Answers : kind = served[a].kind /\ kind \in Succeeded
  BY <1>1, <1>5, ServedFacts DEF Kept
<1>7. PICK w \in Worker : w = [worker[t] EXCEPT !.pc = "answered", !.answer = a, !.kind = kind, !.left = n]
  BY <1>3 DEF Worker, ControlPoints
<1>8. worker' = [worker EXCEPT ![t] = w]
  BY <1>1, <1>4, <1>5, <1>6, <1>7 DEF Remembered, Kept, ThreadsTyped
<1>9. w.pc = "answered" /\ w.kind = kind /\ w.answer = a
  BY <1>3, <1>7 DEF Worker
<1>10. ThreadsTyped' /\ worker'[t] = w
  BY <1>1, <1>8 DEF Kept, ThreadsTyped
<1>11. DiskTyped' /\ LedgerTyped' /\ result' \in [Turns -> 0 .. MaxServed] /\ unposted' \subseteq Ids
  BY <1>1, <1>2 DEF Kept, DiskTyped, LedgerTyped, MemoryTyped, HistoryTyped
<1>12. /\ \A d \in archived'[t] : d.attempts # <<>> /\ Sealed(d)
       /\ base'[t] # Absent => base'[t].attempts # <<>>
  BY <1>1, <1>2 DEF Kept, Shape, Exists
<1> QED
  BY <1>1, <1>2, <1>5, <1>6, <1>9, <1>10, <1>11, <1>12, KeptNext

LEMMA AnsweredDirectory ==
    ASSUME NEW b \in Directory, b.attempts # <<>>, NEW id \in 0 .. MaxServed, NEW kind
    PROVE  /\ Answered(b, id, kind) \in Directory
           /\ Answered(b, id, kind).attempts # <<>>
           /\ DOMAIN Answered(b, id, kind).attempts = DOMAIN b.attempts
           /\ \A i \in DOMAIN b.attempts : Answered(b, id, kind).attempts[i].answer =
                  IF i = Len(b.attempts) THEN id ELSE b.attempts[i].answer
           /\ Len(b.attempts) \in DOMAIN b.attempts
           /\ Answered(b, id, kind).manifest = b.manifest
           /\ Answered(b, id, kind).source = b.source
           /\ Answered(b, id, kind).oversize <=> (b.oversize \/ kind = "oversize")
<1>1. PICK s \in Seq(Attempt) : s = b.attempts /\ s # <<>>
  BY DEF Directory
<1>2. PICK n \in Nat : n = Len(s) /\ n \in DOMAIN s
  BY <1>1
<1>3. PICK e \in Attempt : e = [s[n] EXCEPT !.answer = id] /\ e.answer = id
  <2>1. PICK f \in Attempt : f = s[n]
    BY <1>2
  <2>2. [f EXCEPT !.answer = id] \in Attempt /\ [f EXCEPT !.answer = id].answer = id
    BY DEF Attempt
  <2> QED
    BY <2>1, <2>2
<1>4. PICK r \in Seq(Attempt) : r = [s EXCEPT ![n] = e] /\ DOMAIN r = DOMAIN s
  <2>1. n \in 1 .. Len(s)
    BY <1>2
  <2>2. [s EXCEPT ![n] = e] \in Seq(Attempt)
    BY <2>1, ExceptSeq
  <2> QED
    BY <2>2
<1>5. PICK over \in BOOLEAN : over = (b.oversize \/ kind = "oversize")
  BY DEF Directory
<1>6. Answered(b, id, kind) = [b EXCEPT !.attempts = r, !.oversize = over]
  BY <1>1, <1>2, <1>3, <1>4, <1>5 DEF Answered
<1>7. PICK d \in Directory : d = [b EXCEPT !.attempts = r, !.oversize = over]
  BY DEF Directory
<1>8. d.attempts = r /\ d.oversize = over /\ d.manifest = b.manifest /\ d.source = b.source
  BY <1>7 DEF Directory
<1>9. r # <<>> /\ \A i \in DOMAIN s : r[i].answer = IF i = n THEN id ELSE s[i].answer
  BY <1>1, <1>2, <1>3, <1>4
<1>10. Answered(b, id, kind) = d
  BY <1>6, <1>7
<1>11. Answered(b, id, kind).oversize <=> (b.oversize \/ kind = "oversize")
  BY <1>5, <1>8, <1>10
<1>12. \A i \in DOMAIN b.attempts : Answered(b, id, kind).attempts[i].answer =
                  IF i = Len(b.attempts) THEN id ELSE b.attempts[i].answer
  BY <1>1, <1>2, <1>8, <1>9, <1>10
<1> QED
  BY <1>1, <1>2, <1>4, <1>8, <1>9, <1>10, <1>11, <1>12

LEMMA CallerCounted ==
    ASSUME NEW t \in Turns, worker[t].pc = "calling"
    PROVE  /\ IsFiniteSet(Calling) /\ t \in Calling /\ Cardinality(Calling) \in Nat
           /\ Cardinality(Calling \ {t}) + 1 = Cardinality(Calling) /\ Cardinality(Calling \ {t}) \in Nat
<1>1. IsFiniteSet(Calling) /\ t \in Calling
  BY BoundsAssumption, FS_Subset DEF Calling, At
<1>2. IsFiniteSet(Calling \ {t}) /\ Cardinality(Calling \ {t}) = Cardinality(Calling) - 1
  BY <1>1, FS_RemoveElement
<1>3. Cardinality(Calling) \in Nat /\ Cardinality(Calling \ {t}) \in Nat
  BY <1>1, <1>2, FS_CardinalityType
<1> QED
  BY <1>1, <1>2, <1>3

\* The answer id of this kind has come.
Answering(t, kind, id) ==
    /\ UNCHANGED <<archived, rows, charges, total, aged, prompt, result, session, open, unposted>>
    /\ worker[t].pc = "calling" /\ id \in 1 .. MaxServed /\ id = Len(served) + 1
    /\ Len(served') = id /\ id \in DOMAIN served' /\ served'[id].kind = kind
    /\ served' \in Seq(Entry)
    /\ \A i \in DOMAIN served : i \in DOMAIN served' /\ served'[i] = served[i]
    /\ ThreadsTyped' /\ DiskTyped' /\ base'[t] # Absent /\ base'[t].attempts # <<>>
    /\ base'[t] = IF kind \in Succeeded THEN Answered(base[t], id, kind) ELSE base[t]
    /\ worker'[t].kind = kind /\ worker'[t].answer = id
    /\ worker'[t].pc = IF kind \in Succeeded THEN "answered" ELSE "raised"
    /\ memory' = IF kind \in Succeeded THEN [memory EXCEPT ![<<t, prompt[t]>>] = id] ELSE memory

LEMMA AnswerStep ==
    ASSUME TypeInv, NEW t \in Turns, Answer(t)
    PROVE  \E kind \in Answers, id \in Nat : Answering(t, kind, id)
<1>1. Kept(t) /\ Local(t)
  BY KeptFirst, OwnTurn DEF TypeInv
<1>2. /\ UNCHANGED <<archived, rows, charges, total, aged, prompt, result, session, open>>
      /\ worker[t].pc = "calling"
  BY DEF Answer, At, ledger
<1>3. PICK kind \in Answers : Completes(t, kind) \/ Fails(t, kind)
  BY DEF Answer
<1>4. PICK cost \in Nat : served' = Append(served, [turn |-> t, kind |-> kind, cost |-> cost])
  BY <1>3, BoundsAssumption DEF Completes, Fails
<1>5. PICK e \in Entry : e = [turn |-> t, kind |-> kind, cost |-> cost] /\ e.kind = kind
  <2>1. PICK r \in Entry : r = [turn |-> t, kind |-> kind, cost |-> cost]
    BY DEF Entry
  <2>2. [turn |-> t, kind |-> kind, cost |-> cost].kind = kind
    OBVIOUS
  <2> QED
    BY <2>1, <2>2
<1>6. served \in Seq(Entry) /\ Len(served) \in Nat
  BY <1>1 DEF Kept, HistoryTyped, Entry
<1>7. PICK id \in Nat \ {0} : id = Len(served) + 1
  BY <1>6
<1>8. /\ Len(served') = id /\ id \in DOMAIN served' /\ served'[id] = e /\ served' \in Seq(Entry)
      /\ \A i \in DOMAIN served : i \in DOMAIN served' /\ served'[i] = served[i]
  BY <1>4, <1>5, <1>6, <1>7
<1>9. Cardinality(Calling) \in Nat /\ Cardinality(Calling) >= 1
  <2>1. worker[t].pc = "calling"
    BY <1>2
  <2>2. /\ Cardinality(Calling) \in Nat /\ Cardinality(Calling \ {t}) \in Nat
        /\ Cardinality(Calling \ {t}) + 1 = Cardinality(Calling)
    BY <2>1, CallerCounted
  <2> QED
    BY <2>2
<1>10. id \in 0 .. MaxServed
  <2>1. Len(served) + Cardinality(Calling) <= MaxServed
    BY <1>1 DEF Kept, WithinBound
  <2> QED
    BY <1>6, <1>7, <1>9, <2>1, BoundsAssumption
<1>11. /\ ThreadsTyped' /\ DiskTyped' /\ base'[t] # Absent /\ base'[t].attempts # <<>>
       /\ base'[t] = IF kind \in Succeeded THEN Answered(base[t], id, kind) ELSE base[t]
       /\ worker'[t].kind = kind /\ worker'[t].answer = id
       /\ worker'[t].pc = IF kind \in Succeeded THEN "answered" ELSE "raised"
       /\ memory' = IF kind \in Succeeded THEN [memory EXCEPT ![<<t, prompt[t]>>] = id] ELSE memory
       /\ unposted' = unposted
  <2>1. worker[t] \in Worker /\ base[t] \in Directory /\ base[t] # Absent /\ base[t].attempts # <<>>
    BY <1>1, <1>2 DEF Kept, ThreadsTyped, DiskTyped, Shape, Exists, At
  <2>2. CASE Completes(t, kind)
    <3>1. /\ kind \in Succeeded /\ unposted' = unposted
          /\ base' = [base EXCEPT ![t] = Answered(base[t], id, kind)]
          /\ memory' = [memory EXCEPT ![<<t, prompt[t]>>] = id]
          /\ worker' = [worker EXCEPT ![t].pc = "answered", ![t].kind = kind, ![t].answer = id]
      BY <1>1, <1>7, <2>2 DEF Completes, Succeeded, Kept, DiskTyped
    <3>2. PICK w \in Worker : /\ w = [worker[t] EXCEPT !.pc = "answered", !.kind = kind, !.answer = id]
      BY <1>10, <2>1 DEF Worker, ControlPoints
    <3>3. w.pc = "answered" /\ w.kind = kind /\ w.answer = id
      BY <2>1, <3>2 DEF Worker
    <3>4. worker' = [worker EXCEPT ![t] = w]
      BY <1>1, <3>1, <3>2 DEF Kept, ThreadsTyped
    <3>5. ThreadsTyped' /\ worker'[t] = w
      BY <1>1, <3>4 DEF Kept, ThreadsTyped
    <3>6. PICK d \in Directory : d = Answered(base[t], id, kind) /\ d.attempts # <<>>
      BY <1>10, <2>1, AnsweredDirectory
    <3>7. base' = [base EXCEPT ![t] = d] /\ d # Absent
      BY <3>1, <3>6 DEF Absent
    <3>8. DiskTyped' /\ base'[t] = d
      BY <1>1, <1>2, <3>7 DEF Kept, DiskTyped
    <3> QED
      BY <3>1, <3>3, <3>5, <3>6, <3>7, <3>8
  <2>3. CASE Fails(t, kind)
    <3>1. /\ kind \notin Succeeded /\ unposted' = unposted /\ base' = base /\ memory' = memory
          /\ worker' = [worker EXCEPT ![t].pc = "raised", ![t].kind = kind,
                                      ![t].answer = id, ![t].handler = TRUE]
      BY <1>7, <2>3 DEF Fails, Succeeded
    <3>2. PICK w \in Worker : w = [worker[t] EXCEPT !.pc = "raised", !.kind = kind, !.answer = id,
                                                    !.handler = TRUE]
      BY <1>10, <2>1 DEF Worker, ControlPoints
    <3>3. w.pc = "raised" /\ w.kind = kind /\ w.answer = id
      BY <2>1, <3>2 DEF Worker
    <3>4. worker' = [worker EXCEPT ![t] = w]
      BY <1>1, <3>1, <3>2 DEF Kept, ThreadsTyped
    <3>5. ThreadsTyped' /\ worker'[t] = w
      BY <1>1, <3>4 DEF Kept, ThreadsTyped
    <3>6. DiskTyped' /\ base'[t] = base[t]
      BY <1>1, <1>2, <3>1 DEF Kept, DiskTyped
    <3> QED
      BY <2>1, <3>1, <3>3, <3>5, <3>6
  <2> QED
    BY <1>3, <2>2, <2>3
<1>12. id \in 1 .. MaxServed
  BY <1>7, <1>10
<1> QED
  BY <1>2, <1>5, <1>7, <1>8, <1>11, <1>12 DEF Answering

LEMMA KeptByAnswer ==
    ASSUME TypeInv, NEW t \in Turns, Answer(t)
    PROVE  Kept(t)'
<1>1. Kept(t) /\ Local(t)
  BY KeptFirst, OwnTurn DEF TypeInv
<1>2. PICK kind \in Answers, id \in Nat : Answering(t, kind, id)
  BY AnswerStep
<1>5. UNCHANGED <<archived, rows, charges, total, aged, prompt, result, session, open>>
  BY <1>2 DEF Answering
<1>6. served \in Seq(Entry) /\ Len(served) \in Nat
  BY <1>1 DEF Kept, HistoryTyped, Entry
<1>7. id = Len(served) + 1 /\ id \in 0 .. MaxServed
  BY <1>2 DEF Answering
<1>8. /\ Len(served') = id /\ id \in DOMAIN served' /\ served'[id].kind = kind /\ served' \in Seq(Entry)
      /\ \A i \in DOMAIN served : i \in DOMAIN served' /\ served'[i] = served[i]
  BY <1>2 DEF Answering
<1>9. /\ IsFiniteSet(Calling) /\ t \in Calling /\ Cardinality(Calling) \in Nat
      /\ Cardinality(Calling \ {t}) + 1 = Cardinality(Calling) /\ Cardinality(Calling \ {t}) \in Nat
  BY <1>2, CallerCounted DEF Answering
<1>11. /\ ThreadsTyped' /\ DiskTyped' /\ base'[t] # Absent /\ base'[t].attempts # <<>>
       /\ worker'[t].kind = kind /\ worker'[t].answer = id
       /\ worker'[t].pc = IF kind \in Succeeded THEN "answered" ELSE "raised"
       /\ memory' = IF kind \in Succeeded THEN [memory EXCEPT ![<<t, prompt[t]>>] = id] ELSE memory
       /\ unposted' = unposted
  BY <1>2 DEF Answering
<1>12. Cardinality(Calling') + 1 = Cardinality(Calling) /\ Cardinality(Calling') \in Nat
  <2>1. worker'[t].pc # "calling"
    BY <1>11
  <2>2. Calling' = Calling \ {t}
    BY <1>1, <1>11, <2>1, MoreCalls DEF Kept, Local
  <2> QED
    BY <1>9, <2>2
<1>13. WithinBound' /\ Len(served') <= MaxServed
  <2>1. Len(served) + Cardinality(Calling) <= MaxServed
    BY <1>1 DEF Kept, WithinBound
  <2> QED
    BY <1>6, <1>7, <1>8, <1>12, <2>1, BoundsAssumption DEF WithinBound
<1>14. LedgerTyped' /\ HistoryTyped'
  BY <1>1, <1>5, <1>8, <1>11, <1>13 DEF Kept, LedgerTyped, HistoryTyped, Entry
<1>15. MemoryTyped'
  BY <1>1, <1>5, <1>11, <1>7 DEF Kept, MemoryTyped
<1>16. ASSUME NEW k \in Keys, memory'[<<t, k>>] # NoAnswer
       PROVE  memory'[<<t, k>>] \in DOMAIN served' /\ served'[memory'[<<t, k>>]].kind \in Succeeded
  <2>1. CASE memory'[<<t, k>>] = memory[<<t, k>>]
    BY <1>1, <1>8, <1>16, <2>1 DEF Kept, Shape
  <2>2. CASE kind \in Succeeded /\ memory'[<<t, k>>] = id
    BY <1>8, <2>2
  <2> QED
    BY <1>1, <1>11, <2>1, <2>2 DEF Kept, MemoryTyped
<1>17. Shape(t)'
  <2>1. \A d \in archived'[t] : d.attempts # <<>> /\ Sealed(d)
    BY <1>1, <1>5 DEF Kept, Shape
  <2>2. InHand(t)' \in DOMAIN served' /\ served'[InHand(t)'].kind = worker'[t].kind
    BY <1>8, <1>11 DEF InHand
  <2>3. worker'[t].kind # "lost"
    BY <1>11, <1>2, AnswersAssumption
  <2> QED
    BY <1>11, <1>16, <2>1, <2>2, <2>3 DEF Shape, At, Exists, Sealed
<1> QED
  BY <1>11, <1>13, <1>14, <1>15, <1>17 DEF Kept

LEMMA ContentType ==
    ASSUME ThreadsTyped, NEW t \in Turns
    PROVE  Content(t) \in 0 .. MaxServed
BY BoundsAssumption DEF Content, InHand, ThreadsTyped, Worker, NoAnswer

LEMMA SealedExists ==
    ASSUME NEW t \in Turns, Sealed(base[t])  PROVE Exists(t)
BY DEF Sealed, Exists, Absent

LEMMA KeptByArchive ==
    ASSUME TypeInv, NEW t \in Turns, Archive(t)
    PROVE  Kept(t)'
<1>1. Kept(t) /\ Local(t)
  BY KeptFirst, OwnTurn DEF Record, TypeInv
<1>2. /\ UNCHANGED <<rows, charges, total, aged, worker, prompt, memory, result, session, open,
                     served, unposted>>
      /\ archived' = [archived EXCEPT ![t] = archived[t] \cup {base[t]}]
      /\ base' = [base EXCEPT ![t] = Absent]
      /\ Recording(t) /\ Sealed(base[t]) /\ base[t].manifest.key # prompt[t]
  BY DEF Archive, ledger, process
<1>3. Absent \in Directory /\ base[t] \in Directory
  BY <1>1, BoundsAssumption DEF Absent, Directory, NoAnswer, Kept, DiskTyped
<1>4. DiskTyped' /\ base'[t] = Absent /\ archived'[t] = archived[t] \cup {base[t]}
  BY <1>1, <1>2, <1>3 DEF Kept, DiskTyped
<1>5. LedgerTyped' /\ ThreadsTyped' /\ result' \in [Turns -> 0 .. MaxServed] /\ unposted' \subseteq Ids
  BY <1>1, <1>2 DEF Kept, LedgerTyped, ThreadsTyped, MemoryTyped, HistoryTyped
<1>6. \A d \in archived'[t] : d.attempts # <<>> /\ Sealed(d)
  BY <1>1, <1>2, <1>4, SealedExists DEF Kept, Shape
<1>7. /\ worker[t].pc \in {"answered", "raised"}
      /\ ~(worker[t].pc = "raised" /\ worker[t].kind = "lost")
      /\ worker[t].pc = "answered" => worker[t].kind \in Succeeded
      /\ worker[t].pc = "raised" => worker[t].kind \notin Succeeded
  BY <1>1, <1>2 DEF Recording, At, Kept, Shape
<1> QED
  BY <1>1, <1>2, <1>4, <1>5, <1>6, <1>7, KeptNext

LEMMA KeptByWrite ==
    ASSUME TypeInv, NEW t \in Turns, Write(t)
    PROVE  Kept(t)'
<1>1. Kept(t) /\ Local(t)
  BY KeptFirst, OwnTurn DEF Record, TypeInv
<1>2. /\ UNCHANGED <<archived, rows, charges, total, aged, prompt, memory, result, session, open,
                     served, unposted>>
      /\ Recording(t) /\ ~Exists(t)
      /\ worker' = [worker EXCEPT ![t].pc = "sealing"]
  BY DEF Write, ledger
<1>3. PICK e \in Attempt : e = [key |-> prompt[t], answer |-> Content(t)]
  BY <1>1, ContentType DEF Kept, MemoryTyped, Attempt
<1>4. PICK d \in Directory : /\ d = [Absent EXCEPT !.attempts = <<e>>, !.source = Content(t)]
                             /\ d.attempts = <<e>> /\ d.manifest = NoManifest
  <2>1. PICK s \in Seq(Attempt) : s = <<e>>
    <3>1. <<e>> \in Seq(Attempt)
      OBVIOUS
    <3> QED
      BY <3>1, Zenon
  <2>2. PICK c \in 0 .. MaxServed : c = Content(t)
    BY <1>1, ContentType DEF Kept
  <2>3. PICK d \in Directory : d = [Absent EXCEPT !.attempts = s, !.source = c]
    BY DEF Absent, Directory
  <2>4. d.attempts = s /\ d.manifest = NoManifest
    BY <2>3 DEF Absent
  <2> QED
    BY <2>1, <2>2, <2>3, <2>4
<1>5. base' = [base EXCEPT ![t] = d]
  BY <1>3, <1>4 DEF Write
<1>6. d # Absent /\ d.attempts # <<>>
  BY <1>4 DEF Absent
<1>7. DiskTyped' /\ base'[t] = d
  BY <1>1, <1>2, <1>5 DEF Kept, DiskTyped
<1>8. LedgerTyped' /\ result' \in [Turns -> 0 .. MaxServed] /\ unposted' \subseteq Ids
  BY <1>1, <1>2 DEF Kept, LedgerTyped, MemoryTyped, HistoryTyped
<1>9. ThreadsTyped' /\ worker'[t].pc = "sealing"
      /\ worker'[t].kind = worker[t].kind /\ worker'[t].answer = worker[t].answer
  BY <1>1, <1>2, Steps DEF Kept, ControlPoints
<1>10. \A c \in archived'[t] : c.attempts # <<>> /\ Sealed(c)
  BY <1>1, <1>2 DEF Kept, Shape
<1> QED
  BY <1>1, <1>2, <1>4, <1>6, <1>7, <1>8, <1>9, <1>10, KeptNext

LEMMA KeptByIndex ==
    ASSUME TypeInv, NEW t \in Turns, Index(t)
    PROVE  Kept(t)'
<1>1. Kept(t) /\ Local(t)
  BY KeptFirst, OwnTurn DEF Record, TypeInv
<1>2. /\ UNCHANGED <<archived, rows, charges, total, aged, prompt, memory, result, session, open,
                     served, unposted>>
      /\ Recording(t) /\ Exists(t)
      /\ worker' = [worker EXCEPT ![t].pc = "sealing"]
  BY DEF Index, ledger
<1>3. PICK c \in 0 .. MaxServed : c = IF base[t].source = NoAnswer THEN Content(t) ELSE base[t].source
  BY <1>1, ContentType DEF Kept, DiskTyped, Directory
<1>4. PICK d \in Directory : d = [base[t] EXCEPT !.manifest = NoManifest, !.source = c]
  BY <1>1 DEF Directory, Kept, DiskTyped
<1>5. d.attempts = base[t].attempts /\ d.manifest = NoManifest
  BY <1>1, <1>4 DEF Kept, DiskTyped, Directory
<1>6. base' = [base EXCEPT ![t] = d]
  BY <1>1, <1>3, <1>4 DEF Index, Kept, DiskTyped
<1>7. d # Absent /\ d.attempts # <<>>
  BY <1>1, <1>2, <1>5 DEF Absent, Kept, Shape
<1>8. DiskTyped' /\ base'[t] = d
  BY <1>1, <1>2, <1>6 DEF Kept, DiskTyped
<1>9. LedgerTyped' /\ result' \in [Turns -> 0 .. MaxServed] /\ unposted' \subseteq Ids
  BY <1>1, <1>2 DEF Kept, LedgerTyped, MemoryTyped, HistoryTyped
<1>10. ThreadsTyped' /\ worker'[t].pc = "sealing"
      /\ worker'[t].kind = worker[t].kind /\ worker'[t].answer = worker[t].answer
  BY <1>1, <1>2, Steps DEF Kept, ControlPoints
<1>11. \A e \in archived'[t] : e.attempts # <<>> /\ Sealed(e)
  BY <1>1, <1>2 DEF Kept, Shape
<1> QED
  BY <1>1, <1>2, <1>5, <1>7, <1>8, <1>9, <1>10, <1>11, KeptNext

LEMMA KeptByVerify ==
    ASSUME TypeInv, NEW t \in Turns, Verify(t)
    PROVE  Kept(t)'
<1>1. Kept(t) /\ Local(t)
  BY KeptFirst, OwnTurn DEF Record, TypeInv
<1>2. /\ UNCHANGED <<base, archived, rows, charges, total, aged, prompt, memory, result, session,
                     open, served, unposted>>
      /\ Sealed(base[t]) /\ base[t].manifest.key = prompt[t]
      /\ worker' = [worker EXCEPT ![t].pc = "posting"]
  BY DEF Verify, ledger, disk
<1>3. ThreadsTyped' /\ worker'[t].pc = "posting"
      /\ worker'[t].kind = worker[t].kind /\ worker'[t].answer = worker[t].answer
  BY <1>1, <1>2, Steps DEF Kept, ControlPoints
<1>4. DiskTyped' /\ LedgerTyped' /\ result' \in [Turns -> 0 .. MaxServed] /\ unposted' \subseteq Ids
  BY <1>1, <1>2 DEF Kept, DiskTyped, LedgerTyped, MemoryTyped, HistoryTyped
<1>5. /\ \A d \in archived'[t] : d.attempts # <<>> /\ Sealed(d)
      /\ base'[t] # Absent => base'[t].attempts # <<>>
  BY <1>1, <1>2 DEF Kept, Shape, Exists
<1> QED
  BY <1>1, <1>2, <1>3, <1>4, <1>5, KeptNext DEF Sealed

\* The manifest a worker seals its directory with.
NewManifest(t) ==
    [key |-> prompt[t], complete |-> Whole(t), answer |-> Content(t),
     status |-> IF Content(t) # NoAnswer THEN "completed" ELSE "failed",
     charged |-> worker[t].kind = "charged" \/ Content(t) # NoAnswer]

LEMMA ManifestFacts ==
    ASSUME ThreadsTyped, MemoryTyped, NEW t \in Turns
    PROVE  /\ NewManifest(t) \in Manifest /\ NewManifest(t) # NoManifest
           /\ NewManifest(t).key = prompt[t] /\ NewManifest(t).answer = Content(t)
           /\ NewManifest(t).complete <=> Whole(t)
           /\ NewManifest(t).status = IF Content(t) # NoAnswer THEN "completed" ELSE "failed"
<1>1. PICK complete \in BOOLEAN, charged \in BOOLEAN, ending \in Status :
         /\ complete = Whole(t)
         /\ charged = (worker[t].kind = "charged" \/ Content(t) # NoAnswer)
         /\ ending = IF Content(t) # NoAnswer THEN "completed" ELSE "failed"
  BY DEF Whole, Status
<1>2. PICK k \in Keys, c \in 0 .. MaxServed : k = prompt[t] /\ c = Content(t)
  BY ContentType DEF MemoryTyped
<1>3. NewManifest(t) = [key |-> k, complete |-> complete, answer |-> c, status |-> ending,
                        charged |-> charged]
  BY <1>1, <1>2 DEF NewManifest
<1>4. PICK m \in Manifest : m = [key |-> k, complete |-> complete, answer |-> c, status |-> ending,
                                 charged |-> charged]
  BY DEF Manifest
<1>5. m.key = k /\ m.complete = complete /\ m.answer = c /\ m.status = ending
  BY <1>4
<1>6. DOMAIN m = {"key", "complete", "status", "charged", "answer"}
  BY <1>4
<1>7. m # NoManifest
  BY <1>6 DEF NoManifest
<1> QED
  BY <1>1, <1>2, <1>3, <1>4, <1>5, <1>7

LEMMA SealedDirectory ==
    ASSUME TypeInv, NEW t \in Turns, Seal(t)
    PROVE  \E d \in Directory :
              /\ base' = [base EXCEPT ![t] = d] /\ base'[t] = d /\ DiskTyped'
              /\ d.manifest = NewManifest(t) /\ d.attempts = base[t].attempts
              /\ d.source = base[t].source /\ d.oversize = base[t].oversize /\ d # Absent
<1>1. Kept(t) /\ base[t] \in Directory /\ base[t].attempts # <<>>
  BY KeptFirst DEF Seal, Kept, Shape, DiskTyped
<1>2. PICK m \in Manifest \cup {NoManifest} : m = NewManifest(t) /\ m # NoManifest
  BY <1>1, ManifestFacts DEF Kept
<1>3. PICK d \in Directory : d = [base[t] EXCEPT !.manifest = m]
  BY <1>1 DEF Directory
<1>4. /\ d.manifest = m /\ d.attempts = base[t].attempts /\ d.source = base[t].source
      /\ d.oversize = base[t].oversize
  BY <1>1, <1>3 DEF Directory
<1>5. base' = [base EXCEPT ![t] = d] /\ archived' = archived
  BY <1>1, <1>2, <1>3 DEF Seal, NewManifest, Kept, DiskTyped
<1>6. DiskTyped' /\ base'[t] = d /\ d # Absent
  BY <1>1, <1>2, <1>4, <1>5 DEF Kept, DiskTyped, Absent
<1> QED
  BY <1>2, <1>4, <1>5, <1>6

LEMMA KeptBySeal ==
    ASSUME TypeInv, NEW t \in Turns, Seal(t)
    PROVE  Kept(t)'
<1>1. Kept(t) /\ Local(t)
  BY KeptFirst, OwnTurn DEF Record, TypeInv
<1>2. /\ UNCHANGED <<archived, rows, charges, total, aged, prompt, memory, result, session, open, served>>
      /\ Exists(t)
      /\ IF Whole(t) THEN worker' = [worker EXCEPT ![t].pc = "posting"] /\ UNCHANGED unposted
         ELSE Raise(t)
  BY <1>1 DEF Seal, ledger, Kept, Shape
<1>3. PICK d \in Directory : /\ DiskTyped' /\ base'[t] = d
                             /\ d.manifest = NewManifest(t) /\ d.attempts = base[t].attempts
  BY SealedDirectory
<1>4. base'[t].manifest # NoManifest /\ base'[t].manifest.key = prompt[t] /\ base'[t].attempts # <<>>
  BY <1>1, <1>2, <1>3, ManifestFacts DEF Kept, Shape
<1>5. LedgerTyped' /\ result' \in [Turns -> 0 .. MaxServed]
  BY <1>1, <1>2 DEF Kept, LedgerTyped, MemoryTyped
<1>6. \A c \in archived'[t] : c.attempts # <<>> /\ Sealed(c)
  BY <1>1, <1>2 DEF Kept, Shape
<1>7. /\ ThreadsTyped' /\ unposted' \subseteq Ids
      /\ worker'[t].answer \in {NoAnswer, worker[t].answer}
      /\ \/ worker'[t].pc = "posting" /\ worker'[t].kind = worker[t].kind /\ worker'[t].answer = worker[t].answer
         \/ worker'[t].pc = "idle" /\ worker'[t].kind = "infra"
         \/ worker'[t].pc = "raised" /\ worker'[t].kind = "lost"
  <2>1. CASE Whole(t)
    BY <1>1, <1>2, <2>1, Steps DEF Kept, ControlPoints, HistoryTyped
  <2>2. CASE ~Whole(t)
    BY <1>1, <1>2, <2>2, Raises DEF Kept
  <2> QED
    BY <2>1, <2>2
<1> QED
  BY <1>1, <1>2, <1>3, <1>4, <1>5, <1>6, <1>7, KeptNext DEF Succeeded

LEMMA KeptByLocked ==
    ASSUME TypeInv, NEW t \in Turns, Locked(t)
    PROVE  Kept(t)'
<1>1. Kept(t) /\ Local(t)
  BY KeptFirst, OwnTurn DEF Record, TypeInv
<1>2. /\ UNCHANGED <<base, archived, rows, charges, total, aged, prompt, memory, result, session, open, served>>
      /\ At(t, "posting") /\ Raise(t)
  BY DEF Locked, ledger, disk
<1>3. base'[t].manifest # NoManifest /\ base'[t].manifest.key = prompt[t]
  BY <1>1, <1>2 DEF Kept, Shape
<1>4. DiskTyped' /\ LedgerTyped' /\ result' \in [Turns -> 0 .. MaxServed]
  BY <1>1, <1>2 DEF Kept, DiskTyped, LedgerTyped, MemoryTyped
<1>5. /\ \A c \in archived'[t] : c.attempts # <<>> /\ Sealed(c)
      /\ base'[t] # Absent => base'[t].attempts # <<>>
  BY <1>1, <1>2 DEF Kept, Shape, Exists
<1>6. /\ ThreadsTyped' /\ unposted' \subseteq Ids
      /\ worker'[t].answer \in {NoAnswer, worker[t].answer}
      /\ \/ worker'[t].pc = "idle" /\ worker'[t].kind = "infra"
         \/ worker'[t].pc = "raised" /\ worker'[t].kind = "lost"
  BY <1>1, <1>2, Raises DEF Kept
<1> QED
  BY <1>1, <1>2, <1>3, <1>4, <1>5, <1>6, KeptNext DEF Succeeded

LEMMA PostTyped ==
    ASSUME LedgerTyped, aged' = aged, NEW t \in Turns, NEW k \in Keys, NEW state \in Status,
           NEW tokens \in Nat, Post(t, k, state, tokens)
    PROVE  LedgerTyped'
<1> DEFINE delta == TokenDelta(tokens, rows[<<t, k>>].tokens)
           Charged == [key: Turns \X Keys \X Nat, delta: Nat \ {0}]
<1>1. CASE rows[<<t, k>>].state = "completed"
  BY <1>1 DEF Post, ledger, LedgerTyped
<1>2. CASE rows[<<t, k>>].state # "completed"
  <2>1. /\ rows' = [rows EXCEPT ![<<t, k>>] = [state |-> state, tokens |-> tokens]]
        /\ charges' = IF delta > 0 /\ \A i \in DOMAIN charges : charges[i].key # <<t, k, tokens>>
                      THEN Append(charges, [key |-> <<t, k, tokens>>, delta |-> delta])
                      ELSE charges
        /\ total' = total + delta
    BY <1>2 DEF Post
  <2>2. delta \in Nat
    BY DEF LedgerTyped, TokenDelta, Max0
  <2>3. [state |-> state, tokens |-> tokens] \in [state: Status \cup {"none"}, tokens: Nat]
    OBVIOUS
  <2>4. rows' \in [Turns \X Keys -> [state: Status \cup {"none"}, tokens: Nat]]
    BY <2>1, <2>3 DEF LedgerTyped
  <2>5. charges' \in Seq(Charged) /\ Len(charges') >= Len(charges) /\ Len(charges) \in Nat
        /\ Len(charges') \in Nat
    <3>1. charges \in Seq(Charged)
      BY DEF LedgerTyped
    <3>2. CASE charges' = charges
      BY <3>1, <3>2
    <3>3. CASE delta > 0 /\ charges' = Append(charges, [key |-> <<t, k, tokens>>, delta |-> delta])
      <4>1. PICK e \in Charged : e = [key |-> <<t, k, tokens>>, delta |-> delta]
        <5>1. delta \in Nat \ {0}
          BY <2>2, <3>3
        <5>2. <<t, k, tokens>> \in Turns \X Keys \X Nat
          OBVIOUS
        <5> HIDE DEF delta
        <5> QED
          BY <5>1, <5>2
      <4>2. /\ Append(charges, e) \in Seq(Charged)
            /\ Len(Append(charges, e)) = Len(charges) + 1
        BY <3>1, AppendProperties
      <4>3. charges' = Append(charges, e)
        BY <3>3, <4>1
      <4>4. Len(charges) \in Nat
        BY <3>1
      <4> QED
        BY <4>2, <4>3, <4>4
    <3> QED
      BY <2>1, <3>2, <3>3
  <2>6. total' \in Nat /\ aged \in 0 .. Len(charges')
    <3>1. PICK n \in Nat : n = delta
      BY <2>2
    <3>2. total' = total + n /\ total \in Nat /\ aged \in 0 .. Len(charges)
      BY <2>1, <3>1 DEF LedgerTyped
    <3> HIDE DEF delta
    <3> QED
      BY <2>5, <3>2
  <2> QED
    BY <2>4, <2>5, <2>6 DEF LedgerTyped
<1> QED
  BY <1>1, <1>2

LEMMA CostType ==
    ASSUME HistoryTyped, NEW t \in Turns, Shape(t)
    PROVE  Cost(InHand(t)) \in Nat
BY ServedFacts DEF Shape, Cost

LEMMA KeptByCharge ==
    ASSUME TypeInv, NEW t \in Turns, Charge(t)
    PROVE  Kept(t)'
<1>1. Kept(t) /\ Local(t)
  BY KeptFirst, OwnTurn DEF Record, TypeInv
<1>2. /\ UNCHANGED <<base, archived, aged, prompt, memory, session, open, served>>
      /\ At(t, "posting")
      /\ Post(t, prompt[t], IF Content(t) # NoAnswer THEN "completed" ELSE "failed", Reported(t))
      /\ unposted' = IF worker[t].kind = "lost" /\ Cost(InHand(t)) > 0
                     THEN unposted \cup {InHand(t)} ELSE unposted
      /\ IF Content(t) # NoAnswer THEN Finish(t, InHand(t), 0)
         ELSE Finish(t, NoAnswer, IF worker[t].kind = "charged" THEN 0 ELSE worker[t].left)
  BY DEF Charge, disk
<1>3. /\ InHand(t) \in 0 .. MaxServed /\ NoAnswer \in 0 .. MaxServed
      /\ 0 \in 0 .. Retries + 1 /\ worker[t].left \in 0 .. Retries + 1
  BY <1>1, BoundsAssumption DEF Kept, ThreadsTyped, Worker, InHand, NoAnswer
<1>4. /\ ThreadsTyped' /\ worker'[t].pc = "idle" /\ worker'[t].kind = "infra"
      /\ result' \in [Turns -> 0 .. MaxServed] /\ worker'[t].answer = NoAnswer
  <2>1. PICK a \in 0 .. MaxServed, left \in 0 .. Retries + 1 : Finish(t, a, left)
    BY <1>2, <1>3
  <2> QED
    BY <1>1, <2>1, Returns DEF Kept
<1>5. LedgerTyped'
  <2>1. PICK state \in Status : state = IF Content(t) # NoAnswer THEN "completed" ELSE "failed"
    BY DEF Status
  <2>2. PICK tokens \in Nat : tokens = Reported(t)
    BY <1>1, CostType DEF Reported, Kept
  <2>3. prompt[t] \in Keys
    BY <1>1 DEF Kept, MemoryTyped
  <2> QED
    BY <1>1, <1>2, <2>1, <2>2, <2>3, PostTyped DEF Kept
<1>6. DiskTyped' /\ unposted' \subseteq Ids
  <2>1. Cost(InHand(t)) > 0 => InHand(t) \in Ids
    BY <1>3, BoundsAssumption DEF Cost, Ids, NoAnswer
  <2>2. DiskTyped'
    BY <1>1, <1>2 DEF Kept, DiskTyped
  <2>3. unposted \subseteq Ids
    BY <1>1 DEF Kept, HistoryTyped
  <2> HIDE DEF Cost
  <2>4. unposted' \subseteq Ids
    BY <1>2, <2>1, <2>3
  <2> QED
    BY <2>2, <2>4
<1>7. /\ \A d \in archived'[t] : d.attempts # <<>> /\ Sealed(d)
      /\ base'[t] # Absent => base'[t].attempts # <<>>
  BY <1>1, <1>2 DEF Kept, Shape, Exists
<1> QED
  BY <1>1, <1>2, <1>4, <1>5, <1>6, <1>7, KeptNext DEF Succeeded

-----------------------------------------------------------------------------
(* Sessions and the clock. *)

LEMMA NobodyCalls ==
    ASSUME HistoryTyped, ThreadsTyped, \A t \in Turns : worker[t].pc # "calling"
    PROVE  WithinBound
<1>1. Calling = {}
  BY DEF Calling, At
<1>2. Cardinality({}) = 0
  BY FS_EmptySet
<1>3. Len(served) \in Nat
  BY DEF HistoryTyped
<1> QED
  BY <1>1, <1>2, <1>3, BoundsAssumption DEF WithinBound, HistoryTyped

LEMMA NobodyCallsNext ==
    ASSUME HistoryTyped, served' = served, \A t \in Turns : worker'[t].pc # "calling"
    PROVE  WithinBound'
<1>1. Calling' = {}
  BY DEF Calling, At
<1>2. Cardinality({}) = 0
  BY FS_EmptySet
<1>3. Len(served) \in Nat /\ Len(served) <= MaxServed
  BY DEF HistoryTyped
<1> QED
  BY <1>1, <1>2, <1>3, BoundsAssumption DEF WithinBound

LEMMA InitTypeInv == Init => TypeInv
<1> SUFFICES ASSUME Init PROVE TypeInv
  OBVIOUS
<1>1. Absent \in Directory /\ NoAnswer \in 0 .. MaxServed /\ 0 \in 0 .. Retries + 1
  BY BoundsAssumption DEF Absent, Directory, NoAnswer
<1>2. DiskTyped
  BY <1>1 DEF Init, DiskTyped
<1>3. LedgerTyped
  <2>1. [state |-> "none", tokens |-> 0] \in [state: Status \cup {"none"}, tokens: Nat]
    OBVIOUS
  <2>2. charges = <<>> /\ Len(charges) = 0 /\ aged = 0 /\ total = 0
    BY DEF Init
  <2>3. rows \in [Turns \X Keys -> [state: Status \cup {"none"}, tokens: Nat]]
    BY <2>1 DEF Init
  <2> QED
    BY <2>2, <2>3 DEF LedgerTyped
<1>4. ThreadsTyped /\ \A t \in Turns : /\ worker[t].pc = "idle" /\ worker[t].kind = "infra"
                                       /\ worker[t].answer = NoAnswer
  BY <1>1, IdleType DEF Init, ThreadsTyped, Worker
<1>5. MemoryTyped
  <2>1. 0 \in 0 .. MaxSessions
    BY BoundsAssumption
  <2>2. open \in BOOLEAN
    BY DEF Init
  <2>3. /\ prompt \in [Turns -> Keys] /\ memory \in [Turns \X Keys -> 0 .. MaxServed]
        /\ result \in [Turns -> 0 .. MaxServed]
    BY <1>1 DEF Init
  <2>4. session \in 0 .. MaxSessions
    BY <2>1 DEF Init
  <2> QED
    BY <2>2, <2>3, <2>4 DEF MemoryTyped
<1>6. HistoryTyped
  BY BoundsAssumption DEF Init, HistoryTyped
<1>7. WithinBound
  BY <1>4, <1>6, NobodyCalls
<1>8. ASSUME NEW t \in Turns  PROVE Shape(t)
  BY <1>4 DEF Init, Shape, At, Exists, InHand, Succeeded
<1> QED
  BY <1>2, <1>3, <1>4, <1>5, <1>6, <1>7, <1>8, TypeParts DEF TypeInv

\* What a new session or the death of one leaves of a worker.
LEMMA Idles ==
    ASSUME NEW left \in 0 .. Retries + 1, worker' = [t \in Turns |-> Idle(left)]
    PROVE  /\ ThreadsTyped'
           /\ \A t \in Turns : /\ worker'[t].pc = "idle" /\ worker'[t].kind = "infra"
                               /\ worker'[t].answer = NoAnswer
BY IdleType DEF ThreadsTyped, Worker

LEMMA ShapeWhenIdle ==
    ASSUME NEW t \in Turns, Shape(t), UNCHANGED <<base, archived, served>>,
           worker'[t].pc = "idle" /\ worker'[t].kind = "infra",
           worker'[t].answer \in {NoAnswer, worker[t].answer},
           \A k \in Keys : memory'[<<t, k>>] \in {NoAnswer, memory[<<t, k>>]}
    PROVE  Shape(t)'
<1>1. /\ \A d \in archived'[t] : d.attempts # <<>> /\ Sealed(d)
      /\ base'[t] # Absent => base'[t].attempts # <<>>
  BY DEF Shape, Exists
<1>2. InHand(t)' # NoAnswer => InHand(t)' \in DOMAIN served'
  BY DEF Shape, InHand
<1>3. \A k \in Keys : memory'[<<t, k>>] # NoAnswer =>
         memory'[<<t, k>>] \in DOMAIN served' /\ served'[memory'[<<t, k>>]].kind \in Succeeded
  BY DEF Shape
<1> QED
  BY <1>1, <1>2, <1>3 DEF Shape, At, Exists, Sealed, Succeeded

LEMMA BackfillTyped ==
    ASSUME LedgerTyped, Backfill, UNCHANGED <<rows, aged, total>>
    PROVE  LedgerTyped'
<1> DEFINE Charged == [key: Turns \X Keys \X Nat, delta: Nat \ {0}]
<1>1. PICK s \in SetToSeqs(Uncharged) :
         charges' = charges \o [i \in 1 .. Len(s) |-> ChargeOf(s[i])]
  BY DEF Backfill
<1>2. Uncharged \subseteq Turns \X Keys /\ IsFiniteSet(Uncharged)
  <2>1. IsFiniteSet(Turns \X Keys)
    BY BoundsAssumption, FS_Product
  <2>2. Uncharged \subseteq Turns \X Keys
    BY DEF Uncharged
  <2> QED
    BY <2>1, <2>2, FS_Subset
<1>3. PICK n \in Nat : n = Cardinality(Uncharged)
  BY <1>2, FS_CardinalityType
<1>4. s \in [1 .. n -> Uncharged]
  BY <1>3 DEF SetToSeqs
<1>5. s \in Seq(Uncharged) /\ Len(s) = n
  BY <1>4
<1>6. ASSUME NEW i \in 1 .. n  PROVE ChargeOf(s[i]) \in Charged
  <2>1. PICK p \in Uncharged : p = s[i]
    BY <1>4
  <2>2. p[1] \in Turns /\ p[2] \in Keys /\ p = <<p[1], p[2]>>
    BY <1>2
  <2>3. PICK k \in Nat \ {0} : k = rows[p].tokens
    BY <1>2 DEF Uncharged, LedgerTyped
  <2>4. ChargeOf(p) = [key |-> <<p[1], p[2], k>>, delta |-> k]
    BY <2>3 DEF ChargeOf
  <2> QED
    BY <2>1, <2>2, <2>4
<1> DEFINE more == [i \in 1 .. n |-> ChargeOf(s[i])]
<1>7. more \in Seq(Charged)
  BY <1>6
<1>8. charges' = charges \o more
  BY <1>1, <1>5
<1> HIDE DEF more
<1>9. charges \in Seq(Charged) /\ aged \in 0 .. Len(charges)
  BY DEF LedgerTyped
<1>10. charges' \in Seq(Charged) /\ Len(charges') >= Len(charges) /\ Len(charges') \in Nat
       /\ Len(charges) \in Nat
  BY <1>7, <1>8, <1>9
<1>11. aged' \in 0 .. Len(charges')
  BY <1>9, <1>10
<1> QED
  BY <1>10, <1>11 DEF LedgerTyped

LEMMA SessionsKeepTypes ==
    ASSUME TypeInv, StartSession \/ EndSession \/ Crash \/ Age
    PROVE  TypeInv'
<1>1. /\ DiskTyped /\ LedgerTyped /\ ThreadsTyped /\ MemoryTyped /\ HistoryTyped /\ WithinBound
      /\ \A t \in Turns : Shape(t)
  BY TypeParts DEF TypeInv
<1>2. NoAnswer \in 0 .. MaxServed /\ 0 \in 0 .. Retries + 1 /\ Retries + 1 \in 0 .. Retries + 1
  BY BoundsAssumption DEF NoAnswer
<1>3. CASE StartSession
  <2>1. /\ UNCHANGED <<base, archived, rows, total, aged, served, unposted>>
        /\ session < MaxSessions /\ session' = session + 1 /\ open' = TRUE
        /\ prompt' \in [Turns -> Keys]
        /\ worker' = [t \in Turns |-> Idle(Retries + 1)]
        /\ memory' = [p \in Turns \X Keys |-> NoAnswer]
        /\ result' = [t \in Turns |-> NoAnswer]
        /\ Backfill
    BY <1>3 DEF StartSession, disk
  <2>2. LedgerTyped'
    BY <1>1, <2>1, BackfillTyped
  <2>3. ThreadsTyped' /\ \A t \in Turns : /\ worker'[t].pc = "idle" /\ worker'[t].kind = "infra"
                                         /\ worker'[t].answer = NoAnswer
    BY <1>2, <2>1, Idles
  <2>4. MemoryTyped'
    <3>1. session' \in 0 .. MaxSessions
      BY <1>1, <2>1, BoundsAssumption DEF MemoryTyped
    <3>2. open' \in BOOLEAN
      BY <2>1
    <3>3. memory' \in [Turns \X Keys -> 0 .. MaxServed] /\ result' \in [Turns -> 0 .. MaxServed]
      BY <1>2, <2>1
    <3> QED
      BY <2>1, <3>1, <3>2, <3>3 DEF MemoryTyped
  <2>5. DiskTyped' /\ HistoryTyped'
    BY <1>1, <2>1 DEF DiskTyped, HistoryTyped
  <2>6. WithinBound'
    BY <1>1, <2>1, <2>3, NobodyCallsNext
  <2>7. ASSUME NEW t \in Turns  PROVE Shape(t)'
    BY <1>1, <2>1, <2>3, ShapeWhenIdle
  <2> QED
    BY <2>2, <2>3, <2>4, <2>5, <2>6, <2>7, TypePartsNext DEF TypeInv
<1>4. CASE EndSession \/ Crash
  <2>1. /\ UNCHANGED <<base, archived, rows, charges, total, aged, prompt, memory, session, served>>
        /\ open' = FALSE /\ result' = [t \in Turns |-> NoAnswer]
    BY <1>4 DEF EndSession, Crash, disk, ledger
  <2>2. /\ ThreadsTyped'
        /\ \A t \in Turns : /\ worker'[t].pc = "idle" /\ worker'[t].kind = "infra"
                            /\ worker'[t].answer \in {NoAnswer, worker[t].answer}
    <3>1. CASE Crash
      BY <1>2, <3>1, Idles DEF Crash
    <3>2. CASE EndSession
      BY <1>1, <3>2 DEF EndSession, Shape, At, ThreadsTyped
    <3> QED
      BY <1>4, <3>1, <3>2
  <2>3. unposted' \subseteq Ids
    <3>1. ASSUME NEW t \in Turns, Cost(InHand(t)) > 0  PROVE InHand(t) \in Ids
      <4>1. InHand(t) # NoAnswer
        BY <3>1 DEF Cost
      <4> QED
        BY <1>1, <4>1, ServedFacts DEF Shape
    <3> QED
      BY <1>1, <1>4, <3>1 DEF EndSession, Crash, HistoryTyped
  <2>4. DiskTyped' /\ LedgerTyped' /\ HistoryTyped'
    BY <1>1, <2>1, <2>3 DEF DiskTyped, LedgerTyped, HistoryTyped
  <2>5. MemoryTyped'
    BY <1>1, <1>2, <2>1 DEF MemoryTyped
  <2>6. WithinBound'
    BY <1>1, <2>1, <2>2, NobodyCallsNext
  <2>7. ASSUME NEW t \in Turns  PROVE Shape(t)'
    BY <1>1, <2>1, <2>2, ShapeWhenIdle
  <2> QED
    BY <2>2, <2>4, <2>5, <2>6, <2>7, TypePartsNext DEF TypeInv
<1>5. CASE Age
  <2>1. /\ UNCHANGED <<base, archived, rows, charges, total, worker, prompt, memory, result, session,
                       open, served, unposted>>
        /\ aged < Len(charges) /\ aged' = aged + 1
    BY <1>5 DEF Age, disk, ledger, process
  <2>2. LedgerTyped'
    <3>1. Len(charges) \in Nat /\ aged \in 0 .. Len(charges)
      BY <1>1 DEF LedgerTyped
    <3>2. aged' \in 0 .. Len(charges')
      BY <2>1, <3>1
    <3> QED
      BY <1>1, <2>1, <3>2 DEF LedgerTyped
  <2>3. DiskTyped' /\ ThreadsTyped' /\ MemoryTyped' /\ HistoryTyped'
    BY <1>1, <2>1 DEF DiskTyped, ThreadsTyped, MemoryTyped, HistoryTyped
  <2>4. WithinBound'
    BY <1>1, <2>1 DEF WithinBound, Calling, At
  <2>5. ASSUME NEW t \in Turns  PROVE Shape(t)'
    BY <1>1, <2>1 DEF Shape, At, Exists, Sealed, InHand
  <2> QED
    BY <2>2, <2>3, <2>4, <2>5, TypePartsNext DEF TypeInv
<1> QED
  BY <1>3, <1>4, <1>5

LEMMA WorkerKeepsItsOwn ==
    ASSUME TypeInv, NEW t \in Turns, Request(t) \/ Answer(t) \/ Record(t)
    PROVE  Kept(t)'
BY KeptByReplay, KeptByMemory, KeptByAsk, KeptByAnswer, KeptByArchive, KeptByWrite, KeptByIndex,
   KeptByVerify, KeptBySeal, KeptByCharge, KeptByLocked DEF Request, Record

LEMMA WorkersKeepTypes ==
    ASSUME TypeInv, NEW t \in Turns, Request(t) \/ Answer(t) \/ Record(t)
    PROVE  TypeInv'
<1>1. Kept(t)'
  BY WorkerKeepsItsOwn
<1>2. ASSUME NEW u \in Turns, u # t  PROVE Shape(u)'
  BY <1>2, OwnTurn, ShapeOfOthers DEF TypeInv
<1> QED
  BY <1>1, <1>2, TypePartsNext DEF TypeInv, Kept

LEMMA StutterKeepsTypes == TypeInv /\ UNCHANGED vars => TypeInv'
<1> SUFFICES ASSUME TypeInv, UNCHANGED vars PROVE TypeInv'
  OBVIOUS
<1>1. UNCHANGED <<base, archived, rows, charges, total, aged, worker, prompt, memory, result, session,
                  open, served, unposted>>
  BY DEF vars, disk, ledger, process
<1> QED
  BY <1>1 DEF TypeInv, TypeOK, WithinBound, Calling, Shape, At, Exists, Sealed, InHand

\* No step takes a variable out of its type, whatever crashes the system allows.
THEOREM TypeInvariant == Spec => []TypeInv
<1>1. TypeInv /\ [Next]_vars => TypeInv'
  BY SessionsKeepTypes, WorkersKeepTypes, StutterKeepsTypes DEF Next
<1> QED
  BY InitTypeInv, <1>1, PTL DEF Spec

\* TypeOK: types and bounds of every variable, the attempts left of a request
\* and the answers served among them (generate, record_provider_turn).
THEOREM TypeCorrect == Spec => []TypeOK
<1>1. TypeInv => TypeOK
  BY DEF TypeInv
<1> QED
  BY <1>1, TypeInvariant, PTL

-----------------------------------------------------------------------------
(* What a step does to the manifests of a turn. *)

LEMMA ManifestsAre ==
    ASSUME NEW t \in Turns, Shape(t), NEW m
    PROVE  m \in Manifests(t) <=> \/ Sealed(base[t]) /\ m = base[t].manifest
                                  \/ \E d \in archived[t] : m = d.manifest
BY SealedExists DEF Manifests, Directories, Shape

LEMMA ManifestsAreNext ==
    ASSUME NEW t \in Turns, Shape(t)', NEW m
    PROVE  m \in Manifests(t)' <=> \/ Sealed(base'[t]) /\ m = base'[t].manifest
                                   \/ \E d \in archived'[t] : m = d.manifest
<1>1. Sealed(base'[t]) => Exists(t)'
  BY DEF Sealed, Exists, Absent
<1>2. \A d \in archived'[t] : Sealed(d)
  BY DEF Shape, Sealed
<1> QED
  BY <1>1, <1>2 DEF Manifests, Directories, Sealed

LEMMA ManifestSteps ==
    ASSUME TypeInv, NEW t \in Turns, Request(t) \/ Answer(t) \/ Record(t)
    PROVE  \/ Manifests(t)' = Manifests(t)
           \/ /\ Index(t)
              /\ \A m \in Manifests(t)' : m \in Manifests(t)
              /\ \A m \in Manifests(t) : Terminal(m) => m \in Manifests(t)'
           \/ /\ Seal(t)
              /\ \A m : m \in Manifests(t)' <=> m \in Manifests(t) \/ m = NewManifest(t)
<1>1. Kept(t) /\ Kept(t)' /\ Shape(t) /\ Shape(t)' /\ base[t] \in Directory
  BY KeptFirst, WorkerKeepsItsOwn DEF Kept, DiskTyped
<1>2. ASSUME base'[t].manifest = base[t].manifest, archived'[t] = archived[t]
      PROVE  Manifests(t)' = Manifests(t)
  <2>1. ASSUME NEW m  PROVE m \in Manifests(t)' <=> m \in Manifests(t)
    <3>1. m \in Manifests(t) <=> \/ Sealed(base[t]) /\ m = base[t].manifest
                                \/ \E d \in archived[t] : m = d.manifest
      BY <1>1, ManifestsAre
    <3>2. m \in Manifests(t)' <=> \/ Sealed(base'[t]) /\ m = base'[t].manifest
                                 \/ \E d \in archived'[t] : m = d.manifest
      BY <1>1, ManifestsAreNext
    <3> QED
      BY <1>2, <3>1, <3>2 DEF Sealed
  <2> QED
    BY <2>1
<1>3. CASE Replay(t) \/ Remembered(t) \/ Verify(t) \/ Charge(t) \/ Locked(t)
  BY <1>2, <1>3 DEF Replay, Remembered, Verify, Charge, Locked, disk
<1>4. CASE Ask(t)
  BY <1>1, <1>2, <1>4 DEF Ask, Kept, DiskTyped, Directory
<1>5. CASE Answer(t)
  <2>1. archived' = archived /\ base[t].attempts # <<>>
    BY <1>1, <1>5 DEF Answer, Shape
  <2>2. PICK kind \in Answers : Completes(t, kind) \/ Fails(t, kind)
    BY <1>5 DEF Answer
  <2>3. CASE Fails(t, kind)
    BY <1>2, <2>1, <2>3 DEF Fails
  <2>4. CASE Completes(t, kind)
    <3>1. PICK id : base' = [base EXCEPT ![t] = Answered(base[t], id, kind)]
      BY <1>1, <2>4 DEF Completes, Kept, DiskTyped
    <3>2. base'[t] = Answered(base[t], id, kind)
      BY <1>1, <3>1 DEF Kept, DiskTyped
    <3>3. Answered(base[t], id, kind).manifest = base[t].manifest
      BY <1>1 DEF Answered, Directory
    <3> QED
      BY <1>2, <2>1, <3>2, <3>3
  <2> QED
    BY <2>2, <2>3, <2>4
<1>6. CASE Archive(t)
  <2>1. /\ archived'[t] = archived[t] \cup {base[t]} /\ base'[t].manifest = NoManifest
        /\ Sealed(base[t])
    BY <1>1, <1>6 DEF Archive, Kept, DiskTyped, Absent
  <2>2. \A m : m \in Manifests(t)' <=> m \in Manifests(t)
    BY <1>1, <2>1, ManifestsAre, ManifestsAreNext DEF Sealed
  <2> QED
    BY <2>2 DEF Manifests
<1>7. CASE Write(t)
  <2>1. base[t].manifest = NoManifest
    BY <1>7 DEF Write, Exists, Absent
  <2>2. base'[t].manifest = NoManifest /\ archived'[t] = archived[t]
    BY <1>1, <1>7 DEF Write, Kept, DiskTyped, Absent
  <2> QED
    BY <1>2, <2>1, <2>2
<1>8. CASE Index(t)
  <2>1. /\ base'[t].manifest = NoManifest /\ archived'[t] = archived[t]
        /\ Sealed(base[t]) => ~Terminal(base[t].manifest)
    BY <1>1, <1>8 DEF Index, Kept, DiskTyped, Directory
  <2> QED
    BY <1>1, <1>8, <2>1, ManifestsAre, ManifestsAreNext DEF Sealed
<1>9. CASE Seal(t)
  <2>1. base'[t].manifest = NewManifest(t) /\ archived'[t] = archived[t]
    BY <1>9, SealedDirectory DEF Seal
  <2>2. ~Sealed(base[t]) /\ Sealed(base'[t])
    BY <1>1, <1>9, <2>1, ManifestFacts DEF Seal, Shape, Sealed, Kept
  <2> QED
    BY <1>1, <1>9, <2>1, <2>2, ManifestsAre, ManifestsAreNext
<1> QED
  BY <1>3, <1>4, <1>5, <1>6, <1>7, <1>8, <1>9 DEF Request, Record

LEMMA OthersManifests ==
    ASSUME TypeInv, NEW t \in Turns, Request(t) \/ Answer(t) \/ Record(t),
           NEW u \in Turns, u # t
    PROVE  Manifests(u)' = Manifests(u)
<1>1. base'[u] = base[u] /\ archived'[u] = archived[u]
  BY OwnTurn DEF TypeInv, Local
<1> QED
  BY <1>1 DEF Manifests, Directories, Exists, Sealed

LEMMA SessionsManifests ==
    ASSUME StartSession \/ EndSession \/ Crash \/ Age \/ UNCHANGED vars, NEW t \in Turns
    PROVE  Manifests(t)' = Manifests(t)
<1>1. base' = base /\ archived' = archived
  BY DEF StartSession, EndSession, Crash, Age, vars, disk
<1> QED
  BY <1>1 DEF Manifests, Directories, Exists, Sealed

LEMMA KeepsEvidence ==
    TypeInv /\ [Next]_vars => \A t \in Turns : TerminalManifests(t) \subseteq TerminalManifests(t)'
<1> SUFFICES ASSUME TypeInv, [Next]_vars, NEW t \in Turns,
                    NEW m \in Manifests(t), Terminal(m)
             PROVE  m \in Manifests(t)'
  BY DEF TerminalManifests
<1>1. CASE StartSession \/ EndSession \/ Crash \/ Age \/ UNCHANGED vars
  BY <1>1, SessionsManifests
<1>2. ASSUME NEW u \in Turns, Request(u) \/ Answer(u) \/ Record(u)
      PROVE  m \in Manifests(t)'
  BY <1>2, OthersManifests, ManifestSteps
<1> QED
  BY <1>1, <1>2 DEF Next

\* Terminal evidence is never lost, whatever dies and whatever is moved aside
\* (_archive_conflicting_turn, record_existing_turn).
THEOREM EvidenceIsKept == Spec => EvidenceKept
<1>1. TypeInv /\ [Next]_vars => [\A t \in Turns : TerminalManifests(t) \subseteq TerminalManifests(t)']_vars
  BY KeepsEvidence
<1> QED
  BY <1>1, TypeInvariant, PTL DEF Spec, EvidenceKept

-----------------------------------------------------------------------------
(***************************************************************************)
(* One answer settles a turn.  While a worker is on its way to an answer   *)
(* of its own, nothing on the disk answers its request: it asked because   *)
(* of that, and only its own manifest can change it.                       *)
(***************************************************************************)

\* The requests of a slot and phase are renderings of one request.
OneRequest == \A j, k \in Keys : Identity[j] = Identity[k]

Complete(m) == m.complete /\ m.status = "completed"
Unanswered(t) ==
    \A m \in Manifests(t) : ~Complete(m) /\ (m.key = prompt[t] => ~Terminal(m))
Underway(t) ==
    worker[t].pc \in {"calling", "answered", "raised", "sealing"} /\ worker[t].kind # "lost"

OneAnswer(t) == /\ Underway(t) => Unanswered(t)
                /\ \A m, n \in Manifests(t) : Complete(m) /\ Complete(n) => m.answer = n.answer
AnswerInv == TypeInv /\ \A t \in Turns : OneAnswer(t)

LEMMA NothingRetained ==
    ASSUME OneRequest, TypeInv, NEW t \in Turns, Retained(t, prompt[t]) = {}
    PROVE  Unanswered(t)
<1> SUFFICES ASSUME NEW m \in Manifests(t)
             PROVE  ~Complete(m) /\ (m.key = prompt[t] => ~Terminal(m))
  BY DEF Unanswered
<1>1. PICK d \in Directories(t) : Sealed(d) /\ m = d.manifest
  BY DEF Manifests
<1>2. ~Exact(d, prompt[t]) /\ ~Compatible(d, prompt[t])
  BY RetainedIsEvidence
<1>3. Kept(t)
  BY KeptFirst
<1>4. d.attempts \in Seq(Attempt) /\ d.attempts # <<>>
  BY <1>3 DEF Kept, Shape, Directories, DiskTyped, Directory
<1>5. Head(d.attempts) \in Attempt
  BY <1>4
<1>6. Identity[Head(d.attempts).key] = Identity[prompt[t]]
  BY <1>3, <1>5 DEF OneRequest, Attempt, Kept, MemoryTyped
<1> QED
  BY <1>1, <1>2, <1>6 DEF Exact, Compatible, Terminal, Complete

\* A worker is on its way since it found nothing that answers its request.
LEMMA UnderwaySince ==
    ASSUME TypeInv, NEW t \in Turns, Request(t) \/ Answer(t) \/ Record(t), Underway(t)'
    PROVE  /\ ~Seal(t)
           /\ Underway(t) \/ (At(t, "idle") /\ Retained(t, prompt[t]) = {})
<1>1. Kept(t)
  BY KeptFirst
<1>2. CASE Ask(t) \/ Remembered(t)
  BY <1>2 DEF Ask, Remembered, May, Seal, At
<1>3. CASE Answer(t)
  BY <1>1, <1>3 DEF Answer, At, Kept, Shape, Underway, Seal
<1>4. CASE Archive(t) \/ Write(t) \/ Index(t)
  <2>1. worker'[t].kind = worker[t].kind
    BY <1>1, <1>4, Steps DEF Archive, Write, Index, process, Kept, ControlPoints
  <2>2. worker[t].pc \in {"answered", "raised"}
    BY <1>4 DEF Archive, Write, Index, Recording, At
  <2> QED
    BY <2>1, <2>2 DEF Underway, Seal, At
<1>5. CASE Replay(t) \/ Charge(t)
  <2>1. PICK a, left : Finish(t, a, left)
    BY <1>5 DEF Replay, Charge
  <2>2. worker'[t].pc = "idle"
    BY <1>1, <2>1, IdleType DEF Finish, Kept, ThreadsTyped, Idle
  <2> QED
    BY <2>2 DEF Underway
<1>6. CASE Verify(t)
  BY <1>1, <1>6, Steps DEF Verify, Kept, ControlPoints, Underway
<1>7. CASE Locked(t)
  BY <1>1, <1>7, Raises DEF Locked, Kept, Underway
<1>8. CASE Seal(t)
  <2>1. CASE Whole(t)
    BY <1>1, <1>8, <2>1, Steps DEF Seal, Kept, ControlPoints, Underway
  <2>2. CASE ~Whole(t)
    BY <1>1, <1>8, <2>2, Raises DEF Seal, Kept, Underway
  <2> QED
    BY <2>1, <2>2
<1> QED
  BY <1>2, <1>3, <1>4, <1>5, <1>6, <1>7, <1>8 DEF Request, Record

LEMMA UnderwayFrom ==
    ASSUME OneRequest, AnswerInv, NEW t \in Turns, Request(t) \/ Answer(t) \/ Record(t), Underway(t)'
    PROVE  Unanswered(t) /\ ~Seal(t)
BY UnderwaySince, NothingRetained DEF AnswerInv, OneAnswer

LEMMA SealedAnew ==
    ASSUME TypeInv, NEW t \in Turns, Seal(t), OneAnswer(t), Complete(NewManifest(t))
    PROVE  /\ worker[t].kind \in Succeeded /\ NewManifest(t).answer = InHand(t)
           /\ Content(t) = InHand(t) /\ Whole(t) /\ InHand(t) # NoAnswer
           /\ \A m \in Manifests(t) : ~Complete(m)
<1>1. Kept(t)
  BY KeptFirst
<1>2. Content(t) # NoAnswer /\ Whole(t) /\ NewManifest(t).answer = Content(t)
  BY <1>1, ManifestFacts DEF Kept, Complete
<1>3. worker[t].kind \in Succeeded /\ Content(t) = InHand(t)
  BY <1>2 DEF Content, Succeeded
<1>4. Underway(t)
  BY <1>3 DEF Seal, At, Underway, Succeeded
<1> QED
  BY <1>2, <1>3, <1>4 DEF OneAnswer, Unanswered

LEMMA WorkerKeepsOneAnswer ==
    ASSUME OneRequest, AnswerInv, NEW t \in Turns, Request(t) \/ Answer(t) \/ Record(t)
    PROVE  OneAnswer(t)'
<1>1. TypeInv /\ OneAnswer(t) /\ prompt' = prompt
  BY OwnTurn DEF AnswerInv, TypeInv, Local
<1>2. CASE ~Seal(t)
  <2>1. \A m \in Manifests(t)' : m \in Manifests(t)
    BY <1>1, <1>2, ManifestSteps
  <2>2. Underway(t)' => Unanswered(t)'
    BY <1>1, <2>1, UnderwayFrom DEF Unanswered
  <2> QED
    BY <1>1, <2>1, <2>2 DEF OneAnswer
<1>3. CASE Seal(t)
  <2>1. ~Underway(t)'
    BY <1>3, UnderwayFrom
  <2>2. \A m \in Manifests(t)' : m \in Manifests(t) \/ m = NewManifest(t)
    BY <1>1, <1>3, ManifestSteps
  <2>3. Complete(NewManifest(t)) => \A m \in Manifests(t) : ~Complete(m)
    BY <1>1, <1>3, SealedAnew
  <2> QED
    BY <1>1, <2>1, <2>2, <2>3 DEF OneAnswer
<1> QED
  BY <1>2, <1>3

LEMMA OthersKeepOneAnswer ==
    ASSUME AnswerInv, NEW t \in Turns, Request(t) \/ Answer(t) \/ Record(t), NEW u \in Turns, u # t
    PROVE  OneAnswer(u)'
<1>1. Manifests(u)' = Manifests(u) /\ worker'[u] = worker[u] /\ prompt' = prompt
  BY OthersManifests, OwnTurn DEF AnswerInv, TypeInv, Local
<1> QED
  BY <1>1 DEF AnswerInv, OneAnswer, Underway, Unanswered

LEMMA SessionsKeepOneAnswer ==
    ASSUME AnswerInv, StartSession \/ EndSession \/ Crash \/ Age \/ UNCHANGED vars, NEW t \in Turns
    PROVE  OneAnswer(t)'
<1>1. Manifests(t)' = Manifests(t)
  BY SessionsManifests
<1>2. Underway(t)' => Underway(t) /\ prompt' = prompt
  <2>1. CASE StartSession
    BY <2>1, IdleType DEF StartSession, Underway, Idle
  <2>2. CASE Crash
    BY <2>2, IdleType DEF Crash, Underway, Idle
  <2>3. CASE EndSession \/ Age \/ UNCHANGED vars
    BY <2>3 DEF EndSession, Age, vars, process, Underway
  <2> QED
    BY <2>1, <2>2, <2>3
<1> QED
  BY <1>1, <1>2 DEF AnswerInv, OneAnswer, Unanswered

THEOREM AnswerInvariant == OneRequest => (Spec => []AnswerInv)
<1> SUFFICES ASSUME OneRequest PROVE Spec => []AnswerInv
  OBVIOUS
<1>1. Init => AnswerInv
  <2> SUFFICES ASSUME Init, NEW t \in Turns PROVE OneAnswer(t)
    BY InitTypeInv DEF AnswerInv
  <2>1. Manifests(t) = {}
    BY DEF Init, Manifests, Directories, Exists
  <2>2. ~Underway(t)
    BY DEF Init, Underway, Idle
  <2> QED
    BY <2>1, <2>2 DEF OneAnswer
<1>2. AnswerInv /\ [Next]_vars => AnswerInv'
  <2> SUFFICES ASSUME AnswerInv, [Next]_vars PROVE AnswerInv'
    OBVIOUS
  <2>1. TypeInv'
    BY SessionsKeepTypes, WorkersKeepTypes, StutterKeepsTypes DEF Next, AnswerInv
  <2>2. ASSUME NEW t \in Turns  PROVE OneAnswer(t)'
    <3>1. CASE StartSession \/ EndSession \/ Crash \/ Age \/ UNCHANGED vars
      BY <3>1, SessionsKeepOneAnswer
    <3>2. ASSUME NEW u \in Turns, Request(u) \/ Answer(u) \/ Record(u)  PROVE OneAnswer(t)'
      BY <3>2, WorkerKeepsOneAnswer, OthersKeepOneAnswer
    <3> QED
      BY <3>1, <3>2 DEF Next
  <2> QED
    BY <2>1, <2>2 DEF AnswerInv
<1> QED
  BY <1>1, <1>2, PTL DEF Spec

\* A turn is settled by one complete answer, wherever sessions die and however
\* often its prompt is rendered anew, as long as every rendering is one request
\* (_retained): no slot is paid for again once a complete answer is on disk.
THEOREM SettledOnce == OneRequest => (Spec => []OneFinalAnswer)
<1>1. AnswerInv => OneFinalAnswer
  BY DEF AnswerInv, OneAnswer, OneFinalAnswer, Settled, Complete
<1> QED
  BY <1>1, AnswerInvariant, PTL

-----------------------------------------------------------------------------
(***************************************************************************)
(* The answer a session is told is the one the turn is settled with.  That *)
(* holds when no process dies between a response and its manifest          *)
(* (SafeCrashes): the attempts of a directory then hold no complete answer *)
(* but the one now being recorded, unless the directory is Spoiled and can *)
(* never be sealed as complete.                                            *)
(***************************************************************************)

SafeCrashes == Crashes \cap {"answered", "sealing"} = {}

Spoiled(d) ==
    \/ d.oversize
    \/ d.source \in DOMAIN served /\ served[d.source].kind = "oversize"
Held(t) == worker[t].pc \in {"answered", "sealing"}
Mine(t, a) == \/ a = NoAnswer
              \/ Held(t) /\ worker[t].kind = "done" /\ a = InHand(t)
Clean(t) == /\ Mine(t, base[t].source)
            /\ \A i \in DOMAIN base[t].attempts : Mine(t, base[t].attempts[i].answer)
Finished(d) == Sealed(d) /\ Complete(d.manifest)
Evident(d) == d.manifest.answer \in DOMAIN served /\ Response(d) = d.manifest.answer
Remembering(t) == memory[<<t, prompt[t]>>] # NoAnswer

Told(t) ==
    /\ Finished(base[t]) \/ Spoiled(base[t]) \/ Clean(t)
    /\ worker[t].pc = "sealing" /\ worker[t].kind \in Succeeded => base[t].source # NoAnswer
    /\ Held(t) /\ worker[t].kind = "done" =>
          \/ ~Exists(t)
          \/ Spoiled(base[t])
          \/ \E i \in DOMAIN base[t].attempts : base[t].attempts[i].answer = InHand(t)
    /\ Remembering(t) => \/ \E m \in Manifests(t) : Complete(m)
                         \/ Spoiled(base[t])
                         \/ Held(t) /\ worker[t].kind \in Succeeded
    /\ worker[t].pc = "calling"
          \/ (worker[t].pc \in {"raised", "sealing"} /\ worker[t].kind \notin Succeeded \cup {"lost"})
          => ~Remembering(t)
    /\ \A d \in Directories(t) : Finished(d) => Evident(d)
    /\ worker[t].pc = "posting" /\ worker[t].kind \in Succeeded =>
          \E m \in Manifests(t) : Complete(m) /\ m.answer = InHand(t)

ToldInv == /\ AnswerInv
           /\ ~open => \A t \in Turns : worker[t].pc = "idle"
           /\ \A t \in Turns : Told(t)

LEMMA InHandReal ==
    ASSUME TypeInv, NEW t \in Turns, worker[t].kind \in Succeeded
    PROVE  /\ InHand(t) # NoAnswer /\ InHand(t) \in DOMAIN served /\ Content(t) = InHand(t)
           /\ served[InHand(t)].kind = worker[t].kind
<1>1. Kept(t)
  BY KeptFirst
<1>2. InHand(t) \in DOMAIN served /\ served[InHand(t)].kind = worker[t].kind
  BY <1>1 DEF Kept, Shape
<1>3. InHand(t) \in 1 .. MaxServed
  BY <1>1, <1>2, ServedFacts DEF Kept, Ids
<1> QED
  BY <1>2, <1>3, BoundsAssumption DEF NoAnswer, Content, Succeeded

\* A step that leaves the files of a turn alone and neither begins nor ends in
\* the recording of an answer.
LEMMA ToldAtRest ==
    ASSUME NEW t \in Turns, Told(t), base'[t] = base[t], archived'[t] = archived[t], served' = served,
           Remembering(t)' => Remembering(t), ~Held(t),
           worker'[t].pc \in {"idle", "posting", "raised"},
           worker'[t].pc = "raised" => worker'[t].kind = "lost",
           worker'[t].pc = "posting" => worker'[t].kind \notin Succeeded
    PROVE  Told(t)'
<1>1. ~Held(t)'
  BY DEF Held
<1>2. Spoiled(base[t])' <=> Spoiled(base[t])
  BY DEF Spoiled
<1>3. Finished(base[t])' <=> Finished(base[t])
  BY DEF Finished, Sealed, Complete
<1>4. Clean(t) => Clean(t)'
  BY <1>1 DEF Clean, Mine
<1>5. Directories(t)' = Directories(t) /\ Manifests(t)' = Manifests(t)
  BY DEF Directories, Manifests, Exists, Sealed
<1>6. \A d \in Directories(t)' : Finished(d) => Evident(d)'
  BY <1>5 DEF Told, Evident
<1> QED
  BY <1>1, <1>2, <1>3, <1>4, <1>5, <1>6 DEF Told

LEMMA ToldOfOthers ==
    ASSUME TypeInv, NEW t \in Turns, Local(t), NEW u \in Turns, u # t, Told(u)
    PROVE  Told(u)'
<1>1. /\ base'[u] = base[u] /\ archived'[u] = archived[u] /\ worker'[u] = worker[u]
      /\ prompt'[u] = prompt[u] /\ prompt[u] \in Keys
      /\ \A k \in Keys : memory'[<<u, k>>] = memory[<<u, k>>]
  BY DEF Local, TypeInv, TypeOK
<1>2. \A i \in DOMAIN served : i \in DOMAIN served' /\ served'[i] = served[i]
  BY HistoryGrows DEF Local, TypeInv, TypeOK, Entry
<1>3. Held(u)' <=> Held(u)
  BY <1>1 DEF Held
<1>4. Spoiled(base[u]) => Spoiled(base[u])'
  BY <1>1, <1>2 DEF Spoiled
<1>5. Finished(base[u])' <=> Finished(base[u])
  BY <1>1 DEF Finished, Sealed, Complete
<1>6. Clean(u)' <=> Clean(u)
  BY <1>1, <1>3 DEF Clean, Mine, InHand
<1>7. Directories(u)' = Directories(u) /\ Manifests(u)' = Manifests(u)
  BY <1>1 DEF Directories, Manifests, Exists, Sealed
<1>8. \A d \in Directories(u)' : Finished(d) => Evident(d)'
  BY <1>2, <1>7 DEF Told, Evident
<1>9. Remembering(u)' <=> Remembering(u)
  BY <1>1 DEF Remembering
<1>10. InHand(u)' = InHand(u) /\ (Exists(u)' <=> Exists(u))
  BY <1>1 DEF InHand, Exists
<1> QED
  BY <1>1, <1>3, <1>4, <1>5, <1>6, <1>7, <1>8, <1>9, <1>10 DEF Told

\* What the lemmas on the steps of a worker start from.
LEMMA ToldFacts ==
    ASSUME ToldInv, NEW t \in Turns
    PROVE  /\ TypeInv /\ AnswerInv /\ Kept(t) /\ Shape(t) /\ OneAnswer(t) /\ Told(t)
           /\ base[t] \in Directory /\ worker[t] \in Worker /\ prompt[t] \in Keys
           /\ base \in [Turns -> Directory] /\ worker \in [Turns -> Worker]
BY KeptFirst DEF ToldInv, AnswerInv, Kept, DiskTyped, ThreadsTyped, MemoryTyped

LEMMA ManifestIn ==
    ASSUME NEW t \in Turns, Sealed(base[t])  PROVE base[t].manifest \in Manifests(t)
BY SealedExists DEF Manifests, Directories

LEMMA ToldByArchive ==
    ASSUME ToldInv, NEW t \in Turns, Archive(t)
    PROVE  Told(t)'
<1>1. /\ UNCHANGED <<worker, prompt, memory, served>>
      /\ worker[t].pc \in {"answered", "raised"} /\ Sealed(base[t])
      /\ base[t].manifest.key # prompt[t]
      /\ base'[t] = Absent /\ archived'[t] = archived[t] \cup {base[t]}
  BY ToldFacts DEF Archive, process, Recording, At, Kept, DiskTyped
<1>2. Clean(t)'
  BY <1>1 DEF Clean, Mine, Absent
<1>3. ~Exists(t)'
  BY <1>1 DEF Exists
<1>4. Remembering(t)' => Held(t)' /\ worker'[t].kind \in Succeeded
  BY <1>1, ToldFacts DEF Remembering, Told, Held, Shape, At
<1>5. worker'[t].pc \in {"raised"} /\ worker'[t].kind \notin Succeeded \cup {"lost"} => ~Remembering(t)'
  BY <1>1, ToldFacts DEF Remembering, Told
<1>6. \A d \in Directories(t)' : Finished(d) => Evident(d)'
  <2>1. \A d \in Directories(t)' : d \in Directories(t)
    BY <1>1, <1>3, SealedExists DEF Directories
  <2> QED
    BY <1>1, <2>1, ToldFacts DEF Told, Evident
<1> QED
  BY <1>1, <1>2, <1>3, <1>4, <1>5, <1>6 DEF Told

LEMMA ToldByWrite ==
    ASSUME ToldInv, NEW t \in Turns, Write(t)
    PROVE  Told(t)'
<1>1. /\ UNCHANGED <<archived, prompt, memory, served>>
      /\ worker[t].pc \in {"answered", "raised"} /\ base[t] = Absent
      /\ worker'[t].pc = "sealing" /\ worker'[t].kind = worker[t].kind
      /\ worker'[t].answer = worker[t].answer
      /\ base'[t] = [Absent EXCEPT !.attempts = <<[key |-> prompt[t], answer |-> Content(t)]>>,
                                   !.source = Content(t)]
  BY ToldFacts, Steps DEF Write, Recording, At, Exists, Kept, ControlPoints
<1>2. /\ base'[t].source = Content(t) /\ base'[t].manifest = NoManifest
      /\ DOMAIN base'[t].attempts = {1} /\ base'[t].attempts[1].answer = Content(t)
  BY <1>1 DEF Absent
<1>3. ~Finished(base[t])' /\ ~Finished(base[t]) /\ Held(t)' /\ InHand(t)' = InHand(t)
  BY <1>1, <1>2 DEF Finished, Sealed, Absent, Held, InHand
<1>4. ~Spoiled(base[t])
  BY <1>1, ToldFacts DEF Spoiled, Absent, Kept, HistoryTyped, NoAnswer
<1>5. CASE worker[t].kind \in Succeeded
  <2>1. /\ Content(t) = InHand(t) /\ InHand(t) # NoAnswer /\ InHand(t) \in DOMAIN served
        /\ served[InHand(t)].kind = worker[t].kind
    BY <1>5, ToldFacts, InHandReal
  <2>2. Clean(t)' \/ Spoiled(base[t])'
    BY <1>1, <1>2, <1>3, <1>5, <2>1 DEF Clean, Mine, Spoiled, Succeeded
  <2>3. base'[t].source # NoAnswer /\ \E i \in DOMAIN base'[t].attempts : base'[t].attempts[i].answer = InHand(t)'
    BY <1>2, <1>3, <2>1
  <2>4. \A d \in Directories(t)' : Finished(d) => Evident(d)'
    BY <1>1, <1>3, ToldFacts DEF Directories, Told, Evident
  <2> QED
    BY <1>1, <1>3, <1>5, <2>2, <2>3, <2>4 DEF Told
<1>6. CASE worker[t].kind \notin Succeeded
  <2>1. Content(t) = NoAnswer
    BY <1>6 DEF Content, Succeeded
  <2>2. Clean(t)'
    BY <1>2, <2>1 DEF Clean, Mine
  <2>3. \A d \in Directories(t)' : Finished(d) => Evident(d)'
    BY <1>1, <1>3, ToldFacts DEF Directories, Told, Evident
  <2>4. worker[t].pc = "raised"
    BY <1>1, <1>6, ToldFacts DEF Shape, At
  <2>5. Remembering(t)' => \E m \in Manifests(t)' : Complete(m)
    <3>1. Remembering(t)' => Remembering(t)
      BY <1>1 DEF Remembering
    <3>2. Remembering(t) => \E m \in Manifests(t) : Complete(m)
      BY <1>4, <1>6, ToldFacts DEF Told
    <3>3. Manifests(t)' = Manifests(t)
      BY <1>1, <1>2 DEF Manifests, Directories, Exists, Sealed, Absent
    <3> QED
      BY <3>1, <3>2, <3>3
  <2>6. worker'[t].kind \notin Succeeded \cup {"lost"} => ~Remembering(t)'
    BY <1>1, <2>4, ToldFacts DEF Told, Remembering
  <2> QED
    BY <1>1, <1>3, <1>6, <2>2, <2>3, <2>5, <2>6 DEF Told, Succeeded
<1> QED
  BY <1>5, <1>6

LEMMA IndexedDirectory ==
    ASSUME ToldInv, NEW t \in Turns, Index(t)
    PROVE  /\ UNCHANGED <<archived, prompt, memory, served>>
           /\ worker[t].pc \in {"answered", "raised"} /\ Exists(t)
           /\ worker'[t].pc = "sealing" /\ worker'[t].kind = worker[t].kind
           /\ worker'[t].answer = worker[t].answer
           /\ base'[t].manifest = NoManifest /\ base'[t].attempts = base[t].attempts
           /\ base'[t].oversize = base[t].oversize
           /\ base'[t].source = IF base[t].source = NoAnswer THEN Content(t) ELSE base[t].source
           /\ ~Finished(base[t]) /\ ~Finished(base[t])'
<1>1. /\ UNCHANGED <<archived, prompt, memory, served>>
      /\ worker[t].pc \in {"answered", "raised"} /\ Exists(t)
      /\ worker'[t].pc = "sealing" /\ worker'[t].kind = worker[t].kind
      /\ worker'[t].answer = worker[t].answer
  BY ToldFacts, Steps DEF Index, Recording, At, Kept, ControlPoints
<1>2. PICK c \in 0 .. MaxServed : c = IF base[t].source = NoAnswer THEN Content(t) ELSE base[t].source
  BY ToldFacts, ContentType DEF Directory, Kept
<1>3. base' = [base EXCEPT ![t] = [base[t] EXCEPT !.manifest = NoManifest, !.source = c]]
  BY <1>2, ToldFacts DEF Index
<1>4. /\ base'[t].manifest = NoManifest /\ base'[t].attempts = base[t].attempts
      /\ base'[t].oversize = base[t].oversize /\ base'[t].source = c
  BY <1>3, ToldFacts DEF Directory
<1>5. ~Finished(base[t])
  BY DEF Index, Finished, Complete, Terminal
<1>6. ~Finished(base[t])'
  BY <1>4 DEF Finished, Sealed
<1> QED
  BY <1>1, <1>2, <1>4, <1>5, <1>6

LEMMA ToldByIndex ==
    ASSUME ToldInv, NEW t \in Turns, Index(t)
    PROVE  Told(t)'
<1>1. /\ UNCHANGED <<archived, prompt, memory, served>>
      /\ worker[t].pc \in {"answered", "raised"} /\ Exists(t)
      /\ worker'[t].pc = "sealing" /\ worker'[t].kind = worker[t].kind
      /\ worker'[t].answer = worker[t].answer
      /\ base'[t].manifest = NoManifest /\ base'[t].attempts = base[t].attempts
      /\ base'[t].oversize = base[t].oversize
      /\ base'[t].source = IF base[t].source = NoAnswer THEN Content(t) ELSE base[t].source
      /\ ~Finished(base[t]) /\ ~Finished(base[t])'
  BY IndexedDirectory
<1>2. Held(t)' /\ InHand(t)' = InHand(t) /\ \A a : Mine(t, a) => Mine(t, a)'
  BY <1>1 DEF Held, Mine, InHand
<1>3. Spoiled(base[t]) => Spoiled(base[t])'
  <2>1. NoAnswer \notin DOMAIN served
    BY ToldFacts DEF Kept, HistoryTyped, NoAnswer
  <2> QED
    BY <1>1, <2>1 DEF Spoiled
<1>4. worker[t].kind \in Succeeded =>
         /\ Content(t) = InHand(t) /\ InHand(t) # NoAnswer /\ InHand(t) \in DOMAIN served
         /\ served[InHand(t)].kind = worker[t].kind /\ Held(t)
  BY <1>1, ToldFacts, InHandReal DEF Shape, At, Held
<1>5. worker[t].kind \notin Succeeded => Content(t) = NoAnswer
  BY DEF Content, Succeeded
<1>6. Spoiled(base[t])' \/ Clean(t)'
  <2>1. CASE Spoiled(base[t])
    BY <1>3, <2>1
  <2>2. CASE Clean(t)
    <3>1. (\A i \in DOMAIN base[t].attempts : Mine(t, base[t].attempts[i].answer))'
      BY <1>1, <1>2, <2>2 DEF Clean, Mine
    <3>2. Mine(t, base[t].source)' \/ Spoiled(base[t])'
      <4>1. CASE base[t].source # NoAnswer
        BY <1>1, <1>2, <2>2, <4>1 DEF Clean, Mine
      <4>2. CASE base[t].source = NoAnswer /\ worker[t].kind \notin Succeeded
        BY <1>1, <1>5, <4>2 DEF Mine
      <4>3. CASE base[t].source = NoAnswer /\ worker[t].kind \in Succeeded
        BY <1>1, <1>2, <1>4, <4>3 DEF Mine, Spoiled, Succeeded
      <4> QED
        BY <4>1, <4>2, <4>3
    <3> QED
      BY <3>1, <3>2 DEF Clean
  <2> QED
    BY <1>1, <2>1, <2>2, ToldFacts DEF Told
<1>7. worker'[t].kind \in Succeeded => base'[t].source # NoAnswer
  BY <1>1, <1>4
<1>8. worker'[t].kind = "done" => Spoiled(base[t])' \/ \E i \in DOMAIN base'[t].attempts :
                                                     base'[t].attempts[i].answer = InHand(t)'
  BY <1>1, <1>2, <1>3, <1>4, ToldFacts DEF Told, Succeeded
<1>9. Remembering(t)' => \/ \E m \in Manifests(t)' : Complete(m)
                         \/ Spoiled(base[t])'
                         \/ worker'[t].kind \in Succeeded
  <2>1. Remembering(t)' => Remembering(t)
    BY <1>1 DEF Remembering
  <2>2. \A m \in Manifests(t) : Complete(m) => m \in Manifests(t)'
    BY ToldFacts, ManifestSteps DEF Record, Complete, Terminal
  <2> QED
    BY <1>1, <1>3, <2>1, <2>2, ToldFacts DEF Told
<1>10. worker'[t].kind \notin Succeeded \cup {"lost"} => ~Remembering(t)'
  <2>1. worker[t].kind \notin Succeeded => worker[t].pc = "raised"
    BY <1>1, ToldFacts DEF Shape, At
  <2> QED
    BY <1>1, <2>1, ToldFacts DEF Told, Remembering
<1>11. \A d \in Directories(t)' : Finished(d) => Evident(d)'
  BY <1>1, ToldFacts DEF Directories, Told, Evident
<1> QED
  BY <1>1, <1>2, <1>6, <1>7, <1>8, <1>9, <1>10, <1>11 DEF Told

\* What a worker seals as complete is the answer its directory is read back with.
LEMMA SealsWhatIsRead ==
    ASSUME ToldInv, NEW t \in Turns, Seal(t), worker[t].kind \in Succeeded, ~Spoiled(base[t])
    PROVE  /\ Complete(NewManifest(t)) /\ NewManifest(t).answer = InHand(t)
           /\ Response(base[t]) = InHand(t) /\ Whole(t)
<1>1. /\ Content(t) = InHand(t) /\ InHand(t) # NoAnswer /\ InHand(t) \in DOMAIN served
      /\ served[InHand(t)].kind = worker[t].kind
  BY ToldFacts, InHandReal
<1>2. worker[t].pc = "sealing" /\ Exists(t) /\ ~Finished(base[t]) /\ Held(t)
      /\ base[t].attempts # <<>>
  BY ToldFacts DEF Seal, At, Shape, Finished, Held
<1>3. Clean(t) /\ base[t].source # NoAnswer
  BY <1>2, ToldFacts DEF Told
<1>4. worker[t].kind = "done" /\ base[t].source = InHand(t)
  BY <1>3 DEF Clean, Mine
<1>5. Whole(t)
  BY <1>1, <1>4 DEF Whole, Spoiled
<1>6. Complete(NewManifest(t)) /\ NewManifest(t).answer = InHand(t)
  BY <1>1, <1>5, ToldFacts, ManifestFacts DEF Complete, Kept
<1>7. \E i \in DOMAIN base[t].attempts : base[t].attempts[i].answer = InHand(t)
  BY <1>2, <1>4, ToldFacts DEF Told
<1>8. PICK i \in DOMAIN base[t].attempts : /\ base[t].attempts[i].answer # NoAnswer
                                          /\ Response(base[t]) = base[t].attempts[i].answer
  BY <1>1, <1>2, <1>7, ToldFacts, ResponseIsAnAnswer
<1>9. Response(base[t]) = InHand(t)
  BY <1>3, <1>8 DEF Clean, Mine
<1> QED
  BY <1>5, <1>6, <1>9

\* The response depends on the files of the attempts alone.
LEMMA SameResponse ==
    ASSUME NEW d, NEW e, d.attempts = e.attempts
    PROVE  Response(d) = Response(e)
<1>1. \A i : IsLastAnswered(i, d) = IsLastAnswered(i, e)
  BY DEF IsLastAnswered
<1>2. DOMAIN d.attempts = DOMAIN e.attempts
  OBVIOUS
<1> DEFINE LastIn(x) == CHOOSE i \in DOMAIN x.attempts : IsLastAnswered(i, x)
           Read(s, i) == IF \A j \in DOMAIN s : s[j].answer = NoAnswer THEN NoAnswer
                         ELSE IF Head(s).answer # NoAnswer THEN Head(s).answer ELSE s[i].answer
<1>3. LastIn(d) = LastIn(e)
  BY <1>1, <1>2
<1>4. Response(d) = Read(d.attempts, LastIn(d)) /\ Response(e) = Read(e.attempts, LastIn(e))
  BY DEF Response
<1> HIDE DEF LastIn, Read
<1> QED
  BY <1>3, <1>4

\* The seal adds one manifest and takes none away.
LEMMA SealAdds ==
    ASSUME TypeInv, NEW t \in Turns, Seal(t)
    PROVE  Sealed(base[t])' /\ \A m : m \in Manifests(t)' <=> m \in Manifests(t) \/ m = NewManifest(t)
<1>1. archived' = archived /\ Exists(t) /\ ~Sealed(base[t]) /\ Kept(t)
  BY KeptFirst DEF Seal, At, Shape, Kept
<1>2. base'[t].manifest = NewManifest(t) /\ base'[t].attempts = base[t].attempts
  BY SealedDirectory
<1>3. base'[t].manifest # NoManifest /\ base'[t] # Absent
  BY <1>1, <1>2, ManifestFacts DEF Kept, Absent
<1>4. Sealed(base[t])' /\ Exists(t)'
  BY <1>3 DEF Sealed, Exists
<1>5. Directories(t)' = {base'[t]} \cup archived[t] /\ Directories(t) = {base[t]} \cup archived[t]
  BY <1>1, <1>4 DEF Directories
<1>6. \A m : m \in Manifests(t)' <=> m \in {d.manifest : d \in {e \in {base'[t]} \cup archived[t] : Sealed(e)}}
  BY <1>5 DEF Manifests, Sealed
<1>7. \A m : m \in Manifests(t) <=> m \in {d.manifest : d \in {e \in archived[t] : Sealed(e)}}
  BY <1>1, <1>5 DEF Manifests
<1> QED
  BY <1>2, <1>3, <1>4, <1>6, <1>7 DEF Sealed

LEMMA ToldBySeal ==
    ASSUME ToldInv, NEW t \in Turns, Seal(t)
    PROVE  Told(t)'
<1>1. /\ UNCHANGED <<archived, prompt, memory, served>> /\ worker[t].pc = "sealing" /\ Exists(t)
      /\ ~Sealed(base[t]) /\ Held(t)
  BY ToldFacts DEF Seal, At, Shape, Held
<1>2. /\ base'[t].manifest = NewManifest(t) /\ base'[t].attempts = base[t].attempts
      /\ base'[t].source = base[t].source /\ base'[t].oversize = base[t].oversize
  BY SealedDirectory, ToldFacts
<1>3. \/ Whole(t) /\ worker'[t].pc = "posting" /\ worker'[t].kind = worker[t].kind
         /\ worker'[t].answer = worker[t].answer
      \/ ~Whole(t) /\ worker'[t].pc = "idle" /\ worker'[t].kind = "infra"
      \/ ~Whole(t) /\ worker'[t].pc = "raised" /\ worker'[t].kind = "lost"
  <2>1. CASE Whole(t)
    BY <2>1, ToldFacts, Steps DEF Seal, Kept, ControlPoints
  <2>2. CASE ~Whole(t)
    BY <2>2, ToldFacts, Raises DEF Seal, Kept
  <2> QED
    BY <2>1, <2>2
<1>4. ~Held(t)' /\ (Spoiled(base[t]) => Spoiled(base[t])')
  BY <1>1, <1>2, <1>3 DEF Held, Spoiled
<1>5. Sealed(base[t])' /\ \A m : m \in Manifests(t)' <=> m \in Manifests(t) \/ m = NewManifest(t)
  BY SealAdds, ToldFacts
<1>6. worker[t].kind \in Succeeded => \/ Spoiled(base[t])
                                      \/ /\ Complete(NewManifest(t)) /\ NewManifest(t).answer = InHand(t)
                                         /\ Response(base[t]) = InHand(t) /\ Whole(t)
  BY SealsWhatIsRead
<1>7. Finished(base[t])' <=> Complete(NewManifest(t))
  BY <1>2, <1>5 DEF Finished
<1>8. Finished(base[t])' \/ Spoiled(base[t])' \/ Clean(t)'
  <2>1. CASE worker[t].kind \in Succeeded
    BY <1>4, <1>6, <1>7, <2>1
  <2>2. CASE worker[t].kind \notin Succeeded /\ ~Spoiled(base[t])
    <3>1. Clean(t)
      BY <1>1, <2>2, ToldFacts DEF Told, Finished
    <3> QED
      BY <1>2, <2>2, <3>1 DEF Clean, Mine, Succeeded
  <2> QED
    BY <1>4, <2>1, <2>2
<1>9. Remembering(t)' => (\E m \in Manifests(t)' : Complete(m)) \/ Spoiled(base[t])'
  <2>1. Remembering(t)' => Remembering(t)
    BY <1>1 DEF Remembering
  <2> QED
    BY <1>4, <1>5, <1>6, <2>1, ToldFacts DEF Told
<1>10. ASSUME NEW d \in Directories(t)', Finished(d)  PROVE Evident(d)'
  <2>1. CASE d \in Directories(t)
    BY <1>1, <1>10, <2>1, ToldFacts DEF Told, Evident
  <2>2. CASE d \notin Directories(t)
    <3>1. d = base'[t]
      BY <1>1, <2>2 DEF Directories
    <3>2. Complete(NewManifest(t))
      BY <1>7, <1>10, <3>1
    <3>3. worker[t].kind \in Succeeded /\ NewManifest(t).answer = InHand(t) /\ Whole(t)
      BY <3>2, ToldFacts, SealedAnew
    <3>4. InHand(t) \in DOMAIN served /\ served[InHand(t)].kind = worker[t].kind /\ Content(t) = InHand(t)
          /\ InHand(t) # NoAnswer
      BY <3>3, ToldFacts, InHandReal
    <3>5. ~Spoiled(base[t])
      BY <3>3, <3>4 DEF Whole, Spoiled
    <3>6. Response(base[t]) = InHand(t)
      BY <1>6, <3>3, <3>5
    <3>7. Response(d) = Response(base[t])
      BY <1>2, <3>1, SameResponse
    <3> QED
      BY <1>1, <1>2, <3>1, <3>3, <3>4, <3>6, <3>7 DEF Evident
  <2> QED
    BY <2>1, <2>2
<1>11. worker'[t].pc = "posting" /\ worker'[t].kind \in Succeeded =>
          \E m \in Manifests(t)' : Complete(m) /\ m.answer = InHand(t)'
  <2>1. CASE worker'[t].pc = "posting" /\ worker'[t].kind \in Succeeded
    <3>1. Whole(t) /\ worker[t].kind \in Succeeded /\ InHand(t)' = InHand(t)
      BY <1>3, <2>1 DEF InHand
    <3>2. Content(t) # NoAnswer
      BY <3>1, ToldFacts, InHandReal
    <3>3. Complete(NewManifest(t)) /\ NewManifest(t).answer = InHand(t)
      BY <3>1, <3>2, ToldFacts, ManifestFacts, InHandReal DEF Complete, Kept
    <3> QED
      BY <1>5, <3>1, <3>3
  <2> QED
    BY <2>1
<1> QED
  BY <1>3, <1>4, <1>8, <1>9, <1>10, <1>11 DEF Told, Succeeded

LEMMA ToldByVerify ==
    ASSUME ToldInv, NEW t \in Turns, Verify(t)
    PROVE  Told(t)'
<1>1. /\ UNCHANGED <<base, archived, prompt, memory, served>>
      /\ worker[t].pc \in {"answered", "raised"} /\ Sealed(base[t])
      /\ base[t].manifest.key = prompt[t] /\ Terminal(base[t].manifest)
      /\ worker'[t].pc = "posting" /\ worker'[t].kind = worker[t].kind
  BY ToldFacts, Steps DEF Verify, Recording, At, disk, Kept, ControlPoints
<1>2. ~Underway(t)
  BY <1>1, ToldFacts, ManifestIn DEF OneAnswer, Unanswered
<1>3. worker[t].kind = "lost" /\ worker[t].pc = "raised"
  BY <1>1, <1>2, ToldFacts DEF Underway, Shape, At, Succeeded
<1>4. ~Held(t) /\ (Remembering(t)' => Remembering(t))
  BY <1>1, <1>3 DEF Held, Remembering
<1> QED
  BY <1>1, <1>3, <1>4, ToldAtRest, ToldFacts DEF Succeeded

LEMMA ToldByPosting ==
    ASSUME ToldInv, NEW t \in Turns, Charge(t) \/ Locked(t)
    PROVE  Told(t)'
<1>1. /\ UNCHANGED <<base, archived, prompt, memory, served>> /\ worker[t].pc = "posting"
  BY DEF Charge, Locked, At, disk
<1>2. \/ worker'[t].pc = "idle"
      \/ worker'[t].pc = "raised" /\ worker'[t].kind = "lost"
  <2>1. CASE Locked(t)
    BY <2>1, ToldFacts, Raises DEF Locked, Kept
  <2>2. CASE Charge(t)
    <3>1. PICK a, left : Finish(t, a, left)
      BY <2>2 DEF Charge
    <3> QED
      BY <3>1, ToldFacts DEF Finish, Idle
  <2> QED
    BY <2>1, <2>2
<1>3. ~Held(t) /\ (Remembering(t)' => Remembering(t))
  BY <1>1 DEF Held, Remembering
<1> QED
  BY <1>1, <1>2, <1>3, ToldAtRest, ToldFacts

LEMMA ToldByReplay ==
    ASSUME ToldInv, NEW t \in Turns, Replay(t)
    PROVE  Told(t)'
<1>1. /\ UNCHANGED <<base, archived, prompt, memory, served>> /\ worker[t].pc = "idle"
  BY DEF Replay, May, At, disk
<1>2. worker'[t].pc = "idle"
  <2>1. PICK a, left : Finish(t, a, left)
    BY DEF Replay
  <2> QED
    BY <2>1, ToldFacts DEF Finish, Idle
<1>3. ~Held(t) /\ (Remembering(t)' => Remembering(t))
  BY <1>1 DEF Held, Remembering
<1> QED
  BY <1>1, <1>2, <1>3, ToldAtRest, ToldFacts

LEMMA ToldByMemory ==
    ASSUME OneRequest, ToldInv, NEW t \in Turns, Remembered(t)
    PROVE  Told(t)'
<1>1. /\ UNCHANGED <<base, archived, prompt, memory, served>> /\ worker[t].pc = "idle"
      /\ Retained(t, prompt[t]) = {} /\ Remembering(t)
  BY DEF Remembered, May, At, disk, Remembering
<1>2. Unanswered(t)
  BY <1>1, NothingRetained, ToldFacts
<1>3. Spoiled(base[t])
  BY <1>1, <1>2, ToldFacts DEF Told, Held, Unanswered
<1>4. Spoiled(base[t])'
  BY <1>1, <1>3 DEF Spoiled
<1>5. worker'[t].pc = "answered" /\ worker'[t].kind \in Succeeded
  <2>1. Shape(t)' /\ worker'[t].pc = "answered"
    <3>1. Kept(t)' /\ worker'[t] = [[[[worker[t] EXCEPT !.pc = "answered"]
                                        EXCEPT !.answer = memory[<<t, prompt[t]>>]]
                                        EXCEPT !.kind = served[memory[<<t, prompt[t]>>]].kind]
                                        EXCEPT !.left = worker[t].left - 1]
      BY KeptByMemory, ToldFacts DEF Remembered
    <3> QED
      BY <3>1, ToldFacts DEF Kept, Worker
  <2> QED
    BY <2>1 DEF Shape, At
<1>6. \A d \in Directories(t)' : Finished(d) => Evident(d)'
  BY <1>1, ToldFacts DEF Directories, Exists, Told, Evident
<1> QED
  BY <1>4, <1>5, <1>6 DEF Told, Held

LEMMA ToldByAsk ==
    ASSUME OneRequest, ToldInv, NEW t \in Turns, Ask(t)
    PROVE  Told(t)'
<1>1. /\ UNCHANGED <<archived, prompt, memory, served>> /\ worker[t].pc = "idle"
      /\ worker'[t].pc = "calling" /\ worker'[t].kind = "infra"
      /\ base'[t].manifest = base[t].manifest /\ base'[t].source = base[t].source
      /\ base'[t].oversize = base[t].oversize
      /\ \A i \in DOMAIN base'[t].attempts :
            \/ base'[t].attempts[i].answer = NoAnswer
            \/ /\ i \in DOMAIN base[t].attempts
               /\ base'[t].attempts[i].answer = base[t].attempts[i].answer
  BY AskStep, ToldFacts
<1>2. Retained(t, prompt[t]) = {} /\ ~Remembering(t)
  BY DEF Ask, Remembering
<1>3. Unanswered(t)
  BY <1>2, NothingRetained, ToldFacts
<1>4. ~Finished(base[t]) /\ ~Finished(base[t])' /\ ~Held(t) /\ ~Held(t)'
  BY <1>1, <1>3, ManifestIn DEF Unanswered, Finished, Sealed, Held
<1>5. Spoiled(base[t])' \/ Clean(t)'
  <2>1. CASE Spoiled(base[t])
    BY <1>1, <2>1 DEF Spoiled
  <2>2. CASE Clean(t)
    BY <1>1, <1>4, <2>2 DEF Clean, Mine
  <2> QED
    BY <1>4, <2>1, <2>2, ToldFacts DEF Told
<1>6. ~Remembering(t)'
  BY <1>1, <1>2 DEF Remembering
<1>7. \A d \in Directories(t)' : Finished(d) => Evident(d)'
  BY <1>1, <1>4, ToldFacts DEF Directories, Told, Evident
<1> QED
  BY <1>1, <1>4, <1>5, <1>6, <1>7 DEF Told, Succeeded

LEMMA ToldByAnswer ==
    ASSUME OneRequest, ToldInv, NEW t \in Turns, Answer(t)
    PROVE  Told(t)'
<1>1. PICK kind \in Answers, id \in Nat : Answering(t, kind, id)
  BY AnswerStep, ToldFacts
<1>2. /\ UNCHANGED <<archived, prompt>> /\ worker[t].pc = "calling" /\ id # NoAnswer
      /\ id \in 0 .. MaxServed
      /\ id \in DOMAIN served' /\ served'[id].kind = kind
      /\ \A i \in DOMAIN served : i \in DOMAIN served' /\ served'[i] = served[i]
      /\ base'[t] = IF kind \in Succeeded THEN Answered(base[t], id, kind) ELSE base[t]
      /\ worker'[t].kind = kind /\ worker'[t].answer = id
      /\ worker'[t].pc = IF kind \in Succeeded THEN "answered" ELSE "raised"
      /\ memory' = IF kind \in Succeeded THEN [memory EXCEPT ![<<t, prompt[t]>>] = id] ELSE memory
  BY <1>1, BoundsAssumption DEF Answering, NoAnswer
<1>3. Unanswered(t)
  BY <1>2, ToldFacts DEF OneAnswer, Underway, Shape, At
<1>4. ~Held(t) /\ ~Remembering(t) /\ ~Finished(base[t])
  BY <1>2, <1>3, ToldFacts, ManifestIn DEF Held, Told, Finished, Unanswered
<1>5. Exists(t) /\ base[t].attempts # <<>>
  BY <1>2, ToldFacts DEF Shape, At
<1>6. /\ base'[t].manifest = base[t].manifest /\ base'[t].source = base[t].source
      /\ base[t].oversize => base'[t].oversize
  <2>1. CASE kind \in Succeeded
    BY <1>2, <1>5, <2>1, AnsweredDirectory, ToldFacts
  <2>2. CASE kind \notin Succeeded
    BY <1>2, <2>2
  <2> QED
    BY <2>1, <2>2
<1>7. ~Finished(base[t])'
  BY <1>4, <1>6 DEF Finished, Sealed
<1>8. Spoiled(base[t]) => Spoiled(base[t])'
  BY <1>2, <1>6 DEF Spoiled
<1>9. \A d \in Directories(t)' : Finished(d) => Evident(d)'
  BY <1>2, <1>7, ToldFacts DEF Directories, Told, Evident
<1>10. CASE kind \notin Succeeded
  <2>1. ~Held(t)' /\ ~Remembering(t)'
    BY <1>2, <1>4, <1>10 DEF Held, Remembering
  <2>2. Clean(t) => Clean(t)'
    BY <1>2, <1>4, <1>10 DEF Clean, Mine
  <2>3. Spoiled(base[t])' \/ Clean(t)'
    BY <1>4, <1>8, <2>2, ToldFacts DEF Told
  <2> QED
    BY <1>2, <1>9, <1>10, <2>1, <2>3 DEF Told
<1>11. CASE kind \in Succeeded
  <2>1. Held(t)' /\ InHand(t)' = id
    BY <1>2, <1>11 DEF Held, InHand
  <2>2. /\ DOMAIN base'[t].attempts = DOMAIN base[t].attempts
        /\ \A i \in DOMAIN base[t].attempts : base'[t].attempts[i].answer =
              IF i = Len(base[t].attempts) THEN id ELSE base[t].attempts[i].answer
        /\ Len(base[t].attempts) \in DOMAIN base[t].attempts
        /\ base'[t].oversize <=> (base[t].oversize \/ kind = "oversize")
    <3>1. base'[t] = Answered(base[t], id, kind)
      BY <1>2, <1>11
    <3> QED
      BY <1>2, <1>5, <3>1, AnsweredDirectory, ToldFacts
  <2>3. Spoiled(base[t])' \/ Clean(t)'
    <3>1. CASE kind = "oversize"
      BY <2>2, <3>1 DEF Spoiled
    <3>2. CASE kind = "done" /\ ~Spoiled(base[t])
      <4>1. Clean(t)
        BY <1>4, <3>2, ToldFacts DEF Told
      <4>2. \A i \in DOMAIN base'[t].attempts : base'[t].attempts[i].answer \in {NoAnswer, id}
        BY <1>4, <2>2, <4>1 DEF Clean, Mine
      <4>3. base'[t].source = NoAnswer
        BY <1>4, <1>6, <4>1 DEF Clean, Mine
      <4> QED
        BY <1>2, <2>1, <3>2, <4>2, <4>3 DEF Clean, Mine
    <3> QED
      BY <1>8, <1>11, <3>1, <3>2 DEF Succeeded
  <2>4. \E i \in DOMAIN base'[t].attempts : base'[t].attempts[i].answer = InHand(t)'
    BY <2>1, <2>2
  <2> QED
    BY <1>2, <1>9, <1>11, <2>1, <2>3, <2>4 DEF Told
<1> QED
  BY <1>10, <1>11

LEMMA WorkerKeepsTold ==
    ASSUME OneRequest, ToldInv, NEW t \in Turns, Request(t) \/ Answer(t) \/ Record(t)
    PROVE  /\ \A u \in Turns : Told(u)'
           /\ open /\ open'
<1>1. Told(t)'
  BY ToldByReplay, ToldByMemory, ToldByAsk, ToldByAnswer, ToldByArchive, ToldByWrite, ToldByIndex,
     ToldByVerify, ToldBySeal, ToldByPosting DEF Request, Record
<1>2. \A u \in Turns : u # t => Told(u)'
  <2>1. TypeInv /\ Local(t)
    BY OwnTurn, ToldFacts DEF TypeInv
  <2> QED
    BY <2>1, ToldOfOthers DEF ToldInv
<1>3. open /\ open'
  <2>1. CASE Request(t)
    BY <2>1 DEF Request, Replay, Remembered, Ask, May
  <2>2. CASE Answer(t)
    <3>1. worker[t].pc = "calling" /\ open' = open
      BY <2>2 DEF Answer, At
    <3> QED
      BY <3>1 DEF ToldInv
  <2>3. CASE Record(t)
    <3>1. worker[t].pc # "idle"
      BY <2>3 DEF Record, Archive, Write, Index, Verify, Seal, Charge, Locked, Recording, At
    <3>2. open' = open
      BY <2>3 DEF Record, Archive, Write, Index, Verify, Seal, Charge, Locked, process
    <3> QED
      BY <3>1, <3>2 DEF ToldInv
  <2> QED
    BY <2>1, <2>2, <2>3
<1> QED
  BY <1>1, <1>2, <1>3

LEMMA SessionsKeepTold ==
    ASSUME SafeCrashes, ToldInv, StartSession \/ EndSession \/ Crash
    PROVE  /\ \A t \in Turns : Told(t)'
           /\ ~open' => \A t \in Turns : worker'[t].pc = "idle"
<1>1. UNCHANGED <<base, archived, served>>
  BY DEF StartSession, EndSession, Crash, disk
<1>2. \A t \in Turns : ~Held(t)
  <2>1. CASE StartSession \/ EndSession
    BY <2>1 DEF StartSession, EndSession, ToldInv, Held, At
  <2>2. CASE Crash
    BY <2>2 DEF Crash, SafeCrashes, Held
  <2> QED
    BY <2>1, <2>2
<1>3. \A t \in Turns : worker'[t].pc = "idle"
  BY DEF StartSession, EndSession, Crash, At, Idle
<1>4. \A t \in Turns : Remembering(t)' => Remembering(t)
  <2>1. CASE StartSession
    <3>1. ASSUME NEW t \in Turns  PROVE memory'[<<t, prompt'[t]>>] = NoAnswer
      BY <2>1 DEF StartSession
    <3> QED
      BY <3>1 DEF Remembering
  <2>2. CASE EndSession \/ Crash
    BY <2>2 DEF EndSession, Crash, Remembering
  <2> QED
    BY <2>1, <2>2
<1>5. ASSUME NEW t \in Turns  PROVE Told(t)'
  BY <1>1, <1>2, <1>3, <1>4, ToldAtRest, ToldFacts
<1> QED
  BY <1>3, <1>5

LEMMA RestKeepsTold ==
    ASSUME ToldInv, Age \/ UNCHANGED vars
    PROVE  /\ \A t \in Turns : Told(t)'
           /\ ~open' => \A t \in Turns : worker'[t].pc = "idle"
<1>1. UNCHANGED <<base, archived, served, worker, prompt, memory, open>>
  BY DEF Age, vars, disk, process
<1>2. ASSUME NEW t \in Turns  PROVE Told(t)'
  <2>1. Told(t)
    BY DEF ToldInv
  <2> QED
    BY <1>1, <2>1 DEF Told, Finished, Sealed, Spoiled, Clean, Mine, Held, Exists, InHand,
       Remembering, Manifests, Directories, Evident
<1> QED
  BY <1>1, <1>2 DEF ToldInv

THEOREM ToldInvariant == OneRequest /\ SafeCrashes => (Spec => []ToldInv)
<1> SUFFICES ASSUME OneRequest, SafeCrashes PROVE Spec => []ToldInv
  OBVIOUS
<1>1. Init /\ AnswerInv => ToldInv
  <2> SUFFICES ASSUME Init, AnswerInv PROVE ToldInv
    OBVIOUS
  <2>1. ASSUME NEW t \in Turns
        PROVE  /\ worker[t].pc = "idle" /\ base[t] = Absent /\ archived[t] = {}
               /\ ~Remembering(t)
    <3>1. t \in Turns /\ prompt[t] \in Keys
      BY DEF Init
    <3> QED
      BY <3>1 DEF Init, Idle, Remembering
  <2>2. ASSUME NEW t \in Turns  PROVE Told(t)
    <3>1. base[t].attempts = <<>> /\ base[t].source = NoAnswer
      BY <2>1 DEF Absent
    <3>2. Clean(t)
      BY <3>1 DEF Clean, Mine
    <3>3. Directories(t) = {}
      BY <2>1 DEF Directories, Exists
    <3> QED
      BY <2>1, <3>2, <3>3 DEF Told, Held
  <2> QED
    BY <2>1, <2>2 DEF ToldInv
<1>2. ToldInv /\ AnswerInv' /\ [Next]_vars => ToldInv'
  <2> SUFFICES ASSUME ToldInv, AnswerInv', [Next]_vars PROVE ToldInv'
    OBVIOUS
  <2>1. /\ \A t \in Turns : Told(t)'
        /\ ~open' => \A t \in Turns : worker'[t].pc = "idle"
    BY WorkerKeepsTold, SessionsKeepTold, RestKeepsTold DEF Next
  <2> QED
    BY <2>1 DEF ToldInv
<1>3. Spec => []AnswerInv
  BY AnswerInvariant
<1> QED
  BY <1>1, <1>2, <1>3, PTL DEF Spec

-----------------------------------------------------------------------------
(* The steps of the store are steps of its requirements. *)

LEMMA SettledIs ==
    ASSUME NEW t \in Turns, OneAnswer(t), NEW m \in Manifests(t), Complete(m)
    PROVE  SettledAnswer(t) = m.answer
<1>1. m \in Settled(t)
  BY DEF Settled, Complete
<1>2. PICK n \in Settled(t) : SettledAnswer(t) = n.answer
  <2>1. (CHOOSE n \in Settled(t) : TRUE) \in Settled(t)
    BY <1>1
  <2> QED
    BY <1>1, <2>1 DEF SettledAnswer
<1>3. n \in Manifests(t) /\ Complete(n)
  BY <1>2 DEF Settled, Complete
<1> QED
  BY <1>2, <1>3 DEF OneAnswer

LEMMA SettledIsNext ==
    ASSUME NEW t \in Turns, OneAnswer(t)', NEW m \in Manifests(t)', Complete(m)
    PROVE  SettledAnswer(t)' = m.answer
<1>1. m \in Settled(t)'
  BY DEF Settled, Complete
<1>2. PICK n \in Settled(t)' : SettledAnswer(t)' = n.answer
  <2>1. (CHOOSE n \in Settled(t)' : TRUE) \in Settled(t)'
    BY <1>1
  <2> QED
    BY <1>1, <2>1 DEF SettledAnswer
<1>3. n \in Manifests(t)' /\ Complete(n)
  BY <1>2 DEF Settled, Complete
<1> QED
  BY <1>2, <1>3 DEF OneAnswer

LEMMA SettledAlike ==
    ASSUME NEW t \in Turns, \A m : Complete(m) => (m \in Manifests(t)' <=> m \in Manifests(t))
    PROVE  SettledAnswer(t)' = SettledAnswer(t)
<1>1. Settled(t)' = Settled(t)
  BY DEF Settled, Complete
<1> QED
  BY <1>1 DEF SettledAnswer

\* Only the seal of a complete manifest settles a turn.
LEMMA SettledByWorker ==
    ASSUME OneRequest, ToldInv, NEW t \in Turns, Request(t) \/ Answer(t) \/ Record(t)
    PROVE  /\ \A u \in Turns : u # t => SettledAnswer(u)' = SettledAnswer(u)
           /\ \/ SettledAnswer(t)' = SettledAnswer(t)
              \/ /\ Seal(t) /\ SettledAnswer(t) = NoAnswer
                 /\ SettledAnswer(t)' = InHand(t) /\ InHand(t) \in Ids
<1>1. ASSUME NEW u \in Turns, u # t  PROVE SettledAnswer(u)' = SettledAnswer(u)
  <2>1. Manifests(u)' = Manifests(u)
    BY <1>1, OthersManifests, ToldFacts
  <2> QED
    BY <2>1, SettledAlike
<1>2. CASE ~Seal(t) \/ ~Complete(NewManifest(t))
  <2>1. \A m : Complete(m) => (m \in Manifests(t)' <=> m \in Manifests(t))
    BY <1>2, ManifestSteps, ToldFacts DEF Complete, Terminal
  <2>2. SettledAnswer(t)' = SettledAnswer(t)
    BY <2>1, SettledAlike
  <2> QED
    BY <1>1, <2>2
<1>3. CASE Seal(t) /\ Complete(NewManifest(t))
  <2>1. /\ NewManifest(t).answer = InHand(t) /\ worker[t].kind \in Succeeded
        /\ \A m \in Manifests(t) : ~Complete(m)
    BY <1>3, SealedAnew, ToldFacts
  <2>2. InHand(t) \in Ids
    BY <2>1, InHandReal, ServedFacts, ToldFacts DEF Kept
  <2>3. Settled(t) = {}
    BY <2>1 DEF Settled, Complete
  <2>4. SettledAnswer(t) = NoAnswer
    BY <2>3 DEF SettledAnswer
  <2>5. NewManifest(t) \in Manifests(t)'
    BY <1>3, SealAdds, ToldFacts
  <2>6. OneAnswer(t)'
    BY WorkerKeepsOneAnswer, ToldFacts
  <2>7. SettledAnswer(t)' = InHand(t)
    BY <1>3, <2>1, <2>5, <2>6, SettledIsNext
  <2> QED
    BY <1>1, <1>3, <2>2, <2>4, <2>7
<1> QED
  BY <1>2, <1>3

\* What a step tells the one who asked: nothing, or the answer of the turn.
LEMMA ToldByWorker ==
    ASSUME OneRequest, ToldInv, NEW t \in Turns, Request(t) \/ Answer(t) \/ Record(t)
    PROVE  \/ result' = result
           \/ /\ ~Seal(t)
              /\ \E a : /\ result' = [result EXCEPT ![t] = a]
                        /\ a = NoAnswer \/ (a = SettledAnswer(t) /\ a # NoAnswer)
<1>1. CASE Replay(t)
  <2>1. PICK d \in Retained(t, prompt[t]) :
           Finish(t, IF d.manifest.status = "completed" THEN Response(d) ELSE NoAnswer, 0)
    BY <1>1 DEF Replay
  <2>2. ~Seal(t)
    BY <1>1 DEF Replay, Seal, May, At
  <2>3. CASE d.manifest.status # "completed"
    BY <2>1, <2>2, <2>3 DEF Finish
  <2>4. CASE d.manifest.status = "completed"
    <3>1. d \in Directories(t) /\ (Exact(d, prompt[t]) \/ Compatible(d, prompt[t]))
      BY <2>1, RetainedIsEvidence
    <3>2. Finished(d)
      BY <2>4, <3>1 DEF Exact, Compatible, Terminal, Finished, Complete
    <3>3. d.manifest \in Manifests(t) /\ Complete(d.manifest)
      BY <3>1, <3>2 DEF Manifests, Finished
    <3>4. Response(d) = d.manifest.answer /\ d.manifest.answer \in DOMAIN served
      BY <3>1, <3>2, ToldFacts DEF Told, Evident
    <3>5. d.manifest.answer # NoAnswer
      BY <3>4, ToldFacts DEF Kept, HistoryTyped, NoAnswer
    <3>6. SettledAnswer(t) = d.manifest.answer
      BY <3>3, SettledIs, ToldFacts
    <3> QED
      BY <2>1, <2>2, <2>4, <3>4, <3>5, <3>6 DEF Finish
  <2> QED
    BY <2>3, <2>4
<1>2. CASE Charge(t)
  <2>1. ~Seal(t) /\ worker[t].pc = "posting"
    BY <1>2 DEF Charge, Seal, At
  <2>2. CASE Content(t) = NoAnswer
    BY <1>2, <2>1, <2>2 DEF Charge, Finish
  <2>3. CASE Content(t) # NoAnswer
    <3>1. worker[t].kind \in Succeeded /\ Content(t) = InHand(t)
      BY <2>3 DEF Content, Succeeded
    <3>2. PICK m \in Manifests(t) : Complete(m) /\ m.answer = InHand(t)
      BY <2>1, <3>1, ToldFacts DEF Told
    <3>3. SettledAnswer(t) = InHand(t)
      BY <3>2, SettledIs, ToldFacts
    <3>4. result' = [result EXCEPT ![t] = InHand(t)]
      BY <1>2, <2>3 DEF Charge, Finish
    <3> QED
      BY <2>1, <2>3, <3>1, <3>3, <3>4
  <2> QED
    BY <2>2, <2>3
<1>3. CASE Remembered(t) \/ Ask(t) \/ Answer(t) \/ Archive(t) \/ Write(t) \/ Index(t) \/ Verify(t)
           \/ Seal(t) \/ Locked(t)
  BY <1>3 DEF Remembered, Ask, Answer, Archive, Write, Index, Verify, Seal, Locked, process
<1> QED
  BY <1>1, <1>2, <1>3 DEF Request, Record

LEMMA RequirementsAtFirst == Init => Requirements!Init
<1> SUFFICES ASSUME Init PROVE Requirements!Init
  OBVIOUS
<1>1. ASSUME NEW t \in Turns  PROVE SettledAnswer(t) = NoAnswer
  <2>1. Directories(t) = {}
    BY DEF Init, Directories, Exists
  <2>2. Settled(t) = {}
    BY <2>1 DEF Settled, Manifests
  <2> QED
    BY <2>2 DEF SettledAnswer
<1> QED
  BY <1>1 DEF Requirements!Init, Init

LEMMA RequirementsStep ==
    ASSUME OneRequest, ToldInv, [Next]_vars
    PROVE  [Requirements!Next]_<<[t \in Turns |-> SettledAnswer(t)], result>>
<1> DEFINE settled == [t \in Turns |-> SettledAnswer(t)]
<1>1. CASE StartSession \/ EndSession \/ Crash \/ Age \/ UNCHANGED vars
  <2>1. \A t \in Turns : SettledAnswer(t)' = SettledAnswer(t)
    BY <1>1, SessionsManifests, SettledAlike
  <2>2. settled' = settled
    BY <2>1
  <2>3. result' = result \/ result' = [t \in Turns |-> NoAnswer]
    BY <1>1 DEF StartSession, EndSession, Crash, Age, vars, process
  <2> QED
    BY <2>2, <2>3 DEF Requirements!Next, Requirements!ForgetAll
<1>2. ASSUME NEW t \in Turns, Request(t) \/ Answer(t) \/ Record(t)
      PROVE  [Requirements!Next]_<<settled, result>>
  <2>1. /\ \A u \in Turns : u # t => SettledAnswer(u)' = SettledAnswer(u)
        /\ \/ SettledAnswer(t)' = SettledAnswer(t)
           \/ /\ Seal(t) /\ SettledAnswer(t) = NoAnswer
              /\ SettledAnswer(t)' = InHand(t) /\ InHand(t) \in Ids
    BY <1>2, SettledByWorker
  <2>2. \/ result' = result
        \/ /\ ~Seal(t)
           /\ \E a : /\ result' = [result EXCEPT ![t] = a]
                     /\ a = NoAnswer \/ (a = SettledAnswer(t) /\ a # NoAnswer)
    BY <1>2, ToldByWorker
  <2>3. CASE SettledAnswer(t)' = SettledAnswer(t)
    <3>1. settled' = settled
      BY <2>1, <2>3
    <3>2. CASE result' = result
      BY <3>1, <3>2
    <3>3. ASSUME NEW a, result' = [result EXCEPT ![t] = a],
                 a = NoAnswer \/ (a = SettledAnswer(t) /\ a # NoAnswer)
          PROVE  Requirements!Next
      <4>1. CASE a = NoAnswer
        BY <3>1, <3>3, <4>1 DEF Requirements!Next, Requirements!Forget
      <4>2. CASE a = SettledAnswer(t) /\ a # NoAnswer
        BY <3>1, <3>3, <4>2 DEF Requirements!Next, Requirements!Tell
      <4> QED
        BY <3>3, <4>1, <4>2
    <3> QED
      BY <2>2, <3>2, <3>3
  <2>4. CASE Seal(t) /\ SettledAnswer(t) = NoAnswer /\ SettledAnswer(t)' = InHand(t) /\ InHand(t) \in Ids
    <3>1. settled' = [settled EXCEPT ![t] = InHand(t)] /\ settled[t] = NoAnswer
      BY <2>1, <2>4
    <3>2. result' = result
      BY <2>2, <2>4
    <3> QED
      BY <2>4, <3>1, <3>2 DEF Requirements!Next, Requirements!Settle
  <2> QED
    BY <2>1, <2>3, <2>4
<1> QED
  BY <1>1, <1>2 DEF Next

\* What a slot may rely on: once an answer of a turn is settled it is the
\* answer of the turn for good, and every later request of any session is told
\* that answer (TurnArtifactStore, _retained and _record, native.py and
\* artifacts.py), when every rendering is one request and no process dies
\* between a response and its manifest.
THEOREM RequirementsMet == OneRequest /\ SafeCrashes => (Spec => ImplementsRequirements)
<1> SUFFICES ASSUME OneRequest, SafeCrashes PROVE Spec => Requirements!Spec
  BY DEF ImplementsRequirements
<1>1. ToldInv /\ [Next]_vars => [Requirements!Next]_<<[t \in Turns |-> SettledAnswer(t)], result>>
  BY RequirementsStep
<1>2. Spec => []ToldInv
  BY ToldInvariant
<1> QED
  BY <1>1, <1>2, RequirementsAtFirst, PTL DEF Spec, Requirements!Spec

\* What Sum(f, n) is the last value of.
IsSums(f, n, g) == g = [k \in 0 .. n |-> IF k = 0 THEN 0 ELSE g[k - 1] + f[k]]

LEMMA SmallestNumber ==
    ASSUME NEW S, S \subseteq Nat, S # {}
    PROVE  \E x \in S : \A y \in S : x <= y
<1>1. PICK x \in S : \A y \in S : ~ <<y, x>> \in OpToRel(<, Nat)
  BY NatLessThanWellFounded, WFMin
<1>2. \A y \in S : ~ (y < x)
  BY <1>1 DEF OpToRel
<1>3. \A y \in S : x <= y
  BY <1>2
<1> QED
  BY <1>3

LEMMA SumsExist ==
    ASSUME NEW f, NEW n \in Nat
    PROVE  \E g : IsSums(f, n, g)
<1> DEFINE Missing == {k \in Nat : ~ \E g : IsSums(f, k, g)}
<1> SUFFICES ASSUME Missing # {} PROVE FALSE
  OBVIOUS
<1>1. PICK m \in Missing : \A k \in Missing : m <= k
  BY SmallestNumber
<1>2. m # 0
  <2>1. [k \in {0} |-> 0] = [k \in 0 .. 0 |-> IF k = 0 THEN 0 ELSE [j \in {0} |-> 0][k - 1] + f[k]]
    OBVIOUS
  <2> QED
    BY <1>1, <2>1 DEF IsSums
<1>3. PICK g : IsSums(f, m - 1, g)
  BY <1>1, <1>2
<1> DEFINE h == [k \in 0 .. m |-> IF k = 0 THEN 0 ELSE g[k - 1] + f[k]]
<1>4. \A k \in 0 .. m - 1 : h[k] = g[k]
  <2> SUFFICES ASSUME NEW k \in 0 .. m - 1 PROVE h[k] = g[k]
    OBVIOUS
  <2>1. g[k] = IF k = 0 THEN 0 ELSE g[k - 1] + f[k]
    BY <1>3 DEF IsSums
  <2>2. k \in 0 .. m
    BY <1>1
  <2> QED
    BY <2>1, <2>2
<1>5. \A k \in 0 .. m : k # 0 => h[k - 1] = g[k - 1]
  BY <1>1, <1>4
<1>6. h = [k \in 0 .. m |-> IF k = 0 THEN 0 ELSE h[k - 1] + f[k]]
  <2> DEFINE hh == [k \in 0 .. m |-> IF k = 0 THEN 0 ELSE h[k - 1] + f[k]]
  <2>1. \A k \in 0 .. m : h[k] = hh[k]
    BY <1>5
  <2> QED
    BY <2>1
<1>7. IsSums(f, m, h)
  BY <1>6 DEF IsSums
<1> QED
  BY <1>1, <1>7

LEMMA SumIs ==
    ASSUME NEW f, NEW n \in Nat
    PROVE  \E g : IsSums(f, n, g) /\ Sum(f, n) = g[n]
<1> DEFINE G == CHOOSE g : g = [k \in 0 .. n |-> IF k = 0 THEN 0 ELSE g[k - 1] + f[k]]
<1>1. IsSums(f, n, G)
  BY SumsExist DEF IsSums
<1>2. Sum(f, n) = G[n]
  BY DEF Sum
<1> QED
  BY <1>1, <1>2

\* Two sequences of sums agree as far as their terms do.
LEMMA SumsAgree ==
    ASSUME NEW f, NEW g, NEW m \in Nat, NEW n \in Nat, NEW a, NEW b,
           IsSums(f, m, a), IsSums(g, n, b), m <= n, \A i \in 1 .. m : f[i] = g[i]
    PROVE  \A k \in 0 .. m : a[k] = b[k]
<1> DEFINE Wrong == {k \in 0 .. m : a[k] # b[k]}
<1> SUFFICES ASSUME Wrong # {} PROVE FALSE
  OBVIOUS
<1>1. PICK k \in Wrong : \A j \in Wrong : k <= j
  <2>1. Wrong \subseteq Nat
    OBVIOUS
  <2> QED
    BY <2>1, SmallestNumber
<1>2. a[k] = IF k = 0 THEN 0 ELSE a[k - 1] + f[k]
  BY <1>1 DEF IsSums
<1>3. b[k] = IF k = 0 THEN 0 ELSE b[k - 1] + g[k]
  BY <1>1 DEF IsSums
<1>4. k # 0 => a[k - 1] = b[k - 1]
  BY <1>1
<1> QED
  BY <1>1, <1>2, <1>3, <1>4

LEMMA SumEmpty == ASSUME NEW f PROVE Sum(f, 0) = 0
<1>1. PICK a : IsSums(f, 0, a) /\ Sum(f, 0) = a[0]
  BY SumIs
<1>2. a[0] = 0
  BY <1>1 DEF IsSums
<1> QED
  BY <1>1, <1>2

LEMMA SumSame ==
    ASSUME NEW f, NEW g, NEW n \in Nat, \A i \in 1 .. n : f[i] = g[i]
    PROVE  Sum(f, n) = Sum(g, n)
<1>1. PICK a : IsSums(f, n, a) /\ Sum(f, n) = a[n]
  BY SumIs
<1>2. PICK b : IsSums(g, n, b) /\ Sum(g, n) = b[n]
  BY SumIs
<1>3. \A k \in 0 .. n : a[k] = b[k]
  BY <1>1, <1>2, SumsAgree
<1> QED
  BY <1>1, <1>2, <1>3

LEMMA SumStep ==
    ASSUME NEW f, NEW n \in Nat
    PROVE  Sum(f, n + 1) = Sum(f, n) + f[n + 1]
<1>1. PICK a : IsSums(f, n, a) /\ Sum(f, n) = a[n]
  BY SumIs
<1>2. PICK b : IsSums(f, n + 1, b) /\ Sum(f, n + 1) = b[n + 1]
  BY SumIs
<1>3. \A k \in 0 .. n : a[k] = b[k]
  <2>1. PICK o \in Nat : o = n + 1 /\ n <= o
    OBVIOUS
  <2>2. IsSums(f, n, a) /\ IsSums(f, o, b)
    BY <1>1, <1>2, <2>1
  <2> QED
    BY ONLY n \in Nat, <2>1, <2>2, SumsAgree
<1>4. b[n + 1] = b[n] + f[n + 1]
  BY <1>2 DEF IsSums
<1> QED
  BY <1>1, <1>2, <1>3, <1>4

LEMMA SumNat ==
    ASSUME NEW f, NEW n \in Nat, \A i \in 1 .. n : f[i] \in Nat
    PROVE  Sum(f, n) \in Nat
<1> DEFINE Wrong == {k \in 0 .. n : Sum(f, k) \notin Nat}
<1> SUFFICES ASSUME Wrong # {} PROVE FALSE
  OBVIOUS
<1>1. PICK k \in Wrong : \A j \in Wrong : k <= j
  <2>1. Wrong \subseteq Nat
    OBVIOUS
  <2> QED
    BY <2>1, SmallestNumber
<1>2. k # 0
  BY <1>1, SumEmpty
<1>3. Sum(f, k - 1) \in Nat
  BY <1>1, <1>2
<1>4. Sum(f, k) = Sum(f, k - 1) + f[k]
  BY <1>2, SumStep
<1> QED
  BY <1>1, <1>2, <1>3, <1>4

\* One term changes.
LEMMA SumChange ==
    ASSUME NEW f, NEW g, NEW n \in Nat, NEW j \in 1 .. n, NEW x \in Int,
           \A i \in 1 .. n : f[i] \in Nat /\ g[i] \in Nat,
           \A i \in 1 .. n : i # j => g[i] = f[i], g[j] = f[j] + x
    PROVE  Sum(g, n) = Sum(f, n) + x
<1> DEFINE Wrong == {k \in j .. n : Sum(g, k) # Sum(f, k) + x}
<1> SUFFICES ASSUME Wrong # {} PROVE FALSE
  OBVIOUS
<1>1. PICK k \in Wrong : \A i \in Wrong : k <= i
  <2>1. Wrong \subseteq Nat
    OBVIOUS
  <2> QED
    BY <2>1, SmallestNumber
<1>2. k \in Nat /\ k - 1 \in Nat /\ k = (k - 1) + 1
  OBVIOUS
<1>3. Sum(f, k) = Sum(f, k - 1) + f[k] /\ Sum(g, k) = Sum(g, k - 1) + g[k]
  BY <1>2, SumStep
<1>4. Sum(f, k - 1) \in Nat
  BY <1>2, SumNat
<1>5. CASE k = j
  <2>1. Sum(g, k - 1) = Sum(f, k - 1)
    BY <1>2, <1>5, SumSame
  <2> QED
    BY <1>1, <1>3, <1>4, <1>5, <2>1
<1>6. CASE k # j
  <2>1. k - 1 \in j .. n /\ ~ (k <= k - 1)
    BY <1>6
  <2>2. Sum(g, k - 1) = Sum(f, k - 1) + x
    BY <1>1, <2>1
  <2> QED
    BY <1>1, <1>3, <1>4, <1>6, <2>2
<1> QED
  BY <1>5, <1>6

-----------------------------------------------------------------------------
(***************************************************************************)
(* Whose the answers are: what a worker has in its hands and what the      *)
(* provider remembers of a turn are answers of that turn, and the answer   *)
(* in hand is of the kind the worker says, unless its record was lost.     *)
(***************************************************************************)

Busy(t) == ~At(t, "idle") /\ ~At(t, "calling")
Recalled(t) == memory[<<t, prompt[t]>>]
Failing(t) == Busy(t) /\ worker[t].kind \notin Succeeded \cup {"lost"}

Owns(t) ==
    /\ ~Busy(t) => InHand(t) = NoAnswer
    /\ Busy(t) =>
          /\ InHand(t) \in DOMAIN served /\ served[InHand(t)].turn = t
          /\ worker[t].kind # "lost" => served[InHand(t)].kind = worker[t].kind
          /\ worker[t].kind \in Succeeded \cup {"lost"} => Recalled(t) = InHand(t)
          /\ worker[t].kind \notin Succeeded => worker[t].handler
    /\ \A k \in Keys : memory[<<t, k>>] # NoAnswer => served[memory[<<t, k>>]].turn = t
    /\ At(t, "calling") \/ Failing(t) => Recalled(t) = NoAnswer

\* What the provider takes for an answer of each kind.
Priced(e) == IF e.kind = "infra" THEN e.cost = 0 ELSE e.cost \in Costs

OwnInv == /\ TypeInv
          /\ ~open => \A t \in Turns : At(t, "idle")
          /\ \A i \in DOMAIN served : Priced(served[i])
          /\ \A t \in Turns : Owns(t)

\* A worker that moves on with what it has.
LEMMA Goes ==
    ASSUME ThreadsTyped, NEW t \in Turns, NEW p \in ControlPoints,
           worker' = [worker EXCEPT ![t].pc = p]
    PROVE  /\ worker'[t].pc = p /\ worker'[t].kind = worker[t].kind
           /\ worker'[t].answer = worker[t].answer
           /\ worker'[t].handler = worker[t].handler /\ worker'[t].left = worker[t].left
BY DEF ThreadsTyped, Worker

LEMMA RaisesTo ==
    ASSUME TypeInv, NEW t \in Turns, Raise(t)
    PROVE  \/ /\ worker[t].handler /\ worker'[t].pc = "idle" /\ worker'[t].kind = "infra"
              /\ worker'[t].answer = NoAnswer /\ worker'[t].left = worker[t].left
              /\ unposted' = IF Cost(InHand(t)) > 0 THEN unposted \cup {InHand(t)} ELSE unposted
           \/ /\ ~worker[t].handler /\ worker'[t].pc = "raised" /\ worker'[t].kind = "lost"
              /\ worker'[t].answer = worker[t].answer /\ worker'[t].handler
              /\ worker'[t].left = worker[t].left /\ unposted' = unposted
<1>1. worker \in [Turns -> Worker] /\ worker[t] \in Worker /\ worker[t].left \in 0 .. Retries + 1
  BY DEF TypeInv, TypeOK, Worker
<1>2. CASE worker[t].handler
  <2>1. worker' = [worker EXCEPT ![t] = Idle(worker[t].left)]
    BY <1>2 DEF Raise
  <2>2. worker'[t] = Idle(worker[t].left)
    BY <1>1, <2>1
  <2>3. unposted' = IF Cost(InHand(t)) > 0 THEN unposted \cup {InHand(t)} ELSE unposted
    BY <1>2 DEF Raise
  <2> QED
    BY <1>1, <1>2, <2>2, <2>3, IdleType
<1>3. CASE ~worker[t].handler
  <2>1. /\ worker' = [worker EXCEPT ![t].pc = "raised", ![t].kind = "lost", ![t].handler = TRUE]
        /\ unposted' = unposted
    BY <1>3 DEF Raise
  <2> QED
    BY <1>1, <1>3, <2>1 DEF Worker
<1> QED
  BY <1>2, <1>3

LEMMA Finishes ==
    ASSUME TypeInv, NEW t \in Turns, NEW a, NEW left \in 0 .. Retries + 1, Finish(t, a, left)
    PROVE  worker'[t].pc = "idle" /\ worker'[t].kind = "infra" /\ worker'[t].answer = NoAnswer
           /\ worker'[t].left = left
<1>1. worker'[t] = Idle(left)
  BY DEF Finish, TypeInv, TypeOK
<1> QED
  BY <1>1, IdleType

LEMMA ChargeEnds ==
    ASSUME TypeInv, NEW t \in Turns, Charge(t)
    PROVE  /\ worker'[t].pc = "idle" /\ worker'[t].kind = "infra" /\ worker'[t].answer = NoAnswer
           /\ worker'[t].left = IF Content(t) # NoAnswer \/ worker[t].kind = "charged" THEN 0
                                ELSE worker[t].left
<1>1. 0 \in 0 .. Retries + 1
  BY BoundsAssumption
<1>2. worker[t].left \in 0 .. Retries + 1
  BY DEF TypeInv, TypeOK, Worker
<1>3. CASE Content(t) # NoAnswer
  <2>1. Finish(t, InHand(t), 0)
    BY <1>3 DEF Charge
  <2> QED
    BY <1>1, <1>3, <2>1, Finishes
<1>4. CASE Content(t) = NoAnswer
  <2>1. Finish(t, NoAnswer, IF worker[t].kind = "charged" THEN 0 ELSE worker[t].left)
    BY <1>4 DEF Charge
  <2>2. CASE worker[t].kind = "charged"
    BY <1>1, <1>4, <2>1, <2>2, Finishes
  <2>3. CASE worker[t].kind # "charged"
    <3>1. Finish(t, NoAnswer, worker[t].left)
      BY <2>1, <2>3
    <3> QED
      BY <1>2, <1>4, <2>3, <3>1, Finishes
  <2> QED
    BY <2>2, <2>3
<1> QED
  BY <1>3, <1>4

LEMMA OwnsWhenIdle ==
    ASSUME NEW t \in Turns, Owns(t), served' = served,
           \A k \in Keys : memory'[<<t, k>>] \in {NoAnswer, memory[<<t, k>>]},
           worker'[t].pc = "idle", worker'[t].answer = NoAnswer
    PROVE  Owns(t)'
BY DEF Owns, Busy, Failing, At, InHand

LEMMA OwnsWhenGoing ==
    ASSUME NEW t \in Turns, Owns(t), UNCHANGED <<served, memory, prompt>>, Busy(t), Busy(t)',
           worker'[t].answer = worker[t].answer,
           \/ worker'[t].kind = worker[t].kind /\ worker'[t].handler = worker[t].handler
           \/ /\ worker[t].kind \in Succeeded \cup {"lost"}
              /\ worker'[t].kind = "lost" /\ worker'[t].handler
    PROVE  Owns(t)'
<1>1. ~At(t, "calling") /\ ~At(t, "calling")'
  BY DEF Busy
<1>2. Recalled(t)' = Recalled(t) /\ InHand(t)' = InHand(t)
  BY DEF Recalled, InHand
<1>3. worker'[t].kind \notin Succeeded => worker'[t].handler
  BY DEF Owns
<1>4. Failing(t)' => Failing(t)
  BY DEF Failing
<1> QED
  BY <1>1, <1>2, <1>3, <1>4 DEF Owns, Succeeded

LEMMA OwnsOfOthers ==
    ASSUME TypeInv, NEW t \in Turns, Local(t), NEW u \in Turns, u # t, Owns(u)
    PROVE  Owns(u)'
<1>1. /\ worker'[u] = worker[u] /\ prompt'[u] = prompt[u] /\ prompt[u] \in Keys
      /\ \A k \in Keys : memory'[<<u, k>>] = memory[<<u, k>>]
  BY DEF Local, TypeInv, TypeOK
<1>2. \A i \in DOMAIN served : i \in DOMAIN served' /\ served'[i] = served[i]
  BY HistoryGrows DEF Local, TypeInv, TypeOK, Entry
<1>3. \A k \in Keys : memory[<<u, k>>] # NoAnswer => memory[<<u, k>>] \in DOMAIN served
  BY DEF TypeInv, Shape
<1>4. (Busy(u)' <=> Busy(u)) /\ (Failing(u)' <=> Failing(u)) /\ (At(u, "calling")' <=> At(u, "calling"))
      /\ InHand(u)' = InHand(u) /\ Recalled(u)' = Recalled(u)
  BY <1>1 DEF Busy, Failing, At, InHand, Recalled
<1>5. Busy(u)' => /\ InHand(u)' \in DOMAIN served' /\ served'[InHand(u)'].turn = u
                  /\ worker'[u].kind # "lost" => served'[InHand(u)'].kind = worker'[u].kind
                  /\ worker'[u].kind \in Succeeded \cup {"lost"} => Recalled(u)' = InHand(u)'
                  /\ worker'[u].kind \notin Succeeded => worker'[u].handler
  BY <1>1, <1>2, <1>4 DEF Owns
<1>6. \A k \in Keys : memory'[<<u, k>>] # NoAnswer => served'[memory'[<<u, k>>]].turn = u
  BY <1>1, <1>2, <1>3 DEF Owns
<1> QED
  BY <1>4, <1>5, <1>6 DEF Owns

LEMMA OwnFacts ==
    ASSUME OwnInv, NEW t \in Turns
    PROVE  /\ TypeInv /\ Kept(t) /\ Shape(t) /\ Owns(t)
           /\ base[t] \in Directory /\ worker[t] \in Worker /\ prompt[t] \in Keys
           /\ base \in [Turns -> Directory] /\ worker \in [Turns -> Worker]
           /\ prompt \in [Turns -> Keys] /\ memory \in [Turns \X Keys -> 0 .. MaxServed]
           /\ served \in Seq(Entry) /\ Len(served) \in Nat
<1>1. TypeInv /\ Kept(t) /\ Owns(t) /\ Shape(t)
  BY KeptFirst DEF OwnInv, Kept
<1>2. served \in Seq(Entry) /\ Len(served) \in Nat
  BY <1>1 DEF Kept, HistoryTyped, Entry
<1>3. base \in [Turns -> Directory] /\ worker \in [Turns -> Worker]
  BY <1>1 DEF Kept, DiskTyped, ThreadsTyped
<1>4. prompt \in [Turns -> Keys] /\ memory \in [Turns \X Keys -> 0 .. MaxServed]
  BY <1>1 DEF Kept, MemoryTyped
<1> QED
  BY <1>1, <1>2, <1>3, <1>4

\* The call that has ended: what it costs and whom it is for.
LEMMA AnswerFor ==
    ASSUME TypeInv, NEW t \in Turns, NEW kind, NEW id, Answering(t, kind, id), Answer(t)
    PROVE  /\ served'[id].turn = t /\ Priced(served'[id]) /\ kind \in Answers
           /\ kind \notin Succeeded => worker'[t].handler
           /\ \E e \in Entry : e = served'[id] /\ served' = Append(served, e)
<1>1. PICK kin \in Answers : Completes(t, kin) \/ Fails(t, kin)
  BY DEF Answer
<1>2. PICK cost \in Nat : /\ served' = Append(served, [turn |-> t, kind |-> kin, cost |-> cost])
                          /\ kin = "infra" => cost = 0
                          /\ kin # "infra" => cost \in Costs
  BY <1>1, BoundsAssumption DEF Completes, Fails
<1>3. PICK e \in Entry : e = [turn |-> t, kind |-> kin, cost |-> cost]
  BY DEF Entry
<1>4. e.turn = t /\ e.kind = kin /\ e.cost = cost
  BY <1>3
<1>5. served \in Seq(Entry)
  BY DEF TypeInv, TypeOK, Entry
<1>6. served'[id] = e
  BY <1>2, <1>3, <1>5 DEF Answering
<1>7. kind = kin
  BY <1>4, <1>6 DEF Answering
<1>8. kind \notin Succeeded => worker'[t].handler
  <2>1. worker \in [Turns -> Worker]
    BY DEF TypeInv, TypeOK
  <2> QED
    BY <1>1, <1>7, <2>1 DEF Completes, Fails, Succeeded, Worker
<1> QED
  BY <1>2, <1>3, <1>4, <1>6, <1>7, <1>8 DEF Priced

LEMMA OwnsByAnswer ==
    ASSUME OwnInv, NEW t \in Turns, Answer(t)
    PROVE  Owns(t)'
<1>1. PICK kind \in Answers, id \in Nat : Answering(t, kind, id)
  BY AnswerStep, OwnFacts
<1>2. /\ served'[id].turn = t /\ kind \in Answers
      /\ kind \notin Succeeded => worker'[t].handler
  BY <1>1, AnswerFor, OwnFacts
<1>3. /\ id \in DOMAIN served' /\ served'[id].kind = kind /\ worker[t].pc = "calling"
      /\ worker'[t].kind = kind /\ worker'[t].answer = id /\ prompt' = prompt
      /\ worker'[t].pc = IF kind \in Succeeded THEN "answered" ELSE "raised"
      /\ memory' = IF kind \in Succeeded THEN [memory EXCEPT ![<<t, prompt[t]>>] = id] ELSE memory
      /\ \A i \in DOMAIN served : i \in DOMAIN served' /\ served'[i] = served[i]
  BY <1>1 DEF Answering
<1>4. Busy(t)' /\ InHand(t)' = id /\ ~At(t, "calling")'
  BY <1>3 DEF Busy, At, InHand
<1>5. worker'[t].kind # "lost"
  BY <1>2, <1>3, AnswersAssumption
<1>6. kind \in Succeeded => Recalled(t)' = id
  BY <1>3, OwnFacts DEF Recalled
<1>7. kind \notin Succeeded => Recalled(t)' = NoAnswer
  <2>1. Recalled(t) = NoAnswer
    BY <1>3, OwnFacts DEF Owns, At
  <2> QED
    BY <1>3, <2>1 DEF Recalled
<1>8. ASSUME NEW k \in Keys, memory'[<<t, k>>] # NoAnswer
      PROVE  served'[memory'[<<t, k>>]].turn = t
  <2>1. CASE memory'[<<t, k>>] = id
    BY <1>2, <2>1
  <2>2. CASE memory'[<<t, k>>] = memory[<<t, k>>]
    BY <1>3, <1>8, <2>2, OwnFacts DEF Owns, Shape
  <2> QED
    BY <1>3, <2>1, <2>2, OwnFacts
<1> QED
  BY <1>2, <1>3, <1>4, <1>5, <1>6, <1>7, <1>8 DEF Owns, Failing

LEMMA OwnsByMemory ==
    ASSUME OwnInv, NEW t \in Turns, Remembered(t)
    PROVE  /\ Owns(t)' /\ Busy(t)' /\ worker'[t].kind \in Succeeded
           /\ worker'[t].pc = "answered" /\ worker'[t].answer = Recalled(t)
<1>1. /\ UNCHANGED <<memory, prompt, served>> /\ Recalled(t) # NoAnswer
      /\ worker' = [worker EXCEPT ![t].pc = "answered", ![t].answer = Recalled(t),
                                  ![t].kind = served[Recalled(t)].kind, ![t].left = @ - 1]
  BY DEF Remembered, Recalled
<1>2. /\ worker'[t].pc = "answered" /\ worker'[t].answer = Recalled(t)
      /\ worker'[t].kind = served[Recalled(t)].kind
  BY <1>1, OwnFacts DEF Worker
<1>3. Recalled(t) \in DOMAIN served /\ served[Recalled(t)].kind \in Succeeded
      /\ served[Recalled(t)].turn = t
  BY <1>1, OwnFacts DEF Shape, Owns, Recalled
<1>4. Busy(t)' /\ ~At(t, "calling")' /\ ~Failing(t)' /\ InHand(t)' = Recalled(t) /\ Recalled(t)' = Recalled(t)
  BY <1>1, <1>2, <1>3 DEF Busy, Failing, At, InHand, Recalled
<1>5. \A k \in Keys : memory'[<<t, k>>] # NoAnswer => served'[memory'[<<t, k>>]].turn = t
  BY <1>1, OwnFacts DEF Owns
<1> QED
  BY <1>1, <1>2, <1>3, <1>4, <1>5 DEF Owns

LEMMA OwnsByRaise ==
    ASSUME OwnInv, NEW t \in Turns, Raise(t), Busy(t), UNCHANGED <<served, memory, prompt>>,
           worker[t].kind \in Succeeded \cup {"lost"} \/ worker[t].handler
    PROVE  Owns(t)'
<1>1. CASE worker'[t].pc = "idle"
  BY <1>1, RaisesTo, OwnFacts, OwnsWhenIdle
<1>2. CASE worker'[t].pc # "idle"
  <2>1. /\ ~worker[t].handler /\ worker'[t].pc = "raised" /\ worker'[t].kind = "lost"
        /\ worker'[t].answer = worker[t].answer /\ worker'[t].handler
    BY <1>2, RaisesTo, OwnFacts
  <2>2. Busy(t)'
    BY <2>1 DEF Busy, At
  <2> QED
    BY <2>1, <2>2, OwnFacts, OwnsWhenGoing
<1> QED
  BY <1>1, <1>2

LEMMA WorkerOwns ==
    ASSUME OwnInv, NEW t \in Turns, Request(t) \/ Answer(t) \/ Record(t)
    PROVE  Owns(t)'
<1>1. CASE Replay(t)
  <2>1. PICK a : Finish(t, a, 0)
    BY <1>1 DEF Replay
  <2>2. worker'[t].pc = "idle" /\ worker'[t].answer = NoAnswer
    BY <2>1, Finishes, OwnFacts, BoundsAssumption
  <2> QED
    BY <1>1, <2>2, OwnFacts, OwnsWhenIdle DEF Replay
<1>2. CASE Ask(t)
  <2>1. worker[t].pc = "idle" /\ worker'[t].pc = "calling" /\ worker'[t].answer = worker[t].answer
        /\ UNCHANGED <<prompt, memory, served>>
    BY <1>2, AskStep, OwnFacts
  <2>2. Recalled(t) = NoAnswer
    BY <1>2 DEF Ask, Recalled
  <2>3. ~Busy(t) /\ ~Busy(t)' /\ InHand(t)' = InHand(t) /\ Recalled(t)' = NoAnswer
    BY <2>1, <2>2 DEF Busy, At, InHand, Recalled
  <2> QED
    BY <2>1, <2>3, OwnFacts DEF Owns, Failing
<1>3. CASE Archive(t)
  <2>1. UNCHANGED <<worker, prompt, memory, served>> /\ Busy(t)
    BY <1>3 DEF Archive, process, Recording, Busy, At
  <2>2. Busy(t)'
    BY <2>1 DEF Busy, At
  <2> QED
    BY <2>1, <2>2, OwnFacts, OwnsWhenGoing
<1>4. CASE Write(t) \/ Index(t) \/ Verify(t) \/ (Seal(t) /\ Whole(t))
  <2>1. UNCHANGED <<prompt, memory, served>> /\ Busy(t)
    BY <1>4 DEF Write, Index, Verify, Seal, Recording, Busy, At
  <2>2. PICK p \in {"sealing", "posting"} : worker' = [worker EXCEPT ![t].pc = p]
    BY <1>4 DEF Write, Index, Verify, Seal
  <2>3. p \in ControlPoints /\ ThreadsTyped
    BY OwnFacts DEF ControlPoints, Kept
  <2>4. /\ worker'[t].pc = p /\ worker'[t].kind = worker[t].kind
        /\ worker'[t].answer = worker[t].answer /\ worker'[t].handler = worker[t].handler
    BY <2>2, <2>3, Goes
  <2>5. Busy(t)'
    BY <2>4 DEF Busy, At
  <2> QED
    BY <2>1, <2>4, <2>5, OwnFacts, OwnsWhenGoing
<1>5. CASE (Seal(t) /\ ~Whole(t)) \/ Locked(t)
  <2>1. UNCHANGED <<prompt, memory, served>> /\ Busy(t) /\ Raise(t)
    BY <1>5 DEF Seal, Locked, Busy, At
  <2>2. worker[t].kind \in Succeeded \/ worker[t].handler
    BY <2>1, OwnFacts DEF Owns
  <2> QED
    BY <2>1, <2>2, OwnsByRaise
<1>6. CASE Charge(t)
  <2>2. worker'[t].pc = "idle" /\ worker'[t].answer = NoAnswer
    BY <1>6, ChargeEnds, OwnFacts
  <2> QED
    BY <1>6, <2>2, OwnFacts, OwnsWhenIdle DEF Charge
<1> QED
  BY <1>1, <1>2, <1>3, <1>4, <1>5, <1>6, OwnsByAnswer, OwnsByMemory DEF Request, Record

LEMMA PricesKept ==
    ASSUME OwnInv, NEW t \in Turns, Request(t) \/ Answer(t) \/ Record(t)
    PROVE  \A i \in DOMAIN served' : Priced(served'[i])
<1>1. CASE Answer(t)
  <2>1. PICK kind \in Answers, id \in Nat : Answering(t, kind, id)
    BY <1>1, AnswerStep, OwnFacts
  <2>2. Priced(served'[id])
    BY <1>1, <2>1, AnswerFor, OwnFacts
  <2>3. /\ id = Len(served) + 1 /\ Len(served') = id /\ served' \in Seq(Entry)
        /\ \A i \in DOMAIN served : served'[i] = served[i]
    BY <2>1 DEF Answering
  <2>4. \A i \in DOMAIN served' : i = id \/ i \in DOMAIN served
    BY <2>3, OwnFacts
  <2> QED
    BY <2>2, <2>3, <2>4 DEF OwnInv
<1>2. CASE ~Answer(t)
  <2>1. served' = served
    BY <1>2 DEF Request, Record, Replay, Remembered, Ask, Archive, Write, Index, Verify, Seal, Charge,
                Locked
  <2> QED
    BY <2>1 DEF OwnInv
<1> QED
  BY <1>1, <1>2

LEMMA OwnInvAtFirst == Init => OwnInv
<1> SUFFICES ASSUME Init PROVE OwnInv
  OBVIOUS
<1>1. TypeInv
  BY InitTypeInv
<1>2. \A t \in Turns : worker[t].pc = "idle" /\ worker[t].answer = NoAnswer
  BY IdleType, BoundsAssumption DEF Init
<1>3. \A i \in DOMAIN served : Priced(served[i])
  BY DEF Init
<1>4. ASSUME NEW t \in Turns  PROVE Owns(t)
  BY <1>2 DEF Init, Owns, Busy, Failing, At, InHand
<1> QED
  BY <1>1, <1>2, <1>3, <1>4 DEF OwnInv, At

LEMMA OwnInvStep == OwnInv /\ [Next]_vars => OwnInv'
<1> SUFFICES ASSUME OwnInv, [Next]_vars PROVE OwnInv'
  OBVIOUS
<1>1. TypeInv'
  BY SessionsKeepTypes, WorkersKeepTypes, StutterKeepsTypes DEF Next, OwnInv
<1>2. CASE UNCHANGED vars
  <2>1. UNCHANGED <<worker, prompt, memory, served, open>>
    BY <1>2 DEF vars, process
  <2> QED
    BY <1>1, <2>1 DEF OwnInv, Owns, Busy, Failing, At, InHand, Recalled
<1>3. CASE StartSession \/ Crash
  <2>1. PICK left \in 0 .. Retries + 1 : worker' = [t \in Turns |-> Idle(left)]
    BY <1>3, BoundsAssumption DEF StartSession, Crash
  <2>2. \A t \in Turns : worker'[t].pc = "idle" /\ worker'[t].answer = NoAnswer
    BY <2>1, Idles
  <2>3. served' = served
    BY <1>3 DEF StartSession, Crash
  <2>4. \A t \in Turns, k \in Keys : memory'[<<t, k>>] \in {NoAnswer, memory[<<t, k>>]}
    BY <1>3 DEF StartSession, Crash
  <2>5. \A t \in Turns : Owns(t)'
    BY <2>2, <2>3, <2>4, OwnsWhenIdle DEF OwnInv
  <2> QED
    BY <1>1, <2>2, <2>3, <2>5 DEF OwnInv, At
<1>4. CASE EndSession \/ Age
  <2>1. UNCHANGED <<worker, prompt, memory, served>> /\ (open' = open \/ \A t \in Turns : At(t, "idle"))
    BY <1>4 DEF EndSession, Age, process
  <2> QED
    BY <1>1, <2>1 DEF OwnInv, Owns, Busy, Failing, At, InHand, Recalled
<1>5. ASSUME NEW t \in Turns, Request(t) \/ Answer(t) \/ Record(t)  PROVE OwnInv'
  <2>1. \A u \in Turns : Owns(u)'
    BY <1>5, WorkerOwns, OwnTurn, OwnsOfOthers DEF OwnInv, TypeInv
  <2>2. open' /\ open
    <3>1. open
      BY <1>5 DEF Request, Record, Replay, Remembered, Ask, May, Answer, Archive, Write, Index, Verify,
                  Seal, Charge, Locked, Recording, At, OwnInv
    <3>2. open' = open
      BY <1>5 DEF Request, Record, Replay, Remembered, Ask, Answer, Archive, Write, Index, Verify,
                  Seal, Charge, Locked, process
    <3> QED
      BY <3>1, <3>2
  <2>3. \A i \in DOMAIN served' : Priced(served'[i])
    BY <1>5, PricesKept
  <2> QED
    BY <1>1, <2>1, <2>2, <2>3 DEF OwnInv
<1> QED
  BY <1>2, <1>3, <1>4, <1>5 DEF Next

THEOREM OwnInvariant == Spec => []OwnInv
BY OwnInvAtFirst, OwnInvStep, PTL DEF Spec

-----------------------------------------------------------------------------
(***************************************************************************)
(* What the ledger says is on the disk too.  A row holds tokens only when  *)
(* terminal evidence of its request exists, so no worker asks for it       *)
(* again: the row is final, its charge event is written with it, and both  *)
(* accounts grow by the same amount.  Needed for that: a failure that      *)
(* reports tokens says that it was charged.                                *)
(***************************************************************************)

ChargesDeclared == "partial" \notin Answers

Evidenced(t, k) == \E m \in Manifests(t) : Terminal(m) /\ m.key = k

RowsBacked ==
    \A t \in Turns, k \in Keys :
       /\ rows[<<t, k>>].tokens > 0 => Evidenced(t, k)
       /\ rows[<<t, k>>].state = "completed" => rows[<<t, k>>].tokens > 0
ChargesFollowRows ==
    /\ \A i \in DOMAIN charges : \E t \in Turns, k \in Keys :
          /\ rows[<<t, k>>].tokens > 0
          /\ charges[i].key = <<t, k, rows[<<t, k>>].tokens>>
    /\ Uncharged = {}
    /\ Sum(Deltas, Len(charges)) = total

Paid(t) ==
    /\ ~At(t, "idle") => rows[<<t, prompt[t]>>].tokens = 0
    /\ Underway(t) => ~Evidenced(t, prompt[t])
    /\ At(t, "posting") /\ worker[t].kind \notin {"lost", "infra"} => Terminal(base[t].manifest)

PaidInv == /\ OwnInv /\ RowsBacked /\ ChargesFollowRows
           /\ \A t \in Turns : Paid(t)

LEMMA PaidFacts ==
    ASSUME PaidInv, NEW t \in Turns
    PROVE  /\ OwnInv /\ TypeInv /\ Kept(t) /\ Shape(t) /\ Owns(t) /\ Paid(t) /\ LedgerTyped
           /\ RowsBacked /\ ChargesFollowRows
           /\ rows \in [Turns \X Keys -> [state: Status \cup {"none"}, tokens: Nat]]
           /\ prompt[t] \in Keys /\ rows[<<t, prompt[t]>>].tokens \in Nat
<1>1. OwnInv /\ Paid(t) /\ RowsBacked /\ ChargesFollowRows
  BY DEF PaidInv
<1>2. TypeInv /\ Kept(t) /\ Shape(t) /\ Owns(t) /\ prompt[t] \in Keys
  BY <1>1, OwnFacts
<1>3. LedgerTyped
  BY <1>2 DEF Kept
<1>4. rows \in [Turns \X Keys -> [state: Status \cup {"none"}, tokens: Nat]]
  BY <1>3 DEF LedgerTyped
<1>5. rows[<<t, prompt[t]>>].tokens \in Nat
  BY <1>2, <1>4
<1> QED
  BY <1>1, <1>2, <1>3, <1>4, <1>5

LEMMA EvidenceGrows ==
    ASSUME TypeInv, [Next]_vars, NEW t \in Turns, NEW k, Evidenced(t, k)
    PROVE  Evidenced(t, k)'
<1>1. TerminalManifests(t) \subseteq TerminalManifests(t)'
  BY KeepsEvidence
<1> QED
  BY <1>1 DEF Evidenced, TerminalManifests

LEMMA ActionOfNext ==
    ASSUME NEW t \in Turns, Request(t) \/ Answer(t) \/ Record(t)  PROVE Next
BY DEF Next

\* Nothing answers a request that is asked.
LEMMA NoEvidence ==
    ASSUME TypeInv, NEW t \in Turns, Retained(t, prompt[t]) = {}
    PROVE  ~Evidenced(t, prompt[t])
<1> SUFFICES ASSUME NEW m \in Manifests(t), Terminal(m), m.key = prompt[t]
             PROVE  FALSE
  BY DEF Evidenced
<1>1. PICK d \in Directories(t) : Sealed(d) /\ m = d.manifest
  BY DEF Manifests
<1>2. ~Exact(d, prompt[t])
  BY RetainedIsEvidence
<1> QED
  BY <1>1, <1>2 DEF Exact

LEMMA OwnRowEmpty ==
    ASSUME PaidInv, NEW t \in Turns, Request(t) \/ Answer(t) \/ Record(t), ~At(t, "idle")'
    PROVE  rows[<<t, prompt[t]>>].tokens = 0
<1>1. CASE Ask(t) \/ Remembered(t)
  <2>1. Retained(t, prompt[t]) = {}
    BY <1>1 DEF Ask, Remembered
  <2>2. ~Evidenced(t, prompt[t])
    BY <2>1, NoEvidence, PaidFacts
  <2> QED
    BY <2>2, PaidFacts DEF RowsBacked
<1>2. CASE Replay(t)
  <2>1. PICK a : Finish(t, a, 0)
    BY <1>2 DEF Replay
  <2>2. 0 \in 0 .. Retries + 1
    BY BoundsAssumption
  <2>3. worker'[t].pc = "idle"
    BY <2>1, <2>2, Finishes, PaidFacts
  <2> QED
    BY <2>3 DEF At
<1>3. CASE Answer(t) \/ Record(t)
  <2>1. ~At(t, "idle")
    BY <1>3 DEF Answer, Record, Archive, Write, Index, Verify, Seal, Charge, Locked, Recording, At
  <2> QED
    BY <2>1, PaidFacts DEF Paid
<1> QED
  BY <1>1, <1>2, <1>3 DEF Request

-----------------------------------------------------------------------------
(* What a record reports. *)

LEMMA ReportedIs ==
    ASSUME ChargesDeclared, PaidInv, NEW t \in Turns, At(t, "posting")
    PROVE  /\ Reported(t) \in Nat /\ Cost(InHand(t)) \in Nat
           /\ Reported(t) > 0 => Reported(t) \in Costs /\ Evidenced(t, prompt[t])
           /\ Content(t) # NoAnswer => Reported(t) > 0
           /\ worker[t].kind # "lost" => Reported(t) = served[InHand(t)].cost
<1>1. /\ InHand(t) \in DOMAIN served /\ InHand(t) # NoAnswer /\ Priced(served[InHand(t)])
      /\ Cost(InHand(t)) = served[InHand(t)].cost /\ served[InHand(t)].cost \in Nat
  <2>1. InHand(t) \in DOMAIN served
    BY PaidFacts DEF Owns, Busy, At
  <2>2. InHand(t) \in 1 .. MaxServed /\ served[InHand(t)].cost \in Nat
    BY <2>1, ServedFacts, PaidFacts DEF Kept, Ids
  <2>3. InHand(t) # NoAnswer
    BY <2>2, BoundsAssumption DEF NoAnswer
  <2> QED
    BY <2>1, <2>2, <2>3, PaidFacts DEF OwnInv, Cost
<1>2. worker[t].kind # "lost" => Reported(t) = served[InHand(t)].cost
  BY <1>1 DEF Reported
<1>3. worker[t].kind = "lost" => Reported(t) = 0 /\ Content(t) = NoAnswer
  BY DEF Reported, Content
<1>4. worker[t].kind # "lost" => served[InHand(t)].kind = worker[t].kind
  BY PaidFacts DEF Owns, Busy, At
<1>5. ASSUME Reported(t) > 0  PROVE Reported(t) \in Costs /\ Evidenced(t, prompt[t])
  <2>1. worker[t].kind # "lost" /\ worker[t].kind # "infra" /\ Reported(t) \in Costs
    BY <1>1, <1>2, <1>3, <1>4, <1>5 DEF Priced
  <2>2. Terminal(base[t].manifest) /\ base[t].manifest.key = prompt[t] /\ Sealed(base[t])
    BY <2>1, PaidFacts DEF Paid, Shape, Sealed
  <2>3. base[t].manifest \in Manifests(t)
    BY <2>2, ManifestIn
  <2> QED
    BY <2>1, <2>2, <2>3 DEF Evidenced
<1>6. ASSUME Content(t) # NoAnswer  PROVE Reported(t) > 0
  <2>1. worker[t].kind \in Succeeded
    BY <1>6 DEF Content, Succeeded
  <2>2. Reported(t) \in Costs
    BY <1>1, <1>2, <1>4, <2>1 DEF Priced, Succeeded
  <2>3. \A c \in Costs : c \in Nat /\ c # 0
    BY BoundsAssumption
  <2> QED
    BY <2>2, <2>3
<1> QED
  BY <1>1, <1>2, <1>3, <1>5, <1>6

\* A post pays what it reports in full: the row, the event and the total.
LEMMA ChargeStep ==
    ASSUME ChargesDeclared, PaidInv, NEW t \in Turns, Charge(t)
    PROVE  /\ \E state \in Status :
                 /\ rows' = [rows EXCEPT ![<<t, prompt[t]>>] = [state |-> state, tokens |-> Reported(t)]]
                 /\ state = "completed" => Reported(t) > 0
           /\ total' = total + Reported(t) /\ Reported(t) \in Nat
           /\ Reported(t) = 0 => charges' = charges
           /\ Reported(t) > 0 =>
                 charges' = Append(charges, [key |-> <<t, prompt[t], Reported(t)>>,
                                             delta |-> Reported(t)])
<1>1. PICK state \in Status : /\ state = IF Content(t) # NoAnswer THEN "completed" ELSE "failed"
                              /\ Post(t, prompt[t], state, Reported(t))
  BY DEF Charge, Status
<1>2. PICK n \in Nat : n = Reported(t)
  BY ReportedIs DEF Charge
<1>3. state = "completed" => n > 0
  BY <1>1, <1>2, ReportedIs DEF Charge
<1>4. rows[<<t, prompt[t]>>].tokens = 0
  BY PaidFacts DEF Paid, Charge, At
<1>5. rows[<<t, prompt[t]>>].state # "completed"
  BY <1>4, PaidFacts DEF RowsBacked
<1>6. TokenDelta(n, rows[<<t, prompt[t]>>].tokens) = n
  BY <1>4 DEF TokenDelta, Max0
<1>7. \A i \in DOMAIN charges : charges[i].key # <<t, prompt[t], n>>
  <2> SUFFICES ASSUME NEW i \in DOMAIN charges, charges[i].key = <<t, prompt[t], n>>
               PROVE  FALSE
    OBVIOUS
  <2>1. PICK u \in Turns, k \in Keys : /\ rows[<<u, k>>].tokens > 0
                                       /\ charges[i].key = <<u, k, rows[<<u, k>>].tokens>>
    BY PaidFacts DEF ChargesFollowRows
  <2>2. u = t /\ k = prompt[t]
    BY <2>1
  <2> QED
    BY <1>4, <2>1, <2>2
<1>8. /\ rows' = [rows EXCEPT ![<<t, prompt[t]>>] = [state |-> state, tokens |-> n]]
      /\ charges' = IF n > 0 THEN Append(charges, [key |-> <<t, prompt[t], n>>, delta |-> n]) ELSE charges
      /\ total' = total + n
  BY <1>1, <1>2, <1>5, <1>6, <1>7 DEF Post
<1>9. /\ rows' = [rows EXCEPT ![<<t, prompt[t]>>] = [state |-> state, tokens |-> Reported(t)]]
      /\ state = "completed" => Reported(t) > 0
  BY <1>2, <1>3, <1>8
<1>10. /\ Reported(t) = 0 => charges' = charges
       /\ Reported(t) > 0 =>
             charges' = Append(charges, [key |-> <<t, prompt[t], Reported(t)>>, delta |-> Reported(t)])
  BY <1>2, <1>8
<1> QED
  BY <1>2, <1>8, <1>9, <1>10

LEMMA DeltasAppended ==
    ASSUME LedgerTyped, NEW e, charges' = Append(charges, e)
    PROVE  Sum(Deltas, Len(charges))' = Sum(Deltas, Len(charges)) + e.delta
<1> DEFINE C == [key: Turns \X Keys \X Nat, delta: Nat \ {0}]
<1>1. charges \in Seq(C) /\ Len(charges) \in Nat
  BY DEF LedgerTyped
<1>2. PICK n \in Nat : n = Len(charges)
  BY <1>1
<1>3. /\ Len(charges') = n + 1 /\ DOMAIN charges = 1 .. n /\ DOMAIN charges' = 1 .. n + 1
      /\ charges'[n + 1] = e /\ \A i \in 1 .. n : charges'[i] = charges[i]
  BY <1>1, <1>2
<1>4. Deltas'[n + 1] = e.delta /\ \A i \in 1 .. n : Deltas'[i] = Deltas[i]
  BY <1>3 DEF Deltas
<1>5. Sum(Deltas', n + 1) = Sum(Deltas', n) + Deltas'[n + 1]
  BY SumStep
<1>6. Sum(Deltas', n) = Sum(Deltas, n)
  BY <1>4, SumSame
<1> QED
  BY <1>2, <1>3, <1>4, <1>5, <1>6

LEMMA BackfillsNothing ==
    ASSUME LedgerTyped, Uncharged = {}, Backfill
    PROVE  charges' = charges
<1>1. PICK s \in SetToSeqs(Uncharged) :
         charges' = charges \o [i \in 1 .. Len(s) |-> ChargeOf(s[i])]
  BY DEF Backfill
<1>2. Cardinality({}) = 0
  BY FS_EmptySet
<1>3. s \in [1 .. 0 -> {}]
  BY <1>2 DEF SetToSeqs
<1>4. Len(s) = 0
  BY <1>3
<1> DEFINE C == [key: Turns \X Keys \X Nat, delta: Nat \ {0}]
           more == [i \in 1 .. Len(s) |-> ChargeOf(s[i])]
<1>5. more \in Seq(C) /\ Len(more) = 0
  BY <1>4
<1>6. charges \in Seq(C)
  BY DEF LedgerTyped
<1> HIDE DEF more, C
<1>7. charges \o more = charges
  BY <1>5, <1>6
<1> QED
  BY <1>1, <1>7 DEF more

LEMMA LedgerRests ==
    ASSUME PaidInv, [Next]_vars, UNCHANGED <<rows, charges, total>>
    PROVE  RowsBacked' /\ ChargesFollowRows'
<1>1. ASSUME NEW t \in Turns, NEW k \in Keys
      PROVE  /\ rows'[<<t, k>>].tokens > 0 => Evidenced(t, k)'
             /\ rows'[<<t, k>>].state = "completed" => rows'[<<t, k>>].tokens > 0
  BY <1>1, EvidenceGrows DEF PaidInv, OwnInv, RowsBacked
<1>2. Uncharged' = Uncharged /\ Deltas' = Deltas
  BY DEF Uncharged, ChargeOf, Deltas
<1> QED
  BY <1>1, <1>2 DEF RowsBacked, ChargesFollowRows, PaidInv

LEMMA LedgerCharged ==
    ASSUME ChargesDeclared, PaidInv, NEW t \in Turns, Charge(t)
    PROVE  RowsBacked' /\ ChargesFollowRows'
<1>1. PICK state \in Status :
         /\ rows' = [rows EXCEPT ![<<t, prompt[t]>>] = [state |-> state, tokens |-> Reported(t)]]
         /\ state = "completed" => Reported(t) > 0
  BY ChargeStep
<1>2. /\ total' = total + Reported(t) /\ Reported(t) \in Nat
      /\ Reported(t) = 0 => charges' = charges
      /\ Reported(t) > 0 => charges' = Append(charges, [key |-> <<t, prompt[t], Reported(t)>>,
                                                        delta |-> Reported(t)])
  BY ChargeStep
<1>3. /\ <<t, prompt[t]>> \in Turns \X Keys
      /\ rows'[<<t, prompt[t]>>].tokens = Reported(t) /\ rows'[<<t, prompt[t]>>].state = state
      /\ rows[<<t, prompt[t]>>].tokens = 0
      /\ \A p \in Turns \X Keys : p # <<t, prompt[t]>> => rows'[p] = rows[p]
  <2>1. At(t, "posting") /\ ~At(t, "idle")
    BY DEF Charge, At
  <2> QED
    BY <1>1, <2>1, PaidFacts DEF Paid
<1>4. Next /\ TypeInv /\ LedgerTyped
  BY ActionOfNext, PaidFacts DEF Record
<1>5. ASSUME NEW u \in Turns, NEW k \in Keys
      PROVE  /\ rows'[<<u, k>>].tokens > 0 => Evidenced(u, k)'
             /\ rows'[<<u, k>>].state = "completed" => rows'[<<u, k>>].tokens > 0
  <2>1. CASE <<u, k>> = <<t, prompt[t]>>
    <3>1. u = t /\ k = prompt[t]
      BY <2>1
    <3>2. Reported(t) > 0 => Evidenced(t, prompt[t])
      BY ReportedIs DEF Charge
    <3> QED
      BY <1>1, <1>3, <1>4, <3>1, <3>2, EvidenceGrows
  <2>2. CASE <<u, k>> # <<t, prompt[t]>>
    <3>1. rows'[<<u, k>>] = rows[<<u, k>>]
      BY <1>3, <2>2
    <3> QED
      BY <1>4, <3>1, EvidenceGrows DEF PaidInv, RowsBacked
  <2> QED
    BY <2>1, <2>2
<1> DEFINE C == [key: Turns \X Keys \X Nat, delta: Nat \ {0}]
<1>6. charges \in Seq(C) /\ Len(charges) \in Nat /\ total \in Nat
  BY <1>4 DEF LedgerTyped
<1>7. /\ \A i \in DOMAIN charges : i \in DOMAIN charges' /\ charges'[i] = charges[i]
      /\ \A i \in DOMAIN charges' :
            \/ i \in DOMAIN charges
            \/ Reported(t) > 0 /\ charges'[i].key = <<t, prompt[t], Reported(t)>>
      /\ Reported(t) > 0 => \E i \in DOMAIN charges' :
                               charges'[i].key = <<t, prompt[t], Reported(t)>>
  <2>1. CASE Reported(t) = 0
    BY <1>2, <2>1
  <2>2. ASSUME NEW e, e = [key |-> <<t, prompt[t], Reported(t)>>, delta |-> Reported(t)],
               charges' = Append(charges, e), Reported(t) > 0
        PROVE  <1>7!:
    <3>1. e.key = <<t, prompt[t], Reported(t)>>
      BY <2>2
    <3>2. PICK n \in Nat : n = Len(charges)
      BY <1>6
    <3>3. /\ DOMAIN charges = 1 .. n /\ DOMAIN charges' = 1 .. n + 1
          /\ charges'[n + 1] = e /\ \A i \in 1 .. n : charges'[i] = charges[i]
      BY <1>6, <2>2, <3>2
    <3> QED
      BY <2>2, <3>1, <3>3
  <2> QED
    BY <1>2, <2>1, <2>2
<1>8. ASSUME NEW i \in DOMAIN charges'
      PROVE  \E u \in Turns, k \in Keys :
                /\ rows'[<<u, k>>].tokens > 0
                /\ charges'[i].key = <<u, k, rows'[<<u, k>>].tokens>>
  <2>1. CASE i \in DOMAIN charges
    <3>1. PICK u \in Turns, k \in Keys : /\ rows[<<u, k>>].tokens > 0
                                         /\ charges[i].key = <<u, k, rows[<<u, k>>].tokens>>
      BY <2>1, PaidFacts DEF ChargesFollowRows
    <3>2. rows'[<<u, k>>] = rows[<<u, k>>]
      BY <1>3, <3>1
    <3> QED
      BY <1>7, <2>1, <3>1, <3>2
  <2>2. CASE i \notin DOMAIN charges
    BY <1>3, <1>7, <2>2
  <2> QED
    BY <2>1, <2>2
<1>9. Uncharged' = {}
  <2> SUFFICES ASSUME NEW p \in Turns \X Keys, rows'[p].tokens > 0
               PROVE  \E i \in DOMAIN charges' : charges'[i].key = <<p[1], p[2], rows'[p].tokens>>
    BY DEF Uncharged, ChargeOf
  <2>1. CASE p = <<t, prompt[t]>>
    BY <1>3, <1>7, <2>1
  <2>2. CASE p # <<t, prompt[t]>>
    <3>1. rows'[p] = rows[p]
      BY <1>3, <2>2
    <3>2. p \notin Uncharged
      BY PaidFacts DEF ChargesFollowRows
    <3>3. PICK i \in DOMAIN charges : charges[i].key = <<p[1], p[2], rows[p].tokens>>
      BY <3>1, <3>2 DEF Uncharged, ChargeOf
    <3> QED
      BY <1>7, <3>1, <3>3
  <2> QED
    BY <2>1, <2>2
<1>10. Sum(Deltas, Len(charges))' = total'
  <2>1. CASE Reported(t) = 0
    <3>1. Deltas' = Deltas /\ charges' = charges
      BY <1>2, <2>1 DEF Deltas
    <3>2. total' = total
      BY <1>2, <1>6, <2>1
    <3> QED
      BY <3>1, <3>2, PaidFacts DEF ChargesFollowRows
  <2>2. CASE Reported(t) > 0
    <3>1. PICK e : /\ e = [key |-> <<t, prompt[t], Reported(t)>>, delta |-> Reported(t)]
                   /\ charges' = Append(charges, e)
      BY <1>2, <2>2
    <3>2. e.delta = Reported(t)
      BY <3>1
    <3>3. Sum(Deltas, Len(charges))' = Sum(Deltas, Len(charges)) + e.delta
      BY <3>1, DeltasAppended, PaidFacts
    <3> QED
      BY <1>2, <3>2, <3>3, PaidFacts DEF ChargesFollowRows
  <2> QED
    BY <1>2, <2>1, <2>2
<1> QED
  BY <1>5, <1>8, <1>9, <1>10 DEF RowsBacked, ChargesFollowRows

LEMMA OthersKeepPaid ==
    ASSUME PaidInv, NEW t \in Turns, Request(t) \/ Answer(t) \/ Record(t), NEW u \in Turns, u # t
    PROVE  Paid(u)'
<1>1. /\ Manifests(u)' = Manifests(u) /\ worker'[u] = worker[u] /\ prompt'[u] = prompt[u]
      /\ base'[u] = base[u]
  BY OthersManifests, OwnTurn, PaidFacts DEF Local, TypeInv
<1>2. rows'[<<u, prompt[u]>>] = rows[<<u, prompt[u]>>]
  <2>1. CASE Charge(t)
    <3>1. \E r : rows' = [rows EXCEPT ![<<t, prompt[t]>>] = r] \/ rows' = rows
      BY <2>1 DEF Charge, Post, ledger
    <3> QED
      BY <3>1, PaidFacts
  <2>2. CASE ~Charge(t)
    BY <2>2 DEF Request, Record, Replay, Remembered, Ask, Answer, Archive, Write, Index, Verify, Seal,
                Locked, ledger
  <2> QED
    BY <2>1, <2>2
<1> QED
  BY <1>1, <1>2, PaidFacts DEF Paid, At, Underway, Evidenced

\* A directory is sealed with evidence a charged answer can be posted from.
LEMMA SealsEvidence ==
    ASSUME ChargesDeclared, PaidInv, NEW t \in Turns, Seal(t), Whole(t),
           worker[t].kind \notin {"lost", "infra"}
    PROVE  Terminal(NewManifest(t))
<1>1. worker[t].kind \in {"done", "charged"}
  BY AnswersAssumption, PaidFacts, OwnFacts DEF Whole, Worker, ChargesDeclared
<1>2. CASE worker[t].kind = "done"
  <2>1. Content(t) # NoAnswer
    BY <1>2, InHandReal, PaidFacts DEF Succeeded
  <2> QED
    BY <2>1 DEF NewManifest, Terminal
<1>3. CASE worker[t].kind = "charged"
  <2>1. NewManifest(t).complete /\ NewManifest(t).charged
    BY <1>3 DEF NewManifest
  <2> QED
    BY <2>1 DEF Terminal
<1> QED
  BY <1>1, <1>2, <1>3

LEMMA WorkerKeepsPaid ==
    ASSUME ChargesDeclared, PaidInv, NEW t \in Turns, Request(t) \/ Answer(t) \/ Record(t)
    PROVE  Paid(t)'
<1>1. prompt'[t] = prompt[t]
  BY OwnTurn, PaidFacts DEF Local, TypeInv
<1>2. ASSUME ~At(t, "idle")'  PROVE rows'[<<t, prompt'[t]>>].tokens = 0
  <2>1. rows[<<t, prompt[t]>>].tokens = 0
    BY <1>2, OwnRowEmpty
  <2>2. CASE Charge(t)
    <3>1. At(t, "idle")'
      BY <2>2, ChargeEnds, PaidFacts DEF At
    <3> QED
      BY <1>2, <3>1
  <2>3. CASE ~Charge(t)
    <3>1. rows' = rows
      BY <2>3 DEF Request, Record, Replay, Remembered, Ask, Answer, Archive, Write, Index, Verify, Seal,
                  Locked, ledger
    <3> QED
      BY <1>1, <2>1, <3>1
  <2> QED
    BY <2>2, <2>3
<1>3. ASSUME Underway(t)'  PROVE ~Evidenced(t, prompt[t])'
  <2>1. ~Seal(t) /\ (Underway(t) \/ Retained(t, prompt[t]) = {})
    BY <1>3, UnderwaySince, PaidFacts
  <2>2. ~Evidenced(t, prompt[t])
    BY <2>1, NoEvidence, PaidFacts DEF Paid
  <2>3. \A m \in Manifests(t)' : m \in Manifests(t)
    BY <2>1, ManifestSteps, PaidFacts
  <2> QED
    BY <1>1, <2>2, <2>3 DEF Evidenced
<1>4. ASSUME At(t, "posting")', worker'[t].kind \notin {"lost", "infra"}
      PROVE  Terminal(base'[t].manifest)
  <2>1. CASE Seal(t) /\ Whole(t)
    <3>1. worker'[t].kind = worker[t].kind
      BY <2>1, Goes, PaidFacts DEF Seal, Kept, ControlPoints
    <3>2. base'[t].manifest = NewManifest(t)
      BY <2>1, SealedDirectory, PaidFacts
    <3> QED
      BY <1>4, <2>1, <3>1, <3>2, SealsEvidence
  <2>2. CASE Verify(t)
    BY <2>2 DEF Verify, disk
  <2>3. CASE ~Verify(t) /\ ~(Seal(t) /\ Whole(t))
    <3>1. worker'[t].pc # "posting"
      <4>1. CASE Replay(t) \/ Charge(t)
        <5>1. PICK a, left : Finish(t, a, left)
          BY <4>1 DEF Replay, Charge
        <5>2. worker'[t] = Idle(left)
          BY <5>1, PaidFacts, OwnFacts DEF Finish
        <5> QED
          BY <5>2 DEF Idle
      <4>2. CASE Remembered(t)
        BY <4>2, OwnsByMemory, PaidFacts
      <4>3. CASE Ask(t)
        BY <4>3, AskStep, PaidFacts
      <4>4. CASE Answer(t)
        <5>1. PICK kind \in Answers, id \in Nat : Answering(t, kind, id)
          BY <4>4, AnswerStep, PaidFacts
        <5> QED
          BY <5>1 DEF Answering
      <4>5. CASE Archive(t)
        BY <4>5 DEF Archive, process, Recording, At
      <4>6. CASE Write(t) \/ Index(t)
        BY <4>6, Goes, PaidFacts DEF Write, Index, Kept, ControlPoints
      <4>7. CASE (Seal(t) /\ ~Whole(t)) \/ Locked(t)
        BY <4>7, RaisesTo, PaidFacts DEF Seal, Locked
      <4> QED
        BY <2>3, <4>1, <4>2, <4>3, <4>4, <4>5, <4>6, <4>7 DEF Request, Record
    <3> QED
      BY <1>4, <3>1 DEF At
  <2> QED
    BY <2>1, <2>2, <2>3
<1> QED
  BY <1>2, <1>3, <1>4 DEF Paid

LEMMA SessionsKeepPaid ==
    ASSUME PaidInv, StartSession \/ EndSession \/ Crash \/ Age \/ UNCHANGED vars, NEW t \in Turns
    PROVE  Paid(t)' /\ UNCHANGED <<rows, charges, total>>
<1>1. Manifests(t)' = Manifests(t)
  BY SessionsManifests
<1>2. UNCHANGED <<rows, charges, total>>
  BY BackfillsNothing, PaidFacts DEF StartSession, EndSession, Crash, Age, vars, ledger, ChargesFollowRows
<1>3. CASE StartSession \/ Crash
  <2>1. PICK left \in 0 .. Retries + 1 : worker' = [u \in Turns |-> Idle(left)]
    BY <1>3, BoundsAssumption DEF StartSession, Crash
  <2>2. worker'[t].pc = "idle"
    BY <2>1, Idles
  <2> QED
    BY <1>2, <2>2 DEF Paid, At, Underway
<1>4. CASE EndSession \/ Age \/ UNCHANGED vars
  <2>1. UNCHANGED <<worker, prompt, base>>
    BY <1>4 DEF EndSession, Age, vars, disk, process
  <2> QED
    BY <1>1, <1>2, <2>1, PaidFacts DEF Paid, At, Underway, Evidenced
<1> QED
  BY <1>2, <1>3, <1>4

LEMMA PaidInvAtFirst == Init => PaidInv
<1> SUFFICES ASSUME Init PROVE PaidInv
  OBVIOUS
<1>1. OwnInv
  BY OwnInvAtFirst
<1>2. \A p \in Turns \X Keys : rows[p].tokens = 0 /\ rows[p].state = "none"
  BY DEF Init
<1>3. RowsBacked
  BY <1>2 DEF RowsBacked
<1>4. charges = <<>> /\ total = 0 /\ Len(charges) = 0
  BY DEF Init
<1>5. ChargesFollowRows
  BY <1>2, <1>4, SumEmpty DEF ChargesFollowRows, Uncharged
<1>6. ASSUME NEW t \in Turns  PROVE Paid(t)
  <2>1. worker[t].pc = "idle"
    BY IdleType, BoundsAssumption DEF Init
  <2> QED
    BY <2>1 DEF Paid, At, Underway
<1> QED
  BY <1>1, <1>3, <1>5, <1>6 DEF PaidInv

LEMMA PaidInvStep == ChargesDeclared /\ PaidInv /\ [Next]_vars => PaidInv'
<1> SUFFICES ASSUME ChargesDeclared, PaidInv, [Next]_vars PROVE PaidInv'
  OBVIOUS
<1>1. OwnInv'
  BY OwnInvStep DEF PaidInv
<1>2. CASE StartSession \/ EndSession \/ Crash \/ Age \/ UNCHANGED vars
  <2>1. UNCHANGED <<rows, charges, total>>
    BY <1>2, BackfillsNothing DEF StartSession, EndSession, Crash, Age, vars, ledger, PaidInv,
          ChargesFollowRows, OwnInv, TypeInv, TypeOK, LedgerTyped
  <2> QED
    BY <1>1, <1>2, <2>1, LedgerRests, SessionsKeepPaid DEF PaidInv
<1>3. ASSUME NEW t \in Turns, Request(t) \/ Answer(t) \/ Record(t)  PROVE PaidInv'
  <2>1. \A u \in Turns : Paid(u)'
    BY <1>3, WorkerKeepsPaid, OthersKeepPaid
  <2>2. RowsBacked' /\ ChargesFollowRows'
    <3>1. CASE Charge(t)
      BY <3>1, LedgerCharged
    <3>2. CASE ~Charge(t)
      <4>1. UNCHANGED <<rows, charges, total>>
        BY <1>3, <3>2 DEF Request, Record, Replay, Remembered, Ask, Answer, Archive, Write, Index,
              Verify, Seal, Locked, ledger
      <4> QED
        BY <4>1, LedgerRests
    <3> QED
      BY <3>1, <3>2
  <2> QED
    BY <1>1, <2>1, <2>2 DEF PaidInv
<1> QED
  BY <1>2, <1>3 DEF Next

\* A row with tokens is final and has its event; both accounts agree.
THEOREM PaidInvariant == ChargesDeclared => (Spec => []PaidInv)
<1> SUFFICES ASSUME ChargesDeclared PROVE Spec => []PaidInv
  OBVIOUS
<1>1. PaidInv /\ [Next]_vars => PaidInv'
  BY PaidInvStep
<1> QED
  BY <1>1, PaidInvAtFirst, PTL DEF Spec

-----------------------------------------------------------------------------
(***************************************************************************)
(* The hourly window.  A worker asks when the window is below the limit,   *)
(* so what the window holds beyond it was charged by workers that had      *)
(* asked before: each of them can add one answer.                          *)
(***************************************************************************)

Free == {t \in Turns : At(t, "idle")}
Dearest(most) == most \in Costs /\ \A c \in Costs : c <= most
Room == \A most \in Costs : Dearest(most) => WindowUse <= HourlyLimit - 1 + Cardinality(Free) * most
RoomInv == PaidInv /\ Room

LEMMA Products ==
    ASSUME NEW n \in Nat, NEW m \in Nat, n <= m, NEW c \in Nat
    PROVE  n * c \in Nat /\ n * c <= m * c /\ (n + 1) * c = n * c + c
OBVIOUS

LEMMA FreeCount ==
    /\ IsFiniteSet(Free) /\ Cardinality(Free) \in Nat
    /\ IsFiniteSet(Free') /\ Cardinality(Free') \in Nat
    /\ Cardinality(Turns) \in Nat /\ Cardinality(Free) <= Cardinality(Turns)
    /\ Free \subseteq Free' => Cardinality(Free) <= Cardinality(Free')
<1>1. IsFiniteSet(Turns) /\ Free \subseteq Turns /\ Free' \subseteq Turns
  BY BoundsAssumption DEF Free
<1> QED
  BY <1>1, FS_Subset, FS_CardinalityType

LEMMA WindowTerms ==
    ASSUME LedgerTyped
    PROVE  /\ Len(charges) \in Nat /\ aged \in Nat /\ aged <= Len(charges)
           /\ DOMAIN charges = 1 .. Len(charges)
           /\ \A i \in 1 .. Len(charges) : charges[i].delta \in Nat /\ InHour[i] \in Nat
           /\ WindowUse \in Nat
<1> DEFINE C == [key: Turns \X Keys \X Nat, delta: Nat \ {0}]
<1>1. charges \in Seq(C) /\ aged \in 0 .. Len(charges)
  BY DEF LedgerTyped
<1>2. Len(charges) \in Nat /\ DOMAIN charges = 1 .. Len(charges)
  BY <1>1
<1>3. \A i \in 1 .. Len(charges) : charges[i] \in C
  <2> HIDE DEF C
  <2> QED
    BY <1>1, <1>2
<1>4. \A i \in 1 .. Len(charges) : charges[i].delta \in Nat
  BY <1>3
<1>5. \A i \in 1 .. Len(charges) : InHour[i] \in Nat
  BY <1>2, <1>4 DEF InHour
<1>6. WindowUse \in Nat
  BY <1>2, <1>5, SumNat DEF WindowUse
<1>7. aged \in Nat /\ aged <= Len(charges)
  <2> HIDE DEF C
  <2>1. PICK n \in Nat : n = Len(charges) /\ aged \in 0 .. n
    BY <1>1, <1>2
  <2> QED
    BY <2>1
<1> HIDE DEF C
<1> QED
  BY <1>2, <1>4, <1>5, <1>6, <1>7

LEMMA WindowType == LedgerTyped => WindowUse \in Nat
BY WindowTerms

LEMMA WindowAppended ==
    ASSUME LedgerTyped, aged' = aged, NEW e, charges' = Append(charges, e)
    PROVE  WindowUse' = WindowUse + e.delta
<1> DEFINE C == [key: Turns \X Keys \X Nat, delta: Nat \ {0}]
<1>1. charges \in Seq(C)
  BY DEF LedgerTyped
<1>2. PICK n \in Nat : n = Len(charges) /\ aged <= n /\ aged \in Nat
  BY WindowTerms
<1>3. /\ Len(charges') = n + 1 /\ DOMAIN charges = 1 .. n /\ DOMAIN charges' = 1 .. n + 1
      /\ charges'[n + 1] = e /\ \A i \in 1 .. n : charges'[i] = charges[i]
  BY <1>1, <1>2
<1>4. InHour'[n + 1] = e.delta /\ \A i \in 1 .. n : InHour'[i] = InHour[i]
  BY <1>2, <1>3 DEF InHour
<1>5. Sum(InHour', n + 1) = Sum(InHour', n) + InHour'[n + 1]
  BY SumStep
<1>6. Sum(InHour', n) = Sum(InHour, n)
  BY <1>4, SumSame
<1> QED
  BY <1>2, <1>3, <1>4, <1>5, <1>6 DEF WindowUse

LEMMA WindowAges ==
    ASSUME LedgerTyped, Age
    PROVE  WindowUse' <= WindowUse
<1>1. PICK n \in Nat : n = Len(charges) /\ DOMAIN charges = 1 .. n
  BY WindowTerms
<1>2. charges' = charges /\ aged' = aged + 1 /\ aged \in Nat /\ aged < n
  BY <1>1, WindowTerms DEF Age, ledger
<1>3. PICK j \in 1 .. n : j = aged + 1
  BY <1>1, <1>2
<1>4. PICK d \in Nat : d = charges[j].delta
  BY <1>1, WindowTerms
<1>5. \A i \in 1 .. n : i # j => InHour'[i] = InHour[i]
  BY <1>1, <1>2, <1>3 DEF InHour
<1>6. InHour[j] = d /\ InHour'[j] = 0
  BY <1>1, <1>2, <1>3, <1>4 DEF InHour
<1>7. \A i \in 1 .. n : InHour[i] \in Nat /\ InHour'[i] \in Nat
  BY <1>1, <1>5, <1>6, WindowTerms
<1>8. InHour'[j] = InHour[j] + (0 - d)
  BY <1>6
<1>9. Sum(InHour', n) = Sum(InHour, n) + (0 - d)
  BY <1>5, <1>7, <1>8, SumChange
<1>10. Sum(InHour, n) \in Nat
  BY <1>7, SumNat
<1>11. WindowUse = Sum(InHour, n) /\ WindowUse' = Sum(InHour', n)
  BY <1>1, <1>2 DEF WindowUse
<1> QED
  BY <1>9, <1>10, <1>11

LEMMA WindowRests ==
    ASSUME UNCHANGED <<charges, aged>>  PROVE WindowUse' = WindowUse
BY DEF WindowUse, InHour

\* Room is kept when the window does not grow and no worker sets out.
LEMMA RoomStays ==
    ASSUME RoomInv, WindowUse' <= WindowUse, WindowUse \in Nat, WindowUse' \in Nat, Free \subseteq Free'
    PROVE  Room'
<1> SUFFICES ASSUME NEW most \in Costs, Dearest(most)
             PROVE  WindowUse' <= HourlyLimit - 1 + Cardinality(Free') * most
  BY DEF Room, Dearest
<1>1. PICK n \in Nat, m \in Nat, c \in Nat : n = Cardinality(Free) /\ m = Cardinality(Free') /\ c = most
  BY FreeCount, BoundsAssumption
<1>2. n <= m /\ n * c \in Nat /\ m * c \in Nat /\ n * c <= m * c
  BY <1>1, FreeCount, Products
<1>3. WindowUse <= HourlyLimit - 1 + n * c
  BY <1>1 DEF RoomInv, Room
<1>4. HourlyLimit \in Nat
  BY BoundsAssumption
<1>5. WindowUse' <= HourlyLimit - 1 + m * c
  BY <1>2, <1>3, <1>4
<1> QED
  BY <1>1, <1>5

LEMMA RoomByAsking ==
    ASSUME RoomInv, NEW t \in Turns, Ask(t) \/ Remembered(t)
    PROVE  Room'
<1> SUFFICES ASSUME NEW most \in Costs, Dearest(most)
             PROVE  WindowUse' <= HourlyLimit - 1 + Cardinality(Free') * most
  BY DEF Room, Dearest
<1>1. UNCHANGED <<charges, aged>> /\ ~(WindowUse >= HourlyLimit)
  BY DEF Ask, Remembered, ledger, HourlyReached
<1>2. WindowUse' = WindowUse /\ WindowUse \in Nat
  BY <1>1, WindowRests, WindowTerms, PaidFacts DEF RoomInv
<1>3. PICK m \in Nat, c \in Nat : m = Cardinality(Free') /\ c = most
  BY FreeCount, BoundsAssumption
<1>4. m * c \in Nat
  BY Products
<1>5. HourlyLimit \in Nat
  BY BoundsAssumption
<1>6. WindowUse' <= HourlyLimit - 1 + m * c
  BY <1>1, <1>2, <1>4, <1>5
<1> QED
  BY <1>3, <1>6

LEMMA RoomByCharge ==
    ASSUME ChargesDeclared, RoomInv, NEW t \in Turns, Charge(t)
    PROVE  Room'
<1> SUFFICES ASSUME NEW most \in Costs, Dearest(most)
             PROVE  WindowUse' <= HourlyLimit - 1 + Cardinality(Free') * most
  BY DEF Room, Dearest
<1>1. PaidInv /\ LedgerTyped /\ TypeInv /\ At(t, "posting")
  BY PaidFacts DEF RoomInv, Charge
<1>2. PICK r \in Nat : /\ r = Reported(t)
                       /\ r > 0 => r <= most
                       /\ r = 0 => charges' = charges
                       /\ r > 0 => charges' = Append(charges, [key |-> <<t, prompt[t], r>>, delta |-> r])
  BY <1>1, ReportedIs, ChargeStep DEF Dearest
<1>3. aged' = aged /\ WindowUse \in Nat
  BY <1>1, WindowTerms DEF Charge
<1>4. WindowUse' = WindowUse + r
  <2>1. CASE r = 0
    <3>1. WindowUse' = WindowUse
      BY <1>2, <1>3, <2>1, WindowRests
    <3> QED
      BY <1>3, <2>1, <3>1
  <2>2. CASE r > 0
    <3>1. PICK e : e = [key |-> <<t, prompt[t], r>>, delta |-> r] /\ charges' = Append(charges, e)
      BY <1>2, <2>2
    <3>2. e.delta = r
      BY <3>1
    <3> QED
      BY <1>1, <1>3, <3>1, <3>2, WindowAppended
  <2> QED
    BY <2>1, <2>2
<1>5. Free' = Free \cup {t} /\ t \notin Free
  <2>1. worker'[t].pc = "idle"
    BY <1>1, ChargeEnds
  <2>2. \A u \in Turns : u # t => worker'[u] = worker[u]
    BY <1>1, OwnTurn DEF Record, Local, TypeInv
  <2> QED
    BY <1>1, <2>1, <2>2 DEF Free, At
<1>6. PICK n \in Nat, c \in Nat : n = Cardinality(Free) /\ c = most /\ Cardinality(Free') = n + 1
  BY <1>5, FreeCount, FS_AddElement, BoundsAssumption
<1>7. n * c \in Nat /\ (n + 1) * c = n * c + c
  BY Products
<1>8. WindowUse <= HourlyLimit - 1 + n * c
  BY <1>6 DEF RoomInv, Room
<1>9. HourlyLimit \in Nat /\ r <= c
  <2>1. HourlyLimit \in Nat
    BY BoundsAssumption
  <2> QED
    BY <1>2, <1>6, <2>1
<1>10. WindowUse' <= HourlyLimit - 1 + (n + 1) * c
  BY <1>3, <1>4, <1>7, <1>8, <1>9
<1> QED
  BY <1>6, <1>10

LEMMA RoomStep == ChargesDeclared /\ RoomInv /\ [Next]_vars => RoomInv'
<1> SUFFICES ASSUME ChargesDeclared, RoomInv, [Next]_vars PROVE RoomInv'
  OBVIOUS
<1>1. PaidInv /\ PaidInv' /\ LedgerTyped /\ LedgerTyped' /\ TypeInv /\ ChargesFollowRows
  BY PaidInvStep, TypeParts DEF RoomInv, PaidInv, OwnInv, TypeInv, TypeOK, LedgerTyped
<1>2. WindowUse \in Nat /\ WindowUse' \in Nat
  <2>1. (LedgerTyped => WindowUse \in Nat)'
    BY WindowType, PTL
  <2> QED
    BY <1>1, <2>1, WindowType
<1>3. ASSUME Free \subseteq Free', UNCHANGED <<charges, aged>>  PROVE Room'
  BY <1>2, <1>3, RoomStays, WindowRests
<1>4. CASE StartSession \/ Crash
  <2>1. PICK left \in 0 .. Retries + 1 : worker' = [t \in Turns |-> Idle(left)]
    BY <1>4, BoundsAssumption DEF StartSession, Crash
  <2>2. Free \subseteq Free'
    BY <2>1, Idles DEF Free, At
  <2>3. UNCHANGED <<charges, aged>>
    BY <1>1, <1>4, BackfillsNothing DEF StartSession, Crash, ledger, ChargesFollowRows
  <2> QED
    BY <1>1, <1>3, <2>2, <2>3 DEF RoomInv
<1>5. CASE EndSession \/ UNCHANGED vars
  <2>1. UNCHANGED <<worker, charges, aged>>
    BY <1>5 DEF EndSession, vars, ledger, process
  <2> QED
    BY <1>1, <1>3, <2>1 DEF RoomInv, Free, At
<1>6. CASE Age
  <2>1. Free' = Free
    BY <1>6 DEF Age, process, Free, At
  <2> QED
    BY <1>1, <1>2, <1>6, <2>1, RoomStays, WindowAges DEF RoomInv
<1>7. ASSUME NEW t \in Turns, Request(t) \/ Answer(t) \/ Record(t)  PROVE RoomInv'
  <2>1. CASE Ask(t) \/ Remembered(t)
    BY <1>1, <2>1, RoomByAsking DEF RoomInv
  <2>2. CASE Charge(t)
    BY <1>1, <2>2, RoomByCharge DEF RoomInv
  <2>3. CASE ~(Ask(t) \/ Remembered(t) \/ Charge(t))
    <3>1. UNCHANGED <<charges, aged>>
      BY <1>7, <2>3 DEF Request, Record, Replay, Answer, Archive, Write, Index, Verify, Seal, Locked, ledger
    <3>2. At(t, "idle") => At(t, "idle")'
      <4>1. CASE Replay(t)
        <5>1. PICK a : Finish(t, a, 0)
          BY <4>1 DEF Replay
        <5>2. 0 \in 0 .. Retries + 1
          BY BoundsAssumption
        <5> QED
          BY <1>1, <5>1, <5>2, Finishes DEF At
      <4>2. CASE ~Replay(t)
        BY <1>7, <2>3, <4>2 DEF Request, Record, Answer, Archive, Write, Index, Verify, Seal, Locked,
              Recording, At
      <4> QED
        BY <4>1, <4>2
    <3>3. \A u \in Turns : u # t => worker'[u] = worker[u]
      BY <1>1, <1>7, OwnTurn DEF Local, TypeInv
    <3>4. Free \subseteq Free'
      BY <3>2, <3>3 DEF Free, At
    <3> QED
      BY <1>1, <1>3, <3>1, <3>4 DEF RoomInv
  <2> QED
    BY <2>1, <2>2, <2>3
<1> QED
  BY <1>4, <1>5, <1>6, <1>7 DEF Next

LEMMA RoomAtFirst == Init => RoomInv
<1> SUFFICES ASSUME Init PROVE RoomInv
  OBVIOUS
<1>1. charges = <<>> /\ Len(charges) = 0
  BY DEF Init
<1>2. WindowUse = 0
  BY <1>1, SumEmpty DEF WindowUse
<1> SUFFICES ASSUME NEW most \in Costs
             PROVE  WindowUse <= HourlyLimit - 1 + Cardinality(Free) * most
  BY PaidInvAtFirst DEF RoomInv, Room
<1>3. PICK n \in Nat, c \in Nat : n = Cardinality(Free) /\ c = most
  BY FreeCount, BoundsAssumption
<1>4. n * c \in Nat
  BY Products
<1>5. HourlyLimit \in Nat \ {0}
  BY BoundsAssumption
<1> QED
  BY <1>2, <1>3, <1>4, <1>5

\* The rolling hour exceeds its limit by at most one answer of each worker,
\* whatever the prices and however many workers (_hourly_limit_reached, _record).
THEOREM HourOvershoots == ChargesDeclared => (Spec => []OvershootBounded)
<1> SUFFICES ASSUME ChargesDeclared PROVE Spec => []OvershootBounded
  OBVIOUS
<1>1. RoomInv => OvershootBounded
  <2> SUFFICES ASSUME RoomInv, NEW most \in Costs, \A c \in Costs : c <= most
               PROVE  WindowUse <= HourlyLimit - 1 + Cardinality(Turns) * most
    BY DEF OvershootBounded
  <2>1. PICK n \in Nat, m \in Nat, c \in Nat :
           n = Cardinality(Free) /\ m = Cardinality(Turns) /\ c = most /\ n <= m
    BY FreeCount, BoundsAssumption
  <2>2. n * c \in Nat /\ m * c \in Nat /\ n * c <= m * c
    BY <2>1, Products
  <2>3. WindowUse <= HourlyLimit - 1 + n * c
    BY <2>1 DEF RoomInv, Room, Dearest
  <2>4. HourlyLimit \in Nat
    BY BoundsAssumption
  <2>5. WindowUse \in Nat
    BY WindowTerms DEF RoomInv, PaidInv, OwnInv, TypeInv, TypeOK, LedgerTyped
  <2>6. WindowUse <= HourlyLimit - 1 + m * c
    BY <2>2, <2>3, <2>4, <2>5
  <2> QED
    BY <2>1, <2>6
<1>2. RoomInv /\ [Next]_vars => RoomInv'
  BY RoomStep
<1> QED
  BY <1>1, <1>2, RoomAtFirst, PTL DEF Spec

-----------------------------------------------------------------------------
(***************************************************************************)
(* Where every token is.  An answer whose posting was lost may be recalled *)
(* from the memory of the provider and recorded again; it is never posted, *)
(* because what stopped its record the first time is still there: evidence *)
(* of the request, a file beyond its bound, or the source of another       *)
(* answer.                                                                 *)
(***************************************************************************)

Doomed(t, a) ==
    \/ Evidenced(t, prompt[t])
    \/ served[a].kind = "oversize"
    \/ /\ Exists(t)
       /\ Sealed(base[t]) => base[t].manifest.key = prompt[t]
       /\ base[t].oversize \/ base[t].source \notin {NoAnswer, a}

Owed(t) ==
    /\ open /\ Remembering(t) /\ (Recalled(t) \in unposted \/ worker[t].kind = "lost")
          => Doomed(t, Recalled(t))
    /\ At(t, "idle") /\ worker[t].left > 0 /\ Remembering(t) => Recalled(t) \in unposted
    /\ Failing(t) => InHand(t) \notin unposted
    /\ At(t, "posting") /\ worker[t].kind # "lost" => InHand(t) \notin unposted
    /\ At(t, "sealing") /\ worker[t].kind \in Succeeded => base[t].source # NoAnswer

TokenInv ==
    /\ PaidInv
    /\ unposted \subseteq DOMAIN served
    /\ \A t \in Turns : Owed(t)
    /\ Sum(Posted, Len(served)) = total

LEMMA OwedFacts ==
    ASSUME TokenInv, NEW t \in Turns
    PROVE  /\ PaidInv /\ OwnInv /\ TypeInv /\ Kept(t) /\ Shape(t) /\ Owns(t) /\ Paid(t) /\ Owed(t)
           /\ base[t] \in Directory /\ worker[t] \in Worker /\ prompt[t] \in Keys
           /\ base \in [Turns -> Directory] /\ worker \in [Turns -> Worker]
           /\ unposted \subseteq DOMAIN served
BY PaidFacts, OwnFacts DEF TokenInv

\* What the memory holds of this request.
LEMMA RecalledIs ==
    ASSUME TokenInv, NEW t \in Turns, Remembering(t)
    PROVE  /\ Recalled(t) \in DOMAIN served /\ served[Recalled(t)].turn = t
           /\ served[Recalled(t)].kind \in Succeeded /\ Cost(Recalled(t)) > 0
           /\ Cost(Recalled(t)) = served[Recalled(t)].cost
<1>1. /\ Recalled(t) \in DOMAIN served /\ served[Recalled(t)].turn = t
      /\ served[Recalled(t)].kind \in Succeeded /\ Recalled(t) # NoAnswer
  BY OwedFacts DEF Remembering, Recalled, Shape, Owns
<1>2. Priced(served[Recalled(t)])
  BY <1>1, OwedFacts DEF OwnInv
<1>3. served[Recalled(t)].cost \in Costs
  BY <1>1, <1>2 DEF Priced, Succeeded
<1>4. \A c \in Costs : c \in Nat /\ c > 0
  BY BoundsAssumption
<1> QED
  BY <1>1, <1>3, <1>4 DEF Cost

\* An answer is lost only when its worker goes idle.
LEMMA UnpostedSteps ==
    ASSUME TokenInv, NEW t \in Turns, Request(t) \/ Answer(t) \/ Record(t)
    PROVE  \/ unposted' = unposted
           \/ /\ Busy(t) /\ worker'[t].pc = "idle" /\ InHand(t) \in DOMAIN served
              /\ served[InHand(t)].turn = t
              /\ unposted' = unposted \cup {InHand(t)}
<1>1. CASE Seal(t) \/ Locked(t)
  <2>1. Busy(t) /\ (Raise(t) \/ unposted' = unposted)
    BY <1>1 DEF Seal, Locked, Busy, At
  <2> QED
    BY <2>1, RaisesTo, OwedFacts DEF Owns
<1>2. CASE Charge(t)
  <2>1. Busy(t) /\ worker'[t].pc = "idle"
    BY <1>2, ChargeEnds, OwedFacts DEF Charge, Busy, At
  <2> QED
    BY <1>2, <2>1, OwedFacts DEF Charge, Owns
<1>3. CASE ~(Seal(t) \/ Locked(t) \/ Charge(t))
  BY <1>3 DEF Request, Record, Replay, Remembered, Ask, Answer, Completes, Fails, Archive, Write, Index,
      Verify
<1> QED
  BY <1>1, <1>2, <1>3

LEMMA OwedOfOthers ==
    ASSUME TokenInv, NEW t \in Turns, Request(t) \/ Answer(t) \/ Record(t), open' = open,
           NEW u \in Turns, u # t
    PROVE  Owed(u)'
<1>1. /\ Local(t) /\ prompt[u] \in Keys
  BY OwnTurn, OwedFacts DEF TypeInv
<1>2. /\ base'[u] = base[u] /\ worker'[u] = worker[u] /\ prompt'[u] = prompt[u]
      /\ Recalled(u)' = Recalled(u) /\ InHand(u)' = InHand(u) /\ (Remembering(u)' <=> Remembering(u))
  BY <1>1 DEF Local, Recalled, InHand, Remembering
<1>3. \A i \in DOMAIN served : i \in DOMAIN served' /\ served'[i] = served[i]
  BY <1>1, HistoryGrows, OwedFacts DEF Local, TypeInv, TypeOK, Entry
<1>4. Manifests(u)' = Manifests(u)
  BY OthersManifests, OwedFacts
<1>5. \A a \in DOMAIN served : served[a].turn = u => (a \in unposted' <=> a \in unposted)
  BY UnpostedSteps
<1>6. Remembering(u) => /\ Recalled(u) \in DOMAIN served /\ served[Recalled(u)].turn = u
  BY RecalledIs
<1>7. Busy(u) => InHand(u) \in DOMAIN served /\ served[InHand(u)].turn = u
  BY OwedFacts DEF Owns
<1>8. Remembering(u) /\ Doomed(u, Recalled(u)) => Doomed(u, Recalled(u))'
  BY <1>2, <1>3, <1>4, <1>6 DEF Doomed, Evidenced, Exists, Sealed
<1>9. /\ open' /\ Remembering(u)' /\ (Recalled(u)' \in unposted' \/ worker'[u].kind = "lost")
             => Doomed(u, Recalled(u))'
      /\ At(u, "idle")' /\ worker'[u].left > 0 /\ Remembering(u)' => Recalled(u)' \in unposted'
  BY <1>2, <1>5, <1>6, <1>8, OwedFacts DEF Owed, At
<1>10. /\ Failing(u)' => InHand(u)' \notin unposted'
       /\ At(u, "posting")' /\ worker'[u].kind # "lost" => InHand(u)' \notin unposted'
       /\ At(u, "sealing")' /\ worker'[u].kind \in Succeeded => base'[u].source # NoAnswer
  BY <1>2, <1>5, <1>7, OwedFacts DEF Owed, At, Failing, Busy
<1> QED
  BY <1>9, <1>10 DEF Owed

LEMMA DoomedStays ==
    ASSUME TokenInv, NEW t \in Turns, Request(t) \/ Answer(t) \/ Record(t), prompt' = prompt,
           NEW a \in DOMAIN served, Doomed(t, a), served'[a] = served[a],
           base'[t] = base[t] \/ Archive(t) \/ Write(t) \/ Index(t) \/ Seal(t)
    PROVE  Doomed(t, a)'
<1>1. CASE Evidenced(t, prompt[t])
  BY <1>1, ActionOfNext, EvidenceGrows, OwedFacts DEF Doomed
<1>2. CASE served[a].kind = "oversize"
  BY <1>2 DEF Doomed
<1>3. CASE /\ Exists(t)
           /\ Sealed(base[t]) => base[t].manifest.key = prompt[t]
           /\ base[t].oversize \/ base[t].source \notin {NoAnswer, a}
  <2>1. CASE base'[t] = base[t]
    BY <1>3, <2>1 DEF Doomed, Exists, Sealed
  <2>2. CASE Archive(t) \/ Write(t)
    BY <1>3, <2>2 DEF Archive, Write
  <2>3. CASE Index(t)
    <3>1. /\ base'[t].manifest = NoManifest /\ base'[t].oversize = base[t].oversize
          /\ base'[t].source = IF base[t].source = NoAnswer THEN Content(t) ELSE base[t].source
          /\ base'[t].attempts = base[t].attempts
      BY <2>3, OwedFacts DEF Index, Directory
    <3>2. Exists(t)'
      BY <1>3, <3>1, OwedFacts DEF Exists, Shape, Absent
    <3> QED
      BY <1>3, <3>1, <3>2 DEF Doomed, Sealed
  <2>4. CASE Seal(t)
    <3>1. /\ base'[t].manifest = NewManifest(t) /\ NewManifest(t).key = prompt[t]
          /\ base'[t].source = base[t].source /\ base'[t].oversize = base[t].oversize
          /\ base'[t] # Absent
      BY <2>4, SealedDirectory, ManifestFacts, OwedFacts DEF Kept
    <3> QED
      BY <1>3, <3>1 DEF Doomed, Exists
  <2> QED
    BY <2>1, <2>2, <2>3, <2>4
<1> QED
  BY <1>1, <1>2, <1>3 DEF Doomed

\* The record raises: the answer is lost, or recorded again as lost.
LEMMA OwedByRaise ==
    ASSUME TokenInv, NEW t \in Turns, Raise(t), Busy(t), UNCHANGED <<memory, prompt, served>>,
           worker[t].kind \in Succeeded \cup {"lost"} => Doomed(t, Recalled(t))'
    PROVE  Owed(t)'
<1>1. Recalled(t)' = Recalled(t) /\ (Remembering(t)' <=> Remembering(t))
  BY DEF Recalled, Remembering
<1>2. Remembering(t) => worker[t].kind \in Succeeded \cup {"lost"}
  BY OwedFacts DEF Owns, Failing, Remembering, Recalled
<1>3. Remembering(t)' => Doomed(t, Recalled(t))'
  BY <1>1, <1>2
<1>4. CASE worker[t].handler
  <2>1. /\ worker'[t].pc = "idle"
        /\ unposted' = IF Cost(InHand(t)) > 0 THEN unposted \cup {InHand(t)} ELSE unposted
    BY <1>4, RaisesTo, OwedFacts
  <2>2. Remembering(t) => Recalled(t) \in unposted'
    BY <1>2, <2>1, RecalledIs, OwedFacts DEF Owns
  <2> QED
    BY <1>1, <1>3, <2>1, <2>2 DEF Owed, At, Failing, Busy
<1>5. CASE ~worker[t].handler
  <2>1. worker'[t].pc = "raised" /\ worker'[t].kind = "lost"
    BY <1>5, RaisesTo, OwedFacts
  <2> QED
    BY <1>3, <2>1 DEF Owed, At, Failing
<1> QED
  BY <1>4, <1>5

\* A worker that moves on with its answer.
LEMMA OwedWhenGoing ==
    ASSUME TokenInv, NEW t \in Turns, UNCHANGED <<memory, prompt, served, unposted, open>>,
           Busy(t), Busy(t)', worker'[t].kind = worker[t].kind, worker'[t].answer = worker[t].answer,
           Doomed(t, Recalled(t)) /\ Remembering(t) => Doomed(t, Recalled(t))',
           At(t, "posting")' /\ worker[t].kind # "lost" => InHand(t) \notin unposted,
           At(t, "sealing")' /\ worker[t].kind \in Succeeded => base'[t].source # NoAnswer
    PROVE  Owed(t)'
<1>1. Recalled(t)' = Recalled(t) /\ (Remembering(t)' <=> Remembering(t)) /\ InHand(t)' = InHand(t)
  BY DEF Recalled, Remembering, InHand
<1>2. /\ open' /\ Remembering(t)' /\ (Recalled(t)' \in unposted' \/ worker'[t].kind = "lost")
             => Doomed(t, Recalled(t))'
  BY <1>1, OwedFacts DEF Owed
<1>3. Failing(t)' => InHand(t)' \notin unposted'
  BY <1>1, OwedFacts DEF Owed, Failing
<1> QED
  BY <1>1, <1>2, <1>3 DEF Owed, Busy

LEMMA OwedByRequest ==
    ASSUME TokenInv, NEW t \in Turns, Request(t)
    PROVE  Owed(t)'
<1>0. UNCHANGED <<prompt, memory, open, served, unposted>> /\ open /\ At(t, "idle") /\ worker[t].left > 0
  BY DEF Request, Replay, Remembered, Ask, May
<1>1. Recalled(t)' = Recalled(t) /\ (Remembering(t)' <=> Remembering(t))
  BY <1>0 DEF Recalled, Remembering
<1>2. CASE Replay(t)
  <2>1. PICK a : Finish(t, a, 0)
    BY <1>2 DEF Replay
  <2>2. 0 \in 0 .. Retries + 1
    BY BoundsAssumption
  <2>3. worker'[t].pc = "idle" /\ worker'[t].left = 0 /\ worker'[t].kind = "infra"
    BY <2>1, <2>2, Finishes, OwedFacts
  <2>4. base'[t] = base[t] /\ Manifests(t)' = Manifests(t)
    BY <1>2 DEF Replay, disk, Manifests, Directories, Exists, Sealed
  <2>5. Doomed(t, Recalled(t)) => Doomed(t, Recalled(t))'
    BY <1>0, <1>1, <2>4 DEF Doomed, Evidenced, Exists, Sealed
  <2> QED
    BY <1>0, <1>1, <2>3, <2>5, OwedFacts DEF Owed, At, Failing, Busy
<1>3. CASE Remembered(t)
  <2>1. worker'[t].pc = "answered" /\ worker'[t].kind \in Succeeded
    BY <1>3, OwnsByMemory, OwedFacts
  <2>2. base'[t] = base[t] /\ Manifests(t)' = Manifests(t)
    BY <1>3 DEF Remembered, disk, Manifests, Directories, Exists, Sealed
  <2>3. Doomed(t, Recalled(t)) => Doomed(t, Recalled(t))'
    BY <1>0, <1>1, <2>2 DEF Doomed, Evidenced, Exists, Sealed
  <2>4. Remembering(t) /\ Recalled(t) \in unposted
    BY <1>0, <1>3, OwedFacts DEF Owed, Remembered, Remembering
  <2> QED
    BY <1>0, <1>1, <2>1, <2>3, <2>4, OwedFacts DEF Owed, At, Failing, Busy
<1>4. CASE Ask(t)
  <2>1. worker'[t].pc = "calling" /\ ~Remembering(t)
    BY <1>4, AskStep, OwedFacts DEF Ask, Remembering
  <2> QED
    BY <1>1, <2>1 DEF Owed, At, Failing, Busy
<1> QED
  BY <1>2, <1>3, <1>4 DEF Request

LEMMA OwedByAnswer ==
    ASSUME TokenInv, NEW t \in Turns, Answer(t)
    PROVE  /\ Owed(t)'
           /\ \E e \in Entry : served' = Append(served, e)
           /\ worker'[t].answer = Len(served) + 1 /\ worker'[t].pc # "idle"
           /\ unposted' = unposted
<1>1. PICK kind \in Answers, id \in Nat : Answering(t, kind, id)
  BY AnswerStep, OwedFacts
<1>2. \E e \in Entry : served' = Append(served, e)
  BY <1>1, AnswerFor, OwedFacts
<1>3. /\ id = Len(served) + 1 /\ unposted' = unposted /\ prompt' = prompt
      /\ worker[t].pc = "calling" /\ worker'[t].kind = kind /\ worker'[t].answer = id
      /\ worker'[t].pc = IF kind \in Succeeded THEN "answered" ELSE "raised"
      /\ memory' = IF kind \in Succeeded THEN [memory EXCEPT ![<<t, prompt[t]>>] = id] ELSE memory
  BY <1>1 DEF Answering
<1>4. id \notin unposted
  <2>1. served \in Seq(Entry) /\ Len(served) \in Nat
    BY OwedFacts, OwnFacts
  <2>2. id \notin DOMAIN served
    BY <1>3, <2>1
  <2> QED
    BY <2>2, OwedFacts
<1>5. kind # "lost"
  BY AnswersAssumption
<1>6. Recalled(t)' = IF kind \in Succeeded THEN id ELSE Recalled(t)
  BY <1>3, OwedFacts, OwnFacts DEF Recalled
<1>7. Recalled(t) = NoAnswer
  BY <1>3, OwedFacts DEF Owns, At
<1>8. Remembering(t)' => Recalled(t)' \notin unposted'
  BY <1>3, <1>4, <1>6, <1>7 DEF Remembering, Recalled
<1>9. InHand(t)' \notin unposted'
  BY <1>3, <1>4 DEF InHand
<1>10. Owed(t)'
  BY <1>3, <1>5, <1>8, <1>9 DEF Owed, At
<1> QED
  BY <1>2, <1>3, <1>10

LEMMA OwedByFiles ==
    ASSUME TokenInv, NEW t \in Turns, Archive(t) \/ Write(t) \/ Index(t) \/ Verify(t)
    PROVE  Owed(t)'
<1>1. UNCHANGED <<memory, prompt, served, unposted, open>> /\ Recording(t) /\ Busy(t)
  BY DEF Archive, Write, Index, Verify, process, Recording, Busy, At
<1>2. Remembering(t) => Recalled(t) \in DOMAIN served /\ served'[Recalled(t)] = served[Recalled(t)]
  BY <1>1, RecalledIs
<1>3. base'[t] = base[t] \/ Archive(t) \/ Write(t) \/ Index(t)
  BY DEF Verify, disk
<1>4. Recalled(t)' = Recalled(t)
  BY <1>1 DEF Recalled
<1>5. Remembering(t) /\ Doomed(t, Recalled(t)) => Doomed(t, Recalled(t))'
  <2> DEFINE a == Recalled(t)
  <2> SUFFICES ASSUME Remembering(t), Doomed(t, a)  PROVE Doomed(t, Recalled(t))'
    OBVIOUS
  <2>1. a \in DOMAIN served /\ served'[a] = served[a]
    BY <1>2
  <2>2. PICK b \in DOMAIN served : b = a
    BY <2>1
  <2> HIDE DEF a
  <2>3. Doomed(t, b)'
    BY <1>1, <1>3, <2>1, <2>2, DoomedStays DEF Record
  <2> QED
    BY <1>4, <2>2, <2>3 DEF a
<1>6. CASE Archive(t)
  <2>1. worker' = worker
    BY <1>6 DEF Archive, process
  <2>2. Busy(t)' /\ ~At(t, "posting")' /\ ~At(t, "sealing")'
    BY <1>1, <2>1 DEF Busy, Recording, At
  <2> QED
    BY <1>1, <1>5, <2>1, <2>2, OwedWhenGoing
<1>7. CASE Write(t) \/ Index(t)
  <2>1. worker' = [worker EXCEPT ![t].pc = "sealing"] /\ "sealing" \in ControlPoints
    BY <1>7 DEF Write, Index, ControlPoints
  <2>2. /\ worker'[t].pc = "sealing" /\ worker'[t].kind = worker[t].kind
        /\ worker'[t].answer = worker[t].answer
    BY <2>1, Goes, OwedFacts DEF Kept
  <2>3. worker[t].kind \in Succeeded => base'[t].source # NoAnswer
    <3>1. worker[t].kind \in Succeeded => Content(t) # NoAnswer
      BY InHandReal, OwedFacts
    <3>2. base'[t].source = Content(t) \/ (base[t].source # NoAnswer /\ base'[t].source = base[t].source)
      <4>1. CASE Write(t)
        BY <4>1, OwedFacts DEF Write, Absent
      <4>2. CASE Index(t)
        BY <4>2, OwedFacts DEF Index, Directory
      <4> QED
        BY <1>7, <4>1, <4>2
    <3> QED
      BY <3>1, <3>2
  <2>4. Busy(t)' /\ ~At(t, "posting")'
    BY <2>2 DEF Busy, At
  <2> QED
    BY <1>1, <1>5, <2>2, <2>3, <2>4, OwedWhenGoing
<1>8. CASE Verify(t)
  <2>1. worker' = [worker EXCEPT ![t].pc = "posting"] /\ "posting" \in ControlPoints
    BY <1>8 DEF Verify, ControlPoints
  <2>2. /\ worker'[t].pc = "posting" /\ worker'[t].kind = worker[t].kind
        /\ worker'[t].answer = worker[t].answer
    BY <2>1, Goes, OwedFacts DEF Kept
  <2>3. Evidenced(t, prompt[t])
    BY <1>8, ManifestIn DEF Verify, Evidenced
  <2>4. worker[t].kind = "lost"
    BY <1>1, <2>3, OwedFacts DEF Recording, At, Paid, Underway
  <2>5. Busy(t)' /\ ~At(t, "sealing")'
    BY <2>2 DEF Busy, At
  <2> QED
    BY <1>1, <1>5, <2>2, <2>4, <2>5, OwedWhenGoing
<1> QED
  BY <1>6, <1>7, <1>8

LEMMA OwedBySeal ==
    ASSUME TokenInv, NEW t \in Turns, Seal(t)
    PROVE  Owed(t)'
<1>1. UNCHANGED <<memory, prompt, served, open>> /\ Busy(t) /\ At(t, "sealing")
      /\ open
  <2>1. At(t, "sealing")
    BY DEF Seal
  <2> QED
    BY <2>1, OwedFacts DEF Seal, Busy, At, OwnInv
<1>2. Recalled(t)' = Recalled(t)
  BY <1>1 DEF Recalled
<1>3. Remembering(t) /\ Doomed(t, Recalled(t)) => Doomed(t, Recalled(t))'
  <2> DEFINE a == Recalled(t)
  <2> SUFFICES ASSUME Remembering(t), Doomed(t, a)  PROVE Doomed(t, Recalled(t))'
    OBVIOUS
  <2>1. PICK b \in DOMAIN served : b = a /\ served'[b] = served[b]
    BY <1>1, RecalledIs
  <2> HIDE DEF a
  <2>2. Doomed(t, b)'
    BY <1>1, <2>1, DoomedStays DEF Record
  <2> QED
    BY <1>2, <2>1, <2>2 DEF a
<1>4. worker[t].kind \in Succeeded =>
         /\ Recalled(t) = InHand(t) /\ Content(t) = InHand(t) /\ InHand(t) # NoAnswer
         /\ served[InHand(t)].kind = worker[t].kind /\ InHand(t) \in DOMAIN served
  BY <1>1, InHandReal, OwedFacts DEF Owns
<1>5. CASE Whole(t)
  <2>1. worker' = [worker EXCEPT ![t].pc = "posting"] /\ unposted' = unposted
        /\ "posting" \in ControlPoints
    BY <1>5 DEF Seal, ControlPoints
  <2>2. /\ worker'[t].pc = "posting" /\ worker'[t].kind = worker[t].kind
        /\ worker'[t].answer = worker[t].answer
    BY <2>1, Goes, OwedFacts DEF Kept
  <2>3. ASSUME worker[t].kind # "lost"  PROVE InHand(t) \notin unposted
    <3>1. CASE worker[t].kind \notin Succeeded
      BY <1>1, <2>3, <3>1, OwedFacts DEF Failing, Owed
    <3>2. CASE worker[t].kind \in Succeeded
      <4>1. ~Evidenced(t, prompt[t])
        BY <1>1, <2>3, OwedFacts DEF Paid, Underway, At
      <4>2. served[Recalled(t)].kind # "oversize" /\ ~base[t].oversize /\ base[t].source = Recalled(t)
        BY <1>4, <1>5, <3>2 DEF Whole
      <4>3. ~Doomed(t, Recalled(t))
        BY <4>1, <4>2 DEF Doomed
      <4>4. Remembering(t)
        BY <1>4, <3>2 DEF Remembering, Recalled
      <4> QED
        BY <1>1, <1>4, <3>2, <4>3, <4>4, OwedFacts DEF Owed
    <3> QED
      BY <3>1, <3>2
  <2>4. Busy(t)' /\ ~At(t, "sealing")'
    BY <2>2 DEF Busy, At
  <2> QED
    BY <1>1, <1>3, <2>1, <2>2, <2>3, <2>4, OwedWhenGoing
<1>6. CASE ~Whole(t)
  <2>1. Raise(t)
    BY <1>6 DEF Seal
  <2>2. ASSUME worker[t].kind \in Succeeded  PROVE Doomed(t, Recalled(t))
    <3>1. CASE worker[t].kind = "oversize"
      BY <1>4, <2>2, <3>1 DEF Doomed
    <3>2. CASE worker[t].kind # "oversize"
      <4>1. base[t].oversize \/ base[t].source # Recalled(t)
        BY <1>4, <1>6, <2>2, <3>2 DEF Whole
      <4>2. base[t].source # NoAnswer /\ Exists(t) /\ ~Sealed(base[t])
        BY <1>1, <2>2, OwedFacts DEF Owed, Shape
      <4> QED
        BY <4>1, <4>2 DEF Doomed
    <3> QED
      BY <3>1, <3>2
  <2>3. Remembering(t) <=> Recalled(t) # NoAnswer
    BY DEF Remembering, Recalled
  <2>4. worker[t].kind = "lost" => Recalled(t) = InHand(t) /\ InHand(t) \in DOMAIN served
    BY <1>1, OwedFacts DEF Owns
  <2>5. \A a \in DOMAIN served : a # NoAnswer
    BY ServedFacts, OwedFacts, BoundsAssumption DEF Kept, Ids, NoAnswer
  <2>6. worker[t].kind \in Succeeded \cup {"lost"} => Remembering(t) /\ Doomed(t, Recalled(t))
    BY <1>1, <1>4, <2>2, <2>3, <2>4, <2>5, OwedFacts DEF Owed
  <2> QED
    BY <1>1, <1>3, <2>1, <2>6, OwedByRaise
<1> QED
  BY <1>5, <1>6

LEMMA OwedByLocked ==
    ASSUME ChargesDeclared, TokenInv, NEW t \in Turns, Locked(t)
    PROVE  Owed(t)'
<1>1. /\ UNCHANGED <<memory, prompt, served, open, base, archived>> /\ Busy(t) /\ At(t, "posting")
      /\ Raise(t)
  BY DEF Locked, Busy, At, disk
<1>2. open
  BY <1>1, OwedFacts DEF OwnInv, Busy
<1>3. Recalled(t)' = Recalled(t)
  BY <1>1 DEF Recalled
<1>4. Doomed(t, Recalled(t)) => Doomed(t, Recalled(t))'
  BY <1>1, <1>3 DEF Doomed, Evidenced, Manifests, Directories, Exists, Sealed
<1>5. ASSUME worker[t].kind \in Succeeded  PROVE Doomed(t, Recalled(t))
  <2>1. Terminal(base[t].manifest) /\ Sealed(base[t]) /\ base[t].manifest.key = prompt[t]
    BY <1>1, <1>5, OwedFacts DEF Paid, Shape, Sealed, Succeeded
  <2> QED
    BY <2>1, ManifestIn DEF Doomed, Evidenced
<1>6. ASSUME worker[t].kind = "lost"  PROVE Doomed(t, Recalled(t))
  <2>1. Recalled(t) = InHand(t) /\ InHand(t) \in DOMAIN served
    BY <1>1, <1>6, OwedFacts DEF Owns
  <2>2. Remembering(t)
    BY <2>1, ServedFacts, OwedFacts, BoundsAssumption DEF Kept, Ids, NoAnswer, Remembering, Recalled
  <2> QED
    BY <1>2, <1>6, <2>2, OwedFacts DEF Owed
<1> QED
  BY <1>1, <1>4, <1>5, <1>6, OwedByRaise

LEMMA OwedByCharge ==
    ASSUME TokenInv, NEW t \in Turns, Charge(t)
    PROVE  Owed(t)'
<1>1. /\ UNCHANGED <<memory, prompt, served, open, base, archived>> /\ Busy(t) /\ At(t, "posting")
      /\ unposted' = IF worker[t].kind = "lost" /\ Cost(InHand(t)) > 0
                     THEN unposted \cup {InHand(t)} ELSE unposted
  BY DEF Charge, Busy, At, disk
<1>2. /\ worker'[t].pc = "idle" /\ worker'[t].kind = "infra"
      /\ worker'[t].left = IF Content(t) # NoAnswer \/ worker[t].kind = "charged" THEN 0
                           ELSE worker[t].left
  BY ChargeEnds, OwedFacts
<1>3. Recalled(t)' = Recalled(t) /\ (Remembering(t)' <=> Remembering(t))
  BY <1>1 DEF Recalled, Remembering
<1>4. Doomed(t, Recalled(t)) => Doomed(t, Recalled(t))'
  BY <1>1, <1>3 DEF Doomed, Evidenced, Manifests, Directories, Exists, Sealed
<1>5. Remembering(t) => worker[t].kind \in Succeeded \cup {"lost"} /\ Recalled(t) = InHand(t)
  BY <1>1, OwedFacts DEF Owns, Failing, Remembering, Recalled
<1>6. worker[t].kind \in Succeeded => Content(t) # NoAnswer
  BY InHandReal, OwedFacts
<1>7. ASSUME open', Remembering(t), Recalled(t) \in unposted'
      PROVE  Doomed(t, Recalled(t))
  <2>1. CASE worker[t].kind = "lost"
    BY <1>1, <1>7, <2>1, OwedFacts DEF Owed
  <2>2. CASE worker[t].kind \in Succeeded
    <3>1. worker[t].kind # "lost"
      BY <2>2 DEF Succeeded
    <3> QED
      BY <1>1, <1>5, <1>7, <3>1, OwedFacts DEF Owed
  <2> QED
    BY <1>5, <1>7, <2>1, <2>2
<1>8. ASSUME worker'[t].left > 0, Remembering(t)  PROVE Recalled(t) \in unposted'
  <2>1. worker[t].kind = "lost"
    BY <1>2, <1>5, <1>6, <1>8
  <2> QED
    BY <1>1, <1>5, <1>8, <2>1, RecalledIs
<1> QED
  BY <1>2, <1>3, <1>4, <1>7, <1>8 DEF Owed, At, Failing, Busy

-----------------------------------------------------------------------------
(* The sum of what was served and is not outstanding. *)

Has(t, i) == ~At(t, "idle") /\ InHand(t) = i

LEMMA OutstandingIs ==
    ASSUME NEW i
    PROVE  /\ i \in Outstanding <=> i \in unposted \/ \E t \in Turns : Has(t, i)
           /\ i \in Outstanding' <=> i \in unposted' \/ \E t \in Turns : Has(t, i)'
BY DEF Outstanding, Has

LEMMA PostedTerms ==
    ASSUME TokenInv
    PROVE  /\ Len(served) \in Nat /\ DOMAIN served = 1 .. Len(served) /\ total \in Nat
           /\ \A i \in 1 .. Len(served) : /\ served[i].cost \in Nat /\ Posted[i] \in Nat
                                          /\ i # NoAnswer /\ Cost(i) = served[i].cost
<1>1. TypeInv /\ HistoryTyped /\ total \in Nat
  BY TypeParts DEF TokenInv, PaidInv, OwnInv, TypeInv, LedgerTyped
<1>2. served \in Seq(Entry)
  BY <1>1 DEF HistoryTyped, Entry
<1>3. Len(served) \in Nat /\ DOMAIN served = 1 .. Len(served)
  BY <1>2
<1>4. ASSUME NEW i \in 1 .. Len(served)
      PROVE  /\ served[i].cost \in Nat /\ Posted[i] \in Nat
             /\ i # NoAnswer /\ Cost(i) = served[i].cost
  <2>1. i \in DOMAIN served /\ served[i].cost \in Nat
    BY <1>1, <1>3, ServedFacts
  <2>2. i # NoAnswer
    BY <1>3 DEF NoAnswer
  <2> QED
    BY <2>1, <2>2 DEF Posted, Cost
<1> QED
  BY <1>1, <1>3, <1>4

\* Nothing of value becomes outstanding or ceases to be.
LEMMA PostedRests ==
    ASSUME TokenInv, served' = served, total' = total,
           \A i \in DOMAIN served : served[i].cost # 0 => (i \in Outstanding' <=> i \in Outstanding)
    PROVE  Sum(Posted, Len(served))' = total'
<1>1. PICK n \in Nat : n = Len(served) /\ DOMAIN served = 1 .. n
  BY PostedTerms
<1>2. \A i \in 1 .. n : Posted'[i] = Posted[i]
  BY <1>1 DEF Posted
<1>3. Sum(Posted', n) = Sum(Posted, n)
  BY <1>2, SumSame
<1> QED
  BY <1>1, <1>3 DEF TokenInv

LEMMA SameOutstanding ==
    ASSUME TypeInv, NEW t \in Turns, Request(t) \/ Answer(t) \/ Record(t), NEW i,
           i \in unposted' \/ Has(t, i)' <=> i \in unposted \/ Has(t, i)
    PROVE  i \in Outstanding' <=> i \in Outstanding
<1>1. \A u \in Turns : u # t => (Has(u, i)' <=> Has(u, i))
  BY OwnTurn DEF TypeInv, Local, Has, At, InHand
<1> QED
  BY <1>1, OutstandingIs

\* An answer comes: it is outstanding.
LEMMA PostedByAnswer ==
    ASSUME TokenInv, NEW t \in Turns, Answer(t)
    PROVE  Sum(Posted, Len(served))' = total'
<1>1. PICK n \in Nat : n = Len(served) /\ DOMAIN served = 1 .. n
  BY PostedTerms
<1>2. PICK e \in Entry : served' = Append(served, e)
  BY OwedByAnswer
<1>3. served \in Seq(Entry) /\ TypeInv
  BY OwedFacts, OwnFacts
<1>4. /\ Len(served') = n + 1 /\ DOMAIN served' = 1 .. n + 1
      /\ \A i \in 1 .. n : served'[i] = served[i]
  BY <1>1, <1>2, <1>3
<1>5. unposted' = unposted /\ Has(t, n + 1)' /\ total' = total
  BY <1>1, OwedByAnswer DEF Answer, ledger, Has, At, InHand
<1>6. ASSUME NEW i \in 1 .. n  PROVE i \in Outstanding' <=> i \in Outstanding
  <2>1. ~Has(t, i)'
    BY <1>1, OwedByAnswer DEF Has, InHand
  <2>2. ~Has(t, i)
    BY OwedFacts DEF Owns, Busy, Answer, At, Has, NoAnswer
  <2> QED
    BY <1>3, <1>5, <2>1, <2>2, SameOutstanding
<1>7. \A i \in 1 .. n : Posted'[i] = Posted[i]
  BY <1>1, <1>4, <1>6 DEF Posted
<1>8. Posted'[n + 1] = 0
  <2>1. n + 1 \in Outstanding'
    BY <1>5, OutstandingIs
  <2> QED
    BY <1>4, <2>1 DEF Posted
<1>9. Sum(Posted', n + 1) = Sum(Posted', n) + Posted'[n + 1]
  BY SumStep
<1>10. Sum(Posted', n) = Sum(Posted, n)
  BY <1>7, SumSame
<1>11. Sum(Posted, n) = total /\ total \in Nat
  BY <1>1, PostedTerms DEF TokenInv
<1> QED
  BY <1>4, <1>5, <1>8, <1>9, <1>10, <1>11

\* A post pays for the answer in hand, unless it was lost.
LEMMA PostedByCharge ==
    ASSUME ChargesDeclared, TokenInv, NEW t \in Turns, Charge(t)
    PROVE  Sum(Posted, Len(served))' = total'
<1>1. /\ served' = served /\ total' = total + Reported(t) /\ At(t, "posting") /\ Busy(t)
      /\ InHand(t) \in DOMAIN served /\ served[InHand(t)].turn = t
      /\ unposted' = IF worker[t].kind = "lost" /\ Cost(InHand(t)) > 0
                     THEN unposted \cup {InHand(t)} ELSE unposted
  BY ChargeStep, OwedFacts DEF Charge, Busy, At, Owns
<1>2. \A i : ~Has(t, i)'
  BY ChargeEnds, OwedFacts DEF Has, At
<1>3. \A i : Has(t, i) <=> i = InHand(t)
  BY <1>1 DEF Has, At
<1>4. PICK n \in Nat : n = Len(served) /\ DOMAIN served = 1 .. n
  BY PostedTerms
<1>5. CASE worker[t].kind = "lost"
  <2>1. total' = total
    BY <1>1, <1>5, PostedTerms DEF Reported
  <2>2. ASSUME NEW i \in DOMAIN served, served[i].cost # 0
        PROVE  i \in Outstanding' <=> i \in Outstanding
    <3>1. Cost(i) > 0
      BY <1>4, <2>2, PostedTerms
    <3>2. i \in unposted' \/ Has(t, i)' <=> i \in unposted \/ Has(t, i)
      BY <1>1, <1>2, <1>3, <1>5, <3>1
    <3> QED
      BY <3>2, SameOutstanding, OwedFacts DEF Record
  <2> QED
    BY <1>1, <2>1, <2>2, PostedRests
<1>6. CASE worker[t].kind # "lost"
  <2>1. PICK j \in 1 .. n : j = InHand(t)
    BY <1>1, <1>4
  <2>2. PICK c \in Nat : c = served[j].cost /\ c = Reported(t)
    BY <1>1, <1>6, <2>1, ReportedIs, OwedFacts
  <2>3. j \notin unposted /\ unposted' = unposted
    BY <1>1, <1>6, <2>1, OwedFacts DEF Owed
  <2>4. \A u \in Turns : u # t => ~Has(u, j)'
    <3> SUFFICES ASSUME NEW u \in Turns, u # t, Has(u, j)'  PROVE FALSE
      OBVIOUS
    <3>1. Has(u, j)
      BY OwnTurn, OwedFacts DEF TypeInv, Local, Has, At, InHand, Record
    <3>2. j # NoAnswer
      BY <2>1, PostedTerms, <1>4
    <3>3. served[j].turn = u
      BY <3>1, <3>2, OwedFacts DEF Has, Owns
    <3> QED
      BY <1>1, <2>1, <3>3
  <2>5. j \in Outstanding /\ j \notin Outstanding'
    BY <1>2, <1>3, <2>1, <2>3, <2>4, OutstandingIs
  <2>6. ASSUME NEW i \in 1 .. n, i # j  PROVE i \in Outstanding' <=> i \in Outstanding
    <3>1. i \in unposted' \/ Has(t, i)' <=> i \in unposted \/ Has(t, i)
      BY <1>2, <1>3, <2>1, <2>3, <2>6
    <3> QED
      BY <3>1, SameOutstanding, OwedFacts DEF Record
  <2>7. Posted[j] = 0 /\ Posted'[j] = c
    BY <1>1, <1>4, <2>2, <2>5 DEF Posted
  <2>8. \A i \in 1 .. n : i # j => Posted'[i] = Posted[i]
    BY <1>1, <1>4, <2>6 DEF Posted
  <2>9. \A i \in 1 .. n : Posted[i] \in Nat /\ Posted'[i] \in Nat
    BY <1>4, <2>7, <2>8, PostedTerms
  <2>10. Posted'[j] = Posted[j] + c /\ c \in Int
    BY <2>7
  <2>11. Sum(Posted', n) = Sum(Posted, n) + c
    BY <2>8, <2>9, <2>10, SumChange
  <2> QED
    BY <1>1, <1>4, <2>2, <2>11 DEF TokenInv
<1> QED
  BY <1>5, <1>6

\* The other steps of a worker leave what is outstanding as it is.
LEMMA PostedByOthers ==
    ASSUME TokenInv, NEW t \in Turns, Request(t) \/ Record(t), ~Charge(t)
    PROVE  Sum(Posted, Len(served))' = total'
<1>1. served' = served /\ total' = total
  BY DEF Request, Record, Replay, Remembered, Ask, Archive, Write, Index, Verify, Seal, Locked, ledger
<1> SUFFICES ASSUME NEW i \in DOMAIN served, served[i].cost # 0
             PROVE  i \in unposted' \/ Has(t, i)' <=> i \in unposted \/ Has(t, i)
  BY <1>1, PostedRests, SameOutstanding, OwedFacts
<1>2. i # NoAnswer /\ Cost(i) > 0
  BY PostedTerms
<1>3. CASE Replay(t) \/ Ask(t)
  <2>1. unposted' = unposted /\ At(t, "idle")
    BY <1>3 DEF Replay, Ask, May
  <2>2. worker'[t].pc = "idle" \/ worker'[t].answer = NoAnswer
    <3>1. CASE Replay(t)
      <4>1. PICK a : Finish(t, a, 0)
        BY <3>1 DEF Replay
      <4>2. 0 \in 0 .. Retries + 1
        BY BoundsAssumption
      <4> QED
        BY <4>1, <4>2, Finishes, OwedFacts
    <3>2. CASE Ask(t)
      <4>1. worker'[t].answer = worker[t].answer
        BY <3>2, AskStep, OwedFacts
      <4> QED
        BY <2>1, <4>1, OwedFacts DEF Owns, Busy, InHand
    <3> QED
      BY <1>3, <3>1, <3>2
  <2> QED
    BY <1>2, <2>1, <2>2 DEF Has, At, InHand
<1>4. CASE Remembered(t)
  <2>1. unposted' = unposted /\ At(t, "idle") /\ Recalled(t) \in unposted
    BY <1>4, OwedFacts DEF Remembered, May, Owed, Remembering
  <2>2. worker'[t].answer = Recalled(t)
    BY <1>4, OwnsByMemory, OwedFacts
  <2> QED
    BY <2>1, <2>2 DEF Has, InHand
<1>5. CASE Archive(t)
  BY <1>5 DEF Archive, process, Has, At, InHand
<1>6. CASE Write(t) \/ Index(t) \/ Verify(t) \/ (Seal(t) /\ Whole(t))
  <2>1. unposted' = unposted /\ ~At(t, "idle")
    BY <1>6 DEF Write, Index, Verify, Seal, Recording, At
  <2>2. PICK p \in {"sealing", "posting"} : worker' = [worker EXCEPT ![t].pc = p]
    BY <1>6 DEF Write, Index, Verify, Seal
  <2>3. p \in ControlPoints /\ ThreadsTyped
    BY OwedFacts DEF ControlPoints, Kept
  <2>4. worker'[t].pc = p /\ worker'[t].answer = worker[t].answer
    BY <2>2, <2>3, Goes
  <2> QED
    BY <2>1, <2>4 DEF Has, At, InHand
<1>7. CASE (Seal(t) /\ ~Whole(t)) \/ Locked(t)
  <2>1. Raise(t) /\ ~At(t, "idle")
    BY <1>7 DEF Seal, Locked, At
  <2> QED
    BY <1>2, <2>1, RaisesTo, OwedFacts DEF Has, At, InHand
<1> QED
  BY <1>3, <1>4, <1>5, <1>6, <1>7 DEF Request, Record

\* A dying session loses the answers it was recording.
LEMMA CrashLoses ==
    ASSUME TokenInv, Crash
    PROVE  /\ open' = FALSE /\ served' = served /\ total' = total
           /\ \A t \in Turns : worker'[t].pc = "idle" /\ worker'[t].kind = "infra" /\ worker'[t].left = 0
           /\ \A i \in DOMAIN served : i \in unposted' <=>
                 \/ i \in unposted
                 \/ \E t \in Turns : Has(t, i) /\ Cost(i) > 0
           /\ unposted' \subseteq DOMAIN served
<1>1. /\ open' = FALSE /\ served' = served /\ total' = total
      /\ worker' = [t \in Turns |-> Idle(0)]
      /\ unposted' = unposted \cup
            {InHand(t) : t \in {u \in Turns : ~At(u, "idle") /\ Cost(InHand(u)) > 0}}
  BY DEF Crash, ledger
<1>2. \A t \in Turns : worker'[t].pc = "idle" /\ worker'[t].kind = "infra" /\ worker'[t].left = 0
  BY <1>1, IdleType, BoundsAssumption
<1>3. \A i : i \in unposted' <=> i \in unposted \/ \E t \in Turns : Has(t, i) /\ Cost(i) > 0
  BY <1>1 DEF Has
<1>4. ASSUME NEW t \in Turns, ~At(t, "idle"), Cost(InHand(t)) > 0
      PROVE  InHand(t) \in DOMAIN served
  <2>1. InHand(t) # NoAnswer
    BY <1>4 DEF Cost
  <2> QED
    BY <2>1, OwedFacts DEF Owns
<1> QED
  BY <1>1, <1>2, <1>3, <1>4, OwedFacts DEF Has, TokenInv

LEMMA SessionsKeepOwed ==
    ASSUME TokenInv, StartSession \/ EndSession \/ Crash \/ Age \/ UNCHANGED vars, NEW t \in Turns
    PROVE  Owed(t)'
<1>1. CASE StartSession
  <2>1. PICK left \in 0 .. Retries + 1 : worker' = [u \in Turns |-> Idle(left)]
    BY <1>1, BoundsAssumption DEF StartSession
  <2>2. worker'[t].pc = "idle"
    BY <2>1, Idles
  <2>3. prompt'[t] \in Keys /\ memory' = [p \in Turns \X Keys |-> NoAnswer]
    BY <1>1 DEF StartSession
  <2>4. ~Remembering(t)'
    BY <2>3 DEF Remembering
  <2> QED
    BY <2>2, <2>4 DEF Owed, At, Failing, Busy
<1>2. CASE Crash
  <2>1. open' = FALSE /\ worker'[t].pc = "idle" /\ worker'[t].left = 0
    BY <1>2, CrashLoses
  <2> QED
    BY <2>1 DEF Owed, At, Failing, Busy
<1>3. CASE EndSession \/ Age \/ UNCHANGED vars
  <2>1. UNCHANGED <<worker, prompt, memory, served, unposted, base>> /\ (open' => open)
    BY <1>3 DEF EndSession, Age, vars, disk, process
  <2>2. Manifests(t)' = Manifests(t)
    BY <1>3, SessionsManifests
  <2>3. Doomed(t, Recalled(t)) => Doomed(t, Recalled(t))'
    BY <2>1, <2>2 DEF Doomed, Evidenced, Exists, Sealed, Recalled
  <2> QED
    BY <2>1, <2>3, OwedFacts DEF Owed, At, Failing, Busy, Remembering, Recalled, InHand
<1> QED
  BY <1>1, <1>2, <1>3

LEMMA SessionsKeepPosted ==
    ASSUME TokenInv, StartSession \/ EndSession \/ Crash \/ Age \/ UNCHANGED vars
    PROVE  Sum(Posted, Len(served))' = total' /\ unposted' \subseteq DOMAIN served'
<1>1. served' = served /\ total' = total
  BY DEF StartSession, EndSession, Crash, Age, vars, ledger
<1> SUFFICES /\ \A i \in DOMAIN served : served[i].cost # 0 => (i \in Outstanding' <=> i \in Outstanding)
             /\ unposted' \subseteq DOMAIN served
  BY <1>1, PostedRests
<1>2. unposted \subseteq DOMAIN served
  BY DEF TokenInv
<1>3. CASE StartSession
  <2>1. PICK left \in 0 .. Retries + 1 : worker' = [u \in Turns |-> Idle(left)]
    BY <1>3, BoundsAssumption DEF StartSession
  <2>2. unposted' = unposted /\ \A t \in Turns : \A i : ~Has(t, i)'
    BY <1>3, <2>1, Idles DEF StartSession, Has, At
  <2>3. \A t \in Turns : \A i : ~Has(t, i)
    BY <1>3 DEF StartSession, TokenInv, PaidInv, OwnInv, Has
  <2> QED
    BY <1>2, <2>2, <2>3, OutstandingIs
<1>4. CASE Crash
  <2>1. \A t \in Turns : \A i : ~Has(t, i)'
    BY <1>4, CrashLoses DEF Has, At
  <2>2. \A i \in DOMAIN served : i \in unposted' <=>
           i \in unposted \/ \E t \in Turns : Has(t, i) /\ Cost(i) > 0
    BY <1>4, CrashLoses
  <2>3. \A i \in DOMAIN served : served[i].cost # 0 => Cost(i) > 0
    BY PostedTerms
  <2>4. unposted' \subseteq DOMAIN served
    BY <1>4, CrashLoses
  <2> QED
    BY <2>1, <2>2, <2>3, <2>4, OutstandingIs
<1>5. CASE EndSession \/ Age \/ UNCHANGED vars
  BY <1>2, <1>5 DEF EndSession, Age, vars, process, Outstanding, InHand, At
<1> QED
  BY <1>3, <1>4, <1>5

LEMMA WorkersKeepTokens ==
    ASSUME ChargesDeclared, TokenInv, NEW t \in Turns, Request(t) \/ Answer(t) \/ Record(t)
    PROVE  /\ \A u \in Turns : Owed(u)'
           /\ Sum(Posted, Len(served))' = total'
           /\ unposted' \subseteq DOMAIN served'
<1>1. open' = open
  BY DEF Request, Record, Replay, Remembered, Ask, Answer, Archive, Write, Index, Verify, Seal, Charge,
         Locked, process
<1>2. Owed(t)'
  BY OwedByRequest, OwedByAnswer, OwedByFiles, OwedBySeal, OwedByLocked, OwedByCharge DEF Record
<1>3. \A u \in Turns : Owed(u)'
  BY <1>1, <1>2, OwedOfOthers
<1>4. Sum(Posted, Len(served))' = total'
  BY PostedByAnswer, PostedByCharge, PostedByOthers
<1>5. \A i \in DOMAIN served : i \in DOMAIN served'
  BY OwnTurn, HistoryGrows, OwedFacts DEF Local, TypeInv, TypeOK, Entry
<1>6. \A i \in unposted' : i \in DOMAIN served
  BY UnpostedSteps, OwedFacts
<1> QED
  BY <1>3, <1>4, <1>5, <1>6

LEMMA TokenInvAtFirst == Init => TokenInv
<1> SUFFICES ASSUME Init PROVE TokenInv
  OBVIOUS
<1>1. PaidInv
  BY PaidInvAtFirst
<1>2. served = <<>> /\ Len(served) = 0 /\ total = 0 /\ unposted = {}
  BY DEF Init
<1>3. Sum(Posted, Len(served)) = total
  BY <1>2, SumEmpty
<1>4. ASSUME NEW t \in Turns  PROVE Owed(t)
  <2>1. worker[t].pc = "idle" /\ prompt[t] \in Keys /\ memory[<<t, prompt[t]>>] = NoAnswer
    BY IdleType, BoundsAssumption DEF Init
  <2> QED
    BY <2>1 DEF Owed, At, Failing, Busy, Remembering
<1> QED
  BY <1>1, <1>2, <1>3, <1>4 DEF TokenInv

LEMMA TokenInvStep == ChargesDeclared /\ TokenInv /\ [Next]_vars => TokenInv'
<1> SUFFICES ASSUME ChargesDeclared, TokenInv, [Next]_vars PROVE TokenInv'
  OBVIOUS
<1>1. PaidInv'
  BY PaidInvStep DEF TokenInv
<1>2. CASE StartSession \/ EndSession \/ Crash \/ Age \/ UNCHANGED vars
  BY <1>1, <1>2, SessionsKeepOwed, SessionsKeepPosted DEF TokenInv
<1>3. ASSUME NEW t \in Turns, Request(t) \/ Answer(t) \/ Record(t)  PROVE TokenInv'
  BY <1>1, <1>3, WorkersKeepTokens DEF TokenInv
<1> QED
  BY <1>2, <1>3 DEF Next

\* The charge events and the cumulative total account for the same tokens, and
\* these are what the provider took for its answers, but for those in hand and
\* those whose posting was lost: none is posted twice, and none is posted after
\* it was given up (record_provider_turn, _record, hourly_token_usage).
THEOREM TokensPosted == ChargesDeclared => (Spec => []TokensConserved)
<1> SUFFICES ASSUME ChargesDeclared PROVE Spec => []TokensConserved
  OBVIOUS
<1>1. TokenInv => TokensConserved
  BY DEF TokenInv, PaidInv, ChargesFollowRows, TokensConserved
<1>2. TokenInv /\ [Next]_vars => TokenInv'
  BY TokenInvStep
<1> QED
  BY <1>1, <1>2, TokenInvAtFirst, PTL DEF Spec

-----------------------------------------------------------------------------
(***************************************************************************)
(* LedgerConnection: the statements of a posting, and the events between.  *)
(* First, what it is for a sequence to be a selection of another in order. *)
(***************************************************************************)

\* s is a selection of r that keeps its order.
InOrder(s, r) ==
    \E f \in [DOMAIN s -> DOMAIN r] :
        /\ \A i \in DOMAIN s : s[i] = r[f[i]]
        /\ \A i, j \in DOMAIN s : i < j => f[i] < f[j]

LEMMA SelectionOfSelection ==
    ASSUME NEW s, NEW r, InOrder(s, r), NEW p, NEW h \in [DOMAIN p -> DOMAIN s],
           \A i \in DOMAIN p : p[i] = s[h[i]],
           \A i, j \in DOMAIN p : i < j => h[i] < h[j]
    PROVE  InOrder(p, r)
<1>1. PICK f \in [DOMAIN s -> DOMAIN r] :
         /\ \A i \in DOMAIN s : s[i] = r[f[i]]
         /\ \A i, j \in DOMAIN s : i < j => f[i] < f[j]
  BY DEF InOrder
<1> DEFINE g == [i \in DOMAIN p |-> f[h[i]]]
<1>2. g \in [DOMAIN p -> DOMAIN r]
  OBVIOUS
<1>3. \A i \in DOMAIN p : p[i] = r[g[i]]
  BY <1>1
<1>4. \A i, j \in DOMAIN p : i < j => g[i] < g[j]
  BY <1>1
<1> HIDE DEF g
<1> QED
  BY <1>2, <1>3, <1>4 DEF InOrder

LEMMA SelectionGrows ==
    ASSUME NEW S, NEW s \in Seq(S), NEW r \in Seq(S), NEW e \in S, InOrder(s, r)
    PROVE  InOrder(Append(s, e), Append(r, e))
<1>1. PICK f \in [DOMAIN s -> DOMAIN r] :
         /\ \A i \in DOMAIN s : s[i] = r[f[i]]
         /\ \A i, j \in DOMAIN s : i < j => f[i] < f[j]
  BY DEF InOrder
<1>2. PICK n \in Nat, m \in Nat :
         /\ n = Len(s) /\ DOMAIN s = 1 .. n /\ m = Len(r) /\ DOMAIN r = 1 .. m
         /\ DOMAIN Append(s, e) = 1 .. n + 1 /\ DOMAIN Append(r, e) = 1 .. m + 1
  OBVIOUS
<1>3. /\ \A i \in 1 .. n : Append(s, e)[i] = s[i]
      /\ \A i \in 1 .. m : Append(r, e)[i] = r[i]
      /\ Append(s, e)[n + 1] = e /\ Append(r, e)[m + 1] = e
  BY <1>2
<1> DEFINE g == [i \in 1 .. n + 1 |-> IF i \in 1 .. n THEN f[i] ELSE m + 1]
<1>4. \A i \in 1 .. n + 1 : IF i \in 1 .. n THEN g[i] = f[i] /\ g[i] \in 1 .. m
                            ELSE i = n + 1 /\ g[i] = m + 1
  BY <1>1, <1>2
<1>5. g \in [1 .. n + 1 -> 1 .. m + 1]
  BY <1>4
<1> HIDE DEF g
<1> DEFINE a == Append(s, e)  b == Append(r, e)
<1>6. /\ DOMAIN a = 1 .. n + 1 /\ DOMAIN b = 1 .. m + 1
      /\ \A i \in 1 .. n : a[i] = r[f[i]] /\ f[i] \in 1 .. m
      /\ \A i \in 1 .. m : b[i] = r[i]
      /\ a[n + 1] = b[m + 1]
  BY <1>1, <1>2, <1>3
<1> HIDE DEF a, b
<1>7. \A i \in 1 .. n + 1 : a[i] = b[g[i]]
  BY <1>4, <1>6
<1>8. ASSUME NEW i \in 1 .. n + 1, NEW j \in 1 .. n + 1, i < j  PROVE g[i] < g[j]
  <2>1. i \in 1 .. n
    BY <1>8
  <2>2. CASE j \in 1 .. n
    <3>1. f[i] < f[j]
      BY <1>1, <1>2, <1>8, <2>1, <2>2
    <3> QED
      BY <1>4, <2>1, <2>2, <3>1
  <2>3. CASE j \notin 1 .. n
    <3>1. g[j] = m + 1 /\ g[i] \in 1 .. m
      BY <1>4, <2>1, <2>3
    <3> QED
      BY <3>1
  <2> QED
    BY <2>2, <2>3
<1>9. InOrder(a, b)
  BY <1>5, <1>6, <1>7, <1>8 DEF InOrder
<1> QED
  BY <1>9 DEF a, b

LEMMA Joined ==
    ASSUME NEW S, NEW l \in Seq(S), NEW q \in Seq(S), NEW n \in Nat, NEW m \in Nat,
           n = Len(l), m = Len(q)
    PROVE  /\ l \o q \in Seq(S) /\ DOMAIN (l \o q) = 1 .. n + m
           /\ \A i \in 1 .. n : (l \o q)[i] = l[i]
           /\ \A i \in 1 .. m : (l \o q)[n + i] = q[i]
<1>1. l \o q \in Seq(S) /\ Len(l \o q) = n + m
  BY ConcatProperties
<1>2. \A i \in 1 .. n : (l \o q)[i] = l[i]
  BY <1>1, ConcatProperties
<1>3. \A i \in 1 .. m : (l \o q)[n + i] = q[i]
  BY <1>1, ConcatProperties
<1> QED
  BY <1>1, <1>2, <1>3

LEMMA StoryGrows ==
    ASSUME NEW S, NEW l \in Seq(S), NEW q \in Seq(S), NEW r \in Seq(S), NEW e \in S,
           InOrder(l \o q, r)
    PROVE  InOrder(l \o Append(q, e), Append(r, e))
<1>1. l \o q \in Seq(S)
  BY ConcatProperties
<1>2. InOrder(Append(l \o q, e), Append(r, e))
  BY <1>1, SelectionGrows
<1>3. l \o Append(q, e) = Append(l \o q, e)
  OBVIOUS
<1> QED
  BY <1>2, <1>3

\* The first event that waits is skipped, or told; or all that wait are lost.
LEMMA StoryGoesOn ==
    ASSUME NEW S, NEW l \in Seq(S), NEW q \in Seq(S), NEW r, q # <<>>, InOrder(l \o q, r)
    PROVE  /\ InOrder(l \o Tail(q), r)
           /\ InOrder(Append(l, Head(q)) \o Tail(q), r)
<1>1. PICK n \in Nat, m \in Nat : n = Len(l) /\ m + 1 = Len(q)
  <2>1. Len(l) \in Nat /\ Len(q) \in Nat /\ Len(q) # 0
    OBVIOUS
  <2>2. Len(q) - 1 \in Nat /\ (Len(q) - 1) + 1 = Len(q)
    BY <2>1
  <2> QED
    BY <2>1, <2>2
<1>2. Tail(q) \in Seq(S) /\ Len(Tail(q)) = m /\ \A i \in 1 .. m : Tail(q)[i] = q[i + 1]
  BY <1>1, HeadTailProperties
<1>3. Head(q) \in S /\ Head(q) = q[1]
  BY <1>1
<1>4. /\ Append(l, Head(q)) \in Seq(S) /\ Len(Append(l, Head(q))) = n + 1
      /\ Append(l, Head(q))[n + 1] = q[1]
      /\ \A i \in 1 .. n : Append(l, Head(q))[i] = l[i]
  BY <1>1, <1>3
<1> DEFINE s == l \o q  p == l \o Tail(q)  t == Append(l, Head(q)) \o Tail(q)
<1>5. /\ DOMAIN s = 1 .. n + (m + 1)
      /\ \A i \in 1 .. n : s[i] = l[i]
      /\ \A i \in 1 .. m + 1 : s[n + i] = q[i]
  <2>1. PICK k \in Nat : k = m + 1 /\ k = Len(q)
    BY <1>1
  <2>2. /\ DOMAIN s = 1 .. n + k
        /\ \A i \in 1 .. n : s[i] = l[i]
        /\ \A i \in 1 .. k : s[n + i] = q[i]
    <3>1. n = Len(l) /\ k = Len(q)
      BY <1>1, <2>1
    <3>2. l \in Seq(S) /\ q \in Seq(S) /\ n \in Nat /\ k \in Nat
      OBVIOUS
    <3> QED
      BY ONLY <3>1, <3>2, Joined
  <2>3. n + k = n + (m + 1)
    BY <2>1
  <2>4. 1 .. k = 1 .. m + 1
    BY <2>1
  <2>5. DOMAIN s = 1 .. n + (m + 1)
    BY ONLY <2>2, <2>3
  <2>6. \A i \in 1 .. m + 1 : s[n + i] = q[i]
    BY ONLY <2>2, <2>4
  <2> QED
    BY ONLY <2>2, <2>5, <2>6
<1>6. /\ DOMAIN p = 1 .. n + m
      /\ \A i \in 1 .. n : p[i] = l[i]
      /\ \A i \in 1 .. m : p[n + i] = q[i + 1]
  <2>1. n = Len(l) /\ m = Len(Tail(q)) /\ Tail(q) \in Seq(S)
    BY <1>1, <1>2
  <2>2. l \in Seq(S) /\ n \in Nat /\ m \in Nat
    OBVIOUS
  <2>3. /\ DOMAIN p = 1 .. n + m
        /\ \A i \in 1 .. n : p[i] = l[i]
        /\ \A i \in 1 .. m : p[n + i] = Tail(q)[i]
    BY ONLY <2>1, <2>2, Joined
  <2> HIDE DEF p
  <2> QED
    BY <1>2, <2>3
<1>7. /\ DOMAIN t = 1 .. (n + 1) + m
      /\ \A i \in 1 .. n + 1 : t[i] = IF i <= n THEN l[i] ELSE q[1]
      /\ \A i \in 1 .. m : t[(n + 1) + i] = q[i + 1]
  <2>1. PICK v \in Seq(S), u \in Seq(S) : v = Append(l, Head(q)) /\ u = Tail(q)
    BY <1>2, <1>4
  <2>2. PICK k \in Nat : k = n + 1
    OBVIOUS
  <2>3. k = Len(v) /\ m = Len(u)
    BY <1>2, <1>4, <2>1, <2>2
  <2>4. m \in Nat /\ k \in Nat /\ v \in Seq(S) /\ u \in Seq(S)
    OBVIOUS
  <2>5. /\ DOMAIN (v \o u) = 1 .. k + m
        /\ \A i \in 1 .. k : (v \o u)[i] = v[i]
        /\ \A i \in 1 .. m : (v \o u)[k + i] = u[i]
    BY ONLY <2>3, <2>4, Joined
  <2>6. \A i \in 1 .. n + 1 : v[i] = IF i <= n THEN l[i] ELSE q[1]
    <3>1. \A i \in 1 .. n + 1 : i \in 1 .. n \/ (i = n + 1 /\ ~(i <= n))
      OBVIOUS
    <3>2. \A i \in 1 .. n : i <= n
      OBVIOUS
    <3> QED
      BY <1>4, <2>1, <3>1, <3>2
  <2>7. t = v \o u
    BY <2>1
  <2>8. \A i \in 1 .. m : u[i] = q[i + 1]
    BY <1>2, <2>1
  <2> HIDE DEF t
  <2> QED
    BY <2>2, <2>5, <2>6, <2>7, <2>8
<1>8. InOrder(s, r)
  OBVIOUS
<1> HIDE DEF s, p, t
<1>9. InOrder(p, r)
  <2> DEFINE h == [i \in 1 .. n + m |-> IF i <= n THEN i ELSE i + 1]
  <2>1. h \in [DOMAIN p -> DOMAIN s] /\ \A i, j \in DOMAIN p : i < j => h[i] < h[j]
    BY <1>5, <1>6
  <2>2. ASSUME NEW i \in DOMAIN p  PROVE p[i] = s[h[i]]
    <3>1. CASE i <= n
      BY <1>5, <1>6, <3>1
    <3>2. CASE i > n
      <4>1. i - n \in 1 .. m /\ (i - n) + 1 \in 1 .. m + 1 /\ h[i] = n + ((i - n) + 1)
            /\ i = n + (i - n)
        BY <1>6, <3>2
      <4>2. p[i] = q[(i - n) + 1]
        BY <1>6, <4>1
      <4>3. s[n + ((i - n) + 1)] = q[(i - n) + 1]
        BY <1>5, <4>1
      <4> QED
        BY <4>1, <4>2, <4>3
    <3> QED
      BY <1>6, <3>1, <3>2
  <2> HIDE DEF h
  <2> QED
    BY <1>8, <2>1, <2>2, SelectionOfSelection
<1>10. InOrder(t, r)
  <2> DEFINE h == [i \in DOMAIN t |-> i]
  <2>1. h \in [DOMAIN t -> DOMAIN s] /\ \A i, j \in DOMAIN t : i < j => h[i] < h[j]
    BY <1>5, <1>7
  <2>2. ASSUME NEW i \in DOMAIN t  PROVE t[i] = s[i]
    <3>0. \A j \in 1 .. n + 1 : t[j] = s[j]
      <4>1. s[n + 1] = q[1]
        BY <1>5
      <4>2. \A j \in 1 .. n + 1 : j <= n \/ j = n + 1
        OBVIOUS
      <4>3. \A j \in 1 .. n : j \in 1 .. n + 1 /\ j <= n
        OBVIOUS
      <4>4. \A j \in 1 .. n : t[j] = s[j]
        BY <1>5, <1>7, <4>3
      <4>5. t[n + 1] = s[n + 1]
        <5>1. n + 1 \in 1 .. n + 1 /\ ~(n + 1 <= n)
          OBVIOUS
        <5>2. t[n + 1] = q[1]
          BY <1>7, <5>1
        <5> QED
          BY <4>1, <5>2
      <4> QED
        BY <4>4, <4>5
    <3>1. CASE i <= n + 1
      <4>1. i \in 1 .. n + 1
        BY <1>7, <3>1
      <4> QED
        BY <3>0, <4>1
    <3>3. CASE i > n + 1
      <4> DEFINE k == i - (n + 1)
      <4>1. k \in 1 .. m /\ i = (n + 1) + k /\ i = n + (k + 1) /\ k + 1 \in 1 .. m + 1
        <5>1. i \in Int /\ i <= (n + 1) + m
          BY <1>7
        <5> QED
          BY <3>3, <5>1
      <4> HIDE DEF k
      <4>2. t[(n + 1) + k] = q[k + 1]
        BY <1>7, <4>1
      <4>3. s[n + (k + 1)] = q[k + 1]
        BY <1>5, <4>1
      <4> QED
        BY <4>1, <4>2, <4>3
    <3> QED
      BY <1>7, <3>1, <3>3
  <2>3. \A i \in DOMAIN t : t[i] = s[h[i]]
    BY <2>2
  <2> HIDE DEF h
  <2> QED
    BY <1>8, <2>1, <2>3, SelectionOfSelection
<1> QED
  BY <1>9, <1>10 DEF p, t

LEMMA StoryTold ==
    ASSUME NEW S, NEW l \in Seq(S), NEW q \in Seq(S), NEW r, InOrder(l \o q, r)
    PROVE  InOrder(l, r)
<1>1. PICK n \in Nat, m \in Nat : n = Len(l) /\ m = Len(q) /\ DOMAIN l = 1 .. n
  OBVIOUS
<1> DEFINE s == l \o q  h == [i \in 1 .. n |-> i]
<1>2. DOMAIN s = 1 .. n + m /\ \A i \in 1 .. n : s[i] = l[i]
  BY <1>1, Joined
<1>3. InOrder(s, r)
  OBVIOUS
<1> HIDE DEF s
<1>4. /\ h \in [DOMAIN l -> DOMAIN s] /\ \A i \in DOMAIN l : l[i] = s[h[i]]
      /\ \A i, j \in DOMAIN l : i < j => h[i] < h[j]
  BY <1>1, <1>2
<1> HIDE DEF h
<1> QED
  BY <1>3, <1>4, SelectionOfSelection

\* The type invariant by the parts an action changes.
DataTyped == kept \in Stored /\ work \in Stored /\ inTransaction \in BOOLEAN
PlacesTyped ==
    /\ ledgerLock \in Workers \cup {Nobody} /\ hubLock \in Threads \cup {Nobody}
    /\ pc \in [Threads -> Places]
    /\ status \in [Workers -> {"unposted", "completed", "failed", "done"}]
    /\ \A w \in Workers : pc[w] \in Posting <=> ledgerLock = w
    /\ \A t \in Threads : pc[t] \in Emitting <=> hubLock = t
HubTyped ==
    /\ queue \in [Threads -> Seq(StorageKeys)] /\ pending \in Seq(StorageKeys)
    /\ log \in Seq(StorageKeys) /\ shown \in Seq(StorageKeys)
    /\ attached \in BOOLEAN /\ closed \in BOOLEAN /\ crashed \in BOOLEAN
    /\ emits \in 0 .. MaxEmits /\ sessions \in 0 .. SessionLimit

LEMMA LedgerTypeParts ==
    /\ LedgerTypeOK <=> DataTyped /\ PlacesTyped /\ HubTyped
    /\ LedgerTypeOK' <=> DataTyped' /\ PlacesTyped' /\ HubTyped'
BY DEF LedgerTypeOK, DataTyped, PlacesTyped, HubTyped

LEMMA WorkerIsThread == ASSUME NEW w \in Workers  PROVE w \in Threads /\ w # Nobody
BY ThreadsAssumption DEF Threads

\* A worker goes on with its turn, under the lock of the ledger.
Advances(w, p) ==
    /\ p \in Places \ Emitting /\ pc[w] \notin Emitting
    /\ Goto(w, p)
    /\ hubLock' = hubLock /\ ledgerLock \in {Nobody, w}
    /\ ledgerLock' = IF p \in Posting THEN w ELSE Nobody
    /\ status' \in [Workers -> {"unposted", "completed", "failed", "done"}]

\* A thread goes on with its events, under the lock of the hub.
Delivers(t, p) ==
    /\ p \in Places \ Posting /\ pc[t] \notin Posting
    /\ Goto(t, p)
    /\ ledgerLock' = ledgerLock /\ hubLock \in {Nobody, t}
    /\ hubLock' = IF p \in Emitting THEN t ELSE Nobody
    /\ status' = status

LEMMA AdvanceKeepsPlaces ==
    ASSUME PlacesTyped, NEW w \in Workers, NEW p, Advances(w, p)
    PROVE  PlacesTyped' /\ pc'[w] = p /\ \A u \in Threads : u # w => pc'[u] = pc[u]
<1>1. w \in Threads /\ \A u \in Workers : u \in Threads /\ u # Nobody
  BY WorkerIsThread
<1>2. pc'[w] = p /\ \A u \in Threads : u # w => pc'[u] = pc[u]
  BY <1>1 DEF Advances, Goto, PlacesTyped
<1>3. pc' \in [Threads -> Places]
  BY <1>1 DEF Advances, Goto, PlacesTyped
<1>4. \A u \in Workers : pc'[u] \in Posting <=> ledgerLock' = u
  BY <1>1, <1>2 DEF Advances, PlacesTyped
<1>5. \A u \in Threads : pc'[u] \in Emitting <=> hubLock' = u
  BY <1>1, <1>2 DEF Advances, PlacesTyped
<1> QED
  BY <1>2, <1>3, <1>4, <1>5 DEF Advances, PlacesTyped

LEMMA DeliveryKeepsPlaces ==
    ASSUME PlacesTyped, NEW t \in Threads, NEW p, Delivers(t, p)
    PROVE  PlacesTyped' /\ pc'[t] = p /\ \A u \in Threads : u # t => pc'[u] = pc[u]
<1>1. Nobody \notin Threads /\ \A u \in Workers : u \in Threads
  BY WorkerIsThread, ThreadsAssumption
<1>2. pc'[t] = p /\ \A u \in Threads : u # t => pc'[u] = pc[u]
  BY <1>1 DEF Delivers, Goto, PlacesTyped
<1>3. pc' \in [Threads -> Places]
  BY <1>1 DEF Delivers, Goto, PlacesTyped
<1>4. \A u \in Workers : pc'[u] \in Posting <=> ledgerLock' = u
  BY <1>1, <1>2 DEF Delivers, PlacesTyped
<1>5. \A u \in Threads : pc'[u] \in Emitting <=> hubLock' = u
  BY <1>1, <1>2 DEF Delivers, PlacesTyped
<1> QED
  BY <1>2, <1>3, <1>4, <1>5 DEF Delivers, PlacesTyped

LEMMA RecordAdvances ==
    ASSUME PlacesTyped, NEW w \in Workers, RecordTurn(w)
    PROVE  \E p : Advances(w, p)
<1>1. /\ pc[w] \in Posting <=> ledgerLock = w
      /\ status \in [Workers -> {"unposted", "completed", "failed", "done"}]
  BY DEF PlacesTyped
<1>2. CASE Enter(w)
  <2>1. Advances(w, "begin")
    BY <1>1, <1>2 DEF Enter, Advances, Places, Emitting, Posting
  <2> QED
    BY <2>1
<1>3. CASE Begin(w)
  <2>1. Advances(w, "idle") \/ Advances(w, "select")
    BY <1>1, <1>3 DEF Begin, Leave, Advances, Places, Emitting, Posting
  <2> QED
    BY <2>1
<1>4. CASE Select(w)
  <2>1. Advances(w, "idle") \/ Advances(w, "row")
    BY <1>1, <1>4 DEF Select, Leave, Advances, Places, Emitting, Posting
  <2> QED
    BY <2>1
<1>5. CASE Row(w)
  <2>1. Advances(w, "charge") \/ Advances(w, "session")
    BY <1>1, <1>5 DEF Row, Statement, locks, Advances, Places, Emitting, Posting
  <2> QED
    BY <2>1
<1>6. CASE ChargeEvent(w)
  <2>1. Advances(w, "session")
    BY <1>1, <1>6 DEF ChargeEvent, Statement, locks, Advances, Places, Emitting, Posting
  <2> QED
    BY <2>1
<1>7. CASE Session(w)
  <2>1. Advances(w, "total")
    BY <1>1, <1>7 DEF Session, Statement, locks, Advances, Places, Emitting, Posting
  <2> QED
    BY <2>1
<1>8. CASE Total(w)
  <2>1. Advances(w, "commit")
    BY <1>1, <1>8 DEF Total, Statement, locks, Advances, Places, Emitting, Posting
  <2> QED
    BY <2>1
<1>9. CASE CommitTurn(w)
  <2>1. Advances(w, "idle")
    BY <1>1, <1>9 DEF CommitTurn, Leave, Advances, Places, Emitting, Posting
  <2> QED
    BY <2>1
<1> QED
  BY <1>2, <1>3, <1>4, <1>5, <1>6, <1>7, <1>8, <1>9 DEF RecordTurn

\* What a step of the hub does to the places of the threads.
LEMMA HubDelivers ==
    ASSUME PlacesTyped, NEW t \in Threads, Emit(t) \/ Store(t) \/ (t = Service /\ Attach)
    PROVE  (\E p : Delivers(t, p)) \/ UNCHANGED <<pc, locks, status>>
<1>1. pc[t] \in Emitting <=> hubLock = t
  BY DEF PlacesTyped
<1>2. CASE Emit(t)
  <2>1. Delivers(t, "lookup") \/ UNCHANGED <<pc, locks, status>>
    BY <1>2 DEF Emit, locks, Delivers, Places, Emitting, Posting
  <2> QED
    BY <2>1
<1>3. CASE t = Service /\ Attach
  <2>1. Delivers(t, "lookup") \/ UNCHANGED <<pc, locks, status>>
    BY <1>3 DEF Attach, locks, Delivers, Places, Emitting, Posting
  <2> QED
    BY <2>1
<1>4. CASE Lookup(t)
  <2>1. Delivers(t, "idle") \/ Delivers(t, "lookup") \/ Delivers(t, "insert")
    BY <1>1, <1>4 DEF Lookup, NextEvent, Delivers, Places, Emitting, Posting
  <2> QED
    BY <2>1
<1>5. CASE Insert(t)
  <2>1. Delivers(t, "commitEvent")
    BY <1>1, <1>5 DEF Insert, locks, Delivers, Places, Emitting, Posting
  <2> QED
    BY <2>1
<1>6. CASE CommitEvent(t)
  <2>1. Delivers(t, "append")
    BY <1>1, <1>6 DEF CommitEvent, locks, Delivers, Places, Emitting, Posting
  <2> QED
    BY <2>1
<1>7. CASE AppendLog(t)
  <2>1. Delivers(t, "idle") \/ Delivers(t, "lookup")
    BY <1>1, <1>7 DEF AppendLog, NextEvent, Delivers, Places, Emitting, Posting
  <2> QED
    BY <2>1
<1> QED
  BY <1>2, <1>3, <1>4, <1>5, <1>6, <1>7 DEF Store

\* What the statements of a turn do to the data.
LEMMA RecordKeepsData ==
    ASSUME DataTyped, NEW w \in Workers, RecordTurn(w)
    PROVE  DataTyped' /\ UNCHANGED <<hub, sessions, crashed>>
<1>1. CASE Enter(w) \/ Begin(w) \/ Select(w) \/ CommitTurn(w)
  BY <1>1 DEF Enter, Begin, Select, CommitTurn, Commit, Rollback, database, DataTyped
<1>2. CASE Row(w)
  BY <1>2 DEF Row, Statement, Execute, DataTyped, Stored
<1>3. CASE ChargeEvent(w)
  BY <1>3 DEF ChargeEvent, Statement, Execute, DataTyped, Stored
<1>4. CASE Session(w)
  BY <1>4 DEF Session, Statement, Execute, DataTyped, Stored
<1>5. CASE Total(w)
  BY <1>5 DEF Total, Statement, Execute, DataTyped, Stored
<1> QED
  BY <1>1, <1>2, <1>3, <1>4, <1>5 DEF RecordTurn

\* The step a thread makes in its queue.
LEMMA NextEventKeepsQueue ==
    ASSUME HubTyped, NEW t \in Threads, queue[t] # <<>>, NextEvent(t)
    PROVE  /\ queue' \in [Threads -> Seq(StorageKeys)]
           /\ queue'[t] = Tail(queue[t])
           /\ \/ pc' = [pc EXCEPT ![t] = "idle"] /\ hubLock' = Nobody /\ queue'[t] = <<>>
              \/ pc' = [pc EXCEPT ![t] = "lookup"] /\ hubLock' = hubLock /\ queue'[t] # <<>>
<1>1. queue[t] \in Seq(StorageKeys) /\ Len(queue[t]) \in Nat /\ Len(queue[t]) # 0
  BY DEF HubTyped
<1>0. Len(<<>>) = 0
  OBVIOUS
<1>2. Tail(queue[t]) \in Seq(StorageKeys) /\ Len(Tail(queue[t])) = Len(queue[t]) - 1
  BY <1>1
<1>3. queue' = [queue EXCEPT ![t] = Tail(queue[t])]
  BY DEF NextEvent
<1>4. queue' \in [Threads -> Seq(StorageKeys)] /\ queue'[t] = Tail(queue[t])
  BY <1>2, <1>3 DEF HubTyped
<1>5. CASE Len(queue[t]) = 1
  <2>1. queue'[t] = <<>>
    BY <1>2, <1>4, <1>5
  <2> QED
    BY <1>4, <1>5, <2>1 DEF NextEvent, Goto
<1>6. CASE Len(queue[t]) # 1
  <2>1. queue'[t] # <<>>
    <3>1. Len(queue'[t]) # 0
      BY <1>1, <1>2, <1>4, <1>6
    <3> QED
      BY <1>0, <3>1
  <2> QED
    BY <1>4, <1>6, <2>1 DEF NextEvent, Goto
<1> QED
  BY <1>5, <1>6

Delivering == \A t \in Threads : pc[t] \in Emitting => attached /\ queue[t] # <<>>

LEMMA HeadWaits ==
    ASSUME HubTyped, Delivering, NEW t \in Threads, pc[t] \in Emitting
    PROVE  /\ attached /\ queue[t] # <<>> /\ queue[t] \in Seq(StorageKeys)
           /\ Head(queue[t]) \in StorageKeys
<1>1. queue[t] \in Seq(StorageKeys) /\ queue[t] # <<>> /\ attached
  BY DEF HubTyped, Delivering
<1> QED
  BY <1>1, HeadTailProperties

LEMMA EmitKeepsTypes ==
    ASSUME HubTyped, NEW t \in Threads, Emit(t)
    PROVE  HubTyped' /\ UNCHANGED database
<1>1. PICK e \in StorageKeys :
        /\ shown' = Append(shown, e)
        /\ IF attached
           THEN /\ queue' = [queue EXCEPT ![t] = <<e>>] /\ hubLock' = t /\ Goto(t, "lookup")
                /\ UNCHANGED pending
           ELSE pending' = Append(pending, e) /\ UNCHANGED <<queue, hubLock, pc>>
  BY DEF Emit
<1>2. /\ UNCHANGED <<database, attached, closed, log, sessions, crashed>>
      /\ emits' = emits + 1 /\ emits < MaxEmits
  BY DEF Emit
<1>3. <<e>> \in Seq(StorageKeys) /\ Append(shown, e) \in Seq(StorageKeys)
      /\ Append(pending, e) \in Seq(StorageKeys)
  BY DEF HubTyped
<1>4. queue' \in [Threads -> Seq(StorageKeys)] /\ pending' \in Seq(StorageKeys)
      /\ shown' \in Seq(StorageKeys)
  BY <1>1, <1>3 DEF HubTyped
<1>5. emits' \in 0 .. MaxEmits
  BY <1>2, LimitsAssumption DEF HubTyped
<1> QED
  BY <1>2, <1>4, <1>5 DEF HubTyped

LEMMA StoreKeepsTypes ==
    ASSUME DataTyped, HubTyped, Delivering, NEW t \in Threads, Store(t)
    PROVE  DataTyped' /\ HubTyped'
<1>1. pc[t] \in Emitting
  BY DEF Store, Lookup, Insert, CommitEvent, AppendLog, Emitting
<1>2. queue[t] # <<>> /\ Head(queue[t]) \in StorageKeys
  BY <1>1, HeadWaits
<1>3. CASE Lookup(t)
  <2>1. UNCHANGED <<database, pending, attached, closed, log, emits, shown, sessions, crashed>>
    BY <1>3 DEF Lookup
  <2>2. queue' \in [Threads -> Seq(StorageKeys)]
    BY <1>2, <1>3, NextEventKeepsQueue DEF Lookup, HubTyped
  <2> QED
    BY <2>1, <2>2 DEF database, DataTyped, HubTyped
<1>4. CASE Insert(t)
  <2>1. work' = [work EXCEPT !.events = @ \cup {Head(queue[t])}] /\ kept' = kept
        /\ inTransaction' = TRUE /\ UNCHANGED <<hub, sessions, crashed>>
    BY <1>4 DEF Insert, Execute
  <2>2. work' \in Stored
    BY <1>2, <2>1 DEF DataTyped, Stored
  <2> QED
    BY <2>1, <2>2 DEF hub, DataTyped, HubTyped
<1>5. CASE CommitEvent(t)
  BY <1>5 DEF CommitEvent, Commit, hub, DataTyped, HubTyped
<1>6. CASE AppendLog(t)
  <2>1. UNCHANGED <<database, pending, attached, closed, emits, shown, sessions, crashed>>
        /\ log' = Append(log, Head(queue[t]))
    BY <1>6 DEF AppendLog
  <2>2. queue' \in [Threads -> Seq(StorageKeys)]
    BY <1>2, <1>6, NextEventKeepsQueue DEF AppendLog
  <2>3. log' \in Seq(StorageKeys)
    BY <1>2, <2>1 DEF HubTyped
  <2> QED
    BY <2>1, <2>2, <2>3 DEF database, DataTyped, HubTyped
<1> QED
  BY <1>3, <1>4, <1>5, <1>6 DEF Store

LEMMA AttachKeepsTypes ==
    ASSUME HubTyped, Attach
    PROVE  HubTyped' /\ UNCHANGED database
<1>1. /\ queue' = queue \/ queue' = [queue EXCEPT ![Service] = pending]
      /\ pending' = <<>> /\ attached' = TRUE
      /\ UNCHANGED <<database, closed, log, emits, shown, sessions, crashed>>
  BY DEF Attach
<1> QED
  BY <1>1 DEF HubTyped

\* A new process holds no lock and nothing in memory.
LEMMA ProcessKeepsTypes ==
    ASSUME LedgerTypeOK, Process, status' \in [Workers -> {"unposted", "completed", "failed", "done"}],
           log' \in Seq(StorageKeys), shown' \in Seq(StorageKeys), closed' \in BOOLEAN,
           crashed' \in BOOLEAN, sessions' \in 0 .. SessionLimit
    PROVE  LedgerTypeOK'
<1>1. DataTyped'
  BY LedgerTypeParts DEF Process, DataTyped
<1>2. pc' = [t \in Threads |-> "idle"] /\ ledgerLock' = Nobody /\ hubLock' = Nobody
  BY DEF Process
<1>3. Nobody \notin Threads /\ \A w \in Workers : w \in Threads
  BY WorkerIsThread, ThreadsAssumption
<1>4. \A t \in Threads : pc'[t] = "idle"
  BY <1>2
<1>5. pc' \in [Threads -> Places]
  BY <1>2 DEF Places
<1>6. \A w \in Workers : pc'[w] \in Posting <=> ledgerLock' = w
  BY <1>2, <1>3, <1>4 DEF Posting
<1>7. \A t \in Threads : pc'[t] \in Emitting <=> hubLock' = t
  BY <1>2, <1>3, <1>4 DEF Emitting
<1>8. PlacesTyped'
  BY <1>2, <1>5, <1>6, <1>7 DEF PlacesTyped
<1>9. queue' = [t \in Threads |-> <<>>] /\ pending' = <<>> /\ attached' = FALSE /\ emits' = 0
  BY DEF Process
<1>10. HubTyped'
  <2>1. <<>> \in Seq(StorageKeys) /\ 0 \in 0 .. MaxEmits
    BY LimitsAssumption
  <2>2. queue' \in [Threads -> Seq(StorageKeys)]
    BY <1>9, <2>1
  <2> QED
    BY <1>9, <2>1, <2>2 DEF HubTyped
<1> QED
  BY <1>1, <1>8, <1>10 DEF LedgerTypeOK, DataTyped, PlacesTyped, HubTyped

LEMMA SessionsKeepLedgerTypes ==
    ASSUME LedgerTypeOK, NextSession \/ Close \/ Die \/ UNCHANGED ledgerVars
    PROVE  LedgerTypeOK'
<1>1. DataTyped /\ PlacesTyped /\ HubTyped
  BY LedgerTypeParts
<1>2. CASE NextSession
  <2>1. sessions' \in 0 .. SessionLimit
    BY <1>1, <1>2, LimitsAssumption DEF NextSession, HubTyped
  <2>2. /\ Process /\ status' = status /\ crashed' = crashed
        /\ log' = <<>> /\ shown' = <<>> /\ closed' = FALSE
    BY <1>2 DEF NextSession
  <2>3. /\ <<>> \in Seq(StorageKeys)
        /\ status' \in [Workers -> {"unposted", "completed", "failed", "done"}]
        /\ crashed' \in BOOLEAN
    BY <1>1, <2>2 DEF PlacesTyped, HubTyped
  <2> QED
    BY <2>1, <2>2, <2>3, ProcessKeepsTypes
<1>3. CASE Die
  <2>1. status' = [w \in Workers |-> IF status[w] = "unposted" THEN "unposted" ELSE "done"]
    BY <1>3 DEF Die
  <2>2. status' \in [Workers -> {"unposted", "completed", "failed", "done"}]
    BY <2>1
  <2> QED
    BY <1>1, <1>3, <2>2, ProcessKeepsTypes DEF Die, HubTyped
<1>4. CASE Close \/ UNCHANGED ledgerVars
  <2>1. /\ UNCHANGED <<kept, work, inTransaction, ledgerLock, hubLock, pc, status, queue, pending,
                       attached, log, emits, shown, sessions, crashed>>
        /\ closed' \in BOOLEAN
    BY <1>1, <1>4 DEF Close, ledgerVars, database, locks, hub, HubTyped
  <2> QED
    BY <2>1 DEF LedgerTypeOK
<1> QED
  BY <1>2, <1>3, <1>4

-----------------------------------------------------------------------------
(* The story of a session: what is logged, and what waits to be.             *)

Waiting == IF hubLock = Nobody THEN pending ELSE queue[hubLock]

StoryInv ==
    /\ LedgerTypeOK
    /\ Delivering
    /\ attached => pending = <<>>
    /\ InOrder(log \o Waiting, shown)

LEMMA StoryFacts ==
    ASSUME StoryInv
    PROVE  /\ DataTyped /\ PlacesTyped /\ HubTyped /\ Delivering
           /\ log \in Seq(StorageKeys) /\ shown \in Seq(StorageKeys) /\ pending \in Seq(StorageKeys)
           /\ Waiting \in Seq(StorageKeys)
           /\ \A t \in Threads : pc[t] \in Emitting <=> hubLock = t
           /\ Nobody \notin Threads
<1>1. DataTyped /\ PlacesTyped /\ HubTyped /\ Delivering
  BY LedgerTypeParts DEF StoryInv
<1>2. Waiting \in Seq(StorageKeys)
  BY <1>1 DEF Waiting, PlacesTyped, HubTyped
<1> QED
  BY <1>1, <1>2, ThreadsAssumption DEF PlacesTyped, HubTyped

\* A step of a thread leaves the others waiting as they do.
LEMMA OthersDeliver ==
    ASSUME StoryInv, NEW t \in Threads, attached => attached',
           \A u \in Threads : u # t => pc'[u] = pc[u] /\ queue'[u] = queue[u],
           pc'[t] \in Emitting => attached' /\ queue'[t] # <<>>
    PROVE  Delivering'
BY DEF StoryInv, Delivering

LEMMA EmitTells ==
    ASSUME StoryInv, NEW t \in Threads, Emit(t)
    PROVE  StoryInv'
<1>1. PICK e \in StorageKeys :
        /\ shown' = Append(shown, e)
        /\ IF attached
           THEN /\ queue' = [queue EXCEPT ![t] = <<e>>] /\ hubLock' = t /\ Goto(t, "lookup")
                /\ UNCHANGED pending
           ELSE pending' = Append(pending, e) /\ UNCHANGED <<queue, hubLock, pc>>
  BY DEF Emit
<1>2. hubLock = Nobody /\ UNCHANGED <<attached, log>>
  BY DEF Emit
<1>3. HubTyped' /\ DataTyped'
  BY EmitKeepsTypes, StoryFacts DEF database, DataTyped
<1>4. PlacesTyped'
  <2>1. ASSUME NEW p, Delivers(t, p)  PROVE PlacesTyped'
    BY <2>1, DeliveryKeepsPlaces, StoryFacts
  <2>2. CASE UNCHANGED <<pc, locks, status>>
    BY <2>2, StoryFacts DEF PlacesTyped, locks
  <2> QED
    BY <2>1, <2>2, HubDelivers, StoryFacts
<1>5. Waiting' = Append(Waiting, e) /\ Delivering' /\ (attached' => pending' = <<>>)
  <2>1. CASE attached
    <3>1. queue' = [queue EXCEPT ![t] = <<e>>] /\ hubLock' = t /\ pending' = pending
          /\ pc' = [pc EXCEPT ![t] = "lookup"]
      BY <1>1, <2>1 DEF Goto
    <3>2. queue'[t] = <<e>> /\ \A u \in Threads : u # t => pc'[u] = pc[u] /\ queue'[u] = queue[u]
      BY <3>1, StoryFacts DEF PlacesTyped, HubTyped
    <3>3. <<e>> = Append(<<>>, e) /\ <<e>> # <<>>
      OBVIOUS
    <3>4. Waiting = <<>> /\ Waiting' = <<e>>
      BY <1>2, <2>1, <3>1, <3>2, StoryFacts DEF Waiting, StoryInv
    <3>5. Delivering'
      BY <1>2, <2>1, <3>2, <3>3, OthersDeliver
    <3> QED
      BY <1>2, <2>1, <3>1, <3>3, <3>4, <3>5 DEF StoryInv
  <2>2. CASE ~attached
    <3>1. pending' = Append(pending, e) /\ UNCHANGED <<queue, hubLock, pc>>
      BY <1>1, <2>2
    <3> QED
      BY <1>2, <2>2, <3>1 DEF Waiting, Delivering, StoryInv
  <2> QED
    BY <2>1, <2>2
<1>6. InOrder(log \o Waiting, shown) /\ log' = log
  BY <1>2 DEF StoryInv
<1>7. InOrder(log' \o Waiting', shown')
  BY <1>1, <1>5, <1>6, StoryGrows, StoryFacts
<1>8. LedgerTypeOK'
  BY <1>3, <1>4, LedgerTypeParts
<1> QED
  BY <1>5, <1>7, <1>8 DEF StoryInv

LEMMA AttachTells ==
    ASSUME StoryInv, Attach
    PROVE  StoryInv'
<1>1. /\ hubLock = Nobody /\ attached' = TRUE /\ pending' = <<>> /\ UNCHANGED <<log, shown>>
      /\ IF pending = <<>> THEN UNCHANGED <<queue, hubLock, pc>>
         ELSE /\ queue' = [queue EXCEPT ![Service] = pending]
              /\ hubLock' = Service /\ Goto(Service, "lookup")
  BY DEF Attach
<1>2. HubTyped' /\ DataTyped'
  BY AttachKeepsTypes, StoryFacts DEF database, DataTyped
<1>3. PICK t \in Threads : t = Service
  BY DEF Threads
<1>4. PlacesTyped'
  <2>1. ASSUME NEW p, Delivers(t, p)  PROVE PlacesTyped'
    BY <2>1, DeliveryKeepsPlaces, StoryFacts
  <2>2. CASE UNCHANGED <<pc, locks, status>>
    BY <2>2, StoryFacts DEF PlacesTyped, locks
  <2> QED
    BY <1>3, <2>1, <2>2, HubDelivers, StoryFacts
<1>5. Waiting' = Waiting /\ Delivering'
  <2>1. CASE pending = <<>>
    BY <1>1, <2>1 DEF Waiting, Delivering, StoryInv
  <2>2. CASE pending # <<>>
    <3>1. queue' = [queue EXCEPT ![t] = pending] /\ hubLock' = t
          /\ pc' = [pc EXCEPT ![t] = "lookup"]
      BY <1>1, <1>3, <2>2 DEF Goto
    <3>2. queue'[t] = pending /\ \A u \in Threads : u # t => pc'[u] = pc[u] /\ queue'[u] = queue[u]
      BY <3>1, StoryFacts DEF PlacesTyped, HubTyped
    <3>3. Delivering'
      BY <1>1, <2>2, <3>2, OthersDeliver
    <3> QED
      BY <1>1, <3>1, <3>2, <3>3, StoryFacts DEF Waiting
  <2> QED
    BY <2>1, <2>2
<1>6. LedgerTypeOK'
  BY <1>2, <1>4, LedgerTypeParts
<1> QED
  BY <1>1, <1>5, <1>6 DEF StoryInv

LEMMA StoreTells ==
    ASSUME StoryInv, NEW t \in Threads, Store(t)
    PROVE  StoryInv'
<1>1. pc[t] \in Emitting
  BY DEF Store, Lookup, Insert, CommitEvent, AppendLog, Emitting
<1>2. /\ attached /\ queue[t] # <<>> /\ queue[t] \in Seq(StorageKeys)
      /\ Head(queue[t]) \in StorageKeys /\ hubLock = t /\ pending = <<>> /\ Waiting = queue[t]
      /\ t # Nobody
  BY <1>1, HeadWaits, StoryFacts DEF Waiting, StoryInv
<1>3. DataTyped' /\ HubTyped'
  BY StoreKeepsTypes, StoryFacts
<1>4. /\ PlacesTyped'
      /\ \A u \in Threads : u # t => pc'[u] = pc[u]
  <2>1. ASSUME NEW p, Delivers(t, p)
        PROVE  PlacesTyped' /\ \A u \in Threads : u # t => pc'[u] = pc[u]
    BY <2>1, DeliveryKeepsPlaces, StoryFacts
  <2>2. CASE UNCHANGED <<pc, locks, status>>
    BY <2>2, StoryFacts DEF PlacesTyped, locks
  <2> QED
    BY <2>1, <2>2, HubDelivers, StoryFacts
<1>5. LedgerTypeOK'
  BY <1>3, <1>4, LedgerTypeParts
<1>6. UNCHANGED <<attached, pending, shown>>
  BY DEF Store, Lookup, Insert, CommitEvent, AppendLog, hub
<1>7. CASE Insert(t) \/ CommitEvent(t) \/ (Lookup(t) /\ ~NextEvent(t))
  <2>1. UNCHANGED <<queue, log, hubLock>>
    BY <1>7 DEF Insert, CommitEvent, Lookup, hub, locks
  <2>2. Waiting' = Waiting
    BY <1>6, <2>1 DEF Waiting
  <2>3. Delivering'
    BY <1>2, <1>4, <1>6, <2>1, OthersDeliver
  <2> QED
    BY <1>2, <1>5, <1>6, <2>1, <2>2, <2>3 DEF StoryInv
<1>8. CASE (Lookup(t) /\ NextEvent(t)) \/ AppendLog(t)
  <2>1. NextEvent(t) /\ (log' = log \/ log' = Append(log, Head(queue[t])))
    BY <1>8 DEF Lookup, AppendLog
  <2>2. /\ queue'[t] = Tail(queue[t])
        /\ \/ pc' = [pc EXCEPT ![t] = "idle"] /\ hubLock' = Nobody /\ queue'[t] = <<>>
           \/ pc' = [pc EXCEPT ![t] = "lookup"] /\ hubLock' = hubLock /\ queue'[t] # <<>>
    BY <1>2, <2>1, NextEventKeepsQueue, StoryFacts
  <2>3. queue' = [queue EXCEPT ![t] = Tail(queue[t])]
    BY <2>1 DEF NextEvent
  <2>4. \A u \in Threads : u # t => pc'[u] = pc[u] /\ queue'[u] = queue[u]
    BY <1>4, <2>3, StoryFacts DEF HubTyped
  <2>5. pc'[t] \in Emitting => queue'[t] # <<>>
    BY <2>2, StoryFacts DEF PlacesTyped, Emitting
  <2>6. Delivering'
    BY <1>2, <1>6, <2>4, <2>5, OthersDeliver
  <2>7. Waiting' = Tail(queue[t])
    BY <1>2, <1>6, <2>2 DEF Waiting
  <2>8. InOrder(log \o queue[t], shown)
    BY <1>2 DEF StoryInv
  <2>9. InOrder(log' \o Waiting', shown)
    <3> DEFINE q == queue[t]
    <3>1. log \in Seq(StorageKeys) /\ q \in Seq(StorageKeys) /\ q # <<>>
      BY <1>2, StoryFacts
    <3>2. InOrder(log \o q, shown)
      BY <2>8
    <3>3. Waiting' = Tail(q) /\ (log' = log \/ log' = Append(log, Head(q)))
      BY <2>1, <2>7
    <3> HIDE DEF q
    <3>4. InOrder(log \o Tail(q), shown) /\ InOrder(Append(log, Head(q)) \o Tail(q), shown)
      BY <3>1, <3>2, StoryGoesOn
    <3> QED
      BY <3>3, <3>4
  <2> QED
    BY <1>2, <1>5, <1>6, <2>6, <2>9 DEF StoryInv
<1> QED
  BY <1>7, <1>8 DEF Store

LEMMA RecordTellsNothing ==
    ASSUME StoryInv, NEW w \in Workers, RecordTurn(w)
    PROVE  StoryInv'
<1>1. w \in Threads
  BY WorkerIsThread
<1>2. DataTyped' /\ UNCHANGED <<hub, sessions, crashed>>
  BY RecordKeepsData, StoryFacts
<1>3. PICK p : Advances(w, p)
  BY RecordAdvances, StoryFacts
<1>4. PlacesTyped' /\ pc'[w] = p /\ \A u \in Threads : u # w => pc'[u] = pc[u]
  BY <1>3, AdvanceKeepsPlaces, StoryFacts
<1>5. HubTyped'
  BY <1>2, StoryFacts DEF hub, HubTyped
<1>6. LedgerTypeOK'
  BY <1>2, <1>4, <1>5, LedgerTypeParts
<1>7. pc'[w] \notin Emitting /\ hubLock' = hubLock
  BY <1>3, <1>4 DEF Advances
<1>8. UNCHANGED <<queue, pending, attached, log, shown>>
  BY <1>2 DEF hub
<1>9. Delivering'
  BY <1>1, <1>4, <1>7, <1>8, OthersDeliver
<1>10. Waiting' = Waiting
  BY <1>7, <1>8 DEF Waiting
<1> QED
  BY <1>6, <1>8, <1>9, <1>10 DEF StoryInv

LEMMA ProcessTells ==
    ASSUME StoryInv, Process, LedgerTypeOK', InOrder(log', shown')
    PROVE  StoryInv'
<1>1. /\ hubLock' = Nobody /\ pc' = [t \in Threads |-> "idle"] /\ pending' = <<>>
      /\ attached' = FALSE
  BY DEF Process
<1>2. Waiting' = <<>>
  BY <1>1 DEF Waiting
<1>3. Delivering'
  BY <1>1 DEF Delivering, Emitting
<1>4. log' \o Waiting' = log'
  BY <1>2, ConcatEmptySeq DEF LedgerTypeOK
<1> QED
  BY <1>1, <1>3, <1>4 DEF StoryInv

LEMMA NothingInOrder == InOrder(<<>>, <<>>)
<1> DEFINE f == [i \in {} |-> i]
<1>1. f \in [DOMAIN <<>> -> DOMAIN <<>>] /\ DOMAIN <<>> = {}
  OBVIOUS
<1> QED
  BY <1>1 DEF InOrder

LEMMA StoryStep == StoryInv /\ [LedgerNext]_ledgerVars => StoryInv'
<1> SUFFICES ASSUME StoryInv, [LedgerNext]_ledgerVars PROVE StoryInv'
  OBVIOUS
<1>1. CASE NextSession
  <2>1. LedgerTypeOK' /\ log' = <<>> /\ shown' = <<>> /\ Process
    BY <1>1, SessionsKeepLedgerTypes DEF StoryInv, NextSession
  <2> QED
    BY <2>1, NothingInOrder, ProcessTells
<1>2. CASE Die
  <2>1. LedgerTypeOK' /\ log' = log /\ shown' = shown /\ Process
    BY <1>2, SessionsKeepLedgerTypes DEF StoryInv, Die
  <2>2. InOrder(log, shown)
    BY StoryTold, StoryFacts DEF StoryInv
  <2> QED
    BY <2>1, <2>2, ProcessTells
<1>3. CASE Close \/ UNCHANGED ledgerVars
  <2>1. LedgerTypeOK'
    BY <1>3, SessionsKeepLedgerTypes DEF StoryInv
  <2>2. UNCHANGED <<hubLock, pc, queue, pending, attached, log, shown>>
    BY <1>3 DEF Close, ledgerVars, hub, locks
  <2> QED
    BY <2>1, <2>2 DEF StoryInv, Delivering, Waiting
<1> QED
  BY <1>1, <1>2, <1>3, AttachTells, RecordTellsNothing, EmitTells, StoreTells DEF LedgerNext

LEMMA StoryAtFirst == LedgerInit => StoryInv
<1> SUFFICES ASSUME LedgerInit PROVE StoryInv
  OBVIOUS
<1>1. DataTyped
  BY DEF LedgerInit, DataTyped, Stored, Empty
<1>2. Nobody \notin Threads /\ \A w \in Workers : w \in Threads
  BY WorkerIsThread, ThreadsAssumption
<1>3. /\ pc = [t \in Threads |-> "idle"] /\ \A t \in Threads : pc[t] = "idle"
      /\ ledgerLock = Nobody /\ hubLock = Nobody
      /\ status \in [Workers -> {"unposted", "completed", "failed", "done"}]
  BY DEF LedgerInit
<1>4. PlacesTyped
  <2>1. \A w \in Workers : pc[w] \in Posting <=> ledgerLock = w
    BY <1>2, <1>3 DEF Posting
  <2>2. \A t \in Threads : pc[t] \in Emitting <=> hubLock = t
    BY <1>2, <1>3 DEF Emitting
  <2>3. pc \in [Threads -> Places]
    BY <1>3 DEF Places
  <2> QED
    BY <1>3, <2>1, <2>2, <2>3 DEF PlacesTyped
<1>5. /\ queue = [t \in Threads |-> <<>>] /\ pending = <<>> /\ log = <<>> /\ shown = <<>>
      /\ attached = FALSE /\ closed = FALSE /\ emits = 0 /\ sessions = 0 /\ crashed = FALSE
  BY DEF LedgerInit
<1>6. HubTyped
  <2>1. <<>> \in Seq(StorageKeys) /\ 0 \in 0 .. MaxEmits /\ 0 \in 0 .. SessionLimit
    BY LimitsAssumption
  <2>2. queue \in [Threads -> Seq(StorageKeys)]
    BY <1>5, <2>1
  <2> QED
    BY <1>5, <2>1, <2>2 DEF HubTyped
<1>7. LedgerTypeOK
  BY <1>1, <1>4, <1>6, LedgerTypeParts
<1>8. Delivering
  BY <1>3 DEF Delivering, Emitting
<1>9. log \o Waiting = <<>>
  BY <1>3, <1>5 DEF Waiting
<1> QED
  BY <1>5, <1>7, <1>8, <1>9, NothingInOrder DEF StoryInv

\* The connection and the hub are well formed; each lock is held by the thread
\* whose place in the code is under it.
THEOREM LedgerTypeInvariant == LedgerSpec => []LedgerTypeOK
<1>1. StoryInv => LedgerTypeOK
  BY DEF StoryInv
<1> QED
  BY <1>1, StoryAtFirst, StoryStep, PTL DEF LedgerSpec

\* For any threads and keys and any number of events, events.jsonl tells events
\* in the order in which the sinks were given them, those from before the session
\* was attached first (ExperimentEventHub.emit, attach_session, SessionManager.event).
THEOREM EventsLoggedInOrder == LedgerSpec => []LogInOrder
<1>1. StoryInv => LogInOrder
  <2> SUFFICES ASSUME StoryInv PROVE LogInOrder
    OBVIOUS
  <2>1. InOrder(log, shown)
    BY StoryTold, StoryFacts DEF StoryInv
  <2> QED
    BY <2>1 DEF InOrder, LogInOrder
<1> QED
  BY <1>1, StoryAtFirst, StoryStep, PTL DEF LedgerSpec

-----------------------------------------------------------------------------
(***************************************************************************)
(* The accounts of a turn that is being posted, statement by statement.    *)
(* What the connection sees depends on the place of the one worker under   *)
(* the lock of the ledger; what is committed meanwhile is any prefix of    *)
(* its statements, which the commit of an event may have cut, and is whole *)
(* again before the lock is released: the worker rolls back only before    *)
(* its first statement, and its own commit writes all it has done.         *)
(***************************************************************************)

Tokens(w) == IF Succeeds(w) THEN 1 ELSE 0

PostingStands(w) ==
    /\ pc[w] \in {"begin", "select", "row"} => Balanced(kept) /\ Balanced(work)
    /\ pc[w] = "row" => w \notin work.completed
    /\ pc[w] = "charge" =>
          /\ Succeeds(w) /\ w \notin work.charged /\ work.completed = work.charged \cup {w}
          /\ work.session = Cardinality(work.charged) /\ work.total = Cardinality(work.charged)
    /\ pc[w] \in {"session", "total"} =>
          /\ work.completed = work.charged
          /\ Cardinality(work.completed) = work.total + Tokens(w)
    /\ pc[w] = "session" => Cardinality(work.completed) = work.session + Tokens(w)
    /\ pc[w] = "total" => Cardinality(work.completed) = work.session
    /\ pc[w] = "commit" => Balanced(work)

FiniteAccounts == IsFiniteSet(work.charged) /\ IsFiniteSet(work.completed) /\ IsFiniteSet(kept.completed)
                  /\ IsFiniteSet(kept.charged)

AccountsInv ==
    /\ FiniteAccounts
    /\ sessions = 0 => ~attached
    /\ ~crashed =>
          /\ ledgerLock = Nobody => Balanced(kept) /\ Balanced(work)
          /\ \A w \in Workers : PostingStands(w)
          /\ closed => \A w \in Workers : status[w] = "done"
          /\ closed \/ sessions = 0 => ledgerLock = Nobody

\* The others are not posting.
LEMMA OthersNotPosting ==
    ASSUME PlacesTyped', NEW w \in Workers, ledgerLock' \in {Nobody, w}, NEW u \in Workers, u # w
    PROVE  PostingStands(u)'
<1>1. u # Nobody
  BY WorkerIsThread
<1>2. pc'[u] \notin Posting
  BY <1>1 DEF PlacesTyped
<1> QED
  BY <1>2 DEF PostingStands, Posting

LEMMA OneMore ==
    ASSUME NEW S, IsFiniteSet(S), NEW x, x \notin S
    PROVE  IsFiniteSet(S \cup {x}) /\ Cardinality(S \cup {x}) = Cardinality(S) + 1
           /\ Cardinality(S) \in Nat
BY FS_AddElement, FS_CardinalityType

\* A balanced account, number by number.
LEMMA BalancedIs ==
    ASSUME NEW db
    PROVE  Balanced(db) <=> /\ db.completed = db.charged
                            /\ db.session = Cardinality(db.completed)
                            /\ db.total = Cardinality(db.completed)
BY DEF Balanced

\* The statements between BEGIN IMMEDIATE and COMMIT.
LEMMA StatementsAccount ==
    ASSUME FiniteAccounts, DataTyped, NEW w \in Workers, PlacesTyped, PlacesTyped', PostingStands(w),
           Row(w) \/ ChargeEvent(w) \/ Session(w) \/ Total(w), status' = status
    PROVE  PostingStands(w)' /\ FiniteAccounts'
<1>1. w \in Threads /\ Tokens(w)' = Tokens(w) /\ Tokens(w) \in {0, 1}
      /\ (Succeeds(w)' <=> Succeeds(w))
  BY WorkerIsThread DEF Tokens, Succeeds
<1>2. /\ kept' = kept /\ work.session \in Nat /\ work.total \in Nat
      /\ Cardinality(work.charged) \in Nat /\ Cardinality(work.completed) \in Nat
  BY FS_CardinalityType DEF Row, ChargeEvent, Session, Total, Statement, Execute, DataTyped, Stored,
     FiniteAccounts
<1>3. CASE Row(w) /\ Succeeds(w)
  <2>1. /\ work' = [work EXCEPT !.completed = @ \cup {w}, !.failed = @ \ {w}]
        /\ pc' = [pc EXCEPT ![w] = "charge"] /\ pc[w] = "row"
    BY <1>3 DEF Row, Statement, Execute, Goto
  <2>2. /\ work'.completed = work.completed \cup {w} /\ work'.charged = work.charged
        /\ work'.session = work.session /\ work'.total = work.total
    BY <2>1 DEF DataTyped, Stored
  <2>3. pc'[w] = "charge"
    BY <1>1, <2>1 DEF PlacesTyped
  <2>4. w \notin work.completed /\ Balanced(work)
    BY <2>1 DEF PostingStands
  <2>5. FiniteAccounts'
    BY <1>2, <2>2, <2>4, OneMore DEF FiniteAccounts
  <2> QED
    BY <1>1, <1>3, <2>2, <2>3, <2>4, <2>5, BalancedIs DEF PostingStands
<1>4. CASE Row(w) /\ ~Succeeds(w)
  <2>1. /\ work' = [work EXCEPT !.failed = @ \cup {w}]
        /\ pc' = [pc EXCEPT ![w] = "session"] /\ pc[w] = "row"
    BY <1>4 DEF Row, Statement, Execute, Goto
  <2>2. /\ work'.completed = work.completed /\ work'.charged = work.charged
        /\ work'.session = work.session /\ work'.total = work.total
    BY <2>1 DEF DataTyped, Stored
  <2>3. pc'[w] = "session" /\ Tokens(w) = 0
    BY <1>1, <1>4, <2>1 DEF PlacesTyped, Tokens
  <2>4. Balanced(work)
    BY <2>1 DEF PostingStands
  <2>5. FiniteAccounts'
    BY <1>2, <2>2 DEF FiniteAccounts
  <2> QED
    BY <1>1, <1>2, <2>2, <2>3, <2>4, <2>5, BalancedIs DEF PostingStands
<1>5. CASE ChargeEvent(w)
  <2>1. /\ work' = [work EXCEPT !.charged = @ \cup {w}]
        /\ pc' = [pc EXCEPT ![w] = "session"] /\ pc[w] = "charge"
    BY <1>5 DEF ChargeEvent, Statement, Execute, Goto
  <2>2. /\ work'.completed = work.completed /\ work'.charged = work.charged \cup {w}
        /\ work'.session = work.session /\ work'.total = work.total
    BY <2>1 DEF DataTyped, Stored
  <2>3. pc'[w] = "session"
    BY <1>1, <2>1 DEF PlacesTyped
  <2>4. /\ Succeeds(w) /\ w \notin work.charged /\ work.completed = work.charged \cup {w}
        /\ work.session = Cardinality(work.charged) /\ work.total = Cardinality(work.charged)
    BY <2>1 DEF PostingStands
  <2>5. Tokens(w) = 1
    BY <2>4 DEF Tokens
  <2>6. Cardinality(work.completed) = Cardinality(work.charged) + 1
    BY <2>4, OneMore DEF FiniteAccounts
  <2>7. FiniteAccounts'
    BY <1>2, <2>2, <2>4 DEF FiniteAccounts
  <2> QED
    BY <1>1, <2>2, <2>3, <2>4, <2>5, <2>6, <2>7 DEF PostingStands
<1>6. CASE Session(w)
  <2>1. /\ work' = [work EXCEPT !.session = @ + Tokens(w)]
        /\ pc' = [pc EXCEPT ![w] = "total"] /\ pc[w] = "session"
    BY <1>6 DEF Session, Statement, Execute, Goto, Tokens
  <2>2. /\ work'.completed = work.completed /\ work'.charged = work.charged
        /\ work'.session = work.session + Tokens(w) /\ work'.total = work.total
    BY <2>1 DEF DataTyped, Stored
  <2>3. pc'[w] = "total"
    BY <1>1, <2>1 DEF PlacesTyped
  <2>4. FiniteAccounts'
    BY <1>2, <2>2 DEF FiniteAccounts
  <2> QED
    BY <1>1, <2>1, <2>2, <2>3, <2>4 DEF PostingStands
<1>7. CASE Total(w)
  <2>1. /\ work' = [work EXCEPT !.total = @ + Tokens(w)]
        /\ pc' = [pc EXCEPT ![w] = "commit"] /\ pc[w] = "total"
    BY <1>7 DEF Total, Statement, Execute, Goto, Tokens
  <2>2. /\ work'.completed = work.completed /\ work'.charged = work.charged
        /\ work'.session = work.session /\ work'.total = work.total + Tokens(w)
    BY <2>1 DEF DataTyped, Stored
  <2>3. pc'[w] = "commit"
    BY <1>1, <2>1 DEF PlacesTyped
  <2>4. FiniteAccounts'
    BY <1>2, <2>2 DEF FiniteAccounts
  <2>5. /\ work.completed = work.charged
        /\ Cardinality(work.completed) = work.total + Tokens(w)
        /\ Cardinality(work.completed) = work.session
    BY <2>1 DEF PostingStands
  <2>6. Balanced(work')
    BY <2>2, <2>5, BalancedIs
  <2> QED
    BY <2>3, <2>4, <2>6 DEF PostingStands, Balanced
<1> QED
  BY <1>3, <1>4, <1>5, <1>6, <1>7

\* The ends of a posting: both views of the database are balanced.
LEMMA EndsAccount ==
    ASSUME PlacesTyped, NEW w \in Workers, PlacesTyped',
           ledgerLock = Nobody => Balanced(kept) /\ Balanced(work), PostingStands(w),
           Enter(w) \/ Begin(w) \/ Select(w) \/ CommitTurn(w)
    PROVE  /\ Balanced(kept') /\ Balanced(work')
           /\ pc'[w] \in {"idle", "begin", "select", "row"}
           /\ pc'[w] = "row" => w \notin work'.completed
<1>1. w \in Threads
  BY WorkerIsThread
<1>2. CASE Enter(w)
  BY <1>1, <1>2 DEF Enter, Goto, database, PlacesTyped
<1>3. CASE Begin(w)
  BY <1>1, <1>3 DEF Begin, Rollback, Leave, Goto, PlacesTyped, PostingStands
<1>4. CASE Select(w)
  BY <1>1, <1>4 DEF Select, Rollback, Leave, Goto, database, PlacesTyped, PostingStands
<1>5. CASE CommitTurn(w)
  BY <1>1, <1>5 DEF CommitTurn, Commit, Leave, Goto, PlacesTyped, PostingStands
<1> QED
  BY <1>2, <1>3, <1>4, <1>5

LEMMA RecordAccounts ==
    ASSUME StoryInv, AccountsInv, NEW w \in Workers, RecordTurn(w)
    PROVE  AccountsInv'
<1>1. PICK p : Advances(w, p)
  BY RecordAdvances, StoryFacts
<1>2. PlacesTyped' /\ ledgerLock' \in {Nobody, w}
  BY <1>1, AdvanceKeepsPlaces, StoryFacts DEF Advances
<1>3. UNCHANGED <<attached, closed, sessions, crashed>>
  BY RecordKeepsData, StoryFacts DEF hub
<1>4. FiniteAccounts'
  <2>1. CASE Enter(w) \/ Begin(w) \/ Select(w) \/ CommitTurn(w)
    BY <2>1 DEF AccountsInv, FiniteAccounts, Enter, Begin, Select, CommitTurn, Commit, Rollback, database
  <2>2. CASE Row(w) \/ ChargeEvent(w) \/ Session(w) \/ Total(w)
    <3>1. kept' = kept
      BY <2>2 DEF Row, ChargeEvent, Session, Total, Statement, Execute
    <3>2. /\ work'.completed \in {work.completed, work.completed \cup {w}}
          /\ work'.charged \in {work.charged, work.charged \cup {w}}
      BY <2>2, StoryFacts DEF Row, ChargeEvent, Session, Total, Statement, Execute, DataTyped, Stored
    <3>3. IsFiniteSet(work.completed \cup {w}) /\ IsFiniteSet(work.charged \cup {w})
      BY FS_AddElement DEF AccountsInv, FiniteAccounts
    <3> QED
      BY <3>1, <3>2, <3>3 DEF AccountsInv, FiniteAccounts
  <2> QED
    BY <2>1, <2>2 DEF RecordTurn
<1> SUFFICES ASSUME ~crashed
             PROVE  /\ ledgerLock' = Nobody => Balanced(kept') /\ Balanced(work')
                    /\ PostingStands(w)'
                    /\ closed => \A u \in Workers : status'[u] = "done"
                    /\ closed \/ sessions = 0 => ledgerLock' = Nobody
  BY <1>2, <1>3, <1>4, OthersNotPosting DEF AccountsInv, Balanced
<1>5. ~closed /\ sessions # 0
  <2>1. CASE Enter(w)
    BY <2>1 DEF Enter, AccountsInv
  <2>2. CASE ~Enter(w)
    <3>1. pc[w] \in Posting
      BY <2>2 DEF RecordTurn, Begin, Select, Row, ChargeEvent, Session, Total, Statement, CommitTurn,
                  Posting
    <3>2. ledgerLock # Nobody
      BY <3>1, StoryFacts, WorkerIsThread DEF PlacesTyped
    <3> QED
      BY <3>2 DEF AccountsInv
  <2> QED
    BY <2>1, <2>2
<1>6. CASE Enter(w) \/ Begin(w) \/ Select(w) \/ CommitTurn(w)
  <2>1. /\ Balanced(kept') /\ Balanced(work')
        /\ pc'[w] \in {"idle", "begin", "select", "row"}
        /\ pc'[w] = "row" => w \notin work'.completed
    BY <1>2, <1>6, EndsAccount, StoryFacts DEF AccountsInv
  <2>2. PostingStands(w)'
    BY <2>1 DEF PostingStands, Balanced
  <2> QED
    BY <1>5, <2>1, <2>2
<1>7. CASE Row(w) \/ ChargeEvent(w) \/ Session(w) \/ Total(w)
  <2>1. PostingStands(w)'
    BY <1>2, <1>7, StatementsAccount, StoryFacts
       DEF AccountsInv, Row, ChargeEvent, Session, Total, Statement
  <2>2. ledgerLock' = ledgerLock /\ pc[w] \in Posting
    BY <1>7 DEF Row, ChargeEvent, Session, Total, Statement, locks, Posting
  <2>3. ledgerLock' # Nobody
    BY <2>2, StoryFacts, WorkerIsThread DEF PlacesTyped
  <2> QED
    BY <1>5, <2>1, <2>3
<1> QED
  BY <1>6, <1>7 DEF RecordTurn

\* An event adds nothing to the accounts; its commit makes them durable as far
\* as they have come.
LEMMA EventsAccountNothing ==
    ASSUME StoryInv, AccountsInv, NEW t \in Threads, Emit(t) \/ Store(t) \/ (t = Service /\ Attach)
    PROVE  AccountsInv'
<1>1. /\ ledgerLock' = ledgerLock /\ status' = status
      /\ \A w \in Workers : pc'[w] = pc[w] \/ (pc[w] \notin Posting /\ pc'[w] \notin Posting)
  <2>1. ASSUME NEW p, Delivers(t, p)
        PROVE  /\ ledgerLock' = ledgerLock /\ status' = status
               /\ \A w \in Workers : pc'[w] = pc[w] \/ (pc[w] \notin Posting /\ pc'[w] \notin Posting)
    BY <2>1, DeliveryKeepsPlaces, StoryFacts, WorkerIsThread DEF Delivers
  <2>2. CASE UNCHANGED <<pc, locks, status>>
    BY <2>2 DEF locks
  <2> QED
    BY <2>1, <2>2, HubDelivers, StoryFacts
<1>2. /\ kept' = kept \/ (kept' = work /\ work' = work)
      /\ work'.completed = work.completed /\ work'.charged = work.charged
      /\ work'.session = work.session /\ work'.total = work.total
  BY StoryFacts DEF Emit, Attach, Store, Lookup, Insert, Execute, CommitEvent, Commit, AppendLog,
     database, DataTyped, Stored
<1>3. /\ UNCHANGED <<closed, sessions, crashed>>
      /\ sessions = 0 => ~attached'
  BY DEF Emit, Attach, Store, Lookup, Insert, CommitEvent, AppendLog, hub, AccountsInv
<1>4. FiniteAccounts'
  BY <1>2 DEF AccountsInv, FiniteAccounts
<1>5. Balanced(work) => Balanced(work')
  BY <1>2 DEF Balanced
<1>6. Balanced(kept) /\ Balanced(work) => Balanced(kept')
  BY <1>2
<1>7. \A w \in Workers : PostingStands(w) => PostingStands(w)'
  <2> SUFFICES ASSUME NEW w \in Workers, PostingStands(w)  PROVE PostingStands(w)'
    OBVIOUS
  <2>1. Tokens(w)' = Tokens(w) /\ (Succeeds(w)' <=> Succeeds(w))
    BY <1>1 DEF Tokens, Succeeds
  <2>2. CASE pc'[w] = pc[w]
    <3>1. Balanced(work) => Balanced(work)'
      BY <1>5 DEF Balanced
    <3>2. Balanced(kept) /\ Balanced(work) => Balanced(kept)'
      BY <1>6 DEF Balanced
    <3> QED
      BY <1>2, <2>1, <2>2, <3>1, <3>2 DEF PostingStands
  <2>3. CASE pc'[w] \notin Posting
    BY <2>3 DEF PostingStands, Posting
  <2> QED
    BY <1>1, <2>2, <2>3
<1>8. ledgerLock' = Nobody /\ ~crashed => Balanced(kept)' /\ Balanced(work)'
  BY <1>1, <1>5, <1>6 DEF AccountsInv, Balanced
<1> QED
  BY <1>1, <1>3, <1>4, <1>7, <1>8 DEF AccountsInv

LEMMA AccountsStep == StoryInv /\ AccountsInv /\ [LedgerNext]_ledgerVars => AccountsInv'
<1> SUFFICES ASSUME StoryInv, AccountsInv, [LedgerNext]_ledgerVars PROVE AccountsInv'
  OBVIOUS
<1>1. CASE NextSession
  <2>1. /\ work' = kept /\ kept' = kept /\ attached' = FALSE /\ ledgerLock' = Nobody
        /\ pc' = [t \in Threads |-> "idle"] /\ closed' = FALSE /\ crashed' = crashed
        /\ sessions = 0 \/ closed
    BY <1>1 DEF NextSession, Process
  <2>2. ~crashed => Balanced(kept)
    BY <2>1 DEF AccountsInv
  <2>3. \A w \in Workers : PostingStands(w)'
    BY <2>1, WorkerIsThread DEF PostingStands
  <2> QED
    BY <2>1, <2>2, <2>3 DEF AccountsInv, FiniteAccounts, Balanced
<1>2. CASE Die
  BY <1>2 DEF Die, Process, AccountsInv, FiniteAccounts
<1>3. CASE Close
  <2>1. /\ \A w \in Workers : pc[w] = "idle" /\ status[w] = "done"
        /\ UNCHANGED <<kept, work, ledgerLock, pc, status, attached, sessions, crashed>>
    BY <1>3 DEF Close, database, locks
  <2>2. ledgerLock = Nobody
    BY <2>1, StoryFacts DEF PlacesTyped, Posting
  <2> QED
    BY <2>1, <2>2 DEF AccountsInv, FiniteAccounts, PostingStands, Balanced, Tokens, Succeeds
<1>4. CASE UNCHANGED ledgerVars
  <2>1. UNCHANGED <<kept, work, ledgerLock, pc, status, attached, closed, sessions, crashed>>
    BY <1>4 DEF ledgerVars, database, locks, hub
  <2> QED
    BY <2>1 DEF AccountsInv, FiniteAccounts, PostingStands, Balanced, Tokens, Succeeds
<1>5. CASE Attach
  BY <1>5, EventsAccountNothing DEF Threads
<1> QED
  BY <1>1, <1>2, <1>3, <1>4, <1>5, RecordAccounts, EventsAccountNothing DEF LedgerNext

LEMMA AccountsAtFirst == LedgerInit => AccountsInv
<1> SUFFICES ASSUME LedgerInit PROVE AccountsInv
  OBVIOUS
<1>1. /\ kept.completed = {} /\ kept.charged = {} /\ kept.session = 0 /\ kept.total = 0 /\ work = kept
      /\ attached = FALSE /\ closed = FALSE /\ ledgerLock = Nobody
      /\ \A t \in Threads : pc[t] = "idle"
  BY DEF LedgerInit, Empty
<1>2. IsFiniteSet({}) /\ Cardinality({}) = 0
  BY FS_EmptySet
<1>3. Balanced(kept)
  BY <1>1, <1>2, BalancedIs
<1>4. \A w \in Workers : PostingStands(w)
  BY <1>1, WorkerIsThread DEF PostingStands
<1> QED
  BY <1>1, <1>2, <1>3, <1>4 DEF AccountsInv, FiniteAccounts

\* For any workers, heartbeats and events: as long as no process has died, the
\* rows, the charges and the totals that are committed agree whenever no turn is
\* being posted, although every commit on the connection ends the transaction of
\* whoever began it (record_provider_turn, write_event).
THEOREM AccountsWhole == LedgerSpec => []WholeBetweenRecords
<1>1. StoryInv /\ AccountsInv => WholeBetweenRecords
  BY DEF AccountsInv, WholeBetweenRecords
<1>2. StoryInv /\ AccountsInv /\ [LedgerNext]_ledgerVars => StoryInv' /\ AccountsInv'
  BY StoryStep, AccountsStep
<1> QED
  BY <1>1, <1>2, StoryAtFirst, AccountsAtFirst, PTL DEF LedgerSpec

=============================================================================
