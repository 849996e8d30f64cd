---------------------- MODULE GenerationCoordinatorProofs ----------------------
(* Theorems about GenerationCoordinator, for any bounds, answers and faults.   *)
EXTENDS GenerationCoordinator, FiniteSetTheorems, WellFoundedInduction, TLAPS

\* The coordinator is at work on the slots of its generation.
InGeneration == {"queue", "collect", "repair", "repairLoop", "repairCall", "repairWait",
                 "assemble", "selected", "advance"}
\* Every slot of the generation has a result.
Collected == InGeneration \ {"queue", "collect"}
\* A provider call may be open.
CallsOpen == {"queue", "collect", "repairWait", "abort"}
CutStatuses == {"stopped", "budget_exhausted"}

Checkpoint == [slots: [Keys -> SlotRecord], turns: Nat, next: 0 .. NumGens,
               callbacks: SUBSET Gens]

\* A pending repair has an attempt left.
AttemptLeft(rec) == rec.status = "repair_pending" => rec.repairs < MaxRepairs

(***************************************************************************)
(* Calls: an answer is kept or remembered only as one that was paid; only  *)
(* an open slot has a call, and its stored result is not final.            *)
(***************************************************************************)
CallOK(s) ==
    /\ calls[s].state \in {"answered", "recorded"} => calls[s].raw \in Paid
    /\ calls[s].state = "ready" => calls[s].raw # "none"
    /\ calls[s].retained => /\ calls[s].state \in {"answered", "recorded", "ready"}
                            /\ calls[s].raw \in Paid
    /\ calls[s].memory # "none" => calls[s].state \notin {"none", "answered", "recorded"}
    /\ calls[s].state # "none" =>
          /\ run.pc \in CallsOpen
          /\ run.pc = "queue" => s < run.slot
          /\ run.pc = "repairWait" => s = run.slot
          /\ run.pc # "abort" => ~Settled(Cached(s))

\* Charged answers whose row is not written, but may yet be.
Unrecorded == {s \in Slots : \/ calls[s].state \in {"answered", "recorded"}
                             \/ calls[s].memory # "none"}

\* The slots with a call, each on a reservation of its own.
Open == {s \in Slots : calls[s].state # "none"}

Accounts ==
    /\ TurnsAccounted
    /\ ledger + Cardinality(Unrecorded) <= spent
    /\ Cardinality(Open) <= cp.turns

(***************************************************************************)
(* Results: what the coordinator holds for a slot is what the checkpoint   *)
(* holds, but for slots a boundary cut; a cut is the reason of a stop.     *)
(***************************************************************************)
ResultOK(s) ==
    /\ AttemptLeft(run.results[s])
    /\ run.pc \in InGeneration =>
          /\ run.results[s].status \notin CutStatuses \cup {"absent"} =>
                Cached(s) = run.results[s]
          /\ run.reason = "none" => run.results[s].status \notin CutStatuses
    /\ (run.pc = "collect" \/ (run.pc = "queue" /\ s < run.slot)) =>
          calls[s].state # "none" \/ run.results[s].status # "absent"
    /\ run.pc \in Collected => run.results[s].status # "absent"

RunOK ==
    /\ run.pc # "off" => run.gen = cp.next
    /\ run.pc \in InGeneration \cup {"abort"} => run.gen < NumGens
    /\ run.pc \in {"repairCall", "repairWait"} => Item.status = "repair_running"

(***************************************************************************)
(* Parents: a generation is stored under the origin of its parents, and    *)
(* selected parents come from a selection in the database.                 *)
(***************************************************************************)
StoredOK(g, s, o) ==
    Stored(cp.slots[<<g, s, o>>]) =>
        /\ g <= cp.next
        /\ o = "selected" => g - 1 \in selections
        /\ g = run.gen /\ run.pc = "boundary" => o = ParentOrigin(run.gen)
        /\ g = run.gen /\ run.pc \in InGeneration => o = run.origin

ParentsOK ==
    /\ run.assigned.origin = "selected" => run.assigned.gen - 1 \in selections
    /\ run.pc \in InGeneration /\ run.origin = "selected" => run.gen - 1 \in selections

StoreOK ==
    /\ \A k \in Keys : AttemptLeft(cp.slots[k])
    /\ \A g \in Gens, s \in Slots, o \in Origins : StoredOK(g, s, o)

Inv ==
    /\ TypeOK
    /\ Accounts
    /\ \A s \in Slots : CallOK(s)
    /\ \A s \in Slots : ResultOK(s)
    /\ RunOK
    /\ ParentsOK
    /\ StoreOK
    /\ NextFollowsSettled
    /\ OneParentVector

-----------------------------------------------------------------------------
(* Slots, keys, bounds. *)

LEMMA SlotsFinite == IsFiniteSet(Slots)
<1>1. NumSlots \in Nat
  BY BoundsAssumption
<1> QED
  BY <1>1, FS_Interval DEF Slots

LEMMA SlotFacts ==
    /\ NumSlots \in Nat /\ NumSlots >= 1 /\ NumGens \in Nat /\ NumGens >= 1
    /\ MaxRepairs \in Nat /\ RetryLimit \in Nat /\ MaxTurns \in Nat /\ MaxTurns >= 1
    /\ MaxSessions \in Nat
  BY BoundsAssumption

LEMMA FiniteParts ==
    /\ IsFiniteSet(Unspent) /\ Cardinality(Unspent) \in Nat
    /\ IsFiniteSet(Unrecorded) /\ Cardinality(Unrecorded) \in Nat
    /\ IsFiniteSet(Open) /\ Cardinality(Open) \in Nat
<1>1. Unspent \subseteq Slots /\ Unrecorded \subseteq Slots /\ Open \subseteq Slots
  BY DEF Unspent, Unrecorded, Open
<1> QED
  BY <1>1, SlotsFinite, FS_Subset, FS_CardinalityType

\* A generation at work has its slots among the keys.
LEMMA KeyType ==
    ASSUME TypeOK, RunOK, run.pc \in InGeneration \cup {"abort"}, NEW s \in Slots
    PROVE  /\ run.gen \in Gens /\ run.origin \in Origins
           /\ Key(s) \in Keys /\ Cached(s) \in SlotRecord
<1>1. run.gen \in 0 .. NumGens /\ run.gen < NumGens /\ run.origin \in Origins
  BY DEF TypeOK, RunOK, Local
<1>2. run.gen \in Gens
  BY <1>1, SlotFacts DEF Gens
<1>3. Key(s) \in Keys
  BY <1>1, <1>2 DEF Key, Keys
<1> QED
  BY <1>1, <1>2, <1>3 DEF TypeOK, Cached

LEMMA GenType ==
    ASSUME TypeOK, RunOK, run.pc \in InGeneration \cup {"abort"}
    PROVE  run.gen \in Gens /\ run.gen \in Nat /\ run.gen < NumGens
<1>1. run.gen \in 0 .. NumGens /\ run.gen < NumGens
  BY DEF TypeOK, RunOK, Local
<1> QED
  BY <1>1, SlotFacts DEF Gens

LEMMA KeysDiffer ==
    ASSUME NEW s \in Slots, NEW t \in Slots, s # t
    PROVE  Key(s) # Key(t)
  BY DEF Key

LEMMA BudgetReasonType ==
    ASSUME NEW turns
    PROVE  BudgetReason(turns) \in BudgetReasons \cup {"none"}
  BY DEF BudgetReason, BudgetReasons

LEMMA SlotRecordType ==
    ASSUME NEW raw \in Raws
    PROVE  /\ \A reason : /\ Cut(reason, raw) \in SlotRecord /\ AttemptLeft(Cut(reason, raw))
                          /\ Cut(reason, raw).status \in CutStatuses
           /\ \A repairs \in Phases : /\ Assessed(raw, repairs) \in SlotRecord
                                      /\ AttemptLeft(Assessed(raw, repairs))
           /\ Absent \in SlotRecord /\ AttemptLeft(Absent) /\ Absent.status = "absent"
<1>1. 0 \in Phases
  BY SlotFacts DEF Phases
<1>2. \A reason : /\ Cut(reason, raw) \in SlotRecord /\ AttemptLeft(Cut(reason, raw))
                  /\ Cut(reason, raw).status \in CutStatuses
  BY <1>1 DEF Cut, SlotRecord, Statuses, AttemptLeft, CutStatuses
<1>3. \A repairs \in Phases : /\ Assessed(raw, repairs) \in SlotRecord
                              /\ AttemptLeft(Assessed(raw, repairs))
  BY SlotFacts DEF Assessed, SlotRecord, Statuses, AttemptLeft, Phases
<1> QED
  BY <1>1, <1>2, <1>3 DEF Absent, SlotRecord, Statuses, Raws, AttemptLeft

\* The largest member of a set of bounded numbers.
LEMMA LargestExists ==
    ASSUME NEW n \in Nat, NEW S, S \subseteq 0 .. n, S # {}
    PROVE  \E g \in S : \A h \in S : h <= g
<1> DEFINE T == {k \in Nat : \E g \in S : k = n - g}
<1>1. ASSUME NEW g \in S  PROVE g \in Nat /\ g <= n /\ n - g \in T
  OBVIOUS
<1>2. T \subseteq Nat /\ T # {}
  BY <1>1
<1>3. PICK x \in T : \A y \in T : ~ <<y, x>> \in OpToRel(<, Nat)
  BY <1>2, NatLessThanWellFounded, WFMin
<1>4. \A y \in T : ~ (y < x)
  BY <1>2, <1>3 DEF OpToRel
<1>5. PICK g \in S : x = n - g
  BY <1>3
<1>6. ASSUME NEW h \in S  PROVE h <= g
  <2>1. ~ (n - h < n - g)
    BY <1>1, <1>4, <1>5, <1>6
  <2> QED
    BY <1>1, <1>5, <1>6, <2>1
<1> QED
  BY <1>6

-----------------------------------------------------------------------------
(* What a step has to show of the store. *)

\* A record stored for a slot of the generation at work.
LEMMA StoreSlot ==
    ASSUME Inv, NEW s \in Slots, NEW rec \in SlotRecord, AttemptLeft(rec),
           run.pc \in InGeneration,
           Settled(Cached(s)) => Settled(rec),
           cp'.slots = [cp.slots EXCEPT ![Key(s)] = rec],
           cp'.next = cp.next, selections' = selections,
           run'.pc \in InGeneration, run'.gen = run.gen, run'.origin = run.origin
    PROVE  /\ StoreOK' /\ NextFollowsSettled' /\ OneParentVector'
           /\ Cached(s)' = rec
           /\ \A t \in Slots \ {s} : Cached(t)' = Cached(t)
<1> USE DEF Inv
<1>1. /\ cp.slots \in [Keys -> SlotRecord] /\ run.gen \in Gens /\ run.origin \in Origins
      /\ Key(s) \in Keys /\ run.gen = cp.next /\ run.pc # "boundary" /\ run'.pc # "boundary"
      /\ (run.origin = "selected" => run.gen - 1 \in selections)
  BY KeyType DEF TypeOK, RunOK, InGeneration, ParentsOK
<1>2. cp'.slots[Key(s)] = rec /\ \A k \in Keys : k # Key(s) => cp'.slots[k] = cp.slots[k]
  BY <1>1
<1>3. Cached(s)' = rec /\ \A t \in Slots \ {s} : Cached(t)' = Cached(t)
  <2>1. \A t \in Slots : Key(t)' = Key(t) /\ Key(t) \in Keys
    BY KeyType DEF Key
  <2> QED
    BY <1>2, <2>1, KeysDiffer DEF Cached
<1>4. \A g \in Gens, t \in Slots, o \in Origins :
         /\ <<g, t, o>> \in Keys
         /\ Stored(cp'.slots[<<g, t, o>>]) =>
               Stored(cp.slots[<<g, t, o>>]) \/ (g = run.gen /\ o = run.origin)
         /\ Settled(cp.slots[<<g, t, o>>]) => Settled(cp'.slots[<<g, t, o>>])
  <2> TAKE g \in Gens, t \in Slots, o \in Origins
  <2>1. <<g, t, o>> \in Keys
    BY DEF Keys
  <2>2. CASE <<g, t, o>> = Key(s)
    <3>1. g = run.gen /\ o = run.origin
      BY <2>2 DEF Key
    <3> QED
      BY <1>2, <2>1, <2>2, <3>1 DEF Cached
  <2>3. CASE <<g, t, o>> # Key(s)
    BY <1>2, <2>1, <2>3
  <2> QED
    BY <2>2, <2>3
<1>5. \A k \in Keys : AttemptLeft(cp'.slots[k])
  BY <1>2 DEF StoreOK
<1>6. ASSUME NEW g \in Gens, NEW t \in Slots, NEW o \in Origins  PROVE StoredOK(g, t, o)'
  <2>1. StoredOK(g, t, o)
    BY DEF StoreOK
  <2>2. g \in Nat /\ cp.next \in Nat
    BY DEF Gens, TypeOK
  <2> QED
    BY <1>1, <1>4, <2>1, <2>2 DEF StoredOK
<1>7. StoreOK'
  BY <1>5, <1>6 DEF StoreOK
<1>8. NextFollowsSettled'
  BY <1>4 DEF NextFollowsSettled
<1>9. OneParentVector'
  <2> SUFFICES ASSUME NEW g \in Gens, NEW t \in Slots, NEW u \in Slots,
                      Stored(cp'.slots[<<g, t, "roots">>]),
                      Stored(cp'.slots[<<g, u, "selected">>])
               PROVE  FALSE
    BY DEF OneParentVector
  <2>1. "roots" \in Origins /\ "selected" \in Origins /\ "roots" # "selected"
    BY DEF Origins
  <2>2. /\ Stored(cp.slots[<<g, t, "roots">>]) \/ (g = run.gen /\ run.origin = "roots")
        /\ Stored(cp.slots[<<g, u, "selected">>]) \/ (g = run.gen /\ run.origin = "selected")
    BY <1>4, <2>1
  <2>3. StoredOK(g, t, "roots") /\ StoredOK(g, u, "selected")
    BY <2>1 DEF StoreOK
  <2>4. /\ Stored(cp.slots[<<g, t, "roots">>]) /\ g = run.gen => run.origin = "roots"
        /\ Stored(cp.slots[<<g, u, "selected">>]) /\ g = run.gen => run.origin = "selected"
    BY <2>3 DEF StoredOK
  <2>5. ~ (Stored(cp.slots[<<g, t, "roots">>]) /\ Stored(cp.slots[<<g, u, "selected">>]))
    BY DEF OneParentVector
  <2> QED
    BY <2>1, <2>2, <2>4, <2>5
<1> QED
  BY <1>3, <1>7, <1>8, <1>9

\* Nothing stored, the generation at work not another one.
LEMMA StoreKept ==
    ASSUME Inv, cp'.slots = cp.slots, cp'.next = cp.next, selections \subseteq selections',
           run'.pc \in InGeneration =>
               run.pc \in InGeneration /\ run'.gen = run.gen /\ run'.origin = run.origin,
           run'.pc # "boundary"
    PROVE  /\ StoreOK' /\ NextFollowsSettled' /\ OneParentVector'
           /\ run'.gen = run.gen /\ run'.origin = run.origin =>
                 \A t \in Slots : Cached(t)' = Cached(t)
<1> USE DEF Inv
<1>1. NextFollowsSettled' /\ OneParentVector'
  BY DEF NextFollowsSettled, OneParentVector
<1>2. StoreOK'
  <2>1. \A k \in Keys : AttemptLeft(cp'.slots[k])
    BY DEF StoreOK
  <2>2. ASSUME NEW g \in Gens, NEW t \in Slots, NEW o \in Origins  PROVE StoredOK(g, t, o)'
    <3>1. StoredOK(g, t, o)
      BY DEF StoreOK
    <3> QED
      BY <3>1 DEF StoredOK
  <2> QED
    BY <2>1, <2>2 DEF StoreOK
<1>3. run'.gen = run.gen /\ run'.origin = run.origin =>
          \A t \in Slots : Cached(t)' = Cached(t)
  BY DEF Cached, Key
<1> QED
  BY <1>1, <1>2, <1>3

-----------------------------------------------------------------------------
(* What a step has to show of the accounts. *)

\* One reservation not covered by a charged answer; one answer without its row;
\* one open call.
Reserved(c) ==
    IF \/ c.state \in {"queued", "calling", "declined", "expired"}
       \/ c.state \in {"answered", "recorded"} /\ c.retained
       \/ c.state = "ready" /\ (c.retained \/ c.raw = "infra")
    THEN 1 ELSE 0
Charged(c) ==
    IF c.state \in {"answered", "recorded"} \/ c.memory # "none" THEN 1 ELSE 0
Held(c) == IF c.state # "none" THEN 1 ELSE 0

LEMMA CountStep ==
    ASSUME NEW S, NEW T, NEW x, IsFiniteSet(S), S \ {x} = T \ {x}
    PROVE  /\ Cardinality(S) \in Nat /\ Cardinality(T) \in Nat
           /\ Cardinality(T) + (IF x \in S THEN 1 ELSE 0)
                 = Cardinality(S) + (IF x \in T THEN 1 ELSE 0)
<1>1. /\ IsFiniteSet(S \ {x}) /\ Cardinality(S \ {x}) \in Nat
      /\ Cardinality(S \ {x}) = IF x \in S THEN Cardinality(S) - 1 ELSE Cardinality(S)
  BY FS_RemoveElement, FS_CardinalityType
<1>2. IsFiniteSet(T)
  <2>1. CASE x \in T
    <3>1. T = (S \ {x}) \cup {x}
      BY <2>1
    <3>2. IsFiniteSet((S \ {x}) \cup {x})
      BY <1>1, FS_AddElement
    <3> QED
      BY <3>1, <3>2
  <2>2. CASE x \notin T
    <3>1. T = S \ {x}
      BY <2>2
    <3> QED
      BY <1>1, <3>1
  <2> QED
    BY <2>1, <2>2
<1>3. Cardinality(T \ {x}) = IF x \in T THEN Cardinality(T) - 1 ELSE Cardinality(T)
  BY <1>2, FS_RemoveElement
<1>4. Cardinality(S) \in Nat /\ Cardinality(T) \in Nat
  BY <1>2, FS_CardinalityType
<1>5. Cardinality(S \ {x}) = Cardinality(T \ {x})
  OBVIOUS
<1> QED
  BY <1>1, <1>3, <1>4, <1>5

LEMMA OneCall ==
    ASSUME NEW s \in Slots, \A t \in Slots \ {s} : calls'[t] = calls[t]
    PROVE  /\ Cardinality(Unspent) \in Nat /\ Cardinality(Unspent') \in Nat
           /\ Cardinality(Unspent') + Reserved(calls[s])
                 = Cardinality(Unspent) + Reserved(calls'[s])
           /\ Cardinality(Unrecorded) \in Nat /\ Cardinality(Unrecorded') \in Nat
           /\ Cardinality(Unrecorded') + Charged(calls[s])
                 = Cardinality(Unrecorded) + Charged(calls'[s])
           /\ Cardinality(Open) \in Nat /\ Cardinality(Open') \in Nat
           /\ Cardinality(Open') + Held(calls[s]) = Cardinality(Open) + Held(calls'[s])
<1>1. /\ Unspent \ {s} = Unspent' \ {s}
      /\ Reserved(calls[s]) = IF s \in Unspent THEN 1 ELSE 0
      /\ Reserved(calls'[s]) = IF s \in Unspent' THEN 1 ELSE 0
  BY DEF Unspent, Reserved
<1>2. /\ Unrecorded \ {s} = Unrecorded' \ {s}
      /\ Charged(calls[s]) = IF s \in Unrecorded THEN 1 ELSE 0
      /\ Charged(calls'[s]) = IF s \in Unrecorded' THEN 1 ELSE 0
  BY DEF Unrecorded, Charged
<1>6. /\ Open \ {s} = Open' \ {s}
      /\ Held(calls[s]) = IF s \in Open THEN 1 ELSE 0
      /\ Held(calls'[s]) = IF s \in Open' THEN 1 ELSE 0
  BY DEF Open, Held
<1>3. IsFiniteSet(Unspent) /\ IsFiniteSet(Unrecorded) /\ IsFiniteSet(Open)
  BY FiniteParts
<1>4. /\ Cardinality(Unspent) \in Nat /\ Cardinality(Unspent') \in Nat
      /\ Cardinality(Unspent') + Reserved(calls[s])
                 = Cardinality(Unspent) + Reserved(calls'[s])
  BY <1>1, <1>3, CountStep
<1>5. /\ Cardinality(Unrecorded) \in Nat /\ Cardinality(Unrecorded') \in Nat
      /\ Cardinality(Unrecorded') + Charged(calls[s])
                 = Cardinality(Unrecorded) + Charged(calls'[s])
  BY <1>2, <1>3, CountStep
<1>7. /\ Cardinality(Open) \in Nat /\ Cardinality(Open') \in Nat
      /\ Cardinality(Open') + Held(calls[s]) = Cardinality(Open) + Held(calls'[s])
  BY <1>6, <1>3, CountStep
<1> QED
  BY <1>4, <1>5, <1>7

LEMMA CallsKept ==
    ASSUME calls' = calls
    PROVE  Unspent' = Unspent /\ Unrecorded' = Unrecorded /\ Open' = Open
  BY DEF Unspent, Unrecorded, Open

LEMMA NoCalls ==
    ASSUME \A s \in Slots : calls[s].state = "none" /\ calls[s].memory = "none"
    PROVE  Unspent = {} /\ Unrecorded = {} /\ Open = {} /\ Cardinality({}) = 0
<1>1. Cardinality({}) = 0
  BY FS_EmptySet
<1> QED
  BY <1>1 DEF Unspent, Unrecorded, Open

-----------------------------------------------------------------------------
(* The workers. *)

\* An open call, as CallOK wants it.
OpenCall(c) ==
    /\ c.state # "none"
    /\ c.state \in {"answered", "recorded"} => c.raw \in Paid
    /\ c.state = "ready" => c.raw # "none"
    /\ c.retained => c.state \in {"answered", "recorded", "ready"} /\ c.raw \in Paid
    /\ c.memory # "none" => c.state \notin {"answered", "recorded"}

\* A worker changes the call of its slot, never what is stored.
LEMMA WorkerFrame ==
    ASSUME Inv, NEW s \in Slots, NEW c \in Call, OpenCall(c),
           calls' = [calls EXCEPT ![s] = c], calls[s].state # "none",
           evidence' \in [Keys \X Phases -> Paid \cup {"none"}],
           ledger' \in Nat, spent' \in Nat, escaped' \in Nat,
           spent' + Reserved(c) + escaped = spent + Reserved(calls[s]) + escaped',
           ledger' + Charged(c) + spent <= ledger + Charged(calls[s]) + spent',
           UNCHANGED <<cp, selections, outcome, run, stop, expired, leaked, sessions>>
    PROVE  Inv'
<1> USE DEF Inv
<1>1. calls \in [Slots -> Call] /\ calls' \in [Slots -> Call]
      /\ calls'[s] = c /\ \A t \in Slots \ {s} : calls'[t] = calls[t]
  BY DEF TypeOK
<1>2. TypeOK'
  BY <1>1 DEF TypeOK
<1>3. Accounts'
  <2>1. /\ Cardinality(Unspent) \in Nat /\ Cardinality(Unspent') \in Nat
        /\ Cardinality(Unspent') + Reserved(calls[s])
              = Cardinality(Unspent) + Reserved(c)
        /\ Cardinality(Unrecorded) \in Nat /\ Cardinality(Unrecorded') \in Nat
        /\ Cardinality(Unrecorded') + Charged(calls[s])
              = Cardinality(Unrecorded) + Charged(c)
        /\ Cardinality(Open) \in Nat /\ Cardinality(Open') \in Nat
        /\ Cardinality(Open') + Held(calls[s]) = Cardinality(Open) + Held(c)
    BY <1>1, OneCall
  <2>2. /\ cp.turns \in Nat /\ spent \in Nat /\ leaked \in Nat /\ escaped \in Nat /\ ledger \in Nat
    BY DEF TypeOK
  <2>3. \A k : Reserved(k) \in {0, 1} /\ Charged(k) \in {0, 1}
    BY DEF Reserved, Charged
  <2>4. TurnsAccounted'
    <3>1. cp.turns + escaped = spent + leaked + Cardinality(Unspent)
      BY DEF Accounts, TurnsAccounted
    <3> QED
      BY <2>1, <2>2, <2>3, <3>1 DEF TurnsAccounted
  <2>5. ledger' + Cardinality(Unrecorded') <= spent'
    <3>1. ledger + Cardinality(Unrecorded) <= spent
      BY DEF Accounts
    <3> QED
      BY <2>1, <2>2, <2>3, <3>1
  <2>6. Cardinality(Open') <= cp'.turns
    <3>1. Held(c) = 1 /\ Held(calls[s]) = 1 /\ Cardinality(Open) <= cp.turns
      BY DEF Held, OpenCall, Accounts
    <3> QED
      BY <2>1, <2>2, <3>1
  <2> QED
    BY <2>4, <2>5, <2>6 DEF Accounts
<1>4. \A t \in Slots : Cached(t)' = Cached(t)
  BY DEF Cached, Key
<1>5. ASSUME NEW t \in Slots  PROVE CallOK(t)'
  <2>1. CallOK(t) /\ CallOK(s)
    OBVIOUS
  <2>2. CASE t = s
    BY <1>1, <1>4, <2>1, <2>2 DEF CallOK, OpenCall
  <2>3. CASE t # s
    BY <1>1, <1>4, <2>1, <2>3 DEF CallOK
  <2> QED
    BY <2>2, <2>3
<1>6. ASSUME NEW t \in Slots  PROVE ResultOK(t)'
  <2>1. ResultOK(t)
    OBVIOUS
  <2>2. calls'[t].state # "none" \/ calls[t].state = "none"
    BY <1>1 DEF OpenCall
  <2> QED
    BY <1>4, <2>1, <2>2 DEF ResultOK
<1>7. RunOK' /\ ParentsOK'
  BY DEF RunOK, ParentsOK, Item
<1>8. StoreOK' /\ NextFollowsSettled' /\ OneParentVector'
  BY DEF StoreOK, StoredOK, ParentOrigin, NextFollowsSettled, OneParentVector
<1> QED
  BY <1>2, <1>3, <1>5, <1>6, <1>7, <1>8

LEMMA CallFields ==
    ASSUME TypeOK, NEW s \in Slots
    PROVE  /\ calls[s].state \in CallStates /\ calls[s].phase \in Phases
           /\ calls[s].tries \in Nat /\ calls[s].tries <= RetryLimit
           /\ calls[s].raw \in Raws /\ calls[s].retained \in BOOLEAN
           /\ calls[s] \in Call
  BY SlotFacts DEF TypeOK, Call

\* An open call belongs to a generation at work: its evidence is typed.
LEMMA KeptType ==
    ASSUME Inv, NEW s \in Slots, calls[s].state # "none"
    PROVE  /\ Kept(s) \in Paid \cup {"none"}
           /\ <<Key(s), calls[s].phase>> \in Keys \X Phases
<1>1. run.pc \in InGeneration \cup {"abort"}
  BY DEF Inv, CallOK, CallsOpen, InGeneration
<1>2. Key(s) \in Keys /\ calls[s].phase \in Phases
  BY <1>1, KeyType, CallFields DEF Inv
<1> QED
  BY <1>2 DEF Kept, Inv, TypeOK

LEMMA BeginInv ==
    ASSUME Inv, NEW s \in Slots,
           BeginDeclined(s) \/ BeginRetained(s) \/ BeginExpired(s) \/ BeginCall(s)
    PROVE  Inv'
<1>1. /\ calls[s].state = "queued" /\ ~ calls[s].retained
      /\ Kept(s) \in Paid \cup {"none"} /\ calls[s] \in Call
      /\ evidence \in [Keys \X Phases -> Paid \cup {"none"}] /\ ledger \in Nat /\ spent \in Nat /\ escaped \in Nat
      /\ UNCHANGED <<durable, run, Environment, history>>
  <2>1. calls[s].state = "queued" /\ UNCHANGED <<durable, run, Environment, history>>
    BY DEF BeginDeclined, BeginRetained, BeginExpired, BeginCall, CanBegin
  <2> QED
    BY <2>1, KeptType, CallFields DEF Inv, TypeOK, CallOK
<1>2. CASE BeginRetained(s)
  <2>1. PICK c \in Call : c = [calls[s] EXCEPT !.state = "ready", !.raw = Kept(s),
                                               !.retained = TRUE]
    BY <1>1, CallFields DEF Inv, Call, CallStates, Raws
  <2>2. /\ c.state = "ready" /\ c.raw = Kept(s) /\ c.retained
        /\ calls' = [calls EXCEPT ![s] = c] /\ c.raw \in Paid /\ c.raw # "none"
    <3>1. Kept(s) \in Paid
      BY <1>1, <1>2 DEF BeginRetained
    <3>2. c.state = "ready" /\ c.raw = Kept(s) /\ c.retained
      BY <1>1, <2>1 DEF Call
    <3>3. calls' = [calls EXCEPT ![s] = c]
      BY <1>2, <2>1 DEF BeginRetained, Inv, TypeOK
    <3> QED
      BY <3>1, <3>2, <3>3 DEF Paid
  <2>3. /\ Reserved(c) = Reserved(calls[s]) /\ c.memory = calls[s].memory
        /\ Charged(c) = Charged(calls[s]) /\ Charged(c) \in {0, 1}
    BY <1>1, <2>1, <2>2 DEF Reserved, Charged, Call
  <2>6. OpenCall(c) /\ calls[s].state # "none"
    BY <1>1, <2>2, <2>3 DEF OpenCall
  <2>7. /\ UNCHANGED <<cp, selections, outcome, run, stop, expired, leaked, sessions>>
        /\ evidence' \in [Keys \X Phases -> Paid \cup {"none"}]
        /\ ledger' \in Nat /\ spent' \in Nat /\ escaped' \in Nat
    BY <1>1, <2>2, <2>3 DEF durable, history, Environment
  <2>8. /\ spent' + Reserved(c) + escaped = spent + Reserved(calls[s]) + escaped'
        /\ ledger' + Charged(c) + spent <= ledger + Charged(calls[s]) + spent'
    BY <1>1, <2>2, <2>3 DEF durable, history, Environment
  <2> QED
    BY <1>1, <2>2, <2>3, <2>6, <2>7, <2>8, WorkerFrame
<1>3. CASE BeginDeclined(s) \/ BeginExpired(s) \/ BeginCall(s)
  <2>1. PICK state \in {"declined", "expired", "calling"} : Becomes(s, state)
    BY <1>3 DEF BeginDeclined, BeginExpired, BeginCall
  <2>2. PICK c \in Call : c = [calls[s] EXCEPT !.state = state]
    BY <1>1, CallFields DEF Inv, Call, CallStates
  <2>3. c.state = state /\ ~ c.retained /\ calls' = [calls EXCEPT ![s] = c]
    BY <1>1, <2>1, <2>2 DEF Call, Becomes, Inv, TypeOK
  <2>4. /\ Reserved(c) = Reserved(calls[s]) /\ c.memory = calls[s].memory
        /\ Charged(c) = Charged(calls[s]) /\ Charged(c) \in {0, 1}
    BY <1>1, <2>2, <2>3 DEF Reserved, Charged, Call
  <2>6. OpenCall(c) /\ calls[s].state # "none"
    BY <1>1, <2>1, <2>3, <2>4 DEF OpenCall
  <2>7. /\ UNCHANGED <<cp, selections, outcome, run, stop, expired, leaked, sessions>>
        /\ evidence' \in [Keys \X Phases -> Paid \cup {"none"}]
        /\ ledger' \in Nat /\ spent' \in Nat /\ escaped' \in Nat
    BY <1>1, <2>1, <2>3, <2>4 DEF durable, history, Environment
  <2>8. /\ spent' + Reserved(c) + escaped = spent + Reserved(calls[s]) + escaped'
        /\ ledger' + Charged(c) + spent <= ledger + Charged(calls[s]) + spent'
    BY <1>1, <2>1, <2>3, <2>4 DEF durable, history, Environment
  <2> QED
    BY <1>1, <2>1, <2>3, <2>4, <2>6, <2>7, <2>8, WorkerFrame
<1> QED
  BY <1>2, <1>3

LEMMA AnswerInv ==
    ASSUME Inv, NEW s \in Slots, Answer(s)
    PROVE  Inv'
<1>1. /\ calls[s].state = "calling" /\ ~ calls[s].retained /\ calls[s] \in Call
      /\ evidence \in [Keys \X Phases -> Paid \cup {"none"}] /\ ledger \in Nat /\ spent \in Nat /\ escaped \in Nat
      /\ calls[s].memory = "none"
      /\ UNCHANGED <<durable, run, Environment, leaked, escaped, sessions>>
  BY CallFields DEF Answer, Inv, TypeOK, CallOK
<1>2. CASE \E raw \in Answers \cap Paid :
              /\ calls' = [calls EXCEPT ![s].state = "answered", ![s].raw = raw]
              /\ spent' = spent + 1
  <2>1. PICK raw \in Answers \cap Paid :
              /\ calls' = [calls EXCEPT ![s].state = "answered", ![s].raw = raw]
              /\ spent' = spent + 1
    BY <1>2
  <2>2. PICK c \in Call : c = [calls[s] EXCEPT !.state = "answered", !.raw = raw]
    BY <1>1, CallFields DEF Inv, Call, CallStates, Raws
  <2>3. /\ c.state = "answered" /\ c.raw \in Paid /\ ~ c.retained /\ c.memory = "none"
        /\ calls' = [calls EXCEPT ![s] = c]
    BY <1>1, <2>1, <2>2 DEF Call, Inv, TypeOK
  <2>4. /\ Reserved(c) = 0 /\ Reserved(calls[s]) = 1
        /\ Charged(c) = 1 /\ Charged(calls[s]) = 0
    BY <1>1, <2>3 DEF Reserved, Charged
  <2>6. OpenCall(c) /\ calls[s].state # "none"
    BY <1>1, <2>1, <2>3, <2>4 DEF OpenCall
  <2>7. /\ UNCHANGED <<cp, selections, outcome, run, stop, expired, leaked, sessions>>
        /\ evidence' \in [Keys \X Phases -> Paid \cup {"none"}]
        /\ ledger' \in Nat /\ spent' \in Nat /\ escaped' \in Nat
    BY <1>1, <2>1, <2>3, <2>4 DEF durable, Environment
  <2>8. /\ spent' + Reserved(c) + escaped = spent + Reserved(calls[s]) + escaped'
        /\ ledger' + Charged(c) + spent <= ledger + Charged(calls[s]) + spent'
    BY <1>1, <2>1, <2>3, <2>4 DEF durable, Environment
  <2> QED
    BY <1>1, <2>1, <2>3, <2>4, <2>6, <2>7, <2>8, WorkerFrame
<1>3. CASE /\ calls' = [calls EXCEPT ![s].state = "ready", ![s].raw = "infra"]
           /\ UNCHANGED spent
  <2>2. PICK c \in Call : c = [calls[s] EXCEPT !.state = "ready", !.raw = "infra"]
    BY <1>1, CallFields DEF Inv, Call, CallStates, Raws
  <2>3. /\ c.state = "ready" /\ c.raw = "infra" /\ ~ c.retained /\ c.memory = "none"
        /\ calls' = [calls EXCEPT ![s] = c]
    BY <1>1, <1>3, <2>2 DEF Call, Inv, TypeOK
  <2>4. /\ Reserved(c) = 1 /\ Reserved(calls[s]) = 1
        /\ Charged(c) = 0 /\ Charged(calls[s]) = 0
    BY <1>1, <2>3 DEF Reserved, Charged
  <2>6. OpenCall(c) /\ calls[s].state # "none"
    BY <1>1, <1>3, <2>3, <2>4 DEF OpenCall
  <2>7. /\ UNCHANGED <<cp, selections, outcome, run, stop, expired, leaked, sessions>>
        /\ evidence' \in [Keys \X Phases -> Paid \cup {"none"}]
        /\ ledger' \in Nat /\ spent' \in Nat /\ escaped' \in Nat
    BY <1>1, <1>3, <2>3, <2>4 DEF durable, Environment
  <2>8. /\ spent' + Reserved(c) + escaped = spent + Reserved(calls[s]) + escaped'
        /\ ledger' + Charged(c) + spent <= ledger + Charged(calls[s]) + spent'
    BY <1>1, <1>3, <2>3, <2>4 DEF durable, Environment
  <2> QED
    BY <1>1, <1>3, <2>3, <2>4, <2>6, <2>7, <2>8, WorkerFrame
<1> QED
  BY <1>2, <1>3 DEF Answer

\* An answer handed out again: paid, and counted, before.
LEMMA ReplayInv ==
    ASSUME Inv, NEW s \in Slots, Replay(s)
    PROVE  Inv'
<1>1. /\ calls[s].state = "calling" /\ ~ calls[s].retained /\ calls[s] \in Call
      /\ calls[s].memory \in Paid /\ calls[s].memory # "none"
      /\ evidence \in [Keys \X Phases -> Paid \cup {"none"}]
      /\ ledger \in Nat /\ spent \in Nat /\ escaped \in Nat
      /\ UNCHANGED <<durable, run, Environment, history>>
  BY CallFields DEF Replay, Inv, TypeOK, CallOK, Call, Paid
<1>2. PICK c \in Call : c = [calls[s] EXCEPT !.state = "answered", !.raw = calls[s].memory,
                                             !.retained = TRUE, !.memory = "none"]
  BY <1>1, CallFields DEF Inv, Call, CallStates, Raws
<1>3. /\ c.state = "answered" /\ c.raw \in Paid /\ c.retained /\ c.memory = "none"
      /\ calls' = [calls EXCEPT ![s] = c]
  BY <1>1, <1>2 DEF Replay, Call, Inv, TypeOK
<1>4. /\ Reserved(c) = 1 /\ Reserved(calls[s]) = 1
      /\ Charged(c) = 1 /\ Charged(calls[s]) = 1
  BY <1>1, <1>3 DEF Reserved, Charged
<1>5. OpenCall(c) /\ calls[s].state # "none"
  BY <1>1, <1>3 DEF OpenCall
<1>6. /\ UNCHANGED <<cp, selections, outcome, run, stop, expired, leaked, sessions>>
      /\ evidence' \in [Keys \X Phases -> Paid \cup {"none"}]
      /\ ledger' \in Nat /\ spent' \in Nat /\ escaped' \in Nat
      /\ spent' = spent /\ ledger' = ledger /\ escaped' = escaped
  BY <1>1 DEF durable, history, Environment
<1>7. /\ spent' + Reserved(c) + escaped = spent + Reserved(calls[s]) + escaped'
      /\ ledger' + Charged(c) + spent <= ledger + Charged(calls[s]) + spent'
  BY <1>1, <1>4, <1>6
<1> QED
  BY <1>3, <1>5, <1>6, <1>7, WorkerFrame

LEMMA RecordInv ==
    ASSUME Inv, NEW s \in Slots, RecordArtifacts(s) \/ RecordTurn(s) \/ RecordNoted(s)
    PROVE  Inv'
<1>1. /\ calls[s].state \in {"answered", "recorded"} /\ calls[s] \in Call
      /\ calls[s].raw \in Paid /\ calls[s].memory = "none"
      /\ ledger \in Nat /\ spent \in Nat /\ escaped \in Nat
      /\ evidence \in [Keys \X Phases -> Paid \cup {"none"}]
      /\ <<Key(s), calls[s].phase>> \in Keys \X Phases
      /\ UNCHANGED <<cp, selections, outcome, run, Environment, history>>
  BY CallFields, KeptType
  DEF RecordArtifacts, RecordTurn, RecordNoted, durable, Inv, TypeOK, CallOK
<1>2. PICK state \in {"recorded", "ready"} :
         /\ Becomes(s, state)
         /\ state = "recorded" => RecordArtifacts(s)
         /\ state = "ready" => RecordTurn(s) \/ RecordNoted(s)
  BY DEF RecordArtifacts, RecordTurn, RecordNoted
<1>3. PICK c \in Call : c = [calls[s] EXCEPT !.state = state]
  BY <1>1, CallFields DEF Inv, Call, CallStates
<1>4. /\ c.state = state /\ c.raw = calls[s].raw /\ c.retained = calls[s].retained
      /\ c.memory = "none"
      /\ calls' = [calls EXCEPT ![s] = c] /\ c.raw \in Paid /\ c.raw # "none"
      /\ c.raw # "infra"
  BY <1>1, <1>2, <1>3 DEF Call, Becomes, Inv, TypeOK, Paid
<1>5. /\ Reserved(c) = Reserved(calls[s]) /\ Reserved(c) \in {0, 1}
      /\ Charged(calls[s]) = 1 /\ Charged(c) = IF state = "recorded" THEN 1 ELSE 0
  BY <1>1, <1>4 DEF Reserved, Charged
<1>6. /\ evidence' \in [Keys \X Phases -> Paid \cup {"none"}]
      /\ ledger' = ledger \/ (ledger' = ledger + 1 /\ state = "ready")
  BY <1>1, <1>2 DEF RecordArtifacts, RecordTurn, RecordNoted, durable
<1>7. OpenCall(c) /\ calls[s].state # "none"
  BY <1>1, <1>4 DEF OpenCall
<1>8. /\ UNCHANGED <<cp, selections, outcome, run, stop, expired, leaked, sessions>>
      /\ ledger' \in Nat /\ spent' \in Nat /\ escaped' \in Nat
      /\ spent' = spent /\ escaped' = escaped
  BY <1>1, <1>6 DEF history, Environment
<1>9. /\ spent' + Reserved(c) + escaped = spent + Reserved(calls[s]) + escaped'
      /\ ledger' + Charged(c) + spent <= ledger + Charged(calls[s]) + spent'
  <2>1. ledger' + Charged(c) <= ledger + Charged(calls[s])
    <3>1. CASE state = "recorded"
      BY <1>1, <1>5, <1>6, <3>1
    <3>2. CASE state = "ready"
      BY <1>1, <1>5, <1>6, <3>2
    <3> QED
      BY <3>1, <3>2
  <2>2. Charged(c) \in Nat /\ Charged(calls[s]) \in Nat
    BY <1>5
  <2>3. PICK x \in Nat, y \in Nat : x = Charged(c) /\ y = Charged(calls[s])
    BY <2>2
  <2>4. ledger' + x + spent <= ledger + y + spent
    BY <1>1, <1>8, <2>1, <2>3
  <2> QED
    BY <1>5, <1>8, <2>3, <2>4
<1> QED
  BY <1>4, <1>6, <1>7, <1>8, <1>9, WorkerFrame

\* A record that fails: the reservation is to be released, the answer escapes.
LEMMA RecordFailsInv ==
    ASSUME Inv, NEW s \in Slots, RecordFails(s)
    PROVE  Inv'
<1>1. /\ calls[s].state \in {"answered", "recorded"} /\ calls[s] \in Call
      /\ calls[s].raw \in Paid /\ calls[s].memory = "none" /\ calls[s].retained \in BOOLEAN
      /\ ledger \in Nat /\ spent \in Nat /\ escaped \in Nat
      /\ evidence \in [Keys \X Phases -> Paid \cup {"none"}]
      /\ UNCHANGED <<cp, evidence, selections, outcome, run, Environment, spent, leaked, sessions>>
  BY CallFields DEF RecordFails, Inv, TypeOK, CallOK
<1>2. PICK posted \in {0, 1} :
         /\ ledger' = ledger + posted
         /\ posted = 1 => calls[s].state = "recorded"
  BY DEF RecordFails
<1>3. PICK memory \in {"good", "malformed", "none"} :
         memory = IF calls[s].state = "answered" /\ calls[s].raw # "charged"
                  THEN calls[s].raw ELSE "none"
  BY <1>1 DEF Paid
<1>4. PICK c \in Call : c = [calls[s] EXCEPT !.state = "ready", !.raw = "infra",
                                             !.retained = FALSE, !.memory = memory]
  BY <1>1, CallFields DEF Inv, Call, CallStates, Raws
<1>5. /\ c.state = "ready" /\ c.raw = "infra" /\ ~ c.retained /\ c.memory = memory
      /\ calls' = [calls EXCEPT ![s] = c]
  BY <1>1, <1>3, <1>4 DEF RecordFails, Call, Inv, TypeOK
<1>6. /\ Reserved(c) = 1 /\ Reserved(calls[s]) = IF calls[s].retained THEN 1 ELSE 0
      /\ Charged(calls[s]) = 1 /\ Charged(c) \in {0, 1}
      /\ posted = 1 => Charged(c) = 0
  BY <1>1, <1>2, <1>3, <1>5 DEF Reserved, Charged
<1>7. escaped' = IF calls[s].retained THEN escaped ELSE escaped + 1
  BY DEF RecordFails
<1>8. OpenCall(c) /\ calls[s].state # "none"
  BY <1>1, <1>5 DEF OpenCall
<1>9. /\ UNCHANGED <<cp, selections, outcome, run, stop, expired, leaked, sessions>>
      /\ evidence' \in [Keys \X Phases -> Paid \cup {"none"}]
      /\ ledger' \in Nat /\ spent' \in Nat /\ escaped' \in Nat /\ spent' = spent
  BY <1>1, <1>2, <1>7 DEF Environment
<1>10. /\ spent' + Reserved(c) + escaped = spent + Reserved(calls[s]) + escaped'
       /\ ledger' + Charged(c) + spent <= ledger + Charged(calls[s]) + spent'
  BY <1>1, <1>2, <1>6, <1>7, <1>9
<1> QED
  BY <1>5, <1>8, <1>9, <1>10, WorkerFrame

\* A retry in the same session keeps its reservation.
LEMMA RetryInv ==
    ASSUME Inv, NEW s \in Slots, CollectRetry(s) \/ RepairRetry(s)
    PROVE  Inv'
<1>1. /\ calls[s].state = "ready" /\ calls[s].raw = "infra" /\ calls[s].tries < RetryLimit
      /\ ~ calls[s].retained /\ calls[s] \in Call /\ ledger \in Nat /\ spent \in Nat /\ escaped \in Nat
      /\ evidence \in [Keys \X Phases -> Paid \cup {"none"}]
      /\ UNCHANGED <<durable, run, Environment, history>>
  BY CallFields DEF CollectRetry, RepairRetry, RetriesLeft, Inv, TypeOK, CallOK, Paid
<1>2. \E c \in Call : /\ c.state = "queued" /\ ~ c.retained /\ c.memory = calls[s].memory
                      /\ calls' = [calls EXCEPT ![s] = c]
  <2>1. calls[s].tries + 1 \in 0 .. RetryLimit /\ 0 \in Phases
    BY <1>1, CallFields, SlotFacts DEF Inv, Phases
  <2>2. CASE CollectRetry(s)
    <3>1. PICK c : c = [NoCall EXCEPT !.state = "queued", !.tries = calls[s].tries + 1,
                                      !.memory = calls[s].memory]
      OBVIOUS
    <3>2. /\ c \in Call /\ c.state = "queued" /\ ~ c.retained
          /\ c.memory = calls[s].memory
      BY <1>1, <2>1, <3>1 DEF NoCall, Call, CallStates, Raws
    <3> QED
      BY <2>2, <3>1, <3>2 DEF CollectRetry
  <2>3. CASE RepairRetry(s)
    <3>1. PICK c : c = [calls[s] EXCEPT !.state = "queued", !.tries = @ + 1, !.raw = "none"]
      OBVIOUS
    <3>2. /\ c \in Call /\ c.state = "queued" /\ ~ c.retained
          /\ c.memory = calls[s].memory
      BY <1>1, <2>1, <3>1, CallFields DEF Inv, Call, CallStates, Raws
    <3>3. calls' = [calls EXCEPT ![s] = c]
      BY <2>3, <3>1 DEF RepairRetry, Inv, TypeOK
    <3> QED
      BY <3>2, <3>3
  <2> QED
    BY <2>2, <2>3
<1>3. PICK c \in Call : /\ c.state = "queued" /\ ~ c.retained /\ c.memory = calls[s].memory
                        /\ calls' = [calls EXCEPT ![s] = c]
  BY <1>2
<1>4. /\ Reserved(c) = 1 /\ Reserved(calls[s]) = 1
      /\ Charged(c) = Charged(calls[s]) /\ Charged(c) \in {0, 1}
  BY <1>1, <1>3 DEF Reserved, Charged
<1>6. OpenCall(c) /\ calls[s].state # "none"
  BY <1>1, <1>3, <1>4 DEF OpenCall
<1>7. /\ UNCHANGED <<cp, selections, outcome, run, stop, expired, leaked, sessions>>
      /\ evidence' \in [Keys \X Phases -> Paid \cup {"none"}]
      /\ ledger' \in Nat /\ spent' \in Nat /\ escaped' \in Nat
  BY <1>1, <1>3, <1>4 DEF durable, history, Environment
<1>8. /\ spent' + Reserved(c) + escaped = spent + Reserved(calls[s]) + escaped'
      /\ ledger' + Charged(c) + spent <= ledger + Charged(calls[s]) + spent'
  BY <1>1, <1>3, <1>4 DEF durable, history, Environment
<1> QED
  BY <1>1, <1>3, <1>4, <1>6, <1>7, <1>8, WorkerFrame

-----------------------------------------------------------------------------
(* The coordinator: steps that only move it. *)

LEMMA RunFields ==
    ASSUME TypeOK
    PROVE  /\ run.pc \in ControlPoints /\ run.gen \in 0 .. NumGens /\ run.slot \in Slots
           /\ run.origin \in Origins
           /\ run.assigned \in [gen: 0 .. NumGens, origin: Origins]
           /\ run.results \in [Slots -> SlotRecord] /\ run.reason \in BudgetReasons \cup {"none"}
           /\ run.infra \in BOOLEAN /\ run.ending \in Outcomes /\ run \in Local
  BY DEF TypeOK, Local

\* Calls are open only while answers are collected, a repair waits or an abort joins.
LEMMA NoneOpen ==
    ASSUME Inv, run.pc \notin CallsOpen
    PROVE  \A s \in Slots : calls[s].state = "none"
  BY DEF Inv, CallOK

LEMMA MoveFrame ==
    ASSUME Inv, run' \in Local,
           UNCHANGED <<cp, evidence, ledger, selections, calls, spent, leaked, escaped, sessions>>,
           outcome' \in Outcomes, stop' \in BOOLEAN, expired' \in BOOLEAN,
           run.pc \in InGeneration \cup {"boundary", "finish"},
           run'.pc \in Collected \cup {"abort", "finish", "off"},
           run'.pc \in Collected \cup {"abort"} => run.pc \in InGeneration,
           run'.gen = run.gen, run'.origin = run.origin, run'.assigned = run.assigned,
           run'.results = run.results, run'.reason = run.reason \/ run'.reason # "none",
           run'.pc \in Collected =>
              run.pc \in Collected \/ (run.pc = "collect" /\ \A s \in Slots : calls[s].state = "none"),
           run'.pc = "abort" \/ \A s \in Slots : calls[s].state = "none",
           run'.pc \in {"repairCall", "repairWait"} =>
              run'.results[run'.slot].status = "repair_running"
    PROVE  Inv'
<1> USE DEF Inv
<1>1. TypeOK' /\ Accounts'
  <2>1. Unspent' = Unspent /\ Unrecorded' = Unrecorded /\ Open' = Open
    BY CallsKept
  <2> QED
    BY <2>1 DEF TypeOK, Accounts, TurnsAccounted
<1>2. /\ StoreOK' /\ NextFollowsSettled' /\ OneParentVector'
      /\ \A t \in Slots : Cached(t)' = Cached(t)
  <2>1. run'.pc \in InGeneration => run.pc \in InGeneration
    BY DEF InGeneration, Collected
  <2>2. run'.pc # "boundary" /\ selections \subseteq selections'
    BY DEF InGeneration, Collected
  <2> QED
    BY <2>1, <2>2, StoreKept
<1>3. ASSUME NEW s \in Slots  PROVE CallOK(s)'
  <2>1. CallOK(s)
    OBVIOUS
  <2> QED
    BY <1>2, <2>1 DEF CallOK, CallsOpen
<1>4. ASSUME NEW s \in Slots  PROVE ResultOK(s)'
  <2>1. ResultOK(s)
    OBVIOUS
  <2>2. run'.pc \in InGeneration => run.pc \in InGeneration
    BY DEF InGeneration, Collected
  <2>3. run'.pc # "queue" /\ run'.pc # "collect"
    BY DEF Collected, InGeneration
  <2>4. run'.pc \in Collected => run'.results[s].status # "absent"
    BY <2>1 DEF ResultOK
  <2>5. run'.pc \in InGeneration =>
          /\ run'.results[s].status \notin CutStatuses \cup {"absent"} =>
                Cached(s)' = run'.results[s]
          /\ run'.reason = "none" => run'.results[s].status \notin CutStatuses
    BY <1>2, <2>1, <2>2 DEF ResultOK
  <2>6. AttemptLeft(run'.results[s])
    BY <2>1 DEF ResultOK
  <2> QED
    BY <2>3, <2>4, <2>5, <2>6 DEF ResultOK
<1>5. RunOK'
  <2>1. run.pc # "off" /\ RunOK
    BY DEF InGeneration
  <2> QED
    BY <2>1 DEF RunOK, Item, InGeneration, Collected
<1>6. ParentsOK'
  BY DEF ParentsOK, InGeneration, Collected
<1> QED
  BY <1>1, <1>2, <1>3, <1>4, <1>5, <1>6

\* The coordinator aborts: from the queue, a collected answer or a repair.
LEMMA AbortInv ==
    ASSUME Inv, NEW state \in Outcomes, Abort(state), outcome' = outcome,
           run.pc \in {"queue", "collect", "repairWait"},
           UNCHANGED <<cp, evidence, ledger, selections, calls, stop, expired, history>>
    PROVE  Inv'
<1>1. /\ run' \in Local /\ run'.pc = "abort"
      /\ run'.gen = run.gen /\ run'.origin = run.origin /\ run'.assigned = run.assigned
      /\ run'.results = run.results /\ run'.reason = run.reason
  BY RunFields DEF Abort, Inv, Local, ControlPoints
<1>2. /\ UNCHANGED <<cp, evidence, ledger, selections, calls, spent, leaked, escaped, sessions>>
      /\ outcome' \in Outcomes /\ stop' \in BOOLEAN /\ expired' \in BOOLEAN
      /\ run.pc \in InGeneration
  BY DEF Inv, TypeOK, history, InGeneration
<1>3. /\ run'.pc \notin Collected /\ run'.pc \notin {"repairCall", "repairWait"}
      /\ run'.pc \in Collected \cup {"abort", "finish", "off"}
  BY <1>1 DEF Collected, InGeneration
<1> QED
  BY <1>1, <1>2, <1>3, MoveFrame

LEMMA AbortsInv ==
    ASSUME Inv, (\E s \in Slots : QueueRaises(s) \/ CollectExpired(s)) \/ RepairExpired
    PROVE  Inv'
<1>1. /\ UNCHANGED <<cp, evidence, ledger, selections, calls, stop, expired, history>>
      /\ outcome' = outcome /\ run.pc \in {"queue", "collect", "repairWait"}
      /\ Abort("failed") \/ Abort("idle")
  BY DEF QueueRaises, CollectExpired, RepairExpired, At, durable, Environment
<1> QED
  BY <1>1, AbortInv DEF Outcomes

\* Moves within a collected generation, while no call is open.
LEMMA CollectedMove ==
    ASSUME Inv, run' \in Local, UNCHANGED <<durable, calls, Environment, history>>,
           \A s \in Slots : calls[s].state = "none",
           run.pc \in Collected \cup {"collect"}, run'.pc \in Collected \cup {"finish"},
           run'.gen = run.gen, run'.origin = run.origin, run'.assigned = run.assigned,
           run'.results = run.results, run'.reason = run.reason \/ run'.reason # "none",
           run'.pc \in {"repairCall", "repairWait"} =>
              run'.results[run'.slot].status = "repair_running"
    PROVE  Inv'
<1>1. /\ UNCHANGED <<cp, evidence, ledger, selections, calls, spent, leaked, escaped, sessions>>
      /\ outcome' \in Outcomes /\ stop' \in BOOLEAN /\ expired' \in BOOLEAN
      /\ run.pc \in InGeneration
  BY DEF Inv, TypeOK, durable, history, Environment, Collected, InGeneration
<1> QED
  BY <1>1, MoveFrame

LEMMA CollectDoneInv ==
    ASSUME Inv, CollectDone
    PROVE  Inv'
<1>1. 1 \in Slots
  BY SlotFacts DEF Slots
<1>2. /\ run' \in Local /\ run'.pc = "repair" /\ run.pc = "collect"
      /\ run'.gen = run.gen /\ run'.origin = run.origin /\ run'.assigned = run.assigned
      /\ run'.results = run.results /\ run'.reason = run.reason
  BY <1>1, RunFields DEF CollectDone, At, Inv, Local, ControlPoints
<1> QED
  BY <1>2, CollectedMove DEF CollectDone, Collected, InGeneration

\* The next slot is repaired, or the generation is assembled.
LEMMA NextRepairFields ==
    ASSUME TypeOK, NEW fields \in Local, fields.slot = run.slot, NextRepair(fields)
    PROVE  /\ run' \in Local /\ run'.pc \in {"repair", "assemble"}
           /\ run'.gen = fields.gen /\ run'.origin = fields.origin
           /\ run'.assigned = fields.assigned
           /\ run'.results = fields.results /\ run'.reason = fields.reason
<1>1. run.slot \in Slots
  BY RunFields
<1>2. CASE run.slot < NumSlots
  <2>1. run' = [fields EXCEPT !.pc = "repair", !.slot = @ + 1]
    BY <1>2 DEF NextRepair
  <2>2. run.slot + 1 \in Slots
    BY <1>1, <1>2, SlotFacts DEF Slots
  <2> QED
    BY <2>1, <2>2 DEF Local, ControlPoints
<1>3. CASE ~ (run.slot < NumSlots)
  <2>1. run' = [fields EXCEPT !.pc = "assemble"]
    BY <1>3 DEF NextRepair
  <2> QED
    BY <2>1 DEF Local, ControlPoints
<1> QED
  BY <1>2, <1>3

LEMMA RepairBoundaryInv ==
    ASSUME Inv, RepairBoundary
    PROVE  Inv'
<1>1. PICK reason \in BudgetReasons \cup {"none"} : reason = BudgetReason(cp.turns)
  BY BudgetReasonType
<1>2. reason # "none" /\ NextRepair([run EXCEPT !.reason = reason]) /\ run.pc = "repair"
  BY <1>1 DEF RepairBoundary, At
<1>3. PICK fields \in Local : fields = [run EXCEPT !.reason = reason]
  BY RunFields DEF Inv, Local
<1>4. /\ fields.slot = run.slot /\ fields.gen = run.gen /\ fields.origin = run.origin
      /\ fields.assigned = run.assigned /\ fields.results = run.results
      /\ fields.reason = reason
  BY <1>3, RunFields DEF Inv, Local
<1>5. NextRepair(fields)
  BY <1>2, <1>3
<1>6. /\ run' \in Local /\ run'.pc \in {"repair", "assemble"}
      /\ run'.gen = run.gen /\ run'.origin = run.origin /\ run'.assigned = run.assigned
      /\ run'.results = run.results /\ run'.reason # "none"
  BY <1>2, <1>4, <1>5, NextRepairFields DEF Inv
<1>7. \A s \in Slots : calls[s].state = "none"
  BY <1>2, NoneOpen DEF CallsOpen
<1>8. UNCHANGED <<durable, calls, Environment, history>>
  BY DEF RepairBoundary
<1> QED
  BY <1>2, <1>6, <1>7, <1>8, CollectedMove DEF Collected, InGeneration

LEMMA RepairLeaveInv ==
    ASSUME Inv, RepairLeave
    PROVE  Inv'
<1>1. run.pc = "repairLoop" /\ UNCHANGED <<durable, calls, Environment, history>>
  BY DEF RepairLeave, At
<1>2. /\ run' \in Local /\ run'.pc \in {"repair", "assemble"}
      /\ run'.gen = run.gen /\ run'.origin = run.origin /\ run'.assigned = run.assigned
      /\ run'.results = run.results /\ run'.reason = run.reason
  BY RunFields, NextRepairFields DEF RepairLeave, Inv
<1>3. \A s \in Slots : calls[s].state = "none"
  BY <1>1, NoneOpen DEF CallsOpen
<1> QED
  BY <1>1, <1>2, <1>3, CollectedMove DEF Collected, InGeneration

LEMMA RepairMoveInv ==
    ASSUME Inv, RepairEnter \/ RepairResume \/ SkipSelection
    PROVE  Inv'
<1>1. /\ run.pc \in {"repair", "repairLoop", "assemble"}
      /\ UNCHANGED <<durable, calls, Environment, history>>
      /\ run' = [run EXCEPT !.pc = "repairLoop"] \/ run' = [run EXCEPT !.pc = "advance"]
         \/ (run' = [run EXCEPT !.pc = "repairCall"] /\ Item.status = "repair_running")
  BY DEF RepairEnter, RepairResume, SkipSelection, At
<1>2. /\ run' \in Local /\ run'.pc \in {"repairLoop", "repairCall", "advance"}
      /\ run'.gen = run.gen /\ run'.origin = run.origin /\ run'.assigned = run.assigned
      /\ run'.results = run.results /\ run'.reason = run.reason
      /\ run'.pc = "repairCall" => run'.results[run'.slot].status = "repair_running"
  BY <1>1, RunFields DEF Inv, Local, ControlPoints, Item
<1>3. \A s \in Slots : calls[s].state = "none"
  BY <1>1, NoneOpen DEF CallsOpen
<1> QED
  BY <1>1, <1>2, <1>3, CollectedMove DEF Collected, InGeneration

-----------------------------------------------------------------------------
(* The coordinator: the generation loop and its queue. *)

LEMMA LeaveLoopInv ==
    ASSUME Inv, LeaveLoop
    PROVE  Inv'
<1>1. PICK reason \in BudgetReasons \cup {"none"} : reason = BudgetReason(cp.turns)
  BY BudgetReasonType
<1>2. /\ run.pc = "boundary" /\ UNCHANGED <<durable, calls, Environment, history>>
      /\ \/ run' = [run EXCEPT !.pc = "finish"]
         \/ reason # "none" /\ run' = [run EXCEPT !.pc = "finish", !.reason = reason]
  BY <1>1 DEF LeaveLoop, At
<1>3. /\ run' \in Local /\ run'.pc = "finish"
      /\ run'.gen = run.gen /\ run'.origin = run.origin /\ run'.assigned = run.assigned
      /\ run'.results = run.results
      /\ run'.reason = run.reason \/ run'.reason # "none"
  BY <1>2, RunFields DEF Inv, Local, ControlPoints
<1>4. /\ UNCHANGED <<cp, evidence, ledger, selections, calls, spent, leaked, escaped, sessions>>
      /\ outcome' \in Outcomes /\ stop' \in BOOLEAN /\ expired' \in BOOLEAN
  BY <1>2 DEF Inv, TypeOK, durable, history, Environment
<1>5. \A s \in Slots : calls[s].state = "none"
  BY <1>2, NoneOpen DEF CallsOpen
<1>6. /\ run'.pc \notin Collected /\ run'.pc \notin {"repairCall", "repairWait"}
      /\ run'.pc \notin Collected \cup {"abort"}
      /\ run'.pc \in Collected \cup {"abort", "finish", "off"}
      /\ run.pc \in InGeneration \cup {"boundary", "finish"}
  BY <1>2, <1>3 DEF Collected, InGeneration
<1>7. /\ run'.pc \in Collected \cup {"abort"} => run.pc \in InGeneration
      /\ run'.pc \in Collected =>
            run.pc \in Collected \/ (run.pc = "collect" /\ \A s \in Slots : calls[s].state = "none")
      /\ run'.pc = "abort" \/ \A s \in Slots : calls[s].state = "none"
      /\ run'.pc \in {"repairCall", "repairWait"} =>
            run'.results[run'.slot].status = "repair_running"
  BY <1>5, <1>6
<1> QED
  BY <1>3, <1>4, <1>6, <1>7, MoveFrame

\* The origin of the parents of the generation about to start.
LEMMA ParentOriginType ==
    ASSUME Inv
    PROVE  /\ ParentOrigin(run.gen) \in Origins
           /\ ParentOrigin(run.gen) = "selected" => run.gen - 1 \in selections
  BY RunFields DEF Inv, ParentOrigin, Origins, ParentsOK

LEMMA StartGenerationInv ==
    ASSUME Inv, StartGeneration
    PROVE  Inv'
<1> USE DEF Inv
<1>1. PICK origin \in Origins : origin = ParentOrigin(run.gen)
  BY ParentOriginType
<1>2. PICK results \in [Slots -> SlotRecord] : results = [s \in Slots |-> Absent]
  <2>1. Absent \in SlotRecord
    BY SlotRecordType DEF Raws
  <2> QED
    BY <2>1
<1>3. /\ run.pc = "boundary" /\ run.gen < NumGens /\ 1 \in Slots
      /\ UNCHANGED <<durable, calls, Environment, history>>
      /\ run' = [run EXCEPT !.pc = "queue", !.slot = 1, !.origin = origin, !.results = results]
  BY <1>1, <1>2, SlotFacts DEF StartGeneration, At, Slots
<1>4. /\ run' \in Local /\ run'.pc = "queue" /\ run'.slot = 1 /\ run'.origin = origin
      /\ run'.results = results /\ run'.gen = run.gen /\ run'.assigned = run.assigned
  BY <1>3, RunFields DEF Local, ControlPoints
<1>5. \A s \in Slots : calls[s].state = "none" /\ calls'[s].state = "none"
  BY <1>3, NoneOpen DEF CallsOpen
<1>6. TypeOK' /\ Accounts'
  <2>1. Unspent' = Unspent /\ Unrecorded' = Unrecorded /\ Open' = Open
    BY <1>3, CallsKept
  <2> QED
    BY <1>3, <1>4, <2>1 DEF TypeOK, Accounts, TurnsAccounted, durable, history, Environment
<1>7. ASSUME NEW s \in Slots  PROVE CallOK(s)' /\ ResultOK(s)'
  <2>1. CallOK(s)'
    <3>1. CallOK(s)
      OBVIOUS
    <3> QED
      BY <1>3, <1>5, <3>1 DEF CallOK
  <2>2. results[s].status = "absent" /\ AttemptLeft(results[s])
    BY <1>2, SlotRecordType DEF Raws
  <2>3. s \in Nat /\ s >= 1
    BY SlotFacts DEF Slots
  <2>4. ResultOK(s)'
    BY <1>4, <2>2, <2>3 DEF ResultOK, CutStatuses, Collected, InGeneration
  <2> QED
    BY <2>1, <2>4
<1>8. RunOK'
  BY <1>3, <1>4 DEF RunOK, durable
<1>9. ParentsOK'
  BY <1>1, <1>3, <1>4, ParentOriginType DEF ParentsOK, durable
<1>10. StoreOK'
  <2>1. ASSUME NEW g \in Gens, NEW t \in Slots, NEW o \in Origins  PROVE StoredOK(g, t, o)'
    <3>1. StoredOK(g, t, o)
      BY DEF StoreOK
    <3> QED
      BY <1>1, <1>3, <1>4, <3>1 DEF StoredOK, durable
  <2> QED
    BY <1>3, <2>1 DEF StoreOK, durable
<1>11. NextFollowsSettled' /\ OneParentVector'
  BY <1>3 DEF NextFollowsSettled, OneParentVector, durable
<1> QED
  BY <1>6, <1>7, <1>8, <1>9, <1>10, <1>11

\* The next slot is queued, or the answers are collected.
LEMMA NextSlotFields ==
    ASSUME TypeOK, NEW fields \in Local, fields.slot = run.slot, fields.pc = "queue",
           NextSlot(fields)
    PROVE  /\ run' \in Local
           /\ \/ run'.pc = "queue" /\ run'.slot = run.slot + 1
              \/ run'.pc = "collect" /\ run.slot = NumSlots
           /\ run'.gen = fields.gen /\ run'.origin = fields.origin
           /\ run'.assigned = fields.assigned
           /\ run'.results = fields.results /\ run'.reason = fields.reason
<1>1. run.slot \in Slots
  BY RunFields
<1>2. CASE run.slot < NumSlots
  <2>1. PICK next \in Slots : next = run.slot + 1
    BY <1>1, <1>2, SlotFacts DEF Slots
  <2>2. run' = [fields EXCEPT !.slot = next]
    BY <1>2, <2>1 DEF NextSlot
  <2> QED
    BY <2>1, <2>2 DEF Local
<1>3. CASE ~ (run.slot < NumSlots)
  <2>1. run' = [fields EXCEPT !.pc = "collect"] /\ run.slot = NumSlots
    BY <1>1, <1>3, SlotFacts DEF NextSlot, Slots
  <2> QED
    BY <2>1 DEF Local, ControlPoints
<1> QED
  BY <1>2, <1>3

\* What a step of the queue leaves to show: its own slot.
LEMMA QueueFrame ==
    ASSUME Inv, NEW s \in Slots, run.pc = "queue", run.slot = s,
           \/ run'.pc = "queue" /\ run'.slot = run.slot + 1
           \/ run'.pc = "collect" /\ run.slot = NumSlots,
           run'.gen = run.gen, run'.origin = run.origin, run'.assigned = run.assigned,
           run'.reason = run.reason \/ run'.reason # "none",
           cp'.next = cp.next, selections' = selections,
           \A t \in Slots \ {s} : /\ calls'[t] = calls[t] /\ Cached(t)' = Cached(t)
                                  /\ run'.results[t] = run.results[t],
           OpenCall(calls'[s]) \/ calls'[s] = calls[s],
           calls'[s].state # "none" => ~ Settled(Cached(s)'),
           AttemptLeft(run'.results[s]),
           run'.results[s].status \notin CutStatuses \cup {"absent"} =>
              Cached(s)' = run'.results[s],
           run'.reason = "none" => run'.results[s].status \notin CutStatuses,
           calls'[s].state # "none" \/ run'.results[s].status # "absent"
    PROVE  /\ \A t \in Slots : CallOK(t)' /\ ResultOK(t)'
           /\ RunOK' /\ ParentsOK'
<1> USE DEF Inv
<1>1. run'.pc \in CallsOpen /\ run'.pc \in InGeneration /\ run'.pc \notin Collected
      /\ run'.pc # "repairWait" /\ run.pc \in InGeneration /\ run.pc # "abort"
  BY DEF CallsOpen, InGeneration, Collected
<1>2. s \in Nat /\ s <= NumSlots /\ NumSlots \in Nat
  BY SlotFacts DEF Slots
<1>3. ASSUME NEW t \in Slots  PROVE CallOK(t)'
  <2>1. CallOK(t) /\ CallOK(s) /\ t \in Nat
    BY DEF Slots
  <2>2. CASE t = s
    <3>1. CASE calls'[s] = calls[s]
      BY <1>1, <1>2, <2>1, <2>2, <3>1 DEF CallOK
    <3>2. CASE OpenCall(calls'[s])
      BY <1>1, <1>2, <2>2, <3>2 DEF CallOK, OpenCall
    <3> QED
      BY <3>1, <3>2
  <2>3. CASE t # s
    BY <1>1, <1>2, <2>1, <2>3 DEF CallOK
  <2> QED
    BY <2>2, <2>3
<1>4. ASSUME NEW t \in Slots  PROVE ResultOK(t)'
  <2>1. ResultOK(t) /\ t \in Nat /\ t <= NumSlots
    BY SlotFacts DEF Slots
  <2>2. CASE t = s
    BY <1>1, <2>2 DEF ResultOK
  <2>3. CASE t # s
    <3>1. (run'.pc = "collect" \/ (run'.pc = "queue" /\ t < run'.slot)) => t < run.slot
      BY <1>2, <2>1, <2>3
    <3> QED
      BY <1>1, <2>1, <2>3, <3>1 DEF ResultOK
  <2> QED
    BY <2>2, <2>3
<1>5. RunOK'
  BY <1>1 DEF RunOK, CallsOpen
<1>6. ParentsOK'
  BY <1>1 DEF ParentsOK
<1> QED
  BY <1>3, <1>4, <1>5, <1>6

LEMMA QueueRefuseInv ==
    ASSUME Inv, NEW s \in Slots, QueueRefuse(s)
    PROVE  Inv'
<1> USE DEF Inv
<1>1. PICK reason \in BudgetReasons \cup {"none"} : reason = BudgetReason(cp.turns)
  BY BudgetReasonType
<1>2. PICK rec \in SlotRecord : rec = Cut(reason, "none")
  BY SlotRecordType DEF Raws
<1>3. AttemptLeft(rec) /\ rec.status \in CutStatuses
  BY <1>2, SlotRecordType DEF Raws
<1>4. /\ run.pc = "queue" /\ run.slot = s /\ reason # "none"
      /\ UNCHANGED <<durable, calls, Environment, history>>
      /\ NextSlot([run EXCEPT !.reason = reason, !.results[s] = rec])
  BY <1>1, <1>2 DEF QueueRefuse, At
<1>5. PICK fields \in Local : fields = [run EXCEPT !.reason = reason, !.results[s] = rec]
  BY RunFields DEF Local
<1>6. /\ fields.slot = run.slot /\ fields.pc = "queue" /\ fields.gen = run.gen
      /\ fields.origin = run.origin /\ fields.assigned = run.assigned
      /\ fields.results = [run.results EXCEPT ![s] = rec] /\ fields.reason = reason
  BY <1>4, <1>5, RunFields DEF Local
<1>7. /\ run' \in Local
      /\ \/ run'.pc = "queue" /\ run'.slot = run.slot + 1
         \/ run'.pc = "collect" /\ run.slot = NumSlots
      /\ run'.gen = run.gen /\ run'.origin = run.origin /\ run'.assigned = run.assigned
      /\ run'.results = [run.results EXCEPT ![s] = rec] /\ run'.reason = reason
  <2>1. NextSlot(fields)
    BY <1>4, <1>5
  <2> QED
    BY <1>6, <2>1, NextSlotFields
<1>8. TypeOK' /\ Accounts'
  <2>1. Unspent' = Unspent /\ Unrecorded' = Unrecorded /\ Open' = Open
    BY <1>4, CallsKept
  <2> QED
    BY <1>4, <1>7, <2>1 DEF TypeOK, Accounts, TurnsAccounted, durable, history, Environment
<1>9. cp' = cp /\ selections' = selections /\ calls' = calls
  BY <1>4 DEF durable
<1>10. /\ StoreOK' /\ NextFollowsSettled' /\ OneParentVector'
       /\ \A t \in Slots : Cached(t)' = Cached(t)
  <2>1. run'.pc # "boundary" /\ run.pc \in InGeneration
    BY <1>4, <1>7 DEF InGeneration
  <2> QED
    BY <1>7, <1>9, <2>1, StoreKept
<1>11. \A t \in Slots : CallOK(t)' /\ ResultOK(t)'
  <2>1. /\ run'.results[s] = rec
        /\ \A t \in Slots \ {s} : run'.results[t] = run.results[t]
    BY <1>7, RunFields
  <2>2. rec.status # "absent"
    BY <1>3 DEF CutStatuses
  <2>3. calls[s].state = "none"
    BY <1>4, SlotFacts DEF CallOK, Slots
  <2> QED
    BY <1>3, <1>4, <1>7, <1>9, <1>10, <2>1, <2>2, <2>3, QueueFrame
<1>12. RunOK' /\ ParentsOK'
  BY <1>4, <1>7, <1>9 DEF RunOK, ParentsOK, Item, InGeneration
<1> QED
  BY <1>8, <1>10, <1>11, <1>12

\* A reservation taken or given back with the call of one slot.
LEMMA AccountsStep ==
    ASSUME Inv, NEW s \in Slots, \A t \in Slots \ {s} : calls'[t] = calls[t],
           cp'.turns + Reserved(calls[s]) = cp.turns + Reserved(calls'[s]),
           cp'.turns \in Nat, Charged(calls'[s]) <= Charged(calls[s]),
           Held(calls'[s]) + Reserved(calls[s]) <= Held(calls[s]) + Reserved(calls'[s]),
           UNCHANGED <<spent, leaked, escaped, ledger>>
    PROVE  Accounts'
<1>1. /\ Cardinality(Unspent) \in Nat /\ Cardinality(Unspent') \in Nat
      /\ Cardinality(Unspent') + Reserved(calls[s]) = Cardinality(Unspent) + Reserved(calls'[s])
      /\ Cardinality(Unrecorded) \in Nat /\ Cardinality(Unrecorded') \in Nat
      /\ Cardinality(Unrecorded') + Charged(calls[s])
            = Cardinality(Unrecorded) + Charged(calls'[s])
      /\ Cardinality(Open) \in Nat /\ Cardinality(Open') \in Nat
      /\ Cardinality(Open') + Held(calls[s]) = Cardinality(Open) + Held(calls'[s])
  BY OneCall
<1>2. /\ cp.turns \in Nat /\ spent \in Nat /\ leaked \in Nat /\ escaped \in Nat /\ ledger \in Nat
      /\ cp.turns + escaped = spent + leaked + Cardinality(Unspent)
      /\ ledger + Cardinality(Unrecorded) <= spent /\ Cardinality(Open) <= cp.turns
  BY DEF Inv, TypeOK, Accounts, TurnsAccounted
<1>3. \A k : Reserved(k) \in {0, 1} /\ Charged(k) \in {0, 1} /\ Held(k) \in {0, 1}
  BY DEF Reserved, Charged, Held
<1>4. TurnsAccounted'
  <2>1. /\ Reserved(calls[s]) \in Nat /\ Reserved(calls'[s]) \in Nat
    BY <1>3
  <2>2. cp'.turns + escaped = spent + leaked + Cardinality(Unspent')
    <3>1. PICK a \in Nat, b \in Nat : a = Reserved(calls[s]) /\ b = Reserved(calls'[s])
      BY <2>1
    <3>2. PICK n \in Nat, m \in Nat : n = cp.turns /\ m = cp'.turns
      BY <1>2
    <3>3. m + a = n + b /\ Cardinality(Unspent') + a = Cardinality(Unspent) + b
      BY <1>1, <3>1, <3>2
    <3>4. PICK u \in Nat, v \in Nat : u = Cardinality(Unspent) /\ v = Cardinality(Unspent')
      BY <1>1
    <3>5. v + a = u + b /\ n + escaped = spent + leaked + u
      BY <1>2, <3>2, <3>3, <3>4
    <3>6. m + escaped = spent + leaked + v
      BY <1>2, <3>3, <3>5
    <3> QED
      BY <3>2, <3>4, <3>6
  <2>3. spent' = spent /\ leaked' = leaked /\ escaped' = escaped
    OBVIOUS
  <2> QED
    BY <2>2, <2>3 DEF TurnsAccounted
<1>5. ledger' + Cardinality(Unrecorded') <= spent'
  BY <1>1, <1>2, <1>3
<1>6. Cardinality(Open') <= cp'.turns
  BY <1>1, <1>2, <1>3
<1> QED
  BY <1>4, <1>5, <1>6 DEF Accounts

LEMMA NoCallFacts ==
    /\ NoCall \in Call /\ NoCall.state = "none" /\ ~ NoCall.retained /\ NoCall.raw = "none"
    /\ Reserved(NoCall) = 0 /\ Charged(NoCall) = 0 /\ Held(NoCall) = 0
    /\ NoCall.memory = "none"
<1>1. 0 \in Phases /\ 0 \in 0 .. RetryLimit
  BY SlotFacts DEF Phases
<1> QED
  BY <1>1 DEF NoCall, Call, CallStates, Raws, Reserved, Charged, Held

\* What is recovered for a slot: its final result keeps being one.
LEMMA ReassessedFacts ==
    ASSUME Inv, NEW rec \in SlotRecord, AttemptLeft(rec)
    PROVE  /\ Reassessed(rec) \in SlotRecord /\ AttemptLeft(Reassessed(rec))
           /\ Settled(rec) => Reassessed(rec) = rec
<1>1. "good" \in Raws /\ 0 \in Phases
  BY SlotFacts DEF Raws, Paid, Phases
<1>2. Assessed("good", 0) \in SlotRecord /\ AttemptLeft(Assessed("good", 0))
  BY <1>1, SlotRecordType
<1> QED
  BY <1>2 DEF Reassessed, Reassessable, Settled

LEMMA QueueRecoverInv ==
    ASSUME Inv, NEW s \in Slots, QueueRecover(s)
    PROVE  Inv'
<1> USE DEF Inv
<1>1. run.pc = "queue" /\ run.slot = s /\ run.pc \in InGeneration /\ run.pc # "abort"
  BY DEF QueueRecover, At, InGeneration
<1>2. Key(s) \in Keys /\ Cached(s) \in SlotRecord /\ AttemptLeft(Cached(s))
  BY <1>1, KeyType DEF StoreOK, Cached
<1>3. PICK rec \in SlotRecord : rec = Reassessed(Cached(s))
  BY <1>2, ReassessedFacts
<1>4. AttemptLeft(rec) /\ (Settled(Cached(s)) => Settled(rec))
  BY <1>2, <1>3, ReassessedFacts
<1>5. /\ Recoverable(s, rec) /\ cp' = [cp EXCEPT !.slots[Key(s)] = rec]
      /\ NextSlot([run EXCEPT !.results[s] = rec])
      /\ UNCHANGED <<evidence, ledger, selections, outcome, calls, Environment, history>>
  BY <1>3 DEF QueueRecover
<1>6. rec.status \notin CutStatuses \cup {"absent"}
  BY <1>5 DEF Recoverable, Settled, CutStatuses
<1>7. /\ cp' \in Checkpoint /\ cp'.turns = cp.turns /\ cp'.next = cp.next
      /\ cp'.slots = [cp.slots EXCEPT ![Key(s)] = rec]
  BY <1>2, <1>5 DEF TypeOK, Checkpoint
<1>8. PICK fields \in Local : fields = [run EXCEPT !.results[s] = rec]
  BY RunFields DEF Local
<1>9. /\ fields.slot = run.slot /\ fields.pc = "queue" /\ fields.gen = run.gen
      /\ fields.origin = run.origin /\ fields.assigned = run.assigned
      /\ fields.results = [run.results EXCEPT ![s] = rec] /\ fields.reason = run.reason
  BY <1>1, <1>8, RunFields DEF Local
<1>10. /\ run' \in Local
       /\ \/ run'.pc = "queue" /\ run'.slot = run.slot + 1
          \/ run'.pc = "collect" /\ run.slot = NumSlots
       /\ run'.gen = run.gen /\ run'.origin = run.origin /\ run'.assigned = run.assigned
       /\ run'.results = [run.results EXCEPT ![s] = rec] /\ run'.reason = run.reason
  <2>1. NextSlot(fields)
    BY <1>5, <1>8
  <2> QED
    BY <1>9, <2>1, NextSlotFields
<1>11. TypeOK' /\ Accounts'
  <2>1. Unspent' = Unspent /\ Unrecorded' = Unrecorded /\ Open' = Open
    BY <1>5, CallsKept
  <2> QED
    BY <1>5, <1>7, <1>10, <2>1
    DEF TypeOK, Checkpoint, Accounts, TurnsAccounted, history, Environment
<1>12. /\ StoreOK' /\ NextFollowsSettled' /\ OneParentVector'
       /\ Cached(s)' = rec
       /\ \A t \in Slots \ {s} : Cached(t)' = Cached(t)
  <2>1. run'.pc \in InGeneration
    BY <1>10 DEF InGeneration
  <2> QED
    BY <1>1, <1>4, <1>5, <1>7, <1>10, <2>1, StoreSlot
<1>13. /\ \A t \in Slots : CallOK(t)' /\ ResultOK(t)'
       /\ RunOK' /\ ParentsOK'
  <2>1. /\ run'.results[s] = rec
        /\ \A t \in Slots \ {s} : run'.results[t] = run.results[t]
    BY <1>10, RunFields
  <2>2. calls' = calls /\ calls[s].state = "none"
    BY <1>1, <1>5, SlotFacts DEF CallOK, Slots
  <2> QED
    BY <1>1, <1>4, <1>5, <1>6, <1>7, <1>10, <1>12, <2>1, <2>2, QueueFrame
<1> QED
  BY <1>11, <1>12, <1>13

LEMMA QueueCallInv ==
    ASSUME Inv, NEW s \in Slots, QueueCall(s)
    PROVE  Inv'
<1> USE DEF Inv
<1>1. run.pc = "queue" /\ run.slot = s /\ run.pc \in InGeneration /\ run.pc # "abort"
  BY DEF QueueCall, At, InGeneration
<1>2. PICK c \in Call : c = [NoCall EXCEPT !.state = "queued"]
  BY NoCallFacts DEF Call, CallStates
<1>3. /\ OpenCall(c) /\ Reserved(c) = 1 /\ Charged(c) = 0 /\ c.state # "none"
      /\ Held(c) = 1
  BY <1>2, NoCallFacts DEF Call, OpenCall, Reserved, Charged, Held
<1>4. /\ cp' = [cp EXCEPT !.turns = @ + 1] /\ calls' = [calls EXCEPT ![s] = c]
      /\ NextSlot(run) /\ ~ Recoverable(s, Reassessed(Cached(s)))
      /\ UNCHANGED <<evidence, ledger, selections, outcome, Environment, history>>
  BY <1>2 DEF QueueCall
<1>5. /\ cp' \in Checkpoint /\ cp'.turns = cp.turns + 1 /\ cp'.next = cp.next
      /\ cp'.slots = cp.slots
  BY <1>4 DEF TypeOK, Checkpoint
<1>6. /\ run' \in Local
      /\ \/ run'.pc = "queue" /\ run'.slot = run.slot + 1
         \/ run'.pc = "collect" /\ run.slot = NumSlots
      /\ run'.gen = run.gen /\ run'.origin = run.origin /\ run'.assigned = run.assigned
      /\ run'.results = run.results /\ run'.reason = run.reason
  BY <1>1, <1>4, RunFields, NextSlotFields
<1>7. /\ calls \in [Slots -> Call] /\ calls' \in [Slots -> Call] /\ calls'[s] = c
      /\ \A t \in Slots \ {s} : calls'[t] = calls[t]
      /\ calls[s].state = "none"
  BY <1>1, <1>4, SlotFacts DEF TypeOK, CallOK, Slots
<1>8. TypeOK'
  BY <1>4, <1>5, <1>6, <1>7 DEF TypeOK, Checkpoint, history, Environment
<1>9. Accounts'
  <2>1. Reserved(calls[s]) = 0 /\ Charged(calls[s]) = 0 /\ Held(calls[s]) = 0
    BY <1>7 DEF Reserved, Charged, Held, CallOK
  <2>2. cp'.turns + Reserved(calls[s]) = cp.turns + Reserved(calls'[s]) /\ cp'.turns \in Nat
        /\ Charged(calls'[s]) <= Charged(calls[s])
        /\ Held(calls'[s]) + Reserved(calls[s]) <= Held(calls[s]) + Reserved(calls'[s])
    BY <1>3, <1>5, <1>7, <2>1 DEF TypeOK
  <2>3. UNCHANGED <<spent, leaked, escaped, ledger>>
    BY <1>4 DEF history
  <2> QED
    BY <1>7, <2>2, <2>3, AccountsStep
<1>10. /\ StoreOK' /\ NextFollowsSettled' /\ OneParentVector'
       /\ \A t \in Slots : Cached(t)' = Cached(t)
  <2>1. run'.pc # "boundary"
    BY <1>6
  <2> QED
    BY <1>1, <1>4, <1>5, <1>6, <2>1, StoreKept
<1>11. ~ Settled(Cached(s))
  <2>1. Cached(s) \in SlotRecord /\ AttemptLeft(Cached(s))
    BY <1>1, KeyType DEF StoreOK, Cached
  <2> QED
    BY <1>4, <2>1, ReassessedFacts DEF Recoverable
<1>12. /\ \A t \in Slots : CallOK(t)' /\ ResultOK(t)'
       /\ RunOK' /\ ParentsOK'
  <2>1. ResultOK(s)
    OBVIOUS
  <2>2. /\ AttemptLeft(run'.results[s])
        /\ run'.results[s].status \notin CutStatuses \cup {"absent"} =>
              Cached(s)' = run'.results[s]
        /\ run'.reason = "none" => run'.results[s].status \notin CutStatuses
    BY <1>1, <1>6, <1>10, <2>1 DEF ResultOK
  <2> QED
    BY <1>1, <1>3, <1>4, <1>5, <1>6, <1>7, <1>10, <1>11, <2>2, QueueFrame
<1> QED
  BY <1>8, <1>9, <1>10, <1>12

-----------------------------------------------------------------------------
(* The coordinator: answers collected, assessed, cut or deferred. *)

LEMMA ReservationIsCounted ==
    ASSUME Inv, NEW s \in Slots
    PROVE  cp.turns - Reserved(calls[s]) \in Nat /\ Reserved(calls[s]) \in {0, 1}
<1>1. Reserved(calls[s]) = 1 => s \in Open
  BY DEF Reserved, Open
<1>2. /\ Cardinality(Open) \in Nat /\ IsFiniteSet(Open \ {s})
      /\ s \in Open => Cardinality(Open \ {s}) = Cardinality(Open) - 1
      /\ Cardinality(Open \ {s}) \in Nat
  BY FiniteParts, FS_RemoveElement, FS_CardinalityType
<1>3. cp.turns \in Nat /\ Cardinality(Open) <= cp.turns
  BY DEF Inv, TypeOK, Accounts
<1>4. Reserved(calls[s]) \in {0, 1}
  BY DEF Reserved
<1> QED
  BY <1>1, <1>2, <1>3, <1>4

LEMMA ReleaseIsExact ==
    ASSUME Inv, NEW s \in Slots
    PROVE  /\ calls[s].state = "ready" => AfterRelease(s) = cp.turns - Reserved(calls[s])
           /\ (calls[s].state = "declined" \/ (calls[s].state = "ready" /\ calls[s].raw = "infra"))
                 => Reserved(calls[s]) = 1
<1>1. cp.turns \in Nat
  BY DEF Inv, TypeOK
<1> QED
  BY <1>1 DEF AfterRelease, Reserved

\* A saved result ends the call of its slot.
LEMMA SaveFrame ==
    ASSUME Inv, NEW s \in Slots, NEW rec \in SlotRecord, NEW turns, SaveSlot(s, rec, turns),
           AttemptLeft(rec), rec.status # "absent",
           turns = cp.turns - Reserved(calls[s]),
           calls[s].state # "none",
           \/ run.pc = "collect" /\ run'.pc = "collect"
           \/ run.pc = "repairWait" /\ run'.pc \in {"repair", "repairLoop", "assemble"},
           run' \in Local, stop' \in BOOLEAN, expired' \in BOOLEAN,
           run'.gen = run.gen, run'.origin = run.origin, run'.assigned = run.assigned,
           run'.results = [run.results EXCEPT ![s] = rec],
           run'.reason = run.reason \/ run'.reason # "none",
           run'.reason = "none" => rec.status \notin CutStatuses
    PROVE  Inv'
<1> USE DEF Inv
<1>1. /\ run.pc \in InGeneration /\ run.pc # "abort" /\ run'.pc \in InGeneration
      /\ run'.pc \notin {"queue", "repairCall", "repairWait", "off", "boundary"}
      /\ run.pc # "queue"
  BY DEF InGeneration
<1>2. /\ cp' = [cp EXCEPT !.slots[Key(s)] = rec, !.turns = turns]
      /\ calls' = [calls EXCEPT ![s] = NoCall]
      /\ UNCHANGED <<evidence, ledger, selections, outcome, spent, leaked, escaped, sessions>>
  BY DEF SaveSlot, history
<1>3. Key(s) \in Keys /\ turns \in Nat
  BY <1>1, KeyType, ReservationIsCounted
<1>4. /\ cp' \in Checkpoint /\ cp'.turns = turns /\ cp'.next = cp.next
      /\ cp'.slots = [cp.slots EXCEPT ![Key(s)] = rec]
  BY <1>2, <1>3 DEF TypeOK, Checkpoint
<1>5. /\ calls \in [Slots -> Call] /\ calls' \in [Slots -> Call] /\ calls'[s] = NoCall
      /\ \A t \in Slots \ {s} : calls'[t] = calls[t]
  BY <1>2, NoCallFacts DEF TypeOK
<1>6. TypeOK'
  BY <1>2, <1>4, <1>5 DEF TypeOK, Checkpoint
<1>7. Accounts'
  <2>1. /\ Reserved(calls'[s]) = 0 /\ Charged(calls'[s]) = 0 /\ Charged(calls[s]) \in {0, 1}
        /\ Reserved(calls[s]) \in {0, 1} /\ cp.turns \in Nat
        /\ Held(calls'[s]) = 0 /\ Held(calls[s]) = 1
    BY <1>5, NoCallFacts, ReservationIsCounted DEF Charged, Held, TypeOK
  <2>2. cp'.turns + Reserved(calls[s]) = cp.turns + Reserved(calls'[s]) /\ cp'.turns \in Nat
        /\ Charged(calls'[s]) <= Charged(calls[s])
        /\ Held(calls'[s]) + Reserved(calls[s]) <= Held(calls[s]) + Reserved(calls'[s])
    BY <1>3, <1>4, <2>1
  <2>3. UNCHANGED <<spent, leaked, escaped, ledger>>
    BY <1>2
  <2> QED
    BY <1>5, <2>2, <2>3, AccountsStep
<1>8. /\ StoreOK' /\ NextFollowsSettled' /\ OneParentVector'
      /\ Cached(s)' = rec /\ \A t \in Slots \ {s} : Cached(t)' = Cached(t)
  <2>1. CallOK(s)
    OBVIOUS
  <2>2. Settled(Cached(s)) => Settled(rec)
    BY <1>1, <2>1 DEF CallOK
  <2> QED
    BY <1>1, <1>2, <1>4, <2>2, StoreSlot
<1>9. /\ run'.results[s] = rec
      /\ \A t \in Slots \ {s} : run'.results[t] = run.results[t]
  BY RunFields
<1>10. ASSUME NEW t \in Slots  PROVE CallOK(t)'
  <2>1. CallOK(t) /\ CallOK(s)
    OBVIOUS
  <2>2. CASE t = s
    BY <1>5, <2>2, NoCallFacts DEF CallOK
  <2>3. CASE t # s
    BY <1>1, <1>5, <1>8, <2>1, <2>3 DEF CallOK
  <2> QED
    BY <2>2, <2>3
<1>11. ASSUME NEW t \in Slots  PROVE ResultOK(t)'
  <2>1. ResultOK(t)
    OBVIOUS
  <2>2. CASE t = s
    BY <1>8, <1>9, <2>2 DEF ResultOK
  <2>3. CASE t # s
    <3>1. calls'[t] = calls[t] /\ Cached(t)' = Cached(t) /\ run'.results[t] = run.results[t]
      BY <1>5, <1>8, <1>9, <2>3
    <3>2. run.pc \in Collected => run.results[t].status # "absent"
      BY <2>1 DEF ResultOK
    <3>3. run'.pc \in Collected => run.pc \in Collected
      BY DEF Collected, InGeneration
    <3> QED
      BY <1>1, <2>1, <3>1, <3>2, <3>3 DEF ResultOK
  <2> QED
    BY <2>2, <2>3
<1>12. RunOK' /\ ParentsOK'
  BY <1>1, <1>2, <1>4 DEF RunOK, ParentsOK, InGeneration
<1> QED
  BY <1>6, <1>7, <1>8, <1>10, <1>11, <1>12

\* The coordinator keeps a result, and perhaps a reason to stop.
LEMMA ResultFields ==
    ASSUME TypeOK, NEW s \in Slots, NEW rec \in SlotRecord,
           NEW reason \in BudgetReasons \cup {"none"},
           run' = [run EXCEPT !.results[s] = rec, !.reason = reason]
    PROVE  /\ run' \in Local /\ run'.pc = run.pc /\ run'.gen = run.gen
           /\ run'.origin = run.origin /\ run'.assigned = run.assigned
           /\ run'.results = [run.results EXCEPT ![s] = rec] /\ run'.reason = reason
  BY RunFields DEF Local

LEMMA CollectCutInv ==
    ASSUME Inv, NEW s \in Slots,
           CollectDeclined(s) \/ CollectBoundary(s) \/ CollectStopped(s)
    PROVE  Inv'
<1> USE DEF Inv
<1>1. "operator_stop" \in BudgetReasons /\ "operator_stop" # "none"
      /\ "none" \in Raws /\ "infra" \in Raws /\ calls[s].raw \in Raws
  BY CallFields DEF BudgetReasons, Raws
<1>2. \E reason \in BudgetReasons, raw \in Raws, turns \in {cp.turns - Reserved(calls[s])} :
         /\ run' = [run EXCEPT !.results[s] = Cut(reason, raw), !.reason = reason]
         /\ SaveSlot(s, Cut(reason, raw), turns)
         /\ turns = cp.turns - Reserved(calls[s])
  <2>1. CASE CollectDeclined(s)
    <3>1. Reserved(calls[s]) = 1
      BY <2>1, ReleaseIsExact DEF CollectDeclined
    <3> QED
      BY <1>1, <2>1, <3>1 DEF CollectDeclined
  <2>2. CASE CollectBoundary(s)
    <3>1. Reserved(calls[s]) = 1
      BY <2>2, ReleaseIsExact DEF CollectBoundary, RetriesLeft
    <3>2. BudgetReason(cp.turns - 1) \in BudgetReasons
      BY <2>2, BudgetReasonType DEF CollectBoundary
    <3> QED
      BY <1>1, <2>2, <3>1, <3>2 DEF CollectBoundary
  <2>3. CASE CollectStopped(s)
    <3>1. AfterRelease(s) = cp.turns - Reserved(calls[s])
      BY <2>3, ReleaseIsExact DEF CollectStopped
    <3> QED
      BY <1>1, <2>3, <3>1 DEF CollectStopped
  <2> QED
    BY <2>1, <2>2, <2>3
<1>3. PICK reason \in BudgetReasons, raw \in Raws, turns \in {cp.turns - Reserved(calls[s])} :
         /\ run' = [run EXCEPT !.results[s] = Cut(reason, raw), !.reason = reason]
         /\ SaveSlot(s, Cut(reason, raw), turns)
         /\ turns = cp.turns - Reserved(calls[s])
  BY <1>2
<1>4. PICK rec \in SlotRecord : rec = Cut(reason, raw)
  BY SlotRecordType
<1>5. AttemptLeft(rec) /\ rec.status # "absent" /\ reason # "none"
  BY <1>4, SlotRecordType DEF CutStatuses, BudgetReasons
<1>6. /\ run' \in Local /\ run'.pc = run.pc /\ run'.gen = run.gen
      /\ run'.origin = run.origin /\ run'.assigned = run.assigned
      /\ run'.results = [run.results EXCEPT ![s] = rec] /\ run'.reason = reason
  BY <1>3, <1>4, ResultFields
<1>7. /\ run.pc = "collect" /\ calls[s].state # "none"
      /\ stop' \in BOOLEAN /\ expired' \in BOOLEAN
  BY DEF CollectDeclined, CollectBoundary, CollectStopped, At, Environment, TypeOK
<1> QED
  BY <1>3, <1>4, <1>5, <1>6, <1>7, SaveFrame

LEMMA CollectAssessInv ==
    ASSUME Inv, NEW s \in Slots, CollectAssess(s)
    PROVE  Inv'
<1> USE DEF Inv
<1>1. calls[s].raw \in Raws /\ calls[s].state = "ready" /\ 0 \in Phases
  BY CallFields, SlotFacts DEF CollectAssess, Phases
<1>2. PICK rec \in SlotRecord : rec = Assessed(calls[s].raw, 0)
  BY <1>1, SlotRecordType
<1>3. AttemptLeft(rec) /\ rec.status \notin CutStatuses \cup {"absent"}
  BY <1>1, <1>2, SlotRecordType DEF Assessed, CutStatuses
<1>4. stop' \in BOOLEAN /\ expired' \in BOOLEAN /\ run.pc = "collect"
  BY DEF CollectAssess, LateStop, At, TypeOK
<1>5. PICK reason \in BudgetReasons \cup {"none"} :
          /\ reason = IF stop' THEN "operator_stop" ELSE run.reason
          /\ reason = run.reason \/ reason # "none"
  BY RunFields DEF BudgetReasons
<1>6. /\ run' \in Local /\ run'.pc = run.pc /\ run'.gen = run.gen
      /\ run'.origin = run.origin /\ run'.assigned = run.assigned
      /\ run'.results = [run.results EXCEPT ![s] = rec] /\ run'.reason = reason
  <2>1. run' = [run EXCEPT !.results[s] = rec, !.reason = reason]
    BY <1>2, <1>5 DEF CollectAssess
  <2> QED
    BY <2>1, ResultFields
<1>7. /\ SaveSlot(s, rec, AfterRelease(s))
      /\ AfterRelease(s) = cp.turns - Reserved(calls[s])
  BY <1>1, <1>2, ReleaseIsExact DEF CollectAssess
<1> QED
  BY <1>1, <1>3, <1>4, <1>5, <1>6, <1>7, SaveFrame

-----------------------------------------------------------------------------
(* The coordinator: repairs. *)

\* The result of a slot in repair is the stored one.
LEMMA RepairedIsStored ==
    ASSUME Inv, NEW s \in Slots, run.pc \in InGeneration, run.results[s].status \in Repairing
    PROVE  Cached(s) = run.results[s] /\ ~ Settled(Cached(s))
<1>1. ResultOK(s)
  BY DEF Inv
<1> QED
  BY <1>1 DEF ResultOK, Repairing, CutStatuses, Settled

LEMMA RepairStartInv ==
    ASSUME Inv, NEW s \in Slots, RepairStart(s)
    PROVE  Inv'
<1> USE DEF Inv
<1>1. /\ run.pc = "repairLoop" /\ run.slot = s /\ run.pc \in InGeneration
      /\ run.results[s].status = "repair_pending" /\ run.results[s] \in SlotRecord
  BY RunFields DEF RepairStart, At, InGeneration
<1>2. Cached(s) = run.results[s] /\ ~ Settled(Cached(s)) /\ Key(s) \in Keys
  BY <1>1, RepairedIsStored, KeyType DEF Repairing
<1>3. PICK repairs \in Phases : repairs = run.results[s].repairs + 1
  <2>1. AttemptLeft(run.results[s])
    BY DEF ResultOK
  <2> QED
    BY <1>1, <2>1, SlotFacts DEF AttemptLeft, SlotRecord, Phases
<1>4. PICK rec \in SlotRecord :
          rec = [run.results[s] EXCEPT !.status = "repair_running", !.repairs = repairs]
  BY <1>1 DEF SlotRecord, Statuses
<1>5. rec.status = "repair_running" /\ AttemptLeft(rec)
  BY <1>1, <1>4 DEF SlotRecord, AttemptLeft
<1>6. /\ cp' = [cp EXCEPT !.slots[Key(s)] = rec]
      /\ run' = [run EXCEPT !.pc = "repairCall", !.results[s] = rec]
      /\ UNCHANGED <<evidence, ledger, selections, outcome, calls, Environment, history>>
  <2>1. rec = [run.results[s] EXCEPT !.status = "repair_running", !.repairs = @ + 1]
    BY <1>1, <1>3, <1>4 DEF SlotRecord
  <2> QED
    BY <2>1 DEF RepairStart
<1>7. /\ cp' \in Checkpoint /\ cp'.turns = cp.turns /\ cp'.next = cp.next
      /\ cp'.slots = [cp.slots EXCEPT ![Key(s)] = rec]
  BY <1>2, <1>6 DEF TypeOK, Checkpoint
<1>8. /\ run' \in Local /\ run'.pc = "repairCall" /\ run'.slot = s /\ run'.gen = run.gen
      /\ run'.origin = run.origin /\ run'.assigned = run.assigned
      /\ run'.results = [run.results EXCEPT ![s] = rec] /\ run'.reason = run.reason
  BY <1>1, <1>6, RunFields DEF Local, ControlPoints
<1>9. TypeOK' /\ Accounts'
  <2>1. Unspent' = Unspent /\ Unrecorded' = Unrecorded /\ Open' = Open
    BY <1>6, CallsKept
  <2> QED
    BY <1>6, <1>7, <1>8, <2>1
    DEF TypeOK, Checkpoint, Accounts, TurnsAccounted, history, Environment
<1>10. /\ StoreOK' /\ NextFollowsSettled' /\ OneParentVector'
       /\ Cached(s)' = rec
       /\ \A t \in Slots \ {s} : Cached(t)' = Cached(t)
  <2>1. run'.pc \in InGeneration
    BY <1>8 DEF InGeneration
  <2> QED
    BY <1>1, <1>2, <1>5, <1>6, <1>7, <1>8, <2>1, StoreSlot
<1>11. ASSUME NEW t \in Slots  PROVE CallOK(t)'
  <2>1. calls'[t].state = "none" /\ calls'[t] = calls[t] /\ CallOK(t)
    BY <1>1, <1>6, NoneOpen DEF CallsOpen
  <2> QED
    BY <2>1 DEF CallOK
<1>12. ASSUME NEW t \in Slots  PROVE ResultOK(t)'
  <2>1. run'.results[s] = rec /\ (t # s => run'.results[t] = run.results[t])
    BY <1>8, RunFields
  <2>2. ResultOK(t)
    OBVIOUS
  <2>3. CASE t = s
    BY <1>5, <1>8, <1>10, <2>1, <2>3 DEF ResultOK, CutStatuses
  <2>4. CASE t # s
    <3>1. run.results[t].status # "absent"
      BY <1>1, <2>2 DEF ResultOK, Collected, InGeneration
    <3> QED
      BY <1>1, <1>8, <1>10, <2>1, <2>2, <2>4, <3>1 DEF ResultOK
  <2> QED
    BY <2>3, <2>4
<1>13. RunOK' /\ ParentsOK'
  <2>1. run'.results[run'.slot].status = "repair_running"
    BY <1>5, <1>8, RunFields
  <2> QED
    BY <1>1, <1>6, <1>7, <1>8, <2>1 DEF RunOK, ParentsOK, Item
<1> QED
  BY <1>9, <1>10, <1>11, <1>12, <1>13

LEMMA RepairReserveInv ==
    ASSUME Inv, RepairReserve
    PROVE  Inv'
<1> USE DEF Inv
<1>1. PICK s \in Slots : s = run.slot
  BY RunFields
<1>2. /\ run.pc = "repairCall" /\ run.pc \in InGeneration
      /\ run.results[s].status = "repair_running" /\ run.results[s] \in SlotRecord
  BY <1>1, RunFields DEF RepairReserve, At, InGeneration, RunOK, Item
<1>3. Cached(s) = run.results[s] /\ ~ Settled(Cached(s))
  BY <1>2, RepairedIsStored DEF Repairing
<1>4. PICK phase \in Phases : phase = run.results[s].repairs
  BY <1>2 DEF SlotRecord
<1>5. PICK c \in Call : c = [NoCall EXCEPT !.state = "queued", !.phase = phase]
  BY NoCallFacts DEF Call, CallStates
<1>6. /\ OpenCall(c) /\ Reserved(c) = 1 /\ Charged(c) = 0 /\ c.state # "none"
      /\ Held(c) = 1
  BY <1>5, NoCallFacts DEF Call, OpenCall, Reserved, Charged, Held
<1>7. /\ cp' = [cp EXCEPT !.turns = @ + 1] /\ calls' = [calls EXCEPT ![s] = c]
      /\ run' = [run EXCEPT !.pc = "repairWait"]
      /\ UNCHANGED <<evidence, ledger, selections, outcome, Environment, history>>
  BY <1>1, <1>4, <1>5 DEF RepairReserve, Item
<1>8. /\ cp' \in Checkpoint /\ cp'.turns = cp.turns + 1 /\ cp'.next = cp.next
      /\ cp'.slots = cp.slots
  BY <1>7 DEF TypeOK, Checkpoint
<1>9. /\ run' \in Local /\ run'.pc = "repairWait" /\ run'.slot = s /\ run'.gen = run.gen
      /\ run'.origin = run.origin /\ run'.assigned = run.assigned
      /\ run'.results = run.results /\ run'.reason = run.reason
  BY <1>1, <1>7, RunFields DEF Local, ControlPoints
<1>10. /\ calls \in [Slots -> Call] /\ calls' \in [Slots -> Call] /\ calls'[s] = c
       /\ \A t \in Slots \ {s} : calls'[t] = calls[t]
       /\ \A t \in Slots : calls[t].state = "none"
  BY <1>2, <1>7, NoneOpen DEF TypeOK, CallsOpen
<1>11. TypeOK'
  BY <1>7, <1>8, <1>9, <1>10 DEF TypeOK, Checkpoint, history, Environment
<1>12. Accounts'
  <2>1. Reserved(calls[s]) = 0 /\ Charged(calls[s]) = 0 /\ Held(calls[s]) = 0
    BY <1>10 DEF Reserved, Charged, Held, CallOK
  <2>2. cp'.turns + Reserved(calls[s]) = cp.turns + Reserved(calls'[s]) /\ cp'.turns \in Nat
        /\ Charged(calls'[s]) <= Charged(calls[s])
        /\ Held(calls'[s]) + Reserved(calls[s]) <= Held(calls[s]) + Reserved(calls'[s])
    BY <1>6, <1>8, <1>10, <2>1 DEF TypeOK
  <2>3. UNCHANGED <<spent, leaked, escaped, ledger>>
    BY <1>7 DEF history
  <2> QED
    BY <1>10, <2>2, <2>3, AccountsStep
<1>13. /\ StoreOK' /\ NextFollowsSettled' /\ OneParentVector'
       /\ \A t \in Slots : Cached(t)' = Cached(t)
  <2>1. run'.pc # "boundary"
    BY <1>9
  <2> QED
    BY <1>2, <1>7, <1>8, <1>9, <2>1, StoreKept
<1>14. ASSUME NEW t \in Slots  PROVE CallOK(t)'
  <2>1. CallOK(t)
    OBVIOUS
  <2>2. CASE t = s
    BY <1>3, <1>6, <1>9, <1>10, <1>13, <2>2 DEF CallOK, OpenCall, CallsOpen
  <2>3. CASE t # s
    BY <1>10, <2>1, <2>3 DEF CallOK
  <2> QED
    BY <2>2, <2>3
<1>15. ASSUME NEW t \in Slots  PROVE ResultOK(t)'
  <2>1. ResultOK(t)
    OBVIOUS
  <2>2. run.results[t].status # "absent"
    BY <1>2, <2>1 DEF ResultOK, Collected, InGeneration
  <2> QED
    BY <1>2, <1>9, <1>13, <2>1, <2>2 DEF ResultOK
<1>16. RunOK' /\ ParentsOK'
  BY <1>1, <1>2, <1>7, <1>8, <1>9 DEF RunOK, ParentsOK, Item
<1> QED
  BY <1>11, <1>12, <1>13, <1>14, <1>15, <1>16

LEMMA RepairDeferInv ==
    ASSUME Inv, NEW s \in Slots, RepairDefer(s)
    PROVE  Inv'
<1> USE DEF Inv
<1>1. /\ run.pc = "repairWait" /\ run.slot = s /\ calls[s].state = "ready"
      /\ run.results[s] \in SlotRecord /\ run.results[s].status = "repair_running"
      /\ stop' \in BOOLEAN /\ expired' \in BOOLEAN
  BY RunFields DEF RepairDefer, At, RunOK, Item, TypeOK, Environment
<1>2. PICK raw \in Raws : raw = calls[s].raw
  BY CallFields
<1>3. PICK rec \in SlotRecord : rec = [run.results[s] EXCEPT !.raw = raw]
  BY <1>1 DEF SlotRecord
<1>4. rec.status = "repair_running" /\ AttemptLeft(rec)
  BY <1>1, <1>3 DEF SlotRecord, AttemptLeft
<1>5. /\ SaveSlot(s, rec, AfterRelease(s))
      /\ AfterRelease(s) = cp.turns - Reserved(calls[s])
  BY <1>1, <1>2, <1>3, ReleaseIsExact DEF RepairDefer
<1>6. PICK reason \in DeferReasons(s) :
         NextRepair([run EXCEPT !.results[s] = rec, !.reason = reason])
  BY <1>2, <1>3 DEF RepairDefer
<1>7. /\ reason \in BudgetReasons \cup {"none"}
      /\ reason = run.reason \/ reason # "none"
  BY RunFields, BudgetReasonType DEF DeferReasons, BudgetReasons
<1>8. PICK fields \in Local : fields = [run EXCEPT !.results[s] = rec, !.reason = reason]
  BY <1>7, RunFields DEF Local
<1>9. /\ fields.slot = run.slot /\ fields.gen = run.gen /\ fields.origin = run.origin
      /\ fields.assigned = run.assigned /\ fields.results = [run.results EXCEPT ![s] = rec]
      /\ fields.reason = reason
  BY <1>8, RunFields DEF Local
<1>10. /\ run' \in Local /\ run'.pc \in {"repair", "assemble"}
       /\ run'.gen = run.gen /\ run'.origin = run.origin /\ run'.assigned = run.assigned
       /\ run'.results = [run.results EXCEPT ![s] = rec] /\ run'.reason = reason
  <2>1. NextRepair(fields)
    BY <1>6, <1>8
  <2> QED
    BY <1>9, <2>1, NextRepairFields
<1>11. /\ rec.status # "absent" /\ rec.status \notin CutStatuses /\ calls[s].state # "none"
       /\ run'.pc \in {"repair", "repairLoop", "assemble"}
  BY <1>1, <1>4, <1>10 DEF CutStatuses
<1> QED
  BY <1>1, <1>4, <1>5, <1>7, <1>10, <1>11, SaveFrame

LEMMA RepairAssessInv ==
    ASSUME Inv, NEW s \in Slots, RepairAssess(s)
    PROVE  Inv'
<1> USE DEF Inv
<1>1. /\ run.pc = "repairWait" /\ calls[s].state = "ready" /\ calls[s].raw \in Raws
      /\ run.results[s] \in SlotRecord
      /\ stop' \in BOOLEAN /\ expired' \in BOOLEAN
  BY RunFields, CallFields DEF RepairAssess, LateStop, At, TypeOK
<1>2. PICK repairs \in Phases : repairs = run.results[s].repairs
  BY <1>1 DEF SlotRecord
<1>3. PICK rec \in SlotRecord : rec = Assessed(calls[s].raw, repairs)
  BY <1>1, SlotRecordType
<1>4. AttemptLeft(rec) /\ rec.status \notin CutStatuses /\ rec.status # "absent"
  BY <1>1, <1>3, SlotRecordType DEF Assessed, CutStatuses
<1>5. PICK reason \in BudgetReasons \cup {"none"} :
          /\ reason = IF stop' THEN "operator_stop" ELSE run.reason
          /\ reason = run.reason \/ reason # "none"
  BY RunFields DEF BudgetReasons
<1>6. /\ run' \in Local /\ run'.pc = "repairLoop" /\ run'.gen = run.gen
      /\ run'.origin = run.origin /\ run'.assigned = run.assigned
      /\ run'.results = [run.results EXCEPT ![s] = rec] /\ run'.reason = reason
  <2>1. run' = [run EXCEPT !.pc = "repairLoop", !.results[s] = rec, !.reason = reason]
    BY <1>2, <1>3, <1>5 DEF RepairAssess
  <2> QED
    BY <2>1, RunFields DEF Local, ControlPoints
<1>7. /\ SaveSlot(s, rec, AfterRelease(s))
      /\ AfterRelease(s) = cp.turns - Reserved(calls[s])
  BY <1>1, <1>2, <1>3, ReleaseIsExact DEF RepairAssess
<1> QED
  BY <1>1, <1>4, <1>5, <1>6, <1>7, SaveFrame

-----------------------------------------------------------------------------
(* The coordinator: the end of a generation. *)

LEMMA SearchOutcomeType == SearchOutcome \in Outcomes
  BY DEF SearchOutcome, Outcomes

LEMMA EndMove ==
    ASSUME Inv, NEW state \in Outcomes, EndSession(state),
           run.pc \in {"assemble", "finish"},
           UNCHANGED <<cp, evidence, ledger, selections, calls, Environment, history>>
    PROVE  Inv'
<1>1. /\ run' \in Local /\ run'.pc = "off"
      /\ run'.gen = run.gen /\ run'.origin = run.origin /\ run'.assigned = run.assigned
      /\ run'.results = run.results /\ run'.reason = run.reason /\ outcome' = state
  BY RunFields DEF EndSession, Inv, Local, ControlPoints
<1>2. /\ UNCHANGED <<cp, evidence, ledger, selections, calls, spent, leaked, escaped, sessions>>
      /\ outcome' \in Outcomes /\ stop' \in BOOLEAN /\ expired' \in BOOLEAN
  BY <1>1 DEF Inv, TypeOK, history, Environment
<1>3. \A s \in Slots : calls[s].state = "none"
  BY NoneOpen DEF CallsOpen
<1>4. /\ run'.pc \notin Collected \cup {"abort"} /\ run'.pc \notin Collected
      /\ run'.pc \notin {"repairCall", "repairWait"}
      /\ run'.pc \in Collected \cup {"abort", "finish", "off"}
      /\ run.pc \in InGeneration \cup {"boundary", "finish"}
  BY <1>1 DEF Collected, InGeneration
<1> QED
  BY <1>1, <1>2, <1>3, <1>4, MoveFrame

LEMMA SessionEndsInv ==
    ASSUME Inv, SelectionEnds \/ Finish
    PROVE  Inv'
<1>1. CASE SelectionEnds
  <2>1. PICK state \in Outcomes : EndSession(state)
    BY <1>1 DEF SelectionEnds, Outcomes
  <2>2. /\ run.pc \in {"assemble", "finish"}
        /\ UNCHANGED <<cp, evidence, ledger, selections, calls, Environment, history>>
    BY <1>1 DEF SelectionEnds, At
  <2> QED
    BY <2>1, <2>2, EndMove
<1>2. CASE Finish
  <2>1. /\ run.pc \in {"assemble", "finish"} /\ EndSession(SearchOutcome)
        /\ UNCHANGED <<cp, evidence, ledger, selections, calls, Environment, history>>
    BY <1>2 DEF Finish, At
  <2> QED
    BY <2>1, SearchOutcomeType, EndMove
<1> QED
  BY <1>1, <1>2

\* A selection and its checkpoint keep the slots and the results.
LEMMA SelectionFrame ==
    ASSUME Inv, run' \in Local, cp' \in Checkpoint,
           cp'.slots = cp.slots, cp'.turns = cp.turns, cp'.next = cp.next,
           selections \subseteq selections', selections' \subseteq Gens,
           UNCHANGED <<evidence, ledger, outcome, calls, Environment, history>>,
           run.pc \in {"assemble", "selected"}, run'.pc \in {"selected", "advance"},
           run'.gen = run.gen, run'.origin = run.origin, run'.reason = run.reason,
           run'.results = run.results,
           run'.assigned.origin = "selected" => run'.assigned.gen - 1 \in selections'
    PROVE  Inv'
<1> USE DEF Inv
<1>1. /\ run.pc \in InGeneration /\ run'.pc \in InGeneration
      /\ run.pc \in Collected /\ run'.pc \in Collected
      /\ run.pc \notin CallsOpen /\ run'.pc # "boundary"
  BY DEF InGeneration, Collected, CallsOpen
<1>2. \A s \in Slots : calls[s].state = "none"
  BY <1>1, NoneOpen
<1>3. TypeOK' /\ Accounts'
  <2>1. Unspent' = Unspent /\ Unrecorded' = Unrecorded /\ Open' = Open
    BY CallsKept
  <2> QED
    BY <2>1 DEF TypeOK, Checkpoint, Accounts, TurnsAccounted, history, Environment
<1>4. /\ StoreOK' /\ NextFollowsSettled' /\ OneParentVector'
      /\ \A t \in Slots : Cached(t)' = Cached(t)
  BY <1>1, StoreKept
<1>5. ASSUME NEW t \in Slots  PROVE CallOK(t)'
  <2>1. CallOK(t)
    OBVIOUS
  <2> QED
    BY <1>2, <2>1 DEF CallOK
<1>6. ASSUME NEW t \in Slots  PROVE ResultOK(t)'
  <2>1. ResultOK(t)
    OBVIOUS
  <2> QED
    BY <1>1, <1>4, <2>1 DEF ResultOK
<1>7. RunOK'
  BY <1>1 DEF RunOK
<1>8. ParentsOK'
  BY <1>1 DEF ParentsOK
<1> QED
  BY <1>3, <1>4, <1>5, <1>6, <1>7, <1>8

LEMMA SelectInv ==
    ASSUME Inv, Select
    PROVE  Inv'
<1> USE DEF Inv
<1>1. /\ run.pc = "assemble" /\ selections' = selections \cup {run.gen}
      /\ UNCHANGED <<cp, evidence, ledger, outcome, calls, Environment, history>>
  BY DEF Select, At
<1>2. run.gen \in Gens /\ run.gen \in Nat
  BY <1>1, GenType DEF InGeneration
<1>3. PICK assigned \in [gen: 0 .. NumGens, origin: Origins] :
          /\ assigned = IF run.gen + 1 < NumGens
                        THEN [gen |-> run.gen + 1, origin |-> "selected"]
                        ELSE run.assigned
          /\ assigned.origin = "selected" => assigned.gen - 1 \in selections'
  <2>1. CASE run.gen + 1 < NumGens
    <3>1. PICK next \in 0 .. NumGens : next = run.gen + 1
      BY <1>2, <2>1, SlotFacts
    <3>2. PICK a \in [gen: 0 .. NumGens, origin: Origins] : a = [gen |-> next, origin |-> "selected"]
      BY DEF Origins
    <3>3. a.gen - 1 = run.gen
      BY <1>2, <3>1, <3>2
    <3>4. a.gen - 1 \in selections'
      BY <1>1, <3>3
    <3> QED
      BY <2>1, <3>1, <3>2, <3>4
  <2>2. CASE ~ (run.gen + 1 < NumGens)
    BY <1>1, <2>2, RunFields DEF ParentsOK
  <2> QED
    BY <2>1, <2>2
<1>4. run' = [run EXCEPT !.pc = "selected", !.assigned = assigned]
  BY <1>3 DEF Select
<1>5. /\ run' \in Local /\ run'.pc = "selected" /\ run'.assigned = assigned
      /\ run'.gen = run.gen /\ run'.origin = run.origin /\ run'.reason = run.reason
      /\ run'.results = run.results
  BY <1>4, RunFields DEF Local, ControlPoints
<1>6. /\ cp' \in Checkpoint /\ cp'.slots = cp.slots /\ cp'.turns = cp.turns
      /\ cp'.next = cp.next /\ selections \subseteq selections' /\ selections' \subseteq Gens
  BY <1>1, <1>2 DEF TypeOK, Checkpoint
<1> QED
  BY <1>1, <1>3, <1>5, <1>6, SelectionFrame

LEMMA SaveSelectionInv ==
    ASSUME Inv, SaveSelection
    PROVE  Inv'
<1> USE DEF Inv
<1>1. /\ run.pc = "selected" /\ cp' = [cp EXCEPT !.callbacks = @ \cup {run.gen}]
      /\ run' = [run EXCEPT !.pc = "advance"]
      /\ UNCHANGED <<evidence, ledger, selections, outcome, calls, Environment, history>>
  BY DEF SaveSelection, At
<1>2. run.gen \in Gens
  BY <1>1, GenType DEF InGeneration
<1>3. /\ cp' \in Checkpoint /\ cp'.slots = cp.slots /\ cp'.turns = cp.turns
      /\ cp'.next = cp.next
  BY <1>1, <1>2 DEF TypeOK, Checkpoint
<1>4. /\ run' \in Local /\ run'.pc = "advance" /\ run'.assigned = run.assigned
      /\ run'.gen = run.gen /\ run'.origin = run.origin /\ run'.reason = run.reason
      /\ run'.results = run.results
  BY <1>1, RunFields DEF Local, ControlPoints
<1>5. /\ selections \subseteq selections' /\ selections' \subseteq Gens
      /\ run'.assigned.origin = "selected" => run'.assigned.gen - 1 \in selections'
  BY <1>1, <1>4 DEF ParentsOK, TypeOK
<1> QED
  BY <1>1, <1>3, <1>4, <1>5, SelectionFrame

\* A generation that nothing cut and nothing holds back is settled, as stored.
LEMMA FinishedIsSettled ==
    ASSUME Inv, run.pc = "advance", run.reason = "none", ~ Unfinished
    PROVE  \A s \in Slots : Settled(Cached(s))
<1> SUFFICES ASSUME NEW s \in Slots  PROVE Settled(Cached(s))
  OBVIOUS
<1>1. ResultOK(s) /\ ~ Incomplete(run.results[s]) /\ run.results[s] \in SlotRecord
  BY RunFields DEF Inv, Unfinished
<1>2. /\ run.results[s].status # "absent" /\ run.results[s].status \notin CutStatuses
      /\ Cached(s) = run.results[s]
  BY <1>1 DEF ResultOK, Collected, InGeneration
<1> QED
  BY <1>1, <1>2 DEF Settled, Incomplete, CutStatuses, Repairing, SlotRecord, Statuses

LEMMA AdvanceInv ==
    ASSUME Inv, Advance
    PROVE  Inv'
<1> USE DEF Inv
<1>1. /\ run.pc = "advance" /\ run.pc \in InGeneration
      /\ UNCHANGED <<evidence, ledger, selections, outcome, calls, Environment, history>>
      /\ run.gen \in Gens /\ run.gen \in Nat /\ run.gen < NumGens /\ run.gen = cp.next
  BY GenType DEF Advance, At, InGeneration, RunOK
<1>2. \A s \in Slots : calls[s].state = "none"
  BY <1>1, NoneOpen DEF CallsOpen
<1>3. CASE run.reason # "none" \/ Unfinished
  <2>1. PICK infra \in BOOLEAN : infra = (Unfinished /\ run.reason = "none")
    BY DEF Unfinished
  <2>2. run' = [run EXCEPT !.pc = "finish", !.infra = infra]
    BY <1>3, <2>1 DEF Advance
  <2>3. cp' = cp
    BY <1>3 DEF Advance, TypeOK
  <2>4. /\ run' \in Local /\ run'.pc = "finish"
        /\ run'.gen = run.gen /\ run'.origin = run.origin /\ run'.assigned = run.assigned
        /\ run'.results = run.results /\ run'.reason = run.reason
    BY <2>2, RunFields DEF Local, ControlPoints
  <2>5. /\ UNCHANGED <<cp, evidence, ledger, selections, calls, spent, leaked, escaped, sessions>>
        /\ outcome' \in Outcomes /\ stop' \in BOOLEAN /\ expired' \in BOOLEAN
    BY <1>1, <2>3 DEF TypeOK, history, Environment
  <2>6. /\ run'.pc \notin Collected \cup {"abort"} /\ run'.pc \notin Collected
        /\ run'.pc \notin {"repairCall", "repairWait"}
        /\ run'.pc \in Collected \cup {"abort", "finish", "off"}
        /\ run.pc \in InGeneration \cup {"boundary", "finish"}
    BY <1>1, <2>4 DEF Collected, InGeneration
  <2> QED
    BY <1>2, <2>4, <2>5, <2>6, MoveFrame
<1>4. CASE run.reason = "none" /\ ~ Unfinished
  <2>1. PICK next \in 0 .. NumGens : next = run.gen + 1
    BY <1>1, SlotFacts
  <2>2. /\ cp' = [cp EXCEPT !.next = next]
        /\ run' = [run EXCEPT !.pc = "boundary", !.gen = next]
    BY <1>4, <2>1 DEF Advance
  <2>3. /\ cp' \in Checkpoint /\ cp'.slots = cp.slots /\ cp'.turns = cp.turns
        /\ cp'.next = next
    BY <2>2 DEF TypeOK, Checkpoint
  <2>4. /\ run' \in Local /\ run'.pc = "boundary" /\ run'.gen = next
        /\ run'.origin = run.origin /\ run'.assigned = run.assigned
        /\ run'.results = run.results /\ run'.reason = run.reason
    BY <2>2, RunFields DEF Local, ControlPoints
  <2>5. TypeOK' /\ Accounts'
    <3>1. Unspent' = Unspent /\ Unrecorded' = Unrecorded /\ Open' = Open
      BY <1>1, CallsKept
    <3> QED
      BY <1>1, <2>3, <2>4, <3>1
      DEF TypeOK, Checkpoint, Accounts, TurnsAccounted, history, Environment
  <2>6. ASSUME NEW t \in Slots  PROVE CallOK(t)' /\ ResultOK(t)'
    <3>1. CallOK(t) /\ ResultOK(t) /\ calls' = calls
      BY <1>1
    <3>2. CallOK(t)'
      BY <1>2, <3>1 DEF CallOK
    <3>3. ResultOK(t)'
      BY <2>4, <3>1 DEF ResultOK, Collected, InGeneration
    <3> QED
      BY <3>2, <3>3
  <2>7. RunOK' /\ ParentsOK'
    BY <1>1, <2>3, <2>4 DEF RunOK, ParentsOK, InGeneration
  <2>8. StoreOK'
    <3>1. ASSUME NEW g \in Gens, NEW t \in Slots, NEW o \in Origins  PROVE StoredOK(g, t, o)'
      <4>1. StoredOK(g, t, o) /\ g \in Nat /\ selections' = selections
        BY <1>1 DEF StoreOK, Gens
      <4> QED
        BY <1>1, <2>1, <2>3, <2>4, <4>1 DEF StoredOK, InGeneration
    <3> QED
      BY <2>3, <3>1 DEF StoreOK
  <2>9. NextFollowsSettled'
    <3> SUFFICES ASSUME NEW g \in Gens, g < cp'.next, NEW s \in Slots
                 PROVE  \E o \in Origins : Settled(cp'.slots[<<g, s, o>>])
      BY DEF NextFollowsSettled
    <3>1. g < cp.next \/ g = run.gen
      BY <1>1, <2>1, <2>3 DEF Gens
    <3>2. CASE g < cp.next
      BY <2>3, <3>2 DEF NextFollowsSettled
    <3>3. CASE g = run.gen
      <4>1. Settled(cp.slots[<<run.gen, s, run.origin>>])
        BY <1>1, <1>4, FinishedIsSettled DEF Cached, Key
      <4> QED
        BY <2>3, <3>3, <4>1, RunFields
    <3> QED
      BY <3>1, <3>2, <3>3
  <2>10. OneParentVector'
    BY <2>3 DEF OneParentVector
  <2> QED
    BY <2>5, <2>6, <2>7, <2>8, <2>9, <2>10
<1> QED
  BY <1>3, <1>4

-----------------------------------------------------------------------------
(* Sessions: their faults, their start. *)

\* A session that ends with its calls leaves their reservations behind.
LEMMA DropFrame ==
    ASSUME Inv, DropCalls, run' \in Local, run'.pc = "off",
           run'.assigned = run.assigned, run'.results = run.results,
           UNCHANGED <<cp, evidence, ledger, selections, spent, escaped, sessions>>,
           outcome' \in Outcomes, stop' \in BOOLEAN, expired' \in BOOLEAN
    PROVE  Inv'
<1> USE DEF Inv
<1>1. /\ leaked' = leaked + Cardinality(Unspent) /\ calls' \in [Slots -> Call]
      /\ \A s \in Slots : calls'[s] = NoCall /\ calls'[s].state = "none"
  BY NoCallFacts DEF DropCalls
<1>2. Cardinality(Unspent) \in Nat /\ Cardinality(Unrecorded) \in Nat
  BY FiniteParts
<1>3. Unspent' = {} /\ Unrecorded' = {} /\ Open' = {} /\ Cardinality({}) = 0
  <2>1. Cardinality({}) = 0
    BY FS_EmptySet
  <2>2. Unspent' = {} /\ Unrecorded' = {} /\ Open' = {}
    BY <1>1, NoCallFacts DEF Unspent, Unrecorded, Open
  <2> QED
    BY <2>1, <2>2
<1>4. TypeOK'
  BY <1>1, <1>2 DEF TypeOK
<1>5. Accounts'
  <2>1. /\ cp.turns \in Nat /\ spent \in Nat /\ leaked \in Nat /\ escaped \in Nat /\ ledger \in Nat
        /\ cp.turns + escaped = spent + leaked + Cardinality(Unspent)
        /\ ledger + Cardinality(Unrecorded) <= spent
    BY DEF TypeOK, Accounts, TurnsAccounted
  <2>2. TurnsAccounted'
    BY <1>1, <1>2, <1>3, <2>1 DEF TurnsAccounted
  <2>3. ledger' + Cardinality(Unrecorded') <= spent'
    BY <1>2, <1>3, <2>1
  <2>4. Cardinality(Open') <= cp'.turns
    BY <1>3, <2>1
  <2> QED
    BY <2>2, <2>3, <2>4 DEF Accounts
<1>6. run'.pc \notin InGeneration /\ run'.pc \notin Collected
  BY DEF InGeneration, Collected
<1>7. StoreOK' /\ NextFollowsSettled' /\ OneParentVector'
  <2>1. run'.pc # "boundary" /\ selections \subseteq selections'
    OBVIOUS
  <2> QED
    BY <1>6, <2>1, StoreKept
<1>8. ASSUME NEW s \in Slots  PROVE CallOK(s)' /\ ResultOK(s)'
  <2>1. CallOK(s)'
    BY <1>1, NoCallFacts DEF CallOK
  <2>2. ResultOK(s)
    OBVIOUS
  <2>3. ResultOK(s)'
    BY <1>6, <2>2 DEF ResultOK
  <2> QED
    BY <2>1, <2>3
<1>9. RunOK' /\ ParentsOK'
  BY <1>6 DEF RunOK, ParentsOK
<1> QED
  BY <1>4, <1>5, <1>7, <1>8, <1>9

LEMMA FaultInv ==
    ASSUME Inv, AbortEnd \/ Interrupt \/ Crash
    PROVE  Inv'
<1>1. /\ UNCHANGED <<cp, evidence, ledger, selections, stop, expired, spent, escaped, sessions>>
      /\ stop' \in BOOLEAN /\ expired' \in BOOLEAN /\ "interrupted" \in Outcomes
  BY DEF AbortEnd, Interrupt, Crash, durable, Environment, Inv, TypeOK, Outcomes
<1>2. \/ /\ run.pc \in {"queue", "collect"} /\ Abort("interrupted")
         /\ UNCHANGED <<outcome, calls, leaked>>
      \/ DropCalls /\ run' = [run EXCEPT !.pc = "off"] /\ outcome' \in Outcomes
  <2>1. CASE AbortEnd
    BY <2>1, RunFields DEF AbortEnd, EndSession, Inv
  <2>2. CASE Interrupt
    BY <1>1, <2>2 DEF Interrupt, EndSession
  <2>3. CASE Crash
    BY <2>3 DEF Crash, durable, Inv, TypeOK
  <2> QED
    BY <2>1, <2>2, <2>3
<1>3. CASE /\ run.pc \in {"queue", "collect"} /\ Abort("interrupted")
           /\ UNCHANGED <<outcome, calls, leaked>>
  <2>1. /\ UNCHANGED <<cp, evidence, ledger, selections, calls, stop, expired, history>>
        /\ outcome' = outcome /\ run.pc \in {"queue", "collect", "repairWait"}
    BY <1>1, <1>3 DEF history
  <2> QED
    BY <1>1, <1>3, <2>1, AbortInv
<1>4. CASE DropCalls /\ run' = [run EXCEPT !.pc = "off"] /\ outcome' \in Outcomes
  <2>1. /\ run' \in Local /\ run'.pc = "off"
        /\ run'.assigned = run.assigned /\ run'.results = run.results
    BY <1>4, RunFields DEF Inv, Local, ControlPoints
  <2>2. UNCHANGED <<cp, evidence, ledger, selections, spent, escaped, sessions>>
    BY <1>1
  <2> QED
    BY <1>1, <1>4, <2>1, <2>2, DropFrame
<1> QED
  BY <1>2, <1>3, <1>4

LEMMA EnvironmentInv ==
    ASSUME Inv, RequestStop \/ Expire \/ UNCHANGED vars
    PROVE  Inv'
<1> USE DEF Inv
<1>1. /\ stop' \in BOOLEAN /\ expired' \in BOOLEAN
      /\ UNCHANGED <<cp, evidence, ledger, selections, outcome, run, calls, spent, leaked, escaped, sessions>>
  BY DEF RequestStop, Expire, vars, durable, history, TypeOK
<1>2. TypeOK' /\ Accounts'
  <2>1. Unspent' = Unspent /\ Unrecorded' = Unrecorded /\ Open' = Open
    BY <1>1, CallsKept
  <2> QED
    BY <1>1, <2>1 DEF TypeOK, Accounts, TurnsAccounted
<1>3. \A t \in Slots : Cached(t)' = Cached(t)
  BY <1>1 DEF Cached, Key
<1>4. \A s \in Slots : CallOK(s)' /\ ResultOK(s)'
  BY <1>1, <1>3 DEF CallOK, ResultOK
<1>5. RunOK' /\ ParentsOK'
  BY <1>1 DEF RunOK, ParentsOK, Item
<1>6. StoreOK' /\ NextFollowsSettled' /\ OneParentVector'
  BY <1>1 DEF StoreOK, StoredOK, ParentOrigin, NextFollowsSettled, OneParentVector
<1> QED
  BY <1>2, <1>4, <1>5, <1>6

\* Retained generations are numbered up to the next one.
LEMMA RetainedFacts ==
    ASSUME Inv
    PROVE  /\ RetainedGens \subseteq Gens
           /\ \A g \in RetainedGens : g \in Nat /\ g <= cp.next
           /\ \A g \in Gens, s \in Slots, o \in Origins :
                 Stored(cp.slots[<<g, s, o>>]) => g \in RetainedGens
<1>1. \A g \in Gens, s \in Slots, o \in Origins :
         /\ <<g, s, o>> \in Keys /\ <<g, s, o>>[1] = g
         /\ StoredOK(g, s, o) /\ g \in Nat
  BY DEF Inv, StoreOK, Keys, Gens
<1>2. \A k \in Keys : \E g \in Gens, s \in Slots, o \in Origins : k = <<g, s, o>>
  BY DEF Keys
<1>3. ASSUME NEW k \in Keys, Stored(cp.slots[k])
      PROVE  k[1] \in Gens /\ k[1] \in Nat /\ k[1] <= cp.next
  <2>1. PICK g \in Gens, s \in Slots, o \in Origins : k = <<g, s, o>>
    BY <1>2
  <2> QED
    BY <1>1, <1>3, <2>1 DEF StoredOK
<1>4. ASSUME NEW g \in RetainedGens  PROVE g \in Gens /\ g \in Nat /\ g <= cp.next
  BY <1>3 DEF RetainedGens
<1>5. ASSUME NEW g \in Gens, NEW s \in Slots, NEW o \in Origins,
             Stored(cp.slots[<<g, s, o>>])
      PROVE  g \in RetainedGens
  BY <1>1, <1>5 DEF RetainedGens
<1> QED
  BY <1>4, <1>5

\* No session steps back: what asks for a retry is the next generation or later.
LEMMA RetryFacts ==
    ASSUME Inv, NEW g \in RetryGens
    PROVE  g = cp.next
<1>1. PICK s \in Slots :
         /\ \E o \in Origins : LET rec == cp.slots[<<g, s, o>>]
                               IN  Incomplete(rec) \/ rec.status = "stopped"
         /\ \A o \in Origins : ~ Settled(cp.slots[<<g, s, o>>])
  BY DEF RetryGens
<1>2. PICK o \in Origins : Incomplete(cp.slots[<<g, s, o>>])
                           \/ cp.slots[<<g, s, o>>].status = "stopped"
  BY <1>1
<1>3. g \in Gens /\ g \in Nat /\ cp.next \in Nat
  BY DEF RetryGens, Gens, Inv, TypeOK
<1>4. ~ (g < cp.next)
  BY <1>1, <1>3 DEF Inv, NextFollowsSettled
<1>5. Stored(cp.slots[<<g, s, o>>])
  BY <1>2 DEF Stored, Incomplete, Retryable, Repairing
<1>6. g <= cp.next
  BY <1>3, <1>5 DEF Inv, StoreOK, StoredOK
<1> QED
  BY <1>3, <1>4, <1>6

LEMMA ResumeFacts ==
    ASSUME Inv
    PROVE  /\ ResumeParents \in [gen: 0 .. NumGens, origin: Origins]
           /\ ResumeParents.origin = "selected" => ResumeParents.gen - 1 \in selections
           /\ \A s \in Slots, o \in Origins :
                 cp.next \in Gens /\ Stored(cp.slots[<<cp.next, s, o>>]) =>
                    o = IF ResumeParents.gen = cp.next THEN ResumeParents.origin ELSE "roots"
<1> USE DEF Inv
<1>1. "roots" \in Origins /\ "selected" \in Origins /\ Origins = {"roots", "selected"}
  BY DEF Origins
<1>2. CASE RetainedGens = {}
  <2>1. ResumeParents = [gen |-> NumGens, origin |-> "roots"]
    BY <1>2 DEF ResumeParents
  <2>2. \A s \in Slots, o \in Origins :
           ~ (cp.next \in Gens /\ Stored(cp.slots[<<cp.next, s, o>>]))
    BY <1>2, RetainedFacts
  <2>3. NumGens \in 0 .. NumGens
    BY SlotFacts
  <2>4. ResumeParents \in [gen: 0 .. NumGens, origin: Origins]
    BY <1>1, <2>1, <2>3
  <2>5. ResumeParents.origin # "selected"
    BY <2>1
  <2> QED
    BY <2>2, <2>4, <2>5
<1>3. CASE RetainedGens # {}
  <2>1. \E g \in RetainedGens : \A h \in RetainedGens : h <= g
    <3>1. RetainedGens \subseteq 0 .. NumGens /\ NumGens \in Nat
      BY RetainedFacts, SlotFacts DEF Gens
    <3> QED
      BY <1>3, <3>1, LargestExists
  <2>2. PICK last \in RetainedGens :
           /\ \A h \in RetainedGens : h <= last
           /\ last = CHOOSE g \in RetainedGens : \A h \in RetainedGens : h <= g
    BY <2>1
  <2>3. last \in Gens /\ last \in 0 .. NumGens /\ last \in Nat /\ last <= cp.next
        /\ cp.next \in Nat
    BY RetainedFacts, SlotFacts DEF Gens, TypeOK
  <2>4. PICK origin \in Origins :
           origin = IF \E s \in Slots : /\ Stored(cp.slots[<<last, s, "selected">>])
                                        /\ last - 1 \in selections
                    THEN "selected" ELSE "roots"
    BY <1>1
  <2>5. PICK p \in [gen: 0 .. NumGens, origin: Origins] : p = [gen |-> last, origin |-> origin]
    BY <2>3
  <2>6. ResumeParents = p
    BY <1>3, <2>2, <2>4, <2>5 DEF ResumeParents
  <2>7. p.gen = last /\ p.origin = origin
    BY <2>5
  <2>8. p.origin = "selected" => p.gen - 1 \in selections
    BY <2>4, <2>7
  <2>9. ASSUME NEW s \in Slots, NEW o \in Origins, cp.next \in Gens,
               Stored(cp.slots[<<cp.next, s, o>>])
        PROVE  last = cp.next /\ o = origin
    <3>1. cp.next \in RetainedGens
      BY <2>9, RetainedFacts
    <3>2. last = cp.next
      BY <2>2, <2>3, <3>1
    <3>3. StoredOK(cp.next, s, o)
      BY <2>9 DEF StoreOK
    <3>4. CASE o = "selected"
      <4>1. cp.next - 1 \in selections
        BY <2>9, <3>3, <3>4 DEF StoredOK
      <4> QED
        BY <2>4, <2>9, <3>2, <3>4, <4>1
    <3>5. CASE o = "roots"
      <4>1. \A t \in Slots : ~ Stored(cp.slots[<<cp.next, t, "selected">>])
        BY <2>9, <3>5 DEF OneParentVector
      <4> QED
        BY <2>4, <3>2, <3>5, <4>1
    <3> QED
      BY <1>1, <3>2, <3>4, <3>5
  <2> QED
    BY <2>6, <2>7, <2>8, <2>9
<1> QED
  BY <1>2, <1>3

LEMMA IdleFacts ==
    /\ Idle \in Local /\ Idle.pc = "off" /\ Idle.results = [s \in Slots |-> Absent]
    /\ Idle.assigned.origin = "roots" /\ \A s \in Slots : AttemptLeft([t \in Slots |-> Absent][s])
<1>1. /\ 1 \in Slots /\ 0 \in 0 .. NumGens /\ NumGens \in 0 .. NumGens
      /\ Absent \in SlotRecord /\ AttemptLeft(Absent)
  BY SlotFacts, SlotRecordType DEF Slots, Raws
<1>2. PICK parents \in [gen: 0 .. NumGens, origin: Origins] :
          parents = [gen |-> NumGens, origin |-> "roots"]
  BY <1>1 DEF Origins
<1>3. PICK results \in [Slots -> SlotRecord] : results = [s \in Slots |-> Absent]
  BY <1>1
<1>4. Idle = [pc |-> "off", gen |-> 0, slot |-> 1, origin |-> "roots", assigned |-> parents,
              results |-> results, reason |-> "none", infra |-> FALSE, ending |-> "idle"]
  BY <1>2, <1>3 DEF Idle
<1>5. Idle \in Local
  BY <1>1, <1>4 DEF Local, ControlPoints, Origins, Outcomes
<1> QED
  BY <1>1, <1>2, <1>3, <1>4, <1>5

\* The database counts no more turns than the checkpoint and the escaped answers.
LEMMA LedgerBounded ==
    ASSUME Inv, run.pc = "off"
    PROVE  ledger <= cp.turns + escaped
<1>1. /\ cp.turns \in Nat /\ spent \in Nat /\ leaked \in Nat /\ escaped \in Nat /\ ledger \in Nat
      /\ cp.turns + escaped = spent + leaked + Cardinality(Unspent)
      /\ ledger + Cardinality(Unrecorded) <= spent
      /\ Cardinality(Unrecorded) \in Nat
  BY FiniteParts DEF Inv, TypeOK, Accounts, TurnsAccounted
<1>2. Unspent = {} /\ Cardinality({}) = 0
  BY NoneOpen, FS_EmptySet DEF CallsOpen, Unspent
<1> QED
  BY <1>1, <1>2

LEMMA StartSessionInv ==
    ASSUME Inv, StartSession
    PROVE  Inv'
<1> USE DEF Inv
<1>1. PICK first \in Gens \cup {NumGens} :
         /\ first \in RetryGens \cup {cp.next}
         /\ cp' = [cp EXCEPT !.turns = IF ledger > @ THEN ledger ELSE @,
                             !.next = first,
                             !.callbacks = {g \in @ : g < first \/ first = cp.next}]
         /\ run' = [Idle EXCEPT !.pc = "boundary", !.gen = first,
                                !.assigned = ResumeParents]
         /\ escaped' = escaped - (cp'.turns - cp.turns)
  BY DEF StartSession
<1>2. /\ first = cp.next /\ first \in Nat /\ cp.next \in 0 .. NumGens
  BY <1>1, RetryFacts DEF TypeOK
<1>3. /\ run.pc = "off" /\ sessions < MaxSessions /\ outcome' = "running"
      /\ stop' = FALSE /\ expired' = FALSE /\ sessions' = sessions + 1
      /\ UNCHANGED <<evidence, ledger, selections, calls, spent, leaked>>
  BY DEF StartSession, At
<1>4. PICK turns \in Nat :
         /\ turns = IF ledger > cp.turns THEN ledger ELSE cp.turns
         /\ turns >= cp.turns /\ turns <= cp.turns + escaped
  BY <1>3, LedgerBounded DEF TypeOK
<1>5. PICK callbacks \in SUBSET Gens :
          callbacks = {g \in cp.callbacks : g < first \/ first = cp.next}
  BY DEF TypeOK
<1>6. /\ cp' \in Checkpoint /\ cp'.slots = cp.slots /\ cp'.turns = turns
      /\ cp'.next = cp.next
  <2>1. cp' = [cp EXCEPT !.turns = turns, !.next = first, !.callbacks = callbacks]
    BY <1>1, <1>4, <1>5
  <2> QED
    BY <1>2, <2>1 DEF TypeOK, Checkpoint
<1>7. PICK parents \in [gen: 0 .. NumGens, origin: Origins] : parents = ResumeParents
  BY ResumeFacts
<1>8. /\ run' \in Local /\ run'.pc = "boundary" /\ run'.gen = cp.next
      /\ run'.assigned = parents /\ run'.results = [s \in Slots |-> Absent]
  <2>1. run' = [Idle EXCEPT !.pc = "boundary", !.gen = first, !.assigned = parents]
    BY <1>1, <1>7
  <2> QED
    BY <1>2, <2>1, IdleFacts DEF Local, ControlPoints
<1>9. \A s \in Slots : calls[s].state = "none" /\ calls'[s].state = "none"
  BY <1>3, NoneOpen DEF CallsOpen
<1>10. TypeOK' /\ Accounts'
  <2>1. Unspent' = Unspent /\ Unrecorded' = Unrecorded /\ Open' = Open
    BY <1>3, CallsKept
  <2>2. sessions' \in 0 .. MaxSessions
    BY <1>3, SlotFacts DEF TypeOK
  <2>3. /\ cp.turns \in Nat /\ escaped \in Nat /\ spent \in Nat /\ leaked \in Nat
        /\ ledger \in Nat
        /\ cp.turns + escaped = spent + leaked + Cardinality(Unspent)
        /\ ledger + Cardinality(Unrecorded) <= spent
        /\ Cardinality(Open) <= cp.turns
        /\ Cardinality(Unspent) \in Nat /\ Cardinality(Open) \in Nat
    BY FiniteParts DEF TypeOK, Accounts, TurnsAccounted
  <2>4. escaped' = escaped - (turns - cp.turns) /\ escaped' \in Nat
    BY <1>1, <1>4, <1>6, <2>3
  <2>5. TypeOK'
    BY <1>3, <1>6, <1>8, <2>2, <2>4 DEF TypeOK, Checkpoint, Outcomes
  <2>6. TurnsAccounted'
    BY <1>3, <1>4, <1>6, <2>1, <2>3, <2>4 DEF TurnsAccounted
  <2>7. ledger' + Cardinality(Unrecorded') <= spent' /\ Cardinality(Open') <= cp'.turns
    BY <1>3, <1>4, <1>6, <2>1, <2>3
  <2> QED
    BY <2>5, <2>6, <2>7 DEF Accounts
<1>11. ASSUME NEW s \in Slots  PROVE CallOK(s)' /\ ResultOK(s)'
  <2>1. CallOK(s) /\ ResultOK(s)
    OBVIOUS
  <2>2. CallOK(s)'
    BY <1>3, <1>9, <2>1 DEF CallOK
  <2>3. ResultOK(s)'
    BY <1>8, IdleFacts DEF ResultOK, Collected, InGeneration
  <2> QED
    BY <2>2, <2>3
<1>12. RunOK'
  BY <1>6, <1>8 DEF RunOK, InGeneration
<1>13. ParentsOK'
  BY <1>3, <1>7, <1>8, ResumeFacts DEF ParentsOK, InGeneration
<1>14. StoreOK'
  <2>1. ASSUME NEW g \in Gens, NEW t \in Slots, NEW o \in Origins  PROVE StoredOK(g, t, o)'
    <3>1. StoredOK(g, t, o)
      BY DEF StoreOK
    <3>2. g = cp.next /\ Stored(cp.slots[<<g, t, o>>]) =>
             o = IF parents.gen = cp.next THEN parents.origin ELSE "roots"
      BY <1>7, ResumeFacts
    <3>3. ParentOrigin(run.gen)' = IF parents.gen = cp.next THEN parents.origin ELSE "roots"
      BY <1>8 DEF ParentOrigin
    <3> QED
      BY <1>3, <1>6, <1>8, <3>1, <3>2, <3>3 DEF StoredOK, InGeneration
  <2> QED
    BY <1>6, <2>1 DEF StoreOK
<1>15. NextFollowsSettled' /\ OneParentVector'
  BY <1>6 DEF NextFollowsSettled, OneParentVector
<1> QED
  BY <1>10, <1>11, <1>12, <1>13, <1>14, <1>15

-----------------------------------------------------------------------------
(* The theorems. *)

LEMMA InitInv ==
    ASSUME Init
    PROVE  Inv
<1>1. 0 \in Phases /\ 0 \in 0 .. RetryLimit /\ 1 \in Slots /\ 0 \in 0 .. NumGens
      /\ NumGens \in 0 .. NumGens /\ 0 \in 0 .. MaxSessions
  BY SlotFacts DEF Phases, Slots
<1>2. Absent \in SlotRecord /\ AttemptLeft(Absent) /\ Absent.status = "absent" /\ ~ Stored(Absent)
  BY SlotRecordType DEF Raws, Stored
<1>3. /\ \A s \in Slots : calls[s] = NoCall /\ calls[s].state = "none"
      /\ calls \in [Slots -> Call]
  BY NoCallFacts DEF Init
<1>4. /\ cp.slots = [k \in Keys |-> Absent] /\ cp.turns = 0 /\ cp.next = 0 /\ cp \in Checkpoint
  BY <1>1, <1>2 DEF Init, Checkpoint
<1>5. /\ run \in Local /\ run.pc = "off" /\ run.results = [s \in Slots |-> Absent]
      /\ run.assigned.origin = "roots"
  <2>1. PICK parents \in [gen: 0 .. NumGens, origin: Origins] :
            parents = [gen |-> NumGens, origin |-> "roots"]
    BY <1>1 DEF Origins
  <2>2. PICK results \in [Slots -> SlotRecord] : results = [s \in Slots |-> Absent]
    BY <1>2
  <2>3. run = [pc |-> "off", gen |-> 0, slot |-> 1, origin |-> "roots", assigned |-> parents,
               results |-> results, reason |-> "none", infra |-> FALSE, ending |-> "idle"]
    BY <2>1, <2>2 DEF Init, Idle
  <2>4. run \in Local
    BY <1>1, <2>3 DEF Local, ControlPoints, Origins, Outcomes
  <2>5. run.pc = "off" /\ run.results = results /\ run.assigned = parents
    BY <2>3
  <2> QED
    BY <2>1, <2>2, <2>4, <2>5
<1>6. TypeOK
  BY <1>1, <1>3, <1>4, <1>5 DEF Init, TypeOK, Checkpoint, Outcomes
<1>7. Accounts
  <2>1. Unspent = {} /\ Unrecorded = {} /\ Open = {} /\ Cardinality({}) = 0
    BY <1>3, NoCallFacts, NoCalls
  <2>2. TurnsAccounted
    BY <1>4, <2>1 DEF Init, TurnsAccounted
  <2>3. ledger + Cardinality(Unrecorded) <= spent
    BY <2>1 DEF Init
  <2>4. Cardinality(Open) <= cp.turns
    BY <1>4, <2>1
  <2> QED
    BY <2>2, <2>3, <2>4 DEF Accounts
<1>8. ASSUME NEW s \in Slots  PROVE CallOK(s) /\ ResultOK(s)
  <2>1. CallOK(s)
    BY <1>3, NoCallFacts DEF CallOK
  <2>2. ResultOK(s)
    BY <1>2, <1>5 DEF ResultOK, InGeneration, Collected
  <2> QED
    BY <2>1, <2>2
<1>9. RunOK /\ ParentsOK
  BY <1>5 DEF RunOK, ParentsOK, InGeneration
<1>10. \A g \in Gens, s \in Slots, o \in Origins :
          <<g, s, o>> \in Keys /\ ~ Stored(cp.slots[<<g, s, o>>])
  BY <1>2, <1>4 DEF Keys
<1>11. StoreOK
  BY <1>2, <1>4, <1>10 DEF StoreOK, StoredOK
<1>12. NextFollowsSettled
  BY <1>4 DEF NextFollowsSettled, Gens
<1>13. OneParentVector
  BY <1>10 DEF OneParentVector, Origins
<1> QED
  BY <1>6, <1>7, <1>8, <1>9, <1>11, <1>12, <1>13 DEF Inv

LEMMA NextInv ==
    ASSUME Inv, [Next]_vars
    PROVE  Inv'
<1>1. CASE StartSession
  BY <1>1, StartSessionInv
<1>2. CASE CoordinatorStep
  <2>1. CASE StartGeneration \/ LeaveLoop
    BY <2>1, StartGenerationInv, LeaveLoopInv
  <2>2. CASE \E s \in Slots :
          \/ QueueRaises(s) \/ QueueRecover(s) \/ QueueRefuse(s) \/ QueueCall(s)
          \/ CollectExpired(s) \/ CollectDeclined(s) \/ CollectRetry(s)
          \/ CollectBoundary(s) \/ CollectStopped(s) \/ CollectAssess(s)
          \/ RepairStart(s) \/ RepairDefer(s) \/ RepairRetry(s) \/ RepairAssess(s)
    <3>1. PICK s \in Slots :
          \/ QueueRaises(s) \/ QueueRecover(s) \/ QueueRefuse(s) \/ QueueCall(s)
          \/ CollectExpired(s) \/ CollectDeclined(s) \/ CollectRetry(s)
          \/ CollectBoundary(s) \/ CollectStopped(s) \/ CollectAssess(s)
          \/ RepairStart(s) \/ RepairDefer(s) \/ RepairRetry(s) \/ RepairAssess(s)
      BY <2>2
    <3>2. CASE QueueRaises(s) \/ CollectExpired(s)
      BY <3>2, AbortsInv
    <3>3. CASE QueueRecover(s) \/ QueueRefuse(s) \/ QueueCall(s)
      BY <3>3, QueueRecoverInv, QueueRefuseInv, QueueCallInv
    <3>4. CASE CollectDeclined(s) \/ CollectBoundary(s) \/ CollectStopped(s) \/ CollectAssess(s)
      BY <3>4, CollectCutInv, CollectAssessInv
    <3>5. CASE CollectRetry(s) \/ RepairRetry(s)
      BY <3>5, RetryInv
    <3>6. CASE RepairStart(s) \/ RepairDefer(s) \/ RepairAssess(s)
      BY <3>6, RepairStartInv, RepairDeferInv, RepairAssessInv
    <3> QED
      BY <3>1, <3>2, <3>3, <3>4, <3>5, <3>6
  <2>3. CASE CollectDone \/ RepairBoundary \/ RepairEnter \/ RepairLeave \/ RepairResume
             \/ RepairReserve \/ RepairExpired \/ SkipSelection
    BY <2>3, CollectDoneInv, RepairBoundaryInv, RepairMoveInv, RepairLeaveInv,
       RepairReserveInv, AbortsInv
  <2>4. CASE SelectionEnds \/ Select \/ SaveSelection \/ Advance \/ Finish \/ AbortEnd
    BY <2>4, SessionEndsInv, SelectInv, SaveSelectionInv, AdvanceInv, FaultInv
  <2> QED
    BY <1>2, <2>1, <2>2, <2>3, <2>4 DEF CoordinatorStep
<1>3. CASE \E s \in Slots : WorkerStep(s)
  <2>1. PICK s \in Slots : WorkerStep(s)
    BY <1>3
  <2> QED
    BY <2>1, BeginInv, AnswerInv, ReplayInv, RecordInv, RecordFailsInv DEF WorkerStep
<1>4. CASE Interrupt \/ Crash
  BY <1>4, FaultInv
<1>5. CASE RequestStop \/ Expire \/ Rest \/ UNCHANGED vars
  BY <1>5, EnvironmentInv DEF Rest
<1> QED
  BY <1>1, <1>2, <1>3, <1>4, <1>5 DEF Next

\* The inductive invariant: budget, results and parents, over all sessions.
THEOREM Invariant == Spec => []Inv
<1>1. Init => Inv
  BY InitInv
<1>2. Inv /\ [Next]_vars => Inv'
  BY NextInv
<1> QED
  BY <1>1, <1>2, PTL DEF Spec

\* Every variable of the coordinator keeps its type.
THEOREM TypeCorrect == Spec => []TypeOK
<1>1. Inv => TypeOK
  BY DEF Inv
<1> QED
  BY <1>1, Invariant, PTL

\* The turn budget is exact over all sessions: a charged answer leaves it only by
\* a record that fails, once, and no reservation is released twice (generation.py
\* reserve_model_turn, release_reserved_turn, 1953-1962; native.py:1159-1178).
THEOREM BudgetExact == Spec => []TurnsAccounted
<1>1. Inv => TurnsAccounted
  BY DEF Inv, Accounts
<1> QED
  BY <1>1, Invariant, PTL

\* The search moves on only from settled generations (generation.py:1760-1779, 2516).
THEOREM LeavesOnlySettled == Spec => []NextFollowsSettled
<1>1. Inv => NextFollowsSettled
  BY DEF Inv
<1> QED
  BY <1>1, Invariant, PTL

\* A generation has parents of one origin, however many sessions it takes
\* (native.py _resume_parent_assignments).
THEOREM ParentsAgree == Spec => []OneParentVector
<1>1. Inv => OneParentVector
  BY DEF Inv
<1> QED
  BY <1>1, Invariant, PTL

\* No session steps back: the generations that ask for a retry never lie before
\* the next one, so a session resumes exactly where the last one left; and the
\* only turns the database counts beyond the checkpoint are answers that escaped
\* it (generation.py:1757-1775).
ResumesInPlace ==
    StartSession => /\ cp'.next = cp.next /\ run'.gen = cp.next
                    /\ cp'.turns \in cp.turns .. cp.turns + escaped

THEOREM NoStepBack == Spec => [][ResumesInPlace]_vars
<1>1. ASSUME Inv, StartSession
      PROVE  /\ cp'.next = cp.next /\ run'.gen = cp.next
             /\ cp'.turns \in cp.turns .. cp.turns + escaped
  <2>1. PICK first \in Gens \cup {NumGens} :
           /\ first \in RetryGens \cup {cp.next}
           /\ cp'.next = first /\ cp'.turns = IF ledger > cp.turns THEN ledger ELSE cp.turns
           /\ run'.gen = first
    BY <1>1, IdleFacts DEF StartSession, Inv, TypeOK, Local
  <2>2. first = cp.next
    BY <1>1, <2>1, RetryFacts
  <2>3. ledger <= cp.turns + escaped
    BY <1>1, LedgerBounded DEF StartSession, At
  <2>4. cp.turns \in Nat /\ escaped \in Nat /\ ledger \in Nat
    BY <1>1 DEF Inv, TypeOK
  <2> QED
    BY <2>1, <2>2, <2>3, <2>4
<1>2. Inv /\ [Next]_vars => [ResumesInPlace]_vars
  BY <1>1 DEF ResumesInPlace
<1> QED
  BY <1>2, Invariant, PTL DEF Spec

=============================================================================
