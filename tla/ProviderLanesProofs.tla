------------------------- MODULE ProviderLanesProofs -------------------------
(* Theorems about ProviderLanes, for any slots, lanes and generations.         *)
EXTENDS ProviderLanes, SequenceTheorems, FiniteSetTheorems, TLAPS

Turn == Keys \cup {Anchor}
Result == [thread: Threads \cup {None}, turns: Seq(Turn)]

Calls == {"none", "forked", "turn", "kept", "done"} \cup Errors
RepairCalls == {"none", "turn", "kept", "done", "not_repeated"} \cup Errors

(***************************************************************************)
(* What the client keeps.                                                  *)
(***************************************************************************)
StoreShape ==
    /\ rootForks \subseteq Lanes /\ rootContext \in [Lanes -> Seq(Turn)]
    /\ owner \in [Threads -> Lanes \cup {0}] /\ saved \in [Lanes -> SUBSET Threads]
    /\ fork \in [Primaries -> Seq(Turn)] /\ contract \in [Keys -> Seq(Turn)]
    /\ result \in [Keys -> Result]
    /\ started \subseteq Keys /\ completed \subseteq Places /\ released \subseteq completed
    /\ parent \in [Places -> Keys \cup {None}]
    /\ settled \in [Places -> Keys \cup {None, Failed}]
    /\ frozen \subseteq Gens

ProcessShape ==
    /\ history \in [Threads -> Seq(Turn)] /\ known \in [Threads -> Seq(Turn)]
    /\ pc \in {"down", "coordinator", "starting", "running"} /\ gen \in Gens \cup {0}
    /\ coordinator \subseteq Threads /\ dead \subseteq Lanes
    /\ loaded \in [Lanes -> SUBSET Threads] /\ registered \in [Lanes -> SUBSET Threads]
    /\ ask \in [Places -> Primaries \cup {None}]
    /\ call \in [Places -> Calls] /\ repair \in [Places -> RepairCalls]

\* A request is signed once it is started, and started once its parents are frozen.
KeyOK(k) ==
    /\ HasResult(k) =>
          /\ k \in started /\ contract[k] # <<>>
          /\ result[k].thread \in Threads /\ result[k].turns = Append(contract[k], k)
    /\ contract[k] # <<>> => k \in started
    /\ k \in started => k[1] \in frozen

Active(p) == call[p] \in {"forked", "turn", "kept"} \/ repair[p] \in {"turn", "kept"}

CallOK(p) ==
    /\ call[p] # "none" =>
          /\ pc \in {"starting", "running"} /\ p[1] \in frozen
          /\ p[1] < gen \/ (p[1] = gen /\ pc = "running")
          /\ ask[p] \in Primaries /\ PlaceOf(ask[p]) = p /\ ask[p] \in started
    /\ call[p] = "forked" => parent[p] # None /\ fork[ask[p]] # <<>>
    /\ call[p] = "turn" => contract[ask[p]] # <<>> /\ ~HasResult(ask[p])
    /\ call[p] \in {"kept", "done"} => HasResult(ask[p])
    /\ call[p] \in {"done"} \cup Errors => p \in completed
    /\ repair[p] # "none" => call[p] = "done" /\ RepairOf(p) \in started
    /\ repair[p] = "turn" => contract[RepairOf(p)] # <<>> /\ ~HasResult(RepairOf(p))
    /\ repair[p] \in {"kept", "done"} => HasResult(RepairOf(p))
    /\ Active(p) => pc = "running" /\ p[1] = gen /\ Open(p)

\* A pool of lanes is opened only after the process that forked their threads.
Control ==
    /\ pc # "down" => gen \in Gens
    /\ pc = "running" => gen \in frozen
    /\ pc \in {"down", "coordinator"} => \A w \in Lanes : loaded[w] = {}
    /\ pc \in {"down", "starting", "running"} => coordinator = {}
    /\ pc \in {"starting", "running"} => ~NoTopology
    /\ NoTopology \/ \A w \in Lanes : rootContext[w] # <<>>

\* A retained answer whose thread has an owner.
Owned(k) == k \in Keys /\ HasResult(k) /\ owner[result[k].thread] # 0

PlaceOK(p) ==
    /\ parent[p] # None => p[1] \in frozen /\ Owned(parent[p])
    /\ settled[p] \notin {None, Failed} => Owned(settled[p])
    /\ call[p] = "done" => Owned(ask[p])
    /\ repair[p] = "done" => Owned(RepairOf(p))

TypeInv ==
    /\ StoreShape /\ ProcessShape /\ Control
    /\ \A k \in Keys : KeyOK(k)
    /\ \A k \in Primaries : fork[k] # <<>> => k \in started
    /\ \A p \in Places : CallOK(p) /\ PlaceOK(p)

(***************************************************************************)
(* Names of places, keys and threads.                                      *)
(***************************************************************************)
LEMMA KeysOfAPlace ==
    ASSUME NEW p \in Places
    PROVE  /\ p[1] \in Gens /\ p[2] \in Slots /\ p = <<p[1], p[2]>>
           /\ <<p[1], p[2], "turn">> \in Primaries /\ PlaceOf(<<p[1], p[2], "turn">>) = p
           /\ <<p[1], p[2], "retry">> \in Primaries /\ PlaceOf(<<p[1], p[2], "retry">>) = p
           /\ RepairOf(p) \in Repairs /\ PlaceOf(RepairOf(p)) = p
           /\ RepairOf(p) \notin Primaries
BY DEF Places, Primaries, Repairs, RepairOf, PlaceOf

LEMMA PlaceOfAKey ==
    ASSUME NEW k \in Keys
    PROVE  /\ PlaceOf(k) \in Places /\ PlaceOf(k)[1] = k[1] /\ PlaceOf(k)[2] = k[2]
           /\ k[1] \in Gens /\ k # None /\ k # Failed /\ k # Anchor
           /\ k \in Primaries =>
                 k \in {<<k[1], k[2], "turn">>, <<k[1], k[2], "retry">>}
           /\ k \notin Primaries => k = RepairOf(PlaceOf(k))
BY DEF Keys, Places, Primaries, Repairs, RepairOf, PlaceOf, None, Failed, Anchor

LEMMA Bounds ==
    /\ Slots \subseteq Nat \ {0} /\ Gens \subseteq Nat \ {0} /\ 0 \notin Gens
    /\ IsFiniteSet(Lanes) /\ Lanes \subseteq Nat \ {0}
    /\ \E n \in 1..4 : Lanes = 1..n /\ Cardinality(Lanes) = n
<1>1. PICK n \in 1..4 : Lanes = 1..n
    BY LanesAssumption
<1>2. IsFiniteSet(1..n) /\ Cardinality(1..n) = n
    <2>1. 1 \in Int /\ n \in Int /\ 1 <= n
        OBVIOUS
    <2> QED
        BY <2>1, FS_Interval
<1> QED
    BY <1>1, <1>2, LanesAssumption DEF Gens

LEMMA RootOfALane ==
    ASSUME NEW w \in Lanes
    PROVE  /\ Root(w) \in RootThreads /\ Root(w) \in Threads /\ Root(w)[2] = w
           /\ Root(w) \notin Primaries
BY Bounds DEF Root, RootThreads, Threads, Primaries

LEMMA RootsAndForks ==
    /\ \A t \in RootThreads : t[2] \in Lanes /\ t = Root(t[2]) /\ t \notin Primaries
    /\ Primaries \subseteq Threads /\ Primaries \subseteq Keys /\ Keys \subseteq Turn
    /\ None \notin Threads /\ None \notin Keys
BY Bounds DEF Root, RootThreads, Threads, Primaries, Repairs, Keys, Turn, None, Gens

LEMMA Extended ==
    ASSUME NEW s \in Seq(Turn), NEW e \in Turn
    PROVE  /\ Append(s, e) \in Seq(Turn) /\ Append(s, e) # <<>>
           /\ Len(Append(s, e)) = Len(s) + 1 /\ Append(s, e) # s
BY Z3

LEMMA LaneIsALane ==
    ASSUME TypeInv, NEW p \in Places
    PROVE  Lane(p) \in Lanes
<1>1. CASE parent[p] = None
    <2>1. PICK n \in 1..4 : Lanes = 1..n /\ Cardinality(Lanes) = n
        BY Bounds
    <2>2. p[2] \in Nat \ {0}
        BY KeysOfAPlace, Bounds
    <2>3. ((p[2] - 1) % n) + 1 \in 1..n
        BY <2>2
    <2> QED
        BY <1>1, <2>1, <2>3 DEF Lane
<1>2. CASE parent[p] # None
    <2>1. Owned(parent[p])
        BY <1>2 DEF TypeInv, PlaceOK
    <2>2. result[parent[p]].thread \in Threads
        BY <2>1 DEF TypeInv, KeyOK, Owned
    <2> QED
        BY <1>2, <2>1, <2>2 DEF Lane, Owned, TypeInv, StoreShape
<1> QED
    BY <1>1, <1>2

-----------------------------------------------------------------------------
(* Type correctness. *)

LEMMA TypeInit == ASSUME Init PROVE TypeInv
<1>1. <<>> \in Seq(Turn) /\ NoResult \in Result
    BY DEF NoResult, Result
<1>2. StoreShape
    BY <1>1 DEF Init, StoreShape
<1>3. ProcessShape
    BY <1>1 DEF Init, NoCalls, ProcessShape, Calls, RepairCalls
<1>4. Control
    BY DEF Init, Control, NoTopology
<1>5. ASSUME NEW k \in Keys PROVE KeyOK(k)
    BY DEF Init, KeyOK, HasResult
<1>6. ASSUME NEW p \in Places PROVE CallOK(p) /\ PlaceOK(p)
    BY DEF Init, NoCalls, CallOK, PlaceOK, Active, Errors
<1> QED
    BY <1>2, <1>3, <1>4, <1>5, <1>6 DEF TypeInv, Init

\* What is written down is kept: no step takes back an answer, a signature, a fork,
\* a frozen parent or the end of a slot.
Kept ==
    /\ \A k \in Keys : HasResult(k) => result'[k] = result[k]
    /\ \A k \in Keys : contract[k] # <<>> => contract'[k] = contract[k]
    /\ \A k \in Primaries : fork[k] # <<>> => fork'[k] = fork[k]
    /\ \A p \in Places : p[1] \in frozen => parent'[p] = parent[p]
    /\ \A p \in Places : ~Open(p) => settled'[p] = settled[p]
    /\ \A t \in Threads : owner[t] # 0 => owner'[t] # 0
    /\ started \subseteq started' /\ completed \subseteq completed'
    /\ released \subseteq released' /\ frozen \subseteq frozen'

LEMMA OwnedKept ==
    ASSUME TypeInv, Kept, NEW k, Owned(k)
    PROVE  Owned(k)'
<1>1. k \in Keys /\ HasResult(k) /\ result'[k] = result[k]
    BY DEF Owned, Kept
<1>2. result[k].thread \in Threads
    BY <1>1 DEF TypeInv, KeyOK
<1> QED
    BY <1>1, <1>2 DEF Owned, Kept, HasResult

\* A step that leaves a key alone.
LEMMA KeyAlone ==
    ASSUME TypeInv, Kept, NEW k \in Keys,
           result'[k] = result[k], contract'[k] = contract[k], k \in started' => k \in started
    PROVE  KeyOK(k)'
BY DEF TypeInv, KeyOK, HasResult, Kept

\* A step that leaves the calls of a place alone.
LEMMA CallAlone ==
    ASSUME TypeInv, Kept, NEW p \in Places,
           call'[p] = call[p], ask'[p] = ask[p], repair'[p] = repair[p],
           \/ pc' = pc /\ gen' = gen
           \/ ~Active(p) /\ pc' = "running" /\ gen' = gen
           \/ ~Active(p) /\ pc' = "starting" /\ gen' = gen + 1,
           settled'[p] = settled[p],
           \A k \in Keys : PlaceOf(k) = p => result'[k] = result[k]
    PROVE  CallOK(p)'
<1>1. CallOK(p)
    BY DEF TypeInv
<1>2. call[p] # "none" => ask[p] \in Keys /\ ask[p] \in Primaries /\ PlaceOf(ask[p]) = p
    BY <1>1 DEF CallOK, Keys
<1>3. RepairOf(p) \in Keys /\ PlaceOf(RepairOf(p)) = p
    BY KeysOfAPlace DEF Keys
<1>4. call[p] # "none" => (HasResult(ask[p])' <=> HasResult(ask[p]))
    BY <1>2 DEF HasResult
<1>5. HasResult(RepairOf(p))' <=> HasResult(RepairOf(p))
    BY <1>3 DEF HasResult, RepairOf
<1>6. Active(p)' <=> Active(p)
    BY DEF Active
<1>7. RepairOf(p)' = RepairOf(p)
    BY DEF RepairOf
<1>8. parent[p] # None /\ call[p] # "none" => parent'[p] # None
    BY <1>1 DEF CallOK, Kept
<1>9. call[p] # "none" => /\ pc' \in {"starting", "running"}
                          /\ p[1] < gen' \/ (p[1] = gen' /\ pc' = "running")
    <2>1. p[1] \in Nat /\ gen \in Nat
        <3>1. p[1] \in Gens /\ gen \in Gens \cup {0}
            BY KeysOfAPlace DEF TypeInv, ProcessShape
        <3>2. \A g \in Gens \cup {0} : g \in Nat
            BY Bounds
        <3> QED
            BY <3>1, <3>2, Zenon
    <2> QED
        BY <1>1, <2>1 DEF CallOK
<1> QED
    BY <1>1, <1>2, <1>3, <1>4, <1>5, <1>6, <1>7, <1>8, <1>9 DEF CallOK, Kept, Open

\* A step after which the process makes no call.
LEMMA NotCalled ==
    ASSUME NEW p \in Places, call'[p] = "none", repair'[p] = "none"
    PROVE  CallOK(p)'
BY DEF CallOK, Active, Errors

LEMMA PlaceAlone ==
    ASSUME TypeInv, Kept, NEW p \in Places,
           parent'[p] = parent[p], settled'[p] = settled[p],
           call'[p] = "done" => call[p] = "done" /\ ask'[p] = ask[p],
           repair'[p] = "done" => repair[p] = "done"
    PROVE  PlaceOK(p)'
<1>1. PlaceOK(p)
    BY DEF TypeInv
<1>2. parent[p] # None => p[1] \in frozen' /\ Owned(parent[p])'
    BY <1>1, OwnedKept DEF PlaceOK, Kept
<1>3. settled[p] \notin {None, Failed} => Owned(settled[p])'
    BY <1>1, OwnedKept DEF PlaceOK
<1>4. call'[p] = "done" => Owned(ask[p])'
    BY <1>1, OwnedKept DEF PlaceOK
<1>5. repair'[p] = "done" => Owned(RepairOf(p))'
    BY <1>1, OwnedKept DEF PlaceOK
<1> QED
    BY <1>2, <1>3, <1>4, <1>5 DEF PlaceOK, Owned, HasResult, RepairOf

LEMMA NobodyCalls ==
    ASSUME TypeInv, NEW p \in Places, pc \notin {"starting", "running"}
    PROVE  call[p] = "none" /\ repair[p] = "none"
BY DEF TypeInv, CallOK

LEMMA StoreKept == ASSUME UNCHANGED store PROVE Kept
BY DEF store, Kept

\* A step that leaves what is written down, and the calls, alone.
LEMMA StoreAlone ==
    ASSUME TypeInv, UNCHANGED store, UNCHANGED calls, ProcessShape', Control',
           \A p \in Places : CallOK(p)'
    PROVE  TypeInv' /\ Kept
<1>1. Kept
    BY StoreKept
<1>2. StoreShape'
    BY DEF TypeInv, StoreShape, store
<1>3. ASSUME NEW k \in Keys PROVE KeyOK(k)'
    BY <1>1, KeyAlone DEF store
<1>4. ASSUME NEW p \in Places PROVE PlaceOK(p)'
    BY <1>1, PlaceAlone DEF store, calls
<1> QED
    BY <1>1, <1>2, <1>3, <1>4 DEF TypeInv, store

LEMMA OpenPoolTyped == ASSUME TypeInv, OpenPool PROVE TypeInv' /\ Kept
<1>1. PICK g \in Gens : gen' = g
    BY DEF OpenPool
<1>2. ProcessShape'
    <2>1. coordinator' \subseteq Threads
        BY RootOfALane DEF OpenPool, TypeInv, StoreShape
    <2> QED
        BY <1>1, <2>1 DEF OpenPool, TypeInv, ProcessShape, calls
<1>3. Control'
    BY <1>1 DEF OpenPool, TypeInv, Control, NoTopology, store
<1>4. ASSUME NEW p \in Places PROVE CallOK(p)'
    BY NobodyCalls, NotCalled DEF OpenPool, calls
<1> QED
    BY <1>2, <1>3, <1>4, StoreAlone DEF OpenPool

LEMMA StopTyped == ASSUME TypeInv, Stop PROVE TypeInv' /\ Kept
<1>1. PICK held \in SUBSET InTurn :
        history' = [t \in Threads |->
            IF \E h \in held : h[1] = t
            THEN Append(history[t], (CHOOSE h \in held : h[1] = t)[2])
            ELSE history[t]]
    BY DEF Stop
<1>2. ASSUME NEW h \in InTurn PROVE h[2] \in Turn
    <2>1. CASE \E p \in Here : call[p] = "turn" /\ h = <<ThreadOf(p), ask[p]>>
        BY <2>1 DEF TypeInv, CallOK, Here, Turn, Keys
    <2>2. CASE \E p \in Here : h = <<result[ask[p]].thread, RepairOf(p)>>
        <3>1. PICK p \in Places : h = <<result[ask[p]].thread, RepairOf(p)>>
            BY <2>2 DEF Here
        <3>2. RepairOf(p) \in Turn
            BY KeysOfAPlace DEF Turn, Keys
        <3>3. h[2] = RepairOf(p)
            BY <3>1
        <3> QED
            BY <3>2, <3>3
    <2> QED
        BY <2>1, <2>2 DEF InTurn
<1>3. ASSUME NEW t \in Threads PROVE history'[t] \in Seq(Turn)
    <2>1. history[t] \in Seq(Turn)
        BY DEF TypeInv, ProcessShape
    <2>2. CASE \E h \in held : h[1] = t
        <3>1. PICK h \in held : h = (CHOOSE x \in held : x[1] = t)
            BY <2>2
        <3>2. history'[t] = Append(history[t], h[2])
            BY <1>1, <2>2, <3>1
        <3>3. h[2] \in Turn
            BY <1>2
        <3> QED
            BY <2>1, <3>2, <3>3, Extended
    <2>3. CASE ~\E h \in held : h[1] = t
        BY <1>1, <2>1, <2>3
    <2> QED
        BY <2>2, <2>3
<1>4. ProcessShape'
    <2>1. history' \in [Threads -> Seq(Turn)]
        BY <1>1, <1>3
    <2>2. <<>> \in Seq(Turn)
        OBVIOUS
    <2>3. known' \in [Threads -> Seq(Turn)]
        BY <2>2 DEF Stop
    <2> QED
        BY <2>1, <2>3 DEF Stop, ProcessShape, Calls, RepairCalls
<1>5. Control'
    BY DEF Stop, TypeInv, Control, NoTopology, store
<1>6. ASSUME NEW p \in Places PROVE CallOK(p)' /\ PlaceOK(p)'
    <2>1. call'[p] = "none" /\ repair'[p] = "none"
        BY DEF Stop
    <2> QED
        BY <2>1, NotCalled, PlaceAlone, StoreKept DEF Stop, store
<1>7. StoreShape'
    BY DEF TypeInv, StoreShape, store, Stop
<1>8. ASSUME NEW k \in Keys PROVE KeyOK(k)'
    BY KeyAlone, StoreKept DEF store, Stop
<1> QED
    BY StoreKept, <1>4, <1>5, <1>6, <1>7, <1>8 DEF TypeInv, store, Stop

LEMMA ForkRootTyped == ASSUME TypeInv, NEW w \in Lanes, ForkRoot(w) PROVE TypeInv' /\ Kept
<1>1. Kept
    BY DEF ForkRoot, Kept
<1>2. StoreShape'
    BY DEF ForkRoot, TypeInv, StoreShape
<1>3. ProcessShape'
    <2>1. Root(w) \in Threads
        BY RootOfALane
    <2>2. <<Anchor>> \in Seq(Turn)
        BY DEF Turn
    <2>3. history' \in [Threads -> Seq(Turn)]
        BY <2>2 DEF ForkRoot, TypeInv, ProcessShape
    <2> QED
        BY <2>1, <2>3 DEF ForkRoot, TypeInv, ProcessShape, calls
<1>4. Control'
    BY DEF ForkRoot, TypeInv, Control, NoTopology
<1>5. ASSUME NEW p \in Places PROVE CallOK(p)' /\ PlaceOK(p)'
    <2>1. CallOK(p)'
        BY NobodyCalls, NotCalled DEF ForkRoot, calls
    <2> QED
        BY <1>1, <2>1, PlaceAlone DEF ForkRoot, calls
<1>6. ASSUME NEW k \in Keys PROVE KeyOK(k)'
    BY <1>1, KeyAlone DEF ForkRoot
<1> QED
    BY <1>1, <1>2, <1>3, <1>4, <1>5, <1>6 DEF TypeInv, ForkRoot

LEMMA FreezeTopologyTyped == ASSUME TypeInv, FreezeTopology PROVE TypeInv' /\ Kept
<1>1. \A t \in Threads : t \in RootThreads => t[2] \in Lanes /\ t[2] # 0
    BY RootsAndForks, Bounds
<1>2. Kept
    BY <1>1 DEF FreezeTopology, Kept
<1>3. StoreShape'
    <2>1. <<Anchor>> \in Seq(Turn)
        BY DEF Turn
    <2>2. rootContext' \in [Lanes -> Seq(Turn)]
        BY <2>1 DEF FreezeTopology
    <2>3. owner' \in [Threads -> Lanes \cup {0}]
        BY <1>1 DEF FreezeTopology, TypeInv, StoreShape
    <2> QED
        BY <2>2, <2>3 DEF FreezeTopology, TypeInv, StoreShape
<1>4. ProcessShape'
    BY DEF FreezeTopology, TypeInv, ProcessShape, process, calls
<1>5. Control'
    BY DEF FreezeTopology, TypeInv, Control, process
<1>6. ASSUME NEW p \in Places PROVE CallOK(p)' /\ PlaceOK(p)'
    <2>1. CallOK(p)'
        BY NobodyCalls, NotCalled DEF FreezeTopology, calls
    <2> QED
        BY <1>2, <2>1, PlaceAlone DEF FreezeTopology, calls
<1>7. ASSUME NEW k \in Keys PROVE KeyOK(k)'
    BY <1>2, KeyAlone DEF FreezeTopology
<1> QED
    BY <1>2, <1>3, <1>4, <1>5, <1>6, <1>7 DEF TypeInv, FreezeTopology

LEMMA CloseCoordinatorTyped == ASSUME TypeInv, CloseCoordinator PROVE TypeInv' /\ Kept
<1>1. ProcessShape'
    BY DEF CloseCoordinator, TypeInv, ProcessShape, calls
<1>2. Control'
    BY DEF CloseCoordinator, TypeInv, Control, NoTopology, store
<1>3. ASSUME NEW p \in Places PROVE CallOK(p)'
    BY NobodyCalls, NotCalled DEF CloseCoordinator, calls
<1> QED
    BY <1>1, <1>2, <1>3, StoreAlone DEF CloseCoordinator

LEMMA EndGenerationTyped == ASSUME TypeInv, EndGeneration PROVE TypeInv' /\ Kept
<1>1. gen \in Gens /\ gen + 1 \in Gens
    BY LanesAssumption DEF EndGeneration, TypeInv, Control, Gens
<1>2. ProcessShape'
    BY <1>1 DEF EndGeneration, TypeInv, ProcessShape, process, calls
<1>3. Control'
    BY <1>1 DEF EndGeneration, TypeInv, Control, NoTopology, store, process
<1>4. Kept
    BY StoreKept DEF EndGeneration
<1>5. ASSUME NEW p \in Places PROVE CallOK(p)'
    <2>1. ~Active(p)
        BY DEF EndGeneration, TypeInv, CallOK, Here
    <2> QED
        BY <1>4, <2>1, CallAlone DEF EndGeneration, calls, store
<1> QED
    BY <1>2, <1>3, <1>5, StoreAlone DEF EndGeneration

LEMMA StartLaneTyped == ASSUME TypeInv, NEW w \in Lanes, StartLane(w) PROVE TypeInv' /\ Kept
<1>1. PICK some \in SUBSET Threads : some = saved[w] \cup {Root(w)}
    BY RootOfALane DEF TypeInv, StoreShape
<1>2. /\ saved' = [saved EXCEPT ![w] = some]
      /\ loaded' = [loaded EXCEPT ![w] = some] /\ registered' = [registered EXCEPT ![w] = some]
    BY <1>1 DEF StartLane, TypeInv, StoreShape
<1>3. Kept
    BY DEF StartLane, Kept
<1>4. StoreShape'
    BY <1>2 DEF StartLane, TypeInv, StoreShape
<1>5. ProcessShape'
    BY <1>2 DEF StartLane, TypeInv, ProcessShape, calls
<1>6. Control'
    BY DEF StartLane, TypeInv, Control, NoTopology
<1>7. ASSUME NEW p \in Places PROVE CallOK(p)' /\ PlaceOK(p)'
    BY <1>3, CallAlone, PlaceAlone DEF StartLane, calls
<1>8. ASSUME NEW k \in Keys PROVE KeyOK(k)'
    BY <1>3, KeyAlone DEF StartLane
<1> QED
    BY <1>3, <1>4, <1>5, <1>6, <1>7, <1>8 DEF TypeInv, StartLane

LEMMA BeginGenerationTyped == ASSUME TypeInv, BeginGeneration PROVE TypeInv' /\ Kept
<1>1. gen \in Gens
    BY DEF BeginGeneration, TypeInv, Control
<1>2. \A p \in Places : parent'[p] = parent[p] \/ (p[1] = gen /\ gen \notin frozen /\ parent'[p] \in Parents)
    BY DEF BeginGeneration
<1>3. ASSUME NEW k \in Parents PROVE k = None \/ Owned(k)
    BY DEF Parents, TypeInv, PlaceOK
<1>4. Kept
    BY <1>2 DEF BeginGeneration, Kept
<1>5. frozen' = frozen \cup {gen}
    BY DEF BeginGeneration
<1>6. StoreShape'
    <2>1. parent' \in [Places -> Keys \cup {None}]
        <3>1. Parents \subseteq Keys \cup {None}
            BY <1>3 DEF Owned
        <3> QED
            BY <1>2, <3>1 DEF BeginGeneration, TypeInv, StoreShape
    <2> QED
        BY <1>1, <1>5, <2>1 DEF BeginGeneration, TypeInv, StoreShape
<1>7. ProcessShape'
    BY DEF BeginGeneration, TypeInv, ProcessShape, process, calls
<1>8. Control'
    BY <1>1, <1>5 DEF BeginGeneration, TypeInv, Control, NoTopology, process
<1>9. ASSUME NEW p \in Places PROVE CallOK(p)'
    <2>1. ~Active(p)
        BY DEF BeginGeneration, TypeInv, CallOK
    <2> QED
        BY <1>4, <2>1, CallAlone DEF BeginGeneration, calls
<1>10. ASSUME NEW p \in Places PROVE PlaceOK(p)'
    <2>1. CASE parent'[p] = parent[p]
        BY <1>4, <2>1, PlaceAlone DEF BeginGeneration, calls
    <2>2. CASE parent'[p] \in Parents /\ p[1] = gen
        <3>1. parent'[p] # None => p[1] \in frozen' /\ Owned(parent'[p])
            BY <1>3, <1>5, <2>2
        <3>2. PlaceOK(p)
            BY DEF TypeInv
        <3> QED
            BY <3>1, <3>2 DEF PlaceOK, Owned, HasResult, BeginGeneration, calls
    <2> QED
        BY <1>2, <2>1, <2>2
<1>11. ASSUME NEW k \in Keys PROVE KeyOK(k)'
    BY <1>4, KeyAlone DEF BeginGeneration
<1> QED
    BY <1>4, <1>6, <1>7, <1>8, <1>9, <1>10, <1>11 DEF TypeInv, BeginGeneration

\* A step of one slot, with one of its keys.
LEMMA SlotTyped ==
    ASSUME TypeInv, Kept, NEW p \in Places, NEW k \in Keys, PlaceOf(k) = p,
           pc' = pc, gen' = gen, parent' = parent, StoreShape', ProcessShape', Control',
           \A q \in Places \ {p} : /\ ask'[q] = ask[q] /\ call'[q] = call[q]
                                   /\ repair'[q] = repair[q] /\ settled'[q] = settled[q],
           \A j \in Keys \ {k} : /\ result'[j] = result[j] /\ contract'[j] = contract[j]
                                 /\ j \in started' => j \in started,
           \A j \in Primaries : fork'[j] # <<>> => j \in started',
           KeyOK(k)', CallOK(p)', PlaceOK(p)'
    PROVE  TypeInv' /\ Kept
<1>1. ASSUME NEW j \in Keys PROVE KeyOK(j)'
    <2>1. CASE j = k
        BY <2>1
    <2>2. CASE j # k
        BY <2>2, KeyAlone
    <2> QED
        BY <2>1, <2>2
<1>2. ASSUME NEW q \in Places PROVE CallOK(q)' /\ PlaceOK(q)'
    <2>1. CASE q = p
        BY <2>1
    <2>2. CASE q # p
        <3>1. \A j \in Keys : PlaceOf(j) = q => result'[j] = result[j]
            BY <2>2
        <3>2. CallOK(q)'
            BY <2>2, <3>1, CallAlone
        <3>3. PlaceOK(q)'
            BY <2>2, PlaceAlone
        <3> QED
            BY <3>2, <3>3
    <2> QED
        BY <2>1, <2>2
<1> QED
    BY <1>1, <1>2 DEF TypeInv

LEMMA AskedOutcomes ==
    ASSUME NEW k, NEW w, NEW turns
    PROVE  LET how == AskedOutcome(k, w, turns)
           IN /\ how \in {"contract_changed", "kept", "raised", "turn"}
              /\ how = "kept" => HasResult(k) /\ contract[k] \in {<<>>, turns}
              /\ how \in {"raised", "turn"} => ~HasResult(k) /\ contract[k] \in {<<>>, turns}
              /\ (HasResult(k) /\ contract[k] = turns) => how = "kept"
              /\ contract[k] \notin {<<>>, turns} => how = "contract_changed"
BY DEF AskedOutcome

LEMMA Signature ==
    ASSUME TypeInv, NEW k \in Keys, NEW turns \in Seq(Turn), turns # <<>>, Signs(k, turns)
    PROVE  /\ contract' \in [Keys -> Seq(Turn)]
           /\ \A j \in Keys \ {k} : contract'[j] = contract[j]
           /\ \A j \in Keys : contract[j] # <<>> => contract'[j] = contract[j]
           /\ contract'[k] # <<>>
           /\ contract[k] \in {<<>>, turns} => contract'[k] = turns
BY DEF Signs, TypeInv, StoreShape

LEMMA Asked ==
    ASSUME TypeInv, NEW p \in Places, NEW k \in KeysOf(p), Asks(p, k)
    PROVE  /\ k \in Primaries /\ k \in Keys /\ PlaceOf(k) = p /\ k[1] = gen
           /\ k \notin started \/ HasResult(k)
           /\ pc = "running" /\ p[1] = gen /\ gen \in frozen /\ Open(p)
           /\ call[p] = "none" /\ repair[p] = "none"
           /\ started' = started \cup {k} /\ ask' = [ask EXCEPT ![p] = k]
           /\ Lane(p) \in Lanes
           /\ \A w \in Lanes : rootContext[w] \in Seq(Turn) /\ rootContext[w] # <<>>
<1>1. k \in Primaries /\ k \in Keys /\ PlaceOf(k) = p /\ (k \notin started \/ HasResult(k))
    BY KeysOfAPlace DEF KeysOf, Usable, Keys
<1>2. pc = "running" /\ p[1] = gen /\ Open(p) /\ call[p] = "none"
    BY DEF Asks, Here
<1>3. gen \in frozen /\ \A w \in Lanes : rootContext[w] # <<>>
    BY <1>2 DEF TypeInv, Control
<1>4. repair[p] = "none"
    BY <1>2 DEF TypeInv, CallOK
<1>5. k[1] = gen
    BY <1>1, <1>2, PlaceOfAKey
<1> QED
    BY <1>1, <1>2, <1>3, <1>4, <1>5, LaneIsALane DEF Asks, TypeInv, StoreShape

\* The outcome of a call on the root thread.
LEMMA AskingRoot ==
    ASSUME TypeInv, NEW p \in Places, NEW k \in KeysOf(p), AskRoot(p, k),
           NEW w \in Lanes, w = Lane(p), NEW turns, turns = rootContext[w]
    PROVE  \E how \in {"contract_changed", "kept", "raised", "turn"} :
              /\ call' = [call EXCEPT ![p] = how]
              /\ \/ /\ how = AskedOutcome(k, w, turns) /\ Activates(Root(w), turns)
                    /\ Signs(k, turns) /\ known' = [known EXCEPT ![Root(w)] = turns]
                 \/ how = "raised" /\ ~Activates(Root(w), turns) /\ UNCHANGED <<contract, known>>
<1>1. \/ /\ Activates(Root(w), turns) /\ Signs(k, turns)
         /\ call' = [call EXCEPT ![p] = AskedOutcome(k, w, turns)]
         /\ known' = [known EXCEPT ![Root(w)] = turns]
      \/ /\ ~Activates(Root(w), turns) /\ UNCHANGED <<contract, known>>
         /\ call' = [call EXCEPT ![p] = "raised"]
    <2>1. CASE Activates(Root(w), turns)
        BY <2>1 DEF AskRoot
    <2>2. CASE ~Activates(Root(w), turns)
        BY <2>2 DEF AskRoot
    <2> QED
        BY <2>1, <2>2
<1>2. AskedOutcome(k, w, turns) \in {"contract_changed", "kept", "raised", "turn"}
    BY AskedOutcomes
<1> QED
    BY <1>1, <1>2

LEMMA AskRootTyped ==
    ASSUME TypeInv, NEW p \in Places, NEW k \in KeysOf(p), AskRoot(p, k)
    PROVE  TypeInv' /\ Kept
<1>1. Asks(p, k) /\ IsRoot(p)
    BY DEF AskRoot
<1>2. /\ k \in Primaries /\ k \in Keys /\ PlaceOf(k) = p /\ k[1] = gen
      /\ k \notin started \/ HasResult(k)
      /\ pc = "running" /\ p[1] = gen /\ gen \in frozen /\ Open(p)
      /\ call[p] = "none" /\ repair[p] = "none"
      /\ started' = started \cup {k} /\ ask' = [ask EXCEPT ![p] = k]
    BY <1>1, Asked
<1>3. PICK w \in Lanes, turns \in Seq(Turn) :
        w = Lane(p) /\ turns = rootContext[w] /\ turns # <<>>
    BY <1>1, Asked
<1>5. PICK how \in {"contract_changed", "kept", "raised", "turn"} :
        /\ call' = [call EXCEPT ![p] = how]
        /\ \/ /\ how = AskedOutcome(k, w, turns) /\ Activates(Root(w), turns)
              /\ Signs(k, turns) /\ known' = [known EXCEPT ![Root(w)] = turns]
           \/ how = "raised" /\ ~Activates(Root(w), turns) /\ UNCHANGED <<contract, known>>
    BY <1>3, AskingRoot
<1>6. /\ contract' \in [Keys -> Seq(Turn)]
      /\ \A j \in Keys \ {k} : contract'[j] = contract[j]
      /\ \A j \in Keys : contract[j] # <<>> => contract'[j] = contract[j]
      /\ how # "raised" => contract'[k] # <<>>
    <2>1. CASE Signs(k, turns)
        BY <1>2, <1>3, <2>1, Signature
    <2>2. CASE UNCHANGED contract /\ how = "raised"
        BY <2>2 DEF TypeInv, StoreShape
    <2> QED
        BY <1>5, <2>1, <2>2
<1>7. completed' = IF how \in Errors THEN completed \cup {p} ELSE completed
    BY <1>5 DEF AskRoot, CompletesOn, TypeInv, ProcessShape
<1>8. /\ history' = history /\ rootForks' = rootForks /\ rootContext' = rootContext
      /\ owner' = owner /\ saved' = saved /\ fork' = fork /\ result' = result
      /\ released' = released /\ parent' = parent /\ settled' = settled /\ frozen' = frozen
      /\ pc' = pc /\ gen' = gen /\ coordinator' = coordinator /\ loaded' = loaded
      /\ registered' = registered /\ dead' = dead /\ repair' = repair
    BY DEF AskRoot
<1>9. Kept
    BY <1>2, <1>6, <1>7, <1>8 DEF Kept
<1>10. StoreShape'
    BY <1>2, <1>6, <1>7, <1>8 DEF TypeInv, StoreShape
<1>11. ProcessShape'
    <2>1. known' \in [Threads -> Seq(Turn)]
        BY <1>3, <1>5, RootOfALane DEF TypeInv, ProcessShape
    <2>2. call' \in [Places -> Calls]
        BY <1>5 DEF TypeInv, ProcessShape, Calls, Errors
    <2>3. ask' \in [Places -> Primaries \cup {None}]
        BY <1>2 DEF TypeInv, ProcessShape
    <2> QED
        BY <1>8, <2>1, <2>2, <2>3 DEF TypeInv, ProcessShape
<1>12. Control'
    BY <1>8 DEF TypeInv, Control, NoTopology
<1>13. /\ ask'[p] = k /\ call'[p] = how /\ repair'[p] = "none"
       /\ \A q \in Places \ {p} : /\ ask'[q] = ask[q] /\ call'[q] = call[q]
                                  /\ repair'[q] = repair[q] /\ settled'[q] = settled[q]
    BY <1>2, <1>5, <1>8 DEF TypeInv, ProcessShape
<1>14. KeyOK(k)'
    BY <1>2, <1>6, <1>8 DEF TypeInv, KeyOK, HasResult
<1>15. how = "turn" => contract'[k] # <<>>
    BY <1>6
<1>16. /\ how = "turn" => ~HasResult(k)
       /\ how = "kept" => HasResult(k)
    BY <1>5, AskedOutcomes
<1>17. CallOK(p)'
    BY <1>2, <1>7, <1>8, <1>13, <1>15, <1>16 DEF CallOK, Active, HasResult, Open, Errors
<1>18. PlaceOK(p)'
    BY <1>8, <1>9, <1>13, PlaceAlone
<1>19. \A j \in Primaries : fork'[j] # <<>> => j \in started'
    BY <1>2, <1>8 DEF TypeInv
<1> QED
    BY <1>2, <1>6, <1>8, <1>9, <1>10, <1>11, <1>12, <1>13, <1>14, <1>17, <1>18, <1>19, SlotTyped

\* What the call of a child does up to its fork, which holds the turns of its parent.
LEMMA Forking ==
    ASSUME TypeInv, NEW p \in Places, NEW k \in KeysOf(p), ForkChild(p, k)
    PROVE  \E w \in Lanes, from \in Result,
              how \in {"already_loaded", "raised", "forked", "fork_crossed"},
              has \in SUBSET Threads, makes \in SUBSET {k} :
              /\ w = Lane(p) /\ from = result[parent[p]] /\ from.thread \in Threads
              /\ call' = [call EXCEPT ![p] = how]
              /\ has \in {{}, {from.thread}} /\ makes = IF how = "forked" /\ fork[k] = <<>> THEN {k} ELSE {}
              /\ registered' = [registered EXCEPT ![w] = registered[w] \cup has]
              /\ loaded' = [loaded EXCEPT ![w] = loaded[w] \cup has \cup makes]
              /\ saved' = [saved EXCEPT ![w] = saved[w] \cup has]
              /\ \/ /\ how = "forked" /\ fork[k] = <<>>
                    /\ history' = [history EXCEPT ![k] = from.turns]
                    /\ fork' = [fork EXCEPT ![k] = from.turns]
                    /\ known' = [known EXCEPT ![k] = from.turns]
                 \/ ~(how = "forked" /\ fork[k] = <<>>) /\ UNCHANGED <<history, fork, known>>
<1>1. Asks(p, k) /\ parent[p] # None
    BY DEF ForkChild, IsRoot
<1>2. k \in Primaries
    BY <1>1, Asked
<1>3. PICK w \in Lanes : w = Lane(p)
    BY <1>1, Asked
<1>4. PICK from \in Result : from = result[parent[p]] /\ from.thread \in Threads
    BY <1>1 DEF TypeInv, StoreShape, PlaceOK, Owned, KeyOK
<1>5. PICK how \in {"already_loaded", "raised", "forked", "fork_crossed"},
           has \in SUBSET Threads, makes \in SUBSET {k} :
        /\ call' = [call EXCEPT ![p] = how]
        /\ has \in {{}, {from.thread}} /\ makes = IF how = "forked" /\ fork[k] = <<>> THEN {k} ELSE {}
        /\ registered' = [registered EXCEPT ![w] = registered[w] \cup has]
        /\ loaded' = [loaded EXCEPT ![w] = loaded[w] \cup has \cup makes]
        /\ saved' = [saved EXCEPT ![w] = saved[w] \cup has]
        /\ (how = "forked" /\ fork[k] = <<>>) =>
              UpTo(history[from.thread], Last(from.turns)) = from.turns
    <2>1. PICK how \in IF ContextOutcome(w, from.thread) # "ok"
                       THEN {ContextOutcome(w, from.thread)} ELSE ForkOutcomes(k, w, from) :
            call' = [call EXCEPT ![p] = how]
        BY <1>3, <1>4 DEF ForkChild
    <2>2. how \in {"already_loaded", "raised", "forked", "fork_crossed"}
        BY <2>1 DEF ContextOutcome, ForkOutcomes
    <2>3. (how = "forked" /\ fork[k] = <<>>) =>
              UpTo(history[from.thread], Last(from.turns)) = from.turns
        BY <2>1 DEF ContextOutcome, ForkOutcomes, ForkIsExact
    <2>4. PICK has : has = IF ContextOutcome(w, from.thread) = "ok" THEN {from.thread} ELSE {}
        OBVIOUS
    <2>5. PICK makes : makes = IF how = "forked" /\ fork[k] = <<>> THEN {k} ELSE {}
        OBVIOUS
    <2>6. call'[p] = how
        BY <2>1 DEF TypeInv, ProcessShape
    <2>7. /\ registered' = [registered EXCEPT ![w] = registered[w] \cup has]
          /\ loaded' = [loaded EXCEPT ![w] = loaded[w] \cup has \cup makes]
          /\ saved' = [saved EXCEPT ![w] = saved[w] \cup has]
        BY <1>3, <1>4, <2>4, <2>5, <2>6 DEF ForkChild
    <2>8. has \in SUBSET Threads /\ makes \in SUBSET {k} /\ has \in {{}, {from.thread}}
        BY <1>4, <2>4, <2>5
    <2> QED
        BY <2>1, <2>2, <2>3, <2>5, <2>7, <2>8
<1>6. call'[p] = how
    BY <1>5 DEF TypeInv, ProcessShape
<1>7. \/ /\ how = "forked" /\ fork[k] = <<>>
         /\ history' = [history EXCEPT ![k] = from.turns]
         /\ fork' = [fork EXCEPT ![k] = from.turns]
         /\ known' = [known EXCEPT ![k] = from.turns]
      \/ ~(how = "forked" /\ fork[k] = <<>>) /\ UNCHANGED <<history, fork, known>>
    <2>1. CASE how = "forked" /\ fork[k] = <<>>
        <3>1. /\ history' = [history EXCEPT ![k] = UpTo(history[from.thread], Last(from.turns))]
              /\ fork' = [fork EXCEPT ![k] = history'[k]]
              /\ known' = [known EXCEPT ![k] = history'[k]]
            BY <1>4, <1>6, <2>1 DEF ForkChild
        <3>2. history' = [history EXCEPT ![k] = from.turns]
            BY <1>5, <2>1, <3>1
        <3>3. history'[k] = from.turns
            BY <1>2, <3>2, RootsAndForks DEF TypeInv, ProcessShape
        <3> QED
            BY <2>1, <3>1, <3>2, <3>3
    <2>2. CASE ~(how = "forked" /\ fork[k] = <<>>)
        BY <1>4, <1>6, <2>2 DEF ForkChild
    <2> QED
        BY <2>1, <2>2
<1> WITNESS w \in Lanes, from \in Result,
            how \in {"already_loaded", "raised", "forked", "fork_crossed"},
            has \in SUBSET Threads, makes \in SUBSET {k}
<1> QED
    BY <1>3, <1>4, <1>5, <1>7

LEMMA ForkChildTyped ==
    ASSUME TypeInv, NEW p \in Places, NEW k \in KeysOf(p), ForkChild(p, k)
    PROVE  TypeInv' /\ Kept
<1>1. Asks(p, k) /\ parent[p] # None
    BY DEF ForkChild, IsRoot
<1>2. /\ k \in Primaries /\ k \in Keys /\ PlaceOf(k) = p /\ k[1] = gen
      /\ k \notin started \/ HasResult(k)
      /\ pc = "running" /\ p[1] = gen /\ gen \in frozen /\ Open(p)
      /\ call[p] = "none" /\ repair[p] = "none"
      /\ started' = started \cup {k} /\ ask' = [ask EXCEPT ![p] = k]
    BY <1>1, Asked
<1>3. PICK w \in Lanes, from \in Result,
           how \in {"already_loaded", "raised", "forked", "fork_crossed"},
           has \in SUBSET Threads, makes \in SUBSET {k} :
        /\ w = Lane(p) /\ from = result[parent[p]] /\ from.thread \in Threads
        /\ call' = [call EXCEPT ![p] = how]
        /\ has \in {{}, {from.thread}} /\ makes = IF how = "forked" /\ fork[k] = <<>> THEN {k} ELSE {}
        /\ registered' = [registered EXCEPT ![w] = registered[w] \cup has]
        /\ loaded' = [loaded EXCEPT ![w] = loaded[w] \cup has \cup makes]
        /\ saved' = [saved EXCEPT ![w] = saved[w] \cup has]
        /\ \/ /\ how = "forked" /\ fork[k] = <<>>
              /\ history' = [history EXCEPT ![k] = from.turns]
              /\ fork' = [fork EXCEPT ![k] = from.turns]
              /\ known' = [known EXCEPT ![k] = from.turns]
           \/ ~(how = "forked" /\ fork[k] = <<>>) /\ UNCHANGED <<history, fork, known>>
    BY Forking, ZenonT(30)
<1>4. from = result[parent[p]] /\ from.thread \in Threads
    BY <1>3
<1>5. /\ call' = [call EXCEPT ![p] = how]
      /\ registered' = [registered EXCEPT ![w] = registered[w] \cup has]
      /\ loaded' = [loaded EXCEPT ![w] = loaded[w] \cup has \cup makes]
      /\ saved' = [saved EXCEPT ![w] = saved[w] \cup has]
    BY <1>3
<1>6. call'[p] = how
    BY <1>5 DEF TypeInv, ProcessShape
<1>7. \/ /\ how = "forked" /\ fork[k] = <<>>
         /\ history' = [history EXCEPT ![k] = from.turns]
         /\ fork' = [fork EXCEPT ![k] = from.turns]
         /\ known' = [known EXCEPT ![k] = from.turns]
      \/ ~(how = "forked" /\ fork[k] = <<>>) /\ UNCHANGED <<history, fork, known>>
    BY <1>3
<1>8. completed' = IF how \in Errors THEN completed \cup {p} ELSE completed
    BY <1>6 DEF ForkChild, CompletesOn
<1>9. /\ rootForks' = rootForks /\ rootContext' = rootContext
      /\ owner' = owner /\ contract' = contract /\ result' = result
      /\ released' = released /\ parent' = parent /\ settled' = settled /\ frozen' = frozen
      /\ pc' = pc /\ gen' = gen /\ coordinator' = coordinator
      /\ dead' = dead /\ repair' = repair
    BY DEF ForkChild
<1>10. from.turns \in Seq(Turn) /\ from.turns # <<>>
    <2>1. Owned(parent[p])
        BY <1>1 DEF TypeInv, PlaceOK
    <2>2. from.turns = Append(contract[parent[p]], parent[p]) /\ parent[p] \in Keys
        BY <1>4, <2>1 DEF TypeInv, KeyOK, Owned
    <2>3. contract[parent[p]] \in Seq(Turn) /\ parent[p] \in Turn
        BY <2>2 DEF TypeInv, StoreShape, Turn
    <2> QED
        BY <2>2, <2>3, Extended
<1>11. Kept
    <2>1. \A j \in Primaries : fork[j] # <<>> => fork'[j] = fork[j]
        BY <1>2, <1>7 DEF TypeInv, StoreShape
    <2> QED
        BY <1>2, <1>8, <1>9, <2>1 DEF Kept
<1>12. fork' \in [Primaries -> Seq(Turn)]
    BY <1>2, <1>7, <1>10 DEF TypeInv, StoreShape
<1>13. saved' \in [Lanes -> SUBSET Threads] /\ loaded' \in [Lanes -> SUBSET Threads]
       /\ registered' \in [Lanes -> SUBSET Threads]
    <2>1. k \in Threads
        BY <1>2, RootsAndForks
    <2>2. PICK a \in SUBSET Threads, b \in SUBSET Threads, c \in SUBSET Threads :
            /\ a = saved[w] \cup has /\ b = loaded[w] \cup has \cup makes
            /\ c = registered[w] \cup has
        BY <2>1, <1>5 DEF TypeInv, StoreShape, ProcessShape
    <2> QED
        BY <1>5, <2>2 DEF TypeInv, StoreShape, ProcessShape
<1>14. StoreShape'
    BY <1>2, <1>8, <1>9, <1>12, <1>13 DEF TypeInv, StoreShape
<1>15. ProcessShape'
    <2>1. known' \in [Threads -> Seq(Turn)] /\ history' \in [Threads -> Seq(Turn)]
        BY <1>2, <1>7, <1>10, RootsAndForks DEF TypeInv, ProcessShape
    <2>2. call' \in [Places -> Calls]
        BY <1>5 DEF TypeInv, ProcessShape, Calls, Errors
    <2>3. ask' \in [Places -> Primaries \cup {None}]
        BY <1>2 DEF TypeInv, ProcessShape
    <2> QED
        BY <1>9, <1>13, <2>1, <2>2, <2>3 DEF TypeInv, ProcessShape
<1>16. Control'
    BY <1>2, <1>9 DEF TypeInv, Control, NoTopology
<1>17. /\ ask'[p] = k /\ call'[p] = how /\ repair'[p] = "none"
       /\ \A q \in Places \ {p} : /\ ask'[q] = ask[q] /\ call'[q] = call[q]
                                  /\ repair'[q] = repair[q] /\ settled'[q] = settled[q]
    BY <1>2, <1>5, <1>9 DEF TypeInv, ProcessShape
<1>18. KeyOK(k)'
    BY <1>2, <1>9 DEF TypeInv, KeyOK, HasResult
<1>19. how = "forked" => fork'[k] # <<>>
    BY <1>2, <1>7, <1>10 DEF TypeInv, StoreShape
<1>20. CallOK(p)'
    BY <1>1, <1>2, <1>5, <1>8, <1>9, <1>17, <1>19 DEF CallOK, Active, Open, Errors
<1>21. PlaceOK(p)'
    BY <1>5, <1>9, <1>11, <1>17, PlaceAlone
<1>22. \A j \in Primaries : fork'[j] # <<>> => j \in started'
    BY <1>2, <1>7 DEF TypeInv, StoreShape
<1> QED
    BY <1>2, <1>9, <1>11, <1>14, <1>15, <1>16, <1>17, <1>18, <1>20, <1>21, <1>22, SlotTyped

LEMMA AskChildTyped ==
    ASSUME TypeInv, NEW p \in Places, AskChild(p)
    PROVE  TypeInv' /\ Kept
<1>1. PICK k \in Primaries :
        /\ k = ask[p] /\ PlaceOf(k) = p /\ k \in started /\ k \in Keys
        /\ fork[k] # <<>> /\ p[1] \in frozen
        /\ pc = "running" /\ p[1] = gen /\ Open(p)
        /\ call[p] = "forked" /\ repair[p] = "none"
    BY RootsAndForks DEF AskChild, TypeInv, CallOK, Active
<1>2. PICK turns \in Seq(Turn), w \in Lanes : turns = fork[k] /\ w = Lane(p)
    BY <1>1, LaneIsALane DEF TypeInv, StoreShape
<1>3. PICK how \in {"contract_changed", "kept", "raised", "turn"} :
        /\ how = "raised" \/ how = AskedOutcome(k, w, turns)
        /\ call' = [call EXCEPT ![p] = how]
        /\ Signs(k, turns) \/ (how = "raised" /\ contract' = contract)
    <2>1. AskedOutcome(k, w, turns) \in {"contract_changed", "kept", "raised", "turn"}
        BY AskedOutcomes
    <2>2. PICK how : how = IF k \in loaded[w] THEN AskedOutcome(k, w, turns) ELSE "raised"
        OBVIOUS
    <2>3. call' = [call EXCEPT ![p] = how]
        BY <1>1, <1>2, <2>2 DEF AskChild
    <2>4. IF k \in loaded[w] THEN Signs(k, turns) ELSE UNCHANGED contract
        BY <1>1, <1>2 DEF AskChild
    <2> QED
        BY <2>1, <2>2, <2>3, <2>4
<1>4. PICK some \in SUBSET Threads :
        some = saved[w] \cup {k} /\ saved' = [saved EXCEPT ![w] = some]
    BY <1>1, <1>2, RootsAndForks DEF AskChild, TypeInv, StoreShape
<1>5. /\ contract' \in [Keys -> Seq(Turn)]
      /\ \A j \in Keys \ {k} : contract'[j] = contract[j]
      /\ \A j \in Keys : contract[j] # <<>> => contract'[j] = contract[j]
      /\ how # "raised" => contract'[k] # <<>>
    <2>1. CASE Signs(k, turns)
        BY <1>1, <1>2, <2>1, Signature
    <2>2. CASE how = "raised" /\ contract' = contract
        BY <2>2 DEF TypeInv, StoreShape
    <2> QED
        BY <1>3, <2>1, <2>2
<1>6. completed' = IF how \in Errors THEN completed \cup {p} ELSE completed
    BY <1>3 DEF AskChild, CompletesOn, TypeInv, ProcessShape
<1>7. /\ history' = history /\ rootForks' = rootForks /\ rootContext' = rootContext
      /\ owner' = owner /\ fork' = fork /\ result' = result
      /\ started' = started
      /\ released' = released /\ parent' = parent /\ settled' = settled /\ frozen' = frozen
      /\ pc' = pc /\ gen' = gen /\ coordinator' = coordinator /\ loaded' = loaded
      /\ registered' = registered /\ known' = known /\ dead' = dead
      /\ ask' = ask /\ repair' = repair
    BY DEF AskChild, process
<1>8. Kept
    BY <1>5, <1>6, <1>7 DEF Kept
<1>9. StoreShape'
    BY <1>4, <1>5, <1>6, <1>7 DEF TypeInv, StoreShape
<1>10. ProcessShape'
    <2>1. call' \in [Places -> Calls]
        BY <1>3 DEF TypeInv, ProcessShape, Calls, Errors
    <2> QED
        BY <1>7, <2>1 DEF TypeInv, ProcessShape
<1>11. Control'
    BY <1>7 DEF TypeInv, Control, NoTopology
<1>12. /\ call'[p] = how
       /\ \A q \in Places \ {p} : /\ ask'[q] = ask[q] /\ call'[q] = call[q]
                                  /\ repair'[q] = repair[q] /\ settled'[q] = settled[q]
    BY <1>3, <1>7 DEF TypeInv, ProcessShape
<1>13. KeyOK(k)'
    BY <1>1, <1>5, <1>7 DEF TypeInv, KeyOK, HasResult
<1>14. /\ how = "turn" => ~HasResult(k)
       /\ how = "kept" => HasResult(k)
    BY <1>3, AskedOutcomes
<1>15. CallOK(p)'
    BY <1>1, <1>5, <1>6, <1>7, <1>12, <1>14 DEF CallOK, Active, HasResult, Open, Errors
<1>16. PlaceOK(p)'
    BY <1>7, <1>8, <1>12, PlaceAlone
<1>17. \A j \in Primaries : fork'[j] # <<>> => j \in started'
    BY <1>7 DEF TypeInv
<1> QED
    BY <1>1, <1>5, <1>7, <1>8, <1>9, <1>10, <1>11, <1>12, <1>13, <1>15, <1>16, <1>17, SlotTyped

\* What is written when a turn ends: the answer, or nothing.
LEMMA AnsweredTyped ==
    ASSUME TypeInv, NEW k \in Keys, NEW t \in Threads, Answered(k, t), contract[k] # <<>>,
           ~HasResult(k)
    PROVE  /\ result' \in [Keys -> Result] /\ HasResult(k)'
           /\ result'[k].thread = t /\ result'[k].turns = Append(contract[k], k)
           /\ \A j \in Keys \ {k} : result'[j] = result[j]
           /\ history' \in [Threads -> Seq(Turn)] /\ known' \in [Threads -> Seq(Turn)]
           /\ dead' = dead
<1>1. k \in Turn /\ contract[k] \in Seq(Turn) /\ history[t] \in Seq(Turn) /\ known[t] \in Seq(Turn)
    BY DEF TypeInv, StoreShape, ProcessShape, Turn
<1>2. PICK turns \in Seq(Turn) : turns = Append(contract[k], k) /\ turns # <<>>
    BY <1>1, Extended
<1>3. PICK more \in Seq(Turn) : more = Append(history[t], k)
    BY <1>1, Extended
<1>4. PICK told \in Seq(Turn) : told = Append(known[t], k)
    BY <1>1, Extended
<1>5. PICK r \in Result : r = [thread |-> t, turns |-> turns]
    BY <1>2 DEF Result
<1>6. r # NoResult /\ r.thread = t /\ r.turns = turns
    BY <1>2, <1>5 DEF NoResult
<1>7. /\ result' = [result EXCEPT ![k] = r] /\ history' = [history EXCEPT ![t] = more]
      /\ known' = [known EXCEPT ![t] = told] /\ dead' = dead
    BY <1>2, <1>3, <1>4, <1>5 DEF Answered, TypeInv, ProcessShape
<1> QED
    BY <1>2, <1>5, <1>6, <1>7 DEF TypeInv, StoreShape, ProcessShape, HasResult

LEMMA LostTyped ==
    ASSUME TypeInv, NEW k \in Keys, NEW t \in Threads, NEW w \in Lanes, Lost(k, t, w)
    PROVE  /\ result' = result /\ known' = known /\ dead' \subseteq Lanes
           /\ history' \in [Threads -> Seq(Turn)]
<1>1. history[t] \in Seq(Turn) /\ k \in Turn
    BY DEF TypeInv, ProcessShape, Turn
<1>2. PICK more \in Seq(Turn) : more = Append(history[t], k)
    BY <1>1, Extended
<1>3. history' = history \/ history' = [history EXCEPT ![t] = more]
    BY <1>2 DEF Lost, TypeInv, ProcessShape
<1> QED
    BY <1>3 DEF Lost, TypeInv, ProcessShape

LEMMA EndTurnTyped ==
    ASSUME TypeInv, NEW p \in Places, EndTurn(p)
    PROVE  TypeInv' /\ Kept
<1>1. PICK k \in Primaries :
        /\ k = ask[p] /\ PlaceOf(k) = p /\ k \in started /\ k \in Keys
        /\ contract[k] # <<>> /\ ~HasResult(k) /\ p[1] \in frozen
        /\ pc = "running" /\ p[1] = gen /\ Open(p)
        /\ call[p] = "turn" /\ repair[p] = "none"
    BY RootsAndForks DEF EndTurn, TypeInv, CallOK, Active
<1>2. PICK t \in Threads : t = ThreadOf(p)
    BY <1>1, LaneIsALane, RootOfALane, RootsAndForks DEF ThreadOf
<1>3. PICK w \in Lanes : w = Lane(p)
    BY LaneIsALane
<1>4. PICK how \in {"kept", "raised"} :
        /\ call' = [call EXCEPT ![p] = how]
        /\ \/ how = "kept" /\ Answered(k, t)
           \/ how = "raised" /\ Lost(k, t, w)
    BY <1>1, <1>2, <1>3 DEF EndTurn
<1>5. /\ result' \in [Keys -> Result] /\ dead' \subseteq Lanes
      /\ \A j \in Keys \ {k} : result'[j] = result[j]
      /\ history' \in [Threads -> Seq(Turn)] /\ known' \in [Threads -> Seq(Turn)]
      /\ how = "kept" => /\ HasResult(k)' /\ result'[k].thread = t
                         /\ result'[k].turns = Append(contract[k], k)
      /\ how = "raised" => result' = result
    <2>1. CASE how = "kept" /\ Answered(k, t)
        BY <1>1, <2>1, AnsweredTyped DEF TypeInv, ProcessShape
    <2>2. CASE how = "raised" /\ Lost(k, t, w)
        <3>1. /\ result' = result /\ known' = known /\ dead' \subseteq Lanes
              /\ history' \in [Threads -> Seq(Turn)]
            BY <1>1, <2>2, LostTyped
        <3>2. result \in [Keys -> Result] /\ known \in [Threads -> Seq(Turn)]
            BY DEF TypeInv, StoreShape, ProcessShape
        <3> QED
            BY <2>2, <3>1, <3>2
    <2> QED
        BY <1>4, <2>1, <2>2
<1>6. completed' = IF how \in Errors THEN completed \cup {p} ELSE completed
    BY <1>4 DEF EndTurn, CompletesOn, TypeInv, ProcessShape
<1>7. /\ rootForks' = rootForks /\ rootContext' = rootContext
      /\ owner' = owner /\ saved' = saved /\ fork' = fork /\ contract' = contract
      /\ started' = started
      /\ released' = released /\ parent' = parent /\ settled' = settled /\ frozen' = frozen
      /\ pc' = pc /\ gen' = gen /\ coordinator' = coordinator /\ loaded' = loaded
      /\ registered' = registered /\ ask' = ask /\ repair' = repair
    BY DEF EndTurn
<1>8. Kept
    <2>1. \A j \in Keys : HasResult(j) => result'[j] = result[j]
        BY <1>1, <1>5
    <2> QED
        BY <1>6, <1>7, <2>1 DEF Kept
<1>9. StoreShape'
    BY <1>5, <1>6, <1>7 DEF TypeInv, StoreShape
<1>10. ProcessShape'
    <2>1. call' \in [Places -> Calls]
        BY <1>4 DEF TypeInv, ProcessShape, Calls, Errors
    <2> QED
        BY <1>5, <1>7, <2>1 DEF TypeInv, ProcessShape
<1>11. Control'
    BY <1>7 DEF TypeInv, Control, NoTopology
<1>12. /\ call'[p] = how
       /\ \A q \in Places \ {p} : /\ ask'[q] = ask[q] /\ call'[q] = call[q]
                                  /\ repair'[q] = repair[q] /\ settled'[q] = settled[q]
    BY <1>4, <1>7 DEF TypeInv, ProcessShape
<1>13. KeyOK(k)'
    BY <1>1, <1>4, <1>5, <1>7 DEF TypeInv, KeyOK, HasResult
<1>14. CallOK(p)'
    BY <1>1, <1>5, <1>6, <1>7, <1>12 DEF CallOK, Active, HasResult, Open, Errors
<1>15. PlaceOK(p)'
    BY <1>7, <1>8, <1>12, PlaceAlone
<1>16. \A j \in Primaries : fork'[j] # <<>> => j \in started'
    BY <1>7 DEF TypeInv
<1> QED
    BY <1>1, <1>5, <1>7, <1>8, <1>9, <1>10, <1>11, <1>12, <1>13, <1>14, <1>15, <1>16, SlotTyped

\* What is recorded of an answer.
LEMMA RecordsTyped ==
    ASSUME TypeInv, NEW k \in Keys, HasResult(k), NEW w \in Lanes, Records(k, w)
    PROVE  /\ owner' \in [Threads -> Lanes \cup {0}]
           /\ owner' = [owner EXCEPT ![result[k].thread] = w]
           /\ rootContext' \in [Lanes -> Seq(Turn)]
           /\ rootContext' = rootContext \/ rootContext' = [rootContext EXCEPT ![w] = result[k].turns]
           /\ (\A v \in Lanes : rootContext[v] # <<>>) => \A v \in Lanes : rootContext'[v] # <<>>
           /\ result[k].thread \in Threads /\ owner'[result[k].thread] # 0
           /\ \A t \in Threads : owner[t] # 0 => owner'[t] # 0
<1>1. PICK t \in Threads, turns \in Seq(Turn) : t = result[k].thread /\ turns = result[k].turns /\ turns # <<>>
    <2>1. result[k].thread \in Threads /\ result[k].turns = Append(contract[k], k)
        BY DEF TypeInv, KeyOK
    <2>2. contract[k] \in Seq(Turn) /\ k \in Turn
        BY DEF TypeInv, StoreShape, Turn
    <2> QED
        BY <2>1, <2>2, Extended
<1>2. owner' = [owner EXCEPT ![t] = w]
    BY <1>1 DEF Records
<1>3. rootContext' = rootContext \/ rootContext' = [rootContext EXCEPT ![w] = turns]
    BY <1>1 DEF Records
<1>4. w # 0
    BY Bounds
<1> QED
    BY <1>1, <1>2, <1>3, <1>4 DEF TypeInv, StoreShape

\* A step that settles a slot or ends its calls.
LEMMA PlaceNext ==
    ASSUME TypeInv, Kept, NEW p \in Places, NEW a, NEW j, NEW r,
           parent'[p] = parent[p], ask'[p] = a, settled'[p] = j, r = RepairOf(p),
           j \in {None, Failed} \/ j = settled[p] \/ Owned(j)',
           call'[p] = "done" => (call[p] = "done" /\ a = ask[p]) \/ Owned(a)',
           repair'[p] = "done" => repair[p] = "done" \/ Owned(r)'
    PROVE  PlaceOK(p)'
<1>1. PlaceOK(p)
    BY DEF TypeInv
<1>2. PICK b : b = parent[p]
    OBVIOUS
<1>3. b # None => p[1] \in frozen' /\ Owned(b)'
    BY <1>1, <1>2, OwnedKept DEF PlaceOK, Kept
<1>4. j \notin {None, Failed} => Owned(j)'
    BY <1>1, OwnedKept DEF PlaceOK
<1>5. call'[p] = "done" => Owned(a)'
    BY <1>1, OwnedKept DEF PlaceOK
<1>6. repair'[p] = "done" => Owned(r)'
    BY <1>1, OwnedKept DEF PlaceOK
<1>7. parent'[p] = b /\ RepairOf(p)' = r
    BY <1>2 DEF RepairOf
<1> QED
    BY <1>3, <1>4, <1>5, <1>6, <1>7 DEF PlaceOK, Owned, HasResult

LEMMA RecordTyped ==
    ASSUME TypeInv, NEW p \in Places, Record(p)
    PROVE  TypeInv' /\ Kept
<1>1. PICK k \in Primaries :
        /\ k = ask[p] /\ PlaceOf(k) = p /\ k \in started /\ k \in Keys
        /\ HasResult(k) /\ p[1] \in frozen /\ p[1] = gen
        /\ pc = "running" /\ call[p] = "kept" /\ repair[p] = "none"
    BY RootsAndForks DEF Record, TypeInv, CallOK, Active
<1>2. PICK w \in Lanes : w = Lane(p)
    BY LaneIsALane
<1>3. Records(k, w) /\ call' = [call EXCEPT ![p] = "done"] /\ completed' = completed \cup {p}
    BY <1>1, <1>2 DEF Record
<1>4. /\ owner' \in [Threads -> Lanes \cup {0}] /\ rootContext' \in [Lanes -> Seq(Turn)]
      /\ (\A v \in Lanes : rootContext[v] # <<>>) => \A v \in Lanes : rootContext'[v] # <<>>
      /\ result[k].thread \in Threads /\ owner'[result[k].thread] # 0
      /\ \A t \in Threads : owner[t] # 0 => owner'[t] # 0
    BY <1>1, <1>3, RecordsTyped
<1>5. /\ history' = history /\ rootForks' = rootForks /\ saved' = saved /\ fork' = fork
      /\ contract' = contract /\ result' = result /\ started' = started
      /\ released' = released /\ parent' = parent /\ settled' = settled /\ frozen' = frozen
      /\ pc' = pc /\ gen' = gen /\ coordinator' = coordinator /\ loaded' = loaded
      /\ registered' = registered /\ known' = known /\ dead' = dead
      /\ ask' = ask /\ repair' = repair
    BY DEF Record, process
<1>6. Kept
    BY <1>3, <1>4, <1>5 DEF Kept
<1>7. StoreShape'
    BY <1>3, <1>4, <1>5 DEF TypeInv, StoreShape
<1>8. ProcessShape'
    <2>1. call' \in [Places -> Calls]
        BY <1>3 DEF TypeInv, ProcessShape, Calls, Errors
    <2> QED
        BY <1>5, <2>1 DEF TypeInv, ProcessShape
<1>9. Control'
    <2>1. \E v \in Lanes : rootContext[v] # <<>>
        BY <1>1 DEF TypeInv, Control, NoTopology
    <2>2. \A v \in Lanes : rootContext'[v] # <<>>
        BY <1>4, <2>1 DEF TypeInv, Control, NoTopology
    <2> QED
        BY <1>2, <1>5, <2>2 DEF TypeInv, Control, NoTopology
<1>10. /\ call'[p] = "done"
       /\ \A q \in Places \ {p} : /\ ask'[q] = ask[q] /\ call'[q] = call[q]
                                  /\ repair'[q] = repair[q] /\ settled'[q] = settled[q]
    BY <1>3, <1>5 DEF TypeInv, ProcessShape
<1>11. KeyOK(k)'
    BY <1>5, <1>6, <1>1, KeyAlone
<1>12. CallOK(p)'
    BY <1>1, <1>3, <1>5, <1>10 DEF CallOK, Active, HasResult, Errors, Open
<1>13. PlaceOK(p)'
    <2>1. Owned(k)'
        BY <1>1, <1>4, <1>5 DEF Owned, HasResult
    <2>2. ask'[p] = k /\ repair'[p] = repair[p] /\ parent'[p] = parent[p]
          /\ settled'[p] = settled[p] /\ call'[p] = "done"
        BY <1>1, <1>5, <1>10
    <2>3. PICK r, s : r = RepairOf(p) /\ s = settled[p]
        OBVIOUS
    <2>4. settled'[p] = s /\ (repair'[p] = "done" => repair[p] = "done")
        BY <2>2, <2>3
    <2> QED
        BY <1>6, <2>1, <2>2, <2>3, <2>4, PlaceNext
<1>14. \A j \in Primaries : fork'[j] # <<>> => j \in started'
    BY <1>5 DEF TypeInv
<1> QED
    BY <1>1, <1>5, <1>6, <1>7, <1>8, <1>9, <1>10, <1>11, <1>12, <1>13, <1>14, SlotTyped

\* Settling a slot changes nothing else.
LEMMA SettlesTyped ==
    ASSUME TypeInv, NEW p \in Places, NEW with, Settles(p, with), Open(p), p \in completed,
           ~Active(p), with = Failed \/ Owned(with)
    PROVE  TypeInv' /\ Kept
<1>1. /\ settled' = [settled EXCEPT ![p] = with] /\ released' = released \cup {p}
      /\ history' = history /\ rootForks' = rootForks /\ rootContext' = rootContext
      /\ owner' = owner /\ saved' = saved /\ fork' = fork /\ contract' = contract
      /\ result' = result /\ started' = started /\ completed' = completed
      /\ parent' = parent /\ frozen' = frozen
      /\ pc' = pc /\ gen' = gen /\ coordinator' = coordinator /\ loaded' = loaded
      /\ registered' = registered /\ known' = known /\ dead' = dead
      /\ ask' = ask /\ call' = call /\ repair' = repair
    BY DEF Settles, process, calls
<1>2. with \in Keys \cup {None, Failed}
    BY DEF Owned
<1>3. Kept
    BY <1>1 DEF Kept, Open
<1>4. StoreShape'
    BY <1>1, <1>2 DEF TypeInv, StoreShape
<1>5. ProcessShape'
    BY <1>1 DEF TypeInv, ProcessShape
<1>6. Control'
    BY <1>1 DEF TypeInv, Control, NoTopology
<1>7. ASSUME NEW q \in Places PROVE CallOK(q)'
    <2>1. CallOK(q)
        BY DEF TypeInv
    <2>2. Active(q) => settled'[q] = settled[q]
        BY <1>1 DEF TypeInv, StoreShape
    <2> QED
        BY <1>1, <2>1, <2>2 DEF CallOK, Active, HasResult, Open, RepairOf
<1>8. ASSUME NEW q \in Places PROVE PlaceOK(q)'
    <2>1. CASE q # p
        <3>1. settled'[q] = settled[q]
            BY <1>1, <2>1 DEF TypeInv, StoreShape
        <3> QED
            BY <1>1, <1>3, <3>1, PlaceAlone
    <2>2. CASE q = p
        <3>1. settled'[p] = with
            BY <1>1 DEF TypeInv, StoreShape
        <3>2. with = Failed \/ Owned(with)'
            BY <1>3, OwnedKept
        <3>3. PICK a, r : a = ask[p] /\ r = RepairOf(p)
            OBVIOUS
        <3>4. /\ parent'[p] = parent[p] /\ ask'[p] = a
              /\ call'[p] = "done" => call[p] = "done" /\ a = ask[p]
              /\ repair'[p] = "done" => repair[p] = "done"
            BY <1>1, <3>3
        <3> QED
            BY <1>3, <2>2, <3>1, <3>2, <3>3, <3>4, PlaceNext
    <2> QED
        BY <2>1, <2>2
<1>9. ASSUME NEW k \in Keys PROVE KeyOK(k)'
    BY <1>1, <1>3, KeyAlone
<1> QED
    BY <1>3, <1>1, <1>4, <1>5, <1>6, <1>7, <1>8, <1>9 DEF TypeInv

LEMMA TakeAnswerTyped == ASSUME TypeInv, NEW p \in Places, TakeAnswer(p) PROVE TypeInv' /\ Kept
<1>1. Open(p) /\ p \in completed /\ repair[p] = "none"
    BY DEF TakeAnswer, Current
<1>2. PICK with : /\ Settles(p, with) /\ call[p] \in {"done", "raised", "already_loaded"}
                  /\ with = Failed \/ (with = ask[p] /\ call[p] = "done")
    BY DEF TakeAnswer
<1>3. ~Active(p)
    BY <1>1, <1>2 DEF Active
<1>4. with = Failed \/ Owned(with)
    BY <1>2 DEF TypeInv, PlaceOK
<1> QED
    BY <1>1, <1>2, <1>3, <1>4, SettlesTyped

LEMMA TakeRepairTyped == ASSUME TypeInv, NEW p \in Places, TakeRepair(p) PROVE TypeInv' /\ Kept
<1>1. Open(p)
    BY DEF TakeRepair, Current
<1>2. PICK with : /\ Settles(p, with) /\ repair[p] \in {"done", "raised", "already_loaded"}
                  /\ with = Failed \/ (with = RepairOf(p) /\ repair[p] = "done")
    BY DEF TakeRepair
<1>3. call[p] = "done" /\ p \in completed
    BY <1>2 DEF TypeInv, CallOK
<1>4. ~Active(p)
    BY <1>2, <1>3 DEF Active
<1>5. with = Failed \/ Owned(with)
    BY <1>2 DEF TypeInv, PlaceOK
<1> QED
    BY <1>1, <1>2, <1>3, <1>4, <1>5, SettlesTyped

\* A slot whose answer is taken, or repaired.
LEMMA Answering ==
    ASSUME TypeInv, NEW p \in Places, call[p] = "done"
    PROVE  /\ ask[p] \in Primaries /\ ask[p] \in Keys /\ PlaceOf(ask[p]) = p
           /\ p \in completed /\ p[1] \in frozen /\ ask[p] \in started
           /\ HasResult(ask[p]) /\ Owned(ask[p])
           /\ result[ask[p]].thread \in Threads /\ owner[result[ask[p]].thread] \in Lanes
           /\ result[ask[p]].turns \in Seq(Turn) /\ result[ask[p]].turns # <<>>
           /\ p[1] = gen => pc = "running"
<1>1. CallOK(p) /\ PlaceOK(p)
    BY DEF TypeInv
<1>2. /\ ask[p] \in Primaries /\ ask[p] \in Keys /\ PlaceOf(ask[p]) = p
      /\ p \in completed /\ p[1] \in frozen /\ HasResult(ask[p]) /\ Owned(ask[p])
      /\ ask[p] \in started
    BY <1>1, RootsAndForks DEF CallOK, PlaceOK
<1>3. /\ result[ask[p]].thread \in Threads
      /\ result[ask[p]].turns = Append(contract[ask[p]], ask[p])
    BY <1>2 DEF TypeInv, KeyOK
<1>4. contract[ask[p]] \in Seq(Turn) /\ ask[p] \in Turn
    BY <1>2 DEF TypeInv, StoreShape, Turn
<1>5. owner[result[ask[p]].thread] \in Lanes
    BY <1>2, <1>3 DEF Owned, TypeInv, StoreShape
<1>6. p[1] = gen => pc = "running"
    <2>1. p[1] \in Nat
        BY KeysOfAPlace, Bounds
    <2> QED
        BY <1>1, <2>1 DEF CallOK
<1> QED
    BY <1>2, <1>3, <1>4, <1>5, <1>6, Extended

\* The outcome of a repair.
LEMMA AskingRepair ==
    ASSUME TypeInv, NEW p \in Places, Repair(p), NEW k \in Keys, k = RepairOf(p),
           NEW t, t = result[ask[p]].thread, NEW turns, turns = result[ask[p]].turns,
           NEW w, w = owner[t]
    PROVE  \E how \in {"not_repeated", "already_loaded", "raised", "contract_changed",
                      "kept", "turn"} :
              /\ repair' = [repair EXCEPT ![p] = how]
              /\ \/ /\ how = AskedOutcome(k, w, turns) /\ (k \in started => HasResult(k))
                    /\ ContextOutcome(w, t) = "ok" /\ Activates(t, turns)
                    /\ Signs(k, turns) /\ known' = [known EXCEPT ![t] = turns]
                 \/ /\ how \in {"not_repeated", "already_loaded", "raised"}
                    /\ UNCHANGED <<contract, known>>
                    /\ how = "already_loaded" => ContextOutcome(w, t) = "already_loaded"
<1>1. AskedOutcome(k, w, turns) \in {"contract_changed", "kept", "raised", "turn"}
    BY AskedOutcomes
<1>2. ContextOutcome(w, t) \in {"ok", "already_loaded", "raised"}
    BY DEF ContextOutcome
<1>3. CASE k \in started /\ ~HasResult(k)
    <2>1. repair' = [repair EXCEPT ![p] = "not_repeated"] /\ UNCHANGED <<contract, known>>
        BY <1>3 DEF Repair
    <2> QED
        BY <2>1
<1>4. CASE ~(k \in started /\ ~HasResult(k)) /\ ContextOutcome(w, t) # "ok"
    <2>1. repair' = [repair EXCEPT ![p] = ContextOutcome(w, t)] /\ UNCHANGED <<contract, known>>
        BY <1>4 DEF Repair
    <2> QED
        BY <1>2, <1>4, <2>1
<1>5. CASE /\ ~(k \in started /\ ~HasResult(k)) /\ ContextOutcome(w, t) = "ok"
           /\ ~Activates(t, turns)
    <2>1. repair' = [repair EXCEPT ![p] = "raised"] /\ UNCHANGED <<contract, known>>
        BY <1>5 DEF Repair
    <2> QED
        BY <1>5, <2>1
<1>6. CASE /\ ~(k \in started /\ ~HasResult(k)) /\ ContextOutcome(w, t) = "ok"
           /\ Activates(t, turns)
    <2>1. /\ repair' = [repair EXCEPT ![p] = AskedOutcome(k, w, turns)]
          /\ Signs(k, turns) /\ known' = [known EXCEPT ![t] = turns]
        BY <1>6 DEF Repair
    <2> QED
        BY <1>1, <1>6, <2>1
<1> QED
    BY <1>3, <1>4, <1>5, <1>6

LEMMA RepairTyped == ASSUME TypeInv, NEW p \in Places, Repair(p) PROVE TypeInv' /\ Kept
<1>1. PICK k \in Repairs :
        k = RepairOf(p) /\ k \in Keys /\ PlaceOf(k) = p /\ k[1] = p[1] /\ k \notin Primaries
    BY KeysOfAPlace DEF Keys, RepairOf
<1>2. /\ call[p] = "done" /\ repair[p] = "none" /\ Open(p) /\ p[1] = gen
      /\ started' = started \cup {k}
    BY <1>1 DEF Repair, Current, Here
<1>3. /\ ask[p] \in Primaries /\ PlaceOf(ask[p]) = p /\ ask[p] \in started
      /\ p \in completed /\ p[1] \in frozen /\ HasResult(ask[p]) /\ pc = "running"
    BY <1>2, Answering
<1>4. PICK w \in Lanes, t \in Threads, turns \in Seq(Turn) :
        /\ t = result[ask[p]].thread /\ turns = result[ask[p]].turns /\ turns # <<>>
        /\ w = owner[t]
    BY <1>2, Answering
<1>5. PICK how \in {"not_repeated", "already_loaded", "raised", "contract_changed",
                   "kept", "turn"} :
        /\ repair' = [repair EXCEPT ![p] = how]
        /\ \/ /\ how = AskedOutcome(k, w, turns) /\ (k \in started => HasResult(k))
              /\ ContextOutcome(w, t) = "ok" /\ Activates(t, turns)
              /\ Signs(k, turns) /\ known' = [known EXCEPT ![t] = turns]
           \/ /\ how \in {"not_repeated", "already_loaded", "raised"}
              /\ UNCHANGED <<contract, known>>
              /\ how = "already_loaded" => ContextOutcome(w, t) = "already_loaded"
    BY <1>1, <1>4, AskingRepair
<1>6. /\ contract' \in [Keys -> Seq(Turn)]
      /\ \A j \in Keys \ {k} : contract'[j] = contract[j]
      /\ \A j \in Keys : contract[j] # <<>> => contract'[j] = contract[j]
      /\ how \in {"turn", "kept"} => contract'[k] # <<>>
    <2>1. CASE Signs(k, turns)
        BY <1>1, <1>4, <2>1, Signature
    <2>2. CASE UNCHANGED contract /\ how \notin {"turn", "kept"}
        BY <2>2 DEF TypeInv, StoreShape
    <2> QED
        BY <1>5, <2>1, <2>2
<1>7. /\ history' = history /\ rootForks' = rootForks /\ rootContext' = rootContext
      /\ owner' = owner /\ saved' = saved /\ fork' = fork /\ result' = result
      /\ completed' = completed
      /\ released' = released /\ parent' = parent /\ settled' = settled /\ frozen' = frozen
      /\ pc' = pc /\ gen' = gen /\ coordinator' = coordinator /\ loaded' = loaded
      /\ registered' = registered /\ dead' = dead /\ ask' = ask /\ call' = call
    BY DEF Repair
<1>8. Kept
    BY <1>2, <1>6, <1>7 DEF Kept
<1>9. StoreShape'
    BY <1>1, <1>2, <1>6, <1>7 DEF TypeInv, StoreShape
<1>10. ProcessShape'
    <2>1. repair' \in [Places -> RepairCalls]
        BY <1>5 DEF TypeInv, ProcessShape, RepairCalls, Errors
    <2>2. known' \in [Threads -> Seq(Turn)]
        BY <1>5 DEF TypeInv, ProcessShape
    <2> QED
        BY <1>7, <2>1, <2>2 DEF TypeInv, ProcessShape
<1>11. Control'
    BY <1>7 DEF TypeInv, Control, NoTopology
<1>12. /\ repair'[p] = how
       /\ \A q \in Places \ {p} : /\ ask'[q] = ask[q] /\ call'[q] = call[q]
                                  /\ repair'[q] = repair[q] /\ settled'[q] = settled[q]
    BY <1>5, <1>7 DEF TypeInv, ProcessShape
<1>13. KeyOK(k)'
    <2>1. HasResult(k)' => HasResult(k) /\ contract'[k] = contract[k]
        BY <1>6, <1>7, <1>1 DEF HasResult, TypeInv, KeyOK
    <2> QED
        BY <1>1, <1>2, <1>3, <1>7, <2>1 DEF TypeInv, KeyOK, HasResult
<1>14. /\ how = "turn" => ~HasResult(k)
       /\ how = "kept" => HasResult(k)
    BY <1>5, AskedOutcomes
<1>15. CallOK(p)'
    BY <1>1, <1>2, <1>3, <1>5, <1>6, <1>7, <1>12, <1>14
       DEF CallOK, Active, HasResult, Open, Errors, RepairOf
<1>16. PlaceOK(p)'
    BY <1>5, <1>7, <1>8, <1>12, PlaceAlone
<1>17. \A j \in Primaries : fork'[j] # <<>> => j \in started'
    BY <1>2, <1>7 DEF TypeInv
<1> QED
    BY <1>1, <1>2, <1>6, <1>7, <1>8, <1>9, <1>10, <1>11, <1>12, <1>13, <1>15, <1>16, <1>17, SlotTyped

\* A slot whose repair runs or is answered.
LEMMA Repairing ==
    ASSUME TypeInv, NEW p \in Places, repair[p] \in {"turn", "kept"}
    PROVE  \E k \in Repairs :
              /\ k = RepairOf(p) /\ k \in Keys /\ PlaceOf(k) = p /\ k[1] = p[1]
              /\ k \notin Primaries /\ k \in started
              /\ contract[k] # <<>> /\ (HasResult(k) <=> repair[p] = "kept")
              /\ call[p] = "done" /\ pc = "running" /\ p[1] = gen /\ Open(p)
<1>1. PICK k \in Repairs :
        k = RepairOf(p) /\ k \in Keys /\ PlaceOf(k) = p /\ k[1] = p[1] /\ k \notin Primaries
    BY KeysOfAPlace DEF Keys, RepairOf
<1>2. CallOK(p) /\ KeyOK(k)
    BY <1>1 DEF TypeInv
<1>3. contract[k] # <<>> /\ (HasResult(k) <=> repair[p] = "kept")
    BY <1>1, <1>2 DEF CallOK, KeyOK
<1> QED
    BY <1>1, <1>2, <1>3 DEF CallOK, Active

LEMMA EndRepairTyped == ASSUME TypeInv, NEW p \in Places, EndRepair(p) PROVE TypeInv' /\ Kept
<1>1. PICK k \in Repairs :
        /\ k = RepairOf(p) /\ k \in Keys /\ PlaceOf(k) = p /\ k[1] = p[1]
        /\ k \notin Primaries /\ k \in started
        /\ contract[k] # <<>> /\ ~HasResult(k)
        /\ call[p] = "done" /\ pc = "running" /\ p[1] = gen /\ Open(p) /\ repair[p] = "turn"
    BY Repairing DEF EndRepair
<1>2. PICK w \in Lanes, t \in Threads : t = result[ask[p]].thread /\ w = owner[t]
    BY <1>1, Answering
<1>3. PICK how \in {"kept", "raised"} :
        /\ repair' = [repair EXCEPT ![p] = how]
        /\ \/ how = "kept" /\ Answered(k, t)
           \/ how = "raised" /\ Lost(k, t, w)
    BY <1>1, <1>2 DEF EndRepair
<1>4. /\ result' \in [Keys -> Result] /\ dead' \subseteq Lanes
      /\ \A j \in Keys \ {k} : result'[j] = result[j]
      /\ history' \in [Threads -> Seq(Turn)] /\ known' \in [Threads -> Seq(Turn)]
      /\ how = "kept" => /\ HasResult(k)' /\ result'[k].thread = t
                         /\ result'[k].turns = Append(contract[k], k)
      /\ how = "raised" => result' = result
    <2>1. CASE how = "kept" /\ Answered(k, t)
        BY <1>1, <2>1, AnsweredTyped DEF TypeInv, ProcessShape
    <2>2. CASE how = "raised" /\ Lost(k, t, w)
        <3>1. /\ result' = result /\ known' = known /\ dead' \subseteq Lanes
              /\ history' \in [Threads -> Seq(Turn)]
            BY <1>1, <2>2, LostTyped
        <3>2. result \in [Keys -> Result] /\ known \in [Threads -> Seq(Turn)]
            BY DEF TypeInv, StoreShape, ProcessShape
        <3> QED
            BY <2>2, <3>1, <3>2
    <2> QED
        BY <1>3, <2>1, <2>2
<1>5. /\ rootForks' = rootForks /\ rootContext' = rootContext
      /\ owner' = owner /\ saved' = saved /\ fork' = fork /\ contract' = contract
      /\ started' = started /\ completed' = completed
      /\ released' = released /\ parent' = parent /\ settled' = settled /\ frozen' = frozen
      /\ pc' = pc /\ gen' = gen /\ coordinator' = coordinator /\ loaded' = loaded
      /\ registered' = registered /\ ask' = ask /\ call' = call
    BY DEF EndRepair
<1>6. Kept
    <2>1. \A j \in Keys : HasResult(j) => result'[j] = result[j]
        BY <1>1, <1>4
    <2> QED
        BY <1>5, <2>1 DEF Kept
<1>7. StoreShape'
    BY <1>4, <1>5 DEF TypeInv, StoreShape
<1>8. ProcessShape'
    <2>1. repair' \in [Places -> RepairCalls]
        BY <1>3 DEF TypeInv, ProcessShape, RepairCalls, Errors
    <2> QED
        BY <1>4, <1>5, <2>1 DEF TypeInv, ProcessShape
<1>9. Control'
    BY <1>5 DEF TypeInv, Control, NoTopology
<1>10. /\ repair'[p] = how
       /\ \A q \in Places \ {p} : /\ ask'[q] = ask[q] /\ call'[q] = call[q]
                                  /\ repair'[q] = repair[q] /\ settled'[q] = settled[q]
    BY <1>3, <1>5 DEF TypeInv, ProcessShape
<1>11. KeyOK(k)'
    BY <1>1, <1>3, <1>4, <1>5 DEF TypeInv, KeyOK, HasResult
<1>12. CallOK(p)'
    <2>1. /\ ask[p] \in Primaries /\ PlaceOf(ask[p]) = p /\ ask[p] \in started
          /\ p \in completed /\ p[1] \in frozen /\ HasResult(ask[p])
        BY <1>1, Answering
    <2>2. HasResult(ask[p])'
        BY <1>6, <2>1, RootsAndForks, <1>5 DEF Kept, HasResult
    <2> QED
        BY <1>1, <1>4, <1>5, <1>10, <2>1, <2>2 DEF CallOK, Active, HasResult, Open, Errors, RepairOf
<1>13. PlaceOK(p)'
    BY <1>5, <1>6, <1>10, PlaceAlone
<1>14. \A j \in Primaries : fork'[j] # <<>> => j \in started'
    BY <1>5 DEF TypeInv
<1> QED
    BY <1>1, <1>4, <1>5, <1>6, <1>7, <1>8, <1>9, <1>10, <1>11, <1>12, <1>13, <1>14, SlotTyped

LEMMA RecordRepairTyped == ASSUME TypeInv, NEW p \in Places, RecordRepair(p) PROVE TypeInv' /\ Kept
<1>1. PICK k \in Repairs :
        /\ k = RepairOf(p) /\ k \in Keys /\ PlaceOf(k) = p /\ k[1] = p[1]
        /\ k \notin Primaries /\ k \in started
        /\ contract[k] # <<>> /\ HasResult(k)
        /\ call[p] = "done" /\ pc = "running" /\ p[1] = gen /\ Open(p) /\ repair[p] = "kept"
    BY Repairing DEF RecordRepair
<1>2. PICK w \in Lanes : w = Lane(p)
    BY LaneIsALane
<1>3. Records(k, w) /\ repair' = [repair EXCEPT ![p] = "done"]
    BY <1>1, <1>2 DEF RecordRepair
<1>4. /\ owner' \in [Threads -> Lanes \cup {0}] /\ rootContext' \in [Lanes -> Seq(Turn)]
      /\ (\A v \in Lanes : rootContext[v] # <<>>) => \A v \in Lanes : rootContext'[v] # <<>>
      /\ result[k].thread \in Threads /\ owner'[result[k].thread] # 0
      /\ \A t \in Threads : owner[t] # 0 => owner'[t] # 0
    BY <1>1, <1>3, RecordsTyped
<1>5. /\ history' = history /\ rootForks' = rootForks /\ saved' = saved /\ fork' = fork
      /\ contract' = contract /\ result' = result /\ started' = started
      /\ completed' = completed
      /\ released' = released /\ parent' = parent /\ settled' = settled /\ frozen' = frozen
      /\ pc' = pc /\ gen' = gen /\ coordinator' = coordinator /\ loaded' = loaded
      /\ registered' = registered /\ known' = known /\ dead' = dead
      /\ ask' = ask /\ call' = call
    BY DEF RecordRepair, process
<1>6. Kept
    BY <1>4, <1>5 DEF Kept
<1>7. StoreShape'
    BY <1>4, <1>5 DEF TypeInv, StoreShape
<1>8. ProcessShape'
    <2>1. repair' \in [Places -> RepairCalls]
        BY <1>3 DEF TypeInv, ProcessShape, RepairCalls, Errors
    <2> QED
        BY <1>5, <2>1 DEF TypeInv, ProcessShape
<1>9. Control'
    <2>1. \E v \in Lanes : rootContext[v] # <<>>
        BY <1>1 DEF TypeInv, Control, NoTopology
    <2>2. \A v \in Lanes : rootContext'[v] # <<>>
        BY <1>4, <2>1 DEF TypeInv, Control, NoTopology
    <2> QED
        BY <1>2, <1>5, <2>2 DEF TypeInv, Control, NoTopology
<1>10. /\ repair'[p] = "done"
       /\ \A q \in Places \ {p} : /\ ask'[q] = ask[q] /\ call'[q] = call[q]
                                  /\ repair'[q] = repair[q] /\ settled'[q] = settled[q]
    BY <1>3, <1>5 DEF TypeInv, ProcessShape
<1>11. KeyOK(k)'
    BY <1>1, <1>5, <1>6, KeyAlone
<1>12. CallOK(p)'
    <2>1. /\ ask[p] \in Primaries /\ PlaceOf(ask[p]) = p /\ ask[p] \in started
          /\ p \in completed /\ p[1] \in frozen /\ HasResult(ask[p])
        BY <1>1, Answering
    <2> QED
        BY <1>1, <1>5, <1>10, <2>1 DEF CallOK, Active, HasResult, Open, Errors, RepairOf
<1>13. PlaceOK(p)'
    <2>1. Owned(k)'
        BY <1>1, <1>4, <1>5 DEF Owned, HasResult
    <2>2. PICK a, s : a = ask[p] /\ s = settled[p]
        OBVIOUS
    <2>3. /\ ask'[p] = a /\ settled'[p] = s /\ parent'[p] = parent[p]
          /\ call'[p] = "done" => call[p] = "done" /\ a = ask[p]
        BY <1>1, <1>5, <2>2
    <2> QED
        BY <1>1, <1>6, <2>1, <2>2, <2>3, PlaceNext
<1>14. \A j \in Primaries : fork'[j] # <<>> => j \in started'
    BY <1>5 DEF TypeInv
<1> QED
    BY <1>1, <1>5, <1>6, <1>7, <1>8, <1>9, <1>10, <1>11, <1>12, <1>13, <1>14, SlotTyped

LEMMA TypeNext == ASSUME TypeInv, [Next]_vars PROVE TypeInv' /\ Kept
<1>1. CASE UNCHANGED vars
    <2>1. UNCHANGED store /\ UNCHANGED calls /\ UNCHANGED <<history, pc, gen, process>>
        BY <1>1 DEF vars
    <2>2. ProcessShape' /\ Control'
        BY <2>1 DEF TypeInv, ProcessShape, Control, NoTopology, store, process, calls
    <2>3. ASSUME NEW p \in Places PROVE CallOK(p)'
        BY <2>1 DEF TypeInv, CallOK, Active, HasResult, Open, store, process, calls, RepairOf
    <2> QED
        BY <2>1, <2>2, <2>3, StoreAlone
<1>2. CASE OpenPool \/ Stop \/ FreezeTopology \/ CloseCoordinator \/ BeginGeneration
           \/ EndGeneration
    BY <1>2, OpenPoolTyped, StopTyped, FreezeTopologyTyped, CloseCoordinatorTyped,
       BeginGenerationTyped, EndGenerationTyped
<1>3. ASSUME NEW w \in Lanes, ForkRoot(w) \/ StartLane(w) PROVE TypeInv' /\ Kept
    BY <1>3, ForkRootTyped, StartLaneTyped
<1>4. ASSUME NEW p \in Places, NEW k \in KeysOf(p), AskRoot(p, k) \/ ForkChild(p, k)
      PROVE  TypeInv' /\ Kept
    BY <1>4, AskRootTyped, ForkChildTyped
<1>5. ASSUME NEW p \in Places,
             AskChild(p) \/ EndTurn(p) \/ Record(p) \/ TakeAnswer(p)
             \/ Repair(p) \/ EndRepair(p) \/ RecordRepair(p) \/ TakeRepair(p)
      PROVE  TypeInv' /\ Kept
    BY <1>5, AskChildTyped, EndTurnTyped, RecordTyped, TakeAnswerTyped, RepairTyped,
       EndRepairTyped, RecordRepairTyped, TakeRepairTyped
<1> QED
    BY <1>1, <1>2, <1>3, <1>4, <1>5 DEF Next, Call

(* The type invariant, for any slots, lanes, generations and processes.        *)
THEOREM Invariant == Spec => []TypeInv
<1>1. Init => TypeInv
    BY TypeInit
<1>2. TypeInv /\ [Next]_vars => TypeInv'
    BY TypeNext
<1> QED
    BY <1>1, <1>2, PTL DEF Spec

(* The state has its shape, and every retained answer belongs to a signed request
   of a started key: TypeOK of ProviderLanes.                                  *)
THEOREM TypeCorrect == Spec => []TypeOK
<1>1. TypeInv => TypeOK
    <2> SUFFICES ASSUME TypeInv PROVE TypeOK
        OBVIOUS
    <2>1. ASSUME NEW k \in Keys, HasResult(k)
          PROVE  /\ k \in started /\ result[k].thread \in Threads
                 /\ result[k].turns = Append(contract[k], k)
        BY <2>1 DEF TypeInv, KeyOK
    <2>2. ASSUME NEW p \in Places PROVE call[p] \in Calls /\ repair[p] \in RepairCalls
        BY DEF TypeInv, ProcessShape
    <2> QED
        BY <2>1, <2>2 DEF TypeInv, StoreShape, ProcessShape, TypeOK, Calls, RepairCalls
<1> QED
    BY <1>1, Invariant, PTL

-----------------------------------------------------------------------------
(***************************************************************************)
(* A thread has one home: a root thread its lane, a fork the lane of the   *)
(* slot that asked for it.                                                 *)
(***************************************************************************)
Home(t) == IF t \in RootThreads THEN t[2] ELSE Lane(PlaceOf(t))

\* The threads a lane has, in its provider-state or in its process.
Held(w) == saved[w] \cup loaded[w]

ThreadOK(t) ==
    /\ owner[t] # 0 => owner[t] = Home(t)
    /\ t \in Primaries /\ owner[t] # 0 => t \in started
    /\ \A w \in Lanes : t \in Held(w) =>
          Home(t) = w /\ (t \in Primaries => t \in started)

\* A retained answer is on the root thread of its lane, or on a fork of its slot.
ResultOK(k) ==
    HasResult(k) =>
        IF IsRoot(PlaceOf(k)) THEN result[k].thread = Root(Lane(PlaceOf(k)))
        ELSE /\ result[k].thread \in Primaries /\ PlaceOf(result[k].thread) = PlaceOf(k)
             /\ result[k].thread \in started
             /\ k \in Primaries => result[k].thread = k

HomeInv ==
    /\ \A t \in Threads : ThreadOK(t)
    /\ \A k \in Keys : ResultOK(k)

\* No thread changes its owner.
OwnersStay == \A t \in Threads : owner[t] # 0 => owner'[t] = owner[t]

LEMMA LaneStays ==
    ASSUME TypeInv, Kept, OwnersStay, NEW p \in Places, p[1] \in frozen
    PROVE  Lane(p)' = Lane(p) /\ (IsRoot(p)' <=> IsRoot(p))
<1>1. parent'[p] = parent[p]
    BY DEF Kept
<1>2. CASE parent[p] = None
    BY <1>1, <1>2 DEF Lane, IsRoot
<1>3. CASE parent[p] # None
    <2>1. Owned(parent[p])
        BY <1>3 DEF TypeInv, PlaceOK
    <2>2. result'[parent[p]] = result[parent[p]] /\ result[parent[p]].thread \in Threads
        BY <2>1 DEF Owned, Kept, TypeInv, KeyOK
    <2>3. owner'[result[parent[p]].thread] = owner[result[parent[p]].thread]
        BY <2>1, <2>2 DEF Owned, OwnersStay
    <2> QED
        BY <1>1, <1>3, <2>2, <2>3 DEF Lane, IsRoot
<1> QED
    BY <1>2, <1>3

LEMMA HomeStays ==
    ASSUME TypeInv, Kept, OwnersStay, NEW t \in Threads, t \in Primaries => t \in started
    PROVE  Home(t)' = Home(t)
<1>1. CASE t \in RootThreads
    BY <1>1 DEF Home
<1>2. CASE t \in Primaries
    <2>1. t \in Keys /\ t[1] \in frozen
        BY <1>2, RootsAndForks DEF TypeInv, KeyOK
    <2>2. PlaceOf(t) \in Places /\ PlaceOf(t)[1] \in frozen
        BY <2>1, PlaceOfAKey
    <2>3. PICK p \in Places : p = PlaceOf(t) /\ p[1] \in frozen
        BY <2>2
    <2>4. Lane(p)' = Lane(p)
        BY <2>3, LaneStays
    <2> QED
        BY <1>2, <2>3, <2>4, RootsAndForks DEF Home, PlaceOf
<1> QED
    BY <1>1, <1>2 DEF Threads

\* A step that leaves the record of a thread alone, or adds its owner or its lane.
LEMMA ThreadNext ==
    ASSUME TypeInv, HomeInv, Kept, OwnersStay, NEW t \in Threads, NEW h,
           h = Home(t),
           owner'[t] = owner[t] \/ (owner'[t] = h /\ (t \in Primaries => t \in started)),
           \A w \in Lanes : t \in Held(w)' =>
              t \in Held(w) \/ (w = h /\ (t \in Primaries => t \in started))
    PROVE  ThreadOK(t)'
<1>1. ThreadOK(t)
    BY DEF HomeInv
<1>2. (t \in Primaries => t \in started) => Home(t)' = h
    BY HomeStays
<1>3. started \subseteq started'
    BY DEF Kept
<1>4. owner'[t] # 0 => /\ t \in Primaries => t \in started
                       /\ owner'[t] = h
    BY <1>1 DEF ThreadOK
<1>5. ASSUME NEW w \in Lanes, t \in Held(w)'
      PROVE  w = h /\ (t \in Primaries => t \in started)
    BY <1>1, <1>5 DEF ThreadOK
<1> QED
    BY <1>2, <1>3, <1>4, <1>5 DEF ThreadOK

LEMMA ResultAlone ==
    ASSUME TypeInv, HomeInv, Kept, OwnersStay, NEW k \in Keys, result'[k] = result[k]
    PROVE  ResultOK(k)'
<1>1. CASE HasResult(k)
    <2>1. k[1] \in frozen /\ ResultOK(k)
        BY <1>1 DEF TypeInv, KeyOK, HomeInv
    <2>2. PICK p \in Places : p = PlaceOf(k) /\ p[1] \in frozen
        BY <2>1, PlaceOfAKey
    <2>3. Lane(p)' = Lane(p) /\ (IsRoot(p)' <=> IsRoot(p))
        BY <2>2, LaneStays
    <2>4. PlaceOf(k)' = p
        BY <2>2 DEF PlaceOf
    <2>5. started \subseteq started'
        BY DEF Kept
    <2> QED
        BY <1>1, <2>1, <2>2, <2>3, <2>4, <2>5 DEF ResultOK, PlaceOf, HasResult
<1>2. CASE ~HasResult(k)
    BY <1>2 DEF ResultOK, HasResult
<1> QED
    BY <1>1, <1>2

LEMMA OwnersAlone == ASSUME UNCHANGED owner PROVE OwnersStay
BY DEF OwnersStay

\* A step that loads, saves, answers and records nothing.
LEMMA HomeAlone ==
    ASSUME TypeInv, HomeInv, Kept, UNCHANGED <<owner, saved, result>>,
           \A w \in Lanes : loaded'[w] \subseteq loaded[w]
    PROVE  HomeInv' /\ OwnersStay
<1>1. OwnersStay
    BY OwnersAlone
<1>2. ASSUME NEW t \in Threads PROVE ThreadOK(t)'
    <2>1. PICK h : h = Home(t)
        OBVIOUS
    <2>2. \A w \in Lanes : t \in Held(w)' => t \in Held(w)
        BY DEF Held
    <2> QED
        BY <1>1, <2>1, <2>2, ThreadNext
<1>3. ASSUME NEW k \in Keys PROVE ResultOK(k)'
    BY <1>1, ResultAlone
<1> QED
    BY <1>1, <1>2, <1>3 DEF HomeInv

LEMMA HomeInit == ASSUME Init PROVE HomeInv
BY RootsAndForks DEF Init, HomeInv, Held, ThreadOK, ResultOK, HasResult

LEMMA FreezeTopologyHome ==
    ASSUME TypeInv, HomeInv, Kept, FreezeTopology
    PROVE  HomeInv' /\ OwnersStay
<1>1. ASSUME NEW t \in Threads
      PROVE  owner'[t] = owner[t] \/ (owner'[t] = Home(t) /\ t \notin Primaries)
    BY RootsAndForks DEF FreezeTopology, Home
<1>2. OwnersStay
    <2>1. ASSUME NEW t \in Threads, owner[t] # 0 PROVE owner'[t] = owner[t]
        BY <1>1, <2>1 DEF HomeInv, ThreadOK
    <2> QED
        BY <2>1 DEF OwnersStay
<1>3. ASSUME NEW t \in Threads PROVE ThreadOK(t)'
    <2>1. PICK h : h = Home(t)
        OBVIOUS
    <2>2. owner'[t] = owner[t] \/ (owner'[t] = h /\ (t \in Primaries => t \in started))
        BY <1>1, <2>1
    <2>3. \A w \in Lanes : Held(w)' = Held(w)
        BY DEF FreezeTopology, process, Held
    <2> QED
        BY <1>2, <2>1, <2>2, <2>3, ThreadNext
<1>4. ASSUME NEW k \in Keys PROVE ResultOK(k)'
    BY <1>2, ResultAlone DEF FreezeTopology
<1> QED
    BY <1>2, <1>3, <1>4 DEF HomeInv

LEMMA StartLaneHome ==
    ASSUME TypeInv, HomeInv, Kept, NEW v \in Lanes, StartLane(v)
    PROVE  HomeInv' /\ OwnersStay
<1>1. OwnersStay
    BY OwnersAlone DEF StartLane
<1>2. PICK some \in SUBSET Threads : some = saved[v] \cup {Root(v)}
    BY RootOfALane DEF TypeInv, StoreShape
<1>3. saved' = [saved EXCEPT ![v] = some] /\ loaded' = [loaded EXCEPT ![v] = some]
    BY <1>2 DEF StartLane, TypeInv, StoreShape
<1>4. ASSUME NEW t \in Threads PROVE ThreadOK(t)'
    <2>1. PICK h : h = Home(t)
        OBVIOUS
    <2>2. owner'[t] = owner[t]
        BY DEF StartLane
    <2>3. ASSUME NEW w \in Lanes, t \in Held(w)'
          PROVE  t \in Held(w) \/ (w = h /\ (t \in Primaries => t \in started))
        <3>1. CASE w = v /\ t = Root(v)
            BY <2>1, <3>1, RootOfALane DEF Home
        <3>2. CASE ~(w = v /\ t = Root(v))
            BY <1>2, <1>3, <2>3, <3>2 DEF TypeInv, StoreShape, ProcessShape, Held
        <3> QED
            BY <3>1, <3>2
    <2> QED
        BY <1>1, <2>1, <2>2, <2>3, ThreadNext
<1>5. ASSUME NEW k \in Keys PROVE ResultOK(k)'
    BY <1>1, ResultAlone DEF StartLane
<1> QED
    BY <1>1, <1>4, <1>5 DEF HomeInv

LEMMA ForkChildHome ==
    ASSUME TypeInv, HomeInv, Kept, NEW p \in Places, NEW k \in KeysOf(p), ForkChild(p, k)
    PROVE  HomeInv' /\ OwnersStay
<1>1. OwnersStay
    BY OwnersAlone DEF ForkChild
<1>2. PICK w \in Lanes, source \in Result,
           how \in {"already_loaded", "raised", "forked", "fork_crossed"},
           has \in SUBSET Threads, makes \in SUBSET {k} :
        /\ w = Lane(p) /\ source = result[parent[p]] /\ source.thread \in Threads
        /\ call' = [call EXCEPT ![p] = how]
        /\ has \in {{}, {source.thread}} /\ makes = IF how = "forked" /\ fork[k] = <<>> THEN {k} ELSE {}
        /\ registered' = [registered EXCEPT ![w] = registered[w] \cup has]
        /\ loaded' = [loaded EXCEPT ![w] = loaded[w] \cup has \cup makes]
        /\ saved' = [saved EXCEPT ![w] = saved[w] \cup has]
        /\ \/ /\ how = "forked" /\ fork[k] = <<>>
              /\ history' = [history EXCEPT ![k] = source.turns]
              /\ fork' = [fork EXCEPT ![k] = source.turns]
              /\ known' = [known EXCEPT ![k] = source.turns]
           \/ ~(how = "forked" /\ fork[k] = <<>>) /\ UNCHANGED <<history, fork, known>>
    BY Forking, ZenonT(30)
<1>12. PICK from \in Threads : from = source.thread /\ w = owner[from] /\ has \in {{}, {from}}
    BY <1>2 DEF ForkChild, IsRoot, Lane
<1>3. /\ k \in Primaries /\ PlaceOf(k) = p /\ p[1] \in frozen /\ started' = started \cup {k}
    BY Asked DEF ForkChild
<1>4. ASSUME NEW v \in Lanes, NEW t \in Threads, t \in Held(v)'
      PROVE  t \in Held(v) \/ (v = w /\ t \in {from, k})
    <2>1. has \cup makes \subseteq {from, k}
        BY <1>12
    <2>2. CASE t \in saved'[v]
        BY <1>2, <2>1, <2>2 DEF TypeInv, StoreShape, Held
    <2>3. CASE t \in loaded'[v]
        BY <1>2, <2>1, <2>3 DEF TypeInv, ProcessShape, Held
    <2> QED
        BY <1>4, <2>2, <2>3 DEF Held
<1>5. w # 0
    BY Bounds
<1>6. owner' = owner
    BY DEF ForkChild
<1>7. ASSUME NEW t \in Threads, t # k \/ k \in started PROVE ThreadOK(t)'
    <2>1. PICK h : h = Home(t)
        OBVIOUS
    <2>2. t = from => w = h /\ (t \in Primaries => t \in started)
        BY <1>5, <1>12, <2>1 DEF HomeInv, ThreadOK
    <2>3. t = k => w = h /\ (t \in Primaries => t \in started)
        BY <1>2, <1>3, <1>7, <2>1, RootsAndForks DEF Home
    <2>4. \A v \in Lanes : t \in Held(v)' =>
              t \in Held(v) \/ (v = h /\ (t \in Primaries => t \in started))
        BY <1>4, <2>2, <2>3
    <2> QED
        BY <1>1, <1>6, <2>1, <2>4, ThreadNext
<1>8. ASSUME k \notin started PROVE ThreadOK(k)'
    <2>1. ThreadOK(k)
        BY <1>3, RootsAndForks DEF HomeInv
    <2>2. owner[k] = 0 /\ \A v \in Lanes : k \notin Held(v)
        BY <1>3, <1>8, <2>1 DEF ThreadOK
    <2>3. ASSUME NEW v \in Lanes, k \in Held(v)' PROVE v = w
        BY <1>3, <1>4, <2>2, <2>3, RootsAndForks
    <2>4. Home(k)' = w
        <3>1. Lane(p)' = w
            BY <1>1, <1>2, <1>3, LaneStays
        <3>2. k \notin RootThreads /\ PlaceOf(k)' = p
            BY <1>3, RootsAndForks DEF PlaceOf
        <3> QED
            BY <1>3, <3>1, <3>2 DEF Home
    <2> QED
        BY <1>3, <1>6, <2>2, <2>3, <2>4 DEF ThreadOK
<1>9. ASSUME NEW j \in Keys PROVE ResultOK(j)'
    BY <1>1, ResultAlone DEF ForkChild
<1>10. \A t \in Threads : ThreadOK(t)'
    BY <1>7, <1>8
<1> QED
    BY <1>1, <1>9, <1>10 DEF HomeInv

\* The fork of a child is saved for the lane of its slot.
LEMMA AskChildHome ==
    ASSUME TypeInv, HomeInv, Kept, NEW p \in Places, AskChild(p)
    PROVE  HomeInv' /\ OwnersStay
<1>1. /\ UNCHANGED <<owner, loaded, result>> /\ call[p] = "forked"
      /\ saved' = [saved EXCEPT ![Lane(p)] = saved[Lane(p)] \cup {ask[p]}]
    BY DEF AskChild, process
<1>2. PICK k \in Primaries : k = ask[p] /\ PlaceOf(k) = p /\ k \in started
    BY <1>1 DEF TypeInv, CallOK
<1>3. OwnersStay
    BY <1>1, OwnersAlone
<1>4. ASSUME NEW t \in Threads PROVE ThreadOK(t)'
    <2>1. PICK h : h = Home(t)
        OBVIOUS
    <2>2. t = k => h = Lane(p) /\ t \in started
        BY <1>2, <2>1, RootsAndForks DEF Home
    <2>3. ASSUME NEW w \in Lanes, t \in Held(w)'
          PROVE  t \in Held(w) \/ (w = h /\ (t \in Primaries => t \in started))
        BY <1>1, <1>2, <2>2, <2>3 DEF TypeInv, StoreShape, Held
    <2> QED
        BY <1>1, <1>3, <2>1, <2>3, ThreadNext
<1>5. ASSUME NEW j \in Keys PROVE ResultOK(j)'
    BY <1>1, <1>3, ResultAlone
<1> QED
    BY <1>3, <1>4, <1>5 DEF HomeInv

LEMMA AnsweredResult ==
    ASSUME NEW k, NEW t, Answered(k, t), result \in [Keys -> Result], k \in Keys
    PROVE  result'[k].thread = t
BY DEF Answered

\* The end of a turn, of a call or of a repair: at most its answer is written.
LEMMA AnswerHome ==
    ASSUME TypeInv, HomeInv, Kept, UNCHANGED <<owner, saved, loaded>>,
           NEW p \in Places, NEW k \in Keys, PlaceOf(k) = p, k[1] \in frozen,
           NEW t \in Threads,
           \A j \in Keys \ {k} : result'[j] = result[j],
           result'[k] = result[k] \/ result'[k].thread = t,
           IsRoot(p) => t = Root(Lane(p)),
           ~IsRoot(p) => /\ t \in Primaries /\ PlaceOf(t) = p /\ t \in started
                         /\ k \in Primaries => t = k
    PROVE  HomeInv' /\ OwnersStay
<1>1. OwnersStay
    BY OwnersAlone
<1>2. ASSUME NEW u \in Threads PROVE ThreadOK(u)'
    <2>1. PICK h : h = Home(u)
        OBVIOUS
    <2>2. \A w \in Lanes : Held(w)' = Held(w)
        BY DEF Held
    <2> QED
        BY <1>1, <2>1, <2>2, ThreadNext
<1>3. ASSUME NEW j \in Keys PROVE ResultOK(j)'
    <2>1. CASE result'[j] = result[j]
        BY <1>1, <2>1, ResultAlone
    <2>2. CASE result'[j] # result[j]
        <3>1. j = k /\ result'[k].thread = t
            BY <2>2
        <3>2. p[1] \in frozen
            BY PlaceOfAKey
        <3>3. Lane(p)' = Lane(p) /\ (IsRoot(p)' <=> IsRoot(p))
            BY <1>1, <3>2, LaneStays
        <3>4. PlaceOf(k)' = p
            BY DEF PlaceOf
        <3>5. started \subseteq started'
            BY DEF Kept
        <3>6. CASE IsRoot(p)
            BY <3>1, <3>3, <3>4, <3>6 DEF ResultOK, PlaceOf
        <3>7. CASE ~IsRoot(p)
            BY <3>1, <3>3, <3>4, <3>5, <3>7 DEF ResultOK, PlaceOf
        <3> QED
            BY <3>6, <3>7
    <2> QED
        BY <2>1, <2>2
<1> QED
    BY <1>1, <1>2, <1>3 DEF HomeInv

LEMMA EndTurnHome ==
    ASSUME TypeInv, HomeInv, Kept, NEW p \in Places, EndTurn(p)
    PROVE  HomeInv' /\ OwnersStay
<1>1. PICK k \in Primaries :
        /\ k = ask[p] /\ PlaceOf(k) = p /\ k \in started /\ k \in Keys /\ p[1] \in frozen
    BY RootsAndForks DEF EndTurn, TypeInv, CallOK
<1>2. PICK t \in Threads : t = ThreadOf(p)
    BY <1>1, LaneIsALane, RootOfALane, RootsAndForks DEF ThreadOf
<1>3. Answered(k, t) \/ Lost(k, t, Lane(p))
    BY <1>1, <1>2 DEF EndTurn
<1>4. \A j \in Keys \ {k} : result'[j] = result[j]
    BY <1>3 DEF Answered, Lost, TypeInv, StoreShape
<1>5. result'[k] = result[k] \/ result'[k].thread = t
    <2>1. CASE Answered(k, t)
        BY <1>1, <2>1, AnsweredResult DEF TypeInv, StoreShape
    <2>2. CASE Lost(k, t, Lane(p))
        BY <2>2 DEF Lost
    <2> QED
        BY <1>3, <2>1, <2>2
<1>6. /\ IsRoot(p) => t = Root(Lane(p))
      /\ ~IsRoot(p) => t = k
    BY <1>1, <1>2 DEF ThreadOf
<1>7. k[1] \in frozen
    BY <1>1, PlaceOfAKey
<1>8. UNCHANGED <<owner, saved, loaded>>
    BY DEF EndTurn
<1> QED
    BY <1>1, <1>4, <1>5, <1>6, <1>7, <1>8, AnswerHome

LEMMA EndRepairHome ==
    ASSUME TypeInv, HomeInv, Kept, NEW p \in Places, EndRepair(p)
    PROVE  HomeInv' /\ OwnersStay
<1>1. PICK k \in Repairs :
        /\ k = RepairOf(p) /\ k \in Keys /\ PlaceOf(k) = p /\ k \notin Primaries
        /\ call[p] = "done"
    BY Repairing DEF EndRepair
<1>2. PICK t \in Threads : t = result[ask[p]].thread
    BY <1>1, Answering
<1>3. Answered(k, t) \/ Lost(k, t, owner[t])
    BY <1>1, <1>2 DEF EndRepair
<1>4. \A j \in Keys \ {k} : result'[j] = result[j]
    BY <1>3 DEF Answered, Lost, TypeInv, StoreShape
<1>5. result'[k] = result[k] \/ result'[k].thread = t
    <2>1. CASE Answered(k, t)
        BY <1>1, <2>1, AnsweredResult DEF TypeInv, StoreShape
    <2>2. CASE Lost(k, t, owner[t])
        BY <2>2 DEF Lost
    <2> QED
        BY <1>3, <2>1, <2>2
<1>6. /\ IsRoot(p) => t = Root(Lane(p))
      /\ ~IsRoot(p) => t \in Primaries /\ PlaceOf(t) = p /\ t \in started
    <2>1. ask[p] \in Keys /\ HasResult(ask[p]) /\ PlaceOf(ask[p]) = p
        BY <1>1, Answering
    <2> QED
        BY <1>2, <2>1 DEF HomeInv, ResultOK
<1>7. k[1] \in frozen
    BY <1>1, PlaceOfAKey, Answering
<1>8. UNCHANGED <<owner, saved, loaded>>
    BY DEF EndRepair
<1> QED
    BY <1>1, <1>4, <1>5, <1>6, <1>7, <1>8, AnswerHome

\* An answer is recorded for the lane its thread lives on.
LEMMA RecordsHome ==
    ASSUME TypeInv, HomeInv, Kept, NEW k \in Keys, HasResult(k),
           Records(k, Lane(PlaceOf(k))), UNCHANGED <<saved, loaded, result>>
    PROVE  HomeInv' /\ OwnersStay
<1>1. PICK w \in Lanes : w = Lane(PlaceOf(k))
    BY PlaceOfAKey, LaneIsALane
<1>2. PICK t \in Threads : t = result[k].thread
    BY DEF TypeInv, KeyOK
<1>3. Home(t) = w /\ (t \in Primaries => t \in started)
    BY <1>1, <1>2, RootOfALane, RootsAndForks DEF HomeInv, ResultOK, Home
<1>4. owner' = [owner EXCEPT ![t] = w]
    BY <1>1, <1>2 DEF Records
<1>5. OwnersStay
    <2>1. owner[t] # 0 => owner[t] = w
        BY <1>3 DEF HomeInv, ThreadOK
    <2> QED
        BY <1>4, <2>1 DEF OwnersStay, TypeInv, StoreShape
<1>6. ASSUME NEW u \in Threads PROVE ThreadOK(u)'
    <2>1. PICK h : h = Home(u)
        OBVIOUS
    <2>2. owner'[u] = owner[u] \/ (owner'[u] = h /\ (u \in Primaries => u \in started))
        BY <1>3, <1>4, <2>1 DEF TypeInv, StoreShape
    <2>3. \A v \in Lanes : Held(v)' = Held(v)
        BY DEF Held
    <2> QED
        BY <1>5, <2>1, <2>2, <2>3, ThreadNext
<1>7. ASSUME NEW j \in Keys PROVE ResultOK(j)'
    BY <1>5, ResultAlone
<1> QED
    BY <1>5, <1>6, <1>7 DEF HomeInv

LEMMA RecordHome ==
    ASSUME TypeInv, HomeInv, Kept, NEW p \in Places, Record(p) \/ RecordRepair(p)
    PROVE  HomeInv' /\ OwnersStay
<1>1. PICK k \in Keys : /\ PlaceOf(k) = p /\ HasResult(k) /\ Records(k, Lane(p))
                        /\ UNCHANGED <<saved, loaded, result>>
    <2>1. CASE Record(p)
        <3>1. ask[p] \in Keys /\ PlaceOf(ask[p]) = p /\ HasResult(ask[p])
            BY <2>1, RootsAndForks DEF Record, TypeInv, CallOK
        <3> QED
            BY <2>1, <3>1 DEF Record, process
    <2>2. CASE RecordRepair(p)
        <3>1. RepairOf(p) \in Keys /\ PlaceOf(RepairOf(p)) = p /\ HasResult(RepairOf(p))
            BY <2>2, Repairing DEF RecordRepair
        <3> QED
            BY <2>2, <3>1 DEF RecordRepair, process
    <2> QED
        BY <2>1, <2>2
<1> QED
    BY <1>1, RecordsHome

LEMMA HomeNext ==
    ASSUME TypeInv, HomeInv, [Next]_vars
    PROVE  TypeInv' /\ Kept /\ HomeInv' /\ OwnersStay
<1>1. TypeInv' /\ Kept
    BY TypeNext
<1>2. CASE UNCHANGED vars \/ OpenPool \/ Stop \/ CloseCoordinator \/ BeginGeneration \/ EndGeneration
    <2>1. UNCHANGED <<owner, saved, result>> /\ \A w \in Lanes : loaded'[w] \subseteq loaded[w]
        BY <1>2 DEF vars, store, process, OpenPool, Stop, CloseCoordinator, BeginGeneration,
                    EndGeneration
    <2> QED
        BY <1>1, <2>1, HomeAlone
<1>3. CASE FreezeTopology
    BY <1>1, <1>3, FreezeTopologyHome
<1>4. ASSUME NEW w \in Lanes, ForkRoot(w) \/ StartLane(w) PROVE HomeInv' /\ OwnersStay
    <2>1. CASE ForkRoot(w)
        <3>1. UNCHANGED <<owner, saved, result, loaded>>
            BY <2>1 DEF ForkRoot
        <3> QED
            BY <1>1, <3>1, HomeAlone
    <2>2. CASE StartLane(w)
        BY <1>1, <2>2, StartLaneHome
    <2> QED
        BY <1>4, <2>1, <2>2
<1>5. ASSUME NEW p \in Places, NEW k \in KeysOf(p), AskRoot(p, k) \/ ForkChild(p, k)
      PROVE  HomeInv' /\ OwnersStay
    <2>1. CASE AskRoot(p, k)
        <3>1. UNCHANGED <<owner, saved, result, loaded>>
            BY <2>1 DEF AskRoot
        <3> QED
            BY <1>1, <3>1, HomeAlone
    <2>2. CASE ForkChild(p, k)
        BY <1>1, <2>2, ForkChildHome
    <2> QED
        BY <1>5, <2>1, <2>2
<1>6. ASSUME NEW p \in Places, TakeAnswer(p) \/ Repair(p) \/ TakeRepair(p)
      PROVE  HomeInv' /\ OwnersStay
    <2>1. UNCHANGED <<owner, saved, result, loaded>>
        BY <1>6 DEF TakeAnswer, Repair, TakeRepair, Settles, process
    <2> QED
        BY <1>1, <2>1, HomeAlone
<1>7. ASSUME NEW p \in Places,
             AskChild(p) \/ EndTurn(p) \/ EndRepair(p) \/ Record(p) \/ RecordRepair(p)
      PROVE  HomeInv' /\ OwnersStay
    BY <1>1, <1>7, AskChildHome, EndTurnHome, EndRepairHome, RecordHome
<1> QED
    BY <1>1, <1>2, <1>3, <1>4, <1>5, <1>6, <1>7 DEF Next, Call

(* What the client writes down is written once: an answer, the turns its request
   was made after, a fork, the owner of a thread, a frozen parent and the end of a
   slot are never changed, by any of the processes that open the workspace.    *)
WrittenOnce == Kept /\ OwnersStay

THEOREM NothingRewritten == Spec => [][WrittenOnce]_vars
<1>1. Init => TypeInv /\ HomeInv
    BY TypeInit, HomeInit
<1>2. TypeInv /\ HomeInv /\ [Next]_vars => TypeInv' /\ HomeInv' /\ WrittenOnce
    BY HomeNext DEF WrittenOnce
<1> QED
    BY <1>1, <1>2, PTL DEF Spec

(* No thread is loaded by two processes: ThreadHasOneProcess of ProviderLanes. *)
THEOREM OneProcess == Spec => []ThreadHasOneProcess
<1>1. TypeInv /\ HomeInv => ThreadHasOneProcess
    <2> SUFFICES ASSUME TypeInv, HomeInv PROVE ThreadHasOneProcess
        OBVIOUS
    <2>1. ASSUME NEW w \in Lanes PROVE loaded[w] \cap coordinator = {}
        BY DEF TypeInv, Control, ProcessShape
    <2>2. ASSUME NEW v \in Lanes, NEW w \in Lanes, v # w PROVE loaded[v] \cap loaded[w] = {}
        <3>1. SUFFICES ASSUME NEW t \in loaded[v], t \in loaded[w] PROVE FALSE
            OBVIOUS
        <3>2. t \in Threads /\ t \in Held(v) /\ t \in Held(w)
            BY <3>1 DEF TypeInv, ProcessShape, Held
        <3> QED
            BY <2>2, <3>2 DEF HomeInv, ThreadOK
    <2> QED
        BY <2>1, <2>2 DEF ThreadHasOneProcess, Alive
<1>2. Init => TypeInv /\ HomeInv
    BY TypeInit, HomeInit
<1>3. TypeInv /\ HomeInv /\ [Next]_vars => TypeInv' /\ HomeInv'
    BY HomeNext
<1> QED
    BY <1>1, <1>2, <1>3, PTL DEF Spec

-----------------------------------------------------------------------------
(***************************************************************************)
(* Prefixes.                                                               *)
(***************************************************************************)
LEMMA PrefixByTurns ==
    ASSUME NEW s \in Seq(Turn), NEW t \in Seq(Turn)
    PROVE  IsPrefix(s, t) <=> /\ Len(s) <= Len(t)
                              /\ \A i \in 1..Len(s) : s[i] = t[i]
<1>1. Len(s) \in Nat /\ Len(t) \in Nat
    OBVIOUS
<1>2. ASSUME Len(s) <= Len(t)
      PROVE  SubSeq(s, 1, Len(s)) = SubSeq(t, 1, Len(s)) <=> \A i \in 1..Len(s) : s[i] = t[i]
    <2>1. /\ SubSeq(s, 1, Len(s)) = [i \in 1..Len(s) |-> s[i]]
          /\ SubSeq(t, 1, Len(s)) = [i \in 1..Len(s) |-> t[i]]
        BY <1>1, <1>2
    <2> QED
        BY <2>1
<1> QED
    BY <1>2 DEF IsPrefix

LEMMA PrefixSelf == ASSUME NEW s \in Seq(Turn) PROVE IsPrefix(s, s)
BY PrefixByTurns

LEMMA PrefixGrows ==
    ASSUME NEW s \in Seq(Turn), NEW t \in Seq(Turn), NEW e \in Turn, IsPrefix(s, t)
    PROVE  IsPrefix(s, Append(t, e))
<1>0. /\ Append(t, e) \in Seq(Turn) /\ Len(Append(t, e)) = Len(t) + 1
      /\ \A i \in 1..Len(t) : Append(t, e)[i] = t[i]
    <2>1. Append(t, e) \in Seq(Turn) /\ Len(Append(t, e)) = Len(t) + 1
        BY Extended
    <2>2. ASSUME NEW i \in 1..Len(t) PROVE Append(t, e)[i] = t[i]
        BY AppendProperties
    <2> QED
        BY <2>1, <2>2
<1>1. PICK u \in Seq(Turn) : /\ u = Append(t, e) /\ Len(u) = Len(t) + 1
                            /\ \A i \in 1..Len(t) : u[i] = t[i]
    BY <1>0, Zenon
<1>2. Len(s) \in Nat /\ Len(t) \in Nat /\ Len(s) <= Len(t) /\ \A i \in 1..Len(s) : s[i] = t[i]
    BY PrefixByTurns
<1>3. Len(u) \in Nat /\ Len(s) <= Len(u)
    BY <1>1, <1>2
<1>4. \A i \in 1..Len(s) : i \in 1..Len(t)
    BY <1>2
<1>5. \A i \in 1..Len(s) : s[i] = u[i]
    BY <1>1, <1>2, <1>4, Zenon
<1>6. IsPrefix(s, u)
    BY <1>3, <1>5, PrefixByTurns
<1> QED
    BY <1>1, <1>6

LEMMA PrefixThrough ==
    ASSUME NEW s \in Seq(Turn), NEW t \in Seq(Turn), NEW u \in Seq(Turn),
           IsPrefix(s, t), IsPrefix(t, u)
    PROVE  IsPrefix(s, u)
<1>1. Len(s) \in Nat /\ Len(t) \in Nat /\ Len(u) \in Nat
    OBVIOUS
<1>2. /\ Len(s) <= Len(t) /\ \A i \in 1..Len(s) : s[i] = t[i]
      /\ Len(t) <= Len(u) /\ \A i \in 1..Len(t) : t[i] = u[i]
    BY PrefixByTurns
<1> QED
    BY <1>1, <1>2, PrefixByTurns

LEMMA PrefixesNest ==
    ASSUME NEW s \in Seq(Turn), NEW t \in Seq(Turn), NEW u \in Seq(Turn),
           IsPrefix(s, u), IsPrefix(t, u)
    PROVE  IsPrefix(s, t) \/ IsPrefix(t, s)
<1>1. Len(s) \in Nat /\ Len(t) \in Nat /\ Len(u) \in Nat
    OBVIOUS
<1>2. /\ Len(s) <= Len(u) /\ \A i \in 1..Len(s) : s[i] = u[i]
      /\ Len(t) <= Len(u) /\ \A i \in 1..Len(t) : t[i] = u[i]
    BY PrefixByTurns
<1> QED
    BY <1>1, <1>2, PrefixByTurns

\* What ends with a further turn is not a prefix.
LEMMA NoPrefixOfLess ==
    ASSUME NEW s \in Seq(Turn), NEW e \in Turn
    PROVE  ~IsPrefix(Append(s, e), s)
<1>1. PICK u \in Seq(Turn) : u = Append(s, e) /\ Len(u) = Len(s) + 1
    BY AppendProperties, Zenon
<1>2. Len(s) \in Nat
    OBVIOUS
<1>3. ~(Len(u) <= Len(s))
    BY <1>1, <1>2
<1>4. ~IsPrefix(u, s)
    BY <1>3, PrefixByTurns
<1> QED
    BY <1>1, <1>4

-----------------------------------------------------------------------------
(***************************************************************************)
(* A fork holds the turns of the answer it was made from.                  *)
(***************************************************************************)
ForkOK(k) ==
    /\ fork[k] # <<>> => /\ parent[PlaceOf(k)] # None
                         /\ fork[k] = result[parent[PlaceOf(k)]].turns
                         /\ IsPrefix(fork[k], history[k])
    /\ (HasResult(k) /\ parent[PlaceOf(k)] # None) => fork[k] # <<>>

ForkInv ==
    /\ \A k \in Primaries : ForkOK(k)
    /\ \A p \in Places : (call[p] = "turn" /\ parent[p] # None) => fork[ask[p]] # <<>>

\* The thread of a fork only grows.
ForksGrow ==
    \A k \in Primaries : fork[k] # <<>> =>
        \/ history'[k] = history[k]
        \/ \E e \in Turn : history'[k] = Append(history[k], e)

\* The turns of a parent stay what they were.
LEMMA ParentStays ==
    ASSUME TypeInv, Kept, NEW p \in Places, p[1] \in frozen
    PROVE  /\ parent'[p] = parent[p]
           /\ parent[p] # None => result'[parent[p]] = result[parent[p]]
BY DEF TypeInv, PlaceOK, Owned, Kept

LEMMA ForkStep ==
    ASSUME TypeInv, TypeInv', ForkInv, Kept, ForksGrow,
           \A k \in Primaries :
              \/ fork'[k] = fork[k]
              \/ /\ fork[k] = <<>> /\ fork'[k] = history'[k]
                 /\ parent[PlaceOf(k)] # None /\ k[1] \in frozen
                 /\ fork'[k] = result[parent[PlaceOf(k)]].turns,
           \A k \in Primaries :
              \/ result'[k] = result[k]
              \/ k[1] \in frozen /\ (parent[PlaceOf(k)] # None => fork[k] # <<>>),
           \A p \in Places : call'[p] = "turn" =>
              /\ p[1] \in frozen /\ ask'[p] \in Primaries
              /\ parent[p] # None => fork[ask'[p]] # <<>>
    PROVE  ForkInv'
<1>1. ASSUME NEW k \in Primaries PROVE ForkOK(k)'
    <2>1. PICK p \in Places : p = PlaceOf(k) /\ p[1] = k[1]
        BY PlaceOfAKey, RootsAndForks
    <2>2. PlaceOf(k)' = p
        BY <2>1 DEF PlaceOf
    <2>3. ForkOK(k) /\ k \in Keys
        BY RootsAndForks DEF ForkInv
    <2>4. history[k] \in Seq(Turn) /\ history'[k] \in Seq(Turn) /\ fork[k] \in Seq(Turn)
          /\ fork'[k] \in Seq(Turn)
        BY RootsAndForks DEF TypeInv, ProcessShape, StoreShape
    <2>5. fork[k] # <<>> => p[1] \in frozen
        BY <2>1, <2>3 DEF TypeInv, KeyOK
    <2>6. p[1] \in frozen => /\ parent'[p] = parent[p]
                             /\ parent[p] # None => result'[parent[p]] = result[parent[p]]
        BY ParentStays
    <2>7. ASSUME fork'[k] # <<>>
          PROVE  /\ parent'[p] # None /\ fork'[k] = result'[parent'[p]].turns
                 /\ IsPrefix(fork'[k], history'[k])
        <3>1. CASE fork[k] # <<>>
            <4>1. fork'[k] = fork[k]
                BY <3>1 DEF Kept
            <4>2. IsPrefix(fork[k], history[k])
                BY <2>3, <3>1 DEF ForkOK
            <4>3. IsPrefix(fork[k], history'[k])
                BY <2>4, <3>1, <4>2, PrefixGrows DEF ForksGrow
            <4> QED
                BY <2>1, <2>3, <2>5, <2>6, <3>1, <4>1, <4>3 DEF ForkOK
        <3>2. CASE fork[k] = <<>>
            <4>1. /\ fork'[k] = history'[k] /\ parent[p] # None /\ p[1] \in frozen
                  /\ fork'[k] = result[parent[p]].turns
                BY <2>1, <2>7, <3>2
            <4>2. IsPrefix(fork'[k], history'[k])
                BY <2>4, <4>1, PrefixSelf
            <4> QED
                BY <2>6, <4>1, <4>2
        <3> QED
            BY <3>1, <3>2
    <2>8. ASSUME HasResult(k)', parent'[p] # None PROVE fork'[k] # <<>>
        <3>1. CASE HasResult(k) /\ result'[k] = result[k]
            <4>1. p[1] \in frozen
                BY <2>1, <2>3, <3>1 DEF TypeInv, KeyOK
            <4>2. fork[k] # <<>>
                BY <2>1, <2>3, <2>6, <2>8, <3>1, <4>1 DEF ForkOK
            <4> QED
                BY <4>2 DEF Kept
        <3>2. CASE result'[k] # result[k]
            <4>1. p[1] \in frozen /\ (parent[p] # None => fork[k] # <<>>)
                BY <2>1, <3>2
            <4>2. fork[k] # <<>>
                BY <2>6, <2>8, <4>1
            <4> QED
                BY <4>2 DEF Kept
        <3> QED
            BY <2>8, <3>1, <3>2 DEF HasResult
    <2> QED
        BY <2>2, <2>7, <2>8 DEF ForkOK, PlaceOf
<1>2. ASSUME NEW p \in Places, call'[p] = "turn", parent'[p] # None PROVE fork'[ask'[p]] # <<>>
    <2>1. p[1] \in frozen /\ ask'[p] \in Primaries /\ (parent[p] # None => fork[ask'[p]] # <<>>)
        BY <1>2
    <2>2. fork[ask'[p]] # <<>>
        BY <1>2, <2>1, ParentStays
    <2> QED
        BY <2>1, <2>2 DEF Kept
<1> QED
    BY <1>1, <1>2 DEF ForkInv

\* A step that forks nothing and retains no answer.
LEMMA ForkAlone ==
    ASSUME TypeInv, TypeInv', ForkInv, Kept, ForksGrow, fork' = fork, result' = result,
           \A p \in Places : call'[p] = "turn" =>
              \/ call[p] = "turn" /\ ask'[p] = ask[p]
              \/ /\ p[1] \in frozen /\ ask'[p] \in Primaries
                 /\ parent[p] # None => fork[ask'[p]] # <<>>
    PROVE  ForkInv'
<1>1. ASSUME NEW p \in Places, call[p] = "turn"
      PROVE  p[1] \in frozen /\ ask[p] \in Primaries /\ (parent[p] # None => fork[ask[p]] # <<>>)
    BY <1>1 DEF TypeInv, CallOK, ForkInv
<1>2. \A p \in Places : call'[p] = "turn" =>
              /\ p[1] \in frozen /\ ask'[p] \in Primaries
              /\ parent[p] # None => fork[ask'[p]] # <<>>
    BY <1>1
<1> QED
    BY <1>2, ForkStep

LEMMA SameHistory == ASSUME history' = history PROVE ForksGrow
BY DEF ForksGrow

LEMMA ForkInit == ASSUME Init PROVE ForkInv
BY RootsAndForks DEF Init, NoCalls, ForkInv, ForkOK, HasResult

LEMMA StopForks ==
    ASSUME TypeInv, TypeInv', ForkInv, Kept, Stop
    PROVE  ForkInv'
<1>1. PICK held \in SUBSET InTurn :
        history' = [t \in Threads |->
            IF \E h \in held : h[1] = t
            THEN Append(history[t], (CHOOSE h \in held : h[1] = t)[2])
            ELSE history[t]]
    BY DEF Stop
<1>2. ASSUME NEW h \in InTurn PROVE h[2] \in Turn
    <2>1. CASE \E p \in Here : call[p] = "turn" /\ h = <<ThreadOf(p), ask[p]>>
        BY <2>1 DEF TypeInv, CallOK, Here, Turn, Keys
    <2>2. CASE \E p \in Here : h = <<result[ask[p]].thread, RepairOf(p)>>
        <3>1. PICK p \in Places : h = <<result[ask[p]].thread, RepairOf(p)>>
            BY <2>2 DEF Here
        <3>2. RepairOf(p) \in Turn /\ h[2] = RepairOf(p)
            BY <3>1, KeysOfAPlace DEF Turn, Keys
        <3> QED
            BY <3>2
    <2> QED
        BY <2>1, <2>2 DEF InTurn
<1>3. ForksGrow
    <2>1. ASSUME NEW k \in Primaries
          PROVE  history'[k] = history[k] \/ \E e \in Turn : history'[k] = Append(history[k], e)
        <3>1. k \in Threads
            BY RootsAndForks
        <3>2. CASE \E h \in held : h[1] = k
            <4>1. PICK h \in held : h = CHOOSE j \in held : j[1] = k
                BY <3>2
            <4>2. h[2] \in Turn
                BY <1>2, <4>1
            <4>3. history'[k] = Append(history[k], h[2])
                BY <1>1, <3>1, <3>2, <4>1
            <4> QED
                BY <4>2, <4>3
        <3>3. CASE ~\E h \in held : h[1] = k
            BY <1>1, <3>1, <3>3
        <3> QED
            BY <3>2, <3>3
    <2> QED
        BY <2>1 DEF ForksGrow
<1> QED
    BY <1>3, ForkAlone DEF Stop, store

LEMMA AskRootForks ==
    ASSUME TypeInv, TypeInv', ForkInv, Kept, NEW p \in Places, NEW k \in KeysOf(p), AskRoot(p, k)
    PROVE  ForkInv'
<1>1. Asks(p, k) /\ IsRoot(p) /\ history' = history /\ fork' = fork /\ result' = result
    BY DEF AskRoot
<1>2. k \in Primaries /\ p[1] \in frozen /\ ask' = [ask EXCEPT ![p] = k]
    BY <1>1, Asked
<1>3. \A q \in Places \ {p} : call'[q] = call[q] /\ ask'[q] = ask[q]
    BY <1>2 DEF AskRoot, TypeInv, ProcessShape
<1>4. ask'[p] = k /\ parent[p] = None
    BY <1>1, <1>2 DEF TypeInv, ProcessShape, IsRoot
<1> QED
    BY <1>1, <1>2, <1>3, <1>4, SameHistory, ForkAlone

LEMMA AskChildForks ==
    ASSUME TypeInv, TypeInv', ForkInv, Kept, NEW p \in Places, AskChild(p)
    PROVE  ForkInv'
<1>1. /\ history' = history /\ fork' = fork /\ result' = result /\ ask' = ask
      /\ call[p] = "forked"
    BY DEF AskChild
<1>2. \A q \in Places \ {p} : call'[q] = call[q]
    BY DEF AskChild, TypeInv, ProcessShape
<1>3. fork[ask[p]] # <<>> /\ p[1] \in frozen /\ ask[p] \in Primaries
    BY <1>1 DEF TypeInv, CallOK
<1> QED
    BY <1>1, <1>2, <1>3, SameHistory, ForkAlone

LEMMA ForkChildForks ==
    ASSUME TypeInv, TypeInv', ForkInv, Kept, NEW p \in Places, NEW k \in KeysOf(p), ForkChild(p, k)
    PROVE  ForkInv'
<1>1. /\ k \in Primaries /\ k \in Threads /\ PlaceOf(k) = p /\ p[1] \in frozen /\ k[1] = p[1]
      /\ parent[p] # None /\ result' = result /\ ask' = [ask EXCEPT ![p] = k]
    BY Asked, RootsAndForks DEF ForkChild, IsRoot
<1>2. PICK w \in Lanes, from \in Result,
           how \in {"already_loaded", "raised", "forked", "fork_crossed"},
           has \in SUBSET Threads, makes \in SUBSET {k} :
        /\ w = Lane(p) /\ from = result[parent[p]] /\ from.thread \in Threads
        /\ call' = [call EXCEPT ![p] = how]
        /\ has \in {{}, {from.thread}} /\ makes = IF how = "forked" /\ fork[k] = <<>> THEN {k} ELSE {}
        /\ registered' = [registered EXCEPT ![w] = registered[w] \cup has]
        /\ loaded' = [loaded EXCEPT ![w] = loaded[w] \cup has \cup makes]
        /\ saved' = [saved EXCEPT ![w] = saved[w] \cup has]
        /\ \/ /\ how = "forked" /\ fork[k] = <<>>
              /\ history' = [history EXCEPT ![k] = from.turns]
              /\ fork' = [fork EXCEPT ![k] = from.turns]
              /\ known' = [known EXCEPT ![k] = from.turns]
           \/ ~(how = "forked" /\ fork[k] = <<>>) /\ UNCHANGED <<history, fork, known>>
    BY Forking, ZenonT(30)
<1>3. PICK turns : turns = from.turns /\ turns = result[parent[p]].turns
    BY <1>2
<1>4. \/ UNCHANGED <<history, fork>>
      \/ /\ fork[k] = <<>> /\ fork' = [fork EXCEPT ![k] = turns]
         /\ history' = [history EXCEPT ![k] = turns]
    BY <1>2, <1>3
<1>7. /\ \A j \in Primaries \ {k} : history'[j] = history[j] /\ fork'[j] = fork[j]
      /\ \/ history'[k] = history[k] /\ fork'[k] = fork[k]
         \/ fork[k] = <<>> /\ fork'[k] = turns /\ history'[k] = turns
    BY <1>1, <1>4, RootsAndForks DEF TypeInv, StoreShape, ProcessShape
<1>5. ForksGrow
    <2>1. \A j \in Primaries : fork[j] # <<>> => history'[j] = history[j]
        BY <1>7
    <2> QED
        BY <2>1 DEF ForksGrow
<1>6. ASSUME NEW q \in Places, call'[q] = "turn"
      PROVE  /\ q[1] \in frozen /\ ask'[q] \in Primaries
             /\ parent[q] # None => fork[ask'[q]] # <<>>
    <2>1. call[q] = "turn" /\ ask'[q] = ask[q]
        BY <1>1, <1>2, <1>6 DEF TypeInv, ProcessShape
    <2> QED
        BY <2>1 DEF TypeInv, CallOK, ForkInv
<1> QED
    BY <1>1, <1>3, <1>5, <1>6, <1>7, ForkStep

\* The end of a turn leaves the other threads alone, and gives its own at most the turn.
LEMMA TurnGrows ==
    ASSUME TypeInv, NEW k \in Keys, NEW t \in Threads, NEW w, Answered(k, t) \/ Lost(k, t, w)
    PROVE  ForksGrow
<1>1. k \in Turn
    BY RootsAndForks
<1>2. \A j \in Threads : history'[j] = history[j] \/ history'[j] = Append(history[j], k)
    <2>1. PICK more : more = Append(history[t], k)
        OBVIOUS
    <2>2. history' = history \/ history' = [history EXCEPT ![t] = more]
        BY <2>1 DEF Answered, Lost, TypeInv, ProcessShape
    <2> QED
        BY <2>1, <2>2 DEF TypeInv, ProcessShape
<1> QED
    BY <1>1, <1>2, RootsAndForks DEF ForksGrow

LEMMA EndTurnForks ==
    ASSUME TypeInv, TypeInv', ForkInv, Kept, NEW p \in Places, EndTurn(p)
    PROVE  ForkInv'
<1>1. PICK k \in Primaries :
        /\ k = ask[p] /\ k \in Keys /\ PlaceOf(k) = p /\ k[1] = p[1] /\ p[1] \in frozen
        /\ parent[p] # None => fork[k] # <<>>
    BY RootsAndForks, PlaceOfAKey DEF EndTurn, TypeInv, CallOK, ForkInv
<1>2. PICK t \in Threads : t = ThreadOf(p)
    BY <1>1, LaneIsALane, RootOfALane, RootsAndForks DEF ThreadOf
<1>3. Answered(k, t) \/ Lost(k, t, Lane(p))
    BY <1>1, <1>2 DEF EndTurn
<1>4. ForksGrow
    BY <1>1, <1>3, TurnGrows
<1>5. fork' = fork /\ ask' = ask /\ call'[p] # "turn" /\ \A q \in Places \ {p} : call'[q] = call[q]
    BY DEF EndTurn, TypeInv, ProcessShape
<1>6. \A j \in Primaries \ {k} : result'[j] = result[j]
    BY <1>1, <1>3, RootsAndForks DEF Answered, Lost, TypeInv, StoreShape
<1>7. ASSUME NEW q \in Places, call'[q] = "turn"
      PROVE  /\ q[1] \in frozen /\ ask'[q] \in Primaries
             /\ parent[q] # None => fork[ask'[q]] # <<>>
    BY <1>5, <1>7 DEF TypeInv, CallOK, ForkInv
<1> QED
    BY <1>1, <1>4, <1>5, <1>6, <1>7, ForkStep

LEMMA EndRepairForks ==
    ASSUME TypeInv, TypeInv', ForkInv, Kept, NEW p \in Places, EndRepair(p)
    PROVE  ForkInv'
<1>1. PICK k \in Keys : k = RepairOf(p) /\ k \notin Primaries
    BY KeysOfAPlace DEF Keys
<1>2. PICK t \in Threads : t = result[ask[p]].thread
    BY DEF EndRepair, TypeInv, CallOK, PlaceOK, Owned, KeyOK
<1>3. Answered(k, t) \/ Lost(k, t, owner[t])
    BY <1>1, <1>2 DEF EndRepair
<1>4. ForksGrow
    BY <1>3, TurnGrows
<1>5. fork' = fork /\ ask' = ask /\ call' = call
    BY DEF EndRepair
<1>6. \A j \in Primaries : result'[j] = result[j]
    BY <1>1, <1>3, RootsAndForks DEF Answered, Lost, TypeInv, StoreShape
<1>7. ASSUME NEW q \in Places, call'[q] = "turn"
      PROVE  /\ q[1] \in frozen /\ ask'[q] \in Primaries
             /\ parent[q] # None => fork[ask'[q]] # <<>>
    BY <1>5, <1>7 DEF TypeInv, CallOK, ForkInv
<1> QED
    BY <1>4, <1>5, <1>6, <1>7, ForkStep

LEMMA ForkNext ==
    ASSUME TypeInv, ForkInv, [Next]_vars
    PROVE  TypeInv' /\ ForkInv'
<1>1. TypeInv' /\ Kept
    BY TypeNext
<1>2. CASE \/ UNCHANGED vars \/ OpenPool \/ CloseCoordinator \/ FreezeTopology
           \/ BeginGeneration \/ EndGeneration \/ \E w \in Lanes : StartLane(w)
    <2>1. UNCHANGED <<history, fork, result, ask, call>>
        BY <1>2 DEF vars, store, calls, OpenPool, CloseCoordinator, FreezeTopology,
                    BeginGeneration, EndGeneration, StartLane
    <2> QED
        BY <1>1, <2>1, SameHistory, ForkAlone
<1>3. CASE Stop
    BY <1>1, <1>3, StopForks
<1>4. ASSUME NEW w \in Lanes, ForkRoot(w) PROVE ForkInv'
    <2>1. UNCHANGED <<fork, result, ask, call>>
        BY <1>4 DEF ForkRoot, calls
    <2>2. \A k \in Primaries : history'[k] = history[k]
        BY <1>4, RootOfALane, RootsAndForks DEF ForkRoot, TypeInv, ProcessShape
    <2> QED
        BY <1>1, <2>1, <2>2, ForkAlone DEF ForksGrow
<1>5. ASSUME NEW p \in Places, NEW k \in KeysOf(p), AskRoot(p, k) \/ ForkChild(p, k) PROVE ForkInv'
    BY <1>1, <1>5, AskRootForks, ForkChildForks
<1>6. ASSUME NEW p \in Places, AskChild(p) \/ EndTurn(p) \/ EndRepair(p) PROVE ForkInv'
    BY <1>1, <1>6, AskChildForks, EndTurnForks, EndRepairForks
<1>7. ASSUME NEW p \in Places,
             Record(p) \/ TakeAnswer(p) \/ Repair(p) \/ RecordRepair(p) \/ TakeRepair(p)
      PROVE  ForkInv'
    <2>1. UNCHANGED <<history, fork, result, ask>>
        BY <1>7 DEF Record, TakeAnswer, Repair, RecordRepair, TakeRepair, Settles, calls
    <2>2. \A q \in Places : call'[q] = "turn" => call[q] = "turn"
        BY <1>7 DEF Record, TakeAnswer, Repair, RecordRepair, TakeRepair, Settles, calls,
                    TypeInv, ProcessShape
    <2> QED
        BY <1>1, <2>1, <2>2, SameHistory, ForkAlone
<1> QED
    BY <1>1, <1>2, <1>3, <1>4, <1>5, <1>6, <1>7 DEF Next, Call

(* A child answers after its parent's turns: its thread begins with the turns its
   parent's answer has on record, whatever was asked, lost or repeated since.  *)
THEOREM ChildrenFollowParents == Spec => []ChildrenSeeTheirParents
<1>1. TypeInv /\ ForkInv => ChildrenSeeTheirParents
    <2>1. SUFFICES ASSUME TypeInv, ForkInv, NEW p \in Places, parent[p] # None,
                          NEW k \in Primaries, PlaceOf(k) = p, HasResult(k)
                   PROVE  IsPrefix(result[parent[p]].turns, history[k])
        BY DEF ChildrenSeeTheirParents
    <2> QED
        BY <2>1 DEF ForkInv, ForkOK
<1>2. Init => TypeInv /\ ForkInv
    BY TypeInit, ForkInit
<1>3. TypeInv /\ ForkInv /\ [Next]_vars => TypeInv' /\ ForkInv'
    BY ForkNext
<1> QED
    BY <1>1, <1>2, <1>3, PTL DEF Spec

-----------------------------------------------------------------------------
(***************************************************************************)
(* The slots of a lane are asked one at a time.                            *)
(***************************************************************************)
Before(q, p) == q[1] < p[1] \/ (q[1] = p[1] /\ q[2] < p[2] /\ Lane(q) = Lane(p))

Started(p) == \E k \in started : PlaceOf(k) = p

\* A slot is started after the slots before it.
InTurnOK(p) == Started(p) => \A q \in Places : Before(q, p) => ~Open(q)

\* A retry replaces an initial request that has no answer.
RetryOK(p) ==
    LET initial == <<p[1], p[2], "turn">>
        retry == <<p[1], p[2], "retry">>
    IN retry \in started => /\ initial \in started /\ ~HasResult(initial)
                            /\ call[p] \in {"forked", "turn"} => ask[p] = retry

\* The process of a lane has registered its root thread.
LanesUp ==
    /\ \A w \in Lanes : loaded[w] # {} => Root(w) \in registered[w]
    /\ pc = "running" => \A w \in Lanes : loaded[w] # {}

SlotsInOrder ==
    /\ \A p \in Places : (Open(p) /\ gen # 0) => gen <= p[1]
    /\ \A p \in Places : Open(p) <=> p \notin released

QueueInv ==
    /\ LanesUp /\ SlotsInOrder
    /\ \A p \in Places : InTurnOK(p) /\ RetryOK(p)

LEMMA Numbered ==
    ASSUME TypeInv, NEW p \in Places
    PROVE  p[1] \in Nat /\ p[2] \in Nat /\ gen \in Nat
<1>1. p[1] \in Gens /\ p[2] \in Slots /\ gen \in Gens \cup {0}
    BY KeysOfAPlace DEF TypeInv, ProcessShape
<1>2. (\A g \in Gens \cup {0} : g \in Nat) /\ \A s \in Slots : s \in Nat
    BY Bounds
<1> QED
    BY <1>1, <1>2, Zenon

LEMMA OneAtATime ==
    ASSUME TypeInv, QueueInv, NEW p \in Places, NEW q \in Places,
           Open(p), Open(q), Started(p), Started(q), Lane(p) = Lane(q)
    PROVE  p = q
<1>1. ~Before(p, q) /\ ~Before(q, p)
    BY DEF QueueInv, InTurnOK
<1>2. p[1] = q[1] /\ p[2] = q[2]
    BY <1>1, Numbered DEF Before
<1>3. p = <<p[1], p[2]>> /\ q = <<q[1], q[2]>>
    BY KeysOfAPlace
<1> QED
    BY <1>2, <1>3, Zenon

\* The slot that is asked: no other of its lane is open and started.
LEMMA AskedInTurn ==
    ASSUME TypeInv, QueueInv, NEW p \in Places, NEW k \in KeysOf(p), Asks(p, k)
    PROVE  /\ \A q \in Places : Before(q, p) => ~Open(q)
           /\ \A q \in Places : (Open(q) /\ Started(q) /\ Lane(q) = Lane(p)) => q = p
<1>1. p[1] = gen /\ gen # 0 /\ Open(p)
    BY Asked, KeysOfAPlace, Bounds
<1>2. ASSUME NEW q \in Places, Before(q, p) PROVE ~Open(q)
    <2>1. CASE q[1] < p[1]
        BY <1>1, <2>1, Numbered DEF QueueInv, SlotsInOrder
    <2>2. CASE q[1] = p[1] /\ q[2] < p[2] /\ Lane(q) = Lane(p)
        <3>1. q \in released
            BY <1>1, <2>2 DEF Asks, Admitted, Here
        <3> QED
            BY <3>1 DEF QueueInv, SlotsInOrder
    <2> QED
        BY <1>2, <2>1, <2>2 DEF Before
<1>3. ASSUME NEW q \in Places, Open(q), Started(q), Lane(q) = Lane(p) PROVE q = p
    <2>1. ~Before(p, q) /\ ~Before(q, p)
        BY <1>1, <1>2, <1>3 DEF QueueInv, InTurnOK
    <2>2. p[1] = q[1] /\ p[2] = q[2]
        BY <1>3, <2>1, Numbered DEF Before
    <2>3. p = <<p[1], p[2]>> /\ q = <<q[1], q[2]>>
        BY KeysOfAPlace
    <2> QED
        BY <2>2, <2>3, Zenon
<1> QED
    BY <1>2, <1>3

LEMMA CurrentInTurn ==
    ASSUME TypeInv, QueueInv, NEW p \in Places, Current(p)
    PROVE  \A q \in Places : Before(q, p) => ~Open(q)
<1>1. p[1] = gen /\ Open(p) /\ \A q \in Places : (q[1] = gen /\ Open(q)) => p[2] <= q[2]
    BY DEF Current, Here
<1>2. gen # 0
    BY <1>1, KeysOfAPlace, Bounds
<1>3. ASSUME NEW q \in Places, Before(q, p), Open(q) PROVE FALSE
    <2>1. gen <= q[1]
        BY <1>2, <1>3 DEF QueueInv, SlotsInOrder
    <2> QED
        BY <1>1, <1>3, <2>1, Numbered DEF Before
<1> QED
    BY <1>3

\* What is before a slot with frozen parents stays before it.
LEMMA TurnStays ==
    ASSUME TypeInv, Kept, OwnersStay, NEW p \in Places, p[1] \in frozen,
           \A q \in Places : Before(q, p) => ~Open(q)
    PROVE  InTurnOK(p)'
<1>1. Lane(p)' = Lane(p)
    BY LaneStays
<1>2. ASSUME NEW q \in Places, Before(q, p)' PROVE ~Open(q)'
    <2>1. q[1] = p[1] => Lane(q)' = Lane(q)
        BY LaneStays
    <2>2. Before(q, p)
        BY <1>1, <1>2, <2>1 DEF Before
    <2> QED
        BY <2>2 DEF Kept, Open
<1> QED
    BY <1>2 DEF InTurnOK

LEMMA StartedFrozen ==
    ASSUME TypeInv, NEW p \in Places, Started(p)
    PROVE  p[1] \in frozen
<1>1. PICK k \in Keys : k \in started /\ PlaceOf(k) = p
    BY DEF Started, TypeInv, StoreShape
<1> QED
    BY <1>1, PlaceOfAKey DEF TypeInv, KeyOK

LEMMA TurnAlone ==
    ASSUME TypeInv, Kept, OwnersStay, NEW p \in Places, InTurnOK(p),
           \A k \in started' : PlaceOf(k) = p => k \in started
    PROVE  InTurnOK(p)'
<1>1. Started(p)' => Started(p)
    BY DEF Started, PlaceOf
<1>2. CASE Started(p)
    BY <1>2, StartedFrozen, TurnStays DEF InTurnOK
<1>3. CASE ~Started(p)
    BY <1>1, <1>3 DEF InTurnOK
<1> QED
    BY <1>2, <1>3

LEMMA RetryAlone ==
    ASSUME Kept, NEW p \in Places, RetryOK(p),
           \A k \in started' : PlaceOf(k) = p => k \in started,
           \A k \in Primaries : PlaceOf(k) = p =>
              (result'[k] = result[k] \/ (k = ask[p] /\ call[p] = "turn")),
           call'[p] \in {"forked", "turn"} =>
              call[p] \in {"forked", "turn"} /\ ask'[p] = ask[p]
    PROVE  RetryOK(p)'
<1>1. PICK initial \in Primaries, retry \in Primaries :
        /\ initial = <<p[1], p[2], "turn">> /\ retry = <<p[1], p[2], "retry">>
        /\ PlaceOf(initial) = p /\ PlaceOf(retry) = p /\ initial # retry
    BY KeysOfAPlace
<1>2. retry \in started => /\ initial \in started /\ ~HasResult(initial)
                           /\ call[p] \in {"forked", "turn"} => ask[p] = retry
    BY <1>1 DEF RetryOK
<1>3. retry \in started' => retry \in started
    BY <1>1
<1>4. retry \in started => ~HasResult(initial)'
    BY <1>1, <1>2 DEF HasResult
<1> QED
    BY <1>1, <1>2, <1>3, <1>4 DEF RetryOK, Kept, HasResult

LEMMA QueueInit == ASSUME Init PROVE QueueInv
<1>1. ASSUME NEW p \in Places PROVE InTurnOK(p) /\ RetryOK(p)
    BY DEF Init, InTurnOK, Started, RetryOK
<1> QED
    BY <1>1 DEF Init, QueueInv, LanesUp, SlotsInOrder, Open

LEMMA LanesUpNext ==
    ASSUME TypeInv, QueueInv, [Next]_vars
    PROVE  LanesUp'
<1>1. CASE UNCHANGED vars
    BY <1>1 DEF QueueInv, LanesUp, vars, process
<1>2. CASE Stop
    BY <1>2 DEF Stop, LanesUp
<1>3. CASE OpenPool \/ CloseCoordinator \/ FreezeTopology \/ \E w \in Lanes : ForkRoot(w)
    BY <1>3 DEF OpenPool, CloseCoordinator, FreezeTopology, ForkRoot, process, QueueInv, LanesUp
<1>4. CASE BeginGeneration \/ EndGeneration
    BY <1>4 DEF BeginGeneration, EndGeneration, process, QueueInv, LanesUp
<1>5. ASSUME NEW w \in Lanes, StartLane(w) PROVE LanesUp'
    <2>1. PICK some \in SUBSET Threads : some = saved[w] \cup {Root(w)}
        BY RootOfALane DEF TypeInv, StoreShape
    <2>2. /\ pc = "starting" /\ pc' = pc
          /\ loaded' = [loaded EXCEPT ![w] = some] /\ registered' = [registered EXCEPT ![w] = some]
        BY <1>5, <2>1 DEF StartLane, TypeInv, StoreShape
    <2> QED
        BY <2>1, <2>2 DEF QueueInv, LanesUp, TypeInv, ProcessShape
<1>6. ASSUME NEW p \in Places, NEW k \in KeysOf(p), ForkChild(p, k) PROVE LanesUp'
    <2>1. PICK w \in Lanes, from \in Result,
               how \in {"already_loaded", "raised", "forked", "fork_crossed"},
               has \in SUBSET Threads, makes \in SUBSET {k} :
            /\ w = Lane(p) /\ from = result[parent[p]] /\ from.thread \in Threads
            /\ call' = [call EXCEPT ![p] = how]
            /\ has \in {{}, {from.thread}} /\ makes = IF how = "forked" /\ fork[k] = <<>> THEN {k} ELSE {}
            /\ registered' = [registered EXCEPT ![w] = registered[w] \cup has]
            /\ loaded' = [loaded EXCEPT ![w] = loaded[w] \cup has \cup makes]
            /\ saved' = [saved EXCEPT ![w] = saved[w] \cup has]
            /\ \/ /\ how = "forked" /\ fork[k] = <<>>
                  /\ history' = [history EXCEPT ![k] = from.turns]
                  /\ fork' = [fork EXCEPT ![k] = from.turns]
                  /\ known' = [known EXCEPT ![k] = from.turns]
               \/ ~(how = "forked" /\ fork[k] = <<>>) /\ UNCHANGED <<history, fork, known>>
        BY <1>6, Forking, ZenonT(30)
    <2>2. \A v \in Lanes : loaded[v] \subseteq loaded'[v] /\ registered[v] \subseteq registered'[v]
        BY <2>1 DEF TypeInv, ProcessShape
    <2>3. \A v \in Lanes : loaded[v] # {}
        BY <1>6, Asked DEF ForkChild, QueueInv, LanesUp
    <2> QED
        BY <2>2, <2>3 DEF QueueInv, LanesUp
<1>7. ASSUME NEW p \in Places, NEW k \in KeysOf(p), AskRoot(p, k) PROVE LanesUp'
    BY <1>7 DEF AskRoot, QueueInv, LanesUp
<1>8. ASSUME NEW p \in Places,
             \/ AskChild(p) \/ EndTurn(p) \/ Record(p) \/ TakeAnswer(p)
             \/ Repair(p) \/ EndRepair(p) \/ RecordRepair(p) \/ TakeRepair(p)
      PROVE  LanesUp'
    <2>1. UNCHANGED <<pc, loaded, registered>>
        BY <1>8 DEF AskChild, EndTurn, Record, TakeAnswer, Repair, EndRepair, RecordRepair,
                    TakeRepair, Settles, process
    <2> QED
        BY <2>1 DEF QueueInv, LanesUp
<1> QED
    BY <1>1, <1>2, <1>3, <1>4, <1>5, <1>6, <1>7, <1>8 DEF Next, Call

\* What is settled is released, and the open slots are not before the generation.
LEMMA SlotsNext ==
    ASSUME TypeInv, QueueInv, Kept, [Next]_vars
    PROVE  SlotsInOrder'
<1>1. CASE UNCHANGED <<settled, released, gen>>
    BY <1>1 DEF QueueInv, SlotsInOrder, Open
<1>2. CASE Stop
    BY <1>2 DEF Stop, store, QueueInv, SlotsInOrder, Open
<1>3. CASE OpenPool
    <2>1. /\ \A p \in Places : p[1] < gen' => ~Open(p)
          /\ UNCHANGED <<settled, released>> /\ gen' \in Gens
        BY <1>3 DEF OpenPool, FirstOpen, store
    <2>2. ASSUME NEW p \in Places, ~(p[1] < gen') PROVE gen' <= p[1]
        <3>1. gen' \in Nat
            BY <2>1, Bounds
        <3> QED
            BY <2>2, <3>1, Numbered
    <2> QED
        BY <2>1, <2>2 DEF QueueInv, SlotsInOrder, Open
<1>4. CASE EndGeneration
    <2>1. /\ \A p \in Places : p[1] = gen => ~Open(p)
          /\ UNCHANGED <<settled, released>> /\ gen' = gen + 1 /\ gen # 0
        BY <1>4, Bounds DEF EndGeneration, Here, store, TypeInv, Control
    <2>2. ASSUME NEW p \in Places, Open(p) PROVE gen' <= p[1]
        <3>1. gen <= p[1] /\ gen # p[1]
            BY <2>1, <2>2 DEF QueueInv, SlotsInOrder
        <3> QED
            BY <2>1, <3>1, Numbered
    <2> QED
        BY <2>1, <2>2 DEF QueueInv, SlotsInOrder, Open
<1>5. ASSUME NEW p \in Places, NEW with, Settles(p, with), with # None PROVE SlotsInOrder'
    BY <1>5 DEF Settles, QueueInv, SlotsInOrder, Open, TypeInv, StoreShape
<1>6. CASE \E p \in Places : TakeAnswer(p) \/ TakeRepair(p)
    <2>1. PICK p \in Places : TakeAnswer(p) \/ TakeRepair(p)
        BY <1>6
    <2>2. Failed # None /\ RepairOf(p) # None
        BY KeysOfAPlace, RootsAndForks DEF Failed, None, Keys
    <2>3. call[p] = "done" => ask[p] # None
        BY RootsAndForks DEF TypeInv, CallOK
    <2> QED
        BY <1>5, <2>1, <2>2, <2>3 DEF TakeAnswer, TakeRepair
<1>7. CASE \/ UNCHANGED vars \/ CloseCoordinator \/ FreezeTopology \/ BeginGeneration
           \/ \E w \in Lanes : ForkRoot(w) \/ StartLane(w)
    BY <1>1, <1>7 DEF vars, store, CloseCoordinator, FreezeTopology, BeginGeneration, ForkRoot,
                      StartLane
<1>8. CASE \E p \in Places : \E k \in KeysOf(p) : AskRoot(p, k) \/ ForkChild(p, k)
    BY <1>1, <1>8 DEF AskRoot, ForkChild
<1>9. CASE \E p \in Places : \/ AskChild(p) \/ EndTurn(p) \/ Record(p) \/ Repair(p)
                            \/ EndRepair(p) \/ RecordRepair(p)
    BY <1>1, <1>9 DEF AskChild, EndTurn, Record, Repair, EndRepair, RecordRepair
<1> QED
    BY <1>2, <1>3, <1>4, <1>6, <1>7, <1>8, <1>9 DEF Next, Call

\* The call of a slot starts one of its keys, in turn.
LEMMA AskQueue ==
    ASSUME TypeInv, QueueInv, Kept, OwnersStay, NEW p \in Places, NEW k \in KeysOf(p), Asks(p, k),
           result' = result, \A q \in Places \ {p} : call'[q] = call[q]
    PROVE  \A q \in Places : InTurnOK(q)' /\ RetryOK(q)'
<1>1. /\ k \in Primaries /\ PlaceOf(k) = p /\ p[1] \in frozen
      /\ started' = started \cup {k} /\ ask' = [ask EXCEPT ![p] = k]
    BY Asked
<1>2. InTurnOK(p)'
    BY <1>1, AskedInTurn, TurnStays
<1>3. RetryOK(p)'
    <2>1. PICK initial \in Primaries, retry \in Primaries :
            /\ initial = <<p[1], p[2], "turn">> /\ retry = <<p[1], p[2], "retry">>
        BY KeysOfAPlace
    <2>0. initial # retry
        BY <2>1
    <2>2. retry \in started => initial \in started /\ ~HasResult(initial)
        BY <2>1 DEF QueueInv, RetryOK
    <2>3. \/ k = initial /\ (initial \notin started \/ HasResult(initial))
          \/ k = retry /\ initial \in started /\ ~HasResult(initial)
        BY <2>1 DEF KeysOf, Usable
    <2>4. retry \in started' => k = retry /\ initial \in started' /\ ~HasResult(initial)
        BY <1>1, <2>0, <2>1, <2>2, <2>3
    <2>5. ask'[p] = k
        BY <1>1 DEF TypeInv, ProcessShape
    <2> QED
        BY <2>1, <2>4, <2>5 DEF RetryOK, HasResult
<1>4. ASSUME NEW q \in Places, q # p PROVE InTurnOK(q)' /\ RetryOK(q)'
    <2>1. \A j \in started' : PlaceOf(j) = q => j \in started
        BY <1>1, <1>4
    <2>2. ask'[q] = ask[q] /\ call'[q] = call[q]
        BY <1>1, <1>4 DEF TypeInv, ProcessShape
    <2>3. InTurnOK(q)'
        BY <2>1, TurnAlone DEF QueueInv
    <2> QED
        BY <2>1, <2>2, <2>3, RetryAlone DEF QueueInv
<1> QED
    BY <1>2, <1>3, <1>4

LEMMA RepairQueue ==
    ASSUME TypeInv, QueueInv, Kept, OwnersStay, NEW p \in Places, Repair(p)
    PROVE  \A q \in Places : InTurnOK(q)' /\ RetryOK(q)'
<1>1. PICK r \in Repairs : r = RepairOf(p) /\ PlaceOf(r) = p /\ r \notin Primaries
    BY KeysOfAPlace
<1>2. /\ started' = started \cup {r} /\ UNCHANGED <<result, ask, call>> /\ Current(p)
      /\ call[p] = "done"
    BY <1>1 DEF Repair
<1>3. p[1] \in frozen
    BY <1>2 DEF TypeInv, CallOK
<1>4. InTurnOK(p)'
    BY <1>2, <1>3, CurrentInTurn, TurnStays
<1>5. ASSUME NEW q \in Places, q # p PROVE InTurnOK(q)'
    <2>1. \A j \in started' : PlaceOf(j) = q => j \in started
        BY <1>1, <1>2, <1>5
    <2> QED
        BY <2>1, TurnAlone DEF QueueInv
<1>6. ASSUME NEW q \in Places PROVE RetryOK(q)'
    <2>1. PICK retry \in Primaries, initial \in Primaries :
            retry = <<q[1], q[2], "retry">> /\ initial = <<q[1], q[2], "turn">>
        BY KeysOfAPlace
    <2>2. retry \in started' => retry \in started
        BY <1>1, <1>2
    <2>3. RetryOK(q)
        BY DEF QueueInv
    <2> QED
        BY <1>2, <2>1, <2>2, <2>3 DEF RetryOK, Kept, HasResult
<1> QED
    BY <1>4, <1>5, <1>6

LEMMA QueueNext ==
    ASSUME TypeInv, HomeInv, QueueInv, [Next]_vars
    PROVE  QueueInv'
<1>1. Kept /\ OwnersStay
    BY HomeNext
<1>2. LanesUp' /\ SlotsInOrder'
    BY <1>1, LanesUpNext, SlotsNext
<1>3. \A p \in Places : InTurnOK(p) /\ RetryOK(p)
    BY DEF QueueInv
<1>4. ASSUME UNCHANGED <<started, result>>,
             \A p \in Places : call'[p] \in {"forked", "turn"} =>
                call[p] \in {"forked", "turn"} /\ ask'[p] = ask[p]
      PROVE  \A p \in Places : InTurnOK(p)' /\ RetryOK(p)'
    BY <1>1, <1>3, <1>4, TurnAlone, RetryAlone
<1>5. CASE \/ UNCHANGED vars \/ OpenPool \/ CloseCoordinator \/ FreezeTopology
           \/ BeginGeneration \/ EndGeneration \/ \E w \in Lanes : ForkRoot(w) \/ StartLane(w)
    <2>1. UNCHANGED <<started, result, ask, call>>
        BY <1>5 DEF vars, store, calls, OpenPool, CloseCoordinator, FreezeTopology,
                    BeginGeneration, EndGeneration, ForkRoot, StartLane
    <2> QED
        BY <1>2, <1>4, <2>1 DEF QueueInv
<1>6. CASE Stop
    BY <1>2, <1>4, <1>6 DEF Stop, store, QueueInv
<1>7. ASSUME NEW p \in Places, NEW k \in KeysOf(p), AskRoot(p, k) \/ ForkChild(p, k)
      PROVE  QueueInv'
    <2>1. Asks(p, k) /\ result' = result
        BY <1>7 DEF AskRoot, ForkChild
    <2>2. \A q \in Places \ {p} : call'[q] = call[q]
        BY <1>7 DEF AskRoot, ForkChild, TypeInv, ProcessShape
    <2>3. \A q \in Places : InTurnOK(q)' /\ RetryOK(q)'
        BY <1>1, <2>1, <2>2, AskQueue
    <2> QED
        BY <1>2, <2>3 DEF QueueInv
<1>8. ASSUME NEW p \in Places, AskChild(p) \/ Record(p) \/ TakeAnswer(p) \/ RecordRepair(p) \/ TakeRepair(p)
      PROVE  QueueInv'
    <2>1. UNCHANGED <<started, result, ask>>
        BY <1>8 DEF AskChild, Record, TakeAnswer, RecordRepair, TakeRepair, Settles, calls
    <2>2. \A q \in Places : call'[q] \in {"forked", "turn"} => call[q] \in {"forked", "turn"}
        BY <1>8 DEF AskChild, Record, TakeAnswer, RecordRepair, TakeRepair, Settles, calls,
                    TypeInv, ProcessShape
    <2> QED
        BY <1>2, <1>4, <2>1, <2>2 DEF QueueInv
<1>9. ASSUME NEW p \in Places, Repair(p) PROVE QueueInv'
    BY <1>1, <1>2, <1>9, RepairQueue DEF QueueInv
<1>10. ASSUME NEW p \in Places, EndTurn(p) \/ EndRepair(p) PROVE QueueInv'
    <2>1. started' = started /\ ask' = ask
        BY <1>10 DEF EndTurn, EndRepair
    <2>2. \A q \in Places : call'[q] \in {"forked", "turn"} => call[q] \in {"forked", "turn"}
        BY <1>10 DEF EndTurn, EndRepair, TypeInv, ProcessShape
    <2>3. ASSUME NEW k \in Primaries, result'[k] # result[k]
          PROVE  k = ask[p] /\ call[p] = "turn" /\ PlaceOf(k) = p
        <3>1. CASE EndTurn(p)
            BY <2>3, <3>1, RootsAndForks
               DEF EndTurn, Answered, Lost, TypeInv, StoreShape, CallOK
        <3>2. CASE EndRepair(p)
            <4>0. PICK t : t = result[ask[p]].thread
                OBVIOUS
            <4>1. PICK r \in Repairs : r = RepairOf(p) /\ r \notin Primaries
                BY KeysOfAPlace
            <4>2. Answered(r, t) \/ Lost(r, t, owner[t])
                BY <3>2, <4>0, <4>1 DEF EndRepair
            <4>3. result' = result \/ \E e : result' = [result EXCEPT ![r] = e]
                BY <4>2 DEF Answered, Lost
            <4>4. result'[k] = result[k]
                BY <4>1, <4>3, RootsAndForks DEF TypeInv, StoreShape
            <4> QED
                BY <2>3, <4>4
        <3> QED
            BY <1>10, <3>1, <3>2
    <2>4. ASSUME NEW q \in Places PROVE InTurnOK(q)' /\ RetryOK(q)'
        BY <1>1, <1>3, <2>1, <2>2, <2>3, TurnAlone, RetryAlone
    <2> QED
        BY <1>2, <2>4 DEF QueueInv
<1> QED
    BY <1>5, <1>6, <1>7, <1>8, <1>9, <1>10 DEF Next, Call

-----------------------------------------------------------------------------
(***************************************************************************)
(* The answers on the root thread of a lane are on its record, all but the *)
(* last; the last is of the slot of the lane that is open and started, and *)
(* was asked after all of them.                                            *)
(***************************************************************************)
OnRoot(w) == {k \in Keys : HasResult(k) /\ result[k].thread = Root(w)}

OnRecord(k, w) == IsPrefix(result[k].turns, rootContext[w])

Pending(k, w) == contract[k] = rootContext[w]

Answer(p) == {k \in Primaries : PlaceOf(k) = p /\ HasResult(k)}

LaneOK(w) ==
    \A k \in OnRoot(w) : OnRecord(k, w) \/ (Pending(k, w) /\ Open(PlaceOf(k)))

\* A root slot is repaired once its answer is on record; a later process that asks it
\* again finds that the turns of the lane have moved on.
RepairPart(p, w) ==
    RepairOf(p) \in started =>
        /\ \E k \in Answer(p) : OnRecord(k, w)
        /\ repair[p] = "none" => call[p] \in {"none", "contract_changed"}

TurnPart(p, w) ==
    /\ call[p] \in {"turn", "kept"} => Pending(ask[p], w)
    /\ repair[p] \in {"turn", "kept"} => Pending(RepairOf(p), w)

DonePart(p, w) ==
    /\ (call[p] = "done" /\ Open(p) /\ repair[p] # "done") =>
          rootContext[w] = result[ask[p]].turns
    /\ (repair[p] = "done" /\ Open(p)) => rootContext[w] = result[RepairOf(p)].turns

\* A call that raised has no answer, and none finds its own thread in another process.
RaisedPart(p) ==
    /\ call[p] = "raised" => Answer(p) = {}
    /\ repair[p] = "raised" => ~HasResult(RepairOf(p))
    /\ call[p] # "already_loaded" /\ repair[p] # "already_loaded"

\* The first call of a process on a lane is that of its open and started slot.
KnownPart(p, w) ==
    (known[Root(w)] # <<>> /\ Open(p) /\ call[p] = "none") => ~Started(p)

OnLaneOK(p, w) ==
    RepairPart(p, w) /\ TurnPart(p, w) /\ DonePart(p, w) /\ RaisedPart(p) /\ KnownPart(p, w)

RootOK(p) == IsRoot(p) => OnLaneOK(p, Lane(p))

RecordInv ==
    /\ QueueInv
    /\ \A w \in Lanes : LaneOK(w)
    /\ \A p \in Places : RootOK(p)

LEMMA TurnsOf ==
    ASSUME TypeInv, NEW k \in Keys, HasResult(k)
    PROVE  /\ k \in started /\ k \in Turn /\ PlaceOf(k) \in Places /\ Started(PlaceOf(k))
           /\ contract[k] \in Seq(Turn) /\ contract[k] # <<>>
           /\ result[k].turns = Append(contract[k], k)
           /\ result[k].turns \in Seq(Turn) /\ result[k].turns # <<>>
           /\ result[k].thread \in Threads
<1>1. k \in Turn /\ contract[k] \in Seq(Turn)
    BY DEF Turn, TypeInv, StoreShape
<1>2. /\ k \in started /\ contract[k] # <<>> /\ result[k].turns = Append(contract[k], k)
      /\ result[k].thread \in Threads
    BY DEF TypeInv, KeyOK
<1> QED
    BY <1>1, <1>2, Extended, PlaceOfAKey DEF Started

LEMMA NotOnEmpty == ASSUME NEW s \in Seq(Turn), s # <<>> PROVE ~IsPrefix(s, <<>>)
<1>0. <<>> \in Seq(Turn) /\ Len(<<>>) = 0
    OBVIOUS
<1>1. PICK t \in Seq(Turn) : t = <<>> /\ Len(t) = 0
    BY <1>0, Zenon
<1>2. Len(s) \in Nat /\ Len(s) # 0
    BY EmptySeq
<1>3. ~(Len(s) <= Len(t))
    BY <1>1, <1>2
<1>4. ~IsPrefix(s, t)
    BY <1>3, PrefixByTurns
<1> QED
    BY <1>1, <1>4

\* The answer asked after all that is on record is not on record.
LEMMA NotBoth ==
    ASSUME TypeInv, NEW k \in Keys, HasResult(k), NEW w \in Lanes, Pending(k, w)
    PROVE  ~OnRecord(k, w)
<1>1. PICK s \in Seq(Turn) : s = rootContext[w] /\ result[k].turns = Append(s, k) /\ k \in Turn
    BY TurnsOf DEF Pending
<1>2. ~IsPrefix(Append(s, k), s)
    BY <1>1, NoPrefixOfLess
<1> QED
    BY <1>1, <1>2 DEF OnRecord

LEMMA OneAnswer ==
    ASSUME TypeInv, NEW p \in Places, RetryOK(p), NEW j \in Answer(p), NEW k \in Answer(p)
    PROVE  j = k
<1>1. PICK initial \in Primaries, retry \in Primaries :
        initial = <<p[1], p[2], "turn">> /\ retry = <<p[1], p[2], "retry">>
    BY KeysOfAPlace
<1>2. j \in {initial, retry} /\ k \in {initial, retry} /\ HasResult(j) /\ HasResult(k)
    <2>1. ASSUME NEW i \in Answer(p) PROVE i \in {initial, retry} /\ HasResult(i)
        <3>1. i \in Primaries /\ i \in Keys /\ PlaceOf(i) = p /\ HasResult(i)
            BY RootsAndForks DEF Answer
        <3>2. i \in {<<i[1], i[2], "turn">>, <<i[1], i[2], "retry">>} /\ i[1] = p[1] /\ i[2] = p[2]
            BY <3>1, PlaceOfAKey
        <3> QED
            BY <1>1, <3>1, <3>2
    <2> QED
        BY <2>1
<1>3. HasResult(retry) => ~HasResult(initial)
    <2>1. HasResult(retry) => retry \in started
        BY RootsAndForks DEF TypeInv, KeyOK
    <2> QED
        BY <1>1, <2>1 DEF RetryOK
<1> QED
    BY <1>2, <1>3

\* An answer on the root thread of a lane is of a root slot of the lane.
LEMMA OnRootPlace ==
    ASSUME TypeInv, HomeInv, NEW w \in Lanes, NEW k \in OnRoot(w)
    PROVE  /\ k \in Keys /\ HasResult(k) /\ PlaceOf(k) \in Places
           /\ IsRoot(PlaceOf(k)) /\ Lane(PlaceOf(k)) = w /\ Started(PlaceOf(k))
<1>1. k \in Keys /\ HasResult(k) /\ result[k].thread = Root(w)
    BY DEF OnRoot
<1>2. PICK p \in Places : p = PlaceOf(k) /\ Started(p)
    BY <1>1, TurnsOf
<1>3. IsRoot(p)
    BY <1>1, <1>2, RootOfALane DEF HomeInv, ResultOK
<1>4. Root(Lane(p)) = Root(w) /\ Lane(p) \in Lanes
    BY <1>1, <1>2, <1>3, LaneIsALane DEF HomeInv, ResultOK
<1>5. Lane(p) = w
    BY <1>4 DEF Root
<1> QED
    BY <1>1, <1>2, <1>3, <1>5

\* The answer of a repaired slot is on record.
LEMMA RepairAfterAnswer ==
    ASSUME TypeInv, RecordInv, NEW p \in Places, IsRoot(p), NEW w, w = Lane(p),
           RepairOf(p) \in started, NEW k \in Answer(p)
    PROVE  OnRecord(k, w)
<1>1. PICK j \in Answer(p) : OnRecord(j, w)
    BY DEF RecordInv, RootOK, OnLaneOK, RepairPart
<1>2. j = k
    BY OneAnswer DEF RecordInv, QueueInv
<1> QED
    BY <1>1, <1>2

LEMMA PendingOne ==
    ASSUME TypeInv, HomeInv, RecordInv, NEW w \in Lanes, NEW j \in OnRoot(w), NEW k \in OnRoot(w),
           ~OnRecord(j, w), ~OnRecord(k, w)
    PROVE  j = k
<1>1. PICK p \in Places : p = PlaceOf(j) /\ IsRoot(p) /\ Lane(p) = w /\ Started(p)
    BY OnRootPlace
<1>2. PICK q \in Places : q = PlaceOf(k) /\ IsRoot(q) /\ Lane(q) = w /\ Started(q)
    BY OnRootPlace
<1>3. Open(p) /\ Open(q)
    BY <1>1, <1>2 DEF RecordInv, LaneOK
<1>4. p = q
    BY <1>1, <1>2, <1>3, OneAtATime DEF RecordInv
<1>5. ASSUME NEW i \in OnRoot(w), PlaceOf(i) = p, ~OnRecord(i, w)
      PROVE  i \in Primaries => i \in Answer(p) /\ RepairOf(p) \notin started
    <2>1. i \in Primaries => i \in Answer(p)
        BY <1>5 DEF OnRoot, Answer
    <2> QED
        BY <1>1, <1>5, <2>1, RepairAfterAnswer
<1>6. ASSUME NEW i \in OnRoot(w), PlaceOf(i) = p, i \notin Primaries
      PROVE  i = RepairOf(p) /\ RepairOf(p) \in started
    <2>1. i \in Keys /\ HasResult(i)
        BY DEF OnRoot
    <2> QED
        BY <1>6, <2>1, PlaceOfAKey, TurnsOf
<1>7. CASE j \in Primaries /\ k \in Primaries
    BY <1>1, <1>2, <1>4, <1>5, <1>7, OneAnswer DEF RecordInv, QueueInv
<1>8. CASE j \notin Primaries /\ k \notin Primaries
    BY <1>1, <1>2, <1>4, <1>6, <1>8
<1>9. CASE ~(j \in Primaries <=> k \in Primaries)
    BY <1>1, <1>2, <1>4, <1>5, <1>6, <1>9
<1> QED
    BY <1>7, <1>8, <1>9

\* The record of a lane only grows, by the turns it is given.
RecordGrows(w) ==
    \/ rootContext'[w] = rootContext[w]
    \/ rootContext[w] = <<>>
    \/ \E e \in Turn : rootContext'[w] = Append(rootContext[w], e)

LEMMA OnRecordNext ==
    ASSUME TypeInv, TypeInv', NEW w \in Lanes, NEW k \in Keys, HasResult(k), OnRecord(k, w),
           result'[k] = result[k], RecordGrows(w)
    PROVE  OnRecord(k, w)'
<1>1. PICK s \in Seq(Turn), c \in Seq(Turn), d \in Seq(Turn) :
        /\ s = result[k].turns /\ s # <<>> /\ c = rootContext[w] /\ d = rootContext'[w]
        /\ IsPrefix(s, c)
    BY TurnsOf DEF OnRecord, TypeInv, StoreShape
<1>2. c # <<>>
    BY <1>1, NotOnEmpty
<1>3. d = c \/ \E e \in Turn : d = Append(c, e)
    BY <1>1, <1>2 DEF RecordGrows
<1>4. IsPrefix(s, d)
    BY <1>1, <1>3, PrefixGrows
<1> QED
    BY <1>1, <1>4 DEF OnRecord

\* A slot that no step of this kind asks, answers or repairs.
LEMMA RootAlone ==
    ASSUME TypeInv, TypeInv', Kept, NEW p \in Places, RootOK(p), NEW w, w = Lane(p),
           \A k \in started' : PlaceOf(k) = p => k \in started,
           \A k \in Keys : PlaceOf(k) = p => result'[k] = result[k],
           \A v \in Lanes : RecordGrows(v),
           (Open(p) /\ call[p] # "none") => rootContext'[w] = rootContext[w],
           \/ call'[p] = call[p] /\ ask'[p] = ask[p] /\ repair'[p] = repair[p]
           \/ call'[p] = "none" /\ repair'[p] = "none",
           (call'[p] = "none" /\ known'[Root(w)] # <<>>) =>
              call[p] = "none" /\ (known[Root(w)] # <<>> \/ ~(Open(p) /\ Started(p)))
    PROVE  RootOK(p)'
<1>1. SUFFICES ASSUME parent'[p] = None PROVE OnLaneOK(p, w)'
    <2>1. parent'[p] = None => Lane(p)' = w
        BY DEF Lane, TypeInv, PlaceOK, Kept
    <2> QED
        BY <2>1 DEF RootOK, IsRoot
<1>2. IsRoot(p) /\ w \in Lanes
    BY <1>1, LaneIsALane DEF IsRoot, TypeInv, PlaceOK, Kept
<1>3. OnLaneOK(p, w)
    BY <1>2 DEF RootOK
<1>4. CallOK(p)
    BY DEF TypeInv
<1>5. PICK r \in Keys : r = RepairOf(p) /\ PlaceOf(r) = p
    BY KeysOfAPlace DEF Keys
<1>6. Open(p)' => Open(p)
    BY DEF Open, Kept
<1>7. RepairPart(p, w)'
    <2>1. SUFFICES ASSUME r \in started'
                   PROVE  /\ (\E k \in Answer(p) : OnRecord(k, w))'
                          /\ repair'[p] = "none" => call'[p] \in {"none", "contract_changed"}
        BY <1>5 DEF RepairPart, RepairOf
    <2>2. r \in started
        BY <1>5, <2>1
    <2>3. PICK k \in Answer(p) : OnRecord(k, w)
        BY <1>3, <1>5, <2>2 DEF OnLaneOK, RepairPart
    <2>4. k \in Primaries /\ k \in Keys /\ PlaceOf(k) = p /\ HasResult(k) /\ result'[k] = result[k]
        BY RootsAndForks DEF Answer
    <2>5. OnRecord(k, w)'
        BY <1>2, <2>3, <2>4, OnRecordNext
    <2>6. (k \in Answer(p))'
        BY <2>4 DEF Answer, HasResult
    <2>7. repair'[p] = "none" => call'[p] \in {"none", "contract_changed"}
        BY <1>3, <1>5, <2>2 DEF OnLaneOK, RepairPart
    <2> QED
        BY <2>5, <2>6, <2>7
<1>8. TurnPart(p, w)'
    <2>1. ASSUME call[p] \in {"turn", "kept"}, call'[p] = call[p], ask'[p] = ask[p]
          PROVE  Pending(ask[p], w)'
        <3>1. Pending(ask[p], w) /\ rootContext'[w] = rootContext[w] /\ ask[p] \in Keys
            BY <1>3, <1>4, <2>1, RootsAndForks DEF OnLaneOK, TurnPart, CallOK, Active
        <3>2. contract[ask[p]] # <<>>
            BY <1>4, <2>1, <3>1 DEF CallOK, TypeInv, KeyOK
        <3>3. contract'[ask[p]] = contract[ask[p]]
            BY <3>1, <3>2 DEF Kept
        <3> QED
            BY <2>1, <3>1, <3>3 DEF Pending
    <2>2. ASSUME repair[p] \in {"turn", "kept"}, repair'[p] = repair[p] PROVE Pending(r, w)'
        <3>1. Pending(r, w) /\ rootContext'[w] = rootContext[w] /\ call[p] = "done"
            BY <1>3, <1>4, <1>5, <2>2 DEF OnLaneOK, TurnPart, CallOK, Active
        <3>2. contract[r] # <<>>
            BY <1>4, <1>5, <2>2 DEF CallOK, TypeInv, KeyOK
        <3>3. contract'[r] = contract[r]
            BY <1>5, <3>2 DEF Kept
        <3> QED
            BY <3>1, <3>3 DEF Pending
    <2> QED
        BY <1>5, <2>1, <2>2 DEF TurnPart, RepairOf, Pending
<1>9. DonePart(p, w)'
    <2>1. ASSUME call[p] = "done", Open(p), repair[p] # "done", ask'[p] = ask[p]
          PROVE  rootContext'[w] = result'[ask[p]].turns
        <3>1. ask[p] \in Keys /\ PlaceOf(ask[p]) = p
            BY <2>1, Answering
        <3> QED
            BY <1>3, <2>1, <3>1 DEF OnLaneOK, DonePart
    <2>2. ASSUME repair[p] = "done", Open(p) PROVE rootContext'[w] = result'[r].turns
        <3>1. call[p] = "done"
            BY <1>4, <2>2 DEF CallOK
        <3> QED
            BY <1>3, <1>5, <2>2, <3>1 DEF OnLaneOK, DonePart
    <2> QED
        BY <1>5, <1>6, <2>1, <2>2 DEF DonePart, RepairOf
<1>10. RaisedPart(p)'
    <2>1. call[p] = "raised" => (Answer(p) = {})'
        <3>1. \A k \in Primaries : PlaceOf(k) = p => result'[k] = result[k]
            BY RootsAndForks
        <3> QED
            BY <1>3, <3>1 DEF OnLaneOK, RaisedPart, Answer, HasResult
    <2>2. repair[p] = "raised" => ~HasResult(r)'
        BY <1>3, <1>5 DEF OnLaneOK, RaisedPart, HasResult
    <2> QED
        BY <1>3, <1>5, <2>1, <2>2 DEF OnLaneOK, RaisedPart, RepairOf, HasResult
<1>11. KnownPart(p, w)'
    <2>1. Started(p)' => Started(p)
        BY DEF Started, PlaceOf
    <2> QED
        BY <1>3, <1>6, <2>1 DEF OnLaneOK, KnownPart, Root
<1> QED
    BY <1>7, <1>8, <1>9, <1>10, <1>11 DEF OnLaneOK

\* A lane that no step of this kind answers on, records on or settles a slot of.
LEMMA LaneAlone ==
    ASSUME TypeInv, Kept, NEW w \in Lanes, LaneOK(w),
           \A k \in Keys : result'[k] = result[k], rootContext'[w] = rootContext[w],
           \A k \in OnRoot(w) : ~OnRecord(k, w) => settled'[PlaceOf(k)] = settled[PlaceOf(k)]
    PROVE  LaneOK(w)'
<1>1. SUFFICES ASSUME NEW k \in Keys, k \in OnRoot(w)'
               PROVE  (OnRecord(k, w) \/ (Pending(k, w) /\ Open(PlaceOf(k))))'
    BY DEF LaneOK, OnRoot
<1>2. k \in OnRoot(w) /\ HasResult(k)
    BY <1>1 DEF OnRoot, HasResult
<1>3. CASE OnRecord(k, w)
    BY <1>3 DEF OnRecord
<1>4. CASE ~OnRecord(k, w)
    <2>1. Pending(k, w) /\ Open(PlaceOf(k)) /\ settled'[PlaceOf(k)] = settled[PlaceOf(k)]
        BY <1>2, <1>4 DEF LaneOK
    <2>2. contract'[k] = contract[k]
        BY <1>2, TurnsOf DEF Kept
    <2> QED
        BY <2>1, <2>2 DEF Pending, Open, PlaceOf
<1> QED
    BY <1>3, <1>4

\* An answer is given on the root thread of a lane.
LEMMA LaneAnswered ==
    ASSUME TypeInv, Kept, NEW w \in Lanes, LaneOK(w), NEW k \in Keys,
           UNCHANGED <<rootContext, settled, contract>>,
           \A j \in Keys \ {k} : result'[j] = result[j],
           result'[k].thread = Root(w) => Pending(k, w) /\ Open(PlaceOf(k))
    PROVE  LaneOK(w)'
<1>1. SUFFICES ASSUME NEW j \in Keys, j \in OnRoot(w)'
               PROVE  (OnRecord(j, w) \/ (Pending(j, w) /\ Open(PlaceOf(j))))'
    BY DEF LaneOK, OnRoot
<1>2. CASE j = k
    BY <1>1, <1>2 DEF OnRoot, Pending, Open, PlaceOf
<1>3. CASE j # k
    <2>1. j \in OnRoot(w) /\ result'[j] = result[j]
        BY <1>1, <1>3 DEF OnRoot, HasResult
    <2> QED
        BY <2>1 DEF LaneOK, OnRecord, Pending, Open, PlaceOf
<1> QED
    BY <1>2, <1>3

\* The last answer of a lane goes on its record.
LEMMA LaneRecorded ==
    ASSUME TypeInv, TypeInv', HomeInv, RecordInv, NEW v \in Lanes, NEW k \in Keys, HasResult(k),
           Records(k, v), UNCHANGED <<result, settled, contract>>,
           result[k].thread = Root(v) => Pending(k, v)
    PROVE  \A w \in Lanes : /\ LaneOK(w)' /\ RecordGrows(w)
                            /\ w # v => rootContext'[w] = rootContext[w]
                            /\ result[k].thread # Root(v) => rootContext'[w] = rootContext[w]
<1>1. PICK turns \in Seq(Turn) : turns = result[k].turns
    BY TurnsOf
<1>2. /\ result[k].thread = Root(v) => rootContext' = [rootContext EXCEPT ![v] = turns]
      /\ result[k].thread # Root(v) => rootContext' = rootContext
    BY <1>1 DEF Records
<1>3. ASSUME NEW w \in Lanes
      PROVE  /\ w # v => rootContext'[w] = rootContext[w]
             /\ result[k].thread # Root(v) => rootContext'[w] = rootContext[w]
             /\ (w = v /\ result[k].thread = Root(v)) => rootContext'[w] = turns
    BY <1>2 DEF TypeInv, StoreShape
<1>4. ASSUME result[k].thread = Root(v)
      PROVE  k \in OnRoot(v) /\ ~OnRecord(k, v) /\ turns = Append(rootContext[v], k) /\ k \in Turn
    BY <1>1, <1>4, NotBoth, TurnsOf DEF OnRoot, Pending
<1>5. ASSUME NEW w \in Lanes PROVE RecordGrows(w)
    BY <1>3, <1>4 DEF RecordGrows
<1>6. ASSUME NEW w \in Lanes PROVE LaneOK(w)'
    <2>1. SUFFICES ASSUME NEW j \in Keys, j \in OnRoot(w)'
                   PROVE  (OnRecord(j, w) \/ (Pending(j, w) /\ Open(PlaceOf(j))))'
        BY DEF LaneOK, OnRoot
    <2>2. j \in OnRoot(w) /\ HasResult(j)
        BY <2>1 DEF OnRoot, HasResult
    <2>3. CASE OnRecord(j, w)
        <3>1. OnRecord(j, w)'
            BY <1>5, <2>2, <2>3, OnRecordNext
        <3> QED
            BY <3>1
    <2>4. CASE ~OnRecord(j, w) /\ rootContext'[w] = rootContext[w]
        BY <2>2, <2>4 DEF RecordInv, LaneOK, Pending, Open, PlaceOf
    <2>5. CASE ~OnRecord(j, w) /\ rootContext'[w] # rootContext[w]
        <3>1. w = v /\ result[k].thread = Root(v)
            BY <1>3, <2>5
        <3>2. j = k
            BY <1>4, <2>2, <2>5, <3>1, PendingOne
        <3>3. rootContext'[w] = turns /\ result'[j].turns = turns
            BY <1>1, <1>3, <3>1, <3>2
        <3>4. IsPrefix(turns, turns)
            BY PrefixSelf
        <3> QED
            BY <3>3, <3>4 DEF OnRecord
    <2> QED
        BY <2>3, <2>4, <2>5
<1> QED
    BY <1>3, <1>5, <1>6

\* What a step of one slot leaves of the others of its lane.
LEMMA OthersAlone ==
    ASSUME TypeInv, TypeInv', RecordInv, Kept, NEW p \in Places, NEW w, w = Lane(p),
           NEW q \in Places \ {p},
           (\A v \in Places : (Open(v) /\ Started(v) /\ Lane(v) = w) => v = p),
           (\A k \in started' : PlaceOf(k) = q => k \in started),
           (\A k \in Keys : PlaceOf(k) = q => result'[k] = result[k]),
           (\A v \in Lanes : RecordGrows(v) /\ (v # w => rootContext'[v] = rootContext[v])),
           (\A v \in Lanes : v # w => known'[Root(v)] = known[Root(v)]),
           call'[q] = call[q] /\ ask'[q] = ask[q] /\ repair'[q] = repair[q]
    PROVE  RootOK(q)'
<1>1. PICK v \in Lanes : v = Lane(q)
    BY LaneIsALane
<1>2. RootOK(q)
    BY DEF RecordInv
<1>3. (Open(q) /\ Started(q)) => v # w
    BY <1>1
<1>4. call[q] # "none" => Started(q)
    BY DEF TypeInv, CallOK, Started
<1>5. (Open(q) /\ call[q] # "none") => rootContext'[v] = rootContext[v]
    BY <1>3, <1>4
<1>6. (call'[q] = "none" /\ known'[Root(v)] # <<>>) =>
              call[q] = "none" /\ (known[Root(v)] # <<>> \/ ~(Open(q) /\ Started(q)))
    BY <1>3
<1> QED
    BY <1>1, <1>2, <1>5, <1>6, RootAlone

\* The slot of a call is the one of its lane that is open and started.
LEMMA CalledAlone ==
    ASSUME TypeInv, RecordInv, NEW p \in Places, Open(p), call[p] # "none"
    PROVE  \A v \in Places : (Open(v) /\ Started(v) /\ Lane(v) = Lane(p)) => v = p
<1>1. Started(p)
    BY DEF TypeInv, CallOK, Started
<1> QED
    BY <1>1, OneAtATime DEF RecordInv

LEMMA SameRecord ==
    ASSUME rootContext' = rootContext
    PROVE  \A w \in Lanes : RecordGrows(w) /\ rootContext'[w] = rootContext[w]
BY DEF RecordGrows

LEMMA OtherRoots ==
    ASSUME TypeInv, NEW w \in Lanes, NEW turns,
           known' = known \/ known' = [known EXCEPT ![Root(w)] = turns]
    PROVE  \A v \in Lanes : v # w => known'[Root(v)] = known[Root(v)]
<1>1. ASSUME NEW v \in Lanes, v # w PROVE Root(v) # Root(w) /\ Root(v) \in Threads
    BY <1>1, RootOfALane
<1> QED
    BY <1>1 DEF TypeInv, ProcessShape

\* The answer of a slot that is asked is that of the key it is asked with.
LEMMA AskedAnswer ==
    ASSUME TypeInv, RecordInv, NEW p \in Places, NEW k \in KeysOf(p), NEW j \in Answer(p)
    PROVE  j = k
<1>1. PICK initial \in Primaries, retry \in Primaries :
        initial = <<p[1], p[2], "turn">> /\ retry = <<p[1], p[2], "retry">>
    BY KeysOfAPlace
<1>2. j \in Primaries /\ j \in Keys /\ PlaceOf(j) = p /\ HasResult(j)
    BY RootsAndForks DEF Answer
<1>3. j \in {initial, retry}
    <2>1. j \in {<<j[1], j[2], "turn">>, <<j[1], j[2], "retry">>} /\ j[1] = p[1] /\ j[2] = p[2]
        BY <1>2, PlaceOfAKey
    <2> QED
        BY <1>1, <2>1
<1>4. j \in started
    BY <1>2, TurnsOf
<1>5. retry \in started => initial \in started /\ ~HasResult(initial)
    BY <1>1 DEF RecordInv, QueueInv, RetryOK
<1>6. \/ k = initial /\ (initial \notin started \/ HasResult(initial))
      \/ k = retry /\ initial \in started /\ ~HasResult(initial)
    BY <1>1 DEF KeysOf, Usable
<1> QED
    BY <1>2, <1>3, <1>4, <1>5, <1>6

LEMMA AskRootRecord ==
    ASSUME TypeInv, TypeInv', HomeInv, RecordInv, Kept, OwnersStay,
           NEW p \in Places, NEW k \in KeysOf(p), AskRoot(p, k)
    PROVE  /\ \A v \in Lanes : LaneOK(v)'
           /\ \A q \in Places : RootOK(q)'
<1>1. Asks(p, k) /\ IsRoot(p)
    BY DEF AskRoot
<1>2. /\ k \in Primaries /\ k \in Keys /\ PlaceOf(k) = p /\ k \in started'
      /\ k \notin started \/ HasResult(k)
      /\ p[1] \in frozen /\ Open(p) /\ call[p] = "none" /\ repair[p] = "none"
      /\ started' = started \cup {k} /\ ask' = [ask EXCEPT ![p] = k]
    BY <1>1, Asked
<1>3. PICK w \in Lanes, turns \in Seq(Turn) :
        w = Lane(p) /\ turns = rootContext[w] /\ turns # <<>>
    BY <1>1, Asked
<1>4. PICK how \in {"contract_changed", "kept", "raised", "turn"} :
        /\ call' = [call EXCEPT ![p] = how]
        /\ \/ /\ how = AskedOutcome(k, w, turns) /\ Activates(Root(w), turns)
              /\ Signs(k, turns) /\ known' = [known EXCEPT ![Root(w)] = turns]
           \/ how = "raised" /\ ~Activates(Root(w), turns) /\ UNCHANGED <<contract, known>>
    BY <1>3, AskingRoot
<1>5. UNCHANGED <<result, rootContext, settled, repair, parent, owner>>
    BY DEF AskRoot
<1>6. \A v \in Lanes : LaneOK(v)'
    BY <1>5, LaneAlone DEF RecordInv
<1>7. \A v \in Places : (Open(v) /\ Started(v) /\ Lane(v) = w) => v = p
    BY <1>1, <1>3, AskedInTurn DEF RecordInv
<1>8. ASSUME NEW q \in Places \ {p} PROVE RootOK(q)'
    <2>1. \A j \in started' : PlaceOf(j) = q => j \in started
        BY <1>2
    <2>2. \A v \in Lanes : v # w => known'[Root(v)] = known[Root(v)]
        BY <1>4, OtherRoots
    <2>3. call'[q] = call[q] /\ ask'[q] = ask[q] /\ repair'[q] = repair[q]
        BY <1>2, <1>4, <1>5 DEF TypeInv, ProcessShape
    <2>4. \A v \in Lanes : RecordGrows(v) /\ (v # w => rootContext'[v] = rootContext[v])
        BY <1>5, SameRecord
    <2>5. \A j \in Keys : PlaceOf(j) = q => result'[j] = result[j]
        BY <1>5
    <2> QED
        BY <1>3, <1>7, <2>1, <2>2, <2>3, <2>4, <2>5, OthersAlone
<1>9. /\ call'[p] = how /\ ask'[p] = k /\ repair'[p] = "none" /\ rootContext'[w] = turns
    BY <1>2, <1>3, <1>4, <1>5 DEF TypeInv, ProcessShape
<1>10. Lane(p)' = w
    BY <1>2, <1>3, LaneStays
<1>11. OnLaneOK(p, w)
    BY <1>1, <1>3 DEF RecordInv, RootOK
<1>12. Started(p) => how = AskedOutcome(k, w, turns)
    <2>1. Started(p) => known[Root(w)] = <<>>
        BY <1>2, <1>11 DEF OnLaneOK, KnownPart
    <2> QED
        BY <1>4, <2>1 DEF Activates
<1>13. ASSUME NEW j \in Answer(p) PROVE j = k /\ HasResult(k) /\ Started(p)
    <2>1. j = k
        BY AskedAnswer
    <2> QED
        BY <1>2, <2>1, TurnsOf DEF Answer, Started
<1>14. RepairPart(p, w)'
    <2>1. PICK r \in Keys : r = RepairOf(p) /\ PlaceOf(r) = p /\ r # k
        BY <1>2, KeysOfAPlace DEF Keys
    <2>2. SUFFICES ASSUME r \in started
                   PROVE  (\E j \in Answer(p) : OnRecord(j, w))' /\ how = "contract_changed"
        BY <1>2, <1>9, <2>1 DEF RepairPart, RepairOf
    <2>3. PICK j \in Answer(p) : OnRecord(j, w)
        BY <1>11, <2>1, <2>2 DEF OnLaneOK, RepairPart
    <2>4. j = k /\ HasResult(k) /\ Started(p)
        BY <1>13
    <2>5. (j \in Answer(p))' /\ OnRecord(j, w)'
        BY <1>5, <2>3 DEF Answer, OnRecord, HasResult
    <2>6. contract[k] # turns /\ contract[k] # <<>>
        BY <1>2, <1>3, <2>3, <2>4, NotBoth, TurnsOf DEF Pending
    <2>7. how = "contract_changed"
        BY <1>12, <2>4, <2>6 DEF AskedOutcome
    <2> QED
        BY <2>5, <2>7
<1>15. TurnPart(p, w)'
    <2>1. SUFFICES ASSUME how \in {"turn", "kept"} PROVE contract'[k] = turns
        BY <1>9 DEF TurnPart, Pending
    <2>2. how = AskedOutcome(k, w, turns) /\ Signs(k, turns)
        BY <1>4, <2>1
    <2>3. contract[k] \in {<<>>, turns}
        BY <2>1, <2>2, AskedOutcomes
    <2> QED
        BY <1>2, <1>3, <2>2, <2>3, Signature
<1>16. DonePart(p, w)'
    BY <1>9 DEF DonePart
<1>17. RaisedPart(p)'
    <2>1. ASSUME how = "raised" PROVE (Answer(p) = {})'
        <3>1. SUFFICES ASSUME NEW j \in Answer(p) PROVE FALSE
            BY <1>5 DEF Answer, HasResult
        <3>2. HasResult(k) /\ how = AskedOutcome(k, w, turns)
            BY <1>12, <1>13
        <3> QED
            BY <2>1, <3>2 DEF AskedOutcome
    <2> QED
        BY <1>9, <2>1 DEF RaisedPart
<1>18. KnownPart(p, w)'
    BY <1>9 DEF KnownPart
<1>19. RootOK(p)'
    BY <1>10, <1>14, <1>15, <1>16, <1>17, <1>18 DEF RootOK, OnLaneOK
<1> QED
    BY <1>6, <1>8, <1>19

LEMMA EndTurnRecord ==
    ASSUME TypeInv, TypeInv', HomeInv, RecordInv, Kept, OwnersStay, NEW p \in Places, EndTurn(p)
    PROVE  /\ \A v \in Lanes : LaneOK(v)'
           /\ \A q \in Places : RootOK(q)'
<1>1. PICK k \in Primaries :
        /\ k = ask[p] /\ k \in Keys /\ PlaceOf(k) = p /\ k \in started
        /\ ~HasResult(k) /\ p[1] \in frozen /\ Open(p)
        /\ call[p] = "turn" /\ repair[p] = "none"
    BY RootsAndForks DEF EndTurn, TypeInv, CallOK, Active
<1>2. PICK w \in Lanes : w = Lane(p)
    BY LaneIsALane
<1>3. PICK t \in Threads : t = ThreadOf(p) /\ t = IF IsRoot(p) THEN Root(w) ELSE k
    BY <1>1, <1>2, RootOfALane, RootsAndForks DEF ThreadOf
<1>4. PICK how \in {"kept", "raised"} :
        /\ call' = [call EXCEPT ![p] = how]
        /\ \/ how = "kept" /\ Answered(k, t)
           \/ how = "raised" /\ Lost(k, t, w)
    BY <1>1, <1>2, <1>3 DEF EndTurn
<1>5. UNCHANGED <<rootContext, settled, contract, started, ask, repair, parent, owner>>
    BY DEF EndTurn
<1>6. /\ \A j \in Keys \ {k} : result'[j] = result[j]
      /\ how = "kept" => result'[k].thread = t
      /\ how = "raised" => result' = result
    BY <1>1, <1>4 DEF Answered, Lost, TypeInv, StoreShape
<1>7. ASSUME IsRoot(p) PROVE OnLaneOK(p, w)
    BY <1>2, <1>7 DEF RecordInv, RootOK
<1>8. ASSUME NEW v \in Lanes PROVE LaneOK(v)'
    <2>1. ASSUME result'[k].thread = Root(v) PROVE Pending(k, v) /\ Open(PlaceOf(k))
        <3>1. result[k].thread # Root(v)
            BY <1>1, RootOfALane, RootsAndForks DEF HasResult, NoResult
        <3>2. t = Root(v)
            BY <1>4, <1>6, <2>1, <3>1
        <3>3. IsRoot(p) /\ Root(w) = Root(v)
            BY <1>3, <3>2, RootOfALane
        <3>4. w = v
            BY <3>3 DEF Root
        <3>5. Pending(k, w)
            BY <1>1, <1>7, <3>3 DEF OnLaneOK, TurnPart
        <3> QED
            BY <1>1, <3>4, <3>5
    <2> QED
        BY <1>1, <1>5, <1>6, <2>1, LaneAnswered DEF RecordInv
<1>9. \A v \in Places : (Open(v) /\ Started(v) /\ Lane(v) = w) => v = p
    BY <1>1, <1>2, CalledAlone
<1>10. ASSUME NEW q \in Places \ {p} PROVE RootOK(q)'
    <2>1. \A v \in Lanes : v # w => known'[Root(v)] = known[Root(v)]
        <3>1. \A v \in Lanes : v # w => Root(v) # t /\ Root(v) \in Threads
            BY <1>1, <1>3, RootOfALane DEF Root
        <3>2. known' = known \/ \E e : known' = [known EXCEPT ![t] = e]
            BY <1>4 DEF Answered, Lost
        <3> QED
            BY <3>1, <3>2 DEF TypeInv, ProcessShape
    <2>2. call'[q] = call[q] /\ ask'[q] = ask[q] /\ repair'[q] = repair[q]
        BY <1>4, <1>5 DEF TypeInv, ProcessShape
    <2>3. \A v \in Lanes : RecordGrows(v) /\ (v # w => rootContext'[v] = rootContext[v])
        BY <1>5, SameRecord
    <2>4. \A j \in Keys : PlaceOf(j) = q => result'[j] = result[j]
        BY <1>1, <1>6
    <2>5. \A j \in started' : PlaceOf(j) = q => j \in started
        BY <1>5
    <2> QED
        BY <1>2, <1>9, <2>1, <2>2, <2>3, <2>4, <2>5, OthersAlone
<1>11. ASSUME IsRoot(p) PROVE OnLaneOK(p, w)'
    <2>1. call'[p] = how /\ ask'[p] = k /\ repair'[p] = "none"
        BY <1>1, <1>4, <1>5 DEF TypeInv, ProcessShape
    <2>2. OnLaneOK(p, w)
        BY <1>7, <1>11
    <2>3. RepairPart(p, w)'
        <3>1. RepairOf(p) \notin started
            BY <1>1, <2>2 DEF OnLaneOK, RepairPart
        <3> QED
            BY <1>5, <3>1 DEF RepairPart, RepairOf
    <2>4. TurnPart(p, w)'
        BY <1>1, <1>5, <2>1, <2>2 DEF OnLaneOK, TurnPart, Pending
    <2>5. DonePart(p, w)'
        BY <2>1 DEF DonePart
    <2>6. RaisedPart(p)'
        <3>1. ASSUME how = "raised" PROVE (Answer(p) = {})'
            <4>1. SUFFICES ASSUME NEW j \in Answer(p) PROVE FALSE
                BY <1>6, <3>1 DEF Answer, HasResult
            <4>2. PICK initial \in Primaries, retry \in Primaries :
                    initial = <<p[1], p[2], "turn">> /\ retry = <<p[1], p[2], "retry">>
                BY KeysOfAPlace
            <4>3. \A i \in Primaries : PlaceOf(i) = p => i \in {initial, retry}
                <5>1. ASSUME NEW i \in Primaries, PlaceOf(i) = p PROVE i \in {initial, retry}
                    <6>1. i \in {<<i[1], i[2], "turn">>, <<i[1], i[2], "retry">>}
                          /\ i[1] = p[1] /\ i[2] = p[2]
                        BY <5>1, PlaceOfAKey, RootsAndForks
                    <6> QED
                        BY <4>2, <6>1
                <5> QED
                    BY <5>1
            <4>4. HasResult(j) /\ j \in {initial, retry} /\ k \in {initial, retry} /\ j # k
                BY <1>1, <4>3 DEF Answer
            <4>5. j \in started
                BY <4>4, TurnsOf, RootsAndForks DEF Answer
            <4>6. retry \in started => ~HasResult(initial) /\ ask[p] = retry
                BY <1>1, <4>2 DEF RecordInv, QueueInv, RetryOK
            <4> QED
                BY <1>1, <4>4, <4>5, <4>6
        <3> QED
            BY <2>1, <3>1 DEF RaisedPart
    <2>7. KnownPart(p, w)'
        BY <2>1 DEF KnownPart
    <2> QED
        BY <2>3, <2>4, <2>5, <2>6, <2>7 DEF OnLaneOK
<1>12. RootOK(p)'
    <2>1. Lane(p)' = w /\ (IsRoot(p)' => IsRoot(p))
        BY <1>1, <1>2, LaneStays
    <2> QED
        BY <1>11, <2>1 DEF RootOK
<1> QED
    BY <1>8, <1>10, <1>12

LEMMA RecordRecord ==
    ASSUME TypeInv, TypeInv', HomeInv, RecordInv, Kept, OwnersStay, NEW p \in Places, Record(p)
    PROVE  /\ \A v \in Lanes : LaneOK(v)'
           /\ \A q \in Places : RootOK(q)'
<1>1. PICK k \in Primaries :
        /\ k = ask[p] /\ k \in Keys /\ PlaceOf(k) = p /\ k \in started
        /\ HasResult(k) /\ p[1] \in frozen /\ Open(p)
        /\ call[p] = "kept" /\ repair[p] = "none"
    BY RootsAndForks DEF Record, TypeInv, CallOK, Active
<1>2. PICK w \in Lanes : w = Lane(p)
    BY LaneIsALane
<1>3. Records(k, w) /\ UNCHANGED <<settled, contract, result, started, ask, repair, known, parent>>
    BY <1>1, <1>2 DEF Record, process
<1>4. call' = [call EXCEPT ![p] = "done"]
    BY DEF Record
<1>5. /\ IsRoot(p) => result[k].thread = Root(w)
      /\ ~IsRoot(p) => result[k].thread \in Primaries
    BY <1>1, <1>2 DEF HomeInv, ResultOK
<1>6. ASSUME IsRoot(p) PROVE OnLaneOK(p, w) /\ Pending(k, w)
    BY <1>1, <1>2, <1>6 DEF RecordInv, RootOK, OnLaneOK, TurnPart
<1>7. result[k].thread = Root(w) => Pending(k, w)
    BY <1>5, <1>6, RootOfALane
<1>8. \A v \in Lanes : /\ LaneOK(v)' /\ RecordGrows(v)
                       /\ v # w => rootContext'[v] = rootContext[v]
                       /\ result[k].thread # Root(w) => rootContext'[v] = rootContext[v]
    BY <1>1, <1>3, <1>7, LaneRecorded
<1>9. \A v \in Places : (Open(v) /\ Started(v) /\ Lane(v) = w) => v = p
    BY <1>1, <1>2, CalledAlone
<1>10. ASSUME NEW q \in Places \ {p} PROVE RootOK(q)'
    <2>1. call'[q] = call[q] /\ ask'[q] = ask[q] /\ repair'[q] = repair[q]
        BY <1>3, <1>4 DEF TypeInv, ProcessShape
    <2> QED
        BY <1>2, <1>3, <1>8, <1>9, <2>1, OthersAlone
<1>11. ASSUME IsRoot(p) PROVE OnLaneOK(p, w)'
    <2>1. call'[p] = "done" /\ ask'[p] = k /\ repair'[p] = "none"
        BY <1>1, <1>3, <1>4 DEF TypeInv, ProcessShape
    <2>2. OnLaneOK(p, w)
        BY <1>6, <1>11
    <2>3. RepairPart(p, w)'
        <3>1. RepairOf(p) \notin started
            BY <1>1, <2>2 DEF OnLaneOK, RepairPart
        <3> QED
            BY <1>3, <3>1 DEF RepairPart, RepairOf
    <2>4. TurnPart(p, w)'
        BY <2>1 DEF TurnPart
    <2>5. DonePart(p, w)'
        <3>1. rootContext' = [rootContext EXCEPT ![w] = result[k].turns]
            BY <1>3, <1>5, <1>11 DEF Records
        <3>2. rootContext'[w] = result'[k].turns
            BY <1>3, <3>1 DEF TypeInv, StoreShape
        <3> QED
            BY <2>1, <3>2 DEF DonePart
    <2>6. RaisedPart(p)'
        BY <2>1 DEF RaisedPart
    <2>7. KnownPart(p, w)'
        BY <2>1 DEF KnownPart
    <2> QED
        BY <2>3, <2>4, <2>5, <2>6, <2>7 DEF OnLaneOK
<1>12. RootOK(p)'
    <2>1. Lane(p)' = w /\ (IsRoot(p)' => IsRoot(p))
        BY <1>1, <1>2, LaneStays
    <2> QED
        BY <1>11, <2>1 DEF RootOK
<1> QED
    BY <1>8, <1>10, <1>12

\* A slot is settled when its answers are on the record of its lane.
LEMMA SettledRecord ==
    ASSUME TypeInv, HomeInv, RecordInv, NEW p \in Places, TakeAnswer(p) \/ TakeRepair(p),
           NEW w \in Lanes, NEW j \in OnRoot(w), PlaceOf(j) = p
    PROVE  OnRecord(j, w)
<1>1. j \in Keys /\ HasResult(j) /\ IsRoot(p) /\ w = Lane(p) /\ j \in started
    BY OnRootPlace, TurnsOf
<1>2. OnLaneOK(p, w)
    BY <1>1 DEF RecordInv, RootOK
<1>3. Open(p)
    BY DEF TakeAnswer, TakeRepair, Current
<1>4. j \in Primaries => j \in Answer(p)
    BY <1>1 DEF Answer
<1>5. j \notin Primaries => j = RepairOf(p) /\ RepairOf(p) \in started
    BY <1>1, PlaceOfAKey
<1>6. ASSUME NEW i \in Keys, HasResult(i), rootContext[w] = result[i].turns PROVE OnRecord(i, w)
    BY <1>6, TurnsOf, PrefixSelf DEF OnRecord
<1>7. CASE TakeAnswer(p)
    <2>1. repair[p] = "none" /\ call[p] \in {"done", "raised", "already_loaded"}
        BY <1>7 DEF TakeAnswer
    <2>2. RepairOf(p) \notin started
        BY <1>2, <2>1 DEF OnLaneOK, RepairPart
    <2>3. j \in Answer(p)
        BY <1>4, <1>5, <2>2
    <2>4. call[p] = "done"
        BY <1>2, <2>1, <2>3 DEF OnLaneOK, RaisedPart
    <2>5. ask[p] \in Answer(p) /\ ask[p] \in Keys /\ HasResult(ask[p])
        BY <2>4, Answering DEF Answer
    <2>6. ask[p] = j
        BY <2>3, <2>5, OneAnswer DEF RecordInv, QueueInv
    <2>7. rootContext[w] = result[j].turns
        BY <1>2, <1>3, <2>1, <2>4, <2>6 DEF OnLaneOK, DonePart
    <2> QED
        BY <1>1, <1>6, <2>7
<1>8. CASE TakeRepair(p)
    <2>1. repair[p] \in {"done", "raised"}
        BY <1>2, <1>8 DEF TakeRepair, OnLaneOK, RaisedPart
    <2>2. RepairOf(p) \in started
        BY <2>1 DEF TypeInv, CallOK
    <2>3. CASE j \in Primaries
        BY <1>1, <1>4, <2>2, <2>3, RepairAfterAnswer
    <2>4. CASE j \notin Primaries
        <3>1. j = RepairOf(p)
            BY <1>5, <2>4
        <3>2. repair[p] = "done"
            BY <1>1, <1>2, <2>1, <3>1 DEF OnLaneOK, RaisedPart
        <3>3. rootContext[w] = result[j].turns
            BY <1>2, <1>3, <3>1, <3>2 DEF OnLaneOK, DonePart
        <3> QED
            BY <1>1, <1>6, <3>3
    <2> QED
        BY <2>3, <2>4
<1> QED
    BY <1>7, <1>8

LEMMA TakeRecord ==
    ASSUME TypeInv, TypeInv', HomeInv, RecordInv, Kept, NEW p \in Places,
           TakeAnswer(p) \/ TakeRepair(p)
    PROVE  /\ \A v \in Lanes : LaneOK(v)'
           /\ \A q \in Places : RootOK(q)'
<1>1. UNCHANGED <<rootContext, contract, result, started, ask, call, repair, known>>
    BY DEF TakeAnswer, TakeRepair, Settles, process, calls
<1>2. \A q \in Places : q # p => settled'[q] = settled[q]
    BY DEF TakeAnswer, TakeRepair, Settles, TypeInv, StoreShape
<1>3. ASSUME NEW v \in Lanes PROVE LaneOK(v)'
    <2>1. ASSUME NEW j \in OnRoot(v), ~OnRecord(j, v)
          PROVE  settled'[PlaceOf(j)] = settled[PlaceOf(j)]
        <3>1. PlaceOf(j) \in Places
            BY OnRootPlace
        <3>2. PlaceOf(j) # p
            BY <2>1, SettledRecord
        <3> QED
            BY <1>2, <3>1, <3>2
    <2> QED
        BY <1>1, <2>1, LaneAlone DEF RecordInv
<1>4. ASSUME NEW q \in Places PROVE RootOK(q)'
    <2>1. \A v \in Lanes : RecordGrows(v)
        BY <1>1, SameRecord
    <2> QED
        BY <1>1, <2>1, RootAlone DEF RecordInv
<1> QED
    BY <1>3, <1>4

LEMMA RepairRecord ==
    ASSUME TypeInv, TypeInv', HomeInv, RecordInv, Kept, OwnersStay, NEW p \in Places, Repair(p)
    PROVE  /\ \A v \in Lanes : LaneOK(v)'
           /\ \A q \in Places : RootOK(q)'
<1>1. PICK k \in Primaries :
        /\ k = ask[p] /\ k \in Keys /\ PlaceOf(k) = p /\ HasResult(k)
        /\ p[1] \in frozen /\ p[1] = gen /\ Open(p) /\ call[p] = "done" /\ repair[p] = "none"
    BY Answering DEF Repair, Current, Here
<1>2. PICK w \in Lanes : w = Lane(p)
    BY LaneIsALane
<1>3. PICK r \in Keys : r = RepairOf(p) /\ PlaceOf(r) = p /\ r \notin Primaries
    BY KeysOfAPlace DEF Keys
<1>4. PICK t \in Threads, turns \in Seq(Turn) :
        t = result[k].thread /\ turns = result[k].turns /\ turns # <<>>
    BY <1>1, TurnsOf
<1>5. PICK o : o = owner[t]
    OBVIOUS
<1>6. PICK how \in {"not_repeated", "already_loaded", "raised", "contract_changed",
                    "kept", "turn"} :
        /\ repair' = [repair EXCEPT ![p] = how]
        /\ \/ /\ how = AskedOutcome(r, o, turns) /\ (r \in started => HasResult(r))
              /\ ContextOutcome(o, t) = "ok" /\ Activates(t, turns)
              /\ Signs(r, turns) /\ known' = [known EXCEPT ![t] = turns]
           \/ /\ how \in {"not_repeated", "already_loaded", "raised"}
              /\ UNCHANGED <<contract, known>>
        /\ how = "already_loaded" => ContextOutcome(o, t) = "already_loaded"
    <2>1. t = result[ask[p]].thread /\ turns = result[ask[p]].turns
        BY <1>1, <1>4
    <2>2. \E how \in {"not_repeated", "already_loaded", "raised", "contract_changed",
                      "kept", "turn"} :
              /\ repair' = [repair EXCEPT ![p] = how]
              /\ \/ /\ how = AskedOutcome(r, o, turns) /\ (r \in started => HasResult(r))
                    /\ ContextOutcome(o, t) = "ok" /\ Activates(t, turns)
                    /\ Signs(r, turns) /\ known' = [known EXCEPT ![t] = turns]
                 \/ /\ how \in {"not_repeated", "already_loaded", "raised"}
                    /\ UNCHANGED <<contract, known>>
                    /\ how = "already_loaded" => ContextOutcome(o, t) = "already_loaded"
        BY <1>3, <1>5, <2>1, AskingRepair
    <2>3. ASSUME NEW how, how = AskedOutcome(r, o, turns) PROVE how # "already_loaded"
        BY <2>3, AskedOutcomes
    <2> QED
        BY <2>2, <2>3
<1>7. /\ UNCHANGED <<result, rootContext, settled, parent, ask, call>>
      /\ started' = started \cup {r}
    BY <1>3 DEF Repair
<1>8. \A v \in Lanes : LaneOK(v)'
    BY <1>7, LaneAlone DEF RecordInv
<1>9. \A v \in Places : (Open(v) /\ Started(v) /\ Lane(v) = w) => v = p
    BY <1>1, <1>2, CalledAlone
<1>10. /\ IsRoot(p) => t = Root(w)
       /\ ~IsRoot(p) => t \in Primaries
    BY <1>1, <1>2, <1>4 DEF HomeInv, ResultOK
<1>11. ASSUME NEW q \in Places \ {p} PROVE RootOK(q)'
    <2>1. \A v \in Lanes : v # w => known'[Root(v)] = known[Root(v)]
        <3>1. \A v \in Lanes : v # w => Root(v) # t /\ Root(v) \in Threads
            BY <1>10, RootOfALane DEF Root
        <3>2. known' = known \/ known' = [known EXCEPT ![t] = turns]
            BY <1>6
        <3> QED
            BY <3>1, <3>2 DEF TypeInv, ProcessShape
    <2>2. call'[q] = call[q] /\ ask'[q] = ask[q] /\ repair'[q] = repair[q]
        BY <1>6, <1>7 DEF TypeInv, ProcessShape
    <2>3. \A v \in Lanes : RecordGrows(v) /\ (v # w => rootContext'[v] = rootContext[v])
        BY <1>7, SameRecord
    <2>4. \A j \in Keys : PlaceOf(j) = q => result'[j] = result[j]
        BY <1>7
    <2>5. \A j \in started' : PlaceOf(j) = q => j \in started
        BY <1>3, <1>7
    <2> QED
        BY <1>2, <1>9, <2>1, <2>2, <2>3, <2>4, <2>5, OthersAlone
<1>12. ASSUME IsRoot(p) PROVE OnLaneOK(p, w)'
    <2>1. call'[p] = "done" /\ ask'[p] = k /\ repair'[p] = how
        BY <1>1, <1>6, <1>7 DEF TypeInv, ProcessShape
    <2>2. OnLaneOK(p, w)
        BY <1>2, <1>12 DEF RecordInv, RootOK
    <2>3. r \notin started /\ ~HasResult(r) /\ contract[r] = <<>>
        <3>1. r \notin started
            BY <1>1, <1>3, <2>2 DEF OnLaneOK, RepairPart
        <3> QED
            BY <3>1 DEF TypeInv, KeyOK
    <2>4. rootContext[w] = turns /\ t = Root(w)
        BY <1>1, <1>4, <1>10, <1>12, <2>2 DEF OnLaneOK, DonePart
    <2>5. o = w
        <3>1. Owned(k) /\ t \in RootThreads /\ t[2] = w
            BY <1>1, <2>4, Answering, RootOfALane DEF Root
        <3>2. owner[t] # 0 /\ Home(t) = w
            BY <1>4, <3>1 DEF Owned, Home
        <3> QED
            BY <1>5, <3>2 DEF HomeInv, ThreadOK
    <2>6. ContextOutcome(o, t) = "ok"
        <3>1. pc = "running"
            BY <1>1, Answering
        <3>2. Root(w) \in registered[w]
            BY <3>1 DEF RecordInv, QueueInv, LanesUp
        <3> QED
            BY <2>4, <2>5, <3>2 DEF ContextOutcome
    <2>7. RepairPart(p, w)'
        <3>1. IsPrefix(turns, turns)
            BY PrefixSelf
        <3>2. (k \in Answer(p) /\ OnRecord(k, w))'
            BY <1>1, <1>4, <1>7, <2>4, <3>1 DEF Answer, OnRecord, HasResult, PlaceOf
        <3> QED
            BY <2>1, <3>2 DEF RepairPart
    <2>8. TurnPart(p, w)'
        <3>1. SUFFICES ASSUME how \in {"turn", "kept"} PROVE contract'[r] = turns
            BY <1>3, <1>7, <2>1, <2>4 DEF TurnPart, Pending, RepairOf
        <3>2. Signs(r, turns)
            BY <1>6, <3>1
        <3> QED
            BY <1>4, <2>3, <3>2, Signature
    <2>9. DonePart(p, w)'
        <3>1. how # "done"
            OBVIOUS
        <3> QED
            BY <1>4, <1>7, <2>1, <2>4, <3>1 DEF DonePart
    <2>10. RaisedPart(p)'
        <3>1. how # "already_loaded" /\ ~HasResult(r)'
            BY <1>6, <1>7, <2>3, <2>6 DEF HasResult
        <3> QED
            BY <1>3, <2>1, <3>1 DEF RaisedPart, HasResult, RepairOf
    <2>11. KnownPart(p, w)'
        BY <2>1 DEF KnownPart
    <2> QED
        BY <2>7, <2>8, <2>9, <2>10, <2>11 DEF OnLaneOK
<1>13. RootOK(p)'
    <2>1. Lane(p)' = w /\ (IsRoot(p)' => IsRoot(p))
        BY <1>1, <1>2, LaneStays
    <2> QED
        BY <1>12, <2>1 DEF RootOK
<1> QED
    BY <1>8, <1>11, <1>13

LEMMA EndRepairRecord ==
    ASSUME TypeInv, TypeInv', HomeInv, RecordInv, Kept, OwnersStay, NEW p \in Places, EndRepair(p)
    PROVE  /\ \A v \in Lanes : LaneOK(v)'
           /\ \A q \in Places : RootOK(q)'
<1>1. PICK r \in Repairs :
        /\ r = RepairOf(p) /\ r \in Keys /\ PlaceOf(r) = p /\ r \notin Primaries
        /\ r \in started /\ ~HasResult(r) /\ call[p] = "done" /\ repair[p] = "turn" /\ Open(p)
    BY Repairing DEF EndRepair
<1>2. PICK w \in Lanes : w = Lane(p)
    BY LaneIsALane
<1>3. PICK k \in Primaries :
        k = ask[p] /\ k \in Keys /\ PlaceOf(k) = p /\ HasResult(k) /\ p[1] \in frozen
    BY <1>1, Answering
<1>4. PICK t \in Threads : t = result[k].thread
    BY <1>3, TurnsOf
<1>5. PICK o : o = owner[t]
    OBVIOUS
<1>6. PICK how \in {"kept", "raised"} :
        /\ repair' = [repair EXCEPT ![p] = how]
        /\ \/ how = "kept" /\ Answered(r, t)
           \/ how = "raised" /\ Lost(r, t, o)
    BY <1>1, <1>3, <1>4, <1>5 DEF EndRepair
<1>7. UNCHANGED <<rootContext, settled, contract, started, ask, call, parent, owner>>
    BY DEF EndRepair
<1>8. /\ \A j \in Keys \ {r} : result'[j] = result[j]
      /\ how = "kept" => result'[r].thread = t
      /\ how = "raised" => result' = result
    BY <1>1, <1>6 DEF Answered, Lost, TypeInv, StoreShape
<1>9. /\ IsRoot(p) => t = Root(w)
      /\ ~IsRoot(p) => t \in Primaries
    BY <1>2, <1>3, <1>4 DEF HomeInv, ResultOK
<1>10. ASSUME IsRoot(p) PROVE OnLaneOK(p, w)
    BY <1>2, <1>10 DEF RecordInv, RootOK
<1>11. ASSUME NEW v \in Lanes PROVE LaneOK(v)'
    <2>1. ASSUME result'[r].thread = Root(v) PROVE Pending(r, v) /\ Open(PlaceOf(r))
        <3>1. result[r].thread # Root(v)
            BY <1>1, RootOfALane, RootsAndForks DEF HasResult, NoResult
        <3>2. t = Root(v)
            BY <1>6, <1>8, <2>1, <3>1
        <3>3. IsRoot(p) /\ Root(w) = Root(v)
            BY <1>9, <3>2, RootOfALane
        <3>4. w = v
            BY <3>3 DEF Root
        <3>5. Pending(r, w)
            BY <1>1, <1>10, <3>3 DEF OnLaneOK, TurnPart
        <3> QED
            BY <1>1, <3>4, <3>5
    <2> QED
        BY <1>1, <1>7, <1>8, <2>1, LaneAnswered DEF RecordInv
<1>12. \A v \in Places : (Open(v) /\ Started(v) /\ Lane(v) = w) => v = p
    BY <1>1, <1>2, CalledAlone
<1>13. ASSUME NEW q \in Places \ {p} PROVE RootOK(q)'
    <2>1. \A v \in Lanes : v # w => known'[Root(v)] = known[Root(v)]
        <3>1. \A v \in Lanes : v # w => Root(v) # t /\ Root(v) \in Threads
            BY <1>9, RootOfALane DEF Root
        <3>2. known' = known \/ \E e : known' = [known EXCEPT ![t] = e]
            BY <1>6 DEF Answered, Lost
        <3> QED
            BY <3>1, <3>2 DEF TypeInv, ProcessShape
    <2>2. call'[q] = call[q] /\ ask'[q] = ask[q] /\ repair'[q] = repair[q]
        BY <1>6, <1>7 DEF TypeInv, ProcessShape
    <2>3. \A v \in Lanes : RecordGrows(v) /\ (v # w => rootContext'[v] = rootContext[v])
        BY <1>7, SameRecord
    <2>4. \A j \in Keys : PlaceOf(j) = q => result'[j] = result[j]
        BY <1>1, <1>8
    <2>5. \A j \in started' : PlaceOf(j) = q => j \in started
        BY <1>7
    <2> QED
        BY <1>2, <1>12, <2>1, <2>2, <2>3, <2>4, <2>5, OthersAlone
<1>14. ASSUME IsRoot(p) PROVE OnLaneOK(p, w)'
    <2>1. call'[p] = "done" /\ ask'[p] = k /\ repair'[p] = how /\ result'[k] = result[k]
        BY <1>1, <1>3, <1>6, <1>7, <1>8 DEF TypeInv, ProcessShape
    <2>2. OnLaneOK(p, w)
        BY <1>10, <1>14
    <2>3. RepairPart(p, w)'
        <3>1. PICK j \in Answer(p) : OnRecord(j, w)
            BY <1>1, <2>2 DEF OnLaneOK, RepairPart
        <3>2. j \in Primaries /\ j \in Keys \ {r} /\ result'[j] = result[j]
            BY <1>1, <1>8, RootsAndForks DEF Answer
        <3>3. (j \in Answer(p) /\ OnRecord(j, w))'
            BY <1>7, <3>1, <3>2 DEF Answer, OnRecord, HasResult
        <3> QED
            BY <2>1, <3>3 DEF RepairPart
    <2>4. TurnPart(p, w)'
        BY <1>1, <1>7, <2>1, <2>2 DEF OnLaneOK, TurnPart, Pending, RepairOf
    <2>5. DonePart(p, w)'
        BY <1>1, <1>3, <1>7, <2>1, <2>2 DEF OnLaneOK, DonePart
    <2>6. RaisedPart(p)'
        BY <1>1, <1>8, <2>1 DEF RaisedPart, HasResult, RepairOf
    <2>7. KnownPart(p, w)'
        BY <2>1 DEF KnownPart
    <2> QED
        BY <2>3, <2>4, <2>5, <2>6, <2>7 DEF OnLaneOK
<1>15. RootOK(p)'
    <2>1. Lane(p)' = w /\ (IsRoot(p)' => IsRoot(p))
        BY <1>2, <1>3, LaneStays
    <2> QED
        BY <1>14, <2>1 DEF RootOK
<1> QED
    BY <1>11, <1>13, <1>15

LEMMA RecordRepairRecord ==
    ASSUME TypeInv, TypeInv', HomeInv, RecordInv, Kept, OwnersStay,
           NEW p \in Places, RecordRepair(p)
    PROVE  /\ \A v \in Lanes : LaneOK(v)'
           /\ \A q \in Places : RootOK(q)'
<1>1. PICK r \in Repairs :
        /\ r = RepairOf(p) /\ r \in Keys /\ PlaceOf(r) = p /\ r \notin Primaries
        /\ r \in started /\ HasResult(r) /\ call[p] = "done" /\ repair[p] = "kept" /\ Open(p)
    BY Repairing DEF RecordRepair
<1>2. PICK w \in Lanes : w = Lane(p)
    BY LaneIsALane
<1>3. PICK k \in Primaries : k = ask[p] /\ k \in Keys /\ PlaceOf(k) = p /\ p[1] \in frozen
    BY <1>1, Answering
<1>4. /\ Records(r, w) /\ repair' = [repair EXCEPT ![p] = "done"]
      /\ UNCHANGED <<settled, contract, result, started, ask, call, known, parent>>
    BY <1>1, <1>2 DEF RecordRepair, process
<1>5. /\ IsRoot(p) => result[r].thread = Root(w)
      /\ ~IsRoot(p) => result[r].thread \in Primaries
    BY <1>1, <1>2 DEF HomeInv, ResultOK
<1>6. ASSUME IsRoot(p) PROVE OnLaneOK(p, w) /\ Pending(r, w)
    BY <1>1, <1>2, <1>6 DEF RecordInv, RootOK, OnLaneOK, TurnPart
<1>7. result[r].thread = Root(w) => Pending(r, w)
    BY <1>5, <1>6, RootOfALane
<1>8. \A v \in Lanes : /\ LaneOK(v)' /\ RecordGrows(v)
                       /\ v # w => rootContext'[v] = rootContext[v]
                       /\ result[r].thread # Root(w) => rootContext'[v] = rootContext[v]
    BY <1>1, <1>4, <1>7, LaneRecorded
<1>9. \A v \in Places : (Open(v) /\ Started(v) /\ Lane(v) = w) => v = p
    BY <1>1, <1>2, CalledAlone
<1>10. ASSUME NEW q \in Places \ {p} PROVE RootOK(q)'
    <2>1. call'[q] = call[q] /\ ask'[q] = ask[q] /\ repair'[q] = repair[q]
        BY <1>4 DEF TypeInv, ProcessShape
    <2> QED
        BY <1>2, <1>4, <1>8, <1>9, <2>1, OthersAlone
<1>11. ASSUME IsRoot(p) PROVE OnLaneOK(p, w)'
    <2>1. call'[p] = "done" /\ ask'[p] = k /\ repair'[p] = "done"
        BY <1>1, <1>3, <1>4 DEF TypeInv, ProcessShape
    <2>2. OnLaneOK(p, w)
        BY <1>6, <1>11
    <2>3. RepairPart(p, w)'
        <3>1. PICK j \in Answer(p) : OnRecord(j, w)
            BY <1>1, <2>2 DEF OnLaneOK, RepairPart
        <3>2. j \in Keys /\ HasResult(j)
            BY RootsAndForks DEF Answer
        <3>3. OnRecord(j, w)'
            BY <1>4, <1>8, <3>1, <3>2, OnRecordNext
        <3>4. (j \in Answer(p))'
            BY <1>4 DEF Answer, HasResult
        <3> QED
            BY <2>1, <3>3, <3>4 DEF RepairPart
    <2>4. TurnPart(p, w)'
        BY <2>1 DEF TurnPart
    <2>5. DonePart(p, w)'
        <3>1. rootContext' = [rootContext EXCEPT ![w] = result[r].turns]
            BY <1>4, <1>5, <1>11 DEF Records
        <3>2. rootContext'[w] = result'[r].turns
            BY <1>4, <3>1 DEF TypeInv, StoreShape
        <3> QED
            BY <1>1, <2>1, <3>2 DEF DonePart, RepairOf
    <2>6. RaisedPart(p)'
        BY <2>1 DEF RaisedPart
    <2>7. KnownPart(p, w)'
        BY <2>1 DEF KnownPart
    <2> QED
        BY <2>3, <2>4, <2>5, <2>6, <2>7 DEF OnLaneOK
<1>12. RootOK(p)'
    <2>1. Lane(p)' = w /\ (IsRoot(p)' => IsRoot(p))
        BY <1>2, <1>3, LaneStays
    <2> QED
        BY <1>11, <2>1 DEF RootOK
<1> QED
    BY <1>8, <1>10, <1>12

LEMMA ForkChildRecord ==
    ASSUME TypeInv, TypeInv', HomeInv, RecordInv, Kept, OwnersStay,
           NEW p \in Places, NEW k \in KeysOf(p), ForkChild(p, k)
    PROVE  /\ \A v \in Lanes : LaneOK(v)'
           /\ \A q \in Places : RootOK(q)'
<1>1. Asks(p, k) /\ ~IsRoot(p) /\ UNCHANGED <<rootContext, result, settled, repair>>
    BY DEF ForkChild
<1>2. /\ k \in Primaries /\ PlaceOf(k) = p /\ p[1] \in frozen
      /\ started' = started \cup {k} /\ ask' = [ask EXCEPT ![p] = k]
    BY <1>1, Asked
<1>3. PICK w \in Lanes, from \in Result,
           how \in {"already_loaded", "raised", "forked", "fork_crossed"},
           has \in SUBSET Threads, makes \in SUBSET {k} :
        /\ w = Lane(p) /\ from = result[parent[p]] /\ from.thread \in Threads
        /\ call' = [call EXCEPT ![p] = how]
        /\ has \in {{}, {from.thread}} /\ makes = IF how = "forked" /\ fork[k] = <<>> THEN {k} ELSE {}
        /\ registered' = [registered EXCEPT ![w] = registered[w] \cup has]
        /\ loaded' = [loaded EXCEPT ![w] = loaded[w] \cup has \cup makes]
        /\ saved' = [saved EXCEPT ![w] = saved[w] \cup has]
        /\ \/ /\ how = "forked" /\ fork[k] = <<>>
              /\ history' = [history EXCEPT ![k] = from.turns]
              /\ fork' = [fork EXCEPT ![k] = from.turns]
              /\ known' = [known EXCEPT ![k] = from.turns]
           \/ ~(how = "forked" /\ fork[k] = <<>>) /\ UNCHANGED <<history, fork, known>>
    BY Forking, ZenonT(30)
<1>4. PICK turns : /\ turns = from.turns
                   /\ known' = known \/ known' = [known EXCEPT ![k] = turns]
    BY <1>3
<1>5. \A v \in Lanes : LaneOK(v)'
    BY <1>1, LaneAlone DEF RecordInv
<1>6. \A v \in Places : (Open(v) /\ Started(v) /\ Lane(v) = w) => v = p
    BY <1>1, <1>3, AskedInTurn DEF RecordInv
<1>7. ASSUME NEW q \in Places \ {p} PROVE RootOK(q)'
    <2>1. \A v \in Lanes : v # w => known'[Root(v)] = known[Root(v)]
        <3>1. \A v \in Lanes : Root(v) # k /\ Root(v) \in Threads
            BY <1>2, RootOfALane
        <3> QED
            BY <1>4, <3>1 DEF TypeInv, ProcessShape
    <2>2. call'[q] = call[q] /\ ask'[q] = ask[q] /\ repair'[q] = repair[q]
        BY <1>1, <1>2, <1>3 DEF TypeInv, ProcessShape
    <2>3. \A v \in Lanes : RecordGrows(v) /\ (v # w => rootContext'[v] = rootContext[v])
        BY <1>1, SameRecord
    <2>4. \A j \in Keys : PlaceOf(j) = q => result'[j] = result[j]
        BY <1>1
    <2>5. \A j \in started' : PlaceOf(j) = q => j \in started
        BY <1>2
    <2> QED
        BY <1>3, <1>6, <2>1, <2>2, <2>3, <2>4, <2>5, OthersAlone
<1>8. RootOK(p)'
    BY <1>1, <1>2, LaneStays DEF RootOK
<1> QED
    BY <1>5, <1>7, <1>8

LEMMA AskChildRecord ==
    ASSUME TypeInv, TypeInv', HomeInv, RecordInv, Kept, OwnersStay, NEW p \in Places, AskChild(p)
    PROVE  /\ \A v \in Lanes : LaneOK(v)'
           /\ \A q \in Places : RootOK(q)'
<1>1. call[p] = "forked" /\ ~IsRoot(p) /\ p[1] \in frozen /\ Open(p)
    BY DEF AskChild, IsRoot, TypeInv, CallOK, Active
<1>2. UNCHANGED <<rootContext, result, settled, started, ask, repair, known>>
    BY DEF AskChild, process
<1>3. PICK w \in Lanes : w = Lane(p)
    BY LaneIsALane
<1>4. PICK how : call' = [call EXCEPT ![p] = how]
    BY DEF AskChild
<1>5. \A v \in Lanes : LaneOK(v)'
    BY <1>2, LaneAlone DEF RecordInv
<1>6. \A v \in Places : (Open(v) /\ Started(v) /\ Lane(v) = w) => v = p
    BY <1>1, <1>3, CalledAlone
<1>7. ASSUME NEW q \in Places \ {p} PROVE RootOK(q)'
    <2>1. call'[q] = call[q] /\ ask'[q] = ask[q] /\ repair'[q] = repair[q]
        BY <1>2, <1>4 DEF TypeInv, ProcessShape
    <2>2. \A v \in Lanes : RecordGrows(v) /\ (v # w => rootContext'[v] = rootContext[v])
        BY <1>2, SameRecord
    <2> QED
        BY <1>2, <1>3, <1>6, <2>1, <2>2, OthersAlone
<1>8. RootOK(p)'
    BY <1>1, LaneStays DEF RootOK
<1> QED
    BY <1>5, <1>7, <1>8

LEMMA FreezeTopologyRecord ==
    ASSUME TypeInv, TypeInv', HomeInv, RecordInv, Kept, FreezeTopology
    PROVE  /\ \A v \in Lanes : LaneOK(v)'
           /\ \A q \in Places : RootOK(q)'
<1>1. /\ \A w \in Lanes : rootContext[w] = <<>>
      /\ pc = "coordinator" /\ UNCHANGED <<result, started, known, call, ask, repair>>
    BY DEF FreezeTopology, NoTopology, process, calls
<1>2. ASSUME NEW w \in Lanes, NEW k \in OnRoot(w) PROVE FALSE
    <2>1. k \in Keys /\ HasResult(k)
        BY DEF OnRoot
    <2>2. result[k].turns \in Seq(Turn) /\ result[k].turns # <<>> /\ contract[k] # <<>>
        BY <2>1, TurnsOf
    <2>3. ~OnRecord(k, w)
        BY <1>1, <2>2, NotOnEmpty DEF OnRecord
    <2>4. Pending(k, w)
        BY <2>3 DEF RecordInv, LaneOK
    <2> QED
        BY <1>1, <2>2, <2>4 DEF Pending
<1>3. ASSUME NEW w \in Lanes PROVE LaneOK(w)'
    <2>1. \A k \in Keys : (k \in OnRoot(w))' => k \in OnRoot(w)
        BY <1>1 DEF OnRoot, HasResult
    <2> QED
        BY <1>2, <2>1 DEF LaneOK, OnRoot
<1>4. ASSUME NEW q \in Places PROVE RootOK(q)'
    <2>1. \A v \in Lanes : RecordGrows(v)
        BY <1>1 DEF RecordGrows
    <2>2. call[q] = "none"
        BY <1>1, NobodyCalls
    <2> QED
        BY <1>1, <2>1, <2>2, RootAlone DEF RecordInv
<1> QED
    BY <1>3, <1>4

\* A step of the process that answers, records and settles nothing.
LEMMA ProcessRecord ==
    ASSUME TypeInv, TypeInv', RecordInv, Kept,
           UNCHANGED <<rootContext, result, settled, started>>,
           \/ UNCHANGED <<call, ask, repair, known>>
           \/ \A p \in Places : call'[p] = "none" /\ repair'[p] = "none"
                                /\ \A w \in Lanes : known'[Root(w)] = <<>>
    PROVE  /\ \A v \in Lanes : LaneOK(v)'
           /\ \A q \in Places : RootOK(q)'
<1>1. \A v \in Lanes : LaneOK(v)'
    BY LaneAlone DEF RecordInv
<1>2. ASSUME NEW q \in Places PROVE RootOK(q)'
    <2>1. \A v \in Lanes : RecordGrows(v)
        BY SameRecord
    <2>2. PICK w \in Lanes : w = Lane(q)
        BY LaneIsALane
    <2>3. \/ call'[q] = call[q] /\ ask'[q] = ask[q] /\ repair'[q] = repair[q]
          \/ call'[q] = "none" /\ repair'[q] = "none"
        OBVIOUS
    <2>4. (call'[q] = "none" /\ known'[Root(w)] # <<>>) =>
              call[q] = "none" /\ (known[Root(w)] # <<>> \/ ~(Open(q) /\ Started(q)))
        <3>1. CASE UNCHANGED <<call, ask, repair, known>>
            BY <3>1
        <3>2. CASE \A p \in Places : call'[p] = "none" /\ repair'[p] = "none"
                                /\ \A v \in Lanes : known'[Root(v)] = <<>>
            BY <3>2
        <3> QED
            BY <3>1, <3>2
    <2> QED
        BY <2>1, <2>2, <2>3, <2>4, RootAlone DEF RecordInv
<1> QED
    BY <1>1, <1>2

LEMMA RecordInit == ASSUME Init PROVE RecordInv
<1>1. QueueInv
    BY QueueInit
<1>2. \A k \in Keys : ~HasResult(k)
    BY DEF Init, HasResult
<1>3. \A w \in Lanes : LaneOK(w)
    BY <1>2 DEF LaneOK, OnRoot
<1>4. ASSUME NEW p \in Places PROVE RootOK(p)
    <2>1. call[p] = "none" /\ repair[p] = "none" /\ started = {}
        BY DEF Init, NoCalls
    <2> QED
        BY <2>1 DEF RootOK, OnLaneOK, RepairPart, TurnPart, DonePart, RaisedPart, KnownPart, Started
<1> QED
    BY <1>1, <1>3, <1>4 DEF RecordInv

LEMMA RecordNext ==
    ASSUME TypeInv, HomeInv, RecordInv, [Next]_vars
    PROVE  TypeInv' /\ HomeInv' /\ RecordInv'
<1>1. TypeInv' /\ HomeInv' /\ Kept /\ OwnersStay
    BY HomeNext
<1>2. QueueInv'
    BY QueueNext DEF RecordInv
<1>3. SUFFICES (\A v \in Lanes : LaneOK(v)') /\ (\A q \in Places : RootOK(q)')
    BY <1>1, <1>2 DEF RecordInv
<1>4. CASE UNCHANGED vars
    <2>1. UNCHANGED <<rootContext, result, settled, started, call, ask, repair, known>>
        BY <1>4 DEF vars, store, calls, process
    <2> QED
        BY <1>1, <2>1, ProcessRecord
<1>5. CASE OpenPool \/ CloseCoordinator \/ BeginGeneration \/ EndGeneration
    <2>1. UNCHANGED <<rootContext, result, settled, started, call, ask, repair, known>>
        BY <1>5 DEF OpenPool, CloseCoordinator, BeginGeneration, EndGeneration,
                    store, calls, process
    <2> QED
        BY <1>1, <2>1, ProcessRecord
<1>6. ASSUME NEW w \in Lanes, ForkRoot(w) \/ StartLane(w)
      PROVE  (\A v \in Lanes : LaneOK(v)') /\ (\A q \in Places : RootOK(q)')
    <2>1. UNCHANGED <<rootContext, result, settled, started, call, ask, repair, known>>
        BY <1>6 DEF ForkRoot, StartLane, calls
    <2> QED
        BY <1>1, <2>1, ProcessRecord
<1>7. CASE Stop
    <2>1. UNCHANGED <<rootContext, result, settled, started>>
        BY <1>7 DEF Stop, store
    <2>2. ASSUME NEW p \in Places
          PROVE  call'[p] = "none" /\ repair'[p] = "none"
                 /\ \A w \in Lanes : known'[Root(w)] = <<>>
        <3>1. \A w \in Lanes : Root(w) \in Threads
            BY RootOfALane
        <3> QED
            BY <1>7, <3>1 DEF Stop
    <2> QED
        BY <1>1, <2>1, <2>2, ProcessRecord
<1>8. CASE FreezeTopology
    BY <1>1, <1>8, FreezeTopologyRecord
<1>9. ASSUME NEW p \in Places, NEW k \in KeysOf(p), AskRoot(p, k) \/ ForkChild(p, k)
      PROVE  (\A v \in Lanes : LaneOK(v)') /\ (\A q \in Places : RootOK(q)')
    BY <1>1, <1>9, AskRootRecord, ForkChildRecord
<1>10. ASSUME NEW p \in Places, AskChild(p) \/ EndTurn(p) \/ Record(p)
       PROVE  (\A v \in Lanes : LaneOK(v)') /\ (\A q \in Places : RootOK(q)')
    BY <1>1, <1>10, AskChildRecord, EndTurnRecord, RecordRecord
<1>11. ASSUME NEW p \in Places, Repair(p) \/ EndRepair(p) \/ RecordRepair(p)
       PROVE  (\A v \in Lanes : LaneOK(v)') /\ (\A q \in Places : RootOK(q)')
    BY <1>1, <1>11, RepairRecord, EndRepairRecord, RecordRepairRecord
<1>12. ASSUME NEW p \in Places, TakeAnswer(p) \/ TakeRepair(p)
       PROVE  (\A v \in Lanes : LaneOK(v)') /\ (\A q \in Places : RootOK(q)')
    BY <1>1, <1>12, TakeRecord
<1> QED
    BY <1>4, <1>5, <1>6, <1>7, <1>8, <1>9, <1>10, <1>11, <1>12 DEF Next, Call

(* Of two answers on the root thread of a lane one was asked after all the turns
   the other has on record: what the provider writes down of a lane is one line
   of turns, over any number of processes that open the workspace, answers lost
   or retained before they were recorded, retries and repairs.                *)
THEOREM AnswersNest == Spec => []AnswersOfALaneNest
<1>1. ASSUME TypeInv, HomeInv, RecordInv, NEW w \in Lanes,
             NEW k \in OnRoot(w), NEW j \in OnRoot(w)
      PROVE  \/ IsPrefix(result[k].turns, result[j].turns)
             \/ IsPrefix(result[j].turns, result[k].turns)
    <2>1. k \in Keys /\ HasResult(k) /\ j \in Keys /\ HasResult(j)
        BY DEF OnRoot
    <2>2. PICK s \in Seq(Turn), t \in Seq(Turn), c \in Seq(Turn) :
            s = result[k].turns /\ t = result[j].turns /\ c = rootContext[w]
        BY <1>1, <2>1, TurnsOf DEF TypeInv, StoreShape
    <2>3. ASSUME NEW i \in OnRoot(w), ~OnRecord(i, w)
          PROVE  i \in Turn /\ result[i].turns = Append(c, i)
        <3>1. i \in Keys /\ HasResult(i)
            BY DEF OnRoot
        <3>2. Pending(i, w)
            BY <1>1, <2>3 DEF RecordInv, LaneOK
        <3> QED
            BY <1>1, <2>2, <3>1, <3>2, TurnsOf DEF Pending
    <2>4. CASE OnRecord(k, w) /\ OnRecord(j, w)
        BY <2>2, <2>4, PrefixesNest DEF OnRecord
    <2>5. CASE OnRecord(k, w) /\ ~OnRecord(j, w)
        <3>1. IsPrefix(s, c)
            BY <2>2, <2>5 DEF OnRecord
        <3>2. IsPrefix(s, Append(c, j)) /\ t = Append(c, j)
            BY <2>2, <2>3, <2>5, <3>1, PrefixGrows
        <3> QED
            BY <2>2, <3>2
    <2>6. CASE ~OnRecord(k, w) /\ OnRecord(j, w)
        <3>1. IsPrefix(t, c)
            BY <2>2, <2>6 DEF OnRecord
        <3>2. IsPrefix(t, Append(c, k)) /\ s = Append(c, k)
            BY <2>2, <2>3, <2>6, <3>1, PrefixGrows
        <3> QED
            BY <2>2, <3>2
    <2>7. CASE ~OnRecord(k, w) /\ ~OnRecord(j, w)
        <3>1. j = k
            BY <1>1, <2>7, PendingOne
        <3> QED
            BY <2>2, <3>1, PrefixSelf
    <2> QED
        BY <2>4, <2>5, <2>6, <2>7
<1>2. TypeInv /\ HomeInv /\ RecordInv => AnswersOfALaneNest
    BY <1>1 DEF AnswersOfALaneNest, OnRoot
<1>3. Init => TypeInv /\ HomeInv /\ RecordInv
    BY TypeInit, HomeInit, RecordInit
<1>4. TypeInv /\ HomeInv /\ RecordInv /\ [Next]_vars => TypeInv' /\ HomeInv' /\ RecordInv'
    BY RecordNext
<1> QED
    BY <1>2, <1>3, <1>4, PTL DEF Spec

=============================================================================
