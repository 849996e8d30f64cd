---------------------------- MODULE ProviderLanes ----------------------------
(* The provider of the sustained search: CodexM10SearchProvider and the
   CodexM5SearchProvider of each lane (native_v3_python/search_provider.py) over
   the durable threads of CodexAppServerAdapter (stage3/app_server.py).

   A coordinator process holds the specification thread and forks one root
   thread per lane from it; then it is closed and every lane gets a process of
   its own.  A root slot is asked on the root thread of its lane, a child on a
   fork of its parent's thread at the parent's turn, a repair on the thread of
   the answer it repairs.

   Three records of a thread's turns are kept and compared: what the server
   holds (history), what the adapter of the process knows (known), and what the
   client has written down (contract, result, rootContext).

   The search is ScientificSearch: here it asks any open slot, takes the results
   in slot order and may stop at any step.                                    *)
EXTENDS Integers, FiniteSets, Sequences, SequencesExt

CONSTANTS
    Slots,        \* slots of a generation, by their number
    Children,     \* the slots that may be children after the first generation
    Lanes,        \* 1..provider_concurrency
    Generations,  \* bound: generations of a run
    RepairLimit,  \* repair_turn_limit
    MaxOpens      \* bound: processes that open the workspace

ASSUME LanesAssumption ==
    /\ \E n \in 1..8 : Slots \subseteq 1..n
    /\ \E n \in 1..4 : Lanes = 1..n
    /\ Children \subseteq Slots
    /\ {Generations, RepairLimit, MaxOpens} \subseteq Nat

Gens == 1..Generations
Places == Gens \X Slots

(* A turn is named by the request it answers, a thread by its lane or by the
   request that forked it.                                                    *)
Primaries == Gens \X Slots \X {"turn", "retry"}
Repairs == Gens \X Slots \X {"repair"}
Keys == Primaries \cup Repairs

Anchor == <<0, 0, "anchor">>
None == <<0, 0, "none">>
Failed == <<0, 0, "failed">>
Root(w) == <<0, w, "root">>
RootThreads == {Root(w) : w \in Lanes}
Threads == RootThreads \cup Primaries

RepairOf(p) == <<p[1], p[2], "repair">>
PlaceOf(k) == <<k[1], k[2]>>

NoResult == [thread |-> None, turns |-> <<>>]

VARIABLES
    history,       \* of the server: thread -> its turns, <<>> when there is none
    (* durable *)
    rootForks,     \* lanes whose root thread is forked
    rootContext,   \* _root_workers: lane -> the turns of its root thread
    owner,         \* _thread_owners: thread -> lane, 0 when it has none
    saved,         \* lane -> the threads in its provider-state
    fork,          \* key -> the turns of its retained fork
    contract,      \* key -> the turns its request was made after
    result,        \* key -> its retained result
    started,       \* keys the search has started
    completed, released,
    parent,        \* slot of a generation -> the answer it descends from
    settled,       \* slot of a generation -> its answer, Failed, or None
    frozen,        \* generations with a manifest
    (* of the process *)
    pc, gen,
    coordinator,   \* threads loaded by the coordinator process
    loaded,        \* lane -> threads loaded by its process (_forked_threads)
    registered,    \* lane -> _resumed_thread_ids
    known,         \* thread -> _completed_turn_ids of the process that has it
    dead,          \* lanes whose adapter has failed
    ask,           \* slot -> the key of its primary call
    call,          \* slot -> its primary call
    repair,        \* slot -> its repair
    opens          \* bounded counter

store == <<rootForks, rootContext, owner, saved, fork, contract, result, started,
           completed, released, parent, settled, frozen>>
process == <<coordinator, loaded, registered, known, dead>>
calls == <<ask, call, repair>>
vars == <<history, store, pc, gen, process, calls, opens>>

Open(p) == settled[p] = None
Here == {p \in Places : p[1] = gen}

(* prepare_generation: a root by its slot, a child with its parent's thread. *)
Lane(p) ==
    IF parent[p] = None THEN ((p[2] - 1) % Cardinality(Lanes)) + 1
                        ELSE owner[result[parent[p]].thread]

IsRoot(p) == parent[p] = None

ThreadOf(p) == IF IsRoot(p) THEN Root(Lane(p)) ELSE ask[p]

Alive == Lanes \ dead

----------------------------------------------------------------------------
NoCalls ==
    /\ ask = [p \in Places |-> None]
    /\ call = [p \in Places |-> "none"] /\ repair = [p \in Places |-> "none"]

Init ==
    /\ history = [t \in Threads |-> <<>>]
    /\ rootForks = {} /\ rootContext = [w \in Lanes |-> <<>>]
    /\ owner = [t \in Threads |-> 0] /\ saved = [w \in Lanes |-> {}]
    /\ fork = [k \in Primaries |-> <<>>] /\ contract = [k \in Keys |-> <<>>]
    /\ result = [k \in Keys |-> NoResult]
    /\ started = {} /\ completed = {} /\ released = {}
    /\ parent = [p \in Places |-> None] /\ settled = [p \in Places |-> None]
    /\ frozen = {}
    /\ pc = "down" /\ gen = 0
    /\ coordinator = {} /\ loaded = [w \in Lanes |-> {}]
    /\ registered = [w \in Lanes |-> {}] /\ known = [t \in Threads |-> <<>>]
    /\ dead = {}
    /\ NoCalls
    /\ opens = 0

FirstOpen(g) ==
    /\ \E p \in Places : p[1] = g /\ Open(p)
    /\ \A p \in Places : p[1] < g => ~Open(p)

(* The constructor of the coordinator resumes every thread it has forked. *)
OpenPool ==
    /\ pc = "down" /\ opens < MaxOpens
    /\ opens' = opens + 1
    /\ pc' = "coordinator"
    /\ \E g \in Gens : FirstOpen(g) /\ gen' = g
    /\ coordinator' = {Root(w) : w \in rootForks}
    /\ UNCHANGED <<history, store, loaded, registered, known, dead, calls>>

InTurn == {<<ThreadOf(p), ask[p]>> : p \in {q \in Here : call[q] = "turn"}}
     \cup {<<result[ask[p]].thread, RepairOf(p)>> : p \in {q \in Here : repair[q] = "turn"}}

(* The process ends, by an error of the search, its end or a kill.  A turn that
   runs is lost to the client; the server may or may not have it.  Bound: the
   last process is not stopped.                                               *)
Stop ==
    /\ pc # "down" /\ opens < MaxOpens
    /\ \E held \in SUBSET InTurn :
        history' = [t \in Threads |->
            IF \E h \in held : h[1] = t
            THEN Append(history[t], (CHOOSE h \in held : h[1] = t)[2])
            ELSE history[t]]
    /\ pc' = "down" /\ gen' = 0
    /\ coordinator' = {} /\ loaded' = [w \in Lanes |-> {}]
    /\ registered' = [w \in Lanes |-> {}] /\ known' = [t \in Threads |-> <<>>]
    /\ dead' = {}
    /\ ask' = [p \in Places |-> None]
    /\ call' = [p \in Places |-> "none"] /\ repair' = [p \in Places |-> "none"]
    /\ UNCHANGED <<store, opens>>

----------------------------------------------------------------------------
(* prepare_generation. *)

NoTopology == \A w \in Lanes : rootContext[w] = <<>>

ForkRoot(w) ==
    /\ pc = "coordinator" /\ NoTopology
    /\ w \notin rootForks /\ 1..w - 1 \subseteq rootForks
    /\ history' = [history EXCEPT ![Root(w)] = <<Anchor>>]
    /\ rootForks' = rootForks \cup {w}
    /\ coordinator' = coordinator \cup {Root(w)}
    /\ UNCHANGED <<rootContext, owner, saved, fork, contract, result, started, completed,
                   released, parent, settled, frozen, pc, gen, loaded, registered, known,
                   dead, calls, opens>>

FreezeTopology ==
    /\ pc = "coordinator" /\ NoTopology /\ rootForks = Lanes
    /\ rootContext' = [w \in Lanes |-> <<Anchor>>]
    /\ owner' = [t \in Threads |-> IF t \in RootThreads THEN t[2] ELSE owner[t]]
    /\ UNCHANGED <<history, rootForks, saved, fork, contract, result, started, completed,
                   released, parent, settled, frozen, pc, gen, process, calls, opens>>

(* Mutant: the lanes are started beside the coordinator. *)
KeepCoordinator ==
    /\ pc = "coordinator" /\ ~NoTopology
    /\ pc' = "starting"
    /\ UNCHANGED <<history, store, gen, process, calls, opens>>

CloseCoordinator ==
    /\ pc = "coordinator" /\ ~NoTopology
    /\ coordinator' = {}
    /\ pc' = "starting"
    /\ UNCHANGED <<history, store, gen, loaded, registered, known, dead, calls, opens>>

(* The constructor resumes what the lane has saved, ensure_anchor_context its
   root thread; a process that cannot do it is replaced by another.           *)
StartLane(w) ==
    /\ pc = "starting" /\ loaded[w] = {} /\ \A v \in 1..w - 1 : loaded[v] # {}
    /\ saved' = [saved EXCEPT ![w] = @ \cup {Root(w)}]
    /\ loaded' = [loaded EXCEPT ![w] = saved'[w]]
    /\ registered' = [registered EXCEPT ![w] = saved'[w]]
    /\ UNCHANGED <<history, rootForks, rootContext, owner, fork, contract, result, started,
                   completed, released, parent, settled, frozen, pc, gen, coordinator,
                   known, dead, calls, opens>>

(* A search without parents ends. *)
Parents ==
    IF gen = 1 THEN {None} ELSE {settled[p] : p \in {q \in Places : q[1] = gen - 1}} \ {None, Failed}

(* The manifest freezes the parents, and with them the lanes. *)
BeginGeneration ==
    /\ pc = "starting" /\ \A w \in Lanes : loaded[w] # {}
    /\ IF gen \in frozen THEN UNCHANGED <<parent, frozen>>
       ELSE /\ \E chosen \in [Children -> Parents] :
                parent' = [p \in Places |->
                    IF p[1] = gen /\ p[2] \in Children THEN chosen[p[2]] ELSE parent[p]]
            /\ frozen' = frozen \cup {gen}
    /\ pc' = "running"
    /\ UNCHANGED <<history, rootForks, rootContext, owner, saved, fork, contract, result,
                   started, completed, released, settled, gen, process, calls, opens>>

EndGeneration ==
    /\ pc = "running" /\ \A p \in Here : ~Open(p)
    /\ gen < Generations
    /\ pc' = "starting" /\ gen' = gen + 1
    /\ UNCHANGED <<history, store, process, calls, opens>>

----------------------------------------------------------------------------
(* A primary call. *)

HasResult(k) == result[k] # NoResult

Usable(k) == k \notin started \/ HasResult(k)

(* The initial key until its turn is lost, then its retry. *)
KeysOf(p) ==
    LET initial == <<p[1], p[2], "turn">>
        retry == <<p[1], p[2], "retry">>
    IN IF Usable(initial) THEN {initial} ELSE {k \in {retry} : Usable(k)}

(* await_primary_slot *)
Admitted(p) == \A q \in Here : q[2] < p[2] /\ Lane(q) = Lane(p) => q \in released

(* The lock of the lane. *)
Idle(w) == \A q \in Here : Lane(q) = w =>
    call[q] \notin {"forked", "turn", "kept"} /\ repair[q] \notin {"turn", "kept"}

(* The search submits the open slots; each waits for its turn on the lane. *)
Asks(p, k) ==
    /\ pc = "running" /\ p \in Here /\ Open(p) /\ call[p] = "none"
    /\ k \in KeysOf(p) /\ Admitted(p) /\ Idle(Lane(p))
    /\ started' = started \cup {k}
    /\ ask' = [ask EXCEPT ![p] = k]

(* activate_forked_thread with the recorded turns. *)
Activates(t, turns) == known[t] \in {<<>>, turns}

(* _turn up to the answer: the contract, a retained result, the request.  A lane
   whose adapter has failed can only give what is retained.                   *)
AskedOutcome(k, w, turns) ==
    IF contract[k] \notin {<<>>, turns} THEN "contract_changed"
    ELSE IF HasResult(k) THEN "kept"
    ELSE IF w \in dead THEN "raised" ELSE "turn"

(* Mutant: the contract is written before it is compared. *)
SignsFirst(k, turns) == contract' = [contract EXCEPT ![k] = turns]

Signs(k, turns) == contract' = IF contract[k] = <<>> THEN [contract EXCEPT ![k] = turns]
                                                     ELSE contract

(* The call ends in an error, which completes the slot on its lane. *)
Errors == {"raised", "contract_changed", "fork_crossed", "already_loaded"}

CompletesOn(p, how) == completed' = IF how \in Errors THEN completed \cup {p} ELSE completed

(* generate_root_on_worker *)
AskRoot(p, k) ==
    /\ IsRoot(p) /\ Asks(p, k)
    /\ LET w == Lane(p)
           turns == rootContext[w]
       IN /\ call' = [call EXCEPT ![p] = IF Activates(Root(w), turns)
                                         THEN AskedOutcome(k, w, turns) ELSE "raised"]
          /\ IF Activates(Root(w), turns)
             THEN Signs(k, turns) /\ known' = [known EXCEPT ![Root(w)] = turns]
             ELSE UNCHANGED <<contract, known>>
    /\ CompletesOn(p, call'[p])
    /\ UNCHANGED <<history, rootForks, rootContext, owner, saved, fork, result, released,
                   parent, settled, frozen, pc, gen, coordinator, loaded, registered, dead,
                   repair, opens>>

(* Mutant: a fork is taken as the server made it. *)
ForkAsMade(source, turns) == TRUE

UpTo(seq, turn) == SubSeq(seq, 1, CHOOSE i \in 1..Len(seq) : seq[i] = turn)

(* The server's fork holds the recorded turns of the parent and no other. *)
ForkIsExact(source, turns) == UpTo(history[source], Last(turns)) = turns

(* ensure_context: a thread this process has forked itself is loaded, and was
   never registered.                                                          *)
ContextOutcome(w, t) ==
    IF t \in registered[w] THEN "ok"
    ELSE IF t \in loaded[w] THEN "already_loaded"
    ELSE IF w \in dead THEN "raised" ELSE "ok"

(* _fork: what is retained, or a request that may fail; a fork that crossed the
   turn is refused, and one with an interrupted turn in it is an error.       *)
ForkOutcomes(k, w, from) ==
    IF fork[k] # <<>> THEN {"forked"}
    ELSE IF w \in dead THEN {"raised"}
    ELSE IF ForkIsExact(from.thread, from.turns) THEN {"forked", "raised"}
    ELSE {"fork_crossed", "raised"}

(* generate_child up to the file of its fork, which only the process that asked
   the server for it has loaded.                                              *)
ForkChild(p, k) ==
    /\ ~IsRoot(p) /\ Asks(p, k)
    /\ LET w == Lane(p)
           from == result[parent[p]]
           context == ContextOutcome(w, from.thread)
           fresh == fork[k] = <<>>
       IN /\ \E how \in IF context # "ok" THEN {context} ELSE ForkOutcomes(k, w, from) :
               call' = [call EXCEPT ![p] = how]
          /\ LET has == IF context = "ok" THEN {from.thread} ELSE {}
                 makes == IF call'[p] = "forked" /\ fresh THEN {k} ELSE {}
             IN /\ registered' = [registered EXCEPT ![w] = @ \cup has]
                /\ loaded' = [loaded EXCEPT ![w] = @ \cup has \cup makes]
                /\ saved' = [saved EXCEPT ![w] = @ \cup has]
          /\ IF call'[p] = "forked" /\ fresh
             THEN /\ history' = [history EXCEPT ![k] =
                                    UpTo(history[from.thread], Last(from.turns))]
                  /\ fork' = [fork EXCEPT ![k] = history'[k]]
                  /\ known' = [known EXCEPT ![k] = history'[k]]
             ELSE UNCHANGED <<history, fork, known>>
    /\ CompletesOn(p, call'[p])
    /\ UNCHANGED <<rootForks, rootContext, owner, contract, result, released, parent,
                   settled, frozen, pc, gen, coordinator, dead, repair, opens>>

(* The fork is saved, after its file, and activated: a thread the process has
   not loaded is unknown to it.                                               *)
AskChild(p) ==
    /\ call[p] = "forked"
    /\ LET w == Lane(p)
           turns == fork[ask[p]]
       IN /\ saved' = [saved EXCEPT ![w] = @ \cup {ask[p]}]
          /\ call' = [call EXCEPT ![p] = IF ask[p] \in loaded[w]
                                         THEN AskedOutcome(ask[p], w, turns) ELSE "raised"]
          /\ IF ask[p] \in loaded[w] THEN Signs(ask[p], turns) ELSE UNCHANGED contract
    /\ CompletesOn(p, call'[p])
    /\ UNCHANGED <<history, rootForks, rootContext, owner, fork, result, started,
                   released, parent, settled, frozen, pc, gen, process, ask, repair, opens>>

(* The answer is retained with the turns the request was made after. *)
Answered(k, t) ==
    /\ history' = [history EXCEPT ![t] = Append(@, k)]
    /\ known' = [known EXCEPT ![t] = Append(@, k)]
    /\ result' = [result EXCEPT ![k] = [thread |-> t, turns |-> Append(contract[k], k)]]
    /\ UNCHANGED dead

(* The adapter closes and is never replaced; the thread may hold the turn. *)
Lost(k, t, w) ==
    /\ history' \in {history, [history EXCEPT ![t] = Append(@, k)]}
    /\ dead' = dead \cup {w}
    /\ UNCHANGED <<known, result>>

EndTurn(p) ==
    /\ call[p] = "turn"
    /\ \/ Answered(ask[p], ThreadOf(p)) /\ call' = [call EXCEPT ![p] = "kept"]
       \/ Lost(ask[p], ThreadOf(p), Lane(p)) /\ call' = [call EXCEPT ![p] = "raised"]
    /\ CompletesOn(p, call'[p])
    /\ UNCHANGED <<rootForks, rootContext, owner, saved, fork, contract, started, released,
                   parent, settled, frozen, pc, gen, coordinator, loaded, registered, ask,
                   repair, opens>>

(* Mutant: the root thread of a lane is recorded for its primary turns only. *)
RecordsPrimary(k, w) ==
    /\ owner' = [owner EXCEPT ![result[k].thread] = w]
    /\ rootContext' = IF result[k].thread = Root(w) /\ k \in Primaries
                      THEN [rootContext EXCEPT ![w] = result[k].turns] ELSE rootContext

(* _record_owner, under the lock of the lane. *)
Records(k, w) ==
    /\ owner' = [owner EXCEPT ![result[k].thread] = w]
    /\ rootContext' = IF result[k].thread = Root(w)
                      THEN [rootContext EXCEPT ![w] = result[k].turns] ELSE rootContext

Record(p) ==
    /\ call[p] = "kept"
    /\ Records(ask[p], Lane(p))
    /\ call' = [call EXCEPT ![p] = "done"]
    /\ completed' = completed \cup {p}
    /\ UNCHANGED <<history, rootForks, saved, fork, contract, result, started, released,
                   parent, settled, frozen, pc, gen, process, ask, repair, opens>>

----------------------------------------------------------------------------
(* The search takes the results in slot order. *)

Current(p) == p \in Here /\ Open(p) /\ \A q \in Here : Open(q) => p[2] <= q[2]

Settles(p, with) ==
    /\ settled' = [settled EXCEPT ![p] = with]
    /\ released' = released \cup {p}
    /\ UNCHANGED <<history, rootForks, rootContext, owner, saved, fork, contract, result,
                   started, completed, parent, frozen, pc, gen, process, calls, opens>>

RepairDenied(p) ==
    RepairOf(p) \notin started /\ Cardinality(started \cap Repairs) >= RepairLimit

TakeAnswer(p) ==
    /\ Current(p) /\ repair[p] = "none" /\ p \in completed
    /\ \/ call[p] = "done" /\ Settles(p, ask[p])
       \/ call[p] = "done" /\ RepairDenied(p) /\ Settles(p, Failed)
       \/ call[p] \in {"raised", "already_loaded"} /\ Settles(p, Failed)

(* reserve_repair and repair. *)
Repair(p) ==
    /\ Current(p) /\ call[p] = "done" /\ repair[p] = "none" /\ Idle(Lane(p))
    /\ ~RepairDenied(p)
    /\ started' = started \cup {RepairOf(p)}
    /\ LET w == owner[result[ask[p]].thread]
           t == result[ask[p]].thread
           turns == result[ask[p]].turns
           again == RepairOf(p) \in started /\ ~HasResult(RepairOf(p))
           context == ContextOutcome(w, t)
       IN IF again \/ context # "ok" \/ ~Activates(t, turns)
          THEN /\ repair' = [repair EXCEPT ![p] = IF again THEN "not_repeated"
                                                  ELSE IF context # "ok" THEN context
                                                  ELSE "raised"]
               /\ UNCHANGED <<contract, known>>
          ELSE /\ repair' = [repair EXCEPT ![p] = AskedOutcome(RepairOf(p), w, turns)]
               /\ Signs(RepairOf(p), turns)
               /\ known' = [known EXCEPT ![t] = turns]
    /\ UNCHANGED <<history, rootForks, rootContext, owner, saved, fork, result, completed,
                   released, parent, settled, frozen, pc, gen, coordinator, loaded,
                   registered, dead, ask, call, opens>>

EndRepair(p) ==
    /\ repair[p] = "turn"
    /\ LET t == result[ask[p]].thread IN
       \/ Answered(RepairOf(p), t) /\ repair' = [repair EXCEPT ![p] = "kept"]
       \/ Lost(RepairOf(p), t, owner[t]) /\ repair' = [repair EXCEPT ![p] = "raised"]
    /\ UNCHANGED <<rootForks, rootContext, owner, saved, fork, contract, started, completed,
                   released, parent, settled, frozen, pc, gen, coordinator, loaded,
                   registered, ask, call, opens>>

RecordRepair(p) ==
    /\ repair[p] = "kept"
    /\ Records(RepairOf(p), Lane(p))
    /\ repair' = [repair EXCEPT ![p] = "done"]
    /\ UNCHANGED <<history, rootForks, saved, fork, contract, result, started, completed,
                   released, parent, settled, frozen, pc, gen, process, ask, call, opens>>

TakeRepair(p) ==
    /\ Current(p)
    /\ \/ repair[p] = "done" /\ \E with \in {RepairOf(p), Failed} : Settles(p, with)
       \/ repair[p] \in {"raised", "already_loaded"} /\ Settles(p, Failed)

----------------------------------------------------------------------------
Call(p) ==
    \/ \E k \in KeysOf(p) : AskRoot(p, k) \/ ForkChild(p, k)
    \/ AskChild(p) \/ EndTurn(p) \/ Record(p) \/ TakeAnswer(p)
    \/ Repair(p) \/ EndRepair(p) \/ RecordRepair(p) \/ TakeRepair(p)

Next ==
    \/ OpenPool \/ Stop
    \/ \E w \in Lanes : ForkRoot(w) \/ StartLane(w)
    \/ FreezeTopology \/ CloseCoordinator \/ BeginGeneration \/ EndGeneration
    \/ \E p \in Places : Call(p)

Spec == Init /\ [][Next]_vars

----------------------------------------------------------------------------
(* Properties. *)

(* The state has its shape, and what a lane writes down agrees: a result belongs
   to a signed request of a started key, and ends with its own turn.          *)
TypeOK ==
    /\ rootForks \subseteq Lanes /\ dead \subseteq Lanes /\ frozen \subseteq Gens
    /\ released \subseteq completed /\ completed \subseteq Places
    /\ started \subseteq Keys
    /\ \A k \in Keys : HasResult(k) =>
        /\ k \in started /\ result[k].thread \in Threads
        /\ result[k].turns = Append(contract[k], k)
    /\ pc \in {"down", "coordinator", "starting", "running"}
    /\ \A p \in Places :
        /\ call[p] \in {"none", "forked", "turn", "kept", "done"} \cup Errors
        /\ repair[p] \in {"none", "turn", "kept", "done", "not_repeated"} \cup Errors

(* "A durable thread may be resumed by a replacement app-server process only
   after the process that created it has released it": no thread is held by two
   processes, neither by two lanes nor by a lane and the coordinator.         *)
ThreadHasOneProcess ==
    /\ \A w \in Alive : loaded[w] \cap coordinator = {}
    /\ \A v, w \in Alive : v # w => loaded[v] \cap loaded[w] = {}

(* The answers of a lane know each other: of two answers on one root thread, one
   was asked after all the turns the other has on record, in whatever process
   each was given, repairs included.                                          *)
AnswersOfALaneNest ==
    \A w \in Lanes : \A k, j \in {i \in Keys : HasResult(i) /\ result[i].thread = Root(w)} :
        \/ IsPrefix(result[k].turns, result[j].turns)
        \/ IsPrefix(result[j].turns, result[k].turns)

(* A child is asked after its parent's turns and no other: whatever was lost on
   the parent's thread in between, the child's thread begins with the turns its
   parent's answer has on record.                                             *)
ChildrenSeeTheirParents ==
    \A p \in Places : parent[p] # None =>
        \A k \in Primaries : PlaceOf(k) = p /\ HasResult(k) =>
            IsPrefix(result[parent[p]].turns, history[k])

(* Not an invariant, although documented:
   "crash/resume reproduces lineage, generation manifests, provider boundaries,
   evaluation order, and scientific result" (docs/native-v3-python-migration-audit.md):
   an answer that is retained is accepted by the process that resumes.        *)
RetainedAnswersAreAccepted == \A p \in Places : call[p] # "contract_changed"

=============================================================================
