--------------------------- MODULE LedgerConnection ---------------------------
(***************************************************************************)
(* One SQLite connection under many threads.  The workers of a session     *)
(* post model turns statement by statement inside BEGIN IMMEDIATE ...      *)
(* COMMIT (record_provider_turn, experiment/state.py) under the lock of    *)
(* the provider; workers, heartbeats and the coordinator emit events       *)
(* (ExperimentEventHub.emit, experiment/observer.py) that are inserted and *)
(* committed under the lock of the hub (SessionManager.event), and then    *)
(* appended to events.jsonl.  The locks differ, the connection is shared   *)
(* (check_same_thread=False), and so is the transaction that is open on    *)
(* it.                                                                     *)
(*                                                                         *)
(* Abstractions: a turn costs one token and is the turn of one worker; an  *)
(* event is its storage key; the lookup of a key and its insertion are     *)
(* steps, a statement is atomic.  What TurnStore calls Charge is taken      *)
(* apart here; the names of the specification are its own, so that both    *)
(* can be extended together.                                                *)
(***************************************************************************)
EXTENDS Naturals, FiniteSets, Sequences, SequencesExt

CONSTANTS
    Workers,     \* threads that post a turn of their own and emit events
    Emitters,    \* heartbeats: threads that only emit
    Service,     \* the thread of the run, which attaches and closes the hub
    StorageKeys, \* storage keys of events
    MaxEmits,    \* bound of the model: events emitted in a session
    SessionLimit \* bound of the model: sessions

Threads == Workers \cup Emitters \cup {Service}
Nobody == "nobody"

ASSUME ThreadsAssumption ==
    /\ Workers \cap Emitters = {} /\ Service \notin Workers \cup Emitters
    /\ Nobody \notin Threads
ASSUME LimitsAssumption == MaxEmits \in Nat /\ SessionLimit \in Nat \ {0}

Places == {"idle", "begin", "select", "row", "charge", "session", "total", "commit",
           "lookup", "insert", "commitEvent", "append"}
Posting == {"begin", "select", "row", "charge", "session", "total", "commit"}
Emitting == {"lookup", "insert", "commitEvent", "append"}

\* What the database holds: rows of completed and of failed turns, charge
\* events, the tokens of sessions and of the experiment, and other events.
Empty == [completed |-> {}, failed |-> {}, charged |-> {}, session |-> 0, total |-> 0,
          events |-> {}]

VARIABLES
    kept,          \* the committed database
    work,          \* what the connection sees: kept plus its open transaction
    inTransaction, \* is a transaction open on the connection?
    ledgerLock, hubLock,
    pc,
    status,   \* what a worker is about to post: "completed", "failed"; or done
    queue,    \* events a thread still has to store, the first one now
    pending,  \* events emitted before the session is attached
    attached, closed,  \* is the hub attached to the session, is it closed?
    log,      \* events.jsonl of the session
    emits,    \* events emitted in the session
    sessions,
    shown,    \* history: events the sinks have been given in the session
    crashed   \* history: has a process died?

database == <<kept, work, inTransaction>>
hub == <<queue, pending, attached, closed, log, emits, shown>>
locks == <<ledgerLock, hubLock>>
ledgerVars == <<database, locks, pc, status, hub, sessions, crashed>>

Stored == [completed: SUBSET Workers, failed: SUBSET Workers, charged: SUBSET Workers,
           session: Nat, total: Nat, events: SUBSET StorageKeys]

LedgerTypeOK ==
    /\ kept \in Stored /\ work \in Stored /\ inTransaction \in BOOLEAN
    /\ ledgerLock \in Workers \cup {Nobody} /\ hubLock \in Threads \cup {Nobody}
    /\ pc \in [Threads -> Places]
    /\ status \in [Workers -> {"unposted", "completed", "failed", "done"}]
    /\ queue \in [Threads -> Seq(StorageKeys)] /\ pending \in Seq(StorageKeys)
    /\ log \in Seq(StorageKeys) /\ shown \in Seq(StorageKeys)
    /\ attached \in BOOLEAN /\ closed \in BOOLEAN /\ crashed \in BOOLEAN
    /\ emits \in 0 .. MaxEmits /\ sessions \in 0 .. SessionLimit
    /\ \A w \in Workers : pc[w] \in Posting <=> ledgerLock = w
    /\ \A t \in Threads : pc[t] \in Emitting <=> hubLock = t

-----------------------------------------------------------------------------
(* The connection: sqlite3 in its default transaction mode. *)

\* A statement that writes opens a transaction if none is open.
Execute(change) == work' = change /\ inTransaction' = TRUE /\ UNCHANGED kept

\* Commit and rollback end whatever transaction is open, whoever began it.
Commit == kept' = work /\ inTransaction' = FALSE /\ UNCHANGED work
Rollback == work' = kept /\ inTransaction' = FALSE /\ UNCHANGED kept

Goto(t, there) == pc' = [pc EXCEPT ![t] = there]

-----------------------------------------------------------------------------
(* record_provider_turn: one worker at a time, but not one thread.         *)

\* The turn has ended and _record reaches its ledger; after an exception the
\* except clause of generate records the turn again, as failed.
Enter(w) ==
    /\ pc[w] = "idle" /\ attached /\ status[w] \in {"unposted", "failed"} /\ ledgerLock = Nobody
    /\ ledgerLock' = w
    /\ status' = [status EXCEPT ![w] = IF @ = "unposted" THEN "completed" ELSE @]
    /\ Goto(w, "begin")
    /\ UNCHANGED <<database, hubLock, hub, sessions, crashed>>

Leave(w, next) ==
    /\ ledgerLock' = Nobody
    /\ Goto(w, "idle")
    /\ status' = [status EXCEPT ![w] = next]

\* BEGIN IMMEDIATE is refused while a transaction is open; the handler rolls
\* that transaction back, and what another thread had written in it.
Begin(w) ==
    /\ pc[w] = "begin"
    /\ IF inTransaction
       THEN Rollback /\ Leave(w, IF status[w] = "completed" THEN "failed" ELSE "done")
       ELSE inTransaction' = TRUE /\ Goto(w, "select") /\ UNCHANGED <<kept, work, ledgerLock, status>>
    /\ UNCHANGED <<hubLock, hub, sessions, crashed>>

\* A row that is completed already ends the record.
Select(w) ==
    /\ pc[w] = "select"
    /\ IF w \in work.completed
       THEN Rollback /\ Leave(w, "done")
       ELSE Goto(w, "row") /\ UNCHANGED <<database, ledgerLock, status>>
    /\ UNCHANGED <<hubLock, hub, sessions, crashed>>

Statement(w, here, next, change) ==
    /\ pc[w] = here
    /\ Execute(change)
    /\ Goto(w, next)
    /\ UNCHANGED <<locks, status, hub, sessions, crashed>>

Succeeds(w) == status[w] = "completed"

Row(w) ==
    Statement(w, "row", IF Succeeds(w) THEN "charge" ELSE "session",
        IF Succeeds(w) THEN [work EXCEPT !.completed = @ \cup {w}, !.failed = @ \ {w}]
        ELSE [work EXCEPT !.failed = @ \cup {w}])
ChargeEvent(w) == Statement(w, "charge", "session", [work EXCEPT !.charged = @ \cup {w}])
Session(w) ==
    Statement(w, "session", "total", [work EXCEPT !.session = @ + IF Succeeds(w) THEN 1 ELSE 0])
Total(w) ==
    Statement(w, "total", "commit", [work EXCEPT !.total = @ + IF Succeeds(w) THEN 1 ELSE 0])

\* Mutant: the transaction is left to whoever commits next.
CommitTurnLater(w) ==
    /\ pc[w] = "commit"
    /\ Leave(w, "done")
    /\ UNCHANGED <<database, hubLock, hub, sessions, crashed>>

CommitTurn(w) ==
    /\ pc[w] = "commit"
    /\ Commit
    /\ Leave(w, "done")
    /\ UNCHANGED <<hubLock, hub, sessions, crashed>>

-----------------------------------------------------------------------------
(* ExperimentEventHub.emit and SessionManager.event. *)

\* Mutant: the session store is called without the lock of the hub.
EmitUnlocked(t) ==
    /\ pc[t] = "idle" /\ ~closed /\ emits < MaxEmits /\ sessions > 0
    /\ emits' = emits + 1
    /\ \E e \in StorageKeys :
        /\ shown' = Append(shown, e)
        /\ IF attached
           THEN queue' = [queue EXCEPT ![t] = <<e>>] /\ Goto(t, "lookup") /\ UNCHANGED pending
           ELSE pending' = Append(pending, e) /\ UNCHANGED <<queue, pc>>
    /\ UNCHANGED <<database, locks, status, attached, closed, log, sessions, crashed>>

\* The sinks are written first; the session store later, or when the session is
\* attached.  A closed hub refuses, which every caller ignores.
Emit(t) ==
    /\ pc[t] = "idle" /\ hubLock = Nobody /\ ~closed /\ emits < MaxEmits /\ sessions > 0
    /\ emits' = emits + 1
    /\ \E e \in StorageKeys :
        /\ shown' = Append(shown, e)
        /\ IF attached
           THEN /\ queue' = [queue EXCEPT ![t] = <<e>>] /\ hubLock' = t /\ Goto(t, "lookup")
                /\ UNCHANGED pending
           ELSE pending' = Append(pending, e) /\ UNCHANGED <<queue, hubLock, pc>>
    /\ UNCHANGED <<database, ledgerLock, status, attached, closed, log, sessions, crashed>>

\* attach_session stores what was emitted before the session existed.
Attach ==
    /\ pc[Service] = "idle" /\ hubLock = Nobody /\ ~attached /\ ~closed /\ sessions > 0
    /\ attached' = TRUE
    /\ pending' = <<>>
    /\ IF pending = <<>> THEN UNCHANGED <<queue, hubLock, pc>>
       ELSE /\ queue' = [queue EXCEPT ![Service] = pending]
            /\ hubLock' = Service /\ Goto(Service, "lookup")
    /\ UNCHANGED <<database, ledgerLock, status, closed, log, emits, shown, sessions, crashed>>

\* Mutant: the lock of the hub is kept.
NextEventKeepsLock(t) ==
    /\ queue' = [queue EXCEPT ![t] = Tail(@)]
    /\ Goto(t, IF Len(queue[t]) = 1 THEN "idle" ELSE "lookup")
    /\ UNCHANGED hubLock

NextEvent(t) ==
    /\ queue' = [queue EXCEPT ![t] = Tail(@)]
    /\ IF Len(queue[t]) = 1 THEN Goto(t, "idle") /\ hubLock' = Nobody
       ELSE Goto(t, "lookup") /\ UNCHANGED hubLock

\* event_exists: a key that is stored is not stored, nor logged, again.
Lookup(t) ==
    /\ pc[t] = "lookup"
    /\ IF Head(queue[t]) \in work.events THEN NextEvent(t)
       ELSE Goto(t, "insert") /\ UNCHANGED <<queue, hubLock>>
    /\ UNCHANGED <<database, ledgerLock, status, pending, attached, closed, log, emits, shown,
                   sessions, crashed>>

Insert(t) ==
    /\ pc[t] = "insert"
    /\ Execute([work EXCEPT !.events = @ \cup {Head(queue[t])}])
    /\ Goto(t, "commitEvent")
    /\ UNCHANGED <<locks, status, hub, sessions, crashed>>

CommitEvent(t) ==
    /\ pc[t] = "commitEvent"
    /\ Commit
    /\ Goto(t, "append")
    /\ UNCHANGED <<locks, status, hub, sessions, crashed>>

AppendLog(t) ==
    /\ pc[t] = "append"
    /\ log' = Append(log, Head(queue[t]))
    /\ NextEvent(t)
    /\ UNCHANGED <<database, ledgerLock, status, pending, attached, closed, emits, shown,
                   sessions, crashed>>

Close ==
    /\ pc[Service] = "idle" /\ hubLock = Nobody /\ sessions > 0 /\ ~closed /\ attached
    /\ \A w \in Workers : pc[w] = "idle" /\ status[w] = "done"
    /\ closed' = TRUE
    /\ UNCHANGED <<database, locks, pc, status, queue, pending, attached, log, emits, shown,
                   sessions, crashed>>

-----------------------------------------------------------------------------
Process ==
    /\ ledgerLock' = Nobody /\ hubLock' = Nobody
    /\ pc' = [t \in Threads |-> "idle"]
    /\ queue' = [t \in Threads |-> <<>>]
    /\ pending' = <<>> /\ attached' = FALSE /\ emits' = 0
    /\ work' = kept /\ inTransaction' = FALSE /\ UNCHANGED kept

\* A process that dies leaves the committed database and the log; the next one
\* replays the turns whose evidence is on disk and posts nothing for them.
Die ==
    /\ sessions > 0 /\ ~closed
    /\ closed' = TRUE /\ crashed' = TRUE
    /\ status' = [w \in Workers |-> IF status[w] = "unposted" THEN "unposted" ELSE "done"]
    /\ UNCHANGED <<log, shown, sessions>>
    /\ Process

\* The next session posts the turns that have not ended yet.
NextSession ==
    /\ sessions < SessionLimit /\ (sessions = 0 \/ closed)
    /\ sessions' = sessions + 1 /\ closed' = FALSE
    /\ log' = <<>> /\ shown' = <<>>
    /\ UNCHANGED <<status, crashed>>
    /\ Process

LedgerInit ==
    /\ kept = Empty /\ work = Empty /\ inTransaction = FALSE
    /\ ledgerLock = Nobody /\ hubLock = Nobody
    /\ pc = [t \in Threads |-> "idle"]
    /\ status = [w \in Workers |-> "unposted"]
    /\ queue = [t \in Threads |-> <<>>] /\ pending = <<>> /\ log = <<>>
    /\ attached = FALSE /\ closed = FALSE /\ emits = 0 /\ shown = <<>>
    /\ sessions = 0 /\ crashed = FALSE

RecordTurn(w) == Enter(w) \/ Begin(w) \/ Select(w) \/ Row(w) \/ ChargeEvent(w) \/ Session(w)
             \/ Total(w) \/ CommitTurn(w)
Store(t) == Lookup(t) \/ Insert(t) \/ CommitEvent(t) \/ AppendLog(t)

LedgerNext ==
    \/ NextSession \/ Attach \/ Close \/ Die
    \/ \E w \in Workers : RecordTurn(w)
    \/ \E t \in Threads : Emit(t) \/ Store(t)

\* Threads that hold work are scheduled, and a released lock is taken by each
\* of those that wait for it in turn.
LedgerFairness ==
    /\ WF_ledgerVars(NextSession) /\ WF_ledgerVars(Attach) /\ WF_ledgerVars(Close)
    /\ \A w \in Workers : SF_ledgerVars(Enter(w)) /\ WF_ledgerVars(RecordTurn(w))
    /\ \A t \in Threads : WF_ledgerVars(Store(t))

LedgerSpec == LedgerInit /\ [][LedgerNext]_ledgerVars /\ LedgerFairness

-----------------------------------------------------------------------------
(* Properties. *)

Balanced(db) ==
    /\ db.completed = db.charged
    /\ {db.session, db.total} = {Cardinality(db.completed)}

\* Between records, and as long as no process has died, what is committed of
\* the turns is whole, although the commits of events cut the transactions of
\* record_provider_turn into pieces and refused transactions roll back.
WholeBetweenRecords == ~crashed /\ ledgerLock = Nobody => Balanced(kept)

\* events.jsonl tells the events in the order in which the sinks were given
\* them, the ones from before attach_session included.
LogInOrder ==
    \E f \in [DOMAIN log -> DOMAIN shown] :
        /\ \A i \in DOMAIN log : log[i] = shown[f[i]]
        /\ \A i, j \in DOMAIN log : i < j => f[i] < f[j]

\* Neither lock is ever held for good: a session comes to its end.
SessionEnds == sessions > 0 ~> closed

\* Not an invariant, although documented: the turn row, the charge, the delta of
\* the session and the cumulative totals are committed together (state.py:585-587).
\* An event of another thread commits what of them is written so far.
AccountingUnit == Balanced(kept)

=============================================================================
