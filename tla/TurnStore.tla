------------------------------ MODULE TurnStore ------------------------------
(***************************************************************************)
(* What is kept of a model turn, and what it is charged.  A worker of the  *)
(* native search asks for a turn (_NativeProvider.generate and repair,  *)
(* experiment/native.py); the provider streams the files of each attempt   *)
(* into the directory of the turn; TurnArtifactStore                       *)
(* (experiment/artifacts.py) seals them with a manifest; and               *)
(* record_provider_turn (experiment/state.py) posts the tokens, on which   *)
(* the hourly limit of the next request depends.                           *)
(*                                                                         *)
(* A directory outlives sessions, so it may hold the files of attempts     *)
(* that died before their manifest was written.                            *)
(*                                                                         *)
(* Abstractions: an answer is its place in the history of the provider;    *)
(* the bytes of the sources of two answers differ; the posting transaction *)
(* is one step (LedgerConnection looks into it).                           *)
(***************************************************************************)
EXTENDS Naturals, FiniteSets, Sequences, SequencesExt, Functions

CONSTANTS
    Turns,       \* slot and phase: one directory, one worker at a time
    Keys,        \* idempotency keys: a key changes with the rendered prompt
    Identity,    \* the stable fields of the request behind a key
    Answers,     \* kinds of answer the provider may give
    Costs,       \* tokens of a charged answer
    HourlyLimit, \* run.max_total_tokens_per_hour
    Retries,     \* infrastructure retries of a request in one session
    Crashes,     \* control points at which the process may die
    Locks,       \* may the database refuse a transaction (busy_timeout)?
    MaxServed,   \* bound of the model: answers the provider gives
    MaxSessions  \* bound of the model: sessions the operator starts

ASSUME BoundsAssumption ==
    /\ IsFiniteSet(Turns) /\ IsFiniteSet(Keys)
    /\ {HourlyLimit, MaxServed, MaxSessions} \subseteq Nat \ {0}
    /\ Retries \in Nat /\ Costs \subseteq Nat \ {0} /\ Locks \in BOOLEAN
    /\ Identity \in [Keys -> Nat]
\* A complete answer; a complete answer one of whose files exceeds the bound of
\* an artifact; a failure that was charged and says so; one that reports tokens
\* and does not say so; a failure nobody pays.
ASSUME AnswersAssumption ==
    Answers \subseteq {"done", "oversize", "charged", "partial", "infra"}

ControlPoints == {"idle", "calling", "answered", "raised", "sealing", "posting"}
ASSUME CrashesAssumption == Crashes \subseteq ControlPoints

NoAnswer == 0
Ids == 1 .. MaxServed
Status == {"completed", "failed"}
NoManifest == [key |-> "none"]
Manifest == [key: Keys, complete: BOOLEAN, status: Status, charged: BOOLEAN,
             answer: 0 .. MaxServed]
Attempt == [key: Keys, answer: 0 .. MaxServed]
Directory == [attempts: Seq(Attempt), source: 0 .. MaxServed, oversize: BOOLEAN,
              manifest: Manifest \cup {NoManifest}]
Absent == [attempts |-> <<>>, source |-> NoAnswer, oversize |-> FALSE, manifest |-> NoManifest]

Worker == [pc: ControlPoints, kind: Answers \cup {"infra", "lost"}, answer: 0 .. MaxServed,
           handler: BOOLEAN,       \* inside the except clause of generate?
           left: 0 .. Retries + 1] \* requests left to this worker in this session

VARIABLES
    base,     \* generations/generation-N/slot-N/<phase>
    archived, \* its .attempt-<hash> siblings
    rows,     \* provider_turns
    charges,  \* model_token_charge_recorded events, oldest first
    aged,     \* how many of them have left the rolling hour
    total,    \* experiment.cumulative_tokens
    worker,   \* the thread that asks for the turn
    prompt,   \* the key this session asks with
    memory,   \* LocalCodexAppServerProvider._retained of this process
    result,   \* the answer last returned for the turn in this session
    session,  \* sessions started; open says whether one is running
    open,
    served,   \* history: every answer of the provider and its cost
    unposted  \* history: charged answers whose posting was lost

disk == <<base, archived>>
ledger == <<rows, charges, total>>
process == <<worker, prompt, memory, result, session, open>>
vars == <<disk, ledger, aged, process, served, unposted>>

TypeOK ==
    /\ base \in [Turns -> Directory]
    /\ DOMAIN archived = Turns /\ \A t \in Turns : archived[t] \subseteq Directory
    /\ rows \in [Turns \X Keys -> [state: Status \cup {"none"}, tokens: Nat]]
    /\ charges \in Seq([key: Turns \X Keys \X Nat, delta: Nat \ {0}]) /\ aged \in 0 .. Len(charges) /\ total \in Nat
    /\ worker \in [Turns -> Worker] /\ prompt \in [Turns -> Keys]
    /\ memory \in [Turns \X Keys -> 0 .. MaxServed] /\ result \in [Turns -> 0 .. MaxServed]
    /\ session \in 0 .. MaxSessions /\ open \in BOOLEAN
    /\ served \in Seq([turn: Turns, kind: Answers, cost: Nat]) /\ Len(served) <= MaxServed
    /\ unposted \subseteq Ids

-----------------------------------------------------------------------------
(* Reading the evidence: _turn_directories and _retained. *)

Exists(t) == base[t] # Absent
Directories(t) == (IF Exists(t) THEN {base[t]} ELSE {}) \cup archived[t]
Sealed(d) == d.manifest # NoManifest

\* _manifest_is_terminal.
Terminal(m) == m.complete /\ (m.status = "completed" \/ m.charged)

\* The response read back: the file with the plain prefix, else the last one.
IsLastAnswered(i, d) ==
    /\ d.attempts[i].answer # NoAnswer
    /\ \A j \in DOMAIN d.attempts : j > i => d.attempts[j].answer = NoAnswer
Response(d) ==
    IF \A i \in DOMAIN d.attempts : d.attempts[i].answer = NoAnswer THEN NoAnswer
    ELSE IF Head(d.attempts).answer # NoAnswer THEN Head(d.attempts).answer
    ELSE d.attempts[CHOOSE i \in DOMAIN d.attempts : IsLastAnswered(i, d)].answer

\* Mutants of the lookup: only the same request counts; what any attempt left
\* is taken for evidence.
CompatibleNever(d, k) == FALSE
ExactUnfinished(d, k) == Sealed(d) /\ d.manifest.key = k /\ Response(d) # NoAnswer

\* Evidence of exactly this request: it was completed, or charged.
Exact(d, k) == Sealed(d) /\ d.manifest.key = k /\ Terminal(d.manifest)

\* A complete answer to another rendering of the same request.  The request is
\* read from the plain file name, which is the one of the first attempt.
Compatible(d, k) ==
    /\ Sealed(d)
    /\ d.manifest.key # k
    /\ d.manifest.complete /\ d.manifest.status = "completed"
    /\ Identity[Head(d.attempts).key] = Identity[k]

\* The directory the lookup settles on: exact evidence, the base first; else
\* compatible evidence, the archives (in the order of their hashes) last.
Retained(t, k) ==
    LET exact == {d \in Directories(t) : Exact(d, k)}
        compatible == {d \in Directories(t) : Compatible(d, k)}
    IN  IF exact # {}
        THEN IF Exact(base[t], k) THEN {base[t]} ELSE exact
        ELSE IF compatible \cap archived[t] # {}
             THEN compatible \cap archived[t] ELSE compatible

-----------------------------------------------------------------------------
(* Charging: record_provider_turn and hourly_token_usage. *)

\* f[1] + ... + f[n].
Sum(f, n) == LET upTo[k \in 0 .. n] == IF k = 0 THEN 0 ELSE upTo[k - 1] + f[k]
             IN  upTo[n]

\* The charges of the rolling hour: those that have not left it.
InHour == [i \in DOMAIN charges |-> IF i > aged THEN charges[i].delta ELSE 0]
WindowUse == Sum(InHour, Len(charges))
\* Mutant: the limit is only noticed once it is exceeded.
HourlyExceeded == WindowUse > HourlyLimit

HourlyReached == WindowUse >= HourlyLimit

Max0(n, m) == IF n > m THEN n - m ELSE 0

TokenDelta(observed, prior) == Max0(observed, prior)

\* The row, the charge event (at most one of each turn and total) and the
\* cumulative tokens change together; a completed row is never posted again.
Post(t, k, state, tokens) ==
    IF rows[<<t, k>>].state = "completed" THEN UNCHANGED ledger
    ELSE LET delta == TokenDelta(tokens, rows[<<t, k>>].tokens)
         IN  /\ rows' = [rows EXCEPT ![<<t, k>>] = [state |-> state, tokens |-> tokens]]
             /\ charges' = IF delta > 0 /\ \A i \in DOMAIN charges :
                                charges[i].key # <<t, k, tokens>>
                           THEN Append(charges, [key |-> <<t, k, tokens>>, delta |-> delta])
                           ELSE charges
             /\ total' = total + delta

\* Every session first adds the charges the rows ask for and no event holds.
ChargeOf(p) == [key |-> <<p[1], p[2], rows[p].tokens>>, delta |-> rows[p].tokens]
Uncharged == {p \in Turns \X Keys : rows[p].tokens > 0 /\
                 \A i \in DOMAIN charges : charges[i].key # ChargeOf(p).key}
Backfill == \E s \in SetToSeqs(Uncharged) :
                charges' = charges \o [i \in 1 .. Len(s) |-> ChargeOf(s[i])]

-----------------------------------------------------------------------------
Idle(left) == [pc |-> "idle", kind |-> "infra", answer |-> NoAnswer,
               handler |-> FALSE, left |-> left]

Init ==
    /\ base = [t \in Turns |-> Absent] /\ archived = [t \in Turns |-> {}]
    /\ rows = [p \in Turns \X Keys |-> [state |-> "none", tokens |-> 0]]
    /\ charges = <<>> /\ aged = 0 /\ total = 0
    /\ worker = [t \in Turns |-> Idle(0)]
    /\ prompt \in [Turns -> Keys]
    /\ memory = [p \in Turns \X Keys |-> NoAnswer]
    /\ result = [t \in Turns |-> NoAnswer]
    /\ session = 0 /\ open = FALSE
    /\ served = <<>> /\ unposted = {}

At(t, there) == worker[t].pc = there
Cost(a) == IF a = NoAnswer THEN 0 ELSE served[a].cost
InHand(t) == worker[t].answer
Finish(t, answer, left) ==
    /\ worker' = [worker EXCEPT ![t] = Idle(left)]
    /\ result' = [result EXCEPT ![t] = answer]

\* A new process: it renders its prompts again and remembers no answer.
StartSession ==
    /\ ~open /\ session < MaxSessions
    /\ session' = session + 1 /\ open' = TRUE
    /\ prompt' \in [Turns -> Keys]
    /\ worker' = [t \in Turns |-> Idle(Retries + 1)]
    /\ memory' = [p \in Turns \X Keys |-> NoAnswer]
    /\ result' = [t \in Turns |-> NoAnswer]
    /\ Backfill
    /\ UNCHANGED <<disk, rows, total, aged, served, unposted>>

EndSession ==
    /\ open /\ \A t \in Turns : At(t, "idle")
    /\ open' = FALSE
    /\ result' = [t \in Turns |-> NoAnswer]
    /\ UNCHANGED <<disk, ledger, aged, worker, prompt, memory, session, served, unposted>>

\* Mutant: a failed request is repeated without counting its retries.
MayAlways(t) == open /\ At(t, "idle")

May(t) == open /\ At(t, "idle") /\ worker[t].left > 0

\* Evidence of an earlier attempt answers the request: nothing is posted.
Replay(t) ==
    /\ May(t)
    /\ \E d \in Retained(t, prompt[t]) :
          Finish(t, IF d.manifest.status = "completed" THEN Response(d) ELSE NoAnswer, 0)
    /\ UNCHANGED <<disk, ledger, aged, prompt, memory, session, open, served, unposted>>

\* The provider keeps the answers of this process: a request it has answered
\* goes straight to the recording of that answer.
Remembered(t) ==
    /\ May(t) /\ Retained(t, prompt[t]) = {} /\ ~HourlyReached
    /\ memory[<<t, prompt[t]>>] # NoAnswer
    /\ worker' = [worker EXCEPT ![t].pc = "answered", ![t].answer = memory[<<t, prompt[t]>>],
                                ![t].kind = served[memory[<<t, prompt[t]>>]].kind,
                                ![t].left = @ - 1]
    /\ UNCHANGED <<disk, ledger, aged, prompt, memory, result, session, open, served, unposted>>

\* The files of a new attempt: a prefix of their own in the same directory.
Ask(t) ==
    /\ May(t) /\ Retained(t, prompt[t]) = {} /\ ~HourlyReached
    /\ memory[<<t, prompt[t]>>] = NoAnswer
    /\ Len(served) + Cardinality({u \in Turns : At(u, "calling")}) < MaxServed
    /\ base' = [base EXCEPT ![t].attempts = Append(@, [key |-> prompt[t], answer |-> NoAnswer])]
    /\ worker' = [worker EXCEPT ![t].pc = "calling", ![t].left = @ - 1]
    /\ UNCHANGED <<archived, ledger, aged, prompt, memory, result, session, open, served, unposted>>

\* The last attempt of a directory gets its answer.
Answered(d, id, kind) ==
    [d EXCEPT !.attempts[Len(d.attempts)].answer = id, !.oversize = @ \/ kind = "oversize"]

\* A finished turn leaves its response and usage files before generate returns.
Completes(t, kind) ==
    LET id == Len(served) + 1
    IN  /\ kind \in {"done", "oversize"}
        /\ \E cost \in Costs :
              served' = Append(served, [turn |-> t, kind |-> kind, cost |-> cost])
        /\ base' = [base EXCEPT ![t] = Answered(@, id, kind)]
        /\ memory' = [memory EXCEPT ![<<t, prompt[t]>>] = id]
        /\ worker' = [worker EXCEPT ![t].pc = "answered", ![t].kind = kind, ![t].answer = id]
        /\ UNCHANGED unposted

\* A failed turn is an exception, with the usage it reported if any.
Fails(t, kind) ==
    /\ kind \in {"charged", "partial", "infra"}
    /\ \E cost \in IF kind = "infra" THEN {0} ELSE Costs :
          served' = Append(served, [turn |-> t, kind |-> kind, cost |-> cost])
    /\ worker' = [worker EXCEPT ![t].pc = "raised", ![t].kind = kind,
                                ![t].answer = Len(served) + 1, ![t].handler = TRUE]
    /\ UNCHANGED <<base, memory, unposted>>

Answer(t) ==
    /\ At(t, "calling")
    /\ \E kind \in Answers : Completes(t, kind) \/ Fails(t, kind)
    /\ UNCHANGED <<archived, ledger, aged, prompt, result, session, open>>

-----------------------------------------------------------------------------
(* _record: the files, the manifest, the ledger. *)

Recording(t) == At(t, "answered") \/ At(t, "raised")
\* The answer whose response is written: a failed turn has none.
Content(t) == IF worker[t].kind \in {"done", "oversize"} THEN InHand(t) ELSE NoAnswer

\* Mutant: the directory is replaced, not moved.
ArchiveOver(t) ==
    /\ Recording(t) /\ Sealed(base[t]) /\ base[t].manifest.key # prompt[t]
    /\ base' = [base EXCEPT ![t] = Absent]
    /\ UNCHANGED <<archived, ledger, aged, process, served, unposted>>

\* The directory holds another request: it is moved aside, with the files of
\* the attempt that has just ended.
Archive(t) ==
    /\ Recording(t) /\ Sealed(base[t]) /\ base[t].manifest.key # prompt[t]
    /\ archived' = [archived EXCEPT ![t] = @ \cup {base[t]}]
    /\ base' = [base EXCEPT ![t] = Absent]
    /\ UNCHANGED <<ledger, aged, process, served, unposted>>

\* write_turn makes the directory anew from the answer in hand.
Write(t) ==
    /\ Recording(t) /\ ~Exists(t)
    /\ base' = [base EXCEPT ![t] =
          [Absent EXCEPT !.attempts = <<[key |-> prompt[t], answer |-> Content(t)]>>,
                         !.source = Content(t)]]
    /\ worker' = [worker EXCEPT ![t].pc = "sealing"]
    /\ UNCHANGED <<archived, ledger, aged, prompt, memory, result, session, open, served, unposted>>

\* record_existing_turn sets a manifest that is not terminal aside and adds the
\* source beside the streams of the provider, unless one is there.
Index(t) ==
    /\ Recording(t) /\ Exists(t)
    /\ Sealed(base[t]) => base[t].manifest.key = prompt[t] /\ ~Terminal(base[t].manifest)
    /\ base' = [base EXCEPT ![t].manifest = NoManifest,
                            ![t].source = IF @ = NoAnswer THEN Content(t) ELSE @]
    /\ worker' = [worker EXCEPT ![t].pc = "sealing"]
    /\ UNCHANGED <<archived, ledger, aged, prompt, memory, result, session, open, served, unposted>>

\* The manifest is terminal already: it is only verified.
Verify(t) ==
    /\ Recording(t) /\ Exists(t) /\ Sealed(base[t])
    /\ base[t].manifest.key = prompt[t] /\ Terminal(base[t].manifest)
    /\ worker' = [worker EXCEPT ![t].pc = "posting"]
    /\ UNCHANGED <<disk, ledger, aged, prompt, memory, result, session, open, served, unposted>>

\* Evidence within its bounds, whose source is the one of this answer.
Whole(t) ==
    /\ ~base[t].oversize /\ worker[t].kind # "oversize"
    /\ Content(t) # NoAnswer => base[t].source = Content(t)

\* The caller of a record that raised: the first time the except clause records
\* a failure that knows nothing of the answer; there the error is only noted.
Raise(t) ==
    IF worker[t].handler
    THEN /\ worker' = [worker EXCEPT ![t] = Idle(worker[t].left)]
         /\ unposted' = IF Cost(InHand(t)) > 0 THEN unposted \cup {InHand(t)} ELSE unposted
    ELSE /\ worker' = [worker EXCEPT ![t].pc = "raised", ![t].kind = "lost",
                                     ![t].handler = TRUE]
         /\ UNCHANGED unposted

Seal(t) ==
    /\ At(t, "sealing")
    /\ base' = [base EXCEPT ![t].manifest =
          [key |-> prompt[t], complete |-> Whole(t), answer |-> Content(t),
           status |-> IF Content(t) # NoAnswer THEN "completed" ELSE "failed",
           charged |-> worker[t].kind = "charged" \/ Content(t) # NoAnswer]]
    /\ IF Whole(t)
       THEN worker' = [worker EXCEPT ![t].pc = "posting"] /\ UNCHANGED unposted
       ELSE Raise(t)
    /\ UNCHANGED <<archived, ledger, aged, prompt, memory, result, session, open, served>>

\* Mutant: only completed turns are charged.
ReportedIfCompleted(t) == IF Content(t) = NoAnswer THEN 0 ELSE Cost(InHand(t))

\* The tokens a record reports: those of the answer, or of the evidence of the
\* error; a failure of the recording itself knows of none.
Reported(t) == IF worker[t].kind = "lost" THEN 0 ELSE Cost(InHand(t))

Charge(t) ==
    /\ At(t, "posting")
    /\ Post(t, prompt[t], IF Content(t) # NoAnswer THEN "completed" ELSE "failed", Reported(t))
    /\ unposted' = IF worker[t].kind = "lost" /\ Cost(InHand(t)) > 0
                   THEN unposted \cup {InHand(t)} ELSE unposted
    /\ IF Content(t) # NoAnswer THEN Finish(t, InHand(t), 0)
       ELSE Finish(t, NoAnswer, IF worker[t].kind = "charged" THEN 0 ELSE worker[t].left)
    /\ UNCHANGED <<disk, aged, prompt, memory, session, open, served>>

\* The database stays locked for longer than the busy timeout.
Locked(t) ==
    /\ Locks /\ At(t, "posting")
    /\ Raise(t)
    /\ UNCHANGED <<disk, ledger, aged, prompt, memory, result, session, open, served>>

Crash ==
    /\ open /\ \A t \in Turns : worker[t].pc \in Crashes
    /\ open' = FALSE
    /\ worker' = [t \in Turns |-> Idle(0)]
    /\ result' = [t \in Turns |-> NoAnswer]
    /\ unposted' = unposted \cup
          {InHand(t) : t \in {u \in Turns : ~At(u, "idle") /\ Cost(InHand(u)) > 0}}
    /\ UNCHANGED <<disk, ledger, aged, prompt, memory, session, served>>

\* The oldest charge leaves the rolling hour.
Age ==
    /\ aged < Len(charges)
    /\ aged' = aged + 1
    /\ UNCHANGED <<disk, ledger, process, served, unposted>>

Request(t) == Replay(t) \/ Remembered(t) \/ Ask(t)
Record(t) == Archive(t) \/ Write(t) \/ Index(t) \/ Verify(t) \/ Seal(t)
             \/ Charge(t) \/ Locked(t)

Next ==
    \/ StartSession \/ EndSession \/ Crash \/ Age
    \/ \E t \in Turns : Request(t) \/ Answer(t) \/ Record(t)

Spec == Init /\ [][Next]_vars

-----------------------------------------------------------------------------
(* Properties. *)

Manifests(t) == {d.manifest : d \in {e \in Directories(t) : Sealed(e)}}
TerminalManifests(t) == {m \in Manifests(t) : Terminal(m)}
Settled(t) == {m \in Manifests(t) : m.complete /\ m.status = "completed"}

\* However often sessions die, prompts change and directories are moved aside,
\* a request is settled by one complete answer: no slot is paid for again once
\* a complete answer of it is on disk (_retained, native.py).
OneFinalAnswer ==
    \A t \in Turns : \A m, n \in Settled(t) :
        Identity[m.key] = Identity[n.key] => m.answer = n.answer

\* Terminal evidence is never lost, neither by the archive of a conflicting
\* turn nor by the record of a later attempt (_archive_conflicting_turn,
\* record_existing_turn).
EvidenceKept == [][\A t \in Turns : TerminalManifests(t) \subseteq TerminalManifests(t)']_vars

\* Answers whose tokens are not posted: never will be, or not yet.
Outstanding == unposted \cup {InHand(t) : t \in {u \in Turns : ~At(u, "idle")}}
Deltas == [i \in DOMAIN charges |-> charges[i].delta]
Posted == [i \in DOMAIN served |-> IF i \in Outstanding THEN 0 ELSE served[i].cost]

\* Tokens are posted once, to both accounts.  The charges the hourly window is
\* summed from, whose events are told apart by turn and total, add up to the
\* cumulative total; and that total is what the provider has taken for its
\* answers, but for those now being recorded and those whose posting a crash, a
\* locked database or an artifact beyond its bound prevented (_record after
\* write_turn, record_provider_turn).
TokensConserved ==
    /\ Sum(Deltas, Len(charges)) = total
    /\ Sum(Posted, Len(served)) = total

\* The hourly limit is asked before a call and charged after it, by workers
\* that do not wait for each other: the window may exceed the limit, but by
\* no more than one answer of each worker (_hourly_limit_reached, _record).
OvershootBounded ==
    \A most \in Costs : (\A c \in Costs : c <= most) =>
        WindowUse <= HourlyLimit - 1 + Cardinality(Turns) * most

\* What a session is told of a turn is the answer the turn is settled with.
SettledAnswer(t) == IF Settled(t) = {} THEN NoAnswer
                    ELSE (CHOOSE m \in Settled(t) : TRUE).answer
Requirements == INSTANCE TurnRequirements WITH
    None <- NoAnswer,
    settled <- [t \in Turns |-> SettledAnswer(t)],
    told <- result
ImplementsRequirements == Requirements!Spec

=============================================================================
