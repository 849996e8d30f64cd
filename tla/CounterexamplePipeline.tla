------------------------ MODULE CounterexamplePipeline ------------------------
(***************************************************************************)
(* Certification of a graph without a forbidden cycle (counterexamples.py, *)
(* CounterexamplePipeline.inspect).  Each evaluation process has a         *)
(* pipeline of its own over the same directories: the candidate is sealed, *)
(* the primary verifier and then the independent one leave sealed records, *)
(* and two complete VERIFIED records give a certificate.  A step below is  *)
(* one access to a shared directory; processes of one session, and those   *)
(* that outlive a dead one, take them in any order, and die between them.  *)
(*                                                                         *)
(* Abstractions: a record is its place in the order of attempted_at; a     *)
(* verifier of a graph agrees with itself (verdict) or is inconclusive: it *)
(* answers UNKNOWN, or VERIFIED without complete; an answer that breaks    *)
(* the contract of a verifier is INVALID (_validated_verification); a      *)
(* temporary directory whose files are all written counts as renamed.      *)
(***************************************************************************)
EXTENDS Naturals, Sequences, FiniteSets

CONSTANTS
    Jobs,              \* evaluation processes that may inspect a graph
    Graphs,            \* graphs of score zero an evaluation can meet
    NoGraph,
    MaxInconclusive    \* bound of the model: inconclusive answers of a verifier on a graph

ASSUME GraphsAssumption == NoGraph \notin Graphs /\ MaxInconclusive \in Nat

Roles == {"primary", "independent"}
Verdicts == {"VERIFIED", "REJECTED", "INVALID"}

\* Where an inspection stands; the last line is how it ended.
Accesses == {"look", "seal", "load", "verify", "publish", "link",
             "certify", "certificate", "certLink"}
Decisions == {"continue", "pause", "fail", "verified", "error"}
NoInspection == [at |-> "off", graph |-> NoGraph, role |-> "primary",
                 primary |-> <<0, FALSE>>, independent |-> <<0, FALSE>>]

VARIABLES
    sealed,        \* graphs whose candidate directory exists
    records,       \* graph, role -> attempts under verifications/<role>
    published,     \* graph, role -> the record in verification-<role>.json, 0: none
    certificates,  \* graph -> certificates under certificates/
    certificate,   \* graph -> the certificates in certificate.json, at most one
    verdict,       \* graph, role -> what the verifier finds when it answers
    inspection     \* job -> its inspection

evidence == <<sealed, records, published, certificates, certificate>>
vars == <<evidence, verdict, inspection>>

Init ==
    /\ sealed = {}
    /\ records = [g \in Graphs |-> [r \in Roles |-> <<>>]]
    /\ published = [g \in Graphs |-> [r \in Roles |-> 0]]
    /\ certificates = [g \in Graphs |-> {}] /\ certificate = [g \in Graphs |-> {}]
    /\ verdict \in [Graphs -> [Roles -> Verdicts]]
    /\ inspection = [j \in Jobs |-> NoInspection]

-----------------------------------------------------------------------------
At(j, there) == inspection[j].at = there
Graph(j) == inspection[j].graph
Role(j) == inspection[j].role
Attempts(j) == records[Graph(j)][Role(j)]
Goto(j, there) == inspection' = [inspection EXCEPT ![j].at = there]

\* CounterexamplePipelineError or OSError: the evaluation fails with it.
Raise(j) == Goto(j, "error") /\ UNCHANGED evidence

\* inspect is called: at any score zero, of a baseline or of a mutation.
Begin(j, g) ==
    /\ At(j, "off")
    /\ inspection' = [inspection EXCEPT ![j] = [NoInspection EXCEPT !.at = "look", !.graph = g]]
    /\ UNCHANGED <<evidence, verdict>>

\* inspect returns or raises, or its process is killed: what it was writing
\* stays half-written.
Leave(j) ==
    /\ ~At(j, "off")
    /\ inspection' = [inspection EXCEPT ![j] = NoInspection]
    /\ UNCHANGED <<evidence, verdict>>

\* UNKNOWN, or VERIFIED by a search that was not complete, settles nothing.
Conclusive(record) == record.status # "UNKNOWN" /\ (record.status = "VERIFIED" => record.complete)

Holding(j, h) == IF Role(j) = "primary" THEN [inspection[j] EXCEPT !.primary = h]
                                        ELSE [inspection[j] EXCEPT !.independent = h]

\* Mutant: the status is followed whatever the complete flag of the record.
FollowStatus(j, record, h) ==
    [Holding(j, h) EXCEPT
        !.at = CASE record.status = "UNKNOWN" -> "pause"
                 [] record.status = "INVALID" -> "fail"
                 [] record.status = "REJECTED" -> IF Role(j) = "primary" THEN "continue" ELSE "fail"
                 [] record.status = "VERIFIED" -> IF Role(j) = "primary" THEN "load" ELSE "certify",
        !.role = IF record.status = "VERIFIED" THEN "independent" ELSE @]

\* Mutant: a record that does not verify the graph continues the search.
FollowAnyRejection(j, record, h) ==
    [Holding(j, h) EXCEPT
        !.at = CASE ~Conclusive(record) -> "pause"
                 [] Conclusive(record) /\ record.status \in {"INVALID", "REJECTED"} -> "continue"
                 [] Conclusive(record) /\ record.status = "VERIFIED" ->
                      IF Role(j) = "primary" THEN "load" ELSE "certify",
        !.role = IF Conclusive(record) /\ record.status = "VERIFIED" THEN "independent" ELSE @]

\* What follows a record, held as h: the next role, the certificate, or the
\* decision of the inspection.
Follow(j, record, h) ==
    [Holding(j, h) EXCEPT
        !.at = CASE ~Conclusive(record) -> "pause"
                 [] record.status = "INVALID" -> "fail"
                 [] record.status = "REJECTED" -> IF Role(j) = "primary" THEN "continue" ELSE "fail"
                 [] Conclusive(record) /\ record.status = "VERIFIED" ->
                      IF Role(j) = "primary" THEN "load" ELSE "certify",
        !.role = IF Conclusive(record) /\ record.status = "VERIFIED" THEN "independent" ELSE @]

Hold(j, n) ==
    LET named == published'[Graph(j)][Role(j)] = n
    IN  inspection' = [inspection EXCEPT ![j] = Follow(j, Attempts(j)[n], <<n, named>>)]

-----------------------------------------------------------------------------
(* _save_candidate.  A directory that appears after it was looked for has   *)
(* another created_at and provenance: comparing it, or renaming onto it,    *)
(* raises.                                                                  *)
Look(j) ==
    /\ At(j, "look")
    /\ Goto(j, IF Graph(j) \in sealed THEN "load" ELSE "seal")
    /\ UNCHANGED <<evidence, verdict>>

Seal(j) ==
    /\ At(j, "seal") /\ UNCHANGED verdict
    /\ \/ Graph(j) \in sealed /\ Raise(j)
       \/ /\ Graph(j) \notin sealed
          /\ sealed' = sealed \cup {Graph(j)} /\ Goto(j, "load")
          /\ UNCHANGED <<records, published, certificates, certificate>>

(* _load_verification reads every directory of the role, those being        *)
(* written or left half-written included; a terminal record is preferred to *)
(* UNKNOWN, then the latest.  The verifier runs unless that is conclusive.  *)
Terminal(attempts) == {n \in DOMAIN attempts : attempts[n].status # "UNKNOWN"}
Readable(attempts) ==
    /\ \A n \in DOMAIN attempts : attempts[n].whole
    /\ Cardinality({attempts[n].status : n \in Terminal(attempts)}) <= 1

IsLatest(n, attempts) == \A m \in attempts : m <= n

Load(j) ==
    /\ At(j, "load") /\ UNCHANGED verdict
    /\ \/ ~Readable(Attempts(j)) /\ Raise(j)
       \/ /\ Readable(Attempts(j)) /\ Terminal(Attempts(j)) = {}
          /\ Goto(j, "verify") /\ UNCHANGED evidence
       \/ /\ Readable(Attempts(j)) /\ UNCHANGED evidence
          /\ \E n \in Terminal(Attempts(j)) :
                /\ IsLatest(n, Terminal(Attempts(j)))
                /\ IF Conclusive(Attempts(j)[n]) THEN Hold(j, n) ELSE Goto(j, "verify")

Inconclusive(attempts) == Cardinality({n \in DOMAIN attempts : ~Conclusive(attempts[n])})
Uncertain == [status: {"UNKNOWN", "VERIFIED"}, complete: {FALSE}]

\* A verifier answers; its record is begun in a temporary directory beside the
\* others.  The number of the record is kept with the role it is of.
Verify(j) ==
    /\ At(j, "verify")
    /\ \E answer \in {[status |-> verdict[Graph(j)][Role(j)], complete |-> TRUE]}
                      \cup (IF Inconclusive(Attempts(j)) < MaxInconclusive THEN Uncertain ELSE {}) :
          records' = [records EXCEPT ![Graph(j)][Role(j)] =
                         Append(@, [status |-> answer.status, complete |-> answer.complete,
                                    whole |-> FALSE])]
    /\ inspection' = [inspection EXCEPT ![j].at = "publish",
                         ![j][Role(j)] = <<Len(Attempts(j)) + 1, FALSE>>]
    /\ UNCHANGED <<sealed, published, certificates, certificate, verdict>>

Own(j) == inspection[j][Role(j)][1]

\* _publish_directory renames the record to its attempt id; the name
\* verification-<role>.json belongs to the first record that gets it.
Publish(j) ==
    /\ At(j, "publish")
    /\ records' = [records EXCEPT ![Graph(j)][Role(j)][Own(j)].whole = TRUE]
    /\ UNCHANGED <<sealed, published, certificates, certificate, verdict>>
    /\ IF published[Graph(j)][Role(j)] = 0 THEN Goto(j, "link") ELSE Hold(j, Own(j))

\* _publish_file: os.link refuses a name taken since, and its bytes differ.
Link(j) ==
    /\ At(j, "link") /\ UNCHANGED verdict
    /\ \/ published[Graph(j)][Role(j)] # 0 /\ Raise(j)
       \/ /\ published[Graph(j)][Role(j)] = 0
          /\ published' = [published EXCEPT ![Graph(j)][Role(j)] = Own(j)]
          /\ Hold(j, Own(j))
          /\ UNCHANGED <<sealed, records, certificates, certificate>>

(* _certificate: its bytes name both records, so the same pair gives the    *)
(* same directory, and another pair differs from certificate.json.          *)
Pair(j) == <<inspection[j].primary, inspection[j].independent>>

Certify(j) ==
    /\ At(j, "certify")
    /\ Goto(j, IF Pair(j) \in certificates[Graph(j)] THEN "certLink" ELSE "certificate")
    /\ UNCHANGED <<evidence, verdict>>

\* Renaming onto the same certificate raises ENOTEMPTY, which is not caught, or
\* EEXIST, as the file system has it.
Certificate(j) ==
    /\ At(j, "certificate") /\ UNCHANGED verdict
    /\ \/ /\ Pair(j) \in certificates[Graph(j)]
          /\ Raise(j) \/ (Goto(j, "certLink") /\ UNCHANGED evidence)
       \/ /\ Pair(j) \notin certificates[Graph(j)]
          /\ certificates' = [certificates EXCEPT ![Graph(j)] = @ \cup {Pair(j)}]
          /\ Goto(j, "certLink")
          /\ UNCHANGED <<sealed, records, published, certificate>>

CertLink(j) ==
    /\ At(j, "certLink") /\ UNCHANGED verdict
    /\ \/ certificate[Graph(j)] \notin {{}, {Pair(j)}} /\ Raise(j)
       \/ /\ certificate[Graph(j)] \in {{}, {Pair(j)}}
          /\ certificate' = [certificate EXCEPT ![Graph(j)] = {Pair(j)}]
          /\ Goto(j, "verified")
          /\ UNCHANGED <<sealed, records, published, certificates>>

Inspect(j) ==
    \/ Look(j) \/ Seal(j) \/ Load(j) \/ Verify(j) \/ Publish(j) \/ Link(j)
    \/ Certify(j) \/ Certificate(j) \/ CertLink(j)

Next == \E j \in Jobs : (\E g \in Graphs : Begin(j, g)) \/ Inspect(j) \/ Leave(j)

Spec == Init /\ [][Next]_vars

-----------------------------------------------------------------------------
(* What is certified is backed by evidence: every certificate of a graph,   *)
(* published or not, names a whole and complete VERIFIED record of each     *)
(* role that the verifier of that role really gave, whatever processes      *)
(* raced, died halfway or retried (EXPERIMENT_WORKFLOW.md:68-71).  Bites    *)
(* where records are chosen again (_load_verification 622-638, _certificate *)
(* 762-767) and where an inconclusive answer is retried (871-873, 934-936). *)
Backed(g, role, hold) ==
    /\ hold[1] \in DOMAIN records[g][role]
    /\ records[g][role][hold[1]] = [status |-> "VERIFIED", complete |-> TRUE, whole |-> TRUE]
    /\ verdict[g][role] = "VERIFIED"
    /\ hold[2] => published[g][role] = hold[1]

CertificatesAreBacked ==
    \A g \in Graphs : \A pair \in certificates[g] \cup certificate[g] :
        /\ g \in sealed
        /\ Backed(g, "primary", pair[1]) /\ Backed(g, "independent", pair[2])

(* Every inspection keeps the promise its callers rely on: it says          *)
(* "verified" only with a published certificate, "continue" only for a      *)
(* graph the primary verifier rejects, "fail" only when the primary finds   *)
(* it invalid or the independent verifier does not confirm what the primary *)
(* verified, and a published certificate is never taken back, whichever     *)
(* records of whichever process it read (inspect 807-1015).                 *)
Promise == INSTANCE Certification WITH
    certified <- {g \in Graphs : certificate[g] # {}},
    says <- [j \in Jobs |->
        [graph |-> Graph(j), at |-> IF inspection[j].at \in Accesses THEN "open" ELSE inspection[j].at]]

ImplementsCertification == Promise!Certified

=============================================================================
