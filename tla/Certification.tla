----------------------------- MODULE Certification -----------------------------
(***************************************************************************)
(* What an evaluation may rely on when it meets a graph of score zero      *)
(* (CounterexamplePipeline.inspect of counterexamples.py, seen from its    *)
(* callers in evaluation.py): it learns that the graph was rejected, that  *)
(* a verifier was inconclusive, that verification failed (the primary      *)
(* verifier finds the graph invalid, or the independent one does not       *)
(* confirm what the primary verified), or that both verified it, or it     *)
(* gets an exception; only "verified" publishes a certificate.  How the    *)
(* evidence is kept is CounterexamplePipeline.                             *)
(***************************************************************************)
EXTENDS Naturals, FiniteSets

CONSTANTS
    Jobs,      \* evaluation processes that may inspect a graph
    Graphs,    \* graphs of score zero an evaluation can meet
    NoGraph

ASSUME GraphsAssumption == NoGraph \notin Graphs

Roles == {"primary", "independent"}
Verdicts == {"VERIFIED", "REJECTED", "INVALID"}
Decisions == {"continue", "pause", "fail", "verified", "error"}

VARIABLES
    verdict,     \* graph, role -> what the verifier of the role finds when it answers
    certified,   \* graphs whose certificate is published
    says         \* job -> the graph it inspects, and what the inspection says

certificationVars == <<verdict, certified, says>>

Off == [graph |-> NoGraph, at |-> "off"]

CertificationTypeOK ==
    /\ verdict \in [Graphs -> [Roles -> Verdicts]]
    /\ certified \subseteq Graphs
    /\ says \in [Jobs -> [graph: Graphs \cup {NoGraph}, at: Decisions \cup {"off", "open"}]]

CertificationInit ==
    /\ verdict \in [Graphs -> [Roles -> Verdicts]]
    /\ certified = {}
    /\ says = [j \in Jobs |-> Off]

Meet(j, g) ==
    /\ says[j].at = "off"
    /\ says' = [says EXCEPT ![j] = [graph |-> g, at |-> "open"]]
    /\ UNCHANGED <<verdict, certified>>

\* A verifier may always be inconclusive, and the files may always refuse.
Answers(g) ==
    {"pause", "error"}
    \cup (IF verdict[g]["primary"] = "REJECTED" THEN {"continue"}
          ELSE IF \A r \in Roles : verdict[g][r] = "VERIFIED" THEN {"verified"} ELSE {"fail"})

Decide(j) ==
    /\ says[j].at = "open"
    /\ \E d \in Answers(says[j].graph) :
        /\ says' = [says EXCEPT ![j].at = d]
        /\ certified' = IF d = "verified" THEN certified \cup {says[j].graph} ELSE certified
    /\ UNCHANGED verdict

\* The caller has taken the answer, or was killed.
Leave(j) ==
    /\ says[j].at # "off"
    /\ says' = [says EXCEPT ![j] = Off]
    /\ UNCHANGED <<verdict, certified>>

CertificationNext ==
    \E j \in Jobs : (\E g \in Graphs : Meet(j, g)) \/ Decide(j) \/ Leave(j)

Certified == CertificationInit /\ [][CertificationNext]_certificationVars

=============================================================================
