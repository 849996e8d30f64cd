----------------------- MODULE MCCandidateEvaluation -----------------------
(* Instances of CandidateEvaluation for TLC. *)
EXTENDS CandidateEvaluation

AllJobs == (1 .. MaxSessions) \X (1 .. NumSlots)

\* The candidate that is awaited first is the better one.
EarlierIsBetter == [s \in 1 .. NumSlots |-> 1 + NumSlots - s]

=============================================================================
