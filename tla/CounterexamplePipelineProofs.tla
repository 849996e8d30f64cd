--------------------- MODULE CounterexamplePipelineProofs ---------------------
(* Theorems about CounterexamplePipeline, for any processes and any graphs.  *)
EXTENDS CounterexamplePipeline, SequenceTheorems, TLAPS

(***************************************************************************)
(* Typing.  A held record is its number and whether its name is published. *)
(***************************************************************************)
Record == [status: Verdicts \cup {"UNKNOWN"}, complete: BOOLEAN, whole: BOOLEAN]
Held == Nat \X BOOLEAN
Inspection == [at: Accesses \cup Decisions \cup {"off"}, graph: Graphs \cup {NoGraph},
               role: Roles, primary: Held, independent: Held]

TypeOK ==
    /\ sealed \subseteq Graphs
    /\ records \in [Graphs -> [Roles -> Seq(Record)]]
    /\ published \in [Graphs -> [Roles -> Nat]]
    /\ certificates \in [Graphs -> SUBSET (Held \X Held)]
    /\ certificate \in [Graphs -> SUBSET (Held \X Held)]
    /\ verdict \in [Graphs -> [Roles -> Verdicts]]
    /\ inspection \in [Jobs -> Inspection]
    /\ \A j \in Jobs : ~At(j, "off") => Graph(j) \in Graphs

(***************************************************************************)
(* The evidence on disk: a conclusive record is what its verifier finds,   *)
(* and a name is only given to a whole record.                             *)
(***************************************************************************)
EvidenceIsHonest ==
    \A g \in Graphs, r \in Roles :
        /\ \A n \in DOMAIN records[g][r] :
              Conclusive(records[g][r][n]) => records[g][r][n].status = verdict[g][r]
        /\ published[g][r] # 0 =>
              /\ published[g][r] \in DOMAIN records[g][r]
              /\ records[g][r][published[g][r]].whole

(***************************************************************************)
(* What an inspection has in hand at each of its accesses.                 *)
(***************************************************************************)
Sealing == {"look", "seal"}
Certifying == {"certify", "certificate", "certLink"}

HandIsBacked(j) ==
    /\ At(j, "off") \/ At(j, "error") \/ (inspection[j].at \in Sealing) \/ Graph(j) \in sealed
    /\ inspection[j].at \in Sealing => Role(j) = "primary"
    /\ At(j, "publish") => Own(j) \in DOMAIN Attempts(j)
    /\ At(j, "link") => /\ Own(j) \in DOMAIN Attempts(j) \ {0}
                        /\ Attempts(j)[Own(j)].whole
    /\ (inspection[j].at \in Accesses /\ Role(j) = "independent") =>
          Backed(Graph(j), "primary", inspection[j].primary)
    /\ inspection[j].at \in Certifying =>
          /\ Role(j) = "independent"
          /\ Backed(Graph(j), "independent", inspection[j].independent)

Inv ==
    /\ TypeOK
    /\ EvidenceIsHonest
    /\ \A j \in Jobs : HandIsBacked(j)
    /\ CertificatesAreBacked

-----------------------------------------------------------------------------
(***************************************************************************)
(* The evidence only grows: records are appended and become whole, and a   *)
(* name that is taken stays with its record.  So what an inspection has in *)
(* hand stays backed whatever the others do.                               *)
(***************************************************************************)
Grows ==
    /\ verdict' = verdict
    /\ sealed \subseteq sealed'
    /\ \A g \in Graphs, r \in Roles :
          /\ published[g][r] # 0 => published'[g][r] = published[g][r]
          /\ \A n \in DOMAIN records[g][r] :
                /\ n \in DOMAIN records'[g][r]
                /\ records'[g][r][n].status = records[g][r][n].status
                /\ records'[g][r][n].complete = records[g][r][n].complete
                /\ records[g][r][n].whole => records'[g][r][n].whole

LEMMA UnchangedGrows == ASSUME UNCHANGED <<sealed, records, published, verdict>> PROVE Grows
BY DEF Grows

LEMMA RecordIsRecord ==
    ASSUME TypeOK, NEW g \in Graphs, NEW r \in Roles, NEW n \in DOMAIN records[g][r]
    PROVE  records[g][r][n] \in Record
<1>1. records[g][r] \in Seq(Record)
    BY DEF TypeOK
<1> QED
    BY <1>1, ElementOfSeq, LenProperties

LEMMA BackedStays ==
    ASSUME TypeOK, TypeOK', Grows, NEW g \in Graphs, NEW r \in Roles, NEW h \in Held,
           Backed(g, r, h)
    PROVE  Backed(g, r, h)'
<1>1. h[1] \in DOMAIN records[g][r] /\ h[1] \in DOMAIN records'[g][r]
    BY DEF Backed, Grows
<1>2. records'[g][r][h[1]] = [status |-> "VERIFIED", complete |-> TRUE, whole |-> TRUE]
    <2>1. /\ records'[g][r][h[1]].status = "VERIFIED" /\ records'[g][r][h[1]].whole
          /\ records'[g][r][h[1]].complete
        BY <1>1 DEF Backed, Grows
    <2>2. records'[g][r][h[1]] \in Record
        <3>1. records'[g][r] \in Seq(Record)
            BY DEF TypeOK
        <3> QED
            BY <1>1, <3>1, ElementOfSeq, LenProperties
    <2> QED
        BY <2>1, <2>2 DEF Record
<1>3. h[1] # 0
    <2>1. records[g][r] \in Seq(Record)
        BY DEF TypeOK
    <2> QED
        BY <1>1, <2>1, LenProperties
<1> QED
    BY <1>1, <1>2, <1>3 DEF Backed, Grows

LEMMA OthersStayBacked ==
    ASSUME TypeOK, TypeOK', Grows, NEW j \in Jobs, inspection'[j] = inspection[j], HandIsBacked(j)
    PROVE  HandIsBacked(j)'
<1> USE DEF At, Graph, Role, Own, Attempts
<1>1. inspection[j] \in Inspection
    BY DEF TypeOK
<1>2. inspection[j].at \in Accesses => Graph(j) \in Graphs
    BY DEF TypeOK, Accesses
<1>3. inspection[j].at \in Sealing \cup Certifying \cup {"publish", "link"} => inspection[j].at \in Accesses
    BY DEF Sealing, Certifying, Accesses
<1>4. (At(j, "publish") => Own(j) \in DOMAIN Attempts(j))'
    BY <1>1, <1>2, <1>3 DEF HandIsBacked, Grows, Inspection
<1>5. (At(j, "link") => /\ Own(j) \in DOMAIN Attempts(j) \ {0}
                        /\ Attempts(j)[Own(j)].whole)'
    BY <1>1, <1>2, <1>3 DEF HandIsBacked, Grows, Inspection
<1>6. ((inspection[j].at \in Accesses /\ Role(j) = "independent") =>
          Backed(Graph(j), "primary", inspection[j].primary))'
    BY <1>1, <1>2, BackedStays DEF HandIsBacked, Inspection, Roles
<1>7. (inspection[j].at \in Certifying =>
          /\ Role(j) = "independent"
          /\ Backed(Graph(j), "independent", inspection[j].independent))'
    BY <1>1, <1>2, <1>3, BackedStays DEF HandIsBacked, Inspection, Roles
<1> QED
    BY <1>4, <1>5, <1>6, <1>7 DEF HandIsBacked, Grows

LEMMA CertificatesStayBacked ==
    ASSUME TypeOK, TypeOK', Grows, CertificatesAreBacked, UNCHANGED <<certificates, certificate>>
    PROVE  CertificatesAreBacked'
<1> SUFFICES ASSUME NEW g \in Graphs, NEW pair \in (certificates[g] \cup certificate[g])
             PROVE  (/\ g \in sealed
                     /\ Backed(g, "primary", pair[1]) /\ Backed(g, "independent", pair[2]))'
    BY DEF CertificatesAreBacked
<1>1. pair[1] \in Held /\ pair[2] \in Held
    BY DEF TypeOK
<1>2. g \in sealed /\ Backed(g, "primary", pair[1]) /\ Backed(g, "independent", pair[2])
    BY DEF CertificatesAreBacked
<1> QED
    BY <1>1, <1>2, BackedStays DEF Grows, Roles

-----------------------------------------------------------------------------
(***************************************************************************)
(* One lemma for each access.  Goto and Hold say how the inspection moves. *)
(***************************************************************************)
Points == Accesses \cup Decisions

LEMMA GotoMoves ==
    ASSUME TypeOK, NEW j \in Jobs, inspection[j].at \in Accesses, NEW there \in Points,
           Goto(j, there)
    PROVE  LET next == inspection'[j]
           IN  /\ inspection' \in [Jobs -> Inspection]
               /\ \A k \in Jobs \ {j} : inspection'[k] = inspection[k]
               /\ next = [inspection[j] EXCEPT !.at = there]
               /\ next.at = there /\ next.graph = Graph(j) /\ next.role = Role(j)
               /\ next.primary = inspection[j].primary
               /\ next.independent = inspection[j].independent
               /\ \A k \in Jobs : inspection'[k].at # "off" => inspection'[k].graph \in Graphs
<1>1. inspection[j] \in Inspection /\ inspection[j].at # "off" /\ Graph(j) \in Graphs
    BY DEF TypeOK, Accesses, At
<1>2. inspection'[j] = [inspection[j] EXCEPT !.at = there]
    BY DEF TypeOK, Goto
<1>3. inspection'[j] \in Inspection
    BY <1>1, <1>2 DEF Inspection, Points
<1>4. \A k \in Jobs \ {j} : inspection'[k] = inspection[k]
    BY DEF TypeOK, Goto
<1>5. inspection' \in [Jobs -> Inspection]
    BY <1>2, <1>3 DEF TypeOK, Goto
<1>6. /\ inspection'[j].graph = Graph(j) /\ inspection'[j].role = Role(j)
      /\ inspection'[j].at = there
      /\ inspection'[j].primary = inspection[j].primary
      /\ inspection'[j].independent = inspection[j].independent
    BY <1>1, <1>2 DEF Inspection, Graph, Role
<1> QED
    BY <1>1, <1>2, <1>4, <1>5, <1>6 DEF TypeOK, At, Graph

LEMMA HoldMoves ==
    ASSUME TypeOK, NEW j \in Jobs, Graph(j) \in Graphs, NEW n \in DOMAIN Attempts(j), Hold(j, n)
    PROVE  LET record == Attempts(j)[n]
               status == record.status
               next == inspection'[j]
               IsHeld(held) == /\ held \in Held /\ held[1] = n
                               /\ held[2] => published'[Graph(j)][Role(j)] = n
           IN  /\ inspection' \in [Jobs -> Inspection]
               /\ \A k \in Jobs \ {j} : inspection'[k] = inspection[k]
               /\ next.graph = Graph(j)
               /\ ~Conclusive(record) => next.at = "pause"
               /\ status = "INVALID" => next.at = "fail"
               /\ status = "REJECTED" =>
                     next.at = IF Role(j) = "primary" THEN "continue" ELSE "fail"
               /\ (Conclusive(record) /\ status = "VERIFIED" /\ Role(j) = "primary") =>
                     next.at = "load" /\ next.role = "independent" /\ IsHeld(next.primary)
               /\ (Conclusive(record) /\ status = "VERIFIED" /\ Role(j) = "independent") =>
                     /\ next.at = "certify" /\ next.role = "independent"
                     /\ next.primary = inspection[j].primary /\ IsHeld(next.independent)
<1> DEFINE record == Attempts(j)[n]
           h == <<n, published'[Graph(j)][Role(j)] = n>>
<1>1. inspection[j] \in Inspection /\ Role(j) \in Roles
    BY DEF TypeOK, Inspection, Role
<1>2. record \in Record
    BY <1>1, RecordIsRecord DEF Attempts
<1>3. h \in Held /\ h[1] = n /\ (h[2] => published'[Graph(j)][Role(j)] = n)
    <2>1. Attempts(j) \in Seq(Record)
        BY <1>1 DEF TypeOK, Attempts
    <2>2. n \in Nat
        BY <2>1, LenProperties
    <2>3. CASE published'[Graph(j)][Role(j)] = n
        <3>1. h = <<n, TRUE>>
            BY <2>3
        <3> QED
            BY <2>2, <2>3, <3>1 DEF Held
    <2>4. CASE published'[Graph(j)][Role(j)] # n
        <3>1. h = <<n, FALSE>>
            BY <2>4
        <3> QED
            BY <2>2, <2>4, <3>1 DEF Held
    <2> QED
        BY <2>3, <2>4
<1>4. inspection' = [inspection EXCEPT ![j] = Follow(j, record, h)]
    BY DEF Hold
<1> HIDE DEF record, h
<1>5. /\ Holding(j, h) \in Inspection /\ Holding(j, h).graph = Graph(j)
      /\ Holding(j, h).role = Role(j)
      /\ Role(j) = "primary" => Holding(j, h).primary = h
      /\ Role(j) = "independent" =>
            /\ Holding(j, h).primary = inspection[j].primary
            /\ Holding(j, h).independent = h
    BY <1>1, <1>3 DEF Holding, Inspection, Graph, Role, Roles
<1>6. \/ ~Conclusive(record)
      \/ Conclusive(record) /\ record.status \in Verdicts
    BY <1>2 DEF Record, Conclusive
<1> DEFINE good == Conclusive(record) /\ record.status = "VERIFIED"
           next == Follow(j, record, h)
<1>7. /\ ~Conclusive(record) => next.at = "pause"
      /\ record.status = "INVALID" => next.at = "fail"
      /\ record.status = "REJECTED" =>
            next.at = IF Role(j) = "primary" THEN "continue" ELSE "fail"
      /\ good => next.at = IF Role(j) = "primary" THEN "load" ELSE "certify"
      /\ next.role = IF good THEN "independent" ELSE Role(j)
      /\ next.graph = Graph(j)
      /\ next.primary = Holding(j, h).primary /\ next.independent = Holding(j, h).independent
    BY <1>5, <1>6 DEF Follow, Inspection, Verdicts, Conclusive
<1>8. next \in Inspection
    <2>1. next.at \in Accesses \cup Decisions /\ next.role \in Roles
        BY <1>1, <1>6, <1>7 DEF Verdicts, Roles, Accesses, Decisions
    <2>2. PICK at, role : next = [Holding(j, h) EXCEPT !.at = at, !.role = role]
        BY DEF Follow
    <2> HIDE DEF next
    <2>3. next.at = at /\ next.role = role
        BY <1>5, <2>2 DEF Inspection
    <2> QED
        BY <1>5, <2>1, <2>2, <2>3 DEF Inspection
<1>10. inspection'[j] = next /\ inspection' \in [Jobs -> Inspection]
    BY <1>4, <1>8 DEF TypeOK
<1>9. \A k \in Jobs \ {j} : inspection'[k] = inspection[k]
    BY <1>4 DEF TypeOK
<1> QED
    BY <1>3, <1>5, <1>7, <1>9, <1>10 DEF record

\* After a whole record is held, the hand is backed.
LEMMA HoldBacked ==
    ASSUME TypeOK, TypeOK', Grows, EvidenceIsHonest', NEW j \in Jobs, HandIsBacked(j),
           inspection[j].at \in {"load", "publish", "link"},
           NEW n \in DOMAIN Attempts(j), Hold(j, n),
           records'[Graph(j)][Role(j)][n].whole
    PROVE  HandIsBacked(j)'
<1> DEFINE next == inspection'[j]
<1>1. inspection[j] \in Inspection /\ Role(j) \in Roles /\ Graph(j) \in Graphs /\ Graph(j) \in sealed
    BY DEF TypeOK, Inspection, Role, HandIsBacked, At, Sealing
<1>2. PICK g \in Graphs, r \in Roles : g = Graph(j) /\ r = Role(j)
    BY <1>1
<1> DEFINE good == Conclusive(Attempts(j)[n]) /\ Attempts(j)[n].status = "VERIFIED"
<1>3. /\ Attempts(j)[n] \in Record /\ n \in Nat
      /\ ~Conclusive(Attempts(j)[n]) \/ Attempts(j)[n].status \in Verdicts
    <2>1. records[g][r] \in Seq(Record)
        BY DEF TypeOK
    <2>2. Attempts(j)[n] \in Record /\ n \in Nat
        BY <1>2, <2>1, RecordIsRecord, LenProperties DEF Attempts
    <2> QED
        BY <2>2 DEF Record, Conclusive
<1>4. next.graph = g /\ next.at \notin Sealing \cup {"publish", "link"} /\ g \in sealed'
    BY <1>1, <1>2, <1>3, HoldMoves DEF Verdicts, Roles, Sealing, Grows
<1>5. CASE ~good
    <2>1. next.at \notin Accesses /\ next.at \notin Certifying
        BY <1>1, <1>3, <1>5, HoldMoves DEF Verdicts, Accesses, Certifying
    <2> QED
        BY <1>4, <2>1 DEF HandIsBacked, At, Role, Graph, Own, Attempts
<1>6. CASE good
    <2>1. PICK h \in Held : /\ h[1] = n /\ (h[2] => published'[g][r] = n)
                            /\ h = IF r = "primary" THEN next.primary ELSE next.independent
        BY <1>1, <1>2, <1>6, HoldMoves DEF Roles
    <2>2. Backed(g, r, h)'
        <3>1. /\ n \in DOMAIN records'[g][r] /\ records'[g][r][n].status = "VERIFIED"
              /\ records'[g][r][n].complete = TRUE
            BY <1>2, <1>3, <1>6 DEF Grows, Attempts, Record, Conclusive
        <3>2. records'[g][r] \in Seq(Record)
            BY DEF TypeOK
        <3>3. records'[g][r][n] \in Record
            BY <3>1, <3>2, ElementOfSeq, LenProperties
        <3>4. records'[g][r][n] = [status |-> "VERIFIED", complete |-> TRUE, whole |-> TRUE]
            BY <1>2, <3>1, <3>3 DEF Record
        <3>5. verdict'[g][r] = "VERIFIED"
            BY <3>1 DEF EvidenceIsHonest, Conclusive
        <3> QED
            BY <2>1, <3>1, <3>4, <3>5 DEF Backed
    <2>3. CASE r = "primary"
        <3>1. next.at = "load" /\ next.role = "independent"
            BY <1>1, <1>2, <1>6, <2>1, <2>3, HoldMoves
        <3> QED
            BY <1>4, <2>1, <2>2, <2>3, <3>1 DEF HandIsBacked, Backed, At, Role, Graph, Certifying, Sealing
    <2>4. CASE r = "independent"
        <3>1. /\ next.at = "certify" /\ next.role = "independent"
              /\ next.primary = inspection[j].primary /\ next.independent = h
            BY <1>1, <1>2, <1>6, <2>1, <2>4, HoldMoves
        <3>2. PICK held \in Held : held = inspection[j].primary
            BY <1>1 DEF Inspection
        <3>3. Backed(g, "primary", held)
            BY <1>2, <2>4, <3>2 DEF HandIsBacked, Accesses
        <3>4. Backed(g, "primary", held)'
            BY <3>3, BackedStays DEF Roles
        <3> QED
            BY <1>4, <2>1, <2>2, <2>4, <3>1, <3>2, <3>4 DEF HandIsBacked, Backed, At, Role, Graph, Sealing
    <2> QED
        BY <2>3, <2>4 DEF Roles
<1> QED
    BY <1>5, <1>6

LEMMA GotoBacked ==
    ASSUME Inv, TypeOK', Grows, NEW j \in Jobs, NEW there \in Points \ {"look", "publish"},
           Goto(j, there), inspection[j].at \in Accesses,
           there = "seal" => inspection[j].at = "look",
           there \notin {"error", "seal"} => Graph(j) \in sealed',
           there = "link" => /\ Own(j) \in (DOMAIN records'[Graph(j)][Role(j)]) \ {0}
                             /\ records'[Graph(j)][Role(j)][Own(j)].whole,
           there \in Certifying => inspection[j].at \in Certifying
    PROVE  HandIsBacked(j)'
<1> DEFINE next == inspection'[j]
<1>1. inspection[j] \in Inspection /\ Role(j) \in Roles /\ Graph(j) \in Graphs
    BY DEF Inv, TypeOK, Inspection, Role, At, Accesses
<1>2. /\ next.graph = Graph(j) /\ next.role = Role(j) /\ next.at = there
      /\ next.primary = inspection[j].primary /\ next.independent = inspection[j].independent
    BY GotoMoves DEF Inv
<1>3. PICK g \in Graphs : g = Graph(j)
    BY <1>1
<1>4. PICK p \in Held, i \in Held : p = inspection[j].primary /\ i = inspection[j].independent
    BY <1>1 DEF Inspection
<1>5. Role(j) = "independent" => Backed(g, "primary", p)'
    BY <1>3, <1>4, BackedStays DEF Inv, HandIsBacked, Roles
<1>6. there \in Certifying => Role(j) = "independent" /\ Backed(g, "independent", i)'
    BY <1>3, <1>4, BackedStays DEF Inv, HandIsBacked, Roles
<1>7. Own(j)' = Own(j)
    BY <1>1, <1>2 DEF Own, Role, Roles
<1>8. (At(j, "link") => /\ Own(j) \in DOMAIN Attempts(j) \ {0}
                        /\ Attempts(j)[Own(j)].whole)'
    BY <1>2, <1>7 DEF At, Attempts, Graph, Role
<1>9. there = "seal" => Role(j) = "primary"
    BY DEF Inv, HandIsBacked, Sealing
<1> QED
    BY <1>2, <1>3, <1>4, <1>5, <1>6, <1>8, <1>9
       DEF HandIsBacked, Backed, At, Graph, Role, Sealing, Points

\* The others keep what they have; what is left to show is the hand of j.
LEMMA OneMoves ==
    ASSUME Inv, TypeOK', Grows, EvidenceIsHonest', CertificatesAreBacked', NEW j \in Jobs,
           \A k \in Jobs \ {j} : inspection'[k] = inspection[k], HandIsBacked(j)'
    PROVE  Inv'
<1>1. ASSUME NEW k \in Jobs PROVE HandIsBacked(k)'
    BY OthersStayBacked DEF Inv
<1> QED
    BY <1>1 DEF Inv

\* A move that leaves the evidence alone.
LEMMA GotoKeepsInv ==
    ASSUME Inv, NEW j \in Jobs, NEW there \in Points \ {"look", "publish", "link"},
           Goto(j, there), UNCHANGED <<evidence, verdict>>, inspection[j].at \in Accesses,
           there = "seal" => inspection[j].at = "look",
           there \notin {"error", "seal"} => Graph(j) \in sealed,
           there \in Certifying => inspection[j].at \in Certifying
    PROVE  Inv'
<1> USE DEF evidence
<1>1. TypeOK'
    BY GotoMoves DEF Inv, TypeOK, At, Graph
<1>2. Grows /\ EvidenceIsHonest'
    BY UnchangedGrows DEF Inv, EvidenceIsHonest
<1>3. CertificatesAreBacked'
    BY <1>1, <1>2, CertificatesStayBacked DEF Inv
<1>4. HandIsBacked(j)'
    BY <1>1, <1>2, GotoBacked
<1> QED
    BY <1>1, <1>2, <1>3, <1>4, GotoMoves, OneMoves DEF Inv

LEMMA BeginKeepsInv == ASSUME Inv, NEW j \in Jobs, NEW g \in Graphs, Begin(j, g) PROVE Inv'
<1> USE DEF evidence
<1>0. [NoInspection EXCEPT !.at = "look", !.graph = g] \in Inspection
    BY DEF NoInspection, Inspection, Held, Roles, Accesses
<1>1. TypeOK'
    BY <1>0 DEF Begin, Inv, TypeOK, At, Graph, NoInspection
<1>2. Grows /\ EvidenceIsHonest'
    BY UnchangedGrows DEF Begin, Inv, EvidenceIsHonest
<1>3. CertificatesAreBacked'
    BY <1>1, <1>2, CertificatesStayBacked DEF Begin, Inv
<1>4. HandIsBacked(j)'
    BY DEF Begin, Inv, TypeOK, HandIsBacked, At, Role, Sealing, Certifying, NoInspection
<1>5. \A k \in Jobs \ {j} : inspection'[k] = inspection[k]
    BY DEF Begin, Inv, TypeOK
<1> QED
    BY <1>1, <1>2, <1>3, <1>4, <1>5, OneMoves

LEMMA LeaveKeepsInv == ASSUME Inv, NEW j \in Jobs, Leave(j) PROVE Inv'
<1> USE DEF evidence
<1>0. NoInspection \in Inspection
    BY DEF NoInspection, Inspection, Held, Roles
<1>1. TypeOK'
    BY <1>0 DEF Leave, Inv, TypeOK, At, Graph, NoInspection
<1>2. Grows /\ EvidenceIsHonest'
    BY UnchangedGrows DEF Leave, Inv, EvidenceIsHonest
<1>3. CertificatesAreBacked'
    BY <1>1, <1>2, CertificatesStayBacked DEF Leave, Inv
<1>4. HandIsBacked(j)'
    BY DEF Leave, Inv, TypeOK, HandIsBacked, At, Role, Sealing, Certifying, NoInspection, Accesses
<1>5. \A k \in Jobs \ {j} : inspection'[k] = inspection[k]
    BY DEF Leave, Inv, TypeOK
<1> QED
    BY <1>1, <1>2, <1>3, <1>4, <1>5, OneMoves

LEMMA LookKeepsInv == ASSUME Inv, NEW j \in Jobs, Look(j) PROVE Inv'
BY GotoKeepsInv DEF Look, At, Accesses, Points, Certifying

LEMMA RaiseKeepsInv ==
    ASSUME Inv, NEW j \in Jobs, Raise(j), inspection[j].at \in Accesses, UNCHANGED verdict PROVE Inv'
BY GotoKeepsInv DEF Raise, Points, Decisions, Certifying

LEMMA SealKeepsInv == ASSUME Inv, NEW j \in Jobs, Seal(j) PROVE Inv'
<1>0. "load" \in Accesses /\ inspection[j].at \in Accesses /\ Graph(j) \in Graphs
    BY DEF Seal, At, Accesses, Inv, TypeOK, Graph
<1>1. CASE Raise(j)
    BY <1>1, RaiseKeepsInv DEF Seal, At, Accesses
<1>2. CASE /\ sealed' = sealed \cup {Graph(j)} /\ Goto(j, "load")
           /\ UNCHANGED <<records, published, certificates, certificate, verdict>>
    <2>1. TypeOK'
        BY <1>0, <1>2, GotoMoves DEF Inv, TypeOK, At, Graph, Points
    <2>2. Grows /\ EvidenceIsHonest'
        BY <1>2 DEF Grows, Inv, EvidenceIsHonest
    <2>3. CertificatesAreBacked'
        BY <1>2, <2>1, <2>2, CertificatesStayBacked DEF Inv
    <2>4. HandIsBacked(j)'
        BY <1>2, <2>1, <2>2, GotoBacked DEF Seal, At, Points, Accesses, Certifying
    <2> QED
        BY <1>0, <1>2, <2>1, <2>2, <2>3, <2>4, GotoMoves, OneMoves DEF Inv, Points
<1> QED
    BY <1>1, <1>2 DEF Seal

LEMMA LoadKeepsInv == ASSUME Inv, NEW j \in Jobs, Load(j) PROVE Inv'
<1>1. Graph(j) \in Graphs /\ Graph(j) \in sealed
    BY DEF Load, At, Graph, Inv, TypeOK, HandIsBacked, Sealing
<1>2. CASE Raise(j)
    BY <1>2, RaiseKeepsInv DEF Load, At, Accesses
<1>3. CASE Goto(j, "verify") /\ UNCHANGED evidence
    BY <1>1, <1>3, GotoKeepsInv DEF Load, At, Accesses, Points, Certifying
<1>4. ASSUME Readable(Attempts(j)), UNCHANGED evidence, NEW n \in Terminal(Attempts(j)), Hold(j, n)
      PROVE  Inv'
    <2> USE DEF evidence
    <2>1. n \in DOMAIN Attempts(j) /\ Attempts(j)[n].whole
        BY <1>4 DEF Terminal, Readable
    <2>2. TypeOK'
        BY <1>1, <1>4, <2>1, HoldMoves DEF Load, Inv, TypeOK, At, Graph, Inspection
    <2>3. Grows /\ EvidenceIsHonest'
        BY <1>4, UnchangedGrows DEF Load, Inv, EvidenceIsHonest
    <2>4. CertificatesAreBacked'
        BY <1>4, <2>2, <2>3, CertificatesStayBacked DEF Inv
    <2>5. HandIsBacked(j)'
        BY <1>4, <2>1, <2>2, <2>3, HoldBacked DEF Load, Inv, At, Attempts
    <2> QED
        BY <1>1, <1>4, <2>1, <2>2, <2>3, <2>4, <2>5, HoldMoves, OneMoves DEF Inv
<1> QED
    BY <1>2, <1>3, <1>4 DEF Load

LEMMA VerifyAppends ==
    ASSUME Inv, NEW j \in Jobs, Verify(j)
    PROVE  /\ TypeOK' /\ Grows /\ EvidenceIsHonest'
           /\ Graph(j) \in Graphs /\ Role(j) \in Roles
           /\ \A k \in Jobs \ {j} : inspection'[k] = inspection[k]
           /\ inspection'[j].at = "publish" /\ inspection'[j].graph = Graph(j)
           /\ inspection'[j].role = Role(j)
           /\ inspection'[j][Role(j)][1] \in DOMAIN records'[Graph(j)][Role(j)]
           /\ Role(j) = "independent" => inspection'[j].primary = inspection[j].primary
<1>1. inspection[j] \in Inspection /\ Role(j) \in Roles /\ Graph(j) \in Graphs
    BY DEF Verify, Inv, TypeOK, Inspection, Role, At, Graph
<1>2. PICK g \in Graphs, r \in Roles : g = Graph(j) /\ r = Role(j)
    BY <1>1
<1>3. PICK answer \in {[status |-> verdict[g][r], complete |-> TRUE]} \cup Uncertain :
          records' = [records EXCEPT ![g][r] = Append(@,
                         [status |-> answer.status, complete |-> answer.complete, whole |-> FALSE])]
    BY <1>2 DEF Verify
<1> DEFINE rec == [status |-> answer.status, complete |-> answer.complete, whole |-> FALSE]
           n == Len(records[g][r]) + 1
<1>4. rec \in Record /\ (Conclusive(rec) => rec.status = verdict[g][r])
    <2>1. CASE answer = [status |-> verdict[g][r], complete |-> TRUE]
        <3>1. verdict[g][r] \in Verdicts /\ answer.complete = TRUE /\ answer.status = verdict[g][r]
            BY <2>1 DEF Inv, TypeOK
        <3> QED
            BY <3>1 DEF Record
    <2>2. CASE answer \in Uncertain
        <3>1. answer.status \in {"UNKNOWN", "VERIFIED"} /\ answer.complete = FALSE
            BY <2>2 DEF Uncertain
        <3>2. rec \in Record
            BY <3>1 DEF Record, Verdicts
        <3>3. rec.status = answer.status /\ rec.complete = FALSE
            BY <3>1
        <3>4. ~Conclusive(rec)
            BY <3>1, <3>3 DEF Conclusive
        <3> QED
            BY <3>2, <3>4
    <2> QED
        BY <2>1, <2>2
<1>5. records[g][r] \in Seq(Record)
    BY DEF Inv, TypeOK
<1>6. /\ records'[g][r] \in Seq(Record) /\ Len(records'[g][r]) = n
      /\ records'[g][r][n] = rec
      /\ \A m \in DOMAIN records[g][r] : records'[g][r][m] = records[g][r][m]
      /\ DOMAIN records'[g][r] = DOMAIN records[g][r] \cup {n}
    <2>1. records'[g][r] = Append(records[g][r], rec)
        BY <1>3 DEF Inv, TypeOK
    <2> QED
        BY <1>4, <1>5, <2>1, AppendProperties, LenProperties
<1>7. /\ records' \in [Graphs -> [Roles -> Seq(Record)]]
      /\ \A g2 \in Graphs, r2 \in Roles :
            (g2 # g \/ r2 # r) => records'[g2][r2] = records[g2][r2]
    BY <1>3, <1>6 DEF Inv, TypeOK
<1>8. n \in Nat /\ <<n, FALSE>> \in Held /\ <<n, FALSE>>[1] = n
    <2>1. n \in Nat
        BY <1>5, LenProperties
    <2> HIDE DEF n
    <2> QED
        BY <2>1 DEF Held
<1>9. /\ inspection'[j] = [inspection[j] EXCEPT !.at = "publish", ![r] = <<n, FALSE>>]
      /\ \A k \in Jobs \ {j} : inspection'[k] = inspection[k]
    BY <1>2 DEF Verify, Inv, TypeOK, Attempts
<1>10. /\ inspection'[j] \in Inspection
       /\ inspection'[j].at = "publish" /\ inspection'[j].graph = g /\ inspection'[j].role = r
       /\ inspection'[j][r] = <<n, FALSE>>
       /\ r = "independent" => inspection'[j].primary = inspection[j].primary
    BY <1>1, <1>2, <1>8, <1>9 DEF Inspection, Roles, Accesses, Graph, Role
<1>11. TypeOK'
    <2>1. inspection' \in [Jobs -> Inspection]
        BY <1>9, <1>10 DEF Verify, Inv, TypeOK
    <2>2. \A k \in Jobs : ~At(k, "off")' => Graph(k)' \in Graphs
        BY <1>9, <1>10 DEF Inv, TypeOK, At, Graph
    <2> QED
        BY <1>7, <2>1, <2>2 DEF Verify, Inv, TypeOK
<1>12. Grows
    BY <1>6, <1>7 DEF Grows, Verify
<1>13. EvidenceIsHonest'
    <2> SUFFICES ASSUME NEW h \in Graphs, NEW q \in Roles
                 PROVE  /\ \A m \in DOMAIN records'[h][q] :
                              Conclusive(records'[h][q][m]) =>
                                 records'[h][q][m].status = verdict'[h][q]
                        /\ published'[h][q] # 0 =>
                              /\ published'[h][q] \in DOMAIN records'[h][q]
                              /\ records'[h][q][published'[h][q]].whole
        BY DEF EvidenceIsHonest
    <2>1. verdict' = verdict /\ published' = published
        BY DEF Verify
    <2>2. CASE h = g /\ q = r
        BY <1>4, <1>6, <2>1, <2>2, SMTT(30) DEF Inv, EvidenceIsHonest, Conclusive
    <2>3. CASE h # g \/ q # r
        <3>1. records'[h][q] = records[h][q]
            BY <1>7, <2>3
        <3> QED
            BY <2>1, <3>1 DEF Inv, EvidenceIsHonest
    <2> QED
        BY <2>2, <2>3
<1>14. inspection'[j][r][1] \in DOMAIN records'[g][r]
    BY <1>6, <1>8, <1>10
<1> HIDE DEF rec, n
<1> QED
    BY <1>2, <1>9, <1>10, <1>11, <1>12, <1>13, <1>14, ZenonT(30)

LEMMA VerifyKeepsInv == ASSUME Inv, NEW j \in Jobs, Verify(j) PROVE Inv'
<1>1. PICK g \in Graphs, r \in Roles : g = Graph(j) /\ r = Role(j)
    BY VerifyAppends
<1>2. CertificatesAreBacked'
    BY VerifyAppends, CertificatesStayBacked DEF Inv, Verify
<1>3. g \in sealed'
    BY <1>1 DEF Verify, Inv, HandIsBacked, At, Sealing
<1>4. ASSUME r = "independent"
      PROVE  Backed(g, "primary", inspection[j].primary)'
    <2>1. PICK p \in Held : p = inspection[j].primary
        BY DEF Inv, TypeOK, Inspection
    <2>2. Backed(g, "primary", p)
        BY <1>1, <1>4, <2>1 DEF Inv, HandIsBacked, Verify, At, Accesses
    <2>3. Backed(g, "primary", p)'
        BY <2>2, BackedStays, VerifyAppends DEF Inv, Roles
    <2>4. inspection'[j].primary = p
        BY <1>1, <1>4, <2>1, VerifyAppends
    <2> QED
        BY <2>3, <2>4 DEF Backed
<1>5. HandIsBacked(j)'
    BY <1>1, <1>3, <1>4, VerifyAppends
       DEF HandIsBacked, Backed, At, Graph, Role, Own, Attempts, Sealing, Certifying
<1> QED
    BY <1>2, <1>5, VerifyAppends, OneMoves

LEMMA PublishGrows ==
    ASSUME Inv, NEW j \in Jobs, Publish(j)
    PROVE  /\ records' \in [Graphs -> [Roles -> Seq(Record)]]
           /\ Grows /\ EvidenceIsHonest'
           /\ Graph(j) \in Graphs /\ Role(j) \in Roles
           /\ Own(j) \in DOMAIN Attempts(j) \ {0}
           /\ Own(j) \in DOMAIN records'[Graph(j)][Role(j)]
           /\ records'[Graph(j)][Role(j)][Own(j)].whole
<1>1. inspection[j] \in Inspection /\ Role(j) \in Roles /\ Graph(j) \in Graphs
    BY DEF Publish, Inv, TypeOK, Inspection, Role, At, Graph
<1>2. PICK g \in Graphs, r \in Roles : g = Graph(j) /\ r = Role(j)
    BY <1>1
<1>3. PICK n : n = Own(j)
    OBVIOUS
<1>4. records[g][r] \in Seq(Record)
    BY DEF Inv, TypeOK
<1>5. n \in DOMAIN records[g][r]
    BY <1>2, <1>3 DEF Inv, HandIsBacked, Publish, Attempts
<1>6. n \in 1..Len(records[g][r])
    BY <1>4, <1>5, LenProperties
<1> DEFINE rec == [records[g][r][n] EXCEPT !.whole = TRUE]
<1>7. records[g][r][n] \in Record /\ rec \in Record /\ rec.whole
      /\ rec.status = records[g][r][n].status /\ rec.complete = records[g][r][n].complete
      /\ (Conclusive(rec) <=> Conclusive(records[g][r][n]))
    <2>1. records[g][r][n] \in Record
        BY <1>4, <1>6, ElementOfSeq
    <2>2. /\ rec \in Record /\ rec.whole
          /\ rec.status = records[g][r][n].status /\ rec.complete = records[g][r][n].complete
        BY <2>1 DEF Record
    <2> QED
        BY <2>1, <2>2 DEF Conclusive
<1>8. records' = [records EXCEPT ![g][r][n].whole = TRUE]
    BY <1>2, <1>3 DEF Publish
<1>9. /\ records'[g][r] = [records[g][r] EXCEPT ![n] = rec]
      /\ \A g2 \in Graphs, r2 \in Roles :
            (g2 # g \/ r2 # r) => records'[g2][r2] = records[g2][r2]
    BY <1>8 DEF Inv, TypeOK
<1> HIDE DEF rec
<1>10. /\ records'[g][r] \in Seq(Record) /\ DOMAIN records'[g][r] = DOMAIN records[g][r]
       /\ \A m \in DOMAIN records[g][r] :
             records'[g][r][m] = IF m = n THEN rec ELSE records[g][r][m]
    <2>1. records'[g][r] \in Seq(Record)
        BY <1>4, <1>6, <1>7, <1>9, ExceptSeq
    <2> QED
        BY <1>9, <2>1
<1>11. records' \in [Graphs -> [Roles -> Seq(Record)]]
    BY <1>8, <1>9, <1>10 DEF Inv, TypeOK
<1>12. /\ verdict' = verdict /\ published' = published /\ sealed' = sealed
    BY DEF Publish
<1>13. Grows
    BY <1>7, <1>9, <1>10, <1>12 DEF Grows
<1>14. EvidenceIsHonest'
    <2> SUFFICES ASSUME NEW h \in Graphs, NEW q \in Roles
                 PROVE  /\ \A m \in DOMAIN records'[h][q] :
                              Conclusive(records'[h][q][m]) =>
                                 records'[h][q][m].status = verdict'[h][q]
                        /\ published'[h][q] # 0 =>
                              /\ published'[h][q] \in DOMAIN records'[h][q]
                              /\ records'[h][q][published'[h][q]].whole
        BY DEF EvidenceIsHonest
    <2>1. CASE h = g /\ q = r
        BY <1>7, <1>10, <1>12, <2>1 DEF Inv, EvidenceIsHonest, Conclusive
    <2>2. CASE h # g \/ q # r
        BY <1>9, <1>12, <2>2 DEF Inv, EvidenceIsHonest, Conclusive
    <2> QED
        BY <2>1, <2>2
<1> QED
    BY <1>2, <1>3, <1>5, <1>6, <1>7, <1>10, <1>11, <1>13, <1>14 DEF Attempts

\* Publish and Link both end in holding the inspection's own record, whole.
LEMMA HoldKeepsInv ==
    ASSUME Inv, NEW j \in Jobs, inspection[j].at \in {"load", "publish", "link"},
           records' \in [Graphs -> [Roles -> Seq(Record)]],
           published' \in [Graphs -> [Roles -> Nat]],
           UNCHANGED <<sealed, certificates, certificate, verdict>>, Grows, EvidenceIsHonest',
           NEW n \in DOMAIN Attempts(j), Hold(j, n), records'[Graph(j)][Role(j)][n].whole
    PROVE  Inv'
<1>1. Graph(j) \in Graphs
    BY DEF Inv, TypeOK, At, Graph
<1>2. TypeOK'
    BY <1>1, HoldMoves DEF Inv, TypeOK, At, Graph
<1>3. CertificatesAreBacked'
    BY <1>2, CertificatesStayBacked DEF Inv
<1>4. HandIsBacked(j)'
    BY <1>2, HoldBacked DEF Inv
<1> QED
    BY <1>1, <1>2, <1>3, <1>4, HoldMoves, OneMoves DEF Inv

LEMMA PublishKeepsInv == ASSUME Inv, NEW j \in Jobs, Publish(j) PROVE Inv'
<1>1. CASE Goto(j, "link")
    <2>1. inspection[j].at \in Accesses /\ "link" \in Points \ {"look", "publish"}
        BY DEF Publish, At, Accesses, Points
    <2>2. TypeOK'
        BY <1>1, <2>1, PublishGrows, GotoMoves DEF Publish, Inv, TypeOK, At, Graph
    <2>3. CertificatesAreBacked'
        BY <2>2, PublishGrows, CertificatesStayBacked DEF Publish, Inv
    <2>4. Graph(j) \in sealed'
        BY DEF Publish, Inv, HandIsBacked, At, Sealing
    <2>5. HandIsBacked(j)'
        BY <1>1, <2>1, <2>2, <2>4, PublishGrows, GotoBacked DEF Certifying
    <2> QED
        BY <1>1, <2>1, <2>2, <2>3, <2>5, PublishGrows, GotoMoves, OneMoves DEF Inv
<1>2. CASE Hold(j, Own(j))
    BY <1>2, PublishGrows, HoldKeepsInv DEF Publish, Inv, TypeOK, At
<1> QED
    BY <1>1, <1>2 DEF Publish

LEMMA LinkKeepsInv == ASSUME Inv, NEW j \in Jobs, Link(j) PROVE Inv'
<1>1. CASE Raise(j)
    BY <1>1, RaiseKeepsInv DEF Link, At, Accesses
<1>2. CASE /\ published[Graph(j)][Role(j)] = 0
           /\ published' = [published EXCEPT ![Graph(j)][Role(j)] = Own(j)]
           /\ Hold(j, Own(j))
           /\ UNCHANGED <<sealed, records, certificates, certificate>>
    <2>1. Role(j) \in Roles /\ Graph(j) \in Graphs
        BY DEF Link, Inv, TypeOK, Inspection, Role, At, Graph
    <2>0. PICK n : n = Own(j)
        OBVIOUS
    <2>2. PICK g \in Graphs, r \in Roles : g = Graph(j) /\ r = Role(j) /\ n = Own(j)
        BY <2>0, <2>1
    <2>3. n \in DOMAIN records[g][r] \ {0} /\ records[g][r][n].whole
        BY <2>2 DEF Link, Inv, HandIsBacked, At, Attempts
    <2>4. records[g][r] \in Seq(Record)
        BY DEF Inv, TypeOK
    <2>5. n \in Nat
        BY <2>3, <2>4, LenProperties
    <2>6. /\ published' \in [Graphs -> [Roles -> Nat]]
          /\ \A h \in Graphs, q \in Roles :
                published'[h][q] = IF h = g /\ q = r THEN n ELSE published[h][q]
        BY <1>2, <2>2, <2>5 DEF Inv, TypeOK
    <2>7. Grows
        BY <1>2, <2>2, <2>6 DEF Grows, Link
    <2>8. EvidenceIsHonest'
        BY <1>2, <2>3, <2>6 DEF EvidenceIsHonest, Inv, Link
    <2>9. inspection[j].at \in {"load", "publish", "link"} /\ verdict' = verdict
        BY DEF Link, At
    <2>10. records'[Graph(j)][Role(j)][n].whole /\ n \in DOMAIN Attempts(j)
        BY <1>2, <2>2, <2>3 DEF Attempts
    <2> QED
        BY <1>2, <2>2, <2>6, <2>7, <2>8, <2>9, <2>10, HoldKeepsInv DEF Inv, TypeOK
<1> QED
    BY <1>1, <1>2 DEF Link

LEMMA CertifyKeepsInv == ASSUME Inv, NEW j \in Jobs, Certify(j) PROVE Inv'
<1>1. Graph(j) \in sealed
    BY DEF Certify, Inv, HandIsBacked, At, Sealing
<1> QED
    BY <1>1, GotoKeepsInv DEF Certify, At, Accesses, Points, Certifying

\* The pair an inspection certifies is backed, so a certificate of it is too.
LEMMA PairIsBacked ==
    ASSUME Inv, NEW j \in Jobs, inspection[j].at \in Certifying
    PROVE  /\ Graph(j) \in Graphs /\ Graph(j) \in sealed /\ Pair(j) \in Held \X Held
           /\ Backed(Graph(j), "primary", Pair(j)[1])
           /\ Backed(Graph(j), "independent", Pair(j)[2])
<1>1. inspection[j] \in Inspection /\ Graph(j) \in Graphs /\ inspection[j].at \in Accesses
    BY DEF Inv, TypeOK, At, Graph, Certifying, Accesses
<1>2. Graph(j) \in sealed
    BY DEF Inv, HandIsBacked, At, Sealing, Certifying
<1>3. /\ Backed(Graph(j), "primary", inspection[j].primary)
      /\ Backed(Graph(j), "independent", inspection[j].independent)
    BY <1>1 DEF Inv, HandIsBacked
<1> QED
    BY <1>1, <1>2, <1>3 DEF Pair, Inspection

LEMMA CertificatesGain ==
    ASSUME Inv, NEW j \in Jobs, inspection[j].at \in Certifying,
           NEW there \in {"certLink", "verified"}, Goto(j, there),
           UNCHANGED <<sealed, records, published, verdict>>,
           certificates' \in [Graphs -> SUBSET (Held \X Held)],
           certificate' \in [Graphs -> SUBSET (Held \X Held)],
           \A g \in Graphs :
              certificates'[g] \cup certificate'[g]
                 \subseteq certificates[g] \cup certificate[g]
                              \cup (IF g = Graph(j) THEN {Pair(j)} ELSE {})
    PROVE  Inv'
<1>1. inspection[j].at \in Accesses /\ there \in Points \ {"look", "publish"}
    BY DEF Certifying, Accesses, Points, Decisions
<1>2. TypeOK'
    BY <1>1, GotoMoves DEF Inv, TypeOK, At, Graph
<1>3. Grows /\ EvidenceIsHonest'
    BY UnchangedGrows DEF Inv, EvidenceIsHonest
<1>4. CertificatesAreBacked'
    <2> SUFFICES ASSUME NEW g \in Graphs, NEW pair \in (certificates'[g] \cup certificate'[g])
                 PROVE  /\ g \in sealed'
                        /\ Backed(g, "primary", pair[1])' /\ Backed(g, "independent", pair[2])'
        BY DEF CertificatesAreBacked
    <2>1. /\ g \in sealed
          /\ Backed(g, "primary", pair[1]) /\ Backed(g, "independent", pair[2])
        <3>1. CASE pair \in certificates[g] \cup certificate[g]
            BY <3>1 DEF Inv, CertificatesAreBacked
        <3>2. CASE g = Graph(j) /\ pair = Pair(j)
            BY <3>2, PairIsBacked
        <3> QED
            BY <3>1, <3>2
    <2> QED
        BY <2>1 DEF Backed
<1>5. HandIsBacked(j)'
    BY <1>1, <1>2, <1>3, PairIsBacked, GotoBacked
<1> QED
    BY <1>1, <1>2, <1>3, <1>4, <1>5, GotoMoves, OneMoves DEF Inv

LEMMA CertificateKeepsInv == ASSUME Inv, NEW j \in Jobs, Certificate(j) PROVE Inv'
<1>1. inspection[j].at \in Certifying /\ inspection[j].at \in Accesses
    BY DEF Certificate, At, Certifying, Accesses
<1>2. CASE Raise(j)
    BY <1>1, <1>2, RaiseKeepsInv DEF Certificate
<1>3. CASE Goto(j, "certLink") /\ UNCHANGED evidence
    BY <1>1, <1>3, CertificatesGain DEF Certificate, evidence, Inv, TypeOK
<1>4. CASE /\ certificates' = [certificates EXCEPT ![Graph(j)] = @ \cup {Pair(j)}]
           /\ Goto(j, "certLink")
           /\ UNCHANGED <<sealed, records, published, certificate>>
    <2>1. certificates' \in [Graphs -> SUBSET (Held \X Held)]
        BY <1>1, <1>4, PairIsBacked DEF Inv, TypeOK
    <2>2. \A g \in Graphs :
             certificates'[g] = certificates[g] \cup (IF g = Graph(j) THEN {Pair(j)} ELSE {})
        BY <1>4 DEF Inv, TypeOK
    <2> QED
        BY <1>1, <1>4, <2>1, <2>2, CertificatesGain DEF Certificate, Inv, TypeOK
<1> QED
    BY <1>2, <1>3, <1>4 DEF Certificate

LEMMA CertLinkKeepsInv == ASSUME Inv, NEW j \in Jobs, CertLink(j) PROVE Inv'
<1>1. inspection[j].at \in Certifying /\ inspection[j].at \in Accesses
    BY DEF CertLink, At, Certifying, Accesses
<1>2. CASE Raise(j)
    BY <1>1, <1>2, RaiseKeepsInv DEF CertLink
<1>3. CASE /\ certificate' = [certificate EXCEPT ![Graph(j)] = {Pair(j)}]
           /\ Goto(j, "verified")
           /\ UNCHANGED <<sealed, records, published, certificates>>
    <2>1. certificate' \in [Graphs -> SUBSET (Held \X Held)]
        BY <1>1, <1>3, PairIsBacked DEF Inv, TypeOK
    <2>2. \A g \in Graphs :
             certificate'[g] \subseteq certificate[g] \cup (IF g = Graph(j) THEN {Pair(j)} ELSE {})
        BY <1>3 DEF Inv, TypeOK
    <2> QED
        BY <1>1, <1>3, <2>1, <2>2, CertificatesGain DEF CertLink, Inv, TypeOK
<1> QED
    BY <1>2, <1>3 DEF CertLink

-----------------------------------------------------------------------------
LEMMA InitInv == Init => Inv
<1> SUFFICES ASSUME Init PROVE Inv
    OBVIOUS
<1>1. NoInspection \in Inspection
    BY DEF NoInspection, Inspection, Held, Roles
<1>2. TypeOK
    BY <1>1, EmptySeq DEF Init, TypeOK, At, Graph, NoInspection
<1>3. EvidenceIsHonest
    BY DEF Init, EvidenceIsHonest
<1>4. \A j \in Jobs : HandIsBacked(j)
    BY DEF Init, HandIsBacked, At, Role, NoInspection, Sealing, Certifying, Accesses
<1>5. CertificatesAreBacked
    BY DEF Init, CertificatesAreBacked
<1> QED
    BY <1>2, <1>3, <1>4, <1>5 DEF Inv

LEMMA StutterKeepsInv == ASSUME Inv, UNCHANGED vars PROVE Inv'
<1> USE DEF vars, evidence
<1>1. TypeOK' /\ EvidenceIsHonest'
    BY DEF Inv, TypeOK, EvidenceIsHonest, At, Graph
<1>2. Grows
    BY UnchangedGrows
<1>3. CertificatesAreBacked'
    BY <1>1, <1>2, CertificatesStayBacked DEF Inv
<1>4. ASSUME NEW k \in Jobs PROVE HandIsBacked(k)'
    BY <1>1, <1>2, OthersStayBacked DEF Inv
<1> QED
    BY <1>1, <1>3, <1>4 DEF Inv

LEMMA NextKeepsInv == ASSUME Inv, [Next]_vars PROVE Inv'
<1>1. ASSUME NEW j \in Jobs, NEW g \in Graphs, Begin(j, g) PROVE Inv'
    BY <1>1, BeginKeepsInv
<1>2. ASSUME NEW j \in Jobs, Inspect(j) PROVE Inv'
    BY <1>2, LookKeepsInv, SealKeepsInv, LoadKeepsInv, VerifyKeepsInv, PublishKeepsInv,
       LinkKeepsInv, CertifyKeepsInv, CertificateKeepsInv, CertLinkKeepsInv DEF Inspect
<1>3. ASSUME NEW j \in Jobs, Leave(j) PROVE Inv'
    BY <1>3, LeaveKeepsInv
<1>4. CASE UNCHANGED vars
    BY <1>4, StutterKeepsInv
<1> QED
    BY <1>1, <1>2, <1>3, <1>4 DEF Next

\* The invariant the theorems below follow from: types, honest evidence, backed
\* hands and backed certificates hold together in every reachable state.
THEOREM Invariant == Spec => []Inv
<1>1. Init => Inv
    BY InitInv
<1>2. Inv /\ [Next]_vars => Inv'
    BY NextKeepsInv
<1> QED
    BY <1>1, <1>2, PTL DEF Spec

\* Whatever processes race over a graph, die half-way or are told nothing
\* conclusive and try again, each certificate names a whole and complete
\* VERIFIED record of each role
\* (_load_verification, _certificate).
THEOREM CertificatesBacked == Spec => []CertificatesAreBacked
<1>1. Inv => CertificatesAreBacked
    BY DEF Inv
<1> QED
    BY <1>1, Invariant, PTL

-----------------------------------------------------------------------------
(***************************************************************************)
(* The promise of Certification: an access that decides is a Decide of the *)
(* answer the verdicts give, the others change nothing the callers see.    *)
(***************************************************************************)
SaysOf(i) == [graph |-> i.graph, at |-> IF i.at \in Accesses THEN "open" ELSE i.at]
Says == [j \in Jobs |-> SaysOf(inspection[j])]
Published == {g \in Graphs : certificate[g] # {}}

LEMMA MoveIsPromised ==
    ASSUME Inv, Inv', NEW j \in Jobs, inspection[j].at \in Accesses, verdict' = verdict,
           \A k \in Jobs \ {j} : inspection'[k] = inspection[k],
           inspection'[j].graph = Graph(j),
           inspection'[j].at \in Accesses \cup Promise!Answers(Graph(j)),
           inspection'[j].at = "verified" => Published' = Published \cup {Graph(j)},
           inspection'[j].at # "verified" => Published' = Published
    PROVE  [Promise!CertificationNext]_(Promise!certificationVars)
<1> DEFINE d == SaysOf(inspection'[j]).at
<1>1. /\ Says[j] = [graph |-> Graph(j), at |-> "open"]
      /\ Says'[j] = [graph |-> Graph(j), at |-> d]
    BY DEF Says, SaysOf, Graph
<1>2. Says' = [Says EXCEPT ![j].at = d]
    <2>1. \A k \in Jobs : Says'[k] = [Says EXCEPT ![j].at = d][k]
        BY <1>1 DEF Says
    <2> QED
        BY <2>1 DEF Says
<1>3. CASE inspection'[j].at \in Accesses
    <2>1. Says' = Says
        BY <1>1, <1>2, <1>3 DEF SaysOf, Says
    <2>2. Published' = Published
        BY <1>3 DEF Accesses
    <2> QED
        BY <2>1, <2>2 DEF Promise!certificationVars, Says, SaysOf, Published, Graph
<1>4. CASE inspection'[j].at \notin Accesses
    <2>1. d = inspection'[j].at /\ d \in Promise!Answers(Graph(j))
        BY <1>4 DEF SaysOf
    <2>2. Promise!Decide(j)
        BY <1>1, <1>2, <2>1 DEF Promise!Decide, Says, SaysOf, Published, Graph
    <2> QED
        BY <2>2 DEF Promise!CertificationNext
<1> QED
    BY <1>3, <1>4

LEMMA GotoIsPromised ==
    ASSUME Inv, Inv', NEW j \in Jobs, inspection[j].at \in Accesses, verdict' = verdict,
           certificate' = certificate, NEW there \in Accesses \cup {"error"}, Goto(j, there)
    PROVE  [Promise!CertificationNext]_(Promise!certificationVars)
<1>1. there \in Points /\ there # "verified"
    BY DEF Points, Accesses, Decisions
<1> QED
    BY <1>1, GotoMoves, MoveIsPromised, ZenonT(30) DEF Inv, Promise!Answers, Published

LEMMA HoldIsPromised ==
    ASSUME Inv, Inv', NEW j \in Jobs, inspection[j].at \in Accesses, verdict' = verdict,
           certificate' = certificate, NEW n \in DOMAIN Attempts(j), Hold(j, n)
    PROVE  [Promise!CertificationNext]_(Promise!certificationVars)
<1>1. Graph(j) \in Graphs /\ Role(j) \in Roles
    BY DEF Inv, TypeOK, Inspection, At, Graph, Role, Accesses
<1>2. Conclusive(Attempts(j)[n]) => Attempts(j)[n].status = verdict[Graph(j)][Role(j)]
    BY <1>1 DEF Inv, EvidenceIsHonest, Attempts
<1>3. verdict[Graph(j)][Role(j)] \in Verdicts
    BY <1>1 DEF Inv, TypeOK
<1>4. Role(j) = "independent" => verdict[Graph(j)]["primary"] = "VERIFIED"
    BY DEF Inv, HandIsBacked, Backed
<1>5. /\ inspection'[j].graph = Graph(j)
      /\ \A k \in Jobs \ {j} : inspection'[k] = inspection[k]
    BY <1>1, HoldMoves DEF Inv
<1>6. inspection'[j].at \in {"pause", "load", "certify", "continue", "fail"}
    BY <1>1, <1>2, <1>3, HoldMoves DEF Inv, Verdicts, Roles
<1>7. inspection'[j].at \in Accesses \cup Promise!Answers(Graph(j))
    BY <1>1, <1>2, <1>3, <1>4, HoldMoves
       DEF Inv, Verdicts, Roles, Accesses, Promise!Answers, Promise!Roles
<1> QED
    BY <1>5, <1>6, <1>7, MoveIsPromised DEF Published

LEMMA InspectIsPromised ==
    ASSUME Inv, Inv', NEW j \in Jobs, Inspect(j)
    PROVE  [Promise!CertificationNext]_(Promise!certificationVars)
<1>1. inspection[j].at \in Accesses /\ verdict' = verdict
    BY DEF Inspect, Look, Seal, Load, Verify, Publish, Link, Certify, Certificate, CertLink,
           At, Accesses
<1>2. ASSUME Raise(j) PROVE [Promise!CertificationNext]_(Promise!certificationVars)
    BY <1>1, <1>2, GotoIsPromised DEF Raise, evidence
<1>3. CASE Look(j)
    BY <1>1, <1>3, GotoIsPromised DEF Look, Accesses, evidence
<1>4. CASE Seal(j)
    BY <1>1, <1>2, <1>4, GotoIsPromised DEF Seal, Accesses
<1>5. CASE Load(j)
    <2>1. ASSUME NEW n \in Terminal(Attempts(j)), Hold(j, n), UNCHANGED evidence
          PROVE  [Promise!CertificationNext]_(Promise!certificationVars)
        BY <1>1, <2>1, HoldIsPromised DEF Terminal, evidence
    <2>2. CASE Goto(j, "verify") /\ UNCHANGED evidence
        BY <1>1, <2>2, GotoIsPromised DEF Accesses, evidence
    <2> QED
        BY <1>2, <1>5, <2>1, <2>2 DEF Load
<1>6. CASE Verify(j)
    <2>1. inspection'[j].at = "publish" /\ certificate' = certificate
        BY <1>6, VerifyAppends DEF Verify
    <2> QED
        BY <1>1, <1>6, <2>1, VerifyAppends, MoveIsPromised DEF Accesses, Published
<1>7. CASE Publish(j)
    <2>1. certificate' = certificate /\ Own(j) \in DOMAIN Attempts(j)
        BY <1>7, PublishGrows DEF Publish
    <2> QED
        BY <1>1, <1>7, <2>1, GotoIsPromised, HoldIsPromised DEF Publish, Accesses
<1>8. CASE Link(j)
    <2>1. Own(j) \in DOMAIN Attempts(j)
        BY <1>8 DEF Link, Inv, HandIsBacked
    <2> QED
        BY <1>1, <1>2, <1>8, <2>1, HoldIsPromised DEF Link
<1>9. CASE Certify(j)
    BY <1>1, <1>9, GotoIsPromised DEF Certify, Accesses, evidence
<1>10. CASE Certificate(j)
    BY <1>1, <1>2, <1>10, GotoIsPromised DEF Certificate, Accesses, evidence
<1>11. CASE CertLink(j)
    <2>1. CASE certificate' = [certificate EXCEPT ![Graph(j)] = {Pair(j)}] /\ Goto(j, "verified")
        <3>1. inspection[j].at \in Certifying /\ "verified" \in Points
            BY <1>11 DEF CertLink, At, Certifying, Points, Decisions
        <3>2. /\ Graph(j) \in Graphs /\ verdict[Graph(j)]["primary"] = "VERIFIED"
              /\ verdict[Graph(j)]["independent"] = "VERIFIED"
            BY <3>1, PairIsBacked DEF Backed
        <3>3. Published' = Published \cup {Graph(j)}
            <4>1. \A g \in Graphs : certificate'[g] =
                                       IF g = Graph(j) THEN {Pair(j)} ELSE certificate[g]
                BY <2>1 DEF Inv, TypeOK
            <4> QED
                BY <3>2, <4>1 DEF Published
        <3>4. "verified" \in Promise!Answers(Graph(j))
            BY <3>2 DEF Promise!Answers, Promise!Roles
        <3> QED
            BY <1>1, <2>1, <3>1, <3>3, <3>4, GotoMoves, MoveIsPromised DEF Inv
    <2> QED
        BY <1>2, <1>11, <2>1 DEF CertLink
<1> QED
    BY <1>3, <1>4, <1>5, <1>6, <1>7, <1>8, <1>9, <1>10, <1>11 DEF Inspect

\* An inspection says "verified" only with a published certificate, "continue"
\* only for a graph the primary verifier rejects and "fail" only when the
\* primary finds the graph invalid or the independent verifier does not confirm
\* what the primary verified (inspect), whichever records it read.
THEOREM PromiseKept == Spec => ImplementsCertification
<1>1. Init => Promise!CertificationInit
    BY DEF Init, Promise!CertificationInit, Promise!Roles, Roles, Promise!Verdicts, Verdicts,
           Promise!Off, Graph, NoInspection, Accesses
<1>2. ASSUME Inv, Inv', [Next]_vars
      PROVE  [Promise!CertificationNext]_(Promise!certificationVars)
    <2>1. ASSUME NEW j \in Jobs, NEW g \in Graphs, Begin(j, g) PROVE Promise!CertificationNext
        <3>1. Says[j].at = "off" /\ verdict' = verdict /\ Published' = Published
            BY <2>1 DEF Begin, At, Says, SaysOf, Accesses, evidence, Published
        <3>2. Says' = [Says EXCEPT ![j] = [graph |-> g, at |-> "open"]]
            <4>1. SaysOf(inspection'[j]) = [graph |-> g, at |-> "open"]
                <5>1. inspection'[j].at = "look" /\ inspection'[j].graph = g
                    BY <1>2, <2>1 DEF Begin, Inv, TypeOK, NoInspection
                <5> QED
                    BY <5>1 DEF SaysOf, Accesses
            <4>2. \A k \in Jobs \ {j} : inspection'[k] = inspection[k]
                BY <1>2, <2>1 DEF Begin, Inv, TypeOK
            <4> QED
                BY <4>1, <4>2 DEF Says
        <3>3. Promise!Meet(j, g)
            BY <3>1, <3>2 DEF Promise!Meet, Says, SaysOf, Published, Graph
        <3> QED
            BY <3>3 DEF Promise!CertificationNext
    <2>2. ASSUME NEW j \in Jobs, Leave(j) PROVE Promise!CertificationNext
        <3>1. Says[j].at # "off" /\ verdict' = verdict /\ Published' = Published
            BY <2>2 DEF Leave, At, Says, SaysOf, Accesses, evidence, Published
        <3>2. Says' = [Says EXCEPT ![j] = Promise!Off]
            <4>1. SaysOf(inspection'[j]) = Promise!Off
                <5>1. inspection'[j].at = "off" /\ inspection'[j].graph = NoGraph
                    BY <1>2, <2>2 DEF Leave, Inv, TypeOK, NoInspection
                <5> QED
                    BY <5>1 DEF SaysOf, Accesses, Promise!Off
            <4>2. \A k \in Jobs \ {j} : inspection'[k] = inspection[k]
                BY <1>2, <2>2 DEF Leave, Inv, TypeOK
            <4> QED
                BY <4>1, <4>2 DEF Says
        <3>3. Promise!Leave(j)
            BY <3>1, <3>2 DEF Promise!Leave, Says, SaysOf, Published, Graph
        <3> QED
            BY <3>3 DEF Promise!CertificationNext
    <2>3. CASE UNCHANGED vars
        BY <2>3 DEF vars, evidence, Promise!certificationVars, Graph
    <2> QED
        BY <1>2, <2>1, <2>2, <2>3, InspectIsPromised DEF Next
<1> QED
    BY <1>1, <1>2, Invariant, PTL DEF Spec, ImplementsCertification, Promise!Certified

=============================================================================
