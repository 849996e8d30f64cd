-------------------------- MODULE EvaluatorPoolProofs --------------------------
(* Theorems about EvaluatorPool, for any panels, cases, workers and permits.   *)
EXTENDS EvaluatorPool, SequenceTheorems, FiniteSetTheorems, TLAPS

Work == [remaining: SUBSET Cases, running: Nat, completed: Nat, folded: SUBSET Cases,
         dirty: Nat, failed: BOOLEAN]
Thread == [at: Places, panel: Panels \cup {NoPanel}, case: Cases \cup {0}, folded: BOOLEAN]
Futures == {"none", "pending", "complete", "failed"}

Shape ==
    /\ files \in [Panels -> SUBSET Cases] /\ checkpoint \in [Panels -> SUBSET Cases]
    /\ result \subseteq Finalized
    /\ runnable \in Seq(Panels) /\ IsInjective(runnable)
    /\ work \in [Panels -> Work] /\ thread \in [Threads -> Thread]
    /\ future \in [Panels -> Futures]
    /\ closing \in {"no", "drain", "force"}
    /\ permits \in Nat

(***************************************************************************)
(* A thread that has a case of a panel holds it until the case is counted, *)
(* also when a write of the telemetry ends it before that.                 *)
(***************************************************************************)
Running == {"evaluate", "fold", "fail", "count"}
Finishing == {"finish", "resolve"}

Holds(t, p) == thread[t].panel = p /\ thread[t].case # 0
Holders(p) == {t \in Threads : Holds(t, p)}
Uncounted(p) == {t \in Holders(p) : thread[t].folded /\ thread[t].at # "gone"}

\* What a complete panel has on the disk.
OnDisk(p) == /\ files[p] = Cases /\ checkpoint[p] = Cases
             /\ p \in Finalized => p \in result

ThreadOK(t) ==
    /\ t = Main => thread[t].at \in {"idle"} \cup Finishing
    /\ thread[t].at \in Running => thread[t].case # 0
    /\ thread[t].at \in Finishing => thread[t].panel # NoPanel /\ thread[t].case = 0
    /\ thread[t].at = "idle" => thread[t].panel = NoPanel
    /\ thread[t].panel = NoPanel => thread[t].case = 0
    /\ thread[t].case = 0 => ~thread[t].folded
    /\ thread[t].at \in {"evaluate", "fold"} => ~thread[t].folded
    /\ (thread[t].at = "fold" \/ thread[t].folded) => thread[t].case \in files[thread[t].panel]
    /\ (thread[t].at = "resolve" /\ ~work[thread[t].panel].failed) => OnDisk(thread[t].panel)

\* The thread that finishes a panel is alone with it.
FinishesAlone(t) ==
    (thread[t].panel # NoPanel /\ thread[t].case = 0) =>
        /\ thread[t].panel \notin ToSet(runnable)
        /\ \A u \in Threads \ {t} : thread[u].panel # thread[t].panel

PanelOK(p) ==
    /\ work[p].running = Cardinality(Holders(p))
    /\ p \in ToSet(runnable) =>
          ~work[p].failed /\ work[p].remaining # {} /\ future[p] = "pending"
    /\ future[p] # "pending" => \A t \in Threads : thread[t].panel # p
    /\ work[p].folded \subseteq files[p]
    /\ work[p].completed + Cardinality(Uncounted(p)) <= Cardinality(work[p].folded)
    /\ (\A t \in Holders(p) : thread[t].at # "gone") =>
          work[p].completed + Cardinality(Uncounted(p)) = Cardinality(work[p].folded)
    /\ future[p] = "complete" => OnDisk(p)

Pending == {p \in Panels : future[p] = "pending"}

Inv == /\ Shape
       /\ \A t \in Threads : ThreadOK(t) /\ FinishesAlone(t)
       /\ \A p \in Panels : PanelOK(p)
       /\ permits + Cardinality(Pending) = Capacity

-----------------------------------------------------------------------------
(***************************************************************************)
(* The queue: what is put at its back, taken from its front or taken out.  *)
(***************************************************************************)
Queue(s) == s \in Seq(Panels) /\ IsInjective(s)

LEMMA Appended ==
    ASSUME NEW s, Queue(s), NEW p \in Panels, p \notin ToSet(s)
    PROVE  Queue(Append(s, p)) /\ ToSet(Append(s, p)) = ToSet(s) \cup {p}
<1> DEFINE a == Append(s, p)
<1>1. /\ a \in Seq(Panels) /\ Len(s) \in Nat /\ DOMAIN s = 1 .. Len(s)
      /\ DOMAIN a = 1 .. Len(s) + 1 /\ a[Len(s) + 1] = p
      /\ \A i \in 1 .. Len(s) : a[i] = s[i]
    BY AppendProperties, LenProperties DEF Queue
<1> HIDE DEF a
<1>2. \A i \in 1 .. Len(s) : s[i] # p
    BY <1>1 DEF ToSet
<1>3. IsInjective(a)
    BY <1>1, <1>2 DEF Queue, IsInjective
<1>4. ToSet(a) = ToSet(s) \cup {p}
    <2>1. ASSUME NEW i \in 1 .. Len(s) + 1 PROVE i \in 1 .. Len(s) \/ i = Len(s) + 1
        BY <1>1
    <2>2. \A i \in 1 .. Len(s) : i \in 1 .. Len(s) + 1
        BY <1>1
    <2> QED
        BY <1>1, <2>1, <2>2 DEF ToSet
<1> QED
    BY <1>1, <1>3, <1>4 DEF Queue, a

LEMMA Tailed ==
    ASSUME NEW s, Queue(s), s # <<>>
    PROVE  /\ Queue(Tail(s)) /\ Head(s) \in ToSet(s)
           /\ ToSet(Tail(s)) = ToSet(s) \ {Head(s)}
<1> DEFINE t == Tail(s)
<1>1. /\ t \in Seq(Panels) /\ Len(s) \in Nat /\ Len(s) > 0 /\ DOMAIN s = 1 .. Len(s)
      /\ DOMAIN t = 1 .. Len(s) - 1 /\ Head(s) = s[1]
      /\ \A i \in 1 .. Len(s) - 1 : t[i] = s[i + 1]
    BY HeadTailProperties, LenProperties, EmptySeq DEF Queue
<1> HIDE DEF t
<1>2. \A i \in 2 .. Len(s) : s[i] = t[i - 1] /\ i - 1 \in 1 .. Len(s) - 1
    BY <1>1
<1>3. \A i \in 1 .. Len(s) : i = 1 \/ i \in 2 .. Len(s)
    BY <1>1
<1>4. \A i \in 1 .. Len(s) - 1 : i + 1 \in 2 .. Len(s) /\ i + 1 \in 1 .. Len(s) /\ i + 1 # 1
    BY <1>1
<1>5. IsInjective(t)
    <2> SUFFICES ASSUME NEW i \in 1 .. Len(s) - 1, NEW j \in 1 .. Len(s) - 1, s[i + 1] = s[j + 1]
                 PROVE  i = j
        BY <1>1 DEF IsInjective
    <2>1. i + 1 = j + 1
        BY <1>1, <1>4 DEF Queue, IsInjective
    <2> QED
        BY <2>1
<1>6. 1 \in 1 .. Len(s)
    BY <1>1
<1>7. ToSet(t) = ToSet(s) \ {s[1]}
    <2>1. ASSUME NEW i \in 1 .. Len(s) - 1 PROVE t[i] \in ToSet(s) /\ t[i] # s[1]
        BY <1>1, <1>4, <1>6 DEF ToSet, Queue, IsInjective
    <2>2. ASSUME NEW i \in 1 .. Len(s), s[i] # s[1] PROVE s[i] \in ToSet(t)
        BY <1>1, <1>2, <1>3, <2>2 DEF ToSet
    <2> QED
        BY <1>1, <2>1, <2>2 DEF ToSet
<1> QED
    BY <1>1, <1>5, <1>6, <1>7 DEF Queue, t, ToSet

LEMMA Removed ==
    ASSUME NEW s, Queue(s), NEW k \in DOMAIN s
    PROVE  Queue(RemoveAt(s, k)) /\ ToSet(RemoveAt(s, k)) = ToSet(s) \ {s[k]}
<1> DEFINE left == SubSeq(s, 1, k - 1)
           right == SubSeq(s, k + 1, Len(s))
           r == left \o right
<1>1. s \in Seq(Panels) /\ Len(s) \in Nat /\ DOMAIN s = 1 .. Len(s) /\ k \in 1 .. Len(s)
    BY LenProperties DEF Queue
<1>2. /\ left \in Seq(Panels) /\ Len(left) = k - 1
      /\ \A i \in 1 .. k - 1 : left[i] = s[i]
    <2>1. \A i \in 1 .. k - 1 : s[i] \in Panels
        BY <1>1, ElementOfSeq
    <2> QED
        BY <1>1, <2>1, SubSeqProperties
<1>3. /\ right \in Seq(Panels) /\ Len(right) = Len(s) - k
      /\ \A i \in 1 .. Len(s) - k : right[i] = s[k + i]
    <2>1. \A i \in k + 1 .. Len(s) : s[i] \in Panels
        BY <1>1, ElementOfSeq
    <2> QED
        BY <1>1, <2>1, SubSeqProperties
<1> HIDE DEF left, right
<1>4. /\ r \in Seq(Panels) /\ DOMAIN r = 1 .. Len(s) - 1
      /\ \A i \in 1 .. Len(s) - 1 : r[i] = IF i < k THEN s[i] ELSE s[i + 1]
    <2>1. /\ r \in Seq(Panels) /\ Len(r) = Len(s) - 1
          /\ \A i \in 1 .. Len(s) - 1 : r[i] = IF i <= k - 1 THEN left[i] ELSE right[i - (k - 1)]
        <3>1. /\ r \in Seq(Panels) /\ Len(r) = Len(left) + Len(right)
              /\ \A i \in 1 .. Len(left) + Len(right) :
                   r[i] = IF i <= Len(left) THEN left[i] ELSE right[i - Len(left)]
            BY <1>2, <1>3, ConcatProperties
        <3>2. Len(left) + Len(right) = Len(s) - 1
            BY <1>1, <1>2, <1>3
        <3> QED
            BY <1>2, <3>1, <3>2
    <2>2. DOMAIN r = 1 .. Len(s) - 1
        BY <2>1, LenProperties
    <2>3. ASSUME NEW i \in 1 .. Len(s) - 1
          PROVE r[i] = IF i < k THEN s[i] ELSE s[i + 1]
        <3>1. CASE i < k
            BY <1>1, <1>2, <2>1, <3>1
        <3>2. CASE ~(i < k)
            <4>1. /\ i - (k - 1) \in 1 .. Len(s) - k /\ k + (i - (k - 1)) = i + 1
                  /\ ~(i <= k - 1)
                BY <1>1, <3>2
            <4>2. right[i - (k - 1)] = s[i + 1]
                BY <1>3, <4>1
            <4>3. r[i] = right[i - (k - 1)]
                BY <2>1, <4>1
            <4> QED
                BY <3>2, <4>2, <4>3
        <3> QED
            BY <3>1, <3>2
    <2> QED
        BY <2>1, <2>2, <2>3
<1> HIDE DEF r
<1> DEFINE at(i) == IF i < k THEN i ELSE i + 1
<1>5. \A i \in 1 .. Len(s) - 1 : at(i) \in DOMAIN s /\ at(i) # k /\ r[i] = s[at(i)]
    BY <1>1, <1>4
<1>6. \A i, j \in 1 .. Len(s) - 1 : at(i) = at(j) => i = j
    BY <1>1
<1>7. \A j \in DOMAIN s \ {k} : \E i \in 1 .. Len(s) - 1 : at(i) = j
    <2> TAKE j \in DOMAIN s \ {k}
    <2>1. CASE j < k
        <3>1. j \in 1 .. Len(s) - 1 /\ at(j) = j
            BY <1>1, <2>1
        <3> QED
            BY <3>1
    <2>2. CASE j > k
        <3>1. j - 1 \in 1 .. Len(s) - 1 /\ at(j - 1) = j
            BY <1>1, <2>2
        <3> QED
            BY <3>1
    <2> QED
        BY <1>1, <2>1, <2>2
<1> HIDE DEF at
<1>8. IsInjective(r)
    <2> SUFFICES ASSUME NEW i \in 1 .. Len(s) - 1, NEW j \in 1 .. Len(s) - 1, r[i] = r[j]
                 PROVE  i = j
        BY <1>4 DEF IsInjective
    <2>1. at(i) = at(j)
        BY <1>5 DEF Queue, IsInjective
    <2> QED
        BY <1>6, <2>1
<1>9. ToSet(r) = ToSet(s) \ {s[k]}
    <2>1. ASSUME NEW i \in 1 .. Len(s) - 1 PROVE r[i] \in ToSet(s) /\ r[i] # s[k]
        BY <1>5 DEF ToSet, Queue, IsInjective
    <2>2. ASSUME NEW j \in DOMAIN s, s[j] # s[k] PROVE s[j] \in ToSet(r)
        BY <1>4, <1>5, <1>7, <2>2 DEF ToSet
    <2> QED
        BY <1>4, <2>1, <2>2 DEF ToSet
<1> QED
    BY <1>4, <1>8, <1>9 DEF Queue, r, left, right, RemoveAt

-----------------------------------------------------------------------------
(***************************************************************************)
(* Counting: the threads, their holders of a panel and its cases.          *)
(***************************************************************************)
LEMMA ThreadsAreFinite == IsFiniteSet(Threads) /\ Main \in Threads /\ Workers \subseteq Threads
BY PoolAssumption, FS_AddElement DEF Threads

LEMMA CasesAreCounted ==
    ASSUME NEW S \in SUBSET Cases
    PROVE  /\ IsFiniteSet(S) /\ Cardinality(S) \in Nat /\ Cardinality(Cases) \in Nat
           /\ Cardinality(S) <= Cardinality(Cases)
           /\ Cardinality(S) = Cardinality(Cases) => S = Cases
BY PoolAssumption, FS_Subset, FS_CardinalityType

LEMMA ThreadsAreCounted ==
    ASSUME NEW S \in SUBSET Threads
    PROVE  /\ IsFiniteSet(S) /\ Cardinality(S) \in Nat
           /\ Cardinality(S) = 0 <=> S = {}
           /\ \A t \in S : Cardinality(S \ {t}) = Cardinality(S) - 1
           /\ \A t \in Threads \ S : Cardinality(S \cup {t}) = Cardinality(S) + 1
<1>1. IsFiniteSet(S)
    BY ThreadsAreFinite, FS_Subset
<1> QED
    BY <1>1, FS_CardinalityType, FS_EmptySet, FS_AddElement, FS_RemoveElement

LEMMA PanelsAreCounted ==
    ASSUME NEW S \in SUBSET Panels
    PROVE  /\ IsFiniteSet(S) /\ Cardinality(S) \in Nat
           /\ \A p \in S : Cardinality(S \ {p}) = Cardinality(S) - 1
           /\ \A p \in Panels \ S : Cardinality(S \cup {p}) = Cardinality(S) + 1
<1>1. IsFiniteSet(S)
    BY PoolAssumption, FS_Subset
<1> QED
    BY <1>1, FS_CardinalityType, FS_AddElement, FS_RemoveElement

LEMMA CaseIsNumber == ASSUME NEW c \in Cases PROVE c \in Nat /\ c # 0
BY PoolAssumption, FS_CardinalityType

LEMMA IdleIsTyped == IdleThread \in Thread /\ NoPanel \notin Panels
BY PoolAssumption DEF IdleThread, Thread, Places

LEMMA NoWorkIsTyped == NoWork \in Work
BY DEF NoWork, Work

(***************************************************************************)
(* A step that is about one panel: what is left to show of it is its shape,*)
(* that panel, and the threads that come to it, leave it or have it.       *)
(***************************************************************************)
Concerns(p) ==
    /\ \A t \in Threads : \/ thread'[t] = thread[t]
                          \/ thread[t].panel \in {p, NoPanel} /\ thread'[t].panel \in {p, NoPanel}
    /\ \A q \in Panels \ {p} :
        /\ work'[q] = work[q] /\ future'[q] = future[q]
        /\ files'[q] = files[q] /\ checkpoint'[q] = checkpoint[q]
        /\ q \in result => q \in result'
        /\ q \in ToSet(runnable') => q \in ToSet(runnable)

LEMMA PanelStep ==
    ASSUME Inv, NEW p \in Panels, Concerns(p), Shape', PanelOK(p)',
           \A t \in Threads : thread'[t] # thread[t] \/ thread'[t].panel = p =>
                                 ThreadOK(t)' /\ FinishesAlone(t)',
           permits' + Cardinality(Pending') = Capacity
    PROVE  Inv'
<1>1. ASSUME NEW t \in Threads PROVE ThreadOK(t)' /\ FinishesAlone(t)'
    <2>1. CASE thread'[t] # thread[t] \/ thread'[t].panel = p
        BY <2>1
    <2>2. CASE thread'[t] = thread[t] /\ thread[t].panel # p
        <3>1. ThreadOK(t) /\ FinishesAlone(t)
            BY DEF Inv
        <3>2. thread[t] \in Thread
            BY DEF Inv, Shape
        <3>3. CASE thread[t].panel = NoPanel
            BY <2>2, <3>1, <3>2, <3>3 DEF ThreadOK, FinishesAlone, Finishing, Running
        <3>4. CASE thread[t].panel \in Panels \ {p}
            <4>1. ThreadOK(t)'
                BY <2>2, <3>1, <3>4 DEF Concerns, ThreadOK, OnDisk
            <4>2. thread[t].panel # NoPanel
                BY <3>4, IdleIsTyped
            <4>3. FinishesAlone(t)'
                BY <2>2, <3>1, <3>4, <4>2 DEF Concerns, FinishesAlone
            <4> QED
                BY <4>1, <4>3
        <3> QED
            BY <2>2, <3>2, <3>3, <3>4 DEF Thread
    <2> QED
        BY <2>1, <2>2
<1>2. ASSUME NEW q \in Panels, q # p PROVE PanelOK(q)'
    <2>1. PanelOK(q) /\ q # NoPanel
        BY IdleIsTyped DEF Inv
    <2>2. \A t \in Threads : /\ (thread'[t].panel = q) <=> (thread[t].panel = q)
                             /\ thread[t].panel = q => thread'[t] = thread[t]
        BY <1>2, <2>1 DEF Concerns
    <2>3. Holders(q)' = Holders(q)
        BY <2>2 DEF Holders, Holds
    <2>4. Uncounted(q)' = Uncounted(q)
        BY <2>2, <2>3 DEF Uncounted, Holders, Holds
    <2>5. \A t \in Holders(q) : thread'[t] = thread[t]
        BY <2>2 DEF Holders, Holds
    <2>6. OnDisk(q) => OnDisk(q)'
        BY <1>2 DEF Concerns, OnDisk
    <2>7. /\ work'[q] = work[q] /\ future'[q] = future[q] /\ files'[q] = files[q]
          /\ q \in ToSet(runnable') => q \in ToSet(runnable)
        BY <1>2 DEF Concerns
    <2> QED
        BY <2>1, <2>2, <2>3, <2>4, <2>5, <2>6, <2>7 DEF PanelOK
<1> QED
    BY <1>1, <1>2 DEF Inv

\* The same of a step of a thread that holds a case and has not ended with it.
LEMMA CaseStep ==
    ASSUME Inv, NEW w \in Threads, NEW p \in Panels, thread[w].panel = p, thread[w].case # 0,
           \A t \in Threads \ {w} : thread'[t] = thread[t],
           thread'[w].panel \in {p, NoPanel}, thread'[w].panel = NoPanel => thread'[w].case = 0,
           \A q \in Panels \ {p} : /\ work'[q] = work[q] /\ files'[q] = files[q]
                                   /\ checkpoint'[q] = checkpoint[q],
           files[p] \subseteq files'[p], result' = result,
           ToSet(runnable') \subseteq ToSet(runnable),
           future' = future, permits' = permits,
           Shape', PanelOK(p)', ThreadOK(w)',
           thread'[w].panel = p /\ thread'[w].case = 0 => p \notin ToSet(runnable') /\ Holders(p) = {w}
    PROVE  Inv'
<1>1. p # NoPanel
    BY IdleIsTyped
<1>2. Concerns(p)
    BY DEF Concerns
<1>3. ASSUME NEW t \in Threads, t # w, thread[t].panel = p
      PROVE  t \in Holders(p) /\ ThreadOK(t)' /\ FinishesAlone(t)' /\ thread[t].at # "resolve"
    <2>1. thread[t].case # 0
        BY <1>1, <1>3 DEF Inv, FinishesAlone
    <2>2. thread[t].at \notin Finishing
        BY <1>3, <2>1 DEF Inv, ThreadOK
    <2>3. ThreadOK(t)'
        BY <1>3, <2>2 DEF Inv, ThreadOK, Finishing
    <2> QED
        BY <1>3, <2>1, <2>2, <2>3 DEF Holders, Holds, FinishesAlone, Finishing
<1>4. FinishesAlone(w)'
    <2>1. CASE thread'[w].panel = NoPanel
        BY <2>1 DEF FinishesAlone
    <2>2. CASE thread'[w].panel = p /\ thread'[w].case = 0
        <3>1. \A t \in Threads \ {w} : thread[t].panel # p
            BY <1>3, <2>2
        <3> QED
            BY <2>2, <3>1 DEF FinishesAlone
    <2> QED
        BY <2>1, <2>2 DEF FinishesAlone
<1>5. Pending' = Pending /\ permits' + Cardinality(Pending') = Capacity
    BY DEF Pending, Inv
<1>6. \A t \in Threads : thread'[t] # thread[t] \/ thread'[t].panel = p =>
                            ThreadOK(t)' /\ FinishesAlone(t)'
    BY <1>3, <1>4
<1> QED
    BY <1>2, <1>5, <1>6, PanelStep

-----------------------------------------------------------------------------
(***************************************************************************)
(* Steps of a worker with a case that leave the counts of its panel.       *)
(***************************************************************************)
LEMMA CaseHeld ==
    ASSUME Inv, NEW w \in Workers, thread[w].at \in Running
    PROVE  /\ w \in Threads /\ w # Main /\ thread[w] \in Thread
           /\ thread[w].panel \in Panels /\ thread[w].panel # NoPanel
           /\ thread[w].case \in Cases /\ thread[w].case # 0
           /\ w \in Holders(thread[w].panel)
           /\ future[thread[w].panel] = "pending"
           /\ work[thread[w].panel] \in Work /\ PanelOK(thread[w].panel) /\ ThreadOK(w)
<1>1. w \in Threads /\ w # Main
    BY PoolAssumption DEF Threads
<1>2. thread[w] \in Thread /\ ThreadOK(w)
    BY <1>1 DEF Inv, Shape
<1>3. thread[w].case # 0 /\ thread[w].panel # NoPanel
    BY <1>2 DEF ThreadOK
<1>4. thread[w].case \in Cases /\ thread[w].panel \in Panels
    BY <1>2, <1>3 DEF Thread
<1>5. PanelOK(thread[w].panel) /\ work[thread[w].panel] \in Work
    BY <1>4 DEF Inv, Shape
<1>6. future[thread[w].panel] = "pending"
    BY <1>1, <1>5 DEF PanelOK
<1> QED
    BY <1>1, <1>2, <1>3, <1>4, <1>5, <1>6 DEF Holders, Holds

LEMMA HoldersAreThreads ==
    ASSUME NEW p PROVE Holders(p) \in SUBSET Threads /\ Uncounted(p) \in SUBSET Threads
BY DEF Holders, Uncounted

LEMMA MoveStep ==
    ASSUME Inv, NEW w \in Workers, thread[w].at \in Running,
           NEW x \in Running, thread' = [thread EXCEPT ![w].at = x],
           NEW p \in Panels, thread[w].panel = p,
           work' \in [Panels -> Work],
           \A q \in Panels \ {p} : work'[q] = work[q] /\ files'[q] = files[q],
           work'[p].running = work[p].running, work'[p].completed = work[p].completed,
           work'[p].folded = work[p].folded,
           files' \in [Panels -> SUBSET Cases], files[p] \subseteq files'[p],
           Queue(runnable'), ToSet(runnable') \subseteq ToSet(runnable),
           p \in ToSet(runnable') => ~work'[p].failed /\ work'[p].remaining # {},
           x \in {"evaluate", "fold"} => ~thread[w].folded,
           x = "fold" => thread[w].case \in files'[p],
           UNCHANGED <<checkpoint, result, future, permits>>, closing' = closing
    PROVE  Inv'
<1>1. /\ w \in Threads /\ w # Main /\ thread[w] \in Thread /\ p # NoPanel
      /\ thread[w].case # 0 /\ future[p] = "pending" /\ PanelOK(p) /\ ThreadOK(w)
    BY CaseHeld
<1>2. thread \in [Threads -> Thread] /\ x \in Places
    BY DEF Inv, Shape, Running, Places
<1>3. /\ thread'[w] = [thread[w] EXCEPT !.at = x]
      /\ \A t \in Threads \ {w} : thread'[t] = thread[t]
    BY <1>1, <1>2
<1>4. /\ thread'[w] \in Thread /\ thread'[w].at = x /\ thread'[w].panel = p
      /\ thread'[w].case = thread[w].case /\ thread'[w].folded = thread[w].folded
    BY <1>1, <1>2, <1>3 DEF Thread
<1>5. thread' \in [Threads -> Thread]
    BY <1>2, <1>3, <1>4
<1>6. Shape'
    BY <1>5 DEF Inv, Shape, Queue
<1>7. Holders(p)' = Holders(p)
    BY <1>3, <1>4 DEF Holders, Holds
<1>8. Uncounted(p)' = Uncounted(p)
    BY <1>3, <1>4, <1>7 DEF Uncounted, Running
<1>9. \A t \in Holders(p) : thread'[t].at = "gone" <=> thread[t].at = "gone"
    BY <1>3, <1>4 DEF Holders, Running
<1>10. PanelOK(p)'
    BY <1>1, <1>7, <1>8, <1>9 DEF PanelOK, Inv
<1>11. ThreadOK(w)'
    BY <1>1, <1>4 DEF ThreadOK, Running, Finishing
<1> QED
    BY <1>1, <1>3, <1>4, <1>6, <1>10, <1>11, CaseStep

LEMMA EvaluateKeepsInv == ASSUME Inv, NEW w \in Workers, Evaluate(w) PROVE Inv'
<1> DEFINE p == thread[w].panel
<1>1. thread[w].at \in Running
    BY DEF Evaluate, Running
<1>2. p \in Panels /\ thread[w].case \in Cases /\ ThreadOK(w) /\ PanelOK(p)
    BY <1>1, CaseHeld
<1> HIDE DEF p
<1>3. files \in [Panels -> SUBSET Cases] /\ files' = [files EXCEPT ![p] = @ \cup {thread[w].case}]
    BY DEF Evaluate, Inv, Shape, p
<1>4. /\ files' \in [Panels -> SUBSET Cases] /\ files'[p] = files[p] \cup {thread[w].case}
      /\ \A q \in Panels \ {p} : files'[q] = files[q]
    BY <1>2, <1>3
<1>5. ~thread[w].folded /\ "fold" \in Running
    BY <1>2 DEF ThreadOK, Evaluate, Running
<1>6. /\ thread' = [thread EXCEPT ![w].at = "fold"]
      /\ work' = work /\ runnable' = runnable
      /\ UNCHANGED <<checkpoint, result, future, permits>> /\ closing' = closing
    BY DEF Evaluate, Goto
<1>7. /\ work' \in [Panels -> Work] /\ Queue(runnable')
      /\ p \in ToSet(runnable') => ~work'[p].failed /\ work'[p].remaining # {}
    BY <1>2, <1>6 DEF Inv, Shape, Queue, PanelOK
<1>8. thread[w].panel = p
    BY DEF p
<1> QED
    BY <1>1, <1>2, <1>4, <1>5, <1>6, <1>7, <1>8, MoveStep

\* The case goes to the handler of the failure.
LEMMA ToFailKeepsInv ==
    ASSUME Inv, NEW w \in Workers, EvaluateRaises(w) \/ FoldRefused(w) \/ FinishedRaises(w)
    PROVE  Inv'
<1>1. /\ thread[w].at \in Running /\ "fail" \in Running
      /\ thread' = [thread EXCEPT ![w].at = "fail"]
      /\ UNCHANGED <<durable, runnable, work, future, permits, closing>>
    BY DEF EvaluateRaises, FoldRefused, FinishedRaises, Running, Goto
<1>2. PICK p \in Panels : thread[w].panel = p /\ PanelOK(p)
    BY <1>1, CaseHeld
<1>3. /\ files' = files /\ work' = work /\ runnable' = runnable
      /\ UNCHANGED <<checkpoint, result, future, permits>> /\ closing' = closing
    BY <1>1 DEF durable
<1>4. /\ work' \in [Panels -> Work] /\ files' \in [Panels -> SUBSET Cases] /\ Queue(runnable')
      /\ p \in ToSet(runnable') => ~work'[p].failed /\ work'[p].remaining # {}
    BY <1>2, <1>3 DEF Inv, Shape, Queue, PanelOK
<1> QED
    BY <1>1, <1>2, <1>3, <1>4, MoveStep

\* What the first failure of a panel does to it.
LEMMA FailedPanel ==
    ASSUME Inv, NEW p \in Panels, FailPanel(p)
    PROVE  /\ work' \in [Panels -> Work]
           /\ \A q \in Panels \ {p} : work'[q] = work[q]
           /\ work'[p].running = work[p].running /\ work'[p].completed = work[p].completed
           /\ work'[p].folded = work[p].folded /\ work'[p].failed
           /\ Queue(runnable') /\ ToSet(runnable') \subseteq ToSet(runnable)
           /\ p \notin ToSet(runnable')
<1>1. work \in [Panels -> Work] /\ work[p] \in Work /\ Queue(runnable) /\ PanelOK(p)
    BY DEF Inv, Shape, Queue
<1>2. CASE work[p].failed /\ UNCHANGED <<work, runnable>>
    BY <1>1, <1>2 DEF PanelOK
<1>3. CASE ~work[p].failed
    <2>1. work' = [work EXCEPT ![p].failed = TRUE, ![p].remaining = {}]
        BY <1>3 DEF FailPanel
    <2>2. work'[p] = [work[p] EXCEPT !.failed = TRUE, !.remaining = {}]
        BY <1>1, <2>1
    <2>3. /\ work'[p] \in Work
          /\ work'[p].running = work[p].running /\ work'[p].completed = work[p].completed
          /\ work'[p].folded = work[p].folded /\ work'[p].failed
        BY <1>1, <2>2 DEF Work
    <2>4. \A q \in Panels \ {p} : work'[q] = work[q]
        BY <1>1, <2>1
    <2>5. work' \in [Panels -> Work]
        BY <1>1, <2>1, <2>3, <2>4
    <2>6. CASE p \notin ToSet(runnable) /\ UNCHANGED runnable
        BY <1>1, <2>3, <2>4, <2>5, <2>6
    <2>7. CASE \E i \in DOMAIN runnable : runnable[i] = p /\ runnable' = RemoveAt(runnable, i)
        <3>1. PICK i \in DOMAIN runnable : runnable[i] = p /\ runnable' = RemoveAt(runnable, i)
            BY <2>7
        <3>2. Queue(runnable') /\ ToSet(runnable') = ToSet(runnable) \ {p}
            BY <1>1, <3>1, Removed
        <3> QED
            BY <2>3, <2>4, <2>5, <3>2
    <2> QED
        BY <1>3, <2>6, <2>7 DEF FailPanel
<1> QED
    BY <1>2, <1>3 DEF FailPanel

LEMMA FailKeepsInv == ASSUME Inv, NEW w \in Workers, Fail(w) PROVE Inv'
<1>1. /\ thread[w].at \in Running /\ "count" \in Running
      /\ thread' = [thread EXCEPT ![w].at = "count"]
    BY DEF Fail, Running, Goto
<1>2. PICK p \in Panels : thread[w].panel = p
    BY <1>1, CaseHeld
<1>3. /\ files' = files /\ files' \in [Panels -> SUBSET Cases]
      /\ UNCHANGED <<checkpoint, result, future, permits>> /\ closing' = closing
    BY DEF Fail, durable, Inv, Shape
<1>4. /\ work' \in [Panels -> Work] /\ \A q \in Panels \ {p} : work'[q] = work[q]
      /\ work'[p].running = work[p].running /\ work'[p].completed = work[p].completed
      /\ work'[p].folded = work[p].folded
      /\ Queue(runnable') /\ ToSet(runnable') \subseteq ToSet(runnable)
      /\ p \notin ToSet(runnable')
    <2>1. FailPanel(p)
        BY <1>2 DEF Fail
    <2> QED
        BY <2>1, FailedPanel
<1>5. \A q \in Panels \ {p} : work'[q] = work[q] /\ files'[q] = files[q]
    BY <1>3, <1>4
<1>6. files[p] \subseteq files'[p]
    BY <1>3
<1>7. p \in ToSet(runnable') => ~work'[p].failed /\ work'[p].remaining # {}
    BY <1>4
<1>8. /\ "count" \in {"evaluate", "fold"} => ~thread[w].folded
      /\ "count" = "fold" => thread[w].case \in files'[p]
    OBVIOUS
<1> QED
    BY <1>1, <1>2, <1>3, <1>4, <1>5, <1>6, <1>7, <1>8, MoveStep, ZenonT(30)

(***************************************************************************)
(* Steps of a worker with a case that change the counts of its panel.      *)
(***************************************************************************)
LEMMA FoldStep ==
    ASSUME Inv, NEW w \in Workers, thread[w].at = "fold", NEW x \in {"count", "fail"},
           thread' \in [Threads -> Thread], \A t \in Threads \ {w} : thread'[t] = thread[t],
           thread'[w].at = x, thread'[w].panel = thread[w].panel,
           thread'[w].case = thread[w].case, thread'[w].folded,
           NEW p \in Panels, thread[w].panel = p, thread[w].case \notin work[p].folded,
           work' \in [Panels -> Work], \A q \in Panels \ {p} : work'[q] = work[q],
           work'[p].running = work[p].running, work'[p].completed = work[p].completed,
           work'[p].remaining = work[p].remaining, work'[p].failed = work[p].failed,
           work'[p].folded = work[p].folded \cup {thread[w].case},
           checkpoint' \in [Panels -> SUBSET Cases],
           \A q \in Panels \ {p} : checkpoint'[q] = checkpoint[q],
           files' = files, result' = result, runnable' = runnable, future' = future,
           permits' = permits, closing' = closing
    PROVE  Inv'
<1>1. /\ w \in Threads /\ w # Main /\ thread[w] \in Thread /\ p # NoPanel
      /\ thread[w].case # 0 /\ thread[w].case \in Cases /\ future[p] = "pending"
      /\ PanelOK(p) /\ ThreadOK(w) /\ work[p] \in Work /\ w \in Holders(p)
    BY CaseHeld DEF Running
<1>2. x \notin {"gone", "idle", "fold", "evaluate"} \cup Finishing
    BY DEF Finishing
<1>3. Shape'
    BY DEF Inv, Shape
<1>4. Holders(p)' = Holders(p)
    BY <1>1 DEF Holders, Holds
<1>5. Uncounted(p)' = Uncounted(p) \cup {w} /\ w \notin Uncounted(p)
    <2>1. ~thread[w].folded
        BY <1>1 DEF ThreadOK
    <2> QED
        BY <1>1, <1>2, <1>4, <2>1, HoldersAreThreads DEF Uncounted
<1>6. Cardinality(Uncounted(p)') = Cardinality(Uncounted(p)) + 1 /\ Cardinality(Uncounted(p)) \in Nat
    BY <1>1, <1>5, HoldersAreThreads, ThreadsAreCounted
<1>7. /\ Cardinality(work'[p].folded) = Cardinality(work[p].folded) + 1
       /\ Cardinality(work[p].folded) \in Nat /\ work[p].completed \in Nat
    <2>1. work[p].folded \in SUBSET Cases /\ IsFiniteSet(work[p].folded)
        BY <1>1, CasesAreCounted DEF Work
    <2> QED
        BY <1>1, <2>1, FS_AddElement, CasesAreCounted, SMTT(30) DEF Work
<1>8. \A t \in Holders(p) : thread'[t].at = "gone" <=> thread[t].at = "gone"
    BY <1>2 DEF Holders
<1>9. work'[p].folded \subseteq files'[p]
    BY <1>1 DEF ThreadOK, PanelOK
<1>10. PanelOK(p)'
    BY <1>1, <1>4, <1>6, <1>7, <1>8, <1>9 DEF PanelOK
<1>11. ThreadOK(w)'
    BY <1>1, <1>2 DEF ThreadOK, Running, Finishing
<1> QED
    BY <1>1, <1>3, <1>10, <1>11, CaseStep

\* A thread whose place changes, with its mark of a folded case.
LEMMA Marked ==
    ASSUME Inv, NEW w \in Threads, NEW x \in Places,
           thread' = [thread EXCEPT ![w].at = x, ![w].folded = TRUE]
    PROVE  /\ thread' \in [Threads -> Thread] /\ \A t \in Threads \ {w} : thread'[t] = thread[t]
           /\ thread'[w].at = x /\ thread'[w].panel = thread[w].panel
           /\ thread'[w].case = thread[w].case /\ thread'[w].folded
<1>1. thread \in [Threads -> Thread] /\ thread[w] \in Thread
    BY DEF Inv, Shape
<1>2. /\ thread'[w] = [thread[w] EXCEPT !.at = x, !.folded = TRUE]
      /\ \A t \in Threads \ {w} : thread'[t] = thread[t]
    BY <1>1
<1>3. /\ thread'[w] \in Thread
      /\ thread'[w].at = x /\ thread'[w].panel = thread[w].panel
      /\ thread'[w].case = thread[w].case /\ thread'[w].folded
    BY <1>1, <1>2 DEF Thread
<1> QED
    BY <1>1, <1>2, <1>3

LEMMA FoldKeepsInv == ASSUME Inv, NEW w \in Workers, Fold(w) PROVE Inv'
<1> DEFINE p == thread[w].panel
           due == CheckpointDue(p)
<1>1. thread[w].at = "fold" /\ thread[w].at \in Running
    BY DEF Fold, Running
<1>2. p \in Panels /\ thread[w].case \in Cases /\ work[p] \in Work
    BY <1>1, CaseHeld
<1>3. /\ thread[w].case \notin work[p].folded
      /\ work' = [work EXCEPT ![p].folded = work[p].folded \cup {thread[w].case},
                              ![p].dirty = IF due THEN 0 ELSE @ + 1]
      /\ checkpoint' = [checkpoint EXCEPT ![p] = IF due THEN work[p].folded \cup {thread[w].case} ELSE @]
      /\ thread' = [thread EXCEPT ![w].at = "count", ![w].folded = TRUE]
      /\ files' = files /\ result' = result /\ runnable' = runnable /\ future' = future
      /\ permits' = permits /\ closing' = closing
    BY DEF Fold
<1>4. PICK d \in Nat : /\ d = IF due THEN 0 ELSE work[p].dirty + 1
    BY <1>2 DEF Work
<1>5. work \in [Panels -> Work] /\ checkpoint \in [Panels -> SUBSET Cases]
    BY DEF Inv, Shape
<1> HIDE DEF p, due
<1>6. work'[p] = [work[p] EXCEPT !.folded = work[p].folded \cup {thread[w].case}, !.dirty = d]
    BY <1>2, <1>3, <1>4, <1>5
<1>7. /\ work'[p] \in Work
      /\ work'[p].running = work[p].running /\ work'[p].completed = work[p].completed
      /\ work'[p].remaining = work[p].remaining /\ work'[p].failed = work[p].failed
      /\ work'[p].folded = work[p].folded \cup {thread[w].case}
    <2>1. PICK rec \in Work : rec = work[p]
        BY <1>2
    <2>2. PICK folded \in SUBSET Cases : folded = work[p].folded \cup {thread[w].case}
        BY <1>2 DEF Work
    <2>3. work'[p] = [rec EXCEPT !.folded = folded, !.dirty = d]
        BY <1>6, <2>1, <2>2
    <2>4. [rec EXCEPT !.folded = folded, !.dirty = d] \in Work
        BY <1>4, <2>1, <2>2 DEF Work
    <2>5. /\ work'[p].running = rec.running /\ work'[p].completed = rec.completed
          /\ work'[p].remaining = rec.remaining /\ work'[p].failed = rec.failed
          /\ work'[p].folded = folded
        BY <2>3, <2>1 DEF Work
    <2> QED
        BY <2>1, <2>2, <2>3, <2>4, <2>5
<1>8. \A q \in Panels \ {p} : work'[q] = work[q] /\ checkpoint'[q] = checkpoint[q]
    BY <1>2, <1>3, <1>5
<1>9. work' \in [Panels -> Work]
    BY <1>2, <1>3, <1>5, <1>7, <1>8
<1>10. checkpoint' \in [Panels -> SUBSET Cases]
    <2>1. checkpoint[p] \in SUBSET Cases /\ work[p].folded \cup {thread[w].case} \in SUBSET Cases
        BY <1>2, <1>5 DEF Work
    <2> QED
        BY <1>2, <1>3, <1>5, <2>1
<1>11. thread[w].panel = p
    BY DEF p
<1>12. /\ thread' \in [Threads -> Thread] /\ \A t \in Threads \ {w} : thread'[t] = thread[t]
       /\ thread'[w].at = "count" /\ thread'[w].panel = thread[w].panel
       /\ thread'[w].case = thread[w].case /\ thread'[w].folded
    BY <1>3, Marked, ThreadsAreFinite DEF Places
<1> QED
    BY <1>1, <1>2, <1>3, <1>7, <1>8, <1>9, <1>10, <1>11, <1>12, FoldStep

LEMMA CheckpointRaisesKeepsInv == ASSUME Inv, NEW w \in Workers, CheckpointRaises(w) PROVE Inv'
<1>1. thread[w].at = "fold" /\ thread[w].at \in Running
    BY DEF CheckpointRaises, Running
<1>2. PICK p \in Panels : thread[w].panel = p /\ thread[w].case \in Cases /\ work[p] \in Work
    BY <1>1, CaseHeld
<1>3. /\ thread[w].case \notin work[p].folded
      /\ work' = [work EXCEPT ![p].folded = @ \cup {thread[w].case}, ![p].dirty = @ + 1]
      /\ thread' = [thread EXCEPT ![w].at = "fail", ![w].folded = TRUE]
      /\ files' = files /\ checkpoint' = checkpoint /\ result' = result /\ runnable' = runnable
      /\ future' = future /\ permits' = permits /\ closing' = closing
    BY <1>2 DEF CheckpointRaises, durable
<1>4. work \in [Panels -> Work] /\ checkpoint \in [Panels -> SUBSET Cases]
    BY DEF Inv, Shape
<1>5. work'[p] = [work[p] EXCEPT !.folded = @ \cup {thread[w].case}, !.dirty = @ + 1]
    BY <1>2, <1>3, <1>4
<1>6. /\ work'[p] \in Work
      /\ work'[p].running = work[p].running /\ work'[p].completed = work[p].completed
      /\ work'[p].remaining = work[p].remaining /\ work'[p].failed = work[p].failed
      /\ work'[p].folded = work[p].folded \cup {thread[w].case}
    <2> DEFINE d == work[p].dirty + 1
               f == work[p].folded \cup {thread[w].case}
    <2>1. d \in Nat /\ f \in SUBSET Cases
        BY <1>2 DEF Work
    <2>2. work'[p] = [work[p] EXCEPT !.folded = f, !.dirty = d]
        BY <1>5
    <2> HIDE DEF d, f
    <2>3. /\ work'[p] \in Work
          /\ work'[p].running = work[p].running /\ work'[p].completed = work[p].completed
          /\ work'[p].remaining = work[p].remaining /\ work'[p].failed = work[p].failed
          /\ work'[p].folded = f
        BY <1>2, <2>1, <2>2 DEF Work
    <2> QED
        BY <2>3 DEF f
<1>7. \A q \in Panels \ {p} : work'[q] = work[q] /\ checkpoint'[q] = checkpoint[q]
    BY <1>2, <1>3, <1>4
<1>8. work' \in [Panels -> Work] /\ checkpoint' \in [Panels -> SUBSET Cases]
    BY <1>2, <1>3, <1>4, <1>6, <1>7
<1>9. /\ thread' \in [Threads -> Thread] /\ \A t \in Threads \ {w} : thread'[t] = thread[t]
      /\ thread'[w].at = "fail" /\ thread'[w].panel = thread[w].panel
      /\ thread'[w].case = thread[w].case /\ thread'[w].folded
    BY <1>3, Marked, ThreadsAreFinite DEF Places
<1> QED
    BY <1>1, <1>2, <1>3, <1>6, <1>7, <1>8, <1>9, FoldStep

\* A thread that ends where it stands.
LEMMA Ended ==
    ASSUME Inv, NEW w \in Threads, Goto(w, "gone")
    PROVE  /\ thread' \in [Threads -> Thread] /\ \A t \in Threads \ {w} : thread'[t] = thread[t]
           /\ thread'[w].at = "gone" /\ thread'[w].panel = thread[w].panel
           /\ thread'[w].case = thread[w].case /\ thread'[w].folded = thread[w].folded
<1>1. thread \in [Threads -> Thread] /\ thread[w] \in Thread /\ "gone" \in Places
    BY DEF Inv, Shape, Places
<1>2. /\ thread'[w] = [thread[w] EXCEPT !.at = "gone"]
      /\ \A t \in Threads \ {w} : thread'[t] = thread[t]
    BY <1>1 DEF Goto
<1>3. /\ thread'[w] \in Thread
      /\ thread'[w].at = "gone" /\ thread'[w].panel = thread[w].panel
      /\ thread'[w].case = thread[w].case /\ thread'[w].folded = thread[w].folded
    BY <1>1, <1>2 DEF Thread
<1>4. thread' \in [Threads -> Thread]
    BY <1>1, <1>2, <1>3 DEF Goto
<1> QED
    BY <1>2, <1>3, <1>4

LEMMA FailAndDieKeepsInv == ASSUME Inv, NEW w \in Workers, FailAndDie(w) PROVE Inv'
<1>1. thread[w].at \in Running
    BY DEF FailAndDie, Running
<1>2. PICK p \in Panels : thread[w].panel = p
    BY <1>1, CaseHeld
<1>3. /\ w \in Threads /\ w # Main /\ p # NoPanel /\ thread[w].case # 0 /\ future[p] = "pending"
      /\ PanelOK(p) /\ ThreadOK(w) /\ work[p] \in Work /\ w \in Holders(p)
    BY <1>1, <1>2, CaseHeld
<1>4. /\ files' = files /\ checkpoint' = checkpoint /\ result' = result
      /\ future' = future /\ permits' = permits /\ closing' = closing
    BY DEF FailAndDie, durable
<1>5. /\ work' \in [Panels -> Work] /\ \A q \in Panels \ {p} : work'[q] = work[q]
      /\ work'[p].running = work[p].running /\ work'[p].completed = work[p].completed
      /\ work'[p].folded = work[p].folded
      /\ Queue(runnable') /\ ToSet(runnable') \subseteq ToSet(runnable)
      /\ p \notin ToSet(runnable')
    <2>1. FailPanel(p)
        BY <1>2 DEF FailAndDie
    <2> QED
        BY <2>1, FailedPanel
<1>6. /\ thread' \in [Threads -> Thread] /\ \A t \in Threads \ {w} : thread'[t] = thread[t]
      /\ thread'[w].at = "gone" /\ thread'[w].panel = thread[w].panel
      /\ thread'[w].case = thread[w].case /\ thread'[w].folded = thread[w].folded
    BY <1>3, Ended DEF FailAndDie
<1>7. Shape'
    BY <1>4, <1>5, <1>6 DEF Inv, Shape, Queue
<1>8. Holders(p)' = Holders(p)
    BY <1>3, <1>6 DEF Holders, Holds
<1>9. Uncounted(p)' = Uncounted(p) \ {w}
    BY <1>3, <1>6, <1>8, HoldersAreThreads DEF Uncounted
<1>10. /\ Cardinality(Uncounted(p)') <= Cardinality(Uncounted(p))
       /\ Cardinality(Uncounted(p)) \in Nat /\ Cardinality(Uncounted(p)') \in Nat
    <2>1. Uncounted(p) \in SUBSET Threads
        BY HoldersAreThreads
    <2>2. CASE w \in Uncounted(p)
        BY <1>9, <2>1, <2>2, ThreadsAreCounted
    <2>3. CASE w \notin Uncounted(p)
        <3>1. Uncounted(p)' = Uncounted(p)
            BY <1>9, <2>3
        <3> QED
            BY <2>1, <3>1, ThreadsAreCounted
    <2> QED
        BY <2>2, <2>3
<1>11. Cardinality(work[p].folded) \in Nat /\ work[p].completed \in Nat
    BY <1>3, CasesAreCounted DEF Work
<1>12. PanelOK(p)'
    BY <1>3, <1>4, <1>5, <1>6, <1>8, <1>10, <1>11 DEF PanelOK
<1>13. ThreadOK(w)'
    BY <1>2, <1>3, <1>4, <1>6 DEF ThreadOK, Running, Finishing
<1> QED
    BY <1>2, <1>3, <1>4, <1>5, <1>6, <1>7, <1>12, <1>13, CaseStep

LEMMA CountAndDieKeepsInv == ASSUME Inv, NEW w \in Workers, CountAndDie(w) PROVE Inv'
<1>1. thread[w].at = "count" /\ thread[w].at \in Running /\ thread[w].folded
    BY DEF CountAndDie, Running
<1>2. PICK p \in Panels : thread[w].panel = p
    BY <1>1, CaseHeld
<1>3. /\ w \in Threads /\ w # Main /\ p # NoPanel /\ thread[w].case # 0 /\ future[p] = "pending"
      /\ PanelOK(p) /\ ThreadOK(w) /\ work[p] \in Work /\ w \in Holders(p)
    BY <1>1, <1>2, CaseHeld
<1>4. /\ files' = files /\ checkpoint' = checkpoint /\ result' = result /\ runnable' = runnable
      /\ future' = future /\ permits' = permits /\ closing' = closing
    BY DEF CountAndDie, durable
<1>5. /\ work' \in [Panels -> Work] /\ \A q \in Panels \ {p} : work'[q] = work[q]
      /\ work'[p].running = work[p].running /\ work'[p].completed = work[p].completed + 1
      /\ work'[p].remaining = work[p].remaining /\ work'[p].failed = work[p].failed
      /\ work'[p].folded = work[p].folded
    <2>1. work \in [Panels -> Work] /\ work' = [work EXCEPT ![p].completed = work[p].completed + 1]
        BY <1>1, <1>2 DEF CountAndDie, Counted, Inv, Shape
    <2>2. /\ work'[p] = [work[p] EXCEPT !.completed = work[p].completed + 1]
          /\ \A q \in Panels \ {p} : work'[q] = work[q]
        BY <2>1
    <2>3. /\ work'[p] \in Work
          /\ work'[p].running = work[p].running /\ work'[p].completed = work[p].completed + 1
          /\ work'[p].remaining = work[p].remaining /\ work'[p].failed = work[p].failed
          /\ work'[p].folded = work[p].folded
        BY <1>3, <2>2 DEF Work
    <2> QED
        BY <2>1, <2>2, <2>3
<1>6. /\ thread' \in [Threads -> Thread] /\ \A t \in Threads \ {w} : thread'[t] = thread[t]
      /\ thread'[w].at = "gone" /\ thread'[w].panel = thread[w].panel
      /\ thread'[w].case = thread[w].case /\ thread'[w].folded = thread[w].folded
    BY <1>3, Ended DEF CountAndDie
<1>7. Shape'
    BY <1>4, <1>5, <1>6 DEF Inv, Shape
<1>8. Holders(p)' = Holders(p)
    BY <1>3, <1>6 DEF Holders, Holds
<1>9. Uncounted(p)' = Uncounted(p) \ {w} /\ w \in Uncounted(p)
    BY <1>1, <1>3, <1>6, <1>8, HoldersAreThreads DEF Uncounted
<1>10. /\ Cardinality(Uncounted(p)') = Cardinality(Uncounted(p)) - 1
       /\ Cardinality(Uncounted(p)) \in Nat
    BY <1>9, HoldersAreThreads, ThreadsAreCounted
<1>11. Cardinality(work[p].folded) \in Nat /\ work[p].completed \in Nat
    BY <1>3, CasesAreCounted DEF Work
<1>12. PanelOK(p)'
    BY <1>3, <1>4, <1>5, <1>6, <1>8, <1>10, <1>11 DEF PanelOK
<1>13. ThreadOK(w)'
    BY <1>2, <1>3, <1>4, <1>6 DEF ThreadOK, Running, Finishing
<1> QED
    BY <1>2, <1>3, <1>4, <1>5, <1>6, <1>7, <1>12, <1>13, CaseStep

LEMMA CountKeepsInv == ASSUME Inv, NEW w \in Workers, Count(w) PROVE Inv'
<1>1. thread[w].at = "count" /\ thread[w].at \in Running
    BY DEF Count, Running
<1>2. PICK p \in Panels : thread[w].panel = p
    BY <1>1, CaseHeld
<1>3. /\ w \in Threads /\ w # Main /\ p # NoPanel /\ thread[w].case # 0 /\ future[p] = "pending"
      /\ PanelOK(p) /\ ThreadOK(w) /\ work[p] \in Work /\ w \in Holders(p)
    BY <1>1, <1>2, CaseHeld
<1>4. /\ files' = files /\ checkpoint' = checkpoint /\ result' = result /\ runnable' = runnable
      /\ future' = future /\ permits' = permits /\ closing' = closing
    BY DEF Count, durable
<1>5. /\ work' = [work EXCEPT ![p].completed = Counted(w), ![p].running = @ - 1]
      /\ thread' = [thread EXCEPT ![w] = IF Ends(p) THEN [IdleThread EXCEPT !.at = "finish", !.panel = p]
                                                    ELSE IdleThread]
    BY <1>2 DEF Count
<1>6. /\ Cardinality(Holders(p)) \in Nat /\ Cardinality(Holders(p)) > 0
      /\ Cardinality(Holders(p) \ {w}) = Cardinality(Holders(p)) - 1
      /\ Cardinality(Holders(p) \ {w}) = 0 => Holders(p) = {w}
    <2>1. Holders(p) \in SUBSET Threads /\ Holders(p) \ {w} \in SUBSET Threads
        BY HoldersAreThreads
    <2>2. /\ Cardinality(Holders(p)) \in Nat /\ Cardinality(Holders(p)) # 0
          /\ Cardinality(Holders(p) \ {w}) = Cardinality(Holders(p)) - 1
        BY <1>3, <2>1, ThreadsAreCounted
    <2>3. Cardinality(Holders(p) \ {w}) = 0 => Holders(p) \ {w} = {}
        BY <2>1, ThreadsAreCounted
    <2> QED
        BY <1>3, <2>2, <2>3
<1>7. PICK n \in Nat : n = work[p].running - 1 /\ n = Cardinality(Holders(p) \ {w})
    BY <1>3, <1>6 DEF PanelOK
<1>8. PICK m \in Nat : m = Counted(w)
    BY <1>2, <1>3 DEF Counted, Work
<1>9. /\ work' \in [Panels -> Work] /\ \A q \in Panels \ {p} : work'[q] = work[q]
      /\ work'[p].running = n /\ work'[p].completed = m
      /\ work'[p].remaining = work[p].remaining /\ work'[p].failed = work[p].failed
      /\ work'[p].folded = work[p].folded
    <2>1. work \in [Panels -> Work]
        BY DEF Inv, Shape
    <2>2. /\ work'[p] = [work[p] EXCEPT !.completed = m, !.running = n]
          /\ \A q \in Panels \ {p} : work'[q] = work[q]
        BY <1>5, <1>7, <1>8, <2>1
    <2>3. /\ work'[p] \in Work
          /\ work'[p].running = n /\ work'[p].completed = m
          /\ work'[p].remaining = work[p].remaining /\ work'[p].failed = work[p].failed
          /\ work'[p].folded = work[p].folded
        BY <1>3, <2>2 DEF Work
    <2> QED
        BY <1>5, <2>1, <2>2, <2>3
<1>10. /\ \A t \in Threads \ {w} : thread'[t] = thread[t]
       /\ thread'[w] \in Thread /\ thread'[w].case = 0 /\ ~thread'[w].folded
       /\ thread'[w].panel \in {p, NoPanel}
       /\ thread'[w].at = "idle" => thread'[w].panel = NoPanel
       /\ thread'[w].at \in {"idle", "finish"}
       /\ thread'[w].at = "finish" => thread'[w].panel = p
       /\ thread'[w].panel # NoPanel => Ends(p)
    <2>1. thread \in [Threads -> Thread]
        BY DEF Inv, Shape
    <2>2. CASE Ends(p)
        <3>1. thread'[w] = [at |-> "finish", panel |-> p, case |-> 0, folded |-> FALSE]
            BY <1>3, <1>5, <2>1, <2>2 DEF IdleThread
        <3>2. \A t \in Threads \ {w} : thread'[t] = thread[t]
            BY <1>5, <2>1
        <3> QED
            BY <2>2, <3>1, <3>2 DEF Thread, Places
    <2>3. CASE ~Ends(p)
        <3>1. thread'[w] = [at |-> "idle", panel |-> NoPanel, case |-> 0, folded |-> FALSE]
            BY <1>3, <1>5, <2>1, <2>3 DEF IdleThread
        <3>2. \A t \in Threads \ {w} : thread'[t] = thread[t]
            BY <1>5, <2>1
        <3> QED
            BY <3>1, <3>2 DEF Thread, Places
    <2> QED
        BY <2>2, <2>3
<1>11. thread' \in [Threads -> Thread]
    BY <1>3, <1>5, <1>10 DEF Inv, Shape
<1>12. Shape'
    BY <1>4, <1>9, <1>11 DEF Inv, Shape
<1>13. Holders(p)' = Holders(p) \ {w}
    BY <1>3, <1>10, HoldersAreThreads DEF Holders, Holds
<1>14. Uncounted(p)' = Uncounted(p) \ {w} /\ (w \in Uncounted(p) <=> thread[w].folded)
    BY <1>1, <1>3, <1>10, <1>13, HoldersAreThreads DEF Uncounted
<1>15. m + Cardinality(Uncounted(p)') = work[p].completed + Cardinality(Uncounted(p))
    <2>1. Cardinality(Uncounted(p)) \in Nat /\ work[p].completed \in Nat
        BY <1>3, HoldersAreThreads, ThreadsAreCounted DEF Work
    <2>2. CASE thread[w].folded
        <3>1. Cardinality(Uncounted(p)') = Cardinality(Uncounted(p)) - 1
            BY <1>14, <2>2, HoldersAreThreads, ThreadsAreCounted
        <3> QED
            BY <1>2, <1>8, <2>1, <2>2, <3>1 DEF Counted
    <2>3. CASE ~thread[w].folded
        <3>1. Uncounted(p)' = Uncounted(p)
            BY <1>14, <2>3
        <3> QED
            BY <1>2, <1>8, <2>1, <2>3, <3>1 DEF Counted
    <2> QED
        BY <2>2, <2>3
<1>16. (\A t \in Holders(p)' : thread'[t].at # "gone") => \A t \in Holders(p) : thread[t].at # "gone"
    BY <1>1, <1>10, <1>13, HoldersAreThreads
<1>17. PanelOK(p)'
    BY <1>3, <1>4, <1>7, <1>9, <1>13, <1>15, <1>16 DEF PanelOK
<1>18. ThreadOK(w)'
    BY <1>3, <1>10 DEF ThreadOK, Running, Finishing
<1>19. thread'[w].panel = p => p \notin ToSet(runnable') /\ Holders(p) = {w}
    <2> SUFFICES ASSUME Ends(p) PROVE p \notin ToSet(runnable') /\ Holders(p) = {w}
        BY <1>3, <1>10
    <2>1. p \notin ToSet(runnable')
        BY <1>3, <1>4 DEF Ends, PanelOK
    <2>2. Holders(p) = {w}
        BY <1>3, <1>6 DEF Ends, PanelOK
    <2> QED
        BY <2>1, <2>2
<1>20. /\ \A q \in Panels \ {p} : work'[q] = work[q] /\ files'[q] = files[q] /\ checkpoint'[q] = checkpoint[q]
       /\ files[p] \subseteq files'[p] /\ ToSet(runnable') \subseteq ToSet(runnable)
    BY <1>4, <1>9
<1> QED
    BY <1>2, <1>3, <1>4, <1>10, <1>12, <1>17, <1>18, <1>19, <1>20, CaseStep

-----------------------------------------------------------------------------
(***************************************************************************)
(* A worker without a case.                                                *)
(***************************************************************************)
LEMMA LeaveKeepsInv == ASSUME Inv, NEW w \in Workers, Leave(w) PROVE Inv'
<1>1. /\ w \in Threads /\ w # Main /\ thread[w] \in Thread /\ ThreadOK(w)
      /\ thread[w].at = "idle" /\ thread[w].panel = NoPanel /\ thread[w].case = 0
    BY PoolAssumption DEF Leave, Threads, Inv, Shape, ThreadOK
<1>2. /\ thread' \in [Threads -> Thread] /\ \A t \in Threads \ {w} : thread'[t] = thread[t]
      /\ thread'[w].at = "gone" /\ thread'[w].panel = thread[w].panel
      /\ thread'[w].case = thread[w].case /\ thread'[w].folded = thread[w].folded
    BY <1>1, Ended DEF Leave, Goto
<1>3. /\ files' = files /\ checkpoint' = checkpoint /\ result' = result /\ runnable' = runnable
      /\ work' = work /\ future' = future /\ permits' = permits /\ closing' = closing
    BY DEF Leave, durable
<1>4. Shape'
    BY <1>2, <1>3 DEF Inv, Shape
<1>5. \A p \in Panels : Holders(p)' = Holders(p) /\ w \notin Holders(p)
    BY <1>1, <1>2, HoldersAreThreads DEF Holders, Holds
<1>6. \A p \in Panels : Uncounted(p)' = Uncounted(p)
    BY <1>2, <1>5, HoldersAreThreads DEF Uncounted
<1>7. ASSUME NEW p \in Panels PROVE PanelOK(p)'
    <2>1. PanelOK(p) /\ p # NoPanel
        BY IdleIsTyped DEF Inv
    <2>2. \A t \in Threads : thread'[t].panel = thread[t].panel
        BY <1>2
    <2>3. \A t \in Holders(p) : thread'[t].at = thread[t].at
        BY <1>2, <1>5, HoldersAreThreads
    <2> QED
        BY <1>3, <1>5, <1>6, <2>1, <2>2, <2>3 DEF PanelOK, OnDisk
<1>8. ASSUME NEW t \in Threads PROVE ThreadOK(t)' /\ FinishesAlone(t)'
    <2>1. ThreadOK(t) /\ FinishesAlone(t)
        BY DEF Inv
    <2>2. \A u \in Threads : thread'[u].panel = thread[u].panel /\ thread'[u].case = thread[u].case
        BY <1>2
    <2>3. CASE t = w
        BY <1>1, <1>2, <1>3, <2>2, <2>3 DEF ThreadOK, FinishesAlone, Running, Finishing
    <2>4. CASE t # w
        <3>1. thread'[t] = thread[t]
            BY <1>2, <2>4
        <3> QED
            BY <1>3, <2>1, <2>2, <3>1 DEF ThreadOK, FinishesAlone, OnDisk
    <2> QED
        BY <2>3, <2>4
<1>9. permits' + Cardinality(Pending') = Capacity
    BY <1>3 DEF Inv, Pending
<1> QED
    BY <1>4, <1>7, <1>8, <1>9 DEF Inv

\* Nothing but the queue and whether the pool closes changes.
LEMMA QueueStep ==
    ASSUME Inv, Queue(runnable'), ToSet(runnable') \subseteq ToSet(runnable),
           files' = files, checkpoint' = checkpoint, result' = result, work' = work,
           future' = future, permits' = permits, thread' = thread,
           closing' \in {"no", "drain", "force"}
    PROVE  Inv'
<1>1. Shape'
    BY DEF Inv, Shape, Queue
<1>2. ASSUME NEW t \in Threads PROVE ThreadOK(t)' /\ FinishesAlone(t)'
    BY DEF Inv, ThreadOK, FinishesAlone, OnDisk
<1>3. ASSUME NEW p \in Panels PROVE PanelOK(p)'
    <2>1. Holders(p)' = Holders(p) /\ Uncounted(p)' = Uncounted(p)
        BY DEF Holders, Holds, Uncounted
    <2> QED
        BY <2>1 DEF Inv, PanelOK, OnDisk
<1>4. permits' + Cardinality(Pending') = Capacity
    BY DEF Inv, Pending
<1> QED
    BY <1>1, <1>2, <1>3, <1>4 DEF Inv

LEMMA TakeKeepsInv == ASSUME Inv, NEW w \in Workers, Take(w) PROVE Inv'
<1>1. /\ files' = files /\ checkpoint' = checkpoint /\ result' = result
      /\ future' = future /\ permits' = permits /\ closing' = closing /\ runnable # <<>>
    BY DEF Take, MayTake, durable
<1>2. PICK p \in Panels :
         /\ p = Head(runnable) /\ p \in ToSet(runnable) /\ Queue(Tail(runnable))
         /\ ToSet(Tail(runnable)) = ToSet(runnable) \ {p}
    <2>1. Queue(runnable)
        BY DEF Inv, Shape, Queue
    <2>2. Head(runnable) \in Panels
        BY <1>1, <2>1, HeadTailProperties DEF Queue
    <2> QED
        BY <1>1, <2>1, <2>2, Tailed
<1>3. CASE runnable' = Tail(runnable) /\ UNCHANGED <<work, thread>>
    BY <1>1, <1>2, <1>3, QueueStep DEF Inv, Shape
<1>4. ASSUME NEW c \in Cases, IsNext(c, work[p].remaining),
             work' = [work EXCEPT ![p].remaining = @ \ {c}, ![p].running = @ + 1],
             runnable' = IF work[p].remaining # {c} THEN Append(Tail(runnable), p) ELSE Tail(runnable),
             thread' = [thread EXCEPT ![w] =
                          [at |-> "evaluate", panel |-> p, case |-> c, folded |-> FALSE]]
      PROVE  Inv'
    <2>1. /\ w \in Threads /\ w # Main /\ thread[w] \in Thread /\ ThreadOK(w)
          /\ thread[w].panel = NoPanel /\ thread[w].case = 0
        BY PoolAssumption DEF Take, MayTake, Threads, Inv, Shape, ThreadOK
    <2>2. /\ p \in Panels /\ p # NoPanel /\ work[p] \in Work /\ PanelOK(p)
        BY <1>2, IdleIsTyped DEF Inv, Shape
    <2>3. ~work[p].failed /\ future[p] = "pending" /\ c \in work[p].remaining
        BY <1>2, <1>4, <2>2 DEF PanelOK, IsNext
    <2>4. \A t \in Threads : thread[t].panel = p =>
              t # w /\ thread[t].case # 0 /\ ThreadOK(t) /\ thread[t].at \notin Finishing
        BY <1>2, <2>1, <2>2 DEF Inv, FinishesAlone, ThreadOK
    <2>5. PICK n \in Nat : n = work[p].running + 1
        BY <2>2 DEF Work
    <2>6. /\ work' \in [Panels -> Work] /\ \A q \in Panels \ {p} : work'[q] = work[q]
          /\ work'[p].running = n /\ work'[p].completed = work[p].completed
          /\ work'[p].remaining = work[p].remaining \ {c} /\ ~work'[p].failed
          /\ work'[p].folded = work[p].folded
        <3>1. work \in [Panels -> Work]
            BY DEF Inv, Shape
        <3>2. /\ work'[p] = [work[p] EXCEPT !.remaining = work[p].remaining \ {c}, !.running = n]
              /\ \A q \in Panels \ {p} : work'[q] = work[q]
            BY <1>4, <2>2, <2>5, <3>1
        <3>3. work[p].remaining \ {c} \in SUBSET Cases
            BY <2>2 DEF Work
        <3>4. /\ work'[p] \in Work
              /\ work'[p].running = n /\ work'[p].completed = work[p].completed
              /\ work'[p].remaining = work[p].remaining \ {c} /\ ~work'[p].failed
              /\ work'[p].folded = work[p].folded
            BY <2>2, <2>3, <3>2, <3>3 DEF Work
        <3> QED
            BY <1>4, <2>2, <3>1, <3>2, <3>4
    <2>7. /\ \A t \in Threads \ {w} : thread'[t] = thread[t]
          /\ thread'[w] = [at |-> "evaluate", panel |-> p, case |-> c, folded |-> FALSE]
          /\ thread' \in [Threads -> Thread]
        <3>1. thread \in [Threads -> Thread]
            BY DEF Inv, Shape
        <3>2. [at |-> "evaluate", panel |-> p, case |-> c, folded |-> FALSE] \in Thread
            BY <2>2 DEF Thread, Places
        <3> QED
            BY <1>4, <2>1, <3>1, <3>2
    <2>8. /\ Queue(runnable') /\ ToSet(runnable') \subseteq ToSet(runnable)
          /\ p \in ToSet(runnable') => work[p].remaining # {c}
        <3>1. CASE work[p].remaining # {c}
            <4>1. Queue(runnable') /\ ToSet(runnable') = ToSet(Tail(runnable)) \cup {p}
                BY <1>2, <1>4, <2>2, <3>1, Appended
            <4> QED
                BY <1>2, <3>1, <4>1
        <3>2. CASE work[p].remaining = {c}
            BY <1>2, <1>4, <3>2
        <3> QED
            BY <3>1, <3>2
    <2>9. Shape'
        BY <1>1, <2>6, <2>7, <2>8 DEF Inv, Shape, Queue
    <2>10. c # 0
        BY CaseIsNumber
    <2>11. Holders(p)' = Holders(p) \cup {w} /\ w \notin Holders(p)
        BY <2>1, <2>2, <2>7, <2>10, HoldersAreThreads DEF Holders, Holds
    <2>12. Uncounted(p)' = Uncounted(p)
        BY <2>1, <2>7, <2>11, HoldersAreThreads DEF Uncounted
    <2>13. Cardinality(Holders(p)') = n
        BY <2>1, <2>2, <2>5, <2>11, HoldersAreThreads, ThreadsAreCounted DEF PanelOK
    <2>14. (\A t \in Holders(p)' : thread'[t].at # "gone") => \A t \in Holders(p) : thread[t].at # "gone"
        BY <2>7, <2>11, HoldersAreThreads
    <2>15. PanelOK(p)'
        BY <1>1, <2>2, <2>3, <2>6, <2>8, <2>12, <2>13, <2>14 DEF PanelOK
    <2>16. ASSUME NEW t \in Threads, thread'[t] # thread[t] \/ thread'[t].panel = p
           PROVE  ThreadOK(t)' /\ FinishesAlone(t)'
        <3>1. CASE t = w
            BY <2>1, <2>2, <2>7, <2>10, <3>1 DEF ThreadOK, FinishesAlone, Running, Finishing
        <3>2. CASE t # w
            <4>1. thread'[t] = thread[t] /\ thread[t].panel = p
                BY <2>7, <2>16, <3>2
            <4> QED
                BY <1>1, <2>4, <4>1 DEF ThreadOK, FinishesAlone, Finishing
        <3> QED
            BY <3>1, <3>2
    <2>17. Concerns(p)
        BY <1>1, <2>1, <2>6, <2>7, <2>8 DEF Concerns
    <2>18. permits' + Cardinality(Pending') = Capacity
        BY <1>1 DEF Inv, Pending
    <2> QED
        BY <2>2, <2>9, <2>15, <2>16, <2>17, <2>18, PanelStep
<1> QED
    BY <1>2, <1>3, <1>4 DEF Take

-----------------------------------------------------------------------------
(***************************************************************************)
(* A thread that finishes a panel is alone with it, and every case that    *)
(* was folded is counted.                                                  *)
(***************************************************************************)
LEMMA FinishingAlone ==
    ASSUME Inv, NEW t \in Threads, thread[t].at \in Finishing
    PROVE  LET p == thread[t].panel IN
           /\ p \in Panels /\ p # NoPanel /\ work[p] \in Work /\ PanelOK(p)
           /\ thread[t] \in Thread /\ thread[t].case = 0 /\ ThreadOK(t)
           /\ future[p] = "pending" /\ p \notin ToSet(runnable)
           /\ \A u \in Threads \ {t} : thread[u].panel # p
           /\ Holders(p) = {} /\ Uncounted(p) = {} /\ work[p].running = 0
           /\ work[p].completed = Cardinality(work[p].folded)
<1> DEFINE p == thread[t].panel
<1>1. ThreadOK(t) /\ FinishesAlone(t) /\ thread[t] \in Thread
    BY DEF Inv, Shape
<1>2. p # NoPanel /\ thread[t].case = 0 /\ p \in Panels
    BY <1>1 DEF ThreadOK, Thread
<1>3. p \notin ToSet(runnable) /\ \A u \in Threads \ {t} : thread[u].panel # p
    BY <1>1, <1>2 DEF FinishesAlone
<1>4. work[p] \in Work /\ PanelOK(p)
    BY <1>2 DEF Inv, Shape
<1>5. Holders(p) = {} /\ Uncounted(p) = {}
    BY <1>2, <1>3 DEF Holders, Holds, Uncounted
<1>6. Cardinality({}) = 0
    BY FS_EmptySet
<1>7. work[p].running = 0 /\ work[p].completed = Cardinality(work[p].folded)
    <2>1. work[p].completed \in Nat /\ Cardinality(work[p].folded) \in Nat
        BY <1>4, CasesAreCounted DEF Work
    <2> QED
        BY <1>4, <1>5, <1>6, <2>1 DEF PanelOK
<1>8. future[p] = "pending"
    BY <1>4 DEF PanelOK
<1> QED
    BY <1>1, <1>2, <1>3, <1>4, <1>5, <1>7, <1>8

LEMMA ServeStep ==
    ASSUME Inv, NEW t \in Threads, thread[t].at \in Finishing,
           NEW p \in Panels, thread[t].panel = p,
           \A u \in Threads \ {t} : thread'[u] = thread[u],
           thread'[t].panel \in {p, NoPanel}, thread'[t].case = 0,
           \A q \in Panels \ {p} : /\ work'[q] = work[q] /\ future'[q] = future[q]
                                   /\ checkpoint'[q] = checkpoint[q],
           files' = files, result \subseteq result', runnable' = runnable, Shape',
           work'[p].running = work[p].running, work'[p].completed = work[p].completed,
           work'[p].folded = work[p].folded,
           future'[p] # "pending" => thread'[t].panel = NoPanel,
           future'[p] = "complete" => OnDisk(p)',
           ThreadOK(t)', permits' + Cardinality(Pending') = Capacity
    PROVE  Inv'
<1>1. /\ p # NoPanel /\ PanelOK(p) /\ p \notin ToSet(runnable)
      /\ \A u \in Threads \ {t} : thread[u].panel # p
      /\ Holders(p) = {} /\ Uncounted(p) = {}
    BY FinishingAlone
<1>2. Concerns(p)
    BY DEF Concerns
<1>3. Holders(p)' = {} /\ Uncounted(p)' = {}
    BY <1>1 DEF Holders, Holds, Uncounted
<1>4. PanelOK(p)'
    BY <1>1, <1>3 DEF PanelOK
<1>5. FinishesAlone(t)'
    BY <1>1 DEF FinishesAlone
<1>6. \A u \in Threads : thread'[u] # thread[u] \/ thread'[u].panel = p => u = t
    BY <1>1
<1> QED
    BY <1>2, <1>4, <1>5, <1>6, PanelStep

\* The place of a thread that finishes a panel.
LEMMA Moved ==
    ASSUME Inv, NEW t \in Threads, NEW x \in Places, Goto(t, x)
    PROVE  /\ thread' \in [Threads -> Thread] /\ \A u \in Threads \ {t} : thread'[u] = thread[u]
           /\ thread'[t].at = x /\ thread'[t].panel = thread[t].panel
           /\ thread'[t].case = thread[t].case /\ thread'[t].folded = thread[t].folded
<1>1. thread \in [Threads -> Thread] /\ thread[t] \in Thread
    BY DEF Inv, Shape
<1>2. /\ thread'[t] = [thread[t] EXCEPT !.at = x]
      /\ \A u \in Threads \ {t} : thread'[u] = thread[u]
    BY <1>1 DEF Goto
<1>3. /\ thread'[t] \in Thread
      /\ thread'[t].at = x /\ thread'[t].panel = thread[t].panel
      /\ thread'[t].case = thread[t].case /\ thread'[t].folded = thread[t].folded
    BY <1>1, <1>2 DEF Thread
<1>4. thread' \in [Threads -> Thread]
    BY <1>1, <1>2, <1>3 DEF Goto
<1> QED
    BY <1>2, <1>3, <1>4

LEMMA WholeIsFolded ==
    ASSUME Inv, NEW t \in Threads, thread[t].at \in Finishing, Whole(thread[t].panel)
    PROVE  /\ work[thread[t].panel].folded = Cases /\ files[thread[t].panel] = Cases
           /\ ~work[thread[t].panel].failed
<1> DEFINE p == thread[t].panel
<1>1. /\ work[p].completed = Cardinality(work[p].folded) /\ work[p].folded \subseteq files[p]
      /\ work[p].folded \in SUBSET Cases /\ p \in Panels
    BY FinishingAlone DEF PanelOK, Work
<1>2. work[p].folded = Cases
    BY <1>1, CasesAreCounted DEF Whole
<1>3. files[p] \subseteq Cases
    BY <1>1 DEF Inv, Shape
<1> QED
    BY <1>1, <1>2, <1>3 DEF Whole

LEMMA FinishWorkKeepsInv == ASSUME Inv, NEW t \in Threads, FinishWork(t) PROVE Inv'
<1>1. thread[t].at \in Finishing /\ "resolve" \in Places /\ Goto(t, "resolve")
    BY DEF FinishWork, Finishing, Places
<1>2. PICK p \in Panels : p = thread[t].panel
    BY <1>1, FinishingAlone
<1>3. /\ p # NoPanel /\ work[p] \in Work /\ PanelOK(p)
      /\ thread[t].case = 0 /\ ThreadOK(t) /\ future[p] = "pending"
    BY <1>1, <1>2, FinishingAlone
<1>4. /\ work' = [work EXCEPT ![p].failed = ~Whole(p), ![p].dirty = 0]
      /\ checkpoint' = [checkpoint EXCEPT
                ![p] = IF Whole(p) \/ work[p].dirty > 0 THEN work[p].folded ELSE checkpoint[p]]
      /\ result' = Finalize(p)
      /\ files' = files /\ runnable' = runnable /\ future' = future
      /\ permits' = permits /\ closing' = closing
    BY <1>2 DEF FinishWork
<1>5. /\ work'[p] \in Work /\ \A q \in Panels \ {p} : work'[q] = work[q]
      /\ work'[p].running = work[p].running /\ work'[p].completed = work[p].completed
      /\ work'[p].folded = work[p].folded
      /\ ~work'[p].failed => Whole(p)
    <2> PICK none \in Nat : none = 0
        OBVIOUS
    <2>1. work \in [Panels -> Work]
        BY DEF Inv, Shape
    <2>2. /\ work'[p] = [work[p] EXCEPT !.failed = ~Whole(p), !.dirty = none]
          /\ \A q \in Panels \ {p} : work'[q] = work[q]
        BY <1>4, <2>1
    <2>3. CASE Whole(p)
        <3>1. (~Whole(p)) = FALSE
            BY <2>3
        <3>2. work'[p] = [work[p] EXCEPT !.failed = FALSE, !.dirty = none]
            BY <2>2, <3>1, Zenon
        <3>3. /\ work'[p] \in Work
              /\ work'[p].running = work[p].running /\ work'[p].completed = work[p].completed
              /\ work'[p].folded = work[p].folded /\ ~work'[p].failed
            BY <1>3, <3>2 DEF Work
        <3> QED
            BY <2>2, <2>3, <3>3
    <2>4. CASE ~Whole(p)
        <3>1. (~Whole(p)) = TRUE
            BY <2>4
        <3>2. work'[p] = [work[p] EXCEPT !.failed = TRUE, !.dirty = none]
            BY <2>2, <3>1, Zenon
        <3>3. /\ work'[p] \in Work
              /\ work'[p].running = work[p].running /\ work'[p].completed = work[p].completed
              /\ work'[p].folded = work[p].folded /\ work'[p].failed
            BY <1>3, <3>2 DEF Work
        <3> QED
            BY <2>2, <3>3
    <2> QED
        BY <2>3, <2>4
<1>6. work' \in [Panels -> Work]
    BY <1>4, <1>5 DEF Inv, Shape
<1>7. /\ checkpoint' \in [Panels -> SUBSET Cases]
      /\ \A q \in Panels \ {p} : checkpoint'[q] = checkpoint[q]
      /\ Whole(p) => checkpoint'[p] = work[p].folded
    BY <1>3, <1>4 DEF Inv, Shape, Work
<1>8. /\ result \subseteq result' /\ result' \subseteq Finalized
      /\ Whole(p) => (p \in Finalized => p \in result')
    BY <1>4 DEF Finalize, Inv, Shape
<1>9. /\ thread' \in [Threads -> Thread] /\ \A u \in Threads \ {t} : thread'[u] = thread[u]
      /\ thread'[t].at = "resolve" /\ thread'[t].panel = thread[t].panel
      /\ thread'[t].case = thread[t].case /\ thread'[t].folded = thread[t].folded
    BY <1>1, Moved
<1>10. Shape'
    BY <1>4, <1>6, <1>7, <1>8, <1>9 DEF Inv, Shape
<1>11. Whole(p) => OnDisk(p)'
    BY <1>1, <1>2, <1>4, <1>7, <1>8, WholeIsFolded DEF OnDisk
<1>12. ThreadOK(t)'
    BY <1>1, <1>2, <1>3, <1>5, <1>9, <1>11 DEF ThreadOK, Running, Finishing
<1>13. permits' + Cardinality(Pending') = Capacity
    BY <1>4 DEF Inv, Pending
<1>14. /\ \A q \in Panels \ {p} : /\ work'[q] = work[q] /\ future'[q] = future[q]
                                    /\ checkpoint'[q] = checkpoint[q]
       /\ future'[p] # "pending" => thread'[t].panel = NoPanel
       /\ future'[p] = "complete" => OnDisk(p)'
    BY <1>3, <1>4, <1>5, <1>7
<1> QED
    BY <1>1, <1>2, <1>3, <1>4, <1>5, <1>8, <1>9, <1>10, <1>12, <1>13, <1>14, ServeStep, ZenonT(30)

LEMMA FinishRaisesKeepsInv == ASSUME Inv, NEW t \in Threads, FinishRaises(t) PROVE Inv'
<1>1. thread[t].at \in Finishing /\ "resolve" \in Places /\ Goto(t, "resolve")
    BY DEF FinishRaises, Finishing, Places
<1>2. PICK p \in Panels : p = thread[t].panel
    BY <1>1, FinishingAlone
<1>3. /\ p # NoPanel /\ work[p] \in Work /\ PanelOK(p)
      /\ thread[t].case = 0 /\ ThreadOK(t) /\ future[p] = "pending"
    BY <1>1, <1>2, FinishingAlone
<1>4. /\ work' = [work EXCEPT ![p].failed = TRUE]
      /\ checkpoint' = checkpoint \/ checkpoint' = [checkpoint EXCEPT ![p] = work[p].folded]
      /\ result' = result /\ files' = files /\ runnable' = runnable /\ future' = future
      /\ permits' = permits /\ closing' = closing
    BY <1>2 DEF FinishRaises
<1>5. /\ work' \in [Panels -> Work] /\ \A q \in Panels \ {p} : work'[q] = work[q]
      /\ work'[p].running = work[p].running /\ work'[p].completed = work[p].completed
      /\ work'[p].folded = work[p].folded /\ work'[p].failed
    <2>1. work \in [Panels -> Work]
        BY DEF Inv, Shape
    <2>2. /\ work'[p] = [work[p] EXCEPT !.failed = TRUE]
          /\ \A q \in Panels \ {p} : work'[q] = work[q]
        BY <1>4, <2>1
    <2>3. /\ work'[p] \in Work
          /\ work'[p].running = work[p].running /\ work'[p].completed = work[p].completed
          /\ work'[p].folded = work[p].folded /\ work'[p].failed
        BY <1>3, <2>2 DEF Work
    <2> QED
        BY <1>4, <2>1, <2>2, <2>3
<1>6. /\ checkpoint' \in [Panels -> SUBSET Cases]
      /\ \A q \in Panels \ {p} : checkpoint'[q] = checkpoint[q]
    BY <1>3, <1>4 DEF Inv, Shape, Work
<1>7. /\ thread' \in [Threads -> Thread] /\ \A u \in Threads \ {t} : thread'[u] = thread[u]
      /\ thread'[t].at = "resolve" /\ thread'[t].panel = thread[t].panel
      /\ thread'[t].case = thread[t].case /\ thread'[t].folded = thread[t].folded
    BY <1>1, Moved
<1>8. Shape'
    BY <1>4, <1>5, <1>6, <1>7 DEF Inv, Shape
<1>9. ThreadOK(t)'
    BY <1>1, <1>2, <1>3, <1>5, <1>7 DEF ThreadOK, Running, Finishing
<1>10. permits' + Cardinality(Pending') = Capacity
    BY <1>4 DEF Inv, Pending
<1> QED
    BY <1>1, <1>2, <1>3, <1>4, <1>5, <1>6, <1>7, <1>8, <1>9, <1>10, ServeStep

\* A future that is set, or taken back, gives its permit back.
LEMMA Resolved ==
    ASSUME Inv, NEW p \in Panels, future[p] = "pending", NEW x \in Futures \ {"pending"},
           future' = [future EXCEPT ![p] = x], permits' = permits + 1
    PROVE  /\ future' \in [Panels -> Futures] /\ future'[p] = x
           /\ \A q \in Panels \ {p} : future'[q] = future[q]
           /\ permits' \in Nat /\ permits' + Cardinality(Pending') = Capacity
<1>1. future \in [Panels -> Futures] /\ permits \in Nat
    BY DEF Inv, Shape
<1>2. /\ future' \in [Panels -> Futures] /\ future'[p] = x
      /\ \A q \in Panels \ {p} : future'[q] = future[q]
    BY <1>1
<1>3. Pending' = Pending \ {p} /\ p \in Pending /\ Pending \in SUBSET Panels
    BY <1>2 DEF Pending
<1>4. Cardinality(Pending') = Cardinality(Pending) - 1 /\ Cardinality(Pending) \in Nat
    BY <1>3, PanelsAreCounted
<1>5. permits + Cardinality(Pending) = Capacity /\ Capacity \in Nat
    BY PoolAssumption DEF Inv
<1> QED
    BY <1>1, <1>2, <1>4, <1>5

\* The thread has nothing more to do.
LEMMA Released ==
    ASSUME Inv, NEW t \in Threads, thread' = [thread EXCEPT ![t] = IdleThread]
    PROVE  /\ thread' \in [Threads -> Thread] /\ \A u \in Threads \ {t} : thread'[u] = thread[u]
           /\ thread'[t].at = "idle" /\ thread'[t].panel = NoPanel
           /\ thread'[t].case = 0 /\ ~thread'[t].folded /\ ThreadOK(t)'
<1>1. thread \in [Threads -> Thread]
    BY DEF Inv, Shape
<1>2. /\ thread'[t] = IdleThread /\ \A u \in Threads \ {t} : thread'[u] = thread[u]
      /\ thread' \in [Threads -> Thread]
    BY <1>1, IdleIsTyped
<1>3. /\ IdleThread.at = "idle" /\ IdleThread.panel = NoPanel
      /\ IdleThread.case = 0 /\ ~IdleThread.folded
    BY DEF IdleThread
<1> QED
    BY <1>2, <1>3 DEF ThreadOK, Running, Finishing

LEMMA ResolveKeepsInv == ASSUME Inv, NEW t \in Threads, Resolve(t) PROVE Inv'
<1>1. thread[t].at \in Finishing /\ thread[t].at = "resolve"
    BY DEF Resolve, Finishing
<1>2. PICK p \in Panels : p = thread[t].panel
    BY <1>1, FinishingAlone
<1>3. future[p] = "pending" /\ ThreadOK(t)
    BY <1>1, <1>2, FinishingAlone
<1>4. PICK x \in Futures \ {"pending"} : x = Outcome(p)
    BY DEF Futures, Outcome
<1>5. x = "complete" => OnDisk(p)
    BY <1>1, <1>2, <1>3, <1>4 DEF Outcome, ThreadOK
<1>6. /\ future' = [future EXCEPT ![p] = x] /\ permits' = permits + 1
      /\ thread' = [thread EXCEPT ![t] = IdleThread]
      /\ files' = files /\ checkpoint' = checkpoint /\ result' = result
      /\ runnable' = runnable /\ work' = work /\ closing' = closing
    BY <1>2, <1>4 DEF Resolve, durable
<1>7. /\ future' \in [Panels -> Futures] /\ future'[p] = x
      /\ \A q \in Panels \ {p} : future'[q] = future[q]
      /\ permits' \in Nat /\ permits' + Cardinality(Pending') = Capacity
    BY <1>3, <1>6, Resolved
<1>8. /\ thread' \in [Threads -> Thread] /\ \A u \in Threads \ {t} : thread'[u] = thread[u]
      /\ thread'[t].panel = NoPanel /\ thread'[t].case = 0 /\ ThreadOK(t)'
    BY <1>6, Released
<1>9. Shape'
    BY <1>6, <1>7, <1>8 DEF Inv, Shape
<1>10. future'[p] = "complete" => OnDisk(p)'
    BY <1>5, <1>6, <1>7 DEF OnDisk
<1>11. /\ \A q \in Panels \ {p} : /\ work'[q] = work[q] /\ future'[q] = future[q]
                                  /\ checkpoint'[q] = checkpoint[q]
       /\ work'[p].running = work[p].running /\ work'[p].completed = work[p].completed
       /\ work'[p].folded = work[p].folded /\ result \subseteq result'
    BY <1>6, <1>7
<1> QED
    BY <1>1, <1>2, <1>6, <1>7, <1>8, <1>9, <1>10, <1>11, ServeStep

LEMMA FinishAndDieKeepsInv == ASSUME Inv, NEW t \in Threads, FinishAndDie(t) PROVE Inv'
<1>1. thread[t].at \in Finishing /\ thread[t].at = "resolve"
    BY DEF FinishAndDie, Finishing
<1>2. PICK p \in Panels : p = thread[t].panel
    BY <1>1, FinishingAlone
<1>3. future[p] = "pending" /\ ThreadOK(t) /\ thread[t].case = 0
    BY <1>1, <1>2, FinishingAlone
<1>4. /\ files' = files /\ checkpoint' = checkpoint /\ result' = result
      /\ runnable' = runnable /\ work' = work
    BY DEF FinishAndDie, durable
<1>5. CASE t = Main
    <2>1. /\ future' = [future EXCEPT ![p] = "none"] /\ permits' = permits + 1
          /\ thread' = [thread EXCEPT ![t] = IdleThread] /\ closing' = "drain"
        BY <1>2, <1>5 DEF FinishAndDie
    <2>2. /\ future' \in [Panels -> Futures] /\ future'[p] = "none"
          /\ \A q \in Panels \ {p} : future'[q] = future[q]
          /\ permits' \in Nat /\ permits' + Cardinality(Pending') = Capacity
        BY <1>3, <2>1, Resolved DEF Futures
    <2>3. /\ thread' \in [Threads -> Thread] /\ \A u \in Threads \ {t} : thread'[u] = thread[u]
          /\ thread'[t].panel = NoPanel /\ thread'[t].case = 0 /\ ThreadOK(t)'
        BY <2>1, Released
    <2>4. Shape'
        BY <1>4, <2>1, <2>2, <2>3 DEF Inv, Shape
    <2>5. /\ \A q \in Panels \ {p} : /\ work'[q] = work[q] /\ future'[q] = future[q]
                                     /\ checkpoint'[q] = checkpoint[q]
          /\ work'[p].running = work[p].running /\ work'[p].completed = work[p].completed
          /\ work'[p].folded = work[p].folded /\ result \subseteq result'
        BY <1>4, <2>2
    <2> QED
        BY <1>1, <1>2, <1>4, <2>2, <2>3, <2>4, <2>5, ServeStep
<1>6. CASE t # Main
    <2>1. Goto(t, "gone") /\ permits' = permits /\ closing' = closing /\ future' = future
        BY <1>6 DEF FinishAndDie
    <2>2. /\ thread' \in [Threads -> Thread] /\ \A u \in Threads \ {t} : thread'[u] = thread[u]
          /\ thread'[t].at = "gone" /\ thread'[t].panel = thread[t].panel
          /\ thread'[t].case = thread[t].case /\ thread'[t].folded = thread[t].folded
        BY <2>1, Ended
    <2>3. Shape'
        BY <1>4, <2>1, <2>2 DEF Inv, Shape
    <2>4. ThreadOK(t)'
        BY <1>2, <1>3, <1>4, <1>6, <2>2 DEF ThreadOK, Running, Finishing
    <2>5. permits' + Cardinality(Pending') = Capacity
        BY <2>1 DEF Inv, Pending
    <2>6. /\ \A q \in Panels \ {p} : /\ work'[q] = work[q] /\ future'[q] = future[q]
                                     /\ checkpoint'[q] = checkpoint[q]
          /\ work'[p].running = work[p].running /\ work'[p].completed = work[p].completed
          /\ work'[p].folded = work[p].folded /\ result \subseteq result'
          /\ thread'[t].panel \in {p, NoPanel} /\ thread'[t].case = 0
          /\ future'[p] # "pending" => thread'[t].panel = NoPanel
          /\ future'[p] = "complete" => OnDisk(p)'
        BY <1>2, <1>3, <1>4, <2>1, <2>2
    <2> QED
        BY <1>1, <1>2, <1>4, <2>2, <2>3, <2>4, <2>5, <2>6, ServeStep
<1> QED
    BY <1>5, <1>6

-----------------------------------------------------------------------------
(***************************************************************************)
(* The search thread, and a new process.                                   *)
(***************************************************************************)

LEMMA SubmitRaisesKeepsInv == ASSUME Inv, NEW p \in Panels, SubmitRaises(p) PROVE Inv'
<1>1. /\ UNCHANGED <<durable, runnable, work, future, permits, thread>> /\ closing' = "drain"
    BY DEF SubmitRaises
<1> QED
    BY <1>1, QueueStep DEF durable, Inv, Shape, Queue

LEMMA CloseKeepsInv == ASSUME Inv, NEW how \in {"drain", "force"}, Close(how) PROVE Inv'
<1>1. Queue(<<>>) /\ ToSet(<<>>) = {}
    BY EmptySeq DEF Queue, IsInjective, ToSet
<1>2. Queue(runnable') /\ ToSet(runnable') \subseteq ToSet(runnable)
    BY <1>1 DEF Close, Inv, Shape, Queue
<1>3. UNCHANGED <<durable, work, future, permits, thread>> /\ closing' \in {"no", "drain", "force"}
    BY DEF Close
<1> QED
    BY <1>2, <1>3, QueueStep DEF durable

LEMMA SubmitKeepsInv == ASSUME Inv, NEW p \in Panels, Submit(p) PROVE Inv'
<1>1. /\ Main \in Threads /\ thread[Main].at = "idle" /\ thread[Main].panel = NoPanel
      /\ p # NoPanel /\ PanelOK(p)
    BY ThreadsAreFinite, IdleIsTyped DEF Submit, Inv, ThreadOK
<1>2. future[p] = "none" /\ permits > 0
    BY DEF Submit
<1>3. /\ \A t \in Threads : thread[t].panel # p
      /\ p \notin ToSet(runnable)
    BY <1>1, <1>2 DEF PanelOK
<1>4. Bootstrapped(p) = files[p] /\ files[p] \in SUBSET Cases /\ Missing(p) \in SUBSET Cases
    BY DEF Bootstrapped, Restored, Missing, Inv, Shape
<1>5. /\ permits' = permits - 1
      /\ checkpoint' = [checkpoint EXCEPT ![p] = IF files[p] # {} THEN files[p] ELSE checkpoint[p]]
      /\ work' = [work EXCEPT ![p] = [NoWork EXCEPT !.remaining = Missing(p),
                                                     !.completed = Cardinality(files[p]),
                                                     !.folded = files[p]]]
      /\ future' = [future EXCEPT ![p] = "pending"]
      /\ files' = files /\ result' = result /\ closing' = closing
    BY <1>4 DEF Submit
<1>6. PICK n \in Nat : n = Cardinality(files[p])
    BY <1>4, CasesAreCounted
<1>7. /\ work' \in [Panels -> Work] /\ \A q \in Panels \ {p} : work'[q] = work[q]
      /\ work'[p].running = 0 /\ work'[p].completed = n /\ work'[p].folded = files[p]
      /\ work'[p].remaining = Missing(p) /\ ~work'[p].failed
    <2>1. work \in [Panels -> Work]
        BY DEF Inv, Shape
    <2>2. /\ work'[p] = [NoWork EXCEPT !.remaining = Missing(p), !.completed = n, !.folded = files[p]]
          /\ \A q \in Panels \ {p} : work'[q] = work[q]
        BY <1>5, <1>6, <2>1
    <2>3. NoWork \in Work /\ NoWork.running = 0 /\ ~NoWork.failed
        BY NoWorkIsTyped DEF NoWork
    <2>4. /\ work'[p] \in Work /\ work'[p].running = NoWork.running
          /\ work'[p].completed = n /\ work'[p].folded = files[p]
          /\ work'[p].remaining = Missing(p) /\ work'[p].failed = NoWork.failed
        BY <1>4, <2>2, <2>3 DEF Work
    <2> QED
        BY <1>5, <2>1, <2>2, <2>3, <2>4
<1>8. /\ \A q \in Panels \ {p} : checkpoint'[q] = checkpoint[q] /\ future'[q] = future[q]
      /\ future'[p] = "pending" /\ future' \in [Panels -> Futures]
      /\ checkpoint' \in [Panels -> SUBSET Cases]
    BY <1>4, <1>5 DEF Inv, Shape, Futures
<1>9. /\ Queue(runnable')
      /\ \A q \in Panels \ {p} : q \in ToSet(runnable') => q \in ToSet(runnable)
      /\ p \in ToSet(runnable') => Missing(p) # {} /\ thread' = thread
      /\ thread' = thread \/
         (thread' = [thread EXCEPT ![Main] = [IdleThread EXCEPT !.at = "finish", !.panel = p]]
           /\ runnable' = runnable)
    <2>1. Queue(runnable)
        BY DEF Inv, Shape, Queue
    <2>2. CASE Missing(p) # {}
        <3>1. runnable' = Append(runnable, p) /\ thread' = thread
            BY <2>2 DEF Submit
        <3> QED
            BY <1>3, <2>1, <2>2, <3>1, Appended
    <2>3. CASE Missing(p) = {}
        <3>1. /\ runnable' = runnable
              /\ thread' = [thread EXCEPT ![Main] = [IdleThread EXCEPT !.at = "finish", !.panel = p]]
            BY <2>3 DEF Submit
        <3> QED
            BY <1>3, <2>1, <2>3, <3>1
    <2> QED
        BY <2>2, <2>3
<1>10. /\ thread' \in [Threads -> Thread] /\ \A t \in Threads \ {Main} : thread'[t] = thread[t]
       /\ \/ thread' = thread
          \/ /\ thread'[Main].at = "finish" /\ thread'[Main].panel = p /\ thread'[Main].case = 0
             /\ ~thread'[Main].folded /\ p \notin ToSet(runnable')
    <2>1. thread \in [Threads -> Thread]
        BY DEF Inv, Shape
    <2>2. CASE thread' = thread
        BY <2>1, <2>2
    <2>3. CASE /\ thread' = [thread EXCEPT ![Main] = [IdleThread EXCEPT !.at = "finish", !.panel = p]]
               /\ runnable' = runnable
        <3>1. /\ thread'[Main] = [at |-> "finish", panel |-> p, case |-> 0, folded |-> FALSE]
              /\ \A t \in Threads \ {Main} : thread'[t] = thread[t]
            BY <1>1, <2>1, <2>3 DEF IdleThread
        <3>2. thread'[Main] \in Thread
            BY <3>1 DEF Thread, Places
        <3>3. thread' \in [Threads -> Thread]
            BY <1>1, <2>1, <2>3, <3>1, <3>2
        <3>4. /\ thread'[Main].at = "finish" /\ thread'[Main].panel = p
              /\ thread'[Main].case = 0 /\ ~thread'[Main].folded
            BY <3>1
        <3>5. p \notin ToSet(runnable')
            BY <1>3, <2>3
        <3> QED
            BY <3>1, <3>3, <3>4, <3>5
    <2> QED
        BY <1>9, <2>2, <2>3
<1>11. permits' \in Nat /\ permits' + Cardinality(Pending') = Capacity
    <2>1. permits \in Nat /\ permits + Cardinality(Pending) = Capacity /\ Capacity \in Nat
        BY PoolAssumption DEF Inv, Shape
    <2>2. Pending' = Pending \cup {p} /\ p \notin Pending /\ Pending \in SUBSET Panels
        BY <1>2, <1>8 DEF Pending
    <2>3. Cardinality(Pending') = Cardinality(Pending) + 1 /\ Cardinality(Pending) \in Nat
        BY <2>2, PanelsAreCounted
    <2> QED
        BY <1>2, <1>5, <2>1, <2>3
<1>12. Shape'
    BY <1>5, <1>7, <1>8, <1>9, <1>10, <1>11 DEF Inv, Shape, Queue
<1>13. Holders(p)' = {} /\ Uncounted(p)' = {}
    BY <1>3, <1>10 DEF Holders, Holds, Uncounted
<1>14. PanelOK(p)'
    <2>1. Cardinality({}) = 0
        BY FS_EmptySet
    <2>2. \A t \in Holders(p)' : FALSE
        BY <1>13
    <2>3. Cardinality(Holders(p)') = 0 /\ Cardinality(Uncounted(p)') = 0
        BY <1>13, <2>1
    <2> QED
        BY <1>5, <1>6, <1>7, <1>8, <1>9, <2>3 DEF PanelOK
<1>15. ASSUME NEW t \in Threads, thread'[t] # thread[t] \/ thread'[t].panel = p
       PROVE  ThreadOK(t)' /\ FinishesAlone(t)'
    <2>1. /\ t = Main /\ thread'[t].at = "finish" /\ thread'[t].panel = p /\ thread'[t].case = 0
          /\ ~thread'[t].folded /\ p \notin ToSet(runnable')
        BY <1>3, <1>10, <1>15
    <2> QED
        BY <1>1, <1>3, <1>10, <2>1 DEF ThreadOK, FinishesAlone, Running, Finishing
<1>16. Concerns(p)
    BY <1>1, <1>5, <1>7, <1>8, <1>9, <1>10 DEF Concerns
<1> QED
    BY <1>11, <1>12, <1>14, <1>15, <1>16, PanelStep

\* A process that has just started, whatever it finds on the disk.
Fresh ==
    /\ files \in [Panels -> SUBSET Cases] /\ checkpoint \in [Panels -> SUBSET Cases]
    /\ result \subseteq Finalized
    /\ runnable = <<>> /\ work = IdleWork /\ future = NoFuture /\ permits = Capacity
    /\ closing = "no" /\ thread = IdleThreads

LEMMA FreshIsSound == Fresh => Inv
<1> SUFFICES ASSUME Fresh PROVE Inv
    OBVIOUS
<1> USE DEF Fresh
<1>1. Capacity \in Nat
    BY PoolAssumption
<1>2. Queue(runnable) /\ ToSet(runnable) = {}
    BY EmptySeq DEF Queue, IsInjective, ToSet
<1>3. /\ work \in [Panels -> Work] /\ thread \in [Threads -> Thread] /\ future \in [Panels -> Futures]
      /\ \A p \in Panels : work[p] = NoWork /\ future[p] = "none"
      /\ \A t \in Threads : thread[t] = IdleThread
    BY NoWorkIsTyped, IdleIsTyped DEF IdleWork, IdleThreads, NoFuture, Futures
<1>4. Shape
    BY <1>1, <1>2, <1>3 DEF Shape, Queue
<1>5. /\ IdleThread.at = "idle" /\ IdleThread.panel = NoPanel
      /\ IdleThread.case = 0 /\ ~IdleThread.folded
    BY DEF IdleThread
<1>6. ASSUME NEW t \in Threads PROVE ThreadOK(t) /\ FinishesAlone(t)
    BY <1>3, <1>5 DEF ThreadOK, FinishesAlone, Running, Finishing
<1>7. ASSUME NEW p \in Panels PROVE PanelOK(p)
    <2>1. Holders(p) = {} /\ Uncounted(p) = {} /\ \A t \in Threads : thread[t].panel # p
        BY <1>3, <1>5, IdleIsTyped DEF Holders, Holds, Uncounted
    <2>2. NoWork.running = 0 /\ NoWork.completed = 0 /\ NoWork.folded = {}
        BY DEF NoWork
    <2>3. Cardinality({}) = 0
        BY FS_EmptySet
    <2>4. work[p] = NoWork /\ future[p] = "none" /\ p \notin ToSet(runnable)
        BY <1>2, <1>3
    <2>5. /\ Cardinality(Holders(p)) = 0 /\ Cardinality(Uncounted(p)) = 0
          /\ work[p].running = 0 /\ work[p].completed = 0 /\ work[p].folded = {}
          /\ Cardinality(work[p].folded) = 0
        BY <2>1, <2>2, <2>3, <2>4
    <2> QED
        BY <2>1, <2>4, <2>5 DEF PanelOK
<1>8. Cardinality(Pending) = 0
    <2>1. Pending = {}
        BY <1>3 DEF Pending
    <2> QED
        BY <2>1, FS_EmptySet
<1> QED
    BY <1>1, <1>4, <1>6, <1>7, <1>8 DEF Inv

-----------------------------------------------------------------------------
(* The evaluator pool keeps its invariant: at every moment each panel is
   accounted for by the threads that have it.                                 *)
THEOREM Invariant == Spec => []Inv
<1>1. Init => Inv
    BY FreshIsSound DEF Init, Fresh
<1>2. Inv /\ [Next]_vars => Inv'
    <2> SUFFICES ASSUME Inv, [Next]_vars PROVE Inv'
        OBVIOUS
    <2>1. ASSUME NEW p \in Panels, Submit(p) \/ SubmitRaises(p) PROVE Inv'
        BY <2>1, SubmitKeepsInv, SubmitRaisesKeepsInv
    <2>2. ASSUME NEW how \in {"drain", "force"}, Close(how) PROVE Inv'
        BY <2>2, CloseKeepsInv
    <2>3. ASSUME NEW t \in Threads, Serve(t) PROVE Inv'
        BY <2>3, FinishWorkKeepsInv, FinishRaisesKeepsInv, ResolveKeepsInv, FinishAndDieKeepsInv
           DEF Serve
    <2>4. ASSUME NEW w \in Workers, Worker(w) PROVE Inv'
        <3>1. CASE Leave(w) \/ Take(w)
            BY <3>1, LeaveKeepsInv, TakeKeepsInv
        <3>2. CASE Evaluate(w) \/ EvaluateRaises(w) \/ FoldRefused(w) \/ FinishedRaises(w)
            BY <3>2, EvaluateKeepsInv, ToFailKeepsInv
        <3>3. CASE Fold(w) \/ CheckpointRaises(w)
            BY <3>3, FoldKeepsInv, CheckpointRaisesKeepsInv
        <3>4. CASE Fail(w) \/ FailAndDie(w) \/ Count(w) \/ CountAndDie(w)
            BY <3>4, FailKeepsInv, FailAndDieKeepsInv, CountKeepsInv, CountAndDieKeepsInv
        <3>5. CASE Serve(w)
            BY <2>3, <3>5, ThreadsAreFinite
        <3> QED
            BY <2>4, <3>1, <3>2, <3>3, <3>4, <3>5 DEF Worker
    <2>5. CASE Restart
        <3>1. /\ files' \in [Panels -> SUBSET Cases] /\ checkpoint' \in [Panels -> SUBSET Cases]
              /\ result' \subseteq Finalized
            BY <2>5 DEF Restart, durable, Inv, Shape
        <3>2. /\ runnable' = <<>> /\ work' = IdleWork /\ future' = NoFuture /\ permits' = Capacity
              /\ closing' = "no" /\ thread' = IdleThreads
            BY <2>5 DEF Restart
        <3>3. Fresh'
            BY <3>1, <3>2 DEF Fresh
        <3>4. Fresh' => Inv'
            BY FreshIsSound, PTL
        <3> QED
            BY <3>3, <3>4
    <2>6. CASE UNCHANGED vars
        BY <2>6, QueueStep DEF vars, durable, memory, Inv, Shape, Queue
    <2> QED
        BY <2>1, <2>2, <2>3, <2>4, <2>5, <2>6, ThreadsAreFinite DEF Next
<1> QED
    BY <1>1, <1>2, PTL DEF Spec

(* The state has its shape, no more cases of a panel run than there are workers,
   the queue holds a panel once, and the permits that are not free are those of
   the panels whose future is not set.                                        *)
THEOREM TypeCorrect == Spec => []TypeOK
<1>1. Inv => TypeOK
    <2> SUFFICES ASSUME Inv PROVE TypeOK
        OBVIOUS
    <2>1. ASSUME NEW p \in Panels
          PROVE  /\ work[p].remaining \subseteq Cases
                 /\ work[p].running \in 0..Cardinality(Workers)
                 /\ work[p].completed \in 0..Cardinality(Cases)
                 /\ work[p].folded \subseteq Cases
        <3>1. work[p] \in Work /\ PanelOK(p)
            BY DEF Inv, Shape
        <3>2. work[p].running = Cardinality(Holders(p)) /\ work[p].running \in Nat
            BY <3>1 DEF PanelOK, Work
        <3>3. Main \notin Holders(p)
            BY DEF Inv, ThreadOK, Holders, Holds, Finishing
        <3>4. Holders(p) \subseteq Workers
            BY <3>3, HoldersAreThreads DEF Threads
        <3>5. Cardinality(Holders(p)) <= Cardinality(Workers) /\ Cardinality(Workers) \in Nat
            BY <3>4, PoolAssumption, FS_Subset, FS_CardinalityType
        <3>6. /\ work[p].completed \in Nat /\ Cardinality(Uncounted(p)) \in Nat
              /\ work[p].folded \in SUBSET Cases
              /\ work[p].completed + Cardinality(Uncounted(p)) <= Cardinality(work[p].folded)
            BY <3>1, HoldersAreThreads, ThreadsAreCounted DEF PanelOK, Work
        <3>7. /\ Cardinality(work[p].folded) \in Nat /\ Cardinality(Cases) \in Nat
              /\ Cardinality(work[p].folded) <= Cardinality(Cases)
            BY <3>6, CasesAreCounted
        <3> QED
            BY <3>1, <3>2, <3>5, <3>6, <3>7 DEF Work
    <2>2. permits = Capacity - Cardinality(Pending)
        <3>1. Pending \in SUBSET Panels
            BY DEF Pending
        <3> QED
            BY <3>1, PanelsAreCounted, PoolAssumption DEF Inv, Shape
    <2>3. ToSet(runnable) \subseteq Panels
        BY LenProperties, ElementOfSeq DEF Inv, Shape, ToSet
    <2>4. \A t \in Threads : thread[t].at \in Places
        BY DEF Inv, Shape, Thread
    <2> QED
        BY <2>1, <2>2, <2>3, <2>4 DEF TypeOK, Inv, Shape, Futures, Pending
<1> QED
    BY <1>1, Invariant, PTL

(* When the future of a panel is set, no thread has a case of it or is about to
   finish it, and the queue does not offer it: what is committed on the answer
   of a panel is not changed by a late case.                                  *)
THEOREM Quiet == Spec => []QuietOnceResolved
<1>1. Inv => QuietOnceResolved
    BY DEF Inv, PanelOK, QuietOnceResolved, HoldsCaseOf
<1> QED
    BY <1>1, Invariant, PTL

(* What a resolved panel reports is on the disk: its count is the number of
   cases folded into its profile, each with its evaluation file, and a complete
   panel has all its files, its checkpoint and the result file it owes.       *)
THEOREM Durable == Spec => []OutcomeIsDurable
<1>1. Inv => OutcomeIsDurable
    <2> SUFFICES ASSUME Inv, NEW p \in Panels, future[p] \in {"complete", "failed"}
                 PROVE  /\ work[p].completed = Cardinality(work[p].folded)
                        /\ work[p].folded \subseteq files[p]
                        /\ future[p] = "complete" => OnDisk(p)
        BY DEF OutcomeIsDurable, OnDisk
    <2>1. PanelOK(p) /\ work[p] \in Work
        BY DEF Inv, Shape
    <2>2. \A t \in Threads : thread[t].panel # p
        BY <2>1 DEF PanelOK
    <2>3. Holders(p) = {} /\ Uncounted(p) = {}
        BY <2>2 DEF Holders, Holds, Uncounted
    <2>4. Cardinality(Uncounted(p)) = 0
        BY <2>3, FS_EmptySet
    <2>5. work[p].completed \in Nat /\ Cardinality(work[p].folded) \in Nat
        BY <2>1, CasesAreCounted DEF Work
    <2>6. work[p].completed + Cardinality(Uncounted(p)) = Cardinality(work[p].folded)
        BY <2>1, <2>3 DEF PanelOK
    <2> QED
        BY <2>1, <2>4, <2>5, <2>6 DEF PanelOK
<1> QED
    BY <1>1, Invariant, PTL

=============================================================================
