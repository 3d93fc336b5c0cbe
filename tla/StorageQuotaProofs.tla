------------------------- MODULE StorageQuotaProofs -------------------------
(* Proofs about StorageQuota, for any writers, memories, policies, processes and limits: the     *)
(* guarded writes implement QuotaLedger, and what is stored under a policy never exceeds its     *)
(* limit.                                                                                        *)
EXTENDS StorageQuota, FiniteSetTheorems, TLAPS

-----------------------------------------------------------------------------
(* The inductive invariant. *)

Charged(P) == {m \in Covered(P, Stored) : P \in Snapshot[row[m]]}

Types ==
    /\ row \in [Memories -> Writers \cup {NoOne}]
    /\ pc \in [Writers -> Steps]
    /\ advisory \in [Resources -> Writers \cup {NoOne}]
    /\ todo \in [Writers -> SUBSET Memories]
    /\ asked \in [Writers -> SUBSET Projects]
    /\ seen \in [Writers -> SUBSET Memories]
    /\ \A w \in Writers : todo[w] \subseteq Want[w]

\* From the count to the last insertion a guard holds the advisory locks of all its scopes.
Holding == {"count", "write", "each"}
LocksAreHeld ==
    \A w \in Writers : pc[w] \in Holding => \A n \in Names(w) : advisory[n] = w

\* Nothing has been counted before the locks are held.
Uncounted == {"start", "key", "select", "lock", "open", "advise"}
CountsAreFresh == \A w \in Writers : pc[w] \in Uncounted => asked[w] = {}

\* What is charged to a policy in the projects counted so far has been seen: while the locks are
\* held it can only become less.
CountsCover ==
    \A w \in Writers, P \in Policies :
        pc[w] = "count" /\ P \in Snapshot[w] =>
            \A m \in Charged(P) : Project[m] \in asked[w] => m \in seen[w]

\* After the check what is charged and what is still to be stored fit together.
RestFits ==
    \A w \in Writers, P \in Policies :
        pc[w] \in {"write", "each"} /\ P \in Snapshot[w] =>
            Cardinality(Charged(P) \cup todo[w]) <= Limit[P]

Inv == Types /\ LocksAreHeld /\ CountsAreFresh /\ CountsCover /\ RestFits

-----------------------------------------------------------------------------
(* Lemmas on what a step does to the memories charged to a policy. *)

\* Sets of memories are finite, and a part of one is no larger.
LEMMA PartsAreSmaller ==
    ASSUME NEW S \in SUBSET Memories, NEW T \in SUBSET S
    PROVE  IsFiniteSet(S) /\ Cardinality(T) \in Nat /\ Cardinality(S) \in Nat
           /\ Cardinality(T) <= Cardinality(S)
BY QuotaAssumption, FS_Subset, FS_CardinalityType

\* What is charged are memories.
LEMMA ChargedAreMemories ==
    ASSUME NEW P PROVE Charged(P) \subseteq Memories
BY DEF Charged, Covered, Stored

\* A guard that stores memories charges them, and only them.
LEMMA StoreCharges ==
    ASSUME Types, NEW w \in Writers, NEW S \in SUBSET Want[w], Store(w, S),
           NEW P \in Policies
    PROVE  /\ Charged(P)' \subseteq Charged(P) \cup S
           /\ P \notin Snapshot[w] => Charged(P)' \subseteq Charged(P)
           /\ row' \in [Memories -> Writers \cup {NoOne}]
BY QuotaAssumption DEF Types, Store, Charged, Covered, Stored

\* A deletion charges nothing.
LEMMA DeleteCharges ==
    ASSUME Types, NEW m \in Memories, row' = [row EXCEPT ![m] = NoOne], NEW P \in Policies
    PROVE  /\ Charged(P)' \subseteq Charged(P)
           /\ row' \in [Memories -> Writers \cup {NoOne}]
BY QuotaAssumption DEF Types, Charged, Covered, Stored

\* Where rows stay, so does what is charged.
LEMMA SameRows == ASSUME UNCHANGED row, NEW P \in Policies PROVE Charged(P)' = Charged(P)
BY DEF Charged, Covered, Stored

\* Two guards of one policy do not hold their locks at once.
LEMMA OneHolder ==
    ASSUME Types, LocksAreHeld, NEW v \in Writers, NEW w \in Writers, NEW P \in Policies,
           P \in Snapshot[v], P \in Snapshot[w], pc[v] \in Holding, pc[w] \in Holding
    PROVE  v = w
<1>1. Resource[P] \in Names(v) /\ Resource[P] \in Names(w)
  BY DEF Names
<1>2. QED
  BY <1>1 DEF LocksAreHeld

-----------------------------------------------------------------------------
(* The invariant is inductive. *)

THEOREM InvInitially == Init => Inv
<1> SUFFICES ASSUME Init PROVE Inv
  OBVIOUS
<1>1. Types
  BY QuotaAssumption DEF Init, Types, Steps, Keyed
<1>2. \A w \in Writers : pc[w] \in {"start", "select"}
  BY DEF Init
<1>3. QED
  BY <1>1, <1>2 DEF Init, Inv, LocksAreHeld, CountsAreFresh, CountsCover, RestFits, Holding,
                    Uncounted

\* A step that moves one writer, away from its guard or within the same phase, and touches no row,
\* lock or count of the guard.
LEMMA QuietStep ==
    ASSUME Inv, NEW w \in Writers, NEW step \in Steps,
           pc' = [pc EXCEPT ![w] = step],
           step \notin Holding, step \in Uncounted => pc[w] \in Uncounted,
           UNCHANGED <<row, advisory, todo, asked, seen>>
    PROVE  Inv'
<1>1. Types'
  BY DEF Inv, Types
<1>2. \A v \in Writers : pc'[v] \in Holding => pc[v] = pc'[v]
  BY DEF Inv, Types
<1>3. \A P \in Policies : Charged(P)' = Charged(P)
  BY SameRows
<1>4. LocksAreHeld'
  BY <1>2 DEF Inv, LocksAreHeld, Names
<1>5. CountsAreFresh'
  BY DEF Inv, Types, CountsAreFresh
<1>6. CountsCover'
  BY <1>2, <1>3 DEF Inv, CountsCover, Holding
<1>7. RestFits'
  BY <1>2, <1>3 DEF Inv, RestFits, Holding
<1>8. QED
  BY <1>1, <1>4, <1>5, <1>6, <1>7 DEF Inv

\* The keyed pool, the local locks and the session do not concern the invariant.
LEMMA QuietSteps ==
    ASSUME Inv, NEW w \in Writers,
           \/ Lease(w) \/ AcquireKey(w) \/ ReleaseKey(w) \/ DropLease(w)
           \/ InsertedAll(w) \/ LockLocal(w) \/ OpenSession(w) \/ UnlockLocal(w)
    PROVE  Inv'
<1>1. CASE Lease(w)
  BY <1>1, QuietStep DEF Lease, Goto, Steps, Holding, Uncounted
<1>2. CASE AcquireKey(w)
  BY <1>2, QuietStep DEF AcquireKey, Goto, Steps, Holding, Uncounted
<1>3. CASE ReleaseKey(w)
  BY <1>3, QuietStep DEF ReleaseKey, Goto, Steps, Holding, Uncounted
<1>4. CASE DropLease(w)
  BY <1>4, QuietStep DEF DropLease, Goto, Steps, Holding, Uncounted
<1>5. CASE InsertedAll(w)
  BY <1>5, QuietStep DEF InsertedAll, AfterWrite, Goto, Steps, Holding, Uncounted
<1>6. CASE LockLocal(w)
  BY <1>6, QuietStep DEF LockLocal, Goto, Steps, Holding, Uncounted
<1>7. CASE OpenSession(w)
  BY <1>7, QuietStep DEF OpenSession, Goto, Steps, Holding, Uncounted
<1>8. CASE UnlockLocal(w)
  BY <1>8, QuietStep DEF UnlockLocal, Goto, Steps, Holding, Uncounted
<1>9. QED
  BY <1>1, <1>2, <1>3, <1>4, <1>5, <1>6, <1>7, <1>8

\* A writer without policies goes on to store, one with policies to its locks.
LEMMA SelectStep == ASSUME Inv, NEW w \in Writers, Select(w) PROVE Inv'
<1>1. PICK S \in SUBSET Want[w] :
        /\ todo' = [todo EXCEPT ![w] = Want[w] \ S]
        /\ Goto(w, IF ~Keyed(w) /\ Want[w] = S THEN "done"
                   ELSE IF Names(w) # {} THEN "lock" ELSE Writing(w))
  BY DEF Select
<1>2. pc[w] = "select" /\ UNCHANGED <<row, advisory, asked, seen>>
  BY DEF Select
<1>3. \/ pc'[w] \in {"done", "lock"}
      \/ pc'[w] \in {"write", "each"} /\ Names(w) = {}
  BY <1>1 DEF Goto, Inv, Types, Writing
<1>4. pc' \in [Writers -> Steps] /\ \A v \in Writers \ {w} : pc'[v] = pc[v] /\ todo'[v] = todo[v]
  BY <1>1, <1>3 DEF Goto, Inv, Types, Steps, Writing
<1>5. Types'
  BY <1>1, <1>2, <1>4, QuotaAssumption DEF Inv, Types
<1>6. \A P \in Policies : Charged(P)' = Charged(P)
  BY <1>2, SameRows
<1>7. Names(w) = {} => Snapshot[w] = {}
  BY DEF Names
<1>8. LocksAreHeld'
  BY <1>2, <1>3, <1>4 DEF Inv, LocksAreHeld, Holding, Names
<1>9. CountsAreFresh'
  BY <1>2, <1>4 DEF Inv, CountsAreFresh, Uncounted
<1>10. CountsCover'
  BY <1>2, <1>3, <1>4, <1>6 DEF Inv, CountsCover
<1>11. RestFits'
  BY <1>2, <1>3, <1>4, <1>6, <1>7 DEF Inv, RestFits
<1>12. QED
  BY <1>5, <1>8, <1>9, <1>10, <1>11 DEF Inv

\* Rows that w stores: other guards hold other policies, and for w's own the stored part moves
\* from what is left to what is charged.
LEMMA StoreStep ==
    ASSUME Inv, NEW w \in Writers, NEW S \in SUBSET todo[w], Store(w, S),
           pc[w] \in {"write", "each"}, NEW step \in Steps \ {"count"},
           pc' = [pc EXCEPT ![w] = step],
           step \notin Uncounted, step \in Holding => step = pc[w],
           todo' = [todo EXCEPT ![w] = @ \ S],
           UNCHANGED <<advisory, asked, seen>>
    PROVE  Inv'
<1>1. S \subseteq Want[w] /\ S \subseteq Memories
  BY QuotaAssumption DEF Inv, Types
<1>2. ASSUME NEW P \in Policies
      PROVE  /\ Charged(P)' \subseteq Charged(P) \cup S
             /\ P \notin Snapshot[w] => Charged(P)' \subseteq Charged(P)
  BY <1>1, StoreCharges DEF Inv
<1>3. row' \in [Memories -> Writers \cup {NoOne}]
  BY <1>1 DEF Inv, Types, Store
<1>4. Types'
  BY <1>3 DEF Inv, Types
<1>5. ASSUME NEW v \in Writers, NEW P \in Policies, v # w, pc[v] \in Holding, P \in Snapshot[v]
      PROVE  Charged(P)' \subseteq Charged(P)
  BY <1>2, <1>5, OneHolder DEF Inv, Holding
<1>6. LocksAreHeld'
  BY DEF Inv, Types, LocksAreHeld, Holding, Names
<1>7. CountsAreFresh'
  BY DEF Inv, Types, CountsAreFresh
<1>8. CountsCover'
  BY <1>5 DEF Inv, Types, CountsCover, Holding
<1>9. ASSUME NEW v \in Writers, NEW P \in Policies, pc'[v] \in {"write", "each"}, P \in Snapshot[v]
      PROVE  Cardinality(Charged(P)' \cup todo'[v]) <= Limit[P]
  <2>1. pc[v] \in {"write", "each"}
    BY <1>9 DEF Inv, Types, Holding
  <2>2. Charged(P)' \cup todo'[v] \subseteq Charged(P) \cup todo[v]
    BY <1>2, <1>5, <1>9, <2>1 DEF Inv, Types, Holding
  <2>3. Charged(P) \cup todo[v] \in SUBSET Memories
    BY ChargedAreMemories DEF Inv, Types
  <2>4. Cardinality(Charged(P) \cup todo[v]) <= Limit[P]
    BY <1>9, <2>1 DEF Inv, RestFits
  <2>5. Limit[P] \in Nat
    BY QuotaAssumption
  <2>6. QED
    BY <2>2, <2>3, <2>4, <2>5, PartsAreSmaller
<1>10. RestFits'
  BY <1>9 DEF RestFits
<1>11. QED
  BY <1>4, <1>6, <1>7, <1>8, <1>10 DEF Inv

\* A guard that stops storing, or gives up part of it, only needs less.
LEMMA ShrinkStep ==
    ASSUME Inv, NEW w \in Writers, NEW S \in SUBSET todo[w], NEW step \in Steps,
           pc' = [pc EXCEPT ![w] = step],
           step \notin Uncounted, step \in Holding => step \in {"write", "each"} /\ pc[w] \in {"write", "each"},
           todo' = [todo EXCEPT ![w] = S],
           UNCHANGED <<row, advisory, asked, seen>>
    PROVE  Inv'
<1>1. Types'
  BY DEF Inv, Types
<1>2. \A P \in Policies : Charged(P)' = Charged(P)
  BY SameRows
<1>3. LocksAreHeld'
  BY DEF Inv, Types, LocksAreHeld, Holding, Names
<1>4. CountsAreFresh'
  BY DEF Inv, Types, CountsAreFresh
<1>5. CountsCover'
  BY <1>2 DEF Inv, Types, CountsCover, Holding
<1>6. ASSUME NEW v \in Writers, NEW P \in Policies, pc'[v] \in {"write", "each"}, P \in Snapshot[v]
      PROVE  Cardinality(Charged(P)' \cup todo'[v]) <= Limit[P]
  <2>1. pc[v] \in {"write", "each"}
    BY <1>6 DEF Inv, Types, Holding
  <2>2. Charged(P)' \cup todo'[v] \subseteq Charged(P) \cup todo[v]
    BY <1>2 DEF Inv, Types
  <2>3. Charged(P) \cup todo[v] \in SUBSET Memories
    BY ChargedAreMemories DEF Inv, Types
  <2>4. Cardinality(Charged(P) \cup todo[v]) <= Limit[P] /\ Limit[P] \in Nat
    BY <1>6, <2>1, QuotaAssumption DEF Inv, RestFits
  <2>5. QED
    BY <2>2, <2>3, <2>4, PartsAreSmaller
<1>7. RestFits'
  BY <1>6 DEF RestFits
<1>8. QED
  BY <1>1, <1>3, <1>4, <1>5, <1>7 DEF Inv

\* The insertions.
LEMMA InsertSteps ==
    ASSUME Inv, NEW w \in Writers, InsertBatch(w) \/ InsertFails(w) \/ InsertOne(w) \/ TimeOut(w)
    PROVE  Inv'
<1>1. CASE InsertBatch(w)
  <2>1. AfterWrite(w) \in {"leave", "close", "done"}
    BY DEF AfterWrite
  <2>2. todo' = [todo EXCEPT ![w] = @ \ todo[w]]
    BY <1>1 DEF InsertBatch
  <2>3. QED
    BY <1>1, <2>1, <2>2, StoreStep DEF InsertBatch, Goto, Holding, Uncounted, Steps
<1>2. CASE InsertFails(w)
  <2>1. AfterWrite(w) \in {"leave", "close", "done"}
    BY DEF AfterWrite
  <2>2. PICK S \in SUBSET todo[w] : todo' = [todo EXCEPT ![w] = S]
    BY <1>2 DEF InsertFails, Inv, Types
  <2>3. PICK step \in {"leave", "close", "done", "each"} : pc' = [pc EXCEPT ![w] = step]
    BY <1>2, <2>1 DEF InsertFails, Goto
  <2>4. QED
    BY <1>2, <2>2, <2>3, ShrinkStep DEF InsertFails, Holding, Uncounted, Steps
<1>3. CASE InsertOne(w)
  <2>1. pc' = [pc EXCEPT ![w] = "each"] /\ pc[w] = "each"
    BY <1>3 DEF InsertOne, Inv, Types
  <2>2. PICK m \in todo[w] :
          \/ Store(w, {m}) /\ todo' = [todo EXCEPT ![w] = @ \ {m}]
          \/ (\E S \in SUBSET todo[w] : todo' = [todo EXCEPT ![w] = S]) /\ UNCHANGED row
    BY <1>3 DEF InsertOne, Inv, Types
  <2>3. CASE Store(w, {m}) /\ todo' = [todo EXCEPT ![w] = @ \ {m}]
    BY <1>3, <2>1, <2>3, StoreStep DEF InsertOne, Holding, Uncounted, Steps
  <2>4. CASE (\E S \in SUBSET todo[w] : todo' = [todo EXCEPT ![w] = S]) /\ UNCHANGED row
    BY <1>3, <2>1, <2>4, ShrinkStep DEF InsertOne, Holding, Uncounted, Steps
  <2>5. QED
    BY <2>2, <2>3, <2>4
<1>4. CASE TimeOut(w)
  <2>1. {} \in SUBSET todo[w]
    OBVIOUS
  <2>2. QED
    BY <1>4, <2>1, ShrinkStep DEF TimeOut, Goto, Holding, Uncounted, Steps
<1>5. QED
  BY <1>1, <1>2, <1>3, <1>4

\* A free advisory lock is nobody's, so taking it takes nothing from another guard; the guard that
\* takes its last one begins to count afresh.
LEMMA LockAdvisoryStep == ASSUME Inv, NEW w \in Writers, LockAdvisory(w) PROVE Inv'
<1>1. PICK n \in Names(w) :
        /\ advisory[n] = NoOne
        /\ advisory' = [advisory EXCEPT ![n] = w]
        /\ Goto(w, IF Missing(w, advisory) = {n} THEN "count" ELSE "advise")
  BY DEF LockAdvisory
<1>2. pc[w] = "advise" /\ UNCHANGED <<row, todo, asked, seen>>
  BY DEF LockAdvisory
<1>3. n \in Resources /\ \A v \in Writers : Names(v) \subseteq Resources
  BY QuotaAssumption DEF Names, Resources
<1>4. Types'
  BY <1>1, <1>2, <1>3 DEF Goto, Inv, Types, Steps
<1>5. \A P \in Policies : Charged(P)' = Charged(P)
  BY <1>2, SameRows
<1>6. ASSUME NEW v \in Writers, pc'[v] \in Holding, NEW o \in Names(v) PROVE advisory'[o] = v
  <2>1. CASE v = w
    <3>1. Missing(w, advisory) = {n}
      BY <1>1, <1>6, <2>1 DEF Goto, Inv, Types, Holding
    <3>2. QED
      BY <1>1, <1>3, <2>1, <3>1 DEF Missing, Inv, Types
  <2>2. CASE v # w
    <3>1. advisory[o] = v
      BY <1>1, <1>6, <2>2 DEF Goto, Inv, Types, LocksAreHeld
    <3>2. QED
      BY <1>1, <1>3, <3>1, QuotaAssumption DEF Inv, Types
  <2>3. QED
    BY <2>1, <2>2
<1>7. CountsAreFresh'
  BY <1>1, <1>2 DEF Goto, Inv, Types, CountsAreFresh, Uncounted
<1>8. CountsCover'
  BY <1>1, <1>2, <1>5 DEF Goto, Inv, Types, CountsCover, CountsAreFresh, Uncounted
<1>9. RestFits'
  BY <1>1, <1>2, <1>5 DEF Goto, Inv, Types, RestFits
<1>10. QED
  BY <1>4, <1>6, <1>7, <1>8, <1>9 DEF Inv, LocksAreHeld

\* A count sees all that is charged in its project.
LEMMA CountStep == ASSUME Inv, NEW w \in Writers, CountProject(w) PROVE Inv'
<1>1. PICK p \in UNION {Covers[P] : P \in Snapshot[w]} \ asked[w] :
        /\ asked' = [asked EXCEPT ![w] = @ \cup {p}]
        /\ seen' = [seen EXCEPT ![w] = @ \cup {m \in Stored : Project[m] = p}]
  BY DEF CountProject
<1>2. pc[w] = "count" /\ UNCHANGED <<row, pc, advisory, todo>>
  BY DEF CountProject
<1>3. p \in Projects
  BY QuotaAssumption
<1>4. Types'
  BY <1>1, <1>2, <1>3 DEF Inv, Types, Stored
<1>5. \A P \in Policies : Charged(P)' = Charged(P) /\ Charged(P) \subseteq Stored
  BY <1>2, SameRows DEF Charged, Covered
<1>6. LocksAreHeld'
  BY <1>2 DEF Inv, LocksAreHeld, Names
<1>7. CountsAreFresh'
  BY <1>1, <1>2 DEF Inv, Types, CountsAreFresh, Uncounted
<1>8. CountsCover'
  BY <1>1, <1>2, <1>5 DEF Inv, Types, CountsCover
<1>9. RestFits'
  BY <1>2, <1>5 DEF Inv, RestFits
<1>10. QED
  BY <1>4, <1>6, <1>7, <1>8, <1>9 DEF Inv

\* All that is charged has been seen, so what passes the check fits.
LEMMA CheckStep == ASSUME Inv, NEW w \in Writers, Check(w) PROVE Inv'
<1>1. pc[w] = "count" /\ UNCHANGED <<row, advisory, asked, seen>>
      /\ \A P \in Snapshot[w] : Covers[P] \subseteq asked[w]
  BY DEF Check
<1>2. CASE \E P \in Snapshot[w] : Exceeds(w, P)
  <2>1. todo' = [todo EXCEPT ![w] = {}] /\ pc' = [pc EXCEPT ![w] = "close"] /\ {} \in SUBSET todo[w]
    BY <1>2 DEF Check, Goto
  <2>2. QED
    BY <1>1, <2>1, ShrinkStep DEF Holding, Uncounted, Steps
<1>3. CASE \A P \in Snapshot[w] : ~Exceeds(w, P)
  <2>1. UNCHANGED todo /\ pc' = [pc EXCEPT ![w] = Writing(w)] /\ Writing(w) \in {"write", "each"}
    BY <1>3 DEF Check, Goto, Writing
  <2>2. \A P \in Policies : Charged(P)' = Charged(P)
    BY <1>1, SameRows
  <2>3. Types'
    BY <1>1, <2>1 DEF Inv, Types, Steps
  <2>4. LocksAreHeld'
    BY <1>1, <2>1 DEF Inv, Types, LocksAreHeld, Holding, Names
  <2>5. CountsAreFresh'
    BY <1>1, <2>1 DEF Inv, Types, CountsAreFresh, Uncounted
  <2>6. CountsCover'
    BY <1>1, <2>1, <2>2 DEF Inv, Types, CountsCover
  <2>7. ASSUME NEW P \in Policies, P \in Snapshot[w]
        PROVE  Cardinality(Charged(P) \cup todo[w]) <= Limit[P]
    <3> DEFINE S == Covered(P, seen[w])
    <3>1. Charged(P) \subseteq S
      BY <1>1, <2>7, QuotaAssumption DEF Inv, CountsCover, Charged, Covered, Stored
    <3>2. S \in SUBSET Memories /\ todo[w] \in SUBSET Memories
      BY DEF Inv, Types, Covered
    <3>3. IsFiniteSet(S) /\ IsFiniteSet(todo[w])
      BY <3>2, PartsAreSmaller
    <3>4. Cardinality(S \cup todo[w]) <= Cardinality(S) + Cardinality(todo[w])
      <4>1. Cardinality(S \cup todo[w])
              = Cardinality(S) + Cardinality(todo[w]) - Cardinality(S \cap todo[w])
        BY <3>3, FS_Union
      <4>2. Cardinality(S \cap todo[w]) \in Nat /\ Cardinality(S) \in Nat /\ Cardinality(todo[w]) \in Nat
        BY <3>2, PartsAreSmaller
      <4>3. QED
        BY <4>1, <4>2
    <3>5. Cardinality(S) + Cardinality(todo[w]) <= Limit[P]
      <4>1. ~(Cardinality(S) + Cardinality(todo[w]) > Limit[P])
        BY <1>3, <2>7 DEF Exceeds
      <4>2. Cardinality(S) \in Nat /\ Cardinality(todo[w]) \in Nat /\ Limit[P] \in Nat
        BY <3>2, PartsAreSmaller, QuotaAssumption
      <4>3. QED
        BY <4>1, <4>2
    <3>6. Cardinality(Charged(P) \cup todo[w]) <= Cardinality(S \cup todo[w])
      BY <3>1, <3>2, PartsAreSmaller
    <3>7. QED
      <4>1. /\ Cardinality(Charged(P) \cup todo[w]) \in Nat /\ Cardinality(S \cup todo[w]) \in Nat
            /\ Cardinality(S) \in Nat /\ Cardinality(todo[w]) \in Nat /\ Limit[P] \in Nat
        BY <3>1, <3>2, PartsAreSmaller, QuotaAssumption
      <4>2. QED
        BY <3>4, <3>5, <3>6, <4>1
  <2>8. RestFits'
    BY <1>1, <2>1, <2>2, <2>7 DEF Inv, Types, RestFits
  <2>9. QED
    BY <2>3, <2>4, <2>5, <2>6, <2>8 DEF Inv
<1>4. QED
  BY <1>2, <1>3

\* The session goes with its locks and its counts; the guard has left its critical section.
LEMMA CloseStep == ASSUME Inv, NEW w \in Writers, CloseSession(w) PROVE Inv'
<1>1. pc[w] = "close" /\ pc' = [pc EXCEPT ![w] = "unlock"] /\ UNCHANGED <<row, todo>>
  BY DEF CloseSession, Goto
<1>2. /\ advisory' = [n \in Resources |-> IF advisory[n] = w THEN NoOne ELSE advisory[n]]
      /\ asked' = [asked EXCEPT ![w] = {}]
      /\ seen' = [seen EXCEPT ![w] = {}]
  BY DEF CloseSession
<1>3. Types'
  BY <1>1, <1>2 DEF Inv, Types, Steps
<1>4. \A P \in Policies : Charged(P)' = Charged(P)
  BY <1>1, SameRows
<1>5. ASSUME NEW v \in Writers, pc'[v] \in Holding, NEW n \in Names(v) PROVE advisory'[n] = v
  <2>1. v # w /\ pc[v] \in Holding /\ n \in Resources
    BY <1>1, <1>5, QuotaAssumption DEF Inv, Types, Holding, Names, Resources
  <2>2. QED
    BY <1>2, <2>1 DEF Inv, LocksAreHeld
<1>6. CountsAreFresh'
  BY <1>1, <1>2 DEF Inv, Types, CountsAreFresh
<1>7. CountsCover'
  BY <1>1, <1>2, <1>4 DEF Inv, Types, CountsCover
<1>8. RestFits'
  BY <1>1, <1>4 DEF Inv, Types, RestFits
<1>9. QED
  BY <1>3, <1>5, <1>6, <1>7, <1>8 DEF Inv, LocksAreHeld

\* A deletion makes room and is seen late at worst.
LEMMA DeleteStep == ASSUME Inv, NEW m \in Deletable, Delete(m) PROVE Inv'
<1>1. m \in Memories /\ UNCHANGED <<pc, advisory, todo, asked, seen>>
  BY QuotaAssumption DEF Delete
<1>2. \A P \in Policies : Charged(P)' \subseteq Charged(P)
  BY <1>1, DeleteCharges DEF Delete, Inv
<1>3. Types'
  BY <1>1 DEF Inv, Types, Delete
<1>4. LocksAreHeld' /\ CountsAreFresh'
  BY <1>1 DEF Inv, LocksAreHeld, CountsAreFresh, Names
<1>5. CountsCover'
  BY <1>1, <1>2 DEF Inv, CountsCover
<1>6. ASSUME NEW v \in Writers, NEW P \in Policies, pc'[v] \in {"write", "each"}, P \in Snapshot[v]
      PROVE  Cardinality(Charged(P)' \cup todo'[v]) <= Limit[P]
  <2>1. Charged(P)' \cup todo'[v] \subseteq Charged(P) \cup todo[v]
    BY <1>1, <1>2
  <2>2. Charged(P) \cup todo[v] \in SUBSET Memories
    BY ChargedAreMemories DEF Inv, Types
  <2>3. Cardinality(Charged(P) \cup todo[v]) <= Limit[P] /\ Limit[P] \in Nat
    BY <1>1, <1>6, QuotaAssumption DEF Inv, RestFits
  <2>4. QED
    BY <2>1, <2>2, <2>3, PartsAreSmaller
<1>7. QED
  BY <1>3, <1>4, <1>5, <1>6 DEF Inv, RestFits

\* Every step of the specification keeps the invariant.
LEMMA InvStep == Inv /\ [Next]_vars => Inv'
<1> SUFFICES ASSUME Inv, [Next]_vars PROVE Inv'
  OBVIOUS
<1>1. CASE \E w \in Writers : Step(w)
  <2>1. PICK w \in Writers : Step(w)
    BY <1>1
  <2>2. QED
    BY <2>1, QuietSteps, SelectStep, InsertSteps, LockAdvisoryStep, CountStep, CheckStep, CloseStep
    DEF Step
<1>2. CASE \E m \in Deletable : Delete(m)
  BY <1>2, DeleteStep
<1>3. CASE UNCHANGED vars
  <2>1. UNCHANGED <<row, pc, advisory, todo, asked, seen>>
    BY <1>3 DEF vars
  <2>2. \A P \in Policies : Charged(P)' = Charged(P)
    BY <2>1, SameRows
  <2>3. QED
    BY <2>1, <2>2 DEF Inv, Types, LocksAreHeld, CountsAreFresh, CountsCover, RestFits, Names
<1>4. QED
  BY <1>1, <1>2, <1>3 DEF Next

\* The invariant holds in every behaviour of the writes (import_quota.py:142-214): the guard's
\* locks, its counts and what it may still store stay consistent.
THEOREM InvHolds == Spec => []Inv
BY InvInitially, InvStep, PTL DEF Spec

-----------------------------------------------------------------------------
(* The refinement. *)

\* The ledger's instance has a copy of Cardinality.
LEMMA LedgerCounts == ASSUME NEW S PROVE Ledger!Cardinality(S) = Cardinality(S)
BY DEF Ledger!Cardinality, Cardinality

\* What the ledger charges is what the guards charge.
LEMMA LedgerCharges == ASSUME NEW P PROVE Ledger!Charged(P) = Charged(P)
BY DEF Ledger!Charged, Ledger!Covered, Ledger!Stored, Charged, Covered, Stored

\* A guard that stores memories admits them to the ledger.
LEMMA StoreAdmits ==
    ASSUME Inv, NEW w \in Writers, NEW S \in SUBSET todo[w], Store(w, S),
           pc[w] \in {"write", "each"}
    PROVE  Ledger!Next
<1>1. S \in SUBSET Memories
  BY DEF Inv, Types
<1>2. ASSUME NEW P \in Snapshot[w]
      PROVE  Cardinality(Charged(P) \cup Ledger!Covered(P, S)) <= Limit[P]
  <2>1. P \in Policies /\ Limit[P] \in Nat
    BY QuotaAssumption
  <2>2. Charged(P) \cup Ledger!Covered(P, S) \subseteq Charged(P) \cup todo[w]
    BY DEF Ledger!Covered
  <2>3. Charged(P) \cup todo[w] \in SUBSET Memories
    BY ChargedAreMemories DEF Inv, Types
  <2>4. Cardinality(Charged(P) \cup todo[w]) <= Limit[P]
    BY <2>1 DEF Inv, RestFits
  <2>5. QED
    BY <2>1, <2>2, <2>3, <2>4, PartsAreSmaller
<1>3. Ledger!Admit(w, S)
  BY <1>2, LedgerCharges, LedgerCounts DEF Store, Stored, Ledger!Admit, Ledger!Stored
<1>4. QED
  BY <1>1, <1>3 DEF Ledger!Next

\* Every step admits, removes or leaves the rows alone.
LEMMA StepRefines == Inv /\ [Next]_vars => [Ledger!Next]_row
<1> SUFFICES ASSUME Inv, [Next]_vars, row' # row PROVE Ledger!Next
  OBVIOUS
<1>1. CASE \E w \in Writers : InsertBatch(w)
  <2>1. PICK w \in Writers : InsertBatch(w)
    BY <1>1
  <2>2. QED
    BY <2>1, StoreAdmits DEF InsertBatch
<1>2. CASE \E w \in Writers : InsertOne(w)
  <2>1. PICK w \in Writers : InsertOne(w)
    BY <1>2
  <2>2. PICK m \in todo[w] : Store(w, {m})
    BY <2>1 DEF InsertOne
  <2>3. pc[w] = "each" /\ {m} \in SUBSET todo[w]
    BY <2>1 DEF InsertOne
  <2>4. QED
    BY <2>2, <2>3, StoreAdmits
<1>3. CASE \E m \in Deletable : Delete(m)
  <2>1. PICK m \in Memories : Delete(m)
    BY <1>3, QuotaAssumption
  <2>2. Ledger!Remove(m)
    BY <2>1 DEF Delete, Ledger!Remove
  <2>3. QED
    BY <2>2 DEF Ledger!Next
<1>4. CASE \E w \in Writers : Step(w) /\ ~InsertBatch(w) /\ ~InsertOne(w)
  <2>1. row' = row
    BY <1>4 DEF Step, Lease, AcquireKey, ReleaseKey, DropLease, Select, InsertFails, InsertedAll,
                LockLocal, OpenSession, LockAdvisory, CountProject, TimeOut, Check, CloseSession,
                UnlockLocal
  <2>2. QED
    BY <2>1
<1>5. CASE UNCHANGED vars
  BY <1>5 DEF vars
<1>6. QED
  BY <1>1, <1>2, <1>3, <1>4, <1>5 DEF Next

\* The guarded writes implement the ledger: selection, keyed locks, guard, insertions and their
\* failures together admit memories that fit, one request at a time (import_quota.py:142-214,
\* mem0/memory/main.py:2055-2150).
THEOREM WritesImplementLedger == Spec => ImplementsLedger
<1>1. Init => Ledger!Init
  BY DEF Init, Ledger!Init
<1>2. QED
  BY <1>1, InvHolds, StepRefines, PTL DEF Spec, ImplementsLedger, Ledger!Spec

\* The ledger's rows are rows, and what is charged stays within the limits.
LedgerInv == Ledger!TypeOK /\ Ledger!LimitHolds

\* The ledger alone keeps its promise.
LEMMA LedgerStep == LedgerInv /\ [Ledger!Next]_row => LedgerInv'
<1> SUFFICES ASSUME LedgerInv, [Ledger!Next]_row PROVE LedgerInv'
  OBVIOUS
<1>1. ASSUME NEW w \in Writers, NEW S \in SUBSET Memories, Ledger!Admit(w, S) PROVE LedgerInv'
  <2>1. Ledger!TypeOK'
    BY <1>1 DEF LedgerInv, Ledger!TypeOK, Ledger!Admit
  <2>2. ASSUME NEW P \in Policies PROVE Cardinality(Ledger!Charged(P)') <= Limit[P]
    <3>1. Ledger!Charged(P) \cup Ledger!Covered(P, S) \in SUBSET Memories
      BY DEF Ledger!Charged, Ledger!Covered, Ledger!Stored
    <3>2. CASE P \in Snapshot[w]
      <4>1. Ledger!Charged(P)' \subseteq Ledger!Charged(P) \cup Ledger!Covered(P, S)
        BY <1>1 DEF Ledger!Charged, Ledger!Covered, Ledger!Stored, Ledger!Admit
      <4>2. Cardinality(Ledger!Charged(P) \cup Ledger!Covered(P, S)) <= Limit[P]
        BY <1>1, <3>2, LedgerCounts DEF Ledger!Admit
      <4>3. QED
        BY <3>1, <4>1, <4>2, PartsAreSmaller, QuotaAssumption
    <3>3. CASE P \notin Snapshot[w]
      <4>1. Ledger!Charged(P)' \subseteq Ledger!Charged(P)
        BY <1>1, <3>3 DEF Ledger!Charged, Ledger!Covered, Ledger!Stored, Ledger!Admit
      <4>2. Cardinality(Ledger!Charged(P)) <= Limit[P]
        BY LedgerCounts DEF LedgerInv, Ledger!LimitHolds
      <4>3. QED
        BY <3>1, <4>1, <4>2, PartsAreSmaller, QuotaAssumption
    <3>4. QED
      BY <3>2, <3>3
  <2>3. QED
    BY <2>1, <2>2, LedgerCounts DEF LedgerInv, Ledger!LimitHolds
<1>2. ASSUME NEW m \in Memories, Ledger!Remove(m) PROVE LedgerInv'
  <2>1. Ledger!TypeOK'
    BY <1>2 DEF LedgerInv, Ledger!TypeOK, Ledger!Remove
  <2>2. ASSUME NEW P \in Policies PROVE Cardinality(Ledger!Charged(P)') <= Limit[P]
    <3>1. Ledger!Charged(P)' \subseteq Ledger!Charged(P) /\ Ledger!Charged(P) \in SUBSET Memories
      BY <1>2, QuotaAssumption
      DEF LedgerInv, Ledger!TypeOK, Ledger!Charged, Ledger!Covered, Ledger!Stored, Ledger!Remove
    <3>2. Cardinality(Ledger!Charged(P)) <= Limit[P]
      BY LedgerCounts DEF LedgerInv, Ledger!LimitHolds
    <3>3. QED
      BY <3>1, <3>2, PartsAreSmaller, QuotaAssumption
  <2>3. QED
    BY <2>1, <2>2, LedgerCounts DEF LedgerInv, Ledger!LimitHolds
<1>3. CASE UNCHANGED row
  <2>1. \A P \in Policies : Ledger!Charged(P)' = Ledger!Charged(P)
    BY <1>3 DEF Ledger!Charged, Ledger!Covered, Ledger!Stored
  <2>2. \A P \in Policies : Cardinality(Ledger!Charged(P)') <= Limit[P]
    BY <2>1, LedgerCounts DEF LedgerInv, Ledger!LimitHolds
  <2>3. Ledger!TypeOK'
    BY <1>3 DEF LedgerInv, Ledger!TypeOK
  <2>4. QED
    BY <2>2, <2>3, LedgerCounts DEF LedgerInv, Ledger!LimitHolds
<1>4. QED
  BY <1>1, <1>2, <1>3 DEF Ledger!Next

\* No interleaving of reads, checks, insertions, failures and deletions stores more under a hard
\* policy than its limit (import_quota.py:184-202).
THEOREM StorageQuotaLimit == Spec => []LimitHolds
<1>1. Init => LedgerInv
  <2> SUFFICES ASSUME Init PROVE LedgerInv
    OBVIOUS
  <2>1. Ledger!TypeOK
    BY DEF Init, Ledger!TypeOK
  <2>2. ASSUME NEW P \in Policies PROVE Cardinality(Ledger!Charged(P)) <= Limit[P]
    <3>1. Ledger!Charged(P) = {}
      BY DEF Init, Ledger!Charged, Ledger!Covered, Ledger!Stored
    <3>2. QED
      BY <3>1, FS_EmptySet, QuotaAssumption
  <2>3. QED
    BY <2>1, <2>2, LedgerCounts DEF LedgerInv, Ledger!LimitHolds
<1>2. LedgerInv => LimitHolds
  BY DEF LedgerInv, LimitHolds
<1>3. QED
  BY <1>1, <1>2, InvHolds, StepRefines, LedgerStep, PTL DEF Spec
-----------------------------------------------------------------------------
(* Locks, sessions and lock objects. *)

PoolTypes ==
    /\ entry \in [Procs -> [Keys -> [lock : Writers \cup {NoOne}, users : Nat]]]
    /\ leased \in [Writers -> Writers \cup {NoOne}]
    /\ mutex \in [Writers -> Writers \cup {NoOne}]
    /\ local \in [Procs -> [Resources -> Writers \cup {NoOne}]]
    /\ session \in SUBSET Writers

\* Advisory locks are held in a session, local locks on the way to one, in one, or until they are
\* released with it.
Guards ==
    /\ \A w \in Writers : pc[w] \in {"advise", "count"} => w \in session
    /\ \A w \in session : pc[w] \in {"advise", "count", "write", "each", "leave", "drop", "close"}
    /\ \A w \in Writers, n \in Resources : advisory[n] = w => w \in session
    /\ \A w \in Writers, n \in Resources :
         local[Proc[w]][n] = w => w \in session \/ pc[w] \in {"lock", "open", "close", "unlock"}

\* A writer with a key has leased its lock object from the beginning to the drop.
Working == {"select", "lock", "open", "advise", "count", "write", "each"}
Leases ==
    /\ \A w \in Writers : pc[w] = "start" => Keyed(w)
    /\ \A w \in Writers : pc[w] \in {"start", "done"} \/ ~Keyed(w) => leased[w] = NoOne
    /\ \A w \in Writers : pc[w] \in {"key", "leave", "drop"} \/ (Keyed(w) /\ pc[w] \in Working)
                          => leased[w] # NoOne

\* The entry of a key counts those who have leased its object, and all of them have the same.
Holders(p, k) == {w \in Writers : Proc[w] = p /\ Key[w] = k /\ leased[w] # NoOne}
Entries ==
    \A p \in Procs, k \in Keys :
        /\ entry[p][k].users = Cardinality(Holders(p, k))
        /\ Holders(p, k) = {} => entry[p][k] = NoEntry
        /\ \A w \in Holders(p, k) : entry[p][k].lock = leased[w]

\* Objects of different keys are different.
Objects ==
    \A w \in Writers : leased[w] # NoOne =>
        Proc[leased[w]] = Proc[w] /\ Key[leased[w]] = Key[w] /\ pc[leased[w]] # "start"

\* A lock object is held by the one writer that is between its acquisition and its release.
Mutexes ==
    /\ \A w \in Writers : leased[w] # NoOne /\ pc[w] \notin {"key", "drop"} => mutex[leased[w]] = w
    /\ \A x, w \in Writers : mutex[x] = w => leased[w] = x /\ pc[w] \notin {"key", "drop"}

Pool == Leases /\ Entries /\ Objects /\ Mutexes
Tidy == PoolTypes /\ Guards /\ Pool

LEMMA TidyInitially == Init => Tidy
<1> SUFFICES ASSUME Init PROVE Tidy
  OBVIOUS
<1>1. PoolTypes
  BY DEF Init, PoolTypes, NoEntry
<1>2. Guards
  BY QuotaAssumption DEF Init, Guards
<1>3. Leases
  BY DEF Init, Leases, Working
<1>4. Entries
  <2>1. \A p \in Procs, k \in Keys : Holders(p, k) = {}
    BY DEF Init, Holders
  <2>2. QED
    BY <2>1, FS_EmptySet DEF Init, Entries, NoEntry
<1>5. Objects
  BY DEF Init, Objects
<1>6. Mutexes
  BY QuotaAssumption DEF Init, Mutexes
<1>7. QED
  BY <1>1, <1>2, <1>3, <1>4, <1>5, <1>6 DEF Tidy, Pool

\* A step that leaves the keyed pool alone.
LEMMA PoolStays ==
    ASSUME Inv, Tidy, NEW w \in Writers, NEW step \in Steps, pc' = [pc EXCEPT ![w] = step],
           UNCHANGED <<entry, leased, mutex>>,
           pc[w] \notin {"start", "key", "drop"}, step \notin {"start", "key", "drop"},
           step = "done" => leased[w] = NoOne,
           step = "leave" \/ (Keyed(w) /\ step \in Working) => leased[w] # NoOne
    PROVE  Pool'
<1>1. pc \in [Writers -> Steps]
  BY DEF Inv, Types
<1>2. Leases'
  BY <1>1 DEF Tidy, Pool, Leases, Keyed
<1>3. Entries'
  BY DEF Tidy, Pool, Entries, Holders
<1>4. Objects'
  BY <1>1 DEF Tidy, Pool, Objects, PoolTypes
<1>5. Mutexes'
  BY <1>1 DEF Tidy, Pool, Mutexes
<1>6. QED
  BY <1>2, <1>3, <1>4, <1>5 DEF Pool

\* The keyed pool stays as well where nobody moves.
LEMMA PoolRests ==
    ASSUME Inv, Tidy, UNCHANGED <<pc, entry, leased, mutex>> PROVE Pool'
BY DEF Tidy, Pool, Leases, Entries, Holders, Objects, Mutexes, Keyed

\* The guard leaves its locks and session as they are.
LEMMA GuardStays ==
    ASSUME Inv, Tidy, NEW w \in Writers, NEW step \in Steps, pc' = [pc EXCEPT ![w] = step],
           UNCHANGED <<local, advisory, session>>,
           step \in {"advise", "count"} => w \in session,
           w \in session => step \in {"advise", "count", "write", "each", "leave", "drop", "close"},
           pc[w] \in {"lock", "open", "close", "unlock"} => step \in {"lock", "open", "close", "unlock"}
    PROVE  Guards'
<1>1. pc \in [Writers -> Steps]
  BY DEF Inv, Types
<1>2. QED
  BY <1>1 DEF Tidy, Guards

\* The keyed pool gives the writer the object of its key, a new one if nobody has it.
LEMMA LeaseTidy == ASSUME Inv, Tidy, NEW w \in Writers, Lease(w) PROVE PoolTypes' /\ Pool'
<1> DEFINE p == Proc[w]
           k == Key[w]
           e == entry[p][k]
           lock == IF e = NoEntry THEN w ELSE e.lock
<1>1. /\ pc \in [Writers -> Steps] /\ pc[w] = "start" /\ leased[w] = NoOne /\ Keyed(w)
      /\ p \in Procs /\ k \in Keys /\ w \notin Holders(p, k)
      /\ pc' = [pc EXCEPT ![w] = "key"] /\ leased' = [leased EXCEPT ![w] = lock]
      /\ entry' = [entry EXCEPT ![p][k] = [lock |-> lock, users |-> e.users + 1]]
      /\ UNCHANGED <<mutex, local, session>>
  BY QuotaAssumption DEF Inv, Types, Tidy, Pool, Leases, Lease, Goto, Keys, Holders
<1>2. IsFiniteSet(Holders(p, k)) /\ Cardinality(Holders(p, k)) \in Nat
  BY QuotaAssumption, FS_Subset, FS_CardinalityType DEF Holders
<1>3. e \in [lock : Writers \cup {NoOne}, users : Nat] /\ e.users = Cardinality(Holders(p, k))
  BY <1>1 DEF Tidy, PoolTypes, Pool, Entries
<1>4. \A v \in Holders(p, k) : lock = leased[v] /\ e # NoEntry
  <2> TAKE v \in Holders(p, k)
  <2>1. e.lock = leased[v] /\ leased[v] # NoOne
    BY <1>1 DEF Tidy, Pool, Entries, Holders
  <2>2. QED
    BY <2>1 DEF NoEntry
<1>5. /\ lock \in Writers
      /\ Proc[lock] = Proc[w] /\ Key[lock] = Key[w] /\ (lock = w \/ pc[lock] # "start")
  <2>1. CASE e = NoEntry
    BY <2>1
  <2>2. CASE e # NoEntry
    <3>1. PICK v \in Holders(p, k) : TRUE
      BY <2>2, <1>1 DEF Tidy, Pool, Entries
    <3>2. lock = leased[v] /\ v \in Writers /\ leased[v] # NoOne /\ Proc[v] = p /\ Key[v] = k
      BY <3>1, <1>4 DEF Holders
    <3>3. lock \in Writers
      BY <3>2 DEF Tidy, PoolTypes
    <3>4. QED
      BY <3>2, <3>3 DEF Tidy, Pool, Objects
  <2>3. QED
    BY <2>1, <2>2
<1>6. lock # NoOne
  BY <1>5, QuotaAssumption
<1> HIDE DEF lock, e
<1>7. PoolTypes'
  BY <1>1, <1>3, <1>5 DEF Tidy, PoolTypes
<1>8. Leases'
  BY <1>1, <1>6 DEF Tidy, Pool, PoolTypes, Leases, Keyed
<1>9. Entries'
  <2> SUFFICES ASSUME NEW q \in Procs, NEW j \in Keys
               PROVE  /\ entry'[q][j].users = Cardinality(Holders(q, j)')
                      /\ Holders(q, j)' = {} => entry'[q][j] = NoEntry
                      /\ \A v \in Holders(q, j)' : entry'[q][j].lock = leased'[v]
    BY DEF Entries
  <2>1. CASE q = p /\ j = k
    <3>1. Holders(q, j)' = Holders(p, k) \cup {w}
      BY <2>1, <1>1, <1>6 DEF Holders, Tidy, PoolTypes
    <3>2. Cardinality(Holders(q, j)') = Cardinality(Holders(p, k)) + 1
      BY <3>1, <1>1, <1>2, FS_AddElement
    <3>3. entry'[q][j] = [lock |-> lock, users |-> e.users + 1]
      BY <2>1, <1>1 DEF Tidy, PoolTypes
    <3>4. \A v \in Holders(q, j)' : leased'[v] = lock
      BY <3>1, <1>1, <1>4 DEF Tidy, PoolTypes, Holders
    <3>5. QED
      BY <3>1, <3>2, <3>3, <3>4, <1>3
  <2>2. CASE ~(q = p /\ j = k)
    <3>1. Holders(q, j)' = Holders(q, j)
      BY <2>2, <1>1 DEF Holders, Tidy, PoolTypes
    <3>2. entry'[q][j] = entry[q][j]
      BY <2>2, <1>1 DEF Tidy, PoolTypes
    <3>3. \A v \in Holders(q, j) : leased'[v] = leased[v]
      BY <2>2, <1>1 DEF Tidy, PoolTypes, Holders
    <3>4. QED
      BY <3>1, <3>2, <3>3 DEF Tidy, Pool, Entries
  <2>3. QED
    BY <2>1, <2>2
<1>10. Objects'
  BY <1>1, <1>5 DEF Tidy, Pool, PoolTypes, Objects
<1>11. Mutexes'
  BY <1>1, QuotaAssumption DEF Tidy, Pool, PoolTypes, Mutexes
<1>12. QED
  BY <1>7, <1>8, <1>9, <1>10, <1>11 DEF Pool

\* The last that gives the object back takes the entry with it.
LEMMA DropTidy == ASSUME Inv, Tidy, NEW w \in Writers, DropLease(w) PROVE PoolTypes' /\ Pool'
<1> DEFINE p == Proc[w]
           k == Key[w]
           e == entry[p][k]
           step == IF w \in session THEN "close" ELSE "done"
<1>1. /\ pc \in [Writers -> Steps] /\ pc[w] = "drop" /\ leased[w] # NoOne
      /\ p \in Procs /\ k \in Keys /\ w \in Holders(p, k)
      /\ e.lock = leased[w]
      /\ pc' = [pc EXCEPT ![w] = step] /\ leased' = [leased EXCEPT ![w] = NoOne]
      /\ UNCHANGED <<mutex, local, session>>
  <2>1. /\ pc \in [Writers -> Steps] /\ pc[w] = "drop"
        /\ pc' = [pc EXCEPT ![w] = step] /\ leased' = [leased EXCEPT ![w] = NoOne]
        /\ UNCHANGED <<mutex, local, session>>
    BY DEF Inv, Types, DropLease, Goto
  <2>2. leased[w] # NoOne
    BY <2>1 DEF Tidy, Pool, Leases
  <2>3. p \in Procs /\ k \in Keys /\ w \in Holders(p, k)
    BY <2>2, QuotaAssumption DEF Keys, Holders
  <2>4. e.lock = leased[w]
    BY <2>3 DEF Tidy, Pool, Entries
  <2>5. QED
    BY <2>1, <2>2, <2>3, <2>4
<1>2. entry' = [entry EXCEPT ![p][k] = Released(e)]
  BY <1>1 DEF DropLease, Tidy, PoolTypes
<1>3. IsFiniteSet(Holders(p, k)) /\ Cardinality(Holders(p, k)) \in Nat
  BY QuotaAssumption, FS_Subset, FS_CardinalityType DEF Holders
<1>4. e \in [lock : Writers \cup {NoOne}, users : Nat] /\ e.users = Cardinality(Holders(p, k))
  BY <1>1 DEF Tidy, PoolTypes, Pool, Entries
<1>5. /\ Cardinality(Holders(p, k) \ {w}) = e.users - 1
      /\ Cardinality(Holders(p, k) \ {w}) \in Nat
      /\ e.users = 1 <=> Holders(p, k) \ {w} = {}
  <2>1. IsFiniteSet(Holders(p, k) \ {w})
    BY <1>3, FS_Subset
  <2>2. Cardinality(Holders(p, k) \ {w}) = Cardinality(Holders(p, k)) - 1
    BY <1>1, <1>3, FS_RemoveElement
  <2>3. Cardinality(Holders(p, k) \ {w}) = e.users - 1 /\ Cardinality(Holders(p, k) \ {w}) \in Nat
    BY <2>1, <2>2, <1>4, FS_CardinalityType
  <2>4. Cardinality(Holders(p, k) \ {w}) = 0 <=> Holders(p, k) \ {w} = {}
    BY <2>1, FS_EmptySet
  <2>5. e.users \in Nat
    BY <1>4
  <2>6. QED
    BY <2>3, <2>4, <2>5
<1> HIDE DEF e, step
<1>6. Released(e) \in [lock : Writers \cup {NoOne}, users : Nat]
  BY <1>4, <1>5 DEF Released, NoEntry
<1>7. PoolTypes'
  BY <1>1, <1>2, <1>6 DEF Tidy, PoolTypes
<1>8. Leases'
  BY <1>1 DEF Tidy, Pool, PoolTypes, Leases, Keyed, Working, step
<1>9. Entries'
  <2> SUFFICES ASSUME NEW q \in Procs, NEW j \in Keys
               PROVE  /\ entry'[q][j].users = Cardinality(Holders(q, j)')
                      /\ Holders(q, j)' = {} => entry'[q][j] = NoEntry
                      /\ \A v \in Holders(q, j)' : entry'[q][j].lock = leased'[v]
    BY DEF Entries
  <2>1. CASE q = p /\ j = k
    <3>1. Holders(q, j)' = Holders(p, k) \ {w}
      BY <2>1, <1>1 DEF Holders, Tidy, PoolTypes
    <3>2. entry'[q][j] = Released(e)
      BY <2>1, <1>1, <1>2 DEF Tidy, PoolTypes
    <3>3. \A v \in Holders(p, k) \ {w} : leased'[v] = e.lock
      BY <1>1 DEF e, Tidy, PoolTypes, Pool, Entries, Holders
    <3>4. CASE e.users = 1
      BY <3>1, <3>2, <3>4, <1>5, FS_EmptySet DEF Released, NoEntry
    <3>5. CASE e.users # 1
      BY <3>1, <3>2, <3>3, <3>5, <1>4, <1>5 DEF Released
    <3>6. QED
      BY <3>4, <3>5
  <2>2. CASE ~(q = p /\ j = k)
    <3>1. Holders(q, j)' = Holders(q, j)
      BY <2>2, <1>1 DEF Holders, Tidy, PoolTypes
    <3>2. entry'[q][j] = entry[q][j]
      BY <2>2, <1>1, <1>2 DEF Tidy, PoolTypes
    <3>3. \A v \in Holders(q, j) : leased'[v] = leased[v]
      BY <2>2, <1>1 DEF Tidy, PoolTypes, Holders
    <3>4. QED
      BY <3>1, <3>2, <3>3 DEF Tidy, Pool, Entries
  <2>3. QED
    BY <2>1, <2>2
<1>10. Objects'
  BY <1>1 DEF Tidy, Pool, PoolTypes, Objects, step
<1>11. Mutexes'
  BY <1>1, QuotaAssumption DEF Tidy, Pool, PoolTypes, Mutexes
<1>12. QED
  BY <1>7, <1>8, <1>9, <1>10, <1>11 DEF Pool

\* An object goes from one holder to the next.
LEMMA KeyTidy ==
    ASSUME Inv, Tidy, NEW w \in Writers, AcquireKey(w) \/ ReleaseKey(w) PROVE PoolTypes' /\ Pool'
<1>1. /\ pc \in [Writers -> Steps] /\ leased[w] \in Writers /\ leased \in [Writers -> Writers \cup {NoOne}]
      /\ mutex \in [Writers -> Writers \cup {NoOne}]
      /\ UNCHANGED <<entry, leased, local, session>>
  BY QuotaAssumption DEF Inv, Types, Tidy, PoolTypes, Pool, Leases, AcquireKey, ReleaseKey
<1>2. Entries'
  <2>1. \A p \in Procs, k \in Keys : Holders(p, k)' = Holders(p, k)
    BY <1>1 DEF Holders
  <2>2. QED
    BY <1>1, <2>1 DEF Tidy, Pool, Entries
<1>3. CASE AcquireKey(w)
  <2>1. pc[w] = "key" /\ pc' = [pc EXCEPT ![w] = "select"] /\ mutex[leased[w]] = NoOne
        /\ mutex' = [mutex EXCEPT ![leased[w]] = w]
    BY <1>3 DEF AcquireKey, Goto
  <2>2. PoolTypes' /\ Leases' /\ Objects'
    BY <1>1, <2>1, QuotaAssumption DEF Tidy, Pool, PoolTypes, Leases, Objects, Keyed, Working
  <2>3. Mutexes'
    BY <1>1, <2>1, QuotaAssumption DEF Tidy, Pool, Mutexes
  <2>4. QED
    BY <1>2, <2>2, <2>3 DEF Pool
<1>4. CASE ReleaseKey(w)
  <2>1. pc[w] = "leave" /\ pc' = [pc EXCEPT ![w] = "drop"]
        /\ mutex' = [mutex EXCEPT ![leased[w]] = NoOne]
    BY <1>4 DEF ReleaseKey, Goto
  <2>2. PoolTypes' /\ Leases' /\ Objects'
    BY <1>1, <2>1 DEF Tidy, Pool, PoolTypes, Leases, Objects, Keyed, Working
  <2>3. mutex[leased[w]] = w
    BY <1>1, <2>1, QuotaAssumption DEF Tidy, Pool, Mutexes
  <2>4. Mutexes'
    BY <1>1, <2>1, <2>3, QuotaAssumption DEF Tidy, Pool, Mutexes
  <2>5. QED
    BY <1>2, <2>2, <2>4 DEF Pool
<1>5. QED
  BY <1>3, <1>4

\* The keyed pool's steps take no lock of a guard.
LEMMA KeyedSteps ==
    ASSUME Inv, Tidy, NEW w \in Writers,
           Lease(w) \/ AcquireKey(w) \/ ReleaseKey(w) \/ DropLease(w)
    PROVE  Tidy'
<1>1. Guards'
  <2>1. CASE Lease(w)
    BY <2>1, GuardStays DEF Lease, Goto, Steps, Inv, Types, Tidy, Guards
  <2>2. CASE AcquireKey(w)
    BY <2>2, GuardStays DEF AcquireKey, Goto, Steps, Inv, Types, Tidy, Guards
  <2>3. CASE ReleaseKey(w)
    BY <2>3, GuardStays DEF ReleaseKey, Goto, Steps, Inv, Types, Tidy, Guards
  <2>4. CASE DropLease(w)
    BY <2>4, GuardStays DEF DropLease, Goto, Steps, Inv, Types, Tidy, Guards
  <2>5. QED
    BY <2>1, <2>2, <2>3, <2>4
<1>2. QED
  BY <1>1, LeaseTidy, DropTidy, KeyTidy DEF Tidy

\* Whoever works with a key has its object, whoever works without has none.
LEMMA WorkerLeases ==
    ASSUME Inv, Tidy, NEW w \in Writers, pc[w] \in Working \cup {"close", "unlock"}
    PROVE  /\ Keyed(w) /\ pc[w] \in Working => leased[w] # NoOne
           /\ ~Keyed(w) => leased[w] = NoOne
BY DEF Tidy, Pool, Leases

\* A step that moves a writer among those of the pipeline that touch no lock.
LEMMA PipelineStays ==
    ASSUME Inv, Tidy, NEW w \in Writers, NEW step \in Steps, pc' = [pc EXCEPT ![w] = step],
           UNCHANGED <<entry, leased, mutex, local, advisory, session>>,
           pc[w] \in Working,
           step \in {"lock", "write", "each", "leave", "close", "done"},
           step = "done" => ~Keyed(w) /\ w \notin session,
           step = "leave" => Keyed(w),
           w \in session => step # "lock",
           pc[w] = "open" => step = "close",
           pc[w] # "lock"
    PROVE  Tidy'
<1>1. Pool'
  BY WorkerLeases, PoolStays DEF Working
<1>2. Guards'
  BY GuardStays DEF Tidy, Guards, Working
<1>3. QED
  BY <1>1, <1>2 DEF Tidy, PoolTypes

\* Selection, insertions, counts and refusals.
LEMMA PipelineSteps ==
    ASSUME Inv, Tidy, NEW w \in Writers,
           \/ Select(w) \/ InsertBatch(w) \/ InsertFails(w) \/ InsertedAll(w)
           \/ TimeOut(w) \/ Check(w)
    PROVE  Tidy'
<1>1. CASE Select(w)
  BY <1>1, PipelineStays, QuotaAssumption DEF Select, Goto, Steps, Working, Writing, Tidy, Guards
<1>2. CASE InsertBatch(w)
  BY <1>2, PipelineStays DEF InsertBatch, AfterWrite, Goto, Steps, Working
<1>3. CASE InsertFails(w)
  BY <1>3, PipelineStays DEF InsertFails, AfterWrite, Goto, Steps, Working
<1>4. CASE InsertedAll(w)
  BY <1>4, PipelineStays DEF InsertedAll, AfterWrite, Goto, Steps, Working
<1>5. CASE TimeOut(w)
  BY <1>5, PipelineStays DEF TimeOut, Goto, Steps, Working
<1>6. CASE Check(w)
  BY <1>6, PipelineStays DEF Check, Goto, Steps, Working, Writing
<1>7. QED
  BY <1>1, <1>2, <1>3, <1>4, <1>5, <1>6

\* Steps at which nobody moves.
LEMMA RestingSteps ==
    ASSUME Inv, Tidy,
           UNCHANGED <<pc, entry, leased, mutex, local, advisory, session>>
    PROVE  Tidy'
<1>1. Pool'
  BY PoolRests
<1>2. QED
  BY <1>1 DEF Tidy, Guards, PoolTypes

\* The guard takes its local locks, then its session and the advisory locks, and gives them back
\* in the opposite order.
LEMMA GuardSteps ==
    ASSUME Inv, Tidy, NEW w \in Writers,
           \/ LockLocal(w) \/ OpenSession(w) \/ LockAdvisory(w) \/ CloseSession(w) \/ UnlockLocal(w)
    PROVE  Tidy'
<1> USE DEF Goto, Steps, Working
<1>1. pc \in [Writers -> Steps] /\ Proc[w] \in Procs
  BY QuotaAssumption DEF Inv, Types
<1>2. Names(w) \subseteq Resources
  BY QuotaAssumption DEF Names, Resources
<1>3. CASE LockLocal(w)
  <2>1. PICK n \in Names(w) :
          /\ local' = [local EXCEPT ![Proc[w]][n] = w]
          /\ pc' = [pc EXCEPT ![w] = IF Missing(w, local[Proc[w]]) = {n} THEN "open" ELSE "lock"]
    BY <1>3 DEF LockLocal
  <2>2. Pool'
    BY <1>3, <2>1, PoolStays, WorkerLeases DEF LockLocal
  <2>3. Guards'
    BY <1>1, <1>2, <1>3, <2>1, QuotaAssumption DEF LockLocal, Tidy, PoolTypes, Guards
  <2>4. PoolTypes'
    BY <1>1, <1>2, <1>3, <2>1 DEF LockLocal, Tidy, PoolTypes
  <2>5. QED
    BY <2>2, <2>3, <2>4 DEF Tidy
<1>4. CASE OpenSession(w)
  <2>1. Pool'
    BY <1>4, PoolStays, WorkerLeases DEF OpenSession
  <2>2. Guards' /\ PoolTypes'
    BY <1>1, <1>4 DEF OpenSession, Tidy, PoolTypes, Guards
  <2>3. QED
    BY <2>1, <2>2 DEF Tidy
<1>5. CASE LockAdvisory(w)
  <2>1. PICK n \in Names(w) :
          /\ advisory' = [advisory EXCEPT ![n] = w]
          /\ pc' = [pc EXCEPT ![w] = IF Missing(w, advisory) = {n} THEN "count" ELSE "advise"]
    BY <1>5 DEF LockAdvisory
  <2>2. Pool'
    BY <1>5, <2>1, PoolStays, WorkerLeases DEF LockAdvisory
  <2>3. Guards'
    BY <1>1, <1>2, <1>5, <2>1 DEF LockAdvisory, Tidy, Guards, Inv, Types
  <2>4. QED
    BY <1>5, <2>2, <2>3 DEF LockAdvisory, Tidy, PoolTypes
<1>6. CASE CloseSession(w)
  <2>1. Pool'
    BY <1>6, PoolStays DEF CloseSession
  <2>2. Guards' /\ PoolTypes'
    BY <1>1, <1>6, QuotaAssumption DEF CloseSession, Tidy, PoolTypes, Guards
  <2>3. QED
    BY <2>1, <2>2 DEF Tidy
<1>7. CASE UnlockLocal(w)
  <2>1. Pool'
    BY <1>7, PoolStays DEF UnlockLocal
  <2>2. PoolTypes'
    BY <1>1, <1>7 DEF UnlockLocal, Tidy, PoolTypes
  <2>3. /\ w \notin session
        /\ \A n \in Resources : local'[Proc[w]][n] # w
        /\ \A v \in Writers \ {w}, n \in Resources : local'[Proc[v]][n] = v => local[Proc[v]][n] = v
    BY <1>1, <1>7, QuotaAssumption DEF UnlockLocal, Tidy, PoolTypes, Guards
  <2>4. Guards'
    BY <1>1, <1>7, <2>3 DEF UnlockLocal, Tidy, Guards
  <2>5. QED
    BY <2>1, <2>2, <2>4 DEF Tidy
<1>8. QED
  BY <1>3, <1>4, <1>5, <1>6, <1>7

LEMMA TidyStep == Inv /\ Tidy /\ [Next]_vars => Tidy'
<1> SUFFICES ASSUME Inv, Tidy, [Next]_vars PROVE Tidy'
  OBVIOUS
<1>1. ASSUME NEW w \in Writers, Step(w) PROVE Tidy'
  <2>1. CASE InsertOne(w) \/ CountProject(w)
    BY <2>1, RestingSteps DEF InsertOne, CountProject
  <2>2. QED
    BY <1>1, <2>1, KeyedSteps, PipelineSteps, GuardSteps DEF Step
<1>2. ASSUME NEW m \in Deletable, Delete(m) PROVE Tidy'
  BY <1>2, RestingSteps DEF Delete
<1>3. CASE UNCHANGED vars
  BY <1>3, RestingSteps DEF vars
<1>4. QED
  BY <1>1, <1>2, <1>3 DEF Next

LEMMA TidyHolds == Spec => []Tidy
BY TidyInitially, TidyStep, InvHolds, PTL DEF Spec

\* Every reachable state is well typed, reference counts and lock objects included
\* (memory/main.py:655-700, import_quota.py:142-214).
THEOREM QuotaTypeCorrect == Spec => []TypeOK
<1>1. Inv /\ Tidy => TypeOK
  BY DEF Inv, Types, Tidy, PoolTypes, TypeOK
<1>2. QED
  BY <1>1, InvHolds, TidyHolds, PTL

\* The pool never gives two writers of one scope different lock objects, though it drops entries
\* nobody uses and makes them again (_KeyedLockPool, memory/main.py:660-700).
THEOREM OneWriterPerKeyThm == Spec => []OneWriterPerKey
<1>1. Inv /\ Tidy => OneWriterPerKey
  <2> SUFFICES ASSUME Inv, Tidy, NEW v \in Writers, NEW w \in Writers,
                      v # w, Proc[v] = Proc[w], Key[v] = Key[w],
                      \A x \in {v, w} : leased[x] # NoOne /\ pc[x] \notin {"key", "drop"}
               PROVE  FALSE
    BY DEF OneWriterPerKey
  <2>1. v \in Holders(Proc[w], Key[w]) /\ w \in Holders(Proc[w], Key[w])
    BY DEF Holders
  <2>2. leased[v] = leased[w]
    BY <2>1, QuotaAssumption DEF Tidy, Pool, Entries, Keys
  <2>3. mutex[leased[v]] = v /\ mutex[leased[w]] = w
    BY DEF Tidy, Pool, Mutexes
  <2>4. QED
    BY <2>2, <2>3
<1>2. QED
  BY <1>1, InvHolds, TidyHolds, PTL

\* Whatever raises, a writer that is answered has given back its locks, its session and its
\* reference in the pool, and the pool keeps no entry nobody has leased.
THEOREM NothingLeftBehindThm == Spec => []NothingLeftBehind
<1>1. Inv /\ Tidy => NothingLeftBehind
  <2> SUFFICES ASSUME Inv, Tidy PROVE NothingLeftBehind
    OBVIOUS
  <2>1. ASSUME NEW w \in Writers, pc[w] \in {"start", "done"}
        PROVE  /\ w \notin session
               /\ \A n \in Resources : advisory[n] # w /\ local[Proc[w]][n] # w
               /\ \A v \in Writers : mutex[v] # w
    <3>1. w \notin session
      BY <2>1 DEF Tidy, Guards
    <3>2. \A n \in Resources : advisory[n] # w /\ local[Proc[w]][n] # w
      BY <2>1, <3>1 DEF Tidy, Guards
    <3>3. \A v \in Writers : mutex[v] # w
      BY <2>1, QuotaAssumption DEF Tidy, Pool, Leases, Mutexes
    <3>4. QED
      BY <3>1, <3>2, <3>3
  <2>2. ASSUME NEW p \in Procs, NEW k \in Keys, entry[p][k] # NoEntry
        PROVE  \E w \in Writers : Proc[w] = p /\ Key[w] = k /\ leased[w] = entry[p][k].lock
    <3>1. PICK w \in Holders(p, k) : TRUE
      BY <2>2 DEF Tidy, Pool, Entries
    <3>2. entry[p][k].lock = leased[w]
      BY <3>1 DEF Tidy, Pool, Entries
    <3>3. QED
      BY <3>1, <3>2 DEF Holders
  <2>3. QED
    BY <2>1, <2>2 DEF NothingLeftBehind
<1>2. QED
  BY <1>1, InvHolds, TidyHolds, PTL
=============================================================================
