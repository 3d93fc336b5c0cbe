----------------------- MODULE ImportPoolOutcomeProofs -----------------------
(***************************************************************************)
(* Proofs that the counters and the outcome of an import run say what its  *)
(* chunk rows say.  As long as nothing is cancelled and no thread dies,    *)
(* every leaf is in one place (the queue, the list of one worker, or a     *)
(* settled row), and whoever has changed a row since the counters were     *)
(* last recomputed will still recompute them.                              *)
(***************************************************************************)
EXTENDS ImportPoolProofs

Elems(s) == {s[i] : i \in DOMAIN s}
NoRepeat(s) == \A i, j \in DOMAIN s : s[i] = s[j] => i = j
ElemsOf(q) == UNION {Elems(q[g]) : g \in DOMAIN q}
Apart(q) == /\ \A g \in DOMAIN q : NoRepeat(q[g])
            /\ \A g, h \in DOMAIN q : g # h => Elems(q[g]) \cap Elems(q[h]) = {}

\* Nothing has been cancelled, and every thread lives.
Going == ~cancel /\ \A w \in Workers : ~At(w, "dead")

\* The job's chunks and all that was ever split off them.
Tree == Planned \cup UNION {Elems(Children[p]) : p \in WithStatus({"split"})}

Assigned(w) == Elems(worker[w].todo)
Unlisted(w) == IF At(w, "tree") THEN Elems(Children[C(w)]) ELSE {}
Splitting == {w \in Workers : At(w, "tree")}

\* Every chunk is waiting in the queue, or listed by one worker, or split off by one, at most once.
OnePlace ==
    /\ Apart(queue)
    /\ \A w \in Workers : NoRepeat(worker[w].todo)
    /\ \A w \in Workers : (Assigned(w) \cup Unlisted(w)) \cap ElemsOf(queue) = {}
    /\ \A w, v \in Workers : w # v => Assigned(w) \cap Assigned(v) = {}
    /\ \A w, v \in Workers : Assigned(w) \cap Unlisted(v) = {}

\* What is in a place belongs to the tree and is not split, but for a parent whose children are
\* about to take its place; what does not belong to the tree has not been touched.
PlacedInTree ==
    /\ ElemsOf(queue) \subseteq Leaves
    /\ \A w \in Workers : \A c \in Assigned(w) : c \in Leaves \/ (At(w, "tree") /\ c = C(w))
    /\ \A w \in Workers : \A c \in Unlisted(w) : row[c] = "open"
    /\ \A c \in Chunks \ Tree : row[c] = "open"

\* What the place of a worker says of the chunk at hand.
AtHand ==
    \A w \in Workers :
        /\ At(w, "count") => worker[w].what \in Settled
        /\ At(w, "write") => \/ worker[w].what \in Settled
                             \/ worker[w].what = "split" /\ Children[C(w)] # <<>>
        /\ At(w, "tree") => /\ row[C(w)] = "split" /\ Children[C(w)] # <<>>
                            /\ worker[w].what = "split"
        /\ worker[w].pc \in {"read", "update"} => row[C(w)] \in Settled
        /\ worker[w].pc \in {"idle", "done"} => worker[w].todo = <<>>
        /\ At(w, "done") => queue = <<>>

\* No leaf is forgotten.
Covered ==
    \A c \in Leaves : \/ row[c] \in Settled
                      \/ c \in ElemsOf(queue)
                      \/ \E w \in Workers : c \in Assigned(w) \cup Unlisted(w)

TotalIsRight == Cardinality(Leaves) = count.total + Cardinality(Splitting)

Placement == OnePlace /\ PlacedInTree /\ AtHand /\ Covered /\ TotalIsRight

\* The worker will recompute the counters before it leaves its chunk.
Owes(w) == \/ worker[w].pc \notin {"idle", "next", "update", "done", "dead"}
           \/ At(w, "next") /\ worker[w].todo # <<>>

Accurate == count.processed = Counted.processed /\ count.failed = Counted.failed

\* The counters are right, or about to be made so by what the holder of the lock has read, or
\* some worker has yet to recompute them.
CatchesUp ==
    \/ \E w \in Workers : Owes(w)
    \/ \E w \in Workers : At(w, "update") /\ worker[w].seen = Counted
    \/ Accurate /\ \A w \in Workers : ~At(w, "update")

UpdaterLocks == \A w \in Workers : At(w, "update") <=> lock = w

\* What the job's status was decided from stays as it was.
Decided ==
    /\ outcome # "running" => \A w \in Workers : worker[w].pc \in {"done", "dead"}
    /\ outcome \in {"completed", "completed_with_errors"} =>
          Going /\ (outcome = "completed" <=> count.failed = 0)

RunInv == /\ UpdaterLocks /\ Decided
          /\ Going => Placement /\ CatchesUp
-----------------------------------------------------------------------------
(* Lists of chunks. *)

LEMMA HeadAndTail ==
    ASSUME NEW S, NEW s \in Seq(S), s # <<>>
    PROVE  /\ Head(s) \in Elems(s) /\ Tail(s) \in Seq(S)
           /\ Elems(s) = {Head(s)} \cup Elems(Tail(s))
           /\ NoRepeat(s) => Head(s) \notin Elems(Tail(s)) /\ NoRepeat(Tail(s))
<1>1. Len(s) \in Nat /\ Len(s) >= 1 /\ DOMAIN s = 1..Len(s) /\ Head(s) = s[1]
  OBVIOUS
<1>2. Tail(s) \in Seq(S) /\ DOMAIN Tail(s) = 1..(Len(s) - 1)
      /\ \A i \in 1..(Len(s) - 1) : Tail(s)[i] = s[i + 1]
  BY <1>1
<1>3. Elems(Tail(s)) = {s[i + 1] : i \in 1..(Len(s) - 1)}
  BY <1>2 DEF Elems
<1>4. \A j \in 1..Len(s) : j = 1 \/ (j - 1 \in 1..(Len(s) - 1) /\ j = (j - 1) + 1)
  BY <1>1
<1>5. \A i \in 1..(Len(s) - 1) : i + 1 \in 1..Len(s) /\ i + 1 # 1
  BY <1>1
<1>6. Elems(s) = {Head(s)} \cup Elems(Tail(s))
  <2>1. ASSUME NEW c \in Elems(s) PROVE c \in {Head(s)} \cup Elems(Tail(s))
    <3>1. PICK j \in 1..Len(s) : c = s[j]
      BY <1>1 DEF Elems
    <3> QED
      BY <1>1, <1>3, <1>4, <3>1
  <2>2. ASSUME NEW c \in {Head(s)} \cup Elems(Tail(s)) PROVE c \in Elems(s)
    BY <1>1, <1>3, <1>5 DEF Elems
  <2> QED
    BY <2>1, <2>2
<1>7. ASSUME NoRepeat(s) PROVE Head(s) \notin Elems(Tail(s)) /\ NoRepeat(Tail(s))
  <2>1. \A i, j \in 1..Len(s) : s[i] = s[j] => i = j
    BY <1>1, <1>7 DEF NoRepeat
  <2>2. Head(s) \notin Elems(Tail(s))
    BY <1>1, <1>3, <1>5, <2>1
  <2>3. NoRepeat(Tail(s))
    BY <1>1, <1>2, <1>5, <2>1 DEF NoRepeat
  <2> QED
    BY <2>2, <2>3
<1> QED
  BY <1>2, <1>6, <1>7

LEMMA Joined ==
    ASSUME NEW S, NEW s \in Seq(S), NEW t \in Seq(S)
    PROVE  /\ s \o t \in Seq(S) /\ Elems(s \o t) = Elems(s) \cup Elems(t)
           /\ NoRepeat(s) /\ NoRepeat(t) /\ Elems(s) \cap Elems(t) = {} => NoRepeat(s \o t)
<1> DEFINE m == Len(s)
           n == Len(t)
           u == s \o t
<1>1. m \in Nat /\ n \in Nat /\ DOMAIN s = 1..m /\ DOMAIN t = 1..n
  OBVIOUS
<1>2. u \in Seq(S) /\ DOMAIN u = 1..(m + n)
      /\ \A i \in 1..(m + n) : u[i] = IF i <= m THEN s[i] ELSE t[i - m]
  OBVIOUS
<1> HIDE DEF m, n, u
<1>3. \A i \in 1..m : i \in 1..(m + n) /\ u[i] = s[i]
  BY <1>1, <1>2
<1>4. \A i \in 1..n : i + m \in 1..(m + n) /\ u[i + m] = t[i]
  BY <1>1, <1>2
<1>5. \A i \in 1..(m + n) : \/ i \in 1..m /\ u[i] = s[i]
                            \/ i - m \in 1..n /\ u[i] = t[i - m] /\ i > m
  BY <1>1, <1>2
<1>6. Elems(u) = Elems(s) \cup Elems(t)
  <2>1. Elems(u) \subseteq Elems(s) \cup Elems(t)
    BY <1>1, <1>2, <1>5 DEF Elems
  <2>2. Elems(s) \subseteq Elems(u)
    BY <1>1, <1>2, <1>3 DEF Elems
  <2>3. Elems(t) \subseteq Elems(u)
    BY <1>1, <1>2, <1>4 DEF Elems
  <2> QED
    BY <2>1, <2>2, <2>3
<1>7. ASSUME NoRepeat(s), NoRepeat(t), Elems(s) \cap Elems(t) = {} PROVE NoRepeat(u)
  <2> SUFFICES ASSUME NEW i \in 1..(m + n), NEW j \in 1..(m + n), u[i] = u[j] PROVE i = j
    BY <1>2 DEF NoRepeat
  <2>1. CASE i \in 1..m /\ u[i] = s[i]
    <3>1. s[i] \in Elems(s)
      BY <1>1, <2>1 DEF Elems
    <3>2. CASE j \in 1..m /\ u[j] = s[j]
      BY <1>1, <1>7, <2>1, <3>2 DEF NoRepeat
    <3>3. CASE j - m \in 1..n /\ u[j] = t[j - m]
      <4>1. t[j - m] \in Elems(t)
        BY <1>1, <3>3 DEF Elems
      <4> QED
        BY <1>7, <2>1, <3>1, <3>3, <4>1
    <3> QED
      BY <1>5, <3>2, <3>3
  <2>2. CASE i - m \in 1..n /\ u[i] = t[i - m]
    <3>1. t[i - m] \in Elems(t)
      BY <1>1, <2>2 DEF Elems
    <3>2. CASE j \in 1..m /\ u[j] = s[j]
      <4>1. s[j] \in Elems(s)
        BY <1>1, <3>2 DEF Elems
      <4> QED
        BY <1>7, <2>2, <3>1, <3>2, <4>1
    <3>3. CASE j - m \in 1..n /\ u[j] = t[j - m]
      <4>1. i - m = j - m
        BY <1>1, <1>7, <2>2, <3>3 DEF NoRepeat
      <4> QED
        BY <1>1, <4>1
    <3> QED
      BY <1>5, <3>2, <3>3
  <2> QED
    BY <1>5, <2>1, <2>2
<1> QED
  BY <1>2, <1>6, <1>7 DEF u

LEMMA QueueTail ==
    ASSUME NEW S, NEW q \in Seq(Seq(S)), q # <<>>, Apart(q)
    PROVE  /\ Head(q) \in Seq(S) /\ NoRepeat(Head(q)) /\ Apart(Tail(q))
           /\ ElemsOf(q) = Elems(Head(q)) \cup ElemsOf(Tail(q))
           /\ Elems(Head(q)) \cap ElemsOf(Tail(q)) = {}
<1> DEFINE n == Len(q)
           t == Tail(q)
<1>1. n \in Nat /\ n >= 1 /\ DOMAIN q = 1..n /\ Head(q) = q[1] /\ 1 \in 1..n /\ q[1] \in Seq(S)
  OBVIOUS
<1>2. DOMAIN t = 1..(n - 1) /\ \A g \in 1..(n - 1) : t[g] = q[g + 1]
  OBVIOUS
<1> HIDE DEF n, t
<1>3. \A g \in 1..(n - 1) : g + 1 \in 1..n /\ g + 1 # 1
  BY <1>1
<1>4. \A g \in 1..n : g = 1 \/ (g - 1 \in 1..(n - 1) /\ g = (g - 1) + 1)
  BY <1>1
<1>5. NoRepeat(Head(q))
  BY <1>1 DEF Apart
<1>6. Apart(t)
  <2>1. \A g \in DOMAIN t : NoRepeat(t[g])
    BY <1>1, <1>2, <1>3 DEF Apart
  <2>2. ASSUME NEW g \in DOMAIN t, NEW h \in DOMAIN t, g # h PROVE Elems(t[g]) \cap Elems(t[h]) = {}
    <3>1. g \in 1..(n - 1) /\ h \in 1..(n - 1) /\ g + 1 # h + 1
      BY <1>1, <1>2, <2>2
    <3> QED
      BY <1>1, <1>2, <1>3, <3>1 DEF Apart
  <2> QED
    BY <2>1, <2>2 DEF Apart
<1>7. ElemsOf(q) \subseteq Elems(Head(q)) \cup ElemsOf(t)
  <2> SUFFICES ASSUME NEW g \in 1..n PROVE Elems(q[g]) \subseteq Elems(Head(q)) \cup ElemsOf(t)
    BY <1>1 DEF ElemsOf
  <2>1. g = 1 \/ \E h \in DOMAIN t : t[h] = q[g]
    BY <1>2, <1>4
  <2> QED
    BY <1>1, <2>1 DEF ElemsOf
<1>8. ElemsOf(t) \subseteq ElemsOf(q) /\ Elems(Head(q)) \subseteq ElemsOf(q)
  <2>1. \A g \in DOMAIN t : \E h \in DOMAIN q : q[h] = t[g]
    BY <1>1, <1>2, <1>3
  <2>2. ElemsOf(t) \subseteq ElemsOf(q)
    BY <2>1 DEF ElemsOf
  <2>3. Elems(Head(q)) \subseteq ElemsOf(q)
    BY <1>1 DEF ElemsOf
  <2> QED
    BY <2>2, <2>3
<1>9. Elems(Head(q)) \cap ElemsOf(t) = {}
  <2> SUFFICES ASSUME NEW g \in DOMAIN t PROVE Elems(Head(q)) \cap Elems(t[g]) = {}
    BY DEF ElemsOf
  <2> QED
    BY <1>1, <1>2, <1>3 DEF Apart
<1> QED
  BY <1>1, <1>5, <1>6, <1>7, <1>8, <1>9 DEF t

-----------------------------------------------------------------------------
(* The chunks of the tree, and those a worker has listed. *)

LEMMA LeavesAre == Leaves = {c \in Tree : row[c] # "split"}
BY DEF Leaves, Tree, Elems

LEMMA TreeInChunks == Tree \subseteq Chunks /\ Leaves \subseteq Tree
<1>1. Planned \subseteq Chunks
  <2>1. \A g \in DOMAIN Groups : Groups[g] \in Seq(Chunks)
    BY ChunksAssumption
  <2>2. \A g \in DOMAIN Groups : \A i \in DOMAIN Groups[g] : Groups[g][i] \in Chunks
    BY <2>1
  <2> QED
    BY <2>2 DEF Planned
<1>2. \A p \in Chunks : Elems(Children[p]) \subseteq Chunks
  <2>1. \A p \in Chunks : Children[p] \in Seq(Chunks)
    BY ChunksAssumption
  <2>2. \A p \in Chunks : \A i \in DOMAIN Children[p] : Children[p][i] \in Chunks
    BY <2>1
  <2> QED
    BY <2>2 DEF Elems
<1> QED
  BY <1>1, <1>2, LeavesAre DEF Tree, WithStatus

LEMMA AssignedFacts ==
    ASSUME Inv, NEW w \in Workers
    PROVE  /\ worker[w] \in Threads /\ worker[w].todo \in Seq(Chunks)
           /\ Assigned(w) \subseteq Chunks
           /\ worker[w].pc \notin {"idle", "next", "done", "dead"} =>
                 worker[w].todo # <<>> /\ C(w) \in Assigned(w) /\ C(w) \in Chunks
<1>1. worker[w] \in Threads /\ worker[w].todo \in Seq(Chunks)
  BY DEF Inv, TypeOK, Threads
<1>2. \A i \in DOMAIN worker[w].todo : worker[w].todo[i] \in Chunks
  BY <1>1
<1>3. Assigned(w) \subseteq Chunks
  BY <1>2 DEF Assigned, Elems
<1>4. ASSUME worker[w].todo # <<>> PROVE C(w) \in Assigned(w)
  BY <1>1, <1>4, HeadAndTail DEF Assigned, C
<1> QED
  BY <1>1, <1>3, <1>4 DEF Inv, HasChunk

\* One thread moves.
LEMMA OthersStay ==
    ASSUME Inv, NEW w \in Workers, NEW t, worker' = [worker EXCEPT ![w] = t]
    PROVE  /\ worker'[w] = t
           /\ \A v \in Workers \ {w} : /\ worker'[v] = worker[v] /\ Assigned(v)' = Assigned(v)
                                       /\ (C(v))' = C(v) /\ \A pc : At(v, pc)' <=> At(v, pc)
                                       /\ Unlisted(v)' = Unlisted(v)
<1>1. worker'[w] = t /\ \A v \in Workers \ {w} : worker'[v] = worker[v]
  BY DEF Inv, TypeOK
<1> QED
  BY <1>1 DEF Assigned, C, At, Unlisted

\* A row that was not split is written, and is not split afterwards.
LEMMA TreeKept ==
    ASSUME Inv, NEW c \in Chunks, row[c] # "split", NEW status \in {"open"} \cup Settled,
           row' = [row EXCEPT ![c] = status]
    PROVE  Tree' = Tree /\ Leaves' = Leaves
<1>1. row \in [Chunks -> RowStatuses] /\ status # "split"
  BY DEF Inv, TypeOK, Settled
<1>2. WithStatus({"split"})' = WithStatus({"split"})
  BY <1>1 DEF WithStatus
<1>3. Tree' = Tree
  BY <1>2 DEF Tree
<1>4. \A d \in Chunks : row'[d] # "split" <=> row[d] # "split"
  BY <1>1
<1>5. Leaves' = {d \in Tree' : row'[d] # "split"}
  BY DEF Leaves, Tree, Elems
<1> QED
  BY <1>3, <1>4, <1>5, LeavesAre, TreeInChunks

\* A step that leaves the lists of chunks as they are and splits nothing.
LEMMA PlainPlacement ==
    ASSUME Inv, Placement, NEW w \in Workers, NEW t, worker' = [worker EXCEPT ![w] = t],
           t.todo = worker[w].todo, t.pc # "tree", worker[w].pc # "tree",
           queue' = queue, count'.total = count.total,
           \/ row' = row
           \/ /\ worker[w].pc \notin {"idle", "next", "done", "dead"}
              /\ \E status \in {"open"} \cup Settled : row' = [row EXCEPT ![C(w)] = status],
           t.pc = "count" => t.what \in Settled,
           t.pc = "write" => \/ t.what \in Settled
                             \/ t.what = "split" /\ Children[C(w)] # <<>>,
           t.pc \in {"read", "update"} => row'[C(w)] \in Settled,
           t.pc \in {"idle", "done"} => t.todo = <<>>, t.pc = "done" => queue = <<>>
    PROVE  Placement'
<1>1. worker'[w] = t /\ \A v \in Workers \ {w} : worker'[v] = worker[v]
  BY OthersStay
<1>2. \A v \in Workers : /\ Assigned(v)' = Assigned(v) /\ Unlisted(v)' = Unlisted(v)
                         /\ (C(v))' = C(v) /\ worker'[v].todo = worker[v].todo
                         /\ At(v, "tree")' <=> At(v, "tree")
  BY <1>1, OthersStay DEF Assigned, Unlisted, C, At
<1>3. \/ row' = row
      \/ /\ C(w) \in Assigned(w) /\ C(w) \in Chunks /\ C(w) \in Leaves
         /\ \E status \in {"open"} \cup Settled : row' = [row EXCEPT ![C(w)] = status]
  BY AssignedFacts DEF Placement, PlacedInTree, At
<1>4. \A c \in Chunks : row'[c] = row[c] \/ (c = C(w) /\ c \in Assigned(w) /\ c \in Leaves)
  BY <1>3 DEF Inv, TypeOK
<1>5. Tree' = Tree /\ Leaves' = Leaves
  <2>1. CASE row' = row
    BY <2>1 DEF Tree, Leaves, WithStatus
  <2>2. CASE row' # row
    BY <1>3, <2>2, TreeKept, LeavesAre
  <2> QED
    BY <2>1, <2>2
<1>6. OnePlace'
  BY <1>2 DEF Placement, OnePlace
<1>7. PlacedInTree'
  <2>1. ASSUME NEW v \in Workers, NEW c \in Unlisted(v) PROVE row'[c] = "open"
    <3>1. row[c] = "open" /\ c \notin Assigned(w)
      BY <2>1 DEF Placement, PlacedInTree, OnePlace
    <3>2. c \in Chunks
      <4>1. At(v, "tree") /\ c \in Elems(Children[C(v)]) /\ C(v) \in Chunks
        BY AssignedFacts DEF Unlisted, At
      <4>2. Children[C(v)] \in Seq(Chunks)
        BY <4>1, ChunksAssumption
      <4> QED
        BY <4>1, <4>2 DEF Elems
    <3> QED
      BY <1>4, <3>1, <3>2
  <2>2. \A c \in Chunks \ Tree : row'[c] = "open"
    BY <1>4, LeavesAre DEF Placement, PlacedInTree
  <2> QED
    BY <1>2, <1>5, <2>1, <2>2 DEF Placement, PlacedInTree
<1>8. AtHand'
  <2> SUFFICES ASSUME NEW v \in Workers
               PROVE  /\ At(v, "count")' => worker'[v].what \in Settled
                      /\ At(v, "write")' => \/ worker'[v].what \in Settled
                                            \/ worker'[v].what = "split" /\ Children[C(v)'] # <<>>
                      /\ At(v, "tree")' => /\ row'[C(v)'] = "split" /\ Children[C(v)'] # <<>>
                                           /\ worker'[v].what = "split"
                      /\ worker'[v].pc \in {"read", "update"} => row'[C(v)'] \in Settled
                      /\ worker'[v].pc \in {"idle", "done"} => worker'[v].todo = <<>>
                      /\ At(v, "done")' => queue' = <<>>
    BY DEF AtHand
  <2>1. CASE v = w
    BY <1>1, <1>2, <2>1 DEF At
  <2>2. CASE v # w
    <3>1. worker'[v] = worker[v] /\ C(v)' = C(v)
      BY <1>1, <1>2, <2>2
    <3>2. worker[v].pc \in {"tree", "read", "update"} => row'[C(v)] = row[C(v)]
      <4>1. worker[v].pc \in {"tree", "read", "update"} => C(v) \in Assigned(v) /\ C(v) \in Chunks
        BY AssignedFacts
      <4>2. Assigned(v) \cap Assigned(w) = {}
        BY <2>2 DEF Placement, OnePlace
      <4> QED
        BY <1>4, <4>1, <4>2
    <3> QED
      BY <3>1, <3>2 DEF At, Placement, AtHand
  <2> QED
    BY <2>1, <2>2
<1>9. Covered'
  <2> SUFFICES ASSUME NEW c \in Leaves
               PROVE  row'[c] \in Settled \/ c \in ElemsOf(queue)
                      \/ \E v \in Workers : c \in Assigned(v) \cup Unlisted(v)
    BY <1>2, <1>5 DEF Covered
  <2> QED
    BY <1>4, TreeInChunks DEF Placement, Covered
<1>10. TotalIsRight'
  <2>1. Splitting' = Splitting
    BY <1>2 DEF Splitting
  <2> QED
    BY <1>5, <2>1 DEF Placement, TotalIsRight
<1> QED
  BY <1>6, <1>7, <1>8, <1>9, <1>10 DEF Placement

-----------------------------------------------------------------------------
(* The children of a chunk. *)

LEMMA ChildrenAre ==
    ASSUME NEW p \in Chunks, Children[p] # <<>>
    PROVE  /\ Children[p] \in Seq(Chunks) /\ NoRepeat(Children[p])
           /\ Elems(Children[p]) \subseteq Chunks
           /\ IsFiniteSet(Elems(Children[p])) /\ Cardinality(Elems(Children[p])) = 2
           /\ Elems(Children[p]) \cap Planned = {}
           /\ \A q \in Chunks \ {p} : Elems(Children[p]) \cap Elems(Children[q]) = {}
<1>1. Children[p] \in Seq(Chunks) /\ \A q \in Chunks : Children[q] \in Seq(Chunks)
  BY ChunksAssumption
<1>2. Len(Children[p]) = 2
  BY <1>1, SplitsAssumption
<1>3. DOMAIN Children[p] = {1, 2}
  BY <1>1, <1>2
<1>4. NoRepeat(Children[p])
  BY SplitsAssumption DEF NoRepeat
<1>5. Children[p][1] # Children[p][2] /\ Children[p][1] \in Chunks /\ Children[p][2] \in Chunks
  BY <1>1, <1>3, <1>4 DEF NoRepeat
<1>6. Elems(Children[p]) = {Children[p][1], Children[p][2]}
  BY <1>3 DEF Elems
<1>7. IsFiniteSet(Elems(Children[p])) /\ Cardinality(Elems(Children[p])) = 2
  <2> DEFINE a == Children[p][1]
             b == Children[p][2]
  <2> HIDE DEF a, b
  <2>1. IsFiniteSet({a}) /\ Cardinality({a}) = 1
    BY FS_Singleton
  <2>2. {a} \cup {b} = {a, b} /\ b \notin {a}
    BY <1>5 DEF a, b
  <2>3. IsFiniteSet({a} \cup {b}) /\ Cardinality({a} \cup {b}) = Cardinality({a}) + 1
    BY <2>1, <2>2, FS_AddElement
  <2>4. IsFiniteSet({a, b}) /\ Cardinality({a, b}) = 2
    BY <2>1, <2>2, <2>3
  <2> QED
    BY <1>6, <2>4 DEF a, b
<1>8. Elems(Children[p]) \cap Planned = {}
  BY SplitsAssumption DEF Elems, Planned
<1>9. \A q \in Chunks \ {p} : Elems(Children[p]) \cap Elems(Children[q]) = {}
  BY SplitsAssumption DEF Elems
<1> QED
  BY <1>1, <1>4, <1>5, <1>6, <1>7, <1>8, <1>9

\* The row of a chunk that gives way to its children.
LEMMA SplitWritten ==
    ASSUME Inv, Placement, NEW w \in Workers, Write(w), worker[w].what = "split"
    PROVE  /\ C(w) \in Leaves /\ Children[C(w)] # <<>>
           /\ Elems(Children[C(w)]) \cap Tree = {}
           /\ Tree' = Tree \cup Elems(Children[C(w)])
           /\ Leaves' = (Leaves \ {C(w)}) \cup Elems(Children[C(w)])
           /\ row \in [Chunks -> RowStatuses] /\ row' = [row EXCEPT ![C(w)] = "split"]
           /\ worker'[w] = [worker[w] EXCEPT !.pc = "tree"]
<1> DEFINE p == C(w)
           kids == Elems(Children[p])
<1>1. At(w, "write") /\ p \in Assigned(w) /\ p \in Chunks /\ worker[w] \in Threads
  BY AssignedFacts DEF Write, At
<1>2. p \in Leaves /\ Children[p] # <<>>
  BY <1>1 DEF Placement, PlacedInTree, AtHand, At, Settled
<1>3. row \in [Chunks -> RowStatuses] /\ row' = [row EXCEPT ![p] = "split"]
  BY DEF Inv, TypeOK, Write, SetRow
<1>4. worker'[w] = [worker[w] EXCEPT !.pc = "tree"]
  BY DEF Write, Goto, Inv, TypeOK
<1>5. row[p] # "split"
  BY <1>2, LeavesAre
<1> HIDE DEF p
<1>6. WithStatus({"split"})' = WithStatus({"split"}) \cup {p} /\ p \notin WithStatus({"split"})
  BY <1>1, <1>3, <1>5 DEF WithStatus
<1>7. Tree' = Tree \cup kids
  BY <1>6 DEF Tree
<1>8. kids \cap Tree = {}
  <2>1. kids \cap Planned = {} /\ \A q \in Chunks \ {p} : kids \cap Elems(Children[q]) = {}
    BY <1>1, <1>2, ChildrenAre
  <2>2. \A q \in WithStatus({"split"}) : q \in Chunks \ {p}
    BY <1>6 DEF WithStatus
  <2> QED
    BY <2>1, <2>2 DEF Tree
<1>9. \A c \in kids : row[c] = "open" /\ c # p /\ c \in Chunks
  BY <1>1, <1>2, <1>8, ChildrenAre, TreeInChunks DEF Placement, PlacedInTree
<1>10. Leaves' = {d \in Tree' : row'[d] # "split"}
  BY DEF Leaves, Tree, Elems
<1>11. Leaves' = (Leaves \ {p}) \cup kids
  <2>1. \A d \in Chunks \ {p} : row'[d] = row[d]
    BY <1>3
  <2>2. row'[p] = "split"
    BY <1>1, <1>3
  <2> HIDE DEF kids
  <2> QED
    BY <1>7, <1>9, <1>10, <2>1, <2>2, LeavesAre, TreeInChunks
<1> QED
  BY <1>2, <1>3, <1>4, <1>7, <1>8, <1>11 DEF p

LEMMA LeavesFinite == IsFiniteSet(Leaves) /\ Cardinality(Leaves) \in Nat
BY TreeInChunks, ChunksAssumption, FS_Subset, FS_CardinalityType

LEMMA SplittingFinite == IsFiniteSet(Splitting) /\ Cardinality(Splitting) \in Nat
<1>1. Splitting \subseteq Workers
  BY DEF Splitting
<1> QED
  BY <1>1, ChunksAssumption, FS_Subset, FS_CardinalityType

\* One leaf less, and two more.
LEMMA LeavesGrow ==
    ASSUME NEW S, IsFiniteSet(S), NEW p \in S, NEW K, IsFiniteSet(K), Cardinality(K) = 2,
           K \cap S = {}
    PROVE  Cardinality((S \ {p}) \cup K) = Cardinality(S) + 1
<1>1. IsFiniteSet(S \ {p}) /\ Cardinality(S \ {p}) = Cardinality(S) - 1
  BY FS_RemoveElement
<1>2. Cardinality((S \ {p}) \cup K) = Cardinality(S \ {p}) + Cardinality(K)
                                      - Cardinality((S \ {p}) \cap K)
  BY <1>1, FS_Union
<1>3. (S \ {p}) \cap K = {} /\ Cardinality({}) = 0
  BY FS_EmptySet
<1>4. Cardinality(S) \in Nat
  BY FS_CardinalityType
<1> DEFINE n == Cardinality((S \ {p}) \cup K)
           i == Cardinality((S \ {p}) \cap K)
<1>5. i = 0
  BY <1>3
<1> HIDE DEF n, i
<1>6. n = (Cardinality(S) - 1) + 2 - i
  BY <1>1, <1>2 DEF n, i
<1>7. n = Cardinality(S) + 1
  BY <1>4, <1>5, <1>6
<1> QED
  BY <1>7 DEF n

-----------------------------------------------------------------------------
(* Steps that move chunks between places. *)

\* The chunk of a worker is split: its children belong to the tree, and to no list yet.
LEMMA SplitPlacement ==
    ASSUME Inv, Placement, NEW w \in Workers, Write(w), worker[w].what = "split"
    PROVE  Placement'
<1> DEFINE p == C(w)
           kids == Elems(Children[p])
           t == [worker[w] EXCEPT !.pc = "tree"]
<1>1. /\ p \in Leaves /\ Children[p] # <<>> /\ kids \cap Tree = {}
      /\ Tree' = Tree \cup kids /\ Leaves' = (Leaves \ {p}) \cup kids
      /\ row \in [Chunks -> RowStatuses] /\ row' = [row EXCEPT ![p] = "split"]
      /\ worker'[w] = t
  BY SplitWritten
<1>2. At(w, "write") /\ p \in Assigned(w) /\ p \in Chunks /\ worker[w] \in Threads
  BY AssignedFacts DEF Write, At
<1>3. /\ queue' = queue /\ count' = count /\ worker' = [worker EXCEPT ![w] = t]
      /\ \A v \in Workers \ {w} : /\ worker'[v] = worker[v] /\ Assigned(v)' = Assigned(v)
                                  /\ C(v)' = C(v) /\ Unlisted(v)' = Unlisted(v)
    BY OthersStay DEF Write, Goto
<1>4. worker'[w].todo = worker[w].todo /\ worker'[w].pc = "tree" /\ worker'[w].what = "split"
  BY <1>1, <1>2 DEF Threads
<1>5. Assigned(w)' = Assigned(w) /\ C(w)' = p /\ Unlisted(w)' = kids /\ Unlisted(w) = {}
  BY <1>2, <1>4 DEF Assigned, C, Unlisted, At
<1>6. \A v \in Workers : Assigned(v)' = Assigned(v) /\ worker'[v].todo = worker[v].todo
  BY <1>3, <1>4, <1>5
<1>7. ElemsOf(queue) \subseteq Tree /\ \A v \in Workers : Assigned(v) \subseteq Tree
  <2>1. ElemsOf(queue) \subseteq Leaves
    BY DEF Placement, PlacedInTree
  <2>2. ASSUME NEW v \in Workers, NEW c \in Assigned(v) PROVE c \in Tree
    <3>1. c \in Leaves \/ (At(v, "tree") /\ c = C(v))
      BY DEF Placement, PlacedInTree
    <3>2. ASSUME At(v, "tree"), c = C(v) PROVE c \in Leaves \/ row[c] # "open"
      BY <3>2 DEF Placement, AtHand
    <3> QED
      BY <3>1, <3>2, AssignedFacts, TreeInChunks DEF Placement, PlacedInTree
  <2> QED
    BY <2>1, <2>2, TreeInChunks
<1> HIDE DEF p, kids, t
<1>8. OnePlace'
  <2>1. Apart(queue)' /\ \A v \in Workers : NoRepeat(worker[v].todo)'
    BY <1>3, <1>6 DEF Placement, OnePlace
  <2>2. \A v \in Workers : (Assigned(v)' \cup Unlisted(v)') \cap ElemsOf(queue)' = {}
    <3>1. \A v \in Workers \ {w} : (Assigned(v)' \cup Unlisted(v)') \cap ElemsOf(queue)' = {}
      BY <1>3 DEF Placement, OnePlace
    <3>2. (Assigned(w)' \cup Unlisted(w)') \cap ElemsOf(queue)' = {}
      BY <1>1, <1>3, <1>5, <1>7 DEF Placement, OnePlace
    <3> QED
      BY <3>1, <3>2
  <2>3. \A u, v \in Workers : u # v => Assigned(u)' \cap Assigned(v)' = {}
    BY <1>6 DEF Placement, OnePlace
  <2>4. \A u, v \in Workers : Assigned(u)' \cap Unlisted(v)' = {}
    <3>1. \A u \in Workers, v \in Workers \ {w} : Assigned(u)' \cap Unlisted(v)' = {}
      BY <1>3, <1>6 DEF Placement, OnePlace
    <3>2. \A u \in Workers : Assigned(u)' \cap Unlisted(w)' = {}
      BY <1>1, <1>5, <1>6, <1>7
    <3> QED
      BY <3>1, <3>2
  <2> QED
    BY <2>1, <2>2, <2>3, <2>4 DEF OnePlace
<1>9. PlacedInTree'
  <2>1. ElemsOf(queue)' \subseteq Leaves'
    BY <1>1, <1>2, <1>3 DEF Placement, PlacedInTree, OnePlace
  <2>2. \A v \in Workers : \A c \in Assigned(v)' : c \in Leaves' \/ (At(v, "tree")' /\ c = C(v)')
    <3>1. ASSUME NEW v \in Workers \ {w}, NEW c \in Assigned(v)
          PROVE  c \in Leaves' \/ (At(v, "tree")' /\ c = C(v)')
      <4>1. c # p
        BY <1>2, <3>1 DEF Placement, OnePlace
      <4>2. c \in Leaves \/ (At(v, "tree") /\ c = C(v))
        BY <3>1 DEF Placement, PlacedInTree
      <4>3. At(v, "tree")' <=> At(v, "tree")
        BY <1>3 DEF At
      <4> QED
        BY <1>1, <1>3, <4>1, <4>2, <4>3
    <3>2. ASSUME NEW c \in Assigned(w) PROVE c \in Leaves' \/ (At(w, "tree")' /\ c = C(w)')
      <4>1. c \in Leaves
        BY <1>2 DEF Placement, PlacedInTree, At
      <4>2. At(w, "tree")'
        BY <1>4 DEF At
      <4> QED
        BY <1>1, <1>5, <4>1, <4>2
    <3> QED
      BY <1>6, <3>1, <3>2
  <2>3. \A v \in Workers : \A c \in Unlisted(v)' : row'[c] = "open"
    <3>1. ASSUME NEW v \in Workers \ {w}, NEW c \in Unlisted(v) PROVE row'[c] = "open"
      <4>1. row[c] = "open" /\ c \notin Assigned(w)
        BY <3>1 DEF Placement, PlacedInTree, OnePlace
      <4> QED
        BY <1>1, <1>2, <4>1
    <3>2. ASSUME NEW c \in kids PROVE row'[c] = "open"
      <4>1. c \in Chunks
        BY <1>1, <1>2, ChildrenAre DEF kids
      <4>2. c \notin Tree /\ c # p
        BY <1>1, TreeInChunks
      <4>3. row[c] = "open"
        BY <4>1, <4>2 DEF Placement, PlacedInTree
      <4> QED
        BY <1>1, <4>1, <4>2, <4>3
    <3> QED
      BY <1>3, <1>5, <3>1, <3>2
  <2>4. \A c \in Chunks \ Tree' : row'[c] = "open"
    <3>1. \A c \in Chunks \ Tree' : c \notin Tree /\ c # p
      BY <1>1, TreeInChunks
    <3> QED
      BY <1>1, <3>1 DEF Placement, PlacedInTree
  <2> QED
    BY <2>1, <2>2, <2>3, <2>4 DEF PlacedInTree
<1>10. AtHand'
  <2> SUFFICES ASSUME NEW v \in Workers
               PROVE  /\ At(v, "count")' => worker'[v].what \in Settled
                      /\ At(v, "write")' => \/ worker'[v].what \in Settled
                                            \/ worker'[v].what = "split" /\ Children[C(v)'] # <<>>
                      /\ At(v, "tree")' => /\ row'[C(v)'] = "split" /\ Children[C(v)'] # <<>>
                                           /\ worker'[v].what = "split"
                      /\ worker'[v].pc \in {"read", "update"} => row'[C(v)'] \in Settled
                      /\ worker'[v].pc \in {"idle", "done"} => worker'[v].todo = <<>>
                      /\ At(v, "done")' => queue' = <<>>
    BY DEF AtHand
  <2>1. CASE v = w
    <3>1. row'[p] = "split"
      BY <1>1, <1>2
    <3> QED
      BY <1>1, <1>4, <1>5, <2>1, <3>1 DEF At
  <2>2. CASE v # w
    <3>1. worker[v].pc \in {"tree", "read", "update"} => row'[C(v)] = row[C(v)]
      <4>1. worker[v].pc \in {"tree", "read", "update"} => C(v) \in Assigned(v)
        BY AssignedFacts
      <4>2. Assigned(v) \cap Assigned(w) = {}
        BY <2>2 DEF Placement, OnePlace
      <4>3. worker[v].pc \in {"tree", "read", "update"} => C(v) # p /\ C(v) \in Chunks
        BY <1>2, <4>1, <4>2, AssignedFacts
      <4> QED
        BY <1>1, <4>3
    <3> QED
      BY <1>3, <2>2, <3>1 DEF At, Placement, AtHand
  <2> QED
    BY <2>1, <2>2
<1>11. Covered'
  <2> SUFFICES ASSUME NEW c \in Leaves'
               PROVE  row'[c] \in Settled \/ c \in ElemsOf(queue)'
                      \/ \E v \in Workers : c \in Assigned(v)' \cup Unlisted(v)'
    BY DEF Covered
  <2>1. CASE c \in kids
    BY <1>5, <2>1
  <2>2. CASE c \in Leaves /\ c # p
    <3>1. row'[c] = row[c]
      BY <1>1, <2>2, TreeInChunks
    <3>2. row[c] \in Settled \/ c \in ElemsOf(queue)
          \/ \E v \in Workers : c \in Assigned(v) \cup Unlisted(v)
      BY <2>2 DEF Placement, Covered
    <3>3. \A v \in Workers : Assigned(v) \cup Unlisted(v) \subseteq Assigned(v)' \cup Unlisted(v)'
      BY <1>3, <1>5, <1>6
    <3> QED
      BY <1>3, <3>1, <3>2, <3>3
  <2> QED
    BY <1>1, <2>1, <2>2
<1>12. TotalIsRight'
  <2>1. Splitting' = Splitting \cup {w} /\ w \notin Splitting
    BY <1>2, <1>3, <1>4 DEF Splitting, At
  <2>2. Cardinality(Splitting') = Cardinality(Splitting) + 1
    BY <2>1, SplittingFinite, FS_AddElement
  <2>3. IsFiniteSet(kids) /\ Cardinality(kids) = 2 /\ kids \cap Leaves = {}
    BY <1>1, <1>2, ChildrenAre, TreeInChunks DEF kids
  <2>4. Cardinality(Leaves') = Cardinality(Leaves) + 1
    BY <1>1, <2>3, LeavesFinite, LeavesGrow
  <2>5. Cardinality(Leaves) = count.total + Cardinality(Splitting) /\ count.total \in Nat
    BY DEF Placement, TotalIsRight, Inv, TypeOK
  <2> QED
    BY <1>3, <2>2, <2>4, <2>5, SplittingFinite, LeavesFinite DEF TotalIsRight
<1> QED
  BY <1>8, <1>9, <1>10, <1>11, <1>12 DEF Placement

LEMMA UnlistedApart ==
    ASSUME Inv, Placement, NEW w \in Workers, NEW v \in Workers, w # v
    PROVE  Unlisted(w) \cap Unlisted(v) = {}
<1> SUFFICES ASSUME At(w, "tree"), At(v, "tree")
             PROVE  Elems(Children[C(w)]) \cap Elems(Children[C(v)]) = {}
  BY DEF Unlisted
<1>1. /\ C(w) \in Assigned(w) /\ C(w) \in Chunks /\ C(v) \in Assigned(v) /\ C(v) \in Chunks
  BY AssignedFacts DEF At
<1>2. C(w) # C(v) /\ Children[C(w)] # <<>>
  BY <1>1 DEF Placement, OnePlace, AtHand
<1> QED
  BY <1>1, <1>2, ChildrenAre

\* A worker goes on with another list, made of what was its own and what it took off the queue;
\* what is on no list afterwards has been settled.
LEMMA Relisted ==
    ASSUME Inv, Placement, NEW w \in Workers, NEW todo \in Seq(Chunks), Proceed(w, todo),
           row' = row, NoRepeat(todo), Elems(todo) \subseteq Leaves,
           Elems(todo) \subseteq Assigned(w) \cup Unlisted(w)
                                 \cup (ElemsOf(queue) \ ElemsOf(queue')),
           Apart(queue'), ElemsOf(queue') \subseteq ElemsOf(queue), queue = <<>> => queue' = <<>>,
           \A c \in Leaves \cap (ElemsOf(queue) \cup Assigned(w) \cup Unlisted(w)) :
               row[c] \in Settled \/ c \in ElemsOf(queue') \/ c \in Elems(todo),
           TotalIsRight'
    PROVE  Placement'
<1> DEFINE t == [Idle EXCEPT !.pc = "next", !.todo = todo]
<1>1. t.pc = "next" /\ t.todo = todo
  BY DEF Idle
<1>2. worker' = [worker EXCEPT ![w] = t]
  BY DEF Proceed
<1> HIDE DEF t
<1>3. /\ worker'[w] = t
      /\ \A v \in Workers \ {w} : /\ worker'[v] = worker[v] /\ Assigned(v)' = Assigned(v)
                                  /\ C(v)' = C(v) /\ Unlisted(v)' = Unlisted(v)
  BY <1>2, OthersStay
<1>4. Assigned(w)' = Elems(todo) /\ Unlisted(w)' = {}
  BY <1>1, <1>3 DEF Assigned, Unlisted, At
<1>5. Tree' = Tree /\ Leaves' = Leaves
  BY DEF Tree, Leaves, WithStatus
<1> DEFINE own == Assigned(w) \cup Unlisted(w)
<1>6. \A v \in Workers \ {w} :
        /\ own \cap Assigned(v) = {} /\ own \cap Unlisted(v) = {}
        /\ ElemsOf(queue) \cap Assigned(v) = {} /\ ElemsOf(queue) \cap Unlisted(v) = {}
  BY UnlistedApart DEF Placement, OnePlace
<1>7. own \cap ElemsOf(queue) = {}
  BY DEF Placement, OnePlace
<1>8. OnePlace'
  <2>1. \A v \in Workers : NoRepeat(worker[v].todo)'
    BY <1>1, <1>3 DEF Placement, OnePlace
  <2>2. \A v \in Workers : (Assigned(v)' \cup Unlisted(v)') \cap ElemsOf(queue)' = {}
    <3>1. (Assigned(w)' \cup Unlisted(w)') \cap ElemsOf(queue)' = {}
      BY <1>4, <1>7
    <3>2. \A v \in Workers \ {w} : (Assigned(v)' \cup Unlisted(v)') \cap ElemsOf(queue)' = {}
      BY <1>3, <1>6
    <3> QED
      BY <3>1, <3>2
  <2>3. \A v \in Workers \ {w} : Elems(todo) \cap Assigned(v) = {}
                                 /\ Elems(todo) \cap Unlisted(v) = {}
    BY <1>6
  <2>4. \A u, v \in Workers : u # v => Assigned(u)' \cap Assigned(v)' = {}
    <3> SUFFICES ASSUME NEW u \in Workers, NEW v \in Workers, u # v
                 PROVE  Assigned(u)' \cap Assigned(v)' = {}
      OBVIOUS
    <3>1. CASE u = w
      BY <1>3, <1>4, <2>3, <3>1
    <3>2. CASE v = w
      BY <1>3, <1>4, <2>3, <3>2
    <3>3. CASE u # w /\ v # w
      BY <1>3, <3>3 DEF Placement, OnePlace
    <3> QED
      BY <3>1, <3>2, <3>3
  <2>5. \A u, v \in Workers : Assigned(u)' \cap Unlisted(v)' = {}
    <3> SUFFICES ASSUME NEW u \in Workers, NEW v \in Workers
                 PROVE  Assigned(u)' \cap Unlisted(v)' = {}
      OBVIOUS
    <3>1. CASE v = w
      BY <1>4, <3>1
    <3>2. CASE u = w /\ v # w
      BY <1>3, <1>4, <2>3, <3>2
    <3>3. CASE u # w /\ v # w
      BY <1>3, <3>3 DEF Placement, OnePlace
    <3> QED
      BY <3>1, <3>2, <3>3
  <2> QED
    BY <2>1, <2>2, <2>4, <2>5 DEF OnePlace
<1>9. PlacedInTree'
  <2>1. \A v \in Workers : \A c \in Assigned(v)' : c \in Leaves' \/ (At(v, "tree")' /\ c = C(v)')
    <3>1. ASSUME NEW v \in Workers \ {w}, NEW c \in Assigned(v)
          PROVE  c \in Leaves \/ (At(v, "tree")' /\ c = C(v)')
      BY <1>3, <3>1 DEF Placement, PlacedInTree, At
    <3> QED
      BY <1>3, <1>4, <1>5, <3>1
  <2>2. \A v \in Workers : \A c \in Unlisted(v)' : row'[c] = "open"
    BY <1>3, <1>4 DEF Placement, PlacedInTree
  <2> QED
    BY <1>5, <2>1, <2>2 DEF Placement, PlacedInTree
<1>10. AtHand'
  <2> SUFFICES ASSUME NEW v \in Workers
               PROVE  /\ At(v, "count")' => worker'[v].what \in Settled
                      /\ At(v, "write")' => \/ worker'[v].what \in Settled
                                            \/ worker'[v].what = "split" /\ Children[C(v)'] # <<>>
                      /\ At(v, "tree")' => /\ row'[C(v)'] = "split" /\ Children[C(v)'] # <<>>
                                           /\ worker'[v].what = "split"
                      /\ worker'[v].pc \in {"read", "update"} => row'[C(v)'] \in Settled
                      /\ worker'[v].pc \in {"idle", "done"} => worker'[v].todo = <<>>
                      /\ At(v, "done")' => queue' = <<>>
    BY DEF AtHand
  <2>1. CASE v = w
    BY <1>1, <1>3, <2>1 DEF At
  <2>2. CASE v # w
    BY <1>3, <2>2 DEF At, Placement, AtHand
  <2> QED
    BY <2>1, <2>2
<1>11. Covered'
  <2> SUFFICES ASSUME NEW c \in Leaves
               PROVE  row[c] \in Settled \/ c \in ElemsOf(queue)'
                      \/ \E v \in Workers : c \in Assigned(v)' \cup Unlisted(v)'
    BY <1>5 DEF Covered
  <2>1. row[c] \in Settled \/ c \in ElemsOf(queue)
        \/ \E v \in Workers : c \in Assigned(v) \cup Unlisted(v)
    BY DEF Placement, Covered
  <2>2. CASE \E v \in Workers \ {w} : c \in Assigned(v) \cup Unlisted(v)
    BY <1>3, <2>2
  <2>3. CASE c \in ElemsOf(queue) \/ c \in own
    BY <1>4, <2>3
  <2> QED
    BY <2>1, <2>2, <2>3
<1> QED
  BY <1>8, <1>9, <1>10, <1>11 DEF Placement

LEMMA TakePlacement ==
    ASSUME Inv, Placement, NEW w \in Workers, At(w, "idle"), queue # <<>>,
           Proceed(w, Head(queue)), queue' = Tail(queue), UNCHANGED <<row, count>>
    PROVE  Placement'
<1>1. queue \in Seq(Seq(Chunks)) /\ Apart(queue)
  BY DEF Inv, TypeOK, Placement, OnePlace
<1>2. /\ Head(queue) \in Seq(Chunks) /\ NoRepeat(Head(queue)) /\ Apart(Tail(queue))
      /\ ElemsOf(queue) = Elems(Head(queue)) \cup ElemsOf(Tail(queue))
      /\ Elems(Head(queue)) \cap ElemsOf(Tail(queue)) = {}
  BY <1>1, QueueTail
<1>3. worker[w].todo = <<>>
  BY DEF Placement, AtHand, At
<1>4. Assigned(w) = {} /\ Unlisted(w) = {}
  BY <1>3 DEF Assigned, Elems, Unlisted, At
<1>5. worker'[w].pc = "next" /\ \A v \in Workers \ {w} : worker'[v] = worker[v]
  BY DEF Proceed, Idle, Inv, TypeOK
<1>6. Splitting' = Splitting
  BY <1>5 DEF Splitting, At
<1>7. Leaves' = Leaves
  BY DEF Leaves, WithStatus
<1>8. TotalIsRight'
  BY <1>6, <1>7 DEF TotalIsRight, Placement
<1>9. Elems(Head(queue)) \subseteq Leaves
  BY <1>2 DEF Placement, PlacedInTree
<1> QED
  BY <1>2, <1>4, <1>8, <1>9, Relisted

\* The children go where the chunk was.
LEMMA ListPlacement == ASSUME Inv, Placement, NEW w \in Workers, CountSplit(w) PROVE Placement'
<1> DEFINE s == worker[w].todo
           p == C(w)
<1>1. At(w, "tree") /\ p \in Assigned(w) /\ p \in Chunks /\ s \in Seq(Chunks) /\ s # <<>>
  BY AssignedFacts DEF CountSplit, At
<1>2. row[p] = "split" /\ Children[p] # <<>> /\ NoRepeat(s)
  BY <1>1 DEF Placement, AtHand, OnePlace
<1>3. /\ Tail(s) \in Seq(Chunks) /\ Elems(s) = {p} \cup Elems(Tail(s))
      /\ p \notin Elems(Tail(s)) /\ NoRepeat(Tail(s))
  BY <1>1, <1>2, HeadAndTail DEF C
<1>4. Children[p] \in Seq(Chunks) /\ NoRepeat(Children[p]) /\ Elems(Children[p]) \subseteq Chunks
  BY <1>1, <1>2, ChildrenAre
<1>5. Unlisted(w) = Elems(Children[p]) /\ Assigned(w) = Elems(s)
  BY <1>1 DEF Unlisted, Assigned
<1>6. Elems(Children[p]) \cap Elems(s) = {}
  BY <1>5 DEF Placement, OnePlace
<1> DEFINE todo == Children[p] \o Tail(s)
<1>7. /\ todo \in Seq(Chunks) /\ NoRepeat(todo)
      /\ Elems(todo) = Elems(Children[p]) \cup Elems(Tail(s))
  <2>1. Elems(Children[p]) \cap Elems(Tail(s)) = {}
    BY <1>3, <1>6
  <2> DEFINE kids == Children[p]
             tail == Tail(s)
  <2>2. kids \in Seq(Chunks) /\ tail \in Seq(Chunks)
    BY <1>3, <1>4
  <2>3. NoRepeat(kids) /\ NoRepeat(tail) /\ Elems(kids) \cap Elems(tail) = {}
    BY <1>3, <1>4, <2>1
  <2> HIDE DEF kids, tail
  <2>4. /\ kids \o tail \in Seq(Chunks) /\ NoRepeat(kids \o tail)
        /\ Elems(kids \o tail) = Elems(kids) \cup Elems(tail)
    BY <2>2, <2>3, Joined
  <2> QED
    BY <2>4 DEF kids, tail
<1>8. Proceed(w, todo) /\ queue' = queue /\ row' = row /\ count'.total = count.total + 1
  BY DEF CountSplit, Inv, TypeOK
<1> HIDE DEF todo, s
<1>9. Elems(todo) \subseteq Leaves
  <2>1. \A c \in Elems(Tail(s)) : c \in Leaves
    BY <1>3, <1>5 DEF Placement, PlacedInTree
  <2>2. \A c \in Elems(Children[p]) : row[c] = "open" /\ c \in Tree
    BY <1>1, <1>2, <1>5 DEF Placement, PlacedInTree, Tree, WithStatus
  <2> QED
    BY <1>7, <2>1, <2>2, LeavesAre
<1>10. p \notin Leaves
  BY <1>2, LeavesAre
<1>11. worker'[w].pc = "next" /\ \A v \in Workers \ {w} : worker'[v] = worker[v]
  BY <1>8 DEF Proceed, Idle, Inv, TypeOK
<1>12. TotalIsRight'
  <2>1. Splitting' = Splitting \ {w} /\ w \in Splitting
    BY <1>1, <1>11 DEF Splitting, At
  <2>2. Cardinality(Splitting') = Cardinality(Splitting) - 1
    BY <2>1, SplittingFinite, FS_RemoveElement
  <2>3. Leaves' = Leaves
    BY <1>8 DEF Leaves, WithStatus
  <2>4. Cardinality(Leaves) = count.total + Cardinality(Splitting) /\ count.total \in Nat
    BY DEF Placement, TotalIsRight, Inv, TypeOK
  <2> QED
    BY <1>8, <2>2, <2>3, <2>4, SplittingFinite, LeavesFinite DEF TotalIsRight
<1>13. Elems(todo) \subseteq Assigned(w) \cup Unlisted(w)
  BY <1>3, <1>5, <1>7
<1>14. \A c \in Leaves \cap (ElemsOf(queue) \cup Assigned(w) \cup Unlisted(w)) :
          row[c] \in Settled \/ c \in ElemsOf(queue') \/ c \in Elems(todo)
  BY <1>3, <1>5, <1>7, <1>8, <1>10
<1>15. Apart(queue') /\ ElemsOf(queue') \subseteq ElemsOf(queue) /\ (queue = <<>> => queue' = <<>>)
  BY <1>8 DEF Placement, OnePlace
<1> QED
  BY <1>7, <1>8, <1>9, <1>12, <1>13, <1>14, <1>15, Relisted

\* The chunk at hand is settled when it leaves the list.
LEMMA DropPlacement == ASSUME Inv, Placement, NEW w \in Workers, UpdateCounts(w) PROVE Placement'
<1> DEFINE s == worker[w].todo
           p == C(w)
<1>1. At(w, "update") /\ p \in Assigned(w) /\ p \in Chunks /\ s \in Seq(Chunks) /\ s # <<>>
  BY AssignedFacts DEF UpdateCounts, At
<1>2. row[p] \in Settled /\ NoRepeat(s)
  BY <1>1 DEF Placement, AtHand, OnePlace, At
<1>3. /\ Tail(s) \in Seq(Chunks) /\ Elems(s) = {p} \cup Elems(Tail(s))
      /\ p \notin Elems(Tail(s)) /\ NoRepeat(Tail(s))
  BY <1>1, <1>2, HeadAndTail DEF C
<1>4. Unlisted(w) = {} /\ Assigned(w) = Elems(s)
  BY <1>1 DEF Unlisted, Assigned, At
<1> DEFINE todo == Tail(s)
<1>5. Proceed(w, todo) /\ queue' = queue /\ row' = row /\ count'.total = count.total
  BY DEF UpdateCounts, Inv, TypeOK
<1> HIDE DEF todo, s
<1>6. Elems(todo) \subseteq Leaves
  BY <1>1, <1>3, <1>4 DEF Placement, PlacedInTree, At, todo
<1>7. worker'[w].pc = "next" /\ \A v \in Workers \ {w} : worker'[v] = worker[v]
  BY <1>5 DEF Proceed, Idle, Inv, TypeOK
<1>8. TotalIsRight'
  <2>1. Splitting' = Splitting
    BY <1>1, <1>7 DEF Splitting, At
  <2>2. Leaves' = Leaves
    BY <1>5 DEF Leaves, WithStatus
  <2> QED
    BY <1>5, <2>1, <2>2 DEF Placement, TotalIsRight
<1>9. Elems(todo) \subseteq Assigned(w) \cup Unlisted(w)
  BY <1>3, <1>4 DEF todo
<1>10. \A c \in Leaves \cap (ElemsOf(queue) \cup Assigned(w) \cup Unlisted(w)) :
          row[c] \in Settled \/ c \in ElemsOf(queue') \/ c \in Elems(todo)
  BY <1>2, <1>3, <1>4, <1>5 DEF todo
<1>11. Apart(queue') /\ ElemsOf(queue') \subseteq ElemsOf(queue) /\ (queue = <<>> => queue' = <<>>)
  BY <1>5 DEF Placement, OnePlace
<1>12. todo \in Seq(Chunks) /\ NoRepeat(todo)
  BY <1>3 DEF todo
<1> QED
  BY <1>5, <1>6, <1>8, <1>9, <1>10, <1>11, <1>12, Relisted

-----------------------------------------------------------------------------
(* The steps of a thread. *)

LEMMA WorkerRuns ==
    ASSUME RunInv, NEW w \in Workers, worker[w].pc \notin {"done", "dead"}
    PROVE  outcome = "running"
BY DEF RunInv, Decided

LEMMA DecidedLater == ASSUME outcome' = "running" PROVE Decided'
BY DEF Decided

LEMMA GoingBefore ==
    ASSUME Inv, NEW w \in Workers, NEW t, worker' = [worker EXCEPT ![w] = t],
           worker[w].pc # "dead", cancel' = cancel, Going'
    PROVE  Going
<1>1. \A v \in Workers \ {w} : worker'[v] = worker[v]
  BY OthersStay
<1> QED
  BY <1>1 DEF Going, At

\* The lock is let go of, or was not held.
LEMMA UpdaterSteps ==
    ASSUME Inv, UpdaterLocks, NEW w \in Workers, NEW t, worker' = [worker EXCEPT ![w] = t],
           t.pc # "update", lock' = IF lock = w THEN NoOne ELSE lock
    PROVE  UpdaterLocks'
<1>1. worker'[w] = t /\ \A v \in Workers \ {w} : worker'[v] = worker[v]
  BY OthersStay
<1>2. lock' # w
  BY NoOneAssumption
<1>3. \A v \in Workers \ {w} : lock' = v <=> lock = v
  BY NoOneAssumption
<1> QED
  BY <1>1, <1>2, <1>3 DEF UpdaterLocks, At

LEMMA LockKept ==
    ASSUME UpdaterLocks, NEW w \in Workers, ~At(w, "update"), lock' = lock
    PROVE  lock' = IF lock = w THEN NoOne ELSE lock
BY DEF UpdaterLocks

\* A thread goes on with the chunk at hand.
LEMMA BusyStep ==
    ASSUME Inv, RunInv, NEW w \in Workers, NEW t, worker' = [worker EXCEPT ![w] = t],
           t.todo = worker[w].todo, t.pc \notin {"idle", "next", "tree", "update", "done", "dead"},
           worker[w].pc \notin {"tree", "done", "dead"},
           queue' = queue, count'.total = count.total, cancel' = cancel, outcome' = outcome,
           lock' = IF lock = w THEN NoOne ELSE lock,
           \/ row' = row
           \/ /\ worker[w].pc \notin {"idle", "next", "done", "dead"}
              /\ \E status \in {"open"} \cup Settled : row' = [row EXCEPT ![C(w)] = status],
           t.pc = "count" => t.what \in Settled,
           t.pc = "write" => \/ t.what \in Settled
                             \/ t.what = "split" /\ Children[C(w)] # <<>>,
           t.pc = "read" => row'[C(w)] \in Settled
    PROVE  RunInv'
<1>1. UpdaterLocks'
  BY UpdaterSteps DEF RunInv
<1>2. Decided'
  BY WorkerRuns, DecidedLater
<1>3. ASSUME Going' PROVE Placement' /\ CatchesUp'
  <2>1. Going
    BY <1>3, GoingBefore
  <2>2. Placement'
    BY <2>1, PlainPlacement DEF RunInv
  <2>3. worker'[w] = t
    BY OthersStay
  <2>4. Owes(w)'
    BY <2>3 DEF Owes
  <2> QED
    BY <2>2, <2>4 DEF CatchesUp
<1> QED
  BY <1>1, <1>2, <1>3 DEF RunInv

\* A thread ends early: nothing is said of a run that was cancelled or lost a thread.
LEMMA EndStep ==
    ASSUME Inv, RunInv, NEW w \in Workers, NEW t, worker' = [worker EXCEPT ![w] = t],
           t.pc \in {"done", "dead"}, worker[w].pc \notin {"done", "dead"},
           cancel' \/ t.pc = "dead", lock' = IF lock = w THEN NoOne ELSE lock, outcome' = outcome
    PROVE  RunInv'
<1>1. UpdaterLocks'
  BY UpdaterSteps DEF RunInv
<1>2. Decided'
  BY WorkerRuns, DecidedLater
<1>3. worker'[w] = t
  BY OthersStay
<1>4. ~Going'
  BY <1>3 DEF Going, At
<1> QED
  BY <1>1, <1>2, <1>4 DEF RunInv

LEMMA LeaveSteps ==
    ASSUME Inv, RunInv, NEW w \in Workers, worker[w].pc \notin {"update", "done", "dead"},
           Leave(w), cancel, UNCHANGED <<cancel, lock, outcome>>
    PROVE  RunInv'
<1> DEFINE t == [Idle EXCEPT !.pc = "done"]
<1>1. t.pc = "done" /\ worker' = [worker EXCEPT ![w] = t]
  BY DEF Leave, Idle
<1> HIDE DEF t
<1>2. lock' = IF lock = w THEN NoOne ELSE lock
  BY LockKept DEF RunInv, At
<1> QED
  BY <1>1, <1>2, EndStep

LEMMA GotoIs ==
    ASSUME Inv, NEW w \in Workers, NEW pc, Goto(w, pc)
    PROVE  \E t : /\ worker' = [worker EXCEPT ![w] = t]
                  /\ t.pc = pc /\ t.todo = worker[w].todo /\ t.what = worker[w].what
<1> DEFINE t == [worker[w] EXCEPT !.pc = pc]
<1>1. worker[w] \in Threads
  BY AssignedFacts
<1>2. t.pc = pc /\ t.todo = worker[w].todo /\ t.what = worker[w].what
  BY <1>1 DEF Threads
<1>3. worker' = [worker EXCEPT ![w] = t]
  BY DEF Goto
<1> QED
  BY <1>2, <1>3

LEMMA GoIs ==
    ASSUME Inv, NEW w \in Workers, NEW pc, NEW what, Go(w, pc, what)
    PROVE  \E t : /\ worker' = [worker EXCEPT ![w] = t]
                  /\ t.pc = pc /\ t.todo = worker[w].todo /\ t.what = what
<1> DEFINE t == [worker[w] EXCEPT !.pc = pc, !.what = what]
<1>1. worker[w] \in Threads
  BY AssignedFacts
<1>2. t.pc = pc /\ t.todo = worker[w].todo /\ t.what = what
  BY <1>1 DEF Threads
<1>3. worker' = [worker EXCEPT ![w] = t]
  BY DEF Go
<1> QED
  BY <1>2, <1>3

\* A step to another place within the handling of a chunk that writes nothing.
LEMMA GotoSteps ==
    ASSUME Inv, RunInv, NEW w \in Workers, NEW t, worker' = [worker EXCEPT ![w] = t],
           t.todo = worker[w].todo,
           t.pc \in {"attempt", "acquire", "publish", "call", "ok", "pressed", "err", "decide", "sleep"},
           worker[w].pc \notin {"tree", "update", "done", "dead"},
           UNCHANGED <<queue, row, count, lock, cancel, outcome>>
    PROVE  RunInv'
<1>1. lock' = IF lock = w THEN NoOne ELSE lock
  BY LockKept DEF RunInv, At
<1> QED
  BY <1>1, BusyStep

LEMMA AttemptRuns == ASSUME Inv, RunInv, NEW w \in Workers, Attempt(w) PROVE RunInv'
<1>1. worker[w].pc = "attempt" /\ UNCHANGED <<queue, count, lock, cancel, outcome>>
  BY DEF Attempt, At
<1>2. CASE LeaveChunk(w)
  BY <1>1, <1>2, LeaveSteps DEF LeaveChunk
<1>3. CASE Goto(w, "acquire") /\ SetRow(w, "open")
  <2>1. PICK t : /\ worker' = [worker EXCEPT ![w] = t]
                 /\ t.pc = "acquire" /\ t.todo = worker[w].todo /\ t.what = worker[w].what
    BY <1>3, GotoIs
  <2>2. lock' = IF lock = w THEN NoOne ELSE lock
    BY <1>1, LockKept DEF RunInv, At
  <2>3. \E status \in {"open"} \cup Settled : row' = [row EXCEPT ![C(w)] = status]
    BY <1>3 DEF SetRow
  <2> QED
    BY <1>1, <2>1, <2>2, <2>3, BusyStep
<1> QED
  BY <1>2, <1>3 DEF Attempt

LEMMA CallRuns ==
    ASSUME Inv, RunInv, NEW w \in Workers,
           Acquire(w) \/ Publish(w) \/ Release(w)
    PROVE  RunInv'
<1>1. worker[w].pc \in {"acquire", "publish", "call"}
      /\ UNCHANGED <<queue, count, lock, cancel, outcome>>
  BY DEF Acquire, Publish, Release, At
<1>2. CASE LeaveChunk(w)
  BY <1>1, <1>2, LeaveSteps DEF LeaveChunk
<1>3. ASSUME row' = row, NEW pc \in {"publish", "call", "ok", "pressed"}, Goto(w, pc) PROVE RunInv'
  <2>1. PICK t : /\ worker' = [worker EXCEPT ![w] = t]
                 /\ t.pc = pc /\ t.todo = worker[w].todo /\ t.what = worker[w].what
    BY <1>3, GotoIs
  <2> QED
    BY <1>1, <1>3, <2>1, GotoSteps
<1>4. ASSUME row' = row, NEW pressure \in BOOLEAN, NEW retry \in BOOLEAN,
             worker' = [worker EXCEPT ![w] = [worker[w] EXCEPT !.pc = "err", !.pressure = pressure,
                                                               !.retry = retry]]
      PROVE  RunInv'
  <2> DEFINE t == [worker[w] EXCEPT !.pc = "err", !.pressure = pressure, !.retry = retry]
  <2>1. worker[w] \in Threads
    BY AssignedFacts
  <2>2. t.pc = "err" /\ t.todo = worker[w].todo /\ worker' = [worker EXCEPT ![w] = t]
    BY <1>4, <2>1 DEF Threads
  <2> HIDE DEF t
  <2> QED
    BY <1>1, <1>4, <2>2, GotoSteps
<1> QED
  BY <1>2, <1>3, <1>4 DEF Acquire, Publish, Release

LEMMA RecordRuns ==
    ASSUME Inv, RunInv, NEW w \in Workers,
           RecordSuccess(w) \/ RecordPressure(w) \/ RecordFailure(w)
    PROVE  RunInv'
<1>1. worker[w].pc \in {"ok", "pressed", "err"}
      /\ UNCHANGED <<queue, row, count, lock, cancel, outcome>>
  BY DEF RecordSuccess, RecordPressure, RecordFailure, At
<1>2. lock' = IF lock = w THEN NoOne ELSE lock
  BY <1>1, LockKept DEF RunInv, At
<1>3. CASE Go(w, "count", "succeeded")
  <2>1. PICK t : /\ worker' = [worker EXCEPT ![w] = t]
                 /\ t.pc = "count" /\ t.todo = worker[w].todo /\ t.what = "succeeded"
    BY <1>3, GoIs
  <2> QED
    BY <1>1, <1>2, <2>1, BusyStep DEF Settled
<1>4. CASE Goto(w, "decide")
  <2>1. PICK t : /\ worker' = [worker EXCEPT ![w] = t]
                 /\ t.pc = "decide" /\ t.todo = worker[w].todo /\ t.what = worker[w].what
    BY <1>4, GotoIs
  <2> QED
    BY <1>1, <2>1, GotoSteps
<1>5. ASSUME NEW token,
             worker' = [worker EXCEPT ![w] = [worker[w] EXCEPT !.pc = "decide", !.token = token]]
      PROVE  RunInv'
  <2> DEFINE t == [worker[w] EXCEPT !.pc = "decide", !.token = token]
  <2>1. worker[w] \in Threads
    BY AssignedFacts
  <2>2. t.pc = "decide" /\ t.todo = worker[w].todo /\ worker' = [worker EXCEPT ![w] = t]
    BY <1>5, <2>1 DEF Threads
  <2> HIDE DEF t
  <2> QED
    BY <1>1, <2>2, GotoSteps
<1> QED
  BY <1>3, <1>4, <1>5 DEF RecordSuccess, RecordPressure, RecordFailure

LEMMA DecideRuns == ASSUME Inv, RunInv, NEW w \in Workers, Decide(w) PROVE RunInv'
<1>1. worker[w].pc = "decide" /\ UNCHANGED <<queue, count, lock, cancel, outcome>>
  BY DEF Decide, At
<1>2. lock' = IF lock = w THEN NoOne ELSE lock
  BY <1>1, LockKept DEF RunInv, At
<1>3. CASE Children[C(w)] # <<>> /\ Go(w, "write", "split") /\ UNCHANGED row
  <2>1. PICK t : /\ worker' = [worker EXCEPT ![w] = t]
                 /\ t.pc = "write" /\ t.todo = worker[w].todo /\ t.what = "split"
    BY <1>3, GoIs
  <2> QED
    BY <1>1, <1>2, <1>3, <2>1, BusyStep
<1>4. CASE /\ worker' = [worker EXCEPT ![w] = [worker[w] EXCEPT !.pc = "sleep", !.wait = ctl.until]]
           /\ SetRow(w, "open")
  <2> DEFINE t == [worker[w] EXCEPT !.pc = "sleep", !.wait = ctl.until]
  <2>1. worker[w] \in Threads
    BY AssignedFacts
  <2>2. t.pc = "sleep" /\ t.todo = worker[w].todo /\ worker' = [worker EXCEPT ![w] = t]
    BY <1>4, <2>1 DEF Threads
  <2>3. \E status \in {"open"} \cup Settled : row' = [row EXCEPT ![C(w)] = status]
    BY <1>4 DEF SetRow
  <2> HIDE DEF t
  <2> QED
    BY <1>1, <1>2, <2>2, <2>3, BusyStep
<1>5. CASE LeaveChunk(w)
  BY <1>1, <1>5, LeaveSteps DEF LeaveChunk
<1>6. CASE Go(w, "count", "failed") /\ UNCHANGED row
  <2>1. PICK t : /\ worker' = [worker EXCEPT ![w] = t]
                 /\ t.pc = "count" /\ t.todo = worker[w].todo /\ t.what = "failed"
    BY <1>6, GoIs
  <2> QED
    BY <1>1, <1>2, <1>6, <2>1, BusyStep DEF Settled
<1> QED
  BY <1>3, <1>4, <1>5, <1>6 DEF Decide

LEMMA WakeRuns == ASSUME Inv, RunInv, NEW w \in Workers, Wake(w) PROVE RunInv'
<1>1. worker[w].pc = "sleep" /\ UNCHANGED <<queue, count, lock, cancel, outcome>>
  BY DEF Wake, At
<1>2. CASE LeaveChunk(w)
  BY <1>1, <1>2, LeaveSteps DEF LeaveChunk
<1>3. CASE worker' = [worker EXCEPT ![w] = NextAttempt(worker[w])] /\ row' = row
  <2> DEFINE t == NextAttempt(worker[w])
  <2>1. worker[w] \in Threads
    BY AssignedFacts
  <2>2. t.pc = "attempt" /\ t.todo = worker[w].todo /\ worker' = [worker EXCEPT ![w] = t]
    BY <1>3, <2>1 DEF Threads, NextAttempt
  <2> HIDE DEF t
  <2> QED
    BY <1>1, <1>3, <2>2, GotoSteps
<1> QED
  BY <1>2, <1>3 DEF Wake

LEMMA CountRuns == ASSUME Inv, RunInv, NEW w \in Workers, Count(w) PROVE RunInv'
<1>1. worker[w].pc = "count" /\ UNCHANGED <<queue, row, lock, cancel, outcome>>
  BY DEF Count, At
<1>2. lock' = IF lock = w THEN NoOne ELSE lock
  BY <1>1, LockKept DEF RunInv, At
<1>3. PICK t : /\ worker' = [worker EXCEPT ![w] = t]
               /\ t.pc = "write" /\ t.todo = worker[w].todo /\ t.what = worker[w].what
  BY GotoIs DEF Count
<1>4. count'.total = count.total
  BY DEF Count, Inv, TypeOK
<1>5. CASE Going
  <2>1. worker[w].what \in Settled
    BY <1>1, <1>5 DEF RunInv, Placement, AtHand, At
  <2> QED
    BY <1>1, <1>2, <1>3, <1>4, <2>1, BusyStep
<1>6. CASE ~Going
  <2>1. ~Going'
    BY <1>1, <1>3, <1>6, GoingBefore
  <2>2. UpdaterLocks' /\ Decided'
    BY <1>1, <1>2, <1>3, UpdaterSteps, WorkerRuns, DecidedLater DEF RunInv
  <2> QED
    BY <2>1, <2>2 DEF RunInv
<1> QED
  BY <1>5, <1>6

LEMMA WriteRuns == ASSUME Inv, RunInv, NEW w \in Workers, Write(w) PROVE RunInv'
<1>1. worker[w].pc = "write" /\ UNCHANGED <<queue, count, lock, cancel, outcome>>
      /\ row' = [row EXCEPT ![C(w)] = worker[w].what]
  BY DEF Write, At, SetRow
<1>2. lock' = IF lock = w THEN NoOne ELSE lock
  BY <1>1, LockKept DEF RunInv, At
<1>3. PICK t : /\ worker' = [worker EXCEPT ![w] = t]
               /\ t.pc = (IF worker[w].what = "split" THEN "tree" ELSE "read")
               /\ t.todo = worker[w].todo /\ t.what = worker[w].what
  BY GotoIs DEF Write
<1>4. CASE Going /\ worker[w].what # "split"
  <2>1. worker[w].what \in Settled
    BY <1>1, <1>4 DEF RunInv, Placement, AtHand, At
  <2>2. row'[C(w)] \in Settled
    BY <1>1, <2>1, AssignedFacts DEF Inv, TypeOK
  <2>3. \E status \in {"open"} \cup Settled : row' = [row EXCEPT ![C(w)] = status]
    BY <1>1, <2>1
  <2> QED
    BY <1>1, <1>2, <1>3, <1>4, <2>2, <2>3, BusyStep
<1>5. UpdaterLocks' /\ Decided'
  BY <1>1, <1>2, <1>3, UpdaterSteps, WorkerRuns, DecidedLater DEF RunInv
<1>6. CASE Going /\ worker[w].what = "split"
  <2>1. Placement'
    BY <1>6, SplitPlacement DEF RunInv
  <2>2. worker'[w].pc = "tree"
    BY <1>3, <1>6, OthersStay
  <2>3. CatchesUp'
    BY <2>2 DEF CatchesUp, Owes
  <2> QED
    BY <1>5, <2>1, <2>3 DEF RunInv
<1>7. CASE ~Going
  <2>1. ~Going'
    BY <1>1, <1>3, <1>7, GoingBefore
  <2> QED
    BY <1>5, <2>1 DEF RunInv
<1> QED
  BY <1>4, <1>6, <1>7

\* The counters stay caught up with when a worker moves that has nothing to recompute.
LEMMA CatchUpKept ==
    ASSUME Inv, CatchesUp, NEW w \in Workers, NEW t, worker' = [worker EXCEPT ![w] = t],
           ~Owes(w), ~At(w, "update"), t.pc # "update", UNCHANGED <<row, count>>
    PROVE  CatchesUp'
<1>1. worker'[w] = t /\ \A v \in Workers \ {w} : worker'[v] = worker[v]
  BY OthersStay
<1>2. Counted' = Counted
  BY DEF Counted, WithStatus
<1>3. CASE \E v \in Workers : Owes(v)
  <2>1. PICK v \in Workers : Owes(v)
    BY <1>3
  <2>2. worker'[v] = worker[v]
    BY <1>1, <2>1
  <2>3. Owes(v)'
    BY <2>1, <2>2 DEF Owes, At
  <2> QED
    BY <2>3 DEF CatchesUp
<1>4. CASE \E v \in Workers : At(v, "update") /\ worker[v].seen = Counted
  <2>1. PICK v \in Workers : At(v, "update") /\ worker[v].seen = Counted
    BY <1>4
  <2>2. worker'[v] = worker[v]
    BY <1>1, <2>1
  <2>3. At(v, "update")' /\ worker'[v].seen = Counted'
    BY <1>2, <2>1, <2>2 DEF At
  <2> QED
    BY <2>3 DEF CatchesUp
<1>5. CASE Accurate /\ \A v \in Workers : ~At(v, "update")
  BY <1>1, <1>2, <1>5 DEF CatchesUp, Accurate, At
<1> QED
  BY <1>3, <1>4, <1>5 DEF CatchesUp

LEMMA NextChunkRuns == ASSUME Inv, RunInv, NEW w \in Workers, NextChunk(w) PROVE RunInv'
<1>1. worker[w].pc = "next" /\ UNCHANGED <<queue, row, count, lock, cancel, outcome>>
  BY DEF NextChunk, At
<1>2. lock' = IF lock = w THEN NoOne ELSE lock
  BY <1>1, LockKept DEF RunInv, At
<1>3. CASE cancel /\ Leave(w)
  BY <1>1, <1>3, LeaveSteps
<1>4. CASE Goto(w, "attempt")
  <2>1. PICK t : /\ worker' = [worker EXCEPT ![w] = t]
                 /\ t.pc = "attempt" /\ t.todo = worker[w].todo /\ t.what = worker[w].what
    BY <1>4, GotoIs
  <2> QED
    BY <1>1, <2>1, GotoSteps
<1>5. ASSUME NEW what \in {"skipped", "failed"}, Go(w, "count", what) PROVE RunInv'
  <2>1. PICK t : /\ worker' = [worker EXCEPT ![w] = t]
                 /\ t.pc = "count" /\ t.todo = worker[w].todo /\ t.what = what
    BY <1>5, GoIs
  <2> QED
    BY <1>1, <1>2, <2>1, BusyStep DEF Settled
<1>6. CASE worker[w].todo = <<>> /\ Goto(w, "idle")
  <2>1. PICK t : /\ worker' = [worker EXCEPT ![w] = t]
                 /\ t.pc = "idle" /\ t.todo = worker[w].todo /\ t.what = worker[w].what
    BY <1>6, GotoIs
  <2>2. UpdaterLocks' /\ Decided'
    BY <1>1, <1>2, <2>1, UpdaterSteps, WorkerRuns, DecidedLater DEF RunInv
  <2>3. ASSUME Going' PROVE Placement' /\ CatchesUp'
    <3>1. Going
      BY <1>1, <2>1, <2>3, GoingBefore
    <3>2. Placement'
      BY <1>1, <1>6, <2>1, <3>1, PlainPlacement DEF RunInv
    <3>3. ~Owes(w) /\ ~At(w, "update")
      BY <1>1, <1>6 DEF Owes, At
    <3>4. CatchesUp'
      BY <1>1, <2>1, <3>1, <3>3, CatchUpKept DEF RunInv
    <3> QED
      BY <3>2, <3>4
  <2> QED
    BY <2>2, <2>3 DEF RunInv
<1> QED
  BY <1>3, <1>4, <1>5, <1>6 DEF NextChunk

LEMMA TakeGroupRuns == ASSUME Inv, RunInv, NEW w \in Workers, TakeGroup(w) PROVE RunInv'
<1>1. worker[w].pc = "idle" /\ UNCHANGED <<row, count, lock, cancel, outcome>>
  BY DEF TakeGroup, At
<1>2. lock' = IF lock = w THEN NoOne ELSE lock
  BY <1>1, LockKept DEF RunInv, At
<1>3. ~Owes(w) /\ ~At(w, "update")
  BY <1>1 DEF Owes, At
<1>4. CASE cancel /\ Leave(w)
  BY <1>1, <1>4, LeaveSteps
<1>5. CASE queue = <<>> /\ Leave(w) /\ UNCHANGED queue
  <2> DEFINE t == [Idle EXCEPT !.pc = "done"]
  <2>1. t.pc = "done" /\ t.todo = <<>> /\ worker' = [worker EXCEPT ![w] = t]
    BY <1>5 DEF Leave, Idle
  <2> HIDE DEF t
  <2>2. UpdaterLocks' /\ Decided'
    BY <1>1, <1>2, <2>1, UpdaterSteps, WorkerRuns, DecidedLater DEF RunInv
  <2>3. ASSUME Going' PROVE Placement' /\ CatchesUp'
    <3>1. Going
      BY <1>1, <2>1, <2>3, GoingBefore
    <3>2. worker[w].todo = <<>>
      BY <1>1, <3>1 DEF RunInv, Placement, AtHand
    <3>3. Placement'
      BY <1>1, <1>5, <2>1, <3>1, <3>2, PlainPlacement DEF RunInv
    <3>4. CatchesUp'
      BY <1>1, <1>3, <2>1, <3>1, CatchUpKept DEF RunInv
    <3> QED
      BY <3>3, <3>4
  <2> QED
    BY <2>2, <2>3 DEF RunInv
<1>6. CASE queue # <<>> /\ Proceed(w, Head(queue)) /\ queue' = Tail(queue)
  <2> DEFINE t == [Idle EXCEPT !.pc = "next", !.todo = Head(queue)]
  <2>1. t.pc = "next" /\ worker' = [worker EXCEPT ![w] = t]
    BY <1>6 DEF Proceed, Idle
  <2> HIDE DEF t
  <2>2. UpdaterLocks' /\ Decided'
    BY <1>1, <1>2, <2>1, UpdaterSteps, WorkerRuns, DecidedLater DEF RunInv
  <2>3. ASSUME Going' PROVE Placement' /\ CatchesUp'
    <3>1. Going
      BY <1>1, <2>1, <2>3, GoingBefore
    <3>2. Placement'
      BY <1>1, <1>6, <3>1, TakePlacement DEF RunInv, At
    <3>3. CatchesUp'
      BY <1>1, <1>3, <2>1, <3>1, CatchUpKept DEF RunInv
    <3> QED
      BY <3>2, <3>3
  <2> QED
    BY <2>2, <2>3 DEF RunInv
<1> QED
  BY <1>4, <1>5, <1>6 DEF TakeGroup

LEMMA CountSplitRuns == ASSUME Inv, RunInv, NEW w \in Workers, CountSplit(w) PROVE RunInv'
<1> DEFINE todo == Children[C(w)] \o Tail(worker[w].todo)
           t == [Idle EXCEPT !.pc = "next", !.todo = todo]
<1>1. worker[w].pc = "tree" /\ UNCHANGED <<queue, row, lock, cancel, outcome>>
  BY DEF CountSplit, At
<1>2. t.pc = "next" /\ t.todo = todo /\ worker' = [worker EXCEPT ![w] = t]
  BY DEF CountSplit, Proceed, Idle
<1> HIDE DEF t
<1>3. lock' = IF lock = w THEN NoOne ELSE lock
  BY <1>1, LockKept DEF RunInv, At
<1>4. UpdaterLocks' /\ Decided'
  BY <1>1, <1>2, <1>3, UpdaterSteps, WorkerRuns, DecidedLater DEF RunInv
<1>5. ASSUME Going' PROVE Placement' /\ CatchesUp'
  <2>1. Going
    BY <1>1, <1>2, <1>5, GoingBefore
  <2>2. Placement'
    BY <2>1, ListPlacement DEF RunInv
  <2>3. Children[C(w)] # <<>> /\ C(w) \in Chunks /\ worker[w].todo \in Seq(Chunks)
        /\ worker[w].todo # <<>>
    BY <1>1, <2>1, AssignedFacts DEF RunInv, Placement, AtHand, At
  <2>4. Children[C(w)] \in Seq(Chunks) /\ Tail(worker[w].todo) \in Seq(Chunks)
    BY <2>3, ChunksAssumption
  <2>5. todo # <<>>
    BY <2>3, <2>4
  <2>6. worker'[w].pc = "next" /\ worker'[w].todo = todo
    BY <1>2, OthersStay
  <2> HIDE DEF todo
  <2>7. Owes(w)'
    BY <2>5, <2>6 DEF Owes, At
  <2> QED
    BY <2>2, <2>7 DEF CatchesUp
<1> QED
  BY <1>4, <1>5 DEF RunInv

\* What is read is what the rows say, until they are written again.
LEMMA ReadRuns == ASSUME Inv, RunInv, NEW w \in Workers, ReadRows(w) PROVE RunInv'
<1> DEFINE seen == Counted
           t == [worker[w] EXCEPT !.pc = "update", !.seen = seen]
<1>1. worker[w].pc = "read" /\ UNCHANGED <<queue, row, count, cancel, outcome>> /\ lock = NoOne
      /\ lock' = w
  BY DEF ReadRows, At
<1>2. worker[w] \in Threads
  BY AssignedFacts
<1>3. worker' = [worker EXCEPT ![w] = t]
  BY DEF ReadRows
<1> HIDE DEF seen
<1>4. t.pc = "update" /\ t.seen = seen /\ t.todo = worker[w].todo
  BY <1>2 DEF Threads
<1> HIDE DEF t
<1>5. worker'[w] = t /\ \A v \in Workers \ {w} : worker'[v] = worker[v]
  BY <1>3, OthersStay
<1>6. UpdaterLocks'
  <2>1. \A v \in Workers \ {w} : ~At(v, "update")
    BY <1>1, NoOneAssumption DEF RunInv, UpdaterLocks
  <2> QED
    BY <1>1, <1>4, <1>5, <2>1 DEF UpdaterLocks, At
<1>7. Decided'
  BY <1>1, WorkerRuns, DecidedLater
<1>8. ASSUME Going' PROVE Placement' /\ CatchesUp'
  <2>1. Going
    BY <1>1, <1>3, <1>8, GoingBefore
  <2>2. row[C(w)] \in Settled
    BY <1>1, <2>1 DEF RunInv, Placement, AtHand
  <2>3. Placement'
    BY <1>1, <1>3, <1>4, <2>1, <2>2, PlainPlacement DEF RunInv
  <2>4. Counted' = seen
    BY <1>1 DEF seen, Counted, WithStatus
  <2>5. At(w, "update")' /\ worker'[w].seen = Counted'
    BY <1>4, <1>5, <2>4 DEF At
  <2> QED
    BY <2>3, <2>5 DEF CatchesUp
<1> QED
  BY <1>6, <1>7, <1>8 DEF RunInv

\* Whoever has written a row since then has yet to read.
LEMMA UpdateRuns == ASSUME Inv, RunInv, NEW w \in Workers, UpdateCounts(w) PROVE RunInv'
<1> DEFINE t == [Idle EXCEPT !.pc = "next", !.todo = Tail(worker[w].todo)]
<1>1. worker[w].pc = "update" /\ UNCHANGED <<queue, row, cancel, outcome>>
      /\ lock' = IF lock = w THEN NoOne ELSE lock
  BY DEF UpdateCounts, At
<1>2. t.pc = "next" /\ worker' = [worker EXCEPT ![w] = t]
  BY DEF UpdateCounts, Proceed, Idle
<1> HIDE DEF t
<1>3. worker'[w] = t /\ \A v \in Workers \ {w} : worker'[v] = worker[v]
  BY <1>2, OthersStay
<1>4. UpdaterLocks' /\ Decided'
  BY <1>1, <1>2, UpdaterSteps, WorkerRuns, DecidedLater DEF RunInv
<1>5. ASSUME Going' PROVE Placement' /\ CatchesUp'
  <2>1. Going
    BY <1>1, <1>2, <1>5, GoingBefore
  <2>2. Placement'
    BY <2>1, DropPlacement DEF RunInv
  <2>3. \A v \in Workers \ {w} : ~At(v, "update")
    BY <1>1 DEF RunInv, UpdaterLocks, At
  <2>4. ASSUME \E v \in Workers : Owes(v) PROVE CatchesUp'
    <3>1. PICK v \in Workers : Owes(v)
      BY <2>4
    <3>2. v # w
      BY <1>1, <3>1 DEF Owes, At
    <3>3. Owes(v)'
      BY <1>3, <3>1, <3>2 DEF Owes, At
    <3> QED
      BY <3>3 DEF CatchesUp
  <2>5. ASSUME \E v \in Workers : At(v, "update") /\ worker[v].seen = Counted PROVE CatchesUp'
    <3>1. worker[w].seen = Counted
      BY <2>3, <2>5
    <3>2. count'.processed = Counted.processed /\ count'.failed = Counted.failed
      BY <3>1 DEF UpdateCounts, Inv, TypeOK
    <3>3. Counted' = Counted
      BY <1>1 DEF Counted, WithStatus
    <3>4. \A v \in Workers : ~At(v, "update")'
      BY <1>2, <1>3, <2>3 DEF At
    <3> QED
      BY <3>2, <3>3, <3>4 DEF CatchesUp, Accurate
  <2>6. At(w, "update")
    BY <1>1 DEF At
  <2>7. CatchesUp'
    BY <2>1, <2>4, <2>5, <2>6 DEF RunInv, CatchesUp
  <2> QED
    BY <2>2, <2>7
<1> QED
  BY <1>4, <1>5 DEF RunInv

LEMMA WriteFailsRuns == ASSUME Inv, RunInv, NEW w \in Workers, WriteFails(w) PROVE RunInv'
<1>1. worker[w].pc \in {"next", "attempt", "decide", "count", "write", "tree", "read", "update"}
      /\ UNCHANGED <<queue, row, count, cancel, outcome>>
      /\ lock' = IF lock = w THEN NoOne ELSE lock
  BY DEF WriteFails
<1>2. CASE worker' = [worker EXCEPT ![w] = [Idle EXCEPT !.pc = "dead"]]
  <2> DEFINE t == [Idle EXCEPT !.pc = "dead"]
  <2>1. t.pc = "dead" /\ worker' = [worker EXCEPT ![w] = t]
    BY <1>2 DEF Idle
  <2> HIDE DEF t
  <2> QED
    BY <1>1, <2>1, EndStep
<1>3. CASE worker[w].what = "succeeded" /\ FailAttempt(w)
  <2> DEFINE t == [worker[w] EXCEPT !.pc = "err", !.what = "open", !.pressure = FALSE,
                                    !.retry = TRUE]
  <2>1. worker[w] \in Threads
    BY AssignedFacts
  <2>2. t.pc = "err" /\ t.todo = worker[w].todo /\ worker' = [worker EXCEPT ![w] = t]
    BY <1>3, <2>1 DEF Threads, FailAttempt
  <2> HIDE DEF t
  <2>3. CASE Going
    <3>1. worker[w].pc # "tree"
      BY <1>3, <2>3 DEF RunInv, Placement, AtHand, At
    <3> QED
      BY <1>1, <2>2, <3>1, BusyStep
  <2>4. CASE ~Going
    <3>1. ~Going'
      BY <1>1, <2>2, <2>4, GoingBefore
    <3>2. UpdaterLocks' /\ Decided'
      BY <1>1, <2>2, UpdaterSteps, WorkerRuns, DecidedLater DEF RunInv
    <3> QED
      BY <3>1, <3>2 DEF RunInv
  <2> QED
    BY <2>3, <2>4
<1> QED
  BY <1>2, <1>3 DEF WriteFails

-----------------------------------------------------------------------------
(* The job. *)

LEMMA PlacementStays ==
    ASSUME Placement, UNCHANGED <<queue, worker, row, count>> PROVE Placement'
<1>1. Leaves' = Leaves /\ Tree' = Tree
  BY DEF Leaves, Tree, WithStatus
<1>2. \A w \in Workers : /\ Assigned(w)' = Assigned(w) /\ Unlisted(w)' = Unlisted(w)
                         /\ C(w)' = C(w) /\ \A pc : At(w, pc)' <=> At(w, pc)
  BY DEF Assigned, Unlisted, At, C
<1>3. Splitting' = Splitting
  BY DEF Splitting, At
<1>4. OnePlace'
  BY <1>2 DEF Placement, OnePlace
<1>5. PlacedInTree'
  BY <1>1, <1>2 DEF Placement, PlacedInTree
<1>6. AtHand'
  BY <1>2 DEF Placement, AtHand, At
<1>7. Covered' /\ TotalIsRight'
  BY <1>1, <1>2, <1>3 DEF Placement, Covered, TotalIsRight
<1> QED
  BY <1>4, <1>5, <1>6, <1>7 DEF Placement

LEMMA CatchesUpStays ==
    ASSUME CatchesUp, UNCHANGED <<worker, row, count>> PROVE CatchesUp'
<1>1. Counted' = Counted
  BY DEF Counted, WithStatus
<1> QED
  BY <1>1 DEF CatchesUp, Owes, Accurate, At

LEMMA JobRuns ==
    ASSUME Inv, RunInv, RequestCancel \/ Tick \/ Finish \/ UNCHANGED vars PROVE RunInv'
<1>1. UNCHANGED <<queue, worker, row, count, lock>> /\ (cancel' = cancel \/ RequestCancel)
  BY DEF RequestCancel, Tick, Finish, vars
<1>2. UpdaterLocks'
  BY <1>1 DEF RunInv, UpdaterLocks, At
<1>3. ASSUME Going' PROVE Placement' /\ CatchesUp'
  <2>1. Going
    BY <1>1, <1>3 DEF Going, At, RequestCancel
  <2> QED
    BY <1>1, <2>1, PlacementStays, CatchesUpStays DEF RunInv
<1>4. Decided'
  <2>1. CASE RequestCancel
    BY <2>1, DecidedLater DEF RequestCancel
  <2>2. CASE Tick \/ UNCHANGED vars
    <3>1. outcome' = outcome /\ worker' = worker /\ cancel' = cancel /\ count' = count
      BY <2>2 DEF Tick, vars
    <3>2. Going' <=> Going
      BY <3>1 DEF Going, At
    <3> QED
      BY <3>1, <3>2 DEF RunInv, Decided
  <2>3. CASE Finish
    <3>1. \A w \in Workers : worker[w].pc \in {"done", "dead"}
      BY <2>3 DEF Finish
    <3>2. worker' = worker /\ cancel' = cancel /\ count' = count
      BY <2>3 DEF Finish
    <3>3. ASSUME outcome' \in {"completed", "completed_with_errors"}
          PROVE  Going /\ (outcome' = "completed" <=> count.failed = 0)
      <4>1. ~(\E w \in Workers : At(w, "dead")) /\ ~cancel
            /\ outcome' = IF count.failed > 0 THEN "completed_with_errors" ELSE "completed"
        BY <2>3, <3>3 DEF Finish
      <4>2. count.failed \in Nat
        BY DEF Inv, TypeOK
      <4> QED
        BY <4>1, <4>2 DEF Going
    <3>4. Going' <=> Going
      BY <3>2 DEF Going, At
    <3> QED
      BY <3>1, <3>2, <3>3, <3>4 DEF Decided
  <2> QED
    BY <2>1, <2>2, <2>3
<1> QED
  BY <1>2, <1>3, <1>4 DEF RunInv

\* The queue holds the conversations, no chunk twice; nothing has been counted.
LEMMA InitRuns == Init => RunInv
<1> SUFFICES ASSUME Init PROVE RunInv
  OBVIOUS
<1>1. /\ queue = Groups /\ lock = NoOne /\ ~cancel /\ outcome = "running"
      /\ \A c \in Chunks : row[c] = "open"
      /\ \A w \in Workers : worker[w] = Idle
      /\ count = [processed |-> 0, failed |-> 0, total |-> Cardinality(Planned)]
  BY DEF Init
<1>2. \A w \in Workers : worker[w].pc = "idle" /\ worker[w].todo = <<>>
  BY <1>1 DEF Idle
<1>3. \A w \in Workers : Assigned(w) = {} /\ Unlisted(w) = {}
  BY <1>2 DEF Assigned, Unlisted, Elems, At
<1>4. Tree = Planned /\ Leaves = Planned
  <2>1. Tree = Planned
    BY <1>1 DEF Tree, WithStatus
  <2> QED
    BY <1>1, <2>1, LeavesAre, TreeInChunks
<1>5. ElemsOf(queue) = Planned
  BY <1>1 DEF ElemsOf, Elems, Planned
<1>6. Apart(queue)
  BY <1>1, SplitsAssumption DEF Apart, NoRepeat, Elems
<1>7. OnePlace
  BY <1>2, <1>3, <1>6 DEF OnePlace, NoRepeat
<1>8. PlacedInTree
  BY <1>1, <1>3, <1>4, <1>5 DEF PlacedInTree
<1>9. AtHand
  BY <1>2 DEF AtHand, At
<1>10. Covered
  BY <1>4, <1>5 DEF Covered
<1>11. TotalIsRight
  <2>1. Splitting = {}
    BY <1>2 DEF Splitting, At
  <2>2. Cardinality(Splitting) = 0 /\ count.total = Cardinality(Planned)
    BY <1>1, <2>1, FS_EmptySet
  <2> DEFINE n == Cardinality(Leaves)
             k == Cardinality(Splitting)
  <2>3. n \in Nat /\ n = count.total /\ k = 0
    BY <1>4, <2>2, LeavesFinite
  <2> HIDE DEF n, k
  <2>4. n = count.total + k
    BY <2>3
  <2> QED
    BY <2>4 DEF TotalIsRight, n, k
<1>12. CatchesUp
  <2>1. WithStatus(Settled) = {} /\ WithStatus({"failed"}) = {}
    BY <1>1 DEF WithStatus, Settled
  <2>2. Counted.processed = 0 /\ Counted.failed = 0
    BY <2>1, FS_EmptySet DEF Counted
  <2> QED
    BY <1>1, <1>2, <2>2 DEF CatchesUp, Accurate, At
<1>13. UpdaterLocks /\ Decided
  BY <1>1, <1>2, NoOneAssumption DEF UpdaterLocks, Decided, At
<1> QED
  BY <1>7, <1>8, <1>9, <1>10, <1>11, <1>12, <1>13 DEF RunInv, Placement

LEMMA NextRuns == Inv /\ RunInv /\ [Next]_vars => RunInv'
<1> SUFFICES ASSUME Inv, RunInv, [Next]_vars PROVE RunInv'
  OBVIOUS
<1>1. ASSUME NEW w \in Workers, WorkerStep(w) PROVE RunInv'
  BY <1>1, TakeGroupRuns, NextChunkRuns, AttemptRuns, CallRuns, RecordRuns, DecideRuns, WakeRuns,
     CountRuns, WriteRuns, CountSplitRuns, ReadRuns, UpdateRuns DEF WorkerStep, CallStep, RowStep
<1>2. ASSUME NEW w \in Workers, WriteFails(w) PROVE RunInv'
  BY <1>2, WriteFailsRuns
<1>3. CASE RequestCancel \/ Tick \/ Finish \/ UNCHANGED vars
  BY <1>3, JobRuns
<1> QED
  BY <1>1, <1>2, <1>3 DEF Next

LEMMA SpecRuns == Spec => [](Inv /\ RunInv)
BY InitInv, NextInv, InitRuns, NextRuns, PTL DEF Spec

-----------------------------------------------------------------------------
(* What the counters and the outcome say. *)

\* A run that completed has settled its leaves and nothing else, and counted them.
LEMMA WhenCompleted ==
    ASSUME Inv, RunInv, outcome \in {"completed", "completed_with_errors"}
    PROVE  /\ Leaves = WithStatus(Settled) /\ Splitting = {} /\ Accurate /\ TotalIsRight
           /\ outcome = "completed" <=> count.failed = 0
<1>1. Going /\ (outcome = "completed" <=> count.failed = 0)
  BY DEF RunInv, Decided
<1>2. \A w \in Workers : worker[w].pc = "done"
  BY <1>1 DEF RunInv, Decided, Going, At
<1>3. Placement /\ CatchesUp
  BY <1>1 DEF RunInv
<1>4. queue = <<>> /\ \A w \in Workers : worker[w].todo = <<>>
  BY <1>2, <1>3, SplitsAssumption DEF Placement, AtHand, At
<1>5. ElemsOf(queue) = {} /\ \A w \in Workers : Assigned(w) = {} /\ Unlisted(w) = {}
  BY <1>2, <1>4 DEF ElemsOf, Elems, Assigned, Unlisted, At
<1>6. \A c \in Leaves : row[c] \in Settled
  BY <1>3, <1>5 DEF Placement, Covered
<1>7. Leaves \subseteq WithStatus(Settled)
  BY <1>6, TreeInChunks DEF WithStatus
<1>8. WithStatus(Settled) \subseteq Leaves
  <2> SUFFICES ASSUME NEW c \in Chunks, row[c] \in Settled PROVE c \in Leaves
    BY DEF WithStatus
  <2>1. c \in Tree
    BY <1>3 DEF Placement, PlacedInTree, Settled
  <2> QED
    BY <2>1, LeavesAre DEF Settled
<1>9. Splitting = {}
  BY <1>2 DEF Splitting, At
<1>10. Accurate
  BY <1>2, <1>3 DEF CatchesUp, Owes, At
<1> QED
  BY <1>1, <1>3, <1>7, <1>8, <1>9, <1>10 DEF Placement

\* The status decided from the counter says what the rows say: in a job that completed no chunk
\* is missing or failed, and one did fail in a job that completed with errors.
THEOREM OutcomeIsTrueThm == Spec => []OutcomeIsTrue
<1>1. ASSUME Inv, RunInv PROVE OutcomeIsTrue
  <2> SUFFICES ASSUME outcome \in {"completed", "completed_with_errors"} PROVE OutcomeIsTrue
    BY DEF OutcomeIsTrue
  <2>1. /\ Leaves = WithStatus(Settled) /\ Accurate
        /\ outcome = "completed" <=> count.failed = 0
    BY <1>1, WhenCompleted
  <2>2. count.failed = Cardinality(WithStatus({"failed"}))
    BY <2>1 DEF Accurate, Counted
  <2>3. \A c \in Leaves : c \in Chunks /\ row[c] \in Settled
    BY <2>1 DEF WithStatus
  <2>4. WithStatus({"failed"}) \subseteq Chunks /\ IsFiniteSet(WithStatus({"failed"}))
    <3>1. WithStatus({"failed"}) \subseteq Chunks
      BY DEF WithStatus
    <3> QED
      BY <3>1, ChunksAssumption, FS_Subset
  <2>5. CASE outcome = "completed"
    <3>1. WithStatus({"failed"}) = {}
      BY <2>1, <2>2, <2>4, <2>5, FS_EmptySet
    <3> QED
      BY <2>3, <2>5, <3>1 DEF OutcomeIsTrue, Settled, WithStatus
  <2>6. CASE outcome = "completed_with_errors"
    <3>1. WithStatus({"failed"}) # {}
      BY <2>1, <2>2, <2>4, <2>6, FS_EmptySet
    <3>2. WithStatus({"failed"}) \subseteq Leaves
      BY <2>1 DEF WithStatus, Settled
    <3> QED
      BY <2>3, <2>6, <3>1, <3>2 DEF OutcomeIsTrue, WithStatus
  <2> QED
    BY <2>5, <2>6
<1> QED
  BY <1>1, SpecRuns, PTL

\* When a run has dealt with all chunks its counters agree with the rows, whatever increments
\* were overwritten on the way, splits included.
THEOREM CountsSettleThm == Spec => []CountsSettle
<1>1. ASSUME Inv, RunInv PROVE CountsSettle
  <2> SUFFICES ASSUME outcome \in {"completed", "completed_with_errors"}
               PROVE  /\ count.processed = Cardinality(Leaves)
                      /\ count.total = Cardinality(Leaves)
                      /\ count.failed = Cardinality(WithStatus({"failed"}))
    BY DEF CountsSettle
  <2>1. Leaves = WithStatus(Settled) /\ Splitting = {} /\ Accurate /\ TotalIsRight
    BY <1>1, WhenCompleted
  <2>2. count.processed = Cardinality(Leaves) /\ count.failed = Cardinality(WithStatus({"failed"}))
    BY <2>1 DEF Accurate, Counted
  <2>3. Cardinality(Splitting) = 0
    BY <2>1, FS_EmptySet
  <2>4. count.total \in Nat
    BY <1>1 DEF Inv, TypeOK
  <2>5. Cardinality(Leaves) = count.total + Cardinality(Splitting)
    BY <2>1 DEF TotalIsRight
  <2> DEFINE n == Cardinality(Leaves)
             k == Cardinality(Splitting)
  <2>6. n = count.total + k /\ k = 0
    BY <2>3, <2>5
  <2> HIDE DEF n, k
  <2>7. count.total = n
    BY <2>4, <2>6
  <2> QED
    BY <2>2, <2>7 DEF n
<1> QED
  BY <1>1, SpecRuns, PTL
=============================================================================
