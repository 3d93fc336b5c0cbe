---------------------------- MODULE StorageQuota ---------------------------
(* The writes that store memories under hard quotas: POST /memories and the chunks of imports.   *)
(* A write reads what exists, calls the quota guard, which takes one local lock and one advisory *)
(* lock per policy scope, counts and checks, and holds the locks until the memories are stored.  *)
(* Interactive writes of one scope are serialized around all of it by a pool of keyed locks.     *)
EXTENDS Naturals, FiniteSets

CONSTANTS
    Writers, Memories, Policies, Projects, Project, Covers, Limit, Snapshot, NoOne,  \* see QuotaLedger
    Procs,          \* server processes
    Proc,           \* the process a writer runs in
    Kind,           \* "add" (infer), "raw" (infer off) or "import"
    Key,            \* its session scope
    Want,           \* the memories it extracts
    Organizations,  \* the policies of organizations; the others are of one project
    Resource,       \* the name of a policy's scope; names are ordered
    Deletable       \* the memories users may delete meanwhile

Kinds == {"add", "raw", "import"}
Keys == {Key[w] : w \in Writers}
Resources == {Resource[P] : P \in Policies}
Names(w) == {Resource[P] : P \in Snapshot[w]}

\* An import takes no keyed lock: its conversation has one worker.
Keyed(w) == Kind[w] # "import"

ASSUME QuotaAssumption ==
    /\ IsFiniteSet(Memories) /\ IsFiniteSet(Writers)
    /\ NoOne \notin Writers
    /\ Project \in [Memories -> Projects]
    /\ Covers \in [Policies -> SUBSET Projects]
    /\ Limit \in [Policies -> Nat \ {0}]
    /\ Snapshot \in [Writers -> SUBSET Policies]
    /\ Proc \in [Writers -> Procs]
    /\ Kind \in [Writers -> Kinds]
    /\ Want \in [Writers -> SUBSET Memories]
    /\ \A w \in Writers, m \in Memories, P \in Policies :
         m \in Want[w] /\ P \in Snapshot[w] => Project[m] \in Covers[P]
    /\ Organizations \subseteq Policies
    /\ Resource \in [Policies -> Nat]
    /\ Deletable \subseteq Memories

VARIABLES
    row,        \* the vector rows: who stored the memory
    pc,         \* the step a writer is at
    entry,      \* _KeyedLockPool._entries of each process: the lock object and its reference count
    leased,     \* the lock object a writer leased; an object is named after the writer that made it
    mutex,      \* the writer that holds a keyed lock object
    local,      \* the holder of a lock of _LOCAL_SCOPE_LOCKS
    advisory,   \* the holder of a pg_advisory_xact_lock
    session,    \* the writers whose guard has a database session
    todo,       \* selected memories that are still to be stored
    asked,      \* project_counts of a guard: the projects it has counted,
    seen        \* and the memories it found in them

vars == <<row, pc, entry, leased, mutex, local, advisory, session, todo, asked, seen>>

Steps == {"start", "key", "select", "lock", "open", "advise", "count", "write", "each",
          "leave", "drop", "close", "unlock", "done"}

NoEntry == [lock |-> NoOne, users |-> 0]

TypeOK ==
    /\ row \in [Memories -> Writers \cup {NoOne}]
    /\ pc \in [Writers -> Steps]
    /\ entry \in [Procs -> [Keys -> [lock : Writers \cup {NoOne}, users : Nat]]]
    /\ leased \in [Writers -> Writers \cup {NoOne}]
    /\ mutex \in [Writers -> Writers \cup {NoOne}]
    /\ local \in [Procs -> [Resources -> Writers \cup {NoOne}]]
    /\ advisory \in [Resources -> Writers \cup {NoOne}]
    /\ session \in SUBSET Writers
    /\ todo \in [Writers -> SUBSET Memories]
    /\ asked \in [Writers -> SUBSET Projects]
    /\ seen \in [Writers -> SUBSET Memories]

-----------------------------------------------------------------------------
Stored == {m \in Memories : row[m] # NoOne}
Covered(P, S) == {m \in S : Project[m] \in Covers[P]}

Goto(w, step) == pc' = [pc EXCEPT ![w] = step]

\* The locks of a writer's scopes that it does not hold yet, and the first of them by name.
Missing(w, held) == {n \in Names(w) : held[n] # w}
\* Mutant of IsFirst: the scopes are locked in the order of the snapshot.
IsAny(n, S) == n \in S
IsFirst(n, S) == n \in S /\ \A o \in S : n <= o

Init ==
    /\ row = [m \in Memories |-> NoOne]
    /\ pc = [w \in Writers |-> IF Keyed(w) THEN "start" ELSE "select"]
    /\ entry = [p \in Procs |-> [k \in Keys |-> NoEntry]]
    /\ leased = [w \in Writers |-> NoOne]
    /\ mutex = [w \in Writers |-> NoOne]
    /\ local = [p \in Procs |-> [n \in Resources |-> NoOne]]
    /\ advisory = [n \in Resources |-> NoOne]
    /\ session = {}
    /\ todo = [w \in Writers |-> {}]
    /\ asked = [w \in Writers |-> {}]
    /\ seen = [w \in Writers |-> {}]

-----------------------------------------------------------------------------
(* The keyed lock of a session scope. *)

\* Mutant of Lease: the reference is not counted.
LeaseUncounted(w) ==
    LET e == entry[Proc[w]][Key[w]]
        lock == IF e = NoEntry THEN w ELSE e.lock
    IN  /\ pc[w] = "start"
        /\ entry' = [entry EXCEPT ![Proc[w]][Key[w]] = [lock |-> lock, users |-> e.users]]
        /\ leased' = [leased EXCEPT ![w] = lock]
        /\ Goto(w, "key")
        /\ UNCHANGED <<row, mutex, local, advisory, session, todo, asked, seen>>

Lease(w) ==
    LET e == entry[Proc[w]][Key[w]]
        lock == IF e = NoEntry THEN w ELSE e.lock
    IN  /\ pc[w] = "start"
        /\ entry' = [entry EXCEPT ![Proc[w]][Key[w]] = [lock |-> lock, users |-> e.users + 1]]
        /\ leased' = [leased EXCEPT ![w] = lock]
        /\ Goto(w, "key")
        /\ UNCHANGED <<row, mutex, local, advisory, session, todo, asked, seen>>

AcquireKey(w) ==
    /\ pc[w] = "key"
    /\ mutex[leased[w]] = NoOne
    /\ mutex' = [mutex EXCEPT ![leased[w]] = w]
    /\ Goto(w, "select")
    /\ UNCHANGED <<row, entry, leased, local, advisory, session, todo, asked, seen>>

ReleaseKey(w) ==
    /\ pc[w] = "leave"
    /\ mutex' = [mutex EXCEPT ![leased[w]] = NoOne]
    /\ Goto(w, "drop")
    /\ UNCHANGED <<row, entry, leased, local, advisory, session, todo, asked, seen>>

\* Mutant of Released: the entry goes with the first that releases it.
ReleasedAtOnce(e) == NoEntry

Released(e) == IF e.users = 1 THEN NoEntry ELSE [e EXCEPT !.users = @ - 1]

\* The request's finally releases the guard again, which does nothing after a refused check.
DropLease(w) ==
    /\ pc[w] = "drop"
    /\ entry' = [entry EXCEPT ![Proc[w]][Key[w]] = IF @.lock = leased[w] THEN Released(@) ELSE @]
    /\ leased' = [leased EXCEPT ![w] = NoOne]
    /\ Goto(w, IF w \in session THEN "close" ELSE "done")
    /\ UNCHANGED <<row, mutex, local, advisory, session, todo, asked, seen>>

-----------------------------------------------------------------------------
(* The pipeline around the guard. *)

\* Raw and inferred writes look every hash up; an import sees what its search happens to return.
Existing(w, S) == IF Keyed(w) THEN S = Want[w] \cap Stored ELSE S \subseteq Want[w] \cap Stored

\* A raw write inserts its memories one by one, the others begin with a batch.
Writing(w) == IF Kind[w] = "raw" THEN "each" ELSE "write"

Select(w) ==
    /\ pc[w] = "select"
    /\ \E S \in SUBSET Want[w] :
         /\ Existing(w, S)
         /\ todo' = [todo EXCEPT ![w] = Want[w] \ S]
         /\ Goto(w, IF ~Keyed(w) /\ Want[w] = S THEN "done"
                    ELSE IF Names(w) # {} THEN "lock" ELSE Writing(w))
    /\ UNCHANGED <<row, entry, leased, mutex, local, advisory, session, asked, seen>>

\* After the memories are stored, or after an exception in storing them.
AfterWrite(w) == IF Keyed(w) THEN "leave" ELSE IF w \in session THEN "close" ELSE "done"

Store(w, S) ==
    /\ S \cap Stored = {}
    /\ row' = [m \in Memories |-> IF m \in S THEN w ELSE row[m]]

InsertBatch(w) ==
    /\ pc[w] = "write"
    /\ Store(w, todo[w])
    /\ todo' = [todo EXCEPT ![w] = {}]
    /\ Goto(w, AfterWrite(w))
    /\ UNCHANGED <<entry, leased, mutex, local, advisory, session, asked, seen>>

\* A duplicate id or any error: an import raises, an inferred write tries one by one.
InsertFails(w) ==
    /\ pc[w] = "write"
    /\ Goto(w, IF Kind[w] = "import" THEN AfterWrite(w) ELSE "each")
    /\ todo' = [todo EXCEPT ![w] = IF Kind[w] = "import" THEN {} ELSE @]
    /\ UNCHANGED <<row, entry, leased, mutex, local, advisory, session, asked, seen>>

\* An insertion that fails is skipped by an inferred write and ends a raw one, unless the memory
\* is there already.
InsertOne(w) ==
    /\ pc[w] = "each"
    /\ \E m \in todo[w] :
         \/ /\ Store(w, {m})
            /\ todo' = [todo EXCEPT ![w] = @ \ {m}]
         \/ /\ Kind[w] = "add" \/ m \in Stored
            /\ todo' = [todo EXCEPT ![w] = @ \ {m}]
            /\ UNCHANGED row
         \/ /\ Kind[w] = "raw"
            /\ todo' = [todo EXCEPT ![w] = {}]
            /\ UNCHANGED row
    /\ UNCHANGED <<pc, entry, leased, mutex, local, advisory, session, asked, seen>>

InsertedAll(w) ==
    /\ pc[w] = "each"
    /\ todo[w] = {}
    /\ Goto(w, AfterWrite(w))
    /\ UNCHANGED <<row, entry, leased, mutex, local, advisory, session, todo, asked, seen>>

-----------------------------------------------------------------------------
(* ImportStorageQuotaGuard.__call__ and release. *)

LockLocal(w) ==
    /\ pc[w] = "lock"
    /\ \E n \in Names(w) :
         /\ IsFirst(n, Missing(w, local[Proc[w]]))
         /\ local[Proc[w]][n] = NoOne
         /\ local' = [local EXCEPT ![Proc[w]][n] = w]
         /\ Goto(w, IF Missing(w, local[Proc[w]]) = {n} THEN "open" ELSE "lock")
    /\ UNCHANGED <<row, entry, leased, mutex, advisory, session, todo, asked, seen>>

\* Mutant of OpenSession: a dialect that takes no lock.
OpenSessionUnlocked(w) ==
    /\ pc[w] = "open"
    /\ session' = session \cup {w}
    /\ Goto(w, "count")
    /\ UNCHANGED <<row, entry, leased, mutex, local, advisory, todo, asked, seen>>

OpenSession(w) ==
    /\ pc[w] = "open"
    /\ session' = session \cup {w}
    /\ Goto(w, "advise")
    /\ UNCHANGED <<row, entry, leased, mutex, local, advisory, todo, asked, seen>>

\* The rows of the policies are locked with the advisory locks of their scopes.
LockAdvisory(w) ==
    /\ pc[w] = "advise"
    /\ \E n \in Names(w) :
         /\ IsFirst(n, Missing(w, advisory))
         /\ advisory[n] = NoOne
         /\ advisory' = [advisory EXCEPT ![n] = w]
         /\ Goto(w, IF Missing(w, advisory) = {n} THEN "count" ELSE "advise")
    /\ UNCHANGED <<row, entry, leased, mutex, local, session, todo, asked, seen>>

\* _organization_project_ids reads the settings in a session of its own, before the counts.
LooksUp(w) == asked[w] = {} /\ Snapshot[w] \cap Organizations # {}

\* One query of the vector store per project.
CountProject(w) ==
    /\ pc[w] = "count"
    /\ \E p \in UNION {Covers[P] : P \in Snapshot[w]} \ asked[w] :
         /\ asked' = [asked EXCEPT ![w] = @ \cup {p}]
         /\ seen' = [seen EXCEPT ![w] = @ \cup {m \in Stored : Project[m] = p}]
    /\ UNCHANGED <<row, pc, entry, leased, mutex, local, advisory, session, todo>>

\* Mutant of TimeOut: what fails before the session is there skips the release.
TimeOutUnreleased(w) ==
    /\ \/ pc[w] = "open"
       \/ pc[w] = "count" /\ LooksUp(w)
    /\ todo' = [todo EXCEPT ![w] = {}]
    /\ Goto(w, AfterWrite(w))
    /\ UNCHANGED <<row, entry, leased, mutex, local, advisory, session, asked, seen>>

\* No connection comes free, as other requests of the process use them too: the pool gives up after
\* its timeout and the guard raises.
TimeOut(w) ==
    /\ \/ pc[w] = "open"
       \/ pc[w] = "count" /\ LooksUp(w)
    /\ todo' = [todo EXCEPT ![w] = {}]
    /\ Goto(w, "close")
    /\ UNCHANGED <<row, entry, leased, mutex, local, advisory, session, asked, seen>>

\* Mutant of Exceeds: only what is there already is compared.
ExceedsAlready(w, P) == Cardinality(Covered(P, seen[w])) > Limit[P]

Exceeds(w, P) == Cardinality(Covered(P, seen[w])) + Cardinality(todo[w]) > Limit[P]

Check(w) ==
    /\ pc[w] = "count"
    /\ \A P \in Snapshot[w] : Covers[P] \subseteq asked[w]
    /\ IF \E P \in Snapshot[w] : Exceeds(w, P)
         THEN /\ todo' = [todo EXCEPT ![w] = {}]
              /\ Goto(w, "close")
         ELSE /\ Goto(w, Writing(w))
              /\ UNCHANGED todo
    /\ UNCHANGED <<row, entry, leased, mutex, local, advisory, session, asked, seen>>

\* rollback ends the transaction and with it the advisory locks.
CloseSession(w) ==
    /\ pc[w] = "close"
    /\ session' = session \ {w}
    /\ advisory' = [n \in Resources |-> IF advisory[n] = w THEN NoOne ELSE advisory[n]]
    /\ asked' = [asked EXCEPT ![w] = {}]
    /\ seen' = [seen EXCEPT ![w] = {}]
    /\ Goto(w, "unlock")
    /\ UNCHANGED <<row, entry, leased, mutex, local, todo>>

\* A check that raised has its keyed lock still to release.
UnlockLocal(w) ==
    /\ pc[w] = "unlock"
    /\ local' = [local EXCEPT ![Proc[w]] =
                   [n \in Resources |-> IF @[n] = w THEN NoOne ELSE @[n]]]
    /\ Goto(w, IF leased[w] # NoOne THEN "leave" ELSE "done")
    /\ UNCHANGED <<row, entry, leased, mutex, advisory, session, todo, asked, seen>>

-----------------------------------------------------------------------------
\* A user deletes a memory: no lock, no guard. Deletable bounds which.
Delete(m) ==
    /\ row[m] # NoOne
    /\ row' = [row EXCEPT ![m] = NoOne]
    /\ UNCHANGED <<pc, entry, leased, mutex, local, advisory, session, todo, asked, seen>>

Step(w) ==
    \/ Lease(w) \/ AcquireKey(w) \/ ReleaseKey(w) \/ DropLease(w)
    \/ Select(w) \/ InsertBatch(w) \/ InsertFails(w) \/ InsertOne(w) \/ InsertedAll(w)
    \/ LockLocal(w) \/ OpenSession(w) \/ LockAdvisory(w) \/ CountProject(w) \/ TimeOut(w)
    \/ Check(w) \/ CloseSession(w) \/ UnlockLocal(w)

Next ==
    \/ \E w \in Writers : Step(w)
    \/ \E m \in Deletable : Delete(m)

Spec == Init /\ [][Next]_vars

\* The machine runs: some thread that can go on does. Every step brings a write nearer its end, so
\* no fairness between threads is needed.
FairSpec == Spec /\ WF_vars(\E w \in Writers : Step(w))

-----------------------------------------------------------------------------
(* Properties. *)

\* What is stored under a policy never exceeds its hard limit, however reads, checks, inserts and
\* deletions of all writers interleave ("Serialize quota checks and memory writes that share a
\* hard storage policy").
Ledger == INSTANCE QuotaLedger WITH row <- row
LimitHolds == Ledger!LimitHolds

\* The guarded writes implement the ledger: a step admits memories that fit, removes one, or does
\* nothing to what is stored.
ImplementsLedger == Ledger!Spec

\* Writers of one scope and process select and store one after the other: the keyed pool gives
\* them one lock object, also when the entry is dropped and made again meanwhile.
OneWriterPerKey ==
    \A v, w \in Writers :
        /\ v # w /\ Proc[v] = Proc[w] /\ Key[v] = Key[w]
        /\ \A x \in {v, w} : leased[x] # NoOne /\ pc[x] \notin {"key", "drop"}
        => FALSE

\* A writer that is done, refused or not begun holds no lock, session or pool entry, so the pool
\* does not grow with inactive scopes.
NothingLeftBehind ==
    /\ \A w \in Writers : pc[w] \in {"start", "done"} =>
         /\ w \notin session
         /\ \A n \in Resources : advisory[n] # w /\ local[Proc[w]][n] # w
         /\ \A v \in Writers : mutex[v] # w
    /\ \A p \in Procs, k \in Keys : entry[p][k] # NoEntry =>
         \E w \in Writers : Proc[w] = p /\ Key[w] = k /\ leased[w] = entry[p][k].lock

\* Every write is answered: no two of them wait for each other's locks or connections.
WritesEnd == <>(\A w \in Writers : pc[w] = "done")
=============================================================================
