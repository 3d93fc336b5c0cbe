-------------------------- MODULE ImportPoolProofs ---------------------------
(* Proofs about ImportPool, for any workers, conversations, splits, limits and faults.           *)
EXTENDS ImportPool, FiniteSetTheorems, TLAPS

\* A worker past "next" has a chunk at hand; there it has none, and nothing to write of it.
HasChunk ==
    \A w \in Workers :
        /\ worker[w].pc \notin {"idle", "next", "done", "dead"} => worker[w].todo # <<>>
        /\ worker[w].pc = "next" => worker[w].what = "open"

\* It pauses only if there is an attempt left.
HasAttempt == \A w \in Workers : At(w, "sleep") => worker[w].attempt < MaxAttempts

\* No cooldown is cut short: the worker that began the latest one sleeps it out.
CooldownRuns ==
    /\ ctl.until = ctl.gen
    /\ \A w \in Workers : At(w, "sleep") /\ worker[w].token = ctl.gen => worker[w].wait = ctl.gen
                                                                          \/ worker[w].token = 0

Holding == {w \in Workers : worker[w].pc \in {"publish", "call"}}

Inv == TypeOK /\ HasChunk /\ HasAttempt /\ CooldownRuns /\ PermitsAreHeld

\* The worker w becomes t.
Becomes(w, t) ==
    /\ t \in Threads /\ worker' = [worker EXCEPT ![w] = t]
    /\ t.pc \notin {"idle", "next", "done", "dead"} => t.todo # <<>>
    /\ t.pc = "next" => t.what = "open"
    /\ t.pc = "sleep" => t.attempt < MaxAttempts

\* What changes besides the threads and the controller.
RestTyped ==
    /\ queue' \in Seq(Seq(Chunks)) /\ row' \in [Chunks -> RowStatuses]
    /\ count' \in [processed : Nat, failed : Nat, total : Nat]
    /\ lock' \in Workers \cup {NoOne} /\ cancel' \in BOOLEAN
    /\ outcome' \in {"running", "completed", "completed_with_errors", "cancelled", "failed"}
    /\ faults' \in 0..MaxFaults

Controllers == [active : Nat, current : Nat, failures : Nat, streak : Nat, until : Nat, gen : Nat]

LEMMA Bounds == Target \in Nat /\ Target >= 1 /\ MaxAttempts \in Nat /\ MaxAttempts >= 1
                /\ MaxFaults \in Nat
BY BoundsAssumption

LEMMA HoldingFinite == IsFiniteSet(Holding) /\ Cardinality(Holding) \in Nat
<1>1. Holding \subseteq Workers
  BY DEF Holding
<1> QED
  BY <1>1, ChunksAssumption, FS_Subset, FS_CardinalityType

LEMMA CountedTyped == Counted \in [processed : Nat, failed : Nat]
<1>1. IsFiniteSet(WithStatus(Settled)) /\ IsFiniteSet(WithStatus({"failed"}))
  <2>1. WithStatus(Settled) \subseteq Chunks /\ WithStatus({"failed"}) \subseteq Chunks
    BY DEF WithStatus
  <2> QED
    BY <2>1, ChunksAssumption, FS_Subset
<1>2. Cardinality(WithStatus(Settled)) \in Nat /\ Cardinality(WithStatus({"failed"})) \in Nat
  BY <1>1, FS_CardinalityType
<1> QED
  BY <1>2 DEF Counted

LEMMA IdleTyped == Idle \in Threads
BY Bounds DEF Idle, Threads, Pcs, RowStatuses, Settled

LEMMA IdleLeft == ASSUME NEW pc \in Pcs PROVE [Idle EXCEPT !.pc = pc] \in Threads
BY IdleTyped DEF Threads

LEMMA IdleNext ==
    ASSUME NEW todo \in Seq(Chunks) PROVE [Idle EXCEPT !.pc = "next", !.todo = todo] \in Threads
BY IdleTyped DEF Threads, Pcs

\* What a method of the controller writes.
LEMMA ActiveWritten ==
    ASSUME NEW c \in Controllers, NEW n \in Nat, ctl' = [c EXCEPT !.active = n]
    PROVE  /\ ctl' \in Controllers /\ ctl'.active = n
           /\ ctl'.gen = c.gen /\ ctl'.until = c.until /\ ctl'.current = c.current
BY DEF Controllers

LEMMA LimitWritten ==
    ASSUME NEW c \in Controllers, NEW f \in Nat, NEW n \in Nat, NEW m \in Nat,
           ctl' = [c EXCEPT !.failures = f, !.streak = n, !.current = m]
    PROVE  /\ ctl' \in Controllers /\ ctl'.active = c.active /\ ctl'.current = m
           /\ ctl'.gen = c.gen /\ ctl'.until = c.until
BY DEF Controllers

-----------------------------------------------------------------------------
(* What a worker becomes. *)

LEMMA GotoBecomes ==
    ASSUME Inv, NEW w \in Workers, NEW pc \in Pcs, Goto(w, pc), pc \notin {"sleep", "next"},
           pc \notin {"idle", "next", "done", "dead"} => worker[w].todo # <<>>
    PROVE  \E t : Becomes(w, t) /\ t.pc = pc /\ t.token = worker[w].token /\ t.wait = worker[w].wait
<1> DEFINE t == [worker[w] EXCEPT !.pc = pc]
<1>1. worker[w] \in Threads
  BY DEF Inv, TypeOK
<1>2. t \in Threads /\ t.pc = pc /\ t.token = worker[w].token /\ t.wait = worker[w].wait
      /\ t.todo = worker[w].todo
  BY <1>1 DEF Threads
<1>3. worker' = [worker EXCEPT ![w] = t]
  BY DEF Goto
<1> HIDE DEF t
<1> QED
  BY <1>2, <1>3 DEF Becomes

LEMMA GoBecomes ==
    ASSUME Inv, NEW w \in Workers, NEW pc \in {"count", "write"}, NEW what \in RowStatuses,
           Go(w, pc, what), worker[w].todo # <<>>
    PROVE  \E t : Becomes(w, t) /\ t.pc = pc /\ t.token = worker[w].token /\ t.wait = worker[w].wait
<1> DEFINE t == [worker[w] EXCEPT !.pc = pc, !.what = what]
<1>1. worker[w] \in Threads
  BY DEF Inv, TypeOK
<1>2. t \in Threads
  BY <1>1 DEF Threads, Pcs
<1>3. t.pc = pc /\ t.token = worker[w].token /\ t.wait = worker[w].wait /\ t.todo = worker[w].todo
  BY <1>1 DEF Threads
<1>4. worker' = [worker EXCEPT ![w] = t]
  BY DEF Go
<1> HIDE DEF t
<1> QED
  BY <1>2, <1>3, <1>4 DEF Becomes

LEMMA LeaveBecomes ==
    ASSUME NEW w \in Workers, NEW pc \in {"done", "dead"},
           worker' = [worker EXCEPT ![w] = [Idle EXCEPT !.pc = pc]]
    PROVE  \E t : Becomes(w, t) /\ t.pc = pc /\ t.token = 0 /\ t.wait = 0
<1> DEFINE t == [Idle EXCEPT !.pc = pc]
<1>1. t \in Threads
  BY IdleLeft DEF Pcs
<1>2. t.pc = pc /\ t.token = 0 /\ t.wait = 0
  BY DEF Idle
<1> HIDE DEF t
<1>3. worker' = [worker EXCEPT ![w] = t]
  BY DEF t
<1> QED
  BY <1>1, <1>2, <1>3 DEF Becomes

LEMMA ProceedBecomes ==
    ASSUME NEW w \in Workers, NEW todo \in Seq(Chunks), Proceed(w, todo)
    PROVE  \E t : Becomes(w, t) /\ t.pc = "next" /\ t.token = 0 /\ t.wait = 0
<1> DEFINE t == [Idle EXCEPT !.pc = "next", !.todo = todo]
<1>1. t \in Threads
  BY IdleNext
<1>2. t.pc = "next" /\ t.what = "open" /\ t.token = 0 /\ t.wait = 0
  BY DEF Idle
<1>3. worker' = [worker EXCEPT ![w] = t]
  BY DEF Proceed
<1> HIDE DEF t
<1> QED
  BY <1>1, <1>2, <1>3 DEF Becomes

LEMMA RaisesBecomes ==
    ASSUME Inv, NEW w \in Workers, worker[w].todo # <<>>,
           NEW pressure \in BOOLEAN, NEW retry \in BOOLEAN,
           worker' = [worker EXCEPT ![w] = [worker[w] EXCEPT !.pc = "err", !.pressure = pressure,
                                                             !.retry = retry]]
    PROVE  \E t : Becomes(w, t) /\ t.pc = "err" /\ t.token = worker[w].token
                  /\ t.wait = worker[w].wait
<1> DEFINE t == [worker[w] EXCEPT !.pc = "err", !.pressure = pressure, !.retry = retry]
<1>1. worker[w] \in Threads
  BY DEF Inv, TypeOK
<1>2. t \in Threads
  BY <1>1 DEF Threads, Pcs
<1>3. t.pc = "err" /\ t.token = worker[w].token /\ t.wait = worker[w].wait
      /\ t.todo = worker[w].todo
  BY <1>1 DEF Threads
<1> HIDE DEF t
<1>4. worker' = [worker EXCEPT ![w] = t]
  BY DEF t
<1> QED
  BY <1>2, <1>3, <1>4 DEF Becomes

LEMMA DecideBecomes ==
    ASSUME Inv, NEW w \in Workers, worker[w].todo # <<>>, NEW token \in Nat,
           worker' = [worker EXCEPT ![w] = [worker[w] EXCEPT !.pc = "decide", !.token = token]]
    PROVE  \E t : Becomes(w, t) /\ t.pc = "decide" /\ t.token = token /\ t.wait = worker[w].wait
<1> DEFINE t == [worker[w] EXCEPT !.pc = "decide", !.token = token]
<1>1. worker[w] \in Threads
  BY DEF Inv, TypeOK
<1>2. t \in Threads
  BY <1>1 DEF Threads, Pcs
<1>3. t.pc = "decide" /\ t.token = token /\ t.wait = worker[w].wait /\ t.todo = worker[w].todo
  BY <1>1 DEF Threads
<1> HIDE DEF t
<1>4. worker' = [worker EXCEPT ![w] = t]
  BY DEF t
<1> QED
  BY <1>2, <1>3, <1>4 DEF Becomes

LEMMA SleepBecomes ==
    ASSUME Inv, NEW w \in Workers, worker[w].todo # <<>>, NEW wait \in Nat,
           worker[w].attempt < MaxAttempts,
           worker' = [worker EXCEPT ![w] = [worker[w] EXCEPT !.pc = "sleep", !.wait = wait]]
    PROVE  \E t : Becomes(w, t) /\ t.pc = "sleep" /\ t.token = worker[w].token /\ t.wait = wait
<1> DEFINE t == [worker[w] EXCEPT !.pc = "sleep", !.wait = wait]
<1>1. worker[w] \in Threads
  BY DEF Inv, TypeOK
<1>2. t \in Threads
  BY <1>1 DEF Threads, Pcs
<1>3. /\ t.pc = "sleep" /\ t.token = worker[w].token /\ t.wait = wait
      /\ t.todo = worker[w].todo /\ t.attempt = worker[w].attempt
  BY <1>1 DEF Threads
<1> HIDE DEF t
<1>4. worker' = [worker EXCEPT ![w] = t]
  BY DEF t
<1> QED
  BY <1>2, <1>3, <1>4 DEF Becomes

\* There was an attempt left.
LEMMA WakeBecomes ==
    ASSUME Inv, NEW w \in Workers, At(w, "sleep"),
           worker' = [worker EXCEPT ![w] = NextAttempt(@)]
    PROVE  \E t : Becomes(w, t) /\ t.pc = "attempt" /\ t.token = 0 /\ t.wait = 0
<1> DEFINE n == worker[w].attempt + 1
           t == NextAttempt(worker[w])
<1>1. worker[w] \in Threads /\ worker[w].attempt < MaxAttempts /\ worker[w].todo # <<>>
  BY DEF Inv, TypeOK, At, HasAttempt, HasChunk
<1>2. n \in 1..MaxAttempts
  BY <1>1, Bounds DEF Threads
<1>3. t \in Threads
  BY <1>1, <1>2 DEF NextAttempt, Threads, Pcs
<1>4. t.pc = "attempt" /\ t.token = 0 /\ t.wait = 0 /\ t.todo = worker[w].todo
  BY <1>1 DEF NextAttempt, Threads
<1> HIDE DEF t
<1>5. worker' = [worker EXCEPT ![w] = t]
  BY DEF t
<1> QED
  BY <1>1, <1>3, <1>4, <1>5 DEF Becomes

LEMMA ReadBecomes ==
    ASSUME Inv, NEW w \in Workers, ReadRows(w)
    PROVE  \E t : Becomes(w, t) /\ t.pc = "update" /\ t.token = worker[w].token
                  /\ t.wait = worker[w].wait
<1> DEFINE seen == Counted
           t == [worker[w] EXCEPT !.pc = "update", !.seen = seen]
<1>1. worker[w] \in Threads /\ worker[w].todo # <<>>
  BY DEF Inv, TypeOK, ReadRows, At, HasChunk
<1>2. seen \in [processed : Nat, failed : Nat]
  BY CountedTyped
<1>3. worker' = [worker EXCEPT ![w] = t]
  BY DEF ReadRows
<1> HIDE DEF seen
<1>4. t \in Threads
  BY <1>1, <1>2 DEF Threads, Pcs
<1>5. t.pc = "update" /\ t.token = worker[w].token /\ t.wait = worker[w].wait
      /\ t.todo = worker[w].todo
  BY <1>1 DEF Threads
<1> HIDE DEF t
<1> QED
  BY <1>1, <1>3, <1>4, <1>5 DEF Becomes

LEMMA FailAttemptBecomes ==
    ASSUME Inv, NEW w \in Workers, worker[w].todo # <<>>, FailAttempt(w)
    PROVE  \E t : Becomes(w, t) /\ t.pc = "err" /\ t.token = worker[w].token
                  /\ t.wait = worker[w].wait
<1> DEFINE t == [worker[w] EXCEPT !.pc = "err", !.what = "open", !.pressure = FALSE,
                                  !.retry = TRUE]
<1>1. worker[w] \in Threads
  BY DEF Inv, TypeOK
<1>2. t \in Threads
  BY <1>1 DEF Threads, Pcs, RowStatuses
<1>3. t.pc = "err" /\ t.token = worker[w].token /\ t.wait = worker[w].wait
      /\ t.todo = worker[w].todo
  BY <1>1 DEF Threads
<1>4. worker' = [worker EXCEPT ![w] = t]
  BY DEF FailAttempt
<1> HIDE DEF t
<1> QED
  BY <1>2, <1>3, <1>4 DEF Becomes

-----------------------------------------------------------------------------
(* From what a worker becomes to the invariant. *)

\* A step of one thread that leaves the controller alone but for the failures it counts.
LEMMA StepKeeps ==
    ASSUME Inv, NEW w \in Workers, NEW t, Becomes(w, t), RestTyped, now' = now,
           ctl' \in Controllers, ctl'.gen >= ctl.gen, ctl'.until = ctl'.gen,
           ctl'.current \in 1..Target,
           t.token <= ctl'.gen, t.wait <= ctl'.gen,
           t.pc = "sleep" => t.token = 0 \/ t.token < ctl'.gen \/ t.wait = ctl'.gen,
           ctl'.active = Cardinality(Holding')
    PROVE  Inv'
<1>1. worker' \in [Workers -> Threads] /\ worker'[w] = t
      /\ \A o \in Workers \ {w} : worker'[o] = worker[o]
  BY DEF Becomes, Inv, TypeOK
<1>2. TypeOK'
  <2>1. ctl.gen \in Nat /\ ctl'.gen \in Nat /\ now \in 0..ctl.gen
    BY DEF Inv, TypeOK, Controllers
  <2>2. \A o \in Workers : worker'[o].token <= ctl'.gen /\ worker'[o].wait <= ctl'.gen
    <3>1. \A o \in Workers : /\ worker[o].token \in Nat /\ worker[o].wait \in Nat
                             /\ worker[o].token <= ctl.gen /\ worker[o].wait <= ctl.gen
      BY DEF Inv, TypeOK, Threads
    <3> QED
      BY <1>1, <2>1, <3>1
  <2>3. now' \in 0..ctl'.gen /\ ctl'.until <= ctl'.gen
    BY <2>1
  <2> QED
    BY <1>1, <2>2, <2>3 DEF TypeOK, RestTyped, Controllers
<1>3. HasChunk' /\ HasAttempt'
  BY <1>1 DEF Inv, HasChunk, HasAttempt, At, Becomes
<1>4. CooldownRuns'
  <2>1. ASSUME NEW o \in Workers, At(o, "sleep")', worker'[o].token = ctl'.gen
        PROVE  worker'[o].wait = ctl'.gen \/ worker'[o].token = 0
    <3>1. CASE o = w
      BY <1>1, <2>1, <3>1 DEF At, Becomes, Threads
    <3>2. CASE o # w
      <4>1. worker[o].token <= ctl.gen /\ worker[o].token \in Nat /\ ctl.gen \in Nat
        BY DEF Inv, TypeOK, Threads
      <4> QED
        BY <1>1, <2>1, <3>2, <4>1 DEF Inv, CooldownRuns, At, Controllers
    <3> QED
      BY <3>1, <3>2
  <2> QED
    BY <2>1 DEF CooldownRuns
<1>5. PermitsAreHeld'
  BY DEF PermitsAreHeld, Holding
<1> QED
  BY <1>2, <1>3, <1>4, <1>5 DEF Inv

\* Neither before nor after does the thread hold a permit, or both.
LEMMA HoldingKept ==
    ASSUME Inv, NEW w \in Workers, NEW t, Becomes(w, t),
           worker[w].pc \in {"publish", "call"} <=> t.pc \in {"publish", "call"}
    PROVE  Holding' = Holding
<1>1. worker'[w] = t /\ \A o \in Workers \ {w} : worker'[o] = worker[o]
  BY DEF Becomes, Inv, TypeOK
<1> QED
  BY <1>1 DEF Holding

LEMMA PlainStep ==
    ASSUME Inv, NEW w \in Workers, NEW t, Becomes(w, t), RestTyped, UNCHANGED <<now, ctl>>,
           \/ t.token = worker[w].token /\ t.wait = worker[w].wait
           \/ t.token = 0 /\ t.wait = 0,
           t.pc # "sleep",
           worker[w].pc \in {"publish", "call"} <=> t.pc \in {"publish", "call"}
    PROVE  Inv'
<1>1. ctl.active = Cardinality(Holding)
  BY DEF Inv, PermitsAreHeld, Holding
<1>2. ctl \in Controllers /\ ctl.until = ctl.gen /\ ctl.current \in 1..Target
  BY DEF Inv, TypeOK, Controllers, CooldownRuns, PermitsAreHeld
<1>3. worker[w].token <= ctl.gen /\ worker[w].wait <= ctl.gen /\ ctl.gen \in Nat
  BY DEF Inv, TypeOK
<1>4. t.token <= ctl.gen /\ t.wait <= ctl.gen
  BY <1>3
<1> QED
  BY <1>1, <1>2, <1>3, <1>4, HoldingKept, StepKeeps

-----------------------------------------------------------------------------
(* The steps. *)

LEMMA RestKept ==
    ASSUME Inv, UNCHANGED <<queue, row, count, lock, cancel, outcome, faults>> PROVE RestTyped
BY DEF Inv, TypeOK, RestTyped

LEMMA RowWritten ==
    ASSUME Inv, NEW w \in Workers, NEW status \in RowStatuses, SetRow(w, status)
    PROVE  row' \in [Chunks -> RowStatuses]
BY DEF Inv, TypeOK, SetRow

LEMMA LeaveChunkKeeps ==
    ASSUME Inv, NEW w \in Workers, LeaveChunk(w), worker[w].pc \notin {"publish", "call"},
           UNCHANGED <<queue, ctl, now, count, lock, cancel, outcome, faults>>
    PROVE  Inv'
<1>1. PICK t : Becomes(w, t) /\ t.pc = "done" /\ t.token = 0 /\ t.wait = 0
  BY LeaveBecomes DEF LeaveChunk, Leave
<1>2. row' \in [Chunks -> RowStatuses]
  BY RowWritten DEF LeaveChunk, RowStatuses
<1>3. RestTyped
  BY <1>2 DEF Inv, TypeOK, RestTyped
<1> QED
  BY <1>1, <1>3, PlainStep

LEMMA TakeGroupKeeps == ASSUME Inv, NEW w \in Workers, TakeGroup(w) PROVE Inv'
<1>1. worker[w].pc = "idle" /\ queue \in Seq(Seq(Chunks))
  BY DEF TakeGroup, At, Inv, TypeOK
<1>2. CASE Leave(w) /\ UNCHANGED queue
  <2>1. PICK t : Becomes(w, t) /\ t.pc = "done" /\ t.token = 0 /\ t.wait = 0
    BY <1>2, LeaveBecomes DEF Leave
  <2>2. RestTyped
    BY <1>2, RestKept DEF TakeGroup
  <2> QED
    BY <1>1, <2>1, <2>2, PlainStep DEF TakeGroup
<1>3. CASE queue # <<>> /\ Proceed(w, Head(queue)) /\ queue' = Tail(queue)
  <2>1. Head(queue) \in Seq(Chunks) /\ Tail(queue) \in Seq(Seq(Chunks))
    BY <1>1, <1>3
  <2>2. PICK t : Becomes(w, t) /\ t.pc = "next" /\ t.token = 0 /\ t.wait = 0
    BY <1>3, <2>1, ProceedBecomes
  <2>3. RestTyped
    BY <1>3, <2>1 DEF TakeGroup, Inv, TypeOK, RestTyped
  <2> QED
    BY <1>1, <2>2, <2>3, PlainStep DEF TakeGroup
<1> QED
  BY <1>2, <1>3 DEF TakeGroup

LEMMA NextChunkKeeps == ASSUME Inv, NEW w \in Workers, NextChunk(w) PROVE Inv'
<1>1. worker[w].pc = "next" /\ RestTyped /\ UNCHANGED <<now, ctl>>
  BY RestKept DEF NextChunk, At
<1>2. CASE Leave(w)
  <2>1. PICK t : Becomes(w, t) /\ t.pc = "done" /\ t.token = 0 /\ t.wait = 0
    BY <1>2, LeaveBecomes DEF Leave
  <2> QED
    BY <1>1, <2>1, PlainStep
<1>3. CASE Goto(w, "idle")
  <2>1. PICK t : Becomes(w, t) /\ t.pc = "idle" /\ t.token = worker[w].token
                 /\ t.wait = worker[w].wait
    BY <1>3, GotoBecomes DEF Pcs
  <2> QED
    BY <1>1, <2>1, PlainStep
<1>4. CASE worker[w].todo # <<>> /\ Goto(w, "attempt")
  <2>1. PICK t : Becomes(w, t) /\ t.pc = "attempt" /\ t.token = worker[w].token
                 /\ t.wait = worker[w].wait
    BY <1>4, GotoBecomes DEF Pcs
  <2> QED
    BY <1>1, <2>1, PlainStep
<1>5. CASE worker[w].todo # <<>> /\ \E what \in {"skipped", "failed"} : Go(w, "count", what)
  <2>1. PICK what \in RowStatuses : Go(w, "count", what)
    BY <1>5 DEF RowStatuses, Settled
  <2>2. PICK t : Becomes(w, t) /\ t.pc = "count" /\ t.token = worker[w].token
                 /\ t.wait = worker[w].wait
    BY <1>5, <2>1, GoBecomes
  <2> QED
    BY <1>1, <2>2, PlainStep
<1> QED
  BY <1>2, <1>3, <1>4, <1>5 DEF NextChunk

LEMMA AttemptKeeps == ASSUME Inv, NEW w \in Workers, Attempt(w) PROVE Inv'
<1>1. worker[w].pc = "attempt" /\ worker[w].todo # <<>>
  BY DEF Attempt, At, Inv, HasChunk
<1>2. CASE LeaveChunk(w)
  BY <1>1, <1>2, LeaveChunkKeeps DEF Attempt
<1>3. CASE Goto(w, "acquire") /\ SetRow(w, "open")
  <2>1. PICK t : Becomes(w, t) /\ t.pc = "acquire" /\ t.token = worker[w].token
                 /\ t.wait = worker[w].wait
    BY <1>1, <1>3, GotoBecomes DEF Pcs
  <2>2. RestTyped
    BY <1>3, RowWritten DEF Attempt, Inv, TypeOK, RestTyped, RowStatuses
  <2> QED
    BY <1>1, <2>1, <2>2, PlainStep DEF Attempt
<1> QED
  BY <1>2, <1>3 DEF Attempt

\* A permit is taken by a thread that had none.
LEMMA AcquireKeeps == ASSUME Inv, NEW w \in Workers, Acquire(w) PROVE Inv'
<1>1. worker[w].pc = "acquire" /\ worker[w].todo # <<>>
  BY DEF Acquire, At, Inv, HasChunk
<1>2. CASE LeaveChunk(w) /\ UNCHANGED ctl
  BY <1>1, <1>2, LeaveChunkKeeps DEF Acquire
<1>3. CASE ctl' = [ctl EXCEPT !.active = @ + 1] /\ Goto(w, "publish") /\ UNCHANGED row
  <2>1. PICK t : Becomes(w, t) /\ t.pc = "publish" /\ t.token = worker[w].token
                 /\ t.wait = worker[w].wait
    BY <1>1, <1>3, GotoBecomes DEF Pcs
  <2>2. RestTyped /\ now' = now
    BY <1>3, RestKept DEF Acquire
  <2>3. worker'[w] = t /\ \A o \in Workers \ {w} : worker'[o] = worker[o]
    BY <2>1 DEF Becomes, Inv, TypeOK
  <2>4. Holding' = Holding \cup {w} /\ w \notin Holding
    BY <1>1, <2>1, <2>3 DEF Holding
  <2>5. Cardinality(Holding') = Cardinality(Holding) + 1
    BY <2>4, HoldingFinite, FS_AddElement
  <2>6. /\ ctl' \in Controllers /\ ctl'.active = ctl.active + 1
        /\ ctl'.gen = ctl.gen /\ ctl'.until = ctl.until /\ ctl'.current = ctl.current
    <3>1. ctl \in Controllers /\ ctl.active + 1 \in Nat
      BY DEF Inv, TypeOK, Controllers
    <3> QED
      BY <1>3, <3>1, ActiveWritten
  <2>7. /\ ctl.active = Cardinality(Holding) /\ ctl.until = ctl.gen /\ ctl.current \in 1..Target
        /\ worker[w].token <= ctl.gen /\ worker[w].wait <= ctl.gen /\ ctl.gen \in Nat
    BY DEF Inv, TypeOK, PermitsAreHeld, Holding, CooldownRuns
  <2> QED
    BY <2>1, <2>2, <2>5, <2>6, <2>7, StepKeeps
<1> QED
  BY <1>2, <1>3 DEF Acquire

LEMMA PublishKeeps == ASSUME Inv, NEW w \in Workers, Publish(w) PROVE Inv'
<1>1. worker[w].pc = "publish" /\ worker[w].todo # <<>>
  BY DEF Publish, At, Inv, HasChunk
<1>2. PICK t : Becomes(w, t) /\ t.pc = "call" /\ t.token = worker[w].token
               /\ t.wait = worker[w].wait
  BY <1>1, GotoBecomes DEF Publish, Pcs
<1> QED
  BY <1>1, <1>2, RestKept, PlainStep DEF Publish

\* However the call ends, the permit is given back.
LEMMA ReleaseIs ==
    ASSUME Inv, NEW w \in Workers, Release(w)
    PROVE  /\ ctl' \in Controllers /\ ctl'.active = ctl.active - 1
           /\ ctl'.gen = ctl.gen /\ ctl'.until = ctl.until /\ ctl'.current = ctl.current
<1>1. w \in Holding
  BY DEF Release, At, Holding
<1>2. ctl.active = Cardinality(Holding) /\ ctl \in Controllers
  BY DEF Inv, TypeOK, PermitsAreHeld, Holding, Controllers
<1>3. Cardinality(Holding) \in Nat /\ Cardinality(Holding) # 0
  BY <1>1, HoldingFinite, FS_EmptySet
<1> DEFINE n == IF ctl.active = 0 THEN 0 ELSE ctl.active - 1
<1>4. n \in Nat /\ n = ctl.active - 1
  BY <1>2, <1>3
<1>5. ctl' = [ctl EXCEPT !.active = n]
  BY DEF Release
<1> HIDE DEF n
<1> QED
  BY <1>2, <1>4, <1>5, ActiveWritten

LEMMA ReleaseKeeps == ASSUME Inv, NEW w \in Workers, Release(w) PROVE Inv'
<1>1. worker[w].pc = "call" /\ worker[w].todo # <<>> /\ RestTyped /\ now' = now
  BY RestKept DEF Release, At, Inv, HasChunk
<1>2. \E t : Becomes(w, t) /\ t.pc \in {"ok", "pressed", "err"} /\ t.token = worker[w].token
             /\ t.wait = worker[w].wait
  <2>1. CASE Goto(w, "ok")
    BY <1>1, <2>1, GotoBecomes DEF Pcs
  <2>2. CASE Goto(w, "pressed")
    BY <1>1, <2>2, GotoBecomes DEF Pcs
  <2>3. CASE \E pressure, retry \in BOOLEAN :
               worker' = [worker EXCEPT ![w] = [worker[w] EXCEPT !.pc = "err",
                            !.pressure = pressure, !.retry = retry]]
    BY <1>1, <2>3, RaisesBecomes
  <2> QED
    BY <2>1, <2>2, <2>3 DEF Release
<1>3. PICK t : Becomes(w, t) /\ t.pc \in {"ok", "pressed", "err"} /\ t.token = worker[w].token
               /\ t.wait = worker[w].wait
  BY <1>2
<1>4. worker'[w] = t /\ \A o \in Workers \ {w} : worker'[o] = worker[o]
  BY <1>3 DEF Becomes, Inv, TypeOK
<1>5. Holding' = Holding \ {w} /\ w \in Holding
  BY <1>1, <1>3, <1>4 DEF Holding
<1>6. Cardinality(Holding') = Cardinality(Holding) - 1
  BY <1>5, HoldingFinite, FS_RemoveElement
<1>7. Cardinality(Holding') \in Nat
  BY <1>5, HoldingFinite, FS_RemoveElement, FS_CardinalityType
<1>8. /\ ctl.active = Cardinality(Holding) /\ ctl.until = ctl.gen /\ ctl.current \in 1..Target
      /\ worker[w].token <= ctl.gen /\ worker[w].wait <= ctl.gen /\ ctl.gen \in Nat
      /\ ctl \in Controllers
  BY DEF Inv, TypeOK, PermitsAreHeld, Holding, CooldownRuns, Controllers
<1>9. /\ ctl' \in Controllers /\ ctl'.active = ctl.active - 1
      /\ ctl'.gen = ctl.gen /\ ctl'.until = ctl.until /\ ctl'.current = ctl.current
  BY ReleaseIs
<1> QED
  BY <1>1, <1>3, <1>6, <1>8, <1>9, StepKeeps

LEMMA SuccessIs ==
    ASSUME Inv, NEW w \in Workers, RecordSuccess(w)
    PROVE  /\ ctl' \in Controllers /\ ctl'.active = ctl.active
           /\ ctl'.gen = ctl.gen /\ ctl'.until = ctl.until /\ ctl'.current \in 1..Target
<1>0. ctl \in Controllers /\ ctl.current \in 1..Target
  BY DEF Inv, TypeOK, PermitsAreHeld, Controllers
<1> DEFINE streak == ctl.streak + 1
           grow == /\ ctl.current < Target
                   /\ streak >= (IF 2 * ctl.current > 4 THEN 2 * ctl.current ELSE 4)
                   /\ ~Cooling
           n == IF grow THEN 0 ELSE streak
           c == IF grow THEN ctl.current + 1 ELSE ctl.current
<1>1. ctl' = [ctl EXCEPT !.failures = 0, !.streak = n, !.current = c]
  BY DEF RecordSuccess
<1>2. n \in Nat
  BY <1>0 DEF Controllers
<1>3. c \in 1..Target
  BY <1>0, Bounds
<1> HIDE DEF n, c
<1>4. c \in Nat /\ 0 \in Nat
  BY <1>3
<1>5. /\ ctl' \in Controllers /\ ctl'.active = ctl.active /\ ctl'.current = c
      /\ ctl'.gen = ctl.gen /\ ctl'.until = ctl.until
  BY <1>0, <1>1, <1>2, <1>4, LimitWritten, Zenon
<1> QED
  BY <1>0, <1>1, <1>2, <1>3, <1>5, LimitWritten

LEMMA SuccessKeeps == ASSUME Inv, NEW w \in Workers, RecordSuccess(w) PROVE Inv'
<1>1. worker[w].pc = "ok" /\ worker[w].todo # <<>> /\ RestTyped /\ now' = now
  BY RestKept DEF RecordSuccess, At, Inv, HasChunk
<1>2. PICK t : Becomes(w, t) /\ t.pc = "count" /\ t.token = worker[w].token
               /\ t.wait = worker[w].wait
  BY <1>1, GoBecomes DEF RecordSuccess, RowStatuses, Settled
<1>3. /\ ctl.active = Cardinality(Holding) /\ ctl.until = ctl.gen /\ ctl.current \in 1..Target
      /\ worker[w].token <= ctl.gen /\ worker[w].wait <= ctl.gen /\ ctl.gen \in Nat
      /\ ctl \in Controllers
  BY DEF Inv, TypeOK, PermitsAreHeld, Holding, CooldownRuns, Controllers
<1>4. /\ ctl' \in Controllers /\ ctl'.active = ctl.active
      /\ ctl'.gen = ctl.gen /\ ctl'.until = ctl.until /\ ctl'.current \in 1..Target
  BY SuccessIs
<1>5. Holding' = Holding
  BY <1>1, <1>2, HoldingKept
<1> QED
  BY <1>1, <1>2, <1>3, <1>4, <1>5, StepKeeps

\* A failure shrinks the limit, not to zero, and a cooldown it begins is the latest.
LEMMA PenaltyIs ==
    ASSUME Inv, NEW pressure \in BOOLEAN, NEW token \in {0, ctl.gen + 1}, Penalize(pressure, token)
    PROVE  /\ ctl' \in Controllers /\ ctl'.active = ctl.active /\ ctl'.current \in 1..Target
           /\ ctl'.until = ctl'.gen /\ ctl'.gen >= ctl.gen /\ token <= ctl'.gen
<1> DEFINE failures == ctl.failures + 1
           penalty == pressure \/ failures >= 2
<1>1. /\ ctl.until = ctl.gen /\ ctl.current \in 1..Target /\ ctl.gen \in Nat
      /\ ctl \in Controllers
  BY DEF Inv, TypeOK, PermitsAreHeld, CooldownRuns, Controllers
<1>2. Shrunk(ctl.current) \in 1..Target
  BY <1>1, Bounds DEF Shrunk
<1>3. failures \in Nat
  BY <1>1 DEF Controllers
<1>4. CASE /\ token = ctl.gen + 1
           /\ ctl' = [ctl EXCEPT !.failures = failures, !.streak = 0,
                                 !.current = Shrunk(ctl.current), !.until = token, !.gen = token]
  <2> DEFINE m == Shrunk(ctl.current)
  <2> HIDE DEF failures
  <2>1. token \in Nat /\ token > ctl.gen /\ Shrunk(ctl.current) \in Nat /\ 0 \in Nat
    BY <1>1, <1>2, <1>4
  <2>2. ctl' = [ctl EXCEPT !.failures = failures, !.streak = 0, !.current = m, !.until = token,
                           !.gen = token]
    BY <1>4
  <2>3. m \in 1..Target /\ m \in Nat
    BY <1>2, <2>1
  <2> HIDE DEF m
  <2>4. /\ ctl' \in Controllers /\ ctl'.active = ctl.active /\ ctl'.current = m
        /\ ctl'.gen = token /\ ctl'.until = token
    BY <1>1, <1>3, <2>1, <2>2, <2>3 DEF Controllers
  <2> QED
    BY <1>1, <2>1, <2>3, <2>4
<1>5. CASE /\ token = 0
           /\ ctl' = [ctl EXCEPT !.failures = failures, !.streak = 0,
                                 !.current = IF penalty THEN Shrunk(ctl.current) ELSE ctl.current]
  <2> DEFINE c == IF penalty THEN Shrunk(ctl.current) ELSE ctl.current
  <2>1. c \in 1..Target
    BY <1>1, <1>2
  <2>2. ctl' = [ctl EXCEPT !.failures = failures, !.streak = 0, !.current = c]
    BY <1>5
  <2> HIDE DEF failures, c
  <2>3. c \in Nat /\ 0 \in Nat
    BY <2>1
  <2>4. /\ ctl' \in Controllers /\ ctl'.active = ctl.active /\ ctl'.current = c
        /\ ctl'.gen = ctl.gen /\ ctl'.until = ctl.until
    BY <1>1, <1>3, <2>2, <2>3, LimitWritten, Zenon
  <2> QED
    BY <1>1, <1>5, <2>1, <2>4
<1> QED
  BY <1>4, <1>5 DEF Penalize

LEMMA RecordIs ==
    ASSUME Inv, NEW w \in Workers, RecordSuccess(w) \/ RecordPressure(w) \/ RecordFailure(w)
    PROVE  ctl'.active = ctl.active
<1>1. ctl.gen \in Nat /\ worker[w].pressure \in BOOLEAN
  BY DEF Inv, TypeOK, Threads
<1>2. CASE RecordSuccess(w)
  BY <1>2, SuccessIs
<1>3. CASE RecordPressure(w)
  <2>1. PICK token \in {0, ctl.gen + 1} : Penalize(TRUE, token)
    BY <1>3 DEF RecordPressure
  <2> QED
    BY <2>1, PenaltyIs
<1>4. CASE RecordFailure(w) /\ ctl' # ctl
  <2>1. PICK token \in {0, ctl.gen + 1} : Penalize(worker[w].pressure, token)
    BY <1>4 DEF RecordFailure
  <2> QED
    BY <1>1, <2>1, PenaltyIs
<1> QED
  BY <1>2, <1>3, <1>4

LEMMA PressureKeeps == ASSUME Inv, NEW w \in Workers, RecordPressure(w) PROVE Inv'
<1>1. worker[w].pc = "pressed" /\ worker[w].todo # <<>> /\ RestTyped /\ now' = now
  BY RestKept DEF RecordPressure, At, Inv, HasChunk
<1>2. PICK t : Becomes(w, t) /\ t.pc = "count" /\ t.token = worker[w].token
               /\ t.wait = worker[w].wait
  BY <1>1, GoBecomes DEF RecordPressure, RowStatuses, Settled
<1>3. /\ ctl' \in Controllers /\ ctl'.active = ctl.active /\ ctl'.current \in 1..Target
      /\ ctl'.until = ctl'.gen /\ ctl'.gen >= ctl.gen
  <2>1. PICK token \in {0, ctl.gen + 1} : Penalize(TRUE, token)
    BY DEF RecordPressure
  <2> QED
    BY <2>1, PenaltyIs
<1>4. /\ ctl.active = Cardinality(Holding) /\ ctl.gen \in Nat
      /\ worker[w].token <= ctl.gen /\ worker[w].wait <= ctl.gen
      /\ worker[w].token \in Nat /\ worker[w].wait \in Nat /\ ctl'.gen \in Nat
  BY <1>3 DEF Inv, TypeOK, PermitsAreHeld, Holding, Threads, Controllers
<1>5. t.token <= ctl'.gen /\ t.wait <= ctl'.gen
  BY <1>2, <1>3, <1>4
<1>6. Holding' = Holding
  BY <1>1, <1>2, HoldingKept
<1> QED
  BY <1>1, <1>2, <1>3, <1>4, <1>5, <1>6, StepKeeps

LEMMA FailureKeeps == ASSUME Inv, NEW w \in Workers, RecordFailure(w) PROVE Inv'
<1>1. worker[w].pc = "err" /\ worker[w].todo # <<>> /\ RestTyped /\ now' = now
  BY RestKept DEF RecordFailure, At, Inv, HasChunk
<1>2. CASE ~worker[w].retry
  <2>1. PICK t : Becomes(w, t) /\ t.pc = "decide" /\ t.token = worker[w].token
                 /\ t.wait = worker[w].wait
    BY <1>1, <1>2, GotoBecomes DEF RecordFailure, Pcs
  <2> QED
    BY <1>1, <1>2, <2>1, PlainStep DEF RecordFailure
<1>3. CASE worker[w].retry
  <2>1. PICK token \in {0, ctl.gen + 1} :
          /\ Penalize(worker[w].pressure, token)
          /\ worker' = [worker EXCEPT ![w] = [worker[w] EXCEPT !.pc = "decide", !.token = token]]
    BY <1>3 DEF RecordFailure
  <2>2. /\ worker[w].pressure \in BOOLEAN /\ ctl.gen \in Nat /\ ctl.active = Cardinality(Holding)
        /\ worker[w].wait \in Nat /\ worker[w].wait <= ctl.gen
    BY DEF Inv, TypeOK, Threads, PermitsAreHeld, Holding
  <2>3. PICK t : Becomes(w, t) /\ t.pc = "decide" /\ t.token = token /\ t.wait = worker[w].wait
    <3>1. token \in Nat
      BY <2>2
    <3> QED
      BY <1>1, <2>1, <3>1, DecideBecomes
  <2>4. /\ ctl' \in Controllers /\ ctl'.active = ctl.active /\ ctl'.current \in 1..Target
        /\ ctl'.until = ctl'.gen /\ ctl'.gen >= ctl.gen /\ token <= ctl'.gen
    BY <2>1, <2>2, PenaltyIs
  <2>5. t.wait <= ctl'.gen
    BY <2>2, <2>3, <2>4 DEF Controllers
  <2>6. Holding' = Holding
    BY <1>1, <2>3, HoldingKept
  <2> QED
    BY <1>1, <2>2, <2>3, <2>4, <2>5, <2>6, StepKeeps
<1> QED
  BY <1>2, <1>3

LEMMA DecideKeeps == ASSUME Inv, NEW w \in Workers, Decide(w) PROVE Inv'
<1>1. worker[w].pc = "decide" /\ worker[w].todo # <<>> /\ UNCHANGED <<now, ctl>>
  BY DEF Decide, At, Inv, HasChunk
<1>2. CASE (Go(w, "write", "split") \/ Go(w, "count", "failed")) /\ UNCHANGED row
  <2>1. PICK t : Becomes(w, t) /\ t.pc \in {"write", "count"} /\ t.token = worker[w].token
                 /\ t.wait = worker[w].wait
    BY <1>1, <1>2, GoBecomes DEF RowStatuses, Settled
  <2>2. RestTyped
    BY <1>2, RestKept DEF Decide
  <2> QED
    BY <1>1, <2>1, <2>2, PlainStep
<1>3. CASE /\ MayRetry(w)
           /\ worker' = [worker EXCEPT ![w] = [worker[w] EXCEPT !.pc = "sleep", !.wait = ctl.until]]
           /\ SetRow(w, "open")
  <2>1. /\ ctl.until \in Nat /\ ctl.until = ctl.gen /\ ctl.current \in 1..Target
        /\ ctl.active = Cardinality(Holding) /\ ctl \in Controllers
        /\ worker[w].token <= ctl.gen /\ worker[w].attempt < MaxAttempts
    BY <1>3 DEF Inv, TypeOK, CooldownRuns, PermitsAreHeld, Holding, Controllers, MayRetry
  <2>2. PICK t : Becomes(w, t) /\ t.pc = "sleep" /\ t.token = worker[w].token
                 /\ t.wait = ctl.until
    BY <1>1, <1>3, <2>1, SleepBecomes
  <2>3. RestTyped
    BY <1>3, RowWritten DEF Decide, Inv, TypeOK, RestTyped, RowStatuses
  <2>4. Holding' = Holding
    BY <1>1, <2>2, HoldingKept
  <2>5. ctl' = ctl /\ ctl.gen \in Nat
    BY <1>1, <2>1
  <2> QED
    BY <1>1, <2>1, <2>2, <2>3, <2>4, <2>5, StepKeeps
<1>4. CASE LeaveChunk(w)
  BY <1>1, <1>4, LeaveChunkKeeps DEF Decide
<1> QED
  BY <1>2, <1>3, <1>4 DEF Decide

\* The cooldown a worker ends is one it has slept through.
LEMMA BackoffIsOver ==
    ASSUME Inv, NEW w \in Workers, At(w, "sleep"), worker[w].wait <= now,
           CompleteBackoff(worker[w].token)
    PROVE  ctl' = ctl
<1>1. now <= ctl.gen /\ ctl.until = ctl.gen /\ ctl.gen \in Nat /\ now \in Nat
  BY DEF Inv, TypeOK, CooldownRuns
<1>2. worker[w].token = ctl.gen => worker[w].wait = ctl.gen \/ worker[w].token = 0
  BY DEF Inv, CooldownRuns
<1> QED
  BY <1>1, <1>2 DEF CompleteBackoff

LEMMA WakeKeeps == ASSUME Inv, NEW w \in Workers, Wake(w) PROVE Inv'
<1>1. worker[w].pc = "sleep" /\ At(w, "sleep")
  BY DEF Wake, At
<1>2. CASE LeaveChunk(w) /\ UNCHANGED ctl
  BY <1>1, <1>2, LeaveChunkKeeps DEF Wake
<1>3. CASE /\ worker[w].wait <= now
           /\ CompleteBackoff(worker[w].token)
           /\ worker' = [worker EXCEPT ![w] = NextAttempt(@)]
           /\ UNCHANGED row
  <2>1. PICK t : Becomes(w, t) /\ t.pc = "attempt" /\ t.token = 0 /\ t.wait = 0
    BY <1>1, <1>3, WakeBecomes
  <2>2. ctl' = ctl
    BY <1>1, <1>3, BackoffIsOver
  <2>3. RestTyped
    BY <1>3, RestKept DEF Wake
  <2> QED
    BY <1>1, <2>1, <2>2, <2>3, PlainStep DEF Wake
<1> QED
  BY <1>2, <1>3 DEF Wake

LEMMA CountKeeps == ASSUME Inv, NEW w \in Workers, Count(w) PROVE Inv'
<1>1. worker[w].pc = "count" /\ worker[w].todo # <<>> /\ UNCHANGED <<now, ctl>>
  BY DEF Count, At, Inv, HasChunk
<1>2. PICK t : Becomes(w, t) /\ t.pc = "write" /\ t.token = worker[w].token
               /\ t.wait = worker[w].wait
  BY <1>1, GotoBecomes DEF Count, Pcs
<1>3. count' \in [processed : Nat, failed : Nat, total : Nat]
  <2> DEFINE n == count.processed + 1
             f == IF worker[w].what = "failed" THEN count.failed + 1 ELSE count.failed
  <2>1. n \in Nat /\ f \in Nat /\ count \in [processed : Nat, failed : Nat, total : Nat]
    BY DEF Inv, TypeOK
  <2>2. count' = [count EXCEPT !.processed = n, !.failed = f]
    BY DEF Count
  <2> HIDE DEF n, f
  <2> QED
    BY <2>1, <2>2
<1>4. RestTyped
  BY <1>3 DEF Count, Inv, TypeOK, RestTyped
<1> QED
  BY <1>1, <1>2, <1>4, PlainStep

LEMMA WriteKeeps == ASSUME Inv, NEW w \in Workers, Write(w) PROVE Inv'
<1>1. worker[w].pc = "write" /\ worker[w].todo # <<>> /\ UNCHANGED <<now, ctl>>
  BY DEF Write, At, Inv, HasChunk
<1>2. PICK t : Becomes(w, t) /\ t.pc \in {"tree", "read"} /\ t.token = worker[w].token
               /\ t.wait = worker[w].wait
  <2>1. PICK pc \in {"tree", "read"} : Goto(w, pc)
    BY DEF Write
  <2> QED
    BY <1>1, <2>1, GotoBecomes DEF Pcs
<1>3. worker[w].what \in RowStatuses
  BY DEF Inv, TypeOK, Threads
<1>4. RestTyped
  BY <1>3, RowWritten DEF Write, Inv, TypeOK, RestTyped
<1> QED
  BY <1>1, <1>2, <1>4, PlainStep

LEMMA SplitKeeps == ASSUME Inv, NEW w \in Workers, CountSplit(w) PROVE Inv'
<1>1. worker[w].pc = "tree" /\ worker[w].todo # <<>> /\ UNCHANGED <<now, ctl>>
  BY DEF CountSplit, At, Inv, HasChunk
<1>2. worker[w].todo \in Seq(Chunks)
  BY DEF Inv, TypeOK, Threads
<1>3. C(w) \in Chunks /\ Tail(worker[w].todo) \in Seq(Chunks)
  BY <1>1, <1>2 DEF C
<1>4. Children[C(w)] \in Seq(Chunks)
  BY <1>3, ChunksAssumption
<1>5. Children[C(w)] \o Tail(worker[w].todo) \in Seq(Chunks)
  BY <1>3, <1>4
<1>6. PICK t : Becomes(w, t) /\ t.pc = "next" /\ t.token = 0 /\ t.wait = 0
  BY <1>5, ProceedBecomes DEF CountSplit
<1>7. RestTyped
  <2> DEFINE n == count.total + 1
  <2>1. n \in Nat /\ count \in [processed : Nat, failed : Nat, total : Nat]
    BY DEF Inv, TypeOK
  <2>2. count' = [count EXCEPT !.total = n]
    BY DEF CountSplit
  <2> HIDE DEF n
  <2>3. count' \in [processed : Nat, failed : Nat, total : Nat]
    BY <2>1, <2>2
  <2> QED
    BY <2>3 DEF CountSplit, Inv, TypeOK, RestTyped
<1> QED
  BY <1>1, <1>6, <1>7, PlainStep

LEMMA ReadKeeps == ASSUME Inv, NEW w \in Workers, ReadRows(w) PROVE Inv'
<1>1. worker[w].pc = "read" /\ UNCHANGED <<now, ctl>>
  BY DEF ReadRows, At
<1>2. PICK t : Becomes(w, t) /\ t.pc = "update" /\ t.token = worker[w].token
               /\ t.wait = worker[w].wait
  BY ReadBecomes
<1>3. RestTyped
  BY DEF ReadRows, Inv, TypeOK, RestTyped
<1> QED
  BY <1>1, <1>2, <1>3, PlainStep

LEMMA UpdateKeeps == ASSUME Inv, NEW w \in Workers, UpdateCounts(w) PROVE Inv'
<1>1. worker[w].pc = "update" /\ worker[w].todo # <<>> /\ UNCHANGED <<now, ctl>>
  BY DEF UpdateCounts, At, Inv, HasChunk
<1>2. worker[w].todo \in Seq(Chunks) /\ worker[w].seen \in [processed : Nat, failed : Nat]
  BY DEF Inv, TypeOK, Threads
<1>3. Tail(worker[w].todo) \in Seq(Chunks)
  BY <1>1, <1>2
<1>4. PICK t : Becomes(w, t) /\ t.pc = "next" /\ t.token = 0 /\ t.wait = 0
  BY <1>3, ProceedBecomes DEF UpdateCounts
<1>5. count' \in [processed : Nat, failed : Nat, total : Nat]
  BY <1>2 DEF UpdateCounts, Inv, TypeOK
<1>6. RestTyped
  BY <1>5 DEF UpdateCounts, Inv, TypeOK, RestTyped
<1> QED
  BY <1>1, <1>4, <1>6, PlainStep

LEMMA WriteFailsKeeps == ASSUME Inv, NEW w \in Workers, WriteFails(w) PROVE Inv'
<1>1. /\ worker[w].pc \notin {"publish", "call", "idle", "done", "dead"}
      /\ UNCHANGED <<now, ctl>>
  BY DEF WriteFails
<1>2. RestTyped
  BY Bounds DEF WriteFails, Inv, TypeOK, RestTyped
<1>3. CASE worker' = [worker EXCEPT ![w] = [Idle EXCEPT !.pc = "dead"]]
  <2>1. PICK t : Becomes(w, t) /\ t.pc = "dead" /\ t.token = 0 /\ t.wait = 0
    BY <1>3, LeaveBecomes
  <2> QED
    BY <1>1, <1>2, <2>1, PlainStep
<1>4. CASE worker[w].todo # <<>> /\ FailAttempt(w)
  <2>1. PICK t : Becomes(w, t) /\ t.pc = "err" /\ t.token = worker[w].token
                 /\ t.wait = worker[w].wait
    BY <1>4, FailAttemptBecomes
  <2> QED
    BY <1>1, <1>2, <2>1, PlainStep
<1>5. worker[w].what = "succeeded" => worker[w].todo # <<>>
  <2>1. /\ worker[w].pc \notin {"idle", "next", "done", "dead"} => worker[w].todo # <<>>
        /\ worker[w].pc = "next" => worker[w].what = "open"
    BY DEF Inv, HasChunk
  <2> QED
    BY <1>1, <2>1
<1> QED
  BY <1>3, <1>4, <1>5 DEF WriteFails

\* No thread is part of it.
LEMMA JobStepKeeps == ASSUME Inv, RequestCancel \/ Tick \/ Finish PROVE Inv'
<1>1. UNCHANGED <<worker, ctl, queue, row, count, lock, faults>>
  BY DEF RequestCancel, Tick, Finish
<1>2. cancel' \in BOOLEAN /\ now' \in 0..ctl.gen
      /\ outcome' \in {"running", "completed", "completed_with_errors", "cancelled", "failed"}
  <2>1. now \in 0..ctl.gen /\ ctl.gen \in Nat
    BY DEF Inv, TypeOK
  <2> QED
    <3>1. CASE RequestCancel
      BY <2>1, <3>1 DEF RequestCancel, Inv, TypeOK
    <3>2. CASE Tick
      BY <2>1, <3>2 DEF Tick, Inv, TypeOK
    <3>3. CASE Finish
      BY <2>1, <3>3 DEF Finish, Inv, TypeOK
    <3> QED
      BY <3>1, <3>2, <3>3
<1>3. TypeOK'
  BY <1>1, <1>2 DEF Inv, TypeOK
<1> QED
  BY <1>1, <1>3 DEF Inv, HasChunk, HasAttempt, CooldownRuns, PermitsAreHeld, At

-----------------------------------------------------------------------------

LEMMA InitInv == Init => Inv
<1> SUFFICES ASSUME Init PROVE Inv
  OBVIOUS
<1>1. IsFiniteSet(Planned) /\ Cardinality(Planned) \in Nat
  <2>1. Planned \subseteq Chunks
    BY ChunksAssumption DEF Planned
  <2> QED
    BY <2>1, ChunksAssumption, FS_Subset, FS_CardinalityType
<1>2. worker \in [Workers -> Threads] /\ \A w \in Workers : worker[w] = Idle
  BY IdleTyped DEF Init
<1>3. /\ ctl = [active |-> 0, current |-> Target, failures |-> 0, streak |-> 0,
                until |-> 0, gen |-> 0]
      /\ now = 0
  BY DEF Init
<1>4. TypeOK
  <2>1. queue = Groups /\ row = [c \in Chunks |-> "open"] /\ lock = NoOne /\ cancel = FALSE
        /\ outcome = "running" /\ faults = MaxFaults
        /\ count = [processed |-> 0, failed |-> 0, total |-> Cardinality(Planned)]
    BY DEF Init
  <2>2. count \in [processed : Nat, failed : Nat, total : Nat]
    BY <1>1, <2>1
  <2>3. /\ ctl \in Controllers /\ ctl.until = 0 /\ ctl.gen = 0
        /\ \A w \in Workers : worker[w].token = 0 /\ worker[w].wait = 0
    BY <1>2, <1>3, Bounds DEF Controllers, Idle
  <2>4. row \in [Chunks -> RowStatuses]
    BY <2>1 DEF RowStatuses
  <2>5. /\ queue \in Seq(Seq(Chunks)) /\ lock \in Workers \cup {NoOne} /\ cancel \in BOOLEAN
        /\ outcome \in {"running", "completed", "completed_with_errors", "cancelled", "failed"}
        /\ faults \in 0..MaxFaults
    <3>1. faults \in 0..MaxFaults
      BY <2>1, Bounds
    <3>2. queue \in Seq(Seq(Chunks))
      BY <2>1, ChunksAssumption
    <3> QED
      BY <2>1, <3>1, <3>2
  <2> QED
    BY <1>2, <1>3, <2>2, <2>3, <2>4, <2>5 DEF TypeOK, Controllers
<1>5. HasChunk /\ HasAttempt /\ CooldownRuns
  BY <1>2, <1>3 DEF HasChunk, HasAttempt, CooldownRuns, At, Idle
<1>6. Holding = {}
  BY <1>2 DEF Holding, Idle
<1>7. PermitsAreHeld
  <2>1. ctl.active = 0 /\ ctl.current = Target
    BY <1>3
  <2>2. ctl.current \in 1..Target
    BY <2>1, Bounds
  <2>3. Cardinality(Holding) = 0
    BY <1>6, FS_EmptySet
  <2> QED
    BY <2>1, <2>2, <2>3 DEF PermitsAreHeld, Holding
<1> QED
  BY <1>4, <1>5, <1>7 DEF Inv

LEMMA NextInv == Inv /\ [Next]_vars => Inv'
<1> SUFFICES ASSUME Inv, [Next]_vars PROVE Inv'
  OBVIOUS
<1>1. ASSUME NEW w \in Workers, WorkerStep(w) PROVE Inv'
  BY <1>1, TakeGroupKeeps, NextChunkKeeps, AttemptKeeps, AcquireKeeps, PublishKeeps, ReleaseKeeps,
     SuccessKeeps, PressureKeeps, FailureKeeps, DecideKeeps, WakeKeeps, CountKeeps, WriteKeeps,
     SplitKeeps, ReadKeeps, UpdateKeeps DEF WorkerStep, CallStep, RowStep
<1>2. ASSUME NEW w \in Workers, WriteFails(w) PROVE Inv'
  BY <1>2, WriteFailsKeeps
<1>3. CASE RequestCancel \/ Tick \/ Finish
  BY <1>3, JobStepKeeps
<1>4. CASE UNCHANGED vars
  BY <1>4 DEF vars, Inv, TypeOK, HasChunk, HasAttempt, CooldownRuns, PermitsAreHeld, At
<1> QED
  BY <1>1, <1>2, <1>3, <1>4 DEF Next

LEMMA SpecInv == Spec => []Inv
BY InitInv, NextInv, PTL DEF Spec

\* Every reachable state of a run is well typed; no chunk is attempted more often than allowed.
THEOREM PoolTypeCorrect == Spec => []TypeOK
<1>1. Inv => TypeOK
  BY DEF Inv
<1> QED
  BY <1>1, SpecInv, PTL

\* Every permit is held by one call under way, and the limit stays between one and the number of
\* workers, whatever is raised, cancelled or fails to be written.
THEOREM PermitsAreHeldThm == Spec => []PermitsAreHeld
<1>1. Inv => PermitsAreHeld
  BY DEF Inv
<1> QED
  BY <1>1, SpecInv, PTL

\* No call begins before the latest cooldown has passed: the one worker that ends a cooldown
\* ahead of the clock has slept as long.
THEOREM CooldownIsServedThm == Spec => CooldownIsServed
<1>1. ASSUME Inv, Next, ctl'.active > ctl.active PROVE now = ctl.gen
  <2>1. ctl.active \in Nat /\ ctl.until = ctl.gen /\ now <= ctl.gen /\ now \in Nat /\ ctl.gen \in Nat
    BY <1>1 DEF Inv, TypeOK, CooldownRuns
  <2>2. CASE \E w \in Workers : Acquire(w)
    BY <1>1, <2>1, <2>2 DEF Acquire, Cooling, LeaveChunk
  <2>3. ASSUME NEW w \in Workers, Release(w) PROVE FALSE
    <3>1. ctl'.active = ctl.active - 1
      BY <1>1, <2>3, ReleaseIs
    <3> QED
      BY <1>1, <2>1, <3>1
  <2>4. ASSUME NEW w \in Workers, RecordSuccess(w) \/ RecordPressure(w) \/ RecordFailure(w)
        PROVE  FALSE
    <3>1. ctl'.active = ctl.active
      BY <1>1, <2>4, RecordIs
    <3> QED
      BY <1>1, <2>1, <3>1
  <2>5. ASSUME NEW w \in Workers, Wake(w) PROVE ctl' = ctl
    BY <1>1, <2>5, BackoffIsOver DEF Wake
  <2>6. ctl' # ctl
    BY <1>1, <2>1
  <2>7. (\E w \in Workers : Acquire(w) \/ Release(w) \/ RecordSuccess(w) \/ RecordPressure(w)
                            \/ RecordFailure(w) \/ Wake(w)) \/ ctl' = ctl
    BY <1>1 DEF Next, WorkerStep, CallStep, RowStep, TakeGroup, NextChunk, Publish, Decide, Attempt,
                Count, Write, CountSplit, ReadRows, UpdateCounts, WriteFails, RequestCancel, Tick,
                Finish
  <2> QED
    BY <2>2, <2>3, <2>4, <2>5, <2>6, <2>7
<1>2. Inv /\ [Next]_vars => [ctl'.active > ctl.active => now = ctl.gen]_vars
  BY <1>1
<1> QED
  BY <1>2, SpecInv, PTL DEF Spec, CooldownIsServed
=============================================================================
