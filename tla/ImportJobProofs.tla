--------------------------- MODULE ImportJobProofs ---------------------------
(* Theorems about ImportJob, for any number of jobs, owners and processes. *)
EXTENDS ImportJob, TLAPS

-----------------------------------------------------------------------------
(* The registries of a process describe its threads: the registered runner of a job is the
   one thread that runs it, and a parked lease belongs to a retry waiting behind a runner
   (_import_threads and _import_pending_leases are only written under their lock). *)
Registered(o) == thread[o].kind = "runner" /\ thread[o].pc \in RunnerPcs

RegistryOK ==
    /\ \A o \in Owners : Registered(o) => reg[P(o)][J(o)] = o
    /\ \A p \in Procs, j \in Jobs, o \in Owners :
          reg[p][j] = o => Registered(o) /\ P(o) = p /\ J(o) = j
    /\ \A p \in Procs, j \in Jobs, o \in Owners :
          pend[p][j] = o => At(o, "retry", "pending") /\ P(o) = p /\ J(o) = j
    /\ PendingHasThread

(* The lease.  A thread only ever owns the job it works on. *)
Own(o) == row[J(o)].owner = o

LeaseOK ==
    \A j \in Jobs, o \in Owners : row[j].owner = o /\ thread[o] # Idle => J(o) = j

(* A discard.  Only the request that discards a job owns it meanwhile, unless it has died. *)
DiscardClaimed ==
    \A j \in Jobs, o \in Owners :
        row[j].discarding /\ row[j].owner = o => thread[o] = Idle \/ thread[o].kind = "discard"

DiscardOK == DiscardClaimed /\ DiscardingIsTerminal

(* The files.  Whoever has removed a directory and still owns the job knows that nothing
   written under a lease has come back.  Whoever may write to it has, as long as it owns the
   job, a workspace to write to, and the job it works on is not one that start-up would take
   for completed and clean up. *)
RemovedUnderLease == \A o \in Owners : thread[o].pc = "deleted" /\ Own(o) => ~Held(J(o))

\* A handler that streams uploads, and a runner from its first look at the sources until
\* the archives are extracted.
Writing(o) ==
    \/ thread[o].kind = "upload" /\ thread[o].pc \in {"open", "write", "queue"}
    \/ thread[o].kind = "runner" /\ (thread[o].pc = "extract" \/ thread[o].stage = "discovering")

Beginning(o) == Writing(o) \/ At(o, "retry", "resume") \/ At(o, "runner", "start")

WriterOK(o) ==
    /\ Beginning(o) /\ Own(o) => row[J(o)].status \notin CompletedStatuses
    /\ Writing(o) /\ Own(o) => row[J(o)].ws \/ row[J(o)].forgotten

WritesUnderLease == \A o \in Owners : WriterOK(o)

FilesOK == NoOrphanFiles /\ RemovedUnderLease /\ WritesUnderLease

(* The graph.  A thread that ends a job has settled the graph before: a graph retry knows the
   result, a runner has passed its graph step, whose result the row keeps under the lease. *)
SettledPcs == {"prepare", "delete", "deleted", "kept", "prune", "final"}

ResultKnown(o) ==
    thread[o].kind = "graph" /\ thread[o].pc \in SettledPcs
        => thread[o].stage \in GraphStatuses \ {"syncing"}

PastGraph(o) ==
    thread[o].kind = "runner" =>
        /\ thread[o].pc \in {"prepare", "final"} => thread[o].stage \in {"finish", "nothing"}
        /\ thread[o].pc \in {"delete", "deleted", "kept", "prune"}
               => thread[o].stage \in {"finish", "nothing", "tidy"}

Synced(o) ==
    thread[o].kind = "runner" /\ thread[o].stage = "finish" /\ Own(o)
        => row[J(o)].graph # "syncing"

GraphOK ==
    /\ \A o \in Owners : ResultKnown(o) /\ PastGraph(o) /\ Synced(o)
    /\ GraphSettledWhenCompleted

(* The inductive invariant. *)
IInv == TypeOK /\ RegistryOK /\ LeaseOK /\ DiscardOK /\ FilesOK /\ GraphOK

-----------------------------------------------------------------------------
(* The helpers of the model keep the types. *)

(* A thread that is doing something has a job and a process. *)
LEMMA ThreadPlace ==
    ASSUME thread \in [Owners -> Thread], NEW o \in Owners, thread[o] # Idle
    PROVE  /\ J(o) \in Jobs /\ P(o) \in Procs
           /\ thread[o].kind \in Kinds /\ thread[o].pc \in RunnerPcs \cup OtherPcs
           /\ thread[o].stage \in Stages /\ thread[o].bad \in BOOLEAN
           /\ thread[o].lost \in BOOLEAN /\ thread[o].echo \in BOOLEAN
BY DEF Thread, J, P

LEMMA NewThreadType ==
    ASSUME NEW kind \in Kinds, NEW p \in Procs, NEW j \in Jobs, NEW pc \in RunnerPcs \cup OtherPcs
    PROVE  NewThread(kind, p, j, pc) \in Thread
BY DEF NewThread, Thread, Stages

LEMMA ReleasedType ==
    ASSUME NEW r \in Row, NEW o
    PROVE  Released(r, o) \in Row
BY DEF Released, Row

LEMMA LeasedType ==
    ASSUME NEW r \in Row, NEW o \in Owners
    PROVE  Leased(r, o) \in Row
BY DEF Leased, Row

LEMMA SetRowType ==
    ASSUME row \in [Jobs -> Row], NEW j, NEW r \in Row, SetRow(j, r)
    PROVE  row' \in [Jobs -> Row]
BY DEF SetRow

LEMMA FilesType ==
    ASSUME files \in [Jobs -> Content], NEW j \in Jobs,
           \/ files' = [files EXCEPT ![j] = NoFiles]
           \/ RemovePart(j) \/ Prune(j)
           \/ \E o \in Owners, place \in Places : J(o) = j /\ Write(o, place)
    PROVE  files' \in [Jobs -> Content]
<1>1. NoFiles \in Content
  BY DEF NoFiles, Content
<1>2. \A places : \A c \in Content : Emptied(c, places) \in Content
  BY DEF Emptied, Content
<1>3. files[j] \in Content
  OBVIOUS
<1>4. CASE files' = [files EXCEPT ![j] = NoFiles]
  BY <1>1, <1>4
<1>5. CASE RemovePart(j)
  BY <1>2, <1>3, <1>5 DEF RemovePart
<1>6. CASE Prune(j)
  BY <1>2, <1>3, <1>6 DEF Prune
<1>7. CASE \E o \in Owners, place \in Places : J(o) = j /\ Write(o, place)
  <2>1. PICK o \in Owners, place \in Places : J(o) = j /\ Write(o, place)
    BY <1>7
  <2>2. PICK mark \in {"held", "late"} : files' = [files EXCEPT ![j][place] = mark]
    BY <2>1 DEF Write
  <2>3. [files[j] EXCEPT ![place] = mark] \in Content
    BY <1>3, <2>2 DEF Content
  <2>4. files' = [files EXCEPT ![j] = [files[j] EXCEPT ![place] = mark]]
    BY <2>2
  <2> QED
    BY <2>3, <2>4
<1> QED
  BY <1>4, <1>5, <1>6, <1>7

LEMMA RefreshType ==
    ASSUME cache \in [Procs -> [Jobs -> BOOLEAN]], row' \in [Jobs -> Row],
           NEW p \in Procs, NEW j \in Jobs, Refresh(p, j)
    PROVE  cache' \in [Procs -> [Jobs -> BOOLEAN]]
<1>1. row'[j].cancel \in BOOLEAN
  BY DEF Row
<1> QED
  BY <1>1 DEF Refresh

(* What a thread that is doing something may become. *)
LEMMA EditType ==
    ASSUME NEW t \in Thread, t # Idle, NEW pc \in RunnerPcs \cup OtherPcs,
           NEW stage \in Stages, NEW bit \in BOOLEAN
    PROVE  /\ [t EXCEPT !.pc = pc] \in Thread
           /\ [t EXCEPT !.pc = pc, !.stage = stage] \in Thread
           /\ [t EXCEPT !.pc = pc, !.stage = stage, !.bad = bit] \in Thread
           /\ [t EXCEPT !.echo = bit] \in Thread
<1>1. t \in [kind: Kinds, pc: RunnerPcs \cup OtherPcs, proc: Procs, job: Jobs, stage: Stages,
             bad: BOOLEAN, lost: BOOLEAN, echo: BOOLEAN]
  BY DEF Thread
<1>2. /\ [t EXCEPT !.pc = pc] \in
             [kind: Kinds, pc: RunnerPcs \cup OtherPcs, proc: Procs, job: Jobs, stage: Stages,
              bad: BOOLEAN, lost: BOOLEAN, echo: BOOLEAN]
      /\ [t EXCEPT !.pc = pc, !.stage = stage] \in
             [kind: Kinds, pc: RunnerPcs \cup OtherPcs, proc: Procs, job: Jobs, stage: Stages,
              bad: BOOLEAN, lost: BOOLEAN, echo: BOOLEAN]
      /\ [t EXCEPT !.pc = pc, !.stage = stage, !.bad = bit] \in
             [kind: Kinds, pc: RunnerPcs \cup OtherPcs, proc: Procs, job: Jobs, stage: Stages,
              bad: BOOLEAN, lost: BOOLEAN, echo: BOOLEAN]
      /\ [t EXCEPT !.echo = bit] \in
             [kind: Kinds, pc: RunnerPcs \cup OtherPcs, proc: Procs, job: Jobs, stage: Stages,
              bad: BOOLEAN, lost: BOOLEAN, echo: BOOLEAN]
  BY <1>1
<1> QED
  BY <1>2 DEF Thread

LEMMA GotoType ==
    ASSUME thread \in [Owners -> Thread], NEW o \in Owners, thread[o] # Idle,
           NEW pc \in RunnerPcs \cup OtherPcs, Goto(o, pc)
    PROVE  thread' \in [Owners -> Thread]
<1>1. [thread[o] EXCEPT !.pc = pc] \in Thread
  BY DEF Thread
<1> QED
  BY <1>1 DEF Goto

LEMMA StopType ==
    ASSUME thread \in [Owners -> Thread], NEW o \in Owners, Stop(o)
    PROVE  thread' \in [Owners -> Thread]
<1>1. Idle \in Thread
  BY DEF Thread
<1> QED
  BY <1>1 DEF Stop

LEMMA CloseType ==
    ASSUME thread \in [Owners -> Thread], NEW o \in Owners, thread[o] # Idle,
           NEW pc \in RunnerPcs \cup OtherPcs, NEW lost \in BOOLEAN, Close(o, pc, lost)
    PROVE  thread' \in [Owners -> Thread]
<1> DEFINE t == [NewThread(thread[o].kind, thread[o].proc, thread[o].job, pc) EXCEPT
                    !.echo = thread[o].echo, !.lost = lost]
<1>1. NewThread(thread[o].kind, thread[o].proc, thread[o].job, pc) \in Thread \ {Idle}
  BY ThreadPlace, NewThreadType DEF J, P, NewThread, Idle, Kinds
<1>2. t \in Thread
  BY <1>1, ThreadPlace DEF Thread
<1>3. thread' = [thread EXCEPT ![o] = t]
  BY DEF Close
<1> QED
  BY <1>2, <1>3

LEMMA SpendType ==
    ASSUME left \in [faults: 0 .. MaxFaults, requests: 0 .. MaxRequests],
           NEW what \in {"faults", "requests"}, Spend(what)
    PROVE  left' \in [faults: 0 .. MaxFaults, requests: 0 .. MaxRequests]
BY BoundsAssumption DEF Spend

LEMMA StartRunnerType ==
    ASSUME TypeOK, NEW p \in Procs, NEW j \in Jobs, NEW o \in Owners, StartRunner(p, j, o)
    PROVE  /\ thread' \in [Owners -> Thread]
           /\ reg' \in [Procs -> [Jobs -> Owners \cup {NoOne}]]
           /\ pend' \in [Procs -> [Jobs -> Owners \cup {NoOne}]]
<1>1. /\ NewThread("runner", p, j, "start") \in Thread
      /\ NewThread("retry", p, j, "pending") \in Thread
  BY NewThreadType DEF Kinds, RunnerPcs, OtherPcs
<1>2. Idle \in Thread
  BY DEF Thread
<1>3. CASE reg[p][j] = NoOne
  <2>1. /\ thread' = [thread EXCEPT ![o] = NewThread("runner", p, j, "start")]
        /\ reg' = [reg EXCEPT ![p][j] = o]
        /\ pend' = pend
    BY <1>3 DEF StartRunner
  <2>2. thread' \in [Owners -> Thread]
    BY <1>1, <2>1 DEF TypeOK
  <2>3. reg' \in [Procs -> [Jobs -> Owners \cup {NoOne}]]
    BY <2>1 DEF TypeOK
  <2> QED
    BY <2>1, <2>2, <2>3 DEF TypeOK
<1>4. CASE reg[p][j] # NoOne
  <2>1. /\ thread' = [q \in Owners |->
                          IF q = o THEN NewThread("retry", p, j, "pending")
                          ELSE IF q = pend[p][j] THEN Idle ELSE thread[q]]
        /\ pend' = [pend EXCEPT ![p][j] = o]
        /\ reg' = reg
    BY <1>4 DEF StartRunner
  <2>2. thread' \in [Owners -> Thread]
    BY <1>1, <1>2, <2>1 DEF TypeOK
  <2>3. pend' \in [Procs -> [Jobs -> Owners \cup {NoOne}]]
    BY <2>1 DEF TypeOK
  <2> QED
    BY <2>1, <2>2, <2>3 DEF TypeOK
<1> QED
  BY <1>3, <1>4

LEMMA SubmitType ==
    ASSUME TypeOK, NEW p \in Procs, NEW j \in Jobs, NEW o \in Owners, NEW reset \in BOOLEAN,
           Submit(p, j, o, reset)
    PROVE  /\ row' \in [Jobs -> Row]
           /\ thread' \in [Owners -> Thread]
           /\ reg' \in [Procs -> [Jobs -> Owners \cup {NoOne}]]
           /\ pend' \in [Procs -> [Jobs -> Owners \cup {NoOne}]]
<1>1. Leased(row[j], o) \in Row
  BY LeasedType DEF TypeOK
<1>2. [Leased(row[j], o) EXCEPT !.status = IF reset THEN "queued" ELSE @] \in Row
  BY <1>1 DEF Row, ActiveStatuses, LeaseableStatuses, CancellableStatuses
<1>3. row' \in [Jobs -> Row]
  BY <1>2, SetRowType DEF Submit, TypeOK
<1> QED
  BY <1>3, StartRunnerType DEF Submit

(* What the helpers do to the threads. *)
LEMMA GotoEffect ==
    ASSUME thread \in [Owners -> Thread], NEW o \in Owners, thread[o] # Idle,
           NEW pc, Goto(o, pc)
    PROVE  /\ \A q \in Owners : q # o => thread'[q] = thread[q]
           /\ thread'[o].pc = pc /\ thread'[o].kind = thread[o].kind
           /\ thread'[o].job = J(o) /\ thread'[o].proc = P(o) /\ thread'[o].stage = thread[o].stage
<1>1. thread'[o] = [thread[o] EXCEPT !.pc = pc]
  BY DEF Goto
<1>2. thread[o] \in [kind: Kinds, pc: RunnerPcs \cup OtherPcs, proc: Procs, job: Jobs,
                     stage: Stages, bad: BOOLEAN, lost: BOOLEAN, echo: BOOLEAN]
  BY DEF Thread
<1>3. /\ thread'[o].pc = pc /\ thread'[o].kind = thread[o].kind
      /\ thread'[o].job = J(o) /\ thread'[o].proc = P(o) /\ thread'[o].stage = thread[o].stage
  BY <1>1, <1>2 DEF J, P
<1>4. \A q \in Owners : q # o => thread'[q] = thread[q]
  BY DEF Goto
<1> QED
  BY <1>3, <1>4

LEMMA CloseEffect ==
    ASSUME thread \in [Owners -> Thread], NEW o \in Owners, NEW pc, NEW lost, Close(o, pc, lost)
    PROVE  /\ \A q \in Owners : q # o => thread'[q] = thread[q]
           /\ thread'[o].pc = pc /\ thread'[o].kind = thread[o].kind
           /\ thread'[o].job = J(o) /\ thread'[o].proc = P(o) /\ thread'[o].stage = "none"
<1>1. thread'[o] = [NewThread(thread[o].kind, thread[o].proc, thread[o].job, pc) EXCEPT
                        !.echo = thread[o].echo, !.lost = lost]
  BY DEF Close
<1>2. /\ thread'[o].pc = pc /\ thread'[o].kind = thread[o].kind
      /\ thread'[o].job = J(o) /\ thread'[o].proc = P(o) /\ thread'[o].stage = "none"
  BY <1>1 DEF NewThread, J, P
<1>3. \A q \in Owners : q # o => thread'[q] = thread[q]
  BY DEF Close
<1> QED
  BY <1>2, <1>3

LEMMA StopEffect ==
    ASSUME thread \in [Owners -> Thread], NEW o \in Owners, Stop(o)
    PROVE  thread'[o] = Idle /\ \A q \in Owners : q # o => thread'[q] = thread[q]
BY DEF Stop

(* A parked lease handed over. *)
LEMMA HandedEffect ==
    ASSUME thread \in [Owners -> Thread], NEW q \in Owners, At(q, "retry", "pending"),
           thread'[q] = [thread[q] EXCEPT !.pc = "handed"]
    PROVE  /\ thread[q] # Idle
           /\ thread'[q].kind = "retry" /\ thread'[q].pc = "handed"
           /\ thread'[q].job = J(q) /\ thread'[q].proc = P(q)
<1>1. thread[q] # Idle
  BY DEF At, Idle
<1>2. thread[q] \in [kind: Kinds, pc: RunnerPcs \cup OtherPcs, proc: Procs, job: Jobs,
                     stage: Stages, bad: BOOLEAN, lost: BOOLEAN, echo: BOOLEAN]
  BY <1>1 DEF Thread
<1> QED
  BY <1>1, <1>2 DEF At, J, P

(* A lease given to a runner or parked. *)
LEMMA StartEffect ==
    ASSUME thread \in [Owners -> Thread], NEW p \in Procs, NEW j \in Jobs, NEW o \in Owners,
           StartRunner(p, j, o)
    PROVE  /\ \A q \in Owners : q # o =>
                 thread'[q] = IF reg[p][j] # NoOne /\ q = pend[p][j] THEN Idle ELSE thread[q]
           /\ thread'[o] = IF reg[p][j] = NoOne THEN NewThread("runner", p, j, "start")
                           ELSE NewThread("retry", p, j, "pending")
<1>1. CASE reg[p][j] = NoOne
  BY <1>1 DEF StartRunner
<1>2. CASE reg[p][j] # NoOne
  BY <1>2 DEF StartRunner
<1> QED
  BY <1>1, <1>2

-----------------------------------------------------------------------------
(* Every step of a thread keeps the types. *)

(* A step of a thread is taken by one that is doing something. *)
LEMMA StepOfThread ==
    ASSUME NEW o \in Owners, ThreadStep(o) \/ RenewalStep(o)
    PROVE  thread[o] # Idle
<1>1. SUFFICES ASSUME thread[o] = Idle PROVE FALSE
  OBVIOUS
<1>2. /\ thread[o].kind = "none" /\ thread[o].pc = "idle" /\ thread[o].echo = FALSE
  BY <1>1 DEF Idle
<1>3. ~(\/ OpenUpload(o) \/ UploadChunk(o) \/ UploadFails(o) \/ UploadQueued(o) \/ UploadUnleased(o)
        \/ UploadSubmit(o) \/ UploadAbort(o) \/ UploadDropped(o) \/ UploadKept(o)
        \/ ExpireRead(o) \/ ExpireDeleted(o) \/ ExpireKept(o)
        \/ DeleteWorkspace(o) \/ DeleteFails(o))
  BY <1>2 DEF At, OpenUpload, UploadChunk, UploadFails, UploadQueued, UploadUnleased,
              UploadSubmit, UploadAbort, UploadDropped, UploadKept, ExpireRead, ExpireDeleted,
              ExpireKept, DeleteWorkspace, DeleteFails
<1>4. ~(\/ RunStart(o) \/ CheckCancelled(o) \/ WriteStatus(o) \/ Extract(o)
        \/ ImportChunks(o) \/ NothingToImport(o) \/ RunRaises(o)
        \/ SkipGraph(o) \/ BeginGraph(o) \/ SyncGraph(o) \/ BeginFinish(o))
  BY <1>2 DEF At, RunStart, CheckCancelled, WriteStatus, Extract, ImportChunks,
              NothingToImport, RunRaises, SkipGraph, BeginGraph, SyncGraph, BeginFinish
<1>5. ~(\/ Prepare(o) \/ PruneExtraction(o) \/ ClearWorkspace(o) \/ Finish(o) \/ MarkCancelled(o)
        \/ MarkFailed(o) \/ Tidy(o) \/ LoseLease(o) \/ Release(o) \/ Deregister(o)
        \/ HandOver(o) \/ Resubmit(o))
  BY <1>2 DEF At, Prepare, PruneExtraction, ClearWorkspace, Finish, MarkCancelled, MarkFailed, Tidy,
              LoseLease, Release, Deregister, HandOver, Resubmit
<1>6. ~(\/ ClaimRetry(o) \/ ResumeRetry(o) \/ ResumeFails(o)
        \/ RetryGraph(o) \/ FinishGraph(o) \/ EndDiscard(o) \/ RenewalStep(o))
  BY <1>2 DEF At, ClaimRetry, ResumeRetry, ResumeFails, RetryGraph, FinishGraph, EndDiscard,
              RenewalStep, RenewalReads, RenewalCancels, RenewalFails
<1> QED
  BY <1>3, <1>4, <1>5, <1>6 DEF ThreadStep

LEMMA ThreadStepType ==
    ASSUME IInv, NEW o \in Owners, ThreadStep(o) \/ RenewalStep(o)
    PROVE  TypeOK'
<1> USE DEF IInv
<1> USE DEF RunnerPcs, FencedPcs, OtherPcs
<1>0. thread[o] # Idle
  BY StepOfThread
<1>a. /\ J(o) \in Jobs /\ P(o) \in Procs
      /\ thread[o].kind \in Kinds /\ thread[o].pc \in RunnerPcs \cup OtherPcs
      /\ thread[o].stage \in Stages /\ thread[o].bad \in BOOLEAN
      /\ thread[o].lost \in BOOLEAN /\ thread[o].echo \in BOOLEAN
  BY <1>0, ThreadPlace DEF TypeOK
<1>b. row[J(o)] \in Row
  BY <1>a DEF TypeOK
<1>c. \A pc \in RunnerPcs \cup OtherPcs : Goto(o, pc) => thread' \in [Owners -> Thread]
  BY <1>0, GotoType DEF TypeOK
<1>d. Stop(o) => thread' \in [Owners -> Thread]
  BY StopType DEF TypeOK
<1>e. \A pc \in RunnerPcs \cup OtherPcs, lost \in BOOLEAN :
         Close(o, pc, lost) => thread' \in [Owners -> Thread]
  BY <1>0, CloseType DEF TypeOK
<1>f. \A r \in Row : SetRow(J(o), r) => row' \in [Jobs -> Row]
  BY SetRowType DEF TypeOK
<1>g. \A r \in Row : Released(r, o) \in Row
  BY ReleasedType
<1>h. row' \in [Jobs -> Row] /\ Refresh(P(o), J(o)) => cache' \in [Procs -> [Jobs -> BOOLEAN]]
  BY <1>a, RefreshType DEF TypeOK
<1>i. \A t \in Thread : thread' = [thread EXCEPT ![o] = t] => thread' \in [Owners -> Thread]
  BY DEF TypeOK
<1>k. thread[o] \in Thread /\ thread[o] # Idle
  BY <1>0 DEF TypeOK
<1>l. \/ files' = [files EXCEPT ![J(o)] = NoFiles]
      \/ RemovePart(J(o)) \/ Prune(J(o))
      \/ \E place \in Places : Write(o, place)
      => files' \in [Jobs -> Content]
  BY <1>a, FilesType DEF TypeOK
<1>1. CASE UploadChunk(o)
  BY <1>1, <1>a, <1>c DEF UploadChunk, TypeOK
<1>2. CASE UploadFails(o)
  BY <1>2, <1>c DEF UploadFails, TypeOK
<1>3. CASE UploadQueued(o)
  <2>1. [row[J(o)] EXCEPT !.status = "queued"] \in Row
    BY <1>b DEF Row, ActiveStatuses, LeaseableStatuses, CancellableStatuses, TerminalStatuses, CompletedStatuses, GraphStatuses
  <2> QED
    BY <1>3, <2>1, <1>a, <1>b, <1>f, <1>c DEF UploadQueued, TypeOK
<1>4. CASE UploadUnleased(o)
  <2>1. row[J(o)] \in Row
    BY <1>b DEF Row, ActiveStatuses, LeaseableStatuses, CancellableStatuses, TerminalStatuses, CompletedStatuses, GraphStatuses
  <2> QED
    BY <1>4, <2>1, <1>a, <1>b, <1>f, <1>c, <1>g DEF UploadUnleased, TypeOK
<1>5. CASE UploadSubmit(o)
  <2>1. \A reset \in BOOLEAN :
          Submit(P(o), J(o), o, reset) => /\ row' \in [Jobs -> Row]
                                          /\ thread' \in [Owners -> Thread]
                                          /\ reg' \in [Procs -> [Jobs -> Owners \cup {NoOne}]]
                                          /\ pend' \in [Procs -> [Jobs -> Owners \cup {NoOne}]]
    BY <1>a, SubmitType
  <2> QED
    BY <1>5, <2>1, <1>d DEF UploadSubmit, TypeOK
<1>6. CASE UploadAbort(o)
  BY <1>6, <1>c, <1>d DEF UploadAbort, TypeOK
<1>7. CASE UploadDropped(o)
  <2>1. AbsentRow \in Row
    BY <1>b DEF Row, ActiveStatuses, LeaseableStatuses, CancellableStatuses, TerminalStatuses, CompletedStatuses, GraphStatuses, AbsentRow
  <2> QED
    BY <1>7, <2>1, <1>a, <1>b, <1>f, <1>d, <1>g DEF UploadDropped, TypeOK
<1>8. CASE UploadKept(o)
  <2>1. FailedUpload(row[J(o)]) \in Row
    BY <1>b DEF Row, ActiveStatuses, LeaseableStatuses, CancellableStatuses, TerminalStatuses, CompletedStatuses, GraphStatuses, FailedUpload
  <2> QED
    BY <1>8, <2>1, <1>a, <1>b, <1>f, <1>d, <1>g DEF UploadKept, TypeOK
<1>9. CASE ExpireRead(o)
  <2>1. row[J(o)] \in Row
    BY <1>b DEF Row, ActiveStatuses, LeaseableStatuses, CancellableStatuses, TerminalStatuses, CompletedStatuses, GraphStatuses
  <2>2. [scan EXCEPT ![P(o)] = Resting] \in [Procs -> Scan]
    BY <1>a DEF TypeOK, Scan
  <2> QED
    BY <1>9, <2>1, <2>2, <1>a, <1>b, <1>f, <1>c, <1>d, <1>g DEF ExpireRead, TypeOK, EndExpire
<1>10. CASE ExpireDeleted(o)
  <2>1. [FailedUpload(row[J(o)]) EXCEPT !.ws = FALSE] \in Row
    BY <1>b DEF Row, ActiveStatuses, LeaseableStatuses, CancellableStatuses, TerminalStatuses, CompletedStatuses, GraphStatuses, FailedUpload
  <2>2. [scan EXCEPT ![P(o)] = Resting] \in [Procs -> Scan]
    BY <1>a DEF TypeOK, Scan
  <2> QED
    BY <1>10, <2>1, <2>2, <1>a, <1>b, <1>f, <1>d, <1>g DEF ExpireDeleted, TypeOK, EndExpire
<1>11. CASE ExpireKept(o)
  <2>1. FailedUpload(row[J(o)]) \in Row
    BY <1>b DEF Row, ActiveStatuses, LeaseableStatuses, CancellableStatuses, TerminalStatuses, CompletedStatuses, GraphStatuses, FailedUpload
  <2>2. [scan EXCEPT ![P(o)] = Resting] \in [Procs -> Scan]
    BY <1>a DEF TypeOK, Scan
  <2> QED
    BY <1>11, <2>1, <2>2, <1>a, <1>b, <1>f, <1>d, <1>g DEF ExpireKept, TypeOK, EndExpire
<1>12. CASE DeleteWorkspace(o)
  BY <1>12, <1>l, <1>c DEF DeleteWorkspace, TypeOK
<1>13. CASE DeleteFails(o)
  BY <1>13, <1>l, <1>c DEF DeleteFails, TypeOK
<1>14. CASE RunStart(o)
  <2>1. [thread[o] EXCEPT !.pc = "check", !.stage = "discovering"] \in Thread
    BY <1>k, EditType DEF Stages, GraphStatuses
  <2> QED
    BY <1>14, <2>1, <1>e DEF RunStart, TypeOK
<1>15. CASE CheckCancelled(o)
  BY <1>15, <1>c DEF CheckCancelled, TypeOK
<1>16. CASE WriteStatus(o)
  <2> DEFINE parsing == [thread[o] EXCEPT !.pc = "extract", !.stage = "parsing"]
             importing(bad) == [thread[o] EXCEPT !.pc = "check", !.stage = "importing",
                                                 !.bad = bad]
             r == [row[J(o)] EXCEPT !.status = thread[o].stage, !.discarding = FALSE]
  <2>1. \/ thread[o].stage = "discovering" /\ thread' = [thread EXCEPT ![o] = parsing]
        \/ /\ thread[o].stage = "parsing"
           /\ \E bad \in BOOLEAN : thread' = [thread EXCEPT ![o] = importing(bad)]
        \/ thread[o].stage = "importing" /\ Goto(o, "work")
    BY <1>16 DEF WriteStatus
  <2>2. parsing \in Thread /\ \A bad \in BOOLEAN : importing(bad) \in Thread
    BY <1>k, EditType DEF Stages, GraphStatuses
  <2>3. thread' \in [Owners -> Thread]
    <3> HIDE DEF parsing, importing
    <3> QED
      BY <2>1, <2>2, <1>i, <1>c
  <2>4. r \in Row
    BY <1>b, <2>1 DEF Row, ActiveStatuses, LeaseableStatuses, CancellableStatuses
  <2>5. SetRow(J(o), r)
    BY <1>16 DEF WriteStatus
  <2>6. row' \in [Jobs -> Row]
    BY <2>4, <2>5, <1>f
  <2> QED
    BY <1>16, <2>3, <2>6 DEF WriteStatus, TypeOK
<1>17. CASE ImportChunks(o)
  <2> DEFINE t == [thread[o] EXCEPT !.pc = "check", !.stage = "graph"]
  <2>1. t \in Thread
    BY <1>k, EditType DEF Stages, GraphStatuses
  <2>2. thread' \in [Owners -> Thread]
    BY <1>17, <2>1, <1>i DEF ImportChunks
  <2>3. PICK failed \in BOOLEAN, graph \in {row[J(o)].graph, "pending"} :
          SetRow(J(o), [row[J(o)] EXCEPT !.failed = failed, !.graph = graph])
    BY <1>17 DEF ImportChunks
  <2>4. [row[J(o)] EXCEPT !.failed = failed, !.graph = graph] \in Row
    BY <1>b, <2>3 DEF Row, GraphStatuses
  <2>5. row' \in [Jobs -> Row]
    BY <2>3, <2>4, <1>f
  <2> QED
    BY <1>17, <2>2, <2>5 DEF ImportChunks, TypeOK
<1>18. CASE NothingToImport(o)
  <2> DEFINE t == [thread[o] EXCEPT !.pc = "prepare", !.stage = "nothing", !.bad = TRUE]
  <2>1. t \in Thread
    BY <1>k, EditType DEF Stages, GraphStatuses
  <2>2. thread' = [thread EXCEPT ![o] = t]
    BY <1>18 DEF NothingToImport
  <2>3. thread' \in [Owners -> Thread]
    BY <2>2, <2>1, <1>i
  <2> QED
    BY <1>18, <2>3 DEF NothingToImport, TypeOK
<1>19. CASE RunRaises(o)
  BY <1>19, <1>e DEF RunRaises, TypeOK
<1>20. CASE SkipGraph(o)
  <2>1. [thread[o] EXCEPT !.pc = "check", !.stage = "finish"] \in Thread
    BY <1>k, EditType DEF Stages, GraphStatuses
  <2>2. [row[J(o)] EXCEPT !.graph = "completed"] \in Row
    BY <1>b DEF Row, GraphStatuses, ActiveStatuses, LeaseableStatuses, CancellableStatuses, TerminalStatuses, CompletedStatuses
  <2>3. thread' = [thread EXCEPT ![o] = [thread[o] EXCEPT !.pc = "check", !.stage = "finish"]]
    BY <1>20 DEF SkipGraph
  <2>4. thread' \in [Owners -> Thread]
    BY <2>1, <2>3 DEF TypeOK
  <2> QED
    BY <1>20, <2>2, <2>4, <1>f DEF SkipGraph, TypeOK
<1>21. CASE BeginGraph(o)
  <2>1. [row[J(o)] EXCEPT !.status = "syncing_graph", !.discarding = FALSE,
                               !.graph = "syncing"] \in Row
    BY <1>b DEF Row, ActiveStatuses, LeaseableStatuses, CancellableStatuses, TerminalStatuses, CompletedStatuses, GraphStatuses
  <2> QED
    BY <1>21, <2>1, <1>a, <1>b, <1>f, <1>c DEF BeginGraph, TypeOK
<1>22. CASE SyncGraph(o)
  <2>1. [thread[o] EXCEPT !.pc = "check", !.stage = "finish"] \in Thread
    BY <1>k, EditType DEF Stages, GraphStatuses
  <2>2. \A result \in GraphStatuses : [row[J(o)] EXCEPT !.graph = result] \in Row
    BY <1>b DEF Row, GraphStatuses, ActiveStatuses, LeaseableStatuses, CancellableStatuses, TerminalStatuses, CompletedStatuses
  <2>3. thread' = [thread EXCEPT ![o] = [thread[o] EXCEPT !.pc = "check", !.stage = "finish"]]
    BY <1>22 DEF SyncGraph
  <2>4. thread' \in [Owners -> Thread]
    BY <2>1, <2>3 DEF TypeOK
  <2> QED
    BY <1>22, <2>2, <2>4, <1>f DEF SyncGraph, TypeOK
<1>23. CASE BeginFinish(o)
  BY <1>23, <1>c DEF BeginFinish, TypeOK
<1>24. CASE Prepare(o)
  BY <1>24, <1>c DEF Prepare, TypeOK
<1>25. CASE ClearWorkspace(o)
  <2>1. [row[J(o)] EXCEPT !.ws = FALSE] \in Row
    BY <1>b DEF Row, ActiveStatuses, LeaseableStatuses, CancellableStatuses, TerminalStatuses, CompletedStatuses, GraphStatuses
  <2> QED
    BY <1>25, <2>1, <1>a, <1>b, <1>f, <1>c, <1>e DEF ClearWorkspace, TypeOK
<1>26. CASE Finish(o)
  <2> DEFINE graph == IF thread[o].stage = "nothing" THEN "completed" ELSE row[J(o)].graph
             errors == SourceRetry(o) \/ graph = "failed"
             r == [row[J(o)] EXCEPT !.status = IF errors THEN "completed_with_errors" ELSE "completed",
                                    !.discarding = FALSE, !.graph = graph, !.retry = SourceRetry(o)]
  <2>1. SourceRetry(o) \in BOOLEAN
    BY <1>a, <1>b DEF SourceRetry, Row
  <2>2. r \in Row
    BY <1>b, <2>1 DEF Row, GraphStatuses, TerminalStatuses, CompletedStatuses
  <2>3. SetRow(J(o), r)
    BY <1>26 DEF Finish
  <2> QED
    BY <1>26, <2>2, <2>3, <1>e, <1>f DEF Finish, TypeOK
<1>27. CASE MarkCancelled(o)
  <2>1. [row[J(o)] EXCEPT !.status = "cancelled", !.retry = TRUE] \in Row
    BY <1>b DEF Row, ActiveStatuses, LeaseableStatuses, CancellableStatuses, TerminalStatuses, CompletedStatuses, GraphStatuses
  <2> QED
    BY <1>27, <2>1, <1>a, <1>b, <1>f, <1>e DEF MarkCancelled, TypeOK
<1>28. CASE MarkFailed(o)
  <2>1. [row[J(o)] EXCEPT !.status = "failed", !.discarding = FALSE, !.retry = TRUE] \in Row
    BY <1>b DEF Row, ActiveStatuses, LeaseableStatuses, CancellableStatuses, TerminalStatuses, CompletedStatuses, GraphStatuses
  <2> QED
    BY <1>28, <2>1, <1>a, <1>b, <1>f, <1>e DEF MarkFailed, TypeOK
<1>29. CASE Tidy(o)
  <2>1. /\ [thread[o] EXCEPT !.pc = "delete", !.stage = "tidy"] \in Thread
        /\ [thread[o] EXCEPT !.pc = "prune", !.stage = "tidy"] \in Thread
    BY <1>k, EditType DEF Stages, GraphStatuses
  <2>2. \/ thread' = [thread EXCEPT ![o] = [thread[o] EXCEPT !.pc = "delete", !.stage = "tidy"]]
        \/ thread' = [thread EXCEPT ![o] = [thread[o] EXCEPT !.pc = "prune", !.stage = "tidy"]]
        \/ \E lost \in BOOLEAN : Close(o, "release", lost)
    BY <1>29, <1>b DEF Tidy, Row, Removable, Prunable
  <2>3. thread' \in [Owners -> Thread]
    BY <2>1, <2>2, <1>e DEF TypeOK
  <2> QED
    BY <1>29, <2>3 DEF Tidy, TypeOK
<1>30. CASE LoseLease(o)
  BY <1>30, <1>e DEF LoseLease, TypeOK
<1>31. CASE Release(o)
  <2>1. row[J(o)] \in Row
    BY <1>b DEF Row, ActiveStatuses, LeaseableStatuses, CancellableStatuses, TerminalStatuses, CompletedStatuses, GraphStatuses
  <2> QED
    BY <1>31, <2>1, <1>a, <1>b, <1>f, <1>c, <1>d, <1>g DEF Release, TypeOK
<1>32. CASE Deregister(o)
  <2> DEFINE next == pend[P(o)][J(o)]
             t == [NewThread("runner", P(o), J(o), "resubmit") EXCEPT !.lost = thread[o].lost]
  <2>1. t \in Thread /\ Idle \in Thread
    BY <1>a DEF Thread, NewThread, Kinds, Stages
  <2>2. \A q \in Owners : q = next => [thread[q] EXCEPT !.pc = "handed"] \in Thread
    <3>1. SUFFICES ASSUME NEW q \in Owners, q = next
                   PROVE  [thread[q] EXCEPT !.pc = "handed"] \in Thread
      OBVIOUS
    <3>2. thread[q].kind = "retry"
      BY <1>a, <3>1 DEF RegistryOK, At
    <3>3. thread[q] # Idle
      BY <3>2 DEF Idle
    <3> QED
      BY <1>a, <3>3, EditType DEF TypeOK
  <2>3. thread' = [q \in Owners |->
                     IF q = o THEN IF next # NoOne THEN Idle ELSE t
                     ELSE IF q = next THEN [thread[q] EXCEPT !.pc = "handed"] ELSE thread[q]]
    BY <1>32 DEF Deregister
  <2>4. thread' \in [Owners -> Thread]
    <3> HIDE DEF t, next
    <3> QED
      BY <2>1, <2>2, <2>3 DEF TypeOK
  <2>5. /\ reg' \in [Procs -> [Jobs -> Owners \cup {NoOne}]]
        /\ pend' \in [Procs -> [Jobs -> Owners \cup {NoOne}]]
    BY <1>32 DEF Deregister, TypeOK
  <2> QED
    BY <1>32, <2>4, <2>5 DEF Deregister, TypeOK
<1>33. CASE HandOver(o)
  <2>1. StartRunner(P(o), J(o), o) => /\ thread' \in [Owners -> Thread]
                                      /\ reg' \in [Procs -> [Jobs -> Owners \cup {NoOne}]]
                                      /\ pend' \in [Procs -> [Jobs -> Owners \cup {NoOne}]]
    BY <1>a, StartRunnerType
  <2>2. row' \in [Jobs -> Row]
    BY <1>33, <1>b, <1>f, <1>g DEF HandOver, TypeOK
  <2> QED
    BY <1>33, <2>1, <2>2, <1>d, <1>h DEF HandOver, TypeOK
<1>34. CASE Resubmit(o)
  <2>1. \A reset \in BOOLEAN :
          Submit(P(o), J(o), o, reset) => /\ row' \in [Jobs -> Row]
                                          /\ thread' \in [Owners -> Thread]
                                          /\ reg' \in [Procs -> [Jobs -> Owners \cup {NoOne}]]
                                          /\ pend' \in [Procs -> [Jobs -> Owners \cup {NoOne}]]
    BY <1>a, SubmitType
  <2>2. row' \in [Jobs -> Row]
    BY <1>34, <2>1, <1>a DEF Resubmit, TypeOK
  <2> QED
    BY <1>34, <2>1, <2>2, <1>a, <1>d, <1>h DEF Resubmit, TypeOK
<1>35. CASE ClaimRetry(o)
  <2>1. [Leased(row[J(o)], o) EXCEPT !.status = "queued", !.cancel = FALSE] \in Row
    BY <1>b DEF Row, ActiveStatuses, LeaseableStatuses, CancellableStatuses, TerminalStatuses, CompletedStatuses, GraphStatuses, Leased
  <2> QED
    BY <1>35, <2>1, <1>a, <1>b, <1>f, <1>c, <1>d DEF ClaimRetry, TypeOK
<1>36. CASE ResumeRetry(o)
  <2>1. StartRunner(P(o), J(o), o) => /\ thread' \in [Owners -> Thread]
                                      /\ reg' \in [Procs -> [Jobs -> Owners \cup {NoOne}]]
                                      /\ pend' \in [Procs -> [Jobs -> Owners \cup {NoOne}]]
    BY <1>a, StartRunnerType
  <2>2. [row[J(o)] EXCEPT !.failed = FALSE] \in Row
    BY <1>b DEF Row
  <2>3. row' \in [Jobs -> Row]
    BY <1>36, <2>2, <1>b, <1>f, <1>g DEF ResumeRetry
  <2> QED
    BY <1>36, <2>1, <2>3, <1>d, <1>h DEF ResumeRetry, TypeOK
<1>37. CASE ResumeFails(o)
  <2>1. [row[J(o)] EXCEPT !.status = "failed", !.discarding = FALSE] \in Row
    BY <1>b DEF Row, TerminalStatuses
  <2>2. row' \in [Jobs -> Row]
    BY <1>37, <2>1, <1>b, <1>f, <1>g DEF ResumeFails
  <2> QED
    BY <1>37, <2>2, <1>d, <1>h DEF ResumeFails, TypeOK
<1>38. CASE RetryGraph(o)
  <2>1. PICK result \in GraphStatuses \ {"syncing"} :
          /\ thread' = [thread EXCEPT ![o] = [thread[o] EXCEPT !.pc = "prepare", !.stage = result]]
          /\ \/ SetRow(J(o), [row[J(o)] EXCEPT !.graph = result])
             \/ row' = row
    BY <1>38 DEF RetryGraph
  <2>2. [thread[o] EXCEPT !.pc = "prepare", !.stage = result] \in Thread
    BY <1>k, EditType DEF Stages, GraphStatuses
  <2>3. [row[J(o)] EXCEPT !.graph = result] \in Row
    BY <1>b DEF Row
  <2>4. thread' \in [Owners -> Thread] /\ row' \in [Jobs -> Row]
    BY <2>1, <2>2, <2>3, <1>f DEF TypeOK
  <2> QED
    BY <1>38, <2>4 DEF RetryGraph, TypeOK
<1>39. CASE FinishGraph(o)
  <2> DEFINE errors == thread[o].stage = "failed" \/ row[J(o)].failed
             r == [row[J(o)] EXCEPT !.status = IF errors THEN "completed_with_errors" ELSE "completed",
                                    !.discarding = FALSE, !.graph = thread[o].stage]
  <2>1. thread[o].stage \in GraphStatuses
    BY <1>39 DEF FinishGraph, GraphOK, ResultKnown, SettledPcs, At
  <2>2. r \in Row
    BY <1>b, <2>1 DEF Row, TerminalStatuses, CompletedStatuses
  <2>3. SetRow(J(o), r)
    BY <1>39 DEF FinishGraph
  <2> QED
    BY <1>39, <2>2, <2>3, <1>e, <1>f DEF FinishGraph, TypeOK
<1>40. CASE EndDiscard(o)
  <2> DEFINE r == row[J(o)]
             gone == thread[o].pc = "deleted"
             d == [r EXCEPT !.discarding = FALSE, !.ws = @ /\ ~gone, !.retry = @ /\ ~gone]
  <2>0. \A ws, retry \in BOOLEAN :
           [r EXCEPT !.discarding = FALSE, !.ws = ws, !.retry = retry] \in Row
    BY <1>b DEF Row
  <2>1. d \in Row
    <3>1. (r.ws /\ ~gone) \in BOOLEAN /\ (r.retry /\ ~gone) \in BOOLEAN
      OBVIOUS
    <3> QED
      BY <2>0, <3>1
  <2>2. SetRow(J(o), Released(d, o)) \/ SetRow(J(o), r)
    BY <1>40 DEF EndDiscard
  <2>3. row' \in [Jobs -> Row]
    BY <2>1, <2>2, <1>b, <1>f, <1>g
  <2> QED
    BY <1>40, <2>3, <1>d, <1>h DEF EndDiscard, TypeOK
<1>41. CASE RenewalReads(o)
  <2>1. [thread[o] EXCEPT !.echo = TRUE] \in Thread
    BY <1>a, <1>k, EditType
  <2> QED
    BY <1>41, <2>1 DEF RenewalReads, TypeOK
<1>42. CASE RenewalCancels(o)
  <2>1. [thread[o] EXCEPT !.echo = FALSE] \in Thread
    BY <1>a, <1>k, EditType
  <2>2. CancelRequested(row[J(o)]) \in Row
    BY <1>b DEF CancelRequested, Row, ActiveStatuses
  <2>3. row' \in [Jobs -> Row]
    BY <1>42, <2>2, <1>f DEF RenewalCancels
  <2> QED
    BY <1>42, <2>1, <2>3, <1>h DEF RenewalCancels, TypeOK
<1>43. CASE RenewalFails(o)
  <2> DEFINE t == [NewThread(thread[o].kind, thread[o].proc, thread[o].job, "release") EXCEPT
                       !.lost = TRUE]
  <2>1. t \in Thread
    BY <1>a DEF Thread, NewThread, Stages, J, P
  <2>2. thread' = [thread EXCEPT ![o] = t]
    BY <1>43 DEF RenewalFails
  <2>3. left' \in [faults: 0 .. MaxFaults, requests: 0 .. MaxRequests]
    BY <1>43, SpendType DEF RenewalFails, TypeOK
  <2> QED
    BY <1>43, <2>1, <2>2, <2>3 DEF RenewalFails, TypeOK
<1>44. CASE OpenUpload(o)
  BY <1>44, <1>l, <1>c DEF OpenUpload, TypeOK, Places
<1>45. CASE Extract(o)
  BY <1>45, <1>l, <1>c DEF Extract, TypeOK, Places
<1>46. CASE PruneExtraction(o)
  BY <1>46, <1>l, <1>c, <1>e DEF PruneExtraction, TypeOK
<1> QED
  BY <1>1, <1>2, <1>3, <1>4, <1>5, <1>6, <1>7, <1>8, <1>9, <1>10,
     <1>11, <1>12, <1>13, <1>14, <1>15, <1>16, <1>17, <1>18, <1>19, <1>20,
     <1>21, <1>22, <1>23, <1>24, <1>25, <1>26, <1>27, <1>28, <1>29, <1>30,
     <1>31, <1>32, <1>33, <1>34, <1>35, <1>36, <1>37, <1>38, <1>39, <1>40,
     <1>41, <1>42, <1>43, <1>44, <1>45, <1>46
  DEF ThreadStep, RenewalStep

(* A request keeps the types. *)
LEMMA RequestType ==
    ASSUME TypeOK, NEW p \in Procs, Request(p)
    PROVE  TypeOK'
<1> USE DEF RunnerPcs, FencedPcs, OtherPcs
<1>1. PICK j \in Jobs :
        \/ RequestCancel(p, j) \/ Poll(p, j)
        \/ \E o \in Owners : \/ CreateImport(p, j, o) \/ RequestRetry(p, j, o)
                             \/ RequestGraphRetry(p, j, o) \/ RequestDiscard(p, j, o)
  BY DEF Request
<1>2. row[j] \in Row
  BY DEF TypeOK
<1>3. \A r \in Row : SetRow(j, r) => row' \in [Jobs -> Row]
  BY SetRowType DEF TypeOK
<1>4. row' \in [Jobs -> Row] /\ Refresh(p, j) => cache' \in [Procs -> [Jobs -> BOOLEAN]]
  BY RefreshType DEF TypeOK
<1>5. Spend("requests") => left' \in [faults: 0 .. MaxFaults, requests: 0 .. MaxRequests]
  BY SpendType DEF TypeOK
<1>6. \A o \in Owners, kind \in Kinds, pc \in RunnerPcs \cup OtherPcs :
        thread' = [thread EXCEPT ![o] = NewThread(kind, p, j, pc)] => thread' \in [Owners -> Thread]
  <2>1. SUFFICES ASSUME NEW o \in Owners, NEW kind \in Kinds, NEW pc \in RunnerPcs \cup OtherPcs,
                        thread' = [thread EXCEPT ![o] = NewThread(kind, p, j, pc)]
                 PROVE  thread' \in [Owners -> Thread]
    OBVIOUS
  <2>2. NewThread(kind, p, j, pc) \in Thread
    BY NewThreadType
  <2> QED
    BY <2>1, <2>2 DEF TypeOK
<1>7. CASE RequestCancel(p, j)
  <2>1. CancelRequested(row[j]) \in Row
    BY <1>2 DEF CancelRequested, Row, ActiveStatuses
  <2>2. row' \in [Jobs -> Row]
    BY <1>7, <2>1, <1>3 DEF RequestCancel
  <2> QED
    BY <1>7, <2>2, <1>4, <1>5 DEF RequestCancel, TypeOK
<1>8. CASE Poll(p, j)
  BY <1>8, <1>4 DEF Poll, TypeOK
<1>9. ASSUME NEW o \in Owners, CreateImport(p, j, o)
      PROVE  TypeOK'
  <2>1. [Leased(AbsentRow, o) EXCEPT !.status = "uploading", !.retry = TRUE, !.ws = TRUE] \in Row
    BY DEF Leased, AbsentRow, Row, ActiveStatuses, LeaseableStatuses, GraphStatuses
  <2>2. row' \in [Jobs -> Row]
    BY <1>9, <2>1, <1>3 DEF CreateImport
  <2>3. thread' \in [Owners -> Thread]
    BY <1>9, <1>6 DEF CreateImport, Kinds
  <2> QED
    BY <1>9, <2>2, <2>3, <1>4 DEF CreateImport, TypeOK
<1>10. ASSUME NEW o \in Owners, RequestRetry(p, j, o)
       PROVE  TypeOK'
  <2>1. thread' \in [Owners -> Thread]
    BY <1>10, <1>6 DEF RequestRetry, Kinds
  <2> QED
    BY <1>10, <2>1, <1>4, <1>5 DEF RequestRetry, TypeOK
<1>11. ASSUME NEW o \in Owners, RequestGraphRetry(p, j, o)
       PROVE  TypeOK'
  <2>1. [Leased(row[j], o) EXCEPT !.status = "syncing_graph", !.graph = "syncing"] \in Row
    BY <1>2 DEF Leased, Row, ActiveStatuses, LeaseableStatuses, CancellableStatuses, GraphStatuses
  <2>2. row' \in [Jobs -> Row]
    BY <1>11, <2>1, <1>3 DEF RequestGraphRetry
  <2>3. thread' \in [Owners -> Thread]
    BY <1>11, <1>6 DEF RequestGraphRetry, Kinds
  <2> QED
    BY <1>11, <2>2, <2>3, <1>4, <1>5 DEF RequestGraphRetry, TypeOK
<1>12. ASSUME NEW o \in Owners, RequestDiscard(p, j, o)
       PROVE  TypeOK'
  <2>1. [Leased(row[j], o) EXCEPT !.discarding = TRUE] \in Row
    BY <1>2 DEF Leased, Row
  <2>2. row' \in [Jobs -> Row]
    BY <1>12, <2>1, <1>3 DEF RequestDiscard
  <2>3. thread' \in [Owners -> Thread]
    BY <1>12, <1>6 DEF RequestDiscard, Kinds
  <2> QED
    BY <1>12, <2>2, <2>3, <1>4, <1>5 DEF RequestDiscard, TypeOK
<1> QED
  BY <1>1, <1>7, <1>8, <1>9, <1>10, <1>11, <1>12

(* The recovery thread keeps the types. *)
LEMMA RecoveryType ==
    ASSUME TypeOK, NEW p \in Procs, RecoveryStep(p) \/ \E j \in Jobs : ListRecoverable(p, j)
    PROVE  TypeOK'
<1>1. \A j \in Jobs : row[j] \in Row
  BY DEF TypeOK
<1>2. \A pc \in {"expiring", "cancel", "fail", "tidy", "prune", "remove", "forget"} :
        scan[p].pc # "idle" => [scan[p] EXCEPT !.pc = pc] \in Scan
  <2>1. scan[p].pc # "idle" => scan[p] \in [pc: {"listed", "expiring", "cancel", "fail", "tidy",
                                                  "prune", "remove", "forget"},
                                             job: Jobs, uploading: BOOLEAN]
    BY DEF TypeOK, Scan, Resting
  <2> QED
    BY <2>1 DEF Scan
<1>3. Resting \in Scan
  BY DEF Scan
<1>4. scan[p].pc # "idle" => scan[p].job \in Jobs
  BY DEF TypeOK, Scan, Resting
<1>5. CASE \E j \in Jobs : ListRecoverable(p, j)
  BY <1>5 DEF ListRecoverable, TypeOK, Scan
<1>6. ASSUME NEW o \in Owners, ExpireUpload(p, o)
      PROVE  TypeOK'
  <2> DEFINE j == scan[p].job
  <2>1. j \in Jobs
    BY <1>4, <1>6 DEF ExpireUpload
  <2>2. CASE CanAcquire(j)
    <3>1. Leased(row[j], o) \in Row
      BY <2>1, <1>1, LeasedType
    <3>2. row' \in [Jobs -> Row]
      BY <1>6, <2>2, <3>1, SetRowType DEF ExpireUpload, TypeOK
    <3>3. NewThread("expire", p, j, "read") \in Thread
      BY <2>1, NewThreadType DEF Kinds, OtherPcs
    <3>4. thread' \in [Owners -> Thread]
      BY <1>6, <2>2, <3>3 DEF ExpireUpload, TypeOK
    <3>5. scan' \in [Procs -> Scan]
      BY <1>6, <2>2, <1>2 DEF ExpireUpload, TypeOK
    <3> QED
      BY <1>6, <3>2, <3>4, <3>5 DEF ExpireUpload, TypeOK
  <2>3. CASE ~CanAcquire(j)
    BY <1>6, <2>3, <1>3 DEF ExpireUpload, TypeOK
  <2> QED
    BY <2>2, <2>3
<1>7. ASSUME NEW o \in Owners, Recover(p, o)
      PROVE  TypeOK'
  <2> DEFINE j == scan[p].job
  <2>1. j \in Jobs
    BY <1>4, <1>7 DEF Recover
  <2>2. scan' \in [Procs -> Scan]
    BY <1>7, <1>2, <1>3 DEF Recover, TypeOK
  <2>3. /\ row' \in [Jobs -> Row]
        /\ thread' \in [Owners -> Thread]
        /\ reg' \in [Procs -> [Jobs -> Owners \cup {NoOne}]]
        /\ pend' \in [Procs -> [Jobs -> Owners \cup {NoOne}]]
    <3>1. Submit(p, j, o, TRUE) => /\ row' \in [Jobs -> Row]
                                   /\ thread' \in [Owners -> Thread]
                                   /\ reg' \in [Procs -> [Jobs -> Owners \cup {NoOne}]]
                                   /\ pend' \in [Procs -> [Jobs -> Owners \cup {NoOne}]]
      BY <2>1, SubmitType
    <3>2. Leased(row[j], o) \in Row
      BY <2>1, <1>1, LeasedType
    <3>3. SetRow(j, Leased(row[j], o)) => row' \in [Jobs -> Row]
      BY <3>2, SetRowType DEF TypeOK
    <3>4. NewThread("graph", p, j, "sync") \in Thread
      BY <2>1, NewThreadType DEF Kinds, RunnerPcs, FencedPcs
    <3>5. \/ UNCHANGED <<row, thread, reg, pend>>
          \/ /\ SetRow(j, Leased(row[j], o))
             /\ thread' = [thread EXCEPT ![o] = NewThread("graph", p, j, "sync")]
             /\ UNCHANGED <<reg, pend>>
          \/ Submit(p, j, o, TRUE)
      BY <1>7 DEF Recover
    <3> QED
      BY <3>1, <3>3, <3>4, <3>5 DEF TypeOK
  <2>4. cache' \in [Procs -> [Jobs -> BOOLEAN]]
    BY <1>7, <2>1, <2>3, RefreshType DEF Recover, TypeOK
  <2> QED
    BY <1>7, <2>2, <2>3, <2>4 DEF Recover, TypeOK
<1>8. CASE RecoverCancelled(p)
  <2> DEFINE j == scan[p].job
             r == [row[j] EXCEPT !.status = "cancelled", !.discarding = FALSE, !.retry = TRUE]
  <2>1. j \in Jobs
    BY <1>4, <1>8 DEF RecoverCancelled
  <2>2. row[j] \in Row
    BY <2>1, <1>1
  <2>2a. r \in Row
    BY <2>2 DEF Row, TerminalStatuses
  <2>3. SetRow(j, r) \/ SetRow(j, row[j])
    BY <1>8 DEF RecoverCancelled
  <2>4. row' \in [Jobs -> Row]
    BY <2>2, <2>2a, <2>3, SetRowType DEF TypeOK
  <2>5. cache' \in [Procs -> [Jobs -> BOOLEAN]]
    BY <1>8, <2>1, <2>4, RefreshType DEF RecoverCancelled, TypeOK
  <2>6. scan' \in [Procs -> Scan]
    BY <1>8, <1>2 DEF RecoverCancelled, TypeOK
  <2> QED
    BY <1>8, <2>4, <2>5, <2>6 DEF RecoverCancelled, TypeOK
<1>9. CASE RecoverFailed(p)
  <2> DEFINE j == scan[p].job
             r == [row[j] EXCEPT !.status = "failed", !.discarding = FALSE]
  <2>1. j \in Jobs
    BY <1>4, <1>9 DEF RecoverFailed
  <2>2. row[j] \in Row
    BY <2>1, <1>1
  <2>2a. r \in Row
    BY <2>2 DEF Row, TerminalStatuses
  <2>3. SetRow(j, r) \/ SetRow(j, row[j])
    BY <1>9 DEF RecoverFailed
  <2>4. row' \in [Jobs -> Row]
    BY <2>2, <2>2a, <2>3, SetRowType DEF TypeOK
  <2> QED
    BY <1>9, <1>3, <2>4 DEF RecoverFailed, TypeOK
<1>10. CASE RecoverTidies(p)
  <2>1. scan[p].job \in Jobs
    BY <1>4, <1>10 DEF RecoverTidies
  <2>2. scan' \in [Procs -> Scan]
    BY <1>10, <1>2, <1>3 DEF RecoverTidies, TypeOK
  <2>3. cache' \in [Procs -> [Jobs -> BOOLEAN]]
    BY <1>10, <2>1, RefreshType DEF RecoverTidies, TypeOK
  <2> QED
    BY <1>10, <2>2, <2>3 DEF RecoverTidies, TypeOK
<1>11. CASE RecoverPrunes(p)
  <2>1. scan[p].job \in Jobs
    BY <1>4, <1>11 DEF RecoverPrunes
  <2>2. files' \in [Jobs -> Content]
    BY <1>11, <2>1, FilesType DEF RecoverPrunes, TypeOK
  <2> QED
    BY <1>11, <1>3, <2>2 DEF RecoverPrunes, TypeOK
<1>12. CASE RecoverRemoves(p)
  <2>1. scan[p].job \in Jobs
    BY <1>4, <1>12 DEF RecoverRemoves
  <2>2. files' \in [Jobs -> Content]
    BY <1>12, <2>1, FilesType DEF RecoverRemoves, TypeOK
  <2>3. scan' \in [Procs -> Scan]
    BY <1>12, <1>2, <1>3 DEF RecoverRemoves, TypeOK
  <2> QED
    BY <1>12, <2>2, <2>3 DEF RecoverRemoves, TypeOK
<1>13. CASE RecoverForgets(p)
  <2> DEFINE j == scan[p].job
             r == [row[j] EXCEPT !.ws = FALSE, !.forgotten = TRUE]
  <2>1. j \in Jobs
    BY <1>4, <1>13 DEF RecoverForgets
  <2>2. row[j] \in Row
    BY <2>1, <1>1
  <2>3. r \in Row
    BY <2>2 DEF Row
  <2>4. SetRow(j, r) \/ SetRow(j, row[j])
    BY <1>13 DEF RecoverForgets
  <2>5. row' \in [Jobs -> Row]
    BY <2>2, <2>3, <2>4, SetRowType DEF TypeOK
  <2>6. cache' \in [Procs -> [Jobs -> BOOLEAN]]
    BY <1>13, <2>1, <2>5, RefreshType DEF RecoverForgets, TypeOK
  <2> QED
    BY <1>13, <1>3, <2>5, <2>6 DEF RecoverForgets, TypeOK
<1> QED
  BY <1>5, <1>6, <1>7, <1>8, <1>9, <1>10, <1>11, <1>12, <1>13 DEF RecoveryStep

(* A fault keeps the types. *)
LEMMA FaultType ==
    ASSUME TypeOK, (\E j \in Jobs : LeaseExpires(j)) \/ (\E p \in Procs : CrashRestart(p))
    PROVE  TypeOK'
<1>1. ASSUME NEW j \in Jobs, LeaseExpires(j)
      PROVE  TypeOK'
  <2>0. row[j] \in Row
    BY DEF TypeOK
  <2>1. [row[j] EXCEPT !.live = FALSE] \in Row
    BY <2>0 DEF Row
  <2>2. row' \in [Jobs -> Row]
    BY <1>1, <2>1, SetRowType DEF LeaseExpires, TypeOK
  <2>3. left' \in [faults: 0 .. MaxFaults, requests: 0 .. MaxRequests]
    BY <1>1, SpendType DEF LeaseExpires, TypeOK
  <2> QED
    BY <1>1, <2>2, <2>3 DEF LeaseExpires, TypeOK
<1>2. ASSUME NEW p \in Procs, CrashRestart(p)
      PROVE  TypeOK'
  <2>1. Idle \in Thread /\ Resting \in Scan
    BY DEF Thread, Scan
  <2>2. thread' \in [Owners -> Thread] /\ scan' \in [Procs -> Scan]
    BY <1>2, <2>1 DEF CrashRestart, TypeOK
  <2>3. left' \in [faults: 0 .. MaxFaults, requests: 0 .. MaxRequests]
    BY <1>2, SpendType DEF CrashRestart, TypeOK
  <2>4. \A j \in Jobs : row[j] \in Row /\ [row[j] EXCEPT !.ws = FALSE] \in Row
    <3>1. \A r \in Row : [r EXCEPT !.ws = FALSE] \in Row
      BY DEF Row
    <3> QED
      BY <3>1 DEF TypeOK
  <2>5. row' \in [Jobs -> Row] /\ files' \in [Jobs -> Content]
    <3>1. NoFiles \in Content
      BY DEF NoFiles, Content
    <3> QED
      BY <1>2, <2>4, <3>1 DEF CrashRestart, TypeOK
  <2>6. /\ reg' \in [Procs -> [Jobs -> Owners \cup {NoOne}]]
        /\ pend' \in [Procs -> [Jobs -> Owners \cup {NoOne}]]
    BY <1>2 DEF CrashRestart, TypeOK
  <2>7. \A j \in Jobs : row[j].cancel \in BOOLEAN
    BY DEF TypeOK, Row
  <2>8. cache' \in [Procs -> [Jobs -> BOOLEAN]]
    BY <1>2, <2>7 DEF CrashRestart, TypeOK
  <2> QED
    BY <2>2, <2>3, <2>5, <2>6, <2>8 DEF TypeOK
<1> QED
  BY <1>1, <1>2

-----------------------------------------------------------------------------
(* What a step of a thread may do to itself, to other threads, to its job and to the
   directory of its job.  Nothing else about a step matters to the invariants below. *)

\* The steps that change a registry; all others keep what the registries say of a thread.
RegistryStep(o) ==
    UploadSubmit(o) \/ Deregister(o) \/ HandOver(o) \/ Resubmit(o) \/ ResumeRetry(o)

RegistrySame(q) ==
    /\ Registered(q)' <=> Registered(q)
    /\ At(q, "retry", "pending")' <=> At(q, "retry", "pending")
    /\ thread'[q] # Idle => thread'[q].job = thread[q].job /\ thread'[q].proc = thread[q].proc

ThreadGuarantee(o) ==
    /\ \A q \in Owners : q # o =>
          \/ thread'[q] = thread[q] \/ thread'[q] = Idle
          \/ At(q, "retry", "pending") /\ thread'[q] = [thread[q] EXCEPT !.pc = "handed"]
    /\ \/ thread'[o] = Idle
       \/ /\ thread'[o].job = J(o) /\ thread'[o].proc = P(o)
          /\ thread'[o].kind = thread[o].kind \/ thread[o].kind # "discard"
          /\ thread'[o].pc = "deleted" => thread[o].pc = "deleted" \/ files'[J(o)] = NoFiles
          /\ ResultKnown(o)' /\ PastGraph(o)'
    /\ RegistryStep(o) \/ (RegistrySame(o) /\ \A q \in Owners : q # o => thread'[q] = thread[q])

\* Only the owner of a job forgets its directory, ends it or begins its graph; and what it
\* does leaves it fit to write, as far as it is going to.
RowGuarantee(o) ==
    LET r == row[J(o)]
        s == row'[J(o)]
    IN  /\ \A j \in Jobs : j # J(o) => row'[j] = row[j]
        /\ \/ s.owner \in {r.owner, NoOne}
           \/ /\ s.owner = o /\ thread'[o].pc # "deleted"
              /\ \/ thread'[o].kind = "retry"
                 \/ thread'[o].kind = "runner" /\ thread'[o].stage = "none"
        /\ s.discarding => /\ r.discarding
                           /\ s.owner \in {r.owner, NoOne}
                           /\ s.status \in TerminalStatuses
        /\ ~s.ws => ~r.ws \/ (thread[o].pc = "deleted" /\ Own(o))
        /\ ~s.forgotten => ~r.forgotten \/ (thread[o].pc = "deleted" /\ Own(o))
        /\ s.status \in CompletedStatuses
              => \/ r.status \in CompletedStatuses /\ (s.graph = "syncing" => r.graph = "syncing")
                 \/ /\ Own(o) /\ thread[o].kind \in {"runner", "graph"}
                    /\ s.graph # "syncing"
        /\ s.graph = "syncing" => r.graph = "syncing" \/ (Own(o) /\ thread'[o].stage = "graph")
        /\ thread'[o].kind = "runner" /\ thread'[o].stage = "finish"
              => \/ thread[o].kind = "runner" /\ thread[o].stage = "finish"
                 \/ Own(o) /\ s.graph # "syncing"
        /\ WriterOK(o)'

FilesGuarantee(o) ==
    /\ \A j \in Jobs : j # J(o) => files'[j] = files[j]
    /\ \A j \in Jobs : Held(j)' => Held(j) \/ (j = J(o) /\ Writing(o) /\ Own(o))

LEMMA ThreadGuaranteed ==
    ASSUME IInv, NEW o \in Owners, ThreadStep(o) \/ RenewalStep(o)
    PROVE  ThreadGuarantee(o)
<1> USE DEF IInv
<1>0. thread[o] # Idle
  BY StepOfThread
<1>a. /\ thread \in [Owners -> Thread] /\ thread[o].pc \in RunnerPcs \cup OtherPcs
      /\ J(o) \in Jobs /\ P(o) \in Procs
  BY <1>0, ThreadPlace DEF TypeOK
<1>b. files \in [Jobs -> Content]
  BY DEF TypeOK
<1>c. ResultKnown(o) /\ PastGraph(o)
  BY DEF GraphOK
<1>d. \A q \in Owners : pend[P(o)][J(o)] = q => At(q, "retry", "pending") /\ J(q) = J(o) /\ P(q) = P(o)
  BY <1>a DEF RegistryOK
<1>1. CASE UploadChunk(o)
  BY <1>1, <1>a, <1>b, <1>c, <1>d DEF UploadChunk, At, Goto, ThreadGuarantee, RegistrySame,
        Registered, RunnerPcs, FencedPcs, ResultKnown, PastGraph, SettledPcs,
        GraphStatuses, J, P, Idle
<1>2. CASE UploadFails(o)
  BY <1>2, <1>a, <1>b, <1>c, <1>d DEF UploadFails, At, Goto, ThreadGuarantee, RegistrySame,
        Registered, RunnerPcs, FencedPcs, ResultKnown, PastGraph, SettledPcs,
        GraphStatuses, J, P, Idle
<1>3. CASE UploadQueued(o)
  BY <1>3, <1>a, <1>b, <1>c, <1>d DEF UploadQueued, At, Goto, ThreadGuarantee,
        RegistrySame, Registered, RunnerPcs, FencedPcs, ResultKnown, PastGraph, SettledPcs,
        GraphStatuses, J, P, Idle
<1>4. CASE UploadUnleased(o)
  BY <1>4, <1>a, <1>b, <1>c, <1>d DEF UploadUnleased, At, Goto, ThreadGuarantee,
        RegistrySame, Registered, RunnerPcs, FencedPcs, ResultKnown, PastGraph, SettledPcs,
        GraphStatuses, J, P, Idle
<1>5. CASE UploadSubmit(o)
  <2>0. At(o, "upload", "submit")
    BY <1>5 DEF UploadSubmit
  <2>f. files' = files
    BY <1>5 DEF UploadSubmit
  <2>1. CASE CanSubmit(P(o), J(o))
    <3>1. /\ Submit(P(o), J(o), o, FALSE)
           /\ CanSubmit(P(o), J(o))
      BY <1>5, <2>1 DEF UploadSubmit
    <3> QED
      BY <2>0, <1>5, <2>f, <2>1, <3>1, <1>a, <1>b, <1>c, <1>d DEF At, StartRunner, Submit,
            CanSubmit, NewThread, ThreadGuarantee, RegistryStep, ResultKnown, PastGraph,
            SettledPcs, GraphStatuses, J, P, Idle
  <2>2. CASE ~CanSubmit(P(o), J(o))
    <3>1. Stop(o)
      BY <1>5, <2>2 DEF UploadSubmit
    <3> QED
      BY <2>0, <1>5, <2>f, <2>2, <3>1, <1>a, <1>b, <1>c, <1>d DEF At, Stop,
            ThreadGuarantee, RegistryStep, ResultKnown, PastGraph, SettledPcs,
            GraphStatuses, J, P, Idle
  <2> QED
    BY <2>1, <2>2
<1>6. CASE UploadAbort(o)
  <2>0. At(o, "upload", "abort")
    BY <1>6 DEF UploadAbort
  <2>f. files' = files
    BY <1>6 DEF UploadAbort
  <2>1. CASE row[J(o)].status = "uploading"
    <3>1. Goto(o, "delete")
      BY <1>6, <2>1 DEF UploadAbort
    <3> QED
      BY <2>0, <2>f, <2>1, <3>1, <1>a, <1>b, <1>c, <1>d DEF At, Goto, ThreadGuarantee,
            RegistrySame, Registered, RunnerPcs, FencedPcs, ResultKnown, PastGraph,
            SettledPcs, GraphStatuses, J, P, Idle
  <2>2. CASE row[J(o)].status # "uploading"
    <3>1. Stop(o)
      BY <1>6, <2>2 DEF UploadAbort
    <3> QED
      BY <2>0, <2>f, <2>2, <3>1, <1>a, <1>b, <1>c, <1>d DEF At, Stop, ThreadGuarantee,
            RegistrySame, Registered, RunnerPcs, FencedPcs, ResultKnown, PastGraph,
            SettledPcs, GraphStatuses, J, P, Idle
  <2> QED
    BY <2>1, <2>2
<1>7. CASE UploadDropped(o)
  BY <1>7, <1>a, <1>b, <1>c, <1>d DEF UploadDropped, At, Stop, ThreadGuarantee,
        RegistrySame, Registered, RunnerPcs, FencedPcs, ResultKnown, PastGraph, SettledPcs,
        GraphStatuses, J, P, Idle
<1>8. CASE UploadKept(o)
  BY <1>8, <1>a, <1>b, <1>c, <1>d DEF UploadKept, At, Stop, ThreadGuarantee, RegistrySame,
        Registered, RunnerPcs, FencedPcs, ResultKnown, PastGraph, SettledPcs,
        GraphStatuses, J, P, Idle
<1>9. CASE ExpireRead(o)
  <2>0. At(o, "expire", "read")
    BY <1>9 DEF ExpireRead
  <2>f. files' = files
    BY <1>9 DEF ExpireRead, EndExpire
  <2>1. CASE row[J(o)].status = "uploading"
    <3>1. Goto(o, "delete")
      BY <1>9, <2>1 DEF ExpireRead, EndExpire
    <3> QED
      BY <2>0, <2>f, <2>1, <3>1, <1>a, <1>b, <1>c, <1>d DEF At, Goto, ThreadGuarantee,
            RegistrySame, Registered, RunnerPcs, FencedPcs, ResultKnown, PastGraph,
            SettledPcs, GraphStatuses, J, P, Idle
  <2>2. CASE row[J(o)].status # "uploading"
    <3>1. Stop(o)
      BY <1>9, <2>2 DEF ExpireRead, EndExpire
    <3> QED
      BY <2>0, <2>f, <2>2, <3>1, <1>a, <1>b, <1>c, <1>d DEF At, Stop, ThreadGuarantee,
            RegistrySame, Registered, RunnerPcs, FencedPcs, ResultKnown, PastGraph,
            SettledPcs, GraphStatuses, J, P, Idle
  <2> QED
    BY <2>1, <2>2
<1>10. CASE ExpireDeleted(o)
  BY <1>10, <1>a, <1>b, <1>c, <1>d DEF ExpireDeleted, At, Stop, EndExpire, ThreadGuarantee,
        RegistrySame, Registered, RunnerPcs, FencedPcs, ResultKnown, PastGraph, SettledPcs,
        GraphStatuses, J, P, Idle
<1>11. CASE ExpireKept(o)
  BY <1>11, <1>a, <1>b, <1>c, <1>d DEF ExpireKept, At, Stop, EndExpire, ThreadGuarantee,
        RegistrySame, Registered, RunnerPcs, FencedPcs, ResultKnown, PastGraph, SettledPcs,
        GraphStatuses, J, P, Idle
<1>12. CASE DeleteWorkspace(o)
  BY <1>12, <1>a, <1>b, <1>c, <1>d DEF DeleteWorkspace, At, Goto, ThreadGuarantee,
        RegistrySame, Registered, RunnerPcs, FencedPcs, ResultKnown, PastGraph, SettledPcs,
        GraphStatuses, J, P, Idle
<1>13. CASE DeleteFails(o)
  BY <1>13, <1>a, <1>b, <1>c, <1>d DEF DeleteFails, At, Goto, ThreadGuarantee,
        RegistrySame, Registered, RunnerPcs, FencedPcs, ResultKnown, PastGraph, SettledPcs,
        GraphStatuses, J, P, Idle
<1>14. CASE RunStart(o)
  <2>0. At(o, "runner", "start")
    BY <1>14 DEF RunStart
  <2>f. files' = files
    BY <1>14 DEF RunStart
  <2>1. CASE row[J(o)].ws /\ HasSources(J(o))
    <3>1. thread' = [thread EXCEPT ![o].pc = "check", ![o].stage = "discovering"]
      BY <1>14, <2>1 DEF RunStart
    <3> QED
      BY <2>0, <2>f, <2>1, <3>1, <1>a, <1>b, <1>c, <1>d DEF At, ThreadGuarantee,
            RegistrySame, Registered, RunnerPcs, FencedPcs, ResultKnown, PastGraph,
            SettledPcs, GraphStatuses, J, P, Idle
  <2>2. CASE ~(row[J(o)].ws /\ HasSources(J(o)))
    <3>1. Close(o, "fail", FALSE)
      BY <1>14, <2>2 DEF RunStart
    <3> QED
      BY <2>0, <2>f, <2>2, <3>1, <1>a, <1>b, <1>c, <1>d DEF At, Close, NewThread,
            ThreadGuarantee, RegistrySame, Registered, RunnerPcs, FencedPcs, ResultKnown,
            PastGraph, SettledPcs, GraphStatuses, J, P, Idle
  <2> QED
    BY <2>1, <2>2
<1>15. CASE CheckCancelled(o)
  BY <1>15, <1>a, <1>b, <1>c, <1>d DEF CheckCancelled, At, Goto, ThreadGuarantee,
        RegistrySame, Registered, RunnerPcs, FencedPcs, ResultKnown, PastGraph, SettledPcs,
        GraphStatuses, J, P, Idle
<1>16. CASE WriteStatus(o)
  <2>0. At(o, "runner", "write") /\ Holds(o)
    BY <1>16 DEF WriteStatus
  <2>f. files' = files
    BY <1>16 DEF WriteStatus
  <2>1. CASE thread[o].stage = "discovering"
    <3>1. thread' = [thread EXCEPT ![o].pc = "extract", ![o].stage = "parsing"]
      BY <1>16, <2>1, <2>0 DEF WriteStatus
    <3> QED
      BY <2>0, <2>f, <2>1, <3>1, <1>a, <1>b, <1>c, <1>d DEF At, ThreadGuarantee,
            RegistrySame, Registered, RunnerPcs, FencedPcs, ResultKnown, PastGraph,
            SettledPcs, GraphStatuses, J, P, Idle
  <2>2. CASE thread[o].stage = "parsing"
    <3>1. \E bad \in BOOLEAN :
                 thread' = [thread EXCEPT ![o].pc = "check", ![o].stage = "importing", ![o].bad = bad]
      BY <1>16, <2>2, <2>0 DEF WriteStatus
    <3> QED
      BY <2>0, <2>f, <2>2, <3>1, <1>a, <1>b, <1>c, <1>d DEF At, ThreadGuarantee,
            RegistrySame, Registered, RunnerPcs, FencedPcs, ResultKnown, PastGraph,
            SettledPcs, GraphStatuses, J, P, Idle
  <2>3. CASE thread[o].stage \notin {"discovering", "parsing"}
    <3>1. /\ Goto(o, "work")
           /\ thread[o].stage = "importing"
      BY <1>16, <2>3, <2>0 DEF WriteStatus
    <3> QED
      BY <2>0, <2>f, <2>3, <3>1, <1>a, <1>b, <1>c, <1>d DEF At, Goto, ThreadGuarantee,
            RegistrySame, Registered, RunnerPcs, FencedPcs, ResultKnown, PastGraph,
            SettledPcs, GraphStatuses, J, P, Idle
  <2> QED
    BY <2>1, <2>2, <2>3
<1>17. CASE ImportChunks(o)
  BY <1>17, <1>a, <1>b, <1>c, <1>d DEF ImportChunks, At, ThreadGuarantee, RegistrySame,
        Registered, RunnerPcs, FencedPcs, ResultKnown, PastGraph, SettledPcs,
        GraphStatuses, J, P, Idle
<1>18. CASE NothingToImport(o)
  BY <1>18, <1>a, <1>b, <1>c, <1>d DEF NothingToImport, At, ThreadGuarantee, RegistrySame,
        Registered, RunnerPcs, FencedPcs, ResultKnown, PastGraph, SettledPcs,
        GraphStatuses, J, P, Idle
<1>19. CASE RunRaises(o)
  BY <1>19, <1>a, <1>b, <1>c, <1>d DEF RunRaises, At, Close, NewThread, ThreadGuarantee,
        RegistrySame, Registered, RunnerPcs, FencedPcs, ResultKnown, PastGraph, SettledPcs,
        GraphStatuses, J, P, Idle
<1>20. CASE SkipGraph(o)
  BY <1>20, <1>a, <1>b, <1>c, <1>d DEF SkipGraph, At, ThreadGuarantee, RegistrySame,
        Registered, RunnerPcs, FencedPcs, ResultKnown, PastGraph, SettledPcs,
        GraphStatuses, J, P, Idle
<1>21. CASE BeginGraph(o)
  BY <1>21, <1>a, <1>b, <1>c, <1>d DEF BeginGraph, At, Goto, ThreadGuarantee, RegistrySame,
        Registered, RunnerPcs, FencedPcs, ResultKnown, PastGraph, SettledPcs,
        GraphStatuses, J, P, Idle
<1>22. CASE SyncGraph(o)
  BY <1>22, <1>a, <1>b, <1>c, <1>d DEF SyncGraph, At, ThreadGuarantee, RegistrySame,
        Registered, RunnerPcs, FencedPcs, ResultKnown, PastGraph, SettledPcs,
        GraphStatuses, J, P, Idle
<1>23. CASE BeginFinish(o)
  BY <1>23, <1>a, <1>b, <1>c, <1>d DEF BeginFinish, At, Goto, ThreadGuarantee,
        RegistrySame, Registered, RunnerPcs, FencedPcs, ResultKnown, PastGraph, SettledPcs,
        GraphStatuses, J, P, Idle
<1>24. CASE Prepare(o)
  BY <1>24, <1>a, <1>b, <1>c, <1>d DEF Prepare, At, Goto, SourceRetry, ThreadGuarantee,
        RegistrySame, Registered, RunnerPcs, FencedPcs, ResultKnown, PastGraph, SettledPcs,
        GraphStatuses, J, P, Idle
<1>25. CASE ClearWorkspace(o)
  <2>0. thread[o].kind \in {"runner", "graph"}
    BY <1>25 DEF ClearWorkspace
  <2>f. files' = files
    BY <1>25 DEF ClearWorkspace
  <2>1. CASE thread[o].stage = "tidy" /\ thread[o].pc = "deleted"
    <3>1. /\ Close(o, "release", FALSE)
           /\ Holds(o)
      BY <1>25, <2>1 DEF ClearWorkspace
    <3> QED
      BY <2>0, <2>f, <2>1, <3>1, <1>a, <1>b, <1>c, <1>d DEF At, Close, NewThread,
            ThreadGuarantee, RegistrySame, Registered, RunnerPcs, FencedPcs, ResultKnown,
            PastGraph, SettledPcs, GraphStatuses, J, P, Idle
  <2>2. CASE thread[o].stage = "tidy" /\ thread[o].pc # "deleted"
    <3>1. /\ Close(o, "release", FALSE)
           /\ thread[o].pc = "kept"
      BY <1>25, <2>2 DEF ClearWorkspace
    <3> QED
      BY <2>0, <2>f, <2>2, <3>1, <1>a, <1>b, <1>c, <1>d DEF At, Close, NewThread,
            ThreadGuarantee, RegistrySame, Registered, RunnerPcs, FencedPcs, ResultKnown,
            PastGraph, SettledPcs, GraphStatuses, J, P, Idle
  <2>3. CASE thread[o].stage # "tidy" /\ thread[o].pc = "deleted"
    <3>1. /\ Goto(o, "final")
           /\ Holds(o)
      BY <1>25, <2>3 DEF ClearWorkspace
    <3> QED
      BY <2>0, <2>f, <2>3, <3>1, <1>a, <1>b, <1>c, <1>d DEF At, Goto, ThreadGuarantee,
            RegistrySame, Registered, RunnerPcs, FencedPcs, ResultKnown, PastGraph,
            SettledPcs, GraphStatuses, J, P, Idle
  <2>4. CASE thread[o].stage # "tidy" /\ thread[o].pc # "deleted"
    <3>1. /\ Goto(o, "final")
           /\ thread[o].pc = "kept"
      BY <1>25, <2>4 DEF ClearWorkspace
    <3> QED
      BY <2>0, <2>f, <2>4, <3>1, <1>a, <1>b, <1>c, <1>d DEF At, Goto, ThreadGuarantee,
            RegistrySame, Registered, RunnerPcs, FencedPcs, ResultKnown, PastGraph,
            SettledPcs, GraphStatuses, J, P, Idle
  <2> QED
    BY <2>1, <2>2, <2>3, <2>4
<1>26. CASE Finish(o)
  BY <1>26, <1>a, <1>b, <1>c, <1>d DEF Finish, At, Close, SourceRetry, NewThread,
        ThreadGuarantee, RegistrySame, Registered, RunnerPcs, FencedPcs, ResultKnown,
        PastGraph, SettledPcs, GraphStatuses, J, P, Idle
<1>27. CASE MarkCancelled(o)
  BY <1>27, <1>a, <1>b, <1>c, <1>d DEF MarkCancelled, At, Close, NewThread,
        ThreadGuarantee, RegistrySame, Registered, RunnerPcs, FencedPcs, ResultKnown,
        PastGraph, SettledPcs, GraphStatuses, J, P, Idle
<1>28. CASE MarkFailed(o)
  BY <1>28, <1>a, <1>b, <1>c, <1>d DEF MarkFailed, At, Close, NewThread, ThreadGuarantee,
        RegistrySame, Registered, RunnerPcs, FencedPcs, ResultKnown, PastGraph, SettledPcs,
        GraphStatuses, J, P, Idle
<1>29. CASE Tidy(o)
  <2>0. At(o, "runner", "tidy")
    BY <1>29 DEF Tidy
  <2>f. files' = files
    BY <1>29 DEF Tidy
  <2>1. CASE \E pc \in {"delete", "prune"} :
               thread' = [thread EXCEPT ![o].pc = pc, ![o].stage = "tidy"]
    BY <2>0, <2>f, <2>1, <1>a, <1>b, <1>c, <1>d DEF At, ThreadGuarantee,
          RegistrySame, Registered, RunnerPcs, FencedPcs, ResultKnown, PastGraph,
          SettledPcs, GraphStatuses, J, P, Idle
  <2>2. CASE \E lost : Close(o, "release", lost)
    BY <2>0, <2>f, <2>2, <1>a, <1>b, <1>c, <1>d DEF At, Close, NewThread,
          ThreadGuarantee, RegistrySame, Registered, RunnerPcs, FencedPcs, ResultKnown,
          PastGraph, SettledPcs, GraphStatuses, J, P, Idle
  <2> QED
    BY <1>29, <2>1, <2>2 DEF Tidy
<1>30. CASE LoseLease(o)
  BY <1>30, <1>a, <1>b, <1>c, <1>d DEF LoseLease, At, Close, NewThread, ThreadGuarantee,
        RegistrySame, Registered, RunnerPcs, FencedPcs, ResultKnown, PastGraph, SettledPcs,
        GraphStatuses, J, P, Idle
<1>31. CASE Release(o)
  <2>0. thread[o].kind \in {"runner", "graph"} /\ thread[o].pc = "release"
    BY <1>31 DEF Release
  <2>f. files' = files
    BY <1>31 DEF Release
  <2>1. CASE thread[o].kind = "graph"
    <3>1. Stop(o)
      BY <1>31, <2>1 DEF Release
    <3> QED
      BY <2>0, <2>f, <2>1, <3>1, <1>a, <1>b, <1>c, <1>d DEF At, Stop, ThreadGuarantee,
            RegistrySame, Registered, RunnerPcs, FencedPcs, ResultKnown, PastGraph,
            SettledPcs, GraphStatuses, J, P, Idle
  <2>2. CASE thread[o].kind # "graph"
    <3>1. Goto(o, "exit")
      BY <1>31, <2>2 DEF Release
    <3> QED
      BY <2>0, <2>f, <2>2, <3>1, <1>a, <1>b, <1>c, <1>d DEF At, Goto, ThreadGuarantee,
            RegistrySame, Registered, RunnerPcs, FencedPcs, ResultKnown, PastGraph,
            SettledPcs, GraphStatuses, J, P, Idle
  <2> QED
    BY <2>1, <2>2
<1>32. CASE Deregister(o)
  BY <1>32, <1>a, <1>b, <1>c, <1>d DEF Deregister, At, NewThread, ThreadGuarantee,
        RegistryStep, ResultKnown, PastGraph, SettledPcs, GraphStatuses, J, P, Idle
<1>33. CASE HandOver(o)
  <2> DEFINE queued == row[J(o)].status = "queued" /\ ~row[J(o)].cancel
  <2>0. At(o, "retry", "handed")
    BY <1>33 DEF HandOver
  <2>f. files' = files
    BY <1>33 DEF HandOver
  <2>1. CASE ~queued
    <3>1. Stop(o)
      BY <1>33, <2>1 DEF HandOver
    <3> QED
      BY <2>0, <1>33, <2>f, <2>1, <3>1, <1>a, <1>b, <1>c, <1>d DEF At, Stop,
            ThreadGuarantee, RegistryStep, ResultKnown, PastGraph, SettledPcs,
            GraphStatuses, J, P, Idle
  <2>2. CASE queued
    <3>1. StartRunner(P(o), J(o), o)
      BY <1>33, <2>2 DEF HandOver
    <3>2. /\ \A q \in Owners : q # o => thread'[q] = thread[q] \/ thread'[q] = Idle
          /\ \/ thread'[o] = NewThread("runner", P(o), J(o), "start")
             \/ thread'[o] = NewThread("retry", P(o), J(o), "pending")
      BY <3>1, <1>a, StartEffect
    <3>3. /\ thread'[o].job = J(o) /\ thread'[o].proc = P(o)
          /\ thread'[o].kind \in {"runner", "retry"} /\ thread'[o].pc \in {"start", "pending"}
      BY <3>2 DEF NewThread
    <3>4. \A q \in Owners : q # o => thread'[q] = thread[q] \/ thread'[q] = Idle
      BY <3>2
    <3> QED
      BY <2>0, <1>33, <3>3, <3>4, <2>f, <2>2, <1>a, <1>b, <1>c, <1>d DEF At,
            ThreadGuarantee, RegistryStep, ResultKnown, PastGraph, SettledPcs,
            GraphStatuses, J, P, Idle
  <2> QED
    BY <2>1, <2>2
<1>34. CASE Resubmit(o)
  <2> DEFINE again == /\ CanSubmit(P(o), J(o))
                      /\ thread[o].lost \/ row[J(o)].status = "queued"
  <2>0. At(o, "runner", "resubmit")
    BY <1>34 DEF Resubmit
  <2>f. files' = files
    BY <1>34 DEF Resubmit
  <2>1. CASE again
    <3>1. /\ Submit(P(o), J(o), o, thread[o].lost)
           /\ CanSubmit(P(o), J(o))
      BY <1>34, <2>1 DEF Resubmit
    <3> QED
      BY <2>0, <1>34, <2>f, <2>1, <3>1, <1>a, <1>b, <1>c, <1>d DEF At, StartRunner, Submit,
            CanSubmit, NewThread, ThreadGuarantee, RegistryStep, ResultKnown, PastGraph,
            SettledPcs, GraphStatuses, J, P, Idle
  <2>2. CASE ~again
    <3>1. Stop(o)
      BY <1>34, <2>2 DEF Resubmit
    <3> QED
      BY <2>0, <1>34, <2>f, <2>2, <3>1, <1>a, <1>b, <1>c, <1>d DEF At, Stop,
            ThreadGuarantee, RegistryStep, ResultKnown, PastGraph, SettledPcs,
            GraphStatuses, J, P, Idle
  <2> QED
    BY <2>1, <2>2
<1>35. CASE ClaimRetry(o)
  <2> DEFINE open == /\ row[J(o)].status \in RetryableStatuses
                     /\ ~row[J(o)].discarding /\ SlotFree
  <2>0. At(o, "retry", "claim")
    BY <1>35 DEF ClaimRetry
  <2>f. files' = files
    BY <1>35 DEF ClaimRetry
  <2>1. CASE open
    <3>1. /\ Goto(o, "resume")
           /\ ~row[J(o)].discarding
      BY <1>35, <2>1 DEF ClaimRetry
    <3> QED
      BY <2>0, <2>f, <2>1, <3>1, <1>a, <1>b, <1>c, <1>d DEF At, Goto, ThreadGuarantee,
            RegistrySame, Registered, RunnerPcs, FencedPcs, ResultKnown, PastGraph,
            SettledPcs, GraphStatuses, J, P, Idle
  <2>2. CASE ~open
    <3>1. Stop(o)
      BY <1>35, <2>2 DEF ClaimRetry
    <3> QED
      BY <2>0, <2>f, <2>2, <3>1, <1>a, <1>b, <1>c, <1>d DEF At, Stop, ThreadGuarantee,
            RegistrySame, Registered, RunnerPcs, FencedPcs, ResultKnown, PastGraph,
            SettledPcs, GraphStatuses, J, P, Idle
  <2> QED
    BY <2>1, <2>2
<1>36. CASE ResumeRetry(o)
  <2>0. At(o, "retry", "resume")
    BY <1>36 DEF ResumeRetry
  <2>f. files' = files
    BY <1>36 DEF ResumeRetry
  <2>1. CASE Holds(o)
    <3>1. StartRunner(P(o), J(o), o)
      BY <1>36, <2>1 DEF ResumeRetry
    <3>2. /\ \A q \in Owners : q # o => thread'[q] = thread[q] \/ thread'[q] = Idle
          /\ \/ thread'[o] = NewThread("runner", P(o), J(o), "start")
             \/ thread'[o] = NewThread("retry", P(o), J(o), "pending")
      BY <3>1, <1>a, StartEffect
    <3>3. /\ thread'[o].job = J(o) /\ thread'[o].proc = P(o)
          /\ thread'[o].kind \in {"runner", "retry"} /\ thread'[o].pc \in {"start", "pending"}
      BY <3>2 DEF NewThread
    <3>4. \A q \in Owners : q # o => thread'[q] = thread[q] \/ thread'[q] = Idle
      BY <3>2
    <3> QED
      BY <2>0, <1>36, <3>3, <3>4, <2>f, <2>1, <1>a, <1>b, <1>c, <1>d DEF At,
            ThreadGuarantee, RegistryStep, ResultKnown, PastGraph, SettledPcs,
            GraphStatuses, J, P, Idle
  <2>2. CASE ~Holds(o)
    <3>1. Stop(o)
      BY <1>36, <2>2 DEF ResumeRetry
    <3> QED
      BY <2>0, <1>36, <2>f, <2>2, <3>1, <1>a, <1>b, <1>c, <1>d DEF At, Stop,
            ThreadGuarantee, RegistryStep, ResultKnown, PastGraph, SettledPcs,
            GraphStatuses, J, P, Idle
  <2> QED
    BY <2>1, <2>2
<1>37. CASE ResumeFails(o)
  BY <1>37, <1>a, <1>b, <1>c, <1>d DEF ResumeFails, At, Stop, ThreadGuarantee,
        RegistrySame, Registered, RunnerPcs, FencedPcs, ResultKnown, PastGraph, SettledPcs,
        GraphStatuses, J, P, Idle
<1>38. CASE RetryGraph(o)
  BY <1>38, <1>a, <1>b, <1>c, <1>d DEF RetryGraph, At, ThreadGuarantee, RegistrySame,
        Registered, RunnerPcs, FencedPcs, ResultKnown, PastGraph, SettledPcs,
        GraphStatuses, J, P, Idle
<1>39. CASE FinishGraph(o)
  BY <1>39, <1>a, <1>b, <1>c, <1>d DEF FinishGraph, At, Close, NewThread, ThreadGuarantee,
        RegistrySame, Registered, RunnerPcs, FencedPcs, ResultKnown, PastGraph, SettledPcs,
        GraphStatuses, J, P, Idle
<1>40. CASE EndDiscard(o)
  BY <1>40, <1>a, <1>b, <1>c, <1>d DEF EndDiscard, At, Stop, ThreadGuarantee, RegistrySame,
        Registered, RunnerPcs, FencedPcs, ResultKnown, PastGraph, SettledPcs,
        GraphStatuses, J, P, Idle
<1>41. CASE RenewalReads(o)
  BY <1>41, <1>a, <1>b, <1>c, <1>d DEF RenewalReads, At, ThreadGuarantee, RegistrySame,
        Registered, RunnerPcs, FencedPcs, ResultKnown, PastGraph, SettledPcs,
        GraphStatuses, J, P, Idle
<1>42. CASE RenewalCancels(o)
  BY <1>42, <1>a, <1>b, <1>c, <1>d DEF RenewalCancels, At, ThreadGuarantee, RegistrySame,
        Registered, RunnerPcs, FencedPcs, ResultKnown, PastGraph, SettledPcs,
        GraphStatuses, J, P, Idle
<1>43. CASE RenewalFails(o)
  BY <1>43, <1>a, <1>b, <1>c, <1>d DEF RenewalFails, At, NewThread, ThreadGuarantee,
        RegistrySame, Registered, RunnerPcs, FencedPcs, ResultKnown, PastGraph, SettledPcs,
        GraphStatuses, J, P, Idle
<1>44. CASE OpenUpload(o)
  BY <1>44, <1>a, <1>b, <1>c, <1>d DEF OpenUpload, Goto, ThreadGuarantee, RegistrySame, At,
        Registered, RunnerPcs, FencedPcs, ResultKnown, PastGraph, SettledPcs,
        GraphStatuses, J, P, Idle
<1>45. CASE Extract(o)
  <2>0. At(o, "runner", "extract")
    BY <1>45 DEF Extract
  <2>1. CASE thread' = thread
    BY <2>0, <2>1, <1>a, <1>b, <1>c, <1>d DEF At, ThreadGuarantee,
          RegistrySame, Registered, RunnerPcs, FencedPcs, ResultKnown, PastGraph,
          SettledPcs, GraphStatuses, J, P, Idle
  <2>2. CASE Goto(o, "check")
    BY <2>0, <2>2, <1>a, <1>b, <1>c, <1>d DEF At, Goto, ThreadGuarantee,
          RegistrySame, Registered, RunnerPcs, FencedPcs, ResultKnown, PastGraph,
          SettledPcs, GraphStatuses, J, P, Idle
  <2> QED
    BY <1>45, <2>1, <2>2 DEF Extract
<1>46. CASE PruneExtraction(o)
  <2>0. thread[o].pc = "prune"
    BY <1>46 DEF PruneExtraction
  <2>1. CASE thread[o].stage = "tidy"
    <3>1. Close(o, "release", FALSE)
      BY <1>46, <2>1 DEF PruneExtraction
    <3> QED
      BY <2>0, <3>1, <1>a, <1>b, <1>c, <1>d DEF At, Close, NewThread,
            ThreadGuarantee, RegistrySame, Registered, RunnerPcs, FencedPcs, ResultKnown,
            PastGraph, SettledPcs, GraphStatuses, J, P, Idle
  <2>2. CASE thread[o].stage # "tidy"
    <3>1. Goto(o, "final")
      BY <1>46, <2>2 DEF PruneExtraction
    <3> QED
      BY <2>0, <2>2, <3>1, <1>a, <1>b, <1>c, <1>d DEF At, Goto, ThreadGuarantee,
            RegistrySame, Registered, RunnerPcs, FencedPcs, ResultKnown, PastGraph,
            SettledPcs, GraphStatuses, J, P, Idle
  <2> QED
    BY <2>1, <2>2
<1> QED
  BY <1>1, <1>2, <1>3, <1>4, <1>5, <1>6, <1>7, <1>8, <1>9, <1>10, <1>11, <1>12, <1>13,
     <1>14, <1>15, <1>16, <1>17, <1>18, <1>19, <1>20, <1>21, <1>22, <1>23, <1>24, <1>25,
     <1>26, <1>27, <1>28, <1>29, <1>30, <1>31, <1>32, <1>33, <1>34, <1>35, <1>36, <1>37,
     <1>38, <1>39, <1>40, <1>41, <1>42, <1>43, <1>44, <1>45, <1>46
  DEF ThreadStep, RenewalStep

LEMMA RowGuaranteed ==
    ASSUME IInv, NEW o \in Owners, ThreadStep(o) \/ RenewalStep(o)
    PROVE  RowGuarantee(o)
<1> USE DEF IInv, WriterOK, Beginning, Writing, At
<1>0. thread[o] # Idle
  BY StepOfThread
<1>a. /\ thread \in [Owners -> Thread] /\ J(o) \in Jobs /\ P(o) \in Procs
      /\ row \in [Jobs -> Row]
  BY <1>0, ThreadPlace DEF TypeOK
<1>b. row[J(o)] \in Row
  BY <1>a
<1>c. ResultKnown(o) /\ PastGraph(o) /\ Synced(o) /\ WriterOK(o)
  BY DEF GraphOK, FilesOK, WritesUnderLease
<1>d. row[J(o)].discarding /\ Own(o) => thread[o].kind = "discard"
  BY <1>0, <1>a DEF DiscardOK, DiscardClaimed, Own
<1>e. row[J(o)].discarding => row[J(o)].status \in TerminalStatuses
  BY <1>a DEF DiscardOK, DiscardingIsTerminal
<1>1. CASE UploadChunk(o)
  BY <1>1, <1>a, <1>b, <1>c, <1>d, <1>e DEF UploadChunk, At, Goto, RowGuarantee,
        ResultKnown, PastGraph, Synced, Own, Holds, SettledPcs, GraphStatuses,
        TerminalStatuses, CompletedStatuses, LeaseableStatuses, CancellableStatuses,
        RetryableStatuses, Row, J, P, Idle
<1>2. CASE UploadFails(o)
  BY <1>2, <1>a, <1>b, <1>c, <1>d, <1>e DEF UploadFails, At, Goto, RowGuarantee,
        ResultKnown, PastGraph, Synced, Own, Holds, SettledPcs, GraphStatuses,
        TerminalStatuses, CompletedStatuses, LeaseableStatuses, CancellableStatuses,
        RetryableStatuses, Row, J, P, Idle
<1>3. CASE UploadQueued(o)
  BY <1>3, <1>a, <1>b, <1>c, <1>d, <1>e DEF UploadQueued, At, Goto, SetRow, RowGuarantee,
        ResultKnown, PastGraph, Synced, Own, Holds, SettledPcs, GraphStatuses,
        TerminalStatuses, CompletedStatuses, LeaseableStatuses, CancellableStatuses,
        RetryableStatuses, Row, J, P, Idle
<1>4. CASE UploadUnleased(o)
  BY <1>4, <1>a, <1>b, <1>c, <1>d, <1>e DEF UploadUnleased, At, Goto, SetRow, Released,
        RowGuarantee, ResultKnown, PastGraph, Synced, Own, Holds, SettledPcs,
        GraphStatuses, TerminalStatuses, CompletedStatuses, LeaseableStatuses,
        CancellableStatuses, RetryableStatuses, Row, J, P, Idle
<1>5. CASE UploadSubmit(o)
  <2>0. At(o, "upload", "submit")
    BY <1>5 DEF UploadSubmit
  <2>1. CASE CanSubmit(P(o), J(o))
    <3>1. /\ Submit(P(o), J(o), o, FALSE)
           /\ CanSubmit(P(o), J(o))
      BY <1>5, <2>1 DEF UploadSubmit
    <3> QED
      BY <2>0, <2>1, <3>1, <1>a, <1>b, <1>c, <1>d, <1>e DEF At, SetRow, Leased,
            StartRunner, Submit, CanSubmit, CanAcquire, NewThread, RowGuarantee,
            ResultKnown, PastGraph, Synced, Own, Holds, SettledPcs, GraphStatuses,
            TerminalStatuses, CompletedStatuses, LeaseableStatuses, CancellableStatuses,
            RetryableStatuses, Row, J, P, Idle
  <2>2. CASE ~CanSubmit(P(o), J(o))
    <3>1. /\ Stop(o)
           /\ row' = row
      BY <1>5, <2>2 DEF UploadSubmit
    <3> QED
      BY <2>0, <2>2, <3>1, <1>a, <1>b, <1>c, <1>d, <1>e DEF At, Stop, RowGuarantee,
            ResultKnown, PastGraph, Synced, Own, Holds, SettledPcs, GraphStatuses,
            TerminalStatuses, CompletedStatuses, LeaseableStatuses, CancellableStatuses,
            RetryableStatuses, Row, J, P, Idle
  <2> QED
    BY <2>1, <2>2
<1>6. CASE UploadAbort(o)
  <2>0. At(o, "upload", "abort")
    BY <1>6 DEF UploadAbort
  <2>1. CASE row[J(o)].status = "uploading"
    <3>1. /\ Goto(o, "delete")
           /\ row' = row
      BY <1>6, <2>1 DEF UploadAbort
    <3> QED
      BY <2>0, <2>1, <3>1, <1>a, <1>b, <1>c, <1>d, <1>e DEF At, Goto, RowGuarantee,
            ResultKnown, PastGraph, Synced, Own, Holds, SettledPcs, GraphStatuses,
            TerminalStatuses, CompletedStatuses, LeaseableStatuses, CancellableStatuses,
            RetryableStatuses, Row, J, P, Idle
  <2>2. CASE row[J(o)].status # "uploading"
    <3>1. /\ Stop(o)
           /\ row' = row
      BY <1>6, <2>2 DEF UploadAbort
    <3> QED
      BY <2>0, <2>2, <3>1, <1>a, <1>b, <1>c, <1>d, <1>e DEF At, Stop, RowGuarantee,
            ResultKnown, PastGraph, Synced, Own, Holds, SettledPcs, GraphStatuses,
            TerminalStatuses, CompletedStatuses, LeaseableStatuses, CancellableStatuses,
            RetryableStatuses, Row, J, P, Idle
  <2> QED
    BY <2>1, <2>2
<1>7. CASE UploadDropped(o)
  BY <1>7, <1>a, <1>b, <1>c, <1>d, <1>e DEF UploadDropped, At, Stop, SetRow, Released,
        RowGuarantee, ResultKnown, PastGraph, Synced, Own, Holds, SettledPcs,
        GraphStatuses, TerminalStatuses, CompletedStatuses, LeaseableStatuses,
        CancellableStatuses, RetryableStatuses, Row, J, P, Idle, AbsentRow
<1>8. CASE UploadKept(o)
  BY <1>8, <1>a, <1>b, <1>c, <1>d, <1>e DEF UploadKept, At, Stop, SetRow, Released,
        FailedUpload, RowGuarantee, ResultKnown, PastGraph, Synced, Own, Holds, SettledPcs,
        GraphStatuses, TerminalStatuses, CompletedStatuses, LeaseableStatuses,
        CancellableStatuses, RetryableStatuses, Row, J, P, Idle
<1>9. CASE ExpireRead(o)
  <2>0. At(o, "expire", "read")
    BY <1>9 DEF ExpireRead
  <2>1. CASE row[J(o)].status = "uploading"
    <3>1. /\ Goto(o, "delete")
           /\ row' = row
      BY <1>9, <2>1 DEF ExpireRead, EndExpire
    <3> QED
      BY <2>0, <2>1, <3>1, <1>a, <1>b, <1>c, <1>d, <1>e DEF At, Goto, RowGuarantee,
            ResultKnown, PastGraph, Synced, Own, Holds, SettledPcs, GraphStatuses,
            TerminalStatuses, CompletedStatuses, LeaseableStatuses, CancellableStatuses,
            RetryableStatuses, Row, J, P, Idle
  <2>2. CASE row[J(o)].status # "uploading"
    <3>1. /\ Stop(o)
           /\ SetRow(J(o), Released(row[J(o)], o))
      BY <1>9, <2>2 DEF ExpireRead, EndExpire
    <3> QED
      BY <2>0, <2>2, <3>1, <1>a, <1>b, <1>c, <1>d, <1>e DEF At, Stop, SetRow, Released,
            RowGuarantee, ResultKnown, PastGraph, Synced, Own, Holds, SettledPcs,
            GraphStatuses, TerminalStatuses, CompletedStatuses, LeaseableStatuses,
            CancellableStatuses, RetryableStatuses, Row, J, P, Idle
  <2> QED
    BY <2>1, <2>2
<1>10. CASE ExpireDeleted(o)
  BY <1>10, <1>a, <1>b, <1>c, <1>d, <1>e DEF ExpireDeleted, At, Stop, SetRow, Released,
        EndExpire, FailedUpload, RowGuarantee, ResultKnown, PastGraph, Synced, Own, Holds,
        SettledPcs, GraphStatuses, TerminalStatuses, CompletedStatuses, LeaseableStatuses,
        CancellableStatuses, RetryableStatuses, Row, J, P, Idle
<1>11. CASE ExpireKept(o)
  BY <1>11, <1>a, <1>b, <1>c, <1>d, <1>e DEF ExpireKept, At, Stop, SetRow, Released,
        EndExpire, FailedUpload, RowGuarantee, ResultKnown, PastGraph, Synced, Own, Holds,
        SettledPcs, GraphStatuses, TerminalStatuses, CompletedStatuses, LeaseableStatuses,
        CancellableStatuses, RetryableStatuses, Row, J, P, Idle
<1>12. CASE DeleteWorkspace(o)
  BY <1>12, <1>a, <1>b, <1>c, <1>d, <1>e DEF DeleteWorkspace, Goto, RowGuarantee,
        ResultKnown, PastGraph, Synced, Own, Holds, SettledPcs, GraphStatuses,
        TerminalStatuses, CompletedStatuses, LeaseableStatuses, CancellableStatuses,
        RetryableStatuses, Row, J, P, Idle
<1>13. CASE DeleteFails(o)
  BY <1>13, <1>a, <1>b, <1>c, <1>d, <1>e DEF DeleteFails, Goto, RowGuarantee, ResultKnown,
        PastGraph, Synced, Own, Holds, SettledPcs, GraphStatuses, TerminalStatuses,
        CompletedStatuses, LeaseableStatuses, CancellableStatuses, RetryableStatuses, Row,
        J, P, Idle
<1>14. CASE RunStart(o)
  <2>0. At(o, "runner", "start")
    BY <1>14 DEF RunStart
  <2>1. CASE row[J(o)].ws /\ HasSources(J(o))
    <3>1. /\ thread' = [thread EXCEPT ![o].pc = "check", ![o].stage = "discovering"]
           /\ row' = row
      BY <1>14, <2>1 DEF RunStart
    <3> QED
      BY <2>0, <2>1, <3>1, <1>a, <1>b, <1>c, <1>d, <1>e DEF At, RowGuarantee, ResultKnown,
            PastGraph, Synced, Own, Holds, SettledPcs, GraphStatuses, TerminalStatuses,
            CompletedStatuses, LeaseableStatuses, CancellableStatuses, RetryableStatuses,
            Row, J, P, Idle
  <2>2. CASE ~(row[J(o)].ws /\ HasSources(J(o)))
    <3>1. /\ Close(o, "fail", FALSE)
           /\ row' = row
      BY <1>14, <2>2 DEF RunStart
    <3> QED
      BY <2>0, <2>2, <3>1, <1>a, <1>b, <1>c, <1>d, <1>e DEF At, Close, NewThread,
            RowGuarantee, ResultKnown, PastGraph, Synced, Own, Holds, SettledPcs,
            GraphStatuses, TerminalStatuses, CompletedStatuses, LeaseableStatuses,
            CancellableStatuses, RetryableStatuses, Row, J, P, Idle
  <2> QED
    BY <2>1, <2>2
<1>15. CASE CheckCancelled(o)
  BY <1>15, <1>a, <1>b, <1>c, <1>d, <1>e DEF CheckCancelled, At, Goto, RowGuarantee,
        ResultKnown, PastGraph, Synced, Own, Holds, SettledPcs, GraphStatuses,
        TerminalStatuses, CompletedStatuses, LeaseableStatuses, CancellableStatuses,
        RetryableStatuses, Row, J, P, Idle
<1>16. CASE WriteStatus(o)
  <2>0. At(o, "runner", "write") /\ Holds(o)
    BY <1>16 DEF WriteStatus
  <2>1. CASE thread[o].stage = "discovering"
    <3>1. /\ thread' = [thread EXCEPT ![o].pc = "extract", ![o].stage = "parsing"]
           /\ SetRow(J(o), [row[J(o)] EXCEPT !.status = "discovering", !.discarding = FALSE])
      BY <1>16, <2>1, <2>0 DEF WriteStatus
    <3> QED
      BY <2>0, <2>1, <3>1, <1>a, <1>b, <1>c, <1>d, <1>e DEF At, SetRow, RowGuarantee,
            ResultKnown, PastGraph, Synced, Own, Holds, SettledPcs, GraphStatuses,
            TerminalStatuses, CompletedStatuses, LeaseableStatuses, CancellableStatuses,
            RetryableStatuses, Row, J, P, Idle
  <2>2. CASE thread[o].stage = "parsing"
    <3>1. /\ \E bad \in BOOLEAN :
                 thread' = [thread EXCEPT ![o].pc = "check", ![o].stage = "importing", ![o].bad = bad]
           /\ SetRow(J(o), [row[J(o)] EXCEPT !.status = "parsing", !.discarding = FALSE])
      BY <1>16, <2>2, <2>0 DEF WriteStatus
    <3> QED
      BY <2>0, <2>2, <3>1, <1>a, <1>b, <1>c, <1>d, <1>e DEF At, SetRow, RowGuarantee,
            ResultKnown, PastGraph, Synced, Own, Holds, SettledPcs, GraphStatuses,
            TerminalStatuses, CompletedStatuses, LeaseableStatuses, CancellableStatuses,
            RetryableStatuses, Row, J, P, Idle
  <2>3. CASE thread[o].stage \notin {"discovering", "parsing"}
    <3>1. /\ Goto(o, "work")
           /\ thread[o].stage = "importing"
           /\ SetRow(J(o), [row[J(o)] EXCEPT !.status = "importing", !.discarding = FALSE])
      BY <1>16, <2>3, <2>0 DEF WriteStatus
    <3> QED
      BY <2>0, <2>3, <3>1, <1>a, <1>b, <1>c, <1>d, <1>e DEF At, Goto, SetRow, RowGuarantee,
            ResultKnown, PastGraph, Synced, Own, Holds, SettledPcs, GraphStatuses,
            TerminalStatuses, CompletedStatuses, LeaseableStatuses, CancellableStatuses,
            RetryableStatuses, Row, J, P, Idle
  <2> QED
    BY <2>1, <2>2, <2>3
<1>17. CASE ImportChunks(o)
  BY <1>17, <1>a, <1>b, <1>c, <1>d, <1>e DEF ImportChunks, At, SetRow, RowGuarantee,
        ResultKnown, PastGraph, Synced, Own, Holds, SettledPcs, GraphStatuses,
        TerminalStatuses, CompletedStatuses, LeaseableStatuses, CancellableStatuses,
        RetryableStatuses, Row, J, P, Idle
<1>18. CASE NothingToImport(o)
  BY <1>18, <1>a, <1>b, <1>c, <1>d, <1>e DEF NothingToImport, At, RowGuarantee,
        ResultKnown, PastGraph, Synced, Own, Holds, SettledPcs, GraphStatuses,
        TerminalStatuses, CompletedStatuses, LeaseableStatuses, CancellableStatuses,
        RetryableStatuses, Row, J, P, Idle
<1>19. CASE RunRaises(o)
  BY <1>19, <1>a, <1>b, <1>c, <1>d, <1>e DEF RunRaises, Close, NewThread, RowGuarantee,
        ResultKnown, PastGraph, Synced, Own, Holds, SettledPcs, GraphStatuses,
        TerminalStatuses, CompletedStatuses, LeaseableStatuses, CancellableStatuses,
        RetryableStatuses, Row, J, P, Idle
<1>20. CASE SkipGraph(o)
  BY <1>20, <1>a, <1>b, <1>c, <1>d, <1>e DEF SkipGraph, At, SetRow, RowGuarantee,
        ResultKnown, PastGraph, Synced, Own, Holds, SettledPcs, GraphStatuses,
        TerminalStatuses, CompletedStatuses, LeaseableStatuses, CancellableStatuses,
        RetryableStatuses, Row, J, P, Idle
<1>21. CASE BeginGraph(o)
  BY <1>21, <1>a, <1>b, <1>c, <1>d, <1>e DEF BeginGraph, At, Goto, SetRow, RowGuarantee,
        ResultKnown, PastGraph, Synced, Own, Holds, SettledPcs, GraphStatuses,
        TerminalStatuses, CompletedStatuses, LeaseableStatuses, CancellableStatuses,
        RetryableStatuses, Row, J, P, Idle
<1>22. CASE SyncGraph(o)
  BY <1>22, <1>a, <1>b, <1>c, <1>d, <1>e DEF SyncGraph, At, SetRow, RowGuarantee,
        ResultKnown, PastGraph, Synced, Own, Holds, SettledPcs, GraphStatuses,
        TerminalStatuses, CompletedStatuses, LeaseableStatuses, CancellableStatuses,
        RetryableStatuses, Row, J, P, Idle
<1>23. CASE BeginFinish(o)
  BY <1>23, <1>a, <1>b, <1>c, <1>d, <1>e DEF BeginFinish, At, Goto, RowGuarantee,
        ResultKnown, PastGraph, Synced, Own, Holds, SettledPcs, GraphStatuses,
        TerminalStatuses, CompletedStatuses, LeaseableStatuses, CancellableStatuses,
        RetryableStatuses, Row, J, P, Idle
<1>24. CASE Prepare(o)
  BY <1>24, <1>a, <1>b, <1>c, <1>d, <1>e DEF Prepare, Goto, SourceRetry, RowGuarantee,
        ResultKnown, PastGraph, Synced, Own, Holds, SettledPcs, GraphStatuses,
        TerminalStatuses, CompletedStatuses, LeaseableStatuses, CancellableStatuses,
        RetryableStatuses, Row, J, P, Idle
<1>25. CASE ClearWorkspace(o)
  <2>0. thread[o].kind \in {"runner", "graph"}
    BY <1>25 DEF ClearWorkspace
  <2>1. CASE thread[o].stage = "tidy" /\ thread[o].pc = "deleted"
    <3>1. /\ Close(o, "release", FALSE)
           /\ Holds(o)
           /\ SetRow(J(o), [row[J(o)] EXCEPT !.ws = FALSE])
      BY <1>25, <2>1 DEF ClearWorkspace
    <3> QED
      BY <2>0, <2>1, <3>1, <1>a, <1>b, <1>c, <1>d, <1>e DEF Close, SetRow, NewThread,
            RowGuarantee, ResultKnown, PastGraph, Synced, Own, Holds, SettledPcs,
            GraphStatuses, TerminalStatuses, CompletedStatuses, LeaseableStatuses,
            CancellableStatuses, RetryableStatuses, Row, J, P, Idle
  <2>2. CASE thread[o].stage = "tidy" /\ thread[o].pc # "deleted"
    <3>1. /\ Close(o, "release", FALSE)
           /\ thread[o].pc = "kept"
           /\ row' = row
      BY <1>25, <2>2 DEF ClearWorkspace
    <3> QED
      BY <2>0, <2>2, <3>1, <1>a, <1>b, <1>c, <1>d, <1>e DEF Close, NewThread, RowGuarantee,
            ResultKnown, PastGraph, Synced, Own, Holds, SettledPcs, GraphStatuses,
            TerminalStatuses, CompletedStatuses, LeaseableStatuses, CancellableStatuses,
            RetryableStatuses, Row, J, P, Idle
  <2>3. CASE thread[o].stage # "tidy" /\ thread[o].pc = "deleted"
    <3>1. /\ Goto(o, "final")
           /\ Holds(o)
           /\ SetRow(J(o), [row[J(o)] EXCEPT !.ws = FALSE])
      BY <1>25, <2>3 DEF ClearWorkspace
    <3> QED
      BY <2>0, <2>3, <3>1, <1>a, <1>b, <1>c, <1>d, <1>e DEF Goto, SetRow, RowGuarantee,
            ResultKnown, PastGraph, Synced, Own, Holds, SettledPcs, GraphStatuses,
            TerminalStatuses, CompletedStatuses, LeaseableStatuses, CancellableStatuses,
            RetryableStatuses, Row, J, P, Idle
  <2>4. CASE thread[o].stage # "tidy" /\ thread[o].pc # "deleted"
    <3>1. /\ Goto(o, "final")
           /\ thread[o].pc = "kept"
           /\ row' = row
      BY <1>25, <2>4 DEF ClearWorkspace
    <3> QED
      BY <2>0, <2>4, <3>1, <1>a, <1>b, <1>c, <1>d, <1>e DEF Goto, RowGuarantee,
            ResultKnown, PastGraph, Synced, Own, Holds, SettledPcs, GraphStatuses,
            TerminalStatuses, CompletedStatuses, LeaseableStatuses, CancellableStatuses,
            RetryableStatuses, Row, J, P, Idle
  <2> QED
    BY <2>1, <2>2, <2>3, <2>4
<1>26. CASE Finish(o)
  BY <1>26, <1>a, <1>b, <1>c, <1>d, <1>e DEF Finish, At, Close, SetRow, SourceRetry,
        NewThread, RowGuarantee, ResultKnown, PastGraph, Synced, Own, Holds, SettledPcs,
        GraphStatuses, TerminalStatuses, CompletedStatuses, LeaseableStatuses,
        CancellableStatuses, RetryableStatuses, Row, J, P, Idle
<1>27. CASE MarkCancelled(o)
  BY <1>27, <1>a, <1>b, <1>c, <1>d, <1>e DEF MarkCancelled, At, Close, SetRow, NewThread,
        RowGuarantee, ResultKnown, PastGraph, Synced, Own, Holds, SettledPcs,
        GraphStatuses, TerminalStatuses, CompletedStatuses, LeaseableStatuses,
        CancellableStatuses, RetryableStatuses, Row, J, P, Idle
<1>28. CASE MarkFailed(o)
  BY <1>28, <1>a, <1>b, <1>c, <1>d, <1>e DEF MarkFailed, At, Close, SetRow, NewThread,
        RowGuarantee, ResultKnown, PastGraph, Synced, Own, Holds, SettledPcs,
        GraphStatuses, TerminalStatuses, CompletedStatuses, LeaseableStatuses,
        CancellableStatuses, RetryableStatuses, Row, J, P, Idle
<1>29. CASE Tidy(o)
  <2>0. At(o, "runner", "tidy") /\ row' = row
    BY <1>29 DEF Tidy
  <2>1. CASE \E pc \in {"delete", "prune"} :
               thread' = [thread EXCEPT ![o].pc = pc, ![o].stage = "tidy"]
    BY <2>0, <2>1, <1>a, <1>b, <1>c, <1>d, <1>e DEF At, RowGuarantee,
          ResultKnown, PastGraph, Synced, Own, Holds, SettledPcs, GraphStatuses,
          TerminalStatuses, CompletedStatuses, LeaseableStatuses, CancellableStatuses,
          RetryableStatuses, Row, J, P, Idle
  <2>2. CASE \E lost : Close(o, "release", lost)
    BY <2>0, <2>2, <1>a, <1>b, <1>c, <1>d, <1>e DEF At, Close, NewThread, RowGuarantee,
          ResultKnown, PastGraph, Synced, Own, Holds, SettledPcs, GraphStatuses,
          TerminalStatuses, CompletedStatuses, LeaseableStatuses, CancellableStatuses,
          RetryableStatuses, Row, J, P, Idle
  <2> QED
    BY <1>29, <2>1, <2>2 DEF Tidy
<1>30. CASE LoseLease(o)
  BY <1>30, <1>a, <1>b, <1>c, <1>d, <1>e DEF LoseLease, Close, NewThread, RowGuarantee,
        ResultKnown, PastGraph, Synced, Own, Holds, SettledPcs, GraphStatuses,
        TerminalStatuses, CompletedStatuses, LeaseableStatuses, CancellableStatuses,
        RetryableStatuses, Row, J, P, Idle
<1>31. CASE Release(o)
  <2>0. thread[o].kind \in {"runner", "graph"} /\ thread[o].pc = "release"
    BY <1>31 DEF Release
  <2>1. CASE thread[o].kind = "graph"
    <3>1. /\ Stop(o)
           /\ SetRow(J(o), Released(row[J(o)], o))
      BY <1>31, <2>1 DEF Release
    <3> QED
      BY <2>0, <2>1, <3>1, <1>a, <1>b, <1>c, <1>d, <1>e DEF Stop, SetRow, Released,
            RowGuarantee, ResultKnown, PastGraph, Synced, Own, Holds, SettledPcs,
            GraphStatuses, TerminalStatuses, CompletedStatuses, LeaseableStatuses,
            CancellableStatuses, RetryableStatuses, Row, J, P, Idle
  <2>2. CASE thread[o].kind # "graph"
    <3>1. /\ Goto(o, "exit")
           /\ SetRow(J(o), Released(row[J(o)], o))
      BY <1>31, <2>2 DEF Release
    <3> QED
      BY <2>0, <2>2, <3>1, <1>a, <1>b, <1>c, <1>d, <1>e DEF Goto, SetRow, Released,
            RowGuarantee, ResultKnown, PastGraph, Synced, Own, Holds, SettledPcs,
            GraphStatuses, TerminalStatuses, CompletedStatuses, LeaseableStatuses,
            CancellableStatuses, RetryableStatuses, Row, J, P, Idle
  <2> QED
    BY <2>1, <2>2
<1>32. CASE Deregister(o)
  BY <1>32, <1>a, <1>b, <1>c, <1>d, <1>e DEF Deregister, At, NewThread, RowGuarantee,
        ResultKnown, PastGraph, Synced, Own, Holds, SettledPcs, GraphStatuses,
        TerminalStatuses, CompletedStatuses, LeaseableStatuses, CancellableStatuses,
        RetryableStatuses, Row, J, P, Idle
<1>33. CASE HandOver(o)
  <2> DEFINE queued == row[J(o)].status = "queued" /\ ~row[J(o)].cancel
  <2>0. At(o, "retry", "handed")
    BY <1>33 DEF HandOver
  <2>1. CASE ~queued
    <3>1. /\ Stop(o)
           /\ SetRow(J(o), Released(row[J(o)], o))
      BY <1>33, <2>1 DEF HandOver
    <3> QED
      BY <2>0, <2>1, <3>1, <1>a, <1>b, <1>c, <1>d, <1>e DEF At, Stop, SetRow, Released,
            RowGuarantee, ResultKnown, PastGraph, Synced, Own, Holds, SettledPcs,
            GraphStatuses, TerminalStatuses, CompletedStatuses, LeaseableStatuses,
            CancellableStatuses, RetryableStatuses, Row, J, P, Idle
  <2>2. CASE queued
    <3>1. /\ StartRunner(P(o), J(o), o)
           /\ row' = row
      BY <1>33, <2>2 DEF HandOver
    <3> QED
      BY <2>0, <2>2, <3>1, <1>a, <1>b, <1>c, <1>d, <1>e DEF At, StartRunner, NewThread,
            RowGuarantee, ResultKnown, PastGraph, Synced, Own, Holds, SettledPcs,
            GraphStatuses, TerminalStatuses, CompletedStatuses, LeaseableStatuses,
            CancellableStatuses, RetryableStatuses, Row, J, P, Idle
  <2> QED
    BY <2>1, <2>2
<1>34. CASE Resubmit(o)
  <2> DEFINE again == /\ CanSubmit(P(o), J(o))
                      /\ thread[o].lost \/ row[J(o)].status = "queued"
  <2>0. At(o, "runner", "resubmit")
    BY <1>34 DEF Resubmit
  <2>1. CASE again
    <3>1. /\ Submit(P(o), J(o), o, thread[o].lost)
           /\ CanSubmit(P(o), J(o))
      BY <1>34, <2>1 DEF Resubmit
    <3> QED
      BY <2>0, <2>1, <3>1, <1>a, <1>b, <1>c, <1>d, <1>e DEF At, SetRow, Leased,
            StartRunner, Submit, CanSubmit, CanAcquire, NewThread, RowGuarantee,
            ResultKnown, PastGraph, Synced, Own, Holds, SettledPcs, GraphStatuses,
            TerminalStatuses, CompletedStatuses, LeaseableStatuses, CancellableStatuses,
            RetryableStatuses, Row, J, P, Idle
  <2>2. CASE ~again
    <3>1. /\ Stop(o)
           /\ row' = row
      BY <1>34, <2>2 DEF Resubmit
    <3> QED
      BY <2>0, <2>2, <3>1, <1>a, <1>b, <1>c, <1>d, <1>e DEF At, Stop, RowGuarantee,
            ResultKnown, PastGraph, Synced, Own, Holds, SettledPcs, GraphStatuses,
            TerminalStatuses, CompletedStatuses, LeaseableStatuses, CancellableStatuses,
            RetryableStatuses, Row, J, P, Idle
  <2> QED
    BY <2>1, <2>2
<1>35. CASE ClaimRetry(o)
  <2> DEFINE open == /\ row[J(o)].status \in RetryableStatuses
                     /\ ~row[J(o)].discarding /\ SlotFree
  <2>0. At(o, "retry", "claim")
    BY <1>35 DEF ClaimRetry
  <2>1. CASE open
    <3>1. /\ SetRow(J(o), [Leased(row[J(o)], o) EXCEPT !.status = "queued", !.cancel = FALSE])
           /\ Goto(o, "resume")
           /\ ~row[J(o)].discarding
      BY <1>35, <2>1 DEF ClaimRetry
    <3> QED
      BY <2>0, <2>1, <3>1, <1>a, <1>b, <1>c, <1>d, <1>e DEF At, Goto, SetRow, Leased,
            RowGuarantee, ResultKnown, PastGraph, Synced, Own, Holds, SettledPcs,
            GraphStatuses, TerminalStatuses, CompletedStatuses, LeaseableStatuses,
            CancellableStatuses, RetryableStatuses, Row, J, P, Idle
  <2>2. CASE ~open
    <3>1. /\ Stop(o)
           /\ row' = row
      BY <1>35, <2>2 DEF ClaimRetry
    <3> QED
      BY <2>0, <2>2, <3>1, <1>a, <1>b, <1>c, <1>d, <1>e DEF At, Stop, RowGuarantee,
            ResultKnown, PastGraph, Synced, Own, Holds, SettledPcs, GraphStatuses,
            TerminalStatuses, CompletedStatuses, LeaseableStatuses, CancellableStatuses,
            RetryableStatuses, Row, J, P, Idle
  <2> QED
    BY <2>1, <2>2
<1>36. CASE ResumeRetry(o)
  <2>0. At(o, "retry", "resume")
    BY <1>36 DEF ResumeRetry
  <2>1. CASE Holds(o)
    <3>1. /\ SetRow(J(o), [row[J(o)] EXCEPT !.failed = FALSE])
           /\ StartRunner(P(o), J(o), o)
      BY <1>36, <2>1 DEF ResumeRetry
    <3> QED
      BY <2>0, <2>1, <3>1, <1>a, <1>b, <1>c, <1>d, <1>e DEF At, SetRow, StartRunner,
            NewThread, RowGuarantee, ResultKnown, PastGraph, Synced, Own, Holds,
            SettledPcs, GraphStatuses, TerminalStatuses, CompletedStatuses,
            LeaseableStatuses, CancellableStatuses, RetryableStatuses, Row, J, P, Idle
  <2>2. CASE ~Holds(o)
    <3>1. /\ Stop(o)
           /\ SetRow(J(o), Released(row[J(o)], o))
      BY <1>36, <2>2 DEF ResumeRetry
    <3> QED
      BY <2>0, <2>2, <3>1, <1>a, <1>b, <1>c, <1>d, <1>e DEF At, Stop, SetRow, Released,
            RowGuarantee, ResultKnown, PastGraph, Synced, Own, Holds, SettledPcs,
            GraphStatuses, TerminalStatuses, CompletedStatuses, LeaseableStatuses,
            CancellableStatuses, RetryableStatuses, Row, J, P, Idle
  <2> QED
    BY <2>1, <2>2
<1>37. CASE ResumeFails(o)
  BY <1>37, <1>a, <1>b, <1>c, <1>d, <1>e DEF ResumeFails, At, Stop, SetRow, Released,
        RowGuarantee, ResultKnown, PastGraph, Synced, Own, Holds, SettledPcs,
        GraphStatuses, TerminalStatuses, CompletedStatuses, LeaseableStatuses,
        CancellableStatuses, RetryableStatuses, Row, J, P, Idle
<1>38. CASE RetryGraph(o)
  BY <1>38, <1>a, <1>b, <1>c, <1>d, <1>e DEF RetryGraph, At, SetRow, RowGuarantee,
        ResultKnown, PastGraph, Synced, Own, Holds, SettledPcs, GraphStatuses,
        TerminalStatuses, CompletedStatuses, LeaseableStatuses, CancellableStatuses,
        RetryableStatuses, Row, J, P, Idle
<1>39. CASE FinishGraph(o)
  BY <1>39, <1>a, <1>b, <1>c, <1>d, <1>e DEF FinishGraph, At, Close, SetRow, NewThread,
        RowGuarantee, ResultKnown, PastGraph, Synced, Own, Holds, SettledPcs,
        GraphStatuses, TerminalStatuses, CompletedStatuses, LeaseableStatuses,
        CancellableStatuses, RetryableStatuses, Row, J, P, Idle
<1>40. CASE EndDiscard(o)
  BY <1>40, <1>a, <1>b, <1>c, <1>d, <1>e DEF EndDiscard, Stop, SetRow, Released,
        RowGuarantee, ResultKnown, PastGraph, Synced, Own, Holds, SettledPcs,
        GraphStatuses, TerminalStatuses, CompletedStatuses, LeaseableStatuses,
        CancellableStatuses, RetryableStatuses, Row, J, P, Idle
<1>41. CASE RenewalReads(o)
  BY <1>41, <1>a, <1>b, <1>c, <1>d, <1>e DEF RenewalReads, RowGuarantee, ResultKnown,
        PastGraph, Synced, Own, Holds, SettledPcs, GraphStatuses, TerminalStatuses,
        CompletedStatuses, LeaseableStatuses, CancellableStatuses, RetryableStatuses, Row,
        J, P, Idle
<1>42. CASE RenewalCancels(o)
  BY <1>42, <1>a, <1>b, <1>c, <1>d, <1>e DEF RenewalCancels, SetRow, CancelRequested,
        RowGuarantee, ResultKnown, PastGraph, Synced, Own, Holds, SettledPcs,
        GraphStatuses, TerminalStatuses, CompletedStatuses, LeaseableStatuses,
        CancellableStatuses, RetryableStatuses, Row, J, P, Idle
<1>43. CASE RenewalFails(o)
  BY <1>43, <1>a, <1>b, <1>c, <1>d, <1>e DEF RenewalFails, At, NewThread, RowGuarantee,
        ResultKnown, PastGraph, Synced, Own, Holds, SettledPcs, GraphStatuses,
        TerminalStatuses, CompletedStatuses, LeaseableStatuses, CancellableStatuses,
        RetryableStatuses, Row, J, P, Idle
<1>44. CASE OpenUpload(o)
  BY <1>44, <1>a, <1>b, <1>c, <1>d, <1>e DEF OpenUpload, Goto, RowGuarantee,
        ResultKnown, PastGraph, Synced, Own, Holds, SettledPcs, GraphStatuses,
        TerminalStatuses, CompletedStatuses, LeaseableStatuses, CancellableStatuses,
        RetryableStatuses, Row, J, P, Idle
<1>45. CASE Extract(o)
  <2>0. At(o, "runner", "extract") /\ row' = row
    BY <1>45 DEF Extract
  <2>1. CASE thread' = thread
    BY <2>0, <2>1, <1>a, <1>b, <1>c, <1>d, <1>e DEF At, RowGuarantee,
          ResultKnown, PastGraph, Synced, Own, Holds, SettledPcs, GraphStatuses,
          TerminalStatuses, CompletedStatuses, LeaseableStatuses, CancellableStatuses,
          RetryableStatuses, Row, J, P, Idle
  <2>2. CASE Goto(o, "check")
    BY <2>0, <2>2, <1>a, <1>b, <1>c, <1>d, <1>e DEF At, Goto, RowGuarantee,
          ResultKnown, PastGraph, Synced, Own, Holds, SettledPcs, GraphStatuses,
          TerminalStatuses, CompletedStatuses, LeaseableStatuses, CancellableStatuses,
          RetryableStatuses, Row, J, P, Idle
  <2> QED
    BY <1>45, <2>1, <2>2 DEF Extract
<1>46. CASE PruneExtraction(o)
  <2>0. thread[o].pc = "prune" /\ row' = row
    BY <1>46 DEF PruneExtraction
  <2>1. CASE thread[o].stage = "tidy"
    <3>1. Close(o, "release", FALSE)
      BY <1>46, <2>1 DEF PruneExtraction
    <3> QED
      BY <2>0, <3>1, <1>a, <1>b, <1>c, <1>d, <1>e DEF Close, NewThread, RowGuarantee,
            ResultKnown, PastGraph, Synced, Own, Holds, SettledPcs, GraphStatuses,
            TerminalStatuses, CompletedStatuses, LeaseableStatuses, CancellableStatuses,
            RetryableStatuses, Row, J, P, Idle
  <2>2. CASE thread[o].stage # "tidy"
    <3>1. Goto(o, "final")
      BY <1>46, <2>2 DEF PruneExtraction
    <3> QED
      BY <2>0, <2>2, <3>1, <1>a, <1>b, <1>c, <1>d, <1>e DEF Goto, RowGuarantee,
            ResultKnown, PastGraph, Synced, Own, Holds, SettledPcs, GraphStatuses,
            TerminalStatuses, CompletedStatuses, LeaseableStatuses, CancellableStatuses,
            RetryableStatuses, Row, J, P, Idle
  <2> QED
    BY <2>1, <2>2
<1> QED
  BY <1>1, <1>2, <1>3, <1>4, <1>5, <1>6, <1>7, <1>8, <1>9, <1>10, <1>11, <1>12, <1>13,
     <1>14, <1>15, <1>16, <1>17, <1>18, <1>19, <1>20, <1>21, <1>22, <1>23, <1>24, <1>25,
     <1>26, <1>27, <1>28, <1>29, <1>30, <1>31, <1>32, <1>33, <1>34, <1>35, <1>36, <1>37,
     <1>38, <1>39, <1>40, <1>41, <1>42, <1>43, <1>44, <1>45, <1>46
  DEF ThreadStep, RenewalStep

(* What becomes of the bytes written under a lease. *)
LEMMA HeldSteps ==
    ASSUME files \in [Jobs -> Content], NEW j \in Jobs
    PROVE  /\ files'[j] = files[j] => (Held(j)' <=> Held(j))
           /\ files'[j] = NoFiles => ~Held(j)'
           /\ RemovePart(j) \/ Prune(j)
                 => /\ \A k \in Jobs : k # j => files'[k] = files[k]
                    /\ Held(j)' => Held(j)
<1>1. files'[j] = files[j] => (Held(j)' <=> Held(j))
  BY DEF Held
<1>2. files'[j] = NoFiles => ~Held(j)'
  BY DEF Held, NoFiles
<1>3. ASSUME NEW gone, files' = [files EXCEPT ![j] = Emptied(@, gone)]
      PROVE  /\ \A k \in Jobs : k # j => files'[k] = files[k]
             /\ Held(j)' => Held(j)
  <2>1. files'[j] = Emptied(files[j], gone)
    BY <1>3
  <2>2. \A place \in Places :
           files'[j][place] = IF place \in gone THEN "nothing" ELSE files[j][place]
    BY <2>1 DEF Emptied
  <2>3. Held(j)' => Held(j)
    BY <2>2 DEF Held
  <2> QED
    BY <1>3, <2>3
<1>4. RemovePart(j) \/ Prune(j) => \E gone : files' = [files EXCEPT ![j] = Emptied(@, gone)]
  BY DEF RemovePart, Prune
<1> QED
  BY <1>1, <1>2, <1>3, <1>4

LEMMA FilesGuaranteed ==
    ASSUME IInv, NEW o \in Owners, ThreadStep(o) \/ RenewalStep(o)
    PROVE  FilesGuarantee(o)
<1>1. J(o) \in Jobs /\ files \in [Jobs -> Content]
  BY StepOfThread, ThreadPlace DEF IInv, TypeOK
<1>2. \A j \in Jobs : /\ files'[j] = files[j] => (Held(j)' <=> Held(j))
                      /\ files'[j] = NoFiles => ~Held(j)'
  BY <1>1, HeldSteps
<1>3. ASSUME NEW place \in Places, Write(o, place), Writing(o)
      PROVE  FilesGuarantee(o)
  <2>1. \A j \in Jobs : j # J(o) => files'[j] = files[j]
    BY <1>1, <1>3 DEF Write
  <2>2. CASE Holds(o)
    BY <1>2, <1>3, <2>1, <2>2 DEF FilesGuarantee, Holds, Own
  <2>3. CASE ~Holds(o)
    <3>1. files' = [files EXCEPT ![J(o)][place] = "late"]
      BY <1>3, <2>3 DEF Write
    <3>2. \A p \in Places : files'[J(o)][p] = "held" => files[J(o)][p] = "held"
      BY <1>1, <3>1 DEF Content
    <3> QED
      BY <1>2, <2>1, <3>2 DEF FilesGuarantee, Held
  <2> QED
    BY <2>2, <2>3
<1>4. CASE RemovePart(J(o)) \/ Prune(J(o))
  <2>1. /\ \A k \in Jobs : k # J(o) => files'[k] = files[k]
        /\ \A j \in Jobs : j = J(o) => (Held(j)' => Held(j))
    BY <1>1, <1>4, HeldSteps
  <2> QED
    BY <1>2, <2>1 DEF FilesGuarantee
<1>5. CASE files' = [files EXCEPT ![J(o)] = NoFiles]
  BY <1>1, <1>2, <1>5 DEF FilesGuarantee
<1>6. CASE files' = files
  BY <1>2, <1>6 DEF FilesGuarantee
<1>7. CASE OpenUpload(o)
  BY <1>3, <1>7 DEF OpenUpload, Writing, Places
<1>8. CASE Extract(o)
  BY <1>3, <1>6, <1>8 DEF Extract, Writing, Places, At
<1>9. \/ OpenUpload(o) \/ Extract(o) \/ files' = files
      \/ RemovePart(J(o)) \/ Prune(J(o)) \/ files' = [files EXCEPT ![J(o)] = NoFiles]
  BY DEF ThreadStep, RenewalStep, UploadChunk, UploadFails, UploadQueued, UploadUnleased,
         UploadSubmit, UploadAbort, UploadDropped, UploadKept, ExpireRead, ExpireDeleted,
         ExpireKept, DeleteWorkspace, DeleteFails, RunStart, CheckCancelled, WriteStatus,
         ImportChunks, NothingToImport, RunRaises, SkipGraph, BeginGraph, SyncGraph,
         BeginFinish, Prepare, PruneExtraction, ClearWorkspace, Finish, MarkCancelled,
         MarkFailed, Tidy, LoseLease, Release, Deregister, HandOver, Resubmit, ClaimRetry,
         ResumeRetry, ResumeFails, RetryGraph, FinishGraph, EndDiscard, RenewalReads,
         RenewalCancels, RenewalFails, EndExpire
<1> QED
  BY <1>4, <1>5, <1>6, <1>7, <1>8, <1>9

-----------------------------------------------------------------------------
(* Every step of a thread keeps the invariants, by what it may do. *)

LEMMA ThreadStepLease ==
    ASSUME IInv, NEW o \in Owners, ThreadStep(o) \/ RenewalStep(o)
    PROVE  LeaseOK'
<1>1. ThreadGuarantee(o) /\ RowGuarantee(o) /\ thread[o] # Idle
  BY ThreadGuaranteed, RowGuaranteed, StepOfThread
<1>2. J(o) \in Jobs
  BY <1>1, ThreadPlace DEF IInv, TypeOK
<1>3. SUFFICES ASSUME NEW j \in Jobs, NEW q \in Owners, row'[j].owner = q, thread'[q] # Idle
               PROVE  thread'[q].job = j
  BY DEF LeaseOK, J
<1>4. thread[q] # Idle /\ thread'[q].job = J(q)
  <2>1. CASE q = o
    BY <1>1, <1>3, <2>1 DEF ThreadGuarantee
  <2>2. CASE q # o
    <3>1. CASE thread'[q] = thread[q]
      BY <1>3, <3>1 DEF J
    <3>2. CASE At(q, "retry", "pending") /\ thread'[q] = [thread[q] EXCEPT !.pc = "handed"]
      BY <3>2, HandedEffect DEF IInv, TypeOK
    <3> QED
      BY <1>1, <1>3, <2>2, <3>1, <3>2 DEF ThreadGuarantee
  <2> QED
    BY <2>1, <2>2
<1>5. CASE j # J(o)
  <2>1. row[j].owner = q
    BY <1>1, <1>3, <1>5 DEF RowGuarantee
  <2> QED
    BY <1>4, <2>1 DEF IInv, LeaseOK
<1>6. CASE j = J(o)
  <2>1. q # NoOne
    BY NoOneAssumption
  <2>2. row[j].owner = q \/ q = o
    BY <1>1, <1>3, <1>6, <2>1 DEF RowGuarantee
  <2>3. CASE row[j].owner = q
    BY <1>4, <2>3 DEF IInv, LeaseOK
  <2>4. CASE q = o
    BY <1>4, <1>6, <2>4
  <2> QED
    BY <2>2, <2>3, <2>4
<1> QED
  BY <1>5, <1>6

LEMMA ThreadStepDiscard ==
    ASSUME IInv, NEW o \in Owners, ThreadStep(o) \/ RenewalStep(o)
    PROVE  DiscardOK'
<1>1. ThreadGuarantee(o) /\ RowGuarantee(o) /\ thread[o] # Idle
  BY ThreadGuaranteed, RowGuaranteed, StepOfThread
<1>2. \A q \in Owners :
        thread[q] = Idle \/ thread[q].kind = "discard"
            => thread'[q] = Idle \/ thread'[q].kind = "discard"
  <2>1. SUFFICES ASSUME NEW q \in Owners, thread[q] = Idle \/ thread[q].kind = "discard",
                        thread'[q] # Idle
                 PROVE  thread'[q].kind = "discard"
    OBVIOUS
  <2>2. CASE q = o
    BY <1>1, <2>1, <2>2 DEF ThreadGuarantee
  <2>3. CASE q # o
    <3>1. ~At(q, "retry", "pending")
      BY <2>1 DEF At, Idle
    <3> QED
      BY <1>1, <2>1, <2>3, <3>1 DEF ThreadGuarantee
  <2> QED
    BY <2>2, <2>3
<1>3. \A j \in Jobs : row'[j].discarding
          => /\ row[j].discarding /\ row'[j].status \in TerminalStatuses
             /\ row'[j].owner \in {row[j].owner, NoOne}
  <2>1. SUFFICES ASSUME NEW j \in Jobs, row'[j].discarding
                 PROVE  /\ row[j].discarding /\ row'[j].status \in TerminalStatuses
                        /\ row'[j].owner \in {row[j].owner, NoOne}
    OBVIOUS
  <2>2. CASE j = J(o)
    BY <1>1, <2>1, <2>2 DEF RowGuarantee
  <2>3. CASE j # J(o)
    BY <1>1, <2>1, <2>3 DEF RowGuarantee, IInv, DiscardOK, DiscardingIsTerminal
  <2> QED
    BY <2>2, <2>3
<1>4. DiscardingIsTerminal'
  BY <1>3 DEF DiscardingIsTerminal
<1>5. DiscardClaimed'
  <2>1. SUFFICES ASSUME NEW j \in Jobs, NEW q \in Owners, row'[j].discarding, row'[j].owner = q
                 PROVE  thread'[q] = Idle \/ thread'[q].kind = "discard"
    BY DEF DiscardClaimed
  <2>2. row[j].discarding /\ row[j].owner = q
    BY <1>3, <2>1, NoOneAssumption
  <2> QED
    BY <1>2, <2>2 DEF IInv, DiscardOK, DiscardClaimed
<1> QED
  BY <1>4, <1>5 DEF DiscardOK

LEMMA ThreadStepFiles ==
    ASSUME IInv, NEW o \in Owners, ThreadStep(o) \/ RenewalStep(o)
    PROVE  FilesOK'
<1>1. ThreadGuarantee(o) /\ RowGuarantee(o) /\ FilesGuarantee(o) /\ thread[o] # Idle
  BY ThreadGuaranteed, RowGuaranteed, FilesGuaranteed, StepOfThread
<1>2. J(o) \in Jobs
  BY <1>1, ThreadPlace DEF IInv, TypeOK
<1>3. NoOrphanFiles'
  <2>1. SUFFICES ASSUME NEW j \in Jobs, ~row'[j].ws, ~row'[j].forgotten
                 PROVE  ~Held(j)'
    BY DEF NoOrphanFiles
  <2>2. CASE j # J(o)
    BY <1>1, <2>1, <2>2 DEF RowGuarantee, FilesGuarantee, IInv, FilesOK, NoOrphanFiles
  <2>3. CASE j = J(o) /\ thread[o].pc = "deleted" /\ Own(o)
    <3>1. ~Held(j)
      BY <2>3 DEF IInv, FilesOK, RemovedUnderLease
    <3>2. ~Writing(o)
      BY <2>3 DEF Writing, IInv, GraphOK, PastGraph
    <3> QED
      BY <1>1, <3>1, <3>2 DEF FilesGuarantee
  <2>4. CASE j = J(o) /\ ~(thread[o].pc = "deleted" /\ Own(o))
    <3>1. ~row[j].ws /\ ~row[j].forgotten
      BY <1>1, <2>1, <2>4 DEF RowGuarantee
    <3>2. ~Held(j)
      BY <3>1 DEF IInv, FilesOK, NoOrphanFiles
    <3>3. ~(Writing(o) /\ Own(o))
      BY <2>4, <3>1 DEF IInv, FilesOK, WritesUnderLease, WriterOK
    <3> QED
      BY <1>1, <3>2, <3>3 DEF FilesGuarantee
  <2> QED
    BY <2>2, <2>3, <2>4
<1>4. \A q \in Owners : q # o /\ (thread'[q].pc = "deleted" \/ Beginning(q)')
          => thread'[q] = thread[q] /\ J(q) \in Jobs
  <2>1. SUFFICES ASSUME NEW q \in Owners, q # o, thread'[q].pc = "deleted" \/ Beginning(q)'
                 PROVE  thread'[q] = thread[q] /\ J(q) \in Jobs
    OBVIOUS
  <2>2. thread'[q] # Idle
    BY <2>1 DEF Idle, Beginning, Writing, At
  <2>3. ~(At(q, "retry", "pending") /\ thread'[q] = [thread[q] EXCEPT !.pc = "handed"])
    BY <2>1, HandedEffect DEF IInv, TypeOK, Beginning, Writing, At
  <2>4. thread'[q] = thread[q]
    BY <1>1, <2>1, <2>2, <2>3 DEF ThreadGuarantee
  <2> QED
    BY <2>2, <2>4, ThreadPlace DEF IInv, TypeOK
<1>5. \A q \in Owners : q # o /\ J(q) = J(o) /\ row'[J(q)].owner = q => Own(q) /\ ~Own(o)
  BY <1>1, NoOneAssumption DEF RowGuarantee, Own
<1>6. \A q \in Owners : q # o /\ J(q) # J(o) /\ J(q) \in Jobs => row'[J(q)] = row[J(q)]
  BY <1>1 DEF RowGuarantee
<1>7. \A q \in Owners : q # o /\ J(q) \in Jobs /\ row'[J(q)].owner = q => Own(q)
  BY <1>5, <1>6 DEF Own
<1>8. RemovedUnderLease'
  <2>1. SUFFICES ASSUME NEW q \in Owners, thread'[q].pc = "deleted",
                        row'[thread'[q].job].owner = q
                 PROVE  \E j \in Jobs : j = thread'[q].job /\ ~Held(j)'
    BY DEF RemovedUnderLease, Own, J, Held
  <2>2. CASE q = o
    <3>1. thread'[o] # Idle
      BY <2>1, <2>2 DEF Idle
    <3>2. thread'[o].job = J(o)
      BY <1>1, <3>1 DEF ThreadGuarantee
    <3>3. thread[o].pc = "deleted" \/ files'[J(o)] = NoFiles
      BY <1>1, <2>1, <2>2, <3>1 DEF ThreadGuarantee
    <3>4. CASE thread[o].pc = "deleted"
      <4>1. Own(o)
        BY <1>1, <2>1, <2>2, <3>2, NoOneAssumption DEF RowGuarantee, Own
      <4>2. ~Held(J(o))
        BY <3>4, <4>1 DEF IInv, FilesOK, RemovedUnderLease
      <4>3. ~Writing(o)
        BY <3>4 DEF Writing, IInv, GraphOK, PastGraph
      <4> QED
        BY <1>1, <1>2, <2>2, <3>2, <4>2, <4>3 DEF FilesGuarantee
    <3>5. CASE files'[J(o)] = NoFiles
      BY <1>2, <2>2, <3>2, <3>5 DEF Held, NoFiles
    <3> QED
      BY <3>3, <3>4, <3>5
  <2>3. CASE q # o
    <3>1. thread'[q] = thread[q] /\ J(q) \in Jobs
      BY <1>4, <2>1, <2>3
    <3>2. thread[q].pc = "deleted" /\ row'[J(q)].owner = q
      BY <2>1, <3>1 DEF J
    <3>3. Own(q) /\ ~(J(q) = J(o) /\ Own(o))
      BY <1>5, <1>7, <2>3, <3>1, <3>2
    <3>4. ~Held(J(q))
      BY <3>2, <3>3 DEF IInv, FilesOK, RemovedUnderLease
    <3> QED
      BY <1>1, <3>1, <3>3, <3>4 DEF FilesGuarantee, J
  <2> QED
    BY <2>2, <2>3
<1>9. WritesUnderLease'
  <2>1. SUFFICES ASSUME NEW q \in Owners
                 PROVE  WriterOK(q)'
    BY DEF WritesUnderLease
  <2>2. CASE q = o
    BY <1>1, <2>2 DEF RowGuarantee
  <2>3. CASE q # o /\ Beginning(q)' /\ Own(q)'
    <3>1. thread'[q] = thread[q] /\ J(q) \in Jobs
      BY <1>4, <2>3
    <3>2. Beginning(q) /\ (Writing(q)' <=> Writing(q)) /\ thread'[q].job = J(q)
      BY <2>3, <3>1 DEF Beginning, Writing, At, J
    <3>3. Own(q) /\ ~(J(q) = J(o) /\ Own(o))
      BY <1>5, <1>7, <2>3, <3>1, <3>2 DEF Own, J
    <3>4. WriterOK(q)
      BY DEF IInv, FilesOK, WritesUnderLease
    <3>5. CASE J(q) # J(o)
      BY <1>6, <2>3, <3>1, <3>2, <3>3, <3>4, <3>5 DEF WriterOK, J
    <3>6. CASE J(q) = J(o)
      <4>1. /\ row'[J(q)].status \in CompletedStatuses => row[J(q)].status \in CompletedStatuses
            /\ ~row'[J(q)].ws => ~row[J(q)].ws
            /\ ~row'[J(q)].forgotten => ~row[J(q)].forgotten
        BY <1>1, <3>3, <3>6 DEF RowGuarantee
      <4> QED
        BY <2>3, <3>2, <3>3, <3>4, <4>1 DEF WriterOK, J
    <3> QED
      BY <3>5, <3>6
  <2>4. CASE q # o /\ ~(Beginning(q)' /\ Own(q)')
    BY <2>4 DEF WriterOK, Beginning
  <2> QED
    BY <2>2, <2>3, <2>4
<1> QED
  BY <1>3, <1>8, <1>9 DEF FilesOK

LEMMA ThreadStepGraph ==
    ASSUME IInv, NEW o \in Owners, ThreadStep(o) \/ RenewalStep(o)
    PROVE  GraphOK'
<1>1. ThreadGuarantee(o) /\ RowGuarantee(o) /\ thread[o] # Idle
  BY ThreadGuaranteed, RowGuaranteed, StepOfThread
<1>2. J(o) \in Jobs
  BY <1>1, ThreadPlace DEF IInv, TypeOK
<1>3. \A q \in Owners : q # o /\ thread'[q].kind \in {"graph", "runner"}
          => thread'[q] = thread[q]
  <2>1. SUFFICES ASSUME NEW q \in Owners, q # o, thread'[q].kind \in {"graph", "runner"}
                 PROVE  thread'[q] = thread[q]
    OBVIOUS
  <2>2. thread'[q] # Idle
    BY <2>1 DEF Idle
  <2>3. ~(At(q, "retry", "pending") /\ thread'[q] = [thread[q] EXCEPT !.pc = "handed"])
    BY <2>1, HandedEffect DEF IInv, TypeOK
  <2> QED
    BY <1>1, <2>1, <2>2, <2>3 DEF ThreadGuarantee
<1>4. \A q \in Owners : thread[q].kind = "runner" => J(q) \in Jobs
  BY ThreadPlace DEF IInv, TypeOK, Idle
<1>5. ASSUME NEW q \in Owners
      PROVE  ResultKnown(q)' /\ PastGraph(q)'
  <2>1. CASE q = o
    BY <1>1, <2>1 DEF ThreadGuarantee, ResultKnown, PastGraph, Idle
  <2>2. CASE q # o
    <3>1. ResultKnown(q) /\ PastGraph(q)
      BY DEF IInv, GraphOK
    <3> QED
      BY <1>3, <2>2, <3>1 DEF ResultKnown, PastGraph
  <2> QED
    BY <2>1, <2>2
<1>6. ASSUME NEW q \in Owners
      PROVE  Synced(q)'
  <2>1. SUFFICES ASSUME thread'[q].kind = "runner", thread'[q].stage = "finish",
                        row'[thread'[q].job].owner = q
                 PROVE  row'[thread'[q].job].graph # "syncing"
    BY DEF Synced, Own, J
  <2>2. Synced(q)
    BY DEF IInv, GraphOK
  <2>3. CASE q = o
    <3>1. thread'[o].job = J(o)
      BY <1>1, <2>1, <2>3 DEF ThreadGuarantee, Idle
    <3>2. CASE thread[o].kind = "runner" /\ thread[o].stage = "finish"
      <4>1. Own(o)
        BY <1>1, <2>1, <2>3, <3>1, NoOneAssumption DEF RowGuarantee, Own
      <4>2. row[J(o)].graph # "syncing"
        BY <2>2, <2>3, <3>2, <4>1 DEF Synced
      <4> QED
        BY <1>1, <2>1, <2>3, <3>1, <4>2 DEF RowGuarantee
    <3>3. CASE ~(thread[o].kind = "runner" /\ thread[o].stage = "finish")
      BY <1>1, <2>1, <2>3, <3>1, <3>3 DEF RowGuarantee
    <3> QED
      BY <3>2, <3>3
  <2>4. CASE q # o
    <3>1. thread'[q] = thread[q] /\ J(q) \in Jobs /\ row'[J(q)].owner = q
      BY <1>3, <1>4, <2>1, <2>4 DEF J
    <3>2. Own(q)
      BY <1>1, <2>4, <3>1, NoOneAssumption DEF RowGuarantee, Own
    <3>3. row[J(q)].graph # "syncing"
      BY <2>1, <2>2, <3>1, <3>2 DEF Synced
    <3>4. J(q) = J(o) => ~Own(o)
      BY <2>4, <3>2 DEF Own
    <3> QED
      BY <1>1, <3>1, <3>3, <3>4 DEF RowGuarantee, J
  <2> QED
    BY <2>3, <2>4
<1>7. GraphSettledWhenCompleted'
  <2>1. SUFFICES ASSUME NEW j \in Jobs, row'[j].status \in CompletedStatuses
                 PROVE  row'[j].graph # "syncing"
    BY DEF GraphSettledWhenCompleted
  <2>2. row[j].status \in CompletedStatuses => row[j].graph # "syncing"
    BY DEF IInv, GraphOK, GraphSettledWhenCompleted
  <2> QED
    BY <1>1, <2>1, <2>2 DEF RowGuarantee
<1> QED
  BY <1>5, <1>6, <1>7 DEF GraphOK

-----------------------------------------------------------------------------
(* What requests, the recovery thread, expiring leases and crashes may do to a thread, to the
   lease, to the discard, to the files and to the graph of a job. *)

\* A thread that has just been started under a uuid nobody used.
Started(q) ==
    /\ thread[q] = Idle /\ \A j \in Jobs : row[j].owner # q
    /\ thread'[q].stage = "none" /\ thread'[q].pc # "deleted"
    /\ thread'[q].kind \in {"graph", "runner"} => thread'[q].pc \notin SettledPcs
    /\ WriterOK(q)'

Claimed(j) ==
    \E q \in Owners : row'[j].owner = q /\ Started(q) /\ thread'[q].job = j

JobGuarantee(j) ==
    /\ row'[j].owner = row[j].owner \/ Claimed(j)
    /\ row'[j].discarding =>
          /\ row'[j].status \in TerminalStatuses
          /\ \/ row[j].discarding /\ row'[j].owner = row[j].owner
             \/ Claimed(j) /\ thread'[row'[j].owner].kind = "discard"
    /\ Held(j)' => Held(j) /\ (row'[j].ws \/ row'[j].forgotten)
    /\ row[j].forgotten => row'[j].forgotten
    /\ ~row'[j].ws => \/ ~row[j].ws \/ row'[j].forgotten
                      \/ row[j].status \in CompletedStatuses
    /\ row'[j].status \in CompletedStatuses =>
          row[j].status \in CompletedStatuses /\ row'[j].graph = row[j].graph
    /\ row'[j].graph = "syncing" => row[j].graph = "syncing" \/ row'[j].owner # row[j].owner

OtherGuarantee ==
    /\ \A q \in Owners : thread'[q] = thread[q] \/ thread'[q] = Idle \/ Started(q)
    /\ \A j \in Jobs : JobGuarantee(j)

LEMMA OtherGuaranteed ==
    ASSUME IInv,
           \/ \E p \in Procs : Request(p) \/ RecoveryStep(p)
           \/ \E p \in Procs, j \in Jobs : ListRecoverable(p, j)
           \/ \E j \in Jobs : LeaseExpires(j)
           \/ \E p \in Procs : CrashRestart(p)
    PROVE  OtherGuarantee
<1>a. /\ thread \in [Owners -> Thread] /\ row \in [Jobs -> Row] /\ files \in [Jobs -> Content]
  BY DEF IInv, TypeOK
<1>b. \A j \in Jobs : row[j] \in Row
  BY <1>a
<1>c. \A j \in Jobs : row[j].discarding => row[j].status \in TerminalStatuses
  BY DEF IInv, DiscardOK, DiscardingIsTerminal
<1>d. \A j \in Jobs : /\ Held(j) => row[j].ws \/ row[j].forgotten
                      /\ files'[j] = files[j] => (Held(j)' <=> Held(j))
  BY <1>a, HeldSteps DEF IInv, FilesOK, NoOrphanFiles
<1>e. TerminalStatuses \cap LeaseableStatuses = {} /\ CompletedStatuses \subseteq TerminalStatuses
  BY DEF TerminalStatuses, LeaseableStatuses, CompletedStatuses, CancellableStatuses
<1>f. \A j \in Jobs : row'[j] = row[j] /\ files'[j] = files[j] => JobGuarantee(j)
  BY <1>c, <1>d DEF JobGuarantee
<1>g. ASSUME NEW j, NEW r, SetRow(j, r), files' = files
      PROVE  /\ j \in Jobs => row'[j] = r
             /\ \A k \in Jobs : k # j => JobGuarantee(k)
  BY <1>g, <1>a, <1>f DEF SetRow
<1>h. \A p \in Procs : scan[p].pc # "idle" => scan[p].job \in Jobs
  BY DEF IInv, TypeOK, Scan, Resting
<1>1. ASSUME NEW p \in Procs, NEW j \in Jobs, RequestCancel(p, j)
      PROVE  OtherGuarantee
  <2>1. SetRow(j, CancelRequested(row[j])) /\ files' = files /\ thread' = thread
    BY <1>1 DEF RequestCancel
  <2>2. row'[j] = CancelRequested(row[j]) /\ row[j] \in Row
    BY <2>1, <1>b, <1>g
  <2>3. ASSUME row[j].status \in CancellableStatuses
        PROVE  JobGuarantee(j)
    <3>1. row'[j] = [row[j] EXCEPT !.cancel = TRUE, !.status = "cancelling", !.discarding = FALSE]
      BY <2>2, <2>3 DEF CancelRequested
    <3>2. /\ row'[j].owner = row[j].owner /\ row'[j].ws = row[j].ws
          /\ row'[j].graph = row[j].graph /\ row'[j].status = "cancelling"
          /\ row'[j].discarding = FALSE /\ row'[j].forgotten = row[j].forgotten
      BY <2>2, <3>1 DEF Row
    <3>3. files'[j] = files[j]
      BY <2>1
    <3> QED
      BY <3>2, <3>3, <1>d DEF JobGuarantee, CompletedStatuses
  <2>4. ASSUME row[j].status \notin CancellableStatuses
        PROVE  JobGuarantee(j)
    <3>1. row'[j] = row[j]
      BY <2>2, <2>4 DEF CancelRequested
    <3>2. files'[j] = files[j]
      BY <2>1
    <3> QED
      BY <3>1, <3>2, <1>f
  <2> QED
    BY <2>1, <2>3, <2>4, <1>g DEF OtherGuarantee
<1>2. ASSUME NEW p \in Procs, NEW j \in Jobs, Poll(p, j)
      PROVE  OtherGuarantee
  BY <1>2, <1>f DEF Poll, OtherGuarantee
<1>3. ASSUME NEW p \in Procs, NEW j \in Jobs, NEW o \in Owners, CreateImport(p, j, o)
      PROVE  OtherGuarantee
  <2> DEFINE r == [Leased(AbsentRow, o) EXCEPT !.status = "uploading", !.retry = TRUE,
                                              !.ws = TRUE]
  <2>1. /\ SetRow(j, r) /\ files' = files /\ Fresh(o)
        /\ thread' = [thread EXCEPT ![o] = NewThread("upload", p, j, "open")]
        /\ row[j] = AbsentRow
    BY <1>3 DEF CreateImport
  <2>2. row'[j] = r /\ row[j] \in Row
    BY <2>1, <1>b, <1>g
  <2>3. thread'[o] = NewThread("upload", p, j, "open")
    BY <2>1, <1>a
  <2>4. Started(o) /\ thread'[o].job = j /\ thread'[o].kind = "upload"
    <3>1. row'[j].ws /\ row'[j].status \notin CompletedStatuses
      BY <2>2 DEF Leased, AbsentRow, CompletedStatuses
    <3>2. /\ thread'[o].stage = "none" /\ thread'[o].pc = "open" /\ thread'[o].kind = "upload"
          /\ thread'[o].job = j
      BY <2>3 DEF NewThread
    <3>3. WriterOK(o)'
      BY <3>1, <3>2 DEF WriterOK, J
    <3> QED
      BY <2>1, <3>1, <3>2, <3>3 DEF Started, Fresh, Unused
  <2>5. JobGuarantee(j)
    BY <2>1, <2>2, <2>4, <1>c, <1>d, <1>e
    DEF JobGuarantee, Claimed, Leased, Fresh, Unused, AbsentRow, CompletedStatuses, Row
  <2> QED
    BY <2>1, <2>4, <2>5, <1>g, <1>a DEF OtherGuarantee
<1>4. ASSUME NEW p \in Procs, NEW j \in Jobs, NEW o \in Owners, RequestRetry(p, j, o)
      PROVE  OtherGuarantee
  <2>1. /\ row' = row /\ files' = files /\ Fresh(o)
        /\ thread' = [thread EXCEPT ![o] = NewThread("retry", p, j, "claim")]
    BY <1>4 DEF RequestRetry
  <2>2. thread'[o] = NewThread("retry", p, j, "claim")
    BY <2>1, <1>a
  <2>3. Started(o)
    BY <2>1, <2>2 DEF Started, Fresh, Unused, NewThread, WriterOK, Beginning, Writing, At
  <2> QED
    BY <2>1, <2>3, <1>a, <1>f DEF OtherGuarantee
<1>5. ASSUME NEW p \in Procs, NEW j \in Jobs, NEW o \in Owners, RequestGraphRetry(p, j, o)
      PROVE  OtherGuarantee
  <2> DEFINE r == [Leased(row[j], o) EXCEPT !.status = "syncing_graph", !.graph = "syncing"]
  <2>1. /\ SetRow(j, r) /\ files' = files /\ Fresh(o)
        /\ thread' = [thread EXCEPT ![o] = NewThread("graph", p, j, "sync")]
        /\ ~row[j].discarding
    BY <1>5 DEF RequestGraphRetry
  <2>2. row'[j] = r /\ row[j] \in Row
    BY <2>1, <1>b, <1>g
  <2>3. thread'[o] = NewThread("graph", p, j, "sync")
    BY <2>1, <1>a
  <2>4. Started(o) /\ thread'[o].job = j /\ thread'[o].kind = "graph"
    BY <2>1, <2>2, <2>3
    DEF Started, Fresh, Unused, NewThread, SettledPcs, WriterOK, Beginning, Writing, At
  <2>5. JobGuarantee(j)
    BY <2>1, <2>2, <2>4, <1>c, <1>d, <1>e
    DEF JobGuarantee, Claimed, Leased, Fresh, Unused, AbsentRow, CompletedStatuses, Row
  <2> QED
    BY <2>1, <2>4, <2>5, <1>g, <1>a DEF OtherGuarantee
<1>6. ASSUME NEW p \in Procs, NEW j \in Jobs, NEW o \in Owners, RequestDiscard(p, j, o)
      PROVE  OtherGuarantee
  <2> DEFINE r == [Leased(row[j], o) EXCEPT !.discarding = TRUE]
  <2>1. /\ SetRow(j, r) /\ files' = files /\ Fresh(o)
        /\ thread' = [thread EXCEPT ![o] = NewThread("discard", p, j, "delete")]
        /\ row[j].status \in TerminalStatuses
    BY <1>6 DEF RequestDiscard
  <2>2. row'[j] = r /\ row[j] \in Row
    BY <2>1, <1>b, <1>g
  <2>3. thread'[o] = NewThread("discard", p, j, "delete")
    BY <2>1, <1>a
  <2>4. Started(o) /\ thread'[o].job = j /\ thread'[o].kind = "discard"
    BY <2>1, <2>2, <2>3
    DEF Started, Fresh, Unused, NewThread, SettledPcs, WriterOK, Beginning, Writing, At
  <2>5. JobGuarantee(j)
    BY <2>1, <2>2, <2>4, <1>c, <1>d, <1>e
    DEF JobGuarantee, Claimed, Leased, Fresh, Unused, AbsentRow, CompletedStatuses, Row
  <2> QED
    BY <2>1, <2>4, <2>5, <1>g, <1>a DEF OtherGuarantee
<1>7. ASSUME NEW p \in Procs, NEW o \in Owners, ExpireUpload(p, o)
      PROVE  OtherGuarantee
  <2>0. PICK j \in Jobs : j = scan[p].job
    BY <1>7, <1>h DEF ExpireUpload
  <2> USE <2>0
  <2>1. j \in Jobs /\ files' = files
    BY <1>7, <1>h DEF ExpireUpload
  <2>2. CASE CanAcquire(j)
    <3>1. /\ SetRow(j, Leased(row[j], o)) /\ Fresh(o)
          /\ thread' = [thread EXCEPT ![o] = NewThread("expire", p, j, "read")]
      BY <1>7, <2>2 DEF ExpireUpload
    <3>2. row'[j] = Leased(row[j], o) /\ row[j] \in Row
      BY <2>1, <3>1, <1>b, <1>g
    <3>3. thread'[o] = NewThread("expire", p, j, "read")
      BY <3>1, <1>a
    <3>4. Started(o) /\ thread'[o].job = j /\ thread'[o].kind = "expire"
      BY <3>1, <3>3 DEF Started, Fresh, Unused, NewThread, WriterOK, Beginning, Writing, At
    <3>5. JobGuarantee(j)
      BY <2>1, <2>2, <3>1, <3>2, <3>4, <1>c, <1>d, <1>e
      DEF JobGuarantee, Claimed, Leased, CanAcquire, Row
    <3> QED
      BY <2>1, <3>1, <3>4, <3>5, <1>g, <1>a DEF OtherGuarantee
  <2>3. CASE ~CanAcquire(j)
    BY <1>7, <2>3, <1>f DEF ExpireUpload, OtherGuarantee
  <2> QED
    BY <2>2, <2>3
<1>8. ASSUME NEW p \in Procs, NEW o \in Owners, Recover(p, o)
      PROVE  OtherGuarantee
  <2>0. PICK j \in Jobs : j = scan[p].job
    BY <1>8, <1>h DEF Recover
  <2> USE <2>0
  <2>1. j \in Jobs /\ Fresh(o) /\ files' = files
    BY <1>8, <1>h DEF Recover
  <2>2. \/ UNCHANGED <<row, thread>>
        \/ /\ CanAcquire(j) /\ SetRow(j, Leased(row[j], o))
           /\ thread' = [thread EXCEPT ![o] = NewThread("graph", p, j, "sync")]
        \/ CanSubmit(p, j) /\ Submit(p, j, o, TRUE)
    BY <1>8 DEF Recover
  <2>3. CASE UNCHANGED <<row, thread>>
    BY <2>1, <2>3, <1>f DEF OtherGuarantee
  <2>4. ASSUME NEW r, NEW kind \in {"graph", "runner"}, NEW pc \in {"sync", "start"},
               SetRow(j, r), CanAcquire(j),
               \/ r = Leased(row[j], o)
               \/ r = [Leased(row[j], o) EXCEPT !.status = "queued"],
               thread' = [thread EXCEPT ![o] = NewThread(kind, p, j, pc)]
        PROVE  OtherGuarantee
    <3>1. row'[j] = r /\ row[j] \in Row
      BY <2>1, <2>4, <1>b, <1>g
    <3>2. thread'[o] = NewThread(kind, p, j, pc)
      BY <2>4, <1>a
    <3>3. /\ row'[j].owner = o /\ row'[j].ws = row[j].ws /\ row'[j].graph = row[j].graph
          /\ row'[j].discarding = row[j].discarding
          /\ row'[j].forgotten = row[j].forgotten
          /\ row'[j].status \in LeaseableStatuses /\ row[j].status \in LeaseableStatuses
      BY <2>4, <3>1 DEF Leased, Row, CanAcquire, LeaseableStatuses, CancellableStatuses
    <3>4. Started(o) /\ thread'[o].job = j
      <4>1. /\ thread'[o].job = j /\ thread'[o].stage = "none"
            /\ thread'[o].kind \in {"graph", "runner"} /\ thread'[o].pc \in {"sync", "start"}
        BY <3>2, <2>4 DEF NewThread
      <4>2. WriterOK(o)'
        BY <3>3, <4>1, <1>e DEF WriterOK, Writing, J
      <4> QED
        BY <2>1, <4>1, <4>2 DEF Started, Fresh, Unused, SettledPcs
    <3>5. JobGuarantee(j)
      BY <2>1, <3>3, <3>4, <1>c, <1>d, <1>e DEF JobGuarantee, Claimed
    <3> QED
      BY <2>1, <2>4, <3>4, <3>5, <1>g, <1>a DEF OtherGuarantee
  <2>5. CASE CanSubmit(p, j) /\ Submit(p, j, o, TRUE)
    <3>1. thread' = [thread EXCEPT ![o] = NewThread("runner", p, j, "start")]
      BY <2>5 DEF CanSubmit, Submit, StartRunner
    <3>2. SetRow(j, [Leased(row[j], o) EXCEPT !.status = "queued"])
      BY <2>5 DEF Submit
    <3>3. CanAcquire(j)
      BY <2>5 DEF CanSubmit
    <3> QED
      BY <2>4, <3>1, <3>2, <3>3
  <2> QED
    BY <2>2, <2>3, <2>4, <2>5
<1>9. ASSUME NEW p \in Procs, RecoverCancelled(p) \/ RecoverFailed(p)
      PROVE  OtherGuarantee
  <2>0. PICK j \in Jobs : j = scan[p].job
    BY <1>9, <1>h DEF RecoverCancelled, RecoverFailed
  <2> USE <2>0
  <2>1. j \in Jobs /\ thread' = thread /\ files' = files
    BY <1>9, <1>h DEF RecoverCancelled, RecoverFailed
  <2>2. PICK r : /\ SetRow(j, r)
                 /\ \/ r = row[j]
                    \/ r = [row[j] EXCEPT !.status = "cancelled", !.discarding = FALSE,
                                          !.retry = TRUE]
                    \/ r = [row[j] EXCEPT !.status = "failed", !.discarding = FALSE]
    BY <1>9 DEF RecoverCancelled, RecoverFailed
  <2>3. row'[j] = r /\ row[j] \in Row
    BY <2>1, <2>2, <1>b, <1>g
  <2>4. JobGuarantee(j)
    BY <2>1, <2>2, <2>3, <1>c, <1>d DEF JobGuarantee, CompletedStatuses, Row
  <2> QED
    BY <2>1, <2>2, <2>4, <1>g DEF OtherGuarantee
<1>10. ASSUME NEW p \in Procs, NEW j \in Jobs, ListRecoverable(p, j)
       PROVE  OtherGuarantee
  BY <1>10, <1>f DEF ListRecoverable, OtherGuarantee
<1>11. ASSUME NEW j \in Jobs, LeaseExpires(j)
       PROVE  OtherGuarantee
  <2>1. thread' = thread /\ files' = files /\ SetRow(j, [row[j] EXCEPT !.live = FALSE])
    BY <1>11 DEF LeaseExpires
  <2>2. row'[j] = [row[j] EXCEPT !.live = FALSE] /\ row[j] \in Row
    BY <2>1, <1>b, <1>g
  <2>3. JobGuarantee(j)
    BY <2>1, <2>2, <1>c, <1>d DEF JobGuarantee, Row
  <2> QED
    BY <2>1, <2>3, <1>g DEF OtherGuarantee
<1>12. ASSUME NEW p \in Procs, CrashRestart(p)
       PROVE  OtherGuarantee
  <2>1. \A q \in Owners : thread'[q] = thread[q] \/ thread'[q] = Idle
    BY <1>12 DEF CrashRestart
  <2>2. PICK cleaned \in SUBSET {j \in Jobs : Removable(row[j])} :
          /\ row' = [j \in Jobs |-> IF j \in cleaned THEN [row[j] EXCEPT !.ws = FALSE]
                                    ELSE row[j]]
          /\ files' = [j \in Jobs |-> IF j \in cleaned THEN NoFiles ELSE files[j]]
    BY <1>12 DEF CrashRestart
  <2>3. ASSUME NEW j \in Jobs, j \notin cleaned
        PROVE  JobGuarantee(j)
    BY <2>2, <2>3, <1>a, <1>f
  <2>4. ASSUME NEW j \in Jobs, j \in cleaned
        PROVE  JobGuarantee(j)
    <3>1. /\ row'[j] = [row[j] EXCEPT !.ws = FALSE] /\ files'[j] = NoFiles /\ row[j] \in Row
          /\ row[j].status \in CompletedStatuses
      BY <2>2, <2>4, <1>b DEF Removable
    <3>2. ~Held(j)'
      BY <3>1, <1>a, HeldSteps
    <3> QED
      BY <3>1, <3>2, <1>c DEF JobGuarantee, Row
  <2> QED
    BY <2>1, <2>3, <2>4 DEF OtherGuarantee
<1>13. ASSUME NEW p \in Procs, RecoverTidies(p)
       PROVE  OtherGuarantee
  BY <1>13, <1>f DEF RecoverTidies, OtherGuarantee
<1>14. ASSUME NEW p \in Procs, RecoverPrunes(p) \/ RecoverRemoves(p)
       PROVE  OtherGuarantee
  <2>0. PICK j \in Jobs : j = scan[p].job
    BY <1>14, <1>h DEF RecoverPrunes, RecoverRemoves
  <2> USE <2>0
  <2>1. j \in Jobs /\ thread' = thread /\ row' = row
    BY <1>14, <1>h DEF RecoverPrunes, RecoverRemoves
  <2>2. /\ \A k \in Jobs : k # j => files'[k] = files[k]
        /\ Held(j)' => Held(j)
    <3>1. CASE RemovePart(j) \/ Prune(j)
      BY <2>1, <3>1, <1>a, HeldSteps
    <3>2. CASE files' = [files EXCEPT ![j] = NoFiles]
      <4>1. files'[j] = NoFiles /\ \A k \in Jobs : k # j => files'[k] = files[k]
        BY <2>1, <3>2, <1>a
      <4> QED
        BY <2>1, <4>1, <1>a, HeldSteps
    <3> QED
      BY <1>14, <3>1, <3>2 DEF RecoverPrunes, RecoverRemoves
  <2>3. JobGuarantee(j)
    BY <2>1, <2>2, <1>c, <1>d DEF JobGuarantee
  <2> QED
    BY <2>1, <2>2, <2>3, <1>f DEF OtherGuarantee
<1>15. ASSUME NEW p \in Procs, RecoverForgets(p)
       PROVE  OtherGuarantee
  <2>0. PICK j \in Jobs : j = scan[p].job
    BY <1>15, <1>h DEF RecoverForgets
  <2> USE <2>0
  <2>1. j \in Jobs /\ thread' = thread /\ files' = files
    BY <1>15, <1>h DEF RecoverForgets
  <2>2. \/ SetRow(j, row[j])
        \/ SetRow(j, [row[j] EXCEPT !.ws = FALSE, !.forgotten = TRUE])
    BY <1>15 DEF RecoverForgets
  <2>3. \/ row'[j] = row[j]
        \/ row'[j] = [row[j] EXCEPT !.ws = FALSE, !.forgotten = TRUE]
    BY <2>1, <2>2, <1>g
  <2>4. row[j] \in Row
    BY <2>1, <1>b
  <2>5. JobGuarantee(j)
    BY <2>1, <2>3, <2>4, <1>c, <1>d DEF JobGuarantee, Row
  <2> QED
    BY <2>1, <2>2, <2>5, <1>g DEF OtherGuarantee
<1> QED
  BY <1>1, <1>2, <1>3, <1>4, <1>5, <1>6, <1>7, <1>8, <1>9, <1>10, <1>11, <1>12, <1>13, <1>14,
     <1>15
  DEF Request, RecoveryStep

LEMMA OtherStepKeeps ==
    ASSUME IInv, OtherGuarantee
    PROVE  LeaseOK' /\ DiscardOK' /\ FilesOK' /\ GraphOK'
<1>1. \A q \in Owners : thread'[q] # Idle =>
          \/ thread'[q] = thread[q]
          \/ Started(q)
  BY DEF OtherGuarantee
<1>2. \A j \in Jobs, q \in Owners : row'[j].owner = q =>
          \/ row[j].owner = q /\ ~Started(q)
          \/ Started(q) /\ thread'[q].job = j /\ row'[j].owner # row[j].owner
  BY DEF OtherGuarantee, JobGuarantee, Claimed, Started
<1>3. \A q \in Owners : thread[q] # Idle => J(q) \in Jobs
  BY ThreadPlace DEF IInv, TypeOK
<1>4. LeaseOK'
  <2>1. SUFFICES ASSUME NEW j \in Jobs, NEW q \in Owners, row'[j].owner = q, thread'[q] # Idle
                 PROVE  thread'[q].job = j
    BY DEF LeaseOK, J
  <2>2. CASE Started(q)
    BY <1>2, <2>1, <2>2
  <2>3. CASE ~Started(q)
    <3>1. thread'[q] = thread[q] /\ row[j].owner = q
      BY <1>1, <1>2, <2>1, <2>3
    <3> QED
      BY <2>1, <3>1 DEF IInv, LeaseOK, J
  <2> QED
    BY <2>2, <2>3
<1>5. DiscardingIsTerminal'
  BY DEF OtherGuarantee, JobGuarantee, DiscardingIsTerminal
<1>6. DiscardClaimed'
  <2>1. SUFFICES ASSUME NEW j \in Jobs, NEW q \in Owners, row'[j].discarding, row'[j].owner = q,
                        thread'[q] # Idle
                 PROVE  thread'[q].kind = "discard"
    BY DEF DiscardClaimed
  <2>2. CASE Started(q)
    BY <1>2, <2>1, <2>2 DEF OtherGuarantee, JobGuarantee
  <2>3. CASE ~Started(q)
    <3>1. thread'[q] = thread[q] /\ row[j].owner = q
      BY <1>1, <1>2, <2>1, <2>3
    <3>2. row[j].discarding
      BY <2>1, <2>3 DEF OtherGuarantee, JobGuarantee, Claimed
    <3> QED
      BY <2>1, <3>1, <3>2 DEF IInv, DiscardOK, DiscardClaimed
  <2> QED
    BY <2>2, <2>3
<1>7. NoOrphanFiles'
  BY DEF OtherGuarantee, JobGuarantee, NoOrphanFiles
<1>8. RemovedUnderLease'
  <2>1. SUFFICES ASSUME NEW q \in Owners, thread'[q].pc = "deleted",
                        row'[thread'[q].job].owner = q
                 PROVE  \E j \in Jobs : j = thread'[q].job /\ ~Held(j)'
    BY DEF RemovedUnderLease, Own, J, Held
  <2>2. thread'[q] = thread[q] /\ ~Started(q) /\ thread[q] # Idle
    BY <1>1, <2>1 DEF Started, Idle
  <2>3. row[J(q)].owner = q /\ J(q) \in Jobs
    BY <1>2, <1>3, <2>1, <2>2 DEF J
  <2>4. ~Held(J(q))
    BY <2>1, <2>2, <2>3 DEF IInv, FilesOK, RemovedUnderLease, Own
  <2>5. \A j \in Jobs : Held(j)' => Held(j)
    BY DEF OtherGuarantee, JobGuarantee
  <2> QED
    BY <2>2, <2>3, <2>4, <2>5 DEF J
<1>9. WritesUnderLease'
  <2>1. SUFFICES ASSUME NEW q \in Owners
                 PROVE  WriterOK(q)'
    BY DEF WritesUnderLease
  <2>2. CASE Started(q)
    BY <2>2 DEF Started
  <2>3. CASE ~Started(q) /\ Beginning(q)' /\ Own(q)'
    <3>1. thread'[q] = thread[q] /\ thread[q] # Idle
      BY <1>1, <2>3 DEF Idle, Beginning, Writing, At
    <3>2. Beginning(q) /\ (Writing(q)' <=> Writing(q)) /\ thread'[q].job = J(q)
      BY <2>3, <3>1 DEF Beginning, Writing, At, J
    <3>3. row[J(q)].owner = q /\ J(q) \in Jobs
      BY <1>2, <1>3, <2>3, <3>1, <3>2 DEF Own, J
    <3>4. WriterOK(q) /\ Own(q)
      BY <3>3 DEF IInv, FilesOK, WritesUnderLease, Own
    <3>5. JobGuarantee(J(q))
      BY <3>3 DEF OtherGuarantee
    <3> QED
      BY <3>2, <3>4, <3>5 DEF WriterOK, JobGuarantee, J
  <2>4. CASE ~(Beginning(q)' /\ Own(q)')
    BY <2>4 DEF WriterOK, Beginning
  <2> QED
    BY <2>2, <2>3, <2>4
<1>10. ASSUME NEW q \in Owners
       PROVE  ResultKnown(q)' /\ PastGraph(q)'
  <2>1. CASE thread'[q] = thread[q]
    <3>1. ResultKnown(q) /\ PastGraph(q)
      BY DEF IInv, GraphOK
    <3> QED
      BY <2>1, <3>1 DEF ResultKnown, PastGraph
  <2>2. CASE thread'[q] = Idle
    BY <2>2 DEF ResultKnown, PastGraph, Idle
  <2>3. CASE Started(q)
    BY <2>3 DEF ResultKnown, PastGraph, Started, SettledPcs
  <2> QED
    BY <2>1, <2>2, <2>3 DEF OtherGuarantee
<1>11. ASSUME NEW q \in Owners
       PROVE  Synced(q)'
  <2>1. SUFFICES ASSUME thread'[q].kind = "runner", thread'[q].stage = "finish",
                        row'[thread'[q].job].owner = q
                 PROVE  row'[thread'[q].job].graph # "syncing"
    BY DEF Synced, Own, J
  <2>2. thread'[q] = thread[q] /\ ~Started(q) /\ thread[q] # Idle
    BY <1>1, <2>1 DEF Started, Idle
  <2>3. row[J(q)].owner = q /\ J(q) \in Jobs /\ row'[J(q)].owner = q
    BY <1>2, <1>3, <2>1, <2>2 DEF J
  <2>4. row[J(q)].graph # "syncing"
    BY <2>1, <2>2, <2>3 DEF IInv, GraphOK, Synced, Own
  <2> QED
    BY <2>2, <2>3, <2>4 DEF OtherGuarantee, JobGuarantee, J
<1>12. GraphSettledWhenCompleted'
  BY DEF OtherGuarantee, JobGuarantee, IInv, GraphOK, GraphSettledWhenCompleted
<1> QED
  BY <1>4, <1>5, <1>6, <1>7, <1>8, <1>9, <1>10, <1>11, <1>12 DEF DiscardOK, FilesOK, GraphOK

-----------------------------------------------------------------------------
(* The registries keep describing the threads. *)

LEMMA RegistryFrame ==
    ASSUME RegistryOK, UNCHANGED <<reg, pend>>, \A q \in Owners : RegistrySame(q)
    PROVE  RegistryOK'
<1>1. \A q \in Owners : Registered(q)' \/ At(q, "retry", "pending")'
          => P(q)' = P(q) /\ J(q)' = J(q)
  BY DEF RegistrySame, Registered, At, Idle, P, J
<1>2. \A q \in Owners : /\ Registered(q)' <=> Registered(q)
                        /\ At(q, "retry", "pending")' <=> At(q, "retry", "pending")
  BY DEF RegistrySame
<1> QED
  BY <1>1, <1>2 DEF RegistryOK, PendingHasThread

LEMMA StartRunnerRegistry ==
    ASSUME TypeOK, RegistryOK, NEW p \in Procs, NEW j \in Jobs, NEW o \in Owners,
           ~Registered(o), ~At(o, "retry", "pending"), StartRunner(p, j, o)
    PROVE  RegistryOK'
<1>1. /\ \A q \in Owners : q # o =>
            thread'[q] = IF reg[p][j] # NoOne /\ q = pend[p][j] THEN Idle ELSE thread[q]
      /\ thread'[o] = IF reg[p][j] = NoOne THEN NewThread("runner", p, j, "start")
                      ELSE NewThread("retry", p, j, "pending")
  BY StartEffect DEF TypeOK
<1>2. \A q \in Owners : Registered(q) \/ At(q, "retry", "pending")
          => P(q) \in Procs /\ J(q) \in Jobs /\ thread[q] # Idle
  BY ThreadPlace DEF TypeOK, Registered, At, Idle
<1>3. o # NoOne
  BY NoOneAssumption
<1>4. CASE reg[p][j] = NoOne
  <2>1. /\ reg' = [reg EXCEPT ![p][j] = o] /\ pend' = pend
        /\ \A q \in Owners : q # o => thread'[q] = thread[q]
    BY <1>1, <1>4 DEF StartRunner
  <2>2. /\ Registered(o)' /\ P(o)' = p /\ J(o)' = j /\ ~At(o, "retry", "pending")'
    BY <1>1, <1>4 DEF Registered, NewThread, P, J, At, RunnerPcs
  <2>3. \A q \in Owners : q # o => /\ Registered(q)' <=> Registered(q)
                                   /\ At(q, "retry", "pending")' <=> At(q, "retry", "pending")
                                   /\ P(q)' = P(q) /\ J(q)' = J(q)
    BY <2>1 DEF Registered, At, P, J
  <2>4. \A a \in Procs, b \in Jobs :
            reg'[a][b] = IF a = p /\ b = j THEN o ELSE reg[a][b]
    BY <2>1 DEF TypeOK
  <2>5. \A q \in Owners : Registered(q)' => reg'[P(q)'][J(q)'] = q
    BY <1>2, <1>4, <2>2, <2>3, <2>4, NoOneAssumption DEF RegistryOK
  <2>6. \A a \in Procs, b \in Jobs, q \in Owners :
            reg'[a][b] = q => Registered(q)' /\ P(q)' = a /\ J(q)' = b
    BY <2>2, <2>3, <2>4 DEF RegistryOK
  <2>7. \A a \in Procs, b \in Jobs, q \in Owners :
            pend'[a][b] = q => At(q, "retry", "pending")' /\ P(q)' = a /\ J(q)' = b
    BY <2>1, <2>3 DEF RegistryOK
  <2>8. PendingHasThread'
    BY <1>3, <2>1, <2>4 DEF RegistryOK, PendingHasThread
  <2> QED
    BY <2>5, <2>6, <2>7, <2>8 DEF RegistryOK
<1>5. CASE reg[p][j] # NoOne
  <2>1. /\ pend' = [pend EXCEPT ![p][j] = o] /\ reg' = reg
        /\ \A q \in Owners : q # o => thread'[q] = IF q = pend[p][j] THEN Idle ELSE thread[q]
    BY <1>1, <1>5 DEF StartRunner
  <2>2. ~Registered(o)' /\ P(o)' = p /\ J(o)' = j /\ At(o, "retry", "pending")'
    BY <1>1, <1>5 DEF Registered, NewThread, P, J, At
  <2>3. \A q \in Owners : q # o /\ q # pend[p][j] =>
            /\ Registered(q)' <=> Registered(q)
            /\ At(q, "retry", "pending")' <=> At(q, "retry", "pending")
            /\ P(q)' = P(q) /\ J(q)' = J(q)
    BY <2>1 DEF Registered, At, P, J
  <2>4. \A q \in Owners : q = pend[p][j] =>
            /\ ~Registered(q) /\ q # o /\ ~Registered(q)' /\ P(q) = p /\ J(q) = j
    BY <2>1 DEF RegistryOK, Registered, At, Idle
  <2>5. \A a \in Procs, b \in Jobs :
            pend'[a][b] = IF a = p /\ b = j THEN o ELSE pend[a][b]
    BY <2>1 DEF TypeOK
  <2>6. \A q \in Owners : Registered(q)' => reg'[P(q)'][J(q)'] = q
    BY <2>1, <2>2, <2>3, <2>4 DEF RegistryOK
  <2>7. \A a \in Procs, b \in Jobs, q \in Owners :
            reg'[a][b] = q => Registered(q)' /\ P(q)' = a /\ J(q)' = b
    BY <2>1, <2>2, <2>3, <2>4 DEF RegistryOK
  <2>8. \A a \in Procs, b \in Jobs, q \in Owners :
            pend'[a][b] = q => At(q, "retry", "pending")' /\ P(q)' = a /\ J(q)' = b
    BY <2>2, <2>3, <2>4, <2>5 DEF RegistryOK
  <2>9. PendingHasThread'
    BY <1>5, <2>1, <2>5 DEF RegistryOK, PendingHasThread
  <2> QED
    BY <2>6, <2>7, <2>8, <2>9 DEF RegistryOK
<1> QED
  BY <1>4, <1>5

LEMMA DeregisterRegistry ==
    ASSUME TypeOK, RegistryOK, NEW o \in Owners, Deregister(o)
    PROVE  RegistryOK'
<1> DEFINE p == P(o)
           j == J(o)
           next == pend[p][j]
<1>1. At(o, "runner", "exit") /\ Registered(o) /\ reg[p][j] = o /\ p \in Procs /\ j \in Jobs
  <2>1. At(o, "runner", "exit")
    BY DEF Deregister
  <2>2. Registered(o) /\ thread[o] # Idle
    BY <2>1 DEF Registered, At, RunnerPcs, Idle
  <2> QED
    BY <2>1, <2>2, ThreadPlace DEF RegistryOK, TypeOK
<1>2. /\ reg' = [reg EXCEPT ![p][j] = NoOne] /\ pend' = [pend EXCEPT ![p][j] = NoOne]
  BY <1>1 DEF Deregister
<1>3. /\ \A a \in Procs, b \in Jobs : reg'[a][b] = IF a = p /\ b = j THEN NoOne ELSE reg[a][b]
      /\ \A a \in Procs, b \in Jobs : pend'[a][b] = IF a = p /\ b = j THEN NoOne ELSE pend[a][b]
  BY <1>1, <1>2 DEF TypeOK
<1>4. ~Registered(o)' /\ ~At(o, "retry", "pending")'
  BY DEF Deregister, Registered, At, Idle, NewThread, RunnerPcs, FencedPcs
<1>5. \A q \in Owners : q # o /\ q # next => thread'[q] = thread[q]
  BY DEF Deregister
<1>6. \A q \in Owners : q # o /\ q # next =>
          /\ Registered(q)' <=> Registered(q)
          /\ At(q, "retry", "pending")' <=> At(q, "retry", "pending")
          /\ P(q)' = P(q) /\ J(q)' = J(q)
  BY <1>5 DEF Registered, At, P, J
<1>7. \A q \in Owners : q = next =>
          /\ ~Registered(q) /\ ~Registered(q)' /\ q # o /\ P(q) = p /\ J(q) = j
  <2>1. SUFFICES ASSUME NEW q \in Owners, q = next
                 PROVE  ~Registered(q) /\ ~Registered(q)' /\ q # o /\ P(q) = p /\ J(q) = j
    OBVIOUS
  <2>2. At(q, "retry", "pending") /\ P(q) = p /\ J(q) = j
    BY <1>1, <2>1 DEF RegistryOK
  <2>3. q # o
    BY <1>1, <2>2 DEF At
  <2>4. thread'[q] = [thread[q] EXCEPT !.pc = "handed"]
    BY <2>1, <2>3 DEF Deregister
  <2>5. thread'[q].kind = "retry"
    BY <2>2, <2>4, HandedEffect DEF TypeOK
  <2> QED
    BY <2>2, <2>3, <2>5 DEF Registered, At
<1>8. \A q \in Owners : Registered(q)' =>
          q # o /\ q # next /\ Registered(q) /\ P(q)' = P(q) /\ J(q)' = J(q)
  BY <1>4, <1>6, <1>7
<1>9. \A q \in Owners : Registered(q) => P(q) \in Procs /\ J(q) \in Jobs
  BY ThreadPlace DEF TypeOK, Registered, Idle
<1>10. \A q \in Owners : Registered(q)' => reg'[P(q)'][J(q)'] = q
  <2>1. SUFFICES ASSUME NEW q \in Owners, Registered(q)'
                 PROVE  reg'[P(q)'][J(q)'] = q
    OBVIOUS
  <2>2. q # o /\ Registered(q) /\ P(q)' = P(q) /\ J(q)' = J(q) /\ P(q) \in Procs /\ J(q) \in Jobs
    BY <1>8, <1>9, <2>1
  <2>3. reg[P(q)][J(q)] = q
    BY <2>2 DEF RegistryOK
  <2> QED
    BY <1>1, <1>3, <2>2, <2>3
<1>11. \A a \in Procs, b \in Jobs, q \in Owners :
          reg'[a][b] = q => Registered(q)' /\ P(q)' = a /\ J(q)' = b
  <2>1. SUFFICES ASSUME NEW a \in Procs, NEW b \in Jobs, NEW q \in Owners, reg'[a][b] = q
                 PROVE  Registered(q)' /\ P(q)' = a /\ J(q)' = b
    OBVIOUS
  <2>2. ~(a = p /\ b = j) /\ reg[a][b] = q
    BY <1>3, <2>1, NoOneAssumption
  <2>3. Registered(q) /\ P(q) = a /\ J(q) = b
    BY <2>2 DEF RegistryOK
  <2>4. q # o /\ q # next
    BY <1>7, <2>2, <2>3
  <2> QED
    BY <1>6, <2>3, <2>4
<1>12. \A a \in Procs, b \in Jobs, q \in Owners :
          pend'[a][b] = q => At(q, "retry", "pending")' /\ P(q)' = a /\ J(q)' = b
  <2>1. SUFFICES ASSUME NEW a \in Procs, NEW b \in Jobs, NEW q \in Owners, pend'[a][b] = q
                 PROVE  At(q, "retry", "pending")' /\ P(q)' = a /\ J(q)' = b
    OBVIOUS
  <2>2. ~(a = p /\ b = j) /\ pend[a][b] = q
    BY <1>3, <2>1, NoOneAssumption
  <2>3. At(q, "retry", "pending") /\ P(q) = a /\ J(q) = b
    BY <2>2 DEF RegistryOK
  <2>4. q # o /\ q # next
    BY <1>1, <1>7, <2>2, <2>3 DEF At
  <2> QED
    BY <1>6, <2>3, <2>4
<1>13. PendingHasThread'
  BY <1>3 DEF RegistryOK, PendingHasThread
<1> QED
  BY <1>10, <1>11, <1>12, <1>13 DEF RegistryOK

LEMMA ThreadStepRegistry ==
    ASSUME IInv, NEW o \in Owners, ThreadStep(o) \/ RenewalStep(o)
    PROVE  RegistryOK'
<1>1. TypeOK /\ RegistryOK /\ thread[o] # Idle /\ J(o) \in Jobs /\ P(o) \in Procs
  BY StepOfThread, ThreadPlace DEF IInv, TypeOK
<1>2. CASE RegistryStep(o)
  <2>1. CASE Deregister(o)
    BY <1>1, <2>1, DeregisterRegistry
  <2>2. CASE UploadSubmit(o) \/ HandOver(o) \/ Resubmit(o) \/ ResumeRetry(o)
    <3>1. ~Registered(o) /\ ~At(o, "retry", "pending")
      BY <2>2
      DEF UploadSubmit, HandOver, Resubmit, ResumeRetry, Registered, At, RunnerPcs, FencedPcs
    <3>2. \/ StartRunner(P(o), J(o), o)
          \/ Stop(o) /\ UNCHANGED <<reg, pend>>
      BY <2>2 DEF UploadSubmit, HandOver, Resubmit, ResumeRetry, Submit
    <3>3. CASE StartRunner(P(o), J(o), o)
      BY <1>1, <3>1, <3>3, StartRunnerRegistry
    <3>4. CASE Stop(o) /\ UNCHANGED <<reg, pend>>
      <4>1. thread'[o] = Idle /\ \A q \in Owners : q # o => thread'[q] = thread[q]
        BY <1>1, <3>4, StopEffect DEF TypeOK
      <4>2. \A q \in Owners : RegistrySame(q)
        BY <3>1, <4>1 DEF RegistrySame, Registered, At, Idle
      <4> QED
        BY <1>1, <3>4, <4>2, RegistryFrame
    <3> QED
      BY <3>2, <3>3, <3>4
  <2> QED
    BY <1>2, <2>1, <2>2 DEF RegistryStep
<1>3. CASE ~RegistryStep(o)
  <2>1. RegistrySame(o) /\ \A q \in Owners : q # o => thread'[q] = thread[q]
    BY <1>3, ThreadGuaranteed DEF ThreadGuarantee
  <2>2. \A q \in Owners : RegistrySame(q)
    BY <2>1 DEF RegistrySame, Registered, At
  <2>3. UNCHANGED <<reg, pend>>
    BY <1>3
    DEF RegistryStep, ThreadStep, RenewalStep, OpenUpload, UploadChunk, UploadFails, UploadQueued,
         UploadUnleased, UploadAbort, UploadDropped, UploadKept, ExpireRead, ExpireDeleted,
         ExpireKept, EndExpire, DeleteWorkspace, DeleteFails, RunStart, CheckCancelled,
         WriteStatus, Extract, ImportChunks, NothingToImport, RunRaises, SkipGraph, BeginGraph,
         SyncGraph, BeginFinish, Prepare, PruneExtraction, ClearWorkspace, Finish, MarkCancelled,
         MarkFailed,
         Tidy, LoseLease, Release, ClaimRetry, ResumeFails, RetryGraph, FinishGraph,
         EndDiscard, RenewalReads, RenewalCancels, RenewalFails
  <2> QED
    BY <1>1, <2>2, <2>3, RegistryFrame
<1> QED
  BY <1>2, <1>3

(* Requests and the recovery thread start threads that are in no registry yet. *)
LEMMA OtherStepRegistry ==
    ASSUME IInv,
           \/ \E p \in Procs : Request(p) \/ RecoveryStep(p)
           \/ \E p \in Procs, j \in Jobs : ListRecoverable(p, j)
           \/ \E j \in Jobs : LeaseExpires(j)
           \/ \E p \in Procs : CrashRestart(p)
    PROVE  RegistryOK'
<1>a. TypeOK /\ RegistryOK /\ thread \in [Owners -> Thread]
  BY DEF IInv, TypeOK
<1>b. CASE UNCHANGED <<thread, reg, pend>>
  <2>1. \A q \in Owners : RegistrySame(q)
    BY <1>b DEF RegistrySame, Registered, At
  <2> QED
    BY <1>a, <1>b, <2>1, RegistryFrame
<1>c. ASSUME NEW o \in Owners, NEW p, NEW j, Fresh(o), UNCHANGED <<reg, pend>>,
             NEW kind \in {"upload", "retry", "graph", "discard", "expire"},
             NEW pc \in {"open", "claim", "sync", "delete", "read"},
             thread' = [thread EXCEPT ![o] = NewThread(kind, p, j, pc)]
      PROVE  RegistryOK'
  <2>1. /\ thread[o] = Idle /\ thread'[o] = NewThread(kind, p, j, pc)
        /\ \A q \in Owners : q # o => thread'[q] = thread[q]
    BY <1>a, <1>c DEF Fresh, Unused
  <2>2. ~Registered(o) /\ ~At(o, "retry", "pending")
    BY <2>1 DEF Registered, At, Idle
  <2>3. ~Registered(o)' /\ ~At(o, "retry", "pending")'
    BY <2>1, <1>c DEF Registered, At, NewThread
  <2>4. RegistryOK'
    <3>1. \A q \in Owners : q # o =>
              /\ Registered(q)' <=> Registered(q)
              /\ At(q, "retry", "pending")' <=> At(q, "retry", "pending")
              /\ P(q)' = P(q) /\ J(q)' = J(q)
      BY <2>1 DEF Registered, At, P, J
    <3>2. \A q \in Owners : Registered(q)' => reg'[P(q)'][J(q)'] = q
      BY <1>a, <1>c, <2>3, <3>1 DEF RegistryOK
    <3>3. \A a \in Procs, b \in Jobs, q \in Owners :
              reg'[a][b] = q => Registered(q)' /\ P(q)' = a /\ J(q)' = b
      BY <1>a, <1>c, <2>2, <3>1 DEF RegistryOK
    <3>4. \A a \in Procs, b \in Jobs, q \in Owners :
              pend'[a][b] = q => At(q, "retry", "pending")' /\ P(q)' = a /\ J(q)' = b
      BY <1>a, <1>c, <2>2, <3>1 DEF RegistryOK
    <3>5. PendingHasThread'
      BY <1>a, <1>c DEF RegistryOK, PendingHasThread
    <3> QED
      BY <3>2, <3>3, <3>4, <3>5 DEF RegistryOK
  <2> QED
    BY <2>4
<1>1. ASSUME NEW p \in Procs, Request(p)
      PROVE  RegistryOK'
  <2>1. PICK j \in Jobs :
          \/ UNCHANGED <<thread, reg, pend>>
          \/ \E o \in Owners, kind \in {"upload", "retry", "graph", "discard"},
                pc \in {"open", "claim", "sync", "delete"} :
                /\ Fresh(o) /\ UNCHANGED <<reg, pend>>
                /\ thread' = [thread EXCEPT ![o] = NewThread(kind, p, j, pc)]
    <3>1. PICK j \in Jobs :
            \/ RequestCancel(p, j) \/ Poll(p, j)
            \/ \E o \in Owners : \/ CreateImport(p, j, o) \/ RequestRetry(p, j, o)
                                 \/ RequestGraphRetry(p, j, o) \/ RequestDiscard(p, j, o)
      BY <1>1 DEF Request
    <3>2. CASE RequestCancel(p, j) \/ Poll(p, j)
      BY <3>2 DEF RequestCancel, Poll
    <3>3. CASE \E o \in Owners : CreateImport(p, j, o)
      BY <3>3 DEF CreateImport
    <3>4. CASE \E o \in Owners : RequestRetry(p, j, o)
      BY <3>4 DEF RequestRetry
    <3>5. CASE \E o \in Owners : RequestGraphRetry(p, j, o)
      BY <3>5 DEF RequestGraphRetry
    <3>6. CASE \E o \in Owners : RequestDiscard(p, j, o)
      BY <3>6 DEF RequestDiscard
    <3> QED
      BY <3>1, <3>2, <3>3, <3>4, <3>5, <3>6
  <2> QED
    BY <2>1, <1>b, <1>c
<1>2. ASSUME NEW p \in Procs, RecoveryStep(p)
      PROVE  RegistryOK'
  <2>1. ASSUME NEW o \in Owners, ExpireUpload(p, o)
        PROVE  RegistryOK'
    <3>1. CASE CanAcquire(scan[p].job)
      BY <2>1, <3>1, <1>c DEF ExpireUpload
    <3>2. CASE ~CanAcquire(scan[p].job)
      BY <2>1, <3>2, <1>b DEF ExpireUpload
    <3> QED
      BY <3>1, <3>2
  <2>2. ASSUME NEW o \in Owners, Recover(p, o)
        PROVE  RegistryOK'
    <3> DEFINE j == scan[p].job
    <3>1. Fresh(o) /\ j \in Jobs
      BY <2>2, <1>a DEF Recover, TypeOK, Scan, Resting
    <3>2. \/ UNCHANGED <<thread, reg, pend>>
          \/ /\ thread' = [thread EXCEPT ![o] = NewThread("graph", p, j, "sync")]
             /\ UNCHANGED <<reg, pend>>
          \/ StartRunner(p, j, o)
      BY <2>2 DEF Recover, Submit
    <3>3. ~Registered(o) /\ ~At(o, "retry", "pending")
      BY <3>1 DEF Fresh, Unused, Registered, At, Idle
    <3>4. CASE StartRunner(p, j, o)
      BY <1>a, <3>1, <3>3, <3>4, StartRunnerRegistry
    <3>5. CASE /\ thread' = [thread EXCEPT ![o] = NewThread("graph", p, j, "sync")]
               /\ UNCHANGED <<reg, pend>>
      BY <3>1, <3>5, <1>c
    <3> QED
      BY <3>2, <3>4, <3>5, <1>b
  <2> QED
    BY <1>2, <2>1, <2>2, <1>b
    DEF RecoveryStep, RecoverCancelled, RecoverFailed, RecoverTidies, RecoverPrunes,
        RecoverRemoves, RecoverForgets
<1>3. CASE \/ \E p \in Procs, j \in Jobs : ListRecoverable(p, j)
           \/ \E j \in Jobs : LeaseExpires(j)
  BY <1>3, <1>b DEF ListRecoverable, LeaseExpires
<1>4. ASSUME NEW p \in Procs, CrashRestart(p)
      PROVE  RegistryOK'
  <2>1. \A q \in Owners : thread'[q] = IF P(q) = p THEN Idle ELSE thread[q]
    BY <1>4 DEF CrashRestart
  <2>2. \A a \in Procs, b \in Jobs : /\ reg'[a][b] = IF a = p THEN NoOne ELSE reg[a][b]
                                     /\ pend'[a][b] = IF a = p THEN NoOne ELSE pend[a][b]
    BY <1>4, <1>a DEF CrashRestart, TypeOK
  <2>3. \A q \in Owners : P(q) = p => ~Registered(q)' /\ ~At(q, "retry", "pending")'
    BY <2>1 DEF Registered, At, Idle
  <2>4. \A q \in Owners : P(q) # p =>
            /\ Registered(q)' <=> Registered(q)
            /\ At(q, "retry", "pending")' <=> At(q, "retry", "pending")
            /\ P(q)' = P(q) /\ J(q)' = J(q)
    BY <2>1 DEF Registered, At, P, J
  <2>5. \A q \in Owners : Registered(q) => P(q) \in Procs /\ J(q) \in Jobs
    BY <1>a, ThreadPlace DEF Registered, Idle
  <2>6. \A q \in Owners : Registered(q)' => reg'[P(q)'][J(q)'] = q
    BY <1>a, <2>2, <2>3, <2>4, <2>5 DEF RegistryOK
  <2>7. \A a \in Procs, b \in Jobs, q \in Owners :
            reg'[a][b] = q => Registered(q)' /\ P(q)' = a /\ J(q)' = b
    BY <1>a, <2>2, <2>4, NoOneAssumption DEF RegistryOK
  <2>8. \A a \in Procs, b \in Jobs, q \in Owners :
            pend'[a][b] = q => At(q, "retry", "pending")' /\ P(q)' = a /\ J(q)' = b
    BY <1>a, <2>2, <2>4, NoOneAssumption DEF RegistryOK
  <2>9. PendingHasThread'
    BY <1>a, <2>2 DEF RegistryOK, PendingHasThread
  <2> QED
    BY <2>6, <2>7, <2>8, <2>9 DEF RegistryOK
<1> QED
  BY <1>1, <1>2, <1>3, <1>4

-----------------------------------------------------------------------------
(* The invariant holds initially, and every step keeps it. *)

LEMMA InvInit ==
    ASSUME Init
    PROVE  IInv
<1> USE DEF Init
<1>1. AbsentRow \in Row /\ NoFiles \in Content
  BY DEF AbsentRow, Row, GraphStatuses, NoFiles, Content
<1>2. TypeOK
  BY <1>1, BoundsAssumption DEF TypeOK, Thread, Scan
<1>3. \A o \in Owners : thread[o] = Idle /\ ~Registered(o)
  BY DEF Idle, Registered
<1>4. RegistryOK
  BY <1>3, NoOneAssumption DEF RegistryOK, PendingHasThread
<1>5. \A j \in Jobs : row[j] = AbsentRow /\ ~Held(j)
  BY DEF Held, NoFiles
<1>6. LeaseOK /\ DiscardOK
  BY <1>3, <1>5 DEF LeaseOK, DiscardOK, DiscardClaimed, DiscardingIsTerminal, AbsentRow
<1>7. FilesOK
  BY <1>3, <1>5
  DEF FilesOK, NoOrphanFiles, RemovedUnderLease, WritesUnderLease, WriterOK, Beginning,
      Writing, At, Idle
<1>8. GraphOK
  BY <1>3, <1>5
  DEF GraphOK, ResultKnown, PastGraph, Synced, GraphSettledWhenCompleted, Idle, AbsentRow
<1> QED
  BY <1>2, <1>4, <1>6, <1>7, <1>8 DEF IInv

LEMMA InvStep ==
    ASSUME IInv, [Next]_vars
    PROVE  IInv'
<1>1. ASSUME NEW o \in Owners, ThreadStep(o) \/ RenewalStep(o)
      PROVE  IInv'
  BY <1>1, ThreadStepType, ThreadStepRegistry, ThreadStepLease, ThreadStepDiscard,
     ThreadStepFiles, ThreadStepGraph
  DEF IInv
<1>2. ASSUME \/ \E p \in Procs : Request(p) \/ RecoveryStep(p)
             \/ \E p \in Procs, j \in Jobs : ListRecoverable(p, j)
             \/ \E j \in Jobs : LeaseExpires(j)
             \/ \E p \in Procs : CrashRestart(p)
      PROVE  IInv'
  <2>1. TypeOK'
    BY <1>2, RequestType, RecoveryType, FaultType DEF IInv
  <2>2. LeaseOK' /\ DiscardOK' /\ FilesOK' /\ GraphOK'
    BY <1>2, OtherGuaranteed, OtherStepKeeps
  <2> QED
    BY <1>2, <2>1, <2>2, OtherStepRegistry DEF IInv
<1>3. CASE UNCHANGED vars
  BY <1>3
  DEF vars, IInv, TypeOK, RegistryOK, PendingHasThread, LeaseOK, DiscardOK, DiscardClaimed,
      DiscardingIsTerminal, FilesOK, NoOrphanFiles, RemovedUnderLease, WritesUnderLease,
      WriterOK, Beginning, Writing, Held, GraphOK, ResultKnown, PastGraph, Synced, GraphSettledWhenCompleted, Registered, Own,
      At, J, P
<1> QED
  BY <1>1, <1>2, <1>3 DEF Next

LEMMA Invariance == Spec => []IInv
<1>1. Init => IInv
  BY InvInit
<1>2. IInv /\ [Next]_vars => IInv'
  BY InvStep
<1> QED
  BY <1>1, <1>2, PTL DEF Spec

(* Every variable keeps its type, whatever handlers, threads and faults interleave. *)
THEOREM TypeCorrect == Spec => []TypeOK
<1>1. IInv => TypeOK
  BY DEF IInv
<1> QED
  BY <1>1, Invariance, PTL

(* A process never runs two runner threads on one job: the registered runner is the only one
   (_import_threads, whoever else acquires or is handed the lease). *)
THEOREM OneRunner == Spec => []OneRunnerPerProcess
<1>1. IInv => OneRunnerPerProcess
  <2>1. SUFFICES ASSUME IInv, NEW o \in Owners, NEW q \in Owners, Registered(o), Registered(q),
                        P(o) = P(q), J(o) = J(q)
                 PROVE  o = q
    BY DEF OneRunnerPerProcess, Registered
  <2> QED
    BY <2>1 DEF IInv, RegistryOK
<1> QED
  BY <1>1, Invariance, PTL

(* A lease parked in _import_pending_leases always has a runner in front of it that will
   hand it over. *)
THEOREM ParkedBehindRunner == Spec => []PendingHasThread
<1>1. IInv => PendingHasThread
  BY DEF IInv, RegistryOK
<1> QED
  BY <1>1, Invariance, PTL

(* A job whose files are being discarded is at rest: no retry, graph retry, status write or
   recovery revives it while its phase is "discarding". *)
THEOREM DiscardExcludesWork == Spec => []DiscardingIsTerminal
<1>1. IInv => DiscardingIsTerminal
  BY DEF IInv, DiscardOK
<1> QED
  BY <1>1, Invariance, PTL

(* No directory written under a lease outlives the workspace column of its row: what is left on
   disk once the row has forgotten it was written by a handler or a runner that had lost its
   lease, or forgotten by the recovery thread, which holds none. *)
THEOREM FilesAreAccounted == Spec => []NoOrphanFiles
<1>1. IInv => NoOrphanFiles
  BY DEF IInv, FilesOK
<1> QED
  BY <1>1, Invariance, PTL

(* A completed job never shows a graph synchronization under way, whichever thread or
   recovery completed it. *)
THEOREM CompletedIsSettled == Spec => []GraphSettledWhenCompleted
<1>1. IInv => GraphSettledWhenCompleted
  BY DEF IInv, GraphOK
<1> QED
  BY <1>1, Invariance, PTL

=============================================================================
