-------------------------- MODULE ImportClaimsProofs --------------------------
(* Proofs about ImportClaims, for any jobs, runs, chunks, splits, memories, attempts and faults. *)
EXTENDS ImportClaims, TLAPS

-----------------------------------------------------------------------------
(* The inductive invariant: what the rows keep, and what each run may rely on. *)

JobsOK == job \in [Jobs -> {"active", "completed", "retryable"}] /\ cancel \in [Jobs -> BOOLEAN]
LeaseOK == lease \in [Jobs -> Runs \cup {NoOne}]
LeftOK == left \in [faults: 0..MaxFaults, requests: 0..MaxRequests]

\* Only a chunk that can be split is ever split, in its row and in its manifest.
ChunkOK ==
    /\ chunk \in [Jobs -> [Keys -> ChunkStatuses]]
    /\ \A j \in Jobs, k \in Keys : chunk[j][k] = "split" => k \in Splittable
ManifestOK ==
    /\ manifest \in [Keys -> Manifest]
    /\ \A k \in Keys : manifest[k].status = "split" => k \in Splittable

HashOK == hash \in [Hashes -> Hash] /\ SettledHashIsStored
VectorOK == vector \in [Hashes -> Keys \cup {NoOne}]

RowsOK == JobsOK /\ LeaseOK /\ LeftOK /\ ChunkOK /\ ManifestOK /\ HashOK /\ VectorOK

\* Past "next" a run has a chunk at hand.
Chunkless == {"idle", "plan", "dedup", "next"}
HasChunk(r) == run[r].pc \notin Chunkless => run[r].todo # <<>>

\* It only splits what can be split.
SplitPcs == {"split", "splithash", "splitchunk"}
SplitsSplittable(r) == run[r].pc \in SplitPcs => K(r) \in Splittable

\* From the claim to the end of the import the manifest names the job of the run.
OwnedPcs == ImportPcs \cup {"skipmark", "own", "ownrelease"}
Ours(r) == manifest[K(r)].job = J(r) /\ manifest[K(r)].status \in {"claimed", "succeeded"}
OwnsKey(r) == run[r].pc \in OwnedPcs /\ Holds(r) => Ours(r)

\* The memories it remembers or is about to settle are stored.
StoredHashes == {h \in Hashes : vector[h] # NoOne}
RemembersStored(r) ==
    /\ run[r].legacy \subseteq StoredHashes
    /\ run[r].pc = "legacy" => run[r].mark \in StoredHashes
    /\ run[r].pc \in {"effects", "redo", "settle"} => run[r].got \subseteq StoredHashes

RunOK(r) == HasChunk(r) /\ SplitsSplittable(r) /\ OwnsKey(r) /\ RemembersStored(r)

Inv == RowsOK /\ run \in [Runs -> Run] /\ \A r \in Runs : RunOK(r)

-----------------------------------------------------------------------------
(* What a run may rely on while another one steps. *)

Grows == StoredHashes \subseteq StoredHashes'
NoOtherLease(r) == \A j \in Jobs, q \in Runs \ {r} : lease'[j] = q => lease[j] = q
NoOtherKey(r) ==
    \A k \in Keys : \/ manifest'[k] = manifest[k]
                    \/ manifest[k].status \notin {"claimed", "succeeded"}
                    \/ Holds(r) /\ manifest[k].job = J(r)
OnlyRun(r) == run' \in [Runs -> Run] /\ \A q \in Runs \ {r} : run'[q] = run[q]

LEMMA IdleIsNotLive == Idle \notin Live /\ Idle \in [pc: {"idle"}, job: {NoOne}, todo: {<<>>},
      existing: {{}}, legacy: {{}}, attempt: {1}, rec: {FALSE}, want: {{}}, got: {{}}, mark: {NoOne}]
BY DEF Idle, Live, Pcs, ImportPcs, TryPcs, StorePcs

LEMMA LiveAt == ASSUME Inv, NEW r \in Runs, run[r].pc # "idle" \/ run[r] # Idle
                PROVE  run[r] \in Live /\ J(r) \in Jobs
BY IdleIsNotLive DEF Inv, Run, Live, Idle, J

LEMMA ChunkAtHand ==
    ASSUME Inv, NEW r \in Runs,
           run[r].pc \notin Chunkless \/ (run[r].pc # "idle" /\ run[r].todo # <<>>)
    PROVE  run[r].pc # "idle" /\ run[r].todo # <<>> /\ J(r) \in Jobs /\ K(r) \in Keys
           /\ Tail(run[r].todo) \in Seq(Keys)
<1>1. run[r].pc # "idle" /\ run[r] \in Live /\ J(r) \in Jobs
  BY LiveAt DEF Chunkless
<1>2. run[r].todo \in Seq(Keys) /\ run[r].todo # <<>>
  BY <1>1 DEF Inv, RunOK, HasChunk, Live
<1> QED
  BY <1>1, <1>2 DEF K

LEMMA OthersKeep ==
    ASSUME Inv, NEW r \in Runs, OnlyRun(r), Grows, NoOtherLease(r), NoOtherKey(r)
    PROVE  \A q \in Runs \ {r} : RunOK(q)'
<1> TAKE q \in Runs \ {r}
<1>1. run'[q] = run[q] /\ RunOK(q)
  BY DEF OnlyRun, Inv
<1>2. HasChunk(q)' /\ SplitsSplittable(q)'
  BY <1>1 DEF RunOK, HasChunk, SplitsSplittable, K
<1>3. RemembersStored(q)'
  BY <1>1 DEF RunOK, RemembersStored, Grows
<1>4. OwnsKey(q)'
  <2>1. SUFFICES ASSUME run[q].pc \in OwnedPcs, Holds(q)' PROVE Ours(q)'
    BY <1>1 DEF OwnsKey
  <2>2. J(q) \in Jobs /\ K(q) \in Keys
    BY <2>1, ChunkAtHand DEF OwnedPcs, ImportPcs, TryPcs, StorePcs, Chunkless
  <2>3. lease[J(q)] = q
    BY <1>1, <2>1, <2>2 DEF Holds, J, NoOtherLease
  <2>4. Ours(q)
    BY <1>1, <2>1, <2>3 DEF RunOK, OwnsKey, Holds
  <2>5. ~(Holds(r) /\ manifest[K(q)].job = J(r))
    BY <2>3, <2>4 DEF Holds, Ours
  <2>6. manifest'[K(q)] = manifest[K(q)]
    BY <2>2, <2>4, <2>5 DEF NoOtherKey, Ours
  <2> QED
    BY <1>1, <2>4, <2>6 DEF Ours, K, J
<1> QED
  BY <1>2, <1>3, <1>4 DEF RunOK

LEMMA StepKeeps ==
    ASSUME Inv, NEW r \in Runs, OnlyRun(r), RowsOK', RunOK(r)',
           Grows, NoOtherLease(r), NoOtherKey(r)
    PROVE  Inv'
BY OthersKeep DEF OnlyRun, Inv

-----------------------------------------------------------------------------
(* What a step writes. *)

Same(r) ==
    /\ run'[r].job = run[r].job /\ run'[r].todo = run[r].todo /\ run'[r].legacy = run[r].legacy

LEMMA GotoRun ==
    ASSUME Inv, NEW r \in Runs, NEW pc \in Pcs, Goto(r, pc), run[r].pc # "idle"
    PROVE  OnlyRun(r) /\ Same(r) /\ run'[r].pc = pc /\ run'[r].got = run[r].got
           /\ run'[r].mark = run[r].mark
<1>1. run[r] \in Live /\ run \in [Runs -> Run]
  BY LiveAt DEF Inv
<1>2. [run[r] EXCEPT !.pc = pc] \in Live
  BY <1>1 DEF Live
<1>3. run' = [run EXCEPT ![r] = [run[r] EXCEPT !.pc = pc]]
  BY DEF Goto
<1> QED
  BY <1>1, <1>2, <1>3 DEF OnlyRun, Same, Run, Live

LEMMA ProceedRun ==
    ASSUME Inv, NEW r \in Runs, NEW todo \in Seq(Keys), Proceed(r, todo), run[r].pc # "idle"
    PROVE  /\ OnlyRun(r) /\ run'[r].pc = "next" /\ run'[r].todo = todo
           /\ run'[r].job = run[r].job /\ run'[r].legacy = run[r].legacy
<1> DEFINE t == [Idle EXCEPT !.job = J(r), !.pc = "next", !.todo = todo,
                             !.existing = run[r].existing, !.legacy = run[r].legacy]
<1>1. run[r] \in Live /\ run \in [Runs -> Run]
  BY LiveAt DEF Inv
<1>2. J(r) \in Jobs /\ run[r].existing \in SUBSET Keys /\ run[r].legacy \in SUBSET Hashes
      /\ 1 \in 1..MaxAttempts /\ "next" \in Pcs
  BY <1>1, BoundsAssumption DEF Live, Pcs, J
<1>3. t \in Live
  BY <1>2, IdleIsNotLive DEF Live
<1>4. run' = [run EXCEPT ![r] = t]
  BY DEF Proceed
<1>5. t.pc = "next" /\ t.todo = todo /\ t.job = run[r].job /\ t.legacy = run[r].legacy
  BY IdleIsNotLive DEF J
<1> HIDE DEF t
<1> QED
  BY <1>1, <1>3, <1>4, <1>5 DEF OnlyRun, Run

LEMMA IdleRun ==
    ASSUME Inv, NEW r \in Runs, run' = [run EXCEPT ![r] = Idle]
    PROVE  OnlyRun(r) /\ run'[r] = Idle /\ RunOK(r)'
<1>1. OnlyRun(r) /\ run'[r] = Idle
  BY DEF Inv, OnlyRun, Run
<1>2. run'[r].pc = "idle" /\ run'[r].legacy = {}
  BY <1>1, IdleIsNotLive
<1> QED
  BY <1>1, <1>2 DEF RunOK, HasChunk, Chunkless, SplitsSplittable, SplitPcs, OwnsKey, OwnedPcs,
                    ImportPcs, TryPcs, StorePcs, RemembersStored

LEMMA ChunkWritten ==
    ASSUME Inv, NEW r \in Runs, NEW status \in ChunkStatuses, SetChunk(r, status),
           J(r) \in Jobs, K(r) \in Keys, status = "split" => K(r) \in Splittable
    PROVE  ChunkOK'
<1>1. ChunkOK
  BY DEF Inv, RowsOK
<1> QED
  BY <1>1 DEF SetChunk, ChunkOK

LEMMA ManifestWritten ==
    ASSUME Inv, NEW r \in Runs, NEW status \in ManifestStatuses, MarkManifest(r, status),
           Holds(r), K(r) \in Keys, status = "split" => K(r) \in Splittable
    PROVE  /\ ManifestOK' /\ NoOtherKey(r)
           /\ manifest[K(r)].job = J(r) => /\ manifest'[K(r)].job = J(r)
                                           /\ manifest'[K(r)].status = status
<1>1. ManifestOK
  BY DEF Inv, RowsOK
<1>2. manifest' \in [Keys -> Manifest]
  BY <1>1 DEF MarkManifest, ManifestOK, Manifest
<1>3. /\ \A k \in Keys \ {K(r)} : manifest'[k] = manifest[k]
      /\ manifest[K(r)].job # J(r) => manifest'[K(r)] = manifest[K(r)]
      /\ manifest[K(r)].job = J(r) => /\ manifest'[K(r)].job = J(r)
                                      /\ manifest'[K(r)].status = status
  BY <1>1 DEF MarkManifest, ManifestOK, Manifest
<1> QED
  BY <1>1, <1>2, <1>3 DEF ManifestOK, NoOtherKey

LEMMA ManifestClaimed ==
    ASSUME Inv, NEW r \in Runs, Claimable(K(r)), ClaimManifest(r), J(r) \in Jobs, K(r) \in Keys
    PROVE  /\ ManifestOK' /\ NoOtherKey(r)
           /\ manifest'[K(r)].job = J(r) /\ manifest'[K(r)].status = "claimed"
<1>1. ManifestOK
  BY DEF Inv, RowsOK
<1>2. /\ manifest' \in [Keys -> Manifest]
      /\ \A k \in Keys \ {K(r)} : manifest'[k] = manifest[k]
      /\ manifest'[K(r)].job = J(r) /\ manifest'[K(r)].status = "claimed"
  BY <1>1 DEF ClaimManifest, ManifestOK, Manifest, ManifestStatuses
<1> QED
  BY <1>1, <1>2 DEF ManifestOK, NoOtherKey, Claimable, ReclaimableStatuses

LEMMA HashesReleased ==
    ASSUME Inv, NEW r \in Runs, NEW hs, ReleaseHashes(r, hs), UNCHANGED vector PROVE HashOK'
<1>1. HashOK /\ Free \in Hash /\ Free.status = "absent"
  BY DEF Inv, RowsOK, Free, Hash
<1>2. \A h \in Hashes : hash'[h] = Free \/ hash'[h] = hash[h]
  BY DEF ReleaseHashes
<1>3. hash' \in [Hashes -> Hash]
  BY <1>1 DEF ReleaseHashes, HashOK
<1> QED
  BY <1>1, <1>2, <1>3 DEF HashOK, SettledHashIsStored

LEMMA HashesSucceeded ==
    ASSUME Inv, NEW r \in Runs, NEW hs \in SUBSET StoredHashes, SucceedHashes(r, hs),
           UNCHANGED vector
    PROVE  HashOK'
<1>1. HashOK
  BY DEF Inv, RowsOK
<1>2. \A h \in Hashes : /\ hash'[h] \in Hash
                        /\ hash'[h] = hash[h] \/ h \in hs
  BY <1>1 DEF SucceedHashes, HashOK, Hash
<1>3. hash' \in [Hashes -> Hash]
  BY <1>1, <1>2 DEF SucceedHashes
<1> QED
  BY <1>1, <1>2, <1>3 DEF HashOK, SettledHashIsStored, StoredHashes

-----------------------------------------------------------------------------
(* The step of a run: its rows, and the run itself. *)

\* Most steps write the rows of chunks, manifests and hashes only.
LEMMA RowsKeep ==
    ASSUME Inv, NEW r \in Runs, UNCHANGED <<job, cancel, lease, vector, left>>,
           UNCHANGED chunk \/ ChunkOK', UNCHANGED manifest \/ (ManifestOK' /\ NoOtherKey(r)),
           UNCHANGED hash \/ HashOK'
    PROVE  RowsOK' /\ Grows /\ NoOtherLease(r) /\ NoOtherKey(r)
<1>1. Grows /\ NoOtherLease(r) /\ NoOtherKey(r)
  BY DEF Grows, StoredHashes, NoOtherLease, NoOtherKey
<1>2. JobsOK' /\ LeaseOK' /\ LeftOK' /\ VectorOK'
  BY DEF Inv, RowsOK, JobsOK, LeaseOK, LeftOK, VectorOK
<1>3. ChunkOK' /\ ManifestOK' /\ HashOK'
  BY DEF Inv, RowsOK, ChunkOK, ManifestOK, HashOK, SettledHashIsStored
<1> QED
  BY <1>1, <1>2, <1>3 DEF RowsOK

\* A run that stays at its chunk.
LEMMA StaysOK ==
    ASSUME Inv, NEW r \in Runs, Same(r), Grows,
           run'[r].pc \notin Chunkless => run[r].todo # <<>>,
           run'[r].pc \in SplitPcs => K(r) \in Splittable,
           run'[r].pc \in OwnedPcs /\ lease'[J(r)] = r =>
               manifest'[K(r)].job = J(r) /\ manifest'[K(r)].status \in {"claimed", "succeeded"},
           run'[r].pc = "legacy" => run'[r].mark \in StoredHashes',
           run'[r].pc \in {"effects", "redo", "settle"} => run'[r].got \subseteq StoredHashes'
    PROVE  RunOK(r)'
<1>1. HasChunk(r)' /\ SplitsSplittable(r)'
  BY DEF Same, HasChunk, SplitsSplittable, K
<1>2. OwnsKey(r)'
  BY DEF Same, OwnsKey, Holds, Ours, K, J
<1>3. run[r].legacy \subseteq StoredHashes
  BY DEF Inv, RunOK, RemembersStored
<1>4. RemembersStored(r)'
  BY <1>3 DEF Same, RemembersStored, Grows
<1> QED
  BY <1>1, <1>2, <1>4 DEF RunOK

\* A run that is done with its chunk.
LEMMA ProceedOK ==
    ASSUME Inv, NEW r \in Runs, NEW todo \in Seq(Keys), Proceed(r, todo), run[r].pc # "idle", Grows
    PROVE  OnlyRun(r) /\ RunOK(r)'
<1>1. /\ OnlyRun(r) /\ run'[r].pc = "next" /\ run'[r].legacy = run[r].legacy
  BY ProceedRun
<1>2. HasChunk(r)' /\ SplitsSplittable(r)' /\ OwnsKey(r)'
  BY <1>1 DEF HasChunk, Chunkless, SplitsSplittable, SplitPcs, OwnsKey, OwnedPcs, ImportPcs, TryPcs,
              StorePcs
<1>3. run[r].legacy \subseteq StoredHashes
  BY DEF Inv, RunOK, RemembersStored
<1>4. RemembersStored(r)'
  BY <1>1, <1>3 DEF RemembersStored, Grows
<1> QED
  BY <1>1, <1>2, <1>4 DEF RunOK

\* A step that only moves a run on, within what it owns.
LEMMA MoveKeeps ==
    ASSUME Inv, NEW r \in Runs, NEW pc \in Pcs, Goto(r, pc), run[r].pc # "idle",
           RowsOK', Grows, NoOtherLease(r), NoOtherKey(r),
           pc \notin Chunkless => run[r].todo # <<>>,
           pc \in SplitPcs => K(r) \in Splittable,
           pc \in OwnedPcs /\ lease'[J(r)] = r =>
               manifest'[K(r)].job = J(r) /\ manifest'[K(r)].status \in {"claimed", "succeeded"},
           pc # "legacy",
           pc \in {"effects", "redo", "settle"} => run[r].got \subseteq StoredHashes'
    PROVE  Inv'
<1>1. OnlyRun(r) /\ Same(r) /\ run'[r].pc = pc /\ run'[r].got = run[r].got
  BY GotoRun
<1>2. RunOK(r)'
  BY <1>1, StaysOK
<1> QED
  BY <1>1, <1>2, StepKeeps

LEMMA ProceedKeeps ==
    ASSUME Inv, NEW r \in Runs, NEW todo \in Seq(Keys), Proceed(r, todo), run[r].pc # "idle",
           RowsOK', Grows, NoOtherLease(r), NoOtherKey(r)
    PROVE  Inv'
BY ProceedOK, StepKeeps

\* A step that changes the run otherwise.
LEMMA BecomesKeeps ==
    ASSUME Inv, NEW r \in Runs, NEW t \in Live, run' = [run EXCEPT ![r] = t],
           t.job = run[r].job, t.todo = run[r].todo, t.legacy = run[r].legacy,
           RowsOK', Grows, NoOtherLease(r), NoOtherKey(r),
           t.pc \notin Chunkless => run[r].todo # <<>>,
           t.pc \notin SplitPcs,
           t.pc \in OwnedPcs /\ lease'[J(r)] = r =>
               manifest'[K(r)].job = J(r) /\ manifest'[K(r)].status \in {"claimed", "succeeded"},
           t.pc = "legacy" => t.mark \in StoredHashes',
           t.pc \in {"effects", "redo", "settle"} => t.got \subseteq StoredHashes'
    PROVE  Inv'
<1>1. run' \in [Runs -> Run] /\ run'[r] = t /\ \A q \in Runs \ {r} : run'[q] = run[q]
  BY DEF Inv, Run
<1>2. OnlyRun(r) /\ Same(r)
  BY <1>1 DEF OnlyRun, Same
<1>3. RunOK(r)'
  BY <1>1, <1>2, StaysOK
<1> QED
  BY <1>2, <1>3, StepKeeps

\* A run between two chunks relies on nothing but its memory of what is stored.
LEMMA FreshKeeps ==
    ASSUME Inv, NEW r \in Runs, NEW t \in Live, run' = [run EXCEPT ![r] = t], t.pc \in Chunkless,
           t.legacy \subseteq StoredHashes', RowsOK', Grows, NoOtherLease(r), NoOtherKey(r)
    PROVE  Inv'
<1>1. run' \in [Runs -> Run] /\ run'[r] = t /\ \A q \in Runs \ {r} : run'[q] = run[q]
  BY DEF Inv, Run
<1>2. RunOK(r)'
  BY <1>1 DEF RunOK, HasChunk, Chunkless, SplitsSplittable, SplitPcs, OwnsKey, OwnedPcs, ImportPcs,
              TryPcs, StorePcs, RemembersStored
<1> QED
  BY <1>1, <1>2, StepKeeps DEF OnlyRun

LEMMA PersistedIsSplittable == ASSUME Inv, NEW j \in Jobs PROVE PersistedSplit(j) \subseteq Splittable
BY DEF Inv, RowsOK, ChunkOK, ManifestOK, PersistedSplit

-----------------------------------------------------------------------------
(* A run begins and ends. *)

LEMMA StartKeeps ==
    ASSUME Inv, NEW r \in Runs, NEW j \in Jobs, Start(r, j) PROVE Inv'
<1> DEFINE legacy == {h \in Hashes : vector[h] # NoOne}
<1> DEFINE t == [Idle EXCEPT !.job = j, !.pc = "plan", !.legacy = legacy]
<1>1. t \in Live
  <2>1. legacy \in SUBSET Hashes /\ 1 \in 1..MaxAttempts /\ "plan" \in Pcs
    BY BoundsAssumption DEF Pcs
  <2>2. {} \in SUBSET Keys /\ {} \in SUBSET Hashes /\ <<>> \in Seq(Keys)
    OBVIOUS
  <2> HIDE DEF legacy
  <2>3. /\ t \in [pc: {"plan"}, job: {j}, todo: {<<>>}, existing: {{}}, legacy: {legacy},
                  attempt: {1}, rec: {FALSE}, want: {{}}, got: {{}}, mark: {NoOne}]
    BY IdleIsNotLive
  <2> HIDE DEF t
  <2> QED
    BY <2>1, <2>2, <2>3 DEF Live
<1>2. t.pc = "plan" /\ t.legacy = StoredHashes
  BY IdleIsNotLive DEF StoredHashes
<1>3. run' = [run EXCEPT ![r] = t] /\ lease' = [lease EXCEPT ![j] = r]
      /\ UNCHANGED <<job, cancel, chunk, manifest, hash, vector, left>>
  BY DEF Start
<1> HIDE DEF t
<1>4. LeaseOK' /\ NoOtherLease(r)
  BY <1>3 DEF Inv, RowsOK, LeaseOK, NoOtherLease
<1>5. RowsOK' /\ Grows /\ NoOtherKey(r) /\ StoredHashes' = StoredHashes
  BY <1>3, <1>4 DEF Inv, RowsOK, JobsOK, LeftOK, VectorOK, ChunkOK, ManifestOK, HashOK,
                    SettledHashIsStored, Grows, StoredHashes, NoOtherKey
<1> QED
  BY <1>1, <1>2, <1>3, <1>4, <1>5, FreshKeeps DEF Chunkless

LEMMA PlanKeeps ==
    ASSUME Inv, NEW r \in Runs, Plan(r) PROVE Inv'
<1> DEFINE todo == Leaves(J(r), PersistedSplit(J(r)))
<1> DEFINE t == [run[r] EXCEPT !.pc = "dedup", !.todo = todo]
<1>1. run[r] \in Live /\ J(r) \in Jobs
  BY LiveAt DEF Plan, Fenced, At
<1>2. todo \in Seq(Keys)
  BY <1>1, PersistedIsSplittable, LeavesAssumption
<1>3. run' = [run EXCEPT ![r] = t]
  BY DEF Plan
<1> HIDE DEF todo
<1>4. t \in Live /\ t.pc = "dedup" /\ t.legacy = run[r].legacy
  BY <1>1, <1>2 DEF Live, Pcs
<1> HIDE DEF t
<1>5. RowsOK' /\ Grows /\ NoOtherLease(r) /\ NoOtherKey(r)
  BY RowsKeep DEF Plan
<1>6. t.legacy \subseteq StoredHashes'
  BY <1>4, <1>5 DEF Inv, RunOK, RemembersStored, Grows
<1> QED
  BY <1>3, <1>4, <1>5, <1>6, FreshKeeps DEF Chunkless

LEMMA DedupKeeps ==
    ASSUME Inv, NEW r \in Runs, Dedup(r) PROVE Inv'
<1> DEFINE found == {k \in ExistingKeys(J(r)) : \E i \in DOMAIN run[r].todo : run[r].todo[i] = k}
<1> DEFINE t == [run[r] EXCEPT !.pc = "next", !.existing = found]
<1>1. run[r] \in Live
  BY LiveAt DEF Dedup, Fenced, At
<1>2. found \in SUBSET Keys
  BY DEF ExistingKeys
<1>3. run' = [run EXCEPT ![r] = t]
  BY DEF Dedup
<1> HIDE DEF found
<1>4. t \in Live /\ t.pc = "next" /\ t.legacy = run[r].legacy
  BY <1>1, <1>2 DEF Live, Pcs
<1> HIDE DEF t
<1>5. RowsOK' /\ Grows /\ NoOtherLease(r) /\ NoOtherKey(r)
  BY RowsKeep DEF Dedup
<1>6. t.legacy \subseteq StoredHashes'
  BY <1>4, <1>5 DEF Inv, RunOK, RemembersStored, Grows
<1> QED
  BY <1>3, <1>4, <1>5, <1>6, FreshKeeps DEF Chunkless

\* The run of r is over; it may take its lease and the status of its job with it.
LEMMA GoneKeeps ==
    ASSUME Inv, NEW r \in Runs, run' = [run EXCEPT ![r] = Idle], JobsOK', LeftOK',
           lease' = lease \/ lease' = [lease EXCEPT ![J(r)] = NoOne],
           UNCHANGED <<chunk, manifest, hash, vector>>
    PROVE  Inv'
<1>1. OnlyRun(r) /\ RunOK(r)'
  BY IdleRun
<1>2. LeaseOK' /\ NoOtherLease(r)
  BY NoOneAssumption DEF Inv, RowsOK, LeaseOK, NoOtherLease
<1>3. RowsOK' /\ Grows /\ NoOtherKey(r)
  BY <1>2 DEF Inv, RowsOK, VectorOK, ChunkOK, ManifestOK, HashOK, SettledHashIsStored, Grows,
              StoredHashes, NoOtherKey
<1> QED
  BY <1>1, <1>2, <1>3, StepKeeps

LEMMA EndRunKeeps ==
    ASSUME Inv, NEW r \in Runs, EndRun(r) PROVE Inv'
<1>1. JobsOK' /\ LeftOK'
  BY DEF EndRun, Inv, RowsOK, JobsOK, LeftOK
<1> QED
  BY <1>1, GoneKeeps DEF EndRun

LEMMA LoseKeeps ==
    ASSUME Inv, NEW r \in Runs, Lose(r) PROVE Inv'
<1>1. JobsOK' /\ LeftOK'
  BY DEF Lose, Inv, RowsOK, JobsOK, LeftOK
<1> QED
  BY <1>1, GoneKeeps DEF Lose

\* A counter that is spent stays within its bound.
LEMMA SpendKeeps ==
    ASSUME Inv, NEW what \in {"faults", "requests"}, Spend(what) PROVE LeftOK'
BY BoundsAssumption DEF Inv, RowsOK, LeftOK, Spend

LEMMA CrashKeeps ==
    ASSUME Inv, NEW r \in Runs, Crash(r) PROVE Inv'
<1>1. JobsOK' /\ LeftOK'
  BY SpendKeeps DEF Crash, Inv, RowsOK, JobsOK
<1> QED
  BY <1>1, GoneKeeps DEF Crash

LEMMA BreakKeeps ==
    ASSUME Inv, NEW r \in Runs, Break(r) PROVE Inv'
<1>1. JobsOK' /\ LeftOK'
  BY SpendKeeps DEF Break, Inv, RowsOK, JobsOK
<1> QED
  BY <1>1, GoneKeeps DEF Break

LEMMA ExpireKeeps ==
    ASSUME Inv, NEW r \in Runs, Expire(r) PROVE Inv'
<1>1. LeaseOK' /\ LeftOK' /\ \A j \in Jobs, q \in Runs : lease'[j] = q => lease[j] = q
  BY SpendKeeps, NoOneAssumption DEF Expire, Inv, RowsOK, LeaseOK
<1>2. RowsOK' /\ Grows /\ NoOtherKey(r) /\ NoOtherLease(r)
  BY <1>1 DEF Expire, Inv, RowsOK, JobsOK, VectorOK, ChunkOK, ManifestOK, HashOK,
              SettledHashIsStored, Grows, StoredHashes, NoOtherKey, NoOtherLease
<1>3. OnlyRun(r) /\ run'[r] = run[r] /\ Same(r) /\ RunOK(r)
  BY DEF Expire, OnlyRun, Same, Inv
<1>4. UNCHANGED <<manifest, vector>> /\ J(r) \in Jobs
  BY LiveAt DEF Expire
<1>5. RunOK(r)'
  BY <1>1, <1>3, <1>4 DEF RunOK, HasChunk, SplitsSplittable, OwnsKey, Ours, Holds, RemembersStored,
                          StoredHashes, K, J
<1> QED
  BY <1>2, <1>3, <1>5, StepKeeps

-----------------------------------------------------------------------------
(* A chunk is claimed or skipped. *)

LEMMA WorkAtHand ==
    ASSUME Inv, NEW r \in Runs, HasWork(r)
    PROVE  run[r].pc = "next" /\ run[r].pc # "idle" /\ Holds(r) /\ run[r].todo # <<>>
           /\ J(r) \in Jobs /\ K(r) \in Keys /\ Tail(run[r].todo) \in Seq(Keys)
BY ChunkAtHand DEF HasWork, Fenced, At

LEMMA SkipExistingKeeps ==
    ASSUME Inv, NEW r \in Runs, SkipExisting(r) PROVE Inv'
<1>1. run[r].pc # "idle" /\ run[r].todo # <<>> /\ J(r) \in Jobs /\ K(r) \in Keys
  BY WorkAtHand DEF SkipExisting
<1>2. ChunkOK'
  BY <1>1 DEF SkipExisting, Inv, RowsOK, ChunkOK, ChunkStatuses
<1>3. RowsOK' /\ Grows /\ NoOtherLease(r) /\ NoOtherKey(r)
  BY <1>2, RowsKeep DEF SkipExisting
<1>4. ASSUME NEW pc \in {"skipclaim", "skip"}, Goto(r, pc) PROVE Inv'
  <2>1. pc \in Pcs /\ pc \notin SplitPcs /\ pc \notin OwnedPcs
        /\ pc \notin {"legacy", "effects", "redo", "settle"}
    BY <1>4 DEF Pcs, SplitPcs, OwnedPcs, ImportPcs, TryPcs, StorePcs
  <2> QED
    BY <1>1, <1>3, <1>4, <2>1, MoveKeeps
<1> QED
  BY <1>4 DEF SkipExisting

LEMMA SkipClaimKeeps ==
    ASSUME Inv, NEW r \in Runs, SkipClaim(r) PROVE Inv'
<1>1. run[r].pc # "idle" /\ run[r].todo # <<>> /\ J(r) \in Jobs /\ K(r) \in Keys
  BY ChunkAtHand DEF SkipClaim, Fenced, At, Chunkless
<1>2. CASE Claimable(K(r)) /\ ClaimManifest(r) /\ Goto(r, "skipmark")
  <2>1. /\ ManifestOK' /\ NoOtherKey(r)
        /\ manifest'[K(r)].job = J(r) /\ manifest'[K(r)].status = "claimed"
    BY <1>1, <1>2, ManifestClaimed
  <2>2. RowsOK' /\ Grows /\ NoOtherLease(r) /\ NoOtherKey(r)
    BY <2>1, RowsKeep DEF SkipClaim
  <2> QED
    BY <1>1, <1>2, <2>1, <2>2, MoveKeeps DEF Pcs, SplitPcs
<1>3. CASE ~Claimable(K(r)) /\ UNCHANGED manifest /\ Goto(r, "skip")
  <2>1. RowsOK' /\ Grows /\ NoOtherLease(r) /\ NoOtherKey(r)
    BY <1>3, RowsKeep DEF SkipClaim
  <2> QED
    BY <1>1, <1>3, <2>1, MoveKeeps DEF Pcs, SplitPcs, OwnedPcs, ImportPcs, TryPcs, StorePcs
<1> QED
  BY <1>2, <1>3 DEF SkipClaim

\* A run at a fenced step with a chunk and a claim of its own.
LEMMA OwnerAt ==
    ASSUME Inv, NEW r \in Runs, run[r].pc \in OwnedPcs
    PROVE  /\ run[r].pc # "idle" /\ run[r].todo # <<>> /\ J(r) \in Jobs /\ K(r) \in Keys
           /\ Tail(run[r].todo) \in Seq(Keys) /\ run[r] \in Live
           /\ Holds(r) => manifest[K(r)].job = J(r)
                          /\ manifest[K(r)].status \in {"claimed", "succeeded"}
<1>1. run[r].pc \notin Chunkless
  BY DEF OwnedPcs, ImportPcs, TryPcs, StorePcs, Chunkless
<1> QED
  BY <1>1, ChunkAtHand, LiveAt DEF Inv, RunOK, OwnsKey, Ours

\* It marks the manifest.
LEMMA MarkKeeps ==
    ASSUME Inv, NEW r \in Runs, NEW status \in ManifestStatuses \ {"split"}, NEW pc \in Pcs,
           run[r].pc \in OwnedPcs, Holds(r), MarkManifest(r, status), Goto(r, pc),
           UNCHANGED <<job, cancel, lease, chunk, hash, vector, left>>,
           pc \notin SplitPcs, pc \notin {"legacy", "effects", "redo", "settle"},
           pc \in OwnedPcs => status \in {"claimed", "succeeded"}
    PROVE  Inv'
<1>1. /\ run[r].pc # "idle" /\ run[r].todo # <<>> /\ J(r) \in Jobs /\ K(r) \in Keys
      /\ manifest[K(r)].job = J(r)
  BY OwnerAt
<1>2. /\ ManifestOK' /\ NoOtherKey(r)
      /\ manifest'[K(r)].job = J(r) /\ manifest'[K(r)].status = status
  BY <1>1, ManifestWritten
<1>3. RowsOK' /\ Grows /\ NoOtherLease(r) /\ NoOtherKey(r)
  BY <1>2, RowsKeep
<1> QED
  BY <1>1, <1>2, <1>3, MoveKeeps

LEMMA SkipMarkKeeps ==
    ASSUME Inv, NEW r \in Runs, SkipMark(r) PROVE Inv'
BY MarkKeeps DEF SkipMark, Fenced, At, Pcs, SplitPcs, OwnedPcs, ImportPcs, TryPcs, StorePcs,
                 ManifestStatuses

LEMMA OwnReleaseKeeps ==
    ASSUME Inv, NEW r \in Runs, OwnRelease(r) PROVE Inv'
BY MarkKeeps DEF OwnRelease, Fenced, At, Pcs, SplitPcs, OwnedPcs, ImportPcs, TryPcs, StorePcs,
                 ManifestStatuses, ReclaimableStatuses

LEMMA RecordKeeps ==
    ASSUME Inv, NEW r \in Runs, Record(r) PROVE Inv'
BY MarkKeeps DEF Record, Fenced, At, Pcs, SplitPcs, OwnedPcs, ImportPcs, TryPcs, StorePcs,
                 ManifestStatuses

LEMMA FailManifestKeeps ==
    ASSUME Inv, NEW r \in Runs, FailManifest(r) PROVE Inv'
BY MarkKeeps DEF FailManifest, Fenced, At, Pcs, SplitPcs, OwnedPcs, ImportPcs, TryPcs, StorePcs,
                 ManifestStatuses, ReclaimableStatuses

LEMMA CancelManifestKeeps ==
    ASSUME Inv, NEW r \in Runs, CancelManifest(r) PROVE Inv'
BY MarkKeeps DEF CancelManifest, Fenced, At, Pcs, SplitPcs, OwnedPcs, ImportPcs, TryPcs, StorePcs,
                 ManifestStatuses, ReclaimableStatuses

\* The chunk row is written last, and the run proceeds.
LEMMA FinishKeeps ==
    ASSUME Inv, NEW r \in Runs, NEW status \in ChunkStatuses, NEW todo \in Seq(Keys),
           run[r].pc \notin Chunkless \/ HasWork(r), SetChunk(r, status),
           status = "split" => K(r) \in Splittable, Proceed(r, todo),
           UNCHANGED <<job, cancel, lease, manifest, hash, vector, left>>
    PROVE  Inv'
<1>1. run[r].pc # "idle" /\ J(r) \in Jobs /\ K(r) \in Keys
  BY ChunkAtHand, WorkAtHand
<1>2. ChunkOK'
  BY <1>1, ChunkWritten
<1>3. RowsOK' /\ Grows /\ NoOtherLease(r) /\ NoOtherKey(r)
  BY <1>2, RowsKeep
<1> QED
  BY <1>1, <1>3, ProceedKeeps

LEMMA SkipChunkKeeps ==
    ASSUME Inv, NEW r \in Runs, SkipChunk(r) PROVE Inv'
<1>1. run[r].pc \notin Chunkless
  BY DEF SkipChunk, Fenced, At, Chunkless
<1> QED
  BY <1>1, ChunkAtHand, FinishKeeps DEF SkipChunk, ChunkStatuses

LEMMA DoneKeeps ==
    ASSUME Inv, NEW r \in Runs, Done(r) PROVE Inv'
<1>1. run[r].pc \notin Chunkless
  BY DEF Done, Fenced, At, Chunkless
<1> QED
  BY <1>1, ChunkAtHand, FinishKeeps DEF Done, ChunkStatuses

LEMMA FailChunkKeeps ==
    ASSUME Inv, NEW r \in Runs, FailChunk(r) PROVE Inv'
<1>1. run[r].pc \notin Chunkless
  BY DEF FailChunk, Fenced, At, Chunkless
<1> QED
  BY <1>1, ChunkAtHand, FinishKeeps DEF FailChunk, ChunkStatuses

LEMMA CancelChunkKeeps ==
    ASSUME Inv, NEW r \in Runs, CancelChunk(r) PROVE Inv'
<1>1. run[r].pc \notin Chunkless
  BY DEF CancelChunk, Fenced, At, Chunkless
<1> QED
  BY <1>1, ChunkAtHand, FinishKeeps DEF CancelChunk, ChunkStatuses

LEMMA SplitChunkKeeps ==
    ASSUME Inv, NEW r \in Runs, SplitChunk(r) PROVE Inv'
<1>1. run[r].pc \notin Chunkless /\ run[r].pc \in SplitPcs
  BY DEF SplitChunk, Fenced, At, Chunkless, SplitPcs
<1>2. K(r) \in Splittable /\ K(r) \in Keys /\ Tail(run[r].todo) \in Seq(Keys)
  BY <1>1, ChunkAtHand DEF Inv, RunOK, SplitsSplittable
<1>3. Children[K(r)] \o Tail(run[r].todo) \in Seq(Keys)
  BY <1>2, ChunksAssumption
<1> QED
  BY <1>1, <1>2, <1>3, FinishKeeps DEF SplitChunk, ChunkStatuses

LEMMA ResumeSucceededKeeps ==
    ASSUME Inv, NEW r \in Runs, ResumeSucceeded(r) PROVE Inv'
<1>1. run[r].pc # "idle" /\ Tail(run[r].todo) \in Seq(Keys)
  BY WorkAtHand DEF ResumeSucceeded, ToClaim
<1>2. RowsOK' /\ Grows /\ NoOtherLease(r) /\ NoOtherKey(r)
  BY RowsKeep DEF ResumeSucceeded
<1> QED
  BY <1>1, <1>2, ProceedKeeps DEF ResumeSucceeded

LEMMA ChunkOpened ==
    ASSUME Inv, NEW r \in Runs, J(r) \in Jobs, K(r) \in Keys, OpenChunk(r) PROVE ChunkOK'
BY DEF Inv, RowsOK, ChunkOK, OpenChunk, ChunkStatuses

\* The first attempt begins, the key being ours.
LEMMA StartAttemptsKeeps ==
    ASSUME Inv, NEW r \in Runs, NEW rec \in BOOLEAN, StartAttempts(r, rec), run[r].pc # "idle",
           run[r].todo # <<>>, RowsOK', Grows, NoOtherLease(r), NoOtherKey(r),
           lease'[J(r)] = r =>
               manifest'[K(r)].job = J(r) /\ manifest'[K(r)].status \in {"claimed", "succeeded"}
    PROVE  Inv'
<1> DEFINE t == [run[r] EXCEPT !.pc = "attempt", !.attempt = 1, !.rec = rec]
<1>1. run[r] \in Live /\ "attempt" \in Pcs /\ 1 \in 1..MaxAttempts
  BY LiveAt, BoundsAssumption DEF Pcs, ImportPcs
<1>2. t \in Live /\ t.pc = "attempt" /\ t.job = run[r].job /\ t.todo = run[r].todo
      /\ t.legacy = run[r].legacy
  BY <1>1 DEF Live
<1>3. run' = [run EXCEPT ![r] = t]
  BY DEF StartAttempts
<1> HIDE DEF t
<1> QED
  BY <1>2, <1>3, BecomesKeeps DEF SplitPcs

LEMMA ClaimFreeKeeps ==
    ASSUME Inv, NEW r \in Runs, ClaimFree(r) PROVE Inv'
<1>1. run[r].pc # "idle" /\ run[r].todo # <<>> /\ J(r) \in Jobs /\ K(r) \in Keys
  BY WorkAtHand DEF ClaimFree, ToClaim
<1>2. ChunkOK'
  BY <1>1, ChunkOpened DEF ClaimFree
<1>3. /\ ManifestOK' /\ NoOtherKey(r)
      /\ manifest'[K(r)].job = J(r) /\ manifest'[K(r)].status = "claimed"
  BY <1>1, ManifestClaimed DEF ClaimFree
<1>4. RowsOK' /\ Grows /\ NoOtherLease(r) /\ NoOtherKey(r)
  BY <1>2, <1>3, RowsKeep DEF ClaimFree
<1>5. StartAttempts(r, manifest[K(r)].status # "absent")
  BY DEF ClaimFree
<1> QED
  BY <1>1, <1>3, <1>4, <1>5, StartAttemptsKeeps

LEMMA ClaimSettledKeeps ==
    ASSUME Inv, NEW r \in Runs, ClaimSettled(r) PROVE Inv'
<1>1. run[r].pc # "idle" /\ run[r].todo # <<>> /\ J(r) \in Jobs /\ K(r) \in Keys
  BY WorkAtHand DEF ClaimSettled, ToClaim
<1>2. ChunkOK'
  BY <1>1, ChunkOpened DEF ClaimSettled
<1>3. RowsOK' /\ Grows /\ NoOtherLease(r) /\ NoOtherKey(r)
  BY <1>2, RowsKeep DEF ClaimSettled
<1>4. CASE manifest[K(r)].status = "split" /\ Goto(r, "split")
  <2>1. K(r) \in Splittable
    BY <1>1, <1>4 DEF Inv, RowsOK, ManifestOK
  <2> QED
    BY <1>1, <1>3, <1>4, <2>1, MoveKeeps DEF Pcs, OwnedPcs, ImportPcs, TryPcs, StorePcs
<1>5. ASSUME NEW pc \in {"resumed", "skip"}, Goto(r, pc) PROVE Inv'
  <2>1. pc \in Pcs /\ pc \notin SplitPcs /\ pc \notin OwnedPcs
        /\ pc \notin {"legacy", "effects", "redo", "settle"}
    BY <1>5 DEF Pcs, SplitPcs, OwnedPcs, ImportPcs, TryPcs, StorePcs
  <2> QED
    BY <1>1, <1>3, <1>5, <2>1, MoveKeeps
<1>6. CASE manifest[K(r)].status = "claimed" /\ manifest[K(r)].job = J(r) /\ Goto(r, "own")
  <2>1. UNCHANGED manifest
    BY DEF ClaimSettled
  <2> QED
    BY <1>1, <1>3, <1>6, <2>1, MoveKeeps DEF Pcs, SplitPcs
<1> QED
  BY <1>4, <1>5, <1>6 DEF ClaimSettled

\* Waiting for the key, or giving the chunk up.
LEMMA BusyKeeps ==
    ASSUME Inv, NEW r \in Runs, Busy(r), run[r].pc \notin Chunkless \/ HasWork(r),
           UNCHANGED <<job, cancel, lease, manifest, hash, vector, left>>
    PROVE  Inv'
<1>1. run[r].pc # "idle" /\ J(r) \in Jobs /\ K(r) \in Keys /\ Tail(run[r].todo) \in Seq(Keys)
  BY ChunkAtHand, WorkAtHand
<1>2. ASSUME run[r].attempt < MaxAttempts, OpenChunk(r),
             run' = [run EXCEPT ![r].pc = "next", ![r].attempt = @ + 1]
      PROVE  Inv'
  <2> DEFINE t == [run[r] EXCEPT !.pc = "next", !.attempt = @ + 1]
  <2>1. RowsOK' /\ Grows /\ NoOtherLease(r) /\ NoOtherKey(r)
    BY <1>1, <1>2, ChunkOpened, RowsKeep
  <2>2. run[r] \in Live
    BY <1>1, LiveAt
  <2>3. run[r].attempt + 1 \in 1..MaxAttempts
    BY <1>2, <2>2, BoundsAssumption DEF Live
  <2>4. t \in Live /\ t.pc = "next" /\ t.legacy = run[r].legacy
    BY <2>2, <2>3 DEF Live, Pcs
  <2>5. run' = [run EXCEPT ![r] = t]
    BY <1>2
  <2> HIDE DEF t
  <2>6. t.legacy \subseteq StoredHashes'
    BY <2>1, <2>4 DEF Inv, RunOK, RemembersStored, Grows
  <2> QED
    BY <2>1, <2>4, <2>5, <2>6, FreshKeeps DEF Chunkless
<1>3. CASE Proceed(r, Tail(run[r].todo)) /\ SetChunk(r, "failed")
  BY <1>1, <1>3, FinishKeeps DEF ChunkStatuses
<1> QED
  BY <1>2, <1>3 DEF Busy

LEMMA ClaimBusyKeeps ==
    ASSUME Inv, NEW r \in Runs, ClaimBusy(r) PROVE Inv'
BY BusyKeeps DEF ClaimBusy, ToClaim

LEMMA ReadOwnKeeps ==
    ASSUME Inv, NEW r \in Runs, ReadOwn(r) PROVE Inv'
<1>1. run[r].pc \in OwnedPcs
  BY DEF ReadOwn, At, OwnedPcs
<1>2. /\ run[r].pc # "idle" /\ run[r].todo # <<>>
      /\ Holds(r) => manifest[K(r)].job = J(r) /\ manifest[K(r)].status \in {"claimed", "succeeded"}
  BY <1>1, OwnerAt
<1>3. RowsOK' /\ Grows /\ NoOtherLease(r) /\ NoOtherKey(r)
  BY RowsKeep DEF ReadOwn
<1>4. lease'[J(r)] = r =>
        manifest'[K(r)].job = J(r) /\ manifest'[K(r)].status \in {"claimed", "succeeded"}
  BY <1>2 DEF ReadOwn, Holds
<1>5. CASE StartAttempts(r, TRUE)
  BY <1>2, <1>3, <1>4, <1>5, StartAttemptsKeeps
<1>6. CASE Goto(r, "ownrelease")
  BY <1>2, <1>3, <1>4, <1>6, MoveKeeps DEF Pcs, SplitPcs
<1> QED
  BY <1>5, <1>6 DEF ReadOwn

LEMMA OwnHashesKeeps ==
    ASSUME Inv, NEW r \in Runs, OwnHashes(r) PROVE Inv'
<1>1. run[r].pc # "idle" /\ run[r].todo # <<>>
  BY ChunkAtHand DEF OwnHashes, Fenced, At, Chunkless
<1>2. HashOK'
  BY HashesReleased DEF OwnHashes
<1>3. RowsOK' /\ Grows /\ NoOtherLease(r) /\ NoOtherKey(r)
  BY <1>2, RowsKeep DEF OwnHashes
<1> QED
  BY <1>1, <1>3, MoveKeeps DEF OwnHashes, Pcs, SplitPcs, OwnedPcs, ImportPcs, TryPcs, StorePcs

LEMMA ReclaimKeeps ==
    ASSUME Inv, NEW r \in Runs, Reclaim(r) PROVE Inv'
<1>1. run[r].pc \notin Chunkless
  BY DEF Reclaim, Fenced, At, Chunkless
<1>2. run[r].pc # "idle" /\ run[r].todo # <<>> /\ J(r) \in Jobs /\ K(r) \in Keys
  BY <1>1, ChunkAtHand
<1>3. CASE Claimable(K(r)) /\ ClaimManifest(r) /\ StartAttempts(r, TRUE) /\ UNCHANGED chunk
  <2>1. /\ ManifestOK' /\ NoOtherKey(r)
        /\ manifest'[K(r)].job = J(r) /\ manifest'[K(r)].status = "claimed"
    BY <1>2, <1>3, ManifestClaimed
  <2>2. RowsOK' /\ Grows /\ NoOtherLease(r) /\ NoOtherKey(r)
    BY <1>3, <2>1, RowsKeep DEF Reclaim
  <2> QED
    BY <1>2, <1>3, <2>1, <2>2, StartAttemptsKeeps
<1>4. CASE UNCHANGED manifest /\ Busy(r)
  BY <1>1, <1>4, BusyKeeps DEF Reclaim
<1> QED
  BY <1>3, <1>4 DEF Reclaim

-----------------------------------------------------------------------------
(* An attempt to import the chunk. *)

\* A step of a run among the steps that own the key, the manifest being left alone.
LEMMA OwnMoveKeeps ==
    ASSUME Inv, NEW r \in Runs, NEW pc \in Pcs, Goto(r, pc), run[r].pc \in OwnedPcs,
           RowsOK', Grows, UNCHANGED <<lease, manifest>>, pc \notin SplitPcs, pc # "legacy",
           pc \in {"effects", "redo", "settle"} => run[r].got \subseteq StoredHashes'
    PROVE  Inv'
<1>1. /\ run[r].pc # "idle" /\ run[r].todo # <<>>
      /\ lease'[J(r)] = r =>
           manifest'[K(r)].job = J(r) /\ manifest'[K(r)].status \in {"claimed", "succeeded"}
  BY OwnerAt DEF Holds
<1>2. NoOtherLease(r) /\ NoOtherKey(r)
  BY DEF NoOtherLease, NoOtherKey
<1> QED
  BY <1>1, <1>2, MoveKeeps

\* The same for a step that changes what the run has at hand.
LEMMA OwnBecomesKeeps ==
    ASSUME Inv, NEW r \in Runs, NEW t \in Live, run' = [run EXCEPT ![r] = t],
           t.job = run[r].job, t.todo = run[r].todo, t.legacy = run[r].legacy,
           run[r].pc \in OwnedPcs, t.pc \in ImportPcs,
           RowsOK', Grows, UNCHANGED <<lease, manifest>>,
           t.pc = "legacy" => t.mark \in StoredHashes',
           t.pc \in {"effects", "redo", "settle"} => t.got \subseteq StoredHashes'
    PROVE  Inv'
<1>1. /\ run[r].pc # "idle" /\ run[r].todo # <<>>
      /\ lease'[J(r)] = r =>
           manifest'[K(r)].job = J(r) /\ manifest'[K(r)].status \in {"claimed", "succeeded"}
  BY OwnerAt DEF Holds
<1>2. NoOtherLease(r) /\ NoOtherKey(r)
  BY DEF NoOtherLease, NoOtherKey
<1>3. t.pc \notin SplitPcs
  BY DEF ImportPcs, TryPcs, StorePcs, SplitPcs
<1> QED
  BY <1>1, <1>2, <1>3, BecomesKeeps

LEMMA AttemptKeeps ==
    ASSUME Inv, NEW r \in Runs, Attempt(r) PROVE Inv'
<1> DEFINE t == [run[r] EXCEPT !.pc = "store", !.got = {}]
<1>1. run[r].pc \in OwnedPcs
  BY DEF Attempt, Fenced, At, OwnedPcs, ImportPcs
<1>2. run[r] \in Live /\ J(r) \in Jobs /\ K(r) \in Keys
  BY <1>1, OwnerAt
<1>3. "store" \in Pcs /\ "store" \in ImportPcs /\ {} \in SUBSET Hashes
  BY DEF Pcs, ImportPcs, TryPcs
<1>4. t \in Live /\ t.pc = "store" /\ t.job = run[r].job /\ t.todo = run[r].todo
      /\ t.legacy = run[r].legacy
  BY <1>2, <1>3 DEF Live
<1>5. run' = [run EXCEPT ![r] = t]
  BY DEF Attempt
<1>6. ChunkOK'
  BY <1>2, ChunkWritten DEF Attempt, ChunkStatuses
<1>7. RowsOK' /\ Grows
  BY <1>6, RowsKeep DEF Attempt
<1>8. UNCHANGED <<lease, manifest>>
  BY DEF Attempt
<1> HIDE DEF t
<1> QED
  BY <1>1, <1>3, <1>4, <1>5, <1>7, <1>8, OwnBecomesKeeps

LEMMA AttemptCancelledKeeps ==
    ASSUME Inv, NEW r \in Runs, AttemptCancelled(r) PROVE Inv'
<1>1. RowsOK' /\ Grows
  BY RowsKeep DEF AttemptCancelled
<1> QED
  BY <1>1, OwnMoveKeeps DEF AttemptCancelled, At, Pcs, SplitPcs, OwnedPcs, ImportPcs

LEMMA ReconcileKeeps ==
    ASSUME Inv, NEW r \in Runs, Reconcile(r) PROVE Inv'
<1> DEFINE got == RowsOf(K(r))
<1> DEFINE t == [run[r] EXCEPT !.pc = "redo", !.got = got]
<1>1. run[r].pc \in OwnedPcs
  BY DEF Reconcile, Fenced, At, OwnedPcs, ImportPcs, TryPcs
<1>2. run[r] \in Live /\ K(r) \in Keys
  BY <1>1, OwnerAt
<1>3. "redo" \in Pcs /\ "redo" \in ImportPcs
  BY DEF Pcs, ImportPcs, TryPcs
<1>4. RowsOK' /\ Grows
  BY RowsKeep DEF Reconcile
<1>5. got \in SUBSET Hashes /\ got \subseteq StoredHashes'
  BY <1>2, NoOneAssumption DEF RowsOf, StoredHashes, Reconcile
<1>6. run' = [run EXCEPT ![r] = t]
  BY DEF Reconcile
<1> HIDE DEF got
<1>7. t \in Live /\ t.pc = "redo" /\ t.job = run[r].job /\ t.todo = run[r].todo
      /\ t.legacy = run[r].legacy /\ t.got = got
  BY <1>2, <1>3, <1>5 DEF Live
<1>8. UNCHANGED <<lease, manifest>>
  BY DEF Reconcile
<1> HIDE DEF t
<1> QED
  BY <1>1, <1>3, <1>4, <1>5, <1>6, <1>7, <1>8, OwnBecomesKeeps

LEMMA ExtractKeeps ==
    ASSUME Inv, NEW r \in Runs, Extract(r) PROVE Inv'
<1>1. run[r].pc \in OwnedPcs
  BY DEF Extract, At, OwnedPcs, ImportPcs, TryPcs
<1>2. run[r] \in Live /\ K(r) \in Keys
  BY <1>1, OwnerAt
<1>3. "hash" \in Pcs /\ "hash" \in ImportPcs
  BY DEF Pcs, ImportPcs, TryPcs, StorePcs
<1>4. RowsOK' /\ Grows /\ UNCHANGED <<lease, manifest>>
  BY RowsKeep DEF Extract
<1>5. PICK want \in SUBSET Facts[K(r)] : run' = [run EXCEPT ![r].pc = "hash", ![r].want = want]
  BY DEF Extract
<1>6. want \in SUBSET Hashes
  BY <1>2, ChunksAssumption
<1> DEFINE t == [run[r] EXCEPT !.pc = "hash", !.want = want]
<1>7. t \in Live /\ t.pc = "hash" /\ t.job = run[r].job /\ t.todo = run[r].todo
      /\ t.legacy = run[r].legacy
  BY <1>2, <1>3, <1>6 DEF Live
<1>8. run' = [run EXCEPT ![r] = t]
  BY <1>5
<1> HIDE DEF t
<1> QED
  BY <1>1, <1>3, <1>4, <1>7, <1>8, OwnBecomesKeeps

LEMMA ClaimHashKeeps ==
    ASSUME Inv, NEW r \in Runs, ClaimHash(r) PROVE Inv'
<1>1. run[r].pc = "hash" /\ run[r].pc \in OwnedPcs
  BY DEF ClaimHash, Fenced, At, OwnedPcs, ImportPcs, TryPcs, StorePcs
<1>2. run[r] \in Live /\ J(r) \in Jobs /\ K(r) \in Keys
  BY <1>1, OwnerAt
<1>3. {"hash", "legacy"} \subseteq Pcs /\ {"hash", "legacy"} \subseteq ImportPcs
  BY DEF Pcs, ImportPcs, TryPcs, StorePcs
<1>4. UNCHANGED <<job, cancel, lease, chunk, manifest, vector, left>>
  BY DEF ClaimHash
<1> DEFINE Passed(h) == [run[r] EXCEPT !.want = run[r].want \ {h}]
           Known(h) == [run[r] EXCEPT !.want = run[r].want \ {h}, !.mark = h, !.pc = "legacy"]
           Claimed(h) == [run[r] EXCEPT !.want = run[r].want \ {h}, !.got = run[r].got \cup {h}]
<1>5. PICK h \in run[r].want :
         \/ run' = [run EXCEPT ![r] = Passed(h)] /\ UNCHANGED hash
         \/ /\ hash' = [hash EXCEPT ![h] = ClaimOf(r)]
            /\ \/ h \in run[r].legacy /\ run' = [run EXCEPT ![r] = Known(h)]
               \/ run' = [run EXCEPT ![r] = Claimed(h)]
  BY DEF ClaimHash
<1>6. h \in Hashes
  BY <1>2 DEF Live
<1>7. ASSUME hash' = [hash EXCEPT ![h] = ClaimOf(r)] PROVE HashOK'
  <2>1. ClaimOf(r) \in Hash /\ ClaimOf(r).status = "claimed"
    BY <1>2 DEF ClaimOf, Hash
  <2> QED
    BY <1>4, <1>6, <1>7, <2>1 DEF Inv, RowsOK, HashOK, SettledHashIsStored
<1>8. RowsOK' /\ Grows
  BY <1>4, <1>5, <1>7, RowsKeep
<1>9. ASSUME NEW t \in Live, run' = [run EXCEPT ![r] = t], t.job = run[r].job,
             t.todo = run[r].todo, t.legacy = run[r].legacy,
             t.pc = "hash" \/ (t.pc = "legacy" /\ t.mark \in t.legacy)
      PROVE  Inv'
  <2>1. t.pc = "legacy" => t.mark \in StoredHashes'
    BY <1>8, <1>9 DEF Inv, RunOK, RemembersStored, Grows
  <2> QED
    BY <1>1, <1>3, <1>4, <1>8, <1>9, <2>1, OwnBecomesKeeps
<1>10. CASE run' = [run EXCEPT ![r] = Passed(h)]
  <2>1. Passed(h) \in Live /\ Passed(h).job = run[r].job /\ Passed(h).todo = run[r].todo
        /\ Passed(h).legacy = run[r].legacy /\ Passed(h).pc = "hash"
    BY <1>1, <1>2 DEF Live
  <2> HIDE DEF Passed
  <2> QED
    BY <1>9, <1>10, <2>1
<1>11. CASE run' = [run EXCEPT ![r] = Known(h)] /\ h \in run[r].legacy
  <2>1. Known(h) \in Live /\ Known(h).job = run[r].job /\ Known(h).todo = run[r].todo
        /\ Known(h).legacy = run[r].legacy /\ Known(h).pc = "legacy" /\ Known(h).mark = h
    BY <1>2, <1>3, <1>6 DEF Live
  <2> HIDE DEF Known
  <2> QED
    BY <1>9, <1>11, <2>1
<1>12. CASE run' = [run EXCEPT ![r] = Claimed(h)]
  <2>1. Claimed(h) \in Live /\ Claimed(h).job = run[r].job /\ Claimed(h).todo = run[r].todo
        /\ Claimed(h).legacy = run[r].legacy /\ Claimed(h).pc = "hash"
    BY <1>1, <1>2, <1>6 DEF Live
  <2> HIDE DEF Claimed
  <2> QED
    BY <1>9, <1>12, <2>1
<1> HIDE DEF Passed, Known, Claimed
<1> QED
  BY <1>5, <1>10, <1>11, <1>12

LEMMA MarkLegacyKeeps ==
    ASSUME Inv, NEW r \in Runs, MarkLegacy(r) PROVE Inv'
<1> DEFINE t == [run[r] EXCEPT !.pc = "hash", !.mark = NoOne]
<1>1. run[r].pc = "legacy" /\ run[r].pc \in OwnedPcs
  BY DEF MarkLegacy, Fenced, At, OwnedPcs, ImportPcs, TryPcs, StorePcs
<1>2. run[r] \in Live
  BY <1>1, OwnerAt
<1>3. "hash" \in Pcs /\ "hash" \in ImportPcs
  BY DEF Pcs, ImportPcs, TryPcs, StorePcs
<1>4. {run[r].mark} \subseteq StoredHashes
  BY <1>1 DEF Inv, RunOK, RemembersStored
<1>5. HashOK'
  BY <1>4, HashesSucceeded DEF MarkLegacy
<1>6. RowsOK' /\ Grows /\ UNCHANGED <<lease, manifest>>
  BY <1>5, RowsKeep DEF MarkLegacy
<1>7. t \in Live /\ t.pc = "hash" /\ t.job = run[r].job /\ t.todo = run[r].todo
      /\ t.legacy = run[r].legacy
  BY <1>2, <1>3 DEF Live
<1>8. run' = [run EXCEPT ![r] = t]
  BY DEF MarkLegacy
<1> HIDE DEF t
<1> QED
  BY <1>1, <1>3, <1>6, <1>7, <1>8, OwnBecomesKeeps

LEMMA SelectKeeps ==
    ASSUME Inv, NEW r \in Runs, Select(r) PROVE Inv'
<1>1. RowsOK' /\ Grows /\ UNCHANGED <<lease, manifest>>
  BY RowsKeep DEF Select
<1>2. run[r].pc \in OwnedPcs
  BY DEF Select, At, OwnedPcs, ImportPcs, TryPcs, StorePcs
<1>3. CASE run[r].got = {} /\ Goto(r, "settle")
  BY <1>1, <1>2, <1>3, OwnMoveKeeps DEF Pcs, SplitPcs, ImportPcs, TryPcs
<1>4. CASE Goto(r, "guard")
  BY <1>1, <1>2, <1>4, OwnMoveKeeps DEF Pcs, SplitPcs, ImportPcs, TryPcs, StorePcs
<1> QED
  BY <1>3, <1>4 DEF Select

LEMMA GuardKeeps ==
    ASSUME Inv, NEW r \in Runs, Guard(r) PROVE Inv'
<1>1. RowsOK' /\ Grows
  BY RowsKeep DEF Guard
<1> QED
  BY <1>1, OwnMoveKeeps DEF Guard, Fenced, At, Pcs, SplitPcs, OwnedPcs, ImportPcs, TryPcs, StorePcs

\* An insertion stores memories under the key and overwrites none.
LEMMA InsertStores ==
    ASSUME Inv, NEW r \in Runs, Insert(r)
    PROVE  \/ UNCHANGED vector /\ Goto(r, "drop")
           \/ /\ Goto(r, "effects") /\ VectorOK' /\ Grows
              /\ run[r].got \subseteq StoredHashes'
              /\ \A h \in Hashes : vector[h] # NoOne => vector'[h] = vector[h]
              /\ \A h \in Hashes : vector'[h] # vector[h] => vector'[h] = K(r)
<1>1. run[r].pc \in OwnedPcs
  BY DEF Insert, At, OwnedPcs, ImportPcs, TryPcs, StorePcs
<1>2. run[r] \in Live /\ K(r) \in Keys /\ K(r) # NoOne
  BY <1>1, OwnerAt, NoOneAssumption
<1>3. run[r].got \subseteq Hashes /\ vector \in [Hashes -> Keys \cup {NoOne}]
  BY <1>2 DEF Live, Inv, RowsOK, VectorOK
<1>4. CASE /\ \A h \in run[r].got : vector[h] = NoOne
           /\ vector' = [h \in Hashes |-> IF h \in run[r].got THEN K(r) ELSE vector[h]]
           /\ Goto(r, "effects")
  <2>1. VectorOK'
    BY <1>2, <1>3, <1>4 DEF VectorOK
  <2>2. run[r].got \subseteq StoredHashes' /\ Grows
    BY <1>2, <1>3, <1>4 DEF StoredHashes, Grows
  <2> QED
    BY <1>3, <1>4, <2>1, <2>2
<1> QED
  BY <1>4 DEF Insert

LEMMA InsertKeeps ==
    ASSUME Inv, NEW r \in Runs, Insert(r) PROVE Inv'
<1>1. UNCHANGED <<job, cancel, lease, chunk, manifest, hash, left>> /\ run[r].pc \in OwnedPcs
  BY DEF Insert, At, OwnedPcs, ImportPcs, TryPcs, StorePcs
<1>2. CASE UNCHANGED vector /\ Goto(r, "drop")
  <2>1. RowsOK' /\ Grows
    BY <1>1, <1>2, RowsKeep
  <2> QED
    BY <1>1, <1>2, <2>1, OwnMoveKeeps DEF Pcs, SplitPcs, ImportPcs, TryPcs
<1>3. CASE /\ Goto(r, "effects") /\ VectorOK' /\ Grows
           /\ run[r].got \subseteq StoredHashes'
           /\ \A h \in Hashes : vector[h] # NoOne => vector'[h] = vector[h]
  <2>1. HashOK'
    BY <1>1, <1>3 DEF Inv, RowsOK, HashOK, SettledHashIsStored
  <2>2. RowsOK'
    BY <1>1, <1>3, <2>1 DEF Inv, RowsOK, JobsOK, LeaseOK, LeftOK, ChunkOK, ManifestOK
  <2> QED
    BY <1>1, <1>3, <2>2, OwnMoveKeeps DEF Pcs, SplitPcs, ImportPcs, TryPcs, StorePcs
<1> QED
  BY <1>2, <1>3, InsertStores

LEMMA EffectsKeeps ==
    ASSUME Inv, NEW r \in Runs, Effects(r) PROVE Inv'
<1>1. RowsOK' /\ Grows /\ UNCHANGED <<lease, manifest>>
  BY RowsKeep DEF Effects
<1>2. run[r].pc \in {"effects", "redo"} /\ run[r].pc \in OwnedPcs
  BY DEF Effects, Fenced, At, OwnedPcs, ImportPcs, TryPcs, StorePcs
<1>3. run[r].got \subseteq StoredHashes'
  BY <1>1, <1>2 DEF Inv, RunOK, RemembersStored, Grows
<1>4. Goto(r, "settle") /\ "settle" \in Pcs
  BY DEF Effects, Pcs, ImportPcs, TryPcs
<1> QED
  BY <1>1, <1>2, <1>3, <1>4, OwnMoveKeeps DEF SplitPcs

LEMMA SettleKeeps ==
    ASSUME Inv, NEW r \in Runs, Settle(r) PROVE Inv'
<1>1. run[r].pc = "settle" /\ run[r].pc \in OwnedPcs
  BY DEF Settle, Fenced, At, OwnedPcs, ImportPcs, TryPcs
<1>2. run[r].got \subseteq StoredHashes
  BY <1>1 DEF Inv, RunOK, RemembersStored
<1>3. HashOK'
  BY <1>2, HashesSucceeded DEF Settle
<1>4. RowsOK' /\ Grows
  BY <1>3, RowsKeep DEF Settle
<1> QED
  BY <1>1, <1>4, OwnMoveKeeps DEF Settle, Pcs, SplitPcs, ImportPcs, TryPcs

-----------------------------------------------------------------------------
(* An attempt that raises. *)

LEMMA StoreFailsKeeps ==
    ASSUME Inv, NEW r \in Runs, StoreFails(r) PROVE Inv'
<1>1. RowsOK' /\ Grows
  BY RowsKeep DEF StoreFails
<1> QED
  BY <1>1, OwnMoveKeeps DEF StoreFails, Pcs, SplitPcs, OwnedPcs, ImportPcs, TryPcs

LEMMA DropKeeps ==
    ASSUME Inv, NEW r \in Runs, Drop(r) PROVE Inv'
<1>1. HashOK'
  BY HashesReleased DEF Drop
<1>2. RowsOK' /\ Grows
  BY <1>1, RowsKeep DEF Drop
<1> QED
  BY <1>2, OwnMoveKeeps DEF Drop, Fenced, At, Pcs, SplitPcs, OwnedPcs, ImportPcs, TryPcs

LEMMA RedoFailsKeeps ==
    ASSUME Inv, NEW r \in Runs, RedoFails(r) PROVE Inv'
<1>1. RowsOK' /\ Grows
  BY RowsKeep DEF RedoFails
<1> QED
  BY <1>1, OwnMoveKeeps DEF RedoFails, At, Pcs, SplitPcs, OwnedPcs, ImportPcs, TryPcs

LEMMA BookkeepingFailsKeeps ==
    ASSUME Inv, NEW r \in Runs, BookkeepingFails(r) PROVE Inv'
<1>1. LeftOK'
  BY SpendKeeps DEF BookkeepingFails
<1>2. RowsOK' /\ Grows
  BY <1>1 DEF BookkeepingFails, Inv, RowsOK, JobsOK, LeaseOK, ChunkOK, ManifestOK, HashOK,
              SettledHashIsStored, VectorOK, Grows, StoredHashes
<1> QED
  BY <1>2, OwnMoveKeeps DEF BookkeepingFails, Pcs, SplitPcs, OwnedPcs, ImportPcs, TryPcs

LEMMA AgainKeeps ==
    ASSUME Inv, NEW r \in Runs, Again(r) PROVE Inv'
<1> DEFINE t == [run[r] EXCEPT !.pc = "attempt", !.attempt = @ + 1, !.want = {}, !.got = {},
                               !.mark = NoOne]
<1>1. run[r].pc \in OwnedPcs
  BY DEF Again, Fenced, At, OwnedPcs, ImportPcs
<1>2. run[r] \in Live /\ J(r) \in Jobs /\ K(r) \in Keys
  BY <1>1, OwnerAt
<1>3. "attempt" \in Pcs /\ "attempt" \in ImportPcs
  BY DEF Pcs, ImportPcs
<1>4. run[r].attempt + 1 \in 1..MaxAttempts
  BY <1>2, BoundsAssumption DEF Live, Again
<1>5. ChunkOK'
  BY <1>2, ChunkWritten DEF Again, ChunkStatuses
<1>6. RowsOK' /\ Grows /\ UNCHANGED <<lease, manifest>>
  BY <1>5, RowsKeep DEF Again
<1>7. t \in Live /\ t.pc = "attempt" /\ t.job = run[r].job /\ t.todo = run[r].todo
      /\ t.legacy = run[r].legacy
  BY <1>2, <1>3, <1>4 DEF Live
<1>8. run' = [run EXCEPT ![r] = t]
  BY DEF Again
<1> HIDE DEF t
<1> QED
  BY <1>1, <1>3, <1>6, <1>7, <1>8, OwnBecomesKeeps

LEMMA GiveUpChunkKeeps ==
    ASSUME Inv, NEW r \in Runs, GiveUpChunk(r) PROVE Inv'
<1>1. RowsOK' /\ Grows /\ NoOtherLease(r) /\ NoOtherKey(r) /\ UNCHANGED <<lease, manifest>>
  BY RowsKeep DEF GiveUpChunk
<1>2. run[r].pc \in OwnedPcs
  BY DEF GiveUpChunk, At, OwnedPcs, ImportPcs
<1>3. ASSUME NEW pc \in {"cancel", "fail"}, Goto(r, pc) PROVE Inv'
  BY <1>1, <1>2, <1>3, OwnMoveKeeps DEF Pcs, SplitPcs, ImportPcs
<1>4. CASE Children[K(r)] # <<>> /\ Goto(r, "split")
  <2>1. run[r].pc # "idle" /\ run[r].todo # <<>> /\ K(r) \in Splittable
    BY <1>2, <1>4, OwnerAt DEF Splittable
  <2> QED
    BY <1>1, <1>4, <2>1, MoveKeeps DEF Pcs, OwnedPcs, ImportPcs, TryPcs, StorePcs
<1> QED
  BY <1>3, <1>4 DEF GiveUpChunk

LEMMA SplitManifestKeeps ==
    ASSUME Inv, NEW r \in Runs, SplitManifest(r) PROVE Inv'
<1>1. run[r].pc = "split" /\ Holds(r)
  BY DEF SplitManifest, Fenced, At
<1>2. /\ run[r].pc # "idle" /\ run[r].todo # <<>> /\ K(r) \in Keys
      /\ K(r) \in Splittable
  BY <1>1, ChunkAtHand DEF Chunkless, SplitPcs, Inv, RunOK, SplitsSplittable
<1>3. ManifestOK' /\ NoOtherKey(r)
  BY <1>1, <1>2, ManifestWritten DEF SplitManifest, ManifestStatuses
<1>4. RowsOK' /\ Grows /\ NoOtherLease(r)
  BY <1>3, RowsKeep DEF SplitManifest
<1> QED
  BY <1>2, <1>3, <1>4, MoveKeeps DEF SplitManifest, Pcs, OwnedPcs, ImportPcs, TryPcs, StorePcs

LEMMA ReleaseChunkHashesKeeps ==
    ASSUME Inv, NEW r \in Runs, ReleaseChunkHashes(r) PROVE Inv'
<1>1. HashOK'
  BY HashesReleased DEF ReleaseChunkHashes
<1>2. RowsOK' /\ Grows /\ NoOtherLease(r) /\ NoOtherKey(r)
  BY <1>1, RowsKeep DEF ReleaseChunkHashes
<1>3. run[r].pc # "idle" /\ run[r].todo # <<>>
  BY ChunkAtHand DEF ReleaseChunkHashes, Fenced, At, Chunkless
<1>4. CASE run[r].pc = "splithash" /\ Goto(r, "splitchunk")
  <2>1. K(r) \in Splittable
    BY <1>4 DEF Inv, RunOK, SplitsSplittable, SplitPcs
  <2> QED
    BY <1>2, <1>3, <1>4, <2>1, MoveKeeps DEF Pcs, OwnedPcs, ImportPcs, TryPcs, StorePcs
<1>5. CASE Goto(r, "cancelchunk")
  BY <1>2, <1>3, <1>5, MoveKeeps DEF Pcs, SplitPcs, OwnedPcs, ImportPcs, TryPcs, StorePcs
<1> QED
  BY <1>4, <1>5 DEF ReleaseChunkHashes, Fenced, At

-----------------------------------------------------------------------------
(* The steps around the runs, and the whole. *)

\* A step on the job row that no run relies on.
LEMMA JobStepKeeps ==
    ASSUME Inv, JobsOK', LeftOK', ChunkOK', UNCHANGED <<lease, manifest, hash, vector, run>>
    PROVE  Inv'
<1>1. RowsOK'
  BY DEF Inv, RowsOK, LeaseOK, ManifestOK, HashOK, SettledHashIsStored, VectorOK
<1>2. \A r \in Runs : RunOK(r)'
  BY DEF Inv, RunOK, HasChunk, SplitsSplittable, OwnsKey, Ours, Holds, RemembersStored,
         StoredHashes, K, J
<1> QED
  BY <1>1, <1>2 DEF Inv

LEMMA RequestCancelKeeps ==
    ASSUME Inv, NEW j \in Jobs, RequestCancel(j) PROVE Inv'
<1>1. JobsOK' /\ LeftOK' /\ ChunkOK'
  BY SpendKeeps DEF RequestCancel, Inv, RowsOK, JobsOK, ChunkOK
<1> QED
  BY <1>1, JobStepKeeps DEF RequestCancel

LEMMA WriteOffKeeps ==
    ASSUME Inv, NEW j \in Jobs, WriteOff(j) PROVE Inv'
<1>1. JobsOK' /\ LeftOK' /\ ChunkOK'
  BY DEF WriteOff, Inv, RowsOK, JobsOK, LeftOK, ChunkOK
<1> QED
  BY <1>1, JobStepKeeps DEF WriteOff

LEMMA RetryKeeps ==
    ASSUME Inv, NEW j \in Jobs, Retry(j) PROVE Inv'
<1>1. JobsOK' /\ LeftOK'
  BY SpendKeeps DEF Retry, Inv, RowsOK, JobsOK
<1>2. ChunkOK'
  BY DEF Retry, Inv, RowsOK, ChunkOK, ChunkStatuses
<1> QED
  BY <1>1, <1>2, JobStepKeeps DEF Retry

LEMMA InitInv == Init => Inv
<1> SUFFICES ASSUME Init PROVE Inv
  OBVIOUS
<1>1. JobsOK /\ LeaseOK /\ VectorOK
  BY ChunksAssumption DEF Init, JobsOK, LeaseOK, VectorOK
<1>2. LeftOK
  BY BoundsAssumption DEF Init, LeftOK
<1>3. ChunkOK
  BY DEF Init, ChunkOK, ChunkStatuses
<1>4. ManifestOK
  BY DEF Init, ManifestOK, Manifest, ManifestStatuses, Unclaimed
<1>5. HashOK
  BY DEF Init, HashOK, Hash, Free, SettledHashIsStored
<1>6. run \in [Runs -> Run] /\ \A r \in Runs : run[r] = Idle
  BY DEF Init, Run
<1>7. ASSUME NEW r \in Runs PROVE RunOK(r)
  <2>1. run[r].pc = "idle" /\ run[r].legacy = {}
    BY <1>6, IdleIsNotLive
  <2> QED
    BY <2>1 DEF RunOK, HasChunk, Chunkless, SplitsSplittable, SplitPcs, OwnsKey, OwnedPcs,
                ImportPcs, TryPcs, StorePcs, RemembersStored
<1> QED
  BY <1>1, <1>2, <1>3, <1>4, <1>5, <1>6, <1>7 DEF Inv, RowsOK

LEMMA NextInv == Inv /\ [Next]_vars => Inv'
<1> SUFFICES ASSUME Inv, [Next]_vars PROVE Inv'
  OBVIOUS
<1>1. ASSUME NEW r \in Runs, ClaimStep(r) PROVE Inv'
  BY <1>1, SkipExistingKeeps, SkipClaimKeeps, SkipMarkKeeps, SkipChunkKeeps, ResumeSucceededKeeps,
     ClaimFreeKeeps, ClaimSettledKeeps, ClaimBusyKeeps, ReadOwnKeeps, OwnReleaseKeeps,
     OwnHashesKeeps, ReclaimKeeps DEF ClaimStep
<1>2. ASSUME NEW r \in Runs, StoreStep(r) PROVE Inv'
  BY <1>2, AttemptKeeps, AttemptCancelledKeeps, ReconcileKeeps, ExtractKeeps, ClaimHashKeeps,
     MarkLegacyKeeps, SelectKeeps, GuardKeeps, InsertKeeps, EffectsKeeps, SettleKeeps, RecordKeeps,
     DoneKeeps DEF StoreStep
<1>3. ASSUME NEW r \in Runs, FailStep(r) PROVE Inv'
  BY <1>3, StoreFailsKeeps, DropKeeps, RedoFailsKeeps, AgainKeeps, GiveUpChunkKeeps,
     FailManifestKeeps, FailChunkKeeps, SplitManifestKeeps, CancelManifestKeeps,
     ReleaseChunkHashesKeeps, SplitChunkKeeps, CancelChunkKeeps DEF FailStep
<1>4. ASSUME NEW r \in Runs, RunStep(r) PROVE Inv'
  BY <1>1, <1>2, <1>3, <1>4, PlanKeeps, DedupKeeps, EndRunKeeps, LoseKeeps DEF RunStep
<1>5. ASSUME NEW r \in Runs, Fault(r) PROVE Inv'
  BY <1>5, CrashKeeps, ExpireKeeps, BreakKeeps, BookkeepingFailsKeeps DEF Fault
<1>6. ASSUME NEW j \in Jobs, RequestCancel(j) \/ WriteOff(j) \/ Retry(j) PROVE Inv'
  BY <1>6, RequestCancelKeeps, WriteOffKeeps, RetryKeeps
<1>7. CASE UNCHANGED vars
  <2>1. JobsOK' /\ LeftOK' /\ ChunkOK' /\ UNCHANGED <<lease, manifest, hash, vector, run>>
    BY <1>7 DEF vars, Inv, RowsOK, JobsOK, LeftOK, ChunkOK
  <2> QED
    BY <2>1, JobStepKeeps
<1> QED
  BY <1>4, <1>5, <1>6, <1>7, StartKeeps DEF Next

\* The invariant holds in every reachable state: each run keeps what the others rely on.
THEOREM Invariance == Spec => []Inv
<1> QED
  BY InitInv, NextInv, PTL DEF Spec

\* TypeOK: every row and every run is of a shape the code can write.
THEOREM ClaimsTypeCorrect == Spec => []TypeOK
<1>1. Inv => TypeOK
  BY DEF Inv, RowsOK, JobsOK, LeaseOK, LeftOK, ChunkOK, ManifestOK, HashOK, VectorOK, TypeOK
<1> QED
  BY <1>1, Invariance, PTL

\* KeyIsOwned: between claim_manifest and the end of an import no other job gets the key,
\* because every write of a manifest is fenced and names the job.
THEOREM KeyIsOwnedThm == Spec => []KeyIsOwned
<1>1. Inv => KeyIsOwned
  BY DEF Inv, RunOK, OwnsKey, Ours, OwnedPcs, KeyIsOwned, Importing
<1> QED
  BY <1>1, Invariance, PTL

\* SettledHashIsStored: mark_memory_hashes_succeeded is only reached with stored memories.
THEOREM SettledHashIsStoredThm == Spec => []SettledHashIsStored
<1>1. Inv => SettledHashIsStored
  BY DEF Inv, RowsOK, HashOK
<1> QED
  BY <1>1, Invariance, PTL

-----------------------------------------------------------------------------
(* A split is final. *)

SplitStays == \A k \in Keys : manifest[k].status = "split" => manifest'[k] = manifest[k]

LEMMA OwnedMarkKeepsSplits ==
    ASSUME Inv, NEW r \in Runs, NEW status, MarkManifest(r, status), Holds(r),
           run[r].pc \in OwnedPcs
    PROVE  SplitStays
<1>1. K(r) \in Keys /\ manifest[K(r)].status \in {"claimed", "succeeded"}
  BY OwnerAt
<1> QED
  BY <1>1 DEF MarkManifest, SplitStays, Inv, RowsOK, ManifestOK

LEMMA SplitMarkKeepsSplits ==
    ASSUME Inv, NEW r \in Runs, MarkManifest(r, "split") PROVE SplitStays
<1>1. manifest \in [Keys -> Manifest]
  BY DEF Inv, RowsOK, ManifestOK
<1> SUFFICES ASSUME NEW k \in Keys, manifest[k].status = "split" PROVE manifest'[k] = manifest[k]
  BY DEF SplitStays
<1>2. [manifest[k] EXCEPT !.status = "split"] = manifest[k]
  BY <1>1 DEF Manifest
<1> QED
  BY <1>1, <1>2 DEF MarkManifest

LEMMA ClaimKeepsSplits ==
    ASSUME Inv, NEW r \in Runs, ClaimManifest(r), Claimable(K(r)) PROVE SplitStays
BY DEF ClaimManifest, Claimable, ReclaimableStatuses, SplitStays, Inv, RowsOK, ManifestOK

LEMMA ClaimStepSplits ==
    ASSUME Inv, NEW r \in Runs, ClaimStep(r) PROVE SplitStays /\ UNCHANGED vector
<1>1. CASE SkipClaim(r)
  BY <1>1, ClaimKeepsSplits DEF SkipClaim, SplitStays
<1>2. CASE SkipMark(r)
  BY <1>2, OwnedMarkKeepsSplits DEF SkipMark, Fenced, At, OwnedPcs
<1>3. CASE ClaimFree(r)
  BY <1>3, ClaimKeepsSplits DEF ClaimFree
<1>4. CASE OwnRelease(r)
  BY <1>4, OwnedMarkKeepsSplits DEF OwnRelease, Fenced, At, OwnedPcs
<1>5. CASE Reclaim(r)
  BY <1>5, ClaimKeepsSplits DEF Reclaim, SplitStays
<1>6. CASE SkipExisting(r) \/ SkipChunk(r) \/ ResumeSucceeded(r) \/ ClaimSettled(r) \/ ClaimBusy(r)
           \/ ReadOwn(r) \/ OwnHashes(r)
  BY <1>6 DEF SkipExisting, SkipChunk, ResumeSucceeded, ClaimSettled, ClaimBusy, ReadOwn, OwnHashes,
              SplitStays
<1> QED
  BY <1>1, <1>2, <1>3, <1>4, <1>5, <1>6 DEF ClaimStep

LEMMA StoreStepSplits ==
    ASSUME Inv, NEW r \in Runs, StoreStep(r) PROVE SplitStays /\ (UNCHANGED vector \/ Insert(r))
<1>1. CASE Record(r)
  BY <1>1, OwnedMarkKeepsSplits DEF Record, Fenced, At, OwnedPcs, ImportPcs, TryPcs
<1>2. CASE Insert(r)
  BY <1>2 DEF Insert, SplitStays
<1>3. CASE Attempt(r) \/ AttemptCancelled(r) \/ Reconcile(r) \/ Extract(r) \/ ClaimHash(r)
           \/ MarkLegacy(r)
  BY <1>3 DEF Attempt, AttemptCancelled, Reconcile, Extract, ClaimHash, MarkLegacy, SplitStays
<1>4. CASE Select(r) \/ Guard(r) \/ Effects(r) \/ Settle(r) \/ Done(r)
  BY <1>4 DEF Select, Guard, Effects, Settle, Done, SplitStays
<1> QED
  BY <1>1, <1>2, <1>3, <1>4 DEF StoreStep

LEMMA FailStepSplits ==
    ASSUME Inv, NEW r \in Runs, FailStep(r) PROVE SplitStays /\ UNCHANGED vector
<1>1. CASE FailManifest(r)
  BY <1>1, OwnedMarkKeepsSplits DEF FailManifest, Fenced, At, OwnedPcs, ImportPcs
<1>2. CASE CancelManifest(r)
  BY <1>2, OwnedMarkKeepsSplits DEF CancelManifest, Fenced, At, OwnedPcs, ImportPcs
<1>3. CASE SplitManifest(r)
  BY <1>3, SplitMarkKeepsSplits DEF SplitManifest
<1>4. CASE StoreFails(r) \/ Drop(r) \/ RedoFails(r) \/ Again(r) \/ GiveUpChunk(r) \/ FailChunk(r)
           \/ ReleaseChunkHashes(r) \/ SplitChunk(r) \/ CancelChunk(r)
  BY <1>4 DEF StoreFails, Drop, RedoFails, Again, GiveUpChunk, FailChunk, ReleaseChunkHashes,
              SplitChunk, CancelChunk, SplitStays
<1> QED
  BY <1>1, <1>2, <1>3, <1>4 DEF FailStep


\* A run that holds its lease owns the key it inserts for, and that key is not split.
LEMMA InsertSplits ==
    ASSUME Inv, NEW r \in Runs, Insert(r), NEW k \in Keys, manifest[k].status = "split"
    PROVE  RowsOf(k)' = RowsOf(k) \/ LateInsert(k)
<1>1. run[r].pc = "insert" /\ run[r].pc \in OwnedPcs
  BY DEF Insert, At, OwnedPcs, ImportPcs, TryPcs, StorePcs
<1>2. CASE K(r) = k
  <2>1. ~Holds(r)
    BY <1>1, <1>2, OwnerAt
  <2> QED
    BY <1>1, <1>2, <2>1 DEF LateInsert
<1>3. CASE K(r) # k
  <2>1. \A h \in Hashes : (vector'[h] = k) = (vector[h] = k)
    BY <1>3, InsertStores, NoOneAssumption
  <2> QED
    BY <2>1 DEF RowsOf
<1> QED
  BY <1>2, <1>3

LEMMA StepSplits ==
    ASSUME Inv, [Next]_vars
    PROVE  \A k \in Keys : manifest[k].status = "split" =>
             manifest'[k] = manifest[k] /\ (RowsOf(k)' = RowsOf(k) \/ LateInsert(k))
<1>1. ASSUME UNCHANGED vector, NEW k PROVE RowsOf(k)' = RowsOf(k)
  BY <1>1 DEF RowsOf
<1>2. ASSUME NEW r \in Runs, RunStep(r) PROVE SplitStays /\ (UNCHANGED vector \/ Insert(r))
  <2>1. CASE Plan(r) \/ Dedup(r) \/ EndRun(r) \/ Lose(r)
    BY <2>1 DEF Plan, Dedup, EndRun, Lose, SplitStays
  <2> QED
    BY <1>2, <2>1, ClaimStepSplits, StoreStepSplits, FailStepSplits DEF RunStep
<1>3. CASE \E r \in Runs : RunStep(r)
  BY <1>1, <1>2, <1>3, InsertSplits DEF SplitStays
<1>4. CASE \E r \in Runs : Fault(r) \/ \E j \in Jobs : Start(r, j)
  <2>1. SplitStays /\ UNCHANGED vector
    BY <1>4 DEF Fault, Crash, Expire, Break, BookkeepingFails, Start, SplitStays
  <2> QED
    BY <1>1, <2>1 DEF SplitStays
<1>5. CASE \E j \in Jobs : RequestCancel(j) \/ WriteOff(j) \/ Retry(j)
  <2>1. SplitStays /\ UNCHANGED vector
    BY <1>5 DEF RequestCancel, WriteOff, Retry, SplitStays
  <2> QED
    BY <1>1, <2>1 DEF SplitStays
<1>6. CASE UNCHANGED vars
  BY <1>1, <1>6 DEF vars
<1> QED
  BY <1>3, <1>4, <1>5, <1>6 DEF Next

\* SplitIsFinal: once mark_manifest has written "split", no run of any job claims the parent again
\* or stores anything for it, but one that lost its lease between its guard and its insertion.
THEOREM SplitIsFinalThm == Spec => SplitIsFinal
<1>1. Inv /\ [Next]_vars =>
        [\A k \in Keys : manifest[k].status = "split" =>
           manifest'[k] = manifest[k] /\ (RowsOf(k)' = RowsOf(k) \/ LateInsert(k))]_vars
  BY StepSplits
<1> QED
  BY <1>1, Invariance, PTL DEF Spec, SplitIsFinal

-----------------------------------------------------------------------------
(* Until something crashes, every claim on a memory has a run behind it. *)

ClaimPcs == {"hash", "legacy", "guard", "insert", "drop"}
Unsettled(h) == hash[h].status = "claimed" /\ vector[h] = NoOne
Claims(r, h) ==
    run[r].pc \in ClaimPcs /\ J(r) = hash[h].job /\ K(r) = hash[h].key /\ h \in run[r].got

RunsHoldLeases == \A r \in Runs : run[r].pc # "idle" => Holds(r)
ClaimsAreHeld == \A h \in Hashes : Unsettled(h) => \E r \in Runs : Claims(r, h)

Held == left.faults = MaxFaults => RunsHoldLeases /\ ClaimsAreHeld

\* What a run does about its own thread and its lease.
OwnThread(r) ==
    /\ \A q \in Runs \ {r} : run'[q] = run[q]
    /\ \/ run'[r].job = run[r].job /\ lease' = lease
       \/ run'[r].pc = "idle" /\ lease' \in {lease, [lease EXCEPT ![J(r)] = NoOne]}

LEMMA ClaimStepThread ==
    ASSUME Inv, NEW r \in Runs, ClaimStep(r) PROVE OwnThread(r) /\ run[r].pc # "idle"
<1>1. run[r].pc # "idle"
  BY DEF ClaimStep, SkipExisting, SkipClaim, SkipMark, SkipChunk, ResumeSucceeded, ClaimFree,
         ClaimSettled, ClaimBusy, ReadOwn, OwnRelease, OwnHashes, Reclaim, ToClaim, HasWork, Fenced, At
<1>2. run[r] \in Live /\ run \in [Runs -> Run] /\ lease' = lease
  BY <1>1, LiveAt DEF ClaimStep, SkipExisting, SkipClaim, SkipMark, SkipChunk, ResumeSucceeded,
         ClaimFree, ClaimSettled, ClaimBusy, ReadOwn, OwnRelease, OwnHashes, Reclaim, Inv
<1>3. ASSUME NEW pc, Goto(r, pc) PROVE OwnThread(r)
  BY <1>2, <1>3 DEF Goto, OwnThread, Live
<1>4. ASSUME NEW todo, Proceed(r, todo) PROVE OwnThread(r)
  BY <1>2, <1>4, IdleIsNotLive DEF Proceed, OwnThread, J
<1>5. ASSUME NEW rec, StartAttempts(r, rec) PROVE OwnThread(r)
  BY <1>2, <1>5 DEF StartAttempts, OwnThread, Live
<1>6. ASSUME Busy(r) PROVE OwnThread(r)
  <2>1. CASE run' = [run EXCEPT ![r].pc = "next", ![r].attempt = @ + 1]
    BY <1>2, <2>1 DEF OwnThread, Live
  <2> QED
    BY <1>4, <1>6, <2>1 DEF Busy
<1>7. OwnThread(r)
  BY <1>3, <1>4, <1>5, <1>6
     DEF ClaimStep, SkipExisting, SkipClaim, SkipMark, SkipChunk, ResumeSucceeded, ClaimFree,
         ClaimSettled, ClaimBusy, ReadOwn, OwnRelease, OwnHashes, Reclaim
<1> QED
  BY <1>1, <1>7

LEMMA StoreStepThread ==
    ASSUME Inv, NEW r \in Runs, StoreStep(r) PROVE OwnThread(r) /\ run[r].pc # "idle"
<1>1. run[r].pc # "idle"
  BY DEF StoreStep, Attempt, AttemptCancelled, Reconcile, Extract, ClaimHash, MarkLegacy, Select,
         Guard, Insert, Effects, Settle, Record, Done, Fenced, At
<1>2. run[r] \in Live /\ run \in [Runs -> Run] /\ lease' = lease
  BY <1>1, LiveAt DEF StoreStep, Attempt, AttemptCancelled, Reconcile, Extract, ClaimHash, MarkLegacy,
         Select, Guard, Insert, Effects, Settle, Record, Done, Inv
<1>0. ASSUME NEW t, run' = [run EXCEPT ![r] = t], t.job = run[r].job PROVE OwnThread(r)
  BY <1>0, <1>2 DEF OwnThread
<1>3. ASSUME NEW pc, Goto(r, pc) PROVE OwnThread(r)
  BY <1>2, <1>3 DEF Goto, OwnThread, Live
<1>4. ASSUME NEW todo, Proceed(r, todo) PROVE OwnThread(r)
  BY <1>2, <1>4, IdleIsNotLive DEF Proceed, OwnThread, J
<1>5. CASE Attempt(r)
  <2> DEFINE t == [run[r] EXCEPT !.pc = "store", !.got = {}]
  <2>1. run' = [run EXCEPT ![r] = t]
    BY <1>5 DEF Attempt
  <2>2. t.job = run[r].job
    BY <1>2 DEF Live
  <2> HIDE DEF t
  <2> QED
    BY <1>0, <1>1, <2>1, <2>2
<1>6. CASE Reconcile(r)
  <2> DEFINE t == [run[r] EXCEPT !.pc = "redo", !.got = RowsOf(K(r))]
  <2>1. run' = [run EXCEPT ![r] = t]
    BY <1>6 DEF Reconcile
  <2>2. t.job = run[r].job
    BY <1>2 DEF Live
  <2> HIDE DEF t
  <2> QED
    BY <1>0, <1>1, <2>1, <2>2
<1>7. CASE Extract(r)
  <2>1. PICK want : run' = [run EXCEPT ![r].pc = "hash", ![r].want = want]
    BY <1>7 DEF Extract
  <2> DEFINE t == [run[r] EXCEPT !.pc = "hash", !.want = want]
  <2>2. t.job = run[r].job /\ run' = [run EXCEPT ![r] = t]
    BY <1>2, <2>1 DEF Live
  <2> HIDE DEF t
  <2> QED
    BY <1>0, <1>1, <2>1, <2>2
<1>8. CASE ClaimHash(r)
  <2> DEFINE Passed(h) == [run[r] EXCEPT !.want = run[r].want \ {h}]
             Known(h) == [run[r] EXCEPT !.want = run[r].want \ {h}, !.mark = h, !.pc = "legacy"]
             Claimed(h) == [run[r] EXCEPT !.want = run[r].want \ {h}, !.got = run[r].got \cup {h}]
  <2>1. \E h : \/ run' = [run EXCEPT ![r] = Passed(h)]
               \/ run' = [run EXCEPT ![r] = Known(h)]
               \/ run' = [run EXCEPT ![r] = Claimed(h)]
    BY <1>8 DEF ClaimHash
  <2>2. \A h : /\ Passed(h).job = run[r].job /\ Known(h).job = run[r].job
               /\ Claimed(h).job = run[r].job
    BY <1>2 DEF Live
  <2> HIDE DEF Passed, Known, Claimed
  <2> QED
    BY <1>0, <1>1, <2>1, <2>2
<1>9. CASE MarkLegacy(r)
  <2> DEFINE t == [run[r] EXCEPT !.pc = "hash", !.mark = NoOne]
  <2>1. run' = [run EXCEPT ![r] = t]
    BY <1>9 DEF MarkLegacy
  <2>2. t.job = run[r].job
    BY <1>2 DEF Live
  <2> HIDE DEF t
  <2> QED
    BY <1>0, <1>1, <2>1, <2>2
<1>10. OwnThread(r)
  BY <1>3, <1>4, <1>5, <1>6, <1>7, <1>8, <1>9
     DEF StoreStep, AttemptCancelled, Select, Guard, Insert, Effects, Settle, Record, Done
<1> QED
  BY <1>1, <1>10

LEMMA FailStepThread ==
    ASSUME Inv, NEW r \in Runs, FailStep(r) PROVE OwnThread(r) /\ run[r].pc # "idle"
<1>1. run[r].pc # "idle"
  BY DEF FailStep, StoreFails, Drop, RedoFails, Again, GiveUpChunk, FailManifest, FailChunk,
         SplitManifest, CancelManifest, ReleaseChunkHashes, SplitChunk, CancelChunk, StorePcs,
         Fenced, At
<1>2. run[r] \in Live /\ run \in [Runs -> Run] /\ lease' = lease
  BY <1>1, LiveAt DEF FailStep, StoreFails, Drop, RedoFails, Again, GiveUpChunk, FailManifest,
         FailChunk, SplitManifest, CancelManifest, ReleaseChunkHashes, SplitChunk, CancelChunk, Inv
<1>3. ASSUME NEW pc, Goto(r, pc) PROVE OwnThread(r)
  BY <1>2, <1>3 DEF Goto, OwnThread, Live
<1>4. ASSUME NEW todo, Proceed(r, todo) PROVE OwnThread(r)
  BY <1>2, <1>4, IdleIsNotLive DEF Proceed, OwnThread, J
<1>5. CASE Again(r)
  BY <1>2, <1>5 DEF Again, OwnThread, Live
<1>6. OwnThread(r)
  BY <1>3, <1>4, <1>5
     DEF FailStep, StoreFails, Drop, RedoFails, GiveUpChunk, FailManifest, FailChunk, SplitManifest,
         CancelManifest, ReleaseChunkHashes, SplitChunk, CancelChunk
<1> QED
  BY <1>1, <1>6

LEMMA OtherStepThread ==
    ASSUME Inv, NEW r \in Runs, Plan(r) \/ Dedup(r) \/ EndRun(r)
    PROVE  OwnThread(r) /\ run[r].pc # "idle"
<1>1. run[r].pc # "idle"
  BY DEF Plan, Dedup, EndRun, Fenced, At
<1>2. run[r] \in Live /\ run \in [Runs -> Run]
  BY <1>1, LiveAt DEF Inv
<1>0. ASSUME NEW t, run' = [run EXCEPT ![r] = t], t.job = run[r].job, lease' = lease
      PROVE  OwnThread(r)
  BY <1>0, <1>2 DEF OwnThread
<1>3. CASE Plan(r)
  <2> DEFINE x == Leaves(J(r), PersistedSplit(J(r)))
  <2> DEFINE t == [run[r] EXCEPT !.pc = "dedup", !.todo = x]
  <2>1. run' = [run EXCEPT ![r] = t] /\ lease' = lease
    BY <1>3 DEF Plan
  <2> HIDE DEF x
  <2>2. t.job = run[r].job
    BY <1>2 DEF Live
  <2> HIDE DEF t
  <2> QED
    BY <1>0, <1>1, <2>1, <2>2
<1>4. CASE Dedup(r)
  <2> DEFINE x == {k \in ExistingKeys(J(r)) : \E i \in DOMAIN run[r].todo : run[r].todo[i] = k}
  <2> DEFINE t == [run[r] EXCEPT !.pc = "next", !.existing = x]
  <2>1. run' = [run EXCEPT ![r] = t] /\ lease' = lease
    BY <1>4 DEF Dedup
  <2> HIDE DEF x
  <2>2. t.job = run[r].job
    BY <1>2 DEF Live
  <2> HIDE DEF t
  <2> QED
    BY <1>0, <1>1, <2>1, <2>2
<1>5. CASE EndRun(r)
  <2>1. run' = [run EXCEPT ![r] = Idle] /\ lease' = [lease EXCEPT ![J(r)] = NoOne]
    BY <1>5 DEF EndRun
  <2> QED
    BY <1>1, <1>2, <2>1, IdleIsNotLive DEF OwnThread
<1> QED
  BY <1>1, <1>3, <1>4, <1>5

\* What becomes of the claims when r steps.
ClaimsKept(r) ==
    \A h \in Hashes : Unsettled(h)' =>
        Claims(r, h)' \/ (hash'[h] = hash[h] /\ Unsettled(h) /\ ~Claims(r, h))

LEMMA HeldStep ==
    ASSUME Inv, Held, NEW r \in Runs, OwnThread(r), run[r].pc # "idle", UNCHANGED left,
           left.faults = MaxFaults => ClaimsKept(r)
    PROVE  Held'
<1>1. SUFFICES ASSUME left.faults = MaxFaults, RunsHoldLeases, ClaimsAreHeld, ClaimsKept(r)
               PROVE  RunsHoldLeases' /\ ClaimsAreHeld'
  BY DEF Held
<1>2. J(r) \in Jobs /\ Holds(r) /\ LeaseOK
  BY <1>1, LiveAt DEF RunsHoldLeases, Inv, RowsOK
<1>3. ASSUME NEW q \in Runs, run'[q].pc # "idle" PROVE Holds(q)'
  <2>1. CASE q = r
    BY <1>2, <1>3, <2>1 DEF OwnThread, Holds, J
  <2>2. CASE q # r
    <3>1. run'[q] = run[q] /\ run[q].pc # "idle" /\ Holds(q) /\ J(q) \in Jobs
      BY <1>1, <1>3, <2>2, LiveAt DEF OwnThread, RunsHoldLeases
    <3>2. J(q) # J(r)
      BY <1>2, <2>2, <3>1 DEF Holds
    <3> QED
      BY <1>2, <3>1, <3>2 DEF OwnThread, Holds, J, LeaseOK
  <2> QED
    BY <2>1, <2>2
<1>4. ASSUME NEW h \in Hashes, Unsettled(h)' PROVE \E q \in Runs : Claims(q, h)'
  <2>1. CASE Claims(r, h)'
    BY <2>1
  <2>2. CASE hash'[h] = hash[h] /\ Unsettled(h) /\ ~Claims(r, h)
    <3>1. PICK q \in Runs : Claims(q, h)
      BY <1>1, <2>2 DEF ClaimsAreHeld
    <3>2. run'[q] = run[q]
      BY <2>2, <3>1 DEF OwnThread
    <3> QED
      BY <2>2, <3>1, <3>2 DEF Claims, J, K
  <2> QED
    BY <1>1, <1>4, <2>1, <2>2 DEF ClaimsKept
<1> QED
  BY <1>3, <1>4 DEF RunsHoldLeases, ClaimsAreHeld

\* A step that makes no claim, of a run that has none or keeps the ones it has.
LEMMA QuietClaims ==
    ASSUME NEW r \in Runs, UNCHANGED vector,
           \A h \in Hashes : hash'[h] = hash[h] \/ hash'[h].status # "claimed",
           \/ run[r].pc \notin ClaimPcs \/ run[r].got = {}
           \/ Same(r) /\ run'[r].pc \in ClaimPcs /\ run'[r].got = run[r].got
    PROVE  ClaimsKept(r)
<1> SUFFICES ASSUME NEW h \in Hashes, Unsettled(h)', ~Claims(r, h)'
             PROVE  hash'[h] = hash[h] /\ Unsettled(h) /\ ~Claims(r, h)
  BY DEF ClaimsKept
<1>1. hash'[h] = hash[h] /\ Unsettled(h)
  BY DEF Unsettled
<1>2. ~Claims(r, h)
  BY <1>1 DEF Claims, Same, J, K
<1> QED
  BY <1>1, <1>2

LEMMA ReleaseMakesNone ==
    ASSUME NEW r \in Runs, NEW hs, ReleaseHashes(r, hs)
    PROVE  \A h \in Hashes : hash'[h] = hash[h] \/ hash'[h].status # "claimed"
BY DEF ReleaseHashes, Free

LEMMA SucceedMakesNone ==
    ASSUME Inv, NEW r \in Runs, NEW hs, SucceedHashes(r, hs)
    PROVE  \A h \in Hashes : hash'[h] = hash[h] \/ hash'[h].status # "claimed"
BY DEF SucceedHashes, Inv, RowsOK, HashOK, Hash

LEMMA ClaimStepClaims ==
    ASSUME Inv, NEW r \in Runs, ClaimStep(r) PROVE ClaimsKept(r) /\ UNCHANGED left
<1>1. run[r].pc \notin ClaimPcs
  BY DEF ClaimPcs, ClaimStep, SkipExisting, SkipClaim, SkipMark, SkipChunk, ResumeSucceeded,
         ClaimFree, ClaimSettled, ClaimBusy, ReadOwn, OwnRelease, OwnHashes, Reclaim, ToClaim,
         HasWork, Fenced, At
<1>2. UNCHANGED <<vector, left>> /\ (UNCHANGED hash \/ ReleaseHashes(r, Hashes))
  BY DEF ClaimStep, SkipExisting, SkipClaim, SkipMark, SkipChunk, ResumeSucceeded, ClaimFree,
         ClaimSettled, ClaimBusy, ReadOwn, OwnRelease, OwnHashes, Reclaim
<1> QED
  BY <1>1, <1>2, ReleaseMakesNone, QuietClaims

\* A new claim is among what the run has got.
LEMMA ClaimHashClaims ==
    ASSUME Inv, NEW r \in Runs, ClaimHash(r) PROVE ClaimsKept(r)
<1>1. run[r].pc = "hash" /\ run[r] \in Live /\ run[r].legacy \subseteq StoredHashes
      /\ UNCHANGED vector /\ run \in [Runs -> Run]
  BY LiveAt DEF ClaimHash, Fenced, At, Inv, RunOK, RemembersStored
<1> DEFINE Passed(h) == [run[r] EXCEPT !.want = run[r].want \ {h}]
           Known(h) == [run[r] EXCEPT !.want = run[r].want \ {h}, !.mark = h, !.pc = "legacy"]
           Claimed(h) == [run[r] EXCEPT !.want = run[r].want \ {h}, !.got = run[r].got \cup {h}]
<1>2. PICK h \in run[r].want :
         \/ run' = [run EXCEPT ![r] = Passed(h)] /\ UNCHANGED hash
         \/ /\ hash' = [hash EXCEPT ![h] = ClaimOf(r)]
            /\ \/ h \in run[r].legacy /\ run' = [run EXCEPT ![r] = Known(h)]
               \/ run' = [run EXCEPT ![r] = Claimed(h)]
  BY DEF ClaimHash
<1>3. /\ Passed(h).pc = "hash" /\ Passed(h).job = run[r].job /\ Passed(h).todo = run[r].todo
      /\ Passed(h).got = run[r].got
      /\ Known(h).pc = "legacy" /\ Known(h).job = run[r].job /\ Known(h).todo = run[r].todo
      /\ Known(h).got = run[r].got
      /\ Claimed(h).pc = "hash" /\ Claimed(h).job = run[r].job /\ Claimed(h).todo = run[r].todo
      /\ Claimed(h).got = run[r].got \cup {h}
  BY <1>1 DEF Live
<1> HIDE DEF Passed, Known, Claimed
<1>4. /\ run'[r].pc \in ClaimPcs /\ J(r)' = J(r) /\ K(r)' = K(r) /\ run[r].got \subseteq run'[r].got
      /\ \/ UNCHANGED hash
         \/ hash' = [hash EXCEPT ![h] = ClaimOf(r)] /\ (h \in StoredHashes \/ h \in run'[r].got)
  BY <1>1, <1>2, <1>3 DEF ClaimPcs, J, K
<1>5. SUFFICES ASSUME NEW x \in Hashes, Unsettled(x)', ~Claims(r, x)'
               PROVE  hash'[x] = hash[x] /\ Unsettled(x) /\ ~Claims(r, x)
  BY DEF ClaimsKept
<1>6. CASE hash'[x] = hash[x]
  BY <1>1, <1>4, <1>5, <1>6 DEF Unsettled, Claims
<1>7. CASE hash'[x] # hash[x]
  <2>1. x = h /\ hash'[x] = ClaimOf(r) /\ h \in run'[r].got
    BY <1>1, <1>4, <1>5, <1>7 DEF Unsettled, StoredHashes, Inv, RowsOK, HashOK
  <2>2. Claims(r, x)'
    BY <1>4, <2>1 DEF Claims, ClaimOf
  <2> QED
    BY <1>5, <2>2
<1> QED
  BY <1>6, <1>7

\* What has been claimed is stored by the insertion, or dropped after it failed.
LEMMA InsertClaims ==
    ASSUME Inv, NEW r \in Runs, Insert(r) PROVE ClaimsKept(r)
<1>1. run[r].pc = "insert" /\ run[r].pc # "idle" /\ UNCHANGED hash
  BY DEF Insert, At
<1>2. CASE UNCHANGED vector /\ Goto(r, "drop")
  <2>1. Same(r) /\ run'[r].pc = "drop" /\ run'[r].got = run[r].got
    BY <1>1, <1>2, GotoRun DEF Pcs, ImportPcs, TryPcs
  <2> QED
    BY <1>1, <1>2, <2>1, QuietClaims DEF ClaimPcs
<1>3. CASE Grows /\ run[r].got \subseteq StoredHashes'
  BY <1>1, <1>3 DEF ClaimsKept, Unsettled, Claims, Grows, StoredHashes
<1> QED
  BY <1>2, <1>3, InsertStores

LEMMA DropClaims ==
    ASSUME Inv, NEW r \in Runs, Drop(r) PROVE ClaimsKept(r)
<1>1. UNCHANGED vector /\ ReleaseHashes(r, run[r].got)
  BY DEF Drop
<1> SUFFICES ASSUME NEW h \in Hashes, Unsettled(h)'
             PROVE  hash'[h] = hash[h] /\ Unsettled(h) /\ ~Claims(r, h)
  BY DEF ClaimsKept
<1>2. hash'[h] = hash[h] /\ Unsettled(h)
  BY <1>1, ReleaseMakesNone DEF Unsettled
<1>3. ASSUME Claims(r, h) PROVE FALSE
  <2>1. hash[h] = ClaimOf(r) /\ h \in run[r].got
    BY <1>2, <1>3 DEF Claims, ClaimOf, Unsettled, Inv, RowsOK, HashOK, Hash
  <2>2. hash'[h] = Free
    BY <1>1, <2>1 DEF ReleaseHashes
  <2> QED
    BY <1>2, <2>1, <2>2 DEF ClaimOf, Free
<1> QED
  BY <1>2, <1>3

LEMMA StoreStepClaims ==
    ASSUME Inv, NEW r \in Runs, StoreStep(r) PROVE ClaimsKept(r) /\ UNCHANGED left
<1>1. UNCHANGED left
  BY DEF StoreStep, Attempt, AttemptCancelled, Reconcile, Extract, ClaimHash, MarkLegacy, Select,
         Guard, Insert, Effects, Settle, Record, Done
<1>2. CASE \/ Attempt(r) \/ AttemptCancelled(r) \/ Reconcile(r) \/ Extract(r) \/ Effects(r)
           \/ Record(r) \/ Done(r)
  <2>1. run[r].pc \notin ClaimPcs /\ UNCHANGED <<vector, hash>>
    BY <1>2 DEF ClaimPcs, Attempt, AttemptCancelled, Reconcile, Extract, Effects, Record, Done,
                Fenced, At
  <2> QED
    BY <1>1, <2>1, QuietClaims
<1>3. CASE Settle(r)
  <2>1. run[r].pc \notin ClaimPcs /\ UNCHANGED vector /\ SucceedHashes(r, run[r].got)
    BY <1>3 DEF ClaimPcs, Settle, Fenced, At
  <2> QED
    BY <1>1, <2>1, SucceedMakesNone, QuietClaims
<1>4. CASE MarkLegacy(r)
  <2> DEFINE t == [run[r] EXCEPT !.pc = "hash", !.mark = NoOne]
  <2>1. run[r] \in Live /\ run \in [Runs -> Run] /\ run' = [run EXCEPT ![r] = t]
    BY <1>4, LiveAt DEF MarkLegacy, Fenced, At, Inv
  <2>2. /\ t.pc = "hash" /\ t.job = run[r].job /\ t.todo = run[r].todo /\ t.legacy = run[r].legacy
        /\ t.got = run[r].got
    BY <2>1 DEF Live
  <2> HIDE DEF t
  <2>3. Same(r) /\ run'[r].pc = "hash" /\ run'[r].got = run[r].got
    BY <2>1, <2>2 DEF Same
  <2>4. UNCHANGED vector /\ SucceedHashes(r, {run[r].mark})
    BY <1>4 DEF MarkLegacy
  <2> QED
    BY <1>1, <2>3, <2>4, SucceedMakesNone, QuietClaims DEF ClaimPcs
<1>5. CASE Select(r) \/ Guard(r)
  <2>1. UNCHANGED <<vector, hash>> /\ run[r].pc # "idle"
    BY <1>5 DEF Select, Guard, Fenced, At
  <2>2. CASE run[r].got = {}
    BY <1>1, <2>1, <2>2, QuietClaims
  <2>3. CASE Goto(r, "guard") \/ Goto(r, "insert")
    <3>1. Same(r) /\ run'[r].pc \in {"guard", "insert"} /\ run'[r].got = run[r].got
      BY <2>1, <2>3, GotoRun DEF Pcs, ImportPcs, TryPcs, StorePcs
    <3> QED
      BY <1>1, <2>1, <3>1, QuietClaims DEF ClaimPcs
  <2> QED
    BY <1>5, <2>2, <2>3 DEF Select, Guard
<1> QED
  BY <1>1, <1>2, <1>3, <1>4, <1>5, ClaimHashClaims, InsertClaims DEF StoreStep

LEMMA FailStepClaims ==
    ASSUME Inv, NEW r \in Runs, FailStep(r) PROVE ClaimsKept(r) /\ UNCHANGED left
<1>1. UNCHANGED left
  BY DEF FailStep, StoreFails, Drop, RedoFails, Again, GiveUpChunk, FailManifest, FailChunk,
         SplitManifest, CancelManifest, ReleaseChunkHashes, SplitChunk, CancelChunk
<1>2. CASE StoreFails(r)
  <2>1. UNCHANGED <<vector, hash>> /\ run[r].pc # "idle" /\ Goto(r, "drop")
    BY <1>2 DEF StoreFails, StorePcs
  <2>2. Same(r) /\ run'[r].pc = "drop" /\ run'[r].got = run[r].got
    BY <2>1, GotoRun DEF Pcs, ImportPcs, TryPcs
  <2> QED
    BY <1>1, <2>1, <2>2, QuietClaims DEF ClaimPcs
<1>3. CASE \/ RedoFails(r) \/ Again(r) \/ GiveUpChunk(r) \/ FailManifest(r) \/ FailChunk(r)
           \/ SplitManifest(r) \/ CancelManifest(r) \/ ReleaseChunkHashes(r) \/ SplitChunk(r)
           \/ CancelChunk(r)
  <2>1. run[r].pc \notin ClaimPcs
    BY <1>3 DEF ClaimPcs, RedoFails, Again, GiveUpChunk, FailManifest, FailChunk, SplitManifest,
                CancelManifest, ReleaseChunkHashes, SplitChunk, CancelChunk, Fenced, At
  <2>2. UNCHANGED vector /\ (UNCHANGED hash \/ ReleaseHashes(r, Hashes))
    BY <1>3 DEF RedoFails, Again, GiveUpChunk, FailManifest, FailChunk, SplitManifest,
                CancelManifest, ReleaseChunkHashes, SplitChunk, CancelChunk
  <2> QED
    BY <1>1, <2>1, <2>2, ReleaseMakesNone, QuietClaims
<1> QED
  BY <1>1, <1>2, <1>3, DropClaims DEF FailStep

LEMMA StartHeld ==
    ASSUME Inv, Held, NEW r \in Runs, NEW j \in Jobs, Start(r, j) PROVE Held'
<1> DEFINE legacy == {h \in Hashes : vector[h] # NoOne}
<1> DEFINE t == [Idle EXCEPT !.job = j, !.pc = "plan", !.legacy = legacy]
<1>1. t.job = j
  BY IdleIsNotLive
<1>2. /\ run' = [run EXCEPT ![r] = t] /\ run[r].pc = "idle" /\ run \in [Runs -> Run]
      /\ lease[j] = NoOne /\ lease' = [lease EXCEPT ![j] = r] /\ lease \in [Jobs -> Runs \cup {NoOne}]
      /\ UNCHANGED <<hash, vector, left>>
  BY IdleIsNotLive DEF Start, Inv, RowsOK, LeaseOK
<1> HIDE DEF t
<1>3. run'[r].job = j /\ \A q \in Runs \ {r} : run'[q] = run[q]
  BY <1>1, <1>2
<1>4. SUFFICES ASSUME RunsHoldLeases, ClaimsAreHeld PROVE RunsHoldLeases' /\ ClaimsAreHeld'
  BY <1>2 DEF Held
<1>5. ASSUME NEW q \in Runs, run'[q].pc # "idle" PROVE Holds(q)'
  <2>1. CASE q = r
    BY <1>2, <1>3, <2>1 DEF Holds, J
  <2>2. CASE q # r
    <3>1. run'[q] = run[q] /\ Holds(q) /\ J(q) \in Jobs
      BY <1>3, <1>4, <1>5, <2>2, LiveAt DEF RunsHoldLeases
    <3> QED
      BY <1>2, <3>1, NoOneAssumption DEF Holds, J
  <2> QED
    BY <2>1, <2>2
<1>6. ASSUME NEW h \in Hashes, Unsettled(h)' PROVE \E q \in Runs : Claims(q, h)'
  <2>1. PICK q \in Runs : Claims(q, h)
    BY <1>2, <1>4, <1>6 DEF ClaimsAreHeld, Unsettled
  <2>2. run'[q] = run[q]
    BY <1>2, <1>3, <2>1 DEF Claims, ClaimPcs
  <2> QED
    BY <1>2, <2>1, <2>2 DEF Claims, J, K
<1> QED
  BY <1>5, <1>6 DEF RunsHoldLeases, ClaimsAreHeld

\* After the first fault nothing is promised.
LEMMA FaultHeld ==
    ASSUME Inv, NEW r \in Runs, Fault(r) PROVE Held'
<1>1. Spend("faults")
  BY DEF Fault, Crash, Expire, Break, BookkeepingFails
<1>2. left'.faults # MaxFaults
  BY <1>1, BoundsAssumption DEF Spend, Inv, RowsOK, LeftOK
<1> QED
  BY <1>2 DEF Held

LEMMA JobHeld ==
    ASSUME Inv, Held, left'.faults = left.faults, UNCHANGED <<lease, hash, vector, run>> PROVE Held'
BY DEF Held, RunsHoldLeases, ClaimsAreHeld, Unsettled, Claims, Holds, J, K

LEMMA StepHeld == Inv /\ Held /\ [Next]_vars => Held'
<1> SUFFICES ASSUME Inv, Held, [Next]_vars PROVE Held'
  OBVIOUS
<1>1. ASSUME NEW r \in Runs, RunStep(r) PROVE Held'
  <2>1. CASE ClaimStep(r)
    BY <2>1, ClaimStepThread, ClaimStepClaims, HeldStep
  <2>2. CASE StoreStep(r)
    BY <2>2, StoreStepThread, StoreStepClaims, HeldStep
  <2>3. CASE FailStep(r)
    BY <2>3, FailStepThread, FailStepClaims, HeldStep
  <2>4. CASE Plan(r) \/ Dedup(r) \/ EndRun(r)
    <3>1. UNCHANGED <<hash, vector, left>> /\ run[r].pc \notin ClaimPcs
      BY <2>4 DEF Plan, Dedup, EndRun, Fenced, At, ClaimPcs
    <3> QED
      BY <2>4, <3>1, OtherStepThread, QuietClaims, HeldStep
  <2>5. CASE Lose(r)
    <3>1. run[r].pc # "idle" /\ ~Holds(r) /\ UNCHANGED left
      BY <2>5, LiveAt DEF Lose, Live, Pcs, ImportPcs, TryPcs, StorePcs
    <3> QED
      BY <3>1 DEF Held, RunsHoldLeases
  <2> QED
    BY <1>1, <2>1, <2>2, <2>3, <2>4, <2>5 DEF RunStep
<1>2. ASSUME NEW j \in Jobs, RequestCancel(j) \/ WriteOff(j) \/ Retry(j) PROVE Held'
  <2>1. left'.faults = left.faults /\ UNCHANGED <<lease, hash, vector, run>>
    BY <1>2 DEF RequestCancel, WriteOff, Retry, Spend, Inv, RowsOK, LeftOK
  <2> QED
    BY <2>1, JobHeld
<1>3. CASE UNCHANGED vars
  BY <1>3, JobHeld DEF vars
<1> QED
  BY <1>1, <1>2, <1>3, StartHeld, FaultHeld DEF Next

LEMMA InitHeld == Init => Held
BY DEF Init, Held, RunsHoldLeases, ClaimsAreHeld, Unsettled, Free, Idle

\* ClaimIsHeld: as long as nothing crashed, claim_memory_hash and the release after a failed attempt
\* leave no claim on a memory that nobody is about to store.
THEOREM ClaimIsHeldThm == Spec => []ClaimIsHeld
<1>1. Held => ClaimIsHeld
  <2> SUFFICES ASSUME Held, left.faults = MaxFaults, NEW h \in Hashes, Unsettled(h)
               PROVE  \E r \in Runs : Importing(r) /\ J(r) = hash[h].job /\ K(r) = hash[h].key
    BY DEF ClaimIsHeld, Unsettled
  <2>1. PICK r \in Runs : Claims(r, h)
    BY DEF Held, ClaimsAreHeld
  <2>2. run[r].pc \in ImportPcs /\ run[r].pc # "idle"
    BY <2>1 DEF Claims, ClaimPcs, ImportPcs, TryPcs, StorePcs
  <2> QED
    BY <2>1, <2>2 DEF Held, RunsHoldLeases, Importing, Claims
<1> QED
  BY <1>1, InitHeld, StepHeld, Invariance, PTL DEF Spec

-----------------------------------------------------------------------------
(* What a run that works at a chunk writes, and what becomes of the run. *)

Work(r) == ClaimStep(r) \/ StoreStep(r) \/ FailStep(r)

Row(r) == chunk[J(r)][K(r)]
WritesChunk(r) ==
    \/ UNCHANGED chunk
    \/ /\ Holds(r)
       /\ \E status \in ChunkStatuses :
            /\ SetChunk(r, status)
            /\ status = "succeeded" => run[r].pc \in {"done", "resumed"} \/ Row(r) = status
            /\ status = "skipped" => run[r].pc = "skip" \/ Row(r) = status

\* mark_manifest is called with another status than "succeeded" at these steps.
MarkPcs == {"ownrelease", "fail", "cancel", "split"}
WritesManifest(r) ==
    \/ UNCHANGED manifest
    \/ Holds(r) /\ Claimable(K(r)) /\ ClaimManifest(r)
    \/ Holds(r) /\ MarkManifest(r, "succeeded")
    \/ /\ Holds(r) /\ run[r].pc \in MarkPcs
       /\ \E status \in ManifestStatuses \ {"absent", "succeeded"} : MarkManifest(r, status)

Stays(r) ==
    /\ run'[r].job = run[r].job /\ run'[r].todo = run[r].todo
    /\ run'[r].existing = run[r].existing
Proceeds(r, todo) ==
    /\ run'[r].job = run[r].job /\ run'[r].todo = todo /\ run'[r].existing = run[r].existing
    /\ run'[r].pc = "next"
SameAttempt(r) == run'[r].attempt = run[r].attempt /\ run'[r].rec = run[r].rec

LEMMA WorkAt ==
    ASSUME Inv, NEW r \in Runs, Work(r)
    PROVE  /\ run[r].pc \notin {"idle", "plan", "dedup"} /\ run[r] \in Live /\ run[r].todo # <<>>
           /\ J(r) \in Jobs /\ K(r) \in Keys /\ run \in [Runs -> Run]
<1>1. ASSUME HasWork(r) PROVE run[r].pc = "next" /\ run[r].todo # <<>>
  BY <1>1 DEF HasWork, Fenced, At
<1>2. run[r].pc \notin {"idle", "plan", "dedup"}
      /\ (run[r].pc \notin Chunkless \/ (run[r].pc # "idle" /\ run[r].todo # <<>>))
  <2>1. CASE ClaimStep(r)
    <3>1. CASE SkipExisting(r) \/ ResumeSucceeded(r) \/ ClaimFree(r) \/ ClaimSettled(r) \/ ClaimBusy(r)
      BY <1>1, <3>1 DEF SkipExisting, ResumeSucceeded, ClaimFree, ClaimSettled, ClaimBusy, ToClaim
    <3>2. CASE SkipClaim(r) \/ SkipMark(r) \/ SkipChunk(r) \/ ReadOwn(r) \/ OwnRelease(r)
               \/ OwnHashes(r) \/ Reclaim(r)
      BY <3>2 DEF SkipClaim, SkipMark, SkipChunk, ReadOwn, OwnRelease, OwnHashes, Reclaim, Fenced, At,
                  Chunkless
    <3> QED
      BY <2>1, <3>1, <3>2 DEF ClaimStep
  <2>2. CASE StoreStep(r)
    BY <2>2 DEF StoreStep, Attempt, AttemptCancelled, Reconcile, Extract, ClaimHash, MarkLegacy, Select,
         Guard, Insert, Effects, Settle, Record, Done, Fenced, At, Chunkless
  <2>3. CASE FailStep(r)
    BY <2>3 DEF FailStep, StoreFails, Drop, RedoFails, Again, GiveUpChunk, FailManifest, FailChunk,
         SplitManifest, CancelManifest, ReleaseChunkHashes, SplitChunk, CancelChunk, StorePcs,
         Fenced, At, Chunkless
  <2> QED
    BY <2>1, <2>2, <2>3 DEF Work
<1> QED
  BY <1>2, ChunkAtHand, LiveAt DEF Inv

LEMMA WorkWrites ==
    ASSUME Inv, NEW r \in Runs, Work(r)
    PROVE  /\ UNCHANGED <<job, cancel, lease, left>> /\ OwnThread(r)
           /\ UNCHANGED vector \/ Insert(r)
           /\ SplitStays
<1>1. CASE ClaimStep(r)
  <2>1. UNCHANGED <<job, cancel, lease, left>>
    BY <1>1 DEF ClaimStep, SkipExisting, SkipClaim, SkipMark, SkipChunk, ResumeSucceeded,
         ClaimFree, ClaimSettled, ClaimBusy, ReadOwn, OwnRelease, OwnHashes, Reclaim
  <2> QED
    BY <1>1, <2>1, ClaimStepThread, ClaimStepSplits
<1>2. CASE StoreStep(r)
  <2>1. UNCHANGED <<job, cancel, lease, left>>
    BY <1>2 DEF StoreStep, Attempt, AttemptCancelled, Reconcile, Extract, ClaimHash, MarkLegacy, Select,
         Guard, Insert, Effects, Settle, Record, Done
  <2> QED
    BY <1>2, <2>1, StoreStepThread, StoreStepSplits
<1>3. CASE FailStep(r)
  <2>1. UNCHANGED <<job, cancel, lease, left>>
    BY <1>3 DEF FailStep, StoreFails, Drop, RedoFails, Again, GiveUpChunk, FailManifest, FailChunk,
         SplitManifest, CancelManifest, ReleaseChunkHashes, SplitChunk, CancelChunk
  <2> QED
    BY <1>3, <2>1, FailStepThread, FailStepSplits
<1> QED
  BY <1>1, <1>2, <1>3 DEF Work

LEMMA WorkChunk ==
    ASSUME Inv, NEW r \in Runs, Work(r) PROVE WritesChunk(r)
<1>0. /\ run[r].todo # <<>> /\ J(r) \in Jobs /\ K(r) \in Keys
      /\ chunk \in [Jobs -> [Keys -> ChunkStatuses]]
  BY WorkAt DEF Inv, RowsOK, ChunkOK
<1>1. CASE SkipExisting(r)
  <2> DEFINE s == IF chunk[J(r)][K(r)] = "absent" THEN "open" ELSE chunk[J(r)][K(r)]
  <2>1. /\ s \in ChunkStatuses /\ SetChunk(r, s) /\ Holds(r)
        /\ s \in {"succeeded", "skipped"} => Row(r) = s
    BY <1>0, <1>1 DEF SkipExisting, HasWork, Fenced, SetChunk, ChunkStatuses, Row
  <2> HIDE DEF s
  <2> QED
    BY <2>1 DEF WritesChunk
<1>2. ASSUME OpenChunk(r), Holds(r) PROVE WritesChunk(r)
  <2> DEFINE s == IF chunk[J(r)][K(r)] \in {"succeeded", "split"} THEN chunk[J(r)][K(r)] ELSE "open"
  <2>1. s \in ChunkStatuses /\ SetChunk(r, s) /\ (s = "succeeded" => Row(r) = s) /\ s # "skipped"
    BY <1>0, <1>2 DEF OpenChunk, SetChunk, ChunkStatuses, Row
  <2> HIDE DEF s
  <2> QED
    BY <1>2, <2>1 DEF WritesChunk
<1>3. CASE ClaimFree(r) \/ ClaimSettled(r) \/ ClaimBusy(r) \/ Reclaim(r)
  <2>1. Holds(r) /\ (OpenChunk(r) \/ SetChunk(r, "failed") \/ UNCHANGED chunk)
    BY <1>3 DEF ClaimFree, ClaimSettled, ClaimBusy, Reclaim, Busy, ToClaim, HasWork, Fenced
  <2> QED
    BY <1>2, <2>1 DEF WritesChunk, ChunkStatuses
<1>4. CASE SkipClaim(r) \/ SkipMark(r) \/ SkipChunk(r) \/ ResumeSucceeded(r) \/ ReadOwn(r)
           \/ OwnRelease(r) \/ OwnHashes(r)
  BY <1>4 DEF SkipClaim, SkipMark, SkipChunk, ResumeSucceeded, ReadOwn, OwnRelease, OwnHashes, Fenced,
              At, WritesChunk, ChunkStatuses
<1>5. CASE StoreStep(r)
  BY <1>5 DEF StoreStep, Attempt, AttemptCancelled, Reconcile, Extract, ClaimHash, MarkLegacy, Select,
         Guard, Insert, Effects, Settle, Record, Done, Fenced, At, WritesChunk, ChunkStatuses
<1>6. CASE FailStep(r)
  BY <1>6 DEF FailStep, StoreFails, Drop, RedoFails, Again, GiveUpChunk, FailManifest, FailChunk,
         SplitManifest, CancelManifest, ReleaseChunkHashes, SplitChunk, CancelChunk, Fenced,
         WritesChunk, ChunkStatuses
<1> QED
  BY <1>1, <1>3, <1>4, <1>5, <1>6 DEF Work, ClaimStep

LEMMA WorkManifest ==
    ASSUME Inv, NEW r \in Runs, Work(r) PROVE WritesManifest(r)
<1>1. CASE SkipClaim(r) \/ ClaimFree(r) \/ Reclaim(r)
  BY <1>1 DEF SkipClaim, ClaimFree, Reclaim, ToClaim, HasWork, Fenced, WritesManifest
<1>2. CASE SkipMark(r) \/ Record(r)
  BY <1>2 DEF SkipMark, Record, Fenced, WritesManifest
<1>3. CASE OwnRelease(r) \/ FailManifest(r) \/ SplitManifest(r) \/ CancelManifest(r)
  BY <1>3 DEF OwnRelease, FailManifest, SplitManifest, CancelManifest, Fenced, At, WritesManifest,
              MarkPcs, ManifestStatuses, ReclaimableStatuses
<1>4. CASE SkipExisting(r) \/ SkipChunk(r) \/ ResumeSucceeded(r) \/ ClaimSettled(r) \/ ClaimBusy(r)
           \/ ReadOwn(r) \/ OwnHashes(r)
  BY <1>4 DEF SkipExisting, SkipChunk, ResumeSucceeded, ClaimSettled, ClaimBusy, ReadOwn, OwnHashes,
              WritesManifest
<1>5. CASE StoreStep(r) /\ ~Record(r)
  BY <1>5 DEF StoreStep, Attempt, AttemptCancelled, Reconcile, Extract, ClaimHash, MarkLegacy, Select,
         Guard, Insert, Effects, Settle, Done, WritesManifest
<1>6. CASE StoreFails(r) \/ Drop(r) \/ RedoFails(r) \/ Again(r) \/ GiveUpChunk(r) \/ FailChunk(r)
           \/ ReleaseChunkHashes(r) \/ SplitChunk(r) \/ CancelChunk(r)
  BY <1>6 DEF StoreFails, Drop, RedoFails, Again, GiveUpChunk, FailChunk, ReleaseChunkHashes,
         SplitChunk, CancelChunk, WritesManifest
<1> QED
  BY <1>1, <1>2, <1>3, <1>4, <1>5, <1>6 DEF Work, ClaimStep, FailStep

-----------------------------------------------------------------------------
(* The turns a run takes at a chunk. *)

\* Steps at which nothing is asked of the rows.
RestPcs == {"next", "failed", "splithash", "splitchunk", "cancelhash", "cancelchunk"}
CancelPcs == {"cancel", "cancelhash", "cancelchunk"}
UnsettledPcs == ImportPcs \ {"done"}
FreshPcs == {"hash", "legacy", "guard", "insert"}

Opens(r) == UNCHANGED chunk \/ OpenChunk(r) \/ SetChunk(r, "open")

Ended == {"succeeded", "skipped", "failed"}
\* The run leaves the chunk: it has ended, or its halves take its place, or the job is cancelled.
LeavesChunk(r) ==
    \/ /\ Proceeds(r, Tail(run[r].todo))
       /\ \/ \E status \in Ended : SetChunk(r, status)
          \/ UNCHANGED chunk /\ Row(r) = "succeeded"
          \/ run[r].pc = "cancelchunk"
    \/ Proceeds(r, Children[K(r)] \o Tail(run[r].todo)) /\ SetChunk(r, "split")

Skips(r) ==
    /\ Stays(r) /\ run'[r].pc \in {"skipclaim", "skipmark", "skip"}
    /\ \/ run[r].pc = "next" /\ K(r) \in run[r].existing
       \/ run[r].pc \in {"skipclaim", "skipmark"}
       \/ /\ run[r].pc = "next"
          /\ manifest[K(r)].status = "succeeded" /\ manifest[K(r)].job # J(r)

\* It claims the chunk for an attempt, ...
TakesChunk(r) ==
    /\ Stays(r) /\ run'[r].pc = "attempt" /\ run'[r].attempt = 1
    /\ Claimable(K(r)) /\ ClaimManifest(r) /\ Opens(r) /\ UNCHANGED vector
    /\ \/ /\ run[r].pc = "next" /\ K(r) \notin run[r].existing /\ Row(r) # "succeeded"
          /\ run'[r].rec = (manifest[K(r)].status # "absent")
       \/ run[r].pc = "reclaim" /\ run'[r].rec

\* ... or finds it dealt with or claimed, ...
FindsChunk(r) ==
    /\ Stays(r) /\ run[r].pc = "next" /\ Row(r) # "succeeded"
    /\ UNCHANGED <<manifest, vector>> /\ Opens(r)
    /\ \/ run'[r].pc = "split" /\ manifest[K(r)].status = "split"
       \/ /\ run'[r].pc \in {"resumed", "own"} /\ manifest[K(r)].job = J(r)
          /\ manifest[K(r)].status = IF run'[r].pc = "own" THEN "claimed" ELSE "succeeded"

\* ... and deals with a claim an earlier run has left.
OwnTurn(r) ==
    /\ Stays(r) /\ UNCHANGED <<chunk, vector>>
    /\ \/ run[r].pc = "own" /\ run'[r].pc = "attempt" /\ run'[r].rec /\ UNCHANGED manifest
       \/ run[r].pc = "own" /\ run'[r].pc = "ownrelease" /\ UNCHANGED manifest
       \/ run[r].pc = "ownrelease" /\ run'[r].pc = "ownhash"
       \/ run[r].pc = "ownhash" /\ run'[r].pc = "reclaim"

\* The attempts.
ImportTurn(r) ==
    /\ Stays(r) /\ run[r].pc \in UnsettledPcs /\ run'[r].pc \in UnsettledPcs
    /\ UNCHANGED manifest /\ Opens(r)
    /\ run'[r].pc \in FreshPcs \cup {"attempt", "store"} => UNCHANGED vector
    /\ run'[r].pc = "attempt" => Reconciles(r)'
    /\ run'[r].pc = "store" => run[r].pc = "attempt" /\ SameAttempt(r)
    /\ run'[r].pc = "hash" => \/ run[r].pc = "store" /\ (Reconciles(r) => RowsOf(K(r)) = {})
                              \/ run[r].pc \in {"hash", "legacy"}
    /\ run'[r].pc \in {"legacy", "guard"} => run[r].pc = "hash"
    /\ run'[r].pc = "insert" => run[r].pc = "guard"
    /\ run'[r].pc = "cancel" => cancel[J(r)]

RecordTurn(r) ==
    /\ Stays(r) /\ run[r].pc = "record" /\ run'[r].pc = "done"
    /\ Holds(r) /\ MarkManifest(r, "succeeded") /\ UNCHANGED <<chunk, vector>>
SplitTurn(r) ==
    /\ Stays(r) /\ run[r].pc = "error" /\ run'[r].pc = "split"
    /\ UNCHANGED <<chunk, manifest, vector>>
RestTurn(r) ==
    /\ Stays(r) /\ run'[r].pc \in RestPcs /\ Opens(r) /\ UNCHANGED vector
    /\ run'[r].pc \in CancelPcs => run[r].pc \in CancelPcs

Turn(r) ==
    \/ LeavesChunk(r) \/ Skips(r) \/ TakesChunk(r) \/ FindsChunk(r) \/ OwnTurn(r)
    \/ ImportTurn(r) \/ RecordTurn(r) \/ SplitTurn(r) \/ RestTurn(r)

LEMMA GotoStays ==
    ASSUME Inv, NEW r \in Runs, run[r] \in Live, NEW pc, Goto(r, pc)
    PROVE  Stays(r) /\ SameAttempt(r) /\ run'[r].pc = pc
<1>1. run \in [Runs -> Run]
  BY DEF Inv
<1> QED
  BY <1>1 DEF Goto, Stays, SameAttempt, Live

LEMMA ProceedMoves ==
    ASSUME Inv, NEW r \in Runs, NEW todo, Proceed(r, todo) PROVE Proceeds(r, todo)
<1> DEFINE t == [Idle EXCEPT !.job = J(r), !.pc = "next", !.todo = todo,
                             !.existing = run[r].existing, !.legacy = run[r].legacy]
<1>1. t.job = J(r) /\ t.pc = "next" /\ t.todo = todo /\ t.existing = run[r].existing
  BY IdleIsNotLive
<1>2. run' = [run EXCEPT ![r] = t] /\ run \in [Runs -> Run]
  BY DEF Proceed, Inv
<1> HIDE DEF t
<1> QED
  BY <1>1, <1>2 DEF Proceeds, J

LEMMA AttemptsStay ==
    ASSUME Inv, NEW r \in Runs, run[r] \in Live, NEW rec, StartAttempts(r, rec)
    PROVE  Stays(r) /\ run'[r].pc = "attempt" /\ run'[r].attempt = 1 /\ run'[r].rec = rec
<1>1. run \in [Runs -> Run]
  BY DEF Inv
<1> QED
  BY <1>1 DEF StartAttempts, Stays, Live

\* Claims: the steps before an attempt.
LEMMA BusyTurn ==
    ASSUME Inv, NEW r \in Runs, run[r] \in Live, Busy(r), UNCHANGED vector PROVE Turn(r)
<1>1. CASE run' = [run EXCEPT ![r].pc = "next", ![r].attempt = @ + 1] /\ OpenChunk(r)
  <2>1. Stays(r) /\ run'[r].pc = "next"
    BY <1>1 DEF Inv, Stays, Live
  <2> QED
    BY <1>1, <2>1 DEF Turn, RestTurn, RestPcs, CancelPcs, Opens
<1>2. CASE Proceed(r, Tail(run[r].todo)) /\ SetChunk(r, "failed")
  <2>1. Proceeds(r, Tail(run[r].todo))
    BY <1>2, ProceedMoves
  <2> QED
    BY <1>2, <2>1 DEF Turn, LeavesChunk, Ended
<1> QED
  BY <1>1, <1>2 DEF Busy

LEMMA ClaimTurn ==
    ASSUME Inv, NEW r \in Runs, ClaimStep(r) PROVE Turn(r)
<1>0. run[r] \in Live /\ run[r].todo # <<>> /\ UNCHANGED vector
  BY WorkAt, ClaimStepSplits DEF Work
<1>1. CASE SkipExisting(r) \/ SkipClaim(r) \/ SkipMark(r)
  <2>1. PICK pc \in {"skipclaim", "skipmark", "skip"} : Goto(r, pc)
    BY <1>1 DEF SkipExisting, SkipClaim, SkipMark
  <2>2. Stays(r) /\ run'[r].pc = pc
    BY <1>0, <2>1, GotoStays
  <2>3. \/ run[r].pc = "next" /\ K(r) \in run[r].existing
        \/ run[r].pc \in {"skipclaim", "skipmark"}
    BY <1>1 DEF SkipExisting, SkipClaim, SkipMark, HasWork, Fenced, At
  <2> QED
    BY <2>2, <2>3 DEF Turn, Skips
<1>2. CASE SkipChunk(r)
  <2>1. Proceeds(r, Tail(run[r].todo)) /\ SetChunk(r, "skipped")
    BY <1>2, ProceedMoves DEF SkipChunk
  <2> QED
    BY <2>1 DEF Turn, LeavesChunk, Ended
<1>3. CASE ResumeSucceeded(r)
  <2>1. Proceeds(r, Tail(run[r].todo)) /\ UNCHANGED chunk /\ Row(r) = "succeeded"
    BY <1>3, ProceedMoves DEF ResumeSucceeded, Row
  <2> QED
    BY <2>1 DEF Turn, LeavesChunk
<1>4. CASE ClaimFree(r)
  <2>1. /\ Stays(r) /\ run'[r].pc = "attempt" /\ run'[r].attempt = 1
        /\ run'[r].rec = (manifest[K(r)].status # "absent")
    BY <1>0, <1>4, AttemptsStay DEF ClaimFree
  <2>2. /\ Claimable(K(r)) /\ ClaimManifest(r) /\ Opens(r) /\ run[r].pc = "next"
        /\ K(r) \notin run[r].existing /\ Row(r) # "succeeded"
    BY <1>4 DEF ClaimFree, ToClaim, HasWork, Fenced, At, Row, Opens
  <2> QED
    BY <1>0, <2>1, <2>2 DEF Turn, TakesChunk
<1>5. CASE ClaimSettled(r)
  <2>1. PICK pc : Goto(r, pc) /\
          LET m == manifest[K(r)] IN
          \/ pc = "split" /\ m.status = "split"
          \/ pc = "resumed" /\ m.status = "succeeded" /\ m.job = J(r)
          \/ pc = "skip" /\ m.status = "succeeded" /\ m.job # J(r)
          \/ pc = "own" /\ m.status = "claimed" /\ m.job = J(r)
    BY <1>5 DEF ClaimSettled
  <2>2. Stays(r) /\ run'[r].pc = pc
    BY <1>0, <2>1, GotoStays
  <2>3. /\ run[r].pc = "next" /\ Row(r) # "succeeded" /\ UNCHANGED manifest /\ Opens(r)
    BY <1>5 DEF ClaimSettled, ToClaim, HasWork, Fenced, At, Row, Opens
  <2>4. CASE pc = "skip"
    BY <2>1, <2>2, <2>3, <2>4 DEF Turn, Skips
  <2>5. CASE pc # "skip"
    BY <1>0, <2>1, <2>2, <2>3, <2>5 DEF Turn, FindsChunk
  <2> QED
    BY <2>4, <2>5
<1>6. CASE ClaimBusy(r)
  BY <1>0, <1>6, BusyTurn DEF ClaimBusy
<1>7. CASE ReadOwn(r)
  <2>1. run[r].pc = "own" /\ UNCHANGED <<chunk, manifest>>
    BY <1>7 DEF ReadOwn, At
  <2>2. CASE StartAttempts(r, TRUE)
    BY <1>0, <2>1, <2>2, AttemptsStay DEF Turn, OwnTurn
  <2>3. CASE Goto(r, "ownrelease")
    <3>1. Stays(r) /\ run'[r].pc = "ownrelease"
      BY <1>0, <2>3, GotoStays
    <3> QED
      BY <1>0, <2>1, <3>1 DEF Turn, OwnTurn
  <2> QED
    BY <1>7, <2>2, <2>3 DEF ReadOwn
<1>8. CASE OwnRelease(r)
  <2>1. Stays(r) /\ run'[r].pc = "ownhash"
    BY <1>0, <1>8, GotoStays DEF OwnRelease
  <2> QED
    BY <1>0, <1>8, <2>1 DEF Turn, OwnTurn, OwnRelease, Fenced, At
<1>9. CASE OwnHashes(r)
  <2>1. Stays(r) /\ run'[r].pc = "reclaim"
    BY <1>0, <1>9, GotoStays DEF OwnHashes
  <2> QED
    BY <1>0, <1>9, <2>1 DEF Turn, OwnTurn, OwnHashes, Fenced, At
<1>10. CASE Reclaim(r)
  <2>1. CASE Busy(r)
    BY <1>0, <2>1, BusyTurn
  <2>2. CASE Claimable(K(r)) /\ ClaimManifest(r) /\ StartAttempts(r, TRUE) /\ UNCHANGED chunk
    <3>1. /\ Stays(r) /\ run'[r].pc = "attempt" /\ run'[r].attempt = 1 /\ run'[r].rec
      BY <1>0, <2>2, AttemptsStay
    <3>2. run[r].pc = "reclaim" /\ Opens(r)
      BY <1>10, <2>2 DEF Reclaim, Fenced, At, Opens
    <3> QED
      BY <1>0, <2>2, <3>1, <3>2 DEF Turn, TakesChunk
  <2> QED
    BY <1>10, <2>1, <2>2 DEF Reclaim
<1> QED
  BY <1>1, <1>2, <1>3, <1>4, <1>5, <1>6, <1>7, <1>8, <1>9, <1>10 DEF ClaimStep

\* Attempts.
LEMMA PlainTurn ==
    ASSUME NEW r \in Runs, Stays(r), run[r].pc \in UnsettledPcs,
           run'[r].pc \in {"redo", "effects", "drop", "settle", "record", "error", "fail"},
           UNCHANGED <<chunk, manifest>>
    PROVE  Turn(r)
BY DEF Turn, ImportTurn, Opens, UnsettledPcs, ImportPcs, TryPcs, StorePcs, FreshPcs

LEMMA StoreTurn ==
    ASSUME Inv, NEW r \in Runs, StoreStep(r) PROVE Turn(r)
<1>0. run[r] \in Live /\ run[r].todo # <<>> /\ run \in [Runs -> Run]
  BY WorkAt DEF Work
<1>1. CASE Attempt(r)
  <2> DEFINE t == [run[r] EXCEPT !.pc = "store", !.got = {}]
  <2>1. run' = [run EXCEPT ![r] = t]
    BY <1>1 DEF Attempt
  <2>2. /\ t.job = run[r].job /\ t.todo = run[r].todo /\ t.existing = run[r].existing
        /\ t.attempt = run[r].attempt /\ t.rec = run[r].rec /\ t.pc = "store"
    BY <1>0 DEF Live
  <2> HIDE DEF t
  <2>3. Stays(r) /\ SameAttempt(r) /\ run'[r].pc = "store"
    BY <1>0, <2>1, <2>2 DEF Stays, SameAttempt
  <2>4. run[r].pc = "attempt" /\ UNCHANGED <<manifest, vector>> /\ Opens(r)
    BY <1>1 DEF Attempt, Fenced, At, Opens
  <2> QED
    BY <2>3, <2>4 DEF Turn, ImportTurn, UnsettledPcs, ImportPcs, TryPcs, StorePcs, FreshPcs
<1>2. CASE AttemptCancelled(r)
  <2>1. Stays(r) /\ run'[r].pc = "cancel"
    BY <1>0, <1>2, GotoStays DEF AttemptCancelled
  <2>2. run[r].pc = "attempt" /\ UNCHANGED <<manifest, vector, chunk>> /\ cancel[J(r)]
    BY <1>2 DEF AttemptCancelled, At
  <2> QED
    BY <2>1, <2>2 DEF Turn, ImportTurn, Opens, UnsettledPcs, ImportPcs, TryPcs, StorePcs, FreshPcs
<1>3. CASE Reconcile(r)
  <2> DEFINE t == [run[r] EXCEPT !.pc = "redo", !.got = RowsOf(K(r))]
  <2>1. run' = [run EXCEPT ![r] = t]
    BY <1>3 DEF Reconcile
  <2>2. t.job = run[r].job /\ t.todo = run[r].todo /\ t.existing = run[r].existing /\ t.pc = "redo"
    BY <1>0 DEF Live
  <2> HIDE DEF t
  <2>3. Stays(r) /\ run'[r].pc = "redo"
    BY <1>0, <2>1, <2>2 DEF Stays
  <2>4. run[r].pc \in UnsettledPcs /\ UNCHANGED <<chunk, manifest>>
    BY <1>3 DEF Reconcile, Fenced, At, UnsettledPcs, ImportPcs, TryPcs
  <2> QED
    BY <2>3, <2>4, PlainTurn
<1>4. CASE Extract(r)
  <2>1. PICK want : run' = [run EXCEPT ![r].pc = "hash", ![r].want = want]
    BY <1>4 DEF Extract
  <2> DEFINE t == [run[r] EXCEPT !.pc = "hash", !.want = want]
  <2>2. t.job = run[r].job /\ t.todo = run[r].todo /\ t.existing = run[r].existing /\ t.pc = "hash"
    BY <1>0 DEF Live
  <2>3. run' = [run EXCEPT ![r] = t]
    BY <2>1
  <2> HIDE DEF t
  <2>4. Stays(r) /\ run'[r].pc = "hash"
    BY <1>0, <2>2, <2>3 DEF Stays
  <2>5. run[r].pc = "store" /\ UNCHANGED <<chunk, manifest, vector>>
        /\ (Reconciles(r) => RowsOf(K(r)) = {})
    BY <1>4 DEF Extract, At
  <2> QED
    BY <2>4, <2>5 DEF Turn, ImportTurn, Opens, UnsettledPcs, ImportPcs, TryPcs, StorePcs, FreshPcs
<1>5. CASE ClaimHash(r)
  <2> DEFINE Passed(h) == [run[r] EXCEPT !.want = run[r].want \ {h}]
             Known(h) == [run[r] EXCEPT !.want = run[r].want \ {h}, !.mark = h, !.pc = "legacy"]
             Claimed(h) == [run[r] EXCEPT !.want = run[r].want \ {h}, !.got = run[r].got \cup {h}]
  <2>1. \E h : \/ run' = [run EXCEPT ![r] = Passed(h)]
               \/ run' = [run EXCEPT ![r] = Known(h)]
               \/ run' = [run EXCEPT ![r] = Claimed(h)]
    BY <1>5 DEF ClaimHash
  <2>2. run[r].pc = "hash" /\ UNCHANGED <<chunk, manifest, vector>>
    BY <1>5 DEF ClaimHash, Fenced, At
  <2>3. \A h : /\ Passed(h).job = run[r].job /\ Known(h).job = run[r].job
               /\ Claimed(h).job = run[r].job
               /\ Passed(h).todo = run[r].todo /\ Known(h).todo = run[r].todo
               /\ Claimed(h).todo = run[r].todo
               /\ Passed(h).existing = run[r].existing /\ Known(h).existing = run[r].existing
               /\ Claimed(h).existing = run[r].existing
               /\ Passed(h).pc = "hash" /\ Known(h).pc = "legacy" /\ Claimed(h).pc = "hash"
    BY <1>0, <2>2 DEF Live
  <2> HIDE DEF Passed, Known, Claimed
  <2>4. Stays(r) /\ run'[r].pc \in {"hash", "legacy"}
    BY <1>0, <2>1, <2>3 DEF Stays
  <2> QED
    BY <2>2, <2>4 DEF Turn, ImportTurn, Opens, UnsettledPcs, ImportPcs, TryPcs, StorePcs, FreshPcs
<1>6. CASE MarkLegacy(r)
  <2> DEFINE t == [run[r] EXCEPT !.pc = "hash", !.mark = NoOne]
  <2>1. run' = [run EXCEPT ![r] = t]
    BY <1>6 DEF MarkLegacy
  <2>2. t.job = run[r].job /\ t.todo = run[r].todo /\ t.existing = run[r].existing /\ t.pc = "hash"
    BY <1>0 DEF Live
  <2> HIDE DEF t
  <2>3. Stays(r) /\ run'[r].pc = "hash"
    BY <1>0, <2>1, <2>2 DEF Stays
  <2>4. run[r].pc = "legacy" /\ UNCHANGED <<chunk, manifest, vector>>
    BY <1>6 DEF MarkLegacy, Fenced, At
  <2> QED
    BY <2>3, <2>4 DEF Turn, ImportTurn, Opens, UnsettledPcs, ImportPcs, TryPcs, StorePcs, FreshPcs
<1>7. CASE Select(r) \/ Guard(r)
  <2>1. PICK pc \in {"settle", "guard", "insert"} :
           /\ Goto(r, pc)
           /\ run[r].pc = IF pc = "insert" THEN "guard" ELSE "hash"
    BY <1>7 DEF Select, Guard, Fenced, At
  <2>2. Stays(r) /\ run'[r].pc = pc /\ UNCHANGED <<chunk, manifest, vector>>
    BY <1>0, <1>7, <2>1, GotoStays DEF Select, Guard
  <2> QED
    BY <2>1, <2>2 DEF Turn, ImportTurn, Opens, UnsettledPcs, ImportPcs, TryPcs, StorePcs, FreshPcs
<1>8. CASE Insert(r) \/ Effects(r) \/ Settle(r)
  <2>1. PICK pc \in {"effects", "drop", "settle", "record"} : Goto(r, pc)
    BY <1>8 DEF Insert, Effects, Settle
  <2>2. Stays(r) /\ run'[r].pc = pc
    BY <1>0, <2>1, GotoStays
  <2>3. run[r].pc \in UnsettledPcs /\ UNCHANGED <<chunk, manifest>>
    BY <1>8 DEF Insert, Effects, Settle, Fenced, At, UnsettledPcs, ImportPcs, TryPcs, StorePcs
  <2> QED
    BY <2>2, <2>3, PlainTurn
<1>9. CASE Record(r)
  <2>1. Stays(r) /\ run'[r].pc = "done"
    BY <1>0, <1>9, GotoStays DEF Record
  <2> QED
    BY <1>9, <2>1 DEF Turn, RecordTurn, Record, Fenced, At
<1>10. CASE Done(r)
  <2>1. Proceeds(r, Tail(run[r].todo)) /\ SetChunk(r, "succeeded")
    BY <1>10, ProceedMoves DEF Done
  <2> QED
    BY <2>1 DEF Turn, LeavesChunk, Ended
<1> QED
  BY <1>1, <1>2, <1>3, <1>4, <1>5, <1>6, <1>7, <1>8, <1>9, <1>10 DEF StoreStep

LEMMA FailTurn ==
    ASSUME Inv, NEW r \in Runs, FailStep(r) PROVE Turn(r)
<1>0. run[r] \in Live /\ run[r].todo # <<>> /\ run \in [Runs -> Run] /\ UNCHANGED vector
  BY WorkAt, FailStepSplits DEF Work
<1>1. CASE StoreFails(r) \/ Drop(r) \/ RedoFails(r)
  <2>1. PICK pc \in {"drop", "error"} : Goto(r, pc)
    BY <1>1 DEF StoreFails, Drop, RedoFails
  <2>2. Stays(r) /\ run'[r].pc = pc
    BY <1>0, <2>1, GotoStays
  <2>3. run[r].pc \in UnsettledPcs /\ UNCHANGED <<chunk, manifest>>
    BY <1>1 DEF StoreFails, Drop, RedoFails, Fenced, At, UnsettledPcs, ImportPcs, TryPcs, StorePcs
  <2> QED
    BY <2>2, <2>3, PlainTurn
<1>2. CASE Again(r)
  <2> DEFINE n == run[r].attempt + 1
             t == [run[r] EXCEPT !.pc = "attempt", !.attempt = n, !.want = {}, !.got = {},
                                 !.mark = NoOne]
  <2>1. run' = [run EXCEPT ![r] = t]
    BY <1>2 DEF Again
  <2>2. n > 1
    BY <1>0, BoundsAssumption DEF Live
  <2> HIDE DEF n
  <2>3. /\ t.job = run[r].job /\ t.todo = run[r].todo /\ t.existing = run[r].existing
        /\ t.attempt = n /\ t.pc = "attempt"
    BY <1>0 DEF Live
  <2> HIDE DEF t
  <2>4. Stays(r) /\ run'[r].pc = "attempt" /\ run'[r].attempt = n
    BY <1>0, <2>1, <2>3 DEF Stays
  <2>5. run[r].pc = "error" /\ UNCHANGED manifest /\ Opens(r)
    BY <1>2 DEF Again, Fenced, At, Opens
  <2>6. Reconciles(r)'
    BY <2>2, <2>4 DEF Reconciles
  <2> QED
    BY <1>0, <2>4, <2>5, <2>6 DEF Turn, ImportTurn, UnsettledPcs, ImportPcs, TryPcs, StorePcs, FreshPcs
<1>3. CASE GiveUpChunk(r)
  <2>1. PICK pc \in {"cancel", "fail", "split"} : Goto(r, pc) /\ (pc = "cancel" => cancel[J(r)])
    BY <1>3 DEF GiveUpChunk
  <2>2. Stays(r) /\ run'[r].pc = pc
    BY <1>0, <2>1, GotoStays
  <2>3. run[r].pc = "error" /\ UNCHANGED <<chunk, manifest>>
    BY <1>3 DEF GiveUpChunk, At
  <2>4. CASE pc = "split"
    BY <1>0, <2>2, <2>3, <2>4 DEF Turn, SplitTurn
  <2>5. CASE pc # "split"
    BY <1>0, <2>1, <2>2, <2>3, <2>5
       DEF Turn, ImportTurn, Opens, UnsettledPcs, ImportPcs, TryPcs, StorePcs, FreshPcs
  <2> QED
    BY <2>4, <2>5
<1>4. CASE FailManifest(r) \/ SplitManifest(r) \/ CancelManifest(r) \/ ReleaseChunkHashes(r)
  <2>1. PICK pc \in {"failed", "splithash", "splitchunk", "cancelhash", "cancelchunk"} :
          Goto(r, pc) /\ (pc \in CancelPcs => run[r].pc \in CancelPcs)
    BY <1>4 DEF FailManifest, SplitManifest, CancelManifest, ReleaseChunkHashes, Fenced, At, CancelPcs
  <2>2. Stays(r) /\ run'[r].pc = pc /\ UNCHANGED chunk
    BY <1>0, <1>4, <2>1, GotoStays
       DEF FailManifest, SplitManifest, CancelManifest, ReleaseChunkHashes
  <2> QED
    BY <1>0, <2>1, <2>2 DEF Turn, RestTurn, RestPcs, Opens
<1>5. CASE FailChunk(r) \/ CancelChunk(r)
  <2>1. Proceeds(r, Tail(run[r].todo))
    BY <1>5, ProceedMoves DEF FailChunk, CancelChunk
  <2> QED
    BY <1>5, <2>1 DEF Turn, LeavesChunk, Ended, FailChunk, CancelChunk, Fenced, At
<1>6. CASE SplitChunk(r)
  <2>1. Proceeds(r, Children[K(r)] \o Tail(run[r].todo)) /\ SetChunk(r, "split")
    BY <1>6, ProceedMoves DEF SplitChunk
  <2> QED
    BY <2>1 DEF Turn, LeavesChunk
<1> QED
  BY <1>1, <1>2, <1>3, <1>4, <1>5, <1>6 DEF FailStep

LEMMA WorkTurn == ASSUME Inv, NEW r \in Runs, Work(r) PROVE Turn(r)
BY ClaimTurn, StoreTurn, FailTurn DEF Work

-----------------------------------------------------------------------------
(* Coverage.  Whatever a job reaches is dealt with or on the list of its run: there is a set of   *)
(* keys, with the chunks of the conversation, that contains the halves of whatever is split and   *)
(* no longer on the list.                                                                         *)

IsSplit(rows, m, k) == IF rows[k] = "absent" THEN m[k].status = "split" ELSE rows[k] = "split"
Dealt(rows, m, S, k) ==
    rows[k] \in Ended \/ (IsSplit(rows, m, k) /\ Elems(Children[k]) \subseteq S)
Tracked(rows, m, j, list) ==
    \E S \in SUBSET Keys : /\ Elems(Source[j]) \subseteq S
                           /\ \A k \in S : k \in list \/ Dealt(rows, m, S, k)

ActiveLeases == \A j \in Jobs : lease[j] # NoOne => job[j] = "active"
Cancelling(r) == run[r].pc \in CancelPcs /\ Holds(r) => cancel[J(r)]
Tracks(r) ==
    run[r].pc \notin {"idle", "plan"} /\ Holds(r) /\ ~cancel[J(r)] =>
        Tracked(chunk[J(r)], manifest, J(r), Elems(run[r].todo))
Through(j) == Tracked(chunk[j], manifest, j, {}) /\ \A k \in Keys : chunk[j][k] # "failed"

Coverage ==
    /\ ActiveLeases
    /\ \A r \in Runs : Cancelling(r) /\ Tracks(r)
    /\ \A j \in Jobs : job[j] = "completed" => Through(j)

LEMMA HeadAndTail ==
    ASSUME NEW s \in Seq(Keys), s # <<>>
    PROVE  Elems(s) = {Head(s)} \cup Elems(Tail(s))
<1>1. Len(s) \in Nat \ {0} /\ DOMAIN s = 1..Len(s) /\ Head(s) = s[1]
  OBVIOUS
<1>2. DOMAIN Tail(s) = 1..(Len(s) - 1) /\ \A i \in 1..(Len(s) - 1) : Tail(s)[i] = s[i + 1]
  OBVIOUS
<1>3. ASSUME NEW i \in 2..Len(s) PROVE s[i] \in Elems(Tail(s))
  <2>1. i - 1 \in 1..(Len(s) - 1) /\ (i - 1) + 1 = i
    BY <1>1
  <2>2. Tail(s)[i - 1] = s[i]
    BY <1>2, <2>1
  <2> QED
    BY <1>2, <2>1, <2>2 DEF Elems
<1>4. ASSUME NEW x \in Elems(s) PROVE x \in {Head(s)} \cup Elems(Tail(s))
  <2>1. PICK i \in 1..Len(s) : x = s[i]
    BY <1>1, <1>4 DEF Elems
  <2>2. i = 1 \/ i \in 2..Len(s)
    BY <1>1
  <2> QED
    BY <1>1, <1>3, <2>1, <2>2
<1>5. ASSUME NEW x \in Elems(Tail(s)) PROVE x \in Elems(s)
  <2>1. PICK i \in 1..(Len(s) - 1) : x = Tail(s)[i]
    BY <1>2, <1>5 DEF Elems
  <2>2. x = s[i + 1] /\ i + 1 \in DOMAIN s
    BY <1>1, <1>2, <2>1
  <2> QED
    BY <2>2 DEF Elems
<1>6. Head(s) \in Elems(s)
  BY <1>1 DEF Elems
<1> QED
  BY <1>4, <1>5, <1>6

LEMMA ElemsJoined ==
    ASSUME NEW s \in Seq(Keys), NEW t \in Seq(Keys)
    PROVE  Elems(s) \cup Elems(t) \subseteq Elems(s \o t)
<1>1. ASSUME NEW i \in DOMAIN s PROVE s[i] \in Elems(s \o t)
  <2>1. i \in DOMAIN (s \o t) /\ (s \o t)[i] = s[i]
    OBVIOUS
  <2> QED
    BY <2>1 DEF Elems
<1>2. ASSUME NEW i \in DOMAIN t PROVE t[i] \in Elems(s \o t)
  <2>1. Len(s) + i \in DOMAIN (s \o t) /\ (s \o t)[Len(s) + i] = t[i]
    OBVIOUS
  <2> QED
    BY <2>1 DEF Elems
<1> QED
  BY <1>1, <1>2 DEF Elems

LEMMA JoinedElems ==
    ASSUME NEW s \in Seq(Keys), NEW t \in Seq(Keys), NEW k \in Elems(s \o t)
    PROVE  k \in Elems(s) \/ k \in Elems(t)
<1>1. PICK i \in DOMAIN (s \o t) : k = (s \o t)[i]
  BY DEF Elems
<1>2. CASE i \in DOMAIN s
  <2>1. k = s[i]
    BY <1>1, <1>2
  <2> QED
    BY <1>2, <2>1 DEF Elems
<1>3. CASE i \notin DOMAIN s
  <2>1. i - Len(s) \in DOMAIN t /\ k = t[i - Len(s)]
    BY <1>1, <1>3
  <2> QED
    BY <2>1 DEF Elems
<1> QED
  BY <1>2, <1>3

\* The chunk k0 is still on the list or has ended; the others are as they were.
LEMMA TrackedMoves ==
    ASSUME NEW j, NEW k0, NEW rows, NEW rows2, NEW m, NEW list, NEW list2,
           Tracked(rows, m, j, list),
           \A k \in Keys \ {k0} : rows2[k] = rows[k] /\ (k \in list => k \in list2),
           k0 \in list2 \/ rows2[k0] \in Ended
    PROVE  Tracked(rows2, m, j, list2)
<1>1. PICK S \in SUBSET Keys : /\ Elems(Source[j]) \subseteq S
                               /\ \A k \in S : k \in list \/ Dealt(rows, m, S, k)
  BY DEF Tracked
<1>2. ASSUME NEW k \in S PROVE k \in list2 \/ Dealt(rows2, m, S, k)
  BY <1>1, <1>2 DEF Dealt, IsSplit
<1> QED
  BY <1>1, <1>2 DEF Tracked

LEMMA TrackedKept ==
    ASSUME NEW j, NEW rows, NEW m, NEW m2, NEW list, Tracked(rows, m, j, list),
           \A k \in Keys : m[k].status = "split" => m2[k].status = "split"
    PROVE  Tracked(rows, m2, j, list)
<1>1. PICK S \in SUBSET Keys : /\ Elems(Source[j]) \subseteq S
                               /\ \A k \in S : k \in list \/ Dealt(rows, m, S, k)
  BY DEF Tracked
<1>2. ASSUME NEW k \in S PROVE k \in list \/ Dealt(rows, m2, S, k)
  BY <1>1, <1>2 DEF Dealt, IsSplit
<1> QED
  BY <1>1, <1>2 DEF Tracked

\* The halves of a chunk take its place on the list.
LEMMA TrackedSplit ==
    ASSUME NEW j, NEW k0 \in Keys, NEW rows, NEW rows2, NEW m, NEW list, NEW list2,
           Tracked(rows, m, j, list), Elems(Children[k0]) \subseteq Keys,
           rows2[k0] = "split",
           \A k \in Keys \ {k0} : rows2[k] = rows[k] /\ (k \in list => k \in list2),
           Elems(Children[k0]) \subseteq list2
    PROVE  Tracked(rows2, m, j, list2)
<1>1. PICK S \in SUBSET Keys : /\ Elems(Source[j]) \subseteq S
                               /\ \A k \in S : k \in list \/ Dealt(rows, m, S, k)
  BY DEF Tracked
<1> DEFINE T == S \cup Elems(Children[k0])
<1>2. ASSUME NEW k \in T PROVE k \in list2 \/ Dealt(rows2, m, T, k)
  <2>1. CASE k = k0
    BY <2>1 DEF Dealt, IsSplit
  <2>2. CASE k # k0 /\ k \in S
    <3>1. rows2[k] = rows[k]
      BY <2>2
    <3>2. CASE k \in list
      BY <2>2, <3>2
    <3>3. CASE Dealt(rows, m, S, k)
      BY <3>1, <3>3 DEF Dealt, IsSplit
    <3> QED
      BY <1>1, <2>2, <3>2, <3>3
  <2> QED
    BY <1>2, <2>1, <2>2
<1>3. T \in SUBSET Keys /\ Elems(Source[j]) \subseteq T
  BY <1>1
<1> HIDE DEF T
<1> QED
  BY <1>2, <1>3 DEF Tracked

\* The list a run begins with.
LEMMA TrackedAtFirst ==
    ASSUME Inv, NEW j \in Jobs
    PROVE  Tracked(chunk[j], manifest, j, Elems(Leaves(j, PersistedSplit(j))))
<1> DEFINE split == PersistedSplit(j)
           S == Reached(j, split)
<1>1. split \in SUBSET Splittable /\ Elems(Leaves(j, split)) = S \ split
  BY PersistedIsSplittable, LeavesAssumption
<1>2. \A k \in Keys : k \in split <=> IsSplit(chunk[j], manifest, k)
  BY DEF PersistedSplit, IsSplit
<1>3. Elems(Source[j]) \subseteq S
  <2>1. Elems(Source[j]) \subseteq Keys
    BY ChunksAssumption DEF Elems
  <2> QED
    BY <2>1 DEF Reached, Closed
<1>4. ASSUME NEW k \in S \cap split PROVE Elems(Children[k]) \subseteq S
  <2>1. k \in Keys /\ Elems(Children[k]) \subseteq Keys
    BY <1>4, ChunksAssumption DEF Reached, Elems
  <2>2. ASSUME NEW T \in SUBSET Keys, Closed(j, split, T) PROVE Elems(Children[k]) \subseteq T
    BY <1>4, <2>2 DEF Reached, Closed
  <2> QED
    BY <2>1, <2>2 DEF Reached
<1>5. S \in SUBSET Keys
  BY DEF Reached
<1>6. ASSUME NEW k \in S PROVE k \in Elems(Leaves(j, split)) \/ Dealt(chunk[j], manifest, S, k)
  BY <1>1, <1>2, <1>4, <1>5, <1>6 DEF Dealt
<1> HIDE DEF S, split
<1>7. Tracked(chunk[j], manifest, j, Elems(Leaves(j, split)))
  BY <1>3, <1>5, <1>6 DEF Tracked
<1> QED
  BY <1>7 DEF split

\* What r does leaves alone what the other runs and the jobs that ended rely on.
LEMMA CoverStep ==
    ASSUME Inv, Coverage, NEW r \in Runs, \A q \in Runs \ {r} : run'[q] = run[q],
           NoOtherLease(r), SplitStays, UNCHANGED cancel,
           \A j \in Jobs : chunk'[j] = chunk[j] \/ lease[j] = r,
           \A j \in Jobs : lease'[j] # NoOne => job'[j] = "active",
           \A j \in Jobs : job'[j] = "completed" => job[j] = "completed" \/ Through(j)',
           Cancelling(r)', Tracks(r)'
    PROVE  Coverage'
<1>0. \A k \in Keys : manifest[k].status = "split" => manifest'[k].status = "split"
  BY DEF SplitStays
<1>1. ASSUME NEW q \in Runs \ {r}, run[q].pc # "idle", Holds(q)'
      PROVE  /\ Holds(q) /\ J(q) \in Jobs /\ run'[q] = run[q] /\ J(q)' = J(q)
             /\ chunk'[J(q)] = chunk[J(q)]
  <2>1. run'[q] = run[q] /\ J(q) \in Jobs /\ J(q)' = J(q)
    BY <1>1, LiveAt DEF J
  <2>2. lease[J(q)] = q
    BY <1>1, <2>1 DEF Holds, NoOtherLease
  <2> QED
    BY <2>1, <2>2 DEF Holds
<1>2. ASSUME NEW q \in Runs \ {r} PROVE Cancelling(q)'
  <2>1. SUFFICES ASSUME run'[q].pc \in CancelPcs, Holds(q)' PROVE cancel'[J(q)']
    BY DEF Cancelling
  <2>2. run[q].pc \in CancelPcs /\ run[q].pc # "idle"
    BY <2>1 DEF CancelPcs
  <2> QED
    BY <1>1, <2>1, <2>2 DEF Coverage, Cancelling
<1>3. ASSUME NEW q \in Runs \ {r} PROVE Tracks(q)'
  <2>1. SUFFICES ASSUME run'[q].pc \notin {"idle", "plan"}, Holds(q)', ~cancel'[J(q)']
                 PROVE  Tracked(chunk'[J(q)'], manifest', J(q)', Elems(run'[q].todo))
    BY DEF Tracks
  <2>2. /\ run[q].pc \notin {"idle", "plan"} /\ Holds(q) /\ run'[q] = run[q] /\ J(q)' = J(q)
        /\ chunk'[J(q)] = chunk[J(q)]
    BY <1>1, <2>1
  <2>3. Tracked(chunk[J(q)], manifest, J(q), Elems(run[q].todo))
    BY <2>1, <2>2 DEF Coverage, Tracks
  <2> QED
    BY <1>0, <2>2, <2>3, TrackedKept
<1>4. ASSUME NEW j \in Jobs, job'[j] = "completed" PROVE Through(j)'
  <2>1. CASE job[j] = "completed"
    <3>1. lease[j] = NoOne
      BY <2>1 DEF Coverage, ActiveLeases
    <3>2. chunk'[j] = chunk[j] /\ Through(j)
      BY <2>1, <3>1, NoOneAssumption DEF Coverage
    <3>3. Tracked(chunk'[j], manifest', j, {})
      BY <1>0, <3>2, TrackedKept DEF Through
    <3> QED
      BY <3>2, <3>3 DEF Through
  <2> QED
    BY <1>4, <2>1
<1> QED
  BY <1>2, <1>3, <1>4 DEF Coverage, ActiveLeases

\* What a run that works at a chunk leaves alone.
LEMMA WorkRows ==
    ASSUME Inv, NEW r \in Runs, Work(r)
    PROVE  /\ \A j \in Jobs : chunk'[j] = chunk[j] \/ (j = J(r) /\ lease[j] = r)
           /\ \A k \in Keys \ {K(r)} : chunk'[J(r)][k] = chunk[J(r)][k]
           /\ J(r)' = J(r) \/ run'[r].pc = "idle"
           /\ NoOtherLease(r) /\ \A q \in Runs \ {r} : run'[q] = run[q]
<1>1. J(r) \in Jobs /\ K(r) \in Keys /\ chunk \in [Jobs -> [Keys -> ChunkStatuses]]
  BY WorkAt DEF Inv, RowsOK, ChunkOK
<1>2. /\ \A j \in Jobs : chunk'[j] = chunk[j] \/ (j = J(r) /\ lease[j] = r)
      /\ \A k \in Keys \ {K(r)} : chunk'[J(r)][k] = chunk[J(r)][k]
  BY <1>1, WorkChunk DEF WritesChunk, SetChunk, Holds
<1> QED
  BY <1>2, WorkWrites DEF OwnThread, NoOtherLease, J

LEMMA WorkTracks ==
    ASSUME Inv, Coverage, NEW r \in Runs, Work(r) PROVE Cancelling(r)' /\ Tracks(r)'
<1>1. /\ run[r].pc \notin {"idle", "plan"} /\ run[r] \in Live /\ run[r].todo \in Seq(Keys)
      /\ run[r].todo # <<>> /\ J(r) \in Jobs /\ K(r) \in Keys
      /\ Tail(run[r].todo) \in Seq(Keys)
      /\ chunk \in [Jobs -> [Keys -> ChunkStatuses]]
  BY WorkAt DEF Inv, RowsOK, ChunkOK, Live
<1>2. /\ UNCHANGED <<cancel, lease>>
      /\ \A k \in Keys : manifest[k].status = "split" => manifest'[k].status = "split"
  BY WorkWrites DEF SplitStays
<1>3. /\ \A k \in Keys \ {K(r)} : chunk'[J(r)][k] = chunk[J(r)][k]
      /\ Elems(run[r].todo) = {K(r)} \cup Elems(Tail(run[r].todo))
  BY <1>1, WorkRows, HeadAndTail DEF K
<1>4. J(r)' = J(r) /\ (Holds(r)' <=> Holds(r))
  BY <1>2, WorkTurn DEF Turn, LeavesChunk, Skips, TakesChunk, FindsChunk, OwnTurn, ImportTurn,
     RecordTurn, SplitTurn, RestTurn, Stays, Proceeds, J, Holds
<1>5. Cancelling(r)'
  <2>1. run'[r].pc \in CancelPcs => run[r].pc \in CancelPcs \/ cancel[J(r)]
    BY WorkTurn DEF Turn, LeavesChunk, Skips, TakesChunk, FindsChunk, OwnTurn, ImportTurn,
       RecordTurn, SplitTurn, RestTurn, Proceeds, CancelPcs, UnsettledPcs, ImportPcs, TryPcs, StorePcs
  <2> QED
    BY <1>2, <1>4, <2>1 DEF Coverage, Cancelling
<1>6. Tracks(r)'
  <2>1. SUFFICES ASSUME Holds(r), ~cancel[J(r)]
                 PROVE  Tracked(chunk'[J(r)], manifest', J(r), Elems(run'[r].todo))
    BY <1>2, <1>4 DEF Tracks
  <2>2. Tracked(chunk[J(r)], manifest, J(r), Elems(run[r].todo))
    BY <1>1, <2>1 DEF Coverage, Tracks
  <2>3. CASE Stays(r)
    <3>1. Tracked(chunk'[J(r)], manifest, J(r), Elems(run'[r].todo))
      BY <1>3, <2>2, <2>3, TrackedMoves DEF Stays
    <3> QED
      BY <1>2, <3>1, TrackedKept
  <2>4. CASE LeavesChunk(r)
    <3>1. CASE Proceeds(r, Tail(run[r].todo)) /\ chunk'[J(r)][K(r)] \in Ended
      <4>1. run'[r].todo = Tail(run[r].todo)
        BY <3>1 DEF Proceeds
      <4>2. \A k \in Keys \ {K(r)} : /\ chunk'[J(r)][k] = chunk[J(r)][k]
                                     /\ k \in Elems(run[r].todo) => k \in Elems(run'[r].todo)
        BY <1>3, <4>1
      <4> DEFINE rows == chunk[J(r)]
                 rows2 == chunk'[J(r)]
                 list == Elems(run[r].todo)
                 list2 == Elems(run'[r].todo)
      <4>3. /\ Tracked(rows, manifest, J(r), list) /\ rows2[K(r)] \in Ended
            /\ \A k \in Keys \ {K(r)} : rows2[k] = rows[k] /\ (k \in list => k \in list2)
        BY <2>2, <3>1, <4>2
      <4> HIDE DEF rows, rows2, list, list2
      <4>4. Tracked(rows2, manifest', J(r), list2)
        <5>1. K(r) \in list2 \/ rows2[K(r)] \in Ended
          BY <4>3
        <5>2. Tracked(rows2, manifest, J(r), list2)
          BY <4>3, <5>1, TrackedMoves
        <5> QED
          BY <1>2, <5>2, TrackedKept
      <4> QED
        BY <4>4 DEF rows2, list2
    <3>2. CASE run[r].pc = "cancelchunk"
      BY <2>1, <3>2 DEF Coverage, Cancelling, CancelPcs
    <3>3. CASE Proceeds(r, Children[K(r)] \o Tail(run[r].todo)) /\ SetChunk(r, "split")
      <4>1. Children[K(r)] \in Seq(Keys) /\ Elems(Children[K(r)]) \subseteq Keys
        BY <1>1, ChunksAssumption DEF Elems
      <4>2. Elems(Children[K(r)]) \cup Elems(Tail(run[r].todo)) \subseteq Elems(run'[r].todo)
        BY <1>1, <3>3, <4>1, ElemsJoined DEF Proceeds
      <4>3. chunk'[J(r)][K(r)] = "split"
        BY <1>1, <3>3 DEF SetChunk
      <4>4. Tracked(chunk'[J(r)], manifest, J(r), Elems(run'[r].todo))
        <5>1. \A k \in Keys \ {K(r)} : /\ chunk'[J(r)][k] = chunk[J(r)][k]
                                       /\ k \in Elems(run[r].todo) => k \in Elems(run'[r].todo)
          BY <1>3, <4>2
        <5> DEFINE rows == chunk[J(r)]
                   rows2 == chunk'[J(r)]
                   list == Elems(run[r].todo)
                   list2 == Elems(run'[r].todo)
        <5>2. /\ Tracked(rows, manifest, J(r), list) /\ rows2[K(r)] = "split"
              /\ \A k \in Keys \ {K(r)} : rows2[k] = rows[k] /\ (k \in list => k \in list2)
              /\ Elems(Children[K(r)]) \subseteq list2
          BY <2>2, <4>2, <4>3, <5>1
        <5> HIDE DEF rows, rows2, list, list2
        <5>3. Tracked(rows2, manifest, J(r), list2)
          BY <1>1, <4>1, <5>2, TrackedSplit
        <5> QED
          BY <5>3 DEF rows2, list2
      <4> QED
        BY <1>2, <4>4, TrackedKept
    <3> QED
      BY <1>1, <2>4, <3>1, <3>2, <3>3 DEF LeavesChunk, SetChunk, Row, Ended
  <2> QED
    BY <2>3, <2>4, WorkTurn DEF Turn, Skips, TakesChunk, FindsChunk, OwnTurn, ImportTurn,
       RecordTurn, SplitTurn, RestTurn
<1> QED
  BY <1>5, <1>6

LEMMA WorkCovers ==
    ASSUME Inv, Coverage, NEW r \in Runs, Work(r) PROVE Coverage'
<1>1. UNCHANGED <<job, cancel, lease>> /\ SplitStays
  BY WorkWrites
<1>2. /\ \A j \in Jobs : chunk'[j] = chunk[j] \/ lease[j] = r
      /\ NoOtherLease(r) /\ \A q \in Runs \ {r} : run'[q] = run[q]
  BY WorkRows
<1>3. Cancelling(r)' /\ Tracks(r)'
  BY WorkTracks
<1> QED
  BY <1>1, <1>2, <1>3, CoverStep DEF Coverage, ActiveLeases

\* A run takes a job, and finds out what is left to do.
LEMMA StartCovers ==
    ASSUME Inv, Coverage, NEW r \in Runs, NEW j \in Jobs, Start(r, j) PROVE Coverage'
<1> DEFINE legacy == {h \in Hashes : vector[h] # NoOne}
           t == [Idle EXCEPT !.job = j, !.pc = "plan", !.legacy = legacy]
<1>1. run' = [run EXCEPT ![r] = t] /\ t.pc = "plan" /\ run \in [Runs -> Run]
  <2> HIDE DEF legacy
  <2>1. t.pc = "plan"
    BY IdleIsNotLive
  <2> QED
    BY <2>1 DEF Start, Inv, legacy
<1> HIDE DEF t
<1>2. run'[r].pc = "plan" /\ \A q \in Runs \ {r} : run'[q] = run[q]
  BY <1>1
<1>3. Cancelling(r)' /\ Tracks(r)'
  BY <1>2 DEF Cancelling, CancelPcs, Tracks
<1>4. /\ NoOtherLease(r) /\ SplitStays /\ UNCHANGED <<job, cancel, chunk>>
      /\ \A i \in Jobs : lease'[i] # NoOne => job'[i] = "active"
  BY DEF Start, Inv, RowsOK, LeaseOK, NoOtherLease, SplitStays, Coverage, ActiveLeases
<1> QED
  BY <1>2, <1>3, <1>4, CoverStep

LEMMA PlanCovers ==
    ASSUME Inv, Coverage, NEW r \in Runs, Plan(r) PROVE Coverage'
<1>1. run[r] \in Live /\ J(r) \in Jobs /\ run \in [Runs -> Run]
  BY LiveAt DEF Plan, Fenced, At, Inv
<1>2. UNCHANGED <<job, cancel, lease, chunk, manifest>>
  BY DEF Plan
<1> DEFINE todo == Leaves(J(r), PersistedSplit(J(r)))
<1> DEFINE t == [run[r] EXCEPT !.pc = "dedup", !.todo = todo]
<1>3. run' = [run EXCEPT ![r] = t]
  BY DEF Plan
<1>4. Tracked(chunk[J(r)], manifest, J(r), Elems(todo))
  BY <1>1, TrackedAtFirst
<1> HIDE DEF todo
<1>5. t.pc = "dedup" /\ t.todo = todo /\ t.job = run[r].job
  BY <1>1 DEF Live
<1> HIDE DEF t
<1>6. /\ run'[r].pc = "dedup" /\ run'[r].todo = todo /\ J(r)' = J(r)
      /\ \A q \in Runs \ {r} : run'[q] = run[q]
  BY <1>1, <1>3, <1>5 DEF J
<1>7. Cancelling(r)' /\ Tracks(r)'
  BY <1>2, <1>4, <1>6 DEF Cancelling, CancelPcs, Tracks
<1> QED
  BY <1>2, <1>6, <1>7, CoverStep DEF NoOtherLease, SplitStays, Coverage, ActiveLeases

LEMMA DedupCovers ==
    ASSUME Inv, Coverage, NEW r \in Runs, Dedup(r) PROVE Coverage'
<1>1. run[r] \in Live /\ run[r].pc = "dedup" /\ run \in [Runs -> Run]
  BY LiveAt DEF Dedup, Fenced, At, Inv
<1>2. UNCHANGED <<job, cancel, lease, chunk, manifest>>
  BY DEF Dedup
<1> DEFINE found == {k \in ExistingKeys(J(r)) : \E i \in DOMAIN run[r].todo : run[r].todo[i] = k}
<1> DEFINE t == [run[r] EXCEPT !.pc = "next", !.existing = found]
<1>3. run' = [run EXCEPT ![r] = t]
  BY DEF Dedup
<1> HIDE DEF found
<1>5. t.pc = "next" /\ t.todo = run[r].todo /\ t.job = run[r].job
  BY <1>1 DEF Live
<1> HIDE DEF t
<1>6. /\ run'[r].pc = "next" /\ run'[r].todo = run[r].todo /\ J(r)' = J(r)
      /\ \A q \in Runs \ {r} : run'[q] = run[q]
  BY <1>1, <1>3, <1>5 DEF J
<1>7. Cancelling(r)' /\ Tracks(r)'
  BY <1>1, <1>2, <1>6 DEF Cancelling, CancelPcs, Tracks, Coverage, Holds
<1> QED
  BY <1>2, <1>6, <1>7, CoverStep DEF NoOtherLease, SplitStays, Coverage, ActiveLeases

\* The run of r is over.
LEMMA GoneCovers ==
    ASSUME Inv, Coverage, NEW r \in Runs, run' = [run EXCEPT ![r] = Idle],
           lease' = lease \/ lease' = [lease EXCEPT ![J(r)] = NoOne],
           UNCHANGED <<cancel, chunk, manifest>>,
           \A j \in Jobs : lease'[j] # NoOne => job'[j] = job[j],
           \A j \in Jobs : job'[j] = "completed" => job[j] = "completed" \/ Through(j)
    PROVE  Coverage'
<1>1. run'[r].pc = "idle" /\ \A q \in Runs \ {r} : run'[q] = run[q]
  BY IdleIsNotLive DEF Inv
<1>2. Cancelling(r)' /\ Tracks(r)'
  BY <1>1 DEF Cancelling, CancelPcs, Tracks
<1>3. /\ NoOtherLease(r) /\ SplitStays /\ \A j \in Jobs : Through(j)' <=> Through(j)
      /\ \A j \in Jobs : lease'[j] # NoOne => job'[j] = "active"
  BY NoOneAssumption
     DEF Inv, RowsOK, LeaseOK, NoOtherLease, SplitStays, Through, Coverage, ActiveLeases
<1> QED
  BY <1>1, <1>2, <1>3, CoverStep

LEMMA EndRunCovers ==
    ASSUME Inv, Coverage, NEW r \in Runs, EndRun(r) PROVE Coverage'
<1>1. J(r) \in Jobs /\ run[r].pc = "next" /\ Holds(r)
  BY LiveAt DEF EndRun, Fenced, At
<1>2. lease' = [lease EXCEPT ![J(r)] = NoOne] /\ run' = [run EXCEPT ![r] = Idle]
      /\ UNCHANGED <<cancel, chunk, manifest>>
  BY DEF EndRun
<1>3. \A j \in Jobs : lease'[j] # NoOne => job'[j] = job[j]
  BY <1>1, <1>2 DEF EndRun, Inv, RowsOK, LeaseOK, JobsOK
<1>4. ASSUME NEW j \in Jobs, job'[j] = "completed" PROVE job[j] = "completed" \/ Through(j)
  <2>1. CASE j # J(r)
    BY <1>4, <2>1 DEF EndRun, Inv, RowsOK, JobsOK
  <2>2. CASE j = J(r)
    <3>1. ~cancel[j] /\ run[r].todo = <<>> /\ \A k \in Keys : chunk[j][k] # "failed"
      BY <1>1, <1>4, <2>2 DEF EndRun, Inv, RowsOK, JobsOK
    <3>2. Elems(run[r].todo) = {}
      BY <3>1 DEF Elems
    <3>3. Tracked(chunk[j], manifest, j, {})
      BY <1>1, <2>2, <3>1, <3>2 DEF Coverage, Tracks
    <3> QED
      BY <3>1, <3>3 DEF Through
  <2> QED
    BY <2>1, <2>2
<1> QED
  BY <1>2, <1>3, <1>4, GoneCovers

LEMMA FaultCovers ==
    ASSUME Inv, Coverage, NEW r \in Runs, Fault(r) PROVE Coverage'
<1>1. CASE Crash(r)
  BY <1>1, GoneCovers DEF Crash
<1>2. CASE Break(r)
  <2>1. J(r) \in Jobs
    BY <1>2, LiveAt DEF Break
  <2>2. /\ \A j \in Jobs : lease'[j] # NoOne => job'[j] = job[j]
        /\ \A j \in Jobs : job'[j] = "completed" => job[j] = "completed"
    BY <1>2, <2>1 DEF Break, Inv, RowsOK, LeaseOK, JobsOK
  <2> QED
    BY <1>2, <2>2, GoneCovers DEF Break
<1>3. CASE Expire(r)
  <2>1. J(r) \in Jobs /\ UNCHANGED <<job, cancel, chunk, manifest, run>>
        /\ lease' = [lease EXCEPT ![J(r)] = NoOne]
    BY <1>3, LiveAt DEF Expire
  <2>2. ~Holds(r)' /\ NoOtherLease(r) /\ SplitStays
        /\ \A j \in Jobs : lease'[j] # NoOne => job'[j] = "active"
    BY <2>1, NoOneAssumption
       DEF Inv, RowsOK, LeaseOK, NoOtherLease, SplitStays, Coverage, ActiveLeases, Holds, J
  <2>3. Cancelling(r)' /\ Tracks(r)'
    BY <2>2 DEF Cancelling, Tracks
  <2> QED
    BY <2>1, <2>2, <2>3, CoverStep
<1>4. CASE BookkeepingFails(r)
  <2>1. Goto(r, "error") /\ run[r].pc \in {"settle", "record", "done", "drop"}
        /\ UNCHANGED <<job, cancel, lease, chunk, manifest>>
    BY <1>4 DEF BookkeepingFails
  <2>2. run[r] \in Live
    BY <2>1, LiveAt
  <2>3. Stays(r) /\ run'[r].pc = "error" /\ \A q \in Runs \ {r} : run'[q] = run[q]
    BY <2>1, <2>2, GotoStays DEF Goto, Inv
  <2>4. Cancelling(r)' /\ Tracks(r)'
    BY <2>1, <2>3 DEF Cancelling, CancelPcs, Tracks, Coverage, Stays, Holds, J
  <2> QED
    BY <2>1, <2>3, <2>4, CoverStep DEF NoOtherLease, SplitStays, Coverage, ActiveLeases
<1> QED
  BY <1>1, <1>2, <1>3, <1>4 DEF Fault

\* A step on the row of job j, which nobody works on or which is being cancelled.
LEMMA JobCovers ==
    ASSUME Inv, Coverage, NEW j \in Jobs, UNCHANGED <<lease, manifest, run>>,
           \A i \in Jobs \ {j} : job'[i] = job[i] /\ cancel'[i] = cancel[i] /\ chunk'[i] = chunk[i],
           job'[j] # "completed", lease[j] = NoOne \/ (cancel'[j] /\ job'[j] = "active")
    PROVE  Coverage'
<1>1. ActiveLeases'
  BY DEF Coverage, ActiveLeases
<1>2. ASSUME NEW r \in Runs PROVE Cancelling(r)' /\ Tracks(r)'
  <2>1. CASE run[r].pc = "idle"
    BY <2>1 DEF Cancelling, CancelPcs, Tracks
  <2>2. CASE run[r].pc # "idle" /\ J(r) = j
    BY <2>2, NoOneAssumption DEF Cancelling, Tracks, Holds, J
  <2>3. CASE run[r].pc # "idle" /\ J(r) # j
    <3>1. J(r) \in Jobs \ {j}
      BY <2>3, LiveAt
    <3> QED
      BY <3>1 DEF Coverage, Cancelling, Tracks, Holds, J
  <2> QED
    BY <2>1, <2>2, <2>3
<1>3. ASSUME NEW i \in Jobs, job'[i] = "completed" PROVE Through(i)'
  BY <1>3 DEF Coverage, Through
<1> QED
  BY <1>1, <1>2, <1>3 DEF Coverage

LEMMA StepCovers == Inv /\ Coverage /\ [Next]_vars => Coverage'
<1> SUFFICES ASSUME Inv, Coverage, [Next]_vars PROVE Coverage'
  OBVIOUS
<1>1. ASSUME NEW r \in Runs, RunStep(r) PROVE Coverage'
  <2>1. CASE Lose(r)
    BY <2>1, GoneCovers DEF Lose
  <2> QED
    BY <1>1, <2>1, PlanCovers, DedupCovers, WorkCovers, EndRunCovers DEF RunStep, Work
<1>2. ASSUME NEW j \in Jobs, RequestCancel(j) \/ WriteOff(j) \/ Retry(j) PROVE Coverage'
  BY <1>2, JobCovers DEF RequestCancel, WriteOff, Retry, Inv, RowsOK, JobsOK, ChunkOK
<1>3. CASE UNCHANGED vars
  BY <1>3 DEF vars, Coverage, ActiveLeases, Cancelling, Tracks, Through, Holds, J
<1> QED
  BY <1>1, <1>2, <1>3, StartCovers, FaultCovers DEF Next

LEMMA InitCovers == Init => Coverage
<1> SUFFICES ASSUME Init PROVE Coverage
  OBVIOUS
<1>1. \A r \in Runs : run[r].pc = "idle"
  BY IdleIsNotLive DEF Init
<1> QED
  BY <1>1 DEF Init, Coverage, ActiveLeases, Cancelling, CancelPcs, Tracks

-----------------------------------------------------------------------------
(* What the rows say of a key has happened.  A chunk is skipped because its key was imported,   *)
(* and no manifest that says so is taken back: for this the chunk rows must be written with the *)
(* manifests ("error" does not happen), or the project has a single import.                     *)

NoErrors == "error" \notin Faults
Recorded == NoErrors \/ \A i, j \in Jobs : i = j

Succeeded(k) == manifest[k].status = "succeeded"
Sure(k) == RowsOf(k) # {} \/ (NoErrors /\ Succeeded(k))

NamesItsJob == \A k \in Keys : manifest[k].job = NoOne <=> manifest[k].status = "absent"
SucceededRows ==
    \A j \in Jobs, k \in Keys : chunk[j][k] = "succeeded" => Succeeded(k) /\ manifest[k].job = j
SkippedRows == \A j \in Jobs, k \in Keys : chunk[j][k] = "skipped" => Sure(k)

OpenPcs == ImportPcs \cup {"own", "ownrelease", "ownhash", "reclaim", "split"}
SkipPcs == {"skipclaim", "skipmark", "skip"}
OpenRow(r) == run[r].pc \in OpenPcs /\ Holds(r) => Row(r) # "succeeded"
RecordedRow(r) ==
    run[r].pc \in {"done", "resumed"} /\ Holds(r) => Succeeded(K(r)) /\ manifest[K(r)].job = J(r)
UnrecordedRow(r) ==
    NoErrors /\ Holds(r) =>
        /\ run[r].pc \in UnsettledPcs \cup {"own", "ownrelease"} => ~Succeeded(K(r))
        /\ run[r].pc = "split" =>
            \/ manifest[K(r)].status = "split"
            \/ manifest[K(r)].status = "claimed" /\ manifest[K(r)].job = J(r)
SureRow(r) ==
    (run[r].pc \in SkipPcs => Sure(K(r))) /\ (run[r].pc # "idle" => \A k \in run[r].existing : Sure(k))
AtRow(r) == OpenRow(r) /\ RecordedRow(r) /\ UnrecordedRow(r) /\ SureRow(r)

Rows == NamesItsJob /\ SucceededRows /\ SkippedRows /\ \A r \in Runs : AtRow(r)

\* What is stored for a key stays.
LEMMA RowsGrow ==
    ASSUME Inv, NEW r \in Runs, UNCHANGED vector \/ Insert(r)
    PROVE  \A k \in Keys : RowsOf(k) \subseteq RowsOf(k)'
<1>1. CASE UNCHANGED vector
  BY <1>1 DEF RowsOf
<1>2. CASE Insert(r)
  <2>1. \A h \in Hashes : vector[h] # NoOne => vector'[h] = vector[h]
    BY <1>2 DEF Insert
  <2>2. \A k \in Keys : k # NoOne
    BY NoOneAssumption
  <2> QED
    BY <2>1, <2>2 DEF RowsOf
<1> QED
  BY <1>1, <1>2

\* How the manifest of the key at hand may change, and no other does.
LEMMA ManifestMoves ==
    ASSUME Inv, NEW r \in Runs, Work(r)
    PROVE  /\ \A k \in Keys \ {K(r)} : manifest'[k] = manifest[k]
           /\ \/ manifest'[K(r)] = manifest[K(r)]
              \/ /\ Holds(r) /\ Claimable(K(r)) /\ manifest'[K(r)] = [status |-> "claimed", job |-> J(r)]
              \/ /\ Holds(r) /\ manifest[K(r)].job = J(r) /\ manifest'[K(r)].job = J(r)
                 /\ \/ manifest'[K(r)].status = "succeeded"
                    \/ run[r].pc \in MarkPcs /\ manifest'[K(r)].status \notin {"absent", "succeeded"}
<1>1. K(r) \in Keys /\ manifest \in [Keys -> Manifest]
  BY WorkAt DEF Inv, RowsOK, ManifestOK
<1>2. ASSUME NEW status \in ManifestStatuses, MarkManifest(r, status)
      PROVE  /\ \A k \in Keys \ {K(r)} : manifest'[k] = manifest[k]
             /\ \/ manifest'[K(r)] = manifest[K(r)]
                \/ /\ manifest[K(r)].job = J(r) /\ manifest'[K(r)].job = J(r)
                   /\ manifest'[K(r)].status = status
  BY <1>1, <1>2 DEF MarkManifest, Manifest
<1>3. "succeeded" \in ManifestStatuses
  BY DEF ManifestStatuses
<1>4. CASE UNCHANGED manifest
  BY <1>4
<1>5. CASE Holds(r) /\ Claimable(K(r)) /\ ClaimManifest(r)
  BY <1>1, <1>5 DEF ClaimManifest
<1>6. CASE Holds(r) /\ MarkManifest(r, "succeeded")
  BY <1>2, <1>3, <1>6
<1>7. CASE /\ Holds(r) /\ run[r].pc \in MarkPcs
           /\ \E status \in ManifestStatuses \ {"absent", "succeeded"} : MarkManifest(r, status)
  BY <1>2, <1>7
<1> QED
  BY <1>4, <1>5, <1>6, <1>7, WorkManifest DEF WritesManifest

LEMMA WorkNames ==
    ASSUME Inv, NamesItsJob, NEW r \in Runs, Work(r)
    PROVE  NamesItsJob' /\ \A k \in Keys : manifest[k].status # "absent" => manifest'[k].status # "absent"
<1>1. J(r) # NoOne
  BY WorkAt, NoOneAssumption
<1>2. ASSUME NEW k \in Keys
      PROVE  /\ manifest'[k].job = NoOne <=> manifest'[k].status = "absent"
             /\ manifest[k].status # "absent" => manifest'[k].status # "absent"
  <2>1. CASE manifest'[k] = manifest[k]
    BY <2>1 DEF NamesItsJob
  <2>2. CASE manifest'[k] # manifest[k]
    <3>1. k = K(r)
      BY <2>2, ManifestMoves
    <3>2. manifest'[K(r)].job = J(r) /\ manifest'[K(r)].status # "absent"
      <4>1. manifest'[K(r)] # manifest[K(r)]
        BY <2>2, <3>1
      <4>2. CASE manifest'[K(r)] = [status |-> "claimed", job |-> J(r)]
        BY <4>2
      <4>3. CASE manifest'[K(r)].job = J(r) /\ manifest'[K(r)].status # "absent"
        BY <4>3
      <4> QED
        BY <4>1, <4>2, <4>3, ManifestMoves
    <3> QED
      BY <1>1, <3>1, <3>2
  <2> QED
    BY <2>1, <2>2
<1> QED
  BY <1>2 DEF NamesItsJob

LEMMA SureStays ==
    ASSUME Inv, Rows, NEW r \in Runs, Work(r), NEW k \in Keys, Sure(k) PROVE Sure(k)'
<1>1. CASE RowsOf(k) # {}
  BY <1>1, WorkWrites, RowsGrow DEF Sure
<1>2. CASE NoErrors /\ Succeeded(k)
  <2>1. CASE k # K(r)
    BY <1>2, <2>1, ManifestMoves DEF Sure, Succeeded, NoErrors
  <2>2. CASE k = K(r) /\ run[r].pc \in MarkPcs /\ Holds(r)
    BY <1>2, <2>2 DEF Rows, AtRow, UnrecordedRow, MarkPcs, UnsettledPcs, ImportPcs, Succeeded
  <2>3. CASE k = K(r) /\ ~(run[r].pc \in MarkPcs /\ Holds(r))
    BY <1>2, <2>3, ManifestMoves DEF Sure, Succeeded, Claimable, ReclaimableStatuses, NoErrors
  <2> QED
    BY <2>1, <2>2, <2>3
<1> QED
  BY <1>1, <1>2 DEF Sure

LEMMA WorkRecords ==
    ASSUME Inv, Rows, NEW r \in Runs, Work(r)
    PROVE  NamesItsJob' /\ SucceededRows' /\ SkippedRows'
<1>1. J(r) \in Jobs /\ K(r) \in Keys /\ chunk \in [Jobs -> [Keys -> ChunkStatuses]]
  BY WorkAt DEF Inv, RowsOK, ChunkOK
<1>2. NamesItsJob'
  BY WorkNames DEF Rows
<1>3. ASSUME NEW j \in Jobs, NEW k \in Keys
      PROVE  /\ chunk'[j][k] = "succeeded" =>
                  \/ chunk[j][k] = "succeeded"
                  \/ j = J(r) /\ k = K(r) /\ Holds(r) /\ run[r].pc \in {"done", "resumed"}
             /\ chunk'[j][k] = "skipped" =>
                  chunk[j][k] = "skipped" \/ (j = J(r) /\ k = K(r) /\ run[r].pc = "skip")
  BY <1>1, WorkChunk DEF WritesChunk, SetChunk, Row
<1>4. ASSUME NEW j \in Jobs, NEW k \in Keys, chunk'[j][k] = "succeeded"
      PROVE  Succeeded(k)' /\ manifest'[k].job = j
  <2>1. Succeeded(k) /\ manifest[k].job = j
    BY <1>3, <1>4 DEF Rows, SucceededRows, AtRow, RecordedRow
  <2>2. CASE k = K(r) /\ run[r].pc \in MarkPcs /\ Holds(r) /\ j = J(r)
    BY <1>3, <1>4, <2>2
       DEF Rows, AtRow, OpenRow, OpenPcs, MarkPcs, ImportPcs, Row
  <2>3. CASE ~(k = K(r) /\ run[r].pc \in MarkPcs /\ Holds(r) /\ j = J(r))
    BY <2>1, <2>3, ManifestMoves DEF Succeeded, Claimable, ReclaimableStatuses
  <2> QED
    BY <2>2, <2>3
<1>5. ASSUME NEW j \in Jobs, NEW k \in Keys, chunk'[j][k] = "skipped" PROVE Sure(k)'
  <2>1. Sure(k)
    BY <1>3, <1>5 DEF Rows, SkippedRows, AtRow, SureRow, SkipPcs
  <2> QED
    BY <2>1, SureStays
<1> QED
  BY <1>2, <1>4, <1>5 DEF SucceededRows, SkippedRows

\* A run that works at a chunk keeps what the others rely on ...
LEMMA OthersRecord ==
    ASSUME Inv, Rows, NEW r \in Runs, Work(r), NEW q \in Runs \ {r} PROVE AtRow(q)'
<1>1. run'[q] = run[q] /\ UNCHANGED lease /\ SplitStays /\ AtRow(q)
  BY WorkRows, WorkWrites DEF Rows
<1>2. CASE run[q].pc = "idle"
  BY <1>1, <1>2 DEF AtRow, OpenRow, OpenPcs, ImportPcs, TryPcs, StorePcs, RecordedRow, UnrecordedRow,
     UnsettledPcs, SureRow, SkipPcs
<1>3. CASE run[q].pc # "idle"
  <2>1. run[q] \in Live /\ J(q) \in Jobs /\ J(q)' = J(q) /\ K(q)' = K(q) /\ (Holds(q)' <=> Holds(q))
    BY <1>1, <1>3, LiveAt DEF J, K, Holds
  <2>2. Holds(q) => Row(q)' = Row(q)
    BY <2>1, WorkRows DEF Row, Holds
  <2>3. run[q].pc \in OpenPcs \cup {"done", "resumed", "skipclaim", "skipmark", "skip"} => K(q) \in Keys
    BY ChunkAtHand DEF OpenPcs, ImportPcs, TryPcs, StorePcs, Chunkless
  <2>4. ASSUME Holds(q), K(q) \in Keys, manifest[K(q)].job = J(q), ~Claimable(K(q))
        PROVE  manifest'[K(q)] = manifest[K(q)]
    <3>1. CASE K(q) # K(r)
      BY <2>4, <3>1, ManifestMoves
    <3>2. CASE K(q) = K(r)
      <4>1. ~(Holds(r) /\ J(r) = J(q))
        BY <2>4 DEF Holds
      <4> QED
        BY <2>4, <3>2, <4>1, ManifestMoves
    <3> QED
      BY <3>1, <3>2
  <2>5. OpenRow(q)'
    BY <1>1, <2>1, <2>2 DEF AtRow, OpenRow
  <2>6. RecordedRow(q)'
    <3>1. SUFFICES ASSUME run[q].pc \in {"done", "resumed"}, Holds(q)
                   PROVE  manifest'[K(q)] = manifest[K(q)]
      BY <1>1, <2>1 DEF AtRow, RecordedRow, Succeeded
    <3> QED
      BY <1>1, <2>3, <2>4, <3>1 DEF AtRow, RecordedRow, Succeeded, Claimable, ReclaimableStatuses
  <2>7. UnrecordedRow(q)'
    <3>1. SUFFICES ASSUME NoErrors, Holds(q),
                          run[q].pc \in UnsettledPcs \cup {"own", "ownrelease", "split"}
                   PROVE  manifest'[K(q)] = manifest[K(q)]
      BY <1>1, <2>1 DEF AtRow, UnrecordedRow, Succeeded, NoErrors
    <3>2. K(q) \in Keys
      BY <2>3, <3>1 DEF OpenPcs, UnsettledPcs
    <3>3. CASE run[q].pc # "split"
      BY <2>4, <3>1, <3>2, <3>3
         DEF Inv, RunOK, OwnsKey, OwnedPcs, Ours, UnsettledPcs, Claimable, ReclaimableStatuses
    <3>4. CASE run[q].pc = "split"
      BY <1>1, <2>4, <3>1, <3>2, <3>4
         DEF AtRow, UnrecordedRow, SplitStays, Claimable, ReclaimableStatuses
    <3> QED
      BY <3>3, <3>4
  <2>8. SureRow(q)'
    <3>1. run[q].existing \subseteq Keys
      BY <2>1 DEF Live
    <3> QED
      BY <1>1, <1>3, <2>1, <2>3, <3>1, SureStays DEF AtRow, SureRow, SkipPcs
  <2> QED
    BY <2>5, <2>6, <2>7, <2>8 DEF AtRow
<1> QED
  BY <1>2, <1>3

\* ... and what it will rely on itself.
LEMMA OwnRecord ==
    ASSUME Inv, Rows, Recorded, NEW r \in Runs, Work(r) PROVE AtRow(r)'
<1>1. /\ run[r].pc # "idle" /\ run[r] \in Live /\ J(r) \in Jobs /\ K(r) \in Keys
      /\ run[r].existing \subseteq Keys /\ chunk \in [Jobs -> [Keys -> ChunkStatuses]]
  BY WorkAt DEF Live, Inv, RowsOK, ChunkOK
<1>2. AtRow(r) /\ UNCHANGED lease /\ NamesItsJob /\ (Holds(r) /\ run[r].pc \in OwnedPcs => Ours(r))
  BY WorkWrites DEF Rows, Inv, RunOK, OwnsKey
<1>3. ASSUME NEW k \in Keys, Sure(k) PROVE Sure(k)'
  BY <1>3, SureStays
<1>4. ASSUME run'[r].existing = run[r].existing
      PROVE  \A k \in run'[r].existing : Sure(k)'
  BY <1>1, <1>2, <1>3, <1>4 DEF AtRow, SureRow
<1>5. ASSUME Stays(r) PROVE K(r)' = K(r) /\ J(r)' = J(r) /\ (Holds(r)' <=> Holds(r))
  BY <1>2, <1>5 DEF Stays, K, J, Holds
<1>6. ASSUME Stays(r), Opens(r), Row(r) # "succeeded" PROVE Row(r)' # "succeeded"
  BY <1>1, <1>5, <1>6 DEF Opens, OpenChunk, SetChunk, Row
<1> USE DEF ImportPcs, TryPcs, StorePcs, UnsettledPcs, OpenPcs, SkipPcs
<1>7. CASE LeavesChunk(r)
  BY <1>4, <1>7 DEF LeavesChunk, Proceeds, AtRow, OpenRow, RecordedRow, UnrecordedRow, SureRow
<1>8. CASE RestTurn(r)
  BY <1>4, <1>8 DEF RestTurn, Stays, RestPcs, AtRow, OpenRow, RecordedRow, UnrecordedRow, SureRow
<1>9. CASE Skips(r)
  <2>1. Stays(r) /\ run'[r].pc \in SkipPcs
    BY <1>9 DEF Skips
  <2>2. Sure(K(r))
    <3>1. CASE manifest[K(r)].status = "succeeded" /\ manifest[K(r)].job # J(r)
      <4>1. CASE NoErrors
        BY <3>1, <4>1 DEF Sure, Succeeded
      <4>2. CASE \A i, j \in Jobs : i = j
        <5>1. manifest[K(r)].job \in Jobs \cup {NoOne}
          BY <1>1 DEF Inv, RowsOK, ManifestOK, Manifest
        <5>2. manifest[K(r)].job = NoOne
          BY <1>1, <3>1, <4>2, <5>1
        <5> QED
          BY <1>1, <1>2, <3>1, <5>2 DEF NamesItsJob
      <4> QED
        BY <4>1, <4>2 DEF Recorded
    <3> QED
      BY <1>1, <1>2, <1>9, <3>1 DEF Skips, AtRow, SureRow
  <2>3. SureRow(r)'
    BY <1>1, <1>3, <1>4, <1>5, <2>1, <2>2 DEF SureRow, Stays
  <2> QED
    BY <2>1, <2>3 DEF AtRow, OpenRow, RecordedRow, UnrecordedRow
<1>10. CASE TakesChunk(r)
  <2>1. /\ Stays(r) /\ run'[r].pc = "attempt" /\ Opens(r)
        /\ manifest'[K(r)] = [status |-> "claimed", job |-> J(r)]
    BY <1>1, <1>10 DEF TakesChunk, ClaimManifest, Inv, RowsOK, ManifestOK
  <2>2. Holds(r) => Row(r) # "succeeded"
    BY <1>2, <1>10 DEF TakesChunk, AtRow, OpenRow
  <2> QED
    BY <1>4, <1>5, <1>6, <2>1, <2>2
       DEF Stays, AtRow, OpenRow, RecordedRow, UnrecordedRow, SureRow, Succeeded
<1>11. CASE FindsChunk(r)
  <2>1. /\ Stays(r) /\ Opens(r) /\ Row(r) # "succeeded" /\ UNCHANGED manifest
        /\ \/ run'[r].pc = "split" /\ manifest[K(r)].status = "split"
           \/ run'[r].pc = "resumed" /\ manifest[K(r)].status = "succeeded" /\ manifest[K(r)].job = J(r)
           \/ run'[r].pc = "own" /\ manifest[K(r)].status = "claimed" /\ manifest[K(r)].job = J(r)
    BY <1>11 DEF FindsChunk
  <2> QED
    BY <1>4, <1>5, <1>6, <2>1
       DEF Stays, AtRow, OpenRow, RecordedRow, UnrecordedRow, SureRow, Succeeded
<1>12. CASE OwnTurn(r)
  <2>1. Stays(r) /\ Opens(r) /\ run'[r].pc \in {"attempt", "ownrelease", "ownhash", "reclaim"}
        /\ (run'[r].pc \in {"attempt", "ownrelease"} => run[r].pc = "own" /\ UNCHANGED manifest)
    BY <1>12 DEF OwnTurn, Opens
  <2>2. Holds(r) => Row(r) # "succeeded"
    BY <1>2, <1>12 DEF OwnTurn, AtRow, OpenRow
  <2> QED
    BY <1>2, <1>4, <1>5, <1>6, <2>1, <2>2
       DEF Stays, AtRow, OpenRow, RecordedRow, UnrecordedRow, SureRow, Succeeded, NoErrors
<1>13. CASE ImportTurn(r)
  <2>1. Stays(r) /\ Opens(r) /\ run[r].pc \in UnsettledPcs /\ run'[r].pc \in UnsettledPcs
        /\ UNCHANGED manifest
    BY <1>13 DEF ImportTurn
  <2> QED
    BY <1>2, <1>4, <1>5, <1>6, <2>1
       DEF Stays, AtRow, OpenRow, RecordedRow, UnrecordedRow, SureRow, Succeeded, NoErrors
<1>14. CASE RecordTurn(r)
  <2>1. Stays(r) /\ Opens(r) /\ run[r].pc = "record" /\ run'[r].pc = "done" /\ Holds(r) /\ Ours(r)
        /\ MarkManifest(r, "succeeded")
    BY <1>2, <1>14 DEF RecordTurn, Opens, OwnedPcs
  <2>2. manifest'[K(r)].status = "succeeded" /\ manifest'[K(r)].job = J(r)
    BY <1>1, <2>1 DEF MarkManifest, Ours, Inv, RowsOK, ManifestOK, Manifest
  <2> QED
    BY <1>2, <1>4, <1>5, <1>6, <2>1, <2>2
       DEF Stays, AtRow, OpenRow, RecordedRow, UnrecordedRow, SureRow, Succeeded
<1>15. CASE SplitTurn(r)
  <2>1. Stays(r) /\ Opens(r) /\ run[r].pc = "error" /\ run'[r].pc = "split" /\ UNCHANGED manifest
    BY <1>15 DEF SplitTurn, Opens
  <2>2. Holds(r) => Ours(r)
    BY <1>2, <2>1 DEF OwnedPcs
  <2> QED
    BY <1>2, <1>4, <1>5, <1>6, <2>1, <2>2
       DEF Stays, AtRow, OpenRow, RecordedRow, UnrecordedRow, SureRow, Succeeded, Ours, NoErrors
<1> QED
  BY <1>7, <1>8, <1>9, <1>10, <1>11, <1>12, <1>13, <1>14, <1>15, WorkTurn DEF Turn

LEMMA WorkRowsKept ==
    ASSUME Inv, Rows, Recorded, NEW r \in Runs, Work(r) PROVE Rows'
BY WorkRecords, OthersRecord, OwnRecord DEF Rows

\* A step that writes no row.
LEMMA QuietRows ==
    ASSUME Inv, Rows, NEW r \in Runs, \A q \in Runs \ {r} : run'[q] = run[q], NoOtherLease(r),
           UNCHANGED <<chunk, manifest, vector>>, AtRow(r)'
    PROVE  Rows'
<1>1. NamesItsJob' /\ SucceededRows' /\ SkippedRows' /\ \A k : Sure(k)' <=> Sure(k)
  BY DEF Rows, NamesItsJob, SucceededRows, SkippedRows, Sure, Succeeded, RowsOf, NoErrors
<1>2. ASSUME NEW q \in Runs \ {r} PROVE AtRow(q)'
  <2>1. run'[q] = run[q] /\ AtRow(q) /\ K(q)' = K(q) /\ J(q)' = J(q)
    BY DEF Rows, K, J
  <2>2. CASE run[q].pc = "idle"
    BY <2>1, <2>2 DEF AtRow, OpenRow, OpenPcs, ImportPcs, TryPcs, StorePcs, RecordedRow,
       UnrecordedRow, UnsettledPcs, SureRow, SkipPcs
  <2>3. CASE run[q].pc # "idle"
    <3>1. J(q) \in Jobs
      BY <2>3, LiveAt
    <3>2. Holds(q)' => Holds(q)
      BY <2>1, <3>1 DEF Holds, NoOtherLease
    <3>3. OpenRow(q)' /\ RecordedRow(q)' /\ UnrecordedRow(q)'
      BY <2>1, <3>2 DEF AtRow, OpenRow, RecordedRow, UnrecordedRow, Row, Succeeded, NoErrors
    <3>4. SureRow(q)'
      BY <1>1, <2>1 DEF AtRow, SureRow
    <3> QED
      BY <3>3, <3>4 DEF AtRow
  <2> QED
    BY <2>2, <2>3
<1> QED
  BY <1>1, <1>2 DEF Rows

LEMMA FreshRow ==
    ASSUME NEW r, run'[r].pc \in Chunkless, run'[r].pc # "idle" => \A k \in run'[r].existing : Sure(k)'
    PROVE  AtRow(r)'
BY DEF Chunkless, AtRow, OpenRow, OpenPcs, ImportPcs, TryPcs, StorePcs, RecordedRow, UnrecordedRow,
       UnsettledPcs, SureRow, SkipPcs

LEMMA GoneRows ==
    ASSUME Inv, Rows, NEW r \in Runs, run' = [run EXCEPT ![r] = Idle],
           lease' = lease \/ lease' = [lease EXCEPT ![J(r)] = NoOne],
           UNCHANGED <<chunk, manifest, vector>>
    PROVE  Rows'
<1>1. run'[r].pc = "idle" /\ \A q \in Runs \ {r} : run'[q] = run[q]
  BY IdleIsNotLive DEF Inv
<1>2. NoOtherLease(r)
  BY NoOneAssumption DEF Inv, RowsOK, LeaseOK, NoOtherLease
<1> QED
  BY <1>1, <1>2, FreshRow, QuietRows DEF Chunkless

LEMMA StartRows ==
    ASSUME Inv, Rows, NEW r \in Runs, NEW j \in Jobs, Start(r, j) PROVE Rows'
<1> DEFINE legacy == {h \in Hashes : vector[h] # NoOne}
           t == [Idle EXCEPT !.job = j, !.pc = "plan", !.legacy = legacy]
<1>1. run' = [run EXCEPT ![r] = t] /\ t.pc = "plan" /\ t.existing = {} /\ run \in [Runs -> Run]
  <2> HIDE DEF legacy
  <2>1. t.pc = "plan" /\ t.existing = {}
    BY IdleIsNotLive
  <2> QED
    BY <2>1 DEF Start, Inv, legacy
<1> HIDE DEF t
<1>2. run'[r].pc = "plan" /\ run'[r].existing = {} /\ \A q \in Runs \ {r} : run'[q] = run[q]
  BY <1>1
<1>3. NoOtherLease(r) /\ UNCHANGED <<chunk, manifest, vector>>
  BY DEF Start, Inv, RowsOK, LeaseOK, NoOtherLease
<1> QED
  BY <1>2, <1>3, FreshRow, QuietRows DEF Chunkless

LEMMA PlanRows ==
    ASSUME Inv, Rows, Recorded, NEW r \in Runs, Plan(r) \/ Dedup(r) PROVE Rows'
<1>1. /\ run[r] \in Live /\ J(r) \in Jobs /\ run \in [Runs -> Run] /\ run[r].pc # "idle"
      /\ manifest \in [Keys -> Manifest] /\ NamesItsJob /\ SureRow(r)
  BY LiveAt DEF Plan, Dedup, Fenced, At, Inv, RowsOK, ManifestOK, Rows, AtRow
<1>2. UNCHANGED <<lease, chunk, manifest, vector>>
  BY DEF Plan, Dedup
<1>3. /\ run'[r].pc \in Chunkless /\ \A q \in Runs \ {r} : run'[q] = run[q]
      /\ run'[r].existing = run[r].existing \/ run'[r].existing \subseteq ExistingKeys(J(r))
  <2>1. CASE Plan(r)
    <3> DEFINE todo == Leaves(J(r), PersistedSplit(J(r)))
               t == [run[r] EXCEPT !.pc = "dedup", !.todo = todo]
    <3>1. run' = [run EXCEPT ![r] = t]
      BY <2>1 DEF Plan
    <3> HIDE DEF todo
    <3>2. t.pc = "dedup" /\ t.existing = run[r].existing
      BY <1>1 DEF Live
    <3> HIDE DEF t
    <3> QED
      BY <1>1, <3>1, <3>2 DEF Chunkless
  <2>2. CASE Dedup(r)
    <3> DEFINE found == {k \in ExistingKeys(J(r)) : \E i \in DOMAIN run[r].todo : run[r].todo[i] = k}
               t == [run[r] EXCEPT !.pc = "next", !.existing = found]
    <3>1. run' = [run EXCEPT ![r] = t] /\ found \subseteq ExistingKeys(J(r))
      BY <2>2 DEF Dedup
    <3> HIDE DEF found
    <3>2. t.pc = "next" /\ t.existing = found
      BY <1>1 DEF Live
    <3> HIDE DEF t
    <3> QED
      BY <1>1, <3>1, <3>2 DEF Chunkless
  <2> QED
    BY <2>1, <2>2
<1>4. ASSUME NEW k \in ExistingKeys(J(r)) PROVE Sure(k)
  <2>1. k \in Keys /\ manifest[k].job # J(r) /\ (Succeeded(k) \/ RowsOf(k) # {})
    BY <1>4 DEF ExistingKeys, Succeeded
  <2>2. CASE NoErrors
    BY <2>1, <2>2 DEF Sure
  <2>3. CASE \A i, j \in Jobs : i = j
    <3>1. manifest[k].job = NoOne
      BY <1>1, <2>1, <2>3 DEF Manifest
    <3> QED
      BY <1>1, <2>1, <3>1 DEF NamesItsJob, Succeeded, Sure
  <2> QED
    BY <2>2, <2>3 DEF Recorded
<1>5. \A k \in run'[r].existing : Sure(k)'
  BY <1>1, <1>2, <1>3, <1>4 DEF SureRow, Sure, Succeeded, RowsOf, NoErrors
<1> QED
  BY <1>2, <1>3, <1>5, FreshRow, QuietRows DEF NoOtherLease

LEMMA FaultRows ==
    ASSUME Inv, Rows, NEW r \in Runs, Fault(r) PROVE Rows'
<1>1. CASE Crash(r) \/ Break(r)
  BY <1>1, GoneRows DEF Crash, Break
<1>2. CASE Expire(r)
  <2>1. J(r) \in Jobs /\ UNCHANGED <<chunk, manifest, vector, run>>
        /\ lease' = [lease EXCEPT ![J(r)] = NoOne]
    BY <1>2, LiveAt DEF Expire
  <2>2. ~Holds(r)' /\ NoOtherLease(r)
    BY <2>1, NoOneAssumption DEF Inv, RowsOK, LeaseOK, NoOtherLease, Holds, J
  <2>3. SureRow(r)'
    BY <2>1 DEF Rows, AtRow, SureRow, Sure, Succeeded, RowsOf, NoErrors, K
  <2>4. AtRow(r)'
    BY <2>2, <2>3 DEF AtRow, OpenRow, RecordedRow, UnrecordedRow
  <2> QED
    BY <2>1, <2>2, <2>4, QuietRows
<1>3. CASE BookkeepingFails(r)
  <2>1. /\ Goto(r, "error") /\ run[r].pc \in {"settle", "record", "done", "drop"} /\ ~NoErrors
        /\ UNCHANGED <<lease, chunk, manifest, vector>>
    BY <1>3 DEF BookkeepingFails, NoErrors
  <2>2. run[r] \in Live
    BY <2>1, LiveAt
  <2>3. Stays(r) /\ run'[r].pc = "error" /\ \A q \in Runs \ {r} : run'[q] = run[q]
    BY <2>1, <2>2, GotoStays DEF Goto, Inv
  <2>4. K(r)' = K(r) /\ J(r)' = J(r) /\ (Holds(r)' <=> Holds(r)) /\ AtRow(r)
    BY <2>1, <2>3 DEF Stays, K, J, Holds, Rows
  <2>5. OpenRow(r)' /\ RecordedRow(r)' /\ UnrecordedRow(r)'
    BY <2>1, <2>3, <2>4
       DEF AtRow, OpenRow, RecordedRow, UnrecordedRow, OpenPcs, ImportPcs, TryPcs, Row, NoErrors
  <2>6. SureRow(r)'
    BY <2>1, <2>3, <2>4 DEF AtRow, SureRow, Stays, SkipPcs, Sure, Succeeded, RowsOf, NoErrors
  <2> QED
    BY <2>1, <2>3, <2>5, <2>6, QuietRows DEF NoOtherLease, AtRow
<1> QED
  BY <1>1, <1>2, <1>3 DEF Fault

LEMMA JobRows ==
    ASSUME Inv, Rows, UNCHANGED <<lease, manifest, vector, run>>, chunk' \in [Jobs -> [Keys -> ChunkStatuses]],
           \A j \in Jobs, k \in Keys :
             chunk'[j][k] \in {"succeeded", "skipped"} => chunk[j][k] = chunk'[j][k]
    PROVE  Rows'
<1>1. NamesItsJob' /\ SucceededRows' /\ SkippedRows' /\ \A k : Sure(k)' <=> Sure(k)
  BY DEF Rows, NamesItsJob, SucceededRows, SkippedRows, Sure, Succeeded, RowsOf, NoErrors
<1>2. ASSUME NEW q \in Runs PROVE AtRow(q)'
  <2>1. run'[q] = run[q] /\ AtRow(q) /\ K(q)' = K(q) /\ J(q)' = J(q) /\ Holds(q)' = Holds(q)
    BY DEF Rows, K, J, Holds
  <2>2. OpenRow(q)'
    <3>1. SUFFICES ASSUME run[q].pc \in OpenPcs, Holds(q), Row(q)' = "succeeded" PROVE FALSE
      BY <2>1 DEF OpenRow
    <3>2. J(q) \in Jobs /\ K(q) \in Keys
      BY <3>1, ChunkAtHand DEF OpenPcs, ImportPcs, TryPcs, StorePcs, Chunkless
    <3> QED
      BY <2>1, <3>1, <3>2 DEF AtRow, OpenRow, Row
  <2>3. RecordedRow(q)' /\ UnrecordedRow(q)' /\ SureRow(q)'
    BY <1>1, <2>1 DEF AtRow, RecordedRow, UnrecordedRow, SureRow, Succeeded, NoErrors
  <2> QED
    BY <2>2, <2>3 DEF AtRow
<1> QED
  BY <1>1, <1>2 DEF Rows

LEMMA StepRows == Inv /\ Rows /\ Recorded /\ [Next]_vars => Rows'
<1> SUFFICES ASSUME Inv, Rows, Recorded, [Next]_vars PROVE Rows'
  OBVIOUS
<1>1. ASSUME NEW r \in Runs, RunStep(r) PROVE Rows'
  <2>1. CASE Lose(r) \/ EndRun(r)
    BY <2>1, GoneRows DEF Lose, EndRun
  <2> QED
    BY <1>1, <2>1, PlanRows, WorkRowsKept DEF RunStep, Work
<1>2. CASE \E j \in Jobs : RequestCancel(j) \/ WriteOff(j) \/ Retry(j)
  <2>1. chunk \in [Jobs -> [Keys -> ChunkStatuses]]
    BY DEF Inv, RowsOK, ChunkOK
  <2>2. CASE \E j \in Jobs : RequestCancel(j) \/ WriteOff(j)
    BY <2>1, <2>2, JobRows DEF RequestCancel, WriteOff
  <2>3. ASSUME NEW j \in Jobs, Retry(j) PROVE Rows'
    <3>1. /\ chunk' \in [Jobs -> [Keys -> ChunkStatuses]]
          /\ \A i \in Jobs, k \in Keys :
               chunk'[i][k] \in {"succeeded", "skipped"} => chunk[i][k] = chunk'[i][k]
      BY <2>1, <2>3 DEF Retry, ChunkStatuses
    <3> QED
      BY <2>3, <3>1, JobRows DEF Retry
  <2> QED
    BY <1>2, <2>2, <2>3
<1>3. CASE UNCHANGED vars
  BY <1>3, JobRows DEF vars, Inv, RowsOK, ChunkOK
<1> QED
  BY <1>1, <1>2, <1>3, StartRows, FaultRows DEF Next

LEMMA InitRows == Init => Rows
<1> SUFFICES ASSUME Init PROVE Rows
  OBVIOUS
<1>1. \A r \in Runs : run[r].pc = "idle"
  BY IdleIsNotLive DEF Init
<1>2. \A r \in Runs : AtRow(r)
  BY <1>1 DEF AtRow, OpenRow, OpenPcs, ImportPcs, TryPcs, StorePcs, RecordedRow, UnrecordedRow,
     UnsettledPcs, SureRow, SkipPcs
<1> QED
  BY <1>2 DEF Init, Unclaimed, Rows, NamesItsJob, SucceededRows, SkippedRows

LEMMA CoveredMeans == Inv /\ Coverage /\ Rows => CompletedCovers
<1> SUFFICES ASSUME Inv, Coverage, Rows, NEW j \in Jobs, job[j] = "completed",
                    NEW i \in DOMAIN Leaves(j, PersistedSplit(j))
             PROVE  LET k == Leaves(j, PersistedSplit(j))[i]
                    IN chunk[j][k] \in {"succeeded", "skipped"} /\ Imported(k)
  BY DEF CompletedCovers
<1> DEFINE split == PersistedSplit(j)
           k == Leaves(j, split)[i]
<1>1. split \in SUBSET Splittable /\ k \in Reached(j, split) \ split
  <2>1. split \in SUBSET Splittable
    BY PersistedIsSplittable
  <2>2. k \in Elems(Leaves(j, split))
    BY DEF Elems
  <2> QED
    BY <2>1, <2>2, LeavesAssumption
<1>2. \A x \in Keys : x \in split <=> IsSplit(chunk[j], manifest, x)
  BY DEF PersistedSplit, IsSplit
<1>3. PICK S \in SUBSET Keys : /\ Elems(Source[j]) \subseteq S
                               /\ \A x \in S : Dealt(chunk[j], manifest, S, x)
  BY DEF Coverage, Through, Tracked
<1>4. Closed(j, split, S)
  <2>1. ASSUME NEW x \in S \cap split PROVE Elems(Children[x]) \subseteq S
    BY <1>2, <1>3, <2>1 DEF Dealt, IsSplit, Ended
  <2> QED
    BY <1>3, <2>1 DEF Closed
<1>5. k \in Keys /\ k \in S /\ k \notin split
  BY <1>1, <1>3, <1>4 DEF Reached
<1> HIDE DEF k, split
<1>6. chunk[j][k] \in {"succeeded", "skipped"}
  BY <1>2, <1>3, <1>5 DEF Dealt, Ended, Coverage, Through
<1>7. Imported(k)
  BY <1>5, <1>6 DEF Rows, SucceededRows, SkippedRows, Sure, Succeeded, Imported
<1> QED
  BY <1>6, <1>7 DEF k, split

\* CompletedCovers: at every step what a job reaches is dealt with or on the list of its run, so
\* run_import_job completes a job only when its whole conversation is.
THEOREM CompletedCoversThm == ASSUME Recorded PROVE Spec => []CompletedCovers
<1>1. Init => Coverage /\ Rows
  BY InitCovers, InitRows
<1>2. Inv /\ Coverage /\ Rows /\ [Next]_vars => (Coverage /\ Rows)'
  BY StepCovers, StepRows
<1>3. Inv /\ Coverage /\ Rows => CompletedCovers
  BY CoveredMeans
<1> QED
  BY <1>1, <1>2, <1>3, Invariance, PTL DEF Spec

-----------------------------------------------------------------------------
(* Imported once.  As long as no lease runs out under a run, a key is extracted only while no   *)
(* memory of it is stored; and a memory older than the manifests is found by its key, unless it *)
(* is the key of a half, which nobody looks up.                                                 *)

LeasesLast == "expire" \notin Faults
OldKeysAreWhole == \A h \in Hashes, p \in Keys : Stored[h] \notin Elems(Children[p])

Untouched(k) == manifest[k].status = "absent"
Old(k) == {h \in Hashes : Stored[h] = k}
FreshRows == \A k \in Keys : Untouched(k) => RowsOf(k) = Old(k)
\* Once load_existing has answered, what is left on the list has no memory nobody claimed.
Dedups(r) ==
    run[r].pc \notin {"idle", "plan", "dedup"} =>
        \A k \in Elems(run[r].todo) : k \in run[r].existing \/ ~Untouched(k) \/ Old(k) = {}
FreshAt(r) ==
    \/ run[r].pc \in {"attempt", "store"} /\ ~Reconciles(r)
    \/ run[r].pc \in FreshPcs
    => RowsOf(K(r)) = {}

Once ==
    /\ NamesItsJob /\ RunsHoldLeases /\ FreshRows
    /\ \A r \in Runs : Dedups(r) /\ FreshAt(r)

LEMMA OtherRowsStay ==
    ASSUME Inv, NEW r \in Runs, UNCHANGED vector \/ Insert(r), NEW k \in Keys,
           k # K(r) \/ UNCHANGED vector
    PROVE  RowsOf(k)' = RowsOf(k)
<1>1. CASE UNCHANGED vector
  BY <1>1 DEF RowsOf
<1>2. CASE Insert(r) /\ k # K(r)
  <2>1. \A h \in Hashes : (vector'[h] = k) <=> (vector[h] = k)
    BY <1>2, InsertStores, NoOneAssumption
  <2> QED
    BY <2>1 DEF RowsOf
<1> QED
  BY <1>1, <1>2

\* A run that stores has its key to itself.
LEMMA InsertOwns ==
    ASSUME Inv, Once, NEW r \in Runs, Insert(r)
    PROVE  Holds(r) /\ Ours(r) /\ RowsOf(K(r)) = {}
<1>1. run[r].pc = "insert" /\ run[r].pc # "idle"
  BY DEF Insert, At
<1>2. Holds(r)
  BY <1>1 DEF Once, RunsHoldLeases
<1>3. Ours(r)
  BY <1>1, <1>2 DEF Inv, RunOK, OwnsKey, OwnedPcs, ImportPcs, TryPcs, StorePcs
<1> QED
  BY <1>1, <1>2, <1>3 DEF Once, FreshAt, FreshPcs

LEMMA WorkFresh ==
    ASSUME Inv, Once, NEW r \in Runs, Work(r)
    PROVE  /\ NamesItsJob' /\ RunsHoldLeases' /\ FreshRows'
           /\ \A k \in Keys : ~Untouched(k) => ~Untouched(k)'
<1>1. /\ J(r) \in Jobs /\ K(r) \in Keys /\ run[r].pc # "idle" /\ NamesItsJob /\ Holds(r)
      /\ UNCHANGED lease /\ \A q \in Runs \ {r} : run'[q] = run[q]
  BY WorkAt, WorkWrites, WorkRows DEF Once, RunsHoldLeases
<1>2. NamesItsJob' /\ \A k \in Keys : ~Untouched(k) => ~Untouched(k)'
  BY <1>1, WorkNames DEF Untouched
<1>3. ASSUME NEW q \in Runs, run'[q].pc # "idle" PROVE Holds(q)'
  <2>1. CASE q = r
    BY <1>1, <1>3, <2>1, WorkRows DEF Holds
  <2>2. CASE q # r
    BY <1>1, <1>3, <2>2 DEF Once, RunsHoldLeases, Holds, J
  <2> QED
    BY <2>1, <2>2
<1>4. ASSUME NEW k \in Keys, Untouched(k)' PROVE RowsOf(k)' = Old(k)
  <2>1. Untouched(k) /\ RowsOf(k) = Old(k)
    BY <1>2, <1>4 DEF Once, FreshRows
  <2>2. UNCHANGED vector \/ (Insert(r) /\ k # K(r))
    BY <2>1, WorkWrites, InsertOwns DEF Ours, Untouched
  <2> QED
    BY <2>1, <2>2, OtherRowsStay
<1> QED
  BY <1>2, <1>3, <1>4 DEF RunsHoldLeases, FreshRows

LEMMA OthersFresh ==
    ASSUME Inv, Once, NEW r \in Runs, Work(r), NEW q \in Runs \ {r}
    PROVE  Dedups(q)' /\ FreshAt(q)'
<1>1. run'[q] = run[q] /\ Dedups(q) /\ FreshAt(q) /\ K(q)' = K(q) /\ Reconciles(q)' = Reconciles(q)
  BY WorkRows DEF Once, K, Reconciles
<1>2. Dedups(q)'
  <2>1. SUFFICES ASSUME run[q].pc \notin {"idle", "plan", "dedup"}
                 PROVE  Dedups(q)'
    BY <1>1 DEF Dedups
  <2>2. Elems(run[q].todo) \subseteq Keys
    BY <2>1, LiveAt DEF Live, Elems
  <2> QED
    BY <1>1, <2>1, <2>2, WorkFresh DEF Dedups
<1>3. FreshAt(q)'
  <2>1. SUFFICES ASSUME run[q].pc \in FreshPcs \cup {"attempt", "store"}
                 PROVE  RowsOf(K(q))' = RowsOf(K(q))
    BY <1>1 DEF FreshAt
  <2>2. run[q].pc \in OwnedPcs /\ run[q].pc # "idle"
    BY <2>1 DEF FreshPcs, OwnedPcs, ImportPcs, TryPcs, StorePcs
  <2>3. Holds(q) /\ Ours(q) /\ K(q) \in Keys
    BY <2>2, OwnerAt DEF Once, RunsHoldLeases, Inv, RunOK, OwnsKey
  <2>4. CASE Insert(r)
    <3>1. Holds(r) /\ Ours(r)
      BY <2>4, InsertOwns
    <3>2. K(q) # K(r)
      BY <2>3, <3>1 DEF Holds, Ours
    <3> QED
      BY <1>1, <2>3, <2>4, <3>2, OtherRowsStay DEF RowsOf
  <2>5. CASE UNCHANGED vector
    BY <1>1, <2>5 DEF RowsOf
  <2> QED
    BY <2>4, <2>5, WorkWrites
<1> QED
  BY <1>2, <1>3

LEMMA OwnFresh ==
    ASSUME Inv, Once, OldKeysAreWhole, NEW r \in Runs, Work(r) PROVE Dedups(r)' /\ FreshAt(r)'
<1>1. /\ run[r].pc \notin {"idle", "plan", "dedup"} /\ run[r] \in Live /\ run[r].todo \in Seq(Keys)
      /\ run[r].todo # <<>> /\ K(r) \in Keys /\ Children[K(r)] \in Seq(Keys)
      /\ Dedups(r) /\ FreshAt(r) /\ FreshRows
  BY WorkAt, ChunksAssumption DEF Live, Once
<1>2. /\ Elems(run[r].todo) = {K(r)} \cup Elems(Tail(run[r].todo))
      /\ Elems(run[r].todo) \subseteq Keys /\ Tail(run[r].todo) \in Seq(Keys)
  <2>1. Elems(run[r].todo) = {K(r)} \cup Elems(Tail(run[r].todo))
    BY <1>1, HeadAndTail DEF K
  <2>2. Elems(run[r].todo) \subseteq Keys
    BY <1>1 DEF Elems
  <2> QED
    BY <1>1, <2>1, <2>2
<1>3. Dedups(r)'
  <2>1. ASSUME NEW k \in Elems(run'[r].todo), run'[r].existing = run[r].existing,
               k \in Elems(run[r].todo) \/ Old(k) = {}
        PROVE  k \in run'[r].existing \/ ~Untouched(k)' \/ Old(k) = {}
    BY <1>1, <1>2, <2>1, WorkFresh DEF Dedups
  <2>2. CASE Stays(r)
    BY <2>1, <2>2 DEF Stays, Dedups
  <2>3. CASE Proceeds(r, Tail(run[r].todo))
    BY <1>2, <2>1, <2>3 DEF Proceeds, Dedups
  <2>4. CASE Proceeds(r, Children[K(r)] \o Tail(run[r].todo))
    <3>1. \A k \in Elems(run'[r].todo) : k \in Elems(Children[K(r)]) \/ k \in Elems(Tail(run[r].todo))
      BY <1>1, <1>2, <2>4, JoinedElems DEF Proceeds
    <3>2. \A k \in Elems(Children[K(r)]) : Old(k) = {}
      BY <1>1 DEF OldKeysAreWhole, Old
    <3> QED
      BY <1>2, <2>1, <2>4, <3>1, <3>2 DEF Proceeds, Dedups
  <2> QED
    BY <2>2, <2>3, <2>4, WorkTurn DEF Turn, LeavesChunk, Skips, TakesChunk, FindsChunk, OwnTurn,
       ImportTurn, RecordTurn, SplitTurn, RestTurn
<1>4. FreshAt(r)'
  <2>1. SUFFICES ASSUME \/ run'[r].pc \in {"attempt", "store"} /\ ~Reconciles(r)'
                        \/ run'[r].pc \in FreshPcs
                 PROVE  RowsOf(K(r))' = {}
    BY DEF FreshAt
  <2>2. CASE TakesChunk(r)
    <3>1. /\ Stays(r) /\ run'[r].pc = "attempt" /\ UNCHANGED vector
          /\ run[r].pc = "next" /\ K(r) \notin run[r].existing /\ ~(manifest[K(r)].status # "absent")
      BY <2>1, <2>2 DEF TakesChunk, Reconciles, FreshPcs
    <3>2. Old(K(r)) = {} /\ RowsOf(K(r)) = Old(K(r))
      BY <1>1, <1>2, <3>1 DEF Dedups, Untouched, FreshRows
    <3> QED
      BY <3>1, <3>2 DEF RowsOf, K, Stays
  <2>3. CASE ImportTurn(r)
    <3>1. K(r)' = K(r) /\ UNCHANGED vector
      BY <2>1, <2>3 DEF ImportTurn, Stays, K
    <3>2. RowsOf(K(r)) = {}
      BY <1>1, <2>1, <2>3 DEF ImportTurn, SameAttempt, Reconciles, FreshAt, FreshPcs
    <3> QED
      BY <3>1, <3>2 DEF RowsOf
  <2>4. CASE OwnTurn(r)
    BY <2>1, <2>4 DEF OwnTurn, Reconciles, FreshPcs
  <2>5. CASE ~TakesChunk(r) /\ ~ImportTurn(r) /\ ~OwnTurn(r)
    BY <2>1, <2>5, WorkTurn DEF Turn, LeavesChunk, Proceeds, Skips, FindsChunk, RecordTurn, SplitTurn,
       RestTurn, RestPcs, FreshPcs
  <2> QED
    BY <2>2, <2>3, <2>4, <2>5
<1> QED
  BY <1>3, <1>4

\* A step that writes neither a manifest nor a memory.
LEMMA QuietOnce ==
    ASSUME Inv, Once, NEW r \in Runs, \A q \in Runs \ {r} : run'[q] = run[q],
           \A j \in Jobs, q \in Runs \ {r} : lease[j] = q => lease'[j] = q,
           UNCHANGED <<manifest, vector>>, run'[r].pc = "idle" \/ Holds(r)', Dedups(r)', FreshAt(r)'
    PROVE  Once'
<1>1. NamesItsJob' /\ FreshRows'
  BY DEF Once, NamesItsJob, FreshRows, Untouched, RowsOf
<1>2. ASSUME NEW q \in Runs, run'[q].pc # "idle" PROVE Holds(q)'
  <2>1. CASE q = r
    BY <1>2, <2>1
  <2>2. CASE q # r
    <3>1. run'[q] = run[q] /\ Holds(q) /\ J(q) \in Jobs
      BY <1>2, <2>2, LiveAt DEF Once, RunsHoldLeases
    <3> QED
      BY <2>2, <3>1 DEF Holds, J
  <2> QED
    BY <2>1, <2>2
<1>3. ASSUME NEW q \in Runs \ {r} PROVE Dedups(q)' /\ FreshAt(q)'
  BY DEF Once, Dedups, FreshAt, Untouched, Reconciles, RowsOf, K
<1> QED
  BY <1>1, <1>2, <1>3 DEF Once, RunsHoldLeases

LEMMA GoneOnce ==
    ASSUME Inv, Once, NEW r \in Runs, run' = [run EXCEPT ![r] = Idle], run[r] # Idle,
           lease' = lease \/ lease' = [lease EXCEPT ![J(r)] = NoOne], UNCHANGED <<manifest, vector>>
    PROVE  Once'
<1>1. run'[r].pc = "idle" /\ \A q \in Runs \ {r} : run'[q] = run[q]
  BY IdleIsNotLive DEF Inv
<1>2. Dedups(r)' /\ FreshAt(r)'
  BY <1>1 DEF Dedups, FreshAt, FreshPcs
<1>3. lease[J(r)] = r
  <2>1. run[r].pc # "idle"
    BY LiveAt DEF Live, Pcs, ImportPcs, TryPcs, StorePcs
  <2> QED
    BY <2>1 DEF Once, RunsHoldLeases, Holds
<1>4. \A j \in Jobs, q \in Runs \ {r} : lease[j] = q => lease'[j] = q
  BY <1>3 DEF Inv, RowsOK, LeaseOK
<1> QED
  BY <1>1, <1>2, <1>4, QuietOnce

LEMMA StartOnce ==
    ASSUME Inv, Once, NEW r \in Runs, NEW j \in Jobs, Start(r, j) PROVE Once'
<1> DEFINE legacy == {h \in Hashes : vector[h] # NoOne}
           t == [Idle EXCEPT !.job = j, !.pc = "plan", !.legacy = legacy]
<1>1. run' = [run EXCEPT ![r] = t] /\ t.pc = "plan" /\ t.job = j /\ run \in [Runs -> Run]
  <2> HIDE DEF legacy
  <2>1. t.pc = "plan" /\ t.job = j
    BY IdleIsNotLive
  <2> QED
    BY <2>1 DEF Start, Inv, legacy
<1> HIDE DEF t
<1>2. run'[r].pc = "plan" /\ run'[r].job = j /\ \A q \in Runs \ {r} : run'[q] = run[q]
  BY <1>1
<1>3. lease[j] = NoOne /\ lease' = [lease EXCEPT ![j] = r] /\ UNCHANGED <<manifest, vector>>
  BY DEF Start
<1>4. Holds(r)' /\ \A i \in Jobs, q \in Runs \ {r} : lease[i] = q => lease'[i] = q
  BY <1>2, <1>3, NoOneAssumption DEF Inv, RowsOK, LeaseOK, Holds, J
<1>5. Dedups(r)' /\ FreshAt(r)'
  BY <1>2 DEF Dedups, FreshAt, FreshPcs
<1> QED
  BY <1>2, <1>3, <1>4, <1>5, QuietOnce

LEMMA PlanOnce ==
    ASSUME Inv, Once, NEW r \in Runs, Plan(r) PROVE Once'
<1>1. OwnThread(r) /\ UNCHANGED <<lease, manifest, vector>> /\ Holds(r) /\ run[r].pc # "idle"
  BY OtherStepThread DEF Plan, Fenced
<1>2. run'[r].pc = "dedup"
  <2> DEFINE todo == Leaves(J(r), PersistedSplit(J(r)))
             t == [run[r] EXCEPT !.pc = "dedup", !.todo = todo]
  <2>1. run' = [run EXCEPT ![r] = t] /\ run \in [Runs -> Run] /\ run[r] \in Live
    BY <1>1, LiveAt DEF Plan, Inv
  <2> HIDE DEF todo
  <2>2. t.pc = "dedup"
    BY <2>1 DEF Live
  <2> HIDE DEF t
  <2> QED
    BY <2>1, <2>2
<1>3. Dedups(r)' /\ FreshAt(r)' /\ Holds(r)'
  BY <1>1, <1>2 DEF Dedups, FreshAt, FreshPcs, OwnThread, Holds, J
<1> QED
  BY <1>1, <1>3, QuietOnce DEF OwnThread

LEMMA DedupOnce ==
    ASSUME Inv, Once, NEW r \in Runs, Dedup(r) PROVE Once'
<1>1. /\ OwnThread(r) /\ UNCHANGED <<lease, manifest, vector>> /\ Holds(r) /\ run[r].pc # "idle"
      /\ run \in [Runs -> Run] /\ run[r] \in Live /\ J(r) \in Jobs /\ J(r) # NoOne
  BY OtherStepThread, LiveAt, NoOneAssumption DEF Dedup, Fenced, Inv
<1> DEFINE found == {k \in ExistingKeys(J(r)) : \E i \in DOMAIN run[r].todo : run[r].todo[i] = k}
           t == [run[r] EXCEPT !.pc = "next", !.existing = found]
<1>2. run' = [run EXCEPT ![r] = t]
  BY DEF Dedup
<1>3. ASSUME NEW k \in Elems(run[r].todo) PROVE k \in found \/ ~Untouched(k) \/ Old(k) = {}
  <2>1. SUFFICES ASSUME Untouched(k), Old(k) # {} PROVE k \in ExistingKeys(J(r))
    BY DEF Elems
  <2>2. k \in Keys
    BY <1>1 DEF Elems, Live
  <2>3. manifest[k].job = NoOne /\ RowsOf(k) # {}
    BY <2>1, <2>2 DEF Once, NamesItsJob, FreshRows, Untouched
  <2> QED
    BY <1>1, <2>2, <2>3 DEF ExistingKeys
<1> HIDE DEF found
<1>4. t.pc = "next" /\ t.todo = run[r].todo /\ t.existing = found
  BY <1>1 DEF Live
<1> HIDE DEF t
<1>5. run'[r].pc = "next" /\ run'[r].todo = run[r].todo /\ run'[r].existing = found
  BY <1>1, <1>2, <1>4
<1>6. Dedups(r)'
  BY <1>1, <1>3, <1>5 DEF Dedups, Untouched
<1>7. FreshAt(r)' /\ Holds(r)'
  BY <1>1, <1>5 DEF FreshAt, FreshPcs, OwnThread, Holds, J
<1> QED
  BY <1>1, <1>6, <1>7, QuietOnce DEF OwnThread

LEMMA FaultOnce ==
    ASSUME Inv, Once, LeasesLast, NEW r \in Runs, Fault(r) PROVE Once'
<1>1. CASE Crash(r) \/ Break(r)
  BY <1>1, GoneOnce DEF Crash, Break
<1>2. CASE BookkeepingFails(r)
  <2>1. /\ Goto(r, "error") /\ run[r].pc \in {"settle", "record", "done", "drop"}
        /\ UNCHANGED <<lease, manifest, vector>>
    BY <1>2 DEF BookkeepingFails
  <2>2. run[r] \in Live
    BY <2>1, LiveAt
  <2>3. Stays(r) /\ run'[r].pc = "error" /\ \A q \in Runs \ {r} : run'[q] = run[q]
    BY <2>1, <2>2, GotoStays DEF Goto, Inv
  <2>4. Dedups(r)' /\ FreshAt(r)' /\ Holds(r)'
    BY <2>1, <2>3
       DEF Once, RunsHoldLeases, Dedups, FreshAt, FreshPcs, Stays, Untouched, Holds, J
  <2> QED
    BY <2>1, <2>3, <2>4, QuietOnce
<1> QED
  BY <1>1, <1>2 DEF Fault, Expire, LeasesLast

LEMMA StepOnce == Inv /\ Once /\ LeasesLast /\ OldKeysAreWhole /\ [Next]_vars => Once'
<1> SUFFICES ASSUME Inv, Once, LeasesLast, OldKeysAreWhole, [Next]_vars PROVE Once'
  OBVIOUS
<1>1. ASSUME NEW r \in Runs, RunStep(r) PROVE Once'
  <2>1. CASE Lose(r)
    BY <2>1, GoneOnce DEF Lose
  <2>2. CASE EndRun(r)
    <3>1. run[r] # Idle
      BY <2>2, IdleIsNotLive DEF EndRun, Fenced, At
    <3> QED
      BY <2>2, <3>1, GoneOnce DEF EndRun
  <2>3. CASE Work(r)
    BY <2>3, WorkFresh, OthersFresh, OwnFresh DEF Once
  <2> QED
    BY <1>1, <2>1, <2>2, <2>3, PlanOnce, DedupOnce DEF RunStep, Work
<1>2. CASE UNCHANGED <<lease, manifest, vector, run>>
  BY <1>2 DEF Once, NamesItsJob, RunsHoldLeases, FreshRows, Dedups, FreshAt, Untouched, Reconciles,
     RowsOf, Holds, J, K
<1>3. CASE \E j \in Jobs : RequestCancel(j) \/ WriteOff(j) \/ Retry(j)
  BY <1>2, <1>3 DEF RequestCancel, WriteOff, Retry
<1> QED
  BY <1>1, <1>2, <1>3, StartOnce, FaultOnce DEF Next, vars

LEMMA InitOnce == Init => Once
<1> SUFFICES ASSUME Init PROVE Once
  OBVIOUS
<1>1. \A r \in Runs : run[r].pc = "idle"
  BY IdleIsNotLive DEF Init
<1> QED
  BY <1>1 DEF Init, Unclaimed, Once, NamesItsJob, RunsHoldLeases, FreshRows, RowsOf, Old, Dedups,
              FreshAt, FreshPcs

LEMMA StepImportsOnce ==
    ASSUME Inv, Once, [Next]_vars
    PROVE  \A k \in Keys : RowsOf(k) # {} => RowsOf(k)' = RowsOf(k)
<1>1. SUFFICES ASSUME NEW k \in Keys, RowsOf(k) # {} PROVE RowsOf(k)' = RowsOf(k)
  OBVIOUS
<1>2. CASE UNCHANGED vector
  BY <1>2 DEF RowsOf
<1>3. ASSUME NEW r \in Runs, Work(r) PROVE RowsOf(k)' = RowsOf(k)
  BY <1>1, <1>2, <1>3, WorkWrites, InsertOwns, OtherRowsStay
<1>4. CASE \E r \in Runs : RunStep(r)
  BY <1>2, <1>3, <1>4 DEF RunStep, Work, Plan, Dedup, EndRun, Lose
<1>5. CASE \E r \in Runs : Fault(r) \/ \E j \in Jobs : Start(r, j)
  BY <1>2, <1>5 DEF Fault, Crash, Expire, Break, BookkeepingFails, Start
<1>6. CASE \E j \in Jobs : RequestCancel(j) \/ WriteOff(j) \/ Retry(j)
  BY <1>2, <1>6 DEF RequestCancel, WriteOff, Retry
<1> QED
  BY <1>2, <1>4, <1>5, <1>6 DEF Next, vars

\* ImportedOnce: reconcile_existing, load_existing and the claim of the manifest leave no way to
\* extract a key again of which memories are stored.
THEOREM ImportedOnceThm == ASSUME LeasesLast, OldKeysAreWhole PROVE Spec => ImportedOnce
<1>1. Init => Once
  BY InitOnce
<1>2. Inv /\ Once /\ [Next]_vars => Once'
  BY StepOnce
<1>3. Inv /\ Once /\ [Next]_vars =>
        [\A k \in Keys : RowsOf(k) # {} => RowsOf(k)' = RowsOf(k)]_vars
  BY StepImportsOnce
<1> QED
  BY <1>1, <1>2, <1>3, Invariance, PTL DEF Spec, ImportedOnce

=============================================================================
