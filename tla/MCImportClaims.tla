---------------------------- MODULE MCImportClaims ----------------------------
(* Small instances of ImportClaims for TLC. *)
EXTENDS ImportClaims, TLC

CONSTANTS j1, j2, k1, k2, k3, k4, h1, h2, h3

(* How the imports cut the conversation into chunks. *)

OneChunk == [j \in Jobs |-> <<k1>>]
OldChunkToo == [j \in Jobs |-> <<k4, k1>>]

NoSplit == [k \in Keys |-> <<>>]
SplitFirst == k1 :> <<k2, k3>> @@ k2 :> <<>> @@ k3 :> <<>> @@ k4 :> <<>>

(* The fault and the request are not spent in one behaviour. *)
FaultOrRequest == left.faults = MaxFaults \/ left.requests = MaxRequests

(* What the chunks say, and what had been stored before. *)

AllFacts == [k \in Keys |-> Hashes]

NothingStored == [h \in Hashes |-> NoOne]
SecondStored == [h \in Hashes |-> IF h = h2 THEN k4 ELSE NoOne]
ThirdStored == [h \in Hashes |-> IF h = h3 THEN k2 ELSE NoOne]

Symmetry == Permutations(Runs)

\* Where nothing tells h1 from h2 either.
HashSymmetry == Symmetry \cup Permutations({h1, h2})

=============================================================================
