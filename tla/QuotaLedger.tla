---------------------------- MODULE QuotaLedger ----------------------------
(* What the storage quota promises: memories are admitted and removed one request at a time, and *)
(* no admission charges a policy beyond its limit. A row remembers who stored it, because a      *)
(* request without policies (the admin key) and one whose snapshot was taken before a policy     *)
(* existed are not charged to it. StorageQuota implements this module.                           *)
EXTENDS Naturals, FiniteSets

CONSTANTS
    Writers,    \* requests and import chunks that store memories
    Memories,   \* memory ids
    Policies,   \* hard policies on stored memories
    Projects,
    Project,    \* the project a memory belongs to
    Covers,     \* the projects a policy counts: its own, or those of its organization
    Limit,
    Snapshot,   \* the policies a writer was given when it began
    NoOne

LedgerAssumption ==
    /\ IsFiniteSet(Memories)
    /\ NoOne \notin Writers
    /\ Project \in [Memories -> Projects]
    /\ Covers \in [Policies -> SUBSET Projects]
    /\ Limit \in [Policies -> Nat \ {0}]
    /\ Snapshot \in [Writers -> SUBSET Policies]

VARIABLE row    \* the writer that stored a memory, NoOne if it is not stored

TypeOK == row \in [Memories -> Writers \cup {NoOne}]

Stored == {m \in Memories : row[m] # NoOne}

Covered(P, S) == {m \in S : Project[m] \in Covers[P]}

\* The memories stored under a policy by those who knew it.
Charged(P) == {m \in Covered(P, Stored) : P \in Snapshot[row[m]]}

Init == row = [m \in Memories |-> NoOne]

Admit(w, S) ==
    /\ S \cap Stored = {}
    /\ \A P \in Snapshot[w] :
         Cardinality(Charged(P) \cup Covered(P, S)) <= Limit[P]
    /\ row' = [m \in Memories |-> IF m \in S THEN w ELSE row[m]]

Remove(m) == row' = [row EXCEPT ![m] = NoOne]

Next ==
    \/ \E w \in Writers, S \in SUBSET Memories : Admit(w, S)
    \/ \E m \in Memories : Remove(m)

Spec == Init /\ [][Next]_row

\* What was admitted under a policy never exceeds its limit.
LimitHolds == \A P \in Policies : Cardinality(Charged(P)) <= Limit[P]
=============================================================================
