----------------------------- MODULE MCImportPool -----------------------------
(* A small instance of ImportPool for TLC. *)
EXTENDS ImportPool, TLC

CONSTANTS c1, c2, c3, c4, c5

\* Two conversations; the first chunk may fail and can be split.
TwoGroups == <<<<c1>>, <<c2, c3>>>>
SplitFirst == [c \in Chunks |-> IF c = c1 THEN <<c4, c5>> ELSE <<>>]

=============================================================================
