----------------------------- MODULE MCAccounts ------------------------------
(* Small instances of Accounts for TLC. *)
EXTENDS Accounts, TLC

CONSTANTS s1, s2, s3, p1, p2, u1, u2, e1, e2, t1, t2, t3, k1, k2, main, other

NoAccount == [status |-> "none", email |-> None, role |-> "member", pw |-> 0]
NoToken == [status |-> "none", user |-> None, session |-> None, pw |-> 0, raced |-> FALSE]

\* A database after its migrations.
Fresh ==
    [user |-> [u \in Users |-> NoAccount], token |-> [t \in Tokens |-> NoToken],
     key |-> [k \in Keys |-> NoKey],
     doc |-> [projects |-> {Default}, members |-> [e \in Emails |-> "none"]],
     cache |-> [Procs -> {<<>>}]]

\* An administrator with a session and a key of a second project, which every process has
\* verified; another person has been invited.
Running ==
    [Fresh EXCEPT
       !.user[u1] = [status |-> "live", email |-> e1, role |-> "admin", pw |-> 1],
       !.token[t1] = [status |-> "unused", user |-> u1, session |-> t1, pw |-> 1, raced |-> FALSE],
       !.key[k1] = [status |-> "live", project |-> other, owner |-> u1],
       !.doc = [projects |-> {Default, other}, members |-> e2 :> "invited" @@ e1 :> "none"],
       !.cache = [Procs -> {<<k1>>}]]

FreshOrRunning == {Fresh, Running}
Symmetry == Permutations(Slots) \cup Permutations(Procs)
=============================================================================
