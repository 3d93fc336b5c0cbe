--------------------------- MODULE AccountsProofs ---------------------------
(* Proofs about Accounts, for any requests, processes, accounts, tokens, keys, projects and      *)
(* limits.                                                                                       *)
EXTENDS Accounts, FiniteSetTheorems, SequenceTheorems, TLAPS

-----------------------------------------------------------------------------
(* Rows and requests are well typed. *)

Types ==
    /\ user \in [Users -> Accounts]
    /\ token \in [Tokens -> JTIs]
    /\ key \in [Keys -> APIKeys]
    /\ doc \in Documents
    /\ req \in [Slots -> Requests]
    /\ quota \in [Projects -> Quotas]
    /\ begun \in 0..MaxRequests

\* A handler acts on an account, a token, a key and a project that have been there.
Handler(s) ==
    /\ req[s].kind \in {"login", "refresh", "password", "delete", "rename", "create"} =>
         req[s].user \in Users /\ user[req[s].user].status # "none"
    /\ req[s].kind = "register" /\ req[s].pc # "idle" =>
         /\ req[s].email \in Emails /\ req[s].pc \in {"insert", "activate", "issue"}
         /\ req[s].pc # "insert" =>
              req[s].user \in Users /\ user[req[s].user].status # "none"
    /\ req[s].kind = "rename" => req[s].email \in Emails
    /\ req[s].kind = "refresh" =>
         /\ req[s].token \in Tokens /\ token[req[s].token].status # "none"
         /\ token[req[s].token].user = req[s].user
    /\ req[s].kind \in {"purge", "create"} => req[s].project \in Projects
    /\ req[s].kind \in {"revoke", "call"} /\ req[s].pc # "idle" =>
         /\ req[s].key \in Keys /\ key[req[s].key].status # "none"
         /\ req[s].proc \in Procs
    /\ req[s].pc = "issue" => req[s].kind \in {"register", "login", "refresh"}
    /\ req[s].pc = "activate" => req[s].kind = "register"
    /\ req[s].pc = "commit" => req[s].kind = "password"
    /\ req[s].pc = "log" => req[s].kind = "call"

\* A token belongs to an account and to a session that was begun with a token.
TokenIsRooted ==
    \A t \in Tokens :
        /\ token[t].status = "none" => token[t].user = None
        /\ token[t].status # "none" =>
             /\ token[t].user \in Users /\ user[token[t].user].status # "none"
             /\ token[t].session \in Tokens /\ token[token[t].session].status # "none"

\* A key belongs to a project.
KeyHasProject ==
    \A k \in Keys :
        /\ key[k].status = "none" => key[k].project = None /\ key[k].owner = None
        /\ key[k].status # "none" => key[k].project \in Projects

UserHasEmail == \A u \in Users : user[u].status # "none" => user[u].email \in Emails

Typed ==
    /\ Types
    /\ \A s \in Slots : Handler(s)
    /\ TokenIsRooted /\ KeyHasProject /\ UserHasEmail

LEMMA IdleTyped == Idle \in Requests
<1>1. NoDoc \in Documents
  BY DEF NoDoc, Documents
<1>2. NoKey \in APIKeys
  BY DEF NoKey, APIKeys
<1> QED
  BY <1>1, <1>2 DEF Idle, Requests, Kinds, PCs

\* A request that begins is one more, in a free slot.
LEMMA BeginTyped ==
    ASSUME Types, NEW s \in Slots, NEW r \in Requests, Begin(s, r)
    PROVE  /\ req' \in [Slots -> Requests] /\ begun' \in 0..MaxRequests
           /\ req'[s] = r /\ \A o \in Slots \ {s} : req'[o] = req[o]
BY AccountsAssumption DEF Types, Begin

\* Rows are added and marked; none disappears or changes hands.
Grown ==
    /\ \A u \in Users : user[u].status # "none" => user'[u].status # "none"
    /\ \A t \in Tokens : token[t].status # "none" =>
         /\ token'[t].status # "none"
         /\ token'[t].user = token[t].user /\ token'[t].session = token[t].session
    /\ \A k \in Keys : key[k].status # "none" =>
         key'[k].status # "none" /\ key'[k].project = key[k].project

\* A step in which a request is as before, but for what it has read, leaves its handler as it is.
LEMMA HandlerKept ==
    ASSUME Typed, Grown, NEW o \in Slots,
           req'[o].kind = req[o].kind, req'[o].pc = req[o].pc, req'[o].user = req[o].user,
           req'[o].email = req[o].email, req'[o].token = req[o].token, req'[o].key = req[o].key,
           req'[o].project = req[o].project, req'[o].proc = req[o].proc
    PROVE  Handler(o)'
BY DEF Typed, Types, Grown, Handler, Requests

\* An idle slot has no handler.
LEMMA HandlerIdle == ASSUME NEW s \in Slots, req'[s] = Idle PROVE Handler(s)'
BY DEF Handler, Idle

LEMMA RowsKept ==
    ASSUME Typed, UNCHANGED <<user, token, key>>
    PROVE  Grown /\ TokenIsRooted' /\ KeyHasProject' /\ UserHasEmail'
BY DEF Typed, Grown, TokenIsRooted, KeyHasProject, UserHasEmail

-----------------------------------------------------------------------------
(* What arrives. *)

\* What a request knows when it begins.
Arrival(r) ==
    /\ r \in Requests
    /\ r.pc \notin {"idle", "activate", "commit", "check", "count", "log"}
    /\ r.session = None /\ ~r.raced
    /\ r.kind = "call" => r.pc \in {"row", "scan"}
    /\ r.kind = "register" => r.pc = "insert" /\ r.email \in Emails
    /\ r.kind \in {"login", "refresh", "password", "delete", "rename", "create"} =>
         r.user \in Users /\ Live(r.user)
    /\ r.kind = "rename" => r.email \in Emails
    /\ r.kind = "refresh" =>
         r.token \in Tokens /\ token[r.token].status # "none" /\ token[r.token].user = r.user
    /\ r.kind \in {"purge", "create"} => r.project \in Projects
    /\ r.kind \in {"revoke", "call"} =>
         r.key \in Keys /\ key[r.key].status # "none" /\ r.proc \in Procs
    /\ r.pc = "issue" => r.kind = "login" /\ r.pw = user[r.user].pw
    /\ r.dead => r.kind = "call" /\ key[r.key].status # "live"

LEMMA RegisterArrives ==
    ASSUME NEW e \in Emails, NEW f \in BOOLEAN, NEW d \in Documents
    PROVE  Arrival([Idle EXCEPT !.kind = "register", !.pc = "insert", !.email = e,
                                !.first = f, !.doc = d])
<1>1. [Idle EXCEPT !.kind = "register", !.pc = "insert", !.email = e, !.first = f, !.doc = d]
        \in Requests
  BY IdleTyped DEF Requests, Kinds, PCs
<1> QED
  BY <1>1 DEF Arrival, Idle

LEMMA LoginArrives ==
    ASSUME Types, NEW u \in Users, Live(u)
    PROVE  Arrival([Idle EXCEPT !.kind = "login", !.pc = "issue", !.user = u, !.pw = user[u].pw])
<1>1. user[u].pw \in Nat
  BY DEF Types, Accounts
<1>2. [Idle EXCEPT !.kind = "login", !.pc = "issue", !.user = u, !.pw = user[u].pw] \in Requests
  BY <1>1, IdleTyped DEF Requests, Kinds, PCs
<1> QED
  BY <1>2 DEF Arrival, Idle

LEMMA RefreshArrives ==
    ASSUME NEW t \in Tokens, token[t].status # "none", token[t].user \in Users, Live(token[t].user)
    PROVE  Arrival([Idle EXCEPT !.kind = "refresh", !.pc = "consume", !.token = t,
                                !.user = token[t].user])
<1>1. [Idle EXCEPT !.kind = "refresh", !.pc = "consume", !.token = t, !.user = token[t].user]
        \in Requests
  BY IdleTyped DEF Requests, Kinds, PCs
<1> QED
  BY <1>1 DEF Arrival, Idle

LEMMA PasswordArrives ==
    ASSUME NEW u \in Users, Live(u)
    PROVE  Arrival([Idle EXCEPT !.kind = "password", !.pc = "mark", !.user = u])
<1>1. [Idle EXCEPT !.kind = "password", !.pc = "mark", !.user = u] \in Requests
  BY IdleTyped DEF Requests, Kinds, PCs
<1> QED
  BY <1>1 DEF Arrival, Idle

LEMMA DeleteArrives ==
    ASSUME NEW u \in Users, Live(u), NEW d \in Documents
    PROVE  Arrival([Idle EXCEPT !.kind = "delete", !.pc = "write", !.user = u, !.doc = d])
<1>1. [Idle EXCEPT !.kind = "delete", !.pc = "write", !.user = u, !.doc = d] \in Requests
  BY IdleTyped DEF Requests, Kinds, PCs
<1> QED
  BY <1>1 DEF Arrival, Idle

LEMMA RenameArrives ==
    ASSUME NEW u \in Users, Live(u), NEW e \in Emails, NEW d \in Documents
    PROVE  Arrival([Idle EXCEPT !.kind = "rename", !.pc = "write", !.user = u, !.email = e,
                                !.doc = d])
<1>1. [Idle EXCEPT !.kind = "rename", !.pc = "write", !.user = u, !.email = e, !.doc = d]
        \in Requests
  BY IdleTyped DEF Requests, Kinds, PCs
<1> QED
  BY <1>1 DEF Arrival, Idle

LEMMA EditArrives ==
    ASSUME NEW d \in Documents
    PROVE  Arrival([Idle EXCEPT !.kind = "edit", !.pc = "write", !.doc = d])
<1>1. [Idle EXCEPT !.kind = "edit", !.pc = "write", !.doc = d] \in Requests
  BY IdleTyped DEF Requests, Kinds, PCs
<1> QED
  BY <1>1 DEF Arrival, Idle

LEMMA PurgeArrives ==
    ASSUME NEW p \in Projects, NEW d \in Documents
    PROVE  Arrival([Idle EXCEPT !.kind = "purge", !.pc = "write", !.project = p, !.doc = d])
<1>1. [Idle EXCEPT !.kind = "purge", !.pc = "write", !.project = p, !.doc = d] \in Requests
  BY IdleTyped DEF Requests, Kinds, PCs
<1> QED
  BY <1>1 DEF Arrival, Idle

LEMMA CreateArrives ==
    ASSUME NEW u \in Users, Live(u), NEW p \in Projects
    PROVE  Arrival([Idle EXCEPT !.kind = "create", !.pc = "insert", !.user = u, !.project = p])
<1>1. [Idle EXCEPT !.kind = "create", !.pc = "insert", !.user = u, !.project = p] \in Requests
  BY IdleTyped DEF Requests, Kinds, PCs
<1> QED
  BY <1>1 DEF Arrival, Idle

LEMMA RevokeArrives ==
    ASSUME NEW k \in Keys, key[k].status # "none", NEW p \in Procs
    PROVE  Arrival([Idle EXCEPT !.kind = "revoke", !.pc = "revoke", !.key = k, !.proc = p])
<1>1. [Idle EXCEPT !.kind = "revoke", !.pc = "revoke", !.key = k, !.proc = p] \in Requests
  BY IdleTyped DEF Requests, Kinds, PCs
<1> QED
  BY <1>1 DEF Arrival, Idle

LEMMA CallRequest ==
    ASSUME NEW k \in Keys, NEW p \in Procs, NEW pc \in {"row", "scan"}, NEW dead \in BOOLEAN
    PROVE  [Idle EXCEPT !.pc = pc, !.key = k, !.proc = p, !.dead = dead] \in Requests
BY IdleTyped DEF Requests, Kinds, PCs

LEMMA CallArrives ==
    ASSUME NEW k \in Keys, key[k].status # "none", NEW p \in Procs, NEW c
    PROVE  Arrival([Idle EXCEPT !.pc = IF c THEN "row" ELSE "scan", !.key = k, !.proc = p,
                                !.dead = key[k].status # "live"])
<1> DEFINE r == [Idle EXCEPT !.pc = IF c THEN "row" ELSE "scan", !.key = k, !.proc = p,
                             !.dead = key[k].status # "live"]
<1>1. r \in Requests
  <2>1. (IF c THEN "row" ELSE "scan") \in {"row", "scan"}
    OBVIOUS
  <2>2. (key[k].status # "live") \in BOOLEAN
    OBVIOUS
  <2> QED
    BY <2>1, <2>2, CallRequest, Zenon
<1>2. /\ r.kind = "call" /\ r.pc \in {"row", "scan"} /\ r.session = None /\ r.raced = FALSE
      /\ r.key = k /\ r.proc = p
  BY DEF Idle
<1>3. r.dead => key[k].status # "live"
  BY DEF Idle
<1> HIDE DEF r
<1>4. Arrival(r)
  BY <1>1, <1>2, <1>3 DEF Arrival
<1> QED
  BY <1>4 DEF r

\* Documents stay documents.
LEMMA DocumentsEdited ==
    ASSUME Types, NEW e \in Emails, NEW p
    PROVE  /\ Activated(doc, e) \in Documents /\ Invited(doc, e) \in Documents
           /\ Removed(doc, e) \in Documents
           /\ [doc EXCEPT !.members[e] = "none"] \in Documents
           /\ [doc EXCEPT !.projects = @ \ {p}] \in Documents
BY DEF Types, Documents, Activated, Invited, Removed

LEMMA DocumentsRenamed ==
    ASSUME Types, NEW old, NEW e \in Emails, NEW d \in Renamed(doc, old, e), old \in Emails
    PROVE  d \in Documents
<1>1. CASE doc.members[old] = "none"
  BY <1>1 DEF Types, Documents, Renamed
<1>2. CASE doc.members[old] # "none"
  <2>1. PICK m \in {doc.members[old], doc.members[e]} \ {"none"} :
          d = [doc EXCEPT !.members[old] = "none", !.members[e] = m]
    BY <1>2 DEF Renamed
  <2>2. m \in {"none", "invited", "active"}
    BY <2>1 DEF Types, Documents
  <2> QED
    BY <2>1, <2>2 DEF Types, Documents
<1> QED
  BY <1>1, <1>2

LEMMA ArriveIs ==
    ASSUME Typed, NEW s \in Slots, Arrive(s)
    PROVE  \E r : Arrival(r) /\ Begin(s, r) /\ UNCHANGED <<user, token, key, doc, quota>>
<1> USE DEF Typed
<1>1. CASE \E e \in Emails : Register(s, e)
  <2>1. PICK e \in Emails : Register(s, e)
    BY <1>1
  <2>2. (\A u \in Users : ~Live(u)) \in BOOLEAN
    OBVIOUS
  <2>3. Activated(doc, e) \in Documents
    BY DocumentsEdited
  <2> QED
    BY <2>1, <2>2, <2>3, RegisterArrives, Zenon DEF Register
<1>2. CASE \E e \in Emails : Invite(s, e)
  BY <1>2, DocumentsEdited, EditArrives, Zenon DEF Invite
<1>3. CASE \E e \in Emails : Remove(s, e)
  BY <1>3, DocumentsEdited, EditArrives, Zenon DEF Remove
<1>4. CASE \E u \in Users : Login(s, u)
  BY <1>4, LoginArrives, Zenon DEF Login
<1>5. CASE \E u \in Users : ChangePassword(s, u)
  BY <1>5, PasswordArrives, Zenon DEF ChangePassword
<1>6. CASE \E u \in Users : DeleteAccount(s, u)
  <2>1. PICK u \in Users : DeleteAccount(s, u)
    BY <1>6
  <2>2. user[u].email \in Emails
    BY <2>1 DEF DeleteAccount, Live, UserHasEmail
  <2>3. [doc EXCEPT !.members[user[u].email] = "none"] \in Documents
    BY <2>2, DocumentsEdited
  <2> QED
    BY <2>1, <2>3, DeleteArrives, Zenon DEF DeleteAccount
<1>7. CASE \E u \in Users, e \in Emails : ChangeEmail(s, u, e)
  <2>1. PICK u \in Users, e \in Emails : ChangeEmail(s, u, e)
    BY <1>7
  <2>2. user[u].email \in Emails
    BY <2>1 DEF ChangeEmail, Live, UserHasEmail
  <2>3. \A d \in Renamed(doc, user[u].email, e) : d \in Documents
    BY <2>2, DocumentsRenamed
  <2> QED
    BY <2>1, <2>3, RenameArrives, Zenon DEF ChangeEmail
<1>8. CASE \E t \in Tokens : Refresh(s, t)
  BY <1>8, RefreshArrives, Zenon DEF Refresh
<1>9. CASE \E p \in Projects : DeleteProject(s, p)
  <2>1. PICK p \in Projects : DeleteProject(s, p)
    BY <1>9
  <2>2. [doc EXCEPT !.projects = @ \ {p}] \in Documents
    BY DEF Types, Documents
  <2> QED
    BY <2>1, <2>2, PurgeArrives, Zenon DEF DeleteProject
<1>10. CASE \E p \in Projects : \E u \in Users : CreateKey(s, u, p)
  BY <1>10, CreateArrives, Zenon DEF CreateKey, MayManage
<1>11. CASE \E k \in Keys, p \in Procs : RevokeKey(s, k, p)
  <2>1. PICK k \in Keys, p \in Procs : RevokeKey(s, k, p)
    BY <1>11
  <2>2. key[k].status # "none"
    BY <2>1 DEF RevokeKey
  <2> QED
    BY <2>1, <2>2, RevokeArrives, Zenon DEF RevokeKey
<1>12. CASE \E k \in Keys, p \in Procs : Call(s, k, p)
  BY <1>12, CallArrives, Zenon DEF Call
<1> QED
  BY <1>1, <1>2, <1>3, <1>4, <1>5, <1>6, <1>7, <1>8, <1>9, <1>10, <1>11, <1>12, Zenon DEF Arrive

\* What a request is when it begins is well typed, and so is everything else.
LEMMA ArriveTyped ==
    ASSUME Typed, NEW s \in Slots, NEW r, Arrival(r), Begin(s, r),
           UNCHANGED <<user, token, key, doc, quota>>
    PROVE  Typed' /\ Grown
<1>1. r \in Requests
  BY DEF Arrival
<1>2. /\ req' \in [Slots -> Requests] /\ begun' \in 0..MaxRequests
      /\ req'[s] = r /\ \A o \in Slots \ {s} : req'[o] = req[o]
  BY <1>1, BeginTyped DEF Typed
<1>3. Types'
  BY <1>2 DEF Typed, Types
<1>4. Grown /\ TokenIsRooted' /\ KeyHasProject' /\ UserHasEmail'
  BY RowsKept
<1>5. \A o \in Slots \ {s} : Handler(o)'
  BY <1>2, <1>4, HandlerKept
<1>6. Handler(s)'
  BY <1>2 DEF Arrival, Handler, Live
<1> QED
  BY <1>3, <1>4, <1>5, <1>6 DEF Typed

-----------------------------------------------------------------------------
(* The steps of a request keep the types. *)

RowsTyped ==
    /\ user' \in [Users -> Accounts] /\ token' \in [Tokens -> JTIs] /\ key' \in [Keys -> APIKeys]
    /\ doc' \in Documents /\ quota' \in [Projects -> Quotas] /\ begun' = begun
    /\ Grown /\ TokenIsRooted' /\ KeyHasProject' /\ UserHasEmail'

LEMMA SameRowsTyped ==
    ASSUME Typed, UNCHANGED <<user, token, key, doc, quota, begun>> PROVE RowsTyped
BY RowsKept DEF Typed, Types, RowsTyped

LEMMA EndTyped == ASSUME Typed, NEW s \in Slots, End(s), RowsTyped PROVE Typed' /\ Grown
<1>1. req' \in [Slots -> Requests] /\ req'[s] = Idle /\ \A o \in Slots \ {s} : req'[o] = req[o]
  BY IdleTyped DEF Typed, Types, End
<1>2. Types'
  BY <1>1 DEF Typed, Types, RowsTyped
<1>3. \A o \in Slots : Handler(o)'
  BY <1>1, HandlerKept, HandlerIdle DEF RowsTyped
<1> QED
  BY <1>2, <1>3 DEF Typed, RowsTyped

\* The request goes on to pc, with what it has read.
GoesOn(s, pc) ==
    /\ req' \in [Slots -> Requests]
    /\ \A o \in Slots \ {s} : req'[o] = req[o]
    /\ req'[s].pc = pc
    /\ req'[s].kind = req[s].kind /\ req'[s].email = req[s].email /\ req'[s].token = req[s].token
    /\ req'[s].key = req[s].key /\ req'[s].project = req[s].project /\ req'[s].proc = req[s].proc
    /\ req'[s].dead = req[s].dead

LEMMA GotoGoesOn ==
    ASSUME Types, NEW s \in Slots, NEW pc \in PCs, Goto(s, pc)
    PROVE  /\ GoesOn(s, pc) /\ req'[s].user = req[s].user /\ req'[s].session = req[s].session
           /\ req'[s].marked = req[s].marked /\ req'[s].seen = req[s].seen
           /\ req'[s].pw = req[s].pw /\ req'[s].raced = req[s].raced /\ req'[s].row = req[s].row
BY DEF Types, Goto, GoesOn, Requests

LEMMA GoTyped ==
    ASSUME Typed, NEW s \in Slots, NEW pc \in PCs, GoesOn(s, pc), RowsTyped,
           req'[s].user = req[s].user, req[s].kind # "register", req[s].pc # "idle",
           pc = "issue" => req[s].kind \in {"login", "refresh"},
           pc = "commit" => req[s].kind = "password", pc # "activate",
           pc = "log" => req[s].kind = "call"
    PROVE  Typed' /\ Grown
<1>1. Types'
  BY DEF Typed, Types, GoesOn, RowsTyped
<1>2. \A o \in Slots \ {s} : Handler(o)'
  BY HandlerKept DEF GoesOn, RowsTyped
<1>3. Handler(s)'
  BY DEF Typed, Types, Handler, GoesOn, RowsTyped, Grown
<1> QED
  BY <1>1, <1>2, <1>3 DEF Typed, RowsTyped

\* What a step writes into a request.
LEMMA AccountWritten ==
    ASSUME NEW r \in Requests, NEW u \in Users, NEW pc \in PCs
    PROVE  [r EXCEPT !.user = u, !.pw = 1, !.pc = pc] \in Requests
BY DEF Requests

LEMMA SessionWritten ==
    ASSUME NEW r \in Requests, NEW pc \in PCs, NEW t \in Tokens \cup {None}, NEW n \in Nat,
           NEW b \in BOOLEAN
    PROVE  [r EXCEPT !.pc = pc, !.session = t, !.pw = n, !.raced = b] \in Requests
BY DEF Requests

LEMMA MarkedWritten ==
    ASSUME NEW r \in Requests, NEW m \in SUBSET Tokens, NEW e \in SUBSET Tokens
    PROVE  [r EXCEPT !.pc = "commit", !.marked = m, !.seen = e] \in Requests
BY DEF Requests, PCs

LEMMA RowWritten ==
    ASSUME NEW r \in Requests, NEW k \in APIKeys
    PROVE  [r EXCEPT !.pc = "check", !.row = k] \in Requests
BY DEF Requests, PCs

LEMMA InsertUserGoes ==
    ASSUME Typed, NEW s \in Slots, InsertUser(s)
    PROVE  \E u \in Users :
             /\ user[u].status = "none"
             /\ user' = [user EXCEPT ![u] =
                  [status |-> "live", email |-> req[s].email, pw |-> 1,
                   role |-> IF req[s].first THEN "admin" ELSE "member"]]
             /\ GoesOn(s, req'[s].pc) /\ req'[s].pc \in {"issue", "activate"}
             /\ req'[s].user = u /\ req'[s].pw = 1
             /\ req'[s].session = req[s].session /\ req'[s].raced = req[s].raced
<1> DEFINE pc == IF req[s].first THEN "issue" ELSE "activate"
<1>1. PICK u \in Users :
        /\ user[u].status = "none"
        /\ user' = [user EXCEPT ![u] =
             [status |-> "live", email |-> req[s].email, pw |-> 1,
              role |-> IF req[s].first THEN "admin" ELSE "member"]]
        /\ req' = [req EXCEPT ![s] = [req[s] EXCEPT !.user = u, !.pw = 1, !.pc = pc]]
  BY DEF InsertUser
<1>2. pc \in PCs /\ pc \in {"issue", "activate"}
  BY DEF PCs
<1> HIDE DEF pc
<1>3. req[s] \in Requests /\ req \in [Slots -> Requests]
  BY DEF Typed, Types
<1> DEFINE r == [req[s] EXCEPT !.user = u, !.pw = 1, !.pc = pc]
<1>4. r \in Requests
  BY <1>2, <1>3, AccountWritten
<1>5. /\ r.pc = pc /\ r.user = u /\ r.pw = 1 /\ r.session = req[s].session
      /\ r.raced = req[s].raced /\ r.kind = req[s].kind /\ r.email = req[s].email
      /\ r.token = req[s].token /\ r.key = req[s].key /\ r.project = req[s].project
      /\ r.proc = req[s].proc /\ r.dead = req[s].dead
  BY <1>3 DEF Requests
<1> HIDE DEF r
<1>6. req' = [req EXCEPT ![s] = r]
  BY <1>1 DEF r
<1>7. req'[s] = r
  BY <1>3, <1>6
<1>8. GoesOn(s, pc)
  BY <1>3, <1>4, <1>5, <1>6 DEF GoesOn
<1> QED
  BY <1>1, <1>2, <1>5, <1>7, <1>8

LEMMA InsertUserTyped == ASSUME Typed, NEW s \in Slots, InsertUser(s) PROVE Typed' /\ Grown
<1>1. PICK u \in Users :
         /\ user[u].status = "none"
         /\ user' = [user EXCEPT ![u] =
              [status |-> "live", email |-> req[s].email, pw |-> 1,
               role |-> IF req[s].first THEN "admin" ELSE "member"]]
         /\ GoesOn(s, req'[s].pc) /\ req'[s].pc \in {"issue", "activate"}
         /\ req'[s].user = u
  BY InsertUserGoes
<1>2. req[s].email \in Emails
  BY DEF InsertUser, At, Typed, Handler
<1>3. user' \in [Users -> Accounts] /\ user'[u].status # "none" /\ user'[u].email \in Emails
      /\ \A o \in Users \ {u} : user'[o] = user[o]
  BY <1>1, <1>2 DEF Typed, Types, Accounts
<1>4. RowsTyped
  BY <1>1, <1>3 DEF InsertUser, Typed, Types, RowsTyped, Grown, TokenIsRooted, KeyHasProject,
                    UserHasEmail
<1>5. Types'
  BY <1>1, <1>4 DEF Typed, Types, GoesOn, RowsTyped
<1>6. \A o \in Slots \ {s} : Handler(o)'
  BY <1>1, <1>4, HandlerKept DEF GoesOn, RowsTyped
<1>7. req'[s].kind = "register" /\ req'[s].email \in Emails
  BY <1>1, <1>2 DEF InsertUser, At, GoesOn
<1>8. Handler(s)'
  BY <1>1, <1>3, <1>7 DEF Handler
<1> QED
  BY <1>4, <1>5, <1>6, <1>8 DEF Typed, RowsTyped

LEMMA ActivateTyped == ASSUME Typed, NEW s \in Slots, ActivateMember(s) PROVE Typed' /\ Grown
<1>1. GoesOn(s, "issue") /\ req'[s].user = req[s].user
  BY GotoGoesOn DEF ActivateMember, Typed, PCs
<1>2. req[s].doc \in Documents
  BY DEF Typed, Types, Requests
<1>3. RowsTyped
  BY <1>2, RowsKept DEF ActivateMember, Typed, Types, RowsTyped
<1>4. Types'
  BY <1>1, <1>3 DEF Typed, Types, GoesOn, RowsTyped
<1>5. \A o \in Slots \ {s} : Handler(o)'
  BY <1>1, <1>3, HandlerKept DEF GoesOn, RowsTyped
<1>6. Handler(s)'
  BY <1>1, <1>3 DEF ActivateMember, At, Typed, Handler, GoesOn, RowsTyped, Grown
<1> QED
  BY <1>3, <1>4, <1>5, <1>6 DEF Typed, RowsTyped

\* The token that is consumed, and what the request takes over from it.
LEMMA ConsumeGoes ==
    ASSUME Typed, NEW s \in Slots, Consume(s)
    PROVE  LET t == req[s].token
           IN  /\ t \in Tokens /\ token[t].status = "unused"
               /\ GoesOn(s, "issue") /\ req'[s].user = req[s].user
               /\ req'[s].session = token[t].session /\ req'[s].pw = token[t].pw
               /\ req'[s].raced = token[t].raced
<1> DEFINE t == req[s].token
           x == token[t].session
           n == token[t].pw
           b == token[t].raced
<1>1. t \in Tokens /\ token[t].status = "unused"
  BY DEF Consume, At, Consumable, Typed, Handler
<1>2. x \in Tokens \cup {None} /\ n \in Nat /\ b \in BOOLEAN
  BY <1>1 DEF Typed, Types, JTIs
<1>3. req[s] \in Requests /\ req \in [Slots -> Requests] /\ "issue" \in PCs
  BY DEF Typed, Types, PCs
<1>4. req' = [req EXCEPT ![s] = [req[s] EXCEPT !.pc = "issue", !.session = x, !.pw = n,
                                               !.raced = b]]
  BY DEF Consume
<1> HIDE DEF x, n, b
<1> DEFINE r == [req[s] EXCEPT !.pc = "issue", !.session = x, !.pw = n, !.raced = b]
<1>5. r \in Requests
  BY <1>2, <1>3, SessionWritten
<1>6. /\ r.pc = "issue" /\ r.user = req[s].user /\ r.session = x /\ r.pw = n /\ r.raced = b
      /\ r.kind = req[s].kind /\ r.email = req[s].email /\ r.token = req[s].token
      /\ r.key = req[s].key /\ r.project = req[s].project /\ r.proc = req[s].proc
      /\ r.dead = req[s].dead
  BY <1>3 DEF Requests
<1> HIDE DEF r
<1>7. req' = [req EXCEPT ![s] = r]
  BY <1>4 DEF r
<1>8. req'[s] = r
  BY <1>3, <1>7
<1>9. GoesOn(s, "issue")
  BY <1>3, <1>5, <1>6, <1>7 DEF GoesOn
<1> QED
  BY <1>1, <1>6, <1>8, <1>9 DEF x, n, b

\* Consuming a token leaves its row what it is but for its status.
LEMMA ConsumeTyped == ASSUME Typed, NEW s \in Slots, Consume(s) PROVE Typed' /\ Grown
<1> DEFINE t == req[s].token
<1>1. t \in Tokens /\ token[t].status = "unused"
  BY DEF Consume, At, Consumable, Typed, Handler
<1>2. /\ token[t].session \in Tokens \cup {None} /\ token[t].pw \in Nat
      /\ token[t].raced \in BOOLEAN
  BY <1>1 DEF Typed, Types, JTIs
<1>3. GoesOn(s, "issue") /\ req'[s].user = req[s].user
  BY ConsumeGoes
<1>4. token' \in [Tokens -> JTIs]
  BY <1>1 DEF Consume, Typed, Types, JTIs
<1>5. RowsTyped
  BY <1>1, <1>4 DEF Consume, Typed, Types, JTIs, RowsTyped, Grown, TokenIsRooted, KeyHasProject,
                    UserHasEmail
<1> QED
  BY <1>3, <1>5, GoTyped DEF Consume, At, PCs

LEMMA IssueTyped == ASSUME Typed, NEW s \in Slots, Issue(s), Live(req[s].user),
                           req[s].session \in Tokens => token[req[s].session].status # "none"
                    PROVE  Typed' /\ Grown
<1>1. req[s].user \in Users
  BY DEF Issue, Typed, Handler
<1>2. PICK t \in Tokens :
         /\ token[t].status = "none"
         /\ token' = [token EXCEPT ![t] =
              [status |-> "unused", user |-> req[s].user, pw |-> req[s].pw, raced |-> req[s].raced,
               session |-> IF req[s].session = None THEN t ELSE req[s].session]]
  BY DEF Issue
<1>3. req[s].session \in Tokens \cup {None} /\ req[s].pw \in Nat /\ req[s].raced \in BOOLEAN
  BY DEF Typed, Types, Requests
<1>4. token' \in [Tokens -> JTIs]
  BY <1>1, <1>2, <1>3 DEF Typed, Types, JTIs
<1>5. TokenIsRooted'
  BY <1>1, <1>2, <1>3 DEF Issue, Live, Typed, Types, TokenIsRooted
<1>6. RowsTyped
  BY <1>2, <1>4, <1>5 DEF Issue, Typed, Types, RowsTyped, Grown, KeyHasProject, UserHasEmail
<1> QED
  BY <1>6, EndTyped DEF Issue

LEMMA MarkGoes ==
    ASSUME Typed, NEW s \in Slots, MarkTokens(s)
    PROVE  /\ GoesOn(s, "commit") /\ req'[s].user = req[s].user
           /\ req'[s].session = req[s].session
           /\ req'[s].marked = {t \in Tokens : token[t].user = req[s].user
                                               /\ token[t].status = "unused"}
           /\ req'[s].seen = {t \in Tokens : token[t].status # "none"}
<1> DEFINE m == Outstanding(req[s].user)
           e == {t \in Tokens : token[t].status # "none"}
<1>1. m = {t \in Tokens : token[t].user = req[s].user /\ token[t].status = "unused"}
  BY DEF Outstanding, TokensOf, Unused
<1>2. m \in SUBSET Tokens /\ e \in SUBSET Tokens
  BY <1>1
<1>3. req[s] \in Requests /\ req \in [Slots -> Requests]
  BY DEF Typed, Types
<1>4. req' = [req EXCEPT ![s] = [req[s] EXCEPT !.pc = "commit", !.marked = m, !.seen = e]]
  BY DEF MarkTokens
<1> HIDE DEF m, e
<1> DEFINE r == [req[s] EXCEPT !.pc = "commit", !.marked = m, !.seen = e]
<1>5. r \in Requests
  BY <1>2, <1>3, MarkedWritten
<1>6. /\ r.pc = "commit" /\ r.user = req[s].user /\ r.session = req[s].session
      /\ r.marked = m /\ r.seen = e
      /\ r.kind = req[s].kind /\ r.email = req[s].email /\ r.token = req[s].token
      /\ r.key = req[s].key /\ r.project = req[s].project /\ r.proc = req[s].proc
      /\ r.dead = req[s].dead
  BY <1>3 DEF Requests
<1> HIDE DEF r
<1>7. req' = [req EXCEPT ![s] = r]
  BY <1>4 DEF r
<1>8. req'[s] = r
  BY <1>3, <1>7
<1>9. GoesOn(s, "commit")
  BY <1>3, <1>5, <1>6, <1>7 DEF GoesOn
<1> QED
  BY <1>1, <1>6, <1>8, <1>9 DEF e

LEMMA MarkTyped == ASSUME Typed, NEW s \in Slots, MarkTokens(s) PROVE Typed' /\ Grown
<1>1. RowsTyped
  BY SameRowsTyped DEF MarkTokens
<1> QED
  BY <1>1, MarkGoes, GoTyped DEF MarkTokens, At, PCs

\* The request o is what it was, but for its mark that a password has changed.
SameBut(o) ==
    /\ req'[o].kind = req[o].kind /\ req'[o].pc = req[o].pc /\ req'[o].user = req[o].user
    /\ req'[o].email = req[o].email /\ req'[o].token = req[o].token /\ req'[o].key = req[o].key
    /\ req'[o].project = req[o].project /\ req'[o].proc = req[o].proc
    /\ req'[o].row = req[o].row /\ req'[o].session = req[o].session /\ req'[o].pw = req[o].pw
    /\ req'[o].marked = req[o].marked /\ req'[o].seen = req[o].seen
    /\ req'[o].dead = req[o].dead

LEMMA RacedWritten ==
    ASSUME NEW r \in Requests, NEW b \in BOOLEAN
    PROVE  /\ [r EXCEPT !.raced = b] \in Requests
           /\ \A f \in DOMAIN r \ {"raced"} : [r EXCEPT !.raced = b][f] = r[f]
           /\ [r EXCEPT !.raced = b].raced = b
<1>1. [r EXCEPT !.raced = b] \in Requests
  BY DEF Requests
<1>2. \A f \in DOMAIN r \ {"raced"} : [r EXCEPT !.raced = b][f] = r[f]
  BY DEF Requests
<1>3. [r EXCEPT !.raced = b].raced = b
  BY DEF Requests
<1> QED
  BY <1>1, <1>2, <1>3

LEMMA CommitPasswordRequests ==
    ASSUME Typed, NEW s \in Slots, CommitPassword(s)
    PROVE  /\ req' \in [Slots -> Requests] /\ req'[s] = Idle
           /\ \A o \in Slots \ {s} : SameBut(o)
           /\ \A o \in Slots \ {s} : req'[o].raced <=> req[o].raced \/ Races(s, o)
<1>1. req' = [o \in Slots |-> IF o = s THEN Idle
                              ELSE [req[o] EXCEPT !.raced = req[o].raced \/ Races(s, o)]]
  BY DEF CommitPassword
<1>2. ASSUME NEW o \in Slots \ {s}
      PROVE  req'[o] \in Requests /\ SameBut(o) /\ (req'[o].raced <=> req[o].raced \/ Races(s, o))
  <2> DEFINE b == req[o].raced \/ Races(s, o)
  <2>1. b \in BOOLEAN
    OBVIOUS
  <2>2. req'[o] = [req[o] EXCEPT !.raced = b]
    BY <1>1
  <2>3. req[o] \in Requests
    BY DEF Typed, Types
  <2> HIDE DEF b
  <2>4. /\ req'[o] \in Requests /\ req'[o].raced = b
        /\ \A f \in DOMAIN req[o] \ {"raced"} : req'[o][f] = req[o][f]
    BY <2>1, <2>2, <2>3, RacedWritten
  <2>5. SameBut(o)
    BY <2>3, <2>4 DEF SameBut, Requests
  <2> QED
    BY <2>4, <2>5 DEF b
<1>3. req'[s] = Idle
  BY <1>1
<1>4. req' \in [Slots -> Requests]
  BY <1>1, <1>2, <1>3, IdleTyped
<1> QED
  BY <1>2, <1>3, <1>4

LEMMA CommitPasswordTyped ==
    ASSUME Typed, NEW s \in Slots, CommitPassword(s),
           \A t \in req[s].marked : token[t].status # "none"
    PROVE  Typed' /\ Grown
<1> DEFINE u == req[s].user
<1>1. u \in Users /\ user[u].pw \in Nat
  BY DEF CommitPassword, At, Typed, Types, Handler, Accounts
<1>2. user' = [user EXCEPT ![u].pw = user[u].pw + 1]
  BY DEF CommitPassword
<1>3. /\ user' \in [Users -> Accounts]
      /\ \A x \in Users : user'[x].status = user[x].status /\ user'[x].email = user[x].email
  BY <1>1, <1>2 DEF Typed, Types, Accounts
<1>4. /\ token' \in [Tokens -> JTIs]
      /\ \A t \in Tokens : /\ token'[t].user = token[t].user /\ token'[t].session = token[t].session
                           /\ token'[t].status = IF t \in req[s].marked THEN "used"
                                                 ELSE token[t].status
  BY DEF CommitPassword, Typed, Types, JTIs
<1>5. RowsTyped
  <2>1. key' = key /\ doc' = doc /\ quota' = quota /\ begun' = begun
    BY DEF CommitPassword
  <2>2. Grown
    BY <1>3, <1>4, <2>1 DEF Grown
  <2>3. TokenIsRooted'
    BY <1>3, <1>4 DEF Typed, TokenIsRooted
  <2>4. KeyHasProject' /\ UserHasEmail'
    BY <1>3, <2>1 DEF Typed, KeyHasProject, UserHasEmail
  <2> QED
    BY <1>3, <1>4, <2>1, <2>2, <2>3, <2>4 DEF Typed, Types, RowsTyped
<1>6. req' \in [Slots -> Requests] /\ req'[s] = Idle /\ \A o \in Slots \ {s} : SameBut(o)
  BY CommitPasswordRequests
<1>7. Types'
  BY <1>5, <1>6 DEF Typed, Types, RowsTyped
<1>8. \A o \in Slots \ {s} : Handler(o)'
  BY <1>5, <1>6, HandlerKept DEF RowsTyped, SameBut
<1> QED
  BY <1>5, <1>6, <1>7, <1>8, HandlerIdle DEF Typed, RowsTyped

LEMMA CommitDeleteTyped == ASSUME Typed, NEW s \in Slots, CommitDelete(s) PROVE Typed' /\ Grown
<1> DEFINE u == req[s].user
<1>1. u \in Users /\ user[u].status # "none" /\ u # None
  BY AccountsAssumption DEF CommitDelete, At, Typed, Handler
<1>2. /\ user' \in [Users -> Accounts]
      /\ \A o \in Users : /\ user'[o].email = user[o].email
                          /\ user'[o].status = IF o = u THEN "gone" ELSE user[o].status
  BY <1>1 DEF CommitDelete, Typed, Types, Accounts
<1>3. /\ token' \in [Tokens -> JTIs]
      /\ \A t \in Tokens : /\ token'[t].user = token[t].user /\ token'[t].session = token[t].session
                           /\ token'[t].status = IF token[t].user = u THEN "gone"
                                                 ELSE token[t].status
  BY DEF CommitDelete, Typed, Types, JTIs
<1>4. /\ key' \in [Keys -> APIKeys]
      /\ \A k \in Keys : /\ key'[k].project = key[k].project /\ key'[k].owner = key[k].owner
                         /\ key'[k].status = IF key[k].owner = u THEN "gone" ELSE key[k].status
  BY DEF CommitDelete, Typed, Types, APIKeys
<1>5. TokenIsRooted'
  BY <1>1, <1>2, <1>3 DEF Typed, TokenIsRooted
<1>6. KeyHasProject' /\ UserHasEmail'
  BY <1>1, <1>2, <1>4 DEF Typed, KeyHasProject, UserHasEmail
<1>7. Grown
  BY <1>2, <1>3, <1>4 DEF Grown
<1>8. RowsTyped
  BY <1>2, <1>3, <1>4, <1>5, <1>6, <1>7 DEF CommitDelete, Typed, Types, Requests, RowsTyped
<1> QED
  BY <1>8, EndTyped DEF CommitDelete

LEMMA CommitEmailTyped == ASSUME Typed, NEW s \in Slots, CommitEmail(s) PROVE Typed' /\ Grown
<1> DEFINE u == req[s].user
           e == req[s].email
<1>1. u \in Users /\ e \in Emails /\ req[s].doc \in Documents
  BY DEF CommitEmail, At, Typed, Types, Handler, Requests
<1>2. /\ user' \in [Users -> Accounts] /\ doc' \in Documents
      /\ \A o \in Users : user'[o].status = user[o].status /\ user'[o].email \in {user[o].email, e}
  BY <1>1 DEF CommitEmail, Typed, Types, Accounts
<1>3. TokenIsRooted'
  BY <1>2 DEF CommitEmail, Typed, TokenIsRooted
<1>4. KeyHasProject' /\ UserHasEmail' /\ Grown
  BY <1>1, <1>2 DEF CommitEmail, Typed, KeyHasProject, UserHasEmail, Grown
<1>5. RowsTyped
  BY <1>2, <1>3, <1>4 DEF CommitEmail, Typed, Types, RowsTyped
<1> QED
  BY <1>5, EndTyped DEF CommitEmail

LEMMA WriteMembersTyped == ASSUME Typed, NEW s \in Slots, WriteMembers(s) PROVE Typed' /\ Grown
<1>1. req[s].doc \in Documents
  BY DEF Typed, Types, Requests
<1>2. RowsTyped
  BY <1>1, RowsKept DEF WriteMembers, Typed, Types, RowsTyped
<1> QED
  BY <1>2, EndTyped DEF WriteMembers

LEMMA CommitPurgeTyped == ASSUME Typed, NEW s \in Slots, CommitPurge(s) PROVE Typed' /\ Grown
<1> DEFINE p == req[s].project
<1>1. p \in Projects /\ p # None /\ req[s].doc \in Documents
  BY AccountsAssumption DEF CommitPurge, At, Typed, Types, Handler, Requests
<1>2. /\ key' \in [Keys -> APIKeys]
      /\ \A k \in Keys : /\ key'[k].project = key[k].project /\ key'[k].owner = key[k].owner
                         /\ key'[k].status = IF key[k].project = p THEN "gone" ELSE key[k].status
  BY DEF CommitPurge, Typed, Types, APIKeys
<1>3. quota' \in [Projects -> Quotas]
  BY <1>1 DEF CommitPurge, Typed, Types, Quotas, NoUse
<1>4. KeyHasProject'
  BY <1>1, <1>2 DEF Typed, KeyHasProject
<1>5. TokenIsRooted' /\ UserHasEmail' /\ Grown
  BY <1>2 DEF CommitPurge, Typed, TokenIsRooted, UserHasEmail, Grown
<1>6. RowsTyped
  BY <1>1, <1>2, <1>3, <1>4, <1>5 DEF CommitPurge, Typed, Types, RowsTyped
<1> QED
  BY <1>6, EndTyped DEF CommitPurge

LEMMA InsertKeyTyped == ASSUME Typed, NEW s \in Slots, InsertKey(s) PROVE Typed' /\ Grown
<1>1. req[s].project \in Projects /\ req[s].user \in Users
  BY DEF InsertKey, At, Typed, Handler
<1>2. PICK k \in Keys :
        /\ key[k].status = "none"
        /\ key' = [key EXCEPT ![k] = [status |-> "live", project |-> req[s].project,
                                      owner |-> req[s].user]]
  BY DEF InsertKey
<1>3. key' \in [Keys -> APIKeys]
  BY <1>1, <1>2 DEF Typed, Types, APIKeys
<1>4. KeyHasProject' /\ TokenIsRooted' /\ UserHasEmail' /\ Grown
  BY <1>1, <1>2 DEF InsertKey, Typed, Types, KeyHasProject, TokenIsRooted, UserHasEmail, Grown
<1>5. RowsTyped
  BY <1>3, <1>4 DEF InsertKey, Typed, Types, RowsTyped
<1> QED
  BY <1>5, EndTyped DEF InsertKey

\* The status of one key changes.
LEMMA KeyMarked ==
    ASSUME Typed, NEW k \in Keys, key[k].status # "none", NEW x \in {"revoked", "expired"},
           key' = [key EXCEPT ![k].status = x], UNCHANGED <<user, token, doc, quota, begun>>
    PROVE  RowsTyped
<1>1. /\ key' \in [Keys -> APIKeys]
      /\ \A o \in Keys : /\ key'[o].project = key[o].project /\ key'[o].owner = key[o].owner
                         /\ key'[o].status = IF o = k THEN x ELSE key[o].status
  BY DEF Typed, Types, APIKeys
<1>2. KeyHasProject' /\ TokenIsRooted' /\ UserHasEmail' /\ Grown
  BY <1>1 DEF Typed, KeyHasProject, TokenIsRooted, UserHasEmail, Grown
<1> QED
  BY <1>1, <1>2 DEF Typed, Types, RowsTyped

LEMMA CommitRevokeTyped == ASSUME Typed, NEW s \in Slots, CommitRevoke(s) PROVE Typed' /\ Grown
<1>1. req[s].key \in Keys /\ key[req[s].key].status # "none"
  BY DEF CommitRevoke, At, Typed, Handler
<1>2. RowsTyped
  BY <1>1, KeyMarked DEF CommitRevoke
<1>3. GoesOn(s, "forget") /\ req'[s].user = req[s].user
  BY GotoGoesOn DEF CommitRevoke, Typed, PCs
<1> QED
  BY <1>2, <1>3, GoTyped DEF CommitRevoke, At, PCs

LEMMA ReadGoes ==
    ASSUME Typed, NEW s \in Slots, NEW k \in Keys,
           req' = [req EXCEPT ![s] = [req[s] EXCEPT !.pc = "check", !.row = key[k]]]
    PROVE  /\ GoesOn(s, "check") /\ req'[s].user = req[s].user
           /\ req'[s].session = req[s].session /\ req'[s].row = key[k]
<1> DEFINE v == key[k]
           r == [req[s] EXCEPT !.pc = "check", !.row = v]
<1>1. req[s] \in Requests /\ req \in [Slots -> Requests] /\ v \in APIKeys
  BY DEF Typed, Types
<1> HIDE DEF v
<1>2. r \in Requests
  BY <1>1, RowWritten
<1>3. /\ r.pc = "check" /\ r.user = req[s].user /\ r.session = req[s].session /\ r.row = v
      /\ r.kind = req[s].kind /\ r.email = req[s].email /\ r.token = req[s].token
      /\ r.key = req[s].key /\ r.project = req[s].project /\ r.proc = req[s].proc
      /\ r.dead = req[s].dead
  BY <1>1 DEF Requests
<1>4. req' = [req EXCEPT ![s] = r]
  BY DEF v
<1> HIDE DEF r
<1>5. req'[s] = r
  BY <1>1, <1>4
<1>6. GoesOn(s, "check")
  BY <1>1, <1>2, <1>3, <1>4 DEF GoesOn
<1> QED
  BY <1>3, <1>5, <1>6 DEF v

LEMMA ReadTyped ==
    ASSUME Typed, NEW s \in Slots, ReadRow(s) \/ Scan(s) PROVE Typed' /\ Grown
<1> DEFINE k == req[s].key
<1>1. k \in Keys
  BY DEF ReadRow, Scan, At, Typed, Handler
<1>2. RowsTyped
  BY SameRowsTyped DEF ReadRow, Scan
<1>3. CASE key[k].status # "gone"
  <2>1. req' = [req EXCEPT ![s] = [req[s] EXCEPT !.pc = "check", !.row = key[k]]]
    BY <1>3 DEF ReadRow, Scan
  <2>2. GoesOn(s, "check") /\ req'[s].user = req[s].user
    BY <1>1, <2>1, ReadGoes
  <2> QED
    BY <1>2, <2>2, GoTyped DEF ReadRow, Scan, At, PCs
<1>4. CASE key[k].status = "gone" /\ ReadRow(s)
  <2>1. GoesOn(s, "scan") /\ req'[s].user = req[s].user
    BY <1>4, GotoGoesOn DEF ReadRow, Typed, PCs
  <2> QED
    BY <1>2, <1>4, <2>1, GoTyped DEF ReadRow, At, PCs
<1>5. CASE key[k].status = "gone" /\ Scan(s)
  BY <1>2, <1>5, EndTyped DEF Scan
<1> QED
  BY <1>3, <1>4, <1>5

LEMMA ValidateTyped == ASSUME Typed, NEW s \in Slots, Validate(s) PROVE Typed' /\ Grown
<1>1. RowsTyped
  BY SameRowsTyped DEF Validate
<1>2. GoesOn(s, "count") /\ req'[s].user = req[s].user
  BY GotoGoesOn DEF Validate, Typed, PCs
<1> QED
  BY <1>1, <1>2, GoTyped DEF Validate, At, PCs

LEMMA AdmitTyped == ASSUME Typed, NEW s \in Slots, Admit(s) PROVE Typed' /\ Grown
<1> DEFINE p == key[req[s].key].project
<1>1. p \in Projects
  BY DEF Admit, At, Typed, Handler, KeyHasProject
<1>2. quota' \in [Projects -> Quotas]
  BY <1>1 DEF Admit, Typed, Types, Quotas
<1>3. RowsTyped
  BY <1>2, RowsKept DEF Admit, Typed, Types, RowsTyped
<1>4. GoesOn(s, "log") /\ req'[s].user = req[s].user
  BY GotoGoesOn DEF Admit, Typed, PCs
<1> QED
  BY <1>3, <1>4, GoTyped DEF Admit, At, PCs

LEMMA LogTyped == ASSUME Typed, NEW s \in Slots, Log(s) PROVE Typed' /\ Grown
<1> DEFINE p == key[req[s].key].project
<1>1. p \in Projects
  BY DEF Log, At, Typed, Handler, KeyHasProject
<1>2. quota' \in [Projects -> Quotas]
  BY <1>1 DEF Log, Typed, Types, Quotas
<1>3. RowsTyped
  BY <1>2, RowsKept DEF Log, Typed, Types, RowsTyped
<1> QED
  BY <1>3, EndTyped DEF Log

\* Requests that end here, but for the issue of a token.
Ending(s) ==
    \/ EmailInUse(s) \/ NoLongerValid(s) \/ IssueFails(s) \/ PasswordFails(s)
    \/ InsertKeyFails(s) \/ RevokeFails(s) \/ ForgetRevoked(s) \/ ValidateFails(s)
    \/ Refuse(s) \/ QuotaExceeded(s)

LEMMA EndingIs ==
    ASSUME NEW s \in Slots, Ending(s)
    PROVE  End(s) /\ UNCHANGED <<user, token, key, doc, quota, begun>>
BY DEF Ending, EmailInUse, NoLongerValid, IssueFails, PasswordFails, InsertKeyFails, RevokeFails,
       ForgetRevoked, ValidateFails, Refuse, QuotaExceeded

LEMMA EndingTyped == ASSUME Typed, NEW s \in Slots, Ending(s) PROVE Typed' /\ Grown
BY EndingIs, SameRowsTyped, EndTyped

\* What happens outside the requests.
LEMMA OutsideTyped ==
    ASSUME Typed, RowsTyped, req' = req PROVE Typed' /\ Grown
<1>1. Types'
  BY DEF Typed, Types, RowsTyped
<1>2. \A o \in Slots : Handler(o)'
  BY HandlerKept DEF RowsTyped
<1> QED
  BY <1>1, <1>2 DEF Typed, RowsTyped

LEMMA ExpireTyped == ASSUME Typed, NEW k \in Keys, ExpireKey(k) PROVE Typed' /\ Grown
<1>1. RowsTyped
  BY KeyMarked DEF ExpireKey
<1> QED
  BY <1>1, OutsideTyped DEF ExpireKey

LEMMA NewPeriodTyped == ASSUME Typed, NewPeriod PROVE Typed' /\ Grown
<1>1. quota' \in [Projects -> Quotas]
  BY DEF NewPeriod, Quotas, NoUse
<1>2. RowsTyped
  BY <1>1, RowsKept DEF NewPeriod, Typed, Types, RowsTyped
<1> QED
  BY <1>2, OutsideTyped DEF NewPeriod

-----------------------------------------------------------------------------
(* Sessions. *)

\* A request has the session of a token only to issue the next one of it.
SessionIsRooted ==
    \A s \in Slots :
        /\ req[s].pc # "issue" => req[s].session = None
        /\ req[s].session \in Tokens => token[req[s].session].status # "none"

\* The token a session goes on with is still to come, and from one request only.
OneIssuer ==
    \A s \in Slots : req[s].pc = "issue" /\ req[s].session \in Tokens =>
        /\ \A t \in Tokens : Unused(t) => token[t].session # req[s].session
        /\ \A o \in Slots \ {s} : req[o].pc = "issue" => req[o].session # req[s].session

Sessions == OneTokenPerSession /\ SessionIsRooted /\ OneIssuer

\* The request begins no issue of a session that has begun.
SessionKept(o) ==
    /\ req'[o].pc # "issue" => req'[o].session = None
    /\ req'[o].pc = "issue" => /\ req'[o].session = req[o].session
                               /\ req[o].pc = "issue" \/ req[o].session = None

TokensFade ==
    \A t \in Tokens : Unused(t)' => Unused(t) /\ token'[t].session = token[t].session

LEMMA SessionsKept ==
    ASSUME Typed, Grown, Sessions, TokensFade, \A o \in Slots : SessionKept(o)
    PROVE  Sessions'
<1> USE AccountsAssumption
<1>1. OneTokenPerSession'
  BY DEF Sessions, OneTokenPerSession, TokensFade
<1>2. SessionIsRooted'
  BY DEF Sessions, SessionIsRooted, SessionKept, Grown
<1>3. OneIssuer'
  BY DEF Sessions, OneIssuer, SessionKept, TokensFade
<1> QED
  BY <1>1, <1>2, <1>3 DEF Sessions

\* A request that has not changed, or has ended.
LEMMA SessionsOfOthers ==
    ASSUME Sessions, NEW o \in Slots, req'[o] = req[o] \/ req'[o] = Idle PROVE SessionKept(o)
BY DEF Sessions, SessionIsRooted, SessionKept, Idle

LEMMA ArriveSessions ==
    ASSUME Typed, Sessions, Grown, NEW s \in Slots, NEW r, Arrival(r), Begin(s, r),
           UNCHANGED <<user, token, key, doc, quota>>
    PROVE  Sessions'
<1>1. req'[s] = r /\ \A o \in Slots \ {s} : req'[o] = req[o]
  BY BeginTyped DEF Arrival, Typed
<1>2. SessionKept(s)
  BY <1>1 DEF Arrival, SessionKept, Begin, Sessions, SessionIsRooted
<1>3. \A o \in Slots : SessionKept(o)
  BY <1>1, <1>2, SessionsOfOthers
<1>4. TokensFade
  BY DEF TokensFade, Unused
<1> QED
  BY <1>3, <1>4, SessionsKept

\* A request that goes on, to issue only from where it had no session.
LEMMA GoSessions ==
    ASSUME Typed, Sessions, Grown, TokensFade, NEW s \in Slots, NEW pc, GoesOn(s, pc),
           req'[s].session = req[s].session, req[s].pc # "issue"
    PROVE  Sessions'
<1>1. SessionKept(s)
  BY DEF GoesOn, SessionKept, Sessions, SessionIsRooted
<1>2. \A o \in Slots : SessionKept(o)
  BY <1>1, SessionsOfOthers DEF GoesOn
<1> QED
  BY <1>2, SessionsKept

LEMMA EndSessions ==
    ASSUME Typed, Sessions, Grown, TokensFade, NEW s \in Slots, End(s) PROVE Sessions'
<1>1. \A o \in Slots : req'[o] = req[o] \/ req'[o] = Idle
  BY DEF End, Typed, Types
<1> QED
  BY <1>1, SessionsOfOthers, SessionsKept

\* The one request that consumes the token is the one that goes on with its session.
LEMMA ConsumeSessions ==
    ASSUME Typed, Sessions, Grown, NEW s \in Slots, Consume(s) PROVE Sessions'
<1> DEFINE t == req[s].token
<1>1. /\ t \in Tokens /\ token[t].status = "unused"
      /\ GoesOn(s, "issue") /\ req'[s].session = token[t].session
  BY ConsumeGoes
<1>2. /\ \A o \in Tokens : token'[o].session = token[o].session
      /\ \A o \in Tokens : token'[o].status = IF o = t THEN "used" ELSE token[o].status
  BY <1>1 DEF Consume, Typed, Types, JTIs
<1>3. token[t].session \in Tokens /\ token[token[t].session].status # "none"
  BY <1>1 DEF Typed, TokenIsRooted
<1>4. OneTokenPerSession'
  BY <1>2 DEF Sessions, OneTokenPerSession, Unused
<1>5. SessionIsRooted'
  BY <1>1, <1>2, <1>3 DEF Sessions, SessionIsRooted, GoesOn, Grown
<1>6. \A o \in Tokens : Unused(o)' => token'[o].session # token[t].session
  BY <1>1, <1>2 DEF Sessions, OneTokenPerSession, Unused
<1>7. \A o \in Slots \ {s} : req[o].pc = "issue" => req[o].session # token[t].session
  BY <1>1, <1>3 DEF Sessions, OneIssuer, Unused
<1>8. OneIssuer'
  BY <1>1, <1>2, <1>3, <1>6, <1>7 DEF Sessions, OneIssuer, GoesOn, Unused
<1> QED
  BY <1>4, <1>5, <1>8 DEF Sessions

\* What is known of the token that is issued.
LEMMA Issued ==
    ASSUME Typed, NEW s \in Slots, Issue(s)
    PROVE  \E t \in Tokens :
             /\ token[t].status = "none"
             /\ token' \in [Tokens -> JTIs] /\ \A o \in Tokens \ {t} : token'[o] = token[o]
             /\ token'[t].status = "unused" /\ token'[t].user = req[s].user
             /\ token'[t].pw = req[s].pw /\ token'[t].raced = req[s].raced
             /\ token'[t].session = IF req[s].session = None THEN t ELSE req[s].session
<1>1. PICK t \in Tokens :
         /\ token[t].status = "none"
         /\ token' = [token EXCEPT ![t] =
              [status |-> "unused", user |-> req[s].user, pw |-> req[s].pw, raced |-> req[s].raced,
               session |-> IF req[s].session = None THEN t ELSE req[s].session]]
  BY DEF Issue
<1>2. /\ req[s].session \in Tokens \cup {None} /\ req[s].pw \in Nat /\ req[s].raced \in BOOLEAN
      /\ req[s].user \in Users
  BY DEF Issue, Typed, Types, Requests, Handler
<1>3. token' \in [Tokens -> JTIs]
  BY <1>1, <1>2 DEF Typed, Types, JTIs
<1> QED
  BY <1>1, <1>2, <1>3 DEF Typed, Types

LEMMA IssueSessions ==
    ASSUME Typed, Sessions, Grown, NEW s \in Slots, Issue(s) PROVE Sessions'
<1> USE AccountsAssumption
<1>1. PICK t \in Tokens :
         /\ token[t].status = "none"
         /\ \A o \in Tokens \ {t} : token'[o] = token[o]
         /\ token'[t].status = "unused"
         /\ token'[t].session = IF req[s].session = None THEN t ELSE req[s].session
  BY Issued
<1>2. req[s].pc = "issue" /\ req[s].session \in Tokens \cup {None}
  BY DEF Issue, Typed, Types, Requests
<1>3. /\ req'[s].pc = "idle" /\ req'[s].session = None
      /\ \A o \in Slots \ {s} : req'[o] = req[o]
  BY DEF Issue, End, Idle, Typed, Types
<1>4. \A o \in Tokens \ {t} : Unused(o) => token[o].session # token'[t].session
  <2>1. CASE req[s].session = None
    BY <1>1, <2>1 DEF Typed, TokenIsRooted, Unused
  <2>2. CASE req[s].session \in Tokens
    BY <1>1, <1>2, <2>2 DEF Sessions, OneIssuer
  <2> QED
    BY <1>2, <2>1, <2>2
<1>5. OneTokenPerSession'
  BY <1>1, <1>4 DEF Sessions, OneTokenPerSession, Unused
<1>6. SessionIsRooted'
  BY <1>3 DEF Sessions, SessionIsRooted, Grown
<1>7. \A o \in Slots \ {s} : req[o].pc = "issue" => req[o].session # token'[t].session
  <2>1. CASE req[s].session = None
    BY <1>1, <2>1 DEF Sessions, SessionIsRooted
  <2>2. CASE req[s].session \in Tokens
    BY <1>1, <1>2, <2>2 DEF Sessions, OneIssuer
  <2> QED
    BY <1>2, <2>1, <2>2
<1>8. OneIssuer'
  BY <1>1, <1>3, <1>7 DEF Sessions, OneIssuer, Unused
<1> QED
  BY <1>5, <1>6, <1>8 DEF Sessions

LEMMA SameTokensFade == ASSUME token' = token PROVE TokensFade
BY DEF TokensFade, Unused

LEMMA DeleteFades == ASSUME Typed, NEW s \in Slots, CommitDelete(s) PROVE TokensFade
<1>1. \A t \in Tokens : /\ token'[t].session = token[t].session
                        /\ token'[t].status \in {token[t].status, "gone"}
  BY DEF CommitDelete, Typed, Types, JTIs
<1> QED
  BY <1>1 DEF TokensFade, Unused

\* A password change marks tokens used, and tells apart what raced with it.
LEMMA PasswordTokens ==
    ASSUME Typed, NEW s \in Slots, CommitPassword(s), NEW t \in Tokens
    PROVE  /\ token'[t].user = token[t].user /\ token'[t].session = token[t].session
           /\ token'[t].pw = token[t].pw
           /\ token'[t].status = IF t \in req[s].marked THEN "used" ELSE token[t].status
           /\ token'[t].raced <=> token[t].raced
                                  \/ (token[t].user = req[s].user /\ t \notin req[s].seen)
<1> DEFINE b == token[t].raced \/ t \in TokensOf(req[s].user) \ req[s].seen
           x == IF t \in req[s].marked THEN "used" ELSE token[t].status
<1>1. token'[t] = [token[t] EXCEPT !.status = x, !.raced = b]
  BY DEF CommitPassword
<1>2. b \in BOOLEAN /\ token[t] \in JTIs
  BY DEF Typed, Types
<1>3. b <=> token[t].raced \/ (token[t].user = req[s].user /\ t \notin req[s].seen)
  <2>1. t \in TokensOf(req[s].user) \ req[s].seen
          <=> token[t].user = req[s].user /\ t \notin req[s].seen
    BY DEF TokensOf
  <2> QED
    BY <2>1
<1> HIDE DEF b, x
<1>4. /\ token'[t].user = token[t].user /\ token'[t].session = token[t].session
      /\ token'[t].pw = token[t].pw /\ token'[t].status = x
  BY <1>1, <1>2 DEF JTIs
<1>5. token'[t].raced = b
  BY <1>1, <1>2 DEF JTIs
<1> QED
  BY <1>3, <1>4, <1>5 DEF x

LEMMA CommitPasswordSessions ==
    ASSUME Typed, Sessions, Grown, NEW s \in Slots, CommitPassword(s) PROVE Sessions'
<1>1. TokensFade
  BY PasswordTokens DEF TokensFade, Unused
<1>2. req'[s] = Idle /\ \A o \in Slots \ {s} : SameBut(o)
  BY CommitPasswordRequests
<1>3. \A o \in Slots \ {s} : SessionKept(o)
  BY <1>2 DEF SameBut, SessionKept, Sessions, SessionIsRooted
<1>4. SessionKept(s)
  BY <1>2, SessionsOfOthers
<1> QED
  BY <1>1, <1>3, <1>4, SessionsKept

-----------------------------------------------------------------------------
(* Passwords. *)

\* An update under way holds every token its account had and could use.
MarkedSeen ==
    \A s \in Slots : req[s].pc = "commit" =>
        /\ req[s].marked \subseteq req[s].seen
        /\ \A t \in req[s].seen : /\ token[t].status # "none"
                                  /\ Unused(t) /\ token[t].user = req[s].user => t \in req[s].marked

\* A request that is going to issue a token does so under the password of now, unless it raced
\* with a change.
CurrentPassword ==
    \A s \in Slots : req[s].pc \in {"activate", "issue"} /\ ~req[s].raced =>
        req[s].pw = user[req[s].user].pw

Passwords == MarkedSeen /\ CurrentPassword /\ PasswordChangeRevokes

PasswordKept(o) ==
    /\ req'[o].pc = "commit" =>
         /\ req[o].pc = "commit" /\ req'[o].user = req[o].user
         /\ req'[o].marked = req[o].marked /\ req'[o].seen = req[o].seen
    /\ req'[o].pc \in {"activate", "issue"} =>
         /\ req[o].pc \in {"activate", "issue"} /\ req'[o].user = req[o].user
         /\ req'[o].pw = req[o].pw /\ req'[o].raced = req[o].raced

PasswordsStay == \A u \in Users : user[u].status # "none" => user'[u].pw = user[u].pw

TokensStay ==
    \A t \in Tokens : Unused(t)' =>
        /\ Unused(t)
        /\ token'[t].user = token[t].user /\ token'[t].pw = token[t].pw
        /\ token'[t].raced = token[t].raced

LEMMA MarkedSeenKept ==
    ASSUME Typed, Grown, MarkedSeen, TokensStay, NEW o \in Slots, PasswordKept(o),
           req'[o].pc = "commit"
    PROVE  /\ req'[o].marked \subseteq req'[o].seen
           /\ \A t \in req'[o].seen : /\ token'[t].status # "none"
                                      /\ Unused(t)' /\ token'[t].user = req'[o].user
                                           => t \in req'[o].marked
<1>1. req[o].seen \subseteq Tokens
  BY DEF Typed, Types, Requests
<1> QED
  BY <1>1 DEF MarkedSeen, PasswordKept, TokensStay, Grown

LEMMA CurrentPasswordKept ==
    ASSUME Typed, CurrentPassword, PasswordsStay, NEW o \in Slots, PasswordKept(o),
           req'[o].pc \in {"activate", "issue"}, ~req'[o].raced
    PROVE  req'[o].pw = user'[req'[o].user].pw
<1>1. req[o].user \in Users /\ user[req[o].user].status # "none"
  BY DEF Typed, Handler, PasswordKept
<1> QED
  BY <1>1 DEF CurrentPassword, PasswordKept, PasswordsStay

LEMMA RevokedKept ==
    ASSUME Typed, PasswordChangeRevokes, PasswordsStay, TokensStay PROVE PasswordChangeRevokes'
BY DEF PasswordChangeRevokes, Typed, TokenIsRooted, TokensStay, PasswordsStay, Unused

\* A step of s of which the others see nothing but tokens that end.
LEMMA PasswordsKept ==
    ASSUME Typed, Grown, Passwords, PasswordsStay, TokensStay, NEW s \in Slots,
           \A o \in Slots \ {s} : req'[o] = req[o],
           PasswordKept(s)
    PROVE  Passwords'
<1>1. \A o \in Slots : PasswordKept(o)
  BY DEF PasswordKept
<1>2. MarkedSeen'
  BY <1>1, MarkedSeenKept DEF Passwords, MarkedSeen
<1>3. CurrentPassword'
  BY <1>1, CurrentPasswordKept DEF Passwords, CurrentPassword
<1> QED
  BY <1>2, <1>3, RevokedKept DEF Passwords

LEMMA EndPasswords ==
    ASSUME Typed, Grown, Passwords, PasswordsStay, TokensStay, NEW s \in Slots, End(s)
    PROVE  Passwords'
<1>1. req'[s] = Idle /\ \A o \in Slots \ {s} : req'[o] = req[o]
  BY DEF End, Typed, Types
<1>2. PasswordKept(s)
  BY <1>1 DEF PasswordKept, Idle
<1> QED
  BY <1>1, <1>2, PasswordsKept

LEMMA GoPasswords ==
    ASSUME Typed, Grown, Passwords, PasswordsStay, TokensStay, NEW s \in Slots, NEW pc,
           GoesOn(s, pc), pc \notin {"activate", "issue", "commit"}
    PROVE  Passwords'
<1>1. PasswordKept(s)
  BY DEF GoesOn, PasswordKept
<1> QED
  BY <1>1, PasswordsKept DEF GoesOn

LEMMA UnchangedStay ==
    ASSUME UNCHANGED <<user, token>> PROVE PasswordsStay /\ TokensStay
BY DEF PasswordsStay, TokensStay, Unused

LEMMA ArrivePasswords ==
    ASSUME Typed, Grown, Passwords, NEW s \in Slots, NEW r, Arrival(r), Begin(s, r),
           UNCHANGED <<user, token, key, doc, quota>>
    PROVE  Passwords'
<1>1. req'[s] = r /\ \A o \in Slots \ {s} : req'[o] = req[o]
  BY BeginTyped DEF Arrival, Typed
<1>2. PasswordsStay /\ TokensStay
  BY UnchangedStay
<1>3. \A o \in Slots \ {s} : PasswordKept(o)
  BY <1>1 DEF PasswordKept
<1>4. MarkedSeen'
  BY <1>1, <1>2, <1>3, MarkedSeenKept DEF Arrival, Passwords, MarkedSeen
<1>5. CurrentPassword'
  BY <1>1, <1>2, <1>3, CurrentPasswordKept DEF Arrival, Passwords, CurrentPassword
<1> QED
  BY <1>2, <1>4, <1>5, RevokedKept DEF Passwords

\* A new account has the first password, and no token or request of another.
LEMMA InsertUserPasswords ==
    ASSUME Typed, Grown, Passwords, NEW s \in Slots, InsertUser(s) PROVE Passwords'
<1>1. PICK u \in Users :
         /\ user[u].status = "none"
         /\ user' = [user EXCEPT ![u] =
              [status |-> "live", email |-> req[s].email, pw |-> 1,
               role |-> IF req[s].first THEN "admin" ELSE "member"]]
         /\ GoesOn(s, req'[s].pc) /\ req'[s].pc \in {"issue", "activate"}
         /\ req'[s].user = u /\ req'[s].pw = 1
  BY InsertUserGoes
<1>2. user'[u].pw = 1 /\ PasswordsStay
  BY <1>1 DEF Typed, Types, PasswordsStay
<1>3. TokensStay
  BY DEF InsertUser, TokensStay, Unused
<1>4. \A o \in Slots \ {s} : PasswordKept(o)
  BY <1>1 DEF GoesOn, PasswordKept
<1>5. MarkedSeen'
  BY <1>1, <1>3, <1>4, MarkedSeenKept DEF Passwords, MarkedSeen
<1>6. CurrentPassword'
  BY <1>1, <1>2, <1>4, CurrentPasswordKept DEF Passwords, CurrentPassword
<1> QED
  BY <1>2, <1>3, <1>5, <1>6, RevokedKept DEF Passwords

LEMMA ActivatePasswords ==
    ASSUME Typed, Grown, Passwords, NEW s \in Slots, ActivateMember(s) PROVE Passwords'
<1>1. /\ GoesOn(s, "issue") /\ req'[s].user = req[s].user
      /\ req'[s].pw = req[s].pw /\ req'[s].raced = req[s].raced
  BY GotoGoesOn DEF ActivateMember, Typed, PCs
<1>2. PasswordKept(s)
  BY <1>1 DEF ActivateMember, At, GoesOn, PasswordKept
<1>3. PasswordsStay /\ TokensStay
  BY UnchangedStay DEF ActivateMember
<1> QED
  BY <1>1, <1>2, <1>3, PasswordsKept DEF GoesOn

LEMMA ConsumePasswords ==
    ASSUME Typed, Grown, Passwords, NEW s \in Slots, Consume(s) PROVE Passwords'
<1> DEFINE t == req[s].token
<1>1. /\ t \in Tokens /\ token[t].status = "unused"
      /\ GoesOn(s, "issue") /\ req'[s].user = req[s].user
      /\ req'[s].pw = token[t].pw /\ req'[s].raced = token[t].raced
  BY ConsumeGoes
<1>2. token[t].user = req[s].user
  BY DEF Consume, At, Typed, Handler
<1>3. TokensStay
  BY <1>1 DEF Consume, Typed, Types, JTIs, TokensStay, Unused
<1>4. user' = user /\ PasswordsStay
  BY DEF Consume, PasswordsStay
<1>5. \A o \in Slots \ {s} : PasswordKept(o)
  BY <1>1 DEF GoesOn, PasswordKept
<1>6. MarkedSeen'
  BY <1>1, <1>3, <1>5, MarkedSeenKept DEF GoesOn, Passwords, MarkedSeen
<1>7. ~token[t].raced => token[t].pw = user[token[t].user].pw
  BY <1>1 DEF Passwords, PasswordChangeRevokes, Unused
<1>8. CurrentPassword'
  BY <1>1, <1>2, <1>4, <1>5, <1>7, CurrentPasswordKept DEF GoesOn, Passwords, CurrentPassword
<1> QED
  BY <1>3, <1>4, <1>6, <1>8, RevokedKept DEF Passwords

LEMMA MarkPasswords ==
    ASSUME Typed, Grown, Passwords, NEW s \in Slots, MarkTokens(s) PROVE Passwords'
<1>1. /\ GoesOn(s, "commit") /\ req'[s].user = req[s].user
      /\ req'[s].marked = {t \in Tokens : token[t].user = req[s].user /\ token[t].status = "unused"}
      /\ req'[s].seen = {t \in Tokens : token[t].status # "none"}
  BY MarkGoes
<1>2. PasswordsStay /\ TokensStay /\ token' = token
  BY UnchangedStay DEF MarkTokens
<1>3. \A o \in Slots \ {s} : PasswordKept(o)
  BY <1>1 DEF GoesOn, PasswordKept
<1>4. MarkedSeen'
  BY <1>1, <1>2, <1>3, MarkedSeenKept DEF GoesOn, Passwords, MarkedSeen, Unused
<1>5. CurrentPassword'
  BY <1>1, <1>2, <1>3, CurrentPasswordKept DEF GoesOn, Passwords, CurrentPassword
<1> QED
  BY <1>2, <1>4, <1>5, RevokedKept DEF Passwords

\* A token that is issued while an update is under way is not among those it holds.
LEMMA IssuePasswords ==
    ASSUME Typed, Grown, Passwords, NEW s \in Slots, Issue(s) PROVE Passwords'
<1>1. PICK t \in Tokens :
         /\ token[t].status = "none"
         /\ \A o \in Tokens \ {t} : token'[o] = token[o]
         /\ token'[t].status = "unused" /\ token'[t].user = req[s].user
         /\ token'[t].pw = req[s].pw /\ token'[t].raced = req[s].raced
  BY Issued
<1>2. /\ req'[s].pc = "idle" /\ user' = user
      /\ \A o \in Slots \ {s} : req'[o] = req[o]
  BY DEF Issue, End, Idle, Typed, Types
<1>3. MarkedSeen'
  <2>1. \A o \in Slots : req[o].seen \subseteq Tokens
    BY DEF Typed, Types, Requests
  <2> QED
    BY <1>1, <1>2, <2>1 DEF Passwords, MarkedSeen, Unused
<1>4. CurrentPassword'
  BY <1>2 DEF Passwords, CurrentPassword
<1>5. PasswordChangeRevokes'
  BY <1>1, <1>2 DEF Issue, Passwords, CurrentPassword, PasswordChangeRevokes, Unused
<1> QED
  BY <1>3, <1>4, <1>5 DEF Passwords

\* The tokens of the account are marked, or were issued since; its requests have raced.
LEMMA CommitPasswordPasswords ==
    ASSUME Typed, Grown, Passwords, NEW s \in Slots, CommitPassword(s) PROVE Passwords'
<1> DEFINE u == req[s].user
<1>1. u \in Users /\ req[s].pc = "commit" /\ req[s].seen \subseteq Tokens
  BY DEF CommitPassword, At, Typed, Types, Handler, Requests
<1>2. \A x \in Users \ {u} : user'[x].pw = user[x].pw
  BY <1>1 DEF CommitPassword, Typed, Types, Accounts
<1>3. req'[s] = Idle /\ \A o \in Slots \ {s} : SameBut(o)
  BY CommitPasswordRequests
<1>4. \A o \in Slots \ {s} : req'[o].raced <=> req[o].raced \/ Races(s, o)
  BY CommitPasswordRequests
<1>5. \A t \in Tokens : /\ token'[t].user = token[t].user /\ token'[t].pw = token[t].pw
                        /\ Unused(t)' => Unused(t) /\ t \notin req[s].marked
                        /\ token'[t].raced <=> token[t].raced
                                               \/ (token[t].user = u /\ t \notin req[s].seen)
  BY PasswordTokens DEF Unused
<1>6. PasswordChangeRevokes'
  <2> SUFFICES ASSUME NEW t \in Tokens, Unused(t)', ~token'[t].raced
               PROVE  token'[t].pw = user'[token'[t].user].pw
    BY DEF PasswordChangeRevokes
  <2>1. Unused(t) /\ t \notin req[s].marked /\ ~token[t].raced /\ token[t].user \in Users
    BY <1>5 DEF Typed, TokenIsRooted, Unused
  <2>2. token[t].user # u
    BY <1>1, <1>5, <2>1 DEF Passwords, MarkedSeen
  <2>3. token[t].pw = user[token[t].user].pw
    BY <2>1 DEF Passwords, PasswordChangeRevokes
  <2> QED
    BY <1>2, <1>5, <2>1, <2>2, <2>3
<1>7. CurrentPassword'
  <2> SUFFICES ASSUME NEW o \in Slots, req'[o].pc \in {"activate", "issue"}, ~req'[o].raced
               PROVE  req'[o].pw = user'[req'[o].user].pw
    BY DEF CurrentPassword
  <2>1. o # s
    BY <1>3 DEF Idle
  <2>2. /\ req[o].pc \in {"activate", "issue"} /\ req'[o].user = req[o].user
        /\ req'[o].pw = req[o].pw
    BY <1>3, <2>1 DEF SameBut
  <2>3. ~req[o].raced /\ req[o].user # u
    BY <1>4, <2>1, <2>2 DEF Races
  <2>4. req[o].user \in Users
    BY <2>2 DEF Typed, Handler
  <2>5. req[o].pw = user[req[o].user].pw
    BY <2>2, <2>3 DEF Passwords, CurrentPassword
  <2> QED
    BY <1>2, <2>2, <2>3, <2>4, <2>5
<1>8. MarkedSeen'
  <2> SUFFICES ASSUME NEW o \in Slots, req'[o].pc = "commit"
               PROVE  /\ req'[o].marked \subseteq req'[o].seen
                      /\ \A t \in req'[o].seen :
                           /\ token'[t].status # "none"
                           /\ Unused(t)' /\ token'[t].user = req'[o].user => t \in req'[o].marked
    BY DEF MarkedSeen
  <2>1. o # s
    BY <1>3 DEF Idle
  <2>2. /\ req[o].pc = "commit" /\ req'[o].user = req[o].user
        /\ req'[o].marked = req[o].marked /\ req'[o].seen = req[o].seen
        /\ req[o].seen \subseteq Tokens
    BY <1>3, <2>1 DEF SameBut, Typed, Types, Requests
  <2> QED
    BY <1>5, <2>2 DEF Passwords, MarkedSeen, Grown
<1> QED
  BY <1>6, <1>7, <1>8 DEF Passwords

LEMMA CommitDeletePasswords ==
    ASSUME Typed, Grown, Passwords, NEW s \in Slots, CommitDelete(s) PROVE Passwords'
<1>1. \A t \in Tokens : /\ token'[t].user = token[t].user /\ token'[t].pw = token[t].pw
                        /\ token'[t].raced = token[t].raced
                        /\ token'[t].status \in {token[t].status, "gone"}
  BY DEF CommitDelete, Typed, Types, JTIs
<1>2. TokensStay
  BY <1>1 DEF TokensStay, Unused
<1>3. req[s].user \in Users
  BY DEF CommitDelete, At, Typed, Handler
<1>4. PasswordsStay
  BY <1>3 DEF CommitDelete, Typed, Types, Accounts, PasswordsStay
<1> QED
  BY <1>2, <1>4, EndPasswords DEF CommitDelete

LEMMA CommitEmailPasswords ==
    ASSUME Typed, Grown, Passwords, NEW s \in Slots, CommitEmail(s) PROVE Passwords'
<1>1. req[s].user \in Users
  BY DEF CommitEmail, At, Typed, Handler
<1>2. PasswordsStay
  BY <1>1 DEF CommitEmail, Typed, Types, Accounts, PasswordsStay
<1>3. TokensStay
  BY DEF CommitEmail, TokensStay, Unused
<1> QED
  BY <1>2, <1>3, EndPasswords DEF CommitEmail

-----------------------------------------------------------------------------
(* Calls of dead keys. *)

DeadCall(s) ==
    req[s].dead =>
        /\ req[s].kind = "call" /\ req[s].pc \notin {"idle", "count", "log"}
        /\ key[req[s].key].status # "live"
        /\ req[s].pc = "check" => req[s].row.status # "live"

DeadCalls == \A s \in Slots : DeadCall(s)

\* No key comes back to life.
KeysFade ==
    \A k \in Keys : key[k].status \notin {"none", "live"} => key'[k].status \notin {"none", "live"}

LEMMA DeadCallKept ==
    ASSUME Typed, DeadCalls, KeysFade, NEW o \in Slots,
           req'[o].dead = req[o].dead, req'[o].kind = req[o].kind, req'[o].key = req[o].key,
           req'[o].dead => req'[o].pc \notin {"idle", "count", "log"},
           req'[o].dead /\ req'[o].pc = "check" => req'[o].row.status # "live"
    PROVE  DeadCall(o)'
BY DEF DeadCalls, DeadCall, KeysFade, Typed, Handler

LEMMA DeadCallsOfOthers ==
    ASSUME Typed, DeadCalls, KeysFade, NEW o \in Slots, req'[o] = req[o] \/ req'[o] = Idle
    PROVE  DeadCall(o)'
<1>1. CASE req'[o] = Idle
  BY <1>1 DEF DeadCall, Idle
<1>2. CASE req'[o] = req[o]
  BY <1>2, DeadCallKept DEF DeadCalls, DeadCall
<1> QED
  BY <1>1, <1>2

LEMMA EndDeadCalls ==
    ASSUME Typed, DeadCalls, KeysFade, NEW s \in Slots, End(s) PROVE DeadCalls'
<1>1. \A o \in Slots : req'[o] = req[o] \/ req'[o] = Idle
  BY DEF End, Typed, Types
<1> QED
  BY <1>1, DeadCallsOfOthers DEF DeadCalls

LEMMA GoDeadCalls ==
    ASSUME Typed, DeadCalls, KeysFade, NEW s \in Slots, NEW pc, GoesOn(s, pc),
           req[s].dead => pc \notin {"idle", "count", "log"},
           req[s].dead /\ pc = "check" => req'[s].row.status # "live"
    PROVE  DeadCalls'
<1>1. DeadCall(s)'
  BY DeadCallKept DEF GoesOn
<1> QED
  BY <1>1, DeadCallsOfOthers DEF GoesOn, DeadCalls

LEMMA SameKeysFade == ASSUME key' = key PROVE KeysFade
BY DEF KeysFade

LEMMA ArriveDeadCalls ==
    ASSUME Typed, DeadCalls, NEW s \in Slots, NEW r, Arrival(r), Begin(s, r),
           UNCHANGED <<user, token, key, doc, quota>>
    PROVE  DeadCalls'
<1>1. req'[s] = r /\ \A o \in Slots \ {s} : req'[o] = req[o]
  BY BeginTyped DEF Arrival, Typed
<1>2. DeadCall(s)'
  BY <1>1 DEF Arrival, DeadCall
<1> QED
  BY <1>1, <1>2, DeadCallsOfOthers, SameKeysFade DEF DeadCalls

\* What a call of a dead key reads is not a live row.
LEMMA ReadDeadCalls ==
    ASSUME Typed, DeadCalls, NEW s \in Slots, ReadRow(s) \/ Scan(s) PROVE DeadCalls'
<1> DEFINE k == req[s].key
<1>1. k \in Keys
  BY DEF ReadRow, Scan, At, Typed, Handler
<1>2. KeysFade
  BY SameKeysFade DEF ReadRow, Scan
<1>3. CASE key[k].status # "gone"
  <2>1. req' = [req EXCEPT ![s] = [req[s] EXCEPT !.pc = "check", !.row = key[k]]]
    BY <1>3 DEF ReadRow, Scan
  <2>2. GoesOn(s, "check") /\ req'[s].row = key[k]
    BY <1>1, <2>1, ReadGoes
  <2>3. req[s].dead => key[k].status # "live"
    BY DEF DeadCalls, DeadCall
  <2> QED
    BY <1>2, <2>2, <2>3, GoDeadCalls
<1>4. CASE key[k].status = "gone" /\ ReadRow(s)
  <2>1. GoesOn(s, "scan")
    BY <1>4, GotoGoesOn DEF ReadRow, Typed, PCs
  <2> QED
    BY <1>2, <2>1, GoDeadCalls
<1>5. CASE key[k].status = "gone" /\ Scan(s)
  BY <1>2, <1>5, EndDeadCalls DEF Scan
<1> QED
  BY <1>3, <1>4, <1>5

LEMMA ValidateDeadCalls ==
    ASSUME Typed, DeadCalls, NEW s \in Slots, Validate(s) PROVE DeadCalls'
<1>1. GoesOn(s, "count")
  BY GotoGoesOn DEF Validate, Typed, PCs
<1>2. ~req[s].dead
  BY DEF Validate, At, Valid, DeadCalls, DeadCall
<1> QED
  BY <1>1, <1>2, GoDeadCalls, SameKeysFade DEF Validate

LEMMA AdmitDeadCalls ==
    ASSUME Typed, DeadCalls, NEW s \in Slots, Admit(s) PROVE DeadCalls'
<1>1. GoesOn(s, "log")
  BY GotoGoesOn DEF Admit, Typed, PCs
<1>2. ~req[s].dead
  BY DEF Admit, At, DeadCalls, DeadCall
<1> QED
  BY <1>1, <1>2, GoDeadCalls, SameKeysFade DEF Admit

\* The steps that end keys, or make one.
LEMMA KeysAreMarked ==
    ASSUME Typed, NEW s \in Slots,
           CommitDelete(s) \/ CommitPurge(s) \/ InsertKey(s) \/ CommitRevoke(s)
    PROVE  KeysFade
<1>1. CASE CommitDelete(s) \/ CommitPurge(s)
  <2>1. \A k \in Keys : key'[k].status \in {key[k].status, "gone"}
    BY <1>1 DEF CommitDelete, CommitPurge, Typed, Types, APIKeys
  <2> QED
    BY <2>1 DEF KeysFade
<1>2. CASE InsertKey(s)
  BY <1>2 DEF InsertKey, Typed, Types, KeysFade
<1>3. CASE CommitRevoke(s)
  <2>1. \A k \in Keys : key'[k].status \in {key[k].status, "revoked"}
    BY <1>3 DEF CommitRevoke, Typed, Types, APIKeys
  <2> QED
    BY <2>1 DEF KeysFade
<1> QED
  BY <1>1, <1>2, <1>3

LEMMA ExpireFades == ASSUME Typed, NEW k \in Keys, ExpireKey(k) PROVE KeysFade
<1>1. \A o \in Keys : key'[o].status \in {key[o].status, "expired"}
  BY DEF ExpireKey, Typed, Types, APIKeys
<1> QED
  BY <1>1 DEF KeysFade

-----------------------------------------------------------------------------
(* Every step. *)

Secure == Typed /\ Sessions /\ Passwords /\ DeadCalls

LEMMA InitSecure == Init => Secure
<1> SUFFICES ASSUME Init PROVE Secure
  OBVIOUS
<1>1. PICK w \in Worlds : user = w.user /\ token = w.token /\ key = w.key /\ doc = w.doc
  BY DEF Init
<1>2. GoodWorld(w)
  BY WorldsAssumption
<1>3. req = [s \in Slots |-> Idle] /\ quota = [p \in Projects |-> NoUse] /\ begun = 0
  BY DEF Init
<1>4. Types
  BY <1>1, <1>2, <1>3, IdleTyped, AccountsAssumption DEF GoodWorld, Types, Quotas, NoUse
<1>5. \A s \in Slots : Handler(s)
  BY <1>3 DEF Handler, Idle
<1>6. TokenIsRooted
  BY <1>1, <1>2 DEF GoodWorld, TokenIsRooted
<1>7. KeyHasProject /\ UserHasEmail
  BY <1>1, <1>2 DEF GoodWorld, KeyHasProject, UserHasEmail, NoKey
<1>8. OneTokenPerSession /\ PasswordChangeRevokes
  BY <1>1, <1>2 DEF GoodWorld, OneTokenPerSession, PasswordChangeRevokes, Unused
<1>9. SessionIsRooted /\ OneIssuer /\ MarkedSeen /\ CurrentPassword /\ DeadCalls
  BY <1>3, AccountsAssumption DEF SessionIsRooted, OneIssuer, MarkedSeen, CurrentPassword,
                                  DeadCalls, DeadCall, Idle
<1> QED
  BY <1>4, <1>5, <1>6, <1>7, <1>8, <1>9 DEF Secure, Typed, Sessions, Passwords

LEMMA ArriveSecure == ASSUME Secure, NEW s \in Slots, Arrive(s) PROVE Secure' /\ Grown
<1>1. PICK r : Arrival(r) /\ Begin(s, r) /\ UNCHANGED <<user, token, key, doc, quota>>
  BY ArriveIs DEF Secure
<1> QED
  BY <1>1, ArriveTyped, ArriveSessions, ArrivePasswords, ArriveDeadCalls DEF Secure

LEMMA SessionStepSecure == ASSUME Secure, NEW s \in Slots, SessionStep(s) PROVE Secure' /\ Grown
<1> USE DEF Secure
<1>1. CASE InsertUser(s)
  <2>1. PICK u \in Users : /\ GoesOn(s, req'[s].pc) /\ req'[s].pc \in {"issue", "activate"}
                           /\ req'[s].session = req[s].session
    BY <1>1, InsertUserGoes
  <2>2. Typed' /\ Grown
    BY <1>1, InsertUserTyped
  <2>3. UNCHANGED <<token, key>> /\ req[s].pc = "insert"
    BY <1>1 DEF InsertUser, At
  <2>4. Sessions'
    BY <2>1, <2>2, <2>3, SameTokensFade, GoSessions
  <2>5. DeadCalls'
    BY <2>1, <2>2, <2>3, SameKeysFade, GoDeadCalls
  <2> QED
    BY <1>1, <2>2, <2>4, <2>5, InsertUserPasswords
<1>2. CASE ActivateMember(s)
  <2>1. GoesOn(s, "issue") /\ req'[s].session = req[s].session
    BY <1>2, GotoGoesOn DEF ActivateMember, Typed, PCs
  <2>2. UNCHANGED <<token, key>> /\ req[s].pc = "activate"
    BY <1>2 DEF ActivateMember, At
  <2>3. Typed' /\ Grown
    BY <1>2, ActivateTyped
  <2>4. Sessions' /\ DeadCalls'
    BY <2>1, <2>2, <2>3, SameTokensFade, GoSessions, SameKeysFade, GoDeadCalls
  <2> QED
    BY <1>2, <2>3, <2>4, ActivatePasswords
<1>3. CASE Consume(s)
  <2>1. GoesOn(s, "issue")
    BY <1>3, ConsumeGoes
  <2>2. DeadCalls'
    BY <1>3, <2>1, SameKeysFade, GoDeadCalls DEF Consume
  <2> QED
    BY <1>3, <2>2, ConsumeTyped, ConsumeSessions, ConsumePasswords
<1>4. CASE Issue(s)
  <2>1. Typed' /\ Grown
    BY <1>4, IssueTyped DEF Issue, Sessions, SessionIsRooted
  <2>2. DeadCalls'
    BY <1>4, SameKeysFade, EndDeadCalls DEF Issue
  <2> QED
    BY <1>4, <2>1, <2>2, IssueSessions, IssuePasswords
<1>5. CASE MarkTokens(s)
  <2>1. GoesOn(s, "commit") /\ req'[s].session = req[s].session
    BY <1>5, MarkGoes
  <2>2. UNCHANGED <<token, key>> /\ req[s].pc = "mark"
    BY <1>5 DEF MarkTokens, At
  <2>3. Typed' /\ Grown
    BY <1>5, MarkTyped
  <2>4. Sessions' /\ DeadCalls'
    BY <2>1, <2>2, <2>3, SameTokensFade, GoSessions, SameKeysFade, GoDeadCalls
  <2> QED
    BY <1>5, <2>3, <2>4, MarkPasswords
<1>6. CASE CommitPassword(s)
  <2>1. \A t \in req[s].marked : token[t].status # "none"
    BY <1>6 DEF CommitPassword, At, Passwords, MarkedSeen
  <2>2. Typed' /\ Grown
    BY <1>6, <2>1, CommitPasswordTyped
  <2>3. req'[s] = Idle /\ \A o \in Slots \ {s} : SameBut(o)
    BY <1>6, CommitPasswordRequests
  <2>4. KeysFade
    BY <1>6, SameKeysFade DEF CommitPassword
  <2>5. \A o \in Slots \ {s} : DeadCall(o)'
    BY <2>3, <2>4, DeadCallKept DEF SameBut, DeadCalls, DeadCall
  <2>6. DeadCalls'
    BY <2>3, <2>4, <2>5, DeadCallsOfOthers DEF DeadCalls
  <2> QED
    BY <1>6, <2>2, <2>6, CommitPasswordSessions, CommitPasswordPasswords
<1>7. CASE CommitDelete(s)
  <2>1. End(s)
    BY <1>7 DEF CommitDelete
  <2>2. Typed' /\ Grown
    BY <1>7, CommitDeleteTyped
  <2>3. Sessions'
    BY <1>7, <2>1, <2>2, DeleteFades, EndSessions
  <2>4. DeadCalls'
    BY <1>7, <2>1, KeysAreMarked, EndDeadCalls
  <2> QED
    BY <1>7, <2>2, <2>3, <2>4, CommitDeletePasswords
<1>8. CASE CommitEmail(s)
  <2>1. End(s) /\ token' = token /\ key' = key
    BY <1>8 DEF CommitEmail
  <2>2. Typed' /\ Grown
    BY <1>8, CommitEmailTyped
  <2>3. Sessions' /\ DeadCalls'
    BY <2>1, <2>2, SameTokensFade, EndSessions, SameKeysFade, EndDeadCalls
  <2> QED
    BY <1>8, <2>2, <2>3, CommitEmailPasswords
<1>9. CASE Ending(s)
  BY <1>9, EndingIs, EndingTyped, SameTokensFade, EndSessions, UnchangedStay, EndPasswords,
     SameKeysFade, EndDeadCalls
<1> QED
  BY <1>1, <1>2, <1>3, <1>4, <1>5, <1>6, <1>7, <1>8, <1>9 DEF SessionStep, Ending

LEMMA KeyStepSecure == ASSUME Secure, NEW s \in Slots, KeyStep(s) PROVE Secure' /\ Grown
<1> USE DEF Secure
<1>1. CASE WriteMembers(s)
  <2>1. End(s) /\ UNCHANGED <<user, token, key>>
    BY <1>1 DEF WriteMembers
  <2> QED
    BY <1>1, <2>1, WriteMembersTyped, SameTokensFade, EndSessions, UnchangedStay, EndPasswords,
       SameKeysFade, EndDeadCalls
<1>2. CASE CommitPurge(s)
  <2>1. End(s) /\ UNCHANGED <<user, token>>
    BY <1>2 DEF CommitPurge
  <2> QED
    BY <1>2, <2>1, CommitPurgeTyped, SameTokensFade, EndSessions, UnchangedStay, EndPasswords,
       KeysAreMarked, EndDeadCalls
<1>3. CASE InsertKey(s)
  <2>1. End(s) /\ UNCHANGED <<user, token>>
    BY <1>3 DEF InsertKey
  <2> QED
    BY <1>3, <2>1, InsertKeyTyped, SameTokensFade, EndSessions, UnchangedStay, EndPasswords,
       KeysAreMarked, EndDeadCalls
<1>4. CASE CommitRevoke(s)
  <2>1. GoesOn(s, "forget") /\ req'[s].session = req[s].session
    BY <1>4, GotoGoesOn DEF CommitRevoke, Typed, PCs
  <2>2. UNCHANGED <<user, token>> /\ req[s].pc = "revoke"
    BY <1>4 DEF CommitRevoke, At
  <2>3. Typed' /\ Grown
    BY <1>4, CommitRevokeTyped
  <2>4. Sessions'
    BY <2>1, <2>2, <2>3, SameTokensFade, GoSessions
  <2>5. Passwords'
    BY <2>1, <2>2, <2>3, UnchangedStay, GoPasswords
  <2>6. DeadCalls'
    BY <1>4, <2>1, KeysAreMarked, GoDeadCalls
  <2> QED
    BY <2>3, <2>4, <2>5, <2>6
<1>5. CASE Ending(s)
  BY <1>5, EndingIs, EndingTyped, SameTokensFade, EndSessions, UnchangedStay, EndPasswords,
     SameKeysFade, EndDeadCalls
<1> QED
  BY <1>1, <1>2, <1>3, <1>4, <1>5 DEF KeyStep, Ending

LEMMA CallStepSecure == ASSUME Secure, NEW s \in Slots, CallStep(s) PROVE Secure' /\ Grown
<1> USE DEF Secure
<1>1. CASE ReadRow(s) \/ Scan(s)
  <2>1. Typed' /\ Grown
    BY <1>1, ReadTyped
  <2>2. DeadCalls'
    BY <1>1, ReadDeadCalls
  <2>3. UNCHANGED <<user, token>> /\ req[s].pc \in {"row", "scan"} /\ req[s].key \in Keys
    BY <1>1 DEF ReadRow, Scan, At, Typed, Handler
  <2>4. TokensFade /\ PasswordsStay /\ TokensStay
    BY <2>3, SameTokensFade, UnchangedStay
  <2>5. CASE key[req[s].key].status # "gone"
    <3>1. req' = [req EXCEPT ![s] = [req[s] EXCEPT !.pc = "check", !.row = key[req[s].key]]]
      BY <1>1, <2>5 DEF ReadRow, Scan
    <3>2. GoesOn(s, "check") /\ req'[s].session = req[s].session
      BY <2>3, <3>1, ReadGoes
    <3> QED
      BY <2>1, <2>2, <2>3, <2>4, <3>2, GoSessions, GoPasswords
  <2>6. CASE key[req[s].key].status = "gone" /\ ReadRow(s)
    <3>1. GoesOn(s, "scan") /\ req'[s].session = req[s].session
      BY <2>6, GotoGoesOn DEF ReadRow, Typed, PCs
    <3> QED
      BY <2>1, <2>2, <2>3, <2>4, <3>1, GoSessions, GoPasswords
  <2>7. CASE key[req[s].key].status = "gone" /\ Scan(s)
    BY <2>1, <2>2, <2>4, <2>7, EndSessions, EndPasswords DEF Scan
  <2> QED
    BY <1>1, <2>5, <2>6, <2>7
<1>2. CASE Validate(s)
  <2>1. GoesOn(s, "count") /\ req'[s].session = req[s].session
    BY <1>2, GotoGoesOn DEF Validate, Typed, PCs
  <2>2. UNCHANGED <<user, token>> /\ req[s].pc = "check"
    BY <1>2 DEF Validate, At
  <2> QED
    BY <1>2, <2>1, <2>2, ValidateTyped, ValidateDeadCalls, SameTokensFade, GoSessions,
       UnchangedStay, GoPasswords
<1>3. CASE Admit(s)
  <2>1. GoesOn(s, "log") /\ req'[s].session = req[s].session
    BY <1>3, GotoGoesOn DEF Admit, Typed, PCs
  <2>2. UNCHANGED <<user, token>> /\ req[s].pc = "count"
    BY <1>3 DEF Admit, At
  <2> QED
    BY <1>3, <2>1, <2>2, AdmitTyped, AdmitDeadCalls, SameTokensFade, GoSessions,
       UnchangedStay, GoPasswords
<1>4. CASE Log(s)
  <2>1. End(s) /\ UNCHANGED <<user, token, key>>
    BY <1>4 DEF Log
  <2> QED
    BY <1>4, <2>1, LogTyped, SameTokensFade, EndSessions, UnchangedStay, EndPasswords,
       SameKeysFade, EndDeadCalls
<1>5. CASE Ending(s)
  BY <1>5, EndingIs, EndingTyped, SameTokensFade, EndSessions, UnchangedStay, EndPasswords,
     SameKeysFade, EndDeadCalls
<1> QED
  BY <1>1, <1>2, <1>3, <1>4, <1>5 DEF CallStep, Ending

\* No request is part of it.
LEMMA OutsideSecure ==
    ASSUME Secure, Typed', Grown, KeysFade, UNCHANGED <<user, token, req>> PROVE Secure'
<1>1. Sessions'
  BY SameTokensFade, SessionsOfOthers, SessionsKept DEF Secure
<1>2. Passwords'
  BY DEF Secure, Passwords, MarkedSeen, CurrentPassword, PasswordChangeRevokes, Unused
<1>3. DeadCalls'
  BY DeadCallsOfOthers DEF Secure, DeadCalls
<1> QED
  BY <1>1, <1>2, <1>3 DEF Secure

LEMMA NextSecure == Secure /\ [Next]_vars => Secure'
<1> SUFFICES ASSUME Secure, [Next]_vars PROVE Secure'
  OBVIOUS
<1>1. CASE \E s \in Slots : Arrive(s) \/ SessionStep(s) \/ KeyStep(s) \/ CallStep(s)
  BY <1>1, ArriveSecure, SessionStepSecure, KeyStepSecure, CallStepSecure
<1>2. CASE \E k \in Keys : ExpireKey(k)
  BY <1>2, ExpireTyped, ExpireFades, OutsideSecure DEF Secure, ExpireKey
<1>3. CASE NewPeriod
  BY <1>3, NewPeriodTyped, SameKeysFade, OutsideSecure DEF Secure, NewPeriod
<1>4. CASE UNCHANGED vars
  <2>1. RowsTyped
    BY <1>4, SameRowsTyped DEF vars, Secure
  <2>2. Typed' /\ Grown
    BY <1>4, <2>1, OutsideTyped DEF vars, Secure
  <2> QED
    BY <1>4, <2>2, SameKeysFade, OutsideSecure DEF vars
<1> QED
  BY <1>1, <1>2, <1>3, <1>4 DEF Next

LEMMA SpecSecure == Spec => []Secure
BY InitSecure, NextSecure, PTL DEF Spec

\* However many requests present a refresh token at the same time, one of them goes on with its
\* session: no two usable tokens are ever of one session.
THEOREM OneTokenPerSessionThm == Spec => []OneTokenPerSession
<1>1. Secure => OneTokenPerSession
  BY DEF Secure, Sessions
<1> QED
  BY <1>1, SpecSecure, PTL

\* A password change leaves no usable token of its account that was issued under an old password,
\* but for those of requests that it overtook.
THEOREM PasswordChangeRevokesThm == Spec => []PasswordChangeRevokes
<1>1. Secure => PasswordChangeRevokes
  BY DEF Secure, Passwords
<1> QED
  BY <1>1, SpecSecure, PTL

\* A call whose key was dead when it arrived is never counted against a quota nor logged as
\* admitted, whatever a process has cached.
THEOREM DeadKeyIsRejectedThm == Spec => []DeadKeyIsRejected
<1>1. Secure => DeadKeyIsRejected
  BY DEF Secure, DeadCalls, DeadCall, DeadKeyIsRejected
<1> QED
  BY <1>1, SpecSecure, PTL

-----------------------------------------------------------------------------
(* Request quotas. *)

\* The calls of a project that have been admitted and not logged.
InLog(p) == {s \in Slots : req[s].pc = "log" /\ key[req[s].key].project = p}

CallsAreCounted ==
    \A p \in Projects : quota[p].admitted <= quota[p].logged + quota[p].lost + Cardinality(InLog(p))

Counted == CallsAreCounted /\ QuotaOvershoot

LEMMA InLogFinite ==
    ASSUME NEW p
    PROVE  IsFiniteSet(InLog(p)) /\ Cardinality(InLog(p)) \in Nat
           /\ IsFiniteSet(Slots) /\ Cardinality(Slots) \in Nat
<1>1. InLog(p) \subseteq Slots
  BY DEF InLog
<1> QED
  BY <1>1, AccountsAssumption, FS_Subset, FS_CardinalityType

\* A step that admits no call and logs none.
LEMMA CountedKept ==
    ASSUME Typed, Grown, Counted,
           \A o \in Slots : req'[o].pc = "log" <=> req[o].pc = "log",
           \A o \in Slots : req[o].pc = "log" => req'[o].key = req[o].key,
           \A p \in Projects : quota'[p] = quota[p] \/ quota'[p] = NoUse
    PROVE  Counted'
<1>1. ASSUME NEW p \in Projects PROVE InLog(p)' = InLog(p)
  <2>1. \A o \in Slots : req[o].pc = "log" =>
          key'[req'[o].key].project = key[req[o].key].project
    BY DEF Typed, Handler, Grown
  <2> QED
    BY <2>1 DEF InLog
<1>2. CallsAreCounted'
  <2> SUFFICES ASSUME NEW p \in Projects
               PROVE  quota'[p].admitted <= quota'[p].logged + quota'[p].lost
                                            + Cardinality(InLog(p)')
    BY DEF CallsAreCounted
  <2>1. Cardinality(InLog(p)) \in Nat
    BY InLogFinite
  <2> QED
    BY <1>1, <2>1 DEF Counted, CallsAreCounted, NoUse
<1>3. QuotaOvershoot'
  <2>1. Cardinality(Slots) \in Nat
    BY InLogFinite
  <2> QED
    BY <2>1, AccountsAssumption DEF Counted, QuotaOvershoot, NoUse
<1> QED
  BY <1>2, <1>3 DEF Counted

LEMMA EndCounted ==
    ASSUME Typed, Grown, Counted, NEW s \in Slots, End(s), req[s].pc # "log",
           \A p \in Projects : quota'[p] = quota[p] \/ quota'[p] = NoUse
    PROVE  Counted'
<1>1. \A o \in Slots : req'[o] = IF o = s THEN Idle ELSE req[o]
  BY DEF End, Typed, Types
<1>2. req'[s].pc # "log"
  BY <1>1 DEF Idle
<1> QED
  BY <1>1, <1>2, CountedKept

LEMMA GoCounted ==
    ASSUME Typed, Grown, Counted, NEW s \in Slots, NEW pc, GoesOn(s, pc), req[s].pc # "log",
           pc # "log", quota' = quota
    PROVE  Counted'
BY CountedKept DEF GoesOn

\* The limit is compared with the logs: those under way are of the other requests.
LEMMA AdmitCounted ==
    ASSUME Typed, Grown, Counted, NEW s \in Slots, Admit(s) PROVE Counted'
<1>1. PICK p \in Projects : p = key[req[s].key].project
  BY DEF Admit, At, Typed, Handler, KeyHasProject
<1>0. req[s].pc = "count" /\ key' = key
  BY DEF Admit, At
<1>2. GoesOn(s, "log")
  BY GotoGoesOn DEF Admit, Typed, PCs
<1>3. /\ quota'[p].admitted = quota[p].admitted + 1
      /\ quota'[p].logged = quota[p].logged /\ quota'[p].lost = quota[p].lost
      /\ \A o \in Projects \ {p} : quota'[o] = quota[o]
      /\ quota[p].logged + 1 <= Limit
  BY <1>0, <1>1 DEF Admit, Fits, Typed, Types, Quotas
<1>4. InLog(p)' = InLog(p) \cup {s} /\ s \notin InLog(p)
  BY <1>0, <1>1, <1>2 DEF InLog, GoesOn
<1>5. Cardinality(InLog(p)') = Cardinality(InLog(p)) + 1
  BY <1>4, InLogFinite, FS_AddElement
<1>6. \A o \in Projects \ {p} : InLog(o)' = InLog(o)
  BY <1>0, <1>1, <1>2 DEF InLog, GoesOn
<1>7. Cardinality(InLog(p)) <= Cardinality(Slots) - 1
  <2>1. InLog(p) \subseteq Slots \ {s}
    BY <1>4 DEF InLog
  <2>2. IsFiniteSet(Slots \ {s}) /\ Cardinality(Slots \ {s}) = Cardinality(Slots) - 1
    BY AccountsAssumption, FS_RemoveElement
  <2> QED
    BY <2>1, <2>2, FS_Subset
<1>8. \A o \in Projects : Cardinality(InLog(o)) \in Nat /\ Cardinality(Slots) \in Nat
  BY InLogFinite
<1>9. /\ quota[p].admitted \in Nat /\ quota[p].logged \in Nat /\ quota[p].lost \in Nat
      /\ Limit \in Nat
  BY <1>0, <1>1, AccountsAssumption DEF Typed, Types, Quotas
<1>10. quota[p].admitted <= quota[p].logged + quota[p].lost + Cardinality(InLog(p))
  BY <1>0, <1>1 DEF Counted, CallsAreCounted
<1>11. CallsAreCounted'
  <2> SUFFICES ASSUME NEW o \in Projects
               PROVE  quota'[o].admitted <= quota'[o].logged + quota'[o].lost
                                            + Cardinality(InLog(o)')
    BY DEF CallsAreCounted
  <2>1. CASE o = p
    BY <1>3, <1>5, <1>8, <1>9, <1>10, <2>1
  <2>2. CASE o # p
    BY <1>3, <1>6, <2>2 DEF Counted, CallsAreCounted
  <2> QED
    BY <2>1, <2>2
<1>12. QuotaOvershoot'
  <2> SUFFICES ASSUME NEW o \in Projects
               PROVE  quota'[o].admitted < Limit + Cardinality(Slots) + quota'[o].lost
    BY DEF QuotaOvershoot
  <2>1. CASE o = p
    BY <1>0, <1>1, <1>3, <1>7, <1>8, <1>9, <1>10, <2>1
  <2>2. CASE o # p
    BY <1>3, <2>2 DEF Counted, QuotaOvershoot
  <2> QED
    BY <2>1, <2>2
<1> QED
  BY <1>11, <1>12 DEF Counted

LEMMA LogCounted ==
    ASSUME Typed, Grown, Counted, NEW s \in Slots, Log(s) PROVE Counted'
<1>1. PICK p \in Projects : p = key[req[s].key].project
  BY DEF Log, At, Typed, Handler, KeyHasProject
<1>0. req[s].pc = "log" /\ key' = key
  BY DEF Log, At
<1>2. \A o \in Slots : req'[o] = IF o = s THEN Idle ELSE req[o]
  BY DEF Log, End, Typed, Types
<1>3. /\ quota'[p].admitted = quota[p].admitted
      /\ quota'[p].logged + quota'[p].lost = quota[p].logged + quota[p].lost + 1
      /\ quota'[p].lost \in {quota[p].lost, quota[p].lost + 1}
      /\ \A o \in Projects \ {p} : quota'[o] = quota[o]
  <2>1. quota[p] \in Quotas /\ quota \in [Projects -> Quotas]
    BY DEF Typed, Types
  <2>2. CASE quota' = [quota EXCEPT ![p].logged = @ + 1]
    BY <2>1, <2>2 DEF Quotas
  <2>3. CASE quota' = [quota EXCEPT ![p].lost = @ + 1]
    BY <2>1, <2>3 DEF Quotas
  <2> QED
    BY <1>1, <2>2, <2>3 DEF Log
<1>4. req'[s].pc # "log"
  BY <1>2 DEF Idle
<1>5. InLog(p)' = InLog(p) \ {s} /\ s \in InLog(p)
  BY <1>0, <1>1, <1>2, <1>4 DEF InLog
<1>6. Cardinality(InLog(p)') = Cardinality(InLog(p)) - 1
  BY <1>5, InLogFinite, FS_RemoveElement
<1>7. \A o \in Projects \ {p} : InLog(o)' = InLog(o)
  BY <1>0, <1>1, <1>2, <1>4 DEF InLog
<1>8. \A o \in Projects : Cardinality(InLog(o)) \in Nat /\ Cardinality(Slots) \in Nat
  BY InLogFinite
<1>9. /\ quota[p].admitted \in Nat /\ quota[p].logged \in Nat /\ quota[p].lost \in Nat
      /\ quota'[p].logged \in Nat /\ Limit \in Nat
  BY <1>0, <1>1, AccountsAssumption DEF Log, Typed, Types, Quotas
<1>10. CallsAreCounted'
  <2> SUFFICES ASSUME NEW o \in Projects
               PROVE  quota'[o].admitted <= quota'[o].logged + quota'[o].lost
                                            + Cardinality(InLog(o)')
    BY DEF CallsAreCounted
  <2>1. CASE o = p
    BY <1>0, <1>1, <1>3, <1>6, <1>8, <1>9, <2>1 DEF Counted, CallsAreCounted
  <2>2. CASE o # p
    BY <1>3, <1>7, <2>2 DEF Counted, CallsAreCounted
  <2> QED
    BY <2>1, <2>2
<1>11. QuotaOvershoot'
  <2> SUFFICES ASSUME NEW o \in Projects
               PROVE  quota'[o].admitted < Limit + Cardinality(Slots) + quota'[o].lost
    BY DEF QuotaOvershoot
  <2>1. CASE o = p
    BY <1>0, <1>1, <1>3, <1>8, <1>9, <2>1 DEF Counted, QuotaOvershoot
  <2>2. CASE o # p
    BY <1>3, <2>2 DEF Counted, QuotaOvershoot
  <2> QED
    BY <2>1, <2>2
<1> QED
  BY <1>10, <1>11 DEF Counted

LEMMA StepCounted ==
    ASSUME Typed, Counted, Grown, NEW s \in Slots,
           Arrive(s) \/ SessionStep(s) \/ KeyStep(s) \/ CallStep(s)
    PROVE  Counted'
<1>1. CASE Arrive(s)
  <2>1. PICK r : Arrival(r) /\ Begin(s, r) /\ quota' = quota
    BY <1>1, ArriveIs
  <2>2. req'[s] = r /\ \A o \in Slots \ {s} : req'[o] = req[o]
    BY <2>1, BeginTyped DEF Arrival, Typed
  <2> QED
    BY <2>1, <2>2, CountedKept DEF Begin, Arrival
<1>2. CASE InsertUser(s)
  <2>1. GoesOn(s, req'[s].pc) /\ req'[s].pc \in {"issue", "activate"}
    BY <1>2, InsertUserGoes
  <2> QED
    BY <1>2, <2>1, GoCounted DEF InsertUser, At
<1>3. CASE ActivateMember(s)
  BY <1>3, GotoGoesOn, GoCounted DEF ActivateMember, At, Typed, PCs
<1>4. CASE Consume(s)
  <2>1. GoesOn(s, "issue")
    BY <1>4, ConsumeGoes
  <2> QED
    BY <1>4, <2>1, GoCounted DEF Consume, At
<1>5. CASE MarkTokens(s)
  BY <1>5, MarkGoes, GoCounted DEF MarkTokens, At
<1>6. CASE CommitPassword(s)
  <2>1. req'[s] = Idle /\ \A o \in Slots \ {s} : SameBut(o)
    BY <1>6, CommitPasswordRequests
  <2>2. req[s].pc = "commit" /\ quota' = quota
    BY <1>6 DEF CommitPassword, At
  <2> QED
    BY <2>1, <2>2, CountedKept DEF SameBut, Idle
<1>7. CASE Issue(s) \/ CommitDelete(s) \/ CommitEmail(s) \/ WriteMembers(s) \/ InsertKey(s)
  BY <1>7, EndCounted DEF Issue, CommitDelete, CommitEmail, WriteMembers, InsertKey, At
<1>8. CASE CommitPurge(s)
  <2>1. \A p \in Projects : quota'[p] = quota[p] \/ quota'[p] = NoUse
    BY <1>8 DEF CommitPurge, Typed, Types
  <2> QED
    BY <1>8, <2>1, EndCounted DEF CommitPurge, At
<1>9. CASE CommitRevoke(s)
  BY <1>9, GotoGoesOn, GoCounted DEF CommitRevoke, At, Typed, PCs
<1>10. CASE ReadRow(s) \/ Scan(s)
  <2>1. quota' = quota /\ req[s].pc \in {"row", "scan"} /\ req[s].key \in Keys
    BY <1>10 DEF ReadRow, Scan, At, Typed, Handler
  <2>2. CASE key[req[s].key].status # "gone"
    <3>1. req' = [req EXCEPT ![s] = [req[s] EXCEPT !.pc = "check", !.row = key[req[s].key]]]
      BY <1>10, <2>2 DEF ReadRow, Scan
    <3>2. GoesOn(s, "check")
      BY <2>1, <3>1, ReadGoes
    <3> QED
      BY <2>1, <3>2, GoCounted
  <2>3. CASE key[req[s].key].status = "gone" /\ ReadRow(s)
    BY <2>1, <2>3, GotoGoesOn, GoCounted DEF ReadRow, Typed, PCs
  <2>4. CASE key[req[s].key].status = "gone" /\ Scan(s)
    BY <2>1, <2>4, EndCounted DEF Scan
  <2> QED
    BY <1>10, <2>2, <2>3, <2>4
<1>11. CASE Validate(s)
  BY <1>11, GotoGoesOn, GoCounted DEF Validate, At, Typed, PCs
<1>12. CASE Admit(s)
  BY <1>12, AdmitCounted
<1>13. CASE Log(s)
  BY <1>13, LogCounted
<1>14. CASE Ending(s)
  <2>1. req[s].pc # "log"
    BY <1>14 DEF Ending, EmailInUse, NoLongerValid, IssueFails, PasswordFails, InsertKeyFails,
                 RevokeFails, ForgetRevoked, ValidateFails, Refuse, QuotaExceeded, At
  <2> QED
    BY <1>14, <2>1, EndingIs, EndCounted
<1> QED
  BY <1>1, <1>2, <1>3, <1>4, <1>5, <1>6, <1>7, <1>8, <1>9, <1>10, <1>11, <1>12, <1>13, <1>14
  DEF SessionStep, KeyStep, CallStep, Ending

LEMMA CountedInit == Init => Counted
<1> SUFFICES ASSUME Init PROVE Counted
  OBVIOUS
<1>1. /\ \A s \in Slots : req[s].pc = "idle"
      /\ \A p \in Projects : quota[p] = NoUse
  BY DEF Init, Idle
<1>2. CallsAreCounted
  <2>1. \A p \in Projects : Cardinality(InLog(p)) \in Nat
    BY InLogFinite
  <2> QED
    BY <1>1, <2>1 DEF CallsAreCounted, NoUse
<1>3. QuotaOvershoot
  <2>1. Cardinality(Slots) \in Nat
    BY InLogFinite
  <2> QED
    BY <1>1, <2>1, AccountsAssumption DEF QuotaOvershoot, NoUse
<1> QED
  BY <1>2, <1>3 DEF Counted

LEMMA NextCounted == Secure /\ Counted /\ [Next]_vars => Counted'
<1> SUFFICES ASSUME Secure, Counted, [Next]_vars PROVE Counted'
  OBVIOUS
<1>1. CASE \E s \in Slots : Arrive(s) \/ SessionStep(s) \/ KeyStep(s) \/ CallStep(s)
  <2>1. PICK s \in Slots : Arrive(s) \/ SessionStep(s) \/ KeyStep(s) \/ CallStep(s)
    BY <1>1
  <2>2. Grown
    BY <2>1, ArriveSecure, SessionStepSecure, KeyStepSecure, CallStepSecure
  <2> QED
    BY <2>1, <2>2, StepCounted DEF Secure
<1>2. CASE \E k \in Keys : ExpireKey(k)
  BY <1>2, ExpireTyped, CountedKept DEF Secure, ExpireKey
<1>3. CASE NewPeriod
  <2>1. \A p \in Projects : quota'[p] = NoUse
    BY <1>3 DEF NewPeriod
  <2> QED
    BY <1>3, <2>1, NewPeriodTyped, CountedKept DEF Secure, NewPeriod
<1>4. CASE UNCHANGED vars
  BY <1>4 DEF vars, Counted, CallsAreCounted, QuotaOvershoot, InLog
<1> QED
  BY <1>1, <1>2, <1>3, <1>4 DEF Next

\* The calls that a limit lets through are at most those it has logged, those whose log is lost
\* and those of the other requests under way: fewer than a request per slot over the limit.
THEOREM QuotaOvershootThm == Spec => []QuotaOvershoot
<1>1. Secure /\ Counted /\ [Next]_vars => (Secure /\ Counted)'
  BY NextSecure, NextCounted
<1>2. Secure /\ Counted => QuotaOvershoot
  BY DEF Counted
<1> QED
  BY <1>1, <1>2, InitSecure, CountedInit, PTL DEF Spec

-----------------------------------------------------------------------------
(* The cache of a process. *)

LEMMA WithoutCache ==
    ASSUME NEW c, CacheOK(c), NEW k
    PROVE  CacheOK(Without(c, k)) /\ \A i \in DOMAIN Without(c, k) : Without(c, k)[i] # k
<1> DEFINE at == {i \in DOMAIN c : c[i] = k}
           n == Len(c)
<1>0. c \in Seq(Keys) /\ n \in Nat /\ n <= CacheLimit /\ DOMAIN c = 1..n /\ OncePerKey(c)
  BY DEF CacheOK
<1>1. CASE at = {}
  BY <1>0, <1>1 DEF Without
<1>2. CASE at # {}
  <2> DEFINE x == CHOOSE i \in at : TRUE
             d == SubSeq(c, 1, x - 1) \o SubSeq(c, x + 1, n)
  <2>1. x \in 1..n /\ c[x] = k
    BY <1>0, <1>2
  <2>2. Without(c, k) = d
    BY <1>2 DEF Without
  <2> HIDE DEF x
  <2>3. /\ SubSeq(c, 1, x - 1) \in Seq(Keys) /\ Len(SubSeq(c, 1, x - 1)) = x - 1
        /\ \A i \in 1..(x - 1) : SubSeq(c, 1, x - 1)[i] = c[i]
    <3>1. \A i \in 1..(x - 1) : c[i] \in Keys
      BY <1>0, <2>1
    <3>2. 1 \in Int /\ x - 1 \in Int
      BY <1>0, <2>1
    <3> QED
      BY <1>0, <2>1, <3>1, <3>2, SubSeqProperties, SMT
  <2>4. /\ SubSeq(c, x + 1, n) \in Seq(Keys) /\ Len(SubSeq(c, x + 1, n)) = n - x
        /\ \A i \in 1..(n - x) : SubSeq(c, x + 1, n)[i] = c[x + i]
    <3>1. \A i \in (x + 1)..n : c[i] \in Keys
      BY <1>0, <2>1
    <3>2. x + 1 \in Int /\ n \in Int
      BY <1>0, <2>1
    <3>3. /\ SubSeq(c, x + 1, n) \in Seq(Keys)
          /\ Len(SubSeq(c, x + 1, n)) = IF x + 1 <= n THEN n - (x + 1) + 1 ELSE 0
          /\ \A i \in 1..(n - (x + 1) + 1) : SubSeq(c, x + 1, n)[i] = c[(x + 1) + i - 1]
      BY <3>1, <3>2, SubSeqProperties
    <3>4. n - (x + 1) + 1 = n - x /\ \A i \in 1..(n - x) : (x + 1) + i - 1 = x + i
      BY <1>0, <2>1
    <3>5. Len(SubSeq(c, x + 1, n)) = n - x
      <4>1. (IF x + 1 <= n THEN n - (x + 1) + 1 ELSE 0) = n - x
        <5> HIDE DEF n
        <5> QED
          BY <1>0, <2>1
      <4> QED
        BY <3>3, <4>1
    <3> QED
      BY <3>3, <3>4, <3>5
  <2> DEFINE l == SubSeq(c, 1, x - 1)
             r == SubSeq(c, x + 1, n)
  <2>5. d = l \o r
    OBVIOUS
  <2> HIDE DEF d, l, r
  <2>6. l \in Seq(Keys) /\ Len(l) = x - 1 /\ \A i \in 1..(x - 1) : l[i] = c[i]
    BY <2>3 DEF l
  <2>7. r \in Seq(Keys) /\ Len(r) = n - x /\ \A i \in 1..(n - x) : r[i] = c[x + i]
    BY <2>4 DEF r
  <2>8. /\ d \in Seq(Keys) /\ Len(d) = Len(l) + Len(r)
        /\ \A i \in 1..(Len(l) + Len(r)) : d[i] = IF i <= Len(l) THEN l[i] ELSE r[i - Len(l)]
    BY <2>5, <2>6, <2>7, ConcatProperties
  <2>9. d \in Seq(Keys) /\ Len(d) = n - 1
    BY <1>0, <2>1, <2>6, <2>7, <2>8
  <2>10. \A i \in 1..(n - 1) : d[i] = IF i < x THEN c[i] ELSE c[i + 1]
    <3> SUFFICES ASSUME NEW i \in 1..(n - 1) PROVE d[i] = IF i < x THEN c[i] ELSE c[i + 1]
      OBVIOUS
    <3>1. Len(l) = x - 1 /\ Len(l) + Len(r) = n - 1
      BY <1>0, <2>1, <2>6, <2>7
    <3>2. d[i] = IF i <= x - 1 THEN l[i] ELSE r[i - (x - 1)]
      BY <2>8, <3>1
    <3>3. CASE i < x
      <4>1. i \in 1..(x - 1) /\ i <= x - 1
        BY <1>0, <2>1, <3>3
      <4> QED
        BY <2>6, <3>3, <3>2, <4>1
    <3>4. CASE ~(i < x)
      <4>1. i - (x - 1) \in 1..(n - x) /\ x + (i - (x - 1)) = i + 1 /\ ~(i <= x - 1)
        BY <1>0, <2>1, <3>4
      <4>2. d[i] = r[i - (x - 1)]
        BY <3>2, <4>1
      <4> QED
        BY <2>7, <3>4, <4>1, <4>2
    <3> QED
      BY <3>3, <3>4
  <2>11. DOMAIN d = 1..(n - 1)
    BY <1>0, <2>1, <2>9
  <2>12. \A i, o \in 1..n : c[i] = c[o] => i = o
    BY <1>0 DEF OncePerKey
  <2>13. \A i \in DOMAIN d : d[i] # k
    BY <1>0, <2>1, <2>10, <2>11, <2>12
  <2>14. OncePerKey(d)
    BY <1>0, <2>1, <2>10, <2>11, <2>12 DEF OncePerKey
  <2> QED
    <3>1. Len(d) <= CacheLimit
      BY <1>0, <2>1, <2>9, AccountsAssumption
    <3> QED
      BY <2>2, <2>9, <2>13, <2>14, <3>1 DEF CacheOK
<1> QED
  BY <1>1, <1>2

LEMMA RememberedCache ==
    ASSUME NEW c, CacheOK(c), NEW k \in Keys PROVE CacheOK(Remembered(c, k))
<1> DEFINE w == Without(c, k)
           d == Append(w, k)
<1>1. CacheOK(w) /\ (\A i \in DOMAIN w : w[i] # k) /\ CacheLimit \in Nat \ {0}
  BY WithoutCache, AccountsAssumption
<1> HIDE DEF w
<1>2. /\ d \in Seq(Keys) /\ Len(d) = Len(w) + 1 /\ Len(w) \in Nat /\ Len(w) <= CacheLimit
      /\ DOMAIN d = 1..(Len(w) + 1) /\ DOMAIN w = 1..Len(w)
      /\ \A i \in 1..Len(w) : d[i] = w[i]
      /\ d[Len(w) + 1] = k
  BY <1>1 DEF CacheOK
<1>3. OncePerKey(d)
  BY <1>1, <1>2 DEF CacheOK, OncePerKey
<1>4. Remembered(c, k) = IF Len(d) > CacheLimit THEN Tail(d) ELSE d
  BY DEF Remembered, w
<1> HIDE DEF d
<1>5. CASE Len(d) > CacheLimit
  <2>1. Tail(d) \in Seq(Keys) /\ Len(Tail(d)) = Len(w) /\ DOMAIN Tail(d) = 1..Len(w)
        /\ \A i \in 1..Len(w) : Tail(d)[i] = d[i + 1]
    BY <1>2
  <2>2. OncePerKey(Tail(d))
    BY <1>2, <1>3, <2>1 DEF OncePerKey
  <2> QED
    BY <1>2, <1>4, <1>5, <2>1, <2>2 DEF CacheOK
<1>6. CASE ~(Len(d) > CacheLimit)
  BY <1>1, <1>2, <1>3, <1>4, <1>6 DEF CacheOK
<1> QED
  BY <1>5, <1>6

Caches == cache \in [Procs -> Seq(Keys)] /\ \A p \in Procs : CacheOK(cache[p])

LEMMA CacheWritten ==
    ASSUME Caches, NEW p \in Procs, NEW k \in Keys, Remember(p, k) \/ Forget(p, k) PROVE Caches'
<1>1. PICK d : cache' = [cache EXCEPT ![p] = d] /\ CacheOK(d)
  <2>1. CacheOK(cache[p])
    BY DEF Caches
  <2>2. CacheOK(Remembered(cache[p], k)) /\ CacheOK(Without(cache[p], k))
    BY <2>1, RememberedCache, WithoutCache
  <2> QED
    BY <2>2 DEF Remember, Forget
<1>2. d \in Seq(Keys)
  BY <1>1 DEF CacheOK
<1> QED
  BY <1>1, <1>2 DEF Caches

\* Only a call and a revocation touch it.
LEMMA StepCaches == Typed /\ Caches /\ [Next]_vars => Caches'
<1> SUFFICES ASSUME Typed, Caches, [Next]_vars PROVE Caches'
  OBVIOUS
<1>1. CASE UNCHANGED cache
  BY <1>1 DEF Caches
<1>2. ASSUME NEW s \in Slots, Arrive(s) PROVE Caches'
  <2>1. CASE \E k \in Keys, p \in Procs : Call(s, k, p)
    BY <1>1, <2>1, CacheWritten DEF Call
  <2>2. CASE ~ \E k \in Keys, p \in Procs : Call(s, k, p)
    BY <1>1, <1>2, <2>2 DEF Arrive, Register, Invite, Remove, Login, ChangePassword, DeleteAccount,
       ChangeEmail, Refresh, DeleteProject, CreateKey, RevokeKey
  <2> QED
    BY <2>1, <2>2
<1>3. ASSUME NEW s \in Slots, SessionStep(s) PROVE Caches'
  BY <1>1, <1>3 DEF SessionStep, InsertUser, EmailInUse, ActivateMember, Consume, NoLongerValid, Issue,
     IssueFails, MarkTokens, CommitPassword, PasswordFails, CommitDelete, CommitEmail
<1>4. ASSUME NEW s \in Slots, req[s].kind \in {"revoke", "call"}, req[s].pc # "idle"
      PROVE  req[s].key \in Keys /\ req[s].proc \in Procs
  BY <1>4 DEF Typed, Handler
<1>5. ASSUME NEW s \in Slots, KeyStep(s) PROVE Caches'
  <2>1. CASE ForgetRevoked(s)
    BY <1>4, <2>1, CacheWritten DEF ForgetRevoked, At
  <2>2. CASE ~ForgetRevoked(s)
    BY <1>1, <1>5, <2>2 DEF KeyStep, WriteMembers, CommitPurge, InsertKey, InsertKeyFails,
       CommitRevoke, RevokeFails
  <2> QED
    BY <2>1, <2>2
<1>6. ASSUME NEW s \in Slots, CallStep(s) PROVE Caches'
  <2>1. CASE ReadRow(s) \/ Scan(s) \/ Refuse(s)
    BY <1>1, <1>4, <2>1, CacheWritten DEF ReadRow, Scan, Refuse, At
  <2>2. CASE ~(ReadRow(s) \/ Scan(s) \/ Refuse(s))
    BY <1>1, <1>6, <2>2 DEF CallStep, Validate, ValidateFails, Admit, QuotaExceeded, Log
  <2> QED
    BY <2>1, <2>2
<1> QED
  BY <1>1, <1>2, <1>3, <1>5, <1>6 DEF Next, ExpireKey, NewPeriod, vars

\* TypeOK: rows, requests and counters are of shapes the code writes, and _api_key_cache has one
\* entry of a key and never more than its limit, in whatever order keys are verified and revoked.
THEOREM AccountsTypeCorrect == Spec => []TypeOK
<1>1. Init => Caches
  BY WorldsAssumption DEF Init, GoodWorld, Caches
<1>2. Secure /\ Caches => TypeOK
  BY DEF Secure, Typed, Types, Caches, TypeOK
<1>3. Secure /\ Caches /\ [Next]_vars => Caches'
  BY StepCaches DEF Secure
<1> QED
  BY <1>1, <1>2, <1>3, SpecSecure, PTL DEF Spec

=============================================================================
