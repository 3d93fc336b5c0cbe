------------------------------ MODULE Accounts ------------------------------
(* Accounts, refresh tokens, project keys and request quotas: the handlers of routers/auth.py    *)
(* and routers/api_keys.py, those of routers/settings.py that decide who may register and which  *)
(* keys live, and the calls a key authenticates. A handler is a request that goes through its    *)
(* database statements one at a time; requests of one or of several processes interleave.        *)
(* The workspace document is one row, read whole and written back whole.                         *)
EXTENDS Naturals, FiniteSets, Sequences

CONSTANTS
    Slots,        \* requests that may be under way at a time, until their log is written
    Procs,        \* server processes
    Users,        \* account ids
    Emails,
    Tokens,       \* ids of refresh tokens
    Keys,         \* project API keys
    Projects,
    Default,      \* DEFAULT_PROJECT_ID
    Limit,        \* of the hard api_requests policy of a project
    CacheLimit,   \* _API_KEY_CACHE_LIMIT
    Worlds,       \* the databases an instance may start from
    MaxRequests,  \* bound on the requests that begin
    None          \* no user, email, token, key or project

ASSUME AccountsAssumption ==
    /\ IsFiniteSet(Slots) /\ IsFiniteSet(Tokens)
    /\ Default \in Projects
    /\ Limit \in Nat \ {0} /\ CacheLimit \in Nat \ {0} /\ MaxRequests \in Nat
    /\ None \notin Procs \cup Users \cup Emails \cup Tokens \cup Keys \cup Projects

VARIABLES
    user,     \* the rows of users, with the number of password changes
    token,    \* the rows of refresh_token_jtis; session and pw are who first logged in, and how
    key,      \* the rows of api_keys
    doc,      \* the workspace document: its projects, and who is invited or an active member
    cache,    \* _api_key_cache of each process, the oldest entry first
    req,      \* the requests under way
    quota,    \* calls of a key in the period: admitted, logged, and those whose log was lost
    begun     \* requests that have begun

vars == <<user, token, key, doc, cache, req, quota, begun>>

Accounts == [status : {"none", "live", "gone"}, email : Emails \cup {None},
             role : {"admin", "member"}, pw : Nat]
JTIs == [status : {"none", "unused", "used", "gone"}, user : Users \cup {None},
         session : Tokens \cup {None}, pw : Nat, raced : BOOLEAN]
APIKeys == [status : {"none", "live", "revoked", "expired", "gone"},
            project : Projects \cup {None}, owner : Users \cup {None}]
Documents == [projects : SUBSET Projects, members : [Emails -> {"none", "invited", "active"}]]

Kinds == {"register", "login", "refresh", "password", "delete", "create", "revoke",
          "edit", "rename", "purge", "call"}
PCs == {"idle", "insert", "activate", "consume", "issue", "mark", "commit", "write", "revoke",
        "forget", "row", "scan", "check", "count", "log"}

Requests ==
    [kind : Kinds, pc : PCs, proc : Procs \cup {None},
     user : Users \cup {None}, email : Emails \cup {None},
     token : Tokens \cup {None}, key : Keys \cup {None}, project : Projects \cup {None},
     row : APIKeys,               \* the api_keys row a call has read
     doc : Documents,             \* the document a handler is going to write
     first : BOOLEAN,             \* user_count was 0
     session : Tokens \cup {None}, pw : Nat,    \* of the token it is going to issue
     marked : SUBSET Tokens,      \* the rows its update has locked
     seen : SUBSET Tokens,        \* the tokens there were at that time
     raced : BOOLEAN,             \* a password change of its user has committed meanwhile
     dead : BOOLEAN]              \* its key was not good when it arrived

Quotas == [admitted : Nat, logged : Nat, lost : Nat]

\* A cache is an OrderedDict: it has one entry of a key.
OncePerKey(c) == \A i, o \in DOMAIN c : c[i] = c[o] => i = o
CacheOK(c) == c \in Seq(Keys) /\ Len(c) <= CacheLimit /\ OncePerKey(c)

TypeOK ==
    /\ user \in [Users -> Accounts]
    /\ token \in [Tokens -> JTIs]
    /\ key \in [Keys -> APIKeys]
    /\ doc \in Documents
    /\ cache \in [Procs -> Seq(Keys)] /\ \A p \in Procs : CacheOK(cache[p])
    /\ req \in [Slots -> Requests]
    /\ quota \in [Projects -> Quotas]
    /\ begun \in 0..MaxRequests

NoKey == [status |-> "none", project |-> None, owner |-> None]
NoDoc == [projects |-> {}, members |-> [e \in Emails |-> "none"]]
NoUse == [admitted |-> 0, logged |-> 0, lost |-> 0]

Idle == [kind |-> "call", pc |-> "idle", proc |-> None, user |-> None,
         email |-> None, token |-> None, key |-> None, project |-> None, row |-> NoKey,
         doc |-> NoDoc, first |-> FALSE, session |-> None, pw |-> 0, marked |-> {}, seen |-> {},
         raced |-> FALSE, dead |-> FALSE]

\* A database the server can start from: its sessions have one usable token each, issued under
\* the password of now.
GoodWorld(w) ==
    /\ w.user \in [Users -> Accounts] /\ w.token \in [Tokens -> JTIs]
    /\ w.key \in [Keys -> APIKeys] /\ w.doc \in Documents
    /\ \A c \in w.cache : c \in [Procs -> Seq(Keys)] /\ \A p \in Procs : CacheOK(c[p])
    /\ \A u \in Users : w.user[u].status # "none" => w.user[u].email \in Emails
    /\ \A k \in Keys : w.key[k].status # "none" => w.key[k].project \in Projects
    /\ \A k \in Keys : w.key[k].status = "none" => w.key[k] = NoKey
    /\ \A t \in Tokens : w.token[t].status = "none" => w.token[t].user = None
    /\ \A t \in Tokens : w.token[t].status # "none" =>
         /\ w.token[t].user \in Users /\ w.user[w.token[t].user].status # "none"
         /\ w.token[t].session \in Tokens /\ w.token[w.token[t].session].status # "none"
    /\ \A t \in Tokens : w.token[t].status = "unused" =>
         /\ w.token[t].pw = w.user[w.token[t].user].pw
         /\ \A o \in Tokens : w.token[o].status = "unused"
                              /\ w.token[o].session = w.token[t].session => o = t

ASSUME WorldsAssumption == \A w \in Worlds : GoodWorld(w)

Init ==
    /\ \E w \in Worlds : user = w.user /\ token = w.token /\ key = w.key /\ doc = w.doc
                         /\ cache \in w.cache
    /\ req = [s \in Slots |-> Idle]
    /\ quota = [p \in Projects |-> NoUse]
    /\ begun = 0

-----------------------------------------------------------------------------
Live(u) == user[u].status = "live"
Unused(t) == token[t].status = "unused"
Unlocked(T) == \A s \in Slots : req[s].pc = "commit" => req[s].marked \cap T = {}
TokensOf(u) == {t \in Tokens : token[t].user = u}

\* A live account that _ensure_org_write or _require_project_role lets in.
MayManage(u) ==
    Live(u) /\ (user[u].role = "admin" \/ doc.members[user[u].email] = "active")

Begin(s, r) ==
    /\ req[s].pc = "idle" /\ begun < MaxRequests
    /\ begun' = begun + 1
    /\ req' = [req EXCEPT ![s] = r]

At(s, kind, pc) == req[s].kind = kind /\ req[s].pc = pc
Goto(s, pc) == req' = [req EXCEPT ![s].pc = pc]
End(s) == req' = [req EXCEPT ![s] = Idle]

-----------------------------------------------------------------------------
(* POST /auth/register, /auth/login, /auth/refresh: what ends in a refresh token. *)

Activated(d, e) ==
    [d EXCEPT !.members[e] = IF @ = "none" THEN @ ELSE "active"]

Register(s, e) ==
    LET first == \A u \in Users : ~Live(u)
    IN  /\ first \/ doc.members[e] = "invited"
        /\ Begin(s, [Idle EXCEPT !.kind = "register", !.pc = "insert", !.email = e,
                                 !.first = first, !.doc = Activated(doc, e)])
        /\ UNCHANGED <<user, token, key, doc, cache, quota>>

\* The email is unique.
InsertUser(s) ==
    LET e == req[s].email
    IN  /\ At(s, "register", "insert")
        /\ \A u \in Users : Live(u) => user[u].email # e
        /\ \E u \in Users :
             /\ user[u].status = "none"
             /\ user' = [user EXCEPT ![u] =
                  [status |-> "live", email |-> e, pw |-> 1,
                   role |-> IF req[s].first THEN "admin" ELSE "member"]]
             /\ req' = [req EXCEPT ![s] = [@ EXCEPT !.user = u, !.pw = 1,
                  !.pc = IF req[s].first THEN "issue" ELSE "activate"]]
        /\ UNCHANGED <<token, key, doc, cache, quota, begun>>

EmailInUse(s) ==
    /\ At(s, "register", "insert")
    /\ \E u \in Users : Live(u) /\ user[u].email = req[s].email
    /\ End(s)
    /\ UNCHANGED <<user, token, key, doc, cache, quota, begun>>

ActivateMember(s) ==
    /\ At(s, "register", "activate")
    /\ doc' = req[s].doc
    /\ Goto(s, "issue")
    /\ UNCHANGED <<user, token, key, cache, quota, begun>>

Login(s, u) ==
    /\ Live(u)
    /\ Begin(s, [Idle EXCEPT !.kind = "login", !.pc = "issue", !.user = u, !.pw = user[u].pw])
    /\ UNCHANGED <<user, token, key, doc, cache, quota>>

Refresh(s, t) ==
    /\ token[t].status # "none" /\ token[t].user \in Users /\ Live(token[t].user)
    /\ Begin(s, [Idle EXCEPT !.kind = "refresh", !.pc = "consume", !.token = t,
                             !.user = token[t].user])
    /\ UNCHANGED <<user, token, key, doc, cache, quota>>

\* Mutant of Consumable: the update does not look at used_at.
Existing(t) == token[t].status \in {"unused", "used"}
Consumable(t) == token[t].status = "unused"

\* consume_refresh_jti: one conditional update, which waits for the row.
Consume(s) ==
    LET t == req[s].token
    IN  /\ At(s, "refresh", "consume")
        /\ Consumable(t) /\ Unlocked({t})
        /\ token' = [token EXCEPT ![t].status = "used"]
        /\ req' = [req EXCEPT ![s] = [@ EXCEPT !.pc = "issue", !.session = token[t].session,
                                               !.pw = token[t].pw, !.raced = token[t].raced]]
        /\ UNCHANGED <<user, key, doc, cache, quota, begun>>

NoLongerValid(s) ==
    /\ At(s, "refresh", "consume")
    /\ ~Consumable(req[s].token)
    /\ End(s)
    /\ UNCHANGED <<user, token, key, doc, cache, quota, begun>>

\* create_refresh_token; the foreign key needs the account.
Issue(s) ==
    /\ req[s].pc = "issue" /\ Live(req[s].user)
    /\ \E t \in Tokens :
         /\ token[t].status = "none"
         /\ token' = [token EXCEPT ![t] =
              [status |-> "unused", user |-> req[s].user, pw |-> req[s].pw, raced |-> req[s].raced,
               session |-> IF req[s].session = None THEN t ELSE req[s].session]]
    /\ End(s)
    /\ UNCHANGED <<user, key, doc, cache, quota, begun>>

IssueFails(s) ==
    /\ req[s].pc = "issue" /\ ~Live(req[s].user)
    /\ End(s)
    /\ UNCHANGED <<user, token, key, doc, cache, quota, begun>>

-----------------------------------------------------------------------------
(* POST /auth/change-password, DELETE /auth/me. *)

\* The current password is verified against the row the request was authenticated with.
ChangePassword(s, u) ==
    /\ Live(u)
    /\ Begin(s, [Idle EXCEPT !.kind = "password", !.pc = "mark", !.user = u])
    /\ UNCHANGED <<user, token, key, doc, cache, quota>>

\* Mutant of Outstanding: the tokens are left to expire.
OutstandingNone(u) == {}
Outstanding(u) == {t \in TokensOf(u) : Unused(t)}

\* The update of the tokens locks their rows; nobody else sees it before the commit.
MarkTokens(s) ==
    LET u == req[s].user
    IN  /\ At(s, "password", "mark")
        /\ Unlocked(TokensOf(u))
        /\ req' = [req EXCEPT ![s] = [@ EXCEPT !.pc = "commit", !.marked = Outstanding(u),
                  !.seen = {t \in Tokens : token[t].status # "none"}]]
        /\ UNCHANGED <<user, token, key, doc, cache, quota, begun>>

\* Races(s, r): the request r has verified a password or consumed a token, and issues later.
Races(s, r) == req[r].user = req[s].user /\ req[r].pc \in {"activate", "issue"}

CommitPassword(s) ==
    LET u == req[s].user
        late == TokensOf(u) \ req[s].seen
    IN  /\ At(s, "password", "commit") /\ Live(u)
        /\ user' = [user EXCEPT ![u].pw = @ + 1]
        /\ token' = [t \in Tokens |->
             [token[t] EXCEPT !.status = IF t \in req[s].marked THEN "used" ELSE @,
                              !.raced = @ \/ t \in late]]
        /\ req' = [r \in Slots |->
             IF r = s THEN Idle
             ELSE [req[r] EXCEPT !.raced = @ \/ Races(s, r)]]
        /\ UNCHANGED <<key, doc, cache, quota, begun>>

PasswordFails(s) ==
    /\ At(s, "password", "commit") /\ ~Live(req[s].user)
    /\ End(s)
    /\ UNCHANGED <<user, token, key, doc, cache, quota, begun>>

DeleteAccount(s, u) ==
    /\ Live(u)
    /\ Begin(s, [Idle EXCEPT !.kind = "delete", !.pc = "write", !.user = u,
                             !.doc = [doc EXCEPT !.members[user[u].email] = "none"]])
    /\ UNCHANGED <<user, token, key, doc, cache, quota>>

\* One transaction; the tokens and keys of the account go with it.
CommitDelete(s) ==
    LET u == req[s].user
    IN  /\ At(s, "delete", "write")
        /\ Unlocked(TokensOf(u))
        /\ doc' = req[s].doc
        /\ user' = [user EXCEPT ![u].status = "gone"]
        /\ token' = [t \in Tokens |-> IF token[t].user = u THEN [token[t] EXCEPT !.status = "gone"]
                                      ELSE token[t]]
        /\ key' = [k \in Keys |-> IF key[k].owner = u THEN [key[k] EXCEPT !.status = "gone"]
                                  ELSE key[k]]
        /\ End(s)
        /\ UNCHANGED <<cache, quota, begun>>

\* replace_member_email: of two entries of one email the first of the list stays.
Renamed(d, old, new) ==
    IF d.members[old] = "none" THEN {d}
    ELSE {[d EXCEPT !.members[old] = "none", !.members[new] = m] :
             m \in {d.members[old], d.members[new]} \ {"none"}}

\* PATCH /auth/me with a new email.
ChangeEmail(s, u, e) ==
    /\ Live(u) /\ user[u].email # e
    /\ \A o \in Users : Live(o) => user[o].email # e
    /\ \E d \in Renamed(doc, user[u].email, e) :
         Begin(s, [Idle EXCEPT !.kind = "rename", !.pc = "write", !.user = u, !.email = e,
                               !.doc = d])
    /\ UNCHANGED <<user, token, key, doc, cache, quota>>

\* The document and the row in one transaction; nothing of it when the email has been taken.
CommitEmail(s) ==
    LET u == req[s].user
        e == req[s].email
    IN  /\ At(s, "rename", "write")
        /\ IF Live(u) /\ \A o \in Users : Live(o) => user[o].email # e
           THEN /\ doc' = req[s].doc
                /\ user' = [user EXCEPT ![u].email = e]
           ELSE UNCHANGED <<doc, user>>
        /\ End(s)
        /\ UNCHANGED <<token, key, cache, quota, begun>>

-----------------------------------------------------------------------------
(* The workspace document and the keys of its projects. *)

Invited(d, e) ==
    [d EXCEPT !.members[e] =
        IF \E u \in Users : Live(u) /\ user[u].email = e THEN "active" ELSE "invited"]
Removed(d, e) == [d EXCEPT !.members[e] = "none"]

Invite(s, e) ==
    /\ \E u \in Users : MayManage(u)
    /\ Begin(s, [Idle EXCEPT !.kind = "edit", !.pc = "write", !.doc = Invited(doc, e)])
    /\ UNCHANGED <<user, token, key, doc, cache, quota>>

\* Nobody removes himself.
Remove(s, e) ==
    /\ \E u \in Users : MayManage(u) /\ user[u].email # e
    /\ Begin(s, [Idle EXCEPT !.kind = "edit", !.pc = "write", !.doc = Removed(doc, e)])
    /\ UNCHANGED <<user, token, key, doc, cache, quota>>

WriteMembers(s) ==
    /\ At(s, "edit", "write")
    /\ doc' = req[s].doc
    /\ End(s)
    /\ UNCHANGED <<user, token, key, cache, quota, begun>>

\* The memories of the project are deleted between the reading of the document and its writing.
DeleteProject(s, p) ==
    /\ p \in doc.projects \ {Default}
    /\ \E u \in Users : MayManage(u)
    /\ Begin(s, [Idle EXCEPT !.kind = "purge", !.pc = "write", !.project = p,
                             !.doc = [doc EXCEPT !.projects = @ \ {p}]])
    /\ UNCHANGED <<user, token, key, doc, cache, quota>>

CommitPurge(s) ==
    LET p == req[s].project
    IN  /\ At(s, "purge", "write")
        /\ doc' = req[s].doc
        /\ key' = [k \in Keys |-> IF key[k].project = p THEN [key[k] EXCEPT !.status = "gone"]
                                  ELSE key[k]]
        /\ quota' = [quota EXCEPT ![p] = NoUse]
        /\ End(s)
        /\ UNCHANGED <<user, token, cache, begun>>

CreateKey(s, u, p) ==
    /\ MayManage(u) /\ p \in doc.projects
    /\ Begin(s, [Idle EXCEPT !.kind = "create", !.pc = "insert", !.user = u, !.project = p])
    /\ UNCHANGED <<user, token, key, doc, cache, quota>>

InsertKey(s) ==
    /\ At(s, "create", "insert") /\ Live(req[s].user)
    /\ \E k \in Keys :
         /\ key[k].status = "none"
         /\ key' = [key EXCEPT ![k] =
              [status |-> "live", project |-> req[s].project, owner |-> req[s].user]]
    /\ End(s)
    /\ UNCHANGED <<user, token, doc, cache, quota, begun>>

InsertKeyFails(s) ==
    /\ At(s, "create", "insert") /\ ~Live(req[s].user)
    /\ End(s)
    /\ UNCHANGED <<user, token, key, doc, cache, quota, begun>>

RevokeKey(s, k, p) ==
    /\ key[k].status \in {"live", "expired"} /\ key[k].project \in doc.projects
    /\ \E u \in Users : MayManage(u)
    /\ Begin(s, [Idle EXCEPT !.kind = "revoke", !.pc = "revoke", !.key = k, !.proc = p])
    /\ UNCHANGED <<user, token, key, doc, cache, quota>>

CommitRevoke(s) ==
    LET k == req[s].key
    IN  /\ At(s, "revoke", "revoke") /\ key[k].status # "gone"
        /\ key' = [key EXCEPT ![k].status = "revoked"]
        /\ Goto(s, "forget")
        /\ UNCHANGED <<user, token, doc, cache, quota, begun>>

RevokeFails(s) ==
    /\ At(s, "revoke", "revoke") /\ key[req[s].key].status = "gone"
    /\ End(s)
    /\ UNCHANGED <<user, token, key, doc, cache, quota, begun>>

ExpireKey(k) ==
    /\ key[k].status = "live"
    /\ key' = [key EXCEPT ![k].status = "expired"]
    /\ UNCHANGED <<user, token, doc, cache, req, quota, begun>>

-----------------------------------------------------------------------------
(* The verified-key cache of a process. *)

Cached(p, k) == \E i \in DOMAIN cache[p] : cache[p][i] = k
\* pop of the stale fingerprints: a key has one fingerprint, so one entry at most.
Without(c, k) ==
    LET at == {i \in DOMAIN c : c[i] = k}
    IN  IF at = {} THEN c
        ELSE LET e == CHOOSE i \in at : TRUE IN SubSeq(c, 1, e - 1) \o SubSeq(c, e + 1, Len(c))

\* Mutant of Remembered: the oldest entry stays.
RememberedToo(c, k) == Append(Without(c, k), k)
\* move_to_end, and popitem over the limit.
Remembered(c, k) ==
    LET d == Append(Without(c, k), k)
    IN  IF Len(d) > CacheLimit THEN Tail(d) ELSE d

Remember(p, k) == cache' = [cache EXCEPT ![p] = Remembered(@, k)]
Forget(p, k) == cache' = [cache EXCEPT ![p] = Without(@, k)]

\* The cache of the other processes keeps the key.
ForgetRevoked(s) ==
    /\ At(s, "revoke", "forget")
    /\ Forget(req[s].proc, req[s].key)
    /\ End(s)
    /\ UNCHANGED <<user, token, key, doc, quota, begun>>

-----------------------------------------------------------------------------
(* A memory write with a project key: _resolve_user_from_api_key, _validate_api_key,             *)
(* enforce_request_quotas, the handler, and its log.                                             *)

Call(s, k, p) ==
    /\ key[k].status # "none"
    /\ Begin(s, [Idle EXCEPT !.pc = IF Cached(p, k) THEN "row" ELSE "scan", !.key = k, !.proc = p,
                             !.dead = key[k].status # "live"])
    /\ IF Cached(p, k) THEN Remember(p, k) ELSE UNCHANGED cache
    /\ UNCHANGED <<user, token, key, doc, quota>>

\* Mutant of ReadRow: a cached key is taken for what it was when it was verified.
ReadRowFromCache(s) ==
    LET k == req[s].key
    IN  /\ At(s, "call", "row")
        /\ req' = [req EXCEPT ![s] = [@ EXCEPT !.pc = "check",
                                               !.row = [key[k] EXCEPT !.status = "live"]]]
        /\ UNCHANGED <<user, token, key, doc, cache, quota, begun>>

ReadRow(s) ==
    LET k == req[s].key
    IN  /\ At(s, "call", "row")
        /\ IF key[k].status # "gone"
           THEN /\ req' = [req EXCEPT ![s] = [@ EXCEPT !.pc = "check", !.row = key[k]]]
                /\ UNCHANGED cache
           ELSE /\ Goto(s, "scan")
                /\ Forget(req[s].proc, k)
        /\ UNCHANGED <<user, token, key, doc, quota, begun>>

\* The rows with the key's prefix, and the hash that verifies.
Scan(s) ==
    LET k == req[s].key
    IN  /\ At(s, "call", "scan")
        /\ IF key[k].status # "gone"
           THEN /\ req' = [req EXCEPT ![s] = [@ EXCEPT !.pc = "check", !.row = key[k]]]
                /\ Remember(req[s].proc, k)
           ELSE /\ End(s)
                /\ UNCHANGED cache
        /\ UNCHANGED <<user, token, key, doc, quota, begun>>

\* The row was read before; the time and the document are read now.
Valid(s) ==
    LET k == req[s].key
    IN  req[s].row.status = "live" /\ key[k].status # "expired" /\ key[k].project \in doc.projects

\* The commit of last_used_at needs the row.
Validate(s) ==
    /\ At(s, "call", "check") /\ Valid(s) /\ key[req[s].key].status # "gone"
    /\ Goto(s, "count")
    /\ UNCHANGED <<user, token, key, doc, cache, quota, begun>>

ValidateFails(s) ==
    /\ At(s, "call", "check") /\ Valid(s) /\ key[req[s].key].status = "gone"
    /\ End(s)
    /\ UNCHANGED <<user, token, key, doc, cache, quota, begun>>

Refuse(s) ==
    /\ At(s, "call", "check") /\ ~Valid(s)
    /\ Forget(req[s].proc, req[s].key)
    /\ End(s)
    /\ UNCHANGED <<user, token, key, doc, quota, begun>>

\* Mutant of Fits: the limit is compared with the calls so far.
FitsOneMore(used) == used <= Limit
Fits(used) == used + 1 <= Limit

Admit(s) ==
    LET p == key[req[s].key].project
    IN  /\ At(s, "call", "count") /\ Fits(quota[p].logged)
        /\ quota' = [quota EXCEPT ![p].admitted = @ + 1]
        /\ Goto(s, "log")
        /\ UNCHANGED <<user, token, key, doc, cache, begun>>

QuotaExceeded(s) ==
    /\ At(s, "call", "count") /\ ~Fits(quota[key[req[s].key].project].logged)
    /\ End(s)
    /\ UNCHANGED <<user, token, key, doc, cache, quota, begun>>

\* The log of a call is written, or lost, after its response.
Log(s) ==
    LET p == key[req[s].key].project
    IN  /\ At(s, "call", "log")
        /\ \/ quota' = [quota EXCEPT ![p].logged = @ + 1]
           \/ quota' = [quota EXCEPT ![p].lost = @ + 1]
        /\ End(s)
        /\ UNCHANGED <<user, token, key, doc, cache, begun>>

\* A new period of the policy begins; logs written from now on count in it.
NewPeriod ==
    /\ \E p \in Projects : quota[p] # NoUse
    /\ quota' = [p \in Projects |-> NoUse]
    /\ UNCHANGED <<user, token, key, doc, cache, req, begun>>

-----------------------------------------------------------------------------
SessionStep(s) ==
    \/ InsertUser(s) \/ EmailInUse(s) \/ ActivateMember(s) \/ Consume(s) \/ NoLongerValid(s)
    \/ Issue(s) \/ IssueFails(s) \/ MarkTokens(s) \/ CommitPassword(s) \/ PasswordFails(s)
    \/ CommitDelete(s) \/ CommitEmail(s)

KeyStep(s) ==
    \/ WriteMembers(s) \/ CommitPurge(s) \/ InsertKey(s) \/ InsertKeyFails(s) \/ CommitRevoke(s)
    \/ RevokeFails(s) \/ ForgetRevoked(s)

CallStep(s) ==
    \/ ReadRow(s) \/ Scan(s) \/ Validate(s) \/ ValidateFails(s) \/ Refuse(s) \/ Admit(s)
    \/ QuotaExceeded(s) \/ Log(s)

Arrive(s) ==
    \/ \E e \in Emails : Register(s, e) \/ Invite(s, e) \/ Remove(s, e)
    \/ \E u \in Users : Login(s, u) \/ ChangePassword(s, u) \/ DeleteAccount(s, u)
    \/ \E u \in Users, e \in Emails : ChangeEmail(s, u, e)
    \/ \E t \in Tokens : Refresh(s, t)
    \/ \E p \in Projects : DeleteProject(s, p) \/ \E u \in Users : CreateKey(s, u, p)
    \/ \E k \in Keys, p \in Procs : RevokeKey(s, k, p) \/ Call(s, k, p)

Next ==
    \/ \E s \in Slots : Arrive(s) \/ SessionStep(s) \/ KeyStep(s) \/ CallStep(s)
    \/ \E k \in Keys : ExpireKey(k)
    \/ NewPeriod

Spec == Init /\ [][Next]_vars

-----------------------------------------------------------------------------
(* What accounts and keys keep. *)

\* A session, from its login on, has at most one refresh token that can be used: however many
\* requests present a token at the same time, consume_refresh_jti lets one of them go on.
OneTokenPerSession ==
    \A t, o \in Tokens :
        Unused(t) /\ Unused(o) /\ token[t].session = token[o].session => t = o

\* A password change ends every session of its account, but for those of a request that had
\* verified the old password or consumed a token of such a session when the change committed.
\* This is about the handler: scripts/reset_admin_password.py ends no session.
PasswordChangeRevokes ==
    \A t \in Tokens : Unused(t) /\ ~token[t].raced => token[t].pw = user[token[t].user].pw

\* A key that was revoked, expired or deleted when a call arrived does not authenticate the
\* call, whatever the process has cached and whichever process handled the revocation.
DeadKeyIsRejected ==
    \A s \in Slots : req[s].dead => req[s].pc \notin {"count", "log"}

\* Calls overrun the limit of a period by those whose log is not written yet or was lost, and by
\* no more: at most one call per request that may be under way, but one.  The logs of the period
\* must be there: scripts/prune_request_logs.py deletes those that are older than its retention.
QuotaOvershoot ==
    \A p \in Projects : quota[p].admitted < Limit + Cardinality(Slots) + quota[p].lost
=============================================================================
