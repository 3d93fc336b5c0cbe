---------------------------- MODULE MemoryEngine ----------------------------
(* mem0's Memory over one vector store, in one session scope: add with and without inference,    *)
(* update, metadata update and delete, called by clients of several server processes, and the    *)
(* re-embedding script with its backup and rollback.  The id of a memory is the hash of the text *)
(* it was added with, so a memory is named after that text.                                      *)
EXTENDS Naturals, Sequences, FiniteSets, VectorStores

CONSTANTS
    Texts, Absent, NoVec, NoOne,
    Stores,         \* profiles of the vector stores a deployment may use
    Clients,
    Procs, Proc,    \* server processes; the process that serves a client
    Requests,       \* the calls of a client, in its order
    Rank,           \* the order of the ids
    Seeded,         \* memories stored in the past, with vectors of the previous embedder
    BatchSize,      \* of the script
    MaxCrashes,     \* bound: crashes of the script
    MaxLost         \* bound: writes of the history that fail one after the other

Vectors == [of : Texts, by : {"old", "new"}] \cup {NoVec}
Rows == [text : Texts, vec : Vectors, pending : BOOLEAN]

AddCalls == [op : {"raw", "infer"}, texts : SUBSET Texts, facts : SUBSET Texts]
IdCalls == [op : {"update", "meta", "delete"}, id : Texts, text : Texts]

ASSUME EngineAssumption ==
    /\ IsFiniteSet(Texts) /\ IsFiniteSet(Clients)
    /\ Stores \subseteq Profiles
    /\ Proc \in [Clients -> Procs]
    /\ NoOne \notin Clients
    /\ Absent \notin Rows /\ NoVec \notin [of : Texts, by : {"old", "new"}]
    /\ Requests \in [Clients -> Seq(AddCalls \cup IdCalls)]
    /\ Rank \in [Texts -> Nat]
    /\ \A s, t \in Texts : Rank[s] = Rank[t] => s = t
    /\ Seeded \subseteq Texts
    /\ BatchSize \in Nat \ {0}
    /\ MaxCrashes \in Nat /\ MaxLost \in Nat

VARIABLES
    store,      \* the profile of the vector store
    row,        \* its rows
    hist,       \* what happened to a memory, in which process, and whether the history database has it
    lock,       \* _memory_add_locks of a process, for the scope
    pc, pos,    \* the step a client is at in which of its requests
    todo,       \* texts of an add that are still to be stored
    cur,        \* the one that is being stored
    emb,        \* the embeddings an operation has got
    got,        \* the row an update has read
    saved,      \* memories of an inferred add that have been inserted
    missed,     \* memories that were there and an add did not find, in a store that takes them twice
    script,     \* the re-embedding script
    before      \* the rows there were when it started, of memories no client has written since

clientVars == <<pc, pos, todo, cur, emb, got, saved>>
vars == <<store, row, hist, lock, clientVars, missed, script, before>>

Steps == {"idle", "raw", "insert", "recheck", "log", "batch", "single", "record",
          "unlock", "write", "remove", "note"}
ScriptSteps == {"off", "scan", "embed", "done", "stopped", "refused", "restore", "restored"}

Embedding(t) == [of |-> t, by |-> "new"]
NewRow(t, v) == [text |-> t, vec |-> v, pending |-> (v = NoVec)]
Event(e, t, c, noted) == [event |-> e, text |-> t, proc |-> Proc[c], noted |-> noted]

\* The writes of the history that have failed; whether another one may.
Lost == {e \in UNION {{t} \X DOMAIN hist[t] : t \in Texts} : ~hist[e[1]][e[2]].noted}
Outcomes == IF Cardinality(Lost) < MaxLost THEN BOOLEAN ELSE {TRUE}

\* A memory that is written is no longer what it was.
Touch(ts) == before' = [t \in Texts |-> IF t \in ts THEN Absent ELSE before[t]]

Request(c) == Requests[c][pos[c]]
Called(c, op) == pc[c] = "idle" /\ pos[c] <= Len(Requests[c]) /\ Request(c).op = op

\* Texts some row holds now, by the hash of its present text.
Known == {row[id].text : id \in {i \in Texts : row[i] # Absent}}

\* _stored_memory_matches_hash of the row with the id of a text.
Stored(t) == row[t] # Absent /\ row[t].text = t

\* _existing_payload_values: a store that does not compare a field with a list, or whose lookup
\* fails, makes the caller see fewer of the texts than there are.
Lookups(ts) == SUBSET (ts \cap Known)

\* Some texts are going to be inserted, those among them that are stored already, too.
Overlook(ts) ==
    missed' = IF store.existing = "raise" THEN missed ELSE missed \cup {t \in ts : Stored(t)}

Init ==
    /\ store \in Stores
    /\ row = [t \in Texts |-> IF t \in Seeded THEN NewRow(t, [of |-> t, by |-> "old"]) ELSE Absent]
    /\ hist = [t \in Texts |-> <<>>]
    /\ lock = [p \in Procs |-> NoOne]
    /\ pc = [c \in Clients |-> "idle"]
    /\ pos = [c \in Clients |-> 1]
    /\ todo = [c \in Clients |-> {}]
    /\ cur = [c \in Clients |-> Absent]
    /\ emb = [c \in Clients |-> [t \in Texts |-> NoVec]]
    /\ got = [c \in Clients |-> Absent]
    /\ saved = [c \in Clients |-> {}]
    /\ missed = {}
    /\ script = [at |-> "off", after |-> 0, batch |-> <<>>, backup |-> <<>>, torn |-> FALSE,
                 left |-> {}, failed |-> {}, restored |-> {}, crashes |-> 0]
    /\ before = [t \in Texts |-> Absent]

-----------------------------------------------------------------------------
(* add *)

\* Mutant of TakesLock: the lock is not the one of the scope.
UnkeyedLock(c) == lock' = [lock EXCEPT ![Proc[c]] = c]

\* Memory._add_to_vector_store takes the lock of the session scope, of this process, and looks up
\* what the rows hold.
TakesLock(c) ==
    /\ lock[Proc[c]] = NoOne
    /\ lock' = [lock EXCEPT ![Proc[c]] = c]

\* The embeddings have been used.
Spent(c) == emb' = [emb EXCEPT ![c] = [t \in Texts |-> NoVec]]

\* The message is done with.
Dropped(c) == cur' = [cur EXCEPT ![c] = Absent] /\ Spent(c)

\* The request has returned or raised.
EndAdd(c) ==
    /\ pc[c] = "unlock"
    /\ lock' = [lock EXCEPT ![Proc[c]] = NoOne]
    /\ pc' = [pc EXCEPT ![c] = "idle"]
    /\ pos' = [pos EXCEPT ![c] = @ + 1]
    /\ todo' = [todo EXCEPT ![c] = {}]
    /\ Dropped(c)
    /\ saved' = [saved EXCEPT ![c] = {}]
    /\ UNCHANGED <<store, row, hist, got, missed, script, before>>

GiveUp(c) ==
    /\ pc' = [pc EXCEPT ![c] = "unlock"]
    /\ UNCHANGED <<store, row, hist, pos, todo, cur, emb, got, saved, missed, script, before>>

\* infer=False, or an inference without embeddings: the messages that are not found are stored as
\* they are.
SelectMessages(c) ==
    /\ Called(c, "raw") \/ (Called(c, "infer") /\ store.lexical)   \* the search embedding has failed
    /\ TakesLock(c)
    /\ \E found \in Lookups(Request(c).texts) : todo' = [todo EXCEPT ![c] = Request(c).texts \ found]
    /\ pc' = [pc EXCEPT ![c] = "raw"]
    /\ UNCHANGED <<store, row, hist, pos, cur, emb, got, saved, missed, script, before>>

\* Embeds one message, unless embeddings are known to be out, and reads its id (skip_if_exists).
\* A read that fails ends the call, or looks like a row that is not there.
ExamineMessage(c) ==
    /\ pc[c] = "raw"
    /\ \E t \in todo[c] :
         \E v \in {NoVec} \cup (IF Request(c).op = "raw" THEN {Embedding(t)} ELSE {}) :
           /\ v = NoVec => store.lexical
           /\ \/ /\ Stored(t)
                 /\ todo' = [todo EXCEPT ![c] = @ \ {t}]
                 /\ UNCHANGED <<pc, cur, emb, missed>>
              \/ /\ Stored(t) => store.hidesFailures
                 /\ Overlook({t})
                 /\ cur' = [cur EXCEPT ![c] = t]
                 /\ emb' = [emb EXCEPT ![c][t] = v]
                 /\ pc' = [pc EXCEPT ![c] = "insert"]
                 /\ UNCHANGED todo
    /\ UNCHANGED <<store, row, hist, lock, pos, got, saved, script, before>>

\* The embedder is out and the store needs vectors, or the store cannot be read: the rest of the
\* messages is lost with the call.
FailMessage(c) ==
    /\ pc[c] = "raw" /\ todo[c] # {}
    /\ ~store.lexical \/ ~store.hidesFailures
    /\ GiveUp(c)
    /\ UNCHANGED lock
EndMessages(c) == pc[c] = "raw" /\ todo[c] = {} /\ GiveUp(c) /\ UNCHANGED lock

Refused(ts) == store.existing = "raise" /\ \E t \in ts : row[t] # Absent

\* vector_store.insert
Inserted(ts, v) ==
    [t \in Texts |-> IF t \in ts /\ (row[t] = Absent \/ store.existing = "replace")
                       THEN NewRow(t, v[t]) ELSE row[t]]

\* An insert may fail whatever it is given.
InsertMessage(c) ==
    /\ pc[c] = "insert"
    /\ \/ /\ pc' = [pc EXCEPT ![c] = "recheck"]
          /\ UNCHANGED <<row, before>>
       \/ /\ ~Refused({cur[c]})
          /\ row' = Inserted({cur[c]}, emb[c])
          /\ Touch({cur[c]})
          /\ pc' = [pc EXCEPT ![c] = "log"]
    /\ UNCHANGED <<store, hist, lock, pos, todo, cur, emb, got, saved, missed, script>>

\* An insert that failed is fine if the memory is seen to be there; otherwise the error is raised.
Recheck(c) ==
    /\ pc[c] = "recheck"
    /\ \/ /\ Stored(cur[c])
          /\ todo' = [todo EXCEPT ![c] = @ \ {cur[c]}]
          /\ pc' = [pc EXCEPT ![c] = "raw"]
       \/ /\ pc' = [pc EXCEPT ![c] = "unlock"]
          /\ UNCHANGED todo
    /\ Dropped(c)
    /\ UNCHANGED <<store, row, hist, lock, pos, got, saved, missed, script, before>>

\* add_history: if it fails, the call raises, and the rest of the messages is lost.
LogMessage(c) ==
    /\ pc[c] = "log"
    /\ \E noted \in Outcomes :
         /\ hist' = [hist EXCEPT ![cur[c]] = Append(@, Event("ADD", cur[c], c, noted))]
         /\ pc' = [pc EXCEPT ![c] = IF noted THEN "raw" ELSE "unlock"]
    /\ todo' = [todo EXCEPT ![c] = @ \ {cur[c]}]
    /\ Dropped(c)
    /\ UNCHANGED <<store, row, lock, pos, got, saved, missed, script, before>>

\* infer=True: the facts the model extracts that are not found are embedded, one by one if need be.
SelectFacts(c) ==
    /\ Called(c, "infer")
    /\ TakesLock(c)
    /\ \E found \in Lookups(Request(c).facts) :
         LET new == Request(c).facts \ found IN
         /\ new # {}
         /\ todo' = [todo EXCEPT ![c] = new]
         /\ Overlook(new)
         /\ \E out \in SUBSET new :
              /\ out # {} => store.lexical
              /\ emb' = [emb EXCEPT ![c] =
                           [t \in Texts |-> IF t \in new \ out THEN Embedding(t) ELSE NoVec]]
    /\ pc' = [pc EXCEPT ![c] = "batch"]
    /\ UNCHANGED <<store, row, hist, pos, cur, got, saved, script, before>>

\* Nothing new, the language model fails, or no vector can be had.
SelectNothing(c) == Called(c, "infer") /\ TakesLock(c) /\ GiveUp(c)

\* One insert of all facts; if it fails, as it does for one refused id, each fact is tried alone.
InsertBatch(c) ==
    /\ pc[c] = "batch"
    /\ \/ /\ pc' = [pc EXCEPT ![c] = "single"]
          /\ UNCHANGED <<row, saved, before, todo, emb>>
       \/ /\ ~Refused(todo[c])
          /\ row' = Inserted(todo[c], emb[c])
          /\ saved' = [saved EXCEPT ![c] = todo[c]]
          /\ Touch(todo[c])
          /\ todo' = [todo EXCEPT ![c] = {}]
          /\ pc' = [pc EXCEPT ![c] = "record"]
          /\ Spent(c)
    /\ UNCHANGED <<store, hist, lock, pos, cur, got, missed, script>>

\* Mutant of InsertSingle: a fact counts as persisted although its insert failed.
InsertSingleUnseen(c) ==
    /\ pc[c] = "single"
    /\ \E t \in todo[c] :
         /\ todo' = [todo EXCEPT ![c] = @ \ {t}]
         /\ saved' = [saved EXCEPT ![c] = @ \cup {t}]
         /\ row' = IF Refused({t}) THEN row ELSE Inserted({t}, emb[c])
         /\ Touch({t})
         /\ pc' = [pc EXCEPT ![c] = IF todo[c] = {t} THEN "record" ELSE "single"]
         /\ emb' = [emb EXCEPT ![c][t] = NoVec]
    /\ UNCHANGED <<store, hist, lock, pos, cur, got, missed, script>>

\* A fact whose insert fails is dropped without an error to the caller.
InsertSingle(c) ==
    /\ pc[c] = "single"
    /\ \E t \in todo[c] :
         /\ todo' = [todo EXCEPT ![c] = @ \ {t}]
         /\ \/ UNCHANGED <<row, saved, before>>
            \/ /\ ~Refused({t})
               /\ row' = Inserted({t}, emb[c])
               /\ saved' = [saved EXCEPT ![c] = @ \cup {t}]
               /\ Touch({t})
         /\ pc' = [pc EXCEPT ![c] = IF todo[c] = {t} THEN "record" ELSE "single"]
         /\ emb' = [emb EXCEPT ![c][t] = NoVec]
    /\ UNCHANGED <<store, hist, lock, pos, cur, got, missed, script>>

\* batch_add_history, and one by one if it fails; what fails again is logged and left out.
RecordFacts(c) ==
    /\ pc[c] = "record"
    /\ \E noted \in [saved[c] -> Outcomes] :
         hist' = [t \in Texts |-> IF t \in saved[c] THEN Append(hist[t], Event("ADD", t, c, noted[t]))
                                  ELSE hist[t]]
    /\ saved' = [saved EXCEPT ![c] = {}]
    /\ pc' = [pc EXCEPT ![c] = "unlock"]
    /\ UNCHANGED <<store, row, lock, pos, todo, cur, emb, got, missed, script, before>>

-----------------------------------------------------------------------------
(* update and delete take no lock *)

Ended(c) ==
    /\ pc' = [pc EXCEPT ![c] = "idle"]
    /\ pos' = [pos EXCEPT ![c] = @ + 1]
    /\ got' = [got EXCEPT ![c] = Absent]
    /\ Spent(c)

\* Memory.update embeds a new text, then _update_memory reads the row.
ReadForUpdate(c) ==
    /\ Called(c, "update") \/ Called(c, "meta")
    /\ LET r == Request(c) IN
       \E v \in {NoVec} \cup (IF r.op = "update" THEN {Embedding(r.text)} ELSE {}) :
         IF row[r.id] = Absent \/ (r.op = "update" /\ v = NoVec /\ ~store.lexical)
           THEN Ended(c)
           ELSE /\ got' = [got EXCEPT ![c] = row[r.id]]
                /\ emb' = [emb EXCEPT ![c][r.text] = v]
                /\ pc' = [pc EXCEPT ![c] = "write"]
                /\ UNCHANGED pos
    /\ UNCHANGED <<store, row, hist, lock, todo, cur, saved, missed, script, before>>

NewText(c) == IF Request(c).op = "update" THEN Request(c).text ELSE got[c].text
NewVector(c) == emb[c][Request(c).text]

\* The embedding_status an update writes, from the row it read.
MarksPending(c) == NewVector(c) = NoVec /\ (NewText(c) # got[c].text \/ got[c].pending)

\* vector_store.update of a row that is there: without a vector the stored one stays, unless the
\* payload says that the embedding is pending.
Written(c, r) ==
    [text |-> NewText(c), pending |-> MarksPending(c),
     vec |-> IF NewVector(c) # NoVec THEN NewVector(c)
             ELSE IF MarksPending(c) THEN NoVec ELSE r.vec]

Missing(c) == IF NewVector(c) # NoVec \/ MarksPending(c) THEN store.textOnMissing ELSE store.metaOnMissing

StoreUpdate(c) ==
    /\ pc[c] = "write"
    /\ LET id == Request(c).id IN
       \/ /\ \/ row[id] # Absent /\ NewVector(c) = NoVec /\ ~store.keepsVector
             \/ row[id] = Absent /\ Missing(c) = "raise"
          /\ Ended(c)
          /\ UNCHANGED <<row, before>>
       \/ /\ row[id] # Absent
          /\ NewVector(c) = NoVec => store.keepsVector
          /\ row' = [row EXCEPT ![id] = Written(c, @)]
          /\ Touch({id})
          /\ pc' = [pc EXCEPT ![c] = "note"]
          /\ UNCHANGED <<pos, got, emb>>
       \/ /\ row[id] = Absent
          /\ Missing(c) # "raise"
          /\ row' = IF Missing(c) = "create"
                      THEN [row EXCEPT ![id] = [text |-> NewText(c), vec |-> NewVector(c),
                                                pending |-> MarksPending(c)]]
                      ELSE row
          /\ Touch({id})
          /\ pc' = [pc EXCEPT ![c] = "note"]
          /\ UNCHANGED <<pos, got, emb>>
    /\ UNCHANGED <<store, hist, lock, todo, cur, saved, missed, script>>

\* add_history; the call raises if it fails.
NoteUpdate(c) ==
    /\ pc[c] = "note" /\ Request(c).op # "delete"
    /\ \E noted \in Outcomes :
         hist' = [hist EXCEPT ![Request(c).id] = Append(@, Event("UPDATE", NewText(c), c, noted))]
    /\ Ended(c)
    /\ UNCHANGED <<store, row, lock, todo, cur, saved, missed, script, before>>

\* Memory.delete
ReadForDelete(c) ==
    /\ Called(c, "delete")
    /\ IF row[Request(c).id] = Absent
         THEN Ended(c)
         ELSE pc' = [pc EXCEPT ![c] = "remove"] /\ UNCHANGED <<pos, got, emb>>
    /\ UNCHANGED <<store, row, hist, lock, todo, cur, saved, missed, script, before>>

RemoveRow(c) ==
    /\ pc[c] = "remove"
    /\ row' = [row EXCEPT ![Request(c).id] = Absent]
    /\ Touch({Request(c).id})
    /\ pc' = [pc EXCEPT ![c] = "note"]
    /\ UNCHANGED <<store, hist, lock, pos, todo, cur, emb, got, saved, missed, script>>

NoteDelete(c) ==
    /\ pc[c] = "note" /\ Request(c).op = "delete"
    /\ \E noted \in Outcomes :
         hist' = [hist EXCEPT ![Request(c).id] = Append(@, Event("DELETE", Request(c).id, c, noted))]
    /\ Ended(c)
    /\ UNCHANGED <<store, row, lock, todo, cur, saved, missed, script, before>>

-----------------------------------------------------------------------------
(* scripts/reembed_memories.py --apply, and --rollback --apply with its backup *)

scriptOnly == <<store, hist, lock, clientVars, missed>>

\* _require_pgvector
StartScript ==
    /\ script.at = "off" /\ store = Pgvector
    /\ script' = [script EXCEPT !.at = "scan"]
    /\ before' = row
    /\ UNCHANGED <<row, scriptOnly>>

\* The first BatchSize of a set of ids, in the order of the ids.
FirstOf(S) == {t \in S : Cardinality({s \in S : Rank[s] < Rank[t]}) < BatchSize}
Highest(S) == CHOOSE t \in S : \A s \in S : Rank[s] <= Rank[t]

\* Mutants of Appended: each page replaces the file; the text is written instead of the vector.
OnlyPage(ids) == [t \in ids |-> row[t].vec]
TextOfPage(ids) == [t \in DOMAIN script.backup \cup ids |-> IF t \in ids THEN row[t].text ELSE script.backup[t]]

\* What the backup holds once some rows of a page have been appended to it.
Appended(ids) ==
    [t \in DOMAIN script.backup \cup ids |-> IF t \in ids THEN row[t].vec ELSE script.backup[t]]

\* The container stops: what was in memory is gone.
Stopped == [script EXCEPT !.at = "stopped", !.crashes = @ + 1, !.after = 0, !.batch = <<>>, !.left = {}]

\* _query_rows: keyset pagination by id.  The old vectors are on disk before the provider or the
\* database is called; a crash may leave some of the lines, or cut one off.
Scan ==
    /\ script.at = "scan"
    /\ LET rest == {t \in Texts : row[t] # Absent /\ Rank[t] > script.after}
           page == FirstOf(rest)
       IN \/ /\ rest = {}
             /\ script' = [script EXCEPT !.at = "done", !.after = 0]
          \/ /\ rest # {}
             /\ script' = [script EXCEPT !.at = "embed", !.after = Rank[Highest(page)],
                                         !.batch = [t \in page |-> row[t]], !.backup = Appended(page)]
          \/ /\ script.crashes < MaxCrashes
             /\ script' \in {[Stopped EXCEPT !.backup = Appended(part)] : part \in SUBSET page}
                            \cup {[Stopped EXCEPT !.backup = <<>>, !.torn = TRUE]}
    /\ UNCHANGED <<row, scriptOnly, before>>

\* Mutant of Unchanged: UPDATE ... WHERE id.
StillThere(t) == row[t] # Absent

\* UPDATE ... WHERE id AND vector = the one that was scanned
Unchanged(t) == row[t] # Absent /\ row[t].vec = script.batch[t].vec

\* _embed_rows gets some vectors; _update_vectors writes them in one transaction, or none of them.
UpdateVectors ==
    /\ script.at = "embed"
    /\ \E good \in SUBSET DOMAIN script.batch :
         row' = IF \A t \in good : Unchanged(t)
                  THEN [t \in Texts |-> IF t \in good
                          THEN [row[t] EXCEPT !.vec = Embedding(script.batch[t].text)] ELSE row[t]]
                  ELSE row
    /\ script' = [script EXCEPT !.at = "scan", !.batch = <<>>]
    /\ UNCHANGED <<scriptOnly, before>>

\* It stops before a transaction.
Crash ==
    /\ script.at \in {"embed", "restore"}
    /\ script.crashes < MaxCrashes
    /\ script' = Stopped
    /\ UNCHANGED <<row, scriptOnly, before>>

\* _read_backup refuses a file with a line it cannot parse.
StartRollback ==
    /\ script.at \in {"done", "stopped"}
    /\ script' = IF script.torn THEN [script EXCEPT !.at = "refused"]
                 ELSE [script EXCEPT !.at = "restore", !.left = DOMAIN script.backup, !.failed = {}]
    /\ UNCHANGED <<row, scriptOnly, before>>

\* _update_vectors without expected vectors: one transaction for a batch, which a missing row fails.
Restore ==
    /\ script.at = "restore"
    /\ LET page == FirstOf(script.left) IN
       \/ /\ page = {}
          /\ script' = [script EXCEPT !.at = "restored"]
          /\ UNCHANGED row
       \/ /\ page # {} /\ \A t \in page : row[t] # Absent
          /\ row' = [t \in Texts |-> IF t \in page THEN [row[t] EXCEPT !.vec = script.backup[t]]
                                     ELSE row[t]]
          /\ script' = [script EXCEPT !.left = @ \ page, !.restored = @ \cup page]
       \/ /\ \E t \in page : row[t] = Absent
          /\ script' = [script EXCEPT !.left = @ \ page, !.failed = @ \cup page]
          /\ UNCHANGED row
    /\ UNCHANGED <<scriptOnly, before>>

-----------------------------------------------------------------------------
Add(c) ==
    \/ SelectMessages(c) \/ ExamineMessage(c) \/ FailMessage(c) \/ EndMessages(c) \/ EndAdd(c)
    \/ InsertMessage(c) \/ Recheck(c) \/ LogMessage(c)
    \/ SelectFacts(c) \/ SelectNothing(c) \/ InsertBatch(c) \/ InsertSingle(c) \/ RecordFacts(c)

Change(c) ==
    \/ ReadForUpdate(c) \/ StoreUpdate(c) \/ NoteUpdate(c)
    \/ ReadForDelete(c) \/ RemoveRow(c) \/ NoteDelete(c)

Script == StartScript \/ Scan \/ UpdateVectors \/ Crash \/ StartRollback \/ Restore

Next == (\E c \in Clients : Add(c) \/ Change(c)) \/ Script

Spec == Init /\ [][Next]_vars

-----------------------------------------------------------------------------
\* The types of the state.
TypeOK ==
    /\ store \in Stores
    /\ row \in [Texts -> Rows \cup {Absent}]
    /\ hist \in [Texts -> Seq([event : {"ADD", "UPDATE", "DELETE"}, text : Texts, proc : Procs,
                                 noted : BOOLEAN])]
    /\ lock \in [Procs -> Clients \cup {NoOne}]
    /\ pc \in [Clients -> Steps]
    /\ pos \in [Clients -> Nat \ {0}]
    /\ todo \in [Clients -> SUBSET Texts]
    /\ cur \in [Clients -> Texts \cup {Absent}]
    /\ emb \in [Clients -> [Texts -> Vectors]]
    /\ got \in [Clients -> Rows \cup {Absent}]
    /\ saved \in [Clients -> SUBSET Texts]
    /\ missed \in SUBSET Texts
    /\ script.at \in ScriptSteps
    /\ \A t \in DOMAIN script.backup : script.backup[t] \in Vectors
    /\ before \in [Texts -> Rows \cup {Absent}]

\* Adds of a memory by some processes, whether their history has been written, has not been yet,
\* or could not be.
Adds(id, ps) ==
    Cardinality({i \in DOMAIN hist[id] : hist[id][i].event = "ADD" /\ hist[id][i].proc \in ps})
      + Cardinality({c \in Clients : /\ Proc[c] \in ps
                                     /\ \/ pc[c] = "log" /\ cur[c] = id
                                        \/ id \in saved[c]})
      + (IF id \in Seeded THEN 1 ELSE 0)

Deletes(id) ==
    Cardinality({i \in DOMAIN hist[id] : hist[id][i].event = "DELETE"})
      + Cardinality({c \in Clients : pc[c] = "note" /\ Request(c).op = "delete" /\ Request(c).id = id})

\* Memories some client changes by calls of one kind.
Subject(op) ==
    {id \in Texts : \E c \in Clients : \E i \in DOMAIN Requests[c] :
                      Requests[c][i].op = op /\ Requests[c][i].id = id}

\* Retries of an add converge on one memory (test_concurrent_raw_retries_converge_on_one_memory).
\* With a primary key a memory is added once, by all processes together, until it is deleted,
\* whatever the lookups find.  On the other stores this holds of the calls of one process, of a
\* memory whose text nobody changes, as long as no call has overlooked the memory: the lookup by
\* hash finds nothing on some of them, and an inferred add does not read the id again.
RetriesConverge ==
    \A id \in Texts :
      IF store.existing = "raise" THEN Adds(id, Procs) <= 1 + Deletes(id)
      ELSE id \notin Subject("update") \cup missed => \A p \in Procs : Adds(id, {p}) <= 1 + Deletes(id)

\* Memories two clients delete: delete takes no lock, and the row that both have read is deleted
\* and reported twice.
SharedDeletes ==
    {id \in Texts : \E c, d \in Clients : \E i \in DOMAIN Requests[c], j \in DOMAIN Requests[d] :
                      /\ c # d
                      /\ Requests[c][i].op = "delete" /\ Requests[c][i].id = id
                      /\ Requests[d][j].op = "delete" /\ Requests[d][j].id = id}

\* With pgvector a memory that no two clients delete is there exactly if it was added once more
\* than deleted, where an add or a delete counts from the write of the row, and also if its history
\* could not be written: no add is reported that stored nothing, no add or delete that took effect
\* goes unreported but by a failed write of the history, and no update or re-embedding brings a
\* deleted memory back.
HistoryAccounts ==
    store = Pgvector =>
      \A id \in Texts \ SharedDeletes : row[id] # Absent <=> Adds(id, Procs) = Deletes(id) + 1

\* Memories that one client updates and another updates or deletes.
Contested ==
    {id \in Texts : \E c, d \in Clients : \E i \in DOMAIN Requests[c], j \in DOMAIN Requests[d] :
                      /\ c # d
                      /\ Requests[c][i].op \in {"update", "meta"} /\ Requests[c][i].id = id
                      /\ Requests[d][j].op \in {"update", "meta", "delete"} /\ Requests[d][j].id = id}

\* A memory that is not marked pending has a vector, and it is of the text the memory has: dense
\* search never ranks a text by the vector of another one, though the script embeds texts it has
\* read long before and adds race with each other and with it.  (A rollback restores vectors
\* whatever has become of the text; and updates take no lock: one under way mixes its text with
\* the vector of a concurrent update, or of a row that is added again after a delete, or replaced
\* by an insert.)
CleanVector ==
    store.existing # "replace" =>
      \A id \in Texts \ (script.restored \cup Contested) :
        row[id] # Absent /\ ~row[id].pending =>
          row[id].vec # NoVec /\ row[id].vec.of = row[id].text

\* A rollback gives every memory nobody has written since the script started the vector it had,
\* wherever the script was stopped, except in batches that are reported as failed.
RollbackRestores ==
    script.at = "restored" =>
      \A id \in Texts \ script.failed :
        before[id] # Absent => row[id] = before[id]

\* "Payload-only updates do not need the provider and must retain the existing dense vector (or
\* the existing pending state)" (memory/main.py, _update_memory).
RetainsVector ==
    [][\A c \in Clients :
         pc[c] = "write" /\ pc'[c] = "note" /\ Request(c).op = "meta" /\ row[Request(c).id] # Absent
           => row'[Request(c).id].vec = row[Request(c).id].vec]_vars
=============================================================================
