-------------------------- MODULE MemoryContentProofs --------------------------
(* Proofs about what MemoryEngine stores, for any texts, clients, processes, calls, stores and   *)
(* batches: the vector of a memory is of its text, and retries of an add store it once.          *)
EXTENDS MemoryEngineProofs

-----------------------------------------------------------------------------
(* Vectors.  An embedding belongs to its text on the whole way from the provider to the row; an  *)
(* update writes over the row it has read, when nobody else may change it; and the script writes *)
(* over a vector it has seen, which gives the text away that is there.                           *)

Own(v, t) == v = NoVec \/ v = Embedding(t)
Fresh(r) == r.pending => r.vec = NoVec
Clean(r) == ~r.pending => r.vec # NoVec /\ r.vec.of = r.text

\* The embeddings a client is about to write are of the texts it writes.
EmbeddedAt(c) ==
    /\ pc[c] = "insert" => Own(emb[c][cur[c]], cur[c])
    /\ pc[c] \in {"batch", "single"} => \A t \in todo[c] : Own(emb[c][t], t)
    /\ pc[c] = "write" => /\ Own(NewVector(c), Request(c).text)
                          /\ Request(c).op = "meta" => NewVector(c) = NoVec
Embedded == \A c \in Clients : EmbeddedAt(c)

\* What an update has read is still so, but for the vector.
ReadAt(c) ==
    pc[c] = "write" /\ Request(c).id \notin Contested =>
        LET r == row[Request(c).id] IN
        r # Absent /\ r.text = got[c].text /\ r.pending = got[c].pending
StillRead == \A c \in Clients : ReadAt(c)

\* What the script has scanned and is embedding.
Scanned ==
    /\ script.at \in {"off", "scan", "embed"} => script.restored = {}
    /\ script.at = "embed" =>
         \A t \in DOMAIN script.batch :
             /\ Fresh(script.batch[t])
             /\ t \notin Contested => Clean(script.batch[t])

\* Only the script gives a memory that is marked pending a vector.
Unscanned ==
    \A t \in Texts :
        /\ script.at = "off" \/ (script.at \in {"scan", "embed"} /\ Rank[t] > script.after)
        /\ row[t] # Absent
        => Fresh(row[t])

CleanRows ==
    \A t \in Texts \ (script.restored \cup Contested) : row[t] # Absent => Clean(row[t])

Genuine ==
    store.existing # "replace" => Embedded /\ StillRead /\ Scanned /\ Unscanned /\ CleanRows

LEMMA EmbeddingIsVector ==
    ASSUME NEW t \in Texts PROVE Embedding(t) # NoVec /\ Embedding(t).of = t
BY EngineAssumption DEF Embedding

\* A row that is inserted is clean.
LEMMA NewRowClean ==
    ASSUME NEW t \in Texts, NEW v, Own(v, t) PROVE Fresh(NewRow(t, v)) /\ Clean(NewRow(t, v))
BY EmbeddingIsVector DEF Own, Fresh, Clean, NewRow

\* So is a row that is updated, if nobody has changed it since it was read.
LEMMA WrittenClean ==
    ASSUME Sound, NEW c \in Clients, pc[c] = "write", EmbeddedAt(c), NEW r \in Rows
    PROVE  /\ Fresh(Written(c, r))
           /\ Clean(r) /\ r.text = got[c].text /\ r.pending = got[c].pending => Clean(Written(c, r))
<1>1. /\ Request(c) \in IdCalls /\ Request(c).text \in Texts /\ got[c] \in Rows
      /\ Request(c).op \in {"update", "meta"}
  BY DEF Sound, Shape, Calls, IdCalls
<1>2. /\ Own(NewVector(c), Request(c).text)
      /\ Request(c).op = "meta" => NewVector(c) = NoVec
  BY DEF EmbeddedAt
<1>3. /\ Written(c, r).text = NewText(c) /\ Written(c, r).pending = MarksPending(c)
      /\ Written(c, r).vec = IF NewVector(c) # NoVec THEN NewVector(c)
                             ELSE IF MarksPending(c) THEN NoVec ELSE r.vec
  BY DEF Written
<1>4. Fresh(Written(c, r))
  BY <1>3 DEF Fresh, MarksPending
<1>5. ASSUME Clean(r), r.text = got[c].text, r.pending = got[c].pending PROVE Clean(Written(c, r))
  <2>1. CASE NewVector(c) # NoVec
    <3>1. NewText(c) = Request(c).text /\ NewVector(c) = Embedding(Request(c).text)
      BY <1>1, <1>2, <2>1 DEF NewText, Own
    <3> QED
      BY <1>1, <1>3, <2>1, <3>1, EmbeddingIsVector DEF Clean
  <2>2. CASE NewVector(c) = NoVec
    BY <1>3, <1>5, <2>2 DEF Clean, MarksPending
  <2> QED
    BY <2>1, <2>2
<1> QED
  BY <1>4, <1>5

-----------------------------------------------------------------------------
(* The steps of the clients. *)

\* What an update leaves of a memory that is gone.
Recreated(c) == [text |-> NewText(c), vec |-> NewVector(c), pending |-> MarksPending(c)]

\* What a step of c may do to the row of a memory.
RowStep(c, t) ==
    \/ row'[t] = row[t]
    \/ row[t] = Absent /\ \E v \in Vectors : Own(v, t) /\ row'[t] = NewRow(t, v)
    \/ pc[c] = "remove" /\ t = Request(c).id /\ row'[t] = Absent
    \/ pc[c] = "write" /\ t = Request(c).id /\ row[t] # Absent /\ row'[t] = Written(c, row[t])
    \/ pc[c] = "write" /\ t = Request(c).id /\ row[t] = Absent /\ row'[t] = Recreated(c)

LEMMA InsertedRows ==
    ASSUME Sound, store.existing # "replace", NEW c \in Clients, NEW ts \in SUBSET Texts,
           \A t \in ts : Own(emb[c][t], t), row' = Inserted(ts, emb[c]), NEW t \in Texts
    PROVE  RowStep(c, t)
<1>1. emb[c][t] \in Vectors
  BY DEF Sound, Shape, TypeOK
<1>2. row'[t] = row[t] \/ (t \in ts /\ row[t] = Absent /\ row'[t] = NewRow(t, emb[c][t]))
  BY DEF Inserted
<1> QED
  BY <1>1, <1>2 DEF RowStep

LEMMA StoreUpdateRow ==
    ASSUME Sound, NEW c \in Clients, StoreUpdate(c), NEW t \in Texts PROVE RowStep(c, t)
<1> DEFINE id == Request(c).id
<1>1. pc[c] = "write" /\ id \in Texts /\ row \in [Texts -> Rows \cup {Absent}]
  BY WriteTyped, StateTyped DEF StoreUpdate
<1>2. \/ row' = row
      \/ row[id] # Absent /\ row' = [row EXCEPT ![id] = Written(c, @)]
      \/ row[id] = Absent /\ row' = [row EXCEPT ![id] = Recreated(c)]
  BY DEF StoreUpdate, Recreated
<1> HIDE DEF id
<1>3. \/ row'[t] = row[t]
      \/ t = id /\ row[t] # Absent /\ row'[t] = Written(c, row[t])
      \/ t = id /\ row[t] = Absent /\ row'[t] = Recreated(c)
  BY <1>1, <1>2
<1> QED
  BY <1>1, <1>3 DEF RowStep, id

LEMMA ClientRows ==
    ASSUME Sound, Embedded, store.existing # "replace", NEW c \in Clients, Add(c) \/ Change(c),
           NEW t \in Texts
    PROVE  RowStep(c, t)
<1>1. EmbeddedAt(c)
  BY DEF Embedded
<1>2. ASSUME row' = row PROVE RowStep(c, t)
  BY <1>2 DEF RowStep
<1>3. ASSUME InsertMessage(c) PROVE RowStep(c, t)
  <2>1. pc[c] = "insert" /\ cur[c] \in Texts /\ (row' = row \/ row' = Inserted({cur[c]}, emb[c]))
    BY <1>3 DEF InsertMessage, Sound, Shape, Calls
  <2>2. \A x \in {cur[c]} : Own(emb[c][x], x)
    BY <1>1, <2>1 DEF EmbeddedAt
  <2>3. {cur[c]} \in SUBSET Texts
    BY <2>1
  <2> QED
    BY <1>2, <2>1, <2>2, <2>3, InsertedRows
<1>4. ASSUME InsertBatch(c) PROVE RowStep(c, t)
  <2>1. /\ pc[c] = "batch" /\ todo[c] \in SUBSET Texts
        /\ row' = row \/ row' = Inserted(todo[c], emb[c])
    BY <1>4 DEF InsertBatch, Sound, Shape, TypeOK
  <2>2. \A x \in todo[c] : Own(emb[c][x], x)
    BY <1>1, <2>1 DEF EmbeddedAt
  <2> QED
    BY <1>2, <2>1, <2>2, InsertedRows
<1>5. ASSUME InsertSingle(c) PROVE RowStep(c, t)
  <2>1. pc[c] = "single" /\ todo[c] \in SUBSET Texts
    BY <1>5 DEF InsertSingle, Sound, Shape, TypeOK
  <2>2. PICK x \in todo[c] : row' = row \/ row' = Inserted({x}, emb[c])
    BY <1>5 DEF InsertSingle
  <2>3. {x} \in SUBSET Texts /\ \A y \in {x} : Own(emb[c][y], y)
    BY <1>1, <2>1 DEF EmbeddedAt
  <2> QED
    BY <1>2, <2>2, <2>3, InsertedRows
<1>6. ASSUME RemoveRow(c) PROVE RowStep(c, t)
  <2>1. pc[c] = "remove" /\ row' = [row EXCEPT ![Request(c).id] = Absent]
    BY <1>6 DEF RemoveRow
  <2> QED
    BY <2>1, StateTyped DEF RowStep
<1>7. ASSUME \/ SelectMessages(c) \/ ExamineMessage(c) \/ FailMessage(c) \/ EndMessages(c)
             \/ EndAdd(c) \/ Recheck(c) \/ LogMessage(c) \/ SelectFacts(c) \/ SelectNothing(c)
             \/ RecordFacts(c) \/ ReadForUpdate(c) \/ NoteUpdate(c) \/ ReadForDelete(c)
             \/ NoteDelete(c)
      PROVE  row' = row
  BY <1>7 DEF SelectMessages, ExamineMessage, FailMessage, EndMessages, EndAdd, Recheck, LogMessage,
     SelectFacts, SelectNothing, RecordFacts, ReadForUpdate, NoteUpdate, ReadForDelete, NoteDelete,
     GiveUp
<1> QED
  BY <1>2, <1>3, <1>4, <1>5, <1>6, <1>7, StoreUpdateRow DEF Add, Change

\* A client leaves the embeddings of the others alone.
LEMMA OthersEmbeddings ==
    ASSUME Sound, NEW c \in Clients, Add(c) \/ Change(c), NEW d \in Clients \ {c}
    PROVE  emb'[d] = emb[d]
<1>1. emb \in [Clients -> [Texts -> Vectors]]
  BY DEF Sound, Shape, TypeOK
<1>2. ASSUME NEW f, emb' = [emb EXCEPT ![c] = f] PROVE emb'[d] = emb[d]
  BY <1>1, <1>2
<1>3. ASSUME EndAdd(c) \/ Recheck(c) \/ LogMessage(c) \/ SelectFacts(c) PROVE emb'[d] = emb[d]
  BY <1>2, <1>3 DEF EndAdd, Recheck, LogMessage, Dropped, Spent, SelectFacts
<1>4. ASSUME ExamineMessage(c) PROVE emb'[d] = emb[d]
  BY <1>1, <1>4 DEF ExamineMessage
<1>5. ASSUME ReadForUpdate(c) PROVE emb'[d] = emb[d]
  BY <1>1, <1>5 DEF ReadForUpdate, Ended, Spent
<1>6. ASSUME StoreUpdate(c) \/ NoteUpdate(c) \/ NoteDelete(c) \/ ReadForDelete(c)
      PROVE  emb'[d] = emb[d]
  BY <1>1, <1>6 DEF StoreUpdate, NoteUpdate, NoteDelete, ReadForDelete, Ended, Spent
<1>7. ASSUME \/ SelectMessages(c) \/ FailMessage(c) \/ EndMessages(c) \/ SelectNothing(c)
             \/ InsertMessage(c) \/ RecordFacts(c) \/ RemoveRow(c)
      PROVE  emb'[d] = emb[d]
  BY <1>7 DEF SelectMessages, FailMessage, EndMessages, SelectNothing, InsertMessage, RecordFacts,
     RemoveRow, GiveUp
<1>8. ASSUME InsertBatch(c) \/ InsertSingle(c) PROVE emb'[d] = emb[d]
  BY <1>1, <1>2, <1>8 DEF InsertBatch, InsertSingle, Spent
<1> QED
  BY <1>3, <1>4, <1>5, <1>6, <1>7, <1>8 DEF Add, Change

\* Where a step leaves its client, when that is not a step at which it has embeddings.
LEMMA Elsewhere ==
    ASSUME Sound, NEW c \in Clients,
           \/ SelectMessages(c) \/ FailMessage(c) \/ EndMessages(c) \/ SelectNothing(c) \/ EndAdd(c)
           \/ InsertMessage(c) \/ Recheck(c) \/ LogMessage(c) \/ RecordFacts(c) \/ StoreUpdate(c)
           \/ NoteUpdate(c) \/ NoteDelete(c) \/ ReadForDelete(c) \/ RemoveRow(c)
    PROVE  pc'[c] \notin {"insert", "batch", "single", "write"}
<1>0. pc \in [Clients -> Steps]
  BY DEF Sound, Shape, TypeOK
<1>1. ASSUME NEW s, pc' = [pc EXCEPT ![c] = s] PROVE pc'[c] = s
  BY <1>0, <1>1
<1>2. \E s \in {"raw", "unlock", "idle", "recheck", "log", "note", "remove"} :
        pc' = [pc EXCEPT ![c] = s]
  BY DEF SelectMessages, FailMessage, EndMessages, SelectNothing, GiveUp, EndAdd, InsertMessage,
     Recheck, LogMessage, RecordFacts, StoreUpdate, NoteUpdate, NoteDelete, ReadForDelete, RemoveRow,
     Ended
<1> QED
  BY <1>1, <1>2

LEMMA ExamineEmbedded ==
    ASSUME Sound, NEW c \in Clients, ExamineMessage(c) PROVE EmbeddedAt(c)'
<1>0. pc \in [Clients -> Steps] /\ emb \in [Clients -> [Texts -> Vectors]] /\ todo[c] \subseteq Texts
      /\ cur \in [Clients -> Texts \cup {Absent}] /\ pc[c] = "raw"
  BY DEF Sound, Shape, TypeOK, ExamineMessage
<1>1. \/ pc' = pc
      \/ \E t \in todo[c] : \E v : /\ Own(v, t) /\ pc' = [pc EXCEPT ![c] = "insert"]
                                   /\ cur' = [cur EXCEPT ![c] = t]
                                   /\ emb' = [emb EXCEPT ![c][t] = v]
  <2>1. PICK t \in todo[c] :
          \E v \in {NoVec} \cup (IF Request(c).op = "raw" THEN {Embedding(t)} ELSE {}) :
            \/ pc' = pc
            \/ /\ pc' = [pc EXCEPT ![c] = "insert"]
               /\ cur' = [cur EXCEPT ![c] = t] /\ emb' = [emb EXCEPT ![c][t] = v]
    BY DEF ExamineMessage
  <2>2. \A v \in {NoVec} \cup (IF Request(c).op = "raw" THEN {Embedding(t)} ELSE {}) : Own(v, t)
    BY DEF Own
  <2> QED
    BY <2>1, <2>2
<1>2. CASE pc' = pc
  BY <1>0, <1>2 DEF EmbeddedAt
<1>3. ASSUME NEW t \in todo[c], NEW v, Own(v, t), pc' = [pc EXCEPT ![c] = "insert"],
             cur' = [cur EXCEPT ![c] = t], emb' = [emb EXCEPT ![c][t] = v]
      PROVE  EmbeddedAt(c)'
  <2>1. t \in Texts /\ pc'[c] = "insert" /\ cur'[c] = t /\ emb'[c][t] = v
    BY <1>0, <1>3
  <2> QED
    BY <1>3, <2>1 DEF EmbeddedAt, Own
<1> QED
  BY <1>1, <1>2, <1>3

LEMMA SelectEmbedded ==
    ASSUME Sound, NEW c \in Clients, SelectFacts(c) PROVE EmbeddedAt(c)'
<1>0. pc \in [Clients -> Steps] /\ emb \in [Clients -> [Texts -> Vectors]]
      /\ todo \in [Clients -> SUBSET Texts]
  BY DEF Sound, Shape, TypeOK
<1>1. \E new, out :
        /\ todo' = [todo EXCEPT ![c] = new]
        /\ emb' = [emb EXCEPT ![c] = [t \in Texts |-> IF t \in new \ out THEN Embedding(t) ELSE NoVec]]
  <2>1. PICK found \in Lookups(Request(c).facts) :
          /\ todo' = [todo EXCEPT ![c] = Request(c).facts \ found]
          /\ \E out \in SUBSET (Request(c).facts \ found) :
               emb' = [emb EXCEPT ![c] = [t \in Texts |->
                         IF t \in (Request(c).facts \ found) \ out THEN Embedding(t) ELSE NoVec]]
    BY DEF SelectFacts
  <2> DEFINE new == Request(c).facts \ found
  <2>2. PICK out \in SUBSET new :
          emb' = [emb EXCEPT ![c] = [t \in Texts |-> IF t \in new \ out THEN Embedding(t) ELSE NoVec]]
    BY <2>1
  <2>3. todo' = [todo EXCEPT ![c] = new]
    BY <2>1
  <2> HIDE DEF new
  <2> QED
    BY <2>2, <2>3
<1>2. pc' = [pc EXCEPT ![c] = "batch"] /\ todo'[c] \subseteq Texts
  BY ClientSound DEF SelectFacts, Add, Sound, Shape, TypeOK
<1>3. pc'[c] = "batch" /\ \A t \in todo'[c] : emb'[c][t] \in {NoVec, Embedding(t)}
  BY <1>0, <1>1, <1>2
<1> QED
  BY <1>3 DEF EmbeddedAt, Own, Embedding

\* Of the facts of a batch, those are left that have not been tried.
LEMMA InsertEmbedded ==
    ASSUME Sound, NEW c \in Clients, EmbeddedAt(c), InsertBatch(c) \/ InsertSingle(c)
    PROVE  EmbeddedAt(c)'
<1>0. /\ pc \in [Clients -> Steps] /\ todo \in [Clients -> SUBSET Texts]
      /\ emb \in [Clients -> [Texts -> Vectors]]
  BY DEF Sound, Shape, TypeOK
<1>1. pc[c] \in {"batch", "single"} /\ \A t \in Texts : emb'[c][t] \in {NoVec, emb[c][t]}
  <2>1. ASSUME InsertBatch(c) PROVE \A t \in Texts : emb'[c][t] \in {NoVec, emb[c][t]}
    <3>1. emb' = emb \/ emb' = [emb EXCEPT ![c] = [t \in Texts |-> NoVec]]
      BY <2>1 DEF InsertBatch, Spent
    <3> QED
      BY <1>0, <3>1
  <2>2. ASSUME InsertSingle(c) PROVE \A t \in Texts : emb'[c][t] \in {NoVec, emb[c][t]}
    <3>1. PICK t \in todo[c] : emb' = [emb EXCEPT ![c][t] = NoVec]
      BY <2>2 DEF InsertSingle
    <3> QED
      BY <1>0, <3>1
  <2> QED
    BY <2>1, <2>2 DEF InsertBatch, InsertSingle
<1>2. todo'[c] \subseteq todo[c]
  <2>1. ASSUME InsertBatch(c) PROVE todo'[c] \subseteq todo[c]
    BY <1>0, <2>1 DEF InsertBatch
  <2>2. ASSUME InsertSingle(c) PROVE todo'[c] \subseteq todo[c]
    BY <1>0, <2>2 DEF InsertSingle
  <2> QED
    BY <2>1, <2>2
<1>3. pc'[c] \in {"single", "record"}
  BY <1>0 DEF InsertBatch, InsertSingle
<1>4. \A t \in todo'[c] : Own(emb'[c][t], t)
  BY <1>0, <1>1, <1>2 DEF EmbeddedAt, Own
<1> QED
  BY <1>3, <1>4 DEF EmbeddedAt, Own, Embedding

LEMMA ReadEmbedded ==
    ASSUME Sound, NEW c \in Clients, ReadForUpdate(c)
    PROVE  /\ EmbeddedAt(c)'
           /\ pc'[c] = "write" =>
                /\ row' = row /\ Request(c)' = Request(c) /\ row[Request(c).id] # Absent
                /\ got'[c] = row[Request(c).id]
<1> DEFINE r == Request(c)
<1>0. pc \in [Clients -> Steps] /\ emb \in [Clients -> [Texts -> Vectors]]
      /\ got \in [Clients -> Rows \cup {Absent}]
  BY DEF Sound, Shape, TypeOK
<1>1. r \in IdCalls /\ r.text \in Texts
  BY CalledTyped DEF ReadForUpdate, Sound, Shape, IdCalls
<1>2. PICK v \in {NoVec} \cup (IF r.op = "update" THEN {Embedding(r.text)} ELSE {}) :
        \/ pc' = [pc EXCEPT ![c] = "idle"]
        \/ /\ row[r.id] # Absent /\ got' = [got EXCEPT ![c] = row[r.id]]
           /\ emb' = [emb EXCEPT ![c][r.text] = v] /\ pc' = [pc EXCEPT ![c] = "write"]
           /\ pos' = pos /\ row' = row
  BY DEF ReadForUpdate, Ended
<1>3. CASE pc' = [pc EXCEPT ![c] = "idle"]
  BY <1>0, <1>3 DEF EmbeddedAt
<1>4. CASE /\ row[r.id] # Absent /\ got' = [got EXCEPT ![c] = row[r.id]]
           /\ emb' = [emb EXCEPT ![c][r.text] = v] /\ pc' = [pc EXCEPT ![c] = "write"]
           /\ pos' = pos /\ row' = row
  <2>1. /\ pc'[c] = "write" /\ Request(c)' = r /\ got'[c] = row[r.id] /\ row[r.id] # Absent
        /\ row' = row
    BY <1>0, <1>4 DEF Request
  <2>2. emb'[c][r.text] = v
    BY <1>0, <1>1, <1>4
  <2>3. NewVector(c)' = v
    BY <2>1, <2>2 DEF NewVector
  <2>4. Own(v, r.text) /\ (r.op = "meta" => v = NoVec)
    BY DEF Own
  <2> HIDE DEF r
  <2>5. EmbeddedAt(c)'
    BY <2>1, <2>3, <2>4 DEF EmbeddedAt, Own, Embedding
  <2> QED
    BY <2>1, <2>5 DEF r
<1> QED
  BY <1>2, <1>3, <1>4

LEMMA ClientEmbedded ==
    ASSUME Sound, Embedded, NEW c \in Clients, Add(c) \/ Change(c)
    PROVE  Embedded'
<1>1. EmbeddedAt(c)'
  <2>1. ASSUME pc'[c] \notin {"insert", "batch", "single", "write"} PROVE EmbeddedAt(c)'
    BY <2>1 DEF EmbeddedAt
  <2>2. EmbeddedAt(c)
    BY DEF Embedded
  <2> QED
    BY <2>1, <2>2, Elsewhere, ExamineEmbedded, SelectEmbedded, InsertEmbedded, ReadEmbedded
       DEF Add, Change
<1>2. ASSUME NEW d \in Clients \ {c} PROVE EmbeddedAt(d)'
  <2>1. /\ pc'[d] = pc[d] /\ pos'[d] = pos[d] /\ cur'[d] = cur[d] /\ todo'[d] = todo[d]
        /\ emb'[d] = emb[d]
    BY ClientOthers, OthersEmbeddings DEF Others
  <2>2. Request(d)' = Request(d) /\ EmbeddedAt(d)
    BY <2>1 DEF Request, Embedded
  <2>3. NewVector(d)' = NewVector(d)
    BY <2>1, <2>2 DEF NewVector
  <2> QED
    BY <2>1, <2>2, <2>3 DEF EmbeddedAt, Own, Embedding
<1> QED
  BY <1>1, <1>2 DEF Embedded

LEMMA WriteBegins ==
    ASSUME Sound, NEW c \in Clients, Add(c) \/ Change(c), pc'[c] = "write" PROVE ReadForUpdate(c)
<1>0. pc \in [Clients -> Steps]
  BY DEF Sound, Shape, TypeOK
<1>1. ASSUME ExamineMessage(c) PROVE pc'[c] # "write"
  <2>1. pc[c] = "raw" /\ (pc' = pc \/ pc' = [pc EXCEPT ![c] = "insert"])
    BY <1>1 DEF ExamineMessage
  <2> QED
    BY <1>0, <2>1
<1>2. ASSUME SelectFacts(c) \/ InsertBatch(c) \/ InsertSingle(c) PROVE pc'[c] # "write"
  BY <1>0, <1>2 DEF SelectFacts, InsertBatch, InsertSingle
<1> QED
  BY <1>1, <1>2, Elsewhere DEF Add, Change

\* Nobody but its own client changes a memory that is not contested while it is being updated.
LEMMA ClientRead ==
    ASSUME Sound, Embedded, StillRead, store.existing # "replace",
           NEW c \in Clients, Add(c) \/ Change(c)
    PROVE  StillRead'
<1>1. ReadAt(c)'
  <2>1. ASSUME pc'[c] # "write" PROVE ReadAt(c)'
    BY <2>1 DEF ReadAt
  <2>2. ASSUME ReadForUpdate(c) PROVE ReadAt(c)'
    BY <2>1, <2>2, ReadEmbedded DEF ReadAt
  <2> QED
    BY <2>1, <2>2, WriteBegins
<1>2. ASSUME NEW d \in Clients \ {c} PROVE ReadAt(d)'
  <2>1. pc'[d] = pc[d] /\ pos'[d] = pos[d] /\ got'[d] = got[d] /\ Request(d)' = Request(d)
    BY ClientOthers DEF Others, Request
  <2>2. SUFFICES ASSUME pc[d] = "write", Request(d).id \notin Contested
                 PROVE  LET r == row'[Request(d).id] IN
                        r # Absent /\ r.text = got[d].text /\ r.pending = got[d].pending
    BY <2>1 DEF ReadAt, Contested
  <2> DEFINE id == Request(d).id
  <2>3. row[id] # Absent /\ row[id].text = got[d].text /\ row[id].pending = got[d].pending
    BY <2>2 DEF StillRead, ReadAt
  <2>4. /\ id \in Texts /\ Request(d).op \in {"update", "meta"} /\ pos[d] \in DOMAIN Requests[d]
    BY <2>2, EngineAssumption DEF Sound, Shape, Calls, IdCalls
  <2>5. ASSUME pc[c] \in {"remove", "write"} PROVE id # Request(c).id
    <3>1. /\ Request(c).op \in {"update", "meta", "delete"} /\ pos[c] \in DOMAIN Requests[c]
      BY <2>5, EngineAssumption DEF Sound, Shape, Calls, IdCalls
    <3> QED
      BY <2>2, <2>4, <3>1 DEF Contested, Request
  <2>6. RowStep(c, id)
    BY <2>4, ClientRows
  <2> HIDE DEF id
  <2>7. row'[id] = row[id]
    BY <2>3, <2>5, <2>6 DEF RowStep
  <2> QED
    BY <2>3, <2>7 DEF id
<1> QED
  BY <1>1, <1>2 DEF StillRead

LEMMA ClientGenuine ==
    ASSUME Sound, Genuine, NEW c \in Clients, Add(c) \/ Change(c)
    PROVE  Genuine'
<1>1. store' = store /\ script' = script
  BY ClientKeeps
<1>2. SUFFICES ASSUME store.existing # "replace"
               PROVE  Embedded' /\ StillRead' /\ Scanned' /\ Unscanned' /\ CleanRows'
  BY <1>1 DEF Genuine
<1>3. Embedded /\ StillRead /\ Scanned /\ Unscanned /\ CleanRows /\ EmbeddedAt(c)
  BY <1>2 DEF Genuine, Embedded
<1>4. Embedded' /\ StillRead'
  BY <1>2, <1>3, ClientEmbedded, ClientRead
<1>5. Scanned'
  BY <1>1, <1>3 DEF Scanned, Fresh, Clean, Contested
<1>6. ASSUME NEW t \in Texts, row[t] # Absent => Fresh(row[t]), row'[t] # Absent
      PROVE  Fresh(row'[t])
  <2>1. CASE row'[t] = row[t]
    BY <1>6, <2>1
  <2>2. ASSUME NEW v, Own(v, t), row'[t] = NewRow(t, v) PROVE Fresh(row'[t])
    BY <2>2, NewRowClean
  <2>3. ASSUME pc[c] = "write", row[t] # Absent, row'[t] = Written(c, row[t]) PROVE Fresh(row'[t])
    BY <1>3, <2>3, StateTyped, WrittenClean
  <2>4. ASSUME row'[t] = Recreated(c) PROVE Fresh(row'[t])
    <3>1. row'[t].pending = MarksPending(c) /\ row'[t].vec = NewVector(c)
      BY <2>4 DEF Recreated
    <3> QED
      BY <3>1 DEF Fresh, MarksPending
  <2> QED
    BY <1>2, <1>3, <1>6, <2>1, <2>2, <2>3, <2>4, ClientRows DEF RowStep
<1>7. Unscanned'
  BY <1>1, <1>3, <1>6 DEF Unscanned
<1>8. ASSUME NEW t \in Texts \ Contested, row[t] # Absent => Clean(row[t]), row'[t] # Absent
      PROVE  Clean(row'[t])
  <2>1. CASE row'[t] = row[t]
    BY <1>8, <2>1
  <2>2. ASSUME NEW v, Own(v, t), row'[t] = NewRow(t, v) PROVE Clean(row'[t])
    BY <2>2, NewRowClean
  <2>3. ASSUME pc[c] = "write", t = Request(c).id, row[t] # Absent, row'[t] = Written(c, row[t])
        PROVE  Clean(row'[t])
    <3>1. row[t].text = got[c].text /\ row[t].pending = got[c].pending
      BY <1>3, <1>8, <2>3 DEF StillRead, ReadAt
    <3> QED
      BY <1>3, <1>8, <2>3, <3>1, StateTyped, WrittenClean
  <2>4. ASSUME pc[c] = "write", t = Request(c).id, row[t] = Absent PROVE FALSE
    BY <1>3, <1>8, <2>4 DEF StillRead, ReadAt
  <2> QED
    BY <1>2, <1>3, <1>8, <2>1, <2>2, <2>3, <2>4, ClientRows DEF RowStep
<1>9. CleanRows'
  BY <1>1, <1>3, <1>8 DEF CleanRows, Contested
<1> QED
  BY <1>4, <1>5, <1>7, <1>9

-----------------------------------------------------------------------------
(* The steps of the script. *)

\* The script leaves what clients are doing alone, and the texts of the memories.
LEMMA ScriptRead ==
    ASSUME UNCHANGED scriptOnly,
           \A t \in Texts : row'[t] = Absent <=> row[t] = Absent,
           \A t \in Texts : row[t] # Absent =>
             row'[t].text = row[t].text /\ row'[t].pending = row[t].pending,
           Embedded, StillRead, Sound
    PROVE  Embedded' /\ StillRead'
<1>1. UNCHANGED <<pc, pos, todo, cur, emb, got>>
  BY DEF scriptOnly, clientVars
<1>2. \A c \in Clients : Request(c)' = Request(c) /\ NewVector(c)' = NewVector(c)
  BY <1>1 DEF Request, NewVector
<1>3. Embedded'
  BY <1>1, <1>2 DEF Embedded, EmbeddedAt, Own, Embedding
<1>4. ASSUME NEW c \in Clients PROVE ReadAt(c)'
  <2>1. pc[c] = "write" => Request(c).id \in Texts
    BY WriteTyped
  <2> QED
    BY <1>1, <1>2, <2>1 DEF StillRead, ReadAt, Contested
<1> QED
  BY <1>3, <1>4 DEF StillRead

LEMMA ScriptLeaves ==
    ASSUME UNCHANGED <<row, scriptOnly>>, Genuine, Sound,
           Scanned /\ Unscanned /\ CleanRows => Scanned' /\ Unscanned' /\ CleanRows'
    PROVE  Genuine'
<1>1. store' = store
  BY DEF scriptOnly
<1> QED
  BY <1>1, ScriptRead DEF Genuine

LEMMA StartScriptGenuine == ASSUME Sound, Genuine, StartScript PROVE Genuine'
<1>1. script \in Scripts /\ script' = [script EXCEPT !.at = "scan"] /\ script.at = "off"
      /\ UNCHANGED <<row, scriptOnly>>
  BY ScriptTyped DEF StartScript
<1>2. script'.at = "scan" /\ script'.restored = script.restored
  BY <1>1 DEF Scripts
<1>3. Scanned /\ Unscanned /\ CleanRows => Scanned' /\ Unscanned' /\ CleanRows'
  BY <1>1, <1>2 DEF Scanned, Unscanned, CleanRows, Contested, Fresh, Clean
<1> QED
  BY <1>1, <1>3, ScriptLeaves

\* A step after which nothing is left that has been scanned.
LEMMA StoppedGenuine ==
    ASSUME Sound, Genuine, UNCHANGED <<row, scriptOnly>>, script'.restored = script.restored,
           script'.at \in {"done", "stopped", "restore", "refused", "restored"}
    PROVE  Genuine'
<1>1. Scanned /\ Unscanned /\ CleanRows => Scanned' /\ Unscanned' /\ CleanRows'
  BY DEF Scanned, Unscanned, CleanRows, Contested, Fresh, Clean
<1> QED
  BY <1>1, ScriptLeaves

LEMMA StoppedFields == ASSUME Sound PROVE Stopped.at = "stopped" /\ Stopped.restored = script.restored
<1>1. script \in Scripts
  BY ScriptTyped
<1> HIDE DEF Sound
<1> QED
  BY <1>1 DEF Stopped, Scripts

LEMMA CrashGenuine == ASSUME Sound, Genuine, Crash PROVE Genuine'
BY StoppedFields, StoppedGenuine DEF Crash

LEMMA StartRollbackGenuine == ASSUME Sound, Genuine, StartRollback PROVE Genuine'
<1>1. script \in Scripts /\ UNCHANGED <<row, scriptOnly>>
      /\ \/ script' = [script EXCEPT !.at = "refused"]
         \/ script' = [script EXCEPT !.at = "restore", !.left = DOMAIN script.backup, !.failed = {}]
  BY ScriptTyped DEF StartRollback
<1>2. script'.at \in {"refused", "restore"} /\ script'.restored = script.restored
  BY <1>1 DEF Scripts
<1> QED
  BY <1>1, <1>2, StoppedGenuine

\* What is scanned is clean, for the scan has not been there before.
LEMMA ScanGenuine == ASSUME Sound, Genuine, Scan PROVE Genuine'
<1>1. /\ \/ /\ script' = [script EXCEPT !.at = "done", !.after = 0]
         \/ /\ Rest # {}
            /\ script' = [script EXCEPT !.at = "embed", !.after = Rank[Highest(Page)],
                                        !.batch = [t \in Page |-> row[t]], !.backup = Appended(Page)]
         \/ /\ script' \in {[Stopped EXCEPT !.backup = Appended(part)] : part \in SUBSET Page}
                           \cup {[Stopped EXCEPT !.backup = <<>>, !.torn = TRUE]}
      /\ UNCHANGED <<row, scriptOnly>> /\ script.at = "scan" /\ script \in Scripts
  BY ScriptTyped DEF Scan, Rest, Page
<1>2. CASE script' = [script EXCEPT !.at = "done", !.after = 0]
  <2>1. script'.at = "done" /\ script'.restored = script.restored
    BY <1>1, <1>2 DEF Scripts
  <2> QED
    BY <1>1, <2>1, StoppedGenuine
<1>3. CASE script' \in {[Stopped EXCEPT !.backup = Appended(part)] : part \in SUBSET Page}
                       \cup {[Stopped EXCEPT !.backup = <<>>, !.torn = TRUE]}
  <2>1. Stopped \in Scripts
    BY StoppedTyped
  <2>2. script'.at = Stopped.at /\ script'.restored = Stopped.restored
    <3>1. \A x : /\ [Stopped EXCEPT !.backup = x].at = Stopped.at
                 /\ [Stopped EXCEPT !.backup = x].restored = Stopped.restored
                 /\ [Stopped EXCEPT !.backup = x, !.torn = TRUE].at = Stopped.at
                 /\ [Stopped EXCEPT !.backup = x, !.torn = TRUE].restored = Stopped.restored
      BY <2>1 DEF Scripts
    <3> QED
      BY <1>3, <3>1
  <2> QED
    BY <1>1, <2>2, StoppedFields, StoppedGenuine
<1>4. CASE /\ Rest # {}
           /\ script' = [script EXCEPT !.at = "embed", !.after = Rank[Highest(Page)],
                                       !.batch = [t \in Page |-> row[t]], !.backup = Appended(Page)]
  <2> DEFINE batch == [t \in Page |-> row[t]]
             last == Rank[Highest(Page)]
  <2>1. /\ Page \subseteq Texts /\ Highest(Page) \in Page
        /\ \A t \in Page : row[t] # Absent /\ Rank[t] > script.after
    BY <1>4, PageThm
  <2>2. last \in Nat /\ last > script.after /\ script.after \in Nat
        /\ \A t \in Texts : Rank[t] \in Nat
    BY <1>1, <2>1, EngineAssumption DEF Scripts
  <2>3. /\ script'.at = "embed" /\ script'.after = last /\ script'.batch = batch
        /\ script'.restored = script.restored
    BY <1>1, <1>4 DEF Scripts
  <2>4. DOMAIN batch = Page /\ \A t \in Page : batch[t] = row[t]
    OBVIOUS
  <2> HIDE DEF batch, last
  <2>5. ASSUME Scanned, Unscanned, CleanRows PROVE Scanned' /\ Unscanned' /\ CleanRows'
    <3>1. script.restored = {}
      BY <1>1, <2>5 DEF Scanned
    <3>2. \A t \in Page : Fresh(row[t]) /\ (t \notin Contested => Clean(row[t]))
      BY <1>1, <2>1, <2>5, <3>1 DEF Unscanned, CleanRows
    <3>3. Scanned'
      BY <2>3, <2>4, <3>1, <3>2 DEF Scanned, Fresh, Clean, Contested
    <3>4. \A t \in Texts : Rank[t] > last => Rank[t] > script.after
      BY <2>2
    <3>5. Unscanned'
      BY <1>1, <2>3, <2>5, <3>4 DEF Unscanned, Fresh
    <3> QED
      BY <1>1, <2>3, <2>5, <3>3, <3>5 DEF CleanRows, Contested, Clean
  <2> QED
    BY <1>1, <2>5, ScriptLeaves
<1> QED
  BY <1>1, <1>2, <1>3, <1>4

\* The vector of a row that is still the one that was scanned says whose text it was computed from.
LEMMA UpdateVectorsGenuine == ASSUME Sound, Kept, Genuine, UpdateVectors PROVE Genuine'
<1>1. /\ script \in Scripts /\ script.at = "embed" /\ UNCHANGED scriptOnly
      /\ script' = [script EXCEPT !.at = "scan", !.batch = <<>>]
  BY ScriptTyped DEF UpdateVectors
<1>2. /\ script'.at = "scan" /\ script'.after = script.after /\ script'.restored = script.restored
  BY <1>1 DEF Scripts
<1>3. /\ \A t \in Texts : row'[t] = Absent <=> row[t] = Absent
      /\ \A t \in Texts \ DOMAIN script.batch : row'[t] = row[t]
      /\ \A t \in Texts : row[t] # Absent =>
           row'[t].text = row[t].text /\ row'[t].pending = row[t].pending
  BY UpdateVectorsSound
<1>4. store' = store
  BY <1>1 DEF scriptOnly
<1>5. SUFFICES ASSUME store.existing # "replace", Embedded, StillRead, Scanned, Unscanned, CleanRows
               PROVE  Embedded' /\ StillRead' /\ Scanned' /\ Unscanned' /\ CleanRows'
  BY <1>4 DEF Genuine
<1>6. Embedded' /\ StillRead'
  BY <1>1, <1>3, <1>5, ScriptRead
<1>7. Scanned'
  BY <1>1, <1>2, <1>5 DEF Scanned
<1>8. Unscanned'
  <2>1. ASSUME NEW t \in Texts, Rank[t] > script.after PROVE t \notin DOMAIN script.batch
    <3>1. t \in DOMAIN script.batch => Rank[t] <= script.after
      BY <1>1 DEF Kept
    <3>2. Rank[t] \in Nat /\ script.after \in Nat
      BY <1>1, EngineAssumption DEF Scripts
    <3> QED
      BY <2>1, <3>1, <3>2
  <2> QED
    BY <1>1, <1>2, <1>3, <1>5, <2>1 DEF Unscanned, Fresh
<1>9. ASSUME NEW t \in Texts \ Contested, row[t] # Absent, ~row[t].pending
      PROVE  row'[t].vec # NoVec /\ row'[t].vec.of = row[t].text
  <2>1. row[t].vec # NoVec /\ row[t].vec.of = row[t].text
    BY <1>1, <1>5, <1>9 DEF CleanRows, Scanned, Clean
  <2>2. CASE row'[t] = row[t]
    BY <2>1, <2>2
  <2>3. CASE row'[t] # row[t]
    <3>1. t \in DOMAIN script.batch
      BY <1>3, <2>3
    <3>2. row[t].vec = script.batch[t].vec /\ row'[t] = [row[t] EXCEPT !.vec = Embedding(script.batch[t].text)]
      BY <2>3 DEF UpdateVectors, Unchanged
    <3>3. row[t] \in Rows /\ script.batch[t].text \in Texts
      BY <1>9, <3>1, StateTyped, ScriptTyped DEF Rows
    <3>4. row'[t].vec = Embedding(script.batch[t].text)
      BY <3>2, <3>3 DEF Rows
    <3>5. Fresh(script.batch[t]) /\ Clean(script.batch[t])
      BY <1>1, <1>5, <1>9, <3>1 DEF Scanned
    <3>6. script.batch[t].text = row[t].text
      BY <2>1, <3>2, <3>5 DEF Fresh, Clean
    <3> QED
      BY <3>3, <3>4, <3>6, EmbeddingIsVector
  <2> QED
    BY <2>2, <2>3
<1>10. CleanRows'
  <2>1. ASSUME NEW t \in Texts \ Contested, row'[t] # Absent PROVE Clean(row'[t])
    <3>1. row[t] # Absent /\ row'[t].text = row[t].text /\ row'[t].pending = row[t].pending
      BY <1>3, <2>1
    <3> QED
      BY <1>9, <3>1 DEF Clean
  <2> QED
    BY <2>1 DEF CleanRows, Contested, Clean
<1> QED
  BY <1>6, <1>7, <1>8, <1>10

LEMMA RestoreGenuine == ASSUME Sound, Kept, Genuine, Restore PROVE Genuine'
<1>1. UNCHANGED scriptOnly /\ script.at = "restore" /\ script \in Scripts
  BY ScriptTyped DEF Restore
<1>2. \/ /\ row' = row
         /\ \/ script' = [script EXCEPT !.at = "restored"]
            \/ \E page : script' = [script EXCEPT !.left = @ \ page, !.failed = @ \cup page]
      \/ \E page \in SUBSET script.left :
           /\ script' = [script EXCEPT !.left = @ \ page, !.restored = @ \cup page]
           /\ \A t \in Texts \ page : row'[t] = row[t]
           /\ \A t \in page : /\ row'[t].text = row[t].text
                              /\ row'[t].pending = row[t].pending
  BY RestoreSound DEF Kept
<1>3. \A t \in Texts : row'[t] = Absent <=> row[t] = Absent
  BY RestoreSound DEF Kept
<1>4. CASE row' = row /\ script' = [script EXCEPT !.at = "restored"]
  <2>1. script'.at = "restored" /\ script'.restored = script.restored
    BY <1>1, <1>4 DEF Scripts
  <2> QED
    BY <1>1, <1>4, <2>1, StoppedGenuine
<1>5. ASSUME NEW page, row' = row, script' = [script EXCEPT !.left = @ \ page, !.failed = @ \cup page]
      PROVE  Genuine'
  <2>1. script'.at = "restore" /\ script'.restored = script.restored
    BY <1>1, <1>5 DEF Scripts
  <2> QED
    BY <1>1, <1>5, <2>1, StoppedGenuine
<1>6. ASSUME NEW page \in SUBSET script.left,
             script' = [script EXCEPT !.left = @ \ page, !.restored = @ \cup page],
             \A t \in Texts \ page : row'[t] = row[t],
             \A t \in page : row'[t].text = row[t].text /\ row'[t].pending = row[t].pending
      PROVE  Genuine'
  <2>1. script'.at = "restore" /\ script'.restored = script.restored \cup page
    BY <1>1, <1>6 DEF Scripts
  <2>2. store' = store
    BY <1>1 DEF scriptOnly
  <2>3. SUFFICES ASSUME store.existing # "replace", Embedded, StillRead, Scanned, Unscanned, CleanRows
                 PROVE  Embedded' /\ StillRead' /\ Scanned' /\ Unscanned' /\ CleanRows'
    BY <2>2 DEF Genuine
  <2>4. Embedded' /\ StillRead'
    BY <1>1, <1>3, <1>6, <2>3, ScriptRead
  <2>5. Scanned' /\ Unscanned'
    BY <2>1 DEF Scanned, Unscanned
  <2>6. CleanRows'
    BY <1>6, <2>1, <2>3 DEF CleanRows, Contested, Clean
  <2> QED
    BY <2>4, <2>5, <2>6
<1> QED
  BY <1>2, <1>4, <1>5, <1>6

-----------------------------------------------------------------------------
LEMMA InitGenuine == ASSUME Init PROVE Genuine
<1>1. Embedded /\ StillRead
  BY DEF Init, Embedded, EmbeddedAt, StillRead, ReadAt
<1>2. script.at = "off" /\ script.restored = {}
  BY DEF Init
<1>3. ASSUME NEW t \in Texts, row[t] # Absent PROVE Fresh(row[t]) /\ Clean(row[t])
  <2> DEFINE v == [of |-> t, by |-> "old"]
  <2>1. row[t] = NewRow(t, v)
    BY <1>3 DEF Init
  <2>2. v # NoVec /\ v.of = t
    BY EngineAssumption
  <2> HIDE DEF v
  <2>3. row[t].text = t /\ row[t].vec = v /\ row[t].pending = (v = NoVec)
    BY <2>1 DEF NewRow
  <2> QED
    BY <2>2, <2>3 DEF Fresh, Clean
<1>4. Scanned /\ Unscanned /\ CleanRows
  BY <1>2, <1>3 DEF Scanned, Unscanned, CleanRows
<1> QED
  BY <1>1, <1>4 DEF Genuine

LEMMA NextGenuine == Sound /\ Kept /\ Genuine /\ [Next]_vars => Genuine'
<1> SUFFICES ASSUME Sound, Kept, Genuine, [Next]_vars PROVE Genuine'
  OBVIOUS
<1>1. CASE UNCHANGED vars
  <2>1. UNCHANGED <<row, scriptOnly, script>>
    BY <1>1 DEF vars, scriptOnly
  <2>2. Scanned /\ Unscanned /\ CleanRows => Scanned' /\ Unscanned' /\ CleanRows'
    BY <2>1 DEF Scanned, Unscanned, CleanRows, Fresh, Clean, Contested
  <2> QED
    BY <2>1, <2>2, ScriptLeaves
<1>2. ASSUME NEW c \in Clients, Add(c) \/ Change(c) PROVE Genuine'
  BY <1>2, ClientGenuine
<1>3. CASE Script
  BY <1>3, StartScriptGenuine, ScanGenuine, UpdateVectorsGenuine, CrashGenuine, StartRollbackGenuine,
     RestoreGenuine DEF Script
<1> QED
  BY <1>1, <1>2, <1>3 DEF Next

\* CleanVector: in stores whose inserts do not replace rows, a memory that is not marked pending has
\* the vector of its text, whatever adds race, the provider fails, or the script re-embeds meanwhile,
\* unless it was rolled back, or one client updates it while another changes it.
THEOREM CleanVectorThm == Spec => []CleanVector
<1>1. Genuine => CleanVector
  BY DEF Genuine, CleanRows, Clean, CleanVector
<1> QED
  BY InitSound, NextSound, InitGenuine, NextGenuine, <1>1, PTL DEF Spec

-----------------------------------------------------------------------------
(* Retries.  A client counts an add from the moment it has stored the memory; so adds outnumber  *)
(* deletes by no more than the row that is there.  With a primary key the store sees to it; in   *)
(* the other stores, for one process and a memory that no call overlooks, the lock does: between *)
(* the look at the rows and the insert no other client of the process stores the memory.         *)

NotedBy(e, id, ps) == {i \in DOMAIN hist[id] : hist[id][i].event = e /\ hist[id][i].proc \in ps}
AddingBy(id, ps) ==
    {c \in Clients : Proc[c] \in ps /\ ((pc[c] = "log" /\ cur[c] = id) \/ id \in saved[c])}

\* What a client stores in this step.
Puts(c, id) ==
    \/ pc[c] = "insert" /\ pc'[c] = "log" /\ cur[c] = id
    \/ pc[c] \in {"batch", "single"} /\ id \in saved'[c] \ saved[c]

LEMMA NotedByCount ==
    ASSUME hist \in [Texts -> Seq(Events)], NEW e, NEW id \in Texts, NEW ps
    PROVE  IsFiniteSet(NotedBy(e, id, ps)) /\ Cardinality(NotedBy(e, id, ps)) \in Nat
<1>1. IsFiniteSet(1..Len(hist[id])) /\ NotedBy(e, id, ps) \in SUBSET (1..Len(hist[id]))
  BY FS_Interval DEF NotedBy
<1> QED
  BY <1>1, FS_Subset, FS_CardinalityType

\* One more event in a history.
LEMMA NotedByAppend ==
    ASSUME Sound, NEW id \in Texts, NEW x \in Events, hist'[id] = Append(hist[id], x), NEW e, NEW ps
    PROVE  Cardinality(NotedBy(e, id, ps)')
             = Cardinality(NotedBy(e, id, ps)) + (IF x.event = e /\ x.proc \in ps THEN 1 ELSE 0)
<1> DEFINE s == hist[id]
           n == Len(s) + 1
<1>0. hist \in [Texts -> Seq(Events)]
  BY StateTyped
<1>1. s \in Seq(Events)
  BY <1>0
<1>2. /\ DOMAIN Append(s, x) = 1..n /\ DOMAIN s = 1..Len(s) /\ n \notin 1..Len(s)
      /\ Append(s, x)[n] = x /\ \A i \in 1..Len(s) : Append(s, x)[i] = s[i]
      /\ 1..n = (1..Len(s)) \cup {n}
  BY <1>1
<1>3. n \notin NotedBy(e, id, ps)
  BY <1>2 DEF NotedBy
<1>4. CASE x.event = e /\ x.proc \in ps
  <2>1. NotedBy(e, id, ps)' = NotedBy(e, id, ps) \cup {n}
    BY <1>2, <1>4 DEF NotedBy
  <2>2. Cardinality(NotedBy(e, id, ps)') = Cardinality(NotedBy(e, id, ps)) + 1
    BY <1>0, <1>3, <2>1, NotedByCount, FS_AddElement
  <2> QED
    BY <1>4, <2>2
<1>5. CASE ~(x.event = e /\ x.proc \in ps)
  <2>1. NotedBy(e, id, ps)' = NotedBy(e, id, ps)
    BY <1>2, <1>5 DEF NotedBy
  <2>2. Cardinality(NotedBy(e, id, ps)') = Cardinality(NotedBy(e, id, ps)) + 0
    BY <1>0, <2>1, NotedByCount
  <2> QED
    BY <1>5, <2>2
<1> QED
  BY <1>4, <1>5

LEMMA AddsParts ==
    ASSUME NEW id, NEW ps
    PROVE  Adds(id, ps) = Cardinality(NotedBy("ADD", id, ps)) + Cardinality(AddingBy(id, ps))
                            + Member(id, Seeded)
BY Zenon DEF Adds, NotedBy, AddingBy, Member

LEMMA CountsTyped ==
    ASSUME hist \in [Texts -> Seq(Events)], NEW id \in Texts, NEW ps
    PROVE  Adds(id, ps) \in Nat /\ Deletes(id) \in Nat
<1>1. Cardinality(NotedBy("ADD", id, ps)) \in Nat /\ Cardinality(Noted("DELETE", id)) \in Nat
  BY NotedByCount, NotedInCount DEF Noted
<1>2. AddingBy(id, ps) \in SUBSET Clients /\ Deleting(id) \in SUBSET Clients
  BY DEF AddingBy, Deleting
<1>3. Cardinality(AddingBy(id, ps)) \in Nat /\ Cardinality(Deleting(id)) \in Nat
  BY <1>2, EngineAssumption, FS_Subset, FS_CardinalityType
<1>4. Member(id, Seeded) \in Nat
  BY DEF Member
<1>5. Deletes(id) = Cardinality(Noted("DELETE", id)) + Cardinality(Deleting(id))
  BY Parts DEF DeletesOf
<1> QED
  BY <1>1, <1>3, <1>4, <1>5, AddsParts

\* How a step of c changes the counts: by what is noted, and by what c has yet to note.
LEMMA AddsStep ==
    ASSUME Sound, Sound', NEW c \in Clients, Others(c), NEW id \in Texts, NEW ps
    PROVE  Adds(id, ps)' + Cardinality(NotedBy("ADD", id, ps)) + Member(c, AddingBy(id, ps))
             = Adds(id, ps) + Cardinality(NotedBy("ADD", id, ps)') + Member(c, AddingBy(id, ps)')
<1> DEFINE n == Cardinality(NotedBy("ADD", id, ps))
           n1 == Cardinality(NotedBy("ADD", id, ps)')
           a == Cardinality(AddingBy(id, ps))
           a1 == Cardinality(AddingBy(id, ps)')
           m == Member(c, AddingBy(id, ps))
           m1 == Member(c, AddingBy(id, ps)')
           s == Member(id, Seeded)
<1>1. n \in Nat /\ n1 \in Nat
  <2>1. hist \in [Texts -> Seq(Events)] /\ hist' \in [Texts -> Seq(Events)]
    BY DEF Sound, Shape, TypeOK, Events
  <2>2. /\ NotedBy("ADD", id, ps) \in SUBSET (1..Len(hist[id]))
        /\ NotedBy("ADD", id, ps)' \in SUBSET (1..Len(hist'[id]))
    BY <2>1 DEF NotedBy
  <2>3. IsFiniteSet(1..Len(hist[id])) /\ IsFiniteSet(1..Len(hist'[id]))
    BY <2>1, FS_Interval
  <2> QED
    BY <2>2, <2>3, FS_Subset, FS_CardinalityType
<1>2. a \in Nat /\ a1 \in Nat /\ a1 + m = a + m1
  <2>1. AddingBy(id, ps) \in SUBSET Clients /\ AddingBy(id, ps)' \in SUBSET Clients
    BY DEF AddingBy
  <2>2. AddingBy(id, ps) \ {c} = AddingBy(id, ps)' \ {c}
    BY DEF AddingBy, Others
  <2> QED
    BY <2>1, <2>2, MovedCount
<1>3. m \in Nat /\ m1 \in Nat /\ s \in Nat
  BY DEF Member
<1>4. Adds(id, ps) = n + a + s
  BY AddsParts
<1>5. Adds(id, ps)' = n1 + a1 + s
  BY Zenon DEF Adds, NotedBy, AddingBy, Member
<1> HIDE DEF n, n1, a, a1, m, m1, s
<1>6. (n1 + a1 + s) + n + m = (n + a + s) + n1 + m1
  BY <1>1, <1>2, <1>3
<1> QED
  BY <1>4, <1>5, <1>6 DEF n, n1, m, m1

LEMMA DeletesStep ==
    ASSUME Sound, Sound', NEW c \in Clients, Others(c), NEW id \in Texts
    PROVE  Deletes(id)' + Cardinality(Noted("DELETE", id)) + Member(c, Deleting(id))
             = Deletes(id) + Cardinality(Noted("DELETE", id)') + Member(c, Deleting(id)')
<1> DEFINE n == Cardinality(Noted("DELETE", id))
           n1 == Cardinality(Noted("DELETE", id)')
           a == Cardinality(Deleting(id))
           a1 == Cardinality(Deleting(id)')
           m == Member(c, Deleting(id))
           m1 == Member(c, Deleting(id)')
<1>0. hist \in [Texts -> Seq(Events)] /\ hist' \in [Texts -> Seq(Events)]
  BY DEF Sound, Shape, TypeOK, Events
<1>1. n \in Nat /\ n1 \in Nat
  BY <1>0, NotedInCount DEF Noted
<1>2. a \in Nat /\ a1 \in Nat /\ a1 + m = a + m1
  <2>1. Deleting(id) \in SUBSET Clients /\ Deleting(id)' \in SUBSET Clients
    BY DEF Deleting
  <2> QED
    BY <2>1, OthersStay, MovedCount
<1>3. m \in Nat /\ m1 \in Nat
  BY DEF Member
<1>4. Deletes(id) = n + a
  BY <1>0, Parts DEF DeletesOf
<1>5. Deletes(id)' = n1 + a1
  <2>1. {i \in DOMAIN hist'[id] : hist'[id][i].event = "DELETE"} = Noted("DELETE", id)'
    BY <1>0, NotedInCount DEF Noted
  <2> QED
    BY <2>1, Zenon DEF Deletes, Deleting
<1> HIDE DEF n, n1, a, a1, m, m1
<1>6. (n1 + a1) + n + m = (n + a) + n1 + m1
  BY <1>1, <1>2, <1>3
<1> QED
  BY <1>4, <1>5, <1>6 DEF n, n1, m, m1

\* A step changes the counts by what it stores, or removes.
Counted(c, id, ps) ==
    /\ Adds(id, ps)' = Adds(id, ps) + (IF Proc[c] \in ps /\ Puts(c, id) THEN 1 ELSE 0)
    /\ Deletes(id)' = Deletes(id) + (IF pc[c] = "remove" /\ Request(c).id = id THEN 1 ELSE 0)

\* What a client has yet to note of its adds and deletes.
LEMMA MineBy ==
    ASSUME NEW c \in Clients, NEW id, NEW ps
    PROVE  /\ Member(c, AddingBy(id, ps)) =
                IF Proc[c] \in ps /\ ((pc[c] = "log" /\ cur[c] = id) \/ id \in saved[c]) THEN 1 ELSE 0
           /\ Member(c, AddingBy(id, ps)') =
                IF Proc[c] \in ps /\ ((pc'[c] = "log" /\ cur'[c] = id) \/ id \in saved'[c])
                  THEN 1 ELSE 0
BY DEF Member, AddingBy

\* Two counts follow from what has become of the history, and of the client.
LEMMA Count ==
    ASSUME Sound, Sound', NEW c \in Clients, Others(c), NEW id \in Texts, NEW ps,
           Cardinality(NotedBy("ADD", id, ps)') + Member(c, AddingBy(id, ps)')
             = Cardinality(NotedBy("ADD", id, ps)) + Member(c, AddingBy(id, ps))
                 + (IF Proc[c] \in ps /\ Puts(c, id) THEN 1 ELSE 0),
           Cardinality(Noted("DELETE", id)') + Member(c, Deleting(id)')
             = Cardinality(Noted("DELETE", id)) + Member(c, Deleting(id))
                 + (IF pc[c] = "remove" /\ Request(c).id = id THEN 1 ELSE 0)
    PROVE  Counted(c, id, ps)
<1> DEFINE n == Cardinality(NotedBy("ADD", id, ps))
           n1 == Cardinality(NotedBy("ADD", id, ps)')
           m == Member(c, AddingBy(id, ps))
           m1 == Member(c, AddingBy(id, ps)')
           x == Adds(id, ps)
           x1 == Adds(id, ps)'
           k == IF Proc[c] \in ps /\ Puts(c, id) THEN 1 ELSE 0
           o == Cardinality(Noted("DELETE", id))
           o1 == Cardinality(Noted("DELETE", id)')
           l == Member(c, Deleting(id))
           l1 == Member(c, Deleting(id)')
           y == Deletes(id)
           y1 == Deletes(id)'
           j == IF pc[c] = "remove" /\ Request(c).id = id THEN 1 ELSE 0
<1>0. hist \in [Texts -> Seq(Events)] /\ hist' \in [Texts -> Seq(Events)]
  BY DEF Sound, Shape, TypeOK, Events
<1>1. n \in Nat /\ o \in Nat /\ x \in Nat /\ y \in Nat
  BY <1>0, NotedByCount, NotedInCount, CountsTyped DEF Noted
<1>2. n1 \in Nat /\ o1 \in Nat
  <2>1. NotedBy("ADD", id, ps)' \in SUBSET (1..Len(hist'[id]))
    BY <1>0 DEF NotedBy
  <2>2. IsFiniteSet(1..Len(hist'[id]))
    BY <1>0, FS_Interval
  <2> QED
    BY <1>0, <2>1, <2>2, NotedInCount, FS_Subset, FS_CardinalityType DEF Noted
<1>3. m \in Nat /\ m1 \in Nat /\ l \in Nat /\ l1 \in Nat /\ k \in Nat /\ j \in Nat
  BY DEF Member
<1>4. x1 \in Nat /\ y1 \in Nat
  <2>1. /\ Adds(id, ps)' = n1 + Cardinality(AddingBy(id, ps)') + Member(id, Seeded)
        /\ Deletes(id)' = o1 + Cardinality(Deleting(id)')
    <3>1. {i \in DOMAIN hist'[id] : hist'[id][i].event = "DELETE"} = Noted("DELETE", id)'
      BY <1>0, NotedInCount DEF Noted
    <3>2. Deletes(id)' = o1 + Cardinality(Deleting(id)')
      BY <3>1, Zenon DEF Deletes, Deleting
    <3>3. Adds(id, ps)' = n1 + Cardinality(AddingBy(id, ps)') + Member(id, Seeded)
      BY Zenon DEF Adds, NotedBy, AddingBy, Member
    <3> QED
      BY <3>2, <3>3
  <2>2. AddingBy(id, ps)' \in SUBSET Clients /\ Deleting(id)' \in SUBSET Clients
    BY DEF AddingBy, Deleting
  <2>3. Cardinality(AddingBy(id, ps)') \in Nat /\ Cardinality(Deleting(id)') \in Nat
    BY <2>2, EngineAssumption, FS_Subset, FS_CardinalityType
  <2>4. Member(id, Seeded) \in Nat
    BY DEF Member
  <2> HIDE DEF n1, o1
  <2> QED
    BY <1>2, <2>1, <2>3, <2>4
<1>5. x1 + n + m = x + n1 + m1 /\ y1 + o + l = y + o1 + l1
  BY AddsStep, DeletesStep
<1>6. n1 + m1 = n + m + k /\ o1 + l1 = o + l + j
  OBVIOUS
<1> HIDE DEF n, n1, m, m1, x, x1, k, o, o1, l, l1, y, y1, j
<1>7. x1 = x + k /\ y1 = y + j
  <2>1. x1 = x + k
    <3>1. /\ x \in Nat /\ x1 \in Nat /\ n \in Nat /\ n1 \in Nat
          /\ m \in Nat /\ m1 \in Nat /\ k \in Nat
      BY <1>1, <1>2, <1>3, <1>4
    <3>2. x1 + n + m = x + n1 + m1 /\ n1 + m1 = n + m + k
      BY <1>5, <1>6
    <3> QED
      BY <3>1, <3>2
  <2>2. y1 = y + j
    <3>1. /\ y \in Nat /\ y1 \in Nat /\ o \in Nat /\ o1 \in Nat
          /\ l \in Nat /\ l1 \in Nat /\ j \in Nat
      BY <1>1, <1>2, <1>3, <1>4
    <3>2. y1 + o + l = y + o1 + l1 /\ o1 + l1 = o + l + j
      BY <1>5, <1>6
    <3> QED
      BY <3>1, <3>2
  <2> QED
    BY <2>1, <2>2
<1> QED
  BY <1>7 DEF Counted, x, x1, k, y, y1, j

\* A step that notes nothing.
LEMMA CountSilent ==
    ASSUME Sound, Sound', NEW c \in Clients, Others(c), NEW id \in Texts, NEW ps, hist' = hist,
           Member(c, AddingBy(id, ps)')
             = Member(c, AddingBy(id, ps)) + (IF Proc[c] \in ps /\ Puts(c, id) THEN 1 ELSE 0),
           Member(c, Deleting(id)')
             = Member(c, Deleting(id)) + (IF pc[c] = "remove" /\ Request(c).id = id THEN 1 ELSE 0)
    PROVE  Counted(c, id, ps)
<1> DEFINE n == Cardinality(NotedBy("ADD", id, ps))
           o == Cardinality(Noted("DELETE", id))
           m == Member(c, AddingBy(id, ps))
           m1 == Member(c, AddingBy(id, ps)')
           k == IF Proc[c] \in ps /\ Puts(c, id) THEN 1 ELSE 0
           l == Member(c, Deleting(id))
           l1 == Member(c, Deleting(id)')
           j == IF pc[c] = "remove" /\ Request(c).id = id THEN 1 ELSE 0
<1>1. NotedBy("ADD", id, ps)' = NotedBy("ADD", id, ps) /\ Noted("DELETE", id)' = Noted("DELETE", id)
  BY DEF NotedBy, Noted, NotedIn
<1>2. n \in Nat /\ o \in Nat
  BY StateTyped, NotedByCount, NotedCount
<1>3. m \in Nat /\ k \in Nat /\ l \in Nat /\ j \in Nat /\ m1 = m + k /\ l1 = l + j
  BY DEF Member
<1> HIDE DEF n, o, m, m1, k, l, l1, j
<1>4. n + m1 = n + m + k /\ o + l1 = o + l + j
  BY <1>2, <1>3
<1> QED
  BY <1>1, <1>4, Count DEF n, o, m, m1, k, l, l1, j

\* Steps that store and note nothing.
LEMMA QuietFacts ==
    ASSUME Sound, NEW c \in Clients,
           \/ SelectMessages(c) \/ ExamineMessage(c) \/ FailMessage(c) \/ EndMessages(c)
           \/ EndAdd(c) \/ Recheck(c) \/ SelectFacts(c) \/ SelectNothing(c) \/ ReadForUpdate(c)
           \/ StoreUpdate(c) \/ ReadForDelete(c)
    PROVE  /\ hist' = hist /\ saved'[c] = saved[c] /\ pc[c] \in {"idle", "raw", "unlock", "recheck", "write"}
           /\ pc'[c] # "log" /\ (pc'[c] = "note" => Request(c)'.op # "delete")
<1>0. pc[c] \in Steps /\ pc \in [Clients -> Steps] /\ saved \in [Clients -> SUBSET Texts]
  BY DEF Sound, Shape, TypeOK
<1>1. ASSUME \/ SelectMessages(c) \/ FailMessage(c) \/ EndMessages(c) \/ SelectFacts(c)
             \/ SelectNothing(c) \/ Recheck(c)
      PROVE  /\ hist' = hist /\ saved' = saved /\ pc[c] \in {"idle", "raw", "recheck"}
             /\ pc'[c] \in {"raw", "unlock", "batch"}
  BY <1>0, <1>1 DEF SelectMessages, FailMessage, EndMessages, SelectFacts, SelectNothing, Recheck,
     GiveUp, Called
<1>2. ASSUME ExamineMessage(c)
      PROVE  hist' = hist /\ saved' = saved /\ pc[c] = "raw" /\ pc'[c] \in {"raw", "insert"}
  <2>1. pc' = pc \/ pc' = [pc EXCEPT ![c] = "insert"]
    BY <1>2 DEF ExamineMessage
  <2> QED
    BY <1>0, <1>2, <2>1 DEF ExamineMessage
<1>3. ASSUME EndAdd(c)
      PROVE  hist' = hist /\ saved'[c] = saved[c] /\ pc[c] = "unlock" /\ pc'[c] = "idle"
  BY <1>0, <1>3 DEF EndAdd, Sound, Storing
<1>4. ASSUME ReadForUpdate(c)
      PROVE  hist' = hist /\ saved' = saved /\ pc[c] = "idle" /\ pc'[c] \in {"idle", "write"}
  <2>1. pc' = [pc EXCEPT ![c] = "write"] \/ pc' = [pc EXCEPT ![c] = "idle"]
    BY <1>4 DEF ReadForUpdate, Ended
  <2> QED
    BY <1>0, <1>4, <2>1 DEF ReadForUpdate, Called
<1>5. ASSUME ReadForDelete(c)
      PROVE  hist' = hist /\ saved' = saved /\ pc[c] = "idle" /\ pc'[c] \in {"idle", "remove"}
  <2>1. pc' = [pc EXCEPT ![c] = "remove"] \/ pc' = [pc EXCEPT ![c] = "idle"]
    BY <1>5 DEF ReadForDelete, Ended
  <2> QED
    BY <1>0, <1>5, <2>1 DEF ReadForDelete, Called
<1>6. ASSUME StoreUpdate(c)
      PROVE  /\ hist' = hist /\ saved' = saved /\ pc[c] = "write" /\ pc'[c] \in {"note", "idle"}
             /\ pc'[c] = "note" => Request(c)'.op # "delete"
  <2>1. pc[c] = "write" /\ Request(c).op # "delete" /\ hist' = hist /\ saved' = saved
    BY <1>6, WriteTyped DEF StoreUpdate
  <2>2. \/ pc' = [pc EXCEPT ![c] = "note"] /\ pos' = pos
        \/ pc' = [pc EXCEPT ![c] = "idle"]
    BY <1>6 DEF StoreUpdate, Ended
  <2> QED
    BY <1>0, <2>1, <2>2 DEF Request
<1> QED
  BY <1>1, <1>2, <1>3, <1>4, <1>5, <1>6

LEMMA QuietCount ==
    ASSUME Sound, Sound', NEW c \in Clients, Others(c), NEW id \in Texts, NEW ps,
           \/ SelectMessages(c) \/ ExamineMessage(c) \/ FailMessage(c) \/ EndMessages(c)
           \/ EndAdd(c) \/ Recheck(c) \/ SelectFacts(c) \/ SelectNothing(c) \/ ReadForUpdate(c)
           \/ StoreUpdate(c) \/ ReadForDelete(c)
    PROVE  Counted(c, id, ps) /\ ~Puts(c, id)
<1>1. /\ hist' = hist /\ saved'[c] = saved[c] /\ pc[c] \in {"idle", "raw", "unlock", "recheck", "write"}
      /\ pc'[c] # "log" /\ (pc'[c] = "note" => Request(c)'.op # "delete")
  BY QuietFacts
<1>2. ~Puts(c, id)
  BY <1>1 DEF Puts
<1>3. Member(c, AddingBy(id, ps)') = Member(c, AddingBy(id, ps)) + 0
  BY <1>1, MineBy
<1>4. Member(c, Deleting(id)') = Member(c, Deleting(id)) + 0
  BY <1>1, Mine
<1> QED
  BY <1>1, <1>2, <1>3, <1>4, CountSilent

LEMMA InsertCount ==
    ASSUME Sound, Sound', NEW c \in Clients, Others(c), NEW id \in Texts, NEW ps,
           InsertMessage(c) \/ InsertBatch(c) \/ InsertSingle(c)
    PROVE  Counted(c, id, ps)
<1>0. pc \in [Clients -> Steps] /\ saved \in [Clients -> SUBSET Texts] /\ cur \in [Clients -> Texts \cup {Absent}]
  BY DEF Sound, Shape, TypeOK
<1>1. hist' = hist /\ pc[c] \in {"insert", "batch", "single"} /\ pc'[c] \in {"recheck", "log", "single", "record"}
  BY <1>0 DEF InsertMessage, InsertBatch, InsertSingle
<1>2. Member(c, Deleting(id)') = Member(c, Deleting(id)) + 0
  BY <1>1, Mine
<1>3. Member(c, AddingBy(id, ps)')
        = Member(c, AddingBy(id, ps)) + (IF Proc[c] \in ps /\ Puts(c, id) THEN 1 ELSE 0)
  <2>1. CASE InsertMessage(c)
    <3>1. /\ pc[c] = "insert" /\ saved[c] = {} /\ saved'[c] = {} /\ cur'[c] = cur[c]
      BY <2>1 DEF InsertMessage, Sound, Storing
    <3>2. Puts(c, id) <=> pc'[c] = "log" /\ cur'[c] = id
      BY <3>1 DEF Puts
    <3> QED
      BY <3>1, <3>2, MineBy
  <2>2. CASE InsertBatch(c)
    <3>1. /\ pc[c] = "batch" /\ saved[c] = {} /\ pc'[c] \in {"single", "record"}
      BY <1>0, <2>2 DEF InsertBatch, Sound, Storing
    <3>2. Puts(c, id) <=> id \in saved'[c]
      BY <3>1 DEF Puts
    <3> QED
      BY <3>1, <3>2, MineBy
  <2>3. CASE InsertSingle(c)
    <3>1. pc[c] = "single" /\ pc'[c] \in {"single", "record"} /\ saved[c] \subseteq saved'[c]
      BY <1>0, <2>3 DEF InsertSingle
    <3>2. Puts(c, id) <=> id \in saved'[c] /\ id \notin saved[c]
      BY <3>1 DEF Puts
    <3> QED
      BY <3>1, <3>2, MineBy
  <2> QED
    BY <2>1, <2>2, <2>3
<1> QED
  BY <1>1, <1>2, <1>3, CountSilent

LEMMA RemoveCount ==
    ASSUME Sound, Sound', NEW c \in Clients, Others(c), NEW id \in Texts, NEW ps, RemoveRow(c)
    PROVE  Counted(c, id, ps) /\ ~Puts(c, id)
<1>1. /\ pc[c] = "remove" /\ saved'[c] = saved[c] /\ pc'[c] = "note" /\ hist' = hist
      /\ Request(c).op = "delete" /\ Request(c)' = Request(c)
  BY DEF RemoveRow, Sound, Shape, TypeOK, Calls, Request
<1>2. ~Puts(c, id)
  BY <1>1 DEF Puts
<1>3. Member(c, AddingBy(id, ps)') = Member(c, AddingBy(id, ps)) + 0
  BY <1>1, MineBy
<1>4. Member(c, Deleting(id)') = Member(c, Deleting(id)) + (IF pc[c] = "remove" /\ Request(c).id = id THEN 1 ELSE 0)
  BY <1>1, Mine
<1> QED
  BY <1>1, <1>2, <1>3, <1>4, CountSilent

\* An event that is noted leaves the counts as they were: the client had it counted already.
LEMMA NoteCount ==
    ASSUME Sound, Sound', NEW c \in Clients, Others(c), NEW id \in Texts, NEW ps,
           \/ LogMessage(c) \/ RecordFacts(c) \/ NoteUpdate(c) \/ NoteDelete(c)
    PROVE  Counted(c, id, ps) /\ ~Puts(c, id)
<1>0. /\ hist \in [Texts -> Seq(Events)] /\ pc \in [Clients -> Steps]
      /\ saved \in [Clients -> SUBSET Texts] /\ Proc[c] \in Procs
  BY EngineAssumption DEF Sound, Shape, TypeOK, Events
<1>1. pc[c] \in {"log", "record", "note"} /\ ~Puts(c, id)
  BY DEF LogMessage, RecordFacts, NoteUpdate, NoteDelete, Puts
<1>2. Cardinality(NotedBy("ADD", id, ps)) \in Nat /\ Cardinality(Noted("DELETE", id)) \in Nat
  BY <1>0, NotedByCount, NotedCount
<1>3. ASSUME hist'[id] = hist[id]
      PROVE  NotedBy("ADD", id, ps)' = NotedBy("ADD", id, ps) /\ Noted("DELETE", id)' = Noted("DELETE", id)
  BY <1>3 DEF NotedBy, Noted, NotedIn
<1>4. ASSUME NEW a \in {0, 1}, NEW d \in {0, 1},
             Cardinality(NotedBy("ADD", id, ps)') = Cardinality(NotedBy("ADD", id, ps)) + a,
             Cardinality(Noted("DELETE", id)') = Cardinality(Noted("DELETE", id)) + d,
             Member(c, AddingBy(id, ps)) = a, Member(c, AddingBy(id, ps)') = 0,
             Member(c, Deleting(id)) = d, Member(c, Deleting(id)') = 0
      PROVE  Counted(c, id, ps)
  <2>1. /\ Cardinality(NotedBy("ADD", id, ps)') + 0 = Cardinality(NotedBy("ADD", id, ps)) + a + 0
        /\ Cardinality(Noted("DELETE", id)') + 0 = Cardinality(Noted("DELETE", id)) + d + 0
    BY <1>2, <1>4
  <2> QED
    BY <1>1, <1>4, <2>1, Count
<1>5. ASSUME hist'[id] = hist[id],
             Member(c, AddingBy(id, ps)) = 0, Member(c, AddingBy(id, ps)') = 0,
             Member(c, Deleting(id)) = 0, Member(c, Deleting(id)') = 0
      PROVE  Counted(c, id, ps)
  <2>1. /\ Cardinality(NotedBy("ADD", id, ps)') = Cardinality(NotedBy("ADD", id, ps)) + 0
        /\ Cardinality(Noted("DELETE", id)') = Cardinality(Noted("DELETE", id)) + 0
    BY <1>2, <1>3, <1>5
  <2> QED
    BY <1>4, <1>5, <2>1
<1>6. ASSUME NEW x \in Events, hist'[id] = Append(hist[id], x), x.proc = Proc[c],
             Member(c, AddingBy(id, ps)) = IF x.event = "ADD" /\ Proc[c] \in ps THEN 1 ELSE 0,
             Member(c, AddingBy(id, ps)') = 0,
             Member(c, Deleting(id)) = IF x.event = "DELETE" THEN 1 ELSE 0,
             Member(c, Deleting(id)') = 0
      PROVE  Counted(c, id, ps)
  <2>1. /\ Cardinality(NotedBy("ADD", id, ps)') = Cardinality(NotedBy("ADD", id, ps))
                                                    + (IF x.event = "ADD" /\ x.proc \in ps THEN 1 ELSE 0)
        /\ Cardinality(Noted("DELETE", id)') = Cardinality(Noted("DELETE", id))
                                                 + (IF x.event = "DELETE" THEN 1 ELSE 0)
    BY <1>6, NotedByAppend, NotedAppend
  <2> QED
    BY <1>4, <1>6, <2>1
<1>7. CASE LogMessage(c)
  <2>0. PICK noted \in Outcomes :
          /\ hist' = [hist EXCEPT ![cur[c]] = Append(@, Event("ADD", cur[c], c, noted))]
          /\ pc' = [pc EXCEPT ![c] = IF noted THEN "raw" ELSE "unlock"]
    BY <1>7 DEF LogMessage
  <2>1. /\ pc[c] = "log" /\ cur[c] \in Texts /\ saved[c] = {} /\ saved'[c] = {}
        /\ pc'[c] \in {"raw", "unlock"}
    BY <1>0, <1>7, <2>0 DEF LogMessage, Sound, Shape, Calls, Storing
  <2>2. /\ Member(c, AddingBy(id, ps)') = 0 /\ Member(c, Deleting(id)') = 0 /\ Member(c, Deleting(id)) = 0
        /\ Member(c, AddingBy(id, ps)) = IF cur[c] = id /\ Proc[c] \in ps THEN 1 ELSE 0
    BY <2>1, Mine, MineBy
  <2>3. CASE cur[c] = id
    <3>1. /\ Event("ADD", id, c, noted) \in Events /\ Event("ADD", id, c, noted).event = "ADD"
          /\ Event("ADD", id, c, noted).proc = Proc[c]
      BY EventTyped DEF Event
    <3>2. hist'[id] = Append(hist[id], Event("ADD", id, c, noted))
      BY <1>0, <2>0, <2>3
    <3> QED
      BY <1>1, <1>6, <2>2, <2>3, <3>1, <3>2
  <2>4. CASE cur[c] # id
    <3>1. hist'[id] = hist[id]
      BY <1>0, <2>0, <2>1, <2>4
    <3> QED
      BY <1>1, <1>5, <2>2, <2>4, <3>1
  <2> QED
    BY <2>3, <2>4
<1>8. CASE RecordFacts(c)
  <2>0. PICK noted \in [saved[c] -> Outcomes] :
          hist' = [t \in Texts |-> IF t \in saved[c] THEN Append(hist[t], Event("ADD", t, c, noted[t]))
                                  ELSE hist[t]]
    BY <1>8 DEF RecordFacts
  <2>1. pc[c] = "record" /\ saved'[c] = {} /\ pc'[c] = "unlock"
    BY <1>0, <1>8 DEF RecordFacts
  <2>2. /\ Member(c, AddingBy(id, ps)') = 0 /\ Member(c, Deleting(id)') = 0 /\ Member(c, Deleting(id)) = 0
        /\ Member(c, AddingBy(id, ps)) = IF id \in saved[c] /\ Proc[c] \in ps THEN 1 ELSE 0
    BY <2>1, Mine, MineBy
  <2>3. CASE id \in saved[c]
    <3>1. /\ Event("ADD", id, c, noted[id]) \in Events /\ Event("ADD", id, c, noted[id]).event = "ADD"
          /\ Event("ADD", id, c, noted[id]).proc = Proc[c]
      BY <2>3, EventTyped DEF Event
    <3>2. hist'[id] = Append(hist[id], Event("ADD", id, c, noted[id]))
      BY <2>0, <2>3
    <3> QED
      BY <1>1, <1>6, <2>2, <2>3, <3>1, <3>2
  <2>4. CASE id \notin saved[c]
    <3>1. hist'[id] = hist[id]
      BY <2>0, <2>4
    <3> QED
      BY <1>1, <1>5, <2>2, <2>4, <3>1
  <2> QED
    BY <2>3, <2>4
<1>9. CASE NoteUpdate(c) \/ NoteDelete(c)
  <2> DEFINE r == Request(c)
  <2>1. /\ pc[c] = "note" /\ saved[c] = {} /\ saved'[c] = {} /\ pc'[c] = "idle"
        /\ r \in IdCalls /\ r.id \in Texts
        /\ r.op # "delete" => NewText(c) \in Texts
    BY <1>0, <1>9 DEF NoteUpdate, NoteDelete, Ended, Sound, Shape, Calls, Storing, IdCalls, NewText,
       Rows
  <2>2. /\ Member(c, AddingBy(id, ps)) = 0 /\ Member(c, AddingBy(id, ps)') = 0
        /\ Member(c, Deleting(id)') = 0
        /\ Member(c, Deleting(id)) = IF r.op = "delete" /\ r.id = id THEN 1 ELSE 0
    BY <2>1, Mine, MineBy
  <2>3. PICK x \in Events : /\ hist' = [hist EXCEPT ![r.id] = Append(@, x)] /\ x.proc = Proc[c]
                            /\ x.event = IF r.op = "delete" THEN "DELETE" ELSE "UPDATE"
    <3>1. CASE NoteUpdate(c)
      <4>1. PICK noted \in Outcomes :
              hist' = [hist EXCEPT ![r.id] = Append(@, Event("UPDATE", NewText(c), c, noted))]
        BY <3>1 DEF NoteUpdate
      <4> DEFINE x == Event("UPDATE", NewText(c), c, noted)
      <4>2. r.op # "delete"
        BY <3>1 DEF NoteUpdate
      <4>3. x \in Events /\ x.proc = Proc[c] /\ x.event = "UPDATE"
        BY <2>1, <4>2, EventTyped DEF Event
      <4> QED
        BY <4>1, <4>2, <4>3
    <3>2. CASE NoteDelete(c)
      <4>1. PICK noted \in Outcomes :
              hist' = [hist EXCEPT ![r.id] = Append(@, Event("DELETE", r.id, c, noted))]
        BY <3>2 DEF NoteDelete
      <4> DEFINE x == Event("DELETE", r.id, c, noted)
      <4>2. r.op = "delete"
        BY <3>2 DEF NoteDelete
      <4>3. x \in Events /\ x.proc = Proc[c] /\ x.event = "DELETE"
        BY <2>1, EventTyped DEF Event
      <4> QED
        BY <4>1, <4>2, <4>3
    <3> QED
      BY <1>9, <3>1, <3>2
  <2> HIDE DEF r
  <2>4. CASE r.id = id
    <3>1. hist'[id] = Append(hist[id], x)
      BY <1>0, <2>3, <2>4
    <3> QED
      BY <1>1, <1>6, <2>2, <2>3, <2>4, <3>1
  <2>5. CASE r.id # id
    <3>1. hist'[id] = hist[id]
      BY <1>0, <2>1, <2>3, <2>5
    <3> QED
      BY <1>1, <1>5, <2>2, <2>5, <3>1
  <2> QED
    BY <2>4, <2>5
<1> QED
  BY <1>7, <1>8, <1>9

LEMMA ClientCount ==
    ASSUME Sound, NEW c \in Clients, Add(c) \/ Change(c), NEW id \in Texts, NEW ps
    PROVE  Counted(c, id, ps)
<1>1. Sound' /\ Others(c)
  BY ClientSound, ClientOthers
<1> QED
  BY <1>1, QuietCount, InsertCount, RemoveCount, NoteCount DEF Add, Change

-----------------------------------------------------------------------------
(* The invariant. *)

AddSteps == {"raw", "insert", "recheck", "log", "batch", "single", "record", "unlock"}

\* An add holds the lock of its process until it returns.
Locked == \A c \in Clients : pc[c] \in AddSteps => lock[Proc[c]] = c

\* A client that has not found the memory, and is going to store it.
About(c, id) ==
    \/ pc[c] = "insert" /\ cur[c] = id
    \/ pc[c] \in {"batch", "single"} /\ id \in todo[c]

\* Adds of a memory by some processes outnumber its deletes by the row at most.
Bounded(id, ps) == Adds(id, ps) <= Deletes(id) + There(row, id)

Refusing == store.existing = "raise" => \A id \in Texts : Bounded(id, Procs)

\* A memory nobody updates keeps the text it is named after.
Named(id) ==
    /\ row[id] # Absent => row[id].text = id
    /\ \A c \in Clients : pc[c] = "write" /\ Request(c).id = id => got[c].text = id

Once(id) ==
    /\ \A p \in Procs : Bounded(id, {p})
    /\ \A c \in Clients : About(c, id) => Adds(id, {Proc[c]}) <= Deletes(id)

Guarded ==
    store.existing # "raise" =>
      \A id \in Texts \ Subject("update") : Named(id) /\ (id \notin missed => Once(id))

Converging == Locked /\ Refusing /\ Guarded

\* A lock changes hands through the client that holds it.
LEMMA ClientLocked ==
    ASSUME Sound, Locked, NEW c \in Clients, Add(c) \/ Change(c) PROVE Locked'
<1>0. /\ pc \in [Clients -> Steps] /\ lock \in [Procs -> Clients \cup {NoOne}]
      /\ Proc \in [Clients -> Procs] /\ NoOne \notin Clients /\ Others(c)
  BY EngineAssumption, ClientOthers DEF Sound, Shape, TypeOK
<1>1. CASE lock' = lock /\ (pc'[c] \in AddSteps => pc[c] \in AddSteps)
  BY <1>0, <1>1 DEF Locked, Others
<1>2. CASE TakesLock(c)
  BY <1>0, <1>2 DEF Locked, Others, TakesLock
<1>3. CASE EndAdd(c)
  <2>1. /\ pc[c] = "unlock" /\ pc'[c] = "idle" /\ lock' = [lock EXCEPT ![Proc[c]] = NoOne]
    BY <1>0, <1>3 DEF EndAdd
  <2>2. lock[Proc[c]] = c
    BY <2>1 DEF Locked, AddSteps
  <2>3. ASSUME NEW d \in Clients, pc'[d] \in AddSteps PROVE lock'[Proc[d]] = d
    <3>1. d # c
      BY <2>1, <2>3 DEF AddSteps
    <3>2. lock[Proc[d]] = d
      BY <1>0, <2>3, <3>1 DEF Others, Locked
    <3> QED
      BY <1>0, <2>1, <2>2, <3>1, <3>2
  <2> QED
    BY <2>3 DEF Locked
<1>4. ASSUME SelectMessages(c) \/ SelectFacts(c) \/ SelectNothing(c) PROVE TakesLock(c)
  BY <1>4 DEF SelectMessages, SelectFacts, SelectNothing
<1>5. ASSUME \/ ExamineMessage(c) \/ FailMessage(c) \/ EndMessages(c) \/ InsertMessage(c)
             \/ Recheck(c) \/ LogMessage(c) \/ InsertBatch(c) \/ InsertSingle(c) \/ RecordFacts(c)
      PROVE  lock' = lock /\ pc[c] \in AddSteps
  BY <1>5 DEF ExamineMessage, FailMessage, EndMessages, InsertMessage, Recheck, LogMessage,
     InsertBatch, InsertSingle, RecordFacts, AddSteps
<1>6. ASSUME \/ ReadForUpdate(c) \/ StoreUpdate(c) \/ NoteUpdate(c) \/ ReadForDelete(c)
             \/ RemoveRow(c) \/ NoteDelete(c)
      PROVE  lock' = lock /\ pc'[c] \notin AddSteps
  <2>1. \E s \in {"write", "idle", "note", "remove"} : pc' = [pc EXCEPT ![c] = s]
    BY <1>6 DEF ReadForUpdate, StoreUpdate, NoteUpdate, ReadForDelete, RemoveRow, NoteDelete, Ended
  <2>2. lock' = lock
    BY <1>6 DEF ReadForUpdate, StoreUpdate, NoteUpdate, ReadForDelete, RemoveRow, NoteDelete
  <2> QED
    BY <1>0, <2>1, <2>2 DEF AddSteps
<1> QED
  BY <1>1, <1>2, <1>3, <1>4, <1>5, <1>6 DEF Add, Change

\* What is stored is there afterwards, and was not, if the store refuses a second insert; and only
\* a delete takes a row away.
LEMMA StoredRows ==
    ASSUME Sound, NEW c \in Clients, Add(c) \/ Change(c), NEW id \in Texts
    PROVE  /\ Puts(c, id) => row'[id] # Absent /\ (store.existing = "raise" => row[id] = Absent)
           /\ row[id] # Absent =>
                row'[id] # Absent \/ (pc[c] = "remove" /\ Request(c).id = id /\ row'[id] = Absent)
<1> DEFINE Stores1 == Puts(c, id) =>
                        row'[id] # Absent /\ (store.existing = "raise" => row[id] = Absent)
           Stays == row[id] # Absent => row'[id] # Absent
<1>0. /\ pc \in [Clients -> Steps] /\ saved \in [Clients -> SUBSET Texts] /\ emb[c] \in [Texts -> Vectors]
      /\ todo[c] \in SUBSET Texts
  BY DEF Sound, Shape, TypeOK
<1>1. ASSUME NEW ts \in SUBSET Texts, ~Refused(ts), row' = Inserted(ts, emb[c]), id \in ts
      PROVE  row'[id] # Absent /\ (store.existing = "raise" => row[id] = Absent)
  <2>1. row'[id] # Absent
    BY <1>0, <1>1, InsertedTyped DEF Sound, Shape
  <2> QED
    BY <1>1, <2>1 DEF Refused
<1>2. ASSUME NEW ts \in SUBSET Texts, row' = Inserted(ts, emb[c]) PROVE Stays
  BY <1>0, <1>2, InsertedTyped DEF Sound, Shape
<1>3. ASSUME InsertMessage(c) PROVE Stores1 /\ Stays
  <2>1. /\ pc[c] = "insert" /\ {cur[c]} \in SUBSET Texts
        /\ \/ pc' = [pc EXCEPT ![c] = "recheck"] /\ row' = row
           \/ ~Refused({cur[c]}) /\ row' = Inserted({cur[c]}, emb[c])
    BY <1>3 DEF InsertMessage, Sound, Shape, Calls
  <2>2. Puts(c, id) => pc'[c] = "log" /\ id \in {cur[c]}
    BY <2>1 DEF Puts
  <2>3. CASE pc' = [pc EXCEPT ![c] = "recheck"] /\ row' = row
    BY <1>0, <2>2, <2>3
  <2>4. CASE ~Refused({cur[c]}) /\ row' = Inserted({cur[c]}, emb[c])
    BY <1>1, <1>2, <2>1, <2>2, <2>4
  <2> QED
    BY <2>1, <2>3, <2>4
<1>4. ASSUME InsertBatch(c) PROVE Stores1 /\ Stays
  <2>1. /\ pc[c] = "batch"
        /\ \/ saved' = saved /\ row' = row
           \/ /\ ~Refused(todo[c]) /\ row' = Inserted(todo[c], emb[c])
              /\ saved' = [saved EXCEPT ![c] = todo[c]]
    BY <1>4 DEF InsertBatch
  <2>2. Puts(c, id) => id \in saved'[c] \ saved[c]
    BY <2>1 DEF Puts
  <2>3. CASE saved' = saved /\ row' = row
    BY <2>2, <2>3
  <2>4. CASE /\ ~Refused(todo[c]) /\ row' = Inserted(todo[c], emb[c])
             /\ saved' = [saved EXCEPT ![c] = todo[c]]
    BY <1>0, <1>1, <1>2, <2>2, <2>4
  <2> QED
    BY <2>1, <2>3, <2>4
<1>5. ASSUME InsertSingle(c) PROVE Stores1 /\ Stays
  <2>1. PICK t \in todo[c] :
          \/ saved' = saved /\ row' = row
          \/ /\ ~Refused({t}) /\ row' = Inserted({t}, emb[c])
             /\ saved' = [saved EXCEPT ![c] = @ \cup {t}]
    BY <1>5 DEF InsertSingle
  <2>2. pc[c] = "single" /\ {t} \in SUBSET Texts
    BY <1>0, <1>5 DEF InsertSingle
  <2>3. Puts(c, id) => id \in saved'[c] \ saved[c]
    BY <2>2 DEF Puts
  <2>4. CASE saved' = saved /\ row' = row
    BY <2>3, <2>4
  <2>5. CASE /\ ~Refused({t}) /\ row' = Inserted({t}, emb[c])
             /\ saved' = [saved EXCEPT ![c] = @ \cup {t}]
    <3>1. Puts(c, id) => id \in {t}
      BY <1>0, <2>3, <2>5
    <3> QED
      BY <1>1, <1>2, <2>2, <2>5, <3>1
  <2> QED
    BY <2>1, <2>4, <2>5
<1>6. ASSUME RemoveRow(c)
      PROVE  /\ Stores1
             /\ row[id] # Absent =>
                  row'[id] # Absent \/ (pc[c] = "remove" /\ Request(c).id = id /\ row'[id] = Absent)
  <2>1. pc[c] = "remove" /\ row' = [row EXCEPT ![Request(c).id] = Absent]
    BY <1>6 DEF RemoveRow
  <2>2. ~Puts(c, id)
    BY <2>1 DEF Puts
  <2> QED
    BY <2>1, <2>2, StateTyped
<1>7. ASSUME StoreUpdate(c) PROVE Stores1 /\ Stays
  BY <1>7, StoreUpdateRows DEF StoreUpdate, Puts
<1>8. ASSUME \/ SelectMessages(c) \/ ExamineMessage(c) \/ FailMessage(c) \/ EndMessages(c)
             \/ EndAdd(c) \/ Recheck(c) \/ LogMessage(c) \/ SelectFacts(c) \/ SelectNothing(c)
             \/ RecordFacts(c) \/ ReadForUpdate(c) \/ NoteUpdate(c) \/ ReadForDelete(c)
             \/ NoteDelete(c)
      PROVE  row' = row /\ pc[c] \notin {"insert", "batch", "single"}
  BY <1>8 DEF SelectMessages, ExamineMessage, FailMessage, EndMessages, EndAdd, Recheck, LogMessage,
     SelectFacts, SelectNothing, RecordFacts, ReadForUpdate, NoteUpdate, ReadForDelete, NoteDelete,
     GiveUp, Called
<1>9. ASSUME row' = row, pc[c] \notin {"insert", "batch", "single"} PROVE Stores1 /\ Stays
  BY <1>9 DEF Puts
<1> QED
  BY <1>3, <1>4, <1>5, <1>6, <1>7, <1>8, <1>9 DEF Add, Change

\* A step keeps the bound, if what it stores was within it.
LEMMA ClientBounded ==
    ASSUME Sound, NEW c \in Clients, Add(c) \/ Change(c), NEW id \in Texts, NEW ps, Bounded(id, ps),
           Puts(c, id) /\ Proc[c] \in ps => Adds(id, ps) <= Deletes(id)
    PROVE  /\ Bounded(id, ps)'
           /\ ~(Puts(c, id) /\ Proc[c] \in ps) => Adds(id, ps)' = Adds(id, ps)
           /\ Deletes(id)' \in Nat /\ Deletes(id)' >= Deletes(id)
<1> DEFINE x == Adds(id, ps)
           x1 == Adds(id, ps)'
           y == Deletes(id)
           y1 == Deletes(id)'
           t == There(row, id)
           t1 == There(row', id)
<1>1. x \in Nat /\ y \in Nat /\ t \in {0, 1} /\ t1 \in {0, 1}
  BY StateTyped, CountsTyped DEF There
<1>2. /\ x1 = x + (IF Proc[c] \in ps /\ Puts(c, id) THEN 1 ELSE 0)
      /\ y1 = y + (IF pc[c] = "remove" /\ Request(c).id = id THEN 1 ELSE 0)
  BY ClientCount DEF Counted
<1>3. x <= y + t
  BY DEF Bounded
<1>4. /\ Puts(c, id) => t1 = 1
      /\ t = 1 => t1 = 1 \/ (pc[c] = "remove" /\ Request(c).id = id)
  BY StoredRows DEF There
<1>5. Puts(c, id) /\ Proc[c] \in ps => x <= y
  OBVIOUS
<1>6. Bounded(id, ps)' <=> x1 <= y1 + t1
  BY DEF Bounded, There
<1> HIDE DEF x, x1, y, y1, t, t1
<1>7. CASE Puts(c, id) /\ Proc[c] \in ps
  BY <1>1, <1>2, <1>3, <1>4, <1>5, <1>6, <1>7 DEF x, x1, y, y1
<1>8. CASE ~(Puts(c, id) /\ Proc[c] \in ps)
  <2>1. x1 = x + 0
    BY <1>2, <1>8
  <2> QED
    BY <1>1, <1>2, <1>3, <1>4, <1>6, <1>8, <2>1 DEF x, x1, y, y1
<1> QED
  BY <1>7, <1>8

\* What is stored was about to be.
LEMMA StoredAbout ==
    ASSUME Sound, NEW c \in Clients, Add(c) \/ Change(c), NEW id \in Texts, Puts(c, id)
    PROVE  About(c, id)
<1>0. saved \in [Clients -> SUBSET Texts]
  BY DEF Sound, Shape, TypeOK
<1>1. CASE pc[c] = "insert" /\ pc'[c] = "log" /\ cur[c] = id
  BY <1>1 DEF About
<1>2. CASE pc[c] \in {"batch", "single"} /\ id \in saved'[c] \ saved[c]
  <2>1. InsertBatch(c) \/ InsertSingle(c)
    BY <1>2 DEF Add, Change, SelectMessages, ExamineMessage, FailMessage, EndMessages, EndAdd,
       InsertMessage, Recheck, LogMessage, SelectFacts, SelectNothing, RecordFacts, ReadForUpdate,
       StoreUpdate, NoteUpdate, ReadForDelete, RemoveRow, NoteDelete, Called
  <2>2. ASSUME InsertBatch(c) PROVE id \in todo[c]
    <3>1. saved' = saved \/ saved' = [saved EXCEPT ![c] = todo[c]]
      BY <2>2 DEF InsertBatch
    <3> QED
      BY <1>0, <1>2, <3>1
  <2>3. ASSUME InsertSingle(c) PROVE id \in todo[c]
    <3>1. PICK t \in todo[c] : saved' = saved \/ saved' = [saved EXCEPT ![c] = @ \cup {t}]
      BY <2>3 DEF InsertSingle
    <3> QED
      BY <1>0, <1>2, <3>1
  <2> QED
    BY <1>2, <2>1, <2>2, <2>3 DEF About
<1> QED
  BY <1>1, <1>2 DEF Puts

\* What has been overlooked stays so.
LEMMA MissedGrows ==
    ASSUME NEW c \in Clients, Add(c) \/ Change(c) PROVE missed \subseteq missed'
<1>1. ASSUME ExamineMessage(c) PROVE missed \subseteq missed'
  BY <1>1 DEF ExamineMessage, Overlook
<1>2. ASSUME SelectFacts(c) PROVE missed \subseteq missed'
  BY <1>2 DEF SelectFacts, Overlook
<1>3. ASSUME \/ SelectMessages(c) \/ FailMessage(c) \/ EndMessages(c) \/ EndAdd(c)
             \/ InsertMessage(c) \/ Recheck(c) \/ LogMessage(c) \/ SelectNothing(c)
             \/ InsertBatch(c) \/ InsertSingle(c) \/ RecordFacts(c)
      PROVE  missed' = missed
  BY <1>3 DEF SelectMessages, FailMessage, EndMessages, EndAdd, InsertMessage, Recheck, LogMessage,
     SelectNothing, InsertBatch, InsertSingle, RecordFacts, GiveUp
<1>4. ASSUME Change(c) PROVE missed' = missed
  BY <1>4 DEF Change, ReadForUpdate, StoreUpdate, NoteUpdate, ReadForDelete, RemoveRow, NoteDelete
<1> QED
  BY <1>1, <1>2, <1>3, <1>4 DEF Add

\* A client is about to store what it has not found, or has overlooked; and nothing is stored that
\* it is still about to.
LEMMA AboutBegins ==
    ASSUME Sound, store.existing # "raise", NEW c \in Clients, Add(c) \/ Change(c), NEW id \in Texts,
           About(c, id)'
    PROVE  /\ ~Puts(c, id)
           /\ About(c, id) \/ row[id] = Absent \/ row[id].text # id \/ id \in missed'
<1>0. /\ pc \in [Clients -> Steps] /\ saved \in [Clients -> SUBSET Texts]
      /\ todo \in [Clients -> SUBSET Texts] /\ cur \in [Clients -> Texts \cup {Absent}]
  BY DEF Sound, Shape, TypeOK
<1>1. pc'[c] \in {"insert", "batch", "single"}
  BY DEF About
<1>2. CASE ExamineMessage(c)
  <2>1. PICK t \in todo[c] : \/ pc' = pc
                             \/ /\ Overlook({t})
                                /\ pc' = [pc EXCEPT ![c] = "insert"] /\ cur' = [cur EXCEPT ![c] = t]
    BY <1>2 DEF ExamineMessage
  <2>2. pc[c] = "raw"
    BY <1>2 DEF ExamineMessage
  <2>3. pc'[c] = "insert" /\ cur'[c] = t /\ Overlook({t})
    BY <1>0, <1>1, <2>1, <2>2
  <2>4. id = t
    BY <2>3 DEF About
  <2>5. Stored(id) => id \in missed'
    BY <1>0, <2>3, <2>4 DEF Overlook
  <2> QED
    BY <2>2, <2>5 DEF Puts, Stored
<1>3. CASE SelectFacts(c)
  <2>1. PICK new \in SUBSET Texts : todo' = [todo EXCEPT ![c] = new] /\ Overlook(new)
    <3>1. PICK found \in Lookups(Request(c).facts) :
            todo' = [todo EXCEPT ![c] = Request(c).facts \ found] /\ Overlook(Request(c).facts \ found)
      BY <1>3 DEF SelectFacts
    <3>2. Request(c).facts \ found \in SUBSET Texts
      BY <1>3, CalledTyped DEF Sound, Shape, SelectFacts, Called, AddCalls, IdCalls
    <3> QED
      BY <3>1, <3>2
  <2>2. pc[c] = "idle" /\ pc'[c] = "batch" /\ todo'[c] = new
    BY <1>0, <1>3, <2>1 DEF SelectFacts, Called
  <2>3. id \in new
    BY <2>2 DEF About
  <2>4. Stored(id) => id \in missed'
    BY <2>1, <2>3 DEF Overlook
  <2> QED
    BY <2>2, <2>4 DEF Puts, Stored
<1>4. CASE InsertBatch(c)
  <2>1. pc[c] = "batch" /\ (pc' = [pc EXCEPT ![c] = "record"] \/ (todo' = todo /\ saved' = saved))
    BY <1>4 DEF InsertBatch
  <2>2. todo' = todo /\ saved' = saved
    BY <1>0, <1>1, <2>1
  <2>3. pc'[c] \in {"single", "record"}
    BY <1>0, <1>4 DEF InsertBatch
  <2> QED
    BY <2>1, <2>2, <2>3 DEF About, Puts
<1>5. CASE InsertSingle(c)
  <2>1. PICK t \in todo[c] : /\ todo' = [todo EXCEPT ![c] = @ \ {t}]
                             /\ saved' = saved \/ saved' = [saved EXCEPT ![c] = @ \cup {t}]
    BY <1>5 DEF InsertSingle
  <2>2. pc[c] = "single" /\ pc'[c] \in {"single", "record"}
    BY <1>0, <1>5 DEF InsertSingle
  <2>3. id \in todo[c] /\ id # t
    BY <1>0, <2>1, <2>2 DEF About
  <2>4. id \in saved'[c] => id \in saved[c]
    BY <1>0, <2>1, <2>3
  <2> QED
    BY <2>2, <2>3, <2>4 DEF About, Puts
<1>6. ASSUME ReadForUpdate(c) PROVE pc'[c] \in {"idle", "write"}
  BY <1>0, <1>6 DEF ReadForUpdate, Ended
<1> QED
  BY <1>1, <1>2, <1>3, <1>4, <1>5, <1>6, Elsewhere DEF Add, Change

\* A row gets the text it is named after, or that of an update.
LEMMA ClientTexts ==
    ASSUME Sound, NEW c \in Clients, Add(c) \/ Change(c), NEW id \in Texts, row'[id] # Absent
    PROVE  \/ row[id] # Absent /\ row'[id] = row[id]
           \/ row'[id].text = id
           \/ pc[c] = "write" /\ Request(c).id = id /\ row'[id].text = NewText(c)
<1>1. ASSUME NEW ts, row' = Inserted(ts, emb[c])
      PROVE  (row[id] # Absent /\ row'[id] = row[id]) \/ row'[id].text = id
  BY <1>1 DEF Inserted, NewRow
<1>2. ASSUME InsertMessage(c) \/ InsertBatch(c) \/ InsertSingle(c)
      PROVE  row' = row \/ \E ts : row' = Inserted(ts, emb[c])
  BY <1>2 DEF InsertMessage, InsertBatch, InsertSingle
<1>3. ASSUME StoreUpdate(c)
      PROVE  \/ row'[id] = row[id]
             \/ row'[id].text = id
             \/ pc[c] = "write" /\ Request(c).id = id /\ row'[id].text = NewText(c)
  <2>1. pc[c] = "write" /\ RowStep(c, id)
    BY <1>3, StoreUpdateRow DEF StoreUpdate
  <2>2. /\ \A v : NewRow(id, v).text = id
        /\ \A r : Written(c, r).text = NewText(c)
        /\ Recreated(c).text = NewText(c)
    BY DEF NewRow, Written, Recreated
  <2> QED
    BY <2>1, <2>2 DEF RowStep
<1>4. ASSUME RemoveRow(c) PROVE row'[id] = row[id]
  BY <1>4, StateTyped DEF RemoveRow
<1>5. ASSUME \/ SelectMessages(c) \/ ExamineMessage(c) \/ FailMessage(c) \/ EndMessages(c)
             \/ EndAdd(c) \/ Recheck(c) \/ LogMessage(c) \/ SelectFacts(c) \/ SelectNothing(c)
             \/ RecordFacts(c) \/ ReadForUpdate(c) \/ NoteUpdate(c) \/ ReadForDelete(c)
             \/ NoteDelete(c)
      PROVE  row' = row
  BY <1>5 DEF SelectMessages, ExamineMessage, FailMessage, EndMessages, EndAdd, Recheck, LogMessage,
     SelectFacts, SelectNothing, RecordFacts, ReadForUpdate, NoteUpdate, ReadForDelete, NoteDelete,
     GiveUp
<1> QED
  BY <1>1, <1>2, <1>3, <1>4, <1>5 DEF Add, Change

LEMMA ClientNamed ==
    ASSUME Sound, NEW c \in Clients, Add(c) \/ Change(c), NEW id \in Texts \ Subject("update"), Named(id)
    PROVE  Named(id)'
<1>1. ASSUME row'[id] # Absent PROVE row'[id].text = id
  <2>1. ASSUME pc[c] = "write", Request(c).id = id PROVE NewText(c) = id
    <3>1. /\ pos[c] \in DOMAIN Requests[c] /\ Request(c) \in IdCalls
      BY <2>1, EngineAssumption DEF Sound, Shape, Calls
    <3>2. Request(c).op # "update"
      BY <2>1, <3>1 DEF Subject, Request
    <3> QED
      BY <2>1, <3>2 DEF NewText, Named
  <2> QED
    BY <1>1, <2>1, ClientTexts DEF Named
<1>2. ASSUME NEW d \in Clients, pc'[d] = "write", Request(d)'.id = id PROVE got'[d].text = id
  <2>1. CASE d = c
    <3>1. /\ Request(c)' = Request(c) /\ row[Request(c).id] # Absent
          /\ got'[c] = row[Request(c).id]
      BY <1>2, <2>1, WriteBegins, ReadEmbedded
    <3> QED
      BY <1>2, <2>1, <3>1 DEF Named
  <2>2. CASE d # c
    <3>1. pc'[d] = pc[d] /\ got'[d] = got[d] /\ Request(d)' = Request(d)
      BY <2>2, ClientOthers DEF Others, Request
    <3> QED
      BY <1>2, <3>1 DEF Named
  <2> QED
    BY <2>1, <2>2
<1> QED
  BY <1>1, <1>2 DEF Named

LEMMA ClientOnce ==
    ASSUME Sound, Locked, store.existing # "raise", NEW c \in Clients, Add(c) \/ Change(c),
           NEW id \in Texts, Named(id), Once(id), id \notin missed'
    PROVE  Once(id)'
<1>0. /\ Proc \in [Clients -> Procs] /\ Others(c) /\ hist \in [Texts -> Seq(Events)]
  BY EngineAssumption, ClientOthers, StateTyped
<1>1. ASSUME NEW p \in Procs
      PROVE  /\ Bounded(id, {p})'
             /\ ~(Puts(c, id) /\ Proc[c] = p) => Adds(id, {p})' = Adds(id, {p})
             /\ Deletes(id)' \in Nat /\ Deletes(id)' >= Deletes(id)
  <2>1. Bounded(id, {p})
    BY DEF Once
  <2>2. Puts(c, id) /\ Proc[c] \in {p} => Adds(id, {p}) <= Deletes(id)
    BY StoredAbout DEF Once
  <2>3. /\ Bounded(id, {p})'
        /\ ~(Puts(c, id) /\ Proc[c] \in {p}) => Adds(id, {p})' = Adds(id, {p})
        /\ Deletes(id)' \in Nat /\ Deletes(id)' >= Deletes(id)
    BY <2>1, <2>2, ClientBounded
  <2> QED
    BY <2>3
<1>2. ASSUME NEW d \in Clients, About(d, id)' PROVE Adds(id, {Proc[d]})' <= Deletes(id)'
  <2>1. Adds(id, {Proc[d]}) <= Deletes(id) /\ ~(Puts(c, id) /\ Proc[c] = Proc[d])
    <3>1. CASE d = c
      <4>1. /\ ~Puts(c, id)
            /\ About(c, id) \/ row[id] = Absent \/ row[id].text # id \/ id \in missed'
        BY <1>2, <3>1, AboutBegins
      <4>2. ASSUME row[id] = Absent PROVE Adds(id, {Proc[d]}) <= Deletes(id)
        <5>1. Bounded(id, {Proc[d]}) /\ There(row, id) = 0
          BY <1>0, <4>2 DEF Once, There
        <5>2. Adds(id, {Proc[d]}) \in Nat /\ Deletes(id) \in Nat
          BY <1>0, CountsTyped
        <5> QED
          BY <5>1, <5>2 DEF Bounded
      <4> QED
        BY <3>1, <4>1, <4>2 DEF Once, Named
    <3>2. CASE d # c
      <4>1. About(d, id)
        BY <1>0, <1>2, <3>2 DEF Others, About
      <4>2. lock[Proc[d]] = d
        BY <4>1 DEF About, Locked, AddSteps
      <4>3. Puts(c, id) => lock[Proc[c]] = c
        BY DEF Puts, Locked, AddSteps
      <4> QED
        BY <3>2, <4>1, <4>2, <4>3 DEF Once
    <3> QED
      BY <3>1, <3>2
  <2>2. Adds(id, {Proc[d]})' = Adds(id, {Proc[d]}) /\ Deletes(id)' \in Nat /\ Deletes(id)' >= Deletes(id)
    BY <1>0, <1>1, <2>1
  <2>3. Adds(id, {Proc[d]}) \in Nat /\ Deletes(id) \in Nat
    BY <1>0, CountsTyped
  <2> QED
    BY <2>1, <2>2, <2>3
<1> QED
  BY <1>1, <1>2 DEF Once

LEMMA ClientConverges ==
    ASSUME Sound, Converging, NEW c \in Clients, Add(c) \/ Change(c) PROVE Converging'
<1>1. Locked /\ Refusing /\ Guarded /\ store' = store
  BY ClientKeeps DEF Converging
<1>2. Locked'
  BY <1>1, ClientLocked
<1>3. Refusing'
  <2>1. ASSUME store.existing = "raise", NEW id \in Texts PROVE Bounded(id, Procs)'
    <3>1. Bounded(id, Procs)
      BY <1>1, <2>1 DEF Refusing
    <3>2. ASSUME Puts(c, id) PROVE Adds(id, Procs) <= Deletes(id)
      <4>1. There(row, id) = 0
        BY <2>1, <3>2, StoredRows DEF There
      <4>2. Adds(id, Procs) \in Nat /\ Deletes(id) \in Nat
        BY StateTyped, CountsTyped
      <4> QED
        BY <3>1, <4>1, <4>2 DEF Bounded
    <3> QED
      BY <3>1, <3>2, ClientBounded
  <2> QED
    BY <1>1, <2>1 DEF Refusing
<1>4. Guarded'
  <2>1. ASSUME store.existing # "raise", NEW id \in Texts \ Subject("update")
        PROVE  Named(id)' /\ (id \notin missed' => Once(id)')
    <3>1. Named(id) /\ (id \notin missed => Once(id))
      BY <1>1, <2>1 DEF Guarded
    <3>2. ASSUME id \notin missed' PROVE Once(id)'
      <4>1. id \notin missed
        BY <3>2, MissedGrows
      <4> QED
        BY <1>1, <2>1, <3>1, <3>2, <4>1, ClientOnce
    <3> QED
      BY <2>1, <3>1, <3>2, ClientNamed
  <2> QED
    BY <1>1, <2>1 DEF Guarded, Subject
<1> QED
  BY <1>2, <1>3, <1>4 DEF Converging

\* The script changes vectors, never which memories there are or what they say.
LEMMA ScriptTexts ==
    ASSUME Sound, Kept, Script
    PROVE  /\ UNCHANGED scriptOnly
           /\ \A t \in Texts : row'[t] = Absent <=> row[t] = Absent
           /\ \A t \in Texts : row[t] # Absent => row'[t].text = row[t].text
<1>1. ASSUME Restore PROVE \A t \in Texts : row[t] # Absent => row'[t].text = row[t].text
  BY <1>1, RestoreSound DEF Kept
<1>2. ASSUME UpdateVectors PROVE \A t \in Texts : row[t] # Absent => row'[t].text = row[t].text
  BY <1>2, UpdateVectorsSound
<1> QED
  BY <1>1, <1>2, ScriptRows DEF Script, StartScript, Scan, Crash, StartRollback

LEMMA UntouchedConverges ==
    ASSUME Sound, Converging, UNCHANGED scriptOnly,
           \A t \in Texts : row'[t] = Absent <=> row[t] = Absent,
           \A t \in Texts : row[t] # Absent => row'[t].text = row[t].text
    PROVE  Converging'
<1>1. UNCHANGED <<store, hist, lock, pc, pos, todo, cur, got, saved, missed>>
  BY DEF scriptOnly, clientVars
<1>2. \A c \in Clients : Request(c)' = Request(c)
  BY <1>1 DEF Request
<1>3. ASSUME NEW id \in Texts, NEW ps
      PROVE  Adds(id, ps)' = Adds(id, ps) /\ Deletes(id)' = Deletes(id) /\ There(row, id)' = There(row, id)
  <2>1. There(row, id)' = There(row, id)
    BY DEF There
  <2>2. Adds(id, ps)' = Adds(id, ps)
    BY <1>1, Zenon DEF Adds
  <2>3. Deletes(id)' = Deletes(id)
    <3>1. {c \in Clients : pc'[c] = "note" /\ Request(c)'.op = "delete" /\ Request(c)'.id = id}
            = {c \in Clients : pc[c] = "note" /\ Request(c).op = "delete" /\ Request(c).id = id}
      BY <1>1, <1>2
    <3> QED
      BY <1>1, <3>1, Zenon DEF Deletes
  <2> QED
    BY <2>1, <2>2, <2>3
<1>4. \A id \in Texts : \A ps : Bounded(id, ps)' <=> Bounded(id, ps)
  BY <1>3 DEF Bounded
<1>5. ASSUME NEW id \in Texts PROVE (Named(id) => Named(id)') /\ (Once(id) => Once(id)')
  <2>1. Named(id) => Named(id)'
    BY <1>1, <1>2, <1>5 DEF Named
  <2>2. ASSUME Once(id), NEW c \in Clients, About(c, id)' PROVE Adds(id, {Proc[c]})' <= Deletes(id)'
    <3>1. About(c, id)
      BY <1>1, <2>2 DEF About
    <3> QED
      BY <1>3, <2>2, <3>1 DEF Once
  <2> QED
    BY <1>4, <2>1, <2>2 DEF Once
<1>6. Locked'
  BY <1>1 DEF Converging, Locked
<1>7. Refusing'
  BY <1>1, <1>4 DEF Converging, Refusing
<1>8. Guarded'
  BY <1>1, <1>5 DEF Converging, Guarded, Subject
<1> QED
  BY <1>6, <1>7, <1>8 DEF Converging

LEMMA InitConverges == ASSUME Init PROVE Converging
<1>1. /\ \A c \in Clients : pc[c] = "idle" /\ saved[c] = {}
      /\ hist = [t \in Texts |-> <<>>] /\ hist \in [Texts -> Seq(Events)]
  BY DEF Init
<1>2. ASSUME NEW id \in Texts, NEW ps PROVE Bounded(id, ps)
  <2>1. NotedBy("ADD", id, ps) = {} /\ AddingBy(id, ps) = {}
    BY <1>1 DEF NotedBy, AddingBy
  <2>2. Cardinality({}) = 0
    BY FS_EmptySet
  <2>3. Cardinality(NotedBy("ADD", id, ps)) = 0 /\ Cardinality(AddingBy(id, ps)) = 0
    BY <2>1, <2>2, Zenon
  <2>4. Adds(id, ps) = Member(id, Seeded)
    BY <2>3, AddsParts DEF Member
  <2>5. id \in Seeded => row[id] # Absent
    <3>1. NewRow(id, [of |-> id, by |-> "old"]) # Absent
      BY NewRowTyped, EngineAssumption DEF Vectors
    <3> QED
      BY <3>1 DEF Init
  <2>6. Deletes(id) \in Nat
    BY <1>1, CountsTyped
  <2> QED
    BY <2>4, <2>5, <2>6 DEF Bounded, Member, There
<1>3. ASSUME NEW id \in Texts PROVE Named(id) /\ Once(id)
  <2>1. row[id] # Absent => row[id].text = id
    BY DEF Init, NewRow
  <2> QED
    BY <1>1, <1>2, <2>1 DEF Named, Once, About
<1>4. Locked
  BY <1>1 DEF Locked, AddSteps
<1> QED
  BY <1>2, <1>3, <1>4 DEF Converging, Refusing, Guarded

LEMMA NextConverges == Sound /\ Kept /\ Converging /\ [Next]_vars => Converging'
<1> SUFFICES ASSUME Sound, Kept, Converging, [Next]_vars PROVE Converging'
  OBVIOUS
<1>1. CASE UNCHANGED vars
  <2>1. UNCHANGED <<row, scriptOnly>>
    BY <1>1 DEF vars, scriptOnly
  <2> QED
    BY <2>1, UntouchedConverges
<1>2. ASSUME NEW c \in Clients, Add(c) \/ Change(c) PROVE Converging'
  BY <1>2, ClientConverges
<1>3. CASE Script
  BY <1>3, ScriptTexts, UntouchedConverges
<1> QED
  BY <1>1, <1>2, <1>3 DEF Next

\* RetriesConverge: with a primary key no memory is added twice without a delete between, by clients
\* of any processes; in the other stores none is by clients of one process, thanks to the lock of the
\* session scope, unless updates change the text that adds look for, or an add has overlooked it.
THEOREM RetriesConvergeThm == Spec => []RetriesConverge
<1>1. Sound /\ Converging => RetriesConverge
  <2> SUFFICES ASSUME Sound, Converging PROVE RetriesConverge
    OBVIOUS
  <2>1. ASSUME NEW id \in Texts, NEW ps, Bounded(id, ps) PROVE Adds(id, ps) <= 1 + Deletes(id)
    <3>1. Adds(id, ps) \in Nat /\ Deletes(id) \in Nat /\ There(row, id) \in {0, 1}
      BY StateTyped, CountsTyped DEF There
    <3> QED
      BY <2>1, <3>1 DEF Bounded
  <2> QED
    BY <2>1 DEF Converging, Refusing, Guarded, Once, RetriesConverge
<1> QED
  BY InitSound, NextSound, InitConverges, NextConverges, <1>1, PTL DEF Spec

=============================================================================
