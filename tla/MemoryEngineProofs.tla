-------------------------- MODULE MemoryEngineProofs --------------------------
(* Proofs about MemoryEngine, for any texts, clients, processes, calls, stores and batches.      *)
EXTENDS MemoryEngine, FiniteSetTheorems, TLAPS

-----------------------------------------------------------------------------
(* Types, beyond TypeOK: the script, and what a call is at which step. *)

Batches == {<<>>} \cup UNION {[D -> Rows] : D \in SUBSET Texts}
Backups == {<<>>} \cup UNION {[D -> Vectors] : D \in SUBSET Texts}
Scripts == [at : ScriptSteps, after : Nat, batch : Batches, backup : Backups, torn : BOOLEAN,
            left : SUBSET Texts, failed : SUBSET Texts, restored : SUBSET Texts, crashes : Nat]

Events == [event : {"ADD", "UPDATE", "DELETE"}, text : Texts, proc : Procs, noted : BOOLEAN]

\* A client that is not idle is in the middle of one of its calls, of the kind of its step.
Calls ==
    \A c \in Clients :
        /\ pc[c] # "idle" => pos[c] \in 1..Len(Requests[c])
        /\ pc[c] \in {"raw", "insert", "recheck", "log", "batch", "single", "record"} =>
             Request(c) \in AddCalls
        /\ pc[c] \in {"write", "remove", "note"} => Request(c) \in IdCalls
        /\ pc[c] = "write" => Request(c).op # "delete"
        /\ pc[c] = "remove" => Request(c).op = "delete"
        /\ pc[c] \in {"write", "note"} /\ Request(c).op # "delete" => got[c] \in Rows
        /\ pc[c] \in {"insert", "recheck", "log"} => cur[c] \in Texts

Shape == TypeOK /\ script \in Scripts /\ Calls

\* What a client has stored and not yet put in the history.
Storing ==
    \A c \in Clients :
        /\ pc[c] \notin {"single", "record"} => saved[c] = {}
        /\ saved[c] \cap todo[c] = {}

LEMMA CallTyped ==
    ASSUME NEW c \in Clients, pos[c] \in 1..Len(Requests[c])
    PROVE  Request(c) \in AddCalls \cup IdCalls
BY EngineAssumption DEF Request

LEMMA CalledTyped ==
    ASSUME TypeOK, NEW c \in Clients, NEW op, Called(c, op)
    PROVE  /\ pos[c] \in 1..Len(Requests[c])
           /\ op \in {"raw", "infer"} => Request(c) \in AddCalls
           /\ op \in {"update", "meta", "delete"} => Request(c) \in IdCalls
<1>1. pos[c] \in 1..Len(Requests[c])
  BY EngineAssumption DEF TypeOK, Called
<1>2. Request(c) \in AddCalls \cup IdCalls
  BY <1>1, CallTyped
<1>3. Request(c).op = op
  BY DEF Called
<1> QED
  BY <1>1, <1>2, <1>3 DEF AddCalls, IdCalls

LEMMA VectorsTyped ==
    /\ NoVec \in Vectors /\ \A t \in Texts : Embedding(t) \in Vectors
    /\ [t \in Texts |-> NoVec] \in [Texts -> Vectors]
<1>1. NoVec \in Vectors /\ \A t \in Texts : Embedding(t) \in Vectors
  BY DEF Vectors, Embedding
<1> QED
  BY <1>1

\* The embeddings of a client are forgotten, or one of them is set.
LEMMA EmbeddingsTyped ==
    ASSUME TypeOK, NEW c \in Clients
    PROVE  /\ [emb EXCEPT ![c] = [t \in Texts |-> NoVec]] \in [Clients -> [Texts -> Vectors]]
           /\ \A t \in Texts, v \in Vectors :
                [emb EXCEPT ![c][t] = v] \in [Clients -> [Texts -> Vectors]]
<1>1. emb \in [Clients -> [Texts -> Vectors]] /\ emb[c] \in [Texts -> Vectors]
  BY DEF TypeOK
<1>2. \A f \in [Texts -> Vectors] : [emb EXCEPT ![c] = f] \in [Clients -> [Texts -> Vectors]]
  BY <1>1
<1>3. ASSUME NEW t \in Texts, NEW v \in Vectors
      PROVE  [emb EXCEPT ![c][t] = v] \in [Clients -> [Texts -> Vectors]]
  <2>1. [emb[c] EXCEPT ![t] = v] \in [Texts -> Vectors]
    BY <1>1
  <2> QED
    BY <2>1, <1>2
<1> QED
  BY <1>2, <1>3, VectorsTyped

LEMMA NewRowTyped == ASSUME NEW t \in Texts, NEW v \in Vectors PROVE NewRow(t, v) \in Rows
BY DEF NewRow, Rows

\* An insertion changes rows of the texts inserted only.
LEMMA InsertedTyped ==
    ASSUME TypeOK, NEW ts \in SUBSET Texts, NEW v \in [Texts -> Vectors]
    PROVE  /\ Inserted(ts, v) \in [Texts -> Rows \cup {Absent}]
           /\ \A t \in Texts \ ts : Inserted(ts, v)[t] = row[t]
           /\ \A t \in Texts : row[t] # Absent => Inserted(ts, v)[t] # Absent
           /\ \A t \in ts : Inserted(ts, v)[t] # Absent
<1>1. \A t \in Texts : NewRow(t, v[t]) \in Rows
  BY NewRowTyped
<1>2. row \in [Texts -> Rows \cup {Absent}] /\ Absent \notin Rows
  BY EngineAssumption DEF TypeOK
<1> QED
  BY <1>1, <1>2 DEF Inserted

LEMMA TouchTyped ==
    ASSUME TypeOK, NEW ts, Touch(ts)
    PROVE  /\ before' \in [Texts -> Rows \cup {Absent}]
           /\ \A t \in Texts : t \in ts => before'[t] = Absent
           /\ \A t \in Texts : t \notin ts => before'[t] = before[t]
BY DEF TypeOK, Touch

\* All clients but c keep what Calls and Storing say of them.
Others(c) ==
    \A d \in Clients \ {c} :
        /\ pc'[d] = pc[d] /\ pos'[d] = pos[d] /\ got'[d] = got[d] /\ cur'[d] = cur[d]
        /\ saved'[d] = saved[d] /\ todo'[d] = todo[d]

\* What a step of c has to establish.
Placed(c) ==
    /\ pc'[c] # "idle" => pos'[c] \in 1..Len(Requests[c])
    /\ pc'[c] \in {"raw", "insert", "recheck", "log", "batch", "single", "record"} =>
         Request(c)' \in AddCalls
    /\ pc'[c] \in {"write", "remove", "note"} => Request(c)' \in IdCalls
    /\ pc'[c] = "write" => Request(c)'.op # "delete"
    /\ pc'[c] = "remove" => Request(c)'.op = "delete"
    /\ pc'[c] \in {"write", "note"} /\ Request(c)'.op # "delete" => got'[c] \in Rows
    /\ pc'[c] \in {"insert", "recheck", "log"} => cur'[c] \in Texts
    /\ pc'[c] \notin {"single", "record"} => saved'[c] = {}
    /\ saved'[c] \cap todo'[c] = {}

LEMMA PlacedKeeps ==
    ASSUME Calls, Storing, NEW c \in Clients, Others(c), Placed(c) PROVE Calls' /\ Storing'
<1>1. \A d \in Clients \ {c} : Request(d)' = Request(d)
  BY DEF Others, Request
<1> QED
  BY <1>1 DEF Calls, Storing, Others, Placed

Sound == Shape /\ Storing

-----------------------------------------------------------------------------
(* The steps of the clients. *)

LEMMA EndAddSound == ASSUME Sound, NEW c \in Clients, EndAdd(c) PROVE Sound'
<1>1. TypeOK'
  <2>1. emb' \in [Clients -> [Texts -> Vectors]]
    BY EmbeddingsTyped DEF Sound, Shape, EndAdd, Dropped, Spent
  <2>2. cur' = [cur EXCEPT ![c] = Absent]
    BY DEF EndAdd, Dropped
  <2>3. lock' \in [Procs -> Clients \cup {NoOne}]
    BY DEF Sound, Shape, TypeOK, EndAdd
  <2>4. /\ pc' \in [Clients -> Steps] /\ todo' \in [Clients -> SUBSET Texts]
        /\ saved' \in [Clients -> SUBSET Texts]
    BY DEF Sound, Shape, TypeOK, EndAdd, Steps
  <2>5. pos' \in [Clients -> Nat \ {0}] /\ cur' \in [Clients -> Texts \cup {Absent}]
    BY <2>2 DEF Sound, Shape, TypeOK, EndAdd
  <2>6. UNCHANGED <<store, row, hist, got, missed, script, before>>
    BY DEF EndAdd
  <2> QED
    BY <2>1, <2>3, <2>4, <2>5, <2>6 DEF Sound, Shape, TypeOK
<1>2. Others(c) /\ Placed(c)
  BY DEF Sound, Shape, TypeOK, EndAdd, Dropped, Others, Placed
<1> QED
  BY <1>1, <1>2, PlacedKeeps DEF Sound, Shape, EndAdd

LEMMA GiveUpSound ==
    ASSUME Sound, NEW c \in Clients, GiveUp(c), lock' \in [Procs -> Clients \cup {NoOne}],
           pos[c] \in 1..Len(Requests[c]), pc[c] \notin {"single", "record"}
    PROVE  Sound'
<1>1. TypeOK'
  BY DEF Sound, Shape, TypeOK, GiveUp, Steps
<1>2. Others(c) /\ Placed(c)
  BY DEF Sound, Shape, TypeOK, GiveUp, Others, Placed, Storing
<1> QED
  BY <1>1, <1>2, PlacedKeeps DEF Sound, Shape, GiveUp

LEMMA LockTyped ==
    ASSUME TypeOK, NEW c \in Clients, TakesLock(c)
    PROVE  lock' \in [Procs -> Clients \cup {NoOne}]
BY EngineAssumption DEF TypeOK, TakesLock

\* What a write of the history may come to, and an event.
LEMMA OutcomesTyped == Outcomes \subseteq BOOLEAN
BY DEF Outcomes

LEMMA EventTyped ==
    ASSUME NEW e \in {"ADD", "UPDATE", "DELETE"}, NEW t \in Texts, NEW c \in Clients, NEW noted \in Outcomes
    PROVE  Event(e, t, c, noted) \in Events
BY EngineAssumption, OutcomesTyped DEF Event, Events

LEMMA OverlookTyped ==
    ASSUME TypeOK, NEW ts \in SUBSET Texts, Overlook(ts)
    PROVE  missed' \in SUBSET Texts /\ missed \subseteq missed'
BY DEF TypeOK, Overlook

LEMMA SelectMessagesSound == ASSUME Sound, NEW c \in Clients, SelectMessages(c) PROVE Sound'
<1>1. /\ pos[c] \in 1..Len(Requests[c]) /\ Request(c) \in AddCalls /\ pc[c] = "idle"
  BY CalledTyped DEF Sound, Shape, SelectMessages, Called
<1>2. PICK new \in SUBSET Texts : todo' = [todo EXCEPT ![c] = new]
  BY <1>1 DEF AddCalls, SelectMessages
<1>3. lock' \in [Procs -> Clients \cup {NoOne}]
  BY LockTyped DEF Sound, Shape, SelectMessages
<1>4. TypeOK'
  BY <1>2, <1>3 DEF Sound, Shape, TypeOK, SelectMessages, Steps
<1>5. Request(c)' = Request(c)
  BY DEF SelectMessages, Request
<1>6. Others(c) /\ Placed(c)
  BY <1>1, <1>5 DEF Sound, Shape, TypeOK, SelectMessages, Others, Placed, Storing
<1> QED
  BY <1>4, <1>6, PlacedKeeps DEF Sound, Shape, SelectMessages

LEMMA ExamineMessageSound == ASSUME Sound, NEW c \in Clients, ExamineMessage(c) PROVE Sound'
<1>1. PICK t \in todo[c], v \in Vectors :
        \/ todo' = [todo EXCEPT ![c] = @ \ {t}] /\ UNCHANGED <<pc, cur, emb, missed>>
        \/ /\ Overlook({t})
           /\ cur' = [cur EXCEPT ![c] = t]
           /\ emb' = [emb EXCEPT ![c][t] = v]
           /\ pc' = [pc EXCEPT ![c] = "insert"]
           /\ UNCHANGED todo
  <2>1. PICK t \in todo[c] :
          \E v \in {NoVec} \cup (IF Request(c).op = "raw" THEN {Embedding(t)} ELSE {}) :
            \/ todo' = [todo EXCEPT ![c] = @ \ {t}] /\ UNCHANGED <<pc, cur, emb, missed>>
            \/ /\ Overlook({t})
               /\ cur' = [cur EXCEPT ![c] = t]
               /\ emb' = [emb EXCEPT ![c][t] = v]
               /\ pc' = [pc EXCEPT ![c] = "insert"]
               /\ UNCHANGED todo
    BY DEF ExamineMessage
  <2>2. t \in Texts
    BY DEF Sound, Shape, TypeOK
  <2> QED
    BY <2>1, <2>2, VectorsTyped
<1>2. t \in Texts /\ pc[c] = "raw"
  BY DEF Sound, Shape, TypeOK, ExamineMessage
<1>3. UNCHANGED <<store, row, hist, lock, pos, got, saved, script, before>>
  BY DEF ExamineMessage
<1>4. TypeOK'
  <2>1. CASE todo' = [todo EXCEPT ![c] = @ \ {t}] /\ UNCHANGED <<pc, cur, emb, missed>>
    BY <1>3, <2>1 DEF Sound, Shape, TypeOK
  <2>2. CASE /\ Overlook({t})
             /\ cur' = [cur EXCEPT ![c] = t] /\ emb' = [emb EXCEPT ![c][t] = v]
             /\ pc' = [pc EXCEPT ![c] = "insert"] /\ UNCHANGED todo
    <3>1. missed' \in SUBSET Texts
      BY <1>2, <2>2, OverlookTyped DEF Sound, Shape
    <3>2. emb' \in [Clients -> [Texts -> Vectors]]
      BY <2>2, <1>2, EmbeddingsTyped DEF Sound, Shape
    <3>3. cur' \in [Clients -> Texts \cup {Absent}] /\ pc' \in [Clients -> Steps]
      BY <2>2, <1>2 DEF Sound, Shape, TypeOK, Steps
    <3> QED
      BY <1>3, <2>2, <3>1, <3>2, <3>3 DEF Sound, Shape, TypeOK
  <2> QED
    BY <1>1, <2>1, <2>2
<1>5. Request(c)' = Request(c)
  BY <1>3 DEF Request
<1>6. Others(c) /\ Placed(c)
  BY <1>1, <1>2, <1>3, <1>5 DEF Sound, Shape, TypeOK, Others, Placed, Storing, Calls
<1> QED
  BY <1>3, <1>4, <1>6, PlacedKeeps DEF Sound, Shape

LEMMA InsertMessageSound == ASSUME Sound, NEW c \in Clients, InsertMessage(c) PROVE Sound'
<1>1. pc[c] = "insert" /\ cur[c] \in Texts /\ emb[c] \in [Texts -> Vectors]
      /\ UNCHANGED <<store, hist, lock, pos, todo, cur, emb, got, saved, missed, script>>
  BY DEF Sound, Shape, TypeOK, Calls, InsertMessage
<1>2. Request(c)' = Request(c)
  BY <1>1 DEF Request
<1>3. CASE pc' = [pc EXCEPT ![c] = "recheck"] /\ UNCHANGED <<row, before>>
  <2>2. TypeOK'
    BY <1>1, <1>3 DEF Sound, Shape, TypeOK, Steps
  <2>3. Others(c) /\ Placed(c)
    BY <1>1, <1>2, <1>3 DEF Sound, Shape, TypeOK, Others, Placed, Storing, Calls
  <2> QED
    BY <1>1, <2>2, <2>3, PlacedKeeps DEF Sound, Shape
<1>4. CASE pc' = [pc EXCEPT ![c] = "log"] /\ row' = Inserted({cur[c]}, emb[c]) /\ Touch({cur[c]})
  <2>2. row' \in [Texts -> Rows \cup {Absent}] /\ before' \in [Texts -> Rows \cup {Absent}]
    BY <1>1, <1>4, InsertedTyped, TouchTyped DEF Sound, Shape
  <2>3. TypeOK'
    BY <1>1, <1>4, <2>2 DEF Sound, Shape, TypeOK, Steps
  <2>4. Others(c) /\ Placed(c)
    BY <1>1, <1>2, <1>4 DEF Sound, Shape, TypeOK, Others, Placed, Storing, Calls
  <2> QED
    BY <1>1, <2>3, <2>4, PlacedKeeps DEF Sound, Shape
<1> QED
  BY <1>3, <1>4 DEF InsertMessage

LEMMA RecheckSound == ASSUME Sound, NEW c \in Clients, Recheck(c) PROVE Sound'
<1>1. pc[c] = "recheck" /\ Request(c)' = Request(c)
  BY DEF Recheck, Request
<1>2. TypeOK'
  <2>1. emb' \in [Clients -> [Texts -> Vectors]]
    BY EmbeddingsTyped DEF Sound, Shape, Recheck, Dropped, Spent
  <2>2. cur' = [cur EXCEPT ![c] = Absent]
    BY DEF Recheck, Dropped
  <2>3. \/ todo' = [todo EXCEPT ![c] = @ \ {cur[c]}] /\ pc' = [pc EXCEPT ![c] = "raw"]
        \/ todo' = todo /\ pc' = [pc EXCEPT ![c] = "unlock"]
    BY DEF Recheck
  <2>5. /\ pc' \in [Clients -> Steps] /\ todo' \in [Clients -> SUBSET Texts]
        /\ cur' \in [Clients -> Texts \cup {Absent}]
    <3>1. CASE todo' = [todo EXCEPT ![c] = @ \ {cur[c]}] /\ pc' = [pc EXCEPT ![c] = "raw"]
      BY <2>2, <3>1 DEF Sound, Shape, TypeOK, Steps
    <3>2. CASE todo' = todo /\ pc' = [pc EXCEPT ![c] = "unlock"]
      BY <2>2, <3>2 DEF Sound, Shape, TypeOK, Steps
    <3> QED
      BY <2>3, <3>1, <3>2
  <2>4. UNCHANGED <<store, row, hist, lock, pos, got, saved, missed, script, before>>
    BY DEF Recheck
  <2> QED
    BY <2>1, <2>5, <2>4 DEF Sound, Shape, TypeOK
<1>3. Others(c) /\ Placed(c)
  BY <1>1 DEF Sound, Shape, TypeOK, Recheck, Dropped, Others, Placed, Storing, Calls
<1> QED
  BY <1>2, <1>3, PlacedKeeps DEF Sound, Shape, Recheck

\* An event at the end of a history.
LEMMA HistoryTyped ==
    ASSUME TypeOK, NEW id \in Texts, NEW e \in Events, hist' = [hist EXCEPT ![id] = Append(@, e)]
    PROVE  hist' \in [Texts -> Seq(Events)]
<1>1. hist \in [Texts -> Seq(Events)]
  BY DEF TypeOK, Events
<1>2. Append(hist[id], e) \in Seq(Events)
  BY <1>1
<1> QED
  BY <1>1, <1>2

LEMMA LogMessageSound == ASSUME Sound, NEW c \in Clients, LogMessage(c) PROVE Sound'
<1>1. pc[c] = "log" /\ Request(c)' = Request(c) /\ cur[c] \in Texts
  BY DEF LogMessage, Request, Sound, Shape, Calls
<1>0. PICK noted \in Outcomes :
        /\ hist' = [hist EXCEPT ![cur[c]] = Append(@, Event("ADD", cur[c], c, noted))]
        /\ pc' = [pc EXCEPT ![c] = IF noted THEN "raw" ELSE "unlock"]
  BY DEF LogMessage
<1>2. Event("ADD", cur[c], c, noted) \in Events
  BY <1>1, EventTyped
<1>3. hist' \in [Texts -> Seq(Events)]
  BY <1>0, <1>1, <1>2, HistoryTyped DEF Sound, Shape
<1>4. TypeOK'
  <2>1. emb' \in [Clients -> [Texts -> Vectors]]
    BY EmbeddingsTyped DEF Sound, Shape, LogMessage, Dropped, Spent
  <2>2. cur' = [cur EXCEPT ![c] = Absent]
    BY DEF LogMessage, Dropped
  <2>3. /\ pc' \in [Clients -> Steps] /\ todo' \in [Clients -> SUBSET Texts]
        /\ cur' \in [Clients -> Texts \cup {Absent}]
    BY <1>0, <2>2 DEF Sound, Shape, TypeOK, LogMessage, Steps
  <2>4. UNCHANGED <<store, row, lock, pos, got, saved, missed, script, before>>
    BY DEF LogMessage
  <2> QED
    BY <1>3, <2>1, <2>3, <2>4 DEF Sound, Shape, TypeOK, Events
<1>5. Others(c) /\ Placed(c)
  <2>1. CASE pc' = [pc EXCEPT ![c] = "raw"]
    <3>1. /\ pos' = pos /\ got' = got /\ saved' = saved /\ pc'[c] = "raw"
          /\ cur' = [cur EXCEPT ![c] = Absent] /\ todo' = [todo EXCEPT ![c] = @ \ {cur[c]}]
      BY <2>1 DEF Sound, Shape, TypeOK, LogMessage, Dropped
    <3>2. Others(c)
      BY <2>1, <3>1 DEF Sound, Shape, TypeOK, Others
    <3>3. saved[c] = {} /\ pos[c] \in 1..Len(Requests[c]) /\ Request(c) \in AddCalls
      BY <1>1 DEF Sound, Shape, Storing, Calls
    <3> QED
      BY <1>1, <3>1, <3>2, <3>3 DEF Placed
  <2>2. CASE pc' = [pc EXCEPT ![c] = "unlock"]
    <3>1. /\ pos' = pos /\ got' = got /\ saved' = saved /\ pc'[c] = "unlock"
          /\ cur' = [cur EXCEPT ![c] = Absent] /\ todo' = [todo EXCEPT ![c] = @ \ {cur[c]}]
      BY <2>2 DEF Sound, Shape, TypeOK, LogMessage, Dropped
    <3>2. Others(c)
      BY <2>2, <3>1 DEF Sound, Shape, TypeOK, Others
    <3>3. saved[c] = {} /\ pos[c] \in 1..Len(Requests[c]) /\ Request(c) \in AddCalls
      BY <1>1 DEF Sound, Shape, Storing, Calls
    <3> QED
      BY <1>1, <3>1, <3>2, <3>3 DEF Placed
  <2> QED
    BY <1>0, <2>1, <2>2
<1> QED
  BY <1>4, <1>5, PlacedKeeps DEF Sound, Shape, LogMessage

LEMMA SelectFactsSound == ASSUME Sound, NEW c \in Clients, SelectFacts(c) PROVE Sound'
<1>1. pos[c] \in 1..Len(Requests[c]) /\ Request(c) \in AddCalls /\ pc[c] = "idle"
  BY CalledTyped DEF Sound, Shape, SelectFacts, Called
<1>2. PICK new \in SUBSET Texts :
        /\ todo' = [todo EXCEPT ![c] = new]
        /\ Overlook(new)
        /\ \E out \in SUBSET new :
             emb' = [emb EXCEPT ![c] = [t \in Texts |-> IF t \in new \ out THEN Embedding(t) ELSE NoVec]]
  <2>1. PICK found \in Lookups(Request(c).facts) :
          /\ todo' = [todo EXCEPT ![c] = Request(c).facts \ found]
          /\ Overlook(Request(c).facts \ found)
          /\ \E out \in SUBSET (Request(c).facts \ found) :
               emb' = [emb EXCEPT ![c] = [t \in Texts |->
                         IF t \in (Request(c).facts \ found) \ out THEN Embedding(t) ELSE NoVec]]
    BY DEF SelectFacts
  <2>2. Request(c).facts \ found \in SUBSET Texts
    BY <1>1 DEF AddCalls
  <2> QED
    BY <2>1, <2>2
<1>3. lock' \in [Procs -> Clients \cup {NoOne}]
  BY LockTyped DEF Sound, Shape, SelectFacts
<1>4. PICK out \in SUBSET new :
        emb' = [emb EXCEPT ![c] = [t \in Texts |-> IF t \in new \ out THEN Embedding(t) ELSE NoVec]]
  BY <1>2
<1>5. pc' = [pc EXCEPT ![c] = "batch"]
      /\ UNCHANGED <<store, row, hist, pos, cur, got, saved, script, before>>
  BY DEF SelectFacts
<1>6. Request(c)' = Request(c)
  BY <1>5 DEF Request
<1>7. [t \in Texts |-> IF t \in new \ out THEN Embedding(t) ELSE NoVec] \in [Texts -> Vectors]
  BY VectorsTyped
<1>10. missed' \in SUBSET Texts
  BY <1>2, OverlookTyped DEF Sound, Shape
<1>8. TypeOK'
  BY <1>2, <1>3, <1>4, <1>5, <1>7, <1>10 DEF Sound, Shape, TypeOK, Steps
<1>9. Others(c) /\ Placed(c)
  BY <1>1, <1>2, <1>5, <1>6 DEF Sound, Shape, TypeOK, Others, Placed, Storing
<1> QED
  BY <1>5, <1>8, <1>9, PlacedKeeps DEF Sound, Shape

LEMMA SpentTyped ==
    ASSUME TypeOK, NEW c \in Clients, Spent(c) PROVE emb' \in [Clients -> [Texts -> Vectors]]
BY VectorsTyped DEF TypeOK, Spent

LEMMA InsertBatchSound == ASSUME Sound, NEW c \in Clients, InsertBatch(c) PROVE Sound'
<1>1. pc[c] = "batch" /\ todo[c] \in SUBSET Texts /\ emb[c] \in [Texts -> Vectors]
      /\ UNCHANGED <<store, hist, lock, pos, cur, got, missed, script>>
  BY DEF Sound, Shape, TypeOK, InsertBatch
<1>2. Request(c)' = Request(c)
  BY <1>1 DEF Request
<1>3. CASE pc' = [pc EXCEPT ![c] = "single"] /\ UNCHANGED <<row, saved, before, todo, emb>>
  <2>1. TypeOK'
    BY <1>1, <1>3 DEF Sound, Shape, TypeOK, Steps
  <2>2. Others(c) /\ Placed(c)
    BY <1>1, <1>2, <1>3 DEF Sound, Shape, TypeOK, Others, Placed, Storing, Calls
  <2> QED
    BY <1>1, <2>1, <2>2, PlacedKeeps DEF Sound, Shape
<1>4. CASE /\ pc' = [pc EXCEPT ![c] = "record"] /\ row' = Inserted(todo[c], emb[c])
           /\ saved' = [saved EXCEPT ![c] = todo[c]] /\ Touch(todo[c])
           /\ todo' = [todo EXCEPT ![c] = {}] /\ Spent(c)
  <2>1. row' \in [Texts -> Rows \cup {Absent}] /\ before' \in [Texts -> Rows \cup {Absent}]
    BY <1>1, <1>4, InsertedTyped, TouchTyped DEF Sound, Shape
  <2>2. TypeOK'
    BY <1>1, <1>4, <2>1, SpentTyped DEF Sound, Shape, TypeOK, Steps
  <2>3. Others(c) /\ Placed(c)
    BY <1>1, <1>2, <1>4 DEF Sound, Shape, TypeOK, Others, Placed, Storing, Calls
  <2> QED
    BY <1>1, <2>2, <2>3, PlacedKeeps DEF Sound, Shape
<1> QED
  BY <1>3, <1>4 DEF InsertBatch

LEMMA InsertSingleSound == ASSUME Sound, NEW c \in Clients, InsertSingle(c) PROVE Sound'
<1>1. pc[c] = "single" /\ emb[c] \in [Texts -> Vectors]
      /\ UNCHANGED <<store, hist, lock, pos, cur, got, missed, script>>
  BY DEF Sound, Shape, TypeOK, InsertSingle
<1>2. Request(c)' = Request(c)
  BY <1>1 DEF Request
<1>3. PICK t \in todo[c] :
        /\ todo' = [todo EXCEPT ![c] = @ \ {t}]
        /\ \/ UNCHANGED <<row, saved, before>>
           \/ /\ row' = Inserted({t}, emb[c])
              /\ saved' = [saved EXCEPT ![c] = @ \cup {t}]
              /\ Touch({t})
        /\ pc' = [pc EXCEPT ![c] = IF todo[c] = {t} THEN "record" ELSE "single"]
        /\ emb' = [emb EXCEPT ![c][t] = NoVec]
  BY DEF InsertSingle
<1>4. t \in Texts
  BY DEF Sound, Shape, TypeOK
<1>5. /\ row' \in [Texts -> Rows \cup {Absent}] /\ before' \in [Texts -> Rows \cup {Absent}]
      /\ saved' \in [Clients -> SUBSET Texts]
  <2>1. CASE UNCHANGED <<row, saved, before>>
    BY <2>1 DEF Sound, Shape, TypeOK
  <2>2. CASE row' = Inserted({t}, emb[c]) /\ saved' = [saved EXCEPT ![c] = @ \cup {t}] /\ Touch({t})
    <3>1. row' \in [Texts -> Rows \cup {Absent}] /\ before' \in [Texts -> Rows \cup {Absent}]
      BY <1>1, <1>4, <2>2, InsertedTyped, TouchTyped DEF Sound, Shape
    <3> QED
      BY <1>4, <2>2, <3>1 DEF Sound, Shape, TypeOK
  <2> QED
    BY <1>3, <2>1, <2>2
<1>6. TypeOK'
  <2>1. pc' \in [Clients -> Steps] /\ todo' \in [Clients -> SUBSET Texts]
    BY <1>3 DEF Sound, Shape, TypeOK, Steps
  <2>2. emb' \in [Clients -> [Texts -> Vectors]]
    BY <1>3, VectorsTyped DEF Sound, Shape, TypeOK
  <2> QED
    BY <1>1, <1>5, <2>1, <2>2 DEF Sound, Shape, TypeOK
<1>7. Others(c) /\ Placed(c)
  BY <1>1, <1>2, <1>3 DEF Sound, Shape, TypeOK, Others, Placed, Storing, Calls
<1> QED
  BY <1>1, <1>6, <1>7, PlacedKeeps DEF Sound, Shape

LEMMA RecordFactsSound == ASSUME Sound, NEW c \in Clients, RecordFacts(c) PROVE Sound'
<1>1. pc[c] = "record" /\ Request(c)' = Request(c) /\ hist \in [Texts -> Seq(Events)]
  BY DEF RecordFacts, Request, Sound, Shape, TypeOK, Events
<1>0. PICK noted \in [saved[c] -> Outcomes] :
        hist' = [t \in Texts |-> IF t \in saved[c] THEN Append(hist[t], Event("ADD", t, c, noted[t]))
                                 ELSE hist[t]]
  BY DEF RecordFacts
<1>2. \A t \in Texts : t \in saved[c] => Append(hist[t], Event("ADD", t, c, noted[t])) \in Seq(Events)
  <2>1. \A t \in Texts : t \in saved[c] => Event("ADD", t, c, noted[t]) \in Events
    BY <1>0, EventTyped
  <2> QED
    BY <1>1, <2>1
<1>3. hist' \in [Texts -> Seq(Events)]
  BY <1>0, <1>1, <1>2
<1>4. TypeOK'
  BY <1>1, <1>3 DEF Sound, Shape, TypeOK, RecordFacts, Steps, Events
<1>5. Others(c) /\ Placed(c)
  BY <1>1 DEF Sound, Shape, TypeOK, RecordFacts, Others, Placed, Storing, Calls
<1> QED
  BY <1>4, <1>5, PlacedKeeps DEF Sound, Shape, RecordFacts

\* A client whose call has ended.
LEMMA EndedSound ==
    ASSUME Sound, NEW c \in Clients, Ended(c), pc[c] \notin {"single", "record"},
           UNCHANGED <<store, lock, todo, cur, saved, missed, script>>,
           hist' \in [Texts -> Seq(Events)], row' \in [Texts -> Rows \cup {Absent}],
           before' \in [Texts -> Rows \cup {Absent}]
    PROVE  Sound'
<1>1. emb' \in [Clients -> [Texts -> Vectors]]
  BY EmbeddingsTyped DEF Sound, Shape, Ended, Spent
<1>2. TypeOK'
  <2>1. /\ pc' \in [Clients -> Steps] /\ pos' \in [Clients -> Nat \ {0}]
        /\ got' \in [Clients -> Rows \cup {Absent}]
    BY DEF Sound, Shape, TypeOK, Ended, Steps
  <2> QED
    BY <1>1, <2>1 DEF Sound, Shape, TypeOK, Events
<1>3. Others(c) /\ Placed(c)
  BY DEF Sound, Shape, TypeOK, Ended, Others, Placed, Storing
<1> QED
  BY <1>2, <1>3, PlacedKeeps DEF Sound, Shape

LEMMA StateTyped ==
    ASSUME Sound
    PROVE  /\ hist \in [Texts -> Seq(Events)] /\ row \in [Texts -> Rows \cup {Absent}]
           /\ before \in [Texts -> Rows \cup {Absent}]
BY DEF Sound, Shape, TypeOK, Events

LEMMA ReadForUpdateSound == ASSUME Sound, NEW c \in Clients, ReadForUpdate(c) PROVE Sound'
<1> DEFINE r == Request(c)
<1>1. /\ pos[c] \in 1..Len(Requests[c]) /\ r \in IdCalls /\ pc[c] = "idle" /\ r.op # "delete"
  BY CalledTyped DEF Sound, Shape, ReadForUpdate, Called
<1>2. r.id \in Texts /\ r.text \in Texts
  BY <1>1 DEF IdCalls
<1>3. UNCHANGED <<store, row, hist, lock, todo, cur, saved, missed, script, before>>
  BY DEF ReadForUpdate
<1>4. CASE Ended(c)
  BY <1>1, <1>3, <1>4, EndedSound, StateTyped
<1>5. ASSUME NEW v \in Vectors, row[r.id] # Absent,
             got' = [got EXCEPT ![c] = row[r.id]], emb' = [emb EXCEPT ![c][r.text] = v],
             pc' = [pc EXCEPT ![c] = "write"], UNCHANGED pos
      PROVE  Sound'
  <2>1. emb' \in [Clients -> [Texts -> Vectors]] /\ row[r.id] \in Rows
    BY <1>2, <1>5, EmbeddingsTyped, StateTyped DEF Sound, Shape
  <2>2. Request(c)' = r
    BY <1>5 DEF Request
  <2> HIDE DEF r
  <2>3. TypeOK'
    BY <1>3, <1>5, <2>1 DEF Sound, Shape, TypeOK, Steps
  <2>4. Others(c) /\ Placed(c)
    BY <1>1, <1>3, <1>5, <2>1, <2>2 DEF Sound, Shape, TypeOK, Others, Placed, Storing, Calls
  <2> QED
    BY <1>3, <2>3, <2>4, PlacedKeeps DEF Sound, Shape
<1>6. Ended(c) \/ \E v \in Vectors : /\ row[r.id] # Absent
                                     /\ got' = [got EXCEPT ![c] = row[r.id]]
                                     /\ emb' = [emb EXCEPT ![c][r.text] = v]
                                     /\ pc' = [pc EXCEPT ![c] = "write"]
                                     /\ UNCHANGED pos
  BY <1>2, VectorsTyped DEF ReadForUpdate
<1> QED
  BY <1>4, <1>5, <1>6

LEMMA WriteTyped ==
    ASSUME Sound, NEW c \in Clients, pc[c] = "write"
    PROVE  /\ Request(c) \in IdCalls /\ Request(c).id \in Texts /\ Request(c).op # "delete"
           /\ NewText(c) \in Texts /\ NewVector(c) \in Vectors /\ MarksPending(c) \in BOOLEAN
           /\ \A r \in Rows : Written(c, r) \in Rows
<1>1. /\ Request(c) \in IdCalls /\ Request(c).op # "delete" /\ got[c] \in Rows
      /\ emb[c] \in [Texts -> Vectors]
  BY DEF Sound, Shape, Calls, TypeOK
<1>2. Request(c).id \in Texts /\ Request(c).text \in Texts
  BY <1>1 DEF IdCalls
<1>3. NewText(c) \in Texts /\ NewVector(c) \in Vectors
  BY <1>1, <1>2 DEF NewText, NewVector, Rows
<1>4. MarksPending(c) \in BOOLEAN
  BY <1>1 DEF MarksPending, Rows
<1>5. \A r \in Rows : Written(c, r) \in Rows
  BY <1>3, <1>4, VectorsTyped DEF Written, Rows
<1> QED
  BY <1>1, <1>2, <1>3, <1>4, <1>5

\* What an update does to the rows.
LEMMA StoreUpdateRows ==
    ASSUME Sound, NEW c \in Clients, StoreUpdate(c)
    PROVE  /\ row' \in [Texts -> Rows \cup {Absent}] /\ before' \in [Texts -> Rows \cup {Absent}]
           /\ \A t \in Texts : before'[t] # Absent => before'[t] = before[t] /\ row'[t] = row[t]
           /\ \A t \in Texts : row[t] # Absent => row'[t] # Absent
           /\ store = Pgvector => \A t \in Texts : row[t] = Absent => row'[t] = Absent
<1> DEFINE id == Request(c).id
<1>1. pc[c] = "write" /\ id \in Texts
  BY WriteTyped DEF StoreUpdate
<1>2. row \in [Texts -> Rows \cup {Absent}] /\ before \in [Texts -> Rows \cup {Absent}]
      /\ Absent \notin Rows
  BY StateTyped, EngineAssumption
<1>3. CASE UNCHANGED <<row, before>>
  BY <1>2, <1>3
<1>4. CASE row[id] # Absent /\ row' = [row EXCEPT ![id] = Written(c, @)] /\ Touch({id})
  <2>1. Written(c, row[id]) \in Rows
    BY <1>1, <1>2, <1>4, WriteTyped
  <2> QED
    BY <1>1, <1>2, <1>4, <2>1, TouchTyped DEF Sound, Shape
<1>5. CASE /\ row[id] = Absent /\ Missing(c) = "create" /\ Touch({id})
           /\ row' = [row EXCEPT ![id] = [text |-> NewText(c), vec |-> NewVector(c),
                                          pending |-> MarksPending(c)]]
  <2>1. [text |-> NewText(c), vec |-> NewVector(c), pending |-> MarksPending(c)] \in Rows
    BY <1>1, WriteTyped DEF Rows
  <2>2. store # Pgvector
    BY <1>5 DEF Missing, Pgvector
  <2> QED
    BY <1>1, <1>2, <1>5, <2>1, <2>2, TouchTyped DEF Sound, Shape
<1>6. CASE row' = row /\ Touch({id})
  BY <1>1, <1>2, <1>6, TouchTyped DEF Sound, Shape
<1> QED
  BY <1>3, <1>4, <1>5, <1>6 DEF StoreUpdate

LEMMA StoreUpdateSound == ASSUME Sound, NEW c \in Clients, StoreUpdate(c) PROVE Sound'
<1>1. pc[c] = "write" /\ UNCHANGED <<store, hist, lock, todo, cur, saved, missed, script>>
  BY DEF StoreUpdate
<1>2. row' \in [Texts -> Rows \cup {Absent}] /\ before' \in [Texts -> Rows \cup {Absent}]
  BY StoreUpdateRows
<1>3. CASE Ended(c)
  BY <1>1, <1>2, <1>3, EndedSound, StateTyped
<1>4. CASE pc' = [pc EXCEPT ![c] = "note"] /\ UNCHANGED <<pos, got, emb>>
  <2>1. Request(c)' = Request(c)
    BY <1>4 DEF Request
  <2>2. TypeOK'
    BY <1>1, <1>2, <1>4 DEF Sound, Shape, TypeOK, Steps
  <2>3. Others(c) /\ Placed(c)
    BY <1>1, <1>4, <2>1 DEF Sound, Shape, TypeOK, Others, Placed, Storing, Calls
  <2> QED
    BY <1>1, <2>2, <2>3, PlacedKeeps DEF Sound, Shape
<1> QED
  BY <1>3, <1>4 DEF StoreUpdate

LEMMA NoteSound == ASSUME Sound, NEW c \in Clients, NoteUpdate(c) \/ NoteDelete(c) PROVE Sound'
<1>1. /\ pc[c] = "note" /\ Request(c) \in IdCalls
      /\ UNCHANGED <<store, row, lock, todo, cur, saved, missed, script, before>> /\ Ended(c)
  BY DEF NoteUpdate, NoteDelete, Sound, Shape, Calls
<1>2. Request(c).id \in Texts /\ Request(c).text \in Texts
  BY <1>1 DEF IdCalls
<1>3. CASE NoteUpdate(c)
  <2>1. NewText(c) \in Texts
    BY <1>1, <1>2, <1>3 DEF NewText, NoteUpdate, Sound, Shape, Calls, Rows
  <2>2. PICK noted \in Outcomes :
          hist' = [hist EXCEPT ![Request(c).id] = Append(@, Event("UPDATE", NewText(c), c, noted))]
    BY <1>3 DEF NoteUpdate
  <2>3. hist' \in [Texts -> Seq(Events)]
    BY <1>2, <2>1, <2>2, EventTyped, HistoryTyped DEF Sound, Shape
  <2> QED
    BY <1>1, <2>3, EndedSound, StateTyped
<1>4. CASE NoteDelete(c)
  <2>1. PICK noted \in Outcomes :
          hist' = [hist EXCEPT ![Request(c).id] = Append(@, Event("DELETE", Request(c).id, c, noted))]
    BY <1>4 DEF NoteDelete
  <2>2. hist' \in [Texts -> Seq(Events)]
    BY <1>2, <2>1, EventTyped, HistoryTyped DEF Sound, Shape
  <2> QED
    BY <1>1, <2>2, EndedSound, StateTyped
<1> QED
  BY <1>3, <1>4

LEMMA ReadForDeleteSound == ASSUME Sound, NEW c \in Clients, ReadForDelete(c) PROVE Sound'
<1>1. pos[c] \in 1..Len(Requests[c]) /\ Request(c) \in IdCalls /\ pc[c] = "idle"
      /\ Request(c).op = "delete"
      /\ UNCHANGED <<store, row, hist, lock, todo, cur, saved, missed, script, before>>
  BY CalledTyped DEF Sound, Shape, ReadForDelete, Called
<1>2. CASE Ended(c)
  BY <1>1, <1>2, EndedSound, StateTyped
<1>3. CASE pc' = [pc EXCEPT ![c] = "remove"] /\ UNCHANGED <<pos, got, emb>>
  <2>1. Request(c)' = Request(c)
    BY <1>3 DEF Request
  <2>2. TypeOK'
    BY <1>1, <1>3 DEF Sound, Shape, TypeOK, Steps
  <2>3. Others(c) /\ Placed(c)
    BY <1>1, <1>3, <2>1 DEF Sound, Shape, TypeOK, Others, Placed, Storing, Calls
  <2> QED
    BY <1>1, <2>2, <2>3, PlacedKeeps DEF Sound, Shape
<1> QED
  BY <1>2, <1>3 DEF ReadForDelete

LEMMA RemoveRowSound == ASSUME Sound, NEW c \in Clients, RemoveRow(c) PROVE Sound'
<1>1. pc[c] = "remove" /\ Request(c) \in IdCalls /\ Request(c).op = "delete"
      /\ Request(c)' = Request(c)
  BY DEF RemoveRow, Sound, Shape, Calls, Request
<1>2. Request(c).id \in Texts
  BY <1>1 DEF IdCalls
<1>3. before' \in [Texts -> Rows \cup {Absent}]
  BY TouchTyped DEF RemoveRow, Sound, Shape
<1>4. TypeOK'
  BY <1>2, <1>3 DEF Sound, Shape, TypeOK, RemoveRow, Steps
<1>5. Others(c) /\ Placed(c)
  BY <1>1 DEF Sound, Shape, TypeOK, RemoveRow, Others, Placed, Storing, Calls
<1> QED
  BY <1>4, <1>5, PlacedKeeps DEF Sound, Shape, RemoveRow

LEMMA ClientSound == ASSUME Sound, NEW c \in Clients, Add(c) \/ Change(c) PROVE Sound'
<1>1. ASSUME FailMessage(c) \/ EndMessages(c) PROVE Sound'
  BY <1>1, GiveUpSound DEF FailMessage, EndMessages, Sound, Shape, TypeOK, Calls
<1>2. ASSUME SelectNothing(c) PROVE Sound'
  BY <1>2, GiveUpSound, LockTyped, CalledTyped DEF SelectNothing, Sound, Shape, Called
<1> QED
  BY <1>1, <1>2, SelectMessagesSound, ExamineMessageSound, EndAddSound, InsertMessageSound,
     RecheckSound, LogMessageSound, SelectFactsSound, InsertBatchSound, InsertSingleSound,
     RecordFactsSound, ReadForUpdateSound, StoreUpdateSound, NoteSound, ReadForDeleteSound,
     RemoveRowSound DEF Add, Change

\* A client changes no row without saying so in before, and leaves the script alone.
LEMMA ClientKeeps ==
    ASSUME Sound, NEW c \in Clients, Add(c) \/ Change(c)
    PROVE  /\ UNCHANGED <<store, script>>
           /\ \A t \in Texts : before'[t] # Absent => before'[t] = before[t] /\ row'[t] = row[t]
<1> DEFINE Keeps == \A t \in Texts : before'[t] # Absent => before'[t] = before[t] /\ row'[t] = row[t]
<1>1. ASSUME InsertMessage(c) PROVE Keeps /\ UNCHANGED <<store, script>>
  <2>1. emb[c] \in [Texts -> Vectors] /\ cur[c] \in Texts
    BY <1>1 DEF Sound, Shape, TypeOK, Calls, InsertMessage
  <2>2. UNCHANGED <<row, before>> \/ (row' = Inserted({cur[c]}, emb[c]) /\ Touch({cur[c]}))
    BY <1>1 DEF InsertMessage
  <2>3. UNCHANGED <<store, script>>
    BY <1>1 DEF InsertMessage
  <2>4. CASE row' = Inserted({cur[c]}, emb[c]) /\ Touch({cur[c]})
    <3> DEFINE ts == {cur[c]}
    <3>0. ts \in SUBSET Texts /\ row' = Inserted(ts, emb[c]) /\ Touch(ts)
      BY <2>1, <2>4
    <3>1. \A t \in Texts : t # cur[c] => row'[t] = row[t] /\ before'[t] = before[t]
      <4>1. \A t \in Texts \ ts : Inserted(ts, emb[c])[t] = row[t]
        BY <2>1, <3>0, InsertedTyped DEF Sound, Shape
      <4>2. \A t \in Texts : t \notin ts => before'[t] = before[t]
        BY <3>0, TouchTyped DEF Sound, Shape
      <4> QED
        BY <3>0, <4>1, <4>2
    <3>2. before'[cur[c]] = Absent
      BY <2>1, <2>4, TouchTyped DEF Sound, Shape
    <3> QED
      BY <2>3, <3>1, <3>2
  <2> QED
    BY <2>2, <2>3, <2>4
<1>2. ASSUME InsertBatch(c) PROVE Keeps /\ UNCHANGED <<store, script>>
  <2>1. emb[c] \in [Texts -> Vectors] /\ todo[c] \in SUBSET Texts
    BY <1>2 DEF Sound, Shape, TypeOK
  <2>2. UNCHANGED <<row, before>> \/ (row' = Inserted(todo[c], emb[c]) /\ Touch(todo[c]))
    BY <1>2 DEF InsertBatch
  <2>3. UNCHANGED <<store, script>>
    BY <1>2 DEF InsertBatch
  <2> QED
    BY <2>1, <2>2, <2>3, InsertedTyped, TouchTyped DEF Sound, Shape
<1>3. ASSUME InsertSingle(c) PROVE Keeps /\ UNCHANGED <<store, script>>
  <2>1. emb[c] \in [Texts -> Vectors] /\ todo[c] \in SUBSET Texts
    BY <1>3 DEF Sound, Shape, TypeOK
  <2>2. PICK t \in todo[c] : \/ UNCHANGED <<row, before>>
                             \/ row' = Inserted({t}, emb[c]) /\ Touch({t})
    BY <1>3 DEF InsertSingle
  <2>3. UNCHANGED <<store, script>>
    BY <1>3 DEF InsertSingle
  <2> QED
    BY <2>1, <2>2, <2>3, InsertedTyped, TouchTyped DEF Sound, Shape
<1>4. ASSUME StoreUpdate(c) PROVE Keeps /\ UNCHANGED <<store, script>>
  <2>1. UNCHANGED <<store, script>>
    BY <1>4 DEF StoreUpdate
  <2> QED
    BY <1>4, <2>1, StoreUpdateRows
<1>5. ASSUME RemoveRow(c) PROVE Keeps /\ UNCHANGED <<store, script>>
  <2>1. Request(c).id \in Texts
    BY <1>5 DEF RemoveRow, Sound, Shape, Calls, IdCalls
  <2> QED
    BY <1>5, <2>1, TouchTyped, StateTyped DEF RemoveRow, Sound, Shape
<1>6. ASSUME UNCHANGED <<store, row, script, before>> PROVE Keeps /\ UNCHANGED <<store, script>>
  BY <1>6
<1>7. ASSUME \/ SelectMessages(c) \/ ExamineMessage(c) \/ FailMessage(c) \/ EndMessages(c)
             \/ EndAdd(c) \/ Recheck(c) \/ LogMessage(c) \/ SelectFacts(c) \/ SelectNothing(c)
             \/ RecordFacts(c) \/ ReadForUpdate(c) \/ NoteUpdate(c) \/ ReadForDelete(c)
             \/ NoteDelete(c)
      PROVE  UNCHANGED <<store, row, script, before>>
  BY <1>7 DEF SelectMessages, ExamineMessage, FailMessage, EndMessages, EndAdd, Recheck, LogMessage,
     SelectFacts, SelectNothing, RecordFacts, ReadForUpdate, NoteUpdate, ReadForDelete, NoteDelete,
     GiveUp
<1> QED
  BY <1>1, <1>2, <1>3, <1>4, <1>5, <1>6, <1>7 DEF Add, Change

-----------------------------------------------------------------------------
(* The order of the ids: a page of a set that is not empty is not empty, and has a last id. *)


\* Of finitely many ids of a set, one has the fewest of them on a given side of it.
LEMMA Extreme ==
    ASSUME NEW S \in SUBSET Texts, S # {}, NEW side \in [S -> SUBSET S]
    PROVE  \E u \in S : \A t \in S : ~(side[t] \subseteq side[u] /\ side[t] # side[u])
<1> DEFINE R == StrictSubsetOrdering(S)
           T == {side[t] : t \in S}
<1>1. IsFiniteSet(S)
  BY EngineAssumption, FS_Subset
<1>2. IsWellFoundedOn(R, SUBSET S)
  BY <1>1, FS_StrictSubsetOrderingWellFounded, FS_FiniteSubsetsOfFinite
<1>3. T \subseteq SUBSET S /\ T # {}
  OBVIOUS
<1> HIDE DEF R
<1>4. \E x \in T : \A y \in T : ~(<<y, x>> \in R)
  BY <1>2, <1>3, WFMin, Zenon
<1>5. PICK u \in S : \A t \in S : ~(<<side[t], side[u]>> \in R)
  BY <1>4
<1> QED
  BY <1>3, <1>5 DEF R, StrictSubsetOrdering

LEMMA HighestIsLast ==
    ASSUME NEW S \in SUBSET Texts, S # {}
    PROVE  Highest(S) \in S /\ \A s \in S : Rank[s] <= Rank[Highest(S)]
<1> DEFINE side == [t \in S |-> {s \in S : Rank[s] > Rank[t]}]
<1>1. \A s \in S : Rank[s] \in Nat
  BY EngineAssumption
<1>2. side \in [S -> SUBSET S]
  OBVIOUS
<1> HIDE DEF side
<1>3. PICK u \in S : \A t \in S : ~(side[t] \subseteq side[u] /\ side[t] # side[u])
  BY <1>2, Extreme
<1>4. ASSUME NEW s \in S PROVE Rank[s] <= Rank[u]
  <2>1. SUFFICES ASSUME Rank[s] > Rank[u] PROVE FALSE
    BY <1>1
  <2>2. side[s] \subseteq side[u] /\ s \in side[u] /\ s \notin side[s]
    BY <1>1, <2>1 DEF side
  <2> QED
    BY <1>3, <2>2
<1> QED
  BY <1>4 DEF Highest

LEMMA FirstIsSome ==
    ASSUME NEW S \in SUBSET Texts
    PROVE  FirstOf(S) \subseteq S /\ (S # {} => FirstOf(S) # {})
<1> DEFINE side == [t \in S |-> {s \in S : Rank[s] < Rank[t]}]
<1>1. \A s \in S : Rank[s] \in Nat
  BY EngineAssumption
<1>2. side \in [S -> SUBSET S]
  OBVIOUS
<1> HIDE DEF side
<1>3. ASSUME S # {} PROVE FirstOf(S) # {}
  <2>1. PICK u \in S : \A t \in S : ~(side[t] \subseteq side[u] /\ side[t] # side[u])
    BY <1>2, <1>3, Extreme
  <2>2. ASSUME NEW s \in S, Rank[s] < Rank[u] PROVE FALSE
    <3>1. side[s] \subseteq side[u] /\ s \in side[u] /\ s \notin side[s]
      BY <1>1, <2>2 DEF side
    <3> QED
      BY <2>1, <3>1
  <2>3. {s \in S : Rank[s] < Rank[u]} = {}
    BY <2>2
  <2>4. Cardinality({s \in S : Rank[s] < Rank[u]}) < BatchSize
    <3>1. Cardinality({}) = 0
      BY FS_EmptySet
    <3>2. Cardinality({s \in S : Rank[s] < Rank[u]}) = 0
      BY <2>3, <3>1, Zenon
    <3> QED
      BY <3>2, EngineAssumption
  <2> QED
    BY <2>4 DEF FirstOf
<1> QED
  BY <1>3 DEF FirstOf

-----------------------------------------------------------------------------
(* The steps of the script. *)

LEMMA ScriptOnlySound ==
    ASSUME Sound, UNCHANGED scriptOnly, row' \in [Texts -> Rows \cup {Absent}],
           before' \in [Texts -> Rows \cup {Absent}], script' \in Scripts
    PROVE  Sound'
<1>1. \A t \in DOMAIN script.backup' : script.backup'[t] \in Vectors
  BY DEF Scripts, Backups
<1>2. TypeOK'
  BY <1>1 DEF Sound, Shape, TypeOK, scriptOnly, clientVars, Scripts
<1>3. Calls' /\ Storing'
  BY DEF Sound, Shape, Calls, Storing, Request, scriptOnly, clientVars
<1> QED
  BY <1>2, <1>3 DEF Sound, Shape

LEMMA ScriptTyped ==
    ASSUME Sound
    PROVE  /\ script \in Scripts
           /\ DOMAIN script.backup \subseteq Texts /\ DOMAIN script.batch \subseteq Texts
           /\ \A t \in DOMAIN script.backup : script.backup[t] \in Vectors
           /\ \A t \in DOMAIN script.batch : script.batch[t] \in Rows
BY DEF Sound, Shape, Scripts, Backups, Batches

LEMMA AppendedTyped ==
    ASSUME Sound, NEW ids \in SUBSET Texts, \A t \in ids : row[t] # Absent
    PROVE  /\ Appended(ids) \in Backups
           /\ DOMAIN Appended(ids) = DOMAIN script.backup \cup ids
           /\ \A t \in ids : Appended(ids)[t] = row[t].vec
           /\ \A t \in DOMAIN script.backup \ ids : Appended(ids)[t] = script.backup[t]
<1> DEFINE D == DOMAIN script.backup \cup ids
<1>1. D \in SUBSET Texts
  BY ScriptTyped
<1>2. \A t \in ids : row[t].vec \in Vectors
  BY StateTyped DEF Rows
<1>3. Appended(ids) \in [D -> Vectors]
  BY <1>2, ScriptTyped DEF Appended
<1> QED
  BY <1>1, <1>3 DEF Appended, Backups

LEMMA StartScriptSound == ASSUME Sound, StartScript PROVE Sound'
<1>1. script' \in Scripts
  BY ScriptTyped DEF StartScript, Scripts, ScriptSteps
<1> QED
  BY <1>1, ScriptOnlySound, StateTyped DEF StartScript

LEMMA StoppedTyped == ASSUME Sound PROVE Stopped \in Scripts
<1>1. /\ script \in Scripts /\ <<>> \in Batches /\ script.crashes + 1 \in Nat
      /\ "stopped" \in ScriptSteps /\ {} \in SUBSET Texts
  BY ScriptTyped DEF Batches, Scripts, ScriptSteps
<1> HIDE DEF Sound
<1> QED
  BY <1>1 DEF Stopped, Scripts

LEMMA CrashSound == ASSUME Sound, Crash PROVE Sound'
BY StoppedTyped, ScriptOnlySound, StateTyped DEF Crash

LEMMA StartRollbackSound == ASSUME Sound, StartRollback PROVE Sound'
<1>1. script' \in Scripts
  BY ScriptTyped DEF StartRollback, Scripts, ScriptSteps
<1> QED
  BY <1>1, ScriptOnlySound, StateTyped DEF StartRollback

\* The rows a scan has not reached, and its next page of them.
Rest == {t \in Texts : row[t] # Absent /\ Rank[t] > script.after}
Page == FirstOf(Rest)

LEMMA PageThm ==
    ASSUME Sound
    PROVE  /\ Rest \in SUBSET Texts /\ Page \subseteq Rest
           /\ \A t \in Page : row[t] # Absent /\ row[t] \in Rows /\ Rank[t] > script.after
           /\ Rest # {} => /\ Highest(Page) \in Page
                           /\ \A t \in Page : Rank[t] <= Rank[Highest(Page)]
           /\ [t \in Page |-> row[t]] \in Batches
<1>1. Rest \in SUBSET Texts
  BY DEF Rest
<1>2. Page \subseteq Rest /\ (Rest # {} => Page # {})
  BY <1>1, FirstIsSome DEF Page
<1>3. Rest # {} => Highest(Page) \in Page /\ \A t \in Page : Rank[t] <= Rank[Highest(Page)]
  BY <1>1, <1>2, HighestIsLast
<1>4. \A t \in Page : row[t] # Absent /\ row[t] \in Rows /\ Rank[t] > script.after
  BY <1>2, StateTyped DEF Rest
<1>5. [t \in Page |-> row[t]] \in [Page -> Rows] /\ Page \in SUBSET Texts
  BY <1>1, <1>2, <1>4
<1> QED
  BY <1>1, <1>2, <1>3, <1>4, <1>5 DEF Batches

LEMMA ScanSound == ASSUME Sound, Scan PROVE Sound'
<1>1. /\ Rest \in SUBSET Texts /\ Page \subseteq Rest
      /\ \A t \in Page : row[t] # Absent /\ row[t] \in Rows
      /\ Rest # {} => Highest(Page) \in Page
      /\ [t \in Page |-> row[t]] \in Batches
  BY PageThm
<1>2. /\ Rest = {} /\ script' = [script EXCEPT !.at = "done", !.after = 0]
      \/ /\ Rest # {}
         /\ script' = [script EXCEPT !.at = "embed", !.after = Rank[Highest(Page)],
                                     !.batch = [t \in Page |-> row[t]], !.backup = Appended(Page)]
      \/ /\ script' \in {[Stopped EXCEPT !.backup = Appended(part)] : part \in SUBSET Page}
                        \cup {[Stopped EXCEPT !.backup = <<>>, !.torn = TRUE]}
  BY DEF Scan, Rest, Page
<1>3. UNCHANGED <<row, scriptOnly, before>> /\ script \in Scripts
  BY ScriptTyped DEF Scan
<1>4. CASE script' = [script EXCEPT !.at = "done", !.after = 0]
  <2>1. script' \in Scripts
    BY <1>3, <1>4 DEF Scripts, ScriptSteps
  <2> QED
    BY <2>1, <1>3, ScriptOnlySound, StateTyped
<1>5. CASE /\ Rest # {}
           /\ script' = [script EXCEPT !.at = "embed", !.after = Rank[Highest(Page)],
                                       !.batch = [t \in Page |-> row[t]], !.backup = Appended(Page)]
  <2>1. Appended(Page) \in Backups
    BY <1>1, AppendedTyped
  <2>2. Rank[Highest(Page)] \in Nat
    BY <1>1, <1>5, EngineAssumption
  <2>3. script' \in Scripts
    BY <1>1, <1>3, <1>5, <2>1, <2>2 DEF Scripts, ScriptSteps
  <2> QED
    BY <2>3, <1>3, ScriptOnlySound, StateTyped
<1>6. ASSUME NEW part \in SUBSET Page, script' = [Stopped EXCEPT !.backup = Appended(part)]
      PROVE  Sound'
  <2>1. Appended(part) \in Backups
    BY <1>1, <1>6, AppendedTyped
  <2>2. script' \in Scripts
    BY <1>6, <2>1, StoppedTyped DEF Scripts
  <2> QED
    BY <2>2, <1>3, ScriptOnlySound, StateTyped
<1>7. CASE script' = [Stopped EXCEPT !.backup = <<>>, !.torn = TRUE]
  <2>1. <<>> \in Backups
    BY DEF Backups
  <2>2. script' \in Scripts
    BY <1>7, <2>1, StoppedTyped DEF Scripts
  <2> QED
    BY <2>2, <1>3, ScriptOnlySound, StateTyped
<1> QED
  BY <1>2, <1>4, <1>5, <1>6, <1>7

\* An update of the script changes vectors of scanned rows that are there.
LEMMA UpdateVectorsRows ==
    ASSUME Sound, UpdateVectors
    PROVE  \/ row' = row
           \/ \E good \in SUBSET DOMAIN script.batch :
                /\ \A t \in good : row[t] # Absent
                /\ row' = [t \in Texts |-> IF t \in good
                             THEN [row[t] EXCEPT !.vec = Embedding(script.batch[t].text)] ELSE row[t]]
BY DEF UpdateVectors, Unchanged

LEMMA RevectorTyped ==
    ASSUME NEW r \in Rows, NEW v \in Vectors
    PROVE  /\ [r EXCEPT !.vec = v] \in Rows /\ [r EXCEPT !.vec = v] # Absent
           /\ [r EXCEPT !.vec = v].text = r.text /\ [r EXCEPT !.vec = v].pending = r.pending
           /\ [r EXCEPT !.vec = v].vec = v
BY EngineAssumption DEF Rows

\* Rows of a set of ids that get new vectors.
LEMMA RevectoredTyped ==
    ASSUME Sound, NEW ts \in SUBSET Texts, \A t \in ts : row[t] # Absent,
           NEW v, \A t \in ts : v[t] \in Vectors,
           row' = [t \in Texts |-> IF t \in ts THEN [row[t] EXCEPT !.vec = v[t]] ELSE row[t]]
    PROVE  /\ row' \in [Texts -> Rows \cup {Absent}]
           /\ \A t \in Texts \ ts : row'[t] = row[t]
           /\ \A t \in ts : /\ row'[t] \in Rows /\ row'[t].vec = v[t]
                            /\ row'[t].text = row[t].text /\ row'[t].pending = row[t].pending
           /\ \A t \in Texts : row'[t] = Absent <=> row[t] = Absent
<1>1. \A t \in ts : row[t] \in Rows
  BY StateTyped
<1>2. \A t \in ts : /\ [row[t] EXCEPT !.vec = v[t]] \in Rows
                    /\ [row[t] EXCEPT !.vec = v[t]] # Absent
                    /\ [row[t] EXCEPT !.vec = v[t]].text = row[t].text
                    /\ [row[t] EXCEPT !.vec = v[t]].pending = row[t].pending
                    /\ [row[t] EXCEPT !.vec = v[t]].vec = v[t]
  BY <1>1, RevectorTyped
<1>3. \A t \in ts : row'[t] = [row[t] EXCEPT !.vec = v[t]]
  OBVIOUS
<1>4. \A t \in Texts \ ts : row'[t] = row[t]
  OBVIOUS
<1>5. row' \in [Texts -> Rows \cup {Absent}]
  BY <1>2, StateTyped
<1> QED
  BY <1>2, <1>3, <1>4, <1>5

LEMMA UpdateVectorsSound ==
    ASSUME Sound, UpdateVectors
    PROVE  /\ Sound'
           /\ \A t \in Texts : row'[t] = Absent <=> row[t] = Absent
           /\ \A t \in Texts \ DOMAIN script.batch : row'[t] = row[t]
           /\ \A t \in Texts : row[t] # Absent =>
                row'[t].text = row[t].text /\ row'[t].pending = row[t].pending
<1>1. script' \in Scripts
  BY ScriptTyped DEF UpdateVectors, Scripts, ScriptSteps, Batches
<1>2. CASE row' = row
  BY <1>1, <1>2, ScriptOnlySound, StateTyped DEF UpdateVectors
<1>3. ASSUME NEW good \in SUBSET DOMAIN script.batch, \A t \in good : row[t] # Absent,
             row' = [t \in Texts |-> IF t \in good
                       THEN [row[t] EXCEPT !.vec = Embedding(script.batch[t].text)] ELSE row[t]]
      PROVE  /\ row' \in [Texts -> Rows \cup {Absent}]
             /\ \A t \in Texts : row'[t] = Absent <=> row[t] = Absent
             /\ \A t \in Texts \ good : row'[t] = row[t]
             /\ \A t \in Texts : row[t] # Absent =>
                  row'[t].text = row[t].text /\ row'[t].pending = row[t].pending
  <2> DEFINE v == [t \in good |-> Embedding(script.batch[t].text)]
  <2>1. good \in SUBSET Texts /\ \A t \in good : v[t] \in Vectors
    BY ScriptTyped, VectorsTyped DEF Rows
  <2>2. row' = [t \in Texts |-> IF t \in good THEN [row[t] EXCEPT !.vec = v[t]] ELSE row[t]]
    BY <1>3
  <2> HIDE DEF v
  <2> QED
    BY <1>3, <2>1, <2>2, RevectoredTyped
<1>4. CASE row' # row
  <2>1. PICK good \in SUBSET DOMAIN script.batch :
          /\ \A t \in good : row[t] # Absent
          /\ row' = [t \in Texts |-> IF t \in good
                       THEN [row[t] EXCEPT !.vec = Embedding(script.batch[t].text)] ELSE row[t]]
    BY <1>4, UpdateVectorsRows
  <2>2. /\ row' \in [Texts -> Rows \cup {Absent}]
        /\ \A t \in Texts : row'[t] = Absent <=> row[t] = Absent
        /\ \A t \in Texts \ good : row'[t] = row[t]
        /\ \A t \in Texts : row[t] # Absent =>
             row'[t].text = row[t].text /\ row'[t].pending = row[t].pending
    BY <1>3, <2>1
  <2>3. Sound'
    BY <1>1, <2>2, ScriptOnlySound, StateTyped DEF UpdateVectors
  <2> QED
    BY <2>2, <2>3
<1> QED
  BY <1>2, <1>4


\* Of rollback: a batch is restored, or fails and changes nothing.
LEMMA RestoreSound ==
    ASSUME Sound, script.left \subseteq DOMAIN script.backup, Restore
    PROVE  /\ Sound'
           /\ UNCHANGED before
           /\ \A t \in Texts : row'[t] = Absent <=> row[t] = Absent
           /\ \/ script.left = {} /\ script' = [script EXCEPT !.at = "restored"] /\ row' = row
              \/ \E page \in SUBSET script.left :
                   /\ script' = [script EXCEPT !.left = @ \ page, !.restored = @ \cup page]
                   /\ \A t \in Texts \ page : row'[t] = row[t]
                   /\ \A t \in page : /\ row'[t] \in Rows /\ row'[t].vec = script.backup[t]
                                      /\ row'[t].text = row[t].text
                                      /\ row'[t].pending = row[t].pending
              \/ \E page \in SUBSET script.left :
                   /\ script' = [script EXCEPT !.left = @ \ page, !.failed = @ \cup page]
                   /\ row' = row
<1> DEFINE page == FirstOf(script.left)
<1>1. /\ script \in Scripts /\ script.left \in SUBSET Texts /\ page \subseteq script.left
      /\ (page = {} => script.left = {}) /\ script.at = "restore"
  BY ScriptTyped, FirstIsSome DEF Scripts, Restore
<1>2. UNCHANGED <<scriptOnly, before>>
  BY DEF Restore
<1>3. \/ page = {} /\ script' = [script EXCEPT !.at = "restored"] /\ row' = row
      \/ /\ \A t \in page : row[t] # Absent
         /\ row' = [t \in Texts |-> IF t \in page THEN [row[t] EXCEPT !.vec = script.backup[t]]
                                    ELSE row[t]]
         /\ script' = [script EXCEPT !.left = @ \ page, !.restored = @ \cup page]
      \/ script' = [script EXCEPT !.left = @ \ page, !.failed = @ \cup page] /\ row' = row
  BY DEF Restore
<1> HIDE DEF page
<1>4. CASE page = {} /\ script' = [script EXCEPT !.at = "restored"] /\ row' = row
  <2>1. script' \in Scripts
    BY <1>1, <1>4 DEF Scripts, ScriptSteps
  <2> QED
    BY <1>1, <1>2, <1>4, <2>1, ScriptOnlySound, StateTyped
<1>5. CASE /\ \A t \in page : row[t] # Absent
           /\ row' = [t \in Texts |-> IF t \in page THEN [row[t] EXCEPT !.vec = script.backup[t]]
                                      ELSE row[t]]
           /\ script' = [script EXCEPT !.left = @ \ page, !.restored = @ \cup page]
  <2>1. script' \in Scripts
    <3>1. script.left \ page \in SUBSET Texts /\ script.restored \cup page \in SUBSET Texts
      BY <1>1 DEF Scripts
    <3> QED
      BY <1>1, <1>5, <3>1 DEF Scripts
  <2>2. page \in SUBSET Texts /\ \A t \in page : script.backup[t] \in Vectors
    BY <1>1, ScriptTyped
  <2> DEFINE v == [t \in page |-> script.backup[t]]
  <2>3. /\ \A t \in page : v[t] \in Vectors
        /\ row' = [t \in Texts |-> IF t \in page THEN [row[t] EXCEPT !.vec = v[t]] ELSE row[t]]
        /\ \A t \in page : v[t] = script.backup[t]
    BY <1>5, <2>2
  <2> HIDE DEF v
  <2>4. /\ row' \in [Texts -> Rows \cup {Absent}]
        /\ \A t \in Texts \ page : row'[t] = row[t]
        /\ \A t \in page : /\ row'[t] \in Rows /\ row'[t].vec = v[t]
                           /\ row'[t].text = row[t].text /\ row'[t].pending = row[t].pending
        /\ \A t \in Texts : row'[t] = Absent <=> row[t] = Absent
    BY <1>5, <2>2, <2>3, RevectoredTyped
  <2>5. Sound'
    BY <1>2, <2>1, <2>4, ScriptOnlySound, StateTyped
  <2>6. \A t \in page : /\ row'[t] \in Rows /\ row'[t].vec = script.backup[t]
                        /\ row'[t].text = row[t].text /\ row'[t].pending = row[t].pending
    BY <2>3, <2>4
  <2>7. page \in SUBSET script.left /\ UNCHANGED before
    BY <1>1, <1>2
  <2>8. script' = [script EXCEPT !.left = @ \ page, !.restored = @ \cup page]
    BY <1>5
  <2> QED
    BY <2>4, <2>5, <2>6, <2>7, <2>8
<1>6. CASE script' = [script EXCEPT !.left = @ \ page, !.failed = @ \cup page] /\ row' = row
  <2>1. script' \in Scripts
    <3>1. script.left \ page \in SUBSET Texts /\ script.failed \cup page \in SUBSET Texts
      BY <1>1 DEF Scripts
    <3> QED
      BY <1>1, <1>6, <3>1 DEF Scripts
  <2>2. Sound'
    BY <1>2, <1>6, <2>1, ScriptOnlySound, StateTyped
  <2> QED
    BY <1>1, <1>2, <1>6, <2>2
<1> QED
  BY <1>3, <1>4, <1>5, <1>6

-----------------------------------------------------------------------------
(* What the backup is good for. *)

\* A memory nobody has written since the script started can be brought back.
Recoverable(id) ==
    /\ row[id] # Absent /\ row[id].text = before[id].text /\ row[id].pending = before[id].pending
    /\ id \notin DOMAIN script.backup => row[id] = before[id]
    /\ id \in DOMAIN script.backup => script.backup[id] = before[id].vec
    /\ script.at \in {"restore", "restored"} /\ id \notin script.left \cup script.failed =>
         row[id] = before[id]

Kept ==
    /\ script.left \subseteq DOMAIN script.backup
    /\ script.torn => script.at \in {"stopped", "refused"}
    /\ script.at = "off" => DOMAIN script.backup = {} /\ \A id \in Texts : before[id] = Absent
    /\ script.at \in {"scan", "embed"} =>
         \A id \in DOMAIN script.backup : Rank[id] <= script.after
    /\ script.at = "embed" => DOMAIN script.batch \subseteq DOMAIN script.backup
    /\ script.at = "restored" => script.left = {}
    /\ ~script.torn => \A id \in Texts : before[id] # Absent => Recoverable(id)

LEMMA InitSound == Init => Sound /\ Kept
<1> SUFFICES ASSUME Init PROVE Sound /\ Kept
  OBVIOUS
<1>1. \A t \in Texts : [of |-> t, by |-> "old"] \in Vectors
  BY DEF Vectors
<1>2. row \in [Texts -> Rows \cup {Absent}]
  BY <1>1, NewRowTyped DEF Init
<1>3. emb \in [Clients -> [Texts -> Vectors]]
  BY VectorsTyped DEF Init
<1>4. hist \in [Texts -> Seq(Events)]
  BY DEF Init
<1>5. /\ script \in Scripts /\ DOMAIN script.backup = {} /\ script.left = {} /\ script.at = "off"
      /\ script.torn = FALSE
  BY DEF Init, Scripts, ScriptSteps, Batches, Backups
<1>6. /\ lock \in [Procs -> Clients \cup {NoOne}] /\ pos \in [Clients -> Nat \ {0}]
      /\ pc \in [Clients -> Steps] /\ todo \in [Clients -> SUBSET Texts]
      /\ cur \in [Clients -> Texts \cup {Absent}] /\ got \in [Clients -> Rows \cup {Absent}]
      /\ saved \in [Clients -> SUBSET Texts] /\ before \in [Texts -> Rows \cup {Absent}]
  BY DEF Init, Steps
<1>7. TypeOK
  BY <1>2, <1>3, <1>4, <1>5, <1>6 DEF Init, TypeOK, Events, Scripts
<1>8. Calls /\ Storing
  BY DEF Init, Calls, Storing
<1>9. Kept
  BY <1>5 DEF Init, Kept
<1> QED
  BY <1>5, <1>7, <1>8, <1>9 DEF Sound, Shape

LEMMA ClientRecovers ==
    ASSUME Sound, Kept, NEW c \in Clients, Add(c) \/ Change(c) PROVE Kept'
<1>1. /\ UNCHANGED <<store, script>>
      /\ \A t \in Texts : before'[t] # Absent => before'[t] = before[t] /\ row'[t] = row[t]
  BY ClientKeeps
<1> HIDE DEF Sound
<1> QED
  BY <1>1 DEF Kept, Recoverable

LEMMA StartScriptRecovers == ASSUME Sound, Kept, StartScript PROVE Kept'
<1>1. /\ script.at = "off" /\ script' = [script EXCEPT !.at = "scan"]
      /\ before' = row /\ row' = row /\ script \in Scripts
  BY ScriptTyped DEF StartScript
<1>2. /\ script'.at = "scan" /\ script'.left = script.left /\ script'.torn = script.torn
      /\ script'.backup = script.backup
  BY <1>1 DEF Scripts
<1> QED
  BY <1>1, <1>2 DEF Kept, Recoverable

LEMMA CrashRecovers == ASSUME Sound, Kept, Crash PROVE Kept'
<1>1. script' = Stopped /\ row' = row /\ before' = before /\ script \in Scripts
      /\ script.at \in {"embed", "restore"}
  BY ScriptTyped DEF Crash
<1>2. /\ script'.at = "stopped" /\ script'.left = {} /\ script'.torn = script.torn
      /\ script'.backup = script.backup
  BY <1>1 DEF Scripts, Stopped
<1> QED
  BY <1>1, <1>2 DEF Kept, Recoverable

LEMMA StartRollbackRecovers == ASSUME Sound, Kept, StartRollback PROVE Kept'
<1>1. row' = row /\ before' = before /\ script \in Scripts /\ script.at \in {"done", "stopped"}
  BY ScriptTyped DEF StartRollback
<1>2. CASE script.torn
  <2>1. script' = [script EXCEPT !.at = "refused"]
    BY <1>2 DEF StartRollback
  <2>2. /\ script'.at = "refused" /\ script'.left = script.left /\ script'.torn = script.torn
        /\ script'.backup = script.backup
    BY <1>1, <2>1 DEF Scripts
  <2> QED
    BY <1>1, <1>2, <2>2 DEF Kept
<1>3. CASE ~script.torn
  <2>1. script' = [script EXCEPT !.at = "restore", !.left = DOMAIN script.backup, !.failed = {}]
    BY <1>3 DEF StartRollback
  <2>2. /\ script'.at = "restore" /\ script'.left = DOMAIN script.backup /\ script'.torn = script.torn
        /\ script'.backup = script.backup
    BY <1>1, <2>1 DEF Scripts
  <2> QED
    BY <1>1, <1>3, <2>2 DEF Kept, Recoverable
<1> QED
  BY <1>2, <1>3

LEMMA ScanRecovers == ASSUME Sound, Kept, Scan PROVE Kept'
<1>1. /\ Rest \in SUBSET Texts /\ Page \subseteq Rest
      /\ \A t \in Page : row[t] # Absent /\ row[t] \in Rows /\ Rank[t] > script.after
      /\ Rest # {} => Highest(Page) \in Page /\ \A t \in Page : Rank[t] <= Rank[Highest(Page)]
  BY PageThm
<1>2. \/ /\ Rest = {} /\ script' = [script EXCEPT !.at = "done", !.after = 0]
      \/ /\ Rest # {}
         /\ script' = [script EXCEPT !.at = "embed", !.after = Rank[Highest(Page)],
                                     !.batch = [t \in Page |-> row[t]], !.backup = Appended(Page)]
      \/ /\ script' \in {[Stopped EXCEPT !.backup = Appended(part)] : part \in SUBSET Page}
                        \cup {[Stopped EXCEPT !.backup = <<>>, !.torn = TRUE]}
  BY DEF Scan, Rest, Page
<1>3. /\ script.at = "scan" /\ row' = row /\ before' = before /\ script \in Scripts
      /\ script.after \in Nat /\ ~script.torn
  BY ScriptTyped DEF Scan, Kept, Scripts
<1>4. \A t \in Page : t \notin DOMAIN script.backup
  BY <1>1, <1>3, EngineAssumption DEF Kept
<1>5. ASSUME NEW part \in SUBSET Page,
             script'.backup = Appended(part), script'.at \notin {"restore", "restored"}
      PROVE  /\ DOMAIN script'.backup = DOMAIN script.backup \cup part
             /\ \A id \in Texts : before'[id] # Absent => Recoverable(id)'
  <2>1. /\ DOMAIN script'.backup = DOMAIN script.backup \cup part
        /\ \A t \in part : script'.backup[t] = row[t].vec
        /\ \A t \in DOMAIN script.backup \ part : script'.backup[t] = script.backup[t]
    <3>1. part \in SUBSET Texts /\ \A t \in part : row[t] # Absent
      BY <1>1, <1>5
    <3>2. /\ DOMAIN Appended(part) = DOMAIN script.backup \cup part
          /\ \A t \in part : Appended(part)[t] = row[t].vec
          /\ \A t \in DOMAIN script.backup \ part : Appended(part)[t] = script.backup[t]
      BY <3>1, AppendedTyped
    <3> QED
      BY <1>5, <3>2
  <2>2. ASSUME NEW id \in Texts, before'[id] # Absent PROVE Recoverable(id)'
    <3>1. Recoverable(id)
      BY <1>3, <2>2 DEF Kept
    <3>2. id \in part => script'.backup[id] = before[id].vec
      BY <1>4, <2>1, <3>1 DEF Recoverable
    <3> QED
      BY <1>3, <1>5, <2>1, <3>1, <3>2 DEF Recoverable
  <2> QED
    BY <2>1, <2>2
<1>6. CASE script' = [script EXCEPT !.at = "done", !.after = 0]
  <2>1. /\ script'.at = "done" /\ script'.left = script.left /\ script'.torn = script.torn
        /\ script'.backup = script.backup
    BY <1>3, <1>6 DEF Scripts
  <2> QED
    BY <1>3, <2>1 DEF Kept, Recoverable
<1>7. CASE /\ Rest # {}
           /\ script' = [script EXCEPT !.at = "embed", !.after = Rank[Highest(Page)],
                                       !.batch = [t \in Page |-> row[t]], !.backup = Appended(Page)]
  <2>1. /\ script'.at = "embed" /\ script'.left = script.left /\ script'.torn = script.torn
        /\ script'.backup = Appended(Page) /\ script'.after = Rank[Highest(Page)]
        /\ DOMAIN script'.batch = Page
    BY <1>3, <1>7 DEF Scripts
  <2>2. /\ DOMAIN script'.backup = DOMAIN script.backup \cup Page
        /\ \A id \in Texts : before'[id] # Absent => Recoverable(id)'
    BY <1>5, <2>1
  <2>3. \A id \in DOMAIN script'.backup : Rank[id] <= script'.after
    <3>1. Rank[Highest(Page)] > script.after /\ \A id \in Texts : Rank[id] \in Nat
      BY <1>1, <1>7, EngineAssumption
    <3>2. \A id \in DOMAIN script.backup : Rank[id] <= script.after /\ id \in Texts
      BY <1>3, ScriptTyped DEF Kept
    <3>3. \A id \in DOMAIN script.backup : Rank[id] <= script'.after
      <4> SUFFICES ASSUME NEW id \in DOMAIN script.backup PROVE Rank[id] <= Rank[Highest(Page)]
        BY <2>1
      <4>1. Rank[id] <= script.after /\ Rank[id] \in Nat /\ Rank[Highest(Page)] \in Nat
        BY <1>1, <1>7, <3>1, <3>2
      <4> QED
        BY <1>3, <3>1, <4>1
    <3> QED
      BY <1>1, <1>7, <2>1, <2>2, <3>3
  <2> QED
    BY <1>3, <2>1, <2>2, <2>3 DEF Kept
<1>8. ASSUME NEW part \in SUBSET Page, script' = [Stopped EXCEPT !.backup = Appended(part)]
      PROVE  Kept'
  <2>1. /\ script'.at = "stopped" /\ script'.left = {} /\ script'.torn = script.torn
        /\ script'.backup = Appended(part)
    BY <1>3, <1>8 DEF Scripts, Stopped
  <2>2. \A id \in Texts : before'[id] # Absent => Recoverable(id)'
    BY <1>5, <2>1
  <2> QED
    BY <2>1, <2>2 DEF Kept
<1>9. CASE script' = [Stopped EXCEPT !.backup = <<>>, !.torn = TRUE]
  <2>1. script'.at = "stopped" /\ script'.left = {} /\ script'.torn = TRUE
    BY <1>3, <1>9 DEF Scripts, Stopped
  <2> QED
    BY <2>1 DEF Kept
<1> QED
  BY <1>2, <1>6, <1>7, <1>8, <1>9

LEMMA UpdateVectorsRecovers == ASSUME Sound, Kept, UpdateVectors PROVE Kept'
<1>1. /\ script.at = "embed" /\ before' = before /\ script \in Scripts
      /\ script' = [script EXCEPT !.at = "scan", !.batch = <<>>]
  BY ScriptTyped DEF UpdateVectors
<1>2. /\ script'.at = "scan" /\ script'.left = script.left /\ script'.torn = script.torn
      /\ script'.backup = script.backup /\ script'.after = script.after
  BY <1>1 DEF Scripts
<1>3. /\ \A t \in Texts : row'[t] = Absent <=> row[t] = Absent
      /\ \A t \in Texts \ DOMAIN script.backup : row'[t] = row[t]
      /\ \A t \in Texts : row[t] # Absent =>
           row'[t].text = row[t].text /\ row'[t].pending = row[t].pending
  BY <1>1, UpdateVectorsSound DEF Kept
<1>4. ASSUME ~script.torn, NEW id \in Texts, before[id] # Absent PROVE Recoverable(id)'
  BY <1>1, <1>2, <1>3, <1>4 DEF Kept, Recoverable
<1> QED
  BY <1>1, <1>2, <1>4 DEF Kept

LEMMA RestoreRecovers == ASSUME Sound, Kept, Restore PROVE Kept'
<1>1. /\ script.at = "restore" /\ before' = before /\ script \in Scripts /\ ~script.torn
      /\ script.left \subseteq DOMAIN script.backup
  BY ScriptTyped, RestoreSound DEF Restore, Kept
<1>2. CASE script.left = {} /\ script' = [script EXCEPT !.at = "restored"] /\ row' = row
  <2>1. /\ script'.at = "restored" /\ script'.left = script.left /\ script'.torn = script.torn
        /\ script'.backup = script.backup /\ script'.failed = script.failed
    BY <1>1, <1>2 DEF Scripts
  <2> QED
    BY <1>1, <1>2, <2>1 DEF Kept, Recoverable
<1>3. ASSUME NEW page \in SUBSET script.left,
             script' = [script EXCEPT !.left = @ \ page, !.restored = @ \cup page],
             \A t \in Texts \ page : row'[t] = row[t],
             \A t \in page : /\ row'[t] \in Rows /\ row'[t].vec = script.backup[t]
                             /\ row'[t].text = row[t].text /\ row'[t].pending = row[t].pending
      PROVE  Kept'
  <2>1. /\ script'.at = "restore" /\ script'.left = script.left \ page /\ script'.torn = script.torn
        /\ script'.backup = script.backup /\ script'.failed = script.failed
    BY <1>1, <1>3 DEF Scripts
  <2>2. ASSUME NEW id \in Texts, before[id] # Absent PROVE Recoverable(id)'
    <3>1. Recoverable(id)
      BY <1>1, <2>2 DEF Kept
    <3>2. CASE id \in page
      <4>1. row'[id] \in Rows /\ before[id] \in Rows /\ row'[id] # Absent
        BY <1>3, <3>2, <2>2, StateTyped, EngineAssumption
      <4>2. /\ row'[id].vec = before[id].vec /\ row'[id].text = before[id].text
            /\ row'[id].pending = before[id].pending
        BY <1>1, <1>3, <3>1, <3>2 DEF Recoverable
      <4>3. row'[id] = before[id]
        BY <4>1, <4>2 DEF Rows
      <4> QED
        BY <1>1, <2>1, <3>1, <4>1, <4>3 DEF Recoverable
    <3>3. CASE id \notin page
      BY <1>1, <1>3, <2>1, <3>1, <3>3 DEF Recoverable
    <3> QED
      BY <3>2, <3>3
  <2> QED
    BY <1>1, <2>1, <2>2 DEF Kept
<1>4. ASSUME NEW page \in SUBSET script.left, row' = row,
             script' = [script EXCEPT !.left = @ \ page, !.failed = @ \cup page]
      PROVE  Kept'
  <2>1. /\ script'.at = "restore" /\ script'.left = script.left \ page /\ script'.torn = script.torn
        /\ script'.backup = script.backup /\ script'.failed = script.failed \cup page
    BY <1>1, <1>4 DEF Scripts
  <2> QED
    BY <1>1, <1>4, <2>1 DEF Kept, Recoverable
<1> QED
  BY <1>1, <1>2, <1>3, <1>4, RestoreSound

-----------------------------------------------------------------------------
LEMMA NextSound == Sound /\ Kept /\ [Next]_vars => Sound' /\ Kept'
<1> SUFFICES ASSUME Sound, Kept, [Next]_vars PROVE Sound' /\ Kept'
  OBVIOUS
<1>1. CASE UNCHANGED vars
  BY <1>1 DEF vars, clientVars, Sound, Shape, TypeOK, Calls, Storing, Request, Kept, Recoverable
<1>2. ASSUME NEW c \in Clients, Add(c) \/ Change(c) PROVE Sound' /\ Kept'
  BY <1>2, ClientSound, ClientRecovers
<1>3. CASE Script
  <2>1. ASSUME Restore PROVE Sound' /\ Kept'
    BY <2>1, RestoreSound, RestoreRecovers DEF Kept
  <2> QED
    BY <1>3, <2>1, StartScriptSound, ScanSound, UpdateVectorsSound, CrashSound, StartRollbackSound,
       StartScriptRecovers, ScanRecovers, UpdateVectorsRecovers, CrashRecovers,
       StartRollbackRecovers DEF Script
<1> QED
  BY <1>1, <1>2, <1>3 DEF Next

\* The state keeps its types, whatever clients and the script do.
THEOREM EngineTypeCorrect == Spec => []TypeOK
<1>1. Sound => TypeOK
  BY DEF Sound, Shape
<1> QED
  BY InitSound, NextSound, <1>1, PTL DEF Spec

\* RollbackRestores: from a backup that was written page by page before anything else, and that a
\* crash may have cut off anywhere, rollback gives every memory nobody has written since the script
\* started the vector it had, except in batches it reports as failed.
THEOREM RollbackRestoresThm == Spec => []RollbackRestores
<1>1. Kept => RollbackRestores
  BY DEF Kept, Recoverable, RollbackRestores
<1> QED
  BY InitSound, NextSound, <1>1, PTL DEF Spec

-----------------------------------------------------------------------------
(* The history.  Two deletes of one memory can both find it, and both be noted: SharedDeletes.   *)

\* Events of one kind in the history of a memory, and clients that have yet to note one.
NotedIn(h, e, id) == {i \in DOMAIN h[id] : h[id][i].event = e /\ h[id][i].proc \in Procs}
Noted(e, id) == NotedIn(hist, e, id)
Adding(id) == {c \in Clients : Proc[c] \in Procs /\ ((pc[c] = "log" /\ cur[c] = id) \/ id \in saved[c])}
Deleting(id) == {c \in Clients : pc[c] = "note" /\ Request(c).op = "delete" /\ Request(c).id = id}

Member(x, S) == IF x \in S THEN 1 ELSE 0
There(rows, id) == IF rows[id] # Absent THEN 1 ELSE 0

LEMMA NotedInCount ==
    ASSUME NEW h \in [Texts -> Seq(Events)], NEW e, NEW id \in Texts
    PROVE  /\ IsFiniteSet(NotedIn(h, e, id)) /\ Cardinality(NotedIn(h, e, id)) \in Nat
           /\ NotedIn(h, e, id) = {i \in DOMAIN h[id] : h[id][i].event = e}
<1>1. h[id] \in Seq(Events)
  OBVIOUS
<1>2. IsFiniteSet(1..Len(h[id]))
  BY <1>1, FS_Interval
<1>3. NotedIn(h, e, id) \in SUBSET (1..Len(h[id]))
  BY <1>1 DEF NotedIn
<1>4. \A i \in DOMAIN h[id] : h[id][i].proc \in Procs
  <2>1. \A x \in Events : x.proc \in Procs
    BY DEF Events
  <2>2. \A i \in DOMAIN h[id] : h[id][i] \in Events
    BY <1>1
  <2> QED
    BY <2>1, <2>2
<1>5. NotedIn(h, e, id) = {i \in DOMAIN h[id] : h[id][i].event = e}
  BY <1>4 DEF NotedIn
<1> QED
  BY <1>2, <1>3, <1>5, FS_Subset, FS_CardinalityType

LEMMA NotedCount ==
    ASSUME Sound, NEW e, NEW id \in Texts
    PROVE  IsFiniteSet(Noted(e, id)) /\ Cardinality(Noted(e, id)) \in Nat
BY StateTyped, NotedInCount DEF Noted

\* One more event in a history.
LEMMA NotedAppend ==
    ASSUME Sound, NEW id \in Texts, NEW x \in Events, hist'[id] = Append(hist[id], x), NEW e
    PROVE  Cardinality(Noted(e, id)') = Cardinality(Noted(e, id)) + (IF x.event = e THEN 1 ELSE 0)
<1> DEFINE s == hist[id]
           n == Len(s) + 1
<1>1. s \in Seq(Events) /\ x.proc \in Procs
  BY StateTyped DEF Events
<1>2. /\ DOMAIN Append(s, x) = 1..n /\ DOMAIN s = 1..Len(s) /\ n \in Nat /\ n \notin 1..Len(s)
      /\ Append(s, x)[n] = x /\ \A i \in 1..Len(s) : Append(s, x)[i] = s[i] /\ i \in 1..n
      /\ 1..n = (1..Len(s)) \cup {n}
  BY <1>1
<1>3. n \notin Noted(e, id)
  BY <1>2 DEF Noted, NotedIn
<1>4. CASE x.event = e
  <2>1. Noted(e, id)' = Noted(e, id) \cup {n}
    BY <1>1, <1>2, <1>4 DEF Noted, NotedIn
  <2>2. Cardinality(Noted(e, id)') = Cardinality(Noted(e, id)) + 1
    BY <1>3, <2>1, NotedCount, FS_AddElement
  <2> QED
    BY <1>4, <2>2
<1>5. CASE x.event # e
  <2>1. Noted(e, id)' = Noted(e, id)
    BY <1>1, <1>2, <1>5 DEF Noted, NotedIn
  <2>2. Cardinality(Noted(e, id)') = Cardinality(Noted(e, id)) + 0
    BY <2>1, NotedCount
  <2> QED
    BY <1>5, <2>2
<1> QED
  BY <1>4, <1>5

\* A set of clients from which, or to which, one of them may have moved.
LEMMA MovedCount ==
    ASSUME NEW S \in SUBSET Clients, NEW T \in SUBSET Clients, NEW c \in Clients,
           S \ {c} = T \ {c}
    PROVE  /\ Cardinality(S) \in Nat /\ Cardinality(T) \in Nat
           /\ Cardinality(T) + Member(c, S) = Cardinality(S) + Member(c, T)
<1>1. IsFiniteSet(S) /\ IsFiniteSet(T)
  BY EngineAssumption, FS_Subset
<1>2. /\ Cardinality(S) \in Nat /\ Cardinality(T) \in Nat
      /\ Cardinality(S \ {c}) = IF c \in S THEN Cardinality(S) - 1 ELSE Cardinality(S)
      /\ Cardinality(T \ {c}) = IF c \in T THEN Cardinality(T) - 1 ELSE Cardinality(T)
  BY <1>1, FS_RemoveElement, FS_CardinalityType
<1> QED
  BY <1>2 DEF Member

LEMMA OthersStay ==
    ASSUME NEW c \in Clients, Others(c), NEW id
    PROVE  /\ Adding(id)' \ {c} = Adding(id) \ {c}
           /\ Deleting(id)' \ {c} = Deleting(id) \ {c}
<1>1. \A d \in Clients \ {c} : Request(d)' = Request(d)
  BY DEF Others, Request
<1> QED
  BY <1>1 DEF Others, Adding, Deleting

\* What a step has to add up to, for the balance to hold.
Tally(c, id) ==
    Cardinality(Noted("ADD", id)') + Member(c, Adding(id)')
      + Cardinality(Noted("DELETE", id)) + Member(c, Deleting(id)) + There(row, id)
    = Cardinality(Noted("ADD", id)) + Member(c, Adding(id))
      + Cardinality(Noted("DELETE", id)') + Member(c, Deleting(id)') + There(row', id)

\* Adds and deletes of a memory, by their parts.
AddsOf(id) == Cardinality(Noted("ADD", id)) + Cardinality(Adding(id)) + Member(id, Seeded)
DeletesOf(id) == Cardinality(Noted("DELETE", id)) + Cardinality(Deleting(id))

\* With pgvector the balance is the row; and a client that removes a row has found it.
Accounted ==
    store = Pgvector =>
        /\ \A id \in Texts \ SharedDeletes : AddsOf(id) = DeletesOf(id) + There(row, id)
        /\ \A c \in Clients : pc[c] = "remove" /\ Request(c).id \notin SharedDeletes =>
             row[Request(c).id] # Absent

LEMMA Parts ==
    ASSUME hist \in [Texts -> Seq(Events)], NEW id \in Texts
    PROVE  Adds(id, Procs) = AddsOf(id) /\ Deletes(id) = DeletesOf(id)
<1>1. {i \in DOMAIN hist[id] : hist[id][i].event = "DELETE"} = Noted("DELETE", id)
  BY NotedInCount DEF Noted
<1>2. Deletes(id) = DeletesOf(id)
  BY <1>1, Zenon DEF Deletes, DeletesOf, Deleting
<1>3. Adds(id, Procs) = AddsOf(id)
  BY Zenon DEF Adds, AddsOf, Noted, NotedIn, Adding, Member
<1> QED
  BY <1>2, <1>3

LEMMA Balanced ==
    ASSUME Sound, Sound', NEW c \in Clients, Others(c), NEW id \in Texts, Tally(c, id),
           AddsOf(id) = DeletesOf(id) + There(row, id)
    PROVE  AddsOf(id)' = DeletesOf(id)' + There(row', id)
<1>1. /\ Cardinality(Noted("ADD", id)) \in Nat /\ Cardinality(Noted("DELETE", id)) \in Nat
      /\ Cardinality(Noted("ADD", id)') \in Nat /\ Cardinality(Noted("DELETE", id)') \in Nat
  <2>1. hist \in [Texts -> Seq(Events)] /\ hist' \in [Texts -> Seq(Events)]
    BY DEF Sound, Shape, TypeOK, Events
  <2> QED
    BY <2>1, NotedInCount DEF Noted
<1>2. /\ Cardinality(Adding(id)) \in Nat /\ Cardinality(Adding(id)') \in Nat
      /\ Cardinality(Adding(id)') + Member(c, Adding(id))
           = Cardinality(Adding(id)) + Member(c, Adding(id)')
  <2>1. Adding(id) \in SUBSET Clients /\ Adding(id)' \in SUBSET Clients
    BY DEF Adding
  <2> QED
    BY <2>1, OthersStay, MovedCount
<1>3. /\ Cardinality(Deleting(id)) \in Nat /\ Cardinality(Deleting(id)') \in Nat
      /\ Cardinality(Deleting(id)') + Member(c, Deleting(id))
           = Cardinality(Deleting(id)) + Member(c, Deleting(id)')
  <2>1. Deleting(id) \in SUBSET Clients /\ Deleting(id)' \in SUBSET Clients
    BY DEF Deleting
  <2> QED
    BY <2>1, OthersStay, MovedCount
<1>4. /\ Member(c, Adding(id)) \in Nat /\ Member(c, Adding(id)') \in Nat
      /\ Member(c, Deleting(id)) \in Nat /\ Member(c, Deleting(id)') \in Nat
      /\ There(row, id) \in Nat /\ There(row', id) \in Nat
      /\ Member(id, Seeded) \in Nat
  BY DEF Member, There
<1>5. /\ AddsOf(id)' = Cardinality(Noted("ADD", id)') + Cardinality(Adding(id)') + Member(id, Seeded)
      /\ DeletesOf(id)' = Cardinality(Noted("DELETE", id)') + Cardinality(Deleting(id)')
  BY DEF AddsOf, DeletesOf, Member
<1>6. Cardinality(Noted("ADD", id)) + Cardinality(Adding(id)) + Member(id, Seeded)
        = Cardinality(Noted("DELETE", id)) + Cardinality(Deleting(id)) + There(row, id)
  BY DEF AddsOf, DeletesOf
<1>7. Cardinality(Noted("ADD", id)') + Member(c, Adding(id)')
        + Cardinality(Noted("DELETE", id)) + Member(c, Deleting(id)) + There(row, id)
      = Cardinality(Noted("ADD", id)) + Member(c, Adding(id))
        + Cardinality(Noted("DELETE", id)') + Member(c, Deleting(id)') + There(row', id)
  BY DEF Tally
<1>8. Cardinality(Noted("ADD", id)') + Cardinality(Adding(id)') + Member(id, Seeded)
        = Cardinality(Noted("DELETE", id)') + Cardinality(Deleting(id)') + There(row', id)
  <2> DEFINE na == Cardinality(Noted("ADD", id))
             na1 == Cardinality(Noted("ADD", id)')
             nd == Cardinality(Noted("DELETE", id))
             nd1 == Cardinality(Noted("DELETE", id)')
             a == Cardinality(Adding(id))
             a1 == Cardinality(Adding(id)')
             d == Cardinality(Deleting(id))
             d1 == Cardinality(Deleting(id)')
             ma == Member(c, Adding(id))
             ma1 == Member(c, Adding(id)')
             md == Member(c, Deleting(id))
             md1 == Member(c, Deleting(id)')
             t == There(row, id)
             t1 == There(row', id)
             s == Member(id, Seeded)
  <2>1. /\ na \in Nat /\ na1 \in Nat /\ nd \in Nat /\ nd1 \in Nat /\ a \in Nat /\ a1 \in Nat
        /\ d \in Nat /\ d1 \in Nat /\ ma \in Nat /\ ma1 \in Nat /\ md \in Nat /\ md1 \in Nat
        /\ t \in Nat /\ t1 \in Nat /\ s \in Nat
        /\ a1 + ma = a + ma1 /\ d1 + md = d + md1 /\ na + a + s = nd + d + t
        /\ na1 + ma1 + nd + md + t = na + ma + nd1 + md1 + t1
    BY <1>1, <1>2, <1>3, <1>4, <1>6, <1>7
  <2> HIDE DEF na, na1, nd, nd1, a, a1, d, d1, ma, ma1, md, md1, t, t1, s
  <2>2. na1 + a1 + s = nd1 + d1 + t1
    BY <2>1
  <2> QED
    BY <2>2 DEF na1, nd1, a1, d1, t1, s
<1> QED
  BY <1>5, <1>8

\* A step of a client is about that client alone.
LEMMA ClientOthers == ASSUME Sound, NEW c \in Clients, Add(c) \/ Change(c) PROVE Others(c)
<1> USE DEF Sound, Shape, TypeOK, Others
<1>1. ASSUME GiveUp(c) PROVE Others(c)
  BY <1>1 DEF GiveUp
<1>2. ASSUME FailMessage(c) \/ EndMessages(c) \/ SelectNothing(c) PROVE Others(c)
  BY <1>1, <1>2 DEF FailMessage, EndMessages, SelectNothing
<1>3. ASSUME SelectMessages(c) PROVE Others(c)
  BY <1>3 DEF SelectMessages
<1>4. ASSUME ExamineMessage(c) PROVE Others(c)
  BY <1>4 DEF ExamineMessage
<1>5. ASSUME EndAdd(c) PROVE Others(c)
  BY <1>5 DEF EndAdd, Dropped
<1>6. ASSUME InsertMessage(c) PROVE Others(c)
  BY <1>6 DEF InsertMessage
<1>7. ASSUME Recheck(c) PROVE Others(c)
  BY <1>7 DEF Recheck, Dropped
<1>8. ASSUME LogMessage(c) PROVE Others(c)
  BY <1>8 DEF LogMessage, Dropped
<1>9. ASSUME SelectFacts(c) PROVE Others(c)
  BY <1>9 DEF SelectFacts
<1>10. ASSUME InsertBatch(c) PROVE Others(c)
  BY <1>10 DEF InsertBatch
<1>11. ASSUME InsertSingle(c) PROVE Others(c)
  BY <1>11 DEF InsertSingle
<1>12. ASSUME RecordFacts(c) PROVE Others(c)
  BY <1>12 DEF RecordFacts
<1>13. ASSUME ReadForUpdate(c) PROVE Others(c)
  BY <1>13 DEF ReadForUpdate, Ended
<1>14. ASSUME StoreUpdate(c) PROVE Others(c)
  BY <1>14 DEF StoreUpdate, Ended
<1>15. ASSUME NoteUpdate(c) \/ NoteDelete(c) PROVE Others(c)
  BY <1>15 DEF NoteUpdate, NoteDelete, Ended
<1>16. ASSUME ReadForDelete(c) PROVE Others(c)
  BY <1>16 DEF ReadForDelete, Ended
<1>17. ASSUME RemoveRow(c) PROVE Others(c)
  BY <1>17 DEF RemoveRow
<1> QED
  BY <1>2, <1>3, <1>4, <1>5, <1>6, <1>7, <1>8, <1>9, <1>10, <1>11, <1>12, <1>13, <1>14, <1>15,
     <1>16, <1>17 DEF Add, Change

\* What a client has yet to note.
LEMMA Mine ==
    ASSUME NEW c \in Clients, NEW id
    PROVE  /\ Member(c, Adding(id)) =
                IF (pc[c] = "log" /\ cur[c] = id) \/ id \in saved[c] THEN 1 ELSE 0
           /\ Member(c, Deleting(id)) =
                IF pc[c] = "note" /\ Request(c).op = "delete" /\ Request(c).id = id THEN 1 ELSE 0
           /\ Member(c, Adding(id)') =
                IF (pc'[c] = "log" /\ cur'[c] = id) \/ id \in saved'[c] THEN 1 ELSE 0
           /\ Member(c, Deleting(id)') =
                IF pc'[c] = "note" /\ Request(c)'.op = "delete" /\ Request(c)'.id = id THEN 1 ELSE 0
BY EngineAssumption DEF Member, Adding, Deleting

\* A step that stores nothing and notes nothing.
LEMMA QuietTally ==
    ASSUME Sound, NEW c \in Clients, NEW id \in Texts, hist' = hist,
           row'[id] = Absent <=> row[id] = Absent,
           saved'[c] = saved[c], pc[c] # "log", pc'[c] # "log", pc[c] # "note",
           pc'[c] = "note" => Request(c)'.op # "delete"
    PROVE  Tally(c, id)
<1>1. /\ Noted("ADD", id)' = Noted("ADD", id) /\ Noted("DELETE", id)' = Noted("DELETE", id)
      /\ There(row', id) = There(row, id)
  BY DEF Noted, NotedIn, There
<1>2. Member(c, Adding(id)') = Member(c, Adding(id))
  BY Mine
<1>3. Member(c, Deleting(id)') = Member(c, Deleting(id))
  BY Mine
<1> QED
  BY <1>1, <1>2, <1>3 DEF Tally

\* Steps after which the same memories are there, and nothing more has to be noted.
LEMMA QuietSteps ==
    ASSUME Sound, store = Pgvector, NEW c \in Clients, NEW id \in Texts,
           \/ SelectMessages(c) \/ ExamineMessage(c) \/ FailMessage(c) \/ EndMessages(c)
           \/ EndAdd(c) \/ Recheck(c) \/ SelectFacts(c) \/ SelectNothing(c) \/ ReadForUpdate(c)
           \/ StoreUpdate(c) \/ ReadForDelete(c)
    PROVE  Tally(c, id) /\ \A t \in Texts : row[t] # Absent => row'[t] # Absent
<1>0. pc[c] \in Steps /\ pc \in [Clients -> Steps] /\ saved \in [Clients -> SUBSET Texts]
  BY DEF Sound, Shape, TypeOK
<1>1. ASSUME \/ SelectMessages(c) \/ FailMessage(c) \/ EndMessages(c) \/ SelectFacts(c)
             \/ SelectNothing(c)
      PROVE  hist' = hist /\ row' = row /\ saved' = saved /\ pc[c] \notin {"log", "note"}
             /\ pc'[c] \notin {"log", "note"}
  BY <1>0, <1>1 DEF SelectMessages, FailMessage, EndMessages, SelectFacts, SelectNothing, GiveUp, Called
<1>2. ASSUME ExamineMessage(c)
      PROVE  hist' = hist /\ row' = row /\ saved' = saved /\ pc[c] \notin {"log", "note"}
             /\ pc'[c] \notin {"log", "note"}
  <2>1. pc' = pc \/ pc' = [pc EXCEPT ![c] = "insert"]
    BY <1>2 DEF ExamineMessage
  <2> QED
    BY <1>0, <1>2, <2>1 DEF ExamineMessage
<1>3. ASSUME EndAdd(c)
      PROVE  hist' = hist /\ row' = row /\ saved'[c] = saved[c] /\ pc[c] \notin {"log", "note"}
             /\ pc'[c] \notin {"log", "note"}
  BY <1>0, <1>3 DEF EndAdd, Sound, Storing
<1>4. ASSUME Recheck(c)
      PROVE  hist' = hist /\ row' = row /\ saved' = saved /\ pc[c] \notin {"log", "note"}
             /\ pc'[c] \notin {"log", "note"}
  BY <1>0, <1>4 DEF Recheck
<1>5. ASSUME ReadForUpdate(c)
      PROVE  hist' = hist /\ row' = row /\ saved' = saved /\ pc[c] \notin {"log", "note"}
             /\ pc'[c] \notin {"log", "note"}
  <2>1. pc' = [pc EXCEPT ![c] = "write"] \/ pc' = [pc EXCEPT ![c] = "idle"]
    BY <1>5 DEF ReadForUpdate, Ended
  <2> QED
    BY <1>0, <1>5, <2>1 DEF ReadForUpdate, Called
<1>6. ASSUME ReadForDelete(c)
      PROVE  hist' = hist /\ row' = row /\ saved' = saved /\ pc[c] \notin {"log", "note"}
             /\ pc'[c] \notin {"log", "note"}
  <2>1. pc' = [pc EXCEPT ![c] = "remove"] \/ pc' = [pc EXCEPT ![c] = "idle"]
    BY <1>6 DEF ReadForDelete, Ended
  <2> QED
    BY <1>0, <1>6, <2>1 DEF ReadForDelete, Called
<1>7. ASSUME StoreUpdate(c)
      PROVE  /\ hist' = hist /\ saved' = saved /\ pc[c] \notin {"log", "note"} /\ pc'[c] # "log"
             /\ pc'[c] = "note" => Request(c)'.op # "delete"
             /\ \A t \in Texts : row'[t] = Absent <=> row[t] = Absent
  <2>1. pc[c] = "write" /\ Request(c).op # "delete" /\ hist' = hist /\ saved' = saved
    BY <1>7, WriteTyped DEF StoreUpdate
  <2>2. \/ pc' = [pc EXCEPT ![c] = "note"] /\ pos' = pos
        \/ pc' = [pc EXCEPT ![c] = "idle"]
    BY <1>7 DEF StoreUpdate, Ended
  <2>3. \A t \in Texts : row'[t] = Absent <=> row[t] = Absent
    BY <1>7, StoreUpdateRows
  <2> QED
    BY <1>0, <2>1, <2>2, <2>3 DEF Request
<1> HIDE DEF Sound
<1> QED
  BY <1>1, <1>2, <1>3, <1>4, <1>5, <1>6, <1>7, QuietTally

\* Insertions with pgvector: of memories that are not there.
LEMMA InsertedPgvector ==
    ASSUME Sound, store = Pgvector, NEW ts \in SUBSET Texts, ~Refused(ts),
           NEW v \in [Texts -> Vectors], row' = Inserted(ts, v)
    PROVE  /\ \A t \in ts : row[t] = Absent /\ row'[t] # Absent
           /\ \A t \in Texts \ ts : row'[t] = row[t]
<1>1. \A t \in ts : row[t] = Absent
  BY DEF Refused, Pgvector, InsertPgvector
<1>2. /\ \A t \in Texts \ ts : Inserted(ts, v)[t] = row[t]
      /\ \A t \in ts : Inserted(ts, v)[t] # Absent
  BY InsertedTyped DEF Sound, Shape
<1> QED
  BY <1>1, <1>2

LEMMA SameHistory ==
    ASSUME hist' = hist, NEW id, NEW e PROVE Noted(e, id)' = Noted(e, id)
BY DEF Noted, NotedIn

LEMMA InsertTally ==
    ASSUME Sound, NEW c \in Clients, NEW id \in Texts, NEW ts \in SUBSET Texts, hist' = hist,
           \A t \in ts : row[t] = Absent /\ row'[t] # Absent,
           \A t \in Texts \ ts : row'[t] = row[t],
           pc[c] \notin {"log", "note"}, pc'[c] # "note",
           ts \cap saved[c] = {},
           ((pc'[c] = "log" /\ cur'[c] = id) \/ id \in saved'[c]) <=> id \in saved[c] \cup ts
    PROVE  Tally(c, id)
<1>1. Noted("ADD", id)' = Noted("ADD", id) /\ Noted("DELETE", id)' = Noted("DELETE", id)
  BY SameHistory
<1>2. Member(c, Deleting(id)) = 0 /\ Member(c, Deleting(id)') = 0
  BY Mine
<1>3. Cardinality(Noted("ADD", id)) \in Nat /\ Cardinality(Noted("DELETE", id)) \in Nat
  BY NotedCount
<1>4. CASE id \in ts
  <2>1. Member(c, Adding(id)) = 0 /\ Member(c, Adding(id)') = 1
    BY <1>4, Mine
  <2>2. There(row, id) = 0 /\ There(row', id) = 1
    BY <1>4 DEF There
  <2> QED
    BY <1>1, <1>2, <1>3, <2>1, <2>2 DEF Tally
<1>5. CASE id \notin ts
  <2>1. Member(c, Adding(id)) = Member(c, Adding(id)')
    BY <1>5, Mine
  <2>2. There(row, id) = There(row', id)
    BY <1>5 DEF There
  <2> QED
    BY <1>1, <1>2, <2>1, <2>2 DEF Tally
<1> QED
  BY <1>4, <1>5

LEMMA InsertMessageTally ==
    ASSUME Sound, store = Pgvector, NEW c \in Clients, NEW id \in Texts, InsertMessage(c)
    PROVE  Tally(c, id) /\ \A t \in Texts : row[t] # Absent => row'[t] # Absent
<1>1. /\ pc[c] = "insert" /\ cur[c] \in Texts /\ emb[c] \in [Texts -> Vectors] /\ saved[c] = {}
      /\ hist' = hist /\ saved' = saved /\ cur' = cur /\ pc \in [Clients -> Steps]
  BY DEF Sound, Shape, TypeOK, Calls, Storing, InsertMessage
<1>2. CASE pc' = [pc EXCEPT ![c] = "recheck"] /\ row' = row
  BY <1>1, <1>2, QuietTally
<1>3. CASE /\ ~Refused({cur[c]})
           /\ pc' = [pc EXCEPT ![c] = "log"] /\ row' = Inserted({cur[c]}, emb[c])
  <2> DEFINE ts == {cur[c]}
  <2>1. pc' = [pc EXCEPT ![c] = "log"] /\ row' = Inserted(ts, emb[c]) /\ ts \in SUBSET Texts
    BY <1>1, <1>3
  <2>2. /\ \A t \in ts : row[t] = Absent /\ row'[t] # Absent
        /\ \A t \in Texts \ ts : row'[t] = row[t]
    BY <1>1, <1>3, <2>1, InsertedPgvector
  <2>3. ((pc'[c] = "log" /\ cur'[c] = id) \/ id \in saved'[c]) <=> id \in saved[c] \cup ts
    BY <1>1, <2>1
  <2>4. pc[c] \notin {"log", "note"} /\ pc'[c] # "note" /\ ts \cap saved[c] = {}
    BY <1>1, <2>1
  <2> HIDE DEF ts
  <2>5. Tally(c, id)
    BY <1>1, <2>1, <2>2, <2>3, <2>4, InsertTally
  <2> QED
    BY <2>2, <2>5
<1> QED
  BY <1>2, <1>3 DEF InsertMessage

LEMMA InsertBatchTally ==
    ASSUME Sound, store = Pgvector, NEW c \in Clients, NEW id \in Texts, InsertBatch(c)
    PROVE  Tally(c, id) /\ \A t \in Texts : row[t] # Absent => row'[t] # Absent
<1>1. /\ pc[c] = "batch" /\ todo[c] \in SUBSET Texts /\ emb[c] \in [Texts -> Vectors] /\ saved[c] = {}
      /\ hist' = hist /\ saved \in [Clients -> SUBSET Texts] /\ pc \in [Clients -> Steps]
  BY DEF Sound, Shape, TypeOK, Storing, InsertBatch
<1>2. CASE pc' = [pc EXCEPT ![c] = "single"] /\ row' = row /\ saved' = saved
  BY <1>1, <1>2, QuietTally
<1>3. CASE /\ ~Refused(todo[c])
           /\ pc' = [pc EXCEPT ![c] = "record"] /\ row' = Inserted(todo[c], emb[c])
           /\ saved' = [saved EXCEPT ![c] = todo[c]]
  <2>1. /\ pc' = [pc EXCEPT ![c] = "record"] /\ row' = Inserted(todo[c], emb[c])
        /\ saved' = [saved EXCEPT ![c] = todo[c]]
    BY <1>3
  <2>2. /\ \A t \in todo[c] : row[t] = Absent /\ row'[t] # Absent
        /\ \A t \in Texts \ todo[c] : row'[t] = row[t]
    BY <1>1, <1>3, <2>1, InsertedPgvector
  <2>3. ((pc'[c] = "log" /\ cur'[c] = id) \/ id \in saved'[c]) <=> id \in saved[c] \cup todo[c]
    BY <1>1, <2>1
  <2>4. pc[c] \notin {"log", "note"} /\ pc'[c] # "note" /\ todo[c] \cap saved[c] = {}
    BY <1>1, <2>1
  <2>5. Tally(c, id)
    BY <1>1, <2>2, <2>3, <2>4, InsertTally
  <2> QED
    BY <2>2, <2>5
<1> QED
  BY <1>2, <1>3 DEF InsertBatch

LEMMA InsertSingleTally ==
    ASSUME Sound, store = Pgvector, NEW c \in Clients, NEW id \in Texts, InsertSingle(c)
    PROVE  Tally(c, id) /\ \A t \in Texts : row[t] # Absent => row'[t] # Absent
<1>1. /\ pc[c] = "single" /\ todo[c] \in SUBSET Texts /\ emb[c] \in [Texts -> Vectors]
      /\ saved[c] \cap todo[c] = {} /\ hist' = hist /\ saved \in [Clients -> SUBSET Texts]
      /\ pc \in [Clients -> Steps]
  BY DEF Sound, Shape, TypeOK, Storing, InsertSingle
<1>2. PICK t \in todo[c] :
        /\ \/ UNCHANGED <<row, saved, before>>
           \/ /\ ~Refused({t})
              /\ row' = Inserted({t}, emb[c])
              /\ saved' = [saved EXCEPT ![c] = @ \cup {t}]
              /\ Touch({t})
        /\ pc' = [pc EXCEPT ![c] = IF todo[c] = {t} THEN "record" ELSE "single"]
  BY DEF InsertSingle
<1>3. pc[c] \notin {"log", "note"} /\ pc'[c] \notin {"log", "note"}
  BY <1>1, <1>2
<1>4. CASE UNCHANGED <<row, saved, before>>
  BY <1>1, <1>3, <1>4, QuietTally
<1>5. CASE ~Refused({t}) /\ row' = Inserted({t}, emb[c]) /\ saved' = [saved EXCEPT ![c] = @ \cup {t}]
  <2> DEFINE ts == {t}
  <2>1. row' = Inserted(ts, emb[c]) /\ saved'[c] = saved[c] \cup ts /\ ts \in SUBSET Texts
    BY <1>1, <1>5
  <2>2. /\ \A u \in ts : row[u] = Absent /\ row'[u] # Absent
        /\ \A u \in Texts \ ts : row'[u] = row[u]
    BY <1>1, <1>5, <2>1, InsertedPgvector
  <2>3. ts \cap saved[c] = {}
    BY <1>1
  <2>4. ((pc'[c] = "log" /\ cur'[c] = id) \/ id \in saved'[c]) <=> id \in saved[c] \cup ts
    BY <1>3, <2>1
  <2> HIDE DEF ts
  <2>5. Tally(c, id)
    BY <1>1, <1>3, <2>1, <2>2, <2>3, <2>4, InsertTally
  <2> QED
    BY <2>2, <2>5
<1> QED
  BY <1>2, <1>4, <1>5

\* An event that is noted, or whose note fails, leaves the balance as it was: the client had it
\* counted already.
LEMMA NotesTally ==
    ASSUME Sound, NEW c \in Clients, NEW id \in Texts, row' = row,
           \/ LogMessage(c) \/ RecordFacts(c) \/ NoteUpdate(c) \/ NoteDelete(c)
    PROVE  Tally(c, id)
<1>0. /\ hist \in [Texts -> Seq(Events)] /\ pc \in [Clients -> Steps]
      /\ saved \in [Clients -> SUBSET Texts] /\ Proc[c] \in Procs
  BY EngineAssumption DEF Sound, Shape, TypeOK, Events
<1>1. There(row', id) = There(row, id)
  BY DEF There
<1>2. /\ Cardinality(Noted("ADD", id)) \in Nat /\ Cardinality(Noted("DELETE", id)) \in Nat
      /\ There(row, id) \in Nat
  BY NotedCount DEF There
<1>3. ASSUME hist'[id] = hist[id]
      PROVE  Noted("ADD", id)' = Noted("ADD", id) /\ Noted("DELETE", id)' = Noted("DELETE", id)
  BY <1>3 DEF Noted, NotedIn
<1>4. CASE LogMessage(c)
  <2>0. PICK noted \in Outcomes :
          /\ hist' = [hist EXCEPT ![cur[c]] = Append(@, Event("ADD", cur[c], c, noted))]
          /\ pc' = [pc EXCEPT ![c] = IF noted THEN "raw" ELSE "unlock"]
    BY <1>4 DEF LogMessage
  <2>1. /\ pc[c] = "log" /\ cur[c] \in Texts /\ saved[c] = {} /\ saved'[c] = {}
        /\ pc'[c] \in {"raw", "unlock"}
    BY <1>0, <2>0, <1>4 DEF LogMessage, Sound, Shape, Calls, Storing
  <2>2. /\ Member(c, Adding(id)') = 0 /\ Member(c, Deleting(id)') = 0 /\ Member(c, Deleting(id)) = 0
        /\ Member(c, Adding(id)) = IF cur[c] = id THEN 1 ELSE 0
    BY <2>1, Mine
  <2>3. CASE cur[c] = id
    <3>1. Event("ADD", id, c, noted) \in Events /\ Event("ADD", id, c, noted).event = "ADD"
      BY EventTyped DEF Event
    <3>2. hist'[id] = Append(hist[id], Event("ADD", id, c, noted))
      BY <1>0, <2>0, <2>3
    <3>3. /\ Cardinality(Noted("ADD", id)') = Cardinality(Noted("ADD", id)) + 1
          /\ Cardinality(Noted("DELETE", id)') = Cardinality(Noted("DELETE", id)) + 0
      BY <3>1, <3>2, NotedAppend
    <3> QED
      BY <1>1, <1>2, <2>2, <2>3, <3>3 DEF Tally
  <2>4. CASE cur[c] # id
    <3>1. hist'[id] = hist[id]
      BY <1>0, <2>0, <2>4
    <3> QED
      BY <1>1, <1>2, <1>3, <2>2, <2>4, <3>1 DEF Tally
  <2> QED
    BY <2>3, <2>4
<1>5. CASE RecordFacts(c)
  <2>0. PICK noted \in [saved[c] -> Outcomes] :
          hist' = [t \in Texts |-> IF t \in saved[c] THEN Append(hist[t], Event("ADD", t, c, noted[t]))
                                   ELSE hist[t]]
    BY <1>5 DEF RecordFacts
  <2>1. pc[c] = "record" /\ saved'[c] = {} /\ pc'[c] = "unlock"
    BY <1>0, <1>5 DEF RecordFacts
  <2>2. /\ Member(c, Adding(id)') = 0 /\ Member(c, Deleting(id)') = 0 /\ Member(c, Deleting(id)) = 0
        /\ Member(c, Adding(id)) = IF id \in saved[c] THEN 1 ELSE 0
    BY <2>1, Mine
  <2>3. CASE id \in saved[c]
    <3>1. Event("ADD", id, c, noted[id]) \in Events /\ Event("ADD", id, c, noted[id]).event = "ADD"
      BY <2>0, <2>3, EventTyped DEF Event
    <3>2. hist'[id] = Append(hist[id], Event("ADD", id, c, noted[id]))
      BY <2>0, <2>3
    <3>3. /\ Cardinality(Noted("ADD", id)') = Cardinality(Noted("ADD", id)) + 1
          /\ Cardinality(Noted("DELETE", id)') = Cardinality(Noted("DELETE", id)) + 0
      BY <3>1, <3>2, NotedAppend
    <3> QED
      BY <1>1, <1>2, <2>2, <2>3, <3>3 DEF Tally
  <2>4. CASE id \notin saved[c]
    <3>1. hist'[id] = hist[id]
      BY <2>0, <2>4
    <3> QED
      BY <1>1, <1>2, <1>3, <2>2, <2>4, <3>1 DEF Tally
  <2> QED
    BY <2>3, <2>4
<1>6. CASE NoteUpdate(c) \/ NoteDelete(c)
  <2> DEFINE r == Request(c)
  <2>1. /\ pc[c] = "note" /\ saved[c] = {} /\ saved'[c] = {} /\ pc'[c] = "idle"
        /\ r \in IdCalls /\ r.id \in Texts /\ r.text \in Texts
        /\ r.op # "delete" => got[c] \in Rows
    BY <1>0, <1>6 DEF NoteUpdate, NoteDelete, Ended, Sound, Shape, Calls, Storing, IdCalls
  <2>2. /\ Member(c, Adding(id)) = 0 /\ Member(c, Adding(id)') = 0 /\ Member(c, Deleting(id)') = 0
        /\ Member(c, Deleting(id)) = IF r.op = "delete" /\ r.id = id THEN 1 ELSE 0
    BY <2>1, Mine
  <2>3. CASE NoteUpdate(c)
    <3>1. PICK noted \in Outcomes :
            r.op # "delete" /\ hist' = [hist EXCEPT ![r.id] = Append(@, Event("UPDATE", NewText(c), c, noted))]
      BY <2>3 DEF NoteUpdate
    <3>2. /\ Event("UPDATE", NewText(c), c, noted) \in Events
          /\ Event("UPDATE", NewText(c), c, noted).event = "UPDATE"
      <4>1. NewText(c) \in Texts
        BY <2>1, <3>1 DEF NewText, Rows
      <4> QED
        BY <4>1, EventTyped DEF Event
    <3>3. CASE r.id = id
      <4>1. hist'[id] = Append(hist[id], Event("UPDATE", NewText(c), c, noted))
        BY <1>0, <2>1, <3>1, <3>3
      <4>2. /\ Cardinality(Noted("ADD", id)') = Cardinality(Noted("ADD", id)) + 0
            /\ Cardinality(Noted("DELETE", id)') = Cardinality(Noted("DELETE", id)) + 0
        BY <3>2, <4>1, NotedAppend
      <4> QED
        BY <1>1, <1>2, <2>2, <3>1, <4>2 DEF Tally
    <3>4. CASE r.id # id
      <4>1. hist'[id] = hist[id]
        BY <1>0, <2>1, <3>1, <3>4
      <4> QED
        BY <1>1, <1>2, <1>3, <2>2, <3>4, <4>1 DEF Tally
    <3> QED
      BY <3>3, <3>4
  <2>4. CASE NoteDelete(c)
    <3>1. PICK noted \in Outcomes :
            r.op = "delete" /\ hist' = [hist EXCEPT ![r.id] = Append(@, Event("DELETE", r.id, c, noted))]
      BY <2>4 DEF NoteDelete
    <3>2. CASE r.id = id
      <4>1. Event("DELETE", id, c, noted) \in Events /\ Event("DELETE", id, c, noted).event = "DELETE"
        BY EventTyped DEF Event
      <4>2. hist'[id] = Append(hist[id], Event("DELETE", id, c, noted))
        BY <1>0, <2>1, <3>1, <3>2
      <4>3. /\ Cardinality(Noted("ADD", id)') = Cardinality(Noted("ADD", id)) + 0
            /\ Cardinality(Noted("DELETE", id)') = Cardinality(Noted("DELETE", id)) + 1
        BY <4>1, <4>2, NotedAppend
      <4> QED
        BY <1>1, <1>2, <2>2, <3>1, <3>2, <4>3 DEF Tally
    <3>3. CASE r.id # id
      <4>1. hist'[id] = hist[id]
        BY <1>0, <2>1, <3>1, <3>3
      <4> QED
        BY <1>1, <1>2, <1>3, <2>2, <3>3, <4>1 DEF Tally
    <3> QED
      BY <3>2, <3>3
  <2> QED
    BY <1>6, <2>3, <2>4
<1> QED
  BY <1>4, <1>5, <1>6

LEMMA RemoveTally ==
    ASSUME Sound, NEW c \in Clients, NEW id \in Texts, RemoveRow(c),
           Request(c).id = id => row[id] # Absent
    PROVE  Tally(c, id) /\ \A t \in Texts : row[t] # Absent /\ t # Request(c).id => row'[t] # Absent
<1> DEFINE r == Request(c)
<1>1. /\ pc[c] = "remove" /\ saved[c] = {} /\ saved'[c] = {} /\ pc'[c] = "note"
      /\ r \in IdCalls /\ r.id \in Texts /\ r.op = "delete" /\ hist' = hist
      /\ row' = [row EXCEPT ![r.id] = Absent] /\ row \in [Texts -> Rows \cup {Absent}]
      /\ Request(c)' = r
  BY DEF RemoveRow, Sound, Shape, TypeOK, Calls, Storing, IdCalls, Request
<1>2. /\ Member(c, Adding(id)) = 0 /\ Member(c, Adding(id)') = 0 /\ Member(c, Deleting(id)) = 0
      /\ Member(c, Deleting(id)') = IF r.id = id THEN 1 ELSE 0
  BY <1>1, Mine
<1>3. There(row', id) = (IF r.id = id THEN 0 ELSE There(row, id)) /\ There(row, id) \in Nat
      /\ (r.id = id => There(row, id) = 1)
  BY <1>1 DEF There
<1>4. /\ Noted("ADD", id)' = Noted("ADD", id) /\ Noted("DELETE", id)' = Noted("DELETE", id)
      /\ Cardinality(Noted("ADD", id)) \in Nat /\ Cardinality(Noted("DELETE", id)) \in Nat
  BY <1>1, SameHistory, NotedCount
<1>5. Tally(c, id)
  BY <1>2, <1>3, <1>4 DEF Tally
<1> QED
  BY <1>1, <1>5

\* What a step does to the balance, and to the rows.
LEMMA ClientTally ==
    ASSUME Sound, Accounted, store = Pgvector, NEW c \in Clients, Add(c) \/ Change(c)
    PROVE  /\ \A id \in Texts \ SharedDeletes : Tally(c, id)
           /\ \A t \in Texts : row[t] # Absent =>
                row'[t] # Absent \/ (RemoveRow(c) /\ t = Request(c).id)
<1>1. ASSUME RemoveRow(c)
      PROVE  /\ \A id \in Texts \ SharedDeletes : Tally(c, id)
             /\ \A t \in Texts : row[t] # Absent => row'[t] # Absent \/ t = Request(c).id
  <2>1. \A id \in Texts \ SharedDeletes : Request(c).id = id => row[id] # Absent
    BY <1>1 DEF Accounted, RemoveRow
  <2>2. \A id \in Texts \ SharedDeletes : Tally(c, id)
    BY <1>1, <2>1, RemoveTally
  <2>3. row' = [row EXCEPT ![Request(c).id] = Absent] /\ row \in [Texts -> Rows \cup {Absent}]
    BY <1>1 DEF RemoveRow, Sound, Shape, TypeOK
  <2> QED
    BY <2>2, <2>3
<1>2. ASSUME LogMessage(c) \/ RecordFacts(c) \/ NoteUpdate(c) \/ NoteDelete(c)
      PROVE  row' = row /\ \A id \in Texts : Tally(c, id)
  <2>1. row' = row
    BY <1>2 DEF LogMessage, RecordFacts, NoteUpdate, NoteDelete
  <2> QED
    BY <1>2, <2>1, NotesTally
<1>3. ASSUME \/ SelectMessages(c) \/ ExamineMessage(c) \/ FailMessage(c) \/ EndMessages(c)
             \/ EndAdd(c) \/ Recheck(c) \/ SelectFacts(c) \/ SelectNothing(c) \/ ReadForUpdate(c)
             \/ StoreUpdate(c) \/ ReadForDelete(c)
             \/ InsertMessage(c) \/ InsertBatch(c) \/ InsertSingle(c)
      PROVE  /\ \A id \in Texts : Tally(c, id)
             /\ \A t \in Texts : row[t] # Absent => row'[t] # Absent
  BY <1>3, QuietSteps, InsertMessageTally, InsertBatchTally, InsertSingleTally
<1> QED
  BY <1>1, <1>2, <1>3 DEF Add, Change

\* A client about to remove a row has found it, and nobody else removes it.
LEMMA FoundStays ==
    ASSUME Sound, Accounted, store = Pgvector, NEW c \in Clients, Add(c) \/ Change(c),
           NEW d \in Clients, pc'[d] = "remove", Request(d)'.id \notin SharedDeletes
    PROVE  row'[Request(d)'.id] # Absent
<1>1. Others(c)
  BY ClientOthers
<1>2. CASE d = c
  <2>1. pc \in [Clients -> Steps]
    BY DEF Sound, Shape, TypeOK
  <2>2. ReadForDelete(c)
    <3>1. ASSUME \/ SelectMessages(c) \/ FailMessage(c) \/ EndMessages(c) \/ SelectFacts(c)
                 \/ SelectNothing(c) \/ EndAdd(c) \/ RemoveRow(c)
          PROVE  pc'[c] # "remove"
      BY <2>1, <3>1 DEF SelectMessages, FailMessage, EndMessages, SelectFacts, SelectNothing, EndAdd,
         RemoveRow, GiveUp
    <3>2. ASSUME ExamineMessage(c) PROVE pc'[c] # "remove"
      <4>1. pc[c] = "raw" /\ (pc' = pc \/ pc' = [pc EXCEPT ![c] = "insert"])
        BY <3>2 DEF ExamineMessage
      <4> QED
        BY <2>1, <4>1
    <3>3. ASSUME InsertMessage(c) \/ Recheck(c) \/ LogMessage(c) PROVE pc'[c] # "remove"
      BY <2>1, <3>3 DEF InsertMessage, Recheck, LogMessage
    <3>4. ASSUME InsertBatch(c) \/ InsertSingle(c) \/ RecordFacts(c) PROVE pc'[c] # "remove"
      BY <2>1, <3>4 DEF InsertBatch, InsertSingle, RecordFacts
    <3>5. ASSUME ReadForUpdate(c) \/ StoreUpdate(c) \/ NoteUpdate(c) \/ NoteDelete(c)
          PROVE  pc'[c] # "remove"
      <4>1. \/ pc' = [pc EXCEPT ![c] = "write"] \/ pc' = [pc EXCEPT ![c] = "note"]
            \/ pc' = [pc EXCEPT ![c] = "idle"]
        BY <3>5 DEF ReadForUpdate, StoreUpdate, NoteUpdate, NoteDelete, Ended
      <4> QED
        BY <2>1, <4>1
    <3> QED
      BY <1>2, <3>1, <3>2, <3>3, <3>4, <3>5 DEF Add, Change
  <2>3. pc'[c] # "idle"
    BY <1>2
  <2>4. row[Request(c).id] # Absent /\ pos' = pos /\ row' = row
    BY <2>1, <2>2, <2>3 DEF ReadForDelete, Ended
  <2> QED
    BY <1>2, <2>4 DEF Request
<1>3. CASE d # c
  <2>1. /\ pc[d] = "remove" /\ Request(d)' = Request(d) /\ row[Request(d).id] # Absent
        /\ Request(d).op = "delete" /\ Request(d).id \in Texts \ SharedDeletes
        /\ pos[d] \in 1..Len(Requests[d])
    BY <1>1, <1>3 DEF Others, Request, Accounted, Sound, Shape, Calls, IdCalls
  <2>2. ASSUME RemoveRow(c) PROVE Request(c).id # Request(d).id
    <3>1. Request(c).op = "delete" /\ pos[c] \in 1..Len(Requests[c])
      BY <2>2 DEF RemoveRow, Sound, Shape, Calls
    <3>2. pos[c] \in DOMAIN Requests[c] /\ pos[d] \in DOMAIN Requests[d]
      BY <2>1, <3>1, EngineAssumption
    <3> QED
      BY <1>3, <2>1, <3>1, <3>2 DEF SharedDeletes, Request
  <2> QED
    BY <2>1, <2>2, ClientTally
<1> QED
  BY <1>2, <1>3

LEMMA ClientAccounts ==
    ASSUME Sound, Accounted, NEW c \in Clients, Add(c) \/ Change(c)
    PROVE  Accounted'
<1>1. store' = store /\ Sound' /\ Others(c)
  BY ClientKeeps, ClientSound, ClientOthers
<1>2. SUFFICES ASSUME store = Pgvector
               PROVE  /\ \A id \in Texts \ SharedDeletes : AddsOf(id)' = DeletesOf(id)' + There(row', id)
                      /\ \A d \in Clients : pc'[d] = "remove" /\ Request(d)'.id \notin SharedDeletes =>
                           row'[Request(d)'.id] # Absent
  BY <1>1 DEF Accounted
<1>3. ASSUME NEW id \in Texts \ SharedDeletes PROVE AddsOf(id)' = DeletesOf(id)' + There(row', id)
  <2>1. AddsOf(id) = DeletesOf(id) + There(row, id)
    BY <1>2 DEF Accounted
  <2>2. Tally(c, id)
    BY <1>2, ClientTally
  <2> QED
    BY <1>1, <2>1, <2>2, Balanced
<1> QED
  BY <1>2, <1>3, FoundStays

\* The script changes vectors, never which memories there are.
LEMMA ScriptRows ==
    ASSUME Sound, Kept, Script
    PROVE  UNCHANGED scriptOnly /\ \A t \in Texts : row'[t] = Absent <=> row[t] = Absent
<1>1. ASSUME Restore PROVE \A t \in Texts : row'[t] = Absent <=> row[t] = Absent
  BY <1>1, RestoreSound DEF Kept
<1> QED
  BY <1>1, UpdateVectorsSound
     DEF Script, StartScript, Scan, UpdateVectors, Crash, StartRollback, Restore

LEMMA ScriptAccounts ==
    ASSUME Sound, Kept, Accounted, Script PROVE Accounted'
<1>1. /\ UNCHANGED <<store, hist, pc, pos, cur, saved>>
      /\ \A t \in Texts : row'[t] = Absent <=> row[t] = Absent
  BY ScriptRows DEF scriptOnly, clientVars
<1>2. \A c \in Clients : Request(c)' = Request(c)
  BY <1>1 DEF Request
<1>3. SUFFICES ASSUME store = Pgvector
               PROVE  /\ \A id \in Texts \ SharedDeletes : AddsOf(id)' = DeletesOf(id)' + There(row', id)
                      /\ \A c \in Clients : pc'[c] = "remove" /\ Request(c)'.id \notin SharedDeletes =>
                           row'[Request(c)'.id] # Absent
  BY <1>1 DEF Accounted
<1>4. ASSUME NEW id \in Texts \ SharedDeletes PROVE AddsOf(id)' = DeletesOf(id)' + There(row', id)
  <2>1. /\ Noted("ADD", id)' = Noted("ADD", id) /\ Noted("DELETE", id)' = Noted("DELETE", id)
        /\ There(row', id) = There(row, id)
    BY <1>1 DEF Noted, NotedIn, There
  <2>2. Adding(id)' = Adding(id) /\ Deleting(id)' = Deleting(id)
    BY <1>1, <1>2 DEF Adding, Deleting
  <2>3. AddsOf(id)' = AddsOf(id) /\ DeletesOf(id)' = DeletesOf(id)
    BY <2>1, <2>2 DEF AddsOf, DeletesOf, Member
  <2> QED
    BY <1>3, <2>1, <2>3 DEF Accounted
<1>5. \A c \in Clients : pc[c] = "remove" => Request(c).id \in Texts
  BY DEF Sound, Shape, Calls, IdCalls
<1> QED
  BY <1>1, <1>2, <1>3, <1>4, <1>5 DEF Accounted

LEMMA InitAccounts == ASSUME Init PROVE Accounted
<1>1. \A c \in Clients : pc[c] = "idle" /\ saved[c] = {}
  BY DEF Init
<1>2. ASSUME NEW id \in Texts PROVE AddsOf(id) = DeletesOf(id) + There(row, id)
  <2>1. Noted("ADD", id) = {} /\ Noted("DELETE", id) = {}
    BY DEF Init, Noted, NotedIn
  <2>2. Adding(id) = {} /\ Deleting(id) = {}
    BY <1>1 DEF Adding, Deleting
  <2>3. Cardinality({}) = 0
    BY FS_EmptySet
  <2>4. /\ Cardinality(Noted("ADD", id)) = 0 /\ Cardinality(Noted("DELETE", id)) = 0
        /\ Cardinality(Adding(id)) = 0 /\ Cardinality(Deleting(id)) = 0
    BY <2>1, <2>2, <2>3, Zenon
  <2>5. row[id] # Absent <=> id \in Seeded
    <3>1. NewRow(id, [of |-> id, by |-> "old"]) # Absent
      BY NewRowTyped, EngineAssumption DEF Vectors
    <3> QED
      BY <3>1 DEF Init
  <2> QED
    BY <2>4, <2>5 DEF AddsOf, DeletesOf, Member, There
<1> QED
  BY <1>1, <1>2 DEF Accounted

\* HistoryAccounts: with pgvector the adds and deletes of a memory that no two clients delete account
\* for its row, those whose history could not be written included: the row is there exactly if the
\* memory was added once more than deleted.
THEOREM HistoryAccountsThm == Spec => []HistoryAccounts
<1>1. Init => Accounted
  BY InitAccounts
<1>2. Sound /\ Kept /\ Accounted /\ [Next]_vars => Accounted'
  <2> SUFFICES ASSUME Sound, Kept, Accounted, [Next]_vars PROVE Accounted'
    OBVIOUS
  <2>1. CASE UNCHANGED vars
    BY <2>1 DEF vars, clientVars, Accounted, AddsOf, DeletesOf, Noted, NotedIn, Adding, Deleting,
       Request, There, Member
  <2>2. ASSUME NEW c \in Clients, Add(c) \/ Change(c) PROVE Accounted'
    BY <2>2, ClientAccounts
  <2>3. CASE Script
    BY <2>3, ScriptAccounts
  <2> QED
    BY <2>1, <2>2, <2>3 DEF Next
<1>3. Sound /\ Accounted => HistoryAccounts
  <2> SUFFICES ASSUME Sound, Accounted, store = Pgvector, NEW id \in Texts \ SharedDeletes
               PROVE  row[id] # Absent <=> Adds(id, Procs) = Deletes(id) + 1
    BY DEF HistoryAccounts
  <2>1. Adds(id, Procs) = AddsOf(id) /\ Deletes(id) = DeletesOf(id)
    BY Parts, StateTyped
  <2>2. AddsOf(id) = DeletesOf(id) + There(row, id)
    BY DEF Accounted
  <2>3. DeletesOf(id) \in Nat
    <3>1. Deleting(id) \in SUBSET Clients
      BY DEF Deleting
    <3>2. Cardinality(Deleting(id)) \in Nat
      BY <3>1, EngineAssumption, FS_Subset, FS_CardinalityType
    <3> QED
      BY <3>2, NotedCount DEF DeletesOf
  <2> QED
    BY <2>1, <2>2, <2>3 DEF There
<1> QED
  BY <1>1, <1>2, <1>3, InitSound, NextSound, PTL DEF Spec
=============================================================================
