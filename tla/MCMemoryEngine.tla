--------------------------- MODULE MCMemoryEngine ---------------------------
(* Instances of MemoryEngine.                                                                    *)
EXTENDS MemoryEngine, TLC

CONSTANTS a, b, c1, c2, c3, p1, p2

MCStores == {Pgvector, Qdrant, AzureMysql, AzureAiSearch, Cassandra, Chroma, Elasticsearch,
             Mongodb, Pinecone, Redis, S3Vectors, Turbopuffer}
MCPgvector == {Pgvector}

Raw(ts) == [op |-> "raw", texts |-> ts, facts |-> {}]
Infer(ts) == [op |-> "infer", texts |-> {b}, facts |-> ts]
Update(id, t) == [op |-> "update", id |-> id, text |-> t]
Meta(id) == [op |-> "meta", id |-> id, text |-> id]
Delete(id) == [op |-> "delete", id |-> id, text |-> id]

\* Two calls that add the same text, in one process; c3 meets them from another.
MCRequests == (c1 :> <<Raw({a})>>) @@ (c2 :> <<Raw({a})>>)
                @@ (c3 :> <<Update(b, a), Infer({a, b}), Delete(a)>>)
Symmetry == Permutations({c1, c2})

MCMetaRequests == (c1 :> <<Raw({a})>>) @@ (c2 :> <<Raw({a}), Delete(a)>>)
                    @@ (c3 :> <<Update(b, a), Meta(b), Infer({a, b})>>)

MCRank == (a :> 1) @@ (b :> 2)

MCProc == (c1 :> p1) @@ (c2 :> p1) @@ (c3 :> p2)
=============================================================================
