---------------------------- MODULE VectorStores ---------------------------
(* What the memory engine can see of a vector store: what an insert does with an id that is      *)
(* there already, what an update does with an id that is not, whether an update without a vector *)
(* keeps the stored one, and whether a read that fails looks like a row that is not there.  One  *)
(* profile for every backend whose calls decide it.                                              *)

Insertions == {"raise", "replace", "keep"}      \* on an id that exists
Misses == {"ignore", "create", "raise"}         \* on an id that does not

Profiles == [existing : Insertions,
             textOnMissing : Misses,            \* update with a vector (or a pending text)
             metaOnMissing : Misses,            \* update of the payload alone
             keepsVector : BOOLEAN,             \* FALSE: the store refuses an update without a vector
             hidesFailures : BOOLEAN,           \* a read of an id that fails is logged and finds nothing
             lexical : BOOLEAN]                 \* supports_lexical_only_records

InsertPgvector == "raise"
\* A row of SQL: a second insert violates the primary key, an update matches no row.
Pgvector == [existing |-> InsertPgvector, textOnMissing |-> "ignore", metaOnMissing |-> "ignore",
             keepsVector |-> TRUE, hidesFailures |-> FALSE, lexical |-> TRUE]

InsertQdrant == "replace"
\* Points are upserted; a payload alone is set on the points that exist.
Qdrant == [existing |-> InsertQdrant, textOnMissing |-> "create", metaOnMissing |-> "ignore",
           keepsVector |-> TRUE, hidesFailures |-> FALSE, lexical |-> TRUE]

InsertAzureMysql == "replace"
\* INSERT ... ON DUPLICATE KEY UPDATE, and UPDATE ... WHERE id.
AzureMysql == [existing |-> InsertAzureMysql, textOnMissing |-> "ignore", metaOnMissing |-> "ignore",
               keepsVector |-> TRUE, hidesFailures |-> FALSE, lexical |-> FALSE]

InsertAzureAiSearch == "replace"
\* upload_documents and merge_or_upload_documents.
AzureAiSearch == [existing |-> InsertAzureAiSearch, textOnMissing |-> "create", metaOnMissing |-> "create",
                  keepsVector |-> TRUE, hidesFailures |-> FALSE, lexical |-> FALSE]

InsertCassandra == "replace"
\* CQL has no insert that is not an upsert, and no other update.
Cassandra == [existing |-> InsertCassandra, textOnMissing |-> "create", metaOnMissing |-> "create",
              keepsVector |-> TRUE, hidesFailures |-> TRUE, lexical |-> FALSE]

InsertChroma == "keep"
\* collection.add leaves an id alone that it has; collection.update, one that it has not.
Chroma == [existing |-> InsertChroma, textOnMissing |-> "ignore", metaOnMissing |-> "ignore",
           keepsVector |-> TRUE, hidesFailures |-> FALSE, lexical |-> FALSE]

InsertElasticsearch == "replace"
\* The bulk index call overwrites; the update call fails on a missing document.
Elasticsearch == [existing |-> InsertElasticsearch, textOnMissing |-> "raise", metaOnMissing |-> "raise",
                  keepsVector |-> TRUE, hidesFailures |-> TRUE, lexical |-> FALSE]

InsertMongodb == "keep"
\* insert_many fails on a duplicate key, and the failure is logged and swallowed.
Mongodb == [existing |-> InsertMongodb, textOnMissing |-> "ignore", metaOnMissing |-> "ignore",
            keepsVector |-> TRUE, hidesFailures |-> TRUE, lexical |-> FALSE]

InsertPinecone == "replace"
\* Upserts; a record without values is refused.
Pinecone == [existing |-> InsertPinecone, textOnMissing |-> "create", metaOnMissing |-> "raise",
             keepsVector |-> FALSE, hidesFailures |-> TRUE, lexical |-> FALSE]

InsertRedis == "replace"
\* A hash is written field by field, whether it exists or not.
Redis == [existing |-> InsertRedis, textOnMissing |-> "create", metaOnMissing |-> "create",
          keepsVector |-> TRUE, hidesFailures |-> FALSE, lexical |-> FALSE]

InsertS3Vectors == "replace"
\* put_vectors overwrites; without a vector the stored one is fetched, and the update skipped if
\* there is none.
S3Vectors == [existing |-> InsertS3Vectors, textOnMissing |-> "create", metaOnMissing |-> "ignore",
              keepsVector |-> TRUE, hidesFailures |-> FALSE, lexical |-> FALSE]

InsertTurbopuffer == "replace"
\* upsert_rows with a vector, patch_rows without.
Turbopuffer == [existing |-> InsertTurbopuffer, textOnMissing |-> "create", metaOnMissing |-> "ignore",
                keepsVector |-> TRUE, hidesFailures |-> TRUE, lexical |-> FALSE]
=============================================================================
