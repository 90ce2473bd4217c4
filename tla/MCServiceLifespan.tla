-------------------------- MODULE MCServiceLifespan ---------------------------
(* Two processes, two collections, two dimensions.                         *)
EXTENDS ServiceLifespan

CONSTANTS p1, p2

MCNames == {"docs", "regs"}

\* An environment with everything in order: both layers on one collection.
Shared ==
  [openai_api_key |-> "key", qdrant_host |-> "host", qdrant_port |-> Unset,
   qdrant_timeout_seconds |-> Unset, qdrant_api_key |-> Blank,
   document_vector_distance |-> "cosine",
   query_embedding_model |-> "embed", constraint_inference_model |-> "infer",
   regulatory_collection_name |-> "docs", regulatory_vector_size |-> 1,
   document_embedding_model |-> "embed", index_collection_name |-> "docs",
   index_vector_size |-> 1]

\* Two collections; the index side was moved to a larger model by the second.
Separate == [Shared EXCEPT !.regulatory_collection_name = "regs"]
Upgraded == [Separate EXCEPT !.index_vector_size = 2, !.qdrant_port = 6334]
OtherMetric == [Separate EXCEPT !.document_vector_distance = "dot"]

\* Settings that fail in the outer layer, and one that fails in the inner only.
Broken ==
  {[Shared EXCEPT !.openai_api_key = Blank], [Shared EXCEPT !.qdrant_port = 65536],
   [Separate EXCEPT !.index_vector_size = 0]}

Cosine(n) == [size |-> n, distance |-> "Cosine"]

MCDeployments ==
  {[app |-> "production", env |-> e] : e \in {Shared, Separate, Upgraded, OtherMetric} \union Broken}
    \union {[app |-> "custom", env |-> Separate]}
MCStores ==
  {[docs |-> d, regs |-> r] : d \in {Absent, NamedVectors, Cosine(1)}, r \in {Absent, Cosine(1)}}
=============================================================================
