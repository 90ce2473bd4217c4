---------------------------- MODULE ServiceWiring -----------------------------
(***************************************************************************)
(* What a process reads of its environment and the object graph it builds  *)
(* of it: the five settings loaders and the builders that turn clients and *)
(* settings into the two services published on the application.            *)
(*                                                                         *)
(* An environment is a record of raw variables.  A variable is Unset,      *)
(* Blank (empty or white space) or a value; text values stand for their    *)
(* stripped form, numbers for their parsed form.                           *)
(***************************************************************************)
EXTENDS Integers

CONSTANTS Unset, Blank,   \* raw variables without a value
          Invalid,        \* a loader's ValidationError
          None            \* Python's None

DefaultPort == 6333
DefaultTimeout == 5
Distances == {"cosine", "dot", "euclid", "manhattan"}
Layers == {"regulatory", "index"}

GivenText(raw) == raw \notin {Unset, Blank}
Positive(raw) == GivenText(raw) /\ raw > 0
OrDefault(raw, default) == IF raw = Unset THEN default ELSE raw

-----------------------------------------------------------------------------
(* The loaders: a settings record, or Invalid.                             *)

LoadOpenAISettings(env) ==
  IF GivenText(env.openai_api_key) THEN [api_key |-> env.openai_api_key] ELSE Invalid

LoadQdrantSettings(env) ==
  LET port    == OrDefault(env.qdrant_port, DefaultPort)
      timeout == OrDefault(env.qdrant_timeout_seconds, DefaultTimeout)
  IN  IF GivenText(env.qdrant_host) /\ Positive(port) /\ port <= 65535 /\ Positive(timeout)
      THEN [host    |-> env.qdrant_host, port |-> port, timeout |-> timeout,
            api_key |-> IF GivenText(env.qdrant_api_key) THEN env.qdrant_api_key ELSE None]
      ELSE Invalid

LoadQdrantDocumentVectorDistanceSettings(env) ==
  IF GivenText(env.document_vector_distance) /\ env.document_vector_distance \in Distances
  THEN [document_vector_distance |-> env.document_vector_distance]
  ELSE Invalid

LoadRegulatoryIntelligenceRuntimeSettings(env) ==
  IF /\ GivenText(env.query_embedding_model) /\ GivenText(env.constraint_inference_model)
     /\ GivenText(env.regulatory_collection_name) /\ Positive(env.regulatory_vector_size)
  THEN [query_embedding_model      |-> env.query_embedding_model,
        constraint_inference_model |-> env.constraint_inference_model,
        qdrant_collection_name     |-> env.regulatory_collection_name,
        qdrant_vector_size         |-> env.regulatory_vector_size]
  ELSE Invalid

LoadDocumentVectorIndexRuntimeSettings(env) ==
  IF /\ GivenText(env.document_embedding_model)
     /\ GivenText(env.index_collection_name) /\ Positive(env.index_vector_size)
  THEN [document_embedding_model |-> env.document_embedding_model,
        qdrant_collection_name   |-> env.index_collection_name,
        qdrant_vector_size       |-> env.index_vector_size]
  ELSE Invalid

\* All loaders of a layer run before any client is made.
LoadedRegulatorySettings(env) ==
  [openai   |-> LoadOpenAISettings(env), qdrant |-> LoadQdrantSettings(env),
   runtime  |-> LoadRegulatoryIntelligenceRuntimeSettings(env),
   distance |-> LoadQdrantDocumentVectorDistanceSettings(env)]

LoadedIndexSettings(env) ==
  [openai   |-> LoadOpenAISettings(env), qdrant |-> LoadQdrantSettings(env),
   runtime  |-> LoadDocumentVectorIndexRuntimeSettings(env),
   distance |-> LoadQdrantDocumentVectorDistanceSettings(env)]

LoadedSettings(env, layer) ==
  IF layer = "regulatory" THEN LoadedRegulatorySettings(env) ELSE LoadedIndexSettings(env)

SettingsValid(settings) ==
  Invalid \notin {settings.openai, settings.qdrant, settings.runtime, settings.distance}

-----------------------------------------------------------------------------
(* Clients: made without connecting.  The Qdrant SDK distance of a         *)
(* configured metric keeps its name.                                       *)

CreateOpenAIClient(layer, settings) == [kind |-> "openai", layer |-> layer]

CreateQdrantClient(layer, settings) == [kind |-> "qdrant", layer |-> layer]

QdrantDistance == [d \in Distances |->
  CASE d = "cosine" -> "Cosine" [] d = "dot" -> "Dot"
    [] d = "euclid" -> "Euclid" [] d = "manhattan" -> "Manhattan"]

\* The collection and vector parameters a layer verifies or ensures.
ConfiguredRegulatoryCollection(settings) ==
  [name   |-> settings.runtime.qdrant_collection_name,
   params |-> [size     |-> settings.runtime.qdrant_vector_size,
               distance |-> QdrantDistance[settings.distance.document_vector_distance]]]

ConfiguredIndexCollection(settings) ==
  [name   |-> settings.runtime.qdrant_collection_name,
   params |-> [size     |-> settings.runtime.qdrant_vector_size,
               distance |-> QdrantDistance[settings.distance.document_vector_distance]]]

ConfiguredCollection(settings, layer) ==
  IF layer = "regulatory" THEN ConfiguredRegulatoryCollection(settings)
  ELSE ConfiguredIndexCollection(settings)

-----------------------------------------------------------------------------
(* The builders of the regulatory query service.                           *)

BuildRegulatoryQueryExecution(embedding, search, inference) ==
  [layer |-> "regulatory", embedding |-> embedding, vectors |-> search, inference |-> inference]

BuildRegulatoryProviderRuntime(openai, qdrant, config, queryModel, inferenceModel) ==
  BuildRegulatoryQueryExecution(
    [client |-> openai, model |-> queryModel],
    [client |-> qdrant, collection |-> config.collection_name, size |-> config.vector_size],
    [client |-> openai, model |-> inferenceModel])

\* mutant: the two model strings cross on their way down
BuildRegulatoryRuntimeCrossed(openai, qdrant, settings) ==
  BuildRegulatoryProviderRuntime(openai, qdrant,
    [collection_name |-> settings.qdrant_collection_name,
     vector_size     |-> settings.qdrant_vector_size],
    settings.constraint_inference_model, settings.query_embedding_model)

BuildRegulatoryConfiguredRuntime(openai, qdrant, settings) ==
  BuildRegulatoryProviderRuntime(openai, qdrant,
    [collection_name |-> settings.qdrant_collection_name,
     vector_size     |-> settings.qdrant_vector_size],
    settings.query_embedding_model, settings.constraint_inference_model)

(* The builders of the document index service.                             *)

BuildDocumentVectorIndexExecution(embedding, index) ==
  [layer |-> "index", embedding |-> embedding, vectors |-> index, inference |-> None]

BuildDocumentVectorIndexProviderRuntime(openai, qdrant, config, model) ==
  BuildDocumentVectorIndexExecution(
    [client |-> openai, model |-> model],
    [client |-> qdrant, collection |-> config.collection_name, size |-> config.vector_size])

BuildDocumentVectorIndexConfiguredRuntime(openai, qdrant, settings) ==
  BuildDocumentVectorIndexProviderRuntime(openai, qdrant,
    [collection_name |-> settings.qdrant_collection_name,
     vector_size     |-> settings.qdrant_vector_size],
    settings.document_embedding_model)

\* The service a layer publishes, wired to that layer's own clients.
BuildService(layer, settings) ==
  LET openai == CreateOpenAIClient(layer, settings.openai)
      qdrant == CreateQdrantClient(layer, settings.qdrant)
  IN  IF layer = "regulatory"
      THEN BuildRegulatoryConfiguredRuntime(openai, qdrant, settings.runtime)
      ELSE BuildDocumentVectorIndexConfiguredRuntime(openai, qdrant, settings.runtime)

=============================================================================
