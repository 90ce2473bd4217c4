------------------------ MODULE DocumentPipelineProofs ------------------------
(***************************************************************************)
(* For any number of jobs, queries, documents, files, requests and answers *)
(* of the providers: what is indexed is what was extracted, and what is    *)
(* inferred rests on what was found.  The last section is about the index  *)
(* the entries go to, which has constants and variables of its own.        *)
(***************************************************************************)
EXTENDS DocumentPipeline, DocumentVectorIndex, FiniteSetTheorems, TLAPS

-----------------------------------------------------------------------------
(* Extraction                                                              *)

\* The chunks of a PDF are those of its pages with text.
LEMMA ChunksAreThePages ==
  ASSUME NEW document, NEW pages, IsTuple(pages)
  PROVE  LET chunks == PdfChunks(document, pages)
             text == {n \in DOMAIN pages : pages[n] # Blank}
         IN  /\ IsTuple(chunks)
             /\ {chunks[k].page_number : k \in DOMAIN chunks} = text
<1> DEFINE text == {n \in DOMAIN pages : pages[n] # Blank}
           kept == InOrder(text)
           chunks == PdfChunks(document, pages)
<1>1. text \subseteq Int /\ IsFiniteSet(text)
  <2>1. text \in SUBSET (1 .. Len(pages)) /\ Len(pages) \in Int
    BY DEF IsTuple
  <2>2. IsFiniteSet(1 .. Len(pages))
    BY <2>1, FS_Interval
  <2> QED BY <2>1, <2>2, FS_Subset
<1>2. /\ Cardinality(text) \in Nat
      /\ kept \in [1 .. Cardinality(text) -> text]
      /\ {kept[k] : k \in DOMAIN kept} = text
  <2> HIDE DEF text
  <2> QED BY <1>1, InOrderEnumerates
<1>3. DOMAIN kept = 1 .. Cardinality(text)
  BY <1>2
<1>4. chunks = [k \in DOMAIN kept |->
        [document_id |-> document, chunk_id |-> PdfChunkId(document, kept[k]),
         ordinal |-> k - 1, text |-> pages[kept[k]], page_number |-> kept[k]]]
  BY DEF PdfChunks
<1> HIDE DEF kept, text, chunks
<1>5. DOMAIN chunks = 1 .. Cardinality(text) /\ \A k \in DOMAIN chunks : chunks[k].page_number = kept[k]
  BY <1>3, <1>4
<1>6. Len(chunks) = Cardinality(text)
  BY <1>2, <1>5, <1>4
<1>7. IsTuple(chunks)
  BY <1>2, <1>3, <1>4, <1>6 DEF IsTuple
<1>8. {chunks[k].page_number : k \in DOMAIN chunks} = text
  BY <1>2, <1>3, <1>5
<1> QED BY <1>7, <1>8 DEF text, chunks

-----------------------------------------------------------------------------
(* Embedding                                                               *)

\* A vector of the text, whatever its dimension and its floats.
EmbedsText(vector, text, v) ==
  vector \in [of : {text}, variant : {v}, dim : {VectorSize, VectorSize + 1}, finite : BOOLEAN]

\* The position among the texts that an item of an answer claims.
Placed(data, k) == IF data[k].index = None THEN k - 1 ELSE data[k].index
Claimed(data, k) == IF data[k].index = None THEN k ELSE data[k].index + 1

\* Every item embeds the text it claims to embed, if it embeds one.
Truthful(data, texts, v) ==
  /\ DOMAIN data \subseteq Int
  /\ \A k \in DOMAIN data :
       Claimed(data, k) \in DOMAIN texts =>
         data[k].vector = None \/ EmbedsText(data[k].vector, texts[Claimed(data, k)], v)

\* Right or wrong, the provider's answers are truthful about the texts.
LEMMA AnswersAreTruthful ==
  ASSUME NEW texts, IsTuple(texts), Len(texts) >= 1, NEW v,
         NEW data \in GoodAnswers(texts, v) \union WrongAnswers(texts, v)
  PROVE  Truthful(data, texts, v)
<1> DEFINE n == Len(texts)
           good == [k \in 1 .. n |-> [index |-> k - 1, vector |-> Vector(texts[k], v)]]
<1>0. n \in Nat /\ DOMAIN texts = 1 .. n /\ n >= 1
  BY DEF IsTuple
<1>i. None \notin Int
  BY PipelineAssumption
<1>v. \A k \in 1 .. n : EmbedsText(Vector(texts[k], v), texts[k], v)
  BY DEF EmbedsText, Vector
<1>1. ASSUME NEW order \in [1 .. n -> 1 .. n],
             data = [k \in 1 .. n |-> [index |-> order[k] - 1, vector |-> Vector(texts[order[k]], v)]]
      PROVE  Truthful(data, texts, v)
  <2>1. \A k \in 1 .. n : /\ data[k].index = order[k] - 1 /\ order[k] - 1 \in Int
                          /\ order[k] \in 1 .. n /\ data[k].vector = Vector(texts[order[k]], v)
    BY <1>1, <1>0
  <2>2. DOMAIN data = 1 .. n
    BY <1>1, <1>0
  <2>3. ASSUME NEW k \in 1 .. n PROVE Claimed(data, k) = order[k]
    <3>1. order[k] \in Int /\ data[k].index = order[k] - 1 /\ data[k].index \in Int
      <4>1. order[k] \in 1 .. n
        OBVIOUS
      <4>2. order[k] \in Int
        BY <4>1
      <4> QED BY <2>1, <4>2
    <3>2. data[k].index # None
      BY <3>1, <1>i
    <3> QED BY <3>1, <3>2 DEF Claimed
  <2>4. \A k \in 1 .. n : EmbedsText(data[k].vector, texts[Claimed(data, k)], v)
    BY <2>1, <2>3, <1>v
  <2> QED BY <2>2, <2>4, <1>0 DEF Truthful
<1>2. ASSUME data = [k \in 1 .. n |-> [index |-> None, vector |-> Vector(texts[k], v)]]
      PROVE  Truthful(data, texts, v)
  <2>1. \A k \in 1 .. n : Claimed(data, k) = k /\ data[k].vector = Vector(texts[k], v)
    BY <1>2 DEF Claimed
  <2>2. DOMAIN data = 1 .. n
    BY <1>2, <1>0
  <2> QED BY <2>1, <2>2, <1>0, <1>v DEF Truthful
<1>3. ASSUME data = Tail(good)
      PROVE  Truthful(data, texts, v)
  <2> DEFINE T == {good[k] : k \in 1 .. n}
  <2>0. \A k \in 1 .. n : good[k] \in T
    OBVIOUS
  <2>1. good \in Seq(T) /\ Len(good) = n /\ good # <<>>
    <3> HIDE DEF T
    <3> QED BY <1>0, <2>0
  <2>2. DOMAIN data = 1 .. n - 1 /\ Len(data) = n - 1 /\ \A k \in 1 .. n - 1 : data[k] = good[k + 1]
    <3> HIDE DEF T, good
    <3> QED BY <1>3, <2>1, <1>0
  <2>3. ASSUME NEW k \in 1 .. n - 1
        PROVE  data[k].index = k /\ data[k].vector = Vector(texts[k + 1], v)
    <3>1. k + 1 \in 1 .. n /\ (k + 1) - 1 = k
      BY <1>0
    <3>2. good[k + 1] = [index |-> (k + 1) - 1, vector |-> Vector(texts[k + 1], v)]
      BY <3>1
    <3> HIDE DEF good
    <3> QED BY <3>1, <3>2, <2>2
  <2>4. ASSUME NEW k \in 1 .. n - 1 PROVE Claimed(data, k) = k + 1 /\ k + 1 \in 1 .. n
    <3>1. k \in Int /\ k # None
      BY <1>i
    <3> QED BY <3>1, <2>3, <1>0 DEF Claimed
  <2> QED BY <2>2, <2>3, <2>4, <1>0, <1>v DEF Truthful
<1>4. ASSUME DOMAIN data = 1 .. n,
             \A k \in 1 .. n :
               \/ data[k].index = n
               \/ data[k].index = k - 1
                  /\ (data[k].vector = None \/ EmbedsText(data[k].vector, texts[k], v))
      PROVE  Truthful(data, texts, v)
  <2>1. \A k \in 1 .. n : data[k].index = k - 1 => Claimed(data, k) = k
    BY <1>i, <1>0 DEF Claimed
  <2>2. \A k \in 1 .. n : data[k].index = n => Claimed(data, k) = n + 1
    BY <1>i, <1>0 DEF Claimed
  <2>3. n + 1 \notin 1 .. n
    BY <1>0
  <2> QED BY <1>4, <2>1, <2>2, <2>3, <1>0 DEF Truthful
<1>5. ASSUME data = [k \in 1 .. n |-> good[1]]
      PROVE  Truthful(data, texts, v)
  <2>1. /\ 1 \in 1 .. n /\ good[1].index = 0 /\ good[1].vector = Vector(texts[1], v)
    BY <1>0
  <2> HIDE DEF good
  <2>2. DOMAIN data = 1 .. n /\ \A k \in 1 .. n : data[k] = good[1]
    BY <1>5
  <2>3. \A k \in 1 .. n : Claimed(data, k) = 1 /\ data[k].vector = Vector(texts[1], v)
    BY <2>1, <2>2, <1>i DEF Claimed
  <2> QED BY <2>1, <2>2, <2>3, <1>0, <1>v DEF Truthful
<1>6. ASSUME data \in WrongAnswers(texts, v), data # Tail(good), data # [k \in 1 .. n |-> good[1]]
      PROVE  Truthful(data, texts, v)
  <2>1. \/ data = [good EXCEPT ![1].index = n]
        \/ data = [good EXCEPT ![1].vector = None]
        \/ data = [good EXCEPT ![n].vector.finite = FALSE]
        \/ data = [good EXCEPT ![1].vector.dim = VectorSize + 1]
        \/ data = [k \in 1 .. n |-> [good[k] EXCEPT !.vector.dim = VectorSize + 1]]
    BY <1>6 DEF WrongAnswers
  <2>2. /\ DOMAIN good = 1 .. n /\ 1 \in 1 .. n /\ n \in 1 .. n
        /\ \A k \in 1 .. n : good[k] = [index |-> k - 1, vector |->
              [of |-> texts[k], variant |-> v, dim |-> VectorSize, finite |-> TRUE]]
    BY <1>0 DEF Vector
  <2> HIDE DEF good
  <2>3. DOMAIN data = 1 .. n
    BY <2>1, <2>2
  <2>5. ASSUME NEW k \in 1 .. n
        PROVE  \/ data[k].index = n
               \/ data[k].index = k - 1
                  /\ (data[k].vector = None \/ EmbedsText(data[k].vector, texts[k], v))
    <3>1. \/ data[k] = good[k]
          \/ data[k] = [good[k] EXCEPT !.index = n]
          \/ data[k] = [good[k] EXCEPT !.vector = None]
          \/ data[k] = [good[k] EXCEPT !.vector.finite = FALSE]
          \/ data[k] = [good[k] EXCEPT !.vector.dim = VectorSize + 1]
      BY <2>1, <2>2
    <3> DEFINE whole == [of |-> texts[k], variant |-> v, dim |-> VectorSize, finite |-> TRUE]
    <3>2. good[k] = [index |-> k - 1, vector |-> whole]
      BY <2>2
    <3>3. CASE data[k] = good[k] \/ data[k] = [good[k] EXCEPT !.index = n]
      <4>1. EmbedsText(whole, texts[k], v)
        BY DEF EmbedsText
      <4> HIDE DEF whole
      <4> QED BY <3>2, <3>3, <4>1
    <3>4. CASE data[k] = [good[k] EXCEPT !.vector = None]
      BY <3>2, <3>4
    <3>5. CASE data[k] = [good[k] EXCEPT !.vector.finite = FALSE]
      <4>1. data[k].index = k - 1 /\ data[k].vector = [whole EXCEPT !.finite = FALSE]
        BY <3>2, <3>5
      <4>2. EmbedsText([whole EXCEPT !.finite = FALSE], texts[k], v)
        BY DEF EmbedsText
      <4> QED BY <4>1, <4>2
    <3>6. CASE data[k] = [good[k] EXCEPT !.vector.dim = VectorSize + 1]
      <4>1. data[k].index = k - 1 /\ data[k].vector = [whole EXCEPT !.dim = VectorSize + 1]
        BY <3>2, <3>6
      <4>2. EmbedsText([whole EXCEPT !.dim = VectorSize + 1], texts[k], v)
        BY DEF EmbedsText
      <4> QED BY <4>1, <4>2
    <3> QED BY <3>1, <3>3, <3>4, <3>5, <3>6
  <2> QED BY <2>3, <2>5, <1>4
<1>7. CASE data \in GoodAnswers(texts, v)
  BY <1>0, <1>1, <1>2, <1>7 DEF GoodAnswers
<1>8. CASE data \in WrongAnswers(texts, v)
  <2>1. data = Tail(good) => Truthful(data, texts, v)
    BY <1>3
  <2>2. data = [k \in 1 .. n |-> good[1]] => Truthful(data, texts, v)
    BY <1>5
  <2> HIDE DEF good
  <2>3. data # Tail(good) /\ data # [k \in 1 .. n |-> good[1]] => Truthful(data, texts, v)
    BY <1>6, <1>8
  <2> QED BY ONLY <2>1, <2>2, <2>3
<1> QED BY <1>7, <1>8

\* What an accepted answer adds to the chunks: each one with a vector of its own text.
EntryOf(chunk, entry, v) ==
  /\ entry \in [chunk : {chunk}, vector : {entry.vector}]
  /\ EmbedsText(entry.vector, chunk.text, v) /\ entry.vector.finite

\* Whatever the provider answers, an entry that is accepted is one of its own chunk.
LEMMA EntriesEmbedTheirChunks ==
  ASSUME NEW chunks, IsTuple(chunks), chunks # <<>>, NEW v, NEW texts,
         texts = [k \in DOMAIN chunks |-> chunks[k].text],
         NEW data \in GoodAnswers(texts, v) \union WrongAnswers(texts, v),
         NEW embeddings, embeddings = ToChunkEmbeddings(chunks, data), embeddings # Refused,
         NEW entries, entries = ToIndexEntries(chunks, embeddings), entries # Refused
  PROVE  /\ IsTuple(entries) /\ DOMAIN entries = DOMAIN chunks
         /\ \A k \in DOMAIN chunks : EntryOf(chunks[k], entries[k], v)
<1> DEFINE n == Len(chunks)
           items == OrderedProviderItems(data, n)
<1>0. n \in Nat /\ DOMAIN chunks = 1 .. n
  BY DEF IsTuple
<1>1. n >= 1
  <2> SUFFICES ASSUME n = 0 PROVE chunks = <<>>
    BY <1>0
  <2> QED BY DEF IsTuple
<1>2. IsTuple(texts) /\ Len(texts) = n /\ DOMAIN texts = 1 .. n
  BY <1>0 DEF IsTuple
<1>3. Truthful(data, texts, v)
  BY <1>1, <1>2, AnswersAreTruthful
<1>4. /\ items # Refused
      /\ \A k \in DOMAIN items : ValidVector(items[k].vector)
      /\ embeddings = [k \in DOMAIN items |->
             [document_id |-> chunks[k].document_id, chunk_id |-> chunks[k].chunk_id,
              vector |-> items[k].vector]]
  BY DEF ToChunkEmbeddings
<1>5. /\ {Placed(data, k) : k \in DOMAIN data} = 0 .. n - 1
      /\ items = [i \in 1 .. n |-> data[CHOOSE k \in DOMAIN data : Placed(data, k) = i - 1]]
  <2> DEFINE Index(k) == IF data[k].index = None THEN k - 1 ELSE data[k].index
  <2>1. /\ {Index(k) : k \in DOMAIN data} = 0 .. n - 1
        /\ items = [i \in 1 .. n |-> data[CHOOSE k \in DOMAIN data : Index(k) = i - 1]]
    BY <1>4 DEF OrderedProviderItems
  <2> QED BY <2>1 DEF Placed
<1>6. ASSUME NEW i \in 1 .. n
      PROVE  EmbedsText(items[i].vector, texts[i], v) /\ items[i].vector.finite
  <2> DEFINE k == CHOOSE k \in DOMAIN data : Placed(data, k) = i - 1
  <2>1. k \in DOMAIN data /\ Placed(data, k) = i - 1
    <3>1. i - 1 \in 0 .. n - 1
      BY <1>0
    <3>2. \E m \in DOMAIN data : Placed(data, m) = i - 1
      BY <3>1, <1>5
    <3> QED BY <3>2
  <2>2. items[i] = data[k] /\ i \in DOMAIN items
    BY <1>5
  <2> HIDE DEF k, items
  <2>3. Claimed(data, k) = i
    <3>1. CASE data[k].index = None
      <4>1. k \in Int /\ i \in Int /\ k - 1 = i - 1
        BY <2>1, <3>1, <1>3, <1>0 DEF Truthful, Placed
      <4> QED BY <4>1, <3>1 DEF Claimed
    <3>2. CASE data[k].index # None
      BY <2>1, <3>2 DEF Placed, Claimed
    <3> QED BY <3>1, <3>2
  <2>4. data[k].vector # None /\ data[k].vector.finite
    BY <2>2, <1>4 DEF ValidVector
  <2>5. Claimed(data, k) \in DOMAIN texts /\ texts[Claimed(data, k)] = texts[i]
    BY <2>3, <1>2
  <2>6. EmbedsText(data[k].vector, texts[i], v)
    BY <2>1, <2>4, <2>5, <1>3 DEF Truthful
  <2> QED BY <2>2, <2>4, <2>6
<1>7. /\ Len(embeddings) = Len(chunks)
      /\ entries = [k \in DOMAIN chunks |-> [chunk |-> chunks[k], vector |-> embeddings[k].vector]]
  BY DEF ToIndexEntries
<1>8. ASSUME NEW k \in 1 .. n PROVE EntryOf(chunks[k], entries[k], v)
  <2>1. DOMAIN items = 1 .. n
    BY <1>5
  <2>2. entries[k] = [chunk |-> chunks[k], vector |-> items[k].vector]
    <3> HIDE DEF items
    <3>1. entries[k] = [chunk |-> chunks[k], vector |-> embeddings[k].vector]
      BY <1>0, <1>7
    <3>2. embeddings[k].vector = items[k].vector
      BY <1>4, <2>1
    <3> QED BY <3>1, <3>2
  <2>3. texts[k] = chunks[k].text
    BY <1>0
  <2>4. entries[k].vector = items[k].vector
    BY <2>2
  <2>5. entries[k] \in [chunk : {chunks[k]}, vector : {entries[k].vector}]
    <3> HIDE DEF items
    <3> QED BY <2>2, <2>4
  <2>6. EmbedsText(entries[k].vector, chunks[k].text, v) /\ entries[k].vector.finite
    <3> HIDE DEF items
    <3> QED BY <2>3, <2>4, <1>6
  <2> QED BY <2>5, <2>6 DEF EntryOf
<1>9. IsTuple(entries) /\ DOMAIN entries = 1 .. n
  BY <1>7, <1>0 DEF IsTuple
<1> QED BY <1>0, <1>8, <1>9

-----------------------------------------------------------------------------
(* The invariant of the queries                                            *)

IsQuery(r) ==
  DOMAIN r = {"pc", "limit", "vector", "found", "offered", "constraints", "outcome"}

Grounded(r) ==
  /\ r.outcome = "ok" => r.constraints = r.offered
  /\ \A k \in DOMAIN r.constraints :
       /\ r.constraints[k].evidence # {}
       /\ r.constraints[k].evidence \subseteq {r.found[i].chunk_id : i \in DOMAIN r.found}

QueryFits(r) ==
  /\ IsQuery(r) /\ Grounded(r)
  /\ r.pc \in {"idle", "search", "infer", "done"}
  /\ r.outcome \in {"none", "ok", "invalid", "unavailable", "internal"}
  /\ r.pc \in {"search", "infer"} => r.constraints = <<>> /\ r.offered = <<>>

QueriesFit ==
  /\ workload \in Workloads
  /\ query = [q \in Queries |-> query[q]]
  /\ \A q \in Queries : QueryFits(query[q])

\* No query has been asked at first.
LEMMA QueriesFitFirst == Init => QueriesFit
<1> SUFFICES ASSUME Init PROVE QueriesFit
  OBVIOUS
<1>1. QueryFits(IdleQuery)
  BY DEF QueryFits, IsQuery, Grounded, IdleQuery
<1>2. workload \in Workloads /\ query = [q \in Queries |-> IdleQuery]
  BY DEF Init
<1> HIDE DEF Init
<1>3. query = [q \in Queries |-> query[q]]
  BY <1>2
<1> QED BY <1>1, <1>2, <1>3 DEF QueriesFit

\* A step of one query that leaves it fitting.
LEMMA OneQueryMoves ==
  ASSUME QueriesFit, NEW q \in Queries, NEW r, QueryFits(r), workload' = workload,
         query' = [query EXCEPT ![q] = r]
  PROVE  QueriesFit'
<1>1. /\ query' = [p \in Queries |-> query'[p]]
      /\ \A p \in Queries : query'[p] = IF p = q THEN r ELSE query[p]
  BY DEF QueriesFit
<1>2. \A p \in Queries : QueryFits(query'[p])
  BY <1>1 DEF QueriesFit
<1> QED BY <1>1, <1>2 DEF QueriesFit

\* A query that ends without an answer keeps what it rests on.
LEMMA EndedQueryFits ==
  ASSUME QueriesFit, NEW q \in Queries, NEW outcome \in {"invalid", "unavailable", "internal"},
         EndQuery(q, outcome), workload' = workload
  PROVE  QueriesFit'
<1> DEFINE r == [query[q] EXCEPT !.pc = "done", !.outcome = outcome]
<1>1. query' = [query EXCEPT ![q] = r]
  BY DEF EndQuery, QueriesFit
<1>2. IsQuery(query[q]) /\ Grounded(query[q])
  BY DEF QueriesFit, QueryFits
<1>3. /\ IsQuery(r) /\ r.pc = "done" /\ r.outcome = outcome
      /\ r.found = query[q].found /\ r.constraints = query[q].constraints
  BY <1>2 DEF IsQuery
<1>4. QueryFits(r)
  <2> HIDE DEF r
  <2> QED BY <1>2, <1>3 DEF QueryFits, Grounded
<1> QED BY <1>1, <1>4, OneQueryMoves

\* A parsed envelope that ToConstraints lets through is grounded in what was found.
LEMMA AcceptedIsGrounded ==
  ASSUME NEW envelope, NEW found, ParsesAsEnvelope(envelope), ToConstraints(envelope, found) # Refused
  PROVE  /\ ToConstraints(envelope, found) = envelope
         /\ \A k \in DOMAIN envelope :
              /\ envelope[k].evidence # {}
              /\ envelope[k].evidence \subseteq {found[i].chunk_id : i \in DOMAIN found}
BY DEF ToConstraints, ParsesAsEnvelope, EvidenceIsKnown

\* Every step keeps the invariant of the queries.
LEMMA QueriesFitNext ==
  ASSUME QueriesFit, [Next]_vars
  PROVE  QueriesFit'
<1>w. workload' = workload
  BY DEF Next, vars, ExtractPdf, EmbedChunks, RetrieveEntries, UpsertEntries, ReceiveChunks,
     EmbedQuery, Search, Infer, EditFile
<1>1. CASE query' = query
  BY <1>1, <1>w DEF QueriesFit
<1>2. ASSUME NEW q \in Queries, NEW question, EmbedQuery(q, question) PROVE QueriesFit'
  <2>1. ASSUME NEW outcome \in {"invalid", "unavailable", "internal"}, EndQuery(q, outcome) PROVE QueriesFit'
    BY <2>1, <1>w, EndedQueryFits
  <2>2. ASSUME NEW vector, NEW limit, Prepare(q, vector, limit) PROVE QueriesFit'
    <3> DEFINE r == [IdleQuery EXCEPT !.pc = "search", !.vector = vector, !.limit = limit]
    <3>1. /\ IsQuery(r) /\ r.pc = "search" /\ r.outcome = "none"
          /\ r.constraints = <<>> /\ r.offered = <<>>
      BY DEF IdleQuery, IsQuery
    <3>2. QueryFits(r)
      <4> HIDE DEF r
      <4> QED BY <3>1 DEF QueryFits, Grounded
    <3>3. CASE limit < 1
      BY <2>2, <3>3, <2>1 DEF Prepare
    <3>4. CASE ~(limit < 1)
      BY <2>2, <3>2, <3>4, <1>w, OneQueryMoves DEF Prepare
    <3> QED BY <3>3, <3>4
  <2> QED BY <1>2, <2>1, <2>2 DEF EmbedQuery
<1>3. ASSUME NEW q \in Queries, Search(q) PROVE QueriesFit'
  <2>1. ASSUME NEW outcome \in {"invalid", "unavailable", "internal"}, EndQuery(q, outcome) PROVE QueriesFit'
    BY <2>1, <1>w, EndedQueryFits
  <2>2. ASSUME NEW found, AfterSearch(q, found) PROVE QueriesFit'
    <3> DEFINE next == IF found = <<>> THEN "done" ELSE "infer"
               outcome == IF found = <<>> THEN "ok" ELSE "none"
               r == [query[q] EXCEPT !.found = found, !.pc = next, !.outcome = outcome]
    <3>1. query' = [query EXCEPT ![q] = r]
      BY <2>2 DEF AfterSearch, QueriesFit
    <3>2. IsQuery(query[q]) /\ query[q].constraints = <<>> /\ query[q].offered = <<>>
      BY <1>3 DEF Search, QueriesFit, QueryFits
    <3>3. /\ IsQuery(r) /\ r.pc = next /\ r.outcome = outcome
          /\ r.constraints = <<>> /\ r.offered = <<>>
      BY <3>2 DEF IsQuery
    <3>4. QueryFits(r)
      <4> HIDE DEF r
      <4> QED BY <3>3 DEF QueryFits, Grounded
    <3> QED BY <3>1, <3>4, <1>w, OneQueryMoves
  <2> QED BY <1>3, <2>1, <2>2 DEF Search
<1>4. ASSUME NEW q \in Queries, Infer(q) PROVE QueriesFit'
  <2>1. ASSUME EndQuery(q, "unavailable") \/ EndQuery(q, "internal") PROVE QueriesFit'
    BY <2>1, <1>w, EndedQueryFits
  <2>2. ASSUME NEW envelope, ParsesAsEnvelope(envelope), ToConstraints(envelope, query[q].found) # Refused,
               query' = [query EXCEPT ![q].pc = "done", ![q].outcome = "ok",
                    ![q].offered = envelope, ![q].constraints = ToConstraints(envelope, query[q].found)]
        PROVE  QueriesFit'
    <3> DEFINE r == [query[q] EXCEPT !.pc = "done", !.outcome = "ok",
                                     !.offered = envelope, !.constraints = envelope]
    <3>0. ToConstraints(envelope, query[q].found) = envelope
      BY <2>2, AcceptedIsGrounded
    <3>1. query' = [query EXCEPT ![q] = r]
      BY <2>2, <3>0 DEF QueriesFit
    <3>2. IsQuery(query[q])
      BY DEF QueriesFit, QueryFits
    <3>3. /\ IsQuery(r) /\ r.pc = "done" /\ r.outcome = "ok"
          /\ r.constraints = envelope /\ r.offered = envelope /\ r.found = query[q].found
      BY <3>2 DEF IsQuery
    <3>4. QueryFits(r)
      <4> HIDE DEF r
      <4> QED BY <2>2, <3>3, AcceptedIsGrounded DEF QueryFits, Grounded
    <3> QED BY <3>1, <3>4, <1>w, OneQueryMoves
  <2> QED BY <1>4, <2>1, <2>2 DEF Infer
<1>5. \A q \in workload.queries : q \in Queries
  BY PipelineAssumption DEF QueriesFit
<1> QED BY <1>1, <1>2, <1>3, <1>4, <1>5
  DEF Next, vars, ExtractPdf, EmbedChunks, RetrieveEntries, UpsertEntries, ReceiveChunks, EditFile

\* What a query answers rests on what it retrieved, for any number of queries, chunks and
\* candidates a model may make up.
THEOREM AnswersAreGrounded == Spec => []ConstraintsAreGrounded
<1>1. QueriesFit => ConstraintsAreGrounded
  BY DEF QueriesFit, QueryFits, Grounded, ConstraintsAreGrounded
<1>2. QueriesFit /\ [Next]_vars => QueriesFit'
  BY QueriesFitNext
<1> QED BY <1>1, <1>2, QueriesFitFirst, PTL DEF Spec

-----------------------------------------------------------------------------
(* The invariant of the jobs                                               *)

IsJob(r) ==
  DOMAIN r = {"pc", "read", "chunks", "quarantined", "entries", "todo", "outcome"}

\* The chunks are those of the version of the file that was read.
Extracted(document, r) ==
  /\ r.read.kind = "pages" /\ IsTuple(r.read.pages)
  /\ r.chunks # <<>> /\ r.chunks = PdfChunks(document, r.read.pages)
  /\ ValidResult(document, r.chunks)

\* One entry per chunk, with a vector that some call of the provider made of its text.
Embedded(chunks, entries, kinds) ==
  /\ DOMAIN entries = DOMAIN chunks
  /\ \A k \in DOMAIN chunks : \E v \in kinds : EntryOf(chunks[k], entries[k], v)

\* What WholeDocumentOrQuarantine says of one acknowledged job.
Whole(r, held) ==
  \/ r.quarantined /\ r.chunks = <<>>
  \/ /\ r.read.kind = "pages"
     /\ {r.chunks[k].page_number : k \in DOMAIN r.chunks}
          = {n \in DOMAIN r.read.pages : r.read.pages[n] # Blank}
     /\ ToSet(r.entries) \subseteq held
     /\ {e.chunk : e \in ToSet(r.entries)} = ToSet(r.chunks)

JobFits(document, from, r, held, kinds) ==
  /\ IsJob(r) /\ IsTuple(r.chunks)
  /\ r.pc \in {"idle", "embed", "retrieve", "upsert", "done"}
  /\ r.outcome \in {"none", "ok", "invalid", "conflict", "unavailable", "internal"}
  /\ r.todo \subseteq ToSet(r.entries)
  /\ r.pc \in {"embed", "retrieve"} => r.todo = {}
  /\ r.pc \in {"embed", "retrieve", "upsert"} => r.outcome = "none"
  /\ r.pc \in {"retrieve", "upsert"} => Embedded(r.chunks, r.entries, kinds)
  /\ r.pc = "upsert" =>
       /\ ToSet(r.entries) \subseteq held \union r.todo
       /\ \A e \in ToSet(r.entries) : e.vector.dim = VectorSize
  /\ from = "pdf" /\ r.pc \in {"embed", "retrieve", "upsert"} => Extracted(document, r)
  /\ from = "pdf" /\ r.outcome = "ok" => Whole(r, held)

\* A stored point is an entry somebody made.
PointFits(p, kinds) ==
  p.vector.dim = VectorSize /\ \E v \in kinds : EntryOf(p.chunk, p, v)

SurroundingsFit ==
  /\ workload \in Workloads
  /\ file \in [{Document[j] : j \in Jobs} -> workload.files]
  /\ edits \in 0 .. workload.edits
  /\ variants \subseteq workload.variants /\ IsFiniteSet(variants)

JobsFit ==
  /\ SurroundingsFit
  /\ \A p \in store : PointFits(p, variants)
  /\ job = [j \in Jobs |-> job[j]]
  /\ \A j \in Jobs : JobFits(Document[j], workload.origin[j], job[j], store, variants)

\* No job has run and nothing is stored at first.
LEMMA JobsFitFirst == Init => JobsFit
<1> SUFFICES ASSUME Init PROVE JobsFit
  OBVIOUS
<1>1. ASSUME NEW document, NEW from PROVE JobFits(document, from, IdleJob, {}, {})
  <2>1. /\ IsJob(IdleJob) /\ IdleJob.pc = "idle" /\ IdleJob.outcome = "none" /\ IdleJob.todo = {}
        /\ IdleJob.chunks = <<>>
    BY DEF IdleJob, IsJob
  <2>2. IsTuple(<<>>)
    BY DEF IsTuple
  <2> QED BY <2>1, <2>2 DEF JobFits
<1>2. SurroundingsFit
  BY PipelineAssumption, FS_EmptySet DEF Init, SurroundingsFit
<1>3. store = {} /\ variants = {} /\ job = [j \in Jobs |-> IdleJob]
  BY DEF Init
<1>4. job = [j \in Jobs |-> job[j]]
  BY <1>3
<1> QED BY <1>1, <1>2, <1>3, <1>4 DEF JobsFit

\* What holds of a job still holds when there are more points and more variants.
LEMMA JobFitsFurther ==
  ASSUME NEW document, NEW from, NEW r, NEW held, NEW more, NEW kinds, NEW further,
         JobFits(document, from, r, held, kinds), held \subseteq more, kinds \subseteq further
  PROVE  JobFits(document, from, r, more, further)
<1>1. Embedded(r.chunks, r.entries, kinds) => Embedded(r.chunks, r.entries, further)
  BY DEF Embedded
<1>2. Whole(r, held) => Whole(r, more)
  BY DEF Whole
<1>3. ToSet(r.entries) \subseteq held \union r.todo => ToSet(r.entries) \subseteq more \union r.todo
  OBVIOUS
<1> QED BY <1>1, <1>2, <1>3 DEF JobFits

\* The surroundings keep their types, and what was stored or embedded once stays.
LEMMA SurroundingsFitNext ==
  ASSUME SurroundingsFit, [Next]_vars
  PROVE  /\ SurroundingsFit' /\ workload' = workload
         /\ store \subseteq store' /\ variants \subseteq variants'
<1>1. CASE UNCHANGED <<workload, file, edits, variants>> /\ store \subseteq store'
  BY <1>1 DEF SurroundingsFit
<1>2. ASSUME NEW j \in Jobs, EmbedChunks(j)
      PROVE  /\ SurroundingsFit' /\ workload' = workload
             /\ store \subseteq store' /\ variants \subseteq variants'
  <2>1. UNCHANGED <<workload, file, edits, store>>
    BY <1>2 DEF EmbedChunks
  <2>2. variants' = variants \/ \E v \in workload.variants : variants' = variants \union {v}
    BY <1>2 DEF EmbedChunks
  <2>3. variants' \subseteq workload.variants /\ IsFiniteSet(variants') /\ variants \subseteq variants'
    BY <2>2, FS_AddElement DEF SurroundingsFit
  <2> QED BY <2>1, <2>3 DEF SurroundingsFit
<1>3. ASSUME NEW document \in DOMAIN file, NEW source \in workload.files, EditFile(document, source)
      PROVE  /\ SurroundingsFit' /\ workload' = workload
             /\ store \subseteq store' /\ variants \subseteq variants'
  <2>1. /\ UNCHANGED <<workload, variants, store>> /\ edits < workload.edits /\ edits' = edits + 1
        /\ file' = [file EXCEPT ![document] = source]
    BY <1>3 DEF EditFile
  <2>2. workload.edits \in Nat
    BY PipelineAssumption DEF SurroundingsFit
  <2> QED BY <2>1, <2>2 DEF SurroundingsFit
<1>4. ASSUME NEW j \in Jobs, UpsertEntries(j) PROVE UNCHANGED <<workload, file, edits, variants>> /\ store \subseteq store'
  BY <1>4 DEF UpsertEntries
<1> QED BY <1>1, <1>2, <1>3, <1>4 DEF Next, vars, ExtractPdf, RetrieveEntries, ReceiveChunks,
  EmbedQuery, Search, Infer

\* A step of one job that leaves it fitting.
LEMMA OneJobMoves ==
  ASSUME JobsFit, SurroundingsFit', workload' = workload, NEW j \in Jobs, NEW r,
         job' = [job EXCEPT ![j] = r], store \subseteq store', variants \subseteq variants',
         \A p \in store' : PointFits(p, variants'),
         JobFits(Document[j], workload.origin[j], r, store', variants')
  PROVE  JobsFit'
<1>1. /\ job' = [i \in Jobs |-> job'[i]]
      /\ \A i \in Jobs : job'[i] = IF i = j THEN r ELSE job[i]
  BY DEF JobsFit
<1>2. ASSUME NEW i \in Jobs
      PROVE  JobFits(Document[i], workload'.origin[i], job'[i], store', variants')
  <2>1. CASE i = j
    BY <2>1, <1>1
  <2>2. CASE i # j
    BY <2>2, <1>1, JobFitsFurther DEF JobsFit
  <2> QED BY <2>1, <2>2
<1> QED BY <1>1, <1>2 DEF JobsFit

\* A job that ends without success keeps what it has.
LEMMA EndedJobFits ==
  ASSUME NEW document, NEW from, NEW s, NEW held, NEW kinds,
         JobFits(document, from, s, held, kinds),
         NEW outcome \in {"invalid", "conflict", "unavailable", "internal"}
  PROVE  JobFits(document, from, [s EXCEPT !.pc = "done", !.outcome = outcome], held, kinds)
<1> DEFINE r == [s EXCEPT !.pc = "done", !.outcome = outcome]
<1>1. /\ IsJob(r) /\ r.pc = "done" /\ r.outcome = outcome /\ r.chunks = s.chunks
      /\ r.todo = s.todo /\ r.entries = s.entries
  BY DEF JobFits, IsJob
<1> HIDE DEF r
<1>2. JobFits(document, from, r, held, kinds)
  BY <1>1 DEF JobFits
<1> QED BY <1>2 DEF r

\* Ending a job is a step of one job.
LEMMA EndJobMoves ==
  ASSUME JobsFit, SurroundingsFit', workload' = workload, NEW j \in Jobs,
         NEW outcome \in {"invalid", "conflict", "unavailable", "internal"},
         EndJob(j, outcome), store \subseteq store', variants \subseteq variants',
         \A p \in store' : PointFits(p, variants')
  PROVE  JobsFit'
<1> DEFINE r == [job[j] EXCEPT !.pc = "done", !.outcome = outcome]
<1>1. job' = [job EXCEPT ![j] = r]
  BY DEF EndJob, JobsFit
<1>2. JobFits(Document[j], workload.origin[j], job[j], store, variants)
  BY DEF JobsFit
<1>3. JobFits(Document[j], workload.origin[j], job[j], store', variants')
  BY <1>2, JobFitsFurther
<1>4. JobFits(Document[j], workload.origin[j], r, store', variants')
  BY <1>3, EndedJobFits
<1> QED BY <1>1, <1>4, OneJobMoves

\* The points stay good when nothing is stored.
LEMMA PointsFitFurther ==
  ASSUME JobsFit, store' = store, variants \subseteq variants'
  PROVE  \A p \in store' : PointFits(p, variants')
BY DEF JobsFit, PointFits

\* An extraction: the chunks are the pages of the file as it was read.
LEMMA ExtractPdfFits ==
  ASSUME JobsFit, SurroundingsFit', NEW j \in Jobs, ExtractPdf(j)
  PROVE  JobsFit'
<1> DEFINE source == file[Document[j]]
           result == ExtractFromReader(Document[j], source)
           chunks == result.chunks
           r == [IdleJob EXCEPT !.read = source, !.chunks = chunks,
                                !.quarantined = result.quarantined,
                                !.pc = IF chunks = <<>> THEN "done" ELSE "embed",
                                !.outcome = IF chunks = <<>> THEN "ok" ELSE "none"]
<1>1. UNCHANGED <<workload, file, edits, variants, store, query>> /\ workload.origin[j] = "pdf"
  BY DEF ExtractPdf
<1>2. \A p \in store' : PointFits(p, variants')
  BY <1>1, PointsFitFurther
<1>3. CASE EndJob(j, "unavailable") \/ EndJob(j, "internal")
  BY <1>1, <1>2, <1>3, EndJobMoves
<1>4. CASE ValidResult(Document[j], chunks) /\ job' = [job EXCEPT ![j] = r]
  <2>1. IsTuple(source.pages)
    <3>1. source \in workload.files
      BY DEF JobsFit, SurroundingsFit
    <3> QED BY <3>1, PipelineAssumption DEF JobsFit, SurroundingsFit
  <2>2. \/ chunks = <<>> /\ result.quarantined
        \/ source.kind = "pages" /\ chunks = PdfChunks(Document[j], source.pages)
    BY DEF ExtractFromReader
  <2>3. IsTuple(chunks)
    <3>1. IsTuple(<<>>)
      BY DEF IsTuple
    <3> QED BY <3>1, <2>1, <2>2, ChunksAreThePages
  <2>4. /\ IsJob(r) /\ r.read = source /\ r.chunks = chunks /\ r.todo = {} /\ r.entries = <<>>
        /\ r.quarantined = result.quarantined
        /\ r.pc = (IF chunks = <<>> THEN "done" ELSE "embed")
        /\ r.outcome = (IF chunks = <<>> THEN "ok" ELSE "none")
    <3> HIDE DEF source, result, chunks
    <3> QED BY DEF IdleJob, IsJob
  <2> HIDE DEF r, chunks, result, source
  <2>5. r.outcome = "ok" => Whole(r, store)
    <3> SUFFICES ASSUME chunks = <<>> PROVE Whole(r, store)
      BY <2>4
    <3>1. CASE result.quarantined
      BY <3>1, <2>4 DEF Whole
    <3>2. CASE source.kind = "pages" /\ chunks = PdfChunks(Document[j], source.pages)
      <4>1. {chunks[k].page_number : k \in DOMAIN chunks} = {n \in DOMAIN source.pages : source.pages[n] # Blank}
        BY <3>2, <2>1, ChunksAreThePages
      <4>2. ToSet(r.entries) = {} /\ ToSet(r.chunks) = {}
        BY <2>4 DEF ToSet
      <4> QED BY <3>2, <4>1, <4>2, <2>4 DEF Whole
    <3> QED BY <3>1, <3>2, <2>2
  <2>6. r.pc = "embed" => Extracted(Document[j], r)
    BY <1>4, <2>1, <2>2, <2>4 DEF Extracted
  <2>7. JobFits(Document[j], workload.origin[j], r, store, variants)
    BY <2>3, <2>4, <2>5, <2>6 DEF JobFits
  <2> QED BY <1>1, <1>2, <1>4, <2>7, OneJobMoves
<1> QED BY <1>3, <1>4 DEF ExtractPdf

\* A request: its chunks, or an error before anything was kept.
LEMMA ReceiveChunksFits ==
  ASSUME JobsFit, SurroundingsFit', NEW j \in Jobs, NEW chunks \in HttpBatches, ReceiveChunks(j, chunks)
  PROVE  JobsFit'
<1> DEFINE r == [IdleJob EXCEPT !.chunks = chunks, !.pc = "embed"]
<1>1. UNCHANGED <<workload, file, edits, variants, store, query>> /\ workload.origin[j] = "http"
  BY DEF ReceiveChunks
<1>2. \A p \in store' : PointFits(p, variants')
  BY <1>1, PointsFitFurther
<1>3. CASE EndJob(j, "internal")
  BY <1>1, <1>2, <1>3, EndJobMoves
<1>4. CASE job' = [job EXCEPT ![j] = r]
  <2>1. /\ IsJob(r) /\ r.chunks = chunks /\ r.todo = {} /\ r.pc = "embed" /\ r.outcome = "none"
    BY DEF IdleJob, IsJob
  <2>2. IsTuple(chunks)
    BY PipelineAssumption
  <2> HIDE DEF r
  <2>3. JobFits(Document[j], workload.origin[j], r, store, variants)
    BY <1>1, <2>1, <2>2 DEF JobFits
  <2> QED BY <1>1, <1>2, <1>4, <2>3, OneJobMoves
<1> QED BY <1>3, <1>4 DEF ReceiveChunks

\* An answer of the provider, refused or accepted as a whole.
LEMMA EmbedChunksFits ==
  ASSUME JobsFit, SurroundingsFit', NEW j \in Jobs, EmbedChunks(j)
  PROVE  JobsFit'
<1> DEFINE s == job[j]
           chunks == s.chunks
           texts == [k \in DOMAIN chunks |-> chunks[k].text]
<1>1. UNCHANGED <<workload, file, edits, store, query>> /\ s.pc = "embed"
  BY DEF EmbedChunks
<1>2. variants \subseteq variants'
  BY DEF EmbedChunks
<1>3. \A p \in store' : PointFits(p, variants')
  BY <1>1, <1>2, PointsFitFurther
<1>4. JobFits(Document[j], workload.origin[j], s, store', variants')
  BY <1>1, <1>2, JobFitsFurther DEF JobsFit
<1>5. CASE EndJob(j, "unavailable")
  BY <1>1, <1>2, <1>3, <1>5, EndJobMoves
<1>6. CASE chunks = <<>> /\ EndJob(j, "ok")
  <2> DEFINE r == [s EXCEPT !.pc = "done", !.outcome = "ok"]
  <2>1. job' = [job EXCEPT ![j] = r]
    BY <1>6 DEF EndJob, JobsFit
  <2>2. workload.origin[j] # "pdf"
    BY <1>1, <1>4, <1>6 DEF JobFits, Extracted
  <2>3. /\ IsJob(r) /\ r.pc = "done" /\ r.outcome = "ok" /\ r.chunks = s.chunks
        /\ r.todo = s.todo /\ r.entries = s.entries
    BY <1>4 DEF JobFits, IsJob
  <2> HIDE DEF r
  <2>4. JobFits(Document[j], workload.origin[j], r, store', variants')
    BY <1>4, <2>2, <2>3 DEF JobFits
  <2> QED BY <1>1, <1>2, <1>3, <2>1, <2>4, OneJobMoves
<1>7. ASSUME chunks # <<>>, NEW v \in workload.variants, variants' = variants \union {v},
             NEW data \in GoodAnswers(texts, v) \union WrongAnswers(texts, v),
             NEW embeddings, embeddings = ToChunkEmbeddings(chunks, data), embeddings # Refused,
             NEW entries, entries = ToIndexEntries(chunks, embeddings), entries # Refused,
             job' = [job EXCEPT ![j].pc = "retrieve", ![j].entries = entries]
      PROVE  JobsFit'
  <2> DEFINE r == [s EXCEPT !.pc = "retrieve", !.entries = entries]
  <2>1. job' = [job EXCEPT ![j] = r]
    BY <1>7 DEF JobsFit
  <2>2. /\ IsJob(r) /\ r.pc = "retrieve" /\ r.outcome = "none" /\ r.chunks = chunks
        /\ r.todo = {} /\ r.entries = entries /\ r.read = s.read
    BY <1>1, <1>4 DEF JobFits, IsJob
  <2>3. IsTuple(chunks)
    BY <1>4 DEF JobFits
  <2>4. Embedded(chunks, entries, variants')
    <3> HIDE DEF texts
    <3>1. /\ DOMAIN entries = DOMAIN chunks
          /\ \A k \in DOMAIN chunks : EntryOf(chunks[k], entries[k], v)
      <4>1. texts = [k \in DOMAIN chunks |-> chunks[k].text]
        BY DEF texts
      <4> HIDE DEF chunks
      <4> QED BY <1>7, <2>3, <4>1, EntriesEmbedTheirChunks
    <3> QED BY <3>1, <1>7 DEF Embedded
  <2>5. workload.origin[j] = "pdf" => Extracted(Document[j], r)
    BY <1>1, <1>4, <2>2 DEF JobFits, Extracted
  <2> HIDE DEF r
  <2>6. JobFits(Document[j], workload.origin[j], r, store', variants')
    BY <1>4, <2>2, <2>3, <2>4, <2>5 DEF JobFits
  <2> QED BY <1>1, <1>2, <1>3, <2>1, <2>6, OneJobMoves
<1> QED BY <1>5, <1>6, <1>7 DEF EmbedChunks, Embed

\* The comparison with the store decides what is left to insert.
LEMMA RetrieveEntriesFits ==
  ASSUME JobsFit, SurroundingsFit', NEW j \in Jobs, RetrieveEntries(j)
  PROVE  JobsFit'
<1> DEFINE s == job[j]
<1>1. UNCHANGED <<workload, file, edits, variants, store, query>> /\ s.pc = "retrieve"
  BY DEF RetrieveEntries
<1>2. \A p \in store' : PointFits(p, variants')
  BY <1>1, PointsFitFurther
<1>3. JobFits(Document[j], workload.origin[j], s, store, variants)
  BY DEF JobsFit
<1>4. ASSUME NEW outcome \in {"conflict", "invalid", "unavailable"}, EndJob(j, outcome)
      PROVE  JobsFit'
  BY <1>1, <1>2, <1>4, EndJobMoves
<1>5. CASE /\ \A e \in ToSet(s.entries) : e.vector.dim = VectorSize
           /\ job' = [job EXCEPT ![j].pc = "upsert", ![j].todo = ToSet(s.entries) \ store]
  <2> DEFINE r == [s EXCEPT !.pc = "upsert", !.todo = ToSet(s.entries) \ store]
  <2>1. job' = [job EXCEPT ![j] = r]
    BY <1>5 DEF JobsFit
  <2>2. /\ IsJob(r) /\ r.pc = "upsert" /\ r.outcome = "none" /\ r.chunks = s.chunks
        /\ r.todo = ToSet(s.entries) \ store /\ r.entries = s.entries /\ r.read = s.read
    BY <1>1, <1>3 DEF JobFits, IsJob
  <2>3. workload.origin[j] = "pdf" => Extracted(Document[j], r)
    BY <1>1, <1>3, <2>2 DEF JobFits, Extracted
  <2> HIDE DEF r
  <2>4. ToSet(r.entries) \subseteq store \union r.todo /\ r.todo \subseteq ToSet(r.entries)
    BY <2>2
  <2>5. JobFits(Document[j], workload.origin[j], r, store, variants)
    BY <1>1, <1>3, <1>5, <2>2, <2>3, <2>4 DEF JobFits
  <2> QED BY <1>1, <1>2, <2>1, <2>5, OneJobMoves
<1> QED BY <1>4, <1>5 DEF RetrieveEntries

\* An insertion: acknowledged only when every entry is stored.
LEMMA UpsertEntriesFits ==
  ASSUME JobsFit, SurroundingsFit', NEW j \in Jobs, UpsertEntries(j)
  PROVE  JobsFit'
<1> DEFINE s == job[j]
<1>1. UNCHANGED <<workload, file, edits, variants, query>> /\ s.pc = "upsert"
  BY DEF UpsertEntries
<1>2. JobFits(Document[j], workload.origin[j], s, store, variants)
  BY DEF JobsFit
<1>3. Embedded(s.chunks, s.entries, variants) /\ \A e \in ToSet(s.entries) : e.vector.dim = VectorSize
  BY <1>1, <1>2 DEF JobFits
<1>4. store \subseteq store' /\ store' \subseteq store \union s.todo
  BY DEF UpsertEntries, InsertedOf
<1>5. \A e \in ToSet(s.entries) : PointFits(e, variants)
  <2> SUFFICES ASSUME NEW k \in DOMAIN s.entries PROVE PointFits(s.entries[k], variants)
    BY DEF ToSet
  <2>1. PICK v \in variants : EntryOf(s.chunks[k], s.entries[k], v)
    BY <1>3 DEF Embedded
  <2>2. s.entries[k].chunk = s.chunks[k]
    BY <2>1 DEF EntryOf
  <2>3. s.entries[k].vector.dim = VectorSize
    BY <1>3 DEF ToSet
  <2> QED BY <2>1, <2>2, <2>3 DEF PointFits
<1>6. \A p \in store' : PointFits(p, variants')
  BY <1>1, <1>2, <1>4, <1>5 DEF JobsFit, JobFits
<1>7. CASE EndJob(j, "conflict") \/ EndJob(j, "unavailable")
  BY <1>1, <1>4, <1>6, <1>7, EndJobMoves
<1>8. CASE /\ EndJob(j, "ok") /\ store' = store \union InsertedOf(s.todo)
           /\ \A e \in s.todo : ~Disputed(e)
  <2> DEFINE r == [s EXCEPT !.pc = "done", !.outcome = "ok"]
  <2>1. job' = [job EXCEPT ![j] = r]
    BY <1>8 DEF EndJob, JobsFit
  <2>2. /\ IsJob(r) /\ r.pc = "done" /\ r.outcome = "ok" /\ r.chunks = s.chunks /\ r.read = s.read
        /\ r.todo = s.todo /\ r.entries = s.entries
    BY <1>2 DEF JobFits, IsJob
  <2> HIDE DEF r
  <2>3. s.todo \subseteq store'
    BY <1>8 DEF InsertedOf, Disputed
  <2>4. ToSet(s.entries) \subseteq store'
    BY <1>1, <1>2, <1>4, <2>3 DEF JobFits
  <2>5. workload.origin[j] = "pdf" => Whole(r, store')
    <3> SUFFICES ASSUME workload.origin[j] = "pdf" PROVE Whole(r, store')
      OBVIOUS
    <3>1. /\ s.read.kind = "pages" /\ IsTuple(s.read.pages)
          /\ s.chunks = PdfChunks(Document[j], s.read.pages)
      BY <1>1, <1>2 DEF JobFits, Extracted
    <3>2. {s.chunks[k].page_number : k \in DOMAIN s.chunks}
            = {n \in DOMAIN s.read.pages : s.read.pages[n] # Blank}
      BY <3>1, ChunksAreThePages
    <3>3. DOMAIN s.entries = DOMAIN s.chunks /\ \A k \in DOMAIN s.chunks : s.entries[k].chunk = s.chunks[k]
      BY <1>3 DEF Embedded, EntryOf
    <3>4. {e.chunk : e \in ToSet(s.entries)} = ToSet(s.chunks)
      BY <3>3 DEF ToSet
    <3> QED BY <3>1, <3>2, <3>4, <2>2, <2>4 DEF Whole
  <2>6. JobFits(Document[j], workload.origin[j], r, store', variants')
    BY <1>2, <2>2, <2>5 DEF JobFits
  <2> QED BY <1>1, <1>4, <1>6, <2>1, <2>6, OneJobMoves
<1> QED BY <1>7, <1>8 DEF UpsertEntries

\* Every step keeps the invariant of the jobs.
LEMMA JobsFitNext ==
  ASSUME JobsFit, [Next]_vars
  PROVE  JobsFit'
<1>1. SurroundingsFit' /\ workload' = workload
  BY SurroundingsFitNext DEF JobsFit
<1>2. CASE UNCHANGED <<store, variants, job>>
  BY <1>1, <1>2 DEF JobsFit
<1> QED BY <1>1, <1>2, ExtractPdfFits, ReceiveChunksFits, EmbedChunksFits, RetrieveEntriesFits,
           UpsertEntriesFits
  DEF Next, vars, EmbedQuery, Search, Infer, EditFile

\* The invariant of the jobs.
LEMMA JobsAlwaysFit == Spec => []JobsFit
<1>1. JobsFit /\ [Next]_vars => JobsFit'
  BY JobsFitNext
<1> QED BY <1>1, JobsFitFirst, PTL DEF Spec

\* Every stored point carries the vector of its own text, in whatever order and with
\* whatever mistakes the provider answers any batch.
THEOREM StoredVectorsAreTheirTexts == Spec => []VectorsBelongToTheirText
<1>1. JobsFit => VectorsBelongToTheirText
  BY DEF JobsFit, PointFits, EntryOf, EmbedsText, VectorsBelongToTheirText
<1> QED BY <1>1, JobsAlwaysFit, PTL

\* An acknowledged document is indexed as a whole or quarantined, for files of any
\* number of pages and any jobs and edits in between.
THEOREM AcknowledgedIsWhole == Spec => []WholeDocumentOrQuarantine
<1>1. JobsFit => WholeDocumentOrQuarantine
  BY DEF JobsFit, JobFits, Whole, WholeDocumentOrQuarantine
<1> QED BY <1>1, JobsAlwaysFit, PTL

-----------------------------------------------------------------------------
(* Content that does not change                                            *)

Unchanged == edits = 0 /\ (\A j \in Jobs : workload.origin[j] = "pdf")

\* A chunk of the document as the file has it.
ChunkOf(document, source, chunk) ==
  LET chunks == PdfChunks(document, source.pages) IN
    ValidResult(document, chunks) /\ chunk \in ToSet(chunks)

ContentFits ==
  /\ Unchanged =>
       /\ \A j \in Jobs : job[j].pc \in {"embed", "retrieve", "upsert"} => job[j].read = file[Document[j]]
       /\ \A p \in store : \E i \in Jobs : ChunkOf(Document[i], file[Document[i]], p.chunk)
  /\ UnchangedContentNeverConflicts

\* Two vectors of one text and one variant are the same when they fit the collection.
LEMMA OneVectorPerText ==
  ASSUME NEW text, NEW v, NEW a, NEW b, EmbedsText(a, text, v), EmbedsText(b, text, v),
         a.dim = VectorSize, b.dim = VectorSize, a.finite, b.finite
  PROVE  a = b
<1>1. ASSUME NEW x, EmbedsText(x, text, v), x.dim = VectorSize, x.finite
      PROVE  x = [of |-> text, variant |-> v, dim |-> VectorSize, finite |-> TRUE]
  BY <1>1 DEF EmbedsText
<1> QED BY <1>1

\* In a document, an identity belongs to one chunk.
LEMMA OneChunkPerKey ==
  ASSUME NEW d, NEW e, NEW source, NEW origin, NEW a, NEW b,
         ChunkOf(d, source, a), ChunkOf(e, origin, b), d = e => source = origin, Key(a) = Key(b)
  PROVE  a = b
<1> DEFINE chunks == PdfChunks(d, source.pages)
           others == PdfChunks(e, origin.pages)
<1>1. PICK k \in DOMAIN chunks : a = chunks[k]
  BY DEF ChunkOf, ToSet
<1>2. PICK m \in DOMAIN others : b = others[m]
  BY DEF ChunkOf, ToSet
<1>3. a.document_id = b.document_id /\ a.chunk_id = b.chunk_id
  BY DEF Key
<1>4. a.document_id = d /\ b.document_id = e
  BY <1>1, <1>2 DEF ChunkOf, ValidResult
<1>5. chunks = others
  BY <1>3, <1>4
<1>6. k = m
  BY <1>1, <1>2, <1>3, <1>5 DEF ChunkOf, ValidResult
<1> QED BY <1>1, <1>2, <1>5, <1>6

\* While nothing changes, no entry disputes a point or another entry.
LEMMA NothingDisputed ==
  ASSUME JobsFit, ContentFits, Unchanged, Cardinality(variants) <= 1, NEW j \in Jobs,
         job[j].pc \in {"retrieve", "upsert"}
  PROVE  /\ ~Conflicting(job[j].entries)
         /\ \A e \in ToSet(job[j].entries) : e.vector.dim = VectorSize => ~Disputed(e)
<1> DEFINE s == job[j]
<1>1. JobFits(Document[j], "pdf", s, store, variants)
  BY DEF JobsFit, Unchanged
<1>2. /\ Embedded(s.chunks, s.entries, variants) /\ Extracted(Document[j], s)
      /\ s.read = file[Document[j]]
  BY <1>1 DEF JobFits, ContentFits
<1>3. \A k \in DOMAIN s.entries :
        s.entries[k].chunk = s.chunks[k] /\ ChunkOf(Document[j], file[Document[j]], s.entries[k].chunk)
  <2> SUFFICES ASSUME NEW k \in DOMAIN s.entries
               PROVE  s.entries[k].chunk = s.chunks[k] /\ ChunkOf(Document[j], file[Document[j]], s.entries[k].chunk)
    OBVIOUS
  <2>1. k \in DOMAIN s.chunks /\ s.entries[k].chunk = s.chunks[k]
    BY <1>2 DEF Embedded, EntryOf
  <2>2. s.chunks[k] \in ToSet(s.chunks)
    BY <2>1 DEF ToSet
  <2> QED BY <2>1, <2>2, <1>2 DEF ChunkOf, Extracted
<1>4. ~Conflicting(s.entries)
  <2> SUFFICES ASSUME NEW k \in DOMAIN s.entries, NEW m \in DOMAIN s.entries,
                      Key(s.entries[k].chunk) = Key(s.entries[m].chunk)
               PROVE  s.entries[k] = s.entries[m]
    BY DEF Conflicting
  <2>1. k \in DOMAIN s.chunks /\ m \in DOMAIN s.chunks /\ s.chunks[k].chunk_id = s.chunks[m].chunk_id
    BY <1>2, <1>3 DEF Key, Embedded
  <2> QED BY <2>1, <1>2 DEF Extracted, ValidResult
<1>5. \A v, w \in variants : v = w
  <2>1. IsFiniteSet(variants)
    BY DEF JobsFit, SurroundingsFit
  <2>2. Cardinality(variants) \in Nat
    BY <2>1, FS_CardinalityType
  <2>3. Cardinality(variants) = 0 \/ Cardinality(variants) = 1
    BY <2>2
  <2> QED BY <2>1, <2>3, FS_EmptySet, FS_Singleton
<1>6. ASSUME NEW k \in DOMAIN s.entries, s.entries[k].vector.dim = VectorSize,
             NEW p \in store, Key(p.chunk) = Key(s.entries[k].chunk)
      PROVE  p = s.entries[k]
  <2> DEFINE e == s.entries[k]
  <2>1. PICK i \in Jobs : ChunkOf(Document[i], file[Document[i]], p.chunk)
    BY DEF ContentFits
  <2>2. p.chunk = e.chunk
    BY <2>1, <1>3, <1>6, OneChunkPerKey
  <2>3. PICK v \in variants : EntryOf(p.chunk, p, v) /\ p.vector.dim = VectorSize
    BY DEF JobsFit, PointFits
  <2>4. PICK w \in variants : EntryOf(s.chunks[k], e, w)
    BY <1>2 DEF Embedded
  <2>5. v = w /\ s.chunks[k] = p.chunk
    BY <1>3, <1>5, <2>2
  <2>6. p.vector = e.vector
    BY <1>6, <2>3, <2>4, <2>5, OneVectorPerText DEF EntryOf
  <2>7. /\ p \in [chunk : {p.chunk}, vector : {p.vector}]
        /\ e \in [chunk : {p.chunk}, vector : {p.vector}]
    BY <2>3, <2>4, <2>5, <2>6 DEF EntryOf
  <2> HIDE DEF e
  <2>8. p = e
    BY <2>7
  <2> QED BY <2>8 DEF e
<1>7. \A e \in ToSet(s.entries) : e.vector.dim = VectorSize => ~Disputed(e)
  BY <1>6 DEF Disputed, ToSet
<1> QED BY <1>4, <1>7

\* While nothing changes, nothing did.
LEMMA UnchangedBefore ==
  ASSUME JobsFit, [Next]_vars, Unchanged'
  PROVE  /\ Unchanged /\ file' = file
         /\ Cardinality(variants') <= 1 => Cardinality(variants) <= 1
<1>1. edits \in Nat /\ SurroundingsFit
  BY PipelineAssumption DEF JobsFit, SurroundingsFit
<1>2. workload' = workload /\ variants \subseteq variants' /\ IsFiniteSet(variants')
  BY <1>1, SurroundingsFitNext DEF SurroundingsFit
<1>3. \/ UNCHANGED <<edits, file>>
      \/ edits' = edits + 1
  BY DEF Next, vars, ExtractPdf, EmbedChunks, RetrieveEntries, UpsertEntries, ReceiveChunks,
     EmbedQuery, Search, Infer, EditFile
<1>4. UNCHANGED <<edits, file>>
  BY <1>1, <1>3 DEF Unchanged
<1>5. Cardinality(variants') <= 1 => Cardinality(variants) <= 1
  <2>1. Cardinality(variants) <= Cardinality(variants') /\ Cardinality(variants') \in Nat
    BY <1>2, FS_Subset, FS_CardinalityType
  <2>2. Cardinality(variants) \in Nat
    BY <1>1, FS_CardinalityType DEF SurroundingsFit
  <2> QED BY <2>1, <2>2
<1> QED BY <1>2, <1>4, <1>5 DEF Unchanged

\* A step of one job that adds only chunks of the unchanged file.
LEMMA OneJobsContent ==
  ASSUME JobsFit, ContentFits, Unchanged, file' = file, NEW j \in Jobs, NEW r,
         job' = [job EXCEPT ![j] = r],
         Cardinality(variants') <= 1 => Cardinality(variants) <= 1 /\ r.outcome # "conflict",
         r.pc \in {"embed", "retrieve", "upsert"} => r.read = file[Document[j]],
         \A p \in store' : p \in store \/ ChunkOf(Document[j], file[Document[j]], p.chunk)
  PROVE  ContentFits'
<1>1. \A i \in Jobs : job'[i] = IF i = j THEN r ELSE job[i]
  BY DEF JobsFit
<1>2. \A i \in Jobs : job'[i].pc \in {"embed", "retrieve", "upsert"} => job'[i].read = file'[Document[i]]
  BY <1>1 DEF ContentFits
<1>3. \A p \in store' : \E i \in Jobs : ChunkOf(Document[i], file'[Document[i]], p.chunk)
  BY DEF ContentFits
<1>4. Cardinality(variants') <= 1 => \A i \in Jobs : job'[i].outcome # "conflict"
  BY <1>1 DEF ContentFits, UnchangedContentNeverConflicts, Unchanged
<1> QED BY <1>2, <1>3, <1>4 DEF ContentFits, UnchangedContentNeverConflicts

\* The same of a job that ends.
LEMMA EndedJobsContent ==
  ASSUME JobsFit, ContentFits, Unchanged, file' = file, NEW j \in Jobs,
         NEW outcome, EndJob(j, outcome),
         Cardinality(variants') <= 1 => Cardinality(variants) <= 1 /\ outcome # "conflict",
         \A p \in store' : p \in store \/ ChunkOf(Document[j], file[Document[j]], p.chunk)
  PROVE  ContentFits'
<1> DEFINE r == [job[j] EXCEPT !.pc = "done", !.outcome = outcome]
<1>1. job' = [job EXCEPT ![j] = r]
  BY DEF EndJob, JobsFit
<1>2. r.pc = "done" /\ r.outcome = outcome
  BY DEF JobsFit, JobFits, IsJob
<1> HIDE DEF r
<1> QED BY <1>1, <1>2, OneJobsContent

\* Every step keeps the content as the files have it.
LEMMA ContentFitsNext ==
  ASSUME JobsFit, ContentFits, [Next]_vars
  PROVE  ContentFits'
<1>1. CASE ~Unchanged'
  BY <1>1 DEF ContentFits, UnchangedContentNeverConflicts, Unchanged
<1>2. CASE Unchanged'
  <2>1. /\ Unchanged /\ file' = file
        /\ Cardinality(variants') <= 1 => Cardinality(variants) <= 1
    BY <1>2, UnchangedBefore
  <2>2. CASE UNCHANGED <<store, variants, job>>
    <3>1. \A p \in store' : \E i \in Jobs : ChunkOf(Document[i], file'[Document[i]], p.chunk)
      BY <2>1, <2>2 DEF ContentFits
    <3>2. \A i \in Jobs : job'[i].pc \in {"embed", "retrieve", "upsert"} => job'[i].read = file'[Document[i]]
      BY <2>1, <2>2 DEF ContentFits
    <3>3. Cardinality(variants') <= 1 => \A i \in Jobs : job'[i].outcome # "conflict"
      BY <2>1, <2>2 DEF ContentFits, UnchangedContentNeverConflicts, Unchanged
    <3> QED BY <3>1, <3>2, <3>3 DEF ContentFits, UnchangedContentNeverConflicts
  <2>3. ASSUME NEW j \in Jobs, NEW outcome \in {"ok", "invalid", "unavailable", "internal"},
               EndJob(j, outcome), store' = store
        PROVE  ContentFits'
    BY <2>1, <2>3, EndedJobsContent
  <2>4. ASSUME NEW j \in Jobs, NEW r, job' = [job EXCEPT ![j] = r], store' = store,
               r.outcome # "conflict",
               r.pc \in {"embed", "retrieve", "upsert"} => r.read = file[Document[j]]
        PROVE  ContentFits'
    BY <2>1, <2>4, OneJobsContent
  <2>5. ASSUME NEW j \in Jobs, ExtractPdf(j) PROVE ContentFits'
    <3>1. store' = store
      BY <2>5 DEF ExtractPdf
    <3> DEFINE source == file[Document[j]]
               result == ExtractFromReader(Document[j], source)
               chunks == result.chunks
               r == [IdleJob EXCEPT !.read = source, !.chunks = chunks,
                                    !.quarantined = result.quarantined,
                                    !.pc = IF chunks = <<>> THEN "done" ELSE "embed",
                                    !.outcome = IF chunks = <<>> THEN "ok" ELSE "none"]
    <3>2. CASE job' = [job EXCEPT ![j] = r]
      <4>1. r.outcome # "conflict" /\ r.read = file[Document[j]]
        <5> HIDE DEF result, chunks
        <5> QED BY DEF IdleJob
      <4> HIDE DEF r
      <4> QED BY <3>1, <3>2, <4>1, <2>4
    <3> QED BY <2>5, <2>3, <3>1, <3>2 DEF ExtractPdf
  <2>6. ASSUME NEW j \in Jobs, NEW chunks \in HttpBatches, ReceiveChunks(j, chunks) PROVE ContentFits'
    BY <2>1, <2>6 DEF ReceiveChunks, Unchanged
  <2>7. ASSUME NEW j \in Jobs, EmbedChunks(j) PROVE ContentFits'
    <3>1. store' = store /\ job[j].pc = "embed" /\ IsJob(job[j]) /\ job[j].outcome = "none"
      BY <2>7 DEF EmbedChunks, JobsFit, JobFits
    <3>2. ASSUME NEW entries, job' = [job EXCEPT ![j].pc = "retrieve", ![j].entries = entries]
          PROVE  ContentFits'
      <4> DEFINE r == [job[j] EXCEPT !.pc = "retrieve", !.entries = entries]
      <4>1. job' = [job EXCEPT ![j] = r]
        BY <3>2 DEF JobsFit
      <4>2. r.outcome = "none" /\ r.read = job[j].read
        BY <3>1 DEF IsJob
      <4>3. r.read = file[Document[j]]
        BY <2>1, <3>1, <4>2 DEF ContentFits
      <4> HIDE DEF r
      <4> QED BY <3>1, <4>1, <4>2, <4>3, <2>4
    <3> QED BY <2>7, <2>3, <3>1, <3>2 DEF EmbedChunks, Embed
  <2>8. ASSUME NEW j \in Jobs, RetrieveEntries(j) PROVE ContentFits'
    <3>1. store' = store /\ variants' = variants /\ job[j].pc = "retrieve" /\ IsJob(job[j]) /\ job[j].outcome = "none"
      BY <2>8 DEF RetrieveEntries, JobsFit, JobFits
    <3>2. ASSUME NEW todo, job' = [job EXCEPT ![j].pc = "upsert", ![j].todo = todo]
          PROVE  ContentFits'
      <4> DEFINE r == [job[j] EXCEPT !.pc = "upsert", !.todo = todo]
      <4>1. job' = [job EXCEPT ![j] = r]
        BY <3>2 DEF JobsFit
      <4>2. r.outcome = "none" /\ r.read = job[j].read
        BY <3>1 DEF IsJob
      <4>3. r.read = file[Document[j]]
        BY <2>1, <3>1, <4>2 DEF ContentFits
      <4> HIDE DEF r
      <4> QED BY <3>1, <4>1, <4>2, <4>3, <2>4
    <3>3. CASE Cardinality(variants) <= 1
      <4>1. /\ ~Conflicting(job[j].entries)
            /\ \A e \in ToSet(job[j].entries) : e.vector.dim = VectorSize => ~Disputed(e)
        BY <2>1, <3>1, <3>3, NothingDisputed
      <4> QED BY <2>8, <2>3, <3>1, <3>2, <4>1 DEF RetrieveEntries
    <3>4. CASE ~(Cardinality(variants') <= 1)
      <4>1. ASSUME NEW outcome, EndJob(j, outcome) PROVE ContentFits'
        BY <2>1, <3>1, <3>4, <4>1, EndedJobsContent
      <4> QED BY <2>8, <3>2, <4>1 DEF RetrieveEntries
    <3> QED BY <3>1, <3>3, <3>4
  <2>9. ASSUME NEW j \in Jobs, UpsertEntries(j) PROVE ContentFits'
    <3> DEFINE s == job[j]
    <3>1. variants' = variants /\ s.pc = "upsert" /\ JobFits(Document[j], "pdf", s, store, variants)
      BY <2>1, <2>9 DEF UpsertEntries, JobsFit, Unchanged
    <3>2. /\ s.todo \subseteq ToSet(s.entries) /\ Extracted(Document[j], s) /\ s.read = file[Document[j]]
          /\ Embedded(s.chunks, s.entries, variants)
          /\ \A e \in ToSet(s.entries) : e.vector.dim = VectorSize
      BY <2>1, <3>1 DEF JobFits, ContentFits
    <3>3. \A e \in s.todo : ChunkOf(Document[j], file[Document[j]], e.chunk)
      <4> SUFFICES ASSUME NEW k \in DOMAIN s.entries
                   PROVE  ChunkOf(Document[j], file[Document[j]], s.entries[k].chunk)
        BY <3>2 DEF ToSet
      <4>1. k \in DOMAIN s.chunks /\ s.entries[k].chunk = s.chunks[k]
        BY <3>2 DEF Embedded, EntryOf
      <4>2. s.chunks[k] \in ToSet(s.chunks)
        BY <4>1 DEF ToSet
      <4> QED BY <4>1, <4>2, <3>2 DEF ChunkOf, Extracted
    <3>4. \A p \in store' : p \in store \/ ChunkOf(Document[j], file[Document[j]], p.chunk)
      BY <2>9, <3>3 DEF UpsertEntries, InsertedOf
    <3>5. Cardinality(variants) <= 1 => \A e \in s.todo : ~Disputed(e)
      BY <2>1, <3>1, <3>2, NothingDisputed
    <3>6. PICK outcome : EndJob(j, outcome) /\ (Cardinality(variants) <= 1 => outcome # "conflict")
      <4>1. \/ EndJob(j, "ok") \/ EndJob(j, "unavailable")
            \/ EndJob(j, "conflict") /\ \E e \in s.todo : Disputed(e)
        BY <2>9 DEF UpsertEntries
      <4> QED BY <4>1, <3>5
    <3> QED BY <2>1, <3>1, <3>4, <3>6, EndedJobsContent
  <2> QED BY <2>2, <2>5, <2>6, <2>7, <2>8, <2>9
    DEF Next, vars, EmbedQuery, Search, Infer, EditFile
<1> QED BY <1>1, <1>2

\* Indexing an unchanged file again never conflicts while equal texts are embedded
\* equally, for any number of jobs, documents and pages, after any failures.
THEOREM ReindexingNeverConflicts == Spec => []UnchangedContentNeverConflicts
<1>1. Init => ContentFits
  BY DEF Init, ContentFits, UnchangedContentNeverConflicts, IdleJob
<1>2. JobsFit /\ ContentFits /\ [Next]_vars => ContentFits'
  BY ContentFitsNext
<1>3. ContentFits => UnchangedContentNeverConflicts
  BY DEF ContentFits
<1> QED BY <1>1, <1>2, <1>3, JobsAlwaysFit, PTL DEF Spec

\* The types of the pipeline's state.
THEOREM PipelineTypesCorrect == Spec => []TypeOK
<1>1. JobsFit /\ QueriesFit => TypeOK
  BY DEF JobsFit, SurroundingsFit, JobFits, QueriesFit, QueryFits, TypeOK
<1>2. QueriesFit /\ [Next]_vars => QueriesFit'
  BY QueriesFitNext
<1> QED BY <1>1, <1>2, QueriesFitFirst, JobsAlwaysFit, PTL DEF Spec

-----------------------------------------------------------------------------
(***************************************************************************)
(* The document vector index that the entries are written to implements the *)
(* write-once port for any number of callers, ids, contents and backend    *)
(* errors, with late upserts and stale reads, although it never holds a lock. *)
(***************************************************************************)

(* A batch that was sent, even in part, has passed the dimension check.     *)
SentIsWellFormed ==
  \A c \in Calls :
    /\ pc[c] = "idle" <=> batch[c] = {}
    /\ pc[c] \in {"retrieve", "upsert", "verify", "unavailable"} \/ wire[c] # {} =>
         \A e \in batch[c] : e.value \notin WrongSize
    /\ pc[c] = "invalid" => \E e \in batch[c] : e.value \in WrongSize

(* What a call did not send was found stored, as it wants it.               *)
UnsentIsStored ==
  \A c \in Calls : pc[c] \in {"upsert", "verify"} =>
    \A e \in batch[c] \ toInsert[c] : points[e.key] = e.value

IndexInv == /\ IndexTypeOK /\ SentIsWellFormed /\ UnsentIsStored
        /\ AcknowledgedIsStored /\ ConflictIsReal

(* The initial state: an empty collection and idle callers.                 *)
LEMMA IndexInitially == IndexInit => IndexInv
BY IndexAssumption
DEF IndexInit, IndexInv, IndexTypeOK, SentIsWellFormed, UnsentIsStored, AcknowledgedIsStored,
    ConflictIsReal, Entries

(* A retrieve finds stored points only.                                     *)
LEMMA ViewsAreStored ==
  ASSUME NEW S, NEW view \in Views(S)
  PROVE  view \subseteq {e.key : e \in {d \in S : points[d.key] # NoPoint}}
BY DEF Views

(* Steps of one call that change neither the collection nor its batch.      *)
LEMMA CallStep ==
  ASSUME IndexInv, NEW c \in Calls, NEW where, Goto(c, where),
         where \in {"coalesce", "retrieve", "upsert", "verify", "ok", "conflict", "invalid", "unavailable"},
         pc[c] # "idle", points' = points, batch' = batch, failures' \in 0 .. MaxFailures,
         toInsert' \in [Calls -> SUBSET Entries], wire' \in [Calls -> SUBSET Entries],
         \A d \in Calls \ {c} : toInsert'[d] = toInsert[d] /\ wire'[d] = wire[d],
         toInsert'[c] \subseteq batch[c], wire'[c] \subseteq batch[c],
         where \in {"retrieve", "upsert", "verify", "unavailable"} \/ wire'[c] # {} =>
           \A e \in batch[c] : e.value \notin WrongSize,
         where = "invalid" => \E e \in batch[c] : e.value \in WrongSize,
         where \in {"upsert", "verify"} =>
           \A e \in batch[c] \ toInsert'[c] : points[e.key] = e.value,
         where = "ok" => \A e \in batch[c] : points[e.key] = e.value,
         where = "conflict" =>
           SelfConflict(batch[c]) \/ \E e \in batch[c] : points[e.key] \notin {NoPoint, e.value}
  PROVE  IndexInv'
<1>1. pc' = [pc EXCEPT ![c] = where] /\ pc'[c] = where /\ \A d \in Calls \ {c} : pc'[d] = pc[d]
  BY DEF Goto, IndexInv, IndexTypeOK
<1>2. IndexTypeOK'
  BY <1>1 DEF IndexInv, IndexTypeOK
<1>3. SentIsWellFormed'
  BY <1>1 DEF IndexInv, SentIsWellFormed
<1>4. UnsentIsStored'
  BY <1>1 DEF IndexInv, UnsentIsStored
<1>5. AcknowledgedIsStored' /\ ConflictIsReal'
  BY <1>1 DEF IndexInv, AcknowledgedIsStored, ConflictIsReal, SelfConflict
<1> QED BY <1>2, <1>3, <1>4, <1>5 DEF IndexInv

(* An insert never replaces a point.                                        *)
LEMMA PointsStay ==
  ASSUME IndexTypeOK, NEW c \in Calls, ApplyPoint(c)
  PROVE  \A i \in Ids : points[i] # NoPoint => points'[i] = points[i]
BY DEF ApplyPoint, IndexTypeOK, Entries

(* Every step preserves the invariant.                                      *)
LEMMA IndexNextKeeps ==
  ASSUME IndexInv, [IndexNext]_indexVars
  PROVE  IndexInv'
<1>1. ASSUME NEW c \in Calls, Submit(c) PROVE IndexInv'
  <2>1. PICK S \in (SUBSET Entries) \ {{}} : batch' = [batch EXCEPT ![c] = S]
    BY <1>1 DEF Submit
  <2>2. /\ pc[c] = "idle" /\ pc' = [pc EXCEPT ![c] = "coalesce"]
        /\ UNCHANGED <<points, toInsert, wire, failures>>
    BY <1>1 DEF Submit, Goto
  <2>3. /\ pc'[c] = "coalesce" /\ batch'[c] = S /\ batch[c] = {}
        /\ \A d \in Calls \ {c} : pc'[d] = pc[d] /\ batch'[d] = batch[d]
    BY <2>1, <2>2 DEF IndexInv, IndexTypeOK, SentIsWellFormed
  <2>4. wire[c] = {} /\ toInsert[c] = {}
    BY <2>3 DEF IndexInv, IndexTypeOK
  <2>5. IndexTypeOK'
    BY <2>1, <2>2, <2>3, <2>4 DEF IndexInv, IndexTypeOK
  <2> QED BY <2>2, <2>3, <2>4, <2>5
          DEF IndexInv, SentIsWellFormed, UnsentIsStored, AcknowledgedIsStored, ConflictIsReal,
              SelfConflict
<1>2. ASSUME NEW c \in Calls, Coalesce(c) PROVE IndexInv'
  <2>1. PICK where : Goto(c, where) /\
          where = IF SelfConflict(batch[c]) THEN "conflict"
                  ELSE IF \E e \in batch[c] : e.value \in WrongSize THEN "invalid" ELSE "retrieve"
    BY <1>2 DEF Coalesce
  <2> QED BY <1>2, <2>1, CallStep DEF Coalesce, IndexInv, IndexTypeOK, SentIsWellFormed
<1>3. ASSUME NEW c \in Calls, Retrieve(c) PROVE IndexInv'
  <2>1. PICK view \in Views(batch[c]) :
          LET missing == {e \in batch[c] : e.key \notin view}
          IN  IF \E e \in batch[c] : e.key \in view /\ points[e.key] # e.value
                THEN Goto(c, "conflict") /\ UNCHANGED <<toInsert, wire>>
                ELSE /\ toInsert' = [toInsert EXCEPT ![c] = missing]
                     /\ wire' = [wire EXCEPT ![c] = @ \cup missing]
                     /\ Goto(c, IF missing = {} THEN "ok" ELSE "upsert")
    BY <1>3 DEF Retrieve
  <2> DEFINE missing == {e \in batch[c] : e.key \notin view}
  <2>2. pc[c] = "retrieve" /\ UNCHANGED <<points, batch, failures>>
        /\ \A e \in batch[c] : e.value \notin WrongSize
    BY <1>3 DEF Retrieve, IndexInv, SentIsWellFormed
  <2>3. CASE \E e \in batch[c] : e.key \in view /\ points[e.key] # e.value
    <3>1. \E e \in batch[c] : points[e.key] \notin {NoPoint, e.value}
      <4>1. PICK e \in batch[c] : e.key \in view /\ points[e.key] # e.value
        BY <2>3
      <4>2. points[e.key] # NoPoint
        BY <4>1, ViewsAreStored
      <4> QED BY <4>1, <4>2
    <3> QED BY <2>1, <2>2, <2>3, <3>1, CallStep DEF IndexInv, IndexTypeOK
  <2>4. CASE ~ \E e \in batch[c] : e.key \in view /\ points[e.key] # e.value
    <3>1. /\ toInsert' = [toInsert EXCEPT ![c] = missing]
          /\ wire' = [wire EXCEPT ![c] = @ \cup missing]
          /\ Goto(c, IF missing = {} THEN "ok" ELSE "upsert")
      BY <2>1, <2>4
    <3>2. missing \subseteq batch[c] /\ batch[c] \in SUBSET Entries /\ wire[c] \subseteq batch[c]
      BY DEF IndexInv, IndexTypeOK
    <3>3. /\ toInsert'[c] = missing /\ wire'[c] = wire[c] \cup missing
          /\ \A d \in Calls \ {c} : toInsert'[d] = toInsert[d] /\ wire'[d] = wire[d]
          /\ toInsert' \in [Calls -> SUBSET Entries] /\ wire' \in [Calls -> SUBSET Entries]
      BY <3>1, <3>2 DEF IndexInv, IndexTypeOK
    <3>4. \A e \in batch[c] \ missing : points[e.key] = e.value
      BY <2>4
    <3>5. PICK where : Goto(c, where) /\ where = IF missing = {} THEN "ok" ELSE "upsert"
      BY <3>1
    <3>6. failures' \in 0 .. MaxFailures
      BY <2>2 DEF IndexInv, IndexTypeOK
    <3> HIDE DEF missing
    <3> QED BY <2>2, <3>2, <3>3, <3>4, <3>5, <3>6, CallStep
  <2> QED BY <2>3, <2>4
<1>4. ASSUME NEW c \in Calls, ApplyPoint(c) PROVE IndexInv'
  <2>1. PICK e \in wire[c] :
          /\ wire' = [wire EXCEPT ![c] = @ \ {e}]
          /\ points' = [points EXCEPT ![e.key] = IF @ = NoPoint THEN e.value ELSE @]
          /\ UNCHANGED <<pc, batch, toInsert, failures>>
    BY <1>4 DEF ApplyPoint
  <2>2. e \in Entries
    BY DEF IndexInv, IndexTypeOK
  <2>3. \A i \in Ids : points[i] # NoPoint => points'[i] = points[i]
    BY <1>4, PointsStay DEF IndexInv
  <2>4. IndexTypeOK'
    BY <2>1, <2>2 DEF IndexInv, IndexTypeOK, Entries
  <2>5. \A d \in Calls : batch[d] \subseteq Entries
    BY DEF IndexInv, IndexTypeOK
  <2>6. SentIsWellFormed'
    BY <2>1 DEF IndexInv, IndexTypeOK, SentIsWellFormed
  <2>7. \A f \in Entries : points[f.key] = f.value => points'[f.key] = f.value
    BY <2>3, IndexAssumption DEF Entries
  <2>8. \A f \in Entries : points[f.key] \notin {NoPoint, f.value} => points'[f.key] \notin {NoPoint, f.value}
    BY <2>3 DEF Entries
  <2>9. UnsentIsStored' /\ AcknowledgedIsStored'
    BY <2>1, <2>5, <2>7 DEF IndexInv, UnsentIsStored, AcknowledgedIsStored
  <2>10. ConflictIsReal'
    BY <2>1, <2>5, <2>8 DEF IndexInv, ConflictIsReal, SelfConflict
  <2> QED BY <2>4, <2>6, <2>9, <2>10 DEF IndexInv
<1>5. ASSUME NEW c \in Calls, UpsertAnswers(c) PROVE IndexInv'
  BY <1>5, CallStep DEF UpsertAnswers, IndexInv, IndexTypeOK, SentIsWellFormed, UnsentIsStored
<1>6. ASSUME NEW c \in Calls, Verify(c) PROVE IndexInv'
  <2>1. PICK view \in Views(toInsert[c]) :
          LET atFault == {e \in toInsert[c] : e.key \notin view \/ points[e.key] # e.value}
              ends == {IF e.key \in view THEN "conflict" ELSE "unavailable" : e \in atFault}
          IN  \E end \in IF atFault = {} THEN {"ok"} ELSE ends : Goto(c, end)
    BY <1>6 DEF Verify
  <2>2. pc[c] = "verify" /\ UNCHANGED <<points, batch, toInsert, wire, failures>>
        /\ (\A e \in batch[c] : e.value \notin WrongSize)
        /\ toInsert[c] \subseteq batch[c]
        /\ \A e \in batch[c] \ toInsert[c] : points[e.key] = e.value
    BY <1>6 DEF Verify, IndexInv, IndexTypeOK, SentIsWellFormed, UnsentIsStored
  <2>3. CASE \A e \in toInsert[c] : e.key \in view /\ points[e.key] = e.value
    <3>1. Goto(c, "ok")
      BY <2>1, <2>3
    <3> QED BY <2>2, <2>3, <3>1, CallStep DEF IndexInv, IndexTypeOK
  <2>4. CASE \E e \in toInsert[c] : e.key \notin view \/ points[e.key] # e.value
    <3>1. PICK e \in toInsert[c] : /\ e.key \notin view \/ points[e.key] # e.value
                                   /\ Goto(c, IF e.key \in view THEN "conflict" ELSE "unavailable")
      BY <2>1, <2>4
    <3>2. e.key \in view => points[e.key] \notin {NoPoint, e.value}
      BY <3>1, ViewsAreStored
    <3>3. e \in batch[c]
      BY <2>2
    <3>4. CASE e.key \in view
      BY <2>2, <3>1, <3>2, <3>3, <3>4, CallStep DEF IndexInv, IndexTypeOK
    <3>5. CASE e.key \notin view
      BY <2>2, <3>1, <3>5, CallStep DEF IndexInv, IndexTypeOK
    <3> QED BY <3>4, <3>5
  <2> QED BY <2>3, <2>4
<1>7. ASSUME NEW c \in Calls, BackendError(c) PROVE IndexInv'
  <2>1. PICK late \in SUBSET wire[c] : wire' = [wire EXCEPT ![c] = late]
    BY <1>7 DEF BackendError
  <2>2. failures' \in 0 .. MaxFailures
    BY <1>7, IndexAssumption DEF BackendError, IndexInv, IndexTypeOK
  <2>3. /\ wire' \in [Calls -> SUBSET Entries] /\ wire'[c] \subseteq batch[c]
        /\ \A d \in Calls \ {c} : wire'[d] = wire[d]
    BY <2>1 DEF IndexInv, IndexTypeOK
  <2> QED BY <1>7, <2>2, <2>3, CallStep DEF BackendError, IndexInv, IndexTypeOK, SentIsWellFormed
<1>8. ASSUME NEW c \in Calls, Retry(c) PROVE IndexInv'
  <2>1. /\ toInsert' \in [Calls -> SUBSET Entries] /\ toInsert'[c] = {}
        /\ \A d \in Calls \ {c} : toInsert'[d] = toInsert[d]
    BY <1>8 DEF Retry, IndexInv, IndexTypeOK
  <2> QED BY <1>8, <2>1, CallStep DEF Retry, IndexInv, IndexTypeOK, SentIsWellFormed
<1>9. CASE UNCHANGED indexVars
  BY <1>9
     DEF indexVars, IndexInv, IndexTypeOK, SentIsWellFormed, UnsentIsStored, AcknowledgedIsStored,
              ConflictIsReal, SelfConflict
<1> QED BY <1>1, <1>2, <1>3, <1>4, <1>5, <1>6, <1>7, <1>8, <1>9 DEF IndexNext

(* The inductive invariant holds of every reachable state.                  *)
THEOREM IndexInvariantHolds == IndexSpec => []IndexInv
<1>1. IndexInv /\ [IndexNext]_indexVars => IndexInv'
  BY IndexNextKeeps
<1> QED BY IndexInitially, <1>1, PTL DEF IndexSpec

(* Whatever callers and server do, the index state stays well-typed and     *)
(* only entries of a call's own batch are ever on the wire.                 *)
THEOREM IndexTypesCorrect == IndexSpec => []IndexTypeOK
<1>1. IndexInv => IndexTypeOK
  BY DEF IndexInv
<1> QED BY IndexInvariantHolds, <1>1, PTL

(* When index returns, every entry of the batch is stored as it was sent,   *)
(* and stays so.                                                            *)
THEOREM IndexAcknowledgementsHold == IndexSpec => []AcknowledgedIsStored
<1>1. IndexInv => AcknowledgedIsStored
  BY DEF IndexInv
<1> QED BY IndexInvariantHolds, <1>1, PTL

(* ConflictError is never raised for a batch that could have been stored.   *)
THEOREM IndexConflictsAreReal == IndexSpec => []ConflictIsReal
<1>1. IndexInv => ConflictIsReal
  BY DEF IndexInv
<1> QED BY IndexInvariantHolds, <1>1, PTL

-----------------------------------------------------------------------------
IndexEnds == {"ok", "conflict", "invalid", "unavailable"}
IndexOpen == {"coalesce", "retrieve", "upsert", "verify"}

(* What the step of one call does to the answers of the port.               *)
LEMMA IndexAbstractStep ==
  ASSUME IndexInv, NEW c \in Calls, NEW where, Goto(c, where)
  PROVE  absAnswer' = [absAnswer EXCEPT ![c] = IF where \in IndexEnds THEN where ELSE "none"]
BY DEF absAnswer, Goto, IndexInv, IndexTypeOK, IndexEnds

(* An open call has asked for something and has no answer yet.              *)
LEMMA IndexOpenCallsAsked ==
  ASSUME IndexInv, NEW c \in Calls, pc[c] \in IndexOpen
  PROVE  absAnswer[c] = "none" /\ batch[c] # {}
BY DEF absAnswer, IndexInv, SentIsWellFormed, IndexOpen

(* A call that moves on, the collection untouched, is a stutter.            *)
LEMMA IndexStutterMaps ==
  ASSUME IndexInv, NEW c \in Calls, pc[c] \in IndexOpen, NEW where \in IndexOpen, Goto(c, where),
         points' = points, batch' = batch
  PROVE  UNCHANGED Port!vars
<1>1. absAnswer' = [absAnswer EXCEPT ![c] = "none"]
  BY IndexAbstractStep DEF IndexEnds, IndexOpen
<1>2. absAnswer' = absAnswer
  BY <1>1, IndexOpenCallsAsked DEF absAnswer
<1> QED BY <1>2 DEF Port!vars

(* A call that ends unavailable is the port's Fail for that call alone.     *)
LEMMA IndexUnavailableMaps ==
  ASSUME IndexInv, NEW c \in Calls, pc[c] \in IndexOpen, Goto(c, "unavailable"),
         points' = points, batch' = batch
  PROVE  Port!Next
<1>1. absAnswer' = [absAnswer EXCEPT ![c] = "unavailable"]
  BY IndexAbstractStep DEF IndexEnds
<1>2. absAnswer[c] = "none" /\ batch[c] # {}
  BY IndexOpenCallsAsked
<1>3. absAnswer' = [d \in Calls |-> IF d \in {c} THEN "unavailable" ELSE absAnswer[d]]
  BY <1>1 DEF absAnswer
<1>4. Port!Fail({c})
  BY <1>2, <1>3 DEF Port!Fail
<1> QED BY <1>4 DEF Port!Next

(* A batch that contradicts itself is one the port may refuse.              *)
LEMMA IndexSelfConflictRefused ==
  ASSUME NEW S \in SUBSET Entries, SelfConflict(S)
  PROVE  Port!Refused(S)
<1>1. PICK d \in S, e \in S : d.key = e.key /\ d # e
  BY DEF SelfConflict
<1>2. d.value # e.value
  BY <1>1 DEF Entries
<1> QED BY <1>1, <1>2 DEF Port!Refused

(* An answer the invariant vouches for in the next state is the port's: the *)
(* collection and the batch are the same in both.                           *)
LEMMA AnswerMaps ==
  ASSUME IndexInv, IndexInv', NEW c \in Calls, NEW a \in {"ok", "conflict", "invalid"},
         pc[c] \in IndexOpen, Goto(c, a), points' = points, batch' = batch
  PROVE  Port!Next
<1>1. absAnswer' = [absAnswer EXCEPT ![c] = a] /\ pc'[c] = a
  BY IndexAbstractStep DEF IndexEnds, Goto, IndexInv, IndexTypeOK
<1>2. absAnswer[c] = "none" /\ batch[c] # {} /\ batch[c] \in SUBSET Entries
  BY IndexOpenCallsAsked DEF IndexInv, IndexTypeOK
<1>3. a = "ok" => \A e \in batch[c] : Port!Stored(e)
  BY <1>1 DEF IndexInv, AcknowledgedIsStored, Port!Stored
<1>4. a = "conflict" => Port!Refused(batch[c])
  <2>1. a = "conflict" => SelfConflict(batch[c]) \/ \E e \in batch[c] : points[e.key] \notin {NoPoint, e.value}
    BY <1>1 DEF IndexInv, ConflictIsReal, SelfConflict
  <2> QED BY <1>2, <2>1, IndexSelfConflictRefused DEF Port!Refused
<1>5. Port!Answer(c, a)
  BY <1>1, <1>2, <1>3, <1>4 DEF Port!Answer
<1> QED BY <1>5 DEF Port!Next

(* A point the server applies is the port's Write of that one entry, or     *)
(* nothing when its id is taken; also when its call has long given up.      *)
LEMMA ApplyMaps ==
  ASSUME IndexInv, NEW c \in Calls, ApplyPoint(c)
  PROVE  [Port!Next]_(Port!vars)
<1>1. PICK e \in wire[c] :
        /\ points' = [points EXCEPT ![e.key] = IF @ = NoPoint THEN e.value ELSE @]
        /\ UNCHANGED <<pc, batch>>
  BY DEF ApplyPoint
<1>2. e \in batch[c] /\ e \in Entries /\ points \in [Ids -> Fingerprints \cup {NoPoint}]
  BY DEF IndexInv, IndexTypeOK
<1>3. absAnswer' = absAnswer
  BY <1>1 DEF absAnswer
<1>4. CASE points[e.key] # NoPoint
  <2>1. points' = points
    BY <1>1, <1>2, <1>4 DEF Entries
  <2> QED BY <1>1, <1>3, <2>1 DEF Port!vars
<1>5. CASE points[e.key] = NoPoint
  <2>1. absAnswer[c] # "invalid"
    <3>1. pc[c] # "invalid"
      BY DEF IndexInv, SentIsWellFormed
    <3> QED BY <3>1 DEF absAnswer
  <2> DEFINE W == {e}
  <2>2. \A k \in Ids : points'[k] = IF \E d \in W : d.key = k
                                      THEN (CHOOSE d \in W : d.key = k).value
                                      ELSE points[k]
    <3>1. \A k \in Ids : (\E d \in W : d.key = k) <=> k = e.key
      OBVIOUS
    <3>2. \A k \in Ids : k = e.key => (CHOOSE d \in W : d.key = k) = e
      OBVIOUS
    <3>3. points'[e.key] = e.value /\ \A k \in Ids \ {e.key} : points'[k] = points[k]
      BY <1>1, <1>2, <1>5 DEF Entries
    <3> QED BY <3>1, <3>2, <3>3
  <2>3. W \in SUBSET batch[c] /\ (\A d, f \in W : d.key = f.key => d = f)
        /\ \A d \in W : points[d.key] = NoPoint
    BY <1>2, <1>5
  <2>4. points' = [k \in Ids |-> points'[k]]
    BY <1>1, <1>2
  <2>5. Port!Write(c)
    <3> HIDE DEF W
    <3>1. points' = [k \in Ids |-> IF \E d \in W : d.key = k
                                     THEN (CHOOSE d \in W : d.key = k).value
                                     ELSE points[k]]
      BY <2>2, <2>4
    <3> QED BY <1>1, <1>3, <2>1, <2>3, <3>1 DEF Port!Write
  <2> QED BY <2>5 DEF Port!Next
<1> QED BY <1>4, <1>5

(* Every step of the index is a step of the port, or none.                  *)
LEMMA IndexNextMaps ==
  ASSUME IndexInv, IndexInv', [IndexNext]_indexVars
  PROVE  [Port!Next]_(Port!vars)
<1> USE DEF IndexOpen
<1>1. ASSUME NEW c \in Calls, Submit(c) PROVE Port!Next
  <2>1. PICK S \in SUBSET Entries : batch' = [batch EXCEPT ![c] = S]
    BY <1>1 DEF Submit
  <2>2. absAnswer' = [absAnswer EXCEPT ![c] = "none"] /\ absAnswer[c] = "none"
    BY <1>1, IndexAbstractStep DEF Submit, IndexEnds, absAnswer
  <2>3. absAnswer' = absAnswer
    BY <2>2 DEF absAnswer
  <2>4. batch[c] = {} /\ S \in SUBSET Port!Entries
    BY <1>1 DEF Submit, IndexInv, SentIsWellFormed, Entries, Port!Entries
  <2>5. Port!Ask(c)
    BY <1>1, <2>1, <2>2, <2>3, <2>4 DEF Port!Ask, Submit
  <2> QED BY <2>5 DEF Port!Next
<1>2. ASSUME NEW c \in Calls, Coalesce(c) PROVE [Port!Next]_(Port!vars)
  <2>1. PICK where \in {"conflict", "invalid", "retrieve"} : Goto(c, where)
    BY <1>2 DEF Coalesce
  <2> QED BY <1>2, <2>1, AnswerMaps, IndexStutterMaps DEF Coalesce
<1>3. ASSUME NEW c \in Calls, Retrieve(c) PROVE [Port!Next]_(Port!vars)
  <2>1. PICK where \in {"conflict", "ok", "upsert"} : Goto(c, where)
    BY <1>3 DEF Retrieve
  <2> QED BY <1>3, <2>1, AnswerMaps, IndexStutterMaps DEF Retrieve
<1>4. ASSUME NEW c \in Calls, ApplyPoint(c) PROVE [Port!Next]_(Port!vars)
  BY <1>4, ApplyMaps
<1>5. ASSUME NEW c \in Calls, UpsertAnswers(c) PROVE [Port!Next]_(Port!vars)
  BY <1>5, IndexStutterMaps DEF UpsertAnswers
<1>6. ASSUME NEW c \in Calls, Verify(c) PROVE Port!Next
  <2>1. PICK where \in {"ok", "conflict", "unavailable"} : Goto(c, where)
    BY <1>6 DEF Verify
  <2> QED BY <1>6, <2>1, AnswerMaps, IndexUnavailableMaps DEF Verify
<1>7. ASSUME NEW c \in Calls, BackendError(c) PROVE Port!Next
  BY <1>7, IndexUnavailableMaps DEF BackendError
<1>8. ASSUME NEW c \in Calls, Retry(c) PROVE Port!Next
  <2>1. absAnswer[c] = "unavailable" /\ absAnswer' = [absAnswer EXCEPT ![c] = "none"]
    BY <1>8, IndexAbstractStep DEF Retry, absAnswer, IndexEnds
  <2>2. Port!Retry(c)
    BY <1>8, <2>1 DEF Port!Retry, Retry
  <2> QED BY <2>2 DEF Port!Next
<1>9. CASE UNCHANGED indexVars
  BY <1>9 DEF indexVars, absAnswer, Port!vars
<1> QED BY <1>1, <1>2, <1>3, <1>4, <1>5, <1>6, <1>7, <1>8, <1>9 DEF IndexNext

(* index implements DocumentVectorIndexPort as a write-once store for every *)
(* number of callers, late upserts and stale reads included: no point is    *)
(* replaced, no acknowledgement is false and no conflict spurious.          *)
THEOREM IndexImplementsPort == IndexSpec => ImplementsPort
<1>1. IndexInit => Port!Init
  BY DEF IndexInit, Port!Init, absAnswer
<1>2. IndexInv /\ IndexInv' /\ [IndexNext]_indexVars => [Port!Next]_(Port!vars)
  BY IndexNextMaps
<1> QED BY <1>1, <1>2, IndexInvariantHolds, PTL DEF IndexSpec, ImplementsPort, Port!Spec
=============================================================================
