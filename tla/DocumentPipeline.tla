--------------------------- MODULE DocumentPipeline ---------------------------
(***************************************************************************)
(* From a document to a regulatory constraint.  Jobs extract the text of a *)
(* PDF (or take chunks from an HTTP request), embed it and index it;       *)
(* queries embed a question, search the index and infer constraints from   *)
(* the chunks found.  Jobs and queries interleave at every call of a       *)
(* provider or of the store; a job may be run again at any time.           *)
(*                                                                         *)
(* A vector is known by the text it embeds, the variant of the embedding   *)
(* (a provider need not return the same floats twice), its dimension and   *)
(* whether its elements are finite floats.                                 *)
(***************************************************************************)
EXTENDS Integers, FiniteSets, Sequences, SequencesExt, Enumeration

CONSTANTS Jobs, Queries,    \* the actors
          Workloads,        \* who runs together, and within which bounds (see workload)
          Document,         \* job -> document_id
          HttpBatches,      \* the chunk tuples a request may carry
          Questions,        \* the [text, limit] a query may be asked
          Blank,            \* text of white space only
          Unreadable,       \* a page pypdf cannot extract
          None,             \* Python's None
          Refused,          \* DependencyUnavailableError while reading an answer
          VectorSize,       \* dimension of the collection
          MaxHits           \* bound: length of a search answer

ASSUME PipelineAssumption ==
  /\ VectorSize \in Nat \ {0} /\ None \notin Int
  /\ \A chunks \in HttpBatches : IsTuple(chunks)
  /\ \A w \in Workloads :
       /\ w.queries \subseteq Queries /\ w.edits \in Nat
       /\ \A source \in w.files : IsTuple(source.pages)

VARIABLES workload,   \* fixed: origin (job -> "pdf" or "http"), the queries that run, the
                      \* files a PDF may be, the variants of the provider's floats, and
                      \* the bound on edits of the files
          file, edits, variants, store, job, query

vars == <<workload, file, edits, variants, store, job, query>>

Key(chunk) == <<chunk.document_id, chunk.chunk_id>>

IdleJob ==
  [pc |-> "idle", read |-> None, chunks |-> <<>>, quarantined |-> FALSE, entries |-> <<>>,
   todo |-> {}, outcome |-> "none"]
IdleQuery ==
  [pc |-> "idle", limit |-> 0, vector |-> None, found |-> <<>>, offered |-> <<>>, constraints |-> <<>>,
   outcome |-> "none"]

Init ==
  /\ workload \in Workloads
  /\ file \in [{Document[j] : j \in Jobs} -> workload.files]
  /\ edits = 0 /\ variants = {} /\ store = {}
  /\ job = [j \in Jobs |-> IdleJob] /\ query = [q \in Queries |-> IdleQuery]

EndJob(j, outcome) == job' = [job EXCEPT ![j].pc = "done", ![j].outcome = outcome]
EndQuery(q, outcome) == query' = [query EXCEPT ![q].pc = "done", ![q].outcome = outcome]

-----------------------------------------------------------------------------
(* Extraction: one chunk per page with text, numbered without gaps; one    *)
(* page that cannot be read quarantines the whole document.                *)

PdfChunkId(document, page) == <<document, "page", page>>

PdfChunks(document, pages) ==
  LET kept == InOrder({n \in DOMAIN pages : pages[n] # Blank})
  IN  [k \in DOMAIN kept |->
        [document_id |-> document, chunk_id |-> PdfChunkId(document, kept[k]),
         ordinal |-> k - 1, text |-> pages[kept[k]], page_number |-> kept[k]]]

\* mutant: a page that cannot be read is skipped
ExtractSkipping(document, source) ==
  IF source.kind # "pages" THEN [chunks |-> <<>>, quarantined |-> TRUE]
  ELSE [chunks |-> PdfChunks(document, [n \in DOMAIN source.pages |->
                     IF source.pages[n] = Unreadable THEN Blank ELSE source.pages[n]]),
        quarantined |-> FALSE]

\* kind is "pages", or "invalid" for an encrypted or unparsable file.
ExtractFromReader(document, source) ==
  IF source.kind # "pages" \/ \E n \in DOMAIN source.pages : source.pages[n] = Unreadable
  THEN [chunks |-> <<>>, quarantined |-> TRUE]
  ELSE [chunks |-> PdfChunks(document, source.pages), quarantined |-> FALSE]

\* A chunk tuple satisfies the invariants of the extraction result.
ValidResult(document, chunks) ==
  /\ \A k \in DOMAIN chunks : chunks[k].document_id = document
  /\ \A k, m \in DOMAIN chunks : k # m => chunks[k].chunk_id # chunks[m].chunk_id

\* ExtractedDocumentChunk accepts these fields.
ValidChunk(chunk) ==
  /\ chunk.text # Blank /\ chunk.ordinal >= 0
  /\ chunk.page_number # None => chunk.page_number >= 1

\* A document without text is not embedded.  A file that is not there is an
\* unavailable dependency.
ExtractPdf(j) ==
  /\ workload.origin[j] = "pdf" /\ job[j].pc \in {"idle", "done"}
  /\ LET source == file[Document[j]]
         result == ExtractFromReader(Document[j], source)
     IN  \/ source.kind = "missing" /\ EndJob(j, "unavailable")
         \/ /\ source.kind # "missing"
            /\ IF ~ValidResult(Document[j], result.chunks) THEN EndJob(j, "internal")
               ELSE job' = [job EXCEPT ![j] =
                      [IdleJob EXCEPT !.read = source, !.chunks = result.chunks,
                                      !.quarantined = result.quarantined,
                                      !.pc = IF result.chunks = <<>> THEN "done" ELSE "embed",
                                      !.outcome = IF result.chunks = <<>> THEN "ok" ELSE "none"]]
  /\ UNCHANGED <<workload, file, edits, variants, store, query>>

\* The router builds a chunk of each item of the request; a ValueError there
\* is not an application error.
ReceiveChunks(j, chunks) ==
  /\ workload.origin[j] = "http" /\ job[j].pc \in {"idle", "done"}
  /\ \/ /\ \A k \in DOMAIN chunks : ValidChunk(chunks[k])
        /\ job' = [job EXCEPT ![j] =
             [IdleJob EXCEPT !.chunks = chunks, !.pc = "embed"]]
     \/ /\ \E k \in DOMAIN chunks : ~ValidChunk(chunks[k])
        /\ EndJob(j, "internal")
  /\ UNCHANGED <<workload, file, edits, variants, store, query>>

-----------------------------------------------------------------------------
(* Embedding.  External: the provider embeds text i in the item of index i *)
(* and may return the items in any order, or get the answer wrong.         *)

Vector(text, variant) ==
  [of |-> text, variant |-> variant, dim |-> VectorSize, finite |-> TRUE]

GoodAnswers(texts, variant) ==
  LET Position == DOMAIN texts
      Orders == {f \in [Position -> Position] : \A a, b \in Position : f[a] = f[b] => a = b}
  IN  {[k \in Position |-> [index |-> order[k] - 1, vector |-> Vector(texts[order[k]], variant)]]
         : order \in Orders}
      \union {[k \in Position |-> [index |-> None, vector |-> Vector(texts[k], variant)]]}

\* An item is missing, one is sent in the place of all, an index or a vector is wrong.
WrongAnswers(texts, variant) ==
  LET n == Len(texts)
      good == [k \in 1 .. n |-> [index |-> k - 1, vector |-> Vector(texts[k], variant)]]
  IN  {Tail(good), [k \in 1 .. n |-> good[1]], [good EXCEPT ![1].index = n], [good EXCEPT ![1].vector = None],
       [good EXCEPT ![n].vector.finite = FALSE], [good EXCEPT ![1].vector.dim = VectorSize + 1],
       [k \in 1 .. n |-> [good[k] EXCEPT !.vector.dim = VectorSize + 1]]}

\* A vector the application accepts: finite floats, at least one of them.
ValidVector(vector) == vector # None /\ vector.finite /\ vector.dim >= 1

\* mutant: the provider's index is not looked at
ItemsAsTheyCame(data, expected) == IF Len(data) # expected THEN Refused ELSE data

\* The items in the order of their indexes; without an index the position counts.
OrderedProviderItems(data, expected) ==
  LET Index(k) == IF data[k].index = None THEN k - 1 ELSE data[k].index
  IN  IF Len(data) # expected \/ {Index(k) : k \in DOMAIN data} # 0 .. expected - 1
      THEN Refused
      ELSE [i \in 1 .. expected |-> data[CHOOSE k \in DOMAIN data : Index(k) = i - 1]]

ToChunkEmbeddings(chunks, data) ==
  LET items == OrderedProviderItems(data, Len(chunks))
  IN  IF \/ items = Refused
         \/ \E k \in DOMAIN items : ~ValidVector(items[k].vector)
         \/ Cardinality({items[k].vector.dim : k \in DOMAIN items}) # 1
      THEN Refused
      ELSE [k \in DOMAIN items |->
             [document_id |-> chunks[k].document_id, chunk_id |-> chunks[k].chunk_id,
              vector |-> items[k].vector]]

\* Chunk and embedding are paired by position and must agree on their identity.
ToIndexEntries(chunks, embeddings) ==
  IF Len(embeddings) # Len(chunks) \/ \E k \in DOMAIN chunks : Key(embeddings[k]) # Key(chunks[k])
  THEN Refused
  ELSE [k \in DOMAIN chunks |-> [chunk |-> chunks[k], vector |-> embeddings[k].vector]]

Embed(j, data) ==
  LET embeddings == ToChunkEmbeddings(job[j].chunks, data)
      entries == IF embeddings = Refused THEN Refused
                 ELSE ToIndexEntries(job[j].chunks, embeddings)
  IN  IF entries = Refused THEN EndJob(j, "unavailable")
      ELSE job' = [job EXCEPT ![j].pc = "retrieve", ![j].entries = entries]

EmbedChunks(j) ==
  /\ job[j].pc = "embed"
  /\ \/ /\ job[j].chunks = <<>>
        /\ EndJob(j, "ok") /\ UNCHANGED variants
     \/ job[j].chunks # <<>> /\ EndJob(j, "unavailable") /\ UNCHANGED variants
     \/ /\ job[j].chunks # <<>>
        /\ LET texts == [k \in DOMAIN job[j].chunks |-> job[j].chunks[k].text] IN
             \E v \in workload.variants : \E data \in GoodAnswers(texts, v) \union WrongAnswers(texts, v) :
               Embed(j, data) /\ variants' = variants \union {v}
  /\ UNCHANGED <<workload, file, edits, store, query>>

-----------------------------------------------------------------------------
(* Indexing, as DocumentVectorIndex has it in detail: compare with what is *)
(* stored, insert what is missing, verify.                                 *)

Conflicting(entries) ==
  \E k, m \in DOMAIN entries :
    Key(entries[k].chunk) = Key(entries[m].chunk) /\ entries[k] # entries[m]

Disputed(entry) == \E point \in store : Key(point.chunk) = Key(entry.chunk) /\ point # entry

RetrieveEntries(j) ==
  /\ job[j].pc = "retrieve"
  /\ LET entries == job[j].entries IN
       \/ EndJob(j, "unavailable")
       \/ Conflicting(entries) /\ EndJob(j, "conflict")
       \/ /\ ~Conflicting(entries)
          /\ \E e \in ToSet(entries) : e.vector.dim # VectorSize
          /\ EndJob(j, "invalid")
       \/ /\ ~Conflicting(entries)
          /\ \A e \in ToSet(entries) : e.vector.dim = VectorSize
          /\ IF \E e \in ToSet(entries) : Disputed(e)
             THEN EndJob(j, "conflict")
             ELSE job' = [job EXCEPT ![j].pc = "upsert", ![j].todo = ToSet(entries) \ store]
  /\ UNCHANGED <<workload, file, edits, variants, store, query>>

\* Points are inserted only where no point is; an error may leave some behind.
InsertedOf(entries) == {e \in entries : \A point \in store : Key(point.chunk) # Key(e.chunk)}

UpsertEntries(j) ==
  /\ job[j].pc = "upsert"
  /\ \/ /\ store' = store \union InsertedOf(job[j].todo)
        /\ EndJob(j, IF \E e \in job[j].todo : Disputed(e) THEN "conflict" ELSE "ok")
     \/ /\ job[j].todo # {} /\ EndJob(j, "unavailable")
        /\ \E some \in SUBSET InsertedOf(job[j].todo) : store' = store \union some
  /\ UNCHANGED <<workload, file, edits, variants, query>>

\* Somebody replaces a file between two extractions.
EditFile(document, source) ==
  /\ edits < workload.edits /\ file[document] # source
  /\ file' = [file EXCEPT ![document] = source] /\ edits' = edits + 1
  /\ UNCHANGED <<workload, variants, store, job, query>>

-----------------------------------------------------------------------------
(* A query: embed, search, infer.                                          *)

ValidQueryVector(vector) == ValidVector(vector)

\* One item with a valid vector, or the answer is refused.
ToQueryEmbedding(data) ==
  IF Len(data) # 1 \/ (Len(data) = 1 /\ ~ValidQueryVector(data[1].vector))
  THEN Refused ELSE data[1].vector

\* The search query of a vector and the caller's limit.  The HTTP schema wants a
\* positive limit; for other callers the query's constructor raises a ValueError.
Prepare(q, vector, limit) ==
  IF limit < 1 THEN EndQuery(q, "internal")
  ELSE query' = [query EXCEPT ![q] =
         [IdleQuery EXCEPT !.pc = "search", !.vector = vector, !.limit = limit]]

EmbedQuery(q, question) ==
  /\ query[q].pc \in {"idle", "done"}
  /\ LET text == question.text IN
       \/ text = Blank /\ EndQuery(q, "invalid")
       \/ text # Blank /\ EndQuery(q, "unavailable")
       \/ /\ text # Blank
          /\ \E v \in workload.variants :
               \E data \in GoodAnswers(<<text>>, v) \union WrongAnswers(<<text>>, v) :
                 LET vector == ToQueryEmbedding(data) IN
                   IF vector = Refused THEN EndQuery(q, "unavailable")
                   ELSE Prepare(q, vector, question.limit)
  /\ UNCHANGED <<workload, file, edits, variants, store, job>>

\* The payload has exactly the expected keys and types, and the point's id is
\* the one of its identity.
Readable(hit) == hit # None

\* The chunks of an answer: no more than asked for, every payload readable,
\* every identity once.
ParseHits(limit, hits) ==
  IF \/ Len(hits) > limit \/ \E k \in DOMAIN hits : ~Readable(hits[k])
     \/ \E a, b \in DOMAIN hits : a # b /\ Key(hits[a].chunk) = Key(hits[b].chunk)
  THEN Refused
  ELSE [k \in DOMAIN hits |-> hits[k].chunk]

\* The agent asks for no inference when nothing was found.
AfterSearch(q, found) ==
  query' = [query EXCEPT ![q].found = found,
              ![q].pc = IF found = <<>> THEN "done" ELSE "infer",
              ![q].outcome = IF found = <<>> THEN "ok" ELSE "none"]

\* The store ranks; a payload it cannot read back is None.
Search(q) ==
  /\ query[q].pc = "search"
  /\ \/ query[q].vector.dim # VectorSize /\ EndQuery(q, "invalid")
     \/ query[q].vector.dim = VectorSize /\ EndQuery(q, "unavailable")
     \/ /\ query[q].vector.dim = VectorSize
        /\ \E hits \in SeqOf(store \union {None}, MaxHits) :
             LET found == ParseHits(query[q].limit, hits) IN
               \/ found = Refused /\ EndQuery(q, "unavailable")
               \/ found # Refused /\ AfterSearch(q, found)
  /\ UNCHANGED <<workload, file, edits, variants, store, job>>

\* mutant: one known chunk is enough
SomeEvidenceIsKnown(evidence, known) == evidence \intersect known # {}

EvidenceIsKnown(evidence, known) == evidence \subseteq known

\* The provider's schema, by which the SDK parses the answer: some evidence.
ParsesAsEnvelope(envelope) == \A k \in DOMAIN envelope : envelope[k].evidence # {}

\* The domain model: the window and the bounds in order.
ValidCandidate(candidate) == candidate.ordered

\* One candidate that does not hold refuses the whole answer.
ToConstraints(envelope, found) ==
  IF \A k \in DOMAIN envelope :
       /\ ValidCandidate(envelope[k])
       /\ EvidenceIsKnown(envelope[k].evidence, {found[i].chunk_id : i \in DOMAIN found})
  THEN envelope ELSE Refused

\* External: a model may cite any chunk the store ever held, none, or several.
Candidates ==
  [evidence : SUBSET {point.chunk.chunk_id : point \in store}, ordered : BOOLEAN]

\* A failed call, a refusal and a missing envelope are all unavailable.  An answer
\* against the schema is a ValidationError of responses.parse, which is no OpenAIError.
Infer(q) ==
  /\ query[q].pc = "infer"
  /\ \/ EndQuery(q, "unavailable")
     \/ \E envelope \in SeqOf(Candidates, 2) :
          LET constraints == ToConstraints(envelope, query[q].found) IN
            \/ ~ParsesAsEnvelope(envelope) /\ EndQuery(q, "internal")
            \/ ParsesAsEnvelope(envelope) /\ constraints = Refused /\ EndQuery(q, "unavailable")
            \/ /\ ParsesAsEnvelope(envelope) /\ constraints # Refused
               /\ query' = [query EXCEPT ![q].pc = "done", ![q].outcome = "ok",
                    ![q].offered = envelope, ![q].constraints = constraints]
  /\ UNCHANGED <<workload, file, edits, variants, store, job>>

Next ==
  \/ \E j \in Jobs :
       \/ ExtractPdf(j) \/ EmbedChunks(j) \/ RetrieveEntries(j) \/ UpsertEntries(j)
       \/ \E chunks \in HttpBatches : ReceiveChunks(j, chunks)
  \/ \E q \in workload.queries :
       (\E question \in Questions : EmbedQuery(q, question)) \/ Search(q) \/ Infer(q)
  \/ \E document \in DOMAIN file, source \in workload.files : EditFile(document, source)

Spec == Init /\ [][Next]_vars

-----------------------------------------------------------------------------
(* Properties                                                              *)

\* The variables have their types.
TypeOK ==
  /\ edits \in 0 .. workload.edits /\ variants \subseteq workload.variants
  /\ \A d \in DOMAIN file : file[d] \in workload.files
  /\ \A j \in Jobs :
       /\ job[j].pc \in {"idle", "embed", "retrieve", "upsert", "done"}
       /\ job[j].outcome \in {"none", "ok", "invalid", "conflict", "unavailable", "internal"}
       /\ job[j].todo \subseteq ToSet(job[j].entries)
  /\ \A q \in Queries :
       /\ query[q].pc \in {"idle", "search", "infer", "done"}
       /\ query[q].outcome \in {"none", "ok", "invalid", "unavailable", "internal"}

\* Every stored point carries the vector of its own text, whatever order the
\* provider returned the items in (openai_document_embedding.py).
VectorsBelongToTheirText ==
  \A point \in store : point.vector.of = point.chunk.text

\* An acknowledged document is indexed as a whole: every page with text of the
\* version that was read is stored as it was extracted, however many jobs ran in
\* between, or nothing and a dead letter (pdf_text_extraction.py, document_vector.py).
WholeDocumentOrQuarantine ==
  \A j \in Jobs :
    workload.origin[j] = "pdf" /\ job[j].outcome = "ok" =>
      \/ job[j].quarantined /\ job[j].chunks = <<>>
      \/ /\ job[j].read.kind = "pages"
         /\ {job[j].chunks[k].page_number : k \in DOMAIN job[j].chunks}
              = {n \in DOMAIN job[j].read.pages : job[j].read.pages[n] # Blank}
         /\ ToSet(job[j].entries) \subseteq store
         /\ {e.chunk : e \in ToSet(job[j].entries)} = ToSet(job[j].chunks)

\* Running the extraction of an unchanged file again, after any failure and
\* beside any other extraction, is never a conflict as long as the provider embeds
\* equal texts equally: identities and ordinals depend on the file alone.
UnchangedContentNeverConflicts ==
  edits = 0 /\ Cardinality(variants) <= 1 /\ (\A j \in Jobs : workload.origin[j] = "pdf") =>
    \A j \in Jobs : job[j].outcome # "conflict"

\* What a query answers rests on what it retrieved: every constraint cites
\* something, and only chunks found for this query; and it is never a part of what
\* the model inferred (openai_constraint_inference.py).
ConstraintsAreGrounded ==
  \A q \in Queries :
    /\ query[q].outcome = "ok" => query[q].constraints = query[q].offered
    /\ \A k \in DOMAIN query[q].constraints :
         LET cited == query[q].constraints[k].evidence IN
           /\ cited # {}
           /\ cited \subseteq {query[q].found[i].chunk_id : i \in DOMAIN query[q].found}

=============================================================================
