-------------------------- MODULE MCDocumentPipeline --------------------------
(* Two jobs index one PDF that is edited once and the provider's floats    *)
(* vary; or a PDF job and an HTTP job index one document while a query     *)
(* searches it.                                                            *)
EXTENDS DocumentPipeline

CONSTANTS j1, j2, q1, A, B

TwoPdf == [j \in {j1, j2} |-> "pdf"]
PdfAndHttp == [j \in {j1, j2} |-> IF j = j1 THEN "pdf" ELSE "http"]
OneDocument == [j \in {j1, j2} |-> "doc"]

Pages(pages) == [kind |-> "pages", pages |-> pages]
MCFiles ==
  {Pages(<<A, B>>), Pages(<<B, A>>), Pages(<<Blank, A>>), Pages(<<A, Unreadable>>),
   Pages(<<Blank>>), [kind |-> "invalid", pages |-> <<>>], [kind |-> "missing", pages |-> <<>>]}
FewFiles == {Pages(<<A, B>>), Pages(<<Blank, A>>)}

Chunk(n, text, ordinal) ==
  [document_id |-> "doc", chunk_id |-> <<"doc", "page", n>>, ordinal |-> ordinal,
   text |-> text, page_number |-> n]
MCBatches ==
  {<<>>, <<Chunk(1, A, 0)>>, <<Chunk(2, A, 0), Chunk(2, A, 0)>>,
   <<Chunk(2, A, 0), Chunk(2, A, 1)>>, <<Chunk(1, Blank, 0)>>, <<Chunk(1, A, -1)>>}

MCQuestions == {[text |-> A, limit |-> 0], [text |-> A, limit |-> 1], [text |-> A, limit |-> 2], [text |-> Blank, limit |-> 1]}
MCWorkloads ==
  {[origin |-> TwoPdf, queries |-> {}, files |-> MCFiles, variants |-> {1, 2}, edits |-> 1],
   [origin |-> PdfAndHttp, queries |-> {q1}, files |-> FewFiles, variants |-> {1}, edits |-> 0]}
=============================================================================
