----------------------- MODULE ConsumptionExcelAdapter ------------------------
(***************************************************************************)
(* ConsumptionExcelAdapter: one ingest() of one workbook.  The differences *)
(* from the CSV adapter are the workbook that must be closed, the sheet    *)
(* that may be missing, typed cells, headers that are trimmed and need not *)
(* be text, and rows that only have to reach the mapped columns.  openpyxl *)
(* opens with read_only=True: the sheet's XML is parsed while it is read.  *)
(***************************************************************************)
EXTENDS SchemaMapping, ConsumptionValues, ConsumptionSeries

CONSTANTS Configs,     \* constructor arguments: [sheet, specs, unit, zone, grid]
          Workbooks,   \* what load_workbook finds: [sheets, active]
          HeaderRows,  \* rows of header cells [py, words]
          DataRows,    \* rows of cells; the blank row is one of them
          MaxRows,     \* bound on the rows of a sheet
          NoHeader, NoSheet

VARIABLES config, pc,
          workbook, open,           \* the workbook behind the path; is it open?
          header, columns,
          lines, sheet,             \* the rows read beside the header, and those of them that
                                    \* are not blank
          candidates, diagnostics, dlq, gaps, records

vars == <<config, pc, workbook, open, header, columns, lines, sheet,
          candidates, diagnostics, dlq, gaps, records>>
locals == <<candidates, diagnostics, dlq, gaps, records>>

Ends == {"misconfigured", "unavailable", "raised", "corrupt", "done"}

Init ==
  /\ config \in Configs /\ workbook \in Workbooks
  /\ pc = "new" /\ open = FALSE /\ header = NoHeader /\ columns = << >> /\ lines = 0 /\ sheet = << >>
  /\ candidates = << >> /\ diagnostics = {} /\ dlq = << >> /\ gaps = {} /\ records = << >>

Construct ==
  /\ pc = "new"
  /\ pc' = IF ValidatedConsumptionFieldSpecs(config.specs) /\ BuildMappingIndex(config.specs)
           THEN "idle" ELSE "misconfigured"
  /\ UNCHANGED <<config, workbook, open, header, columns, lines, sheet, locals>>

Diagnostic(code, field) == [code |-> code, field |-> field]
RowDlq(n, code)   == [of |-> "row", row |-> n, codes |-> {code}]
SourceDlq(code)   == [of |-> "source", row |-> 0, codes |-> {code}]
SchemaDlq(fatal)  == [of |-> "schema", row |-> 0, codes |-> {d.code : d \in fatal}]

LoadWorkbook ==
  /\ pc = "idle" /\ pc' = "loaded" /\ open' = TRUE
  /\ UNCHANGED <<config, workbook, header, columns, lines, sheet, locals>>

\* BadZipFile, InvalidFileException or ParseError from load_workbook.
WorkbookInvalid ==
  /\ pc = "idle" /\ pc' = "done"
  /\ diagnostics' = {Diagnostic("excel_workbook_invalid", "none")}
  /\ dlq' = <<SourceDlq("excel_workbook_invalid")>>
  /\ UNCHANGED <<config, workbook, open, header, columns, lines, sheet, candidates, gaps, records>>

\* _ingest_sync: an OSError at any point; an open workbook is closed by the finally block.
SourceUnavailable ==
  /\ pc \in {"idle", "loaded", "reading"} /\ pc' = "unavailable" /\ open' = FALSE
  /\ UNCHANGED <<config, workbook, header, columns, lines, sheet, locals>>

\* The configured sheet if the workbook has it, the active one if none is configured.
SelectedWorksheet(book, name) ==
  IF name = NoSheet THEN book.active
  ELSE IF name \in book.sheets THEN name ELSE NoSheet

SelectWorksheet ==
  /\ pc = "loaded"
  /\ IF SelectedWorksheet(workbook, config.sheet) = NoSheet
     THEN LET missing == Diagnostic("excel_worksheet_missing", "none")
          IN  /\ diagnostics' = {missing} /\ dlq' = <<SchemaDlq({missing})>>
              /\ pc' = "done" /\ open' = FALSE
     ELSE pc' = "reading" /\ UNCHANGED <<diagnostics, dlq, open>>
  /\ UNCHANGED <<config, workbook, header, columns, lines, sheet, candidates, gaps, records>>

IsBlankCell(cell) == cell.py = "none" \/ (cell.py = "str" /\ cell.form = "blank")
IsBlankRow(row) == \A i \in DOMAIN row : IsBlankCell(row[i])

\* Header cells after the last one that is not blank do not count.
TrimTrailingBlank(row) ==
  LET kept == {i \in DOMAIN row : ~IsBlankCell(row[i])}
  IN  SubSeq(row, 1, CHOOSE n \in kept \cup {0} : \A i \in kept : i <= n)

\* Only text takes part in the resolution, other cells stay unresolved.
HeaderSourceFields(row) ==
  LET cells == TrimTrailingBlank(row)
  IN  [i \in DOMAIN cells |-> IF cells[i].py = "str" THEN cells[i].words ELSE << >>]

SchemaDiagnostics(schema) ==
  LET Where(status, method) == {r \in ToSet(schema.resolutions) : r.status = status /\ r.method = method}
      fatal ==
           {Diagnostic("excel_missing_required_field", f) : f \in schema.missing}
      \cup {Diagnostic("excel_schema_ambiguous", "none") : r \in Where("ambiguous", "none")}
      \cup {Diagnostic("excel_schema_collision", f) : f \in schema.collisions}
  IN  [fatal |-> fatal,
       all   |-> fatal
         \cup {Diagnostic("excel_unresolved_column", "none") : r \in Where("unresolved", "none")}
         \cup {Diagnostic("excel_fuzzy_field_resolution", r.field) : r \in Where("resolved", "fuzzy")}]

SkipBlankRow(row) ==
  /\ pc = "reading" /\ lines < MaxRows /\ IsBlankRow(row)
  /\ lines' = lines + 1
  /\ UNCHANGED <<config, pc, workbook, open, header, columns, sheet, locals>>

ReadHeader(row) ==
  LET fields  == HeaderSourceFields(row)
      schema  == ApplyConsumptionUnitSafety(ResolveSchema(config.specs, fields), config.unit)
      problem == SchemaDiagnostics(schema)
  IN  /\ pc = "reading" /\ header = NoHeader
      /\ header' = row
      /\ diagnostics' = diagnostics \cup problem.all
      /\ IF problem.fatal # {}
         THEN /\ dlq' = Append(dlq, SchemaDlq(problem.fatal))
              /\ pc' = "done" /\ open' = FALSE
              /\ UNCHANGED columns
         ELSE /\ columns' = CanonicalColumnIndex(schema)
              /\ UNCHANGED <<dlq, pc, open>>
      /\ UNCHANGED <<config, workbook, lines, sheet, candidates, gaps, records>>

Fail(n, code) ==
  /\ diagnostics' = diagnostics \cup {Diagnostic(code, "none")}
  /\ dlq' = Append(dlq, RowDlq(n, code))

Reaches(row, index) == \A f \in RequiredFields : index[f] <= Len(row)

ConvertRow(row, index, cfg) ==
  LET at == row[index["timestamp"]]
  IN  Convert(row[index["consumer_id"]], ConsumptionTimestampFromExcel(at), at,
              row[index["value_mw"]], cfg.zone, cfg.unit)

\* _ingest_data_row: an IndexError on a mapped column, else the conversions.
IngestDataRow(row) ==
  LET n == Len(sheet) + 2
  IN  /\ pc = "reading" /\ header # NoHeader
      /\ lines < MaxRows /\ ~IsBlankRow(row)
      /\ lines' = lines + 1 /\ sheet' = Append(sheet, row)
      /\ \/ /\ ~Reaches(row, columns)
            /\ Fail(n, "excel_row_shape_invalid")
            /\ UNCHANGED <<pc, open, candidates>>
         \/ /\ Reaches(row, columns) /\ ConvertRow(row, columns, config).outcome = "ok"
            /\ candidates' = Append(candidates, Candidate(ConvertRow(row, columns, config).v, n))
            /\ UNCHANGED <<pc, open, diagnostics, dlq>>
         \/ /\ Reaches(row, columns) /\ ConvertRow(row, columns, config).outcome = "rejected"
            /\ Fail(n, "excel_row_validation_failed")
            /\ UNCHANGED <<pc, open, candidates>>
         \/ /\ Reaches(row, columns) /\ ConvertRow(row, columns, config).outcome = "raised"
            /\ pc' = "raised" /\ open' = FALSE
            /\ UNCHANGED <<candidates, diagnostics, dlq>>
      /\ UNCHANGED <<config, workbook, header, columns, gaps, records>>

\* A ParseError or BadZipFile of the lazily parsed sheet: outside the try block of
\* load_workbook, so only the finally block sees it.
SheetMalformed ==
  /\ pc = "reading" /\ pc' = "corrupt" /\ open' = FALSE
  /\ UNCHANGED <<config, workbook, header, columns, lines, sheet, locals>>

SeriesDiagnostics(series) ==
       {Diagnostic(series.issues[i].code, "timestamp") : i \in DOMAIN series.issues}
  \cup {Diagnostic("consumption_missing_interval_gap", "timestamp") : g \in series.gaps}

\* _with_series_validation and _result, then workbook.close().
EndOfSheet ==
  LET series == ValidateConsumptionSeries(candidates, config.grid)
  IN  /\ pc = "reading"
      /\ diagnostics' = diagnostics \cup SeriesDiagnostics(series)
      /\ dlq' = dlq \o [i \in DOMAIN series.issues |->
                          RowDlq(series.issues[i].position, series.issues[i].code)]
      /\ gaps' = series.gaps
      /\ records' = [i \in DOMAIN series.valid |-> series.valid[i].record]
      /\ pc' = "done" /\ open' = FALSE
      /\ UNCHANGED <<config, workbook, header, columns, lines, sheet, candidates>>

Returned == pc \in Ends /\ UNCHANGED vars

Next ==
  \/ Construct \/ LoadWorkbook \/ WorkbookInvalid \/ SourceUnavailable \/ SelectWorksheet
  \/ SheetMalformed \/ EndOfSheet \/ Returned
  \/ \E row \in HeaderRows : ReadHeader(row)
  \/ \E row \in DataRows : SkipBlankRow(row) \/ IngestDataRow(row)

Spec == Init /\ [][Next]_vars

-------------------------------------------------------------------------------
(* Properties.                                                             *)

Accepted == header # NoHeader /\ columns # << >>
DeadRows == {dlq[i].row : i \in {k \in DOMAIN dlq : dlq[k].of = "row"}}
Answer(k) == ConvertRow(sheet[k], columns, config)
Readable == {k \in DOMAIN sheet : Reaches(sheet[k], columns) /\ Answer(k).outcome = "ok"}

\* The locals and the result have the shape of their declarations, and a sheet is only
\* selected and read in an open workbook.
TypeOK ==
  /\ config \in Configs /\ workbook \in Workbooks
  /\ pc \in {"new", "idle", "loaded", "reading"} \cup Ends
  /\ header \in HeaderRows \cup {NoHeader} /\ sheet \in Seq(DataRows)
  /\ columns = << >> \/ DOMAIN columns = RequiredFields
  /\ \A i \in DOMAIN candidates : candidates[i].position \in 2 .. MaxRows + 1
  /\ \A i \in DOMAIN dlq : dlq[i].codes \subseteq {d.code : d \in diagnostics}
  /\ pc \in {"loaded", "reading"} => open

\* _ingest_data_row and _with_series_validation together: when ingest() returns the result
\* of a sheet whose header was accepted, each data row is exactly one record or exactly one
\* dead letter, a record is that of a readable row and stands in sheet order, and readable
\* rows that name one consumer and one instant, in whichever type of cell, are all dead
\* letters: the ingestion picks no winner.
EveryRowAccounted ==
  pc = "done" /\ Accepted =>
    LET kept == InOrder({k \in DOMAIN sheet : k + 1 \notin DeadRows})
    IN  /\ \A i, j \in DOMAIN dlq : dlq[i].of = "row" /\ dlq[i].row = dlq[j].row => i = j
        /\ \A i \in DOMAIN kept : kept[i] \in Readable
        /\ records = [i \in DOMAIN kept |-> Answer(kept[i]).v]
        /\ \A j, k \in Readable :
             /\ j # k /\ Answer(j).v.consumer = Answer(k).v.consumer
             /\ Answer(j).v.timestamp = Answer(k).v.timestamp
             => {j + 1, k + 1} \subseteq DeadRows

\* _header_source_fields with canonical_column_index: a record's measurement comes from a
\* column whose header is text, claims no energy, and claims the unit it was read in.
UnitsAsDeclared ==
  \A i \in DOMAIN candidates :
    LET at    == columns["value_mw"]
        claim == Last(NormalizeFieldName(header[at].words))
        cell  == sheet[candidates[i].position - 1][at]
    IN  /\ header[at].py = "str" /\ claim \notin EnergyLastTokens
        /\ claim = "mw" => candidates[i].record.value = 1000 * cell.v
        /\ claim = "kw" => candidates[i].record.value = cell.v
===============================================================================
