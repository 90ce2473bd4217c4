------------------------ MODULE ConsumptionCsvAdapter -------------------------
(***************************************************************************)
(* ConsumptionCsvAdapter: one ingest() of one CSV source, row by row, in a *)
(* worker thread.  The source is not known in advance: the reader may hand *)
(* over any row of HeaderRows or DataRows, a blank line, a decoding error, *)
(* a syntax error, an I/O error or the end of the file.                    *)
(***************************************************************************)
EXTENDS SchemaMapping, ConsumptionValues, ConsumptionSeries

CONSTANTS Configs,     \* constructor arguments: [specs, unit, zone, grid]
          HeaderRows,  \* rows of raw headers
          DataRows,    \* rows of cells; the blank line is one of them
          MaxRows,     \* bound on the lines of a source
          NoHeader

VARIABLES config, pc,
          header, columns,          \* the header row and _column_index_
          lines, source,            \* the lines read beside the header, and the rows that
                                    \* are not blank among them
          candidates, diagnostics,  \* locals of _read_and_normalize
          dlq, gaps, records        \* dlq_records, series.gaps and the result's records

vars == <<config, pc, header, columns, lines, source, candidates, diagnostics, dlq, gaps, records>>
locals == <<candidates, diagnostics, dlq, gaps, records>>

Ends == {"misconfigured", "unavailable", "raised", "done"}

Init ==
  /\ config \in Configs
  /\ pc = "new" /\ header = NoHeader /\ columns = << >> /\ lines = 0 /\ source = << >>
  /\ candidates = << >> /\ diagnostics = {} /\ dlq = << >> /\ gaps = {} /\ records = << >>

\* __init__: the specs must be the Consumption ones and index without a conflict.
Construct ==
  /\ pc = "new"
  /\ pc' = IF ValidatedConsumptionFieldSpecs(config.specs) /\ BuildMappingIndex(config.specs)
           THEN "idle" ELSE "misconfigured"
  /\ UNCHANGED <<config, header, columns, lines, source, locals>>

Open ==
  /\ pc = "idle" /\ pc' = "reading"
  /\ UNCHANGED <<config, header, columns, lines, source, locals>>

\* _ingest_sync: an OSError, on opening or while reading, discards everything.
SourceUnavailable ==
  /\ pc \in {"idle", "reading"} /\ pc' = "unavailable"
  /\ UNCHANGED <<config, header, columns, lines, source, locals>>

IsBlankRow(row) == \A i \in DOMAIN row : row[i].form = "blank"

LogicalRow(rows) == Len(rows) + 1   \* of the last data row; the header is row 1

Diagnostic(code, field) == [code |-> code, field |-> field]
RowDlq(n, code)   == [of |-> "row", row |-> n, codes |-> {code}]
SourceDlq(code)   == [of |-> "source", row |-> 0, codes |-> {code}]
SchemaDlq(fatal)  == [of |-> "schema", row |-> 0, codes |-> {d.code : d \in fatal}]

\* What is wrong with a schema, and what is fatal about it.
SchemaDiagnostics(schema) ==
  LET Where(status, method) == {r \in ToSet(schema.resolutions) : r.status = status /\ r.method = method}
      fatal ==
           {Diagnostic("csv_missing_required_field", f) : f \in schema.missing}
      \cup {Diagnostic("csv_schema_ambiguous", "none") : r \in Where("ambiguous", "none")}
      \cup {Diagnostic("csv_schema_collision", f) : f \in schema.collisions}
  IN  [fatal |-> fatal,
       all   |-> fatal
         \cup {Diagnostic("csv_unresolved_column", "none") : r \in Where("unresolved", "none")}
         \cup {Diagnostic("csv_fuzzy_field_resolution", r.field) : r \in Where("resolved", "fuzzy")}]

SkipBlankRow(row) ==
  /\ pc = "reading" /\ lines < MaxRows /\ IsBlankRow(row)
  /\ lines' = lines + 1
  /\ UNCHANGED <<config, pc, header, columns, source, locals>>

\* The first row that is not blank is the header; a fatal schema ends the ingestion.
ReadHeader(row) ==
  LET schema  == ApplyConsumptionUnitSafety(ResolveSchema(config.specs, row), config.unit)
      problem == SchemaDiagnostics(schema)
  IN  /\ pc = "reading" /\ header = NoHeader
      /\ header' = row
      /\ diagnostics' = diagnostics \cup problem.all
      /\ IF problem.fatal # {}
         THEN /\ dlq' = Append(dlq, SchemaDlq(problem.fatal))
              /\ pc' = "done"
              /\ UNCHANGED columns
         ELSE /\ columns' = CanonicalColumnIndex(schema)
              /\ UNCHANGED <<dlq, pc>>
      /\ UNCHANGED <<config, lines, source, candidates, gaps, records>>

Fail(n, code) ==
  /\ diagnostics' = diagnostics \cup {Diagnostic(code, "none")}
  /\ dlq' = Append(dlq, RowDlq(n, code))

ConvertRow(row, index, cfg) ==
  LET at == row[index["timestamp"]]
  IN  Convert(row[index["consumer_id"]], ConsumptionTimestampFromCsv(at), at,
              row[index["value_mw"]], cfg.zone, cfg.unit)

\* _ingest_data_row: the width first, then the conversions.
IngestDataRow(row) ==
  LET n         == LogicalRow(source) + 1
      converted == ConvertRow(row, columns, config)
  IN  /\ pc = "reading" /\ header # NoHeader
      /\ lines < MaxRows /\ ~IsBlankRow(row)
      /\ lines' = lines + 1 /\ source' = Append(source, row)
      /\ \/ /\ Len(row) # Len(header)
            /\ Fail(n, "csv_row_shape_invalid")
            /\ UNCHANGED <<pc, candidates>>
         \/ /\ Len(row) = Len(header) /\ converted.outcome = "ok"
            /\ candidates' = Append(candidates, Candidate(converted.v, n))
            /\ UNCHANGED <<pc, diagnostics, dlq>>
         \/ /\ Len(row) = Len(header) /\ converted.outcome = "rejected"
            /\ Fail(n, "csv_row_validation_failed")
            /\ UNCHANGED <<pc, candidates>>
         \/ /\ Len(row) = Len(header) /\ converted.outcome = "raised"
            /\ pc' = "raised"
            /\ UNCHANGED <<candidates, diagnostics, dlq>>
      /\ UNCHANGED <<config, header, columns, gaps, records>>

SeriesDiagnostics(series) ==
       {Diagnostic(series.issues[i].code, "timestamp") : i \in DOMAIN series.issues}
  \cup {Diagnostic("consumption_missing_interval_gap", "timestamp") : g \in series.gaps}

\* _with_series_validation and _result, after whatever ended the reading.
Finish(found, letters) ==
  LET series == ValidateConsumptionSeries(candidates, config.grid)
  IN  /\ diagnostics' = found \cup SeriesDiagnostics(series)
      /\ dlq' = letters \o [i \in DOMAIN series.issues |->
                              RowDlq(series.issues[i].position, series.issues[i].code)]
      /\ gaps' = series.gaps
      /\ records' = [i \in DOMAIN series.valid |-> series.valid[i].record]
      /\ pc' = "done"
      /\ UNCHANGED <<config, header, columns, lines, source, candidates>>

EndOfFile == pc = "reading" /\ Finish(diagnostics, dlq)

\* UnicodeDecodeError and csv.Error keep what was read before them.
ReaderFails(code) ==
  /\ pc = "reading"
  /\ Finish(diagnostics \cup {Diagnostic(code, "none")}, Append(dlq, SourceDlq(code)))

Returned == pc \in Ends /\ UNCHANGED vars

Next ==
  \/ Construct \/ Open \/ SourceUnavailable \/ EndOfFile \/ Returned
  \/ \E row \in HeaderRows : ReadHeader(row)
  \/ \E row \in DataRows : SkipBlankRow(row) \/ IngestDataRow(row)
  \/ \E code \in {"csv_decode_failed", "csv_parse_failed"} : ReaderFails(code)

Spec == Init /\ [][Next]_vars
-------------------------------------------------------------------------------
(* Properties.                                                             *)

Accepted == header # NoHeader /\ columns # << >>
DeadRows == {dlq[i].row : i \in {k \in DOMAIN dlq : dlq[k].of = "row"}}
Answer(k) == ConvertRow(source[k], columns, config)
Readable == {k \in DOMAIN source : Len(source[k]) = Len(header) /\ Answer(k).outcome = "ok"}

\* The locals and the result have the shape of their declarations, and every position
\* is one of a data row.
TypeOK ==
  /\ config \in Configs /\ pc \in {"new", "idle", "reading"} \cup Ends
  /\ header \in HeaderRows \cup {NoHeader} /\ source \in Seq(DataRows)
  /\ columns = << >> \/ DOMAIN columns = RequiredFields
  /\ \A i \in DOMAIN candidates : candidates[i].position \in 2 .. MaxRows + 1
  /\ DeadRows \subseteq 2 .. MaxRows + 1
  /\ \A i \in DOMAIN dlq : dlq[i].codes \subseteq {d.code : d \in diagnostics}

\* _ingest_data_row and _with_series_validation together: when ingest() returns the result
\* of a source whose header was accepted, read to its end or to a decoding or syntax error,
\* each data row read is exactly one record or exactly one dead letter, a record is that of
\* a readable row and stands in source order, and readable rows that name one consumer and
\* one instant, however they spell it, are all dead letters: the ingestion picks no winner.
EveryRowAccounted ==
  pc = "done" /\ Accepted =>
    LET kept == InOrder({k \in DOMAIN source : k + 1 \notin DeadRows})
    IN  /\ \A i, j \in DOMAIN dlq : dlq[i].of = "row" /\ dlq[i].row = dlq[j].row => i = j
        /\ \A i \in DOMAIN kept : kept[i] \in Readable
        /\ records = [i \in DOMAIN kept |-> Answer(kept[i]).v]
        /\ \A j, k \in Readable :
             /\ j # k /\ Answer(j).v.consumer = Answer(k).v.consumer
             /\ Answer(j).v.timestamp = Answer(k).v.timestamp
             => {j + 1, k + 1} \subseteq DeadRows

\* _detect_gaps: the reported gaps are the grid points between the first and the last
\* record of a consumer at which it has no record, each counted once.
GapsExact ==
  pc = "done" /\ config.grid # NoGrid =>
    LET stamps(c)  == {records[i].timestamp : i \in {k \in DOMAIN records : records[k].consumer = c}}
        missing(c) == {t \in MinInstant .. MaxInstant :
                         /\ IsAligned(config.grid, t) /\ t \notin stamps(c)
                         /\ \E a, b \in stamps(c) : a < t /\ t < b}
        points(g)  == {t \in g.first .. g.last : IsAligned(config.grid, t)}
    IN  /\ \A i \in DOMAIN records : LET c == records[i].consumer IN
             missing(c) = UNION {points(g) : g \in {h \in gaps : h.consumer = c}}
        /\ \A g \in gaps : g.count = Cardinality(points(g))
        /\ \A g, h \in gaps : g # h /\ g.consumer = h.consumer => points(g) \cap points(h) = {}

\* _localize_naive: a naive timestamp is accepted exactly when one instant, and only one,
\* shows that wall clock in the source's zone, and the record carries that instant.
TimestampsUnambiguous ==
  Accepted /\ config.zone # NoZone =>
    \A k \in DOMAIN source :
      Len(source[k]) = Len(header) /\ source[k][columns["timestamp"]].form = "naive" =>
        LET wall == source[k][columns["timestamp"]].v
            shown == {u \in MinInstant .. MaxInstant : Wall(config.zone, u) = wall}
            answer == NormalizeTimestampToUtc(source[k][columns["timestamp"]], config.zone)
        IN  /\ answer.outcome = "ok" <=> Cardinality(shown) = 1
            /\ answer.outcome = "ok" => shown = {answer.v}

\* apply_consumption_unit_safety: a record never holds a measurement of a column whose
\* header claims energy, and a header that claims a power unit is read in that unit.
UnitsAsDeclared ==
  \A i \in DOMAIN candidates :
    LET claim == Last(NormalizeFieldName(header[columns["value_mw"]]))
        cell  == source[candidates[i].position - 1][columns["value_mw"]]
    IN  /\ claim \notin EnergyLastTokens
        /\ claim = "mw" => candidates[i].record.value = 1000 * cell.v
        /\ claim = "kw" => candidates[i].record.value = cell.v
===============================================================================
