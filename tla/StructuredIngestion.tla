-------------------------- MODULE StructuredIngestion -------------------------
(***************************************************************************)
(* One ingest() of the consumption port, by the CSV or by the Excel        *)
(* adapter, and what a caller may rely on whichever of them it is.         *)
(***************************************************************************)
EXTENDS SchemaMapping, ConsumptionValues, ConsumptionSeries

CONSTANTS CsvConfigs, CsvHeaderRows, CsvDataRows,
          ExcelConfigs, ExcelWorkbooks, ExcelHeaderRows, ExcelDataRows,
          MaxRows, NoHeader, NoSheet, NoWorkbook

\* The constructors validate the unit, the zone and the grid; a row is a tuple of cells,
\* and every cell of a CSV row is text.
ASSUME IngestionAssumption ==
  /\ \A c \in CsvConfigs \cup ExcelConfigs :
       /\ c.unit \in PowerUnits
       /\ c.zone # NoZone => IsZone(c.zone)
       /\ c.grid # NoGrid => IsGrid(c.grid)
  /\ \A row \in CsvHeaderRows : IsTuple(row) /\ row # NoHeader
  /\ \A row \in CsvDataRows :
       IsTuple(row) /\ \A i \in DOMAIN row : row[i].py = "str" /\ row[i].v \in Int
  /\ \A row \in ExcelHeaderRows : IsTuple(row) /\ row # NoHeader
  /\ \A row \in ExcelDataRows : IsTuple(row)

VARIABLES format,          \* fixed: "csv" or "excel"
          config, pc, workbook, open, header, columns,
          lines, rows,     \* the lines read beside the header, the data rows among them
          candidates, diagnostics, dlq, gaps, records

vars == <<format, config, pc, workbook, open, header, columns, lines, rows,
          candidates, diagnostics, dlq, gaps, records>>

Csv == INSTANCE ConsumptionCsvAdapter WITH
         Configs <- CsvConfigs, HeaderRows <- CsvHeaderRows, DataRows <- CsvDataRows,
         source <- rows
Excel == INSTANCE ConsumptionExcelAdapter WITH
           Configs <- ExcelConfigs, Workbooks <- ExcelWorkbooks,
           HeaderRows <- ExcelHeaderRows, DataRows <- ExcelDataRows, sheet <- rows

Init ==
  \/ format = "csv" /\ workbook = NoWorkbook /\ open = FALSE /\ Csv!Init
  \/ format = "excel" /\ Excel!Init

Next ==
  \/ format = "csv" /\ Csv!Next /\ UNCHANGED <<format, workbook, open>>
  \/ format = "excel" /\ Excel!Next /\ UNCHANGED format

Spec == Init /\ [][Next]_vars

-------------------------------------------------------------------------------
(* Properties.                                                             *)

InCsv(P) == format = "csv" => P
InExcel(P) == format = "excel" => P

\* When ingest() returns a result, of a CSV source read to its end or to a decoding or
\* syntax error or of a sheet read to its end, each data row read is exactly one record or
\* exactly one dead letter, the records are in source order, and of readable rows that name
\* one consumer and one instant none wins (_ingest_data_row, _duplicate_indexes and
\* _with_series_validation of both adapters).  An ingest() that raises answers for no row.
EveryRowAccounted == InCsv(Csv!EveryRowAccounted) /\ InExcel(Excel!EveryRowAccounted)

\* _detect_gaps: the reported gaps are the grid points between the first and the last
\* record of a consumer at which it has no record, each counted once.
GapsExact == InCsv(Csv!GapsExact)

\* _localize_naive: a naive timestamp is accepted exactly when one instant, and only one,
\* shows that wall clock in the source's zone, and the record carries that instant.
TimestampsUnambiguous == InCsv(Csv!TimestampsUnambiguous)

\* apply_consumption_unit_safety: a record never holds a measurement of a column whose
\* header claims energy or is no text, and a header that claims a power unit is read in it.
UnitsAsDeclared == InCsv(Csv!UnitsAsDeclared) /\ InExcel(Excel!UnitsAsDeclared)

===============================================================================
