-------------------------- MODULE ConsumptionValues ---------------------------
(***************************************************************************)
(* From the cells of a source row to a ConsumptionRecord: the timestamp    *)
(* and power conversions shared by the CSV and the Excel adapter, and the  *)
(* domain validation behind them.                                          *)
(*                                                                         *)
(* A cell is [py, form, v]: the Python type of the value, what its text or *)
(* number reads as, and the datum, an integer: a stripped consumer id, an  *)
(* instant or a wall clock on one scale, or a measurement.  Power is kept  *)
(* in kW, so that dividing by 1000 is exact.                               *)
(*                                                                         *)
(* A conversion answers with one of three outcomes: a value, "rejected"    *)
(* (an exception the adapter catches), "raised" (one that it does not).    *)
(***************************************************************************)
EXTENDS Integers

CONSTANTS MinInstant, MaxInstant,  \* the range of datetime, in UTC
          NoZone,                  \* no source_timezone was configured
          Infinite                 \* a float without a finite value

ASSUME RangeAssumption == MinInstant \in Int /\ MaxInstant \in Int /\ MinInstant < MaxInstant

Ok(v)    == [outcome |-> "ok", v |-> v]
Rejected == [outcome |-> "rejected", v |-> 0]
Raised   == [outcome |-> "raised", v |-> 0]

-------------------------------------------------------------------------------
(* A zone is [base, shift, start, end]: its offset is base, and base + shift *)
(* from the instant start until the instant end, well inside the range of    *)
(* datetime.                                                                 *)

IsZone(zone) ==
  /\ zone.base \in Int /\ zone.shift \in Nat /\ zone.start \in Int /\ zone.end \in Int
  /\ MinInstant <= zone.start /\ zone.start + zone.shift < zone.end
  /\ zone.end + zone.shift <= MaxInstant

Offset(zone, u) == zone.base + (IF zone.start <= u /\ u < zone.end THEN zone.shift ELSE 0)

Wall(zone, u) == u + Offset(zone, u)

\* ZoneInfo places a transition at the wall clock of the larger of its two offsets for
\* fold = 0, and at that of the smaller one for fold = 1.
ReplaceTzinfo(zone, wall, fold) ==
  LET starts == zone.start + zone.base + (IF fold = 0 THEN zone.shift ELSE 0)
      ends   == zone.end + zone.base + (IF fold = 0 THEN zone.shift ELSE 0)
  IN  wall - (zone.base + IF starts <= wall /\ wall < ends THEN zone.shift ELSE 0)

LocalizeNaiveFirstFold(wall, zone) ==   \* mutant: the second reading is never asked
  LET utc == ReplaceTzinfo(zone, wall, 0)
  IN  IF Wall(zone, utc) # wall THEN Rejected ELSE Ok(utc)

\* Both readings of the wall clock must name one instant, whose wall clock it is.
LocalizeNaive(wall, zone) ==
  LET utcFirst  == ReplaceTzinfo(zone, wall, 0)
      utcSecond == ReplaceTzinfo(zone, wall, 1)
  IN  IF utcFirst \notin MinInstant .. MaxInstant \/ utcSecond \notin MinInstant .. MaxInstant
        THEN Raised
      ELSE IF utcFirst # utcSecond THEN Rejected
      ELSE IF Wall(zone, utcFirst) # wall THEN Rejected
      ELSE Ok(utcFirst)

\* Text is a timestamp unless it is blank, a bare number, a date alone or no ISO form.
ParseTimestamp(cell) ==
  CASE cell.py = "datetime" -> Ok(cell)
    [] cell.py = "str" /\ cell.form \in {"aware", "naive"} -> Ok(cell)
    [] OTHER -> Rejected

\* astimezone of an aware value near the ends of the datetime range overflows.
NormalizeTimestampToUtc(cell, zone) ==
  IF ParseTimestamp(cell).outcome = "rejected" THEN Rejected
  ELSE IF cell.form = "aware"
    THEN IF cell.v \in MinInstant .. MaxInstant THEN Ok(cell.v) ELSE Raised
  ELSE IF zone = NoZone THEN Rejected
  ELSE LocalizeNaive(cell.v, zone)

ConsumptionTimestampFromCsv(cell) ==
  IF cell.form \in {"number", "huge", "infinite"} THEN Rejected ELSE Ok(cell)

\* Only text and datetime cells; numbers, booleans and dates are no timestamps.
ConsumptionTimestampFromExcel(cell) ==
  CASE cell.py = "datetime" -> Ok(cell)
    [] cell.py = "str" -> ConsumptionTimestampFromCsv(cell)
    [] OTHER -> Rejected

-------------------------------------------------------------------------------
\* A finite decimal, "huge" for one whose exponent exceeds the decimal context.
DecimalPower(cell) ==
  IF cell.py \in {"int", "float", "str"} /\ cell.form \in {"number", "huge"}
  THEN Ok(cell) ELSE Rejected

\* kW are divided in the default decimal context, where a huge quotient overflows;
\* MW are only converted to float, where it becomes infinite.
NormalizePowerToMw(cell, unit) ==
  IF DecimalPower(cell).outcome = "rejected" THEN Rejected
  ELSE IF cell.form = "huge" THEN IF unit = "KW" THEN Raised ELSE Ok(Infinite)
  ELSE Ok(IF unit = "KW" THEN cell.v ELSE 1000 * cell.v)

\* Identifiers are stripped and not empty, power is finite and not negative.
ConsumptionRecordModelValidate(consumer, timestamp, power) ==
  IF consumer.py = "str" /\ consumer.form # "blank" /\ power # Infinite /\ power >= 0
  THEN Ok([consumer |-> consumer.v, timestamp |-> timestamp, value |-> power])
  ELSE Rejected

\* The try block of a row: the first conversion that fails decides.
Convert(consumer, fromCell, timestamp, power, zone, unit) ==
  LET at == NormalizeTimestampToUtc(timestamp, zone)
      mw == NormalizePowerToMw(power, unit)
  IN  IF fromCell.outcome = "rejected" THEN Rejected
      ELSE IF at.outcome # "ok" THEN at
      ELSE IF mw.outcome # "ok" THEN mw
      ELSE ConsumptionRecordModelValidate(consumer, at.v, mw.v)
===============================================================================
