------------------------ MODULE MCStructuredIngestion -------------------------
(* Small sources for both adapters: three rows after the header.           *)
EXTENDS StructuredIngestion

MCCasefold(w) ==
  CASE w \in {"Value", "VALUE"} -> "value" [] w = "MW" -> "mw" [] w = "kW" -> "kw"
    [] w = "MWh" -> "mwh" [] w = "Consumption" -> "consumption" [] OTHER -> w

\* Two headers come close to the value column, one to the timestamp, one to both.
MCRatio(a, b) ==
  CASE a = <<"time", "stamp">> /\ b = <<"timestamp">> -> 95
    [] a = <<"values", "kw">> /\ b = <<"value", "mw">> -> 88
    [] a = <<"value", "mwh">> /\ b = <<"value", "mw">> -> 94
    [] a = <<"value", "stamp">> /\ b = <<"value", "mw">> -> 88
    [] a = <<"value", "stamp">> /\ b = <<"timestamp">> -> 86
    [] OTHER -> 30

Id == <<"consumer", " ", "id">>
Stamp == <<"timestamp">>
ValueMw == <<"Value", "_", "MW">>
MCCsvHeaderRows ==
  {<<Id, Stamp, ValueMw>>,
   <<Stamp, <<"Consumption", "_", "kW">>, Id>>,
   <<Id, <<"time", "-", "stamp">>, ValueMw, <<"note">>>>,
   <<Id, Stamp, <<"values", "(", "kW", ")">>>>,
   <<Id, Stamp, <<"Value", " ", "MWh">>>>,
   <<Id, Stamp, <<"value", "stamp">>>>,
   <<Id, Stamp, ValueMw, ValueMw>>,
   <<Id, Stamp, <<"load">>>>,
   << << >>, Stamp, ValueMw>>}

Str(form, v) == [py |-> "str", form |-> form, v |-> v]
Row(c, form, t, n) == <<Str("id", c), Str(form, t), Str("number", n)>>
Blank == Str("blank", 0)
MCCsvDataRows ==
  {<<Blank, Blank, Blank>>,
   Row(1, "aware", 0, 5), Row(1, "aware", 2, 5), Row(1, "aware", 6, 7), Row(2, "aware", 6, 7),
   Row(1, "aware", 3, 5), Row(1, "aware", 99, 5), Row(1, "number", 2, 5),
   Row(1, "naive", 3, 5), Row(1, "naive", 5, 5), Row(1, "naive", 11, 5), Row(1, "naive", 13, 5),
   Row(2, "aware", 0, -1),
   <<Str("id", 1), Str("aware", 4), Str("huge", 0)>>,
   <<Str("aware", 4), Str("number", 3), Str("id", 1)>>,
   <<Str("id", 1), Str("aware", 4)>>,
   <<Str("id", 1), Str("aware", 4), Str("number", 3), Str("text", 0)>>}

Load == [name |-> "value_mw", aliases |-> {<<"load">>}, required |-> TRUE]
Specs(u) == DefaultConsumptionFieldSpecs(u)
Zone == [base |-> 1, shift |-> 2, start |-> 4, end |-> 9]
Grid == [interval |-> 2, anchor |-> 0]
MCCsvConfigs ==
  {[specs |-> Specs("MW"), unit |-> "MW", zone |-> Zone, grid |-> Grid],
   [specs |-> Specs("KW"), unit |-> "KW", zone |-> NoZone, grid |-> NoGrid],
   [specs |-> <<Specs("MW")[1], Specs("MW")[2], Load>>, unit |-> "KW", zone |-> Zone, grid |-> NoGrid],
   [specs |-> <<Specs("MW")[1], [Specs("MW")[2] EXCEPT !.aliases = {<<"value", " ", "MW">>}], Load>>,
    unit |-> "MW", zone |-> NoZone, grid |-> NoGrid],
   [specs |-> <<Specs("MW")[1], Specs("MW")[2]>>, unit |-> "MW", zone |-> NoZone, grid |-> NoGrid]}

Text(words) == [py |-> "str", form |-> "text", words |-> words]
Empty == [py |-> "none", form |-> "blank", words |-> << >>]
Number == [py |-> "int", form |-> "number", words |-> <<"value", "_", "mw">>]
IdCell == Text(<<"consumer", "_", "id">>)
StampCell == Text(<<"timestamp">>)
MCExcelHeaderRows ==
  {<<IdCell, StampCell, Text(<<"Value", " ", "MW">>), Empty, Empty>>,
   <<Empty, StampCell, Text(<<"Consumption", "_", "kW">>), IdCell>>,
   <<IdCell, StampCell, Number, Text(<<"values", "(", "kW", ")">>)>>,
   <<IdCell, StampCell, Number>>,
   <<IdCell, StampCell, Text(<<"value", "stamp">>)>>}

Cell(py, form, v) == [py |-> py, form |-> form, v |-> v]
None == Cell("none", "blank", 0)
C(n) == Cell("str", "id", n)
MCExcelDataRows ==
  {<<None, None, None>>,
   <<C(1), Cell("str", "aware", 0), Cell("float", "number", 5)>>,
   <<C(1), Cell("str", "aware", 2), Cell("int", "number", 5), None>>,
   <<C(1), Cell("datetime", "naive", 3), Cell("str", "number", 4)>>,
   <<C(2), Cell("datetime", "naive", 5), Cell("str", "number", 4)>>,
   <<C(1), Cell("int", "number", 2), Cell("int", "number", 5)>>,
   <<C(1), Cell("str", "aware", 6), Cell("bool", "number", 1)>>,
   <<Cell("int", "number", 1), Cell("str", "aware", 6), Cell("int", "number", 5)>>,
   <<C(1), Cell("str", "aware", 99), Cell("int", "number", 5)>>,
   <<C(1), Cell("str", "aware", 3)>>,
   <<None, Cell("str", "aware", 6), Cell("float", "number", 7), C(1)>>,
   <<C(1), Cell("str", "aware", 8), Cell("str", "text", 0), Cell("int", "number", 3)>>}

MCExcelConfigs ==
  {[sheet |-> NoSheet, specs |-> Specs("MW"), unit |-> "MW", zone |-> Zone, grid |-> Grid],
   [sheet |-> "load", specs |-> Specs("KW"), unit |-> "KW", zone |-> NoZone, grid |-> NoGrid],
   [sheet |-> "load", specs |-> Tail(Specs("KW")), unit |-> "KW", zone |-> NoZone, grid |-> NoGrid]}
MCExcelWorkbooks == {[sheets |-> {"load", "other"}, active |-> "load"],
                [sheets |-> {"other"}, active |-> "other"],
                [sheets |-> {}, active |-> NoSheet]}
===============================================================================
