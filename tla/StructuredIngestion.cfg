SPECIFICATION Spec
CONSTANTS
  NoGrid = NoGrid
  NoZone = NoZone
  NoHeader = NoHeader
  NoSheet = NoSheet
  NoWorkbook = NoWorkbook
  Infinite = Infinite
  MinInstant = 0
  MaxInstant = 20
  FuzzyThreshold = 85
  AmbiguityMargin = 5
  MaxRows = 3
  Casefold <- MCCasefold
  Ratio <- MCRatio
  CsvConfigs <- MCCsvConfigs
  CsvHeaderRows <- MCCsvHeaderRows
  CsvDataRows <- MCCsvDataRows
  ExcelConfigs <- MCExcelConfigs
  ExcelWorkbooks <- MCExcelWorkbooks
  ExcelHeaderRows <- MCExcelHeaderRows
  ExcelDataRows <- MCExcelDataRows
INVARIANTS
  EveryRowAccounted
  GapsExact
  TimestampsUnambiguous
  UnitsAsDeclared
