SPECIFICATION Spec
CONSTANTS
  Failed = Failed
  Nothing = Nothing
  Lag24h <- MCLag24h
  Lag168h <- MCLag168h
  Cutoff <- MCCutoff
  LoadInputs <- MCLoadInputs
  PriceInputs <- MCPriceInputs
INVARIANTS
  FitIgnoresTheFuture
  FitIsLeastSquares
  ComparesLikeWithLike
  LiveAgreesWithBacktest
