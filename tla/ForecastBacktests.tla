--------------------------- MODULE ForecastBacktests --------------------------
(***************************************************************************)
(* A backtest session of either family of models: the consumer load, whose *)
(* live model refuses a negative forecast, or the day-ahead price.         *)
(***************************************************************************)
EXTENDS ConsumerLoadModels, DamPriceModels

CONSTANTS LoadInputs, PriceInputs, Cutoff, Nothing

\* The lags are whole durations and the cutoff an instant.
ASSUME LagsAssumption == Lag24h \in Nat /\ Lag168h \in Nat /\ Cutoff \in Int

\* Both histories of an input are sequences of observations, at whole instants and with
\* whole values; a failure is neither an observation nor a request.
ASSUME LoadsAssumption ==
  \A input \in LoadInputs, p \in 1 .. 2 :
    /\ IsTuple(input[p])
    /\ \A i \in DOMAIN input[p] : /\ input[p][i].timestamp \in Int /\ input[p][i].value \in Int
                                  /\ input[p][i] # Failed
    /\ Failed \notin [owner : Consumers(input[p]), history : {input[p]}, targets : Seq(Int)]

ASSUME PricesAssumption ==
  \A input \in PriceInputs, p \in 1 .. 2 :
    /\ IsTuple(input[p])
    /\ \A i \in DOMAIN input[p] : /\ input[p][i].timestamp \in Int /\ input[p][i].amount \in Int
                                  /\ input[p][i] # Failed
    /\ Failed \notin [owner : Markets(input[p]) \X Currencies(input[p]),
                      history : {input[p]}, targets : Seq(Int)]

VARIABLES family,   \* fixed: "load" or "price"
          source, pc, rows24, rows168, cases, split24, split168, fit24, fit168,
          trainedOn, pred24, pred168, picked, verdict, live

vars == <<family, source, pc, rows24, rows168, cases, split24, split168, fit24, fit168,
          trainedOn, pred24, pred168, picked, verdict, live>>

Load == INSTANCE BacktestSession WITH
  Inputs <- LoadInputs,
  RefusesNegative <- TRUE,
  Identity <- ConsumerLoadIdentity,
  Value <- ConsumerLoadValue,
  Rows24 <- BuildConsumerLoadLag24hFeatureRows,
  Rows168 <- BuildConsumerLoadLag24h168hFeatureRows,
  PersistenceCases <- BuildConsumerLoadPersistenceBacktestCases,
  Split24 <- SplitConsumerLoadFeatureRowsChronologically,
  Split168 <- SplitConsumerLoadLag24h168hFeatureRowsChronologically,
  Fit24 <- FitConsumerLoadLag24hLinearRegression,
  Fit168 <- FitConsumerLoadLag24h168hLinearRegression,
  Predictions24 <- PredictConsumerLoadLag24hLinearRegression,
  Predictions168 <- PredictConsumerLoadLag24h168hLinearRegression,
  ComparePersistence24 <- CompareConsumerLoadPersistenceVsTrainedOlsMae,
  ComparePersistence168 <- CompareConsumerLoadPersistenceVsLag24h168hOlsMae,
  Compare24And168 <- CompareConsumerLoadLag24hVsLag24h168hOlsMae,
  CompareAll <- CompareConsumerLoadThreeWayMae,
  Request <- ConsumerLoadForecastModelRequest,
  LivePersistence <- PreviousDayPersistenceConsumerLoadForecast,
  LiveOls <- Lag24h168hOlsConsumerLoadForecast

Price == INSTANCE BacktestSession WITH
  Inputs <- PriceInputs,
  RefusesNegative <- FALSE,
  Identity <- DamPriceIdentity,
  Value <- DamPriceValue,
  Rows24 <- BuildDamPriceLag24hFeatureRows,
  Rows168 <- BuildDamPriceLag24h168hFeatureRows,
  PersistenceCases <- BuildDamPricePersistenceBacktestCases,
  Split24 <- SplitDamPriceFeatureRowsChronologically,
  Split168 <- SplitDamPriceLag24h168hFeatureRowsChronologically,
  Fit24 <- FitDamPriceLag24hLinearRegression,
  Fit168 <- FitDamPriceLag24h168hLinearRegression,
  Predictions24 <- PredictDamPriceLag24hLinearRegression,
  Predictions168 <- PredictDamPriceLag24h168hLinearRegression,
  ComparePersistence24 <- CompareDamPricePersistenceVsTrainedOlsMae,
  ComparePersistence168 <- CompareDamPricePersistenceVsLag24h168hOlsMae,
  Compare24And168 <- CompareDamPriceLag24hVsLag24h168hOlsMae,
  CompareAll <- CompareDamPriceThreeWayMae,
  Request <- DamPriceForecastModelRequest,
  LivePersistence <- PreviousDayPersistenceDamPriceForecast,
  LiveOls <- Lag24h168hOlsDamPriceForecast

Init == (family = "load" /\ Load!Init) \/ (family = "price" /\ Price!Init)

Next ==
  \/ family = "load" /\ Load!Next /\ UNCHANGED family
  \/ family = "price" /\ Price!Next /\ UNCHANGED family

Spec == Init /\ [][Next]_vars

-------------------------------------------------------------------------------
Of(load, price) == (family = "load" => load) /\ (family = "price" => price)

\* The evaluation period leaks into no fit: each fit is the one made of the observations
\* before the cutoff alone (the chronological splits and the fits of ml/).
FitIgnoresTheFuture == Of(Load!FitIgnoresTheFuture, Price!FitIgnoresTheFuture)

\* A fit solves the normal equations of its history: over the training targets the
\* residuals sum to zero and are orthogonal to every lag.
FitIsLeastSquares == Of(Load!FitIsLeastSquares, Price!FitIsLeastSquares)

\* A comparison that answers compared like with like: one series, one set of targets, one
\* set of actuals, and for each model the error it really makes there, however the caller
\* mixed cases and predictions.
ComparesLikeWithLike == Of(Load!ComparesLikeWithLike, Price!ComparesLikeWithLike)

\* The live models answer what the backtest scored: the same prediction for the same
\* target and history, and a refusal only of a negative load.
LiveAgreesWithBacktest == Of(Load!LiveAgreesWithBacktest, Price!LiveAgreesWithBacktest)
===============================================================================
