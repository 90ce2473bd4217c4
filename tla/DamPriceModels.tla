---------------------------- MODULE DamPriceModels ----------------------------
(***************************************************************************)
(* ml/dam_price: the same chain for the day-ahead price of one market in   *)
(* one currency.  An observation is [market, timestamp, amount, currency]; *)
(* amounts may be negative.  Arithmetic is exact: the Decimal signals that *)
(* the lag models turn into an InvalidRequestError, and that the           *)
(* persistence evaluation lets through, do not occur here.                 *)
(***************************************************************************)
EXTENDS LagRegression

Markets(rows)    == {rows[i].market : i \in DOMAIN rows}
Currencies(rows) == {rows[i].currency : i \in DOMAIN rows}

SingleMarketAndCurrency(rows) == Single(Markets(rows)) /\ Single(Currencies(rows))

DamPriceIdentity(record) == <<record.market, record.currency>>
DamPriceValue(record)    == record.amount

\* An empty history gives no rows and is no failure.
BuildDamPriceLag24hFeatureRows(history) ==
  LET at      == ByTimestamp(history)
      targets == CompleteTargets(history, {Lag24h})
  IN  IF SingleMarketAndCurrency(history) /\ UniqueTimestamps(history)
      THEN [i \in DOMAIN targets |->
              [market |-> at[targets[i]].market, currency |-> at[targets[i]].currency,
               target |-> targets[i],
               lag24 |-> at[targets[i] - Lag24h].amount, actual |-> at[targets[i]].amount]]
      ELSE Failed

BuildDamPriceLag24h168hFeatureRows(history) ==
  LET at      == ByTimestamp(history)
      targets == CompleteTargets(history, {Lag24h, Lag168h})
  IN  IF SingleMarketAndCurrency(history) /\ UniqueTimestamps(history)
      THEN [i \in DOMAIN targets |->
              [market |-> at[targets[i]].market, currency |-> at[targets[i]].currency,
               target |-> targets[i], lag24 |-> at[targets[i] - Lag24h].amount,
               lag168 |-> at[targets[i] - Lag168h].amount, actual |-> at[targets[i]].amount]]
      ELSE Failed

SplitDamPriceFeatureRowsChronologically(rows, cutoff) ==
  LET split == SplitAt(rows, cutoff)
  IN  IF /\ rows # << >> /\ SingleMarketAndCurrency(rows) /\ StrictChronology(rows)
         /\ split.training # << >> /\ split.evaluation # << >>
      THEN split ELSE Failed

SplitDamPriceLag24h168hFeatureRowsChronologically(rows, cutoff) ==
  LET split == SplitAt(rows, cutoff)
  IN  IF /\ rows # << >> /\ SingleMarketAndCurrency(rows) /\ StrictChronology(rows)
         /\ split.training # << >> /\ split.evaluation # << >>
      THEN split ELSE Failed

FitDamPriceLag24hLinearRegression(rows) ==
  IF Len(rows) >= 2 /\ SingleMarketAndCurrency(rows) /\ StrictChronology(rows)
  THEN FitOneLag([i \in DOMAIN rows |-> rows[i].lag24], [i \in DOMAIN rows |-> rows[i].actual])
  ELSE Failed

FitDamPriceLag24h168hLinearRegression(rows) ==
  IF Len(rows) >= 3 /\ SingleMarketAndCurrency(rows) /\ StrictChronology(rows)
  THEN FitTwoLags([i \in DOMAIN rows |-> rows[i].lag24], [i \in DOMAIN rows |-> rows[i].lag168],
                  [i \in DOMAIN rows |-> rows[i].actual])
  ELSE Failed

PredictDamPriceLag24hLinearRegression(fit, rows) ==
  IF rows # << >> /\ SingleMarketAndCurrency(rows) /\ StrictChronology(rows)
  THEN [i \in DOMAIN rows |->
          [market |-> rows[i].market, currency |-> rows[i].currency,
           target |-> rows[i].target, over |-> fit.over,
           predicted |-> Predict24(fit, rows[i].lag24), actual |-> rows[i].actual]]
  ELSE Failed

PredictDamPriceLag24h168hLinearRegression(fit, rows) ==
  IF rows # << >> /\ SingleMarketAndCurrency(rows) /\ StrictChronology(rows)
  THEN [i \in DOMAIN rows |->
          [market |-> rows[i].market, currency |-> rows[i].currency,
           target |-> rows[i].target, over |-> fit.over,
           predicted |-> Predict168(fit, rows[i].lag24, rows[i].lag168),
           actual |-> rows[i].actual]]
  ELSE Failed

\* Predictions of one call share the denominator of its fit.
EvaluateDamPriceLag24hLinearRegressionMae(predictions) ==
  IF predictions # << >> /\ SingleMarketAndCurrency(predictions) /\ StrictChronology(predictions)
  THEN MeanAbsoluteError([i \in DOMAIN predictions |-> predictions[i].predicted],
                         predictions[1].over,
                         [i \in DOMAIN predictions |-> predictions[i].actual])
  ELSE Failed

EvaluateDamPriceLag24h168hLinearRegressionMae(predictions) ==
  IF predictions # << >> /\ SingleMarketAndCurrency(predictions) /\ StrictChronology(predictions)
  THEN MeanAbsoluteError([i \in DOMAIN predictions |-> predictions[i].predicted],
                         predictions[1].over,
                         [i \in DOMAIN predictions |-> predictions[i].actual])
  ELSE Failed

BuildDamPricePersistenceBacktestCases(history) ==
  LET at      == ByTimestamp(history)
      targets == CompleteTargets(history, {Lag24h})
  IN  IF SingleMarketAndCurrency(history) /\ UniqueTimestamps(history)
      THEN [i \in DOMAIN targets |->
              [market |-> at[targets[i]].market, target |-> targets[i],
               predicted |-> at[targets[i] - Lag24h].amount,
               predictedCurrency |-> at[targets[i] - Lag24h].currency,
               actual |-> at[targets[i]].amount, currency |-> at[targets[i]].currency]]
      ELSE Failed

CoherentCurrency(cases) ==
  \A i \in DOMAIN cases : cases[i].predictedCurrency = cases[i].currency

EvaluateDamPricePersistenceMae(cases) ==
  IF /\ cases # << >> /\ SingleMarketAndCurrency(cases) /\ CoherentCurrency(cases)
     /\ StrictChronology(cases)
  THEN MeanAbsoluteError([i \in DOMAIN cases |-> cases[i].predicted], 1,
                         [i \in DOMAIN cases |-> cases[i].actual])
  ELSE Failed

SingleSharedMarket(cohorts) ==   \* mutant: a cohort may be in another currency
  Single(UNION {Markets(c) : c \in cohorts})
SingleSharedMarketAndCurrency(cohorts) ==
  Single(UNION {Markets(c) : c \in cohorts}) /\ Single(UNION {Currencies(c) : c \in cohorts})

CompareDamPricePersistenceVsTrainedOlsMae(cases, predictions) ==
  LET cohorts == {cases, predictions}
  IN  IF /\ AlignedCohorts(cohorts) /\ SingleSharedMarketAndCurrency(cohorts)
         /\ CoherentCurrency(cases)
         /\ StrictChronology(cases) /\ StrictChronology(predictions)
      THEN [count       |-> Len(cases), currency |-> cases[1].currency,
            persistence |-> EvaluateDamPricePersistenceMae(cases),
            lag24       |-> EvaluateDamPriceLag24hLinearRegressionMae(predictions)]
      ELSE Failed

CompareDamPricePersistenceVsLag24h168hOlsMae(cases, predictions) ==
  LET cohorts == {cases, predictions}
  IN  IF /\ AlignedCohorts(cohorts) /\ SingleSharedMarketAndCurrency(cohorts)
         /\ CoherentCurrency(cases)
         /\ StrictChronology(cases) /\ StrictChronology(predictions)
      THEN [count       |-> Len(cases), currency |-> cases[1].currency,
            persistence |-> EvaluateDamPricePersistenceMae(cases),
            lag168      |-> EvaluateDamPriceLag24h168hLinearRegressionMae(predictions)]
      ELSE Failed

CompareDamPriceLag24hVsLag24h168hOlsMae(lag24, lag168) ==
  LET cohorts == {lag24, lag168}
  IN  IF /\ AlignedCohorts(cohorts) /\ SingleSharedMarketAndCurrency(cohorts)
         /\ StrictChronology(lag24) /\ StrictChronology(lag168)
      THEN [count  |-> Len(lag24), currency |-> lag24[1].currency,
            lag24  |-> EvaluateDamPriceLag24hLinearRegressionMae(lag24),
            lag168 |-> EvaluateDamPriceLag24h168hLinearRegressionMae(lag168)]
      ELSE Failed

AlignedMarketCohort(cases, lag24, lag168) ==
  /\ AlignedCohorts({cases, lag24, lag168})
  /\ SingleSharedMarketAndCurrency({cases, lag24, lag168}) /\ CoherentCurrency(cases)
  /\ StrictChronology(cases) /\ StrictChronology(lag24) /\ StrictChronology(lag168)

CompareDamPriceThreeWayMae(cases, lag24, lag168) ==
  IF AlignedMarketCohort(cases, lag24, lag168)
  THEN [count       |-> Len(cases), currency |-> cases[1].currency,
        persistence |-> EvaluateDamPricePersistenceMae(cases),
        lag24       |-> EvaluateDamPriceLag24hLinearRegressionMae(lag24),
        lag168      |-> EvaluateDamPriceLag24h168hLinearRegressionMae(lag168)]
  ELSE Failed

\* The owner is the market and the currency the request names.
DamPriceForecastModelRequest(owner, history, targets) ==
  IF targets # << >> /\ {DamPriceIdentity(history[i]) : i \in DOMAIN history} \subseteq {owner}
  THEN [owner |-> owner, history |-> history, targets |-> targets]
  ELSE Failed

\* One target without its lag fails the whole request; the price keeps its currency.
PreviousDayPersistenceDamPriceForecast(request) ==
  LET lag(t) == UniqueLagObservation(request.history, t - Lag24h)
  IN  IF \E i \in DOMAIN request.targets : lag(request.targets[i]) = Failed THEN Failed
      ELSE [i \in DOMAIN request.targets |->
              [owner |-> <<request.owner[1], lag(request.targets[i]).currency>>,
               target |-> request.targets[i],
               predicted |-> lag(request.targets[i]).amount, over |-> 1]]

\* Any finite price is a forecast, in the currency of the request.
Lag24h168hOlsDamPriceForecast(fit, request) ==
  LET lag24(t)  == UniqueLagObservation(request.history, t - Lag24h)
      lag168(t) == UniqueLagObservation(request.history, t - Lag168h)
  IN  IF \E i \in DOMAIN request.targets :
           lag24(request.targets[i]) = Failed \/ lag168(request.targets[i]) = Failed
      THEN Failed
      ELSE [i \in DOMAIN request.targets |->
              [owner |-> request.owner, target |-> request.targets[i], over |-> fit.over,
               predicted |-> Predict168(fit, lag24(request.targets[i]).amount,
                                        lag168(request.targets[i]).amount)]]
===============================================================================
