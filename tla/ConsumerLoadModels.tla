-------------------------- MODULE ConsumerLoadModels --------------------------
(***************************************************************************)
(* ml/consumer_load: feature rows, chronological splits, regressions,      *)
(* predictions, mean absolute errors and comparisons of one consumer's     *)
(* load, and the two live models.  An observation is                       *)
(* [consumer, timestamp, value].                                           *)
(***************************************************************************)
EXTENDS LagRegression

Consumers(rows) == {rows[i].consumer : i \in DOMAIN rows}

ConsumerLoadIdentity(record) == record.consumer
ConsumerLoadValue(record)    == record.value

\* An empty history gives no rows and is no failure.
BuildConsumerLoadLag24hFeatureRows(history) ==
  LET at      == ByTimestamp(history)
      targets == CompleteTargets(history, {Lag24h})
  IN  IF Single(Consumers(history)) /\ UniqueTimestamps(history)
      THEN [i \in DOMAIN targets |->
              [consumer |-> at[targets[i]].consumer, target |-> targets[i],
               lag24 |-> at[targets[i] - Lag24h].value, actual |-> at[targets[i]].value]]
      ELSE Failed

BuildConsumerLoadLag24h168hFeatureRows(history) ==
  LET at      == ByTimestamp(history)
      targets == CompleteTargets(history, {Lag24h, Lag168h})
  IN  IF Single(Consumers(history)) /\ UniqueTimestamps(history)
      THEN [i \in DOMAIN targets |->
              [consumer |-> at[targets[i]].consumer, target |-> targets[i],
               lag24 |-> at[targets[i] - Lag24h].value,
               lag168 |-> at[targets[i] - Lag168h].value, actual |-> at[targets[i]].value]]
      ELSE Failed

SplitConsumerLoadFeatureRowsChronologically(rows, cutoff) ==
  LET split == SplitAt(rows, cutoff)
  IN  IF /\ rows # << >> /\ Single(Consumers(rows)) /\ StrictChronology(rows)
         /\ split.training # << >> /\ split.evaluation # << >>
      THEN split ELSE Failed

SplitConsumerLoadLag24h168hFeatureRowsChronologically(rows, cutoff) ==
  LET split == SplitAt(rows, cutoff)
  IN  IF /\ rows # << >> /\ Single(Consumers(rows)) /\ StrictChronology(rows)
         /\ split.training # << >> /\ split.evaluation # << >>
      THEN split ELSE Failed

FitConsumerLoadLag24hLinearRegression(rows) ==
  IF Len(rows) >= 2 /\ Single(Consumers(rows)) /\ StrictChronology(rows)
  THEN FitOneLag([i \in DOMAIN rows |-> rows[i].lag24], [i \in DOMAIN rows |-> rows[i].actual])
  ELSE Failed

FitConsumerLoadLag24h168hLinearRegression(rows) ==
  IF Len(rows) >= 3 /\ Single(Consumers(rows)) /\ StrictChronology(rows)
  THEN FitTwoLags([i \in DOMAIN rows |-> rows[i].lag24], [i \in DOMAIN rows |-> rows[i].lag168],
                  [i \in DOMAIN rows |-> rows[i].actual])
  ELSE Failed

PredictConsumerLoadLag24hLinearRegression(fit, rows) ==
  IF rows # << >> /\ Single(Consumers(rows)) /\ StrictChronology(rows)
  THEN [i \in DOMAIN rows |->
          [consumer |-> rows[i].consumer, target |-> rows[i].target, over |-> fit.over,
           predicted |-> Predict24(fit, rows[i].lag24), actual |-> rows[i].actual]]
  ELSE Failed

PredictConsumerLoadLag24h168hLinearRegression(fit, rows) ==
  IF rows # << >> /\ Single(Consumers(rows)) /\ StrictChronology(rows)
  THEN [i \in DOMAIN rows |->
          [consumer |-> rows[i].consumer, target |-> rows[i].target, over |-> fit.over,
           predicted |-> Predict168(fit, rows[i].lag24, rows[i].lag168),
           actual |-> rows[i].actual]]
  ELSE Failed

\* Predictions of one call share the denominator of its fit.
EvaluateConsumerLoadLag24hLinearRegressionMae(predictions) ==
  IF predictions # << >> /\ Single(Consumers(predictions)) /\ StrictChronology(predictions)
  THEN MeanAbsoluteError([i \in DOMAIN predictions |-> predictions[i].predicted],
                         predictions[1].over,
                         [i \in DOMAIN predictions |-> predictions[i].actual])
  ELSE Failed

EvaluateConsumerLoadLag24h168hLinearRegressionMae(predictions) ==
  IF predictions # << >> /\ Single(Consumers(predictions)) /\ StrictChronology(predictions)
  THEN MeanAbsoluteError([i \in DOMAIN predictions |-> predictions[i].predicted],
                         predictions[1].over,
                         [i \in DOMAIN predictions |-> predictions[i].actual])
  ELSE Failed

BuildConsumerLoadPersistenceBacktestCases(history) ==
  LET at      == ByTimestamp(history)
      targets == CompleteTargets(history, {Lag24h})
  IN  IF Single(Consumers(history)) /\ UniqueTimestamps(history)
      THEN [i \in DOMAIN targets |->
              [consumer |-> at[targets[i]].consumer, target |-> targets[i],
               predicted |-> at[targets[i] - Lag24h].value, actual |-> at[targets[i]].value]]
      ELSE Failed

\* Only emptiness is checked here.
EvaluateConsumerLoadPersistenceMae(cases) ==
  IF cases = << >> THEN Failed
  ELSE MeanAbsoluteError([i \in DOMAIN cases |-> cases[i].predicted], 1,
                         [i \in DOMAIN cases |-> cases[i].actual])

SingleSharedConsumer(cohorts) == Single(UNION {Consumers(c) : c \in cohorts})

CompareConsumerLoadPersistenceVsTrainedOlsMae(cases, predictions) ==
  LET cohorts == {cases, predictions}
  IN  IF /\ AlignedCohorts(cohorts) /\ SingleSharedConsumer(cohorts)
         /\ StrictChronology(cases) /\ StrictChronology(predictions)
      THEN [count       |-> Len(cases),
            persistence |-> EvaluateConsumerLoadPersistenceMae(cases),
            lag24       |-> EvaluateConsumerLoadLag24hLinearRegressionMae(predictions)]
      ELSE Failed

CompareConsumerLoadPersistenceVsLag24h168hOlsMae(cases, predictions) ==
  LET cohorts == {cases, predictions}
  IN  IF /\ AlignedCohorts(cohorts) /\ SingleSharedConsumer(cohorts)
         /\ StrictChronology(cases) /\ StrictChronology(predictions)
      THEN [count       |-> Len(cases),
            persistence |-> EvaluateConsumerLoadPersistenceMae(cases),
            lag168      |-> EvaluateConsumerLoadLag24h168hLinearRegressionMae(predictions)]
      ELSE Failed

CompareConsumerLoadLag24hVsLag24h168hOlsMae(lag24, lag168) ==
  LET cohorts == {lag24, lag168}
  IN  IF /\ AlignedCohorts(cohorts) /\ SingleSharedConsumer(cohorts)
         /\ StrictChronology(lag24) /\ StrictChronology(lag168)
      THEN [count  |-> Len(lag24),
            lag24  |-> EvaluateConsumerLoadLag24hLinearRegressionMae(lag24),
            lag168 |-> EvaluateConsumerLoadLag24h168hLinearRegressionMae(lag168)]
      ELSE Failed

AlignedConsumerCohort(cases, lag24, lag168) ==
  /\ AlignedCohorts({cases, lag24, lag168}) /\ SingleSharedConsumer({cases, lag24, lag168})
  /\ StrictChronology(cases) /\ StrictChronology(lag24) /\ StrictChronology(lag168)

CompareConsumerLoadThreeWayMae(cases, lag24, lag168) ==
  IF AlignedConsumerCohort(cases, lag24, lag168)
  THEN [count       |-> Len(cases),
        persistence |-> EvaluateConsumerLoadPersistenceMae(cases),
        lag24       |-> EvaluateConsumerLoadLag24hLinearRegressionMae(lag24),
        lag168      |-> EvaluateConsumerLoadLag24h168hLinearRegressionMae(lag168)]
  ELSE Failed

ConsumerLoadForecastModelRequest(consumer, history, targets) ==
  IF targets # << >> /\ Consumers(history) \subseteq {consumer}
  THEN [owner |-> consumer, history |-> history, targets |-> targets]
  ELSE Failed

\* One target without its lag fails the whole request.
PreviousDayPersistenceConsumerLoadForecast(request) ==
  LET lag(t) == UniqueLagObservation(request.history, t - Lag24h)
  IN  IF \E i \in DOMAIN request.targets : lag(request.targets[i]) = Failed THEN Failed
      ELSE [i \in DOMAIN request.targets |->
              [owner |-> request.owner, target |-> request.targets[i],
               predicted |-> lag(request.targets[i]).value, over |-> 1]]

NegativeLoadForecast(fit, request) ==   \* mutant: a negative load is a forecast
  LET lag24(t)  == UniqueLagObservation(request.history, t - Lag24h)
      lag168(t) == UniqueLagObservation(request.history, t - Lag168h)
  IN  IF \E i \in DOMAIN request.targets :
           lag24(request.targets[i]) = Failed \/ lag168(request.targets[i]) = Failed
      THEN Failed
      ELSE [i \in DOMAIN request.targets |->
              [owner |-> request.owner, target |-> request.targets[i], over |-> fit.over,
               predicted |-> Predict168(fit, lag24(request.targets[i]).value,
                                        lag168(request.targets[i]).value)]]
\* A negative load is refused as well.
Lag24h168hOlsConsumerLoadForecast(fit, request) ==
  LET lag24(t)  == UniqueLagObservation(request.history, t - Lag24h)
      lag168(t) == UniqueLagObservation(request.history, t - Lag168h)
      value(t)  == Predict168(fit, lag24(t).value, lag168(t).value)
  IN  IF \E i \in DOMAIN request.targets :
           \/ lag24(request.targets[i]) = Failed \/ lag168(request.targets[i]) = Failed
           \/ value(request.targets[i]) < 0
      THEN Failed
      ELSE [i \in DOMAIN request.targets |->
              [owner |-> request.owner, target |-> request.targets[i], over |-> fit.over,
               predicted |-> value(request.targets[i])]]
===============================================================================
