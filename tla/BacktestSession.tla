--------------------------- MODULE BacktestSession ----------------------------
(***************************************************************************)
(* A caller of the forecast models: it builds rows of two histories,       *)
(* splits, fits, predicts, compares and at last forecasts live.  Nothing   *)
(* ties the arguments of one call to those of another: a fit of one        *)
(* history may predict the other, and cohorts of both may be compared.     *)
(* The operators of one family (load or price) are the constants.          *)
(***************************************************************************)
EXTENDS LagRegression

CONSTANTS Inputs, Cutoff, Nothing, RefusesNegative,
          Identity(_), Value(_), Rows24(_), Rows168(_), PersistenceCases(_),
          Split24(_, _), Split168(_, _), Fit24(_), Fit168(_),
          Predictions24(_, _), Predictions168(_, _),
          ComparePersistence24(_, _), ComparePersistence168(_, _), Compare24And168(_, _),
          CompareAll(_, _, _), Request(_, _, _), LivePersistence(_), LiveOls(_, _)

VARIABLES source, pc, rows24, rows168, cases, split24, split168, fit24, fit168,
          trainedOn, pred24, pred168, picked, verdict, live

vars == <<source, pc, rows24, rows168, cases, split24, split168, fit24, fit168,
          trainedOn, pred24, pred168, picked, verdict, live>>

Side == 1 .. 2
None == [p \in Side |-> Nothing]

Init ==
  /\ source \in Inputs
  /\ pc = "features"
  /\ rows24 = None /\ rows168 = None /\ cases = None
  /\ split24 = None /\ split168 = None /\ fit24 = None /\ fit168 = None
  /\ trainedOn = Nothing /\ pred24 = None /\ pred168 = None
  /\ picked = Nothing /\ verdict = Nothing /\ live = None

BuildFeatures ==
  /\ pc = "features" /\ pc' = "split"
  /\ rows24'  = [p \in Side |-> Rows24(source[p])]
  /\ rows168' = [p \in Side |-> Rows168(source[p])]
  /\ cases'   = [p \in Side |-> PersistenceCases(source[p])]
  /\ UNCHANGED <<source, split24, split168, fit24, fit168, trainedOn, pred24, pred168,
                 picked, verdict, live>>

Split ==
  /\ pc = "split" /\ pc' = "fit"
  /\ split24'  = [p \in Side |-> Then(rows24[p], LAMBDA rows : Split24(rows, Cutoff))]
  /\ split168' = [p \in Side |-> Then(rows168[p], LAMBDA rows : Split168(rows, Cutoff))]
  /\ UNCHANGED <<source, rows24, rows168, cases, fit24, fit168, trainedOn, pred24, pred168,
                 picked, verdict, live>>

Fit ==
  /\ pc = "fit" /\ pc' = "predict"
  /\ fit24'  = [p \in Side |-> Then(split24[p], LAMBDA s : Fit24(s.training))]
  /\ fit168' = [p \in Side |-> Then(split168[p], LAMBDA s : Fit168(s.training))]
  /\ UNCHANGED <<source, rows24, rows168, cases, split24, split168, trainedOn, pred24,
                 pred168, picked, verdict, live>>

\* The fits of side f predict the evaluation rows of both sides.
Predict(f) ==
  /\ pc = "predict" /\ pc' = "compare"
  /\ trainedOn' = f
  /\ pred24' = [p \in Side |-> Then(fit24[f], LAMBDA fit :
                  Then(split24[p], LAMBDA s : Predictions24(fit, s.evaluation)))]
  /\ pred168' = [p \in Side |-> Then(fit168[f], LAMBDA fit :
                   Then(split168[p], LAMBDA s : Predictions168(fit, s.evaluation)))]
  /\ UNCHANGED <<source, rows24, rows168, cases, split24, split168, fit24, fit168,
                 picked, verdict, live>>

\* The cases of side c: those from the cutoff on, or all.
Cohort(c, fromCutoff) ==
  Then(cases[c], LAMBDA all :
    IF fromCutoff THEN Taken(all, {i \in DOMAIN all : all[i].target >= Cutoff}) ELSE all)

\* What the four comparisons say of a cohort and two sequences of predictions.
Verdict(cohort, lag24, lag168) ==
  LET with(x, y, Op(_, _)) == IF Failed \in {x, y} THEN Failed ELSE Op(x, y)
  IN  [persistence24  |-> with(cohort, lag24, ComparePersistence24),
       persistence168 |-> with(cohort, lag168, ComparePersistence168),
       both           |-> with(lag24, lag168, Compare24And168),
       all            |-> IF Failed \in {cohort, lag24, lag168} THEN Failed
                          ELSE CompareAll(cohort, lag24, lag168)]

\* The cases of side c against predictions of sides a, b.
Compare(c, a, b, fromCutoff) ==
  /\ pc = "compare" /\ pc' = "forecast"
  /\ picked' = [cases |-> c, lag24 |-> a, lag168 |-> b, cohort |-> Cohort(c, fromCutoff)]
  /\ verdict' = Verdict(Cohort(c, fromCutoff), pred24[a], pred168[b])
  /\ UNCHANGED <<source, rows24, rows168, cases, split24, split168, fit24, fit168,
                 trainedOn, pred24, pred168, live>>

EvaluationTargets(p) ==
  [i \in DOMAIN split168[p].evaluation |-> split168[p].evaluation[i].target]

Asked(p) ==
  IF split168[p] = Failed THEN Failed
  ELSE Request(Identity(source[p][1]), source[p], EvaluationTargets(p))

\* Both live models on the evaluation targets of a side.
Answers(p) ==
  [persistence |-> Then(Asked(p), LivePersistence),
   ols |-> Then(Asked(p), LAMBDA r : Then(fit168[trainedOn], LAMBDA fit : LiveOls(fit, r)))]

Forecast ==
  /\ pc = "forecast" /\ pc' = "done"
  /\ live' = [p \in Side |-> Answers(p)]
  /\ UNCHANGED <<source, rows24, rows168, cases, split24, split168, fit24, fit168,
                 trainedOn, pred24, pred168, picked, verdict>>

Done == pc = "done" /\ UNCHANGED vars

Next ==
  \/ BuildFeatures \/ Split \/ Fit \/ (\E f \in Side : Predict(f))
  \/ (\E c, a, b \in Side, fromCutoff \in BOOLEAN : Compare(c, a, b, fromCutoff))
  \/ Forecast \/ Done

Spec == Init /\ [][Next]_vars

\* The comparison made, of the cases and predictions it names.
Judged(c, a, b, fromCutoff) ==
  /\ picked = [cases |-> c, lag24 |-> a, lag168 |-> b, cohort |-> Cohort(c, fromCutoff)]
  /\ verdict = Verdict(Cohort(c, fromCutoff), pred24[a], pred168[b])

\* What each stage has computed, for as long as the session goes on.
Staged ==
  /\ source \in Inputs
  /\ pc \in {"features", "split", "fit", "predict", "compare", "forecast", "done"}
  /\ pc # "features" =>
       /\ rows24  = [p \in Side |-> Rows24(source[p])]
       /\ rows168 = [p \in Side |-> Rows168(source[p])]
       /\ cases   = [p \in Side |-> PersistenceCases(source[p])]
  /\ pc \notin {"features", "split"} =>
       /\ split24  = [p \in Side |-> Then(rows24[p], LAMBDA rows : Split24(rows, Cutoff))]
       /\ split168 = [p \in Side |-> Then(rows168[p], LAMBDA rows : Split168(rows, Cutoff))]
  /\ IF pc \in {"features", "split", "fit"} THEN fit24 = None /\ fit168 = None
     ELSE /\ fit24  = [p \in Side |-> Then(split24[p], LAMBDA s : Fit24(s.training))]
          /\ fit168 = [p \in Side |-> Then(split168[p], LAMBDA s : Fit168(s.training))]
  /\ pc \in {"compare", "forecast", "done"} =>
       /\ trainedOn \in Side
       /\ pred24 = [p \in Side |-> Then(fit24[trainedOn], LAMBDA fit :
                      Then(split24[p], LAMBDA s : Predictions24(fit, s.evaluation)))]
       /\ pred168 = [p \in Side |-> Then(fit168[trainedOn], LAMBDA fit :
                       Then(split168[p], LAMBDA s : Predictions168(fit, s.evaluation)))]
  /\ IF pc \notin {"forecast", "done"} THEN picked = Nothing
     ELSE \E c, a, b \in Side, fromCutoff \in BOOLEAN : Judged(c, a, b, fromCutoff)
  /\ pc = "done" => live = [p \in Side |-> Answers(p)]

-------------------------------------------------------------------------------
\* What a reader of a history sees at a timestamp, without the code's index.
Stamps(p)   == {source[p][i].timestamp : i \in DOMAIN source[p]}
At(p, t)    == Value(source[p][CHOOSE i \in DOMAIN source[p] : source[p][i].timestamp = t])
Series(p)   == {Identity(source[p][i]) : i \in DOMAIN source[p]}
Past(p)     == Taken(source[p], {i \in DOMAIN source[p] : source[p][i].timestamp < Cutoff})
Made(value) == value \notin {Failed, Nothing}
SumOver(S, Op(_)) == LET each == InOrder(S) IN Total([i \in DOMAIN each |-> Op(each[i])])
Abs(n) == IF n < 0 THEN -n ELSE n

\* Every denominator is positive: a fit without variance or with dependent lags is refused,
\* so nothing is ever divided by zero.
TypeOK ==
  /\ pc \in {"features", "split", "fit", "predict", "compare", "forecast", "done"}
  /\ \A p \in Side : /\ Made(fit24[p])  => fit24[p].over > 0
                     /\ Made(fit168[p]) => fit168[p].over > 0

\* The evaluation period leaks into no fit: each fit is the one made of the observations
\* before the cutoff alone.
FitIgnoresTheFuture ==
  \A p \in Side :
    /\ Made(fit24[p])  => fit24[p] = Fit24(Rows24(Past(p)))
    /\ Made(fit168[p]) => fit168[p] = Fit168(Rows168(Past(p)))

\* A fit solves the normal equations of its history: over the training targets the
\* residuals sum to zero and are orthogonal to every lag.
FitIsLeastSquares ==
  \A p \in Side :
    /\ Made(fit24[p]) =>
         LET T == {t \in Stamps(p) : t < Cutoff /\ t - Lag24h \in Stamps(p)}
             r(t) == Predict24(fit24[p], At(p, t - Lag24h)) - At(p, t) * fit24[p].over
         IN  /\ SumOver(T, r) = 0
             /\ SumOver(T, LAMBDA t : r(t) * At(p, t - Lag24h)) = 0
    /\ Made(fit168[p]) =>
         LET T == {t \in Stamps(p) : t < Cutoff /\ {t - Lag24h, t - Lag168h} \subseteq Stamps(p)}
             r(t) == Predict168(fit168[p], At(p, t - Lag24h), At(p, t - Lag168h))
                       - At(p, t) * fit168[p].over
         IN  /\ SumOver(T, r) = 0
             /\ SumOver(T, LAMBDA t : r(t) * At(p, t - Lag24h)) = 0
             /\ SumOver(T, LAMBDA t : r(t) * At(p, t - Lag168h)) = 0

\* The errors a model makes on targets T of history p, recomputed from the observations.
PersistenceError(p, T) ==
  [total |-> SumOver(T, LAMBDA t : Abs(At(p, t - Lag24h) - At(p, t))), over |-> Cardinality(T)]
Error24(p, T) ==
  LET fit == fit24[trainedOn]
  IN  [total |-> SumOver(T, LAMBDA t :
                   Abs(Predict24(fit, At(p, t - Lag24h)) - At(p, t) * fit.over)),
       over  |-> fit.over * Cardinality(T)]
Error168(p, T) ==
  LET fit == fit168[trainedOn]
  IN  [total |-> SumOver(T, LAMBDA t :
                   Abs(Predict168(fit, At(p, t - Lag24h), At(p, t - Lag168h))
                         - At(p, t) * fit.over)),
       over  |-> fit.over * Cardinality(T)]

\* Histories p and q tell the same story about targets T, as one series.
SameActuals(p, q, T) ==
  /\ T \subseteq Stamps(p) \cap Stamps(q) /\ \A t \in T : At(p, t) = At(q, t)
  /\ Series(p) = Series(q) /\ Cardinality(Series(p)) = 1

\* A comparison that answers compared like with like: all its errors are over the same
\* targets of the same series with the same actuals, and each is the error the model
\* really makes there, however the caller mixed cases and predictions.
ComparesLikeWithLike ==
  picked # Nothing =>
    LET c == picked.cases  a == picked.lag24  b == picked.lag168
        T == {picked.cohort[i].target : i \in DOMAIN picked.cohort}
        U == {pred24[a][i].target : i \in DOMAIN pred24[a]}
    IN  /\ Made(verdict.persistence24) =>
             /\ SameActuals(c, a, T) /\ verdict.persistence24.count = Cardinality(T)
             /\ verdict.persistence24.persistence = PersistenceError(c, T)
             /\ verdict.persistence24.lag24 = Error24(a, T)
        /\ Made(verdict.persistence168) =>
             /\ SameActuals(c, b, T) /\ verdict.persistence168.count = Cardinality(T)
             /\ verdict.persistence168.persistence = PersistenceError(c, T)
             /\ verdict.persistence168.lag168 = Error168(b, T)
        /\ Made(verdict.both) =>
             /\ SameActuals(a, b, U) /\ verdict.both.count = Cardinality(U)
             /\ verdict.both.lag24 = Error24(a, U) /\ verdict.both.lag168 = Error168(b, U)
        /\ Made(verdict.all) =>
             /\ SameActuals(c, a, T) /\ SameActuals(a, b, T)
             /\ verdict.all.count = Cardinality(T)
             /\ verdict.all.persistence = PersistenceError(c, T)
             /\ verdict.all.lag24 = Error24(a, T) /\ verdict.all.lag168 = Error168(b, T)

\* The live models answer what the backtest scored: the same prediction for the same
\* target and history, and a refusal only of a negative load.
LiveAgreesWithBacktest ==
  pc = "done" => \A p \in Side :
    /\ Made(pred168[p]) =>
         LET scored == pred168[p]
         IN  IF RefusesNegative /\ \E i \in DOMAIN scored : scored[i].predicted < 0
             THEN live[p].ols = Failed
             ELSE live[p].ols = [i \in DOMAIN scored |->
                    [owner |-> Identity(source[p][1]), target |-> scored[i].target,
                     predicted |-> scored[i].predicted, over |-> scored[i].over]]
    /\ Made(split168[p]) =>
         \A i \in DOMAIN live[p].persistence : \E k \in DOMAIN cases[p] :
           /\ cases[p][k].target = live[p].persistence[i].target
           /\ cases[p][k].predicted = live[p].persistence[i].predicted
===============================================================================
