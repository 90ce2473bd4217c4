---------------------------- MODULE LagRegression -----------------------------
(***************************************************************************)
(* What the load and the price models of ml/ share: chronology, exact-lag  *)
(* lookup, ordinary least squares on one and on two lags, and the mean     *)
(* absolute error.  Numbers are exact: a fit is a set of numerators over   *)
(* one positive denominator, a deviation from a mean is scaled by the row  *)
(* count.  Every InvalidRequestError is the model value Failed.            *)
(***************************************************************************)
EXTENDS Integers, FiniteSets, Sequences, Enumeration

CONSTANTS Lag24h, Lag168h, Failed

Then(result, Op(_)) == IF result = Failed THEN Failed ELSE Op(result)

\* The sums of the first numbers; the last one is that of all.
Sums(numbers) ==
  LET sum[n \in 0 .. Len(numbers)] == IF n = 0 THEN 0 ELSE sum[n - 1] + numbers[n] IN sum
Total(numbers) == Sums(numbers)[Len(numbers)]

Single(S) == Cardinality(S) <= 1

StrictChronology(rows) ==
  \A i \in 1 .. Len(rows) - 1 : rows[i].target < rows[i + 1].target

UniqueTimestamps(history) ==
  \A i, j \in DOMAIN history : history[i].timestamp = history[j].timestamp => i = j

\* The dictionary the builders make of a history with unique timestamps.
ByTimestamp(history) ==
  [t \in {history[i].timestamp : i \in DOMAIN history} |->
     history[CHOOSE i \in DOMAIN history : history[i].timestamp = t]]

\* Sorted targets that have an observation at every one of the lags.
CompleteTargets(history, lags) ==
  LET stamps == DOMAIN ByTimestamp(history)
  IN  InOrder({t \in stamps : \A lag \in lags : t - lag \in stamps})

UniqueLagObservation(history, reference) ==
  LET matches == {i \in DOMAIN history : history[i].timestamp = reference}
  IN  IF Cardinality(matches) = 1 THEN history[CHOOSE i \in matches : TRUE] ELSE Failed

\* The elements of s at the places I, in their order.
Taken(s, I) == LET places == InOrder(I) IN [k \in DOMAIN places |-> s[places[k]]]

CutoffTrains(rows, cutoff) ==   \* mutant: the row at the cutoff trains as well
  [training   |-> Taken(rows, {i \in DOMAIN rows : rows[i].target <= cutoff}),
   evaluation |-> Taken(rows, {i \in DOMAIN rows : rows[i].target >= cutoff})]
SplitAt(rows, cutoff) ==
  [training   |-> Taken(rows, {i \in DOMAIN rows : rows[i].target < cutoff}),
   evaluation |-> Taken(rows, {i \in DOMAIN rows : rows[i].target >= cutoff})]

\* Len(xs) times the deviations of xs from their mean.
Deviations(xs) == [i \in DOMAIN xs |-> Len(xs) * xs[i] - Total(xs)]

SumOfProducts(xs, ys) == Total([i \in DOMAIN xs |-> xs[i] * ys[i]])

\* The slope and the intercept of the line through the means; no variance, no line.
FitOneLag(xs, ys) ==
  LET n           == Len(xs)
      numerator   == SumOfProducts(Deviations(xs), Deviations(ys))
      denominator == SumOfProducts(Deviations(xs), Deviations(xs))
  IN  IF denominator = 0 THEN Failed
      ELSE [slope     |-> n * numerator,
            intercept |-> Total(ys) * denominator - numerator * Total(xs),
            over      |-> n * denominator]

FitTwoLagsUncoupled(x1, x2, ys) ==   \* mutant: the coupling of the lags is left out
  LET n   == Len(ys)
      s11 == SumOfProducts(Deviations(x1), Deviations(x1))
      s22 == SumOfProducts(Deviations(x2), Deviations(x2))
      b1  == SumOfProducts(Deviations(x1), Deviations(ys)) * s22
      b2  == SumOfProducts(Deviations(x2), Deviations(ys)) * s11
  IN  IF s11 * s22 <= 0 THEN Failed
      ELSE [lag24 |-> n * b1, lag168 |-> n * b2, over |-> n * s11 * s22,
            intercept |-> Total(ys) * s11 * s22 - b1 * Total(x1) - b2 * Total(x2)]
\* Cramer's rule on the centered normal equations; a singular design has no fit.
FitTwoLags(x1, x2, ys) ==
  LET n   == Len(ys)
      s11 == SumOfProducts(Deviations(x1), Deviations(x1))
      s22 == SumOfProducts(Deviations(x2), Deviations(x2))
      s12 == SumOfProducts(Deviations(x1), Deviations(x2))
      t1  == SumOfProducts(Deviations(x1), Deviations(ys))
      t2  == SumOfProducts(Deviations(x2), Deviations(ys))
      determinant == s11 * s22 - s12 * s12
      b1  == t1 * s22 - t2 * s12
      b2  == t2 * s11 - t1 * s12
  IN  IF determinant <= 0 THEN Failed
      ELSE [lag24 |-> n * b1, lag168 |-> n * b2, over |-> n * determinant,
            intercept |-> Total(ys) * determinant - b1 * Total(x1) - b2 * Total(x2)]

Predict24(fit, lag24) == fit.slope * lag24 + fit.intercept

Predict168(fit, lag24, lag168) ==
  fit.intercept + fit.lag24 * lag24 + fit.lag168 * lag168

AbsoluteError(predicted, over, actual) ==
  IF predicted >= actual * over THEN predicted - actual * over ELSE actual * over - predicted

\* The error total and what it is over, for cases with a common denominator.
MeanAbsoluteError(predicted, over, actual) ==
  [total |-> Total([i \in DOMAIN actual |-> AbsoluteError(predicted[i], over, actual[i])]),
   over  |-> over * Len(actual)]

\* Non-empty, equally long, and the same target and actual at every index.
AlignedCohorts(cohorts) ==
  /\ << >> \notin cohorts
  /\ \A a, b \in cohorts :
       /\ Len(a) = Len(b)
       /\ \A i \in DOMAIN a : a[i].target = b[i].target /\ a[i].actual = b[i].actual
===============================================================================
