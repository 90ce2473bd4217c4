------------------------- MODULE MCForecastBacktests --------------------------
\* A lag of a day is 1 and of a week 2, so seven observations give four two-lag rows
\* before the cutoff at 5 or after it.
EXTENDS ForecastBacktests, SequencesExt

MCLag24h  == 1
MCLag168h == 2
MCCutoff  == 5

LoadAt(c, t, v) == [consumer |-> c, timestamp |-> t, value |-> v]
LoadHistory(c, from, values) ==
  [i \in DOMAIN values |-> LoadAt(c, from + i - 1, values[i])]

MCLoads == {<<1, 1, a, b, c, d, 2>> : a, b, c, d \in 0 .. 2}

\* The second history: a revision before or after the cutoff, another consumer, another
\* period, a gap, a duplicate, two consumers in one, unsorted, or nothing.
MCLoadInputs ==
  UNION {LET h == LoadHistory("c1", 0, v)
         IN  {<<h, LoadHistory("c1", 0, [v EXCEPT ![3] = 1 - @ \div 2])>>,
              <<h, LoadHistory("c1", 0, [v EXCEPT ![7] = 1 - @ \div 2])>>,
              <<h, LoadHistory("c2", 0, v)>>, <<h, LoadHistory("c1", 1, v)>>,
              <<h, SubSeq(h, 1, 3) \o SubSeq(h, 5, 7)>>,
              <<h, Append(h, LoadAt("c1", 6, 1))>>,
              <<h, Append(h, LoadAt("c2", 7, 1))>>,
              <<h, Reverse(h)>>, <<h, << >> >>} : v \in MCLoads}

\* The same with a negative amount among the prices.
PriceAt(m, c, t, a) == [market |-> m, currency |-> c, timestamp |-> t, amount |-> a]
PriceHistory(m, c, from, amounts) ==
  [i \in DOMAIN amounts |-> PriceAt(m, c, from + i - 1, amounts[i])]

MCAmounts == {<<0, 0, a, b, c, d, 2>> : a, b, c, d \in {-1, 0, 2}}

\* The second history: a revision before or after the cutoff, another market, another
\* currency, another period, a gap, a duplicate, two currencies in one, unsorted, nothing.
MCPriceInputs ==
  UNION {LET h == PriceHistory("m1", "AMD", 0, v)
         IN  {<<h, PriceHistory("m1", "AMD", 0, [v EXCEPT ![3] = 1 - @])>>,
              <<h, PriceHistory("m1", "AMD", 0, [v EXCEPT ![7] = 1 - @])>>,
              <<h, PriceHistory("m2", "AMD", 0, v)>>, <<h, PriceHistory("m1", "USD", 0, v)>>,
              <<h, PriceHistory("m1", "AMD", 1, v)>>,
              <<h, SubSeq(h, 1, 3) \o SubSeq(h, 5, 7)>>,
              <<h, Append(h, PriceAt("m1", "AMD", 6, 1))>>,
              <<h, Append(h, PriceAt("m1", "USD", 7, 1))>>,
              <<h, Reverse(h)>>, <<h, << >> >>} : v \in MCAmounts}
===============================================================================
