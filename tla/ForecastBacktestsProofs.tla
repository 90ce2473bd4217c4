------------------------ MODULE ForecastBacktestsProofs -----------------------
(***************************************************************************)
(* The backtests of both families of models, for all histories, lags and   *)
(* cutoffs.  A session computes stage after stage from its two histories,  *)
(* so the inductive invariant (BacktestsStaged) says what each stage has   *)
(* computed; everything else is about the operators: that rows, cases and  *)
(* predictions are functions of their targets (Taken), that sums of        *)
(* centered products solve the normal equations, and that the guards of a  *)
(* comparison leave only like cohorts.  The load and the price families    *)
(* are separate code in the repository, with guards of their own, so each  *)
(* has its own lemmas.                                                     *)
(***************************************************************************)
EXTENDS ForecastBacktests, FiniteSetTheorems, SequenceTheorems, TLAPS


------------------------------------------------------------------------------
(* What both families share: sums, regressions, rows along targets.        *)

\* A function over the first n numbers is a sequence of length n.
LEMMA FcnIsSeq ==
  ASSUME NEW n \in Nat, NEW z \in [1 .. n -> Int]
  PROVE  z \in Seq(Int) /\ Len(z) = n /\ DOMAIN z = 1 .. n
OBVIOUS

\* The partial sums: 0, and each the one before it and the next number.
LEMMA SumsAdd ==
  ASSUME NEW xs \in Seq(Int)
  PROVE  /\ Sums(xs) \in [0 .. Len(xs) -> Int] /\ Sums(xs)[0] = 0
         /\ \A k \in 1 .. Len(xs) : Sums(xs)[k] = Sums(xs)[k - 1] + xs[k]
<1> DEFINE n == Len(xs)
           Adds(s) == s = [k \in 0 .. n |-> IF k = 0 THEN 0 ELSE s[k - 1] + xs[k]]
           Upto(m, g) == /\ g \in [0 .. m -> Int] /\ g[0] = 0
                         /\ \A k \in 1 .. m : g[k] = g[k - 1] + xs[k]
           M == {m \in 0 .. n : \E g : Upto(m, g)}
<1>1. n \in Nat /\ \A k \in 1 .. n : xs[k] \in Int
  OBVIOUS
<1> HIDE DEF n
<1>2. 0 \in M
  <2>1. Upto(0, [k \in 0 .. 0 |-> 0])
    OBVIOUS
  <2>2. 0 \in 0 .. n
    BY <1>1
  <2> HIDE DEF Upto
  <2> QED BY <2>1, <2>2, Zenon
<1>3. PICK m \in M : \A k \in M : k <= m
  <2>1. IsFiniteSet(0 .. n)
    BY <1>1, FS_Interval
  <2>2. M \subseteq Int /\ IsFiniteSet(M) /\ M # {}
    BY <1>1, <1>2, <2>1, FS_Subset
  <2> HIDE DEF M
  <2> QED BY <2>2, Greatest
<1>4. PICK g : Upto(m, g)
  BY <1>3
<1>5. m \in 0 .. n
  BY <1>3
<1>6. m = n
  <2> SUFFICES ASSUME m # n PROVE FALSE
    OBVIOUS
  <2> DEFINE h == [k \in 0 .. m + 1 |-> IF k <= m THEN g[k] ELSE g[m] + xs[m + 1]]
  <2>1. m + 1 \in 0 .. n /\ m + 1 \in 1 .. n
    BY <1>1, <1>5
  <2>2. h \in [0 .. m + 1 -> Int]
    BY <1>1, <1>4, <1>5, <2>1
  <2>3. h[0] = 0
    BY <1>4, <1>5
  <2>4. ASSUME NEW k \in 1 .. m + 1 PROVE h[k] = h[k - 1] + xs[k]
    <3>1. k \in 0 .. m + 1 /\ k - 1 \in 0 .. m + 1 /\ k - 1 <= m /\ (k <= m \/ k = m + 1) /\ m \in Int
      BY <1>5
    <3>2. h[k - 1] = g[k - 1] /\ h[k] = IF k <= m THEN g[k] ELSE g[m] + xs[m + 1]
      BY <3>1
    <3>3. CASE k <= m
      BY <3>1, <3>2, <3>3, <1>4
    <3>4. CASE k = m + 1
      BY <3>1, <3>2, <3>4
    <3> QED BY <3>1, <3>3, <3>4
  <2>5. Upto(m + 1, h)
    BY <2>2, <2>3, <2>4
  <2>6. m + 1 \in M
    <3> HIDE DEF h, Upto
    <3> QED BY <2>1, <2>5, Zenon
  <2>7. m + 1 <= m /\ m \in Int
    <3> HIDE DEF M
    <3> QED BY <1>3, <1>5, <2>6
  <2> QED BY <2>7
<1>7. Adds(g)
  <2>1. g = [k \in 0 .. n |-> g[k]] /\ \A k \in 0 .. n : g[k] = IF k = 0 THEN 0 ELSE g[k - 1] + xs[k]
    BY <1>1, <1>4, <1>6
  <2> QED BY <2>1
<1>8. Sums(xs) = CHOOSE s : Adds(s)
  BY Zenon DEF Sums, n
<1>9. Adds(Sums(xs))
  <2> HIDE DEF Adds
  <2> QED BY <1>7, <1>8, Zenon
<1> DEFINE s == Sums(xs)
<1>10. DOMAIN s = 0 .. n /\ \A k \in 0 .. n : s[k] = IF k = 0 THEN 0 ELSE s[k - 1] + xs[k]
  BY <1>9
<1>11. s = [k \in 0 .. n |-> s[k]]
  BY <1>9
<1> HIDE DEF s
<1>12. s[0] = 0 /\ \A k \in 1 .. n : s[k] = s[k - 1] + xs[k]
  BY <1>1, <1>10
<1> DEFINE I == {j \in 0 .. n : \A k \in 0 .. j : s[k] \in Int}
<1>13. PICK j \in I : \A k \in I : k <= j
  <2>1. IsFiniteSet(0 .. n)
    BY <1>1, FS_Interval
  <2>2. I \subseteq Int /\ IsFiniteSet(I) /\ 0 \in I
    BY <1>1, <1>12, <2>1, FS_Subset
  <2> HIDE DEF I
  <2> QED BY <2>2, Greatest
<1>14. j = n
  <2> SUFFICES ASSUME j # n PROVE FALSE
    OBVIOUS
  <2>1. j + 1 \in 1 .. n /\ j \in 0 .. n /\ s[j] \in Int
    BY <1>1, <1>13
  <2>2. s[j + 1] \in Int
    BY <1>1, <1>12, <2>1
  <2>3. j + 1 \in I
    BY <1>13, <2>1, <2>2
  <2> QED BY <1>13, <2>1, <2>3
<1>15. s \in [0 .. n -> Int]
  BY <1>11, <1>13, <1>14
<1> QED BY <1>12, <1>15 DEF s, n

\* One step of the running sums.
LEMMA SumsStep ==
  ASSUME NEW xs \in Seq(Int), NEW m \in 0 .. Len(xs), m # Len(xs)
  PROVE  /\ m + 1 \in 1 .. Len(xs) /\ m \in Int
         /\ Sums(xs)[m] \in Int /\ xs[m + 1] \in Int
         /\ Sums(xs)[m + 1] = Sums(xs)[m] + xs[m + 1]
<1>1. m + 1 \in 1 .. Len(xs) /\ m + 1 - 1 = m /\ m \in Int
  OBVIOUS
<1>2. Sums(xs)[m] \in Int
  BY SumsAdd
<1>3. xs[m + 1] \in Int
  BY <1>1
<1>4. Sums(xs)[m + 1] = Sums(xs)[m + 1 - 1] + xs[m + 1]
  BY SumsAdd, <1>1
<1> QED BY <1>1, <1>2, <1>3, <1>4

Combination(Z, U, V, W, Q, a, b, c, e, d) == Z = a * U + b * V + c * W + e * Q + d

\* Each number of z is the same linear combination of those of u, v, w and q.
Combines(n, z, u, v, w, q, a, b, c, e, d) ==
  \A i \in 1 .. n : Combination(z[i], u[i], v[i], w[i], q[i], a, b, c, e, d)

\* What is linear in sequences is linear in their totals.
LEMMA LinearTotal ==
  ASSUME NEW n \in Nat, NEW z \in [1 .. n -> Int], NEW u \in [1 .. n -> Int],
         NEW v \in [1 .. n -> Int], NEW w \in [1 .. n -> Int], NEW q \in [1 .. n -> Int],
         NEW a \in Int, NEW b \in Int, NEW c \in Int, NEW e \in Int, NEW d \in Int,
         Combines(n, z, u, v, w, q, a, b, c, e, d)
  PROVE  Combination(Total(z), Total(u), Total(v), Total(w), Total(q), a, b, c, e, n * d)
<1> DEFINE Z == Sums(z)
           U == Sums(u)
           V == Sums(v)
           W == Sums(w)
           Q == Sums(q)
           P(k) == Z[k] = a * U[k] + b * V[k] + c * W[k] + e * Q[k] + k * d
           M == {m \in 0 .. n : P(m)}
<1>s. /\ z \in Seq(Int) /\ Len(z) = n /\ u \in Seq(Int) /\ Len(u) = n /\ v \in Seq(Int) /\ Len(v) = n
      /\ w \in Seq(Int) /\ Len(w) = n /\ q \in Seq(Int) /\ Len(q) = n
  BY FcnIsSeq
<1>1. Z[0] = 0 /\ U[0] = 0 /\ V[0] = 0 /\ W[0] = 0 /\ Q[0] = 0
  BY <1>s, SumsAdd
<1>2. P(0)
  <2>1. 0 = a * 0 + b * 0 + c * 0 + e * 0 + 0 * d
    OBVIOUS
  <2> HIDE DEF Z, U, V, W, Q
  <2> QED BY <1>1, <2>1
<1>3. ASSUME NEW m \in 0 .. n, m # n, P(m) PROVE P(m + 1)
  <2>1. m \in Int /\ m + 1 \in 1 .. n
    BY <1>3
  <2>2. Z[m + 1] = Z[m] + z[m + 1]
    BY <1>s, <1>3, SumsStep
  <2>3. U[m + 1] = U[m] + u[m + 1] /\ U[m] \in Int /\ u[m + 1] \in Int
    BY <1>s, <1>3, SumsStep
  <2>4. V[m + 1] = V[m] + v[m + 1] /\ V[m] \in Int /\ v[m + 1] \in Int
    BY <1>s, <1>3, SumsStep
  <2>5. W[m + 1] = W[m] + w[m + 1] /\ W[m] \in Int /\ w[m + 1] \in Int
    BY <1>s, <1>3, SumsStep
  <2>6. Q[m + 1] = Q[m] + q[m + 1] /\ Q[m] \in Int /\ q[m + 1] \in Int
    BY <1>s, <1>3, SumsStep
  <2>7. z[m + 1] = a * u[m + 1] + b * v[m + 1] + c * w[m + 1] + e * q[m + 1] + d
    BY <2>1 DEF Combines, Combination
  <2>8. Z[m] = a * U[m] + b * V[m] + c * W[m] + e * Q[m] + m * d
    BY <1>3
  <2> HIDE DEF Z, U, V, W, Q
  <2>9. Z[m + 1] = a * U[m + 1] + b * V[m + 1] + c * W[m + 1] + e * Q[m + 1] + (m + 1) * d
    <3> DEFINE Z0 == Z[m]
               U0 == U[m]
               V0 == V[m]
               W0 == W[m]
               Q0 == Q[m]
               Z1 == Z[m + 1]
               U1 == U[m + 1]
               V1 == V[m + 1]
               W1 == W[m + 1]
               Q1 == Q[m + 1]
               z1 == z[m + 1]
               u1 == u[m + 1]
               v1 == v[m + 1]
               w1 == w[m + 1]
               q1 == q[m + 1]
    <3>1. /\ m \in Int /\ Z1 = Z0 + z1 /\ U1 = U0 + u1 /\ V1 = V0 + v1 /\ W1 = W0 + w1 /\ Q1 = Q0 + q1
          /\ U0 \in Int /\ V0 \in Int /\ W0 \in Int /\ Q0 \in Int
          /\ u1 \in Int /\ v1 \in Int /\ w1 \in Int /\ q1 \in Int
          /\ Z0 = a * U0 + b * V0 + c * W0 + e * Q0 + m * d
          /\ z1 = a * u1 + b * v1 + c * w1 + e * q1 + d
      BY <2>1, <2>2, <2>3, <2>4, <2>5, <2>6, <2>7, <2>8
    <3> HIDE DEF Z0, U0, V0, W0, Q0, Z1, U1, V1, W1, Q1, z1, u1, v1, w1, q1
    <3>2. Z1 = a * U1 + b * V1 + c * W1 + e * Q1 + (m + 1) * d
      BY ONLY <3>1, a \in Int, b \in Int, c \in Int, e \in Int, d \in Int
    <3> QED BY <3>2 DEF Z1, U1, V1, W1, Q1
  <2> QED BY <2>9
<1> HIDE DEF P
<1>4. P(n)
  <2>1. M \subseteq Int /\ IsFiniteSet(M) /\ 0 \in M
    <3>1. IsFiniteSet(0 .. n)
      BY FS_Interval
    <3> QED BY <1>2, <3>1, FS_Subset
  <2>2. \A m \in M : m # n => m + 1 \in M
    BY <1>3
  <2>3. \A m \in M : m \in Int /\ (m = n => P(n))
    OBVIOUS
  <2> HIDE DEF M
  <2>4. PICK m \in M : \A k \in M : k <= m
    BY <2>1, Greatest
  <2>5. m \in Int /\ ~(m + 1 <= m)
    BY <2>3
  <2> QED BY <2>2, <2>3, <2>4, <2>5
<1> QED BY <1>s, <1>4 DEF P, Combination, Total, Z, U, V, W, Q

\* The total of whole numbers is one.
LEMMA TotalType ==
  ASSUME NEW n \in Nat, NEW z \in [1 .. n -> Int]
  PROVE  Total(z) \in Int
<1>1. z \in Seq(Int) /\ Len(z) = n
  BY FcnIsSeq
<1> QED BY <1>1, SumsAdd DEF Total

\* The sum of products is the total of the products, and whole.
LEMMA ProductTotal ==
  ASSUME NEW n \in Nat, NEW x \in [1 .. n -> Int], NEW y \in [1 .. n -> Int]
  PROVE  /\ Len(x) = n /\ DOMAIN x = 1 .. n
         /\ [i \in 1 .. n |-> x[i] * y[i]] \in [1 .. n -> Int]
         /\ SumOfProducts(x, y) = Total([i \in 1 .. n |-> x[i] * y[i]])
         /\ SumOfProducts(x, y) \in Int
<1>1. Len(x) = n /\ DOMAIN x = 1 .. n
  BY FcnIsSeq
<1>2. [i \in 1 .. n |-> x[i] * y[i]] \in [1 .. n -> Int]
  OBVIOUS
<1>3. SumOfProducts(x, y) = Total([i \in 1 .. n |-> x[i] * y[i]])
  BY <1>1 DEF SumOfProducts
<1>4. Total([i \in 1 .. n |-> x[i] * y[i]]) \in Int
  BY <1>2, TotalType
<1> QED BY <1>1, <1>2, <1>3, <1>4

\* The products of the deviations sum to n times the centered sum of products.
LEMMA CenteredProducts ==
  ASSUME NEW n \in Nat, NEW x \in [1 .. n -> Int], NEW y \in [1 .. n -> Int]
  PROVE  SumOfProducts(Deviations(x), Deviations(y))
           = n * (n * SumOfProducts(x, y) - Total(x) * Total(y))
<1> DEFINE X == Total(x)
           Y == Total(y)
           S == SumOfProducts(x, y)
           p == [i \in 1 .. n |-> x[i] * y[i]]
           z == [i \in 1 .. n |-> (n * x[i] - X) * (n * y[i] - Y)]
           A == n * n
           B == 0 - n * Y
           C == 0 - n * X
           D == X * Y
<1>1. X \in Int /\ Y \in Int /\ S \in Int /\ S = Total(p) /\ p \in [1 .. n -> Int]
  <2>1. X \in Int /\ Y \in Int
    BY TotalType
  <2>2. S = Total(p) /\ S \in Int
    BY ProductTotal
  <2>3. p \in [1 .. n -> Int]
    OBVIOUS
  <2> QED BY <2>1, <2>2, <2>3
<1>2. /\ Deviations(x) = [i \in 1 .. n |-> n * x[i] - X]
      /\ Deviations(y) = [i \in 1 .. n |-> n * y[i] - Y]
  BY FcnIsSeq DEF Deviations
<1> HIDE DEF X, Y, S, p
<1>3. Deviations(x) \in [1 .. n -> Int] /\ Deviations(y) \in [1 .. n -> Int] /\ z \in [1 .. n -> Int]
  <2>1. \A i \in 1 .. n : /\ n * x[i] - X \in Int /\ n * y[i] - Y \in Int
                          /\ (n * x[i] - X) * (n * y[i] - Y) \in Int
    <3> TAKE i \in 1 .. n
    <3> DEFINE a == x[i]
               b == y[i]
    <3>1. a \in Int /\ b \in Int
      OBVIOUS
    <3> HIDE DEF a, b
    <3>2. n * a - X \in Int /\ n * b - Y \in Int /\ (n * a - X) * (n * b - Y) \in Int
      BY ONLY <1>1, <3>1, n \in Nat
    <3> QED BY <3>2 DEF a, b
  <2> QED BY <1>2, <2>1
<1>4. SumOfProducts(Deviations(x), Deviations(y)) = Total(z)
  <2>1. \A i \in 1 .. n : Deviations(x)[i] * Deviations(y)[i] = (n * x[i] - X) * (n * y[i] - Y)
    BY <1>2
  <2>2. [i \in 1 .. n |-> Deviations(x)[i] * Deviations(y)[i]] = z
    BY <2>1
  <2> QED BY <1>3, <2>2, ProductTotal
<1>5. A \in Int /\ B \in Int /\ C \in Int /\ D \in Int /\ 0 \in Int
  BY <1>1
<1>6. Combines(n, z, p, x, y, y, A, B, C, 0, D)
  <2> SUFFICES \A i \in 1 .. n : z[i] = A * p[i] + B * x[i] + C * y[i] + 0 * y[i] + D
    BY DEF Combines, Combination
  <2> TAKE i \in 1 .. n
  <2> DEFINE a == x[i]
             b == y[i]
  <2>1. a \in Int /\ b \in Int /\ n \in Int
    OBVIOUS
  <2>2. z[i] = (n * a - X) * (n * b - Y) /\ p[i] = a * b
    BY DEF p
  <2> HIDE DEF a, b, z
  <2>3. (n * a - X) * (n * b - Y)
          = n * n * (a * b) + (0 - n * Y) * a + (0 - n * X) * b + 0 * b + X * Y
    BY ONLY <2>1, <1>1
  <2> QED BY <2>2, <2>3 DEF a, b
<1> HIDE DEF A, B, C, D, z
<1>7. Combination(Total(z), Total(p), Total(x), Total(y), Total(y), A, B, C, 0, n * D)
  BY ONLY <1>1, <1>3, <1>5, <1>6, n \in Nat, x \in [1 .. n -> Int], y \in [1 .. n -> Int], LinearTotal
<1>8. n * n * S + (0 - n * Y) * X + (0 - n * X) * Y + 0 * Y + n * (X * Y) = n * (n * S - X * Y)
  BY ONLY <1>1, n \in Nat
<1> QED BY <1>1, <1>4, <1>7, <1>8 DEF Combination, A, B, C, D, X, Y, S

\* The coefficients of the line through the means, from the plain sums.
LEMMA OneLagCoefficients ==
  ASSUME NEW n \in Nat, NEW x \in [1 .. n -> Int], NEW y \in [1 .. n -> Int],
         NEW f, f = FitOneLag(x, y), f # Failed
  PROVE  LET X == Total(x)
             Y == Total(y)
             N == n * (n * SumOfProducts(x, y) - X * Y)
             D == n * (n * SumOfProducts(x, x) - X * X)
         IN  /\ f.slope = n * N /\ f.intercept = Y * D - N * X /\ f.over = n * D
             /\ X \in Int /\ Y \in Int /\ N \in Int /\ D \in Int
<1> DEFINE X == Total(x)
           Y == Total(y)
           S == SumOfProducts(x, y)
           R == SumOfProducts(x, x)
           N == SumOfProducts(Deviations(x), Deviations(y))
           D == SumOfProducts(Deviations(x), Deviations(x))
<1>1. X \in Int /\ Y \in Int
  BY TotalType
<1>2. S \in Int
  BY ProductTotal
<1>3. R \in Int
  BY ProductTotal
<1>4. N = n * (n * S - X * Y)
  BY CenteredProducts
<1>5. D = n * (n * R - X * X)
  BY CenteredProducts
<1>6. Len(x) = n
  BY FcnIsSeq
<1>7. f = [slope |-> n * N, intercept |-> Y * D - N * X, over |-> n * D]
  BY <1>6 DEF FitOneLag
<1> HIDE DEF X, Y, S, R, N, D
<1>8. f.slope = n * N /\ f.intercept = Y * D - N * X /\ f.over = n * D
  BY <1>7
<1>9. N \in Int /\ D \in Int
  BY ONLY <1>1, <1>2, <1>3, <1>4, <1>5, n \in Nat
<1> QED BY <1>1, <1>4, <1>5, <1>8, <1>9 DEF X, Y, S, R

\* The residuals of a line fitted to x sum to zero and are orthogonal to x.
LEMMA OneLagSolves ==
  ASSUME NEW n \in Nat, NEW x \in [1 .. n -> Int], NEW y \in [1 .. n -> Int],
         NEW f, f = FitOneLag(x, y), f # Failed
  PROVE  /\ f.slope \in Int /\ f.intercept \in Int /\ f.over \in Int
         /\ Total([i \in 1 .. n |-> Predict24(f, x[i]) - y[i] * f.over]) = 0
         /\ Total([i \in 1 .. n |-> (Predict24(f, x[i]) - y[i] * f.over) * x[i]]) = 0
<1> DEFINE X == Total(x)
           Y == Total(y)
           S == SumOfProducts(x, y)
           R == SumOfProducts(x, x)
           N == n * (n * S - X * Y)
           D == n * (n * R - X * X)
           a == n * N
           k == Y * D - N * X
           o == n * D
           c == 0 - o
           xy == [i \in 1 .. n |-> x[i] * y[i]]
           xx == [i \in 1 .. n |-> x[i] * x[i]]
           r == [i \in 1 .. n |-> Predict24(f, x[i]) - y[i] * f.over]
           s == [i \in 1 .. n |-> (Predict24(f, x[i]) - y[i] * f.over) * x[i]]
<1> HIDE DEF X, Y, S, R, N, D, a, k, o, c, xy, xx, r, s
<1>1. /\ f.slope = a /\ f.intercept = k /\ f.over = o
      /\ X \in Int /\ Y \in Int /\ N \in Int /\ D \in Int
  BY OneLagCoefficients DEF X, Y, S, R, N, D, a, k, o
<1>2. S = Total(xy) /\ S \in Int /\ xy \in [1 .. n -> Int]
  <2>1. S = Total(xy) /\ S \in Int
    BY ProductTotal DEF S, xy
  <2>2. xy \in [1 .. n -> Int]
    BY DEF xy
  <2> QED BY <2>1, <2>2
<1>3. R = Total(xx) /\ R \in Int /\ xx \in [1 .. n -> Int]
  <2>1. R = Total(xx) /\ R \in Int
    BY ProductTotal DEF R, xx
  <2>2. xx \in [1 .. n -> Int]
    BY DEF xx
  <2> QED BY <2>1, <2>2
<1>4. a \in Int /\ k \in Int /\ o \in Int /\ c \in Int /\ 0 \in Int
  BY ONLY <1>1, n \in Nat DEF a, k, o, c
<1>5. ASSUME NEW i \in 1 .. n
      PROVE  /\ r[i] \in Int /\ s[i] \in Int
             /\ Combination(r[i], x[i], y[i], x[i], x[i], a, c, 0, 0, k)
             /\ Combination(s[i], xx[i], xy[i], x[i], x[i], a, c, k, 0, 0)
  <2> DEFINE u == x[i]
             v == y[i]
             R0 == r[i]
             S0 == s[i]
             P0 == Predict24(f, u)
             O0 == f.over
  <2>1. u \in Int /\ v \in Int /\ xx[i] = u * u /\ xy[i] = u * v
    BY DEF xx, xy
  <2>2. P0 = a * u + k /\ O0 = o
    BY <1>1 DEF Predict24
  <2>3. R0 = P0 - v * O0 /\ S0 = (P0 - v * O0) * u
    BY DEF r, s
  <2> HIDE DEF u, v, R0, S0, P0, O0
  <2>4. R0 = a * u + k - v * o /\ S0 = (a * u + k - v * o) * u
    BY ONLY <1>4, <2>1, <2>2, <2>3
  <2>5. /\ R0 \in Int /\ S0 \in Int
        /\ R0 = a * u + (0 - o) * v + 0 * u + 0 * u + k
        /\ S0 = a * (u * u) + (0 - o) * (u * v) + k * u + 0 * u + 0
    BY ONLY <1>4, <2>1, <2>4
  <2> QED BY <2>1, <2>5 DEF Combination, c, u, v, R0, S0
<1>6. r \in [1 .. n -> Int] /\ s \in [1 .. n -> Int]
  BY <1>5 DEF r, s
<1>7. /\ Combines(n, r, x, y, x, x, a, c, 0, 0, k)
      /\ Combines(n, s, xx, xy, x, x, a, c, k, 0, 0)
  BY <1>5 DEF Combines
<1>8. Combination(Total(r), Total(x), Total(y), Total(x), Total(x), a, c, 0, 0, n * k)
  BY <1>4, <1>6, <1>7, LinearTotal
<1>9. Combination(Total(s), Total(xx), Total(xy), Total(x), Total(x), a, c, k, 0, n * 0)
  BY <1>2, <1>3, <1>4, <1>6, <1>7, LinearTotal
<1>10. Total(r) = 0
  <2>1. n * N * X + (0 - n * D) * Y + 0 * X + 0 * X + n * (Y * D - N * X) = 0
    BY ONLY <1>1, n \in Nat
  <2> QED BY <1>8, <2>1 DEF Combination, a, c, k, o, X, Y
<1>11. Total(s) = 0
  <2>1. n * (n * (n * S - X * Y)) * R + (0 - n * (n * (n * R - X * X))) * S
          + (Y * (n * (n * R - X * X)) - (n * (n * S - X * Y)) * X) * X + 0 * X + n * 0 = 0
    <3> DEFINE A == n * S - X * Y
               B == n * R - X * X
    <3>1. A \in Int /\ B \in Int
      BY ONLY <1>1, <1>2, <1>3, n \in Nat
    <3>e. A = n * S - X * Y /\ B = n * R - X * X
      OBVIOUS
    <3> HIDE DEF A, B
    <3> DEFINE G == n * A
               H == n * B
    <3>2. G \in Int /\ H \in Int
      BY ONLY <3>1, n \in Nat
    <3> HIDE DEF G, H
    <3>n. X \in Int /\ Y \in Int /\ R \in Int /\ S \in Int /\ n \in Int
      BY <1>1, <1>2, <1>3
    <3>4. n * G * R + (0 - n * H) * S + (Y * H - G * X) * X + 0 * X + n * 0
            = G * (n * R - X * X) - H * (n * S - X * Y)
      BY ONLY <3>n, <3>2
    <3>3. (n * A) * B - (n * B) * A = 0
      BY ONLY <3>1, n \in Nat
    <3> QED BY <3>e, <3>3, <3>4, Zenon DEF G, H
  <2>2. Combination(Total(s), R, S, X, X, a, c, k, 0, n * 0)
    BY <1>2, <1>3, <1>9 DEF X
  <2> QED BY <2>1, <2>2 DEF Combination, a, c, k, o, N, D
<1> QED BY <1>1, <1>4, <1>10, <1>11 DEF r, s

\* A residual of the plane, multiplied by a lag and summed, in terms of the centered sums.
LEMMA CollectCentered ==
  ASSUME NEW n \in Int, NEW b \in Int, NEW c \in Int, NEW e \in Int,
         NEW X \in Int, NEW Z \in Int, NEW Y \in Int, NEW S \in Int, NEW R \in Int, NEW T \in Int
  PROVE  n * b * S + n * c * R + (0 - n * e) * T + (Y * e - b * X - c * Z) * X + n * 0
           = b * (n * S - X * X) + c * (n * R - X * Z) - e * (n * T - X * Y)
OBVIOUS

\* Cramer's rule solves the two centered equations.
LEMMA Cramer ==
  ASSUME NEW p \in Int, NEW q \in Int, NEW r \in Int, NEW s \in Int, NEW t \in Int, NEW n \in Int
  PROVE  LET b == (n * s) * (n * r) - (n * t) * (n * q)
             c == (n * t) * (n * p) - (n * s) * (n * q)
             e == (n * p) * (n * r) - (n * q) * (n * q)
         IN  b * p + c * q - e * s = 0 /\ b * q + c * r - e * t = 0
OBVIOUS

\* A fitted plane goes through the means: its residuals sum to zero.
LEMMA PlaneThroughMeans ==
  ASSUME NEW n \in Int, NEW b \in Int, NEW c \in Int, NEW e \in Int,
         NEW X \in Int, NEW Z \in Int, NEW Y \in Int
  PROVE  n * b * X + n * c * Z + (0 - n * e) * Y + 0 * X + n * (Y * e - b * X - c * Z) = 0
OBVIOUS

\* The residuals of a plane fitted to x and z sum to zero and are orthogonal to both.
LEMMA TwoLagsSolve ==
  ASSUME NEW n \in Nat, NEW x \in [1 .. n -> Int], NEW z \in [1 .. n -> Int],
         NEW y \in [1 .. n -> Int], NEW f, f = FitTwoLags(x, z, y), f # Failed
  PROVE  LET r(i) == Predict168(f, x[i], z[i]) - y[i] * f.over
         IN  /\ f.lag24 \in Int /\ f.lag168 \in Int /\ f.intercept \in Int /\ f.over \in Int
             /\ Total([i \in 1 .. n |-> r(i)]) = 0
             /\ Total([i \in 1 .. n |-> r(i) * x[i]]) = 0
             /\ Total([i \in 1 .. n |-> r(i) * z[i]]) = 0
<1> DEFINE X == Total(x)
           Z == Total(z)
           Y == Total(y)
           S11 == SumOfProducts(x, x)
           S12 == SumOfProducts(x, z)
           S22 == SumOfProducts(z, z)
           T1  == SumOfProducts(x, y)
           T2  == SumOfProducts(z, y)
           p == n * S11 - X * X
           q == n * S12 - X * Z
           r == n * S22 - Z * Z
           s == n * T1 - X * Y
           t == n * T2 - Z * Y
           b == (n * s) * (n * r) - (n * t) * (n * q)
           c == (n * t) * (n * p) - (n * s) * (n * q)
           e == (n * p) * (n * r) - (n * q) * (n * q)
           k == Y * e - b * X - c * Z
           B == n * b
           C == n * c
           o == n * e
           E == 0 - o
           xx == [i \in 1 .. n |-> x[i] * x[i]]
           xz == [i \in 1 .. n |-> x[i] * z[i]]
           zz == [i \in 1 .. n |-> z[i] * z[i]]
           xy == [i \in 1 .. n |-> x[i] * y[i]]
           zy == [i \in 1 .. n |-> z[i] * y[i]]
           res(i) == Predict168(f, x[i], z[i]) - y[i] * f.over
           r0 == [i \in 1 .. n |-> res(i)]
           r1 == [i \in 1 .. n |-> res(i) * x[i]]
           r2 == [i \in 1 .. n |-> res(i) * z[i]]
<1> HIDE DEF X, Z, Y, S11, S12, S22, T1, T2, p, q, r, s, t, b, c, e, k, B, C, o, E,
             xx, xz, zz, xy, zy, res, r0, r1, r2
<1>1. X \in Int /\ Z \in Int /\ Y \in Int /\ n \in Int
  BY TotalType DEF X, Y, Z
<1>2. /\ S11 = Total(xx) /\ S12 = Total(xz) /\ S22 = Total(zz) /\ T1 = Total(xy) /\ T2 = Total(zy)
      /\ S11 \in Int /\ S12 \in Int /\ S22 \in Int /\ T1 \in Int /\ T2 \in Int
  <2>1. S11 = Total(xx) /\ S11 \in Int
    BY ProductTotal DEF S11, xx
  <2>2. S12 = Total(xz) /\ S12 \in Int
    BY ProductTotal DEF S12, xz
  <2>3. S22 = Total(zz) /\ S22 \in Int
    BY ProductTotal DEF S22, zz
  <2>4. T1 = Total(xy) /\ T1 \in Int
    BY ProductTotal DEF T1, xy
  <2>5. T2 = Total(zy) /\ T2 \in Int
    BY ProductTotal DEF T2, zy
  <2> QED BY <2>1, <2>2, <2>3, <2>4, <2>5
<1>i. S11 \in Int /\ S12 \in Int /\ S22 \in Int /\ T1 \in Int /\ T2 \in Int
  BY <1>2
<1>3. /\ xx \in [1 .. n -> Int] /\ xz \in [1 .. n -> Int] /\ zz \in [1 .. n -> Int]
      /\ xy \in [1 .. n -> Int] /\ zy \in [1 .. n -> Int]
  <2>1. xx \in [1 .. n -> Int]
    BY DEF xx
  <2>2. xz \in [1 .. n -> Int]
    BY DEF xz
  <2>3. zz \in [1 .. n -> Int]
    BY DEF zz
  <2>4. xy \in [1 .. n -> Int]
    BY DEF xy
  <2>5. zy \in [1 .. n -> Int]
    BY DEF zy
  <2> QED BY <2>1, <2>2, <2>3, <2>4, <2>5
<1>4. p \in Int /\ q \in Int /\ r \in Int /\ s \in Int /\ t \in Int
  BY ONLY <1>1, <1>i DEF p, q, r, s, t
<1>5. b \in Int /\ c \in Int /\ e \in Int
  <2> DEFINE np == n * p
             nq == n * q
             nr == n * r
             ns == n * s
             nt == n * t
  <2>1. np \in Int /\ nq \in Int /\ nr \in Int /\ ns \in Int /\ nt \in Int
    BY ONLY <1>1, <1>4
  <2> HIDE DEF np, nq, nr, ns, nt
  <2>2. ns * nr - nt * nq \in Int /\ nt * np - ns * nq \in Int /\ np * nr - nq * nq \in Int
    BY ONLY <2>1
  <2> QED BY <2>2 DEF b, c, e, np, nq, nr, ns, nt
<1>6. k \in Int /\ B \in Int /\ C \in Int /\ o \in Int /\ E \in Int /\ 0 \in Int
  BY ONLY <1>1, <1>5 DEF k, B, C, o, E
<1>7. f.lag24 = B /\ f.lag168 = C /\ f.over = o /\ f.intercept = k
  <2> DEFINE s11 == SumOfProducts(Deviations(x), Deviations(x))
             s22 == SumOfProducts(Deviations(z), Deviations(z))
             s12 == SumOfProducts(Deviations(x), Deviations(z))
             t1  == SumOfProducts(Deviations(x), Deviations(y))
             t2  == SumOfProducts(Deviations(z), Deviations(y))
             det == s11 * s22 - s12 * s12
             b1  == t1 * s22 - t2 * s12
             b2  == t2 * s11 - t1 * s12
  <2> HIDE DEF s11, s22, s12, t1, t2, det, b1, b2
  <2>1. Len(y) = n
    BY FcnIsSeq
  <2>2. f = [lag24 |-> n * b1, lag168 |-> n * b2, over |-> n * det,
             intercept |-> Total(y) * det - b1 * Total(x) - b2 * Total(z)]
    BY <2>1 DEF FitTwoLags, s11, s22, s12, t1, t2, det, b1, b2
  <2>3. s11 = n * p
    BY CenteredProducts DEF s11, p, S11, X
  <2>4. s22 = n * r
    BY CenteredProducts DEF s22, r, S22, Z
  <2>5. s12 = n * q
    BY CenteredProducts DEF s12, q, S12, X, Z
  <2>6. t1 = n * s
    BY CenteredProducts DEF t1, s, T1, X, Y
  <2>7. t2 = n * t
    BY CenteredProducts DEF t2, t, T2, Z, Y
  <2>8. b1 = b /\ b2 = c /\ det = e
    BY <2>3, <2>4, <2>5, <2>6, <2>7 DEF b1, b2, det, b, c, e
  <2>9. f = [lag24 |-> B, lag168 |-> C, over |-> o, intercept |-> k]
    BY <2>2, <2>8, Zenon DEF B, C, o, k, X, Y, Z
  <2> QED BY <2>9
<1>8. ASSUME NEW i \in 1 .. n
      PROVE  /\ r0[i] \in Int /\ r1[i] \in Int /\ r2[i] \in Int
             /\ Combination(r0[i], x[i], z[i], y[i], x[i], B, C, E, 0, k)
             /\ Combination(r1[i], xx[i], xz[i], xy[i], x[i], B, C, E, k, 0)
             /\ Combination(r2[i], xz[i], zz[i], zy[i], z[i], B, C, E, k, 0)
  <2> DEFINE u == x[i]
             w == z[i]
             v == y[i]
             R0 == r0[i]
             R1 == r1[i]
             R2 == r2[i]
             P0 == Predict168(f, u, w)
             O0 == f.over
  <2>1. /\ u \in Int /\ v \in Int /\ w \in Int
        /\ xx[i] = u * u /\ xz[i] = u * w /\ zz[i] = w * w /\ xy[i] = u * v /\ zy[i] = w * v
    BY DEF xx, xz, zz, xy, zy
  <2>2. P0 = k + B * u + C * w /\ O0 = o
    BY <1>7 DEF Predict168
  <2>3. R0 = P0 - v * O0 /\ R1 = (P0 - v * O0) * u /\ R2 = (P0 - v * O0) * w
    BY DEF r0, r1, r2, res
  <2> HIDE DEF u, v, w, R0, R1, R2, P0, O0
  <2>4. R0 = k + B * u + C * w - v * o
    BY ONLY <1>6, <2>1, <2>2, <2>3
  <2>5. R0 \in Int /\ R0 = B * u + C * w + (0 - o) * v + 0 * u + k
    BY ONLY <1>6, <2>1, <2>4
  <2>6. R1 = R0 * u /\ R2 = R0 * w
    BY <2>3
  <2>7. R1 \in Int /\ R1 = B * (u * u) + C * (u * w) + (0 - o) * (u * v) + k * u + 0
    BY ONLY <1>6, <2>1, <2>4, <2>6
  <2>8. R2 \in Int /\ R2 = B * (u * w) + C * (w * w) + (0 - o) * (w * v) + k * w + 0
    BY ONLY <1>6, <2>1, <2>4, <2>6
  <2> QED BY <2>1, <2>5, <2>7, <2>8 DEF Combination, E, u, v, w, R0, R1, R2
<1>9. r0 \in [1 .. n -> Int] /\ r1 \in [1 .. n -> Int] /\ r2 \in [1 .. n -> Int]
  BY <1>8 DEF r0, r1, r2
<1>10. /\ Combines(n, r0, x, z, y, x, B, C, E, 0, k)
       /\ Combines(n, r1, xx, xz, xy, x, B, C, E, k, 0)
       /\ Combines(n, r2, xz, zz, zy, z, B, C, E, k, 0)
  BY <1>8 DEF Combines
<1>11. Total(r0) = 0
  <2>1. Combination(Total(r0), Total(x), Total(z), Total(y), Total(x), B, C, E, 0, n * k)
    BY <1>6, <1>9, <1>10, LinearTotal
  <2>2. n * b * X + n * c * Z + (0 - n * e) * Y + 0 * X + n * (Y * e - b * X - c * Z) = 0
    BY <1>1, <1>5, PlaneThroughMeans
  <2> QED BY <2>1, <2>2 DEF Combination, B, C, E, o, k, X, Z, Y
<1>12. Total(r1) = 0
  <2>1. Combination(Total(r1), Total(xx), Total(xz), Total(xy), Total(x), B, C, E, k, n * 0)
    BY <1>3, <1>6, <1>9, <1>10, LinearTotal
  <2>2. n * b * S11 + n * c * S12 + (0 - n * e) * T1 + (Y * e - b * X - c * Z) * X + n * 0
          = b * p + c * q - e * s
    <3>1. n * b * S11 + n * c * S12 + (0 - n * e) * T1 + (Y * e - b * X - c * Z) * X + n * 0
            = b * (n * S11 - X * X) + c * (n * S12 - X * Z) - e * (n * T1 - X * Y)
      BY ONLY <1>1, <1>i, <1>5
    <3> QED BY <3>1, Zenon DEF p, q, s
  <2>3. b * p + c * q - e * s = 0
    BY <1>1, <1>4, Cramer DEF b, c, e
  <2> QED BY <1>2, <2>1, <2>2, <2>3 DEF Combination, B, C, E, o, k, X
<1>13. Total(r2) = 0
  <2>1. Combination(Total(r2), Total(xz), Total(zz), Total(zy), Total(z), B, C, E, k, n * 0)
    BY <1>3, <1>6, <1>9, <1>10, LinearTotal
  <2>2. n * b * S12 + n * c * S22 + (0 - n * e) * T2 + (Y * e - b * X - c * Z) * Z + n * 0
          = b * q + c * r - e * t
    <3>1. n * b * S12 + n * c * S22 + (0 - n * e) * T2 + (Y * e - b * X - c * Z) * Z + n * 0
            = b * (n * S12 - X * Z) + c * (n * S22 - Z * Z) - e * (n * T2 - Z * Y)
      BY ONLY <1>1, <1>i, <1>5
    <3> QED BY <3>1, Zenon DEF q, r, t
  <2>3. b * q + c * r - e * t = 0
    BY <1>1, <1>4, Cramer DEF b, c, e
  <2> QED BY <1>2, <2>1, <2>2, <2>3 DEF Combination, B, C, E, o, k, Z
<1> QED BY <1>6, <1>7, <1>11, <1>12, <1>13 DEF r0, r1, r2, res

\* What Taken returns: the elements of f at the members of S, by rank.
LEMMA TakenIs ==
  ASSUME NEW S, S \subseteq Int, IsFiniteSet(S), NEW f
  PROVE  /\ Cardinality(S) \in Nat
         /\ DOMAIN Taken(f, S) = 1 .. Cardinality(S) /\ Len(Taken(f, S)) = Cardinality(S)
         /\ DOMAIN InOrder(S) = 1 .. Cardinality(S) /\ IsTuple(Taken(f, S))
         /\ \A k \in 1 .. Cardinality(S) : InOrder(S)[k] \in S
         /\ \A k \in 1 .. Cardinality(S) : Taken(f, S)[k] = f[InOrder(S)[k]]
         /\ \A t \in S : \E k \in 1 .. Cardinality(S) : InOrder(S)[k] = t
<1> DEFINE n == Cardinality(S)
           s == InOrder(S)
           v == Taken(f, S)
           V == {f[t] : t \in S}
<1>1. n \in Nat /\ s \in [1 .. n -> S] /\ {s[k] : k \in DOMAIN s} = S
  BY InOrderEnumerates
<1>2. v = [k \in DOMAIN s |-> f[s[k]]]
  BY DEF Taken
<1> HIDE DEF n, s, v
<1>3. v = [k \in 1 .. n |-> f[s[k]]] /\ DOMAIN s = 1 .. n
  BY <1>1, <1>2
<1>4. \A k \in 1 .. n : s[k] \in S /\ f[s[k]] \in V
  BY <1>1
<1> HIDE DEF V
<1>5. v \in [1 .. n -> V]
  BY <1>3, <1>4
<1>6. v \in Seq(V) /\ Len(v) = n
  BY <1>1, <1>5
<1>7. IsTuple(v)
  BY <1>6, SeqIsTuple
<1>8. \A t \in S : \E k \in 1 .. n : s[k] = t
  BY <1>1, <1>3
<1> QED BY <1>1, <1>3, <1>4, <1>6, <1>7, <1>8 DEF n, s, v

\* Two functions that agree on S have the same elements there.
LEMMA TakenSame ==
  ASSUME NEW S, S \subseteq Int, IsFiniteSet(S), NEW f, NEW g, \A t \in S : f[t] = g[t]
  PROVE  Taken(f, S) = Taken(g, S)
<1>1. \A k \in DOMAIN InOrder(S) : InOrder(S)[k] \in S
  BY TakenIs
<1>2. \A k \in DOMAIN InOrder(S) : f[InOrder(S)[k]] = g[InOrder(S)[k]]
  BY <1>1
<1> QED BY <1>2 DEF Taken

\* The places of the members of Q in the order of S.
Places(S, Q) == {k \in 1 .. Cardinality(S) : InOrder(S)[k] \in Q}

\* What is taken again of the elements at S, at the places of the members of Q, is what
\* f has at Q.
LEMMA TakenAgain ==
  ASSUME NEW S, S \subseteq Int, IsFiniteSet(S), NEW Q, Q \subseteq S, NEW f
  PROVE  Taken(Taken(f, S), Places(S, Q)) = Taken(f, Q)
<1> DEFINE I == Places(S, Q)
           n == Cardinality(S)
           m == Cardinality(I)
           s == InOrder(S)
           a == InOrder(I)
           g == [k \in 1 .. m |-> s[a[k]]]
<1>1. n \in Nat /\ s \in [1 .. n -> S] /\ {s[k] : k \in DOMAIN s} = S /\ Increasing(s)
  BY InOrderEnumerates
<1>2. I \subseteq 1 .. n /\ I \subseteq Int /\ IsFiniteSet(I)
  <2>1. IsFiniteSet(1 .. n)
    BY <1>1, FS_Interval
  <2> QED BY <1>1, <2>1, FS_Subset DEF Places
<1>3. m \in Nat /\ a \in [1 .. m -> I] /\ {a[k] : k \in DOMAIN a} = I /\ Increasing(a)
  <2> HIDE DEF I, n, s, g
  <2> QED BY ONLY <1>2, InOrderEnumerates
<1>i. \A k \in I : s[k] \in Q
  BY DEF Places
<1>j. \A k \in 1 .. n : s[k] \in Q => k \in I
  BY DEF Places
<1> HIDE DEF I, n, m, s, a
<1>4. \A k \in 1 .. m : a[k] \in I /\ a[k] \in 1 .. n /\ s[a[k]] \in Q
  BY <1>2, <1>3, <1>i
<1>5. g \in [1 .. m -> Q]
  BY <1>4
<1>6. {g[k] : k \in 1 .. m} = Q
  <2>1. ASSUME NEW t \in Q PROVE \E k \in 1 .. m : g[k] = t
    <3>1. t \in {s[k] : k \in DOMAIN s}
      BY <1>1
    <3>2. PICK j \in 1 .. n : s[j] = t
      BY <1>1, <3>1
    <3>3. j \in I
      BY <1>j, <3>2
    <3>4. PICK k \in 1 .. m : a[k] = j
      BY <1>3, <3>3
    <3> QED BY <3>2, <3>4
  <2> HIDE DEF g
  <2> QED BY <1>5, <2>1
<1>7. Increasing(g)
  <2> SUFFICES ASSUME NEW j \in 1 .. m, NEW k \in 1 .. m, j < k PROVE s[a[j]] < s[a[k]]
    BY DEF Increasing
  <2>1. a[j] < a[k]
    BY <1>3 DEF Increasing
  <2> QED BY <1>1, <1>4, <2>1 DEF Increasing
<1>8. Q \subseteq Int
  OBVIOUS
<1>9. g = InOrder(Q) /\ Cardinality(Q) = m
  <2> HIDE DEF g
  <2> QED BY <1>3, <1>5, <1>6, <1>7, <1>8, InOrderIsUnique
<1>10. Taken(f, Q) = [k \in 1 .. m |-> f[g[k]]]
  <2>1. DOMAIN g = 1 .. m
    OBVIOUS
  <2> HIDE DEF g
  <2> QED BY <1>9, <2>1 DEF Taken
<1>11. Taken(Taken(f, S), I) = [k \in 1 .. m |-> Taken(f, S)[a[k]]]
  BY <1>3 DEF Taken, a, I
<1>12. \A k \in 1 .. m : Taken(f, S)[a[k]] = f[g[k]]
  <2>1. \A k \in 1 .. n : Taken(f, S)[k] = f[s[k]]
    BY ONLY TakenIs, S \subseteq Int, IsFiniteSet(S), Zenon DEF n, s
  <2> QED BY <1>4, <2>1
<1> QED BY <1>10, <1>11, <1>12 DEF I

\* Rows in the order of their targets are in chronological order.
LEMMA TakenIsChronological ==
  ASSUME NEW S, S \subseteq Int, IsFiniteSet(S), NEW f, \A t \in S : f[t].target = t
  PROVE  StrictChronology(Taken(f, S))
<1> DEFINE n == Cardinality(S)
           s == InOrder(S)
           v == Taken(f, S)
<1>1. /\ n \in Nat /\ Len(v) = n /\ DOMAIN s = 1 .. n /\ Increasing(s)
      /\ \A k \in 1 .. n : s[k] \in S /\ v[k] = f[s[k]]
  <2>1. /\ n \in Nat /\ Len(v) = n /\ DOMAIN s = 1 .. n
        /\ \A k \in 1 .. n : s[k] \in S /\ v[k] = f[s[k]]
    BY TakenIs, Zenon
  <2>2. Increasing(s)
    BY InOrderEnumerates
  <2> QED BY <2>1, <2>2
<1> HIDE DEF n, s, v
<1>2. \A k \in 1 .. n : v[k].target = s[k]
  BY <1>1
<1>3. ASSUME NEW k \in 1 .. Len(v) - 1 PROVE v[k].target < v[k + 1].target
  <2>1. k \in 1 .. n /\ k + 1 \in 1 .. n /\ k < k + 1
    BY <1>1
  <2> QED BY <1>1, <1>2, <2>1 DEF Increasing
<1> QED BY <1>3 DEF StrictChronology, v

\* A history: a sequence of observations at whole instants.
IsHistory(h) == IsTuple(h) /\ \A i \in DOMAIN h : h[i].timestamp \in Int

StampsOf(h) == {h[i].timestamp : i \in DOMAIN h}

\* The targets that have an observation at each of the lags.
TargetsOf(h, lags) == {t \in StampsOf(h) : \A lag \in lags : t - lag \in StampsOf(h)}

Before(T) == {t \in T : t < Cutoff}
From(T)   == {t \in T : t >= Cutoff}

\* The observations before the cutoff.
Earlier(h) == Taken(h, {i \in DOMAIN h : h[i].timestamp < Cutoff})

\* The timestamps of a history are finitely many instants, and so are its targets.
LEMMA StampsFinite ==
  ASSUME NEW h, IsHistory(h), NEW lags
  PROVE  /\ StampsOf(h) \subseteq Int /\ IsFiniteSet(StampsOf(h))
         /\ TargetsOf(h, lags) \subseteq Int /\ IsFiniteSet(TargetsOf(h, lags))
         /\ Before(TargetsOf(h, lags)) \subseteq Int /\ IsFiniteSet(Before(TargetsOf(h, lags)))
         /\ From(TargetsOf(h, lags)) \subseteq Int /\ IsFiniteSet(From(TargetsOf(h, lags)))
         /\ CompleteTargets(h, lags) = InOrder(TargetsOf(h, lags))
<1> DEFINE n == Len(h)
           f == [i \in 1 .. n |-> h[i].timestamp]
           S == StampsOf(h)
           T == TargetsOf(h, lags)
<1>1. n \in Nat /\ DOMAIN h = 1 .. n /\ \A i \in 1 .. n : h[i].timestamp \in Int
  BY DEF IsHistory, IsTuple
<1>2. S \subseteq Int
  BY DEF StampsOf, IsHistory
<1>3. IsFiniteSet(S)
  <2>1. IsFiniteSet(1 .. n)
    BY <1>1, FS_Interval
  <2>2. S = {f[i] : i \in 1 .. n}
    BY <1>1 DEF StampsOf
  <2>3. f \in Surjection(1 .. n, S)
    <3>1. f \in [1 .. n -> S]
      BY <1>1, <2>2
    <3>2. \A t \in S : \E i \in 1 .. n : f[i] = t
      BY <2>2
    <3> HIDE DEF f, S
    <3> QED BY <3>1, <3>2 DEF Surjection
  <2> HIDE DEF f, S
  <2> QED BY <2>1, <2>3, FS_Surjection
<1>4. T \subseteq S /\ Before(T) \subseteq S /\ From(T) \subseteq S
  BY DEF TargetsOf, Before, From
<1>5. CompleteTargets(h, lags) = InOrder(T)
  BY DEF CompleteTargets, TargetsOf, StampsOf, ByTimestamp
<1> HIDE DEF S, T
<1> QED BY <1>2, <1>3, <1>4, <1>5, FS_Subset DEF S, T

\* The index by timestamp finds an observation made there, and the only one.
LEMMA ByTimestampFinds ==
  ASSUME NEW h
  PROVE  /\ \A t \in StampsOf(h) : \E i \in DOMAIN h :
              h[i].timestamp = t /\ ByTimestamp(h)[t] = h[i]
         /\ UniqueTimestamps(h) => \A i \in DOMAIN h : ByTimestamp(h)[h[i].timestamp] = h[i]
<1>1. ASSUME NEW t \in StampsOf(h)
      PROVE  \E i \in DOMAIN h : h[i].timestamp = t /\ ByTimestamp(h)[t] = h[i]
  <2>1. \E i \in DOMAIN h : h[i].timestamp = t
    BY DEF StampsOf
  <2> DEFINE j == CHOOSE i \in DOMAIN h : h[i].timestamp = t
  <2>2. j \in DOMAIN h /\ h[j].timestamp = t
    BY <2>1
  <2>3. ByTimestamp(h)[t] = h[j]
    BY DEF ByTimestamp, StampsOf
  <2> HIDE DEF j
  <2> QED BY <2>2, <2>3
<1>2. ASSUME UniqueTimestamps(h), NEW i \in DOMAIN h
      PROVE  ByTimestamp(h)[h[i].timestamp] = h[i]
  <2>1. h[i].timestamp \in StampsOf(h)
    BY DEF StampsOf
  <2>2. PICK j \in DOMAIN h : h[j].timestamp = h[i].timestamp /\ ByTimestamp(h)[h[i].timestamp] = h[j]
    BY <1>1, <2>1
  <2>3. j = i
    BY <1>2, <2>2 DEF UniqueTimestamps
  <2> QED BY <2>2, <2>3
<1> QED BY <1>1, <1>2

\* The live lookup finds the same observation.
LEMMA LagIsFound ==
  ASSUME NEW h, IsHistory(h), UniqueTimestamps(h), NEW t \in StampsOf(h)
  PROVE  UniqueLagObservation(h, t) = ByTimestamp(h)[t]
<1> DEFINE matches == {i \in DOMAIN h : h[i].timestamp = t}
<1>1. PICK i \in DOMAIN h : h[i].timestamp = t /\ ByTimestamp(h)[t] = h[i]
  BY ByTimestampFinds
<1>2. matches = {i}
  BY <1>1 DEF UniqueTimestamps
<1>3. Cardinality({i}) = 1
  BY FS_Singleton
<1>4. (CHOOSE j \in matches : TRUE) = i
  BY <1>2
<1> HIDE DEF matches
<1>5. UniqueLagObservation(h, t) = IF Cardinality(matches) = 1 THEN h[CHOOSE j \in matches : TRUE] ELSE Failed
  BY DEF UniqueLagObservation, matches
<1> QED BY <1>1, <1>2, <1>3, <1>4, <1>5

\* What is left of a history before the cutoff: its earlier timestamps, its earlier
\* targets, and the same observation at each of them.
LEMMA EarlierIs ==
  ASSUME NEW h, IsHistory(h), UniqueTimestamps(h), Cutoff \in Int, NEW lags, lags \subseteq Nat
  PROVE  /\ IsHistory(Earlier(h)) /\ UniqueTimestamps(Earlier(h))
         /\ \A i \in DOMAIN Earlier(h) : \E j \in DOMAIN h : Earlier(h)[i] = h[j]
         /\ TargetsOf(Earlier(h), lags) = Before(TargetsOf(h, lags))
         /\ \A t \in StampsOf(Earlier(h)) : ByTimestamp(Earlier(h))[t] = ByTimestamp(h)[t]
<1> DEFINE n == Len(h)
           I == {i \in 1 .. n : h[i].timestamp < Cutoff}
           a == InOrder(I)
           m == Cardinality(I)
           g == Earlier(h)
<1>1. n \in Nat /\ DOMAIN h = 1 .. n /\ \A i \in 1 .. n : h[i].timestamp \in Int
  BY DEF IsHistory, IsTuple
<1>2. I \subseteq Int /\ IsFiniteSet(I) /\ I \subseteq 1 .. n
  <2>1. IsFiniteSet(1 .. n)
    BY <1>1, FS_Interval
  <2> QED BY <2>1, FS_Subset
<1>3. g = Taken(h, I)
  BY <1>1 DEF Earlier
<1>i. /\ \A i \in I : i \in 1 .. n /\ h[i].timestamp < Cutoff
      /\ \A i \in 1 .. n : h[i].timestamp < Cutoff => i \in I
  OBVIOUS
<1> HIDE DEF n, I, a, m, g
<1>4. /\ m \in Nat /\ DOMAIN g = 1 .. m /\ DOMAIN a = 1 .. m /\ IsTuple(g)
      /\ \A k \in 1 .. m : a[k] \in I
      /\ \A k \in 1 .. m : g[k] = h[a[k]]
      /\ \A i \in I : \E k \in 1 .. m : a[k] = i
  <2>1. /\ m \in Nat /\ DOMAIN Taken(h, I) = 1 .. m /\ DOMAIN a = 1 .. m /\ IsTuple(Taken(h, I))
        /\ \A k \in 1 .. m : a[k] \in I
        /\ \A k \in 1 .. m : Taken(h, I)[k] = h[a[k]]
        /\ \A i \in I : \E k \in 1 .. m : a[k] = i
    BY ONLY <1>2, TakenIs, Zenon DEF a, m
  <2> QED BY <1>3, <2>1
<1>5. Increasing(a)
  BY <1>2, InOrderEnumerates DEF a
<1>6. \A j, k \in 1 .. m : a[j] = a[k] => j = k
  <2> SUFFICES ASSUME NEW j \in 1 .. m, NEW k \in 1 .. m, a[j] = a[k], j # k PROVE FALSE
    OBVIOUS
  <2>0. a[j] \in I /\ m \in Nat
    BY <1>4
  <2>1. a[j] \in Int
    BY <1>2, <2>0, Zenon
  <2>3. j \in Int /\ k \in Int
    BY <2>0
  <2>2. j < k \/ k < j
    BY <2>3
  <2> QED BY <1>4, <1>5, <2>1, <2>2 DEF Increasing
<1>7. \A k \in 1 .. m : a[k] \in 1 .. n /\ g[k] = h[a[k]] /\ g[k].timestamp \in Int /\ g[k].timestamp < Cutoff
  BY <1>1, <1>4, <1>i
<1>8. UniqueTimestamps(g)
  BY <1>1, <1>4, <1>6, <1>7 DEF UniqueTimestamps
<1>9. IsHistory(g)
  BY <1>4, <1>7 DEF IsHistory
<1>10. StampsOf(g) = {t \in StampsOf(h) : t < Cutoff}
  <2>1. ASSUME NEW t \in StampsOf(g) PROVE t \in StampsOf(h) /\ t < Cutoff
    BY <1>1, <1>4, <1>7 DEF StampsOf
  <2>2. ASSUME NEW t \in StampsOf(h), t < Cutoff PROVE t \in StampsOf(g)
    <3>1. PICK i \in 1 .. n : h[i].timestamp = t
      BY <1>1 DEF StampsOf
    <3>2. PICK k \in 1 .. m : a[k] = i
      BY <1>4, <1>i, <2>2, <3>1
    <3> QED BY <1>4, <3>1, <3>2 DEF StampsOf
  <2> QED BY <2>1, <2>2
<1>11. TargetsOf(g, lags) = Before(TargetsOf(h, lags))
  <2>1. StampsOf(h) \subseteq Int
    BY <1>1 DEF StampsOf
  <2>2. \A t \in StampsOf(h), lag \in lags : t < Cutoff => t - lag < Cutoff
    BY <2>1
  <2> QED BY <1>10, <2>2 DEF TargetsOf, Before
<1>12. ASSUME NEW t \in StampsOf(g) PROVE ByTimestamp(g)[t] = ByTimestamp(h)[t]
  <2>1. PICK k \in 1 .. m : g[k].timestamp = t /\ ByTimestamp(g)[t] = g[k]
    BY <1>4, ByTimestampFinds
  <2>2. ByTimestamp(h)[h[a[k]].timestamp] = h[a[k]]
    BY <1>1, <1>7, ByTimestampFinds
  <2> QED BY <1>7, <2>1, <2>2
<1>13. \A i \in DOMAIN g : \E j \in DOMAIN h : g[i] = h[j]
  BY <1>1, <1>4, <1>7
<1> QED BY <1>8, <1>9, <1>11, <1>12, <1>13 DEF g

\* Rows along targets, split at the cutoff.
LEMMA SplitIs ==
  ASSUME NEW S, S \subseteq Int, IsFiniteSet(S), NEW f, \A t \in S : f[t].target = t
  PROVE  SplitAt(Taken(f, S), Cutoff)
           = [training |-> Taken(f, Before(S)), evaluation |-> Taken(f, From(S))]
<1> DEFINE v == Taken(f, S)
           n == Cardinality(S)
           s == InOrder(S)
           I == Places(S, Before(S))
           J == Places(S, From(S))
<1>1. /\ n \in Nat /\ DOMAIN v = 1 .. n /\ \A k \in 1 .. n : s[k] \in S
      /\ \A k \in 1 .. n : v[k] = f[s[k]]
  BY TakenIs
<1> HIDE DEF v, n, s
<1>2. \A k \in 1 .. n : v[k].target = s[k]
  BY <1>1
<1>3. {k \in DOMAIN v : v[k].target < Cutoff} = I /\ {k \in DOMAIN v : v[k].target >= Cutoff} = J
  BY <1>1, <1>2 DEF Before, From, Places, n, s
<1>4. Taken(v, I) = Taken(f, Before(S))
  <2>1. Before(S) \subseteq S
    BY DEF Before
  <2> QED BY <2>1, TakenAgain DEF v
<1>5. Taken(v, J) = Taken(f, From(S))
  <2>1. From(S) \subseteq S
    BY DEF From
  <2> QED BY <2>1, TakenAgain DEF v
<1>6. SplitAt(v, Cutoff) = [training |-> Taken(v, I), evaluation |-> Taken(v, J)]
  BY <1>3 DEF SplitAt
<1> QED BY <1>4, <1>5, <1>6 DEF v

T24(h)  == TargetsOf(h, {Lag24h})
T168(h) == TargetsOf(h, {Lag24h, Lag168h})

\* Whole values along T are a sequence of whole numbers.
LEMMA TakenInts ==
  ASSUME NEW T, T \subseteq Int, IsFiniteSet(T), NEW X, \A t \in T : X[t] \in Int
  PROVE  Taken(X, T) \in [1 .. Cardinality(T) -> Int]
<1> DEFINE n == Cardinality(T)
           s == InOrder(T)
<1>1. DOMAIN s = 1 .. n /\ \A k \in 1 .. n : s[k] \in T
  BY TakenIs
<1>2. Taken(X, T) = [k \in DOMAIN s |-> X[s[k]]]
  BY DEF Taken
<1> HIDE DEF n, s
<1> QED BY <1>1, <1>2 DEF n

\* The residuals of a line along T, and their products with the values w.
LineResiduals(fit, X, Y, T) ==
  LET s == InOrder(T)
  IN  [i \in DOMAIN s |-> Predict24(fit, X[s[i]]) - Y[s[i]] * fit.over]
LineMoments(fit, X, Y, T) ==
  LET s == InOrder(T)
  IN  [i \in DOMAIN s |-> (Predict24(fit, X[s[i]]) - Y[s[i]] * fit.over) * X[s[i]]]

PlaneResiduals(fit, X, Z, Y, T) ==
  LET s == InOrder(T)
  IN  [i \in DOMAIN s |-> Predict168(fit, X[s[i]], Z[s[i]]) - Y[s[i]] * fit.over]
PlaneMoments(fit, X, Z, Y, W, T) ==
  LET s == InOrder(T)
  IN  [i \in DOMAIN s |-> (Predict168(fit, X[s[i]], Z[s[i]]) - Y[s[i]] * fit.over) * W[s[i]]]

\* The residuals of a line fitted along T sum to zero and are orthogonal to the lag.
LEMMA LineAlong ==
  ASSUME NEW T, T \subseteq Int, IsFiniteSet(T), NEW X, NEW Y,
         \A t \in T : X[t] \in Int /\ Y[t] \in Int,
         NEW fit, fit = FitOneLag(Taken(X, T), Taken(Y, T)), fit # Failed
  PROVE  /\ fit.slope \in Int /\ fit.intercept \in Int /\ fit.over \in Int
         /\ Total(LineResiduals(fit, X, Y, T)) = 0 /\ Total(LineMoments(fit, X, Y, T)) = 0
<1> DEFINE n == Cardinality(T)
           s == InOrder(T)
           x == Taken(X, T)
           y == Taken(Y, T)
<1>1. n \in Nat /\ DOMAIN s = 1 .. n
  BY TakenIs
<1>2. x \in [1 .. n -> Int] /\ y \in [1 .. n -> Int]
  BY TakenInts
<1>3. \A k \in 1 .. n : x[k] = X[s[k]]
  BY TakenIs
<1>4. \A k \in 1 .. n : y[k] = Y[s[k]]
  BY TakenIs
<1> HIDE DEF n, s, x, y
<1>5. /\ fit.slope \in Int /\ fit.intercept \in Int /\ fit.over \in Int
      /\ Total([i \in 1 .. n |-> Predict24(fit, x[i]) - y[i] * fit.over]) = 0
      /\ Total([i \in 1 .. n |-> (Predict24(fit, x[i]) - y[i] * fit.over) * x[i]]) = 0
  <2>1. fit = FitOneLag(x, y)
    BY DEF x, y
  <2> QED BY <1>1, <1>2, <2>1, OneLagSolves
<1>6. /\ [i \in 1 .. n |-> Predict24(fit, x[i]) - y[i] * fit.over]
            = [i \in DOMAIN s |-> Predict24(fit, X[s[i]]) - Y[s[i]] * fit.over]
      /\ [i \in 1 .. n |-> (Predict24(fit, x[i]) - y[i] * fit.over) * x[i]]
            = [i \in DOMAIN s |-> (Predict24(fit, X[s[i]]) - Y[s[i]] * fit.over) * X[s[i]]]
  BY <1>1, <1>3, <1>4
<1> QED BY <1>5, <1>6 DEF s, LineResiduals, LineMoments

\* The same of a plane fitted along T, for both lags.
LEMMA PlaneAlong ==
  ASSUME NEW T, T \subseteq Int, IsFiniteSet(T), NEW X, NEW Z, NEW Y,
         \A t \in T : X[t] \in Int /\ Z[t] \in Int /\ Y[t] \in Int,
         NEW fit, fit = FitTwoLags(Taken(X, T), Taken(Z, T), Taken(Y, T)), fit # Failed
  PROVE  /\ fit.lag24 \in Int /\ fit.lag168 \in Int /\ fit.intercept \in Int /\ fit.over \in Int
         /\ Total(PlaneResiduals(fit, X, Z, Y, T)) = 0
         /\ Total(PlaneMoments(fit, X, Z, Y, X, T)) = 0 /\ Total(PlaneMoments(fit, X, Z, Y, Z, T)) = 0
<1> DEFINE n == Cardinality(T)
           s == InOrder(T)
           x == Taken(X, T)
           z == Taken(Z, T)
           y == Taken(Y, T)
<1>1. n \in Nat /\ DOMAIN s = 1 .. n
  BY TakenIs
<1>2. x \in [1 .. n -> Int] /\ z \in [1 .. n -> Int] /\ y \in [1 .. n -> Int]
  BY TakenInts
<1>3. \A k \in 1 .. n : x[k] = X[s[k]]
  BY TakenIs
<1>4. \A k \in 1 .. n : y[k] = Y[s[k]]
  BY TakenIs
<1>5. \A k \in 1 .. n : z[k] = Z[s[k]]
  BY TakenIs
<1> HIDE DEF n, s, x, y, z
<1>6. /\ fit.lag24 \in Int /\ fit.lag168 \in Int /\ fit.intercept \in Int /\ fit.over \in Int
      /\ Total([i \in 1 .. n |-> Predict168(fit, x[i], z[i]) - y[i] * fit.over]) = 0
      /\ Total([i \in 1 .. n |-> (Predict168(fit, x[i], z[i]) - y[i] * fit.over) * x[i]]) = 0
      /\ Total([i \in 1 .. n |-> (Predict168(fit, x[i], z[i]) - y[i] * fit.over) * z[i]]) = 0
  <2>1. fit = FitTwoLags(x, z, y)
    BY DEF x, y, z
  <2> QED BY <1>1, <1>2, <2>1, TwoLagsSolve
<1>7. /\ [i \in 1 .. n |-> Predict168(fit, x[i], z[i]) - y[i] * fit.over]
            = [i \in DOMAIN s |-> Predict168(fit, X[s[i]], Z[s[i]]) - Y[s[i]] * fit.over]
      /\ [i \in 1 .. n |-> (Predict168(fit, x[i], z[i]) - y[i] * fit.over) * x[i]]
            = [i \in DOMAIN s |-> (Predict168(fit, X[s[i]], Z[s[i]]) - Y[s[i]] * fit.over) * X[s[i]]]
      /\ [i \in 1 .. n |-> (Predict168(fit, x[i], z[i]) - y[i] * fit.over) * z[i]]
            = [i \in DOMAIN s |-> (Predict168(fit, X[s[i]], Z[s[i]]) - Y[s[i]] * fit.over) * Z[s[i]]]
  BY <1>1, <1>3, <1>4, <1>5
<1> QED BY <1>6, <1>7 DEF s, PlaneResiduals, PlaneMoments

\* The columns of rows, and the values behind them at each target of D.
Lag24Of(rows)  == [i \in DOMAIN rows |-> rows[i].lag24]
Lag168Of(rows) == [i \in DOMAIN rows |-> rows[i].lag168]
ActualOf(rows) == [i \in DOMAIN rows |-> rows[i].actual]

\* Rows for the targets A.
Dated(f, A) == A \subseteq Int /\ IsFiniteSet(A) /\ \A t \in A : f[t].target = t

\* The targets of rows along A are A.
LEMMA TargetsAlong ==
  ASSUME NEW A, NEW f, Dated(f, A)
  PROVE  /\ {Taken(f, A)[i].target : i \in DOMAIN Taken(f, A)} = A
         /\ Taken(f, A) # << >> <=> A # {}
<1> DEFINE n == Cardinality(A)
           s == InOrder(A)
           v == Taken(f, A)
<1>0. A \subseteq Int /\ IsFiniteSet(A) /\ \A t \in A : f[t].target = t
  BY DEF Dated
<1>1. /\ n \in Nat /\ DOMAIN v = 1 .. n /\ \A k \in 1 .. n : s[k] \in A
      /\ \A k \in 1 .. n : v[k] = f[s[k]]
      /\ \A t \in A : \E k \in 1 .. n : s[k] = t
  BY <1>0, TakenIs
<1>l. Len(v) = n
  BY <1>0, TakenIs
<1> HIDE DEF n, s, v
<1>2. \A k \in 1 .. n : v[k].target = s[k]
  BY <1>0, <1>1
<1>3. {v[i].target : i \in DOMAIN v} = A
  <2>1. \A k \in DOMAIN v : v[k].target \in A
    BY <1>1, <1>2
  <2>2. \A t \in A : \E k \in DOMAIN v : v[k].target = t
    BY <1>1, <1>2
  <2> QED BY <2>1, <2>2, Zenon
<1>4. v # << >> <=> A # {}
  <2>1. v = << >> => n = 0
    BY <1>l
  <2>2. n = 0 => v = << >>
    <3>1. IsTuple(v)
      BY <1>0, TakenIs DEF v
    <3> QED BY <1>l, <3>1 DEF IsTuple
  <2>3. n = 0 <=> A = {}
    BY <1>0, FS_EmptySet DEF n
  <2> QED BY <2>1, <2>2, <2>3
<1> QED BY <1>3, <1>4 DEF v

\* Aligned rows are of the same targets, some, and agree on the actuals.
LEMMA AlignedAlong ==
  ASSUME NEW A, NEW f, Dated(f, A), NEW B, NEW g, Dated(g, B),
         AlignedCohorts({Taken(f, A), Taken(g, B)})
  PROVE  A = B /\ A # {} /\ \A t \in A : f[t].actual = g[t].actual
<1> DEFINE v == Taken(f, A)
           w == Taken(g, B)
           n == Cardinality(A)
           m == Cardinality(B)
           r == InOrder(A)
           s == InOrder(B)
<1>0. /\ A \subseteq Int /\ IsFiniteSet(A) /\ \A t \in A : f[t].target = t
      /\ B \subseteq Int /\ IsFiniteSet(B) /\ \A t \in B : g[t].target = t
  BY DEF Dated
<1>1. /\ DOMAIN v = 1 .. n /\ Len(v) = n /\ \A k \in 1 .. n : r[k] \in A
      /\ \A k \in 1 .. n : v[k] = f[r[k]]
      /\ \A t \in A : \E k \in 1 .. n : r[k] = t
  BY <1>0, TakenIs
<1>2. /\ DOMAIN w = 1 .. m /\ Len(w) = m /\ \A k \in 1 .. m : s[k] \in B
      /\ \A k \in 1 .. m : w[k] = g[s[k]]
      /\ \A t \in B : \E k \in 1 .. m : s[k] = t
  BY <1>0, TakenIs
<1>3. A # {}
  <2>1. v # << >>
    BY DEF AlignedCohorts
  <2> QED BY <2>1, TargetsAlong
<1>4. Len(v) = Len(w) /\ \A k \in DOMAIN v : v[k].target = w[k].target /\ v[k].actual = w[k].actual
  BY DEF AlignedCohorts
<1> HIDE DEF v, w, n, m, r, s
<1>5. n = m
  BY <1>1, <1>2, <1>4
<1>6. ASSUME NEW k \in 1 .. n PROVE r[k] = s[k] /\ f[r[k]].actual = g[s[k]].actual
  <2>1. v[k] = f[r[k]] /\ w[k] = g[s[k]] /\ v[k].target = w[k].target /\ v[k].actual = w[k].actual
    BY <1>1, <1>2, <1>4, <1>5
  <2>2. f[r[k]].target = r[k]
    BY <1>0, <1>1
  <2>3. g[s[k]].target = s[k]
    BY <1>0, <1>2, <1>5
  <2> QED BY <2>1, <2>2, <2>3
<1>7. A = B
  <2>1. \A t \in A : t \in B
    BY <1>1, <1>2, <1>5, <1>6
  <2>2. \A t \in B : t \in A
    BY <1>1, <1>2, <1>5, <1>6
  <2> QED BY <2>1, <2>2, Zenon
<1>8. ASSUME NEW t \in A PROVE f[t].actual = g[t].actual
  <2>1. PICK k \in 1 .. n : r[k] = t
    BY <1>1
  <2> QED BY <1>6, <2>1
<1> QED BY <1>3, <1>7, <1>8

\* The absolute errors of rows along A, over the denominator o.
AbsoluteErrors(f, o, A) ==
  LET s == InOrder(A)
      e(i) == f[s[i]].predicted - f[s[i]].actual * o
  IN  [i \in DOMAIN s |-> IF e(i) < 0 THEN -e(i) ELSE e(i)]

PredictedOf(rows) == [i \in DOMAIN rows |-> rows[i].predicted]

\* The mean absolute error of rows along A.
LEMMA ErrorAlong ==
  ASSUME NEW A, A \subseteq Int, IsFiniteSet(A), NEW f, NEW o \in Int,
         \A t \in A : f[t].predicted \in Int /\ f[t].actual \in Int
  PROVE  MeanAbsoluteError(PredictedOf(Taken(f, A)), o, ActualOf(Taken(f, A)))
           = [total |-> Total(AbsoluteErrors(f, o, A)), over |-> o * Cardinality(A)]
<1> DEFINE v == Taken(f, A)
           n == Cardinality(A)
           s == InOrder(A)
           P == PredictedOf(v)
           C == ActualOf(v)
<1>1. /\ n \in Nat /\ DOMAIN v = 1 .. n /\ \A k \in 1 .. n : s[k] \in A
      /\ (\A k \in 1 .. n : v[k] = f[s[k]]) /\ DOMAIN s = 1 .. n
  BY TakenIs
<1> HIDE DEF v, n, s
<1>2. /\ DOMAIN C = 1 .. n
      /\ \A k \in 1 .. n : P[k] = f[s[k]].predicted /\ C[k] = f[s[k]].actual
      /\ \A k \in 1 .. n : f[s[k]].predicted \in Int /\ f[s[k]].actual \in Int
  BY <1>1 DEF PredictedOf, ActualOf
<1>3. Len(C) = n
  <2>1. C \in [1 .. n -> Int]
    BY <1>1, <1>2 DEF ActualOf
  <2> QED BY <1>1, <2>1
<1> HIDE DEF P, C
<1>4. \A k \in 1 .. n : AbsoluteError(P[k], o, C[k])
        = LET e == f[s[k]].predicted - f[s[k]].actual * o IN IF e < 0 THEN -e ELSE e
  <2> TAKE k \in 1 .. n
  <2> DEFINE a == P[k]
             b == C[k] * o
  <2>1. P[k] \in Int /\ C[k] \in Int
    BY <1>2
  <2>2. a \in Int /\ b \in Int
    BY <2>1
  <2>3. AbsoluteError(P[k], o, C[k]) = IF a >= b THEN a - b ELSE b - a
    BY DEF AbsoluteError
  <2> HIDE DEF a, b
  <2>4. (IF a >= b THEN a - b ELSE b - a) = IF a - b < 0 THEN -(a - b) ELSE a - b
    BY ONLY <2>2
  <2>5. a - b = f[s[k]].predicted - f[s[k]].actual * o
    BY <1>2 DEF a, b
  <2> QED BY <2>3, <2>4, <2>5
<1>5. [k \in DOMAIN C |-> AbsoluteError(P[k], o, C[k])] = AbsoluteErrors(f, o, A)
  <2>1. AbsoluteErrors(f, o, A) = [k \in 1 .. n |->
          LET e == f[s[k]].predicted - f[s[k]].actual * o IN IF e < 0 THEN -e ELSE e]
    BY <1>1 DEF AbsoluteErrors, s
  <2> QED BY <1>2, <1>4, <2>1
<1>6. MeanAbsoluteError(P, o, C) = [total |-> Total(AbsoluteErrors(f, o, A)), over |-> o * n]
  BY <1>3, <1>5 DEF MeanAbsoluteError
<1> QED BY <1>6 DEF P, C, v, n

\* A set of at most one member that has x is {x}.
LEMMA SingleIs ==
  ASSUME NEW S, IsFiniteSet(S), Single(S), NEW x \in S
  PROVE  S = {x} /\ Cardinality(S) = 1
<1>1. Cardinality(S) \in Nat /\ Cardinality(S) <= 1
  BY FS_CardinalityType DEF Single
<1>2. Cardinality(S) # 0
  BY FS_EmptySet
<1>3. Cardinality(S) = 1
  BY <1>1, <1>2
<1>4. PICK y : S = {y}
  BY <1>3, FS_Singleton
<1> QED BY <1>3, <1>4

\* Part of a set of at most one member has at most one.
LEMMA SingleSubset ==
  ASSUME NEW S, IsFiniteSet(S), Single(S), NEW R, R \subseteq S
  PROVE  Single(R) /\ IsFiniteSet(R)
<1>1. IsFiniteSet(R) /\ Cardinality(R) <= Cardinality(S)
  BY FS_Subset
<1>2. Cardinality(R) \in Nat /\ Cardinality(S) \in Nat
  BY <1>1, FS_CardinalityType
<1> QED BY <1>1, <1>2 DEF Single

\* The elements of a sequence are finitely many.
LEMMA ImageFinite ==
  ASSUME NEW n \in Nat, NEW f
  PROVE  IsFiniteSet({f[i] : i \in 1 .. n})
<1> DEFINE S == {f[i] : i \in 1 .. n}
           g == [i \in 1 .. n |-> f[i]]
<1>1. g \in [1 .. n -> S] /\ \A x \in S : \E i \in 1 .. n : g[i] = x
  OBVIOUS
<1> HIDE DEF g, S
<1>2. g \in Surjection(1 .. n, S)
  BY <1>1 DEF Surjection
<1>3. IsFiniteSet(1 .. n)
  BY FS_Interval
<1> QED BY <1>2, <1>3, FS_Surjection DEF S

\* What is taken at A has the element of each member of A.
Instants(A) == A \subseteq Int /\ IsFiniteSet(A)

\* Every member of A is the place of some element taken.
LEMMA TakenEach ==
  ASSUME NEW A, Instants(A), NEW f
  PROVE  \A t \in A : \E i \in DOMAIN Taken(f, A) : Taken(f, A)[i] = f[t]
<1> DEFINE n == Cardinality(A)
           s == InOrder(A)
           v == Taken(f, A)
<1>1. /\ DOMAIN v = 1 .. n /\ \A k \in 1 .. n : v[k] = f[s[k]]
      /\ \A u \in A : \E k \in 1 .. n : s[k] = u
  BY TakenIs DEF Instants
<1> HIDE DEF v, n, s
<1>2. ASSUME NEW t \in A PROVE \E i \in DOMAIN v : v[i] = f[t]
  <2>1. PICK k \in 1 .. n : s[k] = t
    BY <1>1
  <2> QED BY <1>1, <2>1
<1> QED BY <1>2 DEF v

\* Three aligned cohorts are aligned two by two.
LEMMA AlignedPairs ==
  ASSUME NEW u, NEW v, NEW w, AlignedCohorts({u, v, w})
  PROVE  AlignedCohorts({u, v}) /\ AlignedCohorts({v, w})
BY DEF AlignedCohorts

\* What is taken along timestamps of a history is a sequence.
LEMMA TakenIsTuple ==
  ASSUME NEW h, IsHistory(h), NEW A, A \subseteq StampsOf(h), NEW f
  PROVE  IsTuple(Taken(f, A))
<1>1. A \subseteq Int /\ IsFiniteSet(A)
  BY StampsFinite, FS_Subset
<1> QED BY <1>1, TakenIs

TargetsIn(x) == {x[i].target : i \in DOMAIN x}

\* Numbers that are not negative have no negative total.
LEMMA TotalNotNegative ==
  ASSUME NEW n \in Nat, NEW z \in [1 .. n -> Int], \A k \in 1 .. n : z[k] >= 0
  PROVE  Total(z) \in Int /\ Total(z) >= 0
<1> DEFINE Z == Sums(z)
           P(k) == Z[k] >= 0
           M == {m \in 0 .. n : P(m)}
<1>s. z \in Seq(Int) /\ Len(z) = n
  BY FcnIsSeq
<1>1. P(0)
  <2>1. Z[0] = 0
    BY <1>s, SumsAdd
  <2> QED BY <2>1
<1>2. ASSUME NEW m \in 0 .. n, m # n, P(m) PROVE P(m + 1)
  <2>1. m + 1 \in 1 .. n
    BY <1>2
  <2>2. Z[m + 1] = Z[m] + z[m + 1] /\ Z[m] \in Int /\ z[m + 1] \in Int
    BY <1>s, <1>2, SumsStep
  <2>3. z[m + 1] >= 0
    BY <2>1
  <2> HIDE DEF Z
  <2> QED BY <1>2, <2>2, <2>3
<1> HIDE DEF P
<1>3. P(n)
  <2>1. M \subseteq Int /\ IsFiniteSet(M) /\ 0 \in M
    <3>1. IsFiniteSet(0 .. n)
      BY FS_Interval
    <3> QED BY <1>1, <3>1, FS_Subset
  <2>2. \A m \in M : m # n => m + 1 \in M
    BY <1>2
  <2>3. \A m \in M : m \in Int /\ (m = n => P(n))
    OBVIOUS
  <2> HIDE DEF M
  <2>4. PICK m \in M : \A k \in M : k <= m
    BY <2>1, Greatest
  <2>5. m \in Int /\ ~(m + 1 <= m)
    BY <2>3
  <2> QED BY <2>2, <2>3, <2>4, <2>5
<1> QED BY <1>s, <1>3, TotalType DEF P, Total, Z

\* A line or a plane that is fitted has a positive denominator.
LEMMA LineOverPositive ==
  ASSUME NEW n \in Nat, n >= 1, NEW x \in [1 .. n -> Int], NEW y \in [1 .. n -> Int],
         NEW f, f = FitOneLag(x, y), f # Failed
  PROVE  f.over > 0
<1> DEFINE v == Deviations(x)
           q == [i \in DOMAIN v |-> v[i] * v[i]]
           D == SumOfProducts(v, v)
<1>1. Len(x) = n /\ DOMAIN x = 1 .. n
  BY FcnIsSeq
<1>2. f.over = n * D /\ D # 0
  BY <1>1 DEF FitOneLag
<1>3. v \in [1 .. n -> Int]
  <2>1. Total(x) \in Int
    BY TotalType
  <2>2. \A i \in 1 .. n : n * x[i] - Total(x) \in Int
    BY <2>1
  <2> QED BY <1>1, <2>2 DEF Deviations
<1>4. D = Total(q)
  BY DEF SumOfProducts
<1> HIDE DEF v, D
<1>5. q \in [1 .. n -> Int] /\ \A k \in 1 .. n : q[k] >= 0
  <2>1. \A k \in 1 .. n : v[k] \in Int
    BY <1>3
  <2>2. \A e \in Int : e * e \in Int /\ e * e >= 0
    OBVIOUS
  <2>3. DOMAIN v = 1 .. n
    BY <1>3
  <2> QED BY <2>1, <2>2, <2>3
<1> HIDE DEF q
<1>6. D \in Int /\ D > 0
  <2>1. Total(q) \in Int /\ Total(q) >= 0
    BY <1>5, TotalNotNegative
  <2> QED BY ONLY <1>2, <1>4, <2>1
<1>7. n * D > 0
  BY ONLY <1>6, n \in Nat, n >= 1
<1> QED BY <1>2, <1>7

\* The same of a fitted plane, by the guard on its determinant.
LEMMA PlaneOverPositive ==
  ASSUME NEW n \in Nat, n >= 1, NEW x \in [1 .. n -> Int], NEW z \in [1 .. n -> Int],
         NEW y \in [1 .. n -> Int], NEW f, f = FitTwoLags(x, z, y), f # Failed
  PROVE  f.over > 0
<1> DEFINE s11 == SumOfProducts(Deviations(x), Deviations(x))
           s22 == SumOfProducts(Deviations(z), Deviations(z))
           s12 == SumOfProducts(Deviations(x), Deviations(z))
           D == s11 * s22 - s12 * s12
<1>1. Len(y) = n
  BY FcnIsSeq
<1>2. f.over = n * D /\ ~(D <= 0)
  BY <1>1 DEF FitTwoLags
<1>3. s11 \in Int /\ s22 \in Int /\ s12 \in Int
  <2>1. \A u, w \in [1 .. n -> Int] : SumOfProducts(Deviations(u), Deviations(w)) \in Int
    <3> TAKE u, w \in [1 .. n -> Int]
    <3> DEFINE S == SumOfProducts(u, w)
               U == Total(u)
               W == Total(w)
    <3>1. U \in Int /\ W \in Int
      BY TotalType
    <3>2. S \in Int
      BY ProductTotal
    <3>3. SumOfProducts(Deviations(u), Deviations(w)) = n * (n * S - U * W)
      BY CenteredProducts
    <3> HIDE DEF S, U, W
    <3> QED BY <3>1, <3>2, <3>3
  <2> QED BY <2>1
<1> HIDE DEF s11, s22, s12
<1>4. D \in Int
  BY ONLY <1>3
<1> HIDE DEF D
<1>5. n * D > 0
  BY ONLY <1>2, <1>4, n \in Nat, n >= 1
<1> QED BY <1>2, <1>5

\* The same along the targets T.
LEMMA LineOverAlong ==
  ASSUME NEW T, T \subseteq Int, IsFiniteSet(T), Cardinality(T) >= 1, NEW X, NEW Y,
         \A t \in T : X[t] \in Int /\ Y[t] \in Int,
         NEW fit, fit = FitOneLag(Taken(X, T), Taken(Y, T)), fit # Failed
  PROVE  fit.over > 0
<1> DEFINE n == Cardinality(T)
           x == Taken(X, T)
           y == Taken(Y, T)
<1>1. n \in Nat /\ n >= 1
  BY TakenIs
<1>2. x \in [1 .. n -> Int] /\ y \in [1 .. n -> Int]
  BY TakenInts
<1>3. fit = FitOneLag(x, y)
  OBVIOUS
<1> HIDE DEF n, x, y
<1> QED BY <1>1, <1>2, <1>3, LineOverPositive

\* The same of a plane along the targets T.
LEMMA PlaneOverAlong ==
  ASSUME NEW T, T \subseteq Int, IsFiniteSet(T), Cardinality(T) >= 1, NEW X, NEW Z, NEW Y,
         \A t \in T : X[t] \in Int /\ Z[t] \in Int /\ Y[t] \in Int,
         NEW fit, fit = FitTwoLags(Taken(X, T), Taken(Z, T), Taken(Y, T)), fit # Failed
  PROVE  fit.over > 0
<1> DEFINE n == Cardinality(T)
           x == Taken(X, T)
           z == Taken(Z, T)
           y == Taken(Y, T)
<1>1. n \in Nat /\ n >= 1
  BY TakenIs
<1>2. x \in [1 .. n -> Int] /\ z \in [1 .. n -> Int] /\ y \in [1 .. n -> Int]
  BY TakenInts
<1>3. fit = FitTwoLags(x, z, y)
  OBVIOUS
<1> HIDE DEF n, x, y, z
<1> QED BY <1>1, <1>2, <1>3, PlaneOverPositive

------------------------------------------------------------------------------
(* The consumer load models.                                               *)

\* A load history that gives rows, and the row at each of its targets.
LoadValid(h) == Single(Consumers(h)) /\ UniqueTimestamps(h)

LoadRow24(h) ==
  [t \in T24(h) |->
     [consumer |-> ByTimestamp(h)[t].consumer, target |-> t,
      lag24 |-> ByTimestamp(h)[t - Lag24h].value, actual |-> ByTimestamp(h)[t].value]]

LoadRow168(h) ==
  [t \in T168(h) |->
     [consumer |-> ByTimestamp(h)[t].consumer, target |-> t,
      lag24 |-> ByTimestamp(h)[t - Lag24h].value,
      lag168 |-> ByTimestamp(h)[t - Lag168h].value, actual |-> ByTimestamp(h)[t].value]]

LoadCase(h) ==
  [t \in T24(h) |->
     [consumer |-> ByTimestamp(h)[t].consumer, target |-> t,
      predicted |-> ByTimestamp(h)[t - Lag24h].value, actual |-> ByTimestamp(h)[t].value]]

\* The builders make the rows of the targets, in their order.
LEMMA LoadRows ==
  ASSUME NEW h, IsHistory(h)
  PROVE  /\ BuildConsumerLoadLag24hFeatureRows(h)
              = IF LoadValid(h) THEN Taken(LoadRow24(h), T24(h)) ELSE Failed
         /\ BuildConsumerLoadLag24h168hFeatureRows(h)
              = IF LoadValid(h) THEN Taken(LoadRow168(h), T168(h)) ELSE Failed
         /\ BuildConsumerLoadPersistenceBacktestCases(h)
              = IF LoadValid(h) THEN Taken(LoadCase(h), T24(h)) ELSE Failed
<1> DEFINE s == InOrder(T24(h))
           w == InOrder(T168(h))
           b == ByTimestamp(h)
<1>1. /\ CompleteTargets(h, {Lag24h}) = s /\ CompleteTargets(h, {Lag24h, Lag168h}) = w
      /\ T24(h) \subseteq Int /\ IsFiniteSet(T24(h)) /\ T168(h) \subseteq Int /\ IsFiniteSet(T168(h))
  BY StampsFinite DEF T24, T168
<1>2. \A k \in DOMAIN s : s[k] \in T24(h)
  BY <1>1, TakenIs
<1>3. \A k \in DOMAIN w : w[k] \in T168(h)
  BY <1>1, TakenIs
<1> HIDE DEF s, w, b
<1>4. Taken(LoadRow24(h), T24(h))
        = [k \in DOMAIN s |-> [consumer |-> b[s[k]].consumer, target |-> s[k],
                               lag24 |-> b[s[k] - Lag24h].value, actual |-> b[s[k]].value]]
  <2>1. Taken(LoadRow24(h), T24(h)) = [k \in DOMAIN s |-> LoadRow24(h)[s[k]]]
    BY DEF Taken, s
  <2>2. \A k \in DOMAIN s : LoadRow24(h)[s[k]]
          = [consumer |-> b[s[k]].consumer, target |-> s[k],
             lag24 |-> b[s[k] - Lag24h].value, actual |-> b[s[k]].value]
    BY <1>2 DEF LoadRow24, b
  <2> QED BY <2>1, <2>2
<1>5. Taken(LoadRow168(h), T168(h))
        = [k \in DOMAIN w |-> [consumer |-> b[w[k]].consumer, target |-> w[k],
             lag24 |-> b[w[k] - Lag24h].value, lag168 |-> b[w[k] - Lag168h].value,
             actual |-> b[w[k]].value]]
  <2>1. Taken(LoadRow168(h), T168(h)) = [k \in DOMAIN w |-> LoadRow168(h)[w[k]]]
    BY DEF Taken, w
  <2>2. \A k \in DOMAIN w : LoadRow168(h)[w[k]]
          = [consumer |-> b[w[k]].consumer, target |-> w[k],
             lag24 |-> b[w[k] - Lag24h].value, lag168 |-> b[w[k] - Lag168h].value,
             actual |-> b[w[k]].value]
    BY <1>3 DEF LoadRow168, b
  <2> QED BY <2>1, <2>2
<1>6. Taken(LoadCase(h), T24(h))
        = [k \in DOMAIN s |-> [consumer |-> b[s[k]].consumer, target |-> s[k],
                               predicted |-> b[s[k] - Lag24h].value, actual |-> b[s[k]].value]]
  <2>1. Taken(LoadCase(h), T24(h)) = [k \in DOMAIN s |-> LoadCase(h)[s[k]]]
    BY DEF Taken, s
  <2>2. \A k \in DOMAIN s : LoadCase(h)[s[k]]
          = [consumer |-> b[s[k]].consumer, target |-> s[k],
             predicted |-> b[s[k] - Lag24h].value, actual |-> b[s[k]].value]
    BY <1>2 DEF LoadCase, b
  <2> QED BY <2>1, <2>2
<1>7. BuildConsumerLoadLag24hFeatureRows(h)
        = IF LoadValid(h) THEN Taken(LoadRow24(h), T24(h)) ELSE Failed
  BY <1>1, <1>4 DEF BuildConsumerLoadLag24hFeatureRows, LoadValid, b
<1>8. BuildConsumerLoadLag24h168hFeatureRows(h)
        = IF LoadValid(h) THEN Taken(LoadRow168(h), T168(h)) ELSE Failed
  BY <1>1, <1>5 DEF BuildConsumerLoadLag24h168hFeatureRows, LoadValid, b
<1>9. BuildConsumerLoadPersistenceBacktestCases(h)
        = IF LoadValid(h) THEN Taken(LoadCase(h), T24(h)) ELSE Failed
  BY <1>1, <1>6 DEF BuildConsumerLoadPersistenceBacktestCases, LoadValid, b
<1> QED BY <1>7, <1>8, <1>9

\* A split that is no failure is the rows before the cutoff and those from it on.
LEMMA LoadSplits ==
  ASSUME NEW h, IsHistory(h)
  PROVE  /\ LET rows == BuildConsumerLoadLag24hFeatureRows(h)
                split == SplitConsumerLoadFeatureRowsChronologically(rows, Cutoff)
            IN  rows # Failed /\ split # Failed =>
                  /\ LoadValid(h)
                  /\ split = [training   |-> Taken(LoadRow24(h), Before(T24(h))),
                              evaluation |-> Taken(LoadRow24(h), From(T24(h)))]
         /\ LET rows == BuildConsumerLoadLag24h168hFeatureRows(h)
                split == SplitConsumerLoadLag24h168hFeatureRowsChronologically(rows, Cutoff)
            IN  rows # Failed /\ split # Failed =>
                  /\ LoadValid(h) /\ Taken(LoadRow168(h), From(T168(h))) # << >>
                  /\ split = [training   |-> Taken(LoadRow168(h), Before(T168(h))),
                              evaluation |-> Taken(LoadRow168(h), From(T168(h)))]
<1>1. /\ T24(h) \subseteq Int /\ IsFiniteSet(T24(h)) /\ T168(h) \subseteq Int /\ IsFiniteSet(T168(h))
  BY StampsFinite DEF T24, T168
<1>2. \A t \in T24(h) : LoadRow24(h)[t].target = t
  BY DEF LoadRow24
<1>3. \A t \in T168(h) : LoadRow168(h)[t].target = t
  BY DEF LoadRow168
<1>4. SplitAt(Taken(LoadRow24(h), T24(h)), Cutoff)
        = [training |-> Taken(LoadRow24(h), Before(T24(h))), evaluation |-> Taken(LoadRow24(h), From(T24(h)))]
  BY <1>1, <1>2, SplitIs
<1>5. SplitAt(Taken(LoadRow168(h), T168(h)), Cutoff)
        = [training |-> Taken(LoadRow168(h), Before(T168(h))), evaluation |-> Taken(LoadRow168(h), From(T168(h)))]
  BY <1>1, <1>3, SplitIs
<1>6. LET rows == BuildConsumerLoadLag24hFeatureRows(h)
          split == SplitConsumerLoadFeatureRowsChronologically(rows, Cutoff)
      IN  rows # Failed /\ split # Failed =>
            LoadValid(h) /\ rows = Taken(LoadRow24(h), T24(h)) /\ split = SplitAt(rows, Cutoff)
  BY LoadRows DEF SplitConsumerLoadFeatureRowsChronologically
<1>7. LET rows == BuildConsumerLoadLag24h168hFeatureRows(h)
          split == SplitConsumerLoadLag24h168hFeatureRowsChronologically(rows, Cutoff)
      IN  rows # Failed /\ split # Failed =>
            /\ LoadValid(h) /\ rows = Taken(LoadRow168(h), T168(h)) /\ split = SplitAt(rows, Cutoff)
            /\ split.evaluation # << >>
  BY LoadRows DEF SplitConsumerLoadLag24h168hFeatureRowsChronologically
<1> QED BY <1>4, <1>5, <1>6, <1>7

\* A sequence has finitely many consumers.
LEMMA ConsumersFinite ==
  ASSUME NEW v, IsTuple(v)
  PROVE  IsFiniteSet(Consumers(v))
<1>1. Len(v) \in Nat /\ DOMAIN v = 1 .. Len(v)
  BY DEF IsTuple
<1> DEFINE f == [i \in 1 .. Len(v) |-> v[i].consumer]
<1>2. Consumers(v) = {f[i] : i \in 1 .. Len(v)}
  BY <1>1 DEF Consumers
<1> HIDE DEF f
<1> QED BY <1>1, <1>2, ImageFinite

\* The rows of the earlier observations are the rows before the cutoff.
LEMMA LoadEarlierRows ==
  ASSUME NEW h, IsHistory(h), LoadValid(h), Cutoff \in Int, Lag24h \in Nat, Lag168h \in Nat
  PROVE  /\ BuildConsumerLoadLag24hFeatureRows(Earlier(h)) = Taken(LoadRow24(h), Before(T24(h)))
         /\ BuildConsumerLoadLag24h168hFeatureRows(Earlier(h)) = Taken(LoadRow168(h), Before(T168(h)))
<1> DEFINE g == Earlier(h)
<1>1. UniqueTimestamps(h)
  BY DEF LoadValid
<1>2. /\ IsHistory(g) /\ UniqueTimestamps(g)
      /\ \A i \in DOMAIN g : \E j \in DOMAIN h : g[i] = h[j]
      /\ \A t \in StampsOf(g) : ByTimestamp(g)[t] = ByTimestamp(h)[t]
  BY <1>1, EarlierIs
<1>3. T24(g) = Before(T24(h))
  BY <1>1, EarlierIs DEF T24
<1>4. T168(g) = Before(T168(h))
  BY <1>1, EarlierIs DEF T168
<1> HIDE DEF g
<1>5. LoadValid(g)
  <2>1. Consumers(g) \subseteq Consumers(h)
    BY <1>2 DEF Consumers
  <2>2. IsFiniteSet(Consumers(h))
    BY ConsumersFinite DEF IsHistory
  <2> QED BY <1>2, <2>1, <2>2, SingleSubset DEF LoadValid
<1>6. /\ T24(g) \subseteq Int /\ IsFiniteSet(T24(g)) /\ T168(g) \subseteq Int /\ IsFiniteSet(T168(g))
  BY <1>2, StampsFinite DEF T24, T168
<1>7. ASSUME NEW t \in T24(g) PROVE LoadRow24(g)[t] = LoadRow24(h)[t]
  <2>1. t \in T24(h)
    BY <1>3 DEF Before
  <2>2. t \in StampsOf(g) /\ t - Lag24h \in StampsOf(g)
    BY DEF T24, TargetsOf
  <2> QED BY <1>2, <2>1, <2>2 DEF LoadRow24
<1>8. ASSUME NEW t \in T168(g) PROVE LoadRow168(g)[t] = LoadRow168(h)[t]
  <2>1. t \in T168(h)
    BY <1>4 DEF Before
  <2>2. t \in StampsOf(g) /\ t - Lag24h \in StampsOf(g) /\ t - Lag168h \in StampsOf(g)
    BY DEF T168, TargetsOf
  <2> QED BY <1>2, <2>1, <2>2 DEF LoadRow168
<1>9. Taken(LoadRow24(g), T24(g)) = Taken(LoadRow24(h), T24(g))
  BY <1>6, <1>7, TakenSame
<1>10. Taken(LoadRow168(g), T168(g)) = Taken(LoadRow168(h), T168(g))
  BY <1>6, <1>8, TakenSame
<1> QED BY <1>2, <1>3, <1>4, <1>5, <1>9, <1>10, LoadRows DEF g

\* A session starts with no stage computed.
LEMMA LoadStagedInit == Load!Init => Load!Staged
BY DEF Load!Init, Load!Staged, Load!None

\* A step of the other variables changes no stage.
LEMMA LoadStagedSame ==
  ASSUME Load!Staged, UNCHANGED Load!vars PROVE Load!Staged'
<1>1. \A c, a, b \in Load!Side, fromCutoff \in BOOLEAN :
        Load!Judged(c, a, b, fromCutoff) => Load!Judged(c, a, b, fromCutoff)'
  BY DEF Load!vars, Load!Judged, Load!Cohort, Load!Then
<1>2. \A p \in Load!Side : Load!Answers(p)' = Load!Answers(p)
  BY DEF Load!vars, Load!Answers, Load!Asked, Load!EvaluationTargets, Load!Then
<1> QED BY <1>1, <1>2 DEF Load!vars, Load!Staged, Load!Then

\* Each step computes its own stage and leaves the others alone.
LEMMA LoadStagedNext ==
  ASSUME Load!Staged, Load!Next PROVE Load!Staged'
<1>1. CASE Load!BuildFeatures
  BY <1>1 DEF Load!BuildFeatures, Load!Staged, Load!None
<1>2. CASE Load!Split
  BY <1>2 DEF Load!Split, Load!Staged, Load!None, Load!Then
<1>3. CASE Load!Fit
  BY <1>3 DEF Load!Fit, Load!Staged, Load!None, Load!Then
<1>4. CASE \E f \in Load!Side : Load!Predict(f)
  BY <1>4 DEF Load!Predict, Load!Staged, Load!Then
<1>5. CASE \E c, a, b \in Load!Side, fromCutoff \in BOOLEAN : Load!Compare(c, a, b, fromCutoff)
  <2>1. PICK c \in Load!Side, a \in Load!Side, b \in Load!Side, fromCutoff \in BOOLEAN :
          Load!Compare(c, a, b, fromCutoff)
    BY <1>5
  <2>2. Load!Judged(c, a, b, fromCutoff)'
    BY <2>1 DEF Load!Compare, Load!Judged, Load!Cohort, Load!Then
  <2>3. \E c0, a0, b0 \in Load!Side, cutoff \in BOOLEAN : Load!Judged(c0, a0, b0, cutoff)'
    BY <2>2
  <2> QED BY <2>1, <2>3 DEF Load!Compare, Load!Staged, Load!Then
<1>6. CASE Load!Forecast
  <2>1. \A c, a, b \in Load!Side, fromCutoff \in BOOLEAN :
          Load!Judged(c, a, b, fromCutoff) => Load!Judged(c, a, b, fromCutoff)'
    BY <1>6 DEF Load!Forecast, Load!Judged, Load!Cohort, Load!Then
  <2>2. \A p \in Load!Side : Load!Answers(p)' = Load!Answers(p)
    BY <1>6 DEF Load!Forecast, Load!Answers, Load!Asked, Load!EvaluationTargets, Load!Then
  <2> QED BY <1>6, <2>1, <2>2 DEF Load!Forecast, Load!Staged, Load!Then
<1>7. CASE Load!Done
  BY <1>7, LoadStagedSame DEF Load!Done
<1> QED BY <1>1, <1>2, <1>3, <1>4, <1>5, <1>6, <1>7 DEF Load!Next

\* Both sides of a load session are histories with whole values.
LEMMA LoadSource ==
  ASSUME Load!Staged, NEW p \in 1 .. 2
  PROVE  /\ IsHistory(source[p]) /\ \A i \in DOMAIN source[p] : source[p][i].value \in Int
         /\ \A i \in DOMAIN source[p] : source[p][i] # Failed
         /\ Failed \notin [owner : Consumers(source[p]), history : {source[p]}, targets : Seq(Int)]
BY LoadsAssumption DEF Load!Staged, IsHistory

\* What a split of a load session is made of.
LEMMA LoadSplit ==
  ASSUME Load!Staged, NEW p \in 1 .. 2, pc \notin {"features", "split"}
  PROVE  /\ split24[p] # Failed =>
              /\ LoadValid(source[p])
              /\ split24[p] = [training   |-> Taken(LoadRow24(source[p]), Before(T24(source[p]))),
                               evaluation |-> Taken(LoadRow24(source[p]), From(T24(source[p])))]
         /\ split168[p] # Failed =>
              /\ LoadValid(source[p]) /\ Taken(LoadRow168(source[p]), From(T168(source[p]))) # << >>
              /\ split168[p] = [training   |-> Taken(LoadRow168(source[p]), Before(T168(source[p]))),
                                evaluation |-> Taken(LoadRow168(source[p]), From(T168(source[p])))]
<1>1. /\ rows24[p] = BuildConsumerLoadLag24hFeatureRows(source[p])
      /\ rows168[p] = BuildConsumerLoadLag24h168hFeatureRows(source[p])
      /\ split24[p] = IF rows24[p] = Failed THEN Failed
                      ELSE SplitConsumerLoadFeatureRowsChronologically(rows24[p], Cutoff)
      /\ split168[p] = IF rows168[p] = Failed THEN Failed
                       ELSE SplitConsumerLoadLag24h168hFeatureRowsChronologically(rows168[p], Cutoff)
  BY DEF Load!Staged, Load!Side, Load!Then
<1>2. IsHistory(source[p])
  BY LoadSource
<1> QED BY <1>1, <1>2, LoadSplits

\* A fit of a load session is that of the rows before the cutoff.
LEMMA LoadFit ==
  ASSUME Load!Staged, NEW p \in 1 .. 2
  PROVE  /\ Load!Made(fit24[p]) => pc \notin {"features", "split", "fit"} /\ fit24[p] # Failed
         /\ Load!Made(fit168[p]) => pc \notin {"features", "split", "fit"} /\ fit168[p] # Failed
         /\ pc \notin {"features", "split", "fit"} /\ fit24[p] # Failed =>
              /\ LoadValid(source[p])
              /\ fit24[p] = FitConsumerLoadLag24hLinearRegression(
                              Taken(LoadRow24(source[p]), Before(T24(source[p]))))
         /\ pc \notin {"features", "split", "fit"} /\ fit168[p] # Failed =>
              /\ LoadValid(source[p])
              /\ fit168[p] = FitConsumerLoadLag24h168hLinearRegression(
                               Taken(LoadRow168(source[p]), Before(T168(source[p]))))
<1>1. CASE pc \in {"features", "split", "fit"}
  <2>1. fit24[p] = Nothing /\ fit168[p] = Nothing
    BY <1>1 DEF Load!Staged, Load!None, Load!Side
  <2> QED BY <1>1, <2>1 DEF Load!Made
<1>2. CASE pc \notin {"features", "split", "fit"}
  <2>1. /\ fit24[p] = IF split24[p] = Failed THEN Failed
                      ELSE FitConsumerLoadLag24hLinearRegression(split24[p].training)
        /\ fit168[p] = IF split168[p] = Failed THEN Failed
                       ELSE FitConsumerLoadLag24h168hLinearRegression(split168[p].training)
    BY <1>2 DEF Load!Staged, Load!Side, Load!Then
  <2> QED BY <1>2, <2>1, LoadSplit DEF Load!Made
<1> QED BY <1>1, <1>2

\* The past of a side is its observations before the cutoff.
LEMMA LoadPast ==
  ASSUME NEW p \in 1 .. 2
  PROVE  Load!Past(p) = Earlier(source[p])
BY DEF Load!Past, Earlier, Load!Taken, Taken, Load!InOrder, InOrder, Load!Rank, Rank,
       Load!Cardinality, Cardinality

\* The fits of a load session are those of the observations before the cutoff.
LEMMA LoadIgnoresTheFuture ==
  ASSUME Load!Staged PROVE Load!FitIgnoresTheFuture
<1> SUFFICES ASSUME NEW p \in 1 .. 2
             PROVE  /\ Load!Made(fit24[p]) =>
                         fit24[p] = FitConsumerLoadLag24hLinearRegression(
                                      BuildConsumerLoadLag24hFeatureRows(Load!Past(p)))
                    /\ Load!Made(fit168[p]) =>
                         fit168[p] = FitConsumerLoadLag24h168hLinearRegression(
                                       BuildConsumerLoadLag24h168hFeatureRows(Load!Past(p)))
  BY DEF Load!FitIgnoresTheFuture, Load!Side
<1>1. IsHistory(source[p])
  BY LoadSource
<1> QED BY <1>1, LoadFit, LoadPast, LoadEarlierRows, LagsAssumption

\* The session's instances of the shared operators are those operators.
LEMMA LoadOperators ==
  /\ \A S : Load!InOrder(S) = InOrder(S)
  /\ \A xs : Load!Total(xs) = Total(xs)
  /\ \A fit, x : Load!Predict24(fit, x) = Predict24(fit, x)
  /\ \A fit, x, z : Load!Predict168(fit, x, z) = Predict168(fit, x, z)
<1>1. \A S : Load!InOrder(S) = InOrder(S)
  BY DEF Load!InOrder, InOrder, Load!Rank, Rank, Load!Cardinality, Cardinality
<1>2. \A xs : Load!Total(xs) = Total(xs)
  BY DEF Load!Total, Total, Load!Sums, Sums
<1>3. /\ \A fit, x : Load!Predict24(fit, x) = Predict24(fit, x)
      /\ \A fit, x, z : Load!Predict168(fit, x, z) = Predict168(fit, x, z)
  BY DEF Load!Predict24, Predict24, Load!Predict168, Predict168
<1> QED BY <1>1, <1>2, <1>3

\* The load a reader sees at a timestamp is the one the index finds, and whole.
LEMMA LoadAt ==
  ASSUME Load!Staged, NEW p \in 1 .. 2
  PROVE  /\ Load!Stamps(p) = StampsOf(source[p])
         /\ \A t \in StampsOf(source[p]) : /\ Load!At(p, t) = ByTimestamp(source[p])[t].value
                                           /\ ByTimestamp(source[p])[t].value \in Int
<1>1. Load!Stamps(p) = StampsOf(source[p])
  BY DEF Load!Stamps, StampsOf
<1>2. \A t \in StampsOf(source[p]) : Load!At(p, t) = ByTimestamp(source[p])[t].value
  BY DEF Load!At, ByTimestamp, StampsOf, ConsumerLoadValue
<1>3. \A t \in StampsOf(source[p]) : ByTimestamp(source[p])[t].value \in Int
  BY LoadSource, ByTimestampFinds
<1> QED BY <1>1, <1>2, <1>3

LoadLags(h, lag, D) == [t \in D |-> ByTimestamp(h)[t - lag].value]
LoadActuals(h, D)   == [t \in D |-> ByTimestamp(h)[t].value]

\* The lags and the actuals of rows along targets.
LEMMA LoadColumns24 ==
  ASSUME NEW h, IsHistory(h), NEW T, T \subseteq T24(h)
  PROVE  LET rows == Taken(LoadRow24(h), T)
         IN  /\ Lag24Of(rows) = Taken(LoadLags(h, Lag24h, T24(h)), T)
             /\ ActualOf(rows) = Taken(LoadActuals(h, T24(h)), T)
<1> DEFINE s == InOrder(T)
           b == ByTimestamp(h)
<1>1. T \subseteq Int /\ IsFiniteSet(T)
  BY StampsFinite, FS_Subset DEF T24
<1>2. \A k \in DOMAIN s : s[k] \in T24(h)
  BY <1>1, TakenIs
<1> HIDE DEF s, b
<1>3. Taken(LoadRow24(h), T) = [k \in DOMAIN s |-> LoadRow24(h)[s[k]]]
  BY DEF Taken, s
<1>4. \A k \in DOMAIN s : /\ LoadRow24(h)[s[k]].lag24 = b[s[k] - Lag24h].value
                          /\ LoadRow24(h)[s[k]].actual = b[s[k]].value
  BY <1>2 DEF LoadRow24, b
<1> QED BY <1>2, <1>3, <1>4 DEF Taken, s, b, Lag24Of, Lag168Of, ActualOf, LoadLags, LoadActuals

\* The same for the rows of both lags.
LEMMA LoadColumns168 ==
  ASSUME NEW h, IsHistory(h), NEW T, T \subseteq T168(h)
  PROVE  LET rows == Taken(LoadRow168(h), T)
         IN  /\ Lag24Of(rows) = Taken(LoadLags(h, Lag24h, T168(h)), T)
             /\ Lag168Of(rows) = Taken(LoadLags(h, Lag168h, T168(h)), T)
             /\ ActualOf(rows) = Taken(LoadActuals(h, T168(h)), T)
<1> DEFINE s == InOrder(T)
           b == ByTimestamp(h)
<1>1. T \subseteq Int /\ IsFiniteSet(T)
  BY StampsFinite, FS_Subset DEF T168
<1>2. \A k \in DOMAIN s : s[k] \in T168(h)
  BY <1>1, TakenIs
<1> HIDE DEF s, b
<1>3. Taken(LoadRow168(h), T) = [k \in DOMAIN s |-> LoadRow168(h)[s[k]]]
  BY DEF Taken, s
<1>4. \A k \in DOMAIN s : /\ LoadRow168(h)[s[k]].lag24 = b[s[k] - Lag24h].value
                          /\ LoadRow168(h)[s[k]].lag168 = b[s[k] - Lag168h].value
                          /\ LoadRow168(h)[s[k]].actual = b[s[k]].value
  BY <1>2 DEF LoadRow168, b
<1> QED BY <1>2, <1>3, <1>4 DEF Taken, s, b, Lag24Of, Lag168Of, ActualOf, LoadLags, LoadActuals

\* The normal equations of the fit of one lag, summed over the training targets.
LEMMA LoadLeastSquares24 ==
  ASSUME Load!Staged, NEW p \in 1 .. 2, pc \notin {"features", "split", "fit"}, fit24[p] # Failed
  PROVE  LET T == {t \in Load!Stamps(p) : t < Cutoff /\ t - Lag24h \in Load!Stamps(p)}
             r(t) == Load!Predict24(fit24[p], Load!At(p, t - Lag24h)) - Load!At(p, t) * fit24[p].over
         IN  /\ fit24[p].slope \in Int /\ fit24[p].intercept \in Int /\ fit24[p].over \in Int
             /\ Load!SumOver(T, r) = 0
             /\ Load!SumOver(T, LAMBDA t : r(t) * Load!At(p, t - Lag24h)) = 0
<1> DEFINE h == source[p]
           T == Before(T24(h))
           X == LoadLags(h, Lag24h, T24(h))
           Y == LoadActuals(h, T24(h))
           s == InOrder(T)
           fit == fit24[p]
           r(t) == Load!Predict24(fit, Load!At(p, t - Lag24h)) - Load!At(p, t) * fit.over
<1>1. IsHistory(h)
  BY LoadSource
<1>2. {t \in Load!Stamps(p) : t < Cutoff /\ t - Lag24h \in Load!Stamps(p)} = T
  BY LoadAt DEF Before, T24, TargetsOf
<1>3. T \subseteq Int /\ IsFiniteSet(T)
  BY <1>1, StampsFinite DEF T24
<1>4. T \subseteq T24(h)
  BY DEF Before
<1>5. \A t \in T : /\ X[t] \in Int /\ Y[t] \in Int
                   /\ Load!At(p, t - Lag24h) = X[t] /\ Load!At(p, t) = Y[t]
  BY LoadAt, <1>4 DEF T24, TargetsOf, LoadLags, LoadActuals
<1>6. fit = FitOneLag(Taken(X, T), Taken(Y, T)) /\ fit # Failed
  <2>1. fit # Failed /\ fit = FitConsumerLoadLag24hLinearRegression(Taken(LoadRow24(h), T))
    BY LoadFit
  <2>2. LET rows == Taken(LoadRow24(h), T)
        IN  /\ Lag24Of(rows) = Taken(X, T)
            /\ ActualOf(rows) = Taken(Y, T)
    BY <1>1, <1>4, LoadColumns24
  <2> QED BY <2>1, <2>2 DEF FitConsumerLoadLag24hLinearRegression, Lag24Of, ActualOf
<1>7. \A k \in DOMAIN s : s[k] \in T
  BY <1>3, TakenIs
<1>8. /\ fit.slope \in Int /\ fit.intercept \in Int /\ fit.over \in Int
      /\ Total(LineResiduals(fit, X, Y, T)) = 0 /\ Total(LineMoments(fit, X, Y, T)) = 0
  <2>1. \A t \in T : X[t] \in Int /\ Y[t] \in Int
    BY <1>5
  <2> HIDE DEF X, Y, T, fit
  <2> QED BY <1>3, <2>1, <1>6, LineAlong
<1> HIDE DEF h, T, X, Y, s, fit
<1>9. \A k \in DOMAIN s : r(s[k]) = Predict24(fit, X[s[k]]) - Y[s[k]] * fit.over
  BY <1>5, <1>7, LoadOperators
<1>10. Load!InOrder(T) = s
  BY LoadOperators DEF s
<1>11. Load!SumOver(T, r) = 0
  <2>1. [k \in DOMAIN s |-> r(s[k])] = LineResiduals(fit, X, Y, T)
    BY <1>9 DEF LineResiduals, s
  <2>2. Load!SumOver(T, r) = Load!Total([k \in DOMAIN s |-> r(s[k])])
    BY <1>10 DEF Load!SumOver
  <2> QED BY <1>8, <2>1, <2>2, LoadOperators
<1>12. Load!SumOver(T, LAMBDA t : r(t) * Load!At(p, t - Lag24h)) = 0
  <2>1. [k \in DOMAIN s |-> r(s[k]) * Load!At(p, s[k] - Lag24h)] = LineMoments(fit, X, Y, T)
    BY <1>5, <1>7, <1>9 DEF LineMoments, s
  <2>2. Load!SumOver(T, LAMBDA t : r(t) * Load!At(p, t - Lag24h))
          = Load!Total([k \in DOMAIN s |-> r(s[k]) * Load!At(p, s[k] - Lag24h)])
    BY <1>10 DEF Load!SumOver
  <2> QED BY <1>8, <2>1, <2>2, LoadOperators
<1> QED BY <1>2, <1>8, <1>11, <1>12 DEF fit

\* The three normal equations of the fit of both lags.
LEMMA LoadLeastSquares168 ==
  ASSUME Load!Staged, NEW p \in 1 .. 2, pc \notin {"features", "split", "fit"}, fit168[p] # Failed
  PROVE  LET T == {t \in Load!Stamps(p) : t < Cutoff /\ {t - Lag24h, t - Lag168h} \subseteq Load!Stamps(p)}
             r(t) == Load!Predict168(fit168[p], Load!At(p, t - Lag24h), Load!At(p, t - Lag168h))
                       - Load!At(p, t) * fit168[p].over
         IN  /\ fit168[p].lag24 \in Int /\ fit168[p].lag168 \in Int
             /\ fit168[p].intercept \in Int /\ fit168[p].over \in Int
             /\ Load!SumOver(T, r) = 0
             /\ Load!SumOver(T, LAMBDA t : r(t) * Load!At(p, t - Lag24h)) = 0
             /\ Load!SumOver(T, LAMBDA t : r(t) * Load!At(p, t - Lag168h)) = 0
<1> DEFINE h == source[p]
           T == Before(T168(h))
           X == LoadLags(h, Lag24h, T168(h))
           Z == LoadLags(h, Lag168h, T168(h))
           Y == LoadActuals(h, T168(h))
           s == InOrder(T)
           fit == fit168[p]
           r(t) == Load!Predict168(fit, Load!At(p, t - Lag24h), Load!At(p, t - Lag168h))
                     - Load!At(p, t) * fit.over
<1>1. IsHistory(h)
  BY LoadSource
<1>2. {t \in Load!Stamps(p) : t < Cutoff /\ {t - Lag24h, t - Lag168h} \subseteq Load!Stamps(p)} = T
  BY LoadAt DEF Before, T168, TargetsOf
<1>3. T \subseteq Int /\ IsFiniteSet(T)
  BY <1>1, StampsFinite DEF T168
<1>4. T \subseteq T168(h)
  BY DEF Before
<1>5. \A t \in T : /\ X[t] \in Int /\ Z[t] \in Int /\ Y[t] \in Int
                   /\ Load!At(p, t - Lag24h) = X[t] /\ Load!At(p, t - Lag168h) = Z[t]
                   /\ Load!At(p, t) = Y[t]
  BY LoadAt, <1>4 DEF T168, TargetsOf, LoadLags, LoadActuals
<1>6. fit = FitTwoLags(Taken(X, T), Taken(Z, T), Taken(Y, T)) /\ fit # Failed
  <2>1. fit # Failed /\ fit = FitConsumerLoadLag24h168hLinearRegression(Taken(LoadRow168(h), T))
    BY LoadFit
  <2>2. LET rows == Taken(LoadRow168(h), T)
        IN  /\ Lag24Of(rows) = Taken(X, T)
            /\ Lag168Of(rows) = Taken(Z, T)
            /\ ActualOf(rows) = Taken(Y, T)
    BY <1>1, <1>4, LoadColumns168
  <2> QED BY <2>1, <2>2 DEF FitConsumerLoadLag24h168hLinearRegression, Lag24Of, Lag168Of, ActualOf
<1>7. \A k \in DOMAIN s : s[k] \in T
  BY <1>3, TakenIs
<1>8. /\ fit.lag24 \in Int /\ fit.lag168 \in Int /\ fit.intercept \in Int /\ fit.over \in Int
      /\ Total(PlaneResiduals(fit, X, Z, Y, T)) = 0
      /\ Total(PlaneMoments(fit, X, Z, Y, X, T)) = 0 /\ Total(PlaneMoments(fit, X, Z, Y, Z, T)) = 0
  <2>1. \A t \in T : X[t] \in Int /\ Z[t] \in Int /\ Y[t] \in Int
    BY <1>5
  <2> HIDE DEF X, Y, Z, T, fit
  <2> QED BY <1>3, <2>1, <1>6, PlaneAlong
<1> HIDE DEF h, T, X, Y, Z, s, fit
<1>9. \A k \in DOMAIN s : r(s[k]) = Predict168(fit, X[s[k]], Z[s[k]]) - Y[s[k]] * fit.over
  BY <1>5, <1>7, LoadOperators
<1>10. Load!InOrder(T) = s
  BY LoadOperators DEF s
<1>11. Load!SumOver(T, r) = 0
  <2>1. [k \in DOMAIN s |-> r(s[k])] = PlaneResiduals(fit, X, Z, Y, T)
    BY <1>9 DEF PlaneResiduals, s
  <2>2. Load!SumOver(T, r) = Load!Total([k \in DOMAIN s |-> r(s[k])])
    BY <1>10 DEF Load!SumOver
  <2> QED BY <1>8, <2>1, <2>2, LoadOperators
<1>12. Load!SumOver(T, LAMBDA t : r(t) * Load!At(p, t - Lag24h)) = 0
  <2>1. [k \in DOMAIN s |-> r(s[k]) * Load!At(p, s[k] - Lag24h)] = PlaneMoments(fit, X, Z, Y, X, T)
    BY <1>5, <1>7, <1>9 DEF PlaneMoments, s
  <2>2. Load!SumOver(T, LAMBDA t : r(t) * Load!At(p, t - Lag24h))
          = Load!Total([k \in DOMAIN s |-> r(s[k]) * Load!At(p, s[k] - Lag24h)])
    BY <1>10 DEF Load!SumOver
  <2> QED BY <1>8, <2>1, <2>2, LoadOperators
<1>13. Load!SumOver(T, LAMBDA t : r(t) * Load!At(p, t - Lag168h)) = 0
  <2>1. [k \in DOMAIN s |-> r(s[k]) * Load!At(p, s[k] - Lag168h)] = PlaneMoments(fit, X, Z, Y, Z, T)
    BY <1>5, <1>7, <1>9 DEF PlaneMoments, s
  <2>2. Load!SumOver(T, LAMBDA t : r(t) * Load!At(p, t - Lag168h))
          = Load!Total([k \in DOMAIN s |-> r(s[k]) * Load!At(p, s[k] - Lag168h)])
    BY <1>10 DEF Load!SumOver
  <2> QED BY <1>8, <2>1, <2>2, LoadOperators
<1> QED BY <1>2, <1>8, <1>11, <1>12, <1>13 DEF fit

\* The fits of a load session solve the normal equations of their history.
LEMMA LoadIsLeastSquares ==
  ASSUME Load!Staged PROVE Load!FitIsLeastSquares
BY LoadFit, LoadLeastSquares24, LoadLeastSquares168 DEF Load!FitIsLeastSquares, Load!Side

\* The prediction a fit makes at each target.
LoadPrediction24(fit, h) ==
  [t \in T24(h) |->
     [consumer |-> ByTimestamp(h)[t].consumer, target |-> t, over |-> fit.over,
      predicted |-> Predict24(fit, ByTimestamp(h)[t - Lag24h].value),
      actual |-> ByTimestamp(h)[t].value]]

LoadPrediction168(fit, h) ==
  [t \in T168(h) |->
     [consumer |-> ByTimestamp(h)[t].consumer, target |-> t, over |-> fit.over,
      predicted |-> Predict168(fit, ByTimestamp(h)[t - Lag24h].value, ByTimestamp(h)[t - Lag168h].value),
      actual |-> ByTimestamp(h)[t].value]]

\* The backtest's predictions on one lag are those at the evaluation targets.
LEMMA LoadPredictions24 ==
  ASSUME NEW h, IsHistory(h), NEW A, A \subseteq T24(h), NEW fit, NEW v,
         v = PredictConsumerLoadLag24hLinearRegression(fit, Taken(LoadRow24(h), A)), v # Failed
  PROVE  v = Taken(LoadPrediction24(fit, h), A)
<1> DEFINE s == InOrder(A)
           R == Taken(LoadRow24(h), A)
           b == ByTimestamp(h)
<1>1. A \subseteq Int /\ IsFiniteSet(A)
  BY StampsFinite, FS_Subset DEF T24
<1>2. \A k \in DOMAIN s : s[k] \in T24(h)
  BY <1>1, TakenIs
<1>3. R = [k \in DOMAIN s |-> LoadRow24(h)[s[k]]]
  BY DEF Taken
<1>4. v = [i \in DOMAIN R |->
             [consumer |-> R[i].consumer, target |-> R[i].target, over |-> fit.over,
              predicted |-> Predict24(fit, R[i].lag24), actual |-> R[i].actual]]
  BY DEF PredictConsumerLoadLag24hLinearRegression
<1> HIDE DEF s, R, b
<1>5. \A k \in DOMAIN s : /\ R[k].consumer = b[s[k]].consumer /\ R[k].target = s[k]
                          /\ R[k].lag24 = b[s[k] - Lag24h].value /\ R[k].actual = b[s[k]].value
  BY <1>2, <1>3 DEF LoadRow24, b
<1>6. \A k \in DOMAIN s : LoadPrediction24(fit, h)[s[k]]
        = [consumer |-> R[k].consumer, target |-> R[k].target, over |-> fit.over,
           predicted |-> Predict24(fit, R[k].lag24), actual |-> R[k].actual]
  <2> TAKE k \in DOMAIN s
  <2>1. LoadPrediction24(fit, h)[s[k]]
          = [consumer |-> b[s[k]].consumer, target |-> s[k], over |-> fit.over,
             predicted |-> Predict24(fit, b[s[k] - Lag24h].value), actual |-> b[s[k]].value]
    BY <1>2 DEF LoadPrediction24, b
  <2>2. /\ R[k].consumer = b[s[k]].consumer /\ R[k].target = s[k]
        /\ R[k].lag24 = b[s[k] - Lag24h].value /\ R[k].actual = b[s[k]].value
    BY <1>5
  <2> QED BY <2>1, <2>2
<1>7. DOMAIN R = DOMAIN s
  BY <1>3
<1> QED BY <1>4, <1>6, <1>7 DEF Taken, s

\* The backtest's predictions on both lags are those at the evaluation targets.
LEMMA LoadPredictions168 ==
  ASSUME NEW h, IsHistory(h), NEW A, A \subseteq T168(h), NEW fit, NEW v,
         v = PredictConsumerLoadLag24h168hLinearRegression(fit, Taken(LoadRow168(h), A)), v # Failed
  PROVE  v = Taken(LoadPrediction168(fit, h), A)
<1> DEFINE s == InOrder(A)
           R == Taken(LoadRow168(h), A)
           b == ByTimestamp(h)
<1>1. A \subseteq Int /\ IsFiniteSet(A)
  BY StampsFinite, FS_Subset DEF T168
<1>2. \A k \in DOMAIN s : s[k] \in T168(h)
  BY <1>1, TakenIs
<1>3. R = [k \in DOMAIN s |-> LoadRow168(h)[s[k]]]
  BY DEF Taken
<1>4. v = [i \in DOMAIN R |->
             [consumer |-> R[i].consumer, target |-> R[i].target, over |-> fit.over,
              predicted |-> Predict168(fit, R[i].lag24, R[i].lag168), actual |-> R[i].actual]]
  BY DEF PredictConsumerLoadLag24h168hLinearRegression
<1> HIDE DEF s, R, b
<1>5. \A k \in DOMAIN s : /\ R[k].consumer = b[s[k]].consumer /\ R[k].target = s[k]
                          /\ R[k].lag24 = b[s[k] - Lag24h].value
                          /\ R[k].lag168 = b[s[k] - Lag168h].value /\ R[k].actual = b[s[k]].value
  BY <1>2, <1>3 DEF LoadRow168, b
<1>6. \A k \in DOMAIN s : LoadPrediction168(fit, h)[s[k]]
        = [consumer |-> R[k].consumer, target |-> R[k].target, over |-> fit.over,
           predicted |-> Predict168(fit, R[k].lag24, R[k].lag168), actual |-> R[k].actual]
  <2> TAKE k \in DOMAIN s
  <2>1. LoadPrediction168(fit, h)[s[k]]
          = [consumer |-> b[s[k]].consumer, target |-> s[k], over |-> fit.over,
             predicted |-> Predict168(fit, b[s[k] - Lag24h].value, b[s[k] - Lag168h].value),
             actual |-> b[s[k]].value]
    BY <1>2 DEF LoadPrediction168, b
  <2>2. /\ R[k].consumer = b[s[k]].consumer /\ R[k].target = s[k]
        /\ R[k].lag24 = b[s[k] - Lag24h].value /\ R[k].lag168 = b[s[k] - Lag168h].value
        /\ R[k].actual = b[s[k]].value
    BY <1>5
  <2> QED BY <2>1, <2>2
<1>7. DOMAIN R = DOMAIN s
  BY <1>3
<1> QED BY <1>4, <1>6, <1>7 DEF Taken, s

\* The cases compared are cases of targets of their history.
LEMMA LoadCohort ==
  ASSUME Load!Staged, NEW c \in 1 .. 2, NEW fromCutoff \in BOOLEAN, pc # "features",
         Load!Cohort(c, fromCutoff) # Failed
  PROVE  /\ LoadValid(source[c])
         /\ \E A : A \subseteq T24(source[c]) /\ Load!Cohort(c, fromCutoff) = Taken(LoadCase(source[c]), A)
<1> DEFINE h == source[c]
           all == Taken(LoadCase(h), T24(h))
<1>1. IsHistory(h)
  BY LoadSource
<1>2. cases[c] = BuildConsumerLoadPersistenceBacktestCases(h)
  BY DEF Load!Staged, Load!Side
<1>3. cases[c] # Failed
  BY DEF Load!Cohort, Load!Then
<1>4. LoadValid(h) /\ cases[c] = all
  BY <1>1, <1>2, <1>3, LoadRows
<1>5. T24(h) \subseteq Int /\ IsFiniteSet(T24(h))
  BY <1>1, StampsFinite DEF T24
<1>6. Taken(all, {i \in DOMAIN all : all[i].target >= Cutoff}) = Taken(LoadCase(h), From(T24(h)))
  <2>1. \A t \in T24(h) : LoadCase(h)[t].target = t
    BY DEF LoadCase
  <2>2. SplitAt(all, Cutoff).evaluation = Taken(LoadCase(h), From(T24(h)))
    BY <1>5, <2>1, SplitIs
  <2> HIDE DEF all
  <2> QED BY <2>2 DEF SplitAt
<1>7. Load!Cohort(c, fromCutoff)
        = IF fromCutoff THEN Taken(all, {i \in DOMAIN all : all[i].target >= Cutoff}) ELSE all
  <2>1. \A u, I : Load!Taken(u, I) = Taken(u, I)
    BY LoadOperators DEF Load!Taken, Taken
  <2> HIDE DEF all
  <2> QED BY <1>3, <1>4, <2>1 DEF Load!Cohort, Load!Then
<1>8. From(T24(h)) \subseteq T24(h)
  BY DEF From
<1> QED BY <1>4, <1>6, <1>7, <1>8

\* The predictions compared are predictions of targets of their history.
LEMMA LoadPredicted ==
  ASSUME Load!Staged, NEW a \in 1 .. 2, pc \in {"compare", "forecast", "done"}
  PROVE  /\ pred24[a] # Failed =>
              /\ LoadValid(source[a]) /\ trainedOn \in 1 .. 2 /\ fit24[trainedOn] # Failed
              /\ pred24[a] = Taken(LoadPrediction24(fit24[trainedOn], source[a]), From(T24(source[a])))
         /\ pred168[a] # Failed =>
              /\ LoadValid(source[a]) /\ trainedOn \in 1 .. 2 /\ fit168[trainedOn] # Failed
              /\ split168[a] # Failed
              /\ pred168[a] = Taken(LoadPrediction168(fit168[trainedOn], source[a]), From(T168(source[a])))
<1> DEFINE h == source[a]
<1>1. IsHistory(h)
  BY LoadSource
<1>2. /\ trainedOn \in 1 .. 2
      /\ pred24[a] = IF fit24[trainedOn] = Failed \/ split24[a] = Failed THEN Failed
                     ELSE PredictConsumerLoadLag24hLinearRegression(fit24[trainedOn], split24[a].evaluation)
      /\ pred168[a] = IF fit168[trainedOn] = Failed \/ split168[a] = Failed THEN Failed
                      ELSE PredictConsumerLoadLag24h168hLinearRegression(fit168[trainedOn], split168[a].evaluation)
  BY DEF Load!Staged, Load!Side, Load!Then
<1>3. From(T24(h)) \subseteq T24(h) /\ From(T168(h)) \subseteq T168(h)
  BY DEF From
<1>4. ASSUME pred24[a] # Failed
      PROVE  LoadValid(h) /\ pred24[a] = Taken(LoadPrediction24(fit24[trainedOn], h), From(T24(h)))
  <2>1. LoadValid(h) /\ split24[a].evaluation = Taken(LoadRow24(h), From(T24(h)))
    BY <1>2, <1>4, LoadSplit
  <2>2. pred24[a] = PredictConsumerLoadLag24hLinearRegression(fit24[trainedOn], Taken(LoadRow24(h), From(T24(h))))
    BY <1>2, <1>4, <2>1
  <2> QED BY <1>1, <1>3, <1>4, <2>1, <2>2, LoadPredictions24
<1>5. ASSUME pred168[a] # Failed
      PROVE  LoadValid(h) /\ pred168[a] = Taken(LoadPrediction168(fit168[trainedOn], h), From(T168(h)))
  <2>1. LoadValid(h) /\ split168[a].evaluation = Taken(LoadRow168(h), From(T168(h)))
    BY <1>2, <1>5, LoadSplit
  <2>2. pred168[a] = PredictConsumerLoadLag24h168hLinearRegression(fit168[trainedOn], Taken(LoadRow168(h), From(T168(h))))
    BY <1>2, <1>5, <2>1
  <2> QED BY <1>1, <1>3, <1>5, <2>1, <2>2, LoadPredictions168
<1> QED BY <1>2, <1>4, <1>5

\* Rows of one shared consumer, one of each history at some instant: both histories are
\* that consumer's.
LEMMA LoadSeries ==
  ASSUME NEW h, IsHistory(h), LoadValid(h), NEW g, IsHistory(g), LoadValid(g),
         NEW A, A \subseteq StampsOf(h), A \subseteq StampsOf(g), A # {},
         NEW f1, \A t \in A : f1[t].consumer = ByTimestamp(h)[t].consumer,
         NEW f2, \A t \in A : f2[t].consumer = ByTimestamp(g)[t].consumer,
         NEW C, Single(C), IsFiniteSet(C),
         Consumers(Taken(f1, A)) \subseteq C, Consumers(Taken(f2, A)) \subseteq C
  PROVE  Consumers(h) = Consumers(g) /\ Cardinality(Consumers(h)) = 1
<1>1. A \subseteq Int /\ IsFiniteSet(A)
  BY StampsFinite, FS_Subset
<1>i. Instants(A)
  BY <1>1 DEF Instants
<1>2. PICK t \in A : TRUE
  OBVIOUS
<1>3. \A u \in A : \E i \in DOMAIN Taken(f1, A) : Taken(f1, A)[i] = f1[u]
  BY <1>i, TakenEach
<1>4. \A u \in A : \E i \in DOMAIN Taken(f2, A) : Taken(f2, A)[i] = f2[u]
  BY <1>i, TakenEach
<1> DEFINE x == ByTimestamp(h)[t].consumer
           y == ByTimestamp(g)[t].consumer
<1>6. x \in C /\ y \in C
  <2>1. f1[t].consumer \in Consumers(Taken(f1, A))
    BY <1>2, <1>3 DEF Consumers
  <2>2. f2[t].consumer \in Consumers(Taken(f2, A))
    BY <1>2, <1>4 DEF Consumers
  <2> QED BY <2>1, <2>2
<1>7. x = y
  BY <1>6, SingleIs
<1>8. x \in Consumers(h)
  BY <1>2, ByTimestampFinds DEF Consumers
<1>9. y \in Consumers(g)
  BY <1>2, ByTimestampFinds DEF Consumers
<1>10. IsFiniteSet(Consumers(h)) /\ IsFiniteSet(Consumers(g))
  BY ConsumersFinite DEF IsHistory
<1>11. Consumers(h) = {x} /\ Cardinality(Consumers(h)) = 1
  BY <1>8, <1>10, SingleIs DEF LoadValid
<1>12. Consumers(g) = {y}
  BY <1>9, <1>10, SingleIs DEF LoadValid
<1> QED BY <1>7, <1>11, <1>12

\* The errors the session recomputes from the observations are those the code sums.
LEMMA LoadPersistenceError ==
  ASSUME Load!Staged, NEW c \in 1 .. 2, NEW A, A \subseteq T24(source[c]), A # {}
  PROVE  EvaluateConsumerLoadPersistenceMae(Taken(LoadCase(source[c]), A)) = Load!PersistenceError(c, A)
<1> DEFINE h == source[c]
           f == LoadCase(h)
           b == ByTimestamp(h)
           s == InOrder(A)
           v == Taken(f, A)
<1>1. A \subseteq Int /\ IsFiniteSet(A) /\ IsHistory(h)
  BY LoadSource, StampsFinite, FS_Subset DEF T24
<1>2. ASSUME NEW t \in A
      PROVE  /\ f[t].target = t /\ f[t].predicted = b[t - Lag24h].value /\ f[t].actual = b[t].value
             /\ b[t - Lag24h].value \in Int /\ b[t].value \in Int
             /\ Load!At(c, t - Lag24h) = b[t - Lag24h].value /\ Load!At(c, t) = b[t].value
  <2>1. t \in T24(h) /\ t \in StampsOf(h) /\ t - Lag24h \in StampsOf(h)
    BY DEF T24, TargetsOf
  <2>2. f[t].target = t /\ f[t].predicted = b[t - Lag24h].value /\ f[t].actual = b[t].value
    BY <2>1 DEF LoadCase
  <2> HIDE DEF f
  <2> QED BY <2>1, <2>2, LoadAt
<1>3. \A k \in DOMAIN s : s[k] \in A
  BY <1>1, TakenIs
<1> HIDE DEF f, s
<1>4. v # << >>
  BY <1>1, <1>2, TargetsAlong DEF Dated
<1>5. MeanAbsoluteError(PredictedOf(v), 1, ActualOf(v))
        = [total |-> Total(AbsoluteErrors(f, 1, A)), over |-> 1 * Cardinality(A)]
  <2>1. \A t \in A : f[t].predicted \in Int /\ f[t].actual \in Int
    BY <1>2
  <2> QED BY ONLY <1>1, <2>1, 1 \in Int, ErrorAlong
<1>6. EvaluateConsumerLoadPersistenceMae(v) = MeanAbsoluteError(PredictedOf(v), 1, ActualOf(v))
  <2> HIDE DEF v
  <2> QED BY <1>4 DEF EvaluateConsumerLoadPersistenceMae, PredictedOf, ActualOf
<1>7. \A k \in DOMAIN s : Load!Abs(Load!At(c, s[k] - Lag24h) - Load!At(c, s[k]))
        = LET e == f[s[k]].predicted - f[s[k]].actual * 1 IN IF e < 0 THEN -e ELSE e
  <2> TAKE k \in DOMAIN s
  <2> DEFINE x == b[s[k] - Lag24h].value
             y == b[s[k]].value
  <2>1. /\ f[s[k]].predicted = x /\ f[s[k]].actual = y /\ x \in Int /\ y \in Int
        /\ Load!At(c, s[k] - Lag24h) = x /\ Load!At(c, s[k]) = y
    BY <1>2, <1>3
  <2> HIDE DEF x, y
  <2>2. y * 1 = y
    BY ONLY <2>1
  <2> QED BY <2>1, <2>2 DEF Load!Abs
<1>8. [k \in DOMAIN s |-> Load!Abs(Load!At(c, s[k] - Lag24h) - Load!At(c, s[k]))] = AbsoluteErrors(f, 1, A)
  BY <1>7 DEF AbsoluteErrors, s
<1>9. Load!SumOver(A, LAMBDA t : Load!Abs(Load!At(c, t - Lag24h) - Load!At(c, t)))
        = Total(AbsoluteErrors(f, 1, A))
  <2>1. Load!InOrder(A) = s
    BY LoadOperators DEF s
  <2>2. Load!SumOver(A, LAMBDA t : Load!Abs(Load!At(c, t - Lag24h) - Load!At(c, t)))
          = Load!Total([k \in DOMAIN s |-> Load!Abs(Load!At(c, s[k] - Lag24h) - Load!At(c, s[k]))])
    BY <2>1 DEF Load!SumOver
  <2> QED BY <1>8, <2>2, LoadOperators
<1>10. 1 * Cardinality(A) = Load!Cardinality(A)
  <2>1. Cardinality(A) \in Nat
    BY <1>1, FS_CardinalityType
  <2>2. Load!Cardinality(A) = Cardinality(A)
    BY DEF Load!Cardinality, Cardinality
  <2> QED BY <2>1, <2>2
<1> QED BY <1>5, <1>6, <1>9, <1>10 DEF Load!PersistenceError, f

\* The mean absolute error of the fit of one lag is the one recomputed.
LEMMA LoadError24 ==
  ASSUME Load!Staged, NEW a \in 1 .. 2, pc \in {"compare", "forecast", "done"},
         trainedOn \in 1 .. 2, fit24[trainedOn] # Failed,
         NEW A, A \subseteq T24(source[a]), A # {},
         Single(Consumers(Taken(LoadPrediction24(fit24[trainedOn], source[a]), A)))
  PROVE  EvaluateConsumerLoadLag24hLinearRegressionMae(
           Taken(LoadPrediction24(fit24[trainedOn], source[a]), A)) = Load!Error24(a, A)
<1> DEFINE h == source[a]
           fit == fit24[trainedOn]
           f == LoadPrediction24(fit, h)
           b == ByTimestamp(h)
           s == InOrder(A)
           v == Taken(f, A)
<1>1. A \subseteq Int /\ IsFiniteSet(A) /\ IsHistory(h)
  BY LoadSource, StampsFinite, FS_Subset DEF T24
<1>f. fit.slope \in Int /\ fit.intercept \in Int /\ fit.over \in Int
  BY LoadLeastSquares24
<1> HIDE DEF fit
<1>2. ASSUME NEW t \in A
      PROVE  /\ f[t].target = t /\ f[t].over = fit.over
             /\ f[t].actual = Load!At(a, t) /\ f[t].actual \in Int
             /\ f[t].predicted = Load!Predict24(fit, Load!At(a, t - Lag24h)) /\ f[t].predicted \in Int
  <2>1. t \in T24(h) /\ t \in StampsOf(h) /\ t - Lag24h \in StampsOf(h)
    BY DEF T24, TargetsOf
  <2>2. /\ f[t].target = t /\ f[t].over = fit.over /\ f[t].actual = b[t].value
        /\ f[t].predicted = Predict24(fit, b[t - Lag24h].value)
    BY <2>1 DEF LoadPrediction24
  <2>3. /\ b[t - Lag24h].value \in Int /\ b[t].value \in Int
        /\ Load!At(a, t - Lag24h) = b[t - Lag24h].value /\ Load!At(a, t) = b[t].value

    BY <2>1, LoadAt
  <2> HIDE DEF f, b
  <2>4. Predict24(fit, b[t - Lag24h].value) \in Int
    BY <1>f, <2>3 DEF Predict24
  <2> QED BY <2>2, <2>3, <2>4, LoadOperators
<1>3. \A k \in DOMAIN s : s[k] \in A
  BY <1>1, TakenIs
<1> HIDE DEF f, s
<1>4. v # << >> /\ StrictChronology(v)
  BY <1>1, <1>2, TargetsAlong, TakenIsChronological DEF Dated
<1>5. v[1].over = fit.over
  <2>1. 1 \in 1 .. Cardinality(A)
    <3>1. Cardinality(A) \in Nat /\ Cardinality(A) # 0
      BY <1>1, FS_CardinalityType, FS_EmptySet
    <3> QED BY ONLY <3>1
  <2>2. \A k \in 1 .. Cardinality(A) : v[k] = f[s[k]]
    BY <1>1, TakenIs DEF s
  <2>3. DOMAIN s = 1 .. Cardinality(A)
    BY <1>1, TakenIs DEF s
  <2> HIDE DEF v
  <2> QED BY <1>2, <1>3, <2>1, <2>2, <2>3
<1>6. MeanAbsoluteError(PredictedOf(v), fit.over, ActualOf(v))
        = [total |-> Total(AbsoluteErrors(f, fit.over, A)), over |-> fit.over * Cardinality(A)]
  <2>1. \A t \in A : f[t].predicted \in Int /\ f[t].actual \in Int
    BY <1>2
  <2> QED BY ONLY <1>1, <1>f, <2>1, ErrorAlong
<1>7. EvaluateConsumerLoadLag24hLinearRegressionMae(v) = MeanAbsoluteError(PredictedOf(v), fit.over, ActualOf(v))
  <2>1. Single(Consumers(v))
    BY DEF v, f, fit
  <2> HIDE DEF v
  <2> QED BY <1>4, <1>5, <2>1 DEF EvaluateConsumerLoadLag24hLinearRegressionMae, PredictedOf, ActualOf
<1>8. \A k \in DOMAIN s : Load!Abs(Load!Predict24(fit, Load!At(a, s[k] - Lag24h)) - Load!At(a, s[k]) * fit.over)
        = LET e == f[s[k]].predicted - f[s[k]].actual * fit.over IN IF e < 0 THEN -e ELSE e
  BY <1>2, <1>3 DEF Load!Abs
<1>9. [k \in DOMAIN s |-> Load!Abs(Load!Predict24(fit, Load!At(a, s[k] - Lag24h)) - Load!At(a, s[k]) * fit.over)]
        = AbsoluteErrors(f, fit.over, A)
  BY <1>8 DEF AbsoluteErrors, s
<1>10. Load!SumOver(A, LAMBDA t : Load!Abs(Load!Predict24(fit, Load!At(a, t - Lag24h)) - Load!At(a, t) * fit.over))
         = Total(AbsoluteErrors(f, fit.over, A))
  <2>1. Load!InOrder(A) = s
    BY LoadOperators DEF s
  <2>2. Load!SumOver(A, LAMBDA t : Load!Abs(Load!Predict24(fit, Load!At(a, t - Lag24h)) - Load!At(a, t) * fit.over))
          = Load!Total([k \in DOMAIN s |-> Load!Abs(Load!Predict24(fit, Load!At(a, s[k] - Lag24h)) - Load!At(a, s[k]) * fit.over)])
    BY <2>1 DEF Load!SumOver
  <2> QED BY <1>9, <2>2, LoadOperators
<1>11. Load!Cardinality(A) = Cardinality(A)
  BY DEF Load!Cardinality, Cardinality
<1> QED BY <1>6, <1>7, <1>10, <1>11 DEF Load!Error24, f, fit, v

\* The mean absolute error of the fit of both lags is the one recomputed.
LEMMA LoadError168 ==
  ASSUME Load!Staged, NEW a \in 1 .. 2, pc \in {"compare", "forecast", "done"},
         trainedOn \in 1 .. 2, fit168[trainedOn] # Failed,
         NEW A, A \subseteq T168(source[a]), A # {},
         Single(Consumers(Taken(LoadPrediction168(fit168[trainedOn], source[a]), A)))
  PROVE  EvaluateConsumerLoadLag24h168hLinearRegressionMae(
           Taken(LoadPrediction168(fit168[trainedOn], source[a]), A)) = Load!Error168(a, A)
<1> DEFINE h == source[a]
           fit == fit168[trainedOn]
           f == LoadPrediction168(fit, h)
           b == ByTimestamp(h)
           s == InOrder(A)
           v == Taken(f, A)
<1>1. A \subseteq Int /\ IsFiniteSet(A) /\ IsHistory(h)
  BY LoadSource, StampsFinite, FS_Subset DEF T168
<1>f. /\ fit.lag24 \in Int /\ fit.lag168 \in Int
      /\ fit.intercept \in Int /\ fit.over \in Int
  BY LoadLeastSquares168
<1> HIDE DEF fit
<1>2. ASSUME NEW t \in A
      PROVE  /\ f[t].target = t /\ f[t].over = fit.over
             /\ f[t].actual = Load!At(a, t) /\ f[t].actual \in Int
             /\ f[t].predicted = Load!Predict168(fit, Load!At(a, t - Lag24h), Load!At(a, t - Lag168h)) /\ f[t].predicted \in Int
  <2>1. /\ t \in T168(h) /\ t \in StampsOf(h) /\ t - Lag24h \in StampsOf(h)
        /\ t - Lag168h \in StampsOf(h)
    BY DEF T168, TargetsOf
  <2>2. /\ f[t].target = t /\ f[t].over = fit.over /\ f[t].actual = b[t].value
        /\ f[t].predicted = Predict168(fit, b[t - Lag24h].value, b[t - Lag168h].value)
    BY <2>1 DEF LoadPrediction168
  <2>3. /\ b[t - Lag24h].value \in Int /\ b[t - Lag168h].value \in Int /\ b[t].value \in Int
        /\ Load!At(a, t - Lag24h) = b[t - Lag24h].value /\ Load!At(a, t) = b[t].value
        /\ Load!At(a, t - Lag168h) = b[t - Lag168h].value

    BY <2>1, LoadAt
  <2> HIDE DEF f, b
  <2>4. Predict168(fit, b[t - Lag24h].value, b[t - Lag168h].value) \in Int
    BY <1>f, <2>3 DEF Predict168
  <2> QED BY <2>2, <2>3, <2>4, LoadOperators
<1>3. \A k \in DOMAIN s : s[k] \in A
  BY <1>1, TakenIs
<1> HIDE DEF f, s
<1>4. v # << >> /\ StrictChronology(v)
  BY <1>1, <1>2, TargetsAlong, TakenIsChronological DEF Dated
<1>5. v[1].over = fit.over
  <2>1. 1 \in 1 .. Cardinality(A)
    <3>1. Cardinality(A) \in Nat /\ Cardinality(A) # 0
      BY <1>1, FS_CardinalityType, FS_EmptySet
    <3> QED BY ONLY <3>1
  <2>2. \A k \in 1 .. Cardinality(A) : v[k] = f[s[k]]
    BY <1>1, TakenIs DEF s
  <2>3. DOMAIN s = 1 .. Cardinality(A)
    BY <1>1, TakenIs DEF s
  <2> HIDE DEF v
  <2> QED BY <1>2, <1>3, <2>1, <2>2, <2>3
<1>6. MeanAbsoluteError(PredictedOf(v), fit.over, ActualOf(v))
        = [total |-> Total(AbsoluteErrors(f, fit.over, A)), over |-> fit.over * Cardinality(A)]
  <2>1. \A t \in A : f[t].predicted \in Int /\ f[t].actual \in Int
    BY <1>2
  <2> QED BY ONLY <1>1, <1>f, <2>1, ErrorAlong
<1>7. EvaluateConsumerLoadLag24h168hLinearRegressionMae(v) = MeanAbsoluteError(PredictedOf(v), fit.over, ActualOf(v))
  <2>1. Single(Consumers(v))
    BY DEF v, f, fit
  <2> HIDE DEF v
  <2> QED BY <1>4, <1>5, <2>1 DEF EvaluateConsumerLoadLag24h168hLinearRegressionMae, PredictedOf, ActualOf
<1>8. \A k \in DOMAIN s : Load!Abs(Load!Predict168(fit, Load!At(a, s[k] - Lag24h), Load!At(a, s[k] - Lag168h)) - Load!At(a, s[k]) * fit.over)
        = LET e == f[s[k]].predicted - f[s[k]].actual * fit.over IN IF e < 0 THEN -e ELSE e
  BY <1>2, <1>3 DEF Load!Abs
<1>9. [k \in DOMAIN s |-> Load!Abs(Load!Predict168(fit, Load!At(a, s[k] - Lag24h), Load!At(a, s[k] - Lag168h)) - Load!At(a, s[k]) * fit.over)]
        = AbsoluteErrors(f, fit.over, A)
  BY <1>8 DEF AbsoluteErrors, s
<1>10. Load!SumOver(A, LAMBDA t : Load!Abs(Load!Predict168(fit, Load!At(a, t - Lag24h), Load!At(a, t - Lag168h)) - Load!At(a, t) * fit.over))
         = Total(AbsoluteErrors(f, fit.over, A))
  <2>1. Load!InOrder(A) = s
    BY LoadOperators DEF s
  <2>2. Load!SumOver(A, LAMBDA t : Load!Abs(Load!Predict168(fit, Load!At(a, t - Lag24h), Load!At(a, t - Lag168h)) - Load!At(a, t) * fit.over))
          = Load!Total([k \in DOMAIN s |-> Load!Abs(Load!Predict168(fit, Load!At(a, s[k] - Lag24h), Load!At(a, s[k] - Lag168h)) - Load!At(a, s[k]) * fit.over)])
    BY <2>1 DEF Load!SumOver
  <2> QED BY <1>9, <2>2, LoadOperators
<1>11. Load!Cardinality(A) = Cardinality(A)
  BY DEF Load!Cardinality, Cardinality
<1> QED BY <1>6, <1>7, <1>10, <1>11 DEF Load!Error168, f, fit, v

\* Rows that tell, at the targets A, what the history h says.
LoadTells(f, h, A) ==
  /\ A \subseteq StampsOf(h)
  /\ \A t \in A : /\ f[t].target = t /\ f[t].consumer = ByTimestamp(h)[t].consumer
                  /\ f[t].actual = ByTimestamp(h)[t].value

\* Cases and predictions tell what their history says.
LEMMA LoadTelling ==
  ASSUME NEW h, NEW A, NEW fit
  PROVE  /\ A \subseteq T24(h) => LoadTells(LoadCase(h), h, A) /\ LoadTells(LoadPrediction24(fit, h), h, A)
         /\ A \subseteq T168(h) => LoadTells(LoadPrediction168(fit, h), h, A)
<1>1. T24(h) \subseteq StampsOf(h) /\ T168(h) \subseteq StampsOf(h)
  BY DEF T24, T168, TargetsOf
<1>2. ASSUME A \subseteq T24(h), NEW t \in A
      PROVE  /\ LoadCase(h)[t].target = t /\ LoadCase(h)[t].consumer = ByTimestamp(h)[t].consumer
             /\ LoadCase(h)[t].actual = ByTimestamp(h)[t].value
             /\ LoadPrediction24(fit, h)[t].target = t
             /\ LoadPrediction24(fit, h)[t].consumer = ByTimestamp(h)[t].consumer
             /\ LoadPrediction24(fit, h)[t].actual = ByTimestamp(h)[t].value
  <2>1. t \in T24(h)
    BY <1>2
  <2> QED BY <2>1 DEF LoadCase, LoadPrediction24
<1>3. ASSUME A \subseteq T168(h), NEW t \in A
      PROVE  /\ LoadPrediction168(fit, h)[t].target = t
             /\ LoadPrediction168(fit, h)[t].consumer = ByTimestamp(h)[t].consumer
             /\ LoadPrediction168(fit, h)[t].actual = ByTimestamp(h)[t].value
  <2>1. t \in T168(h)
    BY <1>3
  <2> QED BY <2>1 DEF LoadPrediction168
<1> QED BY <1>1, <1>2, <1>3 DEF LoadTells

\* The consumers of three sequences, if shared, are at most one.
LEMMA ConsumersShared ==
  ASSUME NEW u, IsTuple(u), NEW v, IsTuple(v), NEW w, IsTuple(w), SingleSharedConsumer({u, v, w})
  PROVE  LET C == Consumers(u) \cup Consumers(v) \cup Consumers(w)
         IN  IsFiniteSet(C) /\ Single(C)
<1> DEFINE C == Consumers(u) \cup Consumers(v) \cup Consumers(w)
<1>1. UNION {Consumers(c) : c \in {u, v, w}} = C
  OBVIOUS
<1>2. Single(C)
  BY <1>1 DEF SingleSharedConsumer
<1>3. IsFiniteSet(Consumers(u)) /\ IsFiniteSet(Consumers(v)) /\ IsFiniteSet(Consumers(w))
  BY ConsumersFinite
<1>4. IsFiniteSet(Consumers(u) \cup Consumers(v))
  BY <1>3, FS_Union
<1>5. IsFiniteSet(C)
  BY <1>3, <1>4, FS_Union
<1> QED BY <1>2, <1>5

\* Two sequences a comparison accepts are of the same targets of one consumer.
LoadLike(p, f, A, q, g, B) ==
  /\ LoadValid(source[p]) /\ LoadTells(f, source[p], A)
  /\ LoadValid(source[q]) /\ LoadTells(g, source[q], B)
  /\ AlignedCohorts({Taken(f, A), Taken(g, B)})
  /\ \E C : /\ IsFiniteSet(C) /\ Single(C)
            /\ Consumers(Taken(f, A)) \subseteq C /\ Consumers(Taken(g, B)) \subseteq C

\* Rows that are alike are of the same targets and the same actuals.
LEMMA LoadAlike ==
  ASSUME Load!Staged, NEW p \in 1 .. 2, NEW q \in 1 .. 2,
         NEW f, NEW A, NEW g, NEW B, LoadLike(p, f, A, q, g, B)
  PROVE  /\ A = B /\ A # {} /\ Load!SameActuals(p, q, A)
         /\ Single(Consumers(Taken(f, A))) /\ Single(Consumers(Taken(g, B)))
         /\ {Taken(f, A)[i].target : i \in DOMAIN Taken(f, A)} = A
         /\ Len(Taken(f, A)) = Load!Cardinality(A)
<1> DEFINE h == source[p]
           k == source[q]
<1>1. /\ IsHistory(h) /\ LoadValid(h) /\ IsHistory(k) /\ LoadValid(k)
      /\ A \subseteq StampsOf(h) /\ B \subseteq StampsOf(k)
  BY LoadSource DEF LoadLike, LoadTells
<1>2. A \subseteq Int /\ IsFiniteSet(A) /\ B \subseteq Int /\ IsFiniteSet(B)
  BY <1>1, StampsFinite, FS_Subset
<1>3. /\ \A t \in A : f[t].target = t
      /\ \A t \in A : f[t].consumer = ByTimestamp(h)[t].consumer
      /\ \A t \in A : f[t].actual = ByTimestamp(h)[t].value
      /\ \A t \in B : g[t].target = t
      /\ \A t \in B : g[t].consumer = ByTimestamp(k)[t].consumer
      /\ \A t \in B : g[t].actual = ByTimestamp(k)[t].value
  BY DEF LoadLike, LoadTells
<1>d. Dated(f, A) /\ Dated(g, B)
  BY <1>2, <1>3 DEF Dated
<1>4. AlignedCohorts({Taken(f, A), Taken(g, B)})
  BY DEF LoadLike
<1>5. PICK C : /\ IsFiniteSet(C) /\ Single(C)
               /\ Consumers(Taken(f, A)) \subseteq C /\ Consumers(Taken(g, B)) \subseteq C
  BY DEF LoadLike
<1>6. A = B /\ A # {} /\ \A t \in A : f[t].actual = g[t].actual
  BY <1>4, <1>d, AlignedAlong
<1>7. Single(Consumers(Taken(f, A))) /\ Single(Consumers(Taken(g, B)))
  BY <1>5, SingleSubset
<1>8. {Taken(f, A)[i].target : i \in DOMAIN Taken(f, A)} = A
  BY <1>d, TargetsAlong
<1>9. Len(Taken(f, A)) = Load!Cardinality(A)
  <2>1. Load!Cardinality(A) = Cardinality(A)
    BY DEF Load!Cardinality, Cardinality
  <2>2. Len(Taken(f, A)) = Cardinality(A)
    BY <1>2, TakenIs
  <2> QED BY <2>1, <2>2
<1>10. Consumers(h) = Consumers(k) /\ Cardinality(Consumers(h)) = 1
  <2>1. A \subseteq StampsOf(k) /\ \A t \in A : g[t].consumer = ByTimestamp(k)[t].consumer
    BY <1>1, <1>3, <1>6
  <2>2. Consumers(Taken(g, A)) \subseteq C
    BY <1>5, <1>6
  <2> HIDE DEF h, k
  <2> QED BY <1>1, <1>3, <1>5, <1>6, <2>1, <2>2, LoadSeries
<1>11. Load!SameActuals(p, q, A)
  <2>1. Load!Series(p) = Consumers(h) /\ Load!Series(q) = Consumers(k)
    BY DEF Load!Series, ConsumerLoadIdentity, Consumers
  <2>2. Load!Cardinality(Consumers(h)) = 1
    BY <1>10 DEF Load!Cardinality, Cardinality
  <2>3. A \subseteq Load!Stamps(p) \cap Load!Stamps(q)
    BY <1>1, <1>6, LoadAt
  <2>4. \A t \in A : Load!At(p, t) = Load!At(q, t)
    <3>1. \A t \in A : Load!At(p, t) = ByTimestamp(h)[t].value
      BY <1>1, LoadAt
    <3>2. \A t \in A : Load!At(q, t) = ByTimestamp(k)[t].value
      BY <1>1, <1>6, LoadAt
    <3> QED BY <1>3, <1>6, <3>1, <3>2
  <2> QED BY <1>10, <2>1, <2>2, <2>3, <2>4 DEF Load!SameActuals
<1> QED BY <1>6, <1>7, <1>8, <1>9, <1>11

\* What the four comparisons say, one by one.
LEMMA LoadVerdict ==
  ASSUME NEW x, NEW y, NEW z
  PROVE  /\ Load!Verdict(x, y, z).persistence24
              = IF x = Failed \/ y = Failed THEN Failed
                ELSE CompareConsumerLoadPersistenceVsTrainedOlsMae(x, y)
         /\ Load!Verdict(x, y, z).persistence168
              = IF x = Failed \/ z = Failed THEN Failed
                ELSE CompareConsumerLoadPersistenceVsLag24h168hOlsMae(x, z)
         /\ Load!Verdict(x, y, z).both
              = IF y = Failed \/ z = Failed THEN Failed
                ELSE CompareConsumerLoadLag24hVsLag24h168hOlsMae(y, z)
         /\ Load!Verdict(x, y, z).all
              = IF x = Failed \/ y = Failed \/ z = Failed THEN Failed
                ELSE CompareConsumerLoadThreeWayMae(x, y, z)
BY DEF Load!Verdict

\* What two histories' rows need to be alike.
LEMMA LoadAccepted ==
  ASSUME Load!Staged, NEW p \in 1 .. 2, NEW q \in 1 .. 2,
         NEW f, NEW A, LoadValid(source[p]), LoadTells(f, source[p], A),
         NEW g, NEW B, LoadValid(source[q]), LoadTells(g, source[q], B),
         NEW u, IsTuple(u), AlignedCohorts({Taken(f, A), Taken(g, B)}),
         SingleSharedConsumer({u, Taken(f, A), Taken(g, B)})
  PROVE  LoadLike(p, f, A, q, g, B)
<1> DEFINE v == Taken(f, A)
           w == Taken(g, B)
<1>1. Instants(A) /\ Instants(B)
  <2>1. A \subseteq StampsOf(source[p]) /\ B \subseteq StampsOf(source[q])
    BY DEF LoadTells
  <2>2. IsHistory(source[p]) /\ IsHistory(source[q])
    BY LoadSource
  <2> QED BY <2>1, <2>2, StampsFinite, FS_Subset DEF Instants
<1>2. IsTuple(v) /\ IsTuple(w)
  BY <1>1, TakenIs DEF Instants
<1>3. AlignedCohorts({v, w}) /\ SingleSharedConsumer({u, v, w})
  OBVIOUS
<1> HIDE DEF v, w
<1> DEFINE C == Consumers(u) \cup Consumers(v) \cup Consumers(w)
<1>4. IsFiniteSet(C) /\ Single(C)
  BY <1>2, <1>3, ConsumersShared
<1>5. Consumers(v) \subseteq C /\ Consumers(w) \subseteq C
  OBVIOUS
<1> HIDE DEF C
<1> QED BY <1>3, <1>4, <1>5 DEF LoadLike, v, w

\* The cohort and the predictions of a comparison, as rows of their histories.
LoadCases(c, x, A) ==
  x = Taken(LoadCase(source[c]), A) /\ A \subseteq T24(source[c]) /\ LoadValid(source[c])
LoadGuesses24(a, y, A) ==
  /\ y = Taken(LoadPrediction24(fit24[trainedOn], source[a]), A) /\ A \subseteq T24(source[a])
  /\ LoadValid(source[a]) /\ trainedOn \in 1 .. 2 /\ fit24[trainedOn] # Failed
LoadGuesses168(b, z, A) ==
  /\ z = Taken(LoadPrediction168(fit168[trainedOn], source[b]), A) /\ A \subseteq T168(source[b])
  /\ LoadValid(source[b]) /\ trainedOn \in 1 .. 2 /\ fit168[trainedOn] # Failed

\* What a comparison is given are cases and predictions of the histories it names.
LEMMA LoadCompared ==
  ASSUME Load!Staged, pc \in {"compare", "forecast", "done"},
         NEW c \in 1 .. 2, NEW a \in 1 .. 2, NEW b \in 1 .. 2, NEW fromCutoff \in BOOLEAN
  PROVE  /\ Load!Cohort(c, fromCutoff) # Failed => \E A : LoadCases(c, Load!Cohort(c, fromCutoff), A)
         /\ pred24[a] # Failed => \E A : LoadGuesses24(a, pred24[a], A)
         /\ pred168[b] # Failed => \E A : LoadGuesses168(b, pred168[b], A)
<1>1. pc # "features"
  OBVIOUS
<1>2. Load!Cohort(c, fromCutoff) # Failed => \E A : LoadCases(c, Load!Cohort(c, fromCutoff), A)
  BY <1>1, LoadCohort DEF LoadCases
<1>3. From(T24(source[a])) \subseteq T24(source[a]) /\ From(T168(source[b])) \subseteq T168(source[b])
  BY DEF From
<1>4. pred24[a] # Failed => LoadGuesses24(a, pred24[a], From(T24(source[a])))
  BY <1>3, LoadPredicted DEF LoadGuesses24
<1>5. pred168[b] # Failed => LoadGuesses168(b, pred168[b], From(T168(source[b])))
  BY <1>3, LoadPredicted DEF LoadGuesses168
<1> QED BY <1>2, <1>4, <1>5

\* Cases, predictions on one lag and on two that are taken for alike, two by two.
LEMMA LoadAlikePairs ==
  ASSUME Load!Staged, NEW c \in 1 .. 2, NEW a \in 1 .. 2, NEW b \in 1 .. 2,
         NEW x, NEW A, NEW y, NEW B, NEW z, NEW D, NEW u, IsTuple(u)
  PROVE  /\ /\ LoadCases(c, x, A) /\ LoadGuesses24(a, y, B)
            /\ AlignedCohorts({x, y}) /\ SingleSharedConsumer({u, x, y})
            => LoadLike(c, LoadCase(source[c]), A, a, LoadPrediction24(fit24[trainedOn], source[a]), B)
         /\ /\ LoadCases(c, x, A) /\ LoadGuesses168(b, z, D)
            /\ AlignedCohorts({x, z}) /\ SingleSharedConsumer({u, x, z})
            => LoadLike(c, LoadCase(source[c]), A, b, LoadPrediction168(fit168[trainedOn], source[b]), D)
         /\ /\ LoadGuesses24(a, y, B) /\ LoadGuesses168(b, z, D)
            /\ AlignedCohorts({y, z}) /\ SingleSharedConsumer({u, y, z})
            => LoadLike(a, LoadPrediction24(fit24[trainedOn], source[a]), B,
                        b, LoadPrediction168(fit168[trainedOn], source[b]), D)
<1>1. ASSUME LoadCases(c, x, A), LoadGuesses24(a, y, B),
             AlignedCohorts({x, y}), SingleSharedConsumer({u, x, y})
      PROVE  LoadLike(c, LoadCase(source[c]), A, a, LoadPrediction24(fit24[trainedOn], source[a]), B)
  <2>1. LoadTells(LoadCase(source[c]), source[c], A)
    BY <1>1, LoadTelling DEF LoadCases
  <2>2. LoadTells(LoadPrediction24(fit24[trainedOn], source[a]), source[a], B)
    BY <1>1, LoadTelling DEF LoadGuesses24
  <2> QED BY <1>1, <2>1, <2>2, LoadAccepted DEF LoadCases, LoadGuesses24
<1>2. ASSUME LoadCases(c, x, A), LoadGuesses168(b, z, D),
             AlignedCohorts({x, z}), SingleSharedConsumer({u, x, z})
      PROVE  LoadLike(c, LoadCase(source[c]), A, b, LoadPrediction168(fit168[trainedOn], source[b]), D)
  <2>1. LoadTells(LoadCase(source[c]), source[c], A)
    BY <1>2, LoadTelling DEF LoadCases
  <2>2. LoadTells(LoadPrediction168(fit168[trainedOn], source[b]), source[b], D)
    BY <1>2, LoadTelling DEF LoadGuesses168
  <2> QED BY <1>2, <2>1, <2>2, LoadAccepted DEF LoadCases, LoadGuesses168
<1>3. ASSUME LoadGuesses24(a, y, B), LoadGuesses168(b, z, D),
             AlignedCohorts({y, z}), SingleSharedConsumer({u, y, z})
      PROVE  LoadLike(a, LoadPrediction24(fit24[trainedOn], source[a]), B,
                      b, LoadPrediction168(fit168[trainedOn], source[b]), D)
  <2>1. LoadTells(LoadPrediction24(fit24[trainedOn], source[a]), source[a], B)
    BY <1>3, LoadTelling DEF LoadGuesses24
  <2>2. LoadTells(LoadPrediction168(fit168[trainedOn], source[b]), source[b], D)
    BY <1>3, LoadTelling DEF LoadGuesses168
  <2> QED BY <1>3, <2>1, <2>2, LoadAccepted DEF LoadGuesses24, LoadGuesses168
<1> QED BY <1>1, <1>2, <1>3

\* The errors the code reports of rows are those the session recomputes.
LEMMA LoadErrors ==
  ASSUME Load!Staged, pc \in {"compare", "forecast", "done"}, NEW p \in 1 .. 2,
         NEW x, NEW A, A # {}, Single(Consumers(x))
  PROVE  /\ LoadCases(p, x, A) => EvaluateConsumerLoadPersistenceMae(x) = Load!PersistenceError(p, A)
         /\ LoadGuesses24(p, x, A) =>
              EvaluateConsumerLoadLag24hLinearRegressionMae(x) = Load!Error24(p, A)
         /\ LoadGuesses168(p, x, A) =>
              EvaluateConsumerLoadLag24h168hLinearRegressionMae(x) = Load!Error168(p, A)
<1>1. ASSUME LoadCases(p, x, A)
      PROVE  EvaluateConsumerLoadPersistenceMae(x) = Load!PersistenceError(p, A)
  BY <1>1, LoadPersistenceError DEF LoadCases
<1>2. ASSUME LoadGuesses24(p, x, A)
      PROVE  EvaluateConsumerLoadLag24hLinearRegressionMae(x) = Load!Error24(p, A)
  BY <1>2, LoadError24 DEF LoadGuesses24
<1>3. ASSUME LoadGuesses168(p, x, A)
      PROVE  EvaluateConsumerLoadLag24h168hLinearRegressionMae(x) = Load!Error168(p, A)
  BY <1>3, LoadError168 DEF LoadGuesses168
<1> QED BY <1>1, <1>2, <1>3

\* Rows of a session are sequences.
LEMMA LoadTuples ==
  ASSUME Load!Staged, NEW p \in 1 .. 2, NEW x, NEW A
  PROVE  LoadCases(p, x, A) \/ LoadGuesses24(p, x, A) \/ LoadGuesses168(p, x, A) => IsTuple(x)
<1>1. T24(source[p]) \subseteq StampsOf(source[p]) /\ T168(source[p]) \subseteq StampsOf(source[p])
  BY DEF T24, T168, TargetsOf
<1>2. IsHistory(source[p])
  BY LoadSource
<1>3. ASSUME LoadCases(p, x, A) PROVE IsTuple(x)
  BY <1>1, <1>2, <1>3, TakenIsTuple DEF LoadCases
<1>4. ASSUME LoadGuesses24(p, x, A) PROVE IsTuple(x)
  BY <1>1, <1>2, <1>4, TakenIsTuple DEF LoadGuesses24
<1>5. ASSUME LoadGuesses168(p, x, A) PROVE IsTuple(x)
  BY <1>1, <1>2, <1>5, TakenIsTuple DEF LoadGuesses168
<1> QED BY <1>3, <1>4, <1>5

\* Rows taken for alike are of the same targets of one consumer.
LoadSame(p, x, A, q, y, B) ==
  /\ A = B /\ A # {} /\ Load!SameActuals(p, q, A) /\ Single(Consumers(x)) /\ Single(Consumers(y))
  /\ TargetsIn(x) = A /\ Len(x) = Load!Cardinality(A)

\* Whatever two cohorts pass the guards of a comparison are the same rows' targets.
LEMMA LoadSamePairs ==
  ASSUME Load!Staged, NEW c \in 1 .. 2, NEW a \in 1 .. 2, NEW b \in 1 .. 2,
         NEW x, NEW A, NEW y, NEW B, NEW z, NEW D, NEW u, IsTuple(u)
  PROVE  /\ /\ LoadCases(c, x, A) /\ LoadGuesses24(a, y, B)
            /\ AlignedCohorts({x, y}) /\ SingleSharedConsumer({u, x, y})
            => LoadSame(c, x, A, a, y, B)
         /\ /\ LoadCases(c, x, A) /\ LoadGuesses168(b, z, D)
            /\ AlignedCohorts({x, z}) /\ SingleSharedConsumer({u, x, z})
            => LoadSame(c, x, A, b, z, D)
         /\ /\ LoadGuesses24(a, y, B) /\ LoadGuesses168(b, z, D)
            /\ AlignedCohorts({y, z}) /\ SingleSharedConsumer({u, y, z})
            => LoadSame(a, y, B, b, z, D)
<1> DEFINE e == LoadCase(source[c])
           f == LoadPrediction24(fit24[trainedOn], source[a])
           g == LoadPrediction168(fit168[trainedOn], source[b])
<1>0. /\ LoadCases(c, x, A) => x = Taken(e, A)
      /\ LoadGuesses24(a, y, B) => y = Taken(f, B)
      /\ LoadGuesses168(b, z, D) => z = Taken(g, D)
  BY DEF LoadCases, LoadGuesses24, LoadGuesses168
<1>1. ASSUME LoadCases(c, x, A), LoadGuesses24(a, y, B),
             AlignedCohorts({x, y}), SingleSharedConsumer({u, x, y})
      PROVE  LoadSame(c, x, A, a, y, B)
  <2>1. LoadLike(c, e, A, a, f, B)
    BY <1>1, LoadAlikePairs
  <2> HIDE DEF e, f, g
  <2> QED BY <1>0, <1>1, <2>1, LoadAlike DEF LoadSame, TargetsIn
<1>2. ASSUME LoadCases(c, x, A), LoadGuesses168(b, z, D),
             AlignedCohorts({x, z}), SingleSharedConsumer({u, x, z})
      PROVE  LoadSame(c, x, A, b, z, D)
  <2>1. LoadLike(c, e, A, b, g, D)
    BY <1>2, LoadAlikePairs
  <2> HIDE DEF e, f, g
  <2> QED BY <1>0, <1>2, <2>1, LoadAlike DEF LoadSame, TargetsIn
<1>3. ASSUME LoadGuesses24(a, y, B), LoadGuesses168(b, z, D),
             AlignedCohorts({y, z}), SingleSharedConsumer({u, y, z})
      PROVE  LoadSame(a, y, B, b, z, D)
  <2>1. LoadLike(a, f, B, b, g, D)
    BY <1>3, LoadAlikePairs
  <2> HIDE DEF e, f, g
  <2> QED BY <1>0, <1>3, <2>1, LoadAlike DEF LoadSame, TargetsIn
<1> QED BY <1>1, <1>2, <1>3

\* Each comparison that answers.
LEMMA LoadComparison24 ==
  ASSUME Load!Staged, pc \in {"compare", "forecast", "done"}, NEW c \in 1 .. 2, NEW a \in 1 .. 2,
         NEW x, NEW A, LoadCases(c, x, A), NEW y, NEW B, LoadGuesses24(a, y, B),
         NEW r, r = CompareConsumerLoadPersistenceVsTrainedOlsMae(x, y), r # Failed
  PROVE  /\ Load!SameActuals(c, a, TargetsIn(x)) /\ r.count = Load!Cardinality(TargetsIn(x))
         /\ r.persistence = Load!PersistenceError(c, TargetsIn(x))
         /\ r.lag24 = Load!Error24(a, TargetsIn(x))
<1>1. /\ AlignedCohorts({x, y}) /\ SingleSharedConsumer({x, y})
      /\ r = [count |-> Len(x), persistence |-> EvaluateConsumerLoadPersistenceMae(x),
              lag24 |-> EvaluateConsumerLoadLag24hLinearRegressionMae(y)]
  BY DEF CompareConsumerLoadPersistenceVsTrainedOlsMae
<1>2. {x, x, y} = {x, y}
  OBVIOUS
<1>3. LoadSame(c, x, A, a, y, B)
  BY <1>1, <1>2, LoadTuples, LoadSamePairs
<1>4. EvaluateConsumerLoadPersistenceMae(x) = Load!PersistenceError(c, A)
  BY <1>3, LoadErrors DEF LoadSame
<1>5. EvaluateConsumerLoadLag24hLinearRegressionMae(y) = Load!Error24(a, B)
  BY <1>3, LoadErrors DEF LoadSame
<1> QED BY <1>1, <1>3, <1>4, <1>5 DEF LoadSame

\* Persistence against the fit of both lags.
LEMMA LoadComparison168 ==
  ASSUME Load!Staged, pc \in {"compare", "forecast", "done"}, NEW c \in 1 .. 2, NEW b \in 1 .. 2,
         NEW x, NEW A, LoadCases(c, x, A), NEW z, NEW D, LoadGuesses168(b, z, D),
         NEW r, r = CompareConsumerLoadPersistenceVsLag24h168hOlsMae(x, z), r # Failed
  PROVE  /\ Load!SameActuals(c, b, TargetsIn(x)) /\ r.count = Load!Cardinality(TargetsIn(x))
         /\ r.persistence = Load!PersistenceError(c, TargetsIn(x))
         /\ r.lag168 = Load!Error168(b, TargetsIn(x))
<1>1. /\ AlignedCohorts({x, z}) /\ SingleSharedConsumer({x, z})
      /\ r = [count |-> Len(x), persistence |-> EvaluateConsumerLoadPersistenceMae(x),
              lag168 |-> EvaluateConsumerLoadLag24h168hLinearRegressionMae(z)]
  BY DEF CompareConsumerLoadPersistenceVsLag24h168hOlsMae
<1>2. {x, x, z} = {x, z}
  OBVIOUS
<1>3. LoadSame(c, x, A, b, z, D)
  BY <1>1, <1>2, LoadTuples, LoadSamePairs
<1>4. EvaluateConsumerLoadPersistenceMae(x) = Load!PersistenceError(c, A)
  BY <1>3, LoadErrors DEF LoadSame
<1>5. EvaluateConsumerLoadLag24h168hLinearRegressionMae(z) = Load!Error168(b, D)
  BY <1>3, LoadErrors DEF LoadSame
<1> QED BY <1>1, <1>3, <1>4, <1>5 DEF LoadSame

\* The fit of one lag against that of both.
LEMMA LoadComparisonBoth ==
  ASSUME Load!Staged, pc \in {"compare", "forecast", "done"}, NEW a \in 1 .. 2, NEW b \in 1 .. 2,
         NEW y, NEW B, LoadGuesses24(a, y, B), NEW z, NEW D, LoadGuesses168(b, z, D),
         NEW r, r = CompareConsumerLoadLag24hVsLag24h168hOlsMae(y, z), r # Failed
  PROVE  /\ Load!SameActuals(a, b, TargetsIn(y)) /\ r.count = Load!Cardinality(TargetsIn(y))
         /\ r.lag24 = Load!Error24(a, TargetsIn(y)) /\ r.lag168 = Load!Error168(b, TargetsIn(y))
<1>1. /\ AlignedCohorts({y, z}) /\ SingleSharedConsumer({y, z})
      /\ r = [count |-> Len(y), lag24 |-> EvaluateConsumerLoadLag24hLinearRegressionMae(y),
              lag168 |-> EvaluateConsumerLoadLag24h168hLinearRegressionMae(z)]
  BY DEF CompareConsumerLoadLag24hVsLag24h168hOlsMae
<1>2. {y, y, z} = {y, z}
  OBVIOUS
<1>3. LoadSame(a, y, B, b, z, D)
  BY <1>1, <1>2, LoadTuples, LoadSamePairs
<1>4. EvaluateConsumerLoadLag24hLinearRegressionMae(y) = Load!Error24(a, B)
  BY <1>3, LoadErrors DEF LoadSame
<1>5. EvaluateConsumerLoadLag24h168hLinearRegressionMae(z) = Load!Error168(b, D)
  BY <1>3, LoadErrors DEF LoadSame
<1> QED BY <1>1, <1>3, <1>4, <1>5 DEF LoadSame

\* The three-way comparison.
LEMMA LoadComparisonAll ==
  ASSUME Load!Staged, pc \in {"compare", "forecast", "done"},
         NEW c \in 1 .. 2, NEW a \in 1 .. 2, NEW b \in 1 .. 2,
         NEW x, NEW A, LoadCases(c, x, A), NEW y, NEW B, LoadGuesses24(a, y, B),
         NEW z, NEW D, LoadGuesses168(b, z, D),
         NEW r, r = CompareConsumerLoadThreeWayMae(x, y, z), r # Failed
  PROVE  /\ Load!SameActuals(c, a, TargetsIn(x)) /\ Load!SameActuals(a, b, TargetsIn(x))
         /\ r.count = Load!Cardinality(TargetsIn(x))
         /\ r.persistence = Load!PersistenceError(c, TargetsIn(x))
         /\ r.lag24 = Load!Error24(a, TargetsIn(x)) /\ r.lag168 = Load!Error168(b, TargetsIn(x))
<1>1. /\ AlignedCohorts({x, y, z}) /\ SingleSharedConsumer({x, y, z})
      /\ r = [count |-> Len(x), persistence |-> EvaluateConsumerLoadPersistenceMae(x),
              lag24 |-> EvaluateConsumerLoadLag24hLinearRegressionMae(y),
              lag168 |-> EvaluateConsumerLoadLag24h168hLinearRegressionMae(z)]
  BY DEF CompareConsumerLoadThreeWayMae, AlignedConsumerCohort
<1>2. {z, x, y} = {x, y, z}
  OBVIOUS
<1>3. AlignedCohorts({x, y}) /\ AlignedCohorts({y, z})
  BY <1>1, AlignedPairs
<1>4. LoadSame(c, x, A, a, y, B)
  BY <1>1, <1>2, <1>3, LoadTuples, LoadSamePairs
<1>5. LoadSame(a, y, B, b, z, D)
  BY <1>1, <1>3, LoadTuples, LoadSamePairs
<1>6. EvaluateConsumerLoadPersistenceMae(x) = Load!PersistenceError(c, A)
  BY <1>4, LoadErrors DEF LoadSame
<1>7. EvaluateConsumerLoadLag24hLinearRegressionMae(y) = Load!Error24(a, B)
  BY <1>4, LoadErrors DEF LoadSame
<1>8. EvaluateConsumerLoadLag24h168hLinearRegressionMae(z) = Load!Error168(b, D)
  BY <1>5, LoadErrors DEF LoadSame
<1> QED BY <1>1, <1>4, <1>5, <1>6, <1>7, <1>8 DEF LoadSame

\* Every comparison of a load session is of the same targets, actuals and errors.
LEMMA LoadComparesLikeWithLike ==
  ASSUME Load!Staged PROVE Load!ComparesLikeWithLike
<1> SUFFICES ASSUME picked # Nothing PROVE Load!ComparesLikeWithLike
  BY DEF Load!ComparesLikeWithLike
<1>1. pc \in {"forecast", "done"}
  BY DEF Load!Staged
<1>2. PICK c \in 1 .. 2, a \in 1 .. 2, b \in 1 .. 2, fromCutoff \in BOOLEAN :
        Load!Judged(c, a, b, fromCutoff)
  BY <1>1 DEF Load!Staged, Load!Side
<1> DEFINE x == Load!Cohort(c, fromCutoff)
           y == pred24[a]
           z == pred168[b]
<1>3. /\ picked = [cases |-> c, lag24 |-> a, lag168 |-> b, cohort |-> x]
      /\ verdict = Load!Verdict(x, y, z)
  BY <1>2 DEF Load!Judged
<1>4. /\ x # Failed => \E A : LoadCases(c, x, A)
      /\ y # Failed => \E A : LoadGuesses24(a, y, A)
      /\ z # Failed => \E A : LoadGuesses168(b, z, A)
  BY <1>1, LoadCompared
<1> HIDE DEF x, y, z
<1>5. ASSUME Load!Made(verdict.persistence24)
      PROVE  /\ Load!SameActuals(c, a, TargetsIn(x))
             /\ verdict.persistence24.count = Load!Cardinality(TargetsIn(x))
             /\ verdict.persistence24.persistence = Load!PersistenceError(c, TargetsIn(x))
             /\ verdict.persistence24.lag24 = Load!Error24(a, TargetsIn(x))
  <2> DEFINE r == CompareConsumerLoadPersistenceVsTrainedOlsMae(x, y)
  <2>1. x # Failed /\ y # Failed /\ verdict.persistence24 = r /\ r # Failed
    BY <1>3, <1>5, LoadVerdict DEF Load!Made
  <2>2. PICK A, B : LoadCases(c, x, A) /\ LoadGuesses24(a, y, B)
    BY <1>4, <2>1
  <2> QED BY <1>1, <2>1, <2>2, LoadComparison24
<1>6. ASSUME Load!Made(verdict.persistence168)
      PROVE  /\ Load!SameActuals(c, b, TargetsIn(x))
             /\ verdict.persistence168.count = Load!Cardinality(TargetsIn(x))
             /\ verdict.persistence168.persistence = Load!PersistenceError(c, TargetsIn(x))
             /\ verdict.persistence168.lag168 = Load!Error168(b, TargetsIn(x))
  <2> DEFINE r == CompareConsumerLoadPersistenceVsLag24h168hOlsMae(x, z)
  <2>1. x # Failed /\ z # Failed /\ verdict.persistence168 = r /\ r # Failed
    BY <1>3, <1>6, LoadVerdict DEF Load!Made
  <2>2. PICK A, D : LoadCases(c, x, A) /\ LoadGuesses168(b, z, D)
    BY <1>4, <2>1
  <2> QED BY <1>1, <2>1, <2>2, LoadComparison168
<1>7. ASSUME Load!Made(verdict.both)
      PROVE  /\ Load!SameActuals(a, b, TargetsIn(y))
             /\ verdict.both.count = Load!Cardinality(TargetsIn(y))
             /\ verdict.both.lag24 = Load!Error24(a, TargetsIn(y))
             /\ verdict.both.lag168 = Load!Error168(b, TargetsIn(y))
  <2> DEFINE r == CompareConsumerLoadLag24hVsLag24h168hOlsMae(y, z)
  <2>1. y # Failed /\ z # Failed /\ verdict.both = r /\ r # Failed
    BY <1>3, <1>7, LoadVerdict DEF Load!Made
  <2>2. PICK B, D : LoadGuesses24(a, y, B) /\ LoadGuesses168(b, z, D)
    BY <1>4, <2>1
  <2> QED BY <1>1, <2>1, <2>2, LoadComparisonBoth
<1>8. ASSUME Load!Made(verdict.all)
      PROVE  /\ Load!SameActuals(c, a, TargetsIn(x)) /\ Load!SameActuals(a, b, TargetsIn(x))
             /\ verdict.all.count = Load!Cardinality(TargetsIn(x))
             /\ verdict.all.persistence = Load!PersistenceError(c, TargetsIn(x))
             /\ verdict.all.lag24 = Load!Error24(a, TargetsIn(x))
             /\ verdict.all.lag168 = Load!Error168(b, TargetsIn(x))
  <2> DEFINE r == CompareConsumerLoadThreeWayMae(x, y, z)
  <2>1. x # Failed /\ y # Failed /\ z # Failed /\ verdict.all = r /\ r # Failed
    BY <1>3, <1>8, LoadVerdict DEF Load!Made
  <2>2. PICK A, B, D : LoadCases(c, x, A) /\ LoadGuesses24(a, y, B) /\ LoadGuesses168(b, z, D)
    BY <1>4, <2>1
  <2> QED BY <1>1, <2>1, <2>2, LoadComparisonAll
<1>9. picked.cases = c /\ picked.lag24 = a /\ picked.lag168 = b /\ picked.cohort = x
  BY <1>3
<1> QED BY <1>5, <1>6, <1>7, <1>8, <1>9 DEF Load!ComparesLikeWithLike, TargetsIn, y

\* The evaluation targets, in their order, are what a live model is asked for.
LEMMA LoadAsked ==
  ASSUME Load!Staged, NEW p \in 1 .. 2, pc = "done", split168[p] # Failed
  PROVE  LET h == source[p]
             s == InOrder(From(T168(h)))
         IN  /\ LoadValid(h)
             /\ Load!Asked(p) = [owner |-> ConsumerLoadIdentity(h[1]), history |-> h, targets |-> s]
             /\ Load!Asked(p) # Failed
<1> DEFINE h == source[p]
           E == From(T168(h))
           s == InOrder(E)
           n == Cardinality(E)
           ev == Taken(LoadRow168(h), E)
<1>1. IsHistory(h)
  BY LoadSource
<1>2. LoadValid(h) /\ ev # << >> /\ split168[p].evaluation = ev
  BY LoadSplit
<1>3. E \subseteq Int /\ IsFiniteSet(E) /\ E \subseteq T168(h) /\ E \subseteq StampsOf(h)
  BY <1>1, StampsFinite DEF T168, From, TargetsOf
<1>4. /\ n \in Nat /\ s \in [1 .. n -> E] /\ DOMAIN ev = 1 .. n
      /\ \A k \in 1 .. n : ev[k] = LoadRow168(h)[s[k]]
  <2>1. n \in Nat /\ s \in [1 .. n -> E]
    BY <1>3, InOrderEnumerates
  <2> HIDE DEF E
  <2>2. DOMAIN ev = 1 .. n /\ \A k \in 1 .. n : ev[k] = LoadRow168(h)[s[k]]
    BY <1>3, TakenIs
  <2> QED BY <2>1, <2>2
<1>5. E # {}
  <2>1. \A t \in E : LoadRow168(h)[t].target = t
    BY <1>3 DEF LoadRow168
  <2>2. Dated(LoadRow168(h), E)
    BY <1>3, <2>1 DEF Dated
  <2> QED BY <1>2, <2>2, TargetsAlong
<1> HIDE DEF E, n, ev
<1>6. s \in Seq(Int) /\ s # << >>
  <2>0. \A k \in 1 .. n : s[k] \in Int
    BY <1>3, <1>4
  <2>1. s \in [1 .. n -> Int]
    BY <1>4, <2>0
  <2>2. s \in Seq(Int) /\ Len(s) = n
    BY <1>4, <2>1, FcnIsSeq
  <2>3. n # 0
    BY <1>3, <1>5, FS_EmptySet DEF n
  <2> HIDE DEF s
  <2> QED BY <2>2, <2>3
<1>7. Load!EvaluationTargets(p) = s
  <2>1. Load!EvaluationTargets(p) = [k \in 1 .. n |-> ev[k].target]
    BY <1>2, <1>4 DEF Load!EvaluationTargets
  <2>2. \A k \in 1 .. n : ev[k].target = s[k]
    <3> TAKE k \in 1 .. n
    <3>1. s[k] \in T168(h) /\ ev[k] = LoadRow168(h)[s[k]]
      BY <1>3, <1>4
    <3> HIDE DEF s
    <3> QED BY <3>1 DEF LoadRow168
  <2> HIDE DEF s
  <2> QED BY <1>4, <2>1, <2>2
<1>8. h[1].consumer \in Consumers(h) /\ Consumers(h) \subseteq {h[1].consumer}
  <2>1. 1 \in DOMAIN h
    <3>1. DOMAIN h # {}
      BY <1>3, <1>5 DEF StampsOf
    <3>2. Len(h) \in Nat /\ DOMAIN h = 1 .. Len(h)
      BY <1>1 DEF IsHistory, IsTuple
    <3> HIDE DEF h
    <3> QED BY <3>1, <3>2
  <2>2. h[1].consumer \in Consumers(h)
    BY <2>1 DEF Consumers
  <2>3. IsFiniteSet(Consumers(h)) /\ Single(Consumers(h))
    BY <1>1, <1>2, ConsumersFinite DEF IsHistory, LoadValid
  <2> HIDE DEF h
  <2> QED BY <2>2, <2>3, SingleIs
<1> DEFINE r == [owner |-> h[1].consumer, history |-> h, targets |-> s]
<1>9. r # Failed
  <2>1. Failed \notin [owner : Consumers(h), history : {h}, targets : Seq(Int)]
    BY LoadSource
  <2>2. r \in [owner : Consumers(h), history : {h}, targets : Seq(Int)]
    BY <1>6, <1>8
  <2> QED BY <2>1, <2>2
<1>10. Load!Asked(p) = r
  <2>1. Load!Asked(p) = ConsumerLoadForecastModelRequest(h[1].consumer, h, s)
    BY <1>7 DEF Load!Asked, ConsumerLoadIdentity
  <2> HIDE DEF s, h
  <2> QED BY <1>6, <1>8, <2>1 DEF ConsumerLoadForecastModelRequest
<1> QED BY <1>2, <1>9, <1>10 DEF E, ConsumerLoadIdentity

\* The live lookup finds the lags of every evaluation target.
LEMMA LoadLagsFound ==
  ASSUME Load!Staged, NEW p \in 1 .. 2, LoadValid(source[p])
  PROVE  LET h == source[p]
         IN  \A t \in T168(h) :
               /\ UniqueLagObservation(h, t - Lag24h) = ByTimestamp(h)[t - Lag24h]
               /\ UniqueLagObservation(h, t - Lag168h) = ByTimestamp(h)[t - Lag168h]
               /\ ByTimestamp(h)[t - Lag24h] # Failed /\ ByTimestamp(h)[t - Lag168h] # Failed
<1> DEFINE h == source[p]
<1>1. IsHistory(h) /\ UniqueTimestamps(h) /\ \A i \in DOMAIN h : h[i] # Failed
  BY LoadSource DEF LoadValid
<1>2. \A t \in T168(h) : t - Lag24h \in StampsOf(h) /\ t - Lag168h \in StampsOf(h)
  BY DEF T168, TargetsOf
<1>3. \A t \in StampsOf(h) : ByTimestamp(h)[t] # Failed
  BY <1>1, ByTimestampFinds
<1> HIDE DEF h
<1> SUFFICES ASSUME NEW t \in T168(h)
             PROVE  /\ UniqueLagObservation(h, t - Lag24h) = ByTimestamp(h)[t - Lag24h]
                    /\ UniqueLagObservation(h, t - Lag168h) = ByTimestamp(h)[t - Lag168h]
                    /\ ByTimestamp(h)[t - Lag24h] # Failed /\ ByTimestamp(h)[t - Lag168h] # Failed
  BY DEF h
<1> QED BY <1>1, <1>2, <1>3, LagIsFound

\* The live regression answers what the backtest scored.
LEMMA LoadLiveOls ==
  ASSUME Load!Staged, NEW p \in 1 .. 2, pc = "done", pred168[p] # Failed
  PROVE  LET scored == pred168[p]
         IN  IF \E i \in DOMAIN scored : scored[i].predicted < 0
             THEN live[p].ols = Failed
             ELSE live[p].ols = [i \in DOMAIN scored |->
                    [owner |-> ConsumerLoadIdentity(source[p][1]), target |-> scored[i].target,
                     predicted |-> scored[i].predicted, over |-> scored[i].over]]
<1> DEFINE h == source[p]
           E == From(T168(h))
           s == InOrder(E)
           fit == fit168[trainedOn]
           scored == pred168[p]
           b == ByTimestamp(h)
           owner == ConsumerLoadIdentity(h[1])
           r == [owner |-> owner, history |-> h, targets |-> s]
           value(t) == Predict168(fit, b[t - Lag24h].value, b[t - Lag168h].value)
<1>1. /\ LoadValid(h) /\ fit # Failed /\ split168[p] # Failed
      /\ scored = Taken(LoadPrediction168(fit, h), E)
  BY LoadPredicted
<1>2. Load!Asked(p) = r /\ r # Failed
  BY <1>1, LoadAsked
<1>3. live[p].ols = Lag24h168hOlsConsumerLoadForecast(fit, r)
  <2>1. live[p].ols = Load!Answers(p).ols
    BY DEF Load!Staged, Load!Side
  <2> HIDE DEF r, fit
  <2> QED BY <1>1, <1>2, <2>1 DEF Load!Answers, Load!Then, fit
<1>4. E \subseteq Int /\ IsFiniteSet(E) /\ E \subseteq T168(h)
  <2>1. IsHistory(h)
    BY LoadSource
  <2> QED BY <2>1, StampsFinite DEF T168, From
<1>5. /\ DOMAIN scored = DOMAIN s
      /\ \A k \in DOMAIN s : s[k] \in E
      /\ \A k \in DOMAIN s : scored[k] = LoadPrediction168(fit, h)[s[k]]
  <2> DEFINE f == LoadPrediction168(fit, h)
  <2>1. scored = Taken(f, E)
    BY <1>1
  <2> HIDE DEF E, f, scored
  <2>2. /\ DOMAIN Taken(f, E) = 1 .. Cardinality(E) /\ DOMAIN s = 1 .. Cardinality(E)
        /\ \A k \in 1 .. Cardinality(E) : s[k] \in E
        /\ \A k \in 1 .. Cardinality(E) : Taken(f, E)[k] = f[s[k]]
    BY <1>4, TakenIs
  <2> HIDE DEF s
  <2> QED BY <2>1, <2>2 DEF f
<1>6. \A k \in DOMAIN s : s[k] \in T168(h)
  BY <1>4, <1>5
<1>7. \A k \in DOMAIN s :
        /\ UniqueLagObservation(h, s[k] - Lag24h) = b[s[k] - Lag24h]
        /\ UniqueLagObservation(h, s[k] - Lag168h) = b[s[k] - Lag168h]
        /\ b[s[k] - Lag24h] # Failed /\ b[s[k] - Lag168h] # Failed
  BY <1>1, <1>6, LoadLagsFound
<1>8. \A k \in DOMAIN s : scored[k].target = s[k] /\ scored[k].over = fit.over /\ scored[k].predicted = value(s[k])
  <2> TAKE k \in DOMAIN s
  <2>1. s[k] \in T168(h) /\ scored[k] = LoadPrediction168(fit, h)[s[k]]
    BY <1>5, <1>6
  <2> HIDE DEF s, scored, fit, h, E, r, owner
  <2> QED BY <2>1 DEF LoadPrediction168
<1> HIDE DEF s, scored, fit, h, b, owner
<1>9. Lag24h168hOlsConsumerLoadForecast(fit, r)
        = IF \E k \in DOMAIN s : value(s[k]) < 0 THEN Failed
          ELSE [k \in DOMAIN s |-> [owner |-> owner, target |-> s[k], over |-> fit.over,
                                    predicted |-> value(s[k])]]
  <2>1. r.owner = owner /\ r.history = h /\ r.targets = s
    OBVIOUS
  <2> HIDE DEF r
  <2> QED BY <1>7, <2>1 DEF Lag24h168hOlsConsumerLoadForecast
<1>10. \A k \in DOMAIN s :
         [owner |-> owner, target |-> s[k], over |-> fit.over, predicted |-> value(s[k])]
           = [owner |-> owner, target |-> scored[k].target,
              predicted |-> scored[k].predicted, over |-> scored[k].over]
  BY <1>8
<1>11. (\E k \in DOMAIN s : value(s[k]) < 0) <=> \E i \in DOMAIN scored : scored[i].predicted < 0
  BY <1>5, <1>8
<1>12. CASE \E i \in DOMAIN scored : scored[i].predicted < 0
  BY <1>3, <1>9, <1>11, <1>12 DEF scored
<1>13. CASE ~ \E i \in DOMAIN scored : scored[i].predicted < 0
  <2>1. live[p].ols = [k \in DOMAIN s |-> [owner |-> owner, target |-> s[k], over |-> fit.over,
                                           predicted |-> value(s[k])]]
    BY <1>3, <1>9, <1>11, <1>13
  <2>2. live[p].ols = [k \in DOMAIN scored |->
           [owner |-> owner, target |-> scored[k].target,
            predicted |-> scored[k].predicted, over |-> scored[k].over]]
    BY <1>5, <1>10, <2>1
  <2> QED BY <1>13, <2>2 DEF scored, owner, h
<1> QED BY <1>12, <1>13

\* The live persistence answers cases of the backtest.
LEMMA LoadLivePersistence ==
  ASSUME Load!Staged, NEW p \in 1 .. 2, pc = "done", split168[p] # Failed
  PROVE  \A i \in DOMAIN live[p].persistence : \E k \in DOMAIN cases[p] :
           /\ cases[p][k].target = live[p].persistence[i].target
           /\ cases[p][k].predicted = live[p].persistence[i].predicted
<1> DEFINE h == source[p]
           E == From(T168(h))
           s == InOrder(E)
           b == ByTimestamp(h)
           owner == ConsumerLoadIdentity(h[1])
           r == [owner |-> owner, history |-> h, targets |-> s]
<1>1. LoadValid(h) /\ Load!Asked(p) = r /\ r # Failed
  BY LoadAsked
<1>2. live[p].persistence = PreviousDayPersistenceConsumerLoadForecast(r)
  <2>1. live[p].persistence = Load!Answers(p).persistence
    BY DEF Load!Staged, Load!Side
  <2> HIDE DEF r
  <2> QED BY <1>1, <2>1 DEF Load!Answers, Load!Then
<1>3. IsHistory(h) /\ T24(h) \subseteq Int /\ IsFiniteSet(T24(h))
  BY LoadSource, StampsFinite DEF T24
<1>4. E \subseteq Int /\ IsFiniteSet(E) /\ E \subseteq T168(h) /\ E \subseteq T24(h)
  BY <1>3, StampsFinite DEF T168, From, T24, TargetsOf
<1>5. \A k \in DOMAIN s : s[k] \in E
  <2> HIDE DEF E
  <2> QED BY <1>4, TakenIs
<1>6. \A k \in DOMAIN s : s[k] \in T168(h) /\ s[k] \in T24(h)
  BY <1>4, <1>5
<1>7. \A k \in DOMAIN s : /\ UniqueLagObservation(h, s[k] - Lag24h) = b[s[k] - Lag24h]
                          /\ b[s[k] - Lag24h] # Failed
  BY <1>1, <1>6, LoadLagsFound
<1>8. cases[p] = Taken(LoadCase(h), T24(h))
  <2>1. cases[p] = BuildConsumerLoadPersistenceBacktestCases(h)
    BY DEF Load!Staged, Load!Side
  <2> QED BY <1>1, <1>3, <2>1, LoadRows
<1>9. \A t \in T24(h) : \E k \in DOMAIN cases[p] : cases[p][k] = LoadCase(h)[t]
  <2>1. Instants(T24(h))
    BY <1>3 DEF Instants
  <2> QED BY <1>8, <2>1, TakenEach
<1> HIDE DEF s, h, b, owner
<1>10. live[p].persistence = [k \in DOMAIN s |-> [owner |-> owner, target |-> s[k],
                                                  predicted |-> b[s[k] - Lag24h].value, over |-> 1]]
  <2>1. r.owner = owner /\ r.history = h /\ r.targets = s
    OBVIOUS
  <2> HIDE DEF r
  <2> QED BY <1>2, <1>7, <2>1 DEF PreviousDayPersistenceConsumerLoadForecast
<1>11. ASSUME NEW i \in DOMAIN live[p].persistence
       PROVE  \E k \in DOMAIN cases[p] : /\ cases[p][k].target = live[p].persistence[i].target
                                         /\ cases[p][k].predicted = live[p].persistence[i].predicted
  <2>1. i \in DOMAIN s
    BY <1>10
  <2>2. live[p].persistence[i].target = s[i] /\ live[p].persistence[i].predicted = b[s[i] - Lag24h].value
    BY <1>10, <2>1
  <2>3. PICK k \in DOMAIN cases[p] : cases[p][k] = LoadCase(h)[s[i]]
    BY <1>6, <1>9, <2>1
  <2>4. LoadCase(h)[s[i]].target = s[i] /\ LoadCase(h)[s[i]].predicted = b[s[i] - Lag24h].value
    BY <1>6, <2>1 DEF LoadCase, b
  <2> QED BY <2>2, <2>3, <2>4
<1> QED BY <1>11

\* The live models of a load session answer what the backtest scored.
LEMMA LoadLiveAgreesWithBacktest ==
  ASSUME Load!Staged PROVE Load!LiveAgreesWithBacktest
<1> SUFFICES ASSUME pc = "done", NEW p \in 1 .. 2
             PROVE  /\ Load!Made(pred168[p]) =>
                         LET scored == pred168[p]
                         IN  IF TRUE /\ \E i \in DOMAIN scored : scored[i].predicted < 0
                             THEN live[p].ols = Failed
                             ELSE live[p].ols = [i \in DOMAIN scored |->
                                    [owner |-> ConsumerLoadIdentity(source[p][1]), target |-> scored[i].target,
                                     predicted |-> scored[i].predicted, over |-> scored[i].over]]
                    /\ Load!Made(split168[p]) =>
                         \A i \in DOMAIN live[p].persistence : \E k \in DOMAIN cases[p] :
                           /\ cases[p][k].target = live[p].persistence[i].target
                           /\ cases[p][k].predicted = live[p].persistence[i].predicted
  BY DEF Load!LiveAgreesWithBacktest, Load!Side
<1> QED BY LoadLiveOls, LoadLivePersistence DEF Load!Made

\* A fit of a load session, of one lag or of both, has a positive denominator.
LEMMA LoadOver24 ==
  ASSUME Load!Staged, NEW p \in 1 .. 2, pc \notin {"features", "split", "fit"}, fit24[p] # Failed
  PROVE  fit24[p].over > 0
<1> DEFINE h == source[p]
           T == Before(T24(h))
           X == LoadLags(h, Lag24h, T24(h))
           Y == LoadActuals(h, T24(h))
           rows == Taken(LoadRow24(h), T)
           fit == fit24[p]
<1>1. IsHistory(h)
  BY LoadSource
<1>2. T \subseteq Int /\ IsFiniteSet(T)
  BY <1>1, StampsFinite DEF T24
<1>3. T \subseteq T24(h)
  BY DEF Before
<1>4. \A t \in T : X[t] \in Int /\ Y[t] \in Int
  BY LoadAt, <1>3 DEF T24, TargetsOf, LoadLags, LoadActuals
<1>5. Len(rows) = Cardinality(T) /\ Cardinality(T) \in Nat
  BY <1>2, TakenIs
<1>6. fit = FitOneLag(Taken(X, T), Taken(Y, T)) /\ fit # Failed /\ Len(rows) >= 2
  <2>1. fit # Failed /\ fit = FitConsumerLoadLag24hLinearRegression(rows)
    BY LoadFit
  <2>2. Lag24Of(rows) = Taken(X, T) /\ ActualOf(rows) = Taken(Y, T)
    BY <1>1, <1>3, LoadColumns24
  <2> QED BY <2>1, <2>2 DEF FitConsumerLoadLag24hLinearRegression, Lag24Of, ActualOf
<1> HIDE DEF h, T, X, Y, rows, fit
<1>7. Cardinality(T) >= 1
  BY <1>5, <1>6
<1>8. fit.over > 0
  BY <1>2, <1>4, <1>6, <1>7, LineOverAlong
<1> QED BY <1>8 DEF fit

\* The same of a fit of both lags.
LEMMA LoadOver168 ==
  ASSUME Load!Staged, NEW p \in 1 .. 2, pc \notin {"features", "split", "fit"}, fit168[p] # Failed
  PROVE  fit168[p].over > 0
<1> DEFINE h == source[p]
           T == Before(T168(h))
           X == LoadLags(h, Lag24h, T168(h))
           Z == LoadLags(h, Lag168h, T168(h))
           Y == LoadActuals(h, T168(h))
           rows == Taken(LoadRow168(h), T)
           fit == fit168[p]
<1>1. IsHistory(h)
  BY LoadSource
<1>2. T \subseteq Int /\ IsFiniteSet(T)
  BY <1>1, StampsFinite DEF T168
<1>3. T \subseteq T168(h)
  BY DEF Before
<1>4. \A t \in T : X[t] \in Int /\ Z[t] \in Int /\ Y[t] \in Int
  BY LoadAt, <1>3 DEF T168, TargetsOf, LoadLags, LoadActuals
<1>5. Len(rows) = Cardinality(T) /\ Cardinality(T) \in Nat
  BY <1>2, TakenIs
<1>6. fit = FitTwoLags(Taken(X, T), Taken(Z, T), Taken(Y, T)) /\ fit # Failed /\ Len(rows) >= 3
  <2>1. fit # Failed /\ fit = FitConsumerLoadLag24h168hLinearRegression(rows)
    BY LoadFit
  <2>2. /\ Lag24Of(rows) = Taken(X, T) /\ Lag168Of(rows) = Taken(Z, T)
        /\ ActualOf(rows) = Taken(Y, T)
    BY <1>1, <1>3, LoadColumns168
  <2> QED BY <2>1, <2>2 DEF FitConsumerLoadLag24h168hLinearRegression, Lag24Of, Lag168Of, ActualOf
<1> HIDE DEF h, T, X, Y, Z, rows, fit
<1>7. Cardinality(T) >= 1
  BY <1>5, <1>6
<1>8. fit.over > 0
  BY <1>2, <1>4, <1>6, <1>7, PlaneOverAlong
<1> QED BY <1>8 DEF fit

\* Every fit of a load session divides by a positive number.
LEMMA LoadTypeOK ==
  ASSUME Load!Staged PROVE Load!TypeOK
<1>1. \A p \in 1 .. 2 : /\ Load!Made(fit24[p]) => fit24[p].over > 0
                        /\ Load!Made(fit168[p]) => fit168[p].over > 0
  BY LoadFit, LoadOver24, LoadOver168
<1> QED BY <1>1 DEF Load!Staged, Load!TypeOK, Load!Side

------------------------------------------------------------------------------
(* The day-ahead price models.                                             *)

\* A price history that gives rows, and the row at each of its targets.
PriceValid(h) == SingleMarketAndCurrency(h) /\ UniqueTimestamps(h)

PriceRow24(h) ==
  [t \in T24(h) |->
     [market |-> ByTimestamp(h)[t].market, currency |-> ByTimestamp(h)[t].currency, target |-> t,
      lag24 |-> ByTimestamp(h)[t - Lag24h].amount, actual |-> ByTimestamp(h)[t].amount]]

PriceRow168(h) ==
  [t \in T168(h) |->
     [market |-> ByTimestamp(h)[t].market, currency |-> ByTimestamp(h)[t].currency, target |-> t,
      lag24 |-> ByTimestamp(h)[t - Lag24h].amount,
      lag168 |-> ByTimestamp(h)[t - Lag168h].amount, actual |-> ByTimestamp(h)[t].amount]]

PriceCase(h) ==
  [t \in T24(h) |->
     [market |-> ByTimestamp(h)[t].market, target |-> t,
      predicted |-> ByTimestamp(h)[t - Lag24h].amount,
      predictedCurrency |-> ByTimestamp(h)[t - Lag24h].currency,
      actual |-> ByTimestamp(h)[t].amount, currency |-> ByTimestamp(h)[t].currency]]

\* The builders make the rows of the targets, in their order.
LEMMA PriceRows ==
  ASSUME NEW h, IsHistory(h)
  PROVE  /\ BuildDamPriceLag24hFeatureRows(h)
              = IF PriceValid(h) THEN Taken(PriceRow24(h), T24(h)) ELSE Failed
         /\ BuildDamPriceLag24h168hFeatureRows(h)
              = IF PriceValid(h) THEN Taken(PriceRow168(h), T168(h)) ELSE Failed
         /\ BuildDamPricePersistenceBacktestCases(h)
              = IF PriceValid(h) THEN Taken(PriceCase(h), T24(h)) ELSE Failed
<1> DEFINE s == InOrder(T24(h))
           w == InOrder(T168(h))
           b == ByTimestamp(h)
<1>1. /\ CompleteTargets(h, {Lag24h}) = s /\ CompleteTargets(h, {Lag24h, Lag168h}) = w
      /\ T24(h) \subseteq Int /\ IsFiniteSet(T24(h)) /\ T168(h) \subseteq Int /\ IsFiniteSet(T168(h))
  BY StampsFinite DEF T24, T168
<1>2. \A k \in DOMAIN s : s[k] \in T24(h)
  BY <1>1, TakenIs
<1>3. \A k \in DOMAIN w : w[k] \in T168(h)
  BY <1>1, TakenIs
<1> HIDE DEF s, w, b
<1>4. Taken(PriceRow24(h), T24(h))
        = [k \in DOMAIN s |-> [market |-> b[s[k]].market, currency |-> b[s[k]].currency, target |-> s[k],
                               lag24 |-> b[s[k] - Lag24h].amount, actual |-> b[s[k]].amount]]
  <2>1. Taken(PriceRow24(h), T24(h)) = [k \in DOMAIN s |-> PriceRow24(h)[s[k]]]
    BY DEF Taken, s
  <2>2. \A k \in DOMAIN s : PriceRow24(h)[s[k]]
          = [market |-> b[s[k]].market, currency |-> b[s[k]].currency, target |-> s[k],
             lag24 |-> b[s[k] - Lag24h].amount, actual |-> b[s[k]].amount]
    BY <1>2 DEF PriceRow24, b
  <2> QED BY <2>1, <2>2
<1>5. Taken(PriceRow168(h), T168(h))
        = [k \in DOMAIN w |-> [market |-> b[w[k]].market, currency |-> b[w[k]].currency, target |-> w[k],
             lag24 |-> b[w[k] - Lag24h].amount, lag168 |-> b[w[k] - Lag168h].amount,
             actual |-> b[w[k]].amount]]
  <2>1. Taken(PriceRow168(h), T168(h)) = [k \in DOMAIN w |-> PriceRow168(h)[w[k]]]
    BY DEF Taken, w
  <2>2. \A k \in DOMAIN w : PriceRow168(h)[w[k]]
          = [market |-> b[w[k]].market, currency |-> b[w[k]].currency, target |-> w[k],
             lag24 |-> b[w[k] - Lag24h].amount, lag168 |-> b[w[k] - Lag168h].amount,
             actual |-> b[w[k]].amount]
    BY <1>3 DEF PriceRow168, b
  <2> QED BY <2>1, <2>2
<1>6. Taken(PriceCase(h), T24(h))
        = [k \in DOMAIN s |-> [market |-> b[s[k]].market, target |-> s[k],
             predicted |-> b[s[k] - Lag24h].amount,
             predictedCurrency |-> b[s[k] - Lag24h].currency,
             actual |-> b[s[k]].amount, currency |-> b[s[k]].currency]]
  <2>1. Taken(PriceCase(h), T24(h)) = [k \in DOMAIN s |-> PriceCase(h)[s[k]]]
    BY DEF Taken, s
  <2>2. \A k \in DOMAIN s : PriceCase(h)[s[k]]
          = [market |-> b[s[k]].market, target |-> s[k],
             predicted |-> b[s[k] - Lag24h].amount,
             predictedCurrency |-> b[s[k] - Lag24h].currency,
             actual |-> b[s[k]].amount, currency |-> b[s[k]].currency]
    BY <1>2 DEF PriceCase, b
  <2> QED BY <2>1, <2>2
<1>7. BuildDamPriceLag24hFeatureRows(h)
        = IF PriceValid(h) THEN Taken(PriceRow24(h), T24(h)) ELSE Failed
  BY <1>1, <1>4 DEF BuildDamPriceLag24hFeatureRows, PriceValid, b
<1>8. BuildDamPriceLag24h168hFeatureRows(h)
        = IF PriceValid(h) THEN Taken(PriceRow168(h), T168(h)) ELSE Failed
  BY <1>1, <1>5 DEF BuildDamPriceLag24h168hFeatureRows, PriceValid, b
<1>9. BuildDamPricePersistenceBacktestCases(h)
        = IF PriceValid(h) THEN Taken(PriceCase(h), T24(h)) ELSE Failed
  BY <1>1, <1>6 DEF BuildDamPricePersistenceBacktestCases, PriceValid, b
<1> QED BY <1>7, <1>8, <1>9

\* A split that is no failure is the rows before the cutoff and those from it on.
LEMMA PriceSplits ==
  ASSUME NEW h, IsHistory(h)
  PROVE  /\ LET rows == BuildDamPriceLag24hFeatureRows(h)
                split == SplitDamPriceFeatureRowsChronologically(rows, Cutoff)
            IN  rows # Failed /\ split # Failed =>
                  /\ PriceValid(h)
                  /\ split = [training   |-> Taken(PriceRow24(h), Before(T24(h))),
                              evaluation |-> Taken(PriceRow24(h), From(T24(h)))]
         /\ LET rows == BuildDamPriceLag24h168hFeatureRows(h)
                split == SplitDamPriceLag24h168hFeatureRowsChronologically(rows, Cutoff)
            IN  rows # Failed /\ split # Failed =>
                  /\ PriceValid(h) /\ Taken(PriceRow168(h), From(T168(h))) # << >>
                  /\ split = [training   |-> Taken(PriceRow168(h), Before(T168(h))),
                              evaluation |-> Taken(PriceRow168(h), From(T168(h)))]
<1>1. /\ T24(h) \subseteq Int /\ IsFiniteSet(T24(h)) /\ T168(h) \subseteq Int /\ IsFiniteSet(T168(h))
  BY StampsFinite DEF T24, T168
<1>2. \A t \in T24(h) : PriceRow24(h)[t].target = t
  BY DEF PriceRow24
<1>3. \A t \in T168(h) : PriceRow168(h)[t].target = t
  BY DEF PriceRow168
<1>4. SplitAt(Taken(PriceRow24(h), T24(h)), Cutoff)
        = [training |-> Taken(PriceRow24(h), Before(T24(h))), evaluation |-> Taken(PriceRow24(h), From(T24(h)))]
  BY <1>1, <1>2, SplitIs
<1>5. SplitAt(Taken(PriceRow168(h), T168(h)), Cutoff)
        = [training |-> Taken(PriceRow168(h), Before(T168(h))), evaluation |-> Taken(PriceRow168(h), From(T168(h)))]
  BY <1>1, <1>3, SplitIs
<1>6. LET rows == BuildDamPriceLag24hFeatureRows(h)
          split == SplitDamPriceFeatureRowsChronologically(rows, Cutoff)
      IN  rows # Failed /\ split # Failed =>
            PriceValid(h) /\ rows = Taken(PriceRow24(h), T24(h)) /\ split = SplitAt(rows, Cutoff)
  BY PriceRows DEF SplitDamPriceFeatureRowsChronologically
<1>7. LET rows == BuildDamPriceLag24h168hFeatureRows(h)
          split == SplitDamPriceLag24h168hFeatureRowsChronologically(rows, Cutoff)
      IN  rows # Failed /\ split # Failed =>
            /\ PriceValid(h) /\ rows = Taken(PriceRow168(h), T168(h)) /\ split = SplitAt(rows, Cutoff)
            /\ split.evaluation # << >>
  BY PriceRows DEF SplitDamPriceLag24h168hFeatureRowsChronologically
<1> QED BY <1>4, <1>5, <1>6, <1>7

\* A sequence has finitely many markets and currencies.
LEMMA SeriesFinite ==
  ASSUME NEW v, IsTuple(v)
  PROVE  IsFiniteSet(Markets(v)) /\ IsFiniteSet(Currencies(v))
<1>1. Len(v) \in Nat /\ DOMAIN v = 1 .. Len(v)
  BY DEF IsTuple
<1> DEFINE f == [i \in 1 .. Len(v) |-> v[i].market]
           g == [i \in 1 .. Len(v) |-> v[i].currency]
<1>2. Markets(v) = {f[i] : i \in 1 .. Len(v)}
  BY <1>1 DEF Markets
<1>3. Currencies(v) = {g[i] : i \in 1 .. Len(v)}
  BY <1>1 DEF Currencies
<1> HIDE DEF f, g
<1>4. IsFiniteSet(Markets(v))
  BY <1>1, <1>2, ImageFinite
<1>5. IsFiniteSet(Currencies(v))
  BY <1>1, <1>3, ImageFinite
<1> QED BY <1>4, <1>5

\* The rows of the earlier observations are the rows before the cutoff.
LEMMA PriceEarlierRows ==
  ASSUME NEW h, IsHistory(h), PriceValid(h), Cutoff \in Int, Lag24h \in Nat, Lag168h \in Nat
  PROVE  /\ BuildDamPriceLag24hFeatureRows(Earlier(h)) = Taken(PriceRow24(h), Before(T24(h)))
         /\ BuildDamPriceLag24h168hFeatureRows(Earlier(h)) = Taken(PriceRow168(h), Before(T168(h)))
<1> DEFINE g == Earlier(h)
<1>1. UniqueTimestamps(h)
  BY DEF PriceValid
<1>2. /\ IsHistory(g) /\ UniqueTimestamps(g)
      /\ \A i \in DOMAIN g : \E j \in DOMAIN h : g[i] = h[j]
      /\ \A t \in StampsOf(g) : ByTimestamp(g)[t] = ByTimestamp(h)[t]
  BY <1>1, EarlierIs
<1>3. T24(g) = Before(T24(h))
  BY <1>1, EarlierIs DEF T24
<1>4. T168(g) = Before(T168(h))
  BY <1>1, EarlierIs DEF T168
<1> HIDE DEF g
<1>5. PriceValid(g)
  <2>1. Markets(g) \subseteq Markets(h) /\ Currencies(g) \subseteq Currencies(h)
    BY <1>2 DEF Markets, Currencies
  <2>2. IsFiniteSet(Markets(h)) /\ IsFiniteSet(Currencies(h))
    BY SeriesFinite DEF IsHistory
  <2> QED BY <1>2, <2>1, <2>2, SingleSubset DEF PriceValid, SingleMarketAndCurrency
<1>6. /\ T24(g) \subseteq Int /\ IsFiniteSet(T24(g)) /\ T168(g) \subseteq Int /\ IsFiniteSet(T168(g))
  BY <1>2, StampsFinite DEF T24, T168
<1>7. ASSUME NEW t \in T24(g) PROVE PriceRow24(g)[t] = PriceRow24(h)[t]
  <2>1. t \in T24(h)
    BY <1>3 DEF Before
  <2>2. t \in StampsOf(g) /\ t - Lag24h \in StampsOf(g)
    BY DEF T24, TargetsOf
  <2> QED BY <1>2, <2>1, <2>2 DEF PriceRow24
<1>8. ASSUME NEW t \in T168(g) PROVE PriceRow168(g)[t] = PriceRow168(h)[t]
  <2>1. t \in T168(h)
    BY <1>4 DEF Before
  <2>2. t \in StampsOf(g) /\ t - Lag24h \in StampsOf(g) /\ t - Lag168h \in StampsOf(g)
    BY DEF T168, TargetsOf
  <2> QED BY <1>2, <2>1, <2>2 DEF PriceRow168
<1>9. Taken(PriceRow24(g), T24(g)) = Taken(PriceRow24(h), T24(g))
  BY <1>6, <1>7, TakenSame
<1>10. Taken(PriceRow168(g), T168(g)) = Taken(PriceRow168(h), T168(g))
  BY <1>6, <1>8, TakenSame
<1> QED BY <1>2, <1>3, <1>4, <1>5, <1>9, <1>10, PriceRows DEF g

\* A session starts with no stage computed.
LEMMA PriceStagedInit == Price!Init => Price!Staged
BY DEF Price!Init, Price!Staged, Price!None

\* A step of the other variables changes no stage.
LEMMA PriceStagedSame ==
  ASSUME Price!Staged, UNCHANGED Price!vars PROVE Price!Staged'
<1>1. \A c, a, b \in Price!Side, fromCutoff \in BOOLEAN :
        Price!Judged(c, a, b, fromCutoff) => Price!Judged(c, a, b, fromCutoff)'
  BY DEF Price!vars, Price!Judged, Price!Cohort, Price!Then
<1>2. \A p \in Price!Side : Price!Answers(p)' = Price!Answers(p)
  BY DEF Price!vars, Price!Answers, Price!Asked, Price!EvaluationTargets, Price!Then
<1> QED BY <1>1, <1>2 DEF Price!vars, Price!Staged, Price!Then

\* Each step computes its own stage and leaves the others alone.
LEMMA PriceStagedNext ==
  ASSUME Price!Staged, Price!Next PROVE Price!Staged'
<1>1. CASE Price!BuildFeatures
  BY <1>1 DEF Price!BuildFeatures, Price!Staged, Price!None
<1>2. CASE Price!Split
  BY <1>2 DEF Price!Split, Price!Staged, Price!None, Price!Then
<1>3. CASE Price!Fit
  BY <1>3 DEF Price!Fit, Price!Staged, Price!None, Price!Then
<1>4. CASE \E f \in Price!Side : Price!Predict(f)
  BY <1>4 DEF Price!Predict, Price!Staged, Price!Then
<1>5. CASE \E c, a, b \in Price!Side, fromCutoff \in BOOLEAN : Price!Compare(c, a, b, fromCutoff)
  <2>1. PICK c \in Price!Side, a \in Price!Side, b \in Price!Side, fromCutoff \in BOOLEAN :
          Price!Compare(c, a, b, fromCutoff)
    BY <1>5
  <2>2. Price!Judged(c, a, b, fromCutoff)'
    BY <2>1 DEF Price!Compare, Price!Judged, Price!Cohort, Price!Then
  <2>3. \E c0, a0, b0 \in Price!Side, cutoff \in BOOLEAN : Price!Judged(c0, a0, b0, cutoff)'
    BY <2>2
  <2> QED BY <2>1, <2>3 DEF Price!Compare, Price!Staged, Price!Then
<1>6. CASE Price!Forecast
  <2>1. \A c, a, b \in Price!Side, fromCutoff \in BOOLEAN :
          Price!Judged(c, a, b, fromCutoff) => Price!Judged(c, a, b, fromCutoff)'
    BY <1>6 DEF Price!Forecast, Price!Judged, Price!Cohort, Price!Then
  <2>2. \A p \in Price!Side : Price!Answers(p)' = Price!Answers(p)
    BY <1>6 DEF Price!Forecast, Price!Answers, Price!Asked, Price!EvaluationTargets, Price!Then
  <2> QED BY <1>6, <2>1, <2>2 DEF Price!Forecast, Price!Staged, Price!Then
<1>7. CASE Price!Done
  BY <1>7, PriceStagedSame DEF Price!Done
<1> QED BY <1>1, <1>2, <1>3, <1>4, <1>5, <1>6, <1>7 DEF Price!Next

\* Both sides of a price session are histories with whole values.
LEMMA PriceSource ==
  ASSUME Price!Staged, NEW p \in 1 .. 2
  PROVE  /\ IsHistory(source[p]) /\ \A i \in DOMAIN source[p] : source[p][i].amount \in Int
         /\ \A i \in DOMAIN source[p] : source[p][i] # Failed
         /\ Failed \notin [owner : Markets(source[p]) \X Currencies(source[p]),
                           history : {source[p]}, targets : Seq(Int)]
BY PricesAssumption DEF Price!Staged, IsHistory

\* What a split of a price session is made of.
LEMMA PriceSplit ==
  ASSUME Price!Staged, NEW p \in 1 .. 2, pc \notin {"features", "split"}
  PROVE  /\ split24[p] # Failed =>
              /\ PriceValid(source[p])
              /\ split24[p] = [training   |-> Taken(PriceRow24(source[p]), Before(T24(source[p]))),
                               evaluation |-> Taken(PriceRow24(source[p]), From(T24(source[p])))]
         /\ split168[p] # Failed =>
              /\ PriceValid(source[p]) /\ Taken(PriceRow168(source[p]), From(T168(source[p]))) # << >>
              /\ split168[p] = [training   |-> Taken(PriceRow168(source[p]), Before(T168(source[p]))),
                                evaluation |-> Taken(PriceRow168(source[p]), From(T168(source[p])))]
<1>1. /\ rows24[p] = BuildDamPriceLag24hFeatureRows(source[p])
      /\ rows168[p] = BuildDamPriceLag24h168hFeatureRows(source[p])
      /\ split24[p] = IF rows24[p] = Failed THEN Failed
                      ELSE SplitDamPriceFeatureRowsChronologically(rows24[p], Cutoff)
      /\ split168[p] = IF rows168[p] = Failed THEN Failed
                       ELSE SplitDamPriceLag24h168hFeatureRowsChronologically(rows168[p], Cutoff)
  BY DEF Price!Staged, Price!Side, Price!Then
<1>2. IsHistory(source[p])
  BY PriceSource
<1> QED BY <1>1, <1>2, PriceSplits

\* A fit of a price session is that of the rows before the cutoff.
LEMMA PriceFit ==
  ASSUME Price!Staged, NEW p \in 1 .. 2
  PROVE  /\ Price!Made(fit24[p]) => pc \notin {"features", "split", "fit"} /\ fit24[p] # Failed
         /\ Price!Made(fit168[p]) => pc \notin {"features", "split", "fit"} /\ fit168[p] # Failed
         /\ pc \notin {"features", "split", "fit"} /\ fit24[p] # Failed =>
              /\ PriceValid(source[p])
              /\ fit24[p] = FitDamPriceLag24hLinearRegression(
                              Taken(PriceRow24(source[p]), Before(T24(source[p]))))
         /\ pc \notin {"features", "split", "fit"} /\ fit168[p] # Failed =>
              /\ PriceValid(source[p])
              /\ fit168[p] = FitDamPriceLag24h168hLinearRegression(
                               Taken(PriceRow168(source[p]), Before(T168(source[p]))))
<1>1. CASE pc \in {"features", "split", "fit"}
  <2>1. fit24[p] = Nothing /\ fit168[p] = Nothing
    BY <1>1 DEF Price!Staged, Price!None, Price!Side
  <2> QED BY <1>1, <2>1 DEF Price!Made
<1>2. CASE pc \notin {"features", "split", "fit"}
  <2>1. /\ fit24[p] = IF split24[p] = Failed THEN Failed
                      ELSE FitDamPriceLag24hLinearRegression(split24[p].training)
        /\ fit168[p] = IF split168[p] = Failed THEN Failed
                       ELSE FitDamPriceLag24h168hLinearRegression(split168[p].training)
    BY <1>2 DEF Price!Staged, Price!Side, Price!Then
  <2> QED BY <1>2, <2>1, PriceSplit DEF Price!Made
<1> QED BY <1>1, <1>2

\* The past of a side is its observations before the cutoff.
LEMMA PricePast ==
  ASSUME NEW p \in 1 .. 2
  PROVE  Price!Past(p) = Earlier(source[p])
BY DEF Price!Past, Earlier, Price!Taken, Taken, Price!InOrder, InOrder, Price!Rank, Rank,
       Price!Cardinality, Cardinality

\* The fits of a price session are those of the observations before the cutoff.
LEMMA PriceIgnoresTheFuture ==
  ASSUME Price!Staged PROVE Price!FitIgnoresTheFuture
<1> SUFFICES ASSUME NEW p \in 1 .. 2
             PROVE  /\ Price!Made(fit24[p]) =>
                         fit24[p] = FitDamPriceLag24hLinearRegression(
                                      BuildDamPriceLag24hFeatureRows(Price!Past(p)))
                    /\ Price!Made(fit168[p]) =>
                         fit168[p] = FitDamPriceLag24h168hLinearRegression(
                                       BuildDamPriceLag24h168hFeatureRows(Price!Past(p)))
  BY DEF Price!FitIgnoresTheFuture, Price!Side
<1>1. IsHistory(source[p])
  BY PriceSource
<1> QED BY <1>1, PriceFit, PricePast, PriceEarlierRows, LagsAssumption

\* The session's instances of the shared operators are those operators.
LEMMA PriceOperators ==
  /\ \A S : Price!InOrder(S) = InOrder(S)
  /\ \A xs : Price!Total(xs) = Total(xs)
  /\ \A fit, x : Price!Predict24(fit, x) = Predict24(fit, x)
  /\ \A fit, x, z : Price!Predict168(fit, x, z) = Predict168(fit, x, z)
<1>1. \A S : Price!InOrder(S) = InOrder(S)
  BY DEF Price!InOrder, InOrder, Price!Rank, Rank, Price!Cardinality, Cardinality
<1>2. \A xs : Price!Total(xs) = Total(xs)
  BY DEF Price!Total, Total, Price!Sums, Sums
<1>3. /\ \A fit, x : Price!Predict24(fit, x) = Predict24(fit, x)
      /\ \A fit, x, z : Price!Predict168(fit, x, z) = Predict168(fit, x, z)
  BY DEF Price!Predict24, Predict24, Price!Predict168, Predict168
<1> QED BY <1>1, <1>2, <1>3

\* The price a reader sees at a timestamp is the one the index finds, and whole.
LEMMA PriceAt ==
  ASSUME Price!Staged, NEW p \in 1 .. 2
  PROVE  /\ Price!Stamps(p) = StampsOf(source[p])
         /\ \A t \in StampsOf(source[p]) : /\ Price!At(p, t) = ByTimestamp(source[p])[t].amount
                                           /\ ByTimestamp(source[p])[t].amount \in Int
<1>1. Price!Stamps(p) = StampsOf(source[p])
  BY DEF Price!Stamps, StampsOf
<1>2. \A t \in StampsOf(source[p]) : Price!At(p, t) = ByTimestamp(source[p])[t].amount
  BY DEF Price!At, ByTimestamp, StampsOf, DamPriceValue
<1>3. \A t \in StampsOf(source[p]) : ByTimestamp(source[p])[t].amount \in Int
  BY PriceSource, ByTimestampFinds
<1> QED BY <1>1, <1>2, <1>3

PriceLags(h, lag, D) == [t \in D |-> ByTimestamp(h)[t - lag].amount]
PriceActuals(h, D)   == [t \in D |-> ByTimestamp(h)[t].amount]

\* The lags and the actuals of rows along targets.
LEMMA PriceColumns24 ==
  ASSUME NEW h, IsHistory(h), NEW T, T \subseteq T24(h)
  PROVE  LET rows == Taken(PriceRow24(h), T)
         IN  /\ Lag24Of(rows) = Taken(PriceLags(h, Lag24h, T24(h)), T)
             /\ ActualOf(rows) = Taken(PriceActuals(h, T24(h)), T)
<1> DEFINE s == InOrder(T)
           b == ByTimestamp(h)
<1>1. T \subseteq Int /\ IsFiniteSet(T)
  BY StampsFinite, FS_Subset DEF T24
<1>2. \A k \in DOMAIN s : s[k] \in T24(h)
  BY <1>1, TakenIs
<1> HIDE DEF s, b
<1>3. Taken(PriceRow24(h), T) = [k \in DOMAIN s |-> PriceRow24(h)[s[k]]]
  BY DEF Taken, s
<1>4. \A k \in DOMAIN s : /\ PriceRow24(h)[s[k]].lag24 = b[s[k] - Lag24h].amount
                          /\ PriceRow24(h)[s[k]].actual = b[s[k]].amount
  BY <1>2 DEF PriceRow24, b
<1> QED BY <1>2, <1>3, <1>4 DEF Taken, s, b, Lag24Of, Lag168Of, ActualOf, PriceLags, PriceActuals

\* The same for the rows of both lags.
LEMMA PriceColumns168 ==
  ASSUME NEW h, IsHistory(h), NEW T, T \subseteq T168(h)
  PROVE  LET rows == Taken(PriceRow168(h), T)
         IN  /\ Lag24Of(rows) = Taken(PriceLags(h, Lag24h, T168(h)), T)
             /\ Lag168Of(rows) = Taken(PriceLags(h, Lag168h, T168(h)), T)
             /\ ActualOf(rows) = Taken(PriceActuals(h, T168(h)), T)
<1> DEFINE s == InOrder(T)
           b == ByTimestamp(h)
<1>1. T \subseteq Int /\ IsFiniteSet(T)
  BY StampsFinite, FS_Subset DEF T168
<1>2. \A k \in DOMAIN s : s[k] \in T168(h)
  BY <1>1, TakenIs
<1> HIDE DEF s, b
<1>3. Taken(PriceRow168(h), T) = [k \in DOMAIN s |-> PriceRow168(h)[s[k]]]
  BY DEF Taken, s
<1>4. \A k \in DOMAIN s : /\ PriceRow168(h)[s[k]].lag24 = b[s[k] - Lag24h].amount
                          /\ PriceRow168(h)[s[k]].lag168 = b[s[k] - Lag168h].amount
                          /\ PriceRow168(h)[s[k]].actual = b[s[k]].amount
  BY <1>2 DEF PriceRow168, b
<1> QED BY <1>2, <1>3, <1>4 DEF Taken, s, b, Lag24Of, Lag168Of, ActualOf, PriceLags, PriceActuals

\* The normal equations of the fit of one lag, summed over the training targets.
LEMMA PriceLeastSquares24 ==
  ASSUME Price!Staged, NEW p \in 1 .. 2, pc \notin {"features", "split", "fit"}, fit24[p] # Failed
  PROVE  LET T == {t \in Price!Stamps(p) : t < Cutoff /\ t - Lag24h \in Price!Stamps(p)}
             r(t) == Price!Predict24(fit24[p], Price!At(p, t - Lag24h)) - Price!At(p, t) * fit24[p].over
         IN  /\ fit24[p].slope \in Int /\ fit24[p].intercept \in Int /\ fit24[p].over \in Int
             /\ Price!SumOver(T, r) = 0
             /\ Price!SumOver(T, LAMBDA t : r(t) * Price!At(p, t - Lag24h)) = 0
<1> DEFINE h == source[p]
           T == Before(T24(h))
           X == PriceLags(h, Lag24h, T24(h))
           Y == PriceActuals(h, T24(h))
           s == InOrder(T)
           fit == fit24[p]
           r(t) == Price!Predict24(fit, Price!At(p, t - Lag24h)) - Price!At(p, t) * fit.over
<1>1. IsHistory(h)
  BY PriceSource
<1>2. {t \in Price!Stamps(p) : t < Cutoff /\ t - Lag24h \in Price!Stamps(p)} = T
  BY PriceAt DEF Before, T24, TargetsOf
<1>3. T \subseteq Int /\ IsFiniteSet(T)
  BY <1>1, StampsFinite DEF T24
<1>4. T \subseteq T24(h)
  BY DEF Before
<1>5. \A t \in T : /\ X[t] \in Int /\ Y[t] \in Int
                   /\ Price!At(p, t - Lag24h) = X[t] /\ Price!At(p, t) = Y[t]
  BY PriceAt, <1>4 DEF T24, TargetsOf, PriceLags, PriceActuals
<1>6. fit = FitOneLag(Taken(X, T), Taken(Y, T)) /\ fit # Failed
  <2>1. fit # Failed /\ fit = FitDamPriceLag24hLinearRegression(Taken(PriceRow24(h), T))
    BY PriceFit
  <2>2. LET rows == Taken(PriceRow24(h), T)
        IN  /\ Lag24Of(rows) = Taken(X, T)
            /\ ActualOf(rows) = Taken(Y, T)
    BY <1>1, <1>4, PriceColumns24
  <2> QED BY <2>1, <2>2 DEF FitDamPriceLag24hLinearRegression, Lag24Of, ActualOf
<1>7. \A k \in DOMAIN s : s[k] \in T
  BY <1>3, TakenIs
<1>8. /\ fit.slope \in Int /\ fit.intercept \in Int /\ fit.over \in Int
      /\ Total(LineResiduals(fit, X, Y, T)) = 0 /\ Total(LineMoments(fit, X, Y, T)) = 0
  <2>1. \A t \in T : X[t] \in Int /\ Y[t] \in Int
    BY <1>5
  <2> HIDE DEF X, Y, T, fit
  <2> QED BY <1>3, <2>1, <1>6, LineAlong
<1> HIDE DEF h, T, X, Y, s, fit
<1>9. \A k \in DOMAIN s : r(s[k]) = Predict24(fit, X[s[k]]) - Y[s[k]] * fit.over
  BY <1>5, <1>7, PriceOperators
<1>10. Price!InOrder(T) = s
  BY PriceOperators DEF s
<1>11. Price!SumOver(T, r) = 0
  <2>1. [k \in DOMAIN s |-> r(s[k])] = LineResiduals(fit, X, Y, T)
    BY <1>9 DEF LineResiduals, s
  <2>2. Price!SumOver(T, r) = Price!Total([k \in DOMAIN s |-> r(s[k])])
    BY <1>10 DEF Price!SumOver
  <2> QED BY <1>8, <2>1, <2>2, PriceOperators
<1>12. Price!SumOver(T, LAMBDA t : r(t) * Price!At(p, t - Lag24h)) = 0
  <2>1. [k \in DOMAIN s |-> r(s[k]) * Price!At(p, s[k] - Lag24h)] = LineMoments(fit, X, Y, T)
    BY <1>5, <1>7, <1>9 DEF LineMoments, s
  <2>2. Price!SumOver(T, LAMBDA t : r(t) * Price!At(p, t - Lag24h))
          = Price!Total([k \in DOMAIN s |-> r(s[k]) * Price!At(p, s[k] - Lag24h)])
    BY <1>10 DEF Price!SumOver
  <2> QED BY <1>8, <2>1, <2>2, PriceOperators
<1> QED BY <1>2, <1>8, <1>11, <1>12 DEF fit

\* The three normal equations of the fit of both lags.
LEMMA PriceLeastSquares168 ==
  ASSUME Price!Staged, NEW p \in 1 .. 2, pc \notin {"features", "split", "fit"}, fit168[p] # Failed
  PROVE  LET T == {t \in Price!Stamps(p) : t < Cutoff /\ {t - Lag24h, t - Lag168h} \subseteq Price!Stamps(p)}
             r(t) == Price!Predict168(fit168[p], Price!At(p, t - Lag24h), Price!At(p, t - Lag168h))
                       - Price!At(p, t) * fit168[p].over
         IN  /\ fit168[p].lag24 \in Int /\ fit168[p].lag168 \in Int
             /\ fit168[p].intercept \in Int /\ fit168[p].over \in Int
             /\ Price!SumOver(T, r) = 0
             /\ Price!SumOver(T, LAMBDA t : r(t) * Price!At(p, t - Lag24h)) = 0
             /\ Price!SumOver(T, LAMBDA t : r(t) * Price!At(p, t - Lag168h)) = 0
<1> DEFINE h == source[p]
           T == Before(T168(h))
           X == PriceLags(h, Lag24h, T168(h))
           Z == PriceLags(h, Lag168h, T168(h))
           Y == PriceActuals(h, T168(h))
           s == InOrder(T)
           fit == fit168[p]
           r(t) == Price!Predict168(fit, Price!At(p, t - Lag24h), Price!At(p, t - Lag168h))
                     - Price!At(p, t) * fit.over
<1>1. IsHistory(h)
  BY PriceSource
<1>2. {t \in Price!Stamps(p) : t < Cutoff /\ {t - Lag24h, t - Lag168h} \subseteq Price!Stamps(p)} = T
  BY PriceAt DEF Before, T168, TargetsOf
<1>3. T \subseteq Int /\ IsFiniteSet(T)
  BY <1>1, StampsFinite DEF T168
<1>4. T \subseteq T168(h)
  BY DEF Before
<1>5. \A t \in T : /\ X[t] \in Int /\ Z[t] \in Int /\ Y[t] \in Int
                   /\ Price!At(p, t - Lag24h) = X[t] /\ Price!At(p, t - Lag168h) = Z[t]
                   /\ Price!At(p, t) = Y[t]
  BY PriceAt, <1>4 DEF T168, TargetsOf, PriceLags, PriceActuals
<1>6. fit = FitTwoLags(Taken(X, T), Taken(Z, T), Taken(Y, T)) /\ fit # Failed
  <2>1. fit # Failed /\ fit = FitDamPriceLag24h168hLinearRegression(Taken(PriceRow168(h), T))
    BY PriceFit
  <2>2. LET rows == Taken(PriceRow168(h), T)
        IN  /\ Lag24Of(rows) = Taken(X, T)
            /\ Lag168Of(rows) = Taken(Z, T)
            /\ ActualOf(rows) = Taken(Y, T)
    BY <1>1, <1>4, PriceColumns168
  <2> QED BY <2>1, <2>2 DEF FitDamPriceLag24h168hLinearRegression, Lag24Of, Lag168Of, ActualOf
<1>7. \A k \in DOMAIN s : s[k] \in T
  BY <1>3, TakenIs
<1>8. /\ fit.lag24 \in Int /\ fit.lag168 \in Int /\ fit.intercept \in Int /\ fit.over \in Int
      /\ Total(PlaneResiduals(fit, X, Z, Y, T)) = 0
      /\ Total(PlaneMoments(fit, X, Z, Y, X, T)) = 0 /\ Total(PlaneMoments(fit, X, Z, Y, Z, T)) = 0
  <2>1. \A t \in T : X[t] \in Int /\ Z[t] \in Int /\ Y[t] \in Int
    BY <1>5
  <2> HIDE DEF X, Y, Z, T, fit
  <2> QED BY <1>3, <2>1, <1>6, PlaneAlong
<1> HIDE DEF h, T, X, Y, Z, s, fit
<1>9. \A k \in DOMAIN s : r(s[k]) = Predict168(fit, X[s[k]], Z[s[k]]) - Y[s[k]] * fit.over
  BY <1>5, <1>7, PriceOperators
<1>10. Price!InOrder(T) = s
  BY PriceOperators DEF s
<1>11. Price!SumOver(T, r) = 0
  <2>1. [k \in DOMAIN s |-> r(s[k])] = PlaneResiduals(fit, X, Z, Y, T)
    BY <1>9 DEF PlaneResiduals, s
  <2>2. Price!SumOver(T, r) = Price!Total([k \in DOMAIN s |-> r(s[k])])
    BY <1>10 DEF Price!SumOver
  <2> QED BY <1>8, <2>1, <2>2, PriceOperators
<1>12. Price!SumOver(T, LAMBDA t : r(t) * Price!At(p, t - Lag24h)) = 0
  <2>1. [k \in DOMAIN s |-> r(s[k]) * Price!At(p, s[k] - Lag24h)] = PlaneMoments(fit, X, Z, Y, X, T)
    BY <1>5, <1>7, <1>9 DEF PlaneMoments, s
  <2>2. Price!SumOver(T, LAMBDA t : r(t) * Price!At(p, t - Lag24h))
          = Price!Total([k \in DOMAIN s |-> r(s[k]) * Price!At(p, s[k] - Lag24h)])
    BY <1>10 DEF Price!SumOver
  <2> QED BY <1>8, <2>1, <2>2, PriceOperators
<1>13. Price!SumOver(T, LAMBDA t : r(t) * Price!At(p, t - Lag168h)) = 0
  <2>1. [k \in DOMAIN s |-> r(s[k]) * Price!At(p, s[k] - Lag168h)] = PlaneMoments(fit, X, Z, Y, Z, T)
    BY <1>5, <1>7, <1>9 DEF PlaneMoments, s
  <2>2. Price!SumOver(T, LAMBDA t : r(t) * Price!At(p, t - Lag168h))
          = Price!Total([k \in DOMAIN s |-> r(s[k]) * Price!At(p, s[k] - Lag168h)])
    BY <1>10 DEF Price!SumOver
  <2> QED BY <1>8, <2>1, <2>2, PriceOperators
<1> QED BY <1>2, <1>8, <1>11, <1>12, <1>13 DEF fit

\* The fits of a price session solve the normal equations of their history.
LEMMA PriceIsLeastSquares ==
  ASSUME Price!Staged PROVE Price!FitIsLeastSquares
BY PriceFit, PriceLeastSquares24, PriceLeastSquares168 DEF Price!FitIsLeastSquares, Price!Side

\* The prediction a fit makes at each target.
PricePrediction24(fit, h) ==
  [t \in T24(h) |->
     [market |-> ByTimestamp(h)[t].market, currency |-> ByTimestamp(h)[t].currency, target |-> t, over |-> fit.over,
      predicted |-> Predict24(fit, ByTimestamp(h)[t - Lag24h].amount),
      actual |-> ByTimestamp(h)[t].amount]]

PricePrediction168(fit, h) ==
  [t \in T168(h) |->
     [market |-> ByTimestamp(h)[t].market, currency |-> ByTimestamp(h)[t].currency, target |-> t, over |-> fit.over,
      predicted |-> Predict168(fit, ByTimestamp(h)[t - Lag24h].amount, ByTimestamp(h)[t - Lag168h].amount),
      actual |-> ByTimestamp(h)[t].amount]]

\* The backtest's predictions on one lag are those at the evaluation targets.
LEMMA PricePredictions24 ==
  ASSUME NEW h, IsHistory(h), NEW A, A \subseteq T24(h), NEW fit, NEW v,
         v = PredictDamPriceLag24hLinearRegression(fit, Taken(PriceRow24(h), A)), v # Failed
  PROVE  v = Taken(PricePrediction24(fit, h), A)
<1> DEFINE s == InOrder(A)
           R == Taken(PriceRow24(h), A)
           b == ByTimestamp(h)
<1>1. A \subseteq Int /\ IsFiniteSet(A)
  BY StampsFinite, FS_Subset DEF T24
<1>2. \A k \in DOMAIN s : s[k] \in T24(h)
  BY <1>1, TakenIs
<1>3. R = [k \in DOMAIN s |-> PriceRow24(h)[s[k]]]
  BY DEF Taken
<1>4. v = [i \in DOMAIN R |->
             [market |-> R[i].market, currency |-> R[i].currency, target |-> R[i].target, over |-> fit.over,
              predicted |-> Predict24(fit, R[i].lag24), actual |-> R[i].actual]]
  BY DEF PredictDamPriceLag24hLinearRegression
<1> HIDE DEF s, R, b
<1>5. \A k \in DOMAIN s : /\ R[k].market = b[s[k]].market /\ R[k].currency = b[s[k]].currency /\ R[k].target = s[k]
                          /\ R[k].lag24 = b[s[k] - Lag24h].amount /\ R[k].actual = b[s[k]].amount
  BY <1>2, <1>3 DEF PriceRow24, b
<1>6. \A k \in DOMAIN s : PricePrediction24(fit, h)[s[k]]
        = [market |-> R[k].market, currency |-> R[k].currency, target |-> R[k].target, over |-> fit.over,
           predicted |-> Predict24(fit, R[k].lag24), actual |-> R[k].actual]
  <2> TAKE k \in DOMAIN s
  <2>1. PricePrediction24(fit, h)[s[k]]
          = [market |-> b[s[k]].market, currency |-> b[s[k]].currency, target |-> s[k], over |-> fit.over,
             predicted |-> Predict24(fit, b[s[k] - Lag24h].amount), actual |-> b[s[k]].amount]
    BY <1>2 DEF PricePrediction24, b
  <2>2. /\ R[k].market = b[s[k]].market /\ R[k].currency = b[s[k]].currency /\ R[k].target = s[k]
        /\ R[k].lag24 = b[s[k] - Lag24h].amount /\ R[k].actual = b[s[k]].amount
    BY <1>5
  <2> QED BY <2>1, <2>2
<1>7. DOMAIN R = DOMAIN s
  BY <1>3
<1> QED BY <1>4, <1>6, <1>7 DEF Taken, s

\* The backtest's predictions on both lags are those at the evaluation targets.
LEMMA PricePredictions168 ==
  ASSUME NEW h, IsHistory(h), NEW A, A \subseteq T168(h), NEW fit, NEW v,
         v = PredictDamPriceLag24h168hLinearRegression(fit, Taken(PriceRow168(h), A)), v # Failed
  PROVE  v = Taken(PricePrediction168(fit, h), A)
<1> DEFINE s == InOrder(A)
           R == Taken(PriceRow168(h), A)
           b == ByTimestamp(h)
<1>1. A \subseteq Int /\ IsFiniteSet(A)
  BY StampsFinite, FS_Subset DEF T168
<1>2. \A k \in DOMAIN s : s[k] \in T168(h)
  BY <1>1, TakenIs
<1>3. R = [k \in DOMAIN s |-> PriceRow168(h)[s[k]]]
  BY DEF Taken
<1>4. v = [i \in DOMAIN R |->
             [market |-> R[i].market, currency |-> R[i].currency, target |-> R[i].target, over |-> fit.over,
              predicted |-> Predict168(fit, R[i].lag24, R[i].lag168), actual |-> R[i].actual]]
  BY DEF PredictDamPriceLag24h168hLinearRegression
<1> HIDE DEF s, R, b
<1>5. \A k \in DOMAIN s : /\ R[k].market = b[s[k]].market /\ R[k].currency = b[s[k]].currency /\ R[k].target = s[k]
                          /\ R[k].lag24 = b[s[k] - Lag24h].amount
                          /\ R[k].lag168 = b[s[k] - Lag168h].amount /\ R[k].actual = b[s[k]].amount
  BY <1>2, <1>3 DEF PriceRow168, b
<1>6. \A k \in DOMAIN s : PricePrediction168(fit, h)[s[k]]
        = [market |-> R[k].market, currency |-> R[k].currency, target |-> R[k].target, over |-> fit.over,
           predicted |-> Predict168(fit, R[k].lag24, R[k].lag168), actual |-> R[k].actual]
  <2> TAKE k \in DOMAIN s
  <2>1. PricePrediction168(fit, h)[s[k]]
          = [market |-> b[s[k]].market, currency |-> b[s[k]].currency, target |-> s[k], over |-> fit.over,
             predicted |-> Predict168(fit, b[s[k] - Lag24h].amount, b[s[k] - Lag168h].amount),
             actual |-> b[s[k]].amount]
    BY <1>2 DEF PricePrediction168, b
  <2>2. /\ R[k].market = b[s[k]].market /\ R[k].currency = b[s[k]].currency /\ R[k].target = s[k]
        /\ R[k].lag24 = b[s[k] - Lag24h].amount /\ R[k].lag168 = b[s[k] - Lag168h].amount
        /\ R[k].actual = b[s[k]].amount
    BY <1>5
  <2> QED BY <2>1, <2>2
<1>7. DOMAIN R = DOMAIN s
  BY <1>3
<1> QED BY <1>4, <1>6, <1>7 DEF Taken, s

\* The cases compared are cases of targets of their history.
LEMMA PriceCohort ==
  ASSUME Price!Staged, NEW c \in 1 .. 2, NEW fromCutoff \in BOOLEAN, pc # "features",
         Price!Cohort(c, fromCutoff) # Failed
  PROVE  /\ PriceValid(source[c])
         /\ \E A : A \subseteq T24(source[c]) /\ Price!Cohort(c, fromCutoff) = Taken(PriceCase(source[c]), A)
<1> DEFINE h == source[c]
           all == Taken(PriceCase(h), T24(h))
<1>1. IsHistory(h)
  BY PriceSource
<1>2. cases[c] = BuildDamPricePersistenceBacktestCases(h)
  BY DEF Price!Staged, Price!Side
<1>3. cases[c] # Failed
  BY DEF Price!Cohort, Price!Then
<1>4. PriceValid(h) /\ cases[c] = all
  BY <1>1, <1>2, <1>3, PriceRows
<1>5. T24(h) \subseteq Int /\ IsFiniteSet(T24(h))
  BY <1>1, StampsFinite DEF T24
<1>6. Taken(all, {i \in DOMAIN all : all[i].target >= Cutoff}) = Taken(PriceCase(h), From(T24(h)))
  <2>1. \A t \in T24(h) : PriceCase(h)[t].target = t
    BY DEF PriceCase
  <2>2. SplitAt(all, Cutoff).evaluation = Taken(PriceCase(h), From(T24(h)))
    BY <1>5, <2>1, SplitIs
  <2> HIDE DEF all
  <2> QED BY <2>2 DEF SplitAt
<1>7. Price!Cohort(c, fromCutoff)
        = IF fromCutoff THEN Taken(all, {i \in DOMAIN all : all[i].target >= Cutoff}) ELSE all
  <2>1. \A u, I : Price!Taken(u, I) = Taken(u, I)
    BY PriceOperators DEF Price!Taken, Taken
  <2> HIDE DEF all
  <2> QED BY <1>3, <1>4, <2>1 DEF Price!Cohort, Price!Then
<1>8. From(T24(h)) \subseteq T24(h)
  BY DEF From
<1> QED BY <1>4, <1>6, <1>7, <1>8

\* The predictions compared are predictions of targets of their history.
LEMMA PricePredicted ==
  ASSUME Price!Staged, NEW a \in 1 .. 2, pc \in {"compare", "forecast", "done"}
  PROVE  /\ pred24[a] # Failed =>
              /\ PriceValid(source[a]) /\ trainedOn \in 1 .. 2 /\ fit24[trainedOn] # Failed
              /\ pred24[a] = Taken(PricePrediction24(fit24[trainedOn], source[a]), From(T24(source[a])))
         /\ pred168[a] # Failed =>
              /\ PriceValid(source[a]) /\ trainedOn \in 1 .. 2 /\ fit168[trainedOn] # Failed
              /\ split168[a] # Failed
              /\ pred168[a] = Taken(PricePrediction168(fit168[trainedOn], source[a]), From(T168(source[a])))
<1> DEFINE h == source[a]
<1>1. IsHistory(h)
  BY PriceSource
<1>2. /\ trainedOn \in 1 .. 2
      /\ pred24[a] = IF fit24[trainedOn] = Failed \/ split24[a] = Failed THEN Failed
                     ELSE PredictDamPriceLag24hLinearRegression(fit24[trainedOn], split24[a].evaluation)
      /\ pred168[a] = IF fit168[trainedOn] = Failed \/ split168[a] = Failed THEN Failed
                      ELSE PredictDamPriceLag24h168hLinearRegression(fit168[trainedOn], split168[a].evaluation)
  BY DEF Price!Staged, Price!Side, Price!Then
<1>3. From(T24(h)) \subseteq T24(h) /\ From(T168(h)) \subseteq T168(h)
  BY DEF From
<1>4. ASSUME pred24[a] # Failed
      PROVE  PriceValid(h) /\ pred24[a] = Taken(PricePrediction24(fit24[trainedOn], h), From(T24(h)))
  <2>1. PriceValid(h) /\ split24[a].evaluation = Taken(PriceRow24(h), From(T24(h)))
    BY <1>2, <1>4, PriceSplit
  <2>2. pred24[a] = PredictDamPriceLag24hLinearRegression(fit24[trainedOn], Taken(PriceRow24(h), From(T24(h))))
    BY <1>2, <1>4, <2>1
  <2> QED BY <1>1, <1>3, <1>4, <2>1, <2>2, PricePredictions24
<1>5. ASSUME pred168[a] # Failed
      PROVE  PriceValid(h) /\ pred168[a] = Taken(PricePrediction168(fit168[trainedOn], h), From(T168(h)))
  <2>1. PriceValid(h) /\ split168[a].evaluation = Taken(PriceRow168(h), From(T168(h)))
    BY <1>2, <1>5, PriceSplit
  <2>2. pred168[a] = PredictDamPriceLag24h168hLinearRegression(fit168[trainedOn], Taken(PriceRow168(h), From(T168(h))))
    BY <1>2, <1>5, <2>1
  <2> QED BY <1>1, <1>3, <1>5, <2>1, <2>2, PricePredictions168
<1> QED BY <1>2, <1>4, <1>5

\* Rows of one shared market, one of each history at some instant: both histories are
\* of that market.
LEMMA PriceMarkets ==
  ASSUME NEW h, IsHistory(h), Single(Markets(h)), NEW g, IsHistory(g), Single(Markets(g)),
         NEW A, A \subseteq StampsOf(h), A \subseteq StampsOf(g), A # {},
         NEW f1, \A t \in A : f1[t].market = ByTimestamp(h)[t].market,
         NEW f2, \A t \in A : f2[t].market = ByTimestamp(g)[t].market,
         NEW C, Single(C), IsFiniteSet(C),
         Markets(Taken(f1, A)) \subseteq C, Markets(Taken(f2, A)) \subseteq C
  PROVE  Markets(h) = Markets(g) /\ Cardinality(Markets(h)) = 1
<1>1. A \subseteq Int /\ IsFiniteSet(A)
  BY StampsFinite, FS_Subset
<1>i. Instants(A)
  BY <1>1 DEF Instants
<1>2. PICK t \in A : TRUE
  OBVIOUS
<1>3. \A u \in A : \E i \in DOMAIN Taken(f1, A) : Taken(f1, A)[i] = f1[u]
  BY <1>i, TakenEach
<1>4. \A u \in A : \E i \in DOMAIN Taken(f2, A) : Taken(f2, A)[i] = f2[u]
  BY <1>i, TakenEach
<1> DEFINE m == ByTimestamp(h)[t].market
           n == ByTimestamp(g)[t].market
<1>5. m \in C /\ n \in C
  <2>1. f1[t].market \in Markets(Taken(f1, A))
    BY <1>2, <1>3 DEF Markets
  <2>2. f2[t].market \in Markets(Taken(f2, A))
    BY <1>2, <1>4 DEF Markets
  <2> QED BY <2>1, <2>2
<1>6. m = n
  BY <1>5, SingleIs
<1>7. m \in Markets(h)
  BY <1>2, ByTimestampFinds DEF Markets
<1>8. n \in Markets(g)
  BY <1>2, ByTimestampFinds DEF Markets
<1>9. IsFiniteSet(Markets(h)) /\ IsFiniteSet(Markets(g))
  BY SeriesFinite DEF IsHistory
<1>10. Markets(h) = {m} /\ Cardinality(Markets(h)) = 1
  BY <1>7, <1>9, SingleIs
<1>11. Markets(g) = {n}
  BY <1>8, <1>9, SingleIs
<1> QED BY <1>6, <1>10, <1>11

\* Rows of one shared currency, one of each history at some instant: both histories are
\* of that currency.
LEMMA PriceCurrencies ==
  ASSUME NEW h, IsHistory(h), Single(Currencies(h)), NEW g, IsHistory(g), Single(Currencies(g)),
         NEW A, A \subseteq StampsOf(h), A \subseteq StampsOf(g), A # {},
         NEW f1, \A t \in A : f1[t].currency = ByTimestamp(h)[t].currency,
         NEW f2, \A t \in A : f2[t].currency = ByTimestamp(g)[t].currency,
         NEW C, Single(C), IsFiniteSet(C),
         Currencies(Taken(f1, A)) \subseteq C, Currencies(Taken(f2, A)) \subseteq C
  PROVE  Currencies(h) = Currencies(g) /\ Cardinality(Currencies(h)) = 1
<1>1. A \subseteq Int /\ IsFiniteSet(A)
  BY StampsFinite, FS_Subset
<1>i. Instants(A)
  BY <1>1 DEF Instants
<1>2. PICK t \in A : TRUE
  OBVIOUS
<1>3. \A u \in A : \E i \in DOMAIN Taken(f1, A) : Taken(f1, A)[i] = f1[u]
  BY <1>i, TakenEach
<1>4. \A u \in A : \E i \in DOMAIN Taken(f2, A) : Taken(f2, A)[i] = f2[u]
  BY <1>i, TakenEach
<1> DEFINE m == ByTimestamp(h)[t].currency
           n == ByTimestamp(g)[t].currency
<1>5. m \in C /\ n \in C
  <2>1. f1[t].currency \in Currencies(Taken(f1, A))
    BY <1>2, <1>3 DEF Currencies
  <2>2. f2[t].currency \in Currencies(Taken(f2, A))
    BY <1>2, <1>4 DEF Currencies
  <2> QED BY <2>1, <2>2
<1>6. m = n
  BY <1>5, SingleIs
<1>7. m \in Currencies(h)
  BY <1>2, ByTimestampFinds DEF Currencies
<1>8. n \in Currencies(g)
  BY <1>2, ByTimestampFinds DEF Currencies
<1>9. IsFiniteSet(Currencies(h)) /\ IsFiniteSet(Currencies(g))
  BY SeriesFinite DEF IsHistory
<1>10. Currencies(h) = {m} /\ Cardinality(Currencies(h)) = 1
  BY <1>7, <1>9, SingleIs
<1>11. Currencies(g) = {n}
  BY <1>8, <1>9, SingleIs
<1> QED BY <1>6, <1>10, <1>11

\* The errors the session recomputes from the observations are those the code sums.
LEMMA PricePersistenceError ==
  ASSUME Price!Staged, NEW c \in 1 .. 2, NEW A, A \subseteq T24(source[c]), A # {},
         SingleMarketAndCurrency(Taken(PriceCase(source[c]), A)),
         CoherentCurrency(Taken(PriceCase(source[c]), A))
  PROVE  EvaluateDamPricePersistenceMae(Taken(PriceCase(source[c]), A)) = Price!PersistenceError(c, A)
<1> DEFINE h == source[c]
           f == PriceCase(h)
           b == ByTimestamp(h)
           s == InOrder(A)
           v == Taken(f, A)
<1>1. A \subseteq Int /\ IsFiniteSet(A) /\ IsHistory(h)
  BY PriceSource, StampsFinite, FS_Subset DEF T24
<1>2. ASSUME NEW t \in A
      PROVE  /\ f[t].target = t /\ f[t].predicted = b[t - Lag24h].amount /\ f[t].actual = b[t].amount
             /\ b[t - Lag24h].amount \in Int /\ b[t].amount \in Int
             /\ Price!At(c, t - Lag24h) = b[t - Lag24h].amount /\ Price!At(c, t) = b[t].amount
  <2>1. t \in T24(h) /\ t \in StampsOf(h) /\ t - Lag24h \in StampsOf(h)
    BY DEF T24, TargetsOf
  <2>2. f[t].target = t /\ f[t].predicted = b[t - Lag24h].amount /\ f[t].actual = b[t].amount
    BY <2>1 DEF PriceCase
  <2> HIDE DEF f
  <2> QED BY <2>1, <2>2, PriceAt
<1>3. \A k \in DOMAIN s : s[k] \in A
  BY <1>1, TakenIs
<1> HIDE DEF f, s
<1>4. v # << >> /\ StrictChronology(v)
  BY <1>1, <1>2, TargetsAlong, TakenIsChronological DEF Dated
<1>5. MeanAbsoluteError(PredictedOf(v), 1, ActualOf(v))
        = [total |-> Total(AbsoluteErrors(f, 1, A)), over |-> 1 * Cardinality(A)]
  <2>1. \A t \in A : f[t].predicted \in Int /\ f[t].actual \in Int
    BY <1>2
  <2> QED BY ONLY <1>1, <2>1, 1 \in Int, ErrorAlong
<1>6. EvaluateDamPricePersistenceMae(v) = MeanAbsoluteError(PredictedOf(v), 1, ActualOf(v))
  <2>1. SingleMarketAndCurrency(v) /\ CoherentCurrency(v)
    BY DEF v, f
  <2> HIDE DEF v
  <2> QED BY <1>4, <2>1 DEF EvaluateDamPricePersistenceMae, PredictedOf, ActualOf
<1>7. \A k \in DOMAIN s : Price!Abs(Price!At(c, s[k] - Lag24h) - Price!At(c, s[k]))
        = LET e == f[s[k]].predicted - f[s[k]].actual * 1 IN IF e < 0 THEN -e ELSE e
  <2> TAKE k \in DOMAIN s
  <2> DEFINE x == b[s[k] - Lag24h].amount
             y == b[s[k]].amount
  <2>1. /\ f[s[k]].predicted = x /\ f[s[k]].actual = y /\ x \in Int /\ y \in Int
        /\ Price!At(c, s[k] - Lag24h) = x /\ Price!At(c, s[k]) = y
    BY <1>2, <1>3
  <2> HIDE DEF x, y
  <2>2. y * 1 = y
    BY ONLY <2>1
  <2> QED BY <2>1, <2>2 DEF Price!Abs
<1>8. [k \in DOMAIN s |-> Price!Abs(Price!At(c, s[k] - Lag24h) - Price!At(c, s[k]))] = AbsoluteErrors(f, 1, A)
  BY <1>7 DEF AbsoluteErrors, s
<1>9. Price!SumOver(A, LAMBDA t : Price!Abs(Price!At(c, t - Lag24h) - Price!At(c, t)))
        = Total(AbsoluteErrors(f, 1, A))
  <2>1. Price!InOrder(A) = s
    BY PriceOperators DEF s
  <2>2. Price!SumOver(A, LAMBDA t : Price!Abs(Price!At(c, t - Lag24h) - Price!At(c, t)))
          = Price!Total([k \in DOMAIN s |-> Price!Abs(Price!At(c, s[k] - Lag24h) - Price!At(c, s[k]))])
    BY <2>1 DEF Price!SumOver
  <2> QED BY <1>8, <2>2, PriceOperators
<1>10. 1 * Cardinality(A) = Price!Cardinality(A)
  <2>1. Cardinality(A) \in Nat
    BY <1>1, FS_CardinalityType
  <2>2. Price!Cardinality(A) = Cardinality(A)
    BY DEF Price!Cardinality, Cardinality
  <2> QED BY <2>1, <2>2
<1> QED BY <1>5, <1>6, <1>9, <1>10 DEF Price!PersistenceError, f

\* The mean absolute error of the fit of one lag is the one recomputed.
LEMMA PriceError24 ==
  ASSUME Price!Staged, NEW a \in 1 .. 2, pc \in {"compare", "forecast", "done"},
         trainedOn \in 1 .. 2, fit24[trainedOn] # Failed,
         NEW A, A \subseteq T24(source[a]), A # {},
         SingleMarketAndCurrency(Taken(PricePrediction24(fit24[trainedOn], source[a]), A))
  PROVE  EvaluateDamPriceLag24hLinearRegressionMae(
           Taken(PricePrediction24(fit24[trainedOn], source[a]), A)) = Price!Error24(a, A)
<1> DEFINE h == source[a]
           fit == fit24[trainedOn]
           f == PricePrediction24(fit, h)
           b == ByTimestamp(h)
           s == InOrder(A)
           v == Taken(f, A)
<1>1. A \subseteq Int /\ IsFiniteSet(A) /\ IsHistory(h)
  BY PriceSource, StampsFinite, FS_Subset DEF T24
<1>f. fit.slope \in Int /\ fit.intercept \in Int /\ fit.over \in Int
  BY PriceLeastSquares24
<1> HIDE DEF fit
<1>2. ASSUME NEW t \in A
      PROVE  /\ f[t].target = t /\ f[t].over = fit.over
             /\ f[t].actual = Price!At(a, t) /\ f[t].actual \in Int
             /\ f[t].predicted = Price!Predict24(fit, Price!At(a, t - Lag24h)) /\ f[t].predicted \in Int
  <2>1. t \in T24(h) /\ t \in StampsOf(h) /\ t - Lag24h \in StampsOf(h)
    BY DEF T24, TargetsOf
  <2>2. /\ f[t].target = t /\ f[t].over = fit.over /\ f[t].actual = b[t].amount
        /\ f[t].predicted = Predict24(fit, b[t - Lag24h].amount)
    BY <2>1 DEF PricePrediction24
  <2>3. /\ b[t - Lag24h].amount \in Int /\ b[t].amount \in Int
        /\ Price!At(a, t - Lag24h) = b[t - Lag24h].amount /\ Price!At(a, t) = b[t].amount

    BY <2>1, PriceAt
  <2> HIDE DEF f, b
  <2>4. Predict24(fit, b[t - Lag24h].amount) \in Int
    BY <1>f, <2>3 DEF Predict24
  <2> QED BY <2>2, <2>3, <2>4, PriceOperators
<1>3. \A k \in DOMAIN s : s[k] \in A
  BY <1>1, TakenIs
<1> HIDE DEF f, s
<1>4. v # << >> /\ StrictChronology(v)
  BY <1>1, <1>2, TargetsAlong, TakenIsChronological DEF Dated
<1>5. v[1].over = fit.over
  <2>1. 1 \in 1 .. Cardinality(A)
    <3>1. Cardinality(A) \in Nat /\ Cardinality(A) # 0
      BY <1>1, FS_CardinalityType, FS_EmptySet
    <3> QED BY ONLY <3>1
  <2>2. \A k \in 1 .. Cardinality(A) : v[k] = f[s[k]]
    BY <1>1, TakenIs DEF s
  <2>3. DOMAIN s = 1 .. Cardinality(A)
    BY <1>1, TakenIs DEF s
  <2> HIDE DEF v
  <2> QED BY <1>2, <1>3, <2>1, <2>2, <2>3
<1>6. MeanAbsoluteError(PredictedOf(v), fit.over, ActualOf(v))
        = [total |-> Total(AbsoluteErrors(f, fit.over, A)), over |-> fit.over * Cardinality(A)]
  <2>1. \A t \in A : f[t].predicted \in Int /\ f[t].actual \in Int
    BY <1>2
  <2> QED BY ONLY <1>1, <1>f, <2>1, ErrorAlong
<1>7. EvaluateDamPriceLag24hLinearRegressionMae(v) = MeanAbsoluteError(PredictedOf(v), fit.over, ActualOf(v))
  <2>1. SingleMarketAndCurrency(v)
    BY DEF v, f, fit
  <2> HIDE DEF v
  <2> QED BY <1>4, <1>5, <2>1 DEF EvaluateDamPriceLag24hLinearRegressionMae, PredictedOf, ActualOf
<1>8. \A k \in DOMAIN s : Price!Abs(Price!Predict24(fit, Price!At(a, s[k] - Lag24h)) - Price!At(a, s[k]) * fit.over)
        = LET e == f[s[k]].predicted - f[s[k]].actual * fit.over IN IF e < 0 THEN -e ELSE e
  BY <1>2, <1>3 DEF Price!Abs
<1>9. [k \in DOMAIN s |-> Price!Abs(Price!Predict24(fit, Price!At(a, s[k] - Lag24h)) - Price!At(a, s[k]) * fit.over)]
        = AbsoluteErrors(f, fit.over, A)
  BY <1>8 DEF AbsoluteErrors, s
<1>10. Price!SumOver(A, LAMBDA t : Price!Abs(Price!Predict24(fit, Price!At(a, t - Lag24h)) - Price!At(a, t) * fit.over))
         = Total(AbsoluteErrors(f, fit.over, A))
  <2>1. Price!InOrder(A) = s
    BY PriceOperators DEF s
  <2>2. Price!SumOver(A, LAMBDA t : Price!Abs(Price!Predict24(fit, Price!At(a, t - Lag24h)) - Price!At(a, t) * fit.over))
          = Price!Total([k \in DOMAIN s |-> Price!Abs(Price!Predict24(fit, Price!At(a, s[k] - Lag24h)) - Price!At(a, s[k]) * fit.over)])
    BY <2>1 DEF Price!SumOver
  <2> QED BY <1>9, <2>2, PriceOperators
<1>11. Price!Cardinality(A) = Cardinality(A)
  BY DEF Price!Cardinality, Cardinality
<1> QED BY <1>6, <1>7, <1>10, <1>11 DEF Price!Error24, f, fit, v

\* The mean absolute error of the fit of both lags is the one recomputed.
LEMMA PriceError168 ==
  ASSUME Price!Staged, NEW a \in 1 .. 2, pc \in {"compare", "forecast", "done"},
         trainedOn \in 1 .. 2, fit168[trainedOn] # Failed,
         NEW A, A \subseteq T168(source[a]), A # {},
         SingleMarketAndCurrency(Taken(PricePrediction168(fit168[trainedOn], source[a]), A))
  PROVE  EvaluateDamPriceLag24h168hLinearRegressionMae(
           Taken(PricePrediction168(fit168[trainedOn], source[a]), A)) = Price!Error168(a, A)
<1> DEFINE h == source[a]
           fit == fit168[trainedOn]
           f == PricePrediction168(fit, h)
           b == ByTimestamp(h)
           s == InOrder(A)
           v == Taken(f, A)
<1>1. A \subseteq Int /\ IsFiniteSet(A) /\ IsHistory(h)
  BY PriceSource, StampsFinite, FS_Subset DEF T168
<1>f. /\ fit.lag24 \in Int /\ fit.lag168 \in Int
      /\ fit.intercept \in Int /\ fit.over \in Int
  BY PriceLeastSquares168
<1> HIDE DEF fit
<1>2. ASSUME NEW t \in A
      PROVE  /\ f[t].target = t /\ f[t].over = fit.over
             /\ f[t].actual = Price!At(a, t) /\ f[t].actual \in Int
             /\ f[t].predicted = Price!Predict168(fit, Price!At(a, t - Lag24h), Price!At(a, t - Lag168h)) /\ f[t].predicted \in Int
  <2>1. /\ t \in T168(h) /\ t \in StampsOf(h) /\ t - Lag24h \in StampsOf(h)
        /\ t - Lag168h \in StampsOf(h)
    BY DEF T168, TargetsOf
  <2>2. /\ f[t].target = t /\ f[t].over = fit.over /\ f[t].actual = b[t].amount
        /\ f[t].predicted = Predict168(fit, b[t - Lag24h].amount, b[t - Lag168h].amount)
    BY <2>1 DEF PricePrediction168
  <2>3. /\ b[t - Lag24h].amount \in Int /\ b[t - Lag168h].amount \in Int /\ b[t].amount \in Int
        /\ Price!At(a, t - Lag24h) = b[t - Lag24h].amount /\ Price!At(a, t) = b[t].amount
        /\ Price!At(a, t - Lag168h) = b[t - Lag168h].amount

    BY <2>1, PriceAt
  <2> HIDE DEF f, b
  <2>4. Predict168(fit, b[t - Lag24h].amount, b[t - Lag168h].amount) \in Int
    BY <1>f, <2>3 DEF Predict168
  <2> QED BY <2>2, <2>3, <2>4, PriceOperators
<1>3. \A k \in DOMAIN s : s[k] \in A
  BY <1>1, TakenIs
<1> HIDE DEF f, s
<1>4. v # << >> /\ StrictChronology(v)
  BY <1>1, <1>2, TargetsAlong, TakenIsChronological DEF Dated
<1>5. v[1].over = fit.over
  <2>1. 1 \in 1 .. Cardinality(A)
    <3>1. Cardinality(A) \in Nat /\ Cardinality(A) # 0
      BY <1>1, FS_CardinalityType, FS_EmptySet
    <3> QED BY ONLY <3>1
  <2>2. \A k \in 1 .. Cardinality(A) : v[k] = f[s[k]]
    BY <1>1, TakenIs DEF s
  <2>3. DOMAIN s = 1 .. Cardinality(A)
    BY <1>1, TakenIs DEF s
  <2> HIDE DEF v
  <2> QED BY <1>2, <1>3, <2>1, <2>2, <2>3
<1>6. MeanAbsoluteError(PredictedOf(v), fit.over, ActualOf(v))
        = [total |-> Total(AbsoluteErrors(f, fit.over, A)), over |-> fit.over * Cardinality(A)]
  <2>1. \A t \in A : f[t].predicted \in Int /\ f[t].actual \in Int
    BY <1>2
  <2> QED BY ONLY <1>1, <1>f, <2>1, ErrorAlong
<1>7. EvaluateDamPriceLag24h168hLinearRegressionMae(v) = MeanAbsoluteError(PredictedOf(v), fit.over, ActualOf(v))
  <2>1. SingleMarketAndCurrency(v)
    BY DEF v, f, fit
  <2> HIDE DEF v
  <2> QED BY <1>4, <1>5, <2>1 DEF EvaluateDamPriceLag24h168hLinearRegressionMae, PredictedOf, ActualOf
<1>8. \A k \in DOMAIN s : Price!Abs(Price!Predict168(fit, Price!At(a, s[k] - Lag24h), Price!At(a, s[k] - Lag168h)) - Price!At(a, s[k]) * fit.over)
        = LET e == f[s[k]].predicted - f[s[k]].actual * fit.over IN IF e < 0 THEN -e ELSE e
  BY <1>2, <1>3 DEF Price!Abs
<1>9. [k \in DOMAIN s |-> Price!Abs(Price!Predict168(fit, Price!At(a, s[k] - Lag24h), Price!At(a, s[k] - Lag168h)) - Price!At(a, s[k]) * fit.over)]
        = AbsoluteErrors(f, fit.over, A)
  BY <1>8 DEF AbsoluteErrors, s
<1>10. Price!SumOver(A, LAMBDA t : Price!Abs(Price!Predict168(fit, Price!At(a, t - Lag24h), Price!At(a, t - Lag168h)) - Price!At(a, t) * fit.over))
         = Total(AbsoluteErrors(f, fit.over, A))
  <2>1. Price!InOrder(A) = s
    BY PriceOperators DEF s
  <2>2. Price!SumOver(A, LAMBDA t : Price!Abs(Price!Predict168(fit, Price!At(a, t - Lag24h), Price!At(a, t - Lag168h)) - Price!At(a, t) * fit.over))
          = Price!Total([k \in DOMAIN s |-> Price!Abs(Price!Predict168(fit, Price!At(a, s[k] - Lag24h), Price!At(a, s[k] - Lag168h)) - Price!At(a, s[k]) * fit.over)])
    BY <2>1 DEF Price!SumOver
  <2> QED BY <1>9, <2>2, PriceOperators
<1>11. Price!Cardinality(A) = Cardinality(A)
  BY DEF Price!Cardinality, Cardinality
<1> QED BY <1>6, <1>7, <1>10, <1>11 DEF Price!Error168, f, fit, v

\* Rows that tell, at the targets A, what the history h says.
PriceTells(f, h, A) ==
  /\ A \subseteq StampsOf(h)
  /\ \A t \in A : /\ f[t].target = t /\ f[t].market = ByTimestamp(h)[t].market /\ f[t].currency = ByTimestamp(h)[t].currency
                  /\ f[t].actual = ByTimestamp(h)[t].amount

\* Cases and predictions tell what their history says.
LEMMA PriceTelling ==
  ASSUME NEW h, NEW A, NEW fit
  PROVE  /\ A \subseteq T24(h) => PriceTells(PriceCase(h), h, A) /\ PriceTells(PricePrediction24(fit, h), h, A)
         /\ A \subseteq T168(h) => PriceTells(PricePrediction168(fit, h), h, A)
<1>1. T24(h) \subseteq StampsOf(h) /\ T168(h) \subseteq StampsOf(h)
  BY DEF T24, T168, TargetsOf
<1>2. ASSUME A \subseteq T24(h), NEW t \in A
      PROVE  /\ PriceCase(h)[t].target = t /\ PriceCase(h)[t].market = ByTimestamp(h)[t].market /\ PriceCase(h)[t].currency = ByTimestamp(h)[t].currency
             /\ PriceCase(h)[t].actual = ByTimestamp(h)[t].amount
             /\ PricePrediction24(fit, h)[t].target = t
             /\ PricePrediction24(fit, h)[t].market = ByTimestamp(h)[t].market /\ PricePrediction24(fit, h)[t].currency = ByTimestamp(h)[t].currency
             /\ PricePrediction24(fit, h)[t].actual = ByTimestamp(h)[t].amount
  <2>1. t \in T24(h)
    BY <1>2
  <2> QED BY <2>1 DEF PriceCase, PricePrediction24
<1>3. ASSUME A \subseteq T168(h), NEW t \in A
      PROVE  /\ PricePrediction168(fit, h)[t].target = t
             /\ PricePrediction168(fit, h)[t].market = ByTimestamp(h)[t].market /\ PricePrediction168(fit, h)[t].currency = ByTimestamp(h)[t].currency
             /\ PricePrediction168(fit, h)[t].actual = ByTimestamp(h)[t].amount
  <2>1. t \in T168(h)
    BY <1>3
  <2> QED BY <2>1 DEF PricePrediction168
<1> QED BY <1>1, <1>2, <1>3 DEF PriceTells

\* The markets and the currencies of three sequences, if shared, are at most one.
LEMMA SeriesShared ==
  ASSUME NEW u, IsTuple(u), NEW v, IsTuple(v), NEW w, IsTuple(w),
         SingleSharedMarketAndCurrency({u, v, w})
  PROVE  LET C == Markets(u) \cup Markets(v) \cup Markets(w)
             D == Currencies(u) \cup Currencies(v) \cup Currencies(w)
         IN  IsFiniteSet(C) /\ Single(C) /\ IsFiniteSet(D) /\ Single(D)
<1> DEFINE C == Markets(u) \cup Markets(v) \cup Markets(w)
           D == Currencies(u) \cup Currencies(v) \cup Currencies(w)
<1>1. /\ UNION {Markets(c) : c \in {u, v, w}} = C
      /\ UNION {Currencies(c) : c \in {u, v, w}} = D
  OBVIOUS
<1>2. Single(C) /\ Single(D)
  BY <1>1 DEF SingleSharedMarketAndCurrency
<1>3. /\ IsFiniteSet(Markets(u)) /\ IsFiniteSet(Markets(v)) /\ IsFiniteSet(Markets(w))
      /\ IsFiniteSet(Currencies(u)) /\ IsFiniteSet(Currencies(v)) /\ IsFiniteSet(Currencies(w))
  BY SeriesFinite
<1>4. IsFiniteSet(Markets(u) \cup Markets(v)) /\ IsFiniteSet(Currencies(u) \cup Currencies(v))
  BY <1>3, FS_Union
<1>5. IsFiniteSet(C) /\ IsFiniteSet(D)
  BY <1>3, <1>4, FS_Union
<1> QED BY <1>2, <1>5

\* Two sequences a comparison accepts are of the same targets of one market in one currency.
PriceLike(p, f, A, q, g, B) ==
  /\ PriceValid(source[p]) /\ PriceTells(f, source[p], A)
  /\ PriceValid(source[q]) /\ PriceTells(g, source[q], B)
  /\ AlignedCohorts({Taken(f, A), Taken(g, B)})
  /\ \E C, D : /\ IsFiniteSet(C) /\ Single(C) /\ IsFiniteSet(D) /\ Single(D)
               /\ Markets(Taken(f, A)) \subseteq C /\ Markets(Taken(g, B)) \subseteq C
               /\ Currencies(Taken(f, A)) \subseteq D /\ Currencies(Taken(g, B)) \subseteq D

\* Rows that are alike are of the same targets and the same actuals.
LEMMA PriceAlike ==
  ASSUME Price!Staged, NEW p \in 1 .. 2, NEW q \in 1 .. 2,
         NEW f, NEW A, NEW g, NEW B, PriceLike(p, f, A, q, g, B)
  PROVE  /\ A = B /\ A # {} /\ Price!SameActuals(p, q, A)
         /\ SingleMarketAndCurrency(Taken(f, A)) /\ SingleMarketAndCurrency(Taken(g, B))
         /\ {Taken(f, A)[i].target : i \in DOMAIN Taken(f, A)} = A
         /\ Len(Taken(f, A)) = Price!Cardinality(A)
<1> DEFINE h == source[p]
           k == source[q]
<1>1. /\ IsHistory(h) /\ PriceValid(h) /\ IsHistory(k) /\ PriceValid(k)
      /\ A \subseteq StampsOf(h) /\ B \subseteq StampsOf(k)
  BY PriceSource DEF PriceLike, PriceTells
<1>2. A \subseteq Int /\ IsFiniteSet(A) /\ B \subseteq Int /\ IsFiniteSet(B)
  BY <1>1, StampsFinite, FS_Subset
<1>3. /\ \A t \in A : f[t].target = t
      /\ \A t \in A : f[t].market = ByTimestamp(h)[t].market
      /\ \A t \in A : f[t].currency = ByTimestamp(h)[t].currency
      /\ \A t \in A : f[t].actual = ByTimestamp(h)[t].amount
      /\ \A t \in B : g[t].target = t
      /\ \A t \in B : g[t].market = ByTimestamp(k)[t].market
      /\ \A t \in B : g[t].currency = ByTimestamp(k)[t].currency
      /\ \A t \in B : g[t].actual = ByTimestamp(k)[t].amount
  BY DEF PriceLike, PriceTells
<1>d. Dated(f, A) /\ Dated(g, B)
  BY <1>2, <1>3 DEF Dated
<1>4. AlignedCohorts({Taken(f, A), Taken(g, B)})
  BY DEF PriceLike
<1>5. PICK C, D : /\ IsFiniteSet(C) /\ Single(C) /\ IsFiniteSet(D) /\ Single(D)
                  /\ Markets(Taken(f, A)) \subseteq C /\ Markets(Taken(g, B)) \subseteq C
                  /\ Currencies(Taken(f, A)) \subseteq D /\ Currencies(Taken(g, B)) \subseteq D
  BY DEF PriceLike
<1>6. A = B /\ A # {} /\ \A t \in A : f[t].actual = g[t].actual
  BY <1>4, <1>d, AlignedAlong
<1>7. SingleMarketAndCurrency(Taken(f, A)) /\ SingleMarketAndCurrency(Taken(g, B))
  BY <1>5, SingleSubset DEF SingleMarketAndCurrency
<1>8. {Taken(f, A)[i].target : i \in DOMAIN Taken(f, A)} = A
  BY <1>d, TargetsAlong
<1>9. Len(Taken(f, A)) = Price!Cardinality(A)
  <2>1. Price!Cardinality(A) = Cardinality(A)
    BY DEF Price!Cardinality, Cardinality
  <2>2. Len(Taken(f, A)) = Cardinality(A)
    BY <1>2, TakenIs
  <2> QED BY <2>1, <2>2
<1>s. (\E m : Markets(h) = {m} /\ Markets(k) = {m}) /\ (\E e : Currencies(h) = {e} /\ Currencies(k) = {e})
  <2>1. /\ A \subseteq StampsOf(k)
        /\ \A t \in A : g[t].market = ByTimestamp(k)[t].market
        /\ \A t \in A : g[t].currency = ByTimestamp(k)[t].currency
    BY <1>1, <1>3, <1>6
  <2>2. Markets(Taken(g, A)) \subseteq C /\ Currencies(Taken(g, A)) \subseteq D
    BY <1>5, <1>6
  <2> HIDE DEF h, k
  <2>3. \E m : Markets(h) = {m} /\ Markets(k) = {m}
    <3>1. IsHistory(h) /\ Single(Markets(h)) /\ IsHistory(k) /\ Single(Markets(k))
      BY <1>1 DEF PriceValid, SingleMarketAndCurrency
    <3>2. A \subseteq StampsOf(h) /\ A \subseteq StampsOf(k) /\ A # {}
      BY <1>1, <1>6, <2>1
    <3>3. \A t \in A : f[t].market = ByTimestamp(h)[t].market
      BY <1>3
    <3>4. \A t \in A : g[t].market = ByTimestamp(k)[t].market
      BY <2>1
    <3>5. /\ IsFiniteSet(C) /\ Single(C)
          /\ Markets(Taken(f, A)) \subseteq C /\ Markets(Taken(g, A)) \subseteq C
      BY <1>5, <2>2
    <3>6. Markets(h) = Markets(k) /\ Cardinality(Markets(h)) = 1
      BY ONLY <3>1, <3>2, <3>3, <3>4, <3>5, PriceMarkets
    <3>7. IsFiniteSet(Markets(h))
      BY <1>1, SeriesFinite DEF IsHistory
    <3> QED BY <3>6, <3>7, FS_Singleton
  <2>4. \E e : Currencies(h) = {e} /\ Currencies(k) = {e}
    <3>1. IsHistory(h) /\ Single(Currencies(h)) /\ IsHistory(k) /\ Single(Currencies(k))
      BY <1>1 DEF PriceValid, SingleMarketAndCurrency
    <3>2. A \subseteq StampsOf(h) /\ A \subseteq StampsOf(k) /\ A # {}
      BY <1>1, <1>6, <2>1
    <3>3. \A t \in A : f[t].currency = ByTimestamp(h)[t].currency
      BY <1>3
    <3>4. \A t \in A : g[t].currency = ByTimestamp(k)[t].currency
      BY <2>1
    <3>5. /\ IsFiniteSet(D) /\ Single(D)
          /\ Currencies(Taken(f, A)) \subseteq D /\ Currencies(Taken(g, A)) \subseteq D
      BY <1>5, <2>2
    <3>6. Currencies(h) = Currencies(k) /\ Cardinality(Currencies(h)) = 1
      BY ONLY <3>1, <3>2, <3>3, <3>4, <3>5, PriceCurrencies
    <3>7. IsFiniteSet(Currencies(h))
      BY <1>1, SeriesFinite DEF IsHistory
    <3> QED BY <3>6, <3>7, FS_Singleton
  <2> QED BY <2>3, <2>4
<1>10. PICK m, e : /\ Markets(h) = {m} /\ Currencies(h) = {e}
                   /\ Markets(k) = {m} /\ Currencies(k) = {e}
  BY <1>s
<1>11. Price!SameActuals(p, q, A)
  <2>1. Price!Series(p) = {<<m, e>>} /\ Price!Series(q) = {<<m, e>>}
    <3>1. \A i \in DOMAIN h : h[i].market = m /\ h[i].currency = e
      BY <1>10 DEF Markets, Currencies
    <3>2. \A i \in DOMAIN k : k[i].market = m /\ k[i].currency = e
      BY <1>10 DEF Markets, Currencies
    <3>3. DOMAIN h # {} /\ DOMAIN k # {}
      BY <1>10 DEF Markets
    <3> QED BY <3>1, <3>2, <3>3 DEF Price!Series, DamPriceIdentity
  <2>2. Price!Cardinality({<<m, e>>}) = 1
    <3>1. Cardinality({<<m, e>>}) = 1
      BY FS_Singleton
    <3> QED BY <3>1 DEF Price!Cardinality, Cardinality
  <2>3. A \subseteq Price!Stamps(p) \cap Price!Stamps(q)
    BY <1>1, <1>6, PriceAt
  <2>4. \A t \in A : Price!At(p, t) = Price!At(q, t)
    <3>1. \A t \in A : Price!At(p, t) = ByTimestamp(h)[t].amount
      BY <1>1, PriceAt
    <3>2. \A t \in A : Price!At(q, t) = ByTimestamp(k)[t].amount
      BY <1>1, <1>6, PriceAt
    <3> QED BY <1>3, <1>6, <3>1, <3>2
  <2> QED BY <2>1, <2>2, <2>3, <2>4 DEF Price!SameActuals
<1> QED BY <1>6, <1>7, <1>8, <1>9, <1>11

\* What the four comparisons say, one by one.
LEMMA PriceVerdict ==
  ASSUME NEW x, NEW y, NEW z
  PROVE  /\ Price!Verdict(x, y, z).persistence24
              = IF x = Failed \/ y = Failed THEN Failed
                ELSE CompareDamPricePersistenceVsTrainedOlsMae(x, y)
         /\ Price!Verdict(x, y, z).persistence168
              = IF x = Failed \/ z = Failed THEN Failed
                ELSE CompareDamPricePersistenceVsLag24h168hOlsMae(x, z)
         /\ Price!Verdict(x, y, z).both
              = IF y = Failed \/ z = Failed THEN Failed
                ELSE CompareDamPriceLag24hVsLag24h168hOlsMae(y, z)
         /\ Price!Verdict(x, y, z).all
              = IF x = Failed \/ y = Failed \/ z = Failed THEN Failed
                ELSE CompareDamPriceThreeWayMae(x, y, z)
BY DEF Price!Verdict

\* What two histories' rows need to be alike.
LEMMA PriceAccepted ==
  ASSUME Price!Staged, NEW p \in 1 .. 2, NEW q \in 1 .. 2,
         NEW f, NEW A, PriceValid(source[p]), PriceTells(f, source[p], A),
         NEW g, NEW B, PriceValid(source[q]), PriceTells(g, source[q], B),
         NEW u, IsTuple(u), AlignedCohorts({Taken(f, A), Taken(g, B)}),
         SingleSharedMarketAndCurrency({u, Taken(f, A), Taken(g, B)})
  PROVE  PriceLike(p, f, A, q, g, B)
<1> DEFINE v == Taken(f, A)
           w == Taken(g, B)
<1>1. Instants(A) /\ Instants(B)
  <2>1. A \subseteq StampsOf(source[p]) /\ B \subseteq StampsOf(source[q])
    BY DEF PriceTells
  <2>2. IsHistory(source[p]) /\ IsHistory(source[q])
    BY PriceSource
  <2> QED BY <2>1, <2>2, StampsFinite, FS_Subset DEF Instants
<1>2. IsTuple(v) /\ IsTuple(w)
  BY <1>1, TakenIs DEF Instants
<1>3. AlignedCohorts({v, w}) /\ SingleSharedMarketAndCurrency({u, v, w})
  OBVIOUS
<1> HIDE DEF v, w
<1> DEFINE C == Markets(u) \cup Markets(v) \cup Markets(w)
           D == Currencies(u) \cup Currencies(v) \cup Currencies(w)
<1>4. IsFiniteSet(C) /\ Single(C) /\ IsFiniteSet(D) /\ Single(D)
  BY <1>2, <1>3, SeriesShared
<1>5. /\ Markets(v) \subseteq C /\ Markets(w) \subseteq C
      /\ Currencies(v) \subseteq D /\ Currencies(w) \subseteq D
  OBVIOUS
<1> HIDE DEF C, D
<1> QED BY <1>3, <1>4, <1>5 DEF PriceLike, v, w

\* The cohort and the predictions of a comparison, as rows of their histories.
PriceCases(c, x, A) ==
  x = Taken(PriceCase(source[c]), A) /\ A \subseteq T24(source[c]) /\ PriceValid(source[c])
PriceGuesses24(a, y, A) ==
  /\ y = Taken(PricePrediction24(fit24[trainedOn], source[a]), A) /\ A \subseteq T24(source[a])
  /\ PriceValid(source[a]) /\ trainedOn \in 1 .. 2 /\ fit24[trainedOn] # Failed
PriceGuesses168(b, z, A) ==
  /\ z = Taken(PricePrediction168(fit168[trainedOn], source[b]), A) /\ A \subseteq T168(source[b])
  /\ PriceValid(source[b]) /\ trainedOn \in 1 .. 2 /\ fit168[trainedOn] # Failed

\* What a comparison is given are cases and predictions of the histories it names.
LEMMA PriceCompared ==
  ASSUME Price!Staged, pc \in {"compare", "forecast", "done"},
         NEW c \in 1 .. 2, NEW a \in 1 .. 2, NEW b \in 1 .. 2, NEW fromCutoff \in BOOLEAN
  PROVE  /\ Price!Cohort(c, fromCutoff) # Failed => \E A : PriceCases(c, Price!Cohort(c, fromCutoff), A)
         /\ pred24[a] # Failed => \E A : PriceGuesses24(a, pred24[a], A)
         /\ pred168[b] # Failed => \E A : PriceGuesses168(b, pred168[b], A)
<1>1. pc # "features"
  OBVIOUS
<1>2. Price!Cohort(c, fromCutoff) # Failed => \E A : PriceCases(c, Price!Cohort(c, fromCutoff), A)
  BY <1>1, PriceCohort DEF PriceCases
<1>3. From(T24(source[a])) \subseteq T24(source[a]) /\ From(T168(source[b])) \subseteq T168(source[b])
  BY DEF From
<1>4. pred24[a] # Failed => PriceGuesses24(a, pred24[a], From(T24(source[a])))
  BY <1>3, PricePredicted DEF PriceGuesses24
<1>5. pred168[b] # Failed => PriceGuesses168(b, pred168[b], From(T168(source[b])))
  BY <1>3, PricePredicted DEF PriceGuesses168
<1> QED BY <1>2, <1>4, <1>5

\* Cases, predictions on one lag and on two that are taken for alike, two by two.
LEMMA PriceAlikePairs ==
  ASSUME Price!Staged, NEW c \in 1 .. 2, NEW a \in 1 .. 2, NEW b \in 1 .. 2,
         NEW x, NEW A, NEW y, NEW B, NEW z, NEW D, NEW u, IsTuple(u)
  PROVE  /\ /\ PriceCases(c, x, A) /\ PriceGuesses24(a, y, B)
            /\ AlignedCohorts({x, y}) /\ SingleSharedMarketAndCurrency({u, x, y})
            => PriceLike(c, PriceCase(source[c]), A, a, PricePrediction24(fit24[trainedOn], source[a]), B)
         /\ /\ PriceCases(c, x, A) /\ PriceGuesses168(b, z, D)
            /\ AlignedCohorts({x, z}) /\ SingleSharedMarketAndCurrency({u, x, z})
            => PriceLike(c, PriceCase(source[c]), A, b, PricePrediction168(fit168[trainedOn], source[b]), D)
         /\ /\ PriceGuesses24(a, y, B) /\ PriceGuesses168(b, z, D)
            /\ AlignedCohorts({y, z}) /\ SingleSharedMarketAndCurrency({u, y, z})
            => PriceLike(a, PricePrediction24(fit24[trainedOn], source[a]), B,
                        b, PricePrediction168(fit168[trainedOn], source[b]), D)
<1>1. ASSUME PriceCases(c, x, A), PriceGuesses24(a, y, B),
             AlignedCohorts({x, y}), SingleSharedMarketAndCurrency({u, x, y})
      PROVE  PriceLike(c, PriceCase(source[c]), A, a, PricePrediction24(fit24[trainedOn], source[a]), B)
  <2>1. PriceTells(PriceCase(source[c]), source[c], A)
    BY <1>1, PriceTelling DEF PriceCases
  <2>2. PriceTells(PricePrediction24(fit24[trainedOn], source[a]), source[a], B)
    BY <1>1, PriceTelling DEF PriceGuesses24
  <2> QED BY <1>1, <2>1, <2>2, PriceAccepted DEF PriceCases, PriceGuesses24
<1>2. ASSUME PriceCases(c, x, A), PriceGuesses168(b, z, D),
             AlignedCohorts({x, z}), SingleSharedMarketAndCurrency({u, x, z})
      PROVE  PriceLike(c, PriceCase(source[c]), A, b, PricePrediction168(fit168[trainedOn], source[b]), D)
  <2>1. PriceTells(PriceCase(source[c]), source[c], A)
    BY <1>2, PriceTelling DEF PriceCases
  <2>2. PriceTells(PricePrediction168(fit168[trainedOn], source[b]), source[b], D)
    BY <1>2, PriceTelling DEF PriceGuesses168
  <2> QED BY <1>2, <2>1, <2>2, PriceAccepted DEF PriceCases, PriceGuesses168
<1>3. ASSUME PriceGuesses24(a, y, B), PriceGuesses168(b, z, D),
             AlignedCohorts({y, z}), SingleSharedMarketAndCurrency({u, y, z})
      PROVE  PriceLike(a, PricePrediction24(fit24[trainedOn], source[a]), B,
                      b, PricePrediction168(fit168[trainedOn], source[b]), D)
  <2>1. PriceTells(PricePrediction24(fit24[trainedOn], source[a]), source[a], B)
    BY <1>3, PriceTelling DEF PriceGuesses24
  <2>2. PriceTells(PricePrediction168(fit168[trainedOn], source[b]), source[b], D)
    BY <1>3, PriceTelling DEF PriceGuesses168
  <2> QED BY <1>3, <2>1, <2>2, PriceAccepted DEF PriceGuesses24, PriceGuesses168
<1> QED BY <1>1, <1>2, <1>3

\* The errors the code reports of rows are those the session recomputes.
LEMMA PriceErrors ==
  ASSUME Price!Staged, pc \in {"compare", "forecast", "done"}, NEW p \in 1 .. 2,
         NEW x, NEW A, A # {}, SingleMarketAndCurrency(x)
  PROVE  /\ PriceCases(p, x, A) /\ CoherentCurrency(x) =>
              EvaluateDamPricePersistenceMae(x) = Price!PersistenceError(p, A)
         /\ PriceGuesses24(p, x, A) =>
              EvaluateDamPriceLag24hLinearRegressionMae(x) = Price!Error24(p, A)
         /\ PriceGuesses168(p, x, A) =>
              EvaluateDamPriceLag24h168hLinearRegressionMae(x) = Price!Error168(p, A)
<1>1. ASSUME PriceCases(p, x, A), CoherentCurrency(x)
      PROVE  EvaluateDamPricePersistenceMae(x) = Price!PersistenceError(p, A)
  BY <1>1, PricePersistenceError DEF PriceCases
<1>2. ASSUME PriceGuesses24(p, x, A)
      PROVE  EvaluateDamPriceLag24hLinearRegressionMae(x) = Price!Error24(p, A)
  BY <1>2, PriceError24 DEF PriceGuesses24
<1>3. ASSUME PriceGuesses168(p, x, A)
      PROVE  EvaluateDamPriceLag24h168hLinearRegressionMae(x) = Price!Error168(p, A)
  BY <1>3, PriceError168 DEF PriceGuesses168
<1> QED BY <1>1, <1>2, <1>3

\* Rows of a session are sequences.
LEMMA PriceTuples ==
  ASSUME Price!Staged, NEW p \in 1 .. 2, NEW x, NEW A
  PROVE  PriceCases(p, x, A) \/ PriceGuesses24(p, x, A) \/ PriceGuesses168(p, x, A) => IsTuple(x)
<1>1. T24(source[p]) \subseteq StampsOf(source[p]) /\ T168(source[p]) \subseteq StampsOf(source[p])
  BY DEF T24, T168, TargetsOf
<1>2. IsHistory(source[p])
  BY PriceSource
<1>3. ASSUME PriceCases(p, x, A) PROVE IsTuple(x)
  BY <1>1, <1>2, <1>3, TakenIsTuple DEF PriceCases
<1>4. ASSUME PriceGuesses24(p, x, A) PROVE IsTuple(x)
  BY <1>1, <1>2, <1>4, TakenIsTuple DEF PriceGuesses24
<1>5. ASSUME PriceGuesses168(p, x, A) PROVE IsTuple(x)
  BY <1>1, <1>2, <1>5, TakenIsTuple DEF PriceGuesses168
<1> QED BY <1>3, <1>4, <1>5

\* Rows taken for alike are of the same targets of one market.
PriceSame(p, x, A, q, y, B) ==
  /\ A = B /\ A # {} /\ Price!SameActuals(p, q, A) /\ SingleMarketAndCurrency(x) /\ SingleMarketAndCurrency(y)
  /\ TargetsIn(x) = A /\ Len(x) = Price!Cardinality(A)

\* Whatever two cohorts pass the guards of a comparison are the same rows' targets.
LEMMA PriceSamePairs ==
  ASSUME Price!Staged, NEW c \in 1 .. 2, NEW a \in 1 .. 2, NEW b \in 1 .. 2,
         NEW x, NEW A, NEW y, NEW B, NEW z, NEW D, NEW u, IsTuple(u)
  PROVE  /\ /\ PriceCases(c, x, A) /\ PriceGuesses24(a, y, B)
            /\ AlignedCohorts({x, y}) /\ SingleSharedMarketAndCurrency({u, x, y})
            => PriceSame(c, x, A, a, y, B)
         /\ /\ PriceCases(c, x, A) /\ PriceGuesses168(b, z, D)
            /\ AlignedCohorts({x, z}) /\ SingleSharedMarketAndCurrency({u, x, z})
            => PriceSame(c, x, A, b, z, D)
         /\ /\ PriceGuesses24(a, y, B) /\ PriceGuesses168(b, z, D)
            /\ AlignedCohorts({y, z}) /\ SingleSharedMarketAndCurrency({u, y, z})
            => PriceSame(a, y, B, b, z, D)
<1> DEFINE e == PriceCase(source[c])
           f == PricePrediction24(fit24[trainedOn], source[a])
           g == PricePrediction168(fit168[trainedOn], source[b])
<1>0. /\ PriceCases(c, x, A) => x = Taken(e, A)
      /\ PriceGuesses24(a, y, B) => y = Taken(f, B)
      /\ PriceGuesses168(b, z, D) => z = Taken(g, D)
  BY DEF PriceCases, PriceGuesses24, PriceGuesses168
<1>1. ASSUME PriceCases(c, x, A), PriceGuesses24(a, y, B),
             AlignedCohorts({x, y}), SingleSharedMarketAndCurrency({u, x, y})
      PROVE  PriceSame(c, x, A, a, y, B)
  <2>1. PriceLike(c, e, A, a, f, B)
    BY <1>1, PriceAlikePairs
  <2> HIDE DEF e, f, g
  <2> QED BY <1>0, <1>1, <2>1, PriceAlike DEF PriceSame, TargetsIn
<1>2. ASSUME PriceCases(c, x, A), PriceGuesses168(b, z, D),
             AlignedCohorts({x, z}), SingleSharedMarketAndCurrency({u, x, z})
      PROVE  PriceSame(c, x, A, b, z, D)
  <2>1. PriceLike(c, e, A, b, g, D)
    BY <1>2, PriceAlikePairs
  <2> HIDE DEF e, f, g
  <2> QED BY <1>0, <1>2, <2>1, PriceAlike DEF PriceSame, TargetsIn
<1>3. ASSUME PriceGuesses24(a, y, B), PriceGuesses168(b, z, D),
             AlignedCohorts({y, z}), SingleSharedMarketAndCurrency({u, y, z})
      PROVE  PriceSame(a, y, B, b, z, D)
  <2>1. PriceLike(a, f, B, b, g, D)
    BY <1>3, PriceAlikePairs
  <2> HIDE DEF e, f, g
  <2> QED BY <1>0, <1>3, <2>1, PriceAlike DEF PriceSame, TargetsIn
<1> QED BY <1>1, <1>2, <1>3

\* Each comparison that answers.
LEMMA PriceComparison24 ==
  ASSUME Price!Staged, pc \in {"compare", "forecast", "done"}, NEW c \in 1 .. 2, NEW a \in 1 .. 2,
         NEW x, NEW A, PriceCases(c, x, A), NEW y, NEW B, PriceGuesses24(a, y, B),
         NEW r, r = CompareDamPricePersistenceVsTrainedOlsMae(x, y), r # Failed
  PROVE  /\ Price!SameActuals(c, a, TargetsIn(x)) /\ r.count = Price!Cardinality(TargetsIn(x))
         /\ r.persistence = Price!PersistenceError(c, TargetsIn(x))
         /\ r.lag24 = Price!Error24(a, TargetsIn(x))
<1>1. /\ AlignedCohorts({x, y}) /\ SingleSharedMarketAndCurrency({x, y})
      /\ CoherentCurrency(x)
      /\ r = [count |-> Len(x), currency |-> x[1].currency,
              persistence |-> EvaluateDamPricePersistenceMae(x),
              lag24 |-> EvaluateDamPriceLag24hLinearRegressionMae(y)]
  BY DEF CompareDamPricePersistenceVsTrainedOlsMae
<1>2. {x, x, y} = {x, y}
  OBVIOUS
<1>3. PriceSame(c, x, A, a, y, B)
  BY <1>1, <1>2, PriceTuples, PriceSamePairs
<1>4. EvaluateDamPricePersistenceMae(x) = Price!PersistenceError(c, A)
  BY <1>1, <1>3, PriceErrors DEF PriceSame
<1>5. EvaluateDamPriceLag24hLinearRegressionMae(y) = Price!Error24(a, B)
  BY <1>3, PriceErrors DEF PriceSame
<1> QED BY <1>1, <1>3, <1>4, <1>5 DEF PriceSame

\* Persistence against the fit of both lags.
LEMMA PriceComparison168 ==
  ASSUME Price!Staged, pc \in {"compare", "forecast", "done"}, NEW c \in 1 .. 2, NEW b \in 1 .. 2,
         NEW x, NEW A, PriceCases(c, x, A), NEW z, NEW D, PriceGuesses168(b, z, D),
         NEW r, r = CompareDamPricePersistenceVsLag24h168hOlsMae(x, z), r # Failed
  PROVE  /\ Price!SameActuals(c, b, TargetsIn(x)) /\ r.count = Price!Cardinality(TargetsIn(x))
         /\ r.persistence = Price!PersistenceError(c, TargetsIn(x))
         /\ r.lag168 = Price!Error168(b, TargetsIn(x))
<1>1. /\ AlignedCohorts({x, z}) /\ SingleSharedMarketAndCurrency({x, z})
      /\ CoherentCurrency(x)
      /\ r = [count |-> Len(x), currency |-> x[1].currency,
              persistence |-> EvaluateDamPricePersistenceMae(x),
              lag168 |-> EvaluateDamPriceLag24h168hLinearRegressionMae(z)]
  BY DEF CompareDamPricePersistenceVsLag24h168hOlsMae
<1>2. {x, x, z} = {x, z}
  OBVIOUS
<1>3. PriceSame(c, x, A, b, z, D)
  BY <1>1, <1>2, PriceTuples, PriceSamePairs
<1>4. EvaluateDamPricePersistenceMae(x) = Price!PersistenceError(c, A)
  BY <1>1, <1>3, PriceErrors DEF PriceSame
<1>5. EvaluateDamPriceLag24h168hLinearRegressionMae(z) = Price!Error168(b, D)
  BY <1>3, PriceErrors DEF PriceSame
<1> QED BY <1>1, <1>3, <1>4, <1>5 DEF PriceSame

\* The fit of one lag against that of both.
LEMMA PriceComparisonBoth ==
  ASSUME Price!Staged, pc \in {"compare", "forecast", "done"}, NEW a \in 1 .. 2, NEW b \in 1 .. 2,
         NEW y, NEW B, PriceGuesses24(a, y, B), NEW z, NEW D, PriceGuesses168(b, z, D),
         NEW r, r = CompareDamPriceLag24hVsLag24h168hOlsMae(y, z), r # Failed
  PROVE  /\ Price!SameActuals(a, b, TargetsIn(y)) /\ r.count = Price!Cardinality(TargetsIn(y))
         /\ r.lag24 = Price!Error24(a, TargetsIn(y)) /\ r.lag168 = Price!Error168(b, TargetsIn(y))
<1>1. /\ AlignedCohorts({y, z}) /\ SingleSharedMarketAndCurrency({y, z})
      /\ r = [count |-> Len(y), currency |-> y[1].currency,
              lag24 |-> EvaluateDamPriceLag24hLinearRegressionMae(y),
              lag168 |-> EvaluateDamPriceLag24h168hLinearRegressionMae(z)]
  BY DEF CompareDamPriceLag24hVsLag24h168hOlsMae
<1>2. {y, y, z} = {y, z}
  OBVIOUS
<1>3. PriceSame(a, y, B, b, z, D)
  BY <1>1, <1>2, PriceTuples, PriceSamePairs
<1>4. EvaluateDamPriceLag24hLinearRegressionMae(y) = Price!Error24(a, B)
  BY <1>3, PriceErrors DEF PriceSame
<1>5. EvaluateDamPriceLag24h168hLinearRegressionMae(z) = Price!Error168(b, D)
  BY <1>3, PriceErrors DEF PriceSame
<1> QED BY <1>1, <1>3, <1>4, <1>5 DEF PriceSame

\* The three-way comparison.
LEMMA PriceComparisonAll ==
  ASSUME Price!Staged, pc \in {"compare", "forecast", "done"},
         NEW c \in 1 .. 2, NEW a \in 1 .. 2, NEW b \in 1 .. 2,
         NEW x, NEW A, PriceCases(c, x, A), NEW y, NEW B, PriceGuesses24(a, y, B),
         NEW z, NEW D, PriceGuesses168(b, z, D),
         NEW r, r = CompareDamPriceThreeWayMae(x, y, z), r # Failed
  PROVE  /\ Price!SameActuals(c, a, TargetsIn(x)) /\ Price!SameActuals(a, b, TargetsIn(x))
         /\ r.count = Price!Cardinality(TargetsIn(x))
         /\ r.persistence = Price!PersistenceError(c, TargetsIn(x))
         /\ r.lag24 = Price!Error24(a, TargetsIn(x)) /\ r.lag168 = Price!Error168(b, TargetsIn(x))
<1>1. /\ AlignedCohorts({x, y, z}) /\ SingleSharedMarketAndCurrency({x, y, z})
      /\ CoherentCurrency(x)
      /\ r = [count |-> Len(x), currency |-> x[1].currency,
              persistence |-> EvaluateDamPricePersistenceMae(x),
              lag24 |-> EvaluateDamPriceLag24hLinearRegressionMae(y),
              lag168 |-> EvaluateDamPriceLag24h168hLinearRegressionMae(z)]
  BY DEF CompareDamPriceThreeWayMae, AlignedMarketCohort
<1>2. {z, x, y} = {x, y, z}
  OBVIOUS
<1>3. AlignedCohorts({x, y}) /\ AlignedCohorts({y, z})
  BY <1>1, AlignedPairs
<1>4. PriceSame(c, x, A, a, y, B)
  BY <1>1, <1>2, <1>3, PriceTuples, PriceSamePairs
<1>5. PriceSame(a, y, B, b, z, D)
  BY <1>1, <1>3, PriceTuples, PriceSamePairs
<1>6. EvaluateDamPricePersistenceMae(x) = Price!PersistenceError(c, A)
  BY <1>1, <1>4, PriceErrors DEF PriceSame
<1>7. EvaluateDamPriceLag24hLinearRegressionMae(y) = Price!Error24(a, B)
  BY <1>4, PriceErrors DEF PriceSame
<1>8. EvaluateDamPriceLag24h168hLinearRegressionMae(z) = Price!Error168(b, D)
  BY <1>5, PriceErrors DEF PriceSame
<1> QED BY <1>1, <1>4, <1>5, <1>6, <1>7, <1>8 DEF PriceSame

\* Every comparison of a price session is of the same targets, actuals and errors.
LEMMA PriceComparesLikeWithLike ==
  ASSUME Price!Staged PROVE Price!ComparesLikeWithLike
<1> SUFFICES ASSUME picked # Nothing PROVE Price!ComparesLikeWithLike
  BY DEF Price!ComparesLikeWithLike
<1>1. pc \in {"forecast", "done"}
  BY DEF Price!Staged
<1>2. PICK c \in 1 .. 2, a \in 1 .. 2, b \in 1 .. 2, fromCutoff \in BOOLEAN :
        Price!Judged(c, a, b, fromCutoff)
  BY <1>1 DEF Price!Staged, Price!Side
<1> DEFINE x == Price!Cohort(c, fromCutoff)
           y == pred24[a]
           z == pred168[b]
<1>3. /\ picked = [cases |-> c, lag24 |-> a, lag168 |-> b, cohort |-> x]
      /\ verdict = Price!Verdict(x, y, z)
  BY <1>2 DEF Price!Judged
<1>4. /\ x # Failed => \E A : PriceCases(c, x, A)
      /\ y # Failed => \E A : PriceGuesses24(a, y, A)
      /\ z # Failed => \E A : PriceGuesses168(b, z, A)
  BY <1>1, PriceCompared
<1> HIDE DEF x, y, z
<1>5. ASSUME Price!Made(verdict.persistence24)
      PROVE  /\ Price!SameActuals(c, a, TargetsIn(x))
             /\ verdict.persistence24.count = Price!Cardinality(TargetsIn(x))
             /\ verdict.persistence24.persistence = Price!PersistenceError(c, TargetsIn(x))
             /\ verdict.persistence24.lag24 = Price!Error24(a, TargetsIn(x))
  <2> DEFINE r == CompareDamPricePersistenceVsTrainedOlsMae(x, y)
  <2>1. x # Failed /\ y # Failed /\ verdict.persistence24 = r /\ r # Failed
    BY <1>3, <1>5, PriceVerdict DEF Price!Made
  <2>2. PICK A, B : PriceCases(c, x, A) /\ PriceGuesses24(a, y, B)
    BY <1>4, <2>1
  <2> QED BY <1>1, <2>1, <2>2, PriceComparison24
<1>6. ASSUME Price!Made(verdict.persistence168)
      PROVE  /\ Price!SameActuals(c, b, TargetsIn(x))
             /\ verdict.persistence168.count = Price!Cardinality(TargetsIn(x))
             /\ verdict.persistence168.persistence = Price!PersistenceError(c, TargetsIn(x))
             /\ verdict.persistence168.lag168 = Price!Error168(b, TargetsIn(x))
  <2> DEFINE r == CompareDamPricePersistenceVsLag24h168hOlsMae(x, z)
  <2>1. x # Failed /\ z # Failed /\ verdict.persistence168 = r /\ r # Failed
    BY <1>3, <1>6, PriceVerdict DEF Price!Made
  <2>2. PICK A, D : PriceCases(c, x, A) /\ PriceGuesses168(b, z, D)
    BY <1>4, <2>1
  <2> QED BY <1>1, <2>1, <2>2, PriceComparison168
<1>7. ASSUME Price!Made(verdict.both)
      PROVE  /\ Price!SameActuals(a, b, TargetsIn(y))
             /\ verdict.both.count = Price!Cardinality(TargetsIn(y))
             /\ verdict.both.lag24 = Price!Error24(a, TargetsIn(y))
             /\ verdict.both.lag168 = Price!Error168(b, TargetsIn(y))
  <2> DEFINE r == CompareDamPriceLag24hVsLag24h168hOlsMae(y, z)
  <2>1. y # Failed /\ z # Failed /\ verdict.both = r /\ r # Failed
    BY <1>3, <1>7, PriceVerdict DEF Price!Made
  <2>2. PICK B, D : PriceGuesses24(a, y, B) /\ PriceGuesses168(b, z, D)
    BY <1>4, <2>1
  <2> QED BY <1>1, <2>1, <2>2, PriceComparisonBoth
<1>8. ASSUME Price!Made(verdict.all)
      PROVE  /\ Price!SameActuals(c, a, TargetsIn(x)) /\ Price!SameActuals(a, b, TargetsIn(x))
             /\ verdict.all.count = Price!Cardinality(TargetsIn(x))
             /\ verdict.all.persistence = Price!PersistenceError(c, TargetsIn(x))
             /\ verdict.all.lag24 = Price!Error24(a, TargetsIn(x))
             /\ verdict.all.lag168 = Price!Error168(b, TargetsIn(x))
  <2> DEFINE r == CompareDamPriceThreeWayMae(x, y, z)
  <2>1. x # Failed /\ y # Failed /\ z # Failed /\ verdict.all = r /\ r # Failed
    BY <1>3, <1>8, PriceVerdict DEF Price!Made
  <2>2. PICK A, B, D : PriceCases(c, x, A) /\ PriceGuesses24(a, y, B) /\ PriceGuesses168(b, z, D)
    BY <1>4, <2>1
  <2> QED BY <1>1, <2>1, <2>2, PriceComparisonAll
<1>9. picked.cases = c /\ picked.lag24 = a /\ picked.lag168 = b /\ picked.cohort = x
  BY <1>3
<1> QED BY <1>5, <1>6, <1>7, <1>8, <1>9 DEF Price!ComparesLikeWithLike, TargetsIn, y

\* The evaluation targets, in their order, are what a live model is asked for.
LEMMA PriceAsked ==
  ASSUME Price!Staged, NEW p \in 1 .. 2, pc = "done", split168[p] # Failed
  PROVE  LET h == source[p]
             s == InOrder(From(T168(h)))
         IN  /\ PriceValid(h)
             /\ Price!Asked(p) = [owner |-> DamPriceIdentity(h[1]), history |-> h, targets |-> s]
             /\ Price!Asked(p) # Failed
<1> DEFINE h == source[p]
           E == From(T168(h))
           s == InOrder(E)
           n == Cardinality(E)
           ev == Taken(PriceRow168(h), E)
<1>1. IsHistory(h)
  BY PriceSource
<1>2. PriceValid(h) /\ ev # << >> /\ split168[p].evaluation = ev
  BY PriceSplit
<1>3. E \subseteq Int /\ IsFiniteSet(E) /\ E \subseteq T168(h) /\ E \subseteq StampsOf(h)
  BY <1>1, StampsFinite DEF T168, From, TargetsOf
<1>4. /\ n \in Nat /\ s \in [1 .. n -> E] /\ DOMAIN ev = 1 .. n
      /\ \A k \in 1 .. n : ev[k] = PriceRow168(h)[s[k]]
  <2>1. n \in Nat /\ s \in [1 .. n -> E]
    BY <1>3, InOrderEnumerates
  <2> HIDE DEF E
  <2>2. DOMAIN ev = 1 .. n /\ \A k \in 1 .. n : ev[k] = PriceRow168(h)[s[k]]
    BY <1>3, TakenIs
  <2> QED BY <2>1, <2>2
<1>5. E # {}
  <2>1. \A t \in E : PriceRow168(h)[t].target = t
    BY <1>3 DEF PriceRow168
  <2>2. Dated(PriceRow168(h), E)
    BY <1>3, <2>1 DEF Dated
  <2> QED BY <1>2, <2>2, TargetsAlong
<1> HIDE DEF E, n, ev
<1>6. s \in Seq(Int) /\ s # << >>
  <2>0. \A k \in 1 .. n : s[k] \in Int
    BY <1>3, <1>4
  <2>1. s \in [1 .. n -> Int]
    BY <1>4, <2>0
  <2>2. s \in Seq(Int) /\ Len(s) = n
    BY <1>4, <2>1, FcnIsSeq
  <2>3. n # 0
    BY <1>3, <1>5, FS_EmptySet DEF n
  <2> HIDE DEF s
  <2> QED BY <2>2, <2>3
<1>7. Price!EvaluationTargets(p) = s
  <2>1. Price!EvaluationTargets(p) = [k \in 1 .. n |-> ev[k].target]
    BY <1>2, <1>4 DEF Price!EvaluationTargets
  <2>2. \A k \in 1 .. n : ev[k].target = s[k]
    <3> TAKE k \in 1 .. n
    <3>1. s[k] \in T168(h) /\ ev[k] = PriceRow168(h)[s[k]]
      BY <1>3, <1>4
    <3> HIDE DEF s
    <3> QED BY <3>1 DEF PriceRow168
  <2> HIDE DEF s
  <2> QED BY <1>4, <2>1, <2>2
<1>8. /\ h[1].market \in Markets(h) /\ Markets(h) = {h[1].market}
      /\ h[1].currency \in Currencies(h) /\ Currencies(h) = {h[1].currency}
  <2>1. 1 \in DOMAIN h
    <3>1. DOMAIN h # {}
      BY <1>3, <1>5 DEF StampsOf
    <3>2. Len(h) \in Nat /\ DOMAIN h = 1 .. Len(h)
      BY <1>1 DEF IsHistory, IsTuple
    <3> HIDE DEF h
    <3> QED BY <3>1, <3>2
  <2>2. h[1].market \in Markets(h) /\ h[1].currency \in Currencies(h)
    BY <2>1 DEF Markets, Currencies
  <2>3. /\ IsFiniteSet(Markets(h)) /\ Single(Markets(h))
        /\ IsFiniteSet(Currencies(h)) /\ Single(Currencies(h))
    BY <1>1, <1>2, SeriesFinite DEF IsHistory, PriceValid, SingleMarketAndCurrency
  <2> HIDE DEF h
  <2> QED BY <2>2, <2>3, SingleIs
<1> DEFINE o == <<h[1].market, h[1].currency>>
<1>o. o \in Markets(h) \X Currencies(h) /\ {DamPriceIdentity(h[i]) : i \in DOMAIN h} \subseteq {o}
  <2>1. \A i \in DOMAIN h : h[i].market \in Markets(h) /\ h[i].currency \in Currencies(h)
    BY DEF Markets, Currencies
  <2>2. \A i \in DOMAIN h : h[i].market = h[1].market /\ h[i].currency = h[1].currency
    BY <1>8, <2>1
  <2> HIDE DEF h
  <2> QED BY <1>8, <2>2 DEF DamPriceIdentity
<1> HIDE DEF o
<1> DEFINE r == [owner |-> o, history |-> h, targets |-> s]
<1>9. r # Failed
  <2>1. Failed \notin [owner : Markets(h) \X Currencies(h), history : {h}, targets : Seq(Int)]
    BY PriceSource
  <2>2. r \in [owner : Markets(h) \X Currencies(h), history : {h}, targets : Seq(Int)]
    BY <1>6, <1>o
  <2> QED BY <2>1, <2>2
<1>10. Price!Asked(p) = r
  <2>1. Price!Asked(p) = DamPriceForecastModelRequest(o, h, s)
    BY <1>7 DEF Price!Asked, DamPriceIdentity, o
  <2> HIDE DEF s, h
  <2> QED BY <1>6, <1>o, <2>1 DEF DamPriceForecastModelRequest
<1> QED BY <1>2, <1>9, <1>10 DEF E, DamPriceIdentity, o

\* The live lookup finds the lags of every evaluation target.
LEMMA PriceLagsFound ==
  ASSUME Price!Staged, NEW p \in 1 .. 2, PriceValid(source[p])
  PROVE  LET h == source[p]
         IN  \A t \in T168(h) :
               /\ UniqueLagObservation(h, t - Lag24h) = ByTimestamp(h)[t - Lag24h]
               /\ UniqueLagObservation(h, t - Lag168h) = ByTimestamp(h)[t - Lag168h]
               /\ ByTimestamp(h)[t - Lag24h] # Failed /\ ByTimestamp(h)[t - Lag168h] # Failed
<1> DEFINE h == source[p]
<1>1. IsHistory(h) /\ UniqueTimestamps(h) /\ \A i \in DOMAIN h : h[i] # Failed
  BY PriceSource DEF PriceValid
<1>2. \A t \in T168(h) : t - Lag24h \in StampsOf(h) /\ t - Lag168h \in StampsOf(h)
  BY DEF T168, TargetsOf
<1>3. \A t \in StampsOf(h) : ByTimestamp(h)[t] # Failed
  BY <1>1, ByTimestampFinds
<1> HIDE DEF h
<1> SUFFICES ASSUME NEW t \in T168(h)
             PROVE  /\ UniqueLagObservation(h, t - Lag24h) = ByTimestamp(h)[t - Lag24h]
                    /\ UniqueLagObservation(h, t - Lag168h) = ByTimestamp(h)[t - Lag168h]
                    /\ ByTimestamp(h)[t - Lag24h] # Failed /\ ByTimestamp(h)[t - Lag168h] # Failed
  BY DEF h
<1> QED BY <1>1, <1>2, <1>3, LagIsFound

\* The live regression answers what the backtest scored.
LEMMA PriceLiveOls ==
  ASSUME Price!Staged, NEW p \in 1 .. 2, pc = "done", pred168[p] # Failed
  PROVE  LET scored == pred168[p]
         IN  live[p].ols = [i \in DOMAIN scored |->
               [owner |-> DamPriceIdentity(source[p][1]), target |-> scored[i].target,
                predicted |-> scored[i].predicted, over |-> scored[i].over]]
<1> DEFINE h == source[p]
           E == From(T168(h))
           s == InOrder(E)
           fit == fit168[trainedOn]
           scored == pred168[p]
           b == ByTimestamp(h)
           owner == DamPriceIdentity(h[1])
           r == [owner |-> owner, history |-> h, targets |-> s]
           value(t) == Predict168(fit, b[t - Lag24h].amount, b[t - Lag168h].amount)
<1>1. /\ PriceValid(h) /\ fit # Failed /\ split168[p] # Failed
      /\ scored = Taken(PricePrediction168(fit, h), E)
  BY PricePredicted
<1>2. Price!Asked(p) = r /\ r # Failed
  BY <1>1, PriceAsked
<1>3. live[p].ols = Lag24h168hOlsDamPriceForecast(fit, r)
  <2>1. live[p].ols = Price!Answers(p).ols
    BY DEF Price!Staged, Price!Side
  <2> HIDE DEF r, fit
  <2> QED BY <1>1, <1>2, <2>1 DEF Price!Answers, Price!Then, fit
<1>4. E \subseteq Int /\ IsFiniteSet(E) /\ E \subseteq T168(h)
  <2>1. IsHistory(h)
    BY PriceSource
  <2> QED BY <2>1, StampsFinite DEF T168, From
<1>5. /\ DOMAIN scored = DOMAIN s
      /\ \A k \in DOMAIN s : s[k] \in E
      /\ \A k \in DOMAIN s : scored[k] = PricePrediction168(fit, h)[s[k]]
  <2> DEFINE f == PricePrediction168(fit, h)
  <2>1. scored = Taken(f, E)
    BY <1>1
  <2> HIDE DEF E, f, scored
  <2>2. /\ DOMAIN Taken(f, E) = 1 .. Cardinality(E) /\ DOMAIN s = 1 .. Cardinality(E)
        /\ \A k \in 1 .. Cardinality(E) : s[k] \in E
        /\ \A k \in 1 .. Cardinality(E) : Taken(f, E)[k] = f[s[k]]
    BY <1>4, TakenIs
  <2> HIDE DEF s
  <2> QED BY <2>1, <2>2 DEF f
<1>6. \A k \in DOMAIN s : s[k] \in T168(h)
  BY <1>4, <1>5
<1>7. \A k \in DOMAIN s :
        /\ UniqueLagObservation(h, s[k] - Lag24h) = b[s[k] - Lag24h]
        /\ UniqueLagObservation(h, s[k] - Lag168h) = b[s[k] - Lag168h]
        /\ b[s[k] - Lag24h] # Failed /\ b[s[k] - Lag168h] # Failed
  BY <1>1, <1>6, PriceLagsFound
<1>8. \A k \in DOMAIN s : scored[k].target = s[k] /\ scored[k].over = fit.over /\ scored[k].predicted = value(s[k])
  <2> TAKE k \in DOMAIN s
  <2>1. s[k] \in T168(h) /\ scored[k] = PricePrediction168(fit, h)[s[k]]
    BY <1>5, <1>6
  <2> HIDE DEF s, scored, fit, h, E, r, owner
  <2> QED BY <2>1 DEF PricePrediction168
<1> HIDE DEF s, scored, fit, h, b, owner
<1>9. Lag24h168hOlsDamPriceForecast(fit, r)
        = [k \in DOMAIN s |-> [owner |-> owner, target |-> s[k], over |-> fit.over,
                               predicted |-> value(s[k])]]
  <2>1. r.owner = owner /\ r.history = h /\ r.targets = s
    OBVIOUS
  <2> HIDE DEF r
  <2> QED BY <1>7, <2>1 DEF Lag24h168hOlsDamPriceForecast
<1>10. \A k \in DOMAIN s :
         [owner |-> owner, target |-> s[k], over |-> fit.over, predicted |-> value(s[k])]
           = [owner |-> owner, target |-> scored[k].target,
              predicted |-> scored[k].predicted, over |-> scored[k].over]
  BY <1>8
<1>11. live[p].ols = [k \in DOMAIN scored |->
          [owner |-> owner, target |-> scored[k].target,
           predicted |-> scored[k].predicted, over |-> scored[k].over]]
  BY <1>3, <1>5, <1>9, <1>10
<1> QED BY <1>11 DEF scored, owner, h

\* The live persistence answers cases of the backtest.
LEMMA PriceLivePersistence ==
  ASSUME Price!Staged, NEW p \in 1 .. 2, pc = "done", split168[p] # Failed
  PROVE  \A i \in DOMAIN live[p].persistence : \E k \in DOMAIN cases[p] :
           /\ cases[p][k].target = live[p].persistence[i].target
           /\ cases[p][k].predicted = live[p].persistence[i].predicted
<1> DEFINE h == source[p]
           E == From(T168(h))
           s == InOrder(E)
           b == ByTimestamp(h)
           owner == DamPriceIdentity(h[1])
           r == [owner |-> owner, history |-> h, targets |-> s]
<1>1. PriceValid(h) /\ Price!Asked(p) = r /\ r # Failed
  BY PriceAsked
<1>2. live[p].persistence = PreviousDayPersistenceDamPriceForecast(r)
  <2>1. live[p].persistence = Price!Answers(p).persistence
    BY DEF Price!Staged, Price!Side
  <2> HIDE DEF r
  <2> QED BY <1>1, <2>1 DEF Price!Answers, Price!Then
<1>3. IsHistory(h) /\ T24(h) \subseteq Int /\ IsFiniteSet(T24(h))
  BY PriceSource, StampsFinite DEF T24
<1>4. E \subseteq Int /\ IsFiniteSet(E) /\ E \subseteq T168(h) /\ E \subseteq T24(h)
  BY <1>3, StampsFinite DEF T168, From, T24, TargetsOf
<1>5. \A k \in DOMAIN s : s[k] \in E
  <2> HIDE DEF E
  <2> QED BY <1>4, TakenIs
<1>6. \A k \in DOMAIN s : s[k] \in T168(h) /\ s[k] \in T24(h)
  BY <1>4, <1>5
<1>7. \A k \in DOMAIN s : /\ UniqueLagObservation(h, s[k] - Lag24h) = b[s[k] - Lag24h]
                          /\ b[s[k] - Lag24h] # Failed
  BY <1>1, <1>6, PriceLagsFound
<1>8. cases[p] = Taken(PriceCase(h), T24(h))
  <2>1. cases[p] = BuildDamPricePersistenceBacktestCases(h)
    BY DEF Price!Staged, Price!Side
  <2> QED BY <1>1, <1>3, <2>1, PriceRows
<1>9. \A t \in T24(h) : \E k \in DOMAIN cases[p] : cases[p][k] = PriceCase(h)[t]
  <2>1. Instants(T24(h))
    BY <1>3 DEF Instants
  <2> QED BY <1>8, <2>1, TakenEach
<1> HIDE DEF s, h, b, owner
<1>10. live[p].persistence = [k \in DOMAIN s |-> [owner |-> <<owner[1], b[s[k] - Lag24h].currency>>, target |-> s[k],
                                                  predicted |-> b[s[k] - Lag24h].amount, over |-> 1]]
  <2>1. r.owner = owner /\ r.history = h /\ r.targets = s
    OBVIOUS
  <2> HIDE DEF r
  <2> QED BY <1>2, <1>7, <2>1 DEF PreviousDayPersistenceDamPriceForecast
<1>11. ASSUME NEW i \in DOMAIN live[p].persistence
       PROVE  \E k \in DOMAIN cases[p] : /\ cases[p][k].target = live[p].persistence[i].target
                                         /\ cases[p][k].predicted = live[p].persistence[i].predicted
  <2>1. i \in DOMAIN s
    BY <1>10
  <2>2. live[p].persistence[i].target = s[i] /\ live[p].persistence[i].predicted = b[s[i] - Lag24h].amount
    BY <1>10, <2>1
  <2>3. PICK k \in DOMAIN cases[p] : cases[p][k] = PriceCase(h)[s[i]]
    BY <1>6, <1>9, <2>1
  <2>4. PriceCase(h)[s[i]].target = s[i] /\ PriceCase(h)[s[i]].predicted = b[s[i] - Lag24h].amount
    BY <1>6, <2>1 DEF PriceCase, b
  <2> QED BY <2>2, <2>3, <2>4
<1> QED BY <1>11

\* The live models of a price session answer what the backtest scored.
LEMMA PriceLiveAgreesWithBacktest ==
  ASSUME Price!Staged PROVE Price!LiveAgreesWithBacktest
<1> SUFFICES ASSUME pc = "done", NEW p \in 1 .. 2
             PROVE  /\ Price!Made(pred168[p]) =>
                         LET scored == pred168[p]
                         IN  IF FALSE /\ \E i \in DOMAIN scored : scored[i].predicted < 0
                             THEN live[p].ols = Failed
                             ELSE live[p].ols = [i \in DOMAIN scored |->
                                    [owner |-> DamPriceIdentity(source[p][1]), target |-> scored[i].target,
                                     predicted |-> scored[i].predicted, over |-> scored[i].over]]
                    /\ Price!Made(split168[p]) =>
                         \A i \in DOMAIN live[p].persistence : \E k \in DOMAIN cases[p] :
                           /\ cases[p][k].target = live[p].persistence[i].target
                           /\ cases[p][k].predicted = live[p].persistence[i].predicted
  BY DEF Price!LiveAgreesWithBacktest, Price!Side
<1> QED BY PriceLiveOls, PriceLivePersistence DEF Price!Made

\* A fit of a price session, of one lag or of both, has a positive denominator.
LEMMA PriceOver24 ==
  ASSUME Price!Staged, NEW p \in 1 .. 2, pc \notin {"features", "split", "fit"}, fit24[p] # Failed
  PROVE  fit24[p].over > 0
<1> DEFINE h == source[p]
           T == Before(T24(h))
           X == PriceLags(h, Lag24h, T24(h))
           Y == PriceActuals(h, T24(h))
           rows == Taken(PriceRow24(h), T)
           fit == fit24[p]
<1>1. IsHistory(h)
  BY PriceSource
<1>2. T \subseteq Int /\ IsFiniteSet(T)
  BY <1>1, StampsFinite DEF T24
<1>3. T \subseteq T24(h)
  BY DEF Before
<1>4. \A t \in T : X[t] \in Int /\ Y[t] \in Int
  BY PriceAt, <1>3 DEF T24, TargetsOf, PriceLags, PriceActuals
<1>5. Len(rows) = Cardinality(T) /\ Cardinality(T) \in Nat
  BY <1>2, TakenIs
<1>6. fit = FitOneLag(Taken(X, T), Taken(Y, T)) /\ fit # Failed /\ Len(rows) >= 2
  <2>1. fit # Failed /\ fit = FitDamPriceLag24hLinearRegression(rows)
    BY PriceFit
  <2>2. Lag24Of(rows) = Taken(X, T) /\ ActualOf(rows) = Taken(Y, T)
    BY <1>1, <1>3, PriceColumns24
  <2> QED BY <2>1, <2>2 DEF FitDamPriceLag24hLinearRegression, Lag24Of, ActualOf
<1> HIDE DEF h, T, X, Y, rows, fit
<1>7. Cardinality(T) >= 1
  BY <1>5, <1>6
<1>8. fit.over > 0
  BY <1>2, <1>4, <1>6, <1>7, LineOverAlong
<1> QED BY <1>8 DEF fit

\* The same of a fit of both lags.
LEMMA PriceOver168 ==
  ASSUME Price!Staged, NEW p \in 1 .. 2, pc \notin {"features", "split", "fit"}, fit168[p] # Failed
  PROVE  fit168[p].over > 0
<1> DEFINE h == source[p]
           T == Before(T168(h))
           X == PriceLags(h, Lag24h, T168(h))
           Z == PriceLags(h, Lag168h, T168(h))
           Y == PriceActuals(h, T168(h))
           rows == Taken(PriceRow168(h), T)
           fit == fit168[p]
<1>1. IsHistory(h)
  BY PriceSource
<1>2. T \subseteq Int /\ IsFiniteSet(T)
  BY <1>1, StampsFinite DEF T168
<1>3. T \subseteq T168(h)
  BY DEF Before
<1>4. \A t \in T : X[t] \in Int /\ Z[t] \in Int /\ Y[t] \in Int
  BY PriceAt, <1>3 DEF T168, TargetsOf, PriceLags, PriceActuals
<1>5. Len(rows) = Cardinality(T) /\ Cardinality(T) \in Nat
  BY <1>2, TakenIs
<1>6. fit = FitTwoLags(Taken(X, T), Taken(Z, T), Taken(Y, T)) /\ fit # Failed /\ Len(rows) >= 3
  <2>1. fit # Failed /\ fit = FitDamPriceLag24h168hLinearRegression(rows)
    BY PriceFit
  <2>2. /\ Lag24Of(rows) = Taken(X, T) /\ Lag168Of(rows) = Taken(Z, T)
        /\ ActualOf(rows) = Taken(Y, T)
    BY <1>1, <1>3, PriceColumns168
  <2> QED BY <2>1, <2>2 DEF FitDamPriceLag24h168hLinearRegression, Lag24Of, Lag168Of, ActualOf
<1> HIDE DEF h, T, X, Y, Z, rows, fit
<1>7. Cardinality(T) >= 1
  BY <1>5, <1>6
<1>8. fit.over > 0
  BY <1>2, <1>4, <1>6, <1>7, PlaneOverAlong
<1> QED BY <1>8 DEF fit

\* Every fit of a price session divides by a positive number.
LEMMA PriceTypeOK ==
  ASSUME Price!Staged PROVE Price!TypeOK
<1>1. \A p \in 1 .. 2 : /\ Price!Made(fit24[p]) => fit24[p].over > 0
                        /\ Price!Made(fit168[p]) => fit168[p].over > 0
  BY PriceFit, PriceOver24, PriceOver168
<1> QED BY <1>1 DEF Price!Staged, Price!TypeOK, Price!Side

------------------------------------------------------------------------------
(* The theorems.                                                           *)

\* The inductive invariant: whichever family is backtested, each stage has computed what it
\* computes from the stage before, and no later stage has changed it.
BacktestsStaged == family \in {"load", "price"} /\ Of(Load!Staged, Price!Staged)

\* Every state of a session is one its pipeline of build_*, split_*, fit_*, predict_*,
\* compare_* and live calls computes from the input histories: no stage is fed, or has
\* overwritten, another's result.
THEOREM BacktestsAreStaged == Spec => []BacktestsStaged
<1>1. Init => BacktestsStaged
  BY LoadStagedInit, PriceStagedInit DEF Init, BacktestsStaged, Of
<1>2. BacktestsStaged /\ [Next]_vars => BacktestsStaged'
  <2> SUFFICES ASSUME BacktestsStaged, [Next]_vars PROVE BacktestsStaged'
    OBVIOUS
  <2>1. CASE family = "load" /\ Load!Next /\ UNCHANGED family
    <3>1. Load!Staged'
      BY <2>1, LoadStagedNext DEF BacktestsStaged, Of
    <3> QED BY <2>1, <3>1 DEF BacktestsStaged, Of
  <2>2. CASE family = "price" /\ Price!Next /\ UNCHANGED family
    <3>1. Price!Staged'
      BY <2>2, PriceStagedNext DEF BacktestsStaged, Of
    <3> QED BY <2>2, <3>1 DEF BacktestsStaged, Of
  <2>3. CASE UNCHANGED vars
    <3>1. UNCHANGED Load!vars /\ UNCHANGED Price!vars /\ UNCHANGED family
      BY <2>3 DEF vars, Load!vars, Price!vars
    <3>2. Load!Staged => Load!Staged'
      BY <3>1, LoadStagedSame
    <3>3. Price!Staged => Price!Staged'
      BY <3>1, PriceStagedSame
    <3> QED BY <3>1, <3>2, <3>3 DEF BacktestsStaged, Of
  <2> QED BY <2>1, <2>2, <2>3 DEF Next
<1> QED BY <1>1, <1>2, PTL DEF Spec

\* For every pair of histories, cutoff and lags: the observations from the cutoff on leak into
\* no fit. The fit of the training rows that split_*_chronologically leaves is the fit of the
\* rows built from the earlier observations alone (an earlier target has only earlier lags).
THEOREM NoFitSeesTheFuture == Spec => []FitIgnoresTheFuture
<1>1. BacktestsStaged => FitIgnoresTheFuture
  BY LoadIgnoresTheFuture, PriceIgnoresTheFuture DEF BacktestsStaged, FitIgnoresTheFuture, Of
<1> QED BY <1>1, BacktestsAreStaged, PTL

\* The closed forms of fit_*_linear_regression, with one lag and, by Cramer's rule, with two,
\* are least squares fits for every history: over the training targets the residuals sum to
\* zero and are orthogonal to each lag, in exact arithmetic.
THEOREM FitsSolveTheNormalEquations == Spec => []FitIsLeastSquares
<1>1. BacktestsStaged => FitIsLeastSquares
  BY LoadIsLeastSquares, PriceIsLeastSquares DEF BacktestsStaged, FitIsLeastSquares, Of
<1> QED BY <1>1, BacktestsAreStaged, PTL

\* A compare_*_mae that answers, for any two histories and any cohorts the caller mixes, has
\* compared the same targets with the same actuals, of one consumer or of one market in one
\* currency, and reports the errors an independent recomputation from the observations gives.
THEOREM ComparisonsAreLikeWithLike == Spec => []ComparesLikeWithLike
<1>1. BacktestsStaged => ComparesLikeWithLike
  BY LoadComparesLikeWithLike, PriceComparesLikeWithLike DEF BacktestsStaged, ComparesLikeWithLike, Of
<1> QED BY <1>1, BacktestsAreStaged, PTL

\* The live forecasts are the ones the backtest scored, at every evaluation target; a load
\* forecast is refused if one of them is negative.
THEOREM LiveForecastsAreTheScoredOnes == Spec => []LiveAgreesWithBacktest
<1>1. BacktestsStaged => LiveAgreesWithBacktest
  BY LoadLiveAgreesWithBacktest, PriceLiveAgreesWithBacktest DEF BacktestsStaged, LiveAgreesWithBacktest, Of
<1> QED BY <1>1, BacktestsAreStaged, PTL

\* Every fit of a session divides by a positive number: the guards on the rows and on the
\* singular design (denominator = 0, determinant <= 0) leave no fit to divide by zero with.
THEOREM FitsDivideByPositives == Spec => []Of(Load!TypeOK, Price!TypeOK)
<1>1. BacktestsStaged => Of(Load!TypeOK, Price!TypeOK)
  BY LoadTypeOK, PriceTypeOK DEF BacktestsStaged, Of
<1> QED BY <1>1, BacktestsAreStaged, PTL
==============================================================================
