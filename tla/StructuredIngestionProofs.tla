---------------------- MODULE StructuredIngestionProofs -----------------------
(***************************************************************************)
(* For sources of any length and any content, every zone, grid and schema: *)
(* what an ingestion of the consumption port answers.                      *)
(* The properties speak of results; the invariant says of the rows read so *)
(* far that each is a candidate, in source order, or a dead letter, and of *)
(* the columns that they were taken from a header the unit policy let      *)
(* through.  The last step moves faulty candidates to the dead letters.    *)
(* The last section is about the repository, which shares no name with the *)
(* ingestion: no theorem speaks of both.                                   *)
(***************************************************************************)
EXTENDS StructuredIngestion, ConsumptionRepository, FiniteSetTheorems, TLAPS

-----------------------------------------------------------------------------
(* Local times                                                             *)

\* The answers of LocalizeNaive by where the wall clock lies.
LEMMA ReadingsOfAWallClock ==
  ASSUME NEW zone, IsZone(zone), NEW wall \in Int
  PROVE  LET w     == wall - zone.base
             first == ReplaceTzinfo(zone, wall, 0)
             second == ReplaceTzinfo(zone, wall, 1)
         IN  /\ first \in Int /\ second \in Int
             /\ first = (IF zone.start + zone.shift <= w /\ w < zone.end + zone.shift
                         THEN w - zone.shift ELSE w)
             /\ second = (IF zone.start <= w /\ w < zone.end THEN w - zone.shift ELSE w)
BY DEF IsZone, ReplaceTzinfo

\* The instants that show a wall clock.
LEMMA ShownInstants ==
  ASSUME NEW zone, IsZone(zone), NEW wall \in Int, NEW u \in Int
  PROVE  Wall(zone, u) = wall <=>
           LET w == wall - zone.base IN
             \/ u = w /\ ~(zone.start <= w /\ w < zone.end)
             \/ u = w - zone.shift /\ zone.start + zone.shift <= w /\ w < zone.end + zone.shift
BY DEF IsZone, Wall, Offset

Shown(zone, wall) == {u \in MinInstant .. MaxInstant : Wall(zone, u) = wall}

\* A wall clock is accepted exactly when one instant shows it, and read as that instant.
LEMMA AcceptedNamesOneInstant ==
  ASSUME NEW zone, IsZone(zone), NEW wall \in Int
  PROVE  /\ LocalizeNaive(wall, zone).outcome = "ok" <=> Cardinality(Shown(zone, wall)) = 1
         /\ LocalizeNaive(wall, zone).outcome = "ok" => Shown(zone, wall) = {LocalizeNaive(wall, zone).v}
<1> SUFFICES ASSUME NEW shown, shown = {u \in MinInstant .. MaxInstant : Wall(zone, u) = wall},
                    NEW answer, answer = LocalizeNaive(wall, zone)
             PROVE  /\ answer.outcome = "ok" <=> Cardinality(shown) = 1
                    /\ answer.outcome = "ok" => shown = {answer.v}
  BY DEF Shown
<1> DEFINE w == wall - zone.base
           first == ReplaceTzinfo(zone, wall, 0)
           second == ReplaceTzinfo(zone, wall, 1)
           Instants == MinInstant .. MaxInstant
           before == w < zone.start
           gap == zone.start <= w /\ w < zone.start + zone.shift
           during == zone.start + zone.shift <= w /\ w < zone.end
           overlap == zone.end <= w /\ w < zone.end + zone.shift
           after == zone.end + zone.shift <= w
<1>0. /\ zone.base \in Int /\ zone.shift \in Int /\ zone.start \in Int /\ zone.end \in Int
      /\ 0 <= zone.shift /\ w \in Int /\ MinInstant \in Int /\ MaxInstant \in Int
      /\ MinInstant <= zone.start /\ zone.start + zone.shift < zone.end
      /\ zone.end + zone.shift <= MaxInstant
  BY RangeAssumption DEF IsZone
<1>1. /\ first \in Int /\ second \in Int
      /\ first = (IF zone.start + zone.shift <= w /\ w < zone.end + zone.shift THEN w - zone.shift ELSE w)
      /\ second = (IF zone.start <= w /\ w < zone.end THEN w - zone.shift ELSE w)
  BY ReadingsOfAWallClock
<1>2. \A u \in Int : Wall(zone, u) = wall <=>
        \/ u = w /\ ~(zone.start <= w /\ w < zone.end)
        \/ u = w - zone.shift /\ zone.start + zone.shift <= w /\ w < zone.end + zone.shift
  BY ShownInstants
<1>3. answer = IF first \notin Instants \/ second \notin Instants THEN Raised
               ELSE IF first # second THEN Rejected
               ELSE IF Wall(zone, first) # wall THEN Rejected ELSE Ok(first)
  BY DEF LocalizeNaive
<1>4. /\ Raised.outcome # "ok" /\ Rejected.outcome # "ok"
      /\ Ok(first).outcome = "ok" /\ Ok(first).v = first
  BY DEF Raised, Rejected, Ok
<1> HIDE DEF w, first, second
<1>5. shown = {u \in Instants : Wall(zone, u) = wall} /\ Instants \subseteq Int
  BY <1>0
<1>f. \A x : IsFiniteSet({x}) /\ Cardinality({x}) = 1
  BY FS_Singleton
<1>6. CASE before \/ after \/ during
  <2> DEFINE u == IF during THEN w - zone.shift ELSE w
  <2>1. first = u /\ second = u /\ u \in Int /\ Wall(zone, u) = wall
    BY <1>0, <1>1, <1>2, <1>6
  <2>2. \A x \in Int : Wall(zone, x) = wall => x = u
    BY <1>0, <1>2, <1>6
  <2> HIDE DEF u
  <2>3. CASE u \in Instants
    <3>1. shown = {u}
      BY <1>5, <2>1, <2>2, <2>3
    <3>2. answer = Ok(first)
      BY <1>3, <2>1, <2>3
    <3> QED BY <3>1, <3>2, <2>1, <1>4, <1>f
  <2>4. CASE u \notin Instants
    <3>1. shown = {}
      BY <1>5, <2>2, <2>4
    <3>2. answer = Raised
      BY <1>3, <2>1, <2>4
    <3> QED BY <3>1, <3>2, <1>4, FS_EmptySet
  <2> QED BY <2>3, <2>4
<1>7. CASE gap
  <2>1. first # second
    BY <1>0, <1>1, <1>7
  <2>2. \A x \in Int : Wall(zone, x) # wall
    BY <1>0, <1>2, <1>7
  <2>3. shown = {}
    BY <1>5, <2>2
  <2>4. answer = Raised \/ answer = Rejected
    BY <1>3, <2>1
  <2> QED BY <2>3, <2>4, <1>4, FS_EmptySet
<1>8. CASE overlap
  <2>1. first = w - zone.shift /\ second = w /\ first # second
    BY <1>0, <1>1, <1>8
  <2>2. first \in Instants /\ second \in Instants /\ Wall(zone, first) = wall /\ Wall(zone, second) = wall
    BY <1>0, <1>2, <1>8, <2>1
  <2>3. first \in shown /\ second \in shown
    BY <1>5, <2>2
  <2>4. IsFiniteSet(shown)
    BY <1>0, <1>5, FS_Interval, FS_Subset
  <2>5. Cardinality(shown) # 1
    BY <2>1, <2>3, <2>4, FS_Singleton
  <2>6. answer = Rejected
    BY <1>3, <2>1, <2>2
  <2> QED BY <2>5, <2>6, <1>4
<1> QED BY <1>0, <1>6, <1>7, <1>8

-----------------------------------------------------------------------------
(* Headers                                                                 *)

\* What UnitsAsDeclared needs of the header of the value column.
ClaimsTheUnit(words, unit) ==
  LET claim == Last(NormalizeFieldName(words)) IN
    /\ NormalizeFieldName(words) # << >>
    /\ claim \notin EnergyLastTokens
    /\ claim = "mw" => unit = "MW"
    /\ claim = "kw" => unit = "KW"

\* The columns of an accepted schema: one per field, and a value column in the unit.
GoodColumns(index, headers, unit) ==
  /\ \A f \in RequiredFields : index[f] \in DOMAIN headers
  /\ ClaimsTheUnit(headers[index["value_mw"]], unit)

\* A resolution keeps the normalized header, and resolves no blank one.
LEMMA ResolvedHeaders ==
  ASSUME NEW specs, NEW words, NEW r, r = ResolveField(specs, words)
  PROVE  /\ DOMAIN r = {"source", "status", "field", "method"}
         /\ r.source = NormalizeFieldName(words)
         /\ r.status = "resolved" => r.source # << >>
<1> DEFINE name == NormalizeFieldName(words)
           ranked == RankFuzzyCandidates(specs, name)
           exact == {i \in DOMAIN specs : name \in MatchTargets(specs[i])}
<1>1. \/ r = Resolution(words, "unresolved", "none", "none")
      \/ r = Resolution(words, "ambiguous", "none", "none")
      \/ name # << >> /\ r = Resolution(words, "resolved", specs[CHOOSE i \in exact : TRUE].name, "exact")
      \/ name # << >> /\ r = Resolution(words, "resolved", ranked[1].field, "fuzzy")
  BY DEF ResolveField
<1> HIDE DEF ranked, exact
<1> QED BY <1>1 DEF Resolution

\* A value column that the unit policy leaves resolved claims the unit or nothing.
LEMMA PolicyLeavesTheUnit ==
  ASSUME NEW unit \in PowerUnits, NEW r, DOMAIN r = {"source", "status", "field", "method"},
         r.status = "resolved" => r.source # << >>,
         NEW p, p = ApplyHeaderUnitPolicy(r, PowerToken[unit]),
         p.status = "resolved", p.field = "value_mw"
  PROVE  LET claim == Last(r.source) IN
           /\ r.source # << >> /\ claim \notin EnergyLastTokens
           /\ claim = "mw" => unit = "MW"
           /\ claim = "kw" => unit = "KW"
<1> DEFINE expected == PowerToken[unit]
           safe == IF r.method = "fuzzy"
                   THEN Last(r.source) = expected /\ ~IsEnergyLike(r.source)
                   ELSE ~HeaderClaimsConflictingUnit(r.source, expected)
           dropped == [r EXCEPT !.status = "unresolved", !.field = "none", !.method = "none"]
<1>1. dropped.field = "none"
  OBVIOUS
<1>2. p = IF r.status = "resolved" /\ r.field = "value_mw" /\ ~safe THEN dropped ELSE r
  BY DEF ApplyHeaderUnitPolicy
<1>3. p = r /\ safe
  BY <1>1, <1>2
<1>4. r.source # << >>
  BY <1>3
<1>5. /\ expected \in {"mw", "kw"} /\ (expected = "mw" => unit = "MW") /\ (expected = "kw" => unit = "KW")
  BY DEF PowerToken, PowerUnits
<1> HIDE DEF expected
<1>6. ~IsEnergyLike(r.source) /\ Last(r.source) \notin {"mw", "kw"} \ {expected}
  <2>1. CASE r.method = "fuzzy"
    BY <1>3, <2>1
  <2>2. CASE r.method # "fuzzy"
    BY <1>3, <1>4, <2>2 DEF HeaderClaimsConflictingUnit
  <2> QED BY <2>1, <2>2
<1>7. Last(r.source) \notin EnergyLastTokens
  BY <1>4, <1>6 DEF IsEnergyLike
<1> QED BY <1>4, <1>5, <1>6, <1>7

\* The columns of a schema in which nothing is missing and nothing collides.
LEMMA AcceptedColumnsAreGood ==
  ASSUME NEW specs, NEW headers, IsTuple(headers), NEW unit \in PowerUnits,
         NEW schema, schema = ApplyConsumptionUnitSafety(ResolveSchema(specs, headers), unit),
         schema.missing = {}, schema.collisions = {},
         NEW index, index = CanonicalColumnIndex(schema)
  PROVE  GoodColumns(index, headers, unit) /\ DOMAIN index = RequiredFields
<1> DEFINE raw == [i \in DOMAIN headers |-> ResolveField(specs, headers[i])]
           safe == [i \in DOMAIN headers |-> ApplyHeaderUnitPolicy(raw[i], PowerToken[unit])]
<1>1. ResolveSchema(specs, headers).resolutions = raw
  BY DEF ResolveSchema
<1>2. schema = [resolutions |-> safe,
                missing |-> {f \in RequiredFields : Columns(safe, f) = {}},
                collisions |-> {f \in RequiredFields : \E a, b \in Columns(safe, f) : a # b}]
  <2> DEFINE first == ResolveSchema(specs, headers)
  <2>1. first.resolutions = raw
    BY <1>1
  <2>2. DOMAIN first.resolutions = DOMAIN headers
    BY <2>1
  <2> HIDE DEF first, raw
  <2>3. schema = ApplyConsumptionUnitSafety(first, unit)
    BY DEF first
  <2> QED BY <2>1, <2>2, <2>3 DEF ApplyConsumptionUnitSafety
<1>3. /\ schema.resolutions = safe
      /\ \A f \in RequiredFields : Columns(safe, f) # {} /\ \A a, b \in Columns(safe, f) : a = b
  <2> HIDE DEF safe
  <2> QED BY <1>2
<1>4. ASSUME NEW f \in RequiredFields
      PROVE  f \in DOMAIN index /\ index[f] \in Columns(safe, f)
  <2>1. PICK c : c \in Columns(safe, f)
    BY <1>3
  <2>2. \A j \in Columns(safe, f) : j = c
    BY <1>3, <2>1
  <2>3. c \in Int
    BY <2>1, TupleIsSeq DEF Columns
  <2> HIDE DEF safe
  <2>4. c = CHOOSE i \in Columns(safe, f) : \A j \in Columns(safe, f) : j <= i
    <3> DEFINE S == Columns(safe, f)
    <3>1. c \in S /\ (\A j \in S : j = c) /\ c \in Int
      BY ONLY <2>1, <2>2, <2>3
    <3> HIDE DEF S
    <3>2. S = {c}
      BY ONLY <3>1, Zenon
    <3>3. c <= c
      BY ONLY <3>1
    <3>4. c = CHOOSE i \in S : \A j \in S : j <= i
      BY ONLY <3>2, <3>3
    <3> QED BY <3>4 DEF S
  <2>5. f \in {g \in RequiredFields : Columns(safe, g) # {}}
    BY <2>1
  <2>6. f \in DOMAIN index /\ index[f] = c
    BY <1>3, <2>4, <2>5 DEF CanonicalColumnIndex
  <2> QED BY <2>1, <2>6
<1>5. DOMAIN index = RequiredFields
  <2>1. DOMAIN index \subseteq RequiredFields
    BY DEF CanonicalColumnIndex
  <2> QED BY <2>1, <1>4
<1>6. \A f \in RequiredFields : index[f] \in DOMAIN headers
  BY <1>4 DEF Columns
<1>7. ClaimsTheUnit(headers[index["value_mw"]], unit)
  <2> DEFINE i == index["value_mw"]
  <2>1. i \in Columns(safe, "value_mw") /\ i \in DOMAIN headers
    BY <1>4, <1>6 DEF RequiredFields
  <2>2. safe[i].status = "resolved" /\ safe[i].field = "value_mw"
    BY <2>1 DEF Columns
  <2>3. safe[i] = ApplyHeaderUnitPolicy(raw[i], PowerToken[unit]) /\ raw[i] = ResolveField(specs, headers[i])
    BY <2>1
  <2> HIDE DEF safe, raw, i
  <2>4. /\ DOMAIN raw[i] = {"source", "status", "field", "method"}
        /\ raw[i].source = NormalizeFieldName(headers[i])
        /\ raw[i].status = "resolved" => raw[i].source # << >>
    BY <2>3, ResolvedHeaders
  <2>5. /\ raw[i].source # << >> /\ Last(raw[i].source) \notin EnergyLastTokens
        /\ Last(raw[i].source) = "mw" => unit = "MW"
        /\ Last(raw[i].source) = "kw" => unit = "KW"
    BY <2>2, <2>3, <2>4, PolicyLeavesTheUnit
  <2> QED BY <2>4, <2>5 DEF ClaimsTheUnit, i
<1> QED BY <1>5, <1>6, <1>7 DEF GoodColumns

-----------------------------------------------------------------------------
(* Rows                                                                    *)

\* The first n data rows have been filed: the good ones, in order, as the candidates with
\* the records value, each other one as a dead letter of its own.
Filed(n, good, value, cs, letters) ==
  /\ n \in Nat /\ good \subseteq 1 .. n /\ IsTuple(cs) /\ IsTuple(letters)
  /\ \A i \in DOMAIN cs :
       /\ cs[i].position \in Int /\ cs[i].position - 1 \in good
       /\ cs[i].record = value[cs[i].position - 1]
  /\ \A i, j \in DOMAIN cs : i < j => cs[i].position < cs[j].position
  /\ \A k \in good : \E i \in DOMAIN cs : cs[i].position = k + 1
  /\ \A i \in DOMAIN letters :
       IF letters[i].of = "row"
       THEN letters[i].row \in Int /\ letters[i].row - 1 \in (1 .. n) \ good
       ELSE letters[i].row = 0
  /\ \A k \in (1 .. n) \ good : \E i \in DOMAIN letters : letters[i].of = "row" /\ letters[i].row = k + 1
  /\ \A i, j \in DOMAIN letters : letters[i].of = "row" /\ letters[i].row = letters[j].row => i = j

\* No row has been read.
LEMMA FiledNothing ==
  ASSUME NEW value
  PROVE  Filed(0, {}, value, << >>, << >>)
BY DEF Filed, IsTuple

\* A row becomes a candidate.
LEMMA FiledRecord ==
  ASSUME NEW n, NEW good, NEW value, NEW cs, NEW letters, Filed(n, good, value, cs, letters),
         NEW further, \A k \in good : further[k] = value[k],
         NEW c, c.position = n + 2, c.record = further[n + 1]
  PROVE  Filed(n + 1, good \union {n + 1}, further, Append(cs, c), letters)
<1> DEFINE more == good \union {n + 1}
           all == Append(cs, c)
           m == Len(cs)
<1>0. n \in Nat /\ good \subseteq 1 .. n /\ IsTuple(cs) /\ IsTuple(letters)
  BY DEF Filed
<1>1. /\ IsTuple(all) /\ m \in Nat /\ DOMAIN all = 1 .. m + 1 /\ DOMAIN cs = 1 .. m
      /\ all[m + 1] = c /\ \A k \in 1 .. m : all[k] = cs[k]
  BY <1>0, AppendTuple, TupleIsSeq DEF IsTuple
<1> HIDE DEF all, m
<1>2. more \subseteq 1 .. n + 1 /\ n + 1 \notin good
  BY <1>0
<1>3. \A i \in 1 .. m : /\ cs[i].position \in Int /\ cs[i].position - 1 \in good
                        /\ cs[i].record = value[cs[i].position - 1]
  BY <1>1 DEF Filed
<1>4. ASSUME NEW i \in DOMAIN all
      PROVE  /\ all[i].position \in Int /\ all[i].position - 1 \in more
             /\ all[i].record = further[all[i].position - 1]
  <2>1. CASE i \in 1 .. m
    BY <2>1, <1>1, <1>3
  <2>2. CASE i = m + 1
    <3>1. c.position - 1 = n + 1 /\ c.position \in Int
      BY <1>0
    <3> QED BY <2>2, <3>1, <1>1
  <2> QED BY <2>1, <2>2, <1>1
<1>5. ASSUME NEW i \in DOMAIN all, NEW j \in DOMAIN all, i < j
      PROVE  all[i].position < all[j].position
  <2>1. i \in 1 .. m
    BY <1>1, <1>5
  <2>2. CASE j \in 1 .. m
    BY <1>1, <1>5, <2>1, <2>2 DEF Filed
  <2>3. CASE j = m + 1
    <3>1. cs[i].position - 1 \in 1 .. n /\ cs[i].position \in Int
      BY <1>0, <1>3, <2>1
    <3>2. cs[i].position < n + 2
      BY <1>0, <3>1
    <3> QED BY <1>1, <2>1, <2>3, <3>2
  <2> QED BY <2>2, <2>3, <1>1
<1>6. ASSUME NEW k \in more PROVE \E i \in DOMAIN all : all[i].position = k + 1
  <2>1. CASE k \in good
    <3>1. PICK i \in 1 .. m : cs[i].position = k + 1
      BY <1>1, <2>1 DEF Filed
    <3> QED BY <1>1, <3>1
  <2>2. CASE k = n + 1
    <3>1. m + 1 \in DOMAIN all /\ all[m + 1].position = k + 1
      BY <1>0, <1>1, <2>2
    <3> QED BY <3>1
  <2> QED BY <2>1, <2>2
<1>7. (1 .. n + 1) \ more = (1 .. n) \ good
  BY <1>0
<1> HIDE DEF more
<1>8. Filed(n + 1, more, further, all, letters)
  BY <1>0, <1>1, <1>2, <1>4, <1>5, <1>6, <1>7 DEF Filed, more
<1> QED BY <1>8 DEF all, more

\* A row becomes a dead letter.
LEMMA FiledLetter ==
  ASSUME NEW n, NEW good, NEW value, NEW cs, NEW letters, Filed(n, good, value, cs, letters),
         NEW further, \A k \in good : further[k] = value[k],
         NEW letter, letter.of = "row", letter.row = n + 2
  PROVE  Filed(n + 1, good, further, cs, Append(letters, letter))
<1> DEFINE all == Append(letters, letter)
           m == Len(letters)
<1>0. n \in Nat /\ good \subseteq 1 .. n /\ IsTuple(cs) /\ IsTuple(letters)
  BY DEF Filed
<1>1. /\ IsTuple(all) /\ m \in Nat /\ DOMAIN all = 1 .. m + 1 /\ DOMAIN letters = 1 .. m
      /\ all[m + 1] = letter /\ \A k \in 1 .. m : all[k] = letters[k]
  BY <1>0, AppendTuple, TupleIsSeq DEF IsTuple
<1> HIDE DEF all, m
<1>2. good \subseteq 1 .. n + 1 /\ (1 .. n + 1) \ good = ((1 .. n) \ good) \union {n + 1}
  BY <1>0
<1>3. \A i \in 1 .. m : IF letters[i].of = "row"
        THEN letters[i].row \in Int /\ letters[i].row - 1 \in (1 .. n) \ good ELSE letters[i].row = 0
  BY <1>1 DEF Filed
<1>4. ASSUME NEW i \in DOMAIN all
      PROVE  IF all[i].of = "row"
             THEN all[i].row \in Int /\ all[i].row - 1 \in (1 .. n + 1) \ good ELSE all[i].row = 0
  <2>1. CASE i \in 1 .. m
    BY <2>1, <1>1, <1>2, <1>3
  <2>2. CASE i = m + 1
    <3>1. letter.row - 1 = n + 1 /\ letter.row \in Int
      BY <1>0
    <3> QED BY <2>2, <3>1, <1>1, <1>2
  <2> QED BY <2>1, <2>2, <1>1
<1>5. \A i \in 1 .. m : letters[i].row # n + 2
  <2> SUFFICES ASSUME NEW i \in 1 .. m PROVE letters[i].row # n + 2
    OBVIOUS
  <2>1. CASE letters[i].of = "row"
    <3>1. letters[i].row \in Int /\ letters[i].row - 1 \in 1 .. n
      BY <1>3, <2>1
    <3> QED BY <1>0, <3>1
  <2>2. CASE letters[i].of # "row"
    BY <1>0, <1>3, <2>2
  <2> QED BY <2>1, <2>2
<1>6. ASSUME NEW i \in DOMAIN all, NEW j \in DOMAIN all, all[i].of = "row", all[i].row = all[j].row
      PROVE  i = j
  <2>1. CASE i \in 1 .. m /\ j \in 1 .. m
    BY <1>1, <1>6, <2>1 DEF Filed
  <2>2. CASE i = m + 1 /\ j = m + 1
    BY <2>2
  <2>3. CASE (i = m + 1 /\ j \in 1 .. m) \/ (j = m + 1 /\ i \in 1 .. m)
    BY <1>1, <1>5, <1>6, <2>3
  <2> QED BY <1>1, <2>1, <2>2, <2>3
<1>7. ASSUME NEW k \in (1 .. n + 1) \ good
      PROVE  \E i \in DOMAIN all : all[i].of = "row" /\ all[i].row = k + 1
  <2>1. CASE k \in (1 .. n) \ good
    <3>1. PICK i \in 1 .. m : letters[i].of = "row" /\ letters[i].row = k + 1
      BY <1>1, <2>1 DEF Filed
    <3> QED BY <1>1, <3>1
  <2>2. CASE k = n + 1
    <3>1. m + 1 \in DOMAIN all /\ all[m + 1].of = "row" /\ all[m + 1].row = k + 1
      BY <1>0, <1>1, <2>2
    <3> QED BY <3>1
  <2> QED BY <1>2, <2>1, <2>2
<1>8. \A i \in DOMAIN cs : /\ cs[i].position \in Int /\ cs[i].position - 1 \in good
                           /\ cs[i].record = further[cs[i].position - 1]
  BY DEF Filed
<1>9. Filed(n + 1, good, further, cs, all)
  BY <1>0, <1>1, <1>2, <1>4, <1>6, <1>7, <1>8 DEF Filed
<1> QED BY <1>9 DEF all

\* A letter about the source is about no row.
LEMMA FiledNote ==
  ASSUME NEW n, NEW good, NEW value, NEW cs, NEW letters, Filed(n, good, value, cs, letters),
         NEW letter, letter.of # "row", letter.row = 0
  PROVE  Filed(n, good, value, cs, Append(letters, letter))
<1> DEFINE all == Append(letters, letter)
           m == Len(letters)
<1>0. n \in Nat /\ IsTuple(letters)
  BY DEF Filed
<1>1. /\ IsTuple(all) /\ m \in Nat /\ DOMAIN all = 1 .. m + 1 /\ DOMAIN letters = 1 .. m
      /\ all[m + 1] = letter /\ \A k \in 1 .. m : all[k] = letters[k]
  BY <1>0, AppendTuple, TupleIsSeq DEF IsTuple
<1> HIDE DEF all, m
<1>2. \A i \in 1 .. m : IF letters[i].of = "row"
        THEN letters[i].row \in Int /\ letters[i].row - 1 \in (1 .. n) \ good ELSE letters[i].row = 0
  BY <1>1 DEF Filed
<1>3. \A i \in DOMAIN all : IF all[i].of = "row"
        THEN all[i].row \in Int /\ all[i].row - 1 \in (1 .. n) \ good ELSE all[i].row = 0
  BY <1>1, <1>2
<1>4. \A i \in 1 .. m : letters[i].of = "row" => letters[i].row # 0
  <2> SUFFICES ASSUME NEW i \in 1 .. m, letters[i].of = "row" PROVE letters[i].row # 0
    OBVIOUS
  <2>1. letters[i].row \in Int /\ letters[i].row - 1 \in 1 .. n
    BY <1>2
  <2> QED BY <1>0, <2>1
<1>5. ASSUME NEW i \in DOMAIN all, NEW j \in DOMAIN all, all[i].of = "row", all[i].row = all[j].row
      PROVE  i = j
  <2>1. i \in 1 .. m
    BY <1>1, <1>5
  <2>2. CASE j \in 1 .. m
    BY <1>1, <1>5, <2>1, <2>2 DEF Filed
  <2>3. CASE j = m + 1
    BY <1>1, <1>4, <1>5, <2>1, <2>3
  <2> QED BY <1>1, <2>2, <2>3
<1>6. \A k \in (1 .. n) \ good : \E i \in DOMAIN all : all[i].of = "row" /\ all[i].row = k + 1
  BY <1>1 DEF Filed
<1>7. Filed(n, good, value, cs, all)
  BY <1>1, <1>3, <1>5, <1>6 DEF Filed
<1> QED BY <1>7 DEF all

\* The faulty candidates have a dead letter each, and the rows without one are those of
\* the other candidates, in order.
AreSettled(cs, good, value, faulty, valid, all, dead, kept) ==
  /\ \A i, j \in DOMAIN all : all[i].of = "row" /\ all[i].row = all[j].row => i = j
  /\ \A i \in faulty : cs[i].position \in dead
  /\ DOMAIN kept = DOMAIN valid
  /\ \A i \in DOMAIN valid : /\ valid[i] \in DOMAIN cs \ faulty /\ kept[i] \in good
                             /\ kept[i] = cs[valid[i]].position - 1
                             /\ cs[valid[i]].record = value[kept[i]]
  /\ \A i, j \in DOMAIN valid : i # j => valid[i] # valid[j]

\* What the series validation makes of the candidates: letters for the faulty ones.
Settling(n, good, value, cs, letters, faulty, issues, valid, extra, all, dead, kept) ==
  /\ Filed(n, good, value, cs, letters)
  /\ faulty \subseteq DOMAIN cs
  /\ issues = InOrder(faulty) /\ valid = InOrder(DOMAIN cs \ faulty)
  /\ IsTuple(extra) /\ DOMAIN extra = DOMAIN issues
  /\ \A i \in DOMAIN extra : extra[i].of = "row" /\ extra[i].row = cs[issues[i]].position
  /\ all = letters \o extra
  /\ dead = {all[i].row : i \in {k \in DOMAIN all : all[k].of = "row"}}
  /\ kept = InOrder({k \in 1 .. n : k + 1 \notin dead})

\* The series validation: the faulty candidates become dead letters, the others records,
\* and the rows without a dead letter are those of the records, in order.
LEMMA Settled ==
  ASSUME NEW n, NEW good, NEW value, NEW cs, NEW letters, NEW faulty, NEW issues, NEW valid,
         NEW extra, NEW all, NEW dead, NEW kept,
         Settling(n, good, value, cs, letters, faulty, issues, valid, extra, all, dead, kept)
  PROVE  AreSettled(cs, good, value, faulty, valid, all, dead, kept)
<1> SUFFICES
      ASSUME Filed(n, good, value, cs, letters), faulty \subseteq DOMAIN cs,
             issues = InOrder(faulty), valid = InOrder(DOMAIN cs \ faulty),
             IsTuple(extra), DOMAIN extra = DOMAIN issues,
             \A i \in DOMAIN extra : extra[i].of = "row" /\ extra[i].row = cs[issues[i]].position,
             all = letters \o extra,
             dead = {all[i].row : i \in {k \in DOMAIN all : all[k].of = "row"}},
             kept = InOrder({k \in 1 .. n : k + 1 \notin dead})
      PROVE  AreSettled(cs, good, value, faulty, valid, all, dead, kept)
  BY DEF Settling
<1> DEFINE m == Len(letters)
           e == Len(extra)
           fine == DOMAIN cs \ faulty
<1>0. /\ n \in Nat /\ good \subseteq 1 .. n /\ IsTuple(cs) /\ IsTuple(letters)
      /\ \A i \in DOMAIN cs : /\ cs[i].position \in Int /\ cs[i].position - 1 \in good
                              /\ cs[i].record = value[cs[i].position - 1]
      /\ \A i, j \in DOMAIN cs : i < j => cs[i].position < cs[j].position
  BY DEF Filed
<1>1. /\ m \in Nat /\ e \in Nat /\ DOMAIN letters = 1 .. m /\ DOMAIN extra = 1 .. e
      /\ DOMAIN all = 1 .. m + e
      /\ \A k \in 1 .. m : all[k] = letters[k]
      /\ \A k \in 1 .. e : all[m + k] = extra[k]
  BY <1>0, ConcatTuple, TupleIsSeq DEF IsTuple
<1>2. IsFiniteSet(DOMAIN cs) /\ DOMAIN cs \subseteq Int /\ DOMAIN cs = 1 .. Len(cs) /\ Len(cs) \in Nat
  <2>1. DOMAIN cs = 1 .. Len(cs) /\ Len(cs) \in Int /\ Len(cs) \in Nat
    BY <1>0, TupleIsSeq DEF IsTuple
  <2>2. IsFiniteSet(1 .. Len(cs))
    BY <2>1, FS_Interval
  <2>3. 1 .. Len(cs) \subseteq Int
    BY <2>1
  <2> QED BY <2>1, <2>2, <2>3
<1>3. IsFiniteSet(faulty) /\ IsFiniteSet(fine) /\ faulty \subseteq Int /\ fine \subseteq Int
  BY <1>2, FS_Subset
<1>4. /\ Cardinality(faulty) \in Nat /\ issues \in [1 .. Cardinality(faulty) -> faulty]
      /\ {issues[k] : k \in DOMAIN issues} = faulty /\ Increasing(issues)
  BY <1>3, InOrderEnumerates
<1>5. /\ Cardinality(fine) \in Nat /\ valid \in [1 .. Cardinality(fine) -> fine]
      /\ {valid[k] : k \in DOMAIN valid} = fine /\ Increasing(valid)
  <2>1. valid = InOrder(fine)
    OBVIOUS
  <2> HIDE DEF fine
  <2>2. /\ Cardinality(fine) \in Nat /\ InOrder(fine) \in [1 .. Cardinality(fine) -> fine]
        /\ {InOrder(fine)[k] : k \in DOMAIN InOrder(fine)} = fine /\ Increasing(InOrder(fine))
    BY ONLY <1>3, InOrderEnumerates
  <2> QED BY ONLY <2>1, <2>2
<1> HIDE DEF m, e, fine
<1>6. DOMAIN issues = 1 .. e /\ \A i \in 1 .. e : issues[i] \in faulty /\ issues[i] \in DOMAIN cs
  BY <1>1, <1>4
<1>7. \A i \in 1 .. e : all[m + i].of = "row" /\ all[m + i].row = cs[issues[i]].position
  BY <1>1
\* Different candidates are of different rows.
<1>8. \A i, j \in DOMAIN cs : cs[i].position = cs[j].position => i = j
  <2> SUFFICES ASSUME NEW i \in DOMAIN cs, NEW j \in DOMAIN cs, cs[i].position = cs[j].position
               PROVE  i = j
    OBVIOUS
  <2>1. ~(i < j) /\ ~(j < i)
    BY <1>0
  <2> QED BY <2>1, <1>2
\* No letter was about the row of a candidate.
<1>9. \A i \in 1 .. m, j \in DOMAIN cs : letters[i].row # cs[j].position
  <2> SUFFICES ASSUME NEW i \in 1 .. m, NEW j \in DOMAIN cs, letters[i].row = cs[j].position
               PROVE  FALSE
    OBVIOUS
  <2>1. cs[j].position \in Int /\ cs[j].position - 1 \in good /\ cs[j].position - 1 \in 1 .. n
    BY <1>0
  <2>2. CASE letters[i].of = "row"
    <3>1. letters[i].row - 1 \notin good
      BY <1>1, <2>2 DEF Filed
    <3> QED BY <2>1, <3>1
  <2>3. CASE letters[i].of # "row"
    <3>1. letters[i].row = 0
      BY <1>1, <2>3 DEF Filed
    <3> QED BY <1>0, <2>1, <3>1
  <2> QED BY <2>2, <2>3
<1>10. ASSUME NEW i \in DOMAIN all, NEW j \in DOMAIN all, all[i].of = "row", all[i].row = all[j].row
       PROVE  i = j
  <2>1. i \in 1 .. m \/ \E a \in 1 .. e : i = m + a
    <3>1. i \in 1 .. m \/ (i - m \in 1 .. e /\ i = m + (i - m))
      BY <1>1
    <3> QED BY <3>1
  <2>2. j \in 1 .. m \/ \E b \in 1 .. e : j = m + b
    <3>1. j \in 1 .. m \/ (j - m \in 1 .. e /\ j = m + (j - m))
      BY <1>1
    <3> QED BY <3>1
  <2>3. CASE i \in 1 .. m /\ j \in 1 .. m
    BY <1>1, <1>10, <2>3 DEF Filed
  <2>4. CASE i \in 1 .. m /\ \E b \in 1 .. e : j = m + b
    <3>1. PICK b \in 1 .. e : j = m + b
      BY <2>4
    <3>2. letters[i].row = cs[issues[b]].position
      BY <1>1, <1>7, <1>10, <2>4, <3>1
    <3> QED BY <1>6, <1>9, <2>4, <3>2
  <2>5. CASE j \in 1 .. m /\ \E a \in 1 .. e : i = m + a
    <3>1. PICK a \in 1 .. e : i = m + a
      BY <2>5
    <3>2. letters[j].row = cs[issues[a]].position
      BY <1>1, <1>7, <1>10, <2>5, <3>1
    <3> QED BY <1>6, <1>9, <2>5, <3>2
  <2>6. ASSUME NEW a \in 1 .. e, NEW b \in 1 .. e, i = m + a, j = m + b PROVE i = j
    <3>1. cs[issues[a]].position = cs[issues[b]].position
      BY <1>7, <1>10, <2>6
    <3>2. issues[a] = issues[b]
      BY <1>6, <1>8, <3>1
    <3>3. ~(a < b) /\ ~(b < a)
      <4>1. issues[a] \in Int /\ issues[b] \in Int
        BY <1>3, <1>6
      <4>2. a < b => issues[a] < issues[b]
        BY <1>4, <1>6 DEF Increasing
      <4>3. b < a => issues[b] < issues[a]
        BY <1>4, <1>6 DEF Increasing
      <4> QED BY <3>2, <4>1, <4>2, <4>3
    <3>4. a = b
      BY <3>3, <1>1
    <3> QED BY <3>4, <2>6
  <2> QED BY <2>1, <2>2, <2>3, <2>4, <2>5, <2>6
<1>11. \A i \in faulty : cs[i].position \in dead
  <2> SUFFICES ASSUME NEW i \in faulty PROVE cs[i].position \in dead
    OBVIOUS
  <2>1. PICK a \in 1 .. e : i = issues[a]
    BY <1>4, <1>6
  <2>2. m + a \in DOMAIN all
    BY <1>1
  <2> QED BY <2>1, <2>2, <1>7
\* The rows without a letter are those of the candidates that are fine.
<1> DEFINE alive == {k \in 1 .. n : k + 1 \notin dead}
           s == [i \in 1 .. Cardinality(fine) |-> cs[valid[i]].position - 1]
<1>12. \A i \in fine : cs[i].position \notin dead
  <2> SUFFICES ASSUME NEW i \in fine, NEW k \in DOMAIN all, all[k].of = "row", all[k].row = cs[i].position
               PROVE  FALSE
    OBVIOUS
  <2>0. i \in DOMAIN cs /\ i \notin faulty
    BY DEF fine
  <2>1. CASE k \in 1 .. m
    BY <1>1, <1>9, <2>0, <2>1
  <2>2. CASE k \notin 1 .. m
    <3>1. k \in 1 .. m \/ (k - m \in 1 .. e /\ k = m + (k - m))
      <4>1. k \in 1 .. m + e /\ m \in Nat /\ e \in Nat
        BY <1>1
      <4> QED BY ONLY <4>1
    <3>2. PICK a \in 1 .. e : k = m + a
      BY <2>2, <3>1
    <3>3. cs[issues[a]].position = cs[i].position
      BY <1>7, <3>2
    <3>4. issues[a] = i
      BY <1>6, <1>8, <2>0, <3>3
    <3> QED BY <1>6, <2>0, <3>4
  <2> QED BY <2>1, <2>2
<1>13. \A i \in 1 .. Cardinality(fine) :
         /\ valid[i] \in fine /\ valid[i] \in DOMAIN cs /\ s[i] = cs[valid[i]].position - 1
         /\ s[i] \in good /\ s[i] \in alive
  <2> SUFFICES ASSUME NEW i \in 1 .. Cardinality(fine)
               PROVE  /\ valid[i] \in fine /\ valid[i] \in DOMAIN cs /\ s[i] = cs[valid[i]].position - 1
                      /\ s[i] \in good /\ s[i] \in alive
    OBVIOUS
  <2>1. valid[i] \in fine /\ valid[i] \in DOMAIN cs /\ s[i] = cs[valid[i]].position - 1
    BY <1>5 DEF fine
  <2>2. s[i] \in good /\ s[i] \in 1 .. n /\ cs[valid[i]].position \in Int
    BY <1>0, <2>1
  <2>3. s[i] + 1 = cs[valid[i]].position
    BY <2>1, <2>2
  <2>4. s[i] + 1 \notin dead
    BY <1>12, <2>1, <2>3
  <2> QED BY <2>1, <2>2, <2>4
<1>14. \A k \in alive : \E i \in 1 .. Cardinality(fine) : s[i] = k
  <2> SUFFICES ASSUME NEW k \in alive PROVE \E i \in 1 .. Cardinality(fine) : s[i] = k
    OBVIOUS
  <2>1. k \in 1 .. n /\ k + 1 \notin dead /\ k \in Int
    BY <1>0
  <2>2. k \in good
    <3> SUFFICES ASSUME k \notin good PROVE FALSE
      OBVIOUS
    <3>1. PICK i \in 1 .. m : letters[i].of = "row" /\ letters[i].row = k + 1
      BY <1>1, <2>1 DEF Filed
    <3>2. i \in DOMAIN all /\ all[i].of = "row" /\ all[i].row = k + 1
      BY <1>1, <3>1
    <3> QED BY <2>1, <3>2
  <2>3. PICK i \in DOMAIN cs : cs[i].position = k + 1
    BY <2>2 DEF Filed
  <2>4. i \in fine
    BY <1>11, <2>1, <2>3 DEF fine
  <2>5. PICK a \in 1 .. Cardinality(fine) : valid[a] = i
    BY <1>5, <2>4
  <2>6. s[a] = k
    <3>1. s[a] = cs[i].position - 1
      BY <1>13, <2>5
    <3> QED BY <2>1, <2>3, <3>1
  <2> QED BY <2>6
<1>15. Increasing(s)
  <2> SUFFICES ASSUME NEW i \in 1 .. Cardinality(fine), NEW j \in 1 .. Cardinality(fine), i < j
               PROVE  s[i] < s[j]
    BY DEF Increasing
  <2>1. valid[i] < valid[j]
    BY <1>5 DEF Increasing
  <2>2. cs[valid[i]].position < cs[valid[j]].position
    BY <1>0, <1>13, <2>1
  <2>3. cs[valid[i]].position \in Int /\ cs[valid[j]].position \in Int
    BY <1>0, <1>13
  <2> QED BY <2>2, <2>3
<1>16. alive \subseteq Int /\ s \in [1 .. Cardinality(fine) -> alive] /\ {s[k] : k \in DOMAIN s} = alive
  <2>1. s \in [1 .. Cardinality(fine) -> alive]
    BY <1>13
  <2>2. alive \subseteq Int
    BY <1>0
  <2> HIDE DEF s, alive
  <2> QED BY <2>1, <2>2, <1>14
<1>17. s = InOrder(alive)
  <2> HIDE DEF s, alive
  <2> QED BY <1>5, <1>15, <1>16, InOrderIsUnique
<1>18. kept = s
  BY <1>17
<1>19. DOMAIN valid = 1 .. Cardinality(fine) /\ DOMAIN kept = 1 .. Cardinality(fine)
  BY <1>5, <1>18
<1>20. \A i \in DOMAIN valid : cs[valid[i]].record = value[kept[i]]
  BY <1>0, <1>13, <1>18, <1>19
<1>21. \A i, j \in DOMAIN valid : i # j => valid[i] # valid[j]
  <2> SUFFICES ASSUME NEW i \in 1 .. Cardinality(fine), NEW j \in 1 .. Cardinality(fine), i # j
               PROVE  valid[i] # valid[j]
    BY <1>19
  <2>1. valid[i] \in Int /\ valid[j] \in Int
    BY <1>3, <1>5
  <2>2. i < j \/ j < i
    BY <1>5
  <2>3. (i < j => valid[i] < valid[j]) /\ (j < i => valid[j] < valid[i])
    BY <1>5, <1>19 DEF Increasing
  <2> QED BY <2>1, <2>2, <2>3
<1> HIDE DEF s, alive
<1>22. /\ \A i, j \in DOMAIN all : all[i].of = "row" /\ all[i].row = all[j].row => i = j
       /\ \A i \in faulty : cs[i].position \in dead
       /\ DOMAIN kept = DOMAIN valid
       /\ \A i \in DOMAIN valid : /\ valid[i] \in DOMAIN cs \ faulty /\ kept[i] \in good
                                  /\ kept[i] = cs[valid[i]].position - 1
                                  /\ cs[valid[i]].record = value[kept[i]]
       /\ \A i, j \in DOMAIN valid : i # j => valid[i] # valid[j]
  BY <1>10, <1>11, <1>13, <1>18, <1>19, <1>20, <1>21 DEF fine
<1> QED BY ONLY <1>22 DEF AreSettled

-----------------------------------------------------------------------------
(* Grids                                                                   *)

\* Division with a remainder.
LEMMA Division ==
  ASSUME NEW x \in Int, NEW n \in Nat \ {0}
  PROVE  x \div n \in Int /\ x % n \in 0 .. n - 1 /\ x = n * (x \div n) + (x % n)
OBVIOUS

\* Different multiples of n are at least n apart.
LEMMA MultiplesAreApart ==
  ASSUME NEW a \in Int, NEW b \in Int, NEW n \in Nat \ {0}, a < b
  PROVE  n * a + n <= n * b
<1>1. b - a >= 1 /\ b - a \in Int
  OBVIOUS
<1>2. n * (b - a) = n * b - n * a
  OBVIOUS
<1>3. \A d \in Int : d >= 1 => n * d >= n
  OBVIOUS
<1> QED BY <1>1, <1>2, <1>3

\* A multiple of n leaves no remainder.
LEMMA MultiplesDivide ==
  ASSUME NEW q \in Int, NEW n \in Nat \ {0}
  PROVE  (n * q) % n = 0 /\ (n * q) \div n = q
<1> DEFINE x == n * q
           d == x \div n
           r == x % n
<1>1. x \in Int
  OBVIOUS
<1>2. d \in Int /\ r \in 0 .. n - 1 /\ x = n * d + r
  <2> HIDE DEF x
  <2> QED BY <1>1, Division
<1> HIDE DEF d, r
<1>3. ~(d < q)
  <2> SUFFICES ASSUME d < q PROVE FALSE
    OBVIOUS
  <2>1. n * d + n <= n * q
    BY <1>2, MultiplesAreApart
  <2> QED BY <1>2, <2>1
<1>4. ~(q < d)
  <2> SUFFICES ASSUME q < d PROVE FALSE
    OBVIOUS
  <2>1. n * q + n <= n * d
    BY <1>2, MultiplesAreApart
  <2> QED BY <1>2, <2>1
<1>5. q = d
  BY <1>2, <1>3, <1>4
<1>6. r = 0
  BY <1>2, <1>5
<1> QED BY <1>5, <1>6 DEF d, r

\* The points of a grid are whole intervals away from each other.
LEMMA AlignedIsMultiple ==
  ASSUME NEW grid, IsGrid(grid), NEW a \in Int, IsAligned(grid, a), NEW t \in Int
  PROVE  IsAligned(grid, t) <=> \E k \in Int : t = a + grid.interval * k
<1> DEFINE n == grid.interval
           z == grid.anchor
           q == (a - z) \div n
<1>1. n \in Nat \ {0} /\ z \in Int /\ (a - z) % n = 0
  BY DEF IsGrid, IsAligned
<1> HIDE DEF n, z
<1>2. a - z \in Int
  BY <1>1
<1>3. q \in Int /\ a - z = n * q
  <2>1. q \in Int /\ a - z = n * q + ((a - z) % n)
    BY <1>1, <1>2, Division
  <2>2. n * q \in Int
    BY <1>1, <2>1
  <2> QED BY <1>1, <2>1, <2>2
<1> HIDE DEF q
<1>4. ASSUME IsAligned(grid, t) PROVE \E k \in Int : t = a + n * k
  <2> DEFINE p == (t - z) \div n
  <2>1. t - z \in Int /\ (t - z) % n = 0
    BY <1>1, <1>4 DEF IsAligned, n, z
  <2>2. p \in Int /\ t - z = n * p
    <3>1. p \in Int /\ t - z = n * p + ((t - z) % n)
      BY <1>1, <2>1, Division
    <3>2. n * p \in Int
      BY <1>1, <3>1
    <3> QED BY <2>1, <3>1, <3>2
  <2> HIDE DEF p
  <2>3. p - q \in Int /\ n * (p - q) = n * p - n * q
    BY <1>1, <1>3, <2>2
  <2>4. t = a + n * (p - q)
    <3>1. n * p \in Int /\ n * q \in Int
      BY <1>1, <1>3, <2>2
    <3> QED BY <1>1, <1>3, <2>2, <2>3, <3>1
  <2> QED BY <2>3, <2>4
<1>5. ASSUME NEW k \in Int, t = a + n * k PROVE IsAligned(grid, t)
  <2>1. n * (q + k) = n * q + n * k /\ q + k \in Int /\ n * k \in Int /\ n * q \in Int
    BY <1>1, <1>3
  <2>2. t - z = n * (q + k)
    BY <1>1, <1>3, <1>5, <2>1
  <2>3. (t - z) % n = 0
    BY <1>1, <2>1, <2>2, MultiplesDivide
  <2> QED BY <2>3 DEF IsAligned, n, z
<1> QED BY <1>4, <1>5 DEF n

\* The grid points strictly between two grid points.
Inside(grid, a, b) == {t \in Int : a < t /\ t < b /\ IsAligned(grid, t)}

\* They are the ones a gap reports, and as many as it counts.
LEMMA PointsInside ==
  ASSUME NEW grid, IsGrid(grid), NEW a \in Int, NEW b \in Int, a < b,
         IsAligned(grid, a), IsAligned(grid, b),
         NEW steps, steps = StepCountBetween(grid, a, b)
  PROVE  /\ steps \in Nat /\ steps >= 1
         /\ IsFiniteSet(Inside(grid, a, b)) /\ Cardinality(Inside(grid, a, b)) = steps - 1
         /\ Inside(grid, a, b) # {} => steps > 1
         /\ GridOffset(grid, a, 1) \in Int /\ GridOffset(grid, b, -1) \in Int
         /\ Inside(grid, a, b)
              = {t \in GridOffset(grid, a, 1) .. GridOffset(grid, b, -1) : IsAligned(grid, t)}
<1> DEFINE n == grid.interval
           inside == Inside(grid, a, b)
<1>1. n \in Nat \ {0}
  BY DEF IsGrid
<1>2. PICK q \in Int : b = a + n * q
  BY AlignedIsMultiple
<1>3. steps = q
  <2>1. b - a = n * q
    <3>1. n * q \in Int
      BY <1>1
    <3> QED BY <1>2, <3>1
  <2>2. (b - a) \div n = q
    BY <1>1, <2>1, MultiplesDivide
  <2> QED BY <2>2 DEF StepCountBetween
<1>4. steps \in Nat /\ steps >= 1
  <2>1. ~(q < 0) /\ q # 0
    <3>1. q < 0 => n * q + n <= n * 0
      BY <1>1, MultiplesAreApart
    <3>2. n * q \in Int /\ n * 0 = 0
      BY <1>1
    <3> QED BY <1>1, <1>2, <3>1, <3>2
  <2> QED BY <1>3, <2>1
<1>5. GridOffset(grid, a, 1) = a + n /\ GridOffset(grid, b, -1) = b - n
  BY <1>1 DEF GridOffset
<1>6. \A t \in Int : IsAligned(grid, t) <=> \E k \in Int : t = a + n * k
  BY AlignedIsMultiple
<1> HIDE DEF n
<1>7. ASSUME NEW t \in inside
      PROVE  t \in Int /\ a + n <= t /\ t <= b - n /\ \E k \in 1 .. steps - 1 : t = a + n * k
  <2>1. t \in Int /\ a < t /\ t < b /\ IsAligned(grid, t)
    BY DEF Inside
  <2>2. PICK k \in Int : t = a + n * k
    BY <1>6, <2>1
  <2>3. n * k \in Int /\ n * q \in Int /\ n * 0 = 0
    BY <1>1
  <2>4. 0 < k
    <3>1. k < 0 => n * k + n <= n * 0
      BY <1>1, MultiplesAreApart
    <3>2. k # 0
      BY <2>1, <2>2, <2>3
    <3> QED BY <1>1, <2>1, <2>2, <2>3, <3>1, <3>2
  <2>5. k < q
    <3>1. q < k => n * q + n <= n * k
      BY <1>1, MultiplesAreApart
    <3>2. k # q
      BY <1>2, <2>1, <2>2
    <3> QED BY <1>1, <1>2, <2>1, <2>2, <2>3, <3>1, <3>2
  <2>6. n * 0 + n <= n * k /\ n * k + n <= n * q
    BY <1>1, <2>4, <2>5, MultiplesAreApart
  <2>7. k \in 1 .. steps - 1
    BY <1>3, <2>4, <2>5
  <2>8. a + n <= t /\ t <= b - n
    BY <1>1, <1>2, <2>2, <2>3, <2>6
  <2> QED BY <2>1, <2>2, <2>7, <2>8
<1>8. inside = {t \in a + n .. b - n : IsAligned(grid, t)}
  <2>1. \A t \in inside : t \in a + n .. b - n /\ IsAligned(grid, t)
    BY <1>1, <1>7 DEF Inside
  <2>2. ASSUME NEW t \in a + n .. b - n, IsAligned(grid, t) PROVE t \in inside
    <3>1. t \in Int /\ a < t /\ t < b
      BY <1>1
    <3> QED BY <2>2, <3>1 DEF Inside
  <2> QED BY <2>1, <2>2
<1> DEFINE s == [k \in 1 .. steps - 1 |-> a + n * k]
<1>9. ASSUME NEW k \in 1 .. steps - 1 PROVE s[k] \in inside /\ s[k] = a + n * k /\ s[k] \in Int
  <2>1. k \in Int /\ 0 < k /\ k < q /\ n * k \in Int /\ n * 0 = 0 /\ n * q \in Int
    BY <1>1, <1>3, <1>4
  <2>2. n * 0 + n <= n * k /\ n * k + n <= n * q
    BY <1>1, <2>1, MultiplesAreApart
  <2>3. s[k] = a + n * k
    OBVIOUS
  <2>4. s[k] \in Int /\ a < s[k] /\ s[k] < b
    BY <1>1, <1>2, <2>1, <2>2, <2>3
  <2>5. IsAligned(grid, s[k])
    BY <1>6, <2>1, <2>3, <2>4
  <2> QED BY <2>3, <2>4, <2>5 DEF Inside
<1>10. s \in [1 .. steps - 1 -> inside] /\ {s[k] : k \in DOMAIN s} = inside
  <2>1. s \in [1 .. steps - 1 -> inside]
    BY <1>9
  <2>2. \A t \in inside : \E k \in 1 .. steps - 1 : t = s[k]
    BY <1>7
  <2> HIDE DEF s, inside
  <2> QED BY <2>1, <2>2
<1>11. Increasing(s)
  <2> SUFFICES ASSUME NEW j \in 1 .. steps - 1, NEW k \in 1 .. steps - 1, j < k PROVE s[j] < s[k]
    BY DEF Increasing
  <2>1. j \in Int /\ k \in Int /\ n * j \in Int /\ n * k \in Int
    BY <1>1, <1>4
  <2>2. n * j + n <= n * k
    BY <1>1, <2>1, MultiplesAreApart
  <2>3. a + n * j < a + n * k
    BY <1>1, <2>1, <2>2
  <2> QED BY <1>9, <2>3
<1>12. inside \subseteq Int /\ steps - 1 \in Nat
  BY <1>4 DEF Inside
<1>13. IsFiniteSet(inside) /\ Cardinality(inside) = steps - 1
  <2> HIDE DEF s, inside
  <2> QED BY <1>10, <1>11, <1>12, InOrderIsUnique
<1>14. inside # {} => steps > 1
  BY <1>4, <1>7
<1> QED BY <1>1, <1>4, <1>5, <1>8, <1>13, <1>14

-----------------------------------------------------------------------------
(* Gaps                                                                    *)

\* A point between two elements that is none itself lies between two neighbours.
LEMMA LiesBetweenNeighbours ==
  ASSUME NEW S, S \subseteq Int, IsFiniteSet(S), NEW t \in Int, t \notin S,
         NEW a \in S, NEW b \in S, a < t, t < b
  PROVE  \E i \in 1 .. Cardinality(S) - 1 : InOrder(S)[i] < t /\ t < InOrder(S)[i + 1]
<1> DEFINE s == InOrder(S)
           n == Cardinality(S)
           below == {i \in 1 .. n : s[i] < t}
<1>1. n \in Nat /\ s \in [1 .. n -> S] /\ {s[k] : k \in DOMAIN s} = S /\ Increasing(s)
  BY InOrderEnumerates
<1> HIDE DEF s, n
<1>2. \A i \in 1 .. n : s[i] \in S /\ s[i] \in Int /\ i \in Int
  <2> SUFFICES ASSUME NEW i \in 1 .. n PROVE s[i] \in S /\ s[i] \in Int /\ i \in Int
    OBVIOUS
  <2>1. s[i] \in S /\ n \in Nat
    BY ONLY <1>1, i \in 1 .. n
  <2>2. s[i] \in Int
    BY ONLY <2>1, S \subseteq Int
  <2>3. i \in Int
    BY ONLY <2>1, i \in 1 .. n
  <2> QED BY ONLY <2>1, <2>2, <2>3
<1>3. PICK j \in 1 .. n : a = s[j]
  BY <1>1
<1>4. PICK k \in 1 .. n : b = s[k]
  BY <1>1
<1>5. below \subseteq Int /\ IsFiniteSet(below) /\ below # {}
  <2>1. IsFiniteSet(1 .. n)
    BY <1>1, FS_Interval
  <2>2. below \in SUBSET (1 .. n) /\ j \in below
    BY <1>3
  <2> HIDE DEF below
  <2>3. IsFiniteSet(below)
    BY <2>1, <2>2, FS_Subset
  <2> QED BY <1>2, <2>2, <2>3
<1>6. PICK i \in below : \A m \in below : m <= i
  <2> HIDE DEF below
  <2> QED BY <1>5, Greatest
<1>7. i \in 1 .. n /\ s[i] < t
  OBVIOUS
<1>8. i < k
  <2> SUFFICES ASSUME ~(i < k) PROVE FALSE
    OBVIOUS
  <2>1. k = i \/ k < i
    BY <1>1, <1>7
  <2>2. k < i => s[k] < s[i]
    BY <1>1, <1>7 DEF Increasing
  <2> QED BY <1>2, <1>4, <1>7, <2>1, <2>2
<1>9. i + 1 \in 1 .. n /\ i \in 1 .. n - 1
  BY <1>1, <1>7, <1>8
<1>10. i + 1 \notin below
  BY <1>2, <1>6, <1>7
<1>11. ~(s[i + 1] < t) /\ s[i + 1] # t /\ s[i + 1] \in Int
  BY <1>2, <1>9, <1>10
<1>12. t < s[i + 1]
  BY <1>11
<1> QED BY <1>7, <1>9, <1>12 DEF s, n

\* Nothing lies between two neighbours, and different neighbours share no interval.
LEMMA NothingBetweenNeighbours ==
  ASSUME NEW S, S \subseteq Int, IsFiniteSet(S), NEW t \in Int,
         NEW i \in 1 .. Cardinality(S) - 1, InOrder(S)[i] < t, t < InOrder(S)[i + 1]
  PROVE  /\ t \notin S
         /\ \A j \in 1 .. Cardinality(S) - 1 : InOrder(S)[j] < t /\ t < InOrder(S)[j + 1] => j = i
<1> DEFINE s == InOrder(S)
           n == Cardinality(S)
<1>1. n \in Nat /\ s \in [1 .. n -> S] /\ {s[k] : k \in DOMAIN s} = S /\ Increasing(s)
  BY InOrderEnumerates
<1>0. i \in 1 .. n - 1 /\ s[i] < t /\ t < s[i + 1]
  OBVIOUS
<1> HIDE DEF s, n
<1>2. \A k \in 1 .. n : s[k] \in Int /\ k \in Int
  <2> SUFFICES ASSUME NEW k \in 1 .. n PROVE s[k] \in S /\ s[k] \in Int /\ k \in Int
    OBVIOUS
  <2>1. s[k] \in S /\ n \in Nat
    BY ONLY <1>1, k \in 1 .. n
  <2>2. s[k] \in Int
    BY ONLY <2>1, S \subseteq Int
  <2>3. k \in Int
    BY ONLY <2>1, k \in 1 .. n
  <2> QED BY ONLY <2>1, <2>2, <2>3
<1>3. \A j, k \in 1 .. n : j <= k => s[j] <= s[k]
  <2> SUFFICES ASSUME NEW j \in 1 .. n, NEW k \in 1 .. n, j <= k PROVE s[j] <= s[k]
    OBVIOUS
  <2>1. j = k \/ j < k
    BY <1>2
  <2>2. j < k => s[j] < s[k]
    BY <1>1 DEF Increasing
  <2> QED BY <1>2, <2>1, <2>2
<1>4. i \in 1 .. n /\ i + 1 \in 1 .. n /\ s[i] \in Int /\ s[i + 1] \in Int
  BY <1>0, <1>1, <1>2
<1>5. t \notin S
  <2> SUFFICES ASSUME t \in S PROVE FALSE
    OBVIOUS
  <2>1. PICK k \in 1 .. n : t = s[k]
    BY <1>1
  <2>2. k <= i \/ i + 1 <= k
    BY <1>2, <1>4
  <2> QED BY <1>0, <1>3, <1>4, <2>1, <2>2
<1>6. ASSUME NEW j \in 1 .. n - 1, s[j] < t, t < s[j + 1] PROVE j = i
  <2>1. j \in 1 .. n /\ j + 1 \in 1 .. n /\ s[j] \in Int /\ s[j + 1] \in Int
    BY <1>1, <1>2
  <2>2. ~(j + 1 <= i)
    <3> SUFFICES ASSUME j + 1 <= i PROVE FALSE
      OBVIOUS
    <3>1. s[j + 1] <= s[i]
      BY <1>3, <1>4, <2>1
    <3> QED BY <1>0, <1>4, <1>6, <2>1, <3>1
  <2>3. ~(i + 1 <= j)
    <3> SUFFICES ASSUME i + 1 <= j PROVE FALSE
      OBVIOUS
    <3>1. s[i + 1] <= s[j]
      BY <1>3, <1>4, <2>1
    <3> QED BY <1>0, <1>4, <1>6, <2>1, <3>1
  <2> QED BY <1>4, <2>1, <2>2, <2>3
<1> QED BY <1>5, <1>6 DEF s, n

\* The timestamps of one consumer, and the gap between two neighbours of them.
StampsOf(cs, c) == {cs[i].record.timestamp : i \in {k \in DOMAIN cs : cs[k].record.consumer = c}}

Neighbours(cs, grid, c, i) == StepCountBetween(grid, InOrder(StampsOf(cs, c))[i], InOrder(StampsOf(cs, c))[i + 1])

GapAt(cs, grid, c, i) ==
  ConsumptionGap(c, GridOffset(grid, InOrder(StampsOf(cs, c))[i], 1),
                 GridOffset(grid, InOrder(StampsOf(cs, c))[i + 1], -1), Neighbours(cs, grid, c, i) - 1)

\* The gaps that are reported are those between neighbours more than one interval apart.
LEMMA ReportedGaps ==
  ASSUME NEW cs, NEW grid, grid # NoGrid,
         \A c \in {cs[k].record.consumer : k \in DOMAIN cs} :
           /\ Cardinality(StampsOf(cs, c)) \in Nat
           /\ \A i \in 1 .. Cardinality(StampsOf(cs, c)) - 1 : Neighbours(cs, grid, c, i) \in Int,
         NEW g
  PROVE  g \in DetectGaps(cs, grid) <=>
           \E c \in {cs[k].record.consumer : k \in DOMAIN cs} :
             \E i \in 1 .. Cardinality(StampsOf(cs, c)) - 1 :
               Neighbours(cs, grid, c, i) > 1 /\ g = GapAt(cs, grid, c, i)
<1> DEFINE consumers == {cs[k].record.consumer : k \in DOMAIN cs}
           stamps(c) == InOrder(StampsOf(cs, c))
           found(c, i) == ToSet(GapBetween(c, stamps(c)[i], stamps(c)[i + 1], grid))
<1>1. DetectGaps(cs, grid) = UNION {UNION {found(c, i) : i \in 1 .. Len(stamps(c)) - 1} : c \in consumers}
  BY DEF DetectGaps, StampsOf
<1>2. ASSUME NEW c \in consumers PROVE Len(stamps(c)) = Cardinality(StampsOf(cs, c))
  <2>1. Cardinality(StampsOf(cs, c)) \in Nat
    OBVIOUS
  <2>2. stamps(c) = [k \in 1 .. Cardinality(StampsOf(cs, c)) |->
                       CHOOSE m \in StampsOf(cs, c) : Rank(StampsOf(cs, c), m) = k]
    BY DEF InOrder
  <2> QED BY <2>1, <2>2
<1>3. ASSUME NEW c \in consumers, NEW i \in 1 .. Cardinality(StampsOf(cs, c)) - 1
      PROVE  g \in found(c, i) <=> Neighbours(cs, grid, c, i) > 1 /\ g = GapAt(cs, grid, c, i)
  <2> DEFINE gap == GapBetween(c, stamps(c)[i], stamps(c)[i + 1], grid)
             steps == Neighbours(cs, grid, c, i)
  <2>1. gap = IF steps <= 1 THEN << >> ELSE <<GapAt(cs, grid, c, i)>>
    BY DEF GapBetween, GapAt, Neighbours
  <2>2. steps \in Int
    OBVIOUS
  <2> HIDE DEF gap, steps
  <2>3. CASE steps <= 1
    <3>1. gap = << >>
      BY <2>1, <2>3
    <3>2. ToSet(gap) = {}
      BY <3>1 DEF ToSet
    <3> QED BY <2>2, <2>3, <3>2 DEF gap, steps
  <2>4. CASE steps > 1
    <3>1. gap = <<GapAt(cs, grid, c, i)>>
      BY <2>1, <2>2, <2>4
    <3>2. ToSet(gap) = {GapAt(cs, grid, c, i)}
      BY <3>1 DEF ToSet
    <3> QED BY <2>4, <3>2 DEF gap, steps
  <2> QED BY <2>2, <2>3, <2>4
<1> HIDE DEF found, stamps, consumers
<1>4. g \in DetectGaps(cs, grid) <=>
        \E c \in consumers : \E i \in 1 .. Len(stamps(c)) - 1 : g \in found(c, i)
  BY <1>1
<1>5. g \in DetectGaps(cs, grid) <=>
        \E c \in consumers : \E i \in 1 .. Cardinality(StampsOf(cs, c)) - 1 : g \in found(c, i)
  BY <1>2, <1>4
<1>6. g \in DetectGaps(cs, grid) <=>
        \E c \in consumers : \E i \in 1 .. Cardinality(StampsOf(cs, c)) - 1 :
          Neighbours(cs, grid, c, i) > 1 /\ g = GapAt(cs, grid, c, i)
  BY <1>3, <1>5
<1> QED BY <1>6 DEF consumers

\* The grid points of a gap.
Points(grid, g) == {t \in g.first .. g.last : IsAligned(grid, t)}

\* What GapsExact says, of the surviving candidates and the gaps reported for them.
ExactGaps(cs, grid, reported) ==
  LET missing(c) == {t \in MinInstant .. MaxInstant :
                       /\ IsAligned(grid, t) /\ t \notin StampsOf(cs, c)
                       /\ \E a, b \in StampsOf(cs, c) : a < t /\ t < b}
  IN  /\ \A i \in DOMAIN cs : LET c == cs[i].record.consumer IN
           missing(c) = UNION {Points(grid, g) : g \in {h \in reported : h.consumer = c}}
      /\ \A g \in reported : g.count = Cardinality(Points(grid, g))
      /\ \A g, h \in reported :
           g # h /\ g.consumer = h.consumer => Points(grid, g) \cap Points(grid, h) = {}

\* Candidates whose timestamps are instants on the grid.
OnGrid(cs, grid) ==
  /\ IsTuple(cs) /\ IsGrid(grid)
  /\ \A i \in DOMAIN cs : /\ cs[i].record.timestamp \in MinInstant .. MaxInstant
                          /\ IsAligned(grid, cs[i].record.timestamp)

\* The timestamps of a consumer are finitely many instants.
LEMMA StampsAreInstants ==
  ASSUME NEW cs, NEW grid, OnGrid(cs, grid), NEW c
  PROVE  /\ IsFiniteSet(StampsOf(cs, c)) /\ StampsOf(cs, c) \subseteq MinInstant .. MaxInstant
         /\ StampsOf(cs, c) \subseteq Int
         /\ \A t \in StampsOf(cs, c) : IsAligned(grid, t)
<1> DEFINE S == StampsOf(cs, c)
<1>1. \A t \in S : t \in MinInstant .. MaxInstant /\ IsAligned(grid, t)
  BY DEF StampsOf, OnGrid
<1> HIDE DEF S
<1>2. IsFiniteSet(MinInstant .. MaxInstant) /\ MinInstant .. MaxInstant \subseteq Int
  BY RangeAssumption, FS_Interval
<1>3. S \in SUBSET (MinInstant .. MaxInstant)
  BY <1>1
<1>4. IsFiniteSet(S)
  BY <1>2, <1>3, FS_Subset
<1> QED BY <1>1, <1>2, <1>3, <1>4 DEF S

\* Two neighbouring timestamps, and the gap between them.
LEMMA GapOfNeighbours ==
  ASSUME NEW cs, NEW grid, OnGrid(cs, grid), NEW c,
         NEW i \in 1 .. Cardinality(StampsOf(cs, c)) - 1
  PROVE  LET a == InOrder(StampsOf(cs, c))[i]
             b == InOrder(StampsOf(cs, c))[i + 1]
             g == GapAt(cs, grid, c, i)
         IN  /\ a \in StampsOf(cs, c) /\ b \in StampsOf(cs, c) /\ a \in Int /\ b \in Int /\ a < b
             /\ Neighbours(cs, grid, c, i) \in Int
             /\ Points(grid, g) = Inside(grid, a, b)
             /\ g.count = Cardinality(Points(grid, g)) /\ g.consumer = c
             /\ Points(grid, g) # {} => Neighbours(cs, grid, c, i) > 1
<1> DEFINE S == StampsOf(cs, c)
           s == InOrder(S)
           n == Cardinality(S)
           a == s[i]
           b == s[i + 1]
           g == GapAt(cs, grid, c, i)
           steps == StepCountBetween(grid, a, b)
<1>1. IsFiniteSet(S) /\ S \subseteq Int /\ \A t \in S : IsAligned(grid, t)
  BY StampsAreInstants
<1>2. n \in Nat /\ s \in [1 .. n -> S] /\ Increasing(s)
  <2> HIDE DEF S
  <2> QED BY <1>1, InOrderEnumerates
<1>3. /\ steps = Neighbours(cs, grid, c, i)
      /\ g = ConsumptionGap(c, GridOffset(grid, a, 1), GridOffset(grid, b, -1), steps - 1)
  BY DEF Neighbours, GapAt
<1>4. IsGrid(grid)
  BY DEF OnGrid
<1>5. i \in 1 .. n - 1
  OBVIOUS
<1> HIDE DEF S, s, n, g, steps
<1>6. i \in 1 .. n /\ i + 1 \in 1 .. n /\ i < i + 1
  BY ONLY <1>2, <1>5
<1>7. a \in S /\ b \in S /\ a < b
  BY ONLY <1>2, <1>6 DEF Increasing
<1>8. a \in Int /\ b \in Int /\ IsAligned(grid, a) /\ IsAligned(grid, b)
  BY ONLY <1>1, <1>7
<1> HIDE DEF a, b
<1>9. steps = StepCountBetween(grid, a, b)
  BY DEF steps
<1>10. /\ steps \in Nat /\ steps >= 1
       /\ Cardinality(Inside(grid, a, b)) = steps - 1
       /\ Inside(grid, a, b) # {} => steps > 1
       /\ Inside(grid, a, b) = {t \in GridOffset(grid, a, 1) .. GridOffset(grid, b, -1) : IsAligned(grid, t)}
  BY ONLY <1>4, <1>7, <1>8, <1>9, PointsInside
<1>11. Points(grid, g) = Inside(grid, a, b) /\ g.count = steps - 1 /\ g.consumer = c
  BY ONLY <1>3, <1>10 DEF Points, ConsumptionGap
<1>12. steps \in Int
  BY ONLY <1>10
<1>13. /\ a \in S /\ b \in S /\ a \in Int /\ b \in Int /\ a < b
       /\ steps \in Int /\ Points(grid, g) = Inside(grid, a, b)
       /\ g.count = Cardinality(Points(grid, g)) /\ g.consumer = c
       /\ Points(grid, g) # {} => steps > 1
  BY ONLY <1>7, <1>8, <1>10, <1>11, <1>12
<1> QED BY ONLY <1>3, <1>13 DEF a, b, s, S, g

\* The reported gaps are exact.
LEMMA DetectedGapsAreExact ==
  ASSUME NEW cs, NEW grid, grid # NoGrid, OnGrid(cs, grid),
         NEW reported, reported = DetectGaps(cs, grid)
  PROVE  ExactGaps(cs, grid, reported)
<1> DEFINE consumers == {cs[k].record.consumer : k \in DOMAIN cs}
           Count(c) == Cardinality(StampsOf(cs, c))
           Low(c, i) == InOrder(StampsOf(cs, c))[i]
<1>1. ASSUME NEW c, NEW i \in 1 .. Count(c) - 1
      PROVE  /\ Low(c, i) \in StampsOf(cs, c) /\ Low(c, i + 1) \in StampsOf(cs, c)
             /\ Low(c, i) \in Int /\ Low(c, i + 1) \in Int /\ Low(c, i) < Low(c, i + 1)
             /\ Neighbours(cs, grid, c, i) \in Int
             /\ Points(grid, GapAt(cs, grid, c, i)) = Inside(grid, Low(c, i), Low(c, i + 1))
             /\ GapAt(cs, grid, c, i).count = Cardinality(Points(grid, GapAt(cs, grid, c, i)))
             /\ GapAt(cs, grid, c, i).consumer = c
             /\ Points(grid, GapAt(cs, grid, c, i)) # {} => Neighbours(cs, grid, c, i) > 1
  BY GapOfNeighbours
<1>2. ASSUME NEW c
      PROVE  /\ IsFiniteSet(StampsOf(cs, c)) /\ StampsOf(cs, c) \subseteq MinInstant .. MaxInstant
             /\ StampsOf(cs, c) \subseteq Int /\ Count(c) \in Nat
  BY StampsAreInstants, FS_CardinalityType
<1>3. ASSUME NEW g
      PROVE  g \in reported <=> \E c \in consumers : \E i \in 1 .. Count(c) - 1 :
               Neighbours(cs, grid, c, i) > 1 /\ g = GapAt(cs, grid, c, i)
  <2>1. \A c \in consumers : /\ Cardinality(StampsOf(cs, c)) \in Nat
                             /\ \A i \in 1 .. Cardinality(StampsOf(cs, c)) - 1 : Neighbours(cs, grid, c, i) \in Int
    BY <1>1, <1>2
  <2> QED BY ONLY <2>1, grid # NoGrid, reported = DetectGaps(cs, grid), ReportedGaps
<1> HIDE DEF consumers
<1>4. ASSUME NEW g \in reported
      PROVE  \E i \in 1 .. Count(g.consumer) - 1 :
               /\ g.consumer \in consumers /\ g = GapAt(cs, grid, g.consumer, i)
               /\ Points(grid, g) = Inside(grid, Low(g.consumer, i), Low(g.consumer, i + 1))
               /\ g.count = Cardinality(Points(grid, g))
  <2>1. PICK c \in consumers : \E i \in 1 .. Count(c) - 1 :
               Neighbours(cs, grid, c, i) > 1 /\ g = GapAt(cs, grid, c, i)
    BY <1>3
  <2>2. PICK i \in 1 .. Count(c) - 1 : g = GapAt(cs, grid, c, i)
    BY <2>1
  <2>3. g.consumer = c
    BY <1>1, <2>2
  <2> QED BY <1>1, <2>2, <2>3
<1> HIDE DEF Low, Count
\* A point that is missing lies between neighbours, and nothing else does.
<1>5. ASSUME NEW c \in consumers
      PROVE  {t \in MinInstant .. MaxInstant :
                 /\ IsAligned(grid, t) /\ t \notin StampsOf(cs, c)
                 /\ \E a, b \in StampsOf(cs, c) : a < t /\ t < b}
               = UNION {Points(grid, g) : g \in {h \in reported : h.consumer = c}}
  <2> DEFINE S == StampsOf(cs, c)
  <2>0. IsFiniteSet(S) /\ S \subseteq Int /\ S \subseteq MinInstant .. MaxInstant
    BY <1>2
  <2>1. ASSUME NEW t \in MinInstant .. MaxInstant, IsAligned(grid, t), t \notin S,
               NEW a \in S, NEW b \in S, a < t, t < b
        PROVE  \E g \in reported : g.consumer = c /\ t \in Points(grid, g)
    <3>1. t \in Int
      BY RangeAssumption
    <3>2. \E i \in 1 .. Cardinality(S) - 1 : InOrder(S)[i] < t /\ t < InOrder(S)[i + 1]
      <4> HIDE DEF S
      <4> QED BY ONLY <2>0, <2>1, <3>1, LiesBetweenNeighbours, a \in S, b \in S
    <3>3. PICK i \in 1 .. Count(c) - 1 : Low(c, i) < t /\ t < Low(c, i + 1)
      BY <3>2 DEF Count, Low
    <3> DEFINE g == GapAt(cs, grid, c, i)
    <3>4. t \in Inside(grid, Low(c, i), Low(c, i + 1))
      BY ONLY <2>1, <3>1, <3>3 DEF Inside
    <3>5. t \in Points(grid, g) /\ Neighbours(cs, grid, c, i) > 1 /\ g.consumer = c
      BY ONLY <1>1, <3>3, <3>4
    <3>6. g \in reported
      BY <1>3, <3>5
    <3> QED BY <3>5, <3>6
  <2>2. ASSUME NEW g \in reported, g.consumer = c, NEW t \in Points(grid, g)
        PROVE  /\ t \in MinInstant .. MaxInstant /\ IsAligned(grid, t) /\ t \notin S
               /\ \E a, b \in S : a < t /\ t < b
    <3>1. PICK i \in 1 .. Count(c) - 1 : Points(grid, g) = Inside(grid, Low(c, i), Low(c, i + 1))
      BY ONLY <1>4, <2>2, g \in reported
    <3>2. t \in Int /\ Low(c, i) < t /\ t < Low(c, i + 1) /\ IsAligned(grid, t)
      BY ONLY <3>1, t \in Points(grid, g) DEF Inside
    <3>3. Low(c, i) \in S /\ Low(c, i + 1) \in S
      BY <1>1
    <3>4. t \notin S
      <4>1. i \in 1 .. Cardinality(S) - 1 /\ InOrder(S)[i] < t /\ t < InOrder(S)[i + 1]
        BY ONLY <3>1, <3>2, i \in 1 .. Count(c) - 1 DEF Low, Count
      <4> HIDE DEF S
      <4> QED BY ONLY <2>0, <3>2, <4>1, NothingBetweenNeighbours
    <3>5. t \in MinInstant .. MaxInstant
      <4>1. Low(c, i) \in MinInstant .. MaxInstant /\ Low(c, i + 1) \in MinInstant .. MaxInstant
        BY <2>0, <3>3
      <4> QED BY ONLY <3>2, <4>1, RangeAssumption
    <3> QED BY ONLY <3>2, <3>3, <3>4, <3>5
  <2> QED BY ONLY <2>1, <2>2 DEF S
<1>6. ASSUME NEW g \in reported, NEW h \in reported, g.consumer = h.consumer,
             NEW t \in Points(grid, g) \cap Points(grid, h)
      PROVE  g = h
  <2> DEFINE c == g.consumer
             S == StampsOf(cs, c)
  <2>0. IsFiniteSet(S) /\ S \subseteq Int
    BY <1>2
  <2>1. PICK i \in 1 .. Count(c) - 1 :
          g = GapAt(cs, grid, c, i) /\ Points(grid, g) = Inside(grid, Low(c, i), Low(c, i + 1))
    BY ONLY <1>4, g \in reported
  <2>2. PICK j \in 1 .. Count(c) - 1 :
          h = GapAt(cs, grid, c, j) /\ Points(grid, h) = Inside(grid, Low(c, j), Low(c, j + 1))
    BY ONLY <1>4, <1>6, h \in reported
  <2>3. t \in Int /\ Low(c, i) < t /\ t < Low(c, i + 1) /\ Low(c, j) < t /\ t < Low(c, j + 1)
    BY <2>1, <2>2 DEF Inside
  <2>4. /\ i \in 1 .. Cardinality(S) - 1 /\ InOrder(S)[i] < t /\ t < InOrder(S)[i + 1]
        /\ j \in 1 .. Cardinality(S) - 1 /\ InOrder(S)[j] < t /\ t < InOrder(S)[j + 1]
    BY <2>3 DEF Low, Count
  <2>5. i = j
    <3> HIDE DEF S
    <3> QED BY ONLY <2>0, <2>3, <2>4, NothingBetweenNeighbours
  <2> QED BY <2>1, <2>2, <2>5
<1>7. \A i \in DOMAIN cs : cs[i].record.consumer \in consumers
  BY DEF consumers
<1>8. \A g \in reported : g.count = Cardinality(Points(grid, g))
  BY <1>4
<1>9. \A g, h \in reported :
           g # h /\ g.consumer = h.consumer => Points(grid, g) \cap Points(grid, h) = {}
  BY <1>6
<1> QED BY ONLY <1>5, <1>7, <1>8, <1>9 DEF ExactGaps

-----------------------------------------------------------------------------
(* What a reading leaves behind                                            *)

\* A blank header stays blank.
LEMMA NormalizeNothing == NormalizeFieldName(<< >>) = << >>
<1>1. {i \in DOMAIN << >> : << >>[i] \notin Separators} = {}
  OBVIOUS
<1>2. Cardinality({}) = 0
  BY FS_EmptySet
<1>3. DOMAIN InOrder({}) = {}
  BY <1>2 DEF InOrder
<1> QED BY <1>1, <1>3 DEF NormalizeFieldName

\* An accepted row has an instant of datetime and its measurement in the unit.
LEMMA ConvertedRecord ==
  ASSUME NEW consumer, NEW fromCell, NEW at, NEW power, NEW zone, NEW unit,
         NEW answer, answer = Convert(consumer, fromCell, at, power, zone, unit),
         answer.outcome = "ok"
  PROVE  /\ answer.v.timestamp \in MinInstant .. MaxInstant
         /\ answer.v.value = IF unit = "KW" THEN power.v ELSE 1000 * power.v
<1> DEFINE instant == NormalizeTimestampToUtc(at, zone)
           mw == NormalizePowerToMw(power, unit)
           local == LocalizeNaive(at.v, zone)
           record == ConsumptionRecordModelValidate(consumer, instant.v, mw.v)
<1>1. Rejected.outcome # "ok" /\ Raised.outcome # "ok"
  BY DEF Rejected, Raised
<1>2. \A x : Ok(x).v = x /\ Ok(x).outcome = "ok"
  BY DEF Ok
<1>3. local.outcome = "ok" => local.v \in MinInstant .. MaxInstant
  BY <1>1, <1>2 DEF LocalizeNaive
<1>4. instant.outcome = "ok" => instant.v \in MinInstant .. MaxInstant
  <2> HIDE DEF local
  <2>1. \/ instant = Rejected \/ instant = Raised
        \/ instant = Ok(at.v) /\ at.v \in MinInstant .. MaxInstant
        \/ instant = local
    BY DEF NormalizeTimestampToUtc, local
  <2> HIDE DEF instant
  <2> QED BY <1>1, <1>2, <1>3, <2>1
<1>5. mw.outcome = "ok" /\ mw.v # Infinite => mw.v = IF unit = "KW" THEN power.v ELSE 1000 * power.v
  <2> DEFINE kw == IF unit = "KW" THEN power.v ELSE 1000 * power.v
  <2>1. mw = Rejected \/ mw = Raised \/ mw = Ok(Infinite) \/ mw = Ok(kw)
    BY DEF NormalizePowerToMw
  <2> HIDE DEF mw, kw
  <2>2. mw.outcome = "ok" /\ mw.v # Infinite => mw.v = kw
    BY <1>1, <1>2, <2>1
  <2> QED BY <2>2 DEF kw
<1> HIDE DEF instant, mw
<1>6. answer = record /\ instant.outcome = "ok" /\ mw.outcome = "ok"
  <2>1. answer = IF fromCell.outcome = "rejected" THEN Rejected
                 ELSE IF instant.outcome # "ok" THEN instant
                 ELSE IF mw.outcome # "ok" THEN mw ELSE record
    BY DEF Convert, instant, mw
  <2> HIDE DEF record
  <2> QED BY <1>1, <2>1
<1>7. mw.v # Infinite /\ record = Ok([consumer |-> consumer.v, timestamp |-> instant.v, value |-> mw.v])
  BY <1>1, <1>6 DEF ConsumptionRecordModelValidate
<1>8. answer.v = [consumer |-> consumer.v, timestamp |-> instant.v, value |-> mw.v]
  BY <1>2, <1>6, <1>7
<1> QED BY <1>4, <1>5, <1>6, <1>7, <1>8

\* What EveryRowAccounted says: n rows of which the good ones have the records value, the
\* dead letters and the records of the result.
Accounted(n, good, value, letters, recs) ==
  LET dead == {letters[i].row : i \in {k \in DOMAIN letters : letters[k].of = "row"}}
      kept == InOrder({k \in 1 .. n : k + 1 \notin dead})
  IN  /\ \A i, j \in DOMAIN letters : letters[i].of = "row" /\ letters[i].row = letters[j].row => i = j
      /\ \A i \in DOMAIN kept : kept[i] \in good
      /\ recs = [i \in DOMAIN kept |-> value[kept[i]]]
      /\ \A j, k \in good :
           /\ j # k /\ value[j].consumer = value[k].consumer /\ value[j].timestamp = value[k].timestamp
           => {j + 1, k + 1} \subseteq dead

\* What GapsExact says of the records of the result.
ExactRecordGaps(recs, grid, reported) ==
  LET stamps(c)  == {recs[i].timestamp : i \in {k \in DOMAIN recs : recs[k].consumer = c}}
      missing(c) == {t \in MinInstant .. MaxInstant :
                       /\ IsAligned(grid, t) /\ t \notin stamps(c)
                       /\ \E a, b \in stamps(c) : a < t /\ t < b}
  IN  /\ \A i \in DOMAIN recs : LET c == recs[i].consumer IN
           missing(c) = UNION {Points(grid, g) : g \in {h \in reported : h.consumer = c}}
      /\ \A g \in reported : g.count = Cardinality(Points(grid, g))
      /\ \A g, h \in reported :
           g # h /\ g.consumer = h.consumer => Points(grid, g) \cap Points(grid, h) = {}

\* The end of a reading: filed rows, a series validation and the letters it adds.
Validated(n, good, value, cs, letters, grid, series, extra, all, recs) ==
  /\ Filed(n, good, value, cs, letters)
  /\ grid # NoGrid => IsGrid(grid)
  /\ \A k \in good : value[k].timestamp \in MinInstant .. MaxInstant
  /\ series = ValidateConsumptionSeries(cs, grid)
  /\ DOMAIN extra = DOMAIN series.issues /\ extra = [i \in DOMAIN extra |-> extra[i]]
  /\ \A i \in DOMAIN extra : extra[i].of = "row" /\ extra[i].row = series.issues[i].position
  /\ all = letters \o extra
  /\ recs = [i \in DOMAIN series.valid |-> series.valid[i].record]

\* The series validation accounts for every row that was filed.
LEMMA SeriesSettled ==
  ASSUME NEW n, NEW good, NEW value, NEW cs, NEW letters, NEW grid, NEW series, NEW extra,
         NEW all, NEW recs, Validated(n, good, value, cs, letters, grid, series, extra, all, recs)
  PROVE  /\ Accounted(n, good, value, all, recs)
         /\ grid # NoGrid => ExactRecordGaps(recs, grid, series.gaps)
<1> SUFFICES
      ASSUME Filed(n, good, value, cs, letters), grid # NoGrid => IsGrid(grid),
             \A k \in good : value[k].timestamp \in MinInstant .. MaxInstant,
             series = ValidateConsumptionSeries(cs, grid),
             DOMAIN extra = DOMAIN series.issues, extra = [i \in DOMAIN extra |-> extra[i]],
             \A i \in DOMAIN extra : extra[i].of = "row" /\ extra[i].row = series.issues[i].position,
             all = letters \o extra,
             recs = [i \in DOMAIN series.valid |-> series.valid[i].record]
      PROVE  /\ Accounted(n, good, value, all, recs)
             /\ grid # NoGrid => ExactRecordGaps(recs, grid, series.gaps)
  BY DEF Validated
<1> DEFINE duplicate == DuplicateIndexes(cs)
           faulty == duplicate \cup MisalignedIndexes(cs, grid)
           fine == DOMAIN cs \ faulty
           issues == InOrder(faulty)
           valid == InOrder(fine)
           surviving == [i \in DOMAIN valid |-> cs[valid[i]]]
           found == [i \in DOMAIN issues |-> IF issues[i] \in duplicate
                                             THEN DuplicateTimestampIssue(cs[issues[i]].position)
                                             ELSE IntervalMisalignedIssue(cs[issues[i]].position)]
           dead == {all[i].row : i \in {k \in DOMAIN all : all[k].of = "row"}}
           kept == InOrder({k \in 1 .. n : k + 1 \notin dead})
<1>0. /\ n \in Nat /\ IsTuple(cs)
      /\ \A i \in DOMAIN cs : /\ cs[i].position \in Int /\ cs[i].position - 1 \in good
                              /\ cs[i].record = value[cs[i].position - 1]
      /\ \A k \in good : \E i \in DOMAIN cs : cs[i].position = k + 1
      /\ good \subseteq 1 .. n
  BY DEF Filed
<1>1. series = [valid |-> surviving, issues |-> found, gaps |-> DetectGaps(surviving, grid)]
  BY DEF ValidateConsumptionSeries
<1>2. faulty \subseteq DOMAIN cs
  BY DEF DuplicateIndexes, MisalignedIndexes
<1>3. \A i \in DOMAIN cs : i \in duplicate <=> \E j \in DOMAIN cs \ {i} : Key(cs[i]) = Key(cs[j])
  BY DEF DuplicateIndexes
<1>4. \A i \in fine : grid # NoGrid => IsAligned(grid, cs[i].record.timestamp)
  BY DEF MisalignedIndexes
<1>5. \A i \in DOMAIN issues : found[i].position = cs[issues[i]].position
  BY DEF DuplicateTimestampIssue, IntervalMisalignedIssue
<1>6. DOMAIN found = DOMAIN issues
  OBVIOUS
<1> HIDE DEF found
<1>7. series.issues = found /\ series.valid = surviving /\ series.gaps = DetectGaps(surviving, grid)
  BY ONLY <1>1
<1> HIDE DEF duplicate, faulty, fine, issues, valid
<1>8. DOMAIN extra = DOMAIN issues /\ \A i \in DOMAIN extra : extra[i].of = "row" /\ extra[i].row = cs[issues[i]].position
  BY <1>5, <1>6, <1>7
<1>9. IsFiniteSet(fine) /\ fine \subseteq Int /\ IsFiniteSet(faulty) /\ faulty \subseteq Int
  <2>1. DOMAIN cs = 1 .. Len(cs) /\ Len(cs) \in Nat
    BY ONLY <1>0, TupleIsSeq DEF IsTuple
  <2>2. IsFiniteSet(1 .. Len(cs)) /\ 1 .. Len(cs) \subseteq Int
    BY ONLY <2>1, FS_Interval
  <2>3. fine \in SUBSET (1 .. Len(cs)) /\ faulty \in SUBSET (1 .. Len(cs))
    BY ONLY <1>2, <2>1 DEF fine
  <2> QED BY ONLY <2>2, <2>3, FS_Subset
<1>10. /\ Cardinality(fine) \in Nat /\ valid \in [1 .. Cardinality(fine) -> fine]
       /\ Cardinality(faulty) \in Nat /\ issues \in [1 .. Cardinality(faulty) -> faulty]
  BY ONLY <1>9, InOrderEnumerates DEF valid, issues
<1>11. IsTuple(extra)
  <2>1. DOMAIN extra = 1 .. Cardinality(faulty) /\ Cardinality(faulty) \in Nat
    BY <1>8, <1>10
  <2> QED BY <2>1 DEF IsTuple
<1>12. /\ \A i, j \in DOMAIN all : all[i].of = "row" /\ all[i].row = all[j].row => i = j
       /\ \A i \in faulty : cs[i].position \in dead
       /\ DOMAIN kept = DOMAIN valid
       /\ \A i \in DOMAIN valid : /\ valid[i] \in DOMAIN cs \ faulty /\ kept[i] \in good
                                  /\ kept[i] = cs[valid[i]].position - 1
                                  /\ cs[valid[i]].record = value[kept[i]]
       /\ \A i, j \in DOMAIN valid : i # j => valid[i] # valid[j]
  <2>1. issues = InOrder(faulty) /\ valid = InOrder(DOMAIN cs \ faulty)
    BY DEF issues, valid, fine
  <2> HIDE DEF dead, kept
  <2>2. /\ dead = {all[i].row : i \in {k \in DOMAIN all : all[k].of = "row"}}
        /\ kept = InOrder({k \in 1 .. n : k + 1 \notin dead})
    BY DEF dead, kept
  <2>3. Settling(n, good, value, cs, letters, faulty, issues, valid, extra, all, dead, kept)
    BY ONLY <1>2, <1>8, <1>11, <2>1, <2>2, Filed(n, good, value, cs, letters), all = letters \o extra
       DEF Settling
  <2>4. AreSettled(cs, good, value, faulty, valid, all, dead, kept)
    BY ONLY <2>3, Settled
  <2> QED BY ONLY <2>4 DEF AreSettled
<1> HIDE DEF dead, kept
<1>13. /\ DOMAIN surviving = DOMAIN valid /\ DOMAIN recs = DOMAIN valid
       /\ \A i \in DOMAIN valid : /\ surviving[i] = cs[valid[i]] /\ recs[i] = cs[valid[i]].record
                                  /\ recs[i] = value[kept[i]]
  BY <1>7, <1>12
<1>14. recs = [i \in DOMAIN kept |-> value[kept[i]]]
  <2>1. recs = [i \in DOMAIN recs |-> recs[i]]
    BY <1>7
  <2> QED BY <1>12, <1>13, <2>1
<1>15. ASSUME NEW j \in good, NEW k \in good, j # k,
              value[j].consumer = value[k].consumer, value[j].timestamp = value[k].timestamp
       PROVE  {j + 1, k + 1} \subseteq dead
  <2>1. PICK a \in DOMAIN cs : cs[a].position = j + 1
    BY <1>0
  <2>2. PICK b \in DOMAIN cs : cs[b].position = k + 1
    BY <1>0
  <2>3. j \in Int /\ k \in Int
    BY <1>0
  <2>4. cs[a].record = value[j] /\ cs[b].record = value[k] /\ a # b
    <3>1. cs[a].position - 1 = j /\ cs[b].position - 1 = k
      BY ONLY <2>1, <2>2, <2>3
    <3> QED BY <1>0, <1>15, <3>1
  <2>5. Key(cs[a]) = Key(cs[b])
    BY <1>15, <2>4 DEF Key
  <2>6. a \in faulty /\ b \in faulty
    BY <1>3, <2>4, <2>5 DEF faulty
  <2> QED BY <1>12, <2>1, <2>2, <2>6
<1>16. Accounted(n, good, value, all, recs)
  <2>1. \A i \in DOMAIN kept : kept[i] \in good
    BY <1>12
  <2> QED BY ONLY <1>12, <1>14, <1>15, <2>1 DEF Accounted, dead, kept
<1>17. ASSUME grid # NoGrid PROVE ExactRecordGaps(recs, grid, series.gaps)
  <2>1. IsTuple(surviving)
    <3>1. surviving = [i \in 1 .. Cardinality(fine) |-> surviving[i]] /\ Cardinality(fine) \in Nat
      BY ONLY <1>10, <1>13
    <3> HIDE DEF surviving
    <3> QED BY ONLY <3>1 DEF IsTuple
  <2>2. ASSUME NEW i \in DOMAIN surviving
        PROVE  /\ surviving[i].record.timestamp \in MinInstant .. MaxInstant
               /\ IsAligned(grid, surviving[i].record.timestamp)
    <3>1. surviving[i] = cs[valid[i]] /\ valid[i] \in fine /\ kept[i] \in good
          /\ cs[valid[i]].record = value[kept[i]]
      BY <1>12, <1>13 DEF fine
    <3> QED BY <1>4, <1>17, <3>1
  <2>3. OnGrid(surviving, grid)
    BY <1>17, <2>1, <2>2 DEF OnGrid
  <2> DEFINE S == surviving
             R == recs
  <2>4. /\ DOMAIN R = DOMAIN S /\ \A i \in DOMAIN R : R[i] = S[i].record
    BY <1>13
  <2> HIDE DEF S, R
  <2>5. ExactGaps(S, grid, series.gaps)
    BY ONLY <1>7, <1>17, <2>3, DetectedGapsAreExact DEF S
  <2>6. \A c : StampsOf(S, c) = {R[i].timestamp : i \in {k \in DOMAIN R : R[k].consumer = c}}
    BY ONLY <2>4 DEF StampsOf
  <2>7. ExactRecordGaps(R, grid, series.gaps)
    <3> DEFINE Missing(T) == {t \in MinInstant .. MaxInstant :
                                /\ IsAligned(grid, t) /\ t \notin T
                                /\ \E a, b \in T : a < t /\ t < b}
               Stamps(c) == {R[i].timestamp : i \in {k \in DOMAIN R : R[k].consumer = c}}
               Of(c) == UNION {Points(grid, g) : g \in {h \in series.gaps : h.consumer = c}}
    <3>1. \A i \in DOMAIN S : Missing(StampsOf(S, S[i].record.consumer)) = Of(S[i].record.consumer)
      BY ONLY <2>5 DEF ExactGaps
    <3>2. \A c : StampsOf(S, c) = Stamps(c)
      BY ONLY <2>6
    <3> HIDE DEF Missing, Stamps, Of
    <3>3. \A i \in DOMAIN R : Missing(Stamps(R[i].consumer)) = Of(R[i].consumer)
      BY ONLY <2>4, <3>1, <3>2
    <3>4. /\ \A g \in series.gaps : g.count = Cardinality(Points(grid, g))
          /\ \A g, h \in series.gaps :
               g # h /\ g.consumer = h.consumer => Points(grid, g) \cap Points(grid, h) = {}
      BY ONLY <2>5 DEF ExactGaps
    <3> QED BY ONLY <3>3, <3>4 DEF ExactRecordGaps, Missing, Stamps, Of
  <2> QED BY <2>7 DEF R
<1> QED BY <1>16, <1>17

-----------------------------------------------------------------------------
(* The CSV adapter                                                         *)

\* The operators of the instance are those of the modules it extends.
LEMMA CsvConversion ==
  ASSUME NEW row, NEW index, NEW cfg
  PROVE  Csv!ConvertRow(row, index, cfg)
           = LET at == row[index["timestamp"]]
             IN  Convert(row[index["consumer_id"]], ConsumptionTimestampFromCsv(at), at,
                         row[index["value_mw"]], cfg.zone, cfg.unit)
BY DEF Csv!ConvertRow, Csv!Convert, Convert,
       Csv!ConsumptionTimestampFromCsv, ConsumptionTimestampFromCsv,
       Csv!NormalizeTimestampToUtc, NormalizeTimestampToUtc, Csv!ParseTimestamp, ParseTimestamp,
       Csv!LocalizeNaive, LocalizeNaive, Csv!ReplaceTzinfo, ReplaceTzinfo,
       Csv!Wall, Wall, Csv!Offset, Offset, Csv!NormalizePowerToMw, NormalizePowerToMw,
       Csv!DecimalPower, DecimalPower,
       Csv!ConsumptionRecordModelValidate, ConsumptionRecordModelValidate,
       Csv!Ok, Ok, Csv!Rejected, Rejected, Csv!Raised, Raised

\* So is the series validation,
LEMMA CsvValidation ==
  ASSUME NEW cs, NEW grid
  PROVE  Csv!ValidateConsumptionSeries(cs, grid) = ValidateConsumptionSeries(cs, grid)
BY ZenonT(60)
   DEF Csv!ValidateConsumptionSeries, ValidateConsumptionSeries,
       Csv!DuplicateIndexes, DuplicateIndexes, Csv!MisalignedIndexes, MisalignedIndexes,
       Csv!InOrder, InOrder, Csv!Rank, Rank, Csv!Cardinality, Cardinality, Csv!Key, Key,
       Csv!IsAligned, IsAligned, Csv!DuplicateTimestampIssue, DuplicateTimestampIssue,
       Csv!IntervalMisalignedIssue, IntervalMisalignedIssue, Csv!DetectGaps, DetectGaps,
       Csv!ToSet, ToSet, Csv!GapBetween, GapBetween, Csv!StepCountBetween, StepCountBetween,
       Csv!GridOffset, GridOffset, Csv!ConsumptionGap, ConsumptionGap

\* and the resolution of a header.
LEMMA CsvField ==
  ASSUME NEW specs, NEW words
  PROVE  Csv!ResolveField(specs, words) = ResolveField(specs, words)
BY DEF Csv!ResolveField, ResolveField, Csv!Resolution, Resolution, Csv!Credible, Credible,
       Csv!IsAmbiguous, IsAmbiguous, Csv!RankFuzzyCandidates, RankFuzzyCandidates,
       Csv!Confidence, Confidence, Csv!MatchTargets, MatchTargets,
       Csv!NormalizeFieldName, NormalizeFieldName, Csv!Separators, Separators,
       Csv!RawName, RawName, Csv!RequiredFields, RequiredFields,
       Csv!InOrder, InOrder, Csv!Rank, Rank, Csv!Cardinality, Cardinality

\* A header row without a fatal problem has columns one can read.
LEMMA CsvColumns ==
  ASSUME NEW specs, NEW row, IsTuple(row), NEW unit \in PowerUnits, NEW schema,
         schema = Csv!ApplyConsumptionUnitSafety(Csv!ResolveSchema(specs, row), unit),
         Csv!SchemaDiagnostics(schema).fatal = {}
  PROVE  LET index == Csv!CanonicalColumnIndex(schema)
         IN  GoodColumns(index, row, unit) /\ index # << >>
<1> DEFINE raw == ResolveSchema(specs, row)
           index == CanonicalColumnIndex(schema)
<1>1. Csv!ResolveSchema(specs, row) = raw
  BY CsvField DEF Csv!ResolveSchema, ResolveSchema, Csv!Columns, Columns
<1>2. Csv!ApplyConsumptionUnitSafety(raw, unit) = ApplyConsumptionUnitSafety(raw, unit)
  <2> HIDE DEF raw
  <2> QED
    BY DEF Csv!ApplyConsumptionUnitSafety, ApplyConsumptionUnitSafety, Csv!Columns, Columns,
           Csv!RequiredFields, RequiredFields, Csv!PowerToken, PowerToken,
           Csv!PowerUnits, PowerUnits, Csv!ApplyHeaderUnitPolicy, ApplyHeaderUnitPolicy,
           Csv!IsEnergyLike, IsEnergyLike, Csv!EnergyLastTokens, EnergyLastTokens,
           Csv!Last, Last, Csv!HeaderClaimsConflictingUnit, HeaderClaimsConflictingUnit
<1>3. schema = ApplyConsumptionUnitSafety(raw, unit)
  BY <1>1, <1>2
<1>4. Csv!CanonicalColumnIndex(schema) = index
  BY DEF Csv!CanonicalColumnIndex, CanonicalColumnIndex, Csv!Columns, Columns,
         Csv!RequiredFields, RequiredFields
<1>5. schema.missing = {} /\ schema.collisions = {}
  BY DEF Csv!SchemaDiagnostics
<1>6. GoodColumns(index, row, unit) /\ DOMAIN index = RequiredFields
  <2> HIDE DEF index
  <2>1. index = CanonicalColumnIndex(schema)
    BY DEF index
  <2> QED BY ONLY <1>3, <1>5, <2>1, IsTuple(row), unit \in PowerUnits, AcceptedColumnsAreGood DEF raw
<1>7. index # << >>
  <2> HIDE DEF index
  <2>1. DOMAIN << >> = {} /\ RequiredFields # {}
    BY DEF RequiredFields
  <2> QED BY <1>6, <2>1
<1> QED BY ONLY <1>4, <1>6, <1>7

\* The records of the rows.
CsvValue == [k \in DOMAIN rows |-> Csv!Answer(k).v]

\* The source read so far and the columns it is read in.
CsvFits ==
  /\ config \in CsvConfigs
  /\ header \in CsvHeaderRows \cup {NoHeader}
  /\ IsTuple(rows) /\ \A k \in DOMAIN rows : rows[k] \in CsvDataRows
  /\ header = NoHeader => columns = << >>
  /\ columns = << >> => rows = << >>
  /\ columns # << >> => GoodColumns(columns, header, config.unit)
  /\ pc \in {"new", "idle"} => header = NoHeader
  /\ pc = "reading" /\ header # NoHeader => columns # << >>

\* Every candidate is the record of a readable row.
CsvCandidates ==
  \A i \in DOMAIN candidates :
    /\ candidates[i].position \in Int /\ candidates[i].position - 1 \in Csv!Readable
    /\ candidates[i].record = CsvValue[candidates[i].position - 1]

\* While the source is read, every row is a candidate or a dead letter.
CsvOpen ==
  pc \in {"new", "idle", "reading"} =>
    /\ records = << >> /\ gaps = {}
    /\ Filed(Len(rows), Csv!Readable, CsvValue, candidates, dlq)

\* What the result says of it.
CsvClosed ==
  pc = "done" =>
    /\ columns # << >> => Accounted(Len(rows), Csv!Readable, CsvValue, dlq, records)
    /\ config.grid # NoGrid => ExactRecordGaps(records, config.grid, gaps)

CsvInv == CsvFits /\ CsvCandidates /\ CsvOpen /\ CsvClosed

\* The answers depend on the rows and the columns alone.
LEMMA CsvAnswersStay ==
  ASSUME UNCHANGED <<rows, header, columns, config>>
  PROVE  /\ Csv!Readable' = Csv!Readable /\ CsvValue' = CsvValue
         /\ \A k : Csv!Answer(k)' = Csv!Answer(k)
BY DEF Csv!Readable, Csv!Answer, CsvValue

\* A result without records has no gaps.
LEMMA NoRecordsNoGaps ==
  ASSUME NEW grid
  PROVE  ExactRecordGaps(<< >>, grid, {})
BY DEF ExactRecordGaps

\* The readable rows are rows, and their records are of instants.
LEMMA CsvReadableRows ==
  ASSUME CsvFits
  PROVE  /\ Csv!Readable \subseteq 1 .. Len(rows) /\ DOMAIN rows = 1 .. Len(rows) /\ Len(rows) \in Nat
         /\ \A k \in Csv!Readable :
              /\ CsvValue[k] = Csv!Answer(k).v
              /\ CsvValue[k].timestamp \in MinInstant .. MaxInstant
              /\ CsvValue[k].value = IF config.unit = "KW" THEN rows[k][columns["value_mw"]].v
                                     ELSE 1000 * rows[k][columns["value_mw"]].v
<1>1. DOMAIN rows = 1 .. Len(rows) /\ Len(rows) \in Nat
  BY TupleIsSeq DEF CsvFits, IsTuple
<1>2. Csv!Readable \subseteq DOMAIN rows
  BY DEF Csv!Readable
<1>3. ASSUME NEW k \in Csv!Readable
      PROVE  /\ CsvValue[k] = Csv!Answer(k).v
             /\ CsvValue[k].timestamp \in MinInstant .. MaxInstant
             /\ CsvValue[k].value = IF config.unit = "KW" THEN rows[k][columns["value_mw"]].v
                                    ELSE 1000 * rows[k][columns["value_mw"]].v
  <2>1. CsvValue[k] = Csv!Answer(k).v
    BY <1>2 DEF CsvValue
  <2> DEFINE at == rows[k][columns["timestamp"]]
             c == rows[k][columns["consumer_id"]]
             p == rows[k][columns["value_mw"]]
             answer == Csv!Answer(k)
  <2>2. answer = Convert(c, ConsumptionTimestampFromCsv(at), at, p, config.zone, config.unit)
    BY CsvConversion DEF Csv!Answer
  <2>3. answer.outcome = "ok"
    BY DEF Csv!Readable
  <2> HIDE DEF answer, at, c, p
  <2>4. /\ answer.v.timestamp \in MinInstant .. MaxInstant
        /\ answer.v.value = IF config.unit = "KW" THEN p.v ELSE 1000 * p.v
    BY ONLY <2>2, <2>3, ConvertedRecord
  <2> QED BY <2>1, <2>4 DEF answer, p
<1> QED BY <1>1, <1>2, <1>3

\* Another data row leaves the answers to the earlier ones as they are.
LEMMA CsvRowsGrow ==
  ASSUME CsvFits, NEW row, rows' = Append(rows, row), UNCHANGED <<header, columns, config>>,
         NEW n, n = Len(rows)
  PROVE  /\ IsTuple(rows') /\ Len(rows') = n + 1 /\ DOMAIN rows' = 1 .. n + 1 /\ n \in Nat
         /\ rows'[n + 1] = row /\ \A k \in 1 .. n : rows'[k] = rows[k]
         /\ Csv!Readable' = IF Len(row) = Len(header) /\ Csv!ConvertRow(row, columns, config).outcome = "ok"
                            THEN Csv!Readable \union {n + 1} ELSE Csv!Readable
         /\ \A k \in Csv!Readable : CsvValue'[k] = CsvValue[k] /\ Csv!Answer(k)' = Csv!Answer(k)
         /\ CsvValue'[n + 1] = Csv!ConvertRow(row, columns, config).v
<1> DEFINE more == Append(rows, row)
           answer == Csv!ConvertRow(row, columns, config)
<1>1. DOMAIN rows = 1 .. n /\ n \in Nat /\ Csv!Readable \subseteq 1 .. n /\ IsTuple(rows)
  BY CsvReadableRows DEF CsvFits
<1>2. /\ IsTuple(more) /\ Len(more) = n + 1 /\ DOMAIN more = 1 .. n + 1
      /\ more[n + 1] = row /\ \A k \in 1 .. n : more[k] = rows[k]
  BY <1>1, AppendTuple
<1> HIDE DEF more, answer
<1>3. rows' = more
  BY DEF more
<1>4. \A k : Csv!Answer(k)' = Csv!ConvertRow(more[k], columns, config)
  BY <1>3 DEF Csv!Answer
<1>5. /\ \A k \in 1 .. n : Csv!Answer(k)' = Csv!Answer(k)
      /\ Csv!Answer(n + 1)' = answer
  <2>1. \A k : Csv!Answer(k) = Csv!ConvertRow(rows[k], columns, config)
    BY DEF Csv!Answer
  <2> QED BY <1>2, <1>4, <2>1 DEF answer
<1>6. Csv!Readable' = {k \in 1 .. n + 1 : Len(more[k]) = Len(header)
                         /\ Csv!ConvertRow(more[k], columns, config).outcome = "ok"}
  BY <1>2, <1>3 DEF Csv!Readable, Csv!Answer
<1>7. Csv!Readable = {k \in 1 .. n : Len(rows[k]) = Len(header)
                         /\ Csv!ConvertRow(rows[k], columns, config).outcome = "ok"}
  BY <1>1 DEF Csv!Readable, Csv!Answer
<1>8. Csv!Readable' = IF Len(row) = Len(header) /\ answer.outcome = "ok"
                      THEN Csv!Readable \union {n + 1} ELSE Csv!Readable
  <2> DEFINE R == Csv!Readable
             S == Csv!Readable'
  <2>1. \A k : k \in S <=> k \in 1 .. n + 1 /\ Len(more[k]) = Len(header)
                             /\ Csv!ConvertRow(more[k], columns, config).outcome = "ok"
    BY <1>6
  <2>2. \A k : k \in R <=> k \in 1 .. n /\ Len(rows[k]) = Len(header)
                             /\ Csv!ConvertRow(rows[k], columns, config).outcome = "ok"
    BY <1>7
  <2>3. \A k : k \in 1 .. n + 1 <=> k \in 1 .. n \/ k = n + 1
    BY <1>1
  <2>4. n + 1 \in S <=> Len(row) = Len(header) /\ answer.outcome = "ok"
    BY <1>2, <2>1, <2>3 DEF answer
  <2>5. \A k \in 1 .. n : k \in S <=> k \in R
    BY <1>2, <2>1, <2>2, <2>3
  <2>6. \A k : (k \in S => k \in 1 .. n \/ k = n + 1) /\ (k \in R => k \in 1 .. n)
    BY <2>1, <2>2, <2>3
  <2> HIDE DEF R, S
  <2>7. S = IF Len(row) = Len(header) /\ answer.outcome = "ok" THEN R \union {n + 1} ELSE R
    <3>1. CASE n + 1 \in S
      <4>1. \A k : k \in S <=> k \in R \/ k = n + 1
        BY ONLY <2>5, <2>6, <3>1
      <4>2. S = R \union {n + 1}
        BY ONLY <4>1
      <4> QED BY ONLY <2>4, <3>1, <4>2
    <3>2. CASE n + 1 \notin S
      <4>1. \A k : k \in S <=> k \in R
        BY ONLY <2>5, <2>6, <3>2
      <4>2. S = R
        BY ONLY <4>1
      <4> QED BY ONLY <2>4, <3>2, <4>2
    <3> QED BY ONLY <3>1, <3>2
  <2> QED BY <2>7 DEF R, S
<1>9. DOMAIN CsvValue' = 1 .. n + 1 /\ \A k \in 1 .. n + 1 : CsvValue'[k] = Csv!Answer(k)'.v
  BY <1>2, <1>3 DEF CsvValue
<1>10. \A k \in 1 .. n : CsvValue[k] = Csv!Answer(k).v
  BY <1>1 DEF CsvValue
<1>11. \A k \in Csv!Readable : k \in 1 .. n /\ k \in 1 .. n + 1
  BY <1>1
<1>12. n + 1 \in 1 .. n + 1
  BY <1>1
<1> QED BY <1>1, <1>2, <1>3, <1>5, <1>8, <1>9, <1>10, <1>11, <1>12 DEF answer

\* Before anything is read there is nothing to account for.
LEMMA CsvStarts ==
  ASSUME Csv!Init
  PROVE  CsvInv
<1>1. /\ config \in CsvConfigs /\ pc = "new" /\ header = NoHeader /\ columns = << >> /\ rows = << >>
      /\ candidates = << >> /\ dlq = << >> /\ gaps = {} /\ records = << >>
  BY DEF Csv!Init
<1>2. IsTuple(rows) /\ DOMAIN rows = {} /\ Len(rows) = 0
  BY <1>1 DEF IsTuple
<1>3. CsvFits
  BY <1>1, <1>2 DEF CsvFits
<1>4. CsvCandidates
  BY <1>1 DEF CsvCandidates
<1>5. Csv!Readable = {}
  BY <1>2 DEF Csv!Readable
<1>6. Filed(0, {}, CsvValue, << >>, << >>)
  BY FiledNothing
<1>7. CsvOpen
  BY <1>1, <1>2, <1>5, <1>6 DEF CsvOpen
<1> QED BY <1>1, <1>3, <1>4, <1>7 DEF CsvInv, CsvClosed

\* A step that only moves on, before or after the reading.
LEMMA CsvMovesOn ==
  ASSUME CsvInv, UNCHANGED <<config, header, columns, rows, candidates, dlq, gaps, records>>,
         \/ pc \in {"new", "idle"} /\ pc' \in {"new", "idle", "reading", "misconfigured", "unavailable"}
         \/ pc = "reading" /\ pc' \in {"reading", "unavailable"}
         \/ pc' = pc
  PROVE  CsvInv'
<1>1. /\ Csv!Readable' = Csv!Readable /\ CsvValue' = CsvValue
      /\ \A k : Csv!Answer(k)' = Csv!Answer(k)
  BY CsvAnswersStay
<1>2. CsvFits'
  BY DEF CsvInv, CsvFits
<1>3. CsvCandidates'
  BY <1>1 DEF CsvInv, CsvCandidates
<1>4. CsvOpen'
  BY <1>1 DEF CsvInv, CsvOpen
<1>5. CsvClosed'
  BY <1>1 DEF CsvInv, CsvClosed
<1> QED BY <1>2, <1>3, <1>4, <1>5 DEF CsvInv

\* The header row fixes the columns, or ends the ingestion with a dead letter about them.
LEMMA CsvReadsHeader ==
  ASSUME CsvInv, NEW row \in CsvHeaderRows, Csv!ReadHeader(row)
  PROVE  CsvInv'
<1> DEFINE schema == Csv!ApplyConsumptionUnitSafety(Csv!ResolveSchema(config.specs, row), config.unit)
           fatal == Csv!SchemaDiagnostics(schema).fatal
<1>0. /\ pc = "reading" /\ header = NoHeader /\ header' = row
      /\ UNCHANGED <<config, rows, candidates, gaps, records>>
      /\ IF fatal # {} THEN pc' = "done" /\ columns' = columns
         ELSE columns' = Csv!CanonicalColumnIndex(schema) /\ dlq' = dlq /\ pc' = pc
  BY DEF Csv!ReadHeader
<1>1. columns = << >> /\ rows = << >> /\ config \in CsvConfigs /\ IsTuple(rows)
  BY <1>0 DEF CsvInv, CsvFits
<1>2. DOMAIN rows = {} /\ Len(rows) = 0
  BY <1>1
<1>3. Csv!Readable = {} /\ Csv!Readable' = {}
  BY <1>0, <1>2 DEF Csv!Readable
<1>4. records = << >> /\ gaps = {} /\ Filed(0, {}, CsvValue, candidates, dlq)
  BY <1>0, <1>2, <1>3 DEF CsvInv, CsvOpen
<1>5. DOMAIN candidates = {}
  BY <1>4 DEF Filed
<1>6. CsvCandidates'
  BY <1>0, <1>5 DEF CsvCandidates
<1>7. IsTuple(row) /\ row # NoHeader /\ config.unit \in PowerUnits
  BY <1>1, IngestionAssumption
<1>8. CASE fatal # {}
  <2>1. pc' = "done" /\ columns' = << >>
    BY <1>0, <1>1, <1>8
  <2>2. CsvFits'
    BY <1>0, <1>1, <1>7, <2>1 DEF CsvFits
  <2>3. CsvOpen'
    BY <2>1 DEF CsvOpen
  <2>4. ExactRecordGaps(records, config.grid, gaps)
    BY <1>4, NoRecordsNoGaps
  <2>5. ExactRecordGaps(records, config.grid, gaps)'
    BY <1>0, <2>4
  <2>6. CsvClosed'
    BY <2>1, <2>5 DEF CsvClosed
  <2> QED BY <1>6, <2>2, <2>3, <2>6 DEF CsvInv
<1>9. CASE fatal = {}
  <2>1. pc' = "reading" /\ dlq' = dlq /\ columns' = Csv!CanonicalColumnIndex(schema)
    BY <1>0, <1>9
  <2>2. GoodColumns(columns', row, config.unit) /\ columns' # << >>
    <3> HIDE DEF schema
    <3>1. schema = Csv!ApplyConsumptionUnitSafety(Csv!ResolveSchema(config.specs, row), config.unit)
      BY DEF schema
    <3>2. LET index == Csv!CanonicalColumnIndex(schema)
          IN  GoodColumns(index, row, config.unit) /\ index # << >>
      BY ONLY <1>7, <1>9, <3>1, CsvColumns
    <3> QED BY <2>1, <3>2
  <2>3. CsvFits'
    BY <1>0, <1>1, <1>7, <2>1, <2>2 DEF CsvFits
  <2>4. Filed(0, {}, CsvValue', candidates, dlq)
    <3>1. DOMAIN candidates = {} /\ IsTuple(candidates) /\ IsTuple(dlq)
      BY <1>4, <1>5 DEF Filed
    <3> QED BY <1>4, <3>1 DEF Filed
  <2>5. CsvOpen'
    BY <1>0, <1>2, <1>3, <1>4, <2>1, <2>4 DEF CsvOpen
  <2>6. CsvClosed'
    BY <2>1 DEF CsvClosed
  <2> QED BY <1>6, <2>3, <2>5, <2>6 DEF CsvInv
<1> QED BY <1>8, <1>9

\* A data row becomes a candidate or a dead letter, or an exception ends the ingestion.
LEMMA CsvIngestsRow ==
  ASSUME CsvInv, NEW row \in CsvDataRows, Csv!IngestDataRow(row)
  PROVE  CsvInv'
<1> DEFINE n == Len(rows)
           answer == Csv!ConvertRow(row, columns, config)
           fits == Len(row) = Len(header)
           Letter(code) == Csv!RowDlq(Csv!LogicalRow(rows) + 1, code)
           c == Csv!Candidate(answer.v, Csv!LogicalRow(rows) + 1)
<1>0. /\ pc = "reading" /\ header # NoHeader /\ rows' = Append(rows, row)
      /\ UNCHANGED <<config, header, columns, gaps, records>>
      /\ \/ ~fits /\ dlq' = Append(dlq, Letter("csv_row_shape_invalid")) /\ UNCHANGED <<pc, candidates>>
         \/ fits /\ answer.outcome = "ok" /\ candidates' = Append(candidates, c) /\ UNCHANGED <<pc, dlq>>
         \/ /\ fits /\ answer.outcome = "rejected" /\ dlq' = Append(dlq, Letter("csv_row_validation_failed"))
            /\ UNCHANGED <<pc, candidates>>
         \/ fits /\ answer.outcome = "raised" /\ pc' = "raised" /\ UNCHANGED <<candidates, dlq>>
  BY DEF Csv!IngestDataRow, Csv!Fail
<1>1. /\ IsTuple(rows') /\ Len(rows') = n + 1 /\ DOMAIN rows' = 1 .. n + 1 /\ n \in Nat
      /\ rows'[n + 1] = row /\ \A k \in 1 .. n : rows'[k] = rows[k]
      /\ Csv!Readable' = IF fits /\ answer.outcome = "ok"
                         THEN Csv!Readable \union {n + 1} ELSE Csv!Readable
      /\ \A k \in Csv!Readable : CsvValue'[k] = CsvValue[k] /\ Csv!Answer(k)' = Csv!Answer(k)
      /\ CsvValue'[n + 1] = answer.v
  BY <1>0, CsvRowsGrow DEF CsvInv
<1>2. DOMAIN rows = 1 .. n
  BY CsvReadableRows DEF CsvInv
<1>3. CsvFits'
  <2>1. \A k \in DOMAIN rows' : rows'[k] \in CsvDataRows
    <3>1. \A k \in 1 .. n + 1 : k \in 1 .. n \/ k = n + 1
      BY <1>1
    <3>2. \A k \in 1 .. n : rows[k] \in CsvDataRows
      BY <1>2 DEF CsvInv, CsvFits
    <3> QED BY <1>1, <3>1, <3>2
  <2>2. columns # << >> /\ pc' \in {"reading", "raised"}
    BY <1>0 DEF CsvInv, CsvFits
  <2> QED BY <1>0, <1>1, <2>1, <2>2 DEF CsvInv, CsvFits
<1>4. Filed(n, Csv!Readable, CsvValue, candidates, dlq) /\ records = << >> /\ gaps = {}
  BY <1>0 DEF CsvInv, CsvOpen
<1>5. /\ c.position = n + 2 /\ c.record = answer.v
      /\ \A code : Letter(code).of = "row" /\ Letter(code).row = n + 2
  <2>1. Csv!LogicalRow(rows) + 1 = n + 2
    BY <1>1 DEF Csv!LogicalRow
  <2> QED BY <2>1 DEF Csv!Candidate, Csv!RowDlq
<1>6. IsTuple(candidates)
  BY <1>4 DEF Filed
<1> DEFINE R == Csv!Readable
           Q == Csv!Readable'
           V == CsvValue
           W == CsvValue'
<1>7. /\ Q = IF fits /\ answer.outcome = "ok" THEN R \union {n + 1} ELSE R
      /\ \A k \in R : W[k] = V[k]
      /\ W[n + 1] = answer.v /\ Filed(n, R, V, candidates, dlq)
  BY <1>1, <1>4
<1>8. ASSUME candidates' = candidates PROVE CsvCandidates'
  <2>1. R \subseteq Q
    BY <1>1
  <2>2. \A i \in DOMAIN candidates :
          /\ candidates[i].position \in Int /\ candidates[i].position - 1 \in R
          /\ candidates[i].record = V[candidates[i].position - 1]
    BY DEF CsvInv, CsvCandidates
  <2>3. \A i \in DOMAIN candidates :
          /\ candidates[i].position \in Int /\ candidates[i].position - 1 \in Q
          /\ candidates[i].record = W[candidates[i].position - 1]
    BY <1>7, <2>1, <2>2
  <2> QED BY <1>8, <2>3 DEF CsvCandidates
<1> HIDE DEF n, answer, fits, Letter, c, R, Q, V, W
<1>9. ASSUME pc' = pc, Filed(n + 1, Q, W, candidates', dlq') PROVE CsvOpen' /\ CsvClosed'
  <2>1. pc' = "reading" /\ records' = << >> /\ gaps' = {}
    BY <1>0, <1>4, <1>9
  <2>2. Filed(Len(rows'), Csv!Readable', CsvValue', candidates', dlq')
    BY <1>1, <1>9 DEF Q, W
  <2> QED BY <2>1, <2>2 DEF CsvOpen, CsvClosed
<1>10. ASSUME NEW code, dlq' = Append(dlq, Letter(code)), UNCHANGED <<pc, candidates>>,
              ~(fits /\ answer.outcome = "ok")
       PROVE  CsvInv'
  <2>1. Q = R
    BY <1>7, <1>10
  <2>2. Filed(n + 1, R, W, candidates, Append(dlq, Letter(code)))
    BY ONLY <1>5, <1>7, FiledLetter
  <2> QED BY <1>3, <1>8, <1>9, <1>10, <2>1, <2>2 DEF CsvInv
<1>11. CASE fits /\ answer.outcome = "ok" /\ candidates' = Append(candidates, c) /\ UNCHANGED <<pc, dlq>>
  <2>1. Q = R \union {n + 1}
    BY <1>7, <1>11
  <2>2. c.record = W[n + 1]
    BY <1>5, <1>7
  <2>3. Filed(n + 1, R \union {n + 1}, W, Append(candidates, c), dlq)
    BY ONLY <1>5, <1>7, <2>2, FiledRecord
  <2>4. Filed(n + 1, Q, W, candidates', dlq')
    BY <1>11, <2>1, <2>3
  <2>5. CsvCandidates'
    <3>1. \A i \in DOMAIN candidates' :
            /\ candidates'[i].position \in Int /\ candidates'[i].position - 1 \in Q
            /\ candidates'[i].record = W[candidates'[i].position - 1]
      BY ONLY <2>4 DEF Filed
    <3> QED BY <3>1 DEF CsvCandidates, Q, W
  <2> QED BY <1>3, <1>9, <1>11, <2>4, <2>5 DEF CsvInv
<1>12. CASE pc' = "raised" /\ UNCHANGED <<candidates, dlq>>
  BY <1>3, <1>8, <1>12 DEF CsvInv, CsvOpen, CsvClosed
<1>13. answer.outcome = "rejected" => answer.outcome # "ok"
  OBVIOUS
<1> QED BY ONLY <1>0, <1>10, <1>11, <1>12, <1>13 DEF answer, fits, Letter, c

\* The end of the reading, whatever it was: the series validation settles every row.
LEMMA CsvFinishes ==
  ASSUME CsvInv, pc = "reading", NEW found, NEW letters,
         Filed(Len(rows), Csv!Readable, CsvValue, candidates, letters), Csv!Finish(found, letters)
  PROVE  CsvInv'
<1> DEFINE n == Len(rows)
           series == Csv!ValidateConsumptionSeries(candidates, config.grid)
           extra == [i \in DOMAIN series.issues |->
                       Csv!RowDlq(series.issues[i].position, series.issues[i].code)]
           recs == [i \in DOMAIN series.valid |-> series.valid[i].record]
           all == letters \o extra
           good == Csv!Readable
           value == CsvValue
           grid == config.grid
<1>0. /\ dlq' = all /\ gaps' = series.gaps /\ records' = recs /\ pc' = "done"
      /\ UNCHANGED <<config, header, columns, rows, candidates>>
  BY DEF Csv!Finish
<1>1. /\ Csv!Readable' = good /\ CsvValue' = value /\ \A k : Csv!Answer(k)' = Csv!Answer(k)
  BY <1>0, CsvAnswersStay
<1>2. series = ValidateConsumptionSeries(candidates, grid)
  BY CsvValidation
<1>3. /\ DOMAIN extra = DOMAIN series.issues /\ extra = [i \in DOMAIN extra |-> extra[i]]
      /\ \A i \in DOMAIN extra : extra[i].of = "row" /\ extra[i].row = series.issues[i].position
  BY DEF Csv!RowDlq
<1>4. \A k \in good : value[k].timestamp \in MinInstant .. MaxInstant
  BY CsvReadableRows DEF CsvInv
<1>5. grid # NoGrid => IsGrid(grid)
  BY IngestionAssumption DEF CsvInv, CsvFits
<1>6. Filed(n, good, value, candidates, letters)
  OBVIOUS
<1>7. all = letters \o extra /\ recs = [i \in DOMAIN series.valid |-> series.valid[i].record]
  OBVIOUS
<1> HIDE DEF n, series, extra, recs, all, good, value, grid
<1>8. /\ Accounted(n, good, value, all, recs)
      /\ grid # NoGrid => ExactRecordGaps(recs, grid, series.gaps)
  <2>1. Validated(n, good, value, candidates, letters, grid, series, extra, all, recs)
    BY ONLY <1>2, <1>3, <1>4, <1>5, <1>6, <1>7 DEF Validated
  <2> QED BY ONLY <2>1, SeriesSettled
<1>9. CsvFits'
  BY <1>0 DEF CsvInv, CsvFits
<1>10. CsvCandidates'
  BY <1>0, <1>1 DEF CsvInv, CsvCandidates, good, value
<1>11. CsvOpen'
  BY <1>0 DEF CsvOpen
<1>12. CsvClosed'
  BY <1>0, <1>1, <1>8 DEF CsvClosed, n, good, value, grid
<1> QED BY <1>9, <1>10, <1>11, <1>12 DEF CsvInv

\* Every step of the adapter keeps the invariant.
LEMMA CsvSteps ==
  ASSUME CsvInv, Csv!Next
  PROVE  CsvInv'
<1>1. CASE Csv!Construct
  BY <1>1, CsvMovesOn DEF Csv!Construct, Csv!locals
<1>2. CASE Csv!Open
  BY <1>2, CsvMovesOn DEF Csv!Open, Csv!locals
<1>3. CASE Csv!SourceUnavailable
  BY <1>3, CsvMovesOn DEF Csv!SourceUnavailable, Csv!locals
<1>4. CASE Csv!Returned
  BY <1>4, CsvMovesOn DEF Csv!Returned, Csv!vars
<1>5. ASSUME NEW row \in CsvDataRows, Csv!SkipBlankRow(row) PROVE CsvInv'
  BY <1>5, CsvMovesOn DEF Csv!SkipBlankRow, Csv!locals
<1>6. ASSUME NEW row \in CsvDataRows, Csv!IngestDataRow(row) PROVE CsvInv'
  BY <1>6, CsvIngestsRow
<1>7. ASSUME NEW row \in CsvHeaderRows, Csv!ReadHeader(row) PROVE CsvInv'
  BY <1>7, CsvReadsHeader
<1>8. CASE Csv!EndOfFile
  <2>1. pc = "reading" /\ Csv!Finish(diagnostics, dlq)
    BY <1>8 DEF Csv!EndOfFile
  <2>2. Filed(Len(rows), Csv!Readable, CsvValue, candidates, dlq)
    BY <2>1 DEF CsvInv, CsvOpen
  <2> QED BY <2>1, <2>2, CsvFinishes
<1>9. ASSUME NEW code, Csv!ReaderFails(code) PROVE CsvInv'
  <2> DEFINE letter == Csv!SourceDlq(code)
             found == diagnostics \cup {Csv!Diagnostic(code, "none")}
  <2>1. pc = "reading" /\ Csv!Finish(found, Append(dlq, letter))
    BY <1>9 DEF Csv!ReaderFails
  <2>2. Filed(Len(rows), Csv!Readable, CsvValue, candidates, dlq)
    BY <2>1 DEF CsvInv, CsvOpen
  <2>3. letter.of # "row" /\ letter.row = 0
    BY DEF Csv!SourceDlq
  <2> HIDE DEF letter, found
  <2>4. Filed(Len(rows), Csv!Readable, CsvValue, candidates, Append(dlq, letter))
    BY ONLY <2>2, <2>3, FiledNote
  <2> QED BY <2>1, <2>4, CsvFinishes
<1> QED BY <1>1, <1>2, <1>3, <1>4, <1>5, <1>6, <1>7, <1>8, <1>9 DEF Csv!Next

\* The operators in which the properties are stated are those of the modules, too.
LEMMA CsvTerms ==
  /\ \A S : Csv!Cardinality(S) = Cardinality(S)
  /\ \A words : Csv!Last(Csv!NormalizeFieldName(words)) = Last(NormalizeFieldName(words))
  /\ Csv!EnergyLastTokens = EnergyLastTokens
  /\ \A zone, u : Csv!Wall(zone, u) = Wall(zone, u)
  /\ \A cell, zone : Csv!NormalizeTimestampToUtc(cell, zone) = NormalizeTimestampToUtc(cell, zone)
<1>1. \A S : Csv!Cardinality(S) = Cardinality(S)
  BY DEF Csv!Cardinality, Cardinality
<1>2. \A words : Csv!Last(Csv!NormalizeFieldName(words)) = Last(NormalizeFieldName(words))
  BY DEF Csv!NormalizeFieldName, NormalizeFieldName, Csv!Separators, Separators, Csv!Last, Last,
         Csv!InOrder, InOrder, Csv!Rank, Rank, Csv!Cardinality, Cardinality
<1>3. Csv!EnergyLastTokens = EnergyLastTokens
  BY DEF Csv!EnergyLastTokens, EnergyLastTokens
<1>4. \A zone, u : Csv!Wall(zone, u) = Wall(zone, u)
  BY DEF Csv!Wall, Wall, Csv!Offset, Offset
<1>5. \A cell, zone : Csv!NormalizeTimestampToUtc(cell, zone) = NormalizeTimestampToUtc(cell, zone)
  BY DEF Csv!NormalizeTimestampToUtc, NormalizeTimestampToUtc, Csv!ParseTimestamp, ParseTimestamp,
         Csv!LocalizeNaive, LocalizeNaive, Csv!ReplaceTzinfo, ReplaceTzinfo,
         Csv!Wall, Wall, Csv!Offset, Offset, Csv!Ok, Ok, Csv!Rejected, Rejected, Csv!Raised, Raised
<1> QED BY ONLY <1>1, <1>2, <1>3, <1>4, <1>5

\* What the invariant says of the properties of the adapter.
LEMMA CsvInvImplies ==
  ASSUME CsvInv
  PROVE  Csv!EveryRowAccounted /\ Csv!GapsExact /\ Csv!TimestampsUnambiguous /\ Csv!UnitsAsDeclared
<1>0. /\ Csv!Readable \subseteq 1 .. Len(rows) /\ DOMAIN rows = 1 .. Len(rows)
      /\ \A k \in Csv!Readable :
           /\ CsvValue[k] = Csv!Answer(k).v
           /\ CsvValue[k].value = IF config.unit = "KW" THEN rows[k][columns["value_mw"]].v
                                  ELSE 1000 * rows[k][columns["value_mw"]].v
  BY CsvReadableRows DEF CsvInv
<1>v. \A k \in Csv!Readable : CsvValue[k] = Csv!Answer(k).v
  BY CsvReadableRows DEF CsvInv
<1>1. config \in CsvConfigs /\ config.unit \in PowerUnits /\ (config.zone # NoZone => IsZone(config.zone))
  BY IngestionAssumption DEF CsvInv, CsvFits
<1>2. Csv!EveryRowAccounted
  <2> SUFFICES ASSUME pc = "done", columns # << >> PROVE Csv!EveryRowAccounted
    BY DEF Csv!EveryRowAccounted, Csv!Accepted
  <2> DEFINE dead == Csv!DeadRows
             kept == InOrder({k \in 1 .. Len(rows) : k + 1 \notin dead})
             good == Csv!Readable
  <2>1. Accounted(Len(rows), good, CsvValue, dlq, records)
    BY DEF CsvInv, CsvClosed
  <2>2. /\ \A i, j \in DOMAIN dlq : dlq[i].of = "row" /\ dlq[i].row = dlq[j].row => i = j
        /\ \A i \in DOMAIN kept : kept[i] \in good
        /\ records = [i \in DOMAIN kept |-> CsvValue[kept[i]]]
        /\ \A j, k \in good :
             /\ j # k /\ CsvValue[j].consumer = CsvValue[k].consumer
             /\ CsvValue[j].timestamp = CsvValue[k].timestamp
             => {j + 1, k + 1} \subseteq dead
    BY ONLY <2>1 DEF Accounted, Csv!DeadRows
  <2>3. kept = Csv!InOrder({k \in DOMAIN rows : k + 1 \notin dead})
    BY ONLY <1>0 DEF Csv!InOrder, InOrder, Csv!Rank, Rank, Csv!Cardinality, Cardinality
  <2> HIDE DEF kept, dead
  <2>4. records = [i \in DOMAIN kept |-> Csv!Answer(kept[i]).v]
    <3>1. ASSUME NEW i \in DOMAIN kept PROVE CsvValue[kept[i]] = Csv!Answer(kept[i]).v
      <4>1. kept[i] \in Csv!Readable
        BY ONLY <3>1, <2>2
      <4> QED BY ONLY <4>1, <1>v, Zenon
    <3>2. records = [i \in DOMAIN kept |-> CsvValue[kept[i]]]
      BY ONLY <2>2
    <3> QED BY ONLY <3>1, <3>2
  <2>5. \A j, k \in good :
             /\ j # k /\ Csv!Answer(j).v.consumer = Csv!Answer(k).v.consumer
             /\ Csv!Answer(j).v.timestamp = Csv!Answer(k).v.timestamp
             => {j + 1, k + 1} \subseteq dead
    BY ONLY <1>0, <2>2
  <2> QED BY ONLY <2>2, <2>3, <2>4, <2>5 DEF Csv!EveryRowAccounted, dead
<1>3. Csv!GapsExact
  <2> SUFFICES ASSUME pc = "done", config.grid # NoGrid PROVE Csv!GapsExact
    BY DEF Csv!GapsExact
  <2>1. ExactRecordGaps(records, config.grid, gaps)
    BY DEF CsvInv, CsvClosed
  <2> QED BY ONLY <2>1 DEF Csv!GapsExact, ExactRecordGaps, Points, Csv!IsAligned, IsAligned,
                           Csv!Cardinality, Cardinality
<1>4. Csv!TimestampsUnambiguous
  <2> SUFFICES ASSUME header # NoHeader, columns # << >>, config.zone # NoZone,
                      NEW k \in DOMAIN rows, Len(rows[k]) = Len(header),
                      rows[k][columns["timestamp"]].form = "naive"
               PROVE  LET wall == rows[k][columns["timestamp"]].v
                          shown == {u \in MinInstant .. MaxInstant : Csv!Wall(config.zone, u) = wall}
                          answer == Csv!NormalizeTimestampToUtc(rows[k][columns["timestamp"]], config.zone)
                      IN  /\ answer.outcome = "ok" <=> Csv!Cardinality(shown) = 1
                          /\ answer.outcome = "ok" => shown = {answer.v}
    BY DEF Csv!TimestampsUnambiguous, Csv!Accepted
  <2> DEFINE cell == rows[k][columns["timestamp"]]
             shown == {u \in MinInstant .. MaxInstant : Csv!Wall(config.zone, u) = cell.v}
             answer == Csv!NormalizeTimestampToUtc(cell, config.zone)
  <2>1. columns["timestamp"] \in DOMAIN header /\ header \in CsvHeaderRows /\ rows[k] \in CsvDataRows
    BY DEF CsvInv, CsvFits, GoodColumns, RequiredFields
  <2>2. DOMAIN header = 1 .. Len(header) /\ DOMAIN rows[k] = 1 .. Len(rows[k])
    BY <2>1, IngestionAssumption, TupleIsSeq
  <2>3. cell.py = "str" /\ cell.v \in Int /\ cell.form = "naive"
    BY <2>1, <2>2, IngestionAssumption
  <2>4. IsZone(config.zone) /\ config.zone # NoZone
    BY <1>1
  <2> HIDE DEF cell
  <2>5. answer = LocalizeNaive(cell.v, config.zone)
    <3>1. answer = NormalizeTimestampToUtc(cell, config.zone)
      BY CsvTerms
    <3>2. ParseTimestamp(cell).outcome = "ok"
      BY <2>3 DEF ParseTimestamp, Ok
    <3> QED BY <2>3, <2>4, <3>1, <3>2 DEF NormalizeTimestampToUtc
  <2>6. shown = Shown(config.zone, cell.v)
    BY CsvTerms DEF Shown
  <2> HIDE DEF shown, answer
  <2>7. /\ answer.outcome = "ok" <=> Cardinality(shown) = 1
        /\ answer.outcome = "ok" => shown = {answer.v}
    BY ONLY <2>3, <2>4, <2>5, <2>6, AcceptedNamesOneInstant
  <2>8. Csv!Cardinality(shown) = Cardinality(shown)
    BY CsvTerms
  <2> QED BY ONLY <2>7, <2>8 DEF shown, answer, cell
<1>5. Csv!UnitsAsDeclared
  <2> SUFFICES ASSUME NEW i \in DOMAIN candidates
               PROVE  LET claim == Csv!Last(Csv!NormalizeFieldName(header[columns["value_mw"]]))
                          cell == rows[candidates[i].position - 1][columns["value_mw"]]
                      IN  /\ claim \notin Csv!EnergyLastTokens
                          /\ claim = "mw" => candidates[i].record.value = 1000 * cell.v
                          /\ claim = "kw" => candidates[i].record.value = cell.v
    BY DEF Csv!UnitsAsDeclared
  <2> DEFINE k == candidates[i].position - 1
             value == candidates[i].record.value
             cell == rows[k][columns["value_mw"]]
             claim == Csv!Last(Csv!NormalizeFieldName(header[columns["value_mw"]]))
  <2>1. k \in Csv!Readable /\ candidates[i].record = CsvValue[k]
    BY DEF CsvInv, CsvCandidates
  <2> HIDE DEF k
  <2>2. k \in DOMAIN rows
    BY ONLY <1>0, <2>1
  <2>3. columns # << >>
    BY <2>2 DEF CsvInv, CsvFits
  <2>4. ClaimsTheUnit(header[columns["value_mw"]], config.unit)
    BY <2>3 DEF CsvInv, CsvFits, GoodColumns
  <2>5. /\ claim \notin Csv!EnergyLastTokens
        /\ claim = "mw" => config.unit = "MW"
        /\ claim = "kw" => config.unit = "KW"
    BY ONLY <2>4, CsvTerms DEF ClaimsTheUnit
  <2>6. value = IF config.unit = "KW" THEN cell.v ELSE 1000 * cell.v
    BY ONLY <1>0, <2>1
  <2> HIDE DEF value, cell, claim
  <2>7. /\ claim \notin Csv!EnergyLastTokens
        /\ claim = "mw" => value = 1000 * cell.v
        /\ claim = "kw" => value = cell.v
    BY ONLY <2>5, <2>6
  <2> QED BY ONLY <2>7 DEF value, cell, claim, k
<1> QED BY <1>2, <1>3, <1>4, <1>5

-----------------------------------------------------------------------------
(* The Excel adapter                                                       *)

\* The operators of the instance are those of the modules it extends.
LEMMA ExcelConversion ==
  ASSUME NEW row, NEW index, NEW cfg
  PROVE  Excel!ConvertRow(row, index, cfg)
           = LET at == row[index["timestamp"]]
             IN  Convert(row[index["consumer_id"]], ConsumptionTimestampFromExcel(at), at,
                         row[index["value_mw"]], cfg.zone, cfg.unit)
BY DEF Excel!ConvertRow, Excel!Convert, Convert,
       Excel!ConsumptionTimestampFromExcel, ConsumptionTimestampFromExcel,
       Excel!ConsumptionTimestampFromCsv, ConsumptionTimestampFromCsv,
       Excel!NormalizeTimestampToUtc, NormalizeTimestampToUtc, Excel!ParseTimestamp, ParseTimestamp,
       Excel!LocalizeNaive, LocalizeNaive, Excel!ReplaceTzinfo, ReplaceTzinfo,
       Excel!Wall, Wall, Excel!Offset, Offset, Excel!NormalizePowerToMw, NormalizePowerToMw,
       Excel!DecimalPower, DecimalPower,
       Excel!ConsumptionRecordModelValidate, ConsumptionRecordModelValidate,
       Excel!Ok, Ok, Excel!Rejected, Rejected, Excel!Raised, Raised

\* So is the series validation,
LEMMA ExcelValidation ==
  ASSUME NEW cs, NEW grid
  PROVE  Excel!ValidateConsumptionSeries(cs, grid) = ValidateConsumptionSeries(cs, grid)
BY ZenonT(60)
   DEF Excel!ValidateConsumptionSeries, ValidateConsumptionSeries,
       Excel!DuplicateIndexes, DuplicateIndexes, Excel!MisalignedIndexes, MisalignedIndexes,
       Excel!InOrder, InOrder, Excel!Rank, Rank, Excel!Cardinality, Cardinality, Excel!Key, Key,
       Excel!IsAligned, IsAligned, Excel!DuplicateTimestampIssue, DuplicateTimestampIssue,
       Excel!IntervalMisalignedIssue, IntervalMisalignedIssue, Excel!DetectGaps, DetectGaps,
       Excel!ToSet, ToSet, Excel!GapBetween, GapBetween, Excel!StepCountBetween, StepCountBetween,
       Excel!GridOffset, GridOffset, Excel!ConsumptionGap, ConsumptionGap

\* and the resolution of a header.
LEMMA ExcelField ==
  ASSUME NEW specs, NEW words
  PROVE  Excel!ResolveField(specs, words) = ResolveField(specs, words)
BY DEF Excel!ResolveField, ResolveField, Excel!Resolution, Resolution, Excel!Credible, Credible,
       Excel!IsAmbiguous, IsAmbiguous, Excel!RankFuzzyCandidates, RankFuzzyCandidates,
       Excel!Confidence, Confidence, Excel!MatchTargets, MatchTargets,
       Excel!NormalizeFieldName, NormalizeFieldName, Excel!Separators, Separators,
       Excel!RawName, RawName, Excel!RequiredFields, RequiredFields,
       Excel!InOrder, InOrder, Excel!Rank, Rank, Excel!Cardinality, Cardinality

\* A header row without a fatal problem has columns one can read.
LEMMA ExcelColumns ==
  ASSUME NEW specs, NEW row, IsTuple(row), NEW unit \in PowerUnits, NEW schema,
         schema = Excel!ApplyConsumptionUnitSafety(Excel!ResolveSchema(specs, row), unit),
         Excel!SchemaDiagnostics(schema).fatal = {}
  PROVE  LET index == Excel!CanonicalColumnIndex(schema)
         IN  GoodColumns(index, row, unit) /\ index # << >>
<1> DEFINE raw == ResolveSchema(specs, row)
           index == CanonicalColumnIndex(schema)
<1>1. Excel!ResolveSchema(specs, row) = raw
  BY ExcelField DEF Excel!ResolveSchema, ResolveSchema, Excel!Columns, Columns
<1>2. Excel!ApplyConsumptionUnitSafety(raw, unit) = ApplyConsumptionUnitSafety(raw, unit)
  <2> HIDE DEF raw
  <2> QED
    BY DEF Excel!ApplyConsumptionUnitSafety, ApplyConsumptionUnitSafety, Excel!Columns, Columns,
           Excel!RequiredFields, RequiredFields, Excel!PowerToken, PowerToken,
           Excel!PowerUnits, PowerUnits, Excel!ApplyHeaderUnitPolicy, ApplyHeaderUnitPolicy,
           Excel!IsEnergyLike, IsEnergyLike, Excel!EnergyLastTokens, EnergyLastTokens,
           Excel!Last, Last, Excel!HeaderClaimsConflictingUnit, HeaderClaimsConflictingUnit
<1>3. schema = ApplyConsumptionUnitSafety(raw, unit)
  BY <1>1, <1>2
<1>4. Excel!CanonicalColumnIndex(schema) = index
  BY DEF Excel!CanonicalColumnIndex, CanonicalColumnIndex, Excel!Columns, Columns,
         Excel!RequiredFields, RequiredFields
<1>5. schema.missing = {} /\ schema.collisions = {}
  BY DEF Excel!SchemaDiagnostics
<1>6. GoodColumns(index, row, unit) /\ DOMAIN index = RequiredFields
  <2> HIDE DEF index
  <2>1. index = CanonicalColumnIndex(schema)
    BY DEF index
  <2> QED BY ONLY <1>3, <1>5, <2>1, IsTuple(row), unit \in PowerUnits, AcceptedColumnsAreGood DEF raw
<1>7. index # << >>
  <2> HIDE DEF index
  <2>1. DOMAIN << >> = {} /\ RequiredFields # {}
    BY DEF RequiredFields
  <2> QED BY <1>6, <2>1
<1> QED BY ONLY <1>4, <1>6, <1>7

\* The header cells that take part are the first ones of the row, and a cell that is no
\* text takes part as a blank header.
LEMMA TrimmedHeader ==
  ASSUME NEW row, IsTuple(row), NEW fields, fields = Excel!HeaderSourceFields(row)
  PROVE  /\ IsTuple(fields) /\ DOMAIN fields \subseteq DOMAIN row
         /\ \A i \in DOMAIN fields : fields[i] = IF row[i].py = "str" THEN row[i].words ELSE << >>
<1> DEFINE kept == {i \in DOMAIN row : ~Excel!IsBlankCell(row[i])}
           last == CHOOSE n \in kept \cup {0} : \A i \in kept : i <= n
           cells == SubSeq(row, 1, last)
<1>1. DOMAIN row = 1 .. Len(row) /\ Len(row) \in Nat /\ row \in Seq({row[k] : k \in DOMAIN row})
  BY TupleIsSeq DEF IsTuple
<1>2. kept \subseteq 1 .. Len(row) /\ kept \subseteq Int /\ IsFiniteSet(kept)
  <2>1. IsFiniteSet(1 .. Len(row)) /\ kept \in SUBSET (1 .. Len(row)) /\ 1 .. Len(row) \subseteq Int
    BY <1>1, FS_Interval
  <2> HIDE DEF kept
  <2> QED BY <2>1, FS_Subset
<1> HIDE DEF kept
<1>3. \E n : n \in kept \cup {0} /\ \A i \in kept : i <= n
  <2>1. CASE kept = {}
    BY <2>1
  <2>2. CASE kept # {}
    <3>1. PICK g \in kept : \A i \in kept : i <= g
      BY ONLY <1>2, <2>2, Greatest
    <3> QED BY ONLY <3>1
  <2> QED BY <2>1, <2>2
<1>4. last \in kept \cup {0}
  BY <1>3
<1> HIDE DEF last
<1>5. last \in 0 .. Len(row)
  BY ONLY <1>1, <1>2, <1>4
<1>6. DOMAIN cells = 1 .. last /\ \A i \in 1 .. last : cells[i] = row[i]
  BY ONLY <1>1, <1>5
<1>7. fields = [i \in DOMAIN cells |-> IF cells[i].py = "str" THEN cells[i].words ELSE << >>]
  BY DEF Excel!HeaderSourceFields, Excel!TrimTrailingBlank, last, kept
<1> HIDE DEF cells
<1>8. DOMAIN fields = 1 .. last /\ last \in Nat
  BY <1>1, <1>5, <1>6, <1>7
<1>9. IsTuple(fields)
  <2>1. fields = [i \in 1 .. last |-> fields[i]]
    BY ONLY <1>6, <1>7
  <2> QED BY ONLY <1>8, <2>1 DEF IsTuple
<1>10. DOMAIN fields \subseteq DOMAIN row
  BY ONLY <1>1, <1>5, <1>8
<1>11. \A i \in DOMAIN fields : fields[i] = IF row[i].py = "str" THEN row[i].words ELSE << >>
  BY ONLY <1>6, <1>7, <1>8
<1> QED BY ONLY <1>9, <1>10, <1>11

\* The records of the rows.
ExcelValue == [k \in DOMAIN rows |-> Excel!Answer(k).v]

\* The source read so far and the columns it is read in.
ExcelFits ==
  /\ config \in ExcelConfigs
  /\ header \in ExcelHeaderRows \cup {NoHeader}
  /\ IsTuple(rows) /\ \A k \in DOMAIN rows : rows[k] \in ExcelDataRows
  /\ header = NoHeader => columns = << >>
  /\ columns = << >> => rows = << >>
  /\ columns # << >> => GoodColumns(columns, Excel!HeaderSourceFields(header), config.unit)
  /\ pc \in {"new", "idle", "loaded"} => header = NoHeader
  /\ pc = "reading" /\ header # NoHeader => columns # << >>

\* Every candidate is the record of a readable row.
ExcelCandidates ==
  \A i \in DOMAIN candidates :
    /\ candidates[i].position \in Int /\ candidates[i].position - 1 \in Excel!Readable
    /\ candidates[i].record = ExcelValue[candidates[i].position - 1]

\* While the source is read, every row is a candidate or a dead letter.
ExcelOpen ==
  pc \in {"new", "idle", "loaded", "reading"} =>
    /\ records = << >>
    /\ Filed(Len(rows), Excel!Readable, ExcelValue, candidates, dlq)

\* What the result says of it.
ExcelClosed ==
  pc = "done" /\ columns # << >> =>
    Accounted(Len(rows), Excel!Readable, ExcelValue, dlq, records)

ExcelInv == ExcelFits /\ ExcelCandidates /\ ExcelOpen /\ ExcelClosed

\* The answers depend on the rows and the columns alone.
LEMMA ExcelAnswersStay ==
  ASSUME UNCHANGED <<rows, columns, config>>
  PROVE  /\ Excel!Readable' = Excel!Readable /\ ExcelValue' = ExcelValue
         /\ \A k : Excel!Answer(k)' = Excel!Answer(k)
BY DEF Excel!Readable, Excel!Answer, ExcelValue

\* The readable rows are rows, and their records are of instants.
LEMMA ExcelReadableRows ==
  ASSUME ExcelFits
  PROVE  /\ Excel!Readable \subseteq 1 .. Len(rows) /\ DOMAIN rows = 1 .. Len(rows) /\ Len(rows) \in Nat
         /\ \A k \in Excel!Readable :
              /\ ExcelValue[k] = Excel!Answer(k).v
              /\ ExcelValue[k].timestamp \in MinInstant .. MaxInstant
              /\ ExcelValue[k].value = IF config.unit = "KW" THEN rows[k][columns["value_mw"]].v
                                     ELSE 1000 * rows[k][columns["value_mw"]].v
<1>1. DOMAIN rows = 1 .. Len(rows) /\ Len(rows) \in Nat
  BY TupleIsSeq DEF ExcelFits, IsTuple
<1>2. Excel!Readable \subseteq DOMAIN rows
  BY DEF Excel!Readable
<1>3. ASSUME NEW k \in Excel!Readable
      PROVE  /\ ExcelValue[k] = Excel!Answer(k).v
             /\ ExcelValue[k].timestamp \in MinInstant .. MaxInstant
             /\ ExcelValue[k].value = IF config.unit = "KW" THEN rows[k][columns["value_mw"]].v
                                    ELSE 1000 * rows[k][columns["value_mw"]].v
  <2>1. ExcelValue[k] = Excel!Answer(k).v
    BY <1>2 DEF ExcelValue
  <2> DEFINE at == rows[k][columns["timestamp"]]
             c == rows[k][columns["consumer_id"]]
             p == rows[k][columns["value_mw"]]
             answer == Excel!Answer(k)
  <2>2. answer = Convert(c, ConsumptionTimestampFromExcel(at), at, p, config.zone, config.unit)
    BY ExcelConversion DEF Excel!Answer
  <2>3. answer.outcome = "ok"
    BY DEF Excel!Readable
  <2> HIDE DEF answer, at, c, p
  <2>4. /\ answer.v.timestamp \in MinInstant .. MaxInstant
        /\ answer.v.value = IF config.unit = "KW" THEN p.v ELSE 1000 * p.v
    BY ONLY <2>2, <2>3, ConvertedRecord
  <2> QED BY <2>1, <2>4 DEF answer, p
<1> QED BY <1>1, <1>2, <1>3

\* Another data row leaves the answers to the earlier ones as they are.
LEMMA ExcelRowsGrow ==
  ASSUME ExcelFits, NEW row, rows' = Append(rows, row), UNCHANGED <<columns, config>>,
         NEW n, n = Len(rows)
  PROVE  /\ IsTuple(rows') /\ Len(rows') = n + 1 /\ DOMAIN rows' = 1 .. n + 1 /\ n \in Nat
         /\ rows'[n + 1] = row /\ \A k \in 1 .. n : rows'[k] = rows[k]
         /\ Excel!Readable' = IF Excel!Reaches(row, columns) /\ Excel!ConvertRow(row, columns, config).outcome = "ok"
                            THEN Excel!Readable \union {n + 1} ELSE Excel!Readable
         /\ \A k \in Excel!Readable : ExcelValue'[k] = ExcelValue[k] /\ Excel!Answer(k)' = Excel!Answer(k)
         /\ ExcelValue'[n + 1] = Excel!ConvertRow(row, columns, config).v
<1> DEFINE more == Append(rows, row)
           answer == Excel!ConvertRow(row, columns, config)
<1>1. DOMAIN rows = 1 .. n /\ n \in Nat /\ Excel!Readable \subseteq 1 .. n /\ IsTuple(rows)
  BY ExcelReadableRows DEF ExcelFits
<1>2. /\ IsTuple(more) /\ Len(more) = n + 1 /\ DOMAIN more = 1 .. n + 1
      /\ more[n + 1] = row /\ \A k \in 1 .. n : more[k] = rows[k]
  BY <1>1, AppendTuple
<1> HIDE DEF more, answer
<1>3. rows' = more
  BY DEF more
<1>4. \A k : Excel!Answer(k)' = Excel!ConvertRow(more[k], columns, config)
  BY <1>3 DEF Excel!Answer
<1>5. /\ \A k \in 1 .. n : Excel!Answer(k)' = Excel!Answer(k)
      /\ Excel!Answer(n + 1)' = answer
  <2>1. \A k : Excel!Answer(k) = Excel!ConvertRow(rows[k], columns, config)
    BY DEF Excel!Answer
  <2> QED BY <1>2, <1>4, <2>1 DEF answer
<1>6. Excel!Readable' = {k \in 1 .. n + 1 : Excel!Reaches(more[k], columns)
                         /\ Excel!ConvertRow(more[k], columns, config).outcome = "ok"}
  BY <1>2, <1>3 DEF Excel!Readable, Excel!Answer
<1>7. Excel!Readable = {k \in 1 .. n : Excel!Reaches(rows[k], columns)
                         /\ Excel!ConvertRow(rows[k], columns, config).outcome = "ok"}
  BY <1>1 DEF Excel!Readable, Excel!Answer
<1>8. Excel!Readable' = IF Excel!Reaches(row, columns) /\ answer.outcome = "ok"
                      THEN Excel!Readable \union {n + 1} ELSE Excel!Readable
  <2> DEFINE R == Excel!Readable
             S == Excel!Readable'
  <2>1. \A k : k \in S <=> k \in 1 .. n + 1 /\ Excel!Reaches(more[k], columns)
                             /\ Excel!ConvertRow(more[k], columns, config).outcome = "ok"
    BY <1>6
  <2>2. \A k : k \in R <=> k \in 1 .. n /\ Excel!Reaches(rows[k], columns)
                             /\ Excel!ConvertRow(rows[k], columns, config).outcome = "ok"
    BY <1>7
  <2>3. \A k : k \in 1 .. n + 1 <=> k \in 1 .. n \/ k = n + 1
    BY <1>1
  <2>4. n + 1 \in S <=> Excel!Reaches(row, columns) /\ answer.outcome = "ok"
    BY <1>2, <2>1, <2>3 DEF answer
  <2>5. \A k \in 1 .. n : k \in S <=> k \in R
    BY <1>2, <2>1, <2>2, <2>3
  <2>6. \A k : (k \in S => k \in 1 .. n \/ k = n + 1) /\ (k \in R => k \in 1 .. n)
    BY <2>1, <2>2, <2>3
  <2> HIDE DEF R, S
  <2>7. S = IF Excel!Reaches(row, columns) /\ answer.outcome = "ok" THEN R \union {n + 1} ELSE R
    <3>1. CASE n + 1 \in S
      <4>1. \A k : k \in S <=> k \in R \/ k = n + 1
        BY ONLY <2>5, <2>6, <3>1
      <4>2. S = R \union {n + 1}
        BY ONLY <4>1
      <4> QED BY ONLY <2>4, <3>1, <4>2
    <3>2. CASE n + 1 \notin S
      <4>1. \A k : k \in S <=> k \in R
        BY ONLY <2>5, <2>6, <3>2
      <4>2. S = R
        BY ONLY <4>1
      <4> QED BY ONLY <2>4, <3>2, <4>2
    <3> QED BY ONLY <3>1, <3>2
  <2> QED BY <2>7 DEF R, S
<1>9. DOMAIN ExcelValue' = 1 .. n + 1 /\ \A k \in 1 .. n + 1 : ExcelValue'[k] = Excel!Answer(k)'.v
  BY <1>2, <1>3 DEF ExcelValue
<1>10. \A k \in 1 .. n : ExcelValue[k] = Excel!Answer(k).v
  BY <1>1 DEF ExcelValue
<1>11. \A k \in Excel!Readable : k \in 1 .. n /\ k \in 1 .. n + 1
  BY <1>1
<1>12. n + 1 \in 1 .. n + 1
  BY <1>1
<1> QED BY <1>1, <1>2, <1>3, <1>5, <1>8, <1>9, <1>10, <1>11, <1>12 DEF answer

\* Before anything is read there is nothing to account for.
LEMMA ExcelStarts ==
  ASSUME Excel!Init
  PROVE  ExcelInv
<1>1. /\ config \in ExcelConfigs /\ pc = "new" /\ header = NoHeader /\ columns = << >> /\ rows = << >>
      /\ candidates = << >> /\ dlq = << >> /\ records = << >>
  BY DEF Excel!Init
<1>2. IsTuple(rows) /\ DOMAIN rows = {} /\ Len(rows) = 0
  BY <1>1 DEF IsTuple
<1>3. ExcelFits
  BY <1>1, <1>2 DEF ExcelFits
<1>4. ExcelCandidates
  BY <1>1 DEF ExcelCandidates
<1>5. Excel!Readable = {}
  BY <1>2 DEF Excel!Readable
<1>6. Filed(0, {}, ExcelValue, << >>, << >>)
  BY FiledNothing
<1>7. ExcelOpen
  BY <1>1, <1>2, <1>5, <1>6 DEF ExcelOpen
<1> QED BY <1>1, <1>3, <1>4, <1>7 DEF ExcelInv, ExcelClosed

\* A step that only moves on, before or after the reading.
LEMMA ExcelMovesOn ==
  ASSUME ExcelInv, UNCHANGED <<config, header, columns, rows, candidates, dlq, records>>,
         \/ /\ pc \in {"new", "idle", "loaded"}
            /\ pc' \in {"new", "idle", "loaded", "reading", "misconfigured", "unavailable"}
         \/ pc = "reading" /\ pc' \in {"reading", "unavailable", "corrupt"}
         \/ pc' = pc
  PROVE  ExcelInv'
<1>1. /\ Excel!Readable' = Excel!Readable /\ ExcelValue' = ExcelValue
      /\ \A k : Excel!Answer(k)' = Excel!Answer(k)
  BY ExcelAnswersStay
<1>2. ExcelFits'
  BY DEF ExcelInv, ExcelFits
<1>3. ExcelCandidates'
  BY <1>1 DEF ExcelInv, ExcelCandidates
<1>4. ExcelOpen'
  BY <1>1 DEF ExcelInv, ExcelOpen
<1>5. ExcelClosed'
  BY <1>1 DEF ExcelInv, ExcelClosed
<1> QED BY <1>2, <1>3, <1>4, <1>5 DEF ExcelInv

\* A workbook or a worksheet that cannot be read ends the ingestion before the header.
LEMMA ExcelGivesUp ==
  ASSUME ExcelInv, pc \in {"idle", "loaded"}, pc' = "done",
         UNCHANGED <<config, header, columns, rows, candidates>>
  PROVE  ExcelInv'
<1>1. Excel!Readable' = Excel!Readable /\ ExcelValue' = ExcelValue
  BY ExcelAnswersStay
<1>2. columns = << >> /\ ExcelFits'
  BY DEF ExcelInv, ExcelFits
<1>3. ExcelCandidates'
  BY <1>1 DEF ExcelInv, ExcelCandidates
<1>4. ExcelOpen' /\ ExcelClosed'
  BY <1>2 DEF ExcelOpen, ExcelClosed
<1> QED BY <1>2, <1>3, <1>4 DEF ExcelInv

\* The header row fixes the columns, or ends the ingestion with a dead letter about them.
LEMMA ExcelReadsHeader ==
  ASSUME ExcelInv, NEW row \in ExcelHeaderRows, Excel!ReadHeader(row)
  PROVE  ExcelInv'
<1> DEFINE fields == Excel!HeaderSourceFields(row)
           schema == Excel!ApplyConsumptionUnitSafety(Excel!ResolveSchema(config.specs, fields), config.unit)
           fatal == Excel!SchemaDiagnostics(schema).fatal
<1>0. /\ pc = "reading" /\ header = NoHeader /\ header' = row
      /\ UNCHANGED <<config, rows, candidates, records>>
      /\ IF fatal # {} THEN pc' = "done" /\ columns' = columns
         ELSE columns' = Excel!CanonicalColumnIndex(schema) /\ dlq' = dlq /\ pc' = pc
  BY DEF Excel!ReadHeader
<1>1. columns = << >> /\ rows = << >> /\ config \in ExcelConfigs /\ IsTuple(rows)
  BY <1>0 DEF ExcelInv, ExcelFits
<1>2. DOMAIN rows = {} /\ Len(rows) = 0
  BY <1>1
<1>3. Excel!Readable = {} /\ Excel!Readable' = {}
  BY <1>0, <1>2 DEF Excel!Readable
<1>4. records = << >> /\ Filed(0, {}, ExcelValue, candidates, dlq)
  BY <1>0, <1>2, <1>3 DEF ExcelInv, ExcelOpen
<1>5. DOMAIN candidates = {}
  BY <1>4 DEF Filed
<1>6. ExcelCandidates'
  BY <1>0, <1>5 DEF ExcelCandidates
<1>7. IsTuple(fields) /\ row # NoHeader /\ config.unit \in PowerUnits
  BY <1>1, IngestionAssumption, TrimmedHeader
<1>8. CASE fatal # {}
  <2>1. pc' = "done" /\ columns' = << >>
    BY <1>0, <1>1, <1>8
  <2>2. ExcelFits'
    BY <1>0, <1>1, <1>7, <2>1 DEF ExcelFits
  <2>3. ExcelOpen'
    BY <2>1 DEF ExcelOpen
  <2>4. ExcelClosed'
    BY <2>1 DEF ExcelClosed
  <2> QED BY <1>6, <2>2, <2>3, <2>4 DEF ExcelInv
<1>9. CASE fatal = {}
  <2>1. pc' = "reading" /\ dlq' = dlq /\ columns' = Excel!CanonicalColumnIndex(schema)
    BY <1>0, <1>9
  <2>2. GoodColumns(columns', fields, config.unit) /\ columns' # << >>
    <3> HIDE DEF schema, fields
    <3>1. schema = Excel!ApplyConsumptionUnitSafety(Excel!ResolveSchema(config.specs, fields), config.unit)
      BY DEF schema
    <3>2. LET index == Excel!CanonicalColumnIndex(schema)
          IN  GoodColumns(index, fields, config.unit) /\ index # << >>
      BY ONLY <1>7, <1>9, <3>1, ExcelColumns
    <3> QED BY <2>1, <3>2
  <2>3. ExcelFits'
    BY <1>0, <1>1, <1>7, <2>1, <2>2 DEF ExcelFits
  <2>4. Filed(0, {}, ExcelValue', candidates, dlq)
    <3>1. DOMAIN candidates = {} /\ IsTuple(candidates) /\ IsTuple(dlq)
      BY <1>4, <1>5 DEF Filed
    <3> QED BY <1>4, <3>1 DEF Filed
  <2>5. ExcelOpen'
    BY <1>0, <1>2, <1>3, <1>4, <2>1, <2>4 DEF ExcelOpen
  <2>6. ExcelClosed'
    BY <2>1 DEF ExcelClosed
  <2> QED BY <1>6, <2>3, <2>5, <2>6 DEF ExcelInv
<1> QED BY <1>8, <1>9

\* A data row becomes a candidate or a dead letter, or an exception ends the ingestion.
LEMMA ExcelIngestsRow ==
  ASSUME ExcelInv, NEW row \in ExcelDataRows, Excel!IngestDataRow(row)
  PROVE  ExcelInv'
<1> DEFINE n == Len(rows)
           answer == Excel!ConvertRow(row, columns, config)
           fits == Excel!Reaches(row, columns)
           Letter(code) == Excel!RowDlq(Len(rows) + 2, code)
           c == Excel!Candidate(answer.v, Len(rows) + 2)
<1>0. /\ pc = "reading" /\ header # NoHeader /\ rows' = Append(rows, row)
      /\ UNCHANGED <<config, header, columns, records>>
      /\ \/ ~fits /\ dlq' = Append(dlq, Letter("excel_row_shape_invalid")) /\ UNCHANGED <<pc, candidates>>
         \/ fits /\ answer.outcome = "ok" /\ candidates' = Append(candidates, c) /\ UNCHANGED <<pc, dlq>>
         \/ /\ fits /\ answer.outcome = "rejected" /\ dlq' = Append(dlq, Letter("excel_row_validation_failed"))
            /\ UNCHANGED <<pc, candidates>>
         \/ fits /\ answer.outcome = "raised" /\ pc' = "raised" /\ UNCHANGED <<candidates, dlq>>
  BY DEF Excel!IngestDataRow, Excel!Fail
<1>1. /\ IsTuple(rows') /\ Len(rows') = n + 1 /\ DOMAIN rows' = 1 .. n + 1 /\ n \in Nat
      /\ rows'[n + 1] = row /\ \A k \in 1 .. n : rows'[k] = rows[k]
      /\ Excel!Readable' = IF fits /\ answer.outcome = "ok"
                         THEN Excel!Readable \union {n + 1} ELSE Excel!Readable
      /\ \A k \in Excel!Readable : ExcelValue'[k] = ExcelValue[k] /\ Excel!Answer(k)' = Excel!Answer(k)
      /\ ExcelValue'[n + 1] = answer.v
  BY <1>0, ExcelRowsGrow DEF ExcelInv
<1>2. DOMAIN rows = 1 .. n
  BY ExcelReadableRows DEF ExcelInv
<1>3. ExcelFits'
  <2>1. \A k \in DOMAIN rows' : rows'[k] \in ExcelDataRows
    <3>1. \A k \in 1 .. n + 1 : k \in 1 .. n \/ k = n + 1
      BY <1>1
    <3>2. \A k \in 1 .. n : rows[k] \in ExcelDataRows
      BY <1>2 DEF ExcelInv, ExcelFits
    <3> QED BY <1>1, <3>1, <3>2
  <2>2. columns # << >> /\ pc' \in {"reading", "raised"}
    BY <1>0 DEF ExcelInv, ExcelFits
  <2> QED BY <1>0, <1>1, <2>1, <2>2 DEF ExcelInv, ExcelFits
<1>4. Filed(n, Excel!Readable, ExcelValue, candidates, dlq) /\ records = << >>
  BY <1>0 DEF ExcelInv, ExcelOpen
<1>5. /\ c.position = n + 2 /\ c.record = answer.v
      /\ \A code : Letter(code).of = "row" /\ Letter(code).row = n + 2
  BY DEF Excel!Candidate, Excel!RowDlq
<1>6. IsTuple(candidates)
  BY <1>4 DEF Filed
<1> DEFINE R == Excel!Readable
           Q == Excel!Readable'
           V == ExcelValue
           W == ExcelValue'
<1>7. /\ Q = IF fits /\ answer.outcome = "ok" THEN R \union {n + 1} ELSE R
      /\ \A k \in R : W[k] = V[k]
      /\ W[n + 1] = answer.v /\ Filed(n, R, V, candidates, dlq)
  BY <1>1, <1>4
<1>8. ASSUME candidates' = candidates PROVE ExcelCandidates'
  <2>1. R \subseteq Q
    BY <1>1
  <2>2. \A i \in DOMAIN candidates :
          /\ candidates[i].position \in Int /\ candidates[i].position - 1 \in R
          /\ candidates[i].record = V[candidates[i].position - 1]
    BY DEF ExcelInv, ExcelCandidates
  <2>3. \A i \in DOMAIN candidates :
          /\ candidates[i].position \in Int /\ candidates[i].position - 1 \in Q
          /\ candidates[i].record = W[candidates[i].position - 1]
    BY <1>7, <2>1, <2>2
  <2> QED BY <1>8, <2>3 DEF ExcelCandidates
<1> HIDE DEF n, answer, fits, Letter, c, R, Q, V, W
<1>9. ASSUME pc' = pc, Filed(n + 1, Q, W, candidates', dlq') PROVE ExcelOpen' /\ ExcelClosed'
  <2>1. pc' = "reading" /\ records' = << >>
    BY <1>0, <1>4, <1>9
  <2>2. Filed(Len(rows'), Excel!Readable', ExcelValue', candidates', dlq')
    BY <1>1, <1>9 DEF Q, W
  <2> QED BY <2>1, <2>2 DEF ExcelOpen, ExcelClosed
<1>10. ASSUME NEW code, dlq' = Append(dlq, Letter(code)), UNCHANGED <<pc, candidates>>,
              ~(fits /\ answer.outcome = "ok")
       PROVE  ExcelInv'
  <2>1. Q = R
    BY <1>7, <1>10
  <2>2. Filed(n + 1, R, W, candidates, Append(dlq, Letter(code)))
    BY ONLY <1>5, <1>7, FiledLetter
  <2> QED BY <1>3, <1>8, <1>9, <1>10, <2>1, <2>2 DEF ExcelInv
<1>11. CASE fits /\ answer.outcome = "ok" /\ candidates' = Append(candidates, c) /\ UNCHANGED <<pc, dlq>>
  <2>1. Q = R \union {n + 1}
    BY <1>7, <1>11
  <2>2. c.record = W[n + 1]
    BY <1>5, <1>7
  <2>3. Filed(n + 1, R \union {n + 1}, W, Append(candidates, c), dlq)
    BY ONLY <1>5, <1>7, <2>2, FiledRecord
  <2>4. Filed(n + 1, Q, W, candidates', dlq')
    BY <1>11, <2>1, <2>3
  <2>5. ExcelCandidates'
    <3>1. \A i \in DOMAIN candidates' :
            /\ candidates'[i].position \in Int /\ candidates'[i].position - 1 \in Q
            /\ candidates'[i].record = W[candidates'[i].position - 1]
      BY ONLY <2>4 DEF Filed
    <3> QED BY <3>1 DEF ExcelCandidates, Q, W
  <2> QED BY <1>3, <1>9, <1>11, <2>4, <2>5 DEF ExcelInv
<1>12. CASE pc' = "raised" /\ UNCHANGED <<candidates, dlq>>
  BY <1>3, <1>8, <1>12 DEF ExcelInv, ExcelOpen, ExcelClosed
<1>13. answer.outcome = "rejected" => answer.outcome # "ok"
  OBVIOUS
<1> QED BY ONLY <1>0, <1>10, <1>11, <1>12, <1>13 DEF answer, fits, Letter, c

\* At the end of the sheet the series validation settles every row.
LEMMA ExcelFinishes ==
  ASSUME ExcelInv, Excel!EndOfSheet
  PROVE  ExcelInv'
<1> DEFINE n == Len(rows)
           series == Excel!ValidateConsumptionSeries(candidates, config.grid)
           extra == [i \in DOMAIN series.issues |->
                       Excel!RowDlq(series.issues[i].position, series.issues[i].code)]
           recs == [i \in DOMAIN series.valid |-> series.valid[i].record]
           letters == dlq
           all == letters \o extra
           good == Excel!Readable
           value == ExcelValue
           grid == config.grid
<1>0. /\ pc = "reading" /\ dlq' = all /\ records' = recs /\ pc' = "done"
      /\ UNCHANGED <<config, header, columns, rows, candidates>>
  BY DEF Excel!EndOfSheet
<1>1. /\ Excel!Readable' = good /\ ExcelValue' = value /\ \A k : Excel!Answer(k)' = Excel!Answer(k)
  BY <1>0, ExcelAnswersStay
<1>2. series = ValidateConsumptionSeries(candidates, grid)
  BY ExcelValidation
<1>3. /\ DOMAIN extra = DOMAIN series.issues /\ extra = [i \in DOMAIN extra |-> extra[i]]
      /\ \A i \in DOMAIN extra : extra[i].of = "row" /\ extra[i].row = series.issues[i].position
  BY DEF Excel!RowDlq
<1>4. \A k \in good : value[k].timestamp \in MinInstant .. MaxInstant
  BY ExcelReadableRows DEF ExcelInv
<1>5. grid # NoGrid => IsGrid(grid)
  BY IngestionAssumption DEF ExcelInv, ExcelFits
<1>6. Filed(n, good, value, candidates, letters)
  BY <1>0 DEF ExcelInv, ExcelOpen
<1>7. all = letters \o extra /\ recs = [i \in DOMAIN series.valid |-> series.valid[i].record]
  OBVIOUS
<1> HIDE DEF n, series, extra, recs, letters, all, good, value, grid
<1>8. Accounted(n, good, value, all, recs)
  <2>1. Validated(n, good, value, candidates, letters, grid, series, extra, all, recs)
    BY ONLY <1>2, <1>3, <1>4, <1>5, <1>6, <1>7 DEF Validated
  <2> QED BY ONLY <2>1, SeriesSettled
<1>9. ExcelFits'
  BY <1>0 DEF ExcelInv, ExcelFits
<1>10. ExcelCandidates'
  BY <1>0, <1>1 DEF ExcelInv, ExcelCandidates, good, value
<1>11. ExcelOpen'
  BY <1>0 DEF ExcelOpen
<1>12. ExcelClosed'
  BY <1>0, <1>1, <1>8 DEF ExcelClosed, n, good, value
<1> QED BY <1>9, <1>10, <1>11, <1>12 DEF ExcelInv

\* Every step of the adapter keeps the invariant.
LEMMA ExcelSteps ==
  ASSUME ExcelInv, Excel!Next
  PROVE  ExcelInv'
<1>1. CASE Excel!Construct
  BY <1>1, ExcelMovesOn DEF Excel!Construct, Excel!locals
<1>2. CASE Excel!LoadWorkbook
  BY <1>2, ExcelMovesOn DEF Excel!LoadWorkbook, Excel!locals
<1>3. CASE Excel!WorkbookInvalid
  BY <1>3, ExcelGivesUp DEF Excel!WorkbookInvalid
<1>4. CASE Excel!SourceUnavailable
  BY <1>4, ExcelMovesOn DEF Excel!SourceUnavailable, Excel!locals
<1>5. CASE Excel!SelectWorksheet
  <2>1. CASE pc' = "done"
    BY <1>5, <2>1, ExcelGivesUp DEF Excel!SelectWorksheet
  <2>2. CASE pc' = "reading" /\ dlq' = dlq
    BY <1>5, <2>2, ExcelMovesOn DEF Excel!SelectWorksheet
  <2> QED BY <1>5, <2>1, <2>2 DEF Excel!SelectWorksheet
<1>6. CASE Excel!SheetMalformed
  BY <1>6, ExcelMovesOn DEF Excel!SheetMalformed, Excel!locals
<1>7. CASE Excel!EndOfSheet
  BY <1>7, ExcelFinishes
<1>8. CASE Excel!Returned
  BY <1>8, ExcelMovesOn DEF Excel!Returned, Excel!vars
<1>9. ASSUME NEW row \in ExcelDataRows, Excel!SkipBlankRow(row) PROVE ExcelInv'
  BY <1>9, ExcelMovesOn DEF Excel!SkipBlankRow, Excel!locals
<1>10. ASSUME NEW row \in ExcelDataRows, Excel!IngestDataRow(row) PROVE ExcelInv'
  BY <1>10, ExcelIngestsRow
<1>11. ASSUME NEW row \in ExcelHeaderRows, Excel!ReadHeader(row) PROVE ExcelInv'
  BY <1>11, ExcelReadsHeader
<1> QED BY <1>1, <1>2, <1>3, <1>4, <1>5, <1>6, <1>7, <1>8, <1>9, <1>10, <1>11 DEF Excel!Next

\* The operators in which the properties are stated are those of the modules, too.
LEMMA ExcelTerms ==
  /\ \A words : Excel!Last(Excel!NormalizeFieldName(words)) = Last(NormalizeFieldName(words))
  /\ Excel!EnergyLastTokens = EnergyLastTokens
<1>1. \A words : Excel!Last(Excel!NormalizeFieldName(words)) = Last(NormalizeFieldName(words))
  BY DEF Excel!NormalizeFieldName, NormalizeFieldName, Excel!Separators, Separators, Excel!Last, Last,
         Excel!InOrder, InOrder, Excel!Rank, Rank, Excel!Cardinality, Cardinality
<1>2. Excel!EnergyLastTokens = EnergyLastTokens
  BY DEF Excel!EnergyLastTokens, EnergyLastTokens
<1> QED BY ONLY <1>1, <1>2

\* What the invariant says of the properties of the adapter.
LEMMA ExcelInvImplies ==
  ASSUME ExcelInv
  PROVE  Excel!EveryRowAccounted /\ Excel!UnitsAsDeclared
<1>0. /\ Excel!Readable \subseteq 1 .. Len(rows) /\ DOMAIN rows = 1 .. Len(rows)
      /\ \A k \in Excel!Readable :
           /\ ExcelValue[k] = Excel!Answer(k).v
           /\ ExcelValue[k].value = IF config.unit = "KW" THEN rows[k][columns["value_mw"]].v
                                  ELSE 1000 * rows[k][columns["value_mw"]].v
  BY ExcelReadableRows DEF ExcelInv
<1>v. \A k \in Excel!Readable : ExcelValue[k] = Excel!Answer(k).v
  BY ExcelReadableRows DEF ExcelInv
<1>2. Excel!EveryRowAccounted
  <2> SUFFICES ASSUME pc = "done", columns # << >> PROVE Excel!EveryRowAccounted
    BY DEF Excel!EveryRowAccounted, Excel!Accepted
  <2> DEFINE dead == Excel!DeadRows
             kept == InOrder({k \in 1 .. Len(rows) : k + 1 \notin dead})
             good == Excel!Readable
  <2>1. Accounted(Len(rows), good, ExcelValue, dlq, records)
    BY DEF ExcelInv, ExcelClosed
  <2>2. /\ \A i, j \in DOMAIN dlq : dlq[i].of = "row" /\ dlq[i].row = dlq[j].row => i = j
        /\ \A i \in DOMAIN kept : kept[i] \in good
        /\ records = [i \in DOMAIN kept |-> ExcelValue[kept[i]]]
        /\ \A j, k \in good :
             /\ j # k /\ ExcelValue[j].consumer = ExcelValue[k].consumer
             /\ ExcelValue[j].timestamp = ExcelValue[k].timestamp
             => {j + 1, k + 1} \subseteq dead
    BY ONLY <2>1 DEF Accounted, Excel!DeadRows
  <2>3. kept = Excel!InOrder({k \in DOMAIN rows : k + 1 \notin dead})
    BY ONLY <1>0 DEF Excel!InOrder, InOrder, Excel!Rank, Rank, Excel!Cardinality, Cardinality
  <2> HIDE DEF kept, dead
  <2>4. records = [i \in DOMAIN kept |-> Excel!Answer(kept[i]).v]
    <3>1. ASSUME NEW i \in DOMAIN kept PROVE ExcelValue[kept[i]] = Excel!Answer(kept[i]).v
      <4>1. kept[i] \in Excel!Readable
        BY ONLY <3>1, <2>2
      <4> QED BY ONLY <4>1, <1>v, Zenon
    <3>2. records = [i \in DOMAIN kept |-> ExcelValue[kept[i]]]
      BY ONLY <2>2
    <3> QED BY ONLY <3>1, <3>2
  <2>5. \A j, k \in good :
             /\ j # k /\ Excel!Answer(j).v.consumer = Excel!Answer(k).v.consumer
             /\ Excel!Answer(j).v.timestamp = Excel!Answer(k).v.timestamp
             => {j + 1, k + 1} \subseteq dead
    BY ONLY <1>0, <2>2
  <2> QED BY ONLY <2>2, <2>3, <2>4, <2>5 DEF Excel!EveryRowAccounted, dead
<1>3. Excel!UnitsAsDeclared
  <2> SUFFICES ASSUME NEW i \in DOMAIN candidates
               PROVE  LET at    == columns["value_mw"]
                          claim == Excel!Last(Excel!NormalizeFieldName(header[at].words))
                          cell  == rows[candidates[i].position - 1][at]
                      IN  /\ header[at].py = "str" /\ claim \notin Excel!EnergyLastTokens
                          /\ claim = "mw" => candidates[i].record.value = 1000 * cell.v
                          /\ claim = "kw" => candidates[i].record.value = cell.v
    BY DEF Excel!UnitsAsDeclared
  <2> DEFINE at == columns["value_mw"]
             k == candidates[i].position - 1
             value == candidates[i].record.value
             cell == rows[k][at]
             claim == Excel!Last(Excel!NormalizeFieldName(header[at].words))
             fields == Excel!HeaderSourceFields(header)
  <2>1. k \in Excel!Readable /\ candidates[i].record = ExcelValue[k]
    BY DEF ExcelInv, ExcelCandidates
  <2> HIDE DEF k
  <2>2. k \in DOMAIN rows
    BY ONLY <1>0, <2>1
  <2>3. columns # << >> /\ header \in ExcelHeaderRows
    BY <2>2 DEF ExcelInv, ExcelFits
  <2>4. at \in DOMAIN fields /\ ClaimsTheUnit(fields[at], config.unit)
    BY <2>3 DEF ExcelInv, ExcelFits, GoodColumns, RequiredFields
  <2>5. fields[at] = IF header[at].py = "str" THEN header[at].words ELSE << >>
    <3> HIDE DEF fields, at
    <3>1. IsTuple(header) /\ fields = Excel!HeaderSourceFields(header)
      BY <2>3, IngestionAssumption DEF fields
    <3> QED BY ONLY <2>4, <3>1, TrimmedHeader
  <2>6. header[at].py = "str" /\ fields[at] = header[at].words
    <3> HIDE DEF fields, at
    <3>1. NormalizeFieldName(fields[at]) # << >>
      BY ONLY <2>4 DEF ClaimsTheUnit
    <3> QED BY ONLY <2>5, <3>1, NormalizeNothing
  <2>7. /\ claim \notin Excel!EnergyLastTokens
        /\ claim = "mw" => config.unit = "MW"
        /\ claim = "kw" => config.unit = "KW"
    <3> HIDE DEF fields, at
    <3> QED BY ONLY <2>4, <2>6, ExcelTerms DEF ClaimsTheUnit
  <2>8. value = IF config.unit = "KW" THEN cell.v ELSE 1000 * cell.v
    BY ONLY <1>0, <2>1
  <2> HIDE DEF value, cell, claim
  <2>9. /\ claim \notin Excel!EnergyLastTokens
        /\ claim = "mw" => value = 1000 * cell.v
        /\ claim = "kw" => value = cell.v
    BY ONLY <2>7, <2>8
  <2> QED BY ONLY <2>6, <2>9 DEF value, cell, claim, k
<1> QED BY <1>2, <1>3

-----------------------------------------------------------------------------
(* The consumption port                                                    *)

\* The inductive invariant: whichever adapter answers, its invariant holds.
IngestionInv ==
  /\ format \in {"csv", "excel"}
  /\ format = "csv" => CsvInv
  /\ format = "excel" => ExcelInv

\* It holds at first and every step keeps it.
LEMMA IngestionInductive ==
  /\ Init => IngestionInv
  /\ IngestionInv /\ [Next]_vars => IngestionInv'
<1>1. ASSUME Init PROVE IngestionInv
  <2>1. CASE format = "csv" /\ Csv!Init
    BY <2>1, CsvStarts DEF IngestionInv
  <2>2. CASE format = "excel" /\ Excel!Init
    BY <2>2, ExcelStarts DEF IngestionInv
  <2> QED BY <1>1, <2>1, <2>2 DEF Init
<1>2. ASSUME IngestionInv, [Next]_vars PROVE IngestionInv'
  <2>1. CASE format = "csv" /\ Csv!Next /\ UNCHANGED format
    BY <1>2, <2>1, CsvSteps DEF IngestionInv
  <2>2. CASE format = "excel" /\ Excel!Next /\ UNCHANGED format
    BY <1>2, <2>2, ExcelSteps DEF IngestionInv
  <2>3. CASE UNCHANGED vars
    <3>1. /\ UNCHANGED <<config, header, columns, rows, candidates, dlq, gaps, records>>
          /\ pc' = pc /\ format' = format
      BY <2>3 DEF vars
    <3>2. CASE format = "csv"
      BY <1>2, <3>1, <3>2, CsvMovesOn DEF IngestionInv
    <3>3. CASE format = "excel"
      BY <1>2, <3>1, <3>3, ExcelMovesOn DEF IngestionInv
    <3> QED BY <1>2, <3>2, <3>3 DEF IngestionInv
  <2> QED BY <1>2, <2>1, <2>2, <2>3 DEF Next
<1> QED BY <1>1, <1>2

\* What it implies.
LEMMA IngestionInvImplies ==
  IngestionInv => EveryRowAccounted /\ GapsExact /\ TimestampsUnambiguous /\ UnitsAsDeclared
BY CsvInvImplies, ExcelInvImplies
   DEF IngestionInv, EveryRowAccounted, GapsExact, TimestampsUnambiguous, UnitsAsDeclared, InCsv, InExcel

\* When ingest() returns the result of a source of any length, in either format, each data
\* row read is exactly one record or exactly one dead letter, the records are those of
\* readable rows in source order, and of readable rows that name one consumer and one
\* instant none wins (_ingest_data_row, _duplicate_indexes and _with_series_validation of
\* both adapters).
THEOREM NoRowIsLost == Spec => []EveryRowAccounted
<1>1. IngestionInv => EveryRowAccounted
  BY IngestionInvImplies
<1> QED BY <1>1, IngestionInductive, PTL DEF Spec

\* The reported gaps are the grid points between the first and the last record of a
\* consumer at which it has no record, each counted once (_detect_gaps).
THEOREM GapsAreExact == Spec => []GapsExact
<1>1. IngestionInv => GapsExact
  BY IngestionInvImplies
<1> QED BY <1>1, IngestionInductive, PTL DEF Spec

\* In every zone a naive timestamp is accepted exactly when one instant, and only one,
\* shows that wall clock, and it is read as that instant (_localize_naive).
THEOREM LocalTimesNameOneInstant == Spec => []TimestampsUnambiguous
<1>1. IngestionInv => TimestampsUnambiguous
  BY IngestionInvImplies
<1> QED BY <1>1, IngestionInductive, PTL DEF Spec

\* Whatever Ratio guesses, no record holds a measurement of a column whose header claims
\* energy or is no text, and a header that claims a power unit is read in it
\* (apply_consumption_unit_safety).
THEOREM EnergyIsNeverReadAsPower == Spec => []UnitsAsDeclared
<1>1. IngestionInv => UnitsAsDeclared
  BY IngestionInvImplies
<1> QED BY <1>1, IngestionInductive, PTL DEF Spec


-----------------------------------------------------------------------------
(***************************************************************************)
(* The consumption repository, where the observations of a source end.  It *)
(* stores whole batches and is a write-once store, for any pool and any    *)
(* number of calls, errors and retries.  Neither is inductive: the invariant *)
(* ties a row that an open transaction has inserted to the batch of that   *)
(* transaction, and says what a transaction that passed its comparison will *)
(* find when it commits.                                                   *)
(***************************************************************************)

(* An uncommitted row belongs to an open transaction whose batch has it,    *)
(* and its identity is not committed: nobody else inserts it meanwhile.     *)
HoldersOwnRows ==
  \A k \in Identities, c \in Calls : holder[k] = c =>
    /\ stage[c] \in {"insert", "select", "commit"}
    /\ table[k] = None
    /\ \E e \in batch[c] : e.key = k

(* A call that asks for a connection has a batch that does not contradict   *)
(* itself, and its INSERT visits nothing else.                              *)
BatchesAreSound ==
  \A c \in Calls :
    /\ stage[c] = "idle" <=> batch[c] = {}
    /\ stage[c] \in {"connect"} \cup InTransaction => ~SelfConflict(batch[c])
    /\ stage[c] = "insert" => cursor[c] \in batch[c]
    /\ todo[c] \subseteq batch[c]

(* What the SELECT of a call showed is still so when the call commits.      *)
ReadyToCommit ==
  \A c \in Calls : stage[c] = "commit" => \A e \in batch[c] : Visible(c, e.key) = e.value

(* A committed batch is stored, also while its answer is on the way.        *)
CommittedIsStored ==
  \A c \in Calls : stage[c] \in {"committed", "ok"} => \A e \in batch[c] : table[e.key] = e.value

RepositoryInv ==
  /\ RepositoryTypeOK /\ IsFiniteSet(conns)
  /\ HoldersOwnRows /\ BatchesAreSound /\ ReadyToCommit /\ CommittedIsStored
  /\ StoredInWholeBatches

-----------------------------------------------------------------------------
(* An empty table and idle calls satisfy the invariant.                     *)
LEMMA RepositoryInitially == RepositoryInit => RepositoryInv
<1> SUFFICES ASSUME RepositoryInit PROVE RepositoryInv
  OBVIOUS
<1>1. IsFiniteSet(conns) /\ Cardinality(conns) <= PoolSize
  BY FS_EmptySet, RepositoryAssumption DEF RepositoryInit
<1>2. RepositoryTypeOK
  BY <1>1, RepositoryAssumption DEF RepositoryInit, RepositoryTypeOK, InTransaction, CallEnds
<1>3. HoldersOwnRows /\ StoredInWholeBatches
  BY RepositoryAssumption DEF RepositoryInit, HoldersOwnRows, StoredInWholeBatches
<1>4. BatchesAreSound /\ ReadyToCommit /\ CommittedIsStored
  BY DEF RepositoryInit, BatchesAreSound, ReadyToCommit, CommittedIsStored, InTransaction
<1> QED BY <1>1, <1>2, <1>3, <1>4 DEF RepositoryInv

(* A transaction sees its own row of an identity as its batch has it.       *)
LEMMA OwnRowIsVisible ==
  ASSUME NEW c \in Calls, NEW e \in batch[c], ~SelfConflict(batch[c]), holder[e.key] = c
  PROVE  Visible(c, e.key) = e.value
<1>1. \A d \in batch[c] : d.key = e.key => d = e
  BY DEF SelfConflict
<1>2. (CHOOSE d \in batch[c] : d.key = e.key) = e
  BY <1>1
<1> QED BY <1>2 DEF Visible

(* Steps of one call that leave the table and its locks alone.              *)
LEMMA RepositoryQuietStep ==
  ASSUME RepositoryInv, NEW c \in Calls, NEW where, Goto(c, where),
         table' = table, holder' = holder, RepositoryTypeOK', IsFiniteSet(conns'), BatchesAreSound',
         \A d \in Calls : d # c \/ stage[c] # "idle" => batch'[d] = batch[d],
         stage[c] \in {"insert", "select", "commit"} => where \in {"insert", "select", "commit"},
         where \notin {"committed", "ok"},
         where = "commit" => stage[c] = "select" /\ \A e \in batch[c] : Visible(c, e.key) = e.value
  PROVE  RepositoryInv'
<1> USE DEF RepositoryInv
<1>1. \A d \in Calls : stage'[d] = IF d = c THEN where ELSE stage[d]
  BY DEF Goto, RepositoryTypeOK
<1>2. \A d \in Calls : stage[d] # "idle" => batch'[d] = batch[d]
  OBVIOUS
<1>3. HoldersOwnRows'
  BY <1>1, <1>2 DEF HoldersOwnRows
<1>4. ReadyToCommit'
  <2> SUFFICES ASSUME NEW d \in Calls, stage'[d] = "commit", NEW e \in batch'[d]
               PROVE  Visible(d, e.key)' = e.value
    BY DEF ReadyToCommit
  <2>1. batch'[d] = batch[d]
    BY <1>1, <1>2
  <2>2. Visible(d, e.key) = e.value
    BY <1>1, <2>1 DEF ReadyToCommit
  <2> QED BY <2>1, <2>2 DEF Visible
<1>5. CommittedIsStored'
  BY <1>1, <1>2 DEF CommittedIsStored
<1>6. StoredInWholeBatches'
  BY <1>2 DEF StoredInWholeBatches, BatchesAreSound
<1> QED BY <1>3, <1>4, <1>5, <1>6

(* The INSERT moves on within the batch of its call.                        *)
LEMMA ReachStaysInBatch ==
  ASSUME RepositoryInv, NEW c \in Calls, NEW S \in SUBSET batch[c], Reach(c, S), batch' = batch,
         stage[c] \in {"connect", "insert"}
  PROVE  /\ BatchesAreSound' /\ cursor' \in [Calls -> Records \cup {None}]
         /\ todo' \in [Calls -> SUBSET Records]
         /\ \E where \in {"insert", "select"} : Goto(c, where)
<1> USE DEF RepositoryInv
<1>0. batch[c] # {} /\ batch[c] \subseteq Records /\ ~SelfConflict(batch[c])
  BY DEF RepositoryTypeOK, BatchesAreSound, InTransaction
<1>1. CASE S = {}
  <2>1. Goto(c, "select") /\ cursor' = [cursor EXCEPT ![c] = None] /\ todo' = todo
    BY <1>1 DEF Reach
  <2>2. \A d \in Calls : stage'[d] = IF d = c THEN "select" ELSE stage[d]
    BY <2>1 DEF Goto, RepositoryTypeOK
  <2>3. \A d \in Calls \ {c} : cursor'[d] = cursor[d]
    BY <2>1 DEF RepositoryTypeOK
  <2>4. BatchesAreSound'
    BY <1>0, <2>1, <2>2, <2>3 DEF BatchesAreSound, SelfConflict, InTransaction
  <2> QED BY <2>1, <2>4 DEF RepositoryTypeOK
<1>2. CASE S # {}
  <2>1. PICK e \in S : cursor' = [cursor EXCEPT ![c] = e] /\ todo' = [todo EXCEPT ![c] = S \ {e}]
    BY <1>2 DEF Reach
  <2>2. Goto(c, "insert")
    BY <1>2 DEF Reach
  <2>3. \A d \in Calls : /\ stage'[d] = IF d = c THEN "insert" ELSE stage[d]
                         /\ cursor'[d] = IF d = c THEN e ELSE cursor[d]
                         /\ todo'[d] = IF d = c THEN S \ {e} ELSE todo[d]
    BY <2>1, <2>2 DEF Goto, RepositoryTypeOK
  <2>4. BatchesAreSound'
    BY <1>0, <2>3 DEF BatchesAreSound, SelfConflict, InTransaction
  <2> QED BY <1>0, <2>1, <2>2, <2>4 DEF RepositoryTypeOK
<1> QED BY <1>1, <1>2

(* A transaction that ends, however it ends, lets go of its own rows only.  *)
LEMMA LeaveKeeps ==
  ASSUME RepositoryInv, NEW c \in Calls, NEW end \in CallEnds, LeaveSession(c, end), batch' = batch,
         stage[c] # "idle", end = "ok" => stage[c] = "committed",
         failures' \in 0 .. MaxFailures, retries' = retries
  PROVE  RepositoryInv'
<1> USE DEF RepositoryInv
<1>1. \A d \in Calls : /\ stage'[d] = IF d = c THEN end ELSE stage[d]
                       /\ cursor'[d] = IF d = c THEN None ELSE cursor[d]
                       /\ todo'[d] = IF d = c THEN {} ELSE todo[d]
  BY DEF LeaveSession, Goto, RepositoryTypeOK
<1>2. \A k \in Identities : holder'[k] = IF holder[k] = c THEN None ELSE holder[k]
  BY DEF LeaveSession
<1>3. IsFiniteSet(conns') /\ Cardinality(conns') <= PoolSize
  <2>1. IsFiniteSet(conns) /\ conns' \subseteq conns
    BY DEF LeaveSession
  <2>2. IsFiniteSet(conns') /\ Cardinality(conns') <= Cardinality(conns)
    BY <2>1, FS_Subset
  <2>3. Cardinality(conns) \in Nat /\ Cardinality(conns') \in Nat
    BY <2>1, <2>2, FS_CardinalityType
  <2> QED BY <2>2, <2>3, RepositoryAssumption DEF RepositoryTypeOK
<1>4. RepositoryTypeOK'
  <2>1. holder' \in [Identities -> Calls \cup {None}]
    BY DEF LeaveSession, RepositoryTypeOK
  <2>2. stage' \in [Calls -> {"idle", "normalize", "connect"} \cup InTransaction \cup CallEnds]
    BY DEF LeaveSession, Goto, RepositoryTypeOK
  <2>3. cursor' \in [Calls -> Records \cup {None}] /\ todo' \in [Calls -> SUBSET Records]
    BY DEF LeaveSession, RepositoryTypeOK
  <2> QED BY <1>3, <2>1, <2>2, <2>3 DEF LeaveSession, RepositoryTypeOK
<1>5. HoldersOwnRows'
  BY <1>1, <1>2, RepositoryAssumption DEF HoldersOwnRows, LeaveSession
<1>6. BatchesAreSound'
  BY <1>1 DEF BatchesAreSound, SelfConflict, InTransaction, CallEnds
<1>7. ReadyToCommit'
  <2> SUFFICES ASSUME NEW d \in Calls, stage'[d] = "commit", NEW e \in batch[d]
               PROVE  Visible(d, e.key)' = e.value
    BY DEF ReadyToCommit
  <2>1. d # c /\ stage[d] = "commit" /\ e.key \in Identities
    BY <1>1 DEF CallEnds, RepositoryTypeOK, Records
  <2>2. holder'[e.key] = d <=> holder[e.key] = d
    BY <1>2, <2>1, RepositoryAssumption
  <2>3. Visible(d, e.key) = e.value
    BY <2>1 DEF ReadyToCommit
  <2> QED BY <2>2, <2>3 DEF Visible, LeaveSession
<1>8. CommittedIsStored' /\ StoredInWholeBatches'
  BY <1>1 DEF CommittedIsStored, StoredInWholeBatches, LeaveSession, CallEnds
<1> QED BY <1>3, <1>4, <1>5, <1>6, <1>7, <1>8

(* A row of the INSERT locks an identity that nobody holds and that is not  *)
(* committed, so no other transaction's view changes.                       *)
LEMMA InsertKeeps ==
  ASSUME RepositoryInv, NEW c \in Calls, InsertRow(c)
  PROVE  RepositoryInv'
<1> USE DEF RepositoryInv
<1>1. /\ stage[c] = "insert" /\ batch' = batch /\ table' = table /\ conns' = conns
      /\ failures' = failures /\ retries' = retries
      /\ cursor[c] \in batch[c] /\ cursor[c] \in Records /\ cursor[c].key \in Identities
  BY DEF InsertRow, BatchesAreSound, RepositoryTypeOK, Records
<1>2. /\ BatchesAreSound' /\ cursor' \in [Calls -> Records \cup {None}]
      /\ todo' \in [Calls -> SUBSET Records]
      /\ \E where \in {"insert", "select"} : Goto(c, where)
  <2>1. todo[c] \in SUBSET batch[c]
    BY DEF BatchesAreSound
  <2> QED BY <1>1, <2>1, ReachStaysInBatch DEF InsertRow
<1>3. PICK where \in {"insert", "select"} : Goto(c, where)
  BY <1>2
<1>4. \A d \in Calls : stage'[d] = IF d = c THEN where ELSE stage[d]
  BY <1>3 DEF Goto, RepositoryTypeOK
<1>5. /\ holder[cursor[c].key] = None
      /\ \A k \in Identities : holder'[k] = IF k = cursor[c].key /\ table[k] = None THEN c ELSE holder[k]
      /\ holder' \in [Identities -> Calls \cup {None}]
  BY <1>1 DEF InsertRow, RepositoryTypeOK
<1>6. RepositoryTypeOK' /\ IsFiniteSet(conns')
  BY <1>1, <1>2, <1>3, <1>5 DEF RepositoryTypeOK, Goto, InTransaction
<1>7. HoldersOwnRows'
  BY <1>1, <1>4, <1>5 DEF HoldersOwnRows
<1>8. ReadyToCommit'
  <2> SUFFICES ASSUME NEW d \in Calls, stage'[d] = "commit", NEW e \in batch[d]
               PROVE  Visible(d, e.key)' = e.value
    BY <1>1 DEF ReadyToCommit
  <2>1. d # c /\ stage[d] = "commit" /\ e.key \in Identities
    BY <1>3, <1>4 DEF RepositoryTypeOK, Records
  <2>2. holder'[e.key] = d <=> holder[e.key] = d
    BY <1>5, <2>1, RepositoryAssumption
  <2>3. Visible(d, e.key) = e.value
    BY <2>1 DEF ReadyToCommit
  <2> QED BY <1>1, <2>2, <2>3 DEF Visible
<1>9. CommittedIsStored' /\ StoredInWholeBatches'
  BY <1>1, <1>4 DEF CommittedIsStored, StoredInWholeBatches
<1> QED BY <1>2, <1>6, <1>7, <1>8, <1>9

(* What a commit writes: the whole batch is stored afterwards, every row it *)
(* adds is one of the batch, and no committed row changes.                  *)
LEMMA CommitWrites ==
  ASSUME RepositoryInv, NEW c \in Calls, Commit(c)
  PROVE  /\ \A k \in Identities : table[k] # None => table'[k] = table[k]
         /\ \A e \in batch[c] : table'[e.key] = e.value
         /\ \A k \in Identities : holder[k] = c =>
              \E e \in batch[c] : e.key = k /\ table'[k] = e.value
         /\ \A k \in Identities : holder[k] # c => table'[k] = table[k]
<1> USE DEF RepositoryInv
<1>1. stage[c] = "commit" /\ batch[c] \subseteq Records /\ \A k \in Identities : table'[k] = Visible(c, k)
  BY DEF Commit, RepositoryTypeOK
<1>2. \A k \in Identities : holder[k] # c => table'[k] = table[k]
  BY <1>1 DEF Visible
<1>3. \A k \in Identities : table[k] # None => table'[k] = table[k]
  BY <1>2 DEF HoldersOwnRows
<1>4. \A e \in batch[c] : table'[e.key] = e.value
  BY <1>1 DEF ReadyToCommit, Records
<1>5. \A k \in Identities : holder[k] = c =>
        \E e \in batch[c] : e.key = k /\ table'[k] = e.value
  BY <1>4 DEF HoldersOwnRows
<1> QED BY <1>2, <1>3, <1>4, <1>5

(* A commit stores a batch whole, and leaves every other transaction with   *)
(* the rows that it inserted or that its SELECT showed.                     *)
LEMMA CommitKeeps ==
  ASSUME RepositoryInv, NEW c \in Calls, Commit(c)
  PROVE  RepositoryInv'
<1> USE DEF RepositoryInv
<1>1. /\ stage[c] = "commit" /\ batch' = batch /\ conns' = conns /\ cursor' = cursor /\ todo' = todo
      /\ failures' = failures /\ retries' = retries
      /\ \A k \in Identities : holder'[k] = IF holder[k] = c THEN None ELSE holder[k]
      /\ holder' \in [Identities -> Calls \cup {None}]
  BY DEF Commit, RepositoryTypeOK
<1>2. \A d \in Calls : stage'[d] = IF d = c THEN "committed" ELSE stage[d]
  BY DEF Commit, Goto, RepositoryTypeOK
<1>3. /\ \A k \in Identities : table[k] # None => table'[k] = table[k]
      /\ \A e \in batch[c] : table'[e.key] = e.value
      /\ \A k \in Identities : holder[k] = c =>
           \E e \in batch[c] : e.key = k /\ table'[k] = e.value
      /\ \A k \in Identities : holder[k] # c => table'[k] = table[k]
  BY CommitWrites
<1>4. \A d \in Calls : \A e \in batch[d] :
        /\ e.key \in Identities /\ e.value # None
        /\ table[e.key] = e.value => table'[e.key] = e.value
  <2>1. \A d \in Calls : \A e \in batch[d] : e.key \in Identities /\ e.value # None
    BY RepositoryAssumption DEF RepositoryTypeOK, Records
  <2> QED BY <1>3, <2>1
<1>5. RepositoryTypeOK' /\ IsFiniteSet(conns')
  <2>1. \A k \in Identities : table'[k] \in Observations \cup {None}
    BY <1>3 DEF RepositoryTypeOK, Records
  <2>2. table' \in [Identities -> Observations \cup {None}]
    BY <2>1 DEF Commit
  <2>3. stage' \in [Calls -> {"idle", "normalize", "connect"} \cup InTransaction \cup CallEnds]
    BY DEF Commit, Goto, RepositoryTypeOK, InTransaction
  <2> QED BY <1>1, <2>2, <2>3 DEF RepositoryTypeOK
<1>6. HoldersOwnRows'
  BY <1>1, <1>2, <1>3, RepositoryAssumption DEF HoldersOwnRows
<1>7. BatchesAreSound'
  BY <1>1, <1>2 DEF BatchesAreSound, SelfConflict, InTransaction
<1>8. ReadyToCommit'
  <2> SUFFICES ASSUME NEW d \in Calls, stage'[d] = "commit", NEW e \in batch[d]
               PROVE  Visible(d, e.key)' = e.value
    BY <1>1 DEF ReadyToCommit
  <2>1. d # c /\ stage[d] = "commit" /\ e.key \in Identities
    BY <1>2, <1>4
  <2>2. holder'[e.key] = d <=> holder[e.key] = d
    BY <1>1, <2>1, RepositoryAssumption
  <2>3. Visible(d, e.key) = e.value
    BY <2>1 DEF ReadyToCommit
  <2> QED BY <1>1, <1>4, <2>2, <2>3 DEF Visible
<1>9. CommittedIsStored'
  BY <1>1, <1>2, <1>3, <1>4 DEF CommittedIsStored
<1>10. StoredInWholeBatches'
  <2> SUFFICES ASSUME NEW k \in Identities, table'[k] # None
               PROVE  \E d \in Calls : /\ [key |-> k, value |-> table'[k]] \in batch[d]
                                       /\ \A e \in batch[d] : table'[e.key] = e.value
    BY <1>1 DEF StoredInWholeBatches
  <2>1. CASE holder[k] = c
    <3>1. PICK e \in batch[c] : e.key = k /\ table'[k] = e.value
      BY <1>3, <2>1
    <3>2. e = [key |-> k, value |-> table'[k]]
      BY <3>1 DEF RepositoryTypeOK, Records
    <3> QED BY <1>3, <3>2
  <2>2. CASE holder[k] # c
    <3>1. table'[k] = table[k]
      BY <1>3, <2>2
    <3>2. PICK d \in Calls : /\ [key |-> k, value |-> table[k]] \in batch[d]
                             /\ \A e \in batch[d] : table[e.key] = e.value
      BY <3>1 DEF StoredInWholeBatches
    <3> QED BY <1>4, <3>1, <3>2
  <2> QED BY <2>1, <2>2
<1> QED BY <1>5, <1>6, <1>7, <1>8, <1>9, <1>10

(* A call that waits for another, or for itself, is in its INSERT.          *)
LEMMA DeadlockedInserts ==
  ASSUME NEW c \in Calls, Deadlocked(c)
  PROVE  stage[c] = "insert"
BY RepositoryAssumption DEF Deadlocked, WaitsFor

(* A SELECT that finds a record missing or different names it.              *)
LEMMA SelectEnds ==
  ASSUME NEW c \in Calls, Select(c), ~ \A e \in batch[c] : Visible(c, e.key) = e.value
  PROVE  \E e \in batch[c] : /\ Visible(c, e.key) # e.value
                             /\ LeaveSession(c, IF Visible(c, e.key) = None THEN "unavailable" ELSE "conflict")
BY DEF Select

(* Every step preserves the invariant.                                      *)
LEMMA RepositoryNextKeeps ==
  ASSUME RepositoryInv, [RepositoryNext]_repositoryVars
  PROVE  RepositoryInv'
<1> USE DEF RepositoryInv
<1>1. ASSUME NEW c \in Calls, Submit(c) PROVE RepositoryInv'
  <2>1. PICK S \in Batches : batch' = [batch EXCEPT ![c] = S]
    BY <1>1 DEF Submit
  <2>2. S # {} /\ S \subseteq Records
    BY RepositoryAssumption DEF Records
  <2>3. /\ stage[c] = "idle" /\ Goto(c, "normalize") /\ batch[c] = {} /\ todo[c] = {}
        /\ UNCHANGED <<table, holder, conns, cursor, todo, failures, retries>>
    BY <1>1 DEF Submit, BatchesAreSound
  <2>4. /\ RepositoryTypeOK' /\ IsFiniteSet(conns')
    BY <2>1, <2>2, <2>3 DEF RepositoryTypeOK, Goto
  <2>5. \A d \in Calls : /\ stage'[d] = IF d = c THEN "normalize" ELSE stage[d]
                         /\ batch'[d] = IF d = c THEN S ELSE batch[d]
    BY <2>1, <2>3 DEF RepositoryTypeOK, Goto
  <2>6. BatchesAreSound'
    BY <2>2, <2>3, <2>5 DEF BatchesAreSound, SelfConflict, InTransaction
  <2> QED BY <2>3, <2>4, <2>5, <2>6, RepositoryQuietStep
<1>2. ASSUME NEW c \in Calls, Normalize(c) PROVE RepositoryInv'
  <2>1. PICK where \in {"conflict", "connect"} :
          Goto(c, where) /\ (where = "connect" => ~SelfConflict(batch[c]))
    BY <1>2 DEF Normalize
  <2>2. stage[c] = "normalize" /\ UNCHANGED <<table, holder, conns, batch, cursor, todo, failures, retries>>
    BY <1>2 DEF Normalize
  <2>3. \A d \in Calls : stage'[d] = IF d = c THEN where ELSE stage[d]
    BY <2>1 DEF RepositoryTypeOK, Goto
  <2>4. RepositoryTypeOK' /\ IsFiniteSet(conns')
    BY <2>1, <2>2 DEF RepositoryTypeOK, Goto, CallEnds
  <2>5. BatchesAreSound'
    BY <2>1, <2>2, <2>3 DEF BatchesAreSound, SelfConflict, InTransaction
  <2> QED BY <2>1, <2>2, <2>4, <2>5, RepositoryQuietStep
<1>3. ASSUME NEW c \in Calls, Connect(c) PROVE RepositoryInv'
  <2>1. /\ stage[c] = "connect" /\ Cardinality(conns) < PoolSize /\ conns' = conns \cup {c}
        /\ UNCHANGED <<table, holder, batch, failures, retries>>
    BY <1>3 DEF Connect
  <2>2. /\ BatchesAreSound' /\ cursor' \in [Calls -> Records \cup {None}]
        /\ todo' \in [Calls -> SUBSET Records]
        /\ \E where \in {"insert", "select"} : Goto(c, where)
    BY <1>3, <2>1, ReachStaysInBatch DEF Connect
  <2>3. IsFiniteSet(conns') /\ Cardinality(conns') <= PoolSize
    <3>1. IsFiniteSet(conns) /\ Cardinality(conns) \in Nat
      BY FS_CardinalityType
    <3>2. /\ IsFiniteSet(conns')
          /\ Cardinality(conns') = Cardinality(conns) \/ Cardinality(conns') = Cardinality(conns) + 1
      BY <2>1, <3>1, FS_AddElement
    <3> QED BY <2>1, <3>1, <3>2, RepositoryAssumption
  <2>4. PICK where \in {"insert", "select"} : Goto(c, where)
    BY <2>2
  <2>5. RepositoryTypeOK'
    BY <2>1, <2>2, <2>3, <2>4 DEF RepositoryTypeOK, Goto, InTransaction
  <2> QED BY <2>1, <2>2, <2>3, <2>4, <2>5, RepositoryQuietStep
<1>4. ASSUME NEW c \in Calls, PoolTimeout(c) PROVE RepositoryInv'
  <2>1. /\ stage[c] = "connect" /\ Goto(c, "unavailable")
        /\ UNCHANGED <<table, holder, conns, batch, cursor, todo, failures, retries>>
    BY <1>4 DEF PoolTimeout
  <2>2. \A d \in Calls : stage'[d] = IF d = c THEN "unavailable" ELSE stage[d]
    BY <2>1 DEF RepositoryTypeOK, Goto
  <2>3. RepositoryTypeOK' /\ IsFiniteSet(conns')
    BY <2>1 DEF RepositoryTypeOK, Goto, CallEnds
  <2>4. BatchesAreSound'
    BY <2>1, <2>2 DEF BatchesAreSound, SelfConflict, InTransaction
  <2> QED BY <2>1, <2>3, <2>4, RepositoryQuietStep
<1>5. ASSUME NEW c \in Calls, InsertRow(c) PROVE RepositoryInv'
  BY <1>5, InsertKeeps
<1>6. ASSUME NEW c \in Calls, DeadlockAbort(c) PROVE RepositoryInv'
  BY <1>6, DeadlockedInserts, LeaveKeeps DEF DeadlockAbort, RepositoryTypeOK, CallEnds
<1>7. ASSUME NEW c \in Calls, Select(c) PROVE RepositoryInv'
  <2>1. stage[c] = "select" /\ batch' = batch /\ failures' = failures /\ retries' = retries
    BY <1>7 DEF Select
  <2>2. CASE \A e \in batch[c] : Visible(c, e.key) = e.value
    <3>1. Goto(c, "commit") /\ UNCHANGED <<table, holder, conns, cursor, todo>>
      BY <1>7, <2>2 DEF Select
    <3>2. \A d \in Calls : stage'[d] = IF d = c THEN "commit" ELSE stage[d]
      BY <3>1 DEF RepositoryTypeOK, Goto
    <3>3. RepositoryTypeOK' /\ IsFiniteSet(conns')
      BY <2>1, <3>1 DEF RepositoryTypeOK, Goto, InTransaction
    <3>4. BatchesAreSound'
      BY <2>1, <3>1, <3>2 DEF BatchesAreSound, SelfConflict, InTransaction
    <3> QED BY <2>1, <2>2, <3>1, <3>3, <3>4, RepositoryQuietStep
  <2>3. CASE ~ \A e \in batch[c] : Visible(c, e.key) = e.value
    <3>1. PICK end \in {"unavailable", "conflict"} : LeaveSession(c, end)
      BY <1>7, <2>3, SelectEnds
    <3> QED BY <2>1, <3>1, LeaveKeeps DEF CallEnds, RepositoryTypeOK
  <2> QED BY <2>2, <2>3
<1>8. ASSUME NEW c \in Calls, Commit(c) PROVE RepositoryInv'
  BY <1>8, CommitKeeps
<1>9. ASSUME NEW c \in Calls, Return(c) PROVE RepositoryInv'
  BY <1>9, LeaveKeeps DEF Return, RepositoryTypeOK, CallEnds
<1>10. ASSUME NEW c \in Calls, BackendError(c) PROVE RepositoryInv'
  <2>1. /\ stage[c] # "idle" /\ LeaveSession(c, "unavailable") /\ batch' = batch /\ retries' = retries
        /\ failures' \in 0 .. MaxFailures
    BY <1>10, RepositoryAssumption DEF BackendError, RepositoryTypeOK, InTransaction
  <2> QED BY <2>1, LeaveKeeps DEF CallEnds
<1>11. ASSUME NEW c \in Calls, Retry(c) PROVE RepositoryInv'
  <2>1. /\ stage[c] = "unavailable" /\ Goto(c, "normalize") /\ retries' \in 0 .. MaxRetries
        /\ UNCHANGED <<table, holder, conns, batch, cursor, todo, failures>>
    BY <1>11, RepositoryAssumption DEF Retry, RepositoryTypeOK
  <2>2. \A d \in Calls : stage'[d] = IF d = c THEN "normalize" ELSE stage[d]
    BY <2>1 DEF RepositoryTypeOK, Goto
  <2>3. RepositoryTypeOK' /\ IsFiniteSet(conns')
    BY <2>1 DEF RepositoryTypeOK, Goto
  <2>4. BatchesAreSound'
    BY <2>1, <2>2 DEF BatchesAreSound, SelfConflict, InTransaction
  <2> QED BY <2>1, <2>3, <2>4, RepositoryQuietStep
<1>12. CASE UNCHANGED repositoryVars
  <2>1. RepositoryTypeOK' /\ IsFiniteSet(conns') /\ BatchesAreSound'
    BY <1>12 DEF repositoryVars, RepositoryTypeOK, BatchesAreSound, SelfConflict
  <2>2. HoldersOwnRows' /\ ReadyToCommit' /\ CommittedIsStored' /\ StoredInWholeBatches'
    BY <1>12 DEF repositoryVars, HoldersOwnRows, ReadyToCommit, CommittedIsStored,
       StoredInWholeBatches, Visible
  <2> QED BY <2>1, <2>2
<1> QED BY <1>1, <1>2, <1>3, <1>4, <1>5, <1>6, <1>7, <1>8, <1>9, <1>10, <1>11, <1>12
           DEF RepositoryNext

(* The inductive invariant holds of every reachable state.                  *)
THEOREM RepositoryInvariantHolds == RepositorySpec => []RepositoryInv
<1>1. RepositoryInv /\ [RepositoryNext]_repositoryVars => RepositoryInv'
  BY RepositoryNextKeeps
<1> QED BY RepositoryInitially, <1>1, PTL DEF RepositorySpec

(* save_many never has more connections than the pool, and its state stays  *)
(* well-typed, whatever callers, server and pool do.                        *)
THEOREM RepositoryTypesCorrect == RepositorySpec => []RepositoryTypeOK
<1>1. RepositoryInv => RepositoryTypeOK
  BY DEF RepositoryInv
<1> QED BY RepositoryInvariantHolds, <1>1, PTL

(* "One call is one atomic unit of work": for any number of overlapping     *)
(* calls, deadlocks, backend errors and retries, an observation is stored   *)
(* only together with all the others of a call that passed it.              *)
THEOREM WholeBatches == RepositorySpec => []StoredInWholeBatches
<1>1. RepositoryInv => StoredInWholeBatches
  BY DEF RepositoryInv
<1> QED BY RepositoryInvariantHolds, <1>1, PTL

-----------------------------------------------------------------------------
RepositoryOpen == {"normalize", "connect"} \cup InTransaction

(* What the step of one call does to the answers of the port.               *)
LEMMA RepositoryAbstractStep ==
  ASSUME RepositoryInv, NEW c \in Calls, NEW where, Goto(c, where)
  PROVE  absAnswer' = [absAnswer EXCEPT ![c] = IF where \in CallEnds THEN where ELSE "none"]
BY DEF absAnswer, Goto, RepositoryInv, RepositoryTypeOK

(* An open call has asked for something and has no answer yet.              *)
LEMMA RepositoryOpenCallsAsked ==
  ASSUME RepositoryInv, NEW c \in Calls, stage[c] \in RepositoryOpen
  PROVE  absAnswer[c] = "none" /\ batch[c] # {} /\ batch[c] \subseteq Records
BY DEF absAnswer, RepositoryInv, RepositoryTypeOK, BatchesAreSound, RepositoryOpen, CallEnds,
   InTransaction

(* A call that moves on, the table untouched, is a stutter: the port shows  *)
(* neither locks nor connections.                                           *)
LEMMA RepositoryStutterMaps ==
  ASSUME RepositoryInv, NEW c \in Calls, stage[c] \in RepositoryOpen, NEW where \in RepositoryOpen, Goto(c, where),
         table' = table, batch' = batch
  PROVE  UNCHANGED Port!vars
<1>1. absAnswer' = [absAnswer EXCEPT ![c] = "none"]
  BY RepositoryAbstractStep DEF CallEnds, RepositoryOpen, InTransaction
<1>2. absAnswer' = absAnswer
  BY <1>1, RepositoryOpenCallsAsked DEF absAnswer
<1> QED BY <1>2 DEF Port!vars

(* A call that ends unavailable is the port's Fail for that call alone.     *)
LEMMA RepositoryUnavailableMaps ==
  ASSUME RepositoryInv, NEW c \in Calls, stage[c] \in RepositoryOpen, Goto(c, "unavailable"),
         table' = table, batch' = batch
  PROVE  Port!Next
<1>1. absAnswer' = [absAnswer EXCEPT ![c] = "unavailable"]
  BY RepositoryAbstractStep DEF CallEnds
<1>2. absAnswer[c] = "none" /\ batch[c] # {}
  BY RepositoryOpenCallsAsked
<1>3. absAnswer' = [d \in Calls |-> IF d \in {c} THEN "unavailable" ELSE absAnswer[d]]
  BY <1>1 DEF absAnswer
<1>4. Port!Fail({c})
  BY <1>2, <1>3 DEF Port!Fail
<1> QED BY <1>4 DEF Port!Next

(* A batch that contradicts itself is one the port may refuse.              *)
LEMMA RepositorySelfConflictRefused ==
  ASSUME NEW S \in SUBSET Records, SelfConflict(S)
  PROVE  Port!Refused(S)
<1>1. PICK d \in S, e \in S : d.key = e.key /\ d # e
  BY DEF SelfConflict
<1>2. d.value # e.value
  BY <1>1 DEF Records
<1> QED BY <1>1, <1>2 DEF Port!Refused

(* A conflict is the port's when the batch may be refused.                  *)
LEMMA ConflictMaps ==
  ASSUME RepositoryInv, NEW c \in Calls, stage[c] \in RepositoryOpen, Goto(c, "conflict"), table' = table, batch' = batch,
         Port!Refused(batch[c])
  PROVE  Port!Next
<1>1. absAnswer' = [absAnswer EXCEPT ![c] = "conflict"]
  BY RepositoryAbstractStep DEF CallEnds
<1>2. Port!Answer(c, "conflict")
  BY <1>1, RepositoryOpenCallsAsked DEF Port!Answer
<1> QED BY <1>2 DEF Port!Next

(* A record that the SELECT shows with another observation is committed so, *)
(* by another transaction: the caller's own rows always agree with it.      *)
LEMMA DifferenceIsCommitted ==
  ASSUME RepositoryInv, NEW c \in Calls, stage[c] = "select", NEW e \in batch[c], Visible(c, e.key) # e.value
  PROVE  Visible(c, e.key) = table[e.key]
<1>1. ~SelfConflict(batch[c])
  BY DEF RepositoryInv, BatchesAreSound, InTransaction
<1>2. holder[e.key] # c
  BY <1>1, OwnRowIsVisible
<1> QED BY <1>2 DEF Visible

(* A commit is one Write of the records that the transaction inserted.      *)
LEMMA CommitMaps ==
  ASSUME RepositoryInv, NEW c \in Calls, Commit(c)
  PROVE  Port!Next
<1> DEFINE W == {e \in batch[c] : holder[e.key] = c}
<1>1. stage[c] = "commit" /\ batch' = batch /\ Goto(c, "committed") /\ ~SelfConflict(batch[c])
      /\ batch[c] \subseteq Records
  BY DEF Commit, RepositoryInv, BatchesAreSound, InTransaction, RepositoryTypeOK
<1>2. absAnswer' = absAnswer /\ absAnswer[c] = "none"
  <2>1. absAnswer' = [absAnswer EXCEPT ![c] = "none"]
    BY <1>1, RepositoryAbstractStep DEF CallEnds
  <2> QED BY <1>1, <2>1, RepositoryOpenCallsAsked DEF absAnswer, RepositoryOpen, InTransaction
<1>3. \A d, e \in W : d.key = e.key => d = e
  BY <1>1 DEF SelfConflict
<1>4. \A e \in W : table[e.key] = None
  BY <1>1 DEF RepositoryInv, HoldersOwnRows, Records
<1>5. \A k \in Identities : Visible(c, k) = IF \E e \in W : e.key = k
                                              THEN (CHOOSE e \in W : e.key = k).value
                                              ELSE table[k]
  <2> SUFFICES ASSUME NEW k \in Identities
               PROVE  Visible(c, k) = IF \E e \in W : e.key = k
                                        THEN (CHOOSE e \in W : e.key = k).value ELSE table[k]
    OBVIOUS
  <2>1. CASE \E e \in W : e.key = k
    <3>1. PICK e \in W : e.key = k
      BY <2>1
    <3>2. (CHOOSE d \in W : d.key = k) = e
      BY <1>3, <3>1
    <3>3. Visible(c, k) = e.value
      BY <1>1, <3>1, OwnRowIsVisible
    <3> QED BY <2>1, <3>2, <3>3
  <2>2. CASE ~ \E e \in W : e.key = k
    <3>1. holder[k] # c
      BY <2>2 DEF RepositoryInv, HoldersOwnRows
    <3> QED BY <2>2, <3>1 DEF Visible
  <2> QED BY <2>1, <2>2
<1>6. table' = [k \in Identities |-> IF \E e \in W : e.key = k
                                      THEN (CHOOSE e \in W : e.key = k).value
                                      ELSE table[k]]
  BY <1>5 DEF Commit
<1>7. W \in SUBSET batch[c]
  OBVIOUS
<1>8. Port!Write(c)
  <2> HIDE DEF W
  <2> QED BY <1>1, <1>2, <1>3, <1>4, <1>6, <1>7 DEF Port!Write
<1> QED BY <1>8 DEF Port!Next

(* Every step of the repository is a step of the port, or none.             *)
LEMMA RepositoryNextMaps ==
  ASSUME RepositoryInv, [RepositoryNext]_repositoryVars
  PROVE  [Port!Next]_(Port!vars)
<1> USE DEF RepositoryOpen, InTransaction
<1>1. ASSUME NEW c \in Calls, Submit(c) PROVE Port!Next
  <2>1. PICK S \in Batches : batch' = [batch EXCEPT ![c] = S]
    BY <1>1 DEF Submit
  <2>2. absAnswer' = [absAnswer EXCEPT ![c] = "none"] /\ absAnswer[c] = "none"
    BY <1>1, RepositoryAbstractStep DEF Submit, CallEnds, absAnswer
  <2>3. absAnswer' = absAnswer
    BY <2>2 DEF absAnswer
  <2>4. batch[c] = {} /\ S \in SUBSET Port!Entries
    BY <1>1, RepositoryAssumption DEF Submit, RepositoryInv, BatchesAreSound, Port!Entries
  <2>5. Port!Ask(c)
    BY <1>1, <2>1, <2>2, <2>3, <2>4 DEF Port!Ask, Submit
  <2> QED BY <2>5 DEF Port!Next
<1>2. ASSUME NEW c \in Calls, Normalize(c) PROVE [Port!Next]_(Port!vars)
  <2>1. CASE SelfConflict(batch[c])
    BY <1>2, <2>1, RepositorySelfConflictRefused, RepositoryOpenCallsAsked, ConflictMaps
       DEF Normalize
  <2>2. CASE ~SelfConflict(batch[c])
    BY <1>2, <2>2, RepositoryStutterMaps DEF Normalize
  <2> QED BY <2>1, <2>2
<1>3. ASSUME NEW c \in Calls, NEW S, Reach(c, S), stage[c] \in {"connect", "insert"},
             table' = table, batch' = batch
      PROVE  UNCHANGED Port!vars
  <2>1. PICK where \in {"insert", "select"} : Goto(c, where)
    BY <1>3 DEF Reach
  <2> QED BY <1>3, <2>1, RepositoryStutterMaps
<1>4. ASSUME NEW c \in Calls, Connect(c) PROVE UNCHANGED Port!vars
  BY <1>3, <1>4 DEF Connect
<1>5. ASSUME NEW c \in Calls, PoolTimeout(c) PROVE Port!Next
  BY <1>5, RepositoryUnavailableMaps DEF PoolTimeout
<1>6. ASSUME NEW c \in Calls, InsertRow(c) PROVE UNCHANGED Port!vars
  BY <1>3, <1>6 DEF InsertRow
<1>7. ASSUME NEW c \in Calls, DeadlockAbort(c) PROVE Port!Next
  BY <1>7, DeadlockedInserts, RepositoryUnavailableMaps DEF DeadlockAbort, LeaveSession
<1>8. ASSUME NEW c \in Calls, Select(c) PROVE [Port!Next]_(Port!vars)
  <2>1. stage[c] = "select" /\ batch' = batch
    BY <1>8 DEF Select
  <2>2. CASE \A e \in batch[c] : Visible(c, e.key) = e.value
    <3>1. Goto(c, "commit") /\ table' = table
      BY <1>8, <2>2 DEF Select
    <3> QED BY <2>1, <3>1, RepositoryStutterMaps
  <2>3. CASE ~ \A e \in batch[c] : Visible(c, e.key) = e.value
    <3>1. PICK e \in batch[c] :
            /\ Visible(c, e.key) # e.value
            /\ LeaveSession(c, IF Visible(c, e.key) = None THEN "unavailable" ELSE "conflict")
      BY <1>8, <2>3, SelectEnds
    <3>2. CASE Visible(c, e.key) = None
      BY <2>1, <3>1, <3>2, RepositoryUnavailableMaps DEF LeaveSession
    <3>3. CASE Visible(c, e.key) # None
      <4>1. Port!Refused(batch[c])
        BY <2>1, <3>1, <3>3, DifferenceIsCommitted DEF Port!Refused
      <4> QED BY <2>1, <3>1, <3>3, <4>1, ConflictMaps DEF LeaveSession
    <3> QED BY <3>2, <3>3
  <2> QED BY <2>2, <2>3
<1>9. ASSUME NEW c \in Calls, Commit(c) PROVE Port!Next
  BY <1>9, CommitMaps
<1>10. ASSUME NEW c \in Calls, Return(c) PROVE Port!Next
  <2>1. stage[c] = "committed" /\ Goto(c, "ok") /\ table' = table /\ batch' = batch
    BY <1>10 DEF Return, LeaveSession
  <2>2. absAnswer' = [absAnswer EXCEPT ![c] = "ok"]
    BY <2>1, RepositoryAbstractStep DEF CallEnds
  <2>3. \A e \in batch[c] : Port!Stored(e)
    BY <2>1 DEF RepositoryInv, CommittedIsStored, Port!Stored
  <2>4. Port!Answer(c, "ok")
    BY <2>1, <2>2, <2>3, RepositoryOpenCallsAsked DEF Port!Answer
  <2> QED BY <2>4 DEF Port!Next
<1>11. ASSUME NEW c \in Calls, BackendError(c) PROVE Port!Next
  BY <1>11, RepositoryUnavailableMaps DEF BackendError, LeaveSession
<1>12. ASSUME NEW c \in Calls, Retry(c) PROVE Port!Next
  <2>1. absAnswer[c] = "unavailable" /\ absAnswer' = [absAnswer EXCEPT ![c] = "none"]
    BY <1>12, RepositoryAbstractStep DEF Retry, absAnswer, CallEnds
  <2>2. Port!Retry(c)
    BY <1>12, <2>1 DEF Port!Retry, Retry
  <2> QED BY <2>2 DEF Port!Next
<1>13. CASE UNCHANGED repositoryVars
  BY <1>13 DEF repositoryVars, absAnswer, Port!vars
<1> QED BY <1>1, <1>2, <1>4, <1>5, <1>6, <1>7, <1>8, <1>9, <1>10, <1>11, <1>12, <1>13
           DEF RepositoryNext

(* save_many implements ConsumptionRepositoryPort as a write-once store for *)
(* every number of calls, whatever deadlocks, times out or loses its answer *)
(* to COMMIT: no committed observation is replaced, no save is acknowledged *)
(* that is not stored and no conflict is spurious.                          *)
THEOREM RepositoryImplementsPort == RepositorySpec => ImplementsPort
<1>1. RepositoryInit => Port!Init
  BY DEF RepositoryInit, Port!Init, absAnswer, CallEnds
<1>2. RepositoryInv /\ [RepositoryNext]_repositoryVars => [Port!Next]_(Port!vars)
  BY RepositoryNextMaps
<1> QED BY <1>1, <1>2, RepositoryInvariantHolds, PTL DEF RepositorySpec, ImplementsPort, Port!Spec
=============================================================================
