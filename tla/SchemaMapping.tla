---------------------------- MODULE SchemaMapping -----------------------------
(***************************************************************************)
(* DeterministicFieldResolver and the unit policy of the Consumption       *)
(* adapters: which column of a source is read as which canonical field.    *)
(*                                                                         *)
(* A raw header is a sequence of words and separators, a normalized one a  *)
(* sequence of casefolded words.  Ratio stands for SequenceMatcher.ratio,  *)
(* in percent; nothing is assumed of it but its range.                     *)
(***************************************************************************)
EXTENDS Integers, Sequences, SequencesExt, Enumeration

CONSTANTS Ratio(_, _),     \* similarity of two normalized names, 0 .. 100
          Casefold(_),     \* a word without its case
          FuzzyThreshold,  \* 85 in the code
          AmbiguityMargin  \*  5 in the code

ASSUME ResolverAssumption == FuzzyThreshold \in 0 .. 100 /\ AmbiguityMargin \in 0 .. 100

Separators == {" ", "_", "-", "(", ")"}

\* Words are kept and casefolded, runs of anything else separate them.
NormalizeFieldName(header) ==
  LET words == InOrder({i \in DOMAIN header : header[i] \notin Separators})
  IN  [k \in DOMAIN words |-> Casefold(header[words[k]])]

-------------------------------------------------------------------------------
(* A spec is [name, aliases, required]: raw names, in the caller's order.   *)

RequiredFields == {"consumer_id", "timestamp", "value_mw"}

PowerUnits == {"MW", "KW"}
PowerToken == [u \in PowerUnits |-> IF u = "MW" THEN "mw" ELSE "kw"]

RawName == [f \in RequiredFields |->
              CASE f = "consumer_id" -> <<"consumer", "_", "id">>
                [] f = "timestamp"   -> <<"timestamp">>
                [] f = "value_mw"    -> <<"value", "_", "mw">>]

DefaultConsumptionFieldSpecs(unit) ==
  <<[name |-> "consumer_id", aliases |-> {}, required |-> TRUE],
    [name |-> "timestamp", aliases |-> {}, required |-> TRUE],
    [name |-> "value_mw", aliases |-> {<<"Consumption", "_", IF unit = "MW" THEN "MW" ELSE "kW">>},
     required |-> TRUE]>>

\* Exactly the three destinations, all required.
ValidatedConsumptionFieldSpecs(specs) ==
  /\ {specs[i].name : i \in DOMAIN specs} = RequiredFields
  /\ Len(specs) = 3
  /\ \A i \in DOMAIN specs : specs[i].required

\* The normalized names a spec answers to.
MatchTargets(spec) == {NormalizeFieldName(n) : n \in spec.aliases \cup {RawName[spec.name]}}

\* A mapping index exists unless a name is blank or belongs to two fields.
BuildMappingIndex(specs) ==
  /\ \A i \in DOMAIN specs : << >> \notin MatchTargets(specs[i])
  /\ \A i, j \in DOMAIN specs : i # j => MatchTargets(specs[i]) \cap MatchTargets(specs[j]) = {}

-------------------------------------------------------------------------------
Resolution(header, status, field, method) ==
  [source |-> NormalizeFieldName(header), status |-> status, field |-> field, method |-> method]

\* The best score of a field over everything it answers to.
Confidence(spec, name) ==
  LET scores == {Ratio(name, target) : target \in MatchTargets(spec)}
  IN  CHOOSE s \in scores : \A other \in scores : other <= s

\* Candidates, best first, equal ones by name (which is the order of the three fields).
RankFuzzyCandidates(specs, name) ==
  LET rank == [consumer_id |-> 1, timestamp |-> 2, value_mw |-> 3]
  IN  SortSeq([i \in DOMAIN specs |->
                 [field |-> specs[i].name, confidence |-> Confidence(specs[i], name)]],
              LAMBDA a, b : \/ a.confidence > b.confidence
                            \/ a.confidence = b.confidence /\ rank[a.field] < rank[b.field])

Credible(ranked) == SelectSeq(ranked, LAMBDA c : c.confidence >= FuzzyThreshold)

IsAmbiguous(credible) ==
  Len(credible) >= 2 /\ credible[1].confidence - credible[2].confidence < AmbiguityMargin

ResolveField(specs, header) ==
  LET name     == NormalizeFieldName(header)
      exact    == {i \in DOMAIN specs : name \in MatchTargets(specs[i])}
      ranked   == RankFuzzyCandidates(specs, name)
      credible == Credible(ranked)
  IN  IF name = << >> THEN Resolution(header, "unresolved", "none", "none")
      ELSE IF exact # {}
        THEN Resolution(header, "resolved", specs[CHOOSE i \in exact : TRUE].name, "exact")
      ELSE IF credible = << >> THEN Resolution(header, "unresolved", "none", "none")
      ELSE IF IsAmbiguous(credible) THEN Resolution(header, "ambiguous", "none", "none")
      ELSE Resolution(header, "resolved", ranked[1].field, "fuzzy")

Columns(resolutions, field) ==
  {i \in DOMAIN resolutions : resolutions[i].status = "resolved" /\ resolutions[i].field = field}

\* The columns in order, the required fields no column has, the fields two columns claim.
ResolveSchema(specs, headers) ==
  LET resolutions == [i \in DOMAIN headers |-> ResolveField(specs, headers[i])]
  IN  [resolutions |-> resolutions,
       missing     |-> {specs[i].name : i \in {k \in DOMAIN specs :
                          specs[k].required /\ Columns(resolutions, specs[k].name) = {}}},
       collisions  |-> {specs[i].name : i \in {k \in DOMAIN specs :
                          \E a, b \in Columns(resolutions, specs[k].name) : a # b}}]

-------------------------------------------------------------------------------
EnergyLastTokens == {"mwh", "kwh", "wh", "w", "hour"}

IsEnergyLike(tokens) ==
  /\ tokens # << >>
  /\ \/ Last(tokens) \in EnergyLastTokens
     \/ Len(tokens) >= 2 /\ SubSeq(tokens, Len(tokens) - 1, Len(tokens)) = <<"mw", "h">>

HeaderClaimsEnergy(tokens, expected) == IsEnergyLike(tokens)   \* mutant: power units are not compared

HeaderClaimsConflictingUnit(tokens, expected) ==
  /\ tokens # << >>
  /\ \/ IsEnergyLike(tokens)
     \/ Last(tokens) \in {"mw", "kw"} \ {expected}

\* A guessed value column must end in the configured unit; a configured one must not
\* claim another.
ApplyHeaderUnitPolicy(r, expected) ==
  LET dropped == [r EXCEPT !.status = "unresolved", !.field = "none", !.method = "none"]
      safe    == IF r.method = "fuzzy"
                 THEN Last(r.source) = expected /\ ~IsEnergyLike(r.source)
                 ELSE ~HeaderClaimsConflictingUnit(r.source, expected)
  IN  IF r.status = "resolved" /\ r.field = "value_mw" /\ ~safe THEN dropped ELSE r

ApplyConsumptionUnitSafety(schema, unit) ==
  LET resolutions == [i \in DOMAIN schema.resolutions |->
                        ApplyHeaderUnitPolicy(schema.resolutions[i], PowerToken[unit])]
  IN  [resolutions |-> resolutions,
       missing     |-> {f \in RequiredFields : Columns(resolutions, f) = {}},
       collisions  |-> {f \in RequiredFields : \E a, b \in Columns(resolutions, f) : a # b}]

\* The last column resolved to a field is the one that is read.
CanonicalColumnIndex(schema) ==
  [f \in {g \in RequiredFields : Columns(schema.resolutions, g) # {}} |->
     CHOOSE i \in Columns(schema.resolutions, f) :
       \A j \in Columns(schema.resolutions, f) : j <= i]
===============================================================================
