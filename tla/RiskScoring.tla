---------------------------- MODULE RiskScoring ----------------------------
(***************************************************************************)
(* How a client and the organization are rated.  The rating of a client is *)
(* computed twice over: by the rules written into the code, and by a       *)
(* methodology that is data, of which the repository ships one, the seed.  *)
(* The organization is rated by rules of its own.  The ratings are         *)
(* functions of the facts f on record of a client and of counts over the   *)
(* other clients; what happens to the client changes one fact at a time.   *)
(*                                                                         *)
(* Factors, weights and bounds are in hundredths: the 8.0 of a factor is   *)
(* 800.  An element, the sum of weight * factor, is then 80000 where the   *)
(* code has 8, and the score of a client 8000000.  Averages and shares are *)
(* rounded down to the hundredth.                                          *)
(***************************************************************************)
EXTENDS Integers, FiniteSets, SequencesExt

CONSTANTS
    Countries, JurisdictionRisk,  \* risk of the countries that are in the reference data
    Home,                         \* "MX"
    HighRiskNationality,          \* the countries the organization's rating knows
    StateRisk,                    \* of the state the clients live in
    Activities, ActivityRisk,     \* risk of the activities that are in the reference data
    PrimaryActivityRisk,          \* of the organization's own activity
    Others,                       \* counts over the other clients of the organization
    Persons, Results, Ages,       \* bounds: the values that are tried
    Operations,                   \* bound: the operations that are tried
    MaxControllers, MaxOperations \* bounds

VARIABLE onRecord  \* what is on record of one client

\* What screening found, from nothing to the worst.
Findings == <<"clear", "flagged", "adverse_media", "sat69b_listed", "ofac_sanctioned">>

Counts == {"clients", "pep", "highRisk", "moralOrTrust", "new", "controllers", "complete",
           "screened", "cash", "payments"}

ASSUME RiskScoringAssumption ==
    /\ DOMAIN JurisdictionRisk \cup HighRiskNationality \cup {Home} \subseteq Countries
    /\ \A c \in DOMAIN JurisdictionRisk : JurisdictionRisk[c] \in 0..900
    /\ DOMAIN ActivityRisk \subseteq Activities
    /\ \A a \in DOMAIN ActivityRisk : ActivityRisk[a] \in 0..900
    /\ {StateRisk, PrimaryActivityRisk} \subseteq 0..900
    /\ Others \in [Counts -> Nat]
    /\ Persons \subseteq {"PHYSICAL", "MORAL", "TRUST"}
    /\ Results \subseteq {Findings[i] : i \in DOMAIN Findings}
    /\ Ages \subseteq Nat /\ 0 \in Ages
    /\ Operations \subseteq [activity : Activities, cash : Nat, payments : Nat, amount : Nat]
    /\ {MaxControllers, MaxOperations} \subseteq Nat

-----------------------------------------------------------------------------
(* Numbers                                                                 *)

AtMost(max, n) == IF n > max THEN max ELSE n
AtLeast(min, n) == IF n < min THEN min ELSE n
Over(table, key, default) == IF key \in DOMAIN table THEN table[key] ELSE default

\* What the code divides is compared without rounding.
Ratio(n, d) == [num |-> n, den |-> d]
Whole(n) == Ratio(n, 1)
Above(ratio, n) == ratio.num > n * ratio.den

clampScore(score) == AtLeast(0, AtMost(9000000, score))

scoreToRiskLevel(score) ==
    CASE score < 3000000 -> "LOW"
      [] score >= 3000000 /\ score < 5000000 -> "MEDIUM_LOW"
      [] score >= 5000000 /\ score < 7000000 -> "MEDIUM"
      [] score >= 7000000 -> "HIGH"

riskLevelToDDLevel(level) ==
    [LOW |-> "SIMPLIFIED", MEDIUM_LOW |-> "STANDARD", MEDIUM |-> "STANDARD",
     HIGH |-> "ENHANCED"][level]

riskLevelToReviewMonths(level) == [LOW |-> 12, MEDIUM_LOW |-> 6, MEDIUM |-> 3, HIGH |-> 1][level]

-----------------------------------------------------------------------------
(* What is read of a client: buildRiskInput                                *)

totalOps(f) == Len(f.operations)
cashPayments(f) == SumFunction([i \in DOMAIN f.operations |-> f.operations[i].cash])
totalAmount(f) == SumFunction([i \in DOMAIN f.operations |-> f.operations[i].amount])
activityCodes(f) == {f.operations[i].activity : i \in DOMAIN f.operations}
hasCrossBorderOps(f) == f.country # Home
countryRisk(f) == Over(JurisdictionRisk, f.country, 200)

\* Operations per month since the first, which is taken to be as old as the client; the
\* current month counts as one.
avgFrequency(f) ==
    IF totalOps(f) = 0 THEN Whole(0) ELSE Ratio(totalOps(f), AtLeast(1, f.months))

averageActivity(codes) ==
    IF codes = {} THEN 300
    ELSE SumFunction([a \in codes |-> Over(ActivityRisk, a, 300)]) \div Cardinality(codes)

\* Both ratings weigh the mitigants alike; no counterparty counts as regulated.
mitigantEffect(f) ==
    30 * (IF f.kyc THEN 100 ELSE -50)
    + 25 * (IF f.docs THEN 80 ELSE 0)
    + 20 * (CASE f.months > 24 -> 60 [] f.months \in 13..24 -> 30 [] f.months < 13 -> 0)

Residual(f, inherent) == clampScore(clampScore(inherent) - 100 * mitigantEffect(f))

-----------------------------------------------------------------------------
(* The rules in the code                                                   *)

Step(ratio, bounds, scores) ==
    scores[1 + Cardinality({i \in DOMAIN bounds : Above(ratio, bounds[i])})]

\* Who is on no list but flagged is so for what else was found.
scoreClientElement(f) ==
    25 * (IF f.pep THEN 800 ELSE 0)
    + 15 * countryRisk(f)
    + 10 * [PHYSICAL |-> 200, MORAL |-> 500, TRUST |-> 700][f.person]
    + 25 * Over([ofac_sanctioned |-> 900, sat69b_listed |-> 800, adverse_media |-> 600,
                 flagged |-> 500], f.listed, 0)
    + 10 * AtMost(900, 150 * f.bc)
    + 15 * Step(Whole(f.months), <<5, 11>>, <<600, 400, 100>>)

\* The codes of the operations' states are cut from postal codes: none is a state's.
scoreGeographicElement(f) ==
    30 * StateRisk + 25 * 300 + 25 * (IF hasCrossBorderOps(f) THEN 600 ELSE 0)
    + 20 * countryRisk(f)

scoreActivityElement(f) ==
    60 * averageActivity(activityCodes(f)) + 40 * AtMost(600, 100 * Cardinality(activityCodes(f)))

\* No operation counts as near a threshold or made for a third party.
scoreTransactionElement(f) ==
    25 * (IF totalOps(f) = 0 THEN 0 ELSE AtMost(900, (900 * cashPayments(f)) \div totalOps(f)))
    + 15 * Step(avgFrequency(f), <<5, 10, 20>>, <<100, 300, 500, 700>>)
    + 15 * Step(Whole(totalAmount(f)), <<100000, 1000000, 10000000>>, <<200, 400, 600, 800>>)

calculateLegacy(f) ==
    Residual(f, 30 * scoreClientElement(f) + 20 * scoreGeographicElement(f)
                + 25 * scoreActivityElement(f) + 25 * scoreTransactionElement(f))

-----------------------------------------------------------------------------
(* The methodology that is data: SYSTEM_DEFAULT_METHODOLOGY                *)

Factor(weight, type, source, maps) ==
    [weight |-> weight, factorType |-> type, dataSource |-> source, scoreMaps |-> maps]
From(min, max, score) == [min |-> min, max |-> max, score |-> score]

\* The end of ranges that nothing tried reaches: 999999 operations a month, or
\* 999999999999 pesos.
Unbounded == 100000000

ClientFactors == <<
    Factor(25, "BOOLEAN", "isPep", [true |-> 800, false |-> 0]),
    Factor(15, "LOOKUP", "countryCode", 200),
    Factor(10, "ENUM", "personType", [TRUST |-> 700, MORAL |-> 500, PHYSICAL |-> 200]),
    Factor(25, "ENUM", "screeningResult",
      [ofac_sanctioned |-> 900, sat69b_listed |-> 800, adverse_media |-> 600, flagged |-> 500,
       clear |-> 0]),
    Factor(10, "NUMERIC_RANGE", "bcCount",
      <<From(0, 0, 0), From(100, 200, 300), From(300, 400, 600), From(500, 99900, 900)>>),
    Factor(15, "NUMERIC_RANGE", "monthsSinceCreation",
      <<From(0, 500, 600), From(600, 1100, 400), From(1200, 99900, 100)>>)>>

GeographyFactors == <<
    Factor(30, "LOOKUP", "clientStateCode", 300),
    Factor(25, "LOOKUP", "operationStateCodes", 300),
    Factor(25, "BOOLEAN", "hasCrossBorderOps", [true |-> 600, false |-> 0]),
    Factor(20, "LOOKUP", "countryCode", 200)>>

ProductFactors == <<
    Factor(60, "LOOKUP", "activityCodes", 300),
    Factor(40, "NUMERIC_RANGE", "activityCodeCount",
      <<From(0, 100, 100), From(200, 300, 300), From(400, 500, 500), From(600, 99900, 600)>>)>>

\* The volume is in thousands.
TransactionFactors == <<
    Factor(25, "NUMERIC_RANGE", "cashRatio",
      <<From(0, 10, 100), From(10, 30, 300), From(30, 60, 500), From(60, 100, 800)>>),
    Factor(25, "NUMERIC_RANGE", "nearThresholdRatio",
      <<From(0, 5, 0), From(5, 15, 300), From(15, 40, 600), From(40, 100, 900)>>),
    Factor(20, "NUMERIC_RANGE", "thirdPartyRatio",
      <<From(0, 5, 0), From(5, 20, 300), From(20, 50, 600), From(50, 100, 900)>>),
    Factor(15, "NUMERIC_RANGE", "avgFrequencyPerMonth",
      <<From(0, 500, 100), From(500, 1000, 300), From(1000, 2000, 500),
        From(2000, Unbounded, 700)>>),
    Factor(15, "NUMERIC_RANGE", "totalAmountThousands",
      <<From(0, 10000, 200), From(10000, 100000, 400), From(100000, 1000000, 600),
        From(1000000, Unbounded, 800)>>)>>

Threshold(level, min, max, dd, months) ==
    [riskLevel |-> level, minScore |-> min, maxScore |-> max, ddLevel |-> dd,
     reviewMonths |-> months]

Seed == [
    categories |-> [CLIENTS |-> [weight |-> 30, factors |-> ClientFactors],
                    GEOGRAPHY |-> [weight |-> 20, factors |-> GeographyFactors],
                    PRODUCTS |-> [weight |-> 25, factors |-> ProductFactors],
                    TRANSACTIONS |-> [weight |-> 25, factors |-> TransactionFactors]],
    thresholds |-> <<Threshold("LOW", 0, 3000000, "SIMPLIFIED", 12),
                     Threshold("MEDIUM_LOW", 3000000, 5000000, "STANDARD", 6),
                     Threshold("MEDIUM", 5000000, 7000000, "STANDARD", 3),
                     Threshold("HIGH", 7000000, 9000000, "ENHANCED", 1)>>]

-----------------------------------------------------------------------------
(* ... and how a methodology is applied: calculateWithMethodology          *)

\* Numbers are in hundredths; the flags of the lists are one value, listed.
dataBag(f) == [
    isPep |-> f.pep,
    countryCode |-> f.country,
    personType |-> f.person,
    screeningResult |-> IF f.listed \in {"clear", "pending"} THEN f.listed ELSE "flagged",
    listed |-> f.listed,
    bcCount |-> Ratio(100 * f.bc, 1),
    monthsSinceCreation |-> Ratio(100 * f.months, 1),
    hasCrossBorderOps |-> hasCrossBorderOps(f),
    activityCodes |-> activityCodes(f),
    activityCodeCount |-> Ratio(100 * Cardinality(activityCodes(f)), 1),
    cashRatio |-> Ratio(100 * cashPayments(f), AtLeast(1, totalOps(f))),
    nearThresholdRatio |-> Ratio(0, 1),
    thirdPartyRatio |-> Ratio(0, 1),
    avgFrequencyPerMonth |-> Ratio(100 * avgFrequency(f).num, avgFrequency(f).den),
    totalAmountThousands |-> Ratio(totalAmount(f), 10)]

Hits(ranges, value) ==
    {i \in DOMAIN ranges : /\ value.num >= ranges[i].min * value.den
                            /\ value.num <= ranges[i].max * value.den}

\* Fault: a value beyond the ranges scores as the first of them.
NumericRangeOrFirst(ranges, value) ==
    LET hits == Hits(ranges, value) IN ranges[IF hits = {} THEN 1 ELSE Min(hits)].score

\* The first range that has the value, its ends included; beyond all of them, the last.
evaluateNumericRange(ranges, value) ==
    LET hits == Hits(ranges, value) IN
        ranges[IF hits = {} THEN Len(ranges) ELSE Min(hits)].score

\* Fault: the result is looked up as it is, whatever list the client is on.
EnumOfColumn(factor, bag) == Over(factor.scoreMaps, bag[factor.dataSource], 0)

\* What screening found is made out from the flags of the lists before the result.
evaluateEnum(factor, bag) ==
    IF factor.dataSource = "screeningResult"
    THEN factor.scoreMaps[IF bag.listed = "pending" THEN "clear" ELSE bag.listed]
    ELSE Over(factor.scoreMaps, bag[factor.dataSource], 0)

evaluateLookup(factor, bag) ==
    CASE factor.dataSource = "countryCode" ->
           Over(JurisdictionRisk, bag.countryCode, factor.scoreMaps)
      [] factor.dataSource = "clientStateCode" -> StateRisk
      [] factor.dataSource = "operationStateCodes" -> factor.scoreMaps
      [] factor.dataSource = "activityCodes" -> averageActivity(bag.activityCodes)

evaluateFactor(factor, bag) ==
    CASE factor.factorType = "BOOLEAN" ->
           factor.scoreMaps[IF bag[factor.dataSource] THEN "true" ELSE "false"]
      [] factor.factorType = "ENUM" -> evaluateEnum(factor, bag)
      [] factor.factorType = "NUMERIC_RANGE" ->
           evaluateNumericRange(factor.scoreMaps, bag[factor.dataSource])
      [] factor.factorType = "LOOKUP" -> evaluateLookup(factor, bag)

\* The weights of the factors of a category of the seed add up to one.
scoreCategoryDynamic(category, bag) ==
    SumFunction([i \in DOMAIN category.factors |->
                   category.factors[i].weight
                     * AtLeast(0, AtMost(900, evaluateFactor(category.factors[i], bag)))])

\* The first threshold the score is below the end of; beyond all of them, the last.
findThreshold(thresholds, score) ==
    LET hits == {i \in DOMAIN thresholds :
                   score >= thresholds[i].minScore /\ score < thresholds[i].maxScore}
    IN  thresholds[IF hits = {} THEN Len(thresholds) ELSE Min(hits)]

maxRiskLevel(levels) ==
    LET order == <<"LOW", "MEDIUM_LOW", "MEDIUM", "HIGH">>
    IN  order[Max({i \in DOMAIN order : order[i] \in levels})]

\* Of the levels of the client, of its elements and of whether it is a PEP.
buildDDProfile(overall, element, isPep) ==
    LET DD(levels) == riskLevelToDDLevel(maxRiskLevel(levels))
    IN  [overall |-> DD({overall}),
         acceptance |-> DD({overall, element.CLIENTS}),
         ongoingMonitoring |->
           IF isPep \/ element.GEOGRAPHY = "HIGH" THEN "ENHANCED"
           ELSE DD({overall, element.TRANSACTIONS}),
         reviewFrequency |-> DD({element.GEOGRAPHY, element.TRANSACTIONS}),
         reporting |-> DD({overall})]

\* An element is a hundredth of a score.
calculateWithMethodology(methodology, f) ==
    LET bag == dataBag(f)
        Element(c) == scoreCategoryDynamic(methodology.categories[c], bag)
        element == [CLIENTS |-> Element("CLIENTS"), GEOGRAPHY |-> Element("GEOGRAPHY"),
                    PRODUCTS |-> Element("PRODUCTS"), TRANSACTIONS |-> Element("TRANSACTIONS")]
        score == Residual(f, SumFunction([c \in DOMAIN element |->
                                            methodology.categories[c].weight * element[c]]))
        Of(n) == findThreshold(methodology.thresholds, n)
        threshold == Of(score)
    IN  [score |-> score,
         riskLevel |-> threshold.riskLevel,
         dueDiligenceLevel |-> threshold.ddLevel,
         nextReviewMonths |-> threshold.reviewMonths,
         ddProfile |-> buildDDProfile(threshold.riskLevel,
                         [c \in DOMAIN element |-> Of(100 * element[c]).riskLevel], f.pep)]

-----------------------------------------------------------------------------
(* The rating of the organization                                          *)

\* buildOrgInput: the client and the others.
OrgCounts(f) ==
    LET mine == [clients |-> 1,
                 pep |-> IF f.pep THEN 1 ELSE 0,
                 highRisk |-> IF f.country \in HighRiskNationality THEN 1 ELSE 0,
                 moralOrTrust |-> IF f.person = "PHYSICAL" THEN 0 ELSE 1,
                 new |-> IF f.months < 6 THEN 1 ELSE 0,
                 controllers |-> f.bc,
                 complete |-> IF f.kyc THEN 1 ELSE 0,
                 screened |-> IF f.listed = "pending" THEN 0 ELSE 1,
                 cash |-> cashPayments(f),
                 payments |-> SumFunction([i \in DOMAIN f.operations |-> f.operations[i].payments])]
    IN  [k \in Counts |-> mine[k] + Others[k]]

\* The share n of d, of 9.
Share(n, d) == (900 * n) \div AtLeast(1, d)

evaluateClientElement(n) ==
    25 * Share(n.pep, n.clients) + 20 * Share(n.highRisk, n.clients)
    + 15 * Share(n.moralOrTrust, n.clients) + 20 * Share(n.new, n.clients)
    + 20 * AtMost(900, (250 * n.controllers) \div n.clients)

\* What else could count is constant: no anonymity, nothing done at a distance.
evaluateProductElement(n) ==
    40 * PrimaryActivityRisk + 25 * Share(n.cash, n.payments) + 20 * 100

evaluateTransactionElement(n) == 30 * Share(n.cash, n.payments)

\* What a control takes off, or, when there is none, adds; four of them are constants.
Mitigant(maxEffect, n, d) ==
    IF n = 0 THEN -(maxEffect \div 2) ELSE (maxEffect * n) \div d

evaluateMitigants(n) ==
    Mitigant(800000, n.complete, n.clients) + Mitigant(700000, n.screened, n.clients)
    + Mitigant(600000, 5, 10) + Mitigant(500000, 5, 10) + Mitigant(400000, 3, 10)
    + Mitigant(500000, 5, 10)

\* The element of geography is always 0: no operation is found in a state of high risk.
calculateOrgRisk(f) ==
    LET n == OrgCounts(f)
        inherent == 30 * evaluateClientElement(n) + 25 * evaluateProductElement(n)
                    + 25 * evaluateTransactionElement(n)
    IN  clampScore(clampScore(inherent) - evaluateMitigants(n))

-----------------------------------------------------------------------------
(* What happens to the client                                              *)

ScoringInit ==
    \E p \in Persons, c \in Countries :
        onRecord = [person |-> p, country |-> c, pep |-> FALSE, listed |-> "pending", bc |-> 0,
                 months |-> 0, kyc |-> FALSE, docs |-> FALSE, operations |-> <<>>]

\* PATCH of the country; the client is searched for again.
Save == \E c \in Countries : onRecord' = [onRecord EXCEPT !.country = c, !.listed = "pending"]

\* A search, a callback or a rescan says what it found.
Screened == \E result \in Results : onRecord' = [onRecord EXCEPT !.listed = result]

FoundPep == onRecord' = [onRecord EXCEPT !.pep = TRUE]

Controllers ==
    \E n \in {onRecord.bc - 1, onRecord.bc + 1} \cap (0..MaxControllers) :
        onRecord' = [onRecord EXCEPT !.bc = n]

\* Sections and documents of the client's file are completed and removed.
File == \E kyc, docs \in BOOLEAN : onRecord' = [onRecord EXCEPT !.kyc = kyc, !.docs = docs]

TimePasses ==
    \E n \in Ages : n > onRecord.months /\ onRecord' = [onRecord EXCEPT !.months = n]

Operate ==
    \/ /\ totalOps(onRecord) < MaxOperations
       /\ \E o \in Operations : onRecord' = [onRecord EXCEPT !.operations = Append(@, o)]
    \/ \E i \in DOMAIN onRecord.operations, o \in Operations :
         onRecord' = [onRecord EXCEPT !.operations[i] = o]
    \/ \E i \in DOMAIN onRecord.operations : onRecord' = [onRecord EXCEPT !.operations = RemoveAt(@, i)]

ScoringNext ==
    \/ Save \/ Screened \/ FoundPep \/ Controllers \/ File \/ TimePasses \/ Operate

ScoringSpec == ScoringInit /\ [][ScoringNext]_onRecord

-----------------------------------------------------------------------------
(* Properties                                                              *)

\* g is the same client with the same operations as f, and all that differs is worse.
Worse(f, g) ==
    /\ f.pep => g.pep
    /\ g.kyc => f.kyc
    /\ g.docs => f.docs
    /\ g.bc >= f.bc
    /\ g.months = f.months
    /\ \/ g.listed = f.listed
       \/ \E i, j \in DOMAIN Findings : i < j /\ f.listed = Findings[i] /\ g.listed = Findings[j]
    /\ \/ g.country = f.country
       \/ /\ g.country # Home
          /\ countryRisk(g) >= countryRisk(f)
          /\ f.country \in HighRiskNationality => g.country \in HighRiskNationality
    /\ DOMAIN g.operations = DOMAIN f.operations
    /\ \A i \in DOMAIN f.operations :
         LET o == f.operations[i] p == g.operations[i] IN
           /\ p.activity = o.activity /\ p.payments = o.payments
           /\ p.cash >= o.cash /\ p.amount >= o.amount

DDRank(level) == CASE level = "SIMPLIFIED" -> 1 [] level = "STANDARD" -> 2 [] level = "ENHANCED" -> 3

\* A client of which something worse is found is not rated lower for it, watched less in any
\* respect or reviewed later, and the organization is not rated lower either: not where one
\* range ends and the next begins, and not beyond the last.
WorseNotLower ==
    [][Worse(onRecord, onRecord') =>
         LET old == calculateWithMethodology(Seed, onRecord)
             new == calculateWithMethodology(Seed, onRecord')
         IN  /\ new.score >= old.score
             /\ new.nextReviewMonths <= old.nextReviewMonths
             /\ \A k \in DOMAIN old.ddProfile : DDRank(new.ddProfile[k]) >= DDRank(old.ddProfile[k])
             /\ calculateLegacy(onRecord') >= calculateLegacy(onRecord)
             /\ calculateOrgRisk(onRecord') >= calculateOrgRisk(onRecord)]_onRecord

\* The seed rates a client as the rules in the code do, up to what its ranges round: at most
\* 0.07 lower and 0.32 higher; and what follows from a score is the same by either.
SeedNear ==
    LET seed == calculateWithMethodology(Seed, onRecord)
        gap == seed.score - calculateLegacy(onRecord)
        level == scoreToRiskLevel(seed.score)
    IN  /\ gap >= -70000 /\ gap <= 320000
        /\ seed.riskLevel = level
        /\ seed.dueDiligenceLevel = riskLevelToDDLevel(level)
        /\ seed.nextReviewMonths = riskLevelToReviewMonths(level)
=============================================================================
