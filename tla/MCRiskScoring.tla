-------------------------- MODULE MCRiskScoring --------------------------
(* Instances of RiskScoring.                                               *)
EXTENDS RiskScoring

MCJurisdictionRisk == [PRK |-> 900]
MCActivityRisk == [VEH |-> 600]
MCOthers == [clients |-> 1, pep |-> 0, highRisk |-> 0, moralOrTrust |-> 1, new |-> 0,
             controllers |-> 1, complete |-> 0, screened |-> 1, cash |-> 1, payments |-> 2]

\* Two payments in cash are more than the one operation they are made for.
MCOperations ==
    [activity : {"VEH"}, cash : {0, 2}, payments : {2}, amount : {1000000, 10000001}]
    \cup [activity : {"OTR"}, cash : {0}, payments : {1}, amount : {100000}]
=============================================================================
