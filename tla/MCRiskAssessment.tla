------------------------- MODULE MCRiskAssessment -------------------------
(* Instances of RiskAssessment.                                            *)
EXTENDS RiskAssessment

CONSTANTS c1, w1, w2
=============================================================================
