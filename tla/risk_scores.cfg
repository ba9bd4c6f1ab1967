SPECIFICATION ScoringSpec
CONSTANTS
    Countries = {"MX", "PRK"}
    JurisdictionRisk <- MCJurisdictionRisk
    Home = "MX"
    HighRiskNationality = {"PRK"}
    StateRisk = 500
    Activities = {"VEH", "OTR"}
    ActivityRisk <- MCActivityRisk
    PrimaryActivityRisk = 600
    Others <- MCOthers
    Persons = {"MORAL"}
    Results = {"flagged", "ofac_sanctioned"}
    Ages = {0, 13}
    Operations <- MCOperations
    MaxControllers = 3
    MaxOperations = 2
INVARIANT
    SeedNear
PROPERTY
    WorseNotLower
