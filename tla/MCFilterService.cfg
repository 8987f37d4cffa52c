SPECIFICATION Spec
CONSTANTS
    WordBits = 4
    Scenarios <- AllScenarios
INVARIANTS
    ExpressionMeansItsTokens
    ComparisonsAgree
    MatchesAreDocumented
    EvidenceIsReal
    VariablesComeFromTheMatch
CHECK_DEADLOCK FALSE
