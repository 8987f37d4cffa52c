SPECIFICATION Spec
CONSTANTS
    Calls <- AllCalls
    History <- OneChain
    Heights = {2, 3, 4, 5}
    PAGE_LIMIT = 2
    MAX_SIGNATURES = 3
INVARIANTS
    AnswersAreComplete
    AnswersAreOrdered
PROPERTIES
    EveryCallReturns
