SPECIFICATION Spec
CONSTANTS
    MaxPlanNodes = 4
    SharedCtes = TRUE
    PlanNodes <- MCPlanNodes
    Root = 1
    NoNode = 0
    Plans <- MCPlans
    MaxNodes = 3
INVARIANTS
    TypeOK
    ListingIsPrefix
    CollectedFromOwnNode
    CollectReachesAll
