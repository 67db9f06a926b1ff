CONSTANTS
    MaxRuns = 2
    MaxHeight = 2
    QueryNonce = 1
    SampleNetwork = "platon_dev"
    AgentNetwork = "platon_prod"
    Contracts = {c1}
    Profiles <- SmallProfiles
    MaxBlock = 3
    MaxTx = 2
    MaxFault = 1
    MaxFail = 2
    MaxBefore = 2
SPECIFICATION Spec
INVARIANTS
    QueryPrintsTheTable
    PrintedAddressIsRight
    FacadeIsThere
    TypesAreRight
    TokenOrTracked
    ViewsAgree
PROPERTIES
    EmittingTokenIsFound
CHECK_DEADLOCK FALSE
