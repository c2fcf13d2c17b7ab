\* Every check on its own and three pairs, on a target with the flaw and one
\* without; the three phases, two extraordinary answers in each discover(); three
\* scope files, four command lines, six plans of a check of another package.
SPECIFICATION Spec
CONSTANTS
    Params <- MCParams
    Payloads <- MCPayloads
    Paths <- MCPaths
    Logouts <- MCLogouts
    Files <- MCFiles
    CommandLines <- MCCommandLines
    Registries <- MCRegistries
    Plans <- MCPlans
    Callers <- MCCallers
    Passes = 3
    MaxOdd = 2
INVARIANTS
    TypeOK
    FlawIsFound
    NoFalseAlarm
    OneFindingPerPlace
    NoMassLogout
    RankingKept
PROPERTIES
    SentWithConsent
    NoDestructionUnasked
    OnlyReadsUnlessActive
    FailureSaysNothing
    RestsOnBaseline
