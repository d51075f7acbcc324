SPECIFICATION FairSpec
CONSTANTS
    MaxModelCalls = 4
    MaxCritiqueRounds = 1
    MaxToolCalls = 3
    MaxConsults = 1
    MaxRoomConsults = 2
    MaxCallsPerStep = 3
    EntityProposals = TRUE
    Critic = Critic
    Drafter = Drafter
    NoOne = NoOne
    Architect = Architect
    Menu <- FullMenu
    LateMenu <- CriticLast
INVARIANTS
    TypeOK
    BudgetAccounted
    EveryCallAnsweredOnce
    NoWordlessReply
    ReviewsComeLast
PROPERTIES
    ImplementsMeter
    RunEnds
    SpecialistsStop
CHECK_DEADLOCK FALSE
