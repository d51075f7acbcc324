SPECIFICATION Spec
CONSTANTS
    MaxModelCalls = 4
    MaxCritiqueRounds = 1
    MaxToolCalls = 4
    MaxConsults = 2
    MaxRoomConsults = 3
    MaxCallsPerStep = 2
    EntityProposals = TRUE
    Critic = Critic
    Drafter = Drafter
    NoOne = NoOne
    Architect = Architect
    Menu <- FullMenu
    LateMenu <- CriticLast
INVARIANTS
    RoomNeverRequiresAProposal
CHECK_DEADLOCK FALSE
