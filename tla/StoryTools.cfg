SPECIFICATION Spec
CONSTANTS
    Headings <- MCHeadings
    MaxOps = 2
    MaxContent = 14
    MaxResultChars = 16
    ItemLadder <- MCItemLadder
    Ellipsis = 2
    Mark = 1
    CharWidth <- MCCharWidth
    OffsetWidth <- MCOffsetWidth
    NullWidth = 2
    Story <- MCStory
    Drafts <- MCDrafts
    NewIds = {"n1", "n2"}
    Names = {"Ana", "Ben"}
    MaxProposals = 2
    MaxEntityEdits = 1
    Contents <- MCContents
    Titles <- MCTitles
    Edits <- MCEdits
    Texts <- MCTexts
    PageSizes = {1, 9}
    WindowSizes = {2, 5}
    Rosters <- MCRosters
    RowCounts <- MCRowCounts
    MaxEditions = 3
    FetchLimit = 5
    Loads <- MCLoads
INVARIANTS
    EditsLandWhereRead
    ListingsHold
    RosterNeverSilent
    ProposalsStandAlone
PROPERTIES
    PagesTile
CHECK_DEADLOCK FALSE
