CONSTANTS
    Char = {"d", "w"}
    Wide = {"w"}
    MaxInput = 2
    MaxHistory = 3
    U32Max = 7
    Dir <- MCDir
    Entry <- MCEntry
    Meaning <- MCMeaning
    MessageCap = 3
    MessageDrain = 2
    Lines <- MCLines
SPECIFICATION FairClientSpec
INVARIANTS LineHolds TuiTypeOK ScreenMatchesChannel PromptTrue HeardAsSaid
INVARIANTS SummaryTrue
PROPERTIES QuitHonoured BatchFinishes
CHECK_DEADLOCK FALSE
