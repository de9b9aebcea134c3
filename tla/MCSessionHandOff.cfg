SPECIFICATION FairSpec
CONSTANTS
    notes = notes
    game = game
    NoApp = NoApp
    Apps = {notes, game}
    Fullscreen = {game}
    MaxFailures = 1
    InboxMax = 6
    Scenarios <- MCScenarios
INVARIANTS
    AnswerMeansDrawn
PROPERTIES
    CleanSwap
    SwapEnds
