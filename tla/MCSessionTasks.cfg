CONSTANTS
    files = files
    viewer = viewer
    game = game
    Apps = {files, viewer, game}
    Fullscreen = {game}
    Handlers = {files, viewer}
    Settings = {game}
    TaskMax = 2
    MaxFailures = 1
    Scenarios <- MCScenarios
SPECIFICATION FairSpec
INVARIANTS RegistryOK LaunchHasOwner DocumentOK
PROPERTIES OperationEnds
