CONSTANTS
    files = files
    viewer = viewer
    game = game
    Apps = {files, viewer, game}
    Fullscreen = {game}
    Handlers = {game}
    Settings = {}
    TaskMax = 2
    MaxFailures = 1
    Scenarios <- FullscreenScenario
SPECIFICATION Spec
PROPERTIES DocumentReachesHandler
