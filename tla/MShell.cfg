SPECIFICATION Spec
CONSTANTS
    Parts = {"frames", "editor", "input", "windows", "scene", "messages", "characters"}
    i1 = i1
    i2 = i2
    Images = {i1, i2}
    NoImage = NoImage
    MaxFramesInFlight = 2
    NoFence = NoFence
    large = large
    small = small
    Sizes = {large, small}
    Minimised = Minimised
    NoSize = NoSize
    MaxFailures = 1
    MaxChanges = 2
    s1 = s1
    Shaders = {s1}
    MaxEvents = 3
    Blank = {1}
    MaxLine = 2
    Inputs <- MCInputs
    FirstText <- MCFirstText
    PanelRows = 1
    MaxLength = 3
    MaxInputs = 2
    MaxMoves = 1
    cube = cube
    ball = ball
    editor = editor
    Things = {cube, ball}
    Editor = editor
    Nothing = Nothing
    w = w
    MoveKeys = {w}
    main = main
    tool = tool
    Windows = {main, tool}
    Panes = {main, tool}
    NoPane = Nothing
    h1 = h1
    h2 = h2
    Handlers = {h1, h2}
    Listeners <- MCListeners
    MaxUnits = 2
    MaxBinds = 3
    Flows <- SceneFlows
    EarlyFlows = {"init"}
    ExitCode <- SceneExits
    Wants <- SceneWants
    PoolSize = 2
    MaxImages = 3
    MaxAtlas = 2
INVARIANTS
    RecordingIsExclusive
    FramesAndSceneAreSound
    TextIsDrawn
    ClicksFindCharacters
    InputArrives
PROPERTIES
    EditsAndWindowsGetThrough
\* A swapchain half set up is used, an exception leaves a handler, and the
\* last window is closed: the program ends.
CHECK_DEADLOCK FALSE
