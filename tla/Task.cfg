\* Up to three verbs: the files alone, the image verbs, the containers; and three
\* launches on one workspace, with everything that may go wrong.
SPECIFICATION MCSpec
CONSTANTS
    None = None
    Broken = Broken
    anthropic = anthropic
    claude = claude
    gh = gh
    github = github
    opencode = opencode
    router = router
    toad = toad
    bearer = bearer
    plain = plain
    apiHost = apiHost
    gitHost = gitHost
    routerHost = routerHost
    fedora = fedora
    custom = custom
    box = box
    Sorted <- MCSorted
    MaxVerbs = 3
    Bases = {fedora, custom}
    Recognized = {fedora}
    Names = {box}
    Regimes <- MCRegimes
    Absent = Absent
    main = main
    topic = topic
    lost = lost
    MaxLaunches = 3
    MaxCommits = 2
    RemoteBranches = {main, topic}
    Default = main
    Wanted <- MCWanted
    Failures = {"copy", "cut", "setUrl", "checkout", "reset", "network"}
INVARIANTS
    TypeOK
    NothingMissing
    LoginStarts
    SelectionClosed
    CredentialsShadowed
    ExposedReachable
    Supervised
    AfterRm
    WorkspaceTypeOK
    OriginIsCodeRepo
    NewTaskStartsFresh
PROPERTY
    WorkSurvives
CHECK_DEADLOCK FALSE
