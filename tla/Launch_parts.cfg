\* A build that leaves out an entry which another one depends on.
SPECIFICATION Spec
CONSTANTS
    None = None
    Broken = Broken
    anthropic = anthropic
    claude = claude
    gh = gh
    github = github
    opencode = opencode
    router = router
    toad = toad
    bearer = bearer
    plain = plain
    apiHost = apiHost
    gitHost = gitHost
    routerHost = routerHost
    fedora = fedora
    custom = custom
    box = box
    Sorted <- MCSorted
    MaxVerbs = 3
    Bases = {fedora, custom}
    Recognized = {fedora}
    Names = {box}
    Regimes <- MCPartRegimes
INVARIANT
    TagTellsContent
CHECK_DEADLOCK FALSE
