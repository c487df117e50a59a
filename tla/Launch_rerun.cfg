\* A second run of a name whose container was kept, and a start of that container.
SPECIFICATION Spec
CONSTANTS
    None = None
    Broken = Broken
    anthropic = anthropic
    claude = claude
    gh = gh
    github = github
    opencode = opencode
    router = router
    toad = toad
    bearer = bearer
    plain = plain
    apiHost = apiHost
    gitHost = gitHost
    routerHost = routerHost
    fedora = fedora
    custom = custom
    box = box
    Sorted <- MCSorted
    MaxVerbs = 3
    Bases = {fedora, custom}
    Recognized = {fedora}
    Names = {box}
    Regimes <- MCRerunRegimes
INVARIANT
    OwnSupervisor
CHECK_DEADLOCK FALSE
