\* Every request but close_session: one binding per connection.
SPECIFICATION Spec
CONSTANTS
    None = None
    claude = claude
    codex = codex
    opus = opus
    haiku = haiku
    MaxRequests = 4
    Agents <- MCAgents
    Models <- MCModels
    Rosters <- MCFullRosters
    Ops = {"new", "pick", "prompt", "option"}
    Selectors = {"none", "category"}
    CancelsInFlight = TRUE
INVARIANTS
    TypeOK
    OneLiveBackend
    NothingLeftBehind
    LastPickWins
    ForwardsToBoundAgent
    BoundFramesNamespaced
PROPERTIES
    ImplementsBinding
    AgentNeverSwitches
    ResetLosesNothing
CHECK_DEADLOCK FALSE
