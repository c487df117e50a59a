\* A connection on which the client closes its session.
SPECIFICATION Spec
CONSTANTS
    None = None
    claude = claude
    codex = codex
    opus = opus
    haiku = haiku
    MaxRequests = 4
    Agents <- MCAgents
    Models <- MCOneModel
    Rosters <- MCFullRosters
    Ops = {"new", "pick", "prompt", "close"}
    Selectors = {"category"}
    CancelsInFlight = TRUE
CHECK_DEADLOCK FALSE
INVARIANT NothingLeftBehind
