\* Every request, with close_session: what still holds.
SPECIFICATION FairSpec
CONSTANTS
    None = None
    claude = claude
    codex = codex
    opus = opus
    haiku = haiku
    MaxRequests = 4
    Agents <- MCOneAgent
    Models <- MCOneModel
    Rosters <- MCFullRosters
    Ops = {"new", "pick", "prompt", "close"}
    Selectors = {"category"}
    CancelsInFlight = FALSE
INVARIANT
    BindExclusive
PROPERTY
    EveryRequestAnswered
CHECK_DEADLOCK FALSE
