\* Two daemons started at the same time.
SPECIFICATION Spec
CONSTANTS
    None = None
    MaxDaemons = 2
    Clients = {editor}
    Regimes <- MCRace
INVARIANT
    Reachable
CHECK_DEADLOCK FALSE
