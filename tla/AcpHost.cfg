\* Three daemons for one socket path, in every surrounding; two sessions, three
\* agents of the label, one rotation of the credentials; one wrapper with every
\* list of options it may advertise.
SPECIFICATION MCSpec
CONSTANTS
    None = None
    MaxDaemons = 3
    Clients = {editor}
    Regimes <- MCRegimes
    Label <- MCLabel
    Wrapped <- MCWrapped
    MaxModels = 2
    MaxSessions = 2
    MaxRotations = 1
    Words <- MCWords
    Agent = claude
    Sep = Sep
    Advertisements <- MCAdvertisements
    claude = claude
    gh = gh
    codex = codex
    azure = azure
    opus = opus
    haiku = haiku
INVARIANTS
    TypeOK
    ReachableWhenSettled
    LitterIsFromKills
    RosterTypeOK
    ListsEveryResponsive
    InLabelOrder
    PickNamesTheModel
PROPERTIES
    EndsWithContainer
    EverySessionAnswered
CHECK_DEADLOCK FALSE
