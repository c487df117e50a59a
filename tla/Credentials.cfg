\* Two processes that run jobs of any kind on the files of one provider.
SPECIFICATION Spec
CONSTANTS
    None = None
    Processes = {p1, p2}
    Layouts = {"top", "table"}
    Regimes <- MCRegimes
    Logins = {l1, l2, l3}
INVARIANTS
    TypeOK
    RoutedAfterLaunch
    UserSettingsKept
    UnroutedAfterDisable
    ExposedNotInVault
PROPERTY
    UserRouteSurvivesDisable
SYMMETRY MCSymmetry
