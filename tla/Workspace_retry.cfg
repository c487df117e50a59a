\* A checkout that fails on a new task.
SPECIFICATION WorkspaceSpec
CONSTANTS
    Absent = Absent
    main = main
    topic = topic
    lost = lost
    MaxLaunches = 2
    MaxCommits = 2
    RemoteBranches = {main, topic}
    Default = main
    Wanted <- MCWanted
    Failures = {"checkout"}
INVARIANT MarkerKeptForRetry
CHECK_DEADLOCK FALSE
