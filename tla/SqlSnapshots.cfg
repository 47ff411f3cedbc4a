SPECIFICATION SqlSpec
CONSTANTS
    Engines = {"postgres", "mysql", "sqlite"}
    Targets = {"home", "away"}
    MaxFaults = 1
    MaxDisturb = 1
CHECK_DEADLOCK FALSE
INVARIANTS RowsAreRestored ConnectionsAreClean
PROPERTIES RestoreEnds
