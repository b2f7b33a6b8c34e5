SPECIFICATION FairSpec
CONSTANTS
    Launchers = {l1, l2}
    Other = other
    None = none
INVARIANTS TypeOK NoOrphan ReadyIsOwn
PROPERTY LauncherDecides
CHECK_DEADLOCK FALSE
