CONSTANTS
    Plugins = {p1}
    Pids = {c1, c2}
    MaxStartup = 1
    MaxInterval = 2
    Stranger = Stranger
    None = None
SPECIFICATION Spec
INVARIANTS
    TypeOK
    OneProcess
    TracksItsOwnIfCalm
PROPERTIES
    UnfitIsStoppedIfCalm
    EnabledIsRunningIfCalm
