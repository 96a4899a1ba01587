SPECIFICATION ServicesSpec
CONSTANTS
    MaxLives = 2
    MaxPolls = 1
    Feeder = feeder
    Others = {feeder}
    WatcherSize = 1
INVARIANTS
    ServicesTypeOK
    SamplesCounted
PROPERTIES
    ProcessGoesOn
    MonitorsEnd
CHECK_DEADLOCK FALSE
