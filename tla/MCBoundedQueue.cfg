\* Three consumers and two slots: overflow, stealing, timeouts and shutdown.  A
\* requested capacity of 0 selects the default.
CONSTANTS
    c1 = c1
    c2 = c2
    c3 = c3
    Consumers = {c1, c2, c3}
    RequestedCapacity = 0
    DefaultCapacity = 2
    MaxPush = 6
SPECIFICATION FairSpec
INVARIANTS
    Accounting
    NoLostWakeup
PROPERTIES
    ShutdownReleases
    SleeperOrItemGoes
    TimedCallsReturn
    ImplementsChannel
