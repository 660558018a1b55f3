\* Four snapshots, polled and posted by another thread; a ring buffer of three and
\* charts of two.
CONSTANTS
    Samples <- TheSamples
    Loads = {0, 50}
    Meminfos <- TheMeminfos
    CORES = 2
    BARS = 2
    PAGES = 2
    MAX_RING_BUFFER_SIZE = 3
    MAX_POINTS = 2
    MaxPosts = 4
SPECIFICATION Spec
INVARIANTS
    ViewsAgree
    ChartsFollowRing
    InspectorShowsRow
PROPERTIES
    PostedIsShown
