SPECIFICATION FairSpec
CONSTANTS
    p = p
    q = q
    a = a
    b = b
    Points <- MCPoints
    Origin = p
    FADE = 1
    TICK = 1
    Keys <- MCKeys
    MaxSegs = 2
    MaxKeys = 2
INVARIANTS SegmentsAccounted ReleasesMatchPresses
PROPERTIES ImplementsPhosphor SegmentsAreFreed KeysAreReleased
