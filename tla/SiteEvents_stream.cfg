SPECIFICATION FairSpec
CONSTANTS
    Events <- FourEvents
    Allowed <- AllButThree
    BufferSize = 1
    ReplayLimit = 2
INVARIANTS TypeOK InOrderOnce NoGap
PROPERTIES NotifyDrains
