SPECIFICATION FairSpec
CONSTANTS
    may = may
    jun = jun
    jazz = jazz
    rock = rock
    ann = ann
    bob = bob
    String = {may, jun, jazz, rock, ann, bob}
    Dates = {may, jun}
    Holders = {ann}
    Events <- MCEvents
    MaxTaps = 2
    MaxFaults = 1
INVARIANTS
    TypeOK
    NothingIsShown
    CompletesTwiceWithError
PROPERTIES
    ConversionCompletes
CHECK_DEADLOCK FALSE
