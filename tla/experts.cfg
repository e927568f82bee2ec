\* Three batches of each kind in any order, a second one queued behind the first.
SPECIFICATION Spec
CONSTANTS
    NumLayers = 3
    NumExperts = 2
    Banks = {"weight", "scale"}
    SmallBanks = {"scale"}
    Sizes <- MCSizes
    InitialSize = 6
    HitD2D = TRUE
    MaxFetch = 1
    Routings <- MCRoutings
    MaxBatches = 3
    None = None
INVARIANTS
    GemmReadsItsExperts
    StreamsNeverRace
    ResidencyIsTrue
