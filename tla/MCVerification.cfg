SPECIFICATION Spec
CONSTANTS
    MaxEntries = 2
    MaxEvents = 3
    Delta = 2
    MaxDuration = 7
    Nil = Nil
    Unreadable = Unreadable
    h1 = h1
    h2 = h2
    Trajectories <- NearTrajectories
    GroundTruths <- NearGroundTruths
INVARIANTS
    TypeOK
    OneToOne
    EveryoneClassified
    PairedWithClosest
    UnwitnessedJustified
    FaithfulSound
    WithinDelta
    HonestNotAccused
PROPERTIES
    ImplementsAssignment
