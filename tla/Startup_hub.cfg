SPECIFICATION StartupSpec
CONSTANTS
    Absent = Absent
    Broken = Broken
    NoTensor = NoTensor
    Repositories <- MCRepositories
    Launches <- MCLaunches
    Siblings <- MCSiblings
INVARIANTS
    HubLoadsLikeDisk
