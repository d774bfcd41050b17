SPECIFICATION MCSpec
CONSTANTS
    Atoi <- MCAtoi
    Containers <- MCContainers
    Loopback4 <- MCLoopback4
    OtherAddresses <- MCOtherAddresses
    MaxDisturbances = 2
INVARIANTS ResolvesLikeNode DumpsWhatItSelected RefusalIsTrue
CHECK_DEADLOCK FALSE
