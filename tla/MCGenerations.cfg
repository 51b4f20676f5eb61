\* Two starts and a shutdown, two lifetimes each; Home may never answer.
CONSTANTS
    MaxGeneration = 2
    MaxLifetime = 2
    MaxConfig = 2
CHECK_DEADLOCK FALSE
SPECIFICATION FairSpec
INVARIANTS
    GenerationsInv
PROPERTIES
    NoCommitAfterReplacement
    FailedDrainEndsService
    ShutdownReturns
    ConfigsAreTaken
