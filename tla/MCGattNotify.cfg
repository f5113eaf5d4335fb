CONSTANTS
    MaxLinks = 2
    MaxChallenges = 2
    CancelCapacity = 1
SPECIFICATION FairSpec
INVARIANTS ReadyHasHandler FlagExactWithoutOverlap NoTriggerLost
PROPERTIES ToldInOrder CancelsInOrder TriggerReachesWatch SendCancelReturns
\* no more links are made, and no more challenges drawn
CHECK_DEADLOCK FALSE
