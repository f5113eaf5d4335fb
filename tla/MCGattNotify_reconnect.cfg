\* The watch loses its link and comes back before a notification has failed.
CONSTANTS
    MaxLinks = 2
    MaxChallenges = 1
    CancelCapacity = 1
SPECIFICATION Spec
INVARIANT SubscribedIsReady
CHECK_DEADLOCK FALSE
