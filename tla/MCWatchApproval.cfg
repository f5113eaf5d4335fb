SPECIFICATION FairSpec
CONSTANTS
    MaxTasks = 2
    MaxChallenges = 2
    MaxTaps = 2
INVARIANTS
    TypeOK
    ApprovalReachable
    SignedByItsOwnTap
    CancelledIsNotSigned
    NoticeOfDecidedCloses
PROPERTIES
    ChallengesEnd
