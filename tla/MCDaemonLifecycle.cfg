SPECIFICATION DaemonSpec
INVARIANTS
    ServingIsAdvertised
    OnlyUncleanEndsLeak
    StaleSocketIsHarmless
