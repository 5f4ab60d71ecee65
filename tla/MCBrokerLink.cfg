CONSTANTS
    a1 = a1
    a2 = a2
    NoAddress = NoAddress
    Addresses <- MCAddresses
    MaxDisruptions <- MCMaxDisruptions
    HeartbeatOn = TRUE
SPECIFICATION FairSpec
INVARIANTS
    TypeOK
    EveryDisconnectIsFollowedUp
    ClientFollowsUri
    OnlineIsBackedByWill
    AtMostOneLateHeartbeat
PROPERTIES
    ReconnectsForGood
    ShownOnlineForGood
