CONSTANTS
    a1 = a1
    a2 = a2
    NoAddress = NoAddress
    Addresses <- MCAddresses
    MaxDisruptions <- MCMaxDisruptions
    HeartbeatOn = TRUE
SPECIFICATION Spec
INVARIANT LateSubscriberGetsHeader
