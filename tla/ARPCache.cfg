CONSTANTS
    self = self
    router = router
    hostA = hostA
    remote = remote
    everyone = everyone
    m1 = m1
    m2 = m2
    m3 = m3
    NoIp = NoIp
    NoMac = NoMac
    Ips <- MCIps
    Macs <- TwoMacs
    FixedMac <- MCFixedMac
    LocalIp = self
    Gateway = router
    AskAge = 1
    MaxRetransmissions = 2
    MaxAge = 3
    Entries = 2
    OnNet <- MCOnNet
SPECIFICATION FairSpec
INVARIANTS
    TypeOK
    AddressesUnique
    HitIsLastHeard
PROPERTIES
    HostsForgottenForAReason
    PendingResolves
