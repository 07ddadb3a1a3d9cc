\* A Byz peer sends an intent claiming the DID of a host's handshake peer.
CONSTANTS
    a = a
    b = b
    m = m
    c1 = c1
    c2 = c2
    NaN = NaN
    MaxTrust = 100
    MaxStreams = 3
    ByzMaySkipSig = TRUE
    Hosts <- MCHosts
    Byz <- MCOneByz
    AgentCaps <- MCAgentCaps
    ReqSeqs <- MCReqSeqs
    ByzDeltas <- MCFiniteDeltas
SPECIFICATION Spec
INVARIANT IntentAuthenticated
