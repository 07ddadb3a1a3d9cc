\* Two hosts send each other an intent at the same time.
CONSTANTS
    a = a
    b = b
    m = m
    c1 = c1
    c2 = c2
    NaN = NaN
    MaxTrust = 100
    MaxStreams = 2
    ByzMaySkipSig = TRUE
    Hosts <- MCHosts
    Byz <- MCNoByz
    AgentCaps <- MCAgentCaps
    ReqSeqs <- MCReqSeqs
    ByzDeltas <- MCNoDeltas
SPECIFICATION Spec
PROPERTY TrustSerialised
