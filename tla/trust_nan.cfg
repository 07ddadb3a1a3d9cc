\* A Byz responder may put a NaN trust_delta on the wire.
CONSTANTS
    a = a
    b = b
    m = m
    c1 = c1
    c2 = c2
    NaN = NaN
    MaxTrust = 100
    MaxStreams = 2
    ByzMaySkipSig = TRUE
    Hosts <- MCHosts
    Byz <- MCOneByz
    AgentCaps <- MCAgentCaps
    ReqSeqs <- MCReqSeqs
    ByzDeltas <- MCNaNDeltas
SPECIFICATION Spec
INVARIANT TrustInRange
