\* A Byz responder must answer with some challenge response.
CONSTANTS
    a = a
    b = b
    m = m
    c1 = c1
    c2 = c2
    NaN = NaN
    MaxTrust = 100
    MaxStreams = 3
    ByzMaySkipSig = FALSE
    Hosts <- MCHosts
    Byz <- MCOneByz
    AgentCaps <- MCAgentCaps
    ReqSeqs <- MCReqSeqs
    ByzDeltas <- MCFiniteDeltas
SPECIFICATION Spec
INVARIANT InitiatorAuthenticates
