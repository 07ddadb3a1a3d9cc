\* A Byz initiator claims another agent's DID with that agent's public key.
CONSTANTS
    a = a
    b = b
    m = m
    c1 = c1
    c2 = c2
    NaN = NaN
    MaxTrust = 100
    MaxStreams = 2
    ByzMaySkipSig = TRUE
    Hosts <- MCHosts
    Byz <- MCOneByz
    AgentCaps <- MCAgentCaps
    ReqSeqs <- MCReqSeqs
    ByzDeltas <- MCFiniteDeltas
SPECIFICATION Spec
INVARIANT ResponderAuthenticates
