\* Two hosts and a Byz peer that may answer with any trust_delta in
\* {-1.0, +1.0}, weak fairness on every goroutine of a host: the default
\* negotiation policy between hosts, every score in [0, 1] after any
\* interleaving, mutual discovery after a handshake, and the end of every
\* exchange between hosts whatever the Byz peer does.
CONSTANTS
    a = a
    b = b
    m = m
    c1 = c1
    c2 = c2
    NaN = NaN
    MaxTrust = 100
    MaxStreams = 2
    ByzMaySkipSig = TRUE
    Hosts <- MCHosts
    Byz <- MCOneByz
    AgentCaps <- MCAgentCaps
    ReqSeqs <- MCReqSeqs
    ByzDeltas <- MCFiniteDeltas
SPECIFICATION Spec
INVARIANT TypeOK
INVARIANT NegotiationSound
INVARIANT TrustInRange
PROPERTY HandshakeMutualDiscovery
PROPERTY HostExchangesEnd
