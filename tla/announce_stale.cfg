\* Two hosts and a Byz peer m that handshakes with host a while a's own
\* Handshake to m is in flight: each goroutine caches its profile for m
\* and then reads ah.known[m] again, unlocked, to announce it.
CONSTANTS
    a = a
    b = b
    m = m
    c1 = c1
    c2 = c2
    NaN = NaN
    MaxTrust = 100
    MaxStreams = 2
    ByzMaySkipSig = TRUE
    Hosts <- MCHosts
    Byz <- MCOneByz
    AgentCaps <- MCAgentCaps
    ReqSeqs <- MCReqSeqs
    ByzDeltas <- MCFiniteDeltas
SPECIFICATION Spec
PROPERTY AnnouncesCachedProfile
