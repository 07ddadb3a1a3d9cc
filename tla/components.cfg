\* The registry alone: two agents, TTLs of 0, 1 and 2 seconds, a clock of
\* three seconds, Announce, Remove, Evict and the eviction loop.  The
\* orchestrator alone: two honest peers, a two-step workflow, handshakes at
\* any time; results are complete and the workflow returns.  Framing alone:
\* writeMsg, a spec 4.3 writer or an arbitrary writer against readMsg on one
\* stream; readMsg agrees with Unframe and reads back what Frame wrote, the
\* receiver decodes the message that was encoded, and a frame within the
\* bound is read.  Signing alone: two agents, one-character randomIDs,
\* attacker IDs and challenges of two; signatures are sound and complete.
\* Ranking: cosine over every input of MCRanking.  The bus alone: a1 on the
\* default handler, a2 on the Picoclaw bridge, one caller and the
\* registrar; every call returns.  The Logger alone: two goroutines and a
\* clock of three seconds.  ParseDID over every string of up to seven
\* characters, against the did:<method>:<id> grammar.
CONSTANTS
    a1 = a1
    a2 = a2
    c1 = c1
    c2 = c2
    p1 = p1
    p2 = p2
    s1 = s1
    s2 = s2
    NaN = NaN
    Never = Never
    MaxTrust = 100
    Agents <- MCAgents
    Profiles <- MCProfiles
    TTLs <- MCTTLs
    Second = 2
    DurationBits = 8
    MaxTime = 6
    Peers <- MCPeers
    Silent <- MCNoSilent
    AgentCaps <- MCAgentCaps
    Steps <- MCSteps
    Msgs <- MCMsgs
    Sigs <- MCSigs
    ByteVals <- MCByteVals
    MaxWire = 7
    MaxFrame <- MCMaxFrame
    Attacker = Attacker
    k1 = k1
    k2 = k2
    i1 = i1
    r9 = r9
SPECIFICATION CSpec
INVARIANT RegistryTypeOK
INVARIANT ResultsComplete
PROPERTY WorkflowReturns
INVARIANT TypeOK
INVARIANT ReadMsgDecodes
INVARIANT CodecRoundTrip
PROPERTY HonestFrameRead
INVARIANT SigningTypeOK
INVARIANT SignaturesSound
INVARIANT CosineSpec
PROPERTY CallsReturn
INVARIANT ParseDIDMatchesGrammar
