\* p2 accepts the intent stream and never replies: the per-step timeout
\* does not end the step, and RunWorkflow never returns.
CONSTANTS
    p1 = p1
    p2 = p2
    c1 = c1
    c2 = c2
    s1 = s1
    s2 = s2
    NaN = NaN
    Never = Never
    MaxTrust = 100
    Peers <- MCPeers
    Silent <- MCSilentP2
    AgentCaps <- MCAgentCaps
    Steps <- MCSteps
SPECIFICATION Spec
PROPERTY WorkflowReturns
