\* Signing with no handshake signatures: the concatenation alone lets a
\* signed intent verify as a response and a response as an intent.
CONSTANTS
    a1 = a1
    a2 = a2
    c1 = c1
    Attacker = Attacker
    Agents <- MCAgents
    Hex <- MCHex
    IDLen = 1
    Payloads <- MCPayloads
    Caps <- MCCaps
    AgentCaps <- MCAgentCaps
    ReasonAll <- MCReasonAll
    ReasonMissing <- MCReasonMissing
    MaxLen = 2
    MaxSigned = 3
    SignsChallenges = FALSE
SPECIFICATION Spec
INVARIANT SignedFieldsAuthentic
