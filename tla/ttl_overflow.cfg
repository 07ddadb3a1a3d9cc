\* time.Duration narrowed to 4 bits: a TTL of 5 s overflows ttl * time.Second
\* and the entry is expired the moment it is announced.
CONSTANTS
    a1 = a1
    a2 = a2
    c1 = c1
    c2 = c2
    Agents <- MCAgents
    Profiles <- MCProfiles
    TTLs <- MCHugeTTLs
    Second = 2
    DurationBits = 4
    MaxTime = 6
    Never = Never
SPECIFICATION Spec
INVARIANT TTLHonoured
