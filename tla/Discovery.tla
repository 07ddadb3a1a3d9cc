----------------------------- MODULE Discovery -----------------------------
(***************************************************************************)
(* DiscoveryRegistry of core/handshake.go (the discovery.go part): entries *)
(* keyed by agent id with an absolute expiry, a clock, and the eviction    *)
(* loop StartEvictionLoop runs.  Every method holds r.mu for its whole     *)
(* body, so each is one atomic step.                                       *)
(*                                                                         *)
(* The clock counts in units, Second of them to a second.  time.Duration  *)
(* is an int64 of nanoseconds, modelled as a signed DurationBits-bit int   *)
(* so that ttl * time.Second wraps exactly as the Go product does, at a    *)
(* width TLC can reach.  The ghost variable deadline keeps the expiry the  *)
(* TTL asks for in exact arithmetic.                                       *)
(***************************************************************************)
EXTENDS Integers, Sequences

CONSTANTS
    Agents,         \* agent ids
    Profiles,       \* AgentProfiles that may be announced: [agent, did, caps]
    TTLs,           \* ttlSeconds values callers pass (int64)
    Second,         \* time.Second in clock units
    DurationBits,   \* width of time.Duration
    MaxTime,        \* bound on the clock
    Never           \* the zero time.Time: no expiry

VARIABLES
    entries,    \* entries[a]: the registryEntry for agent id a, or None
    now,        \* time.Now()
    loop,       \* the eviction goroutine: "off", "running", "done", "returned"
    deadline    \* ghost: the last instant entries[a] should be readable

vars == <<entries, now, loop, deadline>>

None == [profile |-> "none"]

\* Signed two's-complement wrap to DurationBits bits.
Wrap(x) ==
    LET M == 2 ^ DurationBits  H == 2 ^ (DurationBits - 1)
    IN  ((x + H) % M) - H

\* time.Duration(ttlSeconds) * time.Second.
TTLDuration(ttl) == Wrap(Wrap(ttl) * Second)

\* isExpired: the zero time never expires; otherwise time.Now().After(exp).
isExpired(e) == e.exp # Never /\ now > e.exp

Live(a) == entries[a] # None /\ ~isExpired(entries[a])

\* hasAll(available, required): every required tag is available.
hasAll(available, required) == \A k \in DOMAIN required : required[k] \in available

Init ==
    /\ entries = [a \in Agents |-> None]
    /\ now = 0
    /\ loop = "off"
    /\ deadline = [a \in Agents |-> Never]

\* Mutant: the entry keyed by the profile's DID instead of its agent id.
AnnounceByDID(p, ttl) ==
    /\ entries' = [entries EXCEPT ![p.did] =
                      [profile |-> p,
                       exp |-> IF ttl > 0 THEN now + TTLDuration(ttl) ELSE Never]]
    /\ deadline' = [deadline EXCEPT ![p.did] =
                      IF ttl > 0 THEN now + ttl * Second ELSE Never]
    /\ UNCHANGED <<now, loop>>

\* Announce(profile, ttlSeconds): insert or overwrite; expiry only if ttl > 0.
Announce(p, ttl) ==
    /\ entries' = [entries EXCEPT ![p.agent] =
                      [profile |-> p,
                       exp |-> IF ttl > 0 THEN now + TTLDuration(ttl) ELSE Never]]
    /\ deadline' = [deadline EXCEPT ![p.agent] =
                      IF ttl > 0 THEN now + ttl * Second ELSE Never]
    /\ UNCHANGED <<now, loop>>

\* AnnounceFromMessage: the announcement's fields, its TTL.
AnnounceFromMessage(msg) ==
    Announce([agent |-> msg.agent, did |-> msg.did, caps |-> msg.caps], msg.ttl)

Remove(a) ==
    /\ entries' = [entries EXCEPT ![a] = None]
    /\ deadline' = [deadline EXCEPT ![a] = Never]
    /\ UNCHANGED <<now, loop>>

\* Evict: delete every expired entry.
Evict ==
    /\ entries' = [a \in Agents |-> IF entries[a] # None /\ isExpired(entries[a])
                                      THEN None ELSE entries[a]]
    /\ deadline' = [a \in Agents |-> IF entries'[a] = None THEN Never ELSE deadline[a]]
    /\ UNCHANGED <<now, loop>>

\* StartEvictionLoop spawns the goroutine.
StartEvictionLoop ==
    /\ loop = "off"
    /\ loop' = "running"
    /\ UNCHANGED <<entries, now, deadline>>

\* The loop's select takes a tick: r.Evict().  Once done is closed, select
\* still picks a ready tick at random, so a tick may follow the signal.
LoopTick ==
    /\ loop \in {"running", "done"}
    /\ Evict

\* close(done) by the owner.
CloseDone ==
    /\ loop = "running"
    /\ loop' = "done"
    /\ UNCHANGED <<entries, now, deadline>>

\* The select takes <-done: the goroutine returns.
LoopReturn ==
    /\ loop = "done"
    /\ loop' = "returned"
    /\ UNCHANGED <<entries, now, deadline>>

\* Time passes.
Tick ==
    /\ now < MaxTime
    /\ now' = now + 1
    /\ UNCHANGED <<entries, loop, deadline>>

\* The host announces handshaken peers with TTL 0; announcements from the
\* wire carry the sender's TTL.
Next ==
    \/ \E p \in Profiles : Announce(p, 0)
    \/ \E p \in Profiles, ttl \in TTLs :
          AnnounceFromMessage([agent |-> p.agent, did |-> p.did,
                               caps |-> p.caps, ttl |-> ttl])
    \/ \E a \in Agents : Remove(a)
    \/ Evict
    \/ StartEvictionLoop \/ LoopTick \/ CloseDone \/ LoopReturn
    \/ Tick

\* The ticker keeps firing while the goroutine runs, and select chooses
\* uniformly among ready cases, so neither case is starved.
Fairness == WF_vars(LoopTick) /\ WF_vars(LoopReturn)

Spec == Init /\ [][Next]_vars /\ Fairness

(***************************************************************************)
(* Reads, as the host and the orchestrator use them.                       *)
(***************************************************************************)

\* FindByCapability(required...): live profiles declaring every tag.
FindByCapability(required) ==
    {entries[a].profile : a \in {x \in Agents : Live(x) /\
                                  hasAll(entries[x].profile.caps, required)}}

\* FindByDID: the first live match in map order, i.e. any of them.
FindByDIDChoices(did) ==
    {entries[a].profile : a \in {x \in Agents : Live(x) /\ entries[x].profile.did = did}}

\* All(): every live profile.
AllLive == {entries[a].profile : a \in {x \in Agents : Live(x)}}

(***************************************************************************)
(* Properties.                                                             *)
(***************************************************************************)

IsExpiry(x) == x = Never \/ x \in Int

TypeOK ==
    /\ DOMAIN entries = Agents
    /\ \A a \in Agents :
          entries[a] # None =>
              /\ entries[a].profile \in Profiles /\ entries[a].profile.agent = a
              /\ IsExpiry(entries[a].exp)
    /\ now \in 0..MaxTime
    /\ loop \in {"off", "running", "done", "returned"}
    /\ DOMAIN deadline = Agents /\ \A a \in Agents : IsExpiry(deadline[a])

\* An entry announced with ttlSeconds > 0 is returned by every read until
\* ttlSeconds have passed and by none after (spec.md 4.6, 8: reads never
\* return an expired entry); one announced with TTL 0 never expires.  This
\* relates the expiry Announce computes in time.Duration to the TTL asked
\* for, and isExpired's comparison to the instant of expiry.
TTLHonoured ==
    \A a \in Agents :
        entries[a] # None =>
            (Live(a) <=> (deadline[a] = Never \/ now <= deadline[a]))

=============================================================================
