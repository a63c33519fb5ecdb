--------------------------- MODULE HealthProofs -----------------------------
(***************************************************************************)
(* The safety of HealthDot for every set of regions, addresses and         *)
(* versions: type correctness, the facts that tie the discovery map to the *)
(* cache and to the ready channel; that HealthGauge, with its lock and its *)
(* callback in two halves, implements HealthDot; and that the register is  *)
(* an environment the target pool may assume (Discovery implements         *)
(* TargetsPool), so that what is proved of the pool alone holds of the     *)
(* pool fed by real heartbeats and evictions.                              *)
(***************************************************************************)
EXTENDS HealthGauge, Discovery, TLAPS

USE AbsentAssumption

\* The two writers of discoverPool change one key's membership and no other.
LEMMA WithEntryAdds ==
    ASSUME TypeOK, NEW k \in Key
    PROVE  /\ DOMAIN WithEntry(k) = DOMAIN discoverPool \cup {k[1]}
           /\ WithEntry(k) \in [DOMAIN WithEntry(k) -> SUBSET IPs]
           /\ DOMAIN WithEntry(k) \subseteq Regions
           /\ \A j \in Key : (j[1] \in DOMAIN WithEntry(k) /\ j[2] \in WithEntry(k)[j[1]])
                                => Discovered(j) \/ j = k
    BY DEF TypeOK, WithEntry, Key, Discovered

LEMMA WithoutEntryRemoves ==
    ASSUME TypeOK, NEW k \in Key
    PROVE  /\ DOMAIN WithoutEntry(k) = DOMAIN discoverPool
           /\ WithoutEntry(k) \in [DOMAIN WithoutEntry(k) -> SUBSET IPs]
           /\ \A j \in Key : (j[1] \in DOMAIN WithoutEntry(k) /\ j[2] \in WithoutEntry(k)[j[1]])
                                => Discovered(j) /\ j # k
    BY DEF TypeOK, WithoutEntry, Key, Discovered

\* Every reachable state is well formed: the cache, the pending evictions and
\* the discovery map of healthdot.go hold what their Go types allow.
THEOREM TypeCorrect == SafeSpec => []TypeOK
<1>1. Init => TypeOK
  BY DEF Init, TypeOK, Cell
<1>2. TypeOK /\ [Next]_vars => TypeOK'
  <2> SUFFICES ASSUME TypeOK, [Next]_vars PROVE TypeOK'
    OBVIOUS
  <2>1. ASSUME NEW k \in Key, NEW v \in Versions, Start(k, v) PROVE TypeOK'
    BY <2>1 DEF TypeOK, Cell, Start
  <2>2. ASSUME NEW k \in Key, NEW v \in Versions, Report(k, v) PROVE TypeOK'
    <3>1. /\ DOMAIN discoverPool' \subseteq Regions
          /\ discoverPool' \in [DOMAIN discoverPool' -> SUBSET IPs]
      BY <2>2, WithEntryAdds DEF Report
    <3>2. agentPool' \in Cell
      BY <2>2 DEF TypeOK, Cell, Report
    <3>3. expired' \subseteq {j \in Key : agentPool'[j] # Absent}
      BY <2>2 DEF TypeOK, Cell, Report
    <3>4. QED
      BY <2>2, <3>1, <3>2, <3>3 DEF TypeOK, Report
  <2>3. ASSUME NEW k \in Key, Stop(k) PROVE TypeOK'
    BY <2>3 DEF TypeOK, Cell, Stop
  <2>4. ASSUME NEW k \in Key, Heartbeat(k) PROVE TypeOK'
    <3>1. running[k] \in Versions
      BY <2>4 DEF TypeOK, Cell, Heartbeat
    <3>2. QED
      BY <2>4, <3>1 DEF TypeOK, Cell, Heartbeat
  <2>5. ASSUME NEW k \in Key, Expire(k) PROVE TypeOK'
    BY <2>5 DEF TypeOK, Cell, Expire
  <2>6. ASSUME NEW k \in Key, OnEvicted(k) PROVE TypeOK'
    <3>1. /\ DOMAIN discoverPool' \subseteq Regions
          /\ discoverPool' \in [DOMAIN discoverPool' -> SUBSET IPs]
      BY <2>6, WithoutEntryRemoves DEF OnEvicted, TypeOK
    <3>2. evicted' \in Cell
      BY <2>6 DEF TypeOK, Cell, OnEvicted
    <3>3. QED
      BY <2>6, <3>1, <3>2 DEF TypeOK, OnEvicted
  <2>7. CASE Sweep
    BY <2>7 DEF TypeOK, Cell, Sweep
  <2>8. CASE UNCHANGED vars
    BY <2>8 DEF TypeOK, Cell, vars
  <2>9. QED
    BY <2>1, <2>2, <2>3, <2>4, <2>5, <2>6, <2>7, <2>8 DEF Next
<1>3. QED
  BY <1>1, <1>2, PTL DEF SafeSpec

\* No agent stays in discoverPool without a cache entry or a pending eviction,
\* however the janitor's sweeps, its callbacks and the heartbeats interleave.
THEOREM NoGhostAlways == SafeSpec => []NoGhost
<1>1. Init => NoGhost
  BY DEF Init, NoGhost, Discovered
<1>2. TypeOK /\ NoGhost /\ [Next]_vars => NoGhost'
  <2> SUFFICES ASSUME TypeOK, NoGhost, [Next]_vars, NEW j \in Key, Discovered(j)'
               PROVE  agentPool'[j] # Absent \/ evicted'[j] # Absent
    BY DEF NoGhost
  <2>1. ASSUME NEW k \in Key, NEW v \in Versions, Report(k, v)
        PROVE  agentPool'[j] # Absent \/ evicted'[j] # Absent
    <3>1. Discovered(j) \/ j = k
      BY <2>1, WithEntryAdds DEF Report, Discovered
    <3>2. agentPool'[k] = v /\ \A i \in Key \ {k} : agentPool'[i] = agentPool[i]
      BY <2>1 DEF Report, TypeOK, Cell
    <3>3. v # Absent
      OBVIOUS
    <3>4. QED
      BY <2>1, <3>1, <3>2, <3>3 DEF Report, NoGhost
  <2>2. ASSUME NEW k \in Key, OnEvicted(k)
        PROVE  agentPool'[j] # Absent \/ evicted'[j] # Absent
    <3>1. Discovered(j) /\ j # k
      BY <2>2, WithoutEntryRemoves DEF OnEvicted, Discovered
    <3>2. QED
      BY <2>2, <3>1 DEF OnEvicted, TypeOK, Cell, NoGhost
  <2>3. CASE Sweep
    <3>1. Discovered(j) /\ evicted[j] = Absent
      BY <2>3 DEF Sweep, Discovered
    <3>2. agentPool[j] # Absent
      BY <3>1 DEF NoGhost
    <3>3. QED
      BY <2>3, <3>2 DEF Sweep
  <2>4. ASSUME UNCHANGED <<agentPool, evicted, discoverPool>>
        PROVE  agentPool'[j] # Absent \/ evicted'[j] # Absent
    BY <2>4 DEF Discovered, NoGhost
  <2>5. QED
    BY <2>1, <2>2, <2>3, <2>4 DEF Next, vars, Start, Stop, Heartbeat, Expire
<1>3. QED
  BY <1>1, <1>2, TypeCorrect, PTL DEF SafeSpec

\* The channel updatePool waits on is closed only after a region is in the
\* discovery map, and the region is still there afterwards.
THEOREM ReadyHasRegionAlways == SafeSpec => []ReadyHasRegion
<1>1. Init => ReadyHasRegion
  BY DEF Init, ReadyHasRegion
<1>2. TypeOK /\ ReadyHasRegion /\ [Next]_vars => ReadyHasRegion'
  <2> SUFFICES ASSUME TypeOK, ReadyHasRegion, [Next]_vars, ready'
               PROVE  DOMAIN discoverPool' # {}
    BY DEF ReadyHasRegion
  <2>1. ASSUME NEW k \in Key, NEW v \in Versions, Report(k, v) PROVE DOMAIN discoverPool' # {}
    BY <2>1, WithEntryAdds DEF Report
  <2>2. ASSUME NEW k \in Key, OnEvicted(k) PROVE DOMAIN discoverPool' # {}
    BY <2>2, WithoutEntryRemoves DEF OnEvicted, ReadyHasRegion
  <2>3. CASE UNCHANGED <<discoverPool, ready>>
    BY <2>3 DEF ReadyHasRegion
  <2>4. QED
    BY <2>1, <2>2, <2>3 DEF Next, vars, Start, Stop, Heartbeat, Expire, Sweep
<1>3. QED
  BY <1>1, <1>2, TypeCorrect, PTL DEF SafeSpec

\* A region never leaves the discovery map.
THEOREM RegionsAreKept == SafeSpec => RegionsKept
<1>1. TypeOK /\ [Next]_vars => [DOMAIN discoverPool \subseteq DOMAIN discoverPool']_vars
  <2> SUFFICES ASSUME TypeOK, [Next]_vars
               PROVE  DOMAIN discoverPool \subseteq DOMAIN discoverPool'
    OBVIOUS
  <2>1. ASSUME NEW k \in Key, NEW v \in Versions, Report(k, v)
        PROVE  DOMAIN discoverPool \subseteq DOMAIN discoverPool'
    BY <2>1, WithEntryAdds DEF Report
  <2>2. ASSUME NEW k \in Key, OnEvicted(k)
        PROVE  DOMAIN discoverPool \subseteq DOMAIN discoverPool'
    BY <2>2, WithoutEntryRemoves DEF OnEvicted
  <2>3. QED
    BY <2>1, <2>2 DEF Next, vars, Start, Stop, Heartbeat, Expire, Sweep
<1>2. QED
  BY <1>1, TypeCorrect, PTL DEF SafeSpec, RegionsKept

\* The register with its mutex, dot's scan and the two halves of the eviction
\* callback implements HealthDot: every step is a step of it or leaves its
\* variables alone. What is proved of HealthDot holds of HealthGauge.
THEOREM GaugeImplements == GaugeSafeSpec => SafeSpec
<1>1. GaugeInit => Init
  BY DEF GaugeInit
<1>2. [GaugeNext]_allVars => [Next]_vars
  <2> SUFFICES ASSUME [GaugeNext]_allVars PROVE Next \/ UNCHANGED vars
    OBVIOUS
  <2>1. ASSUME NEW k \in Key, NEW v \in Versions, LockedReport(k, v) PROVE Next
    BY <2>1 DEF LockedReport, Next
  <2>2. CASE Unlocked
    BY <2>2 DEF Unlocked, Next
  <2>3. ASSUME NEW k \in Key, CallbackDelete(k) PROVE Next
    BY <2>3 DEF CallbackDelete, Next
  <2>4. ASSUME NEW k \in Key, CallbackGauge(k) PROVE UNCHANGED vars
    BY <2>4 DEF CallbackGauge
  <2>5. ASSUME NEW s \in Series, DotSet(s) PROVE UNCHANGED vars
    BY <2>5 DEF DotSet
  <2>6. CASE DotBegin \/ DotEnd \/ UNCHANGED allVars
    BY <2>6 DEF DotBegin, DotEnd, allVars
  <2>7. QED
    BY <2>1, <2>2, <2>3, <2>4, <2>5, <2>6 DEF GaugeNext
<1>3. QED
  BY <1>1, <1>2, PTL DEF GaugeSafeSpec, SafeSpec

\* Also with the mutex and the two-step callback no ghost stays behind.
THEOREM GaugeNoGhost == GaugeSafeSpec => []NoGhost
  BY GaugeImplements, NoGhostAlways, PTL
-----------------------------------------------------------------------------
\* Every step of the register is a step the pool's environment may take.
LEMMA RegisterIsEnv ==
    ASSUME TypeOK, Next
    PROVE  (\E r \in Regions, ip \in IPs :
                \/ /\ discoverPool' = TP!With(discoverPool, r,
                        {ip} \cup (IF r \in DOMAIN discoverPool THEN discoverPool[r] ELSE {}))
                   /\ ready' = TRUE
                \/ /\ r \in DOMAIN discoverPool
                   /\ discoverPool' = [discoverPool EXCEPT ![r] = @ \ {ip}]
                   /\ ready' = ready)
           \/ UNCHANGED <<discoverPool, ready>>
<1>1. ASSUME NEW k \in Key, NEW v \in Versions, Report(k, v)
      PROVE  /\ discoverPool' = TP!With(discoverPool, k[1],
                    {k[2]} \cup (IF k[1] \in DOMAIN discoverPool THEN discoverPool[k[1]] ELSE {}))
             /\ ready' = TRUE
             /\ k[1] \in Regions /\ k[2] \in IPs
  BY <1>1 DEF Report, WithEntry, TP!With, Key
<1>2. ASSUME NEW k \in Key, OnEvicted(k), k[1] \in DOMAIN discoverPool
      PROVE  /\ discoverPool' = [discoverPool EXCEPT ![k[1]] = @ \ {k[2]}]
             /\ ready' = ready
             /\ k[1] \in Regions /\ k[2] \in IPs
  BY <1>2 DEF OnEvicted, WithoutEntry, Key, TypeOK
<1>3. ASSUME NEW k \in Key, OnEvicted(k), k[1] \notin DOMAIN discoverPool
      PROVE  UNCHANGED <<discoverPool, ready>>
  BY <1>3 DEF OnEvicted, WithoutEntry, TypeOK
<1>4. QED
  BY <1>1, <1>2, <1>3 DEF Next, Start, Stop, Heartbeat, Expire, Sweep

\* HealthDot runs inside Discovery undisturbed.
LEMMA DiscoveryHasRegister == DiscoverySafeSpec => SafeSpec
<1>1. DiscoveryInit => Init
  BY DEF DiscoveryInit
<1>2. [DiscoveryNext]_discoveryVars => [Next]_vars
  BY DEF DiscoveryNext, discoveryVars, Sync
<1>3. QED
  BY <1>1, <1>2, PTL DEF DiscoverySafeSpec, SafeSpec

\* Discovery implements TargetsPool: heartbeats, sweeps and eviction callbacks,
\* in any order, do to the discovery map only what the pool's environment may.
THEOREM PoolEnvironmentKept == DiscoverySafeSpec => PoolSafeSpec
<1>1. DiscoveryInit => TP!Init
  BY DEF DiscoveryInit, Init, TP!Init
<1>2. TypeOK /\ [DiscoveryNext]_discoveryVars => [TP!Next]_TP!vars
  <2> SUFFICES ASSUME TypeOK, [DiscoveryNext]_discoveryVars
               PROVE  TP!Next \/ UNCHANGED TP!vars
    OBVIOUS
  <2>1. CASE Next /\ UNCHANGED <<serverVars, targets>>
    <3>1. UNCHANGED TP!poolVars
      BY <2>1 DEF serverVars, TP!poolVars
    <3>2. CASE UNCHANGED <<discoverPool, ready>>
      BY <3>1, <3>2 DEF TP!vars, TP!envVars
    <3>3. CASE \E r \in Regions, ip \in IPs : TP!Discover(r, ip) \/ TP!Undiscover(r, ip)
      BY <3>3 DEF TP!Next, TP!Env
    <3>4. QED
      BY <2>1, <3>1, <3>2, <3>3, RegisterIsEnv DEF TP!Discover, TP!Undiscover
  <2>2. CASE TP!PoolNext
    BY <2>2 DEF TP!Next
  <2>3. ASSUME NEW r \in Regions, Sync(r) PROVE UNCHANGED TP!vars
    BY <2>3 DEF Sync, vars, serverVars, TP!vars, TP!envVars, TP!poolVars
  <2>4. CASE UNCHANGED discoveryVars
    BY <2>4 DEF discoveryVars, vars, serverVars, TP!vars, TP!envVars, TP!poolVars
  <2>5. QED
    BY <2>1, <2>2, <2>3, <2>4 DEF DiscoveryNext
<1>3. DiscoverySafeSpec => []TypeOK
  BY DiscoveryHasRegister, TypeCorrect, PTL
<1>4. QED
  BY <1>1, <1>2, <1>3, PTL DEF DiscoverySafeSpec, PoolSafeSpec, TP!SafeSpec
=============================================================================
