------------------------------ MODULE HealthDot ------------------------------
(***************************************************************************)
(* The server's register of live agents, src/pkg/server/healthdot.go: a    *)
(* go-cache with a time to live (agentPool), fed by the agents' heartbeats *)
(* and swept by the cache's janitor goroutine, and the map the dynamic     *)
(* discovery reads (discoverPool), which the janitor's eviction callback   *)
(* cleans after the sweep, one key at a time.                              *)
(*                                                                         *)
(* Heartbeats travel: the RPC of an agent that has since stopped, or has   *)
(* since been upgraded, may still be handled.                              *)
(***************************************************************************)
EXTENDS Naturals

CONSTANTS
    Regions,        \* regions agents report
    IPs,            \* agent addresses
    Versions,       \* agent versions
    Absent          \* no version: the agent is down, or the key is not there

ASSUME AbsentAssumption == Absent \notin Versions

\* report's JoinKey(region, ip): the version is no part of it.
Key == Regions \X IPs

VARIABLES
    running,        \* Key -> the version of the agent process, or Absent
    wire,           \* heartbeats sent and not yet handled, <<key, version>>
    agentPool,      \* Key -> cached version, or Absent
    expired,        \* cached keys whose lifetime is over
    evicted,        \* Key -> version swept by the janitor, callback still to run
    discoverPool,   \* region -> set of ips; a region, once there, stays
    ready           \* the channel updatePool waits on is closed

vars == <<running, wire, agentPool, expired, evicted, discoverPool, ready>>

Cell == [Key -> Versions \cup {Absent}]

TypeOK ==
    /\ running \in Cell
    /\ wire \subseteq Key \X Versions
    /\ agentPool \in Cell
    /\ expired \subseteq {k \in Key : agentPool[k] # Absent}
    /\ evicted \in Cell
    /\ DOMAIN discoverPool \subseteq Regions
    /\ discoverPool \in [DOMAIN discoverPool -> SUBSET IPs]
    /\ ready \in BOOLEAN

Discovered(k) == k[1] \in DOMAIN discoverPool /\ k[2] \in discoverPool[k[1]]

Init ==
    /\ running = [k \in Key |-> Absent]
    /\ wire = {}
    /\ agentPool = [k \in Key |-> Absent]
    /\ expired = {}
    /\ evicted = [k \in Key |-> Absent]
    /\ discoverPool = [r \in {} |-> {}]
    /\ ready = FALSE
-----------------------------------------------------------------------------
(***************************************************************************)
(* The agents                                                              *)
(***************************************************************************)
\* An agent process starts, or restarts upgraded to version v.
Start(k, v) ==
    /\ running[k] # v
    /\ running' = [running EXCEPT ![k] = v]
    /\ UNCHANGED <<wire, agentPool, expired, evicted, discoverPool, ready>>

Stop(k) ==
    /\ running[k] # Absent
    /\ running' = [running EXCEPT ![k] = Absent]
    /\ UNCHANGED <<wire, agentPool, expired, evicted, discoverPool, ready>>

\* agent/healthcheck.go report: a heartbeat leaves.
Heartbeat(k) ==
    /\ running[k] # Absent
    /\ wire' = wire \cup {<<k, running[k]>>}
    /\ UNCHANGED <<running, agentPool, expired, evicted, discoverPool, ready>>
-----------------------------------------------------------------------------
(***************************************************************************)
(* The server                                                              *)
(***************************************************************************)
\* The addition of key k to discoverPool, its region's set made if missing.
WithEntry(k) ==
    [r \in DOMAIN discoverPool \cup {k[1]} |->
        (IF r \in DOMAIN discoverPool THEN discoverPool[r] ELSE {})
            \cup (IF r = k[1] THEN {k[2]} ELSE {})]

\* Mutant of Report: only an agent the cache does not hold is put into
\* discoverPool ("it is there already").
ReportOnlyNew(k, v) ==
    /\ <<k, v>> \in wire
    /\ wire' = wire \ {<<k, v>>}
    /\ agentPool' = [agentPool EXCEPT ![k] = v]
    /\ expired' = expired \ {k}
    /\ discoverPool' = IF agentPool[k] = Absent THEN WithEntry(k) ELSE discoverPool
    /\ ready' = TRUE
    /\ UNCHANGED <<running, evicted>>

\* healthDot.report, one critical section of h.m: the entry is set with a new
\* lifetime, whatever was there, and the agent is put into discoverPool.
Report(k, v) ==
    /\ <<k, v>> \in wire
    /\ wire' = wire \ {<<k, v>>}
    /\ agentPool' = [agentPool EXCEPT ![k] = v]
    /\ expired' = expired \ {k}
    /\ discoverPool' = WithEntry(k)
    /\ ready' = TRUE
    /\ UNCHANGED <<running, evicted>>

\* The lifetime of an entry ends, of a running agent's too: its reports may be
\* late or fail.
Expire(k) ==
    /\ agentPool[k] # Absent
    /\ k \notin expired
    /\ expired' = expired \cup {k}
    /\ UNCHANGED <<running, wire, agentPool, evicted, discoverPool, ready>>

\* The janitor's DeleteExpired: every expired entry leaves the cache in one
\* critical section of the cache's own lock; the callbacks run after it, in
\* the same goroutine, so it sweeps again only when they are done.
Sweep ==
    /\ expired # {}
    /\ \A k \in Key : evicted[k] = Absent
    /\ evicted' = [k \in Key |-> IF k \in expired THEN agentPool[k] ELSE Absent]
    /\ agentPool' = [k \in Key |-> IF k \in expired THEN Absent ELSE agentPool[k]]
    /\ expired' = {}
    /\ UNCHANGED <<running, wire, discoverPool, ready>>

\* Mutants of WithoutEntry: an emptied region goes too; the last ip of a region
\* stays.
WithoutEntryOrRegion(k) ==
    [r \in {r \in DOMAIN discoverPool : r = k[1] => discoverPool[r] # {k[2]}} |->
        discoverPool[r] \ (IF r = k[1] THEN {k[2]} ELSE {})]
WithoutEntryUnlessLast(k) ==
    [r \in DOMAIN discoverPool |->
        IF r = k[1] /\ discoverPool[r] # {k[2]} THEN discoverPool[r] \ {k[2]} ELSE discoverPool[r]]

\* What the callback's delete leaves of discoverPool. Like Go's delete it
\* does nothing when the region or the ip is not there; the region stays.
WithoutEntry(k) ==
    [r \in DOMAIN discoverPool |->
        IF r = k[1] THEN discoverPool[r] \ {k[2]} ELSE discoverPool[r]]

\* The OnEvicted callback of one swept key, whatever was reported since.
OnEvicted(k) ==
    /\ evicted[k] # Absent
    /\ evicted' = [evicted EXCEPT ![k] = Absent]
    /\ discoverPool' = WithoutEntry(k)
    /\ UNCHANGED <<running, wire, agentPool, expired, ready>>

Next ==
    \/ \E k \in Key :
        \/ \E v \in Versions : Start(k, v) \/ Report(k, v)
        \/ Stop(k)
        \/ Heartbeat(k)
        \/ Expire(k)
        \/ OnEvicted(k)
    \/ Sweep

\* The agents' and the cache's tickers keep going and the RPCs are handled;
\* entries nobody refreshes reach the end of their lifetime. Nothing makes an
\* agent start or stop, and nothing makes the entry of a running agent expire.
Fairness ==
    /\ \A k \in Key :
        /\ WF_vars(Heartbeat(k))
        /\ \A v \in Versions : WF_vars(Report(k, v))
        /\ WF_vars(running[k] = Absent /\ Expire(k))
        /\ WF_vars(OnEvicted(k))
    /\ WF_vars(Sweep)

SafeSpec == Init /\ [][Next]_vars
Spec == SafeSpec /\ Fairness
-----------------------------------------------------------------------------
(***************************************************************************)
(* Properties                                                              *)
(***************************************************************************)
\* An agent in discoverPool is in the cache or its eviction callback is still
\* to come: nothing else ever takes it out of discoverPool, so an entry with
\* neither would stay a probe target for good (report and OnEvicted of
\* healthdot.go keep the two maps together).
NoGhost == \A k \in Key : Discovered(k) => agentPool[k] # Absent \/ evicted[k] # Absent

\* When the channel updatePool waits on is closed, its next snapshot is not
\* empty: report writes discoverPool before it closes the channel and the
\* eviction callback keeps the region.
ReadyHasRegion == ready => DOMAIN discoverPool # {}

\* A region once discovered is never forgotten, only emptied: updatePool
\* learns that a region is gone from its empty set (OnEvicted deletes the ip,
\* never the region).
RegionsKept == [][DOMAIN discoverPool \subseteq DOMAIN discoverPool']_vars

\* An agent that stops for good leaves discoverPool for good, late heartbeats
\* and evictions of earlier incarnations included.
DeadForgotten ==
    \A k \in Key : <>[](running[k] = Absent) => <>[]~Discovered(k)

\* An agent that stays up, and whose entry does not expire any more, is in
\* discoverPool from some point on, although the callback of an earlier sweep may
\* take it out after it was back (report puts it in even when the cache has it).
LiveStaysDiscovered ==
    \A k \in Key : <>[](running[k] # Absent /\ k \notin expired) => <>[]Discovered(k)
=============================================================================
