----------------------------- MODULE HealthGauge -----------------------------
(***************************************************************************)
(* HealthDot with the steps its critical sections hide: the mutex h.m, the *)
(* dot goroutine that sets agent_is_alive to 1 for every cached agent from *)
(* a snapshot of the cache, and the eviction callback, which sets the      *)
(* series to 0 BEFORE it takes h.m and deletes.  It implements HealthDot   *)
(* (PROPERTY Spec).                                                        *)
(***************************************************************************)
EXTENDS HealthDot

CONSTANTS Dot, Free     \* who holds h.m for longer than one step

ASSUME HolderAssumption == Dot # Free

VARIABLES
    lock,       \* h.m: Dot while dot scans, Free otherwise
    scan,       \* <<key, version>> of dot's snapshot still to be set to 1
    zeroed,     \* keys whose callback has set 0 and waits for h.m (at most one)
    gauge       \* agent_is_alive: <<key, version>> -> Absent (no series), 0, 1

gaugeVars == <<lock, scan, zeroed, gauge>>
allVars == <<vars, gaugeVars>>

Series == Key \X Versions

GaugeTypeOK ==
    /\ TypeOK
    /\ lock \in {Dot, Free}
    /\ scan \subseteq Series
    /\ zeroed \subseteq {k \in Key : evicted[k] # Absent}
    /\ gauge \in [Series -> {Absent, 0, 1}]

GaugeInit ==
    /\ Init
    /\ lock = Free
    /\ scan = {}
    /\ zeroed = {}
    /\ gauge = [s \in Series |-> Absent]
-----------------------------------------------------------------------------
\* report needs h.m; the agents, the clock and the janitor's sweep do not.
LockedReport(k, v) ==
    /\ lock = Free
    /\ Report(k, v)
    /\ UNCHANGED gaugeVars

Unlocked ==
    /\ \/ Sweep
       \/ \E k \in Key :
            \/ Stop(k) \/ Heartbeat(k) \/ Expire(k)
            \/ \E v \in Versions : Start(k, v)
    /\ UNCHANGED gaugeVars

\* Mutant of Snapshot: a series that exists is taken to be up already.
SnapshotNew ==
    {s \in Series : agentPool[s[1]] = s[2] /\ s[1] \notin expired /\ gauge[s] = Absent}

\* Items(): the entries whose lifetime is not over.
Snapshot ==
    {s \in Series : agentPool[s[1]] = s[2] /\ s[1] \notin expired}

\* dot: one tick takes h.m and the snapshot, sets each series, releases h.m.
DotBegin ==
    /\ lock = Free
    /\ lock' = Dot
    /\ scan' = Snapshot
    /\ UNCHANGED <<vars, zeroed, gauge>>

DotSet(s) ==
    /\ s \in scan
    /\ gauge' = [gauge EXCEPT ![s] = 1]
    /\ scan' = scan \ {s}
    /\ UNCHANGED <<vars, lock, zeroed>>

DotEnd ==
    /\ lock = Dot
    /\ scan = {}
    /\ lock' = Free
    /\ UNCHANGED <<vars, scan, zeroed, gauge>>

\* The callback, first half: without h.m, the series of the swept version.
CallbackGauge(k) ==
    /\ evicted[k] # Absent
    /\ zeroed = {}
    /\ gauge' = [gauge EXCEPT ![<<k, evicted[k]>>] = 0]
    /\ zeroed' = {k}
    /\ UNCHANGED <<vars, lock, scan>>

\* Mutant of CallbackDelete: the callback also cleans the cache.
CallbackDeleteBoth(k) ==
    /\ k \in zeroed
    /\ lock = Free
    /\ evicted' = [evicted EXCEPT ![k] = Absent]
    /\ discoverPool' = WithoutEntry(k)
    /\ agentPool' = [agentPool EXCEPT ![k] = Absent]
    /\ expired' = expired \ {k}
    /\ zeroed' = {}
    /\ UNCHANGED <<running, wire, ready, lock, scan, gauge>>

\* The callback, second half: under h.m.
CallbackDelete(k) ==
    /\ k \in zeroed
    /\ lock = Free
    /\ OnEvicted(k)
    /\ zeroed' = {}
    /\ UNCHANGED <<lock, scan, gauge>>

GaugeNext ==
    \/ \E k \in Key, v \in Versions : LockedReport(k, v)
    \/ Unlocked
    \/ DotBegin
    \/ \E s \in Series : DotSet(s)
    \/ DotEnd
    \/ \E k \in Key : CallbackGauge(k) \/ CallbackDelete(k)

\* As in HealthDot; Go's mutex is starvation free, so who keeps asking for
\* h.m gets it although dot takes it again and again (strong fairness).
GaugeFairness ==
    /\ \A k \in Key :
        /\ WF_allVars(Heartbeat(k) /\ UNCHANGED gaugeVars)
        /\ \A v \in Versions : SF_allVars(LockedReport(k, v))
        /\ WF_allVars(running[k] = Absent /\ Expire(k) /\ UNCHANGED gaugeVars)
        /\ WF_allVars(CallbackGauge(k))
        /\ SF_allVars(CallbackDelete(k))
    /\ WF_allVars(Sweep /\ UNCHANGED gaugeVars)
    /\ SF_allVars(DotBegin)
    /\ \A s \in Series : WF_allVars(DotSet(s))
    /\ WF_allVars(DotEnd)

GaugeSafeSpec == GaugeInit /\ [][GaugeNext]_allVars
GaugeSpec == GaugeSafeSpec /\ GaugeFairness
-----------------------------------------------------------------------------
(***************************************************************************)
(* Properties (besides HealthDot's Spec, which GaugeSpec implements)       *)
(***************************************************************************)
\* With heartbeats inside the lifetime, the series of an agent that stays up
\* is 1 from some point on: the 0 of an eviction that raced its restart is
\* overwritten by a later tick of dot.
LiveShownUp ==
    \A s \in Series :
        <>[](running[s[1]] = s[2] /\ s[1] \notin expired) => <>[](gauge[s] = 1)

\* "agent下线后历史series需要重置为0" (metric.go, agentHealthCheckGaugeVec): the
\* series of an agent that is gone for good goes to 0.
DownReset ==
    \A s \in Series : <>[](running[s[1]] = Absent) => <>[](gauge[s] # 1)
=============================================================================
