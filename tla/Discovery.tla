------------------------------ MODULE Discovery ------------------------------
(***************************************************************************)
(* Service discovery from end to end: the agents' heartbeats, the register *)
(* of live agents (HealthDot), the target pool updatePool derives from it  *)
(* (TargetsPool), and the target lists agents fetch with GetTargetPool     *)
(* (agent/target.go).  HealthDot's map and ready channel are the ones      *)
(* TargetsPool reads, so its environment assumption becomes something to   *)
(* check.                                                                  *)
(***************************************************************************)
EXTENDS HealthDot, Sequences

CONSTANTS
    Configs, Bad, NoFile, NoEntry,
    ProbeSelf       \* -server.probe.self: agents also probe their own region

ASSUME ProbeSelfAssumption == ProbeSelf \in BOOLEAN

VARIABLES
    file, cfg, loaded, pool, starting, reload, updater, first, snap,
    targets         \* per region: the pool its agents fetched last

TP == INSTANCE TargetsPool

serverVars == <<file, cfg, loaded, pool, starting, reload, updater, first, snap>>
discoveryVars == <<vars, serverVars, targets>>

DiscoveryTypeOK ==
    /\ TypeOK
    /\ TP!PoolTypeOK
    /\ DOMAIN targets = Regions

DiscoveryInit ==
    /\ Init
    /\ TP!PoolInit
    /\ targets = [r \in Regions |-> [s \in {} |-> {}]]

\* Mutant of Sync: an empty answer is taken for a failed call.
SyncUnlessEmpty(r) ==
    /\ DOMAIN TP!GetPool(r, ProbeSelf) # {}
    /\ targets' = [targets EXCEPT ![r] = TP!GetPool(r, ProbeSelf)]
    /\ UNCHANGED <<vars, serverVars>>

\* targetManager.getTargets: an agent of region r asks and takes the answer as
\* its new target list, the empty one included. A call that fails changes
\* nothing. (Agents ask also when their own report never got through.)
Sync(r) ==
    /\ targets' = [targets EXCEPT ![r] = TP!GetPool(r, ProbeSelf)]
    /\ UNCHANGED <<vars, serverVars>>

DiscoveryNext ==
    \/ Next /\ UNCHANGED <<serverVars, targets>>
    \/ TP!PoolNext /\ UNCHANGED <<vars, targets>>
    \/ \E r \in Regions : Sync(r)

\* HealthDot's and TargetsPool's, and every agent's sync ticker goes on.
DiscoveryFairness ==
    /\ \A k \in Key :
        /\ WF_discoveryVars(Heartbeat(k) /\ UNCHANGED <<serverVars, targets>>)
        /\ \A v \in Versions : WF_discoveryVars(Report(k, v) /\ UNCHANGED <<serverVars, targets>>)
        /\ WF_discoveryVars(running[k] = Absent /\ Expire(k) /\ UNCHANGED <<serverVars, targets>>)
        /\ WF_discoveryVars(OnEvicted(k) /\ UNCHANGED <<serverVars, targets>>)
    /\ WF_discoveryVars(Sweep /\ UNCHANGED <<serverVars, targets>>)
    /\ WF_discoveryVars(TP!StartLoad /\ UNCHANGED <<vars, targets>>)
    /\ WF_discoveryVars(TP!ReloadPool /\ UNCHANGED <<vars, targets>>)
    /\ WF_discoveryVars(TP!TakeSnapshot /\ UNCHANGED <<vars, targets>>)
    /\ \A r \in Regions : WF_discoveryVars(TP!UpdateRegion(r) /\ UNCHANGED <<vars, targets>>)
    /\ WF_discoveryVars(TP!RoundEnd /\ UNCHANGED <<vars, targets>>)
    /\ WF_discoveryVars(TP!AwaitReady /\ UNCHANGED <<vars, targets>>)
    /\ \A r \in Regions : WF_discoveryVars(Sync(r))

DiscoverySafeSpec == DiscoveryInit /\ [][DiscoveryNext]_discoveryVars
DiscoverySpec == DiscoverySafeSpec /\ DiscoveryFairness
-----------------------------------------------------------------------------
(***************************************************************************)
(* Properties                                                              *)
(***************************************************************************)
\* HealthDot is an environment TargetsPool may assume: it adds to and empties
\* the regions of discoverPool, closes ready with the first addition and never
\* removes a region (report and OnEvicted against updatePool's reading of them).
PoolSafeSpec == TP!SafeSpec

\* The icmp targets an agent of region r got from discovery, as keys.
Probed(r) ==
    {k \in Key :
        LET e == TP!Entry(targets[r], k[1], "icmp")
        IN  e # NoEntry /\ e.by = "agents" /\ k[2] \in e.targets}

\* An agent that is gone for good is, from some point on, no agent's target:
\* through cache, callback, snapshot, pool and fetch, each with its own delay.
DeadNotProbed ==
    TP!Dynamic => \A k \in Key, r \in Regions :
        <>[](running[k] = Absent) => <>[](k \notin Probed(r))

\* An agent that stays up and reports in time is, when reloads end, a target
\* of every region that may probe it, from some point on.
LiveProbed ==
    TP!Dynamic => \A k \in Key, r \in Regions :
        /\ ProbeSelf \/ r # k[1]
        /\ <>[](running[k] # Absent /\ k \notin expired)
        /\ <>[](reload = "idle")
        => <>[](k \in Probed(r))
=============================================================================
