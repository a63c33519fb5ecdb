----------------------------- MODULE TargetsPool -----------------------------
(***************************************************************************)
(* The server's target pool, src/pkg/server/pool.go, with the reload       *)
(* handler of server.go and the configuration of config.go it is built     *)
(* from: who probes what, by region and probe type.  loadPool replaces the *)
(* whole pool by the configuration; in dynamic mode updatePool overwrites  *)
(* the icmp entries region by region from a snapshot of the discovery map. *)
(*                                                                         *)
(* discoverPool and ready belong to HealthDot; here the environment writes *)
(* them, under what HealthDot promises (module Discovery checks that).     *)
(***************************************************************************)
EXTENDS Naturals, Sequences

CONSTANTS
    Regions, IPs,
    Configs,        \* good files: sequences of [region, ptype, targets]
    Bad, NoFile,    \* a file that does not parse; no -server.probe.file given
    NoEntry         \* what the pool says of a region and type it has not

PTypes == {"http", "icmp"}

ConfigEntry == [region : Regions, ptype : PTypes, targets : SUBSET IPs]

ASSUME PoolAssumption ==
    /\ Bad \notin Configs /\ NoFile \notin Configs
    /\ Configs \subseteq Seq(ConfigEntry)

VARIABLES
    discoverPool,   \* healthDot's map: region -> set of ips
    ready,          \* the first agent has reported
    file,           \* the configuration file on disk
    cfg,            \* the configuration in memory, config.Get()
    loaded,         \* history: the configuration of the last loadPool
    pool,           \* region -> probe type -> [by, targets]
    starting,       \* start() has not loaded the pool yet
    reload,         \* the reload actor: "idle", or "pool" between its two reloaders
    updater,        \* updatePool: "off", "idle", "update", "ready"
    first,          \* updatePool's first round is not over
    snap            \* what is left of its snapshot

poolVars == <<file, cfg, loaded, pool, starting, reload, updater, first, snap>>
envVars == <<discoverPool, ready>>
vars == <<envVars, poolVars>>

\* -server.icmp.discovery=dynamic: updatePool runs.
Dynamic == updater # "off"

\* A pool as Go holds it: a map of maps.
EntryOf == [by : {"config", "agents"}, targets : SUBSET IPs]
Entry(p, r, t) == IF r \in DOMAIN p /\ t \in DOMAIN p[r] THEN p[r][t] ELSE NoEntry

PoolTypeOK ==
    /\ file \in Configs \cup {Bad, NoFile}
    /\ cfg \in Configs \cup {<<>>}
    /\ loaded \in Configs \cup {<<>>}
    /\ DOMAIN pool \subseteq Regions
    /\ \A r \in DOMAIN pool : DOMAIN pool[r] \subseteq PTypes
    /\ \A r \in Regions, t \in PTypes : Entry(pool, r, t) \in EntryOf \cup {NoEntry}
    /\ starting \in BOOLEAN
    /\ reload \in {"idle", "pool"}
    /\ updater \in {"off", "idle", "update", "ready"}
    /\ first \in BOOLEAN
    /\ DOMAIN snap \subseteq Regions
    /\ \A r \in DOMAIN snap : snap[r] \in SUBSET IPs

PoolInit ==
    /\ updater \in {"off", "idle"}
    /\ \/ file \in Configs /\ cfg = file
       \/ Dynamic /\ file = NoFile /\ cfg = <<>>
    /\ loaded = <<>>
    /\ pool = [r \in {} |-> {}]
    /\ starting = TRUE
    /\ reload = "idle"
    /\ first = TRUE
    /\ snap = [r \in {} |-> {}]
-----------------------------------------------------------------------------
(***************************************************************************)
(* Loading                                                                 *)
(***************************************************************************)
\* Of several entries for a region and type the last one stays in the map.
LastIndex(c, r, t) ==
    CHOOSE i \in DOMAIN c :
        /\ c[i].region = r /\ c[i].ptype = t
        /\ \A j \in DOMAIN c : c[j].region = r /\ c[j].ptype = t => j <= i

\* The pool loadPool builds.
Loaded(c) ==
    [r \in {c[i].region : i \in DOMAIN c} |->
        [t \in {c[i].ptype : i \in {j \in DOMAIN c : c[j].region = r}} |->
            [by |-> "config", targets |-> c[LastIndex(c, r, t)].targets]]]

\* targetsPool.loadPool: the whole pool, in one critical section of t.m.
LoadPool ==
    /\ pool' = Loaded(cfg)
    /\ loaded' = cfg

\* Somebody edits the file.
EditFile(f) ==
    /\ file # NoFile
    /\ file # f
    /\ file' = f
    /\ UNCHANGED <<envVars, cfg, loaded, pool, starting, reload, updater, first, snap>>

\* targetsPool.start, run by its actor some time after newTargetsPool.
StartLoad ==
    /\ starting
    /\ LoadPool
    /\ starting' = FALSE
    /\ UNCHANGED <<envVars, file, cfg, reload, updater, first, snap>>

\* A /-/reload request, first reloader: config.ReloadConfig. A file that
\* cannot be read or parsed leaves the old configuration.
ReloadConfig ==
    /\ reload = "idle"
    /\ cfg' = IF file \in Configs THEN file ELSE cfg
    /\ reload' = "pool"
    /\ UNCHANGED <<envVars, file, loaded, pool, starting, updater, first, snap>>

\* Second reloader: reloadConfig runs it whether or not the first one failed.
ReloadPool ==
    /\ reload = "pool"
    /\ LoadPool
    /\ reload' = "idle"
    /\ UNCHANGED <<envVars, file, cfg, starting, updater, first, snap>>
-----------------------------------------------------------------------------
(***************************************************************************)
(* updatePool                                                              *)
(***************************************************************************)
\* A round begins with a deep copy of the discovery map.
TakeSnapshot ==
    /\ updater = "idle"
    /\ snap' = discoverPool
    /\ updater' = "update"
    /\ UNCHANGED <<envVars, file, cfg, loaded, pool, starting, reload, first>>

\* A map without one of its keys.
Without(f, x) == [y \in DOMAIN f \ {x} |-> f[y]]
With(f, x, v) == [y \in DOMAIN f \cup {x} |-> IF y = x THEN v ELSE f[y]]

\* Mutants of Overridden and Emptied.
OverriddenIfKnown(p, r, ips) ==
    IF r \in DOMAIN p
    THEN With(p, r, With(p[r], "icmp", [by |-> "agents", targets |-> ips]))
    ELSE p
OverriddenWhole(p, r, ips) ==
    With(p, r, With([t \in {} |-> {}], "icmp", [by |-> "agents", targets |-> ips]))
EmptiedNever(p, r) == p

\* The region's icmp entry is the agents' addresses, whatever was there.
Overridden(p, r, ips) ==
    LET pm == IF r \in DOMAIN p THEN p[r] ELSE [t \in {} |-> {}]
    IN  With(p, r, With(pm, "icmp", [by |-> "agents", targets |-> ips]))

\* A region all of whose agents are gone loses its icmp entry, configured or
\* not; the region itself goes a round later, if nothing else is in it.
Emptied(p, r) ==
    IF r \notin DOMAIN p THEN p
    ELSE IF DOMAIN p[r] # {} THEN With(p, r, Without(p[r], "icmp"))
    ELSE Without(p, r)

\* One region of the snapshot, in one critical section of t.m, in any order.
UpdateRegion(r) ==
    /\ updater = "update"
    /\ r \in DOMAIN snap
    /\ pool' = IF snap[r] = {} THEN Emptied(pool, r) ELSE Overridden(pool, r, snap[r])
    /\ snap' = Without(snap, r)
    /\ UNCHANGED <<envVars, file, cfg, loaded, starting, reload, updater, first>>

\* The round is over; the first one waits for the first report.
RoundEnd ==
    /\ updater = "update"
    /\ DOMAIN snap = {}
    /\ updater' = IF first THEN "ready" ELSE "idle"
    /\ UNCHANGED <<envVars, file, cfg, loaded, pool, starting, reload, first, snap>>

AwaitReady ==
    /\ updater = "ready"
    /\ ready
    /\ updater' = "idle"
    /\ first' = FALSE
    /\ UNCHANGED <<envVars, file, cfg, loaded, pool, starting, reload, snap>>

PoolNext ==
    \/ \E f \in Configs \cup {Bad} : EditFile(f)
    \/ StartLoad
    \/ ReloadConfig
    \/ ReloadPool
    \/ TakeSnapshot
    \/ \E r \in Regions : UpdateRegion(r)
    \/ RoundEnd
    \/ AwaitReady

\* The goroutines run; nothing makes a file change or a reload arrive.
PoolFairness ==
    /\ WF_vars(StartLoad)
    /\ WF_vars(ReloadPool)
    /\ WF_vars(TakeSnapshot)
    /\ \A r \in Regions : WF_vars(UpdateRegion(r))
    /\ WF_vars(RoundEnd)
    /\ WF_vars(AwaitReady)

\* GetTargetPool's answer to an agent of region r: not its own region, unless
\* the servers are told to probe themselves (getPool).
GetPool(r, probeSelf) ==
    [s \in {s \in DOMAIN pool : probeSelf \/ s # r} |-> pool[s]]
-----------------------------------------------------------------------------
(***************************************************************************)
(* The environment: what HealthDot may do to discoverPool and ready        *)
(***************************************************************************)
Discover(r, ip) ==
    /\ discoverPool' = With(discoverPool, r,
            {ip} \cup (IF r \in DOMAIN discoverPool THEN discoverPool[r] ELSE {}))
    /\ ready' = TRUE
    /\ UNCHANGED poolVars

\* Mutant of Undiscover: the last ip takes its region with it.
UndiscoverRegion(r, ip) ==
    /\ r \in DOMAIN discoverPool
    /\ discoverPool' = IF discoverPool[r] = {ip} THEN Without(discoverPool, r)
                       ELSE [discoverPool EXCEPT ![r] = @ \ {ip}]
    /\ UNCHANGED <<ready, poolVars>>

Undiscover(r, ip) ==
    /\ r \in DOMAIN discoverPool
    /\ discoverPool' = [discoverPool EXCEPT ![r] = @ \ {ip}]
    /\ UNCHANGED <<ready, poolVars>>

Env == \E r \in Regions, ip \in IPs : Discover(r, ip) \/ Undiscover(r, ip)

Init ==
    /\ discoverPool = [r \in {} |-> {}]
    /\ ready = FALSE
    /\ PoolInit

Next == Env \/ PoolNext

SafeSpec == Init /\ [][Next]_vars
Spec == SafeSpec /\ PoolFairness
-----------------------------------------------------------------------------
(***************************************************************************)
(* Properties                                                              *)
(***************************************************************************)
EnvTypeOK ==
    /\ DOMAIN discoverPool \subseteq Regions
    /\ \A r \in DOMAIN discoverPool : discoverPool[r] \in SUBSET IPs
    /\ ready \in BOOLEAN

TypeOK == PoolTypeOK /\ EnvTypeOK

\* The entry the last configuration loaded asks for: its last one.
Configured(c, r, t) ==
    IF \E i \in DOMAIN c : c[i].region = r /\ c[i].ptype = t
    THEN [by |-> "config",
          targets |-> (CHOOSE e \in {c[i] : i \in DOMAIN c} :
                        \E i \in DOMAIN c :
                            /\ e = c[i] /\ e.region = r /\ e.ptype = t
                            /\ \A j \in i + 1 .. Len(c) : ~(c[j].region = r /\ c[j].ptype = t)).targets]
    ELSE NoEntry

\* Dynamic discovery is about icmp only: whatever updatePool overwrites and
\* deletes, between and during reloads, the http entries (in static mode, all
\* entries) are those of the last configuration loaded.
PoolAsConfigured ==
    \A r \in Regions, t \in PTypes :
        t = "http" \/ ~Dynamic => Entry(pool, r, t) = Configured(loaded, r, t)

\* When start has loaded the pool and no reload is under way, the pool was
\* loaded from the configuration in memory (the order of the two reloaders).
ReloadTakesEffect == ~starting /\ reload = "idle" => loaded = cfg

\* An entry discovery made belongs to a region the discovery map still knows:
\* updatePool will visit it again, so it can be updated and removed.
DynamicIsVisited ==
    \A r \in Regions :
        Entry(pool, r, "icmp") # NoEntry /\ Entry(pool, r, "icmp").by = "agents"
            => r \in DOMAIN discoverPool
=============================================================================
