-------------------------- MODULE TargetsPoolProofs --------------------------
(***************************************************************************)
(* The safety of TargetsPool for every set of regions, addresses and       *)
(* configurations, and that it survives the starts, crashes and exits of   *)
(* the process around it (ServerLife).                                     *)
(***************************************************************************)
EXTENDS ServerLife, WellFoundedInduction, TLAPS

-----------------------------------------------------------------------------
(***************************************************************************)
(* What loadPool and updatePool's two writes make of a pool                *)
(***************************************************************************)
\* Nothing but the icmp entry of the region written changes.
LEMMA OverriddenEntry ==
    ASSUME NEW p, NEW r, NEW ips, NEW s, NEW t, t # "icmp"
    PROVE  Entry(Overridden(p, r, ips), s, t) = Entry(p, s, t)
    BY DEF Entry, Overridden, With

LEMMA EmptiedEntry ==
    ASSUME NEW p, NEW r, NEW s, NEW t, t # "icmp"
    PROVE  Entry(Emptied(p, r), s, t) = Entry(p, s, t)
    BY DEF Entry, Emptied, With, Without

\* A set of positions of a sequence that is not empty has a last one.
LEMMA LastPosition ==
    ASSUME NEW n \in Nat, NEW I \in SUBSET (1 .. n), I # {}
    PROVE  \E i \in I : \A j \in I : j <= i
<1> DEFINE T == {n - i : i \in I}
<1>1. T \subseteq Nat /\ T # {}
  <2>1. \A i \in I : n - i \in Nat
    OBVIOUS
  <2>2. PICK i \in I : TRUE
    OBVIOUS
  <2>3. n - i \in T
    OBVIOUS
  <2>4. QED
    BY <2>1, <2>3
<1>2. PICK x \in T : \A y \in T : <<y, x>> \notin OpToRel(<, Nat)
  <2> HIDE DEF T
  <2>1. QED
    BY <1>1, NatLessThanWellFounded, WFMin, Zenon
<1>3. \A y \in T : ~(y < x)
  BY <1>1, <1>2 DEF OpToRel
<1>4. PICK i \in I : x = n - i
  OBVIOUS
<1>5. \A j \in I : j <= i
  <2> SUFFICES ASSUME NEW j \in I PROVE j <= i
    OBVIOUS
  <2>1. n - j \in T
    OBVIOUS
  <2>2. ~(n - j < n - i)
    BY <2>1, <1>3, <1>4
  <2>3. QED
    BY <2>2
<1>6. QED
  BY <1>4, <1>5

LEMMA ConfigIsSeq ==
    ASSUME NEW c \in Configs \cup {<<>>}
    PROVE  c \in Seq(ConfigEntry)
<1>1. <<>> \in Seq(ConfigEntry)
  OBVIOUS
<1>2. QED
  BY <1>1, PoolAssumption

LEMMA LastIndexIs ==
    ASSUME NEW c \in Seq(ConfigEntry),
           NEW r, NEW t,
           \E i \in DOMAIN c : c[i].region = r /\ c[i].ptype = t
    PROVE  LET l == LastIndex(c, r, t) IN
           /\ l \in DOMAIN c /\ c[l].region = r /\ c[l].ptype = t
           /\ \A j \in DOMAIN c : c[j].region = r /\ c[j].ptype = t => j <= l
<1> DEFINE I == {i \in DOMAIN c : c[i].region = r /\ c[i].ptype = t}
<1>1. I \in SUBSET (1 .. Len(c)) /\ Len(c) \in Nat /\ I # {}
  OBVIOUS
<1>2. \E i \in I : \A j \in I : j <= i
  BY <1>1, LastPosition
<1>3. QED
  BY <1>2 DEF LastIndex

\* loadPool's overwriting loop leaves what a reader of the file expects: of a
\* region and type listed more than once, the last entry.
LEMMA LoadedEntry ==
    ASSUME NEW c \in Seq(ConfigEntry),
           NEW r, NEW t
    PROVE  Entry(Loaded(c), r, t) = Configured(c, r, t)
<1> DEFINE Listed(i) == c[i].region = r /\ c[i].ptype = t
           I == {i \in DOMAIN c : Listed(i)}
<1>1. DOMAIN c = 1 .. Len(c) /\ Len(c) \in Nat
  OBVIOUS
<1>2. CASE I = {}
  <2>1. ~ \E i \in DOMAIN c : Listed(i)
    BY <1>2
  <2>2. ~(r \in DOMAIN Loaded(c) /\ t \in DOMAIN Loaded(c)[r])
    BY <2>1 DEF Loaded
  <2>3. QED
    BY <2>1, <2>2 DEF Entry, Configured
<1>3. CASE I # {}
  <2> DEFINE l == LastIndex(c, r, t)
  <2>1. \E i \in DOMAIN c : c[i].region = r /\ c[i].ptype = t
    BY <1>3
  <2>2. /\ l \in DOMAIN c /\ Listed(l)
        /\ \A j \in DOMAIN c : Listed(j) => j <= l
    BY <2>1, LastIndexIs
  <2>4. Entry(Loaded(c), r, t) = [by |-> "config", targets |-> c[l].targets]
    BY <2>2 DEF Entry, Loaded
  <2>5. \A e \in {c[i] : i \in DOMAIN c} :
            (\E i \in DOMAIN c :
                /\ e = c[i] /\ e.region = r /\ e.ptype = t
                /\ \A j \in i + 1 .. Len(c) : ~(c[j].region = r /\ c[j].ptype = t))
            <=> e = c[l]
    <3>1. \A j \in l + 1 .. Len(c) : ~Listed(j)
      BY <1>1, <2>2
    <3>2. ASSUME NEW i \in DOMAIN c, Listed(i), \A j \in i + 1 .. Len(c) : ~Listed(j)
          PROVE  i = l
      BY <1>1, <2>2, <3>2
    <3>3. QED
      BY <2>2, <3>1, <3>2
  <2>6. Configured(c, r, t) = [by |-> "config", targets |-> c[l].targets]
    BY <2>2, <2>5 DEF Configured
  <2>7. QED
    BY <2>4, <2>6
<1>4. QED
  BY <1>2, <1>3
-----------------------------------------------------------------------------
\* Each step of the pool keeps it well formed.
LEMMA TypeStep == TypeOK /\ [Next]_vars => TypeOK'
<1> USE PoolAssumption
<1> SUFFICES ASSUME TypeOK, [Next]_vars PROVE TypeOK'
  OBVIOUS
<1>1. ASSUME NEW r \in Regions, NEW ip \in IPs, Discover(r, ip) PROVE TypeOK'
  BY <1>1 DEF Discover, TypeOK, PoolTypeOK, EnvTypeOK, poolVars, With, Entry
<1>2. ASSUME NEW r \in Regions, NEW ip \in IPs, Undiscover(r, ip) PROVE TypeOK'
  BY <1>2 DEF Undiscover, TypeOK, PoolTypeOK, EnvTypeOK, poolVars, Entry
<1>3. ASSUME NEW f \in Configs \cup {Bad}, EditFile(f) PROVE TypeOK'
  BY <1>3 DEF EditFile, TypeOK, PoolTypeOK, EnvTypeOK, envVars, Entry
<1>4. ASSUME LoadPool, UNCHANGED <<envVars, file, cfg, updater, first, snap>>,
             starting' \in BOOLEAN, reload' \in {"idle", "pool"}
      PROVE  TypeOK'
  <2>0. cfg \in Seq(ConfigEntry)
    BY ConfigIsSeq DEF TypeOK, PoolTypeOK
  <2>1. DOMAIN Loaded(cfg) \subseteq Regions
        /\ \A r \in DOMAIN Loaded(cfg) : DOMAIN Loaded(cfg)[r] \subseteq PTypes
    <3>1. \A i \in DOMAIN cfg : cfg[i].region \in Regions /\ cfg[i].ptype \in PTypes
      <4>1. \A i \in DOMAIN cfg : cfg[i] \in ConfigEntry
        BY <2>0
      <4>2. QED
        BY <4>1 DEF ConfigEntry
    <3>2. QED
      BY <3>1 DEF Loaded
  <2>2. \A r \in Regions, t \in PTypes : Entry(Loaded(cfg), r, t) \in EntryOf \cup {NoEntry}
    <3> SUFFICES ASSUME NEW r \in Regions, NEW t \in PTypes
                 PROVE  Entry(Loaded(cfg), r, t) \in EntryOf \cup {NoEntry}
      OBVIOUS
    <3>3. CASE r \in DOMAIN Loaded(cfg) /\ t \in DOMAIN Loaded(cfg)[r]
      <4>1. \E i \in DOMAIN cfg : cfg[i].region = r /\ cfg[i].ptype = t
        BY <3>3 DEF Loaded
      <4>2. LastIndex(cfg, r, t) \in DOMAIN cfg
        BY <2>0, <4>1, LastIndexIs
      <4>3. cfg[LastIndex(cfg, r, t)].targets \in SUBSET IPs
        <5>1. cfg[LastIndex(cfg, r, t)] \in ConfigEntry
          BY <2>0, <4>2
        <5>2. QED
          BY <5>1 DEF ConfigEntry
      <4>4. Entry(Loaded(cfg), r, t) = [by |-> "config", targets |-> cfg[LastIndex(cfg, r, t)].targets]
        BY <3>3 DEF Entry, Loaded
      <4>5. QED
        BY <4>3, <4>4 DEF EntryOf
    <3>4. QED
      BY <3>3 DEF Entry
  <2>3. QED
    BY <1>4, <2>1, <2>2 DEF LoadPool, TypeOK, PoolTypeOK, EnvTypeOK, envVars
<1>5. CASE StartLoad
  BY <1>5, <1>4 DEF StartLoad, TypeOK, PoolTypeOK, envVars
<1>6. CASE ReloadPool
  BY <1>6, <1>4 DEF ReloadPool, TypeOK, PoolTypeOK, envVars
<1>7. CASE ReloadConfig
  BY <1>7 DEF ReloadConfig, TypeOK, PoolTypeOK, EnvTypeOK, envVars, Entry
<1>8. CASE TakeSnapshot
  BY <1>8 DEF TakeSnapshot, TypeOK, PoolTypeOK, EnvTypeOK, envVars, Entry
<1>9. ASSUME NEW r \in Regions, UpdateRegion(r) PROVE TypeOK'
  <2>1. DOMAIN pool' \subseteq Regions
        /\ \A s \in DOMAIN pool' : DOMAIN pool'[s] \subseteq PTypes
    BY <1>9 DEF UpdateRegion, TypeOK, PoolTypeOK, Emptied, Overridden, With, Without, PTypes
  <2>2. \A s \in Regions, t \in PTypes : Entry(pool', s, t) \in EntryOf \cup {NoEntry}
    <3> SUFFICES ASSUME NEW s \in Regions, NEW t \in PTypes
                 PROVE  Entry(pool', s, t) \in EntryOf \cup {NoEntry}
      OBVIOUS
    <3>1. CASE snap[r] = {}
      <4>1. Entry(pool', s, t) \in {Entry(pool, s, t), NoEntry}
        BY <1>9, <3>1 DEF UpdateRegion, Entry, Emptied, With, Without
      <4>2. QED
        BY <4>1 DEF TypeOK, PoolTypeOK
    <3>2. CASE snap[r] # {}
      <4>1. Entry(pool', s, t) \in {Entry(pool, s, t), [by |-> "agents", targets |-> snap[r]]}
        BY <1>9, <3>2 DEF UpdateRegion, Entry, Overridden, With
      <4>2. [by |-> "agents", targets |-> snap[r]] \in EntryOf
        BY <1>9 DEF UpdateRegion, TypeOK, PoolTypeOK, EntryOf
      <4>3. QED
        BY <4>1, <4>2 DEF TypeOK, PoolTypeOK
    <3>3. QED
      BY <3>1, <3>2
  <2>3. DOMAIN snap' \subseteq Regions /\ \A s \in DOMAIN snap' : snap'[s] \in SUBSET IPs
    BY <1>9 DEF UpdateRegion, TypeOK, PoolTypeOK, Without
  <2>4. QED
    BY <1>9, <2>1, <2>2, <2>3 DEF UpdateRegion, TypeOK, PoolTypeOK, EnvTypeOK, envVars
<1>10. CASE RoundEnd
  BY <1>10 DEF RoundEnd, TypeOK, PoolTypeOK, EnvTypeOK, envVars, Entry
<1>11. CASE AwaitReady
  BY <1>11 DEF AwaitReady, TypeOK, PoolTypeOK, EnvTypeOK, envVars, Entry
<1>12. CASE UNCHANGED vars
  BY <1>12 DEF TypeOK, PoolTypeOK, EnvTypeOK, vars, envVars, poolVars, Entry
<1>13. QED
  BY <1>1, <1>2, <1>3, <1>5, <1>6, <1>7, <1>8, <1>9, <1>10, <1>11, <1>12
     DEF Next, Env, PoolNext

\* Every reachable state is well formed.
THEOREM TypeCorrect == SafeSpec => []TypeOK
<1>1. Init => TypeOK
  BY DEF Init, PoolInit, TypeOK, PoolTypeOK, EnvTypeOK, Entry
<1>2. TypeOK /\ [Next]_vars => TypeOK'
  BY TypeStep
<1>3. QED
  BY <1>1, <1>2, PTL DEF SafeSpec

\* updatePool writes icmp entries only, and none in static mode; loadPool writes
\* what is configured.
LEMMA PoolAsConfiguredStep == TypeOK /\ PoolAsConfigured /\ [Next]_vars => PoolAsConfigured'
<1>0. ASSUME [Next]_vars PROVE Dynamic' = Dynamic
  BY <1>0 DEF Dynamic, Next, Env, Discover, Undiscover, PoolNext, EditFile, StartLoad,
              ReloadConfig, ReloadPool, TakeSnapshot, UpdateRegion, RoundEnd, AwaitReady,
              vars, poolVars
<1> SUFFICES ASSUME TypeOK, PoolAsConfigured, [Next]_vars,
                    NEW s \in Regions, NEW t \in PTypes, t = "http" \/ ~Dynamic
             PROVE  Entry(pool', s, t) = Configured(loaded', s, t)
  BY <1>0 DEF PoolAsConfigured
<1>1. CASE UNCHANGED <<pool, loaded>>
  BY <1>1 DEF PoolAsConfigured
<1>2. CASE LoadPool
  <2>1. cfg \in Seq(ConfigEntry)
    BY ConfigIsSeq DEF TypeOK, PoolTypeOK
  <2>2. QED
    BY <1>2, <2>1, LoadedEntry DEF LoadPool
<1>3. ASSUME NEW r \in Regions, UpdateRegion(r)
      PROVE  Entry(pool', s, t) = Configured(loaded', s, t)
  <2>1. t # "icmp"
    BY <1>3 DEF UpdateRegion, Dynamic
  <2>2. Entry(pool', s, t) = Entry(pool, s, t)
    BY <1>3, <2>1, OverriddenEntry, EmptiedEntry DEF UpdateRegion
  <2>3. QED
    BY <1>3, <2>2 DEF UpdateRegion, PoolAsConfigured
<1>4. QED
  BY <1>1, <1>2, <1>3
     DEF Next, Env, Discover, Undiscover, PoolNext, EditFile, StartLoad, ReloadConfig,
         ReloadPool, TakeSnapshot, RoundEnd, AwaitReady, vars, poolVars

\* Dynamic discovery never touches an http entry, and in static mode no entry:
\* they are what the configuration last loaded says.
THEOREM PoolAsConfiguredAlways == SafeSpec => []PoolAsConfigured
<1>1. Init => PoolAsConfigured
  BY DEF Init, PoolInit, PoolAsConfigured, Entry, Configured
<1>2. TypeOK /\ PoolAsConfigured /\ [Next]_vars => PoolAsConfigured'
  BY PoolAsConfiguredStep
<1>3. QED
  BY <1>1, <1>2, TypeCorrect, PTL DEF SafeSpec

\* A reload takes effect: its second half loads what its first half read.
THEOREM ReloadTakesEffectAlways == SafeSpec => []ReloadTakesEffect
<1>1. Init => ReloadTakesEffect
  BY DEF Init, PoolInit, ReloadTakesEffect
<1>2. ReloadTakesEffect /\ [Next]_vars => ReloadTakesEffect'
  BY DEF ReloadTakesEffect, Next, Env, Discover, Undiscover, PoolNext, EditFile, StartLoad,
         ReloadConfig, ReloadPool, LoadPool, TakeSnapshot, UpdateRegion, RoundEnd, AwaitReady,
         vars, poolVars
<1>3. QED
  BY <1>1, <1>2, PTL DEF SafeSpec

\* Discovered targets never outlive updatePool's knowledge of their region,
\* because the snapshot it works from knows no region the map has forgotten.
IInv == DynamicIsVisited /\ DOMAIN snap \subseteq DOMAIN discoverPool

\* updatePool discovers only for regions of its snapshot; the rest discovers none.
LEMMA DynamicIsVisitedStep == TypeOK /\ IInv /\ [Next]_vars => IInv'
<1> DEFINE Discovered(p, r) == Entry(p, r, "icmp") # NoEntry /\ Entry(p, r, "icmp").by = "agents"
<1> SUFFICES ASSUME TypeOK, IInv, [Next]_vars PROVE IInv'
  OBVIOUS
<1>1. ASSUME DOMAIN discoverPool \subseteq DOMAIN discoverPool', DOMAIN snap' \subseteq DOMAIN discoverPool,
             \A r \in Regions : Discovered(pool', r) => Discovered(pool, r) \/ r \in DOMAIN discoverPool
      PROVE  IInv'
  BY <1>1 DEF IInv, DynamicIsVisited
<1>2. CASE Env \/ UNCHANGED <<discoverPool, pool, snap>>
  <2>1. DOMAIN discoverPool \subseteq DOMAIN discoverPool' /\ UNCHANGED <<pool, snap>>
    BY <1>2 DEF Env, Discover, Undiscover, With, poolVars
  <2>2. QED
    BY <2>1, <1>1 DEF IInv
<1>3. CASE LoadPool /\ UNCHANGED <<discoverPool, snap>>
  <2>1. \A r \in Regions : ~Discovered(pool', r)
    <3> SUFFICES ASSUME NEW r \in Regions PROVE ~Discovered(Loaded(cfg), r)
      BY <1>3 DEF LoadPool
    <3>1. CASE r \in DOMAIN Loaded(cfg) /\ "icmp" \in DOMAIN Loaded(cfg)[r]
      BY <3>1 DEF Loaded, Entry
    <3>2. QED
      BY <3>1 DEF Entry
  <2>2. QED
    BY <1>1, <1>3, <2>1 DEF IInv
<1>4. CASE TakeSnapshot
  BY <1>1, <1>4 DEF TakeSnapshot, envVars, IInv
<1>5. ASSUME NEW r \in Regions, UpdateRegion(r) PROVE IInv'
  <2>1. r \in DOMAIN discoverPool
    BY <1>5 DEF UpdateRegion, IInv
  <2>2. DOMAIN snap' \subseteq DOMAIN discoverPool /\ discoverPool' = discoverPool
    BY <1>5 DEF UpdateRegion, IInv, Without, envVars
  <2>3. \A s \in Regions : Discovered(pool', s) => Discovered(pool, s) \/ s = r
    BY <1>5 DEF UpdateRegion, Entry, Emptied, Overridden, With, Without
  <2>4. QED
    BY <1>1, <2>1, <2>2, <2>3
<1>6. QED
  BY <1>2, <1>3, <1>4, <1>5
     DEF Next, PoolNext, EditFile, StartLoad, ReloadConfig, ReloadPool, RoundEnd, AwaitReady,
         vars, poolVars, envVars

THEOREM DynamicIsVisitedAlways == SafeSpec => []DynamicIsVisited
<1>1. Init => IInv
  BY DEF Init, PoolInit, IInv, DynamicIsVisited, Entry
<1>2. TypeOK /\ IInv /\ [Next]_vars => IInv'
  BY DynamicIsVisitedStep
<1>3. IInv => DynamicIsVisited
  BY DEF IInv
<1>4. QED
  BY <1>1, <1>2, <1>3, TypeCorrect, PTL DEF SafeSpec
-----------------------------------------------------------------------------
(***************************************************************************)
(* The same of a process that starts, crashes and exits around the pool    *)
(***************************************************************************)
\* Every step of ServerLife is one of TargetsPool's, or reads the file before
\* anything is there, or forgets everything but the file.
LEMMA LifeStep == [LifeNext]_allVars => [Next]_vars \/ Boot \/ Gone
<1> SUFFICES ASSUME LifeNext PROVE [Next]_vars \/ Boot \/ Gone
  BY DEF allVars
<1>1. CASE NewTargetsPool \/ RunGroup \/ ReloadLeaves \/ Shutdown \/ ShutdownOver
  BY <1>1 DEF NewTargetsPool, RunGroup, ReloadLeaves, Shutdown, ShutdownOver
<1>2. ASSUME NEW c \in Components, Make(c) \/ EarlyCall(c) PROVE UNCHANGED vars \/ Gone
  BY <1>2 DEF Make, EarlyCall
<1>3. ASSUME NEW q \in Requests, Request(q) \/ Take(q) PROVE [Next]_vars
  BY <1>3 DEF Request, Take, Next, PoolNext
<1>4. CASE Answer
  BY <1>4 DEF Answer, Next, PoolNext
<1>5. CASE Term \/ Kill \/ Exit
  BY <1>5 DEF Term, Kill, Exit
<1>6. CASE ActorLoads \/ UpdatePool \/ Agents \/ Operator
  BY <1>6 DEF ActorLoads, UpdatePool, Agents, Operator, Next, PoolNext
<1>7. QED
  BY <1>1, <1>2, <1>3, <1>4, <1>5, <1>6 DEF LifeNext, Components

\* What such a step may do to the pool's variables, it does in a well formed way.
LEMMA LifeTypeStep == TypeOK /\ (Boot \/ Gone) => TypeOK'
<1> SUFFICES ASSUME TypeOK, Boot \/ Gone PROVE TypeOK'
  OBVIOUS
<1>1. CASE Boot
  BY <1>1 DEF Boot, TypeOK, PoolTypeOK, EnvTypeOK, envVars, Entry
<1>2. CASE Gone
  BY <1>2 DEF Gone, Nothing, TypeOK, PoolTypeOK, EnvTypeOK, Entry
<1>3. QED
  BY <1>1, <1>2

\* The pool and the discovery map stay well formed across crashes and restarts.
THEOREM LifeTypeCorrect == LifeSafeSpec => []TypeOK
<1>1. LifeInit => TypeOK
  BY DEF LifeInit, Nothing, PoolInit, TypeOK, PoolTypeOK, EnvTypeOK, Entry
<1>2. TypeOK /\ [LifeNext]_allVars => TypeOK'
  BY LifeStep, TypeStep, LifeTypeStep
<1>3. QED
  BY <1>1, <1>2, PTL DEF LifeSafeSpec

\* http entries (in static mode all entries) are those of the configuration the
\* running process last loaded, whatever calls crash it while it starts, whoever
\* restarts it, and however reloads and its shutdown meet (server.go:39-262).
THEOREM LifePoolAsConfigured == LifeSafeSpec => []PoolAsConfigured
<1>1. LifeInit => PoolAsConfigured
  BY DEF LifeInit, PoolInit, PoolAsConfigured, Entry, Configured
<1>2. TypeOK /\ PoolAsConfigured /\ [LifeNext]_allVars => PoolAsConfigured'
  <2>1. Boot /\ PoolAsConfigured => PoolAsConfigured'
    BY DEF Boot, PoolAsConfigured, Dynamic
  <2>2. Gone => PoolAsConfigured'
    BY DEF Gone, Nothing, PoolAsConfigured, Entry, Configured
  <2>3. QED
    BY <2>1, <2>2, LifeStep, PoolAsConfiguredStep
<1>3. QED
  BY <1>1, <1>2, LifeTypeCorrect, PTL DEF LifeSafeSpec

\* A discovered entry belongs to a region of the discovery map of the same
\* process: no restart leaves one that updatePool will never visit.
THEOREM LifeDynamicIsVisited == LifeSafeSpec => []DynamicIsVisited
<1>1. LifeInit => IInv
  BY DEF LifeInit, Nothing, PoolInit, IInv, DynamicIsVisited, Entry
<1>2. TypeOK /\ IInv /\ [LifeNext]_allVars => IInv'
  <2>1. Boot /\ IInv => IInv'
    BY DEF Boot, IInv, DynamicIsVisited, envVars
  <2>2. Gone => IInv'
    BY DEF Gone, Nothing, IInv, DynamicIsVisited, Entry
  <2>3. QED
    BY <2>1, <2>2, LifeStep, DynamicIsVisitedStep
<1>3. IInv => DynamicIsVisited
  BY DEF IInv
<1>4. QED
  BY <1>1, <1>2, <1>3, LifeTypeCorrect, PTL DEF LifeSafeSpec
=============================================================================
