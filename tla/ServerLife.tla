------------------------------ MODULE ServerLife ------------------------------
(***************************************************************************)
(* A server process from start to exit, BuildServerMode (server.go), around *)
(* TargetsPool.  The RPC server listens first, then the components it calls *)
(* into are made one after the other, the register and the aggregator only  *)
(* by actors of the run group; a call that comes too early meets a nil      *)
(* pointer and takes the process with it.  /-/reload hands a request to the *)
(* reload actor through an unbuffered channel.  A signal, or an http port   *)
(* that cannot be had, cancels the actors, and the process exits when all   *)
(* have returned; the http actor waits for the requests under way.          *)
(*                                                                          *)
(* A process that is gone has lost everything but the file; it may be       *)
(* started again (the unit files and manifests restart it).                 *)
(***************************************************************************)
EXTENDS TargetsPool

CONSTANTS
    Requests,       \* reload requests there may be at a time
    NoRequest

ASSUME LifeAssumption == NoRequest \notin Requests

\* What the handlers of rpc.go call into.
Components == {"tp", "taskgroup", "hd", "aggregator"}

VARIABLES
    up,             \* the process is there, its RPC server listens
    missing,        \* components not made yet
    cancelled,      \* ctxAll is cancelled
    http,           \* http server and actor: "off", "serving", "closing", "closed"
    offered,        \* reload requests whose handler waits to send on reloadCh
    taken,          \* the one the reload actor is working for
    left            \* the reload actor has returned

lifeVars == <<up, missing, cancelled, http, offered, taken, left>>
allVars == <<vars, lifeVars>>

\* Everything before the run group starts its actors is there.
InGroup == up /\ missing \cap {"tp", "taskgroup"} = {}

LifeTypeOK ==
    /\ TypeOK
    /\ up \in BOOLEAN
    /\ missing \subseteq Components
    /\ cancelled \in BOOLEAN
    /\ http \in {"off", "serving", "closing", "closed"}
    /\ offered \subseteq Requests
    /\ taken \in Requests \cup {NoRequest}
    /\ left \in BOOLEAN
    /\ (taken = NoRequest) <=> (reload = "idle")

\* The state of a process that is not there.
Nothing == [r \in {} |-> {}]

LifeInit ==
    /\ PoolInit
    /\ discoverPool = Nothing /\ ready = FALSE
    /\ up = FALSE /\ missing = Components
    /\ cancelled = FALSE
    /\ http = "off"
    /\ offered = {} /\ taken = NoRequest /\ left = FALSE

Gone ==
    /\ up' = FALSE /\ missing' = Components
    /\ cancelled' = FALSE
    /\ http' = "off"
    /\ offered' = {} /\ taken' = NoRequest /\ left' = FALSE
    /\ discoverPool' = Nothing /\ ready' = FALSE
    /\ pool' = Nothing /\ loaded' = <<>> /\ cfg' = <<>>
    /\ starting' = TRUE /\ reload' = "idle" /\ first' = TRUE /\ snap' = Nothing
    /\ updater' = IF Dynamic THEN "idle" ELSE "off"
    /\ file' = file
-----------------------------------------------------------------------------
(***************************************************************************)
(* The start                                                               *)
(***************************************************************************)
\* The file is read, and must parse if there is one; the RPC server listens.
Boot ==
    /\ ~up
    /\ file # Bad
    /\ up' = TRUE
    /\ cfg' = IF file = NoFile THEN <<>> ELSE file
    /\ UNCHANGED <<envVars, file, loaded, pool, starting, reload, updater, first, snap,
                   missing, cancelled, http, offered, taken, left>>

\* newTargetsPool; in dynamic mode updatePool starts.
NewTargetsPool ==
    /\ up
    /\ "tp" \in missing
    /\ missing' = missing \ {"tp"}
    /\ UNCHANGED <<vars, up, cancelled, http, offered, taken, left>>

\* newTaskGroup, the http server, g.Run. An http server that cannot listen makes
\* its actor return, and with it all.
RunGroup ==
    /\ up
    /\ "tp" \notin missing
    /\ "taskgroup" \in missing
    /\ missing' = missing \ {"taskgroup"}
    /\ \E listens \in BOOLEAN :
        /\ http' = IF listens THEN "serving" ELSE "closed"
        /\ cancelled' = ~listens
    /\ UNCHANGED <<vars, up, offered, taken, left>>

\* newHealthDot, newAggregator: the first thing their actors do.
Make(c) ==
    /\ InGroup
    /\ c \in missing
    /\ missing' = missing \ {c}
    /\ UNCHANGED <<vars, up, cancelled, http, offered, taken, left>>

\* A call to a component that is not there yet.
EarlyCall(c) ==
    /\ up
    /\ c \in missing
    /\ Gone
-----------------------------------------------------------------------------
(***************************************************************************)
(* Reloads                                                                 *)
(***************************************************************************)
\* The handler of /-/reload begins to send.
Request(q) ==
    /\ http = "serving"
    /\ q \notin offered \cup {taken}
    /\ offered' = offered \cup {q}
    /\ UNCHANGED <<vars, up, missing, cancelled, http, taken, left>>

\* The reload actor receives, cancelled or not: a select takes either case.
Take(q) ==
    /\ InGroup /\ ~left
    /\ q \in offered
    /\ ReloadConfig
    /\ offered' = offered \ {q}
    /\ taken' = q
    /\ UNCHANGED <<up, missing, cancelled, http, left>>

\* Mutant of Answer: the loop of the reload actor is missing.
AnswerAndLeave ==
    /\ ReloadPool
    /\ taken' = NoRequest
    /\ left' = TRUE
    /\ UNCHANGED <<up, missing, cancelled, http, offered>>

Answer ==
    /\ ReloadPool
    /\ taken' = NoRequest
    /\ UNCHANGED <<up, missing, cancelled, http, offered, left>>
-----------------------------------------------------------------------------
(***************************************************************************)
(* The exit                                                                *)
(***************************************************************************)
\* SIGTERM or interrupt: before signal.Notify it kills, in the group it cancels.
Term ==
    /\ up /\ ~cancelled
    /\ IF InGroup
       THEN cancelled' = TRUE /\ UNCHANGED <<vars, up, missing, http, offered, taken, left>>
       ELSE Gone

\* SIGKILL, or the machine.
Kill == up /\ Gone

\* Mutant of ReloadLeaves: the context is looked at between two requests only.
ReloadLeavesOnRequest ==
    /\ cancelled /\ ~left
    /\ reload = "idle" /\ offered # {}
    /\ left' = TRUE
    /\ UNCHANGED <<vars, up, missing, cancelled, http, offered, taken>>

ReloadLeaves ==
    /\ cancelled /\ ~left
    /\ reload = "idle"
    /\ left' = TRUE
    /\ UNCHANGED <<vars, up, missing, cancelled, http, offered, taken>>

\* The http actor calls svc.Shutdown: no new requests.
Shutdown ==
    /\ cancelled
    /\ http = "serving"
    /\ http' = "closing"
    /\ UNCHANGED <<vars, up, missing, cancelled, offered, taken, left>>

\* svc.Shutdown(context.TODO()) returns when no request is under way.
ShutdownOver ==
    /\ http = "closing"
    /\ offered = {} /\ taken = NoRequest
    /\ http' = "closed"
    /\ UNCHANGED <<vars, up, missing, cancelled, offered, taken, left>>

\* g.Run and main return: reload and http actor have; pool.start returns once it
\* has loaded, dot and agg are in a util.Wait, which ends after its current round.
Exit ==
    /\ cancelled
    /\ missing = {}
    /\ ~starting
    /\ left /\ http = "closed"
    /\ Gone
-----------------------------------------------------------------------------
\* TargetsPool by a process that is there; pool.start is an actor.
ActorLoads == InGroup /\ StartLoad /\ UNCHANGED lifeVars
UpdatePool ==
    /\ up /\ "tp" \notin missing
    /\ TakeSnapshot \/ (\E r \in Regions : UpdateRegion(r)) \/ RoundEnd \/ AwaitReady
    /\ UNCHANGED lifeVars
Agents == up /\ "hd" \notin missing /\ Env /\ UNCHANGED lifeVars
Operator == (\E f \in Configs \cup {Bad} : EditFile(f)) /\ UNCHANGED lifeVars

LifeNext ==
    \/ Boot \/ NewTargetsPool \/ RunGroup
    \/ \E c \in {"hd", "aggregator"} : Make(c)
    \/ \E c \in Components : EarlyCall(c)
    \/ \E q \in Requests : Request(q) \/ Take(q)
    \/ Answer
    \/ Term \/ Kill \/ ReloadLeaves \/ Shutdown \/ ShutdownOver \/ Exit
    \/ ActorLoads \/ UpdatePool \/ Agents \/ Operator

\* Goroutines of a process that is there run on. The runtime serves the senders
\* of a channel in their order, so a request that waits is taken unless the
\* actor leaves. updatePool's Wait may see the cancellation instead of its tick.
LifeFairness ==
    /\ WF_allVars(NewTargetsPool) /\ WF_allVars(RunGroup)
    /\ \A c \in {"hd", "aggregator"} : WF_allVars(Make(c))
    /\ \A q \in Requests : SF_allVars(Take(q))
    /\ WF_allVars(Answer)
    /\ WF_allVars(ReloadLeaves) /\ WF_allVars(Shutdown) /\ WF_allVars(ShutdownOver)
    /\ WF_allVars(Exit)
    /\ WF_allVars(ActorLoads)
    /\ WF_allVars(up /\ "tp" \notin missing /\ ~cancelled /\ TakeSnapshot /\ UNCHANGED lifeVars)
    /\ \A r \in Regions : WF_allVars(UpdateRegion(r) /\ UNCHANGED lifeVars)
    /\ WF_allVars(RoundEnd /\ UNCHANGED lifeVars)
    /\ WF_allVars(AwaitReady /\ UNCHANGED lifeVars)

LifeSafeSpec == LifeInit /\ [][LifeNext]_allVars
LifeSpec == LifeSafeSpec /\ LifeFairness
-----------------------------------------------------------------------------
(***************************************************************************)
(* Properties; PoolAsConfigured and DynamicIsVisited of TargetsPool hold    *)
(* here too, across crashes and restarts                                    *)
(***************************************************************************)
\* When the agents of a region are all gone for good, the region's discovered
\* targets go ("防止后续继续同步" in updatePool), unless the server hangs in its
\* shutdown: it then goes on answering, without updatePool.
EmptyRegionDropped ==
    Dynamic => \A r \in Regions :
        <>[](r \in DOMAIN discoverPool /\ discoverPool[r] = {})
            => \/ <>[](Entry(pool, r, "icmp") = NoEntry \/ Entry(pool, r, "icmp").by = "config")
               \/ <>[]cancelled

\* When the agents of a region are settled, their addresses are the region's
\* icmp targets, again and again, although calls crash the server while it
\* starts, it is restarted, and reloads hide them for a round.
SettledRegionListed ==
    Dynamic => \A r \in Regions, ips \in SUBSET IPs \ {{}} :
        <>[](r \in DOMAIN discoverPool /\ discoverPool[r] = ips)
            => \/ []<>(Entry(pool, r, "icmp") = [by |-> "agents", targets |-> ips])
               \/ <>[]cancelled

\* A reload request is answered, however many others there are, unless the
\* process goes first.
ReloadAnswered ==
    \A q \in Requests :
        (q \in offered \cup {taken}) ~> (q \notin offered \cup {taken} \/ cancelled)

\* "优雅关闭ing..." ends: a cancelled process exits, but for a reload request that
\* waits for the reload actor when that leaves, which Shutdown waits for (server.go:154).
ShutdownEnds == cancelled ~> (~cancelled \/ (left /\ offered # {}))
=============================================================================
