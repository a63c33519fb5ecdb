------------------------------ MODULE Upgrade -------------------------------
(***************************************************************************)
(* Self upgrade: the order an operator posts to the server                 *)
(* (server/update.go, SelfUpgrade.Bind), what a server answers an agent    *)
(* that asks (GetSelfUpgrade), the agent's download and its report of      *)
(* success (agent/update.go, upgrade.Upgrade), and the supervisor that     *)
(* restarts it.                                                            *)
(*                                                                         *)
(* A version is its rank in the order of strings.Compare, which is not the *)
(* order of releases: "0.0.10" comes before "0.0.9".  A download URL and a *)
(* checksum are named by the version of the binary they belong to, or      *)
(* Nothing.  Bind holds the lock; the fields an answer is made of are read *)
(* without it, one after the other, and so is the URL by the handler of    *)
(* the order, which writes it back once it has parsed.                     *)
(***************************************************************************)
EXTENDS Naturals

CONSTANTS
    Agents,
    Versions,       \* positive numbers
    ServerVersion,  \* of the server's own binary
    Orders,         \* the bodies posted: functions from some of Fields to values
    Handlers        \* of orders, those that Bind may leave behind before they read the URL

Nothing == 0
Fields == {"version", "md5Check", "downloadURL", "force"}


Value(f) == IF f = "force" THEN BOOLEAN ELSE Versions \cup {Nothing}
Body(o) == DOMAIN o \subseteq Fields /\ \A f \in DOMAIN o : o[f] \in Value(f)

ASSUME UpgradeAssumption ==
    /\ Versions \subseteq Nat \ {0}
    /\ ServerVersion \in Versions
    /\ \A o \in Orders : Body(o)

VARIABLES
    su,             \* the order in memory
    bind,           \* the fields Bind has still to decode; it holds s.m while there are any
    lingering,      \* handlers Bind has left that have not read the URL
    uri,            \* handler -> the URL it has read and is to write back, or Nothing
    upgradeMap,     \* agents that reported success since the last order
    pc,             \* agent -> where its upgrade check is
    got,            \* agent -> the answer read so far
    version,        \* agent -> version of its process
    disk,           \* agent -> version of the binary on its disk, or Nothing
    wire,           \* SelfUpgradeSuccess calls sent and not handled
    current,        \* history: agents whose check began with the last order in place
    tried,          \* history: agent -> its downloads of the last order, at most 2
    excused         \* history: agents whose report failed, or who were busy while the order came

server == <<su, bind, lingering, uri, upgradeMap>>
agents == <<pc, got, version, disk, wire>>
history == <<current, tried, excused>>
vars == <<su, bind, lingering, uri, upgradeMap, pc, got, version, disk, wire, current, tried,
          excused>>

Unordered == [version |-> ServerVersion, md5Check |-> Nothing, downloadURL |-> Nothing,
              force |-> FALSE]
NoFields == [f \in {} |-> Nothing]

TypeOK ==
    /\ su \in [version : Versions \cup {Nothing}, md5Check : Versions \cup {Nothing},
               downloadURL : Versions \cup {Nothing}, force : BOOLEAN]
    /\ Body(bind)
    /\ lingering \subseteq Handlers
    /\ uri \in [Handlers -> Versions \cup {Nothing}]
    /\ upgradeMap \subseteq Agents
    /\ pc \in [Agents -> {"idle", "force", "judge", "md5", "url", "ordered", "hook", "calling",
                          "kill", "down"}]
    /\ got \in [Agents -> [force : BOOLEAN, md5Check : Versions \cup {Nothing},
                           downloadURL : Versions \cup {Nothing}]]
    /\ version \in [Agents -> Versions]
    /\ disk \in [Agents -> Versions \cup {Nothing}]
    /\ wire \subseteq Agents /\ current \subseteq Agents /\ excused \subseteq Agents
    /\ tried \in [Agents -> 0..2]

NoAnswer == [force |-> FALSE, md5Check |-> Nothing, downloadURL |-> Nothing]

Init ==
    /\ su = Unordered /\ bind = NoFields /\ upgradeMap = {}
    /\ lingering = {} /\ uri = [h \in Handlers |-> Nothing]
    /\ pc = [a \in Agents |-> "idle"]
    /\ got = [a \in Agents |-> NoAnswer]
    /\ version \in [Agents -> Versions]
    /\ disk = version
    /\ wire = {} /\ current = {} /\ excused = {}
    /\ tried = [a \in Agents |-> 0]

Goto(a, l) == pc' = [pc EXCEPT ![a] = l]
-----------------------------------------------------------------------------
(***************************************************************************)
(* The operator and the server process                                     *)
(***************************************************************************)
\* The history of an order begins: what agents do meanwhile belongs to no order.
NewOrder ==
    /\ current' = {}
    /\ tried' = [a \in Agents |-> 0]
    /\ excused' = {a \in Agents : pc[a] # "idle" \/ a \in wire}

\* Bind unlocks when no field is left. What update does next makes no difference
\* if it does so at once, or if the body was not JSON to its end; or else it is
\* one of Handlers that does.
Linger ==
    /\ \/ UNCHANGED lingering
       \/ \E h \in Handlers \ lingering :
            bind' = NoFields /\ uri[h] = Nothing /\ lingering' = lingering \cup {h}
    /\ UNCHANGED uri

\* Mutant of BindStart: those upgraded before stay in the map.
BindStartKeep(o) ==
    /\ bind = NoFields
    /\ bind' = o
    /\ Linger
    /\ NewOrder
    /\ UNCHANGED <<su, upgradeMap, agents>>

\* update: Bind locks and empties the map, whatever comes of the body.
BindStart(o) ==
    /\ bind = NoFields
    /\ upgradeMap' = {}
    /\ bind' = o
    /\ Linger
    /\ NewOrder
    /\ UNCHANGED <<su, agents>>

\* The decoder writes one of the fields given, and leaves the others as the
\* last order had them.
BindField(f) ==
    /\ f \in DOMAIN bind
    /\ su' = [su EXCEPT ![f] = bind[f]]
    /\ bind' = [g \in DOMAIN bind \ {f} |-> bind[g]]
    /\ Linger
    /\ UNCHANGED <<upgradeMap, agents, history>>

\* The URL is read without the lock: another order may be in its place, or half
\* of one. If it does not parse the operator is told, and the order stands.
CheckURL(h) ==
    /\ h \in lingering
    /\ lingering' = lingering \ {h}
    /\ uri' = [uri EXCEPT ![h] = su.downloadURL]
    /\ UNCHANGED <<su, bind, upgradeMap, agents, history>>

\* Written back without the lock, over whatever an order has put there since.
WriteURL(h) ==
    /\ uri[h] # Nothing
    /\ su' = [su EXCEPT !.downloadURL = uri[h]]
    /\ uri' = [uri EXCEPT ![h] = Nothing]
    /\ UNCHANGED <<bind, lingering, upgradeMap, agents, history>>

\* Orders live in memory. A call under way fails.
ServerRestart ==
    /\ su' = Unordered /\ bind' = NoFields /\ upgradeMap' = {}
    /\ lingering' = {} /\ uri' = [h \in Handlers |-> Nothing]
    /\ wire' = {}
    /\ NewOrder
    /\ UNCHANGED <<pc, got, version, disk>>
-----------------------------------------------------------------------------
(***************************************************************************)
(* The answer, Server.GetSelfUpgrade                                       *)
(***************************************************************************)
Ask(a) ==
    /\ pc[a] = "idle"
    /\ Goto(a, "force")
    /\ IF bind = NoFields
       THEN current' = current \cup {a} /\ UNCHANGED excused
       ELSE excused' = excused \cup {a} /\ UNCHANGED current
    /\ UNCHANGED <<server, got, version, disk, wire, tried>>

\* `!u.Force', without the lock.
ReadForce(a) ==
    /\ pc[a] = "force"
    /\ got' = [got EXCEPT ![a] = [NoAnswer EXCEPT !.force = su.force]]
    /\ Goto(a, "judge")
    /\ UNCHANGED <<server, version, disk, wire, history>>

\* Mutants of ToUpgrade: the map is not asked; any other version is newer; the
\* map is asked whether forced or not.
ToUpgradeAlways(a) == got[a].force \/ su.version > version[a]
ToUpgradeOther(a) == IF got[a].force THEN a \notin upgradeMap ELSE su.version # version[a]
ToUpgradeUnmarked(a) == a \notin upgradeMap /\ (got[a].force \/ su.version > version[a])

\* CheckVersion, or AgentIsUpgraded.
ToUpgrade(a) == IF got[a].force THEN a \notin upgradeMap ELSE su.version > version[a]

\* AgentIsUpgraded takes the lock; u.Version is read without it.
Judge(a) ==
    /\ pc[a] = "judge"
    /\ got[a].force => bind = NoFields
    /\ Goto(a, IF ToUpgrade(a) THEN "md5" ELSE "idle")
    /\ UNCHANGED <<server, got, version, disk, wire, history>>

ReadMd5(a) ==
    /\ pc[a] = "md5"
    /\ got' = [got EXCEPT ![a].md5Check = su.md5Check]
    /\ Goto(a, "url")
    /\ UNCHANGED <<server, version, disk, wire, history>>

ReadURL(a) ==
    /\ pc[a] = "url"
    /\ got' = [got EXCEPT ![a].downloadURL = su.downloadURL]
    /\ Goto(a, "ordered")
    /\ UNCHANGED <<server, version, disk, wire, history>>

\* The call fails on its way there, at the lock or on its way back: the agent
\* waits for its next tick. Where between two reads it does so makes no difference.
AskFails(a) ==
    /\ pc[a] \in {"judge", "url"}
    /\ Goto(a, "idle")
    /\ UNCHANGED <<server, got, version, disk, wire, history>>
-----------------------------------------------------------------------------
(***************************************************************************)
(* The agent, upgrade.Upgrade                                              *)
(***************************************************************************)
\* A download of the order last posted.
Tries(a) == tried' = [tried EXCEPT ![a] = IF a \in current /\ @ < 2 THEN @ + 1 ELSE @]

Matches(a) == got[a].downloadURL # Nothing /\ got[a].md5Check = got[a].downloadURL

\* The binary is there and has the checksum; it replaces the one on disk.
Install(a) ==
    /\ pc[a] = "ordered" /\ Matches(a)
    /\ disk' = [disk EXCEPT ![a] = got[a].downloadURL]
    /\ Tries(a)
    /\ Goto(a, "hook")
    /\ UNCHANGED <<server, got, version, wire, current, excused>>

\* Mutant of InstallFails: only success is reported.
InstallFailsUnreported(a) ==
    /\ pc[a] = "ordered"
    /\ Tries(a)
    /\ Goto(a, "kill")
    /\ UNCHANGED <<server, got, version, disk, wire, current, excused>>

\* The download or the checksum fails: the deferred function runs all the same.
InstallFails(a) ==
    /\ pc[a] = "ordered"
    /\ Tries(a)
    /\ Goto(a, "hook")
    /\ UNCHANGED <<server, got, version, disk, wire, current, excused>>

\* The old binary is removed and the new one cannot be written.
WriteFails(a) ==
    /\ pc[a] = "ordered" /\ Matches(a)
    /\ disk' = [disk EXCEPT ![a] = Nothing]
    /\ Tries(a)
    /\ Goto(a, "hook")
    /\ UNCHANGED <<server, got, version, wire, current, excused>>

\* The hook: SelfUpgradeSuccess is called whether the upgrade succeeded or not.
Hook(a) ==
    /\ pc[a] = "hook"
    /\ wire' = wire \cup {a}
    /\ Goto(a, "calling")
    /\ UNCHANGED <<server, got, version, disk, history>>

\* The server handles it, in time or long after; AgentSetUpgraded locks.
AgentSetUpgraded(a) ==
    /\ a \in wire /\ bind = NoFields
    /\ upgradeMap' = upgradeMap \cup {a}
    /\ wire' = wire \ {a}
    /\ UNCHANGED <<su, bind, lingering, uri, pc, got, version, disk, history>>

\* The call never gets there.
HookLost(a) ==
    /\ a \in wire
    /\ wire' = wire \ {a}
    /\ excused' = excused \cup {a}
    /\ UNCHANGED <<server, pc, got, version, disk, current, tried>>

\* The hook's call is over, answered or timed out; an error is only logged.
HookOver(a) ==
    /\ pc[a] = "calling"
    /\ excused' = IF a \in wire THEN excused \cup {a} ELSE excused
    /\ Goto(a, "kill")
    /\ UNCHANGED <<server, got, version, disk, wire, current, tried>>

\* SIGTERM to the agent's own process.
Kill(a) ==
    /\ pc[a] = "kill"
    /\ Goto(a, "down")
    /\ UNCHANGED <<server, got, version, disk, wire, history>>

\* The supervisor starts what is on disk.
Restart(a) ==
    /\ pc[a] = "down" /\ disk[a] # Nothing
    /\ version' = [version EXCEPT ![a] = disk[a]]
    /\ Goto(a, "idle")
    /\ got' = [got EXCEPT ![a] = NoAnswer]
    /\ UNCHANGED <<server, disk, wire, history>>
-----------------------------------------------------------------------------
Order == \E o \in Orders : BindStart(o)

Next ==
    \/ Order \/ ServerRestart
    \/ \E f \in Fields : BindField(f)
    \/ \E h \in Handlers : CheckURL(h) \/ WriteURL(h)
    \/ \E a \in Agents :
        \/ Ask(a) \/ ReadForce(a) \/ Judge(a) \/ ReadMd5(a) \/ ReadURL(a) \/ AskFails(a)
        \/ Install(a) \/ InstallFails(a) \/ WriteFails(a)
        \/ Hook(a) \/ AgentSetUpgraded(a) \/ HookLost(a) \/ HookOver(a) \/ Kill(a) \/ Restart(a)

SafeSpec == Init /\ [][Next]_vars

(***************************************************************************)
(* The ticker, the deferred function and the supervisor go on; of calls,   *)
(* downloads and reports made again and again, some get through.           *)
(***************************************************************************)
Fairness ==
    /\ \A f \in Fields : WF_vars(BindField(f))
    /\ \A h \in Handlers : WF_vars(CheckURL(h)) /\ WF_vars(WriteURL(h))
    /\ \A a \in Agents :
        /\ WF_vars(Ask(a)) /\ WF_vars(Hook(a)) /\ WF_vars(HookOver(a)) /\ WF_vars(Kill(a))
        /\ WF_vars(Restart(a)) /\ WF_vars(ReadForce(a)) /\ WF_vars(ReadMd5(a))
        /\ WF_vars(InstallFails(a) \/ WriteFails(a) \/ Install(a))
        /\ SF_vars(Judge(a)) /\ SF_vars(ReadURL(a))
        /\ SF_vars(Install(a)) /\ SF_vars(AgentSetUpgraded(a))

Spec == SafeSpec /\ Fairness
-----------------------------------------------------------------------------
(***************************************************************************)
(* Properties                                                              *)
(***************************************************************************)
\* A forced order is carried out once by an agent whose calls about it do not
\* fail: it is downloaded again only if the report of the first download was
\* lost or late, or the agent was upgrading when the order came (README.md:245,
\* "只执行一次").
ForcedOnce ==
    \A a \in Agents :
        su.force /\ bind = NoFields /\ tried[a] > 1 => a \in excused

\* The map holds no agent that has not tried the order, but for one that was
\* busy with the order before, whose report comes late (rpc.go:63-68).
MarkedHasTried == \A a \in upgradeMap : tried[a] > 0 \/ a \in excused

\* An order that is not forced never replaces a binary by one that is not
\* newer, if its checksum is that of the version it names and no order came in
\* between (rpc.go:42-47): whatever URL an earlier order's handler wrote over its
\* own (update.go:55), the checksum is the order's.
OnlyNewer ==
    [][\A a \in Agents :
        /\ disk'[a] # disk[a] /\ disk'[a] # Nothing
        /\ a \in current /\ ~su.force /\ bind = NoFields /\ su.version = su.md5Check
        => disk'[a] > version[a]]_vars

LastOrder == <>[][~Order /\ ~ServerRestart]_vars

\* After the last order, a forced one, every agent is marked and goes on without
\* another restart, however often its upgrade failed and its reports were lost;
\* unless it has lost its binary (README.md:245, "防止失败无限重启").
ForcedSettles ==
    \A a \in Agents :
        LastOrder /\ <>[]su.force
            => <>[](a \in upgradeMap /\ pc[a] # "down") \/ <>[](disk[a] = Nothing)

\* After the last order, one that is not forced and that its URL serves, every
\* agent comes to run a version that is not older, unless it has lost its
\* binary (README.md:245, "按版本号正常升级").
NormalSettles ==
    \A a \in Agents :
        LastOrder /\ <>[](~su.force /\ su.version = su.downloadURL /\ su.md5Check = su.version)
            => <>[](version[a] >= su.version) \/ <>[](disk[a] = Nothing)
=============================================================================
