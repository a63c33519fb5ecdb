--------------------------- MODULE UpgradeProofs ----------------------------
(***************************************************************************)
(* A forced order is carried out once, and no agent is marked that did not *)
(* try it, for any set of agents, versions and orders, and any             *)
(* interleaving of orders, answers, downloads, late and lost reports and   *)
(* restarts.                                                               *)
(***************************************************************************)
EXTENDS Upgrade, TLAPS

USE UpgradeAssumption

\* The order in memory, what is left to decode and the agents' checks are well
\* formed (upgrade.go:23-38, agent/update.go).
THEOREM TypeCorrect == SafeSpec => []TypeOK
<1>1. Init => TypeOK
  BY DEF Init, TypeOK, Unordered, NoFields, Body, Nothing, NoAnswer
<1>2. TypeOK /\ [Next]_vars => TypeOK'
  <2> SUFFICES ASSUME TypeOK, [Next]_vars PROVE TypeOK'
    OBVIOUS
  <2>1. ASSUME NEW o \in Orders, BindStart(o) PROVE TypeOK'
    BY <2>1 DEF TypeOK, BindStart, Linger, NewOrder, agents
  <2>2. CASE ServerRestart
    BY <2>2 DEF TypeOK, ServerRestart, NewOrder, Unordered, NoFields, Body, Nothing
  <2>3. ASSUME NEW f \in Fields, BindField(f) PROVE TypeOK'
    <3>1. Body(bind')
      BY <2>3 DEF TypeOK, Body, BindField
    <3>2. su' \in [version : Versions \cup {Nothing}, md5Check : Versions \cup {Nothing},
                   downloadURL : Versions \cup {Nothing}, force : BOOLEAN]
      <4>1. bind[f] \in Value(f)
        BY <2>3 DEF TypeOK, Body, BindField
      <4>2. CASE f = "force"
        BY <2>3, <4>1, <4>2 DEF TypeOK, BindField, Value
      <4>3. CASE f = "version"
        BY <2>3, <4>1, <4>3 DEF TypeOK, BindField, Value
      <4>4. CASE f = "md5Check"
        BY <2>3, <4>1, <4>4 DEF TypeOK, BindField, Value
      <4>5. CASE f = "downloadURL"
        BY <2>3, <4>1, <4>5 DEF TypeOK, BindField, Value
      <4>6. QED
        BY <4>2, <4>3, <4>4, <4>5 DEF Fields
    <3>3. QED
      BY <2>3, <3>1, <3>2 DEF TypeOK, BindField, Linger, agents, history
  <2>4. ASSUME NEW a \in Agents, Ask(a) PROVE TypeOK'
    BY <2>4 DEF TypeOK, Ask, Goto, server
  <2>5. ASSUME NEW a \in Agents, ReadForce(a) PROVE TypeOK'
    BY <2>5 DEF TypeOK, ReadForce, NoAnswer, Nothing, Goto, server, history
  <2>6. ASSUME NEW a \in Agents, Judge(a) PROVE TypeOK'
    BY <2>6 DEF TypeOK, Judge, Goto, server, history
  <2>7. ASSUME NEW a \in Agents, ReadMd5(a) PROVE TypeOK'
    BY <2>7 DEF TypeOK, ReadMd5, Goto, server, history
  <2>8. ASSUME NEW a \in Agents, ReadURL(a) PROVE TypeOK'
    BY <2>8 DEF TypeOK, ReadURL, Goto, server, history
  <2>9. ASSUME NEW a \in Agents, AskFails(a) PROVE TypeOK'
    BY <2>9 DEF TypeOK, AskFails, Goto, server, history
  <2>10. ASSUME NEW a \in Agents, Install(a) \/ InstallFails(a) \/ WriteFails(a) PROVE TypeOK'
    <3>1. tried' \in [Agents -> 0..2]
      BY <2>10 DEF TypeOK, Install, InstallFails, WriteFails, Tries
    <3>2. QED
      BY <2>10, <3>1
      DEF TypeOK, Install, InstallFails, WriteFails, Matches, Goto, server, Nothing
  <2>11. ASSUME NEW a \in Agents, Hook(a) PROVE TypeOK'
    BY <2>11 DEF TypeOK, Hook, Goto, server, history
  <2>12. ASSUME NEW a \in Agents, AgentSetUpgraded(a) PROVE TypeOK'
    BY <2>12 DEF TypeOK, AgentSetUpgraded, history
  <2>13. ASSUME NEW a \in Agents, HookLost(a) PROVE TypeOK'
    BY <2>13 DEF TypeOK, HookLost, server
  <2>14. ASSUME NEW a \in Agents, HookOver(a) PROVE TypeOK'
    BY <2>14 DEF TypeOK, HookOver, Goto, server
  <2>15. ASSUME NEW a \in Agents, Kill(a) PROVE TypeOK'
    BY <2>15 DEF TypeOK, Kill, Goto, server, history
  <2>16. ASSUME NEW a \in Agents, Restart(a) PROVE TypeOK'
    BY <2>16 DEF TypeOK, Restart, Goto, NoAnswer, Nothing, server, history
  <2>17. ASSUME NEW h \in Handlers, CheckURL(h) PROVE TypeOK'
    BY <2>17 DEF TypeOK, CheckURL, agents, history
  <2>18. ASSUME NEW h \in Handlers, WriteURL(h) PROVE TypeOK'
    BY <2>18 DEF TypeOK, WriteURL, Nothing, agents, history
  <2>19. CASE UNCHANGED vars
    BY <2>19 DEF TypeOK, vars
  <2>20. QED
    BY <2>1, <2>2, <2>3, <2>4, <2>5, <2>6, <2>7, <2>8, <2>9, <2>10, <2>11, <2>12, <2>13,
       <2>14, <2>15, <2>16, <2>17, <2>18, <2>19 DEF Next, Order
<1>3. QED
  BY <1>1, <1>2, PTL DEF SafeSpec
-----------------------------------------------------------------------------
(***************************************************************************)
(* The inductive invariant                                                 *)
(***************************************************************************)
Busy == {"force", "judge", "md5", "url", "ordered", "hook", "calling", "kill", "down"}
Answering == {"judge", "md5", "url", "ordered"}

\* While Bind decodes, no check began with the order in place and none counts.
Decoding == bind # NoFields => current = {} /\ \A a \in Agents : tried[a] = 0

\* An agent at work is at work on the last order, or excused.
AtWork == \A a \in Agents : pc[a] \in Busy => a \in current \cup excused

\* What such a check has read of `force' is what the order says.
SameForce == \A a \in current : pc[a] \in Answering => got[a].force = su.force

\* A download of a forced order that is counted is counted once, and its report
\* is about to be sent, on its way with the agent waiting, or handled.
Counted ==
    \A a \in Agents : su.force /\ a \notin excused /\ tried[a] > 0 =>
        /\ tried[a] = 1
        /\ pc[a] = "hook" \/ (pc[a] = "calling" /\ a \in wire) \/ a \in upgradeMap

\* An agent told to download a forced order has not done so before.
ToldOnce ==
    \A a \in current : su.force /\ a \notin excused /\ pc[a] \in {"md5", "url", "ordered"} =>
        tried[a] = 0

\* A report follows a download.
Reported ==
    \A a \in Agents : pc[a] \in {"hook", "calling"} \/ a \in wire \cup upgradeMap =>
        tried[a] > 0 \/ a \in excused

IInv == TypeOK /\ Decoding /\ AtWork /\ SameForce /\ Counted /\ ToldOnce /\ Reported

LEMMA IInvStep == IInv /\ [Next]_vars /\ TypeOK' => IInv'
<1> SUFFICES ASSUME IInv, [Next]_vars, TypeOK' PROVE IInv'
  OBVIOUS
<1> USE DEF TypeOK, Busy, Answering
<1>1. ASSUME NEW o \in Orders, BindStart(o) PROVE IInv'
  BY <1>1 DEF IInv, Decoding, AtWork, SameForce, Counted, ToldOnce, Reported, BindStart, NewOrder,
              agents
<1>2. CASE ServerRestart
  BY <1>2 DEF IInv, Decoding, AtWork, SameForce, Counted, ToldOnce, Reported, ServerRestart,
              NewOrder, Unordered
<1>3. ASSUME NEW f \in Fields, BindField(f) PROVE IInv'
  <2>1. bind # NoFields
    BY <1>3 DEF BindField, NoFields
  <2>2. QED
    BY <1>3, <2>1 DEF IInv, Decoding, AtWork, SameForce, Counted, ToldOnce, Reported, BindField,
                      agents, history
<1>4. ASSUME NEW a \in Agents, Ask(a) PROVE IInv'
  BY <1>4 DEF IInv, Decoding, AtWork, SameForce, Counted, ToldOnce, Reported, Ask, Goto, server
<1>5. ASSUME NEW a \in Agents, ReadForce(a) PROVE IInv'
  BY <1>5 DEF IInv, Decoding, AtWork, SameForce, Counted, ToldOnce, Reported, ReadForce, Goto,
              server, history
<1>6. ASSUME NEW a \in Agents, Judge(a) PROVE IInv'
  <2>1. ASSUME a \in current, su.force, a \notin excused, pc'[a] = "md5" PROVE tried[a] = 0
    <3>1. a \notin upgradeMap
      BY <1>6, <2>1 DEF IInv, SameForce, Judge, ToUpgrade, Goto
    <3>2. QED
      BY <1>6, <2>1, <3>1 DEF IInv, Counted, Judge
  <2>2. QED
    BY <1>6, <2>1 DEF IInv, Decoding, AtWork, SameForce, Counted, ToldOnce, Reported, Judge, Goto,
                      server, history
<1>7. ASSUME NEW a \in Agents, ReadMd5(a) \/ ReadURL(a) \/ AskFails(a) PROVE IInv'
  <2>1. /\ pc[a] \in {"force", "judge", "md5", "url"}
        /\ \E l \in {"url", "ordered", "idle"} :
            /\ pc' = [pc EXCEPT ![a] = l]
            /\ l \in {"url", "ordered"} => pc[a] \in {"md5", "url"}
        /\ UNCHANGED <<su, bind, upgradeMap, wire, current, tried, excused>>
    BY <1>7 DEF ReadMd5, ReadURL, AskFails, Goto, server, history
  <2>2. \A b \in Agents : got'[b].force = got[b].force
    <3>1. CASE ReadMd5(a)
      BY <3>1 DEF IInv, ReadMd5
    <3>2. CASE ReadURL(a)
      BY <3>2 DEF IInv, ReadURL
    <3>3. CASE AskFails(a)
      BY <3>3 DEF AskFails
    <3>4. QED
      BY <1>7, <3>1, <3>2, <3>3
  <2>3. QED
    BY <2>1, <2>2 DEF IInv, Decoding, AtWork, SameForce, Counted, ToldOnce, Reported
<1>8. ASSUME NEW a \in Agents, Install(a) \/ InstallFails(a) \/ WriteFails(a) PROVE IInv'
  <2>1. /\ pc[a] = "ordered" /\ pc' = [pc EXCEPT ![a] = "hook"] /\ Tries(a)
        /\ UNCHANGED <<su, bind, upgradeMap, got, wire, current, excused>>
    BY <1>8 DEF Install, InstallFails, WriteFails, Goto, server
  <2>2. /\ a \in current => tried'[a] > 0 /\ (tried[a] = 0 => tried'[a] = 1)
        /\ a \notin current => tried'[a] = tried[a]
        /\ \A b \in Agents \ {a} : tried'[b] = tried[b]
    BY <2>1 DEF IInv, Tries
  <2>3. Decoding' /\ AtWork' /\ SameForce' /\ ToldOnce'
    BY <2>1, <2>2 DEF IInv, Decoding, AtWork, SameForce, ToldOnce
  <2>4. Counted'
    BY <2>1, <2>2 DEF IInv, Counted, ToldOnce, AtWork
  <2>5. Reported'
    BY <2>1, <2>2 DEF IInv, Reported, AtWork
  <2>6. QED
    BY <2>3, <2>4, <2>5 DEF IInv
<1>9. ASSUME NEW a \in Agents, Hook(a) PROVE IInv'
  BY <1>9 DEF IInv, Decoding, AtWork, SameForce, Counted, ToldOnce, Reported, Hook, Goto, server,
              history
<1>10. ASSUME NEW a \in Agents, AgentSetUpgraded(a) PROVE IInv'
  BY <1>10 DEF IInv, Decoding, AtWork, SameForce, Counted, ToldOnce, Reported, AgentSetUpgraded,
               history
<1>11. ASSUME NEW a \in Agents, HookLost(a) PROVE IInv'
  BY <1>11 DEF IInv, Decoding, AtWork, SameForce, Counted, ToldOnce, Reported, HookLost, server
<1>12. ASSUME NEW a \in Agents, HookOver(a) PROVE IInv'
  BY <1>12 DEF IInv, Decoding, AtWork, SameForce, Counted, ToldOnce, Reported, HookOver, Goto,
               server
<1>13. ASSUME NEW a \in Agents, Kill(a) PROVE IInv'
  BY <1>13 DEF IInv, Decoding, AtWork, SameForce, Counted, ToldOnce, Reported, Kill, Goto, server,
               history
<1>14. ASSUME NEW a \in Agents, Restart(a) PROVE IInv'
  BY <1>14 DEF IInv, Decoding, AtWork, SameForce, Counted, ToldOnce, Reported, Restart, Goto,
               server, history
<1>15. ASSUME NEW h \in Handlers, CheckURL(h) \/ WriteURL(h) PROVE IInv'
  <2>1. su'.force = su.force /\ UNCHANGED <<bind, upgradeMap, agents, history>>
    BY <1>15 DEF IInv, CheckURL, WriteURL
  <2>2. QED
    BY <2>1 DEF IInv, Decoding, AtWork, SameForce, Counted, ToldOnce, Reported, agents, history
<1>16. CASE UNCHANGED vars
  BY <1>16 DEF IInv, Decoding, AtWork, SameForce, Counted, ToldOnce, Reported, vars
<1>17. QED
  BY <1>1, <1>2, <1>3, <1>4, <1>5, <1>6, <1>7, <1>8, <1>9, <1>10, <1>11, <1>12, <1>13, <1>14,
     <1>15, <1>16 DEF Next, Order

LEMMA IInvAlways == SafeSpec => []IInv
<1>1. Init /\ TypeOK => IInv
  BY DEF Init, IInv, Decoding, AtWork, SameForce, Counted, ToldOnce, Reported, Busy, Answering
<1>2. QED
  BY <1>1, IInvStep, TypeCorrect, PTL DEF SafeSpec

\* A forced order is downloaded a second time only by an agent whose report was
\* lost or late, or that was busy while the order came (README.md:245).
THEOREM ForcedOnceAlways == SafeSpec => []ForcedOnce
<1>1. IInv => ForcedOnce
  BY DEF IInv, TypeOK, Counted, ForcedOnce
<1>2. QED
  BY <1>1, IInvAlways, PTL

\* An agent in the map tried the order, or was busy while it came: of a report
\* that comes late the server cannot tell which order it is about (rpc.go:63-68).
THEOREM MarkedHasTriedAlways == SafeSpec => []MarkedHasTried
<1>1. IInv => MarkedHasTried
  BY DEF IInv, TypeOK, Reported, MarkedHasTried
<1>2. QED
  BY <1>1, IInvAlways, PTL
-----------------------------------------------------------------------------
\* An agent told to download an order that is not forced runs an older version
\* than it names, and installs what has its checksum; its answer was read while the order
\* stayed what it was, since an order that comes puts its check out of `current'.
OlderYet ==
    \A a \in current : ~su.force /\ pc[a] \in {"md5", "url", "ordered"} => su.version > version[a]
OrderedMd5 ==
    \A a \in current : pc[a] \in {"url", "ordered"} => got[a].md5Check = su.md5Check
NewerInv == OlderYet /\ OrderedMd5

LEMMA NewerStep == IInv /\ NewerInv /\ [Next]_vars => NewerInv'
<1> SUFFICES ASSUME IInv, NewerInv, [Next]_vars PROVE NewerInv'
  OBVIOUS
<1> USE DEF NewerInv, OlderYet, OrderedMd5
<1>0. TypeOK /\ Decoding /\ SameForce
  BY DEF IInv
<1>1. CASE Order \/ ServerRestart
  BY <1>1 DEF Order, BindStart, ServerRestart, NewOrder
<1>2. ASSUME NEW f \in Fields, BindField(f) PROVE NewerInv'
  <2>1. bind # NoFields
    BY <1>2 DEF BindField, NoFields
  <2>2. current' = {}
    BY <1>0, <1>2, <2>1 DEF BindField, Decoding, history
  <2>3. QED
    BY <2>2
<1>3. ASSUME NEW a \in Agents, Ask(a) \/ AskFails(a) PROVE NewerInv'
  <2>1. /\ \E l \in {"force", "idle"} : pc' = [pc EXCEPT ![a] = l]
        /\ current' \subseteq current \cup {a} /\ UNCHANGED <<su, got, version>>
    BY <1>3 DEF Ask, AskFails, Goto, server, history
  <2>2. QED
    BY <1>0, <2>1 DEF TypeOK
<1>4. ASSUME NEW a \in Agents, ReadForce(a) PROVE NewerInv'
  BY <1>0, <1>4 DEF TypeOK, ReadForce, Goto, server, history
<1>5. ASSUME NEW a \in Agents, Judge(a) PROVE NewerInv'
  <2>1. ASSUME a \in current, ~su.force, pc'[a] = "md5" PROVE su.version > version[a]
    <3>1. ~got[a].force
      BY <1>0, <1>5, <2>1 DEF Judge, SameForce, Answering
    <3>2. ToUpgrade(a)
      BY <1>0, <1>5, <2>1 DEF Judge, Goto, TypeOK
    <3>3. QED
      BY <3>1, <3>2 DEF ToUpgrade
  <2>2. QED
    BY <1>0, <1>5, <2>1 DEF TypeOK, Judge, Goto, server, history
<1>6. ASSUME NEW a \in Agents, ReadMd5(a) PROVE NewerInv'
  BY <1>0, <1>6 DEF TypeOK, ReadMd5, Goto, server, history
<1>7. ASSUME NEW a \in Agents, ReadURL(a) PROVE NewerInv'
  BY <1>0, <1>7 DEF TypeOK, ReadURL, Goto, server, history
<1>8. ASSUME NEW a \in Agents, Install(a) \/ InstallFails(a) \/ WriteFails(a) PROVE NewerInv'
  BY <1>0, <1>8 DEF TypeOK, Install, InstallFails, WriteFails, Goto, server
<1>9. ASSUME NEW a \in Agents, Hook(a) \/ HookOver(a) \/ Kill(a) PROVE NewerInv'
  BY <1>0, <1>9 DEF TypeOK, Hook, HookOver, Kill, Goto, server, history
<1>10. ASSUME NEW a \in Agents, AgentSetUpgraded(a) \/ HookLost(a) PROVE NewerInv'
  BY <1>10 DEF AgentSetUpgraded, HookLost, server, history
<1>11. ASSUME NEW a \in Agents, Restart(a) PROVE NewerInv'
  BY <1>0, <1>11 DEF TypeOK, Restart, Goto, server, history
<1>12. ASSUME NEW h \in Handlers, CheckURL(h) \/ WriteURL(h) PROVE NewerInv'
  <2>1. /\ su'.force = su.force /\ su'.version = su.version /\ su'.md5Check = su.md5Check
        /\ UNCHANGED <<agents, history>>
    BY <1>0, <1>12 DEF TypeOK, CheckURL, WriteURL
  <2>2. QED
    BY <2>1 DEF agents, history
<1>13. CASE UNCHANGED vars
  BY <1>13 DEF vars
<1>14. QED
  BY <1>1, <1>2, <1>3, <1>4, <1>5, <1>6, <1>7, <1>8, <1>9, <1>10, <1>11, <1>12, <1>13 DEF Next

\* An order that is not forced never replaces a binary by one that is not newer
\* than the process (rpc.go:42-47), for any orders, although what an agent is
\* answered is read field by field while orders are decoded, and handlers of
\* earlier orders write their URLs over its own (update.go:55).
THEOREM OnlyNewerAlways == SafeSpec => OnlyNewer
<1> DEFINE Replaced(a) ==
        /\ disk'[a] # disk[a] /\ disk'[a] # Nothing
        /\ a \in current /\ ~su.force /\ bind = NoFields /\ su.version = su.md5Check
<1>1. Init => NewerInv
  BY DEF Init, NewerInv, OlderYet, OrderedMd5
<1>2. ASSUME IInv, NewerInv, [Next]_vars, NEW a \in Agents, Replaced(a)
      PROVE  disk'[a] > version[a]
  <2>1. disk \in [Agents -> Versions \cup {Nothing}]
    BY <1>2 DEF IInv, TypeOK
  <2>2. Install(a)
    <3>1. disk' # disk
      BY <1>2
    <3>2. PICK b \in Agents : Install(b) \/ WriteFails(b)
      BY <1>2, <3>1 DEF Next, Order, BindStart, ServerRestart, BindField, Ask, ReadForce, Judge,
         ReadMd5, ReadURL, AskFails, InstallFails, Hook, AgentSetUpgraded, HookLost, HookOver,
         Kill, Restart, CheckURL, WriteURL, vars, agents
    <3>3. a = b
      BY <1>2, <2>1, <3>2 DEF Install, WriteFails
    <3>4. QED
      BY <1>2, <2>1, <3>2, <3>3 DEF WriteFails
  <2>3. disk'[a] = su.version /\ pc[a] = "ordered"
    BY <1>2, <2>1, <2>2 DEF Install, Matches, NewerInv, OrderedMd5
  <2>4. QED
    BY <1>2, <2>3 DEF NewerInv, OlderYet
<1>3. IInv /\ NewerInv /\ [Next]_vars
        => [\A a \in Agents : Replaced(a) => disk'[a] > version[a]]_vars
  BY <1>2
<1>4. QED
  BY <1>1, <1>3, NewerStep, IInvAlways, PTL DEF SafeSpec, OnlyNewer
=============================================================================
