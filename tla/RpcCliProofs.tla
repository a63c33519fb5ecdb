---------------------------- MODULE RpcCliProofs ----------------------------
(***************************************************************************)
(* The shared RPC client, for any number of callers, tries and             *)
(* connections: it leaks no connection, and it implements Rpc, the call    *)
(* that is handled at least once when it returns nil.                      *)
(***************************************************************************)
EXTENDS RpcCli, TLAPS

USE RpcCliAssumption

\* A caller has a request exactly while its Call lasts, and what the server
\* has of a Call, or has still to get, belongs to one that lasts.
UnderWay ==
    \A c \in Callers :
        /\ args[c] = Idle <=> pc[c] = "idle"
        /\ c \in got \/ sent \cap AttemptsOf(c) # {} => pc[c] # "idle"

IInv == TypeOK /\ UnderWay

NetOK == cli \in Conns \cup {NoConn} /\ open \subseteq Conns /\ up \in BOOLEAN

\* Call returns, from whatever branch: nothing of it stays behind but stale.
LEMMA Returns ==
    ASSUME IInv, NetOK', NEW c \in Callers, NEW good \in BOOLEAN, pc[c] # "idle", Return(c, good)
    PROVE  IInv'
<1>1. args[c] \in Payloads
  BY DEF IInv, TypeOK, UnderWay
<1>2. sent' \subseteq {a \in Attempts : a[2] <= try'[a[1]]}
  BY DEF IInv, TypeOK, Return, Attempts, AttemptsOf
<1>3. stale' \subseteq Callers \X Payloads
  BY <1>1 DEF IInv, TypeOK, Return
<1>4. answered' \subseteq {d \in Callers : pc'[d] = "wait" /\ d \in got'}
  BY DEF IInv, TypeOK, Return, Goto
<1>5. pc' \in [Callers -> {"idle", "get", "try", "wait", "sleep", "close"}]
  BY DEF IInv, TypeOK, Return, Goto
<1>6. ok' \subseteq {d \in Callers : pc'[d] = "idle"}
  BY DEF IInv, TypeOK, Return, Goto
<1>7. /\ args' \in [Callers -> Payloads \cup {Idle}]
      /\ conn' \in [Callers -> Conns \cup {NoConn}]
      /\ try' \in [Callers -> 1 .. Retry]
      /\ got' \subseteq Callers
  BY DEF IInv, TypeOK, Return
<1>8. TypeOK'
  BY <1>2, <1>3, <1>4, <1>5, <1>6, <1>7 DEF TypeOK, NetOK
<1>9. UnderWay'
  BY DEF IInv, TypeOK, UnderWay, Return, Goto, AttemptsOf
<1>10. QED
  BY <1>8, <1>9 DEF IInv

LEMMA IInvStep == IInv /\ [Next]_vars => IInv'
<1> SUFFICES ASSUME IInv, [Next]_vars PROVE IInv'
  OBVIOUS
<1> USE DEF At, Goto, netVars
<1>1. ASSUME NEW c \in Callers, NEW p \in Payloads, Begin(c, p) PROVE IInv'
  BY <1>1 DEF IInv, TypeOK, UnderWay, Begin, Attempts, AttemptsOf
<1>2. ASSUME NEW c \in Callers, GetCached(c) PROVE IInv'
  BY <1>2 DEF IInv, TypeOK, UnderWay, GetCached
<1>3. ASSUME NEW c \in Callers, Dial(c) PROVE IInv'
  BY <1>3 DEF IInv, TypeOK, UnderWay, Dial, Fresh
<1>4. ASSUME NEW c \in Callers, DialFails(c) \/ Answered(c) \/ Close(c) PROVE IInv'
  <2>1. NetOK' /\ pc[c] # "idle"
    BY <1>4 DEF IInv, TypeOK, NetOK, DialFails, Answered, Close
  <2>2. \E good \in BOOLEAN : Return(c, good)
    BY <1>4 DEF DialFails, Answered, Close
  <2>3. QED
    BY <2>1, <2>2, Returns
<1>5. ASSUME NEW c \in Callers, Send(c) PROVE IInv'
  BY <1>5 DEF IInv, TypeOK, UnderWay, Send, Attempts, AttemptsOf
<1>6. ASSUME NEW c \in Callers, SendFails(c) \/ TryFails(c) PROVE IInv'
  BY <1>6 DEF IInv, TypeOK, UnderWay, SendFails, TryFails
<1>7. ASSUME NEW c \in Callers, Again(c) PROVE IInv'
  <2>1. sent' \subseteq {a \in Attempts : a[2] <= try'[a[1]]}
    BY <1>7 DEF IInv, TypeOK, Again, Attempts
  <2>2. QED
    BY <1>7, <2>1 DEF IInv, TypeOK, UnderWay, Again
<1>8. ASSUME NEW c \in Callers, NEW p \in Payloads, HandleStale(c, p) PROVE IInv'
  BY <1>8 DEF IInv, TypeOK, UnderWay, HandleStale
<1>9. ASSUME NEW c \in Callers, NEW t \in 1 .. Retry, Handle(c, t) PROVE IInv'
  <2>1. pc[c] # "idle"
    BY <1>9 DEF IInv, UnderWay, Handle, AttemptsOf
  <2>2. TypeOK'
    BY <1>9 DEF IInv, TypeOK, Handle
  <2>3. UnderWay'
    BY <1>9, <2>1 DEF IInv, UnderWay, Handle
  <2>4. QED
    BY <2>2, <2>3 DEF IInv
<1>10. ASSUME NEW c \in Callers, NEW t \in 1 .. Retry, Lose(c, t) PROVE IInv'
  <2>1. TypeOK'
    BY <1>10 DEF IInv, TypeOK, Lose
  <2>2. UnderWay'
    <3>1. \A d \in Callers : sent' \cap AttemptsOf(d) \subseteq sent \cap AttemptsOf(d)
      BY <1>10 DEF Lose
    <3>2. QED
      BY <1>10, <3>1 DEF IInv, UnderWay, Lose
  <2>3. QED
    BY <2>1, <2>2 DEF IInv
<1>11. CASE Break \/ Weather
  <2>1. NetOK' /\ UNCHANGED <<pc, args, conn, try, sent, answered, got, stale, ok>>
    BY <1>11 DEF IInv, TypeOK, NetOK, Break, Weather
  <2>2. QED
    BY <2>1 DEF IInv, TypeOK, NetOK, UnderWay
<1>12. CASE UNCHANGED vars
  BY <1>12 DEF IInv, TypeOK, UnderWay, vars
<1>13. QED
  BY <1>1, <1>2, <1>3, <1>4, <1>5, <1>6, <1>7, <1>8, <1>9, <1>10, <1>11, <1>12 DEF Next, Step

LEMMA IInvAlways == SafeSpec => []IInv
<1>1. Init => IInv
  BY DEF Init, IInv, TypeOK, UnderWay, Attempts, AttemptsOf
<1>2. QED
  BY <1>1, IInvStep, PTL DEF SafeSpec

\* The client's fields and the state of each Call are well formed: no try
\* beyond retry, no answer to a try given up (agent/rpc.go:40-66).
THEOREM TypeCorrect == SafeSpec => []TypeOK
<1>1. IInv => TypeOK
  BY DEF IInv
<1>2. QED
  BY <1>1, IInvAlways, PTL

\* No connection but the client's own stays open, whichever caller dials or
\* closes (getCli and closeCli, agent/rpc.go:76-120).
THEOREM NoLeakAlways == SafeSpec => []NoLeak
<1>1. Init => NoLeak
  BY DEF Init, NoLeak
<1>2. IInv /\ NoLeak /\ [Next]_vars => NoLeak'
  <2> SUFFICES ASSUME IInv, NoLeak, [Next]_vars PROVE NoLeak'
    OBVIOUS
  <2> USE DEF netVars
  <2>1. ASSUME NEW c \in Callers, NEW p \in Payloads, Begin(c, p) \/ HandleStale(c, p)
        PROVE NoLeak'
    BY <2>1 DEF NoLeak, Begin, HandleStale
  <2>2. ASSUME NEW c \in Callers, Step(c) PROVE NoLeak'
    <3>1. CASE Dial(c)
      BY <3>1 DEF IInv, TypeOK, NoLeak, Dial, Fresh
    <3>2. CASE Close(c)
      BY <3>2 DEF NoLeak, Close
    <3>3. CASE UNCHANGED netVars
      BY <3>3 DEF NoLeak
    <3>4. QED
      BY <2>2, <3>1, <3>2, <3>3
      DEF Step, GetCached, DialFails, Send, SendFails, Answered, TryFails, Again
  <2>3. ASSUME NEW c \in Callers, NEW t \in 1 .. Retry, Handle(c, t) \/ Lose(c, t) PROVE NoLeak'
    BY <2>3 DEF NoLeak, Handle, Lose
  <2>4. CASE Break \/ Weather
    BY <2>4 DEF NoLeak, Break, Weather
  <2>5. CASE UNCHANGED vars
    BY <2>5 DEF NoLeak, vars
  <2>6. QED
    BY <2>1, <2>2, <2>3, <2>4, <2>5 DEF Next
<1>3. QED
  BY <1>1, <1>2, IInvAlways, PTL DEF SafeSpec

\* What ReportPath and the other callers build on: a Call that returns nil was
\* handled at least once. Returning maps to ReturnNil or ReturnError, handling a
\* try to Handle, and all between is a stutter (agent/rpc.go:40-66).
THEOREM Implements == SafeSpec => AtLeastOnce
<1>1. Init => R!RpcInit
  BY DEF Init, R!RpcInit
<1>2. IInv /\ [Next]_vars => [R!RpcNext]_<<args, got, stale, ok>>
  <2> SUFFICES ASSUME IInv, [Next]_vars PROVE R!RpcNext \/ UNCHANGED <<args, got, stale, ok>>
    OBVIOUS
  <2> USE DEF At, Goto, netVars
  <2>1. ASSUME NEW c \in Callers, NEW p \in Payloads, Begin(c, p) PROVE R!RpcNext
    <3>1. R!Begin(c, p)
      BY <2>1 DEF IInv, UnderWay, Begin, R!Begin
    <3>2. QED
      BY <3>1 DEF R!RpcNext
  <2>2. ASSUME NEW c \in Callers, NEW good \in BOOLEAN, Return(c, good), pc[c] # "idle",
               good => c \in got
        PROVE  R!RpcNext
    <3>1. R!Return(c)
      BY <2>2 DEF IInv, UnderWay, Return, R!Return
    <3>2. R!ReturnNil(c) \/ R!ReturnError(c)
      BY <2>2, <3>1 DEF Return, R!ReturnNil, R!ReturnError
    <3>3. QED
      BY <3>2 DEF R!RpcNext
  <2>3. ASSUME NEW c \in Callers, DialFails(c) \/ Answered(c) \/ Close(c) PROVE R!RpcNext
    <3>1. pc[c] # "idle"
      BY <2>3 DEF DialFails, Answered, Close
    <3>2. \E good \in BOOLEAN : Return(c, good) /\ (good => c \in got)
      BY <2>3 DEF IInv, TypeOK, DialFails, Answered, Close
    <3>3. QED
      BY <2>2, <3>1, <3>2
  <2>4. ASSUME NEW c \in Callers, NEW t \in 1 .. Retry, Handle(c, t) PROVE R!RpcNext
    <3>1. args[c] # Idle
      BY <2>4 DEF IInv, UnderWay, Handle, AttemptsOf
    <3>2. R!Handle(c)
      BY <2>4, <3>1 DEF Handle, R!Handle
    <3>3. QED
      BY <3>2 DEF R!RpcNext
  <2>5. ASSUME NEW c \in Callers, NEW p \in Payloads, HandleStale(c, p) PROVE R!RpcNext
    <3>1. R!HandleStale(c, p)
      BY <2>5 DEF HandleStale, R!HandleStale
    <3>2. QED
      BY <3>1 DEF R!RpcNext
  <2>6. ASSUME NEW c \in Callers,
               \/ GetCached(c) \/ Dial(c) \/ Send(c) \/ SendFails(c) \/ TryFails(c) \/ Again(c)
               \/ \E t \in 1 .. Retry : Lose(c, t)
        PROVE  UNCHANGED <<args, got, stale, ok>>
    BY <2>6 DEF GetCached, Dial, Send, SendFails, TryFails, Again, Lose
  <2>7. CASE Break \/ Weather \/ UNCHANGED vars
    BY <2>7 DEF Break, Weather, vars
  <2>8. QED
    BY <2>1, <2>3, <2>4, <2>5, <2>6, <2>7 DEF Next, Step
<1>3. QED
  BY <1>1, <1>2, IInvAlways, PTL DEF SafeSpec, AtLeastOnce, R!RpcSpec, R!rpcVars
=============================================================================
