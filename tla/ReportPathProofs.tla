-------------------------- MODULE ReportPathProofs --------------------------
(***************************************************************************)
(* No result is lost between a probe and the server without a trace, and   *)
(* none acknowledged is sent again, for any targets, capacity and batch    *)
(* size, whatever reports fail, repeat or come late, from the start of an  *)
(* agent to its exit.                                                      *)
(***************************************************************************)
EXTENDS AgentLife, TLAPS

USE ReportAssumption

LEMMA RangeAppend ==
    ASSUME NEW S, NEW s \in Seq(S), NEW e \in S
    PROVE  Range(Append(s, e)) = Range(s) \cup {e}
<1>1. \A i \in DOMAIN s : Append(s, e)[i] = s[i]
  OBVIOUS
<1>2. Append(s, e)[Len(s) + 1] = e /\ DOMAIN Append(s, e) = 1 .. (Len(s) + 1)
  OBVIOUS
<1>3. DOMAIN s = 1 .. Len(s) /\ Len(s) \in Nat
  OBVIOUS
<1>4. QED
  BY <1>1, <1>2, <1>3 DEF Range

LEMMA RangeHeadTail ==
    ASSUME NEW S, NEW s \in Seq(S), s # <<>>
    PROVE  Range(s) = {Head(s)} \cup Range(Tail(s))
<1>1. Len(s) \in Nat \ {0} /\ DOMAIN s = 1 .. Len(s) /\ Head(s) = s[1]
  OBVIOUS
<1>2. DOMAIN Tail(s) = 1 .. (Len(s) - 1) /\ \A i \in 1 .. (Len(s) - 1) : Tail(s)[i] = s[i + 1]
  OBVIOUS
<1>3. \A i \in DOMAIN s : i = 1 \/ (i - 1 \in DOMAIN Tail(s) /\ Tail(s)[i - 1] = s[i])
  BY <1>1, <1>2
<1>4. \A i \in DOMAIN Tail(s) : i + 1 \in DOMAIN s /\ Tail(s)[i] = s[i + 1]
  BY <1>1, <1>2
<1>5. 1 \in DOMAIN s
  BY <1>1
<1>6. ASSUME NEW e \in Range(s) PROVE e = Head(s) \/ e \in Range(Tail(s))
  <2>1. PICK i \in DOMAIN s : s[i] = e
    BY <1>6 DEF Range
  <2>2. CASE i = 1
    BY <2>1, <2>2, <1>1
  <2>3. CASE i # 1
    BY <2>1, <2>3, <1>3 DEF Range
  <2>4. QED
    BY <2>2, <2>3
<1>7. ASSUME NEW e \in Range(Tail(s)) PROVE e \in Range(s)
  <2>1. PICK i \in DOMAIN Tail(s) : Tail(s)[i] = e
    BY <1>7 DEF Range
  <2>2. QED
    BY <2>1, <1>4 DEF Range
<1>8. Head(s) \in Range(s)
  BY <1>1, <1>5 DEF Range
<1>9. QED
  BY <1>6, <1>7, <1>8

LEMMA RangeTyped ==
    ASSUME NEW S, NEW s \in Seq(S)
    PROVE  Range(s) \subseteq S
BY DEF Range

LEMMA InitTyped == Init => TypeOK
<1> SUFFICES ASSUME Init PROVE TypeOK
  OBVIOUS
<1>1. R!RpcTypeOK /\ calling[Batch] = Idle
  BY DEF Init, R!RpcTypeOK, R!RpcInit
<1>2. ch \in Seq(Points) /\ pts \in Seq(Points) /\ Len(ch) = 0 /\ Len(pts) = 0
  BY DEF Init
<1>3. probe \in [Points -> {"none", "probing", "sending", "sent", "lost"}]
  BY DEF Init
<1>4. round \in 0 .. Rounds /\ expired \subseteq 1 .. round /\ 0 <= Cap /\ 0 <= MaxPoints
  BY DEF Init
<1>5. QED
  BY <1>1, <1>2, <1>3, <1>4 DEF Init, TypeOK

\* Each step of the report path keeps it well formed.
LEMMA TypeStep == TypeOK /\ [Next]_vars => TypeOK'
<1> SUFFICES ASSUME TypeOK, [Next]_vars PROVE TypeOK'
  OBVIOUS
<1> USE DEF R!RpcTypeOK, Batch, sendVars, probeVars, rpcVars
<1>1. CASE Prober
  <2>1. probe' \in [Points -> {"none", "probing", "sending", "sent", "lost"}]
    BY <1>1 DEF TypeOK, Prober
  <2>2. QED
    BY <1>1, <2>1 DEF TypeOK, Prober
<1>2. ASSUME NEW r \in 1 .. Rounds, Expire(r) PROVE TypeOK'
  BY <1>2 DEF TypeOK, Expire
<1>3. ASSUME NEW p \in Points, Probed(p) \/ GiveUp(p) PROVE TypeOK'
  BY <1>3 DEF TypeOK, Probed, GiveUp
<1>4. ASSUME NEW p \in Points, Send(p) PROVE TypeOK'
  <2>1. ch' \in Seq(Points) /\ Len(ch') <= Cap
    BY <1>4 DEF TypeOK, Send
  <2>2. QED
    BY <1>4, <2>1 DEF TypeOK, Send
<1>5. CASE Receive
  <2>0. ch \in Seq(Points) /\ ch # <<>> /\ Len(ch) <= Cap
    BY <1>5 DEF TypeOK, Receive
  <2>1. Head(ch) \in Points /\ ch' \in Seq(Points) /\ Len(ch') <= Cap
    <3>1. Head(ch) \in Points /\ Tail(ch) \in Seq(Points) /\ Len(Tail(ch)) = Len(ch) - 1
      BY <2>0
    <3>2. QED
      BY <1>5, <2>0, <3>1 DEF Receive
  <2>2. pts' \in Seq(Points) /\ Len(pts') <= MaxPoints /\ dropped' \subseteq Points
    <3>1. Len(pts) \in Nat /\ pts \in Seq(Points) /\ Len(pts) <= MaxPoints
          /\ dropped \subseteq Points
      BY DEF TypeOK
    <3>2. CASE Len(pts) >= MaxPoints
      BY <1>5, <2>1, <3>1, <3>2 DEF Receive
    <3>3. CASE ~(Len(pts) >= MaxPoints)
      <4>1. pts' = Append(pts, Head(ch)) /\ dropped' = dropped
        BY <1>5, <3>3 DEF Receive
      <4>2. Append(pts, Head(ch)) \in Seq(Points)
            /\ Len(Append(pts, Head(ch))) = Len(pts) + 1
        BY <2>1, <3>1
      <4>3. Len(pts) + 1 <= MaxPoints
        BY <3>1, <3>3
      <4>4. QED
        BY <3>1, <4>1, <4>2, <4>3
    <3>4. QED
      BY <3>2, <3>3
  <2>3. QED
    BY <1>5, <2>1, <2>2 DEF TypeOK, Receive
<1>6. CASE Report
  BY <1>6 DEF TypeOK, Report, R!Begin
<1>7. CASE ReportOk
  <2>1. acked' \subseteq Points
    BY <1>7, RangeTyped DEF TypeOK, ReportOk
  <2>2. R!RpcTypeOK' /\ calling'["batchSend"] = Idle
    BY <1>7 DEF TypeOK, ReportOk, R!ReturnNil, R!Return
  <2>3. QED
    BY <1>7, <2>1, <2>2 DEF TypeOK, ReportOk
<1>8. CASE ReportFails
  BY <1>8 DEF TypeOK, ReportFails, R!ReturnError, R!Return
<1>9. CASE Quit
  BY <1>9 DEF TypeOK, Quit
<1>10. CASE Handle
  <2>1. received' \subseteq Points
    BY <1>10, RangeTyped DEF TypeOK, Handle, R!Handle
  <2>2. QED
    BY <1>10, <2>1 DEF TypeOK, Handle, R!Handle
<1>11. CASE HandleStale
  <2>1. PICK m \in stale : /\ R!HandleStale(Batch, m[2])
                           /\ received' \in {received, received \cup Range(m[2])}
                           /\ UNCHANGED <<probeVars, ch, pc, pts, dropped, acked>>
    BY <1>11 DEF HandleStale
  <2>2. m[2] \in Seq(Points)
    BY <2>1 DEF TypeOK
  <2>3. received' \subseteq Points
    BY <2>1, <2>2, RangeTyped DEF TypeOK
  <2>4. QED
    BY <2>1, <2>3 DEF TypeOK, R!HandleStale
<1>12. CASE Stop \/ Recover
  BY <1>12 DEF TypeOK, Stop, Recover
<1>13. CASE UNCHANGED vars
  BY <1>13 DEF TypeOK, vars
<1>14. QED
  BY <1>1, <1>2, <1>3, <1>4, <1>5, <1>6, <1>7, <1>8, <1>9, <1>10, <1>11, <1>12, <1>13 DEF Next

\* The channel never holds more than its capacity, batchSend never more than
\* maxPoints, and a report carries what batchSend holds (target.go:84-149).
THEOREM TypeCorrect == SafeSpec => []TypeOK
<1>1. Init => TypeOK
  BY InitTyped
<1>2. TypeOK /\ [Next]_vars => TypeOK'
  BY TypeStep
<1>3. QED
  BY <1>1, <1>2, PTL DEF SafeSpec
-----------------------------------------------------------------------------
\* A report the server has handled holds nothing the server does not have.
HandledIsReceived == Batch \in got => Range(pts) \subseteq received
KeptInv == Kept /\ HandledIsReceived

\* Each step of the report path keeps what was sent.
LEMMA KeptStep == TypeOK /\ KeptInv /\ [Next]_vars => KeptInv'
<1> SUFFICES ASSUME TypeOK, KeptInv, [Next]_vars PROVE KeptInv'
  OBVIOUS
<1> USE DEF KeptInv, Kept, HandledIsReceived, sendVars, probeVars, rpcVars
<1>1. CASE Prober
  BY <1>1 DEF Prober, TypeOK
<1>2. ASSUME NEW r \in 1 .. Rounds, Expire(r) PROVE KeptInv'
  BY <1>2 DEF Expire
<1>3. ASSUME NEW p \in Points, Probed(p) \/ GiveUp(p) PROVE KeptInv'
  BY <1>3 DEF TypeOK, Probed, GiveUp
<1>4. ASSUME NEW p \in Points, Send(p) PROVE KeptInv'
  <2>1. Range(ch') = Range(ch) \cup {p}
    BY <1>4, RangeAppend DEF TypeOK, Send
  <2>2. QED
    BY <1>4, <2>1 DEF TypeOK, Send
<1>5. CASE Receive
  <2>1. Range(ch) = {Head(ch)} \cup Range(ch') /\ Head(ch) \in Points
    BY <1>5, RangeHeadTail DEF TypeOK, Receive
  <2>2. \/ Range(pts') = Range(pts) \cup {Head(ch)} /\ dropped' = dropped
        \/ pts' = pts /\ dropped' = dropped \cup {Head(ch)}
    <3>1. CASE Len(pts) >= MaxPoints
      BY <1>5, <3>1 DEF Receive
    <3>2. CASE ~(Len(pts) >= MaxPoints)
      <4>1. pts' = Append(pts, Head(ch)) /\ dropped' = dropped
        BY <1>5, <3>2 DEF Receive
      <4>2. pts \in Seq(Points)
        BY DEF TypeOK
      <4>3. QED
        BY <2>1, <4>1, <4>2, RangeAppend
    <3>3. QED
      BY <3>1, <3>2
  <2>3. Batch \notin got
    BY <1>5 DEF TypeOK, R!RpcTypeOK, Receive
  <2>4. QED
    BY <1>5, <2>1, <2>2, <2>3 DEF Receive
<1>6. CASE Report
  <2>1. Batch \notin got'
    BY <1>6 DEF TypeOK, R!RpcTypeOK, Report, R!Begin
  <2>2. QED
    BY <1>6, <2>1 DEF Report
<1>7. CASE ReportOk
  <2>1. Range(pts) \subseteq received /\ Batch \notin got'
    BY <1>7 DEF ReportOk, R!ReturnNil, R!Return
  <2>2. QED
    BY <1>7, <2>1 DEF ReportOk
<1>8. CASE ReportFails
  BY <1>8 DEF ReportFails, R!ReturnError, R!Return
<1>9. CASE Quit
  BY <1>9 DEF Quit
<1>10. CASE Handle
  <2>1. calling[Batch] = pts
    BY <1>10 DEF TypeOK, Handle, R!Handle
  <2>2. QED
    BY <1>10, <2>1 DEF Handle
<1>11. CASE HandleStale
  BY <1>11 DEF HandleStale, R!HandleStale
<1>12. CASE Stop \/ Recover
  BY <1>12 DEF Stop, Recover
<1>13. CASE UNCHANGED vars
  BY <1>13 DEF vars
<1>14. QED
  BY <1>1, <1>2, <1>3, <1>4, <1>5, <1>6, <1>7, <1>8, <1>9, <1>10, <1>11, <1>12, <1>13 DEF Next

\* What was sent stays in the channel, with batchSend or with the server, or
\* was dropped at the limit, through failed, repeated and late reports
\* (target.go:84-149).
THEOREM KeptAlways == SafeSpec => []Kept
<1>1. Init => KeptInv
  BY DEF Init, KeptInv, Kept, HandledIsReceived, R!RpcInit
<1>2. TypeOK /\ KeptInv /\ [Next]_vars => KeptInv'
  BY KeptStep
<1>3. KeptInv => Kept
  BY DEF KeptInv
<1>4. QED
  BY <1>1, <1>2, <1>3, TypeCorrect, PTL DEF SafeSpec
-----------------------------------------------------------------------------
\* A sequence without repetitions stays one with a new element, and without its
\* first, which is then not in it.
LEMMA AppendInjective ==
    ASSUME NEW S, NEW s \in Seq(S), NEW e \in S, IsInjective(s), e \notin Range(s)
    PROVE  IsInjective(Append(s, e))
<1>1. DOMAIN Append(s, e) = 1 .. (Len(s) + 1) /\ DOMAIN s = 1 .. Len(s) /\ Len(s) \in Nat
  OBVIOUS
<1>2. Append(s, e)[Len(s) + 1] = e /\ \A i \in 1 .. Len(s) : Append(s, e)[i] = s[i]
  OBVIOUS
<1>3. \A i \in 1 .. Len(s) : s[i] # e
  BY <1>1 DEF Range
<1>4. QED
  BY <1>1, <1>2, <1>3 DEF IsInjective

LEMMA TailInjective ==
    ASSUME NEW S, NEW s \in Seq(S), s # <<>>, IsInjective(s)
    PROVE  IsInjective(Tail(s)) /\ Head(s) \notin Range(Tail(s))
<1>1. Len(s) \in Nat \ {0} /\ DOMAIN s = 1 .. Len(s) /\ Head(s) = s[1]
  OBVIOUS
<1>2. DOMAIN Tail(s) = 1 .. (Len(s) - 1) /\ \A i \in 1 .. (Len(s) - 1) : Tail(s)[i] = s[i + 1]
  OBVIOUS
<1>3. \A i \in 1 .. (Len(s) - 1) : s[i + 1] # s[1]
  BY <1>1 DEF IsInjective
<1>4. IsInjective(Tail(s))
  BY <1>1, <1>2 DEF IsInjective
<1>5. QED
  BY <1>1, <1>2, <1>3, <1>4 DEF Range

\* A result is sent once, and is in one place until the server acknowledges it.
AckedInv ==
    /\ \A p \in Points : probe[p] # "none" => p[1] <= round
    /\ IsInjective(ch)
    /\ \A p \in Range(ch) \cup Range(pts) \cup acked : p \in Points /\ probe[p] = "sent"
    /\ Range(ch) \cap Range(pts) = {}
    /\ HandledIsReceived
    /\ AckedIsOver

LEMMA EmptyRange == Range(<<>>) = {}
  BY DEF Range

\* Each step of the report path leaves what was acknowledged out of it.
LEMMA AckedStep == TypeOK /\ AckedInv /\ [Next]_vars => AckedInv'
<1> SUFFICES ASSUME TypeOK, AckedInv, [Next]_vars PROVE AckedInv'
  OBVIOUS
<1> USE DEF AckedInv, HandledIsReceived, AckedIsOver, sendVars, probeVars, rpcVars
<1>1. CASE Prober
  <2>1. \A p \in Points : p[1] \in Nat
    BY DEF Points
  <2>2. round \in Nat /\ round' = round + 1
    BY <1>1 DEF Prober, TypeOK
  <2>3. \A p \in Points : probe[p] = "sent" => probe'[p] = "sent"
    BY <1>1, <2>1, <2>2 DEF Prober, TypeOK
  <2>4. \A p \in Points : probe'[p] # "none" => p[1] <= round'
    BY <1>1, <2>1, <2>2 DEF Prober, TypeOK
  <2>5. QED
    BY <1>1, <2>3, <2>4 DEF Prober
<1>2. ASSUME NEW r \in 1 .. Rounds, Expire(r) PROVE AckedInv'
  BY <1>2 DEF Expire
<1>3. ASSUME NEW p \in Points, Probed(p) \/ GiveUp(p) PROVE AckedInv'
  <2>1. \A q \in Points : /\ probe[q] = "sent" => probe'[q] = "sent"
                          /\ probe'[q] # "none" => probe[q] # "none"
    BY <1>3 DEF TypeOK, Probed, GiveUp
  <2>2. UNCHANGED <<round, ch, pts, acked, received, got>>
    BY <1>3 DEF Probed, GiveUp
  <2>3. \A q \in Points : probe'[q] # "none" => q[1] <= round'
    BY <2>1, <2>2
  <2>4. \A q \in Range(ch) \cup Range(pts) \cup acked : q \in Points /\ probe'[q] = "sent"
    BY <2>1
  <2>5. QED
    BY <2>2, <2>3, <2>4
<1>4. ASSUME NEW p \in Points, Send(p) PROVE AckedInv'
  <2>1. p \notin Range(ch) \cup Range(pts) \cup acked
    BY <1>4 DEF Send
  <2>2. Range(ch') = Range(ch) \cup {p} /\ IsInjective(ch')
    BY <1>4, <2>1, RangeAppend, AppendInjective DEF TypeOK, Send
  <2>3. /\ probe'[p] = "sent"
        /\ \A q \in Points : /\ probe[q] = "sent" => probe'[q] = "sent"
                             /\ probe'[q] # "none" => probe[q] # "none"
    BY <1>4 DEF TypeOK, Send
  <2>4. QED
    BY <1>4, <2>1, <2>2, <2>3 DEF Send
<1>5. CASE Receive
  <2>1. /\ Range(ch) = {Head(ch)} \cup Range(ch') /\ Head(ch) \in Points
        /\ IsInjective(ch') /\ Head(ch) \notin Range(ch')
    BY <1>5, RangeHeadTail, TailInjective DEF TypeOK, Receive
  <2>2. Range(pts') \in {Range(pts), Range(pts) \cup {Head(ch)}}
    <3>1. CASE Len(pts) >= MaxPoints
      BY <1>5, <3>1 DEF Receive
    <3>2. CASE ~(Len(pts) >= MaxPoints)
      <4>1. pts' = Append(pts, Head(ch)) /\ pts \in Seq(Points)
        BY <1>5, <3>2 DEF Receive, TypeOK
      <4>2. QED
        BY <4>1, <2>1, RangeAppend
    <3>3. QED
      BY <3>1, <3>2
  <2>3. Batch \notin got
    BY <1>5 DEF TypeOK, R!RpcTypeOK, Receive
  <2>4. UNCHANGED <<round, probe, acked, received, got>>
    BY <1>5 DEF Receive
  <2>5. QED
    BY <2>1, <2>2, <2>3, <2>4
<1>6. CASE Report
  <2>1. Batch \notin got'
    BY <1>6 DEF TypeOK, R!RpcTypeOK, Report, R!Begin
  <2>2. QED
    BY <1>6, <2>1 DEF Report
<1>7. CASE ReportOk
  <2>1. Range(pts) \subseteq received /\ Batch \notin got'
    BY <1>7 DEF ReportOk, R!ReturnNil, R!Return
  <2>2. pts' = <<>> /\ acked' = acked \cup Range(pts) /\ UNCHANGED <<round, ch, probe, received>>
    BY <1>7 DEF ReportOk
  <2>3. QED
    BY <2>1, <2>2, EmptyRange
<1>8. CASE ReportFails
  BY <1>8 DEF ReportFails, R!ReturnError, R!Return
<1>9. CASE Quit
  BY <1>9 DEF Quit
<1>10. CASE Handle
  <2>1. calling[Batch] = pts
    BY <1>10 DEF TypeOK, Handle, R!Handle
  <2>2. QED
    BY <1>10, <2>1 DEF Handle
<1>11. CASE HandleStale
  BY <1>11 DEF HandleStale, R!HandleStale
<1>12. CASE Stop \/ Recover
  BY <1>12 DEF Stop, Recover
<1>13. CASE UNCHANGED vars
  BY <1>13 DEF vars
<1>14. QED
  BY <1>1, <1>2, <1>3, <1>4, <1>5, <1>6, <1>7, <1>8, <1>9, <1>10, <1>11, <1>12, <1>13 DEF Next

LEMMA AckedStart == Init => AckedInv
<1> SUFFICES ASSUME Init PROVE AckedInv
  OBVIOUS
<1>1. IsInjective(<<>>)
  BY DEF IsInjective
<1>2. Batch \notin got
  BY DEF Init, R!RpcInit
<1>3. QED
  BY <1>1, <1>2, EmptyRange DEF Init, AckedInv, HandledIsReceived, AckedIsOver

\* What the server has acknowledged it has, and no later report holds it, however
\* often the reports before failed, or were handled all the same (target.go:128-143).
THEOREM AckedIsOverAlways == SafeSpec => []AckedIsOver
<1>1. AckedInv => AckedIsOver
  BY DEF AckedInv
<1>2. QED
  BY <1>1, AckedStart, AckedStep, TypeCorrect, PTL DEF SafeSpec
-----------------------------------------------------------------------------
(***************************************************************************)
(* The same of a process that is started and ends around the report path   *)
(***************************************************************************)
\* Every step of AgentLife is one of ReportPath's, or the exit.
LEMMA LifeStep == [LifeNext]_allVars => [Next]_vars \/ Exit
  BY DEF LifeNext, allVars, Starting, FirstReport, BeforeReady, GoSync, FirstTargets,
         CloseReady, ReadReady, Begin, Working, Next

\* The exit ends what is under way, and loses what batchSend and the channel hold.
LEMMA ExitStep ==
    ASSUME TypeOK, Exit
    PROVE  /\ TypeOK'
           /\ KeptInv => KeptInv'
           /\ AckedInv => AckedInv'
<1> USE DEF rpcVars, Batch
<1>0. UNCHANGED <<round, expired, acked, received, stopped, reachable>> /\ pc' = "off"
  BY DEF Exit, GoroutinesEnd
<1>1. ch' = <<>> /\ pts' = <<>> /\ Range(ch') = {} /\ Range(pts') = {}
  BY EmptyRange DEF Exit, GoroutinesEnd
<1>2. /\ R!RpcTypeOK' /\ calling'["batchSend"] = Idle
      /\ got' \subseteq got
  <2>1. CASE pc = "call"
    <3>1. R!ReturnError(Batch)
      BY <2>1 DEF Exit, GoroutinesEnd
    <3>2. QED
      BY <2>1, <3>1 DEF TypeOK, R!RpcTypeOK, R!ReturnError, R!Return
  <2>2. CASE pc # "call"
    <3>1. UNCHANGED rpcVars
      BY <2>2 DEF Exit, GoroutinesEnd
    <3>2. QED
      BY <2>2, <3>1 DEF TypeOK, R!RpcTypeOK
  <2>3. QED
    BY <2>1, <2>2
<1>3. dropped' = dropped \cup Range(ch) \cup Range(pts) /\ dropped' \subseteq Points
  BY RangeTyped DEF TypeOK, Exit, GoroutinesEnd
<1>4. /\ probe' \in [Points -> {"none", "probing", "sending", "sent", "lost"}]
      /\ \A p \in Points : /\ probe'[p] = "sent" <=> probe[p] = "sent"
                           /\ probe'[p] = "none" <=> probe[p] = "none"
  BY DEF TypeOK, Exit, GoroutinesEnd
<1>5. TypeOK'
  <2>1. ch' \in Seq(Points) /\ pts' \in Seq(Points) /\ Len(ch') = 0 /\ Len(pts') = 0
    BY <1>1
  <2>2. QED
    BY <1>0, <1>2, <1>3, <1>4, <2>1 DEF TypeOK
<1>6. KeptInv => KeptInv'
  BY <1>0, <1>1, <1>3, <1>4 DEF KeptInv, Kept, HandledIsReceived
<1>7. AckedInv => AckedInv'
  <2>1. IsInjective(ch')
    BY <1>1 DEF IsInjective
  <2>2. QED
    BY <1>0, <1>1, <1>4, <2>1 DEF AckedInv, HandledIsReceived, AckedIsOver
<1>8. QED
  BY <1>5, <1>6, <1>7

\* Channel, points and calls stay well formed from the start of an agent to its exit.
THEOREM LifeTypeCorrect == LifeSafeSpec => []TypeOK
<1>1. LifeInit => TypeOK
  BY InitTyped DEF LifeInit
<1>2. TypeOK /\ [LifeNext]_allVars => TypeOK'
  BY LifeStep, TypeStep, ExitStep
<1>3. QED
  BY <1>1, <1>2, PTL DEF LifeSafeSpec

\* A result that was sent is somewhere, or was dropped for want of room or by the
\* exit (target.go:84-149, agent.go:57-158).
THEOREM LifeKept == LifeSafeSpec => []Kept
<1>1. LifeInit => KeptInv
  BY DEF LifeInit, Init, KeptInv, Kept, HandledIsReceived, R!RpcInit
<1>2. TypeOK /\ KeptInv /\ [LifeNext]_allVars => KeptInv'
  BY LifeStep, KeptStep, ExitStep
<1>3. KeptInv => Kept
  BY DEF KeptInv
<1>4. QED
  BY <1>1, <1>2, <1>3, LifeTypeCorrect, PTL DEF LifeSafeSpec

\* What was acknowledged is over for good, also when the agent stops in between.
THEOREM LifeAckedIsOver == LifeSafeSpec => []AckedIsOver
<1>1. LifeInit => AckedInv
  BY AckedStart DEF LifeInit
<1>2. TypeOK /\ AckedInv /\ [LifeNext]_allVars => AckedInv'
  BY LifeStep, AckedStep, ExitStep
<1>3. AckedInv => AckedIsOver
  BY DEF AckedInv
<1>4. QED
  BY <1>1, <1>2, <1>3, LifeTypeCorrect, PTL DEF LifeSafeSpec

\* Where start is tells what is behind it.
StartInv ==
    /\ start # "before" \/ sync # "none" => health # "first"
    /\ start = "probing" \/ round > 0 => closed

\* Heartbeat, targets, probes: each begins after what it needs, through two
\* channels and the field that is cleared (agent.go:62, target.go:62-82).
THEOREM StartedInOrderAlways == LifeSafeSpec => []StartedInOrder
<1>1. LifeInit => StartInv
  BY DEF LifeInit, Init, StartInv
<1>2. TypeOK /\ StartInv /\ [LifeNext]_allVars => StartInv'
  <2> SUFFICES ASSUME TypeOK, StartInv, [LifeNext]_allVars PROVE StartInv'
    OBVIOUS
  <2> USE DEF StartInv, vars, lifeVars, sendVars, probeVars
  <2>1. CASE Starting
    BY <2>1 DEF Starting, FirstReport, BeforeReady, GoSync, FirstTargets, CloseReady,
                ReadReady, Begin
  <2>2. CASE Working
    <3>1. UNCHANGED lifeVars /\ (round' = round \/ start = "probing")
      BY <2>2 DEF Working, Prober, Expire, Probed, Send, GiveUp, Receive, Report, ReportOk,
                  ReportFails, Quit, Handle, HandleStale, Stop, Recover
    <3>2. QED
      BY <3>1
  <2>3. CASE Exit
    BY <2>3 DEF Exit
  <2>4. CASE UNCHANGED allVars
    BY <2>4 DEF allVars
  <2>5. QED
    BY <2>1, <2>2, <2>3, <2>4 DEF LifeNext
<1>3. StartInv => StartedInOrder
  BY DEF StartInv, StartedInOrder
<1>4. QED
  BY <1>1, <1>2, <1>3, LifeTypeCorrect, PTL DEF LifeSafeSpec
=============================================================================
