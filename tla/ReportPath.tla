------------------------------ MODULE ReportPath ------------------------------
(***************************************************************************)
(* The way of a probe result inside an agent: the probe goroutines of each *)
(* round (prober.go), the channel they all send to, and the goroutine      *)
(* batchSend (target.go) that collects the results and reports them to the *)
(* server, keeping them when the report fails.  Reports are calls of Rpc:  *)
(* the server may handle one it never acknowledges, twice, or late.        *)
(***************************************************************************)
EXTENDS Naturals, Sequences, Functions

CONSTANTS
    Targets,        \* what the agent probes, duplicates removed (dispatch)
    Rounds,         \* bound: rounds of probing looked at
    Cap,            \* capacity of ptsChan, 10
    MaxPoints,      \* maxPoints of batchSend, 5000
    Idle            \* no report under way

Points == (1 .. Rounds) \X Targets

ASSUME ReportAssumption ==
    /\ Rounds \in Nat
    /\ Cap \in Nat \ {0}
    /\ MaxPoints \in Nat \ {0}
    /\ Idle \notin Seq(Points)

VARIABLES
    round,          \* rounds begun
    probe,          \* where the goroutine of each point is
    expired,        \* rounds whose context is done
    ch,             \* ptsChan
    pc,             \* batchSend: "select", "call" or "off"
    pts,            \* its points
    dropped,        \* history: points dropped because pts was full (or the process ended)
    acked,          \* history: points of reports that returned nil
    received,       \* points the server has enqueued
    stopped,        \* ctxAll is cancelled
    reachable,      \* reports do not fail
    calling, got, stale, ok     \* the agent's calls, see Rpc

rpcVars == <<calling, got, stale, ok>>
vars == <<round, probe, expired, ch, pc, pts, dropped, acked, received, stopped, reachable,
          rpcVars>>

Batch == "batchSend"
R == INSTANCE Rpc WITH Callers <- {Batch}, Payloads <- Seq(Points)

TypeOK ==
    /\ round \in 0 .. Rounds
    /\ probe \in [Points -> {"none", "probing", "sending", "sent", "lost"}]
    /\ expired \subseteq 1 .. round
    /\ ch \in Seq(Points) /\ Len(ch) <= Cap
    /\ pc \in {"select", "call", "off"}
    /\ pts \in Seq(Points) /\ Len(pts) <= MaxPoints
    /\ dropped \subseteq Points
    /\ acked \subseteq Points
    /\ received \subseteq Points
    /\ stopped \in BOOLEAN /\ reachable \in BOOLEAN
    /\ R!RpcTypeOK
    /\ calling[Batch] = IF pc = "call" THEN pts ELSE Idle

Init ==
    /\ round = 0
    /\ probe = [p \in Points |-> "none"]
    /\ expired = {}
    /\ ch = <<>>
    /\ pc = "select"
    /\ pts = <<>>
    /\ dropped = {} /\ acked = {} /\ received = {}
    /\ stopped = FALSE
    /\ reachable = FALSE
    /\ R!RpcInit

sendVars == <<pc, pts, dropped, acked, received, rpcVars>>
-----------------------------------------------------------------------------
(***************************************************************************)
(* Probing                                                                 *)
(***************************************************************************)
\* prober: a round begins, one goroutine per target, under a new context; util.Wait
\* may begin one although ctxAll is done already, which all of it then is.
Prober ==
    /\ round < Rounds
    /\ round' = round + 1
    /\ probe' = [p \in Points |-> IF p[1] = round + 1 THEN "probing" ELSE probe[p]]
    /\ UNCHANGED <<expired, ch, sendVars, stopped, reachable>>

\* The round's context runs out after proberTimeout.
Expire(r) ==
    /\ r \in 1 .. round
    /\ r \notin expired
    /\ expired' = expired \cup {r}
    /\ UNCHANGED <<round, probe, ch, sendVars, stopped, reachable>>

\* A probe always ends with a result, failed if its context is done.
Probed(p) ==
    /\ probe[p] = "probing"
    /\ probe' = [probe EXCEPT ![p] = "sending"]
    /\ UNCHANGED <<round, expired, ch, sendVars, stopped, reachable>>

Done(p) == p[1] \in expired \/ stopped

\* send: the select takes a case that is ready, either if both are.
Send(p) ==
    /\ probe[p] = "sending"
    /\ Len(ch) < Cap
    /\ ch' = Append(ch, p)
    /\ probe' = [probe EXCEPT ![p] = "sent"]
    /\ UNCHANGED <<round, expired, sendVars, stopped, reachable>>

\* Mutant of GiveUp: the context is asked before the send, which then blocks.
GiveUpIfRoom(p) ==
    /\ probe[p] = "sending"
    /\ Done(p)
    /\ Len(ch) < Cap
    /\ probe' = [probe EXCEPT ![p] = "lost"]
    /\ UNCHANGED <<round, expired, ch, sendVars, stopped, reachable>>

GiveUp(p) ==
    /\ probe[p] = "sending"
    /\ Done(p)
    /\ probe' = [probe EXCEPT ![p] = "lost"]
    /\ UNCHANGED <<round, expired, ch, sendVars, stopped, reachable>>
-----------------------------------------------------------------------------
(***************************************************************************)
(* batchSend                                                               *)
(***************************************************************************)
probeVars == <<round, probe, expired, stopped, reachable>>

Receive ==
    /\ pc = "select"
    /\ ch # <<>>
    /\ ch' = Tail(ch)
    /\ IF Len(pts) >= MaxPoints
       THEN dropped' = dropped \cup {Head(ch)} /\ pts' = pts
       ELSE pts' = Append(pts, Head(ch)) /\ dropped' = dropped
    /\ UNCHANGED <<probeVars, pc, acked, received, rpcVars>>

\* Mutant of Report: only a full batch is worth a call.
ReportFull ==
    /\ pc = "select"
    /\ Len(pts) = MaxPoints
    /\ R!Begin(Batch, pts)
    /\ pc' = "call"
    /\ UNCHANGED <<probeVars, ch, pts, dropped, acked, received>>

\* The ticker fires: everything collected goes into one call. While it lasts
\* nobody reads the channel.
Report ==
    /\ pc = "select"
    /\ pts # <<>>
    /\ R!Begin(Batch, pts)
    /\ pc' = "call"
    /\ UNCHANGED <<probeVars, ch, pts, dropped, acked, received>>

\* Mutant of ReportOk: an acknowledged batch stays.
ReportOkKeep ==
    /\ R!ReturnNil(Batch)
    /\ pc' = "select"
    /\ acked' = acked \cup Range(pts)
    /\ UNCHANGED <<probeVars, ch, pts, dropped, received>>

ReportOk ==
    /\ R!ReturnNil(Batch)
    /\ pc' = "select"
    /\ pts' = <<>>
    /\ acked' = acked \cup Range(pts)
    /\ UNCHANGED <<probeVars, ch, dropped, received>>

\* Mutant of ReportFails: the batch of a failed report is dropped.
ReportFailsDrop ==
    /\ ~reachable
    /\ R!ReturnError(Batch)
    /\ pc' = "select"
    /\ pts' = <<>>
    /\ UNCHANGED <<probeVars, ch, dropped, acked, received>>

\* The points stay for the next tick, whether or not the server has them.
ReportFails ==
    /\ ~reachable
    /\ R!ReturnError(Batch)
    /\ pc' = "select"
    /\ UNCHANGED <<probeVars, ch, pts, dropped, acked, received>>

Quit ==
    /\ pc = "select"
    /\ stopped
    /\ pc' = "off"
    /\ UNCHANGED <<probeVars, ch, pts, dropped, acked, received, rpcVars>>
-----------------------------------------------------------------------------
(***************************************************************************)
(* The server (Server.ProberResultReport) and the environment              *)
(***************************************************************************)
Handle ==
    /\ R!Handle(Batch)
    /\ received' = received \cup Range(calling[Batch])
    /\ UNCHANGED <<probeVars, ch, pc, pts, dropped, acked>>

HandleStale ==
    \E m \in stale :
        /\ R!HandleStale(Batch, m[2])
        /\ received' \in {received, received \cup Range(m[2])}
        /\ UNCHANGED <<probeVars, ch, pc, pts, dropped, acked>>

Stop ==
    /\ ~stopped
    /\ stopped' = TRUE
    /\ UNCHANGED <<round, probe, expired, ch, sendVars, reachable>>

\* From here on reports do not fail; until here each may fail or not.
Recover ==
    /\ ~reachable
    /\ reachable' = TRUE
    /\ UNCHANGED <<round, probe, expired, ch, sendVars, stopped>>

Next ==
    \/ Prober
    \/ \E r \in 1 .. Rounds : Expire(r)
    \/ \E p \in Points : Probed(p) \/ Send(p) \/ GiveUp(p)
    \/ Receive
    \/ Report
    \/ ReportOk
    \/ ReportFails
    \/ Quit
    \/ Handle
    \/ HandleStale
    \/ Stop
    \/ Recover

\* The goroutines and the clock go on; batchSend reports at some tick although
\* results keep coming; a call returns, and it is handled when reports do not
\* fail (RpcCli, CallsReturn and AloneRecovers). Nothing makes a send succeed.
Fairness ==
    /\ \A r \in 1 .. Rounds : WF_vars(Expire(r))
    /\ \A p \in Points : WF_vars(Probed(p)) /\ WF_vars(GiveUp(p))
    /\ WF_vars(Report)
    /\ WF_vars(reachable /\ Handle)
    /\ WF_vars(ReportOk \/ ReportFails)

SafeSpec == Init /\ [][Next]_vars
Spec == SafeSpec /\ Fairness
-----------------------------------------------------------------------------
(***************************************************************************)
(* Properties                                                              *)
(***************************************************************************)
\* A result a probe could hand over is never lost on its way: it is in the
\* channel, in batchSend's points, with the server, or it met a full batch
\* ("上报失败时保留数据下轮重试；队列长度达到上限时丢弃新点", batchSend).
Kept ==
    \A p \in Points :
        probe[p] = "sent" => p \in Range(ch) \cup Range(pts) \cup received \cup dropped

\* What was acknowledged is not reported again, and the server has it: points
\* are repeated only while their report is in doubt.
AckedIsOver ==
    /\ acked \subseteq received
    /\ acked \cap (Range(ch) \cup Range(pts)) = {}

\* Every probe goroutine ends, with batchSend stuck in a call or gone (send,
\* "context取消或channel无法写入时立即返回").
ProbesEnd == \A p \in Points : probe[p] = "probing" ~> probe[p] \in {"sent", "lost"}

\* Once reports do not fail any more, what batchSend holds reaches the server,
\* unless the agent stops.
Delivered ==
    \A p \in Points : (reachable /\ p \in Range(pts)) ~> (p \in received \/ stopped)
=============================================================================
