------------------------------ MODULE AgentLife ------------------------------
(***************************************************************************)
(* An agent process from start to exit: the actors of BuildAgentMode       *)
(* (agent.go) around ReportPath.  The first heartbeat (healthcheck.go)     *)
(* opens beforeReady, which targetManager.start (target.go) waits for; it  *)
(* then starts the goroutine that fetches the targets and waits on t.ready *)
(* until the first fetch is over; only then does it probe.  A signal or    *)
(* the end of any actor cancels all of them, and the process exits when    *)
(* the last one has returned.                                              *)
(*                                                                         *)
(* The goroutine closes t.ready and then sets the FIELD to nil, without a  *)
(* lock.  start may read the field before or after: a receive from a nil   *)
(* channel never returns.                                                  *)
(***************************************************************************)
EXTENDS ReportPath

VARIABLES
    health,     \* healthCheck.report: "first" call under way, "open": beforeReady closed
    sync,       \* the goroutine that fetches: "none", "first", "close", "loop"
    closed,     \* the channel made for t.ready is closed
    field,      \* t.ready: that channel, or nil
    start,      \* targetManager.start: "before", "go", "read", "wait", "stuck", "probing"
    exited      \* g.Run has returned, and main with it

lifeVars == <<health, sync, closed, field, start, exited>>
allVars == <<vars, lifeVars>>

LifeTypeOK ==
    /\ TypeOK
    /\ health \in {"first", "open"}
    /\ sync \in {"none", "first", "close", "loop"}
    /\ closed \in BOOLEAN
    /\ field \in {"channel", "nil"}
    /\ start \in {"before", "go", "read", "wait", "stuck", "probing"}
    /\ exited \in BOOLEAN

LifeInit ==
    /\ Init
    /\ health = "first"
    /\ sync = "none"
    /\ closed = FALSE
    /\ field = "channel"
    /\ start = "before"
    /\ exited = FALSE
-----------------------------------------------------------------------------
(***************************************************************************)
(* The start                                                               *)
(***************************************************************************)
\* healthCheck.report: the first call has returned, whether or not the server
\* has heard of the agent; beforeReady is closed.
FirstReport ==
    /\ health = "first"
    /\ health' = "open"
    /\ UNCHANGED <<vars, sync, closed, field, start, exited>>

\* Mutant of BeforeReady: start does not wait for the first heartbeat.
BeforeReadyAtOnce ==
    /\ start = "before"
    /\ start' = "go"
    /\ UNCHANGED <<vars, health, sync, closed, field, exited>>

\* start: <-t.beforeReady.
BeforeReady ==
    /\ start = "before"
    /\ health # "first"
    /\ start' = "go"
    /\ UNCHANGED <<vars, health, sync, closed, field, exited>>

\* go util.Wait(getTargets): from here on the two run side by side.
GoSync ==
    /\ start = "go"
    /\ start' = "read"
    /\ sync' = "first"
    /\ UNCHANGED <<vars, health, closed, field, exited>>

\* The first fetch returns, with targets or with an error.
FirstTargets ==
    /\ sync = "first"
    /\ sync' = "close"
    /\ UNCHANGED <<vars, health, closed, field, start, exited>>

\* Mutant of CloseReady: the field is cleared, the channel not closed.
CloseReadyNot ==
    /\ sync = "close"
    /\ sync' = "loop"
    /\ field' = "nil"
    /\ UNCHANGED <<vars, health, closed, start, exited>>

\* close(t.ready), then t.ready = nil. One step: a start that reads the field
\* between the two finds the channel, as one does that read it before.
CloseReady ==
    /\ sync = "close"
    /\ sync' = "loop"
    /\ closed' = TRUE
    /\ field' = "nil"
    /\ UNCHANGED <<vars, health, start, exited>>

\* start evaluates t.ready and begins to receive from what it holds.
ReadReady ==
    /\ start = "read"
    /\ start' = IF field = "channel" THEN "wait" ELSE "stuck"
    /\ UNCHANGED <<vars, health, sync, closed, field, exited>>

\* The receive from the closed channel: batchSend and the rounds begin.
Begin ==
    /\ start = "wait"
    /\ closed
    /\ start' = "probing"
    /\ UNCHANGED <<vars, health, sync, closed, field, exited>>
-----------------------------------------------------------------------------
(***************************************************************************)
(* Between start and exit                                                  *)
(***************************************************************************)
\* What ReportPath does, by a process that is there; before start has got
\* through, only the signal and the environment do anything.
Working ==
    /\ \/ Recover \/ HandleStale
       \/ ~exited /\ Stop
       \/ ~exited /\ start = "probing" /\ Prober
       \/ /\ ~exited
          /\ \/ \E r \in 1 .. Rounds : Expire(r)
             \/ \E p \in Points : Probed(p) \/ Send(p) \/ GiveUp(p)
             \/ Receive \/ Report \/ ReportOk \/ ReportFails \/ Quit \/ Handle
    /\ UNCHANGED lifeVars

(***************************************************************************)
(* The exit                                                                *)
(***************************************************************************)
\* batchSend, the probes and the fetching goroutine are no actors: they end with
\* the process, in mid-call if need be, and with them what they hold.
GoroutinesEnd ==
    /\ probe' = [p \in Points |-> IF probe[p] \in {"probing", "sending"} THEN "lost" ELSE probe[p]]
    /\ pc' = "off"
    /\ ch' = <<>> /\ pts' = <<>>
    /\ dropped' = dropped \cup Range(ch) \cup Range(pts)
    /\ IF pc = "call" THEN R!ReturnError(Batch) ELSE UNCHANGED rpcVars

\* g.Run returns when every actor has: health check, upgrade check and task poll
\* are in a util.Wait, which returns when it sees the context done after a call;
\* start is in one only when it probes.
Exit ==
    /\ stopped /\ ~exited
    /\ health = "open" /\ start = "probing"
    /\ exited' = TRUE
    /\ GoroutinesEnd
    /\ UNCHANGED <<round, expired, acked, received, stopped, reachable, health, sync, closed, field,
                   start>>

Starting ==
    \/ FirstReport \/ BeforeReady \/ GoSync
    \/ FirstTargets \/ CloseReady
    \/ ReadReady \/ Begin

LifeNext ==
    \/ Starting
    \/ Working
    \/ Exit

\* ReportPath's while the process is there; every goroutine runs on, and calls
\* return (RpcCli, CallsReturn). Nothing makes a signal come.
LifeFairness ==
    /\ WF_allVars(FirstReport) /\ WF_allVars(BeforeReady) /\ WF_allVars(GoSync)
    /\ WF_allVars(FirstTargets) /\ WF_allVars(CloseReady)
    /\ WF_allVars(ReadReady) /\ WF_allVars(Begin)
    /\ WF_allVars(Exit)
    /\ \A r \in 1 .. Rounds : WF_allVars(~exited /\ Expire(r) /\ UNCHANGED lifeVars)
    /\ \A p \in Points :
        /\ WF_allVars(~exited /\ Probed(p) /\ UNCHANGED lifeVars)
        /\ WF_allVars(~exited /\ GiveUp(p) /\ UNCHANGED lifeVars)
    /\ WF_allVars(~exited /\ Report /\ UNCHANGED lifeVars)
    /\ WF_allVars(~exited /\ reachable /\ Handle /\ UNCHANGED lifeVars)
    /\ WF_allVars(~exited /\ (ReportOk \/ ReportFails) /\ UNCHANGED lifeVars)

LifeSafeSpec == LifeInit /\ [][LifeNext]_allVars
LifeSpec == LifeSafeSpec /\ LifeFairness
-----------------------------------------------------------------------------
(***************************************************************************)
(* Properties                                                              *)
(***************************************************************************)
\* "上报后再manager.start()" (agent.go:62): nothing is fetched, probed or
\* reported before the first heartbeat has returned, through two channels and
\* three goroutines; nothing is probed before the first fetch has.
StartedInOrder ==
    /\ sync # "none" => health # "first"
    /\ round > 0 => closed

\* A signal ends the process, whatever is being started, probed or reported,
\* unless start is in that receive: g.Run waits for it for ever (agent.go:145).
StopEnds == stopped ~> (exited \/ start = "stuck")
=============================================================================
