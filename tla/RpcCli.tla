------------------------------- MODULE RpcCli -------------------------------
(***************************************************************************)
(* The RPC client all goroutines of an agent share, src/pkg/agent/rpc.go.  *)
(* A Call takes the connection once, dialling if there is none, tries up   *)
(* to Retry times on it, and when all tries fail closes whatever           *)
(* connection the client holds by then.  A try may time out although the   *)
(* server has handled it or will.                                          *)
(***************************************************************************)
EXTENDS Naturals

CONSTANTS
    Callers, Payloads, Idle,
    Retry,          \* rpcCli.retry, 3
    Conns,          \* connections; an identity is used again when forgotten
    NoConn          \* nil

ASSUME RpcCliAssumption ==
    /\ Retry \in Nat \ {0}
    /\ NoConn \notin Conns
    /\ Idle \notin Payloads

VARIABLES
    cli,            \* rpcCli.cli
    open,           \* connections both ends still hold open
    up,             \* the network and the server are well and quick
    pc,             \* where each caller's Call is
    args,           \* its request
    conn,           \* the connection it took
    try,            \* its attempt
    sent,           \* attempts on their way to the server, <<caller, try>>
    answered,       \* callers the answer to whose present try is on its way
    got,            \* callers whose call the server has handled
    stale,          \* copies of calls that returned, <<caller, payload>>
    ok              \* callers whose last call returned nil, until their next

netVars == <<cli, open, up>>
vars == <<netVars, pc, args, conn, try, sent, answered, got, stale, ok>>

Attempts == Callers \X (1 .. Retry)
AttemptsOf(c) == {c} \X (1 .. Retry)

TypeOK ==
    /\ cli \in Conns \cup {NoConn}
    /\ open \subseteq Conns
    /\ up \in BOOLEAN
    /\ pc \in [Callers -> {"idle", "get", "try", "wait", "sleep", "close"}]
    /\ args \in [Callers -> Payloads \cup {Idle}]
    /\ conn \in [Callers -> Conns \cup {NoConn}]
    /\ try \in [Callers -> 1 .. Retry]
    /\ sent \subseteq {a \in Attempts : a[2] <= try[a[1]]}
    /\ answered \subseteq {c \in Callers : pc[c] = "wait" /\ c \in got}
    /\ got \subseteq Callers
    /\ stale \subseteq Callers \X Payloads
    /\ ok \subseteq {c \in Callers : pc[c] = "idle"}

Init ==
    /\ cli = NoConn
    /\ open = {}
    /\ up \in BOOLEAN
    /\ pc = [c \in Callers |-> "idle"]
    /\ args = [c \in Callers |-> Idle]
    /\ conn = [c \in Callers |-> NoConn]
    /\ try = [c \in Callers |-> 1]
    /\ sent = {}
    /\ answered = {}
    /\ got = {}
    /\ stale = {}
    /\ ok = {}

At(c, l) == pc[c] = l
Goto(c, l) == pc' = [pc EXCEPT ![c] = l]
-----------------------------------------------------------------------------
(***************************************************************************)
(* Call                                                                    *)
(***************************************************************************)
Begin(c, p) ==
    /\ At(c, "idle")
    /\ args' = [args EXCEPT ![c] = p]
    /\ Goto(c, "get")
    /\ ok' = ok \ {c}
    /\ UNCHANGED <<netVars, conn, try, sent, answered, got, stale>>

\* Call returns. What is left of it in the network becomes stale.
Return(c, good) ==
    /\ Goto(c, "idle")
    /\ args' = [args EXCEPT ![c] = Idle]
    /\ conn' = [conn EXCEPT ![c] = NoConn]
    /\ try' = [try EXCEPT ![c] = 1]
    /\ stale' = IF sent \cap AttemptsOf(c) = {} THEN stale
                ELSE stale \cup {<<c, args[c]>>}
    /\ sent' = sent \ AttemptsOf(c)
    /\ answered' = answered \ {c}
    /\ got' = got \ {c}
    /\ ok' = IF good THEN ok \cup {c} ELSE ok

\* getCli holds r.mu, while it dials too: one step.
GetCached(c) ==
    /\ At(c, "get")
    /\ cli # NoConn
    /\ conn' = [conn EXCEPT ![c] = cli]
    /\ Goto(c, "try")
    /\ UNCHANGED <<netVars, args, try, sent, answered, got, stale, ok>>

\* An identity nobody remembers.
Fresh == {k \in Conns : k \notin open /\ \A c \in Callers : conn[c] # k}

\* Mutant of Dial: the connection is dialled without a look at r.cli under the
\* mutex, as if two callers may both have found it nil before.
DialAnyway(c) ==
    /\ At(c, "get")
    /\ \E k \in Fresh \ {cli} :
        /\ cli' = k
        /\ open' = open \cup {k}
        /\ conn' = [conn EXCEPT ![c] = k]
    /\ Goto(c, "try")
    /\ UNCHANGED <<up, args, try, sent, answered, got, stale, ok>>

Dial(c) ==
    /\ At(c, "get")
    /\ cli = NoConn
    /\ \E k \in Fresh :
        /\ cli' = k
        /\ open' = open \cup {k}
        /\ conn' = [conn EXCEPT ![c] = k]
    /\ Goto(c, "try")
    /\ UNCHANGED <<up, args, try, sent, answered, got, stale, ok>>

\* Without a connection Call returns at once, without a retry.
DialFails(c) ==
    /\ At(c, "get")
    /\ cli = NoConn
    /\ ~up
    /\ Return(c, FALSE)
    /\ UNCHANGED netVars

\* A try: the request is written, unless this client knows the connection shut.
Send(c) ==
    /\ At(c, "try")
    /\ conn[c] \in open
    /\ sent' = sent \cup {<<c, try[c]>>}
    /\ Goto(c, "wait")
    /\ UNCHANGED <<netVars, args, conn, try, answered, got, stale, ok>>

SendFails(c) ==
    /\ At(c, "try")
    /\ conn[c] \notin open
    /\ Goto(c, "sleep")
    /\ UNCHANGED <<netVars, args, conn, try, sent, answered, got, stale, ok>>

\* Mutant of Answered: no answer is needed.
AnsweredUnheard(c) ==
    /\ At(c, "wait")
    /\ conn[c] \in open
    /\ Return(c, TRUE)
    /\ UNCHANGED netVars

\* The answer ends the call.
Answered(c) ==
    /\ At(c, "wait")
    /\ conn[c] \in open
    /\ c \in answered
    /\ Return(c, TRUE)
    /\ UNCHANGED netVars

\* The try times out, or its connection breaks or is closed by another caller;
\* an answer to it is not waited for any more.
TryFails(c) ==
    /\ At(c, "wait")
    /\ ~up \/ conn[c] \notin open
    /\ answered' = answered \ {c}
    /\ Goto(c, "sleep")
    /\ UNCHANGED <<netVars, args, conn, try, sent, got, stale, ok>>

\* Mutant of Again: the tries never end.
AgainAndAgain(c) ==
    /\ At(c, "sleep")
    /\ try' = [try EXCEPT ![c] = IF @ < Retry THEN @ + 1 ELSE 1]
    /\ Goto(c, "try")
    /\ UNCHANGED <<netVars, args, conn, sent, answered, got, stale, ok>>

\* After a pause the next try, on the same connection even if it is shut.
Again(c) ==
    /\ At(c, "sleep")
    /\ IF try[c] < Retry
       THEN try' = [try EXCEPT ![c] = @ + 1] /\ Goto(c, "try")
       ELSE try' = try /\ Goto(c, "close")
    /\ UNCHANGED <<netVars, args, conn, sent, answered, got, stale, ok>>

\* Mutant of Close: the client keeps its connection.
CloseNothing(c) ==
    /\ At(c, "close")
    /\ Return(c, FALSE)
    /\ UNCHANGED netVars

\* closeCli closes the connection the client holds NOW, which may be one another
\* caller has dialled since, and the call returns the last error.
Close(c) ==
    /\ At(c, "close")
    /\ open' = open \ {cli}
    /\ cli' = NoConn
    /\ Return(c, FALSE)
    /\ UNCHANGED up
-----------------------------------------------------------------------------
(***************************************************************************)
(* The network and the server                                              *)
(***************************************************************************)
\* The server handles an attempt; the answer counts if the caller still waits
\* for it.
Handle(c, t) ==
    /\ <<c, t>> \in sent
    /\ sent' = sent \ {<<c, t>>}
    /\ got' = got \cup {c}
    /\ answered' = IF At(c, "wait") /\ try[c] = t /\ conn[c] \in open
                   THEN answered \cup {c} ELSE answered
    /\ UNCHANGED <<netVars, pc, args, conn, try, stale, ok>>

\* What a shut connection has not delivered may be lost.
Lose(c, t) ==
    /\ <<c, t>> \in sent
    /\ conn[c] \notin open
    /\ sent' = sent \ {<<c, t>>}
    /\ UNCHANGED <<netVars, pc, args, conn, try, answered, got, stale, ok>>

\* A copy of an earlier call is handled or lost; there may be more of them.
HandleStale(c, p) ==
    /\ <<c, p>> \in stale
    /\ stale' \in {stale, stale \ {<<c, p>>}}
    /\ UNCHANGED <<netVars, pc, args, conn, try, sent, answered, got, ok>>

Break ==
    /\ ~up
    /\ open # {}
    /\ open' = {}
    /\ UNCHANGED <<cli, up, pc, args, conn, try, sent, answered, got, stale, ok>>

Weather ==
    /\ up' = ~up
    /\ UNCHANGED <<cli, open, pc, args, conn, try, sent, answered, got, stale, ok>>

Step(c) ==
    \/ GetCached(c) \/ Dial(c) \/ DialFails(c)
    \/ Send(c) \/ SendFails(c)
    \/ Answered(c) \/ TryFails(c)
    \/ Again(c) \/ Close(c)

Next ==
    \/ \E c \in Callers :
        \/ Step(c)
        \/ \E p \in Payloads : Begin(c, p) \/ HandleStale(c, p)
        \/ \E t \in 1 .. Retry : Handle(c, t) \/ Lose(c, t)
    \/ Break
    \/ Weather

\* A Call goes on; the timer of a try runs whatever the weather does meanwhile
\* (strong fairness); while all is well requests are handled. Nothing makes a
\* caller call.
Fairness ==
    \A c \in Callers :
        /\ WF_vars(Step(c))
        /\ SF_vars(TryFails(c))
        /\ \A t \in 1 .. Retry : WF_vars(up /\ Handle(c, t))

SafeSpec == Init /\ [][Next]_vars
Spec == SafeSpec /\ Fairness
-----------------------------------------------------------------------------
(***************************************************************************)
(* Properties                                                              *)
(***************************************************************************)
R == INSTANCE Rpc WITH calling <- args

\* What callers rely on: a Call that returns nil was handled, by one of its
\* own attempts, whatever was retried, timed out or closed meanwhile.
AtLeastOnce == R!RpcSpec

\* No connection is left behind: the only open one is the client's, although
\* every failed Call closes, and any caller dials (getCli and closeCli).
NoLeak == open \subseteq {cli}

\* Every Call returns, with the server dead or the connection taken away.
CallsReturn == \A c \in Callers : pc[c] # "idle" ~> pc[c] = "idle"

\* A caller left alone by the others gets through once all is well: a broken
\* connection costs it one failed Call, not every one.
AloneRecovers ==
    \A c \in Callers :
        <>[](up /\ \A d \in Callers \ {c} : pc[d] = "idle") => <>[](pc[c] # "close")
=============================================================================
