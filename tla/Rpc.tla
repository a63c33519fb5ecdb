--------------------------------- MODULE Rpc ---------------------------------
(***************************************************************************)
(* What an agent may rely on when it calls the server (rpcCli.Call): a     *)
(* call that returns nil was handled by the server at least once.  A call  *)
(* may be handled several times, since Call retries, and also when it      *)
(* returns an error; copies of it may reach the server long after it       *)
(* returned.  RpcCli implements this; ReportPath is built on it.           *)
(***************************************************************************)
CONSTANTS
    Callers,        \* goroutines of one agent that call the server
    Payloads,       \* what they send
    Idle            \* no call under way, not a payload

VARIABLES
    calling,        \* caller -> payload of the call under way, or Idle
    got,            \* callers whose call the server has handled
    stale,          \* copies of calls that returned, <<caller, payload>>
    ok              \* callers whose last call returned nil, until their next

rpcVars == <<calling, got, stale, ok>>

RpcTypeOK ==
    /\ calling \in [Callers -> Payloads \cup {Idle}]
    /\ got \subseteq {c \in Callers : calling[c] # Idle}
    /\ stale \subseteq Callers \X Payloads
    /\ ok \subseteq {c \in Callers : calling[c] = Idle}

RpcInit ==
    /\ calling = [c \in Callers |-> Idle]
    /\ got = {}
    /\ stale = {}
    /\ ok = {}

Begin(c, p) ==
    /\ calling[c] = Idle
    /\ calling' = [calling EXCEPT ![c] = p]
    /\ ok' = ok \ {c}
    /\ UNCHANGED <<got, stale>>

\* The server handles a copy of the call under way: the first one, or another.
Handle(c) ==
    /\ calling[c] # Idle
    /\ got' = got \cup {c}
    /\ UNCHANGED <<calling, stale, ok>>

\* A copy of a call that has returned is handled, or gets lost. There may be
\* another one.
HandleStale(c, p) ==
    /\ <<c, p>> \in stale
    /\ stale' \in {stale, stale \ {<<c, p>>}}
    /\ UNCHANGED <<calling, got, ok>>

Return(c) ==
    /\ calling[c] # Idle
    /\ calling' = [calling EXCEPT ![c] = Idle]
    /\ got' = got \ {c}
    /\ stale' \in {stale, stale \cup {<<c, calling[c]>>}}

\* Call returns nil: the answer to one of its attempts has come.
ReturnNil(c) ==
    /\ c \in got
    /\ Return(c)
    /\ ok' = ok \cup {c}

\* Call returns an error, whatever the server has done.
ReturnError(c) == Return(c) /\ UNCHANGED ok

RpcNext ==
    \E c \in Callers :
        \/ \E p \in Payloads : Begin(c, p) \/ HandleStale(c, p)
        \/ Handle(c)
        \/ ReturnNil(c)
        \/ ReturnError(c)

RpcSpec == RpcInit /\ [][RpcNext]_rpcVars
=============================================================================
