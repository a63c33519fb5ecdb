------------------------------ MODULE TaskGroup ------------------------------
(***************************************************************************)
(* The task group: an operator posts a command for the agents of a region  *)
(* (task.go); it stays for a while in a cache keyed by the region's text;  *)
(* every agent polls for it (agent.go) and runs what it gets (cmd.go).     *)
(* Nobody marks a task as run: that an agent runs it once rests on the time*)
(* it stays, 10 s from the post, and the time between polls, 10 s from the *)
(* answer.  What becomes of the output is left out.                        *)
(*                                                                         *)
(* Time is counted in ticks.  An answer takes at least one to arrive.      *)
(***************************************************************************)
EXTENDS Naturals, FiniteSets

CONSTANTS
    Agents,
    Flag,           \* agent -> -agent.region, or NoFlag
    Ident,          \* agent -> that and its address, joined by U+00FE: also a text
    Posts,          \* bound: what is posted, each at most once
    Task,           \* post -> [region, expr]
    Life,           \* lifetime of a task, 10 s
    Interval,       \* healthCheckInterval, 10 s
    NoFlag, NoTask

Regions == {Task[p].region : p \in Posts}

ASSUME TaskAssumption ==
    /\ Life \in Nat /\ Interval \in Nat /\ Life <= Interval
    /\ NoTask \notin Posts
    /\ \A p \in Posts : Task[p].expr \in {"=", "!=", "=~", "!~"} /\ Task[p].region # NoFlag

VARIABLES
    tasks,          \* region text -> the post it holds, or NoTask
    age,            \* post -> ticks since it was posted
    posted,         \* what has been posted
    at,             \* agent: "wait", "call", "answered", "arrived"
    timer,          \* agent -> ticks until its next poll
    cmd,            \* agent -> what its poll was answered, or NoTask
    ran,            \* history: agent -> post -> times this process has run it
    excused         \* history: post -> agents that may miss it

serverVars == <<tasks, age, posted>>
pollVars == <<at, timer, cmd, ran>>
vars == <<serverVars, pollVars, excused>>

TypeOK ==
    /\ tasks \in [Regions -> Posts \cup {NoTask}]
    /\ age \in [Posts -> 0 .. Life]
    /\ posted \subseteq Posts
    /\ at \in [Agents -> {"wait", "call", "answered", "arrived"}]
    /\ timer \in [Agents -> 0 .. Interval]
    /\ cmd \in [Agents -> Posts \cup {NoTask}]
    /\ ran \in [Agents -> [Posts -> Nat]]
    /\ excused \in [Posts -> SUBSET Agents]

Init ==
    /\ tasks = [r \in Regions |-> NoTask]
    /\ age = [p \in Posts |-> 0]
    /\ posted = {}
    /\ at = [a \in Agents |-> "wait"]
    /\ timer \in [Agents -> 0 .. Interval]
    /\ cmd = [a \in Agents |-> NoTask]
    /\ ran = [a \in Agents |-> [p \in Posts |-> 0]]
    /\ excused = [p \in Posts |-> {}]
-----------------------------------------------------------------------------
(***************************************************************************)
(* Matching                                                                *)
(***************************************************************************)
\* The text is the whole ident, not only the region or the address in it.
Equal(a, p) == Task[p].region = Ident[a]

\* A pattern is searched for in the ident, of the flag and the address, not of the
\* region an agent finds without the flag. Region names do not contain each other.
Found(a, p) == Task[p].region \in {Flag[a], Ident[a]}

IsMatch(a, p) ==
    \/ Task[p].expr = "=" /\ Equal(a, p)
    \/ Task[p].expr = "!=" /\ ~Equal(a, p)
    \/ Task[p].expr = "=~" /\ Found(a, p)
    \/ Task[p].expr = "!~" /\ ~Found(a, p)

\* Items(): what is in the cache and not expired.
Held == {tasks[r] : r \in Regions} \ {NoTask}
Matching(a) == {p \in Held : IsMatch(a, p)}
-----------------------------------------------------------------------------
(***************************************************************************)
(* The server                                                              *)
(***************************************************************************)
\* TaskGroup.task: a task of the same region text is replaced. An agent whose
\* poll is under way has no claim on the new one, and nobody on the old one.
Post(p) ==
    /\ p \notin posted
    /\ posted' = posted \cup {p}
    /\ tasks' = [tasks EXCEPT ![Task[p].region] = p]
    /\ age' = [age EXCEPT ![p] = 0]
    /\ excused' = [q \in Posts |->
            IF q = p THEN {a \in Agents : at[a] # "wait"}
            ELSE IF q = tasks[Task[p].region] THEN Agents
            ELSE excused[q]]
    /\ UNCHANGED pollVars

\* getTask: the first task that matches, in the order of a Go map.
GetTask(a) ==
    /\ at[a] = "call"
    /\ at' = [at EXCEPT ![a] = "answered"]
    /\ \E p \in IF Matching(a) = {} THEN {NoTask} ELSE Matching(a) :
        /\ cmd' = [cmd EXCEPT ![a] = p]
        /\ excused' = [q \in Posts |->
                IF q \in Held /\ p # NoTask /\ p # q THEN excused[q] \cup {a} ELSE excused[q]]
    /\ UNCHANGED <<serverVars, timer, ran>>

\* The server restarts: the tasks are lost.
ServerRestart ==
    /\ tasks' = [r \in Regions |-> NoTask]
    /\ excused' = [p \in Posts |-> IF p \in posted THEN Agents ELSE {}]
    /\ UNCHANGED <<age, posted, pollVars>>
-----------------------------------------------------------------------------
(***************************************************************************)
(* The agents                                                              *)
(***************************************************************************)
Poll(a) ==
    /\ at[a] = "wait"
    /\ timer[a] = 0
    /\ at' = [at EXCEPT ![a] = "call"]
    /\ UNCHANGED <<serverVars, timer, cmd, ran, excused>>

\* Mutants of Finish: the poll is due a tick late; it is due an
\* interval after this one began.
FinishLate(a) ==
    /\ at' = [at EXCEPT ![a] = "wait"]
    /\ timer' = [timer EXCEPT ![a] = Interval + 1]
    /\ cmd' = [cmd EXCEPT ![a] = NoTask]
FinishEarly(a) ==
    /\ at' = [at EXCEPT ![a] = "wait"]
    /\ timer' = [timer EXCEPT ![a] = Interval - 1]
    /\ cmd' = [cmd EXCEPT ![a] = NoTask]

\* util.Wait sleeps for the interval when the call is over.
Finish(a) ==
    /\ at' = [at EXCEPT ![a] = "wait"]
    /\ timer' = [timer EXCEPT ![a] = Interval]
    /\ cmd' = [cmd EXCEPT ![a] = NoTask]

\* The answer is there: go taskRun.
Run(a) ==
    /\ at[a] = "arrived"
    /\ Finish(a)
    /\ ran' = IF cmd[a] = NoTask THEN ran ELSE [ran EXCEPT ![a][cmd[a]] = @ + 1]
    /\ UNCHANGED <<serverVars, excused>>

\* A try whose answer does not come is repeated.
Retry(a) ==
    /\ at[a] = "answered"
    /\ at' = [at EXCEPT ![a] = "call"]
    /\ cmd' = [cmd EXCEPT ![a] = NoTask]
    /\ excused' = [p \in Posts |-> IF p \in posted THEN excused[p] \cup {a} ELSE excused[p]]
    /\ UNCHANGED <<serverVars, timer, ran>>

\* All tries have failed: no task, whatever was answered.
PollFails(a) ==
    /\ at[a] \in {"call", "answered"}
    /\ Finish(a)
    /\ excused' = [p \in Posts |-> IF p \in posted THEN excused[p] \cup {a} ELSE excused[p]]
    /\ UNCHANGED <<serverVars, ran>>

\* The agent's process is replaced: it polls at once, and knows of no task run.
AgentRestart(a) ==
    /\ at' = [at EXCEPT ![a] = "wait"]
    /\ timer' = [timer EXCEPT ![a] = 0]
    /\ cmd' = [cmd EXCEPT ![a] = NoTask]
    /\ ran' = [ran EXCEPT ![a] = [p \in Posts |-> 0]]
    /\ excused' = [p \in Posts |-> IF p \in posted THEN excused[p] \cup {a} ELSE excused[p]]
    /\ UNCHANGED serverVars
-----------------------------------------------------------------------------
\* A task is there for Life ticks after its post.
Expires(p) == age[p] = Life

\* A tick is not late for a poll that is due, and lets answers arrive; a call
\* that lasts is late for what is there.
Tick ==
    /\ \A a \in Agents : at[a] = "wait" => timer[a] > 0
    /\ timer' = [a \in Agents |-> IF at[a] = "wait" THEN timer[a] - 1 ELSE timer[a]]
    /\ at' = [a \in Agents |-> IF at[a] = "answered" THEN "arrived" ELSE at[a]]
    /\ tasks' = [r \in Regions |->
            IF tasks[r] # NoTask /\ Expires(tasks[r]) THEN NoTask ELSE tasks[r]]
    /\ age' = [p \in Posts |-> IF p \in Held /\ age[p] < Life THEN age[p] + 1 ELSE age[p]]
    /\ excused' = [p \in Posts |->
            IF p \in posted THEN excused[p] \cup {a \in Agents : at[a] = "call"} ELSE excused[p]]
    /\ UNCHANGED <<posted, cmd, ran>>

Next ==
    \/ \E p \in Posts : Post(p)
    \/ \E a \in Agents :
        Poll(a) \/ GetTask(a) \/ Run(a) \/ Retry(a) \/ PollFails(a) \/ AgentRestart(a)
    \/ ServerRestart
    \/ Tick

Spec == Init /\ [][Next]_vars
-----------------------------------------------------------------------------
(***************************************************************************)
(* Properties                                                              *)
(***************************************************************************)
\* A process of an agent runs a posted task at most once, although every poll
\* may find it and nobody takes it out: its lifetime ends before the next poll
\* (newTaskGroup's 10 s, "这里使用健康检查的interval 10s" of agent.go).
AtMostOnce == \A a \in Agents, p \in Posts : ran[a][p] <= 1

\* A task an agent matches is missed only for a reason: the agent was inside a
\* poll when it was posted, its poll failed or was slow, it got another task
\* instead, the task was replaced, or a process restarted.
MissedForAReason ==
    \A a \in Agents, p \in Posts :
        p \in posted \ Held /\ IsMatch(a, p) /\ a \notin excused[p]
            => ran[a][p] = 1 \/ cmd[a] = p
=============================================================================
