--------------------------- MODULE TaskGroupProofs ---------------------------
(***************************************************************************)
(* That a process runs a task at most once, for any agents, tasks and      *)
(* times: a process that has run a task sleeps for longer than the task    *)
(* stays.  And that a task is missed only for a reason: an agent that      *)
(* waits for it wakes before it goes, if the two times are equal.          *)
(***************************************************************************)
EXTENDS TaskGroup, TLAPS

\* Each step of the task group keeps it well formed.
LEMMA TypeStep == TypeOK /\ [Next]_vars => TypeOK'
<1> SUFFICES ASSUME TypeOK, [Next]_vars PROVE TypeOK'
  OBVIOUS
<1> USE TaskAssumption DEF TypeOK, vars, serverVars, pollVars, Regions
<1>1. ASSUME NEW p \in Posts, Post(p) PROVE TypeOK'
  <2>1. tasks' \in [Regions -> Posts \cup {NoTask}] /\ age' \in [Posts -> 0 .. Life]
    BY <1>1 DEF Post
  <2>2. excused' \in [Posts -> SUBSET Agents]
    BY <1>1 DEF Post
  <2>3. QED
    BY <1>1, <2>1, <2>2 DEF Post
<1>2. ASSUME NEW a \in Agents, Poll(a) PROVE TypeOK'
  BY <1>2 DEF Poll
<1>3. ASSUME NEW a \in Agents, GetTask(a) PROVE TypeOK'
  <2>1. Held \subseteq Posts
    BY DEF Held
  <2>2. PICK p \in IF Matching(a) = {} THEN {NoTask} ELSE Matching(a) :
          /\ cmd' = [cmd EXCEPT ![a] = p]
          /\ excused' = [q \in Posts |->
                IF q \in Held /\ p # NoTask /\ p # q THEN excused[q] \cup {a} ELSE excused[q]]
    BY <1>3 DEF GetTask
  <2>3. p \in Posts \cup {NoTask}
    BY <2>1 DEF Matching
  <2>4. excused' \in [Posts -> SUBSET Agents]
    BY <2>2
  <2>5. QED
    BY <1>3, <2>2, <2>3, <2>4 DEF GetTask
<1>4. ASSUME NEW a \in Agents, Run(a) PROVE TypeOK'
  <2>1. ran' \in [Agents -> [Posts -> Nat]]
    <3>1. CASE cmd[a] = NoTask
      BY <1>4, <3>1 DEF Run
    <3>2. CASE cmd[a] # NoTask
      <4>1. cmd[a] \in Posts /\ ran[a] \in [Posts -> Nat]
        BY <3>2
      <4>2. ran' = [ran EXCEPT ![a] = [ran[a] EXCEPT ![cmd[a]] = ran[a][cmd[a]] + 1]]
        BY <1>4, <3>2 DEF Run
      <4>3. [ran[a] EXCEPT ![cmd[a]] = ran[a][cmd[a]] + 1] \in [Posts -> Nat]
        BY <4>1
      <4>4. QED
        BY <4>2, <4>3
    <3>3. QED
      BY <3>1, <3>2
  <2>2. QED
    BY <1>4, <2>1 DEF Run, Finish
<1>5. ASSUME NEW a \in Agents, Retry(a) PROVE TypeOK'
  BY <1>5 DEF Retry
<1>5a. ASSUME NEW a \in Agents, PollFails(a) PROVE TypeOK'
  BY <1>5a DEF PollFails, Finish
<1>6. ASSUME NEW a \in Agents, AgentRestart(a) PROVE TypeOK'
  <2>1. excused' \in [Posts -> SUBSET Agents]
    BY <1>6 DEF AgentRestart
  <2>2. [p \in Posts |-> 0] \in [Posts -> Nat]
    OBVIOUS
  <2>3. QED
    BY <1>6, <2>1, <2>2 DEF AgentRestart
<1>7. CASE ServerRestart
  BY <1>7 DEF ServerRestart
<1>8. CASE Tick
  <2>1. excused' \in [Posts -> SUBSET Agents]
    BY <1>8 DEF Tick
  <2>2. timer' \in [Agents -> 0 .. Interval]
    BY <1>8 DEF Tick
  <2>3. tasks' \in [Regions -> Posts \cup {NoTask}] /\ age' \in [Posts -> 0 .. Life]
    BY <1>8 DEF Tick
  <2>4. at' \in [Agents -> {"wait", "call", "answered", "arrived"}]
    BY <1>8 DEF Tick
  <2>5. QED
    BY <1>8, <2>1, <2>2, <2>3, <2>4 DEF Tick
<1>9. CASE UNCHANGED vars
  BY <1>9
<1>10. QED
  BY <1>1, <1>2, <1>3, <1>4, <1>5, <1>5a, <1>6, <1>7, <1>8, <1>9 DEF Next

\* Tasks, polls and answers stay well formed (task.go:45-133, agent.go:115-134).
THEOREM TypeCorrect == Spec => []TypeOK
<1>1. Init => TypeOK
  BY TaskAssumption DEF Init, TypeOK
<1>2. QED
  BY <1>1, TypeStep, PTL DEF Spec
-----------------------------------------------------------------------------
\* What an agent has not been given it has not run; what it has run and could be
\* given again will be gone before it polls; what it has been given it has not
\* run yet, and by the time it does a tick has passed.
UnpostedUnknown ==
    \A a \in Agents, p \in Posts \ posted : ran[a][p] = 0 /\ cmd[a] # p /\ p \notin Held
SleepsItOut ==
    \A a \in Agents, p \in Posts :
        p \in Held /\ ran[a][p] = 1 => at[a] = "wait" /\ age[p] + timer[a] > Life
GivenOnce ==
    \A a \in Agents, p \in Posts :
        cmd[a] = p =>
            /\ at[a] \in {"answered", "arrived"}
            /\ ran[a][p] = 0
            /\ at[a] = "arrived" /\ p \in Held => age[p] > 0
OnceInv == AtMostOnce /\ UnpostedUnknown /\ SleepsItOut /\ GivenOnce
\* Each step keeps what is said of tasks, answers and sleeping processes.
LEMMA OnceStep == TypeOK /\ OnceInv /\ [Next]_vars => OnceInv'
<1> SUFFICES ASSUME TypeOK, OnceInv, [Next]_vars PROVE OnceInv'
  OBVIOUS
<1> USE TaskAssumption DEF TypeOK, OnceInv, AtMostOnce, UnpostedUnknown, SleepsItOut, GivenOnce,
                           serverVars, pollVars
<1>0. NoTask \notin Posts /\ Held \subseteq Posts
  BY DEF Held
<1>1. ASSUME NEW q \in Posts, Post(q) PROVE OnceInv'
  <2>1. Held' \subseteq Held \cup {q}
    BY <1>1 DEF Post, Held, Regions
  <2>2. q \notin posted /\ posted' = posted \cup {q} /\ UNCHANGED <<at, timer, cmd, ran>>
    BY <1>1 DEF Post
  <2>3. \A p \in Posts \ {q} : age'[p] = age[p]
    BY <1>1 DEF Post
  <2>4. \A a \in Agents : ran[a][q] = 0 /\ cmd[a] # q
    BY <2>2
  <2>5. QED
    BY <2>1, <2>2, <2>3, <2>4
<1>2. ASSUME NEW b \in Agents, Poll(b) PROVE OnceInv'
  <2>1. at[b] = "wait" /\ timer[b] = 0 /\ at' = [at EXCEPT ![b] = "call"]
    BY <1>2 DEF Poll
  <2>2. UNCHANGED <<tasks, age, posted, timer, cmd, ran>> /\ Held' = Held
    BY <1>2 DEF Poll, Held
  <2>3. \A p \in Posts : ~(p \in Held /\ ran[b][p] = 1)
    <3>1. \A p \in Posts : age[p] <= Life /\ age[p] \in Nat
      OBVIOUS
    <3>2. QED
      BY <2>1, <3>1
  <2>4. \A p \in Posts : cmd[b] # p
    BY <2>1
  <2>5. QED
    BY <2>1, <2>2, <2>3, <2>4
<1>3. ASSUME NEW b \in Agents, GetTask(b) PROVE OnceInv'
  <2>1. at[b] = "call" /\ at' = [at EXCEPT ![b] = "answered"]
    BY <1>3 DEF GetTask
  <2>2. UNCHANGED <<tasks, age, posted, timer, ran>> /\ Held' = Held
    BY <1>3 DEF GetTask, Held
  <2>3. PICK q : q \in Held \cup {NoTask} /\ cmd' = [cmd EXCEPT ![b] = q]
    BY <1>3 DEF GetTask, Matching
  <2>4. \A p \in Posts : p \in Held => ran[b][p] = 0 /\ p \in posted
    <3>1. \A p \in Posts : ran[b][p] \in {0, 1}
      <4>1. ran[b] \in [Posts -> Nat] /\ \A p \in Posts : ran[b][p] <= 1
        OBVIOUS
      <4> HIDE DEF TypeOK, OnceInv, AtMostOnce, UnpostedUnknown, SleepsItOut, GivenOnce
      <4>2. QED
        BY <4>1
    <3>2. \A p \in Posts : ~(p \in Held /\ ran[b][p] = 1)
      BY <2>1
    <3>3. \A p \in Posts : p \in Held => p \in posted
      OBVIOUS
    <3>4. QED
      BY <3>1, <3>2, <3>3
  <2>5. \A a \in Agents : cmd'[a] = IF a = b THEN q ELSE cmd[a]
    BY <2>3
  <2>6. \A p \in Posts : cmd[b] # p /\ (q = p => p \in Held)
    BY <1>0, <2>1, <2>3
  <2>7. AtMostOnce' /\ UnpostedUnknown' /\ SleepsItOut'
    BY <2>1, <2>2, <2>4, <2>5, <2>6
  <2>8. GivenOnce'
    BY <2>1, <2>2, <2>4, <2>5, <2>6
  <2>9. QED
    BY <2>7, <2>8
<1>4. ASSUME NEW b \in Agents, Run(b) PROVE OnceInv'
  <2>1. /\ at[b] = "arrived" /\ at' = [at EXCEPT ![b] = "wait"]
        /\ timer' = [timer EXCEPT ![b] = Interval] /\ cmd' = [cmd EXCEPT ![b] = NoTask]
    BY <1>4 DEF Run, Finish
  <2>2. UNCHANGED <<tasks, age, posted>> /\ Held' = Held
    BY <1>4 DEF Run, Held
  <2>3. \A a \in Agents, p \in Posts :
            ran'[a][p] = IF a = b /\ p = cmd[b] THEN ran[a][p] + 1 ELSE ran[a][p]
    BY <1>4 DEF Run
  <2>4. \A p \in Posts : p = cmd[b] => ran'[b][p] = 1 /\ (p \in Held => age[p] + Interval > Life)
    BY <2>1, <2>3
  <2>5. \A p \in Posts : p # cmd[b] => ran'[b][p] = ran[b][p] /\ ~(p \in Held /\ ran[b][p] = 1)
    BY <2>1, <2>3
  <2>6. QED
    BY <1>0, <2>1, <2>2, <2>3, <2>4, <2>5
<1>5. ASSUME NEW b \in Agents, Retry(b) PROVE OnceInv'
  <2>1. at[b] = "answered" /\ at' = [at EXCEPT ![b] = "call"] /\ cmd' = [cmd EXCEPT ![b] = NoTask]
    BY <1>5 DEF Retry
  <2>2. UNCHANGED <<tasks, age, posted, timer, ran>> /\ Held' = Held
    BY <1>5 DEF Retry, Held
  <2>3. QED
    BY <1>0, <2>1, <2>2
<1>6. ASSUME NEW b \in Agents, PollFails(b) PROVE OnceInv'
  <2>1. /\ at[b] \in {"call", "answered"} /\ at' = [at EXCEPT ![b] = "wait"]
        /\ timer' = [timer EXCEPT ![b] = Interval] /\ cmd' = [cmd EXCEPT ![b] = NoTask]
    BY <1>6 DEF PollFails, Finish
  <2>2. UNCHANGED <<tasks, age, posted, ran>> /\ Held' = Held
    BY <1>6 DEF PollFails, Held
  <2>3. QED
    BY <1>0, <2>1, <2>2
<1>7. ASSUME NEW b \in Agents, AgentRestart(b) PROVE OnceInv'
  <2>1. /\ at' = [at EXCEPT ![b] = "wait"] /\ cmd' = [cmd EXCEPT ![b] = NoTask]
        /\ timer' = [timer EXCEPT ![b] = 0]
    BY <1>7 DEF AgentRestart
  <2>2. UNCHANGED <<tasks, age, posted>> /\ Held' = Held
    BY <1>7 DEF AgentRestart, Held
  <2>3. \A a \in Agents, p \in Posts : ran'[a][p] = IF a = b THEN 0 ELSE ran[a][p]
    BY <1>7 DEF AgentRestart
  <2>4. QED
    BY <1>0, <2>1, <2>2, <2>3
<1>8. CASE ServerRestart
  <2>1. Held' = {}
    BY <1>8 DEF ServerRestart, Held
  <2>2. UNCHANGED <<age, posted, at, timer, cmd, ran>>
    BY <1>8 DEF ServerRestart
  <2>3. QED
    BY <2>1, <2>2
<1>9. CASE Tick
  <2>1. \A p \in Held' : p \in Held /\ age[p] # Life
    BY <1>9 DEF Tick, Held, Expires
  <2>2. ASSUME NEW p \in Posts, p \in Held' PROVE age'[p] = age[p] + 1 /\ age[p] \in Nat
    <3>1. p \in Held /\ age[p] \in Nat /\ Life \in Nat /\ age[p] <= Life /\ age[p] # Life
      BY <2>1, <2>2
    <3>2. age'[p] = IF p \in Held /\ age[p] < Life THEN age[p] + 1 ELSE age[p]
      BY <1>9 DEF Tick
    <3> HIDE DEF TypeOK, OnceInv, AtMostOnce, UnpostedUnknown, SleepsItOut, GivenOnce
    <3>3. QED
      BY <3>1, <3>2
  <2>3. \A a \in Agents :
            /\ at[a] = "wait" => timer'[a] = timer[a] - 1 /\ timer[a] \in Nat /\ at'[a] = "wait"
            /\ at[a] \in {"answered", "arrived"} => at'[a] = "arrived"
    BY <1>9 DEF Tick
  <2>4. UNCHANGED <<posted, cmd, ran>>
    BY <1>9 DEF Tick
  <2>5. QED
    BY <2>1, <2>2, <2>3, <2>4
<1>10. CASE UNCHANGED vars
  <2>1. Held' = Held
    BY <1>10 DEF vars, Held
  <2>2. QED
    BY <1>10, <2>1 DEF vars
<1>11. QED
  BY <1>1, <1>2, <1>3, <1>4, <1>5, <1>6, <1>7, <1>8, <1>9, <1>10 DEF Next

\* A process of an agent runs a task at most once, although nobody takes a task
\* out when it is given (task.go:90-110): what it has run is gone before it polls
\* again, as the task stays no longer than the agent sleeps (task.go:46,
\* agent.go:118).
THEOREM AtMostOnceAlways == Spec => []AtMostOnce
<1>1. Init => OnceInv
  BY TaskAssumption DEF Init, OnceInv, AtMostOnce, UnpostedUnknown, SleepsItOut, GivenOnce, Held
<1>2. OnceInv => AtMostOnce
  BY DEF OnceInv
<1>3. QED
  BY <1>1, <1>2, OnceStep, TypeCorrect, PTL DEF Spec
-----------------------------------------------------------------------------
\* A task that an agent matches and may not miss it has run or been given, or the
\* task is there and the agent asks, or wakes up before it goes.
Reached ==
    \A a \in Agents, p \in Posts :
        p \in posted /\ IsMatch(a, p) /\ a \notin excused[p] =>
            \/ ran[a][p] = 1
            \/ cmd[a] = p
            \/ /\ p \in Held
               /\ at[a] = "call" \/ (at[a] = "wait" /\ timer[a] + age[p] <= Life)

\* Each step keeps every task within reach, if agents sleep no longer than it stays.
LEMMA ReachedStep ==
    Life = Interval /\ TypeOK /\ OnceInv /\ Reached /\ [Next]_vars => Reached'
<1> SUFFICES ASSUME Life = Interval, TypeOK, OnceInv, Reached, [Next]_vars,
                    NEW a \in Agents, NEW p \in Posts,
                    p \in posted', IsMatch(a, p), a \notin excused'[p],
                    ran'[a][p] # 1, cmd'[a] # p
             PROVE  /\ p \in Held'
                    /\ at'[a] = "call" \/ (at'[a] = "wait" /\ timer'[a] + age'[p] <= Life)
  BY DEF Reached, IsMatch, Equal, Found
<1> DEFINE Within ==
        p \in Held /\ (at[a] = "call" \/ (at[a] = "wait" /\ timer[a] + age[p] <= Life))
<1>0. p \in posted /\ a \notin excused[p] /\ ran[a][p] # 1 /\ cmd[a] # p => Within
  BY DEF Reached
<1> HIDE DEF Within
<1> USE TaskAssumption DEF serverVars, pollVars
<1>1. ASSUME NEW q \in Posts, Post(q)
      PROVE  p \in Held' /\ (at'[a] = "call" \/ (at'[a] = "wait" /\ timer'[a] + age'[p] <= Life))
  <2>1. UNCHANGED <<at, timer, cmd, ran>> /\ Task[q].region \in Regions
    BY <1>1 DEF Post, Regions
  <2>2. tasks' = [tasks EXCEPT ![Task[q].region] = q] /\ tasks \in [Regions -> Posts \cup {NoTask}]
    BY <1>1 DEF Post, TypeOK
  <2>3. CASE p = q
    <3>1. at[a] = "wait" /\ age'[p] = 0 /\ timer[a] \in 0 .. Interval
      BY <1>1, <2>3 DEF Post, TypeOK
    <3>2. p \in Held'
      BY <2>1, <2>2, <2>3 DEF Held
    <3>3. QED
      BY <2>1, <3>1, <3>2
  <2>4. CASE p # q
    <3>1. p # tasks[Task[q].region] /\ p \in posted /\ a \notin excused[p] /\ age'[p] = age[p]
      BY <1>1, <2>4 DEF Post, TypeOK
    <3>2. Within
      BY <1>0, <2>1, <3>1
    <3>3. p \in Held'
      BY <2>1, <2>2, <3>1, <3>2 DEF Held, Within
    <3>4. QED
      BY <2>1, <3>1, <3>2, <3>3 DEF Within
  <2>5. QED
    BY <2>3, <2>4
<1>2. ASSUME NEW b \in Agents, Poll(b)
      PROVE  p \in Held' /\ (at'[a] = "call" \/ (at'[a] = "wait" /\ timer'[a] + age'[p] <= Life))
  <2>1. Within /\ Held' = Held
    BY <1>0, <1>2 DEF Poll, Held
  <2>2. QED
    BY <1>2, <2>1 DEF Poll, Within, TypeOK
<1>3. ASSUME NEW b \in Agents, GetTask(b)
      PROVE  p \in Held' /\ (at'[a] = "call" \/ (at'[a] = "wait" /\ timer'[a] + age'[p] <= Life))
  <2>1. PICK q \in IF Matching(b) = {} THEN {NoTask} ELSE Matching(b) :
            /\ cmd' = [cmd EXCEPT ![b] = q]
            /\ excused' = [t \in Posts |->
                  IF t \in Held /\ q # NoTask /\ q # t THEN excused[t] \cup {b} ELSE excused[t]]
    BY <1>3 DEF GetTask
  <2>2. a \notin excused[p] /\ p \in posted /\ ran[a][p] # 1 /\ Held' = Held
    BY <1>3, <2>1 DEF GetTask, Held, TypeOK
  <2>3. at[b] = "call" /\ at' = [at EXCEPT ![b] = "answered"] /\ UNCHANGED <<timer, age>>
    BY <1>3 DEF GetTask
  <2>4. CASE a = b
    <3>1. cmd[a] # p
      BY <2>3, <2>4 DEF OnceInv, GivenOnce
    <3>2. p \in Matching(b)
      BY <1>0, <2>2, <2>4, <3>1 DEF Within, Matching
    <3>3. q \in Matching(b) /\ q # NoTask
      BY <2>1, <3>2 DEF Matching, Held
    <3>4. q = p
      BY <2>1, <2>4, <3>2, <3>3 DEF Matching
    <3>5. QED
      BY <2>1, <2>4, <3>4 DEF TypeOK
  <2>5. CASE a # b
    <3>1. Within
      BY <1>0, <2>1, <2>2, <2>5 DEF TypeOK
    <3>2. QED
      BY <2>2, <2>3, <2>5, <3>1 DEF Within, TypeOK
  <2>6. QED
    BY <2>4, <2>5
<1>4. ASSUME NEW b \in Agents, Run(b)
      PROVE  p \in Held' /\ (at'[a] = "call" \/ (at'[a] = "wait" /\ timer'[a] + age'[p] <= Life))
  <2>1. a \notin excused[p] /\ p \in posted /\ Held' = Held /\ UNCHANGED age
    BY <1>4 DEF Run, Held
  <2>2. CASE a = b
    <3>1. at[a] = "arrived" /\ (cmd[a] = p => ran[a][p] = 0)
      BY <1>4, <2>2 DEF Run, OnceInv, GivenOnce
    <3>2. ran'[a][p] = IF cmd[a] = p THEN ran[a][p] + 1 ELSE ran[a][p]
      BY <1>4, <2>2 DEF Run, TypeOK
    <3>3. cmd[a] # p /\ ran[a][p] # 1
      BY <3>1, <3>2
    <3>4. QED
      BY <1>0, <2>1, <3>1, <3>3 DEF Within
  <2>3. CASE a # b
    <3>1. at'[a] = at[a] /\ timer'[a] = timer[a] /\ cmd'[a] = cmd[a] /\ ran'[a][p] = ran[a][p]
      BY <1>4, <2>3 DEF Run, Finish, TypeOK
    <3>2. QED
      BY <1>0, <2>1, <3>1 DEF Within
  <2>4. QED
    BY <2>2, <2>3
<1>5. ASSUME NEW b \in Agents, Retry(b) \/ PollFails(b) \/ AgentRestart(b)
      PROVE  p \in Held' /\ (at'[a] = "call" \/ (at'[a] = "wait" /\ timer'[a] + age'[p] <= Life))
  <2>1. p \in posted /\ Held' = Held /\ UNCHANGED age
    BY <1>5 DEF Retry, PollFails, AgentRestart, Held
  <2>2. excused'[p] = excused[p] \cup {b}
    BY <1>5, <2>1 DEF Retry, PollFails, AgentRestart
  <2>3. a # b /\ a \notin excused[p]
    BY <2>2
  <2>4. at'[a] = at[a] /\ timer'[a] = timer[a] /\ cmd'[a] = cmd[a] /\ ran'[a][p] = ran[a][p]
    BY <1>5, <2>3 DEF Retry, PollFails, AgentRestart, Finish, TypeOK
  <2>5. QED
    BY <1>0, <2>1, <2>3, <2>4 DEF Within
<1>6. CASE ServerRestart
  BY <1>6 DEF ServerRestart
<1>7. CASE Tick
  <2>1. /\ p \in posted /\ cmd'[a] = cmd[a] /\ ran'[a][p] = ran[a][p]
        /\ a \notin excused[p] /\ at[a] # "call"
    BY <1>7 DEF Tick
  <2>2. p \in Held /\ at[a] = "wait" /\ timer[a] + age[p] <= Life
    BY <1>0, <2>1 DEF Within
  <2>3. timer[a] \in Nat /\ age[p] \in Nat /\ Life \in Nat
    BY DEF TypeOK
  <2>4. timer[a] > 0 /\ timer'[a] = timer[a] - 1 /\ at'[a] = "wait"
    BY <1>7, <2>2 DEF Tick
  <2>5. age[p] < Life
    BY <2>2, <2>3, <2>4
  <2>6. age'[p] = age[p] + 1
    BY <1>7, <2>2, <2>5 DEF Tick
  <2>7. p \in Held'
    <3>1. PICK r \in Regions : tasks[r] = p
      BY <2>2 DEF Held
    <3>2. ~Expires(p)
      BY <2>3, <2>5 DEF Expires
    <3>3. tasks'[r] = p
      BY <1>7, <3>1, <3>2 DEF Tick
    <3>4. QED
      BY <3>3 DEF Held
  <2>8. QED
    BY <2>2, <2>3, <2>4, <2>6, <2>7
<1>8. CASE UNCHANGED vars
  <2>1. Held' = Held
    BY <1>8 DEF vars, Held
  <2>2. QED
    BY <1>0, <1>8, <2>1 DEF vars, Within
<1>9. QED
  BY <1>1, <1>2, <1>3, <1>4, <1>5, <1>6, <1>7, <1>8 DEF Next

\* A task an agent matches is missed only for one of the reasons listed, if tasks
\* stay as long as agents sleep: 10 s in task.go:46 and in healthcheck.go.
THEOREM MissedForAReasonAlways == Life = Interval /\ Spec => []MissedForAReason
<1> SUFFICES ASSUME Life = Interval PROVE Spec => []MissedForAReason
  OBVIOUS
<1>1. Init => OnceInv /\ Reached
  BY TaskAssumption
  DEF Init, OnceInv, AtMostOnce, UnpostedUnknown, SleepsItOut, GivenOnce, Held, Reached
<1>2. TypeOK /\ OnceInv /\ Reached /\ [Next]_vars => Reached'
  BY ReachedStep
<1>3. Reached => MissedForAReason
  BY DEF Reached, MissedForAReason
<1>4. QED
  BY <1>1, <1>2, <1>3, OnceStep, TypeCorrect, PTL DEF Spec
==============================================================================
