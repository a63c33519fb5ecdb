------------------------------ MODULE Aggregate ------------------------------
(***************************************************************************)
(* What the server publishes of a batch of probe results: the loop of agg  *)
(* (aggregator.go), which folds the results of a round into one container  *)
(* per pair of regions (icmp) or per pair and target (http), and dotHTTP   *)
(* and dotICMP, which turn the containers into gauges.  Fed with what      *)
(* probeHTTP and probeICMP can report (HttpProbe).                         *)
(***************************************************************************)
EXTENDS HttpProbe, SequencesExt

CONSTANTS
    Sections,       \* http sections of configuration files, or NoSection; one of them in use
    Keys,           \* <<source region, target region>> or with a target: one per series
    HttpSeen,       \* circumstances of an http probe
    IcmpSeen,       \* circumstances of an icmp probe
    MaxResults      \* bound: results of a round

ASSUME ResultsAssumption == MaxResults \in Nat

\* No body has as many bytes as an int64 counts.
ASSUME AggregateAssumption ==
    /\ Sections \subseteq {NoSection} \cup
        [codes : {Unset} \cup SUBSET Int, versions : SUBSET STRING, noFollow : {Unset, TRUE, FALSE},
         follow : BOOLEAN, compression : STRING, failIfSSL : BOOLEAN, failIfNotSSL : BOOLEAN,
         limit : Int]
    /\ HttpSeen \subseteq
        [broken : {"", "url", "resolve", "client", "request"}, code : Nat,
         packed : SUBSET {"br", "deflate", "gzip"}, version : STRING, tls : BOOLEAN,
         wasTLS : BOOLEAN, viaTLS : BOOLEAN, hops : Nat, readable : BOOLEAN,
         size : 0 .. MaxInt - 1, time : Nat, expiry : Int]
    /\ IcmpSeen \subseteq [pinged : BOOLEAN, resolved : BOOLEAN, time : Nat, loss : Nat]
    /\ MaxInt \in Nat /\ MaxInt > 1

\* The first request is the last one without redirects, and with one redirect
\* there is none in between.
ASSUME RequestsAssumption ==
    \A w \in HttpSeen : (w.hops = 0 => w.tls = w.wasTLS) /\ (w.hops < 2 => ~w.viaTLS)

VARIABLES
    section,        \* the http section the agents' configuration comes from
    queue,          \* the results received, in the order agg meets them
    seen,           \* history: the circumstances of each of them
    batch,          \* history: the results last aggregated, and their circumstances
    dots            \* gauges that aggregation set: label values -> value

vars == <<section, queue, seen, batch, dots>>

NoDots == [s \in {} |-> <<0, 1>>]
NoBatch == [results |-> <<>>, seen |-> <<>>]

Init ==
    /\ section \in Sections
    /\ queue = <<>> /\ seen = <<>>
    /\ batch = NoBatch /\ dots = NoDots

\* A result of the next round; the history of the last one ends here, which
\* bounds the model and forgets nothing agg reads.
Probed(what, result) ==
    /\ Len(queue) < MaxResults
    /\ seen' = Append(seen, what)
    /\ queue' = Append(queue, result)
    /\ batch' = NoBatch /\ dots' = NoDots
    /\ UNCHANGED section

\* An agent that panics reports nothing.
ProbeHTTP(k, what) ==
    LET conf == HttpConf(section)
    IN  ~HttpPanics(conf, what) /\ Probed(what, HttpResult(conf, k, what))

ProbeICMP(k, what) == Probed(what, IcmpResult(k, what))
-----------------------------------------------------------------------------
(***************************************************************************)
(* The containers                                                          *)
(***************************************************************************)
EmptyContainer ==
    [reason |-> "success", cnt |-> 0, failed |-> 0, phase |-> NoPhase, codes |-> <<>>,
     tls |-> NoTLS]

\* container.phase[stage] += val: a stage not yet there counts from 0.
AddPhase(f, g) ==
    [s \in DOMAIN f \cup DOMAIN g |->
        (IF s \in DOMAIN f THEN f[s] ELSE 0) + (IF s \in DOMAIN g THEN g[s] ELSE 0)]

\* Mutants of Added: a failed result's phases count too; the last reason wins;
\* a success is forgotten once the round has a failure.
AddedFailedPhases(c, r) ==
    [c EXCEPT !.codes = Append(@, r.code), !.phase = AddPhase(@, r.phase),
              !.cnt = IF r.ok THEN @ + 1 ELSE @, !.failed = IF r.ok THEN @ ELSE @ + 1]
AddedLastReason(c, r) ==
    LET coded == [c EXCEPT !.codes = Append(@, r.code)]
    IN  IF r.ok
        THEN [coded EXCEPT !.cnt = @ + 1,
                           !.phase = AddPhase(@, r.phase),
                           !.tls = IF r.tls # NoTLS THEN r.tls ELSE @]
        ELSE [coded EXCEPT !.failed = @ + 1,
                           !.reason = IF r.ptype = "http" /\ r.reason # "" THEN r.reason ELSE @]
AddedUntilFailed(c, r) ==
    IF ~r.ok
    THEN [c EXCEPT !.codes = Append(@, r.code), !.failed = @ + 1,
                   !.reason = IF r.ptype = "http" /\ r.reason # "" /\ @ = "success"
                              THEN r.reason ELSE @]
    ELSE [c EXCEPT !.codes = Append(@, r.code), !.cnt = IF c.failed = 0 THEN @ + 1 ELSE @,
                   !.phase = AddPhase(@, r.phase), !.tls = IF @ = NoTLS THEN r.tls ELSE @]

\* One result: successes are counted, and only their phases added up; of the
\* TLS data and of the reasons the first one is kept.
Added(c, r) ==
    LET coded == [c EXCEPT !.codes = Append(@, r.code)]
    IN  IF r.ok
        THEN [coded EXCEPT !.cnt = @ + 1,
                           !.phase = AddPhase(@, r.phase),
                           !.tls = IF r.tls # NoTLS /\ @ = NoTLS THEN r.tls ELSE @]
        ELSE [coded EXCEPT !.failed = @ + 1,
                           !.reason = IF r.ptype = "http" /\ r.reason # "" /\ @ = "success"
                                      THEN r.reason ELSE @]

\* The container of <<probe type, key>>, made when it is asked for.
At(cs, x) == IF x \in DOMAIN cs THEN cs[x] ELSE EmptyContainer
Into(cs, r) ==
    LET x == <<r.ptype, r.key>>
    IN  [y \in DOMAIN cs \cup {x} |-> IF y = x THEN Added(At(cs, x), r) ELSE cs[y]]

\* The containers after the whole queue, by <<probe type, key>>.
Containers(q) == FoldLeft(Into, [x \in {} |-> EmptyContainer], q)

SumSeq(s) == FoldLeft(LAMBDA a, b : a + b, 0, s)

\* dotHTTP of one container: label values -> value, a value being a fraction,
\* <<total, divisor>>; the code of the status is a quotient of integers.
HttpDots(k, c) ==
    [s \in {<<"code", k>>, <<"http_failed", k, c.reason>>}
            \cup {<<"http", k, st>> : st \in DOMAIN c.phase}
            \cup (IF c.tls # NoTLS /\ c.tls.expiry # 0 THEN {<<"cert", k, c.tls.version>>} ELSE {}) |->
        CASE s[1] = "cert" -> <<c.tls.expiry, 1>>
          [] s[1] = "code" -> <<SumSeq(c.codes) \div Len(c.codes), 1>>
          [] s[1] = "http_failed" -> <<c.failed, 1>>
          [] s[1] = "http" -> <<c.phase[s[3]], c.cnt>>]

\* dotICMP of one container: loss and stddev have metrics of their own, and
\* all other stages add up to what the histogram observes.
IcmpDots(k, c) ==
    LET lone == DOMAIN c.phase \cap {"loss", "stddev"}
        stages == DOMAIN c.phase \ lone
        inOrder == SetToSeq(stages)
    IN  [s \in {<<"icmp_failed", k>>, <<"icmp_total", k>>}
                \cup {<<st, k>> : st \in lone} \cup {<<"icmp", k, st>> : st \in stages} |->
            CASE s[1] = "icmp_failed" -> <<c.failed, 1>>
              [] s[1] = "icmp_total" ->
                    <<SumSeq([i \in DOMAIN inOrder |-> c.phase[inOrder[i]]]), 1>>
              [] s[1] = "icmp" -> <<c.phase[s[3]], c.cnt>>
              [] s[1] \in lone -> <<c.phase[s[1]], c.cnt>>]

\* What is published of a queue. No two containers share a series.
ContainerDots(x, c) == IF x[1] = "http" THEN HttpDots(x[2], c) ELSE IcmpDots(x[2], c)
Published(q) ==
    LET cs == Containers(q)
    IN  [s \in UNION {DOMAIN ContainerDots(x, cs[x]) : x \in DOMAIN cs} |->
            LET x == CHOOSE x \in DOMAIN cs : s \in DOMAIN ContainerDots(x, cs[x])
            IN  ContainerDots(x, cs[x])[s]]

\* The aggregation of everything queued, and the reset of the queue. A queue
\* that is empty is left alone.
Agg ==
    /\ queue # <<>>
    /\ dots' = Published(queue)
    /\ batch' = [results |-> queue, seen |-> seen]
    /\ queue' = <<>> /\ seen' = <<>>
    /\ UNCHANGED section

Next ==
    \/ \E k \in Keys :
        \/ \E what \in HttpSeen : ProbeHTTP(k, what)
        \/ \E what \in IcmpSeen : ProbeICMP(k, what)
    \/ Agg

Spec == Init /\ [][Next]_vars
-----------------------------------------------------------------------------
(***************************************************************************)
(* Properties                                                              *)
(***************************************************************************)
\* What can be reported under the section in use.
Results ==
    {HttpResult(HttpConf(section), k, what) : k \in Keys, what \in HttpSeen}
        \cup {IcmpResult(k, what) : k \in Keys, what \in IcmpSeen}

TypeOK ==
    /\ section \in Sections
    /\ queue \in Seq(Results) /\ seen \in Seq(HttpSeen \cup IcmpSeen)
    /\ Len(queue) = Len(seen) /\ Len(queue) <= MaxResults
    /\ batch.results \in Seq(Results) /\ Len(batch.results) = Len(batch.seen)

\* The results of the last batch of one kind and key, by their position.
Of(ptype, k) ==
    {i \in DOMAIN batch.results : batch.results[i].ptype = ptype /\ batch.results[i].key = k}
Good(ptype, k) == {i \in Of(ptype, k) : batch.results[i].ok}

\* Every failure is counted, once, under its own pair: the failed series of a
\* pair of regions (and of a target) adds up with what the batch holds, there
\* is one for every pair reported on and none for another, and an http series
\* carries the reason of the first failure that has one (aggregator.go:204-214).
FailuresCounted ==
    \A k \in Keys :
        LET bad == Of("http", k) \ Good("http", k)
            why == {i \in bad : batch.results[i].reason # ""}
            http == {s \in DOMAIN dots : s[1] = "http_failed" /\ s[2] = k}
        IN  /\ {dots[s] : s \in http}
                = IF Of("http", k) = {} THEN {} ELSE {<<Cardinality(bad), 1>>}
            /\ \A s \in http :
                s[3] = IF why = {} THEN "success" ELSE batch.results[Min(why)].reason
            /\ <<"icmp_failed", k>> \in DOMAIN dots <=> Of("icmp", k) # {}
            /\ Of("icmp", k) # {} =>
                dots[<<"icmp_failed", k>>]
                    = <<Cardinality(Of("icmp", k) \ Good("icmp", k)), 1>>

\* A failed probe does not distort a duration: the average of a stage lies
\* between the smallest and the largest value the successful probes measured,
\* if all of them measured that stage, and there is none without a success
\* (aggregator.go:180-182, "防止: 成功4台,失败1台").
Stages(ptype) ==
    IF ptype = "http"
    THEN HttpStages([tls |-> TRUE, wasTLS |-> TRUE, viaTLS |-> TRUE])
    ELSE IcmpStages
MeanOfSuccesses ==
    \A ptype \in {"http", "icmp"}, k \in Keys : \A st \in Stages(ptype) :
        LET good == Good(ptype, k)
            values == {batch.results[i].phase[st] :
                          i \in {j \in good : st \in DOMAIN batch.results[j].phase}}
            s == IF st \in {"loss", "stddev"} THEN <<st, k>> ELSE <<ptype, k, st>>
        IN  /\ s \in DOMAIN dots <=> values # {}
            /\ good # {} /\ (\A i \in good : st \in DOMAIN batch.results[i].phase) =>
                /\ dots[s][1] >= dots[s][2] * Min(values)
                /\ dots[s][1] <= dots[s][2] * Max(values)

\* The reports of a round arrive in any order: what is published does not
\* depend on it, but for the reason and the certificate, of which the first one
\* met is kept (aggregator.go:196-211).
Timeless(c) == [cnt |-> c.cnt, failed |-> c.failed, phase |-> c.phase, code |-> SumSeq(c.codes),
                reasoned |-> c.reason # "success", tls |-> c.tls # NoTLS]
AnyOrder ==
    LET there == Containers(queue)
        back == Containers(Reverse(queue))
    IN  /\ DOMAIN there = DOMAIN back
        /\ \A x \in DOMAIN there : Timeless(there[x]) = Timeless(back[x])

\* What the file asks for, as the repository words it, by the reasons that are
\* given when it is not so: "Defaults to 2xx." (config.go:85), and "if we cannot
\* decompress it it's a failure" (http_response.go:221). An entry without a section
\* asks for no more than an empty one.
Given(sec) ==
    IF sec = NoSection
    THEN [codes |-> Unset, noFollow |-> Unset, follow |-> TRUE, limit |-> 0, versions |-> {},
          compression |-> "identity", failIfSSL |-> FALSE, failIfNotSSL |-> FALSE]
    ELSE sec
Followed(f) == IF f.noFollow = Unset THEN f.follow ELSE ~f.noFollow
Final(f, w) == w.hops = 0 \/ (Followed(f) /\ w.hops <= 10)
Answered(f, w) == IF Final(f, w) THEN w.code ELSE 301
Asked(f, w) ==
    LET code == Answered(f, w)
        tls == IF Followed(f) \/ Final(f, w) THEN w.tls ELSE w.wasTLS
    IN  [status |-> IF f.codes \in {Unset, {}} THEN code \in 200..299 ELSE code \in f.codes,
         compression |-> f.compression = "identity"
                            \/ (Final(f, w) /\ f.compression \in w.packed),
         version |-> f.versions = {} \/ w.version \in f.versions,
         ssl |-> f.failIfSSL => ~tls,
         nossl |-> f.failIfNotSSL => tls]
Whole(f, w) == w.readable /\ (f.limit > 0 => w.size <= f.limit)

\* Where the repository contradicts itself, and nothing is claimed of that demand:
\* codes that are not given are "2xx" in the comment of config.go:85, and 200 in
\* the default (config.go:111) and in config_isolation_test.go:50; and a body
\* that is to be br or deflate is not looked at after a redirect that was not
\* followed (http_response.go:276), where gzip fails.
Disputed(f, w) ==
    (IF f.codes = Unset /\ Answered(f, w) \in 201..299 THEN {"status"} ELSE {})
        \cup (IF f.compression \in {"br", "deflate"} /\ ~Final(f, w) THEN {"compression"} ELSE {})

\* A target is reported good only if it answered and its answer is what the FILE
\* asks for, through the defaults, the redirects that are followed or not, and
\* the returns of probeHTTP; it is whenever nothing it is asked is disputed; and
\* a reason names a demand that is not met (config.go:152-192,
\* http_response.go:115-377).
JudgedRightly(f, r, w) ==
    LET asked == Asked(f, w)
        disputed == Disputed(f, w)
        answered == w.broken = "" /\ (Final(f, w) => Whole(f, w))
        why == IF r.reason = "no ssl" THEN "nossl" ELSE r.reason
    IN  /\ r.ok => answered /\ \A c \in DOMAIN asked \ disputed : asked[c]
        /\ answered /\ disputed = {} /\ (\A c \in DOMAIN asked : asked[c]) => r.ok
        /\ r.reason # "" /\ w.broken = "" => why \in disputed \/ ~asked[why]
JudgedAsConfigured ==
    \A i \in DOMAIN queue : queue[i].ptype = "http" => JudgedRightly(Given(section), queue[i], seen[i])
=============================================================================
