------------------------------ MODULE HttpProbe ------------------------------
(***************************************************************************)
(* What an agent makes of one probe: probeHTTP of agent/http_response.go,  *)
(* a long function of early returns, and probeICMP of agent/icmp.go.       *)
(*                                                                         *)
(* A probe's circumstances are a record of what the network and the target *)
(* did; times are given, a duration is only a number here.  Left out are   *)
(* the checks no configuration can ask for: header matchers (their         *)
(* UnmarshalYAML always fails) and body matchers (never compiled, so that  *)
(* the first match panics).                                                *)
(***************************************************************************)
EXTENDS Config, Sequences

\* The result of a probe, pb.ProberResultReq, as far as the server reads it.
Result(ptype, key, ok, reason, code, phase, tls) ==
    [ptype |-> ptype, key |-> key, ok |-> ok, reason |-> reason, code |-> code,
     phase |-> phase, tls |-> tls]

NoPhase == [s \in {} |-> 0]
NoTLS == [version |-> "", expiry |-> 0]

\* valid_status_codes; without it any 2xx.
ValidCode(conf, code) ==
    IF conf.codes = {} THEN 200 <= code /\ code < 300 ELSE code \in conf.codes

\* CheckRedirect: the target would redirect `hops' times. With the eleventh, or
\* with the first if redirects are not followed, client.Do gives that response
\* and an error.
Stopped(conf, seen) == seen.hops > 10 \/ (seen.hops > 0 /\ ~conf.follow)

\* What was seen, as the checks find it: the response of a redirect that was not
\* followed has a closed body, of which nothing can be unpacked; without
\* following, the first request is also the last.
Met(conf, seen) ==
    IF Stopped(conf, seen)
    THEN [seen EXCEPT !.code = 301, !.packed = {},
                      !.tls = IF conf.follow THEN @ ELSE seen.wasTLS,
                      !.viaTLS = conf.follow /\ @]
    ELSE seen

\* getDecompressionReader fails: of an algorithm it does not know, and of gzip,
\* the only one whose reader looks at the body when it is made.
NoReader(conf, seen) ==
    \/ conf.compression \notin {"identity", "br", "deflate", "gzip"}
    \/ conf.compression = "gzip" /\ "gzip" \notin seen.packed

\* The body is read to its end or to the limit, and not at all after an error.
\* Only here is a body found not to be what br or deflate packs.
BodyRead(conf, seen) ==
    \/ Stopped(conf, seen)
    \/ /\ seen.readable /\ (conf.limit <= 0 \/ seen.size <= conf.limit)
       /\ conf.compression \in {"br", "deflate"} => conf.compression \in seen.packed

\* A request over TLS: the first, one in between, or the last.
OverTLS(seen) == seen.wasTLS \/ seen.viaTLS \/ seen.tls

HttpStages(seen) ==
    {"resolve", "connect", "processing", "transfer"}
        \cup (IF OverTLS(seen) THEN {"tls"} ELSE {})

Resolved(seen) == [s \in IF seen.broken = "url" THEN {} ELSE {"resolve"} |-> seen.time]
Measured(seen) == [s \in HttpStages(seen) |-> seen.time]
TLSFields(seen) == IF seen.tls THEN [version |-> "TLS", expiry |-> seen.expiry] ELSE NoTLS

\* The checks of the response, in the code's order: the reason a check gives
\* when it fails, and whether it does.
Checks(conf, seen) ==
    << <<"status", ~ValidCode(conf, seen.code)>>,
       <<"compression", NoReader(conf, seen)>>,
       <<"version", conf.versions # {} /\ seen.version \notin conf.versions>>,
       <<"ssl", conf.failIfSSL /\ seen.tls>>,
       <<"no ssl", conf.failIfNotSSL /\ ~seen.tls>> >>

\* A request before the last was over TLS and the final response is not: for the
\* trace of that request getTLSVersion dereferences the response's nil state.
HttpPanics(conf, seen) ==
    LET met == Met(conf, seen)
    IN  /\ met.broken = "" /\ OverTLS(met) /\ ~met.tls
        /\ \A i \in 1..3 : ~Checks(conf, met)[i][2]

\* probeHTTP, in the order of its returns. `broken' is the step before the
\* response that failed ("url", "resolve", "client", "request"; "" if none). A
\* body that cannot be read, or is too long, fails the probe without a reason;
\* the traces are read after the first three checks.
HttpResult(conf, key, seen) ==
    LET met == Met(conf, seen)
        checks == Checks(conf, met)
        failing == {i \in DOMAIN checks : checks[i][2]}
        first == CHOOSE i \in failing : \A j \in failing : i <= j
    IN  IF met.broken # ""
        THEN Result("http", key, FALSE, met.broken, 0, Resolved(met), NoTLS)
        ELSE IF failing # {}
        THEN Result("http", key, FALSE, checks[first][1], met.code,
                    IF first <= 3 THEN Resolved(met) ELSE Measured(met),
                    IF first <= 3 THEN NoTLS ELSE TLSFields(met))
        ELSE Result("http", key, BodyRead(conf, seen), "", met.code,
                    Measured(met), TLSFields(met))

IcmpStages == {"resolve", "rtt", "min", "max", "loss", "stddev"}

\* probeICMP: no reason is ever given; without a ping only the resolve time may be
\* there. A ping that nobody answers finishes too, as a success with times of 0.
IcmpResult(key, seen) ==
    IF seen.pinged
    THEN Result("icmp", key, TRUE, "", 0, [s \in IcmpStages |-> IF s = "loss" THEN seen.loss ELSE seen.time], NoTLS)
    ELSE Result("icmp", key, FALSE, "", 0,
                IF seen.resolved THEN [s \in {"resolve"} |-> seen.time] ELSE NoPhase, NoTLS)
=============================================================================
