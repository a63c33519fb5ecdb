------------------------- MODULE AggregationProofs --------------------------
(***************************************************************************)
(* What the server makes of a round, for rounds of every size and for      *)
(* every set of sections, keys and circumstances: the four properties of   *)
(* Aggregate; and that no series it exposes is leaked (MetricHold).        *)
(*                                                                         *)
(* The containers of a queue are a fold over it.  A fold is the end of a   *)
(* history, one state per result taken (ContainersHistory), and a fact     *)
(* about all states of a history is proved by induction over the set of    *)
(* the positions where it holds (PrefixInduction).  Three such facts carry *)
(* the theorems: what a container counts (CountedTill), what its stages    *)
(* add up to (MeasuredTill), and that a result may be taken from the one   *)
(* end of the queue or from the other (Balanced).                          *)
(***************************************************************************)
EXTENDS Aggregate, MetricHold, FiniteSetTheorems, TLAPS

-----------------------------------------------------------------------------
(***************************************************************************)
(* Induction up to a number, and the fold of agg's loop                    *)
(***************************************************************************)
\* A set of naturals has a least element: of the intervals up to its elements
\* one is contained in no other.
LEMMA LeastNat == ASSUME NEW S \in SUBSET Nat, S # {} PROVE \E m \in S : \A k \in S : m <= k
<1> DEFINE T == {0 .. m : m \in S}
<1>1. T # {}
  OBVIOUS
<1>2. ASSUME NEW m \in S PROVE 0 .. m \in FiniteSubsetsOf(Nat)
  <2>1. m \in Int /\ 0 \in Int /\ 0 .. m \in SUBSET Nat
    OBVIOUS
  <2>2. IsFiniteSet(0 .. m)
    BY <2>1, FS_Interval
  <2>3. QED
    BY <2>1, <2>2 DEF FiniteSubsetsOf
<1>3. T \subseteq FiniteSubsetsOf(Nat)
  BY <1>2
<1>4. \E x \in T : \A y \in T : <<y, x>> \notin StrictSubsetOrdering(Nat)
  <2> HIDE DEF T
  <2> QED
    BY <1>1, <1>3, WFMin, FS_StrictSubsetOrderingWellFounded
<1>5. PICK m \in S : \A k \in S : <<0 .. k, 0 .. m>> \notin StrictSubsetOrdering(Nat)
  BY <1>4
<1>6. ASSUME NEW k \in S, k < m PROVE FALSE
  <2> DEFINE K == 0 .. k
             M == 0 .. m
  <2>1. K \in SUBSET Nat /\ M \in SUBSET Nat /\ K \subseteq M /\ m \in M /\ m \notin K
    BY <1>6
  <2>2. <<K, M>> \notin StrictSubsetOrdering(Nat)
    BY <1>5
  <2> HIDE DEF K, M
  <2>3. QED
    BY <2>1, <2>2 DEF StrictSubsetOrdering
<1>7. QED
  BY <1>6

\* Induction up to n, over a set instead of a predicate.
LEMMA PrefixInduction ==
    ASSUME NEW n \in Nat, NEW S, 0 \in S, \A i \in 0 .. n - 1 : i \in S => i + 1 \in S
    PROVE  \A i \in 0 .. n : i \in S
<1>1. SUFFICES ASSUME (0 .. n) \ S # {} PROVE FALSE
  OBVIOUS
<1>2. PICK m \in (0 .. n) \ S : \A k \in (0 .. n) \ S : m <= k
  <2>1. (0 .. n) \ S \in SUBSET Nat
    OBVIOUS
  <2>2. QED
    BY <1>1, <2>1, LeastNat
<1>3. m - 1 \in 0 .. n - 1 /\ m - 1 \in S
  BY <1>2
<1>4. QED
  BY <1>2, <1>3

\* Before the first result there is no container.
NoContainers == [x \in {} |-> EmptyContainer]

\* `it' is the function by which FoldLeft goes through the first n results.
GoesThrough(q, n, it) ==
    it = [t \in SUBSET (1 .. n) |->
            IF t = {} THEN NoContainers ELSE Into(it[t \ {Max(t)}], q[Max(t)])]

\* The last of the results taken is the one FoldLeft adds last.
LEMMA MaxOfPrefix ==
    ASSUME NEW n \in Nat, NEW t \in SUBSET (1 .. n), n \in t
    PROVE  Max(t) = n
<1>1. \A x \in t : n >= x
  OBVIOUS
<1>2. \A x \in t : (\A y \in t : x >= y) => x = n
  OBVIOUS
<1>3. QED
  BY <1>1, <1>2 DEF Max

\* Such a function for n results can be extended to one more.
LEMMA OneMoreGone ==
    ASSUME NEW q, NEW n \in Nat, NEW it, GoesThrough(q, n, it)
    PROVE  \E next : GoesThrough(q, n + 1, next)
<1> DEFINE next ==
        [t \in SUBSET (1 .. n + 1) |->
            IF n + 1 \in t THEN Into(it[t \ {n + 1}], q[n + 1]) ELSE it[t]]
<1>1. \A t \in SUBSET (1 .. n) : next[t] = it[t]
  OBVIOUS
<1>2. ASSUME NEW t \in SUBSET (1 .. n + 1)
      PROVE  next[t] = IF t = {} THEN NoContainers ELSE Into(next[t \ {Max(t)}], q[Max(t)])
  <2>1. CASE n + 1 \in t
    <3>1. next[t \ {n + 1}] = it[t \ {n + 1}]
      <4>1. t \ {n + 1} \in SUBSET (1 .. n)
        OBVIOUS
      <4>2. QED
        BY <4>1, <1>1
    <3>2. next[t] = Into(it[t \ {n + 1}], q[n + 1])
      BY <2>1
    <3>3. Max(t) = n + 1
      BY <2>1, MaxOfPrefix, n + 1 \in Nat
    <3>4. QED
      BY <3>1, <3>2, <3>3, <2>1
  <2>2. CASE n + 1 \notin t
    <3>1. \A x \in 1 .. n + 1 : x # n + 1 => x \in 1 .. n
      OBVIOUS
    <3>2. t \in SUBSET (1 .. n) /\ t \ {Max(t)} \in SUBSET (1 .. n)
      BY <2>2, <3>1
    <3>3. next[t] = it[t] /\ next[t \ {Max(t)}] = it[t \ {Max(t)}]
      BY <3>2, <1>1
    <3>4. it[t] = IF t = {} THEN NoContainers ELSE Into(it[t \ {Max(t)}], q[Max(t)])
      BY <3>2 DEF GoesThrough
    <3>5. QED
      BY <3>3, <3>4
  <2>3. QED
    BY <2>1, <2>2
<1>3. GoesThrough(q, n + 1, next)
  BY <1>2 DEF GoesThrough
<1>4. QED
  BY <1>3

\* So there is one for every n, which is what the CHOOSE in FoldLeft needs.
LEMMA FoldGoesThrough == ASSUME NEW q, NEW n \in Nat PROVE \E it : GoesThrough(q, n, it)
<1> DEFINE S == {m \in Nat : \E it : GoesThrough(q, m, it)}
<1>1. 0 \in S
  <2> DEFINE it == [t \in SUBSET (1 .. 0) |-> NoContainers]
  <2>1. \A t \in SUBSET (1 .. 0) : t = {}
    OBVIOUS
  <2>2. GoesThrough(q, 0, it)
    BY <2>1 DEF GoesThrough
  <2>3. QED
    BY <2>2
<1>2. \A i \in 0 .. n - 1 : i \in S => i + 1 \in S
  BY OneMoreGone
<1>3. \A i \in 0 .. n : i \in S
  <2> HIDE DEF S
  <2> QED BY <1>1, <1>2, PrefixInduction
<1>4. QED
  BY <1>3

\* The containers after 0, 1, .. of the results of q, up to all of them.
IsHistory(q, h) ==
    /\ h[0] = NoContainers
    /\ \A i \in 1 .. Len(q) : h[i] = Into(h[i - 1], q[i])

\* What agg's loop makes of a queue is the end of such a history
\* (aggregator.go:139-216).
LEMMA ContainersHistory ==
    ASSUME NEW S, NEW q \in Seq(S)
    PROVE  \E h : IsHistory(q, h) /\ Containers(q) = h[Len(q)]
<1> DEFINE n == Len(q)
           it == CHOOSE it : GoesThrough(q, n, it)
           h == [i \in 0 .. n |-> it[1 .. i]]
<1>1. n \in Nat /\ DOMAIN q = 1 .. n
  OBVIOUS
<1>2. Containers(q) = it[1 .. n]
  BY <1>1 DEF Containers, FoldLeft, MapThenFoldSet, GoesThrough, NoContainers
<1>3. GoesThrough(q, n, it)
  BY <1>1, FoldGoesThrough
<1> HIDE DEF it
<1>4. h[0] = NoContainers
  <2>1. 1 .. 0 = {} /\ {} \in SUBSET (1 .. n)
    OBVIOUS
  <2>2. it[{}] = NoContainers
    BY <1>3, <2>1 DEF GoesThrough
  <2>3. QED
    BY <2>1, <2>2, <1>1
<1>5. ASSUME NEW i \in 1 .. n PROVE h[i] = Into(h[i - 1], q[i])
  <2>1. 1 .. i \in SUBSET (1 .. n) /\ i \in 1 .. i /\ (1 .. i) \ {i} = 1 .. i - 1
    BY <1>1
  <2>2. Max(1 .. i) = i
    BY <2>1, <1>1, MaxOfPrefix, i \in Nat, 1 .. i \in SUBSET (1 .. i)
  <2>3. it[1 .. i] = Into(it[1 .. i - 1], q[i])
    BY <1>3, <2>1, <2>2 DEF GoesThrough
  <2>4. QED
    BY <2>3, <1>1
<1>6. Containers(q) = h[n]
  BY <1>1, <1>2
<1>7. IsHistory(q, h)
  <2> HIDE DEF h
  <2> QED
    BY <1>4, <1>5 DEF IsHistory
<1>8. QED
  BY <1>6, <1>7

-----------------------------------------------------------------------------
(***************************************************************************)
(* What a probe reports, and the invariants of the queue and of the last batch *)
(***************************************************************************)
\* The demands of probeHTTP's checks, met or not, are those of the file.
LEMMA ConfigIsGiven ==
    ASSUME NEW sec \in Sections, NEW w \in HttpSeen
    PROVE  LET conf == HttpConf(sec)
               f == Given(sec)
           IN  /\ (conf.follow <=> Followed(f)) /\ conf.follow \in BOOLEAN
               /\ \A code \in Nat : ValidCode(conf, code) <=>
                    IF f.codes = Unset THEN code = 200
                    ELSE IF f.codes = {} THEN code \in 200..299 ELSE code \in f.codes
               /\ conf.compression = f.compression
               /\ conf.versions = f.versions
               /\ conf.failIfSSL = f.failIfSSL /\ conf.failIfSSL \in BOOLEAN
               /\ conf.failIfNotSSL = f.failIfNotSSL /\ conf.failIfNotSSL \in BOOLEAN
               /\ (conf.limit <= 0 \/ w.size <= conf.limit) <=> (f.limit > 0 => w.size <= f.limit)
<1> DEFINE conf == HttpConf(sec)
           f == Given(sec)
<1>0. w.size \in 0 .. MaxInt - 1 /\ MaxInt \in Nat /\ MaxInt > 1
  BY AggregateAssumption
<1>1. CASE sec = NoSection
  BY <1>0, <1>1 DEF HttpConf, DefaultHttpProbe, Given, Followed, ValidCode
<1>2. CASE sec # NoSection
  <2>1. f = sec /\ f \in [codes : {Unset} \cup SUBSET Int, versions : SUBSET STRING,
             noFollow : {Unset, TRUE, FALSE}, follow : BOOLEAN, compression : STRING,
             failIfSSL : BOOLEAN, failIfNotSSL : BOOLEAN, limit : Int]
    BY <1>2, AggregateAssumption DEF Given
  <2>2. conf = [f EXCEPT
            !.codes = IF @ = Unset THEN DefaultHttpProbe.codes ELSE @,
            !.follow = IF f.noFollow = Unset THEN @ ELSE ~f.noFollow,
            !.limit = IF @ < 0 \/ @ = MaxInt THEN MaxInt - 1 ELSE @]
    BY <1>2, <2>1 DEF HttpConf
  <2>3. (conf.follow <=> Followed(f)) /\ conf.follow \in BOOLEAN
    BY <2>1, <2>2 DEF Followed
  <2>4. conf.codes = (IF f.codes = Unset THEN {200} ELSE f.codes)
    BY <2>1, <2>2 DEF DefaultHttpProbe
  <2>5. conf.limit = IF f.limit < 0 \/ f.limit = MaxInt THEN MaxInt - 1 ELSE f.limit
    BY <2>1, <2>2
  <2>6. /\ conf.compression = f.compression /\ conf.versions = f.versions
        /\ conf.failIfSSL = f.failIfSSL /\ conf.failIfNotSSL = f.failIfNotSSL
        /\ f.failIfSSL \in BOOLEAN /\ f.failIfNotSSL \in BOOLEAN
        /\ f.limit \in Int
    BY <2>1, <2>2
  <2>7. ASSUME NEW code \in Nat
        PROVE  ValidCode(conf, code) <=>
                    IF f.codes = Unset THEN code = 200
                    ELSE IF f.codes = {} THEN code \in 200..299 ELSE code \in f.codes
    <3> HIDE DEF conf, f
    <3> QED
      BY <2>4 DEF ValidCode
  <2>8. (conf.limit <= 0 \/ w.size <= conf.limit) <=> (f.limit > 0 => w.size <= f.limit)
    <3> HIDE DEF conf, f
    <3> QED
      BY <2>5, <2>6, <1>0
  <2>9. QED
    BY <2>3, <2>6, <2>7, <2>8
<1>3. QED
  BY <1>1, <1>2

\* Which checks fail, and how the answer is met, in terms of the file: a demand
\* that is not disputed is not met exactly if its check fails, or, of br and
\* deflate, the body cannot be read.
LEMMA ChecksAreDemands ==
    ASSUME NEW sec \in Sections, NEW w \in HttpSeen
    PROVE  LET conf == HttpConf(sec)
               f == Given(sec)
               met == Met(conf, w)
           IN  /\ met.broken = w.broken /\ met.code \in Nat
               /\ Stopped(conf, w) <=> ~Final(f, w)
               /\ Checks(conf, met)[1][2] => ~Asked(f, w).status \/ "status" \in Disputed(f, w)
               /\ ~Checks(conf, met)[1][2] => Asked(f, w).status
               /\ Checks(conf, met)[2][2] => ~Asked(f, w).compression
               /\ ~Checks(conf, met)[2][2] /\ BodyRead(conf, w)
                    => Asked(f, w).compression \/ "compression" \in Disputed(f, w)
               /\ BodyRead(conf, w) => (Final(f, w) => Whole(f, w))
               /\ Asked(f, w).compression /\ (Final(f, w) => Whole(f, w)) => BodyRead(conf, w)
               /\ Checks(conf, met)[3][2] <=> ~Asked(f, w).version
               /\ Checks(conf, met)[4][2] <=> ~Asked(f, w).ssl
               /\ Checks(conf, met)[5][2] <=> ~Asked(f, w).nossl
<1> DEFINE conf == HttpConf(sec)
           f == Given(sec)
           met == Met(conf, w)
           code == Answered(f, w)
           tls == IF Followed(f) \/ Final(f, w) THEN w.tls ELSE w.wasTLS
<1>1. /\ (conf.follow <=> Followed(f)) /\ conf.follow \in BOOLEAN
      /\ \A c \in Nat : ValidCode(conf, c) <=>
            IF f.codes = Unset THEN c = 200
            ELSE IF f.codes = {} THEN c \in 200..299 ELSE c \in f.codes
      /\ conf.compression = f.compression
      /\ conf.versions = f.versions
      /\ conf.failIfSSL = f.failIfSSL /\ conf.failIfSSL \in BOOLEAN
      /\ conf.failIfNotSSL = f.failIfNotSSL /\ conf.failIfNotSSL \in BOOLEAN
  BY ConfigIsGiven
<1>2. w \in [broken : {"", "url", "resolve", "client", "request"}, code : Nat,
             packed : SUBSET {"br", "deflate", "gzip"}, version : STRING, tls : BOOLEAN,
             wasTLS : BOOLEAN, viaTLS : BOOLEAN, hops : Nat, readable : BOOLEAN,
             size : 0 .. MaxInt - 1, time : Nat, expiry : Int]
  BY AggregateAssumption
<1> HIDE DEF conf, f
<1>3. Stopped(conf, w) <=> ~Final(f, w)
  <2>1. Stopped(conf, w) <=> w.hops > 10 \/ (w.hops > 0 /\ ~conf.follow)
    BY DEF Stopped
  <2>2. Final(f, w) <=> w.hops = 0 \/ (Followed(f) /\ w.hops <= 10)
    BY DEF Final
  <2>3. w.hops \in Nat /\ (conf.follow <=> Followed(f))
    BY <1>1, <1>2
  <2>4. QED
    BY <2>1, <2>2, <2>3
<1>4. /\ met.broken = w.broken /\ met.version = w.version
      /\ met.code = code /\ met.code \in Nat
      /\ \A c : c \in met.packed <=> Final(f, w) /\ c \in w.packed
      /\ met.tls = tls /\ tls \in BOOLEAN
  <2>1. CASE Final(f, w)
    <3>1. met = w
      BY <2>1, <1>3 DEF Met
    <3>2. QED
      BY <3>1, <2>1, <1>2 DEF Answered
  <2>2. CASE ~Final(f, w)
    <3>1. met = [w EXCEPT !.code = 301, !.packed = {},
                          !.tls = IF conf.follow THEN w.tls ELSE w.wasTLS,
                          !.viaTLS = conf.follow /\ w.viaTLS]
      BY <2>2, <1>3, <1>2 DEF Met
    <3>2. /\ met.broken = w.broken /\ met.version = w.version
          /\ met.code = 301 /\ met.packed = {}
          /\ met.tls = IF conf.follow THEN w.tls ELSE w.wasTLS
      BY <3>1, <1>2, ZenonT(30)
    <3>3. code = 301 /\ tls = IF conf.follow THEN w.tls ELSE w.wasTLS
      BY <2>2, <1>1 DEF Answered
    <3>4. w.tls \in BOOLEAN /\ w.wasTLS \in BOOLEAN
      BY <1>2
    <3> HIDE DEF met, code, tls
    <3>5. QED
      BY <3>2, <3>3, <3>4, <2>2
  <2>3. QED
    BY <2>1, <2>2
<1> HIDE DEF met
<1>5. /\ Asked(f, w).status <=> IF f.codes \in {Unset, {}} THEN code \in 200..299
                                ELSE code \in f.codes
      /\ Asked(f, w).compression <=> f.compression = "identity"
                                        \/ (Final(f, w) /\ f.compression \in w.packed)
      /\ Asked(f, w).version <=> f.versions = {} \/ w.version \in f.versions
      /\ Asked(f, w).ssl <=> (f.failIfSSL => ~tls)
      /\ Asked(f, w).nossl <=> (f.failIfNotSSL => tls)
  BY DEF Asked
<1>6. /\ Checks(conf, met)[1][2] <=> ~ValidCode(conf, met.code)
      /\ Checks(conf, met)[2][2] <=> NoReader(conf, met)
      /\ Checks(conf, met)[3][2] <=> conf.versions # {} /\ met.version \notin conf.versions
      /\ Checks(conf, met)[4][2] <=> conf.failIfSSL /\ met.tls
      /\ Checks(conf, met)[5][2] <=> conf.failIfNotSSL /\ ~met.tls
  BY DEF Checks
<1>7. /\ f.codes = Unset /\ code \in 201..299 => "status" \in Disputed(f, w)
      /\ f.compression \in {"br", "deflate"} /\ ~Final(f, w) => "compression" \in Disputed(f, w)
  BY DEF Disputed
<1> HIDE DEF tls, code
<1>8. /\ Checks(conf, met)[1][2] => ~Asked(f, w).status \/ "status" \in Disputed(f, w)
      /\ ~Checks(conf, met)[1][2] => Asked(f, w).status
  <2>1. ValidCode(conf, code) <=> IF f.codes = Unset THEN code = 200
                                  ELSE IF f.codes = {} THEN code \in 200..299 ELSE code \in f.codes
    BY <1>1, <1>4
  <2>2. code \in Nat /\ (Checks(conf, met)[1][2] <=> ~ValidCode(conf, code))
    BY <1>4, <1>6
  <2>3. code \in 200..299 => code = 200 \/ code \in 201..299
    BY <2>2
  <2>4. 200 \in 200..299
    OBVIOUS
  <2>5. QED
    BY <2>1, <2>2, <2>3, <2>4, <1>5, <1>7
<1>9. /\ NoReader(conf, met) <=> \/ f.compression \notin {"identity", "br", "deflate", "gzip"}
                                 \/ f.compression = "gzip" /\ ~(Final(f, w) /\ "gzip" \in w.packed)
      /\ BodyRead(conf, w) <=>
            (Final(f, w) => /\ Whole(f, w)
                            /\ f.compression \in {"br", "deflate"} => f.compression \in w.packed)
  <2>1. NoReader(conf, met) <=>
            \/ conf.compression \notin {"identity", "br", "deflate", "gzip"}
            \/ conf.compression = "gzip" /\ "gzip" \notin met.packed
    BY DEF NoReader
  <2>2. conf.compression = f.compression
    BY <1>1
  <2>3. (conf.limit <= 0 \/ w.size <= conf.limit) <=> (f.limit > 0 => w.size <= f.limit)
    BY ConfigIsGiven DEF conf, f
  <2>4. BodyRead(conf, w) <=>
            \/ ~Final(f, w)
            \/ /\ Whole(f, w)
               /\ conf.compression \in {"br", "deflate"} => conf.compression \in w.packed
    BY <1>3, <2>3 DEF BodyRead, Whole
  <2>5. QED
    BY <2>1, <2>2, <2>4, <1>4
<1>10. /\ Checks(conf, met)[2][2] => ~Asked(f, w).compression
       /\ ~Checks(conf, met)[2][2] /\ BodyRead(conf, w)
            => Asked(f, w).compression \/ "compression" \in Disputed(f, w)
  <2>1. f.compression \in w.packed => f.compression \in {"br", "deflate", "gzip"}
    BY <1>2
  <2>2. QED
    BY <2>1, <1>5, <1>6, <1>7, <1>9
<1>11. /\ BodyRead(conf, w) => (Final(f, w) => Whole(f, w))
       /\ Asked(f, w).compression /\ (Final(f, w) => Whole(f, w)) => BodyRead(conf, w)
  BY <1>5, <1>9
<1>12. Checks(conf, met)[3][2] <=> ~Asked(f, w).version
  BY <1>1, <1>4, <1>5, <1>6
<1>13. Checks(conf, met)[4][2] <=> ~Asked(f, w).ssl
  BY <1>1, <1>4, <1>5, <1>6
<1>14. Checks(conf, met)[5][2] <=> ~Asked(f, w).nossl
  BY <1>1, <1>4, <1>5, <1>6
<1>15. QED
  BY <1>3, <1>4, <1>8, <1>10, <1>11, <1>12, <1>13, <1>14 DEF conf, f, met

\* The verdict of a probe is the one the file asks for.
LEMMA ProbeJudgedRightly ==
    ASSUME NEW sec \in Sections, NEW k, NEW w \in HttpSeen
    PROVE  JudgedRightly(Given(sec), HttpResult(HttpConf(sec), k, w), w)
<1> DEFINE conf == HttpConf(sec)
           f == Given(sec)
           met == Met(conf, w)
           checks == Checks(conf, met)
           failing == {i \in DOMAIN checks : checks[i][2]}
           first == CHOOSE i \in failing : \A j \in failing : i <= j
           r == HttpResult(conf, k, w)
           asked == Asked(f, w)
           disputed == Disputed(f, w)
           whole == Final(f, w) => Whole(f, w)
<1>1. /\ met.broken = w.broken
      /\ checks[1][2] => ~asked.status \/ "status" \in disputed
      /\ ~checks[1][2] => asked.status
      /\ checks[2][2] => ~asked.compression
      /\ ~checks[2][2] /\ BodyRead(conf, w) => asked.compression \/ "compression" \in disputed
      /\ checks[3][2] <=> ~asked.version
      /\ checks[4][2] <=> ~asked.ssl
      /\ checks[5][2] <=> ~asked.nossl
  BY ChecksAreDemands
<1>2. (BodyRead(conf, w) => whole) /\ (asked.compression /\ whole => BodyRead(conf, w))
  BY ChecksAreDemands
<1>3. /\ DOMAIN checks = 1 .. 5
      /\ checks[1][1] = "status" /\ checks[2][1] = "compression" /\ checks[3][1] = "version"
      /\ checks[4][1] = "ssl" /\ checks[5][1] = "no ssl"
  BY DEF Checks
<1>4. /\ DOMAIN asked = {"status", "compression", "version", "ssl", "nossl"}
      /\ asked["status"] = asked.status /\ asked["compression"] = asked.compression
      /\ asked["version"] = asked.version
      /\ asked["ssl"] = asked.ssl /\ asked["nossl"] = asked.nossl
  BY DEF Asked
<1>5. /\ w.broken # "" => r.ok = FALSE
      /\ w.broken = "" /\ failing # {} => r.ok = FALSE /\ r.reason = checks[first][1]
      /\ w.broken = "" /\ failing = {} => r.ok = BodyRead(conf, w) /\ r.reason = ""
  BY <1>1 DEF HttpResult, Result
<1> HIDE DEF conf, f, met, checks, r, asked, disputed, whole
<1>6. failing = {} <=> \A i \in 1 .. 5 : ~checks[i][2]
  BY <1>3
<1>7. ASSUME r.ok PROVE w.broken = "" /\ whole /\ \A c \in DOMAIN asked \ disputed : asked[c]
  <2>1. w.broken = "" /\ failing = {} /\ BodyRead(conf, w)
    BY <1>5, <1>7
  <2>2. /\ ~checks[1][2] /\ ~checks[2][2] /\ ~checks[3][2] /\ ~checks[4][2] /\ ~checks[5][2]
        /\ BodyRead(conf, w)
    <3>1. failing = {} /\ BodyRead(conf, w)
      BY <2>1
    <3>2. QED
      BY <3>1, <1>6
  <2>3. /\ asked.status /\ asked.version /\ asked.ssl /\ asked.nossl
        /\ asked.compression \/ "compression" \in disputed
    BY <2>2, <1>1
  <2>4. ASSUME NEW c \in DOMAIN asked \ disputed PROVE asked[c]
    BY <2>3, <1>4
  <2>5. QED
    BY <2>1, <2>4, <1>2
<1>8. ASSUME w.broken = "", whole, disputed = {}, \A c \in DOMAIN asked : asked[c] PROVE r.ok
  <2>1. /\ asked.status /\ asked.compression /\ asked.version /\ asked.ssl /\ asked.nossl
    BY <1>4, <1>8
  <2>2. /\ ~checks[1][2] /\ ~checks[2][2] /\ ~checks[3][2] /\ ~checks[4][2] /\ ~checks[5][2]
        /\ BodyRead(conf, w)
    BY <2>1, <1>1, <1>2, <1>8
  <2>3. failing = {}
    BY <2>2, <1>6
  <2>4. QED
    BY <2>2, <2>3, <1>5, <1>8
<1>9. ASSUME r.reason # "", w.broken = ""
      PROVE  LET why == IF r.reason = "no ssl" THEN "nossl" ELSE r.reason
             IN  why \in disputed \/ ~asked[why]
  <2>1. failing # {} /\ r.reason = checks[first][1]
    BY <1>5, <1>9
  <2>2. first \in failing
    <3>1. failing \subseteq 1 .. 5
      BY <1>3
    <3>2. \E i \in failing : \A j \in failing : i <= j
      BY <2>1, <3>1
    <3>3. QED
      BY <3>2
  <2> HIDE DEF first
  <2>3. first \in 1 .. 5 /\ checks[first][2]
    BY <2>2, <1>3
  <2>4. CASE first = 1
    BY <2>1, <2>3, <2>4, <1>1, <1>3, <1>4
  <2>5. CASE first = 2
    BY <2>1, <2>3, <2>5, <1>1, <1>3, <1>4
  <2>6. CASE first = 3
    BY <2>1, <2>3, <2>6, <1>1, <1>3, <1>4
  <2>7. CASE first = 4
    BY <2>1, <2>3, <2>7, <1>1, <1>3, <1>4
  <2>8. CASE first = 5
    BY <2>1, <2>3, <2>8, <1>1, <1>3, <1>4
  <2>9. first = 1 \/ first = 2 \/ first = 3 \/ first = 4 \/ first = 5
    BY <2>3
  <2>10. QED
    BY <2>4, <2>5, <2>6, <2>7, <2>8, <2>9
<1>10. QED
  BY <1>7, <1>8, <1>9 DEF JudgedRightly, r, asked, disputed, whole, f, conf

\* What a result is to the aggregation.
IsResult(r) ==
    /\ r.ptype \in {"http", "icmp"} /\ r.key \in Keys
    /\ r.ok \in BOOLEAN /\ r.reason # "success" /\ r.code \in Nat
    /\ \A st \in DOMAIN r.phase : r.phase[st] \in Nat

\* What probeHTTP reports has a verdict, a code, and phases that are naturals.
LEMMA HttpResultIsResult ==
    ASSUME NEW sec \in Sections, NEW k \in Keys, NEW w \in HttpSeen
    PROVE  /\ IsResult(HttpResult(HttpConf(sec), k, w))
           /\ HttpResult(HttpConf(sec), k, w).ptype = "http"
<1> DEFINE conf == HttpConf(sec)
           met == Met(conf, w)
           checks == Checks(conf, met)
           failing == {i \in DOMAIN checks : checks[i][2]}
           first == CHOOSE i \in failing : \A j \in failing : i <= j
           r == HttpResult(conf, k, w)
<1>1. w \in [broken : {"", "url", "resolve", "client", "request"}, code : Nat,
             packed : SUBSET {"br", "deflate", "gzip"}, version : STRING, tls : BOOLEAN,
             wasTLS : BOOLEAN, viaTLS : BOOLEAN, hops : Nat, readable : BOOLEAN,
             size : 0 .. MaxInt - 1, time : Nat, expiry : Int]
  BY AggregateAssumption
<1> HIDE DEF conf
<1>2. met.broken = w.broken /\ met.code \in Nat /\ met.time \in Nat
  <2>1. CASE Stopped(conf, w)
    <3>1. met = [w EXCEPT !.code = 301, !.packed = {},
                          !.tls = IF conf.follow THEN w.tls ELSE w.wasTLS,
                          !.viaTLS = conf.follow /\ w.viaTLS]
      BY <2>1, <1>1 DEF Met
    <3>2. met.broken = w.broken /\ met.code = 301 /\ met.time = w.time
      BY <3>1, <1>1, ZenonT(30)
    <3>3. w.time \in Nat
      BY <1>1
    <3> HIDE DEF met
    <3>4. QED
      BY <3>2, <3>3
  <2>2. CASE ~Stopped(conf, w)
    BY <2>2, <1>1 DEF Met
  <2>3. QED
    BY <2>1, <2>2
<1>3. /\ \A st \in DOMAIN Resolved(met) : Resolved(met)[st] \in Nat
      /\ \A st \in DOMAIN Measured(met) : Measured(met)[st] \in Nat
  <2> HIDE DEF met
  <2> QED BY <1>2 DEF Resolved, Measured
<1>4. BodyRead(conf, w) \in BOOLEAN
  BY DEF BodyRead
<1>5. failing # {} => checks[first][1] # "success"
  <2>1. DOMAIN checks = 1 .. 5
    BY DEF Checks
  <2>2. \A i \in 1 .. 5 : checks[i][1] # "success"
    <3>1. /\ checks[1][1] = "status" /\ checks[2][1] = "compression" /\ checks[3][1] = "version"
          /\ checks[4][1] = "ssl" /\ checks[5][1] = "no ssl"
      BY DEF Checks
    <3>2. \A i \in 1 .. 5 : i = 1 \/ i = 2 \/ i = 3 \/ i = 4 \/ i = 5
      OBVIOUS
    <3> HIDE DEF checks
    <3>3. QED
      BY <3>1, <3>2
  <2>3. SUFFICES ASSUME failing # {} PROVE first \in 1 .. 5
    BY <2>2
  <2>4. failing \subseteq 1 .. 5 /\ \E i \in failing : \A j \in failing : i <= j
    <3> HIDE DEF checks
    <3> QED BY <2>1, <2>3
  <2>5. QED
    BY <2>4
<1>6. ASSUME met.broken # "" PROVE IsResult(r) /\ r.ptype = "http"
  <2>1. r = Result("http", k, FALSE, met.broken, 0, Resolved(met), NoTLS)
    BY <1>6 DEF HttpResult
  <2>2. met.broken # "success"
    BY <1>1, <1>2
  <2> HIDE DEF r, met
  <2>3. /\ r.ptype = "http" /\ r.key = k /\ r.ok \in BOOLEAN /\ r.reason = met.broken
        /\ r.code \in Nat /\ r.phase = Resolved(met)
    BY <2>1 DEF Result
  <2>4. r.reason # "success"
    BY <2>2, <2>3, Zenon
  <2>5. QED
    BY <2>3, <2>4, <1>3 DEF IsResult
<1>7. ASSUME met.broken = "", failing # {} PROVE IsResult(r) /\ r.ptype = "http"
  <2> DEFINE phase == IF first <= 3 THEN Resolved(met) ELSE Measured(met)
             tls == IF first <= 3 THEN NoTLS ELSE TLSFields(met)
  <2>1. r = Result("http", k, FALSE, checks[first][1], met.code, phase, tls)
    BY <1>7 DEF HttpResult
  <2>2. checks[first][1] # "success"
    BY <1>5, <1>7
  <2> HIDE DEF r, met, checks, failing, first, tls
  <2>3. \A st \in DOMAIN phase : phase[st] \in Nat
    BY <1>3
  <2> HIDE DEF phase
  <2>4. /\ r.ptype = "http" /\ r.key = k /\ r.ok \in BOOLEAN /\ r.reason = checks[first][1]
        /\ r.code = met.code /\ r.phase = phase
    BY <2>1 DEF Result
  <2>5. QED
    BY <2>2, <2>3, <2>4, <1>2 DEF IsResult
<1>8. ASSUME met.broken = "", failing = {} PROVE IsResult(r) /\ r.ptype = "http"
  <2>1. r = Result("http", k, BodyRead(conf, w), "", met.code, Measured(met), TLSFields(met))
    BY <1>8 DEF HttpResult
  <2> HIDE DEF r, met
  <2>2. /\ r.ptype = "http" /\ r.key = k /\ r.ok = BodyRead(conf, w) /\ r.reason = ""
        /\ r.code = met.code /\ r.phase = Measured(met)
    BY <2>1 DEF Result
  <2>3. QED
    BY <2>2, <1>2, <1>3, <1>4 DEF IsResult
<1>9. IsResult(r) /\ r.ptype = "http"
  <2> HIDE DEF r, met, failing
  <2> QED BY <1>6, <1>7, <1>8
<1>10. QED
  BY <1>9 DEF conf

\* So has what probeICMP reports.
LEMMA IcmpResultIsResult ==
    ASSUME NEW k \in Keys, NEW w \in IcmpSeen
    PROVE  IsResult(IcmpResult(k, w)) /\ IcmpResult(k, w).ptype = "icmp"
<1>1. w \in [pinged : BOOLEAN, resolved : BOOLEAN, time : Nat, loss : Nat]
  BY AggregateAssumption
<1>2. QED
  BY <1>1 DEF IcmpResult, Result, IsResult, NoPhase

\* What agg has queued is what the probes of the circumstances kept beside it
\* report, and what is published is what the last batch gives.
Faithful ==
    \A i \in DOMAIN queue :
        \/ seen[i] \in HttpSeen
           /\ \E k \in Keys : queue[i] = HttpResult(HttpConf(section), k, seen[i])
        \/ \E k \in Keys, what \in IcmpSeen : queue[i] = IcmpResult(k, what)

FromBatch ==
    \/ batch = NoBatch /\ dots = NoDots
    \/ batch.results # <<>> /\ dots = Published(batch.results)

\* Results come in and are aggregated; nothing else is queued (aggregator.go, rpc.go).
LEMMA TypeStep == TypeOK /\ [Next]_vars => TypeOK'
<1> SUFFICES ASSUME TypeOK, [Next]_vars PROVE TypeOK'
  OBVIOUS
<1>0. section \in Sections /\ queue \in Seq(Results) /\ seen \in Seq(HttpSeen \cup IcmpSeen)
  BY DEF TypeOK
<1>1. ASSUME NEW what \in HttpSeen \cup IcmpSeen, NEW r \in Results, Probed(what, r) PROVE TypeOK'
  <2>1. /\ Results' = Results /\ section' \in Sections
        /\ queue' = Append(queue, r) /\ seen' = Append(seen, what)
        /\ batch' = NoBatch /\ Len(queue) < MaxResults
    BY <1>1 DEF TypeOK, Probed, Results
  <2>2. queue' \in Seq(Results') /\ Len(queue') = Len(queue) + 1
    BY <2>1, <1>0
  <2>3. seen' \in Seq(HttpSeen \cup IcmpSeen) /\ Len(seen') = Len(seen) + 1
    BY <2>1, <1>0
  <2>4. Len(queue) \in Nat /\ MaxResults \in Nat
    BY <1>0, ResultsAssumption
  <2>5. batch'.results \in Seq(Results') /\ Len(batch'.results) = Len(batch'.seen)
    BY <2>1 DEF NoBatch
  <2>6. QED
    BY <2>1, <2>2, <2>3, <2>4, <2>5 DEF TypeOK
<1>2. ASSUME NEW k \in Keys, NEW what \in HttpSeen, ProbeHTTP(k, what) PROVE TypeOK'
  BY <1>1, <1>2 DEF ProbeHTTP, Results
<1>3. ASSUME NEW k \in Keys, NEW what \in IcmpSeen, ProbeICMP(k, what) PROVE TypeOK'
  BY <1>1, <1>3 DEF ProbeICMP, Results
<1>4. CASE Agg
  <2>1. Results' = Results
    BY <1>4 DEF Agg, Results
  <2>2. /\ queue' = <<>> /\ seen' = <<>>
        /\ batch' = [results |-> queue, seen |-> seen] /\ section' = section
    BY <1>4 DEF Agg
  <2>3. QED
    BY <2>1, <2>2, ResultsAssumption DEF TypeOK
<1>5. CASE UNCHANGED vars
  BY <1>5 DEF vars, TypeOK, Results
<1>6. QED
  BY <1>2, <1>3, <1>4, <1>5 DEF Next

\* What is queued stays what was reported: only Agg takes results away, all of
\* them, and the section in use does not change.
LEMMA FaithfulStep == TypeOK /\ Faithful /\ [Next]_vars => Faithful'
<1> SUFFICES ASSUME TypeOK, Faithful, [Next]_vars PROVE Faithful'
  OBVIOUS
<1>0. queue \in Seq(Results) /\ seen \in Seq(HttpSeen \cup IcmpSeen) /\ Len(queue) = Len(seen)
  BY DEF TypeOK
<1>1. ASSUME NEW what \in HttpSeen \cup IcmpSeen, NEW r \in Results, Probed(what, r),
             \/ what \in HttpSeen /\ \E k \in Keys : r = HttpResult(HttpConf(section), k, what)
             \/ \E k \in Keys, w \in IcmpSeen : r = IcmpResult(k, w)
      PROVE  Faithful'
  <2>1. queue' = Append(queue, r) /\ seen' = Append(seen, what) /\ section' = section
    BY <1>1 DEF Probed
  <2>2. DOMAIN queue' = DOMAIN queue \cup {Len(queue) + 1}
    BY <2>1, <1>0
  <2>3. /\ \A i \in DOMAIN queue : queue'[i] = queue[i] /\ seen'[i] = seen[i]
        /\ queue'[Len(queue) + 1] = r /\ seen'[Len(queue) + 1] = what
    BY <2>1, <1>0
  <2>4. QED
    BY <1>1, <2>1, <2>2, <2>3 DEF Faithful
<1>2. ASSUME NEW k \in Keys, NEW what \in HttpSeen, ProbeHTTP(k, what) PROVE Faithful'
  BY <1>1, <1>2 DEF ProbeHTTP, Results
<1>3. ASSUME NEW k \in Keys, NEW what \in IcmpSeen, ProbeICMP(k, what) PROVE Faithful'
  BY <1>1, <1>3 DEF ProbeICMP, Results
<1>4. CASE Agg
  BY <1>4 DEF Agg, Faithful
<1>5. CASE UNCHANGED vars
  BY <1>5 DEF vars, Faithful
<1>6. QED
  BY <1>2, <1>3, <1>4, <1>5 DEF Next

\* Only Agg sets the gauges, from the batch it leaves behind.
LEMMA FromBatchStep == TypeOK /\ FromBatch /\ [Next]_vars => FromBatch'
<1>1. ASSUME NEW k, NEW what, ProbeHTTP(k, what) PROVE FromBatch'
  BY <1>1 DEF ProbeHTTP, Probed, FromBatch
<1>2. ASSUME NEW k, NEW what, ProbeICMP(k, what) PROVE FromBatch'
  BY <1>2 DEF ProbeICMP, Probed, FromBatch
<1>3. ASSUME Agg PROVE FromBatch'
  BY <1>3 DEF Agg, FromBatch
<1>4. ASSUME FromBatch, UNCHANGED vars PROVE FromBatch'
  BY <1>4 DEF vars, FromBatch
<1>5. QED
  BY <1>1, <1>2, <1>3, <1>4 DEF Next

\* Whatever is reported and aggregated, the queue holds results of probes under
\* the section in use, as many as are kept with their circumstances, and so does
\* the last batch (aggregator.go:103-216).
THEOREM TypeCorrect == Spec => []TypeOK
<1>1. Init => TypeOK
  BY ResultsAssumption DEF Init, TypeOK, NoBatch
<1>2. QED
  BY <1>1, TypeStep, PTL DEF Spec

\* The two facts above hold in every reachable state.
LEMMA FaithfulAlways == Spec => [](Faithful /\ FromBatch)
<1>1. Init => Faithful /\ FromBatch
  BY DEF Init, Faithful, FromBatch
<1>2. QED
  BY <1>1, TypeCorrect, FaithfulStep, FromBatchStep, PTL DEF Spec

\* A target is reported good exactly if its answer is what the FILE asks for, for
\* every section a file can hold and every answer (config.go:152-192,
\* http_response.go:115-377).
THEOREM JudgedAsConfiguredAlways == Spec => []JudgedAsConfigured
<1>1. TypeOK /\ Faithful => JudgedAsConfigured
  <2> SUFFICES ASSUME TypeOK, Faithful, NEW i \in DOMAIN queue, queue[i].ptype = "http"
               PROVE  JudgedRightly(Given(section), queue[i], seen[i])
    BY DEF JudgedAsConfigured
  <2>1. "http" # "icmp"
    OBVIOUS
  <2>2. seen[i] \in HttpSeen /\ \E k \in Keys : queue[i] = HttpResult(HttpConf(section), k, seen[i])
    BY <2>1, IcmpResultIsResult DEF Faithful
  <2>3. section \in Sections
    BY DEF TypeOK
  <2>4. QED
    BY <2>2, <2>3, ProbeJudgedRightly
<1>2. QED
  BY <1>1, TypeCorrect, FaithfulAlways, PTL

\* The last batch, if there is one, holds what probes report, and the gauges are
\* those of its containers.
LEMMA BatchAlways ==
    Spec => [](FromBatch /\ (\A i \in DOMAIN batch.results : IsResult(batch.results[i])) /\ TypeOK)
<1>1. TypeOK => \A i \in DOMAIN batch.results : IsResult(batch.results[i])
  <2> SUFFICES ASSUME TypeOK, NEW i \in DOMAIN batch.results PROVE IsResult(batch.results[i])
    OBVIOUS
  <2>1. batch.results[i] \in Results /\ section \in Sections
    BY DEF TypeOK
  <2>2. QED
    BY <2>1, HttpResultIsResult, IcmpResultIsResult DEF Results
<1>2. QED
  BY <1>1, TypeCorrect, FaithfulAlways, PTL

-----------------------------------------------------------------------------
(***************************************************************************)
(* What a result does to a container, and what a queue does to all of them *)
(***************************************************************************)
\* A record with the fields of a container, and what a result does to each.
IsContainer(c) ==
    \E reason, cnt, failed, phase, codes, tls :
        c = [reason |-> reason, cnt |-> cnt, failed |-> failed, phase |-> phase, codes |-> codes,
             tls |-> tls]

\* What a success does to a container.
LEMMA AddedGood ==
    ASSUME NEW c, IsContainer(c), NEW r, r.ok
    PROVE  /\ IsContainer(Added(c, r))
           /\ Added(c, r).codes = Append(c.codes, r.code)
           /\ Added(c, r).cnt = c.cnt + 1
           /\ Added(c, r).failed = c.failed
           /\ Added(c, r).phase = AddPhase(c.phase, r.phase)
           /\ Added(c, r).tls # NoTLS <=> c.tls # NoTLS \/ r.tls # NoTLS
           /\ Added(c, r).reason = c.reason
<1>1. PICK reason, cnt, failed, phase, codes, tls :
        c = [reason |-> reason, cnt |-> cnt, failed |-> failed, phase |-> phase, codes |-> codes,
             tls |-> tls]
  BY DEF IsContainer
<1> DEFINE coded == [c EXCEPT !.codes = Append(@, r.code)]
           first == IF r.tls # NoTLS /\ tls = NoTLS THEN r.tls ELSE tls
<1>2. coded = [reason |-> reason, cnt |-> cnt, failed |-> failed, phase |-> phase,
               codes |-> Append(codes, r.code), tls |-> tls]
  BY <1>1, SMTT(20)
<1>3. Added(c, r) = [coded EXCEPT !.cnt = @ + 1, !.phase = AddPhase(@, r.phase),
                                  !.tls = IF r.tls # NoTLS /\ @ = NoTLS THEN r.tls ELSE @]
  BY DEF Added
<1> HIDE DEF coded
<1>4. Added(c, r) = [reason |-> reason, cnt |-> cnt + 1, failed |-> failed,
          phase |-> AddPhase(phase, r.phase), codes |-> Append(codes, r.code), tls |-> first]
  BY <1>2, <1>3
<1>5. first # NoTLS <=> tls # NoTLS \/ r.tls # NoTLS
  OBVIOUS
<1> HIDE DEF first
<1>6. IsContainer(Added(c, r))
  BY <1>4 DEF IsContainer
<1>7. QED
  BY <1>1, <1>4, <1>5, <1>6

\* What a failure does to one.
LEMMA AddedBad ==
    ASSUME NEW c, IsContainer(c), NEW r, ~r.ok
    PROVE  /\ IsContainer(Added(c, r))
           /\ Added(c, r).codes = Append(c.codes, r.code)
           /\ Added(c, r).cnt = c.cnt
           /\ Added(c, r).failed = c.failed + 1
           /\ Added(c, r).phase = c.phase
           /\ Added(c, r).tls = c.tls
           /\ Added(c, r).reason =
                IF r.ptype = "http" /\ r.reason # "" /\ c.reason = "success"
                THEN r.reason ELSE c.reason
<1>1. PICK reason, cnt, failed, phase, codes, tls :
        c = [reason |-> reason, cnt |-> cnt, failed |-> failed, phase |-> phase, codes |-> codes,
             tls |-> tls]
  BY DEF IsContainer
<1> DEFINE coded == [c EXCEPT !.codes = Append(@, r.code)]
           why == IF r.ptype = "http" /\ r.reason # "" /\ reason = "success"
                  THEN r.reason ELSE reason
<1>2. coded = [reason |-> reason, cnt |-> cnt, failed |-> failed, phase |-> phase,
               codes |-> Append(codes, r.code), tls |-> tls]
  BY <1>1, SMTT(20)
<1>3. Added(c, r) = [coded EXCEPT !.failed = @ + 1,
               !.reason = IF r.ptype = "http" /\ r.reason # "" /\ @ = "success" THEN r.reason ELSE @]
  BY DEF Added
<1> HIDE DEF coded
<1>4. Added(c, r) = [reason |-> why, cnt |-> cnt, failed |-> failed + 1, phase |-> phase,
          codes |-> Append(codes, r.code), tls |-> tls]
  BY <1>2, <1>3
<1>5. why = IF r.ptype = "http" /\ r.reason # "" /\ c.reason = "success"
            THEN r.reason ELSE c.reason
  BY <1>1
<1> HIDE DEF why
<1>6. IsContainer(Added(c, r))
  BY <1>4 DEF IsContainer
<1>7. /\ Added(c, r).codes = Append(codes, r.code) /\ Added(c, r).cnt = cnt
      /\ Added(c, r).failed = failed + 1 /\ Added(c, r).phase = phase
      /\ Added(c, r).tls = tls /\ Added(c, r).reason = why
  BY <1>4
<1>8. c.codes = codes /\ c.cnt = cnt /\ c.failed = failed /\ c.phase = phase /\ c.tls = tls
  BY <1>1
<1>9. QED
  BY <1>5, <1>6, <1>7, <1>8, Zenon

\* Where a result is counted.
Place(r) == <<r.ptype, r.key>>

\* A result touches the container of its place, and no other.
LEMMA IntoAt ==
    ASSUME NEW cs, NEW r
    PROVE  /\ DOMAIN Into(cs, r) = DOMAIN cs \cup {Place(r)}
           /\ At(Into(cs, r), Place(r)) = Added(At(cs, Place(r)), r)
           /\ \A x : x # Place(r) => At(Into(cs, r), x) = At(cs, x)
  BY DEF Into, At, Place

\* The first i results of one kind and key x, those of them that are good, those
\* that are not, and those that give the container of x its reason.
GoodTill(q, x, i) == {j \in 1 .. i : Place(q[j]) = x /\ q[j].ok}

BadTill(q, x, i) == {j \in 1 .. i : Place(q[j]) = x /\ ~q[j].ok}

WhyTill(q, x, i) == {j \in BadTill(q, x, i) : q[j].ptype = "http" /\ q[j].reason # ""}

\* What a container counts after i results, and the reason it keeps.
CountedTill(q, cs, i) ==
    /\ DOMAIN cs = {Place(q[j]) : j \in 1 .. i}
    /\ \A x :
        /\ IsContainer(At(cs, x))
        /\ At(cs, x).cnt = Cardinality(GoodTill(q, x, i))
        /\ At(cs, x).failed = Cardinality(BadTill(q, x, i))
        /\ WhyTill(q, x, i) = {} => At(cs, x).reason = "success"
        /\ WhyTill(q, x, i) # {} =>
            \E m \in WhyTill(q, x, i) :
                (\A j \in WhyTill(q, x, i) : m <= j) /\ At(cs, x).reason = q[m].reason

\* One more position: it is among the first i + 1 and not among the first i.
LEMMA OneMoreCounted ==
    ASSUME NEW i \in Nat, NEW S, NEW T, S \subseteq 1 .. i, T = S \cup {i + 1}
    PROVE  Cardinality(T) = Cardinality(S) + 1
<1>1. IsFiniteSet(S) /\ i + 1 \notin S
  <2>1. IsFiniteSet(1 .. i) /\ i + 1 \notin 1 .. i
    BY FS_Interval, 1 \in Int, i \in Int
  <2>2. QED
    BY <2>1, FS_Subset
<1>2. QED
  BY <1>1, FS_AddElement

\* The counts after i + 1 results follow from those after i.
LEMMA OneMoreInto ==
    ASSUME NEW q, NEW i \in Nat, \A j \in 1 .. i + 1 : IsResult(q[j]), NEW cs, CountedTill(q, cs, i)
    PROVE  CountedTill(q, Into(cs, q[i + 1]), i + 1)
<1> DEFINE r == q[i + 1]
           ds == Into(cs, r)
<1>1. r = q[i + 1] /\ IsResult(r) /\ r.ok \in BOOLEAN
  BY DEF IsResult
<1>2. DOMAIN ds = {Place(q[j]) : j \in 1 .. i + 1}
  <2>1. DOMAIN ds = {Place(q[j]) : j \in 1 .. i} \cup {Place(r)}
    BY IntoAt DEF CountedTill
  <2>2. 1 .. i + 1 = (1 .. i) \cup {i + 1}
    OBVIOUS
  <2>3. QED
    BY <2>1, <2>2
<1>3. ASSUME NEW x
      PROVE  /\ IsContainer(At(ds, x))
             /\ At(ds, x).cnt = Cardinality(GoodTill(q, x, i + 1))
             /\ At(ds, x).failed = Cardinality(BadTill(q, x, i + 1))
             /\ WhyTill(q, x, i + 1) = {} => At(ds, x).reason = "success"
             /\ WhyTill(q, x, i + 1) # {} =>
                    \E m \in WhyTill(q, x, i + 1) :
                        /\ \A j \in WhyTill(q, x, i + 1) : m <= j
                        /\ At(ds, x).reason = q[m].reason
  <2> DEFINE c == At(cs, x)
             d == At(ds, x)
             good == GoodTill(q, x, i)
             bad == BadTill(q, x, i)
             why == WhyTill(q, x, i)
             new == WhyTill(q, x, i + 1)
  <2>1. /\ IsContainer(c) /\ c.cnt = Cardinality(good) /\ c.failed = Cardinality(bad)
        /\ why = {} => c.reason = "success"
        /\ why # {} => \E m \in why : (\A j \in why : m <= j) /\ c.reason = q[m].reason
    BY DEF CountedTill
  <2>2. good \subseteq 1 .. i /\ bad \subseteq 1 .. i /\ why \subseteq 1 .. i
    BY DEF GoodTill, BadTill, WhyTill
  <2>3. /\ Place(r) # x => d = c
        /\ Place(r) = x => d = Added(c, r)
    BY IntoAt
  <2> HIDE DEF r, c, d, ds
  <2>4. 1 .. i + 1 = (1 .. i) \cup {i + 1}
    OBVIOUS
  <2>5. CASE Place(r) # x
    <3>1. /\ GoodTill(q, x, i + 1) = good /\ BadTill(q, x, i + 1) = bad /\ new = why
      <4>1. Place(q[i + 1]) # x
        BY <2>5 DEF r
      <4>2. QED
        BY <4>1, <2>4 DEF GoodTill, BadTill, WhyTill, r
    <3>2. QED
      BY <2>5, <2>1, <2>3, <3>1 DEF d
  <2>6. CASE Place(r) = x /\ r.ok
    <3>1. GoodTill(q, x, i + 1) = good \cup {i + 1} /\ BadTill(q, x, i + 1) = bad /\ new = why
      <4>1. Place(q[i + 1]) = x /\ q[i + 1].ok
        BY <2>6 DEF r
      <4>2. QED
        BY <4>1, <2>4 DEF GoodTill, BadTill, WhyTill, r
    <3>2. Cardinality(GoodTill(q, x, i + 1)) = Cardinality(good) + 1
      BY <3>1, <2>2, OneMoreCounted
    <3>3. IsContainer(d) /\ d.cnt = c.cnt + 1 /\ d.failed = c.failed /\ d.reason = c.reason
      BY <2>6, <2>1, <2>3, AddedGood
    <3> HIDE DEF good, bad, why, new
    <3>4. QED
      BY <2>1, <3>1, <3>2, <3>3 DEF d, new
  <2>7. CASE Place(r) = x /\ ~r.ok
    <3>1. /\ GoodTill(q, x, i + 1) = good /\ BadTill(q, x, i + 1) = bad \cup {i + 1}
          /\ new = why \cup IF r.ptype = "http" /\ r.reason # "" THEN {i + 1} ELSE {}
      <4>1. Place(q[i + 1]) = x /\ ~q[i + 1].ok
        BY <2>7 DEF r
      <4>2. QED
        BY <4>1, <2>4 DEF GoodTill, BadTill, WhyTill, r
    <3>2. Cardinality(BadTill(q, x, i + 1)) = Cardinality(bad) + 1
      BY <3>1, <2>2, OneMoreCounted
    <3>3. /\ IsContainer(d) /\ d.cnt = c.cnt /\ d.failed = c.failed + 1
          /\ d.reason = (IF r.ptype = "http" /\ r.reason # "" /\ c.reason = "success"
                         THEN r.reason ELSE c.reason)
      <4>1. d = Added(c, r) /\ IsContainer(c) /\ ~r.ok
        BY <2>7, <2>1, <2>3
      <4>2. QED
        BY <4>1, AddedBad, Zenon
    <3>4. /\ new = {} => d.reason = "success"
          /\ new # {} => \E m \in new : (\A j \in new : m <= j) /\ d.reason = q[m].reason
      <4>1. CASE ~(r.ptype = "http" /\ r.reason # "")
        <5>1. new = why
          BY <4>1, <3>1
        <5>2. d.reason = c.reason
          BY <4>1, <3>3, Zenon
        <5> HIDE DEF why, new
        <5>3. QED
          BY <5>1, <5>2, <2>1, Zenon
      <4>2. CASE r.ptype = "http" /\ r.reason # "" /\ why = {}
        <5>1. new = {i + 1}
          BY <4>2, <3>1
        <5>2. d.reason = r.reason
          BY <4>2, <3>3, <2>1, Zenon
        <5> HIDE DEF why, new
        <5>3. QED
          BY <5>1, <5>2, <1>1
      <4>3. CASE r.ptype = "http" /\ r.reason # "" /\ why # {}
        <5>1. new = why \cup {i + 1}
          BY <4>3, <3>1
        <5>2. PICK m \in why : (\A j \in why : m <= j) /\ c.reason = q[m].reason
          BY <4>3, <2>1
        <5>3. m \in 1 .. i
          BY <2>2
        <5>4. q[m].reason # "success"
          BY <5>3 DEF IsResult
        <5>5. d.reason = q[m].reason
          BY <5>2, <5>4, <3>3, Zenon
        <5> HIDE DEF why, new
        <5>6. \A j \in new : m <= j
          BY <5>1, <5>2, <5>3
        <5>7. QED
          BY <5>1, <5>5, <5>6
      <4>4. QED
        BY <4>1, <4>2, <4>3, Zenon
    <3> HIDE DEF good, bad, why, new
    <3>5. QED
      BY <2>1, <3>1, <3>2, <3>3, <3>4 DEF d, new
  <2>8. QED
    <3>1. (Place(r) # x) \/ (Place(r) = x /\ r.ok) \/ (Place(r) = x /\ ~r.ok)
      OBVIOUS
    <3>2. QED
      BY <2>5, <2>6, <2>7, <3>1, Zenon
<1>4. QED
  BY <1>2, <1>3 DEF CountedTill

\* What a round's containers count is what the round holds.
LEMMA CountedSoFar ==
    ASSUME NEW S, NEW q \in Seq(S), \A i \in DOMAIN q : IsResult(q[i]), NEW h, IsHistory(q, h)
    PROVE  \A i \in 0 .. Len(q) : CountedTill(q, h[i], i)
<1> DEFINE T == {i \in 0 .. Len(q) : CountedTill(q, h[i], i)}
<1>0. Len(q) \in Nat /\ DOMAIN q = 1 .. Len(q)
  OBVIOUS
<1>1. 0 \in T
  <2>1. \A x : GoodTill(q, x, 0) = {} /\ BadTill(q, x, 0) = {} /\ WhyTill(q, x, 0) = {}
    BY DEF GoodTill, BadTill, WhyTill
  <2>2. \A x : At(h[0], x) = EmptyContainer
    BY DEF IsHistory, NoContainers, At
  <2>3. IsContainer(EmptyContainer)
    BY DEF IsContainer, EmptyContainer
  <2>4. DOMAIN h[0] = {Place(q[j]) : j \in 1 .. 0}
    BY DEF IsHistory, NoContainers
  <2>5. EmptyContainer.cnt = 0 /\ EmptyContainer.failed = 0 /\ EmptyContainer.reason = "success"
    BY DEF EmptyContainer
  <2>6. Cardinality({}) = 0
    BY FS_EmptySet
  <2>7. CountedTill(q, h[0], 0)
    BY <2>1, <2>2, <2>3, <2>4, <2>5, <2>6 DEF CountedTill
  <2>8. QED
    BY <2>7, <1>0
<1>2. ASSUME NEW i \in 0 .. Len(q) - 1, i \in T PROVE i + 1 \in T
  <2>1. i \in Nat /\ i + 1 \in 1 .. Len(q) /\ i + 1 - 1 = i /\ 1 .. i + 1 \subseteq DOMAIN q
    BY <1>0
  <2>2. h[i + 1] = Into(h[i], q[i + 1])
    BY <2>1 DEF IsHistory
  <2>3. CountedTill(q, h[i + 1], i + 1)
    BY <2>1, <2>2, <1>2, OneMoreInto
  <2>4. QED
    BY <2>1, <2>3
<1>3. \A i \in 0 .. Len(q) : i \in T
  <2> HIDE DEF T
  <2> QED BY <1>0, <1>1, <1>2, PrefixInduction
<1>4. QED
  BY <1>3

-----------------------------------------------------------------------------
(***************************************************************************)
(* The series of a container                                               *)
(***************************************************************************)
\* The series of a container: by their first two labels they are its own.
HttpSeries == {"cert", "code", "http_failed", "http"}
IcmpSeries == {"icmp_failed", "loss", "stddev", "icmp", "icmp_total"}

\* The series of a stage.
HttpStageSeries(k, st) == <<"http", k, st>>
IcmpStageSeries(k, st) == IF st \in {"loss", "stddev"} THEN <<st, k>> ELSE <<"icmp", k, st>>

\* The series dotHTTP sets of a container (aggregator.go:227-288).
LEMMA HttpSeriesOf ==
    ASSUME NEW k, NEW c
    PROVE  /\ \A s \in DOMAIN HttpDots(k, c) : s[1] \in HttpSeries /\ s[2] = k
           /\ \A s \in DOMAIN HttpDots(k, c) :
                s[1] = "http_failed" => s = <<"http_failed", k, c.reason>>
           /\ \A s \in DOMAIN HttpDots(k, c) :
                s[1] = "http" => \E st \in DOMAIN c.phase : s = HttpStageSeries(k, st)
           /\ <<"http_failed", k, c.reason>> \in DOMAIN HttpDots(k, c)
           /\ HttpDots(k, c)[<<"http_failed", k, c.reason>>] = <<c.failed, 1>>
<1> DEFINE dotted == HttpDots(k, c)
           stages == DOMAIN c.phase
           cert == IF c.tls # NoTLS /\ c.tls.expiry # 0 THEN {<<"cert", k, c.tls.version>>} ELSE {}
           total == <<SumSeq(c.codes) \div Len(c.codes), 1>>
           series == {<<"code", k>>, <<"http_failed", k, c.reason>>}
                         \cup {<<"http", k, st>> : st \in stages} \cup cert
<1>1. dotted = [s \in series |->
        CASE s[1] = "cert" -> <<c.tls.expiry, 1>>
          [] s[1] = "code" -> total
          [] s[1] = "http_failed" -> <<c.failed, 1>>
          [] s[1] = "http" -> <<c.phase[s[3]], c.cnt>>]
  BY DEF HttpDots
<1>2. \A s \in cert : s[1] = "cert" /\ s[2] = k
  OBVIOUS
<1> HIDE DEF dotted, cert, total
<1>3. ASSUME NEW s \in series
      PROVE  /\ s[1] \in HttpSeries /\ s[2] = k
             /\ s[1] = "http_failed" => s = <<"http_failed", k, c.reason>>
             /\ s[1] = "http" => \E st \in stages : s = HttpStageSeries(k, st)
  BY <1>2 DEF HttpSeries, HttpStageSeries
<1>4. /\ <<"http_failed", k, c.reason>> \in series
      /\ dotted[<<"http_failed", k, c.reason>>] = <<c.failed, 1>>
  BY <1>1
<1>5. DOMAIN dotted = series
  BY <1>1
<1> HIDE DEF series
<1>6. QED
  BY <1>3, <1>4, <1>5 DEF dotted

\* Among them is the average of every stage its successes measured.
LEMMA HttpStagesOf ==
    ASSUME NEW k, NEW c, NEW st \in DOMAIN c.phase
    PROVE  /\ HttpStageSeries(k, st) \in DOMAIN HttpDots(k, c)
           /\ HttpDots(k, c)[HttpStageSeries(k, st)] = <<c.phase[st], c.cnt>>
<1> DEFINE dotted == HttpDots(k, c)
           stages == DOMAIN c.phase
           cert == IF c.tls # NoTLS /\ c.tls.expiry # 0 THEN {<<"cert", k, c.tls.version>>} ELSE {}
           total == <<SumSeq(c.codes) \div Len(c.codes), 1>>
           series == {<<"code", k>>, <<"http_failed", k, c.reason>>}
                         \cup {<<"http", k, e>> : e \in stages} \cup cert
<1>1. dotted = [s \in series |->
        CASE s[1] = "cert" -> <<c.tls.expiry, 1>>
          [] s[1] = "code" -> total
          [] s[1] = "http_failed" -> <<c.failed, 1>>
          [] s[1] = "http" -> <<c.phase[s[3]], c.cnt>>]
  BY DEF HttpDots
<1>2. HttpStageSeries(k, st) \in series
  BY DEF HttpStageSeries
<1>3. HttpStageSeries(k, st)[1] = "http" /\ HttpStageSeries(k, st)[3] = st
  BY DEF HttpStageSeries
<1> HIDE DEF dotted, cert, total, series
<1>4. DOMAIN dotted = series /\ dotted[HttpStageSeries(k, st)] = <<c.phase[st], c.cnt>>
  BY <1>1, <1>2, <1>3
<1>5. QED
  BY <1>2, <1>4 DEF dotted

\* The series dotICMP sets of a container (aggregator.go:290-334).
LEMMA IcmpSeriesOf ==
    ASSUME NEW k, NEW c
    PROVE  /\ \A s \in DOMAIN IcmpDots(k, c) : s[1] \in IcmpSeries /\ s[2] = k
           /\ \A s \in DOMAIN IcmpDots(k, c) : s[1] \in {"icmp", "loss", "stddev"} =>
                \E st \in DOMAIN c.phase : s = IcmpStageSeries(k, st)
           /\ <<"icmp_failed", k>> \in DOMAIN IcmpDots(k, c)
           /\ IcmpDots(k, c)[<<"icmp_failed", k>>] = <<c.failed, 1>>
           /\ \A st \in DOMAIN c.phase :
                /\ IcmpStageSeries(k, st) \in DOMAIN IcmpDots(k, c)
                /\ IcmpDots(k, c)[IcmpStageSeries(k, st)] = <<c.phase[st], c.cnt>>
<1> DEFINE dotted == IcmpDots(k, c)
           lone == DOMAIN c.phase \cap {"loss", "stddev"}
           stages == DOMAIN c.phase \ lone
           inOrder == SetToSeq(stages)
           total == <<SumSeq([i \in DOMAIN inOrder |-> c.phase[inOrder[i]]]), 1>>
           all == {<<"icmp_failed", k>>, <<"icmp_total", k>>}
                      \cup {<<st, k>> : st \in lone} \cup {<<"icmp", k, st>> : st \in stages}
<1>1. dotted = [s \in all |->
            CASE s[1] = "icmp_failed" -> <<c.failed, 1>>
              [] s[1] = "icmp_total" -> total
              [] s[1] = "icmp" -> <<c.phase[s[3]], c.cnt>>
              [] s[1] \in lone -> <<c.phase[s[1]], c.cnt>>]
  BY DEF IcmpDots
<1> HIDE DEF dotted, total
<1>2. ASSUME NEW s \in all
      PROVE  /\ s[1] \in IcmpSeries /\ s[2] = k
             /\ s[1] \in {"icmp", "loss", "stddev"} =>
                    \E st \in DOMAIN c.phase : s = IcmpStageSeries(k, st)
  <2>1. CASE s \in {<<"icmp_failed", k>>, <<"icmp_total", k>>}
    BY <2>1 DEF IcmpSeries
  <2>2. CASE s \in {<<st, k>> : st \in lone}
    <3>1. PICK st \in lone : s = <<st, k>>
      BY <2>2
    <3>2. s = IcmpStageSeries(k, st) /\ st \in DOMAIN c.phase
      BY <3>1 DEF IcmpStageSeries
    <3>3. s[1] \in IcmpSeries /\ s[2] = k
      BY <3>1 DEF IcmpSeries
    <3>4. QED
      BY <3>2, <3>3
  <2>3. CASE s \in {<<"icmp", k, st>> : st \in stages}
    <3>1. PICK st \in stages : s = <<"icmp", k, st>>
      BY <2>3
    <3>2. s = IcmpStageSeries(k, st) /\ st \in DOMAIN c.phase
      BY <3>1 DEF IcmpStageSeries
    <3>3. s[1] \in IcmpSeries /\ s[2] = k
      BY <3>1 DEF IcmpSeries
    <3>4. QED
      BY <3>2, <3>3
  <2>4. QED
    BY <2>1, <2>2, <2>3
<1>3. /\ <<"icmp_failed", k>> \in all
      /\ dotted[<<"icmp_failed", k>>] = <<c.failed, 1>>
  BY <1>1
<1>4. ASSUME NEW st \in stages
      PROVE  <<"icmp", k, st>> \in all /\ dotted[<<"icmp", k, st>>] = <<c.phase[st], c.cnt>>
  <2>1. <<"icmp", k, st>> \in all
    OBVIOUS
  <2>2. <<"icmp", k, st>>[1] = "icmp" /\ <<"icmp", k, st>>[3] = st
    OBVIOUS
  <2> HIDE DEF all
  <2>3. QED
    BY <2>1, <2>2, <1>1
<1>5. ASSUME NEW st \in lone
      PROVE  <<st, k>> \in all /\ dotted[<<st, k>>] = <<c.phase[st], c.cnt>>
  <2>1. <<st, k>> \in all
    OBVIOUS
  <2>2. <<st, k>>[1] = st /\ (st = "loss" \/ st = "stddev")
    OBVIOUS
  <2> HIDE DEF all, stages
  <2>3. dotted[<<st, k>>] = <<c.phase[st], c.cnt>>
    BY <2>1, <2>2, <1>1
  <2>4. QED
    BY <2>1, <2>3
<1>6. DOMAIN dotted = all
  BY <1>1
<1>7. \A st \in DOMAIN c.phase : st \in stages => st \notin {"loss", "stddev"}
  OBVIOUS
<1>8. \A st \in DOMAIN c.phase : st \in {"loss", "stddev"} <=> st \in lone
  OBVIOUS
<1>9. \A st \in DOMAIN c.phase : st \in stages \/ st \in lone
  OBVIOUS
<1> HIDE DEF all, stages, lone
<1>10. QED
  BY <1>2, <1>3, <1>4, <1>5, <1>6, <1>7, <1>8, <1>9 DEF dotted, IcmpStageSeries

\* What is published of a container is found under its series.
LEMMA PublishedOf ==
    ASSUME NEW q, DOMAIN Containers(q) \subseteq {"http", "icmp"} \X Keys
    PROVE  /\ \A s \in DOMAIN Published(q) :
                \E x \in DOMAIN Containers(q) : s \in DOMAIN ContainerDots(x, Containers(q)[x])
           /\ \A x \in DOMAIN Containers(q) : \A s \in DOMAIN ContainerDots(x, Containers(q)[x]) :
                s \in DOMAIN Published(q)
                /\ Published(q)[s] = ContainerDots(x, Containers(q)[x])[s]
<1> DEFINE cs == Containers(q)
           of(x) == ContainerDots(x, cs[x])
<1>1. Published(q) =
        [s \in UNION {DOMAIN of(x) : x \in DOMAIN cs} |->
            of(CHOOSE x \in DOMAIN cs : s \in DOMAIN of(x))[s]]
  BY DEF Published
<1>2. ASSUME NEW x \in DOMAIN cs, NEW y \in DOMAIN cs, NEW s \in DOMAIN of(x), s \in DOMAIN of(y)
      PROVE  x = y
  <2>1. HttpSeries \cap IcmpSeries = {}
    BY DEF HttpSeries, IcmpSeries
  <2>2. \A z \in DOMAIN cs : s \in DOMAIN of(z) =>
            s[2] = z[2] /\ s[1] \in (IF z[1] = "http" THEN HttpSeries ELSE IcmpSeries)
    <3> SUFFICES ASSUME NEW z \in DOMAIN cs, s \in DOMAIN of(z)
                 PROVE  s[2] = z[2] /\ s[1] \in (IF z[1] = "http" THEN HttpSeries ELSE IcmpSeries)
      OBVIOUS
    <3> HIDE DEF cs
    <3>1. CASE z[1] = "http"
      <4>1. s \in DOMAIN HttpDots(z[2], cs[z])
        BY <3>1 DEF ContainerDots
      <4>2. s[1] \in HttpSeries /\ s[2] = z[2]
        BY <4>1, HttpSeriesOf, Zenon
      <4>3. QED
        BY <4>2, <3>1
    <3>2. CASE z[1] # "http"
      <4>1. s \in DOMAIN IcmpDots(z[2], cs[z])
        BY <3>2 DEF ContainerDots
      <4>2. \A e \in DOMAIN IcmpDots(z[2], cs[z]) : e[1] \in IcmpSeries /\ e[2] = z[2]
        BY IcmpSeriesOf
      <4>3. QED
        BY <4>1, <4>2, <3>2
    <3>3. QED
      BY <3>1, <3>2
  <2>3. x[2] = y[2] /\ (x[1] = "http" <=> y[1] = "http")
    BY <2>1, <2>2, <1>2
  <2>4. x \in {"http", "icmp"} \X Keys /\ y \in {"http", "icmp"} \X Keys
    OBVIOUS
  <2>5. QED
    BY <2>3, <2>4
<1> HIDE DEF cs, of
<1>3. QED
  BY <1>1, <1>2 DEF of, cs

\* The series of a probe type and key are those of its container.
LEMMA SeriesOfPlace ==
    ASSUME NEW q, DOMAIN Containers(q) \subseteq {"http", "icmp"} \X Keys, NEW k
    PROVE  /\ \A s \in DOMAIN Published(q) : s[1] \in HttpSeries /\ s[2] = k =>
                /\ <<"http", k>> \in DOMAIN Containers(q)
                /\ s \in DOMAIN HttpDots(k, Containers(q)[<<"http", k>>])
           /\ \A s \in DOMAIN Published(q) : s[1] \in IcmpSeries /\ s[2] = k =>
                /\ <<"icmp", k>> \in DOMAIN Containers(q)
                /\ s \in DOMAIN IcmpDots(k, Containers(q)[<<"icmp", k>>])
<1> DEFINE cs == Containers(q)
<1>1. ASSUME NEW s \in DOMAIN Published(q), s[2] = k
      PROVE  /\ s[1] \in HttpSeries =>
                <<"http", k>> \in DOMAIN cs /\ s \in DOMAIN HttpDots(k, cs[<<"http", k>>])
             /\ s[1] \in IcmpSeries =>
                <<"icmp", k>> \in DOMAIN cs /\ s \in DOMAIN IcmpDots(k, cs[<<"icmp", k>>])
  <2>1. PICK x \in DOMAIN cs : s \in DOMAIN ContainerDots(x, cs[x])
    BY PublishedOf
  <2>2. x \in {"http", "icmp"} \X Keys /\ x = <<x[1], x[2]>>
    OBVIOUS
  <2>3. HttpSeries \cap IcmpSeries = {}
    BY DEF HttpSeries, IcmpSeries
  <2> HIDE DEF cs
  <2>4. CASE x[1] = "http"
    <3>1. s \in DOMAIN HttpDots(x[2], cs[x])
      BY <2>1, <2>4 DEF ContainerDots
    <3>2. \A e \in DOMAIN HttpDots(x[2], cs[x]) : e[1] \in HttpSeries /\ e[2] = x[2]
      BY HttpSeriesOf
    <3>3. x[2] = k /\ s[1] \in HttpSeries /\ s[1] \notin IcmpSeries
      BY <3>1, <3>2, <2>3, <1>1
    <3>4. x = <<"http", k>>
      BY <2>2, <2>4, <3>3
    <3>5. QED
      BY <3>1, <3>3, <3>4
  <2>5. CASE x[1] = "icmp"
    <3>1. s \in DOMAIN IcmpDots(x[2], cs[x])
      BY <2>1, <2>5 DEF ContainerDots
    <3>2. \A e \in DOMAIN IcmpDots(x[2], cs[x]) : e[1] \in IcmpSeries /\ e[2] = x[2]
      BY IcmpSeriesOf
    <3>3. x[2] = k /\ s[1] \in IcmpSeries /\ s[1] \notin HttpSeries
      BY <3>1, <3>2, <2>3, <1>1
    <3>4. x = <<"icmp", k>>
      BY <2>2, <2>5, <3>3
    <3>5. QED
      BY <3>1, <3>3, <3>4
  <2>6. QED
    BY <2>2, <2>4, <2>5
<1> HIDE DEF cs
<1>2. QED
  BY <1>1 DEF cs

\* The series of a container for http are published, with their values.
LEMMA HttpPublished ==
    ASSUME NEW q, DOMAIN Containers(q) \subseteq {"http", "icmp"} \X Keys,
           NEW k, <<"http", k>> \in DOMAIN Containers(q)
    PROVE  \A s \in DOMAIN HttpDots(k, Containers(q)[<<"http", k>>]) :
                s \in DOMAIN Published(q)
                /\ Published(q)[s] = HttpDots(k, Containers(q)[<<"http", k>>])[s]
<1> DEFINE x == <<"http", k>>
           c == Containers(q)[x]
<1>1. x[1] = "http" /\ x[2] = k /\ x \in DOMAIN Containers(q)
  OBVIOUS
<1> HIDE DEF x
<1>2. ContainerDots(x, c) = HttpDots(k, c)
  BY <1>1 DEF ContainerDots
<1>3. \A s \in DOMAIN ContainerDots(x, c) :
        s \in DOMAIN Published(q) /\ Published(q)[s] = ContainerDots(x, c)[s]
  BY <1>1, PublishedOf
<1> HIDE DEF c
<1>4. QED
  BY <1>2, <1>3 DEF c, x

\* The series of a container for icmp are published, with their values.
LEMMA IcmpPublished ==
    ASSUME NEW q, DOMAIN Containers(q) \subseteq {"http", "icmp"} \X Keys,
           NEW k, <<"icmp", k>> \in DOMAIN Containers(q)
    PROVE  \A s \in DOMAIN IcmpDots(k, Containers(q)[<<"icmp", k>>]) :
                s \in DOMAIN Published(q)
                /\ Published(q)[s] = IcmpDots(k, Containers(q)[<<"icmp", k>>])[s]
<1> DEFINE x == <<"icmp", k>>
           c == Containers(q)[x]
<1>1. x[1] = "icmp" /\ x[1] # "http" /\ x[2] = k /\ x \in DOMAIN Containers(q)
  OBVIOUS
<1> HIDE DEF x
<1>2. ContainerDots(x, c) = IcmpDots(k, c)
  BY <1>1 DEF ContainerDots
<1>3. \A s \in DOMAIN ContainerDots(x, c) :
        s \in DOMAIN Published(q) /\ Published(q)[s] = ContainerDots(x, c)[s]
  BY <1>1, PublishedOf
<1> HIDE DEF c
<1>4. QED
  BY <1>2, <1>3 DEF c, x

\* The containers of a round whose results are what probes report.
WellFormed(q) == \E S : q \in Seq(S) /\ \A i \in DOMAIN q : IsResult(q[i])

\* At the end of agg's loop the containers count what the queue holds.
LEMMA CountedInAll ==
    ASSUME NEW q, WellFormed(q)
    PROVE  /\ CountedTill(q, Containers(q), Len(q))
           /\ DOMAIN Containers(q) \subseteq {"http", "icmp"} \X Keys
<1>1. PICK S : q \in Seq(S) /\ \A i \in DOMAIN q : IsResult(q[i])
  BY DEF WellFormed
<1>2. PICK h : IsHistory(q, h) /\ Containers(q) = h[Len(q)]
  BY <1>1, ContainersHistory
<1>3. CountedTill(q, h[Len(q)], Len(q))
  <2>1. Len(q) \in 0 .. Len(q)
    BY <1>1
  <2>2. QED
    BY <1>1, <1>2, <2>1, CountedSoFar
<1>4. \A j \in 1 .. Len(q) : Place(q[j]) \in {"http", "icmp"} \X Keys
  BY <1>1 DEF IsResult, Place
<1>5. QED
  BY <1>2, <1>3, <1>4 DEF CountedTill

\* The properties speak of the last batch's results by the same sets.
LEMMA OfBatch ==
    ASSUME NEW S, batch.results \in Seq(S),
           \A i \in DOMAIN batch.results : IsResult(batch.results[i]),
           NEW ptype, NEW k
    PROVE  LET q == batch.results
               x == <<ptype, k>>
           IN  /\ Good(ptype, k) = GoodTill(q, x, Len(q))
               /\ Of(ptype, k) \ Good(ptype, k) = BadTill(q, x, Len(q))
               /\ Of(ptype, k) = {} <=> x \notin {Place(q[j]) : j \in 1 .. Len(q)}
<1> DEFINE q == batch.results
           x == <<ptype, k>>
<1>1. DOMAIN q = 1 .. Len(q)
  OBVIOUS
<1>2. \A i \in 1 .. Len(q) : Place(q[i]) = x <=> q[i].ptype = ptype /\ q[i].key = k
  BY DEF Place
<1>3. \A i \in 1 .. Len(q) : q[i].ok \in BOOLEAN
  BY <1>1 DEF IsResult
<1>4. Of(ptype, k) = {i \in 1 .. Len(q) : Place(q[i]) = x}
  BY <1>1, <1>2 DEF Of
<1> HIDE DEF q, x
<1>5. Good(ptype, k) = GoodTill(q, x, Len(q))
  BY <1>4 DEF Good, GoodTill, q
<1>6. Of(ptype, k) \ Good(ptype, k) = BadTill(q, x, Len(q))
  BY <1>4 DEF Good, BadTill, q
<1>7. Of(ptype, k) = {} <=> x \notin {Place(q[j]) : j \in 1 .. Len(q)}
  BY <1>4
<1>8. QED
  BY <1>5, <1>6, <1>7 DEF q, x

-----------------------------------------------------------------------------
(***************************************************************************)
(* FailuresCounted                                                         *)
(***************************************************************************)
\* Min, of the first failure that has a reason.
LEMMA FirstIsMin ==
    ASSUME NEW S \in SUBSET Nat, NEW m \in S, \A k \in S : m <= k
    PROVE  Min(S) = m
<1>1. \A x \in S : (\A y \in S : x <= y) => x = m
  OBVIOUS
<1>2. QED
  BY <1>1 DEF Min

\* The failed series of a pair and target, and its reason (aggregator.go:204-214).
LEMMA FailuresOfHttp ==
    ASSUME TypeOK, FromBatch, \A i \in DOMAIN batch.results : IsResult(batch.results[i]), NEW k
    PROVE  LET bad == Of("http", k) \ Good("http", k)
               why == {i \in bad : batch.results[i].reason # ""}
               http == {s \in DOMAIN dots : s[1] = "http_failed" /\ s[2] = k}
           IN  /\ {dots[s] : s \in http}
                    = IF Of("http", k) = {} THEN {} ELSE {<<Cardinality(bad), 1>>}
               /\ \A s \in http :
                    s[3] = IF why = {} THEN "success" ELSE batch.results[Min(why)].reason
<1> DEFINE q == batch.results
           x == <<"http", k>>
           cs == Containers(q)
           c == cs[x]
           bad == Of("http", k) \ Good("http", k)
           why == {i \in bad : batch.results[i].reason # ""}
           http == {s \in DOMAIN dots : s[1] = "http_failed" /\ s[2] = k}
           the == <<"http_failed", k, c.reason>>
<1>1. CASE batch = NoBatch /\ dots = NoDots
  <2>1. Of("http", k) = {} /\ DOMAIN dots = {}
    BY <1>1 DEF Of, NoBatch, NoDots
  <2>2. QED
    BY <2>1
<1>2. CASE batch.results # <<>> /\ dots = Published(batch.results)
  <2>1. WellFormed(q) /\ q \in Seq(Results)
    BY DEF TypeOK, WellFormed
  <2>2. /\ CountedTill(q, cs, Len(q))
        /\ DOMAIN cs \subseteq {"http", "icmp"} \X Keys
    BY <2>1, CountedInAll
  <2>3. /\ bad = BadTill(q, x, Len(q))
        /\ Of("http", k) = {} <=> x \notin {Place(q[j]) : j \in 1 .. Len(q)}
    BY <2>1, OfBatch
  <2>4. Of("http", k) = {} <=> x \notin DOMAIN cs
    BY <2>2, <2>3 DEF CountedTill
  <2>5. \A s \in http : x \in DOMAIN cs /\ s = the
    <3> SUFFICES ASSUME NEW s \in http PROVE x \in DOMAIN cs /\ s = the
      OBVIOUS
    <3>1. s[1] = "http_failed" /\ s[1] \in HttpSeries /\ s[2] = k /\ s \in DOMAIN Published(q)
      BY <1>2 DEF HttpSeries
    <3>2. x \in DOMAIN cs /\ s \in DOMAIN HttpDots(k, c)
      BY <3>1, <2>2, SeriesOfPlace
    <3>3. \A e \in DOMAIN HttpDots(k, c) : e[1] = "http_failed" => e = the
      <4> HIDE DEF c
      <4>1. QED
        BY HttpSeriesOf
    <3>4. QED
      BY <3>1, <3>2, <3>3
  <2>6. ASSUME x \in DOMAIN cs PROVE the \in http /\ dots[the] = <<c.failed, 1>>
    <3>1. the \in DOMAIN HttpDots(k, c) /\ HttpDots(k, c)[the] = <<c.failed, 1>>
      BY HttpSeriesOf
    <3>2. \A s \in DOMAIN HttpDots(k, c) :
            s \in DOMAIN Published(q) /\ Published(q)[s] = HttpDots(k, c)[s]
      BY <2>6, <2>2, HttpPublished
    <3>3. the[1] = "http_failed" /\ the[2] = k
      OBVIOUS
    <3> HIDE DEF the, c, x, cs, q
    <3>4. QED
      BY <3>1, <3>2, <3>3, <1>2 DEF q
  <2>7. ASSUME x \in DOMAIN cs
        PROVE  /\ c.failed = Cardinality(bad)
               /\ c.reason = IF why = {} THEN "success" ELSE q[Min(why)].reason
    <3>1. At(cs, x) = c
      BY <2>7 DEF At
    <3>2. why = WhyTill(q, x, Len(q))
      <4>1. \A i \in BadTill(q, x, Len(q)) : q[i].ptype = "http"
        BY DEF BadTill, Place
      <4> HIDE DEF q, x, bad
      <4>2. QED
        BY <4>1, <2>3 DEF WhyTill, q
    <3>3. /\ c.failed = Cardinality(bad)
          /\ why = {} => c.reason = "success"
          /\ why # {} => \E m \in why : (\A j \in why : m <= j) /\ c.reason = q[m].reason
      <4> HIDE DEF q, x, bad, why, c, cs
      <4> QED BY <3>1, <3>2, <2>2, <2>3 DEF CountedTill
    <3>4. why \in SUBSET Nat
      <4>1. Len(q) \in Nat
        BY <2>1
      <4>2. BadTill(q, x, Len(q)) \subseteq 1 .. Len(q)
        BY DEF BadTill
      <4>3. why \subseteq bad
        OBVIOUS
      <4> HIDE DEF q, why, bad, x
      <4>4. QED
        BY <4>1, <4>2, <4>3, <2>3
    <3>5. why # {} => c.reason = q[Min(why)].reason
      <4> HIDE DEF q, why, c
      <4> QED BY <3>3, <3>4, FirstIsMin
    <3> HIDE DEF q, why, c, bad
    <3>6. QED
      BY <3>3, <3>5
  <2> HIDE DEF q, x, cs, c, bad, why, http
  <2>8. CASE x \notin DOMAIN cs
    BY <2>4, <2>5, <2>8 DEF bad, why, http
  <2>9. CASE x \in DOMAIN cs
    <3>1. http = {the}
      BY <2>5, <2>6, <2>9
    <3>2. {dots[s] : s \in http} = {<<Cardinality(bad), 1>>}
      <4> HIDE DEF the
      <4> QED BY <3>1, <2>6, <2>7, <2>9
    <3>3. the[3] = c.reason
      OBVIOUS
    <3> HIDE DEF the
    <3>4. \A s \in http : s[3] = IF why = {} THEN "success" ELSE q[Min(why)].reason
      BY <3>1, <3>3, <2>7, <2>9
    <3>5. QED
      BY <3>2, <3>4, <2>4, <2>9 DEF http, why, bad, q
  <2>10. QED
    BY <2>8, <2>9
<1>3. QED
  BY <1>1, <1>2 DEF FromBatch

\* The failed series of a pair (aggregator.go:206-214, 290-302).
LEMMA FailuresOfIcmp ==
    ASSUME TypeOK, FromBatch, \A i \in DOMAIN batch.results : IsResult(batch.results[i]), NEW k
    PROVE  /\ <<"icmp_failed", k>> \in DOMAIN dots <=> Of("icmp", k) # {}
           /\ Of("icmp", k) # {} =>
                dots[<<"icmp_failed", k>>]
                    = <<Cardinality(Of("icmp", k) \ Good("icmp", k)), 1>>
<1> DEFINE q == batch.results
           x == <<"icmp", k>>
           cs == Containers(q)
           c == cs[x]
           the == <<"icmp_failed", k>>
<1>1. CASE batch = NoBatch /\ dots = NoDots
  <2>1. Of("icmp", k) = {} /\ DOMAIN dots = {}
    BY <1>1 DEF Of, NoBatch, NoDots
  <2>2. QED
    BY <2>1
<1>2. CASE batch.results # <<>> /\ dots = Published(batch.results)
  <2>1. WellFormed(q) /\ q \in Seq(Results)
    BY DEF TypeOK, WellFormed
  <2>2. /\ CountedTill(q, cs, Len(q))
        /\ DOMAIN cs \subseteq {"http", "icmp"} \X Keys
    BY <2>1, CountedInAll
  <2>3. /\ Of("icmp", k) \ Good("icmp", k) = BadTill(q, x, Len(q))
        /\ Of("icmp", k) = {} <=> x \notin {Place(q[j]) : j \in 1 .. Len(q)}
    BY <2>1, OfBatch
  <2>4. Of("icmp", k) = {} <=> x \notin DOMAIN cs
    BY <2>2, <2>3 DEF CountedTill
  <2>5. the \in DOMAIN dots => x \in DOMAIN cs
    <3>1. the[1] \in IcmpSeries /\ the[2] = k
      BY DEF IcmpSeries
    <3>2. \A s \in DOMAIN Published(q) : s[1] \in IcmpSeries /\ s[2] = k => x \in DOMAIN cs
      BY <2>2, SeriesOfPlace
    <3> HIDE DEF the, x, cs, q
    <3>3. QED
      BY <3>1, <3>2, <1>2 DEF q
  <2>6. ASSUME x \in DOMAIN cs PROVE the \in DOMAIN dots /\ dots[the] = <<c.failed, 1>>
    <3>1. the \in DOMAIN IcmpDots(k, c) /\ IcmpDots(k, c)[the] = <<c.failed, 1>>
      BY IcmpSeriesOf
    <3>2. \A s \in DOMAIN IcmpDots(k, c) :
            s \in DOMAIN Published(q) /\ Published(q)[s] = IcmpDots(k, c)[s]
      BY <2>6, <2>2, IcmpPublished
    <3> HIDE DEF the, c, x, cs, q
    <3>3. QED
      BY <3>1, <3>2, <1>2 DEF q
  <2>7. ASSUME x \in DOMAIN cs PROVE c.failed = Cardinality(Of("icmp", k) \ Good("icmp", k))
    <3>1. At(cs, x) = c
      BY <2>7 DEF At
    <3> HIDE DEF q, x, c, cs
    <3>2. QED
      BY <3>1, <2>2, <2>3 DEF CountedTill
  <2> HIDE DEF the, c, x, cs, q
  <2>8. QED
    BY <2>4, <2>5, <2>6, <2>7 DEF the
<1>3. QED
  BY <1>1, <1>2 DEF FromBatch

\* Every failure of a round is counted once, under its own pair and with the first
\* reason there is, however many results the round has (aggregator.go:204-214).
THEOREM FailuresCountedAlways == Spec => []FailuresCounted
<1>1. TypeOK /\ FromBatch /\ (\A i \in DOMAIN batch.results : IsResult(batch.results[i]))
        => FailuresCounted
  <2> SUFFICES ASSUME TypeOK, FromBatch, \A i \in DOMAIN batch.results : IsResult(batch.results[i]),
                      NEW k \in Keys
               PROVE  LET bad == Of("http", k) \ Good("http", k)
                          why == {i \in bad : batch.results[i].reason # ""}
                          http == {s \in DOMAIN dots : s[1] = "http_failed" /\ s[2] = k}
                      IN  /\ {dots[s] : s \in http}
                                = IF Of("http", k) = {} THEN {} ELSE {<<Cardinality(bad), 1>>}
                          /\ \A s \in http :
                                s[3] = IF why = {} THEN "success" ELSE batch.results[Min(why)].reason
                          /\ <<"icmp_failed", k>> \in DOMAIN dots <=> Of("icmp", k) # {}
                          /\ Of("icmp", k) # {} =>
                                dots[<<"icmp_failed", k>>]
                                    = <<Cardinality(Of("icmp", k) \ Good("icmp", k)), 1>>
    BY DEF FailuresCounted
  <2>1. QED
    BY FailuresOfHttp, FailuresOfIcmp
<1>2. QED
  BY <1>1, BatchAlways, PTL

-----------------------------------------------------------------------------
(***************************************************************************)
(* MeanOfSuccesses                                                         *)
(***************************************************************************)
\* What the phases of the successes add up to, and the bounds of it.
PhaseOf(f, st) == IF st \in DOMAIN f THEN f[st] ELSE 0

MeasuredTill(q, cs, i) ==
    \A x : \A st :
        LET f == At(cs, x).phase
            good == GoodTill(q, x, i)
        IN  /\ st \in DOMAIN f <=> \E j \in good : st \in DOMAIN q[j].phase
            /\ PhaseOf(f, st) \in Nat
            /\ \A lo \in Nat, hi \in Nat :
                (\A j \in good : st \in DOMAIN q[j].phase
                                 /\ lo <= q[j].phase[st] /\ q[j].phase[st] <= hi)
                => /\ Cardinality(good) * lo <= PhaseOf(f, st)
                   /\ PhaseOf(f, st) <= Cardinality(good) * hi

\* container.phase[stage] += val, of one stage.
LEMMA AddedPhases ==
    ASSUME NEW f, NEW g, NEW st, PhaseOf(f, st) \in Nat, PhaseOf(g, st) \in Nat
    PROVE  /\ DOMAIN AddPhase(f, g) = DOMAIN f \cup DOMAIN g
           /\ PhaseOf(AddPhase(f, g), st) = PhaseOf(f, st) + PhaseOf(g, st)
<1>1. DOMAIN AddPhase(f, g) = DOMAIN f \cup DOMAIN g
  BY DEF AddPhase
<1>2. ASSUME st \in DOMAIN f \cup DOMAIN g
      PROVE  AddPhase(f, g)[st] = PhaseOf(f, st) + PhaseOf(g, st)
  BY <1>2 DEF AddPhase, PhaseOf
<1>3. st \notin DOMAIN f \cup DOMAIN g => PhaseOf(f, st) = 0 /\ PhaseOf(g, st) = 0
  BY DEF PhaseOf
<1>4. QED
  BY <1>1, <1>2, <1>3 DEF PhaseOf

\* What a stage adds up to after i + 1 results, from what it adds up to after i:
\* a failure leaves it alone, a success adds its value within the bounds.
LEMMA OneMoreMeasured ==
    ASSUME NEW q, NEW i \in Nat, \A j \in 1 .. i + 1 : IsResult(q[j]),
           NEW cs, CountedTill(q, cs, i), MeasuredTill(q, cs, i)
    PROVE  MeasuredTill(q, Into(cs, q[i + 1]), i + 1)
<1> SUFFICES ASSUME NEW x, NEW st
             PROVE  LET f == At(Into(cs, q[i + 1]), x).phase
                        good == GoodTill(q, x, i + 1)
                    IN  /\ st \in DOMAIN f <=> \E j \in good : st \in DOMAIN q[j].phase
                        /\ PhaseOf(f, st) \in Nat
                        /\ \A lo \in Nat, hi \in Nat :
                            (\A j \in good : st \in DOMAIN q[j].phase
                                             /\ lo <= q[j].phase[st] /\ q[j].phase[st] <= hi)
                            => /\ Cardinality(good) * lo <= PhaseOf(f, st)
                               /\ PhaseOf(f, st) <= Cardinality(good) * hi
  BY DEF MeasuredTill
<1> DEFINE r == q[i + 1]
           f == At(cs, x).phase
           g == At(Into(cs, r), x).phase
           good == GoodTill(q, x, i)
           new == GoodTill(q, x, i + 1)
<1>1. r = q[i + 1] /\ IsResult(r) /\ r.ok \in BOOLEAN
  BY DEF IsResult
<1>2. /\ st \in DOMAIN f <=> \E j \in good : st \in DOMAIN q[j].phase
      /\ PhaseOf(f, st) \in Nat
      /\ \A lo \in Nat, hi \in Nat :
            (\A j \in good : st \in DOMAIN q[j].phase
                             /\ lo <= q[j].phase[st] /\ q[j].phase[st] <= hi)
            => /\ Cardinality(good) * lo <= PhaseOf(f, st)
               /\ PhaseOf(f, st) <= Cardinality(good) * hi
  BY DEF MeasuredTill
<1>3. 1 .. i + 1 = (1 .. i) \cup {i + 1}
  OBVIOUS
<1>4. CASE ~(Place(r) = x /\ r.ok)
  <2>1. new = good
    BY <1>1, <1>3, <1>4 DEF GoodTill
  <2>2. g = f
    <3>1. CASE Place(r) # x
      <4>1. At(Into(cs, r), x) = At(cs, x)
        BY <3>1, IntoAt
      <4>2. QED
        BY <4>1
    <3>2. CASE Place(r) = x /\ ~r.ok
      <4>1. IsContainer(At(cs, x))
        BY DEF CountedTill
      <4>2. At(Into(cs, r), x) = Added(At(cs, x), r)
        BY <3>2, IntoAt
      <4> HIDE DEF r
      <4>3. Added(At(cs, x), r).phase = At(cs, x).phase
        BY <4>1, <3>2, AddedBad
      <4>4. QED
        BY <4>2, <4>3
    <3>3. QED
      BY <3>1, <3>2, <1>4, <1>1
  <2> HIDE DEF f, g, good, new, r
  <2>3. QED
    BY <2>1, <2>2, <1>2 DEF g, new, r
<1>5. CASE Place(r) = x /\ r.ok
  <2>1. new = good \cup {i + 1}
    BY <1>1, <1>3, <1>5 DEF GoodTill
  <2>2. g = AddPhase(f, r.phase)
    <3>1. IsContainer(At(cs, x))
      BY DEF CountedTill
    <3>2. At(Into(cs, r), x) = Added(At(cs, x), r)
      BY <1>5, IntoAt
    <3> HIDE DEF r
    <3>3. \A c : IsContainer(c) => Added(c, r).phase = AddPhase(c.phase, r.phase)
      BY <1>5, AddedGood
    <3>4. QED
      BY <3>1, <3>2, <3>3
  <2>3. PhaseOf(r.phase, st) \in Nat
    BY <1>1 DEF IsResult, PhaseOf
  <2>4. /\ DOMAIN g = DOMAIN f \cup DOMAIN r.phase
        /\ PhaseOf(g, st) = PhaseOf(f, st) + PhaseOf(r.phase, st)
    <3> HIDE DEF f, g, r
    <3> QED BY <2>2, <2>3, <1>2, AddedPhases
  <2>5. Cardinality(new) = Cardinality(good) + 1 /\ Cardinality(good) \in Nat
    <3>1. good \subseteq 1 .. i
      BY DEF GoodTill
    <3>2. IsFiniteSet(1 .. i)
      BY FS_Interval
    <3>3. Cardinality(good) \in Nat
      BY <3>1, <3>2, FS_Subset, FS_CardinalityType
    <3>4. QED
      BY <3>1, <3>3, <2>1, OneMoreCounted
  <2> HIDE DEF f, g, good, new, r
  <2>6. st \in DOMAIN g <=> \E j \in new : st \in DOMAIN q[j].phase
    BY <2>1, <2>4, <1>1, <1>2
  <2>7. PhaseOf(g, st) \in Nat
    BY <2>3, <2>4, <1>2
  <2>8. ASSUME NEW lo \in Nat, NEW hi \in Nat,
               \A j \in new : st \in DOMAIN q[j].phase
                              /\ lo <= q[j].phase[st] /\ q[j].phase[st] <= hi
        PROVE  /\ Cardinality(new) * lo <= PhaseOf(g, st)
               /\ PhaseOf(g, st) <= Cardinality(new) * hi
    <3>1. Cardinality(good) * lo <= PhaseOf(f, st) /\ PhaseOf(f, st) <= Cardinality(good) * hi
      BY <2>1, <2>8, <1>2
    <3>2. lo <= PhaseOf(r.phase, st) /\ PhaseOf(r.phase, st) <= hi
      BY <2>1, <2>8, <1>1 DEF PhaseOf
    <3>3. \A n \in Nat : (n + 1) * lo = n * lo + lo /\ (n + 1) * hi = n * hi + hi
                         /\ n * lo \in Nat /\ n * hi \in Nat
      OBVIOUS
    <3> DEFINE n == Cardinality(good)
               nlo == n * lo
               nhi == n * hi
    <3>4. Cardinality(new) * lo = nlo + lo /\ Cardinality(new) * hi = nhi + hi
          /\ nlo \in Nat /\ nhi \in Nat
      BY <3>3, <2>5
    <3> HIDE DEF nlo, nhi
    <3>5. nlo <= PhaseOf(f, st) /\ PhaseOf(f, st) <= nhi
      BY <3>1 DEF nlo, nhi
    <3>6. QED
      BY <3>2, <3>4, <3>5, <2>3, <2>4, <1>2
  <2>9. QED
    BY <2>6, <2>7, <2>8 DEF g, new, r
<1>6. QED
  BY <1>4, <1>5

\* So it holds all along a history.
LEMMA MeasuredSoFar ==
    ASSUME NEW S, NEW q \in Seq(S), \A i \in DOMAIN q : IsResult(q[i]), NEW h, IsHistory(q, h)
    PROVE  \A i \in 0 .. Len(q) : MeasuredTill(q, h[i], i)
<1> DEFINE T == {i \in 0 .. Len(q) : MeasuredTill(q, h[i], i)}
<1>0. Len(q) \in Nat /\ DOMAIN q = 1 .. Len(q)
  OBVIOUS
<1>1. 0 \in T
  <2>1. \A x : GoodTill(q, x, 0) = {} /\ At(h[0], x).phase = NoPhase
    <3>1. \A x : GoodTill(q, x, 0) = {}
      BY DEF GoodTill
    <3>2. \A x : At(h[0], x) = EmptyContainer
      BY DEF IsHistory, NoContainers, At
    <3>3. EmptyContainer.phase = NoPhase
      BY DEF EmptyContainer
    <3>4. QED
      BY <3>1, <3>2, <3>3
  <2>2. DOMAIN NoPhase = {} /\ \A st : PhaseOf(NoPhase, st) = 0
    BY DEF NoPhase, PhaseOf
  <2>3. Cardinality({}) = 0 /\ \A n \in Nat : 0 * n = 0
    BY FS_EmptySet
  <2>4. MeasuredTill(q, h[0], 0)
    <3> SUFFICES ASSUME NEW x, NEW st
                 PROVE  LET f == At(h[0], x).phase
                            good == GoodTill(q, x, 0)
                        IN  /\ st \in DOMAIN f <=> \E j \in good : st \in DOMAIN q[j].phase
                            /\ PhaseOf(f, st) \in Nat
                            /\ \A lo \in Nat, hi \in Nat :
                                (\A j \in good : st \in DOMAIN q[j].phase
                                                 /\ lo <= q[j].phase[st] /\ q[j].phase[st] <= hi)
                                => /\ Cardinality(good) * lo <= PhaseOf(f, st)
                                   /\ PhaseOf(f, st) <= Cardinality(good) * hi
      BY DEF MeasuredTill
    <3>1. At(h[0], x).phase = NoPhase /\ GoodTill(q, x, 0) = {} /\ PhaseOf(NoPhase, st) = 0
      BY <2>1, <2>2
    <3>2. \A lo \in Nat, hi \in Nat : Cardinality({}) * lo = 0 /\ Cardinality({}) * hi = 0
      BY <2>3
    <3> DEFINE f == At(h[0], x).phase
               good == GoodTill(q, x, 0)
    <3>3. f = NoPhase /\ good = {}
      BY <3>1
    <3> HIDE DEF f, good
    <3>4. st \notin DOMAIN f /\ ~(\E j \in good : st \in DOMAIN q[j].phase)
      BY <3>3, <2>2
    <3>5. PhaseOf(f, st) = 0
      BY <3>1, <3>3
    <3>6. \A lo \in Nat, hi \in Nat :
            Cardinality(good) * lo <= PhaseOf(f, st) /\ PhaseOf(f, st) <= Cardinality(good) * hi
      BY <3>2, <3>3, <3>5
    <3>7. QED
      BY <3>4, <3>5, <3>6 DEF f, good
  <2>5. QED
    BY <2>4, <1>0
<1>2. ASSUME NEW i \in 0 .. Len(q) - 1, i \in T PROVE i + 1 \in T
  <2>1. /\ i \in Nat /\ i \in 0 .. Len(q) /\ i + 1 \in 1 .. Len(q) /\ i + 1 - 1 = i
        /\ 1 .. i + 1 \subseteq DOMAIN q
    BY <1>0
  <2>2. h[i + 1] = Into(h[i], q[i + 1])
    BY <2>1 DEF IsHistory
  <2>3. CountedTill(q, h[i], i)
    BY <2>1, CountedSoFar
  <2>4. MeasuredTill(q, h[i + 1], i + 1)
    BY <2>1, <2>2, <2>3, <1>2, OneMoreMeasured
  <2>5. QED
    BY <2>1, <2>4
<1>3. \A i \in 0 .. Len(q) : i \in T
  <2> HIDE DEF T
  <2> QED BY <1>0, <1>1, <1>2, PrefixInduction
<1>4. QED
  BY <1>3

\* A finite set of naturals has a greatest element.
LEMMA GreatestNat ==
    ASSUME NEW S \in SUBSET Nat, S # {}, IsFiniteSet(S)
    PROVE  \E m \in S : \A k \in S : k <= m
<1> DEFINE over(m) == {k \in S : k > m}
           T == {over(m) : m \in S}
<1>1. T # {}
  OBVIOUS
<1>2. ASSUME NEW m \in S PROVE over(m) \in FiniteSubsetsOf(S)
  <2>1. over(m) \in SUBSET S
    OBVIOUS
  <2> HIDE DEF over
  <2>2. IsFiniteSet(over(m))
    BY <2>1, FS_Subset
  <2>3. QED
    BY <2>1, <2>2 DEF FiniteSubsetsOf
<1>3. T \subseteq FiniteSubsetsOf(S)
  <2> HIDE DEF over
  <2> QED BY <1>2
<1>4. \E x \in T : \A y \in T : <<y, x>> \notin StrictSubsetOrdering(S)
  <2> HIDE DEF T
  <2> QED
    BY <1>1, <1>3, WFMin, FS_StrictSubsetOrderingWellFounded
<1>5. PICK m \in S : \A k \in S : <<over(k), over(m)>> \notin StrictSubsetOrdering(S)
  BY <1>4
<1>6. ASSUME NEW k \in S, k > m PROVE FALSE
  <2> DEFINE K == over(k)
             M == over(m)
  <2>1. K \in SUBSET S /\ M \in SUBSET S /\ k \in M /\ k \notin K
    BY <1>6
  <2>2. <<K, M>> \notin StrictSubsetOrdering(S)
    BY <1>5
  <2>3. K \subseteq M
    <3>1. \A y \in Nat : y > k => y > m
      BY <1>6
    <3>2. QED
      BY <3>1
  <2> HIDE DEF K, M
  <2>4. QED
    BY <2>1, <2>2, <2>3 DEF StrictSubsetOrdering
<1>7. QED
  BY <1>6

\* The series of a stage is there when the container has that stage.
StageSeries(ptype, k, st) == IF st \in {"loss", "stddev"} THEN <<st, k>> ELSE <<ptype, k, st>>

\* A stage is published exactly if its container has it, as the sum of the values
\* divided by the number of successes.
LEMMA SeriesOfStage ==
    ASSUME NEW q, DOMAIN Containers(q) \subseteq {"http", "icmp"} \X Keys,
           NEW ptype \in {"http", "icmp"}, NEW k, NEW st \in Stages(ptype)
    PROVE  /\ StageSeries(ptype, k, st) \in DOMAIN Published(q)
                <=> /\ <<ptype, k>> \in DOMAIN Containers(q)
                    /\ st \in DOMAIN Containers(q)[<<ptype, k>>].phase
           /\ StageSeries(ptype, k, st) \in DOMAIN Published(q) =>
                Published(q)[StageSeries(ptype, k, st)]
                    = <<Containers(q)[<<ptype, k>>].phase[st], Containers(q)[<<ptype, k>>].cnt>>
<1> DEFINE cs == Containers(q)
           s == StageSeries(ptype, k, st)
<1>1. CASE ptype = "http"
  <2> DEFINE c == cs[<<"http", k>>]
  <2>1. s = HttpStageSeries(k, st)
    BY <1>1 DEF Stages, HttpStages, OverTLS, HttpStageSeries, StageSeries
  <2>2. s[1] = "http" /\ s[1] \in HttpSeries /\ s[2] = k /\ s[3] = st
    BY <2>1 DEF HttpSeries, HttpStageSeries
  <2> HIDE DEF s
  <2>3. s \in DOMAIN Published(q) => <<"http", k>> \in DOMAIN cs /\ s \in DOMAIN HttpDots(k, c)
    BY <2>2, SeriesOfPlace
  <2>4. <<"http", k>> \in DOMAIN cs /\ s \in DOMAIN HttpDots(k, c) =>
            s \in DOMAIN Published(q) /\ Published(q)[s] = HttpDots(k, c)[s]
    BY HttpPublished
  <2> HIDE DEF c
  <2>5. s \in DOMAIN HttpDots(k, c) => st \in DOMAIN c.phase
    <3>1. ASSUME s \in DOMAIN HttpDots(k, c)
          PROVE  \E e \in DOMAIN c.phase : s = HttpStageSeries(k, e)
      <4>1. \A e \in DOMAIN HttpDots(k, c) :
                e[1] = "http" => \E d \in DOMAIN c.phase : e = HttpStageSeries(k, d)
        BY HttpSeriesOf
      <4>2. QED
        BY <4>1, <3>1, <2>2
    <3>2. \A e : HttpStageSeries(k, e)[3] = e
      BY DEF HttpStageSeries
    <3>3. QED
      BY <3>1, <3>2, <2>1
  <2>6. st \in DOMAIN c.phase => s \in DOMAIN HttpDots(k, c)
                                 /\ HttpDots(k, c)[s] = <<c.phase[st], c.cnt>>
    BY <2>1, HttpStagesOf
  <2> HIDE DEF cs
  <2>7. QED
    BY <2>3, <2>4, <2>5, <2>6, <1>1 DEF c, s, cs
<1>2. CASE ptype = "icmp"
  <2> DEFINE c == cs[<<"icmp", k>>]
  <2>1. s = IcmpStageSeries(k, st)
    BY <1>2 DEF IcmpStageSeries, StageSeries
  <2>2. /\ s[1] \in IcmpSeries /\ s[2] = k
        /\ \/ s[1] = "icmp" /\ s[3] = st
           \/ s[1] \in {"loss", "stddev"} /\ s[1] = st
    BY <1>2 DEF IcmpSeries, StageSeries
  <2> HIDE DEF s
  <2>3. s \in DOMAIN Published(q) => <<"icmp", k>> \in DOMAIN cs /\ s \in DOMAIN IcmpDots(k, c)
    BY <2>2, SeriesOfPlace
  <2>4. <<"icmp", k>> \in DOMAIN cs /\ s \in DOMAIN IcmpDots(k, c) =>
            s \in DOMAIN Published(q) /\ Published(q)[s] = IcmpDots(k, c)[s]
    BY IcmpPublished
  <2> HIDE DEF c
  <2>5. s \in DOMAIN IcmpDots(k, c) => st \in DOMAIN c.phase
    <3>1. ASSUME s \in DOMAIN IcmpDots(k, c)
          PROVE  \E e \in DOMAIN c.phase : s = IcmpStageSeries(k, e)
      <4>1. \A e \in DOMAIN IcmpDots(k, c) :
                e[1] \in {"icmp", "loss", "stddev"} => \E d \in DOMAIN c.phase : e = IcmpStageSeries(k, d)
        BY IcmpSeriesOf
      <4>2. QED
        BY <4>1, <3>1, <2>2
    <3>2. \A e : IcmpStageSeries(k, e) = IcmpStageSeries(k, st) => e = st
      BY DEF IcmpStageSeries
    <3>3. QED
      BY <3>1, <3>2, <2>1
  <2>6. st \in DOMAIN c.phase => s \in DOMAIN IcmpDots(k, c)
                                 /\ IcmpDots(k, c)[s] = <<c.phase[st], c.cnt>>
    <3>1. \A e \in DOMAIN c.phase : IcmpStageSeries(k, e) \in DOMAIN IcmpDots(k, c)
                /\ IcmpDots(k, c)[IcmpStageSeries(k, e)] = <<c.phase[e], c.cnt>>
      BY IcmpSeriesOf
    <3>2. QED
      BY <2>1, <3>1
  <2> HIDE DEF cs
  <2>7. QED
    BY <2>3, <2>4, <2>5, <2>6, <1>2 DEF c, s, cs
<1>3. QED
  BY <1>1, <1>2

\* At the end of agg's loop the stages are sums of what the queue's successes measured.
LEMMA MeasuredInAll ==
    ASSUME NEW q, WellFormed(q)
    PROVE  MeasuredTill(q, Containers(q), Len(q))
<1>1. PICK S : q \in Seq(S) /\ \A i \in DOMAIN q : IsResult(q[i])
  BY DEF WellFormed
<1>2. PICK h : IsHistory(q, h) /\ Containers(q) = h[Len(q)]
  BY <1>1, ContainersHistory
<1>3. Len(q) \in 0 .. Len(q)
  BY <1>1
<1>4. QED
  BY <1>1, <1>2, <1>3, MeasuredSoFar

\* Min and Max are the bounds they are meant to be.
LEMMA MinAndMax ==
    ASSUME NEW S \in SUBSET Nat, S # {}, IsFiniteSet(S)
    PROVE  /\ Min(S) \in S /\ \A k \in S : Min(S) <= k
           /\ Max(S) \in S /\ \A k \in S : k <= Max(S)
<1>1. \E m \in S : \A k \in S : m <= k
  BY LeastNat
<1>2. \E m \in S : \A k \in S : m >= k
  <2>1. PICK m \in S : \A k \in S : k <= m
    BY GreatestNat
  <2>2. QED
    BY <2>1
<1>3. Min(S) \in S /\ \A k \in S : Min(S) <= k
  BY <1>1 DEF Min
<1>4. Max(S) \in S /\ \A k \in S : Max(S) >= k
  BY <1>2 DEF Max
<1>5. QED
  BY <1>3, <1>4

\* The average of one stage of one kind and key: from the bounds of the sum, with the
\* smallest and the largest value measured as bounds.
LEMMA MeanOfStage ==
    ASSUME TypeOK, FromBatch, \A i \in DOMAIN batch.results : IsResult(batch.results[i]),
           NEW ptype \in {"http", "icmp"}, NEW k \in Keys, NEW st \in Stages(ptype)
    PROVE  LET good == Good(ptype, k)
               values == {batch.results[i].phase[st] :
                             i \in {j \in good : st \in DOMAIN batch.results[j].phase}}
               s == IF st \in {"loss", "stddev"} THEN <<st, k>> ELSE <<ptype, k, st>>
           IN  /\ s \in DOMAIN dots <=> values # {}
               /\ good # {} /\ (\A i \in good : st \in DOMAIN batch.results[i].phase) =>
                    /\ dots[s][1] >= dots[s][2] * Min(values)
                    /\ dots[s][1] <= dots[s][2] * Max(values)
<1> DEFINE q == batch.results
           x == <<ptype, k>>
           cs == Containers(q)
           c == cs[x]
           good == Good(ptype, k)
           values == {batch.results[i].phase[st] :
                         i \in {j \in good : st \in DOMAIN batch.results[j].phase}}
           s == StageSeries(ptype, k, st)
<1>1. CASE batch = NoBatch /\ dots = NoDots
  <2>1. good = {} /\ DOMAIN dots = {}
    BY <1>1 DEF Of, Good, NoBatch, NoDots
  <2> HIDE DEF s, good
  <2>2. QED
    BY <2>1 DEF s, good, StageSeries
<1>2. CASE batch.results # <<>> /\ dots = Published(batch.results)
  <2>1. WellFormed(q) /\ q \in Seq(Results)
    BY DEF TypeOK, WellFormed
  <2>2. /\ CountedTill(q, cs, Len(q)) /\ MeasuredTill(q, cs, Len(q))
        /\ DOMAIN cs \subseteq {"http", "icmp"} \X Keys
    BY <2>1, CountedInAll, MeasuredInAll
  <2>3. good = GoodTill(q, x, Len(q))
    BY <2>1, OfBatch
  <2>4. Len(q) \in Nat /\ DOMAIN q = 1 .. Len(q)
    BY <2>1
  <2>5. /\ s \in DOMAIN dots <=> x \in DOMAIN cs /\ st \in DOMAIN c.phase
        /\ s \in DOMAIN dots => dots[s] = <<c.phase[st], c.cnt>>
    <3>1. /\ s \in DOMAIN Published(q) <=> x \in DOMAIN cs /\ st \in DOMAIN c.phase
          /\ s \in DOMAIN Published(q) => Published(q)[s] = <<c.phase[st], c.cnt>>
      BY <2>2, SeriesOfStage
    <3> HIDE DEF s, x, cs, c, q
    <3>2. QED
      BY <3>1, <1>2 DEF q
  <2>6. good # {} => x \in DOMAIN cs
    <3>1. \A j \in good : j \in 1 .. Len(q) /\ Place(q[j]) = x
      BY <2>3 DEF GoodTill
    <3> HIDE DEF q, x, cs, good
    <3>2. QED
      BY <3>1, <2>2 DEF CountedTill
  <2>7. ASSUME x \in DOMAIN cs
        PROVE  /\ c.cnt = Cardinality(good)
               /\ st \in DOMAIN c.phase <=> \E j \in good : st \in DOMAIN q[j].phase
               /\ st \in DOMAIN c.phase =>
                    \A lo \in Nat, hi \in Nat :
                        (\A j \in good : st \in DOMAIN q[j].phase
                                         /\ lo <= q[j].phase[st] /\ q[j].phase[st] <= hi)
                        => /\ Cardinality(good) * lo <= c.phase[st]
                           /\ c.phase[st] <= Cardinality(good) * hi
    <3>1. At(cs, x) = c
      BY <2>7 DEF At
    <3> HIDE DEF q, x, cs, c, good
    <3>2. c.cnt = Cardinality(good)
      BY <3>1, <2>2, <2>3 DEF CountedTill
    <3>3. QED
      BY <3>1, <3>2, <2>2, <2>3 DEF MeasuredTill, PhaseOf
  <2>8. values # {} <=> \E j \in good : st \in DOMAIN q[j].phase
    OBVIOUS
  <2>9. s \in DOMAIN dots <=> values # {}
    <3> HIDE DEF q, x, cs, c, good, values, s
    <3> QED BY <2>5, <2>6, <2>7, <2>8
  <2>10. ASSUME good # {}, \A i \in good : st \in DOMAIN batch.results[i].phase
         PROVE  /\ dots[s][1] >= dots[s][2] * Min(values)
                /\ dots[s][1] <= dots[s][2] * Max(values)
    <3>1. values \in SUBSET Nat /\ values # {} /\ IsFiniteSet(values) /\ Cardinality(good) \in Nat
      <4>1. good \subseteq DOMAIN q
        BY <2>3, <2>4 DEF GoodTill
      <4>2. IsFiniteSet(good) /\ Cardinality(good) \in Nat
        <5>1. IsFiniteSet(1 .. Len(q))
          BY <2>4, FS_Interval
        <5> HIDE DEF good, q
        <5>2. QED
          BY <5>1, <4>1, <2>4, FS_Subset, FS_CardinalityType
      <4>3. \A i \in good : q[i].phase[st] \in Nat
        BY <4>1, <2>10 DEF IsResult
      <4> DEFINE f == [i \in good |-> q[i].phase[st]]
      <4>4. values = {f[i] : i \in good}
        BY <2>10
      <4>5. f \in Surjection(good, values)
        BY <4>4 DEF Surjection
      <4>6. values \in SUBSET Nat /\ values # {}
        BY <4>3, <4>4, <2>10
      <4> HIDE DEF f, good, values
      <4>7. IsFiniteSet(values)
        BY <4>2, <4>5, FS_Surjection
      <4>8. QED
        BY <4>2, <4>6, <4>7
    <3> DEFINE lo == Min(values)
               hi == Max(values)
    <3>2. \A i \in good : q[i].phase[st] \in values
      BY <2>10
    <3> HIDE DEF values
    <3>3. lo \in Nat /\ hi \in Nat /\ \A v \in values : lo <= v /\ v <= hi
      BY <3>1, MinAndMax
    <3> HIDE DEF lo, hi, s, c, cs, x, q, good
    <3>4. /\ Cardinality(good) * lo <= c.phase[st] /\ c.phase[st] <= Cardinality(good) * hi
          /\ c.cnt = Cardinality(good) /\ dots[s] = <<c.phase[st], c.cnt>>
      BY <3>1, <3>2, <3>3, <2>5, <2>6, <2>7, <2>9, <2>10 DEF q
    <3>5. dots[s][1] = c.phase[st] /\ dots[s][2] = Cardinality(good)
      BY <3>4
    <3>6. c.phase[st] >= Cardinality(good) * lo
      BY <3>4
    <3>7. QED
      BY <3>4, <3>5, <3>6 DEF lo, hi
  <2> HIDE DEF s, values, good
  <2>11. QED
    BY <2>9, <2>10 DEF s, values, good, StageSeries
<1>3. QED
  BY <1>1, <1>2 DEF FromBatch

\* A failed probe does not distort a duration: the average of a stage lies between
\* what the successes measured, however many they are (aggregator.go:180-202).
THEOREM MeanOfSuccessesAlways == Spec => []MeanOfSuccesses
<1>1. TypeOK /\ FromBatch /\ (\A i \in DOMAIN batch.results : IsResult(batch.results[i]))
        => MeanOfSuccesses
  BY MeanOfStage DEF MeanOfSuccesses
<1>2. QED
  BY <1>1, BatchAlways, PTL

-----------------------------------------------------------------------------
(***************************************************************************)
(* AnyOrder                                                                *)
(***************************************************************************)
\* The same for the sum of a sequence of numbers.
SumsThrough(s, n, it) ==
    it = [t \in SUBSET (1 .. n) |-> IF t = {} THEN 0 ELSE it[t \ {Max(t)}] + s[Max(t)]]

\* As OneMoreGone.
LEMMA OneMoreSummed ==
    ASSUME NEW s, NEW n \in Nat, NEW it, SumsThrough(s, n, it)
    PROVE  \E next : SumsThrough(s, n + 1, next)
<1> DEFINE next ==
        [t \in SUBSET (1 .. n + 1) |->
            IF n + 1 \in t THEN it[t \ {n + 1}] + s[n + 1] ELSE it[t]]
<1>1. \A t \in SUBSET (1 .. n) : next[t] = it[t]
  OBVIOUS
<1>2. ASSUME NEW t \in SUBSET (1 .. n + 1)
      PROVE  next[t] = IF t = {} THEN 0 ELSE next[t \ {Max(t)}] + s[Max(t)]
  <2>1. CASE n + 1 \in t
    <3>1. next[t \ {n + 1}] = it[t \ {n + 1}]
      <4>1. t \ {n + 1} \in SUBSET (1 .. n)
        OBVIOUS
      <4>2. QED
        BY <4>1, <1>1
    <3>2. next[t] = it[t \ {n + 1}] + s[n + 1]
      BY <2>1
    <3>3. Max(t) = n + 1
      BY <2>1, MaxOfPrefix, n + 1 \in Nat
    <3>4. QED
      BY <3>1, <3>2, <3>3, <2>1
  <2>2. CASE n + 1 \notin t
    <3>1. \A x \in 1 .. n + 1 : x # n + 1 => x \in 1 .. n
      OBVIOUS
    <3>2. t \in SUBSET (1 .. n) /\ t \ {Max(t)} \in SUBSET (1 .. n)
      BY <2>2, <3>1
    <3>3. next[t] = it[t] /\ next[t \ {Max(t)}] = it[t \ {Max(t)}]
      BY <3>2, <1>1
    <3>4. it[t] = IF t = {} THEN 0 ELSE it[t \ {Max(t)}] + s[Max(t)]
      BY <3>2 DEF SumsThrough
    <3>5. QED
      BY <3>3, <3>4
  <2>3. QED
    BY <2>1, <2>2
<1>3. SumsThrough(s, n + 1, next)
  BY <1>2 DEF SumsThrough
<1>4. QED
  BY <1>3

\* As FoldGoesThrough.
LEMMA SumGoesThrough == ASSUME NEW s, NEW n \in Nat PROVE \E it : SumsThrough(s, n, it)
<1> DEFINE S == {m \in Nat : \E it : SumsThrough(s, m, it)}
<1>1. 0 \in S
  <2> DEFINE it == [t \in SUBSET (1 .. 0) |-> 0]
  <2>1. \A t \in SUBSET (1 .. 0) : t = {}
    OBVIOUS
  <2>2. SumsThrough(s, 0, it)
    BY <2>1 DEF SumsThrough
  <2>3. QED
    BY <2>2
<1>2. \A i \in 0 .. n - 1 : i \in S => i + 1 \in S
  BY OneMoreSummed
<1>3. \A i \in 0 .. n : i \in S
  <2> HIDE DEF S
  <2> QED BY <1>1, <1>2, PrefixInduction
<1>4. QED
  BY <1>3

\* The sums of the first 0, 1, .. numbers of s.
IsSums(s, h) == h[0] = 0 /\ \A i \in 1 .. Len(s) : h[i] = h[i - 1] + s[i]

\* The sum of s is the end of such a history.
LEMMA SumHistory ==
    ASSUME NEW s \in Seq(Nat)
    PROVE  \E h : IsSums(s, h) /\ SumSeq(s) = h[Len(s)]
<1> DEFINE n == Len(s)
           it == CHOOSE it : SumsThrough(s, n, it)
           h == [i \in 0 .. n |-> it[1 .. i]]
<1>1. n \in Nat /\ DOMAIN s = 1 .. n
  OBVIOUS
<1>2. SumSeq(s) = it[1 .. n]
  BY <1>1 DEF SumSeq, FoldLeft, MapThenFoldSet, SumsThrough
<1>3. SumsThrough(s, n, it)
  BY <1>1, SumGoesThrough
<1> HIDE DEF it
<1>4. h[0] = 0
  <2>1. 1 .. 0 = {} /\ {} \in SUBSET (1 .. n)
    OBVIOUS
  <2>2. it[{}] = 0
    BY <1>3, <2>1 DEF SumsThrough
  <2>3. QED
    BY <2>1, <2>2, <1>1
<1>5. ASSUME NEW i \in 1 .. n PROVE h[i] = h[i - 1] + s[i]
  <2>1. 1 .. i \in SUBSET (1 .. n) /\ i \in 1 .. i /\ (1 .. i) \ {i} = 1 .. i - 1
    BY <1>1
  <2>2. Max(1 .. i) = i
    BY <2>1, <1>1, MaxOfPrefix, i \in Nat, 1 .. i \in SUBSET (1 .. i)
  <2>3. it[1 .. i] = it[1 .. i - 1] + s[i]
    BY <1>3, <2>1, <2>2 DEF SumsThrough
  <2>4. QED
    BY <2>3, <1>1
<1>6. SumSeq(s) = h[n]
  BY <1>1, <1>2
<1>7. IsSums(s, h)
  <2> HIDE DEF h
  <2> QED
    BY <1>4, <1>5 DEF IsSums
<1>8. QED
  BY <1>6, <1>7

\* The sum of no numbers, and of one more; sums are naturals.
LEMMA SumOfAppend ==
    ASSUME NEW s \in Seq(Nat), NEW e \in Nat
    PROVE  SumSeq(s) \in Nat /\ SumSeq(Append(s, e)) = SumSeq(s) + e
<1> DEFINE u == Append(s, e)
           n == Len(s)
<1>1. PICK g : IsSums(s, g) /\ SumSeq(s) = g[n]
  BY SumHistory
<1>2. PICK h : IsSums(u, h) /\ SumSeq(u) = h[Len(u)]
  <2>1. u \in Seq(Nat)
    OBVIOUS
  <2> HIDE DEF u
  <2>2. QED
    BY <2>1, SumHistory
<1>3. /\ n \in Nat /\ Len(u) = n + 1 /\ u[n + 1] = e
      /\ \A i \in 1 .. n : u[i] = s[i] /\ s[i] \in Nat
  OBVIOUS
<1> DEFINE T == {i \in 0 .. n : h[i] = g[i] /\ g[i] \in Nat}
<1>4. 0 \in T
  BY <1>1, <1>2, <1>3 DEF IsSums
<1>5. ASSUME NEW i \in 0 .. n - 1, i \in T PROVE i + 1 \in T
  <2>1. i \in Nat /\ i + 1 \in 1 .. n /\ i + 1 \in 1 .. n + 1 /\ i + 1 - 1 = i /\ i + 1 \in 0 .. n
    BY <1>3
  <2>2. g[i + 1] = g[i] + s[i + 1]
    BY <2>1, <1>1 DEF IsSums
  <2>3. h[i + 1] = h[i] + u[i + 1]
    <3> HIDE DEF u
    <3> QED BY <2>1, <1>2, <1>3 DEF IsSums
  <2> HIDE DEF u
  <2>4. QED
    BY <2>1, <2>2, <2>3, <1>3, <1>5
<1>6. \A i \in 0 .. n : i \in T
  <2> HIDE DEF T, n
  <2> QED BY <1>3, <1>4, <1>5, PrefixInduction
<1>7. h[n] = g[n] /\ g[n] \in Nat
  BY <1>3, <1>6
<1>8. h[n + 1] = h[n] + e
  <2>1. n + 1 \in 1 .. n + 1 /\ n + 1 - 1 = n
    BY <1>3
  <2> HIDE DEF u
  <2>2. QED
    BY <2>1, <1>2, <1>3 DEF IsSums
<1> HIDE DEF u
<1>9. QED
  BY <1>1, <1>2, <1>3, <1>7, <1>8 DEF u

\* The sum of no numbers.
LEMMA SumOfNone == SumSeq(<<>>) = 0
<1>1. <<>> \in Seq(Nat) /\ Len(<<>>) = 0
  OBVIOUS
<1>2. PICK h : IsSums(<<>>, h) /\ SumSeq(<<>>) = h[Len(<<>>)]
  BY <1>1, SumHistory
<1>3. QED
  BY <1>1, <1>2 DEF IsSums

\* A container that holds nothing but counts, sums and a phase per stage, which is
\* all AnyOrder reads.
Numbers(c) ==
    /\ IsContainer(c)
    /\ c.cnt \in Nat /\ c.failed \in Nat
    /\ c.codes \in Seq(Nat) /\ SumSeq(c.codes) \in Nat
    /\ c.phase = [st \in DOMAIN c.phase |-> c.phase[st]]
    /\ \A st : PhaseOf(c.phase, st) \in Nat

\* A result leaves such a container behind.
LEMMA AddedNumbers ==
    ASSUME NEW c, Numbers(c), NEW r, IsResult(r)
    PROVE  Numbers(Added(c, r))
<1>1. /\ IsContainer(c) /\ c.cnt \in Nat /\ c.failed \in Nat
      /\ c.codes \in Seq(Nat) /\ SumSeq(c.codes) \in Nat
      /\ c.phase = [st \in DOMAIN c.phase |-> c.phase[st]]
      /\ \A st : PhaseOf(c.phase, st) \in Nat
  BY DEF Numbers
<1>2. r.ok \in BOOLEAN /\ r.code \in Nat /\ \A st : PhaseOf(r.phase, st) \in Nat
  BY DEF IsResult, PhaseOf
<1>3. Append(c.codes, r.code) \in Seq(Nat) /\ SumSeq(Append(c.codes, r.code)) \in Nat
  BY <1>1, <1>2, SumOfAppend, SMTT(20)
<1>4. ASSUME r.ok PROVE Numbers(Added(c, r))
  <2>1. /\ IsContainer(Added(c, r)) /\ Added(c, r).codes = Append(c.codes, r.code)
        /\ Added(c, r).cnt = c.cnt + 1 /\ Added(c, r).failed = c.failed
        /\ Added(c, r).phase = AddPhase(c.phase, r.phase)
    BY <1>1, <1>4, AddedGood
  <2>2. \A st : PhaseOf(AddPhase(c.phase, r.phase), st) \in Nat
    <3> SUFFICES ASSUME NEW st PROVE PhaseOf(AddPhase(c.phase, r.phase), st) \in Nat
      OBVIOUS
    <3>1. PhaseOf(c.phase, st) \in Nat /\ PhaseOf(r.phase, st) \in Nat
      BY <1>1, <1>2
    <3> DEFINE f == c.phase
               g == r.phase
    <3>2. PhaseOf(f, st) \in Nat /\ PhaseOf(g, st) \in Nat
      BY <3>1
    <3> HIDE DEF f, g
    <3>3. PhaseOf(AddPhase(f, g), st) = PhaseOf(f, st) + PhaseOf(g, st)
      BY <3>2, AddedPhases
    <3>4. PhaseOf(AddPhase(f, g), st) \in Nat
      BY <3>2, <3>3
    <3>5. QED
      BY <3>4 DEF f, g
  <2>3. AddPhase(c.phase, r.phase)
            = [st \in DOMAIN AddPhase(c.phase, r.phase) |-> AddPhase(c.phase, r.phase)[st]]
    BY DEF AddPhase
  <2>4. QED
    BY <1>1, <1>3, <2>1, <2>2, <2>3 DEF Numbers
<1>5. ASSUME ~r.ok PROVE Numbers(Added(c, r))
  <2>1. /\ IsContainer(Added(c, r)) /\ Added(c, r).codes = Append(c.codes, r.code)
        /\ Added(c, r).cnt = c.cnt /\ Added(c, r).failed = c.failed + 1
        /\ Added(c, r).phase = c.phase
    BY <1>1, <1>5, AddedBad
  <2>2. QED
    BY <1>1, <1>3, <2>1 DEF Numbers
<1>6. QED
  BY <1>2, <1>4, <1>5

\* Two pairs of containers hold the same in all: c and d as much as a and b.
Balanced(c, d, a, b) ==
    /\ c.cnt + d.cnt = a.cnt + b.cnt
    /\ c.failed + d.failed = a.failed + b.failed
    /\ SumSeq(c.codes) + SumSeq(d.codes) = SumSeq(a.codes) + SumSeq(b.codes)
    /\ c.reason # "success" \/ d.reason # "success" <=> a.reason # "success" \/ b.reason # "success"
    /\ c.tls # NoTLS \/ d.tls # NoTLS <=> a.tls # NoTLS \/ b.tls # NoTLS
    /\ \A st :
        /\ PhaseOf(c.phase, st) + PhaseOf(d.phase, st) = PhaseOf(a.phase, st) + PhaseOf(b.phase, st)
        /\ st \in DOMAIN c.phase \/ st \in DOMAIN d.phase
                <=> st \in DOMAIN a.phase \/ st \in DOMAIN b.phase

\* It is the same on which side a result is added.
LEMMA EitherSide ==
    ASSUME NEW c, Numbers(c), NEW d, Numbers(d), NEW r, IsResult(r),
           NEW a, NEW b, Balanced(Added(c, r), d, a, b)
    PROVE  Balanced(c, Added(d, r), a, b)
<1> DEFINE cc == Added(c, r)
           dd == Added(d, r)
<1>1. /\ IsContainer(c) /\ c.cnt \in Nat /\ c.failed \in Nat /\ c.codes \in Seq(Nat)
      /\ SumSeq(c.codes) \in Nat
      /\ IsContainer(d) /\ d.cnt \in Nat /\ d.failed \in Nat /\ d.codes \in Seq(Nat)
      /\ SumSeq(d.codes) \in Nat
  BY DEF Numbers
<1>2. r.ok \in BOOLEAN /\ r.code \in Nat /\ r.reason # "success"
  BY DEF IsResult
<1>3. /\ SumSeq(Append(c.codes, r.code)) = SumSeq(c.codes) + r.code
      /\ SumSeq(Append(d.codes, r.code)) = SumSeq(d.codes) + r.code
  BY <1>1, <1>2, SumOfAppend
<1>4. \A st : /\ PhaseOf(c.phase, st) \in Nat /\ PhaseOf(d.phase, st) \in Nat
              /\ PhaseOf(r.phase, st) \in Nat
  BY DEF Numbers, IsResult, PhaseOf
<1>5. ASSUME r.ok PROVE Balanced(c, dd, a, b)
  <2>1. /\ cc.codes = Append(c.codes, r.code) /\ cc.cnt = c.cnt + 1 /\ cc.failed = c.failed
        /\ cc.phase = AddPhase(c.phase, r.phase) /\ cc.reason = c.reason
        /\ cc.tls # NoTLS <=> c.tls # NoTLS \/ r.tls # NoTLS
    BY <1>1, <1>5, AddedGood
  <2>2. /\ dd.codes = Append(d.codes, r.code) /\ dd.cnt = d.cnt + 1 /\ dd.failed = d.failed
        /\ dd.phase = AddPhase(d.phase, r.phase) /\ dd.reason = d.reason
        /\ dd.tls # NoTLS <=> d.tls # NoTLS \/ r.tls # NoTLS
    BY <1>1, <1>5, AddedGood
  <2> HIDE DEF cc, dd
  <2>3. c.cnt + dd.cnt = a.cnt + b.cnt /\ c.failed + dd.failed = a.failed + b.failed
    <3>1. cc.cnt + d.cnt = a.cnt + b.cnt /\ cc.failed + d.failed = a.failed + b.failed
      BY DEF Balanced, cc
    <3>2. c.cnt + dd.cnt = cc.cnt + d.cnt /\ c.failed + dd.failed = cc.failed + d.failed
      <4>1. /\ cc.cnt = c.cnt + 1 /\ dd.cnt = d.cnt + 1
            /\ cc.failed = c.failed /\ dd.failed = d.failed
        BY <2>1, <2>2
      <4>2. c.cnt \in Nat /\ d.cnt \in Nat
        BY <1>1
      <4>3. \A m, n \in Nat : m + (n + 1) = (m + 1) + n
        OBVIOUS
      <4>4. c.cnt + (d.cnt + 1) = (c.cnt + 1) + d.cnt
        BY <4>2, <4>3
      <4>5. QED
        BY <4>1, <4>4, Zenon
    <3>3. QED
      BY <3>1, <3>2, Zenon
  <2>4. SumSeq(c.codes) + SumSeq(dd.codes) = SumSeq(a.codes) + SumSeq(b.codes)
    <3>1. SumSeq(cc.codes) + SumSeq(d.codes) = SumSeq(a.codes) + SumSeq(b.codes)
      BY DEF Balanced, cc
    <3>2. SumSeq(c.codes) + SumSeq(dd.codes) = SumSeq(cc.codes) + SumSeq(d.codes)
      <4>1. /\ SumSeq(cc.codes) = SumSeq(c.codes) + r.code
            /\ SumSeq(dd.codes) = SumSeq(d.codes) + r.code
        BY <2>1, <2>2, <1>3, Zenon
      <4>2. SumSeq(c.codes) \in Nat /\ SumSeq(d.codes) \in Nat /\ r.code \in Nat
        BY <1>1, <1>2
      <4>3. \A m, n, k \in Nat : m + (n + k) = (m + k) + n
        OBVIOUS
      <4>4. SumSeq(c.codes) + (SumSeq(d.codes) + r.code) = (SumSeq(c.codes) + r.code) + SumSeq(d.codes)
        BY <4>2, <4>3
      <4>5. QED
        BY <4>1, <4>4, Zenon
    <3>3. QED
      BY <3>1, <3>2, Zenon
  <2>5. /\ c.reason # "success" \/ dd.reason # "success" <=> a.reason # "success" \/ b.reason # "success"
        /\ c.tls # NoTLS \/ dd.tls # NoTLS <=> a.tls # NoTLS \/ b.tls # NoTLS
    <3>1. /\ cc.reason # "success" \/ d.reason # "success" <=> a.reason # "success" \/ b.reason # "success"
          /\ cc.tls # NoTLS \/ d.tls # NoTLS <=> a.tls # NoTLS \/ b.tls # NoTLS
      BY DEF Balanced, cc
    <3>2. QED
      BY <3>1, <2>1, <2>2
  <2>6. ASSUME NEW st
        PROVE  /\ PhaseOf(c.phase, st) + PhaseOf(dd.phase, st) = PhaseOf(a.phase, st) + PhaseOf(b.phase, st)
               /\ st \in DOMAIN c.phase \/ st \in DOMAIN dd.phase
                    <=> st \in DOMAIN a.phase \/ st \in DOMAIN b.phase
    <3>1. /\ PhaseOf(cc.phase, st) + PhaseOf(d.phase, st) = PhaseOf(a.phase, st) + PhaseOf(b.phase, st)
          /\ st \in DOMAIN cc.phase \/ st \in DOMAIN d.phase
                    <=> st \in DOMAIN a.phase \/ st \in DOMAIN b.phase
      BY DEF Balanced, cc
    <3>2. /\ DOMAIN cc.phase = DOMAIN c.phase \cup DOMAIN r.phase
          /\ PhaseOf(cc.phase, st) = PhaseOf(c.phase, st) + PhaseOf(r.phase, st)
      <4>1. cc.phase = AddPhase(c.phase, r.phase)
        BY <2>1
      <4> DEFINE f == c.phase
                 g == r.phase
      <4>2. PhaseOf(f, st) \in Nat /\ PhaseOf(g, st) \in Nat /\ cc.phase = AddPhase(f, g)
        BY <4>1, <1>4
      <4> HIDE DEF f, g
      <4>3. /\ DOMAIN cc.phase = DOMAIN f \cup DOMAIN g
            /\ PhaseOf(cc.phase, st) = PhaseOf(f, st) + PhaseOf(g, st)
        BY <4>2, AddedPhases, ZenonT(30)
      <4>4. QED
        BY <4>3 DEF f, g
    <3>3. /\ DOMAIN dd.phase = DOMAIN d.phase \cup DOMAIN r.phase
          /\ PhaseOf(dd.phase, st) = PhaseOf(d.phase, st) + PhaseOf(r.phase, st)
      <4>1. dd.phase = AddPhase(d.phase, r.phase)
        BY <2>2
      <4> DEFINE f == d.phase
                 g == r.phase
      <4>2. PhaseOf(f, st) \in Nat /\ PhaseOf(g, st) \in Nat /\ dd.phase = AddPhase(f, g)
        BY <4>1, <1>4
      <4> HIDE DEF f, g
      <4>3. /\ DOMAIN dd.phase = DOMAIN f \cup DOMAIN g
            /\ PhaseOf(dd.phase, st) = PhaseOf(f, st) + PhaseOf(g, st)
        BY <4>2, AddedPhases, ZenonT(30)
      <4>4. QED
        BY <4>3 DEF f, g
    <3>4. PhaseOf(c.phase, st) + PhaseOf(dd.phase, st) = PhaseOf(a.phase, st) + PhaseOf(b.phase, st)
      BY <3>1, <3>2, <3>3, <1>4
    <3>5. QED
      BY <3>1, <3>2, <3>3, <3>4
  <2>7. QED
    BY <2>3, <2>4, <2>5, <2>6 DEF Balanced
<1>6. ASSUME ~r.ok PROVE Balanced(c, dd, a, b)
  <2>1. /\ cc.codes = Append(c.codes, r.code) /\ cc.cnt = c.cnt /\ cc.failed = c.failed + 1
        /\ cc.phase = c.phase /\ cc.tls = c.tls
        /\ cc.reason = (IF r.ptype = "http" /\ r.reason # "" /\ c.reason = "success"
                        THEN r.reason ELSE c.reason)
    BY <1>1, <1>6, AddedBad
  <2>2. /\ dd.codes = Append(d.codes, r.code) /\ dd.cnt = d.cnt /\ dd.failed = d.failed + 1
        /\ dd.phase = d.phase /\ dd.tls = d.tls
        /\ dd.reason = (IF r.ptype = "http" /\ r.reason # "" /\ d.reason = "success"
                        THEN r.reason ELSE d.reason)
    BY <1>1, <1>6, AddedBad
  <2> HIDE DEF cc, dd
  <2>3. c.cnt + dd.cnt = a.cnt + b.cnt /\ c.failed + dd.failed = a.failed + b.failed
    <3>1. cc.cnt + d.cnt = a.cnt + b.cnt /\ cc.failed + d.failed = a.failed + b.failed
      BY DEF Balanced, cc
    <3>2. c.cnt + dd.cnt = cc.cnt + d.cnt /\ c.failed + dd.failed = cc.failed + d.failed
      <4>1. /\ cc.cnt = c.cnt /\ dd.cnt = d.cnt
            /\ cc.failed = c.failed + 1 /\ dd.failed = d.failed + 1
        BY <2>1, <2>2
      <4>2. c.failed \in Nat /\ d.failed \in Nat
        BY <1>1
      <4>3. \A m, n \in Nat : m + (n + 1) = (m + 1) + n
        OBVIOUS
      <4>4. c.failed + (d.failed + 1) = (c.failed + 1) + d.failed
        BY <4>2, <4>3
      <4>5. QED
        BY <4>1, <4>4, Zenon
    <3>3. QED
      BY <3>1, <3>2, Zenon
  <2>4. SumSeq(c.codes) + SumSeq(dd.codes) = SumSeq(a.codes) + SumSeq(b.codes)
    <3>1. SumSeq(cc.codes) + SumSeq(d.codes) = SumSeq(a.codes) + SumSeq(b.codes)
      BY DEF Balanced, cc
    <3>2. SumSeq(c.codes) + SumSeq(dd.codes) = SumSeq(cc.codes) + SumSeq(d.codes)
      <4>1. /\ SumSeq(cc.codes) = SumSeq(c.codes) + r.code
            /\ SumSeq(dd.codes) = SumSeq(d.codes) + r.code
        BY <2>1, <2>2, <1>3, Zenon
      <4>2. SumSeq(c.codes) \in Nat /\ SumSeq(d.codes) \in Nat /\ r.code \in Nat
        BY <1>1, <1>2
      <4>3. \A m, n, k \in Nat : m + (n + k) = (m + k) + n
        OBVIOUS
      <4>4. SumSeq(c.codes) + (SumSeq(d.codes) + r.code) = (SumSeq(c.codes) + r.code) + SumSeq(d.codes)
        BY <4>2, <4>3
      <4>5. QED
        BY <4>1, <4>4, Zenon
    <3>3. QED
      BY <3>1, <3>2, Zenon
  <2>5. c.reason # "success" \/ dd.reason # "success" <=> a.reason # "success" \/ b.reason # "success"
    <3>1. cc.reason # "success" \/ d.reason # "success" <=> a.reason # "success" \/ b.reason # "success"
      BY DEF Balanced, cc
    <3>2. cc.reason # "success" <=> c.reason # "success" \/ (r.ptype = "http" /\ r.reason # "")
      BY <2>1, <1>2, Zenon
    <3>3. dd.reason # "success" <=> d.reason # "success" \/ (r.ptype = "http" /\ r.reason # "")
      BY <2>2, <1>2, Zenon
    <3>4. QED
      BY <3>1, <3>2, <3>3, Zenon
  <2>6. c.tls # NoTLS \/ dd.tls # NoTLS <=> a.tls # NoTLS \/ b.tls # NoTLS
    BY <2>1, <2>2 DEF Balanced, cc
  <2>7. ASSUME NEW st
        PROVE  /\ PhaseOf(c.phase, st) + PhaseOf(dd.phase, st) = PhaseOf(a.phase, st) + PhaseOf(b.phase, st)
               /\ st \in DOMAIN c.phase \/ st \in DOMAIN dd.phase
                    <=> st \in DOMAIN a.phase \/ st \in DOMAIN b.phase
    BY <2>1, <2>2 DEF Balanced, cc
  <2>8. QED
    BY <2>3, <2>4, <2>5, <2>6, <2>7 DEF Balanced
<1>7. QED
  BY <1>2, <1>5, <1>6

\* Every container, at any point of a history, is one of these.
LEMMA NumbersSoFar ==
    ASSUME NEW S, NEW q \in Seq(S), \A i \in DOMAIN q : IsResult(q[i]), NEW h, IsHistory(q, h)
    PROVE  \A i \in 0 .. Len(q) : \A x : Numbers(At(h[i], x))
<1> DEFINE n == Len(q)
           T == {i \in 0 .. n : \A x : Numbers(At(h[i], x))}
<1>1. n \in Nat /\ DOMAIN q = 1 .. n
  OBVIOUS
<1>2. Numbers(EmptyContainer)
  <2>1. /\ EmptyContainer.cnt = 0 /\ EmptyContainer.failed = 0 /\ EmptyContainer.phase = NoPhase
        /\ EmptyContainer.codes = <<>>
    BY DEF EmptyContainer
  <2>2. IsContainer(EmptyContainer)
    BY DEF IsContainer, EmptyContainer
  <2>3. NoPhase = [st \in DOMAIN NoPhase |-> NoPhase[st]] /\ \A st : PhaseOf(NoPhase, st) \in Nat
    BY DEF NoPhase, PhaseOf
  <2>4. SumSeq(<<>>) \in Nat /\ <<>> \in Seq(Nat)
    BY SumOfNone
  <2>5. QED
    BY <2>1, <2>2, <2>3, <2>4 DEF Numbers
<1>3. 0 \in T
  <2>1. \A x : At(h[0], x) = EmptyContainer
    BY DEF IsHistory, NoContainers, At
  <2>2. QED
    BY <1>1, <1>2, <2>1
<1>4. ASSUME NEW i \in 0 .. n - 1, i \in T PROVE i + 1 \in T
  <2>1. i + 1 \in 1 .. n /\ i + 1 - 1 = i /\ i + 1 \in 0 .. n
    BY <1>1
  <2> DEFINE r == q[i + 1]
  <2>2. IsResult(r) /\ h[i + 1] = Into(h[i], r)
    BY <1>1, <2>1 DEF IsHistory
  <2> HIDE DEF r
  <2>3. ASSUME NEW x PROVE Numbers(At(h[i + 1], x))
    <3>1. Numbers(At(h[i], x))
      BY <1>4
    <3>2. CASE x = Place(r)
      <4>1. At(h[i + 1], x) = Added(At(h[i], x), r)
        BY <2>2, <3>2, IntoAt
      <4>2. QED
        BY <2>2, <3>1, <4>1, AddedNumbers
    <3>3. CASE x # Place(r)
      <4>1. \A cs : At(Into(cs, r), x) = At(cs, x)
        BY <3>3, IntoAt
      <4>2. At(h[i + 1], x) = At(h[i], x)
        BY <2>2, <4>1
      <4>3. QED
        BY <3>1, <4>2
    <3>4. QED
      BY <3>2, <3>3
  <2>4. QED
    BY <2>1, <2>3
<1>5. \A i \in 0 .. n : i \in T
  <2> HIDE DEF T, n
  <2> QED BY <1>1, <1>3, <1>4, PrefixInduction
<1>6. QED
  BY <1>5

\* A queue backwards has the same results.
LEMMA Backwards ==
    ASSUME NEW S, NEW q \in Seq(S)
    PROVE  /\ Reverse(q) \in Seq(S) /\ Len(Reverse(q)) = Len(q)
           /\ \A i \in 1 .. Len(q) : Reverse(q)[i] = q[(Len(q) - i) + 1]
           /\ {q[i] : i \in 1 .. Len(q)} = {Reverse(q)[i] : i \in 1 .. Len(q)}
<1> DEFINE n == Len(q)
<1>1. n \in Nat /\ \A i \in 1 .. n : q[i] \in S /\ (n - i) + 1 \in 1 .. n
  OBVIOUS
<1>2. Reverse(q) = [i \in 1 .. n |-> q[(n - i) + 1]]
  BY DEF Reverse
<1>3. Reverse(q) \in [1 .. n -> S]
  BY <1>1, <1>2
<1>4. Reverse(q) \in Seq(S) /\ Len(Reverse(q)) = n
  BY <1>1, <1>3
<1>5. \A i \in 1 .. n : Reverse(q)[(n - i) + 1] = q[i]
  <2> SUFFICES ASSUME NEW i \in 1 .. n PROVE Reverse(q)[(n - i) + 1] = q[i]
    OBVIOUS
  <2>1. (n - i) + 1 \in 1 .. n /\ (n - ((n - i) + 1)) + 1 = i
    BY <1>1
  <2>2. QED
    BY <1>2, <2>1
<1>6. QED
  BY <1>1, <1>2, <1>4, <1>5

\* Going through the queue and going through it backwards, the last i results
\* may be in the one history or in the other: for i = Len(q) all of them are.
LEMMA BothWays ==
    ASSUME NEW S, NEW q \in Seq(S), \A i \in DOMAIN q : IsResult(q[i]),
           NEW h, IsHistory(q, h), NEW g, IsHistory(Reverse(q), g)
    PROVE  \A x : Balanced(EmptyContainer, At(g[Len(q)], x), At(h[Len(q)], x), EmptyContainer)
<1> DEFINE n == Len(q)
           p == Reverse(q)
           T == {i \in 0 .. n : \A x : Balanced(At(h[n - i], x), At(g[i], x), At(h[n], x), EmptyContainer)}
<1>1. n \in Nat /\ DOMAIN q = 1 .. n
  OBVIOUS
<1>2. p \in Seq(S) /\ Len(p) = n /\ DOMAIN p = 1 .. n /\ \A i \in 1 .. n : p[i] = q[(n - i) + 1]
  BY Backwards
<1>3. \A i \in DOMAIN p : IsResult(p[i])
  BY <1>1, <1>2
<1> HIDE DEF p
<1>4. \A i \in 0 .. n : \A x : Numbers(At(h[i], x))
  BY NumbersSoFar
<1>5. \A i \in 0 .. n : \A x : Numbers(At(g[i], x))
  BY <1>2, <1>3, NumbersSoFar DEF p
<1>6. 0 \in T
  <2>1. \A x : At(g[0], x) = EmptyContainer
    BY DEF IsHistory, NoContainers, At
  <2>2. \A c : Balanced(c, EmptyContainer, c, EmptyContainer)
    BY DEF Balanced
  <2>3. \A x : Balanced(At(h[n - 0], x), At(g[0], x), At(h[n], x), EmptyContainer)
    BY <1>1, <2>1, <2>2
  <2>4. QED
    BY <1>1, <2>3
<1>7. ASSUME NEW i \in 0 .. n - 1, i \in T PROVE i + 1 \in T
  <2>1. /\ i + 1 \in 1 .. n /\ i + 1 - 1 = i /\ i + 1 \in 0 .. n /\ i \in 0 .. n
        /\ n - i \in 1 .. n /\ n - (i + 1) \in 0 .. n /\ n - i - 1 = n - (i + 1)
        /\ (n - (i + 1)) + 1 = n - i
    BY <1>1
  <2> DEFINE r == q[n - i]
             hh == h[n - (i + 1)]
             gg == g[i]
  <2>2. IsResult(r) /\ h[n - i] = Into(hh, r)
    BY <1>1, <2>1 DEF IsHistory
  <2>3. g[i + 1] = Into(gg, r)
    <3>1. g[i + 1] = Into(g[i + 1 - 1], p[i + 1])
      BY <1>2, <2>1 DEF IsHistory, p
    <3>2. p[i + 1] = r
      BY <1>2, <2>1
    <3>3. QED
      BY <2>1, <3>1, <3>2
  <2>4. ASSUME NEW x PROVE Balanced(At(hh, x), At(g[i + 1], x), At(h[n], x), EmptyContainer)
    <3> DEFINE c == At(hh, x)
               d == At(gg, x)
               a == At(h[n], x)
    <3>1. Balanced(At(h[n - i], x), d, a, EmptyContainer)
      BY <1>7
    <3>2. Numbers(c) /\ Numbers(d)
      BY <1>4, <1>5, <2>1
    <3> HIDE DEF r, hh, gg
    <3>3. CASE x = Place(r)
      <4>1. At(h[n - i], x) = Added(c, r) /\ At(g[i + 1], x) = Added(d, r)
        BY <2>2, <2>3, <3>3, IntoAt
      <4> HIDE DEF c, d, a
      <4>2. Balanced(Added(c, r), d, a, EmptyContainer)
        BY <3>1, <4>1
      <4>3. Balanced(c, Added(d, r), a, EmptyContainer)
        BY <2>2, <3>2, <4>2, EitherSide
      <4>4. QED
        BY <4>1, <4>3 DEF c, a
    <3>4. CASE x # Place(r)
      <4>1. \A cs : At(Into(cs, r), x) = At(cs, x)
        BY <3>4, IntoAt
      <4>2. At(h[n - i], x) = c /\ At(g[i + 1], x) = d
        BY <2>2, <2>3, <4>1
      <4>3. QED
        BY <3>1, <4>2
    <3>5. QED
      BY <3>3, <3>4
  <2>5. QED
    BY <2>1, <2>4
<1>8. \A i \in 0 .. n : i \in T
  <2> HIDE DEF T, n
  <2> QED BY <1>1, <1>6, <1>7, PrefixInduction
<1>9. \A x : Balanced(At(h[n - n], x), At(g[n], x), At(h[n], x), EmptyContainer)
  BY <1>1, <1>8
<1>10. \A x : At(h[n - n], x) = EmptyContainer
  BY <1>1 DEF IsHistory, NoContainers, At
<1>11. QED
  BY <1>9, <1>10

\* Two containers that hold as much are the same but for the order.
LEMMA SameNumbers ==
    ASSUME NEW c, Numbers(c), NEW d, Numbers(d), Balanced(EmptyContainer, d, c, EmptyContainer)
    PROVE  Timeless(c) = Timeless(d)
<1> DEFINE e == EmptyContainer
<1>1. /\ e.cnt = 0 /\ e.failed = 0 /\ e.codes = <<>> /\ e.reason = "success" /\ e.tls = NoTLS
      /\ e.phase = NoPhase
  BY DEF EmptyContainer
<1>2. SumSeq(<<>>) = 0 /\ DOMAIN NoPhase = {} /\ \A st : PhaseOf(NoPhase, st) = 0
  BY SumOfNone DEF NoPhase, PhaseOf
<1> HIDE DEF e
<1>3. c.cnt = d.cnt /\ c.failed = d.failed
  <2>1. e.cnt + d.cnt = c.cnt + e.cnt /\ e.failed + d.failed = c.failed + e.failed
    BY DEF Balanced, e
  <2>2. c.cnt \in Nat /\ d.cnt \in Nat /\ c.failed \in Nat /\ d.failed \in Nat
    BY DEF Numbers
  <2>3. 0 + d.cnt = c.cnt + 0 /\ 0 + d.failed = c.failed + 0
    BY <1>1, <2>1
  <2>4. QED
    BY <2>2, <2>3
<1>4. SumSeq(c.codes) = SumSeq(d.codes)
  <2>1. SumSeq(e.codes) + SumSeq(d.codes) = SumSeq(c.codes) + SumSeq(e.codes)
    BY DEF Balanced, e
  <2>2. SumSeq(c.codes) \in Nat /\ SumSeq(d.codes) \in Nat
    BY DEF Numbers
  <2>3. 0 + SumSeq(d.codes) = SumSeq(c.codes) + 0
    BY <1>1, <1>2, <2>1
  <2>4. QED
    BY <2>2, <2>3
<1>5. (c.reason # "success") = (d.reason # "success")
  <2>1. e.reason # "success" \/ d.reason # "success" <=> c.reason # "success" \/ e.reason # "success"
    BY DEF Balanced, e
  <2>2. QED
    BY <1>1, <2>1
<1>6. (c.tls # NoTLS) = (d.tls # NoTLS)
  <2>1. e.tls # NoTLS \/ d.tls # NoTLS <=> c.tls # NoTLS \/ e.tls # NoTLS
    BY DEF Balanced, e
  <2>2. QED
    BY <1>1, <2>1
<1>7. c.phase = d.phase
  <2> DEFINE f == c.phase
             k == d.phase
  <2>1. /\ f = [st \in DOMAIN f |-> f[st]] /\ k = [st \in DOMAIN k |-> k[st]]
        /\ \A st : PhaseOf(f, st) \in Nat /\ PhaseOf(k, st) \in Nat
    BY DEF Numbers
  <2>2. \A st : /\ PhaseOf(e.phase, st) + PhaseOf(k, st) = PhaseOf(f, st) + PhaseOf(e.phase, st)
                /\ st \in DOMAIN e.phase \/ st \in DOMAIN k <=> st \in DOMAIN f \/ st \in DOMAIN e.phase
    BY DEF Balanced, e
  <2> HIDE DEF f, k
  <2>3. DOMAIN f = DOMAIN k
    BY <1>1, <1>2, <2>2
  <2>4. \A st : 0 + PhaseOf(k, st) = PhaseOf(f, st) + 0
    BY <1>1, <1>2, <2>2
  <2>5. \A st : PhaseOf(k, st) = PhaseOf(f, st)
    BY <2>1, <2>4
  <2>6. \A st \in DOMAIN f : f[st] = k[st]
    BY <2>3, <2>5 DEF PhaseOf
  <2>7. f = k
    BY <2>1, <2>3, <2>6
  <2>8. QED
    BY <2>7 DEF f, k
<1>8. QED
  BY <1>3, <1>4, <1>5, <1>6, <1>7 DEF Timeless

\* Aggregating the round backwards gives the same counts and sums, however many
\* results it has; only the reason and the certificate depend on which report
\* comes first (aggregator.go:196-211).
THEOREM AnyOrderAlways == Spec => []AnyOrder
<1>1. TypeOK => AnyOrder
  <2> SUFFICES ASSUME TypeOK PROVE AnyOrder
    OBVIOUS
  <2>1. queue \in Seq(Results) /\ section \in Sections
    BY DEF TypeOK
  <2>2. \A i \in DOMAIN queue : IsResult(queue[i])
    <3> SUFFICES ASSUME NEW i \in DOMAIN queue PROVE IsResult(queue[i])
      OBVIOUS
    <3>1. queue[i] \in Results
      BY <2>1
    <3>2. QED
      BY <2>1, <3>1, HttpResultIsResult, IcmpResultIsResult DEF Results
  <2> DEFINE n == Len(queue)
             p == Reverse(queue)
  <2>3. n \in Nat /\ DOMAIN queue = 1 .. n
    BY <2>1
  <2>4. /\ p \in Seq(Results) /\ Len(p) = n /\ DOMAIN p = 1 .. n
        /\ \A i \in 1 .. n : p[i] = queue[(n - i) + 1]
        /\ {queue[i] : i \in 1 .. n} = {p[i] : i \in 1 .. n}
    BY <2>1, Backwards
  <2>5. \A i \in DOMAIN p : IsResult(p[i])
    BY <2>2, <2>3, <2>4
  <2>6. PICK h : IsHistory(queue, h) /\ Containers(queue) = h[n]
    BY <2>1, ContainersHistory
  <2>7. PICK g : IsHistory(p, g) /\ Containers(p) = g[n]
    BY <2>4, ContainersHistory
  <2>8. \A x : Balanced(EmptyContainer, At(g[n], x), At(h[n], x), EmptyContainer)
    BY <2>1, <2>2, <2>6, <2>7, BothWays
  <2> HIDE DEF p
  <2>9. \A x : Numbers(At(h[n], x)) /\ Numbers(At(g[n], x))
    <3>1. n \in 0 .. n
      BY <2>3
    <3>2. \A x : Numbers(At(h[n], x))
      BY <2>1, <2>2, <2>6, <3>1, NumbersSoFar
    <3>3. \A x : Numbers(At(g[n], x))
      BY <2>4, <2>5, <2>7, <3>1, NumbersSoFar
    <3>4. QED
      BY <3>2, <3>3
  <2>10. \A x : Timeless(At(h[n], x)) = Timeless(At(g[n], x))
    BY <2>8, <2>9, SameNumbers
  <2>11. DOMAIN h[n] = DOMAIN g[n]
    <3>1. n \in 0 .. n
      BY <2>3
    <3>2. CountedTill(queue, h[n], n)
      BY <2>1, <2>2, <2>6, <3>1, CountedSoFar
    <3>3. CountedTill(p, g[n], n)
      BY <2>4, <2>5, <2>7, <3>1, CountedSoFar
    <3>4. /\ DOMAIN h[n] = {Place(queue[j]) : j \in 1 .. n}
          /\ DOMAIN g[n] = {Place(p[j]) : j \in 1 .. n}
      BY <3>2, <3>3 DEF CountedTill
    <3>5. QED
      BY <2>4, <3>4
  <2>12. \A x \in DOMAIN h[n] : h[n][x] = At(h[n], x) /\ g[n][x] = At(g[n], x)
    BY <2>11 DEF At
  <2>13. QED
    BY <2>6, <2>7, <2>10, <2>11, <2>12 DEF AnyOrder, p
<1>2. QED
  BY <1>1, TypeCorrect, PTL

-----------------------------------------------------------------------------
(***************************************************************************)
(* MetricHold: no series of a hold cache is leaked.  Together with         *)
(* HoldTypeOK, NoLeak is inductive: publishing puts the series in          *)
(* `writing', setCache moves it to `hold', a sweep moves it on to          *)
(* `evicted', and what leaves `evicted' leaves the registry.               *)
(***************************************************************************)
\* The registry, the cache and the janitor's list hold series only, and what
\* has expired is in the cache (aggregator.go, metric.go).
THEOREM HoldTypeCorrect == HoldSafeSpec => []HoldTypeOK
<1> USE SeriesAssumption
<1>1. HoldInit => HoldTypeOK
  BY DEF HoldInit, HoldTypeOK, Series
<1>2. HoldTypeOK /\ [HoldNext]_holdVars => HoldTypeOK'
  <2> SUFFICES ASSUME HoldTypeOK, [HoldNext]_holdVars PROVE HoldTypeOK'
    OBVIOUS
  <2>1. ASSUME NEW k \in Series, Change(k) PROVE HoldTypeOK'
    BY <2>1 DEF HoldTypeOK, Change
  <2>2. ASSUME NEW k \in Series, Publish(k) PROVE HoldTypeOK'
    BY <2>2 DEF HoldTypeOK, Publish
  <2>3. ASSUME NEW all \in SUBSET reported, Round(all) PROVE HoldTypeOK'
    BY <2>3 DEF HoldTypeOK, Round
  <2>4. CASE SetCache
    BY <2>4 DEF HoldTypeOK, SetCache
  <2>5. ASSUME NEW k \in Held, Expire(k) PROVE HoldTypeOK'
    BY <2>5 DEF HoldTypeOK, Expire
  <2>6. ASSUME NEW k \in Held, Clean(k) PROVE HoldTypeOK'
    BY <2>6 DEF HoldTypeOK, Clean
  <2>7. CASE Sweep
    BY <2>7 DEF HoldTypeOK, Sweep
  <2>8. CASE UNCHANGED holdVars
    BY <2>8 DEF HoldTypeOK, holdVars
  <2>9. QED
    BY <2>1, <2>2, <2>3, <2>4, <2>5, <2>6, <2>7, <2>8 DEF HoldNext
<1>3. QED
  BY <1>1, <1>2, PTL DEF HoldSafeSpec

\* Whatever publishing, expiry, sweeps and deletions do in between each other,
\* a held series in the registry is one the janitor will come to
\* (aggregator.go:47-101, 227-338).
THEOREM NoLeakAlways == HoldSafeSpec => []NoLeak
<1> USE SeriesAssumption
<1>1. HoldInit => NoLeak
  BY DEF HoldInit, NoLeak
<1>2. HoldTypeOK /\ NoLeak /\ [HoldNext]_holdVars => NoLeak'
  <2> SUFFICES ASSUME HoldTypeOK, NoLeak, [HoldNext]_holdVars PROVE NoLeak'
    OBVIOUS
  <2>1. ASSUME NEW k \in Series, Change(k) PROVE NoLeak'
    BY <2>1 DEF NoLeak, Change
  <2>2. ASSUME NEW k \in Series, Publish(k) PROVE NoLeak'
    BY <2>2 DEF NoLeak, Publish, Series
  <2>3. ASSUME NEW all \in SUBSET reported, Round(all) PROVE NoLeak'
    BY <2>3 DEF NoLeak, Round
  <2>4. CASE SetCache
    BY <2>4 DEF NoLeak, SetCache
  <2>5. ASSUME NEW k \in Held, Expire(k) PROVE NoLeak'
    BY <2>5 DEF NoLeak, Expire
  <2>6. ASSUME NEW k \in Held, Clean(k) PROVE NoLeak'
    BY <2>6 DEF NoLeak, Clean
  <2>7. CASE Sweep
    BY <2>7 DEF HoldTypeOK, NoLeak, Sweep
  <2>8. CASE UNCHANGED holdVars
    BY <2>8 DEF NoLeak, holdVars
  <2>9. QED
    BY <2>1, <2>2, <2>3, <2>4, <2>5, <2>6, <2>7, <2>8 DEF HoldNext
<1>3. QED
  BY <1>1, <1>2, HoldTypeCorrect, PTL DEF HoldSafeSpec
=============================================================================
