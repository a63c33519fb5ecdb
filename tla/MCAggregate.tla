---------------------------- MODULE MCAggregate ----------------------------
(* Eight sections of a file, twelve answers of a target, four outcomes of a ping. *)
EXTENDS Aggregate

Plain == [codes |-> Unset, versions |-> {}, noFollow |-> Unset, follow |-> TRUE,
          compression |-> "identity", failIfSSL |-> FALSE, failIfNotSSL |-> FALSE, limit |-> 0]
MCSections ==
    {NoSection,
     [Plain EXCEPT !.codes = {}, !.limit = 4],
     [Plain EXCEPT !.codes = {200, 301}, !.noFollow = TRUE, !.versions = {"1.1"},
                   !.failIfNotSSL = TRUE, !.limit = -1],
     [Plain EXCEPT !.noFollow = FALSE, !.follow = FALSE, !.compression = "gzip",
                   !.limit = MaxInt],
     [Plain EXCEPT !.codes = {200, 204, 301}, !.versions = {"2"}, !.failIfSSL = TRUE],
     [Plain EXCEPT !.codes = {200, 301}, !.noFollow = TRUE, !.compression = "br"],
     [Plain EXCEPT !.codes = {}, !.compression = "deflate", !.versions = {"1.1"}],
     [Plain EXCEPT !.compression = "lzma"]}

\* The fourth goes from https to http, the sixth from http to https, the seventh from
\* http over https to http.
Fine == [broken |-> "", code |-> 200, packed |-> {"gzip"}, version |-> "1.1", tls |-> TRUE,
         wasTLS |-> TRUE, viaTLS |-> FALSE, hops |-> 0, readable |-> TRUE, size |-> 4,
         time |-> 1, expiry |-> 7]
MCHttpSeen ==
    {Fine,
     [Fine EXCEPT !.time = 3, !.expiry = 5, !.size = 5, !.packed = {"br"}],
     [Fine EXCEPT !.code = 204, !.tls = FALSE, !.wasTLS = FALSE, !.packed = {"deflate"}],
     [Fine EXCEPT !.hops = 1, !.tls = FALSE, !.version = "2", !.packed = {}],
     [Fine EXCEPT !.tls = FALSE, !.wasTLS = FALSE, !.version = "2", !.time = 2],
     [Fine EXCEPT !.hops = 1, !.wasTLS = FALSE],
     [Fine EXCEPT !.hops = 2, !.wasTLS = FALSE, !.viaTLS = TRUE, !.tls = FALSE],
     [Fine EXCEPT !.hops = 11, !.code = 204],
     [Fine EXCEPT !.readable = FALSE],
     [Fine EXCEPT !.broken = "url", !.readable = FALSE],
     [Fine EXCEPT !.broken = "request", !.readable = FALSE],
     [Fine EXCEPT !.code = 404, !.packed = {}, !.expiry = 0]}

Ping == [pinged |-> TRUE, resolved |-> TRUE, time |-> 1, loss |-> 0]
MCIcmpSeen ==
    {Ping,
     [Ping EXCEPT !.time = 4, !.loss = 50],
     [Ping EXCEPT !.time = 0, !.loss = 100],
     [Ping EXCEPT !.pinged = FALSE, !.time = 2]}

MCKeys == {"ab", "ba"}
=============================================================================
