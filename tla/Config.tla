-------------------------------- MODULE Config --------------------------------
(***************************************************************************)
(* An http entry of the configuration file and what the agents are given   *)
(* for it: the UnmarshalYAML functions of config.go with their defaults.   *)
(* A section of the file is a record; codes and noFollow that it does not  *)
(* give are Unset.  compression is an algorithm's name in lower case;      *)
(* without one it is "identity", which is as much as none.  Left out are   *)
(* method, body, headers and patterns.                                     *)
(***************************************************************************)
EXTENDS Integers

CONSTANTS
    NoSection,  \* an entry without an http section
    Unset,
    MaxInt      \* math.MaxInt64, of integers counted modulo 2 * (MaxInt + 1)

\* defaultHttpProbe.
DefaultHttpProbe ==
    [codes |-> {200}, versions |-> {}, follow |-> TRUE, compression |-> "identity",
     failIfSSL |-> FALSE, failIfNotSSL |-> FALSE, limit |-> 0]

\* Mutant of HttpConf: the newer of the two redirect options wins.
HttpConfNewer(section) ==
    IF section = NoSection THEN DefaultHttpProbe
    ELSE [section EXCEPT
            !.codes = IF @ = Unset THEN DefaultHttpProbe.codes ELSE @,
            !.limit = IF @ < 0 \/ @ = MaxInt THEN MaxInt - 1 ELSE @]

\* The section is decoded over a copy of the default, so that status codes not
\* given are {200}, and codes given as an empty list mean any 2xx. The older
\* no_follow_redirects wins over follow_redirects of http_client_config. A limit
\* below 0, or one that MaxBytesReader could not add 1 to, is the largest sound one.
HttpConf(section) ==
    IF section = NoSection THEN DefaultHttpProbe
    ELSE [section EXCEPT
            !.codes = IF @ = Unset THEN DefaultHttpProbe.codes ELSE @,
            !.follow = IF section.noFollow = Unset THEN @ ELSE ~section.noFollow,
            !.limit = IF @ < 0 \/ @ = MaxInt THEN MaxInt - 1 ELSE @]
===============================================================================
