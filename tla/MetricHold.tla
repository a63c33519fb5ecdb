----------------------------- MODULE MetricHold -----------------------------
(***************************************************************************)
(* How long a gauge of a probe stays exposed (aggregator.go).  dotHTTP and *)
(* dotICMP set a series and then enter its labels in a go-cache (setCache); *)
(* the cache's janitor sweeps the entries whose lifetime is over and, after *)
(* the sweep, calls clean for each of them, which deletes the series.  The *)
(* registry, the cache and the publisher share no lock, so a series may be *)
(* published again between the sweep and its deletion.                     *)
(*                                                                         *)
(* A series is a metric with its label values; the failure reason is one   *)
(* of them, so a target whose failure changes leaves one series for        *)
(* another.                                                                *)
(***************************************************************************)
EXTENDS Naturals

CONSTANTS
    Held,           \* series entered in a hold cache
    Unheld,         \* series that are not: loss rate, jitter, the icmp histogram
    None            \* no series

ASSUME SeriesAssumption == Held \cap Unheld = {} /\ None \notin Held \cup Unheld

Series == Held \cup Unheld

VARIABLES
    reported,       \* series the agents' reports still give rise to
    todo,           \* series of the round being published, not yet set
    writing,        \* the series set whose setCache is still to come, or None
    exposed,        \* series in the registry
    hold,           \* entries of the hold caches
    expired,        \* those whose lifetime is over
    evicted         \* swept by the janitor, clean still to run

holdVars == <<reported, todo, writing, exposed, hold, expired, evicted>>

HoldTypeOK ==
    /\ reported \subseteq Series
    /\ todo \subseteq Series
    /\ writing \in Held \cup {None}
    /\ exposed \subseteq Series
    /\ hold \subseteq Held
    /\ expired \subseteq hold
    /\ evicted \subseteq Held

HoldInit ==
    /\ reported \in SUBSET Series
    /\ todo = {} /\ writing = None
    /\ exposed = {}
    /\ hold = {} /\ expired = {} /\ evicted = {}
-----------------------------------------------------------------------------
(***************************************************************************)
(* The agents: what they report changes                                    *)
(***************************************************************************)
\* An agent, a target or a failure reason goes or comes.
Change(k) ==
    /\ reported' = IF k \in reported THEN reported \ {k} ELSE reported \cup {k}
    /\ UNCHANGED <<todo, writing, exposed, hold, expired, evicted>>
-----------------------------------------------------------------------------
(***************************************************************************)
(* The aggregation goroutine                                               *)
(***************************************************************************)
\* A round of agg: its queue holds results for some of what is reported.
Round(batch) ==
    /\ todo = {} /\ writing = None
    /\ batch # {} /\ batch \subseteq reported
    /\ todo' = batch
    /\ UNCHANGED <<reported, writing, exposed, hold, expired, evicted>>

\* Mutants of Publish: a series that has an entry is taken for exposed; a series
\* is not entered in the cache.
PublishUnlessHeld(k) ==
    /\ k \in todo /\ writing = None
    /\ exposed' = IF k \in hold THEN exposed ELSE exposed \cup {k}
    /\ todo' = todo \ {k}
    /\ writing' = IF k \in Held THEN k ELSE None
    /\ UNCHANGED <<reported, hold, expired, evicted>>

PublishUnentered(k) ==
    /\ k \in todo /\ writing = None
    /\ exposed' = exposed \cup {k}
    /\ todo' = todo \ {k}
    /\ UNCHANGED <<reported, writing, hold, expired, evicted>>

\* WithLabelValues(..).Set of one series, in the order of a map.
Publish(k) ==
    /\ k \in todo /\ writing = None
    /\ exposed' = exposed \cup {k}
    /\ todo' = todo \ {k}
    /\ writing' = IF k \in Held THEN k ELSE None
    /\ UNCHANGED <<reported, hold, expired, evicted>>

\* setCache: SetDefault renews the lifetime of an entry that is there.
SetCache ==
    /\ writing # None
    /\ hold' = hold \cup {writing}
    /\ expired' = expired \ {writing}
    /\ writing' = None
    /\ UNCHANGED <<reported, todo, exposed, evicted>>
-----------------------------------------------------------------------------
(***************************************************************************)
(* The hold cache                                                          *)
(***************************************************************************)
\* ratio * interval since the last setCache.
Expire(k) ==
    /\ k \in hold \ expired
    /\ expired' = expired \cup {k}
    /\ UNCHANGED <<reported, todo, writing, exposed, hold, evicted>>

\* The janitor's DeleteExpired, one critical section of the cache; it sweeps
\* again only when the callbacks, which it runs itself, are done.
Sweep ==
    /\ expired # {} /\ evicted = {}
    /\ evicted' = expired
    /\ hold' = hold \ expired
    /\ expired' = {}
    /\ UNCHANGED <<reported, todo, writing, exposed>>

\* Mutant of Clean: labels in another order, which delete nothing.
CleanMisses(k) ==
    /\ k \in evicted
    /\ evicted' = evicted \ {k}
    /\ UNCHANGED <<reported, todo, writing, exposed, hold, expired>>

\* clean: DeleteLabelValues, whatever has happened to the series meanwhile.
Clean(k) ==
    /\ k \in evicted
    /\ evicted' = evicted \ {k}
    /\ exposed' = exposed \ {k}
    /\ UNCHANGED <<reported, todo, writing, hold, expired>>
-----------------------------------------------------------------------------
HoldNext ==
    \/ \E k \in Series : Change(k) \/ Publish(k)
    \/ \E batch \in SUBSET reported : Round(batch)
    \/ SetCache
    \/ \E k \in Held : Expire(k) \/ Clean(k)
    \/ Sweep

HoldSafeSpec == HoldInit /\ [][HoldNext]_holdVars

(***************************************************************************)
(* The aggregation goroutine goes on with the round it is in; an entry not  *)
(* renewed for good expires, one that is renewed again and again need not;  *)
(* the janitor sweeps and finishes its callbacks.  Rounds are not promised: *)
(* without reports agg returns at once.                                     *)
(***************************************************************************)
HoldFairness ==
    /\ \A k \in Series : WF_holdVars(Publish(k))
    /\ WF_holdVars(SetCache)
    /\ \A k \in Held : WF_holdVars(Expire(k) \/ (writing = k /\ SetCache))
    /\ \A k \in Held : WF_holdVars(Clean(k))
    /\ WF_holdVars(Sweep)

HoldSpec == HoldSafeSpec /\ HoldFairness
-----------------------------------------------------------------------------
(***************************************************************************)
(* Properties                                                              *)
(***************************************************************************)
\* No exposed series is out of the janitor's reach: a held series in the
\* registry has an entry, or a callback of the last sweep to come, or is just
\* being entered, however publishing and sweeping interleave
\* (aggregator.go:268-271, the cache is there so that no old series stays).
NoLeak ==
    \A k \in exposed \cap Held : k \in hold \cup evicted \cup {writing}

\* A held series nothing is reported of any more is deleted for good
\* (metric.go:15-72, "agent下线后历史series需要删除").
SilentRemoved ==
    \A k \in Held : <>[](k \notin reported) => <>[](k \notin exposed)

\* A series published again and again, and in time, is exposed for good, even
\* when the sweep before caught it and deleted it under the publisher
\* (aggregator.go:81, "防止边界情况下拉取时被删除导致拉取不到正常上报数据").
LiveShown ==
    \A k \in Held :
        ([]<>(k \in todo) /\ <>[](k \notin expired)) => <>[](k \in exposed)
=============================================================================
