---------------------------- MODULE MCMetricHold ----------------------------
(* Two series held, one not: enough for a sweep to hold one's callback while *)
(* the other is published.                                                   *)
EXTENDS MetricHold
=============================================================================
