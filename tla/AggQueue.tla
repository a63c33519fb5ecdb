------------------------------ MODULE AggQueue -------------------------------
(***************************************************************************)
(* The aggregator's queue, src/pkg/server/aggregator.go: RPC handlers      *)
(* append batches under a.m (Enqueue); the aggregation goroutine counts    *)
(* what is queued under a.m (agg) and empties the queue AFTER it released  *)
(* a.m: the deferred function unlocks, then calls reset.                   *)
(*                                                                         *)
(* reset therefore races with Enqueue's  a.queue = append(a.queue, reqs),  *)
(* which reads the slice header, builds the new one and writes it back.    *)
(* The header is two words here, the array and the length (the capacity    *)
(* only says whether append copies); each word is read and written at once *)
(* and the words of one access in either order, which is what the build    *)
(* may do with a racy access.                                              *)
(***************************************************************************)
EXTENDS Naturals, Sequences, FiniteSets

CONSTANTS
    Batches,        \* the batches, each enqueued once, by a handler of its own
    Agg, Free       \* other holders of a.m

ASSUME HolderAssumption == Agg \notin Batches /\ Free \notin Batches /\ Agg # Free

Words == {"arr", "len"}

VARIABLES
    arr,        \* a.queue's array: what its slots hold
    len,        \* a.queue's length
    lock,       \* a.m
    enq,        \* per handler: "new", "load", "store", "done"
    todo,       \* words the lock holder's current access has still to touch
    loaded,     \* Enqueue's copy of the header
    agg,        \* aggregation: "idle", "checked", "locked", "reset"
    wipe,       \* words reset has still to write
    count,      \* how often each batch was aggregated
    overlap,    \* history: an Enqueue ran while a reset was not finished
    raced,      \* history: the batches whose own Enqueue did
    corrupt     \* an access went beyond the array: anything may happen

enqVars == <<enq, todo, loaded>>
aggVars == <<agg, wipe, count>>
vars == <<arr, len, lock, enqVars, aggVars, overlap, raced, corrupt>>

TypeOK ==
    /\ arr \in Seq(Batches)
    /\ len \in Nat
    /\ lock \in Batches \cup {Agg, Free}
    /\ enq \in [Batches -> {"new", "load", "store", "done"}]
    /\ todo \subseteq Words
    /\ loaded \in [arr : Seq(Batches), len : Nat]
    /\ agg \in {"idle", "checked", "locked", "reset"}
    /\ wipe \subseteq Words
    /\ count \in [Batches -> Nat]
    /\ overlap \in BOOLEAN
    /\ raced \subseteq Batches
    /\ corrupt \in BOOLEAN
    \* a.m belongs to whoever is between its Lock and its Unlock
    /\ lock = Agg <=> agg = "locked"
    /\ \A b \in Batches : lock = b <=> enq[b] \in {"load", "store"}
    /\ wipe # {} <=> agg = "reset"

Init ==
    /\ arr = <<>> /\ len = 0
    /\ lock = Free
    /\ enq = [b \in Batches |-> "new"]
    /\ todo = {}
    /\ loaded = [arr |-> <<>>, len |-> 0]
    /\ agg = "idle"
    /\ wipe = {}
    /\ count = [b \in Batches |-> 0]
    /\ overlap = FALSE
    /\ raced = {}
    /\ corrupt = FALSE
-----------------------------------------------------------------------------
(***************************************************************************)
(* Enqueue                                                                 *)
(***************************************************************************)
EnqLock(b) ==
    /\ ~corrupt
    /\ enq[b] = "new"
    /\ lock = Free
    /\ lock' = b
    /\ enq' = [enq EXCEPT ![b] = "load"]
    /\ todo' = Words
    /\ overlap' = (overlap \/ wipe # {})
    /\ raced' = IF wipe # {} THEN raced \cup {b} ELSE raced
    /\ UNCHANGED <<arr, len, loaded, aggVars, corrupt>>

\* append reads one word of the header.
EnqLoad(b, w) ==
    /\ ~corrupt
    /\ enq[b] = "load"
    /\ w \in todo
    /\ todo' = todo \ {w}
    /\ loaded' = IF w = "arr" THEN [loaded EXCEPT !.arr = arr] ELSE [loaded EXCEPT !.len = len]
    /\ UNCHANGED <<arr, len, lock, enq, aggVars, overlap, raced, corrupt>>

\* append writes the batch behind the length it read; a length that is not
\* the array's own makes that a write to memory that is not the array's.
EnqAppend(b) ==
    /\ ~corrupt
    /\ enq[b] = "load"
    /\ todo = {}
    /\ IF loaded.len <= Len(loaded.arr)
       THEN /\ loaded' = [arr |-> Append(SubSeq(loaded.arr, 1, loaded.len), b),
                          len |-> loaded.len + 1]
            /\ corrupt' = FALSE
       ELSE /\ corrupt' = TRUE
            /\ UNCHANGED loaded
    /\ enq' = [enq EXCEPT ![b] = "store"]
    /\ todo' = Words
    /\ UNCHANGED <<arr, len, lock, aggVars, overlap, raced>>

EnqStore(b, w) ==
    /\ ~corrupt
    /\ enq[b] = "store"
    /\ w \in todo
    /\ todo' = todo \ {w}
    /\ IF w = "arr" THEN arr' = loaded.arr /\ UNCHANGED len
                    ELSE len' = loaded.len /\ UNCHANGED arr
    /\ UNCHANGED <<lock, enq, loaded, aggVars, overlap, raced, corrupt>>

EnqUnlock(b) ==
    /\ ~corrupt
    /\ enq[b] = "store"
    /\ todo = {}
    /\ lock' = Free
    /\ enq' = [enq EXCEPT ![b] = "done"]
    /\ UNCHANGED <<arr, len, todo, loaded, aggVars, overlap, raced, corrupt>>
-----------------------------------------------------------------------------
(***************************************************************************)
(* agg                                                                     *)
(***************************************************************************)
\* Mutant of AggCheck: a tick waits for more than one batch.
AggCheckMore ==
    /\ ~corrupt
    /\ agg = "idle"
    /\ len > 1
    /\ agg' = "checked"
    /\ UNCHANGED <<arr, len, lock, enqVars, wipe, count, overlap, raced, corrupt>>

\* The tick's first look at the queue, without the lock.
AggCheck ==
    /\ ~corrupt
    /\ agg = "idle"
    /\ len # 0
    /\ agg' = "checked"
    /\ UNCHANGED <<arr, len, lock, enqVars, wipe, count, overlap, raced, corrupt>>

AggLock ==
    /\ ~corrupt
    /\ agg = "checked"
    /\ lock = Free
    /\ lock' = Agg
    /\ agg' = "locked"
    /\ UNCHANGED <<arr, len, enqVars, wipe, count, overlap, raced, corrupt>>

\* How often the first n slots of an array hold batch b.
Times(s, n, b) == Cardinality({i \in 1 .. n : s[i] = b})

\* The loop over the queue and, in the deferred function, the unlock; what
\* reset has to write is still to come.
AggRun ==
    /\ ~corrupt
    /\ agg = "locked"
    /\ IF len <= Len(arr)
       THEN /\ count' = [b \in Batches |-> count[b] + Times(arr, len, b)]
            /\ corrupt' = FALSE
       ELSE /\ corrupt' = TRUE
            /\ UNCHANGED count
    /\ lock' = Free
    /\ agg' = "reset"
    /\ wipe' = Words
    /\ UNCHANGED <<arr, len, enqVars, overlap, raced>>

\* Mutant of ResetWord: reset is forgotten.
ResetNothing(w) ==
    /\ ~corrupt
    /\ w \in wipe
    /\ wipe' = wipe \ {w}
    /\ agg' = IF wipe' = {} THEN "idle" ELSE agg
    /\ UNCHANGED <<arr, len, lock, enqVars, count, overlap, raced, corrupt>>

\* reset writes one word of an empty slice's header. Whoever holds a.m now is
\* not held up by it.
ResetWord(w) ==
    /\ ~corrupt
    /\ w \in wipe
    /\ wipe' = wipe \ {w}
    /\ IF w = "arr" THEN arr' = <<>> /\ UNCHANGED len
                    ELSE len' = 0 /\ UNCHANGED arr
    /\ agg' = IF wipe' = {} THEN "idle" ELSE agg
    /\ UNCHANGED <<lock, enqVars, count, overlap, raced, corrupt>>

Next ==
    \/ \E b \in Batches :
        \/ EnqLock(b) \/ EnqAppend(b) \/ EnqUnlock(b)
        \/ \E w \in Words : EnqLoad(b, w) \/ EnqStore(b, w)
    \/ AggCheck \/ AggLock \/ AggRun
    \/ \E w \in Words : ResetWord(w)

\* Handlers that have the lock go on, the aggregation ticker ticks. Strong
\* fairness for AggLock: Go's mutex does not starve a waiter.
Fairness ==
    /\ \A b \in Batches :
        /\ WF_vars(EnqAppend(b)) /\ WF_vars(EnqUnlock(b))
        /\ \A w \in Words : WF_vars(EnqLoad(b, w)) /\ WF_vars(EnqStore(b, w))
    /\ WF_vars(AggCheck) /\ SF_vars(AggLock) /\ WF_vars(AggRun)
    /\ \A w \in Words : WF_vars(ResetWord(w))

SafeSpec == Init /\ [][Next]_vars
Spec == SafeSpec /\ Fairness
-----------------------------------------------------------------------------
(***************************************************************************)
(* Properties                                                              *)
(***************************************************************************)
\* Nobody is between two words of the header.
Quiet == lock = Free /\ wipe = {}

Queued(b) == \E i \in 1 .. len : arr[i] = b

\* As long as no Enqueue overlaps a reset, every batch that was accepted is
\* either queued or was aggregated, exactly once, and the header is sound:
\* the unlocked length check and the unlocked reset do no other harm.
ExactlyOnce ==
    ~overlap =>
        /\ ~corrupt
        /\ Quiet =>
            /\ len = Len(arr)
            /\ \A b \in Batches :
                /\ count[b] = (IF enq[b] = "done" /\ ~Queued(b) THEN 1 ELSE 0)
                /\ enq[b] # "done" => ~Queued(b)
                /\ \A i, j \in 1 .. len : arr[i] = b /\ arr[j] = b => i = j

\* A batch whose own Enqueue did not overlap a reset is aggregated in the end,
\* whatever other Enqueues did (or the queue's memory was damaged).
CleanCounted ==
    \A b \in Batches : (enq[b] = "done" /\ b \notin raced) ~> (count[b] > 0 \/ corrupt)

\* "number of reported points received by the server" (metric.go), counted by
\* agg: a batch the server took is queued or was counted.
TakenIsCounted ==
    ~corrupt /\ Quiet /\ len <= Len(arr) =>
        \A b \in Batches : enq[b] = "done" => Queued(b) \/ count[b] > 0
=============================================================================
