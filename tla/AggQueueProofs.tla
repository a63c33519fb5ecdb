--------------------------- MODULE AggQueueProofs ----------------------------
(***************************************************************************)
(* AggQueue for every set of batches: the queue loses and doubles nothing  *)
(* as long as no Enqueue overlaps a reset.                                 *)
(***************************************************************************)
EXTENDS AggQueue, FiniteSetTheorems, SequenceTheorems, TLAPS

USE HolderAssumption

\* The access paths of the header and the mutex are used as the code says.
THEOREM TypeCorrect == SafeSpec => []TypeOK
<1>1. Init => TypeOK
  <2>1. <<>> \in Seq(Batches)
    OBVIOUS
  <2>2. [arr |-> <<>>, len |-> 0] \in [arr : Seq(Batches), len : Nat]
    BY <2>1
  <2>3. QED
    BY <2>1, <2>2 DEF Init, TypeOK, Words
<1>2. TypeOK /\ [Next]_vars => TypeOK'
  <2> SUFFICES ASSUME TypeOK, [Next]_vars PROVE TypeOK'
    OBVIOUS
  <2> USE DEF TypeOK, Words, enqVars, aggVars
  <2>1. ASSUME NEW b \in Batches, EnqLock(b) PROVE TypeOK'
    BY <2>1 DEF EnqLock
  <2>2. ASSUME NEW b \in Batches, NEW w \in Words, EnqLoad(b, w) PROVE TypeOK'
    BY <2>2 DEF EnqLoad
  <2>3. ASSUME NEW b \in Batches, EnqAppend(b) PROVE TypeOK'
    <3>1. CASE loaded.len <= Len(loaded.arr)
      <4>1. SubSeq(loaded.arr, 1, loaded.len) \in Seq(Batches)
        <5>1. loaded.arr \in Seq(Batches) /\ loaded.len \in Nat
          OBVIOUS
        <5>2. \A i \in 1 .. loaded.len : loaded.arr[i] \in Batches
          BY <3>1, <5>1
        <5>3. QED
          BY <5>1, <5>2, SubSeqProperties
      <4>2. loaded' \in [arr : Seq(Batches), len : Nat]
        <5>1. Append(SubSeq(loaded.arr, 1, loaded.len), b) \in Seq(Batches) /\ loaded.len + 1 \in Nat
          BY <4>1
        <5>2. loaded' = [arr |-> Append(SubSeq(loaded.arr, 1, loaded.len), b), len |-> loaded.len + 1]
          BY <2>3, <3>1 DEF EnqAppend
        <5>3. QED
          BY ONLY <5>1, <5>2
      <4>3. QED
        BY <2>3, <3>1, <4>2 DEF EnqAppend
    <3>2. CASE ~(loaded.len <= Len(loaded.arr))
      BY <2>3, <3>2 DEF EnqAppend
    <3>3. QED
      BY <3>1, <3>2
  <2>4. ASSUME NEW b \in Batches, NEW w \in Words, EnqStore(b, w) PROVE TypeOK'
    BY <2>4 DEF EnqStore
  <2>5. ASSUME NEW b \in Batches, EnqUnlock(b) PROVE TypeOK'
    BY <2>5 DEF EnqUnlock
  <2>6. CASE AggCheck
    BY <2>6 DEF AggCheck
  <2>7. CASE AggLock
    BY <2>7 DEF AggLock
  <2>8. CASE AggRun
    <3>1. \A b \in Batches : Times(arr, len, b) \in Nat
      <4> SUFFICES ASSUME NEW b \in Batches PROVE Times(arr, len, b) \in Nat
        OBVIOUS
      <4>1. IsFiniteSet(1 .. len)
        BY FS_Interval
      <4>2. IsFiniteSet({i \in 1 .. len : arr[i] = b})
        BY <4>1, FS_Subset
      <4>3. QED
        BY <4>2, FS_CardinalityType DEF Times
    <3>2. count' \in [Batches -> Nat]
      BY <2>8, <3>1 DEF AggRun
    <3>3. QED
      BY <2>8, <3>2 DEF AggRun
  <2>9. ASSUME NEW w \in Words, ResetWord(w) PROVE TypeOK'
    <3>1. <<>> \in Seq(Batches)
      OBVIOUS
    <3>2. agg = "reset" /\ lock # Agg
      BY <2>9 DEF ResetWord
    <3>3. wipe' # {} <=> agg' = "reset"
      BY <2>9, <3>2 DEF ResetWord
    <3>4. agg' \in {"idle", "reset"} /\ wipe' \subseteq Words
      BY <2>9, <3>2 DEF ResetWord
    <3>5. arr' \in Seq(Batches) /\ len' \in Nat
      <4>1. (arr' = <<>> \/ arr' = arr) /\ (len' = 0 \/ len' = len)
        BY <2>9 DEF ResetWord
      <4>2. arr \in Seq(Batches) /\ len \in Nat /\ 0 \in Nat
        OBVIOUS
      <4>3. QED
        BY <4>1, <4>2, <3>1, Zenon
    <3>6. QED
      BY <2>9, <3>2, <3>3, <3>4, <3>5 DEF ResetWord
  <2>10. CASE UNCHANGED vars
    BY <2>10 DEF vars
  <2>11. QED
    BY <2>1, <2>2, <2>3, <2>4, <2>5, <2>6, <2>7, <2>8, <2>9, <2>10 DEF Next
<1>3. QED
  BY <1>1, <1>2, PTL DEF SafeSpec

-----------------------------------------------------------------------------
(***************************************************************************)
(* The inductive invariant                                                 *)
(***************************************************************************)
In(a, b) == \E i \in 1 .. Len(a) : a[i] = b

\* The batches in T are in the array a or were counted, exactly once; the
\* others are neither.
Accounts(a, T) ==
    /\ \A i, j \in 1 .. Len(a) : a[i] = a[j] => i = j
    /\ \A b \in Batches : count[b] = IF b \in T /\ ~In(a, b) THEN 1 ELSE 0
    /\ \A b \in Batches : b \notin T => ~In(a, b)

Taken == {b \in Batches : enq[b] = "done"}

Storing == lock \in Batches /\ enq[lock] = "store"

\* Who holds the lock has an up to date copy of what it loaded.
LoadedInv ==
    wipe = {} /\ lock \in Batches /\ enq[lock] = "load" =>
        /\ "arr" \notin todo => loaded.arr = arr
        /\ "len" \notin todo => loaded.len = len

\* Nobody writes: the header is sound and accounts for what was taken.
RestInv ==
    wipe = {} /\ ~Storing => len = Len(arr) /\ Accounts(arr, Taken)

\* An Enqueue writes the header: what it writes accounts for its own batch too.
StoreInv ==
    wipe = {} /\ Storing =>
        /\ loaded.len = Len(loaded.arr)
        /\ Accounts(loaded.arr, Taken \cup {lock})
        /\ "arr" \notin todo => arr = loaded.arr
        /\ "len" \notin todo => len = loaded.len

\* reset writes the header: everything taken was counted.
WipeInv ==
    wipe # {} =>
        /\ lock = Free
        /\ "arr" \notin wipe => arr = <<>>
        /\ "len" \notin wipe => len = 0
        /\ Accounts(<<>>, Taken)

IInv == ~overlap => ~corrupt /\ LoadedInv /\ RestInv /\ StoreInv /\ WipeInv

LEMMA AccountsAppend ==
    ASSUME NEW a \in Seq(Batches), NEW T, NEW b \in Batches, b \notin T, Accounts(a, T)
    PROVE  Accounts(Append(a, b), T \cup {b})
<1> DEFINE c == Append(a, b)
<1>1. Len(c) = Len(a) + 1 /\ c[Len(a) + 1] = b /\ \A i \in 1 .. Len(a) : c[i] = a[i]
  OBVIOUS
<1>2. \A x \in Batches : In(c, x) <=> In(a, x) \/ x = b
  BY <1>1 DEF In
<1>3. ~In(a, b)
  BY DEF Accounts
<1>4. \A i, j \in 1 .. Len(c) : c[i] = c[j] => i = j
  <2> SUFFICES ASSUME NEW i \in 1 .. Len(c), NEW j \in 1 .. Len(c), c[i] = c[j]
               PROVE  i = j
    OBVIOUS
  <2>1. CASE i \in 1 .. Len(a) /\ j \in 1 .. Len(a)
    BY <1>1, <2>1 DEF Accounts
  <2>2. CASE i = Len(a) + 1 \/ j = Len(a) + 1
    BY <1>1, <1>3, <2>2 DEF In
  <2>3. QED
    BY <1>1, <2>1, <2>2
<1>5. QED
  BY <1>2, <1>3, <1>4 DEF Accounts

\* What one aggregation adds: everything queued, once.
LEMMA AccountsCounted ==
    ASSUME NEW a \in Seq(Batches), NEW T, Accounts(a, T)
    PROVE  \A b \in Batches : count[b] + Times(a, Len(a), b) = IF b \in T THEN 1 ELSE 0
<1> SUFFICES ASSUME NEW b \in Batches
             PROVE  count[b] + Times(a, Len(a), b) = IF b \in T THEN 1 ELSE 0
  OBVIOUS
<1> DEFINE S == {i \in 1 .. Len(a) : a[i] = b}
<1>1. CASE In(a, b)
  <2>1. PICK i \in 1 .. Len(a) : a[i] = b
    BY <1>1 DEF In
  <2>2. S = {i}
    BY <2>1 DEF Accounts
  <2>3. Cardinality(S) = 1
    BY <2>2, FS_Singleton
  <2>4. count[b] = 0 /\ b \in T
    BY <1>1 DEF Accounts
  <2>5. QED
    BY <2>3, <2>4 DEF Times
<1>2. CASE ~In(a, b)
  <2>1. S = {}
    BY <1>2 DEF In
  <2>2. Cardinality(S) = 0
    BY <2>1, FS_EmptySet
  <2>3. count[b] = IF b \in T THEN 1 ELSE 0
    BY <1>2 DEF Accounts
  <2>4. QED
    BY <2>2, <2>3 DEF Times
<1>3. QED
  BY <1>1, <1>2

\* As long as no Enqueue overlaps a reset, no batch is lost and none is
\* aggregated twice, for any number of handlers and any interleaving.
THEOREM ExactlyOnceAlways == SafeSpec => []ExactlyOnce
<1>1. Init => IInv
  BY DEF Init, IInv, LoadedInv, RestInv, StoreInv, WipeInv, Storing, Accounts, In, Taken
<1>2. TypeOK /\ TypeOK' /\ IInv /\ [Next]_vars => IInv'
  <2> SUFFICES ASSUME TypeOK, TypeOK', IInv, [Next]_vars, ~overlap' PROVE IInv'
    BY DEF IInv
  <2>0. ~overlap /\ ~corrupt /\ LoadedInv /\ RestInv /\ StoreInv /\ WipeInv
    <3>1. overlap' = overlap \/ overlap' = (overlap \/ wipe # {})
      BY DEF Next, EnqLock, EnqLoad, EnqAppend, EnqStore, EnqUnlock, AggCheck, AggLock,
             AggRun, ResetWord, vars
    <3>2. ~overlap
      BY <3>1, Zenon
    <3>3. QED
      BY <3>2 DEF IInv
  <2>1. ASSUME NEW b \in Batches, EnqLock(b) PROVE IInv'
    <3>1. wipe = {} /\ wipe' = {} /\ UNCHANGED <<arr, len, count>> /\ Taken' = Taken
      BY <2>1 DEF EnqLock, TypeOK, Taken, aggVars
    <3>2. ~Storing /\ ~Storing'
      BY <2>1 DEF EnqLock, Storing, TypeOK
    <3>3. RestInv'
      BY <2>0, <3>1, <3>2 DEF RestInv, Accounts
    <3>4. LoadedInv' /\ StoreInv' /\ WipeInv'
      BY <2>1, <3>1, <3>2 DEF EnqLock, LoadedInv, StoreInv, WipeInv, Words
    <3>5. QED
      BY <2>0, <2>1, <3>3, <3>4 DEF IInv, EnqLock
  <2>2. ASSUME NEW b \in Batches, NEW w \in Words, EnqLoad(b, w) PROVE IInv'
    <3>1. lock = b /\ wipe = {} /\ ~Storing /\ ~Storing' /\ Taken' = Taken
      BY <2>0, <2>2 DEF EnqLoad, TypeOK, Storing, Taken, WipeInv, aggVars
    <3>2. RestInv'
      BY <2>0, <2>2, <3>1 DEF EnqLoad, RestInv, Accounts, aggVars
    <3>3. LoadedInv'
      BY <2>0, <2>2, <3>1 DEF EnqLoad, LoadedInv, TypeOK, Words, aggVars
    <3>4. QED
      BY <2>0, <2>2, <3>1, <3>2, <3>3 DEF IInv, EnqLoad, StoreInv, WipeInv, aggVars
  <2>3. ASSUME NEW b \in Batches, EnqAppend(b) PROVE IInv'
    <3>1. lock = b /\ wipe = {} /\ ~Storing /\ Storing' /\ Taken' = Taken /\ lock' = b /\ wipe' = {}
      BY <2>0, <2>3 DEF EnqAppend, TypeOK, Storing, Taken, WipeInv, aggVars
    <3>2. loaded.arr = arr /\ loaded.len = len /\ len = Len(arr) /\ Accounts(arr, Taken)
      BY <2>0, <2>3, <3>1 DEF LoadedInv, RestInv, EnqAppend
    <3>3. SubSeq(arr, 1, len) = arr /\ arr \in Seq(Batches) /\ b \notin Taken
      <4>1. arr \in Seq(Batches) /\ b \notin Taken
        BY <2>3 DEF TypeOK, EnqAppend, Taken
      <4>2. SubSeq(arr, 1, Len(arr)) = arr
        BY <4>1, SubSeqFull
      <4>3. QED
        BY <3>2, <4>1, <4>2
    <3>4. loaded' = [arr |-> Append(arr, b), len |-> len + 1] /\ ~corrupt'
      <4>1. loaded.len <= Len(loaded.arr)
        BY <3>2 DEF TypeOK
      <4>2. /\ loaded' = [arr |-> Append(SubSeq(loaded.arr, 1, loaded.len), b), len |-> loaded.len + 1]
            /\ corrupt' = FALSE
        BY <2>3, <4>1 DEF EnqAppend
      <4>3. QED
        BY <3>2, <3>3, <4>2
    <3>5. Accounts(Append(arr, b), Taken \cup {b})
      BY <3>2, <3>3, AccountsAppend
    <3>6. Accounts(loaded.arr, Taken \cup {lock})'
      BY <2>3, <3>1, <3>4, <3>5 DEF EnqAppend, Accounts, In, aggVars
    <3>7. StoreInv'
      BY <2>3, <3>1, <3>2, <3>3, <3>4, <3>6 DEF StoreInv, EnqAppend, Words
    <3>8. QED
      BY <2>0, <3>1, <3>4, <3>7 DEF IInv, LoadedInv, RestInv, WipeInv, Storing
  <2>4. ASSUME NEW b \in Batches, NEW w \in Words, EnqStore(b, w) PROVE IInv'
    <3>1. lock = b /\ wipe = {} /\ Storing /\ Storing' /\ Taken' = Taken
      BY <2>0, <2>4 DEF EnqStore, TypeOK, Storing, Taken, WipeInv, aggVars
    <3>2. StoreInv'
      BY <2>0, <2>4, <3>1 DEF EnqStore, StoreInv, Accounts, Words, aggVars
    <3>3. QED
      BY <2>0, <2>4, <3>1, <3>2 DEF IInv, EnqStore, LoadedInv, RestInv, WipeInv, Storing, aggVars
  <2>5. ASSUME NEW b \in Batches, EnqUnlock(b) PROVE IInv'
    <3>1. lock = b /\ wipe = {} /\ Storing /\ ~Storing' /\ Taken' = Taken \cup {b} /\ wipe' = {}
      BY <2>0, <2>5 DEF EnqUnlock, TypeOK, Storing, Taken, WipeInv, aggVars
    <3>2. arr = loaded.arr /\ len = loaded.len /\ loaded.len = Len(loaded.arr)
          /\ Accounts(arr, Taken \cup {b})
      BY <2>0, <2>5, <3>1 DEF StoreInv, EnqUnlock
    <3>3. RestInv'
      BY <2>5, <3>1, <3>2 DEF RestInv, EnqUnlock, Accounts, aggVars
    <3>4. QED
      BY <2>0, <2>5, <3>1, <3>3 DEF IInv, EnqUnlock, LoadedInv, StoreInv, WipeInv
  <2>6. CASE AggCheck
    BY <2>0, <2>6 DEF AggCheck, IInv, LoadedInv, RestInv, StoreInv, WipeInv, Storing, Taken,
       Accounts, enqVars
  <2>7. CASE AggLock
    <3>1. wipe = {} /\ ~Storing /\ ~Storing'
      BY <2>7 DEF AggLock, TypeOK, Storing
    <3>2. QED
      BY <2>0, <2>7, <3>1 DEF AggLock, IInv, LoadedInv, RestInv, StoreInv, WipeInv, Taken,
         Accounts, enqVars
  <2>8. CASE AggRun
    <3>1. wipe = {} /\ lock = Agg /\ ~Storing /\ Taken' = Taken
      BY <2>8 DEF AggRun, TypeOK, Storing, Taken, enqVars
    <3>2. len = Len(arr) /\ Accounts(arr, Taken) /\ arr \in Seq(Batches)
      BY <2>0, <3>1 DEF RestInv, TypeOK
    <3>3. \A b \in Batches : count'[b] = IF b \in Taken THEN 1 ELSE 0
      BY <2>8, <3>2, AccountsCounted DEF AggRun, TypeOK
    <3>4. Accounts(<<>>, Taken)'
      BY <3>1, <3>3 DEF Accounts, In
    <3>5. WipeInv'
      BY <2>8, <3>4 DEF WipeInv, AggRun, Words
    <3>6. lock' = Free /\ wipe' # {} /\ ~corrupt'
      BY <2>8, <3>2 DEF AggRun, Words, TypeOK
    <3>7. QED
      BY <3>5, <3>6 DEF IInv, LoadedInv, RestInv, StoreInv, Storing
  <2>9. ASSUME NEW w \in Words, ResetWord(w) PROVE IInv'
    <3>1. lock = Free /\ lock' = Free /\ ~Storing' /\ Taken' = Taken /\ wipe # {}
      BY <2>0, <2>9 DEF ResetWord, WipeInv, Storing, Taken, enqVars
    <3>2. Accounts(<<>>, Taken)'
      BY <2>0, <2>9, <3>1 DEF WipeInv, ResetWord, Accounts
    <3>3. /\ "arr" \notin wipe' => arr' = <<>>
          /\ "len" \notin wipe' => len' = 0
      BY <2>0, <2>9, <3>1 DEF WipeInv, ResetWord, Words
    <3>4. RestInv'
      BY <3>1, <3>2, <3>3 DEF RestInv
    <3>5. QED
      BY <2>0, <2>9, <3>1, <3>2, <3>3, <3>4 DEF IInv, ResetWord, LoadedInv, StoreInv, WipeInv
  <2>10. CASE UNCHANGED vars
    BY <2>0, <2>10 DEF vars, enqVars, aggVars, IInv, LoadedInv, RestInv, StoreInv, WipeInv,
       Storing, Taken, Accounts
  <2>11. QED
    BY <2>1, <2>2, <2>3, <2>4, <2>5, <2>6, <2>7, <2>8, <2>9, <2>10 DEF Next
<1>3. TypeOK /\ IInv => ExactlyOnce
  <2> SUFFICES ASSUME TypeOK, IInv, ~overlap PROVE ExactlyOnce
    BY DEF ExactlyOnce
  <2>1. ASSUME Quiet
        PROVE  len = Len(arr) /\ Accounts(arr, Taken)
    BY <2>1 DEF Quiet, IInv, RestInv, Storing
  <2>2. ASSUME Quiet, NEW b \in Batches PROVE Queued(b) <=> In(arr, b)
    BY <2>1, <2>2 DEF Queued, In
  <2>3. ASSUME Quiet, NEW b \in Batches
        PROVE  /\ count[b] = (IF enq[b] = "done" /\ ~Queued(b) THEN 1 ELSE 0)
               /\ enq[b] # "done" => ~Queued(b)
               /\ \A i, j \in 1 .. len : arr[i] = b /\ arr[j] = b => i = j
    BY <2>1, <2>2, <2>3 DEF Accounts, Taken
  <2>4. QED
    BY <2>1, <2>3 DEF IInv, ExactlyOnce
<1>4. QED
  BY <1>1, <1>2, <1>3, TypeCorrect, PTL DEF SafeSpec
=============================================================================
