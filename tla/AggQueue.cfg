SPECIFICATION Spec
CONSTANTS
    Batches = {b1, b2, b3}
    Agg = Agg
    Free = Free
INVARIANTS
    ExactlyOnce
PROPERTIES
    CleanCounted
\* every batch enqueued and aggregated, or the memory damaged: the model stops
CHECK_DEADLOCK FALSE
