\* A declared file and an existing table on DuckDB, replaced.
CONSTANTS
    Files = {f1, f2}
    Batches = 2
    Jobs <- NativeJobs
    Loaders = {p1, p2}
    Overlapping = {}
    TerminatedAt <- OutsidePromotion
    NoTxn = NoTxn
SPECIFICATION Spec
INVARIANT ReplacedOrUnchanged
CHECK_DEADLOCK FALSE
