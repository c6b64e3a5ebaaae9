\* Two files in two batches each; two processes, side by side when they add,
\* in turn when they replace; every provider.
CONSTANTS
    Files = {f1, f2}
    Batches = 2
    Jobs <- MCJobs
    Loaders = {p1, p2}
    Overlapping = {"append"}
    TerminatedAt <- OutsidePromotion
    NoTxn = NoTxn
SPECIFICATION Spec
INVARIANTS RowsAreReported NothingHeldAtRest
PROPERTIES ImplementsWholeLoads
SYMMETRY Symmetry
CHECK_DEADLOCK FALSE
