\* Two files, one run on them and a rollback of what it did beside it.
CONSTANTS
    Files = {f1, f2}
    Made <- MCMade
    Runs = {r1}
    Routes <- MCRoutes
    NoFile = NoFile
    MaxMutations = 4
    Rollbacks = {b1}
    Openings <- MCOpenings
SPECIFICATION Spec
INVARIANTS HistoryTells GovernedUnlessOvertaken BoundaryKept ReversedWasShownUnlessChanged
SYMMETRY Symmetry
CHECK_DEADLOCK FALSE
