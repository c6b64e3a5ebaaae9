\* One process, two directions of a workflow of three steps.
CONSTANTS
    NoRecord = NoRecord
    NoRun = NoRun
    NoThread = NoThread
    Root = Root
    NoStep = NoStep
    Steps = {1, 2, 3}
    Processes = {"A", "B"}
    ProcessOf <- MCProcessOf
    Identifiers = {"second", "third", "twice"}
    Rules <- MCRules
    Requests <- MCRequests
    Means <- MCMeans
    Main = Main
    AppLog = AppLog
    MaxDirections = 2
    MaxFaults = 2
SPECIFICATION MCSpec
INVARIANTS ScopesUndone OutcomeIsTrue NothingOutsideTheRequest RecordsUnderTheirStep ShownIsThisDirections NothingLeftOpen
PROPERTY ImplementsOrderedRelease
CHECK_DEADLOCK FALSE
