\* Two events, the second of which may be oversized, and one chunk of output:
\* every interleaving, under fair tasks and callers.
CONSTANTS
    MaxEvents = 2
    MaxChunks = 1
    Oversized = {2}
    Hello = Hello
    WrongToken = WrongToken
    Unreadable = Unreadable
SPECIFICATION FairSpec
INVARIANTS TypeOK AttachedTruth AnswerPutNeverBlocks EventsComplete ClosedMeansEnded
PROPERTIES EndedIsLeftAlone EveryoneIsTold CloseReturns
CHECK_DEADLOCK FALSE
