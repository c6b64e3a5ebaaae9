\* Two requests that cross: one application, the target of one and the asker of
\* the other, may go, and so may the context with everything in it.
CONSTANTS
    left = left
    right = right
    crossing = crossing
    meeting = meeting
    Apps = {left, right}
    Requests = {crossing, meeting}
    Asker <- MCAsker
    Target <- MCTarget
    Nowhere = Nowhere
    Fragile = {right}
SPECIFICATION FairSpec
INVARIANTS RepliesAreTrue AnsweredOnce NeverTooFast
PROPERTIES ToldOfClosing AnsweredUnlessBroken
CHECK_DEADLOCK FALSE
