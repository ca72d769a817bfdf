CONSTANTS
    MaxVersion = 3
    MaxRows = 1
    Kinds = {"cut", "undo", "click"}
    MaxFaults = 2
    Good = {1, 2}
    Request = {r1, r2}
    Nothing = Nothing
    Partial = Partial
SPECIFICATION FairSpec
CHECK_DEADLOCK FALSE
INVARIANTS MatchedPair CodeSurvives
PROPERTIES UndoSparesRows SuccessServes MarkerConsumed
