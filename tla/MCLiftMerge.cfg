CONSTANTS
    phone = phone
    tablet = tablet
    Devices = {phone, tablet}
    Initial <- MCInitial
    Values <- MCValues
    Addable <- MCAddable
    NewEntries <- MCNewEntries
    Recency <- MCRecency
    Theirs <- MCTheirs
    Clean <- Cleaned
    MergePair <- MergedPair
    Normalize <- Normalized
    HasMark <- MarkInside
    Changes <- ChangesOf
    Nodes <- NodesIn
    Unordered <- UnorderedOf
    MaxEdits = 3
SPECIFICATION MergeSpec
INVARIANT ConflictsShow
PROPERTIES
    NothingIsLost
    DeletesHold
    SidesAgree
    MergesSettle
SYMMETRY Symmetry
CHECK_DEADLOCK FALSE
