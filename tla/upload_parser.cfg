SPECIFICATION FairSpec
CONSTANT MaxParts = 3
CHECK_DEADLOCK FALSE
INVARIANTS SuccessIsComplete FilesKeptOrReported
PROPERTIES RequestEnds
