SPECIFICATION CardSpec
CONSTANT MaxStarts = 5
INVARIANT EachStartNewLog
CHECK_DEADLOCK FALSE
