CONSTANTS
    MaxAttempts = 2
    MaxEvents = 2
    JudgeEnabled = TRUE
    EvalEnabled = TRUE
    NoRow = NoRow
    Traces = {a, b}
    Workers = {w1, w2}
    MaxLen = 1
    DlqMaxLen = 1
    BatchSize = 2
    MaxRetries = 1
SPECIFICATION TraceSpec
INVARIANTS Recorded ToldTraceIsFound NothingDropped OneRowPerTrace
PROPERTIES StatusSettled TurnSettles PendingEnds UnavailableHolds TracesSettle
CHECK_DEADLOCK FALSE
