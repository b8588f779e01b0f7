SPECIFICATION Spec
CONSTANTS
    Names <- ProfileNames
    Sizes = {a, b}
    Runs = {r1, r2}
    None = None
    RetryLimit = 1
    MaxGaps = 1
    MaxAgain = 1
INVARIANTS TypeOK ReportedComplete KeyedOnce
PROPERTIES EachUploadReported WorkersEnd
CHECK_DEADLOCK FALSE
