SPECIFICATION Spec
CONSTANTS
    Names <- PhotoNames
    Sizes = {a, b}
    Runs = {r1}
    None = None
    RetryLimit = 0
    MaxGaps = 0
    MaxAgain = 0
INVARIANT SizesAsListed
CHECK_DEADLOCK FALSE
