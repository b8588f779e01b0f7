SPECIFICATION Spec
CONSTANTS
    Names <- ProfileNames
    Sizes = {a, b}
    Runs = {r1}
    None = None
    RetryLimit = 0
    MaxGaps = 0
    MaxAgain = 0
INVARIANT OnlyPhotosQueued
CHECK_DEADLOCK FALSE
