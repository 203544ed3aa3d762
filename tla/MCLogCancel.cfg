\* Two old files of three bytes; two rotations that another program gets in the way of.
SPECIFICATION RotateSpec
CONSTANTS
    KeptFiles = 2
    FileLimit = 3
    LineSizes = {1, 2}
    MaxLines = 7
    MaxRestarts = 1
    MaxRefusals = 2
INVARIANT CancelLosesNothing
CHECK_DEADLOCK FALSE
