SPECIFICATION UploadSpec

CONSTANTS
    GuardedCalls = {call1, call2}
    Uploaders = {uploader}
    MaxBatch = 2
    MaxLost = 0

PROPERTY
    RerunsCatchUp

CHECK_DEADLOCK FALSE
