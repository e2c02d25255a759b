\* Frames of three, chunks of four, an empty write, and reads of two samples; three
\* calls besides the reads.
SPECIFICATION Spec
CONSTANTS
    Threads = {"framed", "direct", "ctl", "rd", "closer"}
    Framed = {"framed"}
    Direct = {"direct"}
    Ctl = "ctl"
    Rd = "rd"
    RdCloser = "closer"
    FrameSize = 3
    Targets <- MCTargets
    Chunks <- MCChunks
    Buffers = {2}
    MaxCalls = 3
INVARIANTS
    PipeFifo
    SamplesAccounted
    WriteDelivers
    CloseErrors
PROPERTY
    CallsEnd
CHECK_DEADLOCK FALSE
