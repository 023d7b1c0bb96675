\* Two files, two buffers: the node, liveness and the refinement of
\* CaptureQueue.  The run ends with the module unloaded.
SPECIFICATION NodeFairSpec
CONSTANTS
    Buffers = {b1, b2}
    NoBuffer = NoBuffer
    Sizes <- MCSizes
    FrameCount = 3
    SeqLimit = 4
    SizeLimit = 8
    Files = {f1, f2}
    NoFile = NoFile
CHECK_DEADLOCK FALSE
INVARIANTS
    NodeTypeOK
    OwnerAnswers
    UnloadIsQuiet
PROPERTIES
    CaptureRefined
    CaptureProgress
    StopCompletes
    WaiterServed
