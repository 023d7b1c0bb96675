\* Three interchangeable buffers: safety of the queue, the timer and the stop.
SPECIFICATION Spec
CONSTANTS
    Buffers = {b1, b2, b3}
    NoBuffer = NoBuffer
    Sizes <- MCSizes
    FrameCount = 3
    SeqLimit = 8
    SizeLimit = 16
SYMMETRY BufferSymmetry
INVARIANTS
    TypeOK
    Ownership
    StopIsClean
    TimerAlive
    NumberedInOrder
    AllocatedIsQueueable
