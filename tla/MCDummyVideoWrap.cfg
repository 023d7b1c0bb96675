\* The counter wraps while a buffer from before the wrap is not collected yet.
SPECIFICATION Spec
CONSTANTS
    Buffers = {b1, b2, b3}
    NoBuffer = NoBuffer
    Sizes <- MCSizes
    FrameCount = 3
    SeqLimit = 8
    SizeLimit = 16
INVARIANT FramesLoop
