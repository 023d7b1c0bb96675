\* A flush that follows a write() alone.
SPECIFICATION Spec
CONSTANTS
    xres = 2
    yres = 5
    line_length = 4
    PAGE_SIZE = 9
    Writers = {w1}
    WriteLines <- MCWriteLines
INVARIANT EveryFlushReports
