\* Mappings and write() together: safety and liveness of the flush.
SPECIFICATION FairSpec
CONSTANTS
    xres = 2
    yres = 5
    line_length = 4
    PAGE_SIZE = 9
    Writers = {w1, w2}
    WriteLines <- MCWriteLines
INVARIANTS
    TypeOK
    FlushCoversStores
    StoresPending
    AreaOrdered
    WritesPending
PROPERTIES
    StoresReported
    WritesFlushed
