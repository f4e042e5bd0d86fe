CONSTANTS
    FrameSize <- FrameSizes
    HeadSize = 2
    Chunk = 3
    Room = 5
    max_send_buf_failed_size = 2
SPECIFICATION StreamSpec
INVARIANTS PartialFrameWaits
CHECK_DEADLOCK FALSE
