CONSTANTS
    NoData = NoData
    Producer = {p1, p2}
    Consumer = {c1}
    Data = {d1, d2}
    real_queue_size_ = 1
    Padded = FALSE
    MaxHead = 2
SPECIFICATION FairSpec
INVARIANTS IndexInArray
