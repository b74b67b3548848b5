SPECIFICATION FairSpec
CONSTANTS
    Writers = {w1}
    WaitKinds = {"sync"}
    Accepted = TRUE
    max_buf_size = 2
    Lengths = {1, 2}
    MaxMessages = 2
PROPERTIES
    CloseWakes
CHECK_DEADLOCK FALSE
