CONSTANTS
    RingSize = 28
    Lengths = {4, 7}
    MaxLength = 8
    Budget = 1
SPECIFICATION RxSpec
INVARIANTS RxInSync NoFrameForgotten
