CONSTANTS
    Cap = 3
    Chars = {"a", "A", "[", "{", "LF", "ESC", "^A", "^B", "^P"}
    SerialChars = {"a"}
    Keys = {"lshift", "rctrl", "a", "up"}
SPECIFICATION TSpec
INVARIANT FifoExact
PROPERTIES InputServed 
