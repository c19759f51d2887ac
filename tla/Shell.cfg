CONSTANTS
    MaxLine = 4
    MaxArgs = 1
    Typed = {"A", "D", " ", "[", "BS", "NUL"}
    Controls = {"^A", "^B", "^C", "^E", "^F", "^N", "^P", "ESC", "CR", "LF"}
SPECIFICATION ShellSpec
INVARIANT LineWhole
PROPERTY ImplementsLineEdit
