CONSTANTS
    HistoryLines = 4
    Height = 2
    Width = 4
    TabStop = 2
    SizeMod = 16
    MaxRow = 7
    Turns = {0, 1, 3}
    LinesPerTurn = 1
    MaxLate = 2
SPECIFICATION Spec
INVARIANTS    MouseInStep
