SPECIFICATION Spec
CONSTANTS
    Windows = {w1, w2}
    Ids = {i1, i2}
    NoWindow = NoWindow
    NoFile = NoFile
    NoEditor = NoEditor
    NoText = NoText
    MaxEdits = 2
    Hazards = {}
SYMMETRY Interchangeable
INVARIANTS TypeOK Tidy
PROPERTY KeepsText
