SPECIFICATION ListSpec
CONSTANTS
    Chars = {"a", "b"}
    Reports <- FewReports
    MaxDevices = 3
    NameSize = 3
INVARIANTS ListKept ChoosesHighlighted
PROPERTIES PressMovesOnce
