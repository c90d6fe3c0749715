SPECIFICATION Spec
CONSTANTS
    Texts <- MCTexts
    HistoryLimit = 2
    Leap = 2
    MaxLine = 3
    Names = {"a", "b"}
    Contents <- MCContents
    Missing = Missing
    Rom = "nc2000"
    StrayBytes = {0, 1, 2}
    MaxCommands = 3
    MaxStray = 2
    Absent = Absent
    Torn = Torn
    Options <- MCOptions
    Written = {"nand", "nor"}
    MaxSteps = 2
CONSTRAINT ShortLines
INVARIANTS ConsoleInRange SavedLineKept TransfersDeliver LeftoversOwed
INVARIANTS StateNotAhead ResumesAsSaved
PROPERTIES TransferEnds
\* The commands and resets of a transfer are bounded.
CHECK_DEADLOCK FALSE
