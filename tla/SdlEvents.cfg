SPECIFICATION Spec
CONSTANTS
  Texts <- MCTexts
  HistoryLimit = 1
  Leap = 1
  Keyboards <- MCKeyboards
  Items <- MCItems
  NoCell = NoCell
  MaxEvents = 2
  MaxLine = 1
INVARIANTS MatrixFollowsKeys
PROPERTIES ResetNeedsChord
