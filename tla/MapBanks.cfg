SPECIFICATION MapSpec
CONSTANTS
  Models <- MCModels
  BankValues <- MCBanks
  RoaBbsValues <- MCRoaBbs
  RambVolValues <- MCRambVol
  ZpValues <- MCZp
INVARIANTS PagesSound MapCoherent
PROPERTIES RestoreSameMap
