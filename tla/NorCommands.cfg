SPECIFICATION Spec
CONSTANTS
  Models <- MCModels
  BankValues <- MCBanks
  RoaBbsValues <- MCRoaBbs
  RambVolValues <- MCRambVol
  ZpValues <- MCZp
  Writes <- MCWrites
  BitWeight = 1
  Images <- MCImages
CONSTRAINT FewPrograms
INVARIANTS NeverStuck AnswersAreAskedFor
PROPERTIES FlashPromise ModificationsAreUnlocked
