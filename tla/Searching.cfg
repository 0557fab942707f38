CONSTANTS
  Index <- MCIndex
  Texts <- MCTexts
  MaxPending = 2
SPECIFICATION FairSpec
INVARIANTS TypeOK PanelConsistent EditsSearched AnswerCurrent
PROPERTIES NeverHiddenUnderMouse SearchAnswered
