CONSTANTS
  Plans <- MCPlans
  Main = "main"
  EmbTexts <- MCEmbTexts
  IgnoreCR = FALSE
  StoreWhenHidden = FALSE
SPECIFICATION FairSpec
INVARIANTS TypeOK PopsOwnArgs ArgsExist
PROPERTIES ImplementsConditions ReturnsToCall TagIsRead
CHECK_DEADLOCK FALSE
