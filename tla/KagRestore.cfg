CONSTANTS
  Plans <- MCPlans
  Main = "main"
  EmbTexts <- MCEmbTexts
  IgnoreCR = FALSE
  StoreWhenHidden = TRUE
SPECIFICATION Spec
PROPERTIES RestoresConditions
CHECK_DEADLOCK FALSE
