SPECIFICATION Spec

CONSTANTS
  Exchanges <- MCExchanges
  Currents <- MCCurrents
  Lists <- MCLists
  MaxReplays = 2
  Nil = Nil

INVARIANTS
  ErrorsAreSplit
  RecipeDelivers
  LastOnGuards
  ReplayIsFaithful

CHECK_DEADLOCK FALSE
