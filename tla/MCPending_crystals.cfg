SPECIFICATION Spec
CONSTANTS
  Players = {"ann", "bob"}
  Requests <- Names
  By <- Senders
  Kind <- Kinds
  Cost <- Costs
  Units <- UnitsOf
  Gain <- Gains
  Candies = {"k"}
  Needs <- NeedsOf
  Ids <- IdsOf
  Moves <- SomeMoves
  MaxPending = 2
  Holdings <- Owned
  Verdicts <- Answers
  MaxMissing = 1
  Modulus = 8
INVARIANT CrystalsShownArePaid
CHECK_DEADLOCK FALSE
