CONSTANTS
  Scale = 240
  Evaluations <- SomeConversations
  Partial <- TwoCriteria
  Minima = {192, 216}
  Coverages = {69, 70}
SPECIFICATION Spec
INVARIANTS TypeOK DominatedIsRejected NoReturn PromotionIsEarned
