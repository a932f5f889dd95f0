SPECIFICATION PartsSpec
CONSTANTS
  Stacks <- MCStacks
  Closed = Closed
  None = None
INVARIANTS HarnessResolves OnlyBringsItsNeeds OrderDecidesNothing BaseStays CheckoutDecidesItsOwn
CHECK_DEADLOCK FALSE
