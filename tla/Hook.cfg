\* One hook for every call an agent can make, two for the typical ones.
SPECIFICATION WireSpec
CONSTANTS
  Hooks = {h1, h2}
  Files = {f1, f2}
  f1 = f1
  f2 = f2
  Calls <- MCCalls
  Ops <- MCOps
  Together <- MCTogether
  SourceCheckout = FALSE
  None = None
INVARIANTS TypeOK OnlyHarmlessIsAllowed TrailsAgree OneLoginOneRetry AnswersFollowDecisions HandedOver SameCallSameVerdict
PROPERTIES EveryHookEnds
