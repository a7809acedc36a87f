\* The documented meaning of a trigger that matches.  Expected to be violated.
SPECIFICATION Spec
CONSTANTS
  None = None
  Known = {"a", "b", "c"}
  Chains <- SomeChains
  Statuses = {200, 304, 404, 408, 429, 501, 503}
INVARIANT FallbackTaken
