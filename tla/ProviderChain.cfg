\* Every chain of MCProviderChain against every sequence of upstream results.
SPECIFICATION Spec
CONSTANTS
  None = None
  Known = {"a", "b", "c"}
  Chains <- SomeChains
  Statuses = {200, 304, 404, 408, 429, 501, 503}
INVARIANTS TypeOK FallbackJustified FinalNotRepeated AttemptsBounded AnswerFromTrace
