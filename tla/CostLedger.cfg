\* Three records, one restart, and any two of two edits, a sweep and a page walk.
SPECIFICATION Spec
CONSTANTS
  a1 = a1
  a2 = a2
  None = None
  Providers = {"p1", "p2"}
  Names <- SomeNames
  Undated <- DateSuffix
  LastSegment <- EndOf
  Variants = {"o/m:b", "m:b"}
  TrailingSlash = {}
  Feed <- SomeFeed
  FilePrices <- SomeFile
  Admins = {a1, a2}
  Edits <- SomeEdits
  Ids = {1, 2, 3}
  Traffic <- SomeTraffic
  Namespace = "p2"
  Windows <- SomeWindows
  Filters <- SomeFilters
  PageSize = 1
  MaxCalls = 2
  MaxRestarts = 1
SYMMETRY Interchangeable
CHECK_DEADLOCK FALSE
INVARIANTS CatalogCurrent LookupSound RecomputeSettles PagesComplete
PROPERTY OnlyRepriced
