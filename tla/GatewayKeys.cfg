\* Every edit of the file, at any point of a reload, a restart or an admin call.
SPECIFICATION FairSpec
CONSTANTS
  None = None
  MayRestart = TRUE
  Files <- SomeFiles
  FirstFile <- One
  Ids = {"x", "y", "k"}
  Secrets = {"s1", "s2"}
  AdminIds = {"k"}
  Projects = {"default", "team"}
  DefaultProject = "default"
  Admins = {a1}
INVARIANT InSync
PROPERTIES AdminRowsKept WatchedEditPublished
