CONSTANTS
  h1 = h1
  h2 = h2
  h3 = h3
  Handlers = {h1, h2, h3}
  MaxReloads = 2
  MaxCalls = 1
SPECIFICATION FairSpec
INVARIANT TypeOK
INVARIANT OneCallAtATime
INVARIANT NoStraySession
PROPERTY CrashNeedsReload
PROPERTY CallsEnd
CHECK_DEADLOCK FALSE
