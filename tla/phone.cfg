SPECIFICATION FairSpec
CONSTANTS
  main = main
  service = service
  a = a
  b = b
  c = c
  Client = {main, service}
  Call = {a, b, c}
  ClientOf <- TwoClients
  CanLogOut = TRUE
  MaxLogins = 1
  MaxFaults = 1
INVARIANT SignedOutButForRefresh
INVARIANT OneRefreshPerClient
INVARIANT FreshRetry
PROPERTY CallsEnd
CHECK_DEADLOCK FALSE
