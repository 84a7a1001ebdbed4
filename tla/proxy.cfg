SPECIFICATION ProxySpec
CONSTANTS
  r1 = r1  r2 = r2  b = b  m = m  p1 = p1  p2 = p2  NoKey = NoKey
  Key <- MCKey
  Manifests <- MCManifests
  Scenarios <- MCScenarios
  Proc = {p1, p2}
  MaxTimers = 1
INVARIANTS
    
    OneStores
    RefetchedWithoutCache
PROPERTIES
    EarlyOnlyIfOvertaken
    EntriesExpire
    RequestsEnd
CHECK_DEADLOCK FALSE
