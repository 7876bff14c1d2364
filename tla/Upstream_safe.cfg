CONSTANTS
  trade = trade
  browse1 = browse1
  browse2 = browse2
  browse3 = browse3
  chain = chain
  NoKey = NoKey
  NoCall = NoCall
  Calls = {trade, browse1, browse2, browse3}
  Keys = {chain}
  Parallel = 2
  Prio <- MCPrio
  Key <- MCKey
SPECIFICATION Spec
INVARIANTS
  PlacesAddUp
  NobodyWaitsBesideAFreePlace
  SharedUntilOneIsBad
PROPERTIES
  DiscardedByItsOwn
  EveryCallEnds
CHECK_DEADLOCK FALSE
