SPECIFICATION Spec
CONSTANTS
  Tellers = {"room"}
  Room = "room"
  Clock = "clock"
  MaxTurns = 3
  EventBuffer = 2
  InterruptAttempts = 3
  BrokerlessLimit = 2
  MaxCrashes = 0
  TurnLimited = TRUE
  ReportsToolCalls = TRUE
  AgentErrors = FALSE
  StoreErrors = FALSE
INVARIANT NeverTwoTurns
