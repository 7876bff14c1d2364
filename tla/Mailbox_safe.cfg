SPECIFICATION Spec
CONSTANTS
  p1 = p1
  p2 = p2
  Polls <- TwoPolls
  Stale = 1
  EventBuffer = 1
  MaxTurns = 2
  MaxQueue = 2
  MaxTime = 3
SYMMETRY Symmetry
INVARIANT UnclaimedIsClosed
INVARIANT StopFollowsTheTurn
INVARIANT NoPollSleepsOnMail
PROPERTY IsAConversation
