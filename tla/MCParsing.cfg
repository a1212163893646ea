CHECK_DEADLOCK FALSE
CONSTANTS
  Alerts <- MCAlerts
SPECIFICATION Spec
INVARIANTS
  AmountIsRead
  CardIsKept
  FirstReadableWins
