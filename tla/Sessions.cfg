CONSTANTS
  d1 = d1
  d2 = d2
  Device = {d1, d2}
  Request <- MCSessionRequests
  IdleTTL = 1
  CookieTTL = 2
  RowTTL = 4
  TimeMax = 3
  KeyMax = 3
SPECIFICATION Spec
INVARIANTS
  LogoutIsObeyed
  RejectedForAReason
  KeysInForce
ACTION_CONSTRAINT OneMeeting
