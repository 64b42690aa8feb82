SPECIFICATION FairSpec
CONSTANTS
  JSONKeys = {"greenapi", "gowa"}
  Ids = {"greenapi", "gowa", "one", "blank"}
  Blank = "blank"
  Refused <- MCRefused
  Secrets = {"s", "t"}
  Mask = mask
  Empty = empty
  None = none
  DefaultConfig <- MCDefaultConfig
  Payloads <- MCPayloads
  MaxFaults = 1
  MaxStops = 1
  Pollers = {p1, p2}
  Receipts = {1, 2}
  Messages = {2}
  Account <- MCAccount
INVARIANTS TypeOK OnePoller HandledBeforeDeleted RepeatsAreExcused
PROPERTIES FollowsSettings QueueDrains
