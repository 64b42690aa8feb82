SPECIFICATION Spec
CONSTANTS
  JSONKeys = {"greenapi", "gowa", "scheduler"}
  Ids = {"greenapi", "gowa", "one", "two", "url", "zone", "other zone", "nowhere", "blank"}
  Blank = "blank"
  Refused <- MCRefused
  Secrets = {"s", "t"}
  Mask = mask
  Empty = empty
  None = none
  DefaultConfig <- MCDefaultConfig
  Requests = {r1}
  Payloads <- MCPayloads
  MaxFaults = 1
  MaxStops = 1
INVARIANTS TypeOK MaskStaysOutside StoredIsValid
PROPERTIES SavesAsPromised
