SPECIFICATION Spec
CONSTANTS
  JSONKeys = {"greenapi", "gowa", "scheduler"}
  Ids = {"greenapi", "gowa", "one", "two", "url", "zone", "other zone", "nowhere", "blank"}
  Blank = "blank"
  Refused <- MCRefused
  Secrets = {"s", "t"}
  Mask = mask
  Empty = empty
  None = none
  DefaultConfig <- MCDefaultConfig
  Requests = {r1, r2}
  Payloads <- RacePayloads
  MaxFaults = 0
  MaxStops = 0
PROPERTIES AbsentSectionKept
