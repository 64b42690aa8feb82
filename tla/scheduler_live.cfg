SPECIFICATION Spec
CONSTANTS
  ContactIds = {c1, c2}
  EventDates <- MCEventDates
  OwnTimes <- MCOwnTimes
  SendTimes <- MCSendTimes
  TimeZones <- MCTimeZones
  LastInstant = 1
  Local <- MCLocal
  Requests = {}
  Ticker = ticker
  None = none
  Unused = unused
  Deleted = deleted
  Attempts = 1
  MaxFaults = 1
  MaxStops = 1
  MaxEdits = 1
PROPERTY DueIsBlessed
