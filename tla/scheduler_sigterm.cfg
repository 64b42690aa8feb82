SPECIFICATION Spec
CONSTANTS
  ContactIds = {c1}
  EventDates <- MCEventDates
  OwnTimes <- MCOwnTimes
  SendTimes <- MCSendTimes
  TimeZones <- MCTimeZones
  LastInstant = 3
  Local <- MCLocal
  Requests = {}
  Ticker = ticker
  None = none
  Unused = unused
  Deleted = deleted
  Attempts = 2
  MaxFaults = 0
  MaxStops = 1
  MaxEdits = 0
INVARIANT AtMostOneBlessing
