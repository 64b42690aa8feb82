SPECIFICATION Spec
CONSTANTS
  ContactIds = {c1}
  EventDates <- MCEventDates
  OwnTimes = {}
  SendTimes <- MCSendTimes
  TimeZones <- MCTimeZones
  LastInstant = 3
  Local <- MCLocal
  Requests = {r1}
  Ticker = ticker
  None = none
  Unused = unused
  Deleted = deleted
  Attempts = 2
  MaxFaults = 2
  MaxStops = 1
  MaxEdits = 1
INVARIANTS TypeOK NoSilentDuplicate LogNeverOverclaims
PROPERTY KeepsBook
