SPECIFICATION Spec
CONSTANTS
  GroupIds = {g1, g2}
  Chats = {"family"}
  Thresholds = {1}
  EchoSettings <- MCEchoSettings
  Senders = {"dana", "avi", "bot"}
  Messages = {"dana", "avi", "bot"}
  Content <- MCContent
  LastInstant = 3
  Retention = 1
  Handlers = {h1}
  None = none
  Unused = unused
  Deleted = deleted
  MaxFaults = 1
  MaxEdits = 2
  MaxRedeliveries = 0
INVARIANTS EchoIsEarned EchoesSpaced
CHECK_DEADLOCK FALSE
