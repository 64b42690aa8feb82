SPECIFICATION Spec
CONSTANTS
  GroupIds = {g1}
  Chats = {"family"}
  Thresholds = {}
  EchoSettings <- MCEchoSettings
  Senders = {"dana", "avi", "bot"}
  Messages = {"dana", "dana again", "avi", "bot"}
  Content <- MCContent
  LastInstant = 2
  Retention = 1
  Handlers = {h1, h2}
  None = none
  Unused = unused
  Deleted = deleted
  MaxFaults = 0
  MaxEdits = 0
  MaxRedeliveries = 1
SYMMETRY HandlerSymmetry
INVARIANTS TypeOK EchoIsEarned BurstIsAnswered
CHECK_DEADLOCK FALSE
