SPECIFICATION Spec
CONSTANTS
  dana = dana
  eli = eli
  group = group
  otherGroup = otherGroup
  wish = wish
  chat = chat
  own = own
  elsewhere = elsewhere
  private = private
  secret = secret
  Mark = Mark
  Space = Space
  NotSet = NotSet
  None = None
  Letters <- MCLetters
  Messages <- MCMessages
  Said <- MCSaid
  WatchedChat = group
  GroupChats = {group, otherGroup}
  PatternIds = {1, 2}
  Patterns <- MCPatterns
  Seeded <- MCSeeded
  Credentials = {secret}
  MaxEdits = 1
INVARIANTS TypeOK WishIsWhatWasSaid WishIsCurrent NoWishMissed
CHECK_DEADLOCK FALSE
