SPECIFICATION Spec
CONSTANTS
  Ids = {1, 2, 3}
  Templates <- MCTemplates
  Contacts <- MCContacts
  Readers <- MCReaders
  NamePlaceholder = "{{name}}"
  Anyone = "any"
  Missing = missing
  None = none
  MaxEdits = 2
INVARIANTS TypeOK ContactGetsClosest GroupTextSuitsEveryone FallbackShows
