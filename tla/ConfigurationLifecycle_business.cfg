SPECIFICATION FairSpec
CONSTANTS
  c1 = c1
  c2 = c2
  c3 = c3
  c4 = c4
  r1 = r1
  r2 = r2
  s1 = s1
  s2 = s2
  notes = notes
  clients = clients
  name = name
  size = size
  text = text
  number = number
  None = None
  BaseId = BaseId
  Tables = {notes}
  ColumnKeys = {name, size}
  Types = {text, number}
  ShortText = text
  Edits <- AllEdits
  Baselines <- NotesBaseline
  ChangeIds = {c1, c2, c3}
  RecordIds = {r1}
  Sessions = {s1, s2}
  MaxVersions = 4
INVARIANTS
  IdentityStable
  OpenChangesReplay
  RecordsFitLive
  RollbackRestores
PROPERTIES
  DirectRequestEnds
  ChangeSetLifecycle
  AllOrNothing
  ImplementsHistory
CHECK_DEADLOCK FALSE
