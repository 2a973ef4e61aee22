SPECIFICATION Spec
CONSTANTS
  NSlots = 3
  Files = {"a.py", "b.py"}
  FileOf <- MCFileOf
  Nested <- MCNested
  Hashes = {h1, h2}
  NoEntity = NoEntity
  MaxIds = 3
PROPERTY RestartKeepsIds
CHECK_DEADLOCK FALSE
