SPECIFICATION Spec
CONSTANTS
  NSlots = 3
  Files = {"a.py", "b.py"}
  FileOf <- MCFileOf
  Nested <- MCNested
  Hashes = {h1, h2}
  NoEntity = NoEntity
  MaxIds = 3
SYMMETRY Symmetry
INVARIANT OneToOne
PROPERTIES EditKeepsId MoveKeepsId NothingForgotten
CHECK_DEADLOCK FALSE
