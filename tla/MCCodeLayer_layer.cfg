SPECIFICATION Spec
CONSTANTS
    Files = {"a", "b", "c"}
    Packages = {"lib"}
    Texts <- MCTexts
    Absent = Absent
INVARIANTS IndexExact CarriedExact
PROPERTIES NoMiss
CHECK_DEADLOCK FALSE
