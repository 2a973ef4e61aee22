SPECIFICATION Spec
CONSTANTS
    Names = {1, 2, 3, 4, 5}
    Code = 2
    Installations <- MCInstallations
    Edits <- MCEdits
    Plugins <- MCPlugins
    NoFile = NoFile
    Unset = Unset
    MaxNotes = 0
    MaxEdits = 0
INVARIANTS SecretsByReference
CHECK_DEADLOCK FALSE
