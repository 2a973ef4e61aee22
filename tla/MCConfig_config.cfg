SPECIFICATION Spec
CONSTANTS
    Names = {1, 2, 3, 4, 5}
    Code = 2
    Installations <- MCInstallations
    Edits <- MCEdits
    Plugins <- MCPlugins
    NoFile = NoFile
    Unset = Unset
    MaxNotes = 2
    MaxEdits = 1
INVARIANTS OrderSound StaysValid NotesFollowLayers
CHECK_DEADLOCK FALSE
