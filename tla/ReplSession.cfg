SPECIFICATION Spec
CONSTANTS
    Runes <- MCRunes
    NameRunes <- MCNameRunes
    Lower <- MCLower
    Slash <- slash
    Dash <- dash
    Replacement <- fffd
    ConflictSuffix <- MCSuffix
    MaxNoteNameLen = 3
    b1 = b1
    b2 = b2
    empty = empty
    Bodies = {b1, b2}
    NoText = empty
    Templates = {b1}
    Typed <- MCTyped
    Seconds = {1}
    RecentMax = 2
    Sources <- MCSources
    MaxTexts = 3
    MaxMatches = 1
    MaxSaves = 4
INVARIANTS
    TypeOK
    SavedUnlessWarned
    NotesCanBeFound
    RecentIsLive
PROPERTIES
    NotesLeaveByTheTrash
    ContextIsLive
    ImportsKeepAll
    ImplementsNotes
CHECK_DEADLOCK FALSE
