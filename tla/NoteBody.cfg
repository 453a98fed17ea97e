SPECIFICATION Spec
CONSTANTS
    Kinds = {"empty", "blank", "dashes", "fence", "heading", "text"}
    Spellings = {"url", "URL", "id"}
    Canonical <- MCCanonical
    Values = {1}
    OddKeys = {"a/b", "#x", "bbb", "id:x"}
    Shape <- MCShape
    NoValue = 0
    MaxFirst = 4
    MaxLines = 5
INVARIANTS
    TypeOK
    EditorKeepsText
PROPERTIES
    SetIsFound
    SetKeepsTheRest
    UnsetTakesOneField
CHECK_DEADLOCK FALSE
