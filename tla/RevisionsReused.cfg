\* A window that is left open across the approval: two windows, three runs and five contents.
CONSTANTS
    Editors = {e1, e2}
    MaxContents = 5
    MaxRuns = 3
    None = None
SPECIFICATION Spec
SYMMETRY EditorSymmetry
PROPERTIES
    NothingOverwritten
CHECK_DEADLOCK FALSE
