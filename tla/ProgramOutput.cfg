SPECIFICATION Spec
CONSTANTS
    LINE_MAX = 7
    Chars = {"a"}
    MaxText = 6
    MaxEvents = 1
INVARIANT PassedOn
