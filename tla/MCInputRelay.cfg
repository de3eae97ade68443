CONSTANTS
    Key = {"k"}
    Size = {"s1", "s2"}
    MaxTyped = 4
    MaxScript = 5
    CutsEscape = FALSE
SPECIFICATION Spec
INVARIANTS TypeOK KeysIntact ScriptIntact
CHECK_DEADLOCK FALSE
