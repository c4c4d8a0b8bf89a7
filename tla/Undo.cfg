SPECIFICATION Spec
CONSTANTS
    Chars <- MCChars
    Typed <- MCTyped
    Pasted <- MCPasted
    Levels = 3
    MaxLen = 3
INVARIANT TypeOK
PROPERTY Restores
CHECK_DEADLOCK FALSE
