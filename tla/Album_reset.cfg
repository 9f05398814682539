SPECIFICATION Spec
CONSTANTS
    Stickers = {1, 21}
    MaxStack = 6
PROPERTY ResetLocksAll
