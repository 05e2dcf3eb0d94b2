CONSTANTS
    keyX = keyX
    keyY = keyY
    Chars = {keyX, keyY}
    MAX_HISTORY_SIZE = 2
    MaxInput = 3
SPECIFICATION Spec
INVARIANTS
    TypeOK
    IndexesInRange
    ShownIsExecuted
PROPERTY
    EditsImplementLine
