CONSTANTS
    BUFFER_SIZE = 3
    Bytes = {1, 2}
    MaxLen = 4
SPECIFICATION Spec
INVARIANTS WrappedReadServed
