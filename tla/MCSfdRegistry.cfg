CONSTANTS
    MaxSlots = 2
    Fds = {0, 1}
    Handles = {h1, h2, h3}
    MaxReuse = 1
    NoHandle = NoHandle
SYMMETRY Symmetry
SPECIFICATION Spec
INVARIANTS TypeOK HeldIsOpen NoDescriptorLeaks SessionsExclusive
