CONSTANTS
    MaxSlots = 2
    Fds = {2, 4}
    Handles = {h1, h2, h3}
    MaxReuse = 0
    NoHandle = NoHandle
SYMMETRY Symmetry
SPECIFICATION Spec
INVARIANTS HeldIsOpen
