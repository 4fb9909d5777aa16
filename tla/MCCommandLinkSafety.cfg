CONSTANTS
    c1 = c1
    c2 = c2
    Calls = {c1, c2}
    Seqs = {1, 2}
    SeqOf <- OwnSeq
    NoCall = NoCall
    ResendAfter = 0
    WaitLimit = 5
SPECIFICATION Spec
INVARIANTS TypeOK PromiseHasOneSetter
PROPERTY Implements
CHECK_DEADLOCK FALSE
