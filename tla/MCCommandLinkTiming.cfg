CONSTANTS
    c1 = c1
    c2 = c2
    Calls = {c1, c2}
    Seqs = {1}
    SeqOf <- SharedSeq
    NoCall = NoCall
    ResendAfter = 0
    WaitLimit = 5
SPECIFICATION FairSpec
INVARIANT TimeoutOnlyAfterStop
PROPERTIES CallReturns TransactionEnds
CHECK_DEADLOCK FALSE
