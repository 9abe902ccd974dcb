CONSTANTS
    K = 2
    Amount = 2
    MaxBlock = 3
    Allow = {"partial_new"}
INIT Init
NEXT Next
INVARIANTS
    BookExact
