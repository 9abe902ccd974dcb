\* It ends at the last block, and where the next step is an input that Allow
\* does not name.
CHECK_DEADLOCK FALSE
CONSTANTS
    K = 2
    Amount = 2
    MaxBlock = 3
    Allow = {"full_clear"}
INIT Init
NEXT Next
INVARIANTS
    PersistExact
