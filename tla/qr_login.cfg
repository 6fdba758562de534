CONSTANTS
    Page = {1, 2}
    User = {"user"}
    UserOf <- MCUserOf
    Phone = {"phone"}
    Code = {1, 2, 3}
    Reads <- MCReads
    NoUser = "none"
    NoCode = 0
    NoIssue = NoIssue
    qrLoginTTL = 1
    MaxGeneration <- MCMaxGeneration
SPECIFICATION Spec
INVARIANTS TypeOK StoreConsistent PageInStep 
PROPERTIES ScanReadsShown OneTime CodeLeavesScreen
CHECK_DEADLOCK FALSE
