SPECIFICATION TasksSpec
CONSTANTS
    Chains = {"arbitrum_sepolia", "arbitrum", "sepolia", "ethereum"}
    MaxGenerations = 3
    MaxFaults = 2
    noLzPeer = FALSE
    MaxCommands = 3
    BorrowAmounts = {1, 2}
    Recursive = 2
    InitialPool = 1
INVARIANTS AssetIdsAgree SetupIsWhole MintersAreInitialised 
PROPERTIES CompletedIsStable SetupCompletes PathsDrain
CHECK_DEADLOCK FALSE
