SPECIFICATION Spec
CONSTANTS
    Chains = {"arbitrum_sepolia", "arbitrum", "sepolia", "ethereum"}
    MaxGenerations = 2
    MaxFaults = 1
    noLzPeer = FALSE
INVARIANT EthMarketIsMain
