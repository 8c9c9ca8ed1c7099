------------------------------ MODULE MCTasks ------------------------------
(***************************************************************************)
(* The scripts on small instances: the deployment of a chain of each kind, *)
(* or commands that run between two chains.  The two share no state, so    *)
(* that one of them is chosen to begin with and the other stands still.    *)
(***************************************************************************)
EXTENDS Deployment

CONSTANTS MaxCommands, BorrowAmounts, Recursive, InitialPool

(* Amounts are unsigned.                                                   *)
ASSUME AmountsAssumption ==
    BorrowAmounts \subseteq Nat /\ Recursive \in Nat /\ InitialPool \in Nat

VARIABLES
    running, started, ready, toft, usdoHeld, wrapped, minted, market, path, delivered,
    stored, blocks,
    scripts   \* "deployment" or "crossChain"

X == INSTANCE CrossChain WITH usdo <- usdoHeld

crossChainVars == <<running, started, ready, toft, usdoHeld, wrapped, minted, market, path,
                    delivered, stored, blocks>>
allVars == <<vars, crossChainVars, scripts>>

NoTokens == [from |-> 0, to |-> 0, yieldBox |-> 0]
NoCommands ==
    /\ running = <<>> /\ started = 0 /\ ready = {}
    /\ toft = NoTokens /\ usdoHeld = NoTokens /\ wrapped = 0 /\ minted = 0 /\ market = <<>>
    /\ path = <<>> /\ delivered = <<>> /\ stored = <<>> /\ blocks = <<>>

TasksInit ==
    /\ Init
    /\ \/ scripts = "deployment" /\ NoCommands
       \/ scripts = "crossChain" /\ chain = "ethereum" /\ X!Init

Deploy ==
    /\ scripts = "deployment"
    /\ Next
    /\ UNCHANGED <<crossChainVars, scripts>>

RunCommands ==
    /\ scripts = "crossChain"
    /\ X!Next
    /\ UNCHANGED <<vars, scripts>>

TasksNext == Deploy \/ RunCommands

(* The fairness of each, while it is what happens.                         *)
TasksSpec ==
    /\ TasksInit /\ [][TasksNext]_allVars
    /\ WF_vars(scripts = "deployment" /\ TaskStep)
    /\ WF_vars(scripts = "deployment" /\ Mine)
    /\ WF_vars(scripts = "deployment" /\ DeployGlobals)
    /\ SF_vars(scripts = "deployment" /\ Rerun)
    /\ \A p \in X!Paths :
          /\ WF_crossChainVars(scripts = "crossChain" /\ (X!Deliver(p) \/ X!StorePayload(p)))
          /\ WF_crossChainVars(scripts = "crossChain" /\ X!RetryPayload(p))

-----------------------------------------------------------------------------
(* No command, in any order of delivery, and no retry, loses a token or    *)
(* counts it twice (the tasks of tasks/testTasks, retryPayload__task).     *)
NothingLost == scripts = "crossChain" => X!NothingLost

(* A message that the destination would accept does not stay in its path,  *)
(* even if it was refused and stored before, in a block with the payloads  *)
(* of other paths (retryPayload__task).                                    *)
PathsDrain ==
    []<>(scripts = "crossChain" =>
            \A p \in X!Paths : path[p] = <<>> \/ ~X!Succeeds(Head(path[p])))
=============================================================================
