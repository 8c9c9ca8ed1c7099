--------------------------- MODULE PenroseRegistry --------------------------
(***************************************************************************)
(* The markets Penrose knows: its master contracts, the clones of each,    *)
(* and the lists it walks through to accrue, to mint and to withdraw.  A   *)
(* market is on up to four of them, which the owner's calls keep in step   *)
(* by pushing, and by swapping with the last and popping.                  *)
(*                                                                         *)
(* A call that reverts is a call not made.  The owner names a master       *)
(* contract and a market type that fit the market.                         *)
(***************************************************************************)
EXTENDS Naturals, Sequences

CONSTANTS
    SingularityMasters, BigBangMasters,     \* code that is cloned
    Singularities, BigBangs, OriginsMarkets, \* addresses of markets
    NoContract                              \* address(0)

Masters == SingularityMasters \cup BigBangMasters
Markets == Singularities \cup BigBangs

ASSUME RegistryAssumption ==
    /\ Singularities \cap BigBangs = {}
    /\ SingularityMasters \cap BigBangMasters = {}
    /\ NoContract \notin Masters \cup Markets \cup OriginsMarkets

VARIABLES
    created,               \* the addresses that hold a market's code
    masterContracts,       \* singularityMasterContracts and bigbangMasterContracts
    isMarketRegistered,
    masterContractOf,
    clonesOf,
    allBigBangMarkets,
    isOriginRegistered,
    allOriginsMarkets

cloneVars  == <<masterContractOf, clonesOf>>
marketVars == <<isMarketRegistered, allBigBangMarkets>>
originVars == <<isOriginRegistered, allOriginsMarkets>>
vars == <<created, masterContracts, cloneVars, marketVars, originVars>>

Init ==
    /\ created = {}
    /\ masterContracts = {}
    /\ isMarketRegistered = {}
    /\ masterContractOf = [m \in Markets |-> NoContract]
    /\ clonesOf = [mc \in Masters |-> <<>>]
    /\ allBigBangMarkets = <<>>
    /\ isOriginRegistered = {}
    /\ allOriginsMarkets = <<>>

-----------------------------------------------------------------------------
(* What is on a list, and the list with one entry of x, the first, taken   *)
(* off it: the last entry takes its place.                                 *)
Listed(list) == {list[i] : i \in DOMAIN list}

IndexOf(list, x) ==
    CHOOSE i \in DOMAIN list : list[i] = x /\ \A j \in 1..(i - 1) : list[j] # x

PopOnly(list, x) == SubSeq(list, 1, Len(list) - 1) \* mutant: no swap before the pop
SwapAndPop(list, x) ==
    SubSeq([list EXCEPT ![IndexOf(list, x)] = list[Len(list)]], 1, Len(list) - 1)

(* deploy: creates a clone, and lists it whether or not it becomes a       *)
(* registered market.  No clone is created at an address that has one, and *)
(* then the call of its init() reverts.                                    *)
Clone(mc, clone) ==
    /\ clone # NoContract /\ clone \notin created
    /\ created' = created \cup {clone}
    /\ masterContractOf' = [masterContractOf EXCEPT ![clone] = mc]
    /\ clonesOf' = [clonesOf EXCEPT ![mc] = Append(@, clone)]

(* What the lists are for: the owner's calls reach a market through its    *)
(* master contract (executeMarketFn), its fees are withdrawn if it is      *)
(* registered (_depositFeesToTwTap), and the markets are viewed through    *)
(* their master contracts (getAllMasterContractClones).                    *)
MayExecute(m) == masterContractOf[m] \in masterContracts
MayWithdrawFees(m) == m \in isMarketRegistered
AllMasterContractClones == UNION {Listed(clonesOf[mc]) : mc \in masterContracts}

-----------------------------------------------------------------------------
(* registerSingularityMasterContract and registerBigBangMasterContract.    *)
RegisterMasterContract(mc) ==
    /\ mc \notin masterContracts
    /\ masterContracts' = masterContracts \cup {mc}
    /\ UNCHANGED <<created, cloneVars, marketVars, originVars>>

Deploy(mc, clone) ==
    /\ Clone(mc, clone)
    /\ UNCHANGED <<masterContracts, marketVars, originVars>>

RegisterSingularity(mc, clone) ==
    /\ mc \in masterContracts
    /\ Clone(mc, clone)
    /\ isMarketRegistered' = isMarketRegistered \cup {clone}
    /\ UNCHANGED <<masterContracts, allBigBangMarkets, originVars>>

RegisterBigBang(mc, clone) ==
    /\ mc \in masterContracts
    /\ Clone(mc, clone)
    /\ isMarketRegistered' = isMarketRegistered \cup {clone}
    /\ allBigBangMarkets' = Append(allBigBangMarkets, clone)
    /\ UNCHANGED <<masterContracts, originVars>>

(* A market deployed elsewhere, or by deploy, is registered.               *)
AddMarket(mc, m) ==
    /\ mc \in masterContracts
    /\ m \notin isMarketRegistered
    /\ created' = created \cup {m}
    /\ isMarketRegistered' = isMarketRegistered \cup {m}
    /\ clonesOf' = [clonesOf EXCEPT ![mc] = Append(@, m)]
    /\ masterContractOf' = [masterContractOf EXCEPT ![m] = mc]

AddSingularity(mc, m) ==
    /\ AddMarket(mc, m)
    /\ UNCHANGED <<masterContracts, allBigBangMarkets, originVars>>

AddBigBang(mc, m) ==
    /\ AddMarket(mc, m)
    /\ allBigBangMarkets' = Append(allBigBangMarkets, m)
    /\ UNCHANGED <<masterContracts, originVars>>

AddOriginsMarket(o) ==
    /\ o \notin isOriginRegistered
    /\ isOriginRegistered' = isOriginRegistered \cup {o}
    /\ allOriginsMarkets' = Append(allOriginsMarkets, o)
    /\ UNCHANGED <<created, masterContracts, cloneVars, marketVars>>

(* unregisterContract, by market type.  It takes the market off its type's *)
(* list and off the clones of its master contract, and reverts when it is  *)
(* not found on either.  An Origins market has no master contract: the     *)
(* call reverts for it, so that there is no action.                        *)
ClonesBeside(m) == \* mutant: of the whole list, without the swap
    LET mc == masterContractOf[m]
    IN  /\ mc # NoContract
        /\ m \in Listed(clonesOf[mc])
        /\ clonesOf' = [clonesOf EXCEPT ![mc] = PopOnly(@, m)]
        /\ masterContractOf' = [masterContractOf EXCEPT ![m] = NoContract]
RemoveClone(m) ==
    LET mc == masterContractOf[m]
    IN  /\ mc # NoContract
        /\ m \in Listed(clonesOf[mc])
        /\ clonesOf' = [clonesOf EXCEPT ![mc] = SwapAndPop(@, m)]
        /\ masterContractOf' = [masterContractOf EXCEPT ![m] = NoContract]

UnregisterSingularity(m) ==
    /\ RemoveClone(m)
    /\ isMarketRegistered' = isMarketRegistered \ {m}
    /\ UNCHANGED <<created, masterContracts, allBigBangMarkets, originVars>>

UnregisterBigBang(m) ==
    /\ RemoveClone(m)
    /\ m \in Listed(allBigBangMarkets)
    /\ isMarketRegistered' = isMarketRegistered \ {m}
    /\ allBigBangMarkets' = SwapAndPop(allBigBangMarkets, m)
    /\ UNCHANGED <<created, masterContracts, originVars>>

-----------------------------------------------------------------------------
SingularityStep ==
    \E mc \in SingularityMasters :
        \/ RegisterMasterContract(mc)
        \/ \E m \in Singularities \cup {NoContract} :
              Deploy(mc, m) \/ RegisterSingularity(mc, m)
        \/ \E m \in Singularities : AddSingularity(mc, m) \/ UnregisterSingularity(m)

BigBangStep ==
    \E mc \in BigBangMasters :
        \/ RegisterMasterContract(mc)
        \/ \E m \in BigBangs \cup {NoContract} :
              Deploy(mc, m) \/ RegisterBigBang(mc, m)
        \/ \E m \in BigBangs : AddBigBang(mc, m) \/ UnregisterBigBang(m)

Next == SingularityStep \/ BigBangStep \/ \E o \in OriginsMarkets : AddOriginsMarket(o)

Spec == Init /\ [][Next]_vars

-----------------------------------------------------------------------------
(* Properties.                                                             *)

NoDuplicates(list) ==
    \A i, j \in DOMAIN list : list[i] = list[j] => i = j

(* The markets that are accrued and minted for are the registered BigBang  *)
(* markets, once each, and likewise for Origins (unregisterContract swaps  *)
(* and pops, addBigBang pushes).                                           *)
ListsAreExact ==
    /\ NoDuplicates(allBigBangMarkets)
    /\ Listed(allBigBangMarkets) = isMarketRegistered \cap BigBangs
    /\ NoDuplicates(allOriginsMarkets)
    /\ Listed(allOriginsMarkets) = isOriginRegistered

(* The owner can reach every registered market, and the views show it,     *)
(* through a registered master contract that has it among its clones.      *)
RegisteredAreReachable ==
    \A m \in isMarketRegistered :
        /\ MayExecute(m)
        /\ m \in Listed(clonesOf[masterContractOf[m]])
        /\ m \in AllMasterContractClones
=============================================================================
