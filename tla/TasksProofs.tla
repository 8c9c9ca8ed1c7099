----------------------------- MODULE TasksProofs ----------------------------
(***************************************************************************)
(* Theorems about the scripts.                                             *)
(*                                                                         *)
(* First the deployment, for any number of deployments, of crashes and of  *)
(* transactions that land late: all the state is of its type; a market may *)
(* mint USDO only once it is initialised and registered; a deployment is   *)
(* set up whole or not at all; its markets have the asset of its own USDO; *)
(* and what is completed stays so.  The invariants build on one another.   *)
(* IInv: minters are initialised.  WholeInv adds what a run has pushed at  *)
(* each step, and what a transaction brings.  OneInv adds that whoever     *)
(* knows an asset for the USDO of a deployment knows the same one.         *)
(*                                                                         *)
(* Then the commands between two chains, for any number of them, of        *)
(* messages and of retries: no token is lost or counted twice.             *)
(***************************************************************************)
EXTENDS MCTasks, SequenceTheorems, FiniteSetTheorems, TLAPS

Tx == [kind : {"asset", "multicall"}, gen : 1..generations, calls : CallsOK,
       awaited : BOOLEAN]
Run == [step : Steps, gen : 0..generations, asset : Asset, calls : CallsOK]

(* A run waits only for the transaction it sent last.                      *)
AwaitedByRun ==
    \A i \in DOMAIN pending : pending[i].awaited =>
        /\ i = Len(pending)
        /\ pending[i].gen = task.gen /\ pending[i].calls = task.calls
        /\ IF pending[i].kind = "asset" THEN At("createAsset")
           ELSE task.step \in {"await1", "await2", "awaitFinal"}

(* The calls give the right to mint only to markets that are registered    *)
(* and initialised, or that they initialise.                               *)
Covers(g, calls) ==
    /\ calls.minters = calls.burners
    /\ \A m \in calls.minters \cap Markets :
          /\ IsInitialised(g, m) \/ m \in ToInitialise(calls)
          /\ m \in penrose[g].registered

PendingIsCovered == \A i \in DOMAIN pending : Covers(pending[i].gen, pending[i].calls)

(* The first setup is under way, and registers every market; it is done.   *)
Registering == {"setupRegisterEthMarket", "setupFlashloanHelper", "setupCreateYBAssets",
                "submit1", "await1"}
Registered == {"setupInitMarkets", "setupMinters"}

RunIsCovered ==
    /\ Covers(task.gen, task.calls)
    /\ task.step \in {"idle", "execute"} => task.calls = NoCalls
    /\ task.step \in Registering => MarketsRegistered(chain) \subseteq
                                      penrose[task.gen].registered \cup task.calls.registered
    /\ task.step \in Registered => MarketsRegistered(chain) \subseteq penrose[task.gen].registered
    /\ task.step = "setupMinters" =>
          \A m \in MintingMarkets :
              IsInitialised(task.gen, m) \/ m \in ToInitialise(task.calls)

IInv == TypeOK /\ AwaitedByRun /\ MintersAreInitialised /\ PendingIsCovered /\ RunIsCovered

-----------------------------------------------------------------------------
LEMMA NamesAreNames ==
    /\ \A c \in SupportedChains : \A name \in YBAssets(c) :
          name[1] \in Names /\ name[2] \in Names
    /\ \A m \in Markets : CollateralOf[m][1] \in Names /\ CollateralOf[m][2] \in Names
    /\ \A c : MarketsRegistered(c) \subseteq Markets
<1>1. ASSUME NEW c \in SupportedChains, NEW name \in YBAssets(c)
      PROVE  name[1] \in Names /\ name[2] \in Names
  <2> DEFINE all == UNION {YBAssets(d) : d \in SupportedChains}
             pairs == {{n[1], n[2]} : n \in all}
  <2>1. name \in all
    BY <1>1, Zenon
  <2>2. {name[1], name[2]} \in pairs
    BY <2>1, Zenon
  <2>3. {name[1], name[2]} \subseteq UNION pairs
    BY <2>2, Zenon
  <2>4. name[1] \in UNION pairs /\ name[2] \in UNION pairs
    BY <2>3, Zenon
  <2>5. name[1] \in YBNames /\ name[2] \in YBNames
    BY <2>4, Zenon DEF YBNames
  <2> QED
    BY <2>5, Zenon DEF Names
<1>2. ASSUME NEW m \in Markets
      PROVE  CollateralOf[m][1] \in Names /\ CollateralOf[m][2] \in Names
  <2> DEFINE pairs == {{CollateralOf[k][1], CollateralOf[k][2]} : k \in Markets}
  <2>1. {CollateralOf[m][1], CollateralOf[m][2]} \in pairs
    BY <1>2, Zenon
  <2>2. {CollateralOf[m][1], CollateralOf[m][2]} \subseteq UNION pairs
    BY <2>1, Zenon
  <2>3. CollateralOf[m][1] \in UNION pairs /\ CollateralOf[m][2] \in UNION pairs
    BY <2>2, Zenon
  <2>4. CollateralOf[m][1] \in CollateralNames /\ CollateralOf[m][2] \in CollateralNames
    BY <2>3, Zenon DEF CollateralNames
  <2> QED
    BY <2>4, Zenon DEF Names
<1>3. ASSUME NEW c
      PROVE  MarketsRegistered(c) \subseteq Markets
  BY <1>3 DEF MarketsRegistered, Markets, BBMarkets, SGLMarkets
<1> QED
  BY <1>1, <1>2, <1>3

LEMMA AddressesAreTyped ==
    /\ NoAddress \in Address /\ NoAsset \in Asset /\ mainAssetId \in Asset
    /\ \A g \in Nat, name \in Names : Deployed(name, g) \in Address
    /\ \A g, k \in Nat : UsdoAsset(g, k) \in Asset
    /\ \A g \in Nat : \A name : name[1] \in Names /\ name[2] \in Names
                               => CollateralAsset(name, g) \in Asset
    /\ NoInit \in InitArgs /\ NoCalls \in CallsOK /\ NewMarket \in MarketOK
<1>1. ASSUME NEW g \in Nat, NEW name \in Names
      PROVE  Deployed(name, g) \in Address /\ External(name) \in Address
  BY DEF Deployed, External, Address
<1>2. ASSUME NEW a \in Address, NEW b \in Address
      PROVE  <<a, b>> \in Asset
  BY DEF Asset
<1>3. NoAddress \in Address /\ NoAsset \in Asset
  <2>1. NoAddress \in Address
    BY DEF NoAddress, Address, Names
  <2> QED
    BY <2>1, <1>2 DEF NoAsset
<1>4. mainAssetId \in Asset
  <2>1. External("WETH") \in Address /\ External("WETH_YB_EMPTY_STRAT") \in Address
    BY DEF External, Address, Names
  <2> QED
    BY <2>1, <1>2 DEF mainAssetId
<1>5. ASSUME NEW g \in Nat, NEW k \in Nat
      PROVE  UsdoAsset(g, k) \in Asset
  <2>1. "USDO" \in Names /\ "YB_USDO_ASSET_WITHOUT_STRATEGY" \in Names
    BY DEF Names
  <2> QED
    BY <2>1, <1>1, <1>2 DEF UsdoAsset, UsdoStrategy
<1>6. ASSUME NEW g \in Nat, NEW name, name[1] \in Names, name[2] \in Names
      PROVE  CollateralAsset(name, g) \in Asset
  BY <1>1, <1>2, <1>6 DEF CollateralAsset
<1>7. NoInit \in InitArgs
  BY <1>3 DEF NoInit, InitArgs
<1>8. NoCalls \in CallsOK
  BY <1>3, <1>7 DEF NoCalls, CallsOK
<1>9. NewMarket \in MarketOK
  BY <1>3 DEF NewMarket, MarketOK
<1> QED
  BY <1>1, <1>3, <1>4, <1>5, <1>6, <1>7, <1>8, <1>9

LEMMA InitIsTyped == Init => TypeOK
<1> SUFFICES ASSUME Init PROVE TypeOK
  OBVIOUS
<1>1. /\ chain \in Chains /\ globals \subseteq {"postLbp", "final"}
      /\ generations \in 0..MaxGenerations /\ strategies \in Nat /\ faults \in 0..MaxFaults
  BY BoundsAssumption DEF Init
<1>2. db \in [gen : 0..generations, usdoAsset : Asset] /\ assets \subseteq Asset
  BY AddressesAreTyped DEF Init
<1>3. penrose \in [Generations ->
          [usdoToken : Address, usdoAssetId : Asset, masters : SUBSET MasterNames,
           registered : SUBSET Markets, ethMarket : BOOLEAN]]
  BY AddressesAreTyped DEF Init, NewPenrose
<1>4. usdo \in [Generations ->
          [flashLoanHelper : BOOLEAN, minters : SUBSET Minters, burners : SUBSET Minters,
           peered : BOOLEAN]]
  BY DEF Init, NewUsdo
<1>5. markets \in [Generations -> [Markets -> MarketOK]]
  BY AddressesAreTyped DEF Init
<1>6. pending \in Seq([kind : {"asset", "multicall"}, gen : 1..generations,
                        calls : CallsOK, awaited : BOOLEAN])
  BY DEF Init
<1>7. /\ task \in [step : Steps, gen : 0..generations, asset : Asset, calls : CallsOK]
      /\ task.step = "idle"
  BY AddressesAreTyped DEF Init, Idle, Steps
<1> QED
  BY <1>1, <1>2, <1>3, <1>4, <1>5, <1>6, <1>7 DEF TypeOK, At

(* A run that is under way is about a generation that was deployed.        *)
LEMMA RunIsTyped ==
    ASSUME TypeOK
    PROVE  /\ task.step \in Steps /\ task.asset \in Asset /\ task.calls \in CallsOK
           /\ task.step \notin {"idle", "execute"}
                => /\ task.gen \in Generations /\ task.gen \in 1..generations
                   /\ penrose[task.gen].masters \subseteq MasterNames
                   /\ penrose[task.gen].registered \subseteq Markets
                   /\ penrose[task.gen].ethMarket \in BOOLEAN
                   /\ usdo[task.gen].flashLoanHelper \in BOOLEAN
                   /\ usdo[task.gen].minters \subseteq Minters
                   /\ usdo[task.gen].burners \subseteq Minters
<1>1. task.step \in Steps /\ task.asset \in Asset /\ task.calls \in CallsOK
  BY DEF TypeOK
<1>2. ASSUME task.step \notin {"idle", "execute"}
      PROVE  task.gen \in Generations /\ task.gen \in 1..generations
  BY <1>2, BoundsAssumption DEF TypeOK, Generations
<1>3. ASSUME NEW g \in Generations
      PROVE  /\ penrose[g].masters \subseteq MasterNames
             /\ penrose[g].registered \subseteq Markets
             /\ penrose[g].ethMarket \in BOOLEAN
             /\ usdo[g].flashLoanHelper \in BOOLEAN
             /\ usdo[g].minters \subseteq Minters
             /\ usdo[g].burners \subseteq Minters
  BY <1>3 DEF TypeOK
<1> QED
  BY <1>1, <1>2, <1>3

(* A step that changes nothing on the chain.                               *)
LEMMA OffChainIsTyped ==
    ASSUME TypeOK, UNCHANGED <<chain, globals, chainVars>>,
           faults' \in 0..MaxFaults, db' \in [gen : 0..generations, usdoAsset : Asset],
           pending' \in Seq(Tx), task' \in Run, task'.step # "execute",
           task'.step # "idle" => task'.gen # 0
    PROVE  TypeOK'
<1>1. pending' \in Seq(Tx') /\ task' \in Run'
  BY DEF Tx, Run, chainVars
<1> QED
  BY <1>1 DEF TypeOK, chainVars, At, Tx, Run

LEMMA IdleIsTyped == TypeOK => Idle \in Run /\ Idle.step = "idle" /\ Idle.gen = 0
BY AddressesAreTyped DEF Idle, Run, Steps, TypeOK

(* A run goes on, with other calls or not.                                 *)
LEMMA RunGoesOn ==
    ASSUME TypeOK, task.step \notin {"idle", "execute"},
           NEW step \in Steps \ {"idle", "execute"}, NEW calls \in CallsOK
    PROVE  \A next \in {[task EXCEPT !.step = step],
                       [task EXCEPT !.step = step, !.calls = calls]} :
              next \in Run /\ next.step = step /\ next.gen = task.gen /\ next.gen # 0
<1>1. task \in Run /\ task.gen # 0
  BY DEF TypeOK, Run
<1>2. task.gen \in 0..generations /\ task.asset \in Asset /\ task.calls \in CallsOK
  BY <1>1 DEF Run
<1>3. [task EXCEPT !.step = step]
        = [step |-> step, gen |-> task.gen, asset |-> task.asset, calls |-> task.calls]
  BY <1>1 DEF Run
<1>4. [task EXCEPT !.step = step, !.calls = calls]
         = [step |-> step, gen |-> task.gen, asset |-> task.asset, calls |-> calls]
  <2> DEFINE moved == [task EXCEPT !.step = step]
  <2>1. moved = [step |-> step, gen |-> task.gen, asset |-> task.asset, calls |-> task.calls]
    BY <1>3
  <2> HIDE DEF moved
  <2>2. [moved EXCEPT !.calls = calls]
           = [step |-> step, gen |-> task.gen, asset |-> task.asset, calls |-> calls]
    BY <2>1
  <2> QED
    BY <2>2 DEF moved
<1> QED
  BY <1>1, <1>2, <1>3, <1>4 DEF Run

(* It pushes calls, and goes to the next function.                         *)
LEMMA PushIsTyped ==
    ASSUME TypeOK, task.step \notin {"idle", "execute"},
           UNCHANGED <<chain, globals, chainVars, faults>>,
           db' \in [gen : 0..generations, usdoAsset : Asset], pending' = pending,
           NEW step \in Steps \ {"idle", "execute"}, NEW calls \in CallsOK, Push(calls, step)
    PROVE  TypeOK'
<1>1. task' \in Run /\ task'.step = step /\ task'.gen # 0
  BY RunGoesOn DEF Push
<1>2. pending \in Seq(Tx) /\ faults \in 0..MaxFaults
  BY DEF TypeOK, Tx
<1> QED
  BY <1>1, <1>2, OffChainIsTyped

(* It ends.                                                                *)
LEMMA EndIsTyped ==
    ASSUME TypeOK, task' = Idle, UNCHANGED <<chain, globals, chainVars, db, pending, faults>>
    PROVE  TypeOK'
<1>1. /\ pending \in Seq(Tx) /\ faults \in 0..MaxFaults
      /\ db \in [gen : 0..generations, usdoAsset : Asset]
  BY DEF TypeOK, Tx
<1> QED
  BY <1>1, IdleIsTyped, OffChainIsTyped

(* It sends a transaction, the last of those that are under way.           *)
LEMMA SendIsTyped ==
    ASSUME TypeOK, task.step \notin {"idle", "execute"},
           NEW kind \in {"asset", "multicall"}, NEW step \in Steps \ {"idle", "execute"},
           Send(kind, step), UNCHANGED <<chain, globals, chainVars, db, faults>>
    PROVE  TypeOK'
<1>1. [kind |-> kind, gen |-> task.gen, calls |-> task.calls, awaited |-> TRUE] \in Tx
  BY RunIsTyped DEF Tx
<1>2. pending' \in Seq(Tx)
  BY <1>1 DEF TypeOK, Tx, Send
<1>3. task' \in Run /\ task'.step = step /\ task'.gen # 0
  BY RunGoesOn, RunIsTyped DEF Send, GoTo
<1>4. faults \in 0..MaxFaults /\ db \in [gen : 0..generations, usdoAsset : Asset]
  BY DEF TypeOK
<1> QED
  BY <1>2, <1>3, <1>4, OffChainIsTyped

LEMMA StartsAreTyped ==
    ASSUME TypeOK, DeployGlobals \/ StartFresh \/ Load \/ DeployFinal
    PROVE  TypeOK'
<1>1. CASE DeployGlobals
  <2>1. globals' \subseteq {"postLbp", "final"}
    BY <1>1 DEF DeployGlobals, TypeOK
  <2> QED
    BY <1>1, <2>1 DEF DeployGlobals, TypeOK, chainVars, At
<1>2. CASE StartFresh
  <2>1. task' \in Run /\ task'.step = "execute"
    BY <1>2 DEF StartFresh, GoTo, TypeOK, Run, Steps
  <2> QED
    BY <1>2, <2>1 DEF StartFresh, TypeOK, chainVars, At, Run
<1> DEFINE Same == /\ pending \in Seq(Tx) /\ faults \in 0..MaxFaults
                   /\ db \in [gen : 0..generations, usdoAsset : Asset]
<1>3. Same
  BY DEF TypeOK, Tx
<1>4. CASE Load
  <2>1. task' \in Run /\ task'.step = "setLzPeer" /\ task'.gen # 0
    BY <1>4, <1>3 DEF Load, TypeOK, Run, Steps
  <2> QED
    BY <1>4, <2>1, <1>3, OffChainIsTyped DEF Load
<1>5. CASE DeployFinal
  <2>1. [NoCalls EXCEPT !.assetOracles = BBMarkets] \in CallsOK
    BY AddressesAreTyped DEF CallsOK
  <2>2. task' \in Run /\ task'.step = "submitFinal" /\ task'.gen # 0
    BY <1>5, <1>3, <2>1, IdleIsTyped DEF DeployFinal, Run, Steps
  <2> QED
    BY <1>5, <2>2, <1>3, OffChainIsTyped DEF DeployFinal
<1> QED
  BY <1>1, <1>2, <1>4, <1>5

(* The calls stay of their type when some are pushed.                      *)
LEMMA CallsStayTyped ==
    ASSUME NEW c \in CallsOK
    PROVE  /\ \A a \in Asset : [c EXCEPT !.usdoAsset = a] \in CallsOK
           /\ \A n \in SUBSET MasterNames : [c EXCEPT !.masters = n] \in CallsOK
           /\ \A n \in SUBSET Markets : [c EXCEPT !.registered = n] \in CallsOK
           /\ \A b \in BOOLEAN : [c EXCEPT !.ethMarket = b] \in CallsOK
           /\ \A b \in BOOLEAN : [c EXCEPT !.flashLoanHelper = b] \in CallsOK
           /\ \A n \in SUBSET Minters : [c EXCEPT !.minters = n] \in CallsOK
           /\ \A n \in SUBSET Minters : [c EXCEPT !.burners = n] \in CallsOK
           /\ \A n \in SUBSET Asset : [c EXCEPT !.assets = n] \in CallsOK
           /\ \A i \in [Markets -> InitArgs] : [c EXCEPT !.inits = i] \in CallsOK
BY DEF CallsOK

LEMMA AssetsAreTyped ==
    ASSUME TypeOK, NEW g \in Nat
    PROVE  /\ \A name \in YBAssets(chain) : CollateralAsset(name, g) \in Asset
           /\ \A m \in Markets : /\ collateralId(g, m) \in Asset
                                /\ initBBMarket(g, m) \in InitArgs
                                /\ initSGLMarket(g, m) \in InitArgs
<1>1. chain \in SupportedChains
  BY ChainsAssumption DEF TypeOK
<1>2. \A name \in YBAssets(chain) : CollateralAsset(name, g) \in Asset
  BY <1>1, NamesAreNames, AddressesAreTyped
<1>3. \A a \in Asset : ids(a) \in Asset
  BY AddressesAreTyped DEF ids
<1>4. ASSUME NEW m \in Markets
      PROVE  collateralId(g, m) \in Asset
  <2>1. CollateralAsset(CollateralOf[m], g) \in Asset
    BY <1>4, NamesAreNames, AddressesAreTyped
  <2> QED
    BY <2>1, <1>3 DEF collateralId
<1>5. ids(<<Deployed("USDO", g), db.usdoAsset[2]>>) \in Asset
  <2>1. db.usdoAsset[2] \in Address
    BY DEF TypeOK, Asset
  <2>2. Deployed("USDO", g) \in Address
    BY AddressesAreTyped DEF Names
  <2>3. <<Deployed("USDO", g), db.usdoAsset[2]>> \in Asset
    BY <2>1, <2>2 DEF Asset
  <2> QED
    BY <2>3, <1>3
<1> QED
  BY <1>2, <1>4, <1>5, AddressesAreTyped DEF initBBMarket, initSGLMarket, InitArgs

LEMMA FirstSetupIsTyped ==
    ASSUME TypeOK,
           \/ SetupUsdoInPenrose \/ SaveUsdoAsset \/ SetupRegisterMC
           \/ SetupRegisterBBAndSGLMarkets \/ SetupRegisterBigBangEthMarket
           \/ SetupUsdoFlashloanHelper \/ SetupCreateYBAssets
    PROVE  TypeOK'
<1> DEFINE calls == task.calls
<1>1. calls \in CallsOK /\ task.asset \in Asset /\ db \in [gen : 0..generations, usdoAsset : Asset]
  BY RunIsTyped DEF TypeOK
<1>2. {"createAsset", "setupRegisterMC", "setupRegisterMarkets", "setupRegisterEthMarket",
       "setupFlashloanHelper", "setupCreateYBAssets", "submit1"}
       \subseteq Steps \ {"idle", "execute"}
  BY DEF Steps
<1>3. ASSUME NEW asset \in Asset, PushUsdoToken(asset), ~At("idle"), ~At("execute"),
             db' \in [gen : 0..generations, usdoAsset : Asset], pending' = pending,
             UNCHANGED <<chain, globals, chainVars, faults>>
      PROVE  TypeOK'
  <2>1. [calls EXCEPT !.usdoAsset = asset] \in CallsOK
    BY <1>1, <1>3, CallsStayTyped
  <2> QED
    BY <2>1, <1>1, <1>2, <1>3, PushIsTyped DEF PushUsdoToken, At
<1>4. CASE SetupUsdoInPenrose
  <2>1. CASE UsdoEntryIsValid(task.gen)
    BY <2>1, <1>1, <1>3, <1>4 DEF SetupUsdoInPenrose, At
  <2>2. CASE ~UsdoEntryIsValid(task.gen)
    BY <2>2, <1>2, <1>4, SendIsTyped DEF SetupUsdoInPenrose, At
  <2> QED
    BY <2>1, <2>2
<1>5. CASE SaveUsdoAsset
  <2>1. db' \in [gen : 0..generations, usdoAsset : Asset]
    BY <1>1, <1>5 DEF SaveUsdoAsset
  <2> QED
    BY <2>1, <1>1, <1>3, <1>5 DEF SaveUsdoAsset, At
<1>6. CASE SetupRegisterMC
  <2>1. MastersToRegister(task.gen) \in SUBSET MasterNames
    BY DEF MastersToRegister, MasterContracts, MasterNames
  <2>2. [calls EXCEPT !.masters = MastersToRegister(task.gen)] \in CallsOK
    BY <1>1, <2>1, CallsStayTyped
  <2> QED
    BY <2>2, <1>1, <1>2, <1>6, PushIsTyped DEF SetupRegisterMC, At
<1>7. CASE SetupRegisterBBAndSGLMarkets
  <2>1. MarketsRegistered(chain) \ penrose[task.gen].registered \in SUBSET Markets
    BY NamesAreNames
  <2>2. [calls EXCEPT !.registered = MarketsRegistered(chain) \ penrose[task.gen].registered]
           \in CallsOK
    BY <1>1, <2>1, CallsStayTyped
  <2> QED
    BY <2>2, <1>1, <1>2, <1>7, PushIsTyped DEF SetupRegisterBBAndSGLMarkets, At
<1>8. CASE SetupRegisterBigBangEthMarket
  <2>1. [calls EXCEPT !.ethMarket = ~penrose[task.gen].ethMarket] \in CallsOK
    BY <1>1, CallsStayTyped
  <2>2. CASE "BB_MT_ETH_MARKET" \in DeployedNames(chain)
    BY <2>1, <2>2, <1>1, <1>2, <1>8, PushIsTyped DEF SetupRegisterBigBangEthMarket, At
  <2>3. CASE "BB_MT_ETH_MARKET" \notin DeployedNames(chain)
    BY <2>3, <1>8, EndIsTyped DEF SetupRegisterBigBangEthMarket
  <2> QED
    BY <2>2, <2>3
<1>9. CASE SetupUsdoFlashloanHelper
  <2> DEFINE c1 == [calls EXCEPT !.flashLoanHelper = ~usdo[task.gen].flashLoanHelper]
             c2 == [c1 EXCEPT !.minters = FlashLoanMinters \ usdo[task.gen].minters]
             c3 == [c2 EXCEPT !.burners = FlashLoanMinters \ usdo[task.gen].burners]
  <2>1. c1 \in CallsOK
    BY <1>1, CallsStayTyped
  <2>2. c2 \in CallsOK
    <3> HIDE DEF c1
    <3> QED
      BY <2>1, CallsStayTyped DEF FlashLoanMinters, Minters
  <2>3. c3 \in CallsOK
    <3> HIDE DEF c2
    <3> QED
      BY <2>2, CallsStayTyped DEF FlashLoanMinters, Minters
  <2>4. Push(c3, "setupCreateYBAssets")
    BY <1>9, Zenon DEF SetupUsdoFlashloanHelper
  <2> HIDE DEF c3
  <2> QED
    BY <2>3, <2>4, <1>1, <1>2, <1>9, PushIsTyped DEF SetupUsdoFlashloanHelper, At
<1>10. CASE SetupCreateYBAssets
  <2> DEFINE new == {a \in CollateralAssets(task.gen) : ids(a) = NoAsset}
  <2>1. new \subseteq Asset
    BY AssetsAreTyped, RunIsTyped, <1>10 DEF CollateralAssets, SetupCreateYBAssets, At
  <2>2. [calls EXCEPT !.assets = new] \in CallsOK
    BY <1>1, <2>1, CallsStayTyped
  <2>3. CASE \A name \in YBAssets(chain) : name[2] \in DeployedNames(chain)
    BY <2>2, <2>3, <1>1, <1>2, <1>10, PushIsTyped DEF SetupCreateYBAssets, At
  <2>4. CASE ~\A name \in YBAssets(chain) : name[2] \in DeployedNames(chain)
    BY <2>4, <1>10, EndIsTyped DEF SetupCreateYBAssets
  <2> QED
    BY <2>3, <2>4
<1> QED
  BY <1>4, <1>5, <1>6, <1>7, <1>8, <1>9, <1>10

LEMMA SecondSetupIsTyped ==
    ASSUME TypeOK,
           \/ SetupInitAndRegisterMarket \/ SetupRegisterBBAsMinterBurner \/ ExecuteMulticall
    PROVE  TypeOK'
<1>1. {"setupMinters", "submit2", "await1", "await2", "awaitFinal"}
         \subseteq Steps \ {"idle", "execute"}
  BY DEF Steps
<1>2. db \in [gen : 0..generations, usdoAsset : Asset] /\ task.calls \in CallsOK
  BY DEF TypeOK
<1>3. CASE SetupInitAndRegisterMarket
  <2> DEFINE g == task.gen
             todo == {m \in MarketsInitialised(chain) : ~IsInitialised(g, m)}
             inits == [m \in Markets |-> IF m \notin todo THEN NoInit
                                         ELSE IF m \in BBMarkets THEN initBBMarket(g, m)
                                         ELSE initSGLMarket(g, m)]
             known == \A m \in todo : /\ CollateralOf[m][2] \in DeployedNames(chain)
                                      /\ collateralId(g, m) # NoAsset
  <2>1. inits \in [Markets -> InitArgs]
    BY <1>3, RunIsTyped, AssetsAreTyped, AddressesAreTyped
       DEF SetupInitAndRegisterMarket, At, Generations
  <2>2. [NoCalls EXCEPT !.inits = inits] \in CallsOK
    <3> HIDE DEF inits
    <3> QED
      BY <2>1, CallsStayTyped, AddressesAreTyped
  <2>3. IF known THEN Push([NoCalls EXCEPT !.inits = inits], "setupMinters") ELSE task' = Idle
    BY <1>3, Zenon DEF SetupInitAndRegisterMarket
  <2> HIDE DEF inits, known
  <2>4. CASE known
    BY <2>2, <2>3, <2>4, <1>1, <1>2, <1>3, PushIsTyped DEF SetupInitAndRegisterMarket, At
  <2>5. CASE ~known
    BY <2>3, <2>5, <1>3, EndIsTyped DEF SetupInitAndRegisterMarket
  <2> QED
    BY <2>4, <2>5
<1>4. CASE SetupRegisterBBAsMinterBurner
  <2> DEFINE todo == MintingMarkets \ usdo[task.gen].minters
             c1 == [task.calls EXCEPT !.minters = todo]
             c2 == [c1 EXCEPT !.burners = todo]
  <2>1. todo \in SUBSET Minters
    BY DEF MintingMarkets, Minters
  <2> HIDE DEF todo
  <2>2. c1 \in CallsOK
    BY <1>2, <2>1, CallsStayTyped
  <2>3. c2 \in CallsOK
    <3> HIDE DEF c1
    <3> QED
      BY <2>1, <2>2, CallsStayTyped
  <2>4. Push(c2, "submit2")
    BY <1>4, Zenon DEF SetupRegisterBBAsMinterBurner, todo
  <2> HIDE DEF c2
  <2> QED
    BY <2>3, <2>4, <1>1, <1>2, <1>4, PushIsTyped DEF SetupRegisterBBAsMinterBurner, At
<1>5. CASE ExecuteMulticall
  <2>1. task.step \notin {"idle", "execute"}
    BY <1>5 DEF ExecuteMulticall, At
  <2>2. \E step \in {"await1", "await2", "awaitFinal"} : Send("multicall", step)
    BY <1>5 DEF ExecuteMulticall
  <2> QED
    BY <2>1, <2>2, <1>1, <1>5, SendIsTyped DEF ExecuteMulticall
<1> QED
  BY <1>3, <1>4, <1>5

LEMMA DeploymentIsTyped ==
    ASSUME TypeOK, Execute \/ Save \/ SetLzPeer
    PROVE  TypeOK'
<1>1. {"save", "setLzPeer", "setupUsdoInPenrose"} \subseteq Steps \ {"idle", "execute"}
  BY DEF Steps
<1>2. pending \in Seq(Tx) /\ faults \in 0..MaxFaults /\ task \in Run
  BY DEF TypeOK, Tx, Run
<1>3. CASE Execute
  <2>1. generations' \in 1..MaxGenerations /\ generations' = generations + 1
    BY <1>3, BoundsAssumption DEF Execute, At, TypeOK
  <2>2. \A e \in Tx : e \in Tx'
    BY <2>1 DEF Tx, TypeOK
  <2>3. pending' \in Seq(Tx')
    BY <2>2, <1>2, <1>3 DEF Execute
  <2>4. task'
          = [step |-> "save", gen |-> generations + 1, asset |-> task.asset, calls |-> task.calls]
    <3> DEFINE saved == [task EXCEPT !.step = "save"]
    <3>1. saved = [step |-> "save", gen |-> task.gen, asset |-> task.asset, calls |-> task.calls]
      BY <1>2 DEF Run
    <3> HIDE DEF saved
    <3>2. [saved EXCEPT !.gen = generations + 1]
             = [step |-> "save", gen |-> generations + 1, asset |-> task.asset,
               calls |-> task.calls]
      BY <3>1
    <3> QED
      BY <3>2, <1>3, Zenon DEF Execute, saved
  <2>5. task' \in Run' /\ task'.step = "save" /\ task'.gen # 0
    BY <2>1, <2>4, <1>1, <1>2 DEF Run, TypeOK
  <2>6. db' \in [gen : 0..generations', usdoAsset : Asset]
    BY <2>1, <1>3 DEF Execute, TypeOK
  <2> QED
    BY <2>1, <2>3, <2>5, <2>6, <1>3 DEF Execute, TypeOK, At, Tx, Run
<1>4. CASE Save
  <2>1. task' \in Run /\ task'.step = "setLzPeer" /\ task'.gen # 0
    BY <1>1, <1>4, RunGoesOn, RunIsTyped DEF Save, GoTo, At
  <2>2. db' \in [gen : 0..generations, usdoAsset : Asset]
    BY <1>4 DEF Save, TypeOK
  <2> QED
    BY <2>1, <2>2, <1>2, <1>4, OffChainIsTyped DEF Save
<1>5. CASE SetLzPeer
  <2>1. task' \in Run /\ task'.step = "setupUsdoInPenrose" /\ task'.gen # 0
    BY <1>1, <1>5, RunGoesOn, RunIsTyped DEF SetLzPeer, GoTo, At
  <2>2. usdo' \in [Generations ->
            [flashLoanHelper : BOOLEAN, minters : SUBSET Minters, burners : SUBSET Minters,
             peered : BOOLEAN]]
    <3>1. CASE noLzPeer
      BY <1>5, <3>1 DEF SetLzPeer, TypeOK
    <3>2. CASE ~noLzPeer
      <4>1. usdo' = [usdo EXCEPT ![task.gen] = [usdo[task.gen] EXCEPT !.peered = TRUE]]
        BY <1>5, <3>2 DEF SetLzPeer
      <4>2. task.gen \in Generations
        BY <1>5, RunIsTyped DEF SetLzPeer, At
      <4>3. [usdo[task.gen] EXCEPT !.peered = TRUE] \in
               [flashLoanHelper : BOOLEAN, minters : SUBSET Minters,
                burners : SUBSET Minters, peered : BOOLEAN]
        <5>1. usdo[task.gen] \in
                 [flashLoanHelper : BOOLEAN, minters : SUBSET Minters,
                  burners : SUBSET Minters, peered : BOOLEAN]
          BY <4>2 DEF TypeOK
        <5> QED
          BY <5>1
      <4> QED
        BY <4>1, <4>2, <4>3 DEF TypeOK
    <3> QED
      BY <3>1, <3>2
  <2> QED
    BY <2>1, <2>2, <1>5 DEF SetLzPeer, TypeOK, At, Run
<1> QED
  BY <1>3, <1>4, <1>5

-----------------------------------------------------------------------------
LEMMA HeadIsTyped ==
    ASSUME TypeOK, pending # <<>>
    PROVE  /\ Head(pending) \in Tx /\ Tail(pending) \in Seq(Tx)
           /\ Head(pending).gen \in Generations
<1>1. pending \in Seq(Tx) /\ generations \in 0..MaxGenerations
  BY DEF TypeOK, Tx
<1>2. Head(pending) \in Tx /\ Tail(pending) \in Seq(Tx)
  BY <1>1
<1> QED
  BY <1>1, <1>2, BoundsAssumption DEF Tx, Generations

(* What the calls of a multicall leave is of its type.                     *)
LEMMA ApplyIsTyped ==
    ASSUME TypeOK, NEW g \in Generations, NEW calls \in CallsOK, Apply(g, calls)
    PROVE  /\ assets' \subseteq Asset
           /\ penrose' \in [Generations ->
                 [usdoToken : Address, usdoAssetId : Asset, masters : SUBSET MasterNames,
                  registered : SUBSET Markets, ethMarket : BOOLEAN]]
           /\ usdo' \in [Generations ->
                 [flashLoanHelper : BOOLEAN, minters : SUBSET Minters,
                  burners : SUBSET Minters, peered : BOOLEAN]]
           /\ markets' \in [Generations -> [Markets -> MarketOK]]
<1>1. /\ calls.usdoAsset \in Asset /\ calls.masters \subseteq MasterNames
      /\ calls.registered \subseteq Markets /\ calls.ethMarket \in BOOLEAN
      /\ calls.flashLoanHelper \in BOOLEAN /\ calls.minters \subseteq Minters
      /\ calls.burners \subseteq Minters /\ calls.assets \subseteq Asset
      /\ calls.inits \in [Markets -> InitArgs] /\ calls.assetOracles \subseteq BBMarkets
  BY DEF CallsOK
<1>2. /\ penrose[g] \in [usdoToken : Address, usdoAssetId : Asset,
                         masters : SUBSET MasterNames, registered : SUBSET Markets,
                         ethMarket : BOOLEAN]
      /\ usdo[g] \in [flashLoanHelper : BOOLEAN, minters : SUBSET Minters,
                      burners : SUBSET Minters, peered : BOOLEAN]
      /\ markets[g] \in [Markets -> MarketOK]
  BY DEF TypeOK
<1>3. /\ Deployed("USDO", g) \in Address /\ Deployed("PENROSE", g) \in Address
  <2>1. "USDO" \in Names /\ "PENROSE" \in Names
    BY DEF Names
  <2>2. g \in Nat
    BY BoundsAssumption DEF Generations
  <2> QED
    BY <2>1, <2>2, AddressesAreTyped
<1>4. assets' \subseteq Asset
  BY <1>1 DEF Apply, TypeOK
<1>5. penrose' \in [Generations ->
         [usdoToken : Address, usdoAssetId : Asset, masters : SUBSET MasterNames,
          registered : SUBSET Markets, ethMarket : BOOLEAN]]
  BY <1>1, <1>2, <1>3 DEF Apply, TypeOK
<1>6. usdo' \in [Generations ->
         [flashLoanHelper : BOOLEAN, minters : SUBSET Minters,
          burners : SUBSET Minters, peered : BOOLEAN]]
  BY <1>1, <1>2 DEF Apply, TypeOK
<1>7. ASSUME NEW m \in Markets
      PROVE  InitialisedMarket(g, m, calls.inits[m]) \in MarketOK
  <2>1. calls.inits[m].collateralId \in Asset /\ calls.inits[m].assetId \in Asset
    BY <1>1 DEF InitArgs
  <2> QED
    BY <2>1, <1>2, <1>3 DEF InitialisedMarket, MarketOK
<1>8. ASSUME NEW m \in Markets
      PROVE  [markets[g][m] EXCEPT !.assetOracle = TRUE] \in MarketOK
  BY <1>2, <1>8 DEF MarketOK
<1>9. [m \in Markets |->
         IF m \in ToInitialise(calls) THEN InitialisedMarket(g, m, calls.inits[m])
         ELSE IF m \in calls.assetOracles
              THEN [markets[g][m] EXCEPT !.assetOracle = TRUE]
              ELSE markets[g][m]] \in [Markets -> MarketOK]
  BY <1>2, <1>7, <1>8
<1>10. markets' \in [Generations -> [Markets -> MarketOK]]
  BY <1>9 DEF Apply, TypeOK
<1> QED
  BY <1>4, <1>5, <1>6, <1>10

(* A transaction that a run waits for is the only one under way.           *)
LEMMA AwaitedHead ==
    ASSUME TypeOK, AwaitedByRun, pending # <<>>, Head(pending).awaited
    PROVE  LET tx == Head(pending) IN
           /\ Tail(pending) = <<>> /\ tx.gen = task.gen /\ tx.calls = task.calls
           /\ IF tx.kind = "asset" THEN At("createAsset")
              ELSE task.step \in {"await1", "await2", "awaitFinal"}
<1>1. pending \in Seq(Tx)
  BY DEF TypeOK, Tx
<1>2. 1 \in DOMAIN pending /\ Head(pending) = pending[1]
  BY <1>1
<1>3. Len(pending) = 1
  BY <1>2 DEF AwaitedByRun
<1>4. Tail(pending) = <<>>
  <2>1. Tail(pending) \in Seq(Tx) /\ Len(Tail(pending)) = 0
    BY <1>1, <1>3
  <2> QED
    BY <2>1, EmptySeq
<1> QED
  BY <1>2, <1>4 DEF AwaitedByRun

(* Those under way when a run crashes go on without it.                    *)
LEMMA CrashLeaves ==
    ASSUME TypeOK, Crash
    PROVE  /\ pending' \in Seq(Tx) /\ DOMAIN pending' = DOMAIN pending
           /\ \A i \in DOMAIN pending :
                 /\ ~pending'[i].awaited /\ pending'[i].gen = pending[i].gen
                 /\ pending'[i].calls = pending[i].calls
<1>1. pending \in Seq(Tx)
  BY DEF TypeOK, Tx
<1>2. DOMAIN pending = 1..Len(pending) /\ Len(pending) \in Nat
  BY <1>1
<1>3. ASSUME NEW i \in DOMAIN pending
      PROVE  /\ [pending[i] EXCEPT !.awaited = FALSE] \in Tx
             /\ [pending[i] EXCEPT !.awaited = FALSE].gen = pending[i].gen
             /\ [pending[i] EXCEPT !.awaited = FALSE].calls = pending[i].calls
             /\ [pending[i] EXCEPT !.awaited = FALSE].awaited = FALSE
  <2>1. pending[i] \in Tx
    BY <1>1, <1>2, <1>3
  <2> QED
    BY <2>1 DEF Tx
<1>4. pending' = [i \in DOMAIN pending |-> [pending[i] EXCEPT !.awaited = FALSE]]
  BY DEF Crash
<1>5. pending' \in [1..Len(pending) -> Tx]
  BY <1>2, <1>3, <1>4
<1>6. pending' \in Seq(Tx)
  BY <1>2, <1>5, SeqDef
<1> QED
  BY <1>3, <1>4, <1>6

LEMMA ChainIsTyped ==
    ASSUME TypeOK, AwaitedByRun, Mine \/ Crash
    PROVE  TypeOK'
<1>1. /\ faults \in 0..MaxFaults /\ task \in Run /\ strategies \in Nat /\ assets \subseteq Asset
      /\ db \in [gen : 0..generations, usdoAsset : Asset]
      /\ At("execute") => generations < MaxGenerations
      /\ task.step \notin {"idle", "execute"} => task.gen # 0
  BY DEF TypeOK, Run
<1>2. CASE CreateUsdoAsset
  <2> DEFINE tx == Head(pending)
             asset == UsdoAsset(tx.gen, strategies + 1)
             named == [task EXCEPT !.step = "saveAsset", !.asset = asset]
  <2>1. tx \in Tx /\ Tail(pending) \in Seq(Tx) /\ tx.gen \in Generations
    BY <1>2, HeadIsTyped DEF CreateUsdoAsset
  <2>2. asset \in Asset
    BY <2>1, <1>1, AddressesAreTyped, BoundsAssumption DEF Generations
  <2>3. tx.awaited => At("createAsset")
    BY <1>2, AwaitedHead DEF CreateUsdoAsset
  <2> HIDE DEF tx, asset
  <2>4. /\ strategies' = strategies + 1 /\ assets' = assets \cup {asset}
        /\ task' = IF tx.awaited THEN named ELSE task
        /\ pending' = Tail(pending)
        /\ UNCHANGED <<chain, globals, generations, penrose, usdo, markets, db, faults>>
    BY <1>2, Zenon DEF CreateUsdoAsset, Resume, tx, asset
  <2>5. /\ named = [step |-> "saveAsset", gen |-> task.gen, asset |-> asset, calls |-> task.calls]
    <3> DEFINE moved == [task EXCEPT !.step = "saveAsset"]
    <3>1. moved
            = [step |-> "saveAsset", gen |-> task.gen, asset |-> task.asset, calls |-> task.calls]
      BY <1>1 DEF Run
    <3> HIDE DEF moved
    <3>2. [moved EXCEPT !.asset = asset]
            = [step |-> "saveAsset", gen |-> task.gen, asset |-> asset, calls |-> task.calls]
      BY <3>1
    <3> QED
      BY <3>2, Zenon DEF moved
  <2> HIDE DEF named
  <2>6. /\ task' \in Run /\ (task'.step = "execute" => task.step = "execute")
        /\ task'.step \notin {"idle", "execute"} => task'.gen # 0
    BY <2>2, <2>3, <2>4, <2>5, <1>1 DEF Run, Steps, At
  <2>7. strategies' \in Nat /\ assets' \subseteq Asset
    BY <2>2, <2>4, <1>1
  <2> QED
    BY <2>1, <2>4, <2>6, <2>7, <1>1 DEF TypeOK, Tx, Run, At
<1>3. CASE MulticallSucceeds
  <2> DEFINE tx == Head(pending)
  <2>1. tx \in Tx /\ Tail(pending) \in Seq(Tx) /\ tx.gen \in Generations
    BY <1>3, HeadIsTyped DEF MulticallSucceeds
  <2>2. tx.awaited => task.step \in {"await1", "await2", "awaitFinal"}
    BY <1>3, AwaitedHead DEF MulticallSucceeds
  <2>3. /\ Apply(tx.gen, tx.calls) /\ pending' = Tail(pending)
        /\ task' = IF tx.awaited THEN AfterMulticall ELSE task
        /\ UNCHANGED <<chain, globals, generations, strategies, db, faults>>
    BY <1>3, Zenon DEF MulticallSucceeds, Resume
  <2>4. tx.calls \in CallsOK
    BY <2>1 DEF Tx
  <2> HIDE DEF tx
  <2>5. AfterMulticall \in Run /\ AfterMulticall.step # "execute"
        /\ (AfterMulticall.step # "idle" => task.step = "await1" /\ AfterMulticall.gen = task.gen)
    <3>1. [task EXCEPT !.step = "setupInitMarkets", !.calls = NoCalls]
             = [step |-> "setupInitMarkets", gen |-> task.gen, asset |-> task.asset,
               calls |-> NoCalls]
      <4> DEFINE moved == [task EXCEPT !.step = "setupInitMarkets"]
      <4>1. moved = [step |-> "setupInitMarkets", gen |-> task.gen, asset |-> task.asset,
                     calls |-> task.calls]
        BY <1>1 DEF Run
      <4> HIDE DEF moved
      <4>2. [moved EXCEPT !.calls = NoCalls]
               = [step |-> "setupInitMarkets", gen |-> task.gen, asset |-> task.asset,
                  calls |-> NoCalls]
        BY <4>1
      <4> QED
        BY <4>2, Zenon DEF moved
    <3>2. [step |-> "setupInitMarkets", gen |-> task.gen, asset |-> task.asset, calls |-> NoCalls]
             \in Run
      BY <1>1, AddressesAreTyped DEF Run, Steps
    <3> QED
      BY <3>1, <3>2, IdleIsTyped DEF AfterMulticall, At
  <2>6. /\ task' \in Run /\ (task'.step = "execute" => task.step = "execute")
        /\ task'.step \notin {"idle", "execute"} => task'.gen # 0
    BY <2>2, <2>3, <2>5, <1>1
  <2>7. /\ assets' \subseteq Asset
        /\ penrose' \in [Generations ->
              [usdoToken : Address, usdoAssetId : Asset, masters : SUBSET MasterNames,
               registered : SUBSET Markets, ethMarket : BOOLEAN]]
        /\ usdo' \in [Generations ->
              [flashLoanHelper : BOOLEAN, minters : SUBSET Minters,
               burners : SUBSET Minters, peered : BOOLEAN]]
        /\ markets' \in [Generations -> [Markets -> MarketOK]]
    BY <2>1, <2>3, <2>4, ApplyIsTyped
  <2> QED
    BY <2>1, <2>3, <2>6, <2>7, <1>1 DEF TypeOK, Tx, Run, At
<1>4. CASE MulticallReverts
  <2> DEFINE tx == Head(pending)
  <2>1. Tail(pending) \in Seq(Tx)
    BY <1>4, HeadIsTyped DEF MulticallReverts
  <2>2. /\ pending' = Tail(pending) /\ faults' \in 0..MaxFaults
        /\ task' = IF tx.awaited THEN Idle ELSE task
        /\ UNCHANGED <<chain, globals, chainVars, db>>
    BY <1>1, <1>4, BoundsAssumption DEF MulticallReverts, Resume
  <2>3. /\ task' \in Run /\ (task'.step = "execute" => task.step = "execute")
        /\ task'.step \notin {"idle", "execute"} => task'.gen # 0
    BY <2>2, IdleIsTyped, <1>1
  <2> QED
    BY <2>1, <2>2, <2>3, <1>1 DEF TypeOK, Tx, Run, At, chainVars
<1>5. CASE Crash
  <2>1. pending' \in Seq(Tx)
    BY <1>5, CrashLeaves
  <2>2. faults' \in 0..MaxFaults
    BY <1>1, <1>5, BoundsAssumption DEF Crash
  <2> QED
    BY <2>1, <2>2, <1>1, <1>5, IdleIsTyped, OffChainIsTyped DEF Crash
<1> QED
  BY <1>2, <1>3, <1>4, <1>5 DEF Mine

-----------------------------------------------------------------------------
(* A run that waits for nothing finds no transaction that is waited for.   *)
LEMMA NobodyWaits ==
    ASSUME TypeOK, AwaitedByRun,
           task.step \notin {"createAsset", "await1", "await2", "awaitFinal"}
    PROVE  \A i \in DOMAIN pending : ~pending[i].awaited
BY DEF AwaitedByRun, At

(* What is left when the oldest transaction is executed.                   *)
LEMMA TailOfPending ==
    ASSUME TypeOK, pending # <<>>, pending' = Tail(pending)
    PROVE  /\ Len(pending') = Len(pending) - 1
           /\ \A i \in DOMAIN pending' : i + 1 \in DOMAIN pending /\ pending'[i] = pending[i + 1]
<1>1. pending \in Seq(Tx)
  BY DEF TypeOK, Tx
<1>2. /\ Tail(pending) \in Seq(Tx) /\ Len(Tail(pending)) = Len(pending) - 1
      /\ \A i \in 1..Len(Tail(pending)) : Tail(pending)[i] = pending[i + 1]
  BY <1>1, HeadTailProperties
<1>3. DOMAIN Tail(pending) = 1..Len(Tail(pending)) /\ DOMAIN pending = 1..Len(pending)
      /\ Len(pending) \in Nat
  BY <1>1, <1>2
<1> QED
  BY <1>2, <1>3

LEMMA AwaitedStays ==
    ASSUME TypeOK, AwaitedByRun, [Next]_vars
    PROVE  AwaitedByRun'
<1> DEFINE Waiting == task.step \in {"createAsset", "await1", "await2", "awaitFinal"}
<1>1. CASE pending' = pending /\ ~Waiting
  BY <1>1, NobodyWaits DEF AwaitedByRun
<1>2. CASE pending' = pending /\ task' = task
  BY <1>2 DEF AwaitedByRun, At
<1>3. ASSUME NEW kind, NEW step, Send(kind, step), ~Waiting,
             <<kind, step>> \in {<<"asset", "createAsset">>, <<"multicall", "await1">>,
                                <<"multicall", "await2">>, <<"multicall", "awaitFinal">>}
      PROVE  AwaitedByRun'
  <2> DEFINE tx == [kind |-> kind, gen |-> task.gen, calls |-> task.calls, awaited |-> TRUE]
  <2>1. pending \in Seq(Tx) /\ pending' = Append(pending, tx) /\ task \in Run
    BY <1>3 DEF TypeOK, Tx, Send, Run
  <2>2. task'.step = step /\ task'.gen = task.gen /\ task'.calls = task.calls
    BY <1>3, <2>1 DEF Send, GoTo, Run
  <2>3. \A i \in DOMAIN pending : ~pending[i].awaited
    BY <1>3, NobodyWaits
  <2>4. ASSUME NEW i \in DOMAIN pending', pending'[i].awaited
        PROVE  i = Len(pending') /\ pending'[i] = tx
    BY <2>1, <2>3, <2>4
  <2> QED
    BY <2>2, <2>4, <1>3 DEF AwaitedByRun, At
<1>4. ASSUME pending # <<>>, pending' = Tail(pending), ~Head(pending).awaited => task' = task
      PROVE  AwaitedByRun'
  <2>1. CASE Head(pending).awaited
    <3>1. DOMAIN pending' = {}
      BY <1>4, <2>1, AwaitedHead
    <3> QED
      BY <3>1 DEF AwaitedByRun
  <2>2. CASE ~Head(pending).awaited
    <3>1. pending \in Seq(Tx) /\ Len(pending) \in Nat /\ DOMAIN pending = 1..Len(pending)
      BY DEF TypeOK, Tx
    <3>2. ASSUME NEW i \in DOMAIN pending', pending'[i].awaited
          PROVE  /\ i + 1 = Len(pending) /\ pending'[i] = pending[i + 1]
                 /\ i + 1 \in DOMAIN pending /\ i \in Int
      <4>1. i + 1 \in DOMAIN pending /\ pending'[i] = pending[i + 1]
        BY <1>4, <3>2, TailOfPending
      <4>2. i \in Int
        <5>1. pending' \in Seq(Tx)
          BY <1>4, <3>1
        <5> QED
          BY <5>1, <3>2
      <4> QED
        BY <4>1, <4>2, <3>2 DEF AwaitedByRun
    <3>3. Len(pending') = Len(pending) - 1 /\ task' = task
      BY <1>4, <2>2, TailOfPending
    <3>4. ASSUME NEW i \in DOMAIN pending', pending'[i].awaited
          PROVE  /\ i = Len(pending')
                 /\ pending'[i].gen = task'.gen /\ pending'[i].calls = task'.calls
                 /\ IF pending'[i].kind = "asset" THEN task'.step = "createAsset"
                    ELSE task'.step \in {"await1", "await2", "awaitFinal"}
      <4>1. i = Len(pending')
        BY <3>1, <3>2, <3>3, <3>4
      <4> QED
        BY <4>1, <3>2, <3>3, <3>4 DEF AwaitedByRun, At
    <3> QED
      BY <3>4 DEF AwaitedByRun, At
  <2> QED
    BY <2>1, <2>2
<1>5. CASE Crash
  BY <1>5, CrashLeaves DEF AwaitedByRun
<1>6. CASE Mine
  BY <1>6, <1>4 DEF Mine, CreateUsdoAsset, MulticallSucceeds, MulticallReverts, Resume
<1>7. CASE DeployGlobals \/ StartFresh \/ Load \/ DeployFinal
  BY <1>7, <1>1, <1>2 DEF DeployGlobals, StartFresh, Load, DeployFinal, At
<1>8. CASE TaskStep
  <2>1. CASE SetupUsdoInPenrose
    <3>1. CASE UsdoEntryIsValid(task.gen)
      BY <2>1, <3>1, <1>1 DEF SetupUsdoInPenrose, At
    <3>2. CASE ~UsdoEntryIsValid(task.gen)
      <4>1. Send("asset", "createAsset") /\ ~Waiting
        BY <2>1, <3>2 DEF SetupUsdoInPenrose, At
      <4> QED
        BY <4>1, <1>3
    <3> QED
      BY <3>1, <3>2
  <2>2. CASE ExecuteMulticall
    BY <2>2, <1>3 DEF ExecuteMulticall, At
  <2>3. CASE Execute \/ Save \/ SetLzPeer \/ SaveUsdoAsset \/ SetupRegisterMC
    BY <2>3, <1>1 DEF Execute, Save, SetLzPeer, SaveUsdoAsset, SetupRegisterMC, At
  <2>4. CASE \/ SetupRegisterBBAndSGLMarkets \/ SetupRegisterBigBangEthMarket
             \/ SetupUsdoFlashloanHelper \/ SetupCreateYBAssets
             \/ SetupInitAndRegisterMarket \/ SetupRegisterBBAsMinterBurner
    BY <2>4, <1>1
       DEF SetupRegisterBBAndSGLMarkets, SetupRegisterBigBangEthMarket,
           SetupUsdoFlashloanHelper, SetupCreateYBAssets, SetupInitAndRegisterMarket,
           SetupRegisterBBAsMinterBurner, At
  <2> QED
    BY <1>8, <2>1, <2>2, <2>3, <2>4 DEF TaskStep
<1>9. CASE UNCHANGED vars
  BY <1>9, <1>2 DEF vars
<1> QED
  BY <1>5, <1>6, <1>7, <1>8, <1>9 DEF Next

LEMMA TypeStays ==
    ASSUME TypeOK, AwaitedByRun, [Next]_vars
    PROVE  TypeOK'
<1>1. CASE UNCHANGED vars
  BY <1>1 DEF vars, chainVars, TypeOK, At
<1>2. CASE TaskStep
  BY <1>2, DeploymentIsTyped, FirstSetupIsTyped, SecondSetupIsTyped DEF TaskStep
<1> QED
  BY <1>1, <1>2, StartsAreTyped, ChainIsTyped DEF Next

LEMMA TypeCorrect == Spec => [](TypeOK /\ AwaitedByRun)
<1>1. Init => TypeOK /\ AwaitedByRun
  BY InitIsTyped DEF Init, AwaitedByRun
<1>2. TypeOK /\ AwaitedByRun /\ [Next]_vars => (TypeOK /\ AwaitedByRun)'
  BY TypeStays, AwaitedStays
<1> QED
  BY <1>1, <1>2, PTL DEF Spec

(* In every run of the tasks, of whatever number of deployments, crashes   *)
(* and transactions that land late, all the state is of its type, and a    *)
(* run is about a generation that was deployed (deployPostLbp__task_1).    *)
THEOREM DeploymentTypeCorrect == Spec => []TypeOK
BY TypeCorrect, PTL

-----------------------------------------------------------------------------
(* What changes a market or what Penrose has registered: a multicall.      *)
LEMMA OnlyMulticallsSetUp ==
    ASSUME [Next]_vars
    PROVE  \/ UNCHANGED <<penrose, markets>>
           \/ MulticallSucceeds
BY DEF Next, vars, chainVars, TaskStep, Mine, DeployGlobals, StartFresh, Load, DeployFinal, Crash,
       Execute, Save, SetLzPeer, SetupUsdoInPenrose, SaveUsdoAsset, SetupRegisterMC,
       SetupRegisterBBAndSGLMarkets, SetupRegisterBigBangEthMarket, SetupUsdoFlashloanHelper,
       SetupCreateYBAssets, SetupInitAndRegisterMarket, SetupRegisterBBAsMinterBurner,
       ExecuteMulticall, CreateUsdoAsset, MulticallReverts

(* A multicall registers, initialises and adds minters, and undoes none.   *)
LEMMA WhatAppliesIs ==
    ASSUME TypeOK, MulticallSucceeds
    PROVE  LET tx == Head(pending) IN
           /\ tx \in Tx /\ tx.gen \in Generations /\ pending # <<>> /\ pending' = Tail(pending)
           /\ penrose'[tx.gen].registered = penrose[tx.gen].registered \cup tx.calls.registered
           /\ usdo'[tx.gen].minters = usdo[tx.gen].minters \cup tx.calls.minters
           /\ usdo'[tx.gen].burners = usdo[tx.gen].burners \cup tx.calls.burners
           /\ \A m \in Markets :
                 IF m \in ToInitialise(tx.calls)
                 THEN markets'[tx.gen][m].penrose = Deployed("PENROSE", tx.gen)
                 ELSE markets'[tx.gen][m].penrose = markets[tx.gen][m].penrose
           /\ \A g \in Generations \ {tx.gen} :
                 penrose'[g] = penrose[g] /\ usdo'[g] = usdo[g] /\ markets'[g] = markets[g]
<1> DEFINE tx == Head(pending)
<1>1. tx \in Tx /\ tx.gen \in Generations
  BY HeadIsTyped DEF MulticallSucceeds
<1>2. Apply(tx.gen, tx.calls) /\ pending # <<>> /\ pending' = Tail(pending)
  BY DEF MulticallSucceeds
<1> HIDE DEF tx
<1>3. /\ penrose'[tx.gen].registered = penrose[tx.gen].registered \cup tx.calls.registered
      /\ \A g \in Generations \ {tx.gen} : penrose'[g] = penrose[g]
  BY <1>1, <1>2 DEF Apply, TypeOK
<1>4. /\ usdo'[tx.gen].minters = usdo[tx.gen].minters \cup tx.calls.minters
      /\ usdo'[tx.gen].burners = usdo[tx.gen].burners \cup tx.calls.burners
      /\ \A g \in Generations \ {tx.gen} : usdo'[g] = usdo[g]
  BY <1>1, <1>2 DEF Apply, TypeOK
<1>5. /\ markets'[tx.gen] = [m \in Markets |->
            IF m \in ToInitialise(tx.calls) THEN InitialisedMarket(tx.gen, m, tx.calls.inits[m])
            ELSE IF m \in tx.calls.assetOracles
                 THEN [markets[tx.gen][m] EXCEPT !.assetOracle = TRUE]
                 ELSE markets[tx.gen][m]]
      /\ \A g \in Generations \ {tx.gen} : markets'[g] = markets[g]
  BY <1>1, <1>2 DEF Apply, TypeOK
<1>6. ASSUME NEW m \in Markets
      PROVE  IF m \in ToInitialise(tx.calls)
             THEN markets'[tx.gen][m].penrose = Deployed("PENROSE", tx.gen)
             ELSE markets'[tx.gen][m].penrose = markets[tx.gen][m].penrose
  <2>1. InitialisedMarket(tx.gen, m, tx.calls.inits[m]).penrose = Deployed("PENROSE", tx.gen)
    BY DEF InitialisedMarket
  <2>2. markets[tx.gen][m] \in MarketOK
    BY <1>1 DEF TypeOK
  <2>3. [markets[tx.gen][m] EXCEPT !.assetOracle = TRUE].penrose = markets[tx.gen][m].penrose
    BY <2>2 DEF MarketOK
  <2> QED
    BY <1>5, <2>1, <2>3
<1> QED
  BY <1>1, <1>2, <1>3, <1>4, <1>5, <1>6 DEF tx

(* A market stays registered and initialised.                              *)
LEMMA SetUpStays ==
    ASSUME TypeOK, [Next]_vars
    PROVE  \A g \in Generations, m \in Markets :
              /\ IsInitialised(g, m) => markets'[g][m].penrose = Deployed("PENROSE", g)
              /\ m \in penrose[g].registered => m \in penrose'[g].registered
<1>1. CASE UNCHANGED <<penrose, markets>>
  BY <1>1 DEF IsInitialised
<1>2. CASE MulticallSucceeds
  BY <1>2, WhatAppliesIs DEF IsInitialised
<1> QED
  BY <1>1, <1>2, OnlyMulticallsSetUp

(* So calls that were covered stay so.                                     *)
LEMMA CoversStays ==
    ASSUME TypeOK, [Next]_vars
    PROVE  \A g \in Generations : \A calls : Covers(g, calls) =>
              /\ calls.minters = calls.burners
              /\ \A m \in calls.minters \cap Markets :
                    /\ \/ markets'[g][m].penrose = Deployed("PENROSE", g)
                       \/ m \in ToInitialise(calls)
                    /\ m \in penrose'[g].registered
BY SetUpStays DEF Covers

LEMMA MintersStay ==
    ASSUME IInv, [Next]_vars
    PROVE  MintersAreInitialised'
<1>1. TypeOK
  BY DEF IInv
<1>2. CASE MulticallSucceeds
  <2> DEFINE tx == Head(pending)
  <2>1. Covers(tx.gen, tx.calls)
    <3>1. pending \in Seq(Tx) /\ pending # <<>>
      BY <1>1, <1>2 DEF TypeOK, Tx, MulticallSucceeds
    <3>2. 1 \in DOMAIN pending /\ tx = pending[1]
      BY <3>1
    <3> QED
      BY <3>2 DEF IInv, PendingIsCovered
  <2>2. ASSUME NEW g \in Generations
        PROVE  usdo'[g].minters = usdo'[g].burners
    BY <1>1, <1>2, <2>1, <2>2, WhatAppliesIs DEF IInv, MintersAreInitialised, Covers
  <2>3. ASSUME NEW g \in Generations, NEW m \in usdo'[g].minters \cap Markets
        PROVE  markets'[g][m].penrose = Deployed("PENROSE", g) /\ m \in penrose'[g].registered
    <3>1. CASE m \in usdo[g].minters
      BY <1>1, <2>3, <3>1, SetUpStays DEF IInv, MintersAreInitialised
    <3>2. CASE m \notin usdo[g].minters
      <4>1. g = tx.gen /\ m \in tx.calls.minters \cap Markets
        BY <1>1, <1>2, <2>3, <3>2, WhatAppliesIs
      <4> QED
        BY <1>1, <1>2, <2>1, <2>3, <4>1, WhatAppliesIs, SetUpStays DEF Covers
    <3> QED
      BY <3>1, <3>2
  <2> QED
    BY <2>2, <2>3 DEF MintersAreInitialised, IsInitialised
<1>3. CASE ~MulticallSucceeds
  <2>1. UNCHANGED <<penrose, markets>>
    BY <1>3, OnlyMulticallsSetUp
  <2>2. ASSUME NEW g \in Generations
        PROVE  usdo'[g].minters = usdo[g].minters /\ usdo'[g].burners = usdo[g].burners
    <3>1. CASE SetLzPeer
      BY <1>1, <2>2, <3>1 DEF SetLzPeer, TypeOK
    <3>2. CASE ~SetLzPeer
      <4>1. UNCHANGED usdo
        BY <1>3, <3>2
           DEF Next, vars, chainVars, TaskStep, Mine, DeployGlobals, StartFresh, Load,
               DeployFinal, Crash, Execute, Save, SetupUsdoInPenrose, SaveUsdoAsset,
               SetupRegisterMC, SetupRegisterBBAndSGLMarkets, SetupRegisterBigBangEthMarket,
               SetupUsdoFlashloanHelper, SetupCreateYBAssets, SetupInitAndRegisterMarket,
               SetupRegisterBBAsMinterBurner, ExecuteMulticall, CreateUsdoAsset, MulticallReverts
      <4> QED
        BY <4>1
    <3> QED
      BY <3>1, <3>2
  <2> QED
    BY <2>1, <2>2 DEF IInv, MintersAreInitialised, IsInitialised
<1> QED
  BY <1>2, <1>3

(* How the transactions under way change.                                  *)
LEMMA PendingChanges ==
    ASSUME [Next]_vars
    PROVE  \/ pending' = pending
           \/ /\ \E kind, step : Send(kind, step)
              /\ task.step \notin {"idle", "execute"}
              /\ UNCHANGED <<penrose, markets>>
           \/ Mine /\ pending # <<>> /\ pending' = Tail(pending)
           \/ Crash
<1>1. CASE SetupUsdoInPenrose
  BY <1>1 DEF SetupUsdoInPenrose, chainVars, At
<1>2. CASE ExecuteMulticall
  BY <1>2 DEF ExecuteMulticall, chainVars, At
<1>3. CASE Mine
  BY <1>3 DEF Mine, CreateUsdoAsset, MulticallSucceeds, MulticallReverts
<1>4. CASE ~SetupUsdoInPenrose /\ ~ExecuteMulticall /\ ~Mine
  BY <1>4 DEF Next, vars, TaskStep, DeployGlobals, StartFresh, Load, DeployFinal,
       Execute, Save, SetLzPeer, SaveUsdoAsset, SetupRegisterMC,
       SetupRegisterBBAndSGLMarkets, SetupRegisterBigBangEthMarket, SetupUsdoFlashloanHelper,
       SetupCreateYBAssets, SetupInitAndRegisterMarket, SetupRegisterBBAsMinterBurner
<1> QED
  BY <1>1, <1>2, <1>3, <1>4

LEMMA PendingStays ==
    ASSUME IInv, [Next]_vars
    PROVE  PendingIsCovered'
<1> DEFINE StillCovers(g, calls) ==
        /\ calls.minters = calls.burners
        /\ \A m \in calls.minters \cap Markets :
              /\ \/ markets'[g][m].penrose = Deployed("PENROSE", g)
                 \/ m \in ToInitialise(calls)
              /\ m \in penrose'[g].registered
<1>1. TypeOK
  BY DEF IInv
<1>2. pending \in Seq(Tx) /\ \A e \in Tx : e.gen \in Generations
  BY <1>1, BoundsAssumption DEF TypeOK, Tx, Generations
<1>3. ASSUME NEW i \in DOMAIN pending
      PROVE  StillCovers(pending[i].gen, pending[i].calls)
  <2>1. Covers(pending[i].gen, pending[i].calls)
    BY <1>3 DEF IInv, PendingIsCovered
  <2>2. pending[i].gen \in Generations
    BY <1>2, <1>3
  <2> QED
    BY <1>1, <2>1, <2>2, CoversStays
<1>4. SUFFICES ASSUME NEW i \in DOMAIN pending'
               PROVE  StillCovers(pending'[i].gen, pending'[i].calls)
  BY <1>4 DEF PendingIsCovered, Covers, IsInitialised
<1>5. CASE pending' = pending
  BY <1>3, <1>5
<1>6. CASE Mine /\ pending # <<>> /\ pending' = Tail(pending)
  BY <1>1, <1>3, <1>6, TailOfPending
<1>7. CASE Crash
  BY <1>1, <1>3, <1>7, CrashLeaves
<1>8. ASSUME NEW kind, NEW step, Send(kind, step), UNCHANGED <<penrose, markets>>
      PROVE  StillCovers(pending'[i].gen, pending'[i].calls)
  <2> DEFINE tx == [kind |-> kind, gen |-> task.gen, calls |-> task.calls, awaited |-> TRUE]
  <2>1. pending' = Append(pending, tx)
    BY <1>8 DEF Send
  <2>2. CASE i \in DOMAIN pending
    <3>1. pending'[i] = pending[i]
      BY <1>2, <2>1, <2>2
    <3> QED
      BY <1>3, <2>2, <3>1
  <2>3. CASE i \notin DOMAIN pending
    <3>1. pending'[i] = tx
      BY <1>2, <2>1, <2>3
    <3>2. Covers(task.gen, task.calls)
      BY DEF IInv, RunIsCovered
    <3> QED
      BY <1>8, <3>1, <3>2 DEF Covers, IsInitialised
  <2> QED
    BY <2>2, <2>3
<1> QED
  BY <1>5, <1>6, <1>7, <1>8, PendingChanges

-----------------------------------------------------------------------------
LEMMA NothingToCover ==
    ASSUME NEW g
    PROVE  Covers(g, NoCalls)
BY DEF Covers, NoCalls

LEMMA MintingAreSetUp ==
    /\ MintingMarkets \subseteq MarketsRegistered(chain)
    /\ MintingMarkets \subseteq MarketsInitialised(chain)
    /\ MintingMarkets \subseteq Markets
    /\ FlashLoanMinters \cap Markets = {}
BY DEF MintingMarkets, MarketsRegistered, MarketsInitialised, Markets, BBMarkets, SGLMarkets,
       FlashLoanMinters

(* A run that pushes no call about minters and markets.                    *)
LEMMA PlainStep ==
    ASSUME IInv, UNCHANGED <<chain, penrose, markets>>,
           task'.gen = task.gen \/ task.calls = NoCalls,
           task'.calls.minters = task.calls.minters, task'.calls.burners = task.calls.burners,
           task'.calls.inits = task.calls.inits,
           task'.step \notin Registering \cup Registered,
           task'.step \in {"idle", "execute"} => task'.calls = NoCalls
    PROVE  RunIsCovered'
<1>1. Covers(task.gen, task.calls)
  BY DEF IInv, RunIsCovered
<1>2. Covers(task'.gen, task.calls)
  BY <1>1, NothingToCover
<1>3. ToInitialise(task'.calls) = ToInitialise(task.calls)
  BY DEF ToInitialise
<1>4. Covers(task.gen, task.calls)'
  BY <1>2, <1>3 DEF Covers, IsInitialised
<1> QED
  BY <1>4 DEF RunIsCovered, Registering, Registered

(* A run that ends.                                                        *)
LEMMA EndIsCovered ==
    ASSUME task' = Idle
    PROVE  RunIsCovered'
<1>1. task'.calls = NoCalls /\ task'.step = "idle"
  BY DEF Idle
<1>2. Covers(task.gen, task.calls)'
  BY <1>1 DEF Covers, NoCalls
<1> QED
  BY <1>1, <1>2 DEF RunIsCovered, Registering, Registered

(* What a push leaves of the run.                                          *)
LEMMA PushFields ==
    ASSUME TypeOK, NEW calls, NEW step, Push(calls, step)
    PROVE  task'.step = step /\ task'.gen = task.gen /\ task'.calls = calls
<1>1. task \in Run
  BY DEF TypeOK, Run
<1> DEFINE moved == [task EXCEPT !.step = step]
<1>2. moved = [step |-> step, gen |-> task.gen, asset |-> task.asset, calls |-> task.calls]
  BY <1>1 DEF Run
<1>3. task' = [moved EXCEPT !.calls = calls]
  BY Zenon DEF Push
<1> HIDE DEF moved
<1> QED
  BY <1>2, <1>3

(* The steps that are about neither.                                       *)
LEMMA PlainStepsAreCovered ==
    ASSUME IInv,
           \/ DeployGlobals \/ StartFresh \/ Load \/ DeployFinal
           \/ Execute \/ Save \/ SetLzPeer \/ SetupUsdoInPenrose \/ SaveUsdoAsset
           \/ SetupRegisterMC
    PROVE  RunIsCovered'
<1>1. /\ TypeOK /\ task \in Run /\ task.calls \in CallsOK /\ RunIsCovered
      /\ task.step \in {"idle", "execute"} => task.calls = NoCalls
  BY DEF IInv, TypeOK, Run, RunIsCovered
<1>2. CASE DeployGlobals
  BY <1>1, <1>2 DEF DeployGlobals, RunIsCovered, Covers, IsInitialised, chainVars, MintingMarkets
<1>3. CASE StartFresh
  BY <1>1, <1>3, PlainStep DEF StartFresh, At, GoTo, Run, chainVars, Registering, Registered
<1>4. CASE Load
  <2>1. task'.step = "setLzPeer" /\ task'.calls = task.calls /\ task.calls = NoCalls
    <3> DEFINE moved == [task EXCEPT !.step = "setLzPeer"]
    <3>1. moved.step = "setLzPeer" /\ moved.calls = task.calls /\ moved \in Run
      BY <1>1 DEF Run, Steps
    <3>2. task' = [moved EXCEPT !.gen = db.gen]
      BY <1>4, Zenon DEF Load
    <3> HIDE DEF moved
    <3> QED
      BY <3>1, <3>2, <1>1, <1>4 DEF Run, Load, At
  <2> QED
    BY <1>1, <1>4, <2>1, PlainStep DEF Load, At, chainVars, Registering, Registered
<1>5. CASE DeployFinal
  <2>1. task'.step = "submitFinal" /\ task'.calls = [NoCalls EXCEPT !.assetOracles = BBMarkets]
    BY <1>5 DEF DeployFinal, Idle
  <2>2. /\ task'.calls.minters = NoCalls.minters /\ task'.calls.burners = NoCalls.burners
        /\ task'.calls.inits = NoCalls.inits
    BY <2>1, AddressesAreTyped DEF CallsOK
  <2> QED
    BY <1>1, <1>5, <2>1, <2>2, PlainStep DEF DeployFinal, At, chainVars, Registering, Registered
<1>6. CASE Execute
  <2>1. task'.step = "save" /\ task'.calls = task.calls /\ task.calls = NoCalls
    <3> DEFINE moved == [task EXCEPT !.step = "save"]
    <3>1. moved.step = "save" /\ moved.calls = task.calls /\ moved \in Run
      BY <1>1 DEF Run, Steps
    <3>2. task' = [moved EXCEPT !.gen = generations + 1]
      BY <1>6, Zenon DEF Execute
    <3> HIDE DEF moved
    <3> QED
      BY <3>1, <3>2, <1>1, <1>6 DEF Run, Execute, At
  <2> QED
    BY <1>1, <1>6, <2>1, PlainStep DEF Execute, Registering, Registered
<1>7. CASE Save \/ SetLzPeer
  BY <1>1, <1>7, PlainStep DEF Save, SetLzPeer, At, GoTo, Run, chainVars, Registering, Registered
<1>8. ASSUME NEW asset, PushUsdoToken(asset), UNCHANGED <<chain, penrose, markets>>
      PROVE  RunIsCovered'
  <2> DEFINE calls == IF penrose[task.gen].usdoToken # Deployed("USDO", task.gen)
                      THEN [task.calls EXCEPT !.usdoAsset = asset] ELSE task.calls
  <2>1. /\ calls.minters = task.calls.minters /\ calls.burners = task.calls.burners
        /\ calls.inits = task.calls.inits
    BY <1>1 DEF CallsOK
  <2>2. task'.step = "setupRegisterMC" /\ task'.gen = task.gen /\ task'.calls = calls
    BY <1>1, <1>8, PushFields DEF PushUsdoToken
  <2> QED
    BY <1>8, <2>1, <2>2, PlainStep DEF Registering, Registered
<1>9. CASE SetupUsdoInPenrose
  <2>1. CASE UsdoEntryIsValid(task.gen)
    BY <1>8, <1>9, <2>1 DEF SetupUsdoInPenrose, chainVars
  <2>2. CASE ~UsdoEntryIsValid(task.gen)
    <3>1. task'.step = "createAsset" /\ task'.gen = task.gen /\ task'.calls = task.calls
      BY <1>1, <1>9, <2>2 DEF SetupUsdoInPenrose, Send, GoTo, Run
    <3> QED
      BY <1>9, <3>1, PlainStep DEF SetupUsdoInPenrose, chainVars, Registering, Registered
  <2> QED
    BY <2>1, <2>2
<1>10. CASE SaveUsdoAsset
  BY <1>8, <1>10 DEF SaveUsdoAsset, chainVars
<1>11. CASE SetupRegisterMC
  <2> DEFINE calls == [task.calls EXCEPT !.masters = MastersToRegister(task.gen)]
  <2>1. /\ calls.minters = task.calls.minters /\ calls.burners = task.calls.burners
        /\ calls.inits = task.calls.inits
    BY <1>1 DEF CallsOK
  <2>2. task'.step = "setupRegisterMarkets" /\ task'.gen = task.gen /\ task'.calls = calls
    BY <1>1, <1>11, PushFields DEF SetupRegisterMC
  <2> QED
    BY <1>11, <2>1, <2>2, PlainStep DEF SetupRegisterMC, chainVars, Registering, Registered
<1> QED
  BY <1>2, <1>3, <1>4, <1>5, <1>6, <1>7, <1>9, <1>10, <1>11

(* Between the registration of the markets and its multicall.              *)
LEMMA RegisteringStep ==
    ASSUME IInv, UNCHANGED <<chain, penrose, markets>>, task'.gen = task.gen,
           task'.step \in Registering,
           \/ /\ task.step \in Registering /\ task'.calls.registered = task.calls.registered
           \/ task'.calls.registered = MarketsRegistered(chain) \ penrose[task.gen].registered,
           task'.calls.inits = task.calls.inits,
           \/ /\ task'.calls.minters = task.calls.minters
              /\ task'.calls.burners = task.calls.burners
           \/ /\ task'.calls.minters = task'.calls.burners
              /\ task'.calls.minters \subseteq FlashLoanMinters
    PROVE  RunIsCovered'
<1>1. Covers(task.gen, task.calls) /\ RunIsCovered
  BY DEF IInv, RunIsCovered
<1>2. ToInitialise(task'.calls) = ToInitialise(task.calls)
  BY DEF ToInitialise
<1>3. Covers(task.gen, task.calls)'
  BY <1>1, <1>2, MintingAreSetUp DEF Covers, IsInitialised
<1>4. MarketsRegistered(chain) \subseteq penrose[task.gen].registered \cup task'.calls.registered
  BY <1>1 DEF RunIsCovered
<1> QED
  BY <1>3, <1>4 DEF RunIsCovered, Registering, Registered

LEMMA RegisteringStepsAreCovered ==
    ASSUME IInv,
           \/ SetupRegisterBBAndSGLMarkets \/ SetupRegisterBigBangEthMarket
           \/ SetupUsdoFlashloanHelper \/ SetupCreateYBAssets
    PROVE  RunIsCovered'
<1>1. /\ TypeOK /\ task \in Run /\ task.calls \in CallsOK
      /\ MintersAreInitialised
  BY DEF IInv, TypeOK, Run
<1>2. CASE SetupRegisterBBAndSGLMarkets
  <2> DEFINE calls == [task.calls EXCEPT
                 !.registered = MarketsRegistered(chain) \ penrose[task.gen].registered]
  <2>1. /\ calls.minters = task.calls.minters /\ calls.burners = task.calls.burners
        /\ calls.inits = task.calls.inits
        /\ calls.registered = MarketsRegistered(chain) \ penrose[task.gen].registered
    BY <1>1 DEF CallsOK
  <2>2. task'.step = "setupRegisterEthMarket" /\ task'.gen = task.gen /\ task'.calls = calls
    BY <1>1, <1>2, PushFields DEF SetupRegisterBBAndSGLMarkets
  <2> QED
    BY <1>2, <2>1, <2>2, RegisteringStep DEF SetupRegisterBBAndSGLMarkets, chainVars, Registering
<1>3. CASE SetupRegisterBigBangEthMarket
  <2> DEFINE calls == [task.calls EXCEPT !.ethMarket = ~penrose[task.gen].ethMarket]
  <2>1. CASE "BB_MT_ETH_MARKET" \in DeployedNames(chain)
    <3>1. /\ calls.minters = task.calls.minters /\ calls.burners = task.calls.burners
          /\ calls.inits = task.calls.inits /\ calls.registered = task.calls.registered
      BY <1>1 DEF CallsOK
    <3>2. task'.step = "setupFlashloanHelper" /\ task'.gen = task.gen /\ task'.calls = calls
      BY <1>1, <1>3, <2>1, PushFields DEF SetupRegisterBigBangEthMarket
    <3> QED
      BY <1>3, <3>1, <3>2, RegisteringStep
         DEF SetupRegisterBigBangEthMarket, chainVars, Registering, At
  <2>2. CASE "BB_MT_ETH_MARKET" \notin DeployedNames(chain)
    BY <1>3, <2>2, EndIsCovered DEF SetupRegisterBigBangEthMarket
  <2> QED
    BY <2>1, <2>2
<1>4. CASE SetupUsdoFlashloanHelper
  <2> DEFINE c1 == [task.calls EXCEPT !.flashLoanHelper = ~usdo[task.gen].flashLoanHelper]
             c2 == [c1 EXCEPT !.minters = FlashLoanMinters \ usdo[task.gen].minters]
             c3 == [c2 EXCEPT !.burners = FlashLoanMinters \ usdo[task.gen].burners]
  <2>1. /\ c1 \in CallsOK /\ c1.inits = task.calls.inits
        /\ c1.registered = task.calls.registered
    BY <1>1 DEF CallsOK
  <2>2. /\ c2 \in CallsOK /\ c2.inits = c1.inits /\ c2.registered = c1.registered
        /\ c2.minters = FlashLoanMinters \ usdo[task.gen].minters
    <3>1. FlashLoanMinters \ usdo[task.gen].minters \in SUBSET Minters
      BY DEF FlashLoanMinters, Minters
    <3> HIDE DEF c1
    <3> QED
      BY <2>1, <3>1 DEF CallsOK
  <2>3. /\ c3.inits = c2.inits /\ c3.registered = c2.registered /\ c3.minters = c2.minters
        /\ c3.burners = FlashLoanMinters \ usdo[task.gen].burners
    <3> HIDE DEF c2
    <3> QED
      BY <2>2 DEF CallsOK
  <2>4. usdo[task.gen].minters = usdo[task.gen].burners
    BY <1>1, <1>4, RunIsTyped DEF MintersAreInitialised, SetupUsdoFlashloanHelper, At
  <2>5. Push(c3, "setupCreateYBAssets")
    BY <1>4, Zenon DEF SetupUsdoFlashloanHelper
  <2>6. /\ task.step = "setupFlashloanHelper"
        /\ UNCHANGED <<chain, penrose, markets>>
    BY <1>4 DEF SetupUsdoFlashloanHelper, chainVars, At
  <2> HIDE DEF c1, c2, c3
  <2>7. task'.step = "setupCreateYBAssets" /\ task'.gen = task.gen /\ task'.calls = c3
    BY <1>1, <2>5, PushFields
  <2> QED
    BY <2>1, <2>2, <2>3, <2>4, <2>6, <2>7, RegisteringStep DEF Registering
<1>5. CASE SetupCreateYBAssets
  <2> DEFINE new == {a \in CollateralAssets(task.gen) : ids(a) = NoAsset}
             calls == [task.calls EXCEPT !.assets = new]
             known == \A name \in YBAssets(chain) : name[2] \in DeployedNames(chain)
  <2>1. IF known THEN Push(calls, "submit1") ELSE task' = Idle
    BY <1>5, Zenon DEF SetupCreateYBAssets
  <2>2. /\ calls.minters = task.calls.minters /\ calls.burners = task.calls.burners
        /\ calls.inits = task.calls.inits /\ calls.registered = task.calls.registered
    BY <1>1 DEF CallsOK
  <2>3. task.step = "setupCreateYBAssets" /\ UNCHANGED <<chain, penrose, markets>>
    BY <1>5 DEF SetupCreateYBAssets, chainVars, At
  <2> HIDE DEF calls, known
  <2>4. CASE known
    <3>1. task'.step = "submit1" /\ task'.gen = task.gen /\ task'.calls = calls
      BY <1>1, <2>1, <2>4, PushFields
    <3> QED
      BY <2>2, <2>3, <3>1, RegisteringStep DEF Registering
  <2>5. CASE ~known
    BY <2>1, <2>5, EndIsCovered
  <2> QED
    BY <2>4, <2>5
<1> QED
  BY <1>2, <1>3, <1>4, <1>5

(* A market that is pushed for initialisation has arguments.               *)
LEMMA InitIsSomething ==
    ASSUME NEW g, NEW m, collateralId(g, m) # NoAsset
    PROVE  initBBMarket(g, m) # NoInit /\ initSGLMarket(g, m) # NoInit
BY DEF initBBMarket, initSGLMarket, NoInit

LEMMA SecondSetupIsCovered ==
    ASSUME IInv,
           \/ SetupInitAndRegisterMarket \/ SetupRegisterBBAsMinterBurner \/ ExecuteMulticall
    PROVE  RunIsCovered'
<1>1. /\ TypeOK /\ task \in Run /\ task.calls \in CallsOK /\ RunIsCovered
      /\ Covers(task.gen, task.calls) /\ MintersAreInitialised
  BY DEF IInv, TypeOK, Run, RunIsCovered
<1>2. CASE SetupInitAndRegisterMarket
  <2> DEFINE g == task.gen
             todo == {m \in MarketsInitialised(chain) : ~IsInitialised(g, m)}
             inits == [m \in Markets |-> IF m \notin todo THEN NoInit
                                         ELSE IF m \in BBMarkets THEN initBBMarket(g, m)
                                         ELSE initSGLMarket(g, m)]
             calls == [NoCalls EXCEPT !.inits = inits]
             known == \A m \in todo : /\ CollateralOf[m][2] \in DeployedNames(chain)
                                      /\ collateralId(g, m) # NoAsset
  <2>1. IF known THEN Push(calls, "setupMinters") ELSE task' = Idle
    BY <1>2, Zenon DEF SetupInitAndRegisterMarket
  <2>2. task.step = "setupInitMarkets" /\ UNCHANGED <<chain, penrose, markets>>
    BY <1>2 DEF SetupInitAndRegisterMarket, chainVars, At
  <2>3. CASE ~known
    <3> HIDE DEF known
    <3> QED
      BY <2>1, <2>3, EndIsCovered
  <2>4. CASE known
    <3>1. \A m \in MintingMarkets : IsInitialised(g, m) \/ inits[m] # NoInit
      BY <2>4, MintingAreSetUp, InitIsSomething
    <3>2. /\ calls.minters = {} /\ calls.burners = {} /\ calls.inits = inits
      <4> HIDE DEF inits
      <4> QED
        BY DEF NoCalls
    <3>3. Push(calls, "setupMinters")
      <4> HIDE DEF calls, known
      <4> QED
        BY <2>1, <2>4
    <3> HIDE DEF calls, known, inits
    <3>4. task'.step = "setupMinters" /\ task'.gen = g /\ task'.calls = calls
      BY <1>1, <3>3, PushFields
    <3>5. \A m \in MintingMarkets : IsInitialised(g, m) \/ m \in ToInitialise(calls)
      BY <3>1, <3>2, MintingAreSetUp DEF ToInitialise
    <3>6. MarketsRegistered(chain) \subseteq penrose[g].registered
      BY <1>1, <2>2 DEF RunIsCovered, Registered
    <3>7. Covers(task.gen, task.calls)'
      BY <3>2, <3>4 DEF Covers
    <3>8. MintingMarkets' = MintingMarkets
      BY <2>2 DEF MintingMarkets
    <3> QED
      BY <2>2, <3>4, <3>5, <3>6, <3>7, <3>8
         DEF RunIsCovered, Registering, Registered, IsInitialised
  <2> QED
    BY <2>3, <2>4
<1>3. CASE SetupRegisterBBAsMinterBurner
  <2> DEFINE todo == MintingMarkets \ usdo[task.gen].minters
             c1 == [task.calls EXCEPT !.minters = todo]
             c2 == [c1 EXCEPT !.burners = todo]
  <2>1. todo \in SUBSET Minters
    BY DEF MintingMarkets, Minters
  <2> HIDE DEF todo
  <2>2. c1 \in CallsOK /\ c1.minters = todo /\ c1.inits = task.calls.inits
    BY <1>1, <2>1 DEF CallsOK
  <2> HIDE DEF c1
  <2>3. c2.burners = todo /\ c2.minters = todo /\ c2.inits = c1.inits
    BY <2>1, <2>2 DEF CallsOK
  <2>4. Push(c2, "submit2")
    BY <1>3, Zenon DEF SetupRegisterBBAsMinterBurner, todo, c1
  <2>5. task.step = "setupMinters" /\ UNCHANGED <<chain, penrose, markets>>
    BY <1>3 DEF SetupRegisterBBAsMinterBurner, chainVars, At
  <2> HIDE DEF c2
  <2>6. task'.step = "submit2" /\ task'.gen = task.gen /\ task'.calls = c2
    BY <1>1, <2>4, PushFields
  <2>7. ToInitialise(c2) = ToInitialise(task.calls)
    BY <2>2, <2>3 DEF ToInitialise
  <2>8. todo \subseteq MintingMarkets
    BY DEF todo
  <2>9. Covers(task.gen, c2)
    BY <1>1, <2>3, <2>5, <2>7, <2>8, MintingAreSetUp DEF RunIsCovered, Registered, Covers
  <2>10. Covers(task.gen, task.calls)'
    BY <2>5, <2>6, <2>9 DEF Covers, IsInitialised
  <2> QED
    BY <2>6, <2>10 DEF RunIsCovered, Registering, Registered
<1>4. CASE ExecuteMulticall
  <2>1. UNCHANGED <<chain, penrose, markets>>
    BY <1>4 DEF ExecuteMulticall, chainVars
  <2>2. CASE At("submit1")
    <3>1. task' = [task EXCEPT !.step = "await1"]
      BY <1>4, <2>2 DEF ExecuteMulticall, At, Send, GoTo
    <3> QED
      BY <1>1, <2>1, <2>2, <3>1, RegisteringStep DEF Run, Registering, At
  <2>3. CASE At("submit2") \/ At("submitFinal")
    <3>1. task'.step \in {"await2", "awaitFinal"} /\ task'.gen = task.gen
          /\ task'.calls = task.calls
      BY <1>1, <1>4, <2>3 DEF ExecuteMulticall, At, Send, GoTo, Run
    <3> QED
      BY <2>1, <3>1, PlainStep DEF Registering, Registered
  <2> QED
    BY <1>4, <2>2, <2>3 DEF ExecuteMulticall
<1> QED
  BY <1>2, <1>3, <1>4

(* A run during which something else happens on the chain.                 *)
LEMMA OtherStep ==
    ASSUME IInv, [Next]_vars, UNCHANGED <<chain, task>>
    PROVE  RunIsCovered'
<1>1. TypeOK /\ RunIsCovered
  BY DEF IInv
<1>2. CASE task.step \in {"idle", "execute"}
  <2>1. task.calls = NoCalls
    BY <1>1, <1>2 DEF RunIsCovered
  <2>2. Covers(task.gen, task.calls)'
    BY <2>1 DEF Covers, NoCalls
  <2> QED
    BY <1>2, <2>1, <2>2 DEF RunIsCovered, Registering, Registered
<1>3. CASE task.step \notin {"idle", "execute"}
  <2>1. task.gen \in Generations
    BY <1>1, <1>3, RunIsTyped
  <2>2. Covers(task.gen, task.calls)'
    BY <1>1, <2>1, CoversStays DEF RunIsCovered, Covers, IsInitialised
  <2>3. MarketsRegistered(chain) \subseteq Markets /\ MintingMarkets' = MintingMarkets
        /\ MintingMarkets \subseteq Markets
    BY NamesAreNames, MintingAreSetUp DEF MintingMarkets
  <2>4. /\ \A m \in Markets :
             /\ m \in penrose[task.gen].registered => m \in penrose'[task.gen].registered
             /\ IsInitialised(task.gen, m)
                  => markets'[task.gen][m].penrose = Deployed("PENROSE", task.gen)
    BY <1>1, <2>1, SetUpStays
  <2> QED
    BY <1>1, <1>3, <2>2, <2>3, <2>4 DEF RunIsCovered, Registering, Registered, IsInitialised
<1> QED
  BY <1>2, <1>3

LEMMA ChainStepIsCovered ==
    ASSUME IInv, Mine \/ Crash
    PROVE  RunIsCovered'
<1> DEFINE tx == Head(pending)
<1>1. TypeOK /\ AwaitedByRun /\ RunIsCovered /\ task \in Run
  BY DEF IInv, TypeOK, Run
<1>2. CASE CreateUsdoAsset
  <2>1. /\ UNCHANGED <<chain, penrose, markets>>
        /\ task' = task \/ \E asset : task' = [task EXCEPT !.step = "saveAsset", !.asset = asset]
    BY <1>2 DEF CreateUsdoAsset, Resume
  <2>2. CASE task' = task
    BY <1>2, <2>1, <2>2, OtherStep DEF Next, Mine
  <2>3. ASSUME NEW asset, task' = [task EXCEPT !.step = "saveAsset", !.asset = asset]
        PROVE  task'.step = "saveAsset" /\ task'.gen = task.gen /\ task'.calls = task.calls
    <3> DEFINE moved == [task EXCEPT !.step = "saveAsset"]
    <3>1. moved
            = [step |-> "saveAsset", gen |-> task.gen, asset |-> task.asset, calls |-> task.calls]
      BY <1>1 DEF Run
    <3>2. task' = [moved EXCEPT !.asset = asset]
      BY <2>3, Zenon
    <3> HIDE DEF moved
    <3> QED
      BY <3>1, <3>2
  <2> QED
    BY <2>1, <2>2, <2>3, PlainStep DEF Registering, Registered
<1>3. CASE MulticallSucceeds
  <2>1. task' = (IF tx.awaited THEN AfterMulticall ELSE task) /\ UNCHANGED chain
        /\ pending # <<>>
    BY <1>3 DEF MulticallSucceeds, Resume
  <2>2. CASE ~tx.awaited
    BY <1>3, <2>1, <2>2, OtherStep DEF Next, Mine
  <2>3. CASE tx.awaited /\ ~At("await1")
    BY <2>1, <2>3, EndIsCovered DEF AfterMulticall
  <2>4. CASE tx.awaited /\ At("await1")
    <3>1. tx.gen = task.gen /\ tx.calls = task.calls
      BY <1>1, <2>1, <2>4, AwaitedHead
    <3>2. MarketsRegistered(chain) \subseteq penrose'[task.gen].registered
      BY <1>1, <1>3, <2>4, <3>1, WhatAppliesIs DEF RunIsCovered, Registering, At
    <3>3. Push(NoCalls, "setupInitMarkets")
      BY <2>1, <2>4 DEF AfterMulticall, Push
    <3>4. task'.step = "setupInitMarkets" /\ task'.gen = task.gen /\ task'.calls = NoCalls
      BY <1>1, <3>3, PushFields
    <3>5. Covers(task.gen, task.calls)'
      BY <3>4 DEF Covers, NoCalls
    <3> QED
      BY <2>1, <3>2, <3>4, <3>5 DEF RunIsCovered, Registering, Registered
  <2> QED
    BY <2>2, <2>3, <2>4
<1>4. CASE MulticallReverts
  <2>1. task' = (IF tx.awaited THEN Idle ELSE task) /\ UNCHANGED chain
    BY <1>4 DEF MulticallReverts, Resume
  <2>2. CASE ~tx.awaited
    BY <1>4, <2>1, <2>2, OtherStep DEF Next, Mine
  <2>3. CASE tx.awaited
    BY <2>1, <2>3, EndIsCovered
  <2> QED
    BY <2>2, <2>3
<1>5. CASE Crash
  BY <1>5, EndIsCovered DEF Crash
<1> QED
  BY <1>2, <1>3, <1>4, <1>5 DEF Mine

LEMMA RunStays ==
    ASSUME IInv, [Next]_vars
    PROVE  RunIsCovered'
<1>1. CASE UNCHANGED vars
  BY <1>1, OtherStep DEF vars
<1>2. CASE TaskStep
  BY <1>2, PlainStepsAreCovered, RegisteringStepsAreCovered, SecondSetupIsCovered DEF TaskStep
<1>3. CASE Next /\ ~TaskStep
  BY <1>3, PlainStepsAreCovered, ChainStepIsCovered DEF Next
<1> QED
  BY <1>1, <1>2, <1>3

LEMMA InitIsCovered == Init => IInv
<1> SUFFICES ASSUME Init PROVE IInv
  OBVIOUS
<1>1. TypeOK
  BY InitIsTyped
<1>2. AwaitedByRun /\ PendingIsCovered
  BY DEF Init, AwaitedByRun, PendingIsCovered
<1>3. MintersAreInitialised
  BY DEF Init, MintersAreInitialised, NewUsdo
<1>4. task.step = "idle" /\ task.calls = NoCalls
  BY DEF Init, Idle
<1>5. RunIsCovered
  BY <1>4, NothingToCover DEF RunIsCovered, Registering, Registered
<1> QED
  BY <1>1, <1>2, <1>3, <1>5 DEF IInv

LEMMA IInvStays ==
    ASSUME IInv, [Next]_vars
    PROVE  IInv'
BY TypeStays, AwaitedStays, MintersStay, PendingStays, RunStays DEF IInv

(* In every run of the tasks, of whatever number of deployments, crashes   *)
(* and transactions that land late, a BigBang market may mint and burn     *)
(* USDO only once it is initialised and registered with the Penrose of its *)
(* deployment (setupPostLbp1).                                             *)
THEOREM MintersTheorem == Spec => []MintersAreInitialised
<1>1. IInv => MintersAreInitialised
  BY DEF IInv
<1> QED
  BY <1>1, InitIsCovered, IInvStays, PTL DEF Spec

-----------------------------------------------------------------------------
(* What the scripts push for a chain, and nothing else.                    *)
WithinPlan(g, calls) ==
    /\ calls.masters \subseteq MasterContracts
    /\ calls.registered \subseteq MarketsRegistered(chain)
    /\ calls.assets \subseteq CollateralAssets(g)
    /\ calls.minters \subseteq FlashLoanMinters \cup MintingMarkets
    /\ ToInitialise(calls) \subseteq MarketsInitialised(chain)

CallsArePlanned ==
    /\ WithinPlan(task.gen, task.calls)
    /\ \A i \in DOMAIN pending : WithinPlan(pending[i].gen, pending[i].calls)

(* The calls of the first multicall, when nothing was set up.              *)
BringsAll(g, calls) ==
    /\ calls.usdoAsset # NoAsset
    /\ calls.masters = MasterContracts
    /\ calls.registered = MarketsRegistered(chain)
    /\ calls.ethMarket /\ calls.flashLoanHelper
    /\ FlashLoanMinters \subseteq calls.minters \cap calls.burners
    /\ CollateralAssets(g) \subseteq calls.assets

(* Of a generation of which nothing is set up, a multicall brings all or   *)
(* is the one that sets oracles, which then fails.                         *)
WholeOrFails(g, calls) == BringsAll(g, calls) \/ calls.assetOracles # {}

PendingIsWhole ==
    \A i \in DOMAIN pending :
        pending[i].kind = "multicall" /\ NothingIsSetUp(pending[i].gen)
            => WholeOrFails(pending[i].gen, pending[i].calls)

(* A run has pushed what the functions it went through push, or the first  *)
(* multicall has landed.                                                   *)
HelperPushed == {"setupCreateYBAssets", "submit1", "await1"}
EthMarketPushed == {"setupFlashloanHelper"} \cup HelperPushed
MastersPushed == {"setupRegisterMarkets"} \cup Registering
UsdoPushed == {"setupRegisterMC"} \cup MastersPushed
SecondSetup == {"setupInitMarkets", "setupMinters", "submit2", "await2"}

PushedSoFar(step, g, calls) ==
    /\ step \in UsdoPushed => calls.usdoAsset # NoAsset
    /\ step \in MastersPushed => calls.masters = MasterContracts
    /\ step \in Registering => calls.registered = MarketsRegistered(chain)
    /\ step \in EthMarketPushed => calls.ethMarket
    /\ step \in HelperPushed => /\ calls.flashLoanHelper
                                /\ FlashLoanMinters \subseteq calls.minters \cap calls.burners
    /\ step \in {"submit1", "await1"} => CollateralAssets(g) \subseteq calls.assets

RunIsWhole ==
    /\ At("saveAsset") => task.asset # NoAsset
    /\ task.step \in SecondSetup => AllIsSetUp(task.gen)
    /\ At("submitFinal") => task.calls.assetOracles # {}
    /\ task.step \in UsdoPushed /\ NothingIsSetUp(task.gen)
          => PushedSoFar(task.step, task.gen, task.calls)

WholeInv == IInv /\ SetupIsWhole /\ CallsArePlanned /\ PendingIsWhole /\ RunIsWhole

-----------------------------------------------------------------------------
(* The assets of a deployment are not those of another one.                *)
LEMMA AssetsAreApart ==
    ASSUME NEW g \in Generations
    PROVE  /\ \A h \in Generations \ {g} : CollateralAssets(g) \cap CollateralAssets(h) = {}
           /\ \A h \in Generations : \A k : UsdoAsset(h, k) \notin CollateralAssets(g)
           /\ \A h \in Generations : \A a \in CollateralAssets(g) : a[1] # Deployed("USDO", h)
           /\ mainAssetId \notin CollateralAssets(g) /\ NoAsset \notin CollateralAssets(g)
           /\ \A k : UsdoAsset(g, k) # NoAsset /\ UsdoAsset(g, k)[1] = Deployed("USDO", g)
<1>1. \A h \in Generations : h \in Int /\ h > 0
  BY BoundsAssumption DEF Generations
<1>2. \A a \in CollateralAssets(g) : a[1][2] = 0 /\ a[2][2] = g
  BY DEF CollateralAssets, CollateralAsset, External, Deployed
<1>3. \A h : \A a \in CollateralAssets(h) : a[2][2] = h
  BY DEF CollateralAssets, CollateralAsset, External, Deployed
<1>4. \A h, k : UsdoAsset(h, k)[1] = Deployed("USDO", h) /\ Deployed("USDO", h)[2] = h
  BY DEF UsdoAsset, Deployed
<1>5. mainAssetId[2][2] = 0 /\ NoAsset[2][2] = 0 /\ NoAsset[1][2] = 0
  BY DEF mainAssetId, NoAsset, NoAddress, External
<1>6. \A h \in Generations \ {g} : CollateralAssets(g) \cap CollateralAssets(h) = {}
  BY <1>3
<1>7. \A h \in Generations : \A k : UsdoAsset(h, k) \notin CollateralAssets(g)
  BY <1>1, <1>2, <1>4
<1>8. \A h \in Generations : \A a \in CollateralAssets(g) : a[1] # Deployed("USDO", h)
  BY <1>1, <1>2, <1>4
<1>9. mainAssetId \notin CollateralAssets(g) /\ NoAsset \notin CollateralAssets(g)
  BY <1>1, <1>2, <1>5
<1>10. \A k : UsdoAsset(g, k) # NoAsset /\ UsdoAsset(g, k)[1] = Deployed("USDO", g)
  BY <1>1, <1>4, <1>5
<1> QED
  BY <1>6, <1>7, <1>8, <1>9, <1>10

(* What is to be set up depends on the chain alone.                        *)
LEMMA PlanStays ==
    ASSUME [Next]_vars
    PROVE  /\ chain' = chain
           /\ MasterContracts' = MasterContracts /\ MintingMarkets' = MintingMarkets
           /\ MarketsRegistered(chain)' = MarketsRegistered(chain)
           /\ MarketsInitialised(chain)' = MarketsInitialised(chain)
           /\ \A g : CollateralAssets(g)' = CollateralAssets(g)
<1>1. chain' = chain
  BY DEF Next, vars, TaskStep, Mine, DeployGlobals, StartFresh, Load, DeployFinal, Crash,
       Execute, Save, SetLzPeer, SetupUsdoInPenrose, SaveUsdoAsset, SetupRegisterMC,
       SetupRegisterBBAndSGLMarkets, SetupRegisterBigBangEthMarket, SetupUsdoFlashloanHelper,
       SetupCreateYBAssets, SetupInitAndRegisterMarket, SetupRegisterBBAsMinterBurner,
       ExecuteMulticall, CreateUsdoAsset, MulticallSucceeds, MulticallReverts
<1> QED
  BY <1>1 DEF MasterContracts, MintingMarkets, CollateralAssets

(* Nothing that is set up is something, and only one of the two holds.     *)
LEMMA NothingIsNotAll ==
    ASSUME NEW g \in Generations
    PROVE  /\ ~(NothingIsSetUp(g) /\ AllIsSetUp(g))
           /\ NothingIsSetUp(g) => \A m \in Markets : ~IsInitialised(g, m)
<1>1. NoAddress # Deployed("USDO", g) /\ NoAddress # Deployed("PENROSE", g)
  BY DEF NoAddress, Deployed
<1>2. NewPenrose.usdoToken = NoAddress /\ NewMarket.penrose = NoAddress
  BY DEF NewPenrose, NewMarket
<1>3. ~(NothingIsSetUp(g) /\ AllIsSetUp(g))
  BY <1>1, <1>2 DEF NothingIsSetUp, AllIsSetUp
<1>4. NothingIsSetUp(g) => \A m \in Markets : markets[g][m] = NewMarket
  BY DEF NothingIsSetUp
<1> QED
  BY <1>1, <1>2, <1>3, <1>4 DEF IsInitialised

(* What the calls of a multicall leave of Penrose, of USDO and of the      *)
(* markets of a deployment; those of another one they leave alone.         *)
LEMMA WhatAppliesToPenrose ==
    ASSUME TypeOK, NEW g \in Generations, NEW calls \in CallsOK, Apply(g, calls)
    PROVE  /\ assets' = assets \cup calls.assets
           /\ penrose'[g].usdoToken = IF calls.usdoAsset # NoAsset THEN Deployed("USDO", g)
                                      ELSE penrose[g].usdoToken
           /\ penrose'[g].usdoAssetId = IF calls.usdoAsset # NoAsset THEN calls.usdoAsset
                                        ELSE penrose[g].usdoAssetId
           /\ penrose'[g].masters = penrose[g].masters \cup calls.masters
           /\ penrose'[g].registered = penrose[g].registered \cup calls.registered
           /\ penrose'[g].ethMarket = (penrose[g].ethMarket \/ calls.ethMarket)
           /\ usdo'[g].flashLoanHelper = (usdo[g].flashLoanHelper \/ calls.flashLoanHelper)
           /\ usdo'[g].minters = usdo[g].minters \cup calls.minters
           /\ usdo'[g].burners = usdo[g].burners \cup calls.burners
           /\ usdo'[g].peered = usdo[g].peered
           /\ \A m \in Markets : markets'[g][m] =
                 IF m \in ToInitialise(calls) THEN InitialisedMarket(g, m, calls.inits[m])
                 ELSE IF m \in calls.assetOracles
                      THEN [markets[g][m] EXCEPT !.assetOracle = TRUE]
                      ELSE markets[g][m]
           /\ \A h \in Generations \ {g} :
                 penrose'[h] = penrose[h] /\ usdo'[h] = usdo[h] /\ markets'[h] = markets[h]
<1>1. assets' = assets \cup calls.assets
  BY DEF Apply
<1>2. penrose' = [penrose EXCEPT ![g] =
          [usdoToken   |-> IF calls.usdoAsset # NoAsset THEN Deployed("USDO", g)
                                                        ELSE penrose[g].usdoToken,
           usdoAssetId |-> IF calls.usdoAsset # NoAsset THEN calls.usdoAsset
                                                        ELSE penrose[g].usdoAssetId,
           masters     |-> penrose[g].masters \cup calls.masters,
           registered  |-> penrose[g].registered \cup calls.registered,
           ethMarket   |-> penrose[g].ethMarket \/ calls.ethMarket]]
  BY Zenon DEF Apply
<1>3. /\ penrose'[g].usdoToken = IF calls.usdoAsset # NoAsset THEN Deployed("USDO", g)
                                 ELSE penrose[g].usdoToken
      /\ penrose'[g].usdoAssetId = IF calls.usdoAsset # NoAsset THEN calls.usdoAsset
                                   ELSE penrose[g].usdoAssetId
      /\ penrose'[g].masters = penrose[g].masters \cup calls.masters
      /\ penrose'[g].registered = penrose[g].registered \cup calls.registered
      /\ penrose'[g].ethMarket = (penrose[g].ethMarket \/ calls.ethMarket)
      /\ \A h \in Generations \ {g} : penrose'[h] = penrose[h]
  BY <1>2 DEF TypeOK
<1>4. usdo' = [usdo EXCEPT ![g] =
          [flashLoanHelper |-> usdo[g].flashLoanHelper \/ calls.flashLoanHelper,
           minters |-> usdo[g].minters \cup calls.minters,
           burners |-> usdo[g].burners \cup calls.burners,
           peered  |-> usdo[g].peered]]
  BY Zenon DEF Apply
<1>5. /\ usdo'[g].flashLoanHelper = (usdo[g].flashLoanHelper \/ calls.flashLoanHelper)
      /\ usdo'[g].minters = usdo[g].minters \cup calls.minters
      /\ usdo'[g].burners = usdo[g].burners \cup calls.burners
      /\ usdo'[g].peered = usdo[g].peered
      /\ \A h \in Generations \ {g} : usdo'[h] = usdo[h]
  BY <1>4 DEF TypeOK
<1>6. /\ markets'[g] = [m \in Markets |->
            IF m \in ToInitialise(calls) THEN InitialisedMarket(g, m, calls.inits[m])
            ELSE IF m \in calls.assetOracles
                 THEN [markets[g][m] EXCEPT !.assetOracle = TRUE]
                 ELSE markets[g][m]]
      /\ \A h \in Generations \ {g} : markets'[h] = markets[h]
  BY DEF Apply, TypeOK
<1> QED
  BY <1>1, <1>3, <1>5, <1>6

LEMMA MulticallIs ==
    ASSUME TypeOK, MulticallSucceeds
    PROVE  LET tx == Head(pending) IN
           /\ tx \in Tx /\ tx.gen \in Generations /\ tx.calls \in CallsOK
           /\ tx.kind = "multicall" /\ Apply(tx.gen, tx.calls) /\ Succeeds(tx.gen, tx.calls)
           /\ pending # <<>> /\ pending' = Tail(pending)
           /\ 1 \in DOMAIN pending /\ tx = pending[1]
           /\ UNCHANGED <<chain, globals, generations, strategies, db, faults>>
<1> DEFINE tx == Head(pending)
<1>1. pending \in Seq(Tx) /\ pending # <<>>
  BY DEF TypeOK, Tx, MulticallSucceeds
<1>2. 1 \in DOMAIN pending /\ tx = pending[1]
  BY <1>1
<1>3. tx \in Tx /\ tx.gen \in Generations
  BY HeadIsTyped DEF MulticallSucceeds
<1>4. tx.calls \in CallsOK
  BY <1>3 DEF Tx
<1> QED
  BY <1>1, <1>2, <1>3, <1>4 DEF MulticallSucceeds

(* After a multicall all is set up of its deployment, and as much as       *)
(* before of the others.                                                   *)
LEMMA MulticallSetsUpAll ==
    ASSUME WholeInv, MulticallSucceeds, NEW g \in Generations, g = Head(pending).gen
    PROVE  /\ AllIsSetUp(g)'
           /\ \A h \in Generations \ {g} :
                 /\ AllIsSetUp(h) => AllIsSetUp(h)'
                 /\ NothingIsSetUp(h) <=> NothingIsSetUp(h)'
<1> DEFINE tx == Head(pending)
           calls == tx.calls
<1>1. /\ tx \in Tx /\ g \in Generations /\ calls \in CallsOK /\ tx.kind = "multicall"
      /\ Apply(g, calls) /\ Succeeds(g, calls) /\ 1 \in DOMAIN pending /\ tx = pending[1]
  BY MulticallIs DEF WholeInv, IInv
<1>2. TypeOK /\ [Next]_vars
  BY DEF WholeInv, IInv, Next, Mine
<1>3. WithinPlan(g, calls) /\ (NothingIsSetUp(g) => WholeOrFails(g, calls))
      /\ (NothingIsSetUp(g) \/ AllIsSetUp(g))
  BY <1>1 DEF WholeInv, CallsArePlanned, PendingIsWhole, SetupIsWhole
<1> HIDE DEF tx, calls
<1>4. NothingIsSetUp(g) => BringsAll(g, calls)
  <2>1. calls.assetOracles \subseteq Markets
    BY <1>1 DEF CallsOK, Markets
  <2>2. NothingIsSetUp(g) => calls.assetOracles = {}
    BY <1>1, <2>1, NothingIsNotAll DEF Succeeds
  <2> QED
    BY <2>2, <1>3 DEF WholeOrFails
<1>5. penrose'[g].usdoToken = Deployed("USDO", g) /\ penrose'[g].usdoAssetId # NoAsset
  BY <1>1, <1>2, <1>3, <1>4, WhatAppliesToPenrose DEF BringsAll, AllIsSetUp
<1>6. NothingIsSetUp(g) => /\ penrose[g].masters = {} /\ penrose[g].registered = {}
                           /\ usdo[g].minters = {} /\ usdo[g].burners = {}
  <2> SUFFICES ASSUME NothingIsSetUp(g)
               PROVE  /\ penrose[g].masters = {} /\ penrose[g].registered = {}
                      /\ usdo[g].minters = {} /\ usdo[g].burners = {}
    OBVIOUS
  <2>1. penrose[g] = NewPenrose
    BY DEF NothingIsSetUp
  <2>2. usdo[g] = [NewUsdo EXCEPT !.peered = usdo[g].peered]
    BY DEF NothingIsSetUp
  <2>3. penrose[g].masters = {} /\ penrose[g].registered = {}
    BY <2>1 DEF NewPenrose
  <2>4. usdo[g].minters = {} /\ usdo[g].burners = {}
    BY <2>2 DEF NewUsdo
  <2> QED
    BY <2>3, <2>4
<1>7. penrose'[g].masters = MasterContracts /\ penrose'[g].registered = MarketsRegistered(chain)
  <2>1. /\ penrose'[g].masters = penrose[g].masters \cup calls.masters
        /\ penrose'[g].registered = penrose[g].registered \cup calls.registered
    BY <1>1, <1>2, WhatAppliesToPenrose
  <2>2. CASE NothingIsSetUp(g)
    BY <1>4, <1>6, <2>1, <2>2 DEF BringsAll
  <2>3. CASE AllIsSetUp(g)
    <3>1. penrose[g].masters = MasterContracts /\ penrose[g].registered = MarketsRegistered(chain)
      BY <2>3 DEF AllIsSetUp
    <3>2. /\ calls.masters \subseteq MasterContracts
          /\ calls.registered \subseteq MarketsRegistered(chain)
      BY <1>3 DEF WithinPlan
    <3> QED
      BY <2>1, <3>1, <3>2
  <2> QED
    BY <1>3, <2>2, <2>3
<1>8. penrose'[g].ethMarket /\ usdo'[g].flashLoanHelper
  <2>1. (NothingIsSetUp(g) => calls.ethMarket /\ calls.flashLoanHelper)
        /\ (AllIsSetUp(g) => penrose[g].ethMarket /\ usdo[g].flashLoanHelper)
    BY <1>4 DEF BringsAll, AllIsSetUp
  <2>2. /\ penrose'[g].ethMarket = (penrose[g].ethMarket \/ calls.ethMarket)
        /\ usdo'[g].flashLoanHelper = (usdo[g].flashLoanHelper \/ calls.flashLoanHelper)
    BY <1>1, <1>2, WhatAppliesToPenrose
  <2> QED
    BY <1>3, <2>1, <2>2
<1>9. "USDO_FLASHLOAN_HELPER" \in usdo'[g].minters \cap usdo'[g].burners
  BY <1>1, <1>2, <1>3, <1>4, WhatAppliesToPenrose DEF BringsAll, AllIsSetUp, FlashLoanMinters
<1>10. assets' = assets \cup calls.assets
  BY <1>1, <1>2, WhatAppliesToPenrose
<1>11. CollateralAssets(g) \subseteq assets'
  BY <1>3, <1>4, <1>10 DEF BringsAll, AllIsSetUp
<1>12. AllIsSetUp(g)'
  <2>1. /\ MasterContracts' = MasterContracts /\ CollateralAssets(g)' = CollateralAssets(g)
        /\ MarketsRegistered(chain)' = MarketsRegistered(chain)
    BY <1>2, PlanStays
  <2>2. (penrose[g].masters = MasterContracts /\ CollateralAssets(g) \subseteq assets)'
    BY <1>7, <1>11, <2>1
  <2>3. (penrose[g].registered = MarketsRegistered(chain))'
    BY <1>7, <2>1
  <2> QED
    BY <1>5, <1>8, <1>9, <2>2, <2>3, Zenon DEF AllIsSetUp
<1>13. ASSUME NEW h \in Generations \ {g}
       PROVE  /\ AllIsSetUp(h) => AllIsSetUp(h)'
              /\ NothingIsSetUp(h) <=> NothingIsSetUp(h)'
  <2>1. penrose'[h] = penrose[h] /\ usdo'[h] = usdo[h] /\ markets'[h] = markets[h]
    BY <1>1, <1>2, WhatAppliesToPenrose
  <2>2. CollateralAssets(h) \cap calls.assets = {}
    BY <1>1, <1>3, AssetsAreApart DEF WithinPlan
  <2>3. CollateralAssets(h)' = CollateralAssets(h) /\ MasterContracts' = MasterContracts
        /\ MarketsRegistered(chain)' = MarketsRegistered(chain)
    BY <1>2, PlanStays
  <2>4. CollateralAssets(h) \cap assets' = CollateralAssets(h) \cap assets
    BY <1>10, <2>2
  <2> QED
    BY <1>10, <2>1, <2>3, <2>4 DEF AllIsSetUp, NothingIsSetUp
<1> QED
  BY <1>12, <1>13

(* What a step that is not a multicall changes on the chain: it peers USDO *)
(* or creates an asset of it.                                              *)
LEMMA OtherStepsSetUp ==
    ASSUME [Next]_vars, ~MulticallSucceeds
    PROVE  /\ UNCHANGED <<penrose, markets>>
           /\ \/ UNCHANGED <<assets, strategies>>
              \/ /\ CreateUsdoAsset
                 /\ assets' = assets \cup {UsdoAsset(Head(pending).gen, strategies + 1)}
                 /\ strategies' = strategies + 1
           /\ \/ UNCHANGED usdo
              \/ At("setLzPeer") /\ usdo' = [usdo EXCEPT ![task.gen].peered = TRUE]
BY DEF Next, vars, chainVars, TaskStep, Mine, DeployGlobals, StartFresh, Load, DeployFinal, Crash,
       Execute, Save, SetLzPeer, SetupUsdoInPenrose, SaveUsdoAsset, SetupRegisterMC,
       SetupRegisterBBAndSGLMarkets, SetupRegisterBigBangEthMarket, SetupUsdoFlashloanHelper,
       SetupCreateYBAssets, SetupInitAndRegisterMarket, SetupRegisterBBAsMinterBurner,
       ExecuteMulticall, CreateUsdoAsset, MulticallReverts

LEMMA OnlyPeered ==
    ASSUME TypeOK, [Next]_vars, ~MulticallSucceeds, NEW g \in Generations
    PROVE  /\ usdo'[g] = [usdo[g] EXCEPT !.peered = usdo'[g].peered]
           /\ usdo'[g].flashLoanHelper = usdo[g].flashLoanHelper
           /\ usdo'[g].minters = usdo[g].minters /\ usdo'[g].burners = usdo[g].burners
<1> DEFINE U == [flashLoanHelper : BOOLEAN, minters : SUBSET Minters, burners : SUBSET Minters,
                 peered : BOOLEAN]
<1>1. usdo \in [Generations -> U] /\ usdo[g] \in U
  BY DEF TypeOK
<1>2. CASE UNCHANGED usdo
  BY <1>1, <1>2
<1>3. CASE At("setLzPeer") /\ usdo' = [usdo EXCEPT ![task.gen].peered = TRUE]
  <2>1. usdo' = [usdo EXCEPT ![task.gen] = [usdo[task.gen] EXCEPT !.peered = TRUE]]
    BY <1>3
  <2>2. usdo'[g] = usdo[g] \/ usdo'[g] = [usdo[g] EXCEPT !.peered = TRUE]
    BY <1>1, <2>1
  <2> QED
    BY <1>1, <2>2
<1> QED
  BY <1>2, <1>3, OtherStepsSetUp

(* What is set up stays so, and a step sets up all or nothing.             *)
LEMMA SetupStaysWhole ==
    ASSUME WholeInv, [Next]_vars
    PROVE  /\ SetupIsWhole'
           /\ \A g \in Generations : /\ AllIsSetUp(g) => AllIsSetUp(g)'
                                     /\ NothingIsSetUp(g)' => NothingIsSetUp(g)
<1>1. TypeOK /\ SetupIsWhole
  BY DEF WholeInv, IInv
<1>2. CASE MulticallSucceeds
  <2> DEFINE tx == Head(pending)
  <2>0. PICK f \in Generations : f = tx.gen
    BY <1>1, <1>2, MulticallIs
  <2>1. \A g \in Generations : ~(NothingIsSetUp(g) /\ AllIsSetUp(g))'
    <3> SUFFICES ASSUME NEW g \in Generations
                 PROVE  ~(NothingIsSetUp(g) /\ AllIsSetUp(g))'
      OBVIOUS
    <3>1. NoAddress # Deployed("USDO", g) /\ NewPenrose.usdoToken = NoAddress
      BY DEF NoAddress, Deployed, NewPenrose
    <3> QED
      BY <3>1 DEF NothingIsSetUp, AllIsSetUp
  <2> QED
    <3>1. AllIsSetUp(f)'
      BY <1>2, <2>0, MulticallSetsUpAll
    <3>2. \A h \in Generations \ {f} :
             /\ AllIsSetUp(h) => AllIsSetUp(h)'
             /\ NothingIsSetUp(h) <=> NothingIsSetUp(h)'
      BY <1>2, <2>0, MulticallSetsUpAll
    <3>3. \A g \in Generations : /\ AllIsSetUp(g) => AllIsSetUp(g)'
                                 /\ NothingIsSetUp(g)' => NothingIsSetUp(g)
      <4> SUFFICES ASSUME NEW g \in Generations
                   PROVE  /\ AllIsSetUp(g) => AllIsSetUp(g)'
                          /\ NothingIsSetUp(g)' => NothingIsSetUp(g)
        OBVIOUS
      <4>1. CASE g = f
        BY <2>1, <3>1, <4>1
      <4>2. CASE g # f
        BY <3>2, <4>2
      <4> QED
        BY <4>1, <4>2
    <3>4. SetupIsWhole'
      <4> SUFFICES ASSUME NEW g \in Generations
                   PROVE  (NothingIsSetUp(g) \/ AllIsSetUp(g))'
        BY DEF SetupIsWhole
      <4>1. CASE g = f
        BY <3>1, <4>1
      <4>2. CASE g # f
        BY <1>1, <3>2, <4>2 DEF SetupIsWhole
      <4> QED
        BY <4>1, <4>2
    <3> QED
      BY <3>3, <3>4
<1>3. CASE ~MulticallSucceeds
  <2> SUFFICES ASSUME NEW g \in Generations
               PROVE  /\ AllIsSetUp(g) => AllIsSetUp(g)'
                      /\ NothingIsSetUp(g)' <=> NothingIsSetUp(g)
    BY <1>1 DEF SetupIsWhole
  <2>1. CollateralAssets(g) \cap assets' = CollateralAssets(g) \cap assets
        /\ assets \subseteq assets'
    <3>1. CASE UNCHANGED assets
      BY <3>1
    <3>2. CASE /\ CreateUsdoAsset
               /\ assets' = assets \cup {UsdoAsset(Head(pending).gen, strategies + 1)}
      <4>1. Head(pending).gen \in Generations
        BY <1>1, <3>2, HeadIsTyped DEF CreateUsdoAsset
      <4>2. UsdoAsset(Head(pending).gen, strategies + 1) \notin CollateralAssets(g)
        BY <4>1, AssetsAreApart
      <4> QED
        BY <3>2, <4>2
    <3> QED
      BY <1>3, <3>1, <3>2, OtherStepsSetUp
  <2>2. CollateralAssets(g)' = CollateralAssets(g) /\ MasterContracts' = MasterContracts
        /\ MarketsRegistered(chain)' = MarketsRegistered(chain)
    BY PlanStays
  <2>3. /\ penrose'[g] = penrose[g] /\ markets'[g] = markets[g]
        /\ usdo'[g] = [usdo[g] EXCEPT !.peered = usdo'[g].peered]
        /\ usdo'[g].flashLoanHelper = usdo[g].flashLoanHelper
        /\ usdo'[g].minters = usdo[g].minters /\ usdo'[g].burners = usdo[g].burners
    BY <1>1, <1>3, OtherStepsSetUp, OnlyPeered
  <2>4. AllIsSetUp(g) => AllIsSetUp(g)'
    BY <2>1, <2>2, <2>3 DEF AllIsSetUp
  <2>5. (usdo'[g] = [NewUsdo EXCEPT !.peered = usdo'[g].peered])
         <=> (usdo[g] = [NewUsdo EXCEPT !.peered = usdo[g].peered])
    <3>1. usdo[g] \in [flashLoanHelper : BOOLEAN, minters : SUBSET Minters,
                       burners : SUBSET Minters, peered : BOOLEAN]
      BY <1>1 DEF TypeOK
    <3> QED
      BY <2>3, <3>1 DEF NewUsdo
  <2>6. NothingIsSetUp(g)' <=> NothingIsSetUp(g)
    BY <2>1, <2>2, <2>3, <2>5 DEF NothingIsSetUp
  <2> QED
    BY <2>4, <2>6
<1> QED
  BY <1>2, <1>3

-----------------------------------------------------------------------------
(* Where each step leaves the run, and with which calls.                   *)
Goes(from, to, calls) ==
    /\ task.step = from /\ task'.step = to
    /\ task'.gen = task.gen /\ task'.calls = calls

WithUsdo(asset) ==
    IF penrose[task.gen].usdoToken # Deployed("USDO", task.gen)
    THEN [task.calls EXCEPT !.usdoAsset = asset] ELSE task.calls

LEMMA WhereRunsStart ==
    ASSUME TypeOK
    PROVE  /\ DeployGlobals => task' = task
           /\ StartFresh => Goes("idle", "execute", task.calls)
           /\ Load => /\ task.step = "idle" /\ task'.step = "setLzPeer"
                      /\ task'.gen = db.gen /\ task'.calls = task.calls
           /\ DeployFinal => /\ task.step = "idle" /\ task'.step = "submitFinal"
                             /\ task'.gen = db.gen
                             /\ task'.calls = [NoCalls EXCEPT !.assetOracles = BBMarkets]
           /\ Execute => /\ task.step = "execute" /\ task'.step = "save"
                         /\ task'.gen = generations + 1 /\ task'.calls = task.calls
           /\ Save => Goes("save", "setLzPeer", task.calls)
           /\ SetLzPeer => Goes("setLzPeer", "setupUsdoInPenrose", task.calls)
           /\ Crash => task' = Idle
<1>1. task \in Run
  BY DEF TypeOK, Run
<1>2. \A step : LET moved == [task EXCEPT !.step = step] IN
         moved = [step |-> step, gen |-> task.gen, asset |-> task.asset, calls |-> task.calls]
  BY <1>1 DEF Run
<1>3. ASSUME NEW step, NEW gen
      PROVE  [task EXCEPT !.step = step, !.gen = gen]
               = [step |-> step, gen |-> gen, asset |-> task.asset, calls |-> task.calls]
  <2> DEFINE moved == [task EXCEPT !.step = step]
  <2>1. moved = [step |-> step, gen |-> task.gen, asset |-> task.asset, calls |-> task.calls]
    BY <1>2
  <2> HIDE DEF moved
  <2>2. [moved EXCEPT !.gen = gen]
           = [step |-> step, gen |-> gen, asset |-> task.asset, calls |-> task.calls]
    BY <2>1
  <2> QED
    BY <2>2 DEF moved
<1>4. DeployGlobals => task' = task
  BY DEF DeployGlobals
<1>5. StartFresh => Goes("idle", "execute", task.calls)
  BY <1>2 DEF StartFresh, GoTo, Goes, At
<1>6. Load => /\ task.step = "idle" /\ task'.step = "setLzPeer"
              /\ task'.gen = db.gen /\ task'.calls = task.calls
  BY <1>3 DEF Load, At
<1>7. DeployFinal => /\ task.step = "idle" /\ task'.step = "submitFinal"
                     /\ task'.gen = db.gen
                     /\ task'.calls = [NoCalls EXCEPT !.assetOracles = BBMarkets]
  BY DEF DeployFinal, Idle, At
<1>8. Execute => /\ task.step = "execute" /\ task'.step = "save"
                 /\ task'.gen = generations + 1 /\ task'.calls = task.calls
  BY <1>3 DEF Execute, At
<1>9. Save => Goes("save", "setLzPeer", task.calls)
  BY <1>2 DEF Save, GoTo, Goes, At
<1>10. SetLzPeer => Goes("setLzPeer", "setupUsdoInPenrose", task.calls)
  BY <1>2 DEF SetLzPeer, GoTo, Goes, At
<1>11. Crash => task' = Idle
  BY DEF Crash
<1> QED
  BY <1>4, <1>5, <1>6, <1>7, <1>8, <1>9, <1>10, <1>11

(* The first multicall is put together.                                    *)
LEMMA WhereTheFirstSetupGoes ==
    ASSUME TypeOK,
           \/ SetupUsdoInPenrose \/ SaveUsdoAsset \/ SetupRegisterMC
           \/ SetupRegisterBBAndSGLMarkets \/ SetupRegisterBigBangEthMarket
           \/ SetupUsdoFlashloanHelper \/ SetupCreateYBAssets
    PROVE  \/ task' = Idle
           \/ /\ SetupUsdoInPenrose /\ UsdoEntryIsValid(task.gen)
              /\ Goes("setupUsdoInPenrose", "setupRegisterMC", WithUsdo(db.usdoAsset))
           \/ /\ SetupUsdoInPenrose /\ ~UsdoEntryIsValid(task.gen)
              /\ Goes("setupUsdoInPenrose", "createAsset", task.calls)
           \/ /\ SaveUsdoAsset
              /\ Goes("saveAsset", "setupRegisterMC", WithUsdo(task.asset))
           \/ /\ SetupRegisterMC
              /\ Goes("setupRegisterMC", "setupRegisterMarkets",
                      [task.calls EXCEPT !.masters = MastersToRegister(task.gen)])
           \/ /\ SetupRegisterBBAndSGLMarkets
              /\ Goes("setupRegisterMarkets", "setupRegisterEthMarket",
                      [task.calls EXCEPT !.registered =
                          MarketsRegistered(chain) \ penrose[task.gen].registered])
           \/ /\ SetupRegisterBigBangEthMarket
              /\ Goes("setupRegisterEthMarket", "setupFlashloanHelper",
                      [task.calls EXCEPT !.ethMarket = ~penrose[task.gen].ethMarket])
           \/ /\ SetupUsdoFlashloanHelper
              /\ Goes("setupFlashloanHelper", "setupCreateYBAssets",
                      [task.calls EXCEPT
                          !.flashLoanHelper = ~usdo[task.gen].flashLoanHelper,
                          !.minters = FlashLoanMinters \ usdo[task.gen].minters,
                          !.burners = FlashLoanMinters \ usdo[task.gen].burners])
           \/ /\ SetupCreateYBAssets
              /\ Goes("setupCreateYBAssets", "submit1",
                      [task.calls EXCEPT !.assets =
                          {a \in CollateralAssets(task.gen) : ids(a) = NoAsset}])
<1>1. \A calls, step : Push(calls, step) => Goes(task.step, step, calls)
  BY PushFields DEF Goes
<1>2. \A kind, step : Send(kind, step) => Goes(task.step, step, task.calls)
  BY DEF Send, GoTo, Goes, TypeOK
<1>3. \A asset : PushUsdoToken(asset) => Goes(task.step, "setupRegisterMC", WithUsdo(asset))
  BY <1>1, Zenon DEF PushUsdoToken, WithUsdo
<1>4. CASE SetupUsdoInPenrose
  BY <1>2, <1>3, <1>4 DEF SetupUsdoInPenrose, At, Goes
<1>5. CASE SaveUsdoAsset
  BY <1>3, <1>5 DEF SaveUsdoAsset, At
<1>6. CASE SetupRegisterMC
  BY <1>1, <1>6 DEF SetupRegisterMC, At
<1>7. CASE SetupRegisterBBAndSGLMarkets
  BY <1>1, <1>7 DEF SetupRegisterBBAndSGLMarkets, At
<1>8. CASE SetupRegisterBigBangEthMarket
  BY <1>1, <1>8 DEF SetupRegisterBigBangEthMarket, At
<1>9. CASE SetupUsdoFlashloanHelper
  BY <1>1, <1>9 DEF SetupUsdoFlashloanHelper, At
<1>10. CASE SetupCreateYBAssets
  BY <1>1, <1>10 DEF SetupCreateYBAssets, At
<1> QED
  BY <1>4, <1>5, <1>6, <1>7, <1>8, <1>9, <1>10

(* The second one, and what happens on the chain.                          *)
MarketsToInitialise(g) == {m \in MarketsInitialised(chain) : ~IsInitialised(g, m)}
InitsOf(g) ==
    [m \in Markets |-> IF m \notin MarketsToInitialise(g) THEN NoInit
                       ELSE IF m \in BBMarkets THEN initBBMarket(g, m)
                       ELSE initSGLMarket(g, m)]

LEMMA WhereTheSecondSetupGoes ==
    ASSUME TypeOK, AwaitedByRun,
           \/ SetupInitAndRegisterMarket \/ SetupRegisterBBAsMinterBurner
           \/ ExecuteMulticall \/ Mine
    PROVE  \/ task' = Idle
           \/ task' = task
           \/ /\ SetupInitAndRegisterMarket
              /\ Goes("setupInitMarkets", "setupMinters",
                      [NoCalls EXCEPT !.inits = InitsOf(task.gen)])
              /\ \A m \in MarketsToInitialise(task.gen) : collateralId(task.gen, m) # NoAsset
           \/ /\ SetupRegisterBBAsMinterBurner
              /\ Goes("setupMinters", "submit2",
                      [task.calls EXCEPT
                          !.minters = MintingMarkets \ usdo[task.gen].minters,
                          !.burners = MintingMarkets \ usdo[task.gen].minters])
           \/ /\ ExecuteMulticall
              /\ \/ Goes("submit1", "await1", task.calls)
                 \/ Goes("submit2", "await2", task.calls)
                 \/ Goes("submitFinal", "awaitFinal", task.calls)
           \/ /\ CreateUsdoAsset /\ Goes("createAsset", "saveAsset", task.calls)
              /\ task'.asset = UsdoAsset(task.gen, strategies + 1)
              /\ pending' = <<>> /\ Head(pending).gen = task.gen
           \/ /\ MulticallSucceeds /\ Goes("await1", "setupInitMarkets", NoCalls)
              /\ Head(pending).gen = task.gen
<1> DEFINE tx == Head(pending)
<1>1. \A calls, step : Push(calls, step) => Goes(task.step, step, calls)
  BY PushFields DEF Goes
<1>2. \A kind, step : Send(kind, step) => Goes(task.step, step, task.calls)
  BY DEF Send, GoTo, Goes, TypeOK
<1>3. CASE SetupInitAndRegisterMarket
  <2> DEFINE known == \A m \in MarketsToInitialise(task.gen) :
                         /\ CollateralOf[m][2] \in DeployedNames(chain)
                         /\ collateralId(task.gen, m) # NoAsset
  <2>1. task.step = "setupInitMarkets"
    BY <1>3 DEF SetupInitAndRegisterMarket, At
  <2>2. IF known THEN Push([NoCalls EXCEPT !.inits = InitsOf(task.gen)], "setupMinters")
        ELSE task' = Idle
    BY <1>3, Zenon DEF SetupInitAndRegisterMarket, InitsOf, MarketsToInitialise
  <2> HIDE DEF known
  <2>3. known => \A m \in MarketsToInitialise(task.gen) : collateralId(task.gen, m) # NoAsset
    BY DEF known
  <2> QED
    BY <1>1, <1>3, <2>1, <2>2, <2>3
<1>4. CASE SetupRegisterBBAsMinterBurner
  <2>1. Push([task.calls EXCEPT
                 !.minters = MintingMarkets \ usdo[task.gen].minters,
                 !.burners = MintingMarkets \ usdo[task.gen].minters], "submit2")
    BY <1>4, Zenon DEF SetupRegisterBBAsMinterBurner
  <2>2. task.step = "setupMinters"
    BY <1>4 DEF SetupRegisterBBAsMinterBurner, At
  <2>3. Goes(task.step, "submit2",
             [task.calls EXCEPT
                 !.minters = MintingMarkets \ usdo[task.gen].minters,
                 !.burners = MintingMarkets \ usdo[task.gen].minters])
    BY <1>1, <2>1, Zenon
  <2> QED
    BY <1>4, <2>2, <2>3, Zenon
<1>5. CASE ExecuteMulticall
  BY <1>2, <1>5 DEF ExecuteMulticall, At, Goes
<1>6. CASE CreateUsdoAsset
  <2> DEFINE asset == UsdoAsset(tx.gen, strategies + 1)
  <2>1. pending # <<>> /\ pending' = Tail(pending) /\ tx.kind = "asset"
        /\ (~tx.awaited => task' = task)
        /\ (tx.awaited => task' = [task EXCEPT !.step = "saveAsset", !.asset = asset])
    BY <1>6, Zenon DEF CreateUsdoAsset, Resume
  <2>2. CASE tx.awaited
    <3>1. pending' = <<>> /\ tx.gen = task.gen /\ task.step = "createAsset"
      BY <2>1, <2>2, AwaitedHead DEF At
    <3> DEFINE moved == [task EXCEPT !.step = "saveAsset"]
    <3>2. moved = [step |-> "saveAsset", gen |-> task.gen, asset |-> task.asset,
                   calls |-> task.calls]
      BY DEF TypeOK
    <3>3. task' = [moved EXCEPT !.asset = asset]
      BY <2>1, <2>2
    <3> HIDE DEF moved, asset
    <3>4. task' = [step |-> "saveAsset", gen |-> task.gen, asset |-> asset,
                   calls |-> task.calls]
      BY <3>2, <3>3
    <3>5. Goes("createAsset", "saveAsset", task.calls) /\ task'.asset = asset
      BY <3>1, <3>4 DEF Goes
    <3> QED
      BY <1>6, <3>1, <3>5 DEF asset
  <2> QED
    BY <2>1, <2>2
<1>7. CASE MulticallSucceeds
  <2>1. pending # <<>> /\ task' = IF tx.awaited THEN AfterMulticall ELSE task
    BY <1>7, Zenon DEF MulticallSucceeds, Resume
  <2>2. CASE tx.awaited /\ At("await1")
    <3>1. tx.gen = task.gen /\ Push(NoCalls, "setupInitMarkets")
      BY <2>1, <2>2, AwaitedHead DEF AfterMulticall, Push
    <3> QED
      BY <1>1, <1>7, <2>2, <3>1 DEF At
  <2> QED
    BY <2>1, <2>2 DEF AfterMulticall
<1>8. CASE MulticallReverts
  BY <1>8 DEF MulticallReverts, Resume
<1> QED
  BY <1>3, <1>4, <1>5, <1>6, <1>7, <1>8 DEF Mine

-----------------------------------------------------------------------------
LEMMA NoCallsArePlanned == \A g : WithinPlan(g, NoCalls)
<1>1. /\ NoCalls.masters = {} /\ NoCalls.registered = {} /\ NoCalls.assets = {}
      /\ NoCalls.minters = {} /\ NoCalls.inits = [m \in Markets |-> NoInit]
  BY DEF NoCalls
<1>2. ToInitialise(NoCalls) = {}
  BY <1>1 DEF ToInitialise
<1> QED
  BY <1>1, <1>2 DEF WithinPlan

(* Calls that were as planned stay so.                                     *)
LEMMA PlannedStays ==
    ASSUME [Next]_vars, NEW g, NEW calls, WithinPlan(g, calls)
    PROVE  WithinPlan(g, calls)'
<1>1. /\ MasterContracts' = MasterContracts /\ MintingMarkets' = MintingMarkets
      /\ MarketsRegistered(chain)' = MarketsRegistered(chain)
      /\ MarketsInitialised(chain)' = MarketsInitialised(chain)
      /\ CollateralAssets(g)' = CollateralAssets(g)
  BY PlanStays
<1>2. (calls.masters \subseteq MasterContracts /\ calls.assets \subseteq CollateralAssets(g))'
  BY <1>1 DEF WithinPlan
<1>3. (calls.registered \subseteq MarketsRegistered(chain))'
  BY <1>1 DEF WithinPlan
<1>4. (calls.minters \subseteq FlashLoanMinters \cup MintingMarkets)'
  BY <1>1 DEF WithinPlan, FlashLoanMinters
<1>5. (ToInitialise(calls) \subseteq MarketsInitialised(chain))'
  BY <1>1 DEF WithinPlan, ToInitialise
<1> QED
  BY <1>2, <1>3, <1>4, <1>5, Zenon DEF WithinPlan

LEMMA PushedStays ==
    ASSUME [Next]_vars, NEW step, NEW g, NEW calls
    PROVE  /\ PushedSoFar(step, g, calls)' <=> PushedSoFar(step, g, calls)
           /\ WholeOrFails(g, calls)' <=> WholeOrFails(g, calls)
<1>1. /\ MasterContracts' = MasterContracts
      /\ MarketsRegistered(chain)' = MarketsRegistered(chain)
      /\ CollateralAssets(g)' = CollateralAssets(g)
  BY PlanStays
<1>2. (calls.masters = MasterContracts)' <=> (calls.masters = MasterContracts)
  BY <1>1
<1>3. (calls.registered = MarketsRegistered(chain))'
         <=> (calls.registered = MarketsRegistered(chain))
  BY <1>1
<1>4. (CollateralAssets(g) \subseteq calls.assets)' <=> (CollateralAssets(g) \subseteq calls.assets)
  BY <1>1
<1>5. UsdoPushed' = UsdoPushed /\ MastersPushed' = MastersPushed /\ Registering' = Registering
      /\ EthMarketPushed' = EthMarketPushed /\ HelperPushed' = HelperPushed
      /\ FlashLoanMinters' = FlashLoanMinters
  BY DEF UsdoPushed, MastersPushed, Registering, EthMarketPushed, HelperPushed, FlashLoanMinters
<1> QED
  BY <1>2, <1>3, <1>4, <1>5 DEF PushedSoFar, WholeOrFails, BringsAll

(* A run that goes on with calls that are planned, and with those that are *)
(* pushed up to its step.                                                  *)
LEMMA RunGoesOnWhole ==
    ASSUME WholeInv, [Next]_vars, NEW g \in Generations, NEW step, NEW calls,
           task'.gen = g, task'.step = step, task'.calls = calls,
           WithinPlan(g, calls), step \notin {"saveAsset", "submitFinal"},
           step \in SecondSetup => AllIsSetUp(g),
           step \in UsdoPushed /\ NothingIsSetUp(g) => PushedSoFar(step, g, calls)
    PROVE  RunIsWhole' /\ WithinPlan(task.gen, task.calls)'
<1>1. WithinPlan(g, calls)'
  BY PlannedStays
<1>2. WithinPlan(task.gen, task.calls)'
  BY <1>1 DEF WithinPlan
<1>3. (step \in SecondSetup => AllIsSetUp(g))' /\ (NothingIsSetUp(g)' => NothingIsSetUp(g))
  BY SetupStaysWhole DEF SecondSetup
<1>4. (step \in UsdoPushed /\ NothingIsSetUp(g) => PushedSoFar(step, g, calls))'
  BY <1>3, PushedStays DEF UsdoPushed, MastersPushed, Registering
<1>5. (task.step \in SecondSetup => AllIsSetUp(task.gen))'
  BY <1>3
<1>6. (task.step \in UsdoPushed /\ NothingIsSetUp(task.gen)
          => PushedSoFar(task.step, task.gen, task.calls))'
  BY <1>4
<1> QED
  BY <1>2, <1>5, <1>6 DEF RunIsWhole, At

LEMMA EndIsWhole ==
    ASSUME task' = Idle
    PROVE  RunIsWhole' /\ WithinPlan(task.gen, task.calls)'
<1>1. task'.step = "idle" /\ task'.calls = NoCalls
  BY DEF Idle
<1>2. /\ NoCalls.masters = {} /\ NoCalls.registered = {} /\ NoCalls.assets = {}
      /\ NoCalls.minters = {} /\ NoCalls.inits = [m \in Markets |-> NoInit]
  BY DEF NoCalls
<1>3. ToInitialise(task'.calls) = {}
  BY <1>1, <1>2 DEF ToInitialise
<1> QED
  BY <1>1, <1>2, <1>3
     DEF WithinPlan, RunIsWhole, At, SecondSetup, UsdoPushed, MastersPushed, Registering

(* While something else happens.                                           *)
LEMMA OtherIsWhole ==
    ASSUME WholeInv, [Next]_vars, task' = task
    PROVE  RunIsWhole' /\ WithinPlan(task.gen, task.calls)'
<1>1. TypeOK /\ RunIsWhole /\ WithinPlan(task.gen, task.calls) /\ RunIsCovered
  BY DEF WholeInv, IInv, CallsArePlanned
<1>2. CASE task.step \in {"idle", "execute"}
  <2>1. task.calls = NoCalls
    BY <1>1, <1>2 DEF RunIsCovered
  <2>2. \A g : WithinPlan(g, NoCalls)'
    BY NoCallsArePlanned, PlannedStays
  <2> QED
    BY <1>2, <2>1, <2>2
       DEF RunIsWhole, At, SecondSetup, UsdoPushed, MastersPushed, Registering, WithinPlan
<1>3. CASE task.step \notin {"idle", "execute"}
  <2>1. PICK g \in Generations : g = task.gen
    BY <1>1, <1>3, RunIsTyped
  <2>2. PICK calls : calls = task.calls
    OBVIOUS
  <2>3. PICK step : step = task.step
    OBVIOUS
  <2>4. (step \in SecondSetup => AllIsSetUp(g))
        /\ (step \in UsdoPushed /\ NothingIsSetUp(g) => PushedSoFar(step, g, calls))
    BY <1>1, <2>1, <2>2, <2>3 DEF RunIsWhole
  <2>5. CASE step \notin {"saveAsset", "submitFinal"}
    BY <1>1, <2>1, <2>2, <2>3, <2>4, <2>5, RunGoesOnWhole
  <2>6. CASE step \in {"saveAsset", "submitFinal"}
    <3>1. WithinPlan(g, calls)'
      BY <1>1, <2>1, <2>2, PlannedStays
    <3>2. WithinPlan(task.gen, task.calls)'
      BY <3>1, <2>1, <2>2 DEF WithinPlan
    <3> QED
      BY <1>1, <2>3, <2>6, <3>2
         DEF RunIsWhole, At, SecondSetup, UsdoPushed, MastersPushed, Registering
  <2> QED
    BY <2>5, <2>6
<1> QED
  BY <1>2, <1>3

LEMMA NothingMeans ==
    ASSUME NEW g \in Generations, NothingIsSetUp(g)
    PROVE  /\ penrose[g].usdoToken # Deployed("USDO", g) /\ penrose[g].usdoAssetId = NoAsset
           /\ penrose[g].masters = {} /\ penrose[g].registered = {} /\ ~penrose[g].ethMarket
           /\ ~usdo[g].flashLoanHelper /\ usdo[g].minters = {} /\ usdo[g].burners = {}
           /\ CollateralAssets(g) \cap assets = {}
           /\ \A m \in Markets : markets[g][m] = NewMarket
<1>1. penrose[g] = NewPenrose /\ NoAddress # Deployed("USDO", g)
  BY DEF NothingIsSetUp, NoAddress, Deployed
<1>2. usdo[g] = [NewUsdo EXCEPT !.peered = usdo[g].peered]
  BY DEF NothingIsSetUp
<1>3. /\ penrose[g].usdoToken # Deployed("USDO", g) /\ penrose[g].usdoAssetId = NoAsset
      /\ penrose[g].masters = {} /\ penrose[g].registered = {} /\ ~penrose[g].ethMarket
  BY <1>1 DEF NewPenrose
<1>4. ~usdo[g].flashLoanHelper /\ usdo[g].minters = {} /\ usdo[g].burners = {}
  BY <1>2 DEF NewUsdo
<1> QED
  BY <1>3, <1>4 DEF NothingIsSetUp

(* What a run has when it goes on with the first setup.                    *)
LEMMA FirstSetupHas ==
    ASSUME WholeInv, NEW g \in Generations, g = task.gen,
           task.step \in UsdoPushed \cup {"setupUsdoInPenrose", "saveAsset"}
    PROVE  /\ task.calls \in CallsOK /\ WithinPlan(g, task.calls)
           /\ task.step \in UsdoPushed /\ NothingIsSetUp(g)
                => PushedSoFar(task.step, g, task.calls)
           /\ task.step = "saveAsset" => task.asset # NoAsset
BY DEF WholeInv, IInv, TypeOK, CallsArePlanned, RunIsWhole, At

LEMMA FirstSetupIsWhole ==
    ASSUME WholeInv,
           \/ SetupUsdoInPenrose \/ SaveUsdoAsset \/ SetupRegisterMC
           \/ SetupRegisterBBAndSGLMarkets \/ SetupRegisterBigBangEthMarket
           \/ SetupUsdoFlashloanHelper \/ SetupCreateYBAssets
    PROVE  RunIsWhole' /\ WithinPlan(task.gen, task.calls)'
<1>1. [Next]_vars /\ TypeOK
  BY DEF WholeInv, IInv, Next, TaskStep
<1>2. task.step \in UsdoPushed \cup {"setupUsdoInPenrose", "saveAsset"}
  BY DEF SetupUsdoInPenrose, SaveUsdoAsset, SetupRegisterMC, SetupRegisterBBAndSGLMarkets,
         SetupRegisterBigBangEthMarket, SetupUsdoFlashloanHelper, SetupCreateYBAssets, At,
         UsdoPushed, MastersPushed, Registering
<1>3. task.step \notin {"idle", "execute"}
  BY <1>2 DEF UsdoPushed, MastersPushed, Registering
<1>4. PICK g \in Generations : g = task.gen
  BY <1>1, <1>3, RunIsTyped
<1> DEFINE c == task.calls
<1>5. /\ c \in CallsOK /\ WithinPlan(g, c)
      /\ task.step \in UsdoPushed /\ NothingIsSetUp(g) => PushedSoFar(task.step, g, c)
      /\ task.step = "saveAsset" => task.asset # NoAsset
  BY <1>2, <1>4, FirstSetupHas
<1> HIDE DEF c
<1>6. NothingIsSetUp(g) => 
        /\ penrose[g].usdoToken # Deployed("USDO", g)
        /\ penrose[g].masters = {} /\ penrose[g].registered = {} /\ ~penrose[g].ethMarket
        /\ ~usdo[g].flashLoanHelper /\ usdo[g].minters = {} /\ usdo[g].burners = {}
        /\ CollateralAssets(g) \cap assets = {}
  BY NothingMeans
<1>7. ASSUME NEW calls, NEW to, NEW from, Goes(from, to, calls),
             WithinPlan(g, calls), to \notin {"saveAsset", "submitFinal"} \cup SecondSetup,
             to \in UsdoPushed /\ NothingIsSetUp(g) => PushedSoFar(to, g, calls)
      PROVE  RunIsWhole' /\ WithinPlan(task.gen, task.calls)'
  BY <1>1, <1>4, <1>7, RunGoesOnWhole DEF Goes
<1>8. ASSUME NEW asset, asset # NoAsset, NEW from, Goes(from, "setupRegisterMC", WithUsdo(asset))
      PROVE  RunIsWhole' /\ WithinPlan(task.gen, task.calls)'
  <2> DEFINE calls == WithUsdo(asset)
  <2>1. /\ calls.masters = c.masters /\ calls.registered = c.registered
        /\ calls.assets = c.assets /\ calls.minters = c.minters /\ calls.inits = c.inits
    BY <1>5 DEF WithUsdo, CallsOK, c
  <2>2. NothingIsSetUp(g) => calls.usdoAsset = asset
    BY <1>4, <1>5, <1>6 DEF WithUsdo, CallsOK, c
  <2>3. WithinPlan(g, calls)
    BY <1>5, <2>1 DEF WithinPlan, ToInitialise
  <2>4. NothingIsSetUp(g) => PushedSoFar("setupRegisterMC", g, calls)
    BY <1>8, <2>2
       DEF PushedSoFar, MastersPushed, Registering, EthMarketPushed, HelperPushed
  <2> HIDE DEF calls
  <2>5. Goes(from, "setupRegisterMC", calls)
    BY <1>8 DEF calls
  <2>6. "setupRegisterMC" \notin {"saveAsset", "submitFinal"} \cup SecondSetup
    BY DEF SecondSetup
  <2> QED
    BY <1>7, <2>3, <2>4, <2>5, <2>6
<1>9. CASE /\ UsdoEntryIsValid(task.gen)
           /\ Goes("setupUsdoInPenrose", "setupRegisterMC", WithUsdo(db.usdoAsset))
  BY <1>8, <1>9 DEF UsdoEntryIsValid
<1>10. CASE Goes("setupUsdoInPenrose", "createAsset", task.calls)
  <2>1. "createAsset" \notin {"saveAsset", "submitFinal"} \cup SecondSetup \cup UsdoPushed
    BY DEF SecondSetup, UsdoPushed, MastersPushed, Registering
  <2> QED
    BY <1>5, <1>7, <1>10, <2>1 DEF c
<1>11. CASE Goes("saveAsset", "setupRegisterMC", WithUsdo(task.asset))
  BY <1>5, <1>8, <1>11 DEF Goes
<1>12. CASE Goes("setupRegisterMC", "setupRegisterMarkets",
                 [task.calls EXCEPT !.masters = MastersToRegister(task.gen)])
  <2> DEFINE calls == [c EXCEPT !.masters = MastersToRegister(g)]
  <2>1. /\ calls.masters = MastersToRegister(g) /\ calls.registered = c.registered
        /\ calls.usdoAsset = c.usdoAsset
        /\ calls.assets = c.assets /\ calls.minters = c.minters /\ calls.inits = c.inits
    BY <1>5 DEF CallsOK
  <2>2. Goes("setupRegisterMC", "setupRegisterMarkets", calls)
    BY <1>4, <1>12 DEF c
  <2> HIDE DEF calls
  <2>3. WithinPlan(g, calls)
    BY <1>5, <2>1 DEF WithinPlan, ToInitialise, MastersToRegister
  <2>4. NothingIsSetUp(g) => c.usdoAsset # NoAsset
    BY <1>5, <2>2 DEF PushedSoFar, UsdoPushed, Goes
  <2>5. NothingIsSetUp(g) => PushedSoFar("setupRegisterMarkets", g, calls)
    BY <1>6, <2>1, <2>4
       DEF PushedSoFar, MastersPushed, Registering, EthMarketPushed, HelperPushed,
           MastersToRegister
  <2>6. "setupRegisterMarkets" \notin {"saveAsset", "submitFinal"} \cup SecondSetup
    BY DEF SecondSetup
  <2> QED
    BY <1>7, <2>2, <2>3, <2>5, <2>6
<1>13. CASE Goes("setupRegisterMarkets", "setupRegisterEthMarket",
                 [task.calls EXCEPT !.registered =
                     MarketsRegistered(chain) \ penrose[task.gen].registered])
  <2> DEFINE todo == MarketsRegistered(chain) \ penrose[g].registered
             calls == [c EXCEPT !.registered = todo]
  <2>1. /\ calls.masters = c.masters /\ calls.registered = todo
        /\ calls.usdoAsset = c.usdoAsset
        /\ calls.assets = c.assets /\ calls.minters = c.minters /\ calls.inits = c.inits
    <3> HIDE DEF todo
    <3> QED
      BY <1>5 DEF CallsOK
  <2>2. Goes("setupRegisterMarkets", "setupRegisterEthMarket", calls)
    BY <1>4, <1>13 DEF c
  <2> HIDE DEF calls
  <2>3. WithinPlan(g, calls)
    <3>1. todo \subseteq MarketsRegistered(chain)
      OBVIOUS
    <3> HIDE DEF todo
    <3> QED
      BY <1>5, <2>1, <3>1 DEF WithinPlan, ToInitialise
  <2>4. NothingIsSetUp(g) => c.usdoAsset # NoAsset /\ c.masters = MasterContracts
    BY <1>5, <2>2 DEF PushedSoFar, UsdoPushed, MastersPushed, Goes
  <2>5. NothingIsSetUp(g) => todo = MarketsRegistered(chain)
    BY <1>6
  <2> HIDE DEF todo
  <2>6. NothingIsSetUp(g) => PushedSoFar("setupRegisterEthMarket", g, calls)
    BY <2>1, <2>4, <2>5 DEF PushedSoFar, EthMarketPushed, HelperPushed
  <2>7. "setupRegisterEthMarket" \notin {"saveAsset", "submitFinal"} \cup SecondSetup
    BY DEF SecondSetup
  <2> QED
    BY <1>7, <2>2, <2>3, <2>6, <2>7
<1>14. CASE Goes("setupRegisterEthMarket", "setupFlashloanHelper",
                 [task.calls EXCEPT !.ethMarket = ~penrose[task.gen].ethMarket])
  <2> DEFINE todo == ~penrose[g].ethMarket
             calls == [c EXCEPT !.ethMarket = todo]
  <2>1. /\ calls.masters = c.masters /\ calls.registered = c.registered
        /\ calls.usdoAsset = c.usdoAsset /\ calls.ethMarket = todo
        /\ calls.assets = c.assets /\ calls.minters = c.minters /\ calls.inits = c.inits
    BY <1>5 DEF CallsOK
  <2>2. Goes("setupRegisterEthMarket", "setupFlashloanHelper", calls)
    BY <1>4, <1>14 DEF c
  <2> HIDE DEF calls
  <2>3. WithinPlan(g, calls)
    BY <1>5, <2>1 DEF WithinPlan, ToInitialise
  <2>4. NothingIsSetUp(g) => /\ c.usdoAsset # NoAsset /\ c.masters = MasterContracts
                             /\ c.registered = MarketsRegistered(chain) /\ todo
    BY <1>5, <1>6, <2>2 DEF PushedSoFar, UsdoPushed, MastersPushed, Registering, Goes
  <2> HIDE DEF todo
  <2>5. NothingIsSetUp(g) => PushedSoFar("setupFlashloanHelper", g, calls)
    BY <2>1, <2>4 DEF PushedSoFar, HelperPushed
  <2>6. "setupFlashloanHelper" \notin {"saveAsset", "submitFinal"} \cup SecondSetup
    BY DEF SecondSetup
  <2> QED
    BY <1>7, <2>2, <2>3, <2>5, <2>6
<1>15. CASE Goes("setupFlashloanHelper", "setupCreateYBAssets",
                 [task.calls EXCEPT
                     !.flashLoanHelper = ~usdo[task.gen].flashLoanHelper,
                     !.minters = FlashLoanMinters \ usdo[task.gen].minters,
                     !.burners = FlashLoanMinters \ usdo[task.gen].burners])
  <2> DEFINE c1 == [c EXCEPT !.flashLoanHelper = ~usdo[g].flashLoanHelper]
             c2 == [c1 EXCEPT !.minters = FlashLoanMinters \ usdo[g].minters]
             calls == [c2 EXCEPT !.burners = FlashLoanMinters \ usdo[g].burners]
  <2>0. FlashLoanMinters \ usdo[g].minters \in SUBSET Minters
    BY DEF FlashLoanMinters, Minters
  <2>1. /\ c1 \in CallsOK /\ c1.masters = c.masters /\ c1.registered = c.registered
        /\ c1.usdoAsset = c.usdoAsset /\ c1.ethMarket = c.ethMarket
        /\ c1.flashLoanHelper = ~usdo[g].flashLoanHelper
        /\ c1.assets = c.assets /\ c1.inits = c.inits
    BY <1>5 DEF CallsOK
  <2>2. Goes("setupFlashloanHelper", "setupCreateYBAssets", calls)
    BY <1>4, <1>15 DEF c
  <2> HIDE DEF c1
  <2>3. /\ c2 \in CallsOK /\ c2.masters = c1.masters /\ c2.registered = c1.registered
        /\ c2.usdoAsset = c1.usdoAsset /\ c2.ethMarket = c1.ethMarket
        /\ c2.flashLoanHelper = c1.flashLoanHelper
        /\ c2.assets = c1.assets /\ c2.inits = c1.inits
        /\ c2.minters = FlashLoanMinters \ usdo[g].minters
    BY <2>0, <2>1 DEF CallsOK
  <2> HIDE DEF c2
  <2>4. /\ calls.masters = c2.masters /\ calls.registered = c2.registered
        /\ calls.usdoAsset = c2.usdoAsset /\ calls.ethMarket = c2.ethMarket
        /\ calls.flashLoanHelper = c2.flashLoanHelper
        /\ calls.assets = c2.assets /\ calls.inits = c2.inits /\ calls.minters = c2.minters
        /\ calls.burners = FlashLoanMinters \ usdo[g].burners
    BY <2>3 DEF CallsOK
  <2> HIDE DEF calls
  <2>5. WithinPlan(g, calls)
    <3>1. calls.minters \subseteq FlashLoanMinters \cup MintingMarkets
      BY <2>3, <2>4
    <3>2. ToInitialise(calls) = ToInitialise(c)
      BY <2>1, <2>3, <2>4 DEF ToInitialise
    <3> QED
      BY <1>5, <2>1, <2>3, <2>4, <3>1, <3>2 DEF WithinPlan
  <2>6. NothingIsSetUp(g) => /\ c.usdoAsset # NoAsset /\ c.masters = MasterContracts
                             /\ c.registered = MarketsRegistered(chain) /\ c.ethMarket
    BY <1>5, <2>2
       DEF PushedSoFar, UsdoPushed, MastersPushed, Registering, EthMarketPushed, Goes
  <2>7. NothingIsSetUp(g) => /\ ~usdo[g].flashLoanHelper
                             /\ FlashLoanMinters \subseteq calls.minters \cap calls.burners
    BY <1>6, <2>3, <2>4
  <2>8. NothingIsSetUp(g) => PushedSoFar("setupCreateYBAssets", g, calls)
    BY <2>1, <2>3, <2>4, <2>6, <2>7 DEF PushedSoFar
  <2>9. "setupCreateYBAssets" \notin {"saveAsset", "submitFinal"} \cup SecondSetup
    BY DEF SecondSetup
  <2> QED
    BY <1>7, <2>2, <2>5, <2>8, <2>9
<1>16. CASE Goes("setupCreateYBAssets", "submit1",
                 [task.calls EXCEPT !.assets =
                     {a \in CollateralAssets(task.gen) : ids(a) = NoAsset}])
  <2> DEFINE todo == {a \in CollateralAssets(g) : ids(a) = NoAsset}
             calls == [c EXCEPT !.assets = todo]
  <2>1. /\ calls.masters = c.masters /\ calls.registered = c.registered
        /\ calls.usdoAsset = c.usdoAsset /\ calls.ethMarket = c.ethMarket
        /\ calls.flashLoanHelper = c.flashLoanHelper /\ calls.burners = c.burners
        /\ calls.assets = todo /\ calls.minters = c.minters /\ calls.inits = c.inits
    <3> HIDE DEF todo
    <3> QED
      BY <1>5 DEF CallsOK
  <2>2. Goes("setupCreateYBAssets", "submit1", calls)
    BY <1>4, <1>16 DEF c
  <2> HIDE DEF calls
  <2>3. todo \subseteq CollateralAssets(g)
    OBVIOUS
  <2>4. NothingIsSetUp(g) => CollateralAssets(g) \subseteq todo
    BY <1>6 DEF ids
  <2> HIDE DEF todo
  <2>5. WithinPlan(g, calls)
    BY <1>5, <2>1, <2>3 DEF WithinPlan, ToInitialise
  <2>6. NothingIsSetUp(g) => /\ c.usdoAsset # NoAsset /\ c.masters = MasterContracts
                             /\ c.registered = MarketsRegistered(chain) /\ c.ethMarket
                             /\ c.flashLoanHelper
                             /\ FlashLoanMinters \subseteq c.minters \cap c.burners
    BY <1>5, <2>2
       DEF PushedSoFar, UsdoPushed, MastersPushed, Registering, EthMarketPushed,
           HelperPushed, Goes
  <2>7. NothingIsSetUp(g) => PushedSoFar("submit1", g, calls)
    BY <2>1, <2>4, <2>6 DEF PushedSoFar
  <2>8. "submit1" \notin {"saveAsset", "submitFinal"} \cup SecondSetup
    BY DEF SecondSetup
  <2> QED
    BY <1>7, <2>2, <2>5, <2>7, <2>8
<1> QED
  BY <1>1, <1>9, <1>10, <1>11, <1>12, <1>13, <1>14, <1>15, <1>16, WhereTheFirstSetupGoes,
     EndIsWhole

LEMMA SecondSetupIsWhole ==
    ASSUME WholeInv,
           \/ SetupInitAndRegisterMarket \/ SetupRegisterBBAsMinterBurner
           \/ ExecuteMulticall \/ Mine
    PROVE  RunIsWhole' /\ WithinPlan(task.gen, task.calls)'
<1>1. /\ [Next]_vars /\ TypeOK /\ AwaitedByRun /\ RunIsWhole /\ task.calls \in CallsOK
      /\ WithinPlan(task.gen, task.calls)
  BY DEF WholeInv, IInv, Next, TaskStep, TypeOK, CallsArePlanned
<1>2. ASSUME NEW from, from \notin {"idle", "execute"}, NEW calls, NEW to, Goes(from, to, calls),
             WithinPlan(task.gen, calls), to \notin {"saveAsset", "submitFinal"},
             to \in SecondSetup => AllIsSetUp(task.gen),
             to \in UsdoPushed /\ NothingIsSetUp(task.gen) => PushedSoFar(to, task.gen, calls)
      PROVE  RunIsWhole' /\ WithinPlan(task.gen, task.calls)'
  <2>1. PICK g \in Generations : g = task.gen
    BY <1>1, <1>2, RunIsTyped DEF Goes
  <2> QED
    BY <1>1, <1>2, <2>1, RunGoesOnWhole DEF Goes
<1>3. "setupMinters" \notin UsdoPushed /\ "submit2" \notin UsdoPushed /\ "await2" \notin UsdoPushed
      /\ "awaitFinal" \notin UsdoPushed \cup SecondSetup /\ "await1" \notin SecondSetup
      /\ "setupInitMarkets" \notin UsdoPushed /\ "saveAsset" \notin UsdoPushed \cup SecondSetup
      /\ {"setupInitMarkets", "setupMinters", "submit2"} \subseteq SecondSetup
  BY DEF UsdoPushed, MastersPushed, Registering, SecondSetup
<1>4. CASE Goes("setupInitMarkets", "setupMinters", [NoCalls EXCEPT !.inits = InitsOf(task.gen)])
  <2> DEFINE inits == InitsOf(task.gen)
             calls == [NoCalls EXCEPT !.inits = inits]
  <2>1. /\ calls.masters = {} /\ calls.registered = {} /\ calls.assets = {}
        /\ calls.minters = {} /\ calls.inits = inits
    <3> HIDE DEF inits
    <3> QED
      BY DEF NoCalls
  <2>2. \A m \in Markets : inits[m] # NoInit => m \in MarketsInitialised(chain)
    BY DEF InitsOf, MarketsToInitialise
  <2> HIDE DEF calls, inits
  <2>3. ToInitialise(calls) \subseteq MarketsInitialised(chain)
    BY <2>1, <2>2 DEF ToInitialise
  <2>4. WithinPlan(task.gen, calls)
    BY <2>1, <2>3 DEF WithinPlan
  <2>5. AllIsSetUp(task.gen)
    BY <1>1, <1>3, <1>4 DEF RunIsWhole, Goes
  <2>6. Goes("setupInitMarkets", "setupMinters", calls)
    BY <1>4 DEF calls, inits
  <2> QED
    BY <1>2, <1>3, <2>4, <2>5, <2>6
<1>5. CASE Goes("setupMinters", "submit2",
                [task.calls EXCEPT
                    !.minters = MintingMarkets \ usdo[task.gen].minters,
                    !.burners = MintingMarkets \ usdo[task.gen].minters])
  <2> DEFINE todo == MintingMarkets \ usdo[task.gen].minters
             c1 == [task.calls EXCEPT !.minters = todo]
             calls == [c1 EXCEPT !.burners = todo]
  <2>1. Goes("setupMinters", "submit2", calls)
    BY <1>5, Zenon
  <2>2. todo \in SUBSET Minters /\ todo \subseteq MintingMarkets
    BY DEF MintingMarkets, Minters
  <2> HIDE DEF todo
  <2>3. /\ c1 \in CallsOK /\ c1.minters = todo /\ c1.inits = task.calls.inits
        /\ c1.masters = task.calls.masters /\ c1.registered = task.calls.registered
        /\ c1.assets = task.calls.assets
    BY <1>1, <2>2 DEF CallsOK
  <2> HIDE DEF c1
  <2>4. /\ calls.minters = todo /\ calls.inits = c1.inits /\ calls.masters = c1.masters
        /\ calls.registered = c1.registered /\ calls.assets = c1.assets
    BY <2>2, <2>3 DEF CallsOK
  <2> HIDE DEF calls
  <2>5. WithinPlan(task.gen, calls)
    <3>1. ToInitialise(calls) = ToInitialise(task.calls)
      BY <2>3, <2>4 DEF ToInitialise
    <3>2. calls.minters \subseteq FlashLoanMinters \cup MintingMarkets
      BY <2>2, <2>4
    <3> QED
      BY <1>1, <2>3, <2>4, <3>1, <3>2 DEF WithinPlan
  <2>6. AllIsSetUp(task.gen)
    BY <1>1, <1>3, <2>1 DEF RunIsWhole, Goes
  <2> QED
    BY <1>2, <1>3, <2>1, <2>5, <2>6
<1>6. CASE Goes("submit1", "await1", task.calls)
  <2>1. NothingIsSetUp(task.gen) => PushedSoFar("await1", task.gen, task.calls)
    BY <1>1, <1>6
       DEF RunIsWhole, PushedSoFar, Goes, UsdoPushed, MastersPushed, Registering,
           EthMarketPushed, HelperPushed
  <2> QED
    BY <1>1, <1>2, <1>3, <1>6, <2>1
<1>7. CASE Goes("submit2", "await2", task.calls)
  <2>1. AllIsSetUp(task.gen)
    BY <1>1, <1>3, <1>7 DEF RunIsWhole, Goes
  <2> QED
    BY <1>1, <1>2, <1>3, <1>7, <2>1
<1>8. CASE Goes("submitFinal", "awaitFinal", task.calls)
  BY <1>1, <1>2, <1>3, <1>8
<1>9. CASE /\ CreateUsdoAsset /\ Goes("createAsset", "saveAsset", task.calls)
           /\ task'.asset = UsdoAsset(task.gen, strategies + 1)
  <2>1. PICK g \in Generations : g = task.gen
    BY <1>1, <1>9, RunIsTyped DEF Goes
  <2>2. task'.asset # NoAsset
    BY <1>9, <2>1, AssetsAreApart
  <2>3. WithinPlan(g, task.calls)
    BY <1>1, <2>1
  <2>4. PICK calls : calls = task.calls
    OBVIOUS
  <2>5. WithinPlan(g, calls)'
    BY <1>1, <2>3, <2>4, PlannedStays
  <2>6. WithinPlan(task.gen, task.calls)'
    BY <1>9, <2>1, <2>4, <2>5 DEF Goes
  <2> QED
    BY <1>3, <1>9, <2>2, <2>6 DEF RunIsWhole, Goes, At
<1>10. CASE /\ MulticallSucceeds /\ Goes("await1", "setupInitMarkets", NoCalls)
            /\ Head(pending).gen = task.gen
  <2>1. PICK g \in Generations : g = task.gen
    BY <1>1, <1>10, RunIsTyped DEF Goes
  <2>2. AllIsSetUp(g)'
    BY <1>10, <2>1, MulticallSetsUpAll
  <2>3. WithinPlan(g, NoCalls)'
    BY <1>1, NoCallsArePlanned, PlannedStays
  <2>4. WithinPlan(task.gen, task.calls)'
    BY <1>10, <2>1, <2>3 DEF Goes, WithinPlan
  <2>5. AllIsSetUp(task.gen)'
    BY <1>10, <2>1, <2>2 DEF Goes
  <2> QED
    BY <1>3, <1>10, <2>4, <2>5 DEF RunIsWhole, Goes, At
<1> QED
  BY <1>1, <1>4, <1>5, <1>6, <1>7, <1>8, <1>9, <1>10, WhereTheSecondSetupGoes,
     EndIsWhole, OtherIsWhole

LEMMA StartsAreWhole ==
    ASSUME WholeInv,
           \/ DeployGlobals \/ StartFresh \/ Load \/ DeployFinal
           \/ Execute \/ Save \/ SetLzPeer \/ Crash
    PROVE  RunIsWhole' /\ WithinPlan(task.gen, task.calls)'
<1>1. /\ [Next]_vars /\ TypeOK
      /\ WithinPlan(task.gen, task.calls)
      /\ (task.step \in {"idle", "execute"} => task.calls = NoCalls)
  BY DEF WholeInv, IInv, Next, TaskStep, CallsArePlanned, RunIsCovered
<1>2. {"execute", "save", "setLzPeer", "setupUsdoInPenrose", "submitFinal"}
        \cap (SecondSetup \cup UsdoPushed) = {}
  BY DEF UsdoPushed, MastersPushed, Registering, SecondSetup
<1>3. ASSUME task'.calls = NoCalls, task'.step \in {"execute", "save", "setLzPeer"}
      PROVE  RunIsWhole' /\ WithinPlan(task.gen, task.calls)'
  <2>1. \A g : WithinPlan(g, NoCalls)'
    BY <1>1, NoCallsArePlanned, PlannedStays
  <2>2. WithinPlan(task.gen, task.calls)'
    BY <1>3, <2>1 DEF WithinPlan
  <2> QED
    BY <1>2, <1>3, <2>2 DEF RunIsWhole, At
<1>4. ASSUME NEW from, NEW to, Goes(from, to, task.calls),
             to \in {"setLzPeer", "setupUsdoInPenrose"}
      PROVE  RunIsWhole' /\ WithinPlan(task.gen, task.calls)'
  <2>1. PICK g : g = task.gen
    OBVIOUS
  <2>2. PICK calls : calls = task.calls
    OBVIOUS
  <2>3. WithinPlan(g, calls)'
    BY <1>1, <2>1, <2>2, PlannedStays
  <2>4. WithinPlan(task.gen, task.calls)'
    BY <1>4, <2>1, <2>2, <2>3 DEF Goes, WithinPlan
  <2> QED
    BY <1>2, <1>4, <2>4 DEF RunIsWhole, At, Goes
<1>5. CASE DeployGlobals
  BY <1>1, <1>5, WhereRunsStart, OtherIsWhole
<1>6. CASE StartFresh \/ Load \/ Execute
  BY <1>1, <1>3, <1>6, WhereRunsStart DEF Goes
<1>7. CASE DeployFinal
  <2>1. /\ task'.step = "submitFinal"
        /\ task'.calls = [NoCalls EXCEPT !.assetOracles = BBMarkets]
    BY <1>1, <1>7, WhereRunsStart
  <2>2. /\ task'.calls.masters = {} /\ task'.calls.registered = {} /\ task'.calls.assets = {}
        /\ task'.calls.minters = {} /\ task'.calls.inits = [m \in Markets |-> NoInit]
        /\ task'.calls.assetOracles # {}
    BY <2>1 DEF NoCalls, BBMarkets
  <2>3. ToInitialise(task'.calls) = {}
    BY <2>2 DEF ToInitialise
  <2>4. WithinPlan(task.gen, task.calls)'
    BY <2>2, <2>3 DEF WithinPlan
  <2> QED
    BY <1>2, <2>1, <2>2, <2>4 DEF RunIsWhole, At
<1>8. CASE Save \/ SetLzPeer
  BY <1>1, <1>4, <1>8, WhereRunsStart
<1>9. CASE Crash
  BY <1>1, <1>9, WhereRunsStart, EndIsWhole
<1> QED
  BY <1>5, <1>6, <1>7, <1>8, <1>9

LEMMA RunStaysWhole ==
    ASSUME WholeInv, [Next]_vars
    PROVE  RunIsWhole' /\ WithinPlan(task.gen, task.calls)'
<1>1. CASE UNCHANGED vars
  BY <1>1, OtherIsWhole DEF vars
<1>2. CASE Next
  BY <1>2, FirstSetupIsWhole, SecondSetupIsWhole, StartsAreWhole DEF Next, TaskStep
<1> QED
  BY <1>1, <1>2

-----------------------------------------------------------------------------
(* A transaction that is under way was so before, or the run sends it.     *)
SameTx(tx, old) == tx.kind = old.kind /\ tx.gen = old.gen /\ tx.calls = old.calls

LEMMA WhereTxsComeFrom ==
    ASSUME TypeOK, [Next]_vars, NEW i \in DOMAIN pending'
    PROVE  \/ \E j \in DOMAIN pending : SameTx(pending'[i], pending[j])
           \/ /\ SetupUsdoInPenrose /\ ~UsdoEntryIsValid(task.gen)
              /\ pending'[i] = [kind |-> "asset", gen |-> task.gen, calls |-> task.calls,
                                awaited |-> TRUE]
           \/ /\ ExecuteMulticall
              /\ pending'[i] = [kind |-> "multicall", gen |-> task.gen, calls |-> task.calls,
                                awaited |-> TRUE]
<1>1. pending \in Seq(Tx)
  BY DEF TypeOK, Tx
<1>2. CASE pending' = pending
  BY <1>2 DEF SameTx
<1>3. CASE Mine /\ pending # <<>> /\ pending' = Tail(pending)
  BY <1>3, TailOfPending DEF SameTx
<1>4. CASE Crash
  <2>1. i \in DOMAIN pending /\ pending'[i] = [pending[i] EXCEPT !.awaited = FALSE]
    BY <1>4 DEF Crash
  <2>2. pending[i] \in Tx
    BY <1>1, <2>1
  <2> QED
    BY <2>1, <2>2 DEF Tx, SameTx
<1>5. ASSUME NEW kind, NEW step, Send(kind, step)
      PROVE  \/ \E j \in DOMAIN pending : SameTx(pending'[i], pending[j])
             \/ pending'[i] = [kind |-> kind, gen |-> task.gen, calls |-> task.calls,
                               awaited |-> TRUE]
  BY <1>1, <1>5 DEF Send, SameTx
<1>6. CASE SetupUsdoInPenrose
  BY <1>2, <1>5, <1>6 DEF SetupUsdoInPenrose
<1>7. CASE ExecuteMulticall
  <2>1. \E step : Send("multicall", step)
    BY <1>7 DEF ExecuteMulticall
  <2> QED
    BY <1>5, <1>7, <2>1
<1>8. CASE ~SetupUsdoInPenrose /\ ~ExecuteMulticall /\ ~Mine /\ ~Crash
  <2>1. pending' = pending
    BY <1>8 DEF Next, vars, TaskStep, DeployGlobals, StartFresh, Load, DeployFinal,
         Execute, Save, SetLzPeer, SaveUsdoAsset, SetupRegisterMC,
         SetupRegisterBBAndSGLMarkets, SetupRegisterBigBangEthMarket,
         SetupUsdoFlashloanHelper, SetupCreateYBAssets, SetupInitAndRegisterMarket,
         SetupRegisterBBAsMinterBurner
  <2> QED
    BY <1>2, <2>1
<1>9. CASE Mine
  BY <1>3, <1>9 DEF Mine, CreateUsdoAsset, MulticallSucceeds, MulticallReverts
<1> QED
  BY <1>4, <1>6, <1>7, <1>8, <1>9

LEMMA PendingStaysWhole ==
    ASSUME WholeInv, [Next]_vars
    PROVE  PendingIsWhole' /\ CallsArePlanned'
<1>1. /\ TypeOK /\ RunIsWhole /\ WithinPlan(task.gen, task.calls) /\ pending \in Seq(Tx)
      /\ \A e \in Tx : e.gen \in Generations
      /\ \A j \in DOMAIN pending :
            /\ WithinPlan(pending[j].gen, pending[j].calls)
            /\ pending[j].kind = "multicall" /\ NothingIsSetUp(pending[j].gen)
                 => WholeOrFails(pending[j].gen, pending[j].calls)
  BY BoundsAssumption
     DEF WholeInv, IInv, TypeOK, CallsArePlanned, PendingIsWhole, Tx, Generations
<1>2. ASSUME NEW i \in DOMAIN pending'
      PROVE  \E g \in Generations : \E calls :
                /\ pending'[i].gen = g /\ pending'[i].calls = calls /\ WithinPlan(g, calls)
                /\ pending'[i].kind = "multicall" /\ NothingIsSetUp(g) => WholeOrFails(g, calls)
  <2>1. CASE \E j \in DOMAIN pending : SameTx(pending'[i], pending[j])
    <3>1. PICK j \in DOMAIN pending : SameTx(pending'[i], pending[j])
      BY <2>1
    <3>2. pending[j] \in Tx
      BY <1>1
    <3> QED
      BY <1>1, <3>1, <3>2 DEF SameTx
  <2>2. CASE /\ SetupUsdoInPenrose
             /\ pending'[i] = [kind |-> "asset", gen |-> task.gen, calls |-> task.calls,
                               awaited |-> TRUE]
    <3>1. task.gen \in Generations
      BY <1>1, <2>2, RunIsTyped DEF SetupUsdoInPenrose, At
    <3> QED
      BY <1>1, <2>2, <3>1
  <2>3. CASE /\ ExecuteMulticall
             /\ pending'[i] = [kind |-> "multicall", gen |-> task.gen, calls |-> task.calls,
                               awaited |-> TRUE]
    <3>1. task.step \in {"submit1", "submit2", "submitFinal"} /\ task.gen \in Generations
      BY <1>1, <2>3, RunIsTyped DEF ExecuteMulticall, At
    <3>2. NothingIsSetUp(task.gen) => WholeOrFails(task.gen, task.calls)
      <4>1. CASE task.step = "submit1"
        BY <1>1, <4>1
           DEF RunIsWhole, PushedSoFar, WholeOrFails, BringsAll, UsdoPushed, MastersPushed,
               Registering, EthMarketPushed, HelperPushed
      <4>2. CASE task.step = "submit2"
        BY <1>1, <3>1, <4>2, NothingIsNotAll DEF RunIsWhole, SecondSetup
      <4>3. CASE task.step = "submitFinal"
        BY <1>1, <4>3 DEF RunIsWhole, At, WholeOrFails
      <4> QED
        BY <3>1, <4>1, <4>2, <4>3
    <3> QED
      BY <1>1, <2>3, <3>1, <3>2
  <2> QED
    BY <1>1, <2>1, <2>2, <2>3, WhereTxsComeFrom
<1>3. CallsArePlanned'
  <2> SUFFICES ASSUME NEW i \in DOMAIN pending'
               PROVE  WithinPlan(pending[i].gen, pending[i].calls)'
    BY RunStaysWhole DEF CallsArePlanned
  <2>1. PICK g \in Generations : \E calls :
           pending'[i].gen = g /\ pending'[i].calls = calls /\ WithinPlan(g, calls)
    BY <1>2
  <2>2. PICK calls : pending'[i].calls = calls /\ WithinPlan(g, calls)
    BY <2>1
  <2>3. WithinPlan(g, calls)'
    BY <2>2, PlannedStays
  <2> QED
    BY <2>1, <2>2, <2>3 DEF WithinPlan
<1>4. PendingIsWhole'
  <2> SUFFICES ASSUME NEW i \in DOMAIN pending'
               PROVE  (pending[i].kind = "multicall" /\ NothingIsSetUp(pending[i].gen)
                          => WholeOrFails(pending[i].gen, pending[i].calls))'
    BY DEF PendingIsWhole
  <2>1. PICK g \in Generations : \E calls :
           /\ pending'[i].gen = g /\ pending'[i].calls = calls
           /\ pending'[i].kind = "multicall" /\ NothingIsSetUp(g) => WholeOrFails(g, calls)
    BY <1>2
  <2>2. PICK calls :
           /\ pending'[i].calls = calls
           /\ pending'[i].kind = "multicall" /\ NothingIsSetUp(g) => WholeOrFails(g, calls)
    BY <2>1
  <2>3. NothingIsSetUp(g)' => NothingIsSetUp(g)
    BY SetupStaysWhole
  <2>4. WholeOrFails(g, calls)' <=> WholeOrFails(g, calls)
    BY PushedStays
  <2>5. (NothingIsSetUp(pending[i].gen)' => NothingIsSetUp(g)')
        /\ (WholeOrFails(g, calls)' => WholeOrFails(pending[i].gen, pending[i].calls)')
    BY <2>1, <2>2 DEF NothingIsSetUp, WholeOrFails, BringsAll
  <2> QED
    BY <2>2, <2>3, <2>4, <2>5
<1> QED
  BY <1>3, <1>4

LEMMA InitIsWhole == Init => WholeInv
<1> SUFFICES ASSUME Init PROVE WholeInv
  OBVIOUS
<1>1. IInv
  BY InitIsCovered
<1>2. ASSUME NEW g \in Generations
      PROVE  NothingIsSetUp(g)
  <2>1. penrose[g] = NewPenrose /\ usdo[g] = NewUsdo
        /\ markets[g] = [m \in Markets |-> NewMarket] /\ assets = {mainAssetId}
    BY <1>2 DEF Init
  <2>2. usdo[g] = [NewUsdo EXCEPT !.peered = usdo[g].peered]
    BY <2>1 DEF NewUsdo
  <2>3. CollateralAssets(g) \cap assets = {}
    BY <1>2, <2>1, AssetsAreApart
  <2> QED
    BY <2>1, <2>2, <2>3 DEF NothingIsSetUp
<1>3. task.step = "idle" /\ task.calls = NoCalls /\ DOMAIN pending = {}
  BY DEF Init, Idle
<1>4. WithinPlan(task.gen, task.calls)
  BY <1>3, NoCallsArePlanned
<1>5. CallsArePlanned /\ PendingIsWhole /\ SetupIsWhole
  BY <1>2, <1>3, <1>4 DEF CallsArePlanned, PendingIsWhole, SetupIsWhole
<1>6. RunIsWhole
  BY <1>3 DEF RunIsWhole, At, SecondSetup, UsdoPushed, MastersPushed, Registering
<1> QED
  BY <1>1, <1>5, <1>6 DEF WholeInv

LEMMA WholeInvStays ==
    ASSUME WholeInv, [Next]_vars
    PROVE  WholeInv'
<1>1. IInv'
  BY IInvStays DEF WholeInv
<1> QED
  BY <1>1, SetupStaysWhole, RunStaysWhole, PendingStaysWhole DEF WholeInv

(* In every run of the tasks, of whatever number of deployments, crashes   *)
(* and transactions that land late, the first multicall sets up all of a   *)
(* deployment or nothing: what a run read before another one's landed      *)
(* leaves nothing half done (setupPostLbp1).                               *)
THEOREM SetupTheorem == Spec => []SetupIsWhole
<1>1. WholeInv => SetupIsWhole
  BY DEF WholeInv
<1> QED
  BY <1>1, InitIsWhole, WholeInvStays, PTL DEF Spec

-----------------------------------------------------------------------------
(* A run that set something up or sets it up is about the deployment of    *)
(* the database, and no transaction is about a later one.  The asset that  *)
(* was created for a run is there, and nothing else is under way.          *)
RunIsOfDb ==
    /\ At("save") => db.gen < task.gen
    /\ task.step \notin {"idle", "execute", "save"} => task.gen = db.gen
    /\ \A i \in DOMAIN pending : pending[i].gen <= db.gen
    /\ task.step \in {"createAsset", "saveAsset"} => ~UsdoEntryIsValid(task.gen)
    /\ At("saveAsset") => /\ pending = <<>> /\ task.asset \in assets
                          /\ task.asset[1] = Deployed("USDO", task.gen)

(* Who has an asset for the USDO of a deployment: its Penrose, a multicall *)
(* that gives it one, the run that puts one together, or the database.     *)
Knows(g, a) ==
    /\ a # NoAsset
    /\ \/ a = penrose[g].usdoAssetId
       \/ \E i \in DOMAIN pending : pending[i].gen = g /\ a = pending[i].calls.usdoAsset
       \/ task.gen = g /\ a = task.calls.usdoAsset
       \/ a[1] = Deployed("USDO", g) /\ a = db.usdoAsset

(* They all have the same one, and none is about to be created.            *)
OneUsdoAsset ==
    \A g \in Generations : \A a : Knows(g, a) =>
        /\ g <= db.gen /\ a \in assets /\ a[1] = Deployed("USDO", g)
        /\ g = db.gen => UsdoEntryIsValid(g)
        /\ \A b : Knows(g, b) => a = b
        /\ \A i \in DOMAIN pending : pending[i].gen = g => pending[i].kind # "asset"

(* A market is initialised with the asset that Penrose has by then.        *)
InitsAgree(g, calls) ==
    \A m \in ToInitialise(calls) :
        /\ AllIsSetUp(g)
        /\ calls.inits[m].collateralId \in assets \ {NoAsset}
        /\ m \in SGLMarkets => calls.inits[m].assetId = penrose[g].usdoAssetId

CallsAgree ==
    /\ InitsAgree(task.gen, task.calls)
    /\ \A i \in DOMAIN pending : InitsAgree(pending[i].gen, pending[i].calls)

OneInv == WholeInv /\ RunIsOfDb /\ OneUsdoAsset /\ CallsAgree /\ AssetIdsAgree

-----------------------------------------------------------------------------
(* What becomes of the asset and of the markets that the run pushed.       *)
LEMMA WhatRunsPush ==
    ASSUME IInv, [Next]_vars
    PROVE  \/ task'.calls.usdoAsset = NoAsset /\ ToInitialise(task'.calls) = {}
           \/ /\ task'.gen = task.gen /\ task'.calls.inits = task.calls.inits
              /\ \/ task'.calls.usdoAsset = task.calls.usdoAsset
                 \/ UsdoEntryIsValid(task.gen) /\ task'.calls.usdoAsset = db.usdoAsset
                 \/ SaveUsdoAsset /\ task'.calls.usdoAsset = task.asset
           \/ /\ Goes("setupInitMarkets", "setupMinters",
                      [NoCalls EXCEPT !.inits = InitsOf(task.gen)])
              /\ SetupInitAndRegisterMarket
              /\ \A m \in MarketsToInitialise(task.gen) : collateralId(task.gen, m) # NoAsset
<1> DEFINE Same == /\ task'.gen = task.gen /\ task'.calls.inits = task.calls.inits
                   /\ task'.calls.usdoAsset = task.calls.usdoAsset
           None == task'.calls.usdoAsset = NoAsset /\ ToInitialise(task'.calls) = {}
           c == task.calls
<1>1. /\ TypeOK /\ AwaitedByRun /\ c \in CallsOK
      /\ task.step \in {"idle", "execute"} => task.calls = NoCalls
  BY DEF IInv, TypeOK, RunIsCovered
<1>2. task'.calls = NoCalls => None
  <2>1. NoCalls.usdoAsset = NoAsset /\ NoCalls.inits = [m \in Markets |-> NoInit]
    BY DEF NoCalls
  <2>2. ToInitialise(NoCalls) = {}
    BY <2>1 DEF ToInitialise
  <2> QED
    BY <2>1, <2>2
<1>3. Idle.calls = NoCalls
  BY DEF Idle
<1>4. CASE \/ DeployGlobals \/ StartFresh \/ Load \/ DeployFinal
           \/ Execute \/ Save \/ SetLzPeer \/ Crash
  <2>1. CASE DeployFinal
    <3>1. task'.calls = [NoCalls EXCEPT !.assetOracles = BBMarkets]
      BY <1>1, <2>1, WhereRunsStart
    <3>2. task'.calls.usdoAsset = NoAsset /\ task'.calls.inits = [m \in Markets |-> NoInit]
      BY <3>1 DEF NoCalls
    <3> QED
      BY <3>2 DEF ToInitialise
  <2>2. CASE DeployGlobals \/ StartFresh \/ Save \/ SetLzPeer
    <3>1. Same
      BY <1>1, <2>2, WhereRunsStart DEF Goes
    <3> QED
      BY <3>1
  <2>3. CASE Load \/ Execute \/ Crash
    <3>1. task'.calls = NoCalls
      BY <1>1, <1>3, <2>3, WhereRunsStart
    <3> QED
      BY <1>2, <3>1
  <2> QED
    BY <1>4, <2>1, <2>2, <2>3
<1>5. CASE \/ SetupUsdoInPenrose \/ SaveUsdoAsset \/ SetupRegisterMC
           \/ SetupRegisterBBAndSGLMarkets \/ SetupRegisterBigBangEthMarket
           \/ SetupUsdoFlashloanHelper \/ SetupCreateYBAssets
  <2>1. \A asset : /\ WithUsdo(asset).inits = c.inits
                   /\ WithUsdo(asset).usdoAsset \in {c.usdoAsset, asset}
    BY <1>1 DEF WithUsdo, CallsOK
  <2>2. \A v : LET d == [c EXCEPT !.masters = v] IN
                 d.inits = c.inits /\ d.usdoAsset = c.usdoAsset
    BY <1>1 DEF CallsOK
  <2>3. \A v : LET d == [c EXCEPT !.registered = v] IN
                 d.inits = c.inits /\ d.usdoAsset = c.usdoAsset
    BY <1>1 DEF CallsOK
  <2>4. \A v : LET d == [c EXCEPT !.ethMarket = v] IN
                 d.inits = c.inits /\ d.usdoAsset = c.usdoAsset
    BY <1>1 DEF CallsOK
  <2>5. \A v : LET d == [c EXCEPT !.assets = v] IN
                 d.inits = c.inits /\ d.usdoAsset = c.usdoAsset
    BY <1>1 DEF CallsOK
  <2>6. ASSUME NEW u, NEW v, NEW w
        PROVE  LET d == [c EXCEPT !.flashLoanHelper = u, !.minters = v, !.burners = w] IN
                 d.inits = c.inits /\ d.usdoAsset = c.usdoAsset
    <3>1. c = [usdoAsset |-> c.usdoAsset, masters |-> c.masters, registered |-> c.registered,
               ethMarket |-> c.ethMarket, flashLoanHelper |-> c.flashLoanHelper,
               minters |-> c.minters, burners |-> c.burners, assets |-> c.assets,
               inits |-> c.inits, assetOracles |-> c.assetOracles]
      BY <1>1 DEF CallsOK
    <3> DEFINE c1 == [c EXCEPT !.flashLoanHelper = u]
               c2 == [c1 EXCEPT !.minters = v]
               c3 == [c2 EXCEPT !.burners = w]
    <3>2. c1 = [usdoAsset |-> c.usdoAsset, masters |-> c.masters, registered |-> c.registered,
               ethMarket |-> c.ethMarket, flashLoanHelper |-> u,
               minters |-> c.minters, burners |-> c.burners, assets |-> c.assets,
               inits |-> c.inits, assetOracles |-> c.assetOracles]
      BY <3>1
    <3> HIDE DEF c1
    <3>3. c2 = [usdoAsset |-> c.usdoAsset, masters |-> c.masters, registered |-> c.registered,
               ethMarket |-> c.ethMarket, flashLoanHelper |-> u,
               minters |-> v, burners |-> c.burners, assets |-> c.assets,
               inits |-> c.inits, assetOracles |-> c.assetOracles]
      BY <3>2
    <3> HIDE DEF c2
    <3>4. c3.inits = c.inits /\ c3.usdoAsset = c.usdoAsset
      BY <3>3
    <3> QED
      BY <3>4, Zenon DEF c1, c2
  <2>7. CASE \/ /\ UsdoEntryIsValid(task.gen)
                /\ Goes("setupUsdoInPenrose", "setupRegisterMC", WithUsdo(db.usdoAsset))
             \/ /\ SaveUsdoAsset
                /\ Goes("saveAsset", "setupRegisterMC", WithUsdo(task.asset))
    BY <2>1, <2>7 DEF Goes
  <2>8. CASE Goes("setupUsdoInPenrose", "createAsset", task.calls)
    BY <2>8 DEF Goes
  <2>9. CASE Goes("setupRegisterMC", "setupRegisterMarkets",
                  [task.calls EXCEPT !.masters = MastersToRegister(task.gen)])
    BY <2>2, <2>9 DEF Goes
  <2>10. CASE Goes("setupRegisterMarkets", "setupRegisterEthMarket",
                   [task.calls EXCEPT !.registered =
                       MarketsRegistered(chain) \ penrose[task.gen].registered])
    BY <2>3, <2>10 DEF Goes
  <2>11. CASE Goes("setupRegisterEthMarket", "setupFlashloanHelper",
                   [task.calls EXCEPT !.ethMarket = ~penrose[task.gen].ethMarket])
    BY <2>4, <2>11 DEF Goes
  <2>12. CASE Goes("setupCreateYBAssets", "submit1",
                   [task.calls EXCEPT !.assets =
                       {a \in CollateralAssets(task.gen) : ids(a) = NoAsset}])
    BY <2>5, <2>12 DEF Goes
  <2>13. CASE Goes("setupFlashloanHelper", "setupCreateYBAssets",
                   [task.calls EXCEPT
                       !.flashLoanHelper = ~usdo[task.gen].flashLoanHelper,
                       !.minters = FlashLoanMinters \ usdo[task.gen].minters,
                       !.burners = FlashLoanMinters \ usdo[task.gen].burners])
    <3> DEFINE u == ~usdo[task.gen].flashLoanHelper
               v == FlashLoanMinters \ usdo[task.gen].minters
               w == FlashLoanMinters \ usdo[task.gen].burners
               d == [task.calls EXCEPT !.flashLoanHelper = u, !.minters = v, !.burners = w]
    <3>1. task'.gen = task.gen /\ task'.calls = d
      BY <2>13, Zenon DEF Goes
    <3>2. d.inits = c.inits /\ d.usdoAsset = c.usdoAsset
      <4> HIDE DEF u, v, w
      <4> QED
        BY <2>6
    <3> HIDE DEF d
    <3> QED
      BY <3>1, <3>2
  <2>14. CASE task' = Idle
    BY <1>2, <1>3, <2>14
  <2> HIDE DEF c
  <2> QED
    BY <1>1, <1>5, <2>7, <2>8, <2>9, <2>10, <2>11, <2>12, <2>13, <2>14, WhereTheFirstSetupGoes
<1>6. CASE \/ SetupInitAndRegisterMarket \/ SetupRegisterBBAsMinterBurner
           \/ ExecuteMulticall \/ Mine
  <2>1. CASE Goes("setupMinters", "submit2",
                  [task.calls EXCEPT
                      !.minters = MintingMarkets \ usdo[task.gen].minters,
                      !.burners = MintingMarkets \ usdo[task.gen].minters])
    <3> DEFINE todo == MintingMarkets \ usdo[task.gen].minters
               c1 == [task.calls EXCEPT !.minters = todo]
               calls == [c1 EXCEPT !.burners = todo]
    <3>1. task'.gen = task.gen /\ task'.calls = calls
      BY <2>1, Zenon DEF Goes
    <3>2. todo \in SUBSET Minters
      BY DEF MintingMarkets, Minters
    <3> HIDE DEF todo
    <3>3. c1 \in CallsOK /\ c1.inits = c.inits /\ c1.usdoAsset = c.usdoAsset
      BY <1>1, <3>2 DEF CallsOK
    <3> HIDE DEF c1
    <3>4. calls.inits = c1.inits /\ calls.usdoAsset = c1.usdoAsset
      BY <3>3 DEF CallsOK
    <3> QED
      BY <3>1, <3>3, <3>4
  <2>2. CASE /\ SetupInitAndRegisterMarket
             /\ Goes("setupInitMarkets", "setupMinters",
                     [NoCalls EXCEPT !.inits = InitsOf(task.gen)])
             /\ \A m \in MarketsToInitialise(task.gen) : collateralId(task.gen, m) # NoAsset
    BY <2>2
  <2>3. CASE \/ task' = task
             \/ Goes("submit1", "await1", task.calls)
             \/ Goes("submit2", "await2", task.calls)
             \/ Goes("submitFinal", "awaitFinal", task.calls)
             \/ Goes("createAsset", "saveAsset", task.calls)
    BY <2>3 DEF Goes
  <2>4. CASE task' = Idle \/ Goes("await1", "setupInitMarkets", NoCalls)
    BY <1>2, <1>3, <2>4 DEF Goes
  <2> QED
    BY <1>1, <1>6, <2>1, <2>2, <2>3, <2>4, WhereTheSecondSetupGoes
<1>7. CASE UNCHANGED vars
  BY <1>7 DEF vars
<1> QED
  BY <1>4, <1>5, <1>6, <1>7 DEF Next, TaskStep

(* What becomes of the database.                                           *)
LEMMA WhatIsSaved ==
    ASSUME TypeOK, [Next]_vars
    PROVE  \/ UNCHANGED db /\ ~Save /\ ~SaveUsdoAsset
           \/ Save /\ db'.gen = task.gen /\ db'.usdoAsset = db.usdoAsset
           \/ SaveUsdoAsset /\ db'.gen = db.gen /\ db'.usdoAsset = task.asset
<1>1. CASE Save
  BY <1>1 DEF Save, TypeOK
<1>2. CASE SaveUsdoAsset
  BY <1>2 DEF SaveUsdoAsset, TypeOK
<1>3. CASE ~Save /\ ~SaveUsdoAsset
  BY <1>3 DEF Next, vars, TaskStep, Mine, DeployGlobals, StartFresh, Load, DeployFinal, Crash,
       Execute, SetLzPeer, SetupUsdoInPenrose, SetupRegisterMC,
       SetupRegisterBBAndSGLMarkets, SetupRegisterBigBangEthMarket, SetupUsdoFlashloanHelper,
       SetupCreateYBAssets, SetupInitAndRegisterMarket, SetupRegisterBBAsMinterBurner,
       ExecuteMulticall, CreateUsdoAsset, MulticallSucceeds, MulticallReverts
<1> QED
  BY <1>1, <1>2, <1>3

(* Where the run goes, as far as its deployment and its asset of USDO are  *)
(* concerned.                                                              *)
LEMMA WhereRunsGo ==
    ASSUME TypeOK, AwaitedByRun, [Next]_vars
    PROVE  \/ task' = task /\ UNCHANGED db
              /\ (UNCHANGED <<assets, pending>> \/ Mine)
           \/ task'.step \in {"idle", "execute"}
           \/ Execute /\ task'.step = "save" /\ task'.gen = generations + 1 /\ UNCHANGED db
           \/ Save /\ Goes("save", "setLzPeer", task.calls)
           \/ task'.step \in {"setLzPeer", "submitFinal"} /\ task'.gen = db.gen /\ UNCHANGED db
           \/ /\ task.step \notin {"idle", "execute", "save"} /\ task'.gen = task.gen
              /\ task'.step \notin {"idle", "execute", "save", "createAsset", "saveAsset"}
           \/ /\ SetupUsdoInPenrose /\ ~UsdoEntryIsValid(task.gen)
              /\ Goes("setupUsdoInPenrose", "createAsset", task.calls)
           \/ /\ CreateUsdoAsset /\ Goes("createAsset", "saveAsset", task.calls)
              /\ task'.asset = UsdoAsset(task.gen, strategies + 1)
              /\ pending' = <<>> /\ Head(pending).gen = task.gen
<1>1. CASE \/ DeployGlobals \/ StartFresh \/ Load \/ DeployFinal
           \/ Execute \/ Save \/ SetLzPeer \/ Crash
  <2>1. CASE DeployGlobals
    BY <2>1, WhereRunsStart DEF DeployGlobals, chainVars
  <2>2. CASE StartFresh
    BY <2>2, WhereRunsStart DEF Goes
  <2>3. CASE Load \/ DeployFinal
    BY <2>3, WhereRunsStart DEF Load, DeployFinal
  <2>4. CASE Execute
    BY <2>4, WhereRunsStart DEF Execute
  <2>5. CASE Save
    BY <2>5, WhereRunsStart
  <2>6. CASE SetLzPeer
    BY <2>6, WhereRunsStart DEF Goes
  <2>7. CASE Crash
    BY <2>7, WhereRunsStart DEF Idle
  <2> QED
    BY <1>1, <2>1, <2>2, <2>3, <2>4, <2>5, <2>6, <2>7
<1>2. CASE \/ SetupUsdoInPenrose \/ SaveUsdoAsset \/ SetupRegisterMC
           \/ SetupRegisterBBAndSGLMarkets \/ SetupRegisterBigBangEthMarket
           \/ SetupUsdoFlashloanHelper \/ SetupCreateYBAssets
  BY <1>2, WhereTheFirstSetupGoes DEF Goes, Idle
<1>3. CASE \/ SetupInitAndRegisterMarket \/ SetupRegisterBBAsMinterBurner
           \/ ExecuteMulticall \/ Mine
  <2>1. CASE task' = task
    <3>1. task \in Run
      BY DEF TypeOK, Run
    <3>2. SetupInitAndRegisterMarket =>
             task' = Idle \/ \E calls : Push(calls, "setupMinters")
      BY Zenon DEF SetupInitAndRegisterMarket
    <3>3. CASE SetupInitAndRegisterMarket
      BY <2>1, <3>2, <3>3, PushFields DEF SetupInitAndRegisterMarket, At, Idle
    <3>4. CASE SetupRegisterBBAsMinterBurner
      <4>1. task.step = "setupMinters" /\ task'.step = "submit2"
        BY <3>4, PushFields DEF SetupRegisterBBAsMinterBurner, At
      <4> QED
        BY <2>1, <4>1
    <3>5. CASE ExecuteMulticall
      BY <2>1, <3>1, <3>5 DEF ExecuteMulticall, At, Send, GoTo, Run
    <3>6. CASE Mine
      BY <2>1, <3>6 DEF Mine, CreateUsdoAsset, MulticallSucceeds, MulticallReverts
    <3> QED
      BY <1>3, <3>3, <3>4, <3>5, <3>6
  <2> QED
    BY <1>3, <2>1, WhereTheSecondSetupGoes DEF Goes, Idle
<1>4. CASE UNCHANGED vars
  BY <1>4 DEF vars
<1> QED
  BY <1>1, <1>2, <1>3, <1>4 DEF Next, TaskStep

(* The run stays on the deployment of the database.                        *)
LEMMA EntriesStay ==
    ASSUME TypeOK, [Next]_vars, NEW g, ~UsdoEntryIsValid(g), ~SaveUsdoAsset
    PROVE  ~UsdoEntryIsValid(g)'
BY WhatIsSaved DEF UsdoEntryIsValid, Deployed

LEMMA RegisteredStays ==
    ASSUME TypeOK, [Next]_vars
    PROVE  assets \subseteq assets'
<1>1. CASE MulticallSucceeds
  <2>1. PICK g \in Generations : g = Head(pending).gen
    BY <1>1, MulticallIs
  <2>2. PICK calls \in CallsOK : calls = Head(pending).calls
    BY <1>1, MulticallIs
  <2>3. Apply(g, calls)
    BY <1>1, <2>1, <2>2, MulticallIs
  <2> QED
    BY <2>3, WhatAppliesToPenrose
<1> QED
  BY <1>1, OtherStepsSetUp

LEMMA PendingOfDb ==
    ASSUME TypeOK, RunIsOfDb, [Next]_vars, NEW i \in DOMAIN pending'
    PROVE  pending'[i].gen <= db'.gen
<1>1. /\ pending \in Seq(Tx) /\ db.gen \in Nat /\ task.gen \in Nat
      /\ \A j \in DOMAIN pending : pending[j].gen \in Nat /\ pending[j].gen <= db.gen
  <2>1. pending \in Seq(Tx)
    BY DEF TypeOK, Tx
  <2>2. generations \in Nat /\ db.gen \in 0..generations /\ task.gen \in 0..generations
    BY BoundsAssumption DEF TypeOK
  <2>3. \A j \in DOMAIN pending : pending[j].gen \in 1..generations
    <3>1. \A j \in DOMAIN pending : pending[j] \in Tx
      BY <2>1
    <3>2. \A tx \in Tx : tx.gen \in 1..generations
      BY DEF Tx
    <3> QED
      BY <3>1, <3>2
  <2> QED
    BY <2>1, <2>2, <2>3 DEF RunIsOfDb
<1>2. db'.gen \in Nat /\ db.gen <= db'.gen
  BY <1>1, WhatIsSaved DEF RunIsOfDb, Save
<1>3. CASE \E j \in DOMAIN pending : SameTx(pending'[i], pending[j])
  BY <1>1, <1>2, <1>3 DEF SameTx
<1>4. CASE pending'[i].gen = task.gen /\ (SetupUsdoInPenrose \/ ExecuteMulticall)
  <2>1. task.gen = db.gen
    BY <1>4 DEF RunIsOfDb, SetupUsdoInPenrose, ExecuteMulticall, At
  <2> QED
    BY <1>1, <1>2, <1>4, <2>1
<1> QED
  BY <1>3, <1>4, WhereTxsComeFrom

LEMMA RunIsOfDbStays ==
    ASSUME TypeOK, AwaitedByRun, RunIsOfDb, [Next]_vars
    PROVE  RunIsOfDb'
<1>1. /\ \A i \in DOMAIN pending' : pending'[i].gen <= db'.gen
      /\ assets \subseteq assets' /\ task \in Run
  BY PendingOfDb, RegisteredStays DEF TypeOK, Run
<1>2. CASE task' = task /\ UNCHANGED db /\ (UNCHANGED <<assets, pending>> \/ Mine)
  <2>1. Mine => pending # <<>>
    BY DEF Mine, CreateUsdoAsset, MulticallSucceeds, MulticallReverts
  <2>2. UsdoEntryIsValid(task.gen)' <=> UsdoEntryIsValid(task.gen)
    BY <1>2 DEF UsdoEntryIsValid
  <2> QED
    BY <1>1, <1>2, <2>1, <2>2 DEF RunIsOfDb, At
<1>3. CASE task'.step \in {"idle", "execute"}
  BY <1>1, <1>3 DEF RunIsOfDb, At
<1>4. CASE Execute /\ task'.step = "save" /\ task'.gen = generations + 1 /\ UNCHANGED db
  <2>1. db.gen < generations + 1
    BY BoundsAssumption DEF TypeOK
  <2> QED
    BY <1>1, <1>4, <2>1 DEF RunIsOfDb, At
<1>5. CASE Save /\ Goes("save", "setLzPeer", task.calls)
  BY <1>1, <1>5, WhatIsSaved DEF RunIsOfDb, At, Goes, SaveUsdoAsset, Save
<1>6. CASE task'.step \in {"setLzPeer", "submitFinal"} /\ task'.gen = db.gen /\ UNCHANGED db
  BY <1>1, <1>6 DEF RunIsOfDb, At
<1>7. CASE /\ task.step \notin {"idle", "execute", "save"} /\ task'.gen = task.gen
           /\ task'.step \notin {"idle", "execute", "save", "createAsset", "saveAsset"}
  BY <1>1, <1>7, WhatIsSaved DEF RunIsOfDb, At, Save
<1>8. CASE /\ SetupUsdoInPenrose /\ ~UsdoEntryIsValid(task.gen)
           /\ Goes("setupUsdoInPenrose", "createAsset", task.calls)
  <2>1. db' = db /\ task'.gen = task.gen /\ task'.step = "createAsset"
        /\ task.step = "setupUsdoInPenrose"
    BY <1>8 DEF SetupUsdoInPenrose, Goes
  <2>2. ~UsdoEntryIsValid(task.gen)'
    BY <1>8, <2>1 DEF UsdoEntryIsValid
  <2> QED
    BY <1>1, <2>1, <2>2 DEF RunIsOfDb, At
<1>9. CASE /\ CreateUsdoAsset /\ Goes("createAsset", "saveAsset", task.calls)
           /\ task'.asset = UsdoAsset(task.gen, strategies + 1)
           /\ pending' = <<>> /\ Head(pending).gen = task.gen
  <2>1. /\ db' = db /\ task'.gen = task.gen /\ task'.step = "saveAsset"
        /\ task.step = "createAsset"
        /\ assets' = assets \cup {UsdoAsset(Head(pending).gen, strategies + 1)}
    BY <1>9 DEF CreateUsdoAsset, Goes
  <2>2. ~UsdoEntryIsValid(task.gen)'
    BY <2>1 DEF UsdoEntryIsValid, RunIsOfDb
  <2>3. task'.asset \in assets' /\ task'.asset[1] = Deployed("USDO", task'.gen)
    BY <1>9, <2>1 DEF UsdoAsset
  <2> QED
    BY <1>1, <1>9, <2>1, <2>2, <2>3 DEF RunIsOfDb, At
<1> QED
  BY <1>2, <1>3, <1>4, <1>5, <1>6, <1>7, <1>8, <1>9, WhereRunsGo

(* Who has an asset of a USDO had it, or is given the one just created.    *)
LEMMA WhereKnownAssetsComeFrom ==
    ASSUME IInv, RunIsOfDb, [Next]_vars, NEW g \in Generations, NEW a, Knows(g, a)'
    PROVE  Knows(g, a) \/ (SaveUsdoAsset /\ g = task.gen /\ a = task.asset)
<1>1. TypeOK /\ a # NoAsset
  BY DEF IInv, Knows
<1>2. CASE a = penrose'[g].usdoAssetId
  <2>1. CASE MulticallSucceeds
    <3>1. PICK f \in Generations : f = Head(pending).gen
      BY <1>1, <2>1, MulticallIs
    <3>2. PICK calls \in CallsOK : calls = Head(pending).calls
      BY <1>1, <2>1, MulticallIs
    <3>3. Apply(f, calls) /\ 1 \in DOMAIN pending /\ Head(pending) = pending[1]
      BY <1>1, <2>1, <3>1, <3>2, MulticallIs
    <3>4. CASE g = f /\ calls.usdoAsset # NoAsset
      <4>1. a = calls.usdoAsset
        BY <1>1, <1>2, <3>3, <3>4, WhatAppliesToPenrose
      <4>2. pending[1].gen = g /\ a = pending[1].calls.usdoAsset
        BY <3>1, <3>2, <3>3, <3>4, <4>1
      <4> QED
        BY <1>1, <3>3, <4>2 DEF Knows
    <3>5. CASE ~(g = f /\ calls.usdoAsset # NoAsset)
      <4>1. a = penrose[g].usdoAssetId
        BY <1>1, <1>2, <3>3, <3>5, WhatAppliesToPenrose
      <4> QED
        BY <1>1, <4>1 DEF Knows
    <3> QED
      BY <3>4, <3>5
  <2> QED
    BY <1>1, <1>2, <2>1, OtherStepsSetUp DEF Knows
<1>3. ASSUME NEW i \in DOMAIN pending', pending'[i].gen = g, a = pending'[i].calls.usdoAsset
      PROVE  Knows(g, a)
  <2>1. CASE \E j \in DOMAIN pending : SameTx(pending'[i], pending[j])
    BY <1>1, <1>3, <2>1 DEF SameTx, Knows
  <2>2. CASE pending'[i].gen = task.gen /\ pending'[i].calls = task.calls
    BY <1>1, <1>3, <2>2 DEF Knows
  <2> QED
    BY <1>1, <2>1, <2>2, WhereTxsComeFrom
<1>4. CASE task'.gen = g /\ a = task'.calls.usdoAsset
  <2>1. [NoCalls EXCEPT !.inits = InitsOf(task.gen)].usdoAsset = NoAsset
    BY DEF NoCalls
  <2>2. /\ task'.gen = task.gen
        /\ \/ a = task.calls.usdoAsset
           \/ UsdoEntryIsValid(task.gen) /\ a = db.usdoAsset
           \/ SaveUsdoAsset /\ a = task.asset
    BY <1>1, <1>4, <2>1, WhatRunsPush DEF Goes
  <2> QED
    BY <1>1, <1>4, <2>2 DEF Knows, UsdoEntryIsValid
<1>5. CASE a[1] = Deployed("USDO", g) /\ a = db'.usdoAsset
  <2>1. a = db.usdoAsset \/ (SaveUsdoAsset /\ a = task.asset)
    BY <1>1, <1>5, WhatIsSaved
  <2>2. SaveUsdoAsset => task.asset[1] = Deployed("USDO", task.gen)
    BY DEF SaveUsdoAsset, RunIsOfDb
  <2> QED
    BY <1>1, <1>5, <2>1, <2>2 DEF Knows, Deployed
<1> QED
  BY <1>2, <1>3, <1>4, <1>5 DEF Knows

LEMMA OneUsdoAssetStays ==
    ASSUME WholeInv, RunIsOfDb, OneUsdoAsset, [Next]_vars
    PROVE  OneUsdoAsset'
<1>1. /\ IInv /\ TypeOK /\ RunIsWhole /\ assets \subseteq assets'
      /\ db.gen \in Nat /\ task.gen \in Nat /\ \A g \in Generations : g \in Nat
  BY RegisteredStays, BoundsAssumption DEF WholeInv, IInv, TypeOK, Generations
<1> SUFFICES ASSUME NEW g \in Generations, NEW a, Knows(g, a)'
             PROVE  (/\ g <= db.gen /\ a \in assets /\ a[1] = Deployed("USDO", g)
                     /\ g = db.gen => UsdoEntryIsValid(g)
                     /\ \A b : Knows(g, b) => a = b
                     /\ \A i \in DOMAIN pending :
                           pending[i].gen = g => pending[i].kind # "asset")'
  BY Zenon DEF OneUsdoAsset
<1>2. \A b : Knows(g, b)' => Knows(g, b) \/ (SaveUsdoAsset /\ g = task.gen /\ b = task.asset)
  BY <1>1, WhereKnownAssetsComeFrom
<1>3. CASE SaveUsdoAsset /\ g = task.gen
  <2>1. /\ task.step = "saveAsset" /\ pending = <<>> /\ pending' = pending
        /\ task.asset \in assets /\ task.asset[1] = Deployed("USDO", g)
        /\ task.asset # NoAsset /\ g = db.gen /\ ~UsdoEntryIsValid(g)
    BY <1>1, <1>3 DEF RunIsOfDb, RunIsWhole, SaveUsdoAsset, At
  <2>2. \A b : ~Knows(g, b)
    BY <2>1 DEF OneUsdoAsset
  <2>3. \A b : Knows(g, b)' => b = task.asset
    BY <1>2, <2>2
  <2>4. a = task.asset /\ db'.gen = db.gen /\ db'.usdoAsset = task.asset
    BY <1>1, <1>3, <2>1, <2>3, WhatIsSaved DEF Save, At
  <2>5. UsdoEntryIsValid(g)'
    BY <2>1, <2>4 DEF UsdoEntryIsValid
  <2> QED
    BY <1>1, <2>1, <2>3, <2>4, <2>5
<1>4. CASE ~(SaveUsdoAsset /\ g = task.gen)
  <2>1. \A b : Knows(g, b)' => Knows(g, b)
    BY <1>2, <1>4
  <2>2. /\ g <= db.gen /\ a \in assets /\ a[1] = Deployed("USDO", g)
        /\ g = db.gen => UsdoEntryIsValid(g)
        /\ \A b : Knows(g, b) => a = b
        /\ \A i \in DOMAIN pending : pending[i].gen = g => pending[i].kind # "asset"
    BY <2>1 DEF OneUsdoAsset
  <2>3. Save => db.gen < task.gen
    BY DEF RunIsOfDb, Save
  <2>4. SaveUsdoAsset => task.gen = db.gen
    BY DEF RunIsOfDb, SaveUsdoAsset, At
  <2>5. g <= db'.gen /\ (g = db'.gen => UNCHANGED db /\ g = db.gen)
    BY <1>1, <1>4, <2>2, <2>3, <2>4, WhatIsSaved
  <2>6. g = db'.gen => UsdoEntryIsValid(g)'
    BY <2>2, <2>5 DEF UsdoEntryIsValid
  <2>7. ASSUME NEW i \in DOMAIN pending', pending'[i].gen = g
        PROVE  pending'[i].kind # "asset"
    <3>1. CASE \E j \in DOMAIN pending : SameTx(pending'[i], pending[j])
      BY <2>2, <2>7, <3>1 DEF SameTx
    <3>2. CASE SetupUsdoInPenrose /\ ~UsdoEntryIsValid(task.gen) /\ pending'[i].gen = task.gen
      <4>1. task.gen = db.gen
        BY <3>2 DEF RunIsOfDb, SetupUsdoInPenrose, At
      <4> QED
        BY <2>2, <2>7, <3>2, <4>1
    <3> QED
      BY <1>1, <3>1, <3>2, WhereTxsComeFrom
  <2> QED
    BY <1>1, <2>1, <2>2, <2>5, <2>6, <2>7
<1> QED
  BY <1>3, <1>4

(* Once all is set up of a deployment, its Penrose keeps its asset, and    *)
(* what agrees with it goes on to.                                         *)
LEMMA IdsStay ==
    ASSUME WholeInv, OneUsdoAsset, [Next]_vars, NEW g \in Generations, AllIsSetUp(g)
    PROVE  /\ penrose'[g].usdoAssetId = penrose[g].usdoAssetId
           /\ penrose'[g].usdoToken = Deployed("USDO", g)
<1>1. TypeOK /\ penrose[g].usdoAssetId # NoAsset /\ penrose[g].usdoToken = Deployed("USDO", g)
  BY DEF WholeInv, IInv, AllIsSetUp
<1>2. CASE MulticallSucceeds
  <2>1. PICK f \in Generations : f = Head(pending).gen
    BY <1>1, <1>2, MulticallIs
  <2>2. PICK calls \in CallsOK : calls = Head(pending).calls
    BY <1>1, <1>2, MulticallIs
  <2>3. Apply(f, calls) /\ 1 \in DOMAIN pending /\ Head(pending) = pending[1]
    BY <1>1, <1>2, <2>1, <2>2, MulticallIs
  <2>4. f = g /\ calls.usdoAsset # NoAsset => calls.usdoAsset = penrose[g].usdoAssetId
    <3> SUFFICES ASSUME f = g, calls.usdoAsset # NoAsset
                 PROVE  calls.usdoAsset = penrose[g].usdoAssetId
      OBVIOUS
    <3>1. Knows(g, calls.usdoAsset)
      BY <2>1, <2>2, <2>3 DEF Knows
    <3>2. Knows(g, penrose[g].usdoAssetId)
      BY <1>1 DEF Knows
    <3> QED
      BY <3>1, <3>2 DEF OneUsdoAsset
  <2> QED
    BY <1>1, <2>3, <2>4, WhatAppliesToPenrose
<1> QED
  BY <1>1, <1>2, OtherStepsSetUp

LEMMA InitsAgreeStays ==
    ASSUME WholeInv, OneUsdoAsset, [Next]_vars,
           NEW g \in Generations, NEW calls, InitsAgree(g, calls)
    PROVE  InitsAgree(g, calls)'
<1>1. AllIsSetUp(g) => AllIsSetUp(g)' /\ penrose'[g].usdoAssetId = penrose[g].usdoAssetId
  BY SetupStaysWhole, IdsStay
<1>2. assets \subseteq assets'
  BY RegisteredStays DEF WholeInv, IInv
<1> QED
  BY <1>1, <1>2 DEF InitsAgree, ToInitialise

(* What the second multicall is given agrees with Penrose.                 *)
LEMMA InitsOfAgree ==
    ASSUME WholeInv, RunIsOfDb, OneUsdoAsset, NEW g \in Generations, g = task.gen,
           At("setupInitMarkets"), NEW calls, calls.inits = InitsOf(g),
           \A m \in MarketsToInitialise(g) : collateralId(g, m) # NoAsset
    PROVE  InitsAgree(g, calls)
<1>1. AllIsSetUp(g) /\ g = db.gen /\ db.usdoAsset \in Asset
  BY DEF WholeInv, IInv, TypeOK, RunIsWhole, SecondSetup, RunIsOfDb, At
<1>2. penrose[g].usdoAssetId = db.usdoAsset /\ UsdoEntryIsValid(g) /\ db.usdoAsset \in assets
  <2>1. Knows(g, penrose[g].usdoAssetId)
    BY <1>1 DEF Knows, AllIsSetUp
  <2>2. UsdoEntryIsValid(g) /\ penrose[g].usdoAssetId \in assets
    BY <1>1, <2>1 DEF OneUsdoAsset
  <2>3. Knows(g, db.usdoAsset)
    BY <2>2 DEF UsdoEntryIsValid, Knows
  <2> QED
    BY <2>1, <2>2, <2>3 DEF OneUsdoAsset
<1>3. ids(<<Deployed("USDO", g), db.usdoAsset[2]>>) = penrose[g].usdoAssetId
  <2>1. db.usdoAsset = <<Deployed("USDO", g), db.usdoAsset[2]>>
    BY <1>1, <1>2 DEF UsdoEntryIsValid, Asset
  <2> QED
    BY <1>2, <2>1 DEF ids
<1> SUFFICES ASSUME NEW m \in ToInitialise(calls)
             PROVE  /\ calls.inits[m].collateralId \in assets \ {NoAsset}
                    /\ m \in SGLMarkets => calls.inits[m].assetId = penrose[g].usdoAssetId
  BY <1>1 DEF InitsAgree
<1>4. m \in Markets /\ m \in MarketsToInitialise(g)
  BY DEF ToInitialise, InitsOf
<1>5. calls.inits[m] = IF m \in BBMarkets THEN initBBMarket(g, m) ELSE initSGLMarket(g, m)
  BY <1>4 DEF InitsOf
<1>6. calls.inits[m].collateralId = collateralId(g, m)
  BY <1>5 DEF initBBMarket, initSGLMarket
<1>7. m \in SGLMarkets => m \notin BBMarkets
  BY DEF SGLMarkets, BBMarkets
<1> QED
  BY <1>3, <1>4, <1>5, <1>6, <1>7 DEF initSGLMarket, collateralId, ids

LEMMA CallsAgreeStays ==
    ASSUME WholeInv, RunIsOfDb, OneUsdoAsset, CallsAgree, [Next]_vars
    PROVE  CallsAgree'
<1>1. TypeOK /\ IInv /\ pending \in Seq(Tx) /\ \A e \in Tx : e.gen \in Generations
  BY BoundsAssumption DEF WholeInv, IInv, TypeOK, Tx, Generations
<1>2. \A g, calls : ToInitialise(calls) = {} => InitsAgree(g, calls)'
  BY DEF InitsAgree, ToInitialise
<1>3. ToInitialise(NoCalls) = {}
  BY DEF ToInitialise, NoCalls
<1>4. task.step \in {"idle", "execute"} => ToInitialise(task.calls) = {}
  BY <1>1, <1>3 DEF IInv, RunIsCovered
<1>5. \E g, calls : task'.gen = g /\ task'.calls = calls /\ InitsAgree(g, calls)'
  <2>1. CASE ToInitialise(task'.calls) = {}
    BY <1>2, <2>1
  <2>2. CASE task'.gen = task.gen /\ task'.calls.inits = task.calls.inits
    <3>1. PICK calls : calls = task'.calls
      OBVIOUS
    <3>2. ToInitialise(calls) = ToInitialise(task.calls)
      BY <2>2, <3>1 DEF ToInitialise
    <3>3. CASE task.step \in {"idle", "execute"}
      BY <1>4, <2>1, <3>1, <3>2, <3>3
    <3>4. CASE task.step \notin {"idle", "execute"}
      <4>1. PICK g \in Generations : g = task.gen
        BY <1>1, <3>4, RunIsTyped
      <4>2. InitsAgree(g, calls)
        BY <2>2, <3>1, <3>2, <4>1 DEF CallsAgree, InitsAgree
      <4> QED
        BY <2>2, <3>1, <4>1, <4>2, InitsAgreeStays
    <3> QED
      BY <3>3, <3>4
  <2>3. CASE /\ Goes("setupInitMarkets", "setupMinters",
                     [NoCalls EXCEPT !.inits = InitsOf(task.gen)])
             /\ \A m \in MarketsToInitialise(task.gen) : collateralId(task.gen, m) # NoAsset
    <3>1. PICK calls : calls = task'.calls
      OBVIOUS
    <3>2. PICK g \in Generations : g = task.gen
      BY <1>1, <2>3, RunIsTyped DEF Goes
    <3>3. calls.inits = InitsOf(g) /\ task'.gen = g /\ At("setupInitMarkets")
      BY <2>3, <3>1, <3>2 DEF Goes, NoCalls, At
    <3>4. InitsAgree(g, calls)
      BY <2>3, <3>2, <3>3, InitsOfAgree
    <3> QED
      BY <3>1, <3>3, <3>4, InitsAgreeStays
  <2> QED
    BY <1>1, <2>1, <2>2, <2>3, WhatRunsPush
<1>6. ASSUME NEW i \in DOMAIN pending'
      PROVE  \E g, calls : /\ pending'[i].gen = g /\ pending'[i].calls = calls
                           /\ InitsAgree(g, calls)'
  <2>1. CASE \E j \in DOMAIN pending : SameTx(pending'[i], pending[j])
    <3>1. PICK j \in DOMAIN pending : SameTx(pending'[i], pending[j])
      BY <2>1
    <3>2. pending[j] \in Tx
      BY <1>1
    <3>3. PICK g \in Generations : g = pending[j].gen
      BY <1>1, <3>2
    <3>4. PICK calls : calls = pending[j].calls
      OBVIOUS
    <3>5. InitsAgree(g, calls)
      BY <3>3, <3>4 DEF CallsAgree
    <3> QED
      BY <3>1, <3>3, <3>4, <3>5, InitsAgreeStays DEF SameTx
  <2>2. CASE /\ SetupUsdoInPenrose \/ ExecuteMulticall
             /\ pending'[i].gen = task.gen /\ pending'[i].calls = task.calls
    <3>1. task.step \notin {"idle", "execute"}
      BY <2>2 DEF SetupUsdoInPenrose, ExecuteMulticall, At
    <3>2. PICK g \in Generations : g = task.gen
      BY <1>1, <3>1, RunIsTyped
    <3>3. PICK calls : calls = task.calls
      OBVIOUS
    <3>4. InitsAgree(g, calls)
      BY <3>2, <3>3 DEF CallsAgree
    <3> QED
      BY <2>2, <3>2, <3>3, <3>4, InitsAgreeStays
  <2> QED
    BY <1>1, <2>1, <2>2, WhereTxsComeFrom
<1> QED
  BY <1>5, <1>6 DEF CallsAgree, InitsAgree

(* A market that is initialised belongs to a deployment that is set up.    *)
LEMMA InitialisedAreSetUp ==
    ASSUME SetupIsWhole, NEW g \in Generations, NEW m \in Markets, markets[g][m] # NewMarket
    PROVE  AllIsSetUp(g)
<1>1. NothingIsSetUp(g) => markets[g] = [n \in Markets |-> NewMarket]
  BY DEF NothingIsSetUp
<1> QED
  BY <1>1 DEF SetupIsWhole

(* What a multicall makes of a market: it initialises it, sets the oracle  *)
(* of its asset when it is initialised, or leaves it alone.                *)
LEMMA WhatBecomesOfMarkets ==
    ASSUME TypeOK, [Next]_vars, NEW g \in Generations, NEW m \in Markets
    PROVE  \/ markets'[g][m] = markets[g][m]
           \/ /\ markets[g][m] # NewMarket
              /\ markets'[g][m] = [markets[g][m] EXCEPT !.assetOracle = TRUE]
           \/ \E calls \in CallsOK :
                 /\ m \in ToInitialise(calls) /\ markets[g][m].penrose = NoAddress
                 /\ \E i \in DOMAIN pending : pending[i].gen = g /\ pending[i].calls = calls
                 /\ markets'[g][m] = InitialisedMarket(g, m, calls.inits[m])
<1>1. CASE MulticallSucceeds
  <2>1. PICK f \in Generations : f = Head(pending).gen
    BY <1>1, MulticallIs
  <2>2. PICK calls \in CallsOK : calls = Head(pending).calls
    BY <1>1, MulticallIs
  <2>3. /\ Apply(f, calls) /\ Succeeds(f, calls)
        /\ 1 \in DOMAIN pending /\ Head(pending) = pending[1]
    BY <1>1, <2>1, <2>2, MulticallIs
  <2>4. CASE f # g
    BY <2>3, <2>4, WhatAppliesToPenrose
  <2>5. CASE f = g
    <3>1. markets'[g][m] = IF m \in ToInitialise(calls)
                           THEN InitialisedMarket(g, m, calls.inits[m])
                           ELSE IF m \in calls.assetOracles
                                THEN [markets[g][m] EXCEPT !.assetOracle = TRUE]
                                ELSE markets[g][m]
      BY <2>3, <2>5, WhatAppliesToPenrose
    <3>2. m \in calls.assetOracles => markets[g][m] # NewMarket
      <4>1. NewMarket.penrose # Deployed("PENROSE", g)
        BY DEF NewMarket, NoAddress, Deployed
      <4> QED
        BY <2>3, <2>5, <4>1 DEF Succeeds, IsInitialised
    <3>3. m \in ToInitialise(calls) => markets[g][m].penrose = NoAddress
      BY <2>3, <2>5 DEF Succeeds
    <3>4. \E i \in DOMAIN pending : pending[i].gen = g /\ pending[i].calls = calls
      BY <2>1, <2>2, <2>3, <2>5
    <3> QED
      BY <3>1, <3>2, <3>3, <3>4
  <2> QED
    BY <2>4, <2>5
<1> QED
  BY <1>1, OtherStepsSetUp

LEMMA AssetIdsStay ==
    ASSUME OneInv, [Next]_vars
    PROVE  AssetIdsAgree'
<1>1. /\ TypeOK /\ WholeInv /\ OneUsdoAsset /\ SetupIsWhole /\ CallsAgree /\ AssetIdsAgree
      /\ assets \subseteq assets'
  BY RegisteredStays DEF OneInv, WholeInv, IInv
<1> DEFINE Agrees(g, m) ==
             /\ m.asset = Deployed("USDO", g)
             /\ m.assetId = penrose[g].usdoAssetId
             /\ m.assetId[1] = m.asset
             /\ {m.assetId, m.collateralId} \subseteq assets \ {NoAsset}
<1>2. ASSUME NEW g \in Generations, NEW m \in Markets, markets'[g][m] # NewMarket
      PROVE  AllIsSetUp(g) /\ Agrees(g, markets'[g][m])
  <2>1. CASE markets[g][m] # NewMarket
             /\ markets'[g][m] \in {markets[g][m], [markets[g][m] EXCEPT !.assetOracle = TRUE]}
    <3>1. AllIsSetUp(g) /\ Agrees(g, markets[g][m]) /\ markets[g][m] \in MarketOK
      BY <1>1, <2>1, InitialisedAreSetUp DEF AssetIdsAgree, TypeOK
    <3>2. LET new == markets'[g][m]
              old == markets[g][m]
          IN new.asset = old.asset /\ new.assetId = old.assetId
             /\ new.collateralId = old.collateralId
      BY <2>1, <3>1 DEF MarketOK
    <3> QED
      BY <3>1, <3>2
  <2>2. ASSUME NEW calls, m \in ToInitialise(calls),
               \E i \in DOMAIN pending : pending[i].gen = g /\ pending[i].calls = calls,
               markets'[g][m] = InitialisedMarket(g, m, calls.inits[m])
        PROVE  AllIsSetUp(g) /\ Agrees(g, markets'[g][m])
    <3>1. InitsAgree(g, calls)
      BY <1>1, <2>2 DEF CallsAgree
    <3>2. /\ AllIsSetUp(g) /\ calls.inits[m].collateralId \in assets \ {NoAsset}
          /\ m \in SGLMarkets => calls.inits[m].assetId = penrose[g].usdoAssetId
      BY <2>2, <3>1 DEF InitsAgree
    <3>3. Knows(g, penrose[g].usdoAssetId) /\ penrose[g].usdoToken = Deployed("USDO", g)
      BY <3>2 DEF Knows, AllIsSetUp
    <3>4. /\ penrose[g].usdoAssetId[1] = Deployed("USDO", g)
          /\ penrose[g].usdoAssetId \in assets \ {NoAsset}
      BY <1>1, <3>3 DEF OneUsdoAsset, Knows
    <3>5. m \notin BBMarkets => m \in SGLMarkets
      BY DEF Markets
    <3>6. LET new == markets'[g][m] IN
          /\ new.asset = Deployed("USDO", g) /\ new.assetId = penrose[g].usdoAssetId
          /\ new.collateralId = calls.inits[m].collateralId
      BY <2>2, <3>2, <3>3, <3>5 DEF InitialisedMarket
    <3> QED
      BY <3>2, <3>4, <3>6
  <2> HIDE DEF Agrees
  <2>3. \/ markets'[g][m] = markets[g][m]
        \/ /\ markets[g][m] # NewMarket
           /\ markets'[g][m] = [markets[g][m] EXCEPT !.assetOracle = TRUE]
        \/ \E calls :
              /\ m \in ToInitialise(calls)
              /\ \E i \in DOMAIN pending : pending[i].gen = g /\ pending[i].calls = calls
              /\ markets'[g][m] = InitialisedMarket(g, m, calls.inits[m])
    BY <1>1, WhatBecomesOfMarkets
  <2> QED
    BY <1>2, <2>1, <2>2, <2>3
<1> SUFFICES ASSUME NEW g \in Generations, NEW m \in Markets, markets'[g][m] # NewMarket
             PROVE  (/\ markets[g][m].asset = Deployed("USDO", g)
                     /\ markets[g][m].asset = penrose[g].usdoToken
                     /\ markets[g][m].assetId = penrose[g].usdoAssetId
                     /\ markets[g][m].assetId[1] = markets[g][m].asset
                     /\ {markets[g][m].assetId, markets[g][m].collateralId}
                           \subseteq assets \ {NoAsset})'
  BY Zenon DEF AssetIdsAgree
<1>3. AllIsSetUp(g) /\ Agrees(g, markets'[g][m])
  BY <1>2
<1>4. /\ penrose'[g].usdoAssetId = penrose[g].usdoAssetId
      /\ penrose'[g].usdoToken = Deployed("USDO", g)
  BY <1>1, <1>3, IdsStay
<1> QED
  BY <1>1, <1>3, <1>4

LEMMA OneInvStays ==
    ASSUME OneInv, [Next]_vars
    PROVE  OneInv'
<1>1. TypeOK /\ AwaitedByRun
  BY DEF OneInv, WholeInv, IInv
<1> QED
  BY <1>1, WholeInvStays, RunIsOfDbStays, OneUsdoAssetStays, CallsAgreeStays, AssetIdsStay
     DEF OneInv

LEMMA InitIsOne == Init => OneInv
<1> SUFFICES ASSUME Init PROVE OneInv
  OBVIOUS
<1>1. WholeInv
  BY InitIsWhole
<1>2. /\ task.step = "idle" /\ task.calls = NoCalls /\ DOMAIN pending = {}
      /\ db.usdoAsset = NoAsset /\ \A g \in Generations : penrose[g] = NewPenrose
      /\ \A g \in Generations : markets[g] = [m \in Markets |-> NewMarket]
  BY DEF Init, Idle
<1>3. RunIsOfDb
  BY <1>2 DEF RunIsOfDb, At
<1>4. NoCalls.usdoAsset = NoAsset /\ NewPenrose.usdoAssetId = NoAsset
      /\ ToInitialise(NoCalls) = {}
  BY DEF NoCalls, NewPenrose, ToInitialise
<1>5. \A g \in Generations : \A a : ~Knows(g, a)
  BY <1>2, <1>4 DEF Knows
<1>6. OneUsdoAsset
  BY <1>5 DEF OneUsdoAsset
<1>7. CallsAgree
  BY <1>2, <1>4 DEF CallsAgree, InitsAgree
<1>8. AssetIdsAgree
  BY <1>2 DEF AssetIdsAgree
<1> QED
  BY <1>1, <1>3, <1>6, <1>7, <1>8 DEF OneInv

(* In every run of the tasks the asset of a market, which Penrose gives a  *)
(* BigBang market and the script gives a Singularity market from the       *)
(* database, is the USDO of its own deployment, registered in YieldBox     *)
(* (setupUsdoInPenrose, initSGLMarket).                                    *)
THEOREM AssetIdsTheorem == Spec => []AssetIdsAgree
<1>1. OneInv => AssetIdsAgree
  BY DEF OneInv
<1> QED
  BY <1>1, InitIsOne, OneInvStays, PTL DEF Spec

-----------------------------------------------------------------------------
(* What a step leaves of a deployment whose setup is completed.            *)
CompletedStays(g) ==
    /\ penrose'[g] = penrose[g]
    /\ usdo'[g] = [usdo[g] EXCEPT !.peered = usdo'[g].peered]
    /\ \A m \in Markets :
          markets'[g][m] = [markets[g][m] EXCEPT !.assetOracle = markets'[g][m].assetOracle]
    /\ \A a \in assets' \ assets : a[1] # Deployed("USDO", g)

LEMMA CompletedPenroseStays ==
    ASSUME OneInv, [Next]_vars, NEW g \in Generations, Completed(g)
    PROVE  penrose'[g] = penrose[g]
<1> DEFINE P == [usdoToken : Address, usdoAssetId : Asset, masters : SUBSET MasterNames,
                 registered : SUBSET Markets, ethMarket : BOOLEAN]
<1>1. /\ WholeInv /\ OneUsdoAsset /\ TypeOK /\ TypeOK' /\ AllIsSetUp(g)
      /\ penrose[g] \in P /\ penrose'[g] \in P
  BY IInvStays DEF OneInv, WholeInv, IInv, Completed, TypeOK
<1>2. /\ penrose'[g].usdoAssetId = penrose[g].usdoAssetId
      /\ penrose'[g].usdoToken = penrose[g].usdoToken
  BY <1>1, IdsStay DEF AllIsSetUp
<1>3. AllIsSetUp(g)' /\ MasterContracts' = MasterContracts
      /\ MarketsRegistered(chain)' = MarketsRegistered(chain)
  BY <1>1, SetupStaysWhole, PlanStays
<1>4. /\ penrose'[g].masters = penrose[g].masters
      /\ penrose'[g].registered = penrose[g].registered
      /\ penrose'[g].ethMarket = penrose[g].ethMarket
  BY <1>1, <1>3 DEF AllIsSetUp
<1> QED
  BY <1>1, <1>2, <1>4

LEMMA CompletedUsdoStays ==
    ASSUME OneInv, [Next]_vars, NEW g \in Generations, Completed(g)
    PROVE  usdo'[g] = [usdo[g] EXCEPT !.peered = usdo'[g].peered]
<1> DEFINE U == [flashLoanHelper : BOOLEAN, minters : SUBSET Minters, burners : SUBSET Minters,
                 peered : BOOLEAN]
<1>1. /\ WholeInv /\ IInv /\ TypeOK /\ TypeOK' /\ AllIsSetUp(g)
      /\ usdo[g] \in U /\ usdo'[g] \in U
  BY IInvStays DEF OneInv, WholeInv, IInv, Completed, TypeOK
<1>2. CASE MulticallSucceeds
  <2>1. PICK f \in Generations : f = Head(pending).gen
    BY <1>1, <1>2, MulticallIs
  <2>2. PICK calls \in CallsOK : calls = Head(pending).calls
    BY <1>1, <1>2, MulticallIs
  <2>3. Apply(f, calls) /\ 1 \in DOMAIN pending /\ Head(pending) = pending[1]
    BY <1>1, <1>2, <2>1, <2>2, MulticallIs
  <2>4. CASE f = g
    <3>1. /\ usdo'[g].flashLoanHelper = (usdo[g].flashLoanHelper \/ calls.flashLoanHelper)
          /\ usdo'[g].minters = usdo[g].minters \cup calls.minters
          /\ usdo'[g].burners = usdo[g].burners \cup calls.burners
      BY <1>1, <2>3, <2>4, WhatAppliesToPenrose
    <3>2. /\ calls.minters = calls.burners
          /\ calls.minters \subseteq FlashLoanMinters \cup MintingMarkets
      BY <1>1, <2>1, <2>2, <2>3
         DEF IInv, PendingIsCovered, Covers, WholeInv, CallsArePlanned, WithinPlan
    <3>3. usdo[g].minters = usdo[g].burners
      BY <1>1 DEF IInv, MintersAreInitialised
    <3>4. FlashLoanMinters \cup MintingMarkets \subseteq usdo[g].minters /\ usdo[g].flashLoanHelper
      BY <1>1 DEF Completed, AllIsSetUp, FlashLoanMinters
    <3>5. /\ usdo'[g].flashLoanHelper = usdo[g].flashLoanHelper
          /\ usdo'[g].minters = usdo[g].minters /\ usdo'[g].burners = usdo[g].burners
      BY <1>1, <3>1, <3>2, <3>3, <3>4
    <3> QED
      BY <1>1, <3>5
  <2>5. CASE f # g
    <3>1. usdo'[g] = usdo[g]
      BY <1>1, <2>3, <2>5, WhatAppliesToPenrose
    <3> QED
      BY <1>1, <3>1
  <2> QED
    BY <2>4, <2>5
<1> QED
  BY <1>1, <1>2, OnlyPeered

LEMMA CompletedMarketsStay ==
    ASSUME OneInv, [Next]_vars, NEW g \in Generations, Completed(g), NEW m \in Markets
    PROVE  markets'[g][m] = [markets[g][m] EXCEPT !.assetOracle = markets'[g][m].assetOracle]
<1>1. WholeInv /\ TypeOK /\ markets[g][m] \in MarketOK
  BY DEF OneInv, WholeInv, IInv, TypeOK
<1>2. ~\E calls : /\ m \in ToInitialise(calls) /\ markets[g][m].penrose = NoAddress
                  /\ \E i \in DOMAIN pending : pending[i].gen = g /\ pending[i].calls = calls
  <2> SUFFICES ASSUME NEW calls, m \in ToInitialise(calls),
                      NEW i \in DOMAIN pending, pending[i].gen = g, pending[i].calls = calls
               PROVE  markets[g][m].penrose # NoAddress
    OBVIOUS
  <2>1. m \in MarketsInitialised(chain)
    BY <1>1 DEF WholeInv, CallsArePlanned, WithinPlan
  <2>2. markets[g][m].penrose = Deployed("PENROSE", g)
    BY <2>1 DEF Completed, IsInitialised
  <2> QED
    BY <2>2 DEF Deployed, NoAddress
<1>3. markets'[g][m] = markets[g][m]
      \/ markets'[g][m] = [markets[g][m] EXCEPT !.assetOracle = TRUE]
  BY <1>1, <1>2, WhatBecomesOfMarkets
<1> QED
  BY <1>1, <1>3 DEF MarketOK

LEMMA NoNewAssetOfCompleted ==
    ASSUME OneInv, [Next]_vars, NEW g \in Generations, Completed(g), NEW a \in assets' \ assets
    PROVE  a[1] # Deployed("USDO", g)
<1>1. WholeInv /\ TypeOK /\ OneUsdoAsset
  BY DEF OneInv, WholeInv, IInv
<1>2. CASE MulticallSucceeds
  <2>1. PICK f \in Generations : f = Head(pending).gen
    BY <1>1, <1>2, MulticallIs
  <2>2. PICK calls \in CallsOK : calls = Head(pending).calls
    BY <1>1, <1>2, MulticallIs
  <2>3. Apply(f, calls) /\ 1 \in DOMAIN pending /\ Head(pending) = pending[1]
    BY <1>1, <1>2, <2>1, <2>2, MulticallIs
  <2>4. a \in CollateralAssets(f)
    BY <1>1, <2>1, <2>2, <2>3, WhatAppliesToPenrose DEF WholeInv, CallsArePlanned, WithinPlan
  <2> QED
    BY <2>4, AssetsAreApart
<1>3. CASE CreateUsdoAsset
  <2> DEFINE tx == Head(pending)
  <2>1. /\ tx.kind = "asset" /\ pending # <<>>
        /\ assets' = assets \cup {UsdoAsset(tx.gen, strategies + 1)}
    BY <1>3 DEF CreateUsdoAsset
  <2>2. 1 \in DOMAIN pending /\ tx = pending[1]
    BY <1>1, <2>1 DEF TypeOK
  <2>3. Knows(g, penrose[g].usdoAssetId)
    BY DEF Knows, Completed, AllIsSetUp
  <2>4. tx.gen # g
    BY <1>1, <2>1, <2>2, <2>3 DEF OneUsdoAsset
  <2>5. a[1] = Deployed("USDO", tx.gen)
    BY <2>1 DEF UsdoAsset
  <2> QED
    BY <2>4, <2>5 DEF Deployed
<1> QED
  BY <1>2, <1>3, OtherStepsSetUp

(* What is completed stays as it is, whatever is run again and whatever    *)
(* lands late: the calls of a run or of a transaction bring nothing that   *)
(* is not there, for all of them are within what the scripts set up, and   *)
(* the asset of USDO they carry is the one its Penrose has.                *)
THEOREM CompletedTheorem == Spec => CompletedIsStable
<1>1. OneInv /\ [Next]_vars => [\A g \in Generations : Completed(g) => CompletedStays(g)]_vars
  BY CompletedPenroseStays, CompletedUsdoStays, CompletedMarketsStay, NoNewAssetOfCompleted
     DEF CompletedStays
<1> QED
  BY <1>1, InitIsOne, OneInvStays, PTL DEF Spec, CompletedIsStable, CompletedStays

-----------------------------------------------------------------------------
(* The commands: messages of a kind among those of a path, and the units   *)
(* that they bring back.                                                   *)
Operations == {"toft", "deposit", "borrow", "usdo", "lend", "repay", "execute",
               "executeAndWithdraw", "withdraw"}
IsMessage(m) == m.op \in Operations /\ m.borrow \in Nat

LEMMA UpToIsFinite ==
    ASSUME NEW n \in Nat
    PROVE  IsFiniteSet(1..n) /\ Cardinality(1..n) = n
<1>1. 1 \in Int /\ n \in Int
  OBVIOUS
<1>2. IsFiniteSet(1..n) /\ Cardinality(1..n) = IF 1 > n THEN 0 ELSE n - 1 + 1
  BY <1>1, FS_Interval, Zenon
<1> DEFINE size == Cardinality(1..n)
<1> HIDE DEF size
<1>3. size = IF 1 > n THEN 0 ELSE n - 1 + 1
  BY <1>2, Zenon DEF size
<1>4. size = n
  BY <1>3
<1> QED
  BY <1>2, <1>4, Zenon DEF size

LEMMA MessagesAreFinite ==
    ASSUME NEW S, NEW s \in Seq(S), NEW ops
    PROVE  IsFiniteSet(X!MessagesOf(s, ops))
<1>1. DOMAIN s = 1..Len(s) /\ Len(s) \in Nat
  OBVIOUS
<1>2. X!MessagesOf(s, ops) \subseteq 1..Len(s)
  BY <1>1 DEF X!MessagesOf
<1>3. IsFiniteSet(1..Len(s))
  BY <1>1, UpToIsFinite
<1>4. X!MessagesOf(s, ops) \in SUBSET (1..Len(s))
  BY <1>2
<1> QED
  BY <1>3, <1>4, FS_Subset, Zenon

LEMMA UnitsAreFinite ==
    ASSUME NEW S, NEW s \in Seq(S), \A m \in S : IsMessage(m)
    PROVE  IsFiniteSet(X!UnitsOf(s))
<1> DEFINE units == [i \in 1..Len(s) |-> {i} \X (1..s[i].borrow)]
           T == {{i} \X (1..s[i].borrow) : i \in DOMAIN s}
<1>1. DOMAIN s = 1..Len(s) /\ Len(s) \in Nat
  OBVIOUS
<1>2. units \in Surjection(1..Len(s), T)
  BY <1>1 DEF Surjection
<1>3. IsFiniteSet(T)
  <2> HIDE DEF units, T
  <2> QED
    BY <1>1, <1>2, UpToIsFinite, FS_Surjection
<1>4. ASSUME NEW i \in DOMAIN s
      PROVE  IsFiniteSet({i} \X (1..s[i].borrow))
  <2>1. s[i].borrow \in Nat
    BY <1>1 DEF IsMessage
  <2>2. IsFiniteSet(1..s[i].borrow) /\ IsFiniteSet({i})
    BY <2>1, UpToIsFinite, FS_Singleton, Zenon
  <2> QED
    BY <2>2, FS_Product
<1>5. \A t \in T : IsFiniteSet(t)
  BY <1>4
<1>6. IsFiniteSet(UNION T)
  <2> HIDE DEF T
  <2> QED
    BY <1>3, <1>5, FS_UNION
<1> QED
  BY <1>6 DEF X!UnitsOf

(* A message more ...                                                      *)
LEMMA MessagesOfAppend ==
    ASSUME NEW S, NEW s \in Seq(S), NEW m \in S, NEW ops
    PROVE  Cardinality(X!MessagesOf(Append(s, m), ops)) =
               Cardinality(X!MessagesOf(s, ops)) + IF m.op \in ops THEN 1 ELSE 0
<1> DEFINE n == Len(s) + 1
           before == X!MessagesOf(s, ops)
           after == X!MessagesOf(Append(s, m), ops)
<1>1. /\ DOMAIN s = 1..Len(s) /\ Len(s) \in Nat
      /\ DOMAIN Append(s, m) = 1..n /\ Append(s, m)[n] = m
      /\ \A i \in 1..Len(s) : Append(s, m)[i] = s[i]
  OBVIOUS
<1>2. n \notin before /\ after = IF m.op \in ops THEN before \cup {n} ELSE before
  BY <1>1 DEF X!MessagesOf
<1>3. IsFiniteSet(before) /\ Cardinality(before) \in Nat
  BY MessagesAreFinite, FS_CardinalityType
<1> HIDE DEF n, before, after
<1>4. Cardinality(before \cup {n}) = Cardinality(before) + 1
  BY <1>2, <1>3, FS_AddElement, Zenon
<1>5. Cardinality(after) = Cardinality(before) + IF m.op \in ops THEN 1 ELSE 0
  BY <1>2, <1>3, <1>4
<1> QED
  BY <1>5 DEF before, after

LEMMA UnitsOfAppend ==
    ASSUME NEW S, NEW s \in Seq(S), NEW m \in S, \A e \in S : IsMessage(e)
    PROVE  Cardinality(X!UnitsOf(Append(s, m))) = Cardinality(X!UnitsOf(s)) + m.borrow
<1> DEFINE n == Len(s) + 1
           before == X!UnitsOf(s)
           after == X!UnitsOf(Append(s, m))
           new == {n} \X (1..m.borrow)
<1>1. /\ DOMAIN s = 1..Len(s) /\ Len(s) \in Nat
      /\ DOMAIN Append(s, m) = 1..n /\ Append(s, m)[n] = m
      /\ \A i \in 1..Len(s) : Append(s, m)[i] = s[i]
  OBVIOUS
<1>2. before \cap new = {} /\ after = before \cup new
  BY <1>1 DEF X!UnitsOf
<1>3. IsFiniteSet(before) /\ Cardinality(before) \in Nat
  BY UnitsAreFinite, FS_CardinalityType
<1>4. IsFiniteSet(new) /\ Cardinality(new) = m.borrow
  <2>1. m.borrow \in Nat
    BY DEF IsMessage
  <2>2. IsFiniteSet(1..m.borrow) /\ Cardinality(1..m.borrow) = m.borrow
    BY <2>1, UpToIsFinite, Zenon
  <2>3. IsFiniteSet({n}) /\ Cardinality({n}) = 1
    BY FS_Singleton
  <2> HIDE DEF n
  <2>4. IsFiniteSet(new) /\ Cardinality(new) = Cardinality({n}) * Cardinality(1..m.borrow)
    BY <2>2, <2>3, FS_Product, Zenon
  <2> HIDE DEF new
  <2> QED
    BY <2>1, <2>2, <2>3, <2>4
<1> HIDE DEF n, before, after, new
<1>5. m.borrow \in Nat /\ Cardinality(before \cap new) = 0
  BY <1>2, FS_EmptySet DEF IsMessage
<1>6. Cardinality(before \cup new)
        = Cardinality(before) + Cardinality(new) - Cardinality(before \cap new)
  BY <1>3, <1>4, FS_Union, Zenon
<1>7. Cardinality(after) = Cardinality(before) + m.borrow
  BY <1>2, <1>3, <1>4, <1>5, <1>6
<1> QED
  BY <1>7 DEF before, after

(* ... and the oldest one less.                                            *)
LEMMA MessagesOfTail ==
    ASSUME NEW S, NEW s \in Seq(S), s # <<>>, NEW ops
    PROVE  Cardinality(X!MessagesOf(Tail(s), ops)) =
               Cardinality(X!MessagesOf(s, ops)) - IF Head(s).op \in ops THEN 1 ELSE 0
<1> DEFINE before == X!MessagesOf(s, ops)
           after == X!MessagesOf(Tail(s), ops)
           next == [i \in after |-> i + 1]
<1>1. /\ DOMAIN s = 1..Len(s) /\ Len(s) \in Nat \ {0} /\ Head(s) = s[1]
      /\ DOMAIN Tail(s) = 1..(Len(s) - 1)
      /\ \A i \in 1..(Len(s) - 1) : Tail(s)[i] = s[i + 1]
  BY HeadTailProperties
<1>2. \A i \in after : i \in 1..(Len(s) - 1) /\ s[i + 1].op \in ops
  BY <1>1 DEF X!MessagesOf
<1>3. ASSUME NEW j \in before \ {1}
      PROVE  j \in Int /\ j - 1 \in after
  BY <1>1 DEF X!MessagesOf
<1>4. next \in Bijection(after, before \ {1})
  <2>1. \A i \in after : i + 1 \in before \ {1}
    BY <1>1, <1>2 DEF X!MessagesOf
  <2> HIDE DEF before, after
  <2>2. \A i, j \in after : i + 1 = j + 1 => i = j
    BY <1>2
  <2>3. \A j \in before \ {1} : (j - 1) + 1 = j /\ j - 1 \in after
    BY <1>3
  <2> QED
    BY <2>1, <2>2, <2>3 DEF Bijection, Injection, Surjection, IsInjective
<1>5. 1 \in before <=> Head(s).op \in ops
  BY <1>1 DEF X!MessagesOf
<1>6. IsFiniteSet(before) /\ Cardinality(before) \in Nat /\ IsFiniteSet(after)
  <2>1. Tail(s) \in Seq(S)
    OBVIOUS
  <2> QED
    BY <2>1, MessagesAreFinite, FS_CardinalityType
<1> HIDE DEF before, after, next
<1>7. Cardinality(before \ {1}) = Cardinality(after)
  BY <1>4, <1>6, FS_Bijection DEF ExistsBijection
<1>8. Cardinality(before \ {1}) =
        IF 1 \in before THEN Cardinality(before) - 1 ELSE Cardinality(before)
  BY <1>6, FS_RemoveElement, Zenon
<1>9. Cardinality(after) = Cardinality(before) - IF Head(s).op \in ops THEN 1 ELSE 0
  BY <1>5, <1>6, <1>7, <1>8
<1> QED
  BY <1>9 DEF before, after

LEMMA UnitsOfTail ==
    ASSUME NEW S, NEW s \in Seq(S), s # <<>>, \A e \in S : IsMessage(e)
    PROVE  Cardinality(X!UnitsOf(Tail(s))) = Cardinality(X!UnitsOf(s)) - Head(s).borrow
<1> DEFINE before == X!UnitsOf(s)
           after == X!UnitsOf(Tail(s))
           n == Head(s).borrow
           old == {1} \X (1..n)
           next == [u \in after |-> <<u[1] + 1, u[2]>>]
<1>1. /\ DOMAIN s = 1..Len(s) /\ Len(s) \in Nat \ {0} /\ Head(s) = s[1]
      /\ Tail(s) \in Seq(S) /\ DOMAIN Tail(s) = 1..(Len(s) - 1)
      /\ \A i \in 1..(Len(s) - 1) : Tail(s)[i] = s[i + 1]
  BY HeadTailProperties
<1>2. \A i, k : <<i, k>> \in before <=> i \in 1..Len(s) /\ k \in 1..s[i].borrow
  BY <1>1 DEF X!UnitsOf
<1>3. \A i, k : <<i, k>> \in after <=> i \in 1..(Len(s) - 1) /\ k \in 1..s[i + 1].borrow
  BY <1>1 DEF X!UnitsOf
<1>4. /\ \A u \in before : u = <<u[1], u[2]>>
      /\ \A u \in after : u = <<u[1], u[2]>>
  BY DEF X!UnitsOf
<1>5. n \in Nat /\ old \subseteq before
  BY <1>1, <1>2 DEF IsMessage
<1>6. next \in Bijection(after, before \ old)
  <2> HIDE DEF before, after
  <2>1. ASSUME NEW u \in after
        PROVE  <<u[1] + 1, u[2]>> \in before \ old /\ u[1] \in Int
    BY <1>1, <1>2, <1>3, <1>4
  <2>2. ASSUME NEW u \in before \ old
        PROVE  <<u[1] - 1, u[2]>> \in after /\ u[1] \in Int /\ u = <<u[1], u[2]>>
    <3>1. u = <<u[1], u[2]>> /\ u[1] \in 1..Len(s) /\ u[2] \in 1..s[u[1]].borrow
      BY <1>2, <1>4
    <3>2. u[1] # 1
      BY <1>1, <3>1
    <3>3. u[1] - 1 \in 1..(Len(s) - 1) /\ (u[1] - 1) + 1 = u[1]
      BY <1>1, <3>1, <3>2
    <3> QED
      BY <1>3, <3>1, <3>3
  <2>3. next \in [after -> before \ old]
    BY <2>1
  <2>4. \A u, v \in after : next[u] = next[v] => u = v
    BY <1>4, <2>1
  <2>5. ASSUME NEW u \in before \ old
        PROVE  \E v \in after : next[v] = u
    <3> DEFINE v == <<u[1] - 1, u[2]>>
    <3>1. v \in after /\ next[v] = <<(u[1] - 1) + 1, u[2]>>
      BY <2>2
    <3>2. next[v] = u
      BY <2>2, <3>1
    <3> QED
      BY <3>1, <3>2
  <2> QED
    BY <2>3, <2>4, <2>5 DEF Bijection, Injection, Surjection, IsInjective
<1>7. IsFiniteSet(before) /\ IsFiniteSet(after)
      /\ Cardinality(before) \in Nat /\ Cardinality(after) \in Nat
  BY <1>1, UnitsAreFinite, FS_CardinalityType
<1>8. Cardinality(old) = n
  <2>1. IsFiniteSet(1..n) /\ Cardinality(1..n) = n
    BY <1>5, UpToIsFinite, Zenon
  <2>2. IsFiniteSet({1}) /\ Cardinality({1}) = 1
    BY FS_Singleton
  <2> HIDE DEF n
  <2>3. Cardinality(old) = Cardinality({1}) * Cardinality(1..n)
    BY <2>1, <2>2, FS_Product, Zenon
  <2> HIDE DEF old
  <2> QED
    BY <1>5, <2>1, <2>2, <2>3
<1> HIDE DEF before, after, n, old, next
<1>9. Cardinality(before \ old) = Cardinality(after)
  BY <1>6, <1>7, FS_Bijection DEF ExistsBijection
<1>10. Cardinality(before \ old) = Cardinality(before) - n
  <2>1. before \cap old = old
    BY <1>5
  <2> QED
    BY <1>7, <1>8, <2>1, FS_Difference
<1>11. Cardinality(after) = Cardinality(before) - n
  BY <1>9, <1>10
<1> QED
  BY <1>11 DEF before, after, n

(* Each message is on the path of what it asks for, and each path is a     *)
(* sequence of such messages.                                              *)
TOFTs == {"toft", "deposit", "borrow"}
USDOs == {"usdo", "lend", "repay"}
Carries(p, m) == IsMessage(m) /\ X!PathOf(m.op) = p
ArePaths(paths) ==
    /\ paths = [p \in X!Paths |-> paths[p]]
    /\ \A p \in X!Paths : \E S : paths[p] \in Seq(S) /\ \A m \in S : Carries(p, m)

CountOf(messages, ops) == Cardinality(X!MessagesOf(messages, ops))
Flying(paths, ops) ==
    CountOf(paths["TOFT"], ops) + CountOf(paths["USDO"], ops) + CountOf(paths["proxy"], ops)
Back(paths) == Cardinality(X!UnitsOf(paths["back"]))

(* What the commands keep, of the tokens and of the messages under way.    *)
TOFTAmounts == [from : Int, to : Int, yieldBox : Int, collateral : Int, swapper : Int]
USDOAmounts == [from : Int, to : Int, yieldBox : Int, pool : Int]
TOFTHeld(t) == t.from + t.to + t.yieldBox + t.collateral + t.swapper
USDOHeld(u) == u.from + u.to + u.yieldBox + u.pool

IsMarket(m) == m = [debt |-> m.debt, lent |-> m.lent, nonce |-> m.nonce]

TokensOK(t, u, w, k, m) ==
    /\ t \in TOFTAmounts /\ u \in USDOAmounts
    /\ w \in Int /\ k \in Int
    /\ IsMarket(m) /\ m.debt \in Int /\ m.lent \in Int
AddsUp(t, u, w, k, m, paths) ==
    /\ w = TOFTHeld(t) + Flying(paths, TOFTs)
    /\ k + InitialPool = USDOHeld(u) + Flying(paths, USDOs) + Back(paths)
    /\ u.pool + m.debt = m.lent
CommandsInv ==
    /\ TokensOK(toft, usdoHeld, wrapped, minted, market)
    /\ ArePaths(path)
    /\ AddsUp(toft, usdoHeld, wrapped, minted, market, path)

(* The module of the commands has its own copy of the standard one.        *)
LEMMA CardinalityIsTheSame == \A S : X!Cardinality(S) = Cardinality(S)
  BY Zenon DEF X!Cardinality, Cardinality

LEMMA CommandsInvIsEnough == ASSUME CommandsInv PROVE X!NothingLost
<1>1. /\ \A ops : X!InFlight(ops) = Flying(path, ops)
      /\ X!Returning = Back(path)
  BY CardinalityIsTheSame, Zenon DEF X!InFlight, X!Returning, Flying, Back, CountOf
<1> QED
  BY <1>1, Zenon DEF CommandsInv, AddsUp, X!NothingLost, TOFTs, USDOs, TOFTHeld, USDOHeld

LEMMA CountsAreNumbers ==
    ASSUME NEW paths, ArePaths(paths), NEW ops
    PROVE  /\ \A p \in X!Paths : CountOf(paths[p], ops) \in Nat
           /\ Flying(paths, ops) \in Nat
           /\ Back(paths) \in Nat
<1>1. ASSUME NEW p \in X!Paths
      PROVE  CountOf(paths[p], ops) \in Nat
  <2>1. PICK S : paths[p] \in Seq(S)
    BY DEF ArePaths
  <2>2. IsFiniteSet(X!MessagesOf(paths[p], ops))
    BY <2>1, MessagesAreFinite, Zenon
  <2> QED
    BY <2>2, FS_CardinalityType, Zenon DEF CountOf
<1>2. Flying(paths, ops) \in Nat
  <2>1. "TOFT" \in X!Paths /\ "USDO" \in X!Paths /\ "proxy" \in X!Paths
    BY DEF X!Paths
  <2>2. /\ CountOf(paths["TOFT"], ops) \in Nat
        /\ CountOf(paths["USDO"], ops) \in Nat
        /\ CountOf(paths["proxy"], ops) \in Nat
    BY <1>1, <2>1, Zenon
  <2> QED
    BY <2>2 DEF Flying
<1>3. Back(paths) \in Nat
  <2>1. PICK S : paths["back"] \in Seq(S) /\ \A m \in S : IsMessage(m)
    BY DEF ArePaths, Carries, X!Paths
  <2>2. IsFiniteSet(X!UnitsOf(paths["back"]))
    BY <2>1, UnitsAreFinite, Zenon
  <2> QED
    BY <2>2, FS_CardinalityType, Zenon DEF Back
<1> QED
  BY <1>1, <1>2, <1>3

(* A message that is sent is under way, and brings back what it carries.   *)
LEMMA PathOfIsPath ==
    ASSUME NEW op \in Operations
    PROVE  /\ X!PathOf(op) \in X!Paths
           /\ X!PathOf(op) = "back" <=> op = "withdraw"
           /\ op \in TOFTs => X!PathOf(op) = "TOFT"
           /\ op \in USDOs => X!PathOf(op) = "USDO"
           /\ X!PathOf(op) = "TOFT" => op \in TOFTs
           /\ X!PathOf(op) = "USDO" => op \in USDOs
           /\ X!PathOf(op) = "proxy" => op \in {"execute", "executeAndWithdraw"}
  BY DEF Operations, X!PathOf, X!Paths, TOFTs, USDOs

LEMMA PostedIsUnderWay ==
    ASSUME NEW paths, ArePaths(paths), NEW m, IsMessage(m), NEW after,
           after = [paths EXCEPT ![X!PathOf(m.op)] = Append(@, m)]
    PROVE  /\ ArePaths(after)
           /\ \A ops \in {TOFTs, USDOs} :
                 Flying(after, ops) = Flying(paths, ops) + IF m.op \in ops THEN 1 ELSE 0
           /\ Back(after) = Back(paths) + IF m.op = "withdraw" THEN m.borrow ELSE 0
<1> DEFINE p == X!PathOf(m.op)
<1>1. p \in X!Paths /\ m.op \in Operations
  BY PathOfIsPath DEF IsMessage
<1>2. PICK S : paths[p] \in Seq(S) /\ \A e \in S : Carries(p, e)
  BY <1>1 DEF ArePaths
<1> DEFINE T == S \cup {m}
<1>3. paths[p] \in Seq(T) /\ m \in T /\ \A e \in T : Carries(p, e)
  <2>1. \A e \in T : Carries(p, e)
    BY <1>2 DEF Carries
  <2>2. DOMAIN paths[p] = 1..Len(paths[p]) /\ \A i \in 1..Len(paths[p]) : paths[p][i] \in T
    BY <1>2
  <2>3. paths[p] \in Seq(T)
    BY <1>2, <2>2, SeqDef
  <2> QED
    BY <2>1, <2>3
<1>4. after[p] = Append(paths[p], m) /\ \A q \in X!Paths \ {p} : after[q] = paths[q]
  BY <1>1 DEF ArePaths
<1>5. ArePaths(after)
  <2>1. after = [q \in X!Paths |-> after[q]]
    BY <1>1 DEF ArePaths
  <2>2. after[p] \in Seq(T)
    <3> HIDE DEF p, T
    <3> QED
      BY <1>3, <1>4
  <2>3. ASSUME NEW q \in X!Paths
        PROVE  \E U : after[q] \in Seq(U) /\ \A e \in U : Carries(q, e)
    <3>1. CASE q = p
      BY <1>3, <2>2, <3>1, Zenon
    <3>2. CASE q # p
      BY <1>4, <3>2 DEF ArePaths
    <3> QED
      BY <3>1, <3>2
  <2> QED
    BY <2>1, <2>3 DEF ArePaths
<1>6. ASSUME NEW ops
      PROVE  CountOf(after[p], ops) = CountOf(paths[p], ops) + IF m.op \in ops THEN 1 ELSE 0
  <2> HIDE DEF p, T
  <2>1. CountOf(Append(paths[p], m), ops)
        = CountOf(paths[p], ops) + IF m.op \in ops THEN 1 ELSE 0
    BY <1>3, MessagesOfAppend DEF CountOf
  <2> QED
    BY <1>4, <2>1, Zenon
<1>7. ASSUME NEW ops \in {TOFTs, USDOs}
      PROVE  Flying(after, ops) = Flying(paths, ops) + IF m.op \in ops THEN 1 ELSE 0
  <2>1. m.op \in ops => p = "TOFT" \/ p = "USDO"
    BY <1>1, PathOfIsPath
  <2>2. p = "TOFT" \/ p = "USDO" \/ p = "proxy" \/ p = "back"
    BY <1>1 DEF X!Paths
  <2>3. \A q \in X!Paths : CountOf(paths[q], ops) \in Nat
    BY CountsAreNumbers
  <2>4. "TOFT" \in X!Paths /\ "USDO" \in X!Paths /\ "proxy" \in X!Paths
    BY DEF X!Paths
  <2> HIDE DEF p
  <2>5. CASE p = "TOFT"
    <3>1. /\ after["USDO"] = paths["USDO"] /\ after["proxy"] = paths["proxy"]
          /\ CountOf(after["TOFT"], ops)
               = CountOf(paths["TOFT"], ops) + IF m.op \in ops THEN 1 ELSE 0
      BY <1>4, <1>6, <2>4, <2>5
    <3> QED
      BY <2>3, <2>4, <3>1 DEF Flying
  <2>6. CASE p = "USDO"
    BY <1>4, <1>6, <2>3, <2>4, <2>6 DEF Flying
  <2>7. CASE p = "proxy"
    BY <1>4, <1>6, <2>1, <2>3, <2>4, <2>7 DEF Flying
  <2>8. CASE p = "back"
    BY <1>4, <2>1, <2>3, <2>4, <2>8 DEF Flying
  <2> QED
    BY <2>2, <2>5, <2>6, <2>7, <2>8
<1>8. Back(after) = Back(paths) + IF m.op = "withdraw" THEN m.borrow ELSE 0
  <2>1. p = "back" <=> m.op = "withdraw"
    BY <1>1, PathOfIsPath
  <2>2. Back(paths) \in Nat /\ "back" \in X!Paths
    BY CountsAreNumbers DEF X!Paths
  <2> HIDE DEF p, T
  <2>3. CASE p = "back"
    <3>1. \A e \in T : IsMessage(e)
      BY <1>3 DEF Carries
    <3>2. Cardinality(X!UnitsOf(Append(paths[p], m)))
          = Cardinality(X!UnitsOf(paths[p])) + m.borrow
      BY <1>3, <3>1, UnitsOfAppend, Zenon
    <3>3. Back(after) = Back(paths) + m.borrow
      BY <1>4, <2>3, <3>2, Zenon DEF Back
    <3> QED
      BY <2>1, <2>3, <3>3
  <2>4. CASE p # "back"
    <3>1. Back(after) = Back(paths)
      BY <1>4, <2>2, <2>4 DEF Back
    <3> QED
      BY <2>1, <2>2, <2>4, <3>1
  <2> QED
    BY <2>3, <2>4
<1> QED
  BY <1>5, <1>7, <1>8

(* One that is delivered is no longer under way.                           *)
LEMMA TakenIsNoLongerUnderWay ==
    ASSUME NEW paths, ArePaths(paths), NEW p \in X!Paths, paths[p] # <<>>, NEW after,
           after = [paths EXCEPT ![p] = Tail(@)]
    PROVE  /\ Carries(p, Head(paths[p]))
           /\ ArePaths(after)
           /\ \A ops \in {TOFTs, USDOs} :
                 Flying(after, ops) =
                     Flying(paths, ops) - IF Head(paths[p]).op \in ops THEN 1 ELSE 0
           /\ Back(after) =
                  Back(paths) - IF Head(paths[p]).op = "withdraw" THEN Head(paths[p]).borrow ELSE 0
<1> DEFINE m == Head(paths[p])
<1>1. PICK S : paths[p] \in Seq(S) /\ \A e \in S : Carries(p, e)
  BY DEF ArePaths
<1>2. m \in S /\ Carries(p, m) /\ Tail(paths[p]) \in Seq(S)
  <2>1. m \in S /\ Tail(paths[p]) \in Seq(S)
    BY <1>1, HeadTailProperties
  <2> QED
    BY <1>1, <2>1, Zenon
<1>3. after[p] = Tail(paths[p]) /\ \A q \in X!Paths \ {p} : after[q] = paths[q]
  BY DEF ArePaths
<1>4. ArePaths(after)
  <2>1. after = [q \in X!Paths |-> after[q]]
    BY DEF ArePaths
  <2>2. ASSUME NEW q \in X!Paths
        PROVE  \E U : after[q] \in Seq(U) /\ \A e \in U : Carries(q, e)
    <3>1. CASE q = p
      BY <1>1, <1>2, <1>3, <3>1, Zenon
    <3>2. CASE q # p
      BY <1>3, <3>2 DEF ArePaths
    <3> QED
      BY <3>1, <3>2
  <2> QED
    BY <2>1, <2>2 DEF ArePaths
<1> HIDE DEF m
<1>5. ASSUME NEW ops
      PROVE  CountOf(after[p], ops) = CountOf(paths[p], ops) - IF m.op \in ops THEN 1 ELSE 0
  BY <1>1, <1>3, MessagesOfTail, Zenon DEF CountOf, m
<1>6. m.op \in Operations /\ X!PathOf(m.op) = p
  BY <1>2 DEF Carries, IsMessage
<1>7. ASSUME NEW ops \in {TOFTs, USDOs}
      PROVE  Flying(after, ops) = Flying(paths, ops) - IF m.op \in ops THEN 1 ELSE 0
  <2>1. m.op \in ops => p = "TOFT" \/ p = "USDO"
    BY <1>6, PathOfIsPath
  <2>2. p = "TOFT" \/ p = "USDO" \/ p = "proxy" \/ p = "back"
    BY DEF X!Paths
  <2>3. \A q \in X!Paths : CountOf(paths[q], ops) \in Nat
    BY CountsAreNumbers
  <2>4. "TOFT" \in X!Paths /\ "USDO" \in X!Paths /\ "proxy" \in X!Paths
    BY DEF X!Paths
  <2>5. CASE p = "TOFT"
    BY <1>3, <1>5, <2>3, <2>4, <2>5 DEF Flying
  <2>6. CASE p = "USDO"
    BY <1>3, <1>5, <2>3, <2>4, <2>6 DEF Flying
  <2>7. CASE p = "proxy"
    BY <1>3, <1>5, <2>1, <2>3, <2>4, <2>7 DEF Flying
  <2>8. CASE p = "back"
    BY <1>3, <2>1, <2>3, <2>4, <2>8 DEF Flying
  <2> QED
    BY <2>2, <2>5, <2>6, <2>7, <2>8
<1>8. Back(after) = Back(paths) - IF m.op = "withdraw" THEN m.borrow ELSE 0
  <2>1. p = "back" <=> m.op = "withdraw"
    BY <1>6, PathOfIsPath
  <2>2. Back(paths) \in Nat /\ "back" \in X!Paths
    BY CountsAreNumbers DEF X!Paths
  <2>3. CASE p = "back"
    <3>1. \A e \in S : IsMessage(e)
      BY <1>1 DEF Carries
    <3>2. Cardinality(X!UnitsOf(Tail(paths[p]))) = Cardinality(X!UnitsOf(paths[p])) - m.borrow
      BY <1>1, <3>1, UnitsOfTail, Zenon DEF m
    <3>3. Back(after) = Back(paths) - m.borrow
      BY <1>3, <2>3, <3>2, Zenon DEF Back
    <3> QED
      BY <2>1, <2>3, <3>3
  <2>4. CASE p # "back"
    <3>1. Back(after) = Back(paths)
      BY <1>3, <2>2, <2>4 DEF Back
    <3> QED
      BY <2>1, <2>2, <2>4, <3>1
  <2> QED
    BY <2>3, <2>4
<1> QED
  BY <1>2, <1>4, <1>7, <1>8, Zenon DEF m

-----------------------------------------------------------------------------
(* What each step of a command does to the tokens.  Those that set up, or  *)
(* sign, move nothing.                                                     *)
LEMMA MovesNothing ==
    ASSUME CommandsInv, UNCHANGED <<X!tokens, path>>
    PROVE  CommandsInv'
  BY DEF CommandsInv, X!tokens

LEMMA TOFTMoves ==
    ASSUME NEW t \in TOFTAmounts
    PROVE  /\ TOFTHeld(t) \in Int
           /\ LET s == [t EXCEPT !.from = @ - 1]
              IN  s \in TOFTAmounts /\ TOFTHeld(s) = TOFTHeld(t) - 1
           /\ LET s == [t EXCEPT !.from = @ + 1]
              IN  s \in TOFTAmounts /\ TOFTHeld(s) = TOFTHeld(t) + 1
           /\ LET s == [t EXCEPT !.to = @ + 1]
              IN  s \in TOFTAmounts /\ TOFTHeld(s) = TOFTHeld(t) + 1
           /\ LET s == [t EXCEPT !.yieldBox = @ + 1]
              IN  s \in TOFTAmounts /\ TOFTHeld(s) = TOFTHeld(t) + 1
           /\ LET s == [t EXCEPT !.collateral = @ + 1]
              IN  s \in TOFTAmounts /\ TOFTHeld(s) = TOFTHeld(t) + 1
           /\ LET s == [t EXCEPT !.to = @ - 1, !.swapper = @ + 1]
              IN  s \in TOFTAmounts /\ TOFTHeld(s) = TOFTHeld(t)
           /\ LET s == [t EXCEPT !.yieldBox = @ - 1, !.collateral = @ + 1]
              IN  s \in TOFTAmounts /\ TOFTHeld(s) = TOFTHeld(t)
<1>1. TOFTHeld(t) \in Int
  BY DEF TOFTAmounts, TOFTHeld
<1>2. LET s == [t EXCEPT !.from = @ - 1]
      IN  s \in TOFTAmounts /\ TOFTHeld(s) = TOFTHeld(t) - 1
  BY DEF TOFTAmounts, TOFTHeld
<1>3. LET s == [t EXCEPT !.from = @ + 1]
      IN  s \in TOFTAmounts /\ TOFTHeld(s) = TOFTHeld(t) + 1
  BY DEF TOFTAmounts, TOFTHeld
<1>4. LET s == [t EXCEPT !.to = @ + 1]
      IN  s \in TOFTAmounts /\ TOFTHeld(s) = TOFTHeld(t) + 1
  BY DEF TOFTAmounts, TOFTHeld
<1>5. LET s == [t EXCEPT !.yieldBox = @ + 1]
      IN  s \in TOFTAmounts /\ TOFTHeld(s) = TOFTHeld(t) + 1
  BY DEF TOFTAmounts, TOFTHeld
<1>6. LET s == [t EXCEPT !.collateral = @ + 1]
      IN  s \in TOFTAmounts /\ TOFTHeld(s) = TOFTHeld(t) + 1
  BY DEF TOFTAmounts, TOFTHeld
<1>7. LET s == [t EXCEPT !.to = @ - 1, !.swapper = @ + 1]
      IN  s \in TOFTAmounts /\ TOFTHeld(s) = TOFTHeld(t)
  <2> DEFINE r == [t EXCEPT !.to = @ - 1]
  <2>1. r \in TOFTAmounts /\ TOFTHeld(r) = TOFTHeld(t) - 1 /\ r.swapper = t.swapper
    BY DEF TOFTAmounts, TOFTHeld
  <2> HIDE DEF r
  <2> DEFINE s == [r EXCEPT !.swapper = @ + 1]
  <2>2. s \in TOFTAmounts /\ TOFTHeld(s) = TOFTHeld(r) + 1
    BY <2>1 DEF TOFTAmounts, TOFTHeld
  <2>3. s = [t EXCEPT !.to = @ - 1, !.swapper = @ + 1]
    BY <2>1, Zenon DEF r
  <2> HIDE DEF s
  <2>4. TOFTHeld(s) = TOFTHeld(t)
    BY <1>1, <2>1, <2>2
  <2> QED
    BY <2>2, <2>3, <2>4, Zenon
<1>8. LET s == [t EXCEPT !.yieldBox = @ - 1, !.collateral = @ + 1]
      IN  s \in TOFTAmounts /\ TOFTHeld(s) = TOFTHeld(t)
  <2> DEFINE r == [t EXCEPT !.yieldBox = @ - 1]
  <2>1. r \in TOFTAmounts /\ TOFTHeld(r) = TOFTHeld(t) - 1 /\ r.collateral = t.collateral
    BY DEF TOFTAmounts, TOFTHeld
  <2> HIDE DEF r
  <2> DEFINE s == [r EXCEPT !.collateral = @ + 1]
  <2>2. s \in TOFTAmounts /\ TOFTHeld(s) = TOFTHeld(r) + 1
    BY <2>1 DEF TOFTAmounts, TOFTHeld
  <2>3. s = [t EXCEPT !.yieldBox = @ - 1, !.collateral = @ + 1]
    BY <2>1, Zenon DEF r
  <2> HIDE DEF s
  <2>4. TOFTHeld(s) = TOFTHeld(t)
    BY <1>1, <2>1, <2>2
  <2> QED
    BY <2>2, <2>3, <2>4, Zenon
<1> QED
  BY <1>1, <1>2, <1>3, <1>4, <1>5, <1>6, <1>7, <1>8, Zenon

LEMMA USDONumbers ==
    ASSUME NEW u \in USDOAmounts
    PROVE  /\ USDOHeld(u) \in Int
           /\ u.from \in Int /\ u.to \in Int /\ u.yieldBox \in Int /\ u.pool \in Int
  BY DEF USDOAmounts, USDOHeld

LEMMA USDOMoves ==
    ASSUME NEW u \in USDOAmounts, NEW n \in Int
    PROVE  /\ LET s == [u EXCEPT !.from = n]
              IN  /\ s \in USDOAmounts /\ s.pool = u.pool
                  /\ USDOHeld(s) = USDOHeld(u) + n - u.from
           /\ LET s == [u EXCEPT !.to = n]
              IN  /\ s \in USDOAmounts /\ s.pool = u.pool
                  /\ USDOHeld(s) = USDOHeld(u) + n - u.to
           /\ LET s == [u EXCEPT !.pool = n]
              IN  /\ s \in USDOAmounts /\ s.pool = n
                  /\ USDOHeld(s) = USDOHeld(u) + n - u.pool
<1>1. LET s == [u EXCEPT !.from = n]
      IN  s \in USDOAmounts /\ s.pool = u.pool /\ USDOHeld(s) = USDOHeld(u) + n - u.from
  BY DEF USDOAmounts, USDOHeld
<1>2. LET s == [u EXCEPT !.to = n]
      IN  s \in USDOAmounts /\ s.pool = u.pool /\ USDOHeld(s) = USDOHeld(u) + n - u.to
  BY DEF USDOAmounts, USDOHeld
<1>3. LET s == [u EXCEPT !.pool = n]
      IN  s \in USDOAmounts /\ s.pool = n /\ USDOHeld(s) = USDOHeld(u) + n - u.pool
  BY DEF USDOAmounts, USDOHeld
<1> QED
  BY <1>1, <1>2, <1>3, Zenon

LEMMA USDOMovesTwice ==
    ASSUME NEW u \in USDOAmounts, NEW n \in Int, NEW k \in Int
    PROVE  LET s == [u EXCEPT !.pool = n, !.yieldBox = k]
           IN  /\ s \in USDOAmounts /\ s.pool = n
               /\ USDOHeld(s) = USDOHeld(u) + n + k - u.pool - u.yieldBox
<1> DEFINE r == [u EXCEPT !.pool = n]
<1>1. r.yieldBox = u.yieldBox
  BY DEF USDOAmounts
<1>2. r \in USDOAmounts /\ r.pool = n /\ USDOHeld(r) = USDOHeld(u) + n - u.pool
  BY USDOMoves, Zenon
<1> HIDE DEF r
<1> DEFINE s == [r EXCEPT !.yieldBox = k]
<1>3. s \in USDOAmounts /\ s.pool = r.pool /\ USDOHeld(s) = USDOHeld(r) + k - r.yieldBox
  BY <1>2 DEF USDOAmounts, USDOHeld
<1>4. s = [u EXCEPT !.pool = n, !.yieldBox = k]
  BY <1>1, Zenon DEF r
<1> HIDE DEF s
<1>5. USDOHeld(s) = USDOHeld(u) + n + k - u.pool - u.yieldBox
  BY USDONumbers, <1>1, <1>2, <1>3
<1> QED
  BY <1>2, <1>3, <1>4, <1>5, Zenon

LEMMA SpendsOne ==
    ASSUME NEW u \in USDOAmounts
    PROVE  LET s == [u EXCEPT !.from = @ - 1]
           IN  /\ s \in USDOAmounts /\ s.pool = u.pool
               /\ USDOHeld(s) = USDOHeld(u) - 1 /\ USDOHeld(u) \in Int
<1> DEFINE n == u.from - 1
           s == [u EXCEPT !.from = n]
<1>1. USDOHeld(u) \in Int /\ u.from \in Int /\ n \in Int
  BY USDONumbers
<1> HIDE DEF n
<1>2. s \in USDOAmounts /\ s.pool = u.pool /\ USDOHeld(s) = USDOHeld(u) + n - u.from
  BY <1>1, USDOMoves, Zenon
<1> HIDE DEF s
<1>3. USDOHeld(s) = USDOHeld(u) - 1
  BY <1>1, <1>2 DEF n
<1> QED
  BY <1>1, <1>2, <1>3, Zenon DEF s, n

LEMMA MessageIsMessage ==
    ASSUME NEW op \in Operations, NEW n \in Nat, NEW permits
    PROVE  /\ IsMessage(X!Message(op, n, permits))
           /\ X!Message(op, n, permits).op = op
           /\ X!Message(op, n, permits).borrow = n
  BY DEF IsMessage, X!Message

LEMMA SendTOFTKeeps ==
    ASSUME CommandsInv, NEW m, IsMessage(m), m.op \in TOFTs, X!SendTOFT(m)
    PROVE  CommandsInv'
<1>1. /\ toft' = [toft EXCEPT !.from = @ - 1]
      /\ path' = [path EXCEPT ![X!PathOf(m.op)] = Append(@, m)]
      /\ UNCHANGED <<usdoHeld, wrapped, minted, market>>
  BY Zenon DEF X!SendTOFT, X!Post
<1>2. ArePaths(path) /\ m.op \notin USDOs /\ m.op # "withdraw"
  BY DEF CommandsInv, TOFTs, USDOs
<1>3. /\ ArePaths(path')
      /\ Flying(path', TOFTs) = Flying(path, TOFTs) + 1
      /\ Flying(path', USDOs) = Flying(path, USDOs)
      /\ Back(path') = Back(path)
  <2>1. /\ ArePaths(path')
        /\ \A ops \in {TOFTs, USDOs} :
              Flying(path', ops) = Flying(path, ops) + IF m.op \in ops THEN 1 ELSE 0
        /\ Back(path') = Back(path) + IF m.op = "withdraw" THEN m.borrow ELSE 0
    BY <1>1, <1>2, PostedIsUnderWay, Zenon
  <2>2. Flying(path, USDOs) \in Nat /\ Back(path) \in Nat
    BY <1>2, CountsAreNumbers
  <2> QED
    BY <1>2, <2>1, <2>2
<1>4. toft' \in TOFTAmounts /\ TOFTHeld(toft') = TOFTHeld(toft) - 1
  BY <1>1, TOFTMoves, Zenon DEF CommandsInv, TokensOK
<1>5. TokensOK(toft, usdoHeld, wrapped, minted, market)'
  BY <1>1, <1>4 DEF CommandsInv, TokensOK
<1>6. AddsUp(toft, usdoHeld, wrapped, minted, market, path)'
  <2>1. Flying(path, TOFTs) \in Nat /\ TOFTHeld(toft) \in Int
    BY <1>2, CountsAreNumbers, TOFTMoves DEF CommandsInv, TokensOK
  <2> QED
    BY <1>1, <1>3, <1>4, <2>1 DEF CommandsInv, AddsUp
<1> QED
  BY <1>3, <1>5, <1>6 DEF CommandsInv

LEMMA SendUSDOKeeps ==
    ASSUME CommandsInv, NEW m, IsMessage(m), m.op \in USDOs, X!SendUSDO(m), UNCHANGED minted
    PROVE  CommandsInv'
<1>1. /\ usdoHeld' = [usdoHeld EXCEPT !.from = @ - 1]
      /\ path' = [path EXCEPT ![X!PathOf(m.op)] = Append(@, m)]
      /\ UNCHANGED <<toft, wrapped, minted, market>>
  BY Zenon DEF X!SendUSDO, X!Post
<1>2. ArePaths(path) /\ m.op \notin TOFTs /\ m.op # "withdraw"
  BY DEF CommandsInv, TOFTs, USDOs
<1>3. /\ ArePaths(path')
      /\ Flying(path', TOFTs) = Flying(path, TOFTs)
      /\ Flying(path', USDOs) = Flying(path, USDOs) + 1
      /\ Back(path') = Back(path)
  <2>1. /\ ArePaths(path')
        /\ \A ops \in {TOFTs, USDOs} :
              Flying(path', ops) = Flying(path, ops) + IF m.op \in ops THEN 1 ELSE 0
        /\ Back(path') = Back(path) + IF m.op = "withdraw" THEN m.borrow ELSE 0
    BY <1>1, <1>2, PostedIsUnderWay, Zenon
  <2>2. Flying(path, TOFTs) \in Nat /\ Back(path) \in Nat
    BY <1>2, CountsAreNumbers
  <2> QED
    BY <1>2, <2>1, <2>2
<1>4. /\ usdoHeld' \in USDOAmounts /\ usdoHeld'.pool = usdoHeld.pool
      /\ USDOHeld(usdoHeld') = USDOHeld(usdoHeld) - 1 /\ USDOHeld(usdoHeld) \in Int
  BY <1>1, SpendsOne DEF CommandsInv, TokensOK
<1>5. TokensOK(toft, usdoHeld, wrapped, minted, market)'
  BY <1>1, <1>4 DEF CommandsInv, TokensOK
<1>6. AddsUp(toft, usdoHeld, wrapped, minted, market, path)'
  <2>1. Flying(path, USDOs) \in Nat /\ Back(path) \in Nat /\ InitialPool \in Nat
    BY <1>2, CountsAreNumbers, AmountsAssumption
  <2> QED
    BY <1>1, <1>3, <1>4, <2>1 DEF CommandsInv, AddsUp
<1> QED
  BY <1>3, <1>5, <1>6 DEF CommandsInv

(* The steps that send the TOFT, and those that send USDO.                 *)
LEMMA TOFTCommandsKeep ==
    ASSUME CommandsInv, NEW c, X!SendToYBAndBorrow(c) \/ X!SendToYB(c) \/ X!SendTOFTFrom(c)
    PROVE  CommandsInv'
<1>1. {"borrow", "deposit", "toft"} \subseteq Operations \cap TOFTs /\ 0 \in Nat
  BY DEF Operations, TOFTs
<1>2. CASE X!SendToYBAndBorrow(c)
  <2>1. PICK n \in BorrowAmounts : X!SendTOFT(X!Message("borrow", n, c.permits))
    BY <1>2, Zenon DEF X!SendToYBAndBorrow
  <2>2. n \in Nat
    BY AmountsAssumption
  <2> QED
    BY <1>1, <2>1, <2>2, MessageIsMessage, SendTOFTKeeps
<1>3. CASE X!SendToYB(c)
  <2>1. X!SendTOFT(X!Message("deposit", 0, <<>>))
    BY <1>3, Zenon DEF X!SendToYB
  <2> QED
    BY <1>1, <2>1, MessageIsMessage, SendTOFTKeeps
<1>4. CASE X!SendTOFTFrom(c)
  <2>1. X!SendTOFT(X!Message("toft", 0, <<>>))
    BY <1>4, Zenon DEF X!SendTOFTFrom
  <2> QED
    BY <1>1, <2>1, MessageIsMessage, SendTOFTKeeps
<1> QED
  BY <1>2, <1>3, <1>4

(* A borrow through the proxy carries no token.                            *)
LEMMA ExecuteOnChainKeeps ==
    ASSUME CommandsInv, NEW c, X!ExecuteOnChain(c)
    PROVE  CommandsInv'
<1>1. PICK op \in {"execute", "executeAndWithdraw"}, n \in BorrowAmounts :
          X!Post(X!Message(op, n, <<>>))
  BY Zenon DEF X!ExecuteOnChain
<1> DEFINE m == X!Message(op, n, <<>>)
<1>2. /\ IsMessage(m) /\ m.op = op
      /\ m.op \notin TOFTs /\ m.op \notin USDOs /\ m.op # "withdraw"
  <2>1. op \in Operations /\ n \in Nat
    BY AmountsAssumption DEF Operations
  <2>2. op \notin TOFTs /\ op \notin USDOs /\ op # "withdraw"
    BY DEF TOFTs, USDOs
  <2>3. IsMessage(m) /\ m.op = op
    BY <2>1 DEF IsMessage, X!Message
  <2> HIDE DEF m
  <2> QED
    BY <2>2, <2>3, Zenon
<1> HIDE DEF m
<1>3. UNCHANGED <<toft, usdoHeld, wrapped, minted, market>>
  BY Zenon DEF X!ExecuteOnChain, X!tokens
<1>4. path' = [path EXCEPT ![X!PathOf(m.op)] = Append(@, m)]
  BY <1>1, Zenon DEF X!Post, m
<1>5. ArePaths(path)
  BY DEF CommandsInv
<1>6. /\ ArePaths(path')
      /\ Flying(path', TOFTs) = Flying(path, TOFTs)
      /\ Flying(path', USDOs) = Flying(path, USDOs)
      /\ Back(path') = Back(path)
  <2>1. /\ ArePaths(path')
        /\ \A ops \in {TOFTs, USDOs} :
              Flying(path', ops) = Flying(path, ops) + IF m.op \in ops THEN 1 ELSE 0
        /\ Back(path') = Back(path) + IF m.op = "withdraw" THEN m.borrow ELSE 0
    BY <1>2, <1>4, <1>5, PostedIsUnderWay, Zenon
  <2>2. Flying(path, TOFTs) \in Nat /\ Flying(path, USDOs) \in Nat /\ Back(path) \in Nat
    BY <1>5, CountsAreNumbers
  <2> QED
    BY <1>2, <2>1, <2>2
<1> QED
  BY <1>3, <1>6 DEF CommandsInv, AddsUp

(* Tokens are wrapped, and minted, into the wallet of the user; what has   *)
(* arrived is deposited.                                                   *)
LEMMA WalletStepsKeep ==
    ASSUME CommandsInv, NEW c, X!Wrap(c) \/ X!FillMockSwapper(c) \/ X!MintForAirdrop(c)
    PROVE  CommandsInv'
<1>1. /\ Flying(path, TOFTs) \in Nat /\ Flying(path, USDOs) \in Nat /\ Back(path) \in Nat
      /\ InitialPool \in Nat /\ Recursive \in Nat
  BY CountsAreNumbers, AmountsAssumption DEF CommandsInv
<1>2. /\ toft \in TOFTAmounts /\ usdoHeld \in USDOAmounts /\ minted \in Int /\ wrapped \in Int
      /\ TOFTHeld(toft) \in Int /\ USDOHeld(usdoHeld) \in Int
  BY TOFTMoves, USDONumbers DEF CommandsInv, TokensOK
<1>3. CASE X!Wrap(c)
  <2>1. /\ wrapped' = wrapped + 1
        /\ toft' = [toft EXCEPT !.from = @ + 1]
        /\ UNCHANGED <<usdoHeld, minted, market, path>>
    BY <1>3, Zenon DEF X!Wrap, X!network
  <2>2. toft' \in TOFTAmounts /\ TOFTHeld(toft') = TOFTHeld(toft) + 1
    BY <1>2, <2>1, TOFTMoves, Zenon
  <2>3. TokensOK(toft, usdoHeld, wrapped, minted, market)'
    BY <2>1, <2>2 DEF CommandsInv, TokensOK
  <2>4. AddsUp(toft, usdoHeld, wrapped, minted, market, path)'
    BY <1>1, <1>2, <2>1, <2>2 DEF CommandsInv, AddsUp
  <2> QED
    BY <2>1, <2>3, <2>4 DEF CommandsInv
<1>4. CASE X!FillMockSwapper(c)
  <2>1. /\ \/ toft' = [toft EXCEPT !.to = @ - 1, !.swapper = @ + 1]
           \/ UNCHANGED toft
        /\ UNCHANGED <<usdoHeld, wrapped, minted, market, path>>
    BY <1>4, Zenon DEF X!FillMockSwapper, X!network
  <2>2. toft' \in TOFTAmounts /\ TOFTHeld(toft') = TOFTHeld(toft)
    <3>1. CASE toft' = [toft EXCEPT !.to = @ - 1, !.swapper = @ + 1]
      BY <1>2, <3>1, TOFTMoves, Zenon
    <3>2. CASE UNCHANGED toft
      BY <1>2, <3>2
    <3> QED
      BY <2>1, <3>1, <3>2
  <2>3. TokensOK(toft, usdoHeld, wrapped, minted, market)'
    BY <2>1, <2>2 DEF CommandsInv, TokensOK
  <2>4. AddsUp(toft, usdoHeld, wrapped, minted, market, path)'
    BY <2>1, <2>2 DEF CommandsInv, AddsUp
  <2> QED
    BY <2>1, <2>3, <2>4 DEF CommandsInv
<1>5. CASE X!MintForAirdrop(c)
  <2>1. /\ \/ /\ usdoHeld.from = 0
              /\ minted' = minted + Recursive
              /\ usdoHeld' = [usdoHeld EXCEPT !.from = Recursive]
           \/ UNCHANGED <<minted, usdoHeld>>
        /\ UNCHANGED <<toft, wrapped, market, path>>
    BY <1>5, Zenon DEF X!MintForAirdrop, X!network
  <2>2. CASE UNCHANGED <<minted, usdoHeld>>
    BY <2>1, <2>2, MovesNothing DEF X!tokens
  <2>3. CASE /\ usdoHeld.from = 0
             /\ minted' = minted + Recursive
             /\ usdoHeld' = [usdoHeld EXCEPT !.from = Recursive]
    <3>1. /\ usdoHeld' \in USDOAmounts /\ usdoHeld'.pool = usdoHeld.pool
          /\ USDOHeld(usdoHeld') = USDOHeld(usdoHeld) + Recursive - usdoHeld.from
      <4>1. Recursive \in Int
        BY <1>1
      <4> QED
        BY <1>2, <2>3, <4>1, USDOMoves, Zenon
    <3>2. USDOHeld(usdoHeld') = USDOHeld(usdoHeld) + Recursive
      BY <1>1, <1>2, <2>3, <3>1
    <3>3. TokensOK(toft, usdoHeld, wrapped, minted, market)'
      BY <1>1, <1>2, <2>1, <2>3, <3>1 DEF CommandsInv, TokensOK
    <3>4. AddsUp(toft, usdoHeld, wrapped, minted, market, path)'
      <4>1. minted + InitialPool = USDOHeld(usdoHeld) + Flying(path, USDOs) + Back(path)
        BY DEF CommandsInv, AddsUp
      <4>2. minted' + InitialPool = USDOHeld(usdoHeld') + Flying(path, USDOs) + Back(path)
        <5>1. minted' = minted + Recursive
          BY <2>3
        <5>2. Recursive \in Nat /\ InitialPool \in Nat /\ Flying(path, USDOs) \in Nat
              /\ Back(path) \in Nat /\ minted \in Int /\ USDOHeld(usdoHeld) \in Int
          BY <1>1, <1>2
        <5> QED
          BY <3>2, <4>1, <5>1, <5>2
      <4>3. /\ wrapped' = TOFTHeld(toft') + Flying(path', TOFTs)
            /\ minted' + InitialPool = USDOHeld(usdoHeld') + Flying(path', USDOs) + Back(path')
            /\ usdoHeld'.pool + market'.debt = market'.lent
        BY <2>1, <3>1, <4>2 DEF CommandsInv, AddsUp
      <4> QED
        BY <4>3, Zenon DEF AddsUp
    <3> QED
      BY <2>1, <3>3, <3>4 DEF CommandsInv
  <2> QED
    BY <2>1, <2>2, <2>3
<1> QED
  BY <1>3, <1>4, <1>5

(* The steps that send USDO.                                               *)
LEMMA PostIsUnderWay ==
    ASSUME CommandsInv, NEW m, IsMessage(m), X!Post(m)
    PROVE  /\ ArePaths(path')
           /\ \A ops \in {TOFTs, USDOs} :
                 Flying(path', ops) = Flying(path, ops) + IF m.op \in ops THEN 1 ELSE 0
           /\ Back(path') = Back(path) + IF m.op = "withdraw" THEN m.borrow ELSE 0
  BY PostedIsUnderWay, Zenon DEF CommandsInv, X!Post

LEMMA SendToYBAndLendKeeps ==
    ASSUME CommandsInv, NEW c, X!SendToYBAndLend(c)
    PROVE  CommandsInv'
<1> DEFINE m == X!Message("lend", 0, c.permits)
           n == IF usdoHeld.from > 0 THEN usdoHeld.from - 1 ELSE usdoHeld.from
           k == IF usdoHeld.from > 0 THEN minted ELSE minted + 1
<1>1. /\ usdoHeld' = [usdoHeld EXCEPT !.from = n]
      /\ minted' = k
      /\ X!Post(m)
      /\ UNCHANGED <<toft, wrapped, market>>
  BY Zenon DEF X!SendToYBAndLend
<1>2. IsMessage(m) /\ m.op = "lend"
  BY DEF IsMessage, X!Message, Operations
<1> HIDE DEF m
<1>3. /\ ArePaths(path')
      /\ Flying(path', TOFTs) = Flying(path, TOFTs)
      /\ Flying(path', USDOs) = Flying(path, USDOs) + 1
      /\ Back(path') = Back(path)
  <2>1. /\ ArePaths(path')
        /\ \A ops \in {TOFTs, USDOs} :
              Flying(path', ops) = Flying(path, ops) + IF m.op \in ops THEN 1 ELSE 0
        /\ Back(path') = Back(path) + IF m.op = "withdraw" THEN m.borrow ELSE 0
    BY <1>1, <1>2, PostIsUnderWay, Zenon
  <2>2. Flying(path, TOFTs) \in Nat /\ Back(path) \in Nat
    BY CountsAreNumbers DEF CommandsInv
  <2>3. m.op \notin TOFTs /\ m.op \in USDOs /\ m.op # "withdraw"
    BY <1>2 DEF TOFTs, USDOs
  <2> QED
    BY <2>1, <2>2, <2>3
<1>4. /\ USDOHeld(usdoHeld) \in Int /\ usdoHeld.from \in Int /\ minted \in Int
      /\ n \in Int /\ k \in Int /\ k - minted = n - usdoHeld.from + 1
      /\ Flying(path, USDOs) \in Nat /\ Back(path) \in Nat /\ InitialPool \in Nat
  BY USDONumbers, CountsAreNumbers, AmountsAssumption DEF CommandsInv, TokensOK
<1> HIDE DEF n, k
<1>5. /\ usdoHeld' \in USDOAmounts /\ usdoHeld'.pool = usdoHeld.pool
      /\ USDOHeld(usdoHeld') = USDOHeld(usdoHeld) + n - usdoHeld.from
  <2>1. usdoHeld \in USDOAmounts
    BY DEF CommandsInv, TokensOK
  <2> QED
    BY <1>1, <1>4, <2>1, USDOMoves, Zenon
<1>6. TokensOK(toft, usdoHeld, wrapped, minted, market)'
  BY <1>1, <1>4, <1>5 DEF CommandsInv, TokensOK
<1>7. AddsUp(toft, usdoHeld, wrapped, minted, market, path)'
  <2>1. minted + InitialPool = USDOHeld(usdoHeld) + Flying(path, USDOs) + Back(path)
    BY DEF CommandsInv, AddsUp
  <2>2. minted' + InitialPool = USDOHeld(usdoHeld') + Flying(path', USDOs) + Back(path')
    BY <1>1, <1>3, <1>4, <1>5, <2>1
  <2>3. /\ wrapped' = TOFTHeld(toft') + Flying(path', TOFTs)
        /\ usdoHeld'.pool + market'.debt = market'.lent
    BY <1>1, <1>3, <1>5 DEF CommandsInv, AddsUp
  <2> QED
    BY <2>2, <2>3, Zenon DEF AddsUp
<1> QED
  BY <1>3, <1>6, <1>7 DEF CommandsInv

LEMMA RepayAndAirdropKeep ==
    ASSUME CommandsInv, NEW c, X!SendAndLendOrRepay(c) \/ X!Airdrop(c)
    PROVE  CommandsInv'
<1>1. {"repay", "usdo"} \subseteq Operations \cap USDOs /\ 0 \in Nat
  BY DEF Operations, USDOs
<1>2. PICK op \in {"repay", "usdo"} : X!SendUSDO(X!Message(op, 0, <<>>)) /\ UNCHANGED minted
  BY Zenon DEF X!SendAndLendOrRepay, X!Airdrop
<1> QED
  BY <1>1, <1>2, MessageIsMessage, SendUSDOKeeps

(* From the other chain the USDO comes back.                               *)
LEMMA SendFromKeeps ==
    ASSUME CommandsInv, NEW c, X!SendFrom(c)
    PROVE  CommandsInv'
<1>1. CASE X!SendUSDO(X!Message("usdo", 0, <<>>)) /\ UNCHANGED minted
  <2>1. "usdo" \in Operations \cap USDOs /\ 0 \in Nat
    BY DEF Operations, USDOs
  <2> QED
    BY <1>1, <2>1, MessageIsMessage, SendUSDOKeeps
<1> DEFINE m == X!Message("withdraw", 1, <<>>)
           n == usdoHeld.to - 1
<1>2. CASE /\ usdoHeld' = [usdoHeld EXCEPT !.to = n]
           /\ X!Post(m)
           /\ UNCHANGED <<toft, wrapped, minted, market>>
  <2>1. IsMessage(m) /\ m.op = "withdraw" /\ m.borrow = 1
    BY DEF IsMessage, X!Message, Operations
  <2> HIDE DEF m
  <2>2. /\ ArePaths(path')
        /\ Flying(path', TOFTs) = Flying(path, TOFTs)
        /\ Flying(path', USDOs) = Flying(path, USDOs)
        /\ Back(path') = Back(path) + 1
    <3>1. /\ ArePaths(path')
          /\ \A ops \in {TOFTs, USDOs} :
                Flying(path', ops) = Flying(path, ops) + IF m.op \in ops THEN 1 ELSE 0
          /\ Back(path') = Back(path) + IF m.op = "withdraw" THEN m.borrow ELSE 0
      BY <1>2, <2>1, PostIsUnderWay, Zenon
    <3>2. Flying(path, TOFTs) \in Nat /\ Flying(path, USDOs) \in Nat
      BY CountsAreNumbers DEF CommandsInv
    <3>3. m.op \notin TOFTs /\ m.op \notin USDOs
      BY <2>1 DEF TOFTs, USDOs
    <3> QED
      BY <2>1, <3>1, <3>2, <3>3
  <2>3. /\ USDOHeld(usdoHeld) \in Int /\ usdoHeld.to \in Int /\ n \in Int
        /\ Flying(path, USDOs) \in Nat /\ Back(path) \in Nat
    BY USDONumbers, CountsAreNumbers DEF CommandsInv, TokensOK
  <2>4. /\ usdoHeld' \in USDOAmounts /\ usdoHeld'.pool = usdoHeld.pool
        /\ USDOHeld(usdoHeld') = USDOHeld(usdoHeld) - 1
    <3>1. usdoHeld \in USDOAmounts
      BY DEF CommandsInv, TokensOK
    <3> HIDE DEF n
    <3>2. /\ usdoHeld' \in USDOAmounts /\ usdoHeld'.pool = usdoHeld.pool
          /\ USDOHeld(usdoHeld') = USDOHeld(usdoHeld) + n - usdoHeld.to
      BY <1>2, <2>3, <3>1, USDOMoves, Zenon
    <3> QED
      BY <2>3, <3>2 DEF n
  <2>5. TokensOK(toft, usdoHeld, wrapped, minted, market)'
    BY <1>2, <2>4 DEF CommandsInv, TokensOK
  <2>6. AddsUp(toft, usdoHeld, wrapped, minted, market, path)'
    <3>1. minted + InitialPool = USDOHeld(usdoHeld) + Flying(path, USDOs) + Back(path)
      BY DEF CommandsInv, AddsUp
    <3>2. minted' + InitialPool = USDOHeld(usdoHeld') + Flying(path', USDOs) + Back(path')
      BY <1>2, <2>2, <2>3, <2>4, <3>1
    <3>3. /\ wrapped' = TOFTHeld(toft') + Flying(path', TOFTs)
          /\ usdoHeld'.pool + market'.debt = market'.lent
      BY <1>2, <2>2, <2>4 DEF CommandsInv, AddsUp
    <3> QED
      BY <3>2, <3>3, Zenon DEF AddsUp
  <2> QED
    BY <2>2, <2>5, <2>6 DEF CommandsInv
<1> QED
  BY <1>1, <1>2, Zenon DEF X!SendFrom

-----------------------------------------------------------------------------
(* What the arrival of a message does.  It is no longer under way, and one *)
(* that pays out what is borrowed sends it back.                           *)
LEMMA ReceivedIsNoLongerUnderWay ==
    ASSUME CommandsInv, NEW p \in X!Paths, path[p] # <<>>, X!Receive(p)
    PROVE  LET m == Head(path[p]) IN
           /\ Carries(p, m)
           /\ ArePaths(path')
           /\ \A ops \in {TOFTs, USDOs} :
                 Flying(path', ops) = Flying(path, ops) - IF m.op \in ops THEN 1 ELSE 0
           /\ Back(path') = Back(path) - (IF m.op = "withdraw" THEN m.borrow ELSE 0)
                                       + (IF X!Withdraws(m) THEN m.borrow ELSE 0)
<1> DEFINE m == Head(path[p])
           rest == [path EXCEPT ![p] = Tail(@)]
           w == X!Message("withdraw", m.borrow, <<>>)
<1>1. path' = IF X!Withdraws(m) THEN [rest EXCEPT !.back = Append(@, w)] ELSE rest
  BY Zenon DEF X!Receive
<1>2. ArePaths(path)
  BY DEF CommandsInv
<1>3. /\ Carries(p, m)
      /\ ArePaths(rest)
      /\ \A ops \in {TOFTs, USDOs} :
            Flying(rest, ops) = Flying(path, ops) - IF m.op \in ops THEN 1 ELSE 0
      /\ Back(rest) = Back(path) - IF m.op = "withdraw" THEN m.borrow ELSE 0
  BY <1>2, TakenIsNoLongerUnderWay, Zenon
<1>4. /\ Flying(rest, TOFTs) \in Nat /\ Flying(rest, USDOs) \in Nat /\ Back(rest) \in Nat
      /\ Back(path) \in Nat
  BY <1>2, <1>3, CountsAreNumbers
<1>5. m.borrow \in Nat
  BY <1>3 DEF Carries, IsMessage
<1> HIDE DEF rest, m
<1>6. /\ Carries(p, m)
      /\ ArePaths(path')
      /\ \A ops \in {TOFTs, USDOs} :
            Flying(path', ops) = Flying(path, ops) - IF m.op \in ops THEN 1 ELSE 0
      /\ Back(path') = Back(path) - (IF m.op = "withdraw" THEN m.borrow ELSE 0)
                                  + (IF X!Withdraws(m) THEN m.borrow ELSE 0)
  <2>1. CASE ~X!Withdraws(m)
    <3>1. path' = rest
      BY <1>1, <2>1, Zenon
    <3> QED
      BY <1>3, <1>4, <1>5, <2>1, <3>1
  <2>2. CASE X!Withdraws(m)
    <3>1. IsMessage(w) /\ w.op = "withdraw" /\ w.borrow = m.borrow
      BY <1>5 DEF IsMessage, X!Message, Operations
    <3>2. X!PathOf("withdraw") = "back"
      BY PathOfIsPath DEF Operations
    <3> HIDE DEF w
    <3>3. path' = [rest EXCEPT ![X!PathOf(w.op)] = Append(@, w)]
      BY <1>1, <2>2, <3>1, <3>2
    <3>4. /\ ArePaths(path')
          /\ \A ops \in {TOFTs, USDOs} :
                Flying(path', ops) = Flying(rest, ops) + IF w.op \in ops THEN 1 ELSE 0
          /\ Back(path') = Back(rest) + IF w.op = "withdraw" THEN w.borrow ELSE 0
      BY <1>3, <3>1, <3>3, PostedIsUnderWay, Zenon
    <3>5. w.op \notin TOFTs /\ w.op \notin USDOs
      BY <3>1 DEF TOFTs, USDOs
    <3>6. /\ Flying(path', TOFTs) = Flying(rest, TOFTs)
          /\ Flying(path', USDOs) = Flying(rest, USDOs)
          /\ Back(path') = Back(rest) + m.borrow
      BY <1>4, <3>1, <3>4, <3>5
    <3>7. \A ops \in {TOFTs, USDOs} : Flying(path', ops) = Flying(rest, ops)
      BY <3>6, Zenon
    <3>8. Back(path') = Back(path) - (IF m.op = "withdraw" THEN m.borrow ELSE 0)
                                   + (IF X!Withdraws(m) THEN m.borrow ELSE 0)
      BY <1>3, <1>4, <1>5, <2>2, <3>6
    <3> QED
      BY <1>3, <3>4, <3>7, <3>8
  <2> QED
    BY <2>1, <2>2
<1> QED
  BY <1>6, Zenon DEF m

(* The tokens then add up, if what arrives was counted with the messages.  *)
LEMMA ArrivalAddsUp ==
    ASSUME CommandsInv, NEW f \in Int, NEW g \in Int, NEW b \in Int,
           ArePaths(path'),
           Flying(path', TOFTs) = Flying(path, TOFTs) - f,
           Flying(path', USDOs) = Flying(path, USDOs) - g,
           Back(path') = Back(path) + b,
           UNCHANGED <<wrapped, minted>>,
           toft' \in TOFTAmounts, TOFTHeld(toft') = TOFTHeld(toft) + f,
           usdoHeld' \in USDOAmounts, USDOHeld(usdoHeld') = USDOHeld(usdoHeld) + g - b,
           IsMarket(market'), market'.debt \in Int, market'.lent \in Int,
           usdoHeld'.pool + market'.debt = market'.lent
    PROVE  CommandsInv'
<1>1. /\ TOFTHeld(toft) \in Int /\ USDOHeld(usdoHeld) \in Int
      /\ Flying(path, TOFTs) \in Nat /\ Flying(path, USDOs) \in Nat /\ Back(path) \in Nat
  BY TOFTMoves, USDONumbers, CountsAreNumbers DEF CommandsInv, TokensOK
<1>2. TokensOK(toft, usdoHeld, wrapped, minted, market)'
  BY DEF CommandsInv, TokensOK
<1>3. wrapped = TOFTHeld(toft) + Flying(path, TOFTs)
      /\ minted + InitialPool = USDOHeld(usdoHeld) + Flying(path, USDOs) + Back(path)
  BY DEF CommandsInv, AddsUp
<1>4. /\ wrapped' = TOFTHeld(toft') + Flying(path', TOFTs)
      /\ minted' + InitialPool = USDOHeld(usdoHeld') + Flying(path', USDOs) + Back(path')
  BY <1>1, <1>3
<1>5. AddsUp(toft, usdoHeld, wrapped, minted, market, path)'
  BY <1>4, Zenon DEF AddsUp
<1> QED
  BY <1>2, <1>5 DEF CommandsInv

TOFTsIn(m) == IF m.op \in TOFTs THEN 1 ELSE 0
USDOsIn(m) == IF m.op \in USDOs THEN 1 ELSE 0
SentBack(m) ==
    (IF X!Withdraws(m) THEN m.borrow ELSE 0) - (IF m.op = "withdraw" THEN m.borrow ELSE 0)

LEMMA ArrivalMoves ==
    ASSUME CommandsInv, NEW m, IsMessage(m)
    PROVE  LET t == X!Arrived(m)[1]
               u == X!Arrived(m)[2]
               d == X!Arrived(m)[3]
           IN
           /\ t \in TOFTAmounts /\ TOFTHeld(t) = TOFTHeld(toft) + TOFTsIn(m)
           /\ u \in USDOAmounts
           /\ USDOHeld(u) = USDOHeld(usdoHeld) + USDOsIn(m) - SentBack(m)
           /\ \E x, y, z : /\ x \in Int /\ y \in Int /\ u.pool + x = y
                          /\ d = [debt |-> x, lent |-> y, nonce |-> z]
<1> DEFINE n == m.borrow
           r == X!Least(1, market.debt)
           k == market.nonce + Len(m.permits)
           next == [market EXCEPT !.nonce = k]
           t == X!Arrived(m)[1]
           u == X!Arrived(m)[2]
           d == X!Arrived(m)[3]
           result ==
              /\ t \in TOFTAmounts /\ TOFTHeld(t) = TOFTHeld(toft) + TOFTsIn(m)
              /\ u \in USDOAmounts
              /\ USDOHeld(u) = USDOHeld(usdoHeld) + USDOsIn(m) - SentBack(m)
              /\ \E x, y, z : /\ x \in Int /\ y \in Int /\ u.pool + x = y
                             /\ d = [debt |-> x, lent |-> y, nonce |-> z]
<1>1. toft \in TOFTAmounts /\ usdoHeld \in USDOAmounts
  BY DEF CommandsInv, TokensOK
<1>2. IsMarket(market)
  BY DEF CommandsInv, TokensOK
<1>3. /\ market.debt \in Int /\ market.lent \in Int
      /\ usdoHeld.pool + market.debt = market.lent
  BY DEF CommandsInv, TokensOK, AddsUp
<1>4. /\ TOFTHeld(toft) \in Int /\ USDOHeld(usdoHeld) \in Int
      /\ usdoHeld.from \in Int /\ usdoHeld.to \in Int
      /\ usdoHeld.yieldBox \in Int /\ usdoHeld.pool \in Int
  BY <1>1, USDONumbers, TOFTMoves
<1>5. n \in Nat /\ m.op \in Operations /\ r \in Int
  BY <1>3 DEF IsMessage, X!Least
<1> HIDE DEF n, r, k
<1>6. /\ next = [debt |-> market.debt, lent |-> market.lent, nonce |-> k]
      /\ next.debt = market.debt /\ next.lent = market.lent
      /\ \A x : /\ [next EXCEPT !.debt = x] = [debt |-> x, lent |-> market.lent, nonce |-> k]
                /\ [next EXCEPT !.lent = x] = [debt |-> market.debt, lent |-> x, nonce |-> k]
  <2>1. next = [debt |-> market.debt, lent |-> market.lent, nonce |-> k]
    BY <1>2 DEF IsMarket
  <2>2. next.debt = market.debt /\ next.lent = market.lent
    BY <2>1
  <2> HIDE DEF next
  <2>3. \A x : /\ [next EXCEPT !.debt = x] = [debt |-> x, lent |-> market.lent, nonce |-> k]
              /\ [next EXCEPT !.lent = x] = [debt |-> market.debt, lent |-> x, nonce |-> k]
    BY <2>1
  <2> QED
    BY <2>1, <2>2, <2>3
<1> HIDE DEF next, t, u, d
<1>7. ASSUME m.op = "toft"
      PROVE  result
  <2>1. /\ t = [toft EXCEPT !.to = @ + 1]
        /\ u = usdoHeld
        /\ d = next
    BY <1>6, <1>7, Zenon DEF X!Arrived, next, n, r, k, t, u, d
  <2>2. TOFTsIn(m) = 1 /\ USDOsIn(m) = 0 /\ SentBack(m) = 0
    BY <1>5, <1>7 DEF TOFTsIn, USDOsIn, SentBack, TOFTs, USDOs, X!Withdraws, n
  <2>3. t \in TOFTAmounts /\ TOFTHeld(t) = TOFTHeld(toft) + TOFTsIn(m)
    <3>1. t \in TOFTAmounts /\ TOFTHeld(t) = TOFTHeld(toft) + 1
      BY <1>1, <2>1, TOFTMoves, Zenon
    <3> QED
      BY <1>4, <2>2, <3>1
  <2>4. /\ u \in USDOAmounts /\ u.pool = usdoHeld.pool
        /\ USDOHeld(u) = USDOHeld(usdoHeld) + USDOsIn(m) - SentBack(m)
    BY <1>1, <1>4, <2>1, <2>2
  <2>5. d = [debt |-> market.debt, lent |-> market.lent, nonce |-> k]
    BY <1>6, <2>1, Zenon
  <2>6. market.debt \in Int /\ market.lent \in Int /\ u.pool + market.debt = market.lent
    BY <1>3, <1>4, <1>5, <2>4
  <2> QED
    BY <2>3, <2>4, <2>5, <2>6, Zenon
<1>8. ASSUME m.op = "deposit"
      PROVE  result
  <2>1. /\ t = [toft EXCEPT !.yieldBox = @ + 1]
        /\ u = usdoHeld
        /\ d = next
    BY <1>6, <1>8, Zenon DEF X!Arrived, next, n, r, k, t, u, d
  <2>2. TOFTsIn(m) = 1 /\ USDOsIn(m) = 0 /\ SentBack(m) = 0
    BY <1>5, <1>8 DEF TOFTsIn, USDOsIn, SentBack, TOFTs, USDOs, X!Withdraws, n
  <2>3. t \in TOFTAmounts /\ TOFTHeld(t) = TOFTHeld(toft) + TOFTsIn(m)
    <3>1. t \in TOFTAmounts /\ TOFTHeld(t) = TOFTHeld(toft) + 1
      BY <1>1, <2>1, TOFTMoves, Zenon
    <3> QED
      BY <1>4, <2>2, <3>1
  <2>4. /\ u \in USDOAmounts /\ u.pool = usdoHeld.pool
        /\ USDOHeld(u) = USDOHeld(usdoHeld) + USDOsIn(m) - SentBack(m)
    BY <1>1, <1>4, <2>1, <2>2
  <2>5. d = [debt |-> market.debt, lent |-> market.lent, nonce |-> k]
    BY <1>6, <2>1, Zenon
  <2>6. market.debt \in Int /\ market.lent \in Int /\ u.pool + market.debt = market.lent
    BY <1>3, <1>4, <1>5, <2>4
  <2> QED
    BY <2>3, <2>4, <2>5, <2>6, Zenon
<1>9. ASSUME m.op = "borrow"
      PROVE  result
  <2>1. /\ t = [toft EXCEPT !.collateral = @ + 1]
        /\ u = [usdoHeld EXCEPT !.pool = usdoHeld.pool - n]
        /\ d = [next EXCEPT !.debt = market.debt + n]
    BY <1>6, <1>9, Zenon DEF X!Arrived, next, n, r, k, t, u, d
  <2>2. TOFTsIn(m) = 1 /\ USDOsIn(m) = 0 /\ SentBack(m) = n
    BY <1>5, <1>9 DEF TOFTsIn, USDOsIn, SentBack, TOFTs, USDOs, X!Withdraws, n
  <2>3. t \in TOFTAmounts /\ TOFTHeld(t) = TOFTHeld(toft) + TOFTsIn(m)
    <3>1. t \in TOFTAmounts /\ TOFTHeld(t) = TOFTHeld(toft) + 1
      BY <1>1, <2>1, TOFTMoves, Zenon
    <3> QED
      BY <1>4, <2>2, <3>1
  <2>4. /\ u \in USDOAmounts /\ u.pool = usdoHeld.pool - n
        /\ USDOHeld(u) = USDOHeld(usdoHeld) + USDOsIn(m) - SentBack(m)
    <3> DEFINE x == usdoHeld.pool - n
    <3>1. x \in Int
      BY <1>4, <1>5
    <3> HIDE DEF x
    <3>2. u = [usdoHeld EXCEPT !.pool = x]
      BY <2>1, Zenon DEF x
    <3>3. /\ u \in USDOAmounts /\ u.pool = x
          /\ USDOHeld(u) = USDOHeld(usdoHeld) + x - usdoHeld.pool
      BY <1>1, <3>1, <3>2, USDOMoves, Zenon
    <3> QED
      BY <1>4, <1>5, <2>2, <3>3 DEF x
  <2>5. d = [debt |-> market.debt + n, lent |-> market.lent, nonce |-> k]
    BY <1>6, <2>1, Zenon
  <2>6. market.debt + n \in Int /\ market.lent \in Int /\ u.pool + (market.debt + n) = market.lent
    BY <1>3, <1>4, <1>5, <2>4
  <2> QED
    BY <2>3, <2>4, <2>5, <2>6, Zenon
<1>10. ASSUME m.op = "usdo"
      PROVE  result
  <2>1. /\ t = toft
        /\ u = [usdoHeld EXCEPT !.to = usdoHeld.to + 1]
        /\ d = next
    BY <1>6, <1>10, Zenon DEF X!Arrived, next, n, r, k, t, u, d
  <2>2. TOFTsIn(m) = 0 /\ USDOsIn(m) = 1 /\ SentBack(m) = 0
    BY <1>5, <1>10 DEF TOFTsIn, USDOsIn, SentBack, TOFTs, USDOs, X!Withdraws, n
  <2>3. t \in TOFTAmounts /\ TOFTHeld(t) = TOFTHeld(toft) + TOFTsIn(m)
    BY <1>1, <1>4, <2>1, <2>2
  <2>4. /\ u \in USDOAmounts /\ u.pool = usdoHeld.pool
        /\ USDOHeld(u) = USDOHeld(usdoHeld) + USDOsIn(m) - SentBack(m)
    <3> DEFINE x == usdoHeld.to + 1
    <3>1. x \in Int
      BY <1>4, <1>5
    <3> HIDE DEF x
    <3>2. u = [usdoHeld EXCEPT !.to = x]
      BY <2>1, Zenon DEF x
    <3>3. /\ u \in USDOAmounts /\ u.pool = usdoHeld.pool
          /\ USDOHeld(u) = USDOHeld(usdoHeld) + x - usdoHeld.to
      BY <1>1, <3>1, <3>2, USDOMoves, Zenon
    <3> QED
      BY <1>4, <1>5, <2>2, <3>3 DEF x
  <2>5. d = [debt |-> market.debt, lent |-> market.lent, nonce |-> k]
    BY <1>6, <2>1, Zenon
  <2>6. market.debt \in Int /\ market.lent \in Int /\ u.pool + market.debt = market.lent
    BY <1>3, <1>4, <1>5, <2>4
  <2> QED
    BY <2>3, <2>4, <2>5, <2>6, Zenon
<1>11. ASSUME m.op = "lend"
      PROVE  result
  <2>1. /\ t = toft
        /\ u = [usdoHeld EXCEPT !.pool = usdoHeld.pool + 1]
        /\ d = [next EXCEPT !.lent = market.lent + 1]
    BY <1>6, <1>11, Zenon DEF X!Arrived, next, n, r, k, t, u, d
  <2>2. TOFTsIn(m) = 0 /\ USDOsIn(m) = 1 /\ SentBack(m) = 0
    BY <1>5, <1>11 DEF TOFTsIn, USDOsIn, SentBack, TOFTs, USDOs, X!Withdraws, n
  <2>3. t \in TOFTAmounts /\ TOFTHeld(t) = TOFTHeld(toft) + TOFTsIn(m)
    BY <1>1, <1>4, <2>1, <2>2
  <2>4. /\ u \in USDOAmounts /\ u.pool = usdoHeld.pool + 1
        /\ USDOHeld(u) = USDOHeld(usdoHeld) + USDOsIn(m) - SentBack(m)
    <3> DEFINE x == usdoHeld.pool + 1
    <3>1. x \in Int
      BY <1>4, <1>5
    <3> HIDE DEF x
    <3>2. u = [usdoHeld EXCEPT !.pool = x]
      BY <2>1, Zenon DEF x
    <3>3. /\ u \in USDOAmounts /\ u.pool = x
          /\ USDOHeld(u) = USDOHeld(usdoHeld) + x - usdoHeld.pool
      BY <1>1, <3>1, <3>2, USDOMoves, Zenon
    <3> QED
      BY <1>4, <1>5, <2>2, <3>3 DEF x
  <2>5. d = [debt |-> market.debt, lent |-> market.lent + 1, nonce |-> k]
    BY <1>6, <2>1, Zenon
  <2>6. market.debt \in Int /\ market.lent + 1 \in Int /\ u.pool + market.debt = market.lent + 1
    BY <1>3, <1>4, <1>5, <2>4
  <2> QED
    BY <2>3, <2>4, <2>5, <2>6, Zenon
<1>12. ASSUME m.op = "repay"
      PROVE  result
  <2>1. /\ t = toft
        /\ u = [usdoHeld EXCEPT !.pool = usdoHeld.pool + r, !.yieldBox = usdoHeld.yieldBox + 1 - r]
        /\ d = [next EXCEPT !.debt = market.debt - r]
    BY <1>6, <1>12, Zenon DEF X!Arrived, next, n, r, k, t, u, d
  <2>2. TOFTsIn(m) = 0 /\ USDOsIn(m) = 1 /\ SentBack(m) = 0
    BY <1>5, <1>12 DEF TOFTsIn, USDOsIn, SentBack, TOFTs, USDOs, X!Withdraws, n
  <2>3. t \in TOFTAmounts /\ TOFTHeld(t) = TOFTHeld(toft) + TOFTsIn(m)
    BY <1>1, <1>4, <2>1, <2>2
  <2>4. /\ u \in USDOAmounts /\ u.pool = usdoHeld.pool + r
        /\ USDOHeld(u) = USDOHeld(usdoHeld) + USDOsIn(m) - SentBack(m)
    <3> DEFINE x == usdoHeld.pool + r
             y == usdoHeld.yieldBox + 1 - r
    <3>1. x \in Int /\ y \in Int
      BY <1>4, <1>5
    <3> HIDE DEF x, y
    <3>2. u = [usdoHeld EXCEPT !.pool = x, !.yieldBox = y]
      BY <2>1, Zenon DEF x, y
    <3>3. /\ u \in USDOAmounts /\ u.pool = x
          /\ USDOHeld(u) = USDOHeld(usdoHeld) + x + y - usdoHeld.pool - usdoHeld.yieldBox
      BY <1>1, <3>1, <3>2, USDOMovesTwice, Zenon
    <3> QED
      BY <1>4, <1>5, <2>2, <3>3 DEF x, y
  <2>5. d = [debt |-> market.debt - r, lent |-> market.lent, nonce |-> k]
    BY <1>6, <2>1, Zenon
  <2>6. market.debt - r \in Int /\ market.lent \in Int /\ u.pool + (market.debt - r) = market.lent
    BY <1>3, <1>4, <1>5, <2>4
  <2> QED
    BY <2>3, <2>4, <2>5, <2>6, Zenon
<1>13. ASSUME m.op = "execute"
      PROVE  result
  <2>1. /\ t = [toft EXCEPT !.yieldBox = @ - 1, !.collateral = @ + 1]
        /\ u = [usdoHeld EXCEPT !.pool = usdoHeld.pool - n, !.yieldBox = usdoHeld.yieldBox + n]
        /\ d = [next EXCEPT !.debt = market.debt + n]
    BY <1>6, <1>13, Zenon DEF X!Arrived, next, n, r, k, t, u, d
  <2>2. TOFTsIn(m) = 0 /\ USDOsIn(m) = 0 /\ SentBack(m) = 0
    BY <1>5, <1>13 DEF TOFTsIn, USDOsIn, SentBack, TOFTs, USDOs, X!Withdraws, n
  <2>3. t \in TOFTAmounts /\ TOFTHeld(t) = TOFTHeld(toft) + TOFTsIn(m)
    <3>1. t \in TOFTAmounts /\ TOFTHeld(t) = TOFTHeld(toft)
      BY <1>1, <2>1, TOFTMoves, Zenon
    <3> QED
      BY <1>4, <2>2, <3>1
  <2>4. /\ u \in USDOAmounts /\ u.pool = usdoHeld.pool - n
        /\ USDOHeld(u) = USDOHeld(usdoHeld) + USDOsIn(m) - SentBack(m)
    <3> DEFINE x == usdoHeld.pool - n
             y == usdoHeld.yieldBox + n
    <3>1. x \in Int /\ y \in Int
      BY <1>4, <1>5
    <3> HIDE DEF x, y
    <3>2. u = [usdoHeld EXCEPT !.pool = x, !.yieldBox = y]
      BY <2>1, Zenon DEF x, y
    <3>3. /\ u \in USDOAmounts /\ u.pool = x
          /\ USDOHeld(u) = USDOHeld(usdoHeld) + x + y - usdoHeld.pool - usdoHeld.yieldBox
      BY <1>1, <3>1, <3>2, USDOMovesTwice, Zenon
    <3> QED
      BY <1>4, <1>5, <2>2, <3>3 DEF x, y
  <2>5. d = [debt |-> market.debt + n, lent |-> market.lent, nonce |-> k]
    BY <1>6, <2>1, Zenon
  <2>6. market.debt + n \in Int /\ market.lent \in Int /\ u.pool + (market.debt + n) = market.lent
    BY <1>3, <1>4, <1>5, <2>4
  <2> QED
    BY <2>3, <2>4, <2>5, <2>6, Zenon
<1>14. ASSUME m.op = "executeAndWithdraw"
      PROVE  result
  <2>1. /\ t = [toft EXCEPT !.yieldBox = @ - 1, !.collateral = @ + 1]
        /\ u = [usdoHeld EXCEPT !.pool = usdoHeld.pool - n, !.yieldBox = usdoHeld.yieldBox]
        /\ d = [next EXCEPT !.debt = market.debt + n]
    BY <1>6, <1>14, Zenon DEF X!Arrived, next, n, r, k, t, u, d
  <2>2. TOFTsIn(m) = 0 /\ USDOsIn(m) = 0 /\ SentBack(m) = n
    BY <1>5, <1>14 DEF TOFTsIn, USDOsIn, SentBack, TOFTs, USDOs, X!Withdraws, n
  <2>3. t \in TOFTAmounts /\ TOFTHeld(t) = TOFTHeld(toft) + TOFTsIn(m)
    <3>1. t \in TOFTAmounts /\ TOFTHeld(t) = TOFTHeld(toft)
      BY <1>1, <2>1, TOFTMoves, Zenon
    <3> QED
      BY <1>4, <2>2, <3>1
  <2>4. /\ u \in USDOAmounts /\ u.pool = usdoHeld.pool - n
        /\ USDOHeld(u) = USDOHeld(usdoHeld) + USDOsIn(m) - SentBack(m)
    <3> DEFINE x == usdoHeld.pool - n
             y == usdoHeld.yieldBox
    <3>1. x \in Int /\ y \in Int
      BY <1>4, <1>5
    <3> HIDE DEF x, y
    <3>2. u = [usdoHeld EXCEPT !.pool = x, !.yieldBox = y]
      BY <2>1, Zenon DEF x, y
    <3>3. /\ u \in USDOAmounts /\ u.pool = x
          /\ USDOHeld(u) = USDOHeld(usdoHeld) + x + y - usdoHeld.pool - usdoHeld.yieldBox
      BY <1>1, <3>1, <3>2, USDOMovesTwice, Zenon
    <3> QED
      BY <1>4, <1>5, <2>2, <3>3 DEF x, y
  <2>5. d = [debt |-> market.debt + n, lent |-> market.lent, nonce |-> k]
    BY <1>6, <2>1, Zenon
  <2>6. market.debt + n \in Int /\ market.lent \in Int /\ u.pool + (market.debt + n) = market.lent
    BY <1>3, <1>4, <1>5, <2>4
  <2> QED
    BY <2>3, <2>4, <2>5, <2>6, Zenon
<1>15. ASSUME m.op = "withdraw"
      PROVE  result
  <2>1. /\ t = toft
        /\ u = [usdoHeld EXCEPT !.from = usdoHeld.from + n]
        /\ d = next
    BY <1>6, <1>15, Zenon DEF X!Arrived, next, n, r, k, t, u, d
  <2>2. TOFTsIn(m) = 0 /\ USDOsIn(m) = 0 /\ SentBack(m) = -n
    BY <1>5, <1>15 DEF TOFTsIn, USDOsIn, SentBack, TOFTs, USDOs, X!Withdraws, n
  <2>3. t \in TOFTAmounts /\ TOFTHeld(t) = TOFTHeld(toft) + TOFTsIn(m)
    BY <1>1, <1>4, <2>1, <2>2
  <2>4. /\ u \in USDOAmounts /\ u.pool = usdoHeld.pool
        /\ USDOHeld(u) = USDOHeld(usdoHeld) + USDOsIn(m) - SentBack(m)
    <3> DEFINE x == usdoHeld.from + n
    <3>1. x \in Int
      BY <1>4, <1>5
    <3> HIDE DEF x
    <3>2. u = [usdoHeld EXCEPT !.from = x]
      BY <2>1, Zenon DEF x
    <3>3. /\ u \in USDOAmounts /\ u.pool = usdoHeld.pool
          /\ USDOHeld(u) = USDOHeld(usdoHeld) + x - usdoHeld.from
      BY <1>1, <3>1, <3>2, USDOMoves, Zenon
    <3> QED
      BY <1>4, <1>5, <2>2, <3>3 DEF x
  <2>5. d = [debt |-> market.debt, lent |-> market.lent, nonce |-> k]
    BY <1>6, <2>1, Zenon
  <2>6. market.debt \in Int /\ market.lent \in Int /\ u.pool + market.debt = market.lent
    BY <1>3, <1>4, <1>5, <2>4
  <2> QED
    BY <2>3, <2>4, <2>5, <2>6, Zenon
<1>16. result
  <2> HIDE DEF result
  <2> QED
    BY <1>5, <1>7, <1>8, <1>9, <1>10, <1>11, <1>12, <1>13, <1>14, <1>15 DEF Operations
<1> QED
  BY <1>16, Zenon DEF t, u, d

LEMMA ReceiveKeeps ==
    ASSUME CommandsInv, NEW p \in X!Paths, path[p] # <<>>, X!Receive(p)
    PROVE  CommandsInv'
<1> DEFINE m == Head(path[p])
<1>1. /\ Carries(p, m)
      /\ ArePaths(path')
      /\ \A ops \in {TOFTs, USDOs} :
            Flying(path', ops) = Flying(path, ops) - IF m.op \in ops THEN 1 ELSE 0
      /\ Back(path') = Back(path) - (IF m.op = "withdraw" THEN m.borrow ELSE 0)
                                  + (IF X!Withdraws(m) THEN m.borrow ELSE 0)
  BY ReceivedIsNoLongerUnderWay, Zenon
<1>2. /\ toft' = X!Arrived(m)[1]
      /\ usdoHeld' = X!Arrived(m)[2]
      /\ market' = X!Arrived(m)[3]
      /\ UNCHANGED <<wrapped, minted>>
  BY Zenon DEF X!Receive
<1> HIDE DEF m
<1>3. IsMessage(m)
  BY <1>1 DEF Carries
<1>4. /\ Flying(path', TOFTs) = Flying(path, TOFTs) - TOFTsIn(m)
      /\ Flying(path', USDOs) = Flying(path, USDOs) - USDOsIn(m)
      /\ Back(path') = Back(path) + SentBack(m)
      /\ TOFTsIn(m) \in Int /\ USDOsIn(m) \in Int /\ SentBack(m) \in Int
  <2>1. m.borrow \in Nat /\ Back(path) \in Nat
    BY <1>3, CountsAreNumbers DEF CommandsInv, IsMessage
  <2> QED
    BY <1>1, <2>1 DEF TOFTsIn, USDOsIn, SentBack
<1>5. /\ toft' \in TOFTAmounts /\ TOFTHeld(toft') = TOFTHeld(toft) + TOFTsIn(m)
      /\ usdoHeld' \in USDOAmounts
      /\ USDOHeld(usdoHeld') = USDOHeld(usdoHeld) + USDOsIn(m) - SentBack(m)
      /\ \E x, y, z : /\ x \in Int /\ y \in Int /\ usdoHeld'.pool + x = y
                     /\ market' = [debt |-> x, lent |-> y, nonce |-> z]
  BY <1>2, <1>3, ArrivalMoves, Zenon
<1>6. PICK x, y, z : /\ x \in Int /\ y \in Int /\ usdoHeld'.pool + x = y
                     /\ market' = [debt |-> x, lent |-> y, nonce |-> z]
  BY <1>5, Zenon
<1>7. /\ IsMarket(market') /\ market'.debt \in Int /\ market'.lent \in Int
      /\ usdoHeld'.pool + market'.debt = market'.lent
  BY <1>6 DEF IsMarket
<1> QED
  BY <1>1, <1>2, <1>4, <1>5, <1>7, ArrivalAddsUp, Zenon

-----------------------------------------------------------------------------
(* Each step of the commands.                                              *)
LEMMA CommandStepKeeps ==
    ASSUME CommandsInv, NEW c, X!CommandStep(c)
    PROVE  CommandsInv'
<1>1. CASE X!SignPermitBorrow(c) \/ X!SignPermitLend(c) \/ X!SignLend(c) \/ X!SignRepay(c)
  <2>1. UNCHANGED <<X!tokens, path>>
    BY <1>1, Zenon DEF X!SignPermitBorrow, X!SignPermitLend, X!SignLend, X!SignRepay, X!network
  <2> QED
    BY <2>1, MovesNothing, Zenon
<1>2. CASE X!Wrap(c) \/ X!FillMockSwapper(c) \/ X!MintForAirdrop(c)
  BY <1>2, WalletStepsKeep
<1>3. CASE X!SendToYBAndBorrow(c) \/ X!SendToYB(c) \/ X!SendTOFTFrom(c)
  BY <1>3, TOFTCommandsKeep
<1>4. CASE X!SendToYBAndLend(c)
  BY <1>4, SendToYBAndLendKeeps
<1>5. CASE X!SendAndLendOrRepay(c) \/ X!Airdrop(c)
  BY <1>5, RepayAndAirdropKeep
<1>6. CASE X!ExecuteOnChain(c)
  BY <1>6, ExecuteOnChainKeeps
<1>7. CASE X!SendFrom(c)
  BY <1>7, SendFromKeeps
<1> QED
  BY <1>1, <1>2, <1>3, <1>4, <1>5, <1>6, <1>7, Zenon DEF X!CommandStep

(* What is stored is the oldest message of its path, so that what retries  *)
(* it finds a message.                                                     *)
StoredIsUnderWay ==
    /\ stored = [p \in X!Paths |-> stored[p]]
    /\ \A p \in X!Paths : stored[p] => path[p] # <<>>

LEMMA SendersOnlyAdd ==
    ASSUME X!Setup \/ X!StartCommand \/ \E c : X!CommandStep(c)
    PROVE  UNCHANGED stored /\ (UNCHANGED path \/ \E m : X!Post(m))
<1>1. CASE X!Setup \/ X!StartCommand
  BY <1>1, Zenon DEF X!Setup, X!ConfigurePacketTypes, X!SetProxyAdapterParams,
                     X!SetProxyTrustedRemote, X!FillCluster, X!RegisterYbAssets, X!Prepare,
                     X!StartCommand, X!network
<1>2. ASSUME NEW c, X!CommandStep(c)
      PROVE  UNCHANGED stored /\ (UNCHANGED path \/ \E m : X!Post(m))
  <2>1. CASE \/ X!SignPermitBorrow(c) \/ X!SignPermitLend(c) \/ X!SignLend(c) \/ X!SignRepay(c)
             \/ X!Wrap(c) \/ X!FillMockSwapper(c) \/ X!MintForAirdrop(c)
    BY <2>1, Zenon DEF X!SignPermitBorrow, X!SignPermitLend, X!SignLend, X!SignRepay,
                       X!Wrap, X!FillMockSwapper, X!MintForAirdrop, X!network
  <2>2. CASE \/ X!SendToYBAndBorrow(c) \/ X!SendToYB(c) \/ X!SendTOFTFrom(c)
    BY <2>2, Zenon DEF X!SendToYBAndBorrow, X!SendToYB, X!SendTOFTFrom, X!SendTOFT
  <2>3. CASE \/ X!SendToYBAndLend(c) \/ X!SendAndLendOrRepay(c) \/ X!Airdrop(c)
             \/ X!ExecuteOnChain(c) \/ X!SendFrom(c)
    BY <2>3, Zenon DEF X!SendToYBAndLend, X!SendAndLendOrRepay, X!Airdrop, X!ExecuteOnChain,
                       X!SendFrom, X!SendUSDO
  <2> QED
    BY <1>2, <2>1, <2>2, <2>3, Zenon DEF X!CommandStep
<1> QED
  BY <1>1, <1>2, Zenon

LEMMA AppendIsNotEmpty ==
    ASSUME ArePaths(path), NEW paths, NEW m, NEW q \in X!Paths,
           paths[q] = Append(path[q], m) \/ (paths[q] = path[q] /\ path[q] # <<>>)
    PROVE  paths[q] # <<>>
<1>1. PICK S : path[q] \in Seq(S)
  BY DEF ArePaths
<1>2. Append(path[q], m) # <<>>
  <2>1. path[q] \in Seq(S \cup {m}) /\ m \in S \cup {m}
    <3>1. DOMAIN path[q] = 1..Len(path[q]) /\ \A i \in 1..Len(path[q]) : path[q][i] \in S \cup {m}
      BY <1>1
    <3> QED
      BY <1>1, <3>1, SeqDef
  <2> QED
    BY <2>1
<1> QED
  BY <1>2

LEMMA StoredIsStillUnderWay ==
    ASSUME ArePaths(path), StoredIsUnderWay, X!Next
    PROVE  StoredIsUnderWay'
<1>1. CASE UNCHANGED stored /\ UNCHANGED path
  BY <1>1 DEF StoredIsUnderWay
<1>2. ASSUME NEW m, X!Post(m), UNCHANGED stored
      PROVE  StoredIsUnderWay'
  <2>1. path' = [path EXCEPT ![X!PathOf(m.op)] = Append(@, m)]
    BY <1>2, Zenon DEF X!Post
  <2>2. ASSUME NEW q \in X!Paths, stored[q]
        PROVE  path'[q] # <<>>
    <3>1. path[q] # <<>>
      BY <2>2 DEF StoredIsUnderWay
    <3>2. path'[q] = Append(path[q], m) \/ path'[q] = path[q]
      BY <2>1 DEF ArePaths
    <3> QED
      BY <3>1, <3>2, AppendIsNotEmpty
  <2> QED
    BY <1>2, <2>2 DEF StoredIsUnderWay
<1>3. ASSUME NEW p \in X!Paths, X!StorePayload(p)
      PROVE  StoredIsUnderWay'
  <2>1. path[p] # <<>> /\ stored' = [stored EXCEPT ![p] = TRUE] /\ UNCHANGED path
    BY <1>3, Zenon DEF X!StorePayload
  <2> QED
    BY <2>1 DEF StoredIsUnderWay
<1>4. ASSUME NEW p \in X!Paths, X!Receive(p),
             stored' = [stored EXCEPT ![p] = FALSE] \/ (UNCHANGED stored /\ ~stored[p])
      PROVE  StoredIsUnderWay'
  <2> DEFINE m == Head(path[p])
             rest == [path EXCEPT ![p] = Tail(@)]
             w == X!Message("withdraw", m.borrow, <<>>)
  <2>1. path' = IF X!Withdraws(m) THEN [rest EXCEPT !.back = Append(@, w)] ELSE rest
    BY <1>4, Zenon DEF X!Receive
  <2>2. \A q \in X!Paths \ {p} : rest[q] = path[q]
    BY DEF ArePaths
  <2>3. rest = [q \in X!Paths |-> rest[q]]
    BY DEF ArePaths
  <2> HIDE DEF m, rest, w
  <2>4. ASSUME NEW q \in X!Paths \ {p}, stored[q]
        PROVE  path'[q] # <<>>
    <3>1. path[q] # <<>>
      BY <2>4 DEF StoredIsUnderWay
    <3>2. path'[q] = Append(path[q], w) \/ path'[q] = path[q]
      BY <2>1, <2>2, <2>3
    <3> QED
      BY <3>1, <3>2, AppendIsNotEmpty
  <2> QED
    BY <1>4, <2>4 DEF StoredIsUnderWay
<1>5. CASE X!Setup \/ X!StartCommand \/ \E c : X!CommandStep(c)
  BY <1>1, <1>2, <1>5, SendersOnlyAdd, Zenon
<1>6. CASE \E p \in X!Paths : X!Deliver(p) \/ X!StorePayload(p) \/ X!RetryPayload(p)
  <2>1. PICK p \in X!Paths : X!Deliver(p) \/ X!StorePayload(p) \/ X!RetryPayload(p)
    BY <1>6, Zenon
  <2>2. CASE X!Deliver(p)
    <3>1. X!Receive(p) /\ ~stored[p] /\ UNCHANGED stored
      BY <2>2, Zenon DEF X!Deliver
    <3> QED
      BY <1>4, <3>1
  <2>3. CASE X!StorePayload(p)
    BY <1>3, <2>3
  <2>4. CASE X!RetryPayload(p)
    BY <1>4, <2>4, Zenon DEF X!RetryPayload, X!ClearPayload
  <2> QED
    BY <2>1, <2>2, <2>3, <2>4, Zenon
<1> QED
  BY <1>5, <1>6, Zenon DEF X!Next

LEMMA CommandsInvStays ==
    ASSUME CommandsInv, StoredIsUnderWay, X!Next
    PROVE  CommandsInv'
<1>1. CASE X!Setup
  <2>1. UNCHANGED <<X!tokens, path>>
    BY <1>1, Zenon DEF X!Setup, X!ConfigurePacketTypes, X!SetProxyAdapterParams,
                       X!SetProxyTrustedRemote, X!FillCluster, X!RegisterYbAssets, X!Prepare,
                       X!network
  <2> QED
    BY <2>1, MovesNothing, Zenon
<1>2. CASE X!StartCommand
  <2>1. UNCHANGED <<X!tokens, path>>
    BY <1>2, Zenon DEF X!StartCommand, X!network
  <2> QED
    BY <2>1, MovesNothing, Zenon
<1>3. CASE \E c : X!CommandStep(c)
  BY <1>3, CommandStepKeeps, Zenon
<1>4. CASE \E p \in X!Paths : X!Deliver(p) \/ X!StorePayload(p) \/ X!RetryPayload(p)
  <2>1. PICK p \in X!Paths : X!Deliver(p) \/ X!StorePayload(p) \/ X!RetryPayload(p)
    BY <1>4, Zenon
  <2>2. CASE X!Deliver(p)
    BY <2>2, ReceiveKeeps, Zenon DEF X!Deliver
  <2>3. CASE X!StorePayload(p)
    <3>1. UNCHANGED <<X!tokens, path>>
      BY <2>3, Zenon DEF X!StorePayload
    <3> QED
      BY <3>1, MovesNothing, Zenon
  <2>4. CASE X!RetryPayload(p)
    <3>1. X!Receive(p) /\ stored[p]
      BY <2>4, Zenon DEF X!RetryPayload, X!hasStoredPayload
    <3>2. path[p] # <<>>
      BY <3>1 DEF StoredIsUnderWay
    <3> QED
      BY <3>1, <3>2, ReceiveKeeps, Zenon
  <2> QED
    BY <2>1, <2>2, <2>3, <2>4, Zenon
<1> QED
  BY <1>1, <1>2, <1>3, <1>4, Zenon DEF X!Next

LEMMA CommandsBegin == ASSUME X!Init PROVE CommandsInv
<1>1. /\ toft = [from |-> 0, to |-> 0, yieldBox |-> 0, collateral |-> 0, swapper |-> 0]
      /\ usdoHeld = [from |-> 0, to |-> 0, yieldBox |-> 0, pool |-> InitialPool]
      /\ wrapped = 0 /\ minted = 0
      /\ market = [debt |-> 0, lent |-> InitialPool, nonce |-> 0]
      /\ path = [p \in X!Paths |-> <<>>]
  BY Zenon DEF X!Init
<1>2. InitialPool \in Nat
  BY AmountsAssumption
<1>3. TokensOK(toft, usdoHeld, wrapped, minted, market)
  BY <1>1, <1>2 DEF TokensOK, TOFTAmounts, USDOAmounts, IsMarket
<1>4. ArePaths(path)
  <2>1. path = [p \in X!Paths |-> path[p]]
    BY <1>1
  <2>2. ASSUME NEW p \in X!Paths
        PROVE  \E S : path[p] \in Seq(S) /\ \A m \in S : Carries(p, m)
    <3>1. PICK S : S = {}
      OBVIOUS
    <3>2. path[p] \in Seq(S) /\ \A m \in S : Carries(p, m)
      BY <1>1, <3>1
    <3> QED
      BY <3>2, Zenon
  <2> QED
    BY <2>1, <2>2, Zenon DEF ArePaths
<1>5. Flying(path, TOFTs) = 0 /\ Flying(path, USDOs) = 0 /\ Back(path) = 0
  <2>1. \A p \in {"TOFT", "USDO", "proxy", "back"} : path[p] = <<>>
    BY <1>1 DEF X!Paths
  <2>2. (\A ops : X!MessagesOf(<<>>, ops) = {}) /\ X!UnitsOf(<<>>) = {}
    BY DEF X!MessagesOf, X!UnitsOf
  <2>3. Cardinality({}) = 0
    BY FS_EmptySet
  <2>4. (\A ops : CountOf(<<>>, ops) = 0) /\ Cardinality(X!UnitsOf(<<>>)) = 0
    BY <2>2, <2>3, Zenon DEF CountOf
  <2> QED
    BY <2>1, <2>4 DEF Flying, Back
<1>6. TOFTHeld(toft) = 0 /\ USDOHeld(usdoHeld) = InitialPool
  BY <1>1, <1>2 DEF TOFTHeld, USDOHeld
<1>7. AddsUp(toft, usdoHeld, wrapped, minted, market, path)
  BY <1>1, <1>2, <1>5, <1>6 DEF AddsUp
<1> QED
  BY <1>3, <1>4, <1>7 DEF CommandsInv

-----------------------------------------------------------------------------
(* No command, in any order of delivery, and no retry, loses a token or    *)
(* counts it twice, for any number of commands and messages and any        *)
(* amounts: each step moves what it takes, and a message is counted from   *)
(* when it is sent to when it takes effect, be it delivered or retried.    *)
THEOREM NothingLostTheorem == TasksSpec => []NothingLost
<1> DEFINE Inv == scripts = "crossChain" => CommandsInv /\ StoredIsUnderWay
<1>1. TasksInit => Inv
  <2>1. ASSUME TasksInit, scripts = "crossChain"
        PROVE  CommandsInv /\ StoredIsUnderWay
    <3>1. X!Init
      BY <2>1 DEF TasksInit
    <3>2. stored = [p \in X!Paths |-> FALSE]
      BY <3>1, Zenon DEF X!Init
    <3> QED
      BY <3>1, <3>2, CommandsBegin DEF StoredIsUnderWay
  <2> QED
    BY <2>1
<1>2. ASSUME Inv, [TasksNext]_allVars
      PROVE  Inv'
  <2>1. CASE Deploy
    <3>1. ~(scripts = "crossChain") /\ UNCHANGED scripts
      BY <2>1 DEF Deploy
    <3> QED
      BY <3>1
  <2>2. CASE RunCommands
    <3>1. CommandsInv /\ StoredIsUnderWay /\ X!Next
      BY <1>2, <2>2, Zenon DEF RunCommands
    <3>2. ArePaths(path)
      BY <3>1 DEF CommandsInv
    <3> QED
      BY <3>1, <3>2, CommandsInvStays, StoredIsStillUnderWay, Zenon
  <2>3. CASE UNCHANGED allVars
    <3>1. UNCHANGED <<scripts, toft, usdoHeld, wrapped, minted, market, path, stored>>
      BY <2>3, Zenon DEF allVars, crossChainVars
    <3> QED
      BY <1>2, <3>1 DEF CommandsInv, StoredIsUnderWay
  <2> QED
    BY <1>2, <2>1, <2>2, <2>3, Zenon DEF TasksNext
<1>3. Inv => NothingLost
  BY CommandsInvIsEnough, Zenon DEF NothingLost
<1> HIDE DEF Inv
<1> QED
  BY <1>1, <1>2, <1>3, PTL DEF TasksSpec
=============================================================================
