----------------------------- MODULE Deployment -----------------------------
(***************************************************************************)
(* The deployment of a chain: deployPostLbp__task_1, its setup and         *)
(* deployFinal__task, against the contracts they deploy and configure.     *)
(*                                                                         *)
(* A run deploys a new generation of every contract, or loads the one of   *)
(* the local database, and sets it up with two multicalls.  Each setup     *)
(* function reads the chain and pushes the calls that are missing; a       *)
(* multicall is executed whole or not at all.  A run may crash between any *)
(* two steps, or be given up while its transaction is under way: the       *)
(* transaction then lands during a later run, between its reads.           *)
(* Transactions have the same sender, and are executed in order.           *)
(***************************************************************************)
EXTENDS DeployConfig, Sequences, TLC

CONSTANTS
    Chains,          \* where the task is run
    MaxGenerations,  \* bound on the deployments
    MaxFaults,       \* bound on crashes and on oracles that do not answer
    noLzPeer         \* the flag of the task

ASSUME ChainsAssumption == Chains \subseteq SupportedChains
ASSUME BoundsAssumption ==
    /\ MaxGenerations \in Nat /\ MaxFaults \in Nat
    /\ MaxFaults < MaxGenerations   \* a crash may lose a generation
ASSUME FlagAssumption == noLzPeer \in BOOLEAN

VARIABLES
    chain,        \* where this run of the model happens
    globals,      \* stages of the other projects that are deployed
    generations,  \* how many times everything was deployed
    strategies,   \* how many empty strategies were deployed for USDO
    db,           \* the local database: a generation, the asset of USDO
    assets,       \* the assets YieldBox has registered
    penrose,      \* Penrose, of each generation
    usdo,         \* USDO, of each generation
    markets,      \* the markets, of each generation
    pending,      \* transactions sent and not yet executed
    task,         \* the run of a task
    faults

vars == <<chain, globals, generations, strategies, db, assets, penrose, usdo, markets,
          pending, task, faults>>
chainVars == <<generations, strategies, assets, penrose, usdo, markets>>

Generations == 1..MaxGenerations

-----------------------------------------------------------------------------
(* Addresses, and the ids YieldBox gives to a token under a strategy.      *)
NoAddress == <<"", 0>>
External(name) == <<name, 0>>
Deployed(name, g) == <<name, g>>
NoAsset == <<NoAddress, NoAddress>>

UsdoStrategy(k) == Deployed("YB_USDO_ASSET_WITHOUT_STRATEGY", k)
UsdoAsset(g, k) == <<Deployed("USDO", g), UsdoStrategy(k)>>
CollateralAsset(name, g) == <<External(name[1]), Deployed(name[2], g)>>

(* The asset Penrose was built with: its main market is the one that has   *)
(* it as collateral.                                                       *)
mainAssetId == <<External("WETH"), External("WETH_YB_EMPTY_STRAT")>>

(* The calls of a multicall, or those pushed so far.                       *)
NoInit == [collateralId |-> NoAsset, assetId |-> NoAsset]
NoCalls == [usdoAsset |-> NoAsset, masters |-> {}, registered |-> {}, ethMarket |-> FALSE,
            flashLoanHelper |-> FALSE, minters |-> {}, burners |-> {}, assets |-> {},
            inits |-> [m \in Markets |-> NoInit], assetOracles |-> {}]
ToInitialise(calls) == {m \in Markets : calls.inits[m] # NoInit}

NewPenrose == [usdoToken |-> NoAddress, usdoAssetId |-> NoAsset, masters |-> {},
               registered |-> {}, ethMarket |-> FALSE]
NewUsdo == [flashLoanHelper |-> FALSE, minters |-> {}, burners |-> {}, peered |-> FALSE]
NewMarket == [penrose |-> NoAddress, collateralId |-> NoAsset, asset |-> NoAddress,
              assetId |-> NoAsset, isMainMarket |-> FALSE, interestHelper |-> FALSE,
              assetOracle |-> FALSE]
Idle == [step |-> "idle", gen |-> 0, asset |-> NoAsset, calls |-> NoCalls]

Init ==
    /\ chain \in Chains
    /\ globals = {}
    /\ generations = 0 /\ strategies = 0
    /\ db = [gen |-> 0, usdoAsset |-> NoAsset]
    /\ assets = {mainAssetId}
    /\ penrose = [g \in Generations |-> NewPenrose]
    /\ usdo = [g \in Generations |-> NewUsdo]
    /\ markets = [g \in Generations |-> [m \in Markets |-> NewMarket]]
    /\ pending = <<>>
    /\ task = Idle
    /\ faults = 0

-----------------------------------------------------------------------------
(* What has been done of a generation, as the setup functions read it.     *)
MasterOf(market) ==
    IF market \in BBMarkets THEN "BB_MEDIUM_RISK_MC" ELSE "SGL_MEDIUM_RISK_MC"
MasterContracts ==
    {"SGL_MEDIUM_RISK_MC"} \cup (IF chain \in ArbChains THEN {"BB_MEDIUM_RISK_MC"} ELSE {})
CollateralAssets(g) == {CollateralAsset(name, g) : name \in YBAssets(chain)}
MintingMarkets == IF chain \in ArbChains THEN BBMarkets ELSE {}

IsInitialised(g, m) == markets[g][m].penrose = Deployed("PENROSE", g)

(* Mutants: the token of the entry is not compared; it is compared, and    *)
(* never found equal (addresses come in two spellings); an asset is looked *)
(* for by its token; every minter is set at once; what is registered is    *)
(* not read.                                                               *)
UsdoEntryExists(g) == db.usdoAsset # NoAsset
UsdoEntryIsSpeltAs(g) == FALSE
idsByToken(asset) ==
    IF \E a \in assets : a[1] = asset[1] THEN asset ELSE NoAsset
AllMinters == {"USDO_FLASHLOAN_HELPER"} \cup MintingMarkets
RegisterEveryMC(g) == MasterContracts

ids(asset) == IF asset \in assets THEN asset ELSE NoAsset
FlashLoanMinters == {"USDO_FLASHLOAN_HELPER"}
MastersToRegister(g) == MasterContracts \ penrose[g].masters

(* The entry of the local database is for this USDO and has an id.         *)
UsdoEntryIsValid(g) ==
    db.usdoAsset # NoAsset /\ db.usdoAsset[1] = Deployed("USDO", g)

-----------------------------------------------------------------------------
(* The tasks: one action for each function that reads or sends.            *)
At(step) == task.step = step
GoTo(step) == task' = [task EXCEPT !.step = step]
Push(calls, step) == task' = [task EXCEPT !.step = step, !.calls = calls]
Send(kind, step) ==
    /\ pending' = Append(pending, [kind |-> kind, gen |-> task.gen, calls |-> task.calls,
                                   awaited |-> TRUE])
    /\ GoTo(step)

(* The other projects deploy what these scripts load.                      *)
DeployGlobals ==
    /\ \E stage \in {"postLbp", "final"} \ globals : globals' = globals \cup {stage}
    /\ UNCHANGED <<chain, chainVars, db, pending, task, faults>>

(* deployPostLbp__task_1 adds every build, which throws if one they load   *)
(* is missing, executes them, and saves the deployment ...                 *)
StartFresh ==
    /\ At("idle") /\ generations < MaxGenerations
    /\ "postLbp" \in globals
    /\ DependenciesAreBuilt(chain)
    /\ GoTo("execute")
    /\ UNCHANGED <<chain, globals, chainVars, db, pending, faults>>

Execute ==
    /\ At("execute")
    /\ generations' = generations + 1
    /\ task' = [task EXCEPT !.step = "save", !.gen = generations + 1]
    /\ UNCHANGED <<chain, globals, strategies, assets, penrose, usdo, markets, db, pending,
                   faults>>

Save ==
    /\ At("save")
    /\ db' = [db EXCEPT !.gen = task.gen]
    /\ GoTo("setLzPeer")
    /\ UNCHANGED <<chain, globals, chainVars, pending, faults>>

(* ... or loads the last one.                                              *)
Load ==
    /\ At("idle") /\ db.gen # 0
    /\ task' = [task EXCEPT !.step = "setLzPeer", !.gen = db.gen]
    /\ UNCHANGED <<chain, globals, chainVars, db, pending, faults>>

SetLzPeer ==
    /\ At("setLzPeer")
    /\ usdo' = IF noLzPeer THEN usdo ELSE [usdo EXCEPT ![task.gen].peered = TRUE]
    /\ GoTo("setupUsdoInPenrose")
    /\ UNCHANGED <<chain, globals, generations, strategies, assets, penrose, markets, db,
                   pending, faults>>

PushUsdoToken(asset) ==
    Push(IF penrose[task.gen].usdoToken # Deployed("USDO", task.gen)
         THEN [task.calls EXCEPT !.usdoAsset = asset] ELSE task.calls,
         "setupRegisterMC")

(* The asset of USDO is the one of the database, or a new one.             *)
SetupUsdoInPenrose ==
    /\ At("setupUsdoInPenrose")
    /\ IF UsdoEntryIsValid(task.gen)
       THEN PushUsdoToken(db.usdoAsset) /\ UNCHANGED pending
       ELSE Send("asset", "createAsset")
    /\ UNCHANGED <<chain, globals, chainVars, db, faults>>

(* createEmptyStratYbAsset__task saves it once it is registered.           *)
SaveUsdoAsset ==
    /\ At("saveAsset")
    /\ db' = [db EXCEPT !.usdoAsset = task.asset]
    /\ PushUsdoToken(task.asset)
    /\ UNCHANGED <<chain, globals, chainVars, pending, faults>>

SetupRegisterMC ==
    /\ At("setupRegisterMC")
    /\ Push([task.calls EXCEPT !.masters = MastersToRegister(task.gen)],
            "setupRegisterMarkets")
    /\ UNCHANGED <<chain, globals, chainVars, db, pending, faults>>

SetupRegisterBBAndSGLMarkets ==
    /\ At("setupRegisterMarkets")
    /\ Push([task.calls EXCEPT
                !.registered = MarketsRegistered(chain) \ penrose[task.gen].registered],
            "setupRegisterEthMarket")
    /\ UNCHANGED <<chain, globals, chainVars, db, pending, faults>>

(* Where no BigBang market is deployed this throws, and ends the run.      *)
SetupRegisterBigBangEthMarket ==
    /\ At("setupRegisterEthMarket")
    /\ IF "BB_MT_ETH_MARKET" \in DeployedNames(chain)
       THEN Push([task.calls EXCEPT !.ethMarket = ~penrose[task.gen].ethMarket],
                 "setupFlashloanHelper")
       ELSE task' = Idle
    /\ UNCHANGED <<chain, globals, chainVars, db, pending, faults>>

SetupUsdoFlashloanHelper ==
    /\ At("setupFlashloanHelper")
    /\ Push([task.calls EXCEPT !.flashLoanHelper = ~usdo[task.gen].flashLoanHelper,
                               !.minters = FlashLoanMinters \ usdo[task.gen].minters,
                               !.burners = FlashLoanMinters \ usdo[task.gen].burners],
            "setupCreateYBAssets")
    /\ UNCHANGED <<chain, globals, chainVars, db, pending, faults>>

SetupCreateYBAssets ==
    /\ At("setupCreateYBAssets")
    /\ IF \A name \in YBAssets(chain) : name[2] \in DeployedNames(chain)
       THEN Push([task.calls EXCEPT
                    !.assets = {a \in CollateralAssets(task.gen) : ids(a) = NoAsset}],
                 "submit1")
       ELSE task' = Idle
    /\ UNCHANGED <<chain, globals, chainVars, db, pending, faults>>

(* What init is given: the collateral as YieldBox knows it, and for a      *)
(* Singularity market USDO under the strategy of the database.             *)
collateralId(g, m) == ids(CollateralAsset(CollateralOf[m], g))
initBBMarket(g, m) == [collateralId |-> collateralId(g, m), assetId |-> NoAsset]
initSGLMarket(g, m) ==
    [collateralId |-> collateralId(g, m),
     assetId      |-> ids(<<Deployed("USDO", g), db.usdoAsset[2]>>)]

(* A market that is not initialised needs its collateral among the builds  *)
(* and registered in YieldBox, or the run ends.                            *)
SetupInitAndRegisterMarket ==
    /\ At("setupInitMarkets")
    /\ LET g    == task.gen
           todo == {m \in MarketsInitialised(chain) : ~IsInitialised(g, m)}
       IN IF \A m \in todo : /\ CollateralOf[m][2] \in DeployedNames(chain)
                             /\ collateralId(g, m) # NoAsset
          THEN Push([NoCalls EXCEPT !.inits =
                       [m \in Markets |-> IF m \notin todo THEN NoInit
                                          ELSE IF m \in BBMarkets THEN initBBMarket(g, m)
                                          ELSE initSGLMarket(g, m)]],
                    "setupMinters")
          ELSE task' = Idle
    /\ UNCHANGED <<chain, globals, chainVars, db, pending, faults>>

(* A market that may mint is taken to be allowed to burn as well.          *)
SetupRegisterBBAsMinterBurner ==
    /\ At("setupMinters")
    /\ LET todo == MintingMarkets \ usdo[task.gen].minters IN
       Push([task.calls EXCEPT !.minters = todo, !.burners = todo], "submit2")
    /\ UNCHANGED <<chain, globals, chainVars, db, pending, faults>>

ExecuteMulticall ==
    /\ \/ At("submit1") /\ Send("multicall", "await1")
       \/ At("submit2") /\ Send("multicall", "await2")
       \/ At("submitFinal") /\ Send("multicall", "awaitFinal")
    /\ UNCHANGED <<chain, globals, chainVars, db, faults>>

(* deployFinal__task sets the oracle of USDO in the markets the database   *)
(* has, and ends if one of them, or the oracle, is missing.                *)
DeployFinal ==
    /\ At("idle") /\ db.gen # 0
    /\ "final" \in globals
    /\ BBMarkets \subseteq DeployedNames(chain)
    /\ task' = [Idle EXCEPT !.step = "submitFinal", !.gen = db.gen,
                            !.calls = [NoCalls EXCEPT !.assetOracles = BBMarkets]]
    /\ UNCHANGED <<chain, globals, chainVars, db, pending, faults>>

-----------------------------------------------------------------------------
(* The chain: the oldest transaction is executed.  A run that waits for it *)
(* goes on.                                                                *)
Resume(tx, step) ==
    task' = IF tx.awaited THEN step ELSE task

CreateUsdoAsset ==
    /\ pending # <<>> /\ Head(pending).kind = "asset"
    /\ LET tx    == Head(pending)
           asset == UsdoAsset(tx.gen, strategies + 1)
       IN /\ strategies' = strategies + 1
          /\ assets' = assets \cup {asset}
          /\ Resume(tx, [task EXCEPT !.step = "saveAsset", !.asset = asset])
    /\ pending' = Tail(pending)
    /\ UNCHANGED <<chain, globals, generations, penrose, usdo, markets, db, faults>>

(* No call of a multicall may fail: the calls that precede in it count.    *)
Succeeds(g, calls) ==
    LET p         == penrose[g]
        hasUsdo   == p.usdoToken # NoAddress \/ calls.usdoAsset # NoAsset
        isKnown(m) == m \in p.registered \cup calls.registered
    IN /\ calls.masters \cap p.masters = {}
       /\ calls.registered \cap p.registered = {}
       /\ \A m \in calls.registered : MasterOf(m) \in p.masters \cup calls.masters
       /\ \A m \in ToInitialise(calls) :
             /\ markets[g][m].penrose = NoAddress
             /\ InitAccepts(m, POST_LBP(chain)[m])
             /\ IF m \in BBMarkets THEN hasUsdo ELSE isKnown(m)
       /\ \A m \in calls.assetOracles : isKnown(m) /\ IsInitialised(g, m)

InitialisedMarket(g, m, args) ==
    [penrose |-> Deployed("PENROSE", g), collateralId |-> args.collateralId,
     asset   |-> IF m \in BBMarkets THEN penrose[g].usdoToken ELSE Deployed("USDO", g),
     assetId |-> IF m \in BBMarkets THEN penrose[g].usdoAssetId ELSE args.assetId,
     isMainMarket |-> m \in BBMarkets /\ args.collateralId = mainAssetId,
     interestHelper |-> m \in SGLMarkets, assetOracle |-> FALSE]

Apply(g, calls) ==
    /\ assets' = assets \cup calls.assets
    /\ penrose' = [penrose EXCEPT ![g] =
          [usdoToken   |-> IF calls.usdoAsset # NoAsset THEN Deployed("USDO", g)
                                                        ELSE penrose[g].usdoToken,
           usdoAssetId |-> IF calls.usdoAsset # NoAsset THEN calls.usdoAsset
                                                        ELSE penrose[g].usdoAssetId,
           masters     |-> penrose[g].masters \cup calls.masters,
           registered  |-> penrose[g].registered \cup calls.registered,
           ethMarket   |-> penrose[g].ethMarket \/ calls.ethMarket]]
    /\ usdo' = [usdo EXCEPT ![g] =
          [flashLoanHelper |-> usdo[g].flashLoanHelper \/ calls.flashLoanHelper,
           minters |-> usdo[g].minters \cup calls.minters,
           burners |-> usdo[g].burners \cup calls.burners,
           peered  |-> usdo[g].peered]]
    /\ markets' = [markets EXCEPT ![g] =
          [m \in Markets |->
             IF m \in ToInitialise(calls) THEN InitialisedMarket(g, m, calls.inits[m])
             ELSE IF m \in calls.assetOracles
                  THEN [markets[g][m] EXCEPT !.assetOracle = TRUE]
                  ELSE markets[g][m]]]

AfterMulticall ==
    IF At("await1") THEN [task EXCEPT !.step = "setupInitMarkets", !.calls = NoCalls]
    ELSE Idle

MulticallSucceeds ==
    /\ pending # <<>> /\ Head(pending).kind = "multicall"
    /\ LET tx == Head(pending) IN
       /\ Succeeds(tx.gen, tx.calls)
       /\ Apply(tx.gen, tx.calls)
       /\ Resume(tx, AfterMulticall)
    /\ pending' = Tail(pending)
    /\ UNCHANGED <<chain, globals, generations, strategies, db, faults>>

(* It reverts as a whole, and the run that waits for it ends: an oracle    *)
(* may not answer when a market is initialised.                            *)
MulticallReverts ==
    /\ pending # <<>> /\ Head(pending).kind = "multicall"
    /\ LET tx == Head(pending) IN
       /\ \/ ~Succeeds(tx.gen, tx.calls) /\ UNCHANGED faults
          \/ /\ ToInitialise(tx.calls) # {}
             /\ faults < MaxFaults /\ faults' = faults + 1
       /\ Resume(tx, Idle)
    /\ pending' = Tail(pending)
    /\ UNCHANGED <<chain, globals, chainVars, db>>

(* A run ends anywhere; nobody waits for its transactions any more.        *)
Crash ==
    /\ ~At("idle")
    /\ faults < MaxFaults /\ faults' = faults + 1
    /\ task' = Idle
    /\ pending' = [i \in DOMAIN pending |-> [pending[i] EXCEPT !.awaited = FALSE]]
    /\ UNCHANGED <<chain, globals, chainVars, db>>

-----------------------------------------------------------------------------
TaskStep ==
    \/ Execute \/ Save \/ SetLzPeer
    \/ SetupUsdoInPenrose \/ SaveUsdoAsset \/ SetupRegisterMC
    \/ SetupRegisterBBAndSGLMarkets \/ SetupRegisterBigBangEthMarket
    \/ SetupUsdoFlashloanHelper \/ SetupCreateYBAssets
    \/ SetupInitAndRegisterMarket \/ SetupRegisterBBAsMinterBurner
    \/ ExecuteMulticall
Mine == CreateUsdoAsset \/ MulticallSucceeds \/ MulticallReverts
Rerun == Load \/ (db.gen = 0 /\ StartFresh)

Next ==
    \/ DeployGlobals \/ StartFresh \/ Load \/ DeployFinal
    \/ TaskStep \/ Mine \/ Crash

Spec == Init /\ [][Next]_vars

(* A run that is started goes on, a transaction is executed in the end,    *)
(* the other projects are deployed, and the owner runs the task again when *)
(* it failed, sooner or later, whatever else he runs.                      *)
Fairness ==
    WF_vars(TaskStep) /\ WF_vars(Mine) /\ WF_vars(DeployGlobals) /\ SF_vars(Rerun)

FairSpec == Spec /\ Fairness

-----------------------------------------------------------------------------
Steps == {"idle", "execute", "save", "setLzPeer", "setupUsdoInPenrose", "createAsset",
          "saveAsset", "setupRegisterMC", "setupRegisterMarkets", "setupRegisterEthMarket",
          "setupFlashloanHelper", "setupCreateYBAssets", "submit1", "await1",
          "setupInitMarkets", "setupMinters", "submit2", "await2", "submitFinal",
          "awaitFinal"}
YBNames == UNION {{name[1], name[2]} : name \in UNION {YBAssets(c) : c \in SupportedChains}}
CollateralNames == UNION {{CollateralOf[m][1], CollateralOf[m][2]} : m \in Markets}
Names ==
    {"", "USDO", "PENROSE", "YB_USDO_ASSET_WITHOUT_STRATEGY", "WETH", "WETH_YB_EMPTY_STRAT"}
    \cup YBNames \cup CollateralNames
MasterNames == {"SGL_MEDIUM_RISK_MC", "BB_MEDIUM_RISK_MC"}
Minters == BBMarkets \cup {"USDO_FLASHLOAN_HELPER"}
Address == Names \X Nat
Asset == Address \X Address
InitArgs == [collateralId : Asset, assetId : Asset]
CallsOK == [usdoAsset : Asset, masters : SUBSET MasterNames, registered : SUBSET Markets,
            ethMarket : BOOLEAN, flashLoanHelper : BOOLEAN, minters : SUBSET Minters,
            burners : SUBSET Minters, assets : SUBSET Asset,
            inits : [Markets -> InitArgs], assetOracles : SUBSET BBMarkets]
MarketOK == [penrose : Address, collateralId : Asset, asset : Address, assetId : Asset,
             isMainMarket : BOOLEAN, interestHelper : BOOLEAN, assetOracle : BOOLEAN]

(* All the state is of its type, and the generation that a run or a        *)
(* transaction is about was deployed.                                      *)
TypeOK ==
    /\ chain \in Chains /\ globals \subseteq {"postLbp", "final"}
    /\ generations \in 0..MaxGenerations /\ strategies \in Nat /\ faults \in 0..MaxFaults
    /\ db \in [gen : 0..generations, usdoAsset : Asset]
    /\ assets \subseteq Asset
    /\ penrose \in [Generations ->
          [usdoToken : Address, usdoAssetId : Asset, masters : SUBSET MasterNames,
           registered : SUBSET Markets, ethMarket : BOOLEAN]]
    /\ usdo \in [Generations ->
          [flashLoanHelper : BOOLEAN, minters : SUBSET Minters, burners : SUBSET Minters,
           peered : BOOLEAN]]
    /\ markets \in [Generations -> [Markets -> MarketOK]]
    /\ pending \in Seq([kind : {"asset", "multicall"}, gen : 1..generations,
                        calls : CallsOK, awaited : BOOLEAN])
    /\ task \in [step : Steps, gen : 0..generations, asset : Asset, calls : CallsOK]
    /\ At("execute") => generations < MaxGenerations
    /\ task.step \notin {"idle", "execute"} => task.gen # 0

-----------------------------------------------------------------------------
(* The asset of a market, which Penrose gives a BigBang market and the     *)
(* script gives a Singularity market from the database, is one: the USDO   *)
(* of its own generation, registered in YieldBox, whatever was redeployed  *)
(* or crashed (setupUsdoInPenrose, initSGLMarket).                         *)
AssetIdsAgree ==
    \A g \in Generations, m \in Markets :
        markets[g][m] # NewMarket =>
            /\ markets[g][m].asset = Deployed("USDO", g)
            /\ markets[g][m].asset = penrose[g].usdoToken
            /\ markets[g][m].assetId = penrose[g].usdoAssetId
            /\ markets[g][m].assetId[1] = markets[g][m].asset
            /\ {markets[g][m].assetId, markets[g][m].collateralId} \subseteq assets \ {NoAsset}

(* The first multicall is whole: of a generation either nothing is set up  *)
(* or all of it is, even when it was read before and after another one     *)
(* landed (setupPostLbp1).                                                 *)
NothingIsSetUp(g) ==
    /\ penrose[g] = NewPenrose
    /\ usdo[g] = [NewUsdo EXCEPT !.peered = usdo[g].peered]
    /\ CollateralAssets(g) \cap assets = {}
    /\ markets[g] = [m \in Markets |-> NewMarket]
AllIsSetUp(g) ==
    /\ penrose[g].usdoToken = Deployed("USDO", g) /\ penrose[g].usdoAssetId # NoAsset
    /\ penrose[g].masters = MasterContracts
    /\ penrose[g].registered = MarketsRegistered(chain) /\ penrose[g].ethMarket
    /\ usdo[g].flashLoanHelper
    /\ "USDO_FLASHLOAN_HELPER" \in usdo[g].minters \cap usdo[g].burners
    /\ CollateralAssets(g) \subseteq assets
SetupIsWhole == \A g \in Generations : NothingIsSetUp(g) \/ AllIsSetUp(g)

(* A market may mint and burn USDO only once it is initialised and         *)
(* registered, so that its debt is counted (setupPostLbp1: the second      *)
(* multicall).                                                             *)
MintersAreInitialised ==
    \A g \in Generations :
        /\ usdo[g].minters = usdo[g].burners
        /\ \A m \in usdo[g].minters \cap Markets :
              IsInitialised(g, m) /\ m \in penrose[g].registered

Completed(g) ==
    /\ g \in Generations /\ AllIsSetUp(g)
    /\ \A m \in MarketsInitialised(chain) : IsInitialised(g, m)
    /\ MintingMarkets \subseteq usdo[g].minters

(* What is completed stays as it is: running the task again, or a late     *)
(* transaction, changes nothing of that generation but the oracle of USDO. *)
CompletedIsStable ==
    [][\A g \in Generations : Completed(g) =>
          /\ penrose'[g] = penrose[g]
          /\ usdo'[g] = [usdo[g] EXCEPT !.peered = usdo'[g].peered]
          /\ \A m \in Markets :
                markets'[g][m] = [markets[g][m] EXCEPT !.assetOracle = markets'[g][m].assetOracle]
          /\ \A a \in assets' \ assets : a[1] # Deployed("USDO", g)]_vars

(* On a testnet of Arbitrum the setup of the last deployment is completed  *)
(* in the end.                                                             *)
SetupCompletes == <>[](chain = "arbitrum_sepolia" => Completed(db.gen))

(* The doc of setBigBangEthMarket (Penrose.sol) calls the market it is     *)
(* given the main BigBang market: that market must charge Penrose's rate   *)
(* for the main market.                                                    *)
EthMarketIsMain ==
    \A g \in Generations :
        penrose[g].ethMarket /\ IsInitialised(g, "BB_MT_ETH_MARKET")
            => markets[g]["BB_MT_ETH_MARKET"].isMainMarket
=============================================================================
