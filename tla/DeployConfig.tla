----------------------------- MODULE DeployConfig ---------------------------
(***************************************************************************)
(* What the deployment scripts deploy on each chain, under which names,    *)
(* and with which configuration (DEPLOY_CONFIG.ts, deployBuilds and        *)
(* 1-1-deployPostLbp.ts).  A build names a contract, its code and the      *)
(* builds whose addresses its constructor needs.  Rates are in thousandths *)
(* of a percent, debt rates in percent.                                    *)
(***************************************************************************)
EXTENDS Naturals

ArbChains == {"arbitrum", "arbitrum_sepolia"}
EthChains == {"ethereum", "sepolia", "optimism_sepolia"}
SupportedChains == ArbChains \cup EthChains
isTestnet(chain) == chain \in {"arbitrum_sepolia", "sepolia", "optimism_sepolia"}

-----------------------------------------------------------------------------
(* The builds, one operator for each file of deployBuilds.                 *)
Build(name, code) == [name |-> name, code |-> code, dependsOn |-> {}]

buildUSDOModules ==
    {Build("USDO_SENDER_MODULE", "UsdoSender"),
     Build("USDO_RECEIVER_MODULE", "UsdoReceiver"),
     Build("USDO_MARKET_RECEIVER_MODULE", "UsdoMarketReceiverModule"),
     Build("USDO_OPTION_RECEIVER_MODULE", "UsdoOptionReceiverModule")}

buildUSDOExtExec == Build("USDO_EXT_EXEC", "TapiocaOmnichainExtExec")

buildUSDO ==
    [Build("USDO", "Usdo") EXCEPT !.dependsOn =
        {b.name : b \in buildUSDOModules} \cup {buildUSDOExtExec.name}]

buildUSDOFlashloanHelper ==
    [Build("USDO_FLASHLOAN_HELPER", "USDOFlashloanHelper") EXCEPT !.dependsOn = {"USDO"}]

buildSimpleLeverageExecutor == Build("SIMPLE_LEVERAGE_EXECUTOR", "SimpleLeverageExecutor")

buildSGLModules ==
    {Build("SGL_LIQUIDATION_MODULE", "SGLLiquidation"),
     Build("SGL_BORROW_MODULE", "SGLBorrow"),
     Build("SGL_COLLATERAL_MODULE", "SGLCollateral"),
     Build("SGL_LEVERAGE_MODULE", "SGLLeverage")}

buildBBModules ==
    {Build("BB_LIQUIDATION_MODULE", "BBLiquidation"),
     Build("BB_BORROW_MODULE", "BBBorrow"),
     Build("BB_COLLATERAL_MODULE", "BBCollateral"),
     Build("BB_LEVERAGE_MODULE", "BBLeverage")}

buildPenrose == Build("PENROSE", "Penrose")
buildSGLMediumRiskMC(name) == Build(name, "Singularity")
buildBBMediumRiskMC(name) == Build(name, "BigBang")
buildSGLInterestHelper == Build("SGL_INTEREST_HELPER", "SGLInterestHelper")
buildMarketHelper == Build("MARKET_HELPER", "MarketHelper")
buildERC20WithoutStrategy(name) == Build(name, "ERC20WithoutStrategy")
buildGlpStrategy == Build("YB_SGLP_ASSET_WITH_STRATEGY", "GlpStrategy")
buildSdaiStrategy == Build("YB_SDAI_ASSET_WITH_STRATEGY", "SDaiStrategy")

(* tapiocaDeployTask: everything of USDO and Singularity, and Penrose ...  *)
GenericBuilds ==
    buildUSDOModules \cup buildSGLModules
    \cup {buildUSDOExtExec, buildSimpleLeverageExecutor, buildUSDO,
          buildUSDOFlashloanHelper, buildPenrose,
          buildSGLMediumRiskMC("SGL_MEDIUM_RISK_MC"), buildSGLInterestHelper,
          buildMarketHelper}

(* ... on Arbitrum the BigBang markets and sGLP's ...                      *)
ArbBuilds(chain) ==
    buildBBModules
    \cup {buildERC20WithoutStrategy(name) : name \in
            {"YB_MT_ETH_ASSET_WITHOUT_STRATEGY", "YB_T_ETH_ASSET_WITHOUT_STRATEGY",
             "YB_T_RETH_ASSET_WITHOUT_STRATEGY", "YB_T_WST_ETH_ASSET_WITHOUT_STRATEGY"}}
    \cup {buildBBMediumRiskMC(name) : name \in
            {"BB_MEDIUM_RISK_MC", "BB_MT_ETH_MARKET", "BB_T_RETH_MARKET",
             "BB_T_WST_ETH_MARKET"}}
    \cup {IF isTestnet(chain)
          THEN buildERC20WithoutStrategy("YB_SGLP_ASSET_WITHOUT_STRATEGY")
          ELSE buildGlpStrategy,
          buildSGLMediumRiskMC("SGL_S_GLP_MARKET")}

(* ... and on Ethereum sDAI's.                                             *)
EthBuilds(chain) ==
    {IF isTestnet(chain)
     THEN buildERC20WithoutStrategy("YB_SDAI_ASSET_WITHOUT_STRATEGY")
     ELSE buildSdaiStrategy,
     buildSGLMediumRiskMC("SGL_S_DAI_MARKET")}

Builds(chain) ==
    GenericBuilds
    \cup (IF chain \in ArbChains THEN ArbBuilds(chain) ELSE {})
    \cup (IF chain \in EthChains THEN EthBuilds(chain) ELSE {})

(* What VM.list() holds, in which a name that is not there is undefined.   *)
DeployedNames(chain) == {b.name : b \in Builds(chain)}

(* VM.execute puts an address in the place of every dependency.            *)
DependenciesAreBuilt(chain) ==
    \A b \in Builds(chain) : b.dependsOn \subseteq DeployedNames(chain)

-----------------------------------------------------------------------------
(* The deployments of other projects that the scripts load by name.        *)
GenericDeployments ==
    {"TAP_TOKEN", "YieldBox", "CLUSTER", "PEARLMIT", "ZERO_X_SWAPPER",
     "TAP_TOKEN_YB_EMPTY_STRAT", "WETH_YB_EMPTY_STRAT"}
EthDeployments == {"MARKET_SDAI_ORACLE", "tsDAI"}
ArbDeployments ==
    {"mtETH", "tETH", "tRETH", "tWSTETH", "tsGLP", "MARKET_TETH_ORACLE",
     "MARKET_RETH_ORACLE", "MARKET_WSTETH_ORACLE", "MARKET_GLP_ORACLE",
     "ETH_GLP_ORACLE"}

LoadedDeployments(chain) ==
    GenericDeployments
    \cup (IF chain \in ArbChains THEN ArbDeployments ELSE {})
    \cup (IF chain \in EthChains THEN EthDeployments ELSE {})

-----------------------------------------------------------------------------
(* The markets.                                                            *)
BBMarkets == {"BB_MT_ETH_MARKET", "BB_T_RETH_MARKET", "BB_T_WST_ETH_MARKET"}
SGLMarkets == {"SGL_S_GLP_MARKET", "SGL_S_DAI_MARKET"}
Markets == BBMarkets \cup SGLMarkets

marketConfigArb ==
    [BB_MT_ETH_MARKET |->
        [debtRateAgainstEth |-> 0, debtRateMin |-> 0, debtRateMax |-> 0,
         collateralizationRate |-> 87000, liquidationCollateralizationRate |-> 93000],
     BB_T_RETH_MARKET |->
        [debtRateAgainstEth |-> 15, debtRateMin |-> 5, debtRateMax |-> 35,
         collateralizationRate |-> 87000, liquidationCollateralizationRate |-> 93000],
     BB_T_WST_ETH_MARKET |->
        [debtRateAgainstEth |-> 15, debtRateMin |-> 5, debtRateMax |-> 35,
         collateralizationRate |-> 86000, liquidationCollateralizationRate |-> 92000],
     SGL_S_GLP_MARKET |->
        [collateralizationRate |-> 85000, liquidationCollateralizationRate |-> 90000]]

marketConfigMainnet ==
    [SGL_S_DAI_MARKET |->
        [collateralizationRate |-> 98000, liquidationCollateralizationRate |-> 99000]]

POST_LBP(chain) == IF chain \in ArbChains THEN marketConfigArb ELSE marketConfigMainnet

(* The collateral of a market, and the name of the strategy under which    *)
(* YieldBox holds it, as setupInitAndRegisterMarket has them.              *)
CollateralOf ==
    [BB_MT_ETH_MARKET    |-> <<"mtETH", "YB_MT_ETH_ASSET_WITHOUT_STRATEGY">>,
     BB_T_RETH_MARKET    |-> <<"tRETH", "YB_T_RETH_ASSET_WITHOUT_STRATEGY">>,
     BB_T_WST_ETH_MARKET |-> <<"tWSTETH", "YB_T_WST_ETH_ASSET_WITHOUT_STRATEGY">>,
     SGL_S_GLP_MARKET    |-> <<"tsGLP", "YB_SGLP_ASSET_WITHOUT_STRATEGY">>,
     SGL_S_DAI_MARKET    |-> <<"tsDAI", "YB_SDAI_ASSET_WITHOUT_STRATEGY">>]

(* The assets setupCreateYBAssets registers.                               *)
YBAssets(chain) ==
    (IF chain \in EthChains
     THEN {<<"tsDAI", IF isTestnet(chain) THEN "YB_SDAI_ASSET_WITHOUT_STRATEGY"
                                          ELSE "YB_SDAI_ASSET_WITH_STRATEGY">>}
     ELSE {})
    \cup
    (IF chain \in ArbChains
     THEN {<<"tsGLP", IF isTestnet(chain) THEN "YB_SGLP_ASSET_WITHOUT_STRATEGY"
                                          ELSE "YB_SGLP_ASSET_WITH_STRATEGY">>,
           <<"tETH", "YB_T_ETH_ASSET_WITHOUT_STRATEGY">>,
           <<"mtETH", "YB_MT_ETH_ASSET_WITHOUT_STRATEGY">>,
           <<"tRETH", "YB_T_RETH_ASSET_WITHOUT_STRATEGY">>,
           <<"tWSTETH", "YB_T_WST_ETH_ASSET_WITHOUT_STRATEGY">>}
     ELSE {})

(* The markets setupRegisterBBAndSGLMarketsInPenrose registers; Ethereum   *)
(* itself is not among its chains.                                         *)
MarketsRegistered(chain) ==
    IF chain \in ArbChains THEN BBMarkets \cup {"SGL_S_GLP_MARKET"}
    ELSE IF chain \in {"sepolia", "optimism_sepolia"} THEN {"SGL_S_DAI_MARKET"}
    ELSE {}

(* The markets setupInitAndRegisterMarket initialises.                     *)
MarketsInitialised(chain) ==
    (IF chain \in ArbChains THEN BBMarkets \cup {"SGL_S_GLP_MARKET"} ELSE {})
    \cup (IF chain \in EthChains THEN {"SGL_S_DAI_MARKET"} ELSE {})

(* What the markets' init() accepts (BigBang and Singularity): a rate of 0 *)
(* stands for the default.                                                 *)
FEE_PRECISION == 100000
RateOr(rate, default) == IF rate > 0 THEN rate ELSE default
InitAccepts(market, config) ==
    LET rate            == RateOr(config.collateralizationRate, 75000)
        liquidationRate == RateOr(config.liquidationCollateralizationRate, 80000)
    IN IF market \in BBMarkets
       THEN /\ config.collateralizationRate <= FEE_PRECISION
            /\ config.liquidationCollateralizationRate <= FEE_PRECISION
            /\ rate <= liquidationRate
       ELSE rate < liquidationRate
=============================================================================
