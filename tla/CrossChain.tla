----------------------------- MODULE CrossChain -----------------------------
(***************************************************************************)
(* The commands that move tokens and positions between a chain and         *)
(* Arbitrum, where the Singularity market is, and those that prepare them. *)
(*                                                                         *)
(* A command is a script: it reads one chain, sends a transaction on       *)
(* another, waits for confirmations of its own chain, and never for the    *)
(* message to arrive.  Several run at the same time.  Messages between two *)
(* contracts form a path, are delivered in order, and one that reverts is  *)
(* stored by the endpoint and blocks its path until retryPayload is run    *)
(* with the block that stored it.  The tokens, the endpoint, YieldBox and  *)
(* the helpers that act on arrival are external.  A unit of collateral     *)
(* carries a debt of one USDO.                                             *)
(***************************************************************************)
EXTENDS Integers, Sequences, FiniteSets, Bags

CONSTANTS
    MaxCommands,     \* bound on the commands that are run
    BorrowAmounts,   \* what the user asks to borrow against one unit
    Recursive,       \* --recursive of airdropGas
    InitialPool      \* what others have lent to the market

VARIABLES
    running,     \* commands under way, a bag
    started,     \* how many were started
    ready,       \* what the owner has set up
    toft, usdo,  \* where the tokens are
    wrapped,     \* underlying locked by the TOFT
    minted,      \* USDO minted for tests
    market,      \* the Singularity market: debt, lent, nonce of the user
    path,        \* messages under way, of each path
    delivered,   \* how many messages of a path were delivered
    stored,      \* whether the oldest message of a path is stored
    blocks       \* PayloadStored events, by block

vars == <<running, started, ready, toft, usdo, wrapped, minted, market, path, delivered,
          stored, blocks>>
tokens == <<toft, usdo, wrapped, minted, market>>
network == <<path, delivered, stored, blocks>>

Paths == {"TOFT", "USDO", "proxy", "back"}   \* "back": USDO that leaves Arbitrum

-----------------------------------------------------------------------------
(* What the owner sets up, one transaction at a time.                      *)
PacketTypes == <<0, 1, 2, 770, 771, 772, 773>>
MinDstGas(contract, type) == <<"minDstGas", contract, type>>
AdapterParams(contract) == <<"adapterParams", contract>>
TrustedRemote(chain) == <<"trustedRemote", chain>>
Whitelist(chain) == <<"whitelist", chain>>
YbAssets == <<"YieldBox assets">>

ConfiguredContracts == {"USDO", "back"}   \* USDO of each chain
SetupOf(command) ==
    CASE command \in ConfiguredContracts ->   \* configurePacketTypes
           {AdapterParams(command)}
           \cup {MinDstGas(command, PacketTypes[i]) : i \in DOMAIN PacketTypes}
      [] command = "setProxyAdapterParams" -> {AdapterParams("proxy"), MinDstGas("proxy", 1)}
      [] command = "setProxyTrustedRemote" -> {TrustedRemote("from"), TrustedRemote("to")}
      [] command = "fillCluster" -> {Whitelist("to"), Whitelist("from")}
      [] command = "registerYbAssets" -> {YbAssets}
SetupCommands ==
    {"setProxyAdapterParams", "setProxyTrustedRemote", "fillCluster", "registerYbAssets"}
    \cup ConfiguredContracts
IsSetUp == ready = UNION {SetupOf(command) : command \in SetupCommands}

-----------------------------------------------------------------------------
(* Messages, and what must be set up to send them.                         *)
Message(op, borrow, permits) == [op |-> op, borrow |-> borrow, permits |-> permits]

PathOf(op) ==
    CASE op \in {"toft", "deposit", "borrow"} -> "TOFT"
      [] op \in {"usdo", "lend", "repay"} -> "USDO"
      [] op \in {"execute", "executeAndWithdraw"} -> "proxy"
      [] op = "withdraw" -> "back"

PacketType(op) ==
    CASE op \in {"usdo", "withdraw"} -> 0
      [] op \in {"execute", "executeAndWithdraw"} -> 1
      [] op \in {"lend", "repay"} -> 773

CanSend(op) ==
    LET contract == PathOf(op) IN
    /\ contract # "TOFT" =>
          {AdapterParams(contract), MinDstGas(contract, PacketType(op))} \subseteq ready
    /\ contract = "proxy" => TrustedRemote("from") \in ready

Post(message) ==
    path' = [path EXCEPT ![PathOf(message.op)] = Append(@, message)]

(* A permit is valid for one nonce, which MarketERC20 counts for both of   *)
(* its kinds together.                                                     *)
PermitsAreValid(permits) ==
    \A i \in DOMAIN permits : permits[i] = market.nonce + i - 1

Solvent(m, collateral) == m.debt <= collateral
Least(a, b) == IF a < b THEN a ELSE b

-----------------------------------------------------------------------------
(* Arrival: the state after a message, in which nothing may be negative    *)
(* and the position is solvent if something was borrowed.                  *)
Arrived(message) ==
    LET n == message.borrow
        r == Least(1, market.debt)
        t == toft
        u == usdo
        m == [market EXCEPT !.nonce = @ + Len(message.permits)]
    IN CASE message.op = "toft" -> <<[t EXCEPT !.to = @ + 1], u, m>>
         [] message.op = "deposit" -> <<[t EXCEPT !.yieldBox = @ + 1], u, m>>
         [] message.op = "borrow" ->
              <<[t EXCEPT !.collateral = @ + 1], [u EXCEPT !.pool = @ - n],
                [m EXCEPT !.debt = @ + n]>>
         [] message.op = "usdo" -> <<t, [u EXCEPT !.to = @ + 1], m>>
         [] message.op = "lend" -> <<t, [u EXCEPT !.pool = @ + 1], [m EXCEPT !.lent = @ + 1]>>
         [] message.op = "repay" ->
              <<t, [u EXCEPT !.pool = @ + r, !.yieldBox = @ + 1 - r], [m EXCEPT !.debt = @ - r]>>
         [] message.op \in {"execute", "executeAndWithdraw"} ->
              <<[t EXCEPT !.yieldBox = @ - 1, !.collateral = @ + 1],
                [u EXCEPT !.pool = @ - n,
                          !.yieldBox = IF message.op = "execute" THEN @ + n ELSE @],
                [m EXCEPT !.debt = @ + n]>>
         [] message.op = "withdraw" -> <<t, [u EXCEPT !.from = @ + n], m>>

Borrows(message) == message.op \in {"borrow", "execute", "executeAndWithdraw"}
PaysOutAlways(message) == Borrows(message)   \* a mutant: --withdraw is not looked at
Withdraws(message) == message.op \in {"borrow", "executeAndWithdraw"}

Succeeds(message) ==
    LET state == Arrived(message) IN
    /\ PermitsAreValid(message.permits)
    /\ state[1].yieldBox >= 0 /\ state[2].pool >= 0
    /\ Borrows(message) => Solvent(state[3], state[1].collateral)
    /\ message.op = "repay" => market.debt > 0
    /\ message.op \in {"borrow", "lend", "repay"} =>
          {Whitelist("to"), Whitelist("from")} \subseteq ready
    /\ message.op \in {"deposit", "borrow"} => YbAssets \in ready
    /\ PathOf(message.op) = "proxy" => TrustedRemote("to") \in ready
    /\ Withdraws(message) => CanSend("withdraw")

(* The oldest message of a path takes effect.                              *)
Receive(p) ==
    LET message == Head(path[p]) IN
    /\ Succeeds(message)
    /\ toft' = Arrived(message)[1]
    /\ usdo' = Arrived(message)[2]
    /\ market' = Arrived(message)[3]
    /\ path' = LET rest == [path EXCEPT ![p] = Tail(@)] IN
               IF Withdraws(message)
               THEN [rest EXCEPT !.back = Append(@, Message("withdraw", message.borrow, <<>>))]
               ELSE rest
    /\ delivered' = [delivered EXCEPT ![p] = @ + 1]
    /\ UNCHANGED <<running, started, ready, wrapped, minted, blocks>>

Deliver(p) ==
    /\ path[p] # <<>> /\ ~stored[p]
    /\ Receive(p)
    /\ UNCHANGED stored

(* An event is in the block of the last one, or in one of its own.         *)
Event(p) == [path |-> p, nonce |-> delivered[p] + 1]
StorePayload(p) ==
    /\ path[p] # <<>> /\ ~stored[p] /\ ~Succeeds(Head(path[p]))
    /\ stored' = [stored EXCEPT ![p] = TRUE]
    /\ \/ blocks' = Append(blocks, <<Event(p)>>)
       \/ /\ blocks # <<>>
          /\ \A i \in DOMAIN blocks[Len(blocks)] :
                blocks[Len(blocks)][i] = Event(blocks[Len(blocks)][i].path)
          /\ blocks' = [blocks EXCEPT ![Len(blocks)] = Append(@, Event(p))]
    /\ UNCHANGED <<running, started, ready, tokens, path, delivered>>

(* retryPayload looks for the first event of its path in the block it is   *)
(* given; the endpoint refuses a payload that is not the one it stores.    *)
hasStoredPayload(p) == stored[p]
FirstEvent(block, p) == Head(block)   \* a mutant: the path is not compared
EventOf(block, p) == Head(SelectSeq(block, LAMBDA event : event.path = p))
PayloadIsStored(p, event) == event = Event(p)

ClearPayload(p) == stored' = [stored EXCEPT ![p] = FALSE]

RetryPayload(p) ==
    /\ hasStoredPayload(p)
    /\ \E b \in DOMAIN blocks :
          /\ \E i \in DOMAIN blocks[b] : blocks[b][i].path = p
          /\ PayloadIsStored(p, EventOf(blocks[b], p))
    /\ Receive(p)
    /\ ClearPayload(p)

-----------------------------------------------------------------------------
(* Commands that set something up.                                         *)
Prepare(steps) ==
    /\ ready' = ready \cup steps
    /\ UNCHANGED <<running, started, tokens, network>>

(* One type of packet after another; the adapter params with each of them. *)
ConfigurePacketTypes(contract) ==
    \E i \in DOMAIN PacketTypes :
        /\ \A j \in 1..(i - 1) : MinDstGas(contract, PacketTypes[j]) \in ready
        /\ IF MinDstGas(contract, PacketTypes[i]) \in ready
           THEN AdapterParams(contract) \notin ready /\ Prepare({AdapterParams(contract)})
           ELSE /\ i > 1 => AdapterParams(contract) \in ready
                /\ Prepare({MinDstGas(contract, PacketTypes[i])})

SetProxyAdapterParams ==
    IF AdapterParams("proxy") \notin ready
    THEN Prepare({AdapterParams("proxy")})
    ELSE MinDstGas("proxy", 1) \notin ready /\ Prepare({MinDstGas("proxy", 1)})

SetProxyTrustedRemote(chain) ==
    TrustedRemote(chain) \notin ready /\ Prepare({TrustedRemote(chain)})

(* The contracts of the chain itself first, then those of the others.      *)
FillCluster(chain) ==
    /\ Whitelist(chain) \notin ready
    /\ chain # "to" => Whitelist("to") \in ready
    /\ Prepare({Whitelist(chain)})

(* A multicall registers all the assets or none.                           *)
RegisterYbAssets == YbAssets \notin ready /\ Prepare({YbAssets})

-----------------------------------------------------------------------------
(* Commands that move tokens.  Each step is one read or one transaction;   *)
(* one that is refused takes no further step.                              *)
(* Fewer are run, as a bound, before all is set up.                        *)
Begin(command) ==
    /\ started < (IF IsSetUp THEN MaxCommands ELSE MaxCommands - 1)
    /\ started' = started + 1
    /\ running' = running (+) SetToBag({command})

Command(name, step, permits, left) ==
    [name |-> name, step |-> step, permits |-> permits, left |-> left]

Is(c, name, step) == c.name = name /\ c.step = step
Finish(c) == running' = running (-) SetToBag({c})
Become(c, command) == running' = (running (-) SetToBag({c})) (+) SetToBag({command})
Step(c, step) == Become(c, [c EXCEPT !.step = step])

(* Each loads the contracts of both chains from the databases, and throws  *)
(* if one is missing or if it is run on Arbitrum itself.                   *)
StartCrossChainBorrow == Begin(Command("testCrossChainBorrow", "permitBorrow", <<>>, 0))
StartLend == Begin(Command("lend", "permit", <<>>, 0))
StartCrossChainRepay == Begin(Command("crossChainRepay", "permit", <<>>, 0))
StartOtherChainBorrow == Begin(Command("otherChainBorrow", "sendToYB", <<>>, 0))
StartFillMockSwapper == Begin(Command("fillMockSwapper", "wrap", <<>>, 0))
StartAirdropGas == Begin(Command("airdropGas", "mint", <<>>, Recursive))
StartSendFrom == Begin(Command("sendFrom", "send", <<>>, 0))

StartCommand ==
    /\ \/ StartCrossChainBorrow \/ StartLend \/ StartCrossChainRepay
       \/ StartOtherChainBorrow \/ StartFillMockSwapper
       \/ StartAirdropGas \/ StartSendFrom
    /\ UNCHANGED <<ready, tokens, network>>

(* A permit is signed for a nonce: the one read when it is signed, or the  *)
(* one after, for the second permit of a borrow.                           *)
borrowPermit(offset) == market.nonce + offset
lendPermit == market.nonce
repayPermit == market.nonce

Sign(c, permits, step) == Become(c, [c EXCEPT !.permits = permits, !.step = step])

SignPermitBorrow(c) ==
    /\ Is(c, "testCrossChainBorrow", "permitBorrow")
    /\ Sign(c, <<borrowPermit(0)>>, "permitLend")
    /\ UNCHANGED <<started, ready, tokens, network>>

SignPermitLend(c) ==
    /\ Is(c, "testCrossChainBorrow", "permitLend")
    /\ Sign(c, Append(c.permits, borrowPermit(1)), "wrap")
    /\ UNCHANGED <<started, ready, tokens, network>>

SignLend(c) ==
    /\ Is(c, "lend", "permit")
    /\ Sign(c, <<lendPermit>>, "send")
    /\ UNCHANGED <<started, ready, tokens, network>>

SignRepay(c) ==
    /\ Is(c, "crossChainRepay", "permit")
    /\ Sign(c, <<repayPermit>>, "send")
    /\ UNCHANGED <<started, ready, tokens, network>>

Wrap(c) ==
    /\ Is(c, "testCrossChainBorrow", "wrap") \/ Is(c, "fillMockSwapper", "wrap")
    /\ wrapped' = wrapped + 1
    /\ toft' = [toft EXCEPT !.from = @ + 1]
    /\ Step(c, "send")
    /\ UNCHANGED <<started, ready, usdo, minted, market, network>>

SendTOFT(message) ==
    /\ CanSend(message.op)
    /\ toft.from > 0 /\ toft' = [toft EXCEPT !.from = @ - 1]
    /\ Post(message)
    /\ UNCHANGED <<started, ready, usdo, wrapped, minted, market, delivered, stored, blocks>>

SendToYBAndBorrow(c) ==
    /\ Is(c, "testCrossChainBorrow", "send")
    /\ \E n \in BorrowAmounts : SendTOFT(Message("borrow", n, c.permits))
    /\ Finish(c)

SendToYB(c) ==
    /\ Is(c, "otherChainBorrow", "sendToYB")
    /\ SendTOFT(Message("deposit", 0, <<>>))
    /\ Step(c, "executeOnChain")

(* 25 confirmations of the source are waited for, not the arrival.         *)
ExecuteOnChain(c) ==
    /\ Is(c, "otherChainBorrow", "executeOnChain")
    /\ \E op \in {"execute", "executeAndWithdraw"}, n \in BorrowAmounts :
          CanSend(op) /\ Post(Message(op, n, <<>>))
    /\ Finish(c)
    /\ UNCHANGED <<started, ready, tokens, delivered, stored, blocks>>

(* fillMockSwapper sends the TOFT, waits for 150 confirmations, and        *)
(* deposits on Arbitrum what may not have arrived: it then ends.           *)
SendTOFTFrom(c) ==
    /\ Is(c, "fillMockSwapper", "send")
    /\ SendTOFT(Message("toft", 0, <<>>))
    /\ Step(c, "deposit")

FillMockSwapper(c) ==
    /\ Is(c, "fillMockSwapper", "deposit")
    /\ IF YbAssets \in ready /\ toft.to > 0
       THEN toft' = [toft EXCEPT !.to = @ - 1, !.swapper = @ + 1]
       ELSE UNCHANGED toft
    /\ Finish(c)
    /\ UNCHANGED <<started, ready, usdo, wrapped, minted, market, network>>

SendUSDO(message) ==
    /\ CanSend(message.op)
    /\ usdo' = [usdo EXCEPT !.from = @ - 1]
    /\ Post(message)
    /\ UNCHANGED <<started, ready, toft, wrapped, market, delivered, stored, blocks>>

(* lend mints what it lends if the user has not got it.                    *)
SendToYBAndLend(c) ==
    /\ Is(c, "lend", "send")
    /\ CanSend("lend")
    /\ usdo' = [usdo EXCEPT !.from = IF @ > 0 THEN @ - 1 ELSE @]
    /\ minted' = IF usdo.from > 0 THEN minted ELSE minted + 1
    /\ Post(Message("lend", 0, c.permits))
    /\ Finish(c)
    /\ UNCHANGED <<started, ready, toft, wrapped, market, delivered, stored, blocks>>

(* The permit that crossChainRepay signed is not sent.                     *)
SendAndLendOrRepay(c) ==
    /\ Is(c, "crossChainRepay", "send")
    /\ usdo.from > 0 /\ SendUSDO(Message("repay", 0, <<>>))
    /\ Finish(c)
    /\ UNCHANGED minted

(* airdropGas mints if the user has nothing at all, then sends one unit    *)
(* each time, whatever is left.                                            *)
MintForAirdrop(c) ==
    /\ Is(c, "airdropGas", "mint")
    /\ IF usdo.from = 0
       THEN /\ minted' = minted + Recursive
            /\ usdo' = [usdo EXCEPT !.from = Recursive]
       ELSE UNCHANGED <<minted, usdo>>
    /\ Step(c, "send")
    /\ UNCHANGED <<started, ready, toft, wrapped, market, network>>

Airdrop(c) ==
    /\ Is(c, "airdropGas", "send")
    /\ usdo.from > 0 /\ SendUSDO(Message("usdo", 0, <<>>))
    /\ IF c.left > 1 THEN Become(c, [c EXCEPT !.left = @ - 1]) ELSE Finish(c)
    /\ UNCHANGED minted

SendFrom(c) ==
    /\ Is(c, "sendFrom", "send")
    /\ Finish(c)
    /\ UNCHANGED minted
    /\ \/ usdo.from > 0 /\ SendUSDO(Message("usdo", 0, <<>>))
       \/ /\ usdo.to > 0 /\ CanSend("withdraw")
          /\ usdo' = [usdo EXCEPT !.to = @ - 1]
          /\ Post(Message("withdraw", 1, <<>>))
          /\ UNCHANGED <<started, ready, toft, wrapped, market, delivered, stored, blocks>>

-----------------------------------------------------------------------------
(* Everything is set up but what one command does.                         *)
Init ==
    /\ running = EmptyBag /\ started = 0
    /\ \E command \in SetupCommands :
          ready = UNION {SetupOf(c) : c \in SetupCommands \ {command}}
    /\ toft = [from |-> 0, to |-> 0, yieldBox |-> 0, collateral |-> 0, swapper |-> 0]
    /\ usdo = [from |-> 0, to |-> 0, yieldBox |-> 0, pool |-> InitialPool]
    /\ wrapped = 0 /\ minted = 0
    /\ market = [debt |-> 0, lent |-> InitialPool, nonce |-> 0]
    /\ path = [p \in Paths |-> <<>>]
    /\ delivered = [p \in Paths |-> 0]
    /\ stored = [p \in Paths |-> FALSE]
    /\ blocks = <<>>

Setup ==
    \/ \E contract \in ConfiguredContracts : ConfigurePacketTypes(contract)
    \/ SetProxyAdapterParams
    \/ \E chain \in {"from", "to"} : SetProxyTrustedRemote(chain) \/ FillCluster(chain)
    \/ RegisterYbAssets

CommandStep(c) ==
    \/ SignPermitBorrow(c) \/ SignPermitLend(c) \/ SignLend(c) \/ SignRepay(c)
    \/ Wrap(c)
    \/ SendToYBAndBorrow(c) \/ SendToYBAndLend(c) \/ SendAndLendOrRepay(c)
    \/ SendToYB(c) \/ ExecuteOnChain(c)
    \/ SendTOFTFrom(c) \/ FillMockSwapper(c)
    \/ MintForAirdrop(c) \/ Airdrop(c) \/ SendFrom(c)

Next ==
    \/ Setup
    \/ StartCommand
    \/ \E c \in BagToSet(running) : CommandStep(c)
    \/ \E p \in Paths : Deliver(p) \/ StorePayload(p) \/ RetryPayload(p)

(* The network delivers or stores what was sent, and the user retries what *)
(* is stored, each path again and again.                                   *)
Fairness ==
    \A p \in Paths : WF_vars(Deliver(p) \/ StorePayload(p)) /\ WF_vars(RetryPayload(p))

Spec == Init /\ [][Next]_vars /\ Fairness

-----------------------------------------------------------------------------
(* How many messages of a kind are under way, on any path; the USDO, unit  *)
(* by unit, that messages bring back.                                      *)
MessagesOf(messages, ops) == {i \in DOMAIN messages : messages[i].op \in ops}
InFlight(ops) ==
    LET Of(p) == Cardinality(MessagesOf(path[p], ops))
    IN Of("TOFT") + Of("USDO") + Of("proxy")
UnitsOf(messages) == UNION {{i} \X (1..messages[i].borrow) : i \in DOMAIN messages}
Returning == Cardinality(UnitsOf(path.back))

(* No command, in any order of delivery, and no retry, loses a token or    *)
(* counts it twice: what is wrapped or minted is in a wallet, in a message *)
(* or in a contract, and what the pool has lost is owed to it.             *)
NothingLost ==
    /\ wrapped = toft.from + toft.to + toft.yieldBox + toft.collateral + toft.swapper
                 + InFlight({"toft", "deposit", "borrow"})
    /\ minted + InitialPool = usdo.from + usdo.to + usdo.yieldBox + usdo.pool
                              + InFlight({"usdo", "lend", "repay"}) + Returning
    /\ usdo.pool + market.debt = market.lent

(* A message that the destination would accept does not stay in its path,  *)
(* even if it was refused and stored before, in a block with the payloads  *)
(* of other paths (retryPayload__task).                                    *)
PathsDrain ==
    []<>(\A p \in Paths : path[p] = <<>> \/ ~Succeeds(Head(path[p])))
=============================================================================
